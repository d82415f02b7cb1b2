---------------------------- MODULE ProviderVault ----------------------------
(***************************************************************************)
(* Settings > Communications and > WhatsApp: the stored credentials of     *)
(* each provider, the one a channel is sent through, the panel that edits  *)
(* both, and the gateway a message then leaves by.                         *)
(***************************************************************************)
EXTENDS Naturals, FiniteSets

CONSTANTS Sms, Whatsapp,  \* providers of each channel
          Listed,         \* the SMS provider "All integrations" and the checklist know
          Values,         \* what is typed in a field
          Overlap,        \* the operator acts while the panel still loads
          Toggles,        \* switches of "All integrations" are used too
          MaxEdits,       \* bound: fields changed
          MaxLoads,       \* bound: lists asked for
          MaxTabs         \* bound: changes of panel

VaultAssumption ==
    /\ Sms \cap Whatsapp = {} /\ Listed \in Sms /\ Overlap \in BOOLEAN /\ Toggles \in BOOLEAN
    /\ MaxEdits \in Nat /\ MaxLoads \in Nat /\ MaxTabs \in Nat

VARIABLES
    rows,      \* server: integration_settings of each provider
    selected,  \* server: sms_provider, whatsapp_provider
    tab,       \* the channel whose panel is open
    data,      \* the answer the panel shows, or Nothing
    loads,     \* requests for a list: unanswered [id, channel, seen, old]
    open,      \* the provider opened, or "none"
    form,      \* its fields
    request,   \* the write under way, or Idle
    stale,     \* the list shown was read before a switch elsewhere, or could not be loaded again
    edits, asked, tabs

vars == <<rows, selected, tab, data, loads, open, form, request, stale, edits, asked, tabs>>
server == <<rows, selected>>
panel == <<tab, data, loads, open, form, stale>>
bounds == <<edits, asked, tabs>>

Channels == {"sms", "whatsapp"}
Providers == Sms \cup Whatsapp
Of(ch) == IF ch = "sms" THEN Sms ELSE Whatsapp
Empty == "empty"
Texts == Values \cup {Empty}
Config == [plain: Texts, secret: Texts]
Blank == [plain |-> Empty, secret |-> Empty]
Nothing == [channel |-> "none"]
Idle == [kind |-> "idle"]
Waiting == [channel |-> "unanswered"]

\* missing_fields: each provider stands for one required field of either sort.
Missing(c) == c.plain = Empty \/ c.secret = Empty

\* list_messaging_providers: a stored secret is a mask, a row that is off is not configured.
List(ch) ==
    [channel |-> ch, active |-> selected[ch],
     shown |-> [p \in Of(ch) |-> [plain |-> rows[p].config.plain, masked |-> rows[p].config.secret # Empty,
                                   configured |-> rows[p].enabled /\ ~Missing(rows[p].config)]]]

\* _tenant_gateway, resolve_gateway: what a message of the channel leaves by.
Gateway(ch) ==
    LET p == selected[ch] IN
    IF p # "none" /\ rows[p].enabled /\ ~Missing(rows[p].config) THEN "tenant"
    ELSE IF ch = "sms" THEN "platform" ELSE "nothing"

\* The provider of the list that is open; one the list does not hold shows the list.
Detail == IF data # Nothing /\ open \in DOMAIN data.shown THEN open ELSE "none"

\* initial of ProviderDetail: a masked secret is shown empty.
Initial(d, p) == IF p \in DOMAIN d.shown THEN [plain |-> d.shown[p].plain, secret |-> Empty] ELSE Blank

TypeOK ==
    /\ rows \in [Providers -> [enabled: BOOLEAN, config: Config]]
    /\ \A ch \in Channels : selected[ch] \in Of(ch) \cup {"none"}
    /\ tab \in Channels /\ open \in Providers \cup {"none"} /\ form \in Config
    /\ data = Nothing \/ data.channel \in Channels
    /\ \A l \in loads : l.id \in 1 .. MaxLoads /\ l.channel \in Channels
    /\ request.kind \in {"idle", "save", "activate", "revert"} /\ stale \in BOOLEAN

-----------------------------------------------------------------------------
Init ==
    /\ rows \in [Providers -> {[enabled |-> FALSE, config |-> Blank]} \cup
                   {[enabled |-> TRUE, config |-> [plain |-> v, secret |-> v]] : v \in Values}]
    /\ selected = [ch \in Channels |-> "none"]
    /\ tab = "sms" /\ data = Nothing /\ open = "none" /\ form = Blank
    /\ loads = {[id |-> 1, channel |-> "sms", seen |-> Waiting, old |-> FALSE]}
    /\ request = Idle /\ stale = FALSE /\ edits = 0 /\ asked = 1 /\ tabs = 0

\* load
Asked(ch) == loads \cup {[id |-> asked + 1, channel |-> ch, seen |-> Waiting, old |-> FALSE]}

Free == Overlap \/ loads = {}

\* go: both channels are one component, so the panel keeps its state.
GoTo(ch) ==
    /\ ch # tab /\ Free /\ tabs < MaxTabs /\ asked < MaxLoads
    /\ tab' = ch /\ loads' = Asked(ch) /\ asked' = asked + 1 /\ tabs' = tabs + 1
    /\ UNCHANGED <<server, data, open, form, request, stale, edits>>

Serve(l) ==
    /\ l.seen = Waiting /\ loads' = (loads \ {l}) \cup {[l EXCEPT !.seen = List(l.channel)]}
    /\ UNCHANGED <<server, tab, data, open, form, request, stale, bounds>>

\* setData, and the effect that puts the fields back on new data.
Loaded(l) ==
    /\ l.seen # Waiting /\ loads' = loads \ {l} /\ data' = l.seen /\ stale' = l.old
    /\ form' = Initial(l.seen, open)
    /\ UNCHANGED <<server, tab, open, request, bounds>>

LoadFails(l) ==
    /\ loads' = loads \ {l} /\ stale' = TRUE
    /\ UNCHANGED <<server, tab, data, open, form, request, bounds>>

OpenProvider(p) ==
    /\ data # Nothing /\ Detail = "none" /\ Free /\ p \in DOMAIN data.shown
    /\ open' = p /\ form' = Initial(data, p)
    /\ UNCHANGED <<server, tab, data, loads, request, stale, bounds>>

Back ==
    /\ Detail # "none" /\ open' = "none" /\ form' = Blank
    /\ UNCHANGED <<server, tab, data, loads, request, stale, bounds>>

Type ==
    /\ Detail # "none" /\ Free /\ edits < MaxEdits /\ edits' = edits + 1
    /\ \E v \in Texts : form' \in {[form EXCEPT !.plain = v], [form EXCEPT !.secret = v]}
    /\ UNCHANGED <<server, tab, data, loads, open, request, stale, asked, tabs>>

Dirty == form # Initial(data, Detail)

Reset ==
    /\ Detail # "none" /\ Dirty /\ request = Idle /\ form' = Initial(data, Detail)
    /\ UNCHANGED <<server, tab, data, loads, open, request, stale, bounds>>

-----------------------------------------------------------------------------
Sends(r) ==
    /\ request = Idle /\ Free /\ request' = r
    /\ UNCHANGED <<server, panel, bounds>>

Save == Detail # "none" /\ Dirty /\ Sends([kind |-> "save", of |-> Detail, config |-> form])

Activate ==
    /\ Detail # "none" /\ data.active # Detail /\ data.shown[Detail].configured
    /\ Sends([kind |-> "activate", of |-> Detail, channel |-> tab])

\* revert: the platform default, or off.
Revert ==
    /\ data # Nothing /\ Detail = "none" /\ data.active # "none"
    /\ Sends([kind |-> "revert", channel |-> tab])

\* Faulty variant: an empty secret is stored.
MergedAll(old, new) == new

\* update_integration: an empty secret keeps the stored one, other fields are as sent.
Merged(old, new) == [new EXCEPT !.secret = IF new.secret = Empty THEN old.secret ELSE new.secret]

\* Faulty variant: the list is not asked for again.
AnsweredOnly == request' = Idle /\ UNCHANGED <<tab, data, loads, stale, bounds>>

\* After an answer the list is asked for again.
Answered ==
    /\ request' = Idle /\ asked < MaxLoads /\ asked' = asked + 1 /\ loads' = Asked(tab)
    /\ UNCHANGED <<tab, data, stale, edits, tabs>>

StoreSaved ==
    /\ request.kind = "save" /\ Answered
    /\ rows' = [rows EXCEPT ![request.of] = [enabled |-> TRUE, config |-> Merged(@.config, request.config)]]
    /\ UNCHANGED <<selected, open, form>>

\* set_active_messaging_provider refuses an unknown provider or missing credentials.
Refused(p, ch) == p \notin Of(ch) \/ Missing(rows[p].config)

StoreActive ==
    /\ request.kind = "activate" /\ ~Refused(request.of, request.channel) /\ Answered
    /\ selected' = [selected EXCEPT ![request.channel] = request.of]
    /\ rows' = [rows EXCEPT ![request.of].enabled = TRUE]
    /\ open' = "none" /\ form' = Blank

StoreReverted ==
    /\ request.kind = "revert" /\ Answered
    /\ selected' = [selected EXCEPT ![request.channel] = "none"] /\ UNCHANGED <<rows, open, form>>

\* The request stale, or the server refused: only a message is shown.
WriteFails ==
    /\ request # Idle /\ request' = Idle /\ UNCHANGED <<server, panel, bounds>>

\* toggle of "All integrations": enabled alone.
ToggleRow ==
    /\ Toggles /\ rows' = [rows EXCEPT ![Listed].enabled = ~@] /\ stale' = TRUE
    /\ loads' = {[l EXCEPT !.old = l.seen # Waiting] : l \in loads}
    /\ UNCHANGED <<selected, tab, data, open, form, request, bounds>>

Next ==
    \/ \E ch \in Channels : GoTo(ch)
    \/ \E l \in loads : Serve(l) \/ Loaded(l) \/ LoadFails(l)
    \/ \E p \in Providers : OpenProvider(p)
    \/ Back \/ Type \/ Reset \/ Save \/ Activate \/ Revert
    \/ StoreSaved \/ StoreActive \/ StoreReverted \/ WriteFails \/ ToggleRow

Spec == Init /\ [][Next]_vars

-----------------------------------------------------------------------------
\* "Leave a secret blank to keep the one already saved": no save loses a secret.
SecretsStay == \A p \in Providers : rows[p].config.secret # Empty => rows'[p].config.secret # Empty

\* "switching provider leaves the previous one's credentials in place"
SwitchingKeeps == selected' # selected => \A p \in Providers : rows'[p].config = rows[p].config

\* Once everything is answered, the panel shows its channel's providers as stored.
ShownIsStored == (loads = {} /\ request = Idle /\ ~stale /\ data # Nothing) => data = List(tab)

\* _sms_provider_done of the checklist is true when SMS leave by the tenant's gateway.
Done == rows[Listed].enabled /\ ~Missing(rows[Listed].config)

-----------------------------------------------------------------------------
\* Said in the sources and not so in the code: no run checks what follows, and
\* the README tells how each of them is broken.

\* "active can never point at credentials that do not exist"
ActiveHasCredentials == \A ch \in Channels : selected[ch] # "none" => ~Missing(rows[selected[ch]].config)

\* "Everything on screen comes from GET /settings/messaging/<channel>"
ShownIsOfChannel == (loads = {} /\ data # Nothing) => data.channel = tab

\* "Until you pick a provider, receipts and reminders go out on" the platform's
\* gateway: with a provider picked and its credentials there, they go out on it.
ActiveIsSentThrough ==
    \A ch \in Channels :
        selected[ch] # "none" /\ ~Missing(rows[selected[ch]].config) => Gateway(ch) = "tenant"

\* The dashboard's checklist, "Enabled *and* carrying credentials": messages are ticked
\* off when, and only when, they leave by the tenant's own provider.
DoneIsSentThrough ==
    (request = Idle /\ selected["sms"] # "none") => (Done <=> Gateway("sms") = "tenant")
=============================================================================
