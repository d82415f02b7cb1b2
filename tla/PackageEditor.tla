---------------------------- MODULE PackageEditor ----------------------------
(***************************************************************************)
(* A package from the form to the subscriber's line: what PlanForm loads   *)
(* and sends, what is stored, the RADIUS rows written from it for the      *)
(* package's group and for one subscriber, and fair-use throttling.        *)
(***************************************************************************)
EXTENDS Integers

CONSTANTS Stored,    \* packages there may be at the start (NoPlan: none yet)
          Speeds,    \* Mbps typed
          Sizes,     \* tenths of a GB typed
          Prices,    \* prices typed
          Hours, Days,  \* durations offered
          MaxEdits,  \* bound: fields changed, in all
          MaxSaves,  \* bound: saves
          MaxUsed    \* bound: traffic of the subscriber in a period, in tenths of a GB

EditorAssumption ==
    /\ Speeds \subseteq Nat \ {0} /\ Sizes \subseteq Nat \ {0} /\ Prices \subseteq Nat
    /\ Hours \subseteq Nat \ {0} /\ Days \subseteq Nat \ {0}
    /\ MaxEdits \in Nat /\ MaxSaves \in Nat /\ MaxUsed \in Nat

VARIABLES
    plan,       \* server: the package
    group,      \* RADIUS: reply rows of the package's group
    user,       \* RADIUS: reply rows of the subscriber
    throttled,  \* server: fup_throttled of the subscriber
    used,       \* traffic of the subscriber in this period
    page,       \* "list", "edit", "new", or "saving"
    form,       \* the fields of the form
    opened,     \* the package the untouched form shows, or NoPlan
    behind,     \* the last provisioning failed, which the operator was told
    edits, saves

vars == <<plan, group, user, throttled, used, page, form, opened, behind, edits, saves>>
radius == <<group, user, throttled>>
bounds == <<edits, saves>>

None == -1                \* no value: a null column, a row that is not there
Unusable == -2            \* a throttled speed that holds no number
Types == {"pppoe", "hotspot", "trial", "bundle"}

NoPlan == [type |-> "none", hours |-> 0, days |-> 0, up |-> 0, down |-> 0, price |-> 0,
           cap |-> None, size |-> 0, fup |-> FALSE, over |-> 0, slow |-> 0]
NoRows == [rate |-> <<0, 0>>, total |-> None]

\* initialForm. A price is a number, None when empty, and "typed" when it is text.
Blank == [type |-> "hotspot", hours |-> 0, days |-> 30, up |-> 0, down |-> 0,
          price |-> None, typed |-> TRUE, bundle |-> 0, fup |-> FALSE, over |-> 0, slow |-> 0]

TypeOK ==
    /\ plan = NoPlan \/ plan.type \in Types
    /\ group.total \in Int /\ user.total \in Int
    /\ throttled \in BOOLEAN /\ used \in 0 .. MaxUsed /\ behind \in BOOLEAN
    /\ page \in {"list", "edit", "new", "saving"}
    /\ form.price \in Nat \cup {None} /\ form.typed \in BOOLEAN
    /\ plan.fup => plan.over # 0 /\ plan.slow # 0

-----------------------------------------------------------------------------
(* What a package means                                                    *)

\* get_plan_limits, the data cap in tenths of a GB: the column, or the features.
Limit(p) == IF p.cap # None THEN 10 * p.cap ELSE p.size

Rate(p) == <<p.up, p.down>>

\* normalize_rate_limit
Slow(p) == IF p.slow > 0 THEN <<p.slow, p.slow>> ELSE <<0, 0>>

\* generate_radius_attributes: whole GB; a throttled user has no cap.
Rows(p, slowed) ==
    IF slowed /\ Slow(p) # <<0, 0>> THEN [rate |-> Slow(p), total |-> None]
    ELSE [rate |-> Rate(p), total |-> IF Limit(p) > 0 THEN Limit(p) \div 10 ELSE None]

\* ensure_plan_group: a row is added or changed, never removed.
Ensured(rows, p) ==
    LET new == Rows(p, FALSE) IN
    [rate |-> IF new.rate # <<0, 0>> THEN new.rate ELSE rows.rate,
     total |-> IF new.total # None THEN new.total ELSE rows.total]

\* A reply takes from the group what the user's own rows do not say.
Reply == [rate |-> IF user.rate # <<0, 0>> THEN user.rate ELSE group.rate,
          total |-> IF user.total # None THEN user.total ELSE group.total]

\* plan_subscription_end, in hours
Granted(p) ==
    IF p.type = "hotspot" THEN (IF p.hours # 0 THEN p.hours ELSE 24)
    ELSE 24 * (IF p.days # 0 THEN p.days ELSE 30)

\* packageDurationLabel, in hours; 0 where it shows a dash
Label(p) ==
    IF p.hours # 0 THEN p.hours
    ELSE IF p.days # 0 THEN 24 * p.days
    ELSE IF p.type = "pppoe" THEN 24 * 30 ELSE 0

\* What a subscriber of the package gets.
Service(p) == [rate |-> Rate(p), cap |-> Rows(p, FALSE).total, hours |-> Granted(p), price |-> p.price,
               over |-> IF p.fup THEN p.over ELSE 0, slow |-> IF p.fup THEN p.slow ELSE 0]

-----------------------------------------------------------------------------
(* The form                                                                *)

\* loadPlan: the threshold falls back to the cap.
FromPlan(p) ==
    [type |-> p.type, hours |-> p.hours, days |-> IF p.days # 0 THEN p.days ELSE 30,
     up |-> p.up, down |-> p.down, price |-> p.price, typed |-> FALSE,
     bundle |-> IF p.type = "bundle" /\ p.cap # None THEN 10 * p.cap ELSE 0,
     fup |-> p.fup,
     over |-> IF p.over # 0 THEN p.over ELSE IF p.cap # None THEN 10 * p.cap ELSE 0,
     slow |-> p.slow]

\* The integer column takes the nearest whole number of GB.
Column(size) == (size + 5) \div 10

Metered(f) == IF f.type = "bundle" /\ f.bundle # 0 THEN f.bundle ELSE IF f.fup THEN f.over ELSE 0

\* handleSubmit and buildFeatures: the package that is stored.
Payload(f) ==
    [type |-> f.type, hours |-> IF f.type # "pppoe" THEN f.hours ELSE 0,
     days |-> IF f.type = "pppoe" THEN f.days ELSE 0,
     up |-> IF f.up # 0 THEN f.up ELSE f.down, down |-> f.down, price |-> f.price,
     cap |-> IF Metered(f) # 0 THEN Column(Metered(f)) ELSE None, size |-> Metered(f),
     fup |-> f.fup, over |-> IF f.fup THEN f.over ELSE 0, slow |-> IF f.fup THEN f.slow ELSE 0]

Valid(f) ==
    /\ f.down # 0 /\ f.price # None
    /\ f.type = "bundle" => f.bundle # 0
    /\ f.fup => f.over # 0 /\ f.slow # 0

\* handlePlanTypeSelect: a trial is free; leaving it asks for a price again.
PriceFor(t) ==
    IF t = "trial" THEN [price |-> 0, typed |-> TRUE]
    ELSE IF form.price = 0 /\ form.typed THEN [price |-> None, typed |-> TRUE]
    ELSE [price |-> form.price, typed |-> form.typed]

-----------------------------------------------------------------------------
Init ==
    /\ plan \in Stored
    /\ group = IF plan = NoPlan THEN NoRows ELSE Rows(plan, FALSE)
    /\ user = NoRows /\ throttled = FALSE /\ used = 0
    /\ page = "list" /\ form = Blank /\ opened = NoPlan /\ behind = FALSE
    /\ edits = 0 /\ saves = 0

OpenNew ==
    /\ page = "list" /\ plan = NoPlan /\ page' = "new" /\ form' = Blank /\ opened' = NoPlan
    /\ UNCHANGED <<plan, radius, used, behind, bounds>>

OpenEdit ==
    /\ page = "list" /\ plan # NoPlan /\ page' = "edit" /\ form' = FromPlan(plan) /\ opened' = plan
    /\ UNCHANGED <<plan, radius, used, behind, bounds>>

Editing == page \in {"new", "edit"} /\ edits < MaxEdits /\ edits' = edits + 1 /\ opened' = NoPlan

SelectType ==
    /\ Editing
    /\ \E t \in Types \ {form.type} :
           form' = [form EXCEPT !.type = t, !.price = PriceFor(t).price, !.typed = PriceFor(t).typed,
                                !.bundle = IF t = "bundle" THEN @ ELSE 0]
    /\ UNCHANGED <<plan, radius, used, page, behind, saves>>

\* A field is typed: a trial shows no price, a policy that is off no threshold.
TypeField ==
    /\ Editing
    /\ form' \in
           {[form EXCEPT !.down = s] : s \in Speeds} \cup {[form EXCEPT !.up = s] : s \in Speeds}
           \cup {[form EXCEPT !.price = p, !.typed = TRUE] : p \in {q \in Prices : form.type # "trial"}}
           \cup {[form EXCEPT !.bundle = s] : s \in {z \in Sizes : form.type = "bundle"}}
           \cup {[form EXCEPT !.hours = h] : h \in {k \in Hours : form.type # "pppoe"}}
           \cup {[form EXCEPT !.days = d] : d \in {k \in Days : form.type = "pppoe"}}
    /\ UNCHANGED <<plan, radius, used, page, behind, saves>>

TypePolicy ==
    /\ Editing
    /\ form' \in
           {[form EXCEPT !.fup = ~form.fup]}
           \cup {[form EXCEPT !.over = s] : s \in {z \in Sizes : form.fup}}
           \cup {[form EXCEPT !.slow = s] : s \in {z \in Speeds \cup {Unusable} : form.fup}}
    /\ UNCHANGED <<plan, radius, used, page, behind, saves>>

Cancel == page \in {"new", "edit"} /\ page' = "list" /\ UNCHANGED <<plan, radius, used, form, opened, behind, bounds>>

\* create_plan, update_plan: the package is committed first.
Save ==
    /\ page \in {"new", "edit"} /\ Valid(form) /\ saves < MaxSaves /\ saves' = saves + 1
    /\ plan' = Payload(form) /\ page' = "saving"
    /\ UNCHANGED <<radius, used, form, opened, behind, edits>>

\* Faulty variant: only the group is written.
ProvisionGroup ==
    /\ page = "saving" /\ page' = "list" /\ behind' = FALSE
    /\ group' = Ensured(group, plan)
    /\ UNCHANGED <<plan, user, throttled, used, form, opened, bounds>>

\* ensure_plan_group and, for an edited package, reprovision_plan_customers.
Provision ==
    /\ page = "saving" /\ page' = "list" /\ behind' = FALSE
    /\ group' = Ensured(group, plan)
    /\ user' = IF user = NoRows THEN user ELSE Rows(plan, FALSE)
    /\ UNCHANGED <<plan, throttled, used, form, opened, bounds>>

\* Provisioning fails: the package stays saved, the rows as they were.
ProvisionFails ==
    /\ page = "saving" /\ page' = "list" /\ behind' = TRUE
    /\ UNCHANGED <<plan, radius, used, form, opened, bounds>>

-----------------------------------------------------------------------------
(* The subscriber                                                          *)

\* activate_customer_after_payment, the rows of provision_customer_radius.
Activate ==
    /\ plan # NoPlan /\ group' = Ensured(group, plan) /\ user' = Rows(plan, FALSE)
    /\ UNCHANGED <<plan, throttled, used, page, form, opened, behind, bounds>>

Use == /\ user # NoRows /\ used < MaxUsed /\ used' = used + 1
       /\ UNCHANGED <<plan, radius, page, form, opened, behind, bounds>>

NewPeriod == used # 0 /\ used' = 0 /\ UNCHANGED <<plan, radius, page, form, opened, behind, bounds>>

\* compute_fup_status is "throttled"
Over(p) == p.fup /\ used >= p.over

\* apply_fup_enforcement
Enforce ==
    /\ user # NoRows
    /\ \/ Over(plan) /\ Slow(plan) # <<0, 0>> /\ ~throttled /\ throttled' = TRUE
       \/ throttled /\ ~Over(plan) /\ throttled' = FALSE
    /\ group' = Ensured(group, plan) /\ user' = Rows(plan, throttled')
    /\ UNCHANGED <<plan, used, page, form, opened, behind, bounds>>

Next ==
    \/ OpenNew \/ OpenEdit \/ SelectType \/ TypeField \/ TypePolicy \/ Cancel
    \/ Save \/ Provision \/ ProvisionFails
    \/ Activate \/ Use \/ NewPeriod \/ Enforce

Spec == Init /\ [][Next]_vars

-----------------------------------------------------------------------------
\* Unless the operator was warned, the subscriber's line runs at the speed of
\* the saved package, or at its throttled speed.
AppliedIsSaved ==
    (user # NoRows /\ ~behind /\ page # "saving") =>
        group.rate = Rate(plan) /\ (Reply.rate = Rate(plan) \/ throttled)

\* PlanForm: "Trial packages are always free".
TrialIsFree == plan.type = "trial" => plan.price = 0

\* A package opened and saved without a change gives what it gave before.
UntouchedSaveKeeps ==
    (page = "edit" /\ page' = "saving" /\ opened = plan) => Service(plan') = Service(plan)


-----------------------------------------------------------------------------
\* Said in the sources and not so in the code: no run checks what follows, and
\* the README tells how each of them is broken.

\* generate_radius_attributes: "a throttled user is speed-limited, not cut off
\* at a byte cap".
ThrottledIsNotCut == (throttled /\ user.total = None) => Reply.total = None

\* fup_enforcement: the flag tracks the state of the subscriber, so that only
\* transitions provision again.
FlagIsThrottle == (throttled /\ Over(plan) /\ Slow(plan) # <<0, 0>> /\ page # "saving") => Reply.rate = Slow(plan)

\* The duration the list shows is the duration a payment grants.
LabelIsGranted == plan # NoPlan /\ Label(plan) # 0 => Label(plan) = Granted(plan)

\* reprovision_plan_customers: "Re-provision all active customers on a plan
\* after limit changes".
CapIsSaved ==
    (user # NoRows /\ ~behind /\ page # "saving" /\ ~throttled) => Reply.total = Rows(plan, FALSE).total

\* PlanForm: "Bundle requires a total data limit (GB)".
BundleIsCapped == plan.type = "bundle" => Rows(plan, FALSE).total # None
=============================================================================
