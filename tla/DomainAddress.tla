---------------------------- MODULE DomainAddress ----------------------------
(***************************************************************************)
(* The address of an account, in the settings: every name typed is looked  *)
(* up after a pause, an answer counts only if it is that of the newest     *)
(* lookup, and a free name is moved to by pressing twice.  Other tenants   *)
(* take names meanwhile, so the server looks again.                        *)
(***************************************************************************)
EXTENDS Naturals, FiniteSets

CONSTANTS
    Names,      \* addresses of the right form
    Short,      \* what is typed on the way to one
    Own,        \* the address the account starts with
    Losses,     \* lookups may fail
    MaxTyped, MaxClaims, MaxMoves   \* bounds

DomainAddressAssumption ==
    /\ Own \in Names /\ Names \cap Short = {} /\ Losses \in BOOLEAN
    /\ {MaxTyped, MaxClaims, MaxMoves} \subseteq Nat

VARIABLES
    holder,     \* the server: name -> "us", "them", "none"
    known,      \* the address the page has for the account
    slug,       \* what is typed
    verdict,    \* what is said of it: [status, of]
    ticket,     \* number of the newest lookup
    due,        \* the pause before it is not over
    lookups,    \* lookups under way
    sure,       \* the button says "Yes"
    move,       \* {} or the change under way: [to, done, ok]
    tally       \* names typed, names taken by others, changes sent

vars == <<holder, known, slug, verdict, ticket, due, lookups, sure, move, tally>>

Said(status, of) == [status |-> status, of |-> of]

Init ==
    /\ holder \in [Names -> {"us", "them", "none"}]
    /\ \A n \in Names : holder[n] = "us" <=> n = Own
    /\ known = Own /\ slug = Own /\ verdict = Said("current", Own)
    /\ ticket = 0 /\ due = FALSE /\ lookups = {} /\ sure = FALSE /\ move = {}
    /\ tally = [typed |-> 0, claims |-> 0, moves |-> 0]

\* What happens when the name or the address of the account changes: the timer
\* of an older lookup stops, and only a new lookup draws a number.
Judge(s, k) ==
    IF s = k THEN verdict' = Said("current", s) /\ due' = FALSE /\ UNCHANGED ticket
    ELSE IF s \in Short THEN verdict' = Said("invalid", s) /\ due' = FALSE /\ UNCHANGED ticket
    ELSE verdict' = Said("checking", s) /\ due' = TRUE /\ ticket' = ticket + 1

\* A key pressed, or a suggestion taken.
Type(s) ==
    /\ s # slug /\ tally.typed < MaxTyped
    /\ slug' = s /\ Judge(s, known)
    /\ tally' = [tally EXCEPT !.typed = @ + 1]
    /\ UNCHANGED <<holder, known, lookups, sure, move>>

Pause ==
    /\ due /\ due' = FALSE
    /\ lookups' = lookups \cup {[of |-> slug, ticket |-> ticket, done |-> FALSE, free |-> FALSE]}
    /\ UNCHANGED <<holder, known, slug, verdict, ticket, sure, move, tally>>

ServeLookup(l) ==
    /\ ~l.done
    /\ lookups' = (lookups \ {l}) \cup {[l EXCEPT !.done = TRUE, !.free = holder[l.of] = "none"]}
    /\ UNCHANGED <<holder, known, slug, verdict, ticket, due, sure, move, tally>>

\* Faulty variant: whatever answer comes is believed.
NewestAny(l) == TRUE

\* "a newer keystroke already won"
Newest(l) == l.ticket = ticket

LookupAnswered(l) ==
    /\ l.done \/ Losses
    /\ lookups' = lookups \ {l}
    /\ verdict' = IF ~Newest(l) THEN verdict
                  ELSE IF ~l.done THEN Said("error", l.of)
                  ELSE Said(IF l.free THEN "available" ELSE "taken", l.of)
    /\ UNCHANGED <<holder, known, slug, ticket, due, sure, move, tally>>

-----------------------------------------------------------------------------
\* The first press arms the button, the next one sends what is typed then.
Press ==
    /\ verdict.status = "available" /\ move = {} /\ tally.moves < MaxMoves
    /\ IF ~sure THEN sure' = TRUE /\ UNCHANGED <<move, tally>>
       ELSE /\ move' = {[to |-> slug, done |-> FALSE, ok |-> FALSE]}
            /\ tally' = [tally EXCEPT !.moves = @ + 1]
            /\ UNCHANGED sure
    /\ UNCHANGED <<holder, known, slug, verdict, ticket, due, lookups>>

\* The server checks the form and the holder of the name again.
ServeMove(m) ==
    LET ok == m.to \in Names /\ holder[m.to] = "none"
    IN /\ ~m.done
       /\ move' = {[m EXCEPT !.done = TRUE, !.ok = ok]}
       /\ holder' = IF ~ok THEN holder
                    ELSE [n \in Names |-> IF n = m.to THEN "us"
                                          ELSE IF holder[n] = "us" THEN "none" ELSE holder[n]]
       /\ UNCHANGED <<known, slug, verdict, ticket, due, lookups, sure, tally>>

MoveAnswered(m) ==
    /\ m.done /\ move' = {}
    /\ IF m.ok THEN known' = m.to /\ sure' = FALSE /\ Judge(slug, m.to)
       ELSE UNCHANGED <<known, sure, verdict, due, ticket>>
    /\ UNCHANGED <<holder, slug, lookups, tally>>

\* Another tenant takes a name, or gives one up.
Claim(n) ==
    /\ holder[n] # "us" /\ tally.claims < MaxClaims
    /\ holder' = [holder EXCEPT ![n] = IF @ = "none" THEN "them" ELSE "none"]
    /\ tally' = [tally EXCEPT !.claims = @ + 1]
    /\ UNCHANGED <<known, slug, verdict, ticket, due, lookups, sure, move>>

Next ==
    \/ \E s \in Names \cup Short : Type(s)
    \/ Pause \/ Press
    \/ \E l \in lookups : ServeLookup(l) \/ LookupAnswered(l)
    \/ \E m \in move : ServeMove(m) \/ MoveAnswered(m)
    \/ \E n \in Names : Claim(n)

Spec == Init /\ [][Next]_vars

-----------------------------------------------------------------------------
\* The variables have their types; no two lookups have one number, and the
\* account has one address, that of the page unless a change is under way.
TypeOK ==
    /\ holder \in [Names -> {"us", "them", "none"}] /\ slug \in Names \cup Short
    /\ verdict.status \in {"current", "invalid", "checking", "available", "taken", "error"}
    /\ \A l \in lookups : l.ticket <= ticket /\ \A k \in lookups : k.ticket = l.ticket => k = l
    /\ Cardinality({n \in Names : holder[n] = "us"}) = 1
    /\ move = {} => holder[known] = "us"

\* What is said of a name that has to be looked up is said of that name: answers
\* that overtake each other, and names typed between them, do not mix.
VerdictIsOfName ==
    slug \in Names \ {known} => verdict.of = slug

-----------------------------------------------------------------------------
\* Said in the sources and not so in the code: no run checks what follows, and
\* the README tells how each of them is broken.

\* "a newer keystroke already won": the same of whatever is typed.
VerdictIsOfTyped == verdict.of = slug

\* "Press again to confirm": what is moved to is what was on screen at the
\* first press.
ArmedForTyped == [][sure /\ slug' # slug => ~sure']_vars
=============================================================================
