----------------------------- MODULE Onboarding -----------------------------
(***************************************************************************)
(* Self-serve signup: OnboardingWizard walks a person through five steps,  *)
(* each a request to the signup's row on the server, and then shows the    *)
(* job that turns the row into a tenant.  The token in sessionStorage is   *)
(* all that survives a reload; answers can be lost; the job is a thread    *)
(* of the server and dies with it.  A signup is the number of its row.     *)
(***************************************************************************)
EXTENDS Naturals, FiniteSets

CONSTANTS Persons, Emails, Slugs,
          MaxSignups,   \* bound: rows
          MaxReloads,   \* bound: reloads of the page by each person
          MayLose,      \* whether requests and answers may be lost
          MayCrash      \* whether the server may restart

OnboardingAssumption ==
    /\ MaxSignups \in Nat \ {0} /\ MaxReloads \in Nat /\ MayLose \in BOOLEAN /\ MayCrash \in BOOLEAN
    /\ "none" \notin Slugs

VARIABLES
    step,     \* the wizard's step
    email,    \* the address typed in step 1
    token,    \* the signup of the wizard (state); saved: the one in sessionStorage
    saved,
    busy,     \* the request under way, none, or boot
    reply,    \* its answer, once served, and the signup it names
    screen,   \* what the provisioning screen shows
    reloads,
    row,      \* server: the signups
    job,      \* server: the provisioning threads, and the slug each will insert
    tenants,  \* server: the signup each address belongs to
    admins    \* server: the signup, or other, each user's email belongs to

wizard == <<step, email, token, saved, busy, reply, screen, reloads>>
server == <<row, job, tenants, admins>>
vars == <<wizard, server>>

Signups == 1 .. MaxSignups
None == 0
Other == MaxSignups + 1
Kinds == {"start", "retarget", "verify", "account", "profile", "complete"}
Statuses == {"none", "pending", "provisioning", "completed", "failed"}
Row == [status : Statuses, reached : 0 .. 6, email : Emails \cup {"none"}, verified : BOOLEAN,
        slug : Slugs \cup {"none"}, expired : BOOLEAN, error : {"none", "slug", "email"}]
NoRow == [status |-> "none", reached |-> 0, email |-> "none", verified |-> FALSE,
          slug |-> "none", expired |-> FALSE, error |-> "none"]
Idle == [at |-> "idle", slug |-> "none"]
Nothing == [is |-> "none", to |-> None]

\* The wizard has a token only when sessionStorage has the same one.
TypeOK ==
    /\ step \in [Persons -> 1 .. 6] /\ email \in [Persons -> Emails]
    /\ token \in [Persons -> Signups \cup {None}] /\ saved \in [Persons -> Signups \cup {None}]
    /\ busy \in [Persons -> Kinds \cup {"none", "boot"}]
    /\ reply \in [Persons -> [is : {"none", "ok", "refused", "verified"}, to : Signups \cup {None}]]
    /\ screen \in [Persons -> {"provisioning", "completed", "failed"}]
    /\ reloads \in [Persons -> 0 .. MaxReloads] /\ row \in [Signups -> Row]
    /\ job \in [Signups -> [at : {"idle", "claim", "insert", "admin", "finish"},
                            slug : Slugs \cup {"none"}]]
    /\ tenants \in [Slugs -> Signups \cup {None}]
    /\ admins \in [Emails -> Signups \cup {None, Other}]
    /\ \A p \in Persons : /\ reply[p].is # "none" => busy[p] \in Kinds
                          /\ token[p] # None => saved[p] = token[p]

Init ==
    /\ step = [p \in Persons |-> 1] /\ email \in [Persons -> Emails]
    /\ token = [p \in Persons |-> None] /\ saved = [p \in Persons |-> None]
    /\ busy = [p \in Persons |-> "none"] /\ reply = [p \in Persons |-> Nothing]
    /\ screen = [p \in Persons |-> "provisioning"] /\ reloads = [p \in Persons |-> 0]
    /\ row = [i \in Signups |-> NoRow] /\ job = [i \in Signups |-> Idle]
    /\ tenants = [s \in Slugs |-> None] /\ admins = [e \in Emails |-> None]

-----------------------------------------------------------------------------
\* The forms on screen, and the request each makes.
IdentityForm(p) ==
    IF step[p] # 1 THEN {} ELSE IF token[p] = None THEN {"start"} ELSE {"retarget"}
CodeForm(p) == IF step[p] = 2 THEN {"verify"} ELSE {}
AccountForm(p) == IF step[p] = 3 THEN {"account"} ELSE {}
LocaleForm(p) == IF step[p] = 4 THEN {"profile"} ELSE {}
PasswordForm(p) == IF step[p] = 5 THEN {"complete"} ELSE {}

TypeEmail(p, e) ==
    /\ step[p] = 1 /\ busy[p] = "none" /\ email[p] # e
    /\ email' = [email EXCEPT ![p] = e]
    /\ UNCHANGED <<step, token, saved, busy, reply, screen, reloads, server>>

Submit(p) ==
    /\ busy[p] = "none"
    /\ \E k \in IdentityForm(p) \cup CodeForm(p) \cup AccountForm(p) \cup LocaleForm(p) \cup PasswordForm(p) :
          busy' = [busy EXCEPT ![p] = k]
    /\ UNCHANGED <<step, email, token, saved, reply, screen, reloads, server>>

GoBack(p) ==
    /\ busy[p] = "none" /\ step[p] \in 2 .. 5
    /\ step' = [step EXCEPT ![p] = @ - 1]
    /\ UNCHANGED <<email, token, saved, busy, reply, screen, reloads, server>>

\* "Use a different number", whatever is under way.
ChangeNumber(p) ==
    /\ step[p] = 2 /\ busy[p] # "boot"
    /\ step' = [step EXCEPT ![p] = 1]
    /\ UNCHANGED <<email, token, saved, busy, reply, screen, reloads, server>>

\* A request accepted leads to the next step; a new number back to the code.
NextStep(k) ==
    CASE k \in {"start", "retarget"} -> 2 [] k = "verify" -> 3 [] k = "account" -> 4
      [] k = "profile" -> 5 [] OTHER -> 6

\* Only start's answer brings a token, and it is saved.
Keep(p) ==
    IF busy[p] # "start" THEN UNCHANGED <<token, saved>>
    ELSE /\ token' = [token EXCEPT ![p] = reply[p].to]
         /\ saved' = [saved EXCEPT ![p] = reply[p].to]

Answered(p) ==
    /\ reply[p].is # "none"
    /\ busy' = [busy EXCEPT ![p] = "none"] /\ reply' = [reply EXCEPT ![p] = Nothing]
    /\ IF reply[p].is = "ok" THEN step' = [step EXCEPT ![p] = NextStep(busy[p])] /\ Keep(p)
       ELSE UNCHANGED <<step, token, saved>>
    /\ UNCHANGED <<email, screen, reloads, server>>

\* The request, or its answer, is lost: an error on the form.
Lost(p) ==
    /\ MayLose /\ busy[p] \in Kinds
    /\ busy' = [busy EXCEPT ![p] = "none"] /\ reply' = [reply EXCEPT ![p] = Nothing]
    /\ UNCHANGED <<step, email, token, saved, screen, reloads, server>>

\* The page is loaded anew: all state but the saved token is gone.
Reload(p) ==
    /\ reloads[p] < MaxReloads
    /\ reloads' = [reloads EXCEPT ![p] = @ + 1]
    /\ step' = [step EXCEPT ![p] = 1] /\ token' = [token EXCEPT ![p] = None]
    /\ busy' = [busy EXCEPT ![p] = IF saved[p] # None THEN "boot" ELSE "none"]
    /\ reply' = [reply EXCEPT ![p] = Nothing]
    /\ screen' = [screen EXCEPT ![p] = "provisioning"]
    /\ UNCHANGED <<email, saved, server>>

\* restore: where the row has got to.
Position(r) == IF r.status \in {"provisioning", "completed"} THEN 6
               ELSE IF r.reached > 5 THEN 5 ELSE r.reached

\* A session that is completed or under way is read even when expired.
Readable(r) == r.status # "none"

Restored(p) ==
    /\ busy[p] = "boot" /\ Readable(row[saved[p]])
    /\ busy' = [busy EXCEPT ![p] = "none"]
    /\ token' = [token EXCEPT ![p] = saved[p]]
    /\ step' = [step EXCEPT ![p] = Position(row[saved[p]])]
    /\ email' = [email EXCEPT ![p] = row[saved[p]].email]
    /\ UNCHANGED <<saved, reply, screen, reloads, server>>

\* The session was not there, or could not be read: the token is dropped.
NotRestored(p) ==
    /\ busy[p] = "boot" /\ (~Readable(row[saved[p]]) \/ MayLose)
    /\ busy' = [busy EXCEPT ![p] = "none"] /\ saved' = [saved EXCEPT ![p] = None]
    /\ UNCHANGED <<step, email, token, reply, screen, reloads, server>>

\* The provisioning screen's poll; it goes on while the job does, or a poll fails.
Poll(p) ==
    /\ step[p] = 6 /\ screen[p] = "provisioning"
    /\ row[token[p]].status \in {"provisioning", "completed", "failed"}
    /\ screen' = [screen EXCEPT ![p] = row[token[p]].status]
    /\ UNCHANGED <<step, email, token, saved, busy, reply, reloads, server>>

\* "Go to sign in" retires the signup; the wizard opened next is a new one.
Finish(p) ==
    /\ step[p] = 6 /\ screen[p] = "completed"
    /\ saved' = [saved EXCEPT ![p] = None] /\ token' = [token EXCEPT ![p] = None]
    /\ step' = [step EXCEPT ![p] = 1] /\ screen' = [screen EXCEPT ![p] = "provisioning"]
    /\ UNCHANGED <<email, busy, reply, reloads, server>>

-----------------------------------------------------------------------------
\* The server's handlers.
Live(r) == r.status \in {"pending", "failed"} /\ ~r.expired
Reached(r, n) == IF r.reached < n THEN n ELSE r.reached

Serve(p, i, r, answer) ==
    /\ busy[p] \in Kinds /\ reply[p].is = "none"
    /\ row' = [row EXCEPT ![i] = r]
    /\ reply' = [reply EXCEPT ![p] = [is |-> answer, to |-> i]]
    /\ UNCHANGED <<step, email, token, saved, busy, screen, reloads, tenants, admins>>

Fresh(i) == row[i].status = "none" /\ \A j \in 1 .. (i - 1) : row[j].status # "none"

Start(p) ==
    /\ busy[p] = "start" /\ UNCHANGED job
    /\ \E i \in Signups :
          /\ Fresh(i)
          /\ IF admins[email[p]] # None THEN Serve(p, i, row[i], "refused")
             ELSE Serve(p, i, [NoRow EXCEPT !.status = "pending", !.reached = 2, !.email = email[p]], "ok")

\* A handler of the wizard's own row.
Refuse(p) == Serve(p, token[p], row[token[p]], "refused")
Own(p) == row[token[p]]

Retarget(p) ==
    /\ busy[p] = "retarget" /\ UNCHANGED job
    /\ Serve(p, token[p], Own(p), IF ~Live(Own(p)) THEN "refused"
                                  ELSE IF Own(p).verified THEN "verified" ELSE "ok")

\* A right code, or a number verified before; a wrong one changes nothing here.
Verify(p) ==
    /\ busy[p] = "verify" /\ UNCHANGED job
    /\ \/ /\ Live(Own(p))
          /\ Serve(p, token[p], [Own(p) EXCEPT !.verified = TRUE, !.reached = Reached(Own(p), 3)], "ok")
       \/ (~Own(p).verified \/ ~Live(Own(p))) /\ Refuse(p)

\* The address is checked, and not claimed yet.
Account(p, s) ==
    /\ busy[p] = "account" /\ UNCHANGED job
    /\ IF Live(Own(p)) /\ Own(p).verified /\ tenants[s] = None
       THEN Serve(p, token[p], [Own(p) EXCEPT !.slug = s, !.reached = Reached(Own(p), 4)], "ok")
       ELSE Refuse(p)

Profile(p) ==
    /\ busy[p] = "profile" /\ UNCHANGED job
    /\ IF Live(Own(p)) /\ Own(p).verified /\ Own(p).slug # "none"
       THEN Serve(p, token[p], [Own(p) EXCEPT !.reached = Reached(Own(p), 5)], "ok")
       ELSE Refuse(p)

Complete(p) ==
    /\ busy[p] = "complete"
    /\ IF Live(Own(p)) /\ Own(p).verified /\ Own(p).slug # "none" /\ Own(p).reached >= 5
          /\ admins[Own(p).email] = None
       THEN /\ Serve(p, token[p], [Own(p) EXCEPT !.status = "provisioning"], "ok")
            /\ job' = [job EXCEPT ![token[p]] = [at |-> "claim", slug |-> "none"]]
       ELSE Refuse(p) /\ UNCHANGED job

Expire(i) ==
    /\ row[i].status \in {"pending", "failed"} /\ ~row[i].expired
    /\ row' = [row EXCEPT ![i].expired = TRUE]
    /\ UNCHANGED <<wizard, job, tenants, admins>>

-----------------------------------------------------------------------------
\* provision_signup: look the address up and take another if it is gone ...
Claim(i) ==
    /\ job[i].at = "claim"
    /\ \E s \in Slugs :
          /\ s = row[i].slug \/ tenants[row[i].slug] # None
          /\ tenants[s] = None
          /\ job' = [job EXCEPT ![i] = [at |-> "insert", slug |-> s]]
    /\ UNCHANGED <<wizard, row, tenants, admins>>

\* An exception rolls the step back and fails the signup.
FailJob(i, cause) ==
    /\ job' = [job EXCEPT ![i] = Idle]
    /\ row' = [row EXCEPT ![i].status = "failed", ![i].error = cause]
    /\ UNCHANGED <<tenants, admins>>

HasTenant(i) == \E s \in Slugs : tenants[s] = i

\* ... insert the tenant: its address and its email are unique indexes ...
Insert(i) ==
    /\ job[i].at = "insert" /\ UNCHANGED wizard
    /\ IF tenants[job[i].slug] # None THEN FailJob(i, "slug")
       ELSE IF \E s \in Slugs : tenants[s] # None /\ row[tenants[s]].email = row[i].email
       THEN FailJob(i, "email")
       ELSE /\ tenants' = [tenants EXCEPT ![job[i].slug] = i]
            /\ row' = [row EXCEPT ![i].slug = job[i].slug]
            /\ job' = [job EXCEPT ![i].at = "admin"]
            /\ UNCHANGED admins

\* ... then its administrator ...
CreateAdmin(i) ==
    /\ job[i].at = "admin" /\ UNCHANGED wizard
    /\ IF admins[row[i].email] # None THEN FailJob(i, "email")
       ELSE /\ admins' = [admins EXCEPT ![row[i].email] = i]
            /\ job' = [job EXCEPT ![i].at = "finish"]
            /\ UNCHANGED <<row, tenants>>

\* ... and, the welcome email sent or not, finish.
FinishJob(i) ==
    /\ job[i].at = "finish"
    /\ job' = [job EXCEPT ![i] = Idle]
    /\ row' = [row EXCEPT ![i].status = "completed", ![i].reached = 6]
    /\ UNCHANGED <<wizard, tenants, admins>>

\* The trial signup of the website and an operator's own page also make users.
RegisterElsewhere(e) ==
    /\ admins[e] = None
    /\ admins' = [admins EXCEPT ![e] = Other]
    /\ UNCHANGED <<wizard, row, job, tenants>>

Crash ==
    /\ MayCrash /\ job # [i \in Signups |-> Idle]
    /\ job' = [i \in Signups |-> Idle]
    /\ UNCHANGED <<wizard, row, tenants, admins>>

JobStep(i) == Claim(i) \/ Insert(i) \/ CreateAdmin(i) \/ FinishJob(i)

Next ==
    \/ Crash
    \/ \E e \in Emails : RegisterElsewhere(e)
    \/ \E i \in Signups : Expire(i) \/ JobStep(i)
    \/ \E p \in Persons :
          \/ \E e \in Emails : TypeEmail(p, e)
          \/ Submit(p) \/ GoBack(p) \/ ChangeNumber(p) \/ Answered(p) \/ Lost(p)
          \/ Reload(p) \/ Restored(p) \/ NotRestored(p) \/ Poll(p) \/ Finish(p)
          \/ Start(p) \/ Retarget(p) \/ Verify(p) \/ Profile(p) \/ Complete(p)
          \/ \E s \in Slugs : Account(p, s)

Spec == Init /\ [][Next]_vars

\* What goes on by itself: threads that are alive run, and the screen's timer fires.
Work == \E i \in Signups : JobStep(i)
Asks == \E p \in Persons : Poll(p)

-----------------------------------------------------------------------------
\* ONBOARDING: "The wizard's position lives on the server": whatever is lost,
\* reloaded or retyped, no form is on screen before what it rests on is proven.
StepNeverAhead ==
    \A p \in Persons :
        /\ step[p] > 1 => token[p] # None
        /\ step[p] \in {3, 4, 5} => Own(p).verified
        /\ step[p] \in {4, 5} => Own(p).slug # "none"
        /\ step[p] = 6 => Own(p).status \in {"provisioning", "completed", "failed"}

\* A signup reported ready has its tenant and the tenant's administrator; the
\* two land together or the signup fails.
CompletedIsUsable ==
    \A i \in Signups :
        row[i].status = "completed" => HasTenant(i) /\ admins[row[i].email] = i

\* What has been started ends, and the person on the screen sees it.
ScreenFollowsJob == \A p \in Persons : step[p] = 6 => screen[p] # "provisioning"

-----------------------------------------------------------------------------
\* Said in the sources and not so in the code: no run checks what follows, and
\* the README tells how each of them is broken.

\* tenant_provisioning: "a lost race re-suggests instead of raising an
\* IntegrityError at the user".
LostRaceResuggests == \A i \in Signups : row[i].error # "slug"

\* Step4Locale: the card shows the identifiers before they become permanent;
\* the email on it is the one the account gets.
EmailShownIsAccounts == \A p \in Persons : step[p] = 4 => email[p] = Own(p).email

\* OnboardingWizard: "the same signup row is re-targeted on submit".
ResubmitRetargets == \A p \in Persons : reply[p].is # "verified"

\* OnboardingWizard: "Expired or unknown — drop it".
DroppedOnlyWhenDead ==
    \A p \in Persons :
           saved[p] # None /\ saved'[p] = None =>
               row[saved[p]].status \in {"none", "completed"} \/ row[saved[p]].expired

\* ProvisioningScreen: "the job is running on the server regardless".
JobRunsOn ==
    \A i \in Signups : row[i].status = "provisioning" => job[i].at # "idle"
=============================================================================
