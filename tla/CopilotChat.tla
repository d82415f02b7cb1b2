----------------------------- MODULE CopilotChat -----------------------------
(***************************************************************************)
(* The copilot's panel and the threads the server keeps for one user.  A   *)
(* question is saved before the model is called, the answer after; the     *)
(* panel shows its own copy of the conversation, which switching threads,  *)
(* deleting them and failed answers must keep true to the stored one.      *)
(* A message is the number of the question it asks or answers.             *)
(***************************************************************************)
EXTENDS Naturals, FiniteSets, Sequences, SequencesExt

CONSTANTS Threads,       \* numbers of threads, given out in order
          MaxThreads,    \* MAX_THREADS: the oldest beyond it are dropped
          HistoryTurns,  \* HISTORY_TURNS: turns given to the model
          Switching,     \* whether a chat is left while it is awaited: history, New, closing
          Losses,        \* whether requests get lost, and processes die
          MaxQuestions,  \* bound: questions asked
          MaxElsewhere,  \* bound: of them on another machine
          MaxReads       \* bound: reads of threads under way

CopilotAssumption ==
    /\ Threads \subseteq Nat \ {0} /\ {MaxThreads, HistoryTurns} \subseteq Nat \ {0}
    /\ {Switching, Losses} \subseteq BOOLEAN /\ {MaxQuestions, MaxElsewhere, MaxReads} \subseteq Nat

VARIABLES
    order,     \* server: the threads, the last touched first
    stored,    \* server: messages of each thread
    given,     \* server: threads ever created
    asked,     \* questions asked so far
    elsewhere, \* of them on another machine
    asks,      \* questions under way
    open,      \* panel: the drawer is open
    booting,   \* panel: the chat active when it began to read its list, if it does
    history,   \* panel: the list
    active,    \* panel: activeId, 0 for none
    screen,    \* panel: messages
    sending,   \* panel: an answer is awaited
    opening    \* panel: reads of threads under way

server == <<order, stored, given>>
panel == <<open, booting, history, active, screen, sending, opening>>
vars == <<server, asked, elsewhere, asks, panel>>

Message == [role : {"user", "assistant"}, of : 1 .. MaxQuestions, error : BOOLEAN]
Question(q) == [role |-> "user", of |-> q, error |-> FALSE]
Reply(q, failed) == [role |-> "assistant", of |-> q, error |-> failed]
Chat == Seq(Message)

TypeOK ==
    /\ order \in Seq(Threads) /\ IsInjective(order) /\ Len(order) <= MaxThreads
    /\ stored \in [Threads -> Chat] /\ \A t \in Threads : t \notin ToSet(order) => stored[t] = <<>>
    /\ given \in Nat /\ asked \in 0 .. MaxQuestions /\ elsewhere \in 0 .. MaxElsewhere
    /\ \A a \in asks : a.q \in 1 .. asked /\ a.thread \in Threads \cup {0} /\ a.seen \in Chat
    /\ {open, sending} \subseteq BOOLEAN /\ Len(booting) <= 1
    /\ history \in Seq(Threads) /\ active \in Threads \cup {0} /\ screen \in Chat
    /\ \A f \in opening : f.thread \in Threads /\ f.chat \in Chat
    /\ sending <=> \E a \in asks : a.heard

Init ==
    /\ order = <<>> /\ stored = [t \in Threads |-> <<>>] /\ given = 0
    /\ asked = 0 /\ elsewhere = 0 /\ asks = {}
    /\ open = FALSE /\ booting = <<>> /\ history = <<>>
    /\ active = 0 /\ screen = <<>> /\ sending = FALSE /\ opening = {}

-----------------------------------------------------------------------------
\* copilot_threads.

\* history_for_model: the last turns, without the failed ones.
HistoryForModel(chat) ==
    LET turns == SelectSeq(chat, LAMBDA m : ~m.error)
    IN  SubSeq(turns, IF Len(turns) > HistoryTurns THEN Len(turns) - HistoryTurns + 1 ELSE 1, Len(turns))

\* Faulty variant: nothing is dropped.
TouchUncapped(t) == <<t>> \o RemoveFirst(order, t)

\* create_thread, with the oldest dropped; or a thread that is touched.
Touch(t) ==
    LET all == <<t>> \o RemoveFirst(order, t)
    IN  IF t \in ToSet(order) THEN all
        ELSE SubSeq(all, 1, IF Len(all) > MaxThreads THEN MaxThreads ELSE Len(all))

Kept(chats, ts) == [t \in Threads |-> IF t \in ts THEN chats[t] ELSE <<>>]

\* The thread asked in, or a new one when it is gone or there is none.
Home(t) == IF t \in ToSet(order) THEN t ELSE given + 1

\* ask_in_thread up to its first commit.
Save(a) ==
    /\ a.at = "sent" /\ Home(a.thread) \in Threads
    /\ LET t == Home(a.thread)
       IN  /\ order' = Touch(t) /\ given' = IF t > given THEN t ELSE given
           /\ stored' = Kept([stored EXCEPT ![t] = Append(@, Question(a.q))], ToSet(Touch(t)))
           /\ asks' = (asks \ {a}) \cup
                {[a EXCEPT !.at = "asking", !.thread = t, !.seen = HistoryForModel(stored[t])]}
    /\ UNCHANGED <<asked, elsewhere, panel>>

\* The model answers or fails; a thread deleted meanwhile cannot take it.
Answer(a, failed) ==
    /\ a.at = "asking"
    /\ IF a.thread \in ToSet(order)
       THEN /\ stored' = [stored EXCEPT ![a.thread] = Append(@, Reply(a.q, failed))]
            /\ asks' = (asks \ {a}) \cup {[a EXCEPT !.at = IF failed THEN "failed" ELSE "answered"]}
       ELSE /\ asks' = (asks \ {a}) \cup {[a EXCEPT !.at = "failed"]}
            /\ UNCHANGED stored
    /\ UNCHANGED <<order, given, asked, elsewhere, panel>>

\* The rate limit or the settings refuse it; the process dies in the call.
Refuse(a) ==
    /\ Losses /\ a.at \in {"sent", "asking"}
    /\ asks' = (asks \ {a}) \cup {[a EXCEPT !.at = "failed"]}
    /\ UNCHANGED <<server, asked, elsewhere, panel>>

\* The same user on another machine: a whole question and its answer.
AskElsewhere(t) ==
    /\ elsewhere < MaxElsewhere /\ elsewhere' = elsewhere + 1
    /\ asked < MaxQuestions /\ asked' = asked + 1 /\ Home(t) \in Threads
    /\ LET h == Home(t)
       IN  /\ order' = Touch(h) /\ given' = IF h > given THEN h ELSE given
           /\ stored' = Kept([stored EXCEPT ![h] = @ \o <<Question(asked'), Reply(asked', FALSE)>>],
                             ToSet(Touch(h)))
    /\ UNCHANGED <<asks, panel>>

-----------------------------------------------------------------------------
\* The panel.  A list is shown as it is when its answer arrives.
Read(t) == opening \cup {[thread |-> t, at |-> "sent", chat |-> <<>>]}

Open ==
    /\ ~open /\ open' = TRUE /\ booting' = <<active>>
    /\ UNCHANGED <<server, asked, elsewhere, asks, history, active, screen, sending, opening>>

Close ==
    /\ Switching /\ open /\ open' = FALSE /\ booting' = <<>>
    /\ UNCHANGED <<server, asked, elsewhere, asks, history, active, screen, sending, opening>>

\* The list arrives: the latest chat is resumed when none was active at opening.
Boot ==
    /\ booting # <<>> /\ booting' = <<>> /\ history' = order /\ Cardinality(opening) < MaxReads
    /\ opening' = IF booting = <<0>> /\ order # <<>> THEN Read(order[1]) ELSE opening
    /\ UNCHANGED <<server, asked, elsewhere, asks, open, active, screen, sending>>

BootFails ==
    /\ Losses /\ booting # <<>> /\ booting' = <<>>
    /\ UNCHANGED <<server, asked, elsewhere, asks, open, history, active, screen, sending, opening>>

OpenThread(t) ==
    /\ Switching /\ open /\ t \in ToSet(history)
    /\ Cardinality(opening) < MaxReads /\ opening' = Read(t)
    /\ UNCHANGED <<server, asked, elsewhere, asks, open, booting, history, active, screen, sending>>

ServeThread(f) ==
    /\ f.at = "sent"
    /\ opening' = (opening \ {f}) \cup
         {IF f.thread \in ToSet(order) THEN [f EXCEPT !.at = "read", !.chat = stored[f.thread]]
                                       ELSE [f EXCEPT !.at = "failed"]}
    /\ UNCHANGED <<server, asked, elsewhere, asks, open, booting, history, active, screen, sending>>

ThreadArrives(f) ==
    /\ f.at # "sent" /\ opening' = opening \ {f}
    /\ active' = IF f.at = "read" THEN f.thread ELSE 0
    /\ screen' = f.chat
    /\ UNCHANGED <<server, asked, elsewhere, asks, open, booting, history, sending>>

StartNew ==
    /\ Switching /\ open /\ active' = 0 /\ screen' = <<>>
    /\ UNCHANGED <<server, asked, elsewhere, asks, open, booting, history, sending, opening>>

\* The composer is there once the settings are read, whatever the list does;
\* without switching, the user waits for the resumed chat.
Send ==
    /\ open /\ ~sending /\ asked < MaxQuestions
    /\ Switching \/ (booting = <<>> /\ opening = {})
    /\ asked' = asked + 1 /\ sending' = TRUE
    /\ screen' = Append(screen, Question(asked'))
    /\ asks' = asks \cup {[q |-> asked', at |-> "sent", thread |-> active, first |-> active = 0,
                           seen |-> <<>>, shown |-> screen, heard |-> TRUE]}
    /\ UNCHANGED <<server, elsewhere, open, booting, history, active, opening>>

AnswerArrives(a) ==
    /\ a.heard /\ a.at = "answered" /\ asks' = asks \ {a}
    /\ active' = a.thread /\ screen' = Append(screen, Reply(a.q, FALSE))
    /\ sending' = FALSE /\ history' = order
    /\ UNCHANGED <<server, asked, elsewhere, open, booting, opening>>

\* A failure, or no answer while the server works on: an error on screen, and
\* without a thread the latest one is taken for the question's.
AnswerFails(a) ==
    /\ a.heard /\ \/ a.at = "failed" /\ asks' = asks \ {a}
                  \/ Losses /\ a.at # "failed" /\ asks' = (asks \ {a}) \cup {[a EXCEPT !.heard = FALSE]}
    /\ screen' = Append(screen, Reply(a.q, TRUE)) /\ history' = order
    /\ active' = IF a.first /\ order # <<>> THEN order[1] ELSE active
    /\ sending' = FALSE
    /\ UNCHANGED <<server, asked, elsewhere, open, booting, opening>>

\* An answer nobody waits for any more.
Forget(a) ==
    /\ ~a.heard /\ a.at \in {"answered", "failed"} /\ asks' = asks \ {a}
    /\ UNCHANGED <<server, asked, elsewhere, panel>>

\* Delete, and what the panel does when its own chat went.
RemoveThread(t) ==
    /\ Switching /\ open /\ t \in ToSet(history) /\ t \in ToSet(order) /\ Cardinality(opening) < MaxReads
    /\ order' = RemoveFirst(order, t) /\ stored' = [stored EXCEPT ![t] = <<>>]
    /\ history' = order'
    /\ CASE t # active -> UNCHANGED <<opening, active, screen>>
         [] t = active /\ order' # <<>> -> opening' = Read(order'[1]) /\ UNCHANGED <<active, screen>>
         [] OTHER -> active' = 0 /\ screen' = <<>> /\ UNCHANGED opening
    /\ UNCHANGED <<given, asked, elsewhere, asks, open, booting, sending>>

Next ==
    \/ Open \/ Close \/ Boot \/ BootFails \/ StartNew \/ Send
    \/ \E t \in Threads : OpenThread(t) \/ RemoveThread(t) \/ AskElsewhere(t)
    \/ AskElsewhere(0)
    \/ \E f \in opening : ServeThread(f) \/ ThreadArrives(f)
    \/ \E a \in asks : \/ Save(a) \/ Refuse(a) \/ AnswerArrives(a) \/ AnswerFails(a) \/ Forget(a)
                       \/ \E failed \in BOOLEAN : Answer(a, failed)

Spec == Init /\ [][Next]_vars

\* What goes on by itself: requests end, answered or not; what arrived is handled.
Answers == \E a \in asks : \/ Save(a) \/ AnswerArrives(a) \/ AnswerFails(a)
                           \/ \E failed \in BOOLEAN : Answer(a, failed)

-----------------------------------------------------------------------------
\* ask_in_thread: "a failure cannot make it disappear".  A question that was
\* taken is in its thread for as long as the thread is, whatever became of
\* the answer, and once.
QuestionKept ==
    \A a \in asks : a.at \in {"asking", "answered"} /\ a.thread \in ToSet(order) =>
        \E i \in DOMAIN stored[a.thread] : \A j \in DOMAIN stored[a.thread] :
            stored[a.thread][j] = Question(a.q) <=> j = i

\* What the model is given was stored in the thread asked in, in that order,
\* and none of it is a failure.
SeenIsStored ==
    \A a \in asks : a.at # "sent" /\ a.thread \in ToSet(order) =>
        /\ \A i \in 1 .. Len(a.seen) : ~a.seen[i].error
        /\ \E i \in 0 .. Len(stored[a.thread]) :
              IsSuffix(a.seen, SelectSeq(SubSeq(stored[a.thread], 1, i), LAMBDA m : ~m.error))

Idle == ~sending /\ opening = {} /\ booting = <<>> /\ asks = {}

\* CopilotPanel: "the panel and the stored transcript identical", questions and
\* answers, whenever nothing is under way.
PanelIsStored ==
    Idle /\ active # 0 /\ elsewhere = 0 =>
        SelectSeq(screen, LAMBDA m : ~m.error)
            = SelectSeq(IF active \in Threads THEN stored[active] ELSE <<>>, LAMBDA m : ~m.error)

\* Every question ends: the composer can be used again.
PanelSettles == ~sending

-----------------------------------------------------------------------------
\* Said in the sources and not so in the code: no run checks what follows, and
\* the README tells how each of them is broken.

\* HISTORY_TURNS: "what is on screen is what the assistant saw".
ScreenIsSeen ==
    \A a \in asks : a.at = "asking" => a.seen = SelectSeq(a.shown, LAMBDA m : ~m.error)
=============================================================================
