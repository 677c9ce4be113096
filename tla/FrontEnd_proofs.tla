--------------------------- MODULE FrontEnd_proofs ---------------------------
(***************************************************************************)
(* What FrontEnd promises of every step, for every set of keys, every tick *)
(* and every size of the console's queue.                                  *)
(***************************************************************************)
EXTENDS FrontEnd, TLAPS

Queue == SeqOf(Record, MaxRecords)

\* The screen knows what is on the console, and while the menu waits that is
\* what there is to show.
Honest == shown = console /\ ScreenIsTrue

\* What is in the queue while an answer is awaited was typed for it.
AllFresh == Asking => \A i \in DOMAIN input : input[i].fresh

\* Whoever waits for any key knows where to go on.
Due == at \in {"flushAny", "any"} => after /= "none"

IInv == TypeOK /\ Honest /\ AllFresh /\ Due

-----------------------------------------------------------------------------
LEMMA QueueIsSeq ==
    \A q : q \in Queue <=> q \in Seq(Record) /\ Len(q) <= MaxRecords
<1>1. ASSUME NEW q \in Queue PROVE q \in Seq(Record) /\ Len(q) <= MaxRecords
    BY <1>1, BoundAssumption DEF Queue, SeqOf
<1>2. ASSUME NEW q \in Seq(Record), Len(q) <= MaxRecords PROVE q \in Queue
    <2>1. Len(q) \in 0..MaxRecords /\ q \in [1..Len(q) -> Record]
        BY <1>2, BoundAssumption
    <2> QED BY <2>1 DEF Queue, SeqOf
<1> QED BY <1>1, <1>2

LEMMA EmptyQueue == <<>> \in Queue
<1>1. <<>> \in Seq(Record) /\ Len(<<>>) = 0 /\ 0 <= MaxRecords
    BY BoundAssumption
<1> QED BY <1>1, QueueIsSeq

\* Taking the record in front leaves a queue of the others.
LEMMA TailOfQueue ==
    ASSUME NEW q \in Queue, q /= <<>>
    PROVE  /\ Tail(q) \in Queue
           /\ \A i \in DOMAIN Tail(q) : i + 1 \in DOMAIN q /\ Tail(q)[i] = q[i + 1]
<1>1. q \in Seq(Record) /\ Len(q) <= MaxRecords
    BY QueueIsSeq
<1>2. Tail(q) \in Seq(Record) /\ Len(Tail(q)) = Len(q) - 1
    BY <1>1
<1>3. \A i \in DOMAIN Tail(q) : i + 1 \in DOMAIN q /\ Tail(q)[i] = q[i + 1]
    BY <1>1, <1>2
<1>4. Len(Tail(q)) <= MaxRecords
    BY <1>1, <1>2, BoundAssumption
<1> QED BY <1>2, <1>3, <1>4, QueueIsSeq

LEMMA AppendToQueue ==
    ASSUME NEW q \in Queue, Len(q) < MaxRecords, NEW r \in Record
    PROVE  /\ Append(q, r) \in Queue
           /\ \A i \in DOMAIN Append(q, r) :
                  (i \in DOMAIN q /\ Append(q, r)[i] = q[i]) \/ Append(q, r)[i] = r
<1>1. q \in Seq(Record)
    BY QueueIsSeq
<1>2. Append(q, r) \in Seq(Record) /\ Len(Append(q, r)) = Len(q) + 1
    BY <1>1
<1>3. \A i \in DOMAIN Append(q, r) :
          (i \in DOMAIN q /\ Append(q, r)[i] = q[i]) \/ Append(q, r)[i] = r
    BY <1>1, <1>2
<1>4. Len(Append(q, r)) <= MaxRecords
    BY <1>1, <1>2, BoundAssumption
<1> QED BY <1>2, <1>3, <1>4, QueueIsSeq

LEMMA StaleQueue == ASSUME NEW q \in Queue PROVE Stale(q) \in Queue
<1>1. q \in Seq(Record) /\ Len(q) <= MaxRecords
    BY QueueIsSeq
<1>2. Stale(q) \in [1..Len(q) -> Record]
    <2>1. \A i \in 1..Len(q) : q[i] \in Record
        BY <1>1
    <2>2. \A r \in Record : [r EXCEPT !.fresh = FALSE] \in Record
        BY DEF Record
    <2> QED BY <1>1, <2>1, <2>2 DEF Stale
<1>3. Len(q) \in 0..MaxRecords
    BY <1>1, BoundAssumption
<1> QED BY <1>2, <1>3 DEF Queue, SeqOf

\* Whatever a step does to the queue, it stays one, and what is left in it while
\* an answer is awaited stays fresh.
LEMMA ReadsKeeps ==
    ASSUME TypeOK, NEW record, Reads(record)
    PROVE  input' \in Queue /\ (AllFresh /\ Asking => \A i \in DOMAIN input' : input'[i].fresh)
    BY TailOfQueue DEF Reads, TypeOK, AllFresh, Queue

LEMMA AnswerKeeps ==
    ASSUME TypeOK, NEW record, TakesAnswer(record)
    PROVE  input' \in Queue
    BY TailOfQueue, StaleQueue DEF TakesAnswer, TypeOK, Queue

LEMMA ChoiceKeeps ==
    ASSUME TypeOK, NEW chosen, Chooses(chosen)
    PROVE  input' \in Queue /\ readable' \in BOOLEAN /\ left' \in 0..Tick /\ at = "wait" /\ ~ended
    BY ReadsKeeps DEF Chooses, At, Reads, keys, TypeOK, Queue

LEMMA TypedKeeps ==
    ASSUME TypeOK, AllFresh, NEW what \in Keys \cup {"mouse"}, Types(what)
    PROVE  input' \in Queue /\ (Asking => \A i \in DOMAIN input' : input'[i].fresh)
<1> DEFINE r == [what |-> what, fresh |-> at \in {"confirm", "any"}]
<1>1. r \in Record
    BY DEF Record
<1>2. input \in Queue /\ Len(input) < MaxRecords /\ input' = Append(input, r)
    BY DEF Types, TypeOK, Queue
<1>3. Asking => r.fresh
    BY DEF Asking
<1> QED BY <1>1, <1>2, <1>3, AppendToQueue DEF AllFresh

-----------------------------------------------------------------------------
\* The type invariant in parts: where main is, what the switches are, the
\* console's queue, and the answers that are yes or no.
Placed ==
    /\ args \subseteq Flags
    /\ request \in {"none", "refused", "help", "remove", "redirect", "menu"}
    /\ at \in {"parse", "claim", "gate", "start", "parked", "menu", "wait", "recreating",
               "failed", "flush", "confirm", "yes", "no", "removing", "flushAny", "any",
               "drop", "giveUp", "exit"}
    /\ question \in {"none", "removal", "restart"} /\ after \in {"none", "failed", "drop", "exit"}
    /\ code \in {"ok", "restart", "failed", "running", "usage"}
Switched == on \subseteq Devices /\ was \subseteq Devices
Queued   == input \in Queue /\ left \in 0..Tick
Answered == pending \in BOOLEAN /\ readable \in BOOLEAN /\ ended \in BOOLEAN
Left     == /\ cleaner \in {"nobody", "main", "handler"}
            /\ event \in {"none", "close", "interrupt", "answered"}

LEMMA Parts == TypeOK <=> Placed /\ Switched /\ Queued /\ Answered /\ Left
    BY DEF TypeOK, Placed, Switched, Queued, Answered, Left, Queue

LEMMA InitInv == Init => IInv
<1> SUFFICES ASSUME Init PROVE IInv
    OBVIOUS
<1>1. Queued
    BY EmptyQueue, BoundAssumption DEF Init, Queued
<1>2. Placed /\ Switched /\ Left
    BY DEF Init, Placed, Switched, Left
<1>3. Answered
    BY DEF Init, Answered
<1>4. AllFresh
    BY DEF Init, AllFresh, Asking
<1> QED BY <1>1, <1>2, <1>3, <1>4, Parts DEF Init, IInv, Honest, ScreenIsTrue, Due

LEMMA StepTyped ==
    ASSUME TypeOK, AllFresh, Due, [Next]_vars
    PROVE  TypeOK'
<1> USE DEF session, place, screen, keys, leaving, At, Goes, Writes, Says, Return, Asks,
            WaitsForAnyKey
<1>0. Placed /\ Switched /\ Queued /\ Answered /\ Left
    BY Parts
<1>1. Placed'
  <2>1. CASE Parse \/ Claim \/ NothingToRemove
    BY <1>0, <2>1 DEF Placed, Parse, Request, Claim, NothingToRemove
  <2>2. CASE OffersRestart \/ Enter \/ Start
    BY <1>0, <2>2 DEF Placed, OffersRestart, Enter, Start
  <2>3. CASE Draw \/ TickEnds \/ Flush \/ Unknown \/ \E d \in Devices : Toggle(d)
    BY <1>0, <2>3 DEF Placed, Draw, TickEnds, Flush, Unknown, Toggle
  <2>4. CASE StopEverything \/ RemoveDriver \/ Recreate \/ Quit
    BY <1>0, <2>4 DEF Placed, StopEverything, RemoveDriver, Recreate, Quit
  <2>5. CASE Recreated \/ RecreateFailed \/ KeepsDriver
    BY <1>0, <2>5 DEF Placed, Recreated, RecreateFailed, KeepsDriver
  <2>6. CASE Confirm \/ AnyKey
    BY <1>0, <2>6 DEF Placed, Confirm, AnyKey, Due
  <2>7. CASE Removes \/ Removed \/ RestartAnswered
    BY <1>0, <2>7 DEF Placed, Removes, Removed, RestartAnswered
  <2>8. CASE Drop \/ GiveUp
    BY <1>0, <2>8 DEF Placed, Drop, GiveUp
  <2>9. CASE UNCHANGED <<session, place>>
    BY <1>0, <2>9 DEF Placed
  <2> QED
    BY <2>1, <2>2, <2>3, <2>4, <2>5, <2>6, <2>7, <2>8, <2>9
       DEF Ignores, NoAnswer, TimePasses, Exit, CleansUp, Answer, ConsoleEvent, ConsoleGoes,
           Types, Next, Main, Handler, User, vars
<1>2. Switched'
    BY <1>0 DEF Switched, Devices, Parse, Request, Claim, NothingToRemove,
           OffersRestart, Enter, Start, Draw, TickEnds,
           TimePasses, Ignores, Unknown, Toggle, StopEverything, Recreate, Recreated,
           RecreateFailed, RemoveDriver, Quit, Flush, Confirm, AnyKey, NoAnswer, KeepsDriver,
           Removes, Removed, RestartAnswered, Drop, GiveUp, Exit, CleansUp, Answer,
           ConsoleEvent, ConsoleGoes, Types, Next, Main, Handler, User, vars
<1>3. Queued'
  <2>1. CASE \E what \in Keys \cup {"mouse"} : Types(what)
    BY <1>0, <2>1, TypedKeeps DEF Types, Queued
  <2>2. CASE Ignores \/ NoAnswer
    BY <1>0, <2>2, ReadsKeeps DEF Ignores, NoAnswer, Queued
  <2>3. CASE Confirm \/ AnyKey
    BY <1>0, <2>3, AnswerKeeps DEF Confirm, AnyKey, TakesAnswer, Queued
  <2>4. CASE \E chosen : Chooses(chosen)
    BY <2>4, ChoiceKeeps DEF Queued
  <2>5. CASE Draw \/ TimePasses
    BY <1>0, <2>5, BoundAssumption DEF Draw, TimePasses, Queued
  <2>6. CASE Recreated \/ RecreateFailed \/ Flush \/ KeepsDriver
    BY <1>0, <2>6, EmptyQueue DEF Recreated, RecreateFailed, Flush, KeepsDriver, Queued
  <2>7. CASE UNCHANGED <<input, left>>
    BY <1>0, <2>7 DEF Queued
  <2> QED
    BY <2>1, <2>2, <2>3, <2>4, <2>5, <2>6, <2>7
       DEF Parse, Request, Claim, NothingToRemove, OffersRestart, Enter, Start, Draw, TickEnds,
           TimePasses, Ignores, Unknown, Toggle, StopEverything, Recreate, Recreated,
           RecreateFailed, RemoveDriver, Quit, Flush, Confirm, AnyKey, NoAnswer, KeepsDriver,
           Removes, Removed, RestartAnswered, Drop, GiveUp, Exit, CleansUp, Answer,
           ConsoleEvent, ConsoleGoes, Types, Next, Main, Handler, User, vars
<1>4. Answered'
    BY <1>0, ZenonT(60) DEF Answered, Reads, TakesAnswer, Chooses, Parse, Request, Claim,
           NothingToRemove, OffersRestart, Enter, Start, Draw, TickEnds,
           TimePasses, Ignores, Unknown, Toggle, StopEverything, Recreate, Recreated,
           RecreateFailed, RemoveDriver, Quit, Flush, Confirm, AnyKey, NoAnswer, KeepsDriver,
           Removes, Removed, RestartAnswered, Drop, GiveUp, Exit, CleansUp, Answer,
           ConsoleEvent, ConsoleGoes, Types, Next, Main, Handler, User, vars
<1>5. Left'
    BY <1>0 DEF Left, Parse, Request, Claim, NothingToRemove, OffersRestart, Enter, Start,
           Draw, TickEnds,
           TimePasses, Ignores, Unknown, Toggle, StopEverything, Recreate, Recreated,
           RecreateFailed, RemoveDriver, Quit, Flush, Confirm, AnyKey, NoAnswer, KeepsDriver,
           Removes, Removed, RestartAnswered, Drop, GiveUp, Exit, CleansUp, Answer,
           ConsoleEvent, ConsoleGoes, Types, Next, Main, Handler, User, vars
<1> QED BY <1>1, <1>2, <1>3, <1>4, <1>5
        DEF TypeOK, Placed, Switched, Queued, Answered, Left, Queue

LEMMA StepHonest ==
    ASSUME TypeOK, Honest, [Next]_vars
    PROVE  Honest'
<1> USE DEF session, place, screen, keys, leaving, At, Goes, Writes, Says, Return, Asks,
            WaitsForAnyKey, Honest, ScreenIsTrue, Frame
<1>1. CASE Parse \/ Claim \/ NothingToRemove \/ OffersRestart \/ Enter \/ Start
    BY <1>1 DEF Parse, Claim, NothingToRemove, OffersRestart, Enter, Start
<1>2. CASE Draw \/ TickEnds \/ TimePasses \/ Ignores \/ NoAnswer
    BY <1>2 DEF Draw, TickEnds, TimePasses, Ignores, NoAnswer
<1>3. CASE Unknown \/ (\E d \in Devices : Toggle(d)) \/ StopEverything
    BY <1>3 DEF Unknown, Toggle, StopEverything
<1>4. CASE RemoveDriver \/ Recreate \/ Quit \/ Recreated \/ RecreateFailed
    BY <1>4 DEF RemoveDriver, Recreate, Quit, Recreated, RecreateFailed
<1>5. CASE Flush \/ KeepsDriver \/ Confirm
    BY <1>5 DEF Flush, KeepsDriver, Confirm
<1>6. CASE AnyKey
    BY <1>6 DEF AnyKey, TypeOK
<1>7. CASE Removes \/ Removed \/ RestartAnswered \/ Drop \/ GiveUp \/ Exit
    BY <1>7 DEF Removes, Removed, RestartAnswered, Drop, GiveUp, Exit
<1>8. CASE CleansUp \/ Answer \/ ConsoleEvent \/ ConsoleGoes
    BY <1>8 DEF CleansUp, Answer, ConsoleEvent, ConsoleGoes
<1>9. CASE \E what \in Keys \cup {"mouse"} : Types(what)
    BY <1>9 DEF Types
<1>10. CASE UNCHANGED vars
    BY <1>10 DEF vars
<1> QED
    BY <1>1, <1>2, <1>3, <1>4, <1>5, <1>6, <1>7, <1>8, <1>9, <1>10
       DEF Next, Main, Handler, User

\* Main begins to wait for an answer with an empty queue, and leaves the question
\* with the record it takes.
LEMMA StepFresh ==
    ASSUME TypeOK, AllFresh, [Next]_vars
    PROVE  AllFresh'
<1> USE DEF session, place, keys, At, Goes, Return, Asks, WaitsForAnyKey, AllFresh, Asking
<1>1. CASE Parse \/ Claim \/ NothingToRemove \/ OffersRestart \/ Enter \/ Start
    BY <1>1 DEF Parse, Claim, NothingToRemove, OffersRestart, Enter, Start
<1>2. CASE Draw \/ TickEnds \/ TimePasses \/ Ignores
    BY <1>2 DEF Draw, TickEnds, TimePasses, Ignores
<1>3. CASE NoAnswer
    BY <1>3, ReadsKeeps DEF NoAnswer
<1>4. CASE Unknown \/ (\E d \in Devices : Toggle(d)) \/ StopEverything \/ RemoveDriver
           \/ Recreate \/ Quit
    BY <1>4 DEF Unknown, Toggle, StopEverything, RemoveDriver, Recreate, Quit
<1>5. CASE Recreated \/ RecreateFailed \/ KeepsDriver
    BY <1>5 DEF Recreated, RecreateFailed, KeepsDriver
<1>6. CASE Flush
    BY <1>6 DEF Flush
<1>7. CASE Confirm
    BY <1>7 DEF Confirm
<1>8. CASE AnyKey
    BY <1>8 DEF AnyKey, TypeOK
<1>9. CASE Removes \/ Removed \/ RestartAnswered \/ Drop \/ GiveUp \/ Exit
    BY <1>9 DEF Removes, Removed, RestartAnswered, Drop, GiveUp, Exit
<1>10. CASE CleansUp \/ Answer \/ ConsoleEvent \/ ConsoleGoes
    BY <1>10 DEF CleansUp, Answer, ConsoleEvent, ConsoleGoes
<1>11. CASE \E what \in Keys \cup {"mouse"} : Types(what)
    BY <1>11, TypedKeeps DEF Types
<1>12. CASE UNCHANGED vars
    BY <1>12 DEF vars
<1> QED
    BY <1>1, <1>2, <1>3, <1>4, <1>5, <1>6, <1>7, <1>8, <1>9, <1>10, <1>11, <1>12
       DEF Next, Main, Handler, User

LEMMA StepDue ==
    ASSUME TypeOK, Due, [Next]_vars
    PROVE  Due'
    BY DEF Due, session, place, At, Goes, Return, Asks, WaitsForAnyKey, Parse, Claim,
           NothingToRemove, OffersRestart, Enter, Start, Draw, TickEnds, TimePasses, Ignores,
           Unknown, Toggle, StopEverything, Recreate, Recreated, RecreateFailed, RemoveDriver,
           Quit, Flush, Confirm, AnyKey, NoAnswer, KeepsDriver, Removes, Removed,
           RestartAnswered, Drop, GiveUp, Exit, CleansUp, Answer, ConsoleEvent, ConsoleGoes,
           Types, Next, Main, Handler, User, vars, TypeOK

LEMMA Inductive == Spec => []IInv
<1>1. IInv /\ [Next]_vars => IInv'
    BY StepTyped, StepHonest, StepFresh, StepDue DEF IInv
<1> QED BY <1>1, InitInv, PTL DEF Spec

-----------------------------------------------------------------------------
\* Every variable of the front end keeps its type, the queue its bound.
THEOREM TypeCorrect == Spec => []TypeOK
    BY Inductive, PTL DEF IInv

\* While the menu waits the console shows the switches as they are, whatever was
\* written over it and however often an unchanged frame was left alone.
THEOREM ScreenTrue == Spec => []ScreenIsTrue
<1>1. IInv => ScreenIsTrue
    BY DEF IInv, Honest
<1> QED BY <1>1, Inductive, PTL

\* No question is answered by a key typed before it was asked.
THEOREM AnswersFresh == Spec => AnswersAreFresh
<1> DEFINE FreshOne == Asking /\ at' /= at /\ readable => Head(input).fresh
<1>1. IInv /\ [Next]_vars => [FreshOne]_vars
    <2> SUFFICES ASSUME IInv, Next, Asking, at' /= at, readable PROVE Head(input).fresh
        OBVIOUS
    <2>1. Confirm \/ AnyKey
        BY DEF Next, Main, Handler, User, Asking, Parse, Claim, NothingToRemove, OffersRestart,
               Enter, Start, Draw, TickEnds, Ignores, Unknown, Toggle, StopEverything, Recreate,
               Recreated, RecreateFailed, RemoveDriver, Quit, Flush, NoAnswer, KeepsDriver,
               Removes, Removed, RestartAnswered, Drop, GiveUp, Exit, CleansUp, Answer,
               ConsoleGoes, ConsoleEvent, Types, TimePasses, Chooses, At, place
    <2>2. input /= <<>>
        BY <2>1 DEF Confirm, AnyKey, TakesAnswer
    <2>3. input \in Seq(Record)
        BY QueueIsSeq DEF IInv, TypeOK, Queue
    <2> QED BY <2>2, <2>3 DEF IInv, AllFresh
<1> QED BY <1>1, Inductive, PTL DEF Spec, AnswersAreFresh
=============================================================================
