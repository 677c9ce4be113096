-------------------------- MODULE HookThread_proofs --------------------------
(***************************************************************************)
(* What HookThread promises of every step, for every set of handles and    *)
(* every surroundings.  The argument is about custody: a hook of ours is   *)
(* in a chain only if the thread knows its handle, and which handles it    *)
(* knows follows from where it is.                                         *)
(***************************************************************************)
EXTENDS HookThread, TLAPS

\* Every hook in a chain is the one the thread keeps for it, or the one it has
\* just replaced and is about to take out.
Known == \A k \in Kinds :
            chain[k] \subseteq {mine[k]} \cup (IF pc = "unhook" /\ kind = k THEN {old} ELSE {})

\* What the thread has installed so far, or not taken down yet.
Stage ==
    /\ pc \notin {"install", "rearm", "unhook", "down"} => kind = "keyboard"
    /\ pc = "install" => mine[kind] = NoHandle /\ mine["mouse"] = NoHandle
    /\ pc = "down" /\ kind = "mouse" => mine["keyboard"] = NoHandle
    /\ pc \in {"none", "ended"} => \A k \in Kinds : mine[k] = NoHandle

\* A replaced hook goes only after the fresh one is in the chain.
Fresh == pc = "unhook" => mine[kind] \in chain[kind] /\ mine[kind] /= old

\* The flag is set for as long as the main thread has not seen the end of the
\* hook thread, and the hook thread says no only at its end.
Flagged ==
    /\ installed <=> main /= "idle"
    /\ main = "idle" => pc \in {"none", "ended"}
    /\ answer = "no" => pc = "ended"

IInv == TypeOK /\ Known /\ Stage /\ Fresh /\ Flagged

-----------------------------------------------------------------------------
\* A hook that Windows accepts is one more in one chain, under a new handle.
LEMMA HookedIsNew ==
    ASSUME TypeOK, NEW k \in Kinds, NEW h, Hooked(k, h)
    PROVE  /\ h \in Handles /\ h /= NoHandle /\ h /= old
           /\ \A j \in Kinds : h /= mine[j] /\ h \notin chain[j]
           /\ chain' \in [Kinds -> SUBSET Handles]
           /\ chain'[k] = chain[k] \cup {h}
           /\ \A j \in Kinds : j /= k => chain'[j] = chain[j]
<1>1. h \in Handles /\ h \notin Taken
    BY DEF Hooked
<1>2. h /= NoHandle
    BY <1>1, HandlesAssumption
<1>3. h /= old /\ \A j \in Kinds : h /= mine[j] /\ h \notin chain[j]
    BY <1>1 DEF Taken
<1>4. chain' = [chain EXCEPT ![k] = chain[k] \cup {h}] /\ chain \in [Kinds -> SUBSET Handles]
    BY DEF Hooked, TypeOK
<1> QED
    BY <1>1, <1>2, <1>3, <1>4

\* Taking a hook out leaves the others where they are.
LEMMA UnhookedIsGone ==
    ASSUME TypeOK, NEW k \in Kinds, NEW h, Unhooked(k, h)
    PROVE  /\ chain' \in [Kinds -> SUBSET Handles]
           /\ chain'[k] = chain[k] \ {h}
           /\ \A j \in Kinds : j /= k => chain'[j] = chain[j]
    BY DEF Unhooked, TypeOK

-----------------------------------------------------------------------------
LEMMA InitInv == Init => IInv
    BY EnvAssumption DEF Init, IInv, TypeOK, Known, Stage, Fresh, Flagged, Kinds

LEMMA StepInv == IInv /\ [Next]_vars => IInv'
<1> SUFFICES ASSUME IInv, [Next]_vars PROVE IInv'
    OBVIOUS
<1> USE DEF IInv, Kinds
<1>1. CASE Install
    <2>1. pc \in {"none", "ended"} /\ \A k \in Kinds : mine[k] = NoHandle
        BY <1>1 DEF Install, Stage, Flagged
    <2>2. TypeOK'
        BY <1>1 DEF Install, TypeOK, queue
    <2>3. pc' \in {"install", pc} /\ kind' = "keyboard" /\ UNCHANGED <<mine, old, chain>>
        BY <1>1 DEF Install
    <2>4. Known' /\ Stage' /\ Fresh'
        BY <2>1, <2>3 DEF Known, Stage, Fresh
    <2>5. Flagged'
        BY <1>1 DEF Install, Flagged, TypeOK
    <2> QED BY <2>2, <2>4, <2>5
<1>2. CASE Receive
    BY <1>2 DEF Receive, TypeOK, Known, Stage, Fresh, Flagged, queue, thread
<1>3. CASE Stop
    BY <1>3 DEF Stop, TypeOK, Known, Stage, Fresh, Flagged, thread
<1>4. CASE Join
    BY <1>4 DEF Join, TypeOK, Known, Stage, Fresh, Flagged, thread
<1>5. CASE InstallHook
    <2> USE <1>5 DEF InstallHook, Onward, Refused, queue, engine
    <2>1. CASE Refused /\ UNCHANGED mine
        BY <2>1 DEF TypeOK, Known, Stage, Fresh, Flagged
    <2>2. CASE \E h \in Handles : Hooked(kind, h) /\ mine' = [mine EXCEPT ![kind] = h]
        <3>1. PICK h \in Handles : Hooked(kind, h) /\ mine' = [mine EXCEPT ![kind] = h]
            BY <2>2
        <3>2. kind \in Kinds
            BY DEF TypeOK
        <3>3. chain[kind] = {}
            BY <3>2, HandlesAssumption DEF TypeOK, Known, Stage
        <3> QED BY <3>1, <3>2, <3>3, HookedIsNew DEF TypeOK, Known, Stage, Fresh, Flagged
    <2> QED BY <2>1, <2>2
<1>6. CASE Judge
    BY <1>6 DEF Judge, TypeOK, Known, Stage, Fresh, Flagged, queue, engine
<1>7. CASE StartTimer
    BY <1>7 DEF StartTimer, TypeOK, Known, Stage, Fresh, Flagged, engine
<1>8. CASE GetTick
    BY <1>8 DEF GetTick, TypeOK, Known, Stage, Fresh, Flagged, engine
<1>9. CASE LeaveLoop
    BY <1>9 DEF LeaveLoop, TypeOK, Known, Stage, Fresh, Flagged, engine, queue
<1>10. CASE Rearm
    <2> USE <1>10 DEF Rearm, Onward, Refused, queue, engine
    <2>1. CASE Refused /\ UNCHANGED <<mine, old>> /\ Onward("wait")
        BY <2>1 DEF TypeOK, Known, Stage, Fresh, Flagged
    <2>2. CASE /\ \E h \in Handles : Hooked(kind, h) /\ mine' = [mine EXCEPT ![kind] = h]
               /\ old' = mine[kind] /\ pc' = "unhook" /\ UNCHANGED kind
        <3>1. PICK h \in Handles : Hooked(kind, h) /\ mine' = [mine EXCEPT ![kind] = h]
            BY <2>2
        <3>2. kind \in Kinds
            BY DEF TypeOK
        <3> QED BY <2>2, <3>1, <3>2, HookedIsNew DEF TypeOK, Known, Stage, Fresh, Flagged
    <2> QED BY <2>1, <2>2
<1>11. CASE Unhook
    <2>1. kind \in Kinds /\ Unhooked(kind, old)
        BY <1>11 DEF Unhook, TypeOK
    <2> QED BY <1>11, <2>1, UnhookedIsGone
            DEF Unhook, TypeOK, Known, Stage, Fresh, Flagged, queue, engine
<1>12. CASE StopTimer
    BY <1>12 DEF StopTimer, TypeOK, Known, Stage, Fresh, Flagged, engine
<1>13. CASE TakeDown
    <2>1. kind \in Kinds /\ Unhooked(kind, mine[kind])
        BY <1>13 DEF TakeDown, TypeOK
    <2> QED BY <1>13, <2>1, UnhookedIsGone
            DEF TakeDown, Onward, TypeOK, Known, Stage, Fresh, Flagged, queue, engine
<1>14. CASE TimerFires
    BY <1>14 DEF TimerFires, TypeOK, Known, Stage, Fresh, Flagged, engine, thread
<1>15. CASE \E k \in Kinds : WindowsDrops(k)
    <2>1. PICK k \in Kinds : WindowsDrops(k)
        BY <1>15
    <2>2. PICK h : Unhooked(k, h)
        BY <2>1 DEF WindowsDrops
    <2> QED BY <2>1, <2>2, UnhookedIsGone
            DEF WindowsDrops, TypeOK, Known, Stage, Fresh, Flagged, engine, thread, queue
<1>16. CASE UNCHANGED vars
    BY <1>16 DEF vars, engine, thread, queue, TypeOK, Known, Stage, Fresh, Flagged
<1> QED
    BY <1>1, <1>2, <1>3, <1>4, <1>5, <1>6, <1>7, <1>8, <1>9, <1>10, <1>11, <1>12,
       <1>13, <1>14, <1>15, <1>16 DEF Next, Main, Thread

LEMMA Inductive == Spec => []IInv
    BY InitInv, StepInv, PTL DEF Spec

-----------------------------------------------------------------------------
\* Every variable of the hook thread keeps its type.
THEOREM TypeCorrect == Spec => []TypeOK
    BY Inductive, PTL DEF IInv

\* Engine::install finds INSTALLED clear only when no hook of an earlier engine
\* is left, for any number of starts and whatever Windows refused or dropped.
THEOREM ClearFlag == Spec => []ClearFlagMeansNoHook
<1>1. IInv => ClearFlagMeansNoHook
    BY HandlesAssumption DEF IInv, TypeOK, Known, Stage, Flagged, ClearFlagMeansNoHook, Kinds
<1> QED BY <1>1, Inductive, PTL

\* However often the hooks are re-armed, an event is decided once.
THEOREM OneCall == Spec => []OneCallPerEvent
<1>1. IInv => OneCallPerEvent
    BY DEF IInv, Known, OneCallPerEvent
<1> QED BY <1>1, Inductive, PTL

\* rearm never takes the last hook of a kind out of its chain.
THEOREM NeverDeaf == Spec => NeverDeafened
<1> DEFINE Kept == Thread /\ pc \in {"wait", "rearm", "unhook"}
                    => \A k \in Kinds : chain[k] /= {} => chain'[k] /= {}
<1>1. IInv /\ [Next]_vars => [Kept]_vars
    <2> SUFFICES ASSUME IInv, Thread, pc \in {"wait", "rearm", "unhook"},
                        NEW k \in Kinds, chain[k] /= {}
                 PROVE  chain'[k] /= {}
        OBVIOUS
    <2>1. CASE pc = "wait"
        BY <2>1 DEF Thread, InstallHook, Judge, StartTimer, GetTick, LeaveLoop, Rearm, Unhook,
                    StopTimer, TakeDown
    <2>2. CASE pc = "rearm"
        <3>1. Rearm /\ kind \in Kinds
            BY <2>2 DEF Thread, InstallHook, Judge, StartTimer, GetTick, LeaveLoop, Rearm,
                        Unhook, StopTimer, TakeDown, IInv, TypeOK
        <3> QED BY <3>1, HookedIsNew DEF Rearm, Refused, IInv
    <2>3. CASE pc = "unhook"
        <3>1. Unhook /\ kind \in Kinds
            BY <2>3 DEF Thread, InstallHook, Judge, StartTimer, GetTick, LeaveLoop, Rearm,
                        Unhook, StopTimer, TakeDown, IInv, TypeOK
        <3> QED BY <2>3, <3>1, UnhookedIsGone DEF Unhook, IInv, Fresh
    <2> QED BY <2>1, <2>2, <2>3
<1> QED BY <1>1, Inductive, PTL DEF Spec, NeverDeafened
=============================================================================
