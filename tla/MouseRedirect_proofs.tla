------------------------ MODULE MouseRedirect_proofs ------------------------
(***************************************************************************)
(* Proofs about MouseRedirect, for every set of buttons and mice and every *)
(* surroundings.                                                           *)
(***************************************************************************)
EXTENDS MouseRedirect, ReportFacts

Hooks == [pc : {"idle", "send", "remember", "undo"}, event : Event, report : SUBSET Buttons]

-----------------------------------------------------------------------------
\* What the virtual mouse clicks is a sequence of button events.

LEMMA EdgesIsSeq ==
    ASSUME NEW held \in SUBSET Buttons, NEW d \in BOOLEAN
    PROVE  Edges(held, d) \in Seq(Event)
<1> DEFINE T == [button : held, down : {d}]
<1>1. IsFiniteSet(held)
    BY ButtonsAssumption, FS_Subset
<1>2. IsFiniteSet(T)
    <2> DEFINE f == [b \in held |-> [button |-> b, down |-> d]]
    <2>1. f \in Bijection(held, T)
        <3>1. f \in [held -> T]
            OBVIOUS
        <3>2. IsInjective(f)
            BY DEF IsInjective
        <3>3. \A t \in T : f[t.button] = t /\ t.button \in held
            OBVIOUS
        <3>4. \A t \in T : \E b \in held : f[b] = t
            BY <3>3
        <3> QED BY <3>1, <3>2, <3>4 DEF Bijection, Injection, Surjection
    <2> QED BY <1>1, <2>1, FS_Bijection DEF ExistsBijection
<1>3. SetToSeq(T) \in Seq(T)
    BY <1>2, SetToSeqIsSeq
<1>4. T \subseteq Event
    BY DEF Event
<1> HIDE DEF T
<1>5. SetToSeq(T) \in Seq(Event)
    BY <1>3, <1>4, SeqMonotonic
<1> QED BY <1>5 DEF Edges, T

LEMMA TakesKeepsType ==
    ASSUME TypeOK, NEW report \in SUBSET Buttons, Takes(report)
    PROVE  plugged' \in BOOLEAN /\ dev' \in SUBSET Buttons /\ virtQ' \in Seq(Event)
<1>1. Edges(dev \ report, FALSE) \in Seq(Event) /\ Edges(report \ dev, TRUE) \in Seq(Event)
    BY EdgesIsSeq DEF TypeOK
<1>2. virtQ \o Edges(dev \ report, FALSE) \o Edges(report \ dev, TRUE) \in Seq(Event)
    BY <1>1, ConcatProperties DEF TypeOK
<1> QED BY <1>2 DEF Takes, TypeOK

LEMMA SendKeepsType ==
    ASSUME TypeOK, NEW report \in SUBSET Buttons, SendNow(report) \/ SendFails
    PROVE  plugged' \in BOOLEAN /\ dev' \in SUBSET Buttons /\ virtQ' \in Seq(Event)
BY TakesKeepsType DEF SendNow, SendFails, Delivered, TypeOK, device

\* The locals of on_button are a record of the type whatever the callback does.
LEMMA HookRecord ==
    /\ Resting \in Hooks /\ Resting.pc = "idle"
    /\ \A h \in Hooks : \A pc \in {"idle", "send", "remember", "undo"} :
          /\ [h EXCEPT !.pc = pc] \in Hooks
          /\ [h EXCEPT !.pc = pc].pc = pc
          /\ [h EXCEPT !.pc = pc].event = h.event
          /\ [h EXCEPT !.pc = pc].report = h.report
<1>1. \E e \in Event : TRUE
    <2>1. PICK b \in Buttons : TRUE
        BY ButtonsAssumption
    <2>2. [button |-> b, down |-> TRUE] \in Event
        BY DEF Event
    <2> QED BY <2>2
<1>2. (CHOOSE e \in Event : TRUE) \in Event
    BY <1>1
<1> QED BY <1>2 DEF Resting, Hooks

LEMMA EchoKeepsType ==
    ASSUME TypeOK, NEW s \in Slots, Expect(s) \/ Take(s)
    PROVE  echo' \in [Slots -> 0..MaxPending] /\ stale' \in SUBSET Slots
BY LimitsAssumption DEF Expect, Take, Matches, TypeOK

LEMMA NothingOwed == [s \in Slots |-> 0] \in [Slots -> 0..MaxPending]
<1>1. 0 \in 0..MaxPending
    BY LimitsAssumption
<1> QED BY <1>1

-----------------------------------------------------------------------------
\* Type correctness, one step for each action.

LEMMA OnButtonKeepsType ==
    ASSUME TypeOK, NEW e \in Event, OnButton(e)
    PROVE  /\ enabled' \in BOOLEAN /\ driver' \in BOOLEAN /\ buttons' \in SUBSET Buttons
           /\ echo' \in [Slots -> 0..MaxPending] /\ stale' \in SUBSET Slots
           /\ hook' \in Hooks /\ apps' \in SUBSET Buttons
<1>1. Slot(e) \in Slots /\ e.button \in Buttons
    BY DEF Event, Slot, Slots
<1>2. Pass(e) => hook' \in Hooks /\ apps' \in SUBSET Buttons
    BY <1>1, HookRecord DEF Pass, TypeOK
<1>3. CASE ~(enabled /\ driver) /\ Pass(e) /\ UNCHANGED shared
    BY <1>2, <1>3 DEF shared, TypeOK
<1>4. CASE DecideButton(e) /\ UNCHANGED <<enabled, driver, buttons>>
    <2>1. echo' \in [Slots -> 0..MaxPending] /\ stale' \in SUBSET Slots
        BY <1>1, <1>4, EchoKeepsType DEF DecideButton
    <2>2. ReportAfter(e) \in SUBSET Buttons
        BY <1>1 DEF ReportAfter, TypeOK
    <2>3. hook' \in Hooks /\ apps' \in SUBSET Buttons
        BY <1>2, <1>4, <2>2 DEF DecideButton, Hooks, TypeOK
    <2> QED BY <1>4, <2>1, <2>3 DEF TypeOK
<1> QED BY <1>3, <1>4 DEF OnButton

LEMMA HookStepKeepsType ==
    ASSUME TypeOK, HookStep
    PROVE  TypeOK'
<1> USE DEF TypeOK
<1>1. ASSUME NEW pc \in {"idle", "send", "remember", "undo"}, At(pc)
      PROVE  hook' \in Hooks /\ apps' \in SUBSET Buttons
    BY <1>1, HookRecord DEF At, Hooks
<1>2. Swallow => hook' \in Hooks /\ apps' \in SUBSET Buttons
    BY HookRecord DEF Swallow
<1>3. Pass(hook.event) => hook' \in Hooks /\ apps' \in SUBSET Buttons
    BY HookRecord DEF Pass, Event
<1>4. Slot(hook.event) \in Slots
    BY DEF Slot, Slots, Event
<1>5. CASE HookSend
    BY <1>1, <1>3, <1>5, SendKeepsType DEF HookSend, Hooks, SendFails, device, shared, user
<1>6. CASE HookRemember
    <2>1. CASE enabled
        <3>1. buttons' = hook.report /\ Expect(Slot(hook.event)) /\ Swallow
            BY <1>6, <2>1 DEF HookRemember
        <3>2. echo' \in [Slots -> 0..MaxPending] /\ stale' \in SUBSET Slots
            BY <1>4, <3>1, EchoKeepsType
        <3> QED BY <1>2, <1>6, <3>1, <3>2 DEF HookRemember, Hooks, device, user
    <2>2. CASE ~enabled
        BY <1>1, <1>6, <2>2 DEF HookRemember, Hooks, device, user
    <2> QED BY <2>1, <2>2
<1>7. CASE HookUndo
    BY <1>2, <1>7, SendKeepsType DEF HookUndo, Hooks, shared, user
<1> QED BY <1>5, <1>6, <1>7 DEF HookStep

LEMMA MissKeepsType ==
    ASSUME TypeOK, HookMissesEvent
    PROVE  TypeOK'
<1> USE DEF TypeOK, shared
<1>1. \A e \in Event : Pass(e) => hook' \in Hooks /\ apps' \in SUBSET Buttons
    BY HookRecord DEF Pass, Event
<1>2. CASE physQ /= <<>> /\ Pass(Head(physQ)) /\ physQ' = Tail(physQ) /\ UNCHANGED virtQ
    <2>1. Head(physQ) \in Event /\ Tail(physQ) \in Seq(Event)
        BY <1>2, HeadTailProperties
    <2> QED BY <1>1, <1>2, <2>1 DEF HookMissesEvent, Hooks
<1>3. CASE virtQ /= <<>> /\ Pass(Head(virtQ)) /\ virtQ' = Tail(virtQ) /\ UNCHANGED physQ
    <2>1. Head(virtQ) \in Event /\ Tail(virtQ) \in Seq(Event)
        BY <1>3, HeadTailProperties
    <2> QED BY <1>1, <1>3, <2>1 DEF HookMissesEvent, Hooks
<1> QED BY <1>2, <1>3 DEF HookMissesEvent

LEMMA UiKeepsType ==
    ASSUME TypeOK, Ui
    PROVE  TypeOK'
<1> USE DEF TypeOK, shared, device, user
<1>1. CASE UiOn
    BY <1>1 DEF UiOn
<1>2. CASE UiOff
    BY <1>2, NothingOwed DEF UiOff, ClearButtons
<1>3. CASE UiLocks
    BY <1>3 DEF UiLocks
<1>4. CASE UiReleases
    <2>1. Delivered({}) => /\ plugged' \in BOOLEAN /\ dev' \in SUBSET Buttons
                           /\ virtQ' \in Seq(Event)
        BY TakesKeepsType DEF Delivered
    <2> QED BY <1>4, <2>1 DEF UiReleases, TurnedDown
<1>5. CASE UiBusy \/ UiDone
    BY <1>5 DEF UiBusy, UiDone
<1> QED BY <1>1, <1>2, <1>3, <1>4, <1>5 DEF Ui

LEMMA CloseKeepsType ==
    ASSUME TypeOK, Close
    PROVE  TypeOK'
<1> USE DEF TypeOK, shared, device, user
<1>1. CASE CloseStops
    BY <1>1, NothingOwed DEF CloseStops, ClearButtons
<1>2. CASE CloseReleases
    <2>1. plugged' \in BOOLEAN /\ dev' \in SUBSET Buttons /\ virtQ' \in Seq(Event)
        BY <1>2, SendKeepsType DEF CloseReleases
    <2> QED BY <1>2, <2>1 DEF CloseReleases
<1>3. CASE CloseUnplugs
    BY <1>3 DEF CloseUnplugs
<1> QED BY <1>1, <1>2, <1>3 DEF Close

LEMMA WorldKeepsType ==
    ASSUME TypeOK, World
    PROVE  TypeOK'
<1> USE DEF TypeOK, shared, device, user
<1>1. \A mb \in Mice \X Buttons : mb[2] \in Buttons /\ Flip(mb) \in SUBSET (Mice \X Buttons)
    BY DEF Flip
<1>2. ASSUME NEW mb \in Mice \X Buttons, UserClicks(mb)
      PROVE  TypeOK'
    <2>1. [button |-> mb[2], down |-> mb \notin phys] \in Event
        BY <1>1 DEF Event
    <2>2. physQ' \in Seq(Event)
        BY <1>2, <2>1, AppendProperties DEF UserClicks
    <2> QED BY <1>1, <1>2, <2>2 DEF UserClicks
<1>3. ASSUME NEW s \in Slots, EchoLapses(s)
      PROVE  TypeOK'
    BY <1>3 DEF EchoLapses
<1> QED BY <1>2, <1>3 DEF World

LEMMA NextKeepsType == TypeOK /\ [Next]_vars => TypeOK'
<1> SUFFICES ASSUME TypeOK, [Next]_vars PROVE TypeOK'
    OBVIOUS
<1>1. CASE HookGetsButton
    <2>1. Head(physQ) \in Event /\ Tail(physQ) \in Seq(Event)
        BY <1>1, HeadTailProperties DEF HookGetsButton, TypeOK
    <2> QED BY <1>1, <2>1, OnButtonKeepsType DEF HookGetsButton, OnButton, TypeOK, Hooks
<1>2. CASE HookGetsEcho
    <2>1. Head(virtQ) \in Event /\ Tail(virtQ) \in Seq(Event)
        BY <1>2, HeadTailProperties DEF HookGetsEcho, TypeOK
    <2> QED BY <1>2, <2>1, OnButtonKeepsType DEF HookGetsEcho, OnButton, TypeOK, Hooks
<1>3. CASE UNCHANGED vars
    BY <1>3 DEF vars, shared, device, user, TypeOK
<1>4. CASE Next
    BY <1>1, <1>2, <1>4, MissKeepsType, HookStepKeepsType, UiKeepsType, CloseKeepsType,
       WorldKeepsType DEF Next
<1> QED BY <1>3, <1>4

LEMMA TypeInit == Init => TypeOK
<1> SUFFICES ASSUME Init PROVE TypeOK
    OBVIOUS
<1>1. /\ env \in SUBSET Behaviours /\ enabled \in BOOLEAN /\ driver \in BOOLEAN
      /\ plugged \in BOOLEAN
    BY EnvAssumption DEF Init
<1>2. /\ buttons \in SUBSET Buttons /\ stale \in SUBSET Slots /\ dev \in SUBSET Buttons
      /\ phys \in SUBSET (Mice \X Buttons) /\ apps \in SUBSET Buttons
    BY DEF Init
<1>3. echo \in [Slots -> 0..MaxPending] /\ hook \in Hooks
    BY HookRecord, NothingOwed DEF Init
<1>4. virtQ \in Seq(Event) /\ physQ \in Seq(Event)
    BY EmptySeq DEF Init
<1> QED BY <1>1, <1>2, <1>3, <1>4 DEF Init, TypeOK, Hooks

\* Every reachable state is well typed: only buttons get into a report, and no
\* counter of the echo filter passes MAX_PENDING or falls below zero.
THEOREM TypeCorrect == Spec => []TypeOK
BY TypeInit, NextKeepsType, PTL DEF Spec

-----------------------------------------------------------------------------
(***************************************************************************)
(* The inductive invariant.  Custody ties the locks and the threads        *)
(* together in all surroundings.  InSomeHand says who answers for what the *)
(* device holds: the record, the callback that has just sent it, the       *)
(* switch on its way to release it or the console handler.  The last lets  *)
(* go of it only when the mouse has left the bus.  HookIsWatched is for a  *)
(* lock that others may hold: a switch that waits for the callback leaves  *)
(* only the console handler to make its undo necessary.                    *)
(***************************************************************************)
Releasing == ui \in {"release", "releasing"}

Custody ==
    /\ conn = "ui" <=> ui \in {"releasing", "busy"}
    /\ ui = "busy" => "contend" \in env
    /\ driver <=> closer = "idle"
    /\ enabled \/ buttons = {}
    /\ plugged <=> closer /= "done"
    /\ plugged \/ dev = {}

HookIsWatched ==
    "race" \notin env =>
        /\ hook.pc /= "idle" => enabled \/ closer /= "idle"
        /\ hook.pc = "undo" => closer /= "idle"

InSomeHand ==
    Undisturbed =>
        /\ hook.pc = "remember" => dev \subseteq hook.report
        /\ \/ dev \subseteq buttons
           \/ hook.pc \in {"remember", "undo"}
           \/ Releasing
           \/ closer \in {"release", "unplug"}

IInv == TypeOK /\ Custody /\ HookIsWatched /\ InSomeHand

\* What the lock and the device do in a report that is sent or refused.
LEMMA SendEffect ==
    ASSUME NEW report, SendNow(report) \/ SendFails
    PROVE  /\ plugged' = plugged
           /\ dev' = report \/ dev' = dev
           /\ dev' = report \/ conn /= "free" \/ ~plugged \/ "refuse" \in env
           /\ ~plugged => dev' = dev
BY DEF SendNow, SendFails, Delivered, Takes, device

\* What every way through a callback does to the thread.
LEMMA HookMoves ==
    /\ \A e : Pass(e) => hook' = Resting
    /\ Swallow => hook' = Resting
    /\ \A pc \in {"remember", "undo"} : TypeOK /\ At(pc) =>
          hook'.pc = pc /\ hook'.report = hook.report
BY HookRecord DEF Pass, Swallow, At, TypeOK, Hooks

LEMMA OnButtonEffect ==
    ASSUME NEW e, OnButton(e)
    PROVE  /\ hook.pc = "idle"
           /\ UNCHANGED <<env, enabled, driver, buttons, ui, closer, conn, plugged, dev>>
           /\ hook'.pc = "idle" \/ (hook'.pc = "send" /\ enabled)
BY HookMoves, HookRecord DEF OnButton, DecideButton, shared

\* What the three steps of a callback leave alone.
LEMMA HookStepFrame ==
    ASSUME HookStep
    PROVE  UNCHANGED <<env, enabled, driver, ui, closer, conn, plugged>>
BY SendEffect DEF HookStep, HookSend, HookRemember, HookUndo, shared, device

\* An event that misses the hook leaves it where it was, between two events.
LEMMA MissFrame ==
    ASSUME HookMissesEvent
    PROVE  /\ UNCHANGED <<env, enabled, driver, buttons, ui, closer, conn, plugged, dev>>
           /\ hook.pc = "idle" /\ hook'.pc = "idle"
BY HookMoves, HookRecord DEF HookMissesEvent, shared

LEMMA WorldFrame ==
    ASSUME World
    PROVE  UNCHANGED <<env, enabled, driver, buttons, hook, ui, closer, conn, plugged, dev>>
BY DEF World, UserClicks, EchoLapses, shared, device

LEMMA CustodyNext == TypeOK /\ Custody /\ [Next]_vars => Custody'
<1> SUFFICES ASSUME TypeOK, Custody, [Next]_vars PROVE Custody'
    OBVIOUS
<1> USE DEF Custody
<1>1. CASE HookGetsButton \/ HookGetsEcho
    <2>1. PICK e : OnButton(e)
        BY <1>1 DEF HookGetsButton, HookGetsEcho
    <2> QED BY <2>1, OnButtonEffect
<1>2. CASE HookStep
    <2>1. ~plugged => dev' = dev
        BY <1>2, SendEffect DEF HookStep, HookSend, HookRemember, HookUndo, device
    <2>2. enabled \/ buttons' = {}
        BY <1>2 DEF HookStep, HookSend, HookRemember, HookUndo, shared
    <2> QED BY <1>2, <2>1, <2>2, HookStepFrame
<1>3. CASE UiOn \/ UiOff
    BY <1>3 DEF UiOn, UiOff, MaySwitch, ClearButtons, device
<1>4. CASE UiLocks \/ UiBusy \/ UiDone
    BY <1>4 DEF UiLocks, UiBusy, UiDone, shared, device
<1>5. CASE UiReleases
    <2>1. /\ UNCHANGED <<env, enabled, driver, buttons, closer, plugged>>
          /\ dev' = {} \/ dev' = dev
          /\ ui' = "idle" /\ conn' = "free"
        BY <1>5 DEF UiReleases, Delivered, TurnedDown, Takes, shared, device
    <2>2. plugged' \/ dev' = {}
        BY <2>1, Zenon
    <2> QED BY <2>1, <2>2
<1>6. CASE CloseStops
    BY <1>6 DEF CloseStops, ClearButtons, device
<1>7. CASE CloseReleases
    BY <1>7, SendEffect DEF CloseReleases, shared
<1>8. CASE CloseUnplugs
    BY <1>8 DEF CloseUnplugs, shared
<1>9. CASE World \/ HookMissesEvent
    BY <1>9, WorldFrame, MissFrame
<1>10. CASE UNCHANGED vars
    BY <1>10 DEF vars, shared, device
<1> HIDE DEF Custody
<1> QED BY <1>1, <1>2, <1>3, <1>4, <1>5, <1>6, <1>7, <1>8, <1>9, <1>10 DEF Next, Ui, Close

LEMMA WatchedNext == TypeOK /\ Custody /\ HookIsWatched /\ [Next]_vars => HookIsWatched'
<1> SUFFICES ASSUME TypeOK, Custody, HookIsWatched, [Next]_vars PROVE HookIsWatched'
    OBVIOUS
<1> USE DEF HookIsWatched
<1>1. CASE HookGetsButton \/ HookGetsEcho
    <2>1. PICK e : OnButton(e)
        BY <1>1 DEF HookGetsButton, HookGetsEcho
    <2> QED BY <2>1, OnButtonEffect
<1>2. CASE HookStep
    <2>1. /\ hook.pc /= "idle"
          /\ hook'.pc = "undo" => ~enabled
        BY <1>2, HookMoves, HookRecord DEF HookStep, HookSend, HookRemember, HookUndo
    <2> QED BY <1>2, <2>1, HookStepFrame
<1>3. CASE UiOn \/ UiOff
    BY <1>3 DEF UiOn, UiOff, MaySwitch
<1>4. CASE UiLocks \/ UiBusy \/ UiDone \/ UiReleases
    BY <1>4 DEF UiLocks, UiBusy, UiDone, UiReleases, shared
<1>5. CASE Close
    BY <1>5 DEF Close, CloseStops, CloseReleases, CloseUnplugs, shared
<1>6. CASE World \/ HookMissesEvent
    BY <1>6, WorldFrame, MissFrame
<1>7. CASE UNCHANGED vars
    BY <1>7 DEF vars, shared
<1> HIDE DEF HookIsWatched
<1> QED BY <1>1, <1>2, <1>3, <1>4, <1>5, <1>6, <1>7 DEF Next, Ui

LEMMA HandNext == IInv /\ [Next]_vars => InSomeHand'
<1> SUFFICES ASSUME IInv, [Next]_vars, Undisturbed' PROVE InSomeHand'
    BY DEF InSomeHand
<1>0. /\ env' = env /\ Undisturbed /\ "refuse" \notin env
      /\ "race" \notin env \/ "contend" \notin env
    <2>1. env' = env
        BY HookStepFrame, WorldFrame, MissFrame
           DEF Next, vars, HookGetsButton, HookGetsEcho, OnButton, Ui, Close, UiOn, UiOff,
               UiLocks, UiReleases, UiBusy, UiDone, CloseStops, CloseReleases, CloseUnplugs
    <2> QED BY <2>1 DEF Undisturbed, Without
<1> USE <1>0 DEF IInv, InSomeHand, Releasing
<1>1. CASE HookGetsButton \/ HookGetsEcho
    <2>1. PICK e : OnButton(e)
        BY <1>1 DEF HookGetsButton, HookGetsEcho
    <2> QED BY <2>1, OnButtonEffect
<1>2. CASE HookSend
    <2>1. CASE SendNow(hook.report) /\ At("remember")
        BY <2>1, HookMoves DEF SendNow, Delivered, Takes
    <2>2. CASE SendFails /\ Pass(hook.event)
        BY <1>2, <2>2, HookMoves, HookRecord DEF HookSend, SendFails, shared, device
    <2> QED BY <1>2, <2>1, <2>2 DEF HookSend
<1>3. CASE HookRemember
    <2>1. CASE enabled
        BY <1>3, <2>1, HookMoves, HookRecord DEF HookRemember, device
    <2>2. CASE ~enabled
        BY <1>3, <2>2, HookMoves DEF HookRemember
    <2> QED BY <2>1, <2>2
<1>4. CASE HookUndo
    <2>1. hook'.pc = "idle" /\ UNCHANGED <<env, ui, closer, buttons>>
        BY <1>4, HookMoves, HookRecord DEF HookUndo, shared
    <2>2. CASE dev' = {}
        BY <2>1, <2>2
    <2>3. CASE dev' /= {}
        <3>1. plugged /\ conn /= "free"
            BY <1>4, <2>3, SendEffect DEF HookUndo, Custody
        <3>2. CASE "contend" \notin env
            BY <2>1, <3>1, <3>2 DEF Custody, TypeOK
        <3>3. CASE "race" \notin env
            BY <1>4, <2>1, <3>1, <3>3 DEF Custody, HookIsWatched, HookUndo, TypeOK
        <3> QED BY <3>2, <3>3
    <2> QED BY <2>2, <2>3
<1>5. CASE UiOn
    BY <1>5 DEF UiOn, device
<1>6. CASE UiOff
    BY <1>6 DEF UiOff, ClearButtons, device, Custody, TypeOK
<1>7. CASE UiLocks \/ UiBusy \/ UiDone
    BY <1>7 DEF UiLocks, UiBusy, UiDone, shared, device
<1>8. CASE UiReleases
    BY <1>8 DEF UiReleases, Delivered, TurnedDown, Takes, shared, device, Custody
<1>9. CASE CloseStops
    BY <1>9 DEF CloseStops, Custody, device
<1>10. CASE CloseReleases
    BY <1>10, SendEffect DEF CloseReleases, shared
<1>11. CASE CloseUnplugs
    BY <1>11 DEF CloseUnplugs, shared
<1>12. CASE World \/ HookMissesEvent
    BY <1>12, WorldFrame, MissFrame
<1>13. CASE UNCHANGED vars
    BY <1>13 DEF vars, shared, device
<1> HIDE DEF IInv, InSomeHand
<1> QED BY <1>1, <1>2, <1>3, <1>4, <1>5, <1>6, <1>7, <1>8, <1>9, <1>10, <1>11, <1>12, <1>13
        DEF Next, HookStep, Ui, Close

LEMMA Inductive == Spec => []IInv
<1>1. Init => IInv
    BY TypeInit DEF Init, IInv, Custody, HookIsWatched, InSomeHand, Resting, Releasing
<1>2. IInv /\ [Next]_vars => IInv'
    BY NextKeepsType, CustodyNext, WatchedNext, HandNext DEF IInv
<1> QED BY <1>1, <1>2, PTL DEF Spec

\* Between two events every button the virtual mouse holds is in the record,
\* wherever the switch and the closing window fall in a callback, as long as no
\* report is refused and not both the switch and others fight over the lock.
THEOREM RecordCovers == Spec => []RecordCoversDevice
<1>1. IInv => RecordCoversDevice
    BY DEF IInv, InSomeHand, RecordCoversDevice, Settled, Releasing, Custody
<1> QED BY <1>1, Inductive, PTL

\* Under the same assumptions a mouse that is off holds nothing once everybody
\* is done: what KeyOutcome::Repeat takes from the keyboard the mouse keeps.
THEOREM OffHolds == Spec => []OffHoldsNothing
<1>1. IInv => OffHoldsNothing
    BY DEF IInv, InSomeHand, OffHoldsNothing, Settled, Releasing, Custody
<1> QED BY <1>1, Inductive, PTL

-----------------------------------------------------------------------------
(***************************************************************************)
(* The second inductive invariant is about an undisturbed session, several *)
(* mice and the switch included.  For every button, each queue is a run of *)
(* the button's level, from what the hook has seen of it to what the desk  *)
(* or the device has made of it.  The record, the echoes owed and what the *)
(* applications believe balance with the two levels the hook has seen.     *)
(***************************************************************************)
Plain == Without({"refuse", "contend", "race", "late", "unheard"}) /\ closer = "idle"

Click(b, d) == [button |-> b, down |-> d]

\* How far an event moves the level of button b.
Moves(b, S) ==
    {m \in S \X Event \X S :
        IF m[2].button /= b THEN m[3] = m[1]
        ELSE IF m[2].down   THEN m[3] = m[1] + 1
                            ELSE m[1] = m[3] + 1}

Level(X, b) == IF b \in X THEN 1 ELSE 0
Held(b)     == Cardinality({mb \in phys : mb[2] = b})
Desk        == IF "both" \in env THEN Nat ELSE 0..1

DeviceRun(v, b) == Run(Moves(b, 0..1), 0..1, virtQ, v, Level(dev, b))
DeskRun(p, b)   == Run(Moves(b, Desk), Desk, physQ, p, Held(b))

\* The record as it will be when the callback under way is done with it.
Busy   == hook.pc \in {"send", "remember"}
Record == IF Busy THEN hook.report ELSE buttons

\* The echoes the hook will let pass, and those that are sure to come.
Owed(e)   == echo[Slot(e)] + IF Busy /\ hook.event = e THEN 1 ELSE 0
Coming(e) == \/ Count(virtQ, e) > 0
             \/ hook.pc = "send" /\ hook.event = e /\ (e.down <=> e.button \notin buttons)

\* n is how often the hook has seen button b go down and not yet up.
Balance(n, b) ==
    /\ Owed(Click(b, TRUE)) \in 0..1 /\ Owed(Click(b, FALSE)) \in 0..1
    /\ Owed(Click(b, FALSE)) = 1 => Coming(Click(b, FALSE))
    /\ n + Owed(Click(b, TRUE)) >= 2 * Level(Record, b) + Owed(Click(b, FALSE))
    /\ b \in Record /\ Owed(Click(b, TRUE)) = 1 /\ ~Coming(Click(b, TRUE)) =>
          n >= 3 + Owed(Click(b, FALSE))
    /\ b \in apps => n >= 1
    /\ b \in apps /\ b \in Record /\ Owed(Click(b, FALSE)) = 0 => n >= 2

Balanced ==
    \A b \in Buttons : \E v \in 0..1, p \in Desk :
        DeviceRun(v, b) /\ DeskRun(p, b) /\ Balance(v + p, b)

\* One user, one mouse unless it is said that there are more.
OneDesk ==
    /\ IsFiniteSet(phys)
    /\ "both" \notin env => \A mb \in phys : mb[1] = CHOOSE m \in Mice : TRUE
    /\ closer /= "idle" => "close" \in env

Hand ==
    /\ hook.pc \in {"idle", "send", "remember"}
    /\ hook.pc /= "idle" => enabled
    /\ stale = {}
    /\ ~enabled => echo = [s \in Slots |-> 0]
    /\ Releasing => ~enabled
    /\ ~Releasing => dev = IF hook.pc = "remember" THEN hook.report ELSE buttons
    /\ Busy => hook.report = ReportAfter(hook.event) /\ echo[Slot(hook.event)] = 0
    /\ Busy /\ ~hook.event.down => hook.event.button \in buttons
    /\ Busy /\ hook.event.down /\ "both" \notin env => hook.event.button \notin buttons

Ledger == OneDesk /\ (Plain => Hand /\ Balanced)

-----------------------------------------------------------------------------
\* What the operators of the ledger mean.

LEMMA ClickFacts ==
    /\ \A b \in Buttons, d \in BOOLEAN :
          /\ Click(b, d) \in Event /\ Click(b, d).button = b /\ Click(b, d).down = d
          /\ Slot(Click(b, d)) = <<b, d>> /\ <<b, d>> \in Slots
    /\ \A e \in Event : e.button \in Buttons /\ e.down \in BOOLEAN /\ Slot(e) \in Slots
                          /\ e = Click(e.button, e.down)
    /\ \A x, y \in Event : Slot(x) = Slot(y) => x = y
BY DEF Click, Event, Slot, Slots

LEMMA MoveMeans ==
    ASSUME NEW b, NEW S, NEW s, NEW e, NEW t, <<s, e, t>> \in Moves(b, S)
    PROVE  /\ s \in S /\ t \in S /\ e \in Event
           /\ e.button /= b => t = s
           /\ e.button = b /\ e.down => t = s + 1
           /\ e.button = b /\ ~e.down => s = t + 1
BY DEF Moves

LEMMA MoveIs ==
    ASSUME NEW b, NEW S, NEW s \in S, NEW e \in Event, NEW t \in S,
           \/ e.button /= b /\ t = s
           \/ e.button = b /\ e.down /\ t = s + 1
           \/ e.button = b /\ ~e.down /\ s = t + 1
    PROVE  <<s, e, t>> \in Moves(b, S)
BY DEF Moves

\* The edges of a report: one event for every button of the set.
LEMMA EdgesOnce ==
    ASSUME NEW held \in SUBSET Buttons, NEW d \in BOOLEAN
    PROVE  LET q == Edges(held, d)
           IN  /\ q \in Seq(Event)
               /\ \A i \in 1..Len(q) : q[i] = Click(q[i].button, d) /\ q[i].button \in held
               /\ \A i, j \in 1..Len(q) : q[i] = q[j] => i = j
               /\ \A b \in held : \E i \in 1..Len(q) : q[i] = Click(b, d)
<1> DEFINE T == [button : held, down : {d}]
           q == SetToSeq(T)
<1>1. IsFiniteSet(held)
    BY ButtonsAssumption, FS_Subset
<1>2. IsFiniteSet(T)
    <2> DEFINE f == [b \in held |-> Click(b, d)]
    <2>1. f \in [held -> T]
        BY DEF Click
    <2>2. \A t \in T : \E b \in held : f[b] = t
        <3> TAKE t \in T
        <3>1. t.button \in held /\ t = Click(t.button, d)
            BY DEF Click
        <3> QED BY <3>1
    <2>3. f \in Surjection(held, T)
        BY <2>1, <2>2, Zenon DEF Surjection
    <2> HIDE DEF f, T
    <2> QED BY <1>1, <2>3, FS_Surjection
<1>3. \A t \in T : t \in Event /\ t = Click(t.button, d) /\ t.button \in held
    BY DEF Event, Click
<1>4. \A b \in held : Click(b, d) \in T
    BY DEF Click
<1> HIDE DEF T
<1>5. /\ q \in Seq(T)
      /\ \A i, j \in 1..Len(q) : q[i] = q[j] => i = j
      /\ \A x \in T : \E i \in 1..Len(q) : q[i] = x
    BY <1>2, SetToSeqOnce
<1> HIDE DEF q
<1>6. \A i \in 1..Len(q) : q[i] \in T
    BY <1>5, ElementOfSeq
<1>7. q \in Seq(Event)
    BY <1>3, <1>5, SeqMonotonic
<1>8. q = Edges(held, d)
    BY DEF q, T, Edges
<1> QED BY <1>3, <1>4, <1>5, <1>6, <1>7, <1>8

LEMMA EdgesCount ==
    ASSUME NEW held \in SUBSET Buttons, NEW d \in BOOLEAN, NEW e \in Event
    PROVE  Count(Edges(held, d), e) = IF e.button \in held /\ e.down = d THEN 1 ELSE 0
<1> DEFINE q == Edges(held, d)
<1>1. /\ q \in Seq(Event)
      /\ \A i \in 1..Len(q) : q[i] = Click(q[i].button, d) /\ q[i].button \in held
      /\ \A i, j \in 1..Len(q) : q[i] = q[j] => i = j
      /\ \A b \in held : \E i \in 1..Len(q) : q[i] = Click(b, d)
    BY EdgesOnce
<1> HIDE DEF q
<1>2. CASE e.button \in held /\ e.down = d
    <2>1. PICK k \in 1..Len(q) : q[k] = e
        BY <1>1, <1>2, ClickFacts
    <2> QED BY <1>1, <1>2, <2>1, CountOne DEF q
<1>3. CASE ~(e.button \in held /\ e.down = d)
    <2>1. \A i \in 1..Len(q) : q[i] /= e
        <3> SUFFICES ASSUME NEW i \in 1..Len(q), q[i] = e
                     PROVE  FALSE
            OBVIOUS
        <3>1. e.button \in held /\ e = Click(e.button, d)
            BY <1>1
        <3>2. e.down = d
            BY <3>1 DEF Click
        <3> QED BY <1>3, <3>1, <3>2
    <2>2. ~(Count(q, e) > 0)
        BY <1>1, <2>1, CountPositive
    <2>3. Count(q, e) \in Nat
        BY <1>1, CountType
    <2>4. Count(q, e) = 0
        BY <2>2, <2>3
    <2> QED BY <1>3, <2>4 DEF q
<1> QED BY <1>2, <1>3

LEMMA EdgesRun ==
    ASSUME NEW held \in SUBSET Buttons, NEW d \in BOOLEAN, NEW b \in Buttons,
           NEW s \in 0..1, NEW t \in 0..1,
           b \notin held => t = s,
           b \in held => IF d THEN s = 0 /\ t = 1 ELSE s = 1 /\ t = 0
    PROVE  Run(Moves(b, 0..1), 0..1, Edges(held, d), s, t)
<1> DEFINE q == Edges(held, d)
<1>1. /\ q \in Seq(Event)
      /\ \A i \in 1..Len(q) : q[i] = Click(q[i].button, d) /\ q[i].button \in held
      /\ \A i, j \in 1..Len(q) : q[i] = q[j] => i = j
      /\ \A x \in held : \E i \in 1..Len(q) : q[i] = Click(x, d)
    BY EdgesOnce
<1>2. \A i \in 1..Len(q) : q[i] \in Event
    BY <1>1, ElementOfSeq
<1> HIDE DEF q
<1>3. CASE b \notin held
    <2>1. \A i \in 1..Len(q) : <<s, q[i], s>> \in Moves(b, 0..1)
        BY <1>1, <1>2, <1>3, MoveIs
    <2> QED BY <1>1, <1>3, <2>1, RunStays DEF q
<1>4. CASE b \in held
    <2>1. PICK k \in 1..Len(q) : q[k] = Click(b, d)
        BY <1>1, <1>4
    <2>2. <<s, q[k], t>> \in Moves(b, 0..1)
        <3>1. q[k] \in Event /\ q[k].button = b /\ q[k].down = d
            BY <1>2, <2>1 DEF Click
        <3>2. CASE d
            <4>1. t = s + 1 /\ q[k].down
                BY <1>4, <3>1, <3>2
            <4> QED BY <3>1, <4>1, MoveIs
        <3>3. CASE ~d
            <4>1. s = t + 1 /\ ~q[k].down
                BY <1>4, <3>1, <3>3
            <4> QED BY <3>1, <4>1, MoveIs
        <3> QED BY <3>2, <3>3
    <2>3. \A i \in 1..Len(q) : i /= k => q[i].button /= b
        BY <1>1, <2>1
    <2>4. \A i \in 1..Len(q) : i /= k =>
             <<s, q[i], s>> \in Moves(b, 0..1) /\ <<t, q[i], t>> \in Moves(b, 0..1)
        BY <1>2, <2>3, MoveIs
    <2> QED BY <1>1, <2>2, <2>4, RunMovesOnce DEF q
<1> QED BY <1>3, <1>4

\* The virtual mouse clicks what its report changes, and nothing else.
LEMMA TakesRun ==
    ASSUME TypeOK, NEW report \in SUBSET Buttons, Takes(report), NEW b \in Buttons,
           NEW v \in 0..1, DeviceRun(v, b)
    PROVE  DeviceRun(v, b)'
<1> DEFINE M == Moves(b, 0..1)
           ups == Edges(dev \ report, FALSE)
           downs == Edges(report \ dev, TRUE)
<1>1. dev \in SUBSET Buttons /\ virtQ \in Seq(Event)
    BY DEF TypeOK
<1>2. ups \in Seq(Event) /\ downs \in Seq(Event) /\ virtQ \o ups \in Seq(Event)
    BY <1>1, EdgesIsSeq, ConcatProperties
<1>3. \A X : Level(X, b) \in 0..1
    BY DEF Level
<1>4. Run(M, 0..1, ups, Level(dev, b), Level(dev \cap report, b))
    <2>1. b \notin dev \ report => Level(dev \cap report, b) = Level(dev, b)
        BY DEF Level
    <2>2. b \in dev \ report => Level(dev, b) = 1 /\ Level(dev \cap report, b) = 0
        BY DEF Level
    <2> QED BY <1>1, <1>3, <2>1, <2>2, EdgesRun
<1>5. Run(M, 0..1, downs, Level(dev \cap report, b), Level(report, b))
    <2>1. b \notin report \ dev => Level(dev \cap report, b) = Level(report, b)
        BY DEF Level
    <2>2. b \in report \ dev => Level(dev \cap report, b) = 0 /\ Level(report, b) = 1
        BY DEF Level
    <2> QED BY <1>1, <1>3, <2>1, <2>2, EdgesRun
<1> HIDE DEF M, ups, downs
<1>6. Run(M, 0..1, virtQ \o ups, v, Level(dev \cap report, b))
    BY <1>1, <1>2, <1>4, RunConcat DEF DeviceRun, M
<1>7. Run(M, 0..1, virtQ \o ups \o downs, v, Level(report, b))
    BY <1>2, <1>5, <1>6, RunConcat
<1> QED BY <1>7 DEF Takes, DeviceRun, M, ups, downs

LEMMA TakesCount ==
    ASSUME TypeOK, NEW report \in SUBSET Buttons, Takes(report), NEW e \in Event
    PROVE  Count(virtQ, e)' = Count(virtQ, e)
             + IF e.button \in (IF e.down THEN report \ dev ELSE dev \ report) THEN 1 ELSE 0
<1> DEFINE ups == Edges(dev \ report, FALSE)
           downs == Edges(report \ dev, TRUE)
<1>1. dev \in SUBSET Buttons /\ virtQ \in Seq(Event)
    BY DEF TypeOK
<1>2. ups \in Seq(Event) /\ downs \in Seq(Event) /\ virtQ \o ups \in Seq(Event)
    BY <1>1, EdgesIsSeq, ConcatProperties
<1>3. Count(ups, e) = IF e.button \in dev \ report /\ e.down = FALSE THEN 1 ELSE 0
    BY <1>1, EdgesCount
<1>4. Count(downs, e) = IF e.button \in report \ dev /\ e.down = TRUE THEN 1 ELSE 0
    BY <1>1, EdgesCount
<1> HIDE DEF ups, downs
<1>5. Count(virtQ \o ups \o downs, e) = Count(virtQ \o ups, e) + Count(downs, e)
    BY <1>2, CountConcat
<1>6. Count(virtQ \o ups, e) = Count(virtQ, e) + Count(ups, e)
    BY <1>1, <1>2, CountConcat
<1>7. Count(virtQ, e) \in Nat
    BY <1>1, CountType
<1>8. virtQ' = virtQ \o ups \o downs
    BY DEF Takes, ups, downs
<1>9. Count(virtQ, e)' = Count(virtQ \o ups \o downs, e)
    BY <1>8
<1>10. CASE e.down
    <2>1. e.down = TRUE
        BY <1>10, ClickFacts
    <2> QED BY <1>3, <1>4, <1>5, <1>6, <1>7, <1>9, <2>1
<1>11. CASE ~e.down
    <2>1. e.down = FALSE
        BY <1>11, ClickFacts
    <2> QED BY <1>3, <1>4, <1>5, <1>6, <1>7, <1>9, <2>1
<1> QED BY <1>10, <1>11

-----------------------------------------------------------------------------
\* One event at the hook: it passes, or it is on its way to the device.

Passed(e) ==
    /\ hook'.pc = "idle"
    /\ apps' = IF e.down THEN apps \cup {e.button} ELSE apps \ {e.button}
    /\ echo' = [echo EXCEPT ![Slot(e)] = 0]
    /\ \/ ~enabled
       \/ echo[Slot(e)] > 0
       \/ ~e.down /\ e.button \notin buttons

Replayed(e) ==
    /\ enabled
    /\ hook' = [pc |-> "send", event |-> e, report |-> ReportAfter(e)]
    /\ apps' = apps
    /\ echo' = echo /\ echo[Slot(e)] = 0
    /\ e.down \/ e.button \in buttons

LEMMA OnButtonEither ==
    ASSUME TypeOK, Custody, Plain, Hand, NEW e \in Event, OnButton(e), echo[Slot(e)] \in 0..1
    PROVE  /\ hook.pc = "idle"
           /\ UNCHANGED <<env, enabled, driver, buttons, stale, ui, closer, conn, plugged, dev,
                          phys>>
           /\ Passed(e) \/ Replayed(e)
<1>1. driver /\ stale = {} /\ hook.pc = "idle" /\ Slot(e) \in Slots
    BY ClickFacts DEF Custody, Plain, Hand, OnButton
<1>2. UNCHANGED <<env, enabled, driver, buttons, ui, closer, conn, plugged, dev, phys>>
    BY DEF OnButton, shared
<1>3. Pass(e) => hook'.pc = "idle" /\ apps' = IF e.down THEN apps \cup {e.button}
                                                ELSE apps \ {e.button}
    BY HookRecord DEF Pass
<1>4. echo \in [Slots -> 0..MaxPending]
    BY DEF TypeOK
<1>5. CASE enabled /\ DecideButton(e)
    <2>1. stale' = stale
        BY <1>1, <1>5 DEF DecideButton, Take, Matches
    <2>2. echo' = [echo EXCEPT ![Slot(e)] = 0]
        <3> DEFINE left == IF Matches(Slot(e)) THEN echo[Slot(e)] - 1 ELSE 0
        <3>1. left = 0
            BY <1>1 DEF Matches
        <3>2. echo' = [echo EXCEPT ![Slot(e)] = left]
            BY <1>5 DEF DecideButton, Take
        <3> QED BY <3>1, <3>2
    <2>3. CASE IsReplayed(e)
        <3>1. echo[Slot(e)] = 0 /\ (e.down \/ e.button \in buttons)
            BY <1>1, <2>3 DEF IsReplayed, Matches
        <3>2. echo' = echo
            BY <1>1, <1>4, <2>2, <3>1
        <3>3. hook' = [pc |-> "send", event |-> e, report |-> ReportAfter(e)] /\ apps' = apps
            BY <1>5, <2>3 DEF DecideButton
        <3> QED BY <1>1, <1>2, <1>5, <2>1, <3>1, <3>2, <3>3 DEF Replayed
    <2>4. CASE ~IsReplayed(e)
        <3>1. echo[Slot(e)] > 0 \/ (~e.down /\ e.button \notin buttons)
            BY <1>1, <2>4 DEF IsReplayed, Matches
        <3>2. Pass(e)
            BY <1>5, <2>4 DEF DecideButton
        <3> QED BY <1>1, <1>2, <1>3, <2>1, <2>2, <3>1, <3>2 DEF Passed
    <2> QED BY <2>3, <2>4
<1>6. CASE ~enabled /\ Pass(e) /\ UNCHANGED shared
    <2>1. echo' = echo /\ stale' = stale
        BY <1>6 DEF shared
    <2>2. echo = [s \in Slots |-> 0]
        BY <1>6 DEF Hand
    <2>3. echo' = [echo EXCEPT ![Slot(e)] = 0]
        BY <1>1, <2>1, <2>2
    <2> QED BY <1>1, <1>2, <1>3, <1>6, <2>1, <2>3 DEF Passed
<1> QED BY <1>1, <1>5, <1>6 DEF OnButton

\* Between two events the balance is about the record and the counts alone.
LEMMA AtRest ==
    ASSUME TypeOK, hook.pc = "idle", NEW x \in Event
    PROVE  /\ ~Busy /\ Record = buttons
           /\ Owed(x) = echo[Slot(x)] /\ Owed(x) \in Nat
           /\ Coming(x) <=> Count(virtQ, x) > 0
<1>1. echo[Slot(x)] \in Nat
    BY ClickFacts DEF TypeOK
<1> QED BY <1>1 DEF Busy, Record, Owed, Coming

\* An event that passes uses up the echo it may be, and changes nothing else.
LEMMA PassedOwes ==
    ASSUME TypeOK, NEW e \in Event, hook.pc = "idle", buttons' = buttons, Passed(e),
           NEW x \in Event
    PROVE  /\ Record' = Record
           /\ Owed(x)' = IF x = e THEN 0 ELSE Owed(x)
           /\ Coming(x)' <=> Count(virtQ, x)' > 0
<1>1. Slot(x) \in Slots /\ Slot(e) \in Slots /\ (Slot(x) = Slot(e) => x = e)
    BY ClickFacts
<1>2. Record = buttons /\ Owed(x) = echo[Slot(x)] /\ echo[Slot(x)] \in Nat
    BY AtRest
<1>3. echo' = [echo EXCEPT ![Slot(e)] = 0] /\ hook'.pc = "idle"
    BY DEF Passed
<1>4. echo'[Slot(x)] = IF x = e THEN 0 ELSE echo[Slot(x)]
    BY <1>1, <1>3 DEF TypeOK
<1>5. Owed(x)' = echo'[Slot(x)]
    BY <1>2, <1>3, <1>4 DEF Owed, Busy, Slot
<1> QED BY <1>2, <1>3, <1>4, <1>5 DEF Record, Busy, Coming

\* An event that is replayed will have its echo.
LEMMA ReplayedOwes ==
    ASSUME TypeOK, NEW e \in Event, hook.pc = "idle", buttons' = buttons, Replayed(e),
           NEW x \in Event
    PROVE  /\ Record' = ReportAfter(e)
           /\ Owed(x)' = IF x = e THEN 1 ELSE Owed(x)
           /\ Owed(e) = 0
           /\ x /= e => (Coming(x)' <=> Count(virtQ, x)' > 0)
           /\ (e.down <=> e.button \notin buttons) => Coming(e)'
<1>1. Busy' /\ hook'.event = e /\ hook'.pc = "send" /\ hook'.report = ReportAfter(e)
    BY DEF Busy, Replayed
<1>2. echo' = echo /\ Owed(e) = 0
    BY AtRest DEF Replayed
<1>3. Owed(x) = echo[Slot(x)] /\ Owed(x) \in Nat
    BY AtRest
<1>4. Owed(x)' = echo[Slot(x)] + IF x = e THEN 1 ELSE 0
    BY <1>1, <1>2 DEF Owed, Slot
<1>5. Owed(x)' = IF x = e THEN 1 ELSE Owed(x)
    BY <1>2, <1>3, <1>4
<1>6. x /= e => (Coming(x)' <=> Count(virtQ, x)' > 0)
    BY <1>1 DEF Coming
<1>7. (e.down <=> e.button \notin buttons) => Coming(e)'
    BY <1>1 DEF Coming
<1>8. Record' = ReportAfter(e)
    BY <1>1 DEF Record
<1> QED BY <1>2, <1>5, <1>6, <1>7, <1>8

\* Whatever an event does, the balance of every button survives it.
LEMMA OnButtonBalance ==
    ASSUME TypeOK, Custody, Plain, Hand, NEW e \in Event, OnButton(e),
           NEW b \in Buttons, NEW n \in Nat, NEW m \in Nat,
           echo[Slot(e)] \in 0..1, Balance(n, b),
           e.button /= b => m = n,
           e.button = b /\ e.down => m = n + 1,
           e.button = b /\ ~e.down => n = m + 1,
           \A x \in Event : x /= e => Count(virtQ, x)' = Count(virtQ, x)
    PROVE  Balance(m, b)'
<1> DEFINE T == Click(b, TRUE)
           F == Click(b, FALSE)
<1>1. /\ hook.pc = "idle" /\ UNCHANGED <<enabled, buttons>>
      /\ Passed(e) \/ Replayed(e)
    BY OnButtonEither
<1>2. /\ T \in Event /\ F \in Event /\ T /= F
      /\ e.button /= b => e /= T /\ e /= F
      /\ e.button = b /\ e.down => e = T
      /\ e.button = b /\ ~e.down => e = F
    BY DEF Click, Event
<1>3. /\ Record = buttons
      /\ Owed(T) = echo[Slot(T)] /\ Owed(F) = echo[Slot(F)] /\ Owed(e) = echo[Slot(e)]
      /\ Coming(T) <=> Count(virtQ, T) > 0
      /\ Coming(F) <=> Count(virtQ, F) > 0
    BY <1>1, <1>2, AtRest
<1>4. /\ Owed(T) \in 0..1 /\ Owed(F) \in 0..1
      /\ Owed(F) = 1 => Coming(F)
      /\ n + Owed(T) >= 2 * Level(Record, b) + Owed(F)
      /\ b \in Record /\ Owed(T) = 1 /\ ~Coming(T) => n >= 3 + Owed(F)
      /\ b \in apps => n >= 1
      /\ b \in apps /\ b \in Record /\ Owed(F) = 0 => n >= 2
    BY DEF Balance
<1>5. Level(Record, b) = IF b \in Record THEN 1 ELSE 0
    BY DEF Level
<1>6. Level(Record, b)' = IF b \in Record' THEN 1 ELSE 0
    BY DEF Level
<1> HIDE DEF T, F
<1>7. SUFFICES /\ Owed(T)' \in 0..1 /\ Owed(F)' \in 0..1
               /\ Owed(F)' = 1 => Coming(F)'
               /\ m + Owed(T)' >= 2 * Level(Record, b)' + Owed(F)'
               /\ b \in Record' /\ Owed(T)' = 1 /\ ~Coming(T)' => m >= 3 + Owed(F)'
               /\ b \in apps' => m >= 1
               /\ b \in apps' /\ b \in Record' /\ Owed(F)' = 0 => m >= 2
    BY DEF Balance, T, F
<1>8. CASE Passed(e)
    <2>1. /\ Record' = Record
          /\ Owed(T)' = IF T = e THEN 0 ELSE Owed(T)
          /\ Owed(F)' = IF F = e THEN 0 ELSE Owed(F)
          /\ T /= e => (Coming(T)' <=> Coming(T))
          /\ F /= e => (Coming(F)' <=> Coming(F))
        BY <1>1, <1>2, <1>3, <1>8, PassedOwes
    <2>2. apps' = IF e.down THEN apps \cup {e.button} ELSE apps \ {e.button}
        BY <1>8 DEF Passed
    <2>3. ~enabled => Owed(T) = 0 /\ Owed(F) = 0 /\ b \notin buttons
        <3>1. ~enabled => buttons = {} /\ echo = [s \in Slots |-> 0]
            BY DEF Custody, Hand
        <3>2. Slot(T) \in Slots /\ Slot(F) \in Slots
            BY <1>2, ClickFacts
        <3> QED BY <1>3, <3>1, <3>2
    <2>4. CASE e.button /= b
        <3>1. b \in apps' <=> b \in apps
            BY <2>2, <2>4
        <3> QED BY <1>2, <1>4, <1>5, <1>6, <2>1, <2>4, <3>1
    <2>5. CASE e.button = b /\ e.down
        <3>1. e = T /\ (Owed(T) = 1 \/ ~enabled) /\ m = n + 1
            BY <1>2, <1>3, <1>8, <2>5 DEF Passed
        <3> QED BY <1>2, <1>3, <1>4, <1>5, <1>6, <2>1, <2>3, <3>1
    <2>6. CASE e.button = b /\ ~e.down
        <3>1. e = F /\ n = m + 1 /\ b \notin apps'
            BY <1>2, <2>2, <2>6
        <3>2. Owed(F) = 1 \/ b \notin Record
            BY <1>3, <1>8, <2>3, <2>6, <3>1 DEF Passed
        <3> QED BY <1>2, <1>4, <1>5, <1>6, <2>1, <3>1, <3>2
    <2> QED BY <2>4, <2>5, <2>6
<1>9. CASE Replayed(e)
    <2>1. /\ Record' = ReportAfter(e)
          /\ Owed(T)' = IF T = e THEN 1 ELSE Owed(T)
          /\ Owed(F)' = IF F = e THEN 1 ELSE Owed(F)
          /\ Owed(e) = 0
          /\ T /= e => (Coming(T)' <=> Coming(T))
          /\ F /= e => (Coming(F)' <=> Coming(F))
          /\ (e.down <=> e.button \notin buttons) => Coming(e)'
        BY <1>1, <1>2, <1>3, <1>9, ReplayedOwes
    <2>2. apps' = apps /\ (e.down \/ e.button \in buttons)
        BY <1>9 DEF Replayed
    <2>3. Record' = IF e.down THEN Record \cup {e.button} ELSE Record \ {e.button}
        BY <1>3, <2>1 DEF ReportAfter
    <2>4. CASE e.button /= b
        <3>1. b \in Record' <=> b \in Record
            BY <2>3, <2>4
        <3> QED BY <1>2, <1>4, <1>5, <1>6, <2>1, <2>2, <2>4, <3>1
    <2>5. CASE e.button = b /\ e.down
        <3>1. e = T /\ b \in Record' /\ m = n + 1
            BY <1>2, <2>3, <2>5
        <3>2. b \notin Record => Coming(T)'
            BY <1>3, <2>1, <2>5, <3>1
        <3> QED BY <1>2, <1>4, <1>5, <1>6, <2>1, <2>2, <3>1, <3>2
    <2>6. CASE e.button = b /\ ~e.down
        <3>1. e = F /\ b \in Record /\ b \notin Record' /\ n = m + 1 /\ Coming(F)'
            BY <1>2, <1>3, <2>1, <2>2, <2>3, <2>6
        <3> QED BY <1>2, <1>4, <1>5, <1>6, <2>1, <2>2, <3>1
    <2> QED BY <2>4, <2>5, <2>6
<1> QED BY <1>1, <1>8, <1>9

\* ... and what the hook thread is about to do stays in line with the record.
LEMMA OnButtonHand ==
    ASSUME TypeOK, Custody, Plain, Hand, NEW e \in Event, OnButton(e),
           echo[Slot(e)] \in 0..1, NEW n \in Nat, Balance(n, e.button),
           "both" \notin env /\ e.down => n <= 1
    PROVE  Hand'
<1>1. /\ hook.pc = "idle"
      /\ UNCHANGED <<env, enabled, buttons, stale, ui, dev>>
      /\ Passed(e) \/ Replayed(e)
    BY OnButtonEither
<1>2. dev' = buttons' \/ Releasing'
    BY <1>1 DEF Hand, Releasing
<1>3. CASE Passed(e)
    <2>1. hook'.pc = "idle" /\ echo' = [echo EXCEPT ![Slot(e)] = 0]
        BY <1>3 DEF Passed
    <2>2. ~enabled' => echo' = [s \in Slots |-> 0]
        BY <1>1, <2>1, ClickFacts DEF Hand
    <2> QED BY <1>1, <1>2, <2>1, <2>2 DEF Hand, Releasing, Busy
<1>4. CASE Replayed(e)
    <2>1. /\ hook'.pc = "send" /\ hook'.event = e /\ hook'.report = ReportAfter(e)
          /\ enabled' /\ echo'[Slot(e)] = 0 /\ (e.down \/ e.button \in buttons)
        BY <1>1, <1>4 DEF Replayed
    <2>2. ReportAfter(e)' = ReportAfter(e) /\ Slot(e)' = Slot(e)
        BY <1>1 DEF ReportAfter, Slot
    <2>3. ASSUME e.down, "both" \notin env, e.button \in buttons
          PROVE  FALSE
        <3>1. e = Click(e.button, TRUE) /\ e.button \in Buttons
            BY <2>3 DEF Click, Event
        <3>2. Owed(e) = 0 /\ Record = buttons
            BY <1>1, <1>4, AtRest DEF Replayed
        <3>3. \E k \in 0..1 : n + Owed(e) >= 2 * Level(Record, e.button) + k
            BY <3>1, Zenon DEF Balance
        <3>4. Level(Record, e.button) = 1
            BY <2>3, <3>2 DEF Level
        <3>5. n <= 1
            BY <2>3
        <3> QED BY <3>2, <3>3, <3>4, <3>5
    <2> QED BY <1>1, <1>2, <2>1, <2>2, <2>3 DEF Hand, Releasing, Busy
<1> QED BY <1>1, <1>3, <1>4

\* A step that leaves the record and the echoes owed alone keeps the balance.
LEMMA BalanceKept ==
    ASSUME NEW b \in Buttons, NEW n \in Nat, Balance(n, b), Record' = Record, apps' = apps,
           \A x \in Event : Owed(x)' = Owed(x) /\ (Coming(x) => Coming(x)')
    PROVE  Balance(n, b)'
<1> DEFINE T == Click(b, TRUE)
           F == Click(b, FALSE)
<1>1. T \in Event /\ F \in Event
    BY DEF Click, Event
<1>2. /\ Owed(T)' = Owed(T) /\ (Coming(T) => Coming(T)')
      /\ Owed(F)' = Owed(F) /\ (Coming(F) => Coming(F)')
    BY <1>1
<1>3. Level(Record, b)' = Level(Record, b)
    BY DEF Level
<1> QED BY <1>2, <1>3 DEF Balance

\* The desk: how often a button is held is a level of it.
LEMMA HeldIsLevel ==
    ASSUME NEW X \in SUBSET (Mice \X Buttons), IsFiniteSet(X), NEW b \in Buttons
    PROVE  LET H == {mb \in X : mb[2] = b}
           IN  /\ IsFiniteSet(H) /\ Cardinality(H) \in Nat
               /\ (\A mb \in X : mb[1] = CHOOSE m \in Mice : TRUE) => Cardinality(H) \in 0..1
<1> DEFINE H == {mb \in X : mb[2] = b}
           m0 == CHOOSE m \in Mice : TRUE
<1>1. IsFiniteSet(H) /\ Cardinality(H) \in Nat
    BY FS_Subset, FS_CardinalityType
<1>2. ASSUME \A mb \in X : mb[1] = m0
      PROVE  Cardinality(H) \in 0..1
    <2>1. H \subseteq {<<m0, b>>}
        BY <1>2
    <2>2. IsFiniteSet({<<m0, b>>}) /\ Cardinality({<<m0, b>>}) = 1
        BY FS_Singleton
    <2>3. Cardinality(H) <= 1
        <3> HIDE DEF H
        <3> QED BY <2>1, <2>2, FS_Subset
    <2> QED BY <1>1, <2>3
<1> QED BY <1>1, <1>2

LEMMA OneDeskNext == TypeOK /\ OneDesk /\ [Next]_vars => OneDesk' /\ env' = env
<1> SUFFICES ASSUME TypeOK, OneDesk, [Next]_vars PROVE OneDesk' /\ env' = env
    OBVIOUS
<1> USE DEF OneDesk
<1>1. CASE HookGetsButton \/ HookGetsEcho
    BY <1>1 DEF HookGetsButton, HookGetsEcho, OnButton
<1>2. CASE HookMissesEvent \/ HookStep
    BY <1>2 DEF HookMissesEvent, HookStep, HookSend, HookRemember, HookUndo, user
<1>3. CASE Ui
    BY <1>3 DEF Ui, UiOn, UiOff, UiLocks, UiReleases, UiBusy, UiDone, user
<1>4. CASE Close
    BY <1>4 DEF Close, CloseStops, CloseReleases, CloseUnplugs, user
<1>5. ASSUME NEW mb \in Mice \X Buttons, UserClicks(mb)
      PROVE  OneDesk' /\ env' = env
    <2>1. env' = env /\ closer' = closer /\ MayUse(mb[1])
        BY <1>5 DEF UserClicks
    <2>2. phys' \subseteq phys \cup {mb}
        BY <1>5 DEF UserClicks, Flip
    <2>3. IsFiniteSet(phys')
        BY <2>2, FS_AddElement, FS_Subset
    <2> QED BY <2>1, <2>2, <2>3 DEF MayUse
<1>6. ASSUME NEW s \in Slots, EchoLapses(s)
      PROVE  OneDesk' /\ env' = env
    BY <1>6 DEF EchoLapses, user
<1>7. CASE UNCHANGED vars
    BY <1>7 DEF vars, user
<1> HIDE DEF OneDesk
<1> QED BY <1>1, <1>2, <1>3, <1>4, <1>5, <1>6, <1>7 DEF Next, World

\* A click of the user adds its event to the queue and its mouse to the desk.
LEMMA ClickRun ==
    ASSUME TypeOK, OneDesk, OneDesk', NEW mb \in Mice \X Buttons, UserClicks(mb), env' = env,
           NEW b \in Buttons, NEW p, DeskRun(p, b)
    PROVE  DeskRun(p, b)'
<1> DEFINE e == [button |-> mb[2], down |-> mb \notin phys]
           H == {x \in phys : x[2] = b}
<1>1. phys \in SUBSET (Mice \X Buttons) /\ phys' \in SUBSET (Mice \X Buttons)
    BY DEF UserClicks, Flip, TypeOK
<1>2. e \in Event /\ physQ \in Seq(Event) /\ physQ' = Append(physQ, e)
    BY DEF TypeOK, Event, UserClicks
<1>3. Held(b) \in Desk /\ Held(b)' \in Desk /\ Desk' = Desk /\ Held(b) \in Nat
    <2>1. Held(b) \in Nat /\ ("both" \notin env => Held(b) \in 0..1)
        BY <1>1, HeldIsLevel DEF Held, OneDesk
    <2>2. Held(b)' \in Nat /\ ("both" \notin env => Held(b)' \in 0..1)
        BY <1>1, HeldIsLevel DEF Held, OneDesk
    <2> QED BY <2>1, <2>2 DEF Desk
<1>4. <<Held(b), e, Held(b)'>> \in Moves(b, Desk)
    <2>1. IsFiniteSet(H) /\ Held(b) = Cardinality(H)
        BY <1>1, HeldIsLevel DEF Held, OneDesk
    <2>2. phys' = IF mb \in phys THEN phys \ {mb} ELSE phys \cup {mb}
        BY DEF UserClicks, Flip
    <2>3. CASE mb[2] /= b
        <3>1. {x \in phys' : x[2] = b} = H
            BY <2>2, <2>3
        <3>2. Held(b)' = Held(b)
            BY <3>1 DEF Held
        <3> QED BY <1>2, <1>3, <2>3, <3>2, MoveIs
    <2>4. CASE mb[2] = b /\ mb \in phys
        <3>1. {x \in phys' : x[2] = b} = H \ {mb} /\ mb \in H
            BY <2>2, <2>4
        <3>2. Held(b)' = Held(b) - 1
            BY <2>1, <3>1, FS_RemoveElement DEF Held
        <3>3. Held(b) = Held(b)' + 1
            BY <1>3, <3>2
        <3>4. e.button = b /\ ~e.down
            BY <2>4
        <3> HIDE DEF e
        <3> QED BY <1>2, <1>3, <3>3, <3>4, MoveIs
    <2>5. CASE mb[2] = b /\ mb \notin phys
        <3>1. {x \in phys' : x[2] = b} = H \cup {mb} /\ mb \notin H
            BY <2>2, <2>5
        <3>2. Held(b)' = Held(b) + 1
            BY <2>1, <3>1, FS_AddElement DEF Held
        <3> QED BY <1>2, <1>3, <2>5, <3>2, MoveIs
    <2> QED BY <2>3, <2>4, <2>5
<1> HIDE DEF e
<1>5. Run(Moves(b, Desk), Desk, physQ', p, Held(b)')
    BY <1>2, <1>3, <1>4, RunAppend DEF DeskRun
<1> QED BY <1>3, <1>5 DEF DeskRun

-----------------------------------------------------------------------------
\* The steps of an undisturbed session, each with what it does to the ledger.

\* What a step must leave alone for the runs of the two queues to stay.
LEMMA RunsKept ==
    ASSUME NEW b \in Buttons, NEW v, NEW p, DeviceRun(v, b), DeskRun(p, b),
           UNCHANGED <<env, virtQ, dev, physQ, phys>>
    PROVE  DeviceRun(v, b)' /\ DeskRun(p, b)' /\ Desk' = Desk
BY DEF DeviceRun, DeskRun, Level, Held, Desk

LEMMA LevelsAreNumbers == 0..1 \subseteq Nat /\ Desk \subseteq Nat
BY DEF Desk

\* Between two events every echo is owed at most once.
LEMMA OwedOnce ==
    ASSUME TypeOK, Balanced, hook.pc = "idle", NEW e \in Event
    PROVE  echo[Slot(e)] \in 0..1
<1>1. e.button \in Buttons /\ (e = Click(e.button, TRUE) \/ e = Click(e.button, FALSE))
    BY DEF Event, Click
<1>2. PICK n : Balance(n, e.button)
    BY <1>1 DEF Balanced
<1>3. Owed(e) \in 0..1
    BY <1>1, <1>2 DEF Balance
<1> QED BY <1>3, AtRest

LEMMA ButtonKeepsLedger ==
    ASSUME TypeOK, Custody, Plain, Hand, Balanced, HookGetsButton
    PROVE  Hand' /\ Balanced'
<1> DEFINE e == Head(physQ)
<1>1. /\ physQ \in Seq(Event) /\ physQ /= <<>> /\ e \in Event
      /\ OnButton(e) /\ physQ' = Tail(physQ) /\ virtQ' = virtQ
    BY HeadTailProperties DEF HookGetsButton, TypeOK
<1> HIDE DEF e
<1>2. hook.pc = "idle" /\ UNCHANGED <<env, dev, phys>> /\ echo[Slot(e)] \in 0..1
    BY <1>1, OwedOnce DEF OnButton
<1>3. ASSUME NEW b \in Buttons, NEW v \in 0..1, NEW p \in Desk,
             DeviceRun(v, b), DeskRun(p, b), Balance(v + p, b)
      PROVE  /\ \E m \in Desk : DeviceRun(v, b)' /\ DeskRun(m, b)' /\ Balance(v + m, b)'
             /\ "both" \notin env /\ e.button = b /\ e.down => v + p <= 1
    <2>1. PICK m \in Desk : /\ <<p, e, m>> \in Moves(b, Desk)
                            /\ Run(Moves(b, Desk), Desk, Tail(physQ), m, Held(b))
        BY <1>1, <1>3, RunTail DEF DeskRun, e
    <2>2. DeskRun(m, b)' /\ DeviceRun(v, b)'
        BY <1>1, <1>2, <1>3, <2>1 DEF DeskRun, DeviceRun, Desk, Held, Level
    <2>3. /\ e.button /= b => m = p
          /\ e.button = b /\ e.down => m = p + 1
          /\ e.button = b /\ ~e.down => p = m + 1
        BY <2>1, MoveMeans
    <2>4. v \in Nat /\ p \in Nat /\ m \in Nat
        BY LevelsAreNumbers
    <2>5. Balance(v + m, b)'
        <3>1. /\ v + p \in Nat /\ v + m \in Nat
              /\ e.button /= b => v + m = v + p
              /\ e.button = b /\ e.down => v + m = (v + p) + 1
              /\ e.button = b /\ ~e.down => v + p = (v + m) + 1
            BY <2>3, <2>4
        <3>2. \A x \in Event : Count(virtQ, x)' = Count(virtQ, x)
            BY <1>1
        <3> QED BY <1>1, <1>2, <1>3, <3>1, <3>2, OnButtonBalance
    <2>6. "both" \notin env /\ e.button = b /\ e.down => v + p <= 1
        BY <2>3, <2>4 DEF Desk
    <2> QED BY <2>2, <2>5, <2>6
<1>4. Balanced'
    <2> SUFFICES ASSUME NEW b \in Buttons
                 PROVE  \E v \in 0..1, p \in Desk' :
                            DeviceRun(v, b)' /\ DeskRun(p, b)' /\ Balance(v + p, b)'
        BY DEF Balanced
    <2>1. PICK v \in 0..1, p \in Desk : DeviceRun(v, b) /\ DeskRun(p, b) /\ Balance(v + p, b)
        BY DEF Balanced
    <2>2. Desk' = Desk
        BY <1>2 DEF Desk
    <2> QED BY <1>3, <2>1, <2>2
<1>5. Hand'
    <2>1. e.button \in Buttons
        BY <1>1 DEF Event
    <2>2. PICK v \in 0..1, p \in Desk :
             DeviceRun(v, e.button) /\ DeskRun(p, e.button) /\ Balance(v + p, e.button)
        BY <2>1 DEF Balanced
    <2>3. v + p \in Nat
        BY LevelsAreNumbers
    <2>4. "both" \notin env /\ e.down => v + p <= 1
        BY <1>3, <2>1, <2>2
    <2> QED BY <1>1, <1>2, <2>2, <2>3, <2>4, OnButtonHand
<1> QED BY <1>4, <1>5

LEMMA EchoKeepsLedger ==
    ASSUME TypeOK, Custody, Plain, Hand, Balanced, HookGetsEcho
    PROVE  Hand' /\ Balanced'
<1> DEFINE e == Head(virtQ)
<1>1. /\ virtQ \in Seq(Event) /\ virtQ /= <<>> /\ e \in Event
      /\ OnButton(e) /\ virtQ' = Tail(virtQ) /\ physQ' = physQ
    BY HeadTailProperties DEF HookGetsEcho, TypeOK
<1>2. \A x \in Event : x /= e => Count(virtQ, x)' = Count(virtQ, x)
    <2> TAKE x \in Event
    <2>1. Count(virtQ, x) = (IF e = x THEN 1 ELSE 0) + Count(Tail(virtQ), x)
        BY <1>1, CountHeadTail
    <2>2. Count(Tail(virtQ), x) \in Nat
        BY <1>1, HeadTailProperties, CountType
    <2>3. Count(virtQ, x)' = Count(Tail(virtQ), x)
        BY <1>1
    <2> QED BY <2>1, <2>2, <2>3
<1> HIDE DEF e
<1>3. hook.pc = "idle" /\ UNCHANGED <<env, dev, phys>> /\ echo[Slot(e)] \in 0..1
    BY <1>1, OwedOnce DEF OnButton
<1>4. ASSUME NEW b \in Buttons, NEW v \in 0..1, NEW p \in Desk,
             DeviceRun(v, b), DeskRun(p, b), Balance(v + p, b)
      PROVE  /\ \E m \in 0..1 : DeviceRun(m, b)' /\ DeskRun(p, b)' /\ Balance(m + p, b)'
             /\ "both" \notin env /\ e.button = b /\ e.down => v + p <= 1
    <2>1. PICK m \in 0..1 : /\ <<v, e, m>> \in Moves(b, 0..1)
                            /\ Run(Moves(b, 0..1), 0..1, Tail(virtQ), m, Level(dev, b))
        BY <1>1, <1>4, RunTail DEF DeviceRun, e
    <2>2. DeskRun(p, b)' /\ DeviceRun(m, b)'
        BY <1>1, <1>3, <1>4, <2>1 DEF DeskRun, DeviceRun, Desk, Held, Level
    <2>3. /\ e.button /= b => m = v
          /\ e.button = b /\ e.down => m = v + 1
          /\ e.button = b /\ ~e.down => v = m + 1
        BY <2>1, MoveMeans
    <2>4. v \in Nat /\ p \in Nat /\ m \in Nat
        BY LevelsAreNumbers
    <2>5. Balance(m + p, b)'
        <3>1. /\ v + p \in Nat /\ m + p \in Nat
              /\ e.button /= b => m + p = v + p
              /\ e.button = b /\ e.down => m + p = (v + p) + 1
              /\ e.button = b /\ ~e.down => v + p = (m + p) + 1
            BY <2>3, <2>4
        <3> QED BY <1>1, <1>2, <1>3, <1>4, <3>1, OnButtonBalance
    <2>6. "both" \notin env /\ e.button = b /\ e.down => v + p <= 1
        BY <2>3, <2>4 DEF Desk
    <2> QED BY <2>2, <2>5, <2>6
<1>5. Balanced'
    <2> SUFFICES ASSUME NEW b \in Buttons
                 PROVE  \E v \in 0..1, p \in Desk' :
                            DeviceRun(v, b)' /\ DeskRun(p, b)' /\ Balance(v + p, b)'
        BY DEF Balanced
    <2>1. PICK v \in 0..1, p \in Desk : DeviceRun(v, b) /\ DeskRun(p, b) /\ Balance(v + p, b)
        BY DEF Balanced
    <2>2. Desk' = Desk
        BY <1>3 DEF Desk
    <2> QED BY <1>4, <2>1, <2>2
<1>6. Hand'
    <2>1. e.button \in Buttons
        BY <1>1 DEF Event
    <2>2. PICK v \in 0..1, p \in Desk :
             DeviceRun(v, e.button) /\ DeskRun(p, e.button) /\ Balance(v + p, e.button)
        BY <2>1 DEF Balanced
    <2>3. v + p \in Nat
        BY LevelsAreNumbers
    <2>4. "both" \notin env /\ e.down => v + p <= 1
        BY <1>4, <2>1, <2>2
    <2> QED BY <1>1, <1>3, <2>2, <2>3, <2>4, OnButtonHand
<1> QED BY <1>5, <1>6

\* An undisturbed report always arrives: nobody else wants the lock, since the
\* switch lets a callback finish before it wipes the record.
LEMMA SendArrives ==
    ASSUME TypeOK, Custody, Plain, Hand, HookSend
    PROVE  /\ hook.report \in SUBSET Buttons /\ hook.event \in Event
           /\ Takes(hook.report) /\ At("remember") /\ dev = buttons
           /\ hook'.pc = "remember" /\ hook'.event = hook.event /\ hook'.report = hook.report
<1>1. hook.pc = "send" /\ enabled /\ ~Releasing /\ dev = buttons
    BY DEF HookSend, Hand
<1>2. conn = "free" /\ plugged /\ "refuse" \notin env
    BY <1>1 DEF Custody, Plain, Without, Releasing, TypeOK
<1>3. Takes(hook.report) /\ At("remember")
    BY <1>2 DEF HookSend, SendNow, SendFails, Delivered
<1>4. /\ hook \in Hooks
      /\ hook'.pc = "remember" /\ hook'.event = hook.event /\ hook'.report = hook.report
    BY <1>3, HookRecord DEF At, TypeOK, Hooks
<1> QED BY <1>1, <1>3, <1>4 DEF Hooks

\* What the device makes of the report is one event, the one that is replayed,
\* or none if the record already had the button.
LEMMA SendCount ==
    ASSUME TypeOK, Custody, Plain, Hand, HookSend, NEW x \in Event
    PROVE  Count(virtQ, x)' = Count(virtQ, x)
             + IF x = hook.event /\ (x.down <=> x.button \notin buttons) THEN 1 ELSE 0
<1> DEFINE e == hook.event
<1>1. /\ hook.report \in SUBSET Buttons /\ e \in Event
      /\ Takes(hook.report) /\ dev = buttons
      /\ hook.report = IF e.down THEN buttons \cup {e.button} ELSE buttons \ {e.button}
      /\ e.down \/ e.button \in buttons
    BY SendArrives DEF Hand, Busy, HookSend, ReportAfter
<1>2. Count(virtQ, x)' = Count(virtQ, x)
        + IF x.button \in (IF x.down THEN hook.report \ dev ELSE dev \ hook.report)
          THEN 1 ELSE 0
    BY <1>1, TakesCount
<1>3. x = e <=> x.button = e.button /\ (x.down <=> e.down)
    BY <1>1 DEF Event
<1> HIDE DEF e
<1>4. x.button \in (IF x.down THEN hook.report \ dev ELSE dev \ hook.report)
         <=> x = e /\ (x.down <=> x.button \notin buttons)
    BY <1>1, <1>3
<1> QED BY <1>2, <1>4 DEF e

LEMMA SendKeepsLedger ==
    ASSUME TypeOK, Custody, Plain, Hand, Balanced, HookSend
    PROVE  Hand' /\ Balanced'
<1>1. /\ hook.pc = "send" /\ hook'.pc = "remember"
      /\ hook'.event = hook.event /\ hook'.report = hook.report
      /\ hook.report \in SUBSET Buttons /\ Takes(hook.report) /\ dev' = hook.report
      /\ UNCHANGED <<env, enabled, driver, buttons, echo, stale, ui, physQ, phys, apps>>
    BY SendArrives DEF HookSend, shared, user, At, Takes
<1>2. Hand'
    BY <1>1 DEF Hand, Busy, Releasing, ReportAfter, Slot
<1>3. Record' = Record /\ Desk' = Desk
    BY <1>1 DEF Record, Busy, Desk
<1>4. \A x \in Event : Owed(x)' = Owed(x) /\ (Coming(x) => Coming(x)')
    <2> TAKE x \in Event
    <2>1. Owed(x)' = Owed(x)
        BY <1>1 DEF Owed, Busy, Slot
    <2>2. Count(virtQ, x) \in Nat
        BY CountType DEF TypeOK
    <2>3. Coming(x) => Count(virtQ, x)' > 0
        BY <1>1, <2>2, SendCount DEF Coming
    <2> QED BY <2>1, <2>3 DEF Coming
<1>5. Balanced'
    <2> SUFFICES ASSUME NEW b \in Buttons
                 PROVE  \E v \in 0..1, p \in Desk' :
                            DeviceRun(v, b)' /\ DeskRun(p, b)' /\ Balance(v + p, b)'
        BY DEF Balanced
    <2>1. PICK v \in 0..1, p \in Desk : DeviceRun(v, b) /\ DeskRun(p, b) /\ Balance(v + p, b)
        BY DEF Balanced
    <2>2. DeviceRun(v, b)'
        BY <1>1, <2>1, TakesRun
    <2>3. DeskRun(p, b)'
        BY <1>1, <2>1 DEF DeskRun, Desk, Held
    <2>4. v + p \in Nat
        BY LevelsAreNumbers
    <2>5. Balance(v + p, b)'
        BY <1>1, <1>3, <1>4, <2>1, <2>4, BalanceKept
    <2> QED BY <1>3, <2>2, <2>3, <2>5
<1> QED BY <1>2, <1>5

LEMMA RememberKeepsLedger ==
    ASSUME TypeOK, Custody, Plain, Hand, Balanced, HookRemember
    PROVE  Hand' /\ Balanced'
<1> DEFINE s == Slot(hook.event)
<1>1. /\ hook.pc = "remember" /\ enabled /\ hook'.pc = "idle" /\ hook.event \in Event
      /\ buttons' = hook.report /\ Expect(s) /\ apps' = apps
      /\ UNCHANGED <<env, enabled, ui, dev, virtQ, phys, physQ>>
    BY HookMoves, HookRecord DEF HookRemember, Hand, Swallow, device, user, TypeOK
<1>2. ~Releasing /\ dev = hook.report /\ stale = {} /\ echo[s] = 0 /\ s \in Slots
    BY <1>1, ClickFacts DEF Hand, Busy
<1>3. echo' = [echo EXCEPT ![s] = 1] /\ stale' = {}
    <2> DEFINE more == IF echo[s] < MaxPending THEN echo[s] + 1 ELSE MaxPending
    <2>1. more = 1
        BY <1>2, LimitsAssumption
    <2>2. echo' = [echo EXCEPT ![s] = more]
        BY <1>1 DEF Expect
    <2> QED BY <1>1, <1>2, <2>1, <2>2 DEF Expect
<1>4. Hand'
    BY <1>1, <1>2, <1>3 DEF Hand, Busy, Releasing
<1>5. Record' = Record /\ Desk' = Desk
    BY <1>1 DEF Record, Busy, Desk
<1>6. \A x \in Event : Owed(x)' = Owed(x) /\ (Coming(x) => Coming(x)')
    <2> TAKE x \in Event
    <2>1. Slot(x) \in Slots /\ (Slot(x) = s => x = hook.event)
        BY <1>1, ClickFacts
    <2>2. echo'[Slot(x)] = IF x = hook.event THEN 1 ELSE echo[Slot(x)]
        BY <1>2, <1>3, <2>1 DEF TypeOK
    <2>3. echo[Slot(x)] \in Nat
        BY <2>1 DEF TypeOK
    <2>4. Owed(x) = IF x = hook.event THEN 1 ELSE echo[Slot(x)]
        BY <1>1, <1>2, <2>3 DEF Owed, Busy
    <2>5. Owed(x)' = echo'[Slot(x)]
        BY <1>1, <2>2, <2>3 DEF Owed, Busy, Slot
    <2>6. Coming(x) => Coming(x)'
        BY <1>1 DEF Coming
    <2> QED BY <2>2, <2>4, <2>5, <2>6
<1>7. Balanced'
    <2> SUFFICES ASSUME NEW b \in Buttons
                 PROVE  \E v \in 0..1, p \in Desk' :
                            DeviceRun(v, b)' /\ DeskRun(p, b)' /\ Balance(v + p, b)'
        BY DEF Balanced
    <2>1. PICK v \in 0..1, p \in Desk : DeviceRun(v, b) /\ DeskRun(p, b) /\ Balance(v + p, b)
        BY DEF Balanced
    <2>2. v + p \in Nat
        BY LevelsAreNumbers
    <2>3. Balance(v + p, b)'
        BY <1>1, <1>5, <1>6, <2>1, <2>2, BalanceKept
    <2> QED BY <1>1, <1>5, <2>1, <2>3, RunsKept
<1> QED BY <1>4, <1>7

\* The switch takes back the record and the echoes, and leaves the rest to the
\* release of the device.
LEMMA SwitchKeepsLedger ==
    ASSUME TypeOK, Custody, Plain, Hand, Balanced, UiOn \/ UiOff
    PROVE  Hand' /\ Balanced'
<1>1. /\ hook.pc = "idle" /\ ui = "idle" /\ driver
      /\ UNCHANGED <<env, hook, dev, virtQ, phys, physQ, apps>>
    BY DEF UiOn, UiOff, MaySwitch, Plain, Without, Custody, device, user
<1>2. CASE UiOn
    <2>1. enabled' = TRUE /\ UNCHANGED <<buttons, echo, stale, ui>>
        BY <1>2 DEF UiOn
    <2>2. Hand'
        BY <1>1, <2>1 DEF Hand, Releasing, Busy
    <2>3. /\ Record' = Record /\ Desk' = Desk
          /\ \A x : Owed(x)' = Owed(x) /\ (Coming(x) => Coming(x)')
        BY <1>1, <2>1 DEF Record, Busy, Owed, Coming, Slot, Desk
    <2>4. \A b \in Buttons : \A v \in 0..1, p \in Desk :
             Balance(v + p, b) => Balance(v + p, b)'
        BY <1>1, <2>3, BalanceKept, LevelsAreNumbers
    <2>5. Balanced'
        BY <1>1, <2>3, <2>4, RunsKept DEF Balanced
    <2> QED BY <2>2, <2>5
<1>3. CASE UiOff
    <2>1. /\ enabled' = FALSE /\ buttons' = {} /\ stale' = {}
          /\ echo' = [s \in Slots |-> 0] /\ ui' = "release"
        BY <1>1, <1>3 DEF UiOff, ClearButtons
    <2>2. Hand'
        BY <1>1, <2>1 DEF Hand, Releasing, Busy
    <2>3. ASSUME NEW b \in Buttons, NEW n \in Nat, Balance(n, b)
          PROVE  Balance(n, b)'
        <3> DEFINE T == Click(b, TRUE)
                   F == Click(b, FALSE)
        <3>1. \A x \in Event : Owed(x)' = 0
            <4> TAKE x \in Event
            <4>1. Slot(x) \in Slots
                BY ClickFacts
            <4>2. echo'[Slot(x)] = 0 /\ ~Busy'
                BY <1>1, <2>1, <4>1 DEF Busy
            <4> QED BY <4>2 DEF Owed, Slot
        <3>2. Owed(T)' = 0 /\ Owed(F)' = 0
            BY <3>1 DEF Click, Event
        <3>3. Record' = {} /\ Level(Record, b)' = 0
            BY <1>1, <2>1 DEF Record, Busy, Level
        <3>4. b \in apps' => n >= 1
            BY <1>1, <2>3 DEF Balance
        <3>5. n + 0 >= 2 * 0 + 0 /\ b \notin Record'
            BY <3>3
        <3> HIDE DEF T, F
        <3>6. /\ Owed(T)' \in 0..1 /\ Owed(F)' \in 0..1
              /\ Owed(F)' = 1 => Coming(F)'
              /\ n + Owed(T)' >= 2 * Level(Record, b)' + Owed(F)'
              /\ b \in Record' /\ Owed(T)' = 1 /\ ~Coming(T)' => n >= 3 + Owed(F)'
              /\ b \in apps' => n >= 1
              /\ b \in apps' /\ b \in Record' /\ Owed(F)' = 0 => n >= 2
            BY <3>2, <3>3, <3>4, <3>5
        <3> QED BY <3>6 DEF Balance, T, F
    <2>4. \A b \in Buttons : \A v \in 0..1, p \in Desk :
             Balance(v + p, b) => Balance(v + p, b)'
        BY <2>3, LevelsAreNumbers
    <2>5. Desk' = Desk
        BY <1>1 DEF Desk
    <2>6. Balanced'
        BY <1>1, <2>4, <2>5, RunsKept DEF Balanced
    <2> QED BY <2>2, <2>6
<1> QED BY <1>2, <1>3

LEMMA ReleaseKeepsLedger ==
    ASSUME TypeOK, Custody, Plain, Hand, Balanced, UiReleases
    PROVE  Hand' /\ Balanced' /\ Takes({})
<1>1. /\ Takes({}) /\ ui' = "idle" /\ ~enabled /\ buttons = {} /\ hook.pc = "idle"
      /\ UNCHANGED <<env, enabled, buttons, echo, stale, hook, phys, physQ, apps>>
    <2>1. plugged /\ "refuse" \notin env
        BY DEF Plain, Without, Custody
    <2>2. Takes({})
        BY <2>1 DEF UiReleases, Delivered, TurnedDown
    <2>3. ~enabled
        BY DEF UiReleases, Hand, Releasing
    <2> QED BY <2>2, <2>3 DEF UiReleases, Custody, Hand, shared, user
<1>2. Hand'
    BY <1>1 DEF Hand, Busy, Releasing, Takes
<1>3. Record' = Record /\ Desk' = Desk
    BY <1>1 DEF Record, Busy, Desk
<1>4. \A x \in Event : Owed(x)' = Owed(x) /\ (Coming(x) => Coming(x)')
    <2> TAKE x \in Event
    <2>1. Count(virtQ, x) \in Nat
        BY CountType DEF TypeOK
    <2>2. Count(virtQ, x) > 0 => Count(virtQ, x)' > 0
        <3>1. \E k \in {0, 1} : Count(virtQ, x)' = Count(virtQ, x) + k
            BY <1>1, TakesCount
        <3> QED BY <2>1, <3>1
    <2> QED BY <1>1, <2>2 DEF Owed, Busy, Slot, Coming
<1>5. Balanced'
    <2> SUFFICES ASSUME NEW b \in Buttons
                 PROVE  \E v \in 0..1, p \in Desk' :
                            DeviceRun(v, b)' /\ DeskRun(p, b)' /\ Balance(v + p, b)'
        BY DEF Balanced
    <2>1. PICK v \in 0..1, p \in Desk : DeviceRun(v, b) /\ DeskRun(p, b) /\ Balance(v + p, b)
        BY DEF Balanced
    <2>2. DeviceRun(v, b)'
        BY <1>1, <2>1, TakesRun
    <2>3. DeskRun(p, b)'
        BY <1>1, <2>1 DEF DeskRun, Desk, Held
    <2>4. v + p \in Nat
        BY LevelsAreNumbers
    <2>5. Balance(v + p, b)'
        BY <1>1, <1>3, <1>4, <2>1, <2>4, BalanceKept
    <2> QED BY <1>3, <2>2, <2>3, <2>5
<1> QED BY <1>1, <1>2, <1>5

LEMMA ClickKeepsLedger ==
    ASSUME TypeOK, OneDesk, OneDesk', Hand, Balanced,
           NEW mb \in Mice \X Buttons, UserClicks(mb)
    PROVE  Hand' /\ Balanced'
<1>1. UNCHANGED <<env, enabled, buttons, echo, stale, hook, ui, dev, virtQ, apps>>
    BY DEF UserClicks, shared, device
<1>2. Hand'
    BY <1>1 DEF Hand, Busy, Releasing, ReportAfter, Slot
<1>3. /\ Record' = Record /\ Desk' = Desk
      /\ \A x : Owed(x)' = Owed(x) /\ (Coming(x) => Coming(x)')
    BY <1>1 DEF Record, Busy, Owed, Coming, Slot, Desk
<1>4. Balanced'
    <2> SUFFICES ASSUME NEW b \in Buttons
                 PROVE  \E v \in 0..1, p \in Desk' :
                            DeviceRun(v, b)' /\ DeskRun(p, b)' /\ Balance(v + p, b)'
        BY DEF Balanced
    <2>1. PICK v \in 0..1, p \in Desk : DeviceRun(v, b) /\ DeskRun(p, b) /\ Balance(v + p, b)
        BY DEF Balanced
    <2>2. DeviceRun(v, b)'
        BY <1>1, <2>1 DEF DeviceRun, Level
    <2>3. DeskRun(p, b)'
        BY <1>1, <2>1, ClickRun
    <2>4. v + p \in Nat
        BY LevelsAreNumbers
    <2>5. Balance(v + p, b)'
        BY <1>1, <1>3, <2>1, <2>4, BalanceKept
    <2> QED BY <1>3, <2>2, <2>3, <2>5
<1> QED BY <1>2, <1>4

\* A step that changes nothing the ledger is about.
LEMMA NothingKeepsLedger ==
    ASSUME Hand, Balanced, Releasing' = Releasing,
           UNCHANGED <<env, enabled, buttons, echo, stale, hook, dev, virtQ, phys, physQ, apps>>
    PROVE  Hand' /\ Balanced'
<1>1. Hand'
    BY DEF Hand, Busy, ReportAfter, Slot
<1>2. /\ Record' = Record /\ Desk' = Desk
      /\ \A x : Owed(x)' = Owed(x) /\ (Coming(x) => Coming(x)')
    BY DEF Record, Busy, Owed, Coming, Slot, Desk
<1>3. \A b \in Buttons : \A v \in 0..1, p \in Desk : Balance(v + p, b) => Balance(v + p, b)'
    BY <1>2, BalanceKept, LevelsAreNumbers
<1>4. Balanced'
    BY <1>2, <1>3, RunsKept DEF Balanced
<1> QED BY <1>1, <1>4

\* What cannot happen in an undisturbed session.
LEMMA NotInPlain ==
    ASSUME TypeOK, Custody, Plain, Hand
    PROVE  /\ ~HookMissesEvent /\ ~HookUndo /\ ~UiBusy /\ ~UiDone
           /\ ~CloseReleases /\ ~CloseUnplugs /\ ~(Plain' /\ CloseStops)
           /\ \A s : ~EchoLapses(s)
BY DEF Plain, Without, Custody, Hand, HookMissesEvent, HookUndo, UiBusy, UiDone, CloseReleases,
       CloseUnplugs, CloseStops, EchoLapses

LEMMA LedgerNext == IInv /\ Ledger /\ [Next]_vars => Ledger'
<1> SUFFICES ASSUME IInv, Ledger, [Next]_vars PROVE Ledger'
    OBVIOUS
<1>1. TypeOK /\ Custody /\ OneDesk /\ OneDesk' /\ env' = env
    BY OneDeskNext DEF IInv, Ledger
<1> SUFFICES ASSUME Plain' PROVE Hand' /\ Balanced'
    BY <1>1 DEF Ledger
<1>2. Plain
    <2>1. closer' = "idle" => closer = "idle"
        BY HookStepFrame, WorldFrame, MissFrame
           DEF Next, vars, HookGetsButton, HookGetsEcho, OnButton, Ui, Close, UiOn, UiOff,
               UiLocks, UiReleases, UiBusy, UiDone, CloseStops, CloseReleases, CloseUnplugs
    <2> QED BY <1>1, <2>1 DEF Plain, Without
<1>3. Hand /\ Balanced
    BY <1>2 DEF Ledger
<1>4. CASE HookGetsButton \/ HookGetsEcho
    BY <1>1, <1>2, <1>3, <1>4, ButtonKeepsLedger, EchoKeepsLedger
<1>5. CASE HookStep \/ HookMissesEvent
    BY <1>1, <1>2, <1>3, <1>5, SendKeepsLedger, RememberKeepsLedger, NotInPlain DEF HookStep
<1>6. CASE UiLocks
    <2>1. UNCHANGED <<env, enabled, buttons, echo, stale, hook, dev, virtQ, phys, physQ, apps>>
        BY <1>6 DEF UiLocks, shared, device, user
    <2>2. Releasing' = Releasing
        BY <1>6 DEF UiLocks, Releasing
    <2> QED BY <1>3, <2>1, <2>2, NothingKeepsLedger
<1>7. CASE Ui
    BY <1>1, <1>2, <1>3, <1>6, <1>7, SwitchKeepsLedger, ReleaseKeepsLedger, NotInPlain DEF Ui
<1>8. CASE Close
    BY <1>1, <1>2, <1>3, <1>8, NotInPlain DEF Close
<1>9. CASE World
    BY <1>1, <1>2, <1>3, <1>9, ClickKeepsLedger, NotInPlain DEF World
<1>10. CASE UNCHANGED vars
    <2>1. UNCHANGED <<env, enabled, buttons, echo, stale, hook, dev, virtQ, phys, physQ, apps>>
        BY <1>10 DEF vars, shared, device, user
    <2>2. Releasing' = Releasing
        BY <1>10 DEF vars, Releasing
    <2> QED BY <1>3, <2>1, <2>2, NothingKeepsLedger
<1> QED BY <1>4, <1>5, <1>7, <1>8, <1>9, <1>10 DEF Next

LEMMA LedgerInit == Init => Ledger
<1> SUFFICES ASSUME Init PROVE Ledger
    OBVIOUS
<1>1. /\ enabled = FALSE /\ buttons = {} /\ echo = [s \in Slots |-> 0] /\ stale = {}
      /\ hook.pc = "idle" /\ ui = "idle" /\ closer = "idle" /\ dev = {}
      /\ virtQ = <<>> /\ physQ = <<>> /\ phys = {} /\ apps = {}
    BY HookRecord DEF Init
<1>2. OneDesk
    BY <1>1, FS_EmptySet DEF OneDesk
<1>3. Hand
    BY <1>1 DEF Hand, Busy, Releasing
<1>4. ASSUME NEW b \in Buttons
      PROVE  DeviceRun(0, b) /\ DeskRun(0, b) /\ Balance(0 + 0, b)
    <2>1. Level(dev, b) = 0 /\ 0 \in 0..1 /\ 0 \in Desk
        BY <1>1 DEF Level, Desk
    <2>2. Held(b) = 0
        <3>1. {mb \in phys : mb[2] = b} = {}
            BY <1>1
        <3> QED BY <3>1, FS_EmptySet DEF Held
    <2>3. DeviceRun(0, b) /\ DeskRun(0, b)
        BY <1>1, <2>1, <2>2, RunEmpty DEF DeviceRun, DeskRun
    <2>4. \A x \in Event : Owed(x) = 0
        <3> TAKE x \in Event
        <3>1. Slot(x) \in Slots
            BY ClickFacts
        <3> QED BY <1>1, <3>1 DEF Owed, Busy
    <2> DEFINE T == Click(b, TRUE)
               F == Click(b, FALSE)
    <2>5. Owed(T) = 0 /\ Owed(F) = 0
        BY <2>4 DEF Click, Event
    <2>6. Level(Record, b) = 0 /\ b \notin Record /\ b \notin apps
        BY <1>1 DEF Record, Busy, Level
    <2> HIDE DEF T, F
    <2>7. /\ Owed(T) \in 0..1 /\ Owed(F) \in 0..1
          /\ Owed(F) = 1 => Coming(F)
          /\ (0 + 0) + Owed(T) >= 2 * Level(Record, b) + Owed(F)
          /\ b \in Record /\ Owed(T) = 1 /\ ~Coming(T) => 0 + 0 >= 3 + Owed(F)
          /\ b \in apps => 0 + 0 >= 1
          /\ b \in apps /\ b \in Record /\ Owed(F) = 0 => 0 + 0 >= 2
        BY <2>5, <2>6
    <2> QED BY <2>3, <2>7 DEF Balance, T, F
<1>5. Balanced
    <2>1. 0 \in 0..1 /\ 0 \in Desk
        BY DEF Desk
    <2> QED BY <1>4, <2>1 DEF Balanced
<1> QED BY <1>2, <1>3, <1>5 DEF Ledger

LEMMA LedgerHolds == Spec => [](IInv /\ Ledger)
<1>1. Init => IInv /\ Ledger
    BY LedgerInit, TypeInit DEF Init, IInv, Custody, HookIsWatched, InSomeHand, Resting, Releasing
<1>2. (IInv /\ Ledger) /\ [Next]_vars => (IInv /\ Ledger)'
    BY NextKeepsType, CustodyNext, WatchedNext, HandNext, LedgerNext DEF IInv
<1> QED BY <1>1, <1>2, PTL DEF Spec

\* In an undisturbed session nothing is left behind: when both queues have been
\* worked off, whatever the device or an application holds down is a button the
\* user holds down, on however many mice and whenever it was switched.
THEOREM NothingLeft == Spec => []NoButtonLeft
<1>1. IInv /\ Ledger => NoButtonLeft
    <2> SUFFICES ASSUME IInv, Ledger, Quiet, plugged,
                        Without({"refuse", "contend", "race", "late", "unheard"}),
                        NEW b \in dev \cup apps
                 PROVE  b \in HeldBy(phys)
        BY DEF NoButtonLeft
    <2>1. /\ closer = "idle" /\ hook.pc = "idle" /\ ui \in {"idle", "busy"}
          /\ physQ = <<>> /\ virtQ = <<>>
        BY DEF Quiet, Settled, IInv, Custody
    <2>2. Hand /\ Balanced /\ b \in Buttons /\ dev = buttons
        BY <2>1 DEF Ledger, Plain, IInv, TypeOK, Hand, Releasing
    <2>3. PICK v \in 0..1, p \in Desk : DeviceRun(v, b) /\ DeskRun(p, b) /\ Balance(v + p, b)
        BY <2>2 DEF Balanced
    <2>4. v = Level(dev, b) /\ p = Held(b) /\ p \in Nat
        <3>1. Level(dev, b) = v
            BY <2>1, <2>3, RunEmpty DEF DeviceRun
        <3>2. Held(b) = p
            BY <2>1, <2>3, RunEmpty DEF DeskRun
        <3> QED BY <3>1, <3>2, LevelsAreNumbers
    <2>5. Record = buttons /\ \A x \in Event : ~Coming(x)
        <3>1. \A x \in Event : Count(virtQ, x) = 0
            BY <2>1, CountEmpty
        <3> QED BY <2>1, <3>1 DEF Record, Busy, Coming
    <2>6. ~Coming(Click(b, TRUE)) /\ ~Coming(Click(b, FALSE))
        BY <2>2, <2>5 DEF Click, Event
    <2>7. p >= 1
        <3> DEFINE T == Click(b, TRUE)
                   F == Click(b, FALSE)
        <3>1. /\ Owed(T) \in 0..1 /\ Owed(F) = 0
              /\ v + p + Owed(T) >= 2 * Level(Record, b)
              /\ b \in Record /\ Owed(T) = 1 => v + p >= 3
              /\ b \in apps => v + p >= 1
              /\ b \in apps /\ b \in Record => v + p >= 2
            <4>1. /\ Owed(T) \in 0..1 /\ Owed(F) \in 0..1
                  /\ Owed(F) = 1 => Coming(F)
                  /\ (v + p) + Owed(T) >= 2 * Level(Record, b) + Owed(F)
                  /\ b \in Record /\ Owed(T) = 1 /\ ~Coming(T) => v + p >= 3 + Owed(F)
                  /\ b \in apps => v + p >= 1
                  /\ b \in apps /\ b \in Record /\ Owed(F) = 0 => v + p >= 2
                BY <2>3 DEF Balance
            <4> HIDE DEF T, F
            <4>2. ~Coming(T) /\ ~Coming(F)
                BY <2>6 DEF T, F
            <4>3. Level(Record, b) \in 0..1 /\ v + p \in Nat
                BY <2>4 DEF Level
            <4>4. Owed(F) = 0
                BY <4>1, <4>2
            <4> QED BY <4>1, <4>2, <4>3, <4>4
        <3>2. v = (IF b \in Record THEN 1 ELSE 0) /\ Level(Record, b) = v
            BY <2>2, <2>4, <2>5 DEF Level
        <3>3. b \in Record \/ b \in apps
            BY <2>2, <2>5
        <3> HIDE DEF T, F
        <3> QED BY <2>4, <3>1, <3>2, <3>3
    <2>8. {mb \in phys : mb[2] = b} /= {}
        BY <2>4, <2>7, FS_EmptySet DEF Held
    <2> QED BY <2>8 DEF HeldBy
<1> QED BY <1>1, LedgerHolds, PTL

-----------------------------------------------------------------------------
(***************************************************************************)
(* The refinement.  A step that hands an event on within the redirect,     *)
(* from a queue to the callback or from the callback to the device, does   *)
(* not change how many of its kind are on the way.                         *)
(***************************************************************************)
Way(d) == [b \in Buttons |-> OnTheWay(Click(b, d))]

InHand(e) == IF hook.pc = "send" /\ hook.event = e THEN 1 ELSE 0

LEMMA WayParts ==
    ASSUME TypeOK, NEW e \in Event
    PROVE  /\ OnTheWay(e) = Count(physQ, e) + Count(virtQ, e) + InHand(e)
           /\ Count(physQ, e) \in Nat /\ Count(virtQ, e) \in Nat /\ InHand(e) \in 0..1
           /\ OnTheWay(e) \in Nat
<1>1. Count(physQ, e) \in Nat /\ Count(virtQ, e) \in Nat /\ InHand(e) \in 0..1
    <2>1. physQ \in Seq(Event) /\ virtQ \in Seq(Event)
        BY DEF TypeOK
    <2>2. Count(physQ, e) \in Nat /\ Count(virtQ, e) \in Nat
        BY <2>1, CountType
    <2> QED BY <2>2 DEF InHand
<1>2. OnTheWay(e) = Count(physQ, e) + Count(virtQ, e) + InHand(e)
    BY DEF OnTheWay, Count, InHand
<1> QED BY <1>1, <1>2

LEMMA WayNext ==
    ASSUME NEW e \in Event
    PROVE  OnTheWay(e)' = Count(physQ, e)' + Count(virtQ, e)' + InHand(e)'
BY DEF OnTheWay, Count, InHand

\* What Clicks knows beside the events on their way and the applications.
Around == <<HeldBy(phys), enabled, dev>>

\* Nothing new on the way, and two numbers for each button that say so.
LEMMA SameWay ==
    ASSUME \A e \in Event : OnTheWay(e)' = OnTheWay(e)
    PROVE  UNCHANGED <<Way(TRUE), Way(FALSE)>>
<1>1. \A b \in Buttons : /\ OnTheWay(Click(b, TRUE))' = OnTheWay(Click(b, TRUE))
                        /\ OnTheWay(Click(b, FALSE))' = OnTheWay(Click(b, FALSE))
    BY DEF Click, Event
<1>2. Way(TRUE)' = Way(TRUE) /\ Way(FALSE)' = Way(FALSE)
    BY <1>1 DEF Way
<1> QED BY <1>2

\* Nothing new on the way and nothing shown: a stutter of Clicks.
LEMMA Stutters ==
    ASSUME \A e \in Event : OnTheWay(e)' = OnTheWay(e), apps' = apps, UNCHANGED Around
    PROVE  UNCHANGED C!vars
BY SameWay DEF C!vars, C!redirect, C!way, Way, Click, Around

\* An event more on the way, put there by the user.
LEMMA Starts ==
    ASSUME NEW e \in Event, UNCHANGED <<apps, enabled, dev>>,
           e.down <=> e.button \notin HeldBy(phys),
           HeldBy(phys)' = (IF e.down THEN HeldBy(phys) \cup {e.button}
                                      ELSE HeldBy(phys) \ {e.button}),
           \A x \in Event : OnTheWay(x)' = OnTheWay(x) + IF x = e THEN 1 ELSE 0,
           \A x \in Event : OnTheWay(x) \in Nat
    PROVE  C!Next
<1> DEFINE b == e.button
<1>1. b \in Buttons /\ e.down \in BOOLEAN
    BY DEF Event
<1>2. ASSUME NEW x \in Event
      PROVE  /\ OnTheWay(x) \in Nat
             /\ OnTheWay(x)' = IF x = e THEN OnTheWay(x) + 1 ELSE OnTheWay(x)
    BY <1>2
<1>3. \A c \in Buttons : Click(c, TRUE) \in Event /\ Click(c, FALSE) \in Event
    BY DEF Click, Event
<1>4. CASE e.down
    <2>1. \A c \in Buttons : /\ Click(c, TRUE) = e <=> c = b
                             /\ Click(c, FALSE) /= e
        BY <1>4 DEF Click, Event
    <2>2. Way(TRUE)' = [Way(TRUE) EXCEPT ![b] = @ + 1]
        <3>1. \A c \in Buttons :
                 OnTheWay(Click(c, TRUE))' = IF c = b THEN OnTheWay(Click(c, TRUE)) + 1
                                                      ELSE OnTheWay(Click(c, TRUE))
            BY <1>2, <1>3, <2>1
        <3> QED BY <1>1, <3>1 DEF Way
    <2>3. Way(FALSE)' = Way(FALSE)
        <3>1. \A c \in Buttons : OnTheWay(Click(c, FALSE))' = OnTheWay(Click(c, FALSE))
            BY <1>2, <1>3, <2>1
        <3> QED BY <3>1 DEF Way
    <2>4. C!Press(b)
        BY <1>4, <2>2, <2>3 DEF C!Press, C!redirect, Way, Click
    <2> QED BY <1>1, <2>4 DEF C!Next
<1>5. CASE ~e.down
    <2>1. \A c \in Buttons : /\ Click(c, FALSE) = e <=> c = b
                             /\ Click(c, TRUE) /= e
        BY <1>5 DEF Click, Event
    <2>2. Way(FALSE)' = [Way(FALSE) EXCEPT ![b] = @ + 1]
        <3>1. \A c \in Buttons :
                 OnTheWay(Click(c, FALSE))' = IF c = b THEN OnTheWay(Click(c, FALSE)) + 1
                                                      ELSE OnTheWay(Click(c, FALSE))
            BY <1>2, <1>3, <2>1
        <3> QED BY <1>1, <3>1 DEF Way
    <2>3. Way(TRUE)' = Way(TRUE)
        <3>1. \A c \in Buttons : OnTheWay(Click(c, TRUE))' = OnTheWay(Click(c, TRUE))
            BY <1>2, <1>3, <2>1
        <3> QED BY <3>1 DEF Way
    <2>4. C!Release(b)
        BY <1>5, <2>2, <2>3 DEF C!Release, C!redirect, Way, Click
    <2> QED BY <1>1, <2>4 DEF C!Next
<1> QED BY <1>4, <1>5

\* An event less on the way, and the applications have seen it.
LEMMA Arrives ==
    ASSUME NEW e \in Event, UNCHANGED Around,
           apps' = (IF e.down THEN apps \cup {e.button} ELSE apps \ {e.button}),
           \A x \in Event : OnTheWay(x)' = OnTheWay(x) - IF x = e THEN 1 ELSE 0,
           \A x \in Event : OnTheWay(x) \in Nat, OnTheWay(e) > 0
    PROVE  C!Next
<1> DEFINE b == e.button
<1>1. b \in Buttons /\ e.down \in BOOLEAN
    BY DEF Event
<1>2. ASSUME NEW x \in Event
      PROVE  /\ OnTheWay(x) \in Nat
             /\ OnTheWay(x)' = IF x = e THEN OnTheWay(x) - 1 ELSE OnTheWay(x)
    BY <1>2
<1>3. \A c \in Buttons : Click(c, TRUE) \in Event /\ Click(c, FALSE) \in Event
    BY DEF Click, Event
<1>4. CASE e.down
    <2>1. \A c \in Buttons : /\ Click(c, TRUE) = e <=> c = b
                             /\ Click(c, FALSE) /= e
        BY <1>4 DEF Click, Event
    <2>2. Way(TRUE)' = [Way(TRUE) EXCEPT ![b] = @ - 1] /\ Way(TRUE)[b] > 0
        <3>1. \A c \in Buttons :
                 OnTheWay(Click(c, TRUE))' = IF c = b THEN OnTheWay(Click(c, TRUE)) - 1
                                                      ELSE OnTheWay(Click(c, TRUE))
            BY <1>2, <1>3, <2>1
        <3>2. OnTheWay(Click(b, TRUE)) > 0
            BY <1>1, <2>1
        <3> QED BY <1>1, <3>1, <3>2 DEF Way
    <2>3. Way(FALSE)' = Way(FALSE)
        <3>1. \A c \in Buttons : OnTheWay(Click(c, FALSE))' = OnTheWay(Click(c, FALSE))
            BY <1>2, <1>3, <2>1
        <3> QED BY <3>1 DEF Way
    <2>4. C!Show(b)
        BY <1>4, <2>2, <2>3 DEF C!Show, C!redirect, Way, Click, Around
    <2> QED BY <1>1, <2>4 DEF C!Next
<1>5. CASE ~e.down
    <2>1. \A c \in Buttons : /\ Click(c, FALSE) = e <=> c = b
                             /\ Click(c, TRUE) /= e
        BY <1>5 DEF Click, Event
    <2>2. Way(FALSE)' = [Way(FALSE) EXCEPT ![b] = @ - 1] /\ Way(FALSE)[b] > 0
        <3>1. \A c \in Buttons :
                 OnTheWay(Click(c, FALSE))' = IF c = b THEN OnTheWay(Click(c, FALSE)) - 1
                                                      ELSE OnTheWay(Click(c, FALSE))
            BY <1>2, <1>3, <2>1
        <3>2. OnTheWay(Click(b, FALSE)) > 0
            BY <1>1, <2>1
        <3> QED BY <1>1, <3>1, <3>2 DEF Way
    <2>3. Way(TRUE)' = Way(TRUE)
        <3>1. \A c \in Buttons : OnTheWay(Click(c, TRUE))' = OnTheWay(Click(c, TRUE))
            BY <1>2, <1>3, <2>1
        <3> QED BY <3>1 DEF Way
    <2>4. C!Lift(b)
        BY <1>5, <2>2, <2>3 DEF C!Lift, C!redirect, Way, Click, Around
    <2> QED BY <1>1, <2>4 DEF C!Next
<1> QED BY <1>4, <1>5

\* The events of a whole report are put on the way at once when the redirect,
\* switched off, lets go of the buttons it holds.
LEMMA Cuts ==
    ASSUME UNCHANGED <<apps, HeldBy(phys), enabled>>, ~enabled, dev' = {},
           \A x \in Event : OnTheWay(x)' = OnTheWay(x)
                                + IF x \in [button : dev, down : {FALSE}] THEN 1 ELSE 0,
           \A x \in Event : OnTheWay(x) \in Nat, dev \in SUBSET Buttons
    PROVE  C!Next
<1>1. \A c \in Buttons :
         /\ OnTheWay(Click(c, TRUE)) \in Nat
         /\ OnTheWay(Click(c, TRUE))' = OnTheWay(Click(c, TRUE))
    <2> TAKE c \in Buttons
    <2> DEFINE t == Click(c, TRUE)
    <2>1. t \in Event /\ t \notin [button : dev, down : {FALSE}]
        BY DEF Click, Event
    <2> HIDE DEF t
    <2>2. OnTheWay(t) \in Nat /\ OnTheWay(t)' = OnTheWay(t) + 0
        BY <2>1
    <2>3. OnTheWay(t) \in Nat /\ OnTheWay(t)' = OnTheWay(t)
        BY <2>2
    <2> QED BY <2>3 DEF t
<1>2. \A c \in Buttons :
         OnTheWay(Click(c, FALSE))' = OnTheWay(Click(c, FALSE)) + IF c \in dev THEN 1 ELSE 0
    <2> TAKE c \in Buttons
    <2>1. /\ Click(c, FALSE) \in Event
          /\ Click(c, FALSE) \in [button : dev, down : {FALSE}] <=> c \in dev
        BY DEF Click, Event
    <2> QED BY <2>1
<1>3. Way(TRUE)' = Way(TRUE)
    BY <1>1 DEF Way
<1>4. Way(FALSE)' = [c \in Buttons |-> Way(FALSE)[c] + IF c \in dev THEN 1 ELSE 0]
    BY <1>2 DEF Way
<1>5. C!Cut
    BY <1>3, <1>4 DEF C!Cut, Way, Click
<1> QED BY <1>5 DEF C!Next

\* The report of the event in hand: the virtual mouse holds the button, or no
\* longer, while the event is on its way.
LEMMA Holds ==
    ASSUME NEW e \in Event, UNCHANGED <<apps, HeldBy(phys), enabled>>, enabled,
           \A x \in Event : OnTheWay(x)' = OnTheWay(x),
           OnTheWay(e) > 0,
           e.down <=> e.button \notin dev,
           dev' = (IF e.down THEN dev \cup {e.button} ELSE dev \ {e.button})
    PROVE  C!Next
<1>1. e.button \in Buttons /\ e.down \in BOOLEAN /\ e = Click(e.button, e.down)
    BY ClickFacts
<1>2. UNCHANGED <<Way(TRUE), Way(FALSE)>> /\ Way(e.down)[e.button] > 0
    BY <1>1, SameWay DEF Way
<1>3. CASE e.down
    <2>1. Way(TRUE)[e.button] > 0
        BY <1>1, <1>2, <1>3
    <2>2. C!Hold(e.button)
        BY <1>2, <1>3, <2>1 DEF C!Hold, C!way, Way, Click
    <2> QED BY <1>1, <2>2 DEF C!Next
<1>4. CASE ~e.down
    <2>1. Way(FALSE)[e.button] > 0
        BY <1>1, <1>2, <1>4
    <2>2. C!LetGo(e.button)
        BY <1>2, <1>4, <2>1 DEF C!LetGo, C!way, Way, Click
    <2> QED BY <1>1, <2>2 DEF C!Next
<1> QED BY <1>3, <1>4

\* The switch itself, moved or left where it is.
LEMMA Switches ==
    ASSUME \A x \in Event : OnTheWay(x)' = OnTheWay(x),
           UNCHANGED <<apps, HeldBy(phys), dev>>,
           enabled \in BOOLEAN, enabled' \in BOOLEAN
    PROVE  C!Next \/ UNCHANGED C!vars
<1>1. CASE enabled' = enabled
    BY <1>1, Stutters DEF Around
<1>2. CASE enabled' = ~enabled
    <2>1. C!Switch
        BY <1>2, SameWay DEF C!Switch, C!way, Way, Click
    <2> QED BY <2>1 DEF C!Next
<1> QED BY <1>1, <1>2

\* One event at the hook: shown now, or kept on its way by the callback.
LEMMA OnButtonRefines ==
    ASSUME TypeOK, Custody, Plain, Hand, Balanced, NEW e \in Event, OnButton(e),
           \A x \in Event : Count(physQ, x) + Count(virtQ, x)
                              = Count(physQ, x)' + Count(virtQ, x)' + IF x = e THEN 1 ELSE 0,
           \A x \in Event : Count(physQ, x)' \in Nat /\ Count(virtQ, x)' \in Nat
    PROVE  C!Next \/ UNCHANGED C!vars
<1>1. hook.pc = "idle" /\ (Passed(e) \/ Replayed(e))
    BY OwedOnce, OnButtonEither DEF OnButton
<1>5. UNCHANGED Around
    BY DEF OnButton, Around, HeldBy, shared
<1>2. \A x \in Event : /\ OnTheWay(x) = Count(physQ, x) + Count(virtQ, x)
                       /\ OnTheWay(x) \in Nat
    <2> TAKE x \in Event
    <2>1. InHand(x) = 0
        BY <1>1 DEF InHand
    <2> QED BY <2>1, WayParts
<1>3. CASE Passed(e)
    <2>1. ASSUME NEW x \in Event
          PROVE  OnTheWay(x) = OnTheWay(x)' + IF x = e THEN 1 ELSE 0
        <3>1. InHand(x)' = 0
            BY <1>3 DEF InHand, Passed
        <3> QED BY <1>2, <3>1, WayNext
    <2>2. ASSUME NEW x \in Event
          PROVE  OnTheWay(x)' \in Nat
        <3>1. InHand(x)' = 0
            BY <1>3 DEF InHand, Passed
        <3> QED BY <3>1, WayNext
    <2>3. \A x \in Event : OnTheWay(x)' = OnTheWay(x) - IF x = e THEN 1 ELSE 0
        BY <1>2, <2>1, <2>2
    <2>4. OnTheWay(e) > 0
        BY <2>1, <2>2
    <2> QED BY <1>2, <1>3, <1>5, <2>3, <2>4, Arrives DEF Passed
<1>4. CASE Replayed(e)
    <2>1. ASSUME NEW x \in Event
          PROVE  OnTheWay(x)' = OnTheWay(x)
        <3>1. InHand(x)' = IF x = e THEN 1 ELSE 0
            BY <1>4 DEF InHand, Replayed
        <3> QED BY <1>2, <3>1, WayNext
    <2> QED BY <1>4, <1>5, <2>1, Stutters DEF Replayed
<1> QED BY <1>1, <1>3, <1>4

\* Head and rest of a queue, counted.
LEMMA QueueSplits ==
    ASSUME NEW q \in Seq(Event), q /= <<>>, NEW x \in Event
    PROVE  /\ Count(q, x) = Count(Tail(q), x) + IF x = Head(q) THEN 1 ELSE 0
           /\ Count(q, x) \in Nat /\ Count(Tail(q), x) \in Nat
<1>1. Count(q, x) = (IF Head(q) = x THEN 1 ELSE 0) + Count(Tail(q), x)
    BY CountHeadTail
<1>2. Count(q, x) \in Nat /\ Count(Tail(q), x) \in Nat
    BY HeadTailProperties, CountType
<1> QED BY <1>1, <1>2

LEMMA HookGetsRefines ==
    ASSUME TypeOK, Custody, Plain, Hand, Balanced, HookGetsButton \/ HookGetsEcho
    PROVE  C!Next \/ UNCHANGED C!vars
<1>1. physQ \in Seq(Event) /\ virtQ \in Seq(Event)
    BY DEF TypeOK
<1>2. CASE HookGetsButton
    <2> DEFINE e == Head(physQ)
    <2>1. /\ physQ /= <<>> /\ e \in Event /\ OnButton(e)
          /\ physQ' = Tail(physQ) /\ virtQ' = virtQ
        BY <1>1, <1>2, HeadTailProperties DEF HookGetsButton
    <2>2. ASSUME NEW x \in Event
          PROVE  /\ Count(physQ, x) + Count(virtQ, x)
                      = Count(physQ, x)' + Count(virtQ, x)' + IF x = e THEN 1 ELSE 0
                 /\ Count(physQ, x)' \in Nat /\ Count(virtQ, x)' \in Nat
        <3>1. Count(physQ, x)' = Count(Tail(physQ), x) /\ Count(virtQ, x)' = Count(virtQ, x)
            BY <2>1
        <3>2. Count(virtQ, x) \in Nat
            BY <1>1, CountType
        <3>3. /\ Count(physQ, x) = Count(Tail(physQ), x) + IF x = e THEN 1 ELSE 0
              /\ Count(physQ, x) \in Nat /\ Count(Tail(physQ), x) \in Nat
            BY <1>1, <2>1, QueueSplits
        <3> HIDE DEF e
        <3> QED BY <3>1, <3>2, <3>3
    <2> HIDE DEF e
    <2> QED BY <2>1, <2>2, OnButtonRefines
<1>3. CASE HookGetsEcho
    <2> DEFINE e == Head(virtQ)
    <2>1. /\ virtQ /= <<>> /\ e \in Event /\ OnButton(e)
          /\ virtQ' = Tail(virtQ) /\ physQ' = physQ
        BY <1>1, <1>3, HeadTailProperties DEF HookGetsEcho
    <2>2. ASSUME NEW x \in Event
          PROVE  /\ Count(physQ, x) + Count(virtQ, x)
                      = Count(physQ, x)' + Count(virtQ, x)' + IF x = e THEN 1 ELSE 0
                 /\ Count(physQ, x)' \in Nat /\ Count(virtQ, x)' \in Nat
        <3>1. Count(virtQ, x)' = Count(Tail(virtQ), x) /\ Count(physQ, x)' = Count(physQ, x)
            BY <2>1
        <3>2. Count(physQ, x) \in Nat
            BY <1>1, CountType
        <3>3. /\ Count(virtQ, x) = Count(Tail(virtQ), x) + IF x = e THEN 1 ELSE 0
              /\ Count(virtQ, x) \in Nat /\ Count(Tail(virtQ), x) \in Nat
            BY <1>1, <2>1, QueueSplits
        <3> HIDE DEF e
        <3> QED BY <3>1, <3>2, <3>3
    <2> HIDE DEF e
    <2> QED BY <2>1, <2>2, OnButtonRefines
<1> QED BY <1>2, <1>3

\* Sending: the event leaves the callback as the device clicks it, once.  With
\* one mouse the record never has the button that is pressed already.
LEMMA HookStepRefines ==
    ASSUME TypeOK, Custody, Plain, Hand, "both" \notin env, HookStep
    PROVE  C!Next \/ UNCHANGED C!vars
<1>1. CASE HookSend
    <2>1. /\ hook.pc = "send" /\ hook'.pc = "remember" /\ hook.event \in Event
          /\ physQ' = physQ /\ apps' = apps
        BY <1>1, SendArrives DEF HookSend, user, At
    <2>2. hook.event.down <=> hook.event.button \notin buttons
        BY <2>1 DEF Hand, Busy
    <2>3. ASSUME NEW x \in Event
          PROVE  OnTheWay(x)' = OnTheWay(x)
        <3>1. Count(virtQ, x)' = Count(virtQ, x) + IF x = hook.event THEN 1 ELSE 0
            BY <1>1, <2>2, SendCount
        <3>2. InHand(x) = (IF x = hook.event THEN 1 ELSE 0) /\ InHand(x)' = 0
            BY <2>1 DEF InHand
        <3>3. Count(physQ, x)' = Count(physQ, x)
            BY <2>1
        <3> QED BY <3>1, <3>2, <3>3, WayParts, WayNext
    <2>4. OnTheWay(hook.event) > 0
        <3>1. InHand(hook.event) = 1
            BY <2>1 DEF InHand
        <3> QED BY <2>1, <3>1, WayParts
    <2>5. enabled /\ enabled' = enabled /\ HeldBy(phys)' = HeldBy(phys)
        BY <1>1, <2>1 DEF Hand, HookSend, shared, user, HeldBy
    <2>6. dev = buttons /\ dev' = ReportAfter(hook.event)
        BY <1>1, <2>1, <2>5, SendArrives DEF Hand, Busy, Takes
    <2> QED BY <2>1, <2>2, <2>3, <2>4, <2>5, <2>6, Holds DEF ReportAfter
<1>2. CASE HookRemember
    <2>1. /\ hook.pc = "remember" /\ hook'.pc = "idle"
          /\ UNCHANGED <<physQ, virtQ, apps>> /\ UNCHANGED Around
        BY <1>2, HookMoves, HookRecord
           DEF HookRemember, Hand, Swallow, device, user, Around, HeldBy
    <2>2. ASSUME NEW x \in Event
          PROVE  OnTheWay(x)' = OnTheWay(x)
        <3>1. InHand(x) = 0 /\ InHand(x)' = 0
            BY <2>1 DEF InHand
        <3>2. Count(physQ, x)' = Count(physQ, x) /\ Count(virtQ, x)' = Count(virtQ, x)
            BY <2>1
        <3> QED BY <3>1, <3>2, WayParts, WayNext
    <2> QED BY <2>1, <2>2, Stutters
<1> QED BY <1>1, <1>2, NotInPlain DEF HookStep

LEMMA UiRefines ==
    ASSUME TypeOK, Custody, Plain, Hand, Balanced, Ui
    PROVE  C!Next \/ UNCHANGED C!vars
<1>1. CASE UiReleases
    <2>1. Takes({}) /\ UNCHANGED <<hook, physQ, apps>>
        BY <1>1, ReleaseKeepsLedger DEF UiReleases, user
    <2>5. /\ UNCHANGED <<apps, HeldBy(phys), enabled>>
          /\ ~enabled /\ dev' = {}
        BY <1>1, <2>1 DEF UiReleases, user, shared, HeldBy, Hand, Releasing, Takes
    <2>2. ASSUME NEW x \in Event
          PROVE  OnTheWay(x)' = OnTheWay(x) + IF ~x.down /\ x.button \in dev THEN 1 ELSE 0
        <3>1. Count(virtQ, x)' = Count(virtQ, x)
                + IF x.button \in (IF x.down THEN {} \ dev ELSE dev \ {}) THEN 1 ELSE 0
            BY <2>1, TakesCount
        <3>2. x.button \in (IF x.down THEN {} \ dev ELSE dev \ {}) <=>
                 ~x.down /\ x.button \in dev
            OBVIOUS
        <3>3. InHand(x)' = InHand(x) /\ Count(physQ, x)' = Count(physQ, x)
            BY <2>1 DEF InHand
        <3> QED BY <3>1, <3>2, <3>3, WayParts, WayNext
    <2>3. \A x \in Event : OnTheWay(x) \in Nat
        BY WayParts
    <2>4. \A x \in Event : OnTheWay(x)' = OnTheWay(x)
                + IF x \in [button : dev, down : {FALSE}] THEN 1 ELSE 0
        <3> TAKE x \in Event
        <3>1. (x \in [button : dev, down : {FALSE}]) <=> ~x.down /\ x.button \in dev
            BY DEF Event
        <3> QED BY <2>2, <3>1
    <2> QED BY <2>3, <2>4, <2>5, Cuts DEF TypeOK
<1>2. CASE UiOn \/ UiOff \/ UiLocks
    <2>1. UNCHANGED <<hook, virtQ, physQ, apps>>
        BY <1>2 DEF UiOn, UiOff, UiLocks, device, user
    <2>2. \A x \in Event : OnTheWay(x)' = OnTheWay(x)
        BY <2>1 DEF OnTheWay
    <2>3. /\ UNCHANGED <<apps, HeldBy(phys), dev>>
          /\ enabled \in BOOLEAN /\ enabled' \in BOOLEAN
        BY <1>2 DEF UiOn, UiOff, UiLocks, device, user, shared, HeldBy, TypeOK
    <2> QED BY <2>2, <2>3, Switches
<1> QED BY <1>1, <1>2, NotInPlain DEF Ui

\* With one mouse a button is held just when the user has it down there.
LEMMA OneMouse ==
    ASSUME TypeOK, OneDesk, "both" \notin env, NEW mb \in Mice \X Buttons, MayUse(mb[1])
    PROVE  /\ mb \in phys <=> mb[2] \in HeldBy(phys)
           /\ HeldBy(Flip(mb)) = IF mb \in phys THEN HeldBy(phys) \ {mb[2]}
                                               ELSE HeldBy(phys) \cup {mb[2]}
<1>1. mb = <<mb[1], mb[2]>> /\ mb[1] = CHOOSE m \in Mice : TRUE
    BY DEF MayUse
<1>2. \A hb \in phys : hb[1] = mb[1]
    BY <1>1 DEF OneDesk
<1>3. \A hb \in phys : hb[2] = mb[2] => hb = mb
    <2> TAKE hb \in phys
    <2>1. hb \in Mice \X Buttons
        BY DEF TypeOK
    <2>2. hb = <<hb[1], hb[2]>>
        BY <2>1
    <2> QED BY <1>1, <1>2, <2>2
<1> QED BY <1>3 DEF HeldBy, Flip

LEMMA ClickRefines ==
    ASSUME TypeOK, OneDesk, "both" \notin env, NEW mb \in Mice \X Buttons, UserClicks(mb)
    PROVE  C!Next
<1> DEFINE e == [button |-> mb[2], down |-> mb \notin phys]
<1>1. /\ e \in Event /\ physQ \in Seq(Event) /\ physQ' = Append(physQ, e)
      /\ UNCHANGED <<hook, virtQ, apps>>
    BY DEF UserClicks, Event, TypeOK, device
<1>4. /\ UNCHANGED <<apps, enabled, dev>>
      /\ phys' = Flip(mb) /\ MayUse(mb[1])
    BY DEF UserClicks, shared, device
<1>5. /\ e.down <=> e.button \notin HeldBy(phys)
      /\ HeldBy(phys)' = (IF e.down THEN HeldBy(phys) \cup {e.button}
                                    ELSE HeldBy(phys) \ {e.button})
    <2>1. HeldBy(phys)' = HeldBy(Flip(mb))
        BY <1>4 DEF HeldBy
    <2> QED BY <1>4, <2>1, OneMouse
<1> HIDE DEF e
<1>2. ASSUME NEW x \in Event
      PROVE  OnTheWay(x)' = OnTheWay(x) + IF x = e THEN 1 ELSE 0
    <2>1. Count(physQ, x)' = Count(physQ, x) + IF e = x THEN 1 ELSE 0
        BY <1>1, CountAppend
    <2>2. InHand(x)' = InHand(x) /\ Count(virtQ, x)' = Count(virtQ, x)
        BY <1>1 DEF InHand
    <2> QED BY <2>1, <2>2, WayParts, WayNext
<1>3. \A x \in Event : OnTheWay(x) \in Nat
    BY WayParts
<1> QED BY <1>1, <1>2, <1>3, <1>4, <1>5, Starts

LEMMA StepRefines == IInv /\ Ledger /\ [Next]_vars => [Clean => C!Next]_(C!vars)
<1> SUFFICES ASSUME IInv, Ledger, [Next]_vars, Clean
             PROVE  C!Next \/ UNCHANGED C!vars
    OBVIOUS
<1>1. /\ TypeOK /\ Custody /\ Plain /\ Hand /\ Balanced /\ OneDesk
      /\ "both" \notin env /\ "close" \notin env
    BY DEF IInv, Ledger, OneDesk, Clean, Plain, Without
<1>2. CASE HookGetsButton \/ HookGetsEcho
    BY <1>1, <1>2, HookGetsRefines
<1>3. CASE HookStep \/ HookMissesEvent
    BY <1>1, <1>3, HookStepRefines, NotInPlain
<1>4. CASE Ui
    BY <1>1, <1>4, UiRefines
<1>5. CASE Close
    BY <1>1, <1>5, NotInPlain DEF Close, CloseStops
<1>6. CASE World
    BY <1>1, <1>6, ClickRefines, NotInPlain DEF World
<1>7. CASE UNCHANGED vars
    <2>1. UNCHANGED <<hook, virtQ, physQ, apps>> /\ UNCHANGED Around
        BY <1>7 DEF vars, device, user, shared, Around, HeldBy
    <2>2. \A x \in Event : OnTheWay(x)' = OnTheWay(x)
        BY <2>1 DEF OnTheWay
    <2> QED BY <2>1, <2>2, Stutters
<1> QED BY <1>2, <1>3, <1>4, <1>5, <1>6, <1>7 DEF Next

LEMMA InitRefines == Init => C!Init
<1> SUFFICES ASSUME Init PROVE C!Init
    OBVIOUS
<1>1. /\ TypeOK /\ physQ = <<>> /\ virtQ = <<>> /\ hook.pc = "idle" /\ apps = {}
      /\ enabled = FALSE /\ dev = {} /\ phys = {}
    BY TypeInit, HookRecord DEF Init
<1>2. ASSUME NEW x \in Event
      PROVE  OnTheWay(x) = 0
    <2>1. Count(physQ, x) = 0 /\ Count(virtQ, x) = 0 /\ InHand(x) = 0
        BY <1>1, CountEmpty DEF InHand
    <2> QED BY <1>1, <2>1, WayParts
<1>3. \A b \in Buttons : OnTheWay(Click(b, TRUE)) = 0 /\ OnTheWay(Click(b, FALSE)) = 0
    BY <1>2 DEF Click, Event
<1> QED BY <1>1, <1>3 DEF C!Init, Click, HeldBy

\* An undisturbed session implements Clicks: an event comes into being when the
\* user presses or lets go of a button, and goes when the applications see it,
\* whichever of the queues and whatever step of the callback it is in.  The
\* redirect adds nothing of its own but, once it is off, one release for each
\* button the virtual mouse still holds.
THEOREM ImplementsClicks == Spec => ShowsEachClickOnce
<1>1. (IInv /\ Ledger) /\ [Next]_vars => [Clean => C!Next]_(C!vars)
    BY StepRefines
<1> QED BY <1>1, InitRefines, LedgerHolds, PTL DEF Spec, ShowsEachClickOnce
=============================================================================
