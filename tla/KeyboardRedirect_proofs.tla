----------------------- MODULE KeyboardRedirect_proofs -----------------------
(***************************************************************************)
(* Proofs about KeyboardRedirect, for every set of keys, every number of   *)
(* slots and every surroundings.                                           *)
(***************************************************************************)
EXTENDS KeyboardRedirect, ReportFacts

-----------------------------------------------------------------------------
\* What the virtual keyboard types is a sequence of key events.

LEMMA TypedIsSeq ==
    ASSUME NEW keys \in SUBSET Keys, NEW d \in BOOLEAN
    PROVE  SetToSeq([key : keys, down : {d}]) \in Seq([key : Keys, down : BOOLEAN])
<1> DEFINE T == [key : keys, down : {d}]
<1>1. IsFiniteSet(keys)
    BY KeysAssumption, FS_Subset
<1>2. IsFiniteSet(T)
    <2> DEFINE f == [k \in keys |-> [key |-> k, down |-> d]]
    <2>1. f \in Bijection(keys, T)
        <3>1. f \in [keys -> T]
            OBVIOUS
        <3>2. IsInjective(f)
            BY DEF IsInjective
        <3>3. \A t \in T : \E k \in keys : f[k] = t
            <4> SUFFICES ASSUME NEW t \in T PROVE f[t.key] = t /\ t.key \in keys
                OBVIOUS
            <4> QED OBVIOUS
        <3> QED BY <3>1, <3>2, <3>3 DEF Bijection, Injection, Surjection
    <2> QED BY <1>1, <2>1, FS_Bijection DEF ExistsBijection
<1>3. SetToSeq(T) \in Seq(T)
    BY <1>2, SetToSeqIsSeq
<1>4. T \subseteq [key : Keys, down : BOOLEAN]
    OBVIOUS
<1> HIDE DEF T
<1>5. SetToSeq(T) \in Seq([key : Keys, down : BOOLEAN])
    BY <1>3, <1>4, SeqMonotonic
<1> QED BY <1>5 DEF T

LEMMA TakesKeepsType ==
    ASSUME TypeOK, NEW report \in SUBSET Keys, Takes(report)
    PROVE  /\ plugged' \in BOOLEAN /\ dev' \in SUBSET Keys
           /\ virtQ' \in Seq([key : Keys, down : BOOLEAN])
<1> DEFINE E == [key : Keys, down : BOOLEAN]
<1>1. Ups(dev \ report) \in Seq(E) /\ Downs(report \ dev) \in Seq(E)
    BY TypedIsSeq DEF TypeOK, Ups, Downs
<1>2. virtQ \o Ups(dev \ report) \o Downs(report \ dev) \in Seq(E)
    BY <1>1, ConcatProperties DEF TypeOK
<1> QED BY <1>2 DEF Takes, TypeOK

LEMMA SendKeepsType ==
    ASSUME TypeOK, NEW report \in SUBSET Keys, SendNow(report) \/ SendFails
    PROVE  /\ plugged' \in BOOLEAN /\ dev' \in SUBSET Keys
           /\ virtQ' \in Seq([key : Keys, down : BOOLEAN])
BY TakesKeepsType DEF SendNow, SendFails, Delivered, TypeOK, device

\* The locals of on_key are a record of the type whatever the callback does.
LEMMA HookRecord ==
    /\ Resting \in [pc : HookPlaces, event : Event, report : SUBSET Keys]
    /\ Resting.pc = "idle"
    /\ \A h \in [pc : HookPlaces, event : Event, report : SUBSET Keys] :
       \A pc \in HookPlaces :
          /\ [h EXCEPT !.pc = pc] \in [pc : HookPlaces, event : Event, report : SUBSET Keys]
          /\ [h EXCEPT !.pc = pc].pc = pc
          /\ [h EXCEPT !.pc = pc].event = h.event
          /\ [h EXCEPT !.pc = pc].report = h.report
<1>1. \E e \in Event : TRUE
    <2>1. PICK k \in Keys : TRUE
        BY KeysAssumption
    <2>2. [key |-> k, down |-> TRUE] \in Event
        BY DEF Event, AllKeys
    <2> QED BY <2>2
<1>2. (CHOOSE e \in Event : TRUE) \in Event
    BY <1>1
<1> QED BY <1>2 DEF Resting, HookPlaces

LEMMA EchoKeepsType ==
    ASSUME TypeOK, NEW slots \in SUBSET Slots, NEW s \in Slots, ExpectAll(slots) \/ Take(s)
    PROVE  echo' \in [Slots -> 0..MaxPending] /\ stale' \in SUBSET Slots
<1>1. CASE ExpectAll(slots)
    <2>1. \A n \in 0..MaxPending : Grown(n) \in 0..MaxPending
        BY LimitsAssumption DEF Grown
    <2> QED BY <1>1, <2>1 DEF ExpectAll, TypeOK
<1>2. CASE Take(s)
    BY <1>2, LimitsAssumption DEF Take, Matches, TypeOK
<1> QED BY <1>1, <1>2

LEMMA NothingOwed == [s \in Slots |-> 0] \in [Slots -> 0..MaxPending]
<1>1. 0 \in 0..MaxPending
    BY LimitsAssumption
<1> QED BY <1>1

-----------------------------------------------------------------------------
\* Type correctness, one step for each action.

LEMMA OnKeyKeepsType ==
    ASSUME TypeOK, NEW e \in Event, OnKey(e)
    PROVE  /\ enabled' \in BOOLEAN /\ driver' \in BOOLEAN
           /\ keyboard' \in SUBSET Keys /\ combo' \in SUBSET Mods
           /\ echo' \in [Slots -> 0..MaxPending] /\ stale' \in SUBSET Slots
           /\ hook' \in [pc : HookPlaces, event : Event, report : SUBSET Keys]
           /\ apps' \in SUBSET AllKeys
<1> USE DEF TypeOK
<1>1. Slot(e) \in Slots /\ e.key \in AllKeys
    BY DEF Event, Slot, Slots
<1>2. Pass(e) => /\ hook' \in [pc : HookPlaces, event : Event, report : SUBSET Keys]
                 /\ apps' \in SUBSET AllKeys
    BY <1>1, HookRecord DEF Pass
<1>3. ASSUME NEW pc \in HookPlaces, NEW report \in SUBSET Keys, Proceed(pc, e, report)
      PROVE  /\ hook' \in [pc : HookPlaces, event : Event, report : SUBSET Keys]
             /\ apps' \in SUBSET AllKeys
    BY <1>3 DEF Proceed
<1>4. CASE ~(enabled /\ driver) /\ Pass(e) /\ UNCHANGED shared
    BY <1>2, <1>4 DEF shared
<1>5. CASE DecideKey(e) /\ UNCHANGED <<enabled, driver>>
    <2>1. echo' \in [Slots -> 0..MaxPending] /\ stale' \in SUBSET Slots
        BY <1>1, <1>5, EchoKeepsType DEF DecideKey
    <2>2. CASE Pass(e) /\ UNCHANGED <<combo, keyboard>>
        BY <1>2, <1>5, <2>1, <2>2
    <2>3. CASE e.key \in Mods /\ combo' = Note(e) /\ Pass(e) /\ UNCHANGED keyboard
        BY <1>2, <1>5, <2>1, <2>3 DEF Note
    <2>4. CASE DecidePress(e)
        <3>1. combo' \in SUBSET Mods /\ keyboard' \in SUBSET Keys
            BY <2>4 DEF DecidePress, StillHeld
        <3>2. e.key \in Keys /\ {"repeatUp", "send"} \subseteq HookPlaces
            BY <2>4 DEF DecidePress, HookPlaces
        <3>3. /\ hook' \in [pc : HookPlaces, event : Event, report : SUBSET Keys]
              /\ apps' \in SUBSET AllKeys
            BY <1>2, <1>3, <2>4, <3>2 DEF DecidePress
        <3> QED BY <1>5, <2>1, <3>1, <3>3
    <2>5. CASE DecideRelease(e)
        <3>1. e.key \in Keys /\ "send" \in HookPlaces
            BY <2>5 DEF DecideRelease, HookPlaces
        <3>2. /\ hook' \in [pc : HookPlaces, event : Event, report : SUBSET Keys]
              /\ apps' \in SUBSET AllKeys
            BY <1>2, <1>3, <2>5, <3>1 DEF DecideRelease
        <3> QED BY <1>5, <2>1, <2>5, <3>2 DEF DecideRelease
    <2> QED BY <1>5, <2>2, <2>3, <2>4, <2>5 DEF DecideKey
<1> QED BY <1>4, <1>5 DEF OnKey
LEMMA HookStepKeepsType ==
    ASSUME TypeOK, HookStep
    PROVE  TypeOK'
<1> USE DEF TypeOK
<1>1. ASSUME NEW pc \in HookPlaces, At(pc)
      PROVE  /\ hook' \in [pc : HookPlaces, event : Event, report : SUBSET Keys]
             /\ apps' \in SUBSET AllKeys
    BY <1>1, HookRecord DEF At
<1>2. Swallow => /\ hook' \in [pc : HookPlaces, event : Event, report : SUBSET Keys]
                 /\ apps' \in SUBSET AllKeys
    BY HookRecord DEF Swallow
<1>3. Pass(hook.event) =>
                 /\ hook' \in [pc : HookPlaces, event : Event, report : SUBSET Keys]
                 /\ apps' \in SUBSET AllKeys
    BY HookRecord DEF Pass, Event
<1>4. /\ "remember" \in HookPlaces /\ "undo" \in HookPlaces
      /\ "repeatDown" \in HookPlaces /\ "repeatNote" \in HookPlaces
    BY DEF HookPlaces
<1>5. /\ hook.event \in Event /\ Slot(hook.event) \in Slots
      /\ {hook.event.key} \X BOOLEAN \subseteq Slots
    BY DEF Slot, Slots, Event
<1>6. CASE HookSend
    BY <1>1, <1>3, <1>4, <1>6, SendKeepsType DEF HookSend, SendFails, device, shared, user
<1>7. CASE HookRemember
    <2>1. CASE enabled
        <3>1. keyboard' = hook.report /\ ExpectAll({Slot(hook.event)}) /\ Swallow
            BY <1>7, <2>1 DEF HookRemember
        <3>2. echo' \in [Slots -> 0..MaxPending] /\ stale' \in SUBSET Slots
            BY <1>5, <3>1, EchoKeepsType
        <3> QED BY <1>2, <1>7, <3>1, <3>2 DEF HookRemember, device, user
    <2>2. CASE ~enabled
        BY <1>1, <1>4, <1>7, <2>2 DEF HookRemember, device, user
    <2> QED BY <2>1, <2>2
<1>8. CASE HookUndo
    BY <1>2, <1>8, SendKeepsType DEF HookUndo, shared, user
<1>9. CASE HookRepeatUp
    BY <1>1, <1>4, <1>9, SendKeepsType DEF HookRepeatUp, shared, user
<1>10. CASE HookRepeatDown
    BY <1>1, <1>3, <1>4, <1>10, SendKeepsType DEF HookRepeatDown, SendFails, device, shared, user
<1>11. CASE HookRepeatNote
    <2>1. echo' \in [Slots -> 0..MaxPending] /\ stale' \in SUBSET Slots
        BY <1>5, <1>11, EchoKeepsType DEF HookRepeatNote
    <2> QED BY <1>2, <1>11, <2>1 DEF HookRepeatNote, device, user
<1> QED BY <1>6, <1>7, <1>8, <1>9, <1>10, <1>11 DEF HookStep

LEMMA UiKeepsType ==
    ASSUME TypeOK, Ui
    PROVE  TypeOK'
<1> USE DEF TypeOK, shared, device, user
<1>1. CASE UiOn
    BY <1>1 DEF UiOn
<1>2. CASE UiOff
    BY <1>2, NothingOwed DEF UiOff, ClearKeys
<1>3. CASE UiLocks
    BY <1>3 DEF UiLocks
<1>4. CASE UiReleases
    <2>1. Delivered({}) => /\ plugged' \in BOOLEAN /\ dev' \in SUBSET Keys
                           /\ virtQ' \in Seq([key : Keys, down : BOOLEAN])
        BY TakesKeepsType DEF Delivered
    <2> QED BY <1>4, <2>1 DEF UiReleases, TurnedDown
<1>5. CASE UiBusy \/ UiDone
    BY <1>5 DEF UiBusy, UiDone
<1> QED BY <1>1, <1>2, <1>3, <1>4, <1>5 DEF Ui

LEMMA CloseKeepsType ==
    ASSUME TypeOK, Close
    PROVE  TypeOK'
<1> USE DEF TypeOK, shared, device, user
<1>1. CASE CloseStops
    BY <1>1, NothingOwed DEF CloseStops, ClearKeys
<1>2. CASE CloseReleases
    <2>1. /\ plugged' \in BOOLEAN /\ dev' \in SUBSET Keys
          /\ virtQ' \in Seq([key : Keys, down : BOOLEAN])
        BY <1>2, SendKeepsType DEF CloseReleases
    <2> QED BY <1>2, <2>1 DEF CloseReleases
<1>3. CASE CloseUnplugs
    BY <1>3 DEF CloseUnplugs
<1> QED BY <1>1, <1>2, <1>3 DEF Close

LEMMA WorldKeepsType ==
    ASSUME TypeOK, World
    PROVE  TypeOK'
<1> USE DEF TypeOK, shared, device, user
<1>1. ASSUME NEW e \in Event, Type(e)
      PROVE  physQ' \in Seq(Event)
    BY <1>1, AppendProperties DEF Type
<1>2. ASSUME NEW k \in AllKeys, UserMoves(k)
      PROVE  TypeOK'
    <2>1. [key |-> k, down |-> k \notin phys] \in Event
        BY DEF Event
    <2> QED BY <1>1, <1>2, <2>1 DEF UserMoves
<1>3. ASSUME NEW k \in AllKeys, KeyRepeats(k)
      PROVE  TypeOK'
    <2>1. [key |-> k, down |-> TRUE] \in Event
        BY DEF Event
    <2> QED BY <1>1, <1>3, <2>1 DEF KeyRepeats
<1>4. ASSUME NEW k \in Mods, ModifierMovesElsewhere(k)
      PROVE  TypeOK'
    BY <1>4 DEF ModifierMovesElsewhere, AllKeys
<1>5. ASSUME NEW s \in Slots, EchoLapses(s)
      PROVE  TypeOK'
    BY <1>5 DEF EchoLapses
<1> QED BY <1>2, <1>3, <1>4, <1>5 DEF World

LEMMA NextKeepsType == TypeOK /\ [Next]_vars => TypeOK'
<1> SUFFICES ASSUME TypeOK, [Next]_vars PROVE TypeOK'
    OBVIOUS
<1>1. CASE HookGetsKey
    <2>1. Head(physQ) \in Event /\ Tail(physQ) \in Seq(Event)
        BY <1>1, HeadTailProperties DEF HookGetsKey, TypeOK
    <2> QED BY <1>1, <2>1, OnKeyKeepsType DEF HookGetsKey, OnKey, TypeOK
<1>2. CASE HookGetsEcho
    <2> DEFINE E == [key : Keys, down : BOOLEAN]
    <2>1. Head(virtQ) \in E /\ Tail(virtQ) \in Seq(E)
        BY <1>2, HeadTailProperties DEF HookGetsEcho, TypeOK
    <2>2. Head(virtQ) \in Event
        BY <2>1 DEF Event, AllKeys
    <2> QED BY <1>2, <2>1, <2>2, OnKeyKeepsType DEF HookGetsEcho, OnKey, TypeOK
<1>3. CASE UNCHANGED vars
    BY <1>3 DEF vars, shared, device, user, TypeOK
<1>4. CASE Next
    BY <1>1, <1>2, <1>4, HookStepKeepsType, UiKeepsType, CloseKeepsType, WorldKeepsType
       DEF Next
<1> QED BY <1>3, <1>4

LEMMA TypeInit == Init => TypeOK
<1> SUFFICES ASSUME Init PROVE TypeOK
    OBVIOUS
<1>1. /\ env \in SUBSET Behaviours /\ enabled \in BOOLEAN /\ driver \in BOOLEAN
      /\ plugged \in BOOLEAN
    BY EnvAssumption DEF Init
<1>2. /\ keyboard \in SUBSET Keys /\ combo \in SUBSET Mods /\ stale \in SUBSET Slots
      /\ dev \in SUBSET Keys /\ phys \in SUBSET AllKeys /\ apps \in SUBSET AllKeys
    BY DEF Init
<1>3. /\ echo \in [Slots -> 0..MaxPending]
      /\ hook \in [pc : HookPlaces, event : Event, report : SUBSET Keys]
    BY HookRecord, NothingOwed DEF Init
<1>4. virtQ \in Seq([key : Keys, down : BOOLEAN]) /\ physQ \in Seq(Event)
    BY EmptySeq DEF Init
<1> QED BY <1>1, <1>2, <1>3, <1>4 DEF Init, TypeOK

\* Every reachable state is well typed: only keys that can be redirected get into
\* a report, and no counter of the echo filter passes MAX_PENDING.
THEOREM TypeCorrect == Spec => []TypeOK
BY TypeInit, NextKeepsType, PTL DEF Spec
-----------------------------------------------------------------------------
(***************************************************************************)
(* The inductive invariant.  Custody ties the locks and the threads        *)
(* together in all surroundings; InHand is the argument for a switch that  *)
(* leaves a running callback alone: whatever the device holds is in the    *)
(* record or in the report just sent; Reached is what is left of it when   *)
(* the switch may fall anywhere: a callback that has not sent anything yet *)
(* finds the device of a redirect that is off already empty.               *)
(***************************************************************************)
Releasing == ui \in {"release", "releasing"}

Custody ==
    /\ conn = "ui" <=> ui \in {"releasing", "busy"}
    /\ ui = "busy" => "contend" \in env
    /\ driver <=> closer = "idle"
    /\ enabled \/ keyboard = {}
    /\ Releasing => ~enabled
    /\ plugged <=> closer /= "done"
    /\ plugged \/ dev = {}

InHand ==
    Without({"race", "refuse"}) /\ driver =>
        /\ Releasing => hook.pc = "idle"
        /\ hook.pc /= "idle" => enabled
        /\ hook.pc \in {"repeatUp", "repeatDown", "repeatNote"} => hook.report = keyboard
        /\ ~Releasing => dev \subseteq IF hook.pc = "remember" THEN hook.report ELSE keyboard

Reached ==
    Without({"refuse"}) =>
        (/\ hook.pc \in {"send", "repeatUp"} /\ ~enabled /\ ~Releasing
         /\ closer \in {"idle", "done"}
         => dev = {})

IInv == TypeOK /\ Custody /\ InHand /\ Reached

\* What the lock and the device do in a report that is sent or refused.
LEMMA SendEffect ==
    ASSUME NEW report, SendNow(report) \/ SendFails
    PROVE  /\ plugged' = plugged
           /\ dev' = report \/ dev' = dev
           /\ dev' = report \/ conn /= "free" \/ ~plugged \/ "refuse" \in env
           /\ ~plugged => dev' = dev
BY DEF SendNow, SendFails, Delivered, Takes, device

\* What every way out of a callback does to the thread.
LEMMA HookMoves ==
    /\ \A e : Pass(e) => hook' = Resting
    /\ Swallow => hook' = Resting
    /\ \A pc \in HookPlaces : TypeOK /\ At(pc) =>
          hook'.pc = pc /\ hook'.report = hook.report /\ hook'.event = hook.event
    /\ \A pc, e, report : Proceed(pc, e, report) => hook'.pc = pc /\ hook'.report = report
BY HookRecord DEF Pass, Swallow, At, Proceed, TypeOK

\* What a decision of on_key amounts to for the record and the thread.
LEMMA OnKeyEffect ==
    ASSUME NEW e, OnKey(e)
    PROVE  /\ hook.pc = "idle"
           /\ UNCHANGED <<enabled, driver, keyboard, ui, closer, conn, plugged, dev, phys>>
           /\ \/ hook' = Resting
              \/ enabled /\ driver /\ hook'.pc = "send"
              \/ enabled /\ driver /\ hook'.pc = "repeatUp" /\ hook'.report = keyboard
<1>1. CASE ~(enabled /\ driver) /\ Pass(e) /\ UNCHANGED shared
    BY <1>1, HookMoves DEF OnKey, shared
<1>2. CASE enabled /\ driver /\ DecideKey(e) /\ UNCHANGED <<enabled, driver>>
    BY <1>2, HookMoves DEF OnKey, DecideKey, DecidePress, DecideRelease
<1> QED BY <1>1, <1>2 DEF OnKey

LEMMA CustodyInit == Init => Custody
BY DEF Init, Custody, Releasing

LEMMA CustodyNext == TypeOK /\ Custody /\ [Next]_vars => Custody'
<1> SUFFICES ASSUME TypeOK, Custody, [Next]_vars PROVE Custody'
    OBVIOUS
<1> USE DEF Custody, Releasing
<1>1. CASE HookGetsKey \/ HookGetsEcho
    <2>1. PICK e : OnKey(e) /\ env' = env
        BY <1>1 DEF HookGetsKey, HookGetsEcho, OnKey
    <2> QED BY <2>1, OnKeyEffect
<1>2. CASE HookStep
    <2>1. UNCHANGED <<env, enabled, driver, ui, closer, conn>>
        BY <1>2 DEF HookStep, HookSend, HookRemember, HookUndo, HookRepeatUp,
                    HookRepeatDown, HookRepeatNote, shared
    <2>2. plugged' = plugged /\ (~plugged => dev' = dev)
        BY <1>2, SendEffect DEF HookStep, HookSend, HookRemember, HookUndo, HookRepeatUp,
                    HookRepeatDown, HookRepeatNote, device, SendFails
    <2>3. enabled' \/ keyboard' = {}
        BY <1>2 DEF HookStep, HookSend, HookRemember, HookUndo, HookRepeatUp,
                    HookRepeatDown, HookRepeatNote, shared
    <2> QED BY <2>1, <2>2, <2>3
<1>3. CASE UiOn \/ UiOff
    BY <1>3 DEF UiOn, UiOff, MaySwitch, ClearKeys, device
<1>4. CASE UiLocks \/ UiBusy \/ UiDone
    BY <1>4 DEF UiLocks, UiBusy, UiDone, shared, device
<1>5. CASE UiReleases
    BY <1>5 DEF UiReleases, Delivered, TurnedDown, Takes, shared, device
<1>6. CASE CloseStops
    BY <1>6 DEF CloseStops, ClearKeys, device
<1>7. CASE CloseReleases
    BY <1>7, SendEffect DEF CloseReleases, shared
<1>8. CASE CloseUnplugs
    BY <1>8 DEF CloseUnplugs, shared
<1>9. CASE World
    <2>1. UNCHANGED <<env, enabled, driver, keyboard, ui, closer, conn, plugged, dev>>
        BY <1>9 DEF World, UserMoves, KeyRepeats, ModifierMovesElsewhere, EchoLapses,
                    shared, device
    <2> QED BY <2>1
<1>10. CASE UNCHANGED vars
    BY <1>10 DEF vars, shared, device
<1> HIDE DEF Custody
<1>11. CASE Next
    BY <1>1, <1>2, <1>3, <1>4, <1>5, <1>6, <1>7, <1>8, <1>9, <1>11 DEF Next, Ui, Close
<1> QED BY <1>10, <1>11
-----------------------------------------------------------------------------
\* The record and the device, when the switch leaves a running callback alone.

LEMMA InHandInit == Init => InHand
BY DEF Init, InHand, Releasing, Resting

LEMMA InHandNext == TypeOK /\ Custody /\ InHand /\ [Next]_vars => InHand'
<1> SUFFICES ASSUME TypeOK, Custody, InHand, [Next]_vars,
                    Without({"race", "refuse"})', driver'
             PROVE  InHand'
    BY DEF InHand
<1>0. /\ env' = env /\ Without({"race", "refuse"})
      /\ "race" \notin env /\ "refuse" \notin env
    <2>1. env' = env
        BY DEF Next, Ui, Close, World, HookStep, HookGetsKey, HookGetsEcho, OnKey, HookSend,
               HookRemember, HookUndo, HookRepeatUp, HookRepeatDown, HookRepeatNote, UiOn,
               UiOff, UiLocks, UiReleases, UiBusy, UiDone, CloseStops, CloseReleases,
               CloseUnplugs, UserMoves, KeyRepeats, ModifierMovesElsewhere, EchoLapses, vars
    <2> QED BY <2>1 DEF Without
<1> USE DEF Releasing
<1>a. Resting.pc = "idle"
    BY HookRecord
<1>1. CASE HookGetsKey \/ HookGetsEcho
    <2>1. PICK e : OnKey(e)
        BY <1>1 DEF HookGetsKey, HookGetsEcho
    <2> QED BY <1>0, <1>a, <2>1, OnKeyEffect DEF InHand, Custody
<1>2. CASE HookSend
    <2>1. /\ hook.pc = "send" /\ UNCHANGED <<enabled, driver, keyboard, ui, closer, conn>>
        BY <1>2 DEF HookSend, shared
    <2>2. CASE SendNow(hook.report) /\ At("remember")
        <3>1. dev' = hook.report /\ hook'.pc = "remember" /\ hook'.report = hook.report
            BY <2>2, HookMoves DEF SendNow, Delivered, Takes, HookPlaces
        <3> QED BY <1>0, <2>1, <3>1 DEF InHand
    <2>3. CASE SendFails /\ Pass(hook.event)
        <3>1. dev' = dev /\ hook' = Resting
            BY <2>3, HookMoves DEF SendFails, device
        <3> QED BY <1>0, <1>a, <2>1, <3>1 DEF InHand
    <2> QED BY <1>2, <2>2, <2>3 DEF HookSend
<1>3. CASE HookRemember
    <2>1. /\ hook.pc = "remember" /\ UNCHANGED <<enabled, driver, ui, closer, conn, dev>>
        BY <1>3 DEF HookRemember, device
    <2>2. enabled
        BY <1>0, <2>1 DEF InHand
    <2>3. keyboard' = hook.report /\ hook' = Resting
        BY <1>3, <2>2, HookMoves DEF HookRemember
    <2> QED BY <1>0, <1>a, <2>1, <2>2, <2>3 DEF InHand
<1>4. CASE HookUndo
    <2>1. /\ hook.pc = "undo" /\ hook' = Resting
          /\ UNCHANGED <<enabled, driver, keyboard, ui, closer, conn>>
        BY <1>4, HookMoves DEF HookUndo, shared
    <2>2. dev' = {} \/ dev' = dev
        BY <1>4, SendEffect DEF HookUndo
    <2> QED BY <1>0, <1>a, <2>1, <2>2 DEF InHand
<1>5. CASE HookRepeatUp
    <2>1. /\ hook.pc = "repeatUp" /\ hook'.pc = "repeatDown" /\ hook'.report = hook.report
          /\ UNCHANGED <<enabled, driver, keyboard, ui, closer, conn>>
        BY <1>5, HookMoves DEF HookRepeatUp, shared, HookPlaces
    <2>2. dev' = hook.report \ {hook.event.key} \/ dev' = dev
        BY <1>5, SendEffect DEF HookRepeatUp
    <2> QED BY <1>0, <2>1, <2>2 DEF InHand
<1>6. CASE HookRepeatDown
    <2>1. /\ hook.pc = "repeatDown"
          /\ UNCHANGED <<enabled, driver, keyboard, ui, closer, conn>>
        BY <1>6 DEF HookRepeatDown, shared
    <2>2. dev' = hook.report \/ dev' = dev
        BY <1>6, SendEffect DEF HookRepeatDown
    <2>3. hook' = Resting \/ (hook'.pc = "repeatNote" /\ hook'.report = hook.report)
        BY <1>6, HookMoves DEF HookRepeatDown, HookPlaces
    <2> QED BY <1>0, <1>a, <2>1, <2>2, <2>3 DEF InHand
<1>7. CASE HookRepeatNote
    <2>1. /\ hook.pc = "repeatNote" /\ hook' = Resting
          /\ UNCHANGED <<enabled, driver, keyboard, ui, closer, conn, dev>>
        BY <1>7, HookMoves DEF HookRepeatNote, device
    <2> QED BY <1>0, <1>a, <2>1 DEF InHand
<1>8. CASE UiOn
    BY <1>0, <1>8 DEF UiOn, MaySwitch, InHand, device
<1>9. CASE UiOff
    BY <1>0, <1>9 DEF UiOff, MaySwitch, ClearKeys, InHand, device
<1>10. CASE UiLocks \/ UiBusy \/ UiDone
    BY <1>0, <1>10 DEF UiLocks, UiBusy, UiDone, InHand, shared, device
<1>11. CASE UiReleases
    BY <1>0, <1>11 DEF UiReleases, Delivered, TurnedDown, Takes, InHand, Custody, shared, device
<1>12. CASE CloseStops \/ CloseReleases \/ CloseUnplugs
    BY <1>12 DEF CloseStops, CloseReleases, CloseUnplugs, Custody, shared
<1>13. CASE World
    BY <1>0, <1>13 DEF World, UserMoves, KeyRepeats, ModifierMovesElsewhere, EchoLapses,
                      InHand, shared, device
<1>14. CASE UNCHANGED vars
    BY <1>0, <1>14 DEF vars, InHand, shared, device
<1>15. CASE Next
    BY <1>1, <1>2, <1>3, <1>4, <1>5, <1>6, <1>7, <1>8, <1>9, <1>10, <1>11, <1>12, <1>13, <1>15
       DEF Next, HookStep, Ui, Close
<1> QED BY <1>14, <1>15
-----------------------------------------------------------------------------
\* A callback that has not sent anything, wherever the switch falls.

LEMMA ReachedInit == Init => Reached
BY DEF Init, Reached, Releasing, Resting

LEMMA ReachedNext == TypeOK /\ Custody /\ Reached /\ [Next]_vars => Reached'
<1> SUFFICES ASSUME TypeOK, Custody, Reached, [Next]_vars,
                    Without({"refuse"})', hook'.pc \in {"send", "repeatUp"}, ~enabled',
                    ~Releasing', closer' \in {"idle", "done"}
             PROVE  dev' = {}
    BY DEF Reached
<1> USE DEF Releasing
<1>1. CASE HookGetsKey \/ HookGetsEcho
    <2>1. PICK e : OnKey(e)
        BY <1>1 DEF HookGetsKey, HookGetsEcho
    <2> QED BY <2>1, OnKeyEffect, HookRecord
<1>2. CASE HookStep
    <2>1. hook'.pc \notin {"send", "repeatUp"}
        BY <1>2, HookMoves, HookRecord DEF HookStep, HookSend, HookRemember, HookUndo,
           HookRepeatUp, HookRepeatDown, HookRepeatNote, HookPlaces
    <2> QED BY <2>1
<1>3. CASE UiOn
    BY <1>3 DEF UiOn
<1>4. CASE UiOff
    BY <1>4 DEF UiOff, Custody, device
<1>5. CASE UiLocks \/ UiBusy \/ UiDone
    BY <1>5 DEF UiLocks, UiBusy, UiDone, Reached, Without, shared, device
<1>6. CASE UiReleases
    BY <1>6 DEF UiReleases, Delivered, TurnedDown, Takes, Custody, Without, shared, device
<1>7. CASE CloseStops \/ CloseReleases \/ CloseUnplugs
    BY <1>7 DEF CloseStops, CloseReleases, CloseUnplugs, Custody, shared
<1>8. CASE World
    <2>1. UNCHANGED <<env, enabled, driver, hook, ui, closer, dev>>
        BY <1>8 DEF World, UserMoves, KeyRepeats, ModifierMovesElsewhere, EchoLapses,
                    shared, device
    <2> QED BY <2>1 DEF Reached, Without
<1>9. CASE UNCHANGED vars
    BY <1>9 DEF vars, Reached, Without, shared, device
<1>10. CASE Next
    BY <1>1, <1>2, <1>3, <1>4, <1>5, <1>6, <1>7, <1>8, <1>10 DEF Next, Ui, Close
<1> QED BY <1>9, <1>10

-----------------------------------------------------------------------------
LEMMA IInvCorrect == Spec => []IInv
<1>1. Init => IInv
    BY CustodyInit, InHandInit, ReachedInit, TypeInit DEF IInv
<1>2. IInv /\ [Next]_vars => IInv'
    BY NextKeepsType, CustodyNext, InHandNext, ReachedNext DEF IInv
<1> QED BY <1>1, <1>2, PTL DEF Spec

\* What the virtual keyboard holds is in the record whenever nobody is in the
\* middle of anything, so the release of every such key will be replayed.
THEOREM RecordCovers == Spec => []RecordCoversDevice
<1>1. IInv => RecordCoversDevice
    <2> SUFFICES ASSUME IInv, Without({"race", "refuse"}), Settled
                 PROVE  dev \subseteq keyboard
        BY DEF RecordCoversDevice
    <2>1. CASE driver
        BY <2>1 DEF IInv, InHand, Settled, Releasing
    <2>2. CASE ~driver
        BY <2>2 DEF IInv, Custody, Settled
    <2> QED BY <2>1, <2>2
<1> QED BY <1>1, IInvCorrect, PTL

\* A redirect that is off holds nothing on the virtual keyboard.
THEOREM OffReleases == Spec => []OffReleasesAll
<1>1. IInv => OffReleasesAll
    <2>1. IInv => RecordCoversDevice
        <3> SUFFICES ASSUME IInv, Without({"race", "refuse"}), Settled
                     PROVE  dev \subseteq keyboard
            BY DEF RecordCoversDevice
        <3> QED BY DEF IInv, InHand, Custody, Settled, Releasing
    <2> QED BY <2>1 DEF IInv, Custody, OffReleasesAll, OffHoldsNothing, RecordCoversDevice
<1> QED BY <1>1, IInvCorrect, PTL

\* An undo that finds the lock taken is given up, and nothing is lost by it:
\* the thread that has the lock is about to send the same empty report.
THEOREM UndoKept == Spec => UndoIsNeverLost
<1>1. IInv /\ [Next]_vars =>
        [HookUndo /\ Without({"refuse", "contend"}) => dev' = {} \/ ui = "releasing"]_vars
    <2> SUFFICES ASSUME IInv, HookUndo, Without({"refuse", "contend"}), ui /= "releasing"
                 PROVE  dev' = {}
        OBVIOUS
    <2>1. conn = "free"
        BY DEF IInv, TypeOK, Custody, Without
    <2>2. "refuse" \notin env
        BY DEF Without
    <2>3. dev' = {} \/ ~plugged
        BY <2>1, <2>2, SendEffect DEF HookUndo
    <2>4. ~plugged => dev' = dev /\ dev = {}
        BY SendEffect DEF HookUndo, IInv, Custody
    <2> QED BY <2>3, <2>4
<1> QED BY <1>1, IInvCorrect, PTL DEF Spec, UndoIsNeverLost

\* Wherever the switch falls, only the end of a repeat can leave a key on the
\* virtual keyboard of a redirect that is off: every other way out of a
\* callback looks at keyboard_enabled again, or has sent nothing.
THEOREM OnlyRepeats == Spec => OnlyARepeatOutlivesOff
<1> DEFINE A == (Without({"refuse", "contend"}) /\ OffHoldsNothing /\ ~OffHoldsNothing')
                  => hook.pc = "repeatNote"
<1>1. IInv /\ [Next]_vars => [A]_vars
    <2> SUFFICES ASSUME IInv, Next, Without({"refuse", "contend"}), OffHoldsNothing,
                        hook'.pc = "idle", ui' \in {"idle", "busy"},
                        closer' \in {"idle", "done"}, ~enabled', dev' /= {}
                 PROVE  hook.pc = "repeatNote"
        BY DEF OffHoldsNothing, Settled
    <2>0. /\ ui /= "busy" /\ "refuse" \notin env
          /\ plugged \/ dev = {}
          /\ conn = "free" \/ ui = "releasing"
        BY DEF IInv, TypeOK, Custody, Without
    <2>1. CASE HookGetsKey \/ HookGetsEcho
        <3>1. PICK e : OnKey(e)
            BY <2>1 DEF HookGetsKey, HookGetsEcho
        <3> QED BY <3>1, OnKeyEffect DEF OffHoldsNothing, Settled
    <2>2. CASE HookSend
        <3>1. SendFails /\ hook.pc = "send" /\ UNCHANGED <<enabled, ui, closer, dev>>
            BY <2>2, HookMoves DEF HookSend, IInv, SendFails, shared, device, HookPlaces
        <3> QED BY <3>1 DEF IInv, Reached, Releasing, Without
    <2>3. CASE HookRemember
        <3>1. ~enabled /\ At("undo")
            BY <2>3 DEF HookRemember
        <3> QED BY <3>1, HookMoves DEF IInv, HookPlaces
    <2>4. CASE HookUndo
        <3>1. ui' = ui /\ closer' = closer
            BY <2>4 DEF HookUndo
        <3> QED BY <2>0, <2>4, <3>1, SendEffect DEF HookUndo
    <2>5. CASE HookRepeatUp
        BY <2>5, HookMoves DEF HookRepeatUp, IInv, HookPlaces
    <2>6. CASE HookRepeatDown
        <3>1. ui' = ui /\ ~At("repeatNote")
            BY <2>6, HookMoves DEF HookRepeatDown, IInv, HookPlaces
        <3>2. SendFails /\ dev' = dev
            BY <2>6, <3>1 DEF HookRepeatDown, SendFails, device
        <3> QED BY <2>0, <3>1, <3>2 DEF SendFails
    <2>7. CASE HookRepeatNote
        BY <2>7 DEF HookRepeatNote
    <2>8. CASE UiOn
        BY <2>8 DEF UiOn
    <2>9. CASE UiOff
        BY <2>9 DEF UiOff, IInv, Custody, device
    <2>10. CASE UiLocks \/ UiBusy \/ UiDone
        BY <2>0, <2>10 DEF UiLocks, UiBusy, UiDone, Without
    <2>11. CASE UiReleases
        BY <2>0, <2>11 DEF UiReleases, Delivered, TurnedDown, Takes, device
    <2>12. CASE CloseStops \/ CloseReleases \/ CloseUnplugs
        BY <2>12 DEF CloseStops, CloseReleases, CloseUnplugs, IInv, Custody, device
    <2>13. CASE World
        <3>1. UNCHANGED <<enabled, hook, ui, closer, dev>>
            BY <2>13 DEF World, UserMoves, KeyRepeats, ModifierMovesElsewhere, EchoLapses,
                         shared, device
        <3> QED BY <3>1 DEF OffHoldsNothing, Settled
    <2> QED BY <2>1, <2>2, <2>3, <2>4, <2>5, <2>6, <2>7, <2>8, <2>9, <2>10, <2>11, <2>12,
               <2>13 DEF Next, HookStep, Ui, Close
<1> QED BY <1>1, IInvCorrect, PTL DEF Spec, OnlyARepeatOutlivesOff

-----------------------------------------------------------------------------
(***************************************************************************)
(* Orderly sessions: the switch leaves a running callback alone, nobody    *)
(* else takes the connection lock and no report is refused, until the      *)
(* window closes.  Exact ties the device to the record, to the key and at  *)
(* every step of a callback.  Fresh counts the echoes: what is expected of *)
(* a key, with what the callback under way has sent and not counted yet,   *)
(* is in the queue of the virtual keyboard.                                *)
(***************************************************************************)
Orderly == Without({"race", "refuse", "contend"}) /\ driver

\* One key, pressed or released.
Key(k, d) == [key |-> k, down |-> d]

\* What the report of the callback under way makes of the record.
Pressing  == /\ hook.event.down /\ hook.event.key \notin keyboard
             /\ hook.report = keyboard \cup {hook.event.key}
Releases  == /\ ~hook.event.down /\ hook.event.key \in keyboard
             /\ hook.report = keyboard \ {hook.event.key}
Repeating == hook.event.down /\ hook.event.key \in keyboard /\ hook.report = keyboard

\* What the device holds.
Holds == IF hook.pc = "remember" THEN hook.report
         ELSE IF hook.pc = "repeatDown" THEN keyboard \ {hook.event.key}
         ELSE keyboard

Exact ==
    Orderly =>
        /\ hook.pc /= "undo"
        /\ hook.pc \in {"send", "remember"} => Pressing \/ Releases
        /\ hook.pc \in {"repeatUp", "repeatDown", "repeatNote"} => Repeating
        /\ ~enabled => \A s \in Slots : echo[s] = 0
        /\ ~Releasing => dev = Holds

\* The echoes already typed that the callback under way has still to count.
Due(s) ==
    IF \/ hook.pc = "remember" /\ s = Slot(hook.event)
       \/ hook.pc = "repeatDown" /\ s = <<hook.event.key, FALSE>>
       \/ hook.pc = "repeatNote" /\ s[1] = hook.event.key
    THEN 1 ELSE 0

Fresh ==
    Orderly => \A s \in Slots : echo[s] + Due(s) <= Count(virtQ, Key(s[1], s[2]))

-----------------------------------------------------------------------------
\* What the virtual keyboard types: one event for every key of the set.

Typed(keys, d) == SetToSeq([key : keys, down : {d}])

LEMMA KeyFacts ==
    /\ \A k \in AllKeys, d \in BOOLEAN :
          /\ Key(k, d) \in Event /\ Key(k, d).key = k /\ Key(k, d).down = d
          /\ Slot(Key(k, d)) = <<k, d>> /\ <<k, d>> \in Slots
    /\ \A e \in Event : e.key \in AllKeys /\ e.down \in BOOLEAN /\ Slot(e) \in Slots
                          /\ e = Key(e.key, e.down)
    /\ \A x, y \in Event : Slot(x) = Slot(y) => x = y
    /\ \A s \in Slots : Key(s[1], s[2]) \in Event /\ Slot(Key(s[1], s[2])) = s
BY DEF Key, Event, Slot, Slots

LEMMA QueuesAreEvents ==
    ASSUME TypeOK
    PROVE  virtQ \in Seq(Event) /\ physQ \in Seq(Event)
<1>1. [key : Keys, down : BOOLEAN] \subseteq Event
    BY DEF Event, AllKeys
<1> QED BY <1>1, SeqMonotonic DEF TypeOK

LEMMA TypedOnce ==
    ASSUME NEW keys \in SUBSET Keys, NEW d \in BOOLEAN
    PROVE  LET q == Typed(keys, d)
           IN  /\ q \in Seq(Event)
               /\ \A i \in 1..Len(q) : q[i] = Key(q[i].key, d) /\ q[i].key \in keys
               /\ \A i, j \in 1..Len(q) : q[i] = q[j] => i = j
               /\ \A k \in keys : \E i \in 1..Len(q) : q[i] = Key(k, d)
<1> DEFINE T == [key : keys, down : {d}]
           q == SetToSeq(T)
<1>1. IsFiniteSet(keys)
    BY KeysAssumption, FS_Subset
<1>2. IsFiniteSet(T)
    <2> DEFINE f == [k \in keys |-> Key(k, d)]
    <2>1. f \in [keys -> T]
        BY DEF Key
    <2>2. \A t \in T : \E k \in keys : f[k] = t
        <3> TAKE t \in T
        <3>1. t.key \in keys /\ t = Key(t.key, d)
            BY DEF Key
        <3> QED BY <3>1
    <2>3. f \in Surjection(keys, T)
        BY <2>1, <2>2, Zenon DEF Surjection
    <2> HIDE DEF f, T
    <2> QED BY <1>1, <2>3, FS_Surjection
<1>3. \A t \in T : t \in Event /\ t = Key(t.key, d) /\ t.key \in keys
    BY DEF Event, AllKeys, Key
<1>4. \A k \in keys : Key(k, d) \in T
    BY DEF Key
<1> HIDE DEF T
<1>5. /\ q \in Seq(T)
      /\ \A i, j \in 1..Len(q) : q[i] = q[j] => i = j
      /\ \A x \in T : \E i \in 1..Len(q) : q[i] = x
    BY <1>2, SetToSeqOnce
<1> HIDE DEF q
<1>6. \A i \in 1..Len(q) : q[i] \in T
    BY <1>5, ElementOfSeq
<1>7. q \in Seq(Event)
    BY <1>3, <1>5, SeqMonotonic
<1>8. q = Typed(keys, d)
    BY DEF q, T, Typed
<1> QED BY <1>3, <1>4, <1>5, <1>6, <1>7, <1>8

LEMMA TypedCount ==
    ASSUME NEW keys \in SUBSET Keys, NEW d \in BOOLEAN, NEW e \in Event
    PROVE  Count(Typed(keys, d), e) = IF e.key \in keys /\ e.down = d THEN 1 ELSE 0
<1> DEFINE q == Typed(keys, d)
<1>1. /\ q \in Seq(Event)
      /\ \A i \in 1..Len(q) : q[i] = Key(q[i].key, d) /\ q[i].key \in keys
      /\ \A i, j \in 1..Len(q) : q[i] = q[j] => i = j
      /\ \A k \in keys : \E i \in 1..Len(q) : q[i] = Key(k, d)
    BY TypedOnce
<1> HIDE DEF q
<1>2. CASE e.key \in keys /\ e.down = d
    <2>1. PICK k \in 1..Len(q) : q[k] = e
        BY <1>1, <1>2, KeyFacts
    <2> QED BY <1>1, <1>2, <2>1, CountOne DEF q
<1>3. CASE ~(e.key \in keys /\ e.down = d)
    <2>1. \A i \in 1..Len(q) : q[i] /= e
        <3> SUFFICES ASSUME NEW i \in 1..Len(q), q[i] = e
                     PROVE  FALSE
            OBVIOUS
        <3>1. e.key \in keys /\ e = Key(e.key, d)
            BY <1>1
        <3>2. e.down = d
            BY <3>1 DEF Key
        <3> QED BY <1>3, <3>1, <3>2
    <2>2. ~(Count(q, e) > 0)
        BY <1>1, <2>1, CountPositive
    <2>3. Count(q, e) \in Nat
        BY <1>1, CountType
    <2>4. Count(q, e) = 0
        BY <2>2, <2>3
    <2> QED BY <1>3, <2>4 DEF q
<1> QED BY <1>2, <1>3

\* What a report adds to the count of an event waiting for the hook.
LEMMA TakesCount ==
    ASSUME TypeOK, NEW report \in SUBSET Keys, Takes(report), NEW e \in Event
    PROVE  Count(virtQ, e)' = Count(virtQ, e)
             + IF e.key \in (IF e.down THEN report \ dev ELSE dev \ report) THEN 1 ELSE 0
<1> DEFINE ups == Typed(dev \ report, FALSE)
           downs == Typed(report \ dev, TRUE)
<1>1. dev \in SUBSET Keys /\ virtQ \in Seq(Event)
    BY QueuesAreEvents DEF TypeOK
<1>2. ups \in Seq(Event) /\ downs \in Seq(Event) /\ virtQ \o ups \in Seq(Event)
    BY <1>1, TypedOnce, ConcatProperties
<1>3. Count(ups, e) = IF e.key \in dev \ report /\ e.down = FALSE THEN 1 ELSE 0
    BY <1>1, TypedCount
<1>4. Count(downs, e) = IF e.key \in report \ dev /\ e.down = TRUE THEN 1 ELSE 0
    BY <1>1, TypedCount
<1>5. virtQ' = virtQ \o ups \o downs
    BY DEF Takes, Ups, Downs, Typed
<1> HIDE DEF ups, downs
<1>6. Count(virtQ \o ups \o downs, e) = Count(virtQ \o ups, e) + Count(downs, e)
    BY <1>2, CountConcat
<1>7. Count(virtQ \o ups, e) = Count(virtQ, e) + Count(ups, e)
    BY <1>1, <1>2, CountConcat
<1>8. Count(virtQ, e) \in Nat
    BY <1>1, CountType
<1>9. Count(virtQ, e)' = Count(virtQ \o ups \o downs, e)
    BY <1>5
<1>10. CASE e.down
    <2>1. e.down = TRUE
        BY <1>10, KeyFacts
    <2> QED BY <1>3, <1>4, <1>6, <1>7, <1>8, <1>9, <2>1
<1>11. CASE ~e.down
    <2>1. e.down = FALSE
        BY <1>11, KeyFacts
    <2> QED BY <1>3, <1>4, <1>6, <1>7, <1>8, <1>9, <2>1
<1> QED BY <1>10, <1>11

-----------------------------------------------------------------------------
\* One event at the hook: it passes, it is replayed, or it repeats a held key.

Passed(e) ==
    /\ hook'.pc = "idle"
    /\ apps' = IF e.down THEN apps \cup {e.key} ELSE apps \ {e.key}
    /\ ~enabled \/ Matches(Slot(e)) \/ e.down \/ e.key \notin keyboard

Replayed(e) ==
    /\ enabled /\ ~Matches(Slot(e))
    /\ hook'.pc = "send" /\ hook'.event = e
    /\ \/ /\ e.down /\ e.key \notin keyboard
          /\ hook'.report = keyboard \cup {e.key}
       \/ /\ ~e.down /\ e.key \in keyboard
          /\ hook'.report = keyboard \ {e.key}
    /\ apps' = apps

HeldOn(e) ==
    /\ enabled /\ ~Matches(Slot(e))
    /\ hook'.pc = "repeatUp" /\ hook'.event = e /\ hook'.report = keyboard
    /\ e.down /\ e.key \in keyboard
    /\ apps' = apps

\* What is left of the echo owed for the event.
Left(e) == IF Matches(Slot(e)) THEN echo[Slot(e)] - 1 ELSE 0

LEMMA OnKeyOutcome ==
    ASSUME TypeOK, NEW e \in Event, OnKey(e), driver
    PROVE  /\ hook.pc = "idle"
           /\ UNCHANGED <<env, enabled, driver, keyboard, ui, closer, conn, plugged, dev, phys>>
           /\ Passed(e) \/ Replayed(e) \/ HeldOn(e)
           /\ echo' = IF enabled THEN [echo EXCEPT ![Slot(e)] = Left(e)] ELSE echo
           /\ stale' \subseteq stale
<1>1. /\ hook.pc = "idle"
      /\ UNCHANGED <<env, enabled, driver, keyboard, ui, closer, conn, plugged, dev, phys>>
    BY OnKeyEffect DEF OnKey
<1>2. Pass(e) => /\ hook'.pc = "idle"
                 /\ apps' = IF e.down THEN apps \cup {e.key} ELSE apps \ {e.key}
    BY HookRecord DEF Pass
<1>3. CASE enabled /\ DecideKey(e)
    <2>1. echo' = [echo EXCEPT ![Slot(e)] = Left(e)] /\ stale' \subseteq stale
        BY <1>3 DEF DecideKey, Take, Left
    <2>2. CASE Matches(Slot(e)) /\ Pass(e)
        BY <1>1, <1>2, <1>3, <2>1, <2>2 DEF Passed
    <2>3. CASE e.key \in Mods /\ Pass(e)
        <3>1. e.key \notin keyboard
            BY <2>3, KeysAssumption DEF TypeOK
        <3> QED BY <1>1, <1>2, <1>3, <2>1, <2>3, <3>1 DEF Passed
    <2>4. CASE ~Matches(Slot(e)) /\ DecidePress(e)
        <3>1. e.down
            BY <2>4 DEF DecidePress
        <3>2. CASE Pass(e)
            BY <1>1, <1>2, <1>3, <2>1, <3>1, <3>2 DEF Passed
        <3>3. CASE e.key \in keyboard /\ Proceed("repeatUp", e, keyboard)
            BY <1>1, <1>3, <2>1, <2>4, <3>1, <3>3 DEF HeldOn, Proceed
        <3>4. CASE e.key \notin keyboard /\ Proceed("send", e, keyboard \cup {e.key})
            BY <1>1, <1>3, <2>1, <2>4, <3>1, <3>4 DEF Replayed, Proceed
        <3> QED BY <2>4, <3>2, <3>3, <3>4 DEF DecidePress
    <2>5. CASE ~Matches(Slot(e)) /\ DecideRelease(e)
        <3>1. ~e.down
            BY <2>5 DEF DecideRelease
        <3>2. CASE e.key \in keyboard /\ Proceed("send", e, keyboard \ {e.key})
            BY <1>1, <1>3, <2>1, <2>5, <3>1, <3>2 DEF Replayed, Proceed
        <3>3. CASE e.key \notin keyboard /\ Pass(e)
            BY <1>1, <1>2, <1>3, <2>1, <3>3 DEF Passed
        <3> QED BY <2>5, <3>2, <3>3 DEF DecideRelease
    <2> QED BY <1>3, <2>2, <2>3, <2>4, <2>5 DEF DecideKey
<1>4. CASE ~enabled /\ Pass(e) /\ UNCHANGED shared
    BY <1>1, <1>2, <1>4 DEF shared, Passed
<1> QED BY <1>3, <1>4 DEF OnKey

-----------------------------------------------------------------------------
\* An orderly session was orderly before, and its reports arrive.

LEMMA OrderlyBefore ==
    ASSUME TypeOK, Custody, [Next]_vars, Orderly'
    PROVE  Orderly /\ env' = env /\ closer = "idle" /\ closer' = "idle"
<1>1. env' = env
    BY DEF Next, Ui, Close, World, HookStep, HookGetsKey, HookGetsEcho, OnKey, HookSend,
           HookRemember, HookUndo, HookRepeatUp, HookRepeatDown, HookRepeatNote, UiOn,
           UiOff, UiLocks, UiReleases, UiBusy, UiDone, CloseStops, CloseReleases,
           CloseUnplugs, UserMoves, KeyRepeats, ModifierMovesElsewhere, EchoLapses, vars
<1>2. driver' => driver
    <2>1. ASSUME NEW e, OnKey(e) PROVE driver' = driver
        BY <2>1, OnKeyEffect
    <2> QED BY <2>1
            DEF Next, Ui, Close, World, HookStep, HookGetsKey, HookGetsEcho, HookSend,
           HookRemember, HookUndo, HookRepeatUp, HookRepeatDown, HookRepeatNote, UiOn,
           UiOff, UiLocks, UiReleases, UiBusy, UiDone, CloseStops, CloseReleases,
           CloseUnplugs, UserMoves, KeyRepeats, ModifierMovesElsewhere, EchoLapses, vars, shared
<1>3. Custody'
    BY CustodyNext
<1> QED BY <1>1, <1>2, <1>3 DEF Orderly, Without, Custody

LEMMA OrderlyFacts ==
    ASSUME TypeOK, Custody, InHand, Orderly
    PROVE  /\ plugged /\ closer = "idle" /\ ui /= "busy"
           /\ {"race", "refuse", "contend"} \cap env = {}
           /\ hook.pc /= "idle" => enabled /\ ~Releasing /\ conn = "free"
<1>1. {"race", "refuse", "contend"} \cap env = {} /\ driver /\ Without({"race", "refuse"})
    BY DEF Orderly, Without
<1> QED BY <1>1 DEF Custody, InHand, Releasing, TypeOK

LEMMA OrderlySends ==
    ASSUME TypeOK, Custody, InHand, Orderly, hook.pc /= "idle"
    PROVE  /\ ~SendFails
           /\ \A report : SendNow(report) <=> Takes(report)
BY OrderlyFacts DEF SendFails, SendNow, Delivered

LEMMA OrderlyReleases ==
    ASSUME TypeOK, Custody, InHand, Orderly, UiReleases
    PROVE  Takes({}) /\ ui' = "idle" /\ hook.pc = "idle" /\ ~enabled /\ keyboard = {}
BY OrderlyFacts DEF UiReleases, Delivered, TurnedDown, Releasing, Custody

\* The four places of a callback at which it sends, and what they become.
LEMMA CallbackGoesOn ==
    ASSUME TypeOK, Custody, InHand, Orderly, Exact, HookStep
    PROVE  /\ UNCHANGED <<env, enabled, driver, ui, closer, conn, phys, physQ, apps>>
           /\ \/ /\ hook.pc = "send" /\ hook'.pc = "remember" /\ Takes(hook.report)
                 /\ hook'.event = hook.event /\ hook'.report = hook.report
                 /\ UNCHANGED <<keyboard, echo, stale>>
              \/ /\ hook.pc = "remember" /\ hook'.pc = "idle" /\ keyboard' = hook.report
                 /\ ExpectAll({Slot(hook.event)}) /\ UNCHANGED <<dev, virtQ>>
              \/ /\ hook.pc = "repeatUp" /\ hook'.pc = "repeatDown"
                 /\ Takes(hook.report \ {hook.event.key})
                 /\ hook'.event = hook.event /\ hook'.report = hook.report
                 /\ UNCHANGED <<keyboard, echo, stale>>
              \/ /\ hook.pc = "repeatDown" /\ hook'.pc = "repeatNote" /\ Takes(hook.report)
                 /\ hook'.event = hook.event /\ hook'.report = hook.report
                 /\ UNCHANGED <<keyboard, echo, stale>>
              \/ /\ hook.pc = "repeatNote" /\ hook'.pc = "idle"
                 /\ ExpectAll({hook.event.key} \X BOOLEAN)
                 /\ UNCHANGED <<keyboard, dev, virtQ>>
<1>1. hook.pc /= "undo" /\ (hook.pc /= "idle" => enabled)
    BY OrderlyFacts DEF Exact
<1>2. \A pc \in HookPlaces : At(pc) => /\ hook'.pc = pc /\ hook'.event = hook.event
                                       /\ hook'.report = hook.report /\ apps' = apps
    BY HookMoves DEF At
<1>3. Swallow => hook'.pc = "idle" /\ apps' = apps
    BY HookRecord DEF Swallow
<1>4. CASE HookSend
    BY <1>2, <1>4, OrderlySends DEF HookSend, HookPlaces, shared, user
<1>5. CASE HookRemember
    BY <1>1, <1>3, <1>5 DEF HookRemember, device, user
<1>6. CASE HookUndo
    BY <1>1, <1>6 DEF HookUndo
<1>7. CASE HookRepeatUp
    BY <1>2, <1>7, OrderlySends DEF HookRepeatUp, HookPlaces, shared, user
<1>8. CASE HookRepeatDown
    BY <1>2, <1>8, OrderlySends DEF HookRepeatDown, HookPlaces, shared, user
<1>9. CASE HookRepeatNote
    BY <1>3, <1>9 DEF HookRepeatNote, device, user
<1> QED BY <1>4, <1>5, <1>6, <1>7, <1>8, <1>9 DEF HookStep

-----------------------------------------------------------------------------
\* The device follows the record, to the key.

LEMMA ExactInit == Init => Exact
BY DEF Init, Exact, Resting, Holds

LEMMA ExactNext == TypeOK /\ Custody /\ InHand /\ Exact /\ [Next]_vars => Exact'
<1> SUFFICES ASSUME TypeOK, Custody, InHand, Exact, [Next]_vars, Orderly'
             PROVE  Exact'
    BY DEF Exact
<1>1. Orderly /\ env' = env /\ driver /\ closer = "idle" /\ closer' = "idle"
    BY OrderlyBefore DEF Orderly
<1>2. CASE HookGetsKey \/ HookGetsEcho
    <2>1. PICK e \in Event : OnKey(e)
        BY <1>2, QueuesAreEvents, HeadTailProperties DEF HookGetsKey, HookGetsEcho
    <2>2. /\ hook.pc = "idle" /\ UNCHANGED <<enabled, keyboard, ui, dev>>
          /\ Passed(e) \/ Replayed(e) \/ HeldOn(e)
          /\ echo' = IF enabled THEN [echo EXCEPT ![Slot(e)] = Left(e)] ELSE echo
        BY <1>1, <2>1, OnKeyOutcome
    <2>3. ~enabled' => \A s \in Slots : echo'[s] = 0
        BY <1>1, <2>2 DEF Exact
    <2>4. ~Releasing' => dev' = keyboard'
        BY <1>1, <2>2 DEF Exact, Holds, Releasing
    <2>5. CASE Passed(e)
        BY <2>3, <2>4, <2>5 DEF Exact, Holds, Passed
    <2>6. CASE Replayed(e)
        BY <2>2, <2>3, <2>4, <2>6 DEF Exact, Holds, Replayed, Pressing, Releases
    <2>7. CASE HeldOn(e)
        BY <2>2, <2>3, <2>4, <2>7 DEF Exact, Holds, HeldOn, Repeating
    <2> QED BY <2>2, <2>5, <2>6, <2>7
<1>3. CASE HookStep
    <2>1. /\ hook.pc /= "idle" => enabled /\ ~Releasing
          /\ Releasing' = Releasing /\ enabled' = enabled
        BY <1>1, <1>3, OrderlyFacts, CallbackGoesOn DEF Releasing
    <2>2. CASE hook.pc = "send"
        <3>1. /\ hook'.pc = "remember" /\ dev' = hook.report
              /\ hook'.event = hook.event /\ hook'.report = hook.report /\ keyboard' = keyboard
            BY <1>1, <1>3, <2>2, CallbackGoesOn DEF Takes
        <3> QED BY <1>1, <2>1, <2>2, <3>1 DEF Exact, Holds, Pressing, Releases
    <2>3. CASE hook.pc = "remember"
        <3>1. hook'.pc = "idle" /\ keyboard' = hook.report /\ dev' = dev
            BY <1>1, <1>3, <2>3, CallbackGoesOn
        <3> QED BY <1>1, <2>1, <2>3, <3>1 DEF Exact, Holds
    <2>4. CASE hook.pc = "repeatUp"
        <3>1. /\ hook'.pc = "repeatDown" /\ dev' = hook.report \ {hook.event.key}
              /\ hook'.event = hook.event /\ hook'.report = hook.report /\ keyboard' = keyboard
            BY <1>1, <1>3, <2>4, CallbackGoesOn DEF Takes
        <3> QED BY <1>1, <2>1, <2>4, <3>1 DEF Exact, Holds, Repeating
    <2>5. CASE hook.pc = "repeatDown"
        <3>1. /\ hook'.pc = "repeatNote" /\ dev' = hook.report
              /\ hook'.event = hook.event /\ hook'.report = hook.report /\ keyboard' = keyboard
            BY <1>1, <1>3, <2>5, CallbackGoesOn DEF Takes
        <3> QED BY <1>1, <2>1, <2>5, <3>1 DEF Exact, Holds, Repeating
    <2>6. CASE hook.pc = "repeatNote"
        <3>1. hook'.pc = "idle" /\ keyboard' = keyboard /\ dev' = dev
            BY <1>1, <1>3, <2>6, CallbackGoesOn
        <3> QED BY <1>1, <2>1, <2>6, <3>1 DEF Exact, Holds
    <2> QED BY <1>1, <1>3, <2>2, <2>3, <2>4, <2>5, <2>6, CallbackGoesOn
<1>4. CASE UiOn
    <2>1. hook.pc = "idle" /\ ~Releasing /\ ~Releasing' /\ enabled'
          /\ UNCHANGED <<hook, keyboard, dev>>
        BY <1>1, <1>4 DEF UiOn, MaySwitch, Orderly, Without, Releasing, device
    <2> QED BY <1>1, <2>1 DEF Exact, Holds
<1>5. CASE UiOff
    <2>1. /\ hook' = hook /\ hook.pc = "idle" /\ Releasing'
          /\ \A s \in Slots : echo'[s] = 0
        BY <1>1, <1>5 DEF UiOff, MaySwitch, Orderly, Without, Releasing, ClearKeys
    <2> QED BY <1>1, <2>1 DEF Exact
<1>6. CASE UiLocks
    <2>1. Releasing /\ Releasing' /\ UNCHANGED <<hook, keyboard, echo, enabled>>
        BY <1>6 DEF UiLocks, Releasing, shared
    <2> QED BY <1>1, <2>1 DEF Exact, Pressing, Releases, Repeating
<1>7. CASE UiReleases
    <2>1. /\ hook' = hook /\ hook.pc = "idle" /\ ~enabled /\ keyboard = {} /\ dev' = {}
          /\ UNCHANGED <<keyboard, echo, enabled>>
        BY <1>1, <1>7, OrderlyReleases DEF UiReleases, shared, Takes
    <2> QED BY <1>1, <2>1 DEF Exact, Holds
<1>8. CASE UiBusy \/ UiDone
    BY <1>1, <1>8 DEF UiBusy, UiDone, Custody, Orderly, Without
<1>9. CASE Close
    BY <1>1, <1>9 DEF Close, CloseStops, CloseReleases, CloseUnplugs, Orderly
<1>10. CASE World \/ UNCHANGED vars
    <2>1. UNCHANGED <<hook, keyboard, echo, enabled, dev, ui>>
        BY <1>10 DEF World, UserMoves, KeyRepeats, ModifierMovesElsewhere, EchoLapses,
                     shared, device, vars
    <2> QED BY <1>1, <2>1 DEF Exact, Holds, Releasing, Pressing, Releases, Repeating
<1>11. CASE Next
    BY <1>2, <1>3, <1>4, <1>5, <1>6, <1>7, <1>8, <1>9, <1>10, <1>11 DEF Next, Ui
<1> QED BY <1>10, <1>11

-----------------------------------------------------------------------------
\* No more echoes are expected than wait in the queue.

\* A report of the callback puts one event of its key there.
LEMMA CallbackTypes ==
    ASSUME TypeOK, Orderly, Exact, ~Releasing, NEW s \in Slots
    PROVE  /\ hook.pc = "send" /\ Takes(hook.report) =>
                Count(virtQ, Key(s[1], s[2]))' = Count(virtQ, Key(s[1], s[2]))
                     + IF s = Slot(hook.event) THEN 1 ELSE 0
           /\ hook.pc = "repeatUp" /\ Takes(hook.report \ {hook.event.key}) =>
                Count(virtQ, Key(s[1], s[2]))' = Count(virtQ, Key(s[1], s[2]))
                     + IF s = <<hook.event.key, FALSE>> THEN 1 ELSE 0
           /\ hook.pc = "repeatDown" /\ Takes(hook.report) =>
                Count(virtQ, Key(s[1], s[2]))' = Count(virtQ, Key(s[1], s[2]))
                     + IF s = <<hook.event.key, TRUE>> THEN 1 ELSE 0
<1> DEFINE x == Key(s[1], s[2])
           k == hook.event.key
           added(report) == s[1] \in (IF s[2] THEN report \ dev ELSE dev \ report)
<1>1. hook.event \in Event /\ hook.report \in SUBSET Keys /\ dev = Holds
    BY DEF TypeOK, Exact
<1>2. \A report \in SUBSET Keys : Takes(report) =>
         Count(virtQ, x)' = Count(virtQ, x) + IF added(report) THEN 1 ELSE 0
    <2>1. x \in Event /\ x.key = s[1] /\ x.down = s[2]
        BY KeyFacts DEF Key
    <2> QED BY <2>1, TakesCount
<1>3. \A d \in BOOLEAN, j \in AllKeys : s = <<j, d>> <=> s[1] = j /\ s[2] = d
    BY DEF Slots
<1>4. s[2] \in BOOLEAN
    BY DEF Slots
<1>5. ASSUME hook.pc = "send", Takes(hook.report)
      PROVE  added(hook.report) <=> s = Slot(hook.event)
    <2>1. Pressing \/ Releases
        BY <1>5 DEF Exact
    <2>2. dev = keyboard
        BY <1>1, <1>5 DEF Holds
    <2>3. s = Slot(hook.event) <=> s[1] = k /\ s[2] = hook.event.down
        BY <1>1, <1>3, KeyFacts DEF Slot
    <2>4. CASE Pressing
        <3>1. hook.event.down = TRUE /\ hook.report \ dev = {k} /\ dev \ hook.report = {}
            BY <1>1, <2>2, <2>4, KeyFacts DEF Pressing
        <3> QED BY <1>4, <2>3, <3>1
    <2>5. CASE Releases
        <3>1. hook.event.down = FALSE /\ hook.report \ dev = {} /\ dev \ hook.report = {k}
            BY <1>1, <2>2, <2>5, KeyFacts DEF Releases
        <3> QED BY <1>4, <2>3, <3>1
    <2> QED BY <2>1, <2>4, <2>5
<1>6. ASSUME hook.pc = "repeatUp", Takes(hook.report \ {k})
      PROVE  added(hook.report \ {k}) <=> s = <<k, FALSE>>
    <2>1. Repeating /\ dev = keyboard
        BY <1>1, <1>6 DEF Exact, Holds
    <2>2. (hook.report \ {k}) \ dev = {} /\ dev \ (hook.report \ {k}) = {k}
        BY <2>1 DEF Repeating
    <2>3. s = <<k, FALSE>> <=> s[1] = k /\ s[2] = FALSE
        BY <1>1, <1>3, KeyFacts
    <2> QED BY <1>4, <2>2, <2>3
<1>7. ASSUME hook.pc = "repeatDown", Takes(hook.report)
      PROVE  added(hook.report) <=> s = <<k, TRUE>>
    <2>1. Repeating /\ dev = keyboard \ {k}
        BY <1>1, <1>7 DEF Exact, Holds
    <2>2. hook.report \ dev = {k} /\ dev \ hook.report = {}
        BY <2>1 DEF Repeating
    <2>3. s = <<k, TRUE>> <=> s[1] = k /\ s[2] = TRUE
        BY <1>1, <1>3, KeyFacts
    <2> QED BY <1>4, <2>2, <2>3
<1>8. hook.report \ {k} \in SUBSET Keys
    BY <1>1
<1> HIDE DEF added, x, k
<1>9. /\ hook.pc = "send" /\ Takes(hook.report) =>
           Count(virtQ, x)' = Count(virtQ, x) + IF s = Slot(hook.event) THEN 1 ELSE 0
      /\ hook.pc = "repeatUp" /\ Takes(hook.report \ {k}) =>
           Count(virtQ, x)' = Count(virtQ, x) + IF s = <<k, FALSE>> THEN 1 ELSE 0
      /\ hook.pc = "repeatDown" /\ Takes(hook.report) =>
           Count(virtQ, x)' = Count(virtQ, x) + IF s = <<k, TRUE>> THEN 1 ELSE 0
    BY <1>1, <1>2, <1>5, <1>6, <1>7, <1>8
<1> QED BY <1>9 DEF x, k

LEMMA DueAtRest ==
    ASSUME hook.pc \in {"idle", "send", "repeatUp"}, NEW s
    PROVE  Due(s) = 0
BY DEF Due

\* The counts that change while a callback runs, one step at a time.
LEMMA CallbackCounts ==
    ASSUME TypeOK, Custody, InHand, Orderly, Exact, HookStep, NEW s \in Slots,
           echo[s] + Due(s) <= Count(virtQ, Key(s[1], s[2]))
    PROVE  echo'[s] + Due(s)' <= Count(virtQ, Key(s[1], s[2]))'
<1> DEFINE n == Count(virtQ, Key(s[1], s[2]))
           k == hook.event.key
<1>1. n \in Nat /\ echo[s] \in 0..MaxPending /\ MaxPending \in Nat
    BY QueuesAreEvents, CountType, LimitsAssumption DEF TypeOK
<1>2. \A m \in 0..MaxPending : Grown(m) \in Nat /\ Grown(m) <= m + 1
    BY LimitsAssumption DEF Grown
<1>3. ~Releasing /\ hook.event \in Event
    BY OrderlyFacts DEF HookStep, HookSend, HookRemember, HookUndo, HookRepeatUp,
       HookRepeatDown, HookRepeatNote, TypeOK
<1>4. /\ (s = <<k, TRUE>> \/ s = <<k, FALSE>>) <=> s[1] = k
      /\ ~(s = <<k, TRUE>> /\ s = <<k, FALSE>>)
    <2>1. \A d \in BOOLEAN : s = <<k, d>> <=> s[1] = k /\ s[2] = d
        BY DEF Slots
    <2>2. s[2] = TRUE \/ s[2] = FALSE
        BY DEF Slots
    <2> HIDE DEF k
    <2> QED BY <2>1, <2>2
<1>5. echo[s] + Due(s) <= n
    OBVIOUS
<1> SUFFICES echo'[s] + Due(s)' <= n'
    OBVIOUS
<1> HIDE DEF n, k
<1>6. CASE hook.pc = "send"
    <2>1. n' = n + IF s = Slot(hook.event) THEN 1 ELSE 0
        BY <1>3, <1>6, CallbackGoesOn, CallbackTypes DEF n
    <2>2. Due(s) = 0 /\ Due(s)' = (IF s = Slot(hook.event) THEN 1 ELSE 0) /\ echo' = echo
        BY <1>6, CallbackGoesOn DEF Due, Slot
    <2> QED BY <1>1, <1>5, <2>1, <2>2
<1>7. CASE hook.pc = "remember"
    <2>1. n' = n /\ ExpectAll({Slot(hook.event)}) /\ hook'.pc = "idle"
        BY <1>7, CallbackGoesOn DEF n
    <2>2. Due(s)' = 0 /\ Due(s) = IF s = Slot(hook.event) THEN 1 ELSE 0
        BY <1>7, <2>1 DEF Due
    <2>3. echo'[s] = IF s = Slot(hook.event) THEN Grown(echo[s]) ELSE echo[s]
        BY <2>1 DEF ExpectAll
    <2>4. Grown(echo[s]) \in Nat /\ Grown(echo[s]) <= echo[s] + 1
        BY <1>1, <1>2
    <2> QED BY <1>1, <1>5, <2>1, <2>2, <2>3, <2>4
<1>8. CASE hook.pc = "repeatUp"
    <2>1. n' = n + IF s = <<k, FALSE>> THEN 1 ELSE 0
        BY <1>3, <1>8, CallbackGoesOn, CallbackTypes DEF n, k
    <2>2. Due(s) = 0 /\ Due(s)' = (IF s = <<k, FALSE>> THEN 1 ELSE 0) /\ echo' = echo
        BY <1>8, CallbackGoesOn DEF Due, k
    <2>3. CASE s = <<k, FALSE>>
        <3>1. n' = n + 1 /\ Due(s) = 0 /\ Due(s)' = 1 /\ echo'[s] = echo[s]
            BY <2>1, <2>2, <2>3
        <3> QED BY <1>1, <1>5, <3>1
    <2>4. CASE s /= <<k, FALSE>>
        <3>1. n' = n + 0 /\ Due(s) = 0 /\ Due(s)' = 0 /\ echo'[s] = echo[s]
            BY <2>1, <2>2, <2>4
        <3> QED BY <1>1, <1>5, <3>1
    <2> QED BY <2>3, <2>4
<1>9. CASE hook.pc = "repeatDown"
    <2>1. n' = n + IF s = <<k, TRUE>> THEN 1 ELSE 0
        BY <1>3, <1>9, CallbackGoesOn, CallbackTypes DEF n, k
    <2>2. /\ Due(s) = IF s = <<k, FALSE>> THEN 1 ELSE 0
          /\ Due(s)' = IF s[1] = k THEN 1 ELSE 0
          /\ echo' = echo
        BY <1>9, CallbackGoesOn DEF Due, k
    <2>3. CASE s[1] /= k
        <3>1. n' = n + 0 /\ Due(s) = 0 /\ Due(s)' = 0 /\ echo'[s] = echo[s]
            BY <1>4, <2>1, <2>2, <2>3
        <3> QED BY <1>1, <1>5, <3>1
    <2>4. CASE s = <<k, FALSE>>
        <3>1. n' = n /\ Due(s) = 1 /\ Due(s)' = 1 /\ echo'[s] = echo[s]
            BY <1>1, <1>4, <2>1, <2>2, <2>4
        <3> QED BY <1>1, <1>5, <3>1
    <2>5. CASE s = <<k, TRUE>>
        <3>1. n' = n + 1 /\ Due(s) = 0 /\ Due(s)' = 1 /\ echo'[s] = echo[s]
            BY <1>1, <1>4, <2>1, <2>2, <2>5
        <3> QED BY <1>1, <1>5, <3>1
    <2> QED BY <1>4, <2>3, <2>4, <2>5
<1>10. CASE hook.pc = "repeatNote"
    <2>1. n' = n /\ ExpectAll({k} \X BOOLEAN) /\ hook'.pc = "idle"
        BY <1>10, CallbackGoesOn DEF n, k
    <2>2. Due(s)' = 0 /\ Due(s) = IF s[1] = k THEN 1 ELSE 0
        BY <1>10, <2>1 DEF Due, k
    <2>3. echo'[s] = IF s \in {k} \X BOOLEAN THEN Grown(echo[s]) ELSE echo[s]
        BY <2>1 DEF ExpectAll
    <2>4. s \in {k} \X BOOLEAN <=> s[1] = k
        BY DEF Slots
    <2>5. Grown(echo[s]) \in Nat /\ Grown(echo[s]) <= echo[s] + 1
        BY <1>1, <1>2
    <2> QED BY <1>1, <1>5, <2>1, <2>2, <2>3, <2>4, <2>5
<1> QED BY <1>6, <1>7, <1>8, <1>9, <1>10, CallbackGoesOn

LEMMA FreshInit == Init => Fresh
<1> SUFFICES ASSUME Init, NEW s \in Slots
             PROVE  echo[s] + Due(s) <= Count(virtQ, Key(s[1], s[2]))
    BY DEF Fresh
<1>1. echo[s] = 0 /\ hook.pc = "idle" /\ virtQ = <<>>
    BY HookRecord DEF Init
<1>2. Due(s) = 0 /\ Count(virtQ, Key(s[1], s[2])) = 0
    BY <1>1, DueAtRest, CountEmpty
<1> QED BY <1>1, <1>2

LEMMA FreshNext == TypeOK /\ Custody /\ InHand /\ Exact /\ Fresh /\ [Next]_vars => Fresh'
<1> SUFFICES ASSUME TypeOK, Custody, InHand, Exact, Fresh, [Next]_vars, Orderly',
                    NEW s \in Slots
             PROVE  echo'[s] + Due(s)' <= Count(virtQ, Key(s[1], s[2]))'
    BY DEF Fresh
<1> DEFINE x == Key(s[1], s[2])
           n == Count(virtQ, x)
<1>1. Orderly /\ driver
    BY OrderlyBefore DEF Orderly
<1>2. echo[s] + Due(s) <= n
    BY <1>1 DEF Fresh
<1>3. n \in Nat /\ echo[s] \in Nat /\ virtQ \in Seq(Event)
    <2>1. virtQ \in Seq(Event)
        BY QueuesAreEvents
    <2>2. echo[s] \in 0..MaxPending /\ MaxPending \in Nat
        BY LimitsAssumption DEF TypeOK
    <2>3. n \in Nat
        BY <2>1, CountType
    <2>4. echo[s] \in Nat
        BY <2>2
    <2> QED BY <2>1, <2>3, <2>4
<1>4. x \in Event /\ Slot(x) = s
    BY KeyFacts
<1>5. n' = Count(virtQ, Key(s[1], s[2]))'
    OBVIOUS
<1>6. CASE HookGetsKey \/ HookGetsEcho
    <2>1. PICK e \in Event : /\ OnKey(e)
                             /\ \/ virtQ' = virtQ
                                \/ /\ virtQ /= <<>> /\ e = Head(virtQ)
                                   /\ virtQ' = Tail(virtQ)
        BY <1>6, QueuesAreEvents, HeadTailProperties DEF HookGetsKey, HookGetsEcho
    <2>2. /\ hook.pc = "idle" /\ hook'.pc \in {"idle", "send", "repeatUp"}
          /\ echo' = IF enabled THEN [echo EXCEPT ![Slot(e)] = Left(e)] ELSE echo
        BY <1>1, <2>1, OnKeyOutcome DEF Passed, Replayed, HeldOn
    <2>3. Due(s) = 0 /\ Due(s)' = 0
        BY <2>2 DEF Due
    <2>4. n' = n \/ (s = Slot(e) /\ n = n' + 1) \/ (s /= Slot(e) /\ n' = n)
        <3>1. CASE virtQ' = virtQ
            BY <3>1
        <3>2. CASE virtQ /= <<>> /\ e = Head(virtQ) /\ virtQ' = Tail(virtQ)
            <4>1. Count(virtQ, x) = (IF e = x THEN 1 ELSE 0) + Count(Tail(virtQ), x)
                BY <1>3, <3>2, CountHeadTail
            <4>2. Count(Tail(virtQ), x) \in Nat
                BY <1>3, <3>2, HeadTailProperties, CountType
            <4>3. e = x <=> s = Slot(e)
                BY <1>4, <2>1, KeyFacts
            <4>4. Count(virtQ, x)' = Count(Tail(virtQ), x)
                BY <3>2
            <4> HIDE DEF x
            <4> QED BY <4>1, <4>2, <4>3, <4>4
        <3> QED BY <2>1, <3>1, <3>2
    <2>5. /\ s /= Slot(e) => echo'[s] = echo[s]
          /\ s = Slot(e) => \/ echo'[s] = echo[s] - 1 /\ echo[s] > 0
                            \/ echo'[s] = 0
        <3>1. ~enabled => echo[s] = 0
            BY <1>1 DEF Exact
        <3>2. enabled => echo'[s] = IF s = Slot(e) THEN Left(e) ELSE echo[s]
            BY <2>2 DEF TypeOK
        <3>3. s = Slot(e) => \/ Left(e) = echo[s] - 1 /\ echo[s] > 0
                             \/ Left(e) = 0
            BY DEF Left, Matches
        <3> QED BY <2>2, <3>1, <3>2, <3>3
    <2>6. virtQ' \in Seq(Event)
        BY <2>1, HeadTailProperties, <1>3
    <2>7. n' \in Nat
        BY <2>6, CountType
    <2> HIDE DEF n, x
    <2> QED BY <1>2, <1>3, <1>5, <2>3, <2>4, <2>5, <2>7
<1>7. CASE HookStep
    BY <1>1, <1>2, <1>7, CallbackCounts
<1>8. CASE UiOff
    <2>1. echo'[s] = 0 /\ hook'.pc = "idle" /\ virtQ' = virtQ
        BY <1>1, <1>8 DEF UiOff, MaySwitch, Orderly, Without, ClearKeys, device
    <2>2. Due(s)' = 0
        BY <2>1 DEF Due
    <2> QED BY <1>3, <2>1, <2>2
<1>9. CASE UiReleases
    <2>1. Takes({}) /\ hook' = hook /\ echo' = echo
        BY <1>1, <1>9, OrderlyReleases DEF UiReleases, shared
    <2>2. \E more \in 0..1 : n' = n + more
        BY <1>4, <2>1, TakesCount
    <2>3. Due(s)' = Due(s) /\ Due(s) \in 0..1
        BY <2>1 DEF Due, Slot
    <2> HIDE DEF n
    <2> QED BY <1>2, <1>3, <1>5, <2>1, <2>2, <2>3
<1>10. CASE UiOn \/ UiLocks \/ UiBusy \/ UiDone \/ World \/ UNCHANGED vars
    <2>1. UNCHANGED <<hook, echo, virtQ>>
        BY <1>10 DEF UiOn, UiLocks, UiBusy, UiDone, World, UserMoves, KeyRepeats,
                     ModifierMovesElsewhere, EchoLapses, shared, device, vars
    <2>2. Due(s)' = Due(s)
        BY <2>1 DEF Due, Slot
    <2> QED BY <1>2, <2>1, <2>2
<1>11. CASE Close
    BY <1>1, <1>11, OrderlyBefore DEF Close, CloseStops, CloseReleases, CloseUnplugs, Orderly
<1>12. CASE Next
    BY <1>6, <1>7, <1>8, <1>9, <1>10, <1>11, <1>12 DEF Next, Ui
<1> QED BY <1>10, <1>12

LEMMA FreshHolds == Spec => [](IInv /\ Exact /\ Fresh)
<1>1. Init => IInv /\ Exact /\ Fresh
    BY CustodyInit, InHandInit, ReachedInit, TypeInit, ExactInit, FreshInit DEF IInv
<1>2. (IInv /\ Exact /\ Fresh) /\ [Next]_vars => (IInv /\ Exact /\ Fresh)'
    BY NextKeepsType, CustodyNext, InHandNext, ReachedNext, ExactNext, FreshNext DEF IInv
<1> QED BY <1>1, <1>2, PTL DEF Spec

\* No echo is expected that is not under way: for every key and direction the
\* count of the filter is at most what waits in the queue of the virtual
\* keyboard, so a key the user presses is never taken for the echo of a report
\* that produced none, repeats and lapsed echoes included.
THEOREM NoPhantom == Spec => []NoPhantomEcho
<1>1. IInv /\ Exact /\ Fresh => NoPhantomEcho
    <2> SUFFICES ASSUME IInv, Fresh, Orderly, hook.pc = "idle", NEW s \in Slots
                 PROVE  echo[s] <= Cardinality({i \in DOMAIN virtQ : Slot(virtQ[i]) = s})
        BY DEF NoPhantomEcho, Orderly
    <2>1. Due(s) = 0 /\ echo[s] \in Nat
        BY DEF Due, IInv, TypeOK
    <2>2. echo[s] <= Count(virtQ, Key(s[1], s[2]))
        BY <2>1 DEF Fresh
    <2>3. \A i \in DOMAIN virtQ : virtQ[i] = Key(s[1], s[2]) <=> Slot(virtQ[i]) = s
        <3> TAKE i \in DOMAIN virtQ
        <3>1. virtQ[i] \in Event
            BY QueuesAreEvents, ElementOfSeq, LenProperties DEF IInv
        <3> QED BY <3>1, KeyFacts
    <2>4. {i \in DOMAIN virtQ : Slot(virtQ[i]) = s}
             = {i \in DOMAIN virtQ : virtQ[i] = Key(s[1], s[2])}
        BY <2>3
    <2> QED BY <2>2, <2>4 DEF Count
<1> QED BY <1>1, FreshHolds, PTL

-----------------------------------------------------------------------------
(***************************************************************************)
(* The ledger of an undisturbed session, the switch, repeated keys and     *)
(* other desktops included.  For every key, each queue is a run of the     *)
(* key's level (down or up), from what the hook has seen of it to what the *)
(* user or the device has made of it.  The record, the echoes owed and     *)
(* what the applications believe balance with the two levels the hook has  *)
(* seen.  Only a repeat of a held key is not a move of a level: it is      *)
(* typed when everything has settled, so it is always the first event that *)
(* waits and finds no echo owed.                                           *)
(***************************************************************************)
Plain == Orderly /\ Without({"burst", "late"})

\* How an event moves the level of key k.
Moves(k) ==
    {t \in (0..1) \X Event \X (0..1) :
        IF t[2].key /= k  THEN t[3] = t[1]
        ELSE IF t[2].down THEN t[1] = 0 /\ t[3] = 1
                          ELSE t[1] = 1 /\ t[3] = 0}

Level(X, k) == IF k \in X THEN 1 ELSE 0

DeviceRun(v, k) == Run(Moves(k), 0..1, virtQ, v, Level(dev, k))
DeskRun(p, k)   == Run(Moves(k), 0..1, physQ, p, Level(phys, k))

\* Nothing is owed, and no press is coming from the device.
AtEase ==
    /\ hook.pc = "idle"
    /\ \A s \in Slots : echo[s] = 0
    /\ \A k \in AllKeys : Count(virtQ, Key(k, TRUE)) = 0
    /\ virtQ = <<>> \/ keyboard = {}

\* The key is held, and the first event that waits repeats it.
RepeatRun(p, k) ==
    /\ AtEase /\ physQ /= <<>> /\ Head(physQ) = Key(k, TRUE)
    /\ p = 1 /\ Run(Moves(k), 0..1, Tail(physQ), p, Level(phys, k))

\* The record as it will be when the callback under way is done with it.
Busy   == hook.pc \in {"send", "remember"}
Record == IF Busy THEN hook.report ELSE keyboard

\* The echoes owed once it is done.
Counting(k, d) ==
    \/ Busy /\ hook.event = Key(k, d)
    \/ hook.pc \in {"repeatUp", "repeatDown", "repeatNote"} /\ hook.event.key = k
Owed(k, d) == echo[<<k, d>>] + IF Counting(k, d) THEN 1 ELSE 0

\* A press of k is coming from the device.
Coming(k) == \/ Count(virtQ, Key(k, TRUE)) > 0
             \/ hook.pc = "send" /\ hook.event = Key(k, TRUE)

\* n is how often the hook has seen key k go down and not yet up.
Balance(n, k) ==
    /\ Owed(k, TRUE) \in 0..1 /\ Owed(k, FALSE) \in 0..1
    /\ n + Owed(k, TRUE) >= 2 * Level(Record, k) + Owed(k, FALSE)
    /\ k \in apps => n >= 1 + Level(Record, k) \/ (Coming(k) /\ n >= Level(Record, k))

Balanced ==
    \A k \in AllKeys : \E v \in 0..1, p \in 0..1 :
        DeviceRun(v, k) /\ (DeskRun(p, k) \/ RepeatRun(p, k)) /\ Balance(v + p, k)

Ledger == Plain => stale = {} /\ Balanced

-----------------------------------------------------------------------------
\* What the moves mean, and the run a report adds to the device's queue.

LEMMA MoveMeans ==
    ASSUME NEW k, NEW s, NEW e, NEW t, <<s, e, t>> \in Moves(k)
    PROVE  /\ s \in 0..1 /\ t \in 0..1 /\ e \in Event
           /\ e.key /= k => t = s
           /\ e.key = k /\ e.down => s = 0 /\ t = 1
           /\ e.key = k /\ ~e.down => s = 1 /\ t = 0
BY DEF Moves

LEMMA MoveIs ==
    ASSUME NEW k, NEW s \in 0..1, NEW e \in Event, NEW t \in 0..1,
           \/ e.key /= k /\ t = s
           \/ e.key = k /\ e.down /\ s = 0 /\ t = 1
           \/ e.key = k /\ ~e.down /\ s = 1 /\ t = 0
    PROVE  <<s, e, t>> \in Moves(k)
BY DEF Moves

LEMMA LevelType == \A X, k : Level(X, k) \in 0..1
BY DEF Level

LEMMA TypedRun ==
    ASSUME NEW keys \in SUBSET Keys, NEW d \in BOOLEAN, NEW k \in AllKeys,
           NEW s \in 0..1, NEW t \in 0..1,
           k \notin keys => t = s,
           k \in keys => IF d THEN s = 0 /\ t = 1 ELSE s = 1 /\ t = 0
    PROVE  Run(Moves(k), 0..1, Typed(keys, d), s, t)
<1> DEFINE q == Typed(keys, d)
<1>1. /\ q \in Seq(Event)
      /\ \A i \in 1..Len(q) : q[i] = Key(q[i].key, d) /\ q[i].key \in keys
      /\ \A i, j \in 1..Len(q) : q[i] = q[j] => i = j
      /\ \A x \in keys : \E i \in 1..Len(q) : q[i] = Key(x, d)
    <2>1. q \in Seq(Event)
        BY TypedOnce
    <2>2. \A i \in 1..Len(q) : q[i] = Key(q[i].key, d) /\ q[i].key \in keys
        BY TypedOnce
    <2>3. \A i, j \in 1..Len(q) : q[i] = q[j] => i = j
        BY TypedOnce
    <2>4. \A x \in keys : \E i \in 1..Len(q) : q[i] = Key(x, d)
        BY TypedOnce
    <2> QED BY <2>1, <2>2, <2>3, <2>4
<1>2. \A i \in 1..Len(q) : q[i] \in Event
    BY <1>1, ElementOfSeq
<1> HIDE DEF q
<1>3. CASE k \notin keys
    <2>1. \A i \in 1..Len(q) : <<s, q[i], s>> \in Moves(k)
        BY <1>1, <1>2, <1>3, MoveIs
    <2> QED BY <1>1, <1>3, <2>1, RunStays DEF q
<1>4. CASE k \in keys
    <2>1. PICK j \in 1..Len(q) : q[j] = Key(k, d)
        BY <1>1, <1>4
    <2>2. <<s, q[j], t>> \in Moves(k)
        <3>1. q[j] \in Event /\ q[j].key = k /\ q[j].down = d
            BY <1>2, <2>1 DEF Key
        <3>2. CASE d
            BY <1>4, <3>1, <3>2, MoveIs
        <3>3. CASE ~d
            BY <1>4, <3>1, <3>3, MoveIs
        <3> QED BY <3>2, <3>3
    <2>3. \A i \in 1..Len(q) : i /= j => q[i].key /= k
        BY <1>1, <2>1
    <2>4. \A i \in 1..Len(q) : i /= j =>
             <<s, q[i], s>> \in Moves(k) /\ <<t, q[i], t>> \in Moves(k)
        BY <1>2, <2>3, MoveIs
    <2> QED BY <1>1, <2>2, <2>4, RunMovesOnce DEF q
<1> QED BY <1>3, <1>4

LEMMA TakesRun ==
    ASSUME TypeOK, NEW report \in SUBSET Keys, Takes(report), NEW k \in AllKeys,
           NEW v \in 0..1, DeviceRun(v, k)
    PROVE  DeviceRun(v, k)'
<1> DEFINE ups == Typed(dev \ report, FALSE)
           downs == Typed(report \ dev, TRUE)
<1>1. dev \in SUBSET Keys /\ virtQ \in Seq(Event)
    BY QueuesAreEvents DEF TypeOK
<1>2. ups \in Seq(Event) /\ downs \in Seq(Event) /\ virtQ \o ups \in Seq(Event)
    BY <1>1, TypedOnce, ConcatProperties
<1>3. Run(Moves(k), 0..1, ups, Level(dev, k), Level(dev \cap report, k))
    <2>1. k \notin dev \ report => Level(dev \cap report, k) = Level(dev, k)
        BY DEF Level
    <2>2. k \in dev \ report => Level(dev, k) = 1 /\ Level(dev \cap report, k) = 0
        BY DEF Level
    <2> QED BY <1>1, <2>1, <2>2, TypedRun, LevelType
<1>4. Run(Moves(k), 0..1, downs, Level(dev \cap report, k), Level(report, k))
    <2>1. k \notin report \ dev => Level(dev \cap report, k) = Level(report, k)
        BY DEF Level
    <2>2. k \in report \ dev => Level(dev \cap report, k) = 0 /\ Level(report, k) = 1
        BY DEF Level
    <2> QED BY <1>1, <2>1, <2>2, TypedRun, LevelType
<1>5. virtQ' = virtQ \o ups \o downs /\ dev' = report
    BY DEF Takes, Ups, Downs, Typed
<1> HIDE DEF ups, downs
<1>6. Run(Moves(k), 0..1, virtQ \o ups, v, Level(dev \cap report, k))
    BY <1>1, <1>2, <1>3, RunConcat DEF DeviceRun
<1>7. Run(Moves(k), 0..1, virtQ \o ups \o downs, v, Level(report, k))
    BY <1>2, <1>4, <1>6, RunConcat
<1> QED BY <1>5, <1>7 DEF DeviceRun

\* A step that leaves the record and the echoes owed alone keeps the balance.
LEMMA BalanceKept ==
    ASSUME NEW k, NEW n \in Nat, Balance(n, k), Level(Record, k)' = Level(Record, k),
           k \in apps' => k \in apps, Owed(k, TRUE)' = Owed(k, TRUE),
           Owed(k, FALSE)' = Owed(k, FALSE), Coming(k) => Coming(k)'
    PROVE  Balance(n, k)'
BY DEF Balance

-----------------------------------------------------------------------------
\* One event at the hook of an undisturbed session.

LEMMA AtRest ==
    ASSUME TypeOK, hook.pc = "idle", NEW k \in AllKeys, NEW d \in BOOLEAN
    PROVE  /\ Record = keyboard
           /\ Owed(k, d) = echo[<<k, d>>] /\ echo[<<k, d>>] \in Nat
           /\ Coming(k) <=> Count(virtQ, Key(k, TRUE)) > 0
<1>1. echo[<<k, d>>] \in Nat
    BY LimitsAssumption DEF TypeOK, Slots
<1>2. ~Busy /\ ~Counting(k, d)
    BY DEF Busy, Counting
<1> QED BY <1>1, <1>2 DEF Record, Owed, Coming

\* Between two events every echo is owed at most once.
LEMMA OwedOnce ==
    ASSUME TypeOK, Balanced, hook.pc = "idle", NEW e \in Event
    PROVE  echo[Slot(e)] \in 0..1
<1>1. e.key \in AllKeys /\ (Slot(e) = <<e.key, TRUE>> \/ Slot(e) = <<e.key, FALSE>>)
    BY DEF Event, Slot
<1>2. PICK n : Balance(n, e.key)
    BY <1>1 DEF Balanced
<1>3. Owed(e.key, TRUE) \in 0..1 /\ Owed(e.key, FALSE) \in 0..1
    BY <1>2 DEF Balance
<1>4. Owed(e.key, TRUE) = echo[<<e.key, TRUE>>] /\ Owed(e.key, FALSE) = echo[<<e.key, FALSE>>]
    BY <1>1, AtRest
<1> QED BY <1>1, <1>3, <1>4

LEMMA PlainOutcome ==
    ASSUME TypeOK, Exact, Plain, stale = {}, NEW e \in Event, OnKey(e),
           echo[Slot(e)] \in 0..1
    PROVE  /\ hook.pc = "idle"
           /\ UNCHANGED <<env, enabled, driver, keyboard, ui, closer, conn, plugged, dev, phys>>
           /\ Passed(e) \/ Replayed(e) \/ HeldOn(e)
           /\ echo' = [echo EXCEPT ![Slot(e)] = 0] /\ stale' = {}
           /\ Matches(Slot(e)) <=> echo[Slot(e)] = 1
           /\ ~enabled => echo[Slot(e)] = 0
<1>1. driver /\ Slot(e) \in Slots
    BY KeyFacts DEF Plain, Orderly
<1>2. Matches(Slot(e)) <=> echo[Slot(e)] = 1
    BY DEF Matches
<1>3. Left(e) = 0
    BY <1>2 DEF Left
<1>4. ~enabled => echo[Slot(e)] = 0
    BY <1>1 DEF Exact, Plain
<1>5. echo' = [echo EXCEPT ![Slot(e)] = 0]
    <2>1. CASE enabled
        BY <1>1, <1>3, <2>1, OnKeyOutcome
    <2>2. CASE ~enabled
        <3>1. echo' = echo
            BY <1>1, <2>2, OnKeyOutcome
        <3> QED BY <1>1, <1>4, <2>2, <3>1 DEF TypeOK
    <2> QED BY <2>1, <2>2
<1> QED BY <1>1, <1>2, <1>4, <1>5, OnKeyOutcome

\* What the event does to the echoes owed and to the record to come.
LEMMA OutcomeOwes ==
    ASSUME TypeOK, NEW e \in Event, hook.pc = "idle", keyboard' = keyboard,
           echo' = [echo EXCEPT ![Slot(e)] = 0], NEW k \in AllKeys, NEW d \in BOOLEAN
    PROVE  /\ Passed(e) => /\ Record' = keyboard
                           /\ Owed(k, d)' = IF Key(k, d) = e THEN 0 ELSE Owed(k, d)
           /\ Replayed(e) => /\ Record' = IF e.down THEN keyboard \cup {e.key}
                                                    ELSE keyboard \ {e.key}
                             /\ Owed(k, d)' = IF Key(k, d) = e THEN 1 ELSE Owed(k, d)
           /\ HeldOn(e) => /\ Record' = keyboard
                           /\ Owed(k, d)' = IF Key(k, d) = e THEN 1
                                            ELSE IF k = e.key THEN Owed(k, d) + 1
                                            ELSE Owed(k, d)
<1>1. Owed(k, d) = echo[<<k, d>>] /\ echo[<<k, d>>] \in Nat
    BY AtRest
<1>2. Key(k, d) = e <=> <<k, d>> = Slot(e)
    <2>1. Key(k, d) \in Event /\ Slot(Key(k, d)) = <<k, d>>
        BY DEF Key, Slot, Event
    <2> QED BY <2>1, KeyFacts
<1>3. echo'[<<k, d>>] = IF Key(k, d) = e THEN 0 ELSE echo[<<k, d>>]
    BY <1>2, KeyFacts DEF TypeOK
<1>4. ASSUME Passed(e)
      PROVE  /\ Record' = keyboard
             /\ Owed(k, d)' = IF Key(k, d) = e THEN 0 ELSE Owed(k, d)
    <2>1. hook'.pc = "idle" /\ ~Busy' /\ ~Counting(k, d)'
        BY <1>4 DEF Passed, Busy, Counting
    <2>2. Owed(k, d)' = echo'[<<k, d>>] + 0
        BY <2>1 DEF Owed
    <2> QED BY <1>1, <1>3, <2>1, <2>2 DEF Record
<1>5. ASSUME Replayed(e)
      PROVE  /\ Record' = IF e.down THEN keyboard \cup {e.key} ELSE keyboard \ {e.key}
             /\ Owed(k, d)' = IF Key(k, d) = e THEN 1 ELSE Owed(k, d)
    <2>1. hook'.pc = "send" /\ hook'.event = e /\ Busy'
        BY <1>5 DEF Replayed, Busy
    <2>2. Counting(k, d)' <=> Key(k, d) = e
        BY <2>1 DEF Counting, Key
    <2>3. Record' = IF e.down THEN keyboard \cup {e.key} ELSE keyboard \ {e.key}
        BY <1>5, <2>1 DEF Record, Replayed
    <2>4. CASE Key(k, d) = e
        <3>1. Owed(k, d)' = echo'[<<k, d>>] + 1
            BY <2>2, <2>4 DEF Owed
        <3> QED BY <1>3, <2>3, <2>4, <3>1
    <2>5. CASE Key(k, d) /= e
        <3>1. Owed(k, d)' = echo'[<<k, d>>] + 0
            BY <2>2, <2>5 DEF Owed
        <3> QED BY <1>1, <1>3, <2>3, <2>5, <3>1
    <2> QED BY <2>4, <2>5
<1>6. ASSUME HeldOn(e)
      PROVE  /\ Record' = keyboard
             /\ Owed(k, d)' = IF Key(k, d) = e THEN 1
                              ELSE IF k = e.key THEN Owed(k, d) + 1 ELSE Owed(k, d)
    <2>1. hook'.pc = "repeatUp" /\ hook'.event = e /\ ~Busy'
        BY <1>6 DEF HeldOn, Busy
    <2>2. Counting(k, d)' <=> k = e.key
        BY <2>1 DEF Counting
    <2>3. Record' = keyboard
        BY <2>1 DEF Record
    <2>4. CASE k = e.key
        <3>1. Owed(k, d)' = echo'[<<k, d>>] + 1
            BY <2>2, <2>4 DEF Owed
        <3> QED BY <1>1, <1>3, <2>3, <2>4, <3>1
    <2>5. CASE k /= e.key
        <3>1. Owed(k, d)' = echo'[<<k, d>>] + 0
            BY <2>2, <2>5 DEF Owed
        <3>2. Key(k, d) /= e
            BY <2>5 DEF Key
        <3> QED BY <1>1, <1>3, <2>3, <2>5, <3>1, <3>2
    <2> QED BY <2>4, <2>5
<1> QED BY <1>4, <1>5, <1>6

\* How an event at the hook moves a level of key k from n to m: not at all
\* unless it is an event of k, and not at all if it repeats the key.
MovesTo(e, k, n, m) ==
    /\ e.key /= k => m = n
    /\ e.key = k /\ e.down => \/ m = n + 1 /\ n <= 1
                              \/ m = n /\ n >= 1 /\ \A s \in Slots : echo[s] = 0
    /\ e.key = k /\ ~e.down => n = m + 1

\* Whatever the event does, the balance of every key survives it.
LEMMA OnKeyBalance ==
    ASSUME TypeOK, Exact, Custody, Plain, stale = {}, NEW e \in Event, OnKey(e),
           echo[Slot(e)] \in 0..1, NEW k \in AllKeys, NEW n \in Nat, NEW m \in Nat,
           Balance(n, k), MovesTo(e, k, n, m),
           e /= Key(k, TRUE) => Count(virtQ, Key(k, TRUE))' = Count(virtQ, Key(k, TRUE))
    PROVE  Balance(m, k)'
<1> DEFINE T == Owed(k, TRUE)
           F == Owed(k, FALSE)
           r == Level(Record, k)
           c == Coming(k)
<1> SUFFICES /\ T' \in 0..1 /\ F' \in 0..1
             /\ m + T' >= 2 * r' + F'
             /\ k \in apps' => m >= 1 + r' \/ (c' /\ m >= r')
    BY DEF Balance
<1>1. /\ hook.pc = "idle" /\ keyboard' = keyboard
      /\ Passed(e) \/ Replayed(e) \/ HeldOn(e)
      /\ echo' = [echo EXCEPT ![Slot(e)] = 0]
      /\ Matches(Slot(e)) <=> echo[Slot(e)] = 1
      /\ ~enabled => echo[Slot(e)] = 0 /\ keyboard = {}
    BY PlainOutcome DEF Custody
<1>2. /\ T \in 0..1 /\ F \in 0..1
      /\ n + T >= 2 * r + F
      /\ k \in apps => n >= 1 + r \/ (c /\ n >= r)
      /\ r = IF k \in keyboard THEN 1 ELSE 0
      /\ T = echo[<<k, TRUE>>] /\ F = echo[<<k, FALSE>>]
    BY <1>1, AtRest DEF Balance, Level
<1>3. r' = IF k \in Record' THEN 1 ELSE 0
    BY DEF Level
<1>4. /\ e.key /= k => e /= Key(k, TRUE) /\ e /= Key(k, FALSE)
      /\ e.key = k /\ e.down => /\ e = Key(k, TRUE) /\ e /= Key(k, FALSE)
                                /\ Slot(e) = <<k, TRUE>>
      /\ e.key = k /\ ~e.down => /\ e = Key(k, FALSE) /\ e /= Key(k, TRUE)
                                 /\ Slot(e) = <<k, FALSE>>
    <2>1. /\ Key(k, TRUE).key = k /\ Key(k, TRUE).down = TRUE
          /\ Key(k, FALSE).key = k /\ Key(k, FALSE).down = FALSE
        BY DEF Key
    <2>2. e.down = TRUE \/ e.down = FALSE
        BY DEF Event
    <2>3. ASSUME e.key = k
          PROVE  /\ e.down => e = Key(k, TRUE) /\ Slot(e) = <<k, TRUE>>
                 /\ ~e.down => e = Key(k, FALSE) /\ Slot(e) = <<k, FALSE>>
        BY <2>2, <2>3 DEF Key, Event, Slot
    <2> QED BY <2>1, <2>2, <2>3
<1>5. e /= Key(k, TRUE) => (c => c')
    BY <1>1, <1>4, AtRest DEF Coming
<1>6. /\ e.key /= k => m = n
      /\ e.key = k /\ e.down => \/ m = n + 1 /\ n <= 1
                                \/ m = n /\ n >= 1 /\ T = 0 /\ F = 0
      /\ e.key = k /\ ~e.down => n = m + 1
    <2>1. <<k, TRUE>> \in Slots /\ <<k, FALSE>> \in Slots
        BY DEF Slots
    <2> HIDE DEF T, F
    <2> QED BY <1>2, <2>1 DEF MovesTo
<1>7. CASE Passed(e)
    <2>1. /\ Record' = keyboard
          /\ T' = IF Key(k, TRUE) = e THEN 0 ELSE T
          /\ F' = IF Key(k, FALSE) = e THEN 0 ELSE F
        BY <1>1, <1>7, OutcomeOwes
    <2>2. apps' = IF e.down THEN apps \cup {e.key} ELSE apps \ {e.key}
        BY <1>7 DEF Passed
    <2> HIDE DEF T, F, r, c
    <2>3. r' = r
        BY <1>2, <1>3, <2>1
    <2>4. CASE e.key /= k
        <3>1. T' = T /\ F' = F /\ m = n /\ (k \in apps' <=> k \in apps) /\ (c => c')
            BY <1>4, <1>5, <1>6, <2>1, <2>2, <2>4
        <3> QED BY <1>2, <2>3, <3>1
    <2>5. CASE e.key = k /\ e.down
        <3>1. e = Key(k, TRUE) /\ e /= Key(k, FALSE)
            BY <1>4, <2>5
        <3>2. T' = 0 /\ F' = F
            BY <2>1, <3>1
        <3>3. \/ m = n + 1 /\ n <= 1
              \/ m = n /\ n >= 1 /\ T = 0 /\ F = 0
            BY <1>6, <2>5
        <3>4. m >= 2 * r + F /\ m >= 1 + r
            BY <1>2, <3>3
        <3> QED BY <1>2, <2>3, <3>2, <3>4
    <2>6. CASE e.key = k /\ ~e.down
        <3>1. T' = T /\ F' = 0 /\ k \notin apps' /\ n = m + 1
            BY <1>2, <1>4, <1>6, <2>1, <2>2, <2>6
        <3>2. F = 1 \/ r = 0
            BY <1>1, <1>2, <1>4, <1>7, <2>6 DEF Passed
        <3> QED BY <1>2, <2>3, <3>1, <3>2
    <2> QED BY <2>4, <2>5, <2>6
<1>8. CASE Replayed(e)
    <2>1. /\ Record' = IF e.down THEN keyboard \cup {e.key} ELSE keyboard \ {e.key}
          /\ T' = IF Key(k, TRUE) = e THEN 1 ELSE T
          /\ F' = IF Key(k, FALSE) = e THEN 1 ELSE F
        BY <1>1, <1>8, OutcomeOwes
    <2>2. /\ apps' = apps /\ echo[Slot(e)] = 0
          /\ e.down => e.key \notin keyboard
          /\ ~e.down => e.key \in keyboard
        BY <1>1, <1>8 DEF Replayed
    <2>3. e = Key(k, TRUE) => c'
        BY <1>8 DEF Replayed, Coming
    <2> HIDE DEF T, F, r, c
    <2>4. CASE e.key /= k
        <3>1. T' = T /\ F' = F /\ m = n /\ r' = r /\ (c => c')
            BY <1>2, <1>3, <1>4, <1>5, <1>6, <2>1, <2>4
        <3> QED BY <1>2, <2>2, <3>1
    <2>5. CASE e.key = k /\ e.down
        <3>1. T' = 1 /\ F' = F /\ r' = 1 /\ c' /\ T = 0 /\ r = 0
            BY <1>2, <1>3, <1>4, <2>1, <2>2, <2>3, <2>5
        <3>2. m + 1 >= 2 + F /\ m >= 1
            BY <1>2, <1>6, <2>5, <3>1
        <3> QED BY <1>2, <3>1, <3>2
    <2>6. CASE e.key = k /\ ~e.down
        <3>1. T' = T /\ F' = 1 /\ r' = 0 /\ r = 1 /\ F = 0 /\ n = m + 1 /\ (c => c')
            BY <1>2, <1>3, <1>4, <1>5, <1>6, <2>1, <2>2, <2>6
        <3> QED BY <1>2, <2>2, <3>1
    <2> QED BY <2>4, <2>5, <2>6
<1>9. CASE HeldOn(e)
    <2>1. /\ Record' = keyboard
          /\ T' = IF Key(k, TRUE) = e THEN 1 ELSE IF k = e.key THEN T + 1 ELSE T
          /\ F' = IF Key(k, FALSE) = e THEN 1 ELSE IF k = e.key THEN F + 1 ELSE F
        BY <1>1, <1>9, OutcomeOwes
    <2>2. apps' = apps /\ echo[Slot(e)] = 0 /\ e.down /\ e.key \in keyboard
        BY <1>1, <1>9 DEF HeldOn
    <2> HIDE DEF T, F, r, c
    <2>3. r' = r
        BY <1>2, <1>3, <2>1
    <2>4. CASE e.key /= k
        <3>1. T' = T /\ F' = F /\ m = n /\ (c => c')
            BY <1>4, <1>5, <1>6, <2>1, <2>4
        <3> QED BY <1>2, <2>2, <2>3, <3>1
    <2>5. CASE e.key = k
        <3>1. T' = 1 /\ F' = F + 1 /\ r = 1 /\ T = 0
            BY <1>2, <1>4, <2>1, <2>2, <2>5
        <3>2. m = n /\ n >= 2 /\ F = 0
            BY <1>2, <1>6, <2>2, <2>5, <3>1
        <3> QED BY <2>2, <2>3, <3>1, <3>2
    <2> QED BY <2>4, <2>5
<1> QED BY <1>1, <1>7, <1>8, <1>9

-----------------------------------------------------------------------------
\* Every step of an undisturbed session keeps the ledger.

\* What Balanced asks of key k.
InBalance(k) ==
    \E v \in 0..1, p \in 0..1 :
        DeviceRun(v, k) /\ (DeskRun(p, k) \/ RepeatRun(p, k)) /\ Balance(v + p, k)

LEMMA InBalanceAll == Balanced <=> \A k \in AllKeys : InBalance(k)
BY DEF Balanced, InBalance

\* One event the user has typed reaches the hook.
LEMMA KeyKeepsLedger ==
    ASSUME TypeOK, Exact, Custody, Plain, stale = {}, Balanced, HookGetsKey
    PROVE  stale' = {} /\ \A k \in AllKeys : InBalance(k)'
<1> DEFINE e == Head(physQ)
<1>1. /\ physQ \in Seq(Event) /\ physQ /= <<>> /\ e \in Event
      /\ OnKey(e) /\ physQ' = Tail(physQ) /\ virtQ' = virtQ
    BY QueuesAreEvents, HeadTailProperties DEF HookGetsKey
<1>2. hook.pc = "idle"
    BY <1>1 DEF OnKey
<1>3. echo[Slot(e)] \in 0..1
    BY <1>1, <1>2, OwedOnce
<1>4. stale' = {} /\ UNCHANGED <<env, dev, phys>>
    BY <1>1, <1>3, PlainOutcome
<1>5. ASSUME NEW k \in AllKeys
      PROVE  InBalance(k)'
    <2>1. PICK v \in 0..1, p \in 0..1 :
             DeviceRun(v, k) /\ (DeskRun(p, k) \/ RepeatRun(p, k)) /\ Balance(v + p, k)
        BY DEF Balanced
    <2>2. \E m \in 0..1 : /\ Run(Moves(k), 0..1, Tail(physQ), m, Level(phys, k))
                          /\ MovesTo(e, k, v + p, v + m)
        <3>1. CASE DeskRun(p, k)
            <4>1. PICK m \in 0..1 : /\ <<p, e, m>> \in Moves(k)
                                    /\ Run(Moves(k), 0..1, Tail(physQ), m, Level(phys, k))
                BY <1>1, <3>1, RunTail DEF DeskRun
            <4>2. /\ e.key /= k => m = p
                  /\ e.key = k /\ e.down => p = 0 /\ m = 1
                  /\ e.key = k /\ ~e.down => p = 1 /\ m = 0
                BY <4>1, MoveMeans
            <4> HIDE DEF e
            <4>3. MovesTo(e, k, v + p, v + m)
                BY <4>2 DEF MovesTo
            <4> QED BY <4>1, <4>3
        <3>2. CASE RepeatRun(p, k)
            <4>1. /\ p = 1 /\ e = Key(k, TRUE) /\ \A s \in Slots : echo[s] = 0
                  /\ Run(Moves(k), 0..1, Tail(physQ), p, Level(phys, k))
                BY <3>2 DEF RepeatRun, AtEase
            <4> HIDE DEF e
            <4>2. e.key = k /\ e.down /\ v + p >= 1
                BY <4>1 DEF Key
            <4>3. MovesTo(e, k, v + p, v + p)
                <5>1. \A n : n >= 1 => MovesTo(e, k, n, n)
                    BY <4>1, <4>2 DEF MovesTo
                <5> QED BY <4>2, <5>1
            <4> QED BY <4>1, <4>3
        <3> QED BY <2>1, <3>1, <3>2
    <2>3. PICK m \in 0..1 : /\ Run(Moves(k), 0..1, Tail(physQ), m, Level(phys, k))
                            /\ MovesTo(e, k, v + p, v + m)
        BY <2>2
    <2>4. DeviceRun(v, k)' /\ DeskRun(m, k)'
        BY <1>1, <1>4, <2>1, <2>3 DEF DeviceRun, DeskRun, Level
    <2>5. Balance(v + m, k)'
        <3>1. v + p \in Nat /\ v + m \in Nat
            OBVIOUS
        <3>2. Count(virtQ, Key(k, TRUE))' = Count(virtQ, Key(k, TRUE))
            BY <1>1
        <3> HIDE DEF e
        <3> QED BY <1>1, <1>3, <2>1, <2>3, <3>1, <3>2, OnKeyBalance
    <2> QED BY <2>4, <2>5 DEF InBalance
<1> QED BY <1>4, <1>5

\* One event of the device comes back to the hook.  While a repeated key waits
\* this is a release, which the hook lets pass: the record is empty.
LEMMA EchoKeepsLedger ==
    ASSUME TypeOK, Exact, Custody, Plain, stale = {}, Balanced, HookGetsEcho
    PROVE  stale' = {} /\ \A k \in AllKeys : InBalance(k)'
<1> DEFINE e == Head(virtQ)
<1>1. /\ virtQ \in Seq(Event) /\ virtQ /= <<>> /\ e \in Event
      /\ OnKey(e) /\ virtQ' = Tail(virtQ) /\ physQ' = physQ
    BY QueuesAreEvents, HeadTailProperties DEF HookGetsEcho
<1>2. \A x : /\ Count(virtQ, x) = 0 => e /= x /\ Count(virtQ, x)' = 0
             /\ e /= x => Count(virtQ, x)' = Count(virtQ, x)
    <2> TAKE x
    <2>1. Count(virtQ, x) = (IF e = x THEN 1 ELSE 0) + Count(Tail(virtQ), x)
        BY <1>1, CountHeadTail
    <2>2. Count(Tail(virtQ), x) \in Nat
        BY <1>1, HeadTailProperties, CountType
    <2>3. Count(virtQ, x)' = Count(Tail(virtQ), x)
        BY <1>1
    <2> HIDE DEF e
    <2> QED BY <2>1, <2>2, <2>3
<1>3. hook.pc = "idle"
    BY <1>1 DEF OnKey
<1>4. echo[Slot(e)] \in 0..1
    BY <1>1, <1>3, OwedOnce
<1>5. /\ stale' = {} /\ UNCHANGED <<env, dev, phys, keyboard>>
      /\ Passed(e) \/ Replayed(e) \/ HeldOn(e)
      /\ echo' = [echo EXCEPT ![Slot(e)] = 0]
    BY <1>1, <1>4, PlainOutcome
<1>6. AtEase => AtEase'
    <2> SUFFICES ASSUME AtEase PROVE AtEase'
        OBVIOUS
    <2>1. keyboard = {} /\ e /= Key(e.key, TRUE)
        <3>1. Count(virtQ, Key(e.key, TRUE)) = 0
            BY <1>1, KeyFacts DEF AtEase
        <3>2. e /= Key(e.key, TRUE)
            BY <1>2, <3>1
        <3> QED BY <1>1, <3>2 DEF AtEase
    <2>2. ~e.down
        <3>1. e = Key(e.key, e.down) /\ e.down \in BOOLEAN
            BY <1>1, KeyFacts
        <3> QED BY <2>1, <3>1
    <2>3. hook'.pc = "idle" /\ keyboard' = {}
        BY <1>5, <2>1, <2>2 DEF Passed, Replayed, HeldOn
    <2>4. \A s \in Slots : echo'[s] = 0
        BY <1>5 DEF AtEase, TypeOK
    <2>5. \A k \in AllKeys : Count(virtQ, Key(k, TRUE))' = 0
        <3> TAKE k \in AllKeys
        <3>1. Count(virtQ, Key(k, TRUE)) = 0
            BY DEF AtEase
        <3> QED BY <1>2, <3>1
    <2> HIDE DEF e
    <2> QED BY <2>3, <2>4, <2>5 DEF AtEase
<1>7. ASSUME NEW k \in AllKeys
      PROVE  InBalance(k)'
    <2>1. PICK v \in 0..1, p \in 0..1 :
             DeviceRun(v, k) /\ (DeskRun(p, k) \/ RepeatRun(p, k)) /\ Balance(v + p, k)
        BY DEF Balanced
    <2>2. PICK m \in 0..1 : /\ <<v, e, m>> \in Moves(k)
                            /\ Run(Moves(k), 0..1, Tail(virtQ), m, Level(dev, k))
        BY <1>1, <2>1, RunTail DEF DeviceRun
    <2>3. DeviceRun(m, k)'
        BY <1>1, <1>5, <2>2 DEF DeviceRun, Level
    <2>4. (DeskRun(p, k) \/ RepeatRun(p, k))'
        <3>1. DeskRun(p, k) => DeskRun(p, k)'
            BY <1>1, <1>5 DEF DeskRun, Level
        <3>2. RepeatRun(p, k) => RepeatRun(p, k)'
            BY <1>1, <1>5, <1>6 DEF RepeatRun, Level
        <3> QED BY <2>1, <3>1, <3>2
    <2>5. MovesTo(e, k, v + p, m + p)
        <3>1. /\ e.key /= k => m = v
              /\ e.key = k /\ e.down => v = 0 /\ m = 1
              /\ e.key = k /\ ~e.down => v = 1 /\ m = 0
            BY <2>2, MoveMeans
        <3> HIDE DEF e
        <3> QED BY <3>1 DEF MovesTo
    <2>6. Balance(m + p, k)'
        <3>1. v + p \in Nat /\ m + p \in Nat
            OBVIOUS
        <3>2. e /= Key(k, TRUE) => Count(virtQ, Key(k, TRUE))' = Count(virtQ, Key(k, TRUE))
            BY <1>2
        <3> HIDE DEF e
        <3> QED BY <1>1, <1>4, <2>1, <2>5, <3>1, <3>2, OnKeyBalance
    <2> QED BY <2>3, <2>4, <2>6 DEF InBalance
<1> QED BY <1>5, <1>7

\* The callback sends, remembers or counts: what is owed was owed before.
LEMMA CallbackKeepsLedger ==
    ASSUME TypeOK, Custody, InHand, Exact, Plain, stale = {}, Balanced, HookStep
    PROVE  stale' = {} /\ \A k \in AllKeys : InBalance(k)'
<1>1. /\ Orderly /\ hook.pc /= "idle" /\ ~Releasing
      /\ hook.event \in Event /\ hook.report \in SUBSET Keys
      /\ hook.report \ {hook.event.key} \in SUBSET Keys
    <2>1. hook.pc /= "idle"
        BY DEF HookStep, HookSend, HookRemember, HookUndo, HookRepeatUp, HookRepeatDown,
               HookRepeatNote
    <2>2. Orderly
        BY DEF Plain
    <2> QED BY <2>1, <2>2, OrderlyFacts DEF TypeOK
<1>2. UNCHANGED <<phys, physQ, apps>>
    BY <1>1, CallbackGoesOn
<1>3. stale' = {}
    BY <1>1, CallbackGoesOn DEF ExpectAll
<1>4. \A k \in AllKeys, v \in 0..1 : DeviceRun(v, k) => DeviceRun(v, k)'
    <2> SUFFICES ASSUME NEW k \in AllKeys, NEW v \in 0..1, DeviceRun(v, k)
                 PROVE  DeviceRun(v, k)'
        OBVIOUS
    <2>1. \A report \in SUBSET Keys : Takes(report) => DeviceRun(v, k)'
        BY TakesRun
    <2>2. UNCHANGED <<dev, virtQ>> => DeviceRun(v, k)'
        BY DEF DeviceRun, Level
    <2> QED BY <1>1, <2>1, <2>2, CallbackGoesOn
<1>5. \A k \in AllKeys : Level(Record, k)' = Level(Record, k)
    <2>1. Record' = Record
        BY <1>1, CallbackGoesOn DEF Record, Busy
    <2> QED BY <2>1 DEF Level
<1>6. ASSUME NEW k \in AllKeys, NEW d \in BOOLEAN, Owed(k, d) \in 0..1
      PROVE  Owed(k, d)' = Owed(k, d)
    <2>1. /\ Key(k, d) = hook.event <=> <<k, d>> = Slot(hook.event)
          /\ <<k, d>> \in Slots /\ echo[<<k, d>>] \in Nat
        <3>1. Key(k, d) \in Event /\ Slot(Key(k, d)) = <<k, d>> /\ <<k, d>> \in Slots
            BY KeyFacts
        <3>2. Key(k, d) = hook.event <=> <<k, d>> = Slot(hook.event)
            BY <1>1, <3>1, KeyFacts
        <3> QED BY <3>1, <3>2, LimitsAssumption DEF TypeOK
    <2>2. CASE hook.pc \in {"send", "repeatUp", "repeatDown"}
        <3>1. echo' = echo /\ hook'.event = hook.event
            BY <2>2, CallbackGoesOn, <1>1
        <3>2. Counting(k, d)' <=> Counting(k, d)
            BY <1>1, <2>2, CallbackGoesOn DEF Counting, Busy
        <3> QED BY <3>1, <3>2 DEF Owed
    <2>3. CASE hook.pc = "remember"
        <3>1. hook'.pc = "idle" /\ ExpectAll({Slot(hook.event)})
            BY <1>1, <2>3, CallbackGoesOn
        <3>2. ~Counting(k, d)' /\ (Counting(k, d) <=> <<k, d>> = Slot(hook.event))
            BY <2>1, <2>3, <3>1 DEF Counting, Busy
        <3>3. CASE <<k, d>> = Slot(hook.event)
            <4>1. Owed(k, d) = echo[<<k, d>>] + 1 /\ Owed(k, d)' = Grown(echo[<<k, d>>]) + 0
                BY <2>1, <3>1, <3>2, <3>3 DEF Owed, ExpectAll
            <4>2. echo[<<k, d>>] = 0
                BY <1>6, <2>1, <4>1
            <4> QED BY <4>1, <4>2, LimitsAssumption DEF Grown
        <3>4. CASE <<k, d>> /= Slot(hook.event)
            <4>1. Owed(k, d) = echo[<<k, d>>] + 0 /\ Owed(k, d)' = echo[<<k, d>>] + 0
                BY <2>1, <3>1, <3>2, <3>4 DEF Owed, ExpectAll
            <4> QED BY <4>1
        <3> QED BY <3>3, <3>4
    <2>4. CASE hook.pc = "repeatNote"
        <3>1. hook'.pc = "idle" /\ ExpectAll({hook.event.key} \X BOOLEAN)
            BY <1>1, <2>4, CallbackGoesOn
        <3>2. /\ ~Counting(k, d)' /\ (Counting(k, d) <=> k = hook.event.key)
              /\ <<k, d>> \in {hook.event.key} \X BOOLEAN <=> k = hook.event.key
            BY <2>4, <3>1 DEF Counting, Busy
        <3>3. CASE k = hook.event.key
            <4>1. Owed(k, d) = echo[<<k, d>>] + 1 /\ Owed(k, d)' = Grown(echo[<<k, d>>]) + 0
                BY <2>1, <3>1, <3>2, <3>3 DEF Owed, ExpectAll
            <4>2. echo[<<k, d>>] = 0
                BY <1>6, <2>1, <4>1
            <4> QED BY <4>1, <4>2, LimitsAssumption DEF Grown
        <3>4. CASE k /= hook.event.key
            <4>1. Owed(k, d) = echo[<<k, d>>] + 0 /\ Owed(k, d)' = echo[<<k, d>>] + 0
                BY <2>1, <3>1, <3>2, <3>4 DEF Owed, ExpectAll
            <4> QED BY <4>1
        <3> QED BY <3>3, <3>4
    <2> QED BY <1>1, <2>2, <2>3, <2>4, CallbackGoesOn
<1>7. ASSUME NEW k \in AllKeys, Coming(k)
      PROVE  Coming(k)'
    <2> DEFINE x == Key(k, TRUE)
               n == Count(virtQ, x)
    <2>1. n \in Nat
        BY QueuesAreEvents, CountType
    <2>2. n > 0 \/ (hook.pc = "send" /\ hook.event = x)
        BY <1>7 DEF Coming
    <2>3. <<k, TRUE>> \in Slots /\ <<k, TRUE>>[1] = k /\ <<k, TRUE>>[2] = TRUE
        BY DEF Slots
    <2>4. /\ hook.pc = "send" /\ Takes(hook.report) =>
                n' = n + IF <<k, TRUE>> = Slot(hook.event) THEN 1 ELSE 0
          /\ hook.pc = "repeatUp" /\ Takes(hook.report \ {hook.event.key}) =>
                n' = n + IF <<k, TRUE>> = <<hook.event.key, FALSE>> THEN 1 ELSE 0
          /\ hook.pc = "repeatDown" /\ Takes(hook.report) =>
                n' = n + IF <<k, TRUE>> = <<hook.event.key, TRUE>> THEN 1 ELSE 0
        BY <1>1, <2>3, CallbackTypes
    <2>5. hook.event = x => <<k, TRUE>> = Slot(hook.event)
        BY DEF Slot, Key
    <2>6. UNCHANGED virtQ => n' = n
        OBVIOUS
    <2> HIDE DEF n, x
    <2>7. n' > 0
        <3>1. CASE hook.pc = "send"
            <4>1. Takes(hook.report)
                BY <1>1, <3>1, CallbackGoesOn
            <4>2. CASE <<k, TRUE>> = Slot(hook.event)
                BY <2>1, <2>4, <3>1, <4>1, <4>2
            <4>3. CASE <<k, TRUE>> /= Slot(hook.event)
                <5>1. n' = n + 0 /\ n > 0
                    BY <2>2, <2>4, <2>5, <3>1, <4>1, <4>3
                <5> QED BY <2>1, <5>1
            <4> QED BY <4>2, <4>3
        <3>2. CASE hook.pc = "repeatUp"
            <4>1. Takes(hook.report \ {hook.event.key}) /\ n > 0
                BY <1>1, <2>2, <3>2, CallbackGoesOn
            <4> QED BY <2>1, <2>4, <3>2, <4>1
        <3>3. CASE hook.pc = "repeatDown"
            <4>1. Takes(hook.report) /\ n > 0
                BY <1>1, <2>2, <3>3, CallbackGoesOn
            <4> QED BY <2>1, <2>4, <3>3, <4>1
        <3>4. CASE hook.pc \in {"remember", "repeatNote"}
            <4>1. UNCHANGED virtQ /\ n > 0
                BY <1>1, <2>2, <3>4, CallbackGoesOn
            <4> QED BY <2>6, <4>1
        <3> QED BY <1>1, <3>1, <3>2, <3>3, <3>4, CallbackGoesOn
    <2> QED BY <2>7 DEF Coming, n, x
<1>8. ASSUME NEW k \in AllKeys
      PROVE  InBalance(k)'
    <2>1. PICK v \in 0..1, p \in 0..1 :
             DeviceRun(v, k) /\ (DeskRun(p, k) \/ RepeatRun(p, k)) /\ Balance(v + p, k)
        BY DEF Balanced
    <2>2. DeviceRun(v, k)'
        BY <1>4, <2>1
    <2>3. DeskRun(p, k)'
        BY <1>1, <1>2, <2>1 DEF DeskRun, RepeatRun, AtEase, Level
    <2>4. v + p \in Nat
        OBVIOUS
    <2>5. Owed(k, TRUE)' = Owed(k, TRUE) /\ Owed(k, FALSE)' = Owed(k, FALSE)
        BY <1>6, <2>1 DEF Balance
    <2>6. Balance(v + p, k)'
        BY <1>2, <1>5, <1>7, <2>1, <2>4, <2>5, BalanceKept
    <2> QED BY <2>2, <2>3, <2>6 DEF InBalance
<1> QED BY <1>3, <1>8

LEMMA OwedKept ==
    ASSUME UNCHANGED <<keyboard, echo, hook, virtQ>>, NEW k
    PROVE  /\ Level(Record, k)' = Level(Record, k)
           /\ Owed(k, TRUE)' = Owed(k, TRUE) /\ Owed(k, FALSE)' = Owed(k, FALSE)
           /\ Coming(k) => Coming(k)'
BY DEF Level, Record, Busy, Owed, Counting, Coming

\* A step that touches neither the queues nor the record nor what is owed.
LEMMA NothingKeepsLedger ==
    ASSUME TypeOK, stale = {}, Balanced,
           UNCHANGED <<keyboard, echo, stale, hook, dev, virtQ, physQ, phys, apps>>
    PROVE  stale' = {} /\ \A k \in AllKeys : InBalance(k)'
<1> SUFFICES ASSUME NEW k \in AllKeys
             PROVE  InBalance(k)'
    OBVIOUS
<1>1. PICK v \in 0..1, p \in 0..1 :
         DeviceRun(v, k) /\ (DeskRun(p, k) \/ RepeatRun(p, k)) /\ Balance(v + p, k)
    BY DEF Balanced
<1>2. DeviceRun(v, k)' /\ (DeskRun(p, k) \/ RepeatRun(p, k))'
    BY <1>1 DEF DeviceRun, DeskRun, RepeatRun, AtEase, Level
<1>3. v + p \in Nat
    OBVIOUS
<1>4. Balance(v + p, k)'
    BY <1>1, <1>3, OwedKept, BalanceKept
<1> QED BY <1>2, <1>4 DEF InBalance

\* Switching off wipes the record and every echo owed; what the device still
\* holds is let go by a release that nobody waits for.
LEMMA OffKeepsLedger ==
    ASSUME TypeOK, Custody, Plain, stale = {}, Balanced, UiOff
    PROVE  stale' = {} /\ \A k \in AllKeys : InBalance(k)'
<1>1. /\ hook.pc = "idle" /\ hook' = hook /\ keyboard' = {} /\ stale' = {}
      /\ UNCHANGED <<dev, virtQ, physQ, phys, apps>>
    BY DEF UiOff, MaySwitch, ClearKeys, Plain, Orderly, Without, device, user
<1>2. \A k \in AllKeys, d \in BOOLEAN : echo'[<<k, d>>] = 0
    BY DEF UiOff, ClearKeys, Slots
<1>3. \A s \in Slots : echo'[s] = 0
    BY DEF UiOff, ClearKeys
<1> SUFFICES ASSUME NEW k \in AllKeys
             PROVE  InBalance(k)'
    BY <1>1
<1>4. PICK v \in 0..1, p \in 0..1 :
         DeviceRun(v, k) /\ (DeskRun(p, k) \/ RepeatRun(p, k)) /\ Balance(v + p, k)
    BY DEF Balanced
<1>5. AtEase => AtEase'
    BY <1>1, <1>3 DEF AtEase
<1>6. DeviceRun(v, k)' /\ (DeskRun(p, k) \/ RepeatRun(p, k))'
    BY <1>1, <1>4, <1>5 DEF DeviceRun, DeskRun, RepeatRun, Level
<1>7. Balance(v + p, k)'
    <2> DEFINE T == Owed(k, TRUE)
               F == Owed(k, FALSE)
               r == Level(Record, k)
               c == Coming(k)
    <2> SUFFICES /\ T' \in 0..1 /\ F' \in 0..1
                 /\ (v + p) + T' >= 2 * r' + F'
                 /\ k \in apps' => v + p >= 1 + r' \/ (c' /\ v + p >= r')
        BY DEF Balance
    <2>1. k \in apps => v + p >= 1 + r \/ (c /\ v + p >= r)
        BY <1>4 DEF Balance
    <2>2. ~Busy' /\ ~Counting(k, TRUE)' /\ ~Counting(k, FALSE)'
        BY <1>1 DEF Busy, Counting
    <2>3. T' = 0 + 0 /\ F' = 0 + 0
        BY <1>2, <2>2 DEF Owed
    <2>4. r' = 0 /\ r \in 0..1
        BY <1>1, <2>2, LevelType DEF Record, Level
    <2>5. c => c'
        BY <1>1 DEF Coming
    <2> HIDE DEF T, F, r, c
    <2> QED BY <1>1, <2>1, <2>3, <2>4, <2>5
<1> QED BY <1>6, <1>7 DEF InBalance

\* The release of a redirect that is off: the device types what it held.
LEMMA ReleaseKeepsLedger ==
    ASSUME TypeOK, Custody, InHand, Plain, stale = {}, Balanced, UiReleases
    PROVE  stale' = {} /\ \A k \in AllKeys : InBalance(k)'
<1>1. /\ Takes({}) /\ hook.pc = "idle" /\ keyboard = {} /\ {} \in SUBSET Keys
      /\ UNCHANGED <<keyboard, echo, stale, hook, physQ, phys, apps>>
    BY OrderlyReleases DEF UiReleases, Plain, shared, user
<1>2. \A k \in AllKeys : Count(virtQ, Key(k, TRUE))' = Count(virtQ, Key(k, TRUE))
    <2> TAKE k \in AllKeys
    <2> DEFINE x == Key(k, TRUE)
    <2>1. x \in Event /\ x.key = k /\ x.down = TRUE
        BY DEF Key, Event
    <2>2. Count(virtQ, x) \in Nat
        BY QueuesAreEvents, CountType
    <2> HIDE DEF x
    <2>3. Count(virtQ, x)' = Count(virtQ, x)
             + IF x.key \in (IF x.down THEN {} \ dev ELSE dev \ {}) THEN 1 ELSE 0
        BY <1>1, <2>1, TakesCount
    <2>4. Count(virtQ, x)' = Count(virtQ, x) + 0
        BY <2>1, <2>3
    <2>5. Count(virtQ, x)' = Count(virtQ, x)
        BY <2>2, <2>4
    <2> QED BY <2>5 DEF x
<1>3. AtEase => AtEase'
    BY <1>1, <1>2 DEF AtEase
<1> SUFFICES ASSUME NEW k \in AllKeys
             PROVE  InBalance(k)'
    BY <1>1
<1>4. PICK v \in 0..1, p \in 0..1 :
         DeviceRun(v, k) /\ (DeskRun(p, k) \/ RepeatRun(p, k)) /\ Balance(v + p, k)
    BY DEF Balanced
<1>5. DeviceRun(v, k)'
    BY <1>1, <1>4, TakesRun
<1>6. (DeskRun(p, k) \/ RepeatRun(p, k))'
    BY <1>1, <1>3, <1>4 DEF DeskRun, RepeatRun, Level
<1>7. v + p \in Nat
    OBVIOUS
<1>8. /\ Level(Record, k)' = Level(Record, k)
      /\ Owed(k, TRUE)' = Owed(k, TRUE) /\ Owed(k, FALSE)' = Owed(k, FALSE)
      /\ Coming(k) => Coming(k)'
    BY <1>1, <1>2 DEF Level, Record, Busy, Owed, Counting, Coming
<1>9. Balance(v + p, k)'
    BY <1>1, <1>4, <1>7, <1>8, BalanceKept
<1> QED BY <1>5, <1>6, <1>9 DEF InBalance

\* What the user types goes to the end of the queue.
LEMMA UserKeepsLedger ==
    ASSUME TypeOK, stale = {}, Balanced, NEW j \in AllKeys, UserMoves(j)
    PROVE  stale' = {} /\ \A k \in AllKeys : InBalance(k)'
<1> DEFINE e == Key(j, j \notin phys)
<1>1. /\ physQ \in Seq(Event) /\ physQ' = Append(physQ, e)
      /\ phys' = IF j \in phys THEN phys \ {j} ELSE phys \cup {j}
      /\ UNCHANGED <<keyboard, echo, stale, hook, dev, virtQ, apps>>
    BY QueuesAreEvents DEF UserMoves, Type, Key, shared, device
<1>2. /\ e \in Event /\ e.key = j
      /\ e.down <=> j \notin phys
    BY DEF Key, Event
<1> HIDE DEF e
<1> SUFFICES ASSUME NEW k \in AllKeys
             PROVE  InBalance(k)'
    BY <1>1
<1>3. PICK v \in 0..1, p \in 0..1 :
         DeviceRun(v, k) /\ (DeskRun(p, k) \/ RepeatRun(p, k)) /\ Balance(v + p, k)
    BY DEF Balanced
<1>4. <<Level(phys, k), e, Level(phys, k)'>> \in Moves(k)
    <2>1. Level(phys, k) \in 0..1 /\ Level(phys, k)' \in 0..1
        BY LevelType DEF Level
    <2>2. k /= j => Level(phys, k)' = Level(phys, k)
        BY <1>1 DEF Level
    <2>3. k = j /\ j \notin phys => Level(phys, k) = 0 /\ Level(phys, k)' = 1
        BY <1>1 DEF Level
    <2>4. k = j /\ j \in phys => Level(phys, k) = 1 /\ Level(phys, k)' = 0
        BY <1>1 DEF Level
    <2> QED BY <1>2, <2>1, <2>2, <2>3, <2>4, MoveIs
<1>5. DeviceRun(v, k)'
    BY <1>1, <1>3 DEF DeviceRun, Level
<1>6. (DeskRun(p, k) \/ RepeatRun(p, k))'
    <2>1. Level(phys, k)' \in 0..1
        BY LevelType DEF Level
    <2>2. CASE DeskRun(p, k)
        <3>1. Run(Moves(k), 0..1, Append(physQ, e), p, Level(phys, k)')
            BY <1>1, <1>2, <1>4, <2>1, <2>2, RunAppend DEF DeskRun
        <3> QED BY <1>1, <3>1 DEF DeskRun
    <2>3. CASE RepeatRun(p, k)
        <3>1. /\ physQ /= <<>> /\ Head(physQ) = Key(k, TRUE) /\ p = 1 /\ AtEase
              /\ Run(Moves(k), 0..1, Tail(physQ), p, Level(phys, k))
            BY <2>3 DEF RepeatRun
        <3>2. /\ physQ' /= <<>> /\ Head(physQ') = Head(physQ)
              /\ Tail(physQ') = Append(Tail(physQ), e) /\ Tail(physQ) \in Seq(Event)
            BY <1>1, <1>2, <3>1, HeadTailAppend, HeadTailProperties
        <3>3. Run(Moves(k), 0..1, Append(Tail(physQ), e), p, Level(phys, k)')
            BY <1>2, <1>4, <2>1, <3>1, <3>2, RunAppend
        <3>4. AtEase'
            BY <1>1, <3>1 DEF AtEase
        <3> QED BY <3>1, <3>2, <3>3, <3>4 DEF RepeatRun
    <2> QED BY <1>3, <2>2, <2>3
<1>7. v + p \in Nat
    OBVIOUS
<1>8. Balance(v + p, k)'
    BY <1>1, <1>3, <1>7, OwedKept, BalanceKept
<1> QED BY <1>5, <1>6, <1>8 DEF InBalance

\* Nothing is owed once the device's queue is empty.
LEMMA NothingOwedAtRest ==
    ASSUME TypeOK, Fresh, Orderly, hook.pc = "idle", virtQ = <<>>
    PROVE  /\ \A s \in Slots : echo[s] = 0
           /\ \A k \in AllKeys : /\ Owed(k, TRUE) = 0 /\ Owed(k, FALSE) = 0
                                 /\ Record = keyboard /\ ~Coming(k)
                                 /\ Count(virtQ, Key(k, TRUE)) = 0
<1>1. \A s \in Slots : echo[s] = 0
    <2> TAKE s \in Slots
    <2>1. echo[s] + Due(s) <= Count(virtQ, Key(s[1], s[2]))
        BY DEF Fresh
    <2>2. Due(s) = 0 /\ Count(virtQ, Key(s[1], s[2])) = 0
        BY DueAtRest, CountEmpty
    <2>3. echo[s] \in Nat
        BY LimitsAssumption DEF TypeOK
    <2> QED BY <2>1, <2>2, <2>3
<1>2. \A k \in AllKeys : Count(virtQ, Key(k, TRUE)) = 0
    BY CountEmpty
<1>3. ASSUME NEW k \in AllKeys
      PROVE  Owed(k, TRUE) = 0 /\ Owed(k, FALSE) = 0 /\ Record = keyboard /\ ~Coming(k)
    <2>1. <<k, TRUE>> \in Slots /\ <<k, FALSE>> \in Slots
        BY DEF Slots
    <2>2. /\ Owed(k, TRUE) = echo[<<k, TRUE>>] /\ Owed(k, FALSE) = echo[<<k, FALSE>>]
          /\ Record = keyboard /\ (Coming(k) <=> Count(virtQ, Key(k, TRUE)) > 0)
        BY AtRest
    <2>3. ~(Count(virtQ, Key(k, TRUE)) > 0)
        <3>1. \A x : ~(Count(<<>>, x) > 0)
            BY CountEmpty
        <3> QED BY <3>1
    <2> QED BY <1>1, <2>1, <2>2, <2>3
<1> QED BY <1>1, <1>2, <1>3

\* A held key repeats when everything has settled: the one event that waits.
LEMMA RepeatKeepsLedger ==
    ASSUME TypeOK, Fresh, Plain, stale = {}, Balanced, NEW j \in AllKeys, KeyRepeats(j)
    PROVE  stale' = {} /\ \A k \in AllKeys : InBalance(k)'
<1> DEFINE e == Key(j, TRUE)
<1>1. /\ hook.pc = "idle" /\ virtQ = <<>> /\ physQ = <<>> /\ j \in phys
      /\ physQ' = Append(physQ, e)
      /\ UNCHANGED <<keyboard, echo, stale, hook, dev, virtQ, phys, apps>>
    <2>1. "burst" \notin env
        BY DEF Plain, Without
    <2> QED BY <2>1 DEF KeyRepeats, Type, Key, shared, device
<1>2. e \in Event /\ e.key = j
    BY DEF Key, Event
<1>3. /\ \A s \in Slots : echo[s] = 0
      /\ \A k \in AllKeys : Count(virtQ, Key(k, TRUE)) = 0
    BY <1>1, NothingOwedAtRest DEF Plain
<1>4. AtEase'
    BY <1>1, <1>3 DEF AtEase
<1> HIDE DEF e
<1> SUFFICES ASSUME NEW k \in AllKeys
             PROVE  InBalance(k)'
    BY <1>1
<1>5. PICK v \in 0..1, p \in 0..1 :
         DeviceRun(v, k) /\ (DeskRun(p, k) \/ RepeatRun(p, k)) /\ Balance(v + p, k)
    BY DEF Balanced
<1>6. DeskRun(p, k) /\ p = Level(phys, k) /\ Level(phys, k) \in 0..1
    <2>1. DeskRun(p, k)
        BY <1>1, <1>5 DEF RepeatRun
    <2>2. Run(Moves(k), 0..1, <<>>, p, Level(phys, k))
        BY <1>1, <2>1 DEF DeskRun
    <2>3. p = Level(phys, k)
        BY <2>2, RunEmpty
    <2> QED BY <2>1, <2>3
<1>7. DeviceRun(v, k)'
    BY <1>1, <1>5 DEF DeviceRun, Level
<1>8. (DeskRun(p, k) \/ RepeatRun(p, k))'
    <2>1. CASE k = j
        <3>1. p = 1 /\ Level(phys, k)' = 1
            BY <1>1, <1>6, <2>1 DEF Level
        <3>2. physQ' /= <<>> /\ Head(physQ') = e /\ Tail(physQ') = <<>>
            BY <1>1
        <3>3. Run(Moves(k), 0..1, <<>>, 1, 1)
            BY RunEmpty
        <3> QED BY <1>4, <2>1, <3>1, <3>2, <3>3 DEF RepeatRun, e
    <2>2. CASE k /= j
        <3>1. <<Level(phys, k), e, Level(phys, k)>> \in Moves(k)
            BY <1>2, <1>6, <2>2, MoveIs
        <3>2. Run(Moves(k), 0..1, Append(physQ, e), p, Level(phys, k))
            BY <1>2, <1>6, <3>1, QueuesAreEvents, RunAppend DEF DeskRun
        <3>3. physQ' = Append(physQ, e) /\ Level(phys, k)' = Level(phys, k)
            BY <1>1 DEF Level
        <3> QED BY <3>2, <3>3 DEF DeskRun
    <2> QED BY <2>1, <2>2
<1>9. v + p \in Nat
    OBVIOUS
<1>10. Balance(v + p, k)'
    BY <1>1, <1>5, <1>9, OwedKept, BalanceKept
<1> QED BY <1>7, <1>8, <1>10 DEF InBalance

\* A modifier that moves on another desktop moves for the user and for the
\* applications at once; the device has no part in it.
LEMMA ElsewhereKeepsLedger ==
    ASSUME TypeOK, Fresh, Plain, stale = {}, Balanced, NEW j \in Mods, ModifierMovesElsewhere(j)
    PROVE  stale' = {} /\ \A k \in AllKeys : InBalance(k)'
<1>1. /\ hook.pc = "idle" /\ virtQ = <<>> /\ physQ = <<>>
      /\ phys' = IF j \in phys THEN phys \ {j} ELSE phys \cup {j}
      /\ apps' = IF j \in phys THEN apps \ {j} ELSE apps \cup {j}
      /\ UNCHANGED <<keyboard, echo, stale, hook, dev, virtQ, physQ>>
    BY DEF ModifierMovesElsewhere, shared, device
<1> SUFFICES ASSUME NEW k \in AllKeys
             PROVE  InBalance(k)'
    BY <1>1
<1>2. PICK v \in 0..1, p \in 0..1 :
         DeviceRun(v, k) /\ (DeskRun(p, k) \/ RepeatRun(p, k)) /\ Balance(v + p, k)
    BY DEF Balanced
<1>3. DeviceRun(v, k)'
    BY <1>1, <1>2 DEF DeviceRun, Level
<1>4. CASE k /= j
    <2>1. DeskRun(p, k)'
        BY <1>1, <1>2, <1>4 DEF DeskRun, RepeatRun, Level
    <2>2. v + p \in Nat /\ (k \in apps' => k \in apps)
        BY <1>1, <1>4
    <2>3. Balance(v + p, k)'
        BY <1>1, <1>2, <2>2, OwedKept, BalanceKept
    <2> QED BY <1>3, <2>1, <2>3 DEF InBalance
<1>5. CASE k = j
    <2>1. PICK m \in 0..1 : m = Level(phys', k)
        BY LevelType
    <2>2. Run(Moves(k), 0..1, <<>>, m, m)
        BY <2>1, RunEmpty
    <2>3. DeskRun(m, k)'
        BY <1>1, <2>1, <2>2 DEF DeskRun, Level
    <2>4. k \in apps' => m = 1
        BY <1>1, <1>5, <2>1 DEF Level
    <2>5. Balance(v + m, k)'
        <3> DEFINE T == Owed(k, TRUE)
                   F == Owed(k, FALSE)
                   r == Level(Record, k)
        <3> SUFFICES /\ T' \in 0..1 /\ F' \in 0..1
                     /\ (v + m) + T' >= 2 * r' + F'
                     /\ k \in apps' => v + m >= 1 + r' \/ (Coming(k)' /\ v + m >= r')
            BY DEF Balance
        <3>1. T = 0 /\ F = 0 /\ Record = keyboard
            BY <1>1, NothingOwedAtRest DEF Plain
        <3>2. k \notin keyboard
            BY <1>5, KeysAssumption DEF TypeOK
        <3>3. T' = T /\ F' = F /\ r' = r /\ r = 0
            BY <1>1, <3>1, <3>2, OwedKept DEF Level
        <3> HIDE DEF T, F, r
        <3> QED BY <2>4, <3>1, <3>3
    <2> QED BY <1>3, <2>1, <2>3, <2>5 DEF InBalance
<1> QED BY <1>4, <1>5

LEMMA LedgerInit == Init => Ledger
<1> SUFFICES ASSUME Init
             PROVE  stale = {} /\ \A k \in AllKeys : InBalance(k)
    BY InBalanceAll DEF Ledger
<1>1. /\ hook.pc = "idle" /\ keyboard = {} /\ echo = [s \in Slots |-> 0] /\ stale = {}
      /\ dev = {} /\ virtQ = <<>> /\ physQ = <<>> /\ phys = {} /\ apps = {}
    BY HookRecord DEF Init
<1> SUFFICES ASSUME NEW k \in AllKeys
             PROVE  InBalance(k)
    BY <1>1
<1>2. Level({}, k) = 0
    BY DEF Level
<1>3. Run(Moves(k), 0..1, <<>>, 0, 0)
    BY RunEmpty
<1>4. DeviceRun(0, k) /\ DeskRun(0, k)
    BY <1>1, <1>2, <1>3 DEF DeviceRun, DeskRun
<1>5. Balance(0, k)
    <2>1. ~Busy /\ ~Counting(k, TRUE) /\ ~Counting(k, FALSE)
        BY <1>1 DEF Busy, Counting
    <2>2. Record = {} /\ Level(Record, k) = 0
        BY <1>1, <1>2, <2>1 DEF Record
    <2>3. echo[<<k, TRUE>>] = 0 /\ echo[<<k, FALSE>>] = 0
        BY <1>1 DEF Slots
    <2> DEFINE T == Owed(k, TRUE)
               F == Owed(k, FALSE)
               r == Level(Record, k)
    <2> SUFFICES /\ T \in 0..1 /\ F \in 0..1 /\ 0 + T >= 2 * r + F
                 /\ k \in apps => 0 >= 1 + r \/ (Coming(k) /\ 0 >= r)
        BY DEF Balance
    <2>4. T = 0 + 0 /\ F = 0 + 0
        BY <2>1, <2>3 DEF Owed
    <2>5. r = 0 /\ k \notin apps
        BY <1>1, <2>2
    <2> HIDE DEF T, F, r
    <2> QED BY <2>4, <2>5
<1>6. 0 \in 0..1 /\ 0 + 0 = 0
    OBVIOUS
<1> QED BY <1>4, <1>5, <1>6 DEF InBalance

LEMMA LedgerNext ==
    TypeOK /\ Custody /\ InHand /\ Exact /\ Fresh /\ Ledger /\ [Next]_vars => Ledger'
<1> SUFFICES ASSUME TypeOK, Custody, InHand, Exact, Fresh, Ledger, [Next]_vars, Plain'
             PROVE  stale' = {} /\ \A k \in AllKeys : InBalance(k)'
    BY InBalanceAll DEF Ledger, Balanced, InBalance
<1>1. Plain /\ closer = "idle" /\ closer' = "idle" /\ ui /= "busy"
    BY OrderlyBefore, OrderlyFacts DEF Plain, Without
<1>2. stale = {} /\ Balanced
    BY <1>1 DEF Ledger
<1>3. CASE HookGetsKey
    BY <1>1, <1>2, <1>3, KeyKeepsLedger
<1>4. CASE HookGetsEcho
    BY <1>1, <1>2, <1>4, EchoKeepsLedger
<1>5. CASE HookStep
    BY <1>1, <1>2, <1>5, CallbackKeepsLedger
<1>6. CASE UiOn \/ UiLocks \/ UNCHANGED vars
    <2>1. UNCHANGED <<keyboard, echo, stale, hook, dev, virtQ, physQ, phys, apps>>
        BY <1>6 DEF UiOn, UiLocks, vars, shared, device, user
    <2> QED BY <1>2, <2>1, NothingKeepsLedger
<1>7. CASE UiOff
    BY <1>1, <1>2, <1>7, OffKeepsLedger
<1>8. CASE UiReleases
    BY <1>1, <1>2, <1>8, ReleaseKeepsLedger
<1>9. ~UiBusy /\ ~UiDone /\ ~CloseStops /\ ~CloseReleases /\ ~CloseUnplugs
    BY <1>1 DEF UiBusy, UiDone, CloseStops, CloseReleases, CloseUnplugs, Plain, Orderly,
                Without
<1>10. ASSUME NEW k \in AllKeys, UserMoves(k)
       PROVE  stale' = {} /\ \A j \in AllKeys : InBalance(j)'
    BY <1>2, <1>10, UserKeepsLedger
<1>11. ASSUME NEW k \in AllKeys, KeyRepeats(k)
       PROVE  stale' = {} /\ \A j \in AllKeys : InBalance(j)'
    BY <1>1, <1>2, <1>11, RepeatKeepsLedger
<1>12. ASSUME NEW m \in Mods, ModifierMovesElsewhere(m)
       PROVE  stale' = {} /\ \A j \in AllKeys : InBalance(j)'
    BY <1>1, <1>2, <1>12, ElsewhereKeepsLedger
<1>13. ~\E s \in Slots : EchoLapses(s)
    BY <1>1 DEF EchoLapses, Plain, Without
<1>14. CASE Next
    BY <1>3, <1>4, <1>5, <1>6, <1>7, <1>8, <1>9, <1>10, <1>11, <1>12, <1>13, <1>14
       DEF Next, Ui, Close, World
<1> QED BY <1>6, <1>14

LEMMA LedgerHolds == Spec => [](IInv /\ Exact /\ Fresh /\ Ledger)
<1>1. Init => IInv /\ Exact /\ Fresh /\ Ledger
    BY CustodyInit, InHandInit, ReachedInit, TypeInit, ExactInit, FreshInit, LedgerInit
       DEF IInv
<1>2. (IInv /\ Exact /\ Fresh /\ Ledger) /\ [Next]_vars => (IInv /\ Exact /\ Fresh /\ Ledger)'
    BY NextKeepsType, CustodyNext, InHandNext, ReachedNext, ExactNext, FreshNext, LedgerNext
       DEF IInv
<1> QED BY <1>1, <1>2, PTL DEF Spec

\* What the ledger says of a key once every event has been dealt with: the two
\* levels are what the device holds and what the user holds down.
LEMMA SettledBalance ==
    ASSUME IInv, Exact, Fresh, Ledger, Plain, Quiet, NEW k \in AllKeys
    PROVE  /\ dev = keyboard
           /\ Level(dev, k) + Level(phys, k) >= 2 * Level(keyboard, k)
           /\ k \in apps => Level(dev, k) + Level(phys, k) >= 1 + Level(keyboard, k)
<1>1. /\ TypeOK /\ Orderly /\ hook.pc = "idle" /\ ~Releasing /\ virtQ = <<>> /\ physQ = <<>>
    BY DEF IInv, Plain, Quiet, Settled, Releasing
<1>2. dev = keyboard
    BY <1>1 DEF Exact, Holds
<1>3. PICK v \in 0..1, p \in 0..1 :
         DeviceRun(v, k) /\ (DeskRun(p, k) \/ RepeatRun(p, k)) /\ Balance(v + p, k)
    BY DEF Ledger, Balanced
<1>4. v = Level(dev, k)
    BY <1>1, <1>3, RunEmpty DEF DeviceRun
<1>5. p = Level(phys, k)
    <2>1. DeskRun(p, k)
        BY <1>1, <1>3 DEF RepeatRun
    <2> QED BY <1>1, <2>1, RunEmpty DEF DeskRun
<1>6. Owed(k, TRUE) = 0 /\ Owed(k, FALSE) = 0 /\ Record = keyboard /\ ~Coming(k)
    BY <1>1, NothingOwedAtRest
<1>7. /\ (v + p) + 0 >= 2 * Level(keyboard, k) + 0
      /\ k \in apps => v + p >= 1 + Level(keyboard, k)
    BY <1>3, <1>6 DEF Balance
<1>8. Level(keyboard, k) \in 0..1
    BY LevelType
<1> QED BY <1>2, <1>4, <1>5, <1>7, <1>8

\* No key stays down on the virtual keyboard that the user has let go, once
\* every event has been dealt with: whichever way on_key's events and the echoes
\* of its reports have overtaken one another, with keys that repeat, a switch
\* that goes on and off and modifiers that move on another desktop.
THEOREM NoKeyOnDevice == Spec => []NoKeyLeftOnDevice
<1>1. IInv /\ Exact /\ Fresh /\ Ledger => NoKeyLeftOnDevice
    <2> SUFFICES ASSUME IInv, Exact, Fresh, Ledger, Quiet, plugged, NEW k \in dev,
                        Without({"race", "refuse", "contend", "burst", "late"})
                 PROVE  k \in phys
        BY DEF NoKeyLeftOnDevice, NothingStuck
    <2>1. Plain /\ k \in AllKeys
        BY DEF Plain, Orderly, Without, IInv, TypeOK, Custody, Quiet, Settled, AllKeys
    <2>2. dev = keyboard /\ Level(dev, k) + Level(phys, k) >= 2 * Level(keyboard, k)
        BY <2>1, SettledBalance
    <2> QED BY <2>2 DEF Level
<1> QED BY <1>1, LedgerHolds, PTL

\* ... and no application is left with a key down that the user has let go.
THEOREM NoKeyInApps == Spec => []NoKeyLeftInApps
<1>1. IInv /\ Exact /\ Fresh /\ Ledger => NoKeyLeftInApps
    <2> SUFFICES ASSUME IInv, Exact, Fresh, Ledger, Quiet, plugged, NEW k \in apps,
                        Without({"race", "refuse", "contend", "burst", "late"})
                 PROVE  k \in phys
        BY DEF NoKeyLeftInApps
    <2>1. Plain /\ k \in AllKeys
        BY DEF Plain, Orderly, Without, IInv, TypeOK, Custody, Quiet, Settled
    <2>2. dev = keyboard /\ Level(dev, k) + Level(phys, k) >= 1 + Level(keyboard, k)
        BY <2>1, SettledBalance
    <2> QED BY <2>2 DEF Level
<1> QED BY <1>1, LedgerHolds, PTL
=============================================================================
