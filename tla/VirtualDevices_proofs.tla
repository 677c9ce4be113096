------------------------ MODULE VirtualDevices_proofs ------------------------
(***************************************************************************)
(* What is proved of VirtualDevices, for every number of attempts at a     *)
(* plug and every surroundings:                                            *)
(*                                                                         *)
(*   TypeCorrect     its type invariant, list by list of steps;            *)
(*   Recorded        no device of this session is missing from the record  *)
(*                   while the menu waits (Calm and Kept);                 *)
(*   PairKept        the menu finds a pair or nothing, and the record      *)
(*                   says which (Track and Cleaners);                      *)
(*   WorkIsFinished  a device that is left at the end is left by a window  *)
(*                   that was closed, and excused by work that was cut     *)
(*                   short (Covered and Due).                              *)
(*   NobodyWaits     the lock around the record and the watchdog are never *)
(*                   waited for in vain (Locked and Guarded).              *)
(*                                                                         *)
(* The last three are about threads that are lists of steps: most lemmas   *)
(* say what a list looks like before and after a step.                     *)
(***************************************************************************)
EXTENDS VirtualDevices, TLAPS, SequenceTheorems

\* The steps a thread can have ahead of it before a cleanup begins, and those of
\* a thread that leaves the cleanup to another.
Plain     == Steps \ {"flag"}
Modest    == Steps \ {"flag", "take", "letGo"}

\* The type invariant in parts: the lists of steps, the plug in hand, who holds
\* what, the bus, the answers, the flags, the lamp.
Listed(S) == steps \in [Threads -> Seq(S)]
Counted   == kind \in Devices /\ tries \in 1..PlugAttempts
Placed    == /\ refs \subseteq {"app", "shared", "main", "closer"}
             /\ cleaner \in Threads \cup {"nobody"} /\ lock \in Threads \cup {"free"}
             /\ watchdog \in {"none", "watching", "stopping"}
OnTheBus  == /\ record \subseteq Devices
             /\ bus \subseteq Devices /\ going \subseteq bus /\ theirs \subseteq bus
Answered  == ok \in BOOLEAN /\ refused \in BOOLEAN /\ was \in BOOLEAN /\ on \in BOOLEAN
Flagged   == leaving \in BOOLEAN /\ conn \in BOOLEAN /\ claim \in BOOLEAN
             /\ closing \in BOOLEAN /\ ended \in BOOLEAN
Lit       == stale \in BOOLEAN /\ lamp \in BOOLEAN /\ lampWas \in BOOLEAN

LEMMA Parts ==
    TypeOK <=> /\ env \in SUBSET Behaviours
               /\ Listed(Steps) /\ Counted /\ Placed /\ OnTheBus /\ Answered /\ Flagged /\ Lit
    BY DEF TypeOK, Listed, Counted, Placed, OnTheBus, Answered, Flagged, Lit

-----------------------------------------------------------------------------
\* Lists of steps.
LEMMA Lists ==
    ASSUME NEW S
    PROVE
    /\ <<>> \in Seq(S)
    /\ \A a \in S : <<a>> \in Seq(S)
    /\ \A a, b \in S : <<a, b>> \in Seq(S)
    /\ \A a, b, c \in S : <<a, b, c>> \in Seq(S)
    /\ \A a, b, c, d \in S : <<a, b, c, d>> \in Seq(S)
    OBVIOUS

LEMMA Appended ==
    ASSUME NEW S, NEW p \in Seq(S), NEW q \in Seq(S)
    PROVE  p \o q \in Seq(S)
    OBVIOUS

\* The lists that functions of the code come to.
LEMMA Called ==
    ASSUME NEW S, Modest \subseteq S
    PROVE
    /\ Unplug \in Seq(S) /\ Park \in Seq(S) /\ DriverDrop \in Seq(S)
    /\ AfterRun \in Seq(S)
    /\ Unplug \o <<"close", "replug">> \in Seq(S)
    /\ Unplug \o <<"unplugged", "recreated", "menu">> \in Seq(S)
    /\ Unplug \o <<"disconnect", "sweep">> \o DriverDrop \in Seq(S)
<1>1. {"unplug", "sweep", "unguard", "restore", "unclaim", "appDrop", "close", "replug",
       "unplugged", "recreated", "menu", "disconnect"} \subseteq S
    BY DEF Steps, Modest
<1>2. /\ Unplug \in Seq(S) /\ Park \in Seq(S) /\ DriverDrop \in Seq(S)
      /\ AfterRun \in Seq(S)
    BY <1>1, Lists DEF Unplug, Park, DriverDrop, AfterRun
<1>3. /\ <<"close", "replug">> \in Seq(S) /\ <<"unplugged", "recreated", "menu">> \in Seq(S)
      /\ <<"disconnect", "sweep">> \in Seq(S)
    BY <1>1, Lists
<1> QED BY <1>2, <1>3, Appended

\* The lists that steps put in front.
LEMMA Literals ==
    ASSUME NEW S, Modest \subseteq S
    PROVE
    {<<"unplug">>, <<"unplug", "sweep">>, <<"unplug", "sweep", "unguard", "restore">>,
     <<"unclaim", "appDrop">>, <<"watch", "started">>, <<"prepare">>, <<"leftovers">>,
     <<"unguard", "restore">>, <<"open">>, <<"wait", "open">>, <<"create">>,
     <<"check", "created">>, <<"plug">>, <<"recheck">>, <<"record">>, <<"check">>,
     <<"close", "replug">>, <<"wait", "check">>, <<"sweep", "stop">>, <<"bind">>,
     <<"wait", "reopen">>, <<"install">>, <<"menu">>, <<"unplugged", "recreated", "menu">>,
     <<"sweep", "close", "rebuilt">>, <<"unwrap">>, <<"disconnect", "sweep">>,
     <<"cleanUp", "letApp">>, <<"unplugKeyboard", "unplugMouse">>, <<"cleanUp">>,
     <<"letApp">>}
        \subseteq Seq(S)
<1>1. {"appDrop", "bind", "check", "cleanUp", "close", "create", "created", "disconnect",
       "install", "leftovers", "letApp", "menu", "open", "plug", "prepare", "rebuilt",
       "recheck", "record", "recreated", "reopen", "replug", "restore", "started", "stop",
       "sweep", "unclaim", "unguard", "unplug", "unplugKeyboard", "unplugMouse",
       "unplugged", "unwrap", "wait", "watch"}
        \subseteq S
    BY DEF Steps, Modest
<1>2. {<<"unplug">>, <<"unplug", "sweep">>, <<"unplug", "sweep", "unguard", "restore">>,
       <<"unclaim", "appDrop">>, <<"watch", "started">>, <<"prepare">>, <<"leftovers">>,
       <<"unguard", "restore">>} \subseteq Seq(S)
    BY <1>1, Lists
<1>3. {<<"open">>, <<"wait", "open">>, <<"create">>, <<"check", "created">>, <<"plug">>,
       <<"recheck">>, <<"record">>, <<"check">>} \subseteq Seq(S)
    BY <1>1, Lists
<1>4. {<<"close", "replug">>, <<"wait", "check">>, <<"sweep", "stop">>, <<"bind">>,
       <<"wait", "reopen">>, <<"install">>, <<"menu">>, <<"unplugged", "recreated", "menu">>}
           \subseteq Seq(S)
    BY <1>1, Lists
<1>5. {<<"sweep", "close", "rebuilt">>, <<"unwrap">>, <<"disconnect", "sweep">>,
       <<"cleanUp", "letApp">>, <<"unplugKeyboard", "unplugMouse">>} \subseteq Seq(S)
    BY <1>1, Lists
<1>6. {<<"cleanUp">>, <<"letApp">>} \subseteq Seq(S)
    BY <1>1, Lists
<1> QED BY <1>2, <1>3, <1>4, <1>5, <1>6

\* A thread that goes on has a list of steps, and so has main when run returns.
LEMMA GoesOn ==
    ASSUME NEW S, Listed(S), NEW t \in Threads, NEW step, At(t, step), NEW next \in Seq(S),
           Go(t, next)
    PROVE  Listed(S)'
<1>1. steps[t] \in Seq(S) /\ steps[t] /= <<>>
    BY DEF Listed, At
<1>2. next \o Tail(steps[t]) \in Seq(S)
    BY <1>1, Appended
<1> QED BY <1>2 DEF Listed, Go

LEMMA Returns ==
    ASSUME NEW S, Listed(S), Modest \subseteq S, NEW dropping \in Seq(S), Return(dropping)
    PROVE  Listed(S)'
<1>1. dropping \o AfterRun \in Seq(S)
    BY Called, Appended
<1> QED BY <1>1 DEF Listed, Return

-----------------------------------------------------------------------------
LEMMA InitTyped == Init => TypeOK
<1> SUFFICES ASSUME Init PROVE TypeOK
    OBVIOUS
<1>1. <<"watch", "started">> \in Seq(Steps) /\ <<>> \in Seq(Steps)
    BY Literals, Lists DEF Modest
<1>2. Listed(Steps)
    BY <1>1 DEF Init, Listed, Threads
<1>3. Counted /\ Placed /\ OnTheBus
    BY AttemptsAssumption DEF Init, Counted, Placed, OnTheBus, Devices
<1>4. Answered /\ Flagged /\ Lit
    BY DEF Init, Answered, Flagged, Lit
<1>5. env \in SUBSET Behaviours
    BY EnvAssumption DEF Init
<1> QED BY <1>2, <1>3, <1>4, <1>5, Parts

LEMMA StepListed ==
    ASSUME NEW S, Plain \subseteq S, Listed(S), Next, "flag" \in S \/ cleaner' = "nobody"
    PROVE  Listed(S)'
<1>l. <<>> \in Seq(S)
    BY Lists
<1>p. Modest \subseteq S /\ "take" \in S /\ "letGo" \in S
    BY DEF Modest, Plain, Steps
<1>m. "main" \in Threads
    BY DEF Threads
<1>1. CASE Watch \/ Prepare \/ Leftovers \/ Wait \/ Open
    BY <1>1, <1>m, <1>l, <1>p, Literals, Called, GoesOn, Returns DEF Watch, Prepare, Leftovers,
           Wait, Open
<1>2. CASE Create \/ Check \/ Recheck
    BY <1>2, <1>m, <1>l, <1>p, Literals, Called, GoesOn DEF Create, Check, Recheck, PlugFails
<1>13. CASE Plug /\ steps' /= steps
    BY <1>13, <1>m, <1>l, <1>p, Literals, Called, GoesOn DEF Plug, PlugFails
<1>3. CASE Record \/ Created \/ Replug
    BY <1>3, <1>m, <1>l, <1>p, Literals, Called, GoesOn DEF Record, Created, Replug
<1>4. CASE Close \/ Stop \/ Bind \/ Reopen
    BY <1>4, <1>m, <1>l, <1>p, Literals, Called, GoesOn DEF Close, Stop, Bind, Reopen, RebuildFails
<1>5. CASE Started \/ Install
    BY <1>5, <1>m, <1>l, <1>p, Literals, Called, GoesOn, Returns DEF Started, Install
<1>6. CASE Unplugged \/ Rebuilt \/ Recreated
    BY <1>6, <1>m, <1>l, <1>p, Literals, Called, GoesOn DEF Unplugged, Rebuilt, Recreated
<1>7. CASE Unwrap \/ Quit
    BY <1>7, <1>m, <1>l, <1>p, Literals, Called, Returns DEF Unwrap, Quit
<1>8. CASE Disconnect \/ Unclaim \/ AppDrop \/ LetApp
    BY <1>8, <1>m, <1>l, <1>p, Literals, Called, GoesOn DEF Disconnect, Unclaim, AppDrop, LetApp,
           LetsGo
<1>9. CASE Recreate \/ Remove
    BY <1>9, <1>m, <1>l, <1>p, Literals, Called, GoesOn DEF Recreate, Remove
<1>10. ASSUME NEW t \in Threads, CleanStep(t) PROVE Listed(S)'
  <2>0. CASE CleanUp(t)
    <3>1. "flag" \in S => <<"flag">> \in Seq(S)
        BY Lists
    <3> QED BY <1>l, <2>0, <3>1, GoesOn DEF CleanUp, Threads
  <2>1. CASE Flag(t) \/ Take(t) \/ LetGo(t)
    <3>1. <<"take">> \in Seq(S) /\ <<"letGo">> \in Seq(S)
        BY <1>p, Lists
    <3>2. Park \o <<"letGo">> \in Seq(S)
        BY <1>p, <3>1, Called, Appended
    <3> QED BY <2>1, <1>l, <1>p, <3>1, <3>2, Called, GoesOn DEF Flag, Take, LetGo, LetsGo
  <2>2. CASE UnplugLocks(t) \/ UnplugKeyboard(t) \/ UnplugMouse(t)
    BY <2>2, <1>l, <1>p, Literals, Called, GoesOn DEF UnplugLocks, UnplugKeyboard, UnplugMouse
  <2>3. CASE Sweep(t) \/ Unguard(t) \/ Restore(t)
    BY <2>3, <1>l, <1>p, Literals, Called, GoesOn DEF Sweep, Unguard, Restore
  <2> QED BY <1>10, <2>0, <2>1, <2>2, <2>3 DEF CleanStep
<1>11. CASE WindowCloses
    <2>1. <<"cleanUp">> \in Seq(S)
        BY <1>p, Literals
    <2> QED BY <1>11, <2>1 DEF WindowCloses, Listed
<1>12. CASE UNCHANGED steps
    BY <1>12 DEF Listed
<1> QED
    BY <1>1, <1>2, <1>3, <1>4, <1>5, <1>6, <1>7, <1>8, <1>9, <1>10, <1>11, <1>12, <1>13
       DEF Next, MainStep, Commands, Toggle, Watchdog, WatchdogLooks, WatchdogStops, Windows,
           LampReturns, AnotherCopyPlugs, ProcessEnds, DeviceLeaves

LEMMA StepTyped ==
    ASSUME TypeOK, [Next]_vars
    PROVE  TypeOK'
<1>0. /\ env \in SUBSET Behaviours
      /\ Listed(Steps) /\ Counted /\ Placed /\ OnTheBus /\ Answered /\ Flagged /\ Lit
    BY Parts
<1> USE DEF locals, owners, leave, driver, onBus, lamps, process
<1>1. CASE UNCHANGED vars
    BY <1>0, <1>1 DEF vars, TypeOK, Listed, Counted, Placed, OnTheBus, Answered, Flagged, Lit
<1> SUFFICES ASSUME Next PROVE TypeOK'
    BY <1>1
<1>2. Listed(Steps)'
    BY <1>0, StepListed DEF Plain, Steps
<1> USE DEF Next, MainStep, Watch, Prepare, Leftovers, Wait, Open, Create, Check, Plug,
           Recheck, Record, Created, Replug, Close, Stop, Bind, Reopen, Started, Install,
           Unplugged, Rebuilt, Recreated, Unwrap, Disconnect, Unclaim, AppDrop, LetApp,
           Commands, Toggle, Recreate, Quit, Remove, Watchdog, WatchdogLooks, WatchdogStops,
           Windows, LampReturns, WindowCloses, AnotherCopyPlugs, ProcessEnds, CleanStep,
           CleanUp, Flag, Take, LetGo, UnplugLocks, UnplugKeyboard, UnplugMouse, Sweep,
           Unguard, Restore, DeviceLeaves, LetsGo, PlugsFirst, PlugFails, RebuildFails,
           SweepsBus, Unplugs, UnplugRefused, PlugAccepted, PlugRefused, Rebinds,
           UnplugsRecorded
<1>3. env' \in SUBSET Behaviours
    BY <1>0
<1>4. Counted'
    BY <1>0, AttemptsAssumption DEF Counted, Devices
<1>5. Placed'
  <2>1. refs' \subseteq {"app", "shared", "main", "closer"}
    BY <1>0 DEF Placed, Threads
  <2>2. cleaner' \in Threads \cup {"nobody"}
    BY <1>0 DEF Placed, Threads
  <2>3. lock' \in Threads \cup {"free"}
    BY <1>0 DEF Placed, Threads
  <2>4. watchdog' \in {"none", "watching", "stopping"}
    BY <1>0 DEF Placed, Threads
  <2> QED BY <2>1, <2>2, <2>3, <2>4 DEF Placed
<1>6. OnTheBus'
    BY <1>0 DEF OnTheBus, Counted, Devices
<1>7. Answered'
    BY <1>0, ZenonT(60) DEF Answered
<1>8. Flagged'
    BY <1>0, ZenonT(60) DEF Flagged
<1>9. Lit'
    BY <1>0, ZenonT(60) DEF Lit
<1> QED BY <1>2, <1>3, <1>4, <1>5, <1>6, <1>7, <1>8, <1>9
        DEF TypeOK, Listed, Counted, Placed, OnTheBus, Answered, Flagged, Lit

-----------------------------------------------------------------------------
\* Every variable keeps its type: an attempt never passes PLUG_ATTEMPTS, and only
\* what is on the bus is told to leave it.
THEOREM TypeCorrect == Spec => []TypeOK
    BY InitTyped, StepTyped, PTL DEF Spec

-----------------------------------------------------------------------------
\* Before the cleanup begins nobody has raised SHUTTING_DOWN or is about to.
Calm == cleaner = "nobody" => Listed(Plain) /\ ~leaving

\* The device main has plugged and not yet written down.
Pending ==
    IF steps["main"] /= <<>> /\ Head(steps["main"]) \in {"recheck", "record"}
    THEN {kind} ELSE {}

\* Until then every device of ours that has not been told to go is in the record
\* or about to be.
Kept == cleaner = "nobody" => Left \subseteq record \cup Pending

IInv == TypeOK /\ Calm /\ Kept

LEMMA InitInv == Init => IInv
<1> SUFFICES ASSUME Init PROVE IInv
    OBVIOUS
<1>1. <<"watch", "started">> \in Seq(Plain) /\ <<>> \in Seq(Plain)
    BY Literals, Lists DEF Plain, Modest
<1>2. Calm
    BY <1>1 DEF Init, Calm, Listed, Threads
<1>3. Kept
    BY DEF Init, Kept, Left
<1> QED BY <1>2, <1>3, InitTyped DEF IInv

\* Once a thread has begun to clean up there always is one that has.
LEMMA FirstToClean ==
    ASSUME TypeOK, Next, cleaner' = "nobody"
    PROVE  cleaner = "nobody"
    BY DEF locals, owners, leave, driver, onBus, lamps, process, Threads, TypeOK, Next,
           MainStep, Watch, Prepare, Leftovers, Wait, Open, Create, Check, Plug, Recheck,
           Record, Created, Replug, Close, Stop, Bind, Reopen, Started, Install, Unplugged,
           Rebuilt, Recreated, Unwrap, Disconnect, Unclaim, AppDrop, LetApp, Commands, Toggle,
           Recreate, Quit, Remove, Watchdog, WatchdogLooks, WatchdogStops, Windows,
           LampReturns, WindowCloses, AnotherCopyPlugs, ProcessEnds, CleanStep, CleanUp, Flag,
           Take, LetGo, UnplugLocks, UnplugKeyboard, UnplugMouse, Sweep, Unguard, Restore,
           DeviceLeaves, LetsGo, PlugsFirst, PlugFails, RebuildFails, SweepsBus, Unplugs,
           UnplugRefused, PlugAccepted, PlugRefused, Rebinds, UnplugsRecorded

LEMMA StepCalm ==
    ASSUME TypeOK, Calm, Next
    PROVE  Calm'
<1> SUFFICES ASSUME cleaner' = "nobody" PROVE Listed(Plain)' /\ ~leaving'
    BY DEF Calm
<1>1. cleaner = "nobody"
    BY FirstToClean
<1>2. Listed(Plain) /\ ~leaving
    BY <1>1 DEF Calm
<1>3. Listed(Plain)'
    BY <1>2, StepListed
<1>4. ASSUME NEW t \in Threads PROVE ~Flag(t)
  <2>1. steps[t] \in Seq(Plain)
    BY <1>2 DEF Listed
  <2>2. steps[t] /= <<>> => Head(steps[t]) \in Plain
    BY <2>1
  <2> QED BY <2>2 DEF Flag, At, Plain
<1>5. leaving' = leaving
    BY <1>4 DEF locals, owners, leave, driver, onBus, lamps, process, Next, MainStep, Watch,
           Prepare, Leftovers, Wait, Open, Create, Check, Plug, Recheck, Record, Created,
           Replug, Close, Stop, Bind, Reopen, Started, Install, Unplugged, Rebuilt, Recreated,
           Unwrap, Disconnect, Unclaim, AppDrop, LetApp, Commands, Toggle, Recreate, Quit,
           Remove, Watchdog, WatchdogLooks, WatchdogStops, Windows, LampReturns, WindowCloses,
           AnotherCopyPlugs, ProcessEnds, CleanStep, CleanUp, Flag, Take, LetGo, UnplugLocks,
           UnplugKeyboard, UnplugMouse, Sweep, Unguard, Restore, DeviceLeaves, LetsGo,
           PlugsFirst, PlugFails, RebuildFails, SweepsBus, Unplugs, UnplugRefused,
           PlugAccepted, PlugRefused, Rebinds, UnplugsRecorded
<1> QED BY <1>2, <1>3, <1>5

\* Only a plug adds a device that is not in the record.
LEMMA Shrinks ==
    ASSUME TypeOK, Next, ~Plug
    PROVE  Left' \ record' \subseteq Left \ record
    BY DEF TypeOK, Left, locals, owners, leave, driver, onBus, lamps, process, Next, MainStep,
           Watch, Prepare, Leftovers, Wait, Open, Create, Check, Plug, Recheck, Record,
           Created, Replug, Close, Stop, Bind, Reopen, Started, Install, Unplugged, Rebuilt,
           Recreated, Unwrap, Disconnect, Unclaim, AppDrop, LetApp, Commands, Toggle,
           Recreate, Quit, Remove, Watchdog, WatchdogLooks, WatchdogStops, Windows,
           LampReturns, WindowCloses, AnotherCopyPlugs, ProcessEnds, CleanStep, CleanUp, Flag,
           Take, LetGo, UnplugLocks, UnplugKeyboard, UnplugMouse, Sweep, Unguard, Restore,
           DeviceLeaves, LetsGo, PlugsFirst, PlugFails, RebuildFails, SweepsBus, Unplugs,
           UnplugRefused, PlugAccepted, PlugRefused, Rebinds, UnplugsRecorded

\* What main does next stays in front of it until it does it.
LEMMA Stays ==
    ASSUME TypeOK, Next, steps["main"] /= <<>>, Head(steps["main"]) \in {"recheck", "record"},
           ~Recheck, ~Record
    PROVE  steps'["main"] = steps["main"] /\ kind' = kind
<1>1. ~MainStep /\ ~Commands /\ ~CleanStep("main")
    BY DEF MainStep, Watch, Prepare, Leftovers, Wait, Open, Create, Check, Plug, Created,
           Replug, Close, Stop, Bind, Reopen, Started, Install, Unplugged, Rebuilt, Recreated,
           Unwrap, Disconnect, Unclaim, AppDrop, LetApp, Commands, Toggle, Recreate, Quit,
           Remove, CleanStep, CleanUp, Flag, Take, LetGo, UnplugLocks, UnplugKeyboard,
           UnplugMouse, Sweep, Unguard, Restore, At
<1>2. CASE CleanStep("closer")
    BY <1>2 DEF TypeOK, Go, locals, owners, leave, driver, onBus, lamps, process, CleanStep,
           CleanUp, Flag, Take, LetGo, LetsGo, UnplugLocks, UnplugKeyboard, UnplugMouse,
           Sweep, Unguard, Restore, Threads
<1>3. CASE Watchdog \/ Windows \/ ProcessEnds \/ \E d \in Devices : DeviceLeaves(d)
    BY <1>3 DEF TypeOK, Threads, locals, Watchdog, WatchdogLooks, WatchdogStops, Windows,
           LampReturns, WindowCloses, AnotherCopyPlugs, ProcessEnds, DeviceLeaves
<1> QED BY <1>1, <1>2, <1>3 DEF Next, Threads

\* A step that is put in front is the one main takes next.
LEMMA InFront ==
    ASSUME TypeOK, NEW step, Go("main", <<step>>)
    PROVE  steps'["main"] /= <<>> /\ Head(steps'["main"]) = step
<1>1. steps["main"] \in Seq(Steps)
    BY DEF TypeOK, Threads
<1>2. Tail(steps["main"]) \in Seq(Steps) \/ steps["main"] = <<>>
    BY <1>1
<1>3. steps'["main"] = <<step>> \o Tail(steps["main"])
    BY DEF Go, TypeOK, Threads
<1> QED BY <1>1, <1>2, <1>3

LEMMA StepKept ==
    ASSUME TypeOK, Calm, Kept, Next
    PROVE  Kept'
<1> SUFFICES ASSUME cleaner' = "nobody" PROVE Left' \subseteq record' \cup Pending'
    BY DEF Kept
<1>1. cleaner = "nobody"
    BY FirstToClean
<1>2. ~leaving /\ Left \subseteq record \cup Pending
    BY <1>1 DEF Calm, Kept
<1>3. CASE Plug
  <2>1. Pending = {} /\ record' = record /\ kind' = kind
    BY <1>3 DEF Plug, Pending, At, driver
  <2>2. CASE PlugAccepted /\ Go("main", <<"recheck">>)
    <3>1. Pending' = {kind}
        BY <2>1, <2>2, InFront DEF Pending
    <3> QED BY <1>2, <2>1, <2>2, <3>1 DEF PlugAccepted, Left
  <2>3. CASE PlugRefused
    BY <1>2, <2>1, <2>3 DEF PlugRefused, onBus, Left
  <2> QED BY <1>3, <2>2, <2>3 DEF Plug
<1>4. CASE Recheck
  <2>1. kind' = kind /\ record' = record /\ onBus' = onBus /\ Pending \subseteq {kind}
    BY <1>2, <1>4 DEF Recheck, driver, Pending
  <2>2. Pending' = {kind}
    BY <1>2, <1>4, <2>1, InFront DEF Recheck, Pending
  <2> QED BY <1>2, <2>1, <2>2 DEF onBus, Left
<1>5. CASE Record
  <2>1. record' = record \cup {kind} /\ Left' = Left /\ Pending \subseteq {kind}
    BY <1>5 DEF Record, onBus, Left, Pending
  <2> QED BY <1>2, <2>1
<1>6. CASE ~Plug /\ ~Recheck /\ ~Record
  <2>1. Pending \subseteq Pending'
    BY <1>6, Stays DEF Pending
  <2> QED BY <1>2, <1>6, <2>1, Shrinks
<1> QED BY <1>3, <1>4, <1>5, <1>6

LEMMA Inductive == Spec => []IInv
<1>1. IInv /\ [Next]_vars => IInv'
  <2> SUFFICES ASSUME IInv, [Next]_vars PROVE IInv'
    OBVIOUS
  <2>1. CASE Next
    BY <2>1, StepTyped, StepCalm, StepKept DEF IInv
  <2>2. CASE UNCHANGED vars
    BY <2>2, StepTyped DEF IInv, Calm, Kept, Left, Pending, Listed, vars, leave, driver, onBus,
           locals
  <2> QED BY <2>1, <2>2
<1> QED BY <1>1, InitInv, PTL DEF Spec

\* In the menu no device of this session is missing from the record, whatever
\* Windows refused to take away and however often the bus was rebuilt.
THEOREM Recorded == Spec => []NothingUnrecorded
<1>1. IInv => NothingUnrecorded
    BY DEF IInv, Kept, Pending, NothingUnrecorded, InMenu, At
<1> QED BY <1>1, Inductive, PTL

-----------------------------------------------------------------------------
(***************************************************************************)
(* Where main is.  Its list is one of a few kinds, named for the steps in  *)
(* front; T is what comes after the function that plugs the devices.       *)
(***************************************************************************)
Main == steps["main"]

Then(H, K) == {l \in Seq(Steps) : l /= <<>> /\ Head(l) \in H /\ Tail(l) \in K}

\* App::start plugs the devices, or recreate_devices does.
Starting  == {<<"started">>}
Returning == {<<"recreated", "menu">>}
Callers   == {Starting, Returning}

\* A pair has been plugged or given up; a bus has been rebuilt or not.
Pairs(T)  == T \cup Then({"created"}, T)
Mends(T)  == Then({"replug", "rebuilt"}, T)

\* There is no driver yet.
Early     == Then({"watch", "prepare", "leftovers", "open"}, Starting)
               \cup Then({"wait"}, Then({"open"}, Starting))

\* The devices are all gone.
Blank(T)  == Then({"create", "unplugged"}, T)
               \cup Then({"close", "stop", "bind", "reopen"}, Mends(T))
               \cup Then({"wait"}, Then({"reopen"}, Mends(T)))
               \cup Then({"sweep"}, Then({"stop", "close"}, Mends(T)))
               \cup Mends(T)
Again(T)  == Then({"wait"}, Then({"check"}, Pairs(T)))

\* unplug_virtual_devices is under way, and K comes after it.
Fresh(T)  == Then({"close"}, Mends(T)) \cup Then({"unplugged"}, T)
Back(K)   == Then({"unplug"}, K) \cup Then({"unplugKeyboard"}, Then({"unplugMouse"}, K))
Half(K)   == Then({"unplugMouse"}, K)

\* The steps of a main that will not come back to the menu, and of the closer.
GoneSteps == {"unplug", "unplugKeyboard", "unplugMouse", "sweep", "disconnect", "unguard",
              "restore", "unclaim", "appDrop", "cleanUp", "letApp", "flag", "take", "letGo"}

(***************************************************************************)
(* What the record says at each place, while nobody cleans up and Windows  *)
(* takes away what it is asked to.                                         *)
(***************************************************************************)
Careful == cleaner = "nobody" /\ Without({"refuse"})

Empty   == record = {} /\ Left = {}
Trying  == \/ kind = "keyboard" /\ Empty
           \/ kind = "mouse" /\ record = {"keyboard"} /\ Left = {"keyboard"} /\ conn
Pended  == \/ kind = "keyboard" /\ record = {} /\ Left = {"keyboard"}
           \/ kind = "mouse" /\ record = {"keyboard"} /\ Left = Devices
Level   == record = Left /\ (record /= {} => conn)
Lone    == Level /\ "keyboard" \notin record
Result  == \/ ok = TRUE /\ record = Devices /\ Left = Devices /\ conn
           \/ ok = FALSE /\ Empty
Paired  == record = Left /\ record \in {{}, Devices} /\ (ok => record = Devices)
           /\ (record /= {} => conn)

\* The holders of the driver while a pair is plugged, and in the menu.
Owns(T) == \/ T = Starting /\ refs = {"main"}
           \/ T = Returning /\ refs = {"app", "shared"}
           \/ T = Returning /\ leaving /\ refs \in {{"app"}, {"app", "closer"}}

Making(T) ==
    \/ Main \in Blank(T) /\ (Careful => Empty)
    \/ Main \in Again(T) /\ (Careful => Empty /\ kind = "keyboard")
    \/ Main \in Then({"check", "plug"}, Pairs(T)) /\ (Careful => Trying)
    \/ Main \in Then({"recheck", "record"}, Pairs(T)) /\ conn /\ (Careful => Pended)
    \/ Main \in Back(Pairs(T)) /\ (Careful => Level /\ ok = FALSE)
    \/ Main \in Back(Fresh(T)) /\ (Careful => Level)
    \/ Main \in Half(Pairs(T)) /\ (Careful => Lone /\ ok = FALSE)
    \/ Main \in Half(Fresh(T)) /\ (Careful => Lone)
    \/ Main \in Pairs(T) /\ (Careful => Result)

Gone == Main \in Seq(GoneSteps) /\ ("main" \in refs => cleaner = "main")

Track ==
    \/ Main \in Early /\ refs = {} /\ (Careful => Empty)
    \/ \E T \in Callers : Owns(T) /\ Making(T)
    \/ Main = <<"install">> /\ refs = {"main"} /\ (Careful => Paired)
    \/ Main = <<"menu">> /\ Owns(Returning) /\ (Careful => Paired)
    \/ Main = <<"unwrap">> /\ refs \in {{"app"}, {"app", "closer"}}
    \/ Gone

-----------------------------------------------------------------------------
\* Lists again: what is in front of what.
LEMMA Longer ==
    ASSUME NEW S, NEW s \in Seq(S)
    PROVE
    /\ <<>> \o s = s
    /\ \A a \in S : /\ <<a>> \o s \in Seq(S) /\ <<a>> \o s /= <<>>
                    /\ Head(<<a>> \o s) = a /\ Tail(<<a>> \o s) = s
<1>1. <<>> \o s = s
    OBVIOUS
<1>2. \A a \in S : <<a>> \o s \in Seq(S) /\ <<a>> \o s /= <<>>
    OBVIOUS
<1>3. \A a \in S : Head(<<a>> \o s) = a
    OBVIOUS
<1>4. \A a \in S : Tail(<<a>> \o s) = s
    OBVIOUS
<1> QED BY <1>1, <1>2, <1>3, <1>4

LEMMA LongerByTwo ==
    ASSUME NEW S, NEW s \in Seq(S), NEW a \in S, NEW b \in S
    PROVE  <<a, b>> \o s = <<a>> \o (<<b>> \o s)
<1>5. <<a, b>> = <<a>> \o <<b>>
  <2> DEFINE l == <<a>> \o <<b>>
  <2>1. <<a>> \in Seq(S) /\ <<b>> \in Seq(S) /\ Len(<<a>>) = 1 /\ Len(<<b>>) = 1
      OBVIOUS
  <2>2. l \in Seq(S) /\ Len(l) = 2
      BY <2>1, ConcatProperties
  <2>3. l[1] = a /\ l[2] = b
      BY <2>1, ConcatProperties
  <2> HIDE DEF l
  <2>4. <<a, b>> \in Seq(S) /\ Len(<<a, b>>) = 2
      OBVIOUS
  <2>5. \A i \in 1..2 : <<a, b>>[i] = l[i]
      BY <2>3
  <2>6. <<a, b>> = l
      BY <2>2, <2>4, <2>5, SeqEqual
  <2> QED BY <2>6 DEF l
<1> QED BY <1>5, ConcatAssociative

LEMMA LongerByThree ==
    ASSUME NEW S, NEW s \in Seq(S), NEW a \in S, NEW b \in S, NEW c \in S
    PROVE  <<a, b, c>> \o s = <<a>> \o (<<b>> \o (<<c>> \o s))
<1>6. <<a, b, c>> = <<a>> \o <<b, c>>
  <2> DEFINE l == <<a>> \o <<b, c>>
  <2>1. <<a>> \in Seq(S) /\ <<b, c>> \in Seq(S) /\ Len(<<a>>) = 1 /\ Len(<<b, c>>) = 2
      OBVIOUS
  <2>2. l \in Seq(S) /\ Len(l) = 3
      BY <2>1, ConcatProperties
  <2>3. l[1] = a /\ l[2] = b /\ l[3] = c
      BY <2>1, ConcatProperties
  <2> HIDE DEF l
  <2>4. <<a, b, c>> \in Seq(S) /\ Len(<<a, b, c>>) = 3
      OBVIOUS
  <2>5. \A i \in 1..3 : <<a, b, c>>[i] = l[i]
      BY <2>3
  <2>6. <<a, b, c>> = l
      BY <2>2, <2>4, <2>5, SeqEqual
  <2> QED BY <2>6 DEF l
<1>1. (<<a>> \o <<b, c>>) \o s = <<a>> \o (<<b, c>> \o s)
    BY ConcatAssociative
<1>2. <<b, c>> \o s = <<b>> \o (<<c>> \o s)
    BY LongerByTwo
<1> QED BY <1>1, <1>2, <1>6

LEMMA Joined ==
    /\ Unplug \o <<"close", "replug">> = <<"unplug", "close", "replug">>
    /\ Unplug \o <<"unplugged", "recreated", "menu">>
         = <<"unplug", "unplugged", "recreated", "menu">>
<1> DEFINE p == <<"close", "replug">>
           q == <<"unplugged", "recreated", "menu">>
<1>0. {"unplug", "close", "replug", "unplugged", "recreated", "menu"} \subseteq Steps
    BY DEF Steps
<1>1. p \in Seq(Steps) /\ q \in Seq(Steps) /\ <<"unplug">> \in Seq(Steps)
    BY <1>0, Lists
<1>2. <<"unplug", "close", "replug">> = <<"unplug">> \o p
  <2> DEFINE l == <<"unplug">> \o p
  <2>1. l \in Seq(Steps) /\ Len(l) = 3 /\ l[1] = "unplug" /\ l[2] = "close" /\ l[3] = "replug"
      BY <1>1, ConcatProperties
  <2> HIDE DEF l
  <2> DEFINE r == <<"unplug", "close", "replug">>
  <2>2. r \in Seq(Steps) /\ Len(r) = 3 /\ \A i \in 1..3 : r[i] = l[i]
      BY <1>0, <2>1
  <2> HIDE DEF r
  <2>3. r = l
      BY <2>1, <2>2, SeqEqual
  <2> QED BY <2>3 DEF r, l
<1>3. <<"unplug", "unplugged", "recreated", "menu">> = <<"unplug">> \o q
  <2> DEFINE l == <<"unplug">> \o q
  <2>1. /\ l \in Seq(Steps) /\ Len(l) = 4
        /\ l[1] = "unplug" /\ l[2] = "unplugged" /\ l[3] = "recreated" /\ l[4] = "menu"
      BY <1>1, ConcatProperties
  <2> HIDE DEF l
  <2> DEFINE r == <<"unplug", "unplugged", "recreated", "menu">>
  <2>2. r \in Seq(Steps) /\ Len(r) = 4 /\ \A i \in 1..4 : r[i] = l[i]
      BY <1>0, <2>1
  <2> HIDE DEF r
  <2>3. r = l
      BY <2>1, <2>2, SeqEqual
  <2> QED BY <2>3 DEF r, l
<1> QED BY <1>2, <1>3 DEF Unplug

\* What is put in front of a list of K.
LEMMA Fronted ==
    ASSUME NEW K, NEW s \in Seq(Steps), s \in K
    PROVE
    /\ \A a \in Steps : <<a>> \o s \in Then({a}, K)
    /\ \A a, b \in Steps : <<a, b>> \o s \in Then({a}, Then({b}, K))
    /\ \A a, b, c \in Steps : <<a, b, c>> \o s \in Then({a}, Then({b}, Then({c}, K)))
<1>1. ASSUME NEW L, NEW l \in Seq(Steps), l \in L, NEW a \in Steps
      PROVE  <<a>> \o l \in Then({a}, L) /\ <<a>> \o l \in Seq(Steps)
  <2>1. /\ <<a>> \o l \in Seq(Steps) /\ <<a>> \o l /= <<>>
        /\ Head(<<a>> \o l) = a /\ Tail(<<a>> \o l) = l
      BY <1>1, Longer
  <2> DEFINE r == <<a>> \o l
  <2>2. r \in Seq(Steps) /\ r /= <<>> /\ Head(r) \in {a} /\ Tail(r) \in L
      BY <1>1, <2>1
  <2> HIDE DEF r
  <2>3. r \in Then({a}, L)
      BY <2>2 DEF Then
  <2> QED BY <2>2, <2>3 DEF r
<1>2. ASSUME NEW a \in Steps, NEW b \in Steps
      PROVE  <<a, b>> \o s \in Then({a}, Then({b}, K))
  <2>1. <<a, b>> \o s = <<a>> \o (<<b>> \o s)
      BY LongerByTwo
  <2> DEFINE r == <<b>> \o s
  <2>2. r \in Seq(Steps) /\ r \in Then({b}, K)
      BY <1>1
  <2> HIDE DEF r
  <2>3. <<a>> \o r \in Then({a}, Then({b}, K))
      BY <1>1, <2>2
  <2> QED BY <2>1, <2>3 DEF r
<1>3. ASSUME NEW a \in Steps, NEW b \in Steps, NEW c \in Steps
      PROVE  <<a, b, c>> \o s \in Then({a}, Then({b}, Then({c}, K)))
  <2>0. <<b, c>> \o s = <<b>> \o (<<c>> \o s)
      BY LongerByTwo
  <2>1. <<a, b, c>> \o s = <<a>> \o (<<b>> \o (<<c>> \o s))
      BY LongerByThree
  <2> DEFINE r == <<b>> \o (<<c>> \o s)
  <2>2. r \in Then({b}, Then({c}, K))
      BY <1>2, <2>0
  <2>3. <<c>> \o s \in Seq(Steps)
      BY Longer
  <2>4. r \in Seq(Steps)
      BY <2>3, Longer
  <2> HIDE DEF r
  <2>5. <<a>> \o r \in Then({a}, Then({b}, Then({c}, K)))
      BY <1>1, <2>2, <2>4
  <2> QED BY <2>1, <2>5 DEF r
<1> QED BY <1>1, <1>2, <1>3

\* Main goes on with K, or with what it puts in front of it.
LEMMA MainGoes ==
    ASSUME TypeOK, Main /= <<>>, NEW K, Tail(Main) \in K
    PROVE
    /\ Go("main", <<>>) => Main' \in K
    /\ \A a \in Steps : Go("main", <<a>>) => Main' \in Then({a}, K)
    /\ \A a, b \in Steps : Go("main", <<a, b>>) => Main' \in Then({a}, Then({b}, K))
    /\ \A a, b, c \in Steps :
          Go("main", <<a, b, c>>) => Main' \in Then({a}, Then({b}, Then({c}, K)))
<1>1. Tail(Main) \in Seq(Steps)
    BY DEF TypeOK, Main, Threads
<1>2. \A next : Go("main", next) => Main' = next \o Tail(Main)
    BY DEF TypeOK, Main, Threads, Go
<1> DEFINE L == Tail(Main)
<1>3. L \in Seq(Steps) /\ L \in K
    BY <1>1
<1> HIDE DEF L
<1>4. <<>> \o L = L
    BY <1>3, Longer
<1>5. \A next : Go("main", next) => Main' = next \o L
    BY <1>2 DEF L
<1>6. Go("main", <<>>) => Main' \in K
    BY <1>3, <1>4, <1>5
<1>7. \A a \in Steps : Go("main", <<a>>) => Main' \in Then({a}, K)
    BY <1>3, <1>5, Fronted
<1>f. /\ \A a, b \in Steps : <<a, b>> \o L \in Then({a}, Then({b}, K))
      /\ \A a, b, c \in Steps : <<a, b, c>> \o L \in Then({a}, Then({b}, Then({c}, K)))
    BY <1>3, Fronted
<1>8. \A a, b \in Steps : Go("main", <<a, b>>) => Main' \in Then({a}, Then({b}, K))
    BY <1>5, <1>f
<1>9. \A a, b, c \in Steps :
         Go("main", <<a, b, c>>) => Main' \in Then({a}, Then({b}, Then({c}, K)))
    BY <1>5, <1>f
<1> QED BY <1>6, <1>7, <1>8, <1>9

LEMMA Wider ==
    ASSUME NEW A, NEW B, NEW K, NEW L, A \subseteq B, K \subseteq L
    PROVE  Then(A, K) \subseteq Then(B, L)
    BY DEF Then

\* Every kind of list is known by its first step.
LEMMA Heads ==
    ASSUME NEW T \in Callers, NEW K
    PROVE
    /\ \A l \in T : l /= <<>> /\ Head(l) \in {"started", "recreated"}
    /\ \A l \in Pairs(T) : l /= <<>> /\ Head(l) \in {"started", "recreated", "created"}
    /\ \A l \in Early : l /= <<>> /\ Head(l) \in {"watch", "prepare", "leftovers", "open", "wait"}
    /\ \A l \in Blank(T) :
          l /= <<>> /\ Head(l) \in {"create", "unplugged", "close", "stop", "bind", "reopen",
                                    "replug", "rebuilt", "wait", "sweep"}
    /\ \A l \in Again(T) : l /= <<>> /\ Head(l) = "wait"
    /\ \A l \in Back(K) : l /= <<>> /\ Head(l) \in {"unplug", "unplugKeyboard"}
    /\ \A l \in Half(K) : l /= <<>> /\ Head(l) = "unplugMouse"
<1>1. \A l \in T : l /= <<>> /\ Head(l) \in {"started", "recreated"}
    BY DEF Callers, Starting, Returning
<1>2. \A l \in Pairs(T) : l /= <<>> /\ Head(l) \in {"started", "recreated", "created"}
    BY <1>1 DEF Pairs, Then
<1>3. \A l \in Early : l /= <<>> /\ Head(l) \in {"watch", "prepare", "leftovers", "open", "wait"}
    BY DEF Early, Then
<1>4. \A l \in Blank(T) :
         l /= <<>> /\ Head(l) \in {"create", "unplugged", "close", "stop", "bind", "reopen",
                                   "replug", "rebuilt", "wait", "sweep"}
    BY DEF Blank, Mends, Then
<1>5. \A l \in Again(T) : l /= <<>> /\ Head(l) = "wait"
    BY DEF Again, Then
<1>6. \A l \in Back(K) : l /= <<>> /\ Head(l) \in {"unplug", "unplugKeyboard"}
    BY DEF Back, Then
<1>7. \A l \in Half(K) : l /= <<>> /\ Head(l) = "unplugMouse"
    BY DEF Half, Then
<1> QED BY <1>1, <1>2, <1>3, <1>4, <1>5, <1>6, <1>7

\* Making(T), told from the first step: what comes after it and what the record says.
LEMMA Place ==
    ASSUME NEW T \in Callers, Making(T)
    PROVE
    /\ Main /= <<>>
    /\ Head(Main) \in {"create", "unplugged"} => Tail(Main) \in T /\ (Careful => Empty)
    /\ Head(Main) \in {"close", "stop", "bind", "reopen"} =>
          Tail(Main) \in Mends(T) /\ (Careful => Empty)
    /\ Head(Main) \in {"replug", "rebuilt"} => Tail(Main) \in T /\ (Careful => Empty)
    /\ Head(Main) = "wait" =>
          \/ Tail(Main) \in Then({"reopen"}, Mends(T)) /\ (Careful => Empty)
          \/ Tail(Main) \in Then({"check"}, Pairs(T)) /\ (Careful => Empty /\ kind = "keyboard")
    /\ Head(Main) = "sweep" =>
          Tail(Main) \in Then({"stop", "close"}, Mends(T)) /\ (Careful => Empty)
    /\ Head(Main) \in {"check", "plug"} => Tail(Main) \in Pairs(T) /\ (Careful => Trying)
    /\ Head(Main) \in {"recheck", "record"} =>
          Tail(Main) \in Pairs(T) /\ conn /\ (Careful => Pended)
    /\ Head(Main) \in {"started", "recreated", "created"} =>
          Main \in Pairs(T) /\ (Careful => Result)
    /\ Head(Main) \in {"create", "unplugged", "close", "stop", "bind", "reopen", "replug",
                       "rebuilt", "wait", "sweep", "check", "plug", "recheck", "record", "started",
                       "recreated", "created", "unplug", "unplugKeyboard", "unplugMouse"}
<1>1. CASE Main \in Blank(T) /\ (Careful => Empty)
  <2>1. CASE Main \in Then({"create", "unplugged"}, T)
      BY <1>1, <2>1 DEF Then
  <2>2. CASE Main \in Then({"close", "stop", "bind", "reopen"}, Mends(T))
      BY <1>1, <2>2 DEF Then
  <2>3. CASE Main \in Then({"wait"}, Then({"reopen"}, Mends(T)))
    <3> DEFINE K == Then({"reopen"}, Mends(T))
    <3> HIDE DEF K
    <3>1. Main \in Then({"wait"}, K)
        BY <2>3 DEF K
    <3>2. Main /= <<>> /\ Head(Main) = "wait" /\ Tail(Main) \in K
        BY <3>1 DEF Then
    <3> QED BY <1>1, <3>2 DEF K
  <2>4. CASE Main \in Then({"sweep"}, Then({"stop", "close"}, Mends(T)))
    <3> DEFINE K == Then({"stop", "close"}, Mends(T))
    <3> HIDE DEF K
    <3>1. Main \in Then({"sweep"}, K)
        BY <2>4 DEF K
    <3>2. Main /= <<>> /\ Head(Main) = "sweep" /\ Tail(Main) \in K
        BY <3>1 DEF Then
    <3> QED BY <1>1, <3>2 DEF K
  <2>5. CASE Main \in Mends(T)
      BY <1>1, <2>5 DEF Mends, Then
  <2> QED BY <1>1, <2>1, <2>2, <2>3, <2>4, <2>5 DEF Blank
<1>2. CASE Main \in Again(T) /\ (Careful => Empty /\ kind = "keyboard")
  <2> DEFINE K == Then({"check"}, Pairs(T))
  <2> HIDE DEF K
  <2>1. Main \in Then({"wait"}, K)
      BY <1>2 DEF Again, K
  <2>2. Main /= <<>> /\ Head(Main) = "wait" /\ Tail(Main) \in K
      BY <2>1 DEF Then
  <2> QED BY <1>2, <2>2 DEF K
<1>3. CASE Main \in Then({"check", "plug"}, Pairs(T)) /\ (Careful => Trying)
    BY <1>3 DEF Then
<1>4. CASE Main \in Then({"recheck", "record"}, Pairs(T)) /\ conn /\ (Careful => Pended)
    BY <1>4 DEF Then
<1>5. CASE \/ Main \in Back(Pairs(T)) \/ Main \in Back(Fresh(T))
           \/ Main \in Half(Pairs(T)) \/ Main \in Half(Fresh(T))
    BY <1>5, Heads
<1>6. CASE Main \in Pairs(T) /\ (Careful => Result)
    BY <1>6, Heads
<1> QED BY <1>1, <1>2, <1>3, <1>4, <1>5, <1>6 DEF Making

\* The same for the steps of unplug_virtual_devices, which K follows.
LEMMA PlaceUnplug ==
    ASSUME NEW T \in Callers, Making(T), Head(Main) \in {"unplug", "unplugKeyboard", "unplugMouse"}
    PROVE  \E K \in {Pairs(T), Fresh(T)} :
              /\ K = Pairs(T) /\ Careful => ok = FALSE
              /\ Careful => Level
              /\ Head(Main) = "unplug" => Tail(Main) \in K
              /\ Head(Main) = "unplugKeyboard" => Tail(Main) \in Then({"unplugMouse"}, K)
              /\ Head(Main) = "unplugMouse" => Tail(Main) \in K /\ (Careful => Lone)
<1>1. \E K \in {Pairs(T), Fresh(T)} :
         /\ K = Pairs(T) /\ Careful => ok = FALSE
         /\ \/ Main \in Back(K) /\ (Careful => Level)
            \/ Main \in Half(K) /\ (Careful => Lone)
  <2>1. ~(Main \in Blank(T) \/ Main \in Again(T) \/ Main \in Pairs(T))
      BY Heads
  <2>2. /\ Main \notin Then({"check", "plug"}, Pairs(T))
        /\ Main \notin Then({"recheck", "record"}, Pairs(T))
      BY DEF Then
  <2>3. \/ Main \in Back(Pairs(T)) /\ (Careful => Level /\ ok = FALSE)
        \/ Main \in Back(Fresh(T)) /\ (Careful => Level)
        \/ Main \in Half(Pairs(T)) /\ (Careful => Lone /\ ok = FALSE)
        \/ Main \in Half(Fresh(T)) /\ (Careful => Lone)
      BY <2>1, <2>2 DEF Making
  <2>4. CASE Careful /\ ok /= FALSE
    <3>1. Pairs(T) /= Fresh(T)
      <4>1. T \subseteq Pairs(T) /\ \E l : l \in T
          BY DEF Pairs, Callers, Starting, Returning
      <4>2. \A l \in Fresh(T) : Head(l) \in {"close", "unplugged"}
          BY DEF Fresh, Then
      <4> QED BY <4>1, <4>2, Heads
    <3> QED BY <2>3, <2>4, <3>1
  <2>5. CASE ~(Careful /\ ok /= FALSE)
      BY <2>3, <2>5
  <2> QED BY <2>4, <2>5
<1>2. PICK K \in {Pairs(T), Fresh(T)} :
         /\ K = Pairs(T) /\ Careful => ok = FALSE
         /\ \/ Main \in Back(K) /\ (Careful => Level)
            \/ Main \in Half(K) /\ (Careful => Lone)
    BY <1>1
<1>3. CASE Main \in Back(K) /\ (Careful => Level)
  <2> DEFINE L == Then({"unplugMouse"}, K)
  <2> HIDE DEF L
  <2>1. Main \in Then({"unplug"}, K) \/ Main \in Then({"unplugKeyboard"}, L)
      BY <1>3 DEF Back, L
  <2>2. \/ Head(Main) = "unplug" /\ Tail(Main) \in K
        \/ Head(Main) = "unplugKeyboard" /\ Tail(Main) \in L
      BY <2>1 DEF Then
  <2> QED BY <1>2, <1>3, <2>2 DEF L
<1>4. CASE Main \in Half(K) /\ (Careful => Lone)
    BY <1>2, <1>4 DEF Half, Then, Lone
<1> QED BY <1>2, <1>3, <1>4

\* Where main is, told from the step in front.
LEMMA Located ==
    ASSUME TypeOK, Track, Main /= <<>>
    PROVE
    /\ Head(Main) \in {"watch", "prepare", "leftovers", "open"} =>
          refs = {} /\ Tail(Main) \in Starting /\ (Careful => Empty)
    /\ Head(Main) = "wait" =>
          \/ refs = {} /\ Tail(Main) \in Then({"open"}, Starting) /\ (Careful => Empty)
          \/ \E T \in Callers : Owns(T) /\ Making(T)
    /\ Head(Main) \in {"create", "check", "plug", "recheck", "record", "created", "replug",
                       "close", "stop", "bind", "reopen", "started", "unplugged", "rebuilt",
                       "recreated"} =>
          \E T \in Callers : Owns(T) /\ Making(T)
    /\ Head(Main) = "install" =>
          Main = <<"install">> /\ refs = {"main"} /\ (Careful => Paired)
    /\ Head(Main) = "menu" => Main = <<"menu">> /\ Owns(Returning) /\ (Careful => Paired)
    /\ Head(Main) = "unwrap" => Main = <<"unwrap">> /\ refs \in {{"app"}, {"app", "closer"}}
    /\ Head(Main) \in {"unplug", "unplugKeyboard", "unplugMouse", "sweep"} =>
          Gone \/ \E T \in Callers : Owns(T) /\ Making(T)
    /\ Head(Main) \in {"disconnect", "unguard", "restore", "unclaim", "appDrop", "cleanUp",
                       "letApp", "flag", "take", "letGo"} => Gone
<1>1. CASE Main \in Early /\ refs = {} /\ (Careful => Empty)
  <2> DEFINE K == Then({"open"}, Starting)
  <2> HIDE DEF K
  <2>1. Main \in Then({"watch", "prepare", "leftovers", "open"}, Starting)
          \/ Main \in Then({"wait"}, K)
      BY <1>1 DEF Early, K
  <2>2. \/ Head(Main) \in {"watch", "prepare", "leftovers", "open"} /\ Tail(Main) \in Starting
        \/ Head(Main) = "wait" /\ Tail(Main) \in K
      BY <2>1 DEF Then
  <2> QED BY <1>1, <2>2 DEF K
<1>2. CASE \E T \in Callers : Owns(T) /\ Making(T)
    BY <1>2, Place
<1>3. CASE Main = <<"install">> /\ refs = {"main"} /\ (Careful => Paired)
  <2>1. Head(Main) = "install"
      BY <1>3
  <2> QED BY <1>3, <2>1
<1>4. CASE Main = <<"menu">> /\ Owns(Returning) /\ (Careful => Paired)
  <2>1. Head(Main) = "menu"
      BY <1>4
  <2> QED BY <1>4, <2>1
<1>5. CASE Main = <<"unwrap">> /\ refs \in {{"app"}, {"app", "closer"}}
  <2>1. Head(Main) = "unwrap"
      BY <1>5
  <2> QED BY <1>5, <2>1
<1>6. CASE Gone
  <2>1. Head(Main) \in GoneSteps
      BY <1>6 DEF Gone
  <2> QED BY <1>6, <2>1 DEF GoneSteps
<1> QED BY <1>1, <1>2, <1>3, <1>4, <1>5, <1>6 DEF Track

\* A return from run() leaves main on its way out.
LEMMA GoesOut ==
    ASSUME TypeOK, NEW l \in Seq(GoneSteps), Return(l), "main" \notin refs'
    PROVE  Gone'
<1>1. AfterRun \in Seq(GoneSteps)
    BY DEF AfterRun, GoneSteps
<1>2. l \o AfterRun \in Seq(GoneSteps)
    BY <1>1
<1>3. Main' = l \o AfterRun
    BY DEF Return, Main, TypeOK, Threads
<1> QED BY <1>2, <1>3 DEF Gone

\* The lists that are dropped on the way out.
LEMMA WayOut ==
    /\ <<>> \in Seq(GoneSteps) /\ DriverDrop \in Seq(GoneSteps)
    /\ <<"unguard", "restore">> \in Seq(GoneSteps) /\ Park \o <<"letGo">> \in Seq(GoneSteps)
    /\ Unplug \o <<"disconnect", "sweep">> \o DriverDrop \in Seq(GoneSteps)
    /\ <<"unplugKeyboard", "unplugMouse">> \in Seq(GoneSteps)
    /\ <<"cleanUp", "letApp">> \in Seq(GoneSteps) /\ <<"letApp">> \in Seq(GoneSteps)
    /\ <<"flag">> \in Seq(GoneSteps) /\ <<"take">> \in Seq(GoneSteps)
<1> DEFINE S == GoneSteps
<1>1. {"unplug", "unplugKeyboard", "unplugMouse", "sweep", "disconnect", "unguard",
       "restore", "cleanUp", "letApp", "flag", "take", "letGo"} \subseteq S
    BY DEF GoneSteps
<1> HIDE DEF S
<1>2. /\ <<>> \in Seq(S) /\ DriverDrop \in Seq(S) /\ Park \in Seq(S) /\ Unplug \in Seq(S)
      /\ <<"disconnect", "sweep">> \in Seq(S) /\ <<"letGo">> \in Seq(S)
    BY <1>1, Lists DEF DriverDrop, Park, Unplug
<1>3. /\ <<"unguard", "restore">> \in Seq(S) /\ <<"unplugKeyboard", "unplugMouse">> \in Seq(S)
      /\ <<"cleanUp", "letApp">> \in Seq(S) /\ <<"letApp">> \in Seq(S)
      /\ <<"flag">> \in Seq(S) /\ <<"take">> \in Seq(S)
    BY <1>1, Lists
<1>4. Park \o <<"letGo">> \in Seq(S)
    BY <1>2, Appended
<1>5. Unplug \o <<"disconnect", "sweep">> \o DriverDrop \in Seq(S)
    BY <1>2, Appended
<1> QED BY <1>2, <1>3, <1>4, <1>5 DEF S

\* The surroundings do not change while the program runs.
LEMMA EnvStays ==
    ASSUME TypeOK, Next
    PROVE  env' = env
    BY DEF Next, MainStep, Watch, Prepare, Leftovers, Wait, Open, Create, Check, Plug, Recheck,
           Record, Created, Replug, Close, Stop, Bind, Reopen, Started, Install, Unplugged,
           Rebuilt, Recreated, Unwrap, Disconnect, Unclaim, AppDrop, LetApp, Commands, Toggle,
           Recreate, Quit, Remove, Watchdog, WatchdogLooks, WatchdogStops, Windows,
           LampReturns, WindowCloses, AnotherCopyPlugs, ProcessEnds, CleanStep, CleanUp, Flag,
           Take, LetGo, UnplugLocks, UnplugKeyboard, UnplugMouse, Sweep, Unguard, Restore,
           DeviceLeaves

\* A cleanup that has begun is not taken back, and the surroundings do not change.
LEMMA CarefulBefore ==
    ASSUME TypeOK, Calm, Next
    PROVE  Careful' => Careful /\ leaving = FALSE
<1>1. cleaner' = "nobody" => cleaner = "nobody"
    BY FirstToClean
<1>2. env' = env
    BY EnvStays
<1>3. cleaner = "nobody" => leaving = FALSE
    BY DEF Calm, TypeOK
<1> QED BY <1>1, <1>2, <1>3 DEF Careful, Without

\* Main goes on in the hands of the same holders.
LEMMA SamePlace ==
    ASSUME NEW T \in Callers, Owns(T), refs' = refs, leaving' = leaving, Making(T)'
    PROVE  Track'
<1>1. Owns(T)'
    BY DEF Owns
<1> QED BY <1>1 DEF Track

\* Driver::connect, up to the open connection.
LEMMA ConnectTracks ==
    ASSUME TypeOK, Track, Careful' => Careful,
           Watch \/ Prepare \/ Leftovers \/ Open
    PROVE  Track'
<1>1. Main /= <<>> /\ Head(Main) \in {"watch", "prepare", "leftovers", "open"}
    BY DEF Watch, Prepare, Leftovers, Open, At, Main
<1>2. refs = {} /\ Tail(Main) \in Starting /\ (Careful => Empty)
    BY <1>1, Located
<1>g. /\ \A a \in Steps : Go("main", <<a>>) => Main' \in Then({a}, Starting)
      /\ \A a, b \in Steps : Go("main", <<a, b>>) => Main' \in Then({a}, Then({b}, Starting))
    BY <1>1, <1>2, MainGoes
<1>3. /\ Go("main", <<"prepare">>) => Main' \in Then({"prepare"}, Starting)
      /\ Go("main", <<"leftovers">>) => Main' \in Then({"leftovers"}, Starting)
      /\ Go("main", <<"open">>) => Main' \in Then({"open"}, Starting)
      /\ Go("main", <<"wait", "open">>) => Main' \in Then({"wait"}, Then({"open"}, Starting))
      /\ Go("main", <<"create">>) => Main' \in Then({"create"}, Starting)
    BY <1>g DEF Steps
<1>4. /\ Then({"prepare"}, Starting) \subseteq Early
      /\ Then({"leftovers"}, Starting) \subseteq Early
      /\ Then({"open"}, Starting) \subseteq Early
      /\ Then({"wait"}, Then({"open"}, Starting)) \subseteq Early
  <2>1. \A H : H \subseteq {"watch", "prepare", "leftovers", "open"} =>
           Then(H, Starting) \subseteq Then({"watch", "prepare", "leftovers", "open"}, Starting)
      BY Wider
  <2> QED BY <2>1 DEF Early
<1>5. ASSUME Left' \subseteq Left, record' = record PROVE Careful' => Empty'
    BY <1>2, <1>5 DEF Empty
<1>6. CASE Watch
  <2>1. refs' = {} /\ Left' = Left /\ record' = record
      BY <1>2, <1>6 DEF Watch, owners, driver, onBus, Left
  <2>2. CASE Go("main", <<"prepare">>)
      BY <1>3, <1>4, <1>5, <2>1, <2>2 DEF Track
  <2>3. CASE Return(<<>>)
      BY <2>1, <2>3, GoesOut, WayOut DEF Track
  <2> QED BY <1>6, <2>2, <2>3 DEF Watch
<1>7. CASE Prepare
  <2>1. refs' = {} /\ Left' = Left /\ record' = record
      BY <1>2, <1>7 DEF Prepare, Rebinds, owners, driver, onBus, Left
  <2>2. CASE Go("main", <<"leftovers">>)
      BY <1>3, <1>4, <1>5, <2>1, <2>2 DEF Track
  <2>3. CASE Return(<<"unguard", "restore">>)
      BY <2>1, <2>3, GoesOut, WayOut DEF Track
  <2> QED BY <1>7, <2>2, <2>3 DEF Prepare
<1>8. CASE Leftovers
  <2>1. refs' = {} /\ Left' \subseteq Left /\ record' = record
      BY <1>2, <1>8 DEF Leftovers, SweepsBus, owners, driver, Left
  <2> QED BY <1>3, <1>4, <1>5, <1>8, <2>1 DEF Track, Leftovers
<1>9. CASE Open
  <2>1. Left' = Left /\ record' = record
      BY <1>9 DEF Open, onBus, Left
  <2>2. CASE refs' = {"main"} /\ Go("main", <<"create">>)
    <3>1. Starting \in Callers
        BY DEF Callers
    <3>2. Then({"create"}, Starting) \subseteq Blank(Starting)
      <4>1. Then({"create"}, Starting) \subseteq Then({"create", "unplugged"}, Starting)
          BY Wider
      <4> QED BY <4>1 DEF Blank
    <3>3. Making(Starting)'
        BY <1>3, <1>5, <2>1, <2>2, <3>2 DEF Making
    <3>4. Owns(Starting)'
        BY <2>2 DEF Owns
    <3> QED BY <3>1, <3>3, <3>4 DEF Track
  <2>3. CASE Return(<<"unguard", "restore">>) /\ UNCHANGED refs
      BY <1>2, <2>3, GoesOut, WayOut DEF Track
  <2> QED BY <1>9, <2>2, <2>3 DEF Open
<1> QED BY <1>6, <1>7, <1>8, <1>9

\* The kinds of lists that a step in front makes.
LEMMA Kinds ==
    ASSUME NEW T \in Callers
    PROVE
    /\ Then({"create"}, T) \subseteq Blank(T)
    /\ \A h \in {"close", "stop", "bind", "reopen"} : Then({h}, Mends(T)) \subseteq Blank(T)
    /\ Then({"wait"}, Then({"reopen"}, Mends(T))) \subseteq Blank(T)
    /\ Then({"sweep"}, Then({"stop"}, Mends(T))) \subseteq Blank(T)
    /\ Then({"sweep"}, Then({"close"}, Then({"rebuilt"}, T))) \subseteq Blank(T)
    /\ Then({"stop", "close"}, Mends(T)) \subseteq Blank(T)
    /\ Then({"reopen"}, Mends(T)) \subseteq Blank(T)
    /\ Mends(T) \subseteq Blank(T) /\ T \subseteq Pairs(T) /\ Fresh(T) \subseteq Blank(T)
    /\ Then({"wait"}, Then({"check"}, T)) \subseteq Again(T)
    /\ Then({"check"}, Then({"created"}, T)) \subseteq Then({"check", "plug"}, Pairs(T))
    /\ Then({"close"}, Then({"replug"}, T)) \subseteq Fresh(T)
    /\ Then({"unplugged"}, T) \subseteq Fresh(T)
<1>1. Then({"create"}, T) \subseteq Blank(T)
    BY Wider DEF Blank
<1>2. ASSUME NEW H, H \subseteq {"close", "stop", "bind", "reopen"}
      PROVE  Then(H, Mends(T)) \subseteq Blank(T)
  <2>1. Then(H, Mends(T)) \subseteq Then({"close", "stop", "bind", "reopen"}, Mends(T))
      BY <1>2, Wider
  <2> QED BY <2>1 DEF Blank
<1>3. \A h \in {"close", "stop", "bind", "reopen"} : Then({h}, Mends(T)) \subseteq Blank(T)
    BY <1>2
<1>4. Then({"wait"}, Then({"reopen"}, Mends(T))) \subseteq Blank(T)
    BY DEF Blank
<1>5. Then({"stop"}, Mends(T)) \subseteq Then({"stop", "close"}, Mends(T))
    BY Wider
<1>6. Then({"sweep"}, Then({"stop"}, Mends(T)))
         \subseteq Then({"sweep"}, Then({"stop", "close"}, Mends(T)))
    BY <1>5, Wider
<1>7. Then({"rebuilt"}, T) \subseteq Mends(T) /\ Then({"replug"}, T) \subseteq Mends(T)
    BY Wider DEF Mends
<1>8. Then({"close"}, Then({"rebuilt"}, T)) \subseteq Then({"stop", "close"}, Mends(T))
    BY <1>7, Wider
<1>9. Then({"sweep"}, Then({"close"}, Then({"rebuilt"}, T)))
         \subseteq Then({"sweep"}, Then({"stop", "close"}, Mends(T)))
    BY <1>8, Wider
<1>10. Then({"sweep"}, Then({"stop", "close"}, Mends(T))) \subseteq Blank(T)
    BY DEF Blank
<1>11. Then({"stop", "close"}, Mends(T)) \subseteq Blank(T)
    BY <1>2
<1>12. Mends(T) \subseteq Blank(T) /\ T \subseteq Pairs(T)
    BY DEF Blank, Pairs
<1>13. Then({"unplugged"}, T) \subseteq Then({"create", "unplugged"}, T)
    BY Wider
<1>14. Then({"close"}, Mends(T)) \subseteq Blank(T) /\ Then({"unplugged"}, T) \subseteq Blank(T)
    BY <1>2, <1>13 DEF Blank
<1>15. Fresh(T) \subseteq Blank(T)
    BY <1>14 DEF Fresh
<1>16. Then({"check"}, T) \subseteq Then({"check"}, Pairs(T))
    BY <1>12, Wider
<1>17. Then({"wait"}, Then({"check"}, T)) \subseteq Again(T)
    BY <1>16, Wider DEF Again
<1>18. Then({"created"}, T) \subseteq Pairs(T)
    BY DEF Pairs
<1>19. Then({"check"}, Then({"created"}, T)) \subseteq Then({"check", "plug"}, Pairs(T))
    BY <1>18, Wider
<1>20. Then({"close"}, Then({"replug"}, T)) \subseteq Fresh(T)
    BY <1>7, Wider DEF Fresh
<1>21. Then({"unplugged"}, T) \subseteq Fresh(T)
    BY DEF Fresh
<1>22. Then({"sweep"}, Then({"stop"}, Mends(T))) \subseteq Blank(T)
    BY <1>6, <1>10
<1>23. Then({"sweep"}, Then({"close"}, Then({"rebuilt"}, T))) \subseteq Blank(T)
    BY <1>9, <1>10
<1>24. Then({"reopen"}, Mends(T)) \subseteq Blank(T)
    BY <1>3
<1> QED BY <1>1, <1>3, <1>4, <1>11, <1>12, <1>15, <1>17, <1>19, <1>20, <1>21, <1>22, <1>23, <1>24

\* What main does once it goes on, with its list and the names of its steps at hand.
LEMMA MainMoves ==
    ASSUME TypeOK, Main /= <<>>, NEW K, Tail(Main) \in K
    PROVE
    /\ Go("main", <<>>) => Main' \in K
    /\ \A a \in Steps : Go("main", <<a>>) => Main' \in Then({a}, K)
    /\ \A a, b \in Steps : Go("main", <<a, b>>) => Main' \in Then({a}, Then({b}, K))
    BY MainGoes

\* keep_trying and what follows: the plugs of a pair.
LEMMA CreateTracks ==
    ASSUME TypeOK, Track, Careful' => Careful, Create
    PROVE  Track'
<1>1. Main /= <<>> /\ Head(Main) = "create"
    BY DEF Create, At, Main
<1>2. PICK T \in Callers : Owns(T) /\ Making(T)
    BY <1>1, Located
<1>3. Tail(Main) \in T /\ (Careful => Empty)
    BY <1>1, <1>2, Place
<1>4. \A a, b \in Steps : Go("main", <<a, b>>) => Main' \in Then({a}, Then({b}, T))
    BY <1>1, <1>3, MainMoves
<1>5. Main' \in Then({"check"}, Then({"created"}, T))
    BY <1>4 DEF Create, Steps
<1>6. Main' \in Then({"check", "plug"}, Pairs(T))
    BY <1>5, Kinds
<1>7. kind' = "keyboard" /\ record' = record /\ Left' = Left
    BY DEF Create, PlugsFirst, driver, onBus, Left
<1>8. Careful' => Trying'
    BY <1>3, <1>7 DEF Empty, Trying
<1>9. Making(T)'
    BY <1>6, <1>8 DEF Making
<1> QED BY <1>2, <1>9, SamePlace DEF Create, owners, leave

LEMMA CheckTracks ==
    ASSUME TypeOK, Track, Careful' => Careful /\ leaving = FALSE, Check
    PROVE  Track'
<1>1. Main /= <<>> /\ Head(Main) = "check"
    BY DEF Check, At, Main
<1>2. PICK T \in Callers : Owns(T) /\ Making(T)
    BY <1>1, Located
<1>3. Tail(Main) \in Pairs(T) /\ (Careful => Trying)
    BY <1>1, <1>2, Place
<1>4. /\ Go("main", <<>>) => Main' \in Pairs(T)
      /\ \A a \in Steps : Go("main", <<a>>) => Main' \in Then({a}, Pairs(T))
    BY <1>1, <1>3, MainMoves
<1>5. CASE leaving /\ PlugFails
  <2>1. leaving /= FALSE
      BY <1>5
  <2>2. ~Careful'
      BY <2>1
  <2>3. ASSUME Go("main", <<>>) PROVE Making(T)'
    <3>1. Main' \in Pairs(T)
        BY <1>4, <2>3
    <3> QED BY <2>2, <3>1 DEF Making
  <2>4. ASSUME Go("main", Unplug) PROVE Making(T)'
    <3>1. Main' \in Then({"unplug"}, Pairs(T))
        BY <1>4, <2>4 DEF Steps, Unplug
    <3> QED BY <2>2, <3>1 DEF Making, Back
  <2>5. Making(T)'
      BY <1>5, <2>3, <2>4 DEF PlugFails
  <2> QED BY <1>2, <2>5, SamePlace DEF Check, owners, leave
<1>6. CASE Go("main", <<"plug">>)
  <2>1. Main' \in Then({"plug"}, Pairs(T))
      BY <1>4, <1>6 DEF Steps
  <2>2. Main' \in Then({"check", "plug"}, Pairs(T))
      BY <2>1, Wider
  <2>3. kind' = kind /\ record' = record /\ conn' = conn /\ Left' = Left
      BY DEF Check, driver, onBus, Left
  <2>4. Careful' => Trying'
      BY <1>3, <2>3 DEF Empty, Trying
  <2>5. Making(T)'
      BY <2>2, <2>4 DEF Making
  <2> QED BY <1>2, <2>5, SamePlace DEF Check, owners, leave
<1> QED BY <1>5, <1>6 DEF Check

LEMMA PlugTracks ==
    ASSUME TypeOK, Track, Careful' => Careful, Plug
    PROVE  Track'
<1>1. Main /= <<>> /\ Head(Main) = "plug"
    BY DEF Plug, At, Main
<1>2. PICK T \in Callers : Owns(T) /\ Making(T)
    BY <1>1, Located
<1>3. Tail(Main) \in Pairs(T) /\ (Careful => Trying)
    BY <1>1, <1>2, Place
<1>4. /\ Go("main", <<>>) => Main' \in Pairs(T)
      /\ \A a \in Steps : Go("main", <<a>>) => Main' \in Then({a}, Pairs(T))
    BY <1>1, <1>3, MainMoves
<1>5. kind' = kind /\ record' = record /\ conn' = conn
    BY DEF Plug, driver
<1>6. CASE PlugAccepted /\ Go("main", <<"recheck">>)
  <2>1. Main' \in Then({"recheck"}, Pairs(T))
      BY <1>4, <1>6 DEF Steps
  <2>2. Main' \in Then({"recheck", "record"}, Pairs(T))
      BY <2>1, Wider
  <2>3. Left' = Left \cup {kind} /\ conn'
      BY <1>5, <1>6 DEF PlugAccepted, Left, TypeOK
  <2>4. Careful' => Pended'
    <3>1. ASSUME Trying, kind = "keyboard" PROVE Pended'
        BY <1>5, <2>3, <3>1 DEF Trying, Empty, Pended
    <3>2. ASSUME Trying, kind = "mouse" PROVE Pended'
        BY <1>5, <2>3, <3>2 DEF Trying, Pended, Devices
    <3> QED BY <1>3, <3>1, <3>2 DEF Trying
  <2>5. Making(T)'
      BY <2>2, <2>3, <2>4 DEF Making
  <2> QED BY <1>2, <2>5, SamePlace DEF Plug, owners, leave
<1>7. CASE PlugRefused /\ UNCHANGED <<ok, steps>>
  <2>1. Left' = Left /\ Main' = Main
      BY <1>7 DEF PlugRefused, onBus, Left, Main
  <2>2. Main \in Then({"check", "plug"}, Pairs(T))
      BY <1>1, <1>3 DEF Then, Main, TypeOK, Threads
  <2>3. Careful' => Trying'
      BY <1>3, <1>5, <2>1 DEF Trying, Empty
  <2>4. Making(T)'
      BY <2>1, <2>2, <2>3 DEF Making
  <2> QED BY <1>2, <2>4, SamePlace DEF Plug, owners, leave
<1>8. CASE PlugRefused /\ PlugFails
  <2>1. Left' = Left /\ ok' = FALSE
      BY <1>8 DEF PlugRefused, PlugFails, onBus, Left
  <2>2. ASSUME kind = "mouse" PROVE Making(T)'
    <3>1. Go("main", <<"unplug">>)
        BY <1>8, <2>2 DEF PlugFails, Unplug
    <3>2. Main' \in Then({"unplug"}, Pairs(T))
        BY <1>4, <3>1 DEF Steps
    <3>3. Careful' => Level'
        BY <1>3, <1>5, <2>1, <2>2 DEF Trying, Level
    <3> QED BY <2>1, <3>2, <3>3 DEF Making, Back
  <2>3. ASSUME kind /= "mouse" PROVE Making(T)'
    <3>1. Main' \in Pairs(T)
        BY <1>4, <1>8, <2>3 DEF PlugFails
    <3>2. Careful' => Result'
        BY <1>3, <1>5, <2>1, <2>3 DEF Trying, Result, Empty
    <3> QED BY <3>1, <3>2 DEF Making
  <2>4. Making(T)'
      BY <2>2, <2>3
  <2> QED BY <1>2, <2>4, SamePlace DEF Plug, owners, leave
<1> QED BY <1>6, <1>7, <1>8 DEF Plug

LEMMA RecheckTracks ==
    ASSUME TypeOK, Track, Careful' => Careful /\ leaving = FALSE, Recheck
    PROVE  Track'
<1>1. Main /= <<>> /\ Head(Main) = "recheck"
    BY DEF Recheck, At, Main
<1>2. PICK T \in Callers : Owns(T) /\ Making(T)
    BY <1>1, Located
<1>3. Tail(Main) \in Pairs(T) /\ conn /\ (Careful => Pended)
    BY <1>1, <1>2, Place
<1>4. /\ Go("main", <<>>) => Main' \in Pairs(T)
      /\ \A a \in Steps : Go("main", <<a>>) => Main' \in Then({a}, Pairs(T))
    BY <1>1, <1>3, MainMoves
<1>5. CASE leaving /\ PlugFails
  <2>1. leaving /= FALSE
      BY <1>5
  <2>2. ~Careful'
      BY <2>1
  <2>3. ASSUME Go("main", <<>>) PROVE Making(T)'
    <3>1. Main' \in Pairs(T)
        BY <1>4, <2>3
    <3> QED BY <2>2, <3>1 DEF Making
  <2>4. ASSUME Go("main", Unplug) PROVE Making(T)'
    <3>1. Main' \in Then({"unplug"}, Pairs(T))
        BY <1>4, <2>4 DEF Steps, Unplug
    <3> QED BY <2>2, <3>1 DEF Making, Back
  <2>5. Making(T)'
      BY <1>5, <2>3, <2>4 DEF PlugFails
  <2> QED BY <1>2, <2>5, SamePlace DEF Recheck, owners, leave
<1>6. CASE Go("main", <<"record">>) /\ UNCHANGED <<onBus, ok>>
  <2>1. Main' \in Then({"record"}, Pairs(T))
      BY <1>4, <1>6 DEF Steps
  <2>2. Main' \in Then({"recheck", "record"}, Pairs(T))
      BY <2>1, Wider
  <2>3. kind' = kind /\ record' = record /\ conn' = conn /\ Left' = Left
      BY <1>6 DEF Recheck, driver, onBus, Left
  <2>4. Careful' => Pended'
      BY <1>3, <2>3 DEF Pended
  <2>5. Making(T)'
      BY <1>3, <2>2, <2>3, <2>4 DEF Making
  <2> QED BY <1>2, <2>5, SamePlace DEF Recheck, owners, leave
<1> QED BY <1>5, <1>6 DEF Recheck

LEMMA RecordTracks ==
    ASSUME TypeOK, Track, Careful' => Careful, Record
    PROVE  Track'
<1>1. Main /= <<>> /\ Head(Main) = "record"
    BY DEF Record, At, Main
<1>2. PICK T \in Callers : Owns(T) /\ Making(T)
    BY <1>1, Located
<1>3. Tail(Main) \in Pairs(T) /\ conn /\ (Careful => Pended)
    BY <1>1, <1>2, Place
<1>4. /\ Go("main", <<>>) => Main' \in Pairs(T)
      /\ \A a \in Steps : Go("main", <<a>>) => Main' \in Then({a}, Pairs(T))
    BY <1>1, <1>3, MainMoves
<1>5. record' = record \cup {kind} /\ conn' = conn /\ Left' = Left
    BY DEF Record, onBus, Left
<1>6. CASE kind = "keyboard"
  <2>1. kind' = "mouse" /\ Go("main", <<"check">>)
      BY <1>6 DEF Record
  <2>2. Main' \in Then({"check"}, Pairs(T))
      BY <1>4, <2>1 DEF Steps
  <2>3. Main' \in Then({"check", "plug"}, Pairs(T))
      BY <2>2, Wider
  <2>4. Careful' => Trying'
      BY <1>3, <1>5, <1>6, <2>1 DEF Pended, Trying
  <2>5. Making(T)'
      BY <2>3, <2>4 DEF Making
  <2> QED BY <1>2, <2>5, SamePlace DEF Record, owners, leave
<1>7. CASE kind = "mouse"
  <2>1. ok' = TRUE /\ Go("main", <<>>)
      BY <1>7 DEF Record
  <2>2. Main' \in Pairs(T)
      BY <1>4, <2>1
  <2>3. Careful' => Result'
      BY <1>3, <1>5, <1>7, <2>1 DEF Pended, Result, Devices
  <2>4. Making(T)'
      BY <2>2, <2>3 DEF Making
  <2> QED BY <1>2, <2>4, SamePlace DEF Record, owners, leave
<1> QED BY <1>6, <1>7 DEF Record

\* The steps around a plug: create_virtual_devices, and its second try.
LEMMA CreatedTracks ==
    ASSUME TypeOK, Track, Careful' => Careful, Created
    PROVE  Track'
<1>1. Main /= <<>> /\ Head(Main) = "created"
    BY DEF Created, At, Main
<1>2. PICK T \in Callers : Owns(T) /\ Making(T)
    BY <1>1, Located
<1>3. Main \in Pairs(T) /\ (Careful => Result)
    BY <1>1, <1>2, Place
<1>4. Tail(Main) \in T
  <2>1. Main \notin T
      BY <1>1, Heads
  <2> QED BY <1>3, <2>1 DEF Pairs, Then
<1>5. /\ ok' = ok /\ record' = record /\ conn' = conn /\ Left' = Left
      /\ refs' = refs /\ leaving' = leaving
    BY DEF Created, locals, owners, leave, driver, onBus, Left
<1>6. CASE ok
  <2>1. Go("main", <<>>)
      BY <1>6 DEF Created
  <2>2. Main' \in Pairs(T)
      BY <1>1, <1>4, <2>1, MainMoves, Kinds
  <2>3. Careful' => Result'
      BY <1>3, <1>5 DEF Result, Empty
  <2>4. Making(T)'
      BY <2>2, <2>3 DEF Making
  <2> QED BY <1>2, <1>5, <2>4, SamePlace
<1>7. CASE ~ok
  <2>1. Go("main", <<"unplug", "close", "replug">>)
      BY <1>7, Joined DEF Created
  <2>2. \A a, b, c \in Steps :
           Go("main", <<a, b, c>>) => Main' \in Then({a}, Then({b}, Then({c}, T)))
      BY <1>1, <1>4, MainGoes
  <2>3. Main' \in Then({"unplug"}, Then({"close"}, Then({"replug"}, T)))
    <3>1. "unplug" \in Steps /\ "close" \in Steps /\ "replug" \in Steps
        BY DEF Steps
    <3> QED BY <2>1, <2>2, <3>1
  <2>4. Main' \in Then({"unplug"}, Fresh(T))
      BY <2>3, Kinds, Wider
  <2>5. Careful' => Level'
      BY <1>3, <1>5, <1>7 DEF Result, Empty, Level
  <2>6. Making(T)'
      BY <2>4, <2>5 DEF Making, Back
  <2> QED BY <1>2, <1>5, <2>6, SamePlace
<1> QED BY <1>6, <1>7

LEMMA ReplugTracks ==
    ASSUME TypeOK, Track, Careful' => Careful, Replug
    PROVE  Track'
<1>1. Main /= <<>> /\ Head(Main) = "replug"
    BY DEF Replug, At, Main
<1>2. PICK T \in Callers : Owns(T) /\ Making(T)
    BY <1>1, Located
<1>3. Tail(Main) \in T /\ (Careful => Empty)
    BY <1>1, <1>2, Place
<1>4. /\ Go("main", <<>>) => Main' \in T
      /\ \A a, b \in Steps : Go("main", <<a, b>>) => Main' \in Then({a}, Then({b}, T))
    BY <1>1, <1>3, MainMoves
<1>5. /\ ok' = ok /\ record' = record /\ Left' = Left
      /\ refs' = refs /\ leaving' = leaving
    BY DEF Replug, owners, leave, driver, onBus, Left
<1>6. CASE ok
  <2>1. Go("main", <<"wait", "check">>) /\ kind' = "keyboard"
      BY <1>6 DEF Replug, PlugsFirst
  <2>2. Main' \in Again(T)
      BY <1>4, <2>1, Kinds DEF Steps
  <2>3. Careful' => Empty'
      BY <1>3, <1>5 DEF Empty
  <2>4. Making(T)'
      BY <2>1, <2>2, <2>3 DEF Making
  <2> QED BY <1>2, <1>5, <2>4, SamePlace
<1>7. CASE ~ok
  <2>1. Go("main", <<>>)
      BY <1>7 DEF Replug
  <2>2. Main' \in Pairs(T)
      BY <1>4, <2>1, Kinds
  <2>3. ok' = FALSE
      BY <1>5, <1>7 DEF TypeOK
  <2>4. Careful' => Result'
      BY <1>3, <1>5, <2>3 DEF Result, Empty
  <2>5. Making(T)'
      BY <2>2, <2>4 DEF Making
  <2> QED BY <1>2, <1>5, <2>5, SamePlace
<1> QED BY <1>6, <1>7

\* rebuild_bus: nothing is plugged.
LEMMA RebuildTracks ==
    ASSUME TypeOK, Track, Careful' => Careful, Close \/ Stop \/ Bind \/ Reopen
    PROVE  Track'
<1>1. Main /= <<>> /\ Head(Main) \in {"close", "stop", "bind", "reopen"}
    BY DEF Close, Stop, Bind, Reopen, At, Main
<1>2. PICK T \in Callers : Owns(T) /\ Making(T)
    BY <1>1, Located
<1>3. Tail(Main) \in Mends(T) /\ (Careful => Empty)
    BY <1>1, <1>2, Place
<1>4. /\ Go("main", <<>>) => Main' \in Mends(T)
      /\ \A a \in Steps : Go("main", <<a>>) => Main' \in Then({a}, Mends(T))
      /\ \A a, b \in Steps : Go("main", <<a, b>>) => Main' \in Then({a}, Then({b}, Mends(T)))
    BY <1>1, <1>3, MainMoves
<1>5. record' = record /\ Left' = Left /\ refs' = refs /\ leaving' = leaving
    BY DEF Close, Stop, Bind, Reopen, Rebinds, owners, leave, driver, onBus, Left
<1>6. Main' \in Blank(T)
  <2>1. CASE Go("main", <<>>)
      BY <1>4, <2>1, Kinds
  <2>2. CASE Go("main", <<"sweep", "stop">>) \/ Go("main", <<"wait", "reopen">>)
      BY <1>4, <2>2, Kinds DEF Steps
  <2>3. CASE Go("main", <<"bind">>)
      BY <1>4, <2>3, Kinds DEF Steps
  <2> QED BY <2>1, <2>2, <2>3 DEF Close, Stop, Bind, Reopen, RebuildFails
<1>7. Careful' => Empty'
    BY <1>3, <1>5 DEF Empty
<1>8. Making(T)'
    BY <1>6, <1>7 DEF Making
<1> QED BY <1>2, <1>5, <1>8, SamePlace

\* wait_for_empty_bus, wherever it is called.
LEMMA WaitTracks ==
    ASSUME TypeOK, Track, Careful' => Careful, Wait
    PROVE  Track'
<1>1. Main /= <<>> /\ Head(Main) = "wait" /\ Go("main", <<>>)
    BY DEF Wait, At, Main
<1>2. /\ record' = record /\ Left' = Left /\ kind' = kind
      /\ refs' = refs /\ leaving' = leaving
    BY DEF Wait, locals, owners, leave, driver, onBus, Left
<1>3. ASSUME Careful => Empty PROVE Careful' => Empty'
    BY <1>2, <1>3 DEF Empty
<1>4. CASE refs = {} /\ Tail(Main) \in Then({"open"}, Starting) /\ (Careful => Empty)
  <2>1. Main' \in Then({"open"}, Starting)
      BY <1>1, <1>4, MainMoves
  <2>2. Then({"open"}, Starting) \subseteq Then({"watch", "prepare", "leftovers", "open"}, Starting)
      BY Wider
  <2>3. Main' \in Early
      BY <2>1, <2>2 DEF Early
  <2> QED BY <1>2, <1>3, <1>4, <2>3 DEF Track
<1>5. CASE \E T \in Callers : Owns(T) /\ Making(T)
  <2>1. PICK T \in Callers : Owns(T) /\ Making(T)
      BY <1>5
  <2>2. ASSUME Tail(Main) \in Then({"reopen"}, Mends(T)), Careful => Empty
        PROVE  Making(T)'
    <3>1. Main' \in Blank(T)
        BY <1>1, <2>2, MainMoves, Kinds
    <3> QED BY <1>3, <2>2, <3>1 DEF Making
  <2>3. ASSUME Tail(Main) \in Then({"check"}, Pairs(T)), Careful => Empty /\ kind = "keyboard"
        PROVE  Making(T)'
    <3>1. Main' \in Then({"check"}, Pairs(T))
        BY <1>1, <2>3, MainMoves
    <3>2. Main' \in Then({"check", "plug"}, Pairs(T))
        BY <3>1, Wider
    <3>3. Careful' => Trying'
        BY <1>2, <1>3, <2>3 DEF Trying
    <3> QED BY <3>2, <3>3 DEF Making
  <2>4. Making(T)'
      BY <1>1, <2>1, <2>2, <2>3, Place
  <2> QED BY <1>2, <2>1, <2>4, SamePlace
<1> QED BY <1>1, <1>4, <1>5, Located

\* recreate_virtual_devices once its unplug is done, and once the bus is rebuilt.
LEMMA UnpluggedTracks ==
    ASSUME TypeOK, Track, Careful' => Careful, Unplugged \/ Rebuilt
    PROVE  Track'
<1>1. Main /= <<>> /\ Head(Main) \in {"unplugged", "rebuilt"}
    BY DEF Unplugged, Rebuilt, At, Main
<1>2. PICK T \in Callers : Owns(T) /\ Making(T)
    BY <1>1, Located
<1>3. Tail(Main) \in T /\ (Careful => Empty)
    BY <1>1, <1>2, Place
<1>4. /\ Go("main", <<>>) => Main' \in T
      /\ \A a \in Steps : Go("main", <<a>>) => Main' \in Then({a}, T)
      /\ \A a, b, c \in Steps :
            Go("main", <<a, b, c>>) => Main' \in Then({a}, Then({b}, Then({c}, T)))
    BY <1>1, <1>3, MainGoes
<1>5. record' = record /\ Left' = Left /\ refs' = refs /\ leaving' = leaving
    BY DEF Unplugged, Rebuilt, owners, leave, driver, onBus, Left
<1>6. Careful' => Empty'
    BY <1>3, <1>5 DEF Empty
<1>7. ASSUME Go("main", <<"create">>) \/ Go("main", <<"sweep", "close", "rebuilt">>)
      PROVE  Making(T)'
  <2>1. "create" \in Steps /\ "sweep" \in Steps /\ "close" \in Steps /\ "rebuilt" \in Steps
      BY DEF Steps
  <2>2. \/ Main' \in Then({"create"}, T)
        \/ Main' \in Then({"sweep"}, Then({"close"}, Then({"rebuilt"}, T)))
      BY <1>4, <1>7, <2>1
  <2>3. Main' \in Blank(T)
      BY <2>2, Kinds
  <2> QED BY <1>6, <2>3 DEF Making
<1>8. ASSUME Go("main", <<>>), ok' = FALSE PROVE Making(T)'
  <2>1. Main' \in Pairs(T)
      BY <1>4, <1>8, Kinds
  <2> QED BY <1>6, <1>8, <2>1 DEF Making, Result
<1>9. Making(T)'
  <2>1. CASE Unplugged
      BY <1>7, <2>1 DEF Unplugged
  <2>2. CASE Rebuilt
    <3>1. ~ok /\ UNCHANGED ok => ok' = FALSE
        BY DEF TypeOK
    <3> QED BY <1>7, <1>8, <2>2, <3>1 DEF Rebuilt
  <2> QED BY <2>1, <2>2
<1> QED BY <1>2, <1>5, <1>9, SamePlace

\* App::start ends, and recreate_devices does.
LEMMA StartedTracks ==
    ASSUME TypeOK, Track, Careful' => Careful, Started
    PROVE  Track'
<1>1. Main /= <<>> /\ Head(Main) = "started"
    BY DEF Started, At, Main
<1>2. PICK T \in Callers : Owns(T) /\ Making(T)
    BY <1>1, Located
<1>3. Main \in Pairs(T) /\ (Careful => Result)
    BY <1>1, <1>2, Place
<1>4. T = Starting /\ Tail(Main) = <<>>
  <2>1. Main \in T
      BY <1>1, <1>3 DEF Pairs, Then
  <2>2. T /= Returning
    <3>1. \A l \in Returning : Head(l) = "recreated"
        BY DEF Returning
    <3> QED BY <1>1, <2>1, <3>1
  <2>3. Main = <<"started">>
      BY <2>1, <2>2 DEF Callers, Starting
  <2> QED BY <2>2, <2>3 DEF Callers
<1>5. refs = {"main"}
  <2>1. Starting /= Returning
    <3>1. <<"started">> \in Starting /\ Head(<<"started">>) = "started"
        BY DEF Starting
    <3>2. \A l \in Returning : Head(l) = "recreated"
        BY DEF Returning
    <3> QED BY <3>1, <3>2
  <2> QED BY <1>2, <1>4, <2>1 DEF Owns
<1>6. ok' = ok /\ record' = record /\ conn' = conn /\ Left' = Left
    BY DEF Started, locals, driver, onBus, Left
<1>7. CASE ok /\ Go("main", <<"install">>) /\ UNCHANGED refs
  <2>1. Main' = <<"install">>
    <3>1. Main' = <<"install">> \o <<>>
        BY <1>4, <1>7 DEF Go, Main, TypeOK, Threads
    <3> QED BY <3>1
  <2>2. Careful' => Paired'
      BY <1>3, <1>6, <1>7 DEF Result, Paired, Devices
  <2> QED BY <1>5, <1>7, <2>1, <2>2 DEF Track
<1>8. CASE refs' = {} /\ Return(DriverDrop)
    BY <1>8, GoesOut, WayOut DEF Track
<1> QED BY <1>7, <1>8 DEF Started

LEMMA InstallTracks ==
    ASSUME TypeOK, Track, Careful' => Careful, Install
    PROVE  Track'
<1>1. Main /= <<>> /\ Head(Main) = "install"
    BY DEF Install, At, Main
<1>2. Main = <<"install">> /\ (Careful => Paired)
    BY <1>1, Located
<1>3. CASE refs' = {"app", "shared"} /\ Go("main", <<"menu">>)
  <2>1. Main' = <<"menu">>
    <3>1. Tail(Main) = <<>>
        BY <1>2
    <3>2. Main' = <<"menu">> \o <<>>
        BY <1>3, <3>1 DEF Go, Main, TypeOK, Threads
    <3> QED BY <3>2
  <2>2. ok' = ok /\ record' = record /\ conn' = conn /\ Left' = Left
      BY DEF Install, locals, driver, onBus, Left
  <2>3. Careful' => Paired'
      BY <1>2, <2>2 DEF Paired
  <2>4. Owns(Returning)'
      BY <1>3 DEF Owns
  <2> QED BY <2>1, <2>3, <2>4 DEF Track
<1>4. CASE refs' = {"shared"} /\ Return(<<>>)
    BY <1>4, GoesOut, WayOut DEF Track
<1> QED BY <1>3, <1>4 DEF Install

LEMMA RecreatedTracks ==
    ASSUME TypeOK, Track, Careful' => Careful, Recreated
    PROVE  Track'
<1>1. Main /= <<>> /\ Head(Main) = "recreated" /\ Go("main", <<>>)
    BY DEF Recreated, At, Main
<1>2. PICK T \in Callers : Owns(T) /\ Making(T)
    BY <1>1, Located
<1>3. Main \in Pairs(T) /\ (Careful => Result)
    BY <1>1, <1>2, Place
<1>4. T = Returning /\ Main = <<"recreated", "menu">>
  <2>1. Main \in T
      BY <1>1, <1>3 DEF Pairs, Then
  <2>2. T /= Starting
    <3>1. \A l \in Starting : Head(l) = "started"
        BY DEF Starting
    <3> QED BY <1>1, <2>1, <3>1
  <2> QED BY <2>1, <2>2 DEF Callers, Returning
<1>5. Main' = <<"menu">>
  <2> DEFINE K == {<<"menu">>}
  <2>1. Tail(Main) \in K
      BY <1>4
  <2> HIDE DEF K
  <2>2. Main' \in K
      BY <1>1, <2>1, MainMoves
  <2> QED BY <2>2 DEF K
<1>6. /\ ok' = ok /\ record' = record /\ conn' = conn /\ Left' = Left
      /\ refs' = refs /\ leaving' = leaving
    BY DEF Recreated, locals, leave, driver, onBus, Left
<1>7. Careful' => Paired'
    BY <1>3, <1>6 DEF Result, Paired, Empty, Devices
<1>8. Owns(Returning)'
    BY <1>2, <1>4, <1>6 DEF Owns
<1> QED BY <1>5, <1>7, <1>8 DEF Track

\* Who holds the driver while the menu waits.
LEMMA AtMenu ==
    ASSUME Owns(Returning)
    PROVE  refs \in {{"app", "shared"}, {"app"}, {"app", "closer"}}
<1>1. Starting /= Returning
  <2>1. <<"started">> \in Starting /\ Head(<<"started">>) = "started"
      BY DEF Starting
  <2>2. \A l \in Returning : Head(l) = "recreated"
      BY DEF Returning
  <2> QED BY <2>1, <2>2
<1> QED BY <1>1 DEF Owns

\* The commands of the menu.
LEMMA MenuTracks ==
    ASSUME TypeOK, Track, Careful' => Careful, Commands
    PROVE  Track'
<1>1. Main /= <<>> /\ Head(Main) = "menu"
    BY DEF Commands, Toggle, Recreate, Quit, Remove, At, Main
<1>2. Main = <<"menu">> /\ Owns(Returning) /\ (Careful => Paired)
    BY <1>1, Located
<1>3. Tail(Main) = <<>>
    BY <1>2
<1>4. refs \in {{"app", "shared"}, {"app"}, {"app", "closer"}}
    BY <1>2, AtMenu
<1>5. ok' = ok /\ record' = record /\ conn' = conn /\ Left' = Left /\ leaving' = leaving
    BY DEF Commands, Toggle, Recreate, Quit, Remove, locals, leave, driver, onBus, Left
<1>6. CASE Toggle
  <2>1. Main' = Main /\ refs' = refs
      BY <1>6 DEF Toggle, Main
  <2>2. Careful' => Paired'
      BY <1>2, <1>5 DEF Paired
  <2>3. Owns(Returning)'
      BY <1>2, <1>5, <2>1 DEF Owns
  <2> QED BY <1>2, <2>1, <2>2, <2>3 DEF Track
<1>7. CASE Recreate
  <2>1. Go("main", <<"unplug", "unplugged", "recreated", "menu">>) /\ refs' = refs
      BY <1>7, Joined DEF Recreate
  <2>2. Main' \in Then({"unplug"}, Then({"unplugged"}, Returning))
    <3>1. Main' = <<"unplug", "unplugged", "recreated", "menu">> \o <<>>
        BY <1>3, <2>1 DEF Go, Main, TypeOK, Threads
    <3>2. Main' = <<"unplug", "unplugged", "recreated", "menu">>
        BY <3>1
    <3>3. {"unplug", "unplugged", "recreated", "menu"} \subseteq Steps
        BY DEF Steps
    <3> DEFINE l == <<"unplug", "unplugged", "recreated", "menu">>
               r == <<"unplugged", "recreated", "menu">>
    <3>4. l \in Seq(Steps) /\ l /= <<>> /\ Head(l) = "unplug" /\ Tail(l) = r
        BY <3>3, Lists
    <3>5. r \in Seq(Steps) /\ r /= <<>> /\ Head(r) = "unplugged"
            /\ Tail(r) = <<"recreated", "menu">>
        BY <3>3, Lists
    <3> HIDE DEF l, r
    <3>6. r \in Then({"unplugged"}, Returning)
        BY <3>5 DEF Then, Returning
    <3>7. l \in Then({"unplug"}, Then({"unplugged"}, Returning))
        BY <3>4, <3>6 DEF Then
    <3> QED BY <3>2, <3>7 DEF l
  <2>3. Returning \in Callers
      BY DEF Callers
  <2>4. Main' \in Then({"unplug"}, Fresh(Returning))
      BY <2>2, <2>3, Kinds, Wider
  <2>5. Careful' => Level'
      BY <1>2, <1>5 DEF Paired, Level
  <2>6. Making(Returning)'
      BY <2>4, <2>5 DEF Making, Back
  <2> QED BY <1>2, <1>5, <2>1, <2>3, <2>6, SamePlace
<1>8. CASE Quit
  <2>1. "main" \notin refs'
      BY <1>4, <1>8 DEF Quit
  <2>2. CASE refs = {"app"}
      BY <1>8, <2>1, <2>2, GoesOut, WayOut DEF Track, Quit
  <2>3. CASE refs /= {"app"}
      BY <1>8, <2>1, <2>3, GoesOut, WayOut DEF Track, Quit
  <2> QED BY <2>2, <2>3
<1>9. CASE Remove
  <2>1. refs' \in {{"app"}, {"app", "closer"}}
    <3>1. refs' = refs \ {"shared"}
        BY <1>9 DEF Remove
    <3>2. {"app", "shared"} \ {"shared"} = {"app"} /\ {"app"} \ {"shared"} = {"app"}
          /\ {"app", "closer"} \ {"shared"} = {"app", "closer"}
        OBVIOUS
    <3> QED BY <1>4, <3>1, <3>2
  <2>2. Main' = <<"unwrap">>
    <3>1. Main' = <<"unwrap">> \o <<>>
        BY <1>3, <1>9 DEF Remove, Go, Main, TypeOK, Threads
    <3> QED BY <3>1
  <2> QED BY <2>1, <2>2 DEF Track
<1> QED BY <1>6, <1>7, <1>8, <1>9 DEF Commands

LEMMA UnwrapTracks ==
    ASSUME TypeOK, Track, Unwrap
    PROVE  Track'
<1>1. Main /= <<>> /\ Head(Main) = "unwrap"
    BY DEF Unwrap, At, Main
<1>2. refs \in {{"app"}, {"app", "closer"}}
    BY <1>1, Located DEF Unwrap
<1>3. "main" \notin refs'
    BY <1>2 DEF Unwrap
<1>4. CASE refs = {"app"}
    BY <1>3, <1>4, GoesOut, WayOut DEF Track, Unwrap
<1>5. CASE refs /= {"app"}
    BY <1>3, <1>5, GoesOut, WayOut DEF Track, Unwrap
<1> QED BY <1>4, <1>5

(***************************************************************************)
(* Who cleans up.  The steps that raise the flag and take the driver are   *)
(* only in the list of the thread that cleans up, and a driver is taken    *)
(* only once the flag is up.                                               *)
(***************************************************************************)
Flagging == Steps \ {"take", "letGo"}

Cleaners ==
    /\ steps["closer"] \in Seq(GoneSteps)
    /\ cleaner /= "closer" => steps["closer"] \in {<<>>, <<"cleanUp">>}
    /\ cleaner = "closer" \/ steps["closer"] /= <<>> => closing
    /\ \A t \in Threads : cleaner /= t => steps[t] \in Seq(Modest)
    /\ \A t \in Threads : ~leaving => steps[t] \in Seq(Flagging)
    /\ cleaner = "main" => Main \in Seq(GoneSteps)

LEMMA CleanersOnly ==
    ASSUME Cleaners, NEW t \in Threads, NEW h \in {"flag", "take", "letGo"}, At(t, h)
    PROVE  cleaner = t /\ (h /= "flag" => leaving)
<1>1. steps[t] /= <<>> /\ Head(steps[t]) = h
    BY DEF At
<1>2. cleaner = t
  <2> SUFFICES ASSUME cleaner /= t PROVE FALSE
      OBVIOUS
  <2>1. steps[t] \in Seq(Modest)
      BY DEF Cleaners
  <2>2. h \in Modest
      BY <1>1, <2>1
  <2> QED BY <2>2 DEF Modest
<1>3. h /= "flag" => leaving
  <2> SUFFICES ASSUME h /= "flag", ~leaving PROVE FALSE
      OBVIOUS
  <2>1. steps[t] \in Seq(Flagging)
      BY DEF Cleaners
  <2>2. h \in Flagging
      BY <1>1, <2>1
  <2> QED BY <2>2 DEF Flagging
<1> QED BY <1>2, <1>3

\* A main on its way out stays there.
LEMMA GoneGoes ==
    ASSUME TypeOK, Main \in Seq(GoneSteps), Main /= <<>>, NEW next \in Seq(GoneSteps),
           Go("main", next)
    PROVE  Main' \in Seq(GoneSteps)
<1>1. Tail(Main) \in Seq(GoneSteps)
    OBVIOUS
<1>2. Main' = next \o Tail(Main)
    BY DEF Go, Main, TypeOK, Threads
<1> QED BY <1>1, <1>2

LEMMA GoneMoves ==
    ASSUME TypeOK, Main \in Seq(GoneSteps),
           Disconnect \/ Unclaim \/ AppDrop \/ LetApp \/ CleanStep("main")
    PROVE  Main' \in Seq(GoneSteps)
<1>1. Main /= <<>>
    BY DEF Disconnect, Unclaim, AppDrop, LetApp, CleanStep, CleanUp, Flag, Take, LetGo,
           UnplugLocks, UnplugKeyboard, UnplugMouse, Sweep, Unguard, Restore, At, Main
<1>2. CASE Disconnect \/ Unclaim \/ AppDrop \/ LetApp
    BY <1>1, <1>2, GoneGoes, WayOut DEF Disconnect, Unclaim, AppDrop, LetApp, LetsGo
<1>3. CASE CleanUp("main") \/ Flag("main") \/ Take("main") \/ LetGo("main")
    BY <1>1, <1>3, GoneGoes, WayOut DEF CleanUp, Flag, Take, LetGo, LetsGo
<1>4. CASE UnplugLocks("main") \/ UnplugKeyboard("main") \/ UnplugMouse("main")
    BY <1>1, <1>4, GoneGoes, WayOut DEF UnplugLocks, UnplugKeyboard, UnplugMouse
<1>5. CASE Sweep("main") \/ Unguard("main") \/ Restore("main")
    BY <1>1, <1>5, GoneGoes, WayOut DEF Sweep, Unguard, Restore
<1> QED BY <1>2, <1>3, <1>4, <1>5 DEF CleanStep

LEMMA GoneTracks ==
    ASSUME TypeOK, Cleaners, Gone,
           Disconnect \/ Unclaim \/ AppDrop \/ LetApp \/ CleanStep("main")
    PROVE  Gone'
<1>2. Main' \in Seq(GoneSteps)
    BY GoneMoves DEF Gone
<1>3. "main" \in refs' => cleaner' = "main"
  <2>1. CASE Take("main")
    <3>1. cleaner = "main"
        BY <2>1, CleanersOnly DEF Take, Threads
    <3> QED BY <2>1, <3>1 DEF Take, leave
  <2>2. CASE CleanUp("main")
      BY <2>2 DEF Gone, CleanUp, owners
  <2>3. CASE LetApp \/ LetGo("main")
      BY <2>3 DEF Gone, LetApp, LetGo, LetsGo, leave
  <2>4. CASE refs' = refs /\ cleaner' = cleaner
      BY <2>4 DEF Gone
  <2> QED BY <2>1, <2>2, <2>3, <2>4
          DEF Disconnect, Unclaim, AppDrop, CleanStep, Flag, UnplugLocks, UnplugKeyboard,
              UnplugMouse, Sweep, Unguard, Restore, owners, leave
<1> QED BY <1>2, <1>3 DEF Gone

\* unplug_virtual_devices on the main thread, with K to come after it.
LEMMA UnplugTracks ==
    ASSUME TypeOK, Careful' => Careful, NEW T \in Callers, Owns(T), Making(T),
           UnplugLocks("main") \/ UnplugKeyboard("main") \/ UnplugMouse("main")
    PROVE  Track'
<1>1. /\ Main /= <<>> /\ Head(Main) \in {"unplug", "unplugKeyboard", "unplugMouse"}
      /\ UnplugLocks("main") => Head(Main) = "unplug"
      /\ UnplugKeyboard("main") => Head(Main) = "unplugKeyboard"
      /\ UnplugMouse("main") => Head(Main) = "unplugMouse"
    BY DEF UnplugLocks, UnplugKeyboard, UnplugMouse, At, Main
<1>2. PICK K \in {Pairs(T), Fresh(T)} :
              /\ K = Pairs(T) /\ Careful => ok = FALSE
              /\ Careful => Level
              /\ Head(Main) = "unplug" => Tail(Main) \in K
              /\ Head(Main) = "unplugKeyboard" => Tail(Main) \in Then({"unplugMouse"}, K)
              /\ Head(Main) = "unplugMouse" => Tail(Main) \in K /\ (Careful => Lone)
    BY <1>1, PlaceUnplug
<1>3. ok' = ok /\ conn' = conn /\ refs' = refs /\ leaving' = leaving
    BY DEF UnplugLocks, UnplugKeyboard, UnplugMouse, locals, owners, leave
<1>4. ASSUME NEW d \in Devices, UnplugsRecorded("main", d), Careful', Careful => Level
      PROVE  /\ Level' /\ d \notin record' /\ record' \subseteq record
  <2>1. "refuse" \notin env /\ record = Left /\ (record /= {} => conn)
      BY <1>4 DEF Careful, Without, Level
  <2>2. d \in record => ~UnplugRefused(d)
      BY <2>1 DEF UnplugRefused, Left
  <2>3. CASE d \notin record /\ UNCHANGED <<onBus, record, refused>>
      BY <1>3, <2>1, <2>3 DEF Level, onBus, Left
  <2>4. CASE Unplugs(d) /\ record' = record \ {d}
    <3>1. Left' = Left \ {d}
        BY <2>4 DEF Unplugs, Left
    <3> QED BY <1>3, <2>1, <2>4, <3>1 DEF Level
  <2> QED BY <1>4, <2>2, <2>3, <2>4 DEF UnplugsRecorded
<1>5. CASE UnplugLocks("main")
  <2>1. Tail(Main) \in K /\ Go("main", <<"unplugKeyboard", "unplugMouse">>)
      BY <1>1, <1>2, <1>5 DEF UnplugLocks
  <2>2. \A a, b \in Steps : Go("main", <<a, b>>) => Main' \in Then({a}, Then({b}, K))
      BY <1>1, <2>1, MainMoves
  <2>3. "unplugKeyboard" \in Steps /\ "unplugMouse" \in Steps
      BY DEF Steps
  <2>4. Main' \in Then({"unplugKeyboard"}, Then({"unplugMouse"}, K))
      BY <2>1, <2>2, <2>3
  <2>5. record' = record /\ Left' = Left
      BY <1>5 DEF UnplugLocks, onBus, Left
  <2>6. Careful' => Level'
      BY <1>2, <1>3, <2>5 DEF Level
  <2>7. Making(T)'
    <3>1. CASE K = Pairs(T)
        BY <1>2, <1>3, <2>4, <2>6, <3>1 DEF Making, Back
    <3>2. CASE K = Fresh(T)
        BY <2>4, <2>6, <3>2 DEF Making, Back
    <3> QED BY <3>1, <3>2
  <2> QED BY <1>3, <2>7, SamePlace
<1>6. CASE UnplugKeyboard("main")
  <2>1. Main' \in Half(K)
      BY <1>1, <1>2, <1>6, MainMoves DEF UnplugKeyboard, Half
  <2>2. Careful' => Lone'
      BY <1>2, <1>4, <1>6 DEF UnplugKeyboard, Lone, Devices
  <2>3. Making(T)'
    <3>1. CASE K = Pairs(T)
        BY <1>2, <1>3, <2>1, <2>2, <3>1 DEF Making
    <3>2. CASE K = Fresh(T)
        BY <2>1, <2>2, <3>2 DEF Making
    <3> QED BY <3>1, <3>2
  <2> QED BY <1>3, <2>3, SamePlace
<1>7. CASE UnplugMouse("main")
  <2>1. Main' \in K
      BY <1>1, <1>2, <1>7, MainMoves DEF UnplugMouse
  <2>2. Careful' => Empty'
    <3> SUFFICES ASSUME Careful' PROVE Empty'
        OBVIOUS
    <3>1. "keyboard" \notin record
        BY <1>1, <1>2, <1>7 DEF Lone
    <3>2. Level' /\ "mouse" \notin record' /\ record' \subseteq record
        BY <1>2, <1>4, <1>7 DEF UnplugMouse, Devices
    <3>3. record' = {}
        BY <3>1, <3>2 DEF TypeOK, Devices
    <3> QED BY <3>2, <3>3 DEF Level, Empty
  <2>3. Making(T)'
    <3>1. CASE K = Pairs(T)
        BY <1>2, <1>3, <2>1, <2>2, <3>1 DEF Making, Result
    <3>2. CASE K = Fresh(T)
        BY <2>1, <2>2, <3>2, Kinds DEF Making
    <3> QED BY <3>1, <3>2
  <2> QED BY <1>3, <2>3, SamePlace
<1> QED BY <1>5, <1>6, <1>7

LEMMA SweepTracks ==
    ASSUME TypeOK, Careful' => Careful, NEW T \in Callers, Owns(T), Making(T), Sweep("main")
    PROVE  Track'
<1>1. Main /= <<>> /\ Head(Main) = "sweep" /\ Go("main", <<>>)
    BY DEF Sweep, At, Main
<1>2. Tail(Main) \in Then({"stop", "close"}, Mends(T)) /\ (Careful => Empty)
    BY <1>1, Place
<1>3. Main' \in Blank(T)
    BY <1>1, <1>2, MainMoves, Kinds
<1>4. Careful' => Empty'
    BY <1>2 DEF Sweep, SweepsBus, driver, Left, Empty
<1>5. Making(T)'
    BY <1>3, <1>4 DEF Making
<1> QED BY <1>5, SamePlace DEF Sweep, owners, leave

\* What main does on its way out, or in the functions it shares with the closer.
LEMMA CleanTracks ==
    ASSUME TypeOK, Track, Cleaners, Careful' => Careful,
           Disconnect \/ Unclaim \/ AppDrop \/ LetApp \/ CleanStep("main")
    PROVE  Track'
<1>1. Main /= <<>> /\ Head(Main) \in {"unplug", "unplugKeyboard", "unplugMouse", "sweep",
                                      "disconnect", "unguard", "restore", "unclaim", "appDrop",
                                      "cleanUp", "letApp", "flag", "take", "letGo"}
    BY DEF Disconnect, Unclaim, AppDrop, LetApp, CleanStep, CleanUp, Flag, Take, LetGo,
           UnplugLocks, UnplugKeyboard, UnplugMouse, Sweep, Unguard, Restore, At, Main
<1>2. CASE Gone
    BY <1>2, GoneTracks DEF Track
<1>3. CASE /\ Head(Main) \in {"unplug", "unplugKeyboard", "unplugMouse", "sweep"}
           /\ \E T \in Callers : Owns(T) /\ Making(T)
  <2>1. UnplugLocks("main") \/ UnplugKeyboard("main") \/ UnplugMouse("main") \/ Sweep("main")
      BY <1>3 DEF Disconnect, Unclaim, AppDrop, LetApp, CleanStep, CleanUp, Flag, Take, LetGo,
           Unguard, Restore, At, Main
  <2> QED BY <1>3, <2>1, UnplugTracks, SweepTracks
<1> QED BY <1>1, <1>2, <1>3, Located

\* The closer has nothing but the cleanup in front of it until it cleans up.
LEMMA CloserCleans ==
    ASSUME TypeOK, Cleaners, CleanStep("closer")
    PROVE  cleaner' /= "nobody"
<1>1. CASE CleanUp("closer")
    BY <1>1 DEF CleanUp
<1>2. CASE ~CleanUp("closer")
  <2>1. steps["closer"] /= <<>> /\ Head(steps["closer"]) /= "cleanUp" /\ cleaner' = cleaner
      BY <1>2 DEF CleanStep, Flag, Take, LetGo, UnplugLocks, UnplugKeyboard, UnplugMouse,
             Sweep, Unguard, Restore, At, leave
  <2>2. steps["closer"] /= <<"cleanUp">>
      BY <2>1
  <2> QED BY <2>1, <2>2 DEF Cleaners
<1> QED BY <1>1, <1>2

\* The closer lets go of the driver, or takes Shared's hold on it.
LEMMA CloserRefs ==
    ASSUME TypeOK, Cleaners, CleanStep("closer")
    PROVE  \/ refs' = refs
           \/ refs' = refs \ {"closer"}
           \/ "shared" \in refs /\ refs' = (refs \ {"shared"}) \cup {"closer"} /\ leaving'
<1>1. CASE Take("closer")
  <2>1. leaving
      BY <1>1, CleanersOnly DEF Take, Threads
  <2>2. leaving'
      BY <1>1, <2>1 DEF Take, leave
  <2> QED BY <1>1, <2>2 DEF Take
<1>2. CASE LetGo("closer")
    BY <1>2 DEF LetGo, LetsGo
<1> QED BY <1>1, <1>2 DEF CleanStep, CleanUp, Flag, UnplugLocks, UnplugKeyboard,
           UnplugMouse, Sweep, Unguard, Restore, owners

\* The closer leaves main where it is.
LEMMA CloserTracks ==
    ASSUME TypeOK, Track, Cleaners, CleanStep("closer")
    PROVE  Track'
<1>1. ~Careful'
    BY CloserCleans DEF Careful
<1>2. Main' = Main
    BY DEF TypeOK, Main, Threads, Go, CleanStep, CleanUp, Flag, Take, LetGo, LetsGo,
           UnplugLocks, UnplugKeyboard, UnplugMouse, Sweep, Unguard, Restore
<1>3. conn' = conn /\ (leaving => leaving')
    BY DEF CleanStep, CleanUp, Flag, Take, LetGo, UnplugLocks, UnplugKeyboard, UnplugMouse,
           Sweep, Unguard, Restore, driver, leave
<1>4. \/ refs' = refs
      \/ refs' = refs \ {"closer"}
      \/ "shared" \in refs /\ refs' = (refs \ {"shared"}) \cup {"closer"} /\ leaving'
    BY CloserRefs
<1>5. CASE Main \in Early /\ refs = {} /\ (Careful => Empty)
  <2>1. refs' = {}
      BY <1>4, <1>5
  <2> QED BY <1>1, <1>2, <1>5, <2>1 DEF Track
<1>6. CASE \E T \in Callers : Owns(T) /\ Making(T)
  <2>1. PICK T \in Callers : Owns(T) /\ Making(T)
      BY <1>6
  <2>2. Making(T)'
      BY <1>1, <1>2, <1>3, <2>1 DEF Making
  <2>3. Owns(T)'
    <3>1. CASE T = Starting /\ refs = {"main"}
      <4>1. refs' = {"main"}
          BY <1>4, <3>1
      <4> QED BY <3>1, <4>1 DEF Owns
    <3>2. CASE T = Returning /\ refs = {"app", "shared"}
      <4>1. refs' = {"app", "shared"} \/ (refs' = {"app", "closer"} /\ leaving')
          BY <1>4, <3>2
      <4> QED BY <3>2, <4>1 DEF Owns
    <3>3. CASE T = Returning /\ leaving /\ refs \in {{"app"}, {"app", "closer"}}
      <4>1. refs' \in {{"app"}, {"app", "closer"}}
          BY <1>4, <3>3
      <4> QED BY <1>3, <3>3, <4>1 DEF Owns
    <3> QED BY <2>1, <3>1, <3>2, <3>3 DEF Owns
  <2> QED BY <2>1, <2>2, <2>3 DEF Track
<1>7. CASE Main = <<"install">> /\ refs = {"main"} /\ (Careful => Paired)
  <2>1. refs' = {"main"}
      BY <1>4, <1>7
  <2> QED BY <1>1, <1>2, <1>7, <2>1 DEF Track
<1>8. CASE Main = <<"menu">> /\ Owns(Returning) /\ (Careful => Paired)
  <2>1. Owns(Returning)'
    <3>1. CASE refs = {"app", "shared"}
      <4>1. refs' = {"app", "shared"} \/ (refs' = {"app", "closer"} /\ leaving')
          BY <1>4, <3>1
      <4> QED BY <4>1 DEF Owns
    <3>2. CASE leaving /\ refs \in {{"app"}, {"app", "closer"}}
      <4>1. refs' \in {{"app"}, {"app", "closer"}}
          BY <1>4, <3>2
      <4> QED BY <1>3, <3>2, <4>1 DEF Owns
    <3>3. CASE Returning = Starting /\ refs = {"main"}
      <4>1. refs' = {"main"}
          BY <1>4, <3>3
      <4> QED BY <3>3, <4>1 DEF Owns
    <3> QED BY <1>8, <3>1, <3>2, <3>3 DEF Owns
  <2> QED BY <1>1, <1>2, <1>8, <2>1 DEF Track
<1>9. CASE Main = <<"unwrap">> /\ refs \in {{"app"}, {"app", "closer"}}
  <2>1. refs' \in {{"app"}, {"app", "closer"}}
      BY <1>4, <1>9
  <2> QED BY <1>2, <1>9, <2>1 DEF Track
<1>10. CASE Gone
  <2>1. "main" \in refs' => "main" \in refs
      BY <1>4
  <2>2. cleaner = "main" => cleaner' = "main"
      BY DEF CleanStep, CleanUp, Flag, Take, LetGo, UnplugLocks, UnplugKeyboard, UnplugMouse,
             Sweep, Unguard, Restore, leave
  <2> QED BY <1>2, <1>10, <2>1, <2>2 DEF Gone, Track
<1> QED BY <1>5, <1>6, <1>7, <1>8, <1>9, <1>10 DEF Track

\* What happens around the program leaves main where it is, and its devices too.
LEMMA AroundMain ==
    ASSUME TypeOK, Watchdog \/ Windows \/ ProcessEnds \/ \E d \in Devices : DeviceLeaves(d)
    PROVE  /\ Main' = Main /\ env' = env /\ kind' = kind /\ ok' = ok /\ record' = record
           /\ conn' = conn /\ refs' = refs /\ leaving' = leaving /\ cleaner' = cleaner
           /\ Left' = Left
<1>1. CASE Watchdog \/ LampReturns \/ ProcessEnds
    BY <1>1 DEF Watchdog, WatchdogLooks, WatchdogStops, LampReturns, ProcessEnds, Main, locals,
           owners, leave, driver, onBus, Left
<1>2. CASE WindowCloses
    BY <1>2 DEF WindowCloses, Main, TypeOK, Threads, locals, owners, leave, driver, onBus, Left
<1>3. CASE AnotherCopyPlugs
  <2>1. Left' = {} /\ Left = {}
      BY <1>3 DEF AnotherCopyPlugs, Left
  <2> QED BY <1>3, <2>1 DEF AnotherCopyPlugs, Main, locals, owners, leave, driver
<1>4. CASE \E d \in Devices : DeviceLeaves(d)
  <2>1. PICK d \in Devices : DeviceLeaves(d)
      BY <1>4
  <2>2. Left' = Left
      BY <2>1 DEF DeviceLeaves, Left
  <2> QED BY <2>1, <2>2 DEF DeviceLeaves, Main, locals, owners, leave, driver
<1> QED BY <1>1, <1>2, <1>3, <1>4 DEF Windows

LEMMA SameTracks ==
    ASSUME Track,
           /\ Main' = Main /\ env' = env /\ kind' = kind /\ ok' = ok /\ record' = record
           /\ conn' = conn /\ refs' = refs /\ leaving' = leaving /\ cleaner' = cleaner
           /\ Left' = Left
    PROVE  Track'
<1>2. /\ Careful' <=> Careful
      /\ Empty' <=> Empty
      /\ Trying' <=> Trying
      /\ Pended' <=> Pended
      /\ Level' <=> Level
      /\ Lone' <=> Lone
      /\ Result' <=> Result
      /\ Paired' <=> Paired
    BY DEF Careful, Without, Empty, Trying, Pended, Level, Lone, Result, Paired
<1>3. ASSUME NEW T \in Callers PROVE (Owns(T)' <=> Owns(T)) /\ (Making(T) => Making(T)')
    BY <1>2 DEF Owns, Making
<1>4. Owns(Returning) => Owns(Returning)'
    BY <1>3 DEF Callers
<1>5. Gone => Gone'
    BY DEF Gone
<1>6. CASE \E T \in Callers : Owns(T) /\ Making(T)
    BY <1>3, <1>6 DEF Track
<1>7. CASE ~\E T \in Callers : Owns(T) /\ Making(T)
    BY <1>2, <1>4, <1>5, <1>7 DEF Track
<1> QED BY <1>6, <1>7

LEMMA AroundTracks ==
    ASSUME TypeOK, Track,
           Watchdog \/ Windows \/ ProcessEnds \/ \E d \in Devices : DeviceLeaves(d)
    PROVE  Track'
    BY AroundMain, SameTracks

LEMMA StepTracks ==
    ASSUME TypeOK, Calm, Track, Cleaners, Next
    PROVE  Track'
<1>1. Careful' => Careful /\ leaving = FALSE
    BY CarefulBefore
<1>2. CASE MainStep
  <2>1. CASE Watch \/ Prepare \/ Leftovers \/ Open
      BY <1>1, <2>1, ConnectTracks
  <2>2. CASE Wait \/ Create \/ Check \/ Plug \/ Recheck \/ Record
      BY <1>1, <2>2, WaitTracks, CreateTracks, CheckTracks, PlugTracks, RecheckTracks,
         RecordTracks
  <2>3. CASE Created \/ Replug \/ Close \/ Stop \/ Bind \/ Reopen
      BY <1>1, <2>3, CreatedTracks, ReplugTracks, RebuildTracks
  <2>4. CASE Started \/ Install \/ Unplugged \/ Rebuilt \/ Recreated \/ Unwrap
      BY <1>1, <2>4, StartedTracks, InstallTracks, UnpluggedTracks, RecreatedTracks,
         UnwrapTracks
  <2>5. CASE Disconnect \/ Unclaim \/ AppDrop \/ LetApp
      BY <1>1, <2>5, CleanTracks
  <2> QED BY <1>2, <2>1, <2>2, <2>3, <2>4, <2>5 DEF MainStep
<1>3. CASE Commands
    BY <1>1, <1>3, MenuTracks
<1>4. CASE \E t \in Threads : CleanStep(t)
    BY <1>1, <1>4, CleanTracks, CloserTracks DEF Threads
<1>5. CASE Watchdog \/ Windows \/ ProcessEnds \/ \E d \in Devices : DeviceLeaves(d)
    BY <1>5, AroundTracks
<1> QED BY <1>2, <1>3, <1>4, <1>5 DEF Next

\* A thread keeps to the steps it has, unless it takes part in the cleanup.
LEMMA ThreadGoes ==
    ASSUME TypeOK, NEW S, NEW t \in Threads, steps[t] \in Seq(S), steps[t] /= <<>>,
           NEW next \in Seq(S), Go(t, next)
    PROVE  steps'[t] \in Seq(S)
<1>1. Tail(steps[t]) \in Seq(S)
    OBVIOUS
<1>2. steps'[t] = next \o Tail(steps[t])
    BY DEF Go, TypeOK
<1> QED BY <1>1, <1>2

LEMMA MainReturns ==
    ASSUME TypeOK, NEW S, Modest \subseteq S, NEW dropping \in Seq(S), Return(dropping)
    PROVE  steps'["main"] \in Seq(S)
<1>1. dropping \o AfterRun \in Seq(S)
    BY Called, Appended
<1> QED BY <1>1 DEF Return, TypeOK, Threads

LEMMA MainKeeps ==
    ASSUME TypeOK, NEW S, Modest \subseteq S, steps["main"] \in Seq(S), MainStep \/ Commands
    PROVE  steps'["main"] \in Seq(S)
<1>l. <<>> \in Seq(S)
    BY Lists
<1>m. "main" \in Threads
    BY DEF Threads
<1>1. CASE Watch \/ Prepare \/ Leftovers \/ Wait \/ Open
    BY <1>1, <1>m, <1>l, Literals, Called, ThreadGoes, MainReturns DEF Watch, Prepare,
           Leftovers, Wait, Open, At
<1>2. CASE Create \/ Check \/ Recheck
    BY <1>2, <1>m, <1>l, Literals, Called, ThreadGoes DEF Create, Check, Recheck, PlugFails, At
<1>3. CASE Plug
    BY <1>3, <1>m, <1>l, Literals, Called, ThreadGoes DEF Plug, PlugFails, At
<1>4. CASE Record \/ Created \/ Replug
    BY <1>4, <1>m, <1>l, Literals, Called, ThreadGoes DEF Record, Created, Replug, At
<1>5. CASE Close \/ Stop \/ Bind \/ Reopen
    BY <1>5, <1>m, <1>l, Literals, Called, ThreadGoes DEF Close, Stop, Bind, Reopen,
           RebuildFails, At
<1>6. CASE Started \/ Install
    BY <1>6, <1>m, <1>l, Literals, Called, ThreadGoes, MainReturns DEF Started, Install, At
<1>7. CASE Unplugged \/ Rebuilt \/ Recreated
    BY <1>7, <1>m, <1>l, Literals, Called, ThreadGoes DEF Unplugged, Rebuilt, Recreated, At
<1>8. CASE Unwrap \/ Quit
    BY <1>8, <1>m, <1>l, Literals, Called, MainReturns DEF Unwrap, Quit
<1>9. CASE Disconnect \/ Unclaim \/ AppDrop \/ LetApp
    BY <1>9, <1>m, <1>l, Literals, Called, ThreadGoes DEF Disconnect, Unclaim, AppDrop, LetApp,
           LetsGo, At
<1>10. CASE Recreate \/ Remove \/ Toggle
    BY <1>10, <1>m, <1>l, Literals, Called, ThreadGoes DEF Recreate, Remove, Toggle, At
<1> QED
    BY <1>1, <1>2, <1>3, <1>4, <1>5, <1>6, <1>7, <1>8, <1>9, <1>10 DEF MainStep, Commands

\* What the two threads share: only a cleanup that begins raises the flag.
LEMMA CleanKeeps ==
    ASSUME TypeOK, NEW S, Modest \subseteq S, NEW t \in Threads, steps[t] \in Seq(S),
           CleanStep(t), ~Flag(t), ~Take(t),
           CleanUp(t) /\ cleaner = "nobody" => "flag" \in S
    PROVE  steps'[t] \in Seq(S)
<1>l. <<>> \in Seq(S)
    BY Lists
<1>1. CASE CleanUp(t)
  <2>1. "flag" \in S => <<"flag">> \in Seq(S)
      BY Lists
  <2> QED BY <1>1, <1>l, <2>1, ThreadGoes DEF CleanUp, At
<1>2. CASE LetGo(t)
    BY <1>2, <1>l, Called, ThreadGoes DEF LetGo, LetsGo, At
<1>3. CASE UnplugLocks(t) \/ UnplugKeyboard(t) \/ UnplugMouse(t)
    BY <1>3, <1>l, Literals, Called, ThreadGoes DEF UnplugLocks, UnplugKeyboard, UnplugMouse, At
<1>4. CASE Sweep(t) \/ Unguard(t) \/ Restore(t)
    BY <1>4, <1>l, ThreadGoes DEF Sweep, Unguard, Restore, At
<1> QED BY <1>1, <1>2, <1>3, <1>4 DEF CleanStep

\* A thread moves itself, but for the closer, which Windows starts.
LEMMA Moves ==
    ASSUME TypeOK, Next, NEW t \in Threads
    PROVE  \/ steps'[t] = steps[t]
           \/ t = "main" /\ (MainStep \/ Commands)
           \/ CleanStep(t)
           \/ t = "closer" /\ WindowCloses
<1>1. CASE MainStep \/ Commands
  <2>1. \A next : Go("main", next) => steps'["closer"] = steps["closer"]
      BY DEF Go, TypeOK, Threads
  <2>2. \A l : Return(l) => steps'["closer"] = steps["closer"]
      BY DEF Return, TypeOK, Threads
  <2>3. steps'["closer"] = steps["closer"]
    <3>1. CASE Watch \/ Prepare \/ Leftovers \/ Wait \/ Open \/ Create \/ Check \/ Plug
        BY <2>1, <2>2, <3>1 DEF Watch, Prepare, Leftovers, Wait, Open, Create, Check, Plug,
               PlugFails
    <3>2. CASE Recheck \/ Record \/ Created \/ Replug \/ Close \/ Stop \/ Bind \/ Reopen
        BY <2>1, <2>2, <3>2 DEF Recheck, Record, Created, Replug, Close, Stop, Bind, Reopen,
               PlugFails, RebuildFails
    <3>3. CASE Started \/ Install \/ Unplugged \/ Rebuilt \/ Recreated \/ Unwrap \/ Disconnect
        BY <2>1, <2>2, <3>3 DEF Started, Install, Unplugged, Rebuilt, Recreated, Unwrap,
               Disconnect
    <3>4. CASE Unclaim \/ AppDrop \/ LetApp \/ Commands
        BY <2>1, <2>2, <3>4 DEF Unclaim, AppDrop, LetApp, LetsGo, Commands, Toggle, Recreate,
               Quit, Remove
    <3> QED BY <1>1, <3>1, <3>2, <3>3, <3>4 DEF MainStep
  <2> QED BY <1>1, <2>3 DEF Threads
<1>2. ASSUME NEW u \in Threads, CleanStep(u), u /= t PROVE steps'[t] = steps[t]
    BY <1>2 DEF TypeOK, Go, CleanStep, CleanUp, Flag, Take, LetGo, LetsGo, UnplugLocks,
           UnplugKeyboard, UnplugMouse, Sweep, Unguard, Restore
<1>3. CASE WindowCloses
    BY <1>3 DEF WindowCloses, TypeOK, Threads
<1>4. CASE Watchdog \/ LampReturns \/ AnotherCopyPlugs \/ ProcessEnds
           \/ \E d \in Devices : DeviceLeaves(d)
    BY <1>4 DEF Watchdog, WatchdogLooks, WatchdogStops, LampReturns, AnotherCopyPlugs,
           ProcessEnds, DeviceLeaves
<1> QED BY <1>1, <1>2, <1>3, <1>4 DEF Next, Windows

LEMMA KeepsTo ==
    ASSUME TypeOK, Next, NEW S, Modest \subseteq S, NEW t \in Threads, steps[t] \in Seq(S),
           ~Flag(t), ~Take(t), CleanUp(t) /\ cleaner = "nobody" => "flag" \in S
    PROVE  steps'[t] \in Seq(S)
<1>1. CASE steps'[t] = steps[t]
    BY <1>1
<1>2. CASE t = "main" /\ (MainStep \/ Commands)
    BY <1>2, MainKeeps
<1>3. CASE CleanStep(t)
    BY <1>3, CleanKeeps
<1>4. CASE t = "closer" /\ WindowCloses
  <2>1. <<"cleanUp">> \in Seq(S)
      BY Literals
  <2> QED BY <1>4, <2>1 DEF WindowCloses, TypeOK, Threads
<1> QED BY <1>1, <1>2, <1>3, <1>4, Moves

\* A main on its way out stays on it, whatever it does.
LEMMA GoneStays ==
    ASSUME TypeOK, Next, Main \in Seq(GoneSteps)
    PROVE  Main' \in Seq(GoneSteps)
<1>1. CASE Main' = Main
    BY <1>1
<1>2. CASE MainStep \/ Commands \/ CleanStep("main")
  <2>1. Main /= <<>> => Head(Main) \in GoneSteps
      OBVIOUS
  <2>2. Disconnect \/ Unclaim \/ AppDrop \/ LetApp \/ CleanStep("main")
      BY <1>2, <2>1 DEF GoneSteps, Main, At, MainStep, Watch, Prepare, Leftovers, Wait, Open,
             Create, Check, Plug, Recheck, Record, Created, Replug, Close, Stop, Bind, Reopen,
             Started, Install, Unplugged, Rebuilt, Recreated, Unwrap, Commands, Toggle,
             Recreate, Quit, Remove
  <2> QED BY <2>2, GoneMoves
<1> QED BY <1>1, <1>2, Moves DEF Threads, Main

\* Who cleans up stays the one who does.
LEMMA CleanerStays ==
    ASSUME TypeOK, Next
    PROVE  /\ cleaner \in Threads => cleaner' = cleaner
           /\ cleaner' /= cleaner => \E t \in Threads : CleanUp(t) /\ cleaner' = t
    BY DEF locals, owners, leave, driver, onBus, lamps, process, Threads, TypeOK, Next,
           MainStep, Watch, Prepare, Leftovers, Wait, Open, Create, Check, Plug, Recheck,
           Record, Created, Replug, Close, Stop, Bind, Reopen, Started, Install, Unplugged,
           Rebuilt, Recreated, Unwrap, Disconnect, Unclaim, AppDrop, LetApp, Commands, Toggle,
           Recreate, Quit, Remove, Watchdog, WatchdogLooks, WatchdogStops, Windows,
           LampReturns, WindowCloses, AnotherCopyPlugs, ProcessEnds, CleanStep, CleanUp, Flag,
           Take, LetGo, UnplugLocks, UnplugKeyboard, UnplugMouse, Sweep, Unguard, Restore,
           DeviceLeaves

LEMMA FlagStays ==
    ASSUME TypeOK, Next
    PROVE  /\ leaving => leaving'
           /\ closing => closing'
           /\ closing' /= closing => WindowCloses
           /\ \A t \in Threads : Flag(t) => leaving'
<1>1. /\ leaving => leaving'
      /\ \A t \in Threads : Flag(t) => leaving'
    BY DEF leave, Threads, Next, MainStep, Watch, Prepare, Leftovers, Wait, Open, Create,
           Check, Plug, Recheck, Record, Created, Replug, Close, Stop, Bind, Reopen, Started,
           Install, Unplugged, Rebuilt, Recreated, Unwrap, Disconnect, Unclaim, AppDrop,
           LetApp, Commands, Toggle, Recreate, Quit, Remove, Watchdog, WatchdogLooks,
           WatchdogStops, Windows, LampReturns, WindowCloses, AnotherCopyPlugs, ProcessEnds,
           CleanStep, CleanUp, Flag, Take, LetGo, UnplugLocks, UnplugKeyboard, UnplugMouse,
           Sweep, Unguard, Restore, DeviceLeaves
<1>2. closing' /= closing => WindowCloses
    BY DEF process, Next, MainStep, Watch, Prepare, Leftovers, Wait, Open, Create,
           Check, Plug, Recheck, Record, Created, Replug, Close, Stop, Bind, Reopen, Started,
           Install, Unplugged, Rebuilt, Recreated, Unwrap, Disconnect, Unclaim, AppDrop,
           LetApp, Commands, Toggle, Recreate, Quit, Remove, Watchdog, WatchdogLooks,
           WatchdogStops, Windows, LampReturns, AnotherCopyPlugs, ProcessEnds,
           CleanStep, CleanUp, Flag, Take, LetGo, UnplugLocks, UnplugKeyboard, UnplugMouse,
           Sweep, Unguard, Restore, DeviceLeaves
<1>3. closing => closing'
    BY <1>2 DEF WindowCloses
<1> QED BY <1>1, <1>2, <1>3

LEMMA StepCleaners ==
    ASSUME TypeOK, Track, Cleaners, Next
    PROVE  Cleaners'
<1>0. "main" \in Threads /\ "closer" \in Threads
    BY DEF Threads
<1>1. steps'["closer"] \in Seq(GoneSteps)
  <2>0. steps["closer"] \in Seq(GoneSteps)
      BY DEF Cleaners
  <2>1. CASE steps'["closer"] = steps["closer"]
      BY <2>0, <2>1
  <2>2. CASE CleanUp("closer") \/ Flag("closer") \/ Take("closer") \/ LetGo("closer")
      BY <1>0, <2>0, <2>2, ThreadGoes, WayOut DEF CleanUp, Flag, Take, LetGo, LetsGo, At
  <2>3. CASE UnplugLocks("closer") \/ UnplugKeyboard("closer") \/ UnplugMouse("closer")
      BY <1>0, <2>0, <2>3, ThreadGoes, WayOut DEF UnplugLocks, UnplugKeyboard, UnplugMouse, At
  <2>4. CASE Sweep("closer") \/ Unguard("closer") \/ Restore("closer")
      BY <1>0, <2>0, <2>4, ThreadGoes, WayOut DEF Sweep, Unguard, Restore, At
  <2>5. CASE WindowCloses
    <3>1. <<"cleanUp">> \in Seq(GoneSteps)
        BY DEF GoneSteps
    <3> QED BY <2>5, <3>1 DEF WindowCloses, TypeOK, Threads
  <2> QED BY <1>0, <2>1, <2>2, <2>3, <2>4, <2>5, Moves DEF CleanStep
<1>2. cleaner' /= "closer" => steps'["closer"] \in {<<>>, <<"cleanUp">>}
  <2> SUFFICES ASSUME cleaner' /= "closer" PROVE steps'["closer"] \in {<<>>, <<"cleanUp">>}
      OBVIOUS
  <2>1. cleaner /= "closer"
      BY <1>0, CleanerStays
  <2>2. steps["closer"] \in {<<>>, <<"cleanUp">>}
      BY <2>1 DEF Cleaners
  <2>3. CASE CleanStep("closer")
    <3>1. steps["closer"] = <<"cleanUp">>
        BY <2>2, <2>3 DEF CleanStep, CleanUp, Flag, Take, LetGo, UnplugLocks, UnplugKeyboard,
               UnplugMouse, Sweep, Unguard, Restore, At
    <3>2. Head(steps["closer"]) = "cleanUp" /\ Tail(steps["closer"]) = <<>>
        BY <3>1
    <3>3. CleanUp("closer")
        BY <2>3, <3>2 DEF CleanStep, Flag, Take, LetGo, UnplugLocks, UnplugKeyboard,
               UnplugMouse, Sweep, Unguard, Restore, At
    <3>4. Go("closer", <<>>)
        BY <3>3 DEF CleanUp
    <3>5. steps'["closer"] = <<>> \o <<>>
        BY <3>2, <3>4 DEF Go, TypeOK, Threads
    <3> QED BY <3>5
  <2>4. CASE WindowCloses
      BY <2>4 DEF WindowCloses, TypeOK, Threads
  <2> QED BY <1>0, <2>2, <2>3, <2>4, Moves
<1>3. cleaner' = "closer" \/ steps'["closer"] /= <<>> => closing'
  <2>1. CASE cleaner = "closer" \/ steps["closer"] /= <<>>
      BY <2>1, FlagStays DEF Cleaners
  <2>2. CASE cleaner /= "closer" /\ steps["closer"] = <<>>
    <3>1. ~CleanStep("closer")
        BY <2>2 DEF CleanStep, CleanUp, Flag, Take, LetGo, UnplugLocks, UnplugKeyboard,
               UnplugMouse, Sweep, Unguard, Restore, At
    <3>2. cleaner' /= "closer"
        BY <2>2, <3>1, CleanerStays DEF Threads, CleanStep
    <3>3. CASE WindowCloses
        BY <3>3 DEF WindowCloses
    <3>4. CASE ~WindowCloses
        BY <1>0, <2>2, <3>1, <3>2, <3>4, Moves
    <3> QED BY <3>3, <3>4
  <2> QED BY <2>1, <2>2
<1>4. ASSUME NEW t \in Threads, cleaner' /= t PROVE steps'[t] \in Seq(Modest)
  <2>1. cleaner /= t
      BY <1>4, CleanerStays
  <2>2. ~Flag(t) /\ ~Take(t)
      BY <2>1, CleanersOnly DEF Flag, Take
  <2>3. ~(CleanUp(t) /\ cleaner = "nobody")
      BY <1>4 DEF CleanUp
  <2>4. steps[t] \in Seq(Modest)
      BY <2>1 DEF Cleaners
  <2> QED BY <2>2, <2>3, <2>4, KeepsTo
<1>5. ASSUME NEW t \in Threads, ~leaving' PROVE steps'[t] \in Seq(Flagging)
  <2>1. ~leaving /\ ~Flag(t)
      BY <1>5, FlagStays
  <2>2. ~Take(t)
      BY <2>1, CleanersOnly DEF Take
  <2>3. steps[t] \in Seq(Flagging)
      BY <2>1 DEF Cleaners
  <2>4. Modest \subseteq Flagging /\ "flag" \in Flagging
      BY DEF Modest, Flagging, Steps
  <2> QED BY <2>1, <2>2, <2>3, <2>4, KeepsTo
<1>6. cleaner' = "main" => Main' \in Seq(GoneSteps)
  <2>1. CASE cleaner = "main"
      BY <2>1, GoneStays DEF Cleaners
  <2>2. CASE cleaner' = "main" /\ cleaner /= "main"
    <3>1. CleanUp("main")
        BY <2>2, CleanerStays
    <3>2. Main /= <<>> /\ Head(Main) = "cleanUp"
        BY <3>1 DEF CleanUp, At, Main
    <3>3. Gone
        BY <3>2, Located
    <3> QED BY <3>3, GoneStays DEF Gone
  <2> QED BY <2>1, <2>2
<1> QED BY <1>1, <1>2, <1>3, <1>4, <1>5, <1>6 DEF Cleaners

LEMMA InitTracks == Init => Track /\ Cleaners
<1> SUFFICES ASSUME Init PROVE Track /\ Cleaners
    OBVIOUS
<1>1. Main = <<"watch", "started">> /\ steps["closer"] = <<>> /\ refs = {}
    BY DEF Init, Main, Threads
<1>2. Main \in Early
  <2> DEFINE l == <<"watch", "started">>
  <2>1. "watch" \in Steps /\ "started" \in Steps
      BY DEF Steps
  <2>2. l \in Seq(Steps) /\ l /= <<>> /\ Head(l) = "watch" /\ Tail(l) = <<"started">>
      BY <2>1, Lists
  <2> HIDE DEF l
  <2>3. l \in Then({"watch", "prepare", "leftovers", "open"}, Starting)
      BY <2>2 DEF Then, Starting
  <2> QED BY <1>1, <2>3 DEF Early, l
<1>3. Empty
    BY DEF Init, Empty, Left
<1>4. Track
    BY <1>1, <1>2, <1>3 DEF Track
<1>5. \A t \in Threads : steps[t] \in Seq(Modest)
  <2>1. <<"watch", "started">> \in Seq(Modest) /\ <<>> \in Seq(Modest)
      BY Literals, Lists
  <2> QED BY <1>1, <2>1 DEF Main, Threads
<1>6. \A t \in Threads : steps[t] \in Seq(Flagging)
  <2>1. Modest \subseteq Flagging
      BY DEF Modest, Flagging
  <2>2. <<"watch", "started">> \in Seq(Flagging) /\ <<>> \in Seq(Flagging)
      BY <2>1, Literals, Lists
  <2> QED BY <1>1, <2>2 DEF Main, Threads
<1>7. <<>> \in Seq(GoneSteps)
    BY WayOut
<1>8. cleaner = "nobody"
    BY DEF Init
<1> QED BY <1>1, <1>4, <1>5, <1>6, <1>7, <1>8 DEF Cleaners

-----------------------------------------------------------------------------
\* Where main is, who cleans up, and the types these two rest on.
Tracked == TypeOK /\ Calm /\ Track /\ Cleaners

LEMMA TrackedHolds == Spec => []Tracked
<1>1. Init => Tracked
    BY InitInv, InitTracks DEF IInv, Tracked
<1>2. Tracked /\ [Next]_vars => Tracked'
  <2> SUFFICES ASSUME Tracked, [Next]_vars PROVE Tracked'
      OBVIOUS
  <2>1. CASE Next
      BY <2>1, StepTyped, StepCalm, StepTracks, StepCleaners DEF Tracked
  <2>2. CASE UNCHANGED vars
    <3>1. /\ Main' = Main /\ env' = env /\ kind' = kind /\ ok' = ok /\ record' = record
          /\ conn' = conn /\ refs' = refs /\ leaving' = leaving /\ cleaner' = cleaner
          /\ Left' = Left /\ steps' = steps /\ closing' = closing
        BY <2>2 DEF vars, locals, owners, leave, driver, onBus, process, Main, Left
    <3>2. TypeOK' /\ Calm' /\ Cleaners'
        BY <2>2, <3>1, StepTyped DEF Tracked, Calm, Listed, Cleaners
    <3>3. Track'
        BY <3>1, SameTracks DEF Tracked
    <3> QED BY <3>2, <3>3 DEF Tracked
  <2> QED BY <2>1, <2>2
<1> QED BY <1>1, <1>2, PTL DEF Spec

\* As long as Windows takes away what it is asked to, whatever else goes wrong with
\* the plugs and whichever way the bus is rebuilt: back in the menu there are two
\* devices or none, exactly those of the record, and two after a success.
THEOREM PairKept == Spec => []PairOrNothing
<1>1. Tracked => PairOrNothing
  <2> SUFFICES ASSUME Tracked, Without({"refuse"}), InMenu
               PROVE  /\ record = Left
                      /\ record \in {{}, Devices}
                      /\ ok => record = Devices /\ conn
      BY DEF PairOrNothing
  <2>1. Main /= <<>> /\ Head(Main) = "menu" /\ Careful
      BY DEF InMenu, At, Main, Careful
  <2>2. Paired
      BY <2>1, Located DEF Tracked
  <2>3. Devices /= {}
      BY DEF Devices
  <2> QED BY <2>2, <2>3 DEF Paired
<1> QED BY <1>1, TrackedHolds, PTL

-----------------------------------------------------------------------------
(***************************************************************************)
(* Who will still take the devices away.  As long as there is one of ours  *)
(* on the bus, somebody holds the driver who has not cleaned up, or main   *)
(* is on the way to drop or remove it, or the cleanup has its sweep ahead; *)
(* or the device has just been plugged and main will look at the flag.     *)
(***************************************************************************)
Faces(l, H) == \E i \in 1..Len(l) : l[i] \in H
Sweeps(l)   == Faces(l, {"sweep"})
Parting(l)  == \E i, j \in 1..Len(l) : i < j /\ l[i] = "sweep" /\ l[j] = "unguard"

Plugging == Main /= <<>> /\ Head(Main) = "recheck" /\ Left = {kind}
Holding  == "shared" \in refs \/ ("main" \in refs /\ cleaner /= "main")
Removing == Main = <<"unwrap">> /\ refs = {"app"}
Dropping == Main \in Seq(GoneSteps) /\ Parting(Main)
Cleaning == \E t \in Threads : cleaner = t /\ Sweeps(steps[t])

Covered == Without({"refuse"}) =>
    Left = {} \/ Plugging \/ Holding \/ Removing \/ Dropping \/ Cleaning

\* The steps behind the first one move up to where the new ones end.
LEMMA Shifted ==
    ASSUME NEW l \in Seq(Steps), l /= <<>>, NEW next \in Seq(Steps), NEW i \in 2..Len(l)
    PROVE  /\ Len(next) + i - 1 \in 1..Len(next \o Tail(l))
           /\ (next \o Tail(l))[Len(next) + i - 1] = l[i]
<1> DEFINE n == Len(next)
           r == next \o Tail(l)
<1>1. n \in Nat /\ Len(l) \in Nat /\ Len(l) >= 1 /\ Tail(l) \in Seq(Steps)
    OBVIOUS
<1>2. Len(Tail(l)) = Len(l) - 1 /\ \A k \in 1..(Len(l) - 1) : Tail(l)[k] = l[k + 1]
    OBVIOUS
<1>3. Len(r) = n + Len(l) - 1
    BY <1>1, <1>2, ConcatProperties
<1>4. n + i - 1 \in 1..(n + Len(Tail(l))) /\ ~(n + i - 1 <= n) /\ (n + i - 1) - n = i - 1
    BY <1>1, <1>2
<1>5. r[n + i - 1] = Tail(l)[i - 1]
    BY <1>1, <1>4, ConcatProperties
<1>6. i - 1 \in 1..(Len(l) - 1) /\ (i - 1) + 1 = i
    BY <1>1
<1>7. Tail(l)[i - 1] = l[i]
    BY <1>2, <1>6
<1>8. n + i - 1 \in 1..Len(r)
    BY <1>1, <1>3
<1> QED BY <1>5, <1>7, <1>8

\* What is ahead of a thread stays ahead of it until it gets there.
LEMMA Later ==
    ASSUME NEW l \in Seq(Steps), l /= <<>>, NEW next \in Seq(Steps)
    PROVE  /\ \A H : Head(l) \notin H /\ Faces(l, H) => Faces(next \o Tail(l), H)
           /\ Head(l) /= "sweep" /\ Sweeps(l) => Sweeps(next \o Tail(l))
           /\ Head(l) /= "sweep" /\ Parting(l) => Parting(next \o Tail(l))
<1> DEFINE n == Len(next)
           r == next \o Tail(l)
<1>1. n \in Nat /\ Len(l) \in Nat /\ Head(l) = l[1]
    OBVIOUS
<1>2. \A i \in 2..Len(l) : n + i - 1 \in 1..Len(r) /\ r[n + i - 1] = l[i]
    BY Shifted
<1> HIDE DEF r, n
<1>3. ASSUME NEW H, Head(l) \notin H, Faces(l, H) PROVE Faces(r, H)
  <2>1. PICK i \in 1..Len(l) : l[i] \in H
      BY <1>3 DEF Faces
  <2>2. i \in 2..Len(l)
      BY <1>1, <1>3, <2>1
  <2> QED BY <1>2, <2>1, <2>2 DEF Faces
<1>4. Head(l) /= "sweep" /\ Sweeps(l) => Sweeps(r)
    BY <1>3 DEF Sweeps
<1>5. ASSUME Head(l) /= "sweep", Parting(l) PROVE Parting(r)
  <2>1. PICK i, j \in 1..Len(l) : i < j /\ l[i] = "sweep" /\ l[j] = "unguard"
      BY <1>5 DEF Parting
  <2>2. i \in 2..Len(l) /\ j \in 2..Len(l)
      BY <1>1, <1>5, <2>1
  <2>3. /\ n + i - 1 \in 1..Len(r) /\ r[n + i - 1] = "sweep"
        /\ n + j - 1 \in 1..Len(r) /\ r[n + j - 1] = "unguard"
      BY <1>2, <2>1, <2>2
  <2>4. n + i - 1 < n + j - 1
      BY <1>1, <2>1
  <2> QED BY <2>3, <2>4 DEF Parting
<1> QED BY <1>3, <1>4, <1>5 DEF r

\* What a list has ahead it has when another comes before or after it.
LEMMA Around ==
    ASSUME NEW a \in Seq(Steps), NEW b \in Seq(Steps)
    PROVE  /\ a \o b \in Seq(Steps)
           /\ \A H : Faces(a, H) \/ Faces(b, H) => Faces(a \o b, H)
           /\ Parting(a) => Parting(a \o b)
           /\ Parting(b) => Parting(a \o b)
<1> DEFINE l == a \o b
<1>1. l \in Seq(Steps)
    BY ConcatProperties
<1>2. Len(l) = Len(a) + Len(b) /\ Len(a) \in Nat /\ Len(b) \in Nat
    BY ConcatProperties
<1>3. \A i \in 1..Len(a) : i \in 1..Len(l) /\ l[i] = a[i]
  <2>1. ASSUME NEW i \in 1..Len(a) PROVE i \in 1..Len(l) /\ l[i] = a[i]
    <3>1. i \in 1..(Len(a) + Len(b)) /\ i <= Len(a)
        BY <1>2
    <3>2. l[i] = a[i]
        BY <3>1, ConcatProperties
    <3>3. i \in 1..Len(l)
        BY <1>2, <3>1
    <3> QED BY <3>2, <3>3
  <2> QED BY <2>1
<1>4. ASSUME NEW i \in 1..Len(b)
      PROVE  Len(a) + i \in 1..Len(l) /\ l[Len(a) + i] = b[i]
  <2>1. Len(a) + i \in 1..(Len(a) + Len(b)) /\ ~(Len(a) + i <= Len(a))
        /\ (Len(a) + i) - Len(a) = i
      BY <1>2
  <2>2. l[Len(a) + i] = b[i]
      BY <2>1, ConcatProperties
  <2>3. Len(a) + i \in 1..Len(l)
      BY <1>2, <2>1
  <2> QED BY <2>2, <2>3
<1> HIDE DEF l
<1>5. \A H : Faces(a, H) \/ Faces(b, H) => Faces(l, H)
    BY <1>3, <1>4 DEF Faces
<1>6. Parting(a) => Parting(l)
    BY <1>3 DEF Parting
<1>7. Parting(b) => Parting(l)
  <2> SUFFICES ASSUME Parting(b) PROVE Parting(l)
      OBVIOUS
  <2>1. PICK i, j \in 1..Len(b) : i < j /\ b[i] = "sweep" /\ b[j] = "unguard"
      BY DEF Parting
  <2>2. Len(a) + i < Len(a) + j
      BY <1>2, <2>1
  <2> QED BY <1>4, <2>1, <2>2 DEF Parting
<1> QED BY <1>1, <1>5, <1>6, <1>7 DEF l

\* Dropping the driver sweeps the bus before it gives up the watchdog, and parking
\* the devices sweeps it before the driver is let go.
LEMMA Drops ==
    /\ Parting(DriverDrop \o AfterRun)
    /\ Parting((Unplug \o <<"disconnect", "sweep">> \o DriverDrop) \o AfterRun)
    /\ \A s \in Seq(Steps) : Parting(DriverDrop \o s) /\ Sweeps((Park \o <<"letGo">>) \o s)
<1>0. {"unplug", "sweep", "unguard", "restore", "disconnect", "unclaim", "appDrop", "letGo"}
         \subseteq Steps
    BY DEF Steps
<1>1. /\ DriverDrop \in Seq(Steps) /\ AfterRun \in Seq(Steps) /\ Unplug \in Seq(Steps)
      /\ Park \in Seq(Steps) /\ <<"disconnect", "sweep">> \in Seq(Steps)
      /\ <<"letGo">> \in Seq(Steps)
    BY <1>0, Lists DEF DriverDrop, AfterRun, Unplug, Park
<1>2. Parting(DriverDrop)
  <2>1. Len(DriverDrop) = 4 /\ DriverDrop[2] = "sweep" /\ DriverDrop[3] = "unguard"
      BY DEF DriverDrop
  <2>2. 2 \in 1..Len(DriverDrop) /\ 3 \in 1..Len(DriverDrop) /\ 2 < 3
      BY <2>1
  <2> QED BY <2>1, <2>2 DEF Parting
<1>3. Sweeps(Park)
  <2>1. Len(Park) = 2 /\ Park[2] = "sweep"
      BY DEF Park
  <2>2. 2 \in 1..Len(Park)
      BY <2>1
  <2> QED BY <2>1, <2>2 DEF Sweeps, Faces
<1>4. \A s \in Seq(Steps) : Parting(DriverDrop \o s)
    BY <1>1, <1>2, Around
<1>5. Parting((Unplug \o <<"disconnect", "sweep">> \o DriverDrop) \o AfterRun)
  <2> DEFINE p == Unplug \o <<"disconnect", "sweep">>
             q == p \o DriverDrop
  <2>1. p \in Seq(Steps)
      BY <1>1, Around
  <2> HIDE DEF p
  <2>2. q \in Seq(Steps) /\ Parting(q)
      BY <1>1, <1>2, <2>1, Around
  <2> HIDE DEF q
  <2>3. Parting(q \o AfterRun)
      BY <1>1, <2>2, Around
  <2> QED BY <2>3 DEF q, p
<1>6. ASSUME NEW s \in Seq(Steps) PROVE Sweeps((Park \o <<"letGo">>) \o s)
  <2> DEFINE p == Park \o <<"letGo">>
  <2>1. p \in Seq(Steps) /\ Sweeps(p)
      BY <1>1, <1>3, Around DEF Sweeps
  <2> HIDE DEF p
  <2>2. Sweeps(p \o s)
      BY <2>1, Around DEF Sweeps
  <2> QED BY <2>2 DEF p
<1> QED BY <1>1, <1>4, <1>5, <1>6

\* Only a plug adds a device of ours to those that nobody has told to go.
LEMMA Drains ==
    ASSUME TypeOK, Next, ~Plug
    PROVE  Left' \subseteq Left
    BY DEF TypeOK, Left, locals, owners, leave, driver, onBus, lamps, process, Next, MainStep,
           Watch, Prepare, Leftovers, Wait, Open, Create, Check, Plug, Recheck, Record,
           Created, Replug, Close, Stop, Bind, Reopen, Started, Install, Unplugged, Rebuilt,
           Recreated, Unwrap, Disconnect, Unclaim, AppDrop, LetApp, Commands, Toggle,
           Recreate, Quit, Remove, Watchdog, WatchdogLooks, WatchdogStops, Windows,
           LampReturns, WindowCloses, AnotherCopyPlugs, ProcessEnds, CleanStep, CleanUp, Flag,
           Take, LetGo, UnplugLocks, UnplugKeyboard, UnplugMouse, Sweep, Unguard, Restore,
           DeviceLeaves, LetsGo, PlugsFirst, PlugFails, RebuildFails, SweepsBus, Unplugs,
           UnplugRefused, PlugAccepted, PlugRefused, Rebinds, UnplugsRecorded

\* A sweep that Windows does not refuse leaves nothing of ours behind.
LEMMA SweptAway ==
    ASSUME TypeOK, Without({"refuse"}), NEW t \in Threads, Sweep(t)
    PROVE  Left' = {}
    BY DEF Without, Sweep, SweepsBus, Left

\* A thread on its way out goes on by a step of its own.
LEMMA OwnSteps ==
    ASSUME TypeOK, NEW t \in Threads, ~Sweep(t),
           \/ CleanStep(t)
           \/ t = "main" /\ (Disconnect \/ Unclaim \/ AppDrop \/ LetApp)
    PROVE  /\ steps[t] /= <<>> /\ Head(steps[t]) /= "sweep"
           /\ \E next \in Seq(Steps) : Go(t, next)
<1>1. steps[t] /= <<>> /\ Head(steps[t]) /= "sweep"
    BY DEF CleanStep, CleanUp, Flag, Take, LetGo, UnplugLocks, UnplugKeyboard, UnplugMouse,
           Unguard, Restore, Disconnect, Unclaim, AppDrop, LetApp, At
<1>2. GoneSteps \subseteq Steps
    BY DEF GoneSteps, Steps
<1>3. \A next : next \in Seq(GoneSteps) => next \in Seq(Steps)
    BY <1>2
<1> DEFINE P == \E next \in Seq(Steps) : Go(t, next)
<1>g. \A next : next \in Seq(GoneSteps) /\ Go(t, next) => P
    BY <1>3
<1> HIDE DEF P
<1>4. CleanUp(t) \/ Flag(t) \/ Take(t) \/ LetGo(t) => P
    BY <1>g, WayOut DEF CleanUp, Flag, Take, LetGo, LetsGo
<1>5. UnplugLocks(t) \/ UnplugKeyboard(t) \/ UnplugMouse(t) \/ Unguard(t) \/ Restore(t) => P
    BY <1>g, WayOut DEF UnplugLocks, UnplugKeyboard, UnplugMouse, Unguard, Restore
<1>6. t = "main" /\ (Disconnect \/ Unclaim \/ AppDrop \/ LetApp) => P
    BY <1>g, WayOut DEF Disconnect, Unclaim, AppDrop, LetApp, LetsGo
<1>7. P
    BY <1>4, <1>5, <1>6 DEF CleanStep
<1> QED BY <1>1, <1>7 DEF P

LEMMA AheadStays ==
    ASSUME TypeOK, Next, NEW t \in Threads, steps[t] \in Seq(GoneSteps), ~Sweep(t),
           t = "closer" => ~WindowCloses
    PROVE  /\ Sweeps(steps[t]) => Sweeps(steps'[t])
           /\ Parting(steps[t]) => Parting(steps'[t])
<1>1. CASE steps'[t] = steps[t]
    BY <1>1
<1>2. ASSUME t = "main", MainStep \/ Commands
      PROVE  Disconnect \/ Unclaim \/ AppDrop \/ LetApp
  <2>1. steps[t] /= <<>> => Head(steps[t]) \in GoneSteps
      OBVIOUS
  <2> QED BY <1>2, <2>1 DEF GoneSteps, At, MainStep, Watch, Prepare, Leftovers, Wait, Open,
             Create, Check, Plug, Recheck, Record, Created, Replug, Close, Stop, Bind, Reopen,
             Started, Install, Unplugged, Rebuilt, Recreated, Unwrap, Commands, Toggle,
             Recreate, Quit, Remove
<1>3. CASE CleanStep(t) \/ (t = "main" /\ (Disconnect \/ Unclaim \/ AppDrop \/ LetApp))
  <2>1. steps[t] /= <<>> /\ Head(steps[t]) /= "sweep" /\ steps[t] \in Seq(Steps)
      BY <1>3, OwnSteps DEF TypeOK
  <2>2. PICK next \in Seq(Steps) : Go(t, next)
      BY <1>3, OwnSteps
  <2>3. steps'[t] = next \o Tail(steps[t])
      BY <2>2 DEF Go, TypeOK
  <2>4. /\ Sweeps(steps[t]) => Sweeps(next \o Tail(steps[t]))
        /\ Parting(steps[t]) => Parting(next \o Tail(steps[t]))
      BY <2>1, Later
  <2> QED BY <2>3, <2>4
<1> QED BY <1>1, <1>2, <1>3, Moves

\* A sweep that is ahead of the thread that cleans up gets done by it.
LEMMA CleaningEnds ==
    ASSUME TypeOK, Cleaners, Without({"refuse"}), Next, Cleaning
    PROVE  Left' = {} \/ Cleaning'
<1>1. PICK t \in Threads : cleaner = t /\ Sweeps(steps[t])
    BY DEF Cleaning
<1>2. steps[t] \in Seq(GoneSteps)
    BY <1>1 DEF Cleaners, Main, Threads
<1>3. t = "closer" => ~WindowCloses
    BY <1>1 DEF Cleaners, WindowCloses
<1>4. CASE Sweep(t)
    BY <1>4, SweptAway
<1>5. CASE ~Sweep(t)
  <2>1. Sweeps(steps'[t])
      BY <1>1, <1>2, <1>3, <1>5, AheadStays
  <2>2. cleaner' = t
      BY <1>1, CleanerStays
  <2> QED BY <2>1, <2>2 DEF Cleaning, Sweeps, Faces
<1> QED BY <1>4, <1>5

\* And so does the one ahead of a main that drops the driver.
LEMMA DroppingEnds ==
    ASSUME TypeOK, Without({"refuse"}), Next, Dropping
    PROVE  Left' = {} \/ Dropping'
<1>1. Main' \in Seq(GoneSteps)
    BY GoneStays DEF Dropping
<1>2. CASE Sweep("main")
    BY <1>2, SweptAway DEF Threads
<1>3. CASE ~Sweep("main")
  <2>1. Parting(Main')
      BY <1>3, AheadStays DEF Dropping, Main, Threads
  <2> QED BY <1>1, <2>1 DEF Dropping, Parting
<1> QED BY <1>2, <1>3

\* Driver::remove comes next for a main that holds the only reference, and drops it.
LEMMA RemovingEnds ==
    ASSUME TypeOK, Cleaners, Next, Removing
    PROVE  Removing' \/ Dropping'
<1>1. Main /= <<>> /\ Head(Main) = "unwrap" /\ refs = {"app"}
    BY DEF Removing
<1>2. CASE Unwrap
  <2> DEFINE p == Unplug \o <<"disconnect", "sweep">> \o DriverDrop
  <2>1. Return(p)
      BY <1>1, <1>2 DEF Unwrap
  <2>2. p \in Seq(GoneSteps)
      BY WayOut
  <2>3. Main' = p \o AfterRun
      BY <2>1 DEF Return, Main, TypeOK, Threads
  <2>4. Parting(p \o AfterRun)
      BY Drops
  <2> HIDE DEF p
  <2>5. "main" \notin refs'
      BY <1>1, <1>2 DEF Unwrap
  <2>6. Main' \in Seq(GoneSteps)
      BY <2>1, <2>2, <2>5, GoesOut DEF Gone
  <2>7. Parting(Main')
      BY <2>3, <2>4
  <2> QED BY <2>6, <2>7 DEF Dropping, Parting
<1>3. CASE CleanStep("closer")
  <2>1. refs' = {"app"}
      BY <1>1, <1>3, CloserRefs
  <2>2. Main' = Main
      BY <1>3 DEF TypeOK, Main, Threads, Go, CleanStep, CleanUp, Flag, Take, LetGo, LetsGo,
             UnplugLocks, UnplugKeyboard, UnplugMouse, Sweep, Unguard, Restore
  <2> QED BY <2>1, <2>2 DEF Removing
<1>4. CASE Watchdog \/ Windows \/ ProcessEnds \/ \E d \in Devices : DeviceLeaves(d)
    BY <1>4, AroundMain DEF Removing
<1>5. ~CleanStep("main") /\ ~Commands /\ (MainStep => Unwrap)
    BY <1>1 DEF Main, At, MainStep, Watch, Prepare, Leftovers, Wait, Open, Create, Check, Plug,
           Recheck, Record, Created, Replug, Close, Stop, Bind, Reopen, Started, Install,
           Unplugged, Rebuilt, Recreated, Disconnect, Unclaim, AppDrop, LetApp, Commands,
           Toggle, Recreate, Quit, Remove, CleanStep, CleanUp, Flag, Take, LetGo, UnplugLocks,
           UnplugKeyboard, UnplugMouse, Sweep, Unguard, Restore
<1> QED BY <1>2, <1>3, <1>4, <1>5 DEF Next, Threads

\* A device that has just been plugged is written down with somebody holding the
\* driver, or taken back because the program is leaving.
LEMMA PluggingEnds ==
    ASSUME TypeOK, Track, Cleaners, Without({"refuse"}), Next, Plugging
    PROVE  Left' = {} \/ Plugging' \/ Holding'
<1>1. Main /= <<>> /\ Head(Main) = "recheck" /\ Left = {kind}
    BY DEF Plugging
<1>2. CASE Recheck /\ leaving
  <2>1. PICK T \in Callers : Owns(T) /\ Making(T)
      BY <1>1, Located
  <2>2. conn
      BY <1>1, <2>1, Place
  <2>3. ~UnplugRefused(kind)
      BY <1>1, <2>2 DEF UnplugRefused, Without, Left
  <2>4. Unplugs(kind)
      BY <1>2, <2>3 DEF Recheck
  <2>5. Left' = {}
      BY <1>1, <2>4 DEF Unplugs, Left
  <2> QED BY <2>5
<1>3. CASE Recheck /\ ~leaving
  <2>1. PICK T \in Callers : Owns(T) /\ Making(T)
      BY <1>1, Located
  <2>2. refs' = refs /\ cleaner' = cleaner
      BY <1>3 DEF Recheck, owners, leave
  <2>3. "shared" \in refs \/ "main" \in refs
      BY <1>3, <2>1 DEF Owns
  <2>4. cleaner /= "main"
    <3>1. cleaner = "main" => Main \in Seq(GoneSteps)
        BY DEF Cleaners
    <3>2. Main \in Seq(GoneSteps) => Head(Main) \in GoneSteps
        BY <1>1
    <3> QED BY <1>1, <3>1, <3>2 DEF GoneSteps
  <2> QED BY <2>2, <2>3, <2>4 DEF Holding
<1>4. CASE ~Recheck
  <2>1. ~Record /\ ~Plug
      BY <1>1 DEF Record, Plug, At, Main
  <2>2. Main' = Main /\ kind' = kind
      BY <1>1, <1>4, <2>1, Stays DEF Main
  <2>3. Left' = {} \/ Left' = {kind}
      BY <1>1, <2>1, Drains
  <2> QED BY <1>1, <2>2, <2>3 DEF Plugging
<1> QED BY <1>2, <1>3, <1>4

\* A driver in the hands of Shared or of main is parked by the cleanup, removed by
\* the menu, or dropped by an App::start that fails.
LEMMA HoldingEnds ==
    ASSUME TypeOK, Track, Cleaners, Next, Holding
    PROVE  Holding' \/ Removing' \/ Dropping' \/ Cleaning'
<1>0. "main" \in Threads /\ "closer" \in Threads
    BY DEF Threads
<1>1. CASE refs' = refs /\ cleaner' = cleaner
    BY <1>1 DEF Holding
<1>2. CASE Open
  <2>1. Main /= <<>> /\ Head(Main) = "open"
      BY <1>2 DEF Open, At, Main
  <2>2. refs = {}
      BY <2>1, Located
  <2> QED BY <2>2 DEF Holding
<1>3. CASE Started
  <2>1. Main /= <<>> /\ Head(Main) = "started" /\ cleaner' = cleaner
      BY <1>3 DEF Started, At, Main, leave
  <2>2. CASE UNCHANGED refs
      BY <2>1, <2>2 DEF Holding
  <2>3. CASE refs' = {} /\ Return(DriverDrop)
    <3>1. Main' = DriverDrop \o AfterRun
        BY <2>3 DEF Return, Main, TypeOK, Threads
    <3>2. Main' \in Seq(GoneSteps)
        BY <2>3, WayOut, GoesOut DEF Gone
    <3>3. Parting(Main')
        BY <3>1, Drops
    <3> QED BY <3>2, <3>3 DEF Dropping, Parting
  <2> QED BY <1>3, <2>2, <2>3 DEF Started
<1>4. CASE Install
    BY <1>4 DEF Install, Holding
<1>5. CASE Remove
  <2>1. Main = <<"menu">> /\ Owns(Returning)
    <3>1. Main /= <<>> /\ Head(Main) = "menu"
        BY <1>5 DEF Remove, At, Main
    <3> QED BY <3>1, Located
  <2>2. refs = {"app", "shared"}
    <3>1. refs \in {{"app", "shared"}, {"app"}, {"app", "closer"}}
        BY <2>1, AtMenu
    <3>2. refs /= {"app"} /\ refs /= {"app", "closer"}
        BY DEF Holding
    <3> QED BY <3>1, <3>2
  <2>3. refs' = {"app"}
      BY <1>5, <2>2 DEF Remove
  <2>4. Main' = <<"unwrap">>
    <3>1. Tail(Main) = <<>>
        BY <2>1
    <3>2. Main' = <<"unwrap">> \o <<>>
        BY <1>5, <3>1 DEF Remove, Go, Main, TypeOK, Threads
    <3> QED BY <3>2
  <2> QED BY <2>3, <2>4 DEF Removing
<1>6. CASE Quit \/ Unwrap \/ LetApp
  <2>1. (refs' = refs \/ refs' = refs \ {"app"}) /\ cleaner' = cleaner
      BY <1>6 DEF Quit, Unwrap, LetApp, LetsGo, leave
  <2> QED BY <2>1 DEF Holding
<1>7. ASSUME NEW t \in Threads, Take(t) PROVE Holding' \/ Cleaning'
  <2>1. cleaner = t /\ cleaner' = t
      BY <1>7, CleanersOnly DEF Take, leave
  <2>2. CASE "shared" \in refs
    <3>1. Go(t, Park \o <<"letGo">>) /\ steps[t] \in Seq(Steps) /\ steps[t] /= <<>>
        BY <1>7, <2>2 DEF Take, At, TypeOK
    <3>2. Tail(steps[t]) \in Seq(Steps)
        BY <3>1
    <3>3. steps'[t] = (Park \o <<"letGo">>) \o Tail(steps[t])
        BY <3>1 DEF Go, TypeOK
    <3>4. Sweeps((Park \o <<"letGo">>) \o Tail(steps[t]))
        BY <3>2, Drops
    <3>5. Sweeps(steps'[t])
        BY <3>3, <3>4
    <3> QED BY <2>1, <3>5 DEF Cleaning, Sweeps, Faces
  <2>3. CASE "shared" \notin refs
    <3>1. refs' = refs
        BY <1>7, <2>3 DEF Take
    <3> QED BY <2>1, <3>1 DEF Holding
  <2> QED BY <2>2, <2>3
<1>8. ASSUME NEW t \in Threads, LetGo(t) PROVE Holding'
  <2>1. cleaner = t /\ cleaner' = t /\ refs' = refs \ {t}
      BY <1>8, CleanersOnly DEF LetGo, LetsGo, leave
  <2>2. t /= "shared"
      BY DEF Threads
  <2> QED BY <2>1, <2>2 DEF Holding
<1>9. CASE Watchdog \/ Windows \/ ProcessEnds \/ \E d \in Devices : DeviceLeaves(d)
    BY <1>1, <1>9, AroundMain
<1>10. CASE MainStep \/ Commands
  <2>1. CASE Watch \/ Prepare \/ Leftovers \/ Wait \/ Create \/ Check \/ Plug \/ Recheck
      BY <1>1, <2>1 DEF Watch, Prepare, Leftovers, Wait, Create, Check, Plug, Recheck, owners,
             leave
  <2>2. CASE Record \/ Created \/ Replug \/ Close \/ Stop \/ Bind \/ Reopen
      BY <1>1, <2>2 DEF Record, Created, Replug, Close, Stop, Bind, Reopen, owners, leave
  <2>3. CASE Unplugged \/ Rebuilt \/ Recreated \/ Disconnect \/ Unclaim \/ AppDrop
      BY <1>1, <2>3 DEF Unplugged, Rebuilt, Recreated, Disconnect, Unclaim, AppDrop, owners,
             leave
  <2>4. CASE Toggle \/ Recreate
      BY <1>1, <2>4 DEF Toggle, Recreate, owners, leave
  <2> QED BY <1>2, <1>3, <1>4, <1>5, <1>6, <1>10, <2>1, <2>2, <2>3, <2>4 DEF MainStep, Commands
<1>11. ASSUME NEW t \in Threads, CleanStep(t) PROVE Holding' \/ Cleaning'
  <2>1. CASE Flag(t) \/ UnplugLocks(t) \/ UnplugKeyboard(t) \/ UnplugMouse(t) \/ Sweep(t)
               \/ Unguard(t) \/ Restore(t)
    <3>1. refs' = refs /\ cleaner' = cleaner
        BY <2>1 DEF Flag, UnplugLocks, UnplugKeyboard, UnplugMouse, Sweep, Unguard, Restore,
               owners, leave
    <3> QED BY <3>1 DEF Holding
  <2>2. CASE CleanUp(t)
    <3>1. refs' = refs
        BY <2>2 DEF CleanUp, owners
    <3>2. "main" \in refs /\ cleaner /= "main" => t /= "main"
      <4> SUFFICES ASSUME t = "main", "main" \in refs, cleaner /= "main" PROVE FALSE
          OBVIOUS
      <4>1. Main /= <<>> /\ Head(Main) = "cleanUp"
          BY <2>2 DEF CleanUp, At, Main
      <4>2. Gone
          BY <4>1, Located
      <4> QED BY <4>2 DEF Gone
    <3>3. cleaner' = cleaner \/ cleaner' = t
        BY <2>2 DEF CleanUp
    <3> QED BY <3>1, <3>2, <3>3 DEF Holding
  <2> QED BY <1>7, <1>8, <1>11, <2>1, <2>2 DEF CleanStep
<1> QED BY <1>9, <1>10, <1>11 DEF Next

LEMMA StepCovered ==
    ASSUME TypeOK, Track, Cleaners, Covered, Next
    PROVE  Covered'
<1> SUFFICES ASSUME Without({"refuse"})
             PROVE  (Left = {} \/ Plugging \/ Holding \/ Removing \/ Dropping \/ Cleaning)'
    BY EnvStays DEF Covered, Without
<1>1. CASE Holding
    BY <1>1, HoldingEnds
<1>2. CASE Removing
    BY <1>2, RemovingEnds
<1>3. CASE Dropping
    BY <1>3, DroppingEnds
<1>4. CASE Cleaning
    BY <1>4, CleaningEnds
<1>5. CASE Plugging
    BY <1>5, PluggingEnds
<1>6. CASE Left = {} /\ ~Plug
    BY <1>6, Drains
<1>7. CASE Left = {} /\ Plug
  <2>1. kind' = kind
      BY <1>7 DEF Plug
  <2>2. CASE PlugAccepted /\ Go("main", <<"recheck">>)
    <3>1. Main' /= <<>> /\ Head(Main') = "recheck"
        BY <2>2, InFront DEF Main, Steps
    <3>2. Left' = {} \/ Left' = {kind}
        BY <1>7, <2>2 DEF PlugAccepted, Left
    <3> QED BY <2>1, <3>1, <3>2 DEF Plugging
  <2>3. CASE PlugRefused
      BY <1>7, <2>3 DEF PlugRefused, onBus, Left
  <2> QED BY <1>7, <2>2, <2>3 DEF Plug
<1> QED BY <1>1, <1>2, <1>3, <1>4, <1>5, <1>6, <1>7 DEF Covered

(***************************************************************************)
(* The way out of a program whose window is not closed.  Until main cleans *)
(* up, its list leads to App::drop or to a place that goes on to it; once  *)
(* it does, it takes the driver out of Shared; and the process does not    *)
(* end before main has returned.                                           *)
(***************************************************************************)
Ways == {"started", "install", "menu", "unwrap", "appDrop", "cleanUp"}

Due == ~closing =>
    /\ cleaner = "nobody" => Faces(Main, Ways)
    /\ cleaner = "main" /\ "shared" \in refs => Faces(Main, {"flag", "take"})
    /\ ended => Main = <<>>

\* What main puts in front is there at once, and what run() returns to as well.
LEMMA PutInFront ==
    ASSUME TypeOK, NEW H, Main /= <<>>
    PROVE  /\ \A a \in Steps \cap H : Go("main", <<a>>) => Faces(Main', H)
           /\ \A next \in Seq(Steps) :
                 Go("main", next) /\ Head(Main) \notin H /\ Faces(Main, H) => Faces(Main', H)
<1>1. Main \in Seq(Steps) /\ Tail(Main) \in Seq(Steps)
    BY DEF TypeOK, Main, Threads
<1>2. \A next : Go("main", next) => Main' = next \o Tail(Main)
    BY DEF Go, TypeOK, Main, Threads
<1>3. ASSUME NEW a \in Steps \cap H, Go("main", <<a>>) PROVE Faces(Main', H)
  <2> DEFINE l == <<a>>
  <2>1. l \in Seq(Steps) /\ Len(l) = 1 /\ l[1] = a
      OBVIOUS
  <2>2. Main' = l \o Tail(Main)
      BY <1>2, <1>3
  <2> HIDE DEF l
  <2>3. Faces(l, H)
      BY <2>1 DEF Faces
  <2>4. Faces(l \o Tail(Main), H)
      BY <1>1, <2>1, <2>3, Around
  <2> QED BY <2>2, <2>4 DEF Faces
<1>4. ASSUME NEW next \in Seq(Steps), Go("main", next), Head(Main) \notin H, Faces(Main, H)
      PROVE  Faces(Main', H)
  <2>1. Faces(next \o Tail(Main), H)
      BY <1>1, <1>4, Later
  <2>2. Main' = next \o Tail(Main)
      BY <1>2, <1>4
  <2> QED BY <2>1, <2>2 DEF Faces
<1> QED BY <1>3, <1>4

LEMMA ReturnFaces ==
    ASSUME TypeOK, NEW l \in Seq(Steps), Return(l)
    PROVE  Faces(Main', Ways)
<1>1. AfterRun \in Seq(Steps) /\ Faces(AfterRun, Ways)
  <2>1. "unclaim" \in Steps /\ "appDrop" \in Steps /\ "appDrop" \in Ways
      BY DEF Steps, Ways
  <2>2. AfterRun \in Seq(Steps) /\ Len(AfterRun) = 2 /\ AfterRun[2] = "appDrop"
      BY <2>1 DEF AfterRun
  <2>3. 2 \in 1..Len(AfterRun)
      BY <2>2
  <2> QED BY <2>1, <2>2, <2>3 DEF Faces
<1>2. Faces(l \o AfterRun, Ways)
    BY <1>1, Around
<1>3. Main' = l \o AfterRun
    BY DEF Return, Main, TypeOK, Threads
<1> QED BY <1>2, <1>3 DEF Faces

\* Each step of main goes on with its list, returns from run(), or is not one at all.
LEMMA MainRuns ==
    ASSUME TypeOK, MainStep \/ Commands \/ CleanStep("main")
    PROVE  /\ Main /= <<>> /\ ~ended
           /\ \/ Main' = Main
              \/ \E next \in Seq(Steps) : Go("main", next)
              \/ \E l \in Seq(Steps) : Return(l)
<1> DEFINE G == \E next \in Seq(Steps) : Go("main", next)
           R == \E l \in Seq(Steps) : Return(l)
<1>1. \A next : next \in Seq(Steps) /\ Go("main", next) => G
    OBVIOUS
<1>2. \A l : l \in Seq(Steps) /\ Return(l) => R
    OBVIOUS
<1> HIDE DEF G, R
<1>3. Modest \subseteq Steps /\ <<>> \in Seq(Steps) /\ "main" \in Threads
    BY Lists DEF Modest, Threads
<1>4. <<"flag">> \in Seq(Steps) /\ <<"take">> \in Seq(Steps) /\ Park \o <<"letGo">> \in Seq(Steps)
  <2>1. {"flag", "take", "letGo"} \subseteq Steps
      BY DEF Steps
  <2>2. <<"letGo">> \in Seq(Steps) /\ <<"flag">> \in Seq(Steps) /\ <<"take">> \in Seq(Steps)
      BY <2>1, Lists
  <2>3. Park \in Seq(Steps)
      BY <1>3, Called
  <2> QED BY <2>2, <2>3, Appended
<1>5. CASE Watch \/ Prepare \/ Leftovers \/ Wait \/ Open
  <2>1. G \/ R
      BY <1>1, <1>2, <1>3, <1>5, Literals, Called DEF Watch, Prepare, Leftovers, Wait, Open
  <2> QED BY <1>5, <2>1 DEF G, R, Watch, Prepare, Leftovers, Wait, Open, At, Main
<1>6. CASE Create \/ Check \/ Recheck \/ Record \/ Created \/ Replug
  <2>1. G
      BY <1>1, <1>3, <1>6, Literals, Called
         DEF Create, Check, Recheck, Record, Created, Replug, PlugFails
  <2> QED BY <1>6, <2>1 DEF G, Create, Check, Recheck, Record, Created, Replug, At, Main
<1>7. CASE Plug
  <2>1. G \/ Main' = Main
      BY <1>1, <1>3, <1>7, Literals, Called DEF Plug, PlugFails, Main
  <2> QED BY <1>7, <2>1 DEF G, Plug, At, Main
<1>8. CASE Close \/ Stop \/ Bind \/ Reopen \/ Unplugged \/ Rebuilt \/ Recreated
  <2>1. G
      BY <1>1, <1>3, <1>8, Literals
         DEF Close, Stop, Bind, Reopen, Unplugged, Rebuilt, Recreated, RebuildFails
  <2> QED BY <1>8, <2>1 DEF G, Close, Stop, Bind, Reopen, Unplugged, Rebuilt, Recreated, At, Main
<1>9. CASE Started \/ Install \/ Unwrap \/ Quit
  <2>1. G \/ R
      BY <1>1, <1>2, <1>3, <1>9, Literals, Called DEF Started, Install, Unwrap, Quit
  <2> QED BY <1>9, <2>1 DEF G, R, Started, Install, Unwrap, Quit, At, Main
<1>10. CASE Disconnect \/ Unclaim \/ AppDrop \/ LetApp
  <2>1. G
      BY <1>1, <1>3, <1>10, Literals, Called DEF Disconnect, Unclaim, AppDrop, LetApp, LetsGo
  <2> QED BY <1>10, <2>1 DEF G, Disconnect, Unclaim, AppDrop, LetApp, At, Main
<1>11. CASE Toggle \/ Recreate \/ Remove
  <2>1. G \/ Main' = Main
      BY <1>1, <1>3, <1>11, Literals, Called DEF Toggle, Recreate, Remove, Main
  <2> QED BY <1>11, <2>1 DEF G, Toggle, Recreate, Remove, At, Main
<1>12. CASE CleanStep("main")
  <2>1. G
    <3>1. CASE CleanUp("main") \/ Flag("main") \/ Take("main") \/ LetGo("main")
        BY <1>1, <1>3, <1>4, <3>1, Called DEF CleanUp, Flag, Take, LetGo, LetsGo
    <3>2. CASE UnplugLocks("main") \/ UnplugKeyboard("main") \/ UnplugMouse("main")
               \/ Sweep("main") \/ Unguard("main") \/ Restore("main")
        BY <1>1, <1>3, <3>2, Literals
           DEF UnplugLocks, UnplugKeyboard, UnplugMouse, Sweep, Unguard, Restore
    <3> QED BY <1>12, <3>1, <3>2 DEF CleanStep
  <2> QED BY <1>12, <2>1 DEF G, CleanStep, CleanUp, Flag, Take, LetGo, UnplugLocks,
             UnplugKeyboard, UnplugMouse, Sweep, Unguard, Restore, At, Main
<1> QED BY <1>5, <1>6, <1>7, <1>8, <1>9, <1>10, <1>11, <1>12 DEF MainStep, Commands

\* As long as the window is not closed, nobody but main moves.
LEMMA OnlyMain ==
    ASSUME TypeOK, Cleaners, Next, ~closing'
    PROVE  /\ ~closing /\ cleaner /= "closer" /\ ~CleanStep("closer")
           /\ Main' = Main \/ MainStep \/ Commands \/ CleanStep("main")
<1>1. ~closing
    BY FlagStays
<1>2. cleaner /= "closer" /\ steps["closer"] = <<>>
    BY <1>1 DEF Cleaners
<1>3. ~CleanStep("closer")
    BY <1>2 DEF CleanStep, CleanUp, Flag, Take, LetGo, UnplugLocks, UnplugKeyboard, UnplugMouse,
           Sweep, Unguard, Restore, At
<1>4. Main' = Main \/ MainStep \/ Commands \/ CleanStep("main")
    BY Moves DEF Main, Threads
<1> QED BY <1>1, <1>2, <1>3, <1>4

\* App::drop stays ahead of a main that has not begun to clean up.
LEMMA DropIsAhead ==
    ASSUME TypeOK, Faces(Main, Ways), cleaner' = "nobody",
           MainStep \/ Commands \/ CleanStep("main")
    PROVE  Faces(Main', Ways)
<1>1. Main /= <<>>
    BY MainRuns
<1>2. /\ "install" \in Steps \cap Ways /\ "menu" \in Steps \cap Ways
      /\ "unwrap" \in Steps \cap Ways
    BY DEF Steps, Ways
<1>3. \A a \in Steps \cap Ways : Go("main", <<a>>) => Faces(Main', Ways)
    BY <1>1, PutInFront
<1>4. /\ Go("main", <<"install">>) => Faces(Main', Ways)
      /\ Go("main", <<"menu">>) => Faces(Main', Ways)
      /\ Go("main", <<"unwrap">>) => Faces(Main', Ways)
    BY <1>2, <1>3
<1>r. \A l : l \in Seq(Steps) /\ Return(l) => Faces(Main', Ways)
    BY ReturnFaces
<1>d. /\ DriverDrop \in Seq(Steps) /\ <<>> \in Seq(Steps)
      /\ Unplug \o <<"disconnect", "sweep">> \o DriverDrop \in Seq(Steps)
      /\ <<"letApp">> \in Seq(Steps)
    BY Called, Lists, Literals DEF Modest
<1>5. CASE Head(Main) \notin Ways
  <2>1. CASE Main' = Main
      BY <2>1 DEF Faces
  <2>2. \A next \in Seq(Steps) : Go("main", next) => Faces(Main', Ways)
      BY <1>1, <1>5, PutInFront
  <2> QED BY <1>r, <2>1, <2>2, MainRuns
<1>6. CASE Started \/ Install \/ Remove
    BY <1>4, <1>6, <1>r, <1>d DEF Started, Install, Remove
<1>7. CASE Quit \/ Unwrap
    BY <1>7, <1>r, <1>d DEF Quit, Unwrap
<1>8. CASE Toggle
  <2>1. Main' = Main
      BY <1>8 DEF Toggle, Main
  <2> QED BY <2>1 DEF Faces
<1>9. CASE Recreate
  <2> DEFINE l == <<"unplug", "unplugged", "recreated", "menu">>
  <2>1. "unplug" \in Steps /\ "unplugged" \in Steps /\ "recreated" \in Steps
        /\ "menu" \in Steps /\ "menu" \in Ways
      BY DEF Steps, Ways
  <2>2. l \in Seq(Steps) /\ Len(l) = 4 /\ l[4] = "menu"
      BY <2>1
  <2>3. Go("main", l)
      BY <1>9, Joined DEF Recreate
  <2> HIDE DEF l
  <2>4. 4 \in 1..Len(l)
      BY <2>2
  <2>5. Faces(l, Ways)
      BY <2>1, <2>2, <2>4 DEF Faces
  <2>6. Tail(Main) \in Seq(Steps) /\ Main' = l \o Tail(Main)
      BY <1>1, <2>3 DEF Go, TypeOK, Main, Threads
  <2>7. Faces(l \o Tail(Main), Ways)
      BY <2>2, <2>5, <2>6, Around
  <2> QED BY <2>6, <2>7 DEF Faces
<1>10. CASE AppDrop
  <2> DEFINE l == <<"cleanUp", "letApp">>
  <2>1. "cleanUp" \in Steps /\ "letApp" \in Steps /\ "cleanUp" \in Ways
      BY DEF Steps, Ways
  <2>2. l \in Seq(Steps) /\ Len(l) = 2 /\ l[1] = "cleanUp"
      BY <2>1
  <2>3. Go("main", l)
      BY <1>10 DEF AppDrop
  <2> HIDE DEF l
  <2>4. 1 \in 1..Len(l)
      BY <2>2
  <2>5. Faces(l, Ways)
      BY <2>1, <2>2, <2>4 DEF Faces
  <2>6. Tail(Main) \in Seq(Steps) /\ Main' = l \o Tail(Main)
      BY <1>1, <2>3 DEF Go, TypeOK, Main, Threads
  <2>7. Faces(l \o Tail(Main), Ways)
      BY <2>2, <2>5, <2>6, Around
  <2> QED BY <2>6, <2>7 DEF Faces
<1>11. ~CleanUp("main")
    BY DEF CleanUp
<1>12. Head(Main) \in Ways =>
          Started \/ Install \/ Remove \/ Quit \/ Unwrap \/ Toggle \/ Recreate \/ AppDrop
    BY <1>11 DEF Ways, Main, At, MainStep, Watch, Prepare, Leftovers, Wait, Open, Create, Check,
           Plug, Recheck, Record, Created, Replug, Close, Stop, Bind, Reopen, Unplugged,
           Rebuilt, Recreated, Disconnect, Unclaim, LetApp, Commands, CleanStep, Flag, Take,
           LetGo, UnplugLocks, UnplugKeyboard, UnplugMouse, Sweep, Unguard, Restore
<1> QED BY <1>5, <1>6, <1>7, <1>8, <1>9, <1>10, <1>12

\* The driver is still to be taken out of Shared by a main that has begun.
LEMMA TakeIsAhead ==
    ASSUME TypeOK, Cleaners, Due, Next, ~closing', cleaner' = "main", "shared" \in refs'
    PROVE  Faces(Main', {"flag", "take"})
<1>0. "main" \in Threads /\ "flag" \in Steps /\ "take" \in Steps
    BY DEF Threads, Steps
<1>1. CASE cleaner /= "main"
  <2>1. CleanUp("main") /\ Main /= <<>>
      BY <1>1, CleanerStays DEF CleanUp, At, Main
  <2>2. Go("main", <<"flag">>)
      BY <1>1, <2>1, OnlyMain DEF CleanUp, TypeOK, Threads
  <2> QED BY <1>0, <2>1, <2>2, PutInFront
<1>2. CASE cleaner = "main"
  <2>1. Main \in Seq(GoneSteps)
      BY <1>2 DEF Cleaners
  <2>2. CASE MainStep \/ Commands \/ CleanStep("main")
    <3>1. Main /= <<>>
        BY <2>2, MainRuns
    <3>2. Head(Main) \in GoneSteps
        BY <2>1, <3>1
    <3>3. Disconnect \/ Unclaim \/ AppDrop \/ LetApp \/ CleanStep("main")
        BY <2>2, <3>2 DEF GoneSteps, Main, At, MainStep, Watch, Prepare, Leftovers, Wait, Open,
               Create, Check, Plug, Recheck, Record, Created, Replug, Close, Stop, Bind, Reopen,
               Started, Install, Unplugged, Rebuilt, Recreated, Unwrap, Commands, Toggle,
               Recreate, Quit, Remove
    <3>4. CASE Take("main")
        BY <3>4 DEF Take
    <3>5. CASE Flag("main")
        BY <1>0, <3>1, <3>5, PutInFront DEF Flag
    <3>6. CASE ~Take("main") /\ ~Flag("main")
      <4>1. Head(Main) \notin {"flag", "take"}
          BY <3>3, <3>6 DEF Main, At, Disconnect, Unclaim, AppDrop, LetApp, CleanStep, CleanUp,
                 LetGo, UnplugLocks, UnplugKeyboard, UnplugMouse, Sweep, Unguard, Restore
      <4>2. "shared" \in refs
          BY <3>3, <3>6 DEF Disconnect, Unclaim, AppDrop, LetApp, LetsGo, CleanStep, CleanUp,
                 LetGo, UnplugLocks, UnplugKeyboard, UnplugMouse, Sweep, Unguard, Restore, owners
      <4>3. Faces(Main, {"flag", "take"})
          BY <1>2, <4>2, OnlyMain DEF Due
      <4>4. Main' = Main \/ \E next \in Seq(Steps) : Go("main", next)
        <5>1. CASE Sweep("main")
          <6>1. <<>> \in Seq(Steps)
              BY Lists
          <6> QED BY <5>1, <6>1 DEF Sweep
        <5>2. CASE ~Sweep("main")
            BY <1>0, <3>3, <5>2, OwnSteps
        <5> QED BY <5>1, <5>2
      <4> QED BY <3>1, <4>1, <4>3, <4>4, PutInFront DEF Faces
    <3> QED BY <3>4, <3>5, <3>6
  <2>3. CASE ~(MainStep \/ Commands \/ CleanStep("main"))
    <3>1. Main' = Main
        BY <2>3, OnlyMain
    <3>2. "shared" \in refs
      <4>1. Watchdog \/ Windows \/ ProcessEnds \/ \E d \in Devices : DeviceLeaves(d)
          BY <2>3, OnlyMain DEF Next, Threads
      <4> QED BY <4>1, AroundMain
    <3>3. Faces(Main, {"flag", "take"})
        BY <1>2, <3>2, OnlyMain DEF Due
    <3> QED BY <3>1, <3>3 DEF Faces
  <2> QED BY <2>2, <2>3
<1> QED BY <1>1, <1>2

LEMMA StepDue ==
    ASSUME TypeOK, Cleaners, Due, Next
    PROVE  Due'
<1> SUFFICES ASSUME ~closing'
             PROVE  /\ cleaner' = "nobody" => Faces(Main', Ways)
                    /\ cleaner' = "main" /\ "shared" \in refs' => Faces(Main', {"flag", "take"})
                    /\ ended' => Main' = <<>>
    BY DEF Due, Faces
<1>1. /\ ~closing
      /\ Main' = Main \/ MainStep \/ Commands \/ CleanStep("main")
    BY OnlyMain
<1>2. cleaner' = "nobody" => Faces(Main', Ways)
  <2> SUFFICES ASSUME cleaner' = "nobody" PROVE Faces(Main', Ways)
      OBVIOUS
  <2>1. Faces(Main, Ways)
      BY <1>1, FirstToClean DEF Due
  <2>2. CASE Main' = Main
      BY <2>1, <2>2 DEF Faces
  <2> QED BY <1>1, <2>1, <2>2, DropIsAhead
<1>3. ended' => Main' = <<>>
  <2>1. CASE ended
    <3>1. Main = <<>>
        BY <1>1, <2>1 DEF Due
    <3> QED BY <1>1, <3>1, MainRuns
  <2>2. CASE ~ended /\ ended'
    <3>1. ProcessEnds
        BY <2>2 DEF process, Next, MainStep, Watch, Prepare, Leftovers, Wait, Open, Create,
               Check, Plug, Recheck, Record, Created, Replug, Close, Stop, Bind, Reopen,
               Started, Install, Unplugged, Rebuilt, Recreated, Unwrap, Disconnect, Unclaim,
               AppDrop, LetApp, Commands, Toggle, Recreate, Quit, Remove, Watchdog,
               WatchdogLooks, WatchdogStops, Windows, LampReturns, WindowCloses,
               AnotherCopyPlugs, CleanStep, CleanUp, Flag, Take, LetGo, UnplugLocks,
               UnplugKeyboard, UnplugMouse, Sweep, Unguard, Restore, DeviceLeaves
    <3> QED BY <1>1, <3>1 DEF ProcessEnds, Main
  <2> QED BY <2>1, <2>2
<1> QED BY <1>2, <1>3, TakeIsAhead

LEMMA CoveredHolds == Spec => [](Tracked /\ Covered /\ Due)
<1>1. Init => Covered /\ Due
  <2> SUFFICES ASSUME Init PROVE Covered /\ Due
      OBVIOUS
  <2>1. Covered
      BY DEF Init, Covered, Left
  <2> DEFINE l == <<"watch", "started">>
  <2>2. Len(l) = 2 /\ l[2] = "started" /\ "started" \in Ways /\ Main = l
      BY DEF Ways, Init, Main, Threads
  <2> HIDE DEF l
  <2>3. 2 \in 1..Len(l)
      BY <2>2
  <2>4. Faces(Main, Ways)
      BY <2>2, <2>3 DEF Faces
  <2>5. cleaner = "nobody" /\ ~ended
      BY DEF Init
  <2> QED BY <2>1, <2>4, <2>5 DEF Due
<1>2. Tracked /\ Covered /\ Due /\ [Next]_vars => Covered' /\ Due'
  <2> SUFFICES ASSUME Tracked, Covered, Due, [Next]_vars PROVE Covered' /\ Due'
      OBVIOUS
  <2>1. CASE Next
      BY <2>1, StepCovered, StepDue DEF Tracked
  <2>2. CASE UNCHANGED vars
    <3>1. /\ Main' = Main /\ env' = env /\ kind' = kind /\ refs' = refs
          /\ cleaner' = cleaner /\ Left' = Left /\ steps' = steps
          /\ closing' = closing /\ ended' = ended
        BY <2>2 DEF vars, locals, owners, leave, onBus, process, Main, Left
    <3>2. Covered'
        BY <3>1 DEF Covered, Without, Plugging, Holding, Removing, Dropping, Cleaning,
               Parting, Sweeps, Faces
    <3>3. Due'
        BY <3>1 DEF Due, Faces
    <3> QED BY <3>2, <3>3
  <2> QED BY <2>1, <2>2
<1> QED BY <1>1, <1>2, TrackedHolds, PTL DEF Spec

\* Unless Windows refuses to take a device away, one that is left on the bus when the
\* process has ended is left by a window that was closed, and it is excused: nobody had
\* taken the driver out of the hands that held it, main had just plugged the device, or
\* the cleanup was still on its way.
THEOREM WorkIsFinished == Spec => []OnlyUnfinishedWorkIsLeft
<1>1. Tracked /\ Covered => (Without({"refuse"}) /\ Left /= {} =>
           \/ DriverMissed
           \/ steps["main"] /= <<>> /\ Head(steps["main"]) = "recheck" /\ Left = {kind}
           \/ cleaner \in Threads /\ steps[cleaner] /= <<>>)
  <2> SUFFICES ASSUME Tracked, Covered, Without({"refuse"}), Left /= {}
               PROVE  \/ DriverMissed
                      \/ steps["main"] /= <<>> /\ Head(steps["main"]) = "recheck"
                           /\ Left = {kind}
                      \/ cleaner \in Threads /\ steps[cleaner] /= <<>>
      OBVIOUS
  <2>1. CASE Plugging
      BY <2>1 DEF Plugging, Main
  <2>2. CASE Holding
      BY <2>2 DEF Holding, DriverMissed
  <2>3. CASE Removing
    <3>1. steps["main"] = <<"unwrap">>
        BY <2>3 DEF Removing, Main
    <3>2. 1 \in DOMAIN steps["main"] /\ steps["main"][1] = "unwrap"
        BY <3>1
    <3>3. "unwrap" \in StepsOf("main")
        BY <3>2 DEF StepsOf
    <3> QED BY <3>3 DEF DriverMissed
  <2>4. CASE Dropping
    <3>1. PICK i, j \in 1..Len(Main) : i < j /\ Main[i] = "sweep" /\ Main[j] = "unguard"
        BY <2>4 DEF Dropping, Parting
    <3>2. j \in DOMAIN steps["main"] /\ steps["main"][j] = "unguard"
        BY <2>4, <3>1 DEF Dropping, Main
    <3>3. "unguard" \in StepsOf("main")
        BY <3>2 DEF StepsOf
    <3> QED BY <3>3 DEF DriverMissed
  <2>5. CASE Cleaning
    <3>1. PICK t \in Threads : cleaner = t /\ Sweeps(steps[t])
        BY <2>5 DEF Cleaning
    <3>2. steps[t] /= <<>>
        BY <3>1 DEF Sweeps, Faces
    <3> QED BY <3>1, <3>2
  <2> QED BY <2>1, <2>2, <2>3, <2>4, <2>5 DEF Covered
<1>2. Tracked /\ Covered /\ Due => (Without({"refuse"}) /\ ended /\ Left /= {} => closing)
  <2> SUFFICES ASSUME Tracked, Covered, Due, Without({"refuse"}), ended, ~closing
               PROVE  Left = {}
      OBVIOUS
  <2>1. Main = <<>>
      BY DEF Due
  <2>2. \A H : ~Faces(<<>>, H)
      BY DEF Faces
  <2>3. cleaner = "main"
    <3>1. cleaner /= "nobody"
        BY <2>1, <2>2 DEF Due
    <3>2. cleaner /= "closer"
        BY DEF Tracked, Cleaners
    <3> QED BY <3>1, <3>2 DEF Tracked, TypeOK, Threads
  <2>4. ~Holding
      BY <2>1, <2>2, <2>3 DEF Due, Holding
  <2>5. ~Cleaning
      BY <2>1, <2>2, <2>3 DEF Cleaning, Sweeps, Main
  <2>6. ~Plugging /\ ~Removing
      BY <2>1 DEF Plugging, Removing
  <2>7. ~Dropping
    <3>1. ~Parting(<<>>)
        BY DEF Parting
    <3> QED BY <2>1, <3>1 DEF Dropping
  <2> QED BY <2>4, <2>5, <2>6, <2>7 DEF Covered
<1>3. Tracked /\ Covered /\ Due => OnlyUnfinishedWorkIsLeft
    BY <1>1, <1>2 DEF OnlyUnfinishedWorkIsLeft
<1> QED BY <1>3, CoveredHolds, PTL


-----------------------------------------------------------------------------
(***************************************************************************)
(* Who waits for whom.  Only the steps that follow the taking of the lock  *)
(* are done under it (Locked), and the watchdog is dropped once, by who    *)
(* drops the driver or could not connect it (Guarded).                     *)
(***************************************************************************)
Free  == Steps \ {"unplugKeyboard", "unplugMouse"}
Tame  == Steps \ {"unguard"}
Late  == Steps \ {"watch", "prepare", "leftovers", "open"}
Quiet == Free \cap Tame \cap Late

\* A set of lists that stays closed when a list goes on with what is made of Q.
Closed(Q, C) == /\ Seq(Q) \subseteq C
                /\ \A l \in C : l /= <<>> => \A next \in Seq(Q) : next \o Tail(l) \in C

\* What functions and steps put in front, but for the connection, the lock and
\* the drop of the driver.
LEMMA QuietCalls ==
    ASSUME NEW Q, Quiet \subseteq Q
    PROVE
    /\ Unplug \in Seq(Q) /\ Park \o <<"letGo">> \in Seq(Q) /\ AfterRun \in Seq(Q)
    /\ Unplug \o <<"close", "replug">> \in Seq(Q)
    /\ Unplug \o <<"unplugged", "recreated", "menu">> \in Seq(Q)
    /\ "unguard" \in Q => /\ DriverDrop \in Seq(Q)
                          /\ Unplug \o <<"disconnect", "sweep">> \o DriverDrop \in Seq(Q)
<1>1. {"unplug", "sweep", "letGo", "restore", "unclaim", "appDrop", "close", "replug",
       "unplugged", "recreated", "menu", "disconnect"} \subseteq Q
    BY DEF Steps, Quiet, Free, Tame, Late
<1>2. Unplug \in Seq(Q) /\ Park \in Seq(Q) /\ AfterRun \in Seq(Q)
    BY <1>1, Lists DEF Unplug, Park, AfterRun
<1>3. /\ <<"close", "replug">> \in Seq(Q) /\ <<"unplugged", "recreated", "menu">> \in Seq(Q)
      /\ <<"disconnect", "sweep">> \in Seq(Q) /\ <<"letGo">> \in Seq(Q)
    BY <1>1, Lists
<1>4. Unplug \o <<"disconnect", "sweep">> \in Seq(Q)
    BY <1>2, <1>3, Appended
<1>5. "unguard" \in Q => DriverDrop \in Seq(Q)
    BY <1>1, Lists DEF DriverDrop
<1>6. "unguard" \in Q => Unplug \o <<"disconnect", "sweep">> \o DriverDrop \in Seq(Q)
    BY <1>4, <1>5, Appended
<1> QED BY <1>2, <1>3, <1>5, <1>6, Appended

LEMMA QuietLists ==
    ASSUME NEW Q, Quiet \subseteq Q
    PROVE
    {<<>>, <<"create">>, <<"check", "created">>, <<"plug">>, <<"recheck">>, <<"record">>,
     <<"check">>, <<"wait", "check">>, <<"sweep", "stop">>, <<"bind">>, <<"wait", "reopen">>,
     <<"install">>, <<"menu">>, <<"sweep", "close", "rebuilt">>, <<"unwrap">>,
     <<"cleanUp", "letApp">>, <<"cleanUp">>, <<"letApp">>, <<"flag">>, <<"take">>}
        \subseteq Seq(Q)
<1>1. {"create", "check", "created", "plug", "recheck", "record", "wait", "sweep", "stop",
       "bind", "reopen", "install", "menu", "close", "rebuilt", "unwrap", "cleanUp", "letApp",
       "flag", "take"} \subseteq Q
    BY DEF Steps, Quiet, Free, Tame, Late
<1>2. {<<>>, <<"create">>, <<"check", "created">>, <<"plug">>, <<"recheck">>, <<"record">>,
       <<"check">>, <<"wait", "check">>} \subseteq Seq(Q)
    BY <1>1, Lists
<1>3. {<<"sweep", "stop">>, <<"bind">>, <<"wait", "reopen">>, <<"install">>, <<"menu">>,
       <<"sweep", "close", "rebuilt">>, <<"unwrap">>} \subseteq Seq(Q)
    BY <1>1, Lists
<1>4. {<<"cleanUp", "letApp">>, <<"cleanUp">>, <<"letApp">>, <<"flag">>, <<"take">>}
        \subseteq Seq(Q)
    BY <1>1, Lists
<1> QED BY <1>2, <1>3, <1>4

\* A thread that goes on has a list of the same kind, and so has main when run returns.
LEMMA ClosedGoes ==
    ASSUME TypeOK, NEW Q, NEW C, Closed(Q, C), NEW t \in Threads, steps[t] \in C,
           steps[t] /= <<>>, NEW next \in Seq(Q), Go(t, next)
    PROVE  steps'[t] \in C
<1>1. steps'[t] = next \o Tail(steps[t])
    BY DEF Go, TypeOK
<1> QED BY <1>1 DEF Closed

LEMMA ClosedReturns ==
    ASSUME TypeOK, NEW Q, Quiet \subseteq Q, NEW C, Closed(Q, C), NEW dropping \in Seq(Q),
           Return(dropping)
    PROVE  steps'["main"] \in C
<1>1. dropping \o AfterRun \in Seq(Q)
    BY QuietCalls, Appended
<1>2. steps'["main"] = dropping \o AfterRun
    BY DEF Return, TypeOK, Threads
<1> QED BY <1>1, <1>2 DEF Closed

\* The driver goes with this step: nobody holds it any more.
Connecting == Watch \/ Prepare \/ Leftovers \/ Open
Parted     == refs' = {} /\ (refs /= {} \/ Started)

LEMMA MainUsual ==
    ASSUME TypeOK, NEW Q, Quiet \subseteq Q, NEW C, Closed(Q, C), steps["main"] \in C,
           MainStep \/ Commands,
           Connecting => {"prepare", "leftovers", "open", "unguard"} \subseteq Q,
           Parted => "unguard" \in Q
    PROVE  steps'["main"] \in C
<1>m. "main" \in Threads
    BY DEF Threads
<1> DEFINE Puts(next) == next \in Seq(Q) /\ (Go("main", next) \/ Return(next))
<1>0. \A next : Puts(next) /\ steps["main"] /= <<>> => steps'["main"] \in C
    BY <1>m, ClosedGoes, ClosedReturns
<1>q. \A next \in Seq(Q) : Go("main", next) \/ Return(next) => Puts(next)
    OBVIOUS
<1> HIDE DEF Puts
<1>1. CASE Connecting
  <2>1. "prepare" \in Q /\ "leftovers" \in Q /\ "open" \in Q /\ "unguard" \in Q
      BY <1>1
  <2>2. "wait" \in Q /\ "restore" \in Q
      BY DEF Quiet, Steps, Free, Tame, Late
  <2>3. {<<"prepare">>, <<"leftovers">>, <<"open">>, <<"wait", "open">>,
         <<"unguard", "restore">>} \subseteq Seq(Q)
      BY <2>1, <2>2, Lists
  <2>4. steps["main"] /= <<>>
      BY <1>1 DEF Connecting, Watch, Prepare, Leftovers, Open, At
  <2>5. \E next : Puts(next)
      BY <1>1, <1>q, <2>3, QuietLists DEF Connecting, Watch, Prepare, Leftovers, Open
  <2> QED BY <1>0, <2>4, <2>5
<1>2. CASE Wait \/ Create \/ Check \/ Recheck
    BY <1>2, <1>m, QuietLists, QuietCalls, ClosedGoes
       DEF Wait, Create, Check, Recheck, PlugFails, At
<1>3. CASE Plug
    BY <1>3, <1>m, QuietLists, QuietCalls, ClosedGoes DEF Plug, PlugFails, At
<1>4. CASE Record \/ Created \/ Replug
    BY <1>4, <1>m, QuietLists, QuietCalls, ClosedGoes DEF Record, Created, Replug, At
<1>5. CASE Close \/ Stop \/ Bind \/ Reopen
    BY <1>5, <1>m, QuietLists, QuietCalls, ClosedGoes DEF Close, Stop, Bind, Reopen,
           RebuildFails, At
<1>6. CASE Started \/ Install
    BY <1>6, <1>m, QuietLists, QuietCalls, ClosedGoes, ClosedReturns
       DEF Started, Install, At, Parted
<1>7. CASE Unplugged \/ Rebuilt \/ Recreated
    BY <1>7, <1>m, QuietLists, QuietCalls, ClosedGoes DEF Unplugged, Rebuilt, Recreated, At
<1>8. CASE Unwrap
  <2>1. refs = {"app"} => Parted
      BY <1>8 DEF Unwrap, Parted
  <2> QED BY <1>8, <2>1, QuietLists, QuietCalls, ClosedReturns DEF Unwrap
<1>9. CASE Quit
  <2>1. refs = {"app"} => Parted
      BY <1>9 DEF Quit, Parted
  <2> QED BY <1>9, <2>1, QuietLists, QuietCalls, ClosedReturns DEF Quit
<1>10. CASE Disconnect \/ Unclaim \/ AppDrop
    BY <1>10, <1>m, QuietLists, QuietCalls, ClosedGoes DEF Disconnect, Unclaim, AppDrop, At
<1>11. CASE LetApp
  <2>1. refs = {"app"} => Parted
      BY <1>11 DEF LetApp, LetsGo, Parted
  <2> QED BY <1>11, <1>m, <2>1, QuietLists, QuietCalls, ClosedGoes DEF LetApp, LetsGo, At
<1>12. CASE Recreate \/ Remove \/ Toggle
    BY <1>12, <1>m, QuietLists, QuietCalls, ClosedGoes DEF Recreate, Remove, Toggle, At
<1> QED
    BY <1>1, <1>2, <1>3, <1>4, <1>5, <1>6, <1>7, <1>8, <1>9, <1>10, <1>11, <1>12
       DEF MainStep, Commands, Connecting

LEMMA CleanUsual ==
    ASSUME TypeOK, NEW Q, Quiet \subseteq Q, NEW C, Closed(Q, C), NEW t \in Threads,
           steps[t] \in C, CleanStep(t),
           UnplugLocks(t) => {"unplugKeyboard", "unplugMouse"} \subseteq Q,
           Parted => "unguard" \in Q
    PROVE  steps'[t] \in C
<1>1. CASE CleanUp(t) \/ Flag(t) \/ Take(t)
    BY <1>1, QuietLists, QuietCalls, ClosedGoes DEF CleanUp, Flag, Take, At
<1>2. CASE LetGo(t)
  <2>1. refs = {t} => Parted
      BY <1>2 DEF LetGo, LetsGo, Parted
  <2> QED BY <1>2, <2>1, QuietLists, QuietCalls, ClosedGoes DEF LetGo, LetsGo, At
<1>3. CASE UnplugLocks(t)
  <2>1. "unplugKeyboard" \in Q /\ "unplugMouse" \in Q
      BY <1>3
  <2>2. <<"unplugKeyboard", "unplugMouse">> \in Seq(Q)
      BY <2>1, Lists
  <2> QED BY <1>3, <2>2, ClosedGoes DEF UnplugLocks, At
<1>4. CASE UnplugKeyboard(t) \/ UnplugMouse(t)
    BY <1>4, QuietLists, ClosedGoes DEF UnplugKeyboard, UnplugMouse, At
<1>5. CASE Sweep(t) \/ Unguard(t) \/ Restore(t)
    BY <1>5, QuietLists, ClosedGoes DEF Sweep, Unguard, Restore, At
<1> QED BY <1>1, <1>2, <1>3, <1>4, <1>5 DEF CleanStep

\* Whatever the step, the list of a thread stays of its kind, unless what is put in
\* front is of another.
LEMMA Usual ==
    ASSUME TypeOK, Next, NEW Q, Quiet \subseteq Q, NEW C, Closed(Q, C), NEW t \in Threads,
           steps[t] \in C,
           t = "main" /\ Connecting => {"prepare", "leftovers", "open", "unguard"} \subseteq Q,
           UnplugLocks(t) => {"unplugKeyboard", "unplugMouse"} \subseteq Q,
           Parted => "unguard" \in Q
    PROVE  steps'[t] \in C
<1>1. CASE steps'[t] = steps[t]
    BY <1>1
<1>2. CASE t = "main" /\ (MainStep \/ Commands)
    BY <1>2, MainUsual
<1>3. CASE CleanStep(t)
    BY <1>3, CleanUsual
<1>4. CASE t = "closer" /\ WindowCloses
  <2>1. <<"cleanUp">> \in Seq(Q)
      BY QuietLists
  <2>2. steps'["closer"] = <<"cleanUp">>
      BY <1>4 DEF WindowCloses, TypeOK, Threads
  <2> QED BY <1>4, <2>1, <2>2 DEF Closed
<1> QED BY <1>1, <1>2, <1>3, <1>4, Moves

\* Lists of some steps are such a set.
LEMMA ClosedSeq ==
    ASSUME NEW Q
    PROVE  Closed(Q, Seq(Q))
    BY Appended DEF Closed

-----------------------------------------------------------------------------
\* Who holds the lock has taken it and not yet come to unplug_virtual_devices' end.
Unplugging == Then({"unplugKeyboard"}, Half(Seq(Free))) \cup Half(Seq(Free))

Locked == \A t \in Threads : IF lock = t THEN steps[t] \in Unplugging
                                         ELSE steps[t] \in Seq(Free)

LEMMA LockMoves ==
    ASSUME TypeOK, Next
    PROVE  lock' = lock \/ \E t \in Threads : UnplugLocks(t) \/ UnplugMouse(t)
    BY DEF Next, MainStep, Watch, Prepare, Leftovers, Wait, Open, Create, Check, Plug, Recheck,
           Record, Created, Replug, Close, Stop, Bind, Reopen, Started, Install, Unplugged,
           Rebuilt, Recreated, Unwrap, Disconnect, Unclaim, AppDrop, LetApp, Commands, Toggle,
           Recreate, Quit, Remove, Watchdog, WatchdogLooks, WatchdogStops, Windows,
           LampReturns, WindowCloses, AnotherCopyPlugs, ProcessEnds, CleanStep, CleanUp, Flag,
           Take, LetGo, UnplugKeyboard, Sweep, Unguard, Restore, DeviceLeaves, driver

\* A thread in the middle of its unplug does nothing else.
LEMMA Absorbed ==
    ASSUME TypeOK, Cleaners, Next, NEW t \in Threads, steps[t] /= <<>>,
           Head(steps[t]) \in {"unplugKeyboard", "unplugMouse"}
    PROVE  steps'[t] = steps[t] \/ UnplugKeyboard(t) \/ UnplugMouse(t)
<1>1. CASE t = "main" /\ (MainStep \/ Commands)
    BY <1>1 DEF MainStep, Watch, Prepare, Leftovers, Wait, Open, Create, Check, Plug, Recheck,
           Record, Created, Replug, Close, Stop, Bind, Reopen, Started, Install, Unplugged,
           Rebuilt, Recreated, Unwrap, Disconnect, Unclaim, AppDrop, LetApp, Commands, Toggle,
           Recreate, Quit, Remove, At
<1>2. CASE CleanStep(t)
    BY <1>2 DEF CleanStep, CleanUp, Flag, Take, LetGo, UnplugLocks, Sweep, Unguard, Restore, At
<1>3. CASE t = "closer" /\ WindowCloses
    BY <1>3 DEF WindowCloses, Cleaners
<1> QED BY <1>1, <1>2, <1>3, Moves

\* A thread does not move when another does.
LEMMA Alone ==
    ASSUME TypeOK, NEW t \in Threads, NEW u \in Threads \ {t}, CleanStep(t)
    PROVE  steps'[u] = steps[u]
    BY DEF TypeOK, Go, CleanStep, CleanUp, Flag, Take, LetGo, LetsGo, UnplugLocks,
           UnplugKeyboard, UnplugMouse, Sweep, Unguard, Restore

LEMMA StepLocked ==
    ASSUME TypeOK, Cleaners, Locked, Next
    PROVE  Locked'
<1>0. \A t \in Threads : steps[t] \in Seq(Steps) /\ t /= "free"
    BY DEF TypeOK, Threads
<1>h. \A t \in Threads : lock = t <=>
         steps[t] /= <<>> /\ Head(steps[t]) \in {"unplugKeyboard", "unplugMouse"}
  <2>1. ASSUME NEW t \in Threads, lock = t
        PROVE  steps[t] /= <<>> /\ Head(steps[t]) \in {"unplugKeyboard", "unplugMouse"}
      BY <2>1 DEF Locked, Unplugging, Half, Then
  <2>2. ASSUME NEW t \in Threads, lock /= t, steps[t] /= <<>>
        PROVE  Head(steps[t]) \notin {"unplugKeyboard", "unplugMouse"}
    <3>1. Head(steps[t]) \in Free
        BY <2>2 DEF Locked
    <3> QED BY <3>1 DEF Free
  <2> QED BY <2>1, <2>2
<1>1. ASSUME NEW t \in Threads, UnplugLocks(t) PROVE Locked'
  <2>1. lock = "free" /\ lock' = t /\ CleanStep(t)
      BY <1>1 DEF UnplugLocks, CleanStep
  <2>2. \A u \in Threads \ {t} : steps'[u] \in Seq(Free) /\ lock' /= u
      BY <1>0, <2>1, Alone DEF Locked
  <2>3. steps[t] \in Seq(Free) /\ steps[t] /= <<>>
      BY <1>0, <1>1, <2>1 DEF Locked, UnplugLocks, At
  <2> DEFINE L == Tail(steps[t])
             K == Half(Seq(Free))
  <2>4. L \in Seq(Free) /\ L \in Seq(Steps)
      BY <1>0, <2>3
  <2>5. steps'[t] = <<"unplugKeyboard", "unplugMouse">> \o L
      BY <1>1 DEF UnplugLocks, Go, TypeOK
  <2> HIDE DEF L
  <2>6. "unplugKeyboard" \in Steps /\ "unplugMouse" \in Steps
      BY DEF Steps
  <2>7. steps'[t] \in Then({"unplugKeyboard"}, Then({"unplugMouse"}, Seq(Free)))
      BY <2>4, <2>5, <2>6, Fronted
  <2>8. steps'[t] \in Unplugging
      BY <2>7 DEF Unplugging, Half
  <2> QED BY <2>1, <2>2, <2>8 DEF Locked
<1>2. ASSUME NEW t \in Threads, UnplugMouse(t) PROVE Locked'
  <2>1. lock = t /\ lock' = "free" /\ CleanStep(t)
      BY <1>h, <1>2 DEF UnplugMouse, CleanStep, At
  <2>2. \A u \in Threads \ {t} : steps'[u] \in Seq(Free)
      BY <2>1, Alone DEF Locked
  <2>3. Head(steps[t]) = "unplugMouse" /\ steps[t] /= <<>> /\ steps[t] \in Unplugging
      BY <1>2, <2>1 DEF UnplugMouse, At, Locked
  <2>4. Tail(steps[t]) \in Seq(Free)
      BY <2>3 DEF Unplugging, Half, Then
  <2>5. steps'[t] = <<>> \o Tail(steps[t])
      BY <1>2 DEF UnplugMouse, Go, TypeOK
  <2>6. steps'[t] \in Seq(Free)
      BY <2>4, <2>5, Longer
  <2> QED BY <1>0, <2>1, <2>2, <2>6 DEF Locked
<1>3. ASSUME lock' = lock, \A t \in Threads : ~UnplugLocks(t) PROVE Locked'
  <2>1. ASSUME NEW t \in Threads, lock /= t PROVE steps'[t] \in Seq(Free)
    <3>1. steps[t] \in Seq(Free)
        BY <2>1 DEF Locked
    <3>2. {"prepare", "leftovers", "open", "unguard"} \subseteq Free
        BY DEF Free, Steps
    <3>3. Quiet \subseteq Free
        BY DEF Quiet
    <3> QED BY <1>3, <3>1, <3>2, <3>3, ClosedSeq, Usual
  <2>2. ASSUME NEW t \in Threads, lock = t PROVE steps'[t] \in Unplugging
    <3>1. steps[t] \in Unplugging
        BY <2>2 DEF Locked
    <3>2. steps'[t] = steps[t] \/ UnplugKeyboard(t) \/ UnplugMouse(t)
        BY <1>h, <2>2, Absorbed
    <3>3. ~UnplugMouse(t)
        BY <1>0, <1>3, <2>2 DEF UnplugMouse
    <3>4. CASE UnplugKeyboard(t)
      <4>1. Head(steps[t]) = "unplugKeyboard" /\ Tail(steps[t]) \in Half(Seq(Free))
          BY <3>1, <3>4 DEF UnplugKeyboard, At, Unplugging, Half, Then
      <4>2. Tail(steps[t]) \in Seq(Steps)
          BY <4>1 DEF Half, Then
      <4>3. steps'[t] = <<>> \o Tail(steps[t])
          BY <3>4 DEF UnplugKeyboard, Go, TypeOK
      <4>4. steps'[t] = Tail(steps[t])
          BY <4>2, <4>3, Longer
      <4> QED BY <4>1, <4>4 DEF Unplugging
    <3> QED BY <3>1, <3>2, <3>3, <3>4
  <2> QED BY <1>3, <2>1, <2>2 DEF Locked
<1> QED BY <1>1, <1>2, <1>3, LockMoves

-----------------------------------------------------------------------------
\* The watchdog is dropped at one place of one list at most.
Once(l) == \A i, j \in 1..Len(l) : l[i] = "unguard" /\ l[j] = "unguard" => i = j
Onces   == {l \in Seq(Steps) : Once(l)}

LEMMA TameOnce ==
    ASSUME NEW l \in Seq(Tame)
    PROVE  l \in Onces
<1>1. Tame \subseteq Steps
    BY DEF Tame
<1>2. l \in Seq(Steps)
    BY <1>1
<1>3. \A i \in 1..Len(l) : l[i] \in Tame
    OBVIOUS
<1>4. Once(l)
    BY <1>3 DEF Once, Tame
<1> QED BY <1>2, <1>4 DEF Onces

\* The drop of the driver has one, and so has what comes to be around it.
LEMMA OnceAround ==
    ASSUME NEW a \in Onces, NEW b \in Onces, a \in Seq(Tame) \/ b \in Seq(Tame)
    PROVE  a \o b \in Onces
<1> DEFINE l == a \o b
<1>1. a \in Seq(Steps) /\ b \in Seq(Steps) /\ Once(a) /\ Once(b)
    BY DEF Onces
<1>2. l \in Seq(Steps) /\ Len(l) = Len(a) + Len(b) /\ Len(a) \in Nat /\ Len(b) \in Nat
    BY <1>1, ConcatProperties
<1>3. ASSUME NEW i \in 1..Len(l)
      PROVE  \/ i \in 1..Len(a) /\ l[i] = a[i]
             \/ ~(i <= Len(a)) /\ i - Len(a) \in 1..Len(b) /\ l[i] = b[i - Len(a)]
  <2>1. i \in 1..(Len(a) + Len(b))
      BY <1>2
  <2>2. l[i] = IF i <= Len(a) THEN a[i] ELSE b[i - Len(a)]
      BY <1>1, <2>1, ConcatProperties
  <2> QED BY <1>2, <2>1, <2>2
<1> HIDE DEF l
<1>4. ASSUME a \in Seq(Tame) PROVE Once(l)
  <2>1. \A i \in 1..Len(a) : a[i] /= "unguard"
    <3>1. \A i \in 1..Len(a) : a[i] \in Tame
        BY <1>4
    <3> QED BY <3>1 DEF Tame
  <2>2. ASSUME NEW i \in 1..Len(l), NEW j \in 1..Len(l), l[i] = "unguard", l[j] = "unguard"
        PROVE  i = j
    <3>1. /\ i - Len(a) \in 1..Len(b) /\ b[i - Len(a)] = "unguard"
          /\ j - Len(a) \in 1..Len(b) /\ b[j - Len(a)] = "unguard"
        BY <1>3, <2>1, <2>2
    <3>2. i - Len(a) = j - Len(a)
        BY <1>1, <3>1 DEF Once
    <3> QED BY <1>2, <3>2
  <2> QED BY <2>2 DEF Once
<1>5. ASSUME b \in Seq(Tame) PROVE Once(l)
  <2>1. \A i \in 1..Len(b) : b[i] /= "unguard"
    <3>1. \A i \in 1..Len(b) : b[i] \in Tame
        BY <1>5
    <3> QED BY <3>1 DEF Tame
  <2>2. ASSUME NEW i \in 1..Len(l), NEW j \in 1..Len(l), l[i] = "unguard", l[j] = "unguard"
        PROVE  i = j
    <3>1. /\ i \in 1..Len(a) /\ a[i] = "unguard"
          /\ j \in 1..Len(a) /\ a[j] = "unguard"
        BY <1>3, <2>1, <2>2
    <3> QED BY <1>1, <3>1 DEF Once
  <2> QED BY <2>2 DEF Once
<1> QED BY <1>2, <1>4, <1>5 DEF Onces, l

\* What is left of a list has one at most, and none once the watchdog is dropped.
LEMMA OnceTail ==
    ASSUME NEW l \in Onces, l /= <<>>
    PROVE  Tail(l) \in Onces /\ (Head(l) = "unguard" => Tail(l) \in Seq(Tame))
<1>1. l \in Seq(Steps) /\ Once(l) /\ Len(l) \in Nat /\ Len(l) >= 1 /\ Head(l) = l[1]
    BY DEF Onces
<1> DEFINE r == Tail(l)
<1>2. r \in Seq(Steps) /\ Len(r) = Len(l) - 1
    BY <1>1
<1>3. \A i \in 1..Len(r) : i + 1 \in 1..Len(l) /\ r[i] = l[i + 1]
    BY <1>1, <1>2
<1> HIDE DEF r
<1>4. Once(r)
  <2> SUFFICES ASSUME NEW i \in 1..Len(r), NEW j \in 1..Len(r), r[i] = "unguard",
                      r[j] = "unguard"
               PROVE  i = j
      BY DEF Once
  <2>1. i + 1 \in 1..Len(l) /\ l[i + 1] = "unguard" /\ j + 1 \in 1..Len(l) /\ l[j + 1] = "unguard"
      BY <1>3
  <2>2. i + 1 = j + 1
      BY <1>1, <2>1 DEF Once
  <2> QED BY <2>2
<1>5. Head(l) = "unguard" => r \in Seq(Tame)
  <2> SUFFICES ASSUME Head(l) = "unguard" PROVE r \in Seq(Tame)
      OBVIOUS
  <2>1. ASSUME NEW i \in 1..Len(r) PROVE r[i] \in Tame
    <3>1. i + 1 \in 1..Len(l) /\ r[i] = l[i + 1] /\ i + 1 /= 1 /\ 1 \in 1..Len(l)
        BY <1>1, <1>3
    <3>2. r[i] /= "unguard"
        BY <1>1, <3>1 DEF Once
    <3>3. r[i] \in Steps
        BY <1>2
    <3> QED BY <3>2, <3>3 DEF Tame
  <2>2. \A i \in 1..Len(r) : r[i] \in Tame
      BY <2>1
  <2> QED BY <1>2, <2>2
<1> QED BY <1>2, <1>4, <1>5 DEF Onces, r

LEMMA OnceClosed == Closed(Tame, Onces)
<1>1. Seq(Tame) \subseteq Onces
    BY TameOnce
<1>2. ASSUME NEW l \in Onces, l /= <<>>, NEW next \in Seq(Tame) PROVE next \o Tail(l) \in Onces
    BY <1>1, <1>2, OnceTail, OnceAround
<1> QED BY <1>1, <1>2 DEF Closed

\* The lists with the drop of the watchdog.
LEMMA DropsOnce ==
    /\ AfterRun \in Seq(Tame)
    /\ DriverDrop \in Onces
    /\ Unplug \o <<"disconnect", "sweep">> \o DriverDrop \in Onces
    /\ <<"unguard", "restore">> \in Onces
<1>0. {"unplug", "sweep", "restore", "disconnect", "unclaim", "appDrop"} \subseteq Tame
    BY DEF Steps, Tame
<1>1. <<"unplug", "sweep">> \in Seq(Tame) /\ <<"restore">> \in Seq(Tame)
      /\ Unplug \in Seq(Tame) /\ <<"disconnect", "sweep">> \in Seq(Tame) /\ AfterRun \in Seq(Tame)
    BY <1>0, Lists DEF Unplug, AfterRun
<1>2. DriverDrop \in Onces
  <2>1. /\ DriverDrop \in Seq(Steps) /\ Len(DriverDrop) = 4
        /\ DriverDrop[1] = "unplug" /\ DriverDrop[2] = "sweep" /\ DriverDrop[4] = "restore"
      BY DEF DriverDrop, Steps
  <2>2. \A i \in 1..4 : i = 1 \/ i = 2 \/ i = 3 \/ i = 4
      OBVIOUS
  <2>3. \A i \in 1..Len(DriverDrop) : DriverDrop[i] = "unguard" => i = 3
      BY <2>1, <2>2
  <2>4. Once(DriverDrop)
      BY <2>3 DEF Once
  <2> QED BY <2>1, <2>4 DEF Onces
<1>3. <<"unguard", "restore">> \in Onces
  <2> DEFINE l == <<"unguard", "restore">>
  <2>1. l \in Seq(Steps) /\ Len(l) = 2 /\ l[2] = "restore"
      BY DEF Steps
  <2>2. \A i \in 1..2 : i = 1 \/ i = 2
      OBVIOUS
  <2> HIDE DEF l
  <2>3. \A i \in 1..Len(l) : l[i] = "unguard" => i = 1
      BY <2>1, <2>2
  <2>4. Once(l)
      BY <2>3 DEF Once
  <2> QED BY <2>1, <2>4 DEF Onces, l
<1>4. Unplug \o <<"disconnect", "sweep">> \in Seq(Tame)
    BY <1>1, Appended
<1>5. (Unplug \o <<"disconnect", "sweep">>) \o DriverDrop \in Onces
    BY <1>2, <1>4, TameOnce, OnceAround
<1> QED BY <1>1, <1>2, <1>3, <1>5

-----------------------------------------------------------------------------
\* Who holds the driver has not dropped the watchdog, nor is about to; after that
\* one thread at most has it to drop, and it is there.  Until the connection is open
\* nobody holds the driver, but from the first step on the watchdog is there.
Setup == /\ Main \in Early /\ refs = {} /\ steps["closer"] \in Seq(Tame)
         /\ Head(Main) /= "watch" => watchdog /= "none"

Guarded ==
    /\ refs /= {} => watchdog /= "none" /\ \A t \in Threads : steps[t] \in Seq(Tame)
    /\ \A t \in Threads :
          \/ steps[t] \in Seq(Tame)
          \/ /\ watchdog /= "none" /\ steps[t] \in Onces
             /\ \A u \in Threads \ {t} : steps[u] \in Seq(Tame)
    /\ Main \in Seq(Late) \/ Setup

LEMMA ThenIn ==
    ASSUME NEW S, NEW H \in SUBSET S, NEW K \in SUBSET Seq(S)
    PROVE  Then(H, K) \subseteq Seq(S)
<1> SUFFICES ASSUME NEW l \in Then(H, K) PROVE l \in Seq(S)
    OBVIOUS
<1>1. l \in Seq(Steps) /\ l /= <<>> /\ Head(l) \in S /\ Tail(l) \in Seq(S)
    BY DEF Then
<1>2. /\ Len(l) \in Nat /\ l[1] \in S
      /\ \A i \in 1..(Len(l) - 1) : Tail(l)[i] = l[i + 1] /\ Tail(l)[i] \in S
    BY <1>1
<1>3. ASSUME NEW i \in 1..Len(l) PROVE l[i] \in S
  <2>1. CASE i = 1
      BY <1>2, <2>1
  <2>2. CASE i /= 1
    <3>1. i - 1 \in 1..(Len(l) - 1) /\ (i - 1) + 1 = i
        BY <1>2, <2>2
    <3> QED BY <1>2, <3>1
  <2> QED BY <2>1, <2>2
<1>4. \A i \in 1..Len(l) : l[i] \in S
    BY <1>3
<1> QED BY <1>1, <1>4

LEMMA EarlyTame == Early \subseteq Seq(Tame)
<1>1. {"watch", "prepare", "leftovers", "open", "wait", "started"} \subseteq Tame
    BY DEF Steps, Tame
<1>2. Starting \subseteq Seq(Tame)
    BY <1>1, Lists DEF Starting
<1>3. Then({"open"}, Starting) \subseteq Seq(Tame)
    BY <1>1, <1>2, ThenIn
<1>4. Then({"wait"}, Then({"open"}, Starting)) \subseteq Seq(Tame)
    BY <1>1, <1>3, ThenIn
<1>5. Then({"watch", "prepare", "leftovers", "open"}, Starting) \subseteq Seq(Tame)
    BY <1>1, <1>2, ThenIn
<1> QED BY <1>4, <1>5 DEF Early

\* The watchdog goes only when it is dropped.
LEMMA WatchdogStays ==
    ASSUME TypeOK, Next, watchdog /= "none"
    PROVE  watchdog' /= "none" \/ \E t \in Threads : Unguard(t)
    BY DEF Next, MainStep, Watch, Prepare, Leftovers, Wait, Open, Create, Check, Plug, Recheck,
           Record, Created, Replug, Close, Stop, Bind, Reopen, Started, Install, Unplugged,
           Rebuilt, Recreated, Unwrap, Disconnect, Unclaim, AppDrop, LetApp, Commands, Toggle,
           Recreate, Quit, Remove, Watchdog, WatchdogLooks, WatchdogStops, Windows,
           LampReturns, WindowCloses, AnotherCopyPlugs, ProcessEnds, CleanStep, CleanUp, Flag,
           Take, LetGo, UnplugLocks, UnplugKeyboard, UnplugMouse, Sweep, Restore, DeviceLeaves,
           lamps

LEMMA NotTame ==
    ASSUME NEW t \in Threads, Unguard(t)
    PROVE  /\ steps[t] \notin Seq(Tame) /\ steps[t] /= <<>> /\ Head(steps[t]) = "unguard"
           /\ UNCHANGED refs
<1>1. steps[t] /= <<>> /\ Head(steps[t]) = "unguard"
    BY DEF Unguard, At
<1>2. steps[t] \in Seq(Tame) => Head(steps[t]) \in Tame
    BY <1>1
<1> QED BY <1>1, <1>2 DEF Unguard, owners, Tame

\* Without a driver nobody lets go of it, and only the connection brings one.
LEMMA NoDriver ==
    ASSUME TypeOK, Track, Next, refs = {}
    PROVE  ~Started /\ ~Parted /\ (refs' = {} \/ Open)
<1>1. ~Started /\ ~Install
  <2>1. ASSUME Started \/ Install PROVE refs /= {}
    <3>1. Main /= <<>> /\ Head(Main) \in {"started", "install"}
        BY <2>1 DEF Started, Install, At, Main
    <3>2. refs = {"main"} \/ \E T \in Callers : Owns(T)
        BY <3>1, Located
    <3>3. \A T : Owns(T) => refs /= {}
        BY DEF Owns
    <3> QED BY <3>2, <3>3
  <2> QED BY <2>1
<1>2. refs' = {} \/ Open
    BY <1>1 DEF Next, MainStep, Watch, Prepare, Leftovers, Wait, Create, Check, Plug, Recheck,
           Record, Created, Replug, Close, Stop, Bind, Reopen, Unplugged,
           Rebuilt, Recreated, Unwrap, Disconnect, Unclaim, AppDrop, LetApp, Commands, Toggle,
           Recreate, Quit, Remove, Watchdog, WatchdogLooks, WatchdogStops, Windows,
           LampReturns, WindowCloses, AnotherCopyPlugs, ProcessEnds, CleanStep, CleanUp, Flag,
           Take, LetGo, LetsGo, UnplugLocks, UnplugKeyboard, UnplugMouse, Sweep, Unguard,
           Restore, DeviceLeaves, owners
<1> QED BY <1>1, <1>2 DEF Parted

\* Driver::connect sets the watchdog up and drops it if it fails.
LEMMA SetupGuards ==
    ASSUME TypeOK, Track, Setup, Next
    PROVE  Guarded'
<1>1. ~Started /\ ~Parted /\ (refs' = {} \/ Open)
    BY NoDriver DEF Setup
<1>2. Main \in Seq(Tame) /\ steps["closer"] \in Seq(Tame) /\ Main /= <<>>
    BY EarlyTame, Heads DEF Setup, Callers
<1>3. steps'["closer"] \in Seq(Tame)
  <2>1. Quiet \subseteq Tame /\ {"unplugKeyboard", "unplugMouse"} \subseteq Tame
      BY DEF Quiet, Tame, Steps
  <2> QED BY <1>1, <1>2, <2>1, ClosedSeq, Usual DEF Threads
<1>4. watchdog /= "none" => watchdog' /= "none"
    BY <1>2, NotTame, WatchdogStays DEF Threads, Main
<1>5. \A t \in Threads : t = "main" \/ t = "closer"
    BY DEF Threads
<1>6. ASSUME refs' = {}, Main' \in Early, Head(Main') /= "watch" => watchdog' /= "none"
      PROVE  Guarded'
    BY <1>3, <1>5, <1>6, EarlyTame DEF Guarded, Setup, Main
<1>7. ASSUME Main' \in Seq(Tame), Main' \in Seq(Late), refs' /= {} => watchdog' /= "none"
      PROVE  Guarded'
    BY <1>3, <1>5, <1>7 DEF Guarded, Main
<1>8. ASSUME refs' = {}, watchdog' /= "none", Return(<<"unguard", "restore">>)
      PROVE  Guarded'
  <2>1. Main' = <<"unguard", "restore">> \o AfterRun
      BY <1>8 DEF Return, Main, TypeOK, Threads
  <2>2. Main' \in Onces
      BY <2>1, DropsOnce, TameOnce, OnceAround
  <2>3. "unguard" \in Late /\ "restore" \in Late /\ Quiet \subseteq Late
      BY DEF Late, Steps, Quiet
  <2>4. <<"unguard", "restore">> \in Seq(Late) /\ AfterRun \in Seq(Late)
      BY <2>3, Lists, QuietCalls
  <2>5. Main' \in Seq(Late)
      BY <2>1, <2>4, Appended
  <2> QED BY <1>3, <1>5, <1>8, <2>2, <2>5 DEF Guarded, Main
<1>9. CASE Connecting
  <2>1. /\ Head(Main) \in {"watch", "prepare", "leftovers", "open"}
        /\ ~Watch => Head(Main) /= "watch"
      BY <1>9 DEF Connecting, Watch, Prepare, Leftovers, Open, At, Main
  <2>2. Tail(Main) \in Starting
      BY <1>2, <2>1, Located
  <2>g. /\ \A a \in Steps : Go("main", <<a>>) => Main' \in Then({a}, Starting)
        /\ \A a, b \in Steps : Go("main", <<a, b>>) => Main' \in Then({a}, Then({b}, Starting))
      BY <1>2, <2>2, MainGoes
  <2>3. /\ Go("main", <<"prepare">>) => Main' \in Then({"prepare"}, Starting)
        /\ Go("main", <<"leftovers">>) => Main' \in Then({"leftovers"}, Starting)
        /\ Go("main", <<"open">>) => Main' \in Then({"open"}, Starting)
        /\ Go("main", <<"wait", "open">>) => Main' \in Then({"wait"}, Then({"open"}, Starting))
        /\ Go("main", <<"create">>) => Main' \in Then({"create"}, Starting)
      BY <2>g DEF Steps
  <2>4. /\ Then({"prepare"}, Starting) \subseteq Early
        /\ Then({"leftovers"}, Starting) \subseteq Early
        /\ Then({"open"}, Starting) \subseteq Early
        /\ Then({"wait"}, Then({"open"}, Starting)) \subseteq Early
    <3>1. \A H : H \subseteq {"watch", "prepare", "leftovers", "open"} =>
             Then(H, Starting) \subseteq Then({"watch", "prepare", "leftovers", "open"}, Starting)
        BY Wider
    <3> QED BY <3>1 DEF Early
  <2>5. ~Watch => watchdog /= "none" /\ watchdog' /= "none"
      BY <1>4, <2>1 DEF Setup
  <2>6. CASE Watch
    <3>1. refs' = {}
        BY <2>6 DEF Watch, Setup, owners
    <3>2. CASE watchdog' = "watching" /\ Go("main", <<"prepare">>)
        BY <1>6, <2>3, <2>4, <3>1, <3>2
    <3>3. CASE Return(<<>>)
      <4>1. <<>> \in Seq(Quiet) /\ Closed(Quiet, Seq(Quiet))
          BY Lists, ClosedSeq
      <4>2. Main' \in Seq(Quiet)
          BY <3>3, <4>1, ClosedReturns DEF Main
      <4>3. Main' \in Seq(Tame) /\ Main' \in Seq(Late)
          BY <4>2 DEF Quiet
      <4> QED BY <1>7, <3>1, <4>3
    <3> QED BY <2>6, <3>2, <3>3 DEF Watch
  <2>7. CASE Prepare
    <3>1. refs' = {} /\ watchdog' /= "none"
        BY <2>1, <2>5, <2>7 DEF Prepare, Setup, owners, lamps, At, Watch
    <3>2. CASE Go("main", <<"leftovers">>)
        BY <1>6, <2>3, <2>4, <3>1, <3>2
    <3> QED BY <1>8, <2>7, <3>1, <3>2 DEF Prepare
  <2>8. CASE Leftovers
    <3>1. refs' = {} /\ watchdog' /= "none"
        BY <2>1, <2>5, <2>8 DEF Leftovers, Setup, owners, lamps, At, Watch
    <3> QED BY <1>6, <2>3, <2>4, <2>8, <3>1 DEF Leftovers
  <2>9. CASE Open
    <3>1. watchdog' /= "none"
        BY <2>1, <2>5, <2>9 DEF Open, lamps, At, Watch
    <3>2. CASE Go("main", <<"create">>)
      <4>1. {"create", "started"} \subseteq Quiet
          BY DEF Quiet, Steps, Free, Tame, Late
      <4>2. Starting \subseteq Seq(Quiet)
          BY <4>1, Lists DEF Starting
      <4>3. Main' \in Seq(Quiet)
          BY <2>3, <3>2, <4>1, <4>2, ThenIn
      <4>4. Main' \in Seq(Tame) /\ Main' \in Seq(Late)
          BY <4>3 DEF Quiet
      <4> QED BY <1>7, <3>1, <4>4
    <3>3. CASE Return(<<"unguard", "restore">>) /\ UNCHANGED refs
        BY <1>8, <3>1, <3>3 DEF Setup
    <3> QED BY <2>9, <3>2, <3>3 DEF Open
  <2> QED BY <1>9, <2>6, <2>7, <2>8, <2>9 DEF Connecting
<1>10. CASE ~Connecting
  <2>1. refs' = {}
      BY <1>1, <1>10 DEF Connecting
  <2>2. Head(Main) \in {"watch", "prepare", "leftovers", "open", "wait"}
      BY Heads DEF Setup, Callers
  <2>3. Main' = Main \/ Wait
    <3>1. CASE MainStep \/ Commands
        BY <1>10, <2>2, <3>1 DEF MainStep, Connecting, Create, Check, Plug, Recheck,
           Record, Created, Replug, Close, Stop, Bind, Reopen, Started, Install, Unplugged,
           Rebuilt, Recreated, Unwrap, Disconnect, Unclaim, AppDrop, LetApp, Commands, Toggle,
           Recreate, Quit, Remove, At, Main
    <3>2. CASE CleanStep("main")
        BY <2>2, <3>2 DEF CleanStep, CleanUp, Flag, Take, LetGo, UnplugLocks, UnplugKeyboard,
           UnplugMouse, Sweep, Unguard, Restore, At, Main
    <3> QED BY <3>1, <3>2, Moves DEF Main, Threads
  <2>4. CASE Main' = Main
      BY <1>4, <1>6, <2>1, <2>4 DEF Setup
  <2>5. CASE Wait
    <3>1. Head(Main) = "wait"
        BY <2>5 DEF Wait, At, Main
    <3>2. Tail(Main) \in Then({"open"}, Starting) /\ watchdog /= "none"
        BY <3>1 DEF Setup, Early, Then
    <3>3. Main' \in Then({"open"}, Starting)
        BY <1>2, <2>5, <3>2, MainGoes DEF Wait
    <3>4. Then({"open"}, Starting)
            \subseteq Then({"watch", "prepare", "leftovers", "open"}, Starting)
        BY Wider
    <3>5. Main' \in Early
        BY <3>3, <3>4 DEF Early
    <3> QED BY <1>4, <1>6, <2>1, <3>2, <3>5
  <2> QED BY <2>3, <2>4, <2>5
<1> QED BY <1>9, <1>10

\* The last to hold the driver drops it, with one step for the watchdog among the
\* steps of the drop.
LEMMA DriverDropped ==
    ASSUME TypeOK, Track, Next, refs /= {}, refs' = {}, \A t \in Threads : steps[t] \in Seq(Tame)
    PROVE  \E t \in Threads : /\ steps'[t] \in Onces
                              /\ \A u \in Threads \ {t} : steps'[u] = steps[u]
<1>m. "main" \in Threads
    BY DEF Threads
<1> DEFINE Dropped(t) == /\ steps'[t] \in Onces
                         /\ \A u \in Threads \ {t} : steps'[u] = steps[u]
<1>1. ASSUME NEW t \in Threads, steps[t] /= <<>>, Go(t, DriverDrop) PROVE Dropped(t)
  <2>1. steps'[t] = DriverDrop \o Tail(steps[t])
      BY <1>1 DEF Go, TypeOK
  <2>2. Tail(steps[t]) \in Seq(Tame)
      BY <1>1
  <2>3. steps'[t] \in Onces
      BY <2>1, <2>2, DropsOnce, TameOnce, OnceAround
  <2>4. \A u \in Threads \ {t} : steps'[u] = steps[u]
      BY <1>1 DEF Go, TypeOK
  <2> QED BY <2>3, <2>4
<1>2. ASSUME NEW l \in Onces, Return(l) PROVE Dropped("main")
  <2>1. steps'["main"] = l \o AfterRun
      BY <1>2 DEF Return, TypeOK, Threads
  <2>2. steps'["main"] \in Onces
      BY <2>1, DropsOnce, TameOnce, OnceAround
  <2>3. \A u \in Threads \ {"main"} : steps'[u] = steps[u]
      BY <1>2 DEF Return, TypeOK
  <2> QED BY <2>2, <2>3
<1> HIDE DEF Dropped
<1>3. CASE Started \/ Quit \/ Unwrap
  <2>1. Unwrap \/ Quit => refs = {"app"}
      BY DEF Unwrap, Quit
  <2>2. Dropped("main")
      BY <1>2, <1>3, <2>1, DropsOnce DEF Started, Quit, Unwrap
  <2> QED BY <1>m, <2>2 DEF Dropped
<1>4. CASE LetApp
  <2>1. refs = {"app"} /\ Go("main", DriverDrop) /\ steps["main"] /= <<>>
      BY <1>4 DEF LetApp, LetsGo, At
  <2>2. Dropped("main")
      BY <1>1, <1>m, <2>1
  <2> QED BY <1>m, <2>2 DEF Dropped
<1>5. ASSUME NEW t \in Threads, LetGo(t) PROVE Dropped(t)
  <2>1. refs = {t} /\ Go(t, DriverDrop) /\ steps[t] /= <<>>
      BY <1>5 DEF LetGo, LetsGo, At
  <2> QED BY <1>1, <2>1
<1>6. ~Remove
  <2>1. ASSUME Remove PROVE "app" \in refs
    <3>1. Main /= <<>> /\ Head(Main) = "menu"
        BY <2>1 DEF Remove, At, Main
    <3>2. Owns(Returning)
        BY <3>1, Located
    <3>3. Returning /= Starting
      <4> DEFINE a == <<"recreated", "menu">>
                 b == <<"started">>
      <4>1. Len(a) = 2 /\ Len(b) = 1
          OBVIOUS
      <4>2. a /= b
          BY <4>1
      <4> QED BY <4>2 DEF Returning, Starting
    <3> QED BY <3>2, <3>3 DEF Owns
  <2>2. Remove => refs' = refs \ {"shared"}
      BY DEF Remove
  <2> QED BY <2>1, <2>2
<1>7. Started \/ Quit \/ Unwrap \/ LetApp \/ \E t \in Threads : LetGo(t)
    BY <1>6 DEF Next, MainStep, Watch, Prepare, Leftovers, Wait, Open, Create, Check, Plug,
           Recheck, Record, Created, Replug, Close, Stop, Bind, Reopen, Install, Unplugged,
           Rebuilt, Recreated, Disconnect, Unclaim, AppDrop, Commands, Toggle,
           Recreate, Watchdog, WatchdogLooks, WatchdogStops, Windows,
           LampReturns, WindowCloses, AnotherCopyPlugs, ProcessEnds, CleanStep, CleanUp, Flag,
           Take, UnplugLocks, UnplugKeyboard, UnplugMouse, Sweep, Unguard,
           Restore, DeviceLeaves, owners
<1> QED BY <1>3, <1>4, <1>5, <1>7 DEF Dropped

LEMMA StepGuarded ==
    ASSUME TypeOK, Track, Guarded, Next
    PROVE  Guarded'
<1>1. CASE Main \notin Seq(Late)
    BY <1>1, SetupGuards DEF Guarded
<1> SUFFICES ASSUME Main \in Seq(Late) PROVE Guarded'
    BY <1>1
<1>2. ~Connecting
  <2>1. Connecting => Main /= <<>> /\ Head(Main) \in {"watch", "prepare", "leftovers", "open"}
      BY DEF Connecting, Watch, Prepare, Leftovers, Open, At, Main
  <2>2. Main /= <<>> => Head(Main) \in Late
      OBVIOUS
  <2> QED BY <2>1, <2>2 DEF Late
<1>3. Main' \in Seq(Late)
  <2>1. Quiet \subseteq Late /\ {"unplugKeyboard", "unplugMouse", "unguard"} \subseteq Late
      BY DEF Quiet, Late, Steps
  <2> QED BY <1>2, <2>1, ClosedSeq, Usual DEF Main, Threads
<1>t. Quiet \subseteq Tame /\ {"unplugKeyboard", "unplugMouse"} \subseteq Tame
    BY DEF Quiet, Tame, Steps
<1>4. ASSUME NEW t \in Threads, steps[t] \in Seq(Tame), ~Parted PROVE steps'[t] \in Seq(Tame)
    BY <1>2, <1>4, <1>t, ClosedSeq, Usual
<1>5. ASSUME NEW t \in Threads, steps[t] \in Onces, ~Parted PROVE steps'[t] \in Onces
    BY <1>2, <1>5, <1>t, OnceClosed, Usual
<1>6. CASE refs = {}
  <2>1. ~Parted /\ refs' = {}
      BY <1>2, <1>6, NoDriver DEF Connecting
  <2>2. ASSUME NEW t \in Threads
        PROVE  \/ steps'[t] \in Seq(Tame)
               \/ /\ watchdog' /= "none" /\ steps'[t] \in Onces
                  /\ \A u \in Threads \ {t} : steps'[u] \in Seq(Tame)
    <3>1. CASE steps[t] \in Seq(Tame)
        BY <1>4, <2>1, <3>1
    <3>2. ASSUME watchdog /= "none", steps[t] \in Onces,
                 \A u \in Threads \ {t} : steps[u] \in Seq(Tame)
          PROVE  \/ steps'[t] \in Seq(Tame)
                 \/ /\ watchdog' /= "none" /\ steps'[t] \in Onces
                    /\ \A u \in Threads \ {t} : steps'[u] \in Seq(Tame)
      <4>1. CASE Unguard(t)
        <5>1. Tail(steps[t]) \in Seq(Tame)
            BY <3>2, <4>1, NotTame, OnceTail
        <5>2. steps'[t] = <<>> \o Tail(steps[t])
            BY <4>1 DEF Unguard, Go, TypeOK
        <5>3. steps'[t] \in Seq(Tame)
            BY <5>1, <5>2, Longer
        <5> QED BY <5>3
      <4>2. CASE ~Unguard(t)
        <5>1. \A u \in Threads : ~Unguard(u)
            BY <3>2, <4>2, NotTame
        <5>2. watchdog' /= "none"
            BY <3>2, <5>1, WatchdogStays
        <5>3. steps'[t] \in Onces /\ \A u \in Threads \ {t} : steps'[u] \in Seq(Tame)
            BY <1>4, <1>5, <2>1, <3>2
        <5> QED BY <5>2, <5>3
      <4> QED BY <4>1, <4>2
    <3> QED BY <3>1, <3>2 DEF Guarded
  <2> QED BY <1>3, <2>1, <2>2 DEF Guarded
<1>7. CASE refs /= {}
  <2>1. watchdog /= "none" /\ \A t \in Threads : steps[t] \in Seq(Tame)
      BY <1>7 DEF Guarded
  <2>2. watchdog' /= "none"
      BY <2>1, NotTame, WatchdogStays
  <2>3. CASE refs' /= {}
    <3>1. \A t \in Threads : steps'[t] \in Seq(Tame)
        BY <1>4, <2>1, <2>3 DEF Parted
    <3> QED BY <1>3, <2>2, <3>1 DEF Guarded
  <2>4. CASE refs' = {}
    <3>1. PICK t \in Threads : /\ steps'[t] \in Onces
                               /\ \A u \in Threads \ {t} : steps'[u] = steps[u]
        BY <1>7, <2>1, <2>4, DriverDropped
    <3>2. \A u \in Threads \ {t} : steps'[u] \in Seq(Tame)
        BY <2>1, <3>1
    <3> QED BY <1>3, <2>2, <2>4, <3>1, <3>2 DEF Guarded
  <2> QED BY <2>3, <2>4
<1> QED BY <1>6, <1>7

\* Nobody waits for what will not come: the lock around the record is only held in
\* the middle of an unplug, whatever Windows refuses there, and a thread that has
\* the watchdog to drop finds it running, however the connection failed and whoever
\* was the last to hold the driver.
THEOREM NobodyWaits == Spec => []NobodyWaitsInVain
<1>1. Init => Locked /\ Guarded
  <2> SUFFICES ASSUME Init PROVE Locked /\ Guarded
      OBVIOUS
  <2>1. TypeOK /\ Track
      BY InitTyped, InitTracks
  <2>2. /\ Main = <<"watch", "started">> /\ steps["closer"] = <<>> /\ refs = {}
        /\ lock = "free"
      BY DEF Init, Main, Threads
  <2>3. Main /= <<>> /\ Head(Main) = "watch"
      BY <2>2
  <2>4. Main \in Early
    <3>1. Tail(Main) \in Starting
        BY <2>1, <2>3, Located
    <3>2. Main \in Seq(Steps)
        BY <2>1 DEF TypeOK, Main, Threads
    <3>3. Main \in Then({"watch", "prepare", "leftovers", "open"}, Starting)
        BY <2>3, <3>1, <3>2 DEF Then
    <3> QED BY <3>3 DEF Early
  <2>5. \A t \in Threads : steps[t] \in Seq(Tame)
      BY <2>2, <2>4, EarlyTame, Lists DEF Threads, Main
  <2>6. \A t \in Threads : steps[t] \in Seq(Free) /\ lock /= t
    <3>1. "watch" \in Free /\ "started" \in Free
        BY DEF Free, Steps
    <3>2. <<"watch", "started">> \in Seq(Free) /\ <<>> \in Seq(Free)
        BY <3>1, Lists
    <3> QED BY <2>2, <3>2 DEF Threads, Main
  <2>7. Guarded
      BY <2>2, <2>3, <2>4, <2>5 DEF Guarded, Setup, Threads
  <2> QED BY <2>6, <2>7 DEF Locked
<1>2. Tracked /\ Locked /\ Guarded /\ [Next]_vars => (Locked /\ Guarded)'
  <2> SUFFICES ASSUME Tracked, Locked, Guarded, [Next]_vars PROVE Locked' /\ Guarded'
      OBVIOUS
  <2>1. CASE Next
      BY <2>1, StepLocked, StepGuarded DEF Tracked
  <2>2. CASE UNCHANGED vars
      BY <2>2 DEF vars, owners, driver, lamps, Locked, Guarded, Setup, Main
  <2> QED BY <2>1, <2>2
<1>3. Tracked /\ Locked /\ Guarded => NobodyWaitsInVain
  <2> SUFFICES ASSUME Tracked, Locked, Guarded PROVE NobodyWaitsInVain
      OBVIOUS
  <2>1. ASSUME lock \in Threads
        PROVE  steps[lock] /= <<>> /\ Head(steps[lock]) \in {"unplugKeyboard", "unplugMouse"}
      BY <2>1 DEF Locked, Unplugging, Half, Then
  <2>2. ASSUME NEW t \in Threads, "unguard" \in StepsOf(t) PROVE watchdog /= "none"
    <3>1. PICK i \in DOMAIN steps[t] : steps[t][i] = "unguard"
        BY <2>2 DEF StepsOf
    <3>2. steps[t] \in Seq(Tame) => steps[t][i] \in Tame
        OBVIOUS
    <3>3. steps[t] \notin Seq(Tame)
        BY <3>1, <3>2 DEF Tame
    <3> QED BY <3>3 DEF Guarded
  <2> QED BY <2>1, <2>2 DEF NobodyWaitsInVain
<1> QED BY <1>1, <1>2, <1>3, TrackedHolds, PTL DEF Spec

=============================================================================
