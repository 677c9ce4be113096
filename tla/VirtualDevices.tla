--------------------------- MODULE VirtualDevices ---------------------------
(***************************************************************************)
(* The life of the virtual keyboard and mouse, from App::start to the end  *)
(* of the process (app/mod.rs, app/exit.rs, driver/mod.rs, driver/ghub.rs).*)
(* Three threads of the program meet over them:                            *)
(*                                                                         *)
(*   - the main thread, which connects to the driver, plugs both devices,  *)
(*     re-creates them from the menu, removes the driver or quits;         *)
(*   - the console handler, which cleans up when the window is closed and  *)
(*     after which Windows ends the process, whatever main is doing;       *)
(*   - the watchdog, which stops the LampArray service whenever it is up.  *)
(*                                                                         *)
(* A thread is the list of steps it has yet to take; a step that calls a   *)
(* function puts the function's steps in front.  Every step is one lock,   *)
(* flag or driver request, because that is where the threads interleave.   *)
(* The lock around the connection is held for one request at a time and is *)
(* part of that request's step; the lock around the record of what is      *)
(* plugged is held across a pause and has a variable of its own.  What the *)
(* devices hold down is left to KeyboardRedirect.                          *)
(***************************************************************************)
EXTENDS Naturals, FiniteSets, Sequences

CONSTANTS
    PlugAttempts,  \* PLUG_ATTEMPTS: how often keep_trying asks (4 in the code)
    Surroundings   \* the sets of Behaviours a run looks at, each from start to end

(***************************************************************************)
(* What the surroundings may do beyond what the program asks of them.      *)
(*   close     the window is closed                                        *)
(*   leftover  a previous session has left its devices on the bus          *)
(*   stale     the bus has a stale state and refuses a mouse (ghub.rs)     *)
(*   taken     a plug is refused for a while: G HUB has the product id     *)
(*   slow      a device leaves the bus later than REMOVAL_TIMEOUT          *)
(*   refuse    an unplug or a removal is turned down                       *)
(*   fail      installing, binding, opening or hooking fails               *)
(*   hang      the LampArray service answers after TRANSITION_TIMEOUT      *)
(*   recovery  the LampArray service comes back by itself                  *)
(*   another   the user starts the program again                           *)
(***************************************************************************)
Behaviours == {"close", "leftover", "stale", "taken", "slow", "refuse", "fail", "hang",
               "recovery", "another"}

Devices == {"keyboard", "mouse"}
Threads == {"main", "closer"}

ASSUME AttemptsAssumption == PlugAttempts \in Nat \ {0}
ASSUME EnvAssumption      == Surroundings \subseteq SUBSET Behaviours

VARIABLES
    env,       \* the behaviours of this run, chosen once
    steps,     \* for each thread, the steps it has yet to take
    kind,      \* main: the device plug_unless_leaving is about
    tries,     \* main: keep_trying's attempt
    ok,        \* main: the last Result
    refused,   \* main: whether unplug_virtual_devices named a device
    was,       \* main: recreate_devices' memory of the switches
    on,        \* Shared.keyboard_enabled or Shared.mouse_enabled
    refs,      \* who holds the Arc around the driver
    leaving,   \* SHUTTING_DOWN
    cleaner,   \* ALREADY_CLEANED_UP, and by which thread it was set
    conn,      \* Devices.core is Some: the connection is open
    record,    \* PluggedDevices: the devices with an id
    lock,      \* who holds the lock around the record
    bus,       \* the virtual devices on the bus
    going,     \* those of them that have been told to go
    theirs,    \* those of them that this copy of the program did not plug
    stale,     \* the bus refuses a mouse until it is bound anew
    lamp,      \* the LampArray service is running
    lampWas,   \* lamp_was_running
    watchdog,  \* where the watchdog thread is
    claim,     \* SingleInstance is held
    closing,   \* Windows has called the console handler
    ended      \* the process is gone

locals  == <<kind, tries, ok, refused, was>>
owners  == <<on, refs>>
leave   == <<leaving, cleaner>>
driver  == <<conn, record, lock>>
onBus   == <<bus, going, theirs, stale>>
lamps   == <<lamp, lampWas, watchdog>>
process == <<claim, closing, ended>>
vars    == <<env, steps, locals, owners, leave, driver, onBus, lamps, process>>

-----------------------------------------------------------------------------
\* Threads and their steps.

At(t, step) == ~ended /\ steps[t] /= <<>> /\ Head(steps[t]) = step

\* The step in front is done, and these come before what is left.
Go(t, next) == steps' = [steps EXCEPT ![t] = next \o Tail(@)]

StepsOf(t) == {steps[t][i] : i \in DOMAIN steps[t]}

\* The functions that more than one place calls.
Unplug     == <<"unplug">>
Park       == <<"unplug", "sweep">>
DriverDrop == <<"unplug", "sweep", "unguard", "restore">>

\* run() returns: its locals go first, the App it was called on after them.
AfterRun   == <<"unclaim", "appDrop">>

\* run() returns from wherever main was, dropping on the way what is named.
Return(dropping) == steps' = [steps EXCEPT !["main"] = dropping \o AfterRun]

Init ==
    /\ env \in Surroundings
    /\ steps = [t \in Threads |-> IF t = "main" THEN <<"watch", "started">> ELSE <<>>]
    /\ kind = "keyboard" /\ tries = 1 /\ ok = FALSE /\ refused = FALSE /\ was = FALSE
    /\ on = FALSE /\ refs = {}
    /\ leaving = FALSE /\ cleaner = "nobody"
    /\ conn = FALSE /\ record = {} /\ lock = "free"
    /\ bus \in SUBSET Devices /\ (bus = {} \/ "leftover" \in env)
    /\ going = {} /\ theirs = bus
    /\ stale \in BOOLEAN /\ ("stale" \in env \/ ~stale)
    /\ lamp \in BOOLEAN /\ lampWas = FALSE /\ watchdog = "none"
    /\ claim = TRUE /\ closing = FALSE /\ ended = FALSE

-----------------------------------------------------------------------------
\* The bus, as Windows and the driver run it.

\* install::remove_leftover_devices: every device with our hardware ids.
SweepsBus ==
    /\ \E gone \in SUBSET bus :
          (gone = bus \/ "refuse" \in env) /\ going' = going \cup gone
    /\ UNCHANGED <<bus, theirs, stale>>

\* Devices::unplug, which needs the connection and a device of ours.
Unplugs(d) ==
    /\ conn /\ d \in bus \ theirs
    /\ going' = going \cup {d}
    /\ UNCHANGED <<bus, theirs, stale>>
UnplugRefused(d) == (~conn \/ d \notin bus \ theirs \/ "refuse" \in env) /\ UNCHANGED onBus

\* A product id is taken once, and a stale bus takes no mouse.
PlugAccepted ==
    /\ conn /\ kind \notin bus /\ ~(stale /\ kind = "mouse")
    /\ bus' = bus \cup {kind}
    /\ UNCHANGED <<going, theirs, stale>>
PlugRefused ==
    /\ ~conn \/ kind \in bus \/ (stale /\ kind = "mouse") \/ "taken" \in env
    /\ UNCHANGED onBus

\* A re-bind is vetoed without a word while the LampArray service is up.
Rebinds == stale' = (stale /\ lamp) /\ UNCHANGED <<bus, going, theirs>>

\* wait_for_empty_bus runs into its deadline.
TimesOut == bus /= {} /\ (going /= bus \/ "slow" \in env)

Fails == "fail" \in env

-----------------------------------------------------------------------------
\* Driver::connect.

\* Watchdog::start.
Watch ==
    /\ At("main", "watch")
    /\ lampWas' = lamp
    /\ \/ lamp' = FALSE /\ watchdog' = "watching" /\ Go("main", <<"prepare">>)
       \/ lamp /\ "hang" \in env /\ lamp' \in BOOLEAN /\ Return(<<>>) /\ UNCHANGED watchdog
    /\ UNCHANGED <<env, locals, owners, leave, driver, onBus, process>>

\* The package is installed, replaced or only bound again.
Prepare ==
    /\ At("main", "prepare")
    /\ \/ Rebinds /\ Go("main", <<"leftovers">>)
       \/ Fails /\ Return(<<"unguard", "restore">>) /\ UNCHANGED onBus
    /\ UNCHANGED <<env, locals, owners, leave, driver, lamps, process>>

Leftovers ==
    /\ At("main", "leftovers")
    /\ SweepsBus
    /\ Go("main", IF going' = {} THEN <<"open">> ELSE <<"wait", "open">>)
    /\ UNCHANGED <<env, locals, owners, leave, driver, lamps, process>>

\* wait_for_empty_bus where its answer is thrown away.
Wait ==
    /\ At("main", "wait")
    /\ bus = {} \/ TimesOut
    /\ Go("main", <<>>)
    /\ UNCHANGED <<env, locals, owners, leave, driver, onBus, lamps, process>>

Open ==
    /\ At("main", "open")
    /\ \/ conn' = TRUE /\ refs' = {"main"} /\ Go("main", <<"create">>)
       \/ Fails /\ Return(<<"unguard", "restore">>) /\ UNCHANGED <<conn, refs>>
    /\ UNCHANGED <<env, locals, on, leave, record, lock, onBus, lamps, process>>

-----------------------------------------------------------------------------
\* create_virtual_devices, plug_both_devices and plug_unless_leaving.

PlugsFirst == kind' = "keyboard" /\ tries' = 1

Create ==
    /\ At("main", "create")
    /\ PlugsFirst /\ Go("main", <<"check", "created">>)
    /\ UNCHANGED <<env, ok, refused, was, owners, leave, driver, onBus, lamps, process>>

\* MUTANT: the keyboard is left behind when the mouse cannot be plugged.
MutantPlugFails == ok' = FALSE /\ Go("main", <<>>)

\* plug_both_devices takes the keyboard back if the mouse cannot be had.
PlugFails == ok' = FALSE /\ Go("main", IF kind = "mouse" THEN Unplug ELSE <<>>)

Check ==
    /\ At("main", "check")
    /\ \/ leaving /\ PlugFails
       \/ ~leaving /\ Go("main", <<"plug">>) /\ UNCHANGED ok
    /\ UNCHANGED <<env, kind, tries, refused, was, owners, leave, driver, onBus, lamps, process>>

\* MUTANT: the attempts are not counted.
MutantPlugForever ==
    /\ At("main", "plug")
    /\ \/ PlugAccepted /\ Go("main", <<"recheck">>) /\ UNCHANGED ok
       \/ PlugRefused /\ UNCHANGED <<ok, steps>>
    /\ UNCHANGED <<env, kind, tries, refused, was, owners, leave, driver, lamps, process>>

\* keep_trying: the flag is not looked at between two attempts.
Plug ==
    /\ At("main", "plug")
    /\ \/ PlugAccepted /\ Go("main", <<"recheck">>) /\ UNCHANGED <<ok, tries>>
       \/ /\ PlugRefused /\ tries < PlugAttempts
          /\ tries' = tries + 1 /\ UNCHANGED <<ok, steps>>
       \/ /\ PlugRefused /\ tries = PlugAttempts
          /\ PlugFails /\ UNCHANGED tries
    /\ UNCHANGED <<env, kind, refused, was, owners, leave, driver, lamps, process>>

\* MUTANT: a device plugged while the program was leaving is kept.
MutantRecheck ==
    /\ At("main", "recheck")
    /\ Go("main", <<"record">>)
    /\ UNCHANGED <<env, locals, owners, leave, driver, onBus, lamps, process>>

Recheck ==
    /\ At("main", "recheck")
    /\ \/ leaving /\ PlugFails /\ (Unplugs(kind) \/ UnplugRefused(kind))
       \/ ~leaving /\ Go("main", <<"record">>) /\ UNCHANGED <<onBus, ok>>
    /\ UNCHANGED <<env, kind, tries, refused, was, owners, leave, driver, lamps, process>>

Record ==
    /\ At("main", "record") /\ lock = "free"
    /\ record' = record \cup {kind}
    /\ \/ /\ kind = "keyboard"
          /\ kind' = "mouse" /\ tries' = 1 /\ Go("main", <<"check">>) /\ UNCHANGED ok
       \/ /\ kind = "mouse"
          /\ ok' = TRUE /\ Go("main", <<>>) /\ UNCHANGED <<kind, tries>>
    /\ UNCHANGED <<env, refused, was, owners, leave, conn, lock, onBus, lamps, process>>

Created ==
    /\ At("main", "created")
    /\ Go("main", IF ok THEN <<>> ELSE Unplug \o <<"close", "replug">>)
    /\ UNCHANGED <<env, locals, owners, leave, driver, onBus, lamps, process>>

Replug ==
    /\ At("main", "replug")
    /\ \/ ok /\ PlugsFirst /\ Go("main", <<"wait", "check">>)
       \/ ~ok /\ Go("main", <<>>) /\ UNCHANGED <<kind, tries>>
    /\ UNCHANGED <<env, ok, refused, was, owners, leave, driver, onBus, lamps, process>>

-----------------------------------------------------------------------------
\* rebuild_bus.

Close ==
    /\ At("main", "close")
    /\ conn' = FALSE /\ Go("main", <<"sweep", "stop">>)
    /\ UNCHANGED <<env, locals, owners, leave, record, lock, onBus, lamps, process>>

RebuildFails == ok' = FALSE /\ Go("main", <<>>)

\* ghub::stop_blockers.
Stop ==
    /\ At("main", "stop")
    /\ \/ lamp' = FALSE /\ Go("main", <<"bind">>) /\ UNCHANGED ok
       \/ lamp /\ "hang" \in env /\ lamp' \in BOOLEAN /\ RebuildFails
    /\ UNCHANGED <<env, kind, tries, refused, was, owners, leave, driver, onBus,
                   lampWas, watchdog, process>>

Bind ==
    /\ At("main", "bind")
    /\ \/ Rebinds /\ Go("main", <<"wait", "reopen">>) /\ UNCHANGED ok
       \/ Fails /\ RebuildFails /\ UNCHANGED onBus
    /\ UNCHANGED <<env, kind, tries, refused, was, owners, leave, driver, lamps, process>>

Reopen ==
    /\ At("main", "reopen")
    /\ \/ conn' = TRUE /\ ok' = TRUE /\ Go("main", <<>>)
       \/ Fails /\ RebuildFails /\ UNCHANGED conn
    /\ UNCHANGED <<env, kind, tries, refused, was, owners, leave, record, lock, onBus, lamps,
                   process>>

-----------------------------------------------------------------------------
\* App::start ends, and the menu begins.

\* MUTANT: everybody who lets go drops the driver, and its watchdog with it.
MutantLetsGo(t, who) ==
    /\ refs' = refs \ {who}
    /\ Go(t, DriverDrop)

\* The last holder of the Arc to let go drops the driver.
LetsGo(t, who) ==
    /\ refs' = refs \ {who}
    /\ Go(t, IF refs = {who} THEN DriverDrop ELSE <<>>)

Started ==
    /\ At("main", "started")
    /\ \/ ok /\ Go("main", <<"install">>) /\ UNCHANGED refs
       \/ ~ok /\ refs' = {} /\ Return(DriverDrop)
    /\ UNCHANGED <<env, locals, on, leave, driver, onBus, lamps, process>>

\* Engine::install, which gives Shared a driver even if the hooks then fail.
Install ==
    /\ At("main", "install")
    /\ \/ refs' = {"app", "shared"} /\ Go("main", <<"menu">>)
       \/ Fails /\ refs' = {"shared"} /\ Return(<<>>)
    /\ UNCHANGED <<env, locals, on, leave, driver, onBus, lamps, process>>

\* Engine::set_keyboard and its like, headless or from the menu.
Toggle ==
    /\ At("main", "menu")
    /\ on' = ~on
    /\ UNCHANGED <<env, steps, locals, refs, leave, driver, onBus, lamps, process>>

\* recreate_devices: the engine stops, and resumes if all goes well.
Recreate ==
    /\ At("main", "menu")
    /\ was' = on /\ on' = FALSE /\ refused' = FALSE
    /\ Go("main", Unplug \o <<"unplugged", "recreated", "menu">>)
    /\ UNCHANGED <<env, kind, tries, ok, refs, leave, driver, onBus, lamps, process>>

\* recreate_virtual_devices once its unplug is done.
Unplugged ==
    /\ At("main", "unplugged")
    /\ \/ ~refused /\ bus = {} /\ Go("main", <<"create">>)
       \/ (refused \/ TimesOut) /\ Go("main", <<"sweep", "close", "rebuilt">>)
    /\ UNCHANGED <<env, locals, owners, leave, driver, onBus, lamps, process>>

Rebuilt ==
    /\ At("main", "rebuilt")
    /\ \/ ok /\ bus = {} /\ Go("main", <<"create">>) /\ UNCHANGED ok
       \/ ok /\ TimesOut /\ ok' = FALSE /\ Go("main", <<>>)
       \/ ~ok /\ Go("main", <<>>) /\ UNCHANGED ok
    /\ UNCHANGED <<env, kind, tries, refused, was, owners, leave, driver, onBus, lamps, process>>

Recreated ==
    /\ At("main", "recreated")
    /\ on' = (ok /\ was)
    /\ Go("main", <<>>)
    /\ UNCHANGED <<env, locals, refs, leave, driver, onBus, lamps, process>>

\* shut_down: the engine is stopped and dropped, and the App lets go.
Quit ==
    /\ At("main", "menu")
    /\ on' = FALSE
    /\ refs' = refs \ {"app"}
    /\ Return(IF refs = {"app"} THEN DriverDrop ELSE <<>>)
    /\ UNCHANGED <<env, locals, leave, driver, onBus, lamps, process>>

\* remove_driver: release_driver first, then try_unwrap.
Remove ==
    /\ At("main", "menu")
    /\ on' = FALSE
    /\ refs' = refs \ {"shared"}
    /\ Go("main", <<"unwrap">>)
    /\ UNCHANGED <<env, locals, leave, driver, onBus, lamps, process>>

\* try_unwrap gives the driver to Driver::remove, or it is still in use: then the
\* session is over, and the App lets go of what it got back, perhaps as the last.
Unwrap ==
    /\ At("main", "unwrap")
    /\ \/ /\ refs = {"app"} /\ refs' = {}
          /\ Return(Unplug \o <<"disconnect", "sweep">> \o DriverDrop)
       \/ refs /= {"app"} /\ Return(<<"letApp">>) /\ UNCHANGED refs
    /\ UNCHANGED <<env, locals, on, leave, driver, onBus, lamps, process>>

Disconnect ==
    /\ At("main", "disconnect")
    /\ conn' = FALSE /\ Go("main", <<>>)
    /\ UNCHANGED <<env, locals, owners, leave, record, lock, onBus, lamps, process>>

\* The locals of run() go: _only_copy among them.
Unclaim ==
    /\ At("main", "unclaim")
    /\ claim' = FALSE /\ Go("main", <<>>)
    /\ UNCHANGED <<env, locals, owners, leave, driver, onBus, lamps, closing, ended>>

\* App::drop.
AppDrop ==
    /\ At("main", "appDrop")
    /\ on' = FALSE
    /\ Go("main", <<"cleanUp", "letApp">>)
    /\ UNCHANGED <<env, locals, refs, leave, driver, onBus, lamps, process>>

LetApp ==
    /\ At("main", "letApp")
    /\ \/ "app" \in refs /\ LetsGo("main", "app")
       \/ "app" \notin refs /\ Go("main", <<>>) /\ UNCHANGED refs
    /\ UNCHANGED <<env, locals, on, leave, driver, onBus, lamps, process>>

MainStep ==
    \/ Watch \/ Prepare \/ Leftovers \/ Wait \/ Open
    \/ Create \/ Check \/ Plug \/ Recheck \/ Record \/ Created \/ Replug
    \/ Close \/ Stop \/ Bind \/ Reopen
    \/ Started \/ Install \/ Unplugged \/ Rebuilt \/ Recreated
    \/ Unwrap \/ Disconnect \/ Unclaim \/ AppDrop \/ LetApp

-----------------------------------------------------------------------------
\* exit::clean_up and what it calls, on whichever thread gets there.

CleanUp(t) ==
    /\ At(t, "cleanUp")
    /\ \/ cleaner = "nobody" /\ cleaner' = t /\ Go(t, <<"flag">>)
       \/ cleaner /= "nobody" /\ Go(t, <<>>) /\ UNCHANGED cleaner
    /\ UNCHANGED <<env, locals, owners, leaving, driver, onBus, lamps, process>>

\* begin_shutdown.
Flag(t) ==
    /\ At(t, "flag")
    /\ leaving' = TRUE /\ Go(t, <<"take">>)
    /\ UNCHANGED <<env, locals, owners, cleaner, driver, onBus, lamps, process>>

\* emergency_stop: the driver is taken out of Shared and parked.
Take(t) ==
    /\ At(t, "take")
    /\ \/ /\ "shared" \in refs
          /\ on' = FALSE /\ refs' = (refs \ {"shared"}) \cup {t}
          /\ Go(t, Park \o <<"letGo">>)
       \/ "shared" \notin refs /\ on' = FALSE /\ Go(t, <<>>) /\ UNCHANGED refs
    /\ UNCHANGED <<env, locals, leave, driver, onBus, lamps, process>>

LetGo(t) ==
    /\ At(t, "letGo")
    /\ LetsGo(t, t)
    /\ UNCHANGED <<env, locals, on, leave, driver, onBus, lamps, process>>

\* unplug_virtual_devices: the record stays locked from the first to the last.
UnplugLocks(t) ==
    /\ At(t, "unplug") /\ lock = "free"
    /\ lock' = t /\ Go(t, <<"unplugKeyboard", "unplugMouse">>)
    /\ UNCHANGED <<env, locals, owners, leave, conn, record, onBus, lamps, process>>

\* MUTANT: a device that will not go is forgotten all the same.
MutantUnplugsRecorded(t, d) ==
    /\ Unplugs(d) \/ UnplugRefused(d)
    /\ record' = record \ {d} /\ UNCHANGED refused

\* A device that will not go keeps its id and is named to the caller.
UnplugsRecorded(t, d) ==
    \/ d \notin record /\ UNCHANGED <<onBus, record, refused>>
    \/ d \in record /\ Unplugs(d) /\ record' = record \ {d} /\ UNCHANGED refused
    \/ /\ d \in record /\ UnplugRefused(d) /\ UNCHANGED record
       /\ refused' = (refused \/ t = "main")

UnplugKeyboard(t) ==
    /\ At(t, "unplugKeyboard")
    /\ UnplugsRecorded(t, "keyboard") /\ Go(t, <<>>)
    /\ UNCHANGED <<env, kind, tries, ok, was, owners, leave, conn, lock, lamps, process>>

\* MUTANT: the record stays locked when the mouse will not go.
MutantUnplugMouse(t) ==
    /\ At(t, "unplugMouse")
    /\ UnplugsRecorded(t, "mouse") /\ Go(t, <<>>)
    /\ lock' = IF "mouse" \in record' THEN lock ELSE "free"
    /\ UNCHANGED <<env, kind, tries, ok, was, owners, leave, conn, lamps, process>>

UnplugMouse(t) ==
    /\ At(t, "unplugMouse")
    /\ UnplugsRecorded(t, "mouse") /\ lock' = "free" /\ Go(t, <<>>)
    /\ UNCHANGED <<env, kind, tries, ok, was, owners, leave, conn, lamps, process>>

Sweep(t) ==
    /\ At(t, "sweep")
    /\ SweepsBus /\ Go(t, <<>>)
    /\ UNCHANGED <<env, locals, owners, leave, driver, lamps, process>>

\* Watchdog::drop: the thread is waited for, then the service started again.
Unguard(t) ==
    /\ At(t, "unguard") /\ watchdog = "watching"
    /\ watchdog' = "none" /\ Go(t, <<>>)
    /\ UNCHANGED <<env, locals, owners, leave, driver, onBus, lamp, lampWas, process>>

Restore(t) ==
    /\ At(t, "restore")
    /\ \/ lamp' = (lamp \/ lampWas)
       \/ "hang" \in env /\ UNCHANGED lamp
    /\ Go(t, <<>>)
    /\ UNCHANGED <<env, locals, owners, leave, driver, onBus, lampWas, watchdog, process>>

CleanStep(t) ==
    \/ CleanUp(t) \/ Flag(t) \/ Take(t) \/ LetGo(t)
    \/ UnplugLocks(t) \/ UnplugKeyboard(t) \/ UnplugMouse(t) \/ Sweep(t)
    \/ Unguard(t) \/ Restore(t)

-----------------------------------------------------------------------------
\* keep_blockers_down: look, and stop what has come back.

WatchdogLooks ==
    /\ ~ended /\ watchdog = "watching" /\ lamp
    /\ watchdog' = "stopping"
    /\ UNCHANGED <<env, steps, locals, owners, leave, driver, onBus, lamp, lampWas, process>>

WatchdogStops ==
    /\ ~ended /\ watchdog = "stopping"
    /\ lamp' = FALSE \/ ("hang" \in env /\ UNCHANGED lamp)
    /\ watchdog' = "watching"
    /\ UNCHANGED <<env, steps, locals, owners, leave, driver, onBus, lampWas, process>>

-----------------------------------------------------------------------------
\* Windows and the user.

DeviceLeaves(d) ==
    /\ d \in going
    /\ bus' = bus \ {d} /\ going' = going \ {d} /\ theirs' = theirs \ {d}
    /\ UNCHANGED <<env, steps, locals, owners, leave, driver, stale, lamps, process>>

LampReturns ==
    /\ "recovery" \in env /\ ~ended /\ ~lamp
    /\ lamp' = TRUE
    /\ UNCHANGED <<env, steps, locals, owners, leave, driver, onBus, lampWas, watchdog, process>>

WindowCloses ==
    /\ "close" \in env /\ ~ended /\ ~closing
    /\ closing' = TRUE
    /\ steps' = [steps EXCEPT !["closer"] = <<"cleanUp">>]
    /\ UNCHANGED <<env, locals, owners, leave, driver, onBus, lamps, claim, ended>>

\* Windows ends the process when the handler has answered, and the process
\* ends itself when main has returned.
ProcessEnds ==
    /\ ~ended
    /\ steps["main"] = <<>> \/ (closing /\ steps["closer"] = <<>>)
    /\ ended' = TRUE
    /\ UNCHANGED <<env, steps, locals, owners, leave, driver, onBus, lamps, claim, closing>>

\* A second copy finds the claim free, sweeps the bus and plugs its own pair.
AnotherCopyPlugs ==
    /\ "another" \in env /\ ~claim /\ ~ended /\ bus = {} /\ theirs = {}
    /\ bus' = Devices /\ theirs' = Devices
    /\ UNCHANGED <<env, steps, locals, owners, leave, driver, going, stale, lamps, process>>

-----------------------------------------------------------------------------
Commands == Toggle \/ Recreate \/ Quit \/ Remove
Watchdog == WatchdogLooks \/ WatchdogStops
Windows  == LampReturns \/ WindowCloses \/ AnotherCopyPlugs

Next == \/ MainStep \/ Commands \/ Watchdog \/ Windows \/ ProcessEnds
        \/ \E t \in Threads : CleanStep(t)
        \/ \E d \in Devices : DeviceLeaves(d)

(***************************************************************************)
(* Every thread runs, and a device told to go goes.  A thread that waits   *)
(* for the record or for the watchdog gets its turn although others keep   *)
(* taking it.  Nobody has to choose a command or close the window.         *)
(***************************************************************************)
Fairness ==
    /\ WF_vars(MainStep) /\ WF_vars(WatchdogStops) /\ WF_vars(ProcessEnds)
    /\ \A t \in Threads : SF_vars(CleanStep(t))
    /\ \A d \in Devices : WF_vars(DeviceLeaves(d))

Spec     == Init /\ [][Next]_vars
LiveSpec == Spec /\ Fairness

-----------------------------------------------------------------------------
Steps == {"watch", "prepare", "leftovers", "wait", "open", "create", "check", "plug",
          "recheck", "record", "created", "replug", "close", "stop", "bind", "reopen",
          "started", "install", "menu", "unplugged", "rebuilt", "recreated", "unwrap",
          "disconnect", "unclaim", "appDrop", "letApp", "cleanUp", "flag", "take", "letGo",
          "unplug", "unplugKeyboard", "unplugMouse", "sweep", "unguard", "restore"}

\* Every variable stays within its type, and only what is on the bus can be
\* told to leave it.
TypeOK ==
    /\ env \in SUBSET Behaviours
    /\ steps \in [Threads -> Seq(Steps)]
    /\ kind \in Devices /\ tries \in 1..PlugAttempts
    /\ {ok, refused, was, on, leaving, conn, stale, lamp, lampWas, claim, closing, ended}
         \subseteq BOOLEAN
    /\ refs \subseteq {"app", "shared", "main", "closer"}
    /\ cleaner \in Threads \cup {"nobody"} /\ lock \in Threads \cup {"free"}
    /\ record \subseteq Devices
    /\ bus \subseteq Devices /\ going \subseteq bus /\ theirs \subseteq bus
    /\ watchdog \in {"none", "watching", "stopping"}

Without(bs) == env \cap bs = {}

\* What this copy of the program would leave on the bus for good.
Left == bus \ (going \cup theirs)

\* exit.rs promises: the machine is left the way it was found, however the
\* program ends.
LeftAsFound == ended => Left = {}

\* ghub.rs promises: the LampArray service is started again when the program
\* exits, if it was running when the program arrived.
LampGivenBack == ended /\ lampWas => lamp

\* instance.rs promises: the name is held for as long as this copy runs, so it
\* never takes the devices of a second copy off the bus.
OneCopyAtATime == theirs \cap going = {}

-----------------------------------------------------------------------------
\* emergency_stop found no driver in Shared: it was not there yet, main having
\* it to itself or just handing it over, or release_driver had taken it out.
DriverMissed ==
    \/ refs \cap {"main", "shared"} /= {}
    \/ StepsOf("main") \cap {"unwrap", "disconnect", "unguard"} /= {}

\* A device is left behind only when the window is closed, and then only because
\* the cleanup did not see the driver, the process ends between a plug and the
\* second look at SHUTTING_DOWN, or it ends before the one thread that cleans up
\* has finished.  A device whose plug was checked before the flag went up is
\* always found by the sweep.
OnlyUnfinishedWorkIsLeft ==
    Without({"refuse"}) /\ ended /\ Left /= {} =>
        /\ closing
        /\ \/ DriverMissed
           \/ steps["main"] /= <<>> /\ Head(steps["main"]) = "recheck" /\ Left = {kind}
           \/ cleaner \in Threads /\ steps[cleaner] /= <<>>

InMenu == At("main", "menu") /\ cleaner = "nobody"

\* plug_both_devices and its fallbacks: back in the menu there are two devices
\* or none, exactly those the dashboard shows, and two after a success.
PairOrNothing ==
    Without({"refuse"}) /\ InMenu =>
        /\ record = Left
        /\ record \in {{}, Devices}
        /\ ok => record = Devices /\ conn

\* Nobody waits for what will not come: whoever holds the lock around the record
\* is in the middle of unplug_virtual_devices, where it waits for nothing, and
\* whoever still has to drop the watchdog finds its thread running, for nobody
\* drops it twice.
NobodyWaitsInVain ==
    /\ lock \in Threads =>
          steps[lock] /= <<>> /\ Head(steps[lock]) \in {"unplugKeyboard", "unplugMouse"}
    /\ \A t \in Threads : "unguard" \in StepsOf(t) => watchdog /= "none"

\* Even when Windows refuses to take a device away, a device of this session
\* stays in the record, so that the next unplug or the exit asks for it again.
NothingUnrecorded == InMenu => Left \subseteq record

-----------------------------------------------------------------------------
\* The handler always gets to its end: neither the lock around the record nor
\* the watchdog's last look can keep the window from closing.
CloseEnds == closing ~> ended

\* Whatever is asked of main it comes back from, to the menu or out of run().
MainComesBack == []<>(ended \/ At("main", "menu"))

=============================================================================
