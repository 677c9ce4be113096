-------------------------- MODULE KeyboardRedirect --------------------------
(***************************************************************************)
(* The keyboard half of the redirect (redirect/mod.rs): the low-level hook *)
(* decides, for every key event, whether Windows keeps it or whether it is *)
(* swallowed and replayed on the virtual keyboard.  Four actors share one  *)
(* Mutex<Shared> and the lock around the driver's connection:              *)
(*                                                                         *)
(*   - the hook thread, which runs on_key for one event at a time and lets *)
(*     go of Shared between deciding, sending and remembering;             *)
(*   - the UI thread, which switches the redirect and looks at the driver; *)
(*   - the console handler, which runs emergency_stop when the window goes;*)
(*   - the user and the virtual keyboard, whose events reach the hook      *)
(*     through two queues that Windows interleaves as it likes.            *)
(*                                                                         *)
(* Each critical section of Shared is one action.  Keys without a HID      *)
(* usage, which on_key passes on untouched, and the statistics are left    *)
(* out.  A key press of the virtual keyboard is an event of the key that   *)
(* its report adds or drops.                                               *)
(***************************************************************************)
EXTENDS Naturals, FiniteSets, Sequences, SequencesExt

CONSTANTS
    Keys,            \* keys that can be redirected
    Mods,            \* Ctrl, Shift, Alt and Win, each side apart
    MaxPressedKeys,  \* slots of a boot keyboard report (6 in the code)
    MaxPending,      \* echoes that may pile up for one key (8 in the code)
    MaxInFlight,     \* bound: the user and the UI wait while this many events are queued
    Surroundings     \* the sets of Behaviours a run looks at, each from start to end

(***************************************************************************)
(* What the surroundings may do beyond pressing and releasing keys.        *)
(*   off       the redirect is switched off, not only on                   *)
(*   race      it is switched while the hook is in the middle of an event  *)
(*   repeat    a held key repeats, once all it caused before has settled   *)
(*   burst     a held key repeats before the echo of its press is back     *)
(*   contend   the UI thread takes the connection lock for something else  *)
(*             (status(), release_mouse_waiting())                         *)
(*   refuse    the driver turns a report down                              *)
(*   late      an echo takes longer than ECHO_LIFETIME                     *)
(*   elsewhere a modifier moves while another desktop has the keyboard     *)
(*   close     the console window is closed                                *)
(***************************************************************************)
Behaviours ==
    {"off", "race", "repeat", "burst", "contend", "refuse", "late", "elsewhere", "close"}

AllKeys == Keys \cup Mods
Slots   == AllKeys \X BOOLEAN
Event   == [key : AllKeys, down : BOOLEAN]

ASSUME KeysAssumption   == Keys /= {} /\ IsFiniteSet(Keys) /\ Keys \cap Mods = {}
ASSUME LimitsAssumption == /\ MaxPressedKeys \in Nat \ {0}
                           /\ MaxPending \in Nat \ {0}
                           /\ MaxInFlight \in Nat \ {0}
ASSUME EnvAssumption    == Surroundings \subseteq SUBSET Behaviours

VARIABLES
    env,       \* the behaviours of this run, chosen once
    enabled,   \* Shared.keyboard_enabled
    driver,    \* Shared.driver is Some
    keyboard,  \* Shared.keyboard, as the set of keys in its slots
    combo,     \* Shared.combo.held_modifiers
    echo,      \* Shared.echo.keys: the count owed for each key and direction
    stale,     \* the slots of echo whose deadline has passed
    hook,      \* the hook thread: where it is in on_key, for which event
    ui,        \* the UI thread: where it is in set_keyboard
    closer,    \* the console handler: where it is in emergency_stop
    conn,      \* who holds the lock around the connection
    plugged,   \* the virtual keyboard is on the bus
    dev,       \* the last report the virtual keyboard took
    virtQ,     \* what the virtual keyboard has typed, not yet at the hook
    physQ,     \* what the user has typed, not yet at the hook
    phys,      \* keys the user holds down
    apps       \* keys Windows and its applications believe held down

shared   == <<enabled, driver, keyboard, combo, echo, stale>>
device   == <<plugged, dev, virtQ>>
user     == <<phys, physQ>>
vars     == <<env, shared, hook, ui, closer, conn, device, user, apps>>

HookPlaces == {"idle", "send", "remember", "undo",
               "repeatUp", "repeatDown", "repeatNote"}

\* Between two events the locals of on_key are gone.
Resting == [pc |-> "idle", event |-> CHOOSE e \in Event : TRUE, report |-> {}]

Init ==
    /\ env \in Surroundings
    /\ enabled = FALSE
    /\ driver = TRUE
    /\ keyboard = {}
    /\ combo = {}
    /\ echo = [s \in Slots |-> 0]
    /\ stale = {}
    /\ hook = Resting
    /\ ui = "idle"
    /\ closer = "idle"
    /\ conn = "free"
    /\ plugged = TRUE
    /\ dev = {}
    /\ virtQ = <<>>
    /\ physQ = <<>>
    /\ phys = {}
    /\ apps = {}

-----------------------------------------------------------------------------
\* The virtual keyboard: it types the difference between two reports.

Ups(keys)   == SetToSeq([key : keys, down : {FALSE}])
Downs(keys) == SetToSeq([key : keys, down : {TRUE}])

Takes(report) ==
    /\ dev' = report
    /\ virtQ' = virtQ \o Ups(dev \ report) \o Downs(report \ dev)
    /\ UNCHANGED plugged

\* Devices::send_keyboard, once the lock is held: the report arrives or it does not.
Delivered(report) == plugged /\ Takes(report)
TurnedDown        == (~plugged \/ "refuse" \in env) /\ UNCHANGED device

\* Driver::send_keyboard never waits: a lock somebody holds is an error.
SendNow(report) == conn = "free" /\ Delivered(report)
SendFails       == (conn /= "free" \/ ~plugged \/ "refuse" \in env) /\ UNCHANGED device

-----------------------------------------------------------------------------
\* The echo filter, the shortcut watcher and the report.

\* MUTANT: press and release are not counted apart.
MutantSlot(e) == <<e.key, TRUE>>

Slot(e) == <<e.key, e.down>>

\* decrement: a stale count is dropped whole and matches nothing.
Matches(s) == echo[s] > 0 /\ s \notin stale
Take(s) ==
    /\ echo' = [echo EXCEPT ![s] = IF Matches(s) THEN @ - 1 ELSE 0]
    /\ stale' = IF Matches(s) THEN stale ELSE stale \ {s}

\* MUTANT: the cap of MAX_PENDING is forgotten.
MutantGrown(n) == n + 1

\* increment: the count there is, stale or not, grows and its deadline moves.
Grown(n) == IF n < MaxPending THEN n + 1 ELSE MaxPending
ExpectAll(slots) ==
    /\ echo' = [s \in Slots |-> IF s \in slots THEN Grown(echo[s]) ELSE echo[s]]
    /\ stale' = stale \ slots

Note(e) == IF e.down THEN combo \cup {e.key} ELSE combo \ {e.key}

\* press_belongs_to_shortcut: the modifiers Windows still reports as held.
StillHeld == combo \cap apps

\* KeyboardReport::press has room for the key, or holds it already.
HasRoom(k) == k \in keyboard \/ Cardinality(keyboard) < MaxPressedKeys

\* MUTANT: switching off keeps the echoes that were owed.
MutantClearKeysKeepsEchoes ==
    /\ keyboard' = {}
    /\ combo' = {}
    /\ UNCHANGED <<echo, stale>>

ClearKeys ==
    /\ keyboard' = {}
    /\ combo' = {}
    /\ echo' = [s \in Slots |-> 0]
    /\ stale' = {}

-----------------------------------------------------------------------------
\* The hook thread: on_key.

\* PassThrough: the event goes on to Windows, and the hook is done with it.
Pass(e) ==
    /\ apps' = IF e.down THEN apps \cup {e.key} ELSE apps \ {e.key}
    /\ hook' = Resting

\* Swallow: Windows never sees the event.
Swallow == hook' = Resting /\ UNCHANGED apps

Proceed(pc, e, report) ==
    /\ hook' = [pc |-> pc, event |-> e, report |-> report]
    /\ UNCHANGED apps

At(pc) == hook' = [hook EXCEPT !.pc = pc] /\ UNCHANGED apps

DecidePress(e) ==
    /\ e.key \in Keys /\ e.down
    /\ combo' = StillHeld
    /\ UNCHANGED keyboard
    /\ \/ StillHeld /= {} /\ Pass(e)
       \/ StillHeld = {} /\ ~HasRoom(e.key) /\ Pass(e)
       \/ StillHeld = {} /\ e.key \in keyboard /\ Proceed("repeatUp", e, keyboard)
       \/ /\ StillHeld = {} /\ e.key \notin keyboard /\ HasRoom(e.key)
          /\ Proceed("send", e, keyboard \cup {e.key})

\* MUTANT: a release under a modifier is taken for part of the shortcut.
MutantDecideRelease(e) ==
    /\ e.key \in Keys /\ ~e.down
    /\ combo' = StillHeld /\ UNCHANGED keyboard
    /\ \/ StillHeld = {} /\ e.key \in keyboard /\ Proceed("send", e, keyboard \ {e.key})
       \/ (StillHeld /= {} \/ e.key \notin keyboard) /\ Pass(e)

\* MUTANT: the release of a key the device never pressed is swallowed.
MutantDecideReleaseSwallows(e) ==
    /\ e.key \in Keys /\ ~e.down
    /\ UNCHANGED <<combo, keyboard>>
    /\ \/ e.key \in keyboard /\ Proceed("send", e, keyboard \ {e.key})
       \/ e.key \notin keyboard /\ Swallow

DecideRelease(e) ==
    /\ e.key \in Keys /\ ~e.down
    /\ UNCHANGED <<combo, keyboard>>
    /\ \/ e.key \in keyboard /\ Proceed("send", e, keyboard \ {e.key})
       \/ e.key \notin keyboard /\ Pass(e)

DecideKey(e) ==
    /\ Take(Slot(e))
    /\ \/ Matches(Slot(e)) /\ Pass(e) /\ UNCHANGED <<combo, keyboard>>
       \/ /\ ~Matches(Slot(e)) /\ e.key \in Mods
          /\ combo' = Note(e) /\ Pass(e) /\ UNCHANGED keyboard
       \/ ~Matches(Slot(e)) /\ DecidePress(e)
       \/ ~Matches(Slot(e)) /\ DecideRelease(e)

OnKey(e) ==
    /\ hook.pc = "idle"
    /\ \/ enabled /\ driver /\ DecideKey(e) /\ UNCHANGED <<enabled, driver>>
       \/ ~(enabled /\ driver) /\ Pass(e) /\ UNCHANGED shared
    /\ UNCHANGED <<env, ui, closer, conn, plugged, dev, phys>>

HookGetsKey ==
    /\ physQ /= <<>> /\ OnKey(Head(physQ))
    /\ physQ' = Tail(physQ) /\ UNCHANGED virtQ

HookGetsEcho ==
    /\ virtQ /= <<>> /\ OnKey(Head(virtQ))
    /\ virtQ' = Tail(virtQ) /\ UNCHANGED physQ

HookSend ==
    /\ hook.pc = "send"
    /\ \/ SendNow(hook.report) /\ At("remember")
       \/ SendFails /\ Pass(hook.event)
    /\ UNCHANGED <<env, shared, ui, closer, conn, user>>

\* MUTANT: a press is sent and counted but never written into the report.
MutantRememberForgets ==
    /\ hook.pc = "remember"
    /\ \/ enabled /\ ExpectAll({Slot(hook.event)}) /\ Swallow
       \/ ~enabled /\ At("undo") /\ UNCHANGED <<echo, stale>>
    /\ UNCHANGED <<env, enabled, driver, keyboard, combo, ui, closer, conn, device, user>>

\* MUTANT: keyboard_enabled is not looked at again after sending.
MutantRememberNoCheck ==
    /\ hook.pc = "remember"
    /\ keyboard' = hook.report
    /\ ExpectAll({Slot(hook.event)})
    /\ Swallow
    /\ UNCHANGED <<env, enabled, driver, combo, ui, closer, conn, device, user>>

\* MUTANT: the echo of what was sent is not expected.
MutantRememberNoEcho ==
    /\ hook.pc = "remember"
    /\ \/ enabled /\ keyboard' = hook.report /\ Swallow
       \/ ~enabled /\ At("undo") /\ UNCHANGED keyboard
    /\ UNCHANGED <<env, enabled, driver, combo, echo, stale, ui, closer, conn, device, user>>

\* remember_key: what was sent is kept only if the redirect is still on.
HookRemember ==
    /\ hook.pc = "remember"
    /\ \/ /\ enabled
          /\ keyboard' = hook.report
          /\ ExpectAll({Slot(hook.event)})
          /\ Swallow
       \/ ~enabled /\ At("undo") /\ UNCHANGED <<keyboard, echo, stale>>
    /\ UNCHANGED <<env, enabled, driver, combo, ui, closer, conn, device, user>>

\* MUTANT: the undo is left out.
MutantUndo ==
    /\ hook.pc = "undo"
    /\ Swallow
    /\ UNCHANGED <<env, shared, ui, closer, conn, device, user>>

HookUndo ==
    /\ hook.pc = "undo"
    /\ SendNow({}) \/ SendFails
    /\ Swallow
    /\ UNCHANGED <<env, shared, ui, closer, conn, user>>

\* KeyOutcome::Repeat: let the key go and press it again, then count both.
HookRepeatUp ==
    /\ hook.pc = "repeatUp"
    /\ SendNow(hook.report \ {hook.event.key}) \/ SendFails
    /\ At("repeatDown")
    /\ UNCHANGED <<env, shared, ui, closer, conn, user>>

HookRepeatDown ==
    /\ hook.pc = "repeatDown"
    /\ \/ SendNow(hook.report) /\ At("repeatNote")
       \/ SendFails /\ Pass(hook.event)
    /\ UNCHANGED <<env, shared, ui, closer, conn, user>>

HookRepeatNote ==
    /\ hook.pc = "repeatNote"
    /\ ExpectAll({hook.event.key} \X BOOLEAN)
    /\ Swallow
    /\ UNCHANGED <<env, enabled, driver, keyboard, combo, ui, closer, conn, device, user>>

HookStep == \/ HookSend \/ HookRemember \/ HookUndo
            \/ HookRepeatUp \/ HookRepeatDown \/ HookRepeatNote

-----------------------------------------------------------------------------
\* The UI thread.

Calm == Len(physQ) + Len(virtQ) < MaxInFlight

MaySwitch == ui = "idle" /\ Calm /\ ("race" \in env \/ hook.pc = "idle")

\* set_keyboard(TRUE), or toggle_keyboard finding it off.
UiOn ==
    /\ MaySwitch
    /\ enabled' = TRUE
    /\ UNCHANGED <<env, driver, keyboard, combo, echo, stale, hook, ui, closer, conn,
                   device, user, apps>>

\* MUTANT: switching off wipes the record and leaves the device as it is.
MutantUiOff ==
    /\ "off" \in env /\ MaySwitch
    /\ enabled' = FALSE
    /\ ClearKeys
    /\ UNCHANGED <<env, driver, hook, ui, closer, conn, device, user, apps>>

\* set_keyboard(FALSE), toggle_keyboard finding it on, or Engine::stop: the
\* record is wiped under the lock of Shared, the device released after it.
UiOff ==
    /\ "off" \in env /\ MaySwitch
    /\ enabled' = FALSE
    /\ ClearKeys
    /\ ui' = IF driver THEN "release" ELSE "idle"
    /\ UNCHANGED <<env, driver, hook, closer, conn, device, user, apps>>

UiLocks ==
    /\ ui = "release" /\ conn = "free"
    /\ ui' = "releasing" /\ conn' = "ui"
    /\ UNCHANGED <<env, shared, hook, closer, device, user, apps>>

UiReleases ==
    /\ ui = "releasing"
    /\ Delivered({}) \/ TurnedDown
    /\ ui' = "idle" /\ conn' = "free"
    /\ UNCHANGED <<env, shared, hook, closer, user, apps>>

\* The connection lock taken for anything that leaves the keyboard alone.
UiBusy ==
    /\ "contend" \in env /\ ui = "idle" /\ conn = "free"
    /\ ui' = "busy" /\ conn' = "ui"
    /\ UNCHANGED <<env, shared, hook, closer, device, user, apps>>

UiDone ==
    /\ ui = "busy"
    /\ ui' = "idle" /\ conn' = "free"
    /\ UNCHANGED <<env, shared, hook, closer, device, user, apps>>

-----------------------------------------------------------------------------
\* The console handler: emergency_stop, then Driver::park if it got the driver.

CloseStops ==
    /\ "close" \in env /\ closer = "idle"
    /\ enabled' = FALSE
    /\ ClearKeys
    /\ driver' = FALSE
    /\ closer' = IF driver THEN "release" ELSE "done"
    /\ UNCHANGED <<env, hook, ui, conn, device, user, apps>>

CloseReleases ==
    /\ closer = "release"
    /\ SendNow({}) \/ SendFails
    /\ closer' = "unplug"
    /\ UNCHANGED <<env, shared, hook, ui, conn, user, apps>>

\* A keyboard that has left the bus holds nothing and types nothing more.
CloseUnplugs ==
    /\ closer = "unplug" /\ conn = "free"
    /\ plugged' = FALSE /\ dev' = {} /\ UNCHANGED virtQ
    /\ closer' = "done"
    /\ UNCHANGED <<env, shared, hook, ui, conn, user, apps>>

-----------------------------------------------------------------------------
\* The user and the clock.

Type(e) == physQ' = Append(physQ, e)

UserMoves(k) ==
    /\ Calm
    /\ phys' = IF k \in phys THEN phys \ {k} ELSE phys \cup {k}
    /\ Type([key |-> k, down |-> k \notin phys])
    /\ UNCHANGED <<env, shared, hook, ui, closer, conn, device, apps>>

KeyRepeats(k) ==
    /\ k \in phys
    /\ \/ "repeat" \in env /\ hook.pc = "idle" /\ virtQ = <<>> /\ physQ = <<>>
       \/ "burst" \in env /\ Calm
    /\ Type([key |-> k, down |-> TRUE])
    /\ UNCHANGED <<env, shared, hook, ui, closer, conn, device, phys, apps>>

\* Another desktop had the keyboard: Windows knows, the hook was never called.
\* Whatever was typed before has reached it by then.
ModifierMovesElsewhere(m) ==
    /\ "elsewhere" \in env /\ physQ = <<>> /\ virtQ = <<>> /\ hook.pc = "idle"
    /\ phys' = IF m \in phys THEN phys \ {m} ELSE phys \cup {m}
    /\ apps' = IF m \in phys THEN apps \ {m} ELSE apps \cup {m}
    /\ UNCHANGED <<env, shared, hook, ui, closer, conn, device, physQ>>

\* ECHO_LIFETIME goes by since the slot was last counted.
EchoLapses(s) ==
    /\ "late" \in env /\ echo[s] > 0 /\ s \notin stale
    /\ stale' = stale \cup {s}
    /\ UNCHANGED <<env, enabled, driver, keyboard, combo, echo, hook, ui, closer, conn,
                   device, user, apps>>

-----------------------------------------------------------------------------
Ui    == UiOn \/ UiOff \/ UiLocks \/ UiReleases \/ UiBusy \/ UiDone
Close == CloseStops \/ CloseReleases \/ CloseUnplugs
World == \/ \E k \in AllKeys : UserMoves(k) \/ KeyRepeats(k)
         \/ \E m \in Mods : ModifierMovesElsewhere(m)
         \/ \E s \in Slots : EchoLapses(s)

Next == HookGetsKey \/ HookGetsEcho \/ HookStep \/ Ui \/ Close \/ World

(***************************************************************************)
(* A callback that has started runs to its end, and so does whatever the   *)
(* UI thread and the handler have started; Windows delivers every queued   *)
(* event, however busy the other queue is.  Nobody has to press a key,     *)
(* switch the redirect or close the window.                                *)
(***************************************************************************)
Fairness ==
    /\ WF_vars(HookStep)
    /\ SF_vars(HookGetsKey) /\ SF_vars(HookGetsEcho)
    /\ SF_vars(UiLocks) /\ WF_vars(UiReleases)
    /\ WF_vars(UiDone)
    /\ WF_vars(CloseReleases) /\ SF_vars(CloseUnplugs)

Spec     == Init /\ [][Next]_vars
LiveSpec == Spec /\ Fairness

-----------------------------------------------------------------------------
\* Every variable stays within its type: the report within its slots, the
\* counts of the echo filter within MAX_PENDING, each thread at a place it has.
TypeOK ==
    /\ env \in SUBSET Behaviours
    /\ enabled \in BOOLEAN /\ driver \in BOOLEAN
    /\ keyboard \in SUBSET Keys /\ combo \in SUBSET Mods
    /\ echo \in [Slots -> 0..MaxPending] /\ stale \in SUBSET Slots
    /\ hook \in [pc : HookPlaces, event : Event, report : SUBSET Keys]
    /\ ui \in {"idle", "release", "releasing", "busy"}
    /\ closer \in {"idle", "release", "unplug", "done"}
    /\ conn \in {"free", "ui"}
    /\ plugged \in BOOLEAN /\ dev \in SUBSET Keys
    /\ virtQ \in Seq([key : Keys, down : BOOLEAN])
    /\ physQ \in Seq(Event)
    /\ phys \in SUBSET AllKeys /\ apps \in SUBSET AllKeys

Without(bs) == env \cap bs = {}

\* Nobody is in the middle of anything that touches the device.
Settled == hook.pc = "idle" /\ ui \in {"idle", "busy"} /\ closer \in {"idle", "done"}

\* ... and nothing is on its way to the hook either.
Quiet == Settled /\ physQ = <<>> /\ virtQ = <<>>

\* What the README promises of the switch (actions.rs, KEYBOARD_OFF): once the
\* keyboard is off and everybody is done, the virtual one holds no key.
OffHoldsNothing == Settled /\ ~enabled => dev = {}

\* What the test no_stream_of_keys_can_leave_one_held_on_the_device promises:
\* once every event has been dealt with, the device holds only what the user does.
NothingStuck == Quiet /\ plugged => dev \subseteq phys

-----------------------------------------------------------------------------
\* KeyboardReport::holds relies on it: whatever the device holds between two
\* events is in the record, so its release will be replayed and not passed on.
\* Needs the switch to leave a running callback alone and no report refused.
RecordCoversDevice ==
    Without({"race", "refuse"}) => (Settled => dev \subseteq keyboard)

\* The same for a redirect that is off, whose record is empty.
OffReleasesAll == Without({"race", "refuse"}) => OffHoldsNothing

\* on_key and the queues together: when all is done no key stays down on the
\* virtual keyboard that the user has let go, whatever the two queues' order ...
NoKeyLeftOnDevice ==
    Without({"race", "refuse", "contend", "burst", "late"}) => NothingStuck

\* ... and no application is left with a key down that the user has let go.
NoKeyLeftInApps ==
    Without({"race", "refuse", "contend", "burst", "late"}) =>
        (Quiet /\ plugged => apps \subseteq phys)

\* EchoFilter: no more echoes are expected than are under way, so a real key
\* press is never let through as an echo of a report that produced none.
NoPhantomEcho ==
    Without({"race", "refuse", "contend"}) =>
        (hook.pc = "idle" /\ driver => \A s \in Slots \ stale :
            echo[s] <= Cardinality({i \in DOMAIN virtQ : Slot(virtQ[i]) = s}))

\* remember_key gives its undo up when the lock is taken.  That is safe only
\* because whoever holds the lock is about to release the keyboard itself.
UndoIsNeverLost ==
    [][HookUndo /\ Without({"refuse", "contend"}) => dev' = {} \/ ui = "releasing"]_vars

\* However the switch and the hook interleave, a redirect that is off never
\* comes to hold a key except at the end of a KeyOutcome::Repeat, the one path
\* of on_key that does not look at keyboard_enabled again after sending.
OnlyARepeatOutlivesOff ==
    [][(Without({"refuse", "contend"}) /\ OffHoldsNothing /\ ~OffHoldsNothing')
         => hook.pc = "repeatNote"]_vars

\* The note on the screen (screen.rs): combinations with a modifier are left to
\* the real keyboard, so no press is replayed while Windows sees one held.
CombinationsAreReal ==
    [][hook.pc = "idle" /\ hook'.pc = "send" /\ hook'.event.down => apps \cap Mods = {}]_vars

-----------------------------------------------------------------------------
Nobody == <>[][~(World \/ UiOn \/ UiOff \/ UiBusy \/ CloseStops)]_vars

\* The redirect does not feed itself: once nobody touches a key or the switch,
\* the echoes of its own reports run out and every thread comes to rest.
EchoesRunOut == Nobody => <>[]Quiet

\* A key the user lets go comes up for the applications too, by one route or
\* the other, or is pressed again.
ReleaseReachesApps ==
    \A k \in AllKeys : k \notin phys ~> (k \notin apps \/ k \in phys \/ ~plugged)

=============================================================================
