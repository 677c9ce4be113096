---------------------------- MODULE MouseRedirect ----------------------------
(***************************************************************************)
(* The mouse half of the redirect (redirect/mod.rs).  It is built like the *)
(* keyboard half and shares its actors, its locks and the hook thread, but *)
(* differs where it matters: there is no shortcut to leave alone, every    *)
(* button has a place in the report, and the press of a button that the    *)
(* record already holds sends the same report again, which types nothing.  *)
(*                                                                         *)
(* Each critical section of Shared is one action.  Movement and the wheel, *)
(* which mouse_hook passes on, and the statistics are left out.  A button  *)
(* event of the virtual mouse is one that its report adds or drops.        *)
(***************************************************************************)
EXTENDS Naturals, FiniteSets, Sequences, SequencesExt

CONSTANTS
    Buttons,      \* the bits of MouseButtons
    Mice,         \* the real mice on the desk
    MaxPending,   \* echoes that may pile up for one button (8 in the code)
    MaxInFlight,  \* bound: the user and the UI wait while this many events are queued
    Surroundings  \* the sets of Behaviours a run looks at, each from start to end

(***************************************************************************)
(* What the surroundings may do beyond pressing and releasing buttons.     *)
(*   off       the redirect is switched off, not only on                   *)
(*   race      it is switched while the hook is in the middle of an event  *)
(*   contend   the UI thread takes the connection lock for something else  *)
(*   refuse    the driver turns a report down                              *)
(*   late      an echo takes longer than ECHO_LIFETIME                     *)
(*   both      more than one mouse is used, perhaps for the same button    *)
(*   unheard   an event does not reach the hook, because another desktop   *)
(*             has the mouse or Windows has dropped the hook               *)
(*   close     the console window is closed                                *)
(***************************************************************************)
Behaviours == {"off", "race", "contend", "refuse", "late", "both", "unheard", "close"}

Slots == Buttons \X BOOLEAN
Event == [button : Buttons, down : BOOLEAN]

ASSUME ButtonsAssumption == Buttons /= {} /\ IsFiniteSet(Buttons)
ASSUME LimitsAssumption  == MaxPending \in Nat \ {0} /\ MaxInFlight \in Nat \ {0}
ASSUME EnvAssumption     == Surroundings \subseteq SUBSET Behaviours

VARIABLES
    env,      \* the behaviours of this run, chosen once
    enabled,  \* Shared.mouse_enabled
    driver,   \* Shared.driver is Some
    buttons,  \* Shared.buttons, as a set
    echo,     \* Shared.echo.buttons: the count owed for each button and direction
    stale,    \* the slots of echo whose deadline has passed
    hook,     \* the hook thread: where it is in on_button, for which event
    ui,       \* the UI thread: where it is in set_mouse
    closer,   \* the console handler: where it is in emergency_stop
    conn,     \* who holds the lock around the connection
    plugged,  \* the virtual mouse is on the bus
    dev,      \* the buttons of the last report the virtual mouse took
    virtQ,    \* what the virtual mouse has clicked, not yet at the hook
    physQ,    \* what the user has clicked, not yet at the hook
    phys,     \* which button of which mouse the user holds down
    apps      \* buttons Windows and its applications believe held down

shared == <<enabled, driver, buttons, echo, stale>>
device == <<plugged, dev, virtQ>>
user   == <<phys, physQ>>
vars   == <<env, shared, hook, ui, closer, conn, device, user, apps>>

\* Between two events the locals of on_button are gone.
Resting == [pc |-> "idle", event |-> CHOOSE e \in Event : TRUE, report |-> {}]

Init ==
    /\ env \in Surroundings
    /\ enabled = FALSE
    /\ driver = TRUE
    /\ buttons = {}
    /\ echo = [s \in Slots |-> 0]
    /\ stale = {}
    /\ hook = Resting
    /\ ui = "idle"
    /\ closer = "idle"
    /\ conn = "free"
    /\ plugged = TRUE
    /\ dev = {}
    /\ virtQ = <<>>
    /\ physQ = <<>>
    /\ phys = {}
    /\ apps = {}

-----------------------------------------------------------------------------
\* The virtual mouse: it clicks the difference between two reports.

Edges(held, d) == SetToSeq([button : held, down : {d}])

Takes(report) ==
    /\ dev' = report
    /\ virtQ' = virtQ \o Edges(dev \ report, FALSE) \o Edges(report \ dev, TRUE)
    /\ UNCHANGED plugged

\* Devices::send_mouse, once the lock is held: the report arrives or it does not.
Delivered(report) == plugged /\ Takes(report)
TurnedDown        == (~plugged \/ "refuse" \in env) /\ UNCHANGED device

\* Driver::send_mouse never waits: a lock somebody holds is an error.
SendNow(report) == conn = "free" /\ Delivered(report)
SendFails       == (conn /= "free" \/ ~plugged \/ "refuse" \in env) /\ UNCHANGED device

-----------------------------------------------------------------------------
\* The echo filter: the button slots.

Slot(e) == <<e.button, e.down>>

\* decrement: a stale count is dropped whole and matches nothing.
Matches(s) == echo[s] > 0 /\ s \notin stale

Take(s) ==
    /\ echo' = [echo EXCEPT ![s] = IF Matches(s) THEN @ - 1 ELSE 0]
    /\ stale' = IF Matches(s) THEN stale ELSE stale \ {s}

\* increment: the count there is, stale or not, grows and its deadline moves.
Expect(s) ==
    /\ echo' = [echo EXCEPT ![s] = IF @ < MaxPending THEN @ + 1 ELSE MaxPending]
    /\ stale' = stale \ {s}

\* MUTANT: the record outlives the switch, and the next report has it again.
MutantClearButtons ==
    /\ UNCHANGED buttons
    /\ echo' = [s \in Slots |-> 0]
    /\ stale' = {}

ClearButtons ==
    /\ buttons' = {}
    /\ echo' = [s \in Slots |-> 0]
    /\ stale' = {}

-----------------------------------------------------------------------------
\* The hook thread: on_button.

\* PassThrough: the event goes on to Windows, and the hook is done with it.
Pass(e) ==
    /\ apps' = IF e.down THEN apps \cup {e.button} ELSE apps \ {e.button}
    /\ hook' = Resting

\* Swallow: Windows never sees the event.
Swallow == hook' = Resting /\ UNCHANGED apps

At(pc) == hook' = [hook EXCEPT !.pc = pc] /\ UNCHANGED apps

\* MUTANT: a release is replayed whether the record holds the button or not.
MutantIsReplayed(e) == ~Matches(Slot(e))

\* decide_button: an echo passes, and so does the release of a button not held.
IsReplayed(e) == ~Matches(Slot(e)) /\ (e.down \/ e.button \in buttons)

ReportAfter(e) == IF e.down THEN buttons \cup {e.button} ELSE buttons \ {e.button}

DecideButton(e) ==
    /\ Take(Slot(e))
    /\ \/ /\ IsReplayed(e)
          /\ hook' = [pc |-> "send", event |-> e, report |-> ReportAfter(e)]
          /\ UNCHANGED apps
       \/ ~IsReplayed(e) /\ Pass(e)

OnButton(e) ==
    /\ hook.pc = "idle"
    /\ \/ enabled /\ driver /\ DecideButton(e) /\ UNCHANGED <<enabled, driver, buttons>>
       \/ ~(enabled /\ driver) /\ Pass(e) /\ UNCHANGED shared
    /\ UNCHANGED <<env, ui, closer, conn, plugged, dev, phys>>

HookGetsButton ==
    /\ physQ /= <<>> /\ OnButton(Head(physQ))
    /\ physQ' = Tail(physQ) /\ UNCHANGED virtQ

HookGetsEcho ==
    /\ virtQ /= <<>> /\ OnButton(Head(virtQ))
    /\ virtQ' = Tail(virtQ) /\ UNCHANGED physQ

\* Nobody calls mouse_hook: the event goes where it would without the program.
HookMissesEvent ==
    /\ "unheard" \in env /\ hook.pc = "idle"
    /\ \/ physQ /= <<>> /\ Pass(Head(physQ)) /\ physQ' = Tail(physQ) /\ UNCHANGED virtQ
       \/ virtQ /= <<>> /\ Pass(Head(virtQ)) /\ virtQ' = Tail(virtQ) /\ UNCHANGED physQ
    /\ UNCHANGED <<env, shared, ui, closer, conn, plugged, dev, phys>>

HookSend ==
    /\ hook.pc = "send"
    /\ \/ SendNow(hook.report) /\ At("remember")
       \/ SendFails /\ Pass(hook.event)
    /\ UNCHANGED <<env, shared, ui, closer, conn, user>>

\* MUTANT: Shared is kept locked while sending, and the second look waits for it.
MutantHookRememberStuck ==
    /\ hook.pc = "remember"
    /\ At("remember")
    /\ UNCHANGED <<env, shared, ui, closer, conn, device, user>>

\* MUTANT: what was sent is counted but not written into the record.
MutantHookRememberForgets ==
    /\ hook.pc = "remember"
    /\ \/ enabled /\ Expect(Slot(hook.event)) /\ Swallow
       \/ ~enabled /\ At("undo") /\ UNCHANGED <<echo, stale>>
    /\ UNCHANGED <<env, enabled, driver, buttons, ui, closer, conn, device, user>>

\* MUTANT: mouse_enabled is not looked at again after sending.
MutantHookRememberNoCheck ==
    /\ hook.pc = "remember"
    /\ buttons' = hook.report /\ Expect(Slot(hook.event)) /\ Swallow
    /\ UNCHANGED <<env, enabled, driver, ui, closer, conn, device, user>>

\* remember_button: what was sent is kept only if the redirect is still on.
HookRemember ==
    /\ hook.pc = "remember"
    /\ \/ enabled /\ buttons' = hook.report /\ Expect(Slot(hook.event)) /\ Swallow
       \/ ~enabled /\ At("undo") /\ UNCHANGED <<buttons, echo, stale>>
    /\ UNCHANGED <<env, enabled, driver, ui, closer, conn, device, user>>

HookUndo ==
    /\ hook.pc = "undo"
    /\ SendNow({}) \/ SendFails
    /\ Swallow
    /\ UNCHANGED <<env, shared, ui, closer, conn, user>>

HookStep == HookSend \/ HookRemember \/ HookUndo

-----------------------------------------------------------------------------
\* The UI thread.

Calm == Len(physQ) + Len(virtQ) < MaxInFlight

MaySwitch == ui = "idle" /\ Calm /\ ("race" \in env \/ hook.pc = "idle")

\* set_mouse(TRUE), or toggle_mouse finding it off.
UiOn ==
    /\ MaySwitch
    /\ enabled' = TRUE
    /\ UNCHANGED <<env, driver, buttons, echo, stale, hook, ui, closer, conn,
                   device, user, apps>>

\* set_mouse(FALSE), toggle_mouse finding it on, or Engine::stop: the record
\* is wiped under the lock of Shared, the device released after it.
UiOff ==
    /\ "off" \in env /\ MaySwitch
    /\ enabled' = FALSE
    /\ ClearButtons
    /\ ui' = IF driver THEN "release" ELSE "idle"
    /\ UNCHANGED <<env, driver, hook, closer, conn, device, user, apps>>

UiLocks ==
    /\ ui = "release" /\ conn = "free"
    /\ ui' = "releasing" /\ conn' = "ui"
    /\ UNCHANGED <<env, shared, hook, closer, device, user, apps>>

UiReleases ==
    /\ ui = "releasing"
    /\ Delivered({}) \/ TurnedDown
    /\ ui' = "idle" /\ conn' = "free"
    /\ UNCHANGED <<env, shared, hook, closer, user, apps>>

\* The connection lock taken for anything that leaves the mouse alone.
UiBusy ==
    /\ "contend" \in env /\ ui = "idle" /\ conn = "free"
    /\ ui' = "busy" /\ conn' = "ui"
    /\ UNCHANGED <<env, shared, hook, closer, device, user, apps>>

UiDone ==
    /\ ui = "busy"
    /\ ui' = "idle" /\ conn' = "free"
    /\ UNCHANGED <<env, shared, hook, closer, device, user, apps>>

-----------------------------------------------------------------------------
\* The console handler: emergency_stop, then Driver::park if it got the driver.

CloseStops ==
    /\ "close" \in env /\ closer = "idle"
    /\ enabled' = FALSE
    /\ ClearButtons
    /\ driver' = FALSE
    /\ closer' = IF driver THEN "release" ELSE "done"
    /\ UNCHANGED <<env, hook, ui, conn, device, user, apps>>

CloseReleases ==
    /\ closer = "release"
    /\ SendNow({}) \/ SendFails
    /\ closer' = "unplug"
    /\ UNCHANGED <<env, shared, hook, ui, conn, user, apps>>

\* A mouse that has left the bus holds nothing and clicks nothing more.
CloseUnplugs ==
    /\ closer = "unplug" /\ conn = "free"
    /\ plugged' = FALSE /\ dev' = {} /\ UNCHANGED virtQ
    /\ closer' = "done"
    /\ UNCHANGED <<env, shared, hook, ui, conn, user, apps>>

-----------------------------------------------------------------------------
\* The user and the clock.

HeldBy(held) == {hb[2] : hb \in held}

MayUse(mouse) == "both" \in env \/ mouse = CHOOSE m \in Mice : TRUE

Flip(mb) == IF mb \in phys THEN phys \ {mb} ELSE phys \cup {mb}

UserClicks(mb) ==
    /\ Calm /\ MayUse(mb[1])
    /\ phys' = Flip(mb)
    /\ physQ' = Append(physQ, [button |-> mb[2], down |-> mb \notin phys])
    /\ UNCHANGED <<env, shared, hook, ui, closer, conn, device, apps>>

\* ECHO_LIFETIME goes by since the slot was last counted.
EchoLapses(s) ==
    /\ "late" \in env /\ echo[s] > 0 /\ s \notin stale
    /\ stale' = stale \cup {s}
    /\ UNCHANGED <<env, enabled, driver, buttons, echo, hook, ui, closer, conn,
                   device, user, apps>>

-----------------------------------------------------------------------------
Ui    == UiOn \/ UiOff \/ UiLocks \/ UiReleases \/ UiBusy \/ UiDone
Close == CloseStops \/ CloseReleases \/ CloseUnplugs
World == \/ \E mb \in Mice \X Buttons : UserClicks(mb)
         \/ \E s \in Slots : EchoLapses(s)

Next == HookGetsButton \/ HookGetsEcho \/ HookMissesEvent \/ HookStep \/ Ui \/ Close \/ World

(***************************************************************************)
(* A callback that has started runs to its end, and so does whatever the   *)
(* UI thread and the handler have started; Windows delivers every queued   *)
(* event, however busy the other queue is.  Nobody has to click, switch    *)
(* the redirect or close the window.                                       *)
(***************************************************************************)
Fairness ==
    /\ WF_vars(HookStep)
    /\ SF_vars(HookGetsButton) /\ SF_vars(HookGetsEcho)
    /\ SF_vars(UiLocks) /\ WF_vars(UiReleases) /\ WF_vars(UiDone)
    /\ WF_vars(CloseReleases) /\ SF_vars(CloseUnplugs)

Spec     == Init /\ [][Next]_vars
LiveSpec == Spec /\ Fairness

-----------------------------------------------------------------------------
\* Every variable stays within its type: the record within the buttons there
\* are, the counts within MAX_PENDING, each thread at a place it has.
TypeOK ==
    /\ env \in SUBSET Behaviours
    /\ enabled \in BOOLEAN /\ driver \in BOOLEAN
    /\ buttons \in SUBSET Buttons
    /\ echo \in [Slots -> 0..MaxPending] /\ stale \in SUBSET Slots
    /\ hook \in [pc : {"idle", "send", "remember", "undo"}, event : Event,
                 report : SUBSET Buttons]
    /\ ui \in {"idle", "release", "releasing", "busy"}
    /\ closer \in {"idle", "release", "unplug", "done"}
    /\ conn \in {"free", "ui"}
    /\ plugged \in BOOLEAN /\ dev \in SUBSET Buttons
    /\ virtQ \in Seq(Event) /\ physQ \in Seq(Event)
    /\ phys \in SUBSET (Mice \X Buttons) /\ apps \in SUBSET Buttons

Without(bs) == env \cap bs = {}

\* Nobody is in the middle of anything that touches the device.
Settled == hook.pc = "idle" /\ ui \in {"idle", "busy"} /\ closer \in {"idle", "done"}

\* ... and nothing is on its way to the hook either.
Quiet == Settled /\ physQ = <<>> /\ virtQ = <<>>

\* Somebody may hold the lock when an undo wants it: then the switch must not
\* have moved during the callback, and no report may be refused either way.
Undisturbed == Without({"refuse"}) /\ ~({"race", "contend"} \subseteq env)

\* What the README promises of the switch: once the mouse is off and everybody
\* is done, the virtual one holds no button, however the switch, the callback
\* and the closing window interleaved.  No path of on_button skips the second
\* look at mouse_enabled, so this holds where the keyboard's Repeat breaks it.
OffHoldsNothing == Undisturbed => (Settled /\ ~enabled => dev = {})

\* Whatever the device holds between two events is in the record, so the
\* release of the real button will be replayed and not passed on: here too the
\* switch may move in the middle of a callback.
RecordCoversDevice == Undisturbed => (Settled => dev \subseteq buttons)

\* on_button and the queues together: when all is done, neither the device nor
\* any application is left with a button down that the user has let go.
NoButtonLeft ==
    Without({"refuse", "contend", "race", "late", "unheard"}) =>
        (Quiet /\ plugged => dev \cup apps \subseteq HeldBy(phys))

-----------------------------------------------------------------------------
\* The refinement: an undisturbed session shows every click exactly once.

OnTheWay(e) ==
    Cardinality({i \in DOMAIN physQ : physQ[i] = e})
        + Cardinality({i \in DOMAIN virtQ : virtQ[i] = e})
        + IF hook.pc = "send" /\ hook.event = e THEN 1 ELSE 0

C == INSTANCE Clicks WITH
        hand     <- HeldBy(phys),
        on       <- enabled,
        held     <- dev,
        presses  <- [b \in Buttons |-> OnTheWay([button |-> b, down |-> TRUE])],
        releases <- [b \in Buttons |-> OnTheWay([button |-> b, down |-> FALSE])],
        down     <- apps

Clean == Without({"race", "contend", "refuse", "late", "both", "unheard", "close"})

\* Every step of an undisturbed session is a step of Clicks: an event comes into
\* being only when the user presses or lets go of a button, and goes only when
\* the applications see it, through whichever of the two queues.  on_button makes
\* no click of its own; only the release of a switched-off redirect adds events,
\* one for each button the virtual mouse holds then (set_mouse).
ShowsEachClickOnce == C!Init /\ [][Clean => C!Next]_(C!vars)

\* ... and each of them is shown in the end: the fairness of Clicks.
ShowsEveryClick == Clean => C!Fairness

=============================================================================
