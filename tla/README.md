# InputRedirect in TLA+

InputRedirect plugs a virtual keyboard and mouse into Windows through the
Logitech G HUB driver, swallows what the real ones type in a low-level hook and
replays it on the virtual ones. This directory holds TLA+ models of that
program, the TLC configurations that check them, and TLAPS proofs about them.
`PROJECT.json` lists the runs, the mutants, the hazards, the lines each
definition stands for, and the places where the code and its own words part.

## Running it

    tlasany KeyboardRedirect.tla                                  # parse
    tlc -config KeyboardSafety.cfg MCKeyboard                     # check
    tlapm KeyboardRedirect_proofs.tla                             # prove

| configuration | module |
|---|---|
| `KeyboardSafety`, `KeyboardProgress`, `KeyboardOffRepeat` | `MCKeyboard` |
| `MouseLife` | `MCMouse` |
| `HooksLife` | `MCHooks` |
| `DevicesLife`, `DevicesClose`, `DevicesLamp` | `MCDevices` |
| `BlockersLife` | `MCBlockers` |
| `FrontEnd` | `MCFrontEnd` |
| `InstallLife`, `InstallHalf` | `MCInstallation` |

Proofs: `KeyboardRedirect_proofs`, `MouseRedirect_proofs`, `HookThread_proofs`,
`VirtualDevices_proofs`, `Blockers_proofs`, `FrontEnd_proofs`,
`Installation_proofs`, and `ReportFacts`, which holds what both redirects need to
know of finite sets and queues of events. Each is proved to the last leaf; the
devices take longest, about five minutes.

## The system

Paths are below `src/src/`.

| component | state | operations | models |
|---|---|---|---|
| keyboard redirect (`redirect/mod.rs`, `hid/keyboard.rs`) | `Mutex<Shared>`: `keyboard_enabled`, the driver, the report of held keys | `on_key`, `decide_key`, `remember_key`, `set_keyboard`, `toggle_keyboard`, `stop`, `emergency_stop` | `KeyboardRedirect` |
| mouse redirect (`redirect/mod.rs`, `hid/mouse.rs`) | `mouse_enabled`, the report of held buttons | `on_button`, `decide_button`, `remember_button`, `toggle_mouse` | `MouseRedirect`, `Clicks` |
| echo filter (`redirect/echo.rs`) | a count and a deadline for each key or button and direction | `expect_key`, `should_ignore_key`, `clear_keys`, the same for buttons | both redirects |
| shortcut watcher (`redirect/combo.rs`) | the modifiers seen going down | `note`, `press_belongs_to_shortcut`, `clear` | `KeyboardRedirect` |
| hook thread (`redirect/hook.rs`) | the two hooks, the handlers, `INSTALLED` | install, loop, re-arm, take down, stop | `HookThread`; the callbacks in the two redirects |
| virtual devices and connection (`driver/mod.rs`, `driver/device.rs`) | the open core device, the ids of what is plugged | connect, plug with retries, re-create, rebuild the bus, unplug, park, drop | `VirtualDevices` |
| blockers watchdog (`driver/ghub.rs`) | a thread, `watching`, `lamp_was_running` | start, keep down, drop | `Blockers`; its life in `VirtualDevices` |
| services, processes (`driver/service.rs`, `driver/process.rs`) | Windows' service states and process ids | start, stop, wait; list, open, check, end | `Blockers`; their outcomes elsewhere |
| exit (`app/exit.rs`) | `SHUTTING_DOWN`, `ALREADY_CLEANED_UP` | console handler, `clean_up` | `VirtualDevices`, `FrontEnd` |
| application (`app/mod.rs`, `app/actions.rs`) | `App`: driver, engine; the menu | `run`, `start`, commands, `shut_down`, `remove_driver`, `drop` | `FrontEnd`, `VirtualDevices`, `Installation` |
| command line, console, screen, exit codes (`app/cli.rs`, `ui/`, `main.rs`) | the console's queue, the frame on the screen and the memory of it | parse, wait for a key with a tick, questions, draw, `give_up` | `FrontEnd` |
| single instance (`app/instance.rs`) | a named mutex | claim, drop | `VirtualDevices`, `FrontEnd` |
| driver installation (`driver/install/`, `driver/version.rs`) | Windows' driver store, binaries, root devices | install, replace, uninstall, bind, sanitize, version check | `Installation` |
| restart note (`driver/reboot.rs`) | a volatile registry key | mark, clear, is pending | `Installation` |
| the rest | | holders of a file, request layouts, embedded files, key tables, looks | not modelled, see below |

How they meet. The **hook thread** calls `on_key` or `on_button` for one event
at a time; the callback locks `Shared` to decide, lets go of it to send a report
through the driver, and locks it again to remember what it sent. The **main
thread** shows the menu, switches the redirect, re-creates or removes the
devices. The **console handler** runs on a thread of its own when the window is
closed, and Windows ends the process when it returns. The **watchdog thread**
stops G HUB's services and processes whenever they come back. They share
`Shared`, the connection lock, the lock around the record of what is plugged,
two atomic flags and an `Arc` around the driver. A session also talks to later
sessions, through the driver store, the binaries on disk, the root devices and
the note that a restart is owed.

What is hard: three threads over two locks with `try_lock` on one side; echoes
of our own reports that come back to our own hook through a queue that Windows
interleaves with the user's; hooks that Windows drops without saying so; ids of
processes that are given out again between two calls; the end of the process at
any point of any thread; requests that fail half way or take effect at the next
start only; sessions that inherit what an earlier one left; keys typed before
the question they answer. `hazards` in `PROJECT.json` names each, at its line,
with the properties that watch it.

What makes each part correct:

- redirects: no key or button stays down anywhere after the user lets it go, no
  echo is taken for a key or a key for an echo, off means nothing is held, every
  click is shown once, and the redirect comes to rest;
- hooks: an event is decided once, a redirect is never deaf for longer than a
  tick, nothing of ours is left in a chain, and stopping comes back;
- devices: they come and go as a pair, nothing of ours is left on the bus, what
  is on the bus is in the record, the window can always be closed;
- blockers: what is in the way goes down, nobody else's program does, and the
  service the program stopped is started again;
- front end: a question is answered by who has read it, the screen is true, and
  nothing goes on once the devices are gone;
- installation: the menu is reached only with the build the program speaks to,
  the note is right, a removal is complete, nobody is sent away twice, and any
  half-finished session can be recovered from.

In every module but `FrontEnd` a variable `env`, chosen once in `Init`, is the
set of `Behaviours` a run allows: a report that is refused, a service that is
slow, a hook that is dropped. Without it every property would be about the worst
machine, where a refused report does leave a key down. Each property names in
`Without(...)` what it needs to be absent, and nothing else is assumed away.

## KeyboardRedirect

One action for each critical section of `Shared` and each send. `hook.pc`
follows a callback: `HookGetsKey` and `HookGetsEcho` are the first section of
`on_key` up to `decide_key` (`DecideKey`, `DecidePress`, `DecideRelease`, with
the echo filter's `Take` and the watcher's `StillHeld`); `HookSend` the send
outside the lock; `HookRemember` and `HookUndo` are `remember_key`;
`HookRepeatUp`, `HookRepeatDown` and `HookRepeatNote` are `KeyOutcome::Repeat`.
The UI thread is `UiOn`, `UiOff`, `UiLocks`, `UiReleases`, with `UiBusy` and
`UiDone` for everything else that takes the connection lock. The console handler
is `CloseStops`, `CloseReleases`, `CloseUnplugs`. The user types into `physQ`,
the virtual keyboard into `virtQ`, and the hook takes from either.

Two abstractions: the report is the set of keys in its slots, and time is one
bit per echo slot, its deadline having passed or not.

| property | what it says |
|---|---|
| `RecordCoversDevice` | between two events the record has every key the device holds |
| `OffReleasesAll` | a redirect that is off and settled holds nothing |
| `NoKeyLeftOnDevice`, `NoKeyLeftInApps` | with both queues empty no key is down that the user does not hold |
| `NoPhantomEcho` | no more echoes are expected than are under way |
| `UndoIsNeverLost` | the undo of `remember_key` is given up only to a thread about to release everything |
| `OnlyARepeatOutlivesOff` | the end of a repeat is the only step that leaves a key down under a redirect that is off |
| `EchoesRunOut` | once nobody types, the redirect comes to rest |
| `ReleaseReachesApps` | a key that is let go comes up for the applications |

Bounds. Two keys and a modifier: a key interferes with another only over the
slots of the report and over shortcuts. `KeyboardSafety` has two slots, so both
keys fit, one pending echo and two events under way; its four surroundings pair
switching off and closing the window with one source of trouble each, since
the product of all is out of reach and the properties exclude different ones.
`KeyboardProgress` has one slot, so that the second key is the seventh of the
code, and two pending echoes; it looks at an ordinary session. `MaxInFlight`
bounds the queues: the user and the UI wait when it is reached, the program
never does.

Fairness (`KeyboardProgress`). A callback that has started runs to its end (weak
fairness of `HookStep`). Windows delivers queued input, and neither queue
starves the other (strong fairness of `HookGetsKey` and `HookGetsEcho`, since a
callback in progress disables them for a while). The UI thread gets a lock it
waits for although the hook and others take it in between (strong fairness), and
finishes what it holds (weak). Nobody has to press a key, switch or close.

## MouseRedirect and Clicks

The same actors, built the same way from `on_button`, `decide_button` and
`remember_button`. What differs: no shortcuts and no slots, every button has its
bit in the report, an event is what a report adds or drops compared with the
last, and the press of a button that the record already holds sends an unchanged
report, which clicks nothing although an echo of it is counted. There are two
real mice, so a button can be pressed twice before it is let go (`both`), and an
event may never reach the hook (`unheard`).

`Clicks` is what the user is promised: each press and each release of a hand is
shown to the applications once, sooner or later, in whatever order the two
queues give, and nothing else is, except that a redirect that has been switched
off lifts what it held, once for each button. Its `Press` and `Release` are
moves of the user's hand and nothing else adds to what is on its way; `Hold` and
`LetGo` let the redirect hold a button only for a press, and let go of it only
for a release, that is on its way. `C == INSTANCE Clicks WITH ...` takes the
hand from the user's mice (`HeldBy`), the switch and the held buttons from the
redirect and its device, and counts, for each button, the events that are in
either queue or in the hand of the hook. A press the redirect makes by itself,
from a stale record or twice for one click, is a step of no action of `Clicks`:
the mutant `MutantClearButtons`, which switches off and leaves the record as it
was, makes such a press with the next report and is caught.

| property | what it says |
|---|---|
| `RecordCoversDevice` | between two events the record has every button the device holds, wherever the switch and the closing window fall |
| `OffHoldsNothing` | a mouse that is off and settled holds nothing: no path of `on_button` skips the second look at the switch |
| `NoButtonLeft` | with both queues empty no button is down that no mouse holds |
| `ShowsEachClickOnce` | every step of an undisturbed session is a step of `Clicks` or a stutter |
| `ShowsEveryClick` | and satisfies its fairness |

`Clean` names when a session is undisturbed, and none of what it leaves out can
be allowed: a report made from a stale record presses another held button again
(`race`, `close`); an unchanged report loses a press (`late`, `both`, `unheard`,
`contend`); a refused report shows the event by the other route (`refuse`). The
switch may be used at any time between two events.

Bounds. Two buttons and two mice, two pending echoes, two events under way;
seven surroundings, each one source of trouble with the switch. Fairness as for
the keyboard.

## HookThread

`Engine::install` and its drop on the main thread, `hook::run` on its own
(`InstallHook` for each kind, `Judge`, `StartTimer`, the loop, `Rearm` and
`Unhook`, `StopTimer`, `TakeDown`), the channel between them, and Windows'
chains. Windows may refuse a hook, drop one, have no timer to give, fail the
message loop, or start no thread.

| property | what it says |
|---|---|
| `ClearFlagMeansNoHook` | when `INSTALLED` is clear no hook of ours is in a chain |
| `OneCallPerEvent` | while callbacks can run each chain has at most the one hook the thread knows |
| `NeverDeafened` | no step of the thread takes the last hook out before it is told to stop |
| `StopReturns` | the join of `Engine::drop` comes back |
| `HearsAgain` | a redirect that Windows has cut off gets a fresh hook |

Bounds. Four handles: one for each kind, one for the hook that replaces it and
one to spare. All 32 combinations of behaviours are run. Fairness: both threads
run, and a timer that is set keeps firing.

## VirtualDevices

A thread is the list of steps it has yet to take; calling a function puts the
function's steps in front, dropping a value appends the steps of its `Drop`.
One step is one lock, flag or request to the driver. `steps["main"]` runs from
`Watchdog::start` through `connect`, `create_virtual_devices`, `Engine::install`
and the menu to the locals and the `App` that `run` drops on the way out;
`steps["closer"]` is the console handler; `watchdog` is the third thread.
`clean_up` and what it calls (`CleanStep`) run on whichever thread gets there.
The connection lock covers one request and is part of its step; the lock around
the record is held across a pause and two requests and has its own variable.
`refs` is who holds the `Arc`, because the last to let go runs `Driver::drop`.

A failed `Arc::try_unwrap` gives the `App` its `Arc` back, which it drops at once
(`Unwrap`, then `LetApp`), perhaps as the last holder.

The bus is what the code expects of it: a plug may be refused, a device told to
go leaves later, a stale bus refuses a mouse until it is bound anew.

| property | what it says |
|---|---|
| `OnlyUnfinishedWorkIsLeft` | a device is left behind only if the window is closed and the cleanup missed the driver, the process ends between a plug and the second look at `SHUTTING_DOWN`, or the cleanup itself is cut short |
| `PairOrNothing` | in the menu there are two devices or none, those of the record |
| `NothingUnrecorded` | even when Windows refuses an unplug, a device of ours stays in the record |
| `NobodyWaitsInVain` | whoever holds the lock around the record waits for nothing, and the watchdog is dropped by one thread, which finds it running |
| `CloseEnds` | a window that is closed ends the process: no lock keeps it |
| `MainComesBack` | every command comes back to the menu or out of `run` |

Bounds. Two attempts at a plug instead of four: one that fails and one that is
the last. Five surroundings: a good machine, a plug that is blocked, requests
turned down, requests that fail or hang, and an orderly return without closing.

Fairness. Every thread runs (weak fairness of the main thread's steps, of the
watchdog and of the end of the process), a thread waiting for the record or for
the watchdog gets its turn (strong, per thread: the watchdog returns to its
waiting place again and again, which disables the step in between), and a device
told to go goes (weak). No command is ever forced.

## Blockers

`VirtualDevices` knows of the watchdog only that it lives; here is what it does.
Both threads run `stop_blockers` (`StopBlockers(w)`): the updater, the state of
the LampArray service, the request, the wait, then the snapshot of processes,
and for each its handle (`OpenProcess`), the second look at the name behind the handle
(`Judge`) and its end. `Start`, `Started`, `RebuildBus`, `Drop`, `Join` and the
three steps of `start_and_wait` are the main thread's, `DogWakes`, `DogLooks`,
`DogSleeps` the watchdog's. Windows moves services, restarts one by itself, and
gives a free process id to any program.

| property | what it says |
|---|---|
| `LampIsGivenBack` | an obedient LampArray service that was running on arrival runs again |
| `RefusalIsARefusal` | an obedient service, stopped by one thread at a time, is never taken for one that refuses |
| `OnlyTheirsAreClosed` | no program of somebody else is ended, whatever id it was given |
| `MainComesBack` | start, rebuild and drop come back however slow a service is |
| `BlockersGoDown` | what is in the way does not stay |

`RefusalIsARefusal` needs `rebuild` absent, and that is a weakness of the code:
while the bus is rebuilt two threads may ask for the same stop, the second
request meets a service that is already stopping and is turned down, and
`Driver::rebuild_bus` reports a refusal that was none.

Bounds. Two process ids, so that one can be reused while another is looked at;
six surroundings. Fairness: both threads run, and a service that is not slow
gets where it is going.

## FrontEnd

`Parse`, `Claim`, the gate of a restart that is owed (`NothingToRemove`,
`OffersRestart`, `Enter`), `Start`, the menu and its commands, the questions
(`Flush`, `Confirm`, `AnyKey`, `NoAnswer` and what follows each answer), the end
(`Drop`, `GiveUp`, `Exit`), and the console handler (`ConsoleEvent`, `CleansUp`,
`Answer`). `input` is the console's queue: the program takes one record at a
time, keys or not, while the user goes on. A record carries whether it was typed
for the question at hand. `shown` is what the screen believes, `console` what is
there. What the driver answers is a choice.

| property | what it says |
|---|---|
| `TickArrives` | a wait for a key ends with the tick although a mouse moves for ever |
| `AnswersAreFresh` | no question is answered by a key typed before it was asked |
| `ScreenIsTrue` | while the menu waits, the console shows the switches and the last message as they are |
| `NoLifeAfterCleanUp` | once the handler has cleaned up the process ends |

Bounds. A tick of two steps, so that it can be met half way; two records in the
queue, so that one can be read ahead of another; a key for each branch; every
set of flags. Fairness: both threads run and time passes.

## Installation

Sessions over restarts. `pc` is where a session is, from the gate in `App::run`
through `Driver::connect` (install, replace or re-bind) to the menu and through
`force_uninstall`, `uninstall` and `mark_restart_pending` out again. Windows
keeps `store` (published packages), `file` (binaries on disk), `later` (what the
next start does to them), `roots` and `running`. A request takes effect at once,
at the next start, or not, and a failure may come before or after the effect. A
session can be killed at any step. `Mend` ends all trouble, once.

A driver that was asked to stop, or whose package was deleted, may stay in
memory and answer until the restart (`MayStop`, `STILL_LOADED` in
`app/actions.rs`), and a session that meets it clears the note although the
restart is owed (`Enter`). `answered` remembers that this has happened; nothing
in the model reads it. A version may not be readable (`unread`), and
`mismatch` then finds nothing to object to. The key of the note may not go, be
made or be written to (`Mark`), and none of these errors is heard.

| property | what it says |
|---|---|
| `ReadySpeaksOurs` | as long as versions can be read, the menu is reached with our build of the bus; only a driver somebody holds in memory, its binary gone, escapes the check |
| `NoteIsTheRemoval` | between sessions the note stands exactly when a restart is owed and no session has met a driver that answers since the removal |
| `RemovedLeavesNothing` | a removal that is said to be done leaves no package, no binary the restart will not take, no root device |
| `NeverToldTwice` | who has restarted is not told to restart again |
| `Recovers` | once nothing stands in the way, starting and restarting gets to the menu, whatever earlier sessions left, unless the note is in a key that outlives the restart |

No bound is needed: two packages, two builds and at most two root devices are
what the code knows. Six surroundings: a smooth machine, one where requests fail
and sessions are killed, one where somebody keeps the driver open, all of these
at once, one that an older build has used, and one whose versions cannot be read.
`install_half` looks at a replacement alone (the constraint `ReplacesOnly`: no
removal is asked for and the driver stops with its binary), and `devices_lamp` at
a window closed over the menu (`ClosedInMenu`), so that what TLC shows is the
execution the finding is about. Fairness: a session gets on with what it does. That the
user keeps starting the program and the machine is an antecedent of `Recovers`,
not an assumption.

## What the runs show

| run | result |
|---|---|
| `keyboard_safety`, `keyboard_progress` | no key stays down, no echo is owed in vain, the redirect rests and releases arrive |
| `mouse_life` | no button stays down, and an undisturbed session implements `Clicks` |
| `hooks_life` | one hook of ours for each kind whatever Windows does, none afterwards |
| `devices_life` | devices come and go as a pair, only a closed window leaves one behind and in three ways, nobody waits in vain, no deadlock on the way out |
| `blockers_life` | the blockers go down, only they do, and the service comes back |
| `front_end` | ticks, fresh answers, a true screen, an end after the cleanup |
| `install_life` | our build or no menu, a right note, full removals, recovery from what fails half way |
| `keyboard_off_repeat` | violated: switching off in the middle of a repeat leaves the key on the virtual keyboard |
| `devices_close` | violated: closing the window during start-up leaves the devices on the bus |
| `devices_lamp` | violated: closing the window over the menu leaves the LampArray service stopped |
| `install_half` | violated: a replacement that fails after the bus package is taken for complete ever after |

Each of the last four is a claim of the repository that its run refutes; the
finding in `PROJECT.json` quotes the claim and names the lines. Each property of
the passing runs has a mutant, a plausible bug in a mapped definition that makes
it fail.

Claims the code does not keep that have no run of their own, since a property of
a passing run says when they are kept:

- a release that meets the connection lock leaves the key down, and an echo
  later than its lifetime is replayed as a key: `NothingStuck` with
  `Surroundings <- MCContend` or `MCLate` in `MCKeyboard`;
- a modifier held while switching on is unknown to the watcher, and the
  combination is replayed: `CombinationsAreReal` with `MCPlain`;
- the claim to be the only copy is given up before the devices are gone:
  `OneCopyAtATime` with `MCAnother` in `MCDevices`;
- `driver/version.rs:9` says that "the version is compared beforehand and the
  build this program was written against is the one that runs", lines 53-55 that
  a binary whose version cannot be read is left alone, so
  the menu can be reached over another build: `ReadySpeaksOurs` without its
  `Without({"unread"})`, and the same for a driver held in memory with no binary
  to compare;
- `driver/reboot.rs:76` calls a driver that answers "the one situation in which
  a restart cannot still be owed", while `driver/reboot.rs:3` and
  `app/actions.rs:50` say that Windows keeps the removed driver loaded until the
  restart: `app/mod.rs:62` then clears the note while the restart is owed, which
  is `flag <=> owed` in place of `NoteIsTheRemoval`;
- `driver/reboot.rs:42` makes the key of the note anew so that it is always
  volatile, and does not hear that the old one could not be deleted: a lasting
  key then holds a note that no restart takes away, and the program refuses to
  start for good, which is `Recovers` without its second conjunct.

## What is proved

The runs look at small instances and a handful of surroundings; the theorems
hold for every value of the constants, every combination of behaviours, and the
named assumptions only (sets are not empty or finite where the code's are, a
limit is positive, "no handle" is not a handle). None of the invariants is
inductive as it stands; each module's `IInv` adds what makes it so.

**Keyboard**: `TypeOK`, `RecordCoversDevice`, `OffReleasesAll`,
`UndoIsNeverLost`, `OnlyARepeatOutlivesOff`, `NoPhantomEcho`,
`NoKeyLeftOnDevice`, `NoKeyLeftInApps`. A key on the device outside the record is
normal between sending and remembering, and what makes it harmless is where the
other threads are. `Custody`: which thread holds the connection lock, that a
redirect that is off has an empty record, and that a keyboard off the bus holds
nothing. `InHand`: when the switch leaves a running callback alone, whatever the
device holds is in the record or in the report the callback has just sent.
`Reached`: wherever the switch falls, a callback that has not sent anything yet
finds the device of a redirect that is off already empty.

The last three properties relate counters to the contents of queues. `Exact`:
left alone, the device holds what the callback at work says it holds, no more
and no less. `Fresh`: the echoes a slot expects, with the one the callback is
about to expect, are still on their way from the device; that is
`NoPhantomEcho`. `Ledger` is a balance for each key. Each queue moves every key
from the level its reader sees to the level its writer left (`Run` in
`ReportFacts`), and the record, the echoes owed and what the applications believe
balance with the two levels the hook has seen. Only a repeat of a held key moves
no level: it is typed when everything has settled, so it is always the first
event that waits and finds no echo owed (`RepeatRun`, `AtEase`). With both queues
empty the balance says that device and applications hold nothing the user has let
go.

**Mouse**: `TypeOK`, `RecordCoversDevice`, `OffHoldsNothing`, `NoButtonLeft`, and
the refinement `ShowsEachClickOnce`. `OffHoldsNothing` is what the keyboard does
not have: no path of `on_button` skips the second look at the switch.
`InSomeHand`: a button that the device holds and the record does not is in
somebody's hand, the callback about to remember or undo it, the UI or the
console handler about to release everything. `HookIsWatched`: when others may
hold the lock the switch waits for the callback, so that only the closing window
makes an undo necessary, and it takes the mouse off the bus. `NoButtonLeft`
follows from a ledger like the keyboard's, kept over several mice that may hold
the same button. The refinement is proved step by step: every step of a clean
session is a move of the user's hand, an arrival, a change of what the redirect
holds or a lift of the redirect being switched off, as `Clicks` has them, or
leaves what `Clicks` sees alone, because the callback takes an event out of one
queue in the moment the abstract way still counts it (`InHand`, `WayNext`).

**Hook thread**: `TypeOK`, `ClearFlagMeansNoHook`, `OneCallPerEvent`,
`NeverDeafened`. `Known`: a hook in a chain is the one the thread keeps or the
one it is about to remove. `Stage`: what it has installed or taken down at each
place. `Fresh`: an old hook goes only after the new one is in the chain.
`Flagged`: the flag is set until the main thread has seen the thread's end.

**Virtual devices**: `TypeOK`, `NothingUnrecorded`, `PairOrNothing`,
`OnlyUnfinishedWorkIsLeft`, `NobodyWaitsInVain`, for every number of attempts.
`Calm`: before a cleanup begins no list of steps raises `SHUTTING_DOWN`. `Kept`:
until then every device of ours that has not been told to go is in the record or
is the one main has just plugged. The other three are about whole lists of
steps. `Track` names the place main has reached, from its list, and what is
plugged, recorded and connected there; it needs `Cleaners`, which says who may be
cleaning up and that a thread which is not has nothing of the cleanup in its
list. `Covered`: at every moment somebody has the sweep of a device ahead of
them: main with the device in hand, whoever is still to drop the driver, the
drop that has begun, the cleanup. `Due`: unless the window is closed main has
the way out ahead of it and goes it to the end, so a program that ends by itself
leaves nothing. `PairOrNothing` and `OnlyUnfinishedWorkIsLeft` suppose that
Windows takes away what it is asked to (`Without({"refuse"})`); what holds when
it refuses is `NothingUnrecorded`. `Locked` and `Guarded` suppose nothing: the
steps under the lock are the two that follow it and no other thread has them, and
the step that drops the watchdog is in no list as long as somebody holds the
driver, and afterwards at one place of one list. That is the part of `CloseEnds`
and `MainComesBack` that needs no fairness.

**Blockers**: `TypeOK`, `LampIsGivenBack`, `RefusalIsARefusal`,
`OnlyTheirsAreClosed`. `Turns`: the watchdog runs between the two ends of main.
`Waited`: an obedient service stops only under the eyes of a thread that waits
for it. `Arrival` and `Back`: a start cannot give up on it, and after the join
nobody stops it again. `Asked`: a thread alone finds it running when it asks.

**Front end**: `TypeOK`, `ScreenIsTrue`, `AnswersAreFresh`, for every size of
the queue. `Honest`: the screen's memory is what is on the console. `AllFresh`:
while an answer is awaited, what is in the queue was typed for it. `Due`: who
waits for any key knows where to go on.

**Installation**: `TypeOK`, `ReadySpeaksOurs`, `RemovedLeavesNothing`,
`NoteIsTheRemoval`, `NeverToldTwice`. `Booked`: a binary on disk belongs to a
published package or is about to change, what the restart will copy is
published, and the loops that delete have all of the store left. `Speaks`: which
build of the bus there can be at each place on the way to the menu. `Cleaned`,
`Noted`, `Told`: the same for the removal, the note (only a session that meets a
driver passes the gate with it, and it has given the note up by then) and the
answer "restart" (wherever a replacement is under way or the bus has been taken
away, the other build goes with the restart: `Leaves`).

Only model-checked:

- liveness under fairness, which is beyond the prover: `EchoesRunOut`,
  `ReleaseReachesApps`, `ShowsEveryClick`, `StopReturns`, `HearsAgain`,
  `CloseEnds`, both `MainComesBack`, `BlockersGoDown`, `TickArrives`,
  `NoLifeAfterCleanUp`, `Recovers`;
- what the four violated runs refute, which no theorem can state.

Every safety invariant that a run checks is a theorem.

## What is not modelled

- Time. Deadlines are choices, so that a property holds for every timing; the
  few seconds Windows grants the console handler are not measured.
- Statistics and wording: nothing depends on them.
- Looks (`ui/theme.rs`, the layout in `ui/screen.rs`), cursor and console modes
  (`ui/console.rs`).
- Binary layouts of driver requests (`driver/ioctl.rs`), pinned by assertions in
  the file; the embedded files (`driver/payload.rs`), pure I/O; key tables
  (`hid/scancode.rs`), taken as sets.
- Who holds a file (`driver/holders.rs`): a query for the wording of a message.
  Somebody who keeps the driver open is the behaviour `held`.
- Parsing of pnputil's listing and of the registry: both yield the set of
  published names.
- The elevation check, the first thing `Driver::connect` does, after the gate. A
  session without it ends there as any session whose start fails (`Connect`).
- Composition. Both redirects share one connection lock, one `Shared` and one
  hook thread; to each, the other half is part of the behaviour `contend`.
  `FrontEnd` takes the driver's outcomes as choices that `VirtualDevices` and
  `Installation` make in detail; `VirtualDevices` takes the watchdog's, which
  `Blockers` makes.

## Plan

Done: the seven models above, their runs and proofs, and one abstract
specification. What is left, most valuable first:

1. A module that composes the two redirects over one connection lock and one
   hook thread, where the release of a button contends with a key.
2. `FrontEnd` over `VirtualDevices`, so that what the screen says of the devices
   can be held against the bus.
3. Abstract specifications of the device pair (absent, whole, leaving) and of the
   driver (absent, ours, owed), with the refinements from `VirtualDevices` and
   `Installation`.
