------------------------------ MODULE Blockers ------------------------------
(***************************************************************************)
(* The Logitech software that is in the way (driver/ghub.rs), with the     *)
(* services (driver/service.rs) and processes (driver/process.rs) it is    *)
(* made of.  Two threads run stop_blockers: the main thread, when it       *)
(* starts the watchdog and whenever it rebuilds the bus, and the watchdog  *)
(* itself, whenever it finds a blocker back.  Meanwhile Windows moves the  *)
(* services from state to state, the updater starts the agent again, and   *)
(* processes come and go, each under any id that is free.                  *)
(*                                                                         *)
(* A handle keeps the process it was opened for: its id is not given to    *)
(* another one before the handle is closed.                                *)
(***************************************************************************)
EXTENDS FiniteSets

CONSTANTS
    Pids,         \* process ids
    NoPid,        \* no handle
    Surroundings  \* the sets of Behaviours a run looks at, each from start to end

(***************************************************************************)
(*   refuse    a service turns a request down                              *)
(*   slow      a service takes longer than TRANSITION_TIMEOUT, or for ever *)
(*   denied    a process may not be opened                                 *)
(*   recover   the LampArray service has a recovery restart                *)
(*   reuse     programs of others start and take ids that became free      *)
(*   rebuild   the main thread rebuilds the bus while the watchdog runs    *)
(***************************************************************************)
Behaviours == {"refuse", "slow", "denied", "recover", "reuse", "rebuild"}

Services == {"lamp", "updater"}
States   == {"absent", "stopped", "startPending", "running", "stopPending"}
Threads  == {"main", "dog"}

ASSUME PidsAssumption == NoPid \notin Pids
ASSUME EnvAssumption  == Surroundings \subseteq SUBSET Behaviours

VARIABLES
    env,       \* the behaviours of this run, chosen once
    svc,       \* the state of each service
    proc,      \* what runs under each id: nothing, one of theirs, one of others
    at,        \* where each thread is
    found,     \* the ids of their processes a thread has listed and not yet dealt with
    handle,    \* the process it has opened
    lampDown,  \* what stop_and_wait told it of the LampArray service
    watching,  \* Watchdog.watching
    lampWas    \* Watchdog.restore: the LampArray service was running on arrival

windows == <<svc, proc>>
locals  == <<found, handle, lampDown>>
vars    == <<env, windows, at, locals, watching, lampWas>>

Init ==
    /\ env \in Surroundings
    /\ svc \in [Services -> {"absent", "stopped", "running"}]
    /\ proc \in [Pids -> {"none", "theirs"}]
    /\ at = [w \in Threads |-> IF w = "main" THEN "start" ELSE "none"]
    /\ found = [w \in Threads |-> {}]
    /\ handle = [w \in Threads |-> NoPid]
    /\ lampDown = [w \in Threads |-> FALSE]
    /\ watching = TRUE
    /\ lampWas = FALSE

-----------------------------------------------------------------------------
\* Windows: the service manager accepts a request only in the state it fits.

Accepts(s, from, to) == svc[s] = from /\ svc' = [svc EXCEPT ![s] = to]
TurnsDown(s, from)   == (svc[s] /= from \/ "refuse" \in env) /\ UNCHANGED svc

ServiceMoves(s) ==
    /\ Accepts(s, "stopPending", "stopped") \/ Accepts(s, "startPending", "running")
    /\ UNCHANGED <<env, proc, at, locals, watching, lampWas>>

\* The recovery restart comes a while after the stop; a poll looks every 50 ms.
LampRecovers ==
    /\ "recover" \in env /\ \A w \in Threads : at[w] /= "wait"
    /\ Accepts("lamp", "stopped", "startPending")
    /\ UNCHANGED <<env, proc, at, locals, watching, lampWas>>

Free(p) == proc[p] = "none" /\ \A w \in Threads : handle[w] /= p

ProcessStarts(p) ==
    /\ Free(p)
    /\ \E what \in {"theirs" : s \in {svc["updater"]} \cap {"running", "stopPending"}}
                       \cup {"other" : b \in env \cap {"reuse"}} :
            proc' = [proc EXCEPT ![p] = what]
    /\ UNCHANGED <<env, svc, at, locals, watching, lampWas>>

ProcessExits(p) ==
    /\ proc[p] /= "none"
    /\ proc' = [proc EXCEPT ![p] = "none"]
    /\ UNCHANGED <<env, svc, at, locals, watching, lampWas>>

-----------------------------------------------------------------------------
\* stop_blockers, on either thread.

Goes(w, from, to) == at[w] = from /\ at' = [at EXCEPT ![w] = to]

Told(w, answer) == lampDown' = [lampDown EXCEPT ![w] = answer]

\* service::stop of the updater, whose answer nobody asks for.
StopUpdater(w) ==
    /\ Goes(w, "updater", "ask")
    /\ Accepts("updater", "running", "stopPending") \/ TurnsDown("updater", "running")
    /\ UNCHANGED <<env, proc, locals, watching, lampWas>>

\* stop_and_wait: the state first ...
AskLamp(w) ==
    /\ \/ svc["lamp"] \in {"absent", "stopped"} /\ Goes(w, "ask", "list") /\ Told(w, TRUE)
       \/ svc["lamp"] = "stopPending" /\ Goes(w, "ask", "wait") /\ UNCHANGED lampDown
       \/ /\ svc["lamp"] \in {"startPending", "running"}
          /\ Goes(w, "ask", "stop") /\ UNCHANGED lampDown
    /\ UNCHANGED <<env, windows, found, handle, watching, lampWas>>

\* ... then the request, for whatever state the service is in by now ...
StopLamp(w) ==
    /\ \/ /\ Accepts("lamp", "running", "stopPending")
          /\ Goes(w, "stop", "wait") /\ UNCHANGED lampDown
       \/ TurnsDown("lamp", "running") /\ Goes(w, "stop", "list") /\ Told(w, FALSE)
    /\ UNCHANGED <<env, proc, found, handle, watching, lampWas>>

\* ... and wait_until, which looks at the state before it looks at the clock.
Poll(w) ==
    /\ svc["lamp"] = "stopped" /\ Goes(w, "wait", "list") /\ Told(w, TRUE)
    /\ UNCHANGED <<env, windows, found, handle, watching, lampWas>>

\* MUTANT: the wait has no deadline.
MutantGiveUp(w) ==
    /\ "slow" \in env /\ svc["lamp"] = "stopped" /\ Goes(w, "wait", "list") /\ Told(w, TRUE)
    /\ UNCHANGED <<env, windows, found, handle, watching, lampWas>>

\* MUTANT: the state is asked once, and the deadline is not waited for.
MutantGiveUpAtOnce(w) ==
    /\ svc["lamp"] /= "stopped" /\ Goes(w, "wait", "list") /\ Told(w, FALSE)
    /\ UNCHANGED <<env, windows, found, handle, watching, lampWas>>

GiveUp(w) ==
    /\ "slow" \in env
    /\ svc["lamp"] /= "stopped" /\ Goes(w, "wait", "list") /\ Told(w, FALSE)
    /\ UNCHANGED <<env, windows, found, handle, watching, lampWas>>

\* process::ids_of: a snapshot.
List(w) ==
    /\ Goes(w, "list", "close")
    /\ found' = [found EXCEPT ![w] = {p \in Pids : proc[p] = "theirs"}]
    /\ UNCHANGED <<env, windows, handle, lampDown, watching, lampWas>>

\* process::terminate opens whatever has the id by now, if it may.
OpenProcess(w, p) ==
    /\ p \in found[w]
    /\ found' = [found EXCEPT ![w] = @ \ {p}]
    /\ \/ /\ proc[p] /= "none"
          /\ Goes(w, "close", "judge") /\ handle' = [handle EXCEPT ![w] = p]
       \/ /\ proc[p] = "none" \/ "denied" \in env
          /\ Goes(w, "close", "close") /\ UNCHANGED handle
    /\ UNCHANGED <<env, windows, lampDown, watching, lampWas>>

\* MUTANT: the id was listed as theirs, and that is taken for an answer.
MutantJudge(w) ==
    /\ Goes(w, "judge", "close")
    /\ proc' = [proc EXCEPT ![handle[w]] = "none"]
    /\ handle' = [handle EXCEPT ![w] = NoPid]
    /\ UNCHANGED <<env, svc, found, lampDown, watching, lampWas>>

\* MUTANT: the name read from the handle never matches the listed one.
MutantJudgeNever(w) ==
    /\ Goes(w, "judge", "close")
    /\ handle' = [handle EXCEPT ![w] = NoPid]
    /\ UNCHANGED <<env, windows, found, lampDown, watching, lampWas>>

\* ... and ends it if the name behind the handle is one of theirs.
Judge(w) ==
    /\ Goes(w, "judge", "close")
    /\ proc' = [p \in Pids |-> IF p = handle[w] /\ proc[p] = "theirs" THEN "none" ELSE proc[p]]
    /\ handle' = [handle EXCEPT ![w] = NoPid]
    /\ UNCHANGED <<env, svc, found, lampDown, watching, lampWas>>

StopBlockers(w) ==
    \/ StopUpdater(w) \/ AskLamp(w) \/ StopLamp(w) \/ Poll(w) \/ GiveUp(w)
    \/ List(w) \/ Judge(w) \/ \E p \in Pids : OpenProcess(w, p)

Stopped(w) == at[w] = "close" /\ found[w] = {}

-----------------------------------------------------------------------------
\* The watchdog's thread.

DogWakes ==
    /\ Goes("dog", "sleep", IF watching THEN "look" ELSE "ended")
    /\ UNCHANGED <<env, windows, locals, watching, lampWas>>

BlockersRunning == svc["lamp"] = "running" \/ \E p \in Pids : proc[p] = "theirs"

\* keep_blockers_down
DogLooks ==
    /\ Goes("dog", "look", IF BlockersRunning THEN "updater" ELSE "sleep")
    /\ UNCHANGED <<env, windows, locals, watching, lampWas>>

DogSleeps ==
    /\ Stopped("dog") /\ Goes("dog", "close", "sleep")
    /\ UNCHANGED <<env, windows, locals, watching, lampWas>>

-----------------------------------------------------------------------------
\* The main thread: Watchdog::start, the rebuilt bus, and Watchdog::drop.

Start ==
    /\ Goes("main", "start", "updater")
    /\ lampWas' = (svc["lamp"] = "running")
    /\ UNCHANGED <<env, windows, locals, watching>>

\* The thread is spawned only when the LampArray service has stopped.
Started ==
    /\ Stopped("main") /\ at["dog"] = "none"
    /\ at' = IF lampDown["main"] THEN [at EXCEPT !["main"] = "running", !["dog"] = "sleep"]
                                 ELSE [at EXCEPT !["main"] = "failed"]
    /\ UNCHANGED <<env, windows, locals, watching, lampWas>>

RebuildBus ==
    /\ "rebuild" \in env
    /\ Goes("main", "running", "updater")
    /\ UNCHANGED <<env, windows, locals, watching, lampWas>>

BusRebuilt ==
    /\ Stopped("main") /\ at["dog"] /= "none"
    /\ Goes("main", "close", "running")
    /\ UNCHANGED <<env, windows, locals, watching, lampWas>>

Drop ==
    /\ Goes("main", "running", "join")
    /\ watching' = FALSE
    /\ UNCHANGED <<env, windows, locals, lampWas>>

\* MUTANT: the service is restored without waiting for the thread.
MutantJoin ==
    /\ Goes("main", "join", IF lampWas THEN "askStart" ELSE "done")
    /\ UNCHANGED <<env, windows, locals, watching, lampWas>>

Join ==
    /\ at["dog"] = "ended"
    /\ Goes("main", "join", IF lampWas THEN "askStart" ELSE "done")
    /\ UNCHANGED <<env, windows, locals, watching, lampWas>>

\* start_and_wait: the state, the request and the wait.
AskToStart ==
    /\ \/ svc["lamp"] \in {"running", "absent"} /\ Goes("main", "askStart", "done")
       \/ svc["lamp"] = "startPending" /\ Goes("main", "askStart", "waitRun")
       \/ svc["lamp"] \in {"stopped", "stopPending"} /\ Goes("main", "askStart", "startIt")
    /\ UNCHANGED <<env, windows, locals, watching, lampWas>>

StartLamp ==
    /\ \/ Accepts("lamp", "stopped", "startPending") /\ Goes("main", "startIt", "waitRun")
       \/ TurnsDown("lamp", "stopped") /\ Goes("main", "startIt", "done")
    /\ UNCHANGED <<env, proc, locals, watching, lampWas>>

Restored ==
    /\ svc["lamp"] = "running" \/ "slow" \in env
    /\ Goes("main", "waitRun", "done")
    /\ UNCHANGED <<env, windows, locals, watching, lampWas>>

-----------------------------------------------------------------------------
Dog  == DogWakes \/ DogLooks \/ DogSleeps \/ StopBlockers("dog")
Main == \/ Start \/ Started \/ BusRebuilt \/ StopBlockers("main")
        \/ Join \/ AskToStart \/ StartLamp \/ Restored
World == \/ \E s \in Services : ServiceMoves(s)
         \/ \E p \in Pids : ProcessStarts(p) \/ ProcessExits(p)
         \/ LampRecovers

Next == Dog \/ Main \/ RebuildBus \/ Drop \/ World

(***************************************************************************)
(* Both threads run.  A service gets where it is going, unless it is slow, *)
(* and then wait_until has its deadline.  Nobody has to rebuild the bus or *)
(* to end the program, and no process has to exit.                         *)
(***************************************************************************)
Fairness ==
    /\ WF_vars(Dog) /\ WF_vars(Main)
    /\ \A s \in Services : WF_vars("slow" \notin env /\ ServiceMoves(s))

Spec     == Init /\ [][Next]_vars
LiveSpec == Spec /\ Fairness

-----------------------------------------------------------------------------
\* Where a thread is: in stop_blockers, or somewhere of its own.
Stopping == {"updater", "ask", "stop", "wait", "list", "close", "judge"}
Places   == Stopping \cup {"none", "sleep", "look", "ended", "start", "running", "failed",
                           "join", "askStart", "startIt", "waitRun", "done"}

\* Every variable stays within its type.
TypeOK ==
    /\ env \in SUBSET Behaviours
    /\ svc \in [Services -> States] /\ proc \in [Pids -> {"none", "theirs", "other"}]
    /\ at \in [Threads -> Places]
    /\ found \in [Threads -> SUBSET Pids] /\ handle \in [Threads -> Pids \cup {NoPid}]
    /\ lampDown \in [Threads -> BOOLEAN]
    /\ watching \in BOOLEAN /\ lampWas \in BOOLEAN

Without(bs) == env \cap bs = {}

\* process::terminate: an id that was listed as theirs may belong to somebody
\* else's program by the time it is opened, and such a program is never ended.
OnlyTheirsAreClosed ==
    [][Dog \/ Main => \A p \in Pids : proc[p] = "other" => proc'[p] = "other"]_vars

\* The module's documentation: the LampArray service is started again if it was
\* running on arrival.  Whoever leaves it stopped has met a service that refused
\* or was slow; the thread that stops it has ended before it is started.
LampIsGivenBack ==
    Without({"refuse", "slow"}) /\ lampWas /\ at["main"] \in {"done", "failed"}
        => svc["lamp"] \in {"startPending", "running"}

\* stop_and_wait: "a service that refuses to stop answers FALSE", and the caller
\* gives up on it.  A service that does as it is told is never taken for one that
\* refuses, as long as one thread at a time stops it: with "rebuild" the second
\* thread's request meets a service that is stopping, is turned down, and
\* Driver::rebuild_bus reports a refusal that was none.
RefusalIsARefusal ==
    Without({"refuse", "slow", "rebuild", "recover"}) =>
        \A w \in Threads : at[w] = "list" => lampDown[w]

\* Watchdog::start, rebuild_bus and Watchdog::drop come back, however long a
\* service takes and whatever the watchdog is doing when it is told to stop.
MainComesBack ==
    at["main"] /= "running" ~> at["main"] \in {"running", "done", "failed"}

\* The watchdog's whole day: whatever of theirs is running, and a LampArray
\* service that is running, goes down, unless Windows or a service is in the way.
BlockersGoDown ==
    Without({"refuse", "slow", "denied"}) /\ at["main"] = "running" /\ BlockersRunning
        ~> ~BlockersRunning \/ at["main"] /= "running"
=============================================================================
