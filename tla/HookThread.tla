----------------------------- MODULE HookThread -----------------------------
(***************************************************************************)
(* The thread that owns the two low-level hooks (redirect/hook.rs) and the *)
(* engine that starts and stops it (redirect/mod.rs).  Windows keeps a     *)
(* chain of hooks for each kind of input and calls every hook in it, on    *)
(* the thread that installed it and only while that thread waits for a     *)
(* message.  It may refuse a hook, drop one whose callback was too slow    *)
(* and say nothing, have no timer to give, or fail the message loop.  What *)
(* the callbacks decide is in KeyboardRedirect and MouseRedirect.          *)
(***************************************************************************)
EXTENDS FiniteSets

CONSTANTS
    Handles,      \* what Windows may name a hook by
    NoHandle,     \* no hook
    Surroundings  \* the sets of Behaviours a run looks at, each from start to end

(***************************************************************************)
(*   nothread  a thread cannot be started                                  *)
(*   refuse    Windows refuses a hook                                      *)
(*   drop      Windows drops a hook whose callback took too long           *)
(*   notimer   SetTimer fails                                              *)
(*   broken    GetMessage fails                                            *)
(***************************************************************************)
Behaviours == {"nothread", "refuse", "drop", "notimer", "broken"}

Kinds == {"keyboard", "mouse"}

ASSUME HandlesAssumption == NoHandle \notin Handles
ASSUME EnvAssumption     == Surroundings \subseteq SUBSET Behaviours

VARIABLES
    env,        \* the behaviours of this run, chosen once
    installed,  \* INSTALLED
    main,       \* the main thread: where it is in Engine::install or its drop
    answer,     \* what the hook thread has sent down the channel
    pc,         \* the hook thread: where it is in run
    kind,       \* the hook it is about to install, replace or take down
    mine,       \* the handle it keeps for each kind
    old,        \* the handle rearm has just replaced
    timer,      \* it has a timer running
    tick,       \* WM_TIMER is due
    quit,       \* WM_QUIT is in its queue
    chain       \* the hooks of ours that Windows has in its chain of each kind

thread  == <<pc, kind, mine, old>>
queue   == <<timer, tick, quit>>
engine  == <<installed, main>>
vars    == <<env, engine, answer, thread, queue, chain>>

Init ==
    /\ env \in Surroundings
    /\ installed = FALSE
    /\ main = "idle"
    /\ answer = "none"
    /\ pc = "none"
    /\ kind = "keyboard"
    /\ mine = [k \in Kinds |-> NoHandle]
    /\ old = NoHandle
    /\ timer = FALSE /\ tick = FALSE /\ quit = FALSE
    /\ chain = [k \in Kinds |-> {}]

-----------------------------------------------------------------------------
\* Windows: a hook it accepts gets a handle nobody has.

Taken  == {mine[k] : k \in Kinds} \cup {old} \cup UNION {chain[k] : k \in Kinds}
Hooked(k, h) == h \in Handles \ Taken /\ chain' = [chain EXCEPT ![k] = @ \cup {h}]
Refused      == "refuse" \in env /\ UNCHANGED chain

Unhooked(k, h) == chain' = [chain EXCEPT ![k] = @ \ {h}]

\* A callback runs while the thread waits, and takes too long.
WindowsDrops(k) ==
    /\ "drop" \in env /\ pc = "wait"
    /\ \E h \in chain[k] : Unhooked(k, h)
    /\ UNCHANGED <<env, engine, answer, thread, queue>>

TimerFires ==
    /\ timer /\ ~tick
    /\ tick' = TRUE
    /\ UNCHANGED <<env, engine, answer, thread, timer, quit, chain>>

-----------------------------------------------------------------------------
\* The main thread.

\* Engine::install: the flag, and a thread unless none can be had.
Install ==
    /\ main = "idle" /\ ~installed
    /\ \/ main' = "recv" /\ installed' = TRUE /\ pc' = "install"
       \/ "nothread" \in env /\ UNCHANGED <<main, installed, pc>>
    /\ answer' = "none" /\ kind' = "keyboard"
    /\ UNCHANGED <<env, mine, old, queue, chain>>

\* HookThread::spawn returns what the channel says.
Receive ==
    /\ main = "recv" /\ answer /= "none"
    /\ main' = IF answer = "yes" THEN "up" ELSE "idle"
    /\ installed' = (answer = "yes")
    /\ UNCHANGED <<env, answer, thread, queue, chain>>

\* MUTANT: the flag is cleared before the hook thread has ended.
MutantStop ==
    /\ main = "up"
    /\ main' = "join" /\ quit' = (pc /= "ended")
    /\ installed' = FALSE
    /\ UNCHANGED <<env, answer, thread, timer, tick, chain>>

\* Engine::drop: HookThread::stop posts a message the thread may not be there for ...
Stop ==
    /\ main = "up"
    /\ main' = "join" /\ quit' = (pc /= "ended")
    /\ UNCHANGED <<env, installed, answer, thread, timer, tick, chain>>

\* ... and waits for it to end.
Join ==
    /\ main = "join" /\ pc = "ended"
    /\ main' = "idle" /\ installed' = FALSE /\ quit' = FALSE
    /\ UNCHANGED <<env, answer, thread, timer, tick, chain>>

-----------------------------------------------------------------------------
\* The hook thread.  It treats the keyboard first, then the mouse.

\* Turns to the mouse, or goes on with what follows both.
Onward(next) ==
    \/ kind = "keyboard" /\ kind' = "mouse" /\ UNCHANGED pc
    \/ kind = "mouse" /\ kind' = "keyboard" /\ pc' = next

InstallHook ==
    /\ pc = "install"
    /\ \/ \E h \in Handles : Hooked(kind, h) /\ mine' = [mine EXCEPT ![kind] = h]
       \/ Refused /\ UNCHANGED mine
    /\ Onward("judge")
    /\ UNCHANGED <<env, engine, answer, old, queue>>

\* Only with both hooks does the thread go on.
Judge ==
    /\ pc = "judge"
    /\ \/ (\A k \in Kinds : mine[k] /= NoHandle) /\ answer' = "yes" /\ pc' = "timer"
       \/ (\E k \in Kinds : mine[k] = NoHandle) /\ pc' = "down" /\ UNCHANGED answer
    /\ UNCHANGED <<env, engine, kind, mine, old, queue, chain>>

StartTimer ==
    /\ pc = "timer"
    /\ timer' \in {TRUE} \cup {FALSE : b \in env \cap {"notimer"}}
    /\ pc' = "wait"
    /\ UNCHANGED <<env, engine, answer, kind, mine, old, tick, quit, chain>>

\* GetMessage hands out what was posted before it makes up a WM_TIMER.
GetTick ==
    /\ pc = "wait" /\ tick /\ ~quit
    /\ tick' = FALSE /\ pc' = "rearm"
    /\ UNCHANGED <<env, engine, answer, kind, mine, old, timer, quit, chain>>

\* MUTANT: a failing GetMessage is taken for one more message.
MutantLeaveLoop ==
    /\ pc = "wait" /\ quit /\ "broken" \notin env
    /\ pc' = "kill"
    /\ UNCHANGED <<env, engine, answer, kind, mine, old, queue, chain>>

\* WM_QUIT and a failure end the loop alike.
LeaveLoop ==
    /\ pc = "wait" /\ (quit \/ "broken" \in env)
    /\ pc' = "kill"
    /\ UNCHANGED <<env, engine, answer, kind, mine, old, queue, chain>>

\* MUTANT: the old handle is thrown away when Windows refuses a new one.
MutantRearm ==
    /\ pc = "rearm"
    /\ \/ \E h \in Handles : Hooked(kind, h) /\ mine' = [mine EXCEPT ![kind] = h]
       \/ "refuse" \in env /\ UNCHANGED <<mine, chain>>
    /\ old' = mine[kind] /\ pc' = "unhook"
    /\ UNCHANGED <<env, engine, answer, kind, queue>>

\* MUTANT: the hook that was replaced is left in the chain.
MutantRearmLeaks ==
    /\ pc = "rearm"
    /\ \/ \E h \in Handles : Hooked(kind, h) /\ mine' = [mine EXCEPT ![kind] = h]
       \/ Refused /\ UNCHANGED mine
    /\ Onward("wait")
    /\ UNCHANGED <<env, engine, answer, old, queue>>

\* MUTANT: the old handle is kept, and the new hook taken out again.
MutantRearmUndoes ==
    /\ pc = "rearm"
    /\ \/ \E h \in Handles : Hooked(kind, h) /\ old' = h /\ pc' = "unhook"
       \/ Refused /\ pc' = "unhook" /\ UNCHANGED old
    /\ UNCHANGED <<env, engine, answer, kind, mine, queue>>

\* rearm: a fresh hook first, and if Windows refuses it nothing changes.
Rearm ==
    /\ pc = "rearm"
    /\ \/ /\ \E h \in Handles : Hooked(kind, h) /\ mine' = [mine EXCEPT ![kind] = h]
          /\ old' = mine[kind]
          /\ pc' = "unhook" /\ UNCHANGED kind
       \/ Refused /\ UNCHANGED <<mine, old>> /\ Onward("wait")
    /\ UNCHANGED <<env, engine, answer, queue>>

Unhook ==
    /\ pc = "unhook"
    /\ Unhooked(kind, old) /\ old' = NoHandle
    /\ \/ kind = "keyboard" /\ kind' = "mouse" /\ pc' = "rearm"
       \/ kind = "mouse" /\ kind' = "keyboard" /\ pc' = "wait"
    /\ UNCHANGED <<env, engine, answer, mine, queue>>

StopTimer ==
    /\ pc = "kill"
    /\ timer' = FALSE /\ tick' = FALSE
    /\ pc' = "down"
    /\ UNCHANGED <<env, engine, answer, kind, mine, old, quit, chain>>

\* take_down, and at the end of it the answer a failed start still owes.
TakeDown ==
    /\ pc = "down"
    /\ Unhooked(kind, mine[kind])
    /\ mine' = [mine EXCEPT ![kind] = NoHandle]
    /\ Onward("ended")
    /\ answer' = IF kind = "mouse" /\ answer = "none" THEN "no" ELSE answer
    /\ UNCHANGED <<env, engine, old, queue>>

-----------------------------------------------------------------------------
Main   == Install \/ Receive \/ Stop \/ Join
Thread == \/ InstallHook \/ Judge \/ StartTimer \/ GetTick \/ LeaveLoop
          \/ Rearm \/ Unhook \/ StopTimer \/ TakeDown

Next == Main \/ Thread \/ TimerFires \/ \E k \in Kinds : WindowsDrops(k)

(***************************************************************************)
(* Both threads run, and a timer that has been set keeps firing.  Nobody   *)
(* has to install the engine or drop it, and Windows drops no hook unless  *)
(* it likes to.                                                            *)
(***************************************************************************)
Fairness == /\ WF_vars(Receive) /\ WF_vars(Join)
            /\ WF_vars(Thread) /\ WF_vars(TimerFires)

Spec     == Init /\ [][Next]_vars
LiveSpec == Spec /\ Fairness

-----------------------------------------------------------------------------
\* Every variable stays within its type; a hook in a chain has a handle.
TypeOK ==
    /\ env \in SUBSET Behaviours
    /\ installed \in BOOLEAN
    /\ main \in {"idle", "recv", "up", "join"}
    /\ answer \in {"none", "yes", "no"}
    /\ pc \in {"none", "install", "judge", "timer", "wait", "rearm", "unhook",
               "kill", "down", "ended"}
    /\ kind \in Kinds
    /\ mine \in [Kinds -> Handles \cup {NoHandle}]
    /\ old \in Handles \cup {NoHandle}
    /\ timer \in BOOLEAN /\ tick \in BOOLEAN /\ quit \in BOOLEAN
    /\ chain \in [Kinds -> SUBSET Handles]

Without(bs) == env \cap bs = {}

\* INSTALLED (mod.rs) lets no second engine in while the first can still be
\* called: once the flag is clear, no hook of ours is left in any chain, however
\* the thread ended and whichever of the two hooks Windows had refused.
ClearFlagMeansNoHook == ~installed => \A k \in Kinds : chain[k] = {}

\* Windows calls every hook in a chain, so with two of ours an event would be
\* decided twice and its echo counted twice: while callbacks can run, each chain
\* has at most the one hook the thread knows by its handle.
OneCallPerEvent == pc = "wait" => \A k \in Kinds : chain[k] \subseteq {mine[k]}

\* rearm promises that the chain is never without a hook of ours: no step of the
\* thread takes the last one out before the engine is told to stop.
NeverDeafened ==
    [][Thread /\ pc \in {"wait", "rearm", "unhook"}
        => \A k \in Kinds : chain[k] /= {} => chain'[k] /= {}]_vars

\* Engine::drop joins the thread without a time limit: it comes back, whether the
\* message loop is still there to hear the quit message or has failed before.
StopReturns == main = "join" ~> main = "idle"

\* Windows says nothing of a hook it drops, and the redirect is deaf from then
\* on: with a timer running the next tick puts a hook in its place.
HearsAgain ==
    \A k \in Kinds :
        Without({"refuse", "notimer", "broken"}) /\ main = "up" /\ chain[k] = {}
            ~> (pc = "wait" /\ chain[k] /= {}) \/ main /= "up"
=============================================================================
