--------------------------- MODULE Blockers_proofs ---------------------------
(***************************************************************************)
(* What Blockers promises of every step, for every set of process ids and  *)
(* every surroundings.  The two threads run the same code; what keeps them *)
(* apart is when the watchdog's thread exists, and who waits for a service *)
(* that is stopping.                                                       *)
(***************************************************************************)
EXTENDS Blockers, TLAPS

Lamp == svc["lamp"]

\* The watchdog's thread runs between the two ends of the main thread, and only
\* a rebuilt bus makes both stop the blockers at a time.
Turns ==
    /\ at["dog"] \in Stopping \cup {"none", "sleep", "look", "ended"}
    /\ at["dog"] = "none" => at["main"] \in Stopping \cup {"start", "failed"}
    /\ at["main"] \in {"start", "failed"} => at["dog"] = "none"
    /\ at["main"] \in {"askStart", "startIt", "waitRun", "done"} => at["dog"] = "ended"
    /\ at["main"] = "start" => ~lampWas
    /\ "rebuild" \notin env /\ at["dog"] /= "none" => at["main"] \notin Stopping

\* A LampArray service that does as it is told: it stops only under the eyes of
\* a thread that waits for it, and on arrival it is running until it is stopped.
Obedient == Without({"refuse", "slow"})

Waited ==
    /\ lampWas => Lamp /= "absent"
    /\ Obedient /\ Lamp = "stopPending" => \E w \in Threads : at[w] = "wait"
    /\ Obedient => \A w \in Threads : at[w] = "wait" => Lamp \in {"stopPending", "stopped"}

Arrival ==
    Obedient /\ lampWas /\ at["dog"] = "none" =>
        /\ at["main"] \in {"updater", "ask", "stop"} => Lamp = "running"
        /\ at["main"] \in {"list", "close", "judge"} => lampDown["main"]
        /\ at["main"] /= "failed"

Back ==
    Obedient /\ lampWas /\ at["main"] \in {"waitRun", "done"}
        => Lamp \in {"startPending", "running"}

\* With one thread stopping it and no recovery, it is running when it is asked
\* to stop, and a thread that goes on has seen it stopped.
Alone == Without({"refuse", "slow", "rebuild", "recover"})

Asked ==
    Alone =>
        /\ Lamp = "startPending" => at["main"] \in {"waitRun", "done"}
        /\ \A w \in Threads : at[w] = "stop" => Lamp = "running"
        /\ \A w \in Threads : at[w] = "list" => lampDown[w]

IInv == TypeOK /\ Turns /\ Waited /\ Arrival /\ Back /\ Asked

-----------------------------------------------------------------------------
\* A thread that goes somewhere is there, and the other stays where it is.
LEMMA Moved ==
    ASSUME TypeOK, NEW w \in Threads, NEW from, NEW to \in Places, Goes(w, from, to)
    PROVE  /\ at[w] = from /\ at'[w] = to /\ at' \in [Threads -> Places]
           /\ \A v \in Threads : v /= w => at'[v] = at[v]
    BY DEF Goes, TypeOK

\* A request that is accepted changes one service.
LEMMA Requested ==
    ASSUME TypeOK, NEW s \in Services, NEW from, NEW to \in States, Accepts(s, from, to)
    PROVE  /\ svc[s] = from /\ svc'[s] = to /\ svc' \in [Services -> States]
           /\ \A r \in Services : r /= s => svc'[r] = svc[r]
    BY DEF Accepts, TypeOK

LEMMA ToldOne ==
    ASSUME TypeOK, NEW w \in Threads, NEW told \in BOOLEAN, Told(w, told)
    PROVE  /\ lampDown' \in [Threads -> BOOLEAN] /\ lampDown'[w] = told
           /\ \A v \in Threads : v /= w => lampDown'[v] = lampDown[v]
    BY DEF Told, TypeOK

-----------------------------------------------------------------------------
LEMMA InitInv == Init => IInv
<1> SUFFICES ASSUME Init PROVE IInv
    OBVIOUS
<1>1. TypeOK
    BY EnvAssumption DEF Init, TypeOK, Places, Stopping, States
<1>2. at["main"] = "start" /\ at["dog"] = "none" /\ ~lampWas
      /\ svc["lamp"] \in {"absent", "stopped", "running"}
    BY DEF Init, Threads, Services
<1> QED
    BY <1>1, <1>2 DEF IInv, Turns, Waited, Arrival, Back, Asked, Lamp, Stopping, Threads

\* Type correctness, action by action.
LEMMA StepTyped ==
    ASSUME TypeOK, [Next]_vars
    PROVE  TypeOK'
<1> USE DEF Places, Stopping, Threads, Services, States
<1>1. CASE \E w \in Threads : StopUpdater(w)
    BY <1>1, Moved, Requested DEF StopUpdater, TurnsDown, TypeOK, locals
<1>2. CASE \E w \in Threads : AskLamp(w)
    BY <1>2, Moved, ToldOne DEF AskLamp, TypeOK, windows
<1>3. CASE \E w \in Threads : StopLamp(w)
    BY <1>3, Moved, Requested, ToldOne DEF StopLamp, TurnsDown, TypeOK
<1>4. CASE \E w \in Threads : Poll(w) \/ GiveUp(w)
    BY <1>4, Moved, ToldOne DEF Poll, GiveUp, TypeOK, windows
<1>5. CASE \E w \in Threads : List(w)
    BY <1>5, Moved DEF List, TypeOK, windows
<1>6. CASE \E w \in Threads, p \in Pids : OpenProcess(w, p)
    BY <1>6, Moved DEF OpenProcess, TypeOK, windows
<1>7. CASE \E w \in Threads : Judge(w)
    BY <1>7, Moved DEF Judge, TypeOK
<1>8. CASE DogWakes \/ DogLooks \/ DogSleeps
    BY <1>8, Moved DEF DogWakes, DogLooks, DogSleeps, TypeOK, windows, locals
<1>9. CASE Start \/ RebuildBus \/ BusRebuilt \/ Drop \/ Join
    BY <1>9, Moved DEF Start, RebuildBus, BusRebuilt, Drop, Join, TypeOK, windows, locals
<1>10. CASE Started
    BY <1>10 DEF Started, TypeOK, windows, locals
<1>11. CASE AskToStart \/ Restored
    BY <1>11, Moved DEF AskToStart, Restored, TypeOK, windows, locals
<1>12. CASE StartLamp
    BY <1>12, Moved, Requested DEF StartLamp, TurnsDown, TypeOK, locals
<1>13. CASE (\E s \in Services : ServiceMoves(s)) \/ LampRecovers
    BY <1>13, Requested DEF ServiceMoves, LampRecovers, TypeOK, locals
<1>14. CASE \E p \in Pids : ProcessStarts(p) \/ ProcessExits(p)
    BY <1>14 DEF ProcessStarts, ProcessExits, TypeOK, locals
<1>15. CASE UNCHANGED vars
    BY <1>15 DEF vars, windows, locals, TypeOK
<1> QED
    BY <1>1, <1>2, <1>3, <1>4, <1>5, <1>6, <1>7, <1>8, <1>9, <1>10, <1>11, <1>12, <1>13,
       <1>14, <1>15 DEF Next, Dog, Main, World, StopBlockers

\* The rest of the invariant, action by action.  The surroundings never change.
LEMMA Surrounded ==
    ASSUME [Next]_vars
    PROVE  /\ env' = env /\ Obedient' = Obedient /\ Alone' = Alone
           /\ Obedient => "refuse" \notin env /\ "slow" \notin env
           /\ Alone => Obedient /\ "rebuild" \notin env /\ "recover" \notin env
<1>1. env' = env
    BY DEF Next, Dog, Main, World, StopBlockers, StopUpdater, AskLamp, StopLamp, Poll, GiveUp,
           List, OpenProcess, Judge, DogWakes, DogLooks, DogSleeps, Start, Started, RebuildBus,
           BusRebuilt, Drop, Join, AskToStart, StartLamp, Restored, ServiceMoves, LampRecovers,
           ProcessStarts, ProcessExits, vars
<1> QED BY <1>1 DEF Obedient, Alone, Without

LEMMA StepInv == IInv /\ [Next]_vars => IInv'
<1> SUFFICES ASSUME IInv, [Next]_vars PROVE IInv'
    OBVIOUS
<1>0. TypeOK /\ TypeOK'
    BY StepTyped DEF IInv
<1> DEFINE Rest == Turns /\ Waited /\ Arrival /\ Back /\ Asked
<1>a. Rest
    BY DEF IInv
<1>b. /\ env' = env /\ Obedient' = Obedient /\ Alone' = Alone
      /\ Obedient => "refuse" \notin env /\ "slow" \notin env
      /\ Alone => Obedient /\ "rebuild" \notin env /\ "recover" \notin env
    BY Surrounded
<1> USE DEF Places, Stopping, Threads, Services, States, Lamp
<1>1. ASSUME NEW w \in Threads, StopUpdater(w) PROVE Rest'
  <2>1. Turns'
    BY <1>0, <1>a, <1>b, <1>1, Moved, Requested
       DEF StopUpdater, TurnsDown, locals, Turns, Waited, Arrival, Back, Asked
  <2>2. Waited'
    BY <1>0, <1>a, <1>b, <1>1, Moved, Requested
       DEF StopUpdater, TurnsDown, locals, Turns, Waited, Arrival, Back, Asked
  <2>3. Arrival'
    BY <1>0, <1>a, <1>b, <1>1, Moved, Requested
       DEF StopUpdater, TurnsDown, locals, Turns, Waited, Arrival, Back, Asked
  <2>4. Back'
    BY <1>0, <1>a, <1>b, <1>1, Moved, Requested
       DEF StopUpdater, TurnsDown, locals, Turns, Waited, Arrival, Back, Asked
  <2>5. Asked'
    BY <1>0, <1>a, <1>b, <1>1, Moved, Requested
       DEF StopUpdater, TurnsDown, locals, Turns, Waited, Arrival, Back, Asked
  <2> QED BY <2>1, <2>2, <2>3, <2>4, <2>5
<1>2. ASSUME NEW w \in Threads, AskLamp(w) PROVE Rest'
  <2>0. /\ svc' = svc /\ lampWas' = lampWas /\ at[w] = "ask"
        /\ \/ Lamp \in {"absent", "stopped"} /\ at'[w] = "list" /\ lampDown'[w]
           \/ Lamp = "stopPending" /\ at'[w] = "wait"
           \/ Lamp \in {"startPending", "running"} /\ at'[w] = "stop"
        /\ \A v \in Threads : v /= w => at'[v] = at[v] /\ lampDown'[v] = lampDown[v]
    BY <1>0, <1>2, Moved, ToldOne DEF AskLamp, windows
  <2>1. Turns'
    BY <1>0, <1>a, <1>b, <2>0 DEF Turns, Waited, Arrival, Back, Asked
  <2>2. Waited'
    BY <1>0, <1>a, <1>b, <2>0 DEF Turns, Waited, Arrival, Back, Asked
  <2>3. Arrival'
    BY <1>0, <1>a, <1>b, <2>0 DEF Turns, Waited, Arrival, Back, Asked
  <2>4. Back'
    BY <1>0, <1>a, <1>b, <2>0 DEF Turns, Waited, Arrival, Back, Asked
  <2>5. Asked'
    BY <1>0, <1>a, <1>b, <2>0 DEF Turns, Waited, Arrival, Back, Asked
  <2> QED BY <2>1, <2>2, <2>3, <2>4, <2>5
<1>3. ASSUME NEW w \in Threads, StopLamp(w) PROVE Rest'
  <2>0. /\ lampWas' = lampWas /\ at[w] = "stop"
        /\ \/ Lamp = "running" /\ Lamp' = "stopPending" /\ at'[w] = "wait"
           \/ /\ Lamp /= "running" \/ "refuse" \in env
              /\ Lamp' = Lamp /\ at'[w] = "list"
        /\ \A v \in Threads : v /= w => at'[v] = at[v] /\ lampDown'[v] = lampDown[v]
    BY <1>0, <1>3, Moved, Requested, ToldOne DEF StopLamp, TurnsDown
  <2>1. Turns'
    BY <1>0, <1>a, <1>b, <2>0 DEF Turns, Waited, Arrival, Back, Asked
  <2>2. Waited'
    BY <1>0, <1>a, <1>b, <2>0 DEF Turns, Waited, Arrival, Back, Asked
  <2>3. Arrival'
    BY <1>0, <1>a, <1>b, <2>0 DEF Turns, Waited, Arrival, Back, Asked
  <2>4. Back'
    BY <1>0, <1>a, <1>b, <2>0 DEF Turns, Waited, Arrival, Back, Asked
  <2>5. Asked'
    BY <1>0, <1>a, <1>b, <2>0 DEF Turns, Waited, Arrival, Back, Asked
  <2> QED BY <2>1, <2>2, <2>3, <2>4, <2>5
<1>4. ASSUME NEW w \in Threads, Poll(w) \/ GiveUp(w) PROVE Rest'
  <2>0. /\ svc' = svc /\ lampWas' = lampWas /\ at[w] = "wait" /\ at'[w] = "list"
        /\ (Lamp = "stopped" /\ lampDown'[w]) \/ "slow" \in env
        /\ \A v \in Threads : v /= w => at'[v] = at[v] /\ lampDown'[v] = lampDown[v]
    BY <1>0, <1>4, Moved, ToldOne DEF Poll, GiveUp, windows
  <2>1. Turns'
    BY <1>0, <1>a, <1>b, <2>0 DEF Turns, Waited, Arrival, Back, Asked
  <2>2. Waited'
    BY <1>0, <1>a, <1>b, <2>0 DEF Turns, Waited, Arrival, Back, Asked
  <2>3. Arrival'
    BY <1>0, <1>a, <1>b, <2>0 DEF Turns, Waited, Arrival, Back, Asked
  <2>4. Back'
    BY <1>0, <1>a, <1>b, <2>0 DEF Turns, Waited, Arrival, Back, Asked
  <2>5. Asked'
    BY <1>0, <1>a, <1>b, <2>0 DEF Turns, Waited, Arrival, Back, Asked
  <2> QED BY <2>1, <2>2, <2>3, <2>4, <2>5
<1>5. ASSUME NEW w \in Threads, List(w) PROVE Rest'
  <2>1. Turns'
    BY <1>0, <1>a, <1>b, <1>5, Moved
       DEF List, windows, Turns, Waited, Arrival, Back, Asked
  <2>2. Waited'
    BY <1>0, <1>a, <1>b, <1>5, Moved
       DEF List, windows, Turns, Waited, Arrival, Back, Asked
  <2>3. Arrival'
    BY <1>0, <1>a, <1>b, <1>5, Moved
       DEF List, windows, Turns, Waited, Arrival, Back, Asked
  <2>4. Back'
    BY <1>0, <1>a, <1>b, <1>5, Moved
       DEF List, windows, Turns, Waited, Arrival, Back, Asked
  <2>5. Asked'
    BY <1>0, <1>a, <1>b, <1>5, Moved
       DEF List, windows, Turns, Waited, Arrival, Back, Asked
  <2> QED BY <2>1, <2>2, <2>3, <2>4, <2>5
<1>6. ASSUME NEW w \in Threads, NEW p \in Pids, OpenProcess(w, p) PROVE Rest'
  <2>1. Turns'
    BY <1>0, <1>a, <1>b, <1>6, Moved
       DEF OpenProcess, windows, Turns, Waited, Arrival, Back, Asked
  <2>2. Waited'
    BY <1>0, <1>a, <1>b, <1>6, Moved
       DEF OpenProcess, windows, Turns, Waited, Arrival, Back, Asked
  <2>3. Arrival'
    BY <1>0, <1>a, <1>b, <1>6, Moved
       DEF OpenProcess, windows, Turns, Waited, Arrival, Back, Asked
  <2>4. Back'
    BY <1>0, <1>a, <1>b, <1>6, Moved
       DEF OpenProcess, windows, Turns, Waited, Arrival, Back, Asked
  <2>5. Asked'
    BY <1>0, <1>a, <1>b, <1>6, Moved
       DEF OpenProcess, windows, Turns, Waited, Arrival, Back, Asked
  <2> QED BY <2>1, <2>2, <2>3, <2>4, <2>5
<1>7. ASSUME NEW w \in Threads, Judge(w) PROVE Rest'
  <2>1. Turns'
    BY <1>0, <1>a, <1>b, <1>7, Moved
       DEF Judge, Turns, Waited, Arrival, Back, Asked
  <2>2. Waited'
    BY <1>0, <1>a, <1>b, <1>7, Moved
       DEF Judge, Turns, Waited, Arrival, Back, Asked
  <2>3. Arrival'
    BY <1>0, <1>a, <1>b, <1>7, Moved
       DEF Judge, Turns, Waited, Arrival, Back, Asked
  <2>4. Back'
    BY <1>0, <1>a, <1>b, <1>7, Moved
       DEF Judge, Turns, Waited, Arrival, Back, Asked
  <2>5. Asked'
    BY <1>0, <1>a, <1>b, <1>7, Moved
       DEF Judge, Turns, Waited, Arrival, Back, Asked
  <2> QED BY <2>1, <2>2, <2>3, <2>4, <2>5
<1>8. ASSUME DogWakes \/ DogLooks \/ DogSleeps PROVE Rest'
  <2>0. /\ svc' = svc /\ lampWas' = lampWas /\ lampDown' = lampDown /\ at'["main"] = at["main"]
        /\ at["dog"] \in {"sleep", "look", "close"}
        /\ at'["dog"] \in {"sleep", "look", "updater", "ended"}
    BY <1>0, <1>8, Moved DEF DogWakes, DogLooks, DogSleeps, windows, locals
  <2>1. Turns'
    BY <1>0, <1>a, <1>b, <2>0 DEF Turns, Waited, Arrival, Back, Asked
  <2>2. Waited'
    BY <1>0, <1>a, <1>b, <2>0 DEF Turns, Waited, Arrival, Back, Asked
  <2>3. Arrival'
    BY <1>0, <1>a, <1>b, <2>0 DEF Turns, Waited, Arrival, Back, Asked
  <2>4. Back'
    BY <1>0, <1>a, <1>b, <2>0 DEF Turns, Waited, Arrival, Back, Asked
  <2>5. Asked'
    BY <1>0, <1>a, <1>b, <2>0 DEF Turns, Waited, Arrival, Back, Asked
  <2> QED BY <2>1, <2>2, <2>3, <2>4, <2>5
<1>9. ASSUME Start PROVE Rest'
  <2>0. /\ svc' = svc /\ lampDown' = lampDown /\ at'["dog"] = at["dog"]
        /\ at["main"] = "start" /\ at'["main"] = "updater" /\ lampWas' = (Lamp = "running")
    BY <1>0, <1>9, Moved DEF Start, windows, locals
  <2>1. Turns'
    BY <1>0, <1>a, <1>b, <2>0 DEF Turns, Waited, Arrival, Back, Asked
  <2>2. Waited'
    BY <1>0, <1>a, <1>b, <2>0 DEF Turns, Waited, Arrival, Back, Asked
  <2>3. Arrival'
    BY <1>0, <1>a, <1>b, <2>0 DEF Turns, Waited, Arrival, Back, Asked
  <2>4. Back'
    BY <1>0, <1>a, <1>b, <2>0 DEF Turns, Waited, Arrival, Back, Asked
  <2>5. Asked'
    BY <1>0, <1>a, <1>b, <2>0 DEF Turns, Waited, Arrival, Back, Asked
  <2> QED BY <2>1, <2>2, <2>3, <2>4, <2>5
<1>10. ASSUME RebuildBus \/ BusRebuilt PROVE Rest'
  <2>0. /\ svc' = svc /\ lampWas' = lampWas /\ lampDown' = lampDown /\ at'["dog"] = at["dog"]
        /\ \/ at["main"] = "running" /\ at'["main"] = "updater" /\ "rebuild" \in env
           \/ at["main"] = "close" /\ at'["main"] = "running" /\ at["dog"] /= "none"
    BY <1>0, <1>10, Moved DEF RebuildBus, BusRebuilt, windows, locals
  <2>1. Turns'
    BY <1>0, <1>a, <1>b, <2>0 DEF Turns, Waited, Arrival, Back, Asked
  <2>2. Waited'
    BY <1>0, <1>a, <1>b, <2>0 DEF Turns, Waited, Arrival, Back, Asked
  <2>3. Arrival'
    BY <1>0, <1>a, <1>b, <2>0 DEF Turns, Waited, Arrival, Back, Asked
  <2>4. Back'
    BY <1>0, <1>a, <1>b, <2>0 DEF Turns, Waited, Arrival, Back, Asked
  <2>5. Asked'
    BY <1>0, <1>a, <1>b, <2>0 DEF Turns, Waited, Arrival, Back, Asked
  <2> QED BY <2>1, <2>2, <2>3, <2>4, <2>5
<1>11. ASSUME Drop \/ Join PROVE Rest'
  <2>0. /\ svc' = svc /\ lampWas' = lampWas /\ lampDown' = lampDown /\ at'["dog"] = at["dog"]
        /\ \/ at["main"] = "running" /\ at'["main"] = "join"
           \/ /\ at["main"] = "join" /\ at["dog"] = "ended"
              /\ at'["main"] = IF lampWas THEN "askStart" ELSE "done"
    BY <1>0, <1>11, Moved DEF Drop, Join, windows, locals
  <2>1. Turns'
    BY <1>0, <1>a, <1>b, <2>0 DEF Turns, Waited, Arrival, Back, Asked
  <2>2. Waited'
    BY <1>0, <1>a, <1>b, <2>0 DEF Turns, Waited, Arrival, Back, Asked
  <2>3. Arrival'
    BY <1>0, <1>a, <1>b, <2>0 DEF Turns, Waited, Arrival, Back, Asked
  <2>4. Back'
    BY <1>0, <1>a, <1>b, <2>0 DEF Turns, Waited, Arrival, Back, Asked
  <2>5. Asked'
    BY <1>0, <1>a, <1>b, <2>0 DEF Turns, Waited, Arrival, Back, Asked
  <2> QED BY <2>1, <2>2, <2>3, <2>4, <2>5
<1>12. ASSUME Started PROVE Rest'
  <2>1. Turns'
    BY <1>0, <1>a, <1>b, <1>12
       DEF TypeOK, Started, Stopped, windows, locals, Turns, Waited, Arrival, Back, Asked
  <2>2. Waited'
    BY <1>0, <1>a, <1>b, <1>12
       DEF TypeOK, Started, Stopped, windows, locals, Turns, Waited, Arrival, Back, Asked
  <2>3. Arrival'
    BY <1>0, <1>a, <1>b, <1>12
       DEF TypeOK, Started, Stopped, windows, locals, Turns, Waited, Arrival, Back, Asked
  <2>4. Back'
    BY <1>0, <1>a, <1>b, <1>12
       DEF TypeOK, Started, Stopped, windows, locals, Turns, Waited, Arrival, Back, Asked
  <2>5. Asked'
    BY <1>0, <1>a, <1>b, <1>12
       DEF TypeOK, Started, Stopped, windows, locals, Turns, Waited, Arrival, Back, Asked
  <2> QED BY <2>1, <2>2, <2>3, <2>4, <2>5
<1>13. ASSUME AskToStart \/ Restored PROVE Rest'
  <2>0. /\ svc' = svc /\ lampWas' = lampWas /\ lampDown' = lampDown /\ at'["dog"] = at["dog"]
        /\ \/ /\ at["main"] = "askStart"
              /\ \/ Lamp \in {"running", "absent"} /\ at'["main"] = "done"
                 \/ Lamp = "startPending" /\ at'["main"] = "waitRun"
                 \/ Lamp \in {"stopped", "stopPending"} /\ at'["main"] = "startIt"
           \/ at["main"] = "waitRun" /\ at'["main"] = "done"
    BY <1>0, <1>13, Moved DEF AskToStart, Restored, windows, locals
  <2>1. Turns'
    BY <1>0, <1>a, <1>b, <2>0 DEF Turns, Waited, Arrival, Back, Asked
  <2>2. Waited'
    BY <1>0, <1>a, <1>b, <2>0 DEF Turns, Waited, Arrival, Back, Asked
  <2>3. Arrival'
    BY <1>0, <1>a, <1>b, <2>0 DEF Turns, Waited, Arrival, Back, Asked
  <2>4. Back'
    BY <1>0, <1>a, <1>b, <2>0 DEF Turns, Waited, Arrival, Back, Asked
  <2>5. Asked'
    BY <1>0, <1>a, <1>b, <2>0 DEF Turns, Waited, Arrival, Back, Asked
  <2> QED BY <2>1, <2>2, <2>3, <2>4, <2>5
<1>14. ASSUME StartLamp PROVE Rest'
  <2>1. Turns'
    BY <1>0, <1>a, <1>b, <1>14, Moved, Requested
       DEF StartLamp, TurnsDown, locals, TypeOK, Turns, Waited, Arrival, Back, Asked
  <2>2. Waited'
    BY <1>0, <1>a, <1>b, <1>14, Moved, Requested
       DEF StartLamp, TurnsDown, locals, TypeOK, Turns, Waited, Arrival, Back, Asked
  <2>3. Arrival'
    BY <1>0, <1>a, <1>b, <1>14, Moved, Requested
       DEF StartLamp, TurnsDown, locals, TypeOK, Turns, Waited, Arrival, Back, Asked
  <2>4. Back'
    BY <1>0, <1>a, <1>b, <1>14, Moved, Requested
       DEF StartLamp, TurnsDown, locals, TypeOK, Turns, Waited, Arrival, Back, Asked
  <2>5. Asked'
    BY <1>0, <1>a, <1>b, <1>14, Moved, Requested
       DEF StartLamp, TurnsDown, locals, TypeOK, Turns, Waited, Arrival, Back, Asked
  <2> QED BY <2>1, <2>2, <2>3, <2>4, <2>5
<1>15. ASSUME (\E s \in Services : ServiceMoves(s)) \/ LampRecovers PROVE Rest'
  <2>0. /\ at' = at /\ lampWas' = lampWas /\ lampDown' = lampDown
        /\ \/ Lamp' = Lamp
           \/ Lamp = "stopPending" /\ Lamp' = "stopped"
           \/ Lamp = "startPending" /\ Lamp' = "running"
           \/ /\ Lamp = "stopped" /\ Lamp' = "startPending" /\ "recover" \in env
              /\ \A w \in Threads : at[w] /= "wait"
    BY <1>0, <1>15, Requested DEF ServiceMoves, LampRecovers, locals
  <2>1. Turns'
    BY <1>0, <1>a, <1>b, <2>0 DEF Turns, Waited, Arrival, Back, Asked
  <2>2. Waited'
    BY <1>0, <1>a, <1>b, <2>0 DEF Turns, Waited, Arrival, Back, Asked
  <2>3. Arrival'
    BY <1>0, <1>a, <1>b, <2>0 DEF Turns, Waited, Arrival, Back, Asked
  <2>4. Back'
    BY <1>0, <1>a, <1>b, <2>0 DEF Turns, Waited, Arrival, Back, Asked
  <2>5. Asked'
    BY <1>0, <1>a, <1>b, <2>0 DEF Turns, Waited, Arrival, Back, Asked
  <2> QED BY <2>1, <2>2, <2>3, <2>4, <2>5
<1>16. ASSUME \E p \in Pids : ProcessStarts(p) \/ ProcessExits(p) PROVE Rest'
  <2>1. Turns'
    BY <1>0, <1>a, <1>b, <1>16
       DEF ProcessStarts, ProcessExits, locals, Turns, Waited, Arrival, Back, Asked
  <2>2. Waited'
    BY <1>0, <1>a, <1>b, <1>16
       DEF ProcessStarts, ProcessExits, locals, Turns, Waited, Arrival, Back, Asked
  <2>3. Arrival'
    BY <1>0, <1>a, <1>b, <1>16
       DEF ProcessStarts, ProcessExits, locals, Turns, Waited, Arrival, Back, Asked
  <2>4. Back'
    BY <1>0, <1>a, <1>b, <1>16
       DEF ProcessStarts, ProcessExits, locals, Turns, Waited, Arrival, Back, Asked
  <2>5. Asked'
    BY <1>0, <1>a, <1>b, <1>16
       DEF ProcessStarts, ProcessExits, locals, Turns, Waited, Arrival, Back, Asked
  <2> QED BY <2>1, <2>2, <2>3, <2>4, <2>5
<1>17. ASSUME UNCHANGED vars PROVE Rest'
  <2>1. Turns'
    BY <1>0, <1>a, <1>b, <1>17
       DEF vars, windows, locals, Turns, Waited, Arrival, Back, Asked
  <2>2. Waited'
    BY <1>0, <1>a, <1>b, <1>17
       DEF vars, windows, locals, Turns, Waited, Arrival, Back, Asked
  <2>3. Arrival'
    BY <1>0, <1>a, <1>b, <1>17
       DEF vars, windows, locals, Turns, Waited, Arrival, Back, Asked
  <2>4. Back'
    BY <1>0, <1>a, <1>b, <1>17
       DEF vars, windows, locals, Turns, Waited, Arrival, Back, Asked
  <2>5. Asked'
    BY <1>0, <1>a, <1>b, <1>17
       DEF vars, windows, locals, Turns, Waited, Arrival, Back, Asked
  <2> QED BY <2>1, <2>2, <2>3, <2>4, <2>5
<1>18. Rest'
    BY <1>1, <1>2, <1>3, <1>4, <1>5, <1>6, <1>7, <1>8, <1>9,
       <1>10, <1>11, <1>12, <1>13, <1>14, <1>15, <1>16, <1>17
       DEF Next, Dog, Main, World, StopBlockers
<1> QED BY <1>0, <1>18 DEF IInv

LEMMA Inductive == Spec => []IInv
    BY InitInv, StepInv, PTL DEF Spec

-----------------------------------------------------------------------------
\* Every variable of the blockers keeps its type.
THEOREM TypeCorrect == Spec => []TypeOK
    BY Inductive, PTL DEF IInv

\* The LampArray service that was running on arrival is given back, for every
\* interleaving of the two threads with Windows' recovery restart, as long as
\* the service does as it is told in time.
THEOREM LampBack == Spec => []LampIsGivenBack
<1>1. IInv => LampIsGivenBack
    BY DEF IInv, Arrival, Back, Turns, Obedient, Lamp, LampIsGivenBack
<1> QED BY <1>1, Inductive, PTL

\* One thread at a time never takes an obedient service for one that refuses.
THEOREM NoFalseRefusal == Spec => []RefusalIsARefusal
<1>1. IInv => RefusalIsARefusal
    BY DEF IInv, Asked, Alone, RefusalIsARefusal
<1> QED BY <1>1, Inductive, PTL

\* However ids are reused between the snapshot and the handle, no program of
\* somebody else is ended.
THEOREM OnlyTheirs == Spec => OnlyTheirsAreClosed
<1> DEFINE Spared == Dog \/ Main => \A p \in Pids : proc[p] = "other" => proc'[p] = "other"
<1>1. [Next]_vars => [Spared]_vars
    BY DEF Dog, Main, StopBlockers, StopUpdater, AskLamp, StopLamp, Poll, GiveUp, List,
           OpenProcess, Judge, DogWakes, DogLooks, DogSleeps, Start, Started, BusRebuilt,
           Join, AskToStart, StartLamp, Restored, windows
<1> QED BY <1>1, PTL DEF Spec, OnlyTheirsAreClosed
=============================================================================
