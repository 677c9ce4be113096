------------------------ MODULE Installation_proofs -------------------------
(***************************************************************************)
(* Proofs about Installation, for every surroundings: whatever fails, is   *)
(* killed, is kept open or is refused, in any combination, over any number *)
(* of sessions and restarts.                                               *)
(***************************************************************************)
EXTENDS Installation, TLAPS

-----------------------------------------------------------------------------
(***************************************************************************)
(* The inductive invariant.  Booked ties the driver store to what is on    *)
(* disk, and is what the other parts rest on.                              *)
(***************************************************************************)

\* A binary belongs to a package that is published or is about to change; what
\* a restart will copy is published, over a binary that is there; the loops that
\* delete have all of it left.
Booked ==
    /\ \A p \in Packages, b \in Builds :
          file[p] = b => <<p, b>> \in store \/ later[p] /= "same"
    /\ \A p \in Packages : later[p] = "ours" => <<p, "ours">> \in store
    /\ \A p \in Packages : file[p] = "none" => later[p] = "same"
    /\ pc \in {"replace", "uninstall"} => todo = store

\* Which build of the bus is there on the way to the menu.  As long as nobody
\* has asked for a restart it is not the other one, and only who keeps the driver
\* open can have kept the bus from being bound.
Bound == file["bus"] /= "none" \/ "held" \in env

Speaks ==
    Without({"unread"}) =>
        /\ pc \in {"sanitize", "rebind"} => file["bus"] /= "other"
        /\ pc \in {"open", "menu"} => file["bus"] /= "other" /\ Bound
        /\ pc = "addBus" => file["bus"] /= "other" \/ later["bus"] /= "same"
        /\ pc \in {"addHid", "bind", "await", "check"} /\ finished = "Now"
             => file["bus"] /= "other"
        /\ pc \in {"await", "check"} => Bound

\* What a removal has done by the time it writes its note.
Cleaned ==
    /\ pc \in {"uninstall", "mark"} /\ Without({"refuse"}) => roots = 0
    /\ pc = "mark" => store = {}
    /\ RemovedLeavesNothing

\* The note is given up only by a session that has met a driver which answers,
\* and written only where a removal has gone through; between the gate and the
\* next removal it is not there.
Noted ==
    Without({"fail", "kill", "oldFlag"}) =>
        /\ pc = "mark" => owed /\ ~answered
        /\ pc /= "mark" => (flag <=> owed /\ ~answered)
        /\ pc \notin {"off", "gate"} => ~flag
        /\ flag => ~lasting

\* The other build leaves with the restart, unless no session has touched it.
Leaves == \A p \in Packages : file[p] = "other" => later[p] /= "same"

Told ==
    Without({"fail", "kill"}) =>
        /\ pc \in {"addBus", "addHid", "bind", "await", "check"} => Leaves
        /\ pc \notin {"replace", "uninstall"} =>
              (file["bus"] = "none" \/ later["bus"] = "none" => Leaves)
        /\ pc = "off" /\ said = "restartRequired" => Leaves
        /\ said = "restarted" => ~Mismatch

IInv == TypeOK /\ Booked /\ Speaks /\ Cleaned /\ Noted /\ Told

-----------------------------------------------------------------------------
\* What a deletion comes to, at once or at the next start.
LEMMA Deletion ==
    ASSUME TypeOK, NEW x \in Published, Deletes(x) \/ DeletesLater(x)
    PROVE  /\ x[1] \in Packages /\ x[2] \in Builds /\ x = <<x[1], x[2]>>
           /\ store' = store \ {x}
           /\ file' \in [Packages -> Builds \cup {"none"}]
           /\ later' \in [Packages -> {"same", "none", "ours"}]
           /\ \A p \in Packages :
                 /\ file'[p] \in {file[p], "none"}
                 /\ later'[p] \in {later[p], "none"}
                 /\ (file[p] = "none" => later[p] = "same")
                       => (file'[p] = "none" => later'[p] = "same")
           /\ file'[x[1]] = x[2] => later'[x[1]] /= "same"
           /\ later'[x[1]] = "ours" => x[2] /= "ours"
           /\ roots' = roots
           /\ running' \in BOOLEAN
<1> USE DEF TypeOK, Published, Packages, Builds, MayStop
<1>1. x[1] \in Packages /\ x[2] \in Builds /\ x = <<x[1], x[2]>>
    OBVIOUS
<1>2. CASE Deletes(x)
    BY <1>1, <1>2 DEF Deletes
<1>3. CASE DeletesLater(x)
    <2>1. /\ store' = store \ {x} /\ roots' = roots /\ file' = file
          /\ later' \in [Packages -> {"same", "none", "ours"}]
        BY <1>1, <1>3 DEF DeletesLater
    <2>2. \A p \in Packages : later'[p] \in {later[p], "none"}
        BY <1>1, <1>3 DEF DeletesLater
    <2>3. file[x[1]] = x[2] /\ file'[x[1]] = x[2] /\ later'[x[1]] = "none"
        BY <1>1, <1>3 DEF DeletesLater
    <2>4. running' \in BOOLEAN
        BY <1>3 DEF DeletesLater
    <2>5. ASSUME NEW p \in Packages, file[p] = "none" => later[p] = "same", file'[p] = "none"
          PROVE  later'[p] = "same"
        BY <1>1, <1>3, <2>1, <2>3, <2>5 DEF DeletesLater
    <2> QED BY <1>1, <2>1, <2>2, <2>3, <2>4, <2>5
<1> QED BY <1>2, <1>3

-----------------------------------------------------------------------------
\* Type correctness, one step for each action.

LEMMA DeleteTyped ==
    ASSUME TypeOK, NEW place \in {"replace", "uninstall"}, Delete(place)
    PROVE  TypeOK'
<1> USE DEF TypeOK, Places, Requests, Answers, At, note
<1>1. PICK x \in todo : Deletes(x) \/ DeletesLater(x) \/ Untouched
    BY DEF Delete
<1>2. x \in Published
    OBVIOUS
<1>3. /\ store' \in SUBSET Published
      /\ file' \in [Packages -> Builds \cup {"none"}]
      /\ later' \in [Packages -> {"same", "none", "ours"}]
      /\ roots' = roots
    BY <1>1, <1>2, Deletion DEF Untouched, windows
<1>4. running' \in BOOLEAN
    BY <1>1, <1>2, Deletion DEF Untouched, windows
<1>5. /\ pc' \in Places /\ request' \in Requests /\ said' \in Answers
      /\ todo' \in SUBSET Published /\ (todo' /= {} => pc' \in {"replace", "uninstall"})
      /\ finished' \in {"Now", "AfterRestart"}
    BY DEF Delete, Go, End
<1> QED BY <1>3, <1>4, <1>5 DEF Delete

LEMMA TypeNext ==
    ASSUME TypeOK, [Next]_vars
    PROVE  TypeOK'
<1> USE DEF TypeOK, Service, Places, Published, Packages, Builds, Requests, Answers,
           At, windows, note, session
<1>1. CASE NothingToRemove
    BY <1>1 DEF NothingToRemove, End
<1>2. CASE OfferRestart
    BY <1>2 DEF OfferRestart, End
<1>3. CASE Enter
    BY <1>3 DEF Enter, ClearsNote, Go, End, Kept
<1>4. CASE Connect
    <2>1. running' \in BOOLEAN
        BY <1>4 DEF Connect, MayStop
    <2>2. pc' \in Places /\ request' \in Requests /\ said' \in Answers
        BY <1>4 DEF Connect, Go, End
    <2>3. /\ todo' \in SUBSET Published /\ (todo' /= {} => pc' \in {"replace", "uninstall"})
          /\ finished' \in {"Now", "AfterRestart"}
        BY <1>4 DEF Connect, Go, End, Kept, Listed
    <2>4. /\ env' = env /\ mended' = mended /\ store' = store /\ file' = file
          /\ later' = later /\ roots' = roots /\ note' = note
        BY <1>4 DEF Connect
    <2> QED BY <2>1, <2>2, <2>3, <2>4
<1>5. CASE Sanitize
    BY <1>5 DEF Sanitize, Go, Kept, RemovesRoots
<1>6. CASE Delete("replace")
    BY <1>6, DeleteTyped
<1>7. CASE Replaced
    BY <1>7 DEF Replaced, Go, Kept
<1>8. CASE Add("addBus", "bus", "addHid")
    BY <1>8 DEF Add, Go, End, Kept, Adds, AddsLater, Copies, CopiesLater, Untouched
<1>9. CASE Add("addHid", "hid", "bind")
    BY <1>9 DEF Add, Go, End, Kept, Adds, AddsLater, Copies, CopiesLater, Untouched
<1>10. CASE Bind
    BY <1>10 DEF Bind, Go, End, Kept, Binds, BindsLater, BindFails, WithRoot, Copies,
           CopiesLater, Vetoed
<1>11. CASE Rebind
    BY <1>11 DEF Rebind, Go, End, Kept, Binds, BindsLater, BindFails, WithRoot,
           Copies, CopiesLater, Vetoed
<1>12. CASE Await
    <2>1. running' \in BOOLEAN
        BY <1>12 DEF Await
    <2>2. pc' \in Places /\ request' \in Requests /\ said' \in Answers
        BY <1>12 DEF Await, Go, End
    <2>3. /\ todo' \in SUBSET Published /\ (todo' /= {} => pc' \in {"replace", "uninstall"})
          /\ finished' \in {"Now", "AfterRestart"}
        BY <1>12 DEF Await, Go, End, Kept
    <2>4. /\ env' = env /\ mended' = mended /\ store' = store /\ file' = file
          /\ later' = later /\ roots' = roots /\ note' = note
        BY <1>12 DEF Await
    <2> QED BY <2>1, <2>2, <2>3, <2>4
<1>13. CASE Check
    BY <1>13 DEF Check, Go, End, Kept
<1>14. CASE Open
    <2>1. running' \in BOOLEAN /\ flag' \in BOOLEAN
        BY <1>14 DEF Open, ClearsNote
    <2>2. /\ pc' \in Places /\ request' \in Requests /\ said' \in Answers
          /\ todo' \in SUBSET Published /\ (todo' /= {} => pc' \in {"replace", "uninstall"})
          /\ finished' \in {"Now", "AfterRestart"}
        BY <1>14 DEF Open, Go, End, Kept
    <2>3. /\ env' = env /\ mended' = mended /\ store' = store /\ file' = file
          /\ later' = later /\ roots' = roots /\ lasting' = lasting /\ owed' = owed
          /\ answered' = answered
        BY <1>14 DEF Open
    <2> QED BY <2>1, <2>2, <2>3
<1>15. CASE ForceUninstall
    <2>1. running' \in BOOLEAN
        BY <1>15 DEF ForceUninstall, MayStop, RemovesRoots
    <2>2. pc' \in Places /\ request' \in Requests /\ said' \in Answers
        BY <1>15 DEF ForceUninstall, Go, End
    <2>3. /\ todo' \in SUBSET Published /\ (todo' /= {} => pc' \in {"replace", "uninstall"})
          /\ finished' \in {"Now", "AfterRestart"}
        BY <1>15 DEF ForceUninstall, Go, End, Listed
    <2>4. /\ env' = env /\ mended' = mended /\ store' = store /\ file' = file
          /\ later' = later /\ note' = note
        BY <1>15 DEF ForceUninstall
    <2>5. roots' \in 0..2
        BY <1>15 DEF ForceUninstall, RemovesRoots
    <2> QED BY <2>1, <2>2, <2>3, <2>4, <2>5
<1>16. CASE Delete("uninstall")
    BY <1>16, DeleteTyped
<1>17. CASE Uninstalled
    BY <1>17 DEF Uninstalled, Go, Kept
<1>18. CASE Mark
    BY <1>18 DEF Mark, End
<1>19. CASE Quit
    BY <1>19 DEF Quit, End
<1>20. CASE AskRemoval
    BY <1>20 DEF AskRemoval, Go, Kept
<1>21. CASE \E r \in Requests : Launch(r)
    BY <1>21 DEF Launch
<1>22. CASE Killed
    BY <1>22 DEF Killed, End
<1>23. CASE Restart
    BY <1>23 DEF Restart
<1>24. CASE Mend
    BY <1>24 DEF Mend
<1>25. CASE UNCHANGED vars
    BY <1>25 DEF vars, session
<1> QED
    BY <1>1, <1>2, <1>3, <1>4, <1>5, <1>6, <1>7, <1>8, <1>9, <1>10, <1>11, <1>12,
       <1>13, <1>14, <1>15, <1>16, <1>17, <1>18, <1>19, <1>20, <1>21, <1>22, <1>23, <1>24, <1>25
    DEF Next, SessionStep, User

-----------------------------------------------------------------------------
\* The store and the disk agree, because the loops delete every package.

LEMMA DeleteBooked ==
    ASSUME TypeOK, Booked, NEW place \in {"replace", "uninstall"}, Delete(place)
    PROVE  Booked'
<1> USE DEF TypeOK, Booked, At
<1>1. CASE pc' = "off"
    <2>1. PICK x \in todo : Deletes(x) \/ DeletesLater(x) \/ Untouched
        BY DEF Delete
    <2> QED BY <1>1, <2>1, Deletion DEF Untouched, windows, Builds
<1>2. CASE pc' /= "off"
    <2>1. PICK x \in todo : (Deletes(x) \/ DeletesLater(x)) /\ todo' = todo \ {x}
        BY <1>2 DEF Delete, End
    <2> QED BY <1>2, <2>1, Deletion DEF Delete, Go, Builds
<1> QED BY <1>1, <1>2

LEMMA BookedNext ==
    ASSUME TypeOK, Booked, [Next]_vars
    PROVE  Booked'
<1> USE DEF TypeOK, Booked, Published, Packages, Builds, At, windows, note, session
<1>1. CASE NothingToRemove
    BY <1>1 DEF NothingToRemove, End
<1>2. CASE OfferRestart
    BY <1>2 DEF OfferRestart, End
<1>3. CASE Enter
    BY <1>3 DEF Enter, ClearsNote, Go, End, Kept
<1>4. CASE Connect
    BY <1>4 DEF Connect, Go, End, Kept, MayStop, Listed
<1>5. CASE Sanitize
    BY <1>5 DEF Sanitize, Go, Kept, RemovesRoots
<1>6. CASE Delete("replace")
    BY <1>6, DeleteBooked
<1>7. CASE Replaced
    BY <1>7 DEF Replaced, Go, Kept
<1>8. CASE Add("addBus", "bus", "addHid")
    BY <1>8 DEF Add, Go, End, Kept, Adds, AddsLater, Copies, CopiesLater, Untouched
<1>9. CASE Add("addHid", "hid", "bind")
    BY <1>9 DEF Add, Go, End, Kept, Adds, AddsLater, Copies, CopiesLater, Untouched
<1>10. CASE Bind
    BY <1>10 DEF Bind, Go, End, Kept, Binds, BindsLater, BindFails, WithRoot, Copies,
           CopiesLater, Vetoed
<1>11. CASE Rebind
    BY <1>11 DEF Rebind, Go, End, Kept, Binds, BindsLater, BindFails, WithRoot,
           Copies, CopiesLater, Vetoed
<1>12. CASE Await
    BY <1>12 DEF Await, Go, End, Kept
<1>13. CASE Check
    BY <1>13 DEF Check, Go, End, Kept
<1>14. CASE Open
    BY <1>14 DEF Open, ClearsNote, Go, End, Kept
<1>15. CASE ForceUninstall
    BY <1>15 DEF ForceUninstall, Go, End, MayStop, RemovesRoots, Listed
<1>16. CASE Delete("uninstall")
    BY <1>16, DeleteBooked
<1>17. CASE Uninstalled
    BY <1>17 DEF Uninstalled, Go, Kept
<1>18. CASE Mark
    BY <1>18 DEF Mark, End
<1>19. CASE Quit
    BY <1>19 DEF Quit, End
<1>20. CASE AskRemoval
    BY <1>20 DEF AskRemoval, Go, Kept
<1>21. CASE \E r \in Requests : Launch(r)
    BY <1>21 DEF Launch
<1>22. CASE Killed
    BY <1>22 DEF Killed, End
<1>23. CASE Restart
    BY <1>23 DEF Restart
<1>24. CASE Mend
    BY <1>24 DEF Mend
<1>25. CASE UNCHANGED vars
    BY <1>25 DEF vars, session
<1> QED
    BY <1>1, <1>2, <1>3, <1>4, <1>5, <1>6, <1>7, <1>8, <1>9, <1>10, <1>11, <1>12,
       <1>13, <1>14, <1>15, <1>16, <1>17, <1>18, <1>19, <1>20, <1>21, <1>22, <1>23, <1>24, <1>25
    DEF Next, SessionStep, User

-----------------------------------------------------------------------------
\* The build on the way to the menu.

LEMMA SpeaksNext ==
    ASSUME TypeOK, Booked, Speaks, [Next]_vars
    PROVE  Speaks'
<1> USE DEF TypeOK, Booked, Speaks, Bound, Without, Faulty, Service, Mismatch, NoMismatch, Packages, Builds, At,
           windows, note, session
<1>1. CASE NothingToRemove
    BY <1>1 DEF NothingToRemove, End
<1>2. CASE OfferRestart
    BY <1>2 DEF OfferRestart, End
<1>3. CASE Enter
    BY <1>3 DEF Enter, ClearsNote, Go, End, Kept
<1>4. CASE Connect
    BY <1>4 DEF Connect, Go, End, Kept, MayStop, Listed
<1>5. CASE Sanitize
    BY <1>5 DEF Sanitize, Go, Kept, RemovesRoots
<1>6. CASE Delete("replace")
    BY <1>6 DEF Delete, Go, End, Turn, Deletes, DeletesLater, Untouched
<1>7. CASE Replaced
    BY <1>7 DEF Replaced, Go, Kept
<1>8. CASE Add("addBus", "bus", "addHid")
    BY <1>8 DEF Add, Go, End, Kept, Adds, AddsLater, Copies, CopiesLater, Untouched
<1>9. CASE Add("addHid", "hid", "bind")
    BY <1>9 DEF Add, Go, End, Kept, Adds, AddsLater, Copies, CopiesLater, Untouched
<1>10. CASE Bind
    BY <1>10 DEF Bind, Go, End, Kept, Binds, BindsLater, BindFails, WithRoot, Copies,
           CopiesLater, Vetoed
<1>11. CASE Rebind
    BY <1>11 DEF Rebind, Go, End, Kept, Binds, BindsLater, BindFails, WithRoot,
           Copies, CopiesLater, Vetoed
<1>12. CASE Await
    BY <1>12 DEF Await, Go, End, Kept
<1>13. CASE Check
    BY <1>13 DEF Check, Go, End, Kept
<1>14. CASE Open
    BY <1>14 DEF Open, ClearsNote, Go, End, Kept
<1>15. CASE ForceUninstall
    BY <1>15 DEF ForceUninstall, Go, End, MayStop, RemovesRoots, Listed
<1>16. CASE Delete("uninstall")
    BY <1>16 DEF Delete, Go, End, Turn, Deletes, DeletesLater, Untouched
<1>17. CASE Uninstalled
    BY <1>17 DEF Uninstalled, Go, Kept
<1>18. CASE Mark
    BY <1>18 DEF Mark, End
<1>19. CASE Quit
    BY <1>19 DEF Quit, End
<1>20. CASE AskRemoval
    BY <1>20 DEF AskRemoval, Go, Kept
<1>21. CASE \E r \in Requests : Launch(r)
    BY <1>21 DEF Launch
<1>22. CASE Killed
    BY <1>22 DEF Killed, End
<1>23. CASE Restart
    BY <1>23 DEF Restart
<1>24. CASE Mend
    BY <1>24 DEF Mend
<1>25. CASE UNCHANGED vars
    BY <1>25 DEF vars, session
<1> QED
    BY <1>1, <1>2, <1>3, <1>4, <1>5, <1>6, <1>7, <1>8, <1>9, <1>10, <1>11, <1>12,
       <1>13, <1>14, <1>15, <1>16, <1>17, <1>18, <1>19, <1>20, <1>21, <1>22, <1>23, <1>24, <1>25
    DEF Next, SessionStep, User

-----------------------------------------------------------------------------
\* What a removal leaves.

LEMMA CleanedNext ==
    ASSUME TypeOK, Booked, Cleaned, [Next]_vars
    PROVE  Cleaned'
<1> USE DEF TypeOK, Booked, Cleaned, RemovedLeavesNothing, Without, Faulty,
           Packages, Builds, Published, At, windows, note, session
<1>1. CASE NothingToRemove
    BY <1>1 DEF NothingToRemove, End
<1>2. CASE OfferRestart
    BY <1>2 DEF OfferRestart, End
<1>3. CASE Enter
    BY <1>3 DEF Enter, ClearsNote, Go, End, Kept
<1>4. CASE Connect
    BY <1>4 DEF Connect, Go, End, Kept, MayStop, Listed
<1>5. CASE Sanitize
    BY <1>5 DEF Sanitize, Go, Kept, RemovesRoots
<1>6. CASE Delete("replace")
    BY <1>6 DEF Delete, Go, End, Turn, Deletes, DeletesLater, Untouched
<1>7. CASE Replaced
    BY <1>7 DEF Replaced, Go, Kept
<1>8. CASE Add("addBus", "bus", "addHid")
    BY <1>8 DEF Add, Go, End, Kept, Adds, AddsLater, Copies, CopiesLater, Untouched
<1>9. CASE Add("addHid", "hid", "bind")
    BY <1>9 DEF Add, Go, End, Kept, Adds, AddsLater, Copies, CopiesLater, Untouched
<1>10. CASE Bind
    BY <1>10 DEF Bind, Go, End, Kept, Binds, BindsLater, BindFails, WithRoot, Copies,
           CopiesLater, Vetoed
<1>11. CASE Rebind
    BY <1>11 DEF Rebind, Go, End, Kept, Binds, BindsLater, BindFails, WithRoot,
           Copies, CopiesLater, Vetoed
<1>12. CASE Await
    BY <1>12 DEF Await, Go, End, Kept
<1>13. CASE Check
    BY <1>13 DEF Check, Go, End, Kept
<1>14. CASE Open
    BY <1>14 DEF Open, ClearsNote, Go, End, Kept
<1>15. CASE ForceUninstall
    BY <1>15 DEF ForceUninstall, Go, End, MayStop, RemovesRoots, Listed
<1>16. CASE Delete("uninstall")
    BY <1>16 DEF Delete, Go, End, Turn, Deletes, DeletesLater, Untouched
<1>17. CASE Uninstalled
    BY <1>17 DEF Uninstalled, Go, Kept
<1>18. CASE Mark
    BY <1>18 DEF Mark, End
<1>19. CASE Quit
    BY <1>19 DEF Quit, End
<1>20. CASE AskRemoval
    BY <1>20 DEF AskRemoval, Go, Kept
<1>21. CASE \E r \in Requests : Launch(r)
    BY <1>21 DEF Launch
<1>22. CASE Killed
    BY <1>22 DEF Killed, End
<1>23. CASE Restart
    BY <1>23 DEF Restart
<1>24. CASE Mend
    BY <1>24 DEF Mend
<1>25. CASE UNCHANGED vars
    BY <1>25 DEF vars, session
<1> QED
    BY <1>1, <1>2, <1>3, <1>4, <1>5, <1>6, <1>7, <1>8, <1>9, <1>10, <1>11, <1>12,
       <1>13, <1>14, <1>15, <1>16, <1>17, <1>18, <1>19, <1>20, <1>21, <1>22, <1>23, <1>24, <1>25
    DEF Next, SessionStep, User

-----------------------------------------------------------------------------
\* The note: a session that meets no driver does not get past the gate with it.

LEMMA NotedNext ==
    ASSUME TypeOK, Booked, Noted, [Next]_vars
    PROVE  Noted'
<1> USE DEF TypeOK, Booked, Noted, Without, Faulty, Service, Packages, Builds, At,
           windows, note, session
<1>1. CASE NothingToRemove
    BY <1>1 DEF NothingToRemove, End
<1>2. CASE OfferRestart
    BY <1>2 DEF OfferRestart, End
<1>3. CASE Enter
    BY <1>3 DEF Enter, ClearsNote, Go, End, Kept
<1>4. CASE Connect
    BY <1>4 DEF Connect, Go, End, Kept, MayStop, Listed
<1>5. CASE Sanitize
    BY <1>5 DEF Sanitize, Go, Kept, RemovesRoots
<1>6. CASE Delete("replace")
    BY <1>6 DEF Delete, Go, End
<1>7. CASE Replaced
    BY <1>7 DEF Replaced, Go, Kept
<1>8. CASE Add("addBus", "bus", "addHid")
    BY <1>8 DEF Add, Go, End, Kept, Adds, AddsLater, Copies, CopiesLater, Untouched
<1>9. CASE Add("addHid", "hid", "bind")
    BY <1>9 DEF Add, Go, End, Kept, Adds, AddsLater, Copies, CopiesLater, Untouched
<1>10. CASE Bind
    BY <1>10 DEF Bind, Go, End, Kept, Binds, BindsLater, BindFails, WithRoot, Copies,
           CopiesLater, Vetoed
<1>11. CASE Rebind
    BY <1>11 DEF Rebind, Go, End, Kept, Binds, BindsLater, BindFails, WithRoot,
           Copies, CopiesLater, Vetoed
<1>12. CASE Await
    BY <1>12 DEF Await, Go, End, Kept
<1>13. CASE Check
    BY <1>13 DEF Check, Go, End, Kept
<1>14. CASE Open
    BY <1>14 DEF Open, ClearsNote, Go, End, Kept
<1>15. CASE ForceUninstall
    BY <1>15 DEF ForceUninstall, Go, End, MayStop, RemovesRoots, Listed
<1>16. CASE Delete("uninstall")
    BY <1>16 DEF Delete, Go, End
<1>17. CASE Uninstalled
    BY <1>17 DEF Uninstalled, Go, Kept
<1>18. CASE Mark
    BY <1>18 DEF Mark, End
<1>19. CASE Quit
    BY <1>19 DEF Quit, End
<1>20. CASE AskRemoval
    BY <1>20 DEF AskRemoval, Go, Kept
<1>21. CASE \E r \in Requests : Launch(r)
    BY <1>21 DEF Launch
<1>22. CASE Killed
    BY <1>22 DEF Killed, End
<1>23. CASE Restart
    BY <1>23 DEF Restart
<1>24. CASE Mend
    BY <1>24 DEF Mend
<1>25. CASE UNCHANGED vars
    BY <1>25 DEF vars, session
<1> QED
    BY <1>1, <1>2, <1>3, <1>4, <1>5, <1>6, <1>7, <1>8, <1>9, <1>10, <1>11, <1>12,
       <1>13, <1>14, <1>15, <1>16, <1>17, <1>18, <1>19, <1>20, <1>21, <1>22, <1>23, <1>24, <1>25
    DEF Next, SessionStep, User

-----------------------------------------------------------------------------
\* The other build, and who is sent away for it.

LEMMA ToldNext ==
    ASSUME TypeOK, Booked, Told, [Next]_vars
    PROVE  Told'
<1> USE DEF TypeOK, Booked, Told, Leaves, Installed, Without, Faulty,
           Service, Mismatch, Packages, Builds, At, windows, note, session
<1>1. CASE NothingToRemove
    BY <1>1 DEF NothingToRemove, End
<1>2. CASE OfferRestart
    BY <1>2 DEF OfferRestart, End
<1>3. CASE Enter
    BY <1>3 DEF Enter, ClearsNote, Go, End, Kept
<1>4. CASE Connect
    BY <1>4 DEF Connect, Go, End, Kept, MayStop, Listed
<1>5. CASE Sanitize
    BY <1>5 DEF Sanitize, Go, Kept, RemovesRoots
<1>6. CASE Delete("replace")
    BY <1>6 DEF Delete, Go, End, Turn, Deletes, DeletesLater, Untouched
<1>7. CASE Replaced
    BY <1>7 DEF Replaced, Go, Kept
<1>8. CASE Add("addBus", "bus", "addHid")
    BY <1>8 DEF Add, Go, End, Kept, Adds, AddsLater, Copies, CopiesLater, Untouched
<1>9. CASE Add("addHid", "hid", "bind")
    BY <1>9 DEF Add, Go, End, Kept, Adds, AddsLater, Copies, CopiesLater, Untouched
<1>10. CASE Bind
    BY <1>10 DEF Bind, Go, End, Kept, Binds, BindsLater, BindFails, WithRoot, Copies,
           CopiesLater, Vetoed
<1>11. CASE Rebind
    BY <1>11 DEF Rebind, Go, End, Kept, Binds, BindsLater, BindFails, WithRoot,
           Copies, CopiesLater, Vetoed
<1>12. CASE Await
    BY <1>12 DEF Await, Go, End, Kept
<1>13. CASE Check
    BY <1>13 DEF Check, Go, End, Kept
<1>14. CASE Open
    BY <1>14 DEF Open, ClearsNote, Go, End, Kept
<1>15. CASE ForceUninstall
    BY <1>15 DEF ForceUninstall, Go, End, MayStop, RemovesRoots, Listed
<1>16. CASE Delete("uninstall")
    BY <1>16 DEF Delete, Go, End, Turn, Deletes, DeletesLater, Untouched
<1>17. CASE Uninstalled
    BY <1>17 DEF Uninstalled, Go, Kept
<1>18. CASE Mark
    BY <1>18 DEF Mark, End
<1>19. CASE Quit
    BY <1>19 DEF Quit, End
<1>20. CASE AskRemoval
    BY <1>20 DEF AskRemoval, Go, Kept
<1>21. CASE \E r \in Requests : Launch(r)
    BY <1>21 DEF Launch
<1>22. CASE Killed
    BY <1>22 DEF Killed, End
<1>23. CASE Restart
    BY <1>23 DEF Restart
<1>24. CASE Mend
    BY <1>24 DEF Mend
<1>25. CASE UNCHANGED vars
    BY <1>25 DEF vars, session
<1> QED
    BY <1>1, <1>2, <1>3, <1>4, <1>5, <1>6, <1>7, <1>8, <1>9, <1>10, <1>11, <1>12,
       <1>13, <1>14, <1>15, <1>16, <1>17, <1>18, <1>19, <1>20, <1>21, <1>22, <1>23, <1>24, <1>25
    DEF Next, SessionStep, User

-----------------------------------------------------------------------------
\* The invariant, and what follows from it.

LEMMA InitInv == Init => IInv
<1> SUFFICES ASSUME Init PROVE IInv
    OBVIOUS
<1>1. TypeOK
    <2>1. running \in BOOLEAN
        BY DEF Init
    <2>2. env \in SUBSET Behaviours
        BY EnvAssumption DEF Init
    <2>3. /\ store \in SUBSET Published /\ file \in [Packages -> Builds \cup {"none"}]
          /\ later \in [Packages -> {"same", "none", "ours"}]
        BY DEF Init, Installed, Published, Builds
    <2>4. flag \in BOOLEAN /\ lasting \in BOOLEAN
        BY DEF Init
    <2>5. /\ mended = FALSE /\ owed = FALSE /\ answered = FALSE /\ pc = "off" /\ request = "menu"
          /\ said = "none" /\ todo = {} /\ finished = "Now" /\ roots \in 0..2
        BY DEF Init
    <2> QED BY <2>1, <2>2, <2>3, <2>4, <2>5 DEF TypeOK, Places, Requests, Answers
<1> USE DEF Init, Installed, Packages, Builds, Without
<1>2. Booked
    BY DEF Booked
<1>3. Speaks
    BY DEF Speaks
<1>4. Cleaned
    BY DEF Cleaned, RemovedLeavesNothing
<1>5. Noted
    BY DEF Noted
<1>6. Told
    <2>1. (file["bus"] = "none" \/ later["bus"] = "none") => Leaves
        BY DEF Leaves
    <2> QED BY <2>1 DEF Told
<1> QED BY <1>1, <1>2, <1>3, <1>4, <1>5, <1>6 DEF IInv

LEMMA NextInv == IInv /\ [Next]_vars => IInv'
BY TypeNext, BookedNext, SpeaksNext, CleanedNext, NotedNext, ToldNext DEF IInv

LEMMA Invariant == Spec => []IInv
BY InitInv, NextInv, PTL DEF Spec

\* The type invariant: the loops that delete are the only ones with work left, and
\* only the restart that a removal owes can have been put off (reboot.rs).
THEOREM TypeCorrect == Spec => []TypeOK
BY Invariant, PTL DEF IInv

\* version.rs: as long as every version can be read, and whatever else stands in
\* the way, the menu is reached with our build of the bus, or with a driver that
\* somebody keeps in memory and whose binary is gone.
THEOREM MenuSpeaksOurs == Spec => []ReadySpeaksOurs
<1>1. IInv => ReadySpeaksOurs
    BY DEF IInv, TypeOK, Speaks, Bound, ReadySpeaksOurs, At, Builds, Packages
<1> QED BY Invariant, <1>1, PTL

\* actions.rs, REMOVAL_NOTES: a removal that is said to be done leaves nothing.
THEOREM RemovalIsComplete == Spec => []RemovedLeavesNothing
<1>1. IInv => RemovedLeavesNothing
    BY DEF IInv, Cleaned
<1> QED BY Invariant, <1>1, PTL

\* reboot.rs: between two sessions the note stands exactly when a restart is owed
\* and no session has met a driver that answers since the removal, also where
\* Windows keeps the driver loaded or somebody keeps it open.
THEOREM NoteIsRight == Spec => []NoteIsTheRemoval
<1>1. IInv => NoteIsTheRemoval
    BY DEF IInv, Noted, NoteIsTheRemoval, At
<1> QED BY Invariant, <1>1, PTL

\* Error::RestartRequired: as long as no session fails half way, a user who has
\* restarted is not told to restart again.
THEOREM ToldOnce == Spec => NeverToldTwice
<1>1. IInv /\ [Next]_vars
        => [Without({"fail", "kill"}) /\ said = "restarted" => said' /= "restartRequired"]_vars
    <2> SUFFICES ASSUME IInv, Next, Without({"fail", "kill"}), said = "restarted"
                 PROVE  said' /= "restartRequired"
        OBVIOUS
    <2>1. ~Mismatch
        BY DEF IInv, Told
    <2>2. CASE Check
        BY <2>1, <2>2 DEF Check, End, Go
    <2>3. CASE ~Check
        BY <2>3 DEF Next, SessionStep, User, NothingToRemove, OfferRestart, Enter, Connect,
           Sanitize, Delete, Replaced, Add, Bind, Rebind, Await, Open, ForceUninstall,
           Uninstalled, Mark, Quit, AskRemoval, Launch, Killed, Restart, Mend, End, Go, session
    <2> QED BY <2>2, <2>3
<1> QED BY Invariant, <1>1, PTL DEF Spec, NeverToldTwice
=============================================================================
