--------------------------- MODULE DirWatcherProofs -------------------------
(***************************************************************************)
(* Proofs about module DirWatcher, for every tree of paths, every set of   *)
(* matching files and of paths given to Load(), and every bound.           *)
(***************************************************************************)
EXTENDS DirWatcher, FiniteSetTheorems, WellFoundedInduction, TLAPS

-----------------------------------------------------------------------------
(* The inductive invariant.                                                *)

Event == [typ: {"CHANGE", "REMOVE"}, path: Paths]

(* What the holder of evMtx may have to do: explicitly only for a path     *)
(* given to Load(), and of files only those and the matching ones.         *)
Job ==
  {j \in [t: {"start", "stat", "dir", "add", "load"}, path: Paths, explicit: BOOLEAN] :
     /\ j.t \in {"start", "stat", "load"} /\ j.explicit => j.path \in Loads
     /\ j.t = "load" => j.path \in Files
     /\ j.t = "dir" => j.path \in Dirs
     /\ j.t = "load" /\ ~j.explicit => j.path \in Matching}

(* Events, ops and jobs are about paths there are.                         *)
QueuesTyped ==
  /\ fs \subseteq Paths
  /\ fsEvents \in Seq(Event) /\ opList \in Seq(Event) /\ batch \in Seq(Event)
  /\ tasks \in Seq(Job)

LoadedTyped ==
  /\ loaded \in [Files -> {"no", "implicit", "explicit"}]
  /\ view \in [Files -> 0..2] /\ content \in [Files -> 0..1]

RequestInv == QueuesTyped /\ LoadedTyped /\ OnlyRequestedFiles

-----------------------------------------------------------------------------
(* Sequences, from their elements.                                         *)
LEMMA SeqMade ==
  ASSUME NEW S
  PROVE  /\ \A n \in Nat : \A f \in [1..n -> S] : f \in Seq(S)
         /\ \A a \in S : <<a>> \in Seq(S)
         /\ \A a, b \in S : <<a, b>> \in Seq(S)
         /\ \A r, s \in Seq(S) : r \o s \in Seq(S)
OBVIOUS

(* The directories and files of a directory are jobs.                      *)
LEMMA EntriesAreJobs ==
  ASSUME NEW p \in Paths,
         NEW order, order = SetToSeq(Entries(p)),
         NEW jobs, jobs = [i \in DOMAIN order |->
                             Task(IF order[i] \in Dirs THEN "dir" ELSE "load", order[i], FALSE)]
  PROVE  jobs \in Seq(Job)
<1> DEFINE S == Entries(p)
           n == Cardinality(S)
<1>1. S \subseteq Dirs \cup Matching BY DEF Entries
<1>2. IsFiniteSet(S) BY <1>1, FS_Subset, PathAssumption DEF Files
<1> HIDE DEF S
<1>3. n \in Nat /\ ExistsBijection(1..n, S) BY <1>2, FS_CardinalityType
<1>4. \E f \in [1..n -> S] : IsInjective(f)
  BY <1>3 DEF ExistsBijection, Bijection, Injection
<1>5. order = CHOOSE f \in [1..n -> S] : IsInjective(f) BY DEF SetToSeq, S
<1> HIDE DEF n
<1>6. order \in [1..n -> S] BY <1>4, <1>5
<1>7. ASSUME NEW q \in S PROVE Task(IF q \in Dirs THEN "dir" ELSE "load", q, FALSE) \in Job
  <2>1. CASE q \in Dirs
    <3>1. q \in Paths BY <2>1, PathAssumption
    <3> QED BY <2>1, <3>1 DEF Job, Task
  <2>2. CASE q \notin Dirs
    <3>1. q \in Matching /\ q \in Files /\ q \in Paths BY <1>1, <2>2, PathAssumption DEF Files
    <3> QED BY <2>2, <3>1 DEF Job, Task
  <2> QED BY <2>1, <2>2
<1>8. DOMAIN order = 1..n /\ \A i \in 1..n : order[i] \in S BY <1>6
<1>9. jobs \in [1..n -> Job] BY <1>7, <1>8
<1> QED BY <1>3, <1>9, SeqMade, Zenon

(* One thing done, others to do instead.                                   *)
LEMMA ContinueTyped ==
  ASSUME QueuesTyped, tasks # <<>>, NEW seq \in Seq(Job), Continue(seq)
  PROVE  tasks' \in Seq(Job) /\ batch' \in Seq(Event)
<1>1. Tail(tasks) \in Seq(Job) BY DEF QueuesTyped
<1>2. seq \o Tail(tasks) \in Seq(Job) BY <1>1
<1> QED BY <1>2 DEF Continue, QueuesTyped

(* The job at hand is one.                                                 *)
LEMMA HeadIsJob ==
  ASSUME QueuesTyped, tasks # <<>>
  PROVE  Head(tasks) \in Job
BY DEF QueuesTyped

(* A change of the files is reported or not.                               *)
LEMMA EmitTyped ==
  ASSUME QueuesTyped, NEW typ \in {"CHANGE", "REMOVE"}, NEW p \in Paths, NEW own, Emit(typ, p, own)
  PROVE  fsEvents' \in Seq(Event)
<1>1. Op(typ, p) \in Event BY DEF Op, Event
<1>2. Append(fsEvents, Op(typ, p)) \in Seq(Event) BY <1>1 DEF QueuesTyped
<1> QED BY <1>2 DEF Emit, QueuesTyped

-----------------------------------------------------------------------------
(* The file system.                                                        *)
LEMMA ChangesStep ==
  ASSUME RequestInv, Changes
  PROVE  RequestInv'
<1>1. PICK p \in Paths : Create(p) \/ Write(p) \/ Delete(p) \/ MoveAway(p) BY DEF Changes
<1>2. fsEvents' \in Seq(Event)
  BY <1>1, EmitTyped DEF RequestInv, Create, Write, Delete, MoveAway
<1>3. UNCHANGED <<opList, clientVars, jobVars>>
  BY <1>1 DEF Create, Write, Delete, MoveAway, watchVars
<1>4. fs' \subseteq Paths BY <1>1 DEF Create, Write, Delete, MoveAway, RequestInv, QueuesTyped
<1>5. content' \in [Files -> 0..1]
  <2>1. content' \in {content, [content EXCEPT ![p] = 1 - @]}
    BY <1>1 DEF Create, Write, Delete, MoveAway
  <2>2. \A q \in Files : content[q] \in 0..1 /\ 1 - content[q] \in 0..1
    BY DEF RequestInv, LoadedTyped
  <2> QED BY <2>1, <2>2 DEF RequestInv, LoadedTyped
<1> QED BY <1>2, <1>3, <1>4, <1>5
        DEF RequestInv, QueuesTyped, LoadedTyped, OnlyRequestedFiles, clientVars, jobVars

(* The goroutine of the watcher and its timer.                             *)
LEMMA LoopStep ==
  ASSUME RequestInv, LoopNext \/ Fire
  PROVE  RequestInv'
<1>1. CASE Fire
  BY <1>1 DEF Fire, RequestInv, QueuesTyped, LoadedTyped, OnlyRequestedFiles, fsVars, watchVars,
              clientVars, jobVars
<1>2. CASE registerFSEvent
  <2> DEFINE ev == Head(fsEvents)
             merged == [i \in DOMAIN opList |-> IF opList[i].path = ev.path THEN ev ELSE opList[i]]
  <2>1. ev \in Event /\ Tail(fsEvents) \in Seq(Event) /\ opList \in Seq(Event)
    BY <1>2 DEF registerFSEvent, RequestInv, QueuesTyped
  <2>2. opList' = merged \/ opList' = Append(opList, ev) BY <1>2 DEF registerFSEvent
  <2> HIDE DEF ev
  <2>3. Append(opList, ev) \in Seq(Event) BY <2>1
  <2>4. merged \in Seq(Event)
    <3>1. DOMAIN opList = 1..Len(opList) /\ Len(opList) \in Nat
          /\ \A i \in DOMAIN opList : opList[i] \in Event
      BY <2>1
    <3>2. merged \in [1..Len(opList) -> Event] BY <2>1, <3>1
    <3> QED BY <3>1, <3>2
  <2>5. opList' \in Seq(Event) BY <2>2, <2>3, <2>4
  <2>6. /\ fsEvents' = Tail(fsEvents) /\ UNCHANGED <<fs, content, loaded, view, batch, tasks>>
    BY <1>2 DEF registerFSEvent, fsVars, clientVars, jobVars
  <2> QED BY <2>1, <2>5, <2>6 DEF RequestInv, QueuesTyped, LoadedTyped, OnlyRequestedFiles
<1>3. CASE processEvents
  BY <1>3 DEF processEvents, RequestInv, QueuesTyped, LoadedTyped, OnlyRequestedFiles, fsVars,
              clientVars
<1>4. CASE resetOps
  <2>1. <<>> \in Seq(Event) OBVIOUS
  <2> QED BY <1>4, <2>1 DEF resetOps, OpsLeft, RequestInv, QueuesTyped, LoadedTyped,
              OnlyRequestedFiles, fsVars, clientVars, jobVars
<1>5. CASE processOp
  <2> DEFINE op == Head(batch)
  <2>1. op \in Event /\ Tail(batch) \in Seq(Event) BY <1>5 DEF processOp, RequestInv, QueuesTyped
  <2>2. /\ batch' = Tail(batch) /\ UNCHANGED <<fs, content, fsEvents, opList>>
    BY <1>5 DEF processOp, fsVars, watchVars
  <2>3. CASE op.typ = "REMOVE"
    <3>1. removePath(op.path) /\ tasks' = tasks BY <1>5, <2>3 DEF processOp
    <3>2. LoadedTyped' /\ OnlyRequestedFiles'
      BY <2>2, <3>1 DEF removePath, RequestInv, LoadedTyped, OnlyRequestedFiles, None
    <3> QED BY <2>1, <2>2, <3>1, <3>2 DEF RequestInv, QueuesTyped
  <2>4. CASE op.typ # "REMOVE"
    <3> DEFINE j == Task("start", op.path, op.path \in Files /\ loaded[op.path] = "explicit")
    <3>1. tasks' = <<j>> /\ UNCHANGED clientVars BY <1>5, <2>4 DEF processOp
    <3>2. j \in Job
      BY <2>1 DEF Task, Job, Event, RequestInv, OnlyRequestedFiles
    <3> HIDE DEF j
    <3>3. tasks' \in Seq(Job) BY <3>1, <3>2
    <3> QED BY <2>1, <2>2, <3>1, <3>3
            DEF RequestInv, QueuesTyped, LoadedTyped, OnlyRequestedFiles, clientVars
  <2> QED BY <2>3, <2>4
<1> QED BY <1>1, <1>2, <1>3, <1>4, <1>5 DEF LoopNext

(* doLoad().                                                               *)
LEMMA LoadStep ==
  ASSUME RequestInv, doLoad
  PROVE  RequestInv'
<1> DEFINE task == Head(tasks)
<1>1. QueuesTyped BY DEF RequestInv
<1>2. <<>> \in Seq(Job) /\ <<>> \in Seq(Event) OBVIOUS
<1>3. CASE startWatching
  <2> DEFINE j == [task EXCEPT !.t = "stat"]
  <2>1. tasks # <<>> /\ task.t = "start" /\ Continue(<<j>>)
    BY <1>3 DEF startWatching, AtTask
  <2>2. j \in Job BY <1>1, <2>1, HeadIsJob DEF Job
  <2> HIDE DEF j
  <2>3. <<j>> \in Seq(Job) BY <2>2
  <2>4. tasks' \in Seq(Job) /\ batch' \in Seq(Event) BY <1>1, <2>1, <2>3, ContinueTyped
  <2>5. fsEvents' \in Seq(Event) /\ opList' \in Seq(Event)
    BY <1>1, <1>2, <1>3 DEF startWatching, QueuesTyped, watchVars
  <2>6. UNCHANGED <<fs, content, loaded, view>> BY <1>3 DEF startWatching, fsVars, clientVars
  <2> QED BY <2>4, <2>5, <2>6 DEF RequestInv, QueuesTyped, LoadedTyped, OnlyRequestedFiles
<1>4. CASE Stat
  <2> DEFINE p == task.path
             next == CASE p \notin fs -> <<>>
                       [] p \in fs \cap Dirs -> <<Task("dir", p, FALSE)>>
                       [] p \in fs \cap Files /\ task.explicit
                            -> <<Task("add", p, TRUE), Task("load", p, TRUE)>>
                       [] p \in fs \cap Files /\ ~task.explicit /\ p \in Matching
                            -> <<Task("load", p, FALSE)>>
                       [] OTHER -> <<>>
  <2>1. tasks # <<>> /\ task.t = "stat" /\ Continue(next) BY <1>4 DEF Stat, AtTask
  <2>2. task \in Job /\ p \in Paths BY <1>1, <2>1, HeadIsJob DEF Job
  <2>3. task.explicit => p \in Loads BY <2>1, <2>2 DEF Job
  <2>4. next \in Seq(Job)
    <3> HIDE DEF task
    <3>1. CASE p \notin fs
      <4>1. next = <<>> BY <3>1
      <4> QED BY <1>2, <4>1
    <3>2. CASE p \in fs \cap Dirs
      <4>1. next = <<Task("dir", p, FALSE)>> BY <3>2 DEF Files
      <4>2. Task("dir", p, FALSE) \in Job BY <2>2, <3>2 DEF Job, Task
      <4> QED BY <4>1, <4>2, SeqMade, Zenon
    <3>3. CASE p \in fs \cap Files /\ task.explicit
      <4>1. next = <<Task("add", p, TRUE), Task("load", p, TRUE)>> BY <3>3 DEF Files
      <4>2. Task("add", p, TRUE) \in Job /\ Task("load", p, TRUE) \in Job
        BY <2>2, <2>3, <3>3 DEF Job, Task
      <4> QED BY <4>1, <4>2, SeqMade, Zenon
    <3>4. CASE p \in fs \cap Files /\ ~task.explicit /\ p \in Matching
      <4>1. next = <<Task("load", p, FALSE)>> BY <3>4 DEF Files
      <4>2. Task("load", p, FALSE) \in Job BY <2>2, <3>4 DEF Job, Task
      <4> QED BY <4>1, <4>2, SeqMade, Zenon
    <3>5. CASE p \in fs \cap Files /\ ~task.explicit /\ p \notin Matching
      <4>1. next = <<>> BY <3>5 DEF Files
      <4> QED BY <1>2, <4>1
    <3> QED BY <2>2, <3>1, <3>2, <3>3, <3>4, <3>5 DEF Files
  <2> HIDE DEF next
  <2>5. tasks' \in Seq(Job) /\ batch' \in Seq(Event) BY <1>1, <2>1, <2>4, ContinueTyped
  <2>6. UNCHANGED <<fs, content, loaded, view, fsEvents, opList>>
    BY <1>4 DEF Stat, fsVars, clientVars, watchVars
  <2> QED BY <2>5, <2>6 DEF RequestInv, QueuesTyped, LoadedTyped, OnlyRequestedFiles
<1>5. CASE loadDir
  <2> DEFINE p == task.path
             order == SetToSeq(Entries(p))
             jobs == [i \in DOMAIN order |->
                        Task(IF order[i] \in Dirs THEN "dir" ELSE "load", order[i], FALSE)]
             next == IF p \in fs THEN <<Task("add", p, FALSE)>> \o jobs ELSE <<>>
  <2>1. tasks # <<>> /\ Continue(next) BY <1>5 DEF loadDir, AtTask
  <2>2. p \in Paths BY <1>1, <2>1, HeadIsJob DEF Job
  <2> HIDE DEF p
  <2>3. jobs \in Seq(Job) BY <2>2, EntriesAreJobs
  <2>4. Task("add", p, FALSE) \in Job BY <2>2 DEF Job, Task
  <2> HIDE DEF jobs
  <2>5. <<Task("add", p, FALSE)>> \o jobs \in Seq(Job)
    <3>1. <<Task("add", p, FALSE)>> \in Seq(Job) BY <2>4, SeqMade, Zenon
    <3> QED BY <2>3, <3>1, SeqMade, Zenon
  <2>6. next \in Seq(Job) BY <1>2, <2>5
  <2> HIDE DEF next
  <2>7. tasks' \in Seq(Job) /\ batch' \in Seq(Event) BY <1>1, <2>1, <2>6, ContinueTyped
  <2>8. UNCHANGED <<fs, content, loaded, view, fsEvents, opList>>
    BY <1>5 DEF loadDir, fsVars, clientVars, watchVars
  <2> QED BY <2>7, <2>8 DEF RequestInv, QueuesTyped, LoadedTyped, OnlyRequestedFiles
<1>6. CASE Add
  <2>1. tasks # <<>> /\ Continue(<<>>) BY <1>6 DEF Add, AtTask
  <2>2. tasks' \in Seq(Job) /\ batch' \in Seq(Event) BY <1>1, <1>2, <2>1, ContinueTyped
  <2>3. UNCHANGED <<fs, content, loaded, view, fsEvents, opList>> BY <1>6 DEF Add, fsVars, clientVars
  <2> QED BY <2>2, <2>3 DEF RequestInv, QueuesTyped, LoadedTyped, OnlyRequestedFiles
<1>7. CASE loadFile
  <2> DEFINE p == task.path
  <2>1. tasks # <<>> /\ task.t = "load" /\ Continue(<<>>) BY <1>7 DEF loadFile, AtTask
  <2>2. task \in Job BY <1>1, <2>1, HeadIsJob
  <2>3. /\ p \in Files /\ task.explicit \in BOOLEAN
        /\ task.explicit => p \in Loads
        /\ ~task.explicit => p \in Matching
    BY <2>1, <2>2 DEF Job
  <2>4. tasks' \in Seq(Job) /\ batch' \in Seq(Event) BY <1>1, <1>2, <2>1, ContinueTyped
  <2>5. UNCHANGED <<fs, content, fsEvents, opList>> BY <1>7 DEF loadFile, fsVars, watchVars
  <2>6. /\ loaded' = [loaded EXCEPT ![p] = IF task.explicit THEN "explicit" ELSE "implicit"]
        /\ view' = IF p \in fs THEN [view EXCEPT ![p] = content[p]] ELSE view
    BY <1>7 DEF loadFile
  <2> HIDE DEF task
  <2>7. content[p] \in 0..2 BY <2>3 DEF RequestInv, LoadedTyped
  <2>8. LoadedTyped' BY <2>3, <2>5, <2>6, <2>7 DEF RequestInv, LoadedTyped
  <2>9. OnlyRequestedFiles' BY <2>3, <2>6 DEF RequestInv, LoadedTyped, OnlyRequestedFiles, None
  <2> QED BY <2>4, <2>5, <2>8, <2>9 DEF RequestInv, QueuesTyped
<1>8. CASE Unlock
  BY <1>8 DEF Unlock, RequestInv, QueuesTyped, LoadedTyped, OnlyRequestedFiles, fsVars, watchVars,
              clientVars
<1> QED BY <1>3, <1>4, <1>5, <1>6, <1>7, <1>8 DEF doLoad

(* Every step keeps the invariant.                                         *)
LEMMA RequestStep ==
  ASSUME RequestInv, [Next]_vars
  PROVE  RequestInv'
<1>1. CASE UNCHANGED vars
  BY <1>1 DEF vars, fsVars, watchVars, clientVars, jobVars, RequestInv, QueuesTyped, LoadedTyped,
              OnlyRequestedFiles
<1>2. ASSUME NEW p \in Loads, Load(p) PROVE RequestInv'
  <2>1. Task("start", p, TRUE) \in Job BY PathAssumption DEF Task, Job
  <2>2. <<Task("start", p, TRUE)>> \in Seq(Job) BY <2>1, SeqMade, Zenon
  <2>3. tasks' \in Seq(Job) BY <1>2, <2>2 DEF Load
  <2> QED BY <1>2, <2>3 DEF Load, fsVars, watchVars, clientVars, RequestInv, QueuesTyped,
              LoadedTyped, OnlyRequestedFiles
<1>3. CASE Stop
  BY <1>3 DEF Stop, fsVars, clientVars, jobVars, RequestInv, QueuesTyped, LoadedTyped,
              OnlyRequestedFiles
<1>4. CASE StopReceived
  <2>1. <<>> \in Seq(Event) OBVIOUS
  <2> QED BY <1>4, <2>1 DEF StopReceived, fsVars, clientVars, jobVars, RequestInv, QueuesTyped,
              LoadedTyped, OnlyRequestedFiles
<1> QED BY <1>1, <1>2, <1>3, <1>4, ChangesStep, LoopStep, LoadStep DEF Next

LEMMA RequestInit ==
  ASSUME Init
  PROVE  RequestInv
<1>1. <<>> \in Seq(Event) /\ <<>> \in Seq(Job) OBVIOUS
<1>2. fs \subseteq Paths BY PathAssumption DEF Init
<1>3. LoadedTyped /\ OnlyRequestedFiles BY DEF Init, LoadedTyped, OnlyRequestedFiles, None
<1> QED BY <1>1, <1>2, <1>3 DEF Init, RequestInv, QueuesTyped

(* The client has only files that are loaded, and those are files that     *)
(* match, or files given to Load(): through any sequence of changes,       *)
(* loads, reloads and restarts of the watcher.                             *)
THEOREM OnlyRequested == Spec => []OnlyRequestedFiles
<1>1. Init => RequestInv BY RequestInit
<1>2. RequestInv /\ [Next]_vars => RequestInv' BY RequestStep
<1>3. RequestInv => OnlyRequestedFiles BY DEF RequestInv
<1> QED BY <1>1, <1>2, <1>3, PTL DEF Spec
-----------------------------------------------------------------------------
(* ClientInSync: the inductive invariant.                                  *)

Running == stops = 0 /\ ~crashed

(* p will be loaded, if it is there, when the tasks are done               *)
LoadComing(p) ==
  \E j \in ToSet(tasks) : /\ j.path = p /\ j.t \in {"start", "stat", "load"}
                          /\ j.explicit \/ p \in Matching
ExplicitLoadComing(p) == Task("load", p, TRUE) \in ToSet(tasks)

(* Nobody has a task without evMtx, and no op without the loop.            *)
HandsFree ==
  /\ evMtx = "free" => tasks = <<>>
  /\ loop # "run" => batch = <<>>
  /\ ~stopping /\ watcher \in {"nil", "open"}
  /\ watched \subseteq fs

(* Before there is a watcher, Load() has not come to a file: its first Add *)
(* without one would panic.                                                *)
BeforeOpen ==
  watcher = "nil" =>
    /\ loop = "none" /\ watched = {} /\ \A p \in Files : view[p] = None
    /\ tasks # <<>> => /\ Head(tasks).t # "load"
                       /\ Head(tasks).t # "add" => Tail(tasks) = <<>>
                       /\ Head(tasks).t \in {"start", "stat"} => Head(tasks).explicit

(* A call of doLoad() starts and stats once, and adds before it goes on.   *)
TasksInOrder ==
  tasks # <<>> =>
    /\ \A j \in ToSet(Tail(tasks)) : j.t \in {"dir", "load"}
    /\ Head(tasks).t \in {"start", "stat"} => Tail(tasks) = <<>>

(* What will be watched will be loaded after that.                         *)
AddedIsLoaded ==
  tasks # <<>> /\ Head(tasks).t = "add" =>
    /\ Head(tasks).path \in Files => ExplicitLoadComing(Head(tasks).path)
    /\ \A p \in (fs \cap Matching) \ missed :
         Parent(p) = Head(tasks).path => LoadComing(p)

(* A file that is gone will be removed, by its own removal or by that of   *)
(* the directory it was moved away with.                                   *)
GoneIsRemoved(p) ==
  p \notin fs /\ view[p] # None =>
    \/ Waits("REMOVE", p)
    \/ p \in moved /\ \E r \in Paths : IsStrictPrefix(r, p) /\ Waits("REMOVE", r)

(* A tracked file is up to date for good, or will be loaded.               *)
TrackedIsLoaded(p) ==
  p \in fs /\ p \in Tracked =>
    \/ view[p] = content[p] /\ ~RemovalWaits(p)
    \/ Waits("CHANGE", p) \/ LoadComing(p)

(* A file that is watched itself stays explicit, so that it is loaded      *)
(* again although it does not match.                                       *)
ExplicitStays(p) ==
  p \in watched /\ p \notin Matching =>
    (loaded[p] = "explicit" /\ ~RemovalWaits(p)) \/ ExplicitLoadComing(p)

FileInv(p) == GoneIsRemoved(p) /\ TrackedIsLoaded(p) /\ ExplicitStays(p)

SyncParts ==
  /\ HandsFree /\ BeforeOpen /\ TasksInOrder /\ AddedIsLoaded
  /\ \A p \in Files \ missed : FileInv(p)

SyncInv == stops \in Nat /\ (Running => SyncParts)

-----------------------------------------------------------------------------
(* Paths.                                                                  *)

(* A bounded set of numbers has a greatest.                                *)
LEMMA HasGreatest ==
  ASSUME NEW m \in Nat, NEW K, K \subseteq 0..m, K # {}
  PROVE  \E x \in K : \A y \in K : y <= x
<1> DEFINE R == {p \in Nat \X Nat : p[1] < p[2]}
           U == {d \in Nat : m - d \in K}
<1>1. OpToRel(<, Nat) = R BY Zenon DEF OpToRel
<1>2. IsWellFoundedOn(R, Nat) BY <1>1, NatLessThanWellFounded, Zenon
<1>3. \A x, y \in Nat : y < x => <<y, x>> \in R OBVIOUS
<1>4. \A x \in K : x \in Nat /\ m - x \in Nat /\ m - (m - x) = x OBVIOUS
<1>5. \A x \in K : m - x \in U BY <1>4
<1>6. U # {} /\ U \subseteq Nat BY <1>5
<1> HIDE DEF R, U
<1>7. PICK d \in U : \A e \in U : ~(<<e, d>> \in R) BY <1>2, <1>6, WFMin
<1>8. d \in Nat /\ m - d \in K BY <1>7 DEF U
<1>9. ASSUME NEW y \in K PROVE y <= m - d
  <2>1. ~(m - y < d) BY <1>3, <1>4, <1>5, <1>7, <1>8
  <2> QED BY <1>4, <1>8, <2>1
<1> QED BY <1>8, <1>9

(* A path is a sequence of names, and not empty.                           *)
LEMMA PathIsSeq ==
  ASSUME NEW p \in Paths
  PROVE  p \in Seq(ToSet(p)) /\ p # <<>> /\ Len(p) \in Nat /\ Len(p) >= 1
<1>1. p \in Seq(ToSet(p)) /\ p # <<>> BY PathAssumption
<1> QED BY <1>1

(* A file has nothing below it.                                            *)
LEMMA AboveIsDir ==
  ASSUME NEW r \in Paths, NEW q \in Paths, IsStrictPrefix(r, q)
  PROVE  r \in Dirs
BY TreeAssumption DEF Below

(* The directory of a path is above it.                                    *)
LEMMA ParentIsAbove ==
  ASSUME NEW q \in Paths, Parent(q) \in Paths
  PROVE  IsStrictPrefix(Parent(q), q) /\ Parent(q) \in Dirs
<1>1. PICK n \in Nat : n = Len(q) /\ n >= 1 BY PathIsSeq
<1>2. PICK S : q \in Seq(S) BY PathIsSeq
<1>3. Parent(q) = SubSeq(q, 1, n - 1) BY <1>1 DEF Parent, Front
<1>4. Len(Parent(q)) = n - 1 BY <1>1, <1>2, <1>3
<1>5. SubSeq(Parent(q), 1, n - 1) = SubSeq(q, 1, n - 1) BY <1>1, <1>2, <1>3, <1>4
<1>6. IsStrictPrefix(Parent(q), q) BY <1>1, <1>4, <1>5 DEF IsStrictPrefix, IsPrefix
<1> QED BY <1>6, AboveIsDir

(* n names are common to r and q.                                          *)
Agree(r, q, n) == n <= Len(q) /\ SubSeq(r, 1, n) = SubSeq(q, 1, n)
Greatest(r, q, n) == Agree(r, q, n) /\ \A m \in n+1..Len(r) : ~Agree(r, q, m)

(* Common() is the length of the longest common prefix.                    *)
LEMMA CommonIsGreatest ==
  ASSUME NEW r \in Paths, NEW q \in Paths
  PROVE  Common(r, q) \in 0..Len(r) /\ Greatest(r, q, Common(r, q))
<1> DEFINE K == {n \in 0..Len(r) : Agree(r, q, n)}
<1>1. PICK l \in Nat : l = Len(r) BY PathIsSeq
<1>2. 0 \in K
  <2>1. SubSeq(r, 1, 0) = <<>> /\ SubSeq(q, 1, 0) = <<>> BY PathIsSeq
  <2>2. 0 <= Len(q) /\ 0 \in 0..Len(r) BY PathIsSeq
  <2> QED BY <2>1, <2>2 DEF Agree
<1>3. K \subseteq 0..l /\ K # {} BY <1>1, <1>2
<1> HIDE DEF K
<1>4. PICK x \in K : \A y \in K : y <= x BY <1>3, HasGreatest
<1>5. x \in 0..l /\ Agree(r, q, x) BY <1>1, <1>4 DEF K
<1>6. ASSUME NEW m \in x+1..l PROVE ~Agree(r, q, m)
  <2>1. m \in 0..l /\ ~(m <= x) BY <1>5, <1>6
  <2> QED BY <1>1, <1>4, <2>1 DEF K
<1>7. \E n \in 0..Len(r) : Greatest(r, q, n) BY <1>1, <1>5, <1>6 DEF Greatest
<1>8. Common(r, q) = CHOOSE n \in 0..Len(r) : Greatest(r, q, n)
  BY Zenon DEF Common, Greatest, Agree
<1> QED BY <1>7, <1>8

(* util.go: a file is found below exactly the directories above it and     *)
(* itself, although ".." alone is not rejected.                            *)
LEMMA SubpathIsPrefix ==
  ASSUME NEW r \in Paths, NEW q \in Files
  PROVE  IsSubpath(r, q) <=> IsPrefix(r, q)
<1>1. q \in Paths /\ q \notin Dirs BY DEF Files
<1>2. PICK n \in Nat, lr \in Nat, lq \in Nat :
        n = Common(r, q) /\ lr = Len(r) /\ lq = Len(q)
  BY <1>1, CommonIsGreatest, PathIsSeq
<1>3. n <= lr /\ Greatest(r, q, n) BY <1>1, <1>2, CommonIsGreatest
<1>4. n <= lq /\ SubSeq(r, 1, n) = SubSeq(q, 1, n) BY <1>2, <1>3 DEF Greatest, Agree
<1>5. IsSubpath(r, q) <=> ~(lr - n >= 1 /\ (lr - n) + (lq - n) >= 2)
  BY <1>2 DEF IsSubpath, Rel
<1>6. ASSUME IsSubpath(r, q) PROVE IsPrefix(r, q)
  <2>1. lr = n \/ (lr = n + 1 /\ lq = n) BY <1>3, <1>4, <1>5, <1>6
  <2>2. CASE lr = n BY <1>2, <1>4, <2>2 DEF IsPrefix
  <2>3. CASE lr = n + 1 /\ lq = n
    <3>1. Len(q) = n /\ Len(r) = n + 1 /\ n <= n + 1 /\ n # n + 1 BY <1>2, <2>3
    <3>2. IsPrefix(q, r) BY <1>4, <3>1 DEF IsPrefix
    <3>3. q # r BY <3>1
    <3> QED BY <1>1, <3>2, <3>3, AboveIsDir DEF IsStrictPrefix
  <2> QED BY <2>1, <2>2, <2>3
<1>7. ASSUME IsPrefix(r, q) PROVE IsSubpath(r, q)
  <2>1. Agree(r, q, lr) BY <1>2, <1>7 DEF IsPrefix, Agree
  <2>2. ~(lr \in n+1..lr) BY <1>2, <1>3, <2>1 DEF Greatest
  <2>3. lr = n BY <1>3, <2>2
  <2> QED BY <1>5, <2>3
<1> QED BY <1>6, <1>7

(* removePath() takes the loaded files of and below its path.              *)
LEMMA GoneAreBelow ==
  ASSUME NEW r \in Paths, NEW q \in Files
  PROVE  q \in Gone(r) <=> loaded[q] # "no" /\ IsPrefix(r, q)
<1>1. q \in Paths /\ q \notin Dirs BY DEF Files
<1>2. CASE r \in Files /\ loaded[r] # "no"
  <2>1. Gone(r) = {r} BY <1>2 DEF Gone
  <2>2. IsPrefix(r, q) => r = q BY <1>1, <1>2, AboveIsDir DEF IsStrictPrefix, Files
  <2>3. IsPrefix(r, r) BY PathIsSeq DEF IsPrefix
  <2> QED BY <1>2, <2>1, <2>2, <2>3
<1>3. CASE ~(r \in Files /\ loaded[r] # "no")
  <2>1. q \in Gone(r) <=> loaded[q] # "no" /\ IsSubpath(r, q) BY <1>3 DEF Gone
  <2> QED BY <2>1, SubpathIsPrefix
<1> QED BY <1>2, <1>3

-----------------------------------------------------------------------------
(* The events and ops that wait.                                           *)

(* An event comes in at the end.                                           *)
LEMMA LastAppended ==
  ASSUME NEW s \in Seq(Event), NEW e \in Event
  PROVE  /\ LastWord(Append(s, e), e)
         /\ \A op : LastWord(s, op) /\ op.path # e.path => LastWord(Append(s, e), op)
         /\ ToSet(Append(s, e)) = ToSet(s) \cup {e}
<1>1. PICK n \in Nat : n = Len(s) OBVIOUS
<1>2. DOMAIN s = 1..n /\ DOMAIN Append(s, e) = 1..n+1 BY <1>1
<1>3. Append(s, e)[n + 1] = e /\ \A i \in 1..n : Append(s, e)[i] = s[i] BY <1>1
<1>4. n + 1 \in 1..n+1 /\ 1..n \subseteq 1..n+1 /\ 1..n+1 = 1..n \cup {n + 1} BY <1>1
<1>5. LastWord(Append(s, e), e) BY <1>2, <1>3, <1>4 DEF LastWord
<1>6. ASSUME NEW op, LastWord(s, op), op.path # e.path PROVE LastWord(Append(s, e), op)
  <2>1. PICK i \in 1..n : s[i] = op /\ \A j \in 1..n : j > i => s[j].path # op.path
    BY <1>2, <1>6 DEF LastWord
  <2>2. Append(s, e)[i] = op /\ i \in 1..n+1 BY <1>3, <1>4, <2>1
  <2>3. \A j \in 1..n+1 : j > i => Append(s, e)[j].path # op.path BY <1>3, <1>4, <1>6, <2>1
  <2> QED BY <1>2, <2>2, <2>3 DEF LastWord
<1>7. ToSet(Append(s, e)) = ToSet(s) \cup {e} BY <1>2, <1>3, <1>4 DEF ToSet
<1> QED BY <1>5, <1>6, <1>7

(* The elements of r \o s.                                                 *)
LEMMA ElementsConcat ==
  ASSUME NEW S, NEW r \in Seq(S), NEW s \in Seq(S)
  PROVE  ToSet(r \o s) = ToSet(r) \cup ToSet(s)
<1>1. PICK m \in Nat, n \in Nat : m = Len(r) /\ n = Len(s) OBVIOUS
<1>2. DOMAIN r = 1..m /\ DOMAIN s = 1..n /\ DOMAIN (r \o s) = 1..m+n BY <1>1
<1>3. /\ \A i \in 1..m : (r \o s)[i] = r[i] /\ i \in 1..m+n
      /\ \A i \in 1..n : (r \o s)[m + i] = s[i] /\ m + i \in 1..m+n
      /\ \A i \in 1..m+n : i \in 1..m \/ i - m \in 1..n
  BY <1>1
<1>4. ASSUME NEW x \in ToSet(r \o s) PROVE x \in ToSet(r) \cup ToSet(s)
  <2>1. PICK i \in 1..m+n : x = (r \o s)[i] BY <1>2, <1>4 DEF ToSet
  <2>2. CASE i \in 1..m BY <1>2, <1>3, <2>1, <2>2 DEF ToSet
  <2>3. CASE i - m \in 1..n
    <3>1. PICK k \in 1..n : m + k = i BY <2>3
    <3>2. x = s[k] BY <1>3, <2>1, <3>1
    <3> QED BY <1>2, <3>2 DEF ToSet
  <2> QED BY <1>3, <2>2, <2>3
<1>5. ASSUME NEW x \in ToSet(r) \cup ToSet(s) PROVE x \in ToSet(r \o s)
  <2>1. CASE x \in ToSet(r)
    <3>1. PICK i \in 1..m : x = r[i] BY <1>2, <2>1 DEF ToSet
    <3> QED BY <1>2, <1>3, <3>1 DEF ToSet
  <2>2. CASE x \in ToSet(s)
    <3>1. PICK i \in 1..n : x = s[i] BY <1>2, <2>2 DEF ToSet
    <3> QED BY <1>2, <1>3, <3>1 DEF ToSet
  <2> QED BY <1>5, <2>1, <2>2
<1> QED BY <1>4, <1>5

(* The first one and the rest.                                             *)
LEMMA ElementsSplit ==
  ASSUME NEW S, NEW s \in Seq(S), s # <<>>
  PROVE  ToSet(s) = {Head(s)} \cup ToSet(Tail(s))
<1>1. PICK h \in S, t \in Seq(S) : h = Head(s) /\ t = Tail(s) /\ s = <<h>> \o t
  <2>1. Head(s) \in S /\ Tail(s) \in Seq(S) /\ s = <<Head(s)>> \o Tail(s) OBVIOUS
  <2> QED BY <2>1
<1>2. <<h>> \in Seq(S) /\ ToSet(<<h>>) = {h} BY DEF ToSet
<1>3. ToSet(<<h>> \o t) = ToSet(<<h>>) \cup ToSet(t)
  <2>1. PICK u \in Seq(S) : u = <<h>> BY <1>2
  <2>2. ToSet(u \o t) = ToSet(u) \cup ToSet(t) BY ElementsConcat
  <2> QED BY <2>1, <2>2
<1> QED BY <1>1, <1>2, <1>3

(* The last word in r \o s.                                                *)
LEMMA Concatenated ==
  ASSUME NEW r \in Seq(Event), NEW s \in Seq(Event)
  PROVE  /\ ToSet(r \o s) = ToSet(r) \cup ToSet(s)
         /\ \A op : LastWord(r \o s, op) => op \in ToSet(r) \/ LastWord(s, op)
         /\ \A op : LastWord(r \o s, op) => op \in ToSet(r \o s)
<1>1. PICK m \in Nat, n \in Nat : m = Len(r) /\ n = Len(s) OBVIOUS
<1>2. DOMAIN r = 1..m /\ DOMAIN s = 1..n /\ DOMAIN (r \o s) = 1..m+n BY <1>1
<1>3. /\ \A i \in 1..m : (r \o s)[i] = r[i] /\ i \in 1..m+n
      /\ \A i \in 1..n : (r \o s)[m + i] = s[i] /\ m + i \in 1..m+n
      /\ \A i \in 1..m+n : i \in 1..m \/ (i - m \in 1..n /\ m + (i - m) = i)
  BY <1>1
<1>4. ToSet(r \o s) = ToSet(r) \cup ToSet(s) BY ElementsConcat
<1>5. ASSUME NEW op, LastWord(r \o s, op) PROVE op \in ToSet(r) \/ LastWord(s, op)
  <2>1. PICK i \in 1..m+n : /\ (r \o s)[i] = op
                            /\ \A j \in 1..m+n : j > i => (r \o s)[j].path # op.path
    BY <1>2, <1>5 DEF LastWord
  <2>2. CASE i \in 1..m BY <1>2, <1>3, <2>1, <2>2 DEF ToSet
  <2>3. CASE i - m \in 1..n
    <3>1. PICK k \in 1..n : m + k = i BY <2>3
    <3>2. s[k] = op BY <1>3, <2>1, <3>1
    <3>3. ASSUME NEW j \in 1..n, j > k PROVE s[j].path # op.path
      <4>1. m + j \in 1..m+n /\ m + j > i BY <3>1, <3>3
      <4> QED BY <1>3, <2>1, <4>1
    <3> QED BY <1>2, <3>2, <3>3 DEF LastWord
  <2> QED BY <1>3, <2>2, <2>3
<1>6. ASSUME NEW op, LastWord(r \o s, op) PROVE op \in ToSet(r \o s)
  BY <1>6 DEF LastWord, ToSet
<1> QED BY <1>4, <1>5, <1>6

(* The first event that waits, merged in the list.                         *)
Merged(list, ev) == [i \in DOMAIN list |-> IF list[i].path = ev.path THEN ev ELSE list[i]]

(* No last word is lost, and no op is new.                                 *)
LEMMA MergedKeepsLast ==
  ASSUME NEW list \in Seq(Event), NEW evs \in Seq(Event), evs # <<>>,
         NEW k \in DOMAIN list, list[k].path = Head(evs).path
  PROVE  /\ Merged(list, Head(evs)) \in Seq(Event)
         /\ ToSet(Merged(list, Head(evs)) \o Tail(evs)) \subseteq ToSet(list \o evs)
         /\ \A op : LastWord(list \o evs, op) => LastWord(Merged(list, Head(evs)) \o Tail(evs), op)
<1>1. PICK m \in Nat, n \in Nat : m = Len(list) /\ n = Len(evs) /\ n >= 1 OBVIOUS
<1>2. PICK ev \in Event, rest \in Seq(Event) : ev = Head(evs) /\ rest = Tail(evs)
  <2>1. Head(evs) \in Event /\ Tail(evs) \in Seq(Event) OBVIOUS
  <2> QED BY <2>1
<1>3. PICK mg : mg = Merged(list, ev) OBVIOUS
<1>4. DOMAIN list = 1..m /\ DOMAIN evs = 1..n /\ DOMAIN rest = 1..n-1 /\ Len(rest) = n - 1
  BY <1>1, <1>2
<1>5. \A i \in 1..m : mg[i] = IF list[i].path = ev.path THEN ev ELSE list[i]
  BY <1>3, <1>4 DEF Merged
<1>6. mg \in [1..m -> Event]
  <2>1. \A i \in 1..m : list[i] \in Event BY <1>4
  <2> QED BY <1>3, <1>4, <2>1 DEF Merged
<1>7. mg \in Seq(Event) /\ Len(mg) = m /\ DOMAIN mg = 1..m
  <2>1. mg \in Seq(Event) BY <1>6, SeqMade, Zenon
  <2> QED BY <1>6, <2>1
<1>8. evs[1] = ev /\ \A i \in 1..n-1 : rest[i] = evs[i + 1] BY <1>1, <1>2
<1>9. ToSet(mg \o rest) \subseteq ToSet(list \o evs)
  <2>1. ev \in ToSet(evs) BY <1>1, <1>4, <1>8 DEF ToSet
  <2>2. ToSet(rest) \subseteq ToSet(evs)
    <3>1. \A i \in 1..n-1 : i + 1 \in 1..n BY <1>1
    <3> QED BY <1>4, <1>8, <3>1 DEF ToSet
  <2>3. ToSet(mg) \subseteq ToSet(list) \cup {ev} BY <1>4, <1>5, <1>7 DEF ToSet
  <2>4. ToSet(mg \o rest) = ToSet(mg) \cup ToSet(rest) BY <1>2, <1>7, Concatenated
  <2>5. ToSet(list \o evs) = ToSet(list) \cup ToSet(evs) BY Concatenated
  <2> QED BY <2>1, <2>2, <2>3, <2>4, <2>5
<1>10. ASSUME NEW op, LastWord(list \o evs, op) PROVE LastWord(mg \o rest, op)
  <2> DEFINE a == list \o evs
             b == mg \o rest
  <2>1. DOMAIN a = 1..m+n /\ DOMAIN b = 1..m+(n-1) BY <1>1, <1>2, <1>4, <1>7
  <2>2. /\ \A i \in 1..m : a[i] = list[i] /\ b[i] = mg[i]
        /\ \A i \in 1..n : a[m + i] = evs[i]
        /\ \A i \in 1..n-1 : b[m + i] = rest[i]
    <3>1. \A i \in 1..m : b[i] = mg[i] BY <1>2, <1>4, <1>7
    <3>2. \A i \in 1..n-1 : b[m + i] = rest[i]
      <4>1. PICK n1 \in Nat : n1 = n - 1 /\ n1 = Len(rest) BY <1>1, <1>4
      <4>2. ASSUME NEW i \in 1..n1 PROVE b[m + i] = rest[i]
        <5>1. m + i \in 1..m+n1 /\ m + i > m /\ (m + i) - m = i BY <4>1
        <5> QED BY <1>2, <1>7, <4>1, <5>1
      <4> QED BY <4>1, <4>2
    <3>3. \A i \in 1..m : a[i] = list[i] BY <1>1
    <3>4. \A i \in 1..n : a[m + i] = evs[i] BY <1>1
    <3> QED BY <3>1, <3>2, <3>3, <3>4
  <2> HIDE DEF a, b
  <2>3. a[m + 1] = ev BY <1>1, <1>8, <2>2
  <2>4. \A i \in m+1..m+(n-1) : b[i] = a[i + 1]
    <3> TAKE i \in m+1..m+(n-1)
    <3>1. PICK h \in 1..n-1 : m + h = i /\ h + 1 \in 1..n /\ m + (h + 1) = i + 1
      <4>1. i - m \in 1..n-1 /\ m + (i - m) = i BY <1>1
      <4>2. (i - m) + 1 \in 1..n /\ m + ((i - m) + 1) = i + 1 BY <1>1, <4>1
      <4> QED BY <4>1, <4>2
    <3>2. b[m + h] = rest[h] /\ a[m + (h + 1)] = evs[h + 1] BY <2>2, <3>1
    <3>3. rest[h] = evs[h + 1] BY <1>8, <3>1
    <3> QED BY <3>1, <3>2, <3>3
  <2>5. PICK i \in 1..m+n : a[i] = op /\ \A j \in 1..m+n : j > i => a[j].path # op.path
    BY <1>10, <2>1 DEF LastWord, a
  <2>6. CASE i > m + 1
    <3>1. i - 1 \in m+1..m+(n-1) /\ (i - 1) + 1 = i BY <1>1, <2>6
    <3>2. b[i - 1] = op BY <2>4, <2>5, <3>1
    <3>3. ASSUME NEW j \in 1..m+(n-1), j > i - 1 PROVE b[j].path # op.path
      <4>1. j \in m+1..m+(n-1) /\ j + 1 \in 1..m+n /\ j + 1 > i BY <1>1, <2>6, <3>3
      <4> QED BY <2>4, <2>5, <4>1
    <3>4. i - 1 \in 1..m+(n-1) BY <3>1
    <3> QED BY <2>1, <3>2, <3>3, <3>4 DEF LastWord, b
  <2>7. ASSUME i <= m + 1 PROVE \A j \in m+1..m+(n-1) : b[j].path # op.path
    <3> TAKE j \in m+1..m+(n-1)
    <3>1. j + 1 \in 1..m+n /\ j + 1 > i BY <1>1, <2>7
    <3> QED BY <2>4, <2>5, <3>1
  <2>8. CASE i = m + 1
    <3>1. op = ev BY <2>3, <2>5, <2>8
    <3> DEFINE K == {x \in 1..m : list[x].path = ev.path}
    <3>2. k \in K BY <1>2, <1>4
    <3>3. PICK x \in K : \A y \in K : y <= x
      <4>1. K # {} /\ K \subseteq 0..m BY <3>2
      <4> HIDE DEF K
      <4> QED BY <4>1, HasGreatest
    <3>4. x \in 1..m+(n-1) /\ x \in 1..m BY <1>1, <3>3
    <3>5. b[x] = op BY <1>5, <2>2, <3>1, <3>3, <3>4
    <3>6. ASSUME NEW j \in 1..m+(n-1), j > x PROVE b[j].path # op.path
      <4>1. CASE j \in 1..m
        <5>1. j \notin K BY <3>3, <3>4, <3>6
        <5>2. b[j] = list[j] /\ list[j].path # ev.path BY <1>5, <2>2, <4>1, <5>1
        <5> QED BY <3>1, <5>2
      <4>2. CASE j \in m+1..m+(n-1) BY <2>7, <2>8, <4>2
      <4> QED BY <4>1, <4>2
    <3> QED BY <2>1, <3>4, <3>5, <3>6 DEF LastWord, b
  <2>9. CASE i <= m
    <3>1. ev.path # op.path
      <4>1. m + 1 \in 1..m+n /\ m + 1 > i BY <1>1, <2>9
      <4> QED BY <2>3, <2>5, <4>1
    <3>2. i \in 1..m /\ i \in 1..m+(n-1) BY <1>1, <2>9
    <3>3. b[i] = op BY <1>5, <2>2, <2>5, <3>1, <3>2
    <3>4. ASSUME NEW j \in 1..m+(n-1), j > i PROVE b[j].path # op.path
      <4>1. CASE j \in 1..m
        <5>1. j \in 1..m+n BY <1>1, <4>1
        <5>2. a[j].path # op.path /\ a[j] = list[j] BY <2>2, <2>5, <3>4, <4>1, <5>1
        <5> QED BY <1>5, <2>2, <3>1, <4>1, <5>2
      <4>2. CASE j \in m+1..m+(n-1)
        <5>1. i <= m + 1 BY <2>9
        <5> QED BY <2>7, <4>2, <5>1
      <4> QED BY <4>1, <4>2
    <3> QED BY <2>1, <3>2, <3>3, <3>4 DEF LastWord, b
  <2> QED BY <2>6, <2>8, <2>9
<1> QED BY <1>2, <1>3, <1>7, <1>9, <1>10

(* What waits goes on waiting, and no removal is new.                      *)
QueuesCalm ==
  /\ \A q \in Paths : \A typ \in {"CHANGE", "REMOVE"} : Waits(typ, q) => Waits(typ, q)'
  /\ \A q \in Paths : RemovalWaits(q)' => RemovalWaits(q)

(* What is pending are events.                                             *)
LEMMA PendingTyped ==
  ASSUME QueuesTyped
  PROVE  Pending \in Seq(Event)
BY DEF Pending, QueuesTyped

(* a removal in the batch or among the pending ones *)
RemovalIn(S, q) == \E op \in S : op.typ = "REMOVE" /\ IsPrefix(op.path, q)

(* A removal that waits is in the batch or pending.                        *)
LEMMA RemovalsWaiting ==
  ASSUME QueuesTyped
  PROVE  \A q : RemovalWaits(q) <=> RemovalIn(ToSet(batch) \cup ToSet(Pending), q)
<1>1. ToSet(batch \o Pending) = ToSet(batch) \cup ToSet(Pending)
  BY PendingTyped, Concatenated DEF QueuesTyped
<1> QED BY <1>1 DEF RemovalWaits, RemovalIn

(* And in the next state.                                                  *)
LEMMA RemovalsWaitingNext ==
  ASSUME QueuesTyped'
  PROVE  \A q : RemovalWaits(q)' <=> RemovalIn(ToSet(batch') \cup ToSet(Pending'), q)
<1>1. Pending' \in Seq(Event) BY DEF Pending, QueuesTyped
<1>2. ToSet((batch \o Pending)') = ToSet(batch') \cup ToSet(Pending')
  BY <1>1, Concatenated DEF QueuesTyped
<1> QED BY <1>2 DEF RemovalWaits, RemovalIn

(* Queues that stay are calm.                                              *)
LEMMA SameQueues ==
  ASSUME UNCHANGED <<batch, opList, fsEvents, loop>>
  PROVE  QueuesCalm
<1>1. batch' = batch /\ Pending' = Pending BY DEF Pending
<1>2. \A typ, q : Waits(typ, q)' <=> Waits(typ, q) BY <1>1 DEF Waits
<1>3. \A q : RemovalWaits(q)' <=> RemovalWaits(q) BY <1>1 DEF RemovalWaits
<1> QED BY <1>2, <1>3 DEF QueuesCalm

(* registerFSEvent() merges an event in an earlier op of its path.         *)
LEMMA RegisterIsCalm ==
  ASSUME QueuesTyped, QueuesTyped', registerFSEvent
  PROVE  QueuesCalm
<1> DEFINE ev == Head(fsEvents)
<1>1. /\ fsEvents # <<>> /\ fsEvents' = Tail(fsEvents) /\ batch' = batch
      /\ loop = "select" /\ loop' = "select"
  BY DEF registerFSEvent, jobVars
<1>2. Pending = opList \o fsEvents /\ Pending' = opList' \o Tail(fsEvents) BY <1>1 DEF Pending
<1>3. opList \in Seq(Event) /\ fsEvents \in Seq(Event) BY DEF QueuesTyped
<1>4. /\ ToSet(Pending') \subseteq ToSet(Pending)
      /\ \A op : LastWord(Pending, op) => LastWord(Pending', op)
  <2>1. CASE \E i \in DOMAIN opList : opList[i].path = ev.path
    <3>1. PICK k \in DOMAIN opList : opList[k].path = ev.path BY <2>1
    <3>2. opList' = Merged(opList, ev) BY <2>1 DEF registerFSEvent, Merged
    <3> QED BY <1>1, <1>2, <1>3, <3>1, <3>2, MergedKeepsLast
  <2>2. CASE ~\E i \in DOMAIN opList : opList[i].path = ev.path
    <3>1. opList' = Append(opList, ev) BY <2>2 DEF registerFSEvent
    <3>2. Append(opList, ev) \o Tail(fsEvents) = opList \o fsEvents BY <1>1, <1>3
    <3>3. Pending' = Pending BY <1>2, <3>1, <3>2
    <3> QED BY <3>3
  <2> QED BY <2>1, <2>2
<1>5. \A typ, q : Waits(typ, q) => Waits(typ, q)' BY <1>1, <1>4 DEF Waits
<1>6. \A q : RemovalWaits(q)' => RemovalWaits(q)
  <2>1. ToSet(batch') \cup ToSet(Pending') \subseteq ToSet(batch) \cup ToSet(Pending)
    BY <1>1, <1>4
  <2> QED BY <2>1, RemovalsWaiting, RemovalsWaitingNext DEF RemovalIn
<1> QED BY <1>5, <1>6 DEF QueuesCalm

(* processEvents() takes the ops there are.                                *)
LEMMA ProcessEventsIsCalm ==
  ASSUME QueuesTyped, QueuesTyped', batch = <<>>, processEvents
  PROVE  QueuesCalm
<1>1. batch' = opList /\ Pending = opList \o fsEvents /\ Pending' = fsEvents
  BY DEF processEvents, Pending
<1>2. opList \in Seq(Event) /\ fsEvents \in Seq(Event) BY DEF QueuesTyped
<1>3. ToSet(batch) = {} BY DEF ToSet
<1>4. \A op : LastWord(Pending, op) => op \in ToSet(batch') \/ LastWord(Pending', op)
  BY <1>1, <1>2, Concatenated
<1>5. \A typ, q : Waits(typ, q) => Waits(typ, q)' BY <1>3, <1>4 DEF Waits
<1>6. \A q : RemovalWaits(q)' => RemovalWaits(q)
  <2>1. ToSet(batch') \cup ToSet(Pending') = ToSet(Pending) BY <1>1, <1>2, Concatenated
  <2> QED BY <1>3, <2>1, RemovalsWaiting, RemovalsWaitingNext DEF RemovalIn
<1> QED BY <1>5, <1>6 DEF QueuesCalm

(* resetOps() drops only ops that are done.                                *)
LEMMA ResetIsCalm ==
  ASSUME QueuesTyped, resetOps
  PROVE  QueuesCalm
<1>1. batch' = batch BY DEF resetOps, jobVars
<1>2. Pending = fsEvents BY DEF resetOps, Pending
<1>3. Pending' = <<>> \o fsEvents BY DEF resetOps, Pending, OpsLeft
<1>4. <<>> \o fsEvents = fsEvents BY DEF QueuesTyped
<1>5. Pending' = Pending BY <1>2, <1>3, <1>4
<1>6. \A typ, q : Waits(typ, q)' <=> Waits(typ, q) BY <1>1, <1>5 DEF Waits
<1>7. \A q : RemovalWaits(q)' <=> RemovalWaits(q) BY <1>1, <1>5 DEF RemovalWaits
<1> QED BY <1>6, <1>7 DEF QueuesCalm

(* An op is taken from the batch.                                          *)
LEMMA OpTaken ==
  ASSUME QueuesTyped, QueuesTyped', processOp
  PROVE  /\ \A typ, q : Waits(typ, q) => Op(typ, q) = Head(batch) \/ Waits(typ, q)'
         /\ \A q : RemovalWaits(q)' => RemovalWaits(q)
         /\ Head(batch).typ = "REMOVE"
            => \A q : IsPrefix(Head(batch).path, q) => RemovalWaits(q)
<1>1. batch # <<>> /\ batch' = Tail(batch) /\ batch \in Seq(Event)
  BY DEF processOp, QueuesTyped
<1>2. Pending' = Pending BY DEF processOp, Pending, watchVars
<1>3. ToSet(batch) = {Head(batch)} \cup ToSet(Tail(batch)) BY <1>1, ElementsSplit
<1>4. \A typ, q : Waits(typ, q) => Op(typ, q) = Head(batch) \/ Waits(typ, q)'
  BY <1>1, <1>2, <1>3 DEF Waits
<1>5. \A q : RemovalWaits(q)' => RemovalWaits(q)
  <2>1. ToSet(batch') \cup ToSet(Pending') \subseteq ToSet(batch) \cup ToSet(Pending)
    BY <1>1, <1>2, <1>3
  <2> QED BY <2>1, RemovalsWaiting, RemovalsWaitingNext DEF RemovalIn
<1>6. Head(batch).typ = "REMOVE" => \A q : IsPrefix(Head(batch).path, q) => RemovalWaits(q)
  <2>1. Head(batch) \in ToSet(batch) \cup ToSet(Pending) BY <1>3
  <2> QED BY <2>1, RemovalsWaiting DEF RemovalIn
<1> QED BY <1>4, <1>5, <1>6

(* A change of the files is seen, or not.                                  *)
LEMMA EventWaits ==
  ASSUME QueuesTyped, QueuesTyped', NEW typ \in {"CHANGE", "REMOVE"}, NEW p \in Paths, NEW own,
         Emit(typ, p, own), UNCHANGED <<batch, opList, loop>>
  PROVE  /\ Seen(p, own) => Waits(typ, p)'
         /\ \A ty, q : Waits(ty, q) /\ (q # p \/ ty = typ) => Waits(ty, q)'
         /\ \A q : RemovalWaits(q)' => RemovalWaits(q) \/ (typ = "REMOVE" /\ IsPrefix(p, q))
<1> DEFINE e == Op(typ, p)
<1>1. e \in Event /\ e.typ = typ /\ e.path = p BY DEF Op, Event
<1>2. Pending \in Seq(Event) BY PendingTyped
<1>3. CASE Seen(p, own)
  <2>1. fsEvents' = Append(fsEvents, e) BY <1>3 DEF Emit
  <2>2. Pending' = Append(Pending, e)
    <3>1. opList \in Seq(Event) /\ fsEvents \in Seq(Event) BY DEF QueuesTyped
    <3>2. opList \o Append(fsEvents, e) = Append(opList \o fsEvents, e)
      <4> HIDE DEF e
      <4> QED BY <1>1, <3>1
    <3> QED BY <2>1, <3>2 DEF Pending
  <2> HIDE DEF e
  <2>3. /\ LastWord(Pending', e)
        /\ \A op : LastWord(Pending, op) /\ op.path # e.path => LastWord(Pending', op)
        /\ ToSet(Pending') = ToSet(Pending) \cup {e}
    BY <1>1, <1>2, <2>2, LastAppended
  <2>4. Waits(typ, p)' BY <2>3 DEF Waits, e
  <2>5. ASSUME NEW ty, NEW q, Waits(ty, q), q # p \/ ty = typ PROVE Waits(ty, q)'
    <3>1. CASE q # p
      <4>1. Op(ty, q).path # e.path BY <1>1, <3>1 DEF Op
      <4> QED BY <2>3, <2>5, <4>1 DEF Waits
    <3>2. CASE q = p /\ ty = typ BY <2>4, <3>2
    <3> QED BY <2>5, <3>1, <3>2
  <2>6. ASSUME NEW q, RemovalWaits(q)'
        PROVE  RemovalWaits(q) \/ (typ = "REMOVE" /\ IsPrefix(p, q))
    <3>1. RemovalIn(ToSet(batch) \cup ToSet(Pending) \cup {e}, q)
      BY <2>3, <2>6, RemovalsWaitingNext DEF RemovalIn
    <3> QED BY <1>1, <3>1, RemovalsWaiting DEF RemovalIn
  <2> QED BY <2>4, <2>5, <2>6
<1>4. CASE ~Seen(p, own)
  <2>1. Pending' = Pending BY <1>4 DEF Emit, Pending
  <2>2. \A ty, q : Waits(ty, q)' <=> Waits(ty, q) BY <2>1 DEF Waits
  <2>3. \A q : RemovalWaits(q)' <=> RemovalWaits(q) BY <2>1 DEF RemovalWaits
  <2> QED BY <1>4, <2>2, <2>3
<1> QED BY <1>3, <1>4

-----------------------------------------------------------------------------
(* The tasks.                                                              *)

(* ReadDir finds every entry that is to be loaded.                         *)
LEMMA EveryEntryListed ==
  ASSUME NEW p \in Paths, NEW order, order = SetToSeq(Entries(p))
  PROVE  \A q \in Entries(p) : \E i \in DOMAIN order : order[i] = q
<1> DEFINE S == Entries(p)
           n == Cardinality(S)
<1>1. IsFiniteSet(S)
  <2>1. S \subseteq Paths BY PathAssumption DEF Entries, Files
  <2> QED BY <2>1, FS_Subset, PathAssumption
<1> HIDE DEF S
<1>2. n \in Nat /\ ExistsBijection(1..n, S) BY <1>1, FS_CardinalityType
<1>3. \E f \in [1..n -> S] : IsInjective(f)
  BY <1>2 DEF ExistsBijection, Bijection, Injection
<1>4. order = CHOOSE f \in [1..n -> S] : IsInjective(f) BY DEF SetToSeq, S
<1>5. IsFiniteSet(1..n) /\ Cardinality(1..n) = n BY <1>2, FS_Interval
<1> HIDE DEF n
<1>6. order \in [1..n -> S] /\ IsInjective(order) BY <1>3, <1>4
<1>7. order \in Injection(1..n, S) BY <1>6 DEF Injection
<1>8. order \in Surjection(1..n, S) BY <1>1, <1>5, <1>7, FS_Injection DEF n
<1>9. DOMAIN order = 1..n BY <1>6
<1> QED BY <1>8, <1>9 DEF Surjection, S

(* The next tasks and the ones there were.                                 *)
LEMMA ContinueTasks ==
  ASSUME QueuesTyped, tasks # <<>>, NEW seq \in Seq(Job), Continue(seq)
  PROVE  /\ ToSet(tasks) = {Head(tasks)} \cup ToSet(Tail(tasks))
         /\ ToSet(tasks') = ToSet(seq) \cup ToSet(Tail(tasks))
<1>1. tasks \in Seq(Job) /\ Tail(tasks) \in Seq(Job) BY DEF QueuesTyped
<1>2. tasks' = seq \o Tail(tasks) BY DEF Continue
<1>3. ToSet(tasks) = {Head(tasks)} \cup ToSet(Tail(tasks)) BY <1>1, ElementsSplit
<1>4. ToSet(seq \o Tail(tasks)) = ToSet(seq) \cup ToSet(Tail(tasks)) BY <1>1, ElementsConcat
<1> QED BY <1>2, <1>3, <1>4

(* A task done, and none instead.                                          *)
LEMMA TaskDone ==
  ASSUME QueuesTyped, TasksInOrder, tasks # <<>>, Continue(<<>>)
  PROVE  /\ tasks' = Tail(tasks) /\ TasksInOrder' /\ AddedIsLoaded'
         /\ ToSet(tasks) = {Head(tasks)} \cup ToSet(tasks')
         /\ evMtx' = evMtx /\ batch' = batch
<1>1. PICK t \in Seq(Job) : t = Tail(tasks)
  <2>1. Tail(tasks) \in Seq(Job) BY DEF QueuesTyped
  <2> QED BY <2>1
<1>2. tasks' = t
  <2>1. <<>> \o t = t OBVIOUS
  <2> QED BY <1>1, <2>1 DEF Continue
<1>3. \A j \in ToSet(t) : j.t \in {"dir", "load"} BY <1>1 DEF TasksInOrder
<1>4. ASSUME t # <<>>
      PROVE  Head(t).t \in {"dir", "load"} /\ \A j \in ToSet(Tail(t)) : j.t \in {"dir", "load"}
  BY <1>1, <1>3, <1>4, ElementsSplit
<1>5. TasksInOrder' BY <1>2, <1>4 DEF TasksInOrder
<1>6. AddedIsLoaded' BY <1>2, <1>4 DEF AddedIsLoaded
<1>7. ToSet(tasks) = {Head(tasks)} \cup ToSet(t) BY <1>1, ElementsSplit DEF QueuesTyped
<1> QED BY <1>1, <1>2, <1>5, <1>6, <1>7 DEF Continue

-----------------------------------------------------------------------------
(* Steps that change neither the files nor what the client has.            *)

(* What holds of a file goes on to hold.                                   *)
LEMMA CalmFile ==
  ASSUME QueuesCalm, NEW p \in Files, FileInv(p),
         UNCHANGED <<fs, content, loaded, view, watched, moved>>,
         LoadComing(p) => LoadComing(p)',
         ExplicitLoadComing(p) => ExplicitLoadComing(p)'
  PROVE  FileInv(p)'
<1>1. p \in Paths BY DEF Files
<1>2. /\ Waits("REMOVE", p) => Waits("REMOVE", p)'
      /\ Waits("CHANGE", p) => Waits("CHANGE", p)'
      /\ \A r \in Paths : Waits("REMOVE", r) => Waits("REMOVE", r)'
      /\ RemovalWaits(p)' => RemovalWaits(p)
  BY <1>1 DEF QueuesCalm
<1>3. GoneIsRemoved(p)' BY <1>2 DEF FileInv, GoneIsRemoved
<1>4. TrackedIsLoaded(p)' BY <1>2 DEF FileInv, TrackedIsLoaded, Tracked
<1>5. ExplicitStays(p)' BY <1>2 DEF FileInv, ExplicitStays
<1> QED BY <1>3, <1>4, <1>5 DEF FileInv

(* The tasks stay, too.                                                    *)
LEMMA CalmStep ==
  ASSUME SyncParts, QueuesCalm, HandsFree', loop = "none" => loop' = "none",
         UNCHANGED <<fs, content, loaded, view, watched, moved, missed, tasks, watcher>>
  PROVE  SyncParts'
<1>1. TasksInOrder' BY DEF SyncParts, TasksInOrder
<1>2. \A p : (LoadComing(p)' <=> LoadComing(p)) /\ (ExplicitLoadComing(p)' <=> ExplicitLoadComing(p))
  BY DEF LoadComing, ExplicitLoadComing
<1>3. AddedIsLoaded' BY <1>2 DEF SyncParts, AddedIsLoaded
<1>4. BeforeOpen' BY DEF SyncParts, BeforeOpen
<1>5. \A p \in Files \ missed' : FileInv(p)' BY <1>2, CalmFile DEF SyncParts
<1> QED BY <1>1, <1>3, <1>4, <1>5 DEF SyncParts

(* The goroutine of the watcher, its timer, and the unlocking.             *)
LEMMA SelectSync ==
  ASSUME QueuesTyped, QueuesTyped', SyncParts,
         Fire \/ registerFSEvent \/ processEvents \/ resetOps \/ Unlock
  PROVE  SyncParts'
<1>1. CASE Fire
  <2>1. UNCHANGED <<fs, content, loaded, view, watched, moved, missed, tasks, watcher, batch,
                    opList, fsEvents, loop, stopping, evMtx>>
    BY <1>1 DEF Fire, fsVars, watchVars, clientVars, jobVars
  <2> QED BY <2>1, SameQueues, CalmStep DEF SyncParts, HandsFree
<1>2. CASE Unlock
  <2>1. tasks = <<>> /\ UNCHANGED <<fs, content, loaded, view, watched, moved, missed, tasks,
                                    watcher, batch, opList, fsEvents, loop, stopping>>
    BY <1>2 DEF Unlock, fsVars, watchVars, clientVars
  <2> QED BY <2>1, SameQueues, CalmStep DEF SyncParts, HandsFree
<1>3. CASE registerFSEvent
  <2>1. loop = "select" /\ UNCHANGED <<fs, content, loaded, view, watched, moved, missed, tasks,
                                       watcher, batch, loop, stopping, evMtx>>
    BY <1>3 DEF registerFSEvent, fsVars, clientVars, jobVars
  <2> QED BY <1>3, <2>1, RegisterIsCalm, CalmStep DEF SyncParts, HandsFree
<1>4. CASE processEvents
  <2>1. loop = "select" /\ loop' = "run"
        /\ UNCHANGED <<fs, content, loaded, view, watched, moved, missed, tasks, watcher,
                       stopping, evMtx>>
    BY <1>4 DEF processEvents, fsVars, clientVars
  <2>2. batch = <<>> BY <2>1 DEF SyncParts, HandsFree
  <2> QED BY <1>4, <2>1, <2>2, ProcessEventsIsCalm, CalmStep DEF SyncParts, HandsFree
<1>5. CASE resetOps
  <2>1. loop = "run" /\ batch = <<>>
        /\ UNCHANGED <<fs, content, loaded, view, watched, moved, missed, tasks, watcher, batch,
                       stopping, evMtx>>
    BY <1>5 DEF resetOps, fsVars, clientVars, jobVars
  <2> QED BY <1>5, <2>1, ResetIsCalm, CalmStep DEF SyncParts, HandsFree
<1> QED BY <1>1, <1>2, <1>3, <1>4, <1>5

(* processOp(): a removal takes what it is to take, and a change goes on   *)
(* as a load.                                                              *)
LEMMA OpSync ==
  ASSUME RequestInv, QueuesTyped', SyncParts, processOp
  PROVE  SyncParts'
<1> DEFINE op == Head(batch)
<1>1. QueuesTyped BY DEF RequestInv
<1>2. /\ loop = "run" /\ evMtx = "free" /\ batch # <<>>
      /\ UNCHANGED <<fs, content, watched, moved, missed, watcher, loop, stopping>>
  BY DEF processOp, fsVars, watchVars
<1>3. op \in Event /\ op.path \in Paths
  <2>1. op \in Event BY <1>1, <1>2 DEF QueuesTyped
  <2> QED BY <2>1 DEF Event
<1>4. tasks = <<>> BY <1>2 DEF SyncParts, HandsFree
<1>5. \A p : ~LoadComing(p) /\ ~ExplicitLoadComing(p)
  BY <1>4 DEF LoadComing, ExplicitLoadComing, ToSet
<1>6. watcher = "open" BY <1>2 DEF SyncParts, HandsFree, BeforeOpen
<1>7. /\ \A typ, q : Waits(typ, q) => Op(typ, q) = op \/ Waits(typ, q)'
      /\ \A q : RemovalWaits(q)' => RemovalWaits(q)
      /\ op.typ = "REMOVE" => \A q : IsPrefix(op.path, q) => RemovalWaits(q)
  BY <1>1, OpTaken
<1>8. BeforeOpen' BY <1>2, <1>6 DEF BeforeOpen
<1> HIDE DEF op
<1>9. CASE op.typ = "REMOVE"
  <2>1. removePath(op.path) /\ UNCHANGED <<evMtx, tasks>> BY <1>9 DEF processOp, op
  <2>2. HandsFree' BY <1>2, <2>1 DEF SyncParts, HandsFree
  <2>3. TasksInOrder' /\ AddedIsLoaded' BY <1>4, <2>1 DEF TasksInOrder, AddedIsLoaded
  <2>4. ASSUME NEW p \in Files \ missed PROVE FileInv(p)'
    <3>1. p \in Paths /\ p \notin Dirs /\ FileInv(p) BY DEF Files, SyncParts
    <3>2. p \in Gone(op.path) <=> loaded[p] # "no" /\ IsPrefix(op.path, p)
      BY <1>3, GoneAreBelow
    <3>3. /\ loaded'[p] = IF p \in Gone(op.path) THEN "no" ELSE loaded[p]
          /\ view'[p] = IF p \in Gone(op.path) THEN None ELSE view[p]
      BY <2>1 DEF removePath
    <3>4. view[p] # None => loaded[p] # "no" BY DEF RequestInv, OnlyRequestedFiles
    <3>5. GoneIsRemoved(p)'
      <4> SUFFICES ASSUME p \notin fs', view'[p] # None
                   PROVE  \/ Waits("REMOVE", p)'
                          \/ /\ p \in moved'
                             /\ \E r \in Paths : IsStrictPrefix(r, p) /\ Waits("REMOVE", r)'
        BY DEF GoneIsRemoved
      <4>1. view[p] # None /\ ~IsPrefix(op.path, p) BY <3>2, <3>3, <3>4
      <4>2. \A r \in Paths : IsPrefix(r, p) /\ Waits("REMOVE", r) => Waits("REMOVE", r)'
        <5> TAKE r \in Paths
        <5>1. Op("REMOVE", r) = op => r = op.path BY DEF Op
        <5> QED BY <1>7, <4>1, <5>1
      <4>3. IsPrefix(p, p) BY <3>1, PathIsSeq DEF IsPrefix
      <4>4. CASE Waits("REMOVE", p) BY <3>1, <4>2, <4>3, <4>4
      <4>5. CASE p \in moved /\ \E r \in Paths : IsStrictPrefix(r, p) /\ Waits("REMOVE", r)
        BY <1>2, <4>2, <4>5 DEF IsStrictPrefix
      <4> QED BY <1>2, <3>1, <4>1, <4>4, <4>5 DEF FileInv, GoneIsRemoved
    <3>6. ~RemovalWaits(p) => p \notin Gone(op.path) BY <1>7, <1>9, <3>2
    <3>7. Waits("CHANGE", p) => Waits("CHANGE", p)'
      <4>1. Op("CHANGE", p) # op BY <1>9 DEF Op
      <4> QED BY <1>7, <4>1
    <3>8. TrackedIsLoaded(p)'
      BY <1>2, <1>5, <1>7, <3>1, <3>3, <3>6, <3>7 DEF FileInv, TrackedIsLoaded, Tracked
    <3>9. ExplicitStays(p)'
      BY <1>2, <1>5, <1>7, <3>1, <3>3, <3>6 DEF FileInv, ExplicitStays
    <3> QED BY <3>5, <3>8, <3>9 DEF FileInv
  <2> QED BY <1>2, <1>8, <2>2, <2>3, <2>4 DEF SyncParts
<1>10. CASE op.typ # "REMOVE"
  <2> DEFINE j == Task("start", op.path, op.path \in Files /\ loaded[op.path] = "explicit")
  <2>1. tasks' = <<j>> /\ evMtx' = "loop" /\ UNCHANGED <<loaded, view>>
    BY <1>10 DEF processOp, op, clientVars
  <2>2. j.t = "start" /\ j.path = op.path
        /\ j.explicit = (op.path \in Files /\ loaded[op.path] = "explicit")
    BY DEF Task
  <2> HIDE DEF j
  <2>3. tasks' # <<>> /\ Head(tasks') = j /\ Tail(tasks') = <<>> /\ ToSet(tasks') = {j}
    BY <2>1 DEF ToSet
  <2>4. HandsFree' BY <1>2, <2>1 DEF SyncParts, HandsFree
  <2>5. TasksInOrder' /\ AddedIsLoaded'
    BY <2>2, <2>3 DEF TasksInOrder, AddedIsLoaded, ToSet
  <2>6. ASSUME NEW p \in Files \ missed PROVE FileInv(p)'
    <3>1. p \in Paths /\ FileInv(p) BY DEF Files, SyncParts
    <3>2. \A r : Waits("REMOVE", r) => Waits("REMOVE", r)'
      <4> TAKE r
      <4>1. Op("REMOVE", r) # op BY <1>10 DEF Op
      <4> QED BY <1>7, <4>1
    <3>3. GoneIsRemoved(p)' BY <1>2, <2>1, <3>1, <3>2 DEF FileInv, GoneIsRemoved
    <3>4. ExplicitStays(p)' BY <1>2, <1>5, <1>7, <2>1, <3>1 DEF FileInv, ExplicitStays
    <3>5. TrackedIsLoaded(p)'
      <4> SUFFICES ASSUME p \in fs', p \in Tracked'
                   PROVE  \/ view'[p] = content'[p] /\ ~RemovalWaits(p)'
                          \/ Waits("CHANGE", p)' \/ LoadComing(p)'
        BY DEF TrackedIsLoaded
      <4>1. p \in fs /\ p \in Tracked BY <1>2 DEF Tracked
      <4>2. CASE view[p] = content[p] /\ ~RemovalWaits(p) BY <1>2, <1>7, <2>1, <4>2
      <4>3. CASE Waits("CHANGE", p) /\ Op("CHANGE", p) # op BY <1>7, <4>3
      <4>4. CASE Op("CHANGE", p) = op
        <5>1. op.path = p BY <4>4 DEF Op
        <5>2. p \in Matching \/ loaded[p] = "explicit"
          BY <1>5, <3>1, <4>1 DEF FileInv, ExplicitStays, Tracked
        <5>3. j.explicit \/ p \in Matching BY <2>2, <5>1, <5>2
        <5> QED BY <2>2, <2>3, <5>1, <5>3 DEF LoadComing
      <4> QED BY <1>5, <3>1, <4>1, <4>2, <4>3, <4>4 DEF FileInv, TrackedIsLoaded
    <3> QED BY <3>3, <3>4, <3>5 DEF FileInv
  <2> QED BY <1>2, <1>8, <2>4, <2>5, <2>6 DEF SyncParts
<1> QED BY <1>9, <1>10

-----------------------------------------------------------------------------
(* Load() and doLoad().                                                    *)

(* The queues, the files and what the client has stay; LoadComing and      *)
(* ExplicitLoadComing are kept where they matter.                          *)
Tasked ==
  /\ UNCHANGED <<fs, content, loaded, view, watched, moved, missed, batch, opList, fsEvents, loop,
                 stopping, watcher>>
  /\ \A p \in Files : /\ LoadComing(p) /\ p \in fs => LoadComing(p)'
                      /\ ExplicitLoadComing(p) => ExplicitLoadComing(p)'

(* What holds of the files goes on to hold.                                *)
LEMMA TaskedFiles ==
  ASSUME SyncParts, Tasked
  PROVE  \A p \in Files \ missed' : FileInv(p)'
<1> SUFFICES ASSUME NEW p \in Files \ missed PROVE FileInv(p)' BY DEF Tasked
<1>1. FileInv(p) /\ QueuesCalm BY SameQueues DEF SyncParts, Tasked
<1>2. CASE p \in fs
  <2>1. LoadComing(p) => LoadComing(p)' BY <1>2 DEF Tasked
  <2> QED BY <1>1, <2>1, CalmFile DEF Tasked
<1>3. CASE p \notin fs
  <2>1. p \notin fs' /\ p \notin watched' BY <1>3 DEF Tasked, SyncParts, HandsFree
  <2>2. p \in Paths /\ \A r \in Paths : Waits("REMOVE", r) => Waits("REMOVE", r)'
    BY <1>1 DEF QueuesCalm, Files
  <2>3. GoneIsRemoved(p)' BY <1>1, <2>2 DEF FileInv, GoneIsRemoved, Tasked
  <2> QED BY <2>1, <2>3 DEF FileInv, TrackedIsLoaded, ExplicitStays
<1> QED BY <1>2, <1>3

(* Load() gets evMtx.                                                      *)
LEMMA LoadSync ==
  ASSUME SyncParts, NEW p \in Loads, Load(p)
  PROVE  SyncParts'
<1> DEFINE j == Task("start", p, TRUE)
<1>1. /\ tasks' = <<j>> /\ evMtx' = "loader" /\ evMtx = "free"
      /\ UNCHANGED <<fs, content, loaded, view, watched, moved, missed, batch, opList, fsEvents,
                     loop, stopping, watcher>>
  BY DEF Load, fsVars, watchVars, clientVars
<1>2. j.t = "start" /\ j.explicit BY DEF Task
<1>3. tasks = <<>> /\ ToSet(tasks) = {} BY <1>1 DEF SyncParts, HandsFree, ToSet
<1> HIDE DEF j
<1>4. tasks' # <<>> /\ Head(tasks') = j /\ Tail(tasks') = <<>> BY <1>1
<1>5. Tasked BY <1>1, <1>3 DEF Tasked, LoadComing, ExplicitLoadComing
<1>6. HandsFree' /\ BeforeOpen' BY <1>1, <1>2, <1>4 DEF SyncParts, HandsFree, BeforeOpen
<1>7. TasksInOrder' /\ AddedIsLoaded'
  BY <1>2, <1>4 DEF TasksInOrder, AddedIsLoaded, ToSet
<1> QED BY <1>5, <1>6, <1>7, TaskedFiles DEF SyncParts

(* startWatching(): the first watcher finds a client without files.        *)
LEMMA StartSync ==
  ASSUME QueuesTyped, SyncParts, startWatching
  PROVE  SyncParts'
<1> DEFINE j == [Head(tasks) EXCEPT !.t = "stat"]
<1>1. /\ tasks # <<>> /\ Head(tasks).t = "start" /\ Continue(<<j>>)
      /\ UNCHANGED <<fs, content, loaded, view, moved, missed, stopping>>
  BY DEF startWatching, AtTask, fsVars, clientVars, watchVars
<1>2. Head(tasks) \in Job BY <1>1, HeadIsJob
<1>3. j.t = "stat" /\ j.path = Head(tasks).path /\ j.explicit = Head(tasks).explicit
  BY <1>2 DEF Job
<1>4. Tail(tasks) = <<>> BY <1>1 DEF SyncParts, TasksInOrder
<1> HIDE DEF j
<1>5. tasks' = <<j>> /\ UNCHANGED <<evMtx, batch>>
  <2>1. <<j>> \o <<>> = <<j>> OBVIOUS
  <2> QED BY <1>1, <1>4, <2>1 DEF Continue
<1>6. tasks' # <<>> /\ Head(tasks') = j /\ Tail(tasks') = <<>> /\ ToSet(tasks') = {j}
  BY <1>5 DEF ToSet
<1>7. ToSet(tasks) = {Head(tasks)}
  BY <1>1, <1>4, ElementsSplit DEF QueuesTyped, ToSet
<1>8. TasksInOrder' /\ AddedIsLoaded'
  BY <1>3, <1>6 DEF TasksInOrder, AddedIsLoaded, ToSet
<1>9. CASE UNCHANGED <<watcher, watched, loop, opList, fsEvents>>
  <2>1. \A p : LoadComing(p) => LoadComing(p)' BY <1>3, <1>6, <1>7 DEF LoadComing
  <2>2. \A p : ~ExplicitLoadComing(p)
    BY <1>1, <1>7 DEF ExplicitLoadComing, Task
  <2>3. Tasked BY <1>1, <1>5, <1>9, <2>1, <2>2 DEF Tasked
  <2>4. HandsFree' BY <1>1, <1>5, <1>9, <1>6 DEF SyncParts, HandsFree
  <2>5. BeforeOpen' BY <1>1, <1>3, <1>6, <1>9 DEF SyncParts, BeforeOpen
  <2> QED BY <1>8, <2>3, <2>4, <2>5, TaskedFiles DEF SyncParts
<1>10. CASE watcher # "open" /\ watcher' = "open" /\ watched' = {} /\ loop' = "select"
  <2>1. watcher = "nil" BY <1>10 DEF SyncParts, HandsFree
  <2>2. loop = "none" /\ \A p \in Files : view[p] = None BY <2>1 DEF SyncParts, BeforeOpen
  <2>3. batch = <<>> BY <2>2 DEF SyncParts, HandsFree
  <2>4. HandsFree' BY <1>1, <1>5, <1>10, <2>3 DEF SyncParts, HandsFree
  <2>5. BeforeOpen' BY <1>10 DEF BeforeOpen
  <2>6. \A p \in Files : FileInv(p)'
    BY <1>1, <1>10, <2>2 DEF FileInv, GoneIsRemoved, TrackedIsLoaded, ExplicitStays, Tracked
  <2> QED BY <1>8, <2>4, <2>5, <2>6 DEF SyncParts
<1>11. \/ UNCHANGED <<watcher, watched, loop, opList, fsEvents>>
       \/ watcher # "open" /\ watcher' = "open" /\ watched' = {} /\ loop' = "select"
  <2>1. watcher \in {"nil", "open"} BY DEF SyncParts, HandsFree
  <2> QED BY <2>1 DEF startWatching, watchVars
<1> QED BY <1>9, <1>10, <1>11

(* The tasks that Stat or loadDir find.                                    *)
LEMMA NextTasksSync ==
  ASSUME SyncParts, Tasked, TasksInOrder', AddedIsLoaded', tasks # <<>>, evMtx' = evMtx,
         watcher = "nil" /\ tasks' # <<>> =>
           /\ Head(tasks').t \in {"dir", "add"}
           /\ Head(tasks').t # "add" => Tail(tasks') = <<>>
  PROVE  SyncParts'
<1>1. evMtx # "free" BY DEF SyncParts, HandsFree
<1>2. HandsFree' BY <1>1 DEF SyncParts, HandsFree, Tasked
<1>3. BeforeOpen' BY DEF SyncParts, BeforeOpen, Tasked
<1> QED BY <1>2, <1>3, TaskedFiles DEF SyncParts

(* os.Stat and the switch of doLoad().                                     *)
LEMMA StatSync ==
  ASSUME RequestInv, SyncParts, Stat
  PROVE  SyncParts'
<1>1. PICK task \in Job : task = Head(tasks) /\ task.t = "stat" /\ tasks # <<>>
  BY HeadIsJob DEF RequestInv, Stat, AtTask
<1>2. PICK p \in Paths : p = task.path BY <1>1 DEF Job
<1>3. UNCHANGED <<fs, content, loaded, view, watched, moved, missed, opList, fsEvents, loop,
                  stopping, watcher, evMtx, batch>>
  BY DEF Stat, fsVars, clientVars, watchVars, Continue
<1>4. Tail(tasks) = <<>> BY <1>1 DEF SyncParts, TasksInOrder
<1>5. ToSet(tasks) = {task}
  <2>1. tasks \in Seq(Job) BY DEF RequestInv, QueuesTyped
  <2>2. ToSet(tasks) = {Head(tasks)} \cup ToSet(Tail(tasks)) BY <1>1, <2>1, ElementsSplit
  <2> QED BY <1>1, <1>4, <2>2 DEF ToSet
<1>6. \A q : ~ExplicitLoadComing(q) BY <1>1, <1>5 DEF ExplicitLoadComing, Task
<1>7. \A q : LoadComing(q) => q = p /\ (task.explicit \/ p \in Matching)
  BY <1>2, <1>5 DEF LoadComing
<1>8. ASSUME p \in fs /\ p \in Files => LoadComing(p)' \/ ~(task.explicit \/ p \in Matching)
      PROVE  Tasked
  BY <1>3, <1>6, <1>7, <1>8 DEF Tasked
<1>9. watcher = "nil" => task.explicit BY <1>1 DEF SyncParts, BeforeOpen
<1>10. CASE p \in fs /\ p \in Dirs
  <2> DEFINE j == Task("dir", p, FALSE)
  <2>1. tasks' = <<j>>
    <3>1. <<j>> \o <<>> = <<j>> OBVIOUS
    <3> QED BY <1>1, <1>2, <1>4, <1>10, <3>1 DEF Stat, Continue, Files
  <2>2. j.t = "dir" BY DEF Task
  <2> HIDE DEF j
  <2>3. Head(tasks') = j /\ Tail(tasks') = <<>> BY <2>1
  <2>4. TasksInOrder' /\ AddedIsLoaded' BY <2>2, <2>3 DEF TasksInOrder, AddedIsLoaded, ToSet
  <2>5. Tasked BY <1>8, <1>10 DEF Files
  <2> QED BY <1>1, <1>3, <2>2, <2>3, <2>4, <2>5, NextTasksSync
<1>11. CASE p \in fs /\ p \in Files /\ task.explicit
  <2> DEFINE a == Task("add", p, TRUE)
             j == Task("load", p, TRUE)
  <2>1. tasks' = <<a, j>>
    <3>1. <<a, j>> \o <<>> = <<a, j>> OBVIOUS
    <3> QED BY <1>1, <1>2, <1>4, <1>11, <3>1 DEF Stat, Continue, Files
  <2>2. a.t = "add" /\ a.path = p /\ j.t = "load" /\ j.path = p /\ j.explicit BY DEF Task
  <2>3. /\ tasks' # <<>> /\ Head(tasks') = a /\ Tail(tasks') = <<j>>
        /\ ToSet(tasks') = {a, j} /\ ToSet(<<j>>) = {j}
    <3> HIDE DEF a, j
    <3> QED BY <2>1 DEF ToSet
  <2>4. ExplicitLoadComing(p)' BY <2>3 DEF ExplicitLoadComing
  <2> HIDE DEF a, j
  <2>5. TasksInOrder' BY <2>2, <2>3 DEF TasksInOrder
  <2>6. AddedIsLoaded'
    <3>1. \A q \in Paths : Parent(q) # p BY <1>2, <1>11, ParentIsAbove DEF Files
    <3>2. Matching \subseteq Paths BY PathAssumption DEF Files
    <3> QED BY <2>2, <2>3, <2>4, <3>1, <3>2 DEF AddedIsLoaded
  <2>7. LoadComing(p)' BY <2>2, <2>3 DEF LoadComing
  <2>8. Tasked BY <1>8, <2>7
  <2> QED BY <1>1, <1>3, <2>2, <2>3, <2>5, <2>6, <2>8, NextTasksSync
<1>12. CASE p \in fs /\ p \in Files /\ ~task.explicit /\ p \in Matching
  <2> DEFINE j == Task("load", p, FALSE)
  <2>1. tasks' = <<j>>
    <3>1. <<j>> \o <<>> = <<j>> OBVIOUS
    <3> QED BY <1>1, <1>2, <1>4, <1>12, <3>1 DEF Stat, Continue, Files
  <2>2. j.t = "load" /\ j.path = p BY DEF Task
  <2> HIDE DEF j
  <2>3. Head(tasks') = j /\ Tail(tasks') = <<>> /\ ToSet(tasks') = {j} BY <2>1 DEF ToSet
  <2>4. TasksInOrder' /\ AddedIsLoaded' BY <2>2, <2>3 DEF TasksInOrder, AddedIsLoaded, ToSet
  <2>5. LoadComing(p)' BY <1>12, <2>2, <2>3 DEF LoadComing
  <2>6. Tasked BY <1>8, <2>5
  <2> QED BY <1>1, <1>3, <1>9, <1>12, <2>4, <2>6, NextTasksSync
<1>13. CASE p \notin fs \/ (p \in Files /\ ~task.explicit /\ p \notin Matching)
  <2>1. tasks' = <<>>
    <3>1. <<>> \o <<>> = <<>> OBVIOUS
    <3> QED BY <1>1, <1>2, <1>4, <1>13, <3>1 DEF Stat, Continue, Files
  <2>2. TasksInOrder' /\ AddedIsLoaded' BY <2>1 DEF TasksInOrder, AddedIsLoaded
  <2>3. Tasked BY <1>8, <1>13
  <2> QED BY <1>1, <1>3, <2>1, <2>2, <2>3, NextTasksSync
<1> QED BY <1>10, <1>11, <1>12, <1>13 DEF Files

(* ReadDir lists all there is before the watch is added.                   *)
LEMMA LoadDirSync ==
  ASSUME RequestInv, SyncParts, loadDir
  PROVE  SyncParts'
<1>1. PICK task \in Job : task = Head(tasks) /\ task.t = "dir" /\ tasks # <<>>
  BY HeadIsJob DEF RequestInv, loadDir, AtTask
<1>2. PICK p \in Dirs : p = task.path BY <1>1 DEF Job
<1>3. /\ UNCHANGED <<fs, content, loaded, view, watched, moved, missed, opList, fsEvents, loop,
                     stopping, watcher, evMtx, batch>>
      /\ p \in Paths /\ p \notin Files /\ QueuesTyped
  BY PathAssumption DEF loadDir, fsVars, clientVars, watchVars, Continue, Files, RequestInv
<1>4. PICK rest \in Seq(Job) : rest = Tail(tasks)
  <2>1. Tail(tasks) \in Seq(Job) BY <1>1, <1>3 DEF QueuesTyped
  <2> QED BY <2>1
<1>5. /\ ToSet(tasks) = {task} \cup ToSet(rest)
      /\ \A j \in ToSet(rest) : j.t \in {"dir", "load"}
  <2>1. tasks \in Seq(Job) BY <1>3 DEF QueuesTyped
  <2> QED BY <1>1, <1>4, <2>1, ElementsSplit DEF SyncParts, TasksInOrder
<1>6. watcher = "nil" => rest = <<>> BY <1>1, <1>4 DEF SyncParts, BeforeOpen
<1>7. ASSUME ToSet(rest) \subseteq ToSet(tasks)' PROVE Tasked
  BY <1>1, <1>3, <1>5, <1>7 DEF Tasked, LoadComing, ExplicitLoadComing, Task
<1>8. CASE p \notin fs
  <2>1. Continue(<<>>) BY <1>1, <1>2, <1>8 DEF loadDir
  <2>2. tasks' = rest /\ TasksInOrder' /\ AddedIsLoaded'
    BY <1>1, <1>3, <1>4, <2>1, TaskDone DEF SyncParts
  <2>3. Tasked BY <1>7, <2>2
  <2> QED BY <1>1, <1>3, <1>6, <2>2, <2>3, NextTasksSync
<1>9. CASE p \in fs
  <2> DEFINE order == SetToSeq(Entries(p))
             jobs == [i \in DOMAIN order |->
                        Task(IF order[i] \in Dirs THEN "dir" ELSE "load", order[i], FALSE)]
             a == Task("add", p, FALSE)
  <2>1. Continue(<<a>> \o jobs) BY <1>1, <1>2, <1>9 DEF loadDir
  <2>2. jobs \in Seq(Job) BY <1>3, EntriesAreJobs
  <2>3. \A q \in Entries(p) : \E i \in DOMAIN order : order[i] = q BY <1>3, EveryEntryListed
  <2>4. \A j \in ToSet(jobs) : j.t \in {"dir", "load"} BY DEF ToSet, Task
  <2>5. ASSUME NEW q \in fs \cap Matching, Parent(q) = p
        PROVE  Task("load", q, FALSE) \in ToSet(jobs)
    <3>1. q \notin Dirs BY PathAssumption DEF Files
    <3>2. PICK i \in DOMAIN order : order[i] = q BY <2>3, <2>5 DEF Entries
    <3>3. jobs[i] = Task("load", q, FALSE) BY <3>1, <3>2
    <3>4. DOMAIN jobs = DOMAIN order OBVIOUS
    <3> QED BY <3>2, <3>3, <3>4 DEF ToSet
  <2>6. a.t = "add" /\ a.path = p BY DEF Task
  <2>7. a \in Job BY <1>3 DEF Task, Job
  <2> HIDE DEF a, jobs, order
  <2>8. PICK more \in Seq(Job) : more = jobs \o rest /\ ToSet(more) = ToSet(jobs) \cup ToSet(rest)
    <3>1. jobs \o rest \in Seq(Job) BY <2>2
    <3> QED BY <2>2, <3>1, ElementsConcat
  <2>9. tasks' = <<a>> \o more
    <3>1. (<<a>> \o jobs) \o rest = <<a>> \o (jobs \o rest) BY <2>2, <2>7
    <3> QED BY <1>4, <2>1, <2>8, <3>1 DEF Continue
  <2>10. tasks' # <<>> /\ Head(tasks') = a /\ Tail(tasks') = more BY <2>7, <2>9
  <2>11. ToSet(tasks') = {a} \cup ToSet(more)
    <3>1. tasks' \in Seq(Job) BY <2>7, <2>9
    <3> QED BY <2>10, <3>1, ElementsSplit
  <2>12. TasksInOrder' BY <1>5, <2>4, <2>6, <2>8, <2>10 DEF TasksInOrder
  <2>13. AddedIsLoaded'
    <3>1. ASSUME NEW q \in (fs \cap Matching) \ missed, Parent(q) = p PROVE LoadComing(q)'
      <4>1. Task("load", q, FALSE) \in ToSet(tasks') BY <2>5, <2>8, <2>11, <3>1
      <4> QED BY <4>1 DEF LoadComing, Task
    <3> QED BY <1>3, <2>6, <2>10, <3>1 DEF AddedIsLoaded
  <2>14. Tasked BY <1>7, <2>8, <2>11
  <2> QED BY <1>1, <1>3, <2>6, <2>10, <2>12, <2>13, <2>14, NextTasksSync
<1> QED BY <1>8, <1>9

(* The watch begins before what it is for is loaded.                       *)
LEMMA AddSync ==
  ASSUME RequestInv, SyncParts, Add, ~crashed'
  PROVE  SyncParts'
<1>1. PICK task \in Job : task = Head(tasks) /\ task.t = "add" /\ tasks # <<>>
  BY HeadIsJob DEF RequestInv, Add, AtTask
<1>2. PICK p \in Paths : p = task.path BY <1>1 DEF Job
<1>3. /\ UNCHANGED <<fs, content, loaded, view, moved, missed, opList, fsEvents, loop,
                     stopping, watcher, evMtx, batch>>
      /\ watched' = IF watcher = "open" /\ p \in fs THEN watched \cup {p} ELSE watched
  BY <1>1, <1>2 DEF Add, fsVars, clientVars, watchVars, Continue
<1>4. watcher = "open" BY DEF Add, SyncParts, HandsFree
<1>5. tasks' = Tail(tasks) /\ TasksInOrder' /\ AddedIsLoaded'
      /\ ToSet(tasks) = {task} \cup ToSet(tasks')
  BY <1>1, TaskDone DEF SyncParts, RequestInv, Add
<1>6. evMtx # "free" BY <1>1 DEF SyncParts, HandsFree
<1>7. HandsFree' BY <1>3, <1>4, <1>6 DEF SyncParts, HandsFree
<1>8. BeforeOpen' BY <1>3, <1>4 DEF BeforeOpen
<1>9. \A q : (LoadComing(q) => LoadComing(q)') /\ (ExplicitLoadComing(q) => ExplicitLoadComing(q)')
  BY <1>1, <1>5 DEF LoadComing, ExplicitLoadComing, Task
<1>10. QueuesCalm BY <1>3, SameQueues
<1>11. ASSUME NEW q \in Files \ missed PROVE FileInv(q)'
  <2>1. FileInv(q) /\ q \in Paths BY DEF SyncParts, Files
  <2>2. /\ \A r \in Paths : Waits("REMOVE", r) => Waits("REMOVE", r)'
        /\ Waits("CHANGE", q) => Waits("CHANGE", q)'
        /\ RemovalWaits(q)' => RemovalWaits(q)
    BY <1>10, <2>1 DEF QueuesCalm
  <2>3. GoneIsRemoved(q)' BY <1>3, <2>1, <2>2 DEF FileInv, GoneIsRemoved
  <2>4. q \in watched' => q \in watched \/ ExplicitLoadComing(q)
    BY <1>1, <1>2, <1>3 DEF SyncParts, AddedIsLoaded
  <2>5. ExplicitStays(q)'
    BY <1>3, <1>9, <2>1, <2>2, <2>4 DEF FileInv, ExplicitStays
  <2>6. q \in Tracked' /\ q \in fs => q \in Tracked \/ LoadComing(q)
    <3>1. CASE q \in watched'
      <4>1. ExplicitLoadComing(q) => LoadComing(q) BY DEF ExplicitLoadComing, LoadComing, Task
      <4> QED BY <2>4, <3>1, <4>1 DEF Tracked
    <3>2. CASE q \in Matching /\ Parent(q) \in watched' /\ q \in fs
      BY <1>1, <1>2, <1>3, <3>2 DEF SyncParts, AddedIsLoaded, Tracked
    <3> QED BY <3>1, <3>2 DEF Tracked
  <2>7. TrackedIsLoaded(q)'
    <3> SUFFICES ASSUME q \in fs, q \in Tracked'
                 PROVE  \/ view'[q] = content'[q] /\ ~RemovalWaits(q)'
                        \/ Waits("CHANGE", q)' \/ LoadComing(q)'
      BY <1>3 DEF TrackedIsLoaded
    <3> QED BY <1>3, <1>9, <2>1, <2>2, <2>6 DEF FileInv, TrackedIsLoaded
  <2> QED BY <2>3, <2>5, <2>7 DEF FileInv
<1> QED BY <1>3, <1>5, <1>7, <1>8, <1>11 DEF SyncParts

(* loadFile(): the present version, unless a removal will take it away.    *)
LEMMA LoadFileSync ==
  ASSUME RequestInv, SyncParts, loadFile
  PROVE  SyncParts'
<1>1. PICK task \in Job : task = Head(tasks) /\ task.t = "load" /\ tasks # <<>>
  BY HeadIsJob DEF RequestInv, loadFile, AtTask
<1>2. PICK p \in Files : p = task.path BY <1>1 DEF Job
<1>3. /\ UNCHANGED <<fs, content, moved, opList, fsEvents, loop, stopping, watcher, watched,
                     evMtx, batch>>
      /\ loaded' = [loaded EXCEPT ![p] = IF task.explicit THEN "explicit" ELSE "implicit"]
      /\ view' = IF p \in fs THEN [view EXCEPT ![p] = content[p]] ELSE view
      /\ missed' = IF RemovalWaits(p) /\ (p \notin Matching \/ ~Waits("CHANGE", p))
                   THEN missed \cup {p} ELSE missed
  BY <1>1, <1>2 DEF loadFile, fsVars, watchVars, Continue
<1>4. watcher = "open" BY <1>1 DEF SyncParts, HandsFree, BeforeOpen
<1>5. tasks' = Tail(tasks) /\ TasksInOrder' /\ AddedIsLoaded'
      /\ ToSet(tasks) = {task} \cup ToSet(tasks')
  BY <1>1, TaskDone DEF SyncParts, RequestInv, loadFile
<1>6. evMtx # "free" BY <1>1 DEF SyncParts, HandsFree
<1>7. HandsFree' BY <1>3, <1>6 DEF SyncParts, HandsFree
<1>8. BeforeOpen' BY <1>3, <1>4 DEF BeforeOpen
<1>9. \A q : q # p => /\ LoadComing(q) => LoadComing(q)'
                      /\ ExplicitLoadComing(q) => ExplicitLoadComing(q)'
  BY <1>2, <1>5 DEF LoadComing, ExplicitLoadComing, Task
<1>10. QueuesCalm BY <1>3, SameQueues
<1>11. view \in [Files -> 0..2] /\ loaded \in [Files -> {"no", "implicit", "explicit"}]
  BY DEF RequestInv, LoadedTyped
<1>12. ASSUME NEW q \in Files \ missed' PROVE FileInv(q)'
  <2>1. FileInv(q) /\ q \in Paths BY <1>3 DEF SyncParts, Files
  <2>2. /\ \A r \in Paths : Waits("REMOVE", r) => Waits("REMOVE", r)'
        /\ Waits("CHANGE", q) => Waits("CHANGE", q)'
        /\ RemovalWaits(q)' => RemovalWaits(q)
    BY <1>10, <2>1 DEF QueuesCalm
  <2>3. q \notin fs => view'[q] = view[q] BY <1>3, <1>11
  <2>4. GoneIsRemoved(q)' BY <1>3, <2>1, <2>2, <2>3 DEF FileInv, GoneIsRemoved
  <2>5. CASE q # p
    <3>1. view'[q] = view[q] /\ loaded'[q] = loaded[q] BY <1>3, <1>11, <2>5
    <3>2. TrackedIsLoaded(q)'
      BY <1>3, <1>9, <2>1, <2>2, <2>5, <3>1 DEF FileInv, TrackedIsLoaded, Tracked
    <3>3. ExplicitStays(q)' BY <1>3, <1>9, <2>1, <2>2, <2>5, <3>1 DEF FileInv, ExplicitStays
    <3> QED BY <2>4, <3>2, <3>3 DEF FileInv
  <2>6. CASE q = p
    <3>1. ~RemovalWaits(p) \/ (p \in Matching /\ Waits("CHANGE", p)) BY <1>3, <2>6
    <3>2. p \in fs => view'[p] = content'[p] BY <1>3, <1>11
    <3>3. TrackedIsLoaded(p)' BY <1>3, <2>2, <2>6, <3>1, <3>2 DEF TrackedIsLoaded
    <3>4. ~task.explicit => p \in Matching BY <1>1, <1>2 DEF Job
    <3>5. task.explicit => loaded'[p] = "explicit" BY <1>3, <1>11
    <3>6. ExplicitStays(p)' BY <2>2, <2>6, <3>1, <3>4, <3>5 DEF ExplicitStays
    <3> QED BY <2>4, <2>6, <3>3, <3>6 DEF FileInv
  <2> QED BY <2>5, <2>6
<1> QED BY <1>5, <1>7, <1>8, <1>12 DEF SyncParts

-----------------------------------------------------------------------------
(* The files change.                                                       *)

(* What no change of the files touches, and the watch that sees it.        *)
LEMMA WatchedIsSeen ==
  ASSUME SyncParts, NEW p \in Paths
  PROVE  /\ Parent(p) \in watched => Seen(p, FALSE) /\ Seen(p, TRUE)
         /\ p \in watched => Seen(p, TRUE)
BY DEF SyncParts, HandsFree, BeforeOpen, Seen

(* A file or a directory is created.                                       *)
LEMMA CreateSync ==
  ASSUME QueuesTyped, QueuesTyped', LoadedTyped, SyncParts, NEW p \in Paths, Create(p)
  PROVE  SyncParts'
<1>1. /\ p \notin fs /\ fs' = fs \cup {p} /\ Emit("CHANGE", p, FALSE)
      /\ content' = IF p \in Files THEN [content EXCEPT ![p] = 1 - @] ELSE content
      /\ missed' = missed \cup (IF InGap(p) THEN {p} ELSE {})
                          \cup {q \in moved \cap Below(p) : view[q] # None}
      /\ UNCHANGED <<watcher, watched, loop, opList, stopping, loaded, view, evMtx, tasks, batch,
                     moved>>
  BY DEF Create, watchVars, clientVars, jobVars
<1>2. /\ Seen(p, FALSE) => Waits("CHANGE", p)'
      /\ \A ty, q : Waits(ty, q) /\ (q # p \/ ty = "CHANGE") => Waits(ty, q)'
      /\ \A q : RemovalWaits(q)' => RemovalWaits(q)
  BY <1>1, EventWaits
<1>3. \A q : (LoadComing(q)' <=> LoadComing(q)) /\ (ExplicitLoadComing(q)' <=> ExplicitLoadComing(q))
  BY <1>1 DEF LoadComing, ExplicitLoadComing
<1>4. HandsFree' /\ BeforeOpen' /\ TasksInOrder'
  BY <1>1 DEF SyncParts, HandsFree, BeforeOpen, TasksInOrder
<1>5. AddedIsLoaded'
  <2> SUFFICES ASSUME tasks # <<>>, Head(tasks).t = "add",
                      NEW q \in (fs' \cap Matching) \ missed', Parent(q) = Head(tasks).path
               PROVE  LoadComing(q)
    BY <1>1, <1>3 DEF SyncParts, AddedIsLoaded
  <2>1. q \notin missed BY <1>1
  <2>2. CASE q \in fs BY <2>1, <2>2 DEF SyncParts, AddedIsLoaded
  <2>3. CASE q = p
    <3>1. tasks[1] = Head(tasks) /\ 1 \in DOMAIN tasks BY DEF QueuesTyped
    <3>2. InGap(p) BY <2>3, <3>1 DEF InGap
    <3> QED BY <1>1, <2>3, <3>2
  <2> QED BY <1>1, <2>2, <2>3
<1>6. ASSUME NEW q \in Files \ missed' PROVE FileInv(q)'
  <2>1. FileInv(q) /\ q \in Paths BY <1>1 DEF SyncParts, Files
  <2>2. GoneIsRemoved(q)'
    <3> SUFFICES ASSUME q \notin fs', view[q] # None
                 PROVE  \/ Waits("REMOVE", q)'
                        \/ /\ q \in moved
                           /\ \E r \in Paths : IsStrictPrefix(r, q) /\ Waits("REMOVE", r)'
      BY <1>1 DEF GoneIsRemoved
    <3>1. q # p /\ q \notin fs BY <1>1
    <3>2. CASE Waits("REMOVE", q) BY <1>2, <3>1, <3>2
    <3>3. CASE q \in moved /\ \E r \in Paths : IsStrictPrefix(r, q) /\ Waits("REMOVE", r)
      <4>1. PICK r \in Paths : IsStrictPrefix(r, q) /\ Waits("REMOVE", r) BY <3>3
      <4>2. r # p BY <1>1, <2>1, <3>3, <4>1 DEF Below
      <4> QED BY <1>2, <3>3, <4>1, <4>2
    <3> QED BY <2>1, <3>1, <3>2, <3>3 DEF FileInv, GoneIsRemoved
  <2>3. TrackedIsLoaded(q)'
    <3> SUFFICES ASSUME q \in fs', q \in Tracked
                 PROVE  \/ view[q] = content'[q] /\ ~RemovalWaits(q)'
                        \/ Waits("CHANGE", q)' \/ LoadComing(q)
      BY <1>1, <1>3 DEF TrackedIsLoaded, Tracked
    <3>1. CASE q = p
      <4>1. Parent(p) \in watched BY <1>1, <3>1 DEF Tracked, SyncParts, HandsFree
      <4> QED BY <1>2, <3>1, <4>1, WatchedIsSeen
    <3>2. CASE q # p
      <4>1. q \in fs BY <1>1, <3>2
      <4>2. content'[q] = content[q] BY <1>1, <3>2 DEF LoadedTyped
      <4> QED BY <1>2, <2>1, <4>1, <4>2 DEF FileInv, TrackedIsLoaded
    <3> QED BY <3>1, <3>2
  <2>4. ExplicitStays(q)' BY <1>1, <1>2, <1>3, <2>1 DEF FileInv, ExplicitStays
  <2> QED BY <2>2, <2>3, <2>4 DEF FileInv
<1> QED BY <1>4, <1>5, <1>6 DEF SyncParts

(* A file is written.                                                      *)
LEMMA WriteSync ==
  ASSUME QueuesTyped, QueuesTyped', LoadedTyped, SyncParts, NEW p \in Paths, Write(p)
  PROVE  SyncParts'
<1>1. /\ p \in fs /\ p \in Files /\ Emit("CHANGE", p, TRUE)
      /\ content' = [content EXCEPT ![p] = 1 - @]
      /\ UNCHANGED <<fs, moved, watcher, watched, loop, opList, stopping, loaded, view, evMtx,
                     tasks, batch, missed>>
  BY DEF Write, watchVars, clientVars, jobVars
<1>2. /\ Seen(p, TRUE) => Waits("CHANGE", p)'
      /\ \A ty, q : Waits(ty, q) /\ (q # p \/ ty = "CHANGE") => Waits(ty, q)'
      /\ \A q : RemovalWaits(q)' => RemovalWaits(q)
  BY <1>1, EventWaits
<1>3. \A q : (LoadComing(q)' <=> LoadComing(q)) /\ (ExplicitLoadComing(q)' <=> ExplicitLoadComing(q))
  BY <1>1 DEF LoadComing, ExplicitLoadComing
<1>4. HandsFree' /\ BeforeOpen' /\ TasksInOrder'
  BY <1>1 DEF SyncParts, HandsFree, BeforeOpen, TasksInOrder
<1>5. AddedIsLoaded' BY <1>1, <1>3 DEF SyncParts, AddedIsLoaded
<1>6. ASSUME NEW q \in Files \ missed PROVE FileInv(q)'
  <2>1. FileInv(q) /\ q \in Paths BY DEF SyncParts, Files
  <2>2. GoneIsRemoved(q)'
    <3>1. q \notin fs => q # p BY <1>1
    <3>2. \A r \in Paths : IsStrictPrefix(r, q) => r # p
      BY <1>1, <2>1, AboveIsDir DEF Files
    <3> QED BY <1>1, <1>2, <2>1, <3>1, <3>2 DEF FileInv, GoneIsRemoved
  <2>3. TrackedIsLoaded(q)'
    <3> SUFFICES ASSUME q \in fs, q \in Tracked
                 PROVE  \/ view[q] = content'[q] /\ ~RemovalWaits(q)'
                        \/ Waits("CHANGE", q)' \/ LoadComing(q)
      BY <1>1, <1>3 DEF TrackedIsLoaded, Tracked
    <3>1. CASE q = p
      <4>1. p \in watched \/ Parent(p) \in watched BY <3>1 DEF Tracked
      <4> QED BY <1>2, <3>1, <4>1, WatchedIsSeen
    <3>2. CASE q # p
      <4>1. content'[q] = content[q] BY <1>1, <3>2 DEF LoadedTyped
      <4> QED BY <1>2, <2>1, <4>1 DEF FileInv, TrackedIsLoaded
    <3> QED BY <3>1, <3>2
  <2>4. ExplicitStays(q)' BY <1>1, <1>2, <1>3, <2>1 DEF FileInv, ExplicitStays
  <2> QED BY <2>2, <2>3, <2>4 DEF FileInv
<1> QED BY <1>1, <1>4, <1>5, <1>6 DEF SyncParts

(* A file or a directory goes, alone or with what is in it.                *)
LEMMA RemovalSync ==
  ASSUME QueuesTyped, QueuesTyped', SyncParts, NEW p \in Paths, Delete(p) \/ MoveAway(p)
  PROVE  SyncParts'
<1>1. PICK X : /\ p \in X /\ X \subseteq {p} \cup Below(p) /\ fs' = fs \ X /\ watched' = watched \ X
               /\ Below(p) \cap fs \subseteq X
               /\ (X \cap Files \cap fs) \ {p} \subseteq moved'
  <2>1. CASE Delete(p) BY <2>1 DEF Delete
  <2>2. CASE MoveAway(p)
    <3>1. /\ fs' = fs \ ({p} \cup Below(p)) /\ watched' = watched \ ({p} \cup Below(p))
          /\ moved' = moved \cup (Below(p) \cap fs \cap Files)
      BY <2>2 DEF MoveAway
    <3> QED BY <3>1
  <2> QED BY <2>1, <2>2
<1>2. /\ Emit("REMOVE", p, TRUE) /\ moved \subseteq moved' /\ missed' = missed \cup Unseen(p)
      /\ UNCHANGED <<content, watcher, loop, opList, stopping, loaded, view, evMtx, tasks, batch>>
  BY DEF Delete, MoveAway, clientVars, jobVars
<1>3. /\ Seen(p, TRUE) => Waits("REMOVE", p)'
      /\ \A ty, q : Waits(ty, q) /\ (q # p \/ ty = "REMOVE") => Waits(ty, q)'
      /\ \A q : RemovalWaits(q)' => RemovalWaits(q) \/ IsPrefix(p, q)
  BY <1>2, EventWaits
<1>4. \A q : (LoadComing(q)' <=> LoadComing(q)) /\ (ExplicitLoadComing(q)' <=> ExplicitLoadComing(q))
  BY <1>2 DEF LoadComing, ExplicitLoadComing
<1>5. HandsFree' /\ BeforeOpen' /\ TasksInOrder'
  BY <1>1, <1>2 DEF SyncParts, HandsFree, BeforeOpen, TasksInOrder
<1>6. AddedIsLoaded' BY <1>1, <1>2, <1>4 DEF SyncParts, AddedIsLoaded
<1>7. \A q \in Paths : q \in fs' => ~IsPrefix(p, q) BY <1>1 DEF Below, IsStrictPrefix
<1>8. ASSUME NEW q \in Files \ missed' PROVE FileInv(q)'
  <2>1. FileInv(q) /\ q \in Paths BY <1>2 DEF SyncParts, Files
  <2>2. GoneIsRemoved(q)'
    <3> SUFFICES ASSUME q \notin fs', view[q] # None
                 PROVE  \/ Waits("REMOVE", q)'
                        \/ /\ q \in moved'
                           /\ \E r \in Paths : IsStrictPrefix(r, q) /\ Waits("REMOVE", r)'
      BY <1>2 DEF GoneIsRemoved
    <3>1. CASE q \notin fs
      BY <1>2, <1>3, <2>1, <3>1 DEF FileInv, GoneIsRemoved
    <3>2. CASE q \in fs
      <4>1. q \in X /\ (q = p \/ IsStrictPrefix(p, q)) BY <1>1, <3>2 DEF Below
      <4>2. IsPrefix(p, q)
        <5>1. IsPrefix(p, p) BY PathIsSeq DEF IsPrefix
        <5> QED BY <4>1, <5>1 DEF IsStrictPrefix
      <4>3. Seen(p, TRUE) BY <1>2, <4>2 DEF Unseen
      <4>4. CASE q = p BY <1>3, <4>3, <4>4
      <4>5. CASE q # p
        <5>1. q \in moved' BY <1>1, <3>2, <4>1, <4>5
        <5> QED BY <1>3, <4>1, <4>3, <4>5, <5>1
      <4> QED BY <4>4, <4>5
    <3> QED BY <3>1, <3>2
  <2>3. q \in fs' => /\ q \in fs /\ q # p
                     /\ RemovalWaits(q)' => RemovalWaits(q)
    BY <1>1, <1>3, <1>7, <2>1
  <2>4. q \in Tracked' => q \in Tracked BY <1>1 DEF Tracked
  <2>5. TrackedIsLoaded(q)'
    BY <1>2, <1>3, <1>4, <2>1, <2>3, <2>4 DEF FileInv, TrackedIsLoaded
  <2>6. q \in watched' => q \in watched /\ q \in fs' BY <1>1, <1>5 DEF HandsFree
  <2>7. ExplicitStays(q)' BY <1>2, <1>4, <2>1, <2>3, <2>6 DEF FileInv, ExplicitStays
  <2> QED BY <2>2, <2>5, <2>7 DEF FileInv
<1> QED BY <1>5, <1>6, <1>8 DEF SyncParts

-----------------------------------------------------------------------------
(* Every step keeps the invariant: a call of Stop() or a panic ends what   *)
(* it says.                                                                *)
LEMMA SyncStep ==
  ASSUME RequestInv, SyncInv, [Next]_vars
  PROVE  SyncInv'
<1>1. RequestInv' BY RequestStep
<1>2. QueuesTyped /\ QueuesTyped' /\ LoadedTyped BY <1>1 DEF RequestInv
<1>3. stops \in Nat /\ stops' \in {stops, stops + 1}
  BY DEF SyncInv, Next, Changes, LoopNext, doLoad, Create, Write, Delete, MoveAway, Fire,
         registerFSEvent, processEvents, processOp, resetOps, Load, startWatching, Stat, loadDir, Add,
         loadFile, Unlock, Stop, StopReceived, vars, boundVars
<1>4. SUFFICES ASSUME Running' PROVE SyncParts' BY <1>3 DEF SyncInv
<1>5. stops' = stops /\ stops = 0 BY <1>3, <1>4 DEF Running
<1>6. CASE UNCHANGED vars
  <2>1. SyncParts BY <1>4, <1>6 DEF SyncInv, Running, vars, boundVars
  <2>2. UNCHANGED <<fs, content, loaded, view, watched, moved, missed, tasks, watcher, batch,
                    opList, fsEvents, loop, stopping, evMtx>>
    BY <1>6 DEF vars, fsVars, watchVars, clientVars, jobVars
  <2> QED BY <2>1, <2>2, SameQueues, CalmStep DEF SyncParts, HandsFree
<1>7. CASE Next
  <2>1. ~crashed BY <1>7 DEF Next
  <2>2. SyncParts BY <1>5, <2>1 DEF SyncInv, Running
  <2>3. CASE Changes
    <3>1. PICK p \in Paths : Create(p) \/ Write(p) \/ Delete(p) \/ MoveAway(p) BY <2>3 DEF Changes
    <3> QED BY <1>2, <2>2, <3>1, CreateSync, WriteSync, RemovalSync
  <2>4. CASE Fire \/ registerFSEvent \/ processEvents \/ resetOps \/ Unlock
    BY <1>2, <2>2, <2>4, SelectSync
  <2>5. CASE processOp BY <1>2, <2>2, <2>5, OpSync
  <2>6. CASE startWatching BY <1>2, <2>2, <2>6, StartSync
  <2>7. CASE Stat BY <2>2, <2>7, StatSync
  <2>8. CASE loadDir BY <2>2, <2>8, LoadDirSync
  <2>9. CASE Add BY <1>4, <2>2, <2>9, AddSync DEF Running
  <2>10. CASE loadFile BY <2>2, <2>10, LoadFileSync
  <2>11. CASE \E p \in Loads : Load(p) BY <2>2, <2>11, LoadSync
  <2>12. CASE Stop BY <1>3, <1>5, <2>12 DEF Stop
  <2>13. CASE StopReceived BY <2>2, <2>13 DEF StopReceived, SyncParts, HandsFree
  <2> QED BY <1>7, <2>3, <2>4, <2>5, <2>6, <2>7, <2>8, <2>9, <2>10, <2>11, <2>12, <2>13
          DEF Next, LoopNext, doLoad
<1> QED BY <1>6, <1>7

(* For every tree of files, every sequence of changes, events, ops and     *)
(* loads: when the watcher has processed all it was told, the client has   *)
(* the present version of the files it should have, and none that is gone, *)
(* but for the files it had no way to know of.                             *)
THEOREM ClientKeptInSync == Spec => []ClientInSync
<1>1. Init => RequestInv /\ SyncInv
  <2> SUFFICES ASSUME Init PROVE RequestInv /\ SyncInv OBVIOUS
  <2>1. RequestInv BY RequestInit
  <2>2. HandsFree /\ BeforeOpen /\ TasksInOrder /\ AddedIsLoaded
    BY DEF Init, HandsFree, BeforeOpen, TasksInOrder, AddedIsLoaded
  <2>3. \A p \in Files : FileInv(p)
    BY DEF Init, FileInv, GoneIsRemoved, TrackedIsLoaded, ExplicitStays, Tracked
  <2>4. stops \in Nat BY DEF Init
  <2> QED BY <2>1, <2>2, <2>3, <2>4 DEF SyncInv, SyncParts
<1>2. RequestInv /\ SyncInv /\ [Next]_vars => RequestInv' /\ SyncInv' BY RequestStep, SyncStep
<1>3. RequestInv /\ SyncInv => ClientInSync
  <2> SUFFICES ASSUME RequestInv, SyncInv, Quiet, NEW p \in Files \ missed
               PROVE  /\ p \in fs \cap Tracked => view[p] = content[p]
                      /\ p \notin fs => view[p] = None
    BY DEF ClientInSync
  <2>1. SyncParts BY DEF SyncInv, Running, Quiet
  <2>2. tasks = <<>> /\ batch = <<>> BY <2>1 DEF SyncParts, HandsFree, Quiet
  <2>3. Pending = <<>>
    <3>1. <<>> \o <<>> = <<>> OBVIOUS
    <3> QED BY <3>1 DEF Pending, Quiet
  <2>4. \A typ, q : ~Waits(typ, q) BY <2>2, <2>3 DEF Waits, LastWord, ToSet
  <2>5. ~LoadComing(p) BY <2>2 DEF LoadComing, ToSet
  <2>6. FileInv(p) BY <2>1 DEF SyncParts
  <2> QED BY <2>4, <2>5, <2>6 DEF FileInv, GoneIsRemoved, TrackedIsLoaded
<1> QED BY <1>1, <1>2, <1>3, PTL DEF Spec
=============================================================================
