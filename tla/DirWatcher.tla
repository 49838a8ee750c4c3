----------------------------- MODULE DirWatcher -----------------------------
(***************************************************************************)
(* DirWatcher of dirwatcher.go with IsSubpath of util.go: files loaded     *)
(* into a client and kept up to date.  Load() runs in goroutines of the    *)
(* application, Stop() in another, the select loop in a third; between any *)
(* two steps of them the files may change.  The file system and fsnotify   *)
(* are external: an event of a watched directory or file comes later, in   *)
(* the order of the changes.  A path is the sequence of its names.         *)
(***************************************************************************)
EXTENDS Naturals, Sequences, SequencesExt

CONSTANTS
  Paths,            \* all paths there may be
  Dirs,             \* the ones that are directories
  Matching,         \* files whose names match the pattern
  Existing,         \* the sets of paths that may exist in the beginning
  Loads,            \* paths given to Load()
  Busy,             \* files that may be written for ever
  MaxInputs,        \* bound: calls of Load() and other changes of files
  MaxEvents,        \* bound: events that wait when a busy file is written
  MaxStops,         \* bound: calls of Stop()
  WatcherMayFail    \* fsnotify.NewWatcher() may return an error

Files == Paths \ Dirs
Parent(p) == Front(p)
Below(p) == {q \in Paths : IsStrictPrefix(p, q)}

ASSUME PathAssumption ==
  /\ Dirs \subseteq Paths /\ Matching \subseteq Files
  /\ Existing \subseteq SUBSET Paths /\ Loads \subseteq Paths /\ Busy \subseteq Files
  /\ IsFiniteSet(Paths) /\ \A p \in Paths : p \in Seq(ToSet(p)) \ {<<>>}
ASSUME TreeAssumption == \A p \in Paths : Below(p) # {} => p \in Dirs
ASSUME BoundAssumption ==
  /\ MaxInputs \in Nat /\ MaxEvents \in Nat /\ MaxStops \in Nat
  /\ WatcherMayFail \in BOOLEAN

VARIABLES
  fs, content,   \* existing paths, contents of files (two versions)
  watcher,       \* dw.watcher: "nil", "open" (dw.started), "closed"
  watched,       \* paths added to it
  fsEvents,      \* events it has still to give: [typ, path]
  loaded,        \* path -> "no", "implicit", "explicit"
  opList,        \* [typ, path]; opsByPath has the same entries
  armed, tick,   \* the timer runs; a value is in dw.c
  loop,          \* the goroutine: "none", "select", "run" (processEvents)
  batch,         \* ops that processEvents() has still to process
  evMtx,         \* "free", or who holds it: "loop", "loader"
  tasks,         \* what the holder of evMtx has still to do
  stopping,      \* Stop() holds initMtx and waits at dw.quit <-
  view,          \* path -> the version the client has, 2 for none
  moved,         \* files that vanished with a directory that was moved away
  missed,        \* paths whose changes the watcher had no way to see
  edits, loads, stops,   \* for the bounds
  crashed        \* a nil watcher was used

fsVars == <<fs, content, edits, moved>>
watchVars == <<watcher, watched, loop, opList, stopping>>
clientVars == <<loaded, view>>
timerVars == <<armed, tick>>
jobVars == <<evMtx, tasks, batch>>
boundVars == <<loads, stops, crashed>>
vars == <<fsVars, watchVars, fsEvents, clientVars, timerVars, jobVars, missed, boundVars>>

None == 2
Op(typ, p) == [typ |-> typ, path |-> p]
Task(t, p, explicit) == [t |-> t, path |-> p, explicit |-> explicit]

-----------------------------------------------------------------------------
(* IsSubpath: filepath.Rel gives as many ".." as base has names below the  *)
(* common prefix, then the rest of p.  Only a ".." followed by a separator *)
(* is rejected.                                                            *)
Common(base, p) ==
  CHOOSE n \in 0..Len(base) :
    /\ n <= Len(p) /\ SubSeq(base, 1, n) = SubSeq(p, 1, n)
    /\ \A m \in n+1..Len(base) : ~(m <= Len(p) /\ SubSeq(base, 1, m) = SubSeq(p, 1, m))
Rel(base, p) == [ups |-> Len(base) - Common(base, p), names |-> Len(p) - Common(base, p)]
IsSubpath(base, p) == ~(Rel(base, p).ups >= 1 /\ Rel(base, p).ups + Rel(base, p).names >= 2)

-----------------------------------------------------------------------------
(* The file system and its events.                                         *)

Seen(p, own) == watcher = "open" /\ (Parent(p) \in watched \/ (own /\ p \in watched))
Emit(typ, p, own) ==
  fsEvents' = IF Seen(p, own) THEN Append(fsEvents, Op(typ, p)) ELSE fsEvents
(* between ReadDir and Add of their directory                              *)
InGap(p) == \E i \in DOMAIN tasks : tasks[i].t = "add" /\ tasks[i].path = Parent(p)
(* what the next processEvents() will find, once it is merged              *)
Pending == IF loop = "run" THEN fsEvents ELSE opList \o fsEvents
(* op is the last one about its path                                       *)
LastWord(seq, op) ==
  \E i \in DOMAIN seq : /\ seq[i] = op
                        /\ \A j \in DOMAIN seq : j > i => seq[j].path # op.path
(* p is going to be loaded, or removed                                     *)
Waits(typ, p) == Op(typ, p) \in ToSet(batch) \/ LastWord(Pending, Op(typ, p))
(* the removal of p, or of a directory above it, waits to be processed     *)
RemovalWaits(p) ==
  \E op \in ToSet(batch \o Pending) : op.typ = "REMOVE" /\ IsPrefix(op.path, p)
(* files the client has that vanish with p while nobody watches            *)
Unseen(p) == {q \in Files : ~Seen(p, TRUE) /\ IsPrefix(p, q) /\ view[q] # None}
MoreInput == edits + loads < MaxInputs
Edit == MoreInput /\ edits' = edits + 1

Create(p) ==
  /\ Edit /\ p \notin fs /\ (Parent(p) \in fs \/ Parent(p) \notin Paths)
  /\ fs' = fs \cup {p}
  /\ content' = IF p \in Files THEN [content EXCEPT ![p] = 1 - @] ELSE content
  /\ Emit("CHANGE", p, FALSE)
  /\ missed' = missed \cup (IF InGap(p) THEN {p} ELSE {})
                      \cup {q \in moved \cap Below(p) : view[q] # None}
  /\ UNCHANGED <<watchVars, clientVars, timerVars, jobVars, boundVars, moved>>

Write(p) ==
  /\ p \in fs \cap Files
  /\ \/ p \in Busy /\ Len(fsEvents) < MaxEvents /\ UNCHANGED edits
     \/ p \notin Busy /\ Edit
  /\ content' = [content EXCEPT ![p] = 1 - @]
  /\ Emit("CHANGE", p, TRUE)
  /\ UNCHANGED <<fs, moved, watchVars, clientVars, timerVars, jobVars, boundVars, missed>>

Delete(p) ==             \* a file or an empty directory
  /\ Edit /\ p \in fs /\ Below(p) \cap fs = {}
  /\ fs' = fs \ {p}
  /\ Emit("REMOVE", p, TRUE) /\ watched' = watched \ {p}
  /\ missed' = missed \cup Unseen(p)
  /\ UNCHANGED <<content, moved, watcher, loop, opList, stopping, clientVars, timerVars,
                 jobVars, boundVars>>

MoveAway(p) ==           \* a directory with what is in it: one event
  /\ Edit /\ p \in fs /\ Below(p) \cap fs # {}
  /\ fs' = fs \ ({p} \cup Below(p))
  /\ Emit("REMOVE", p, TRUE) /\ watched' = watched \ ({p} \cup Below(p))
  /\ moved' = moved \cup (Below(p) \cap fs \cap Files)
  /\ missed' = missed \cup Unseen(p)
  /\ UNCHANGED <<content, watcher, loop, opList, stopping, clientVars, timerVars,
                 jobVars, boundVars>>

-----------------------------------------------------------------------------
(* The goroutine of startWatching().                                       *)

registerFSEvent ==
  LET ev == Head(fsEvents) IN
  /\ loop = "select" /\ fsEvents # <<>> /\ fsEvents' = Tail(fsEvents)
  /\ opList' = IF \E i \in DOMAIN opList : opList[i].path = ev.path
               THEN [i \in DOMAIN opList |-> IF opList[i].path = ev.path THEN ev ELSE opList[i]]
               ELSE Append(opList, ev)
  /\ armed' = TRUE       \* NewTimer or Reset
  /\ UNCHANGED <<fsVars, watcher, watched, loop, stopping, clientVars, tick, jobVars,
                 boundVars, missed>>

Fire ==
  /\ armed /\ armed' = FALSE /\ tick' = TRUE
  /\ UNCHANGED <<fsVars, watchVars, fsEvents, clientVars, jobVars, boundVars, missed>>

processEvents ==         \* case <-dw.c
  /\ loop = "select" /\ tick
  /\ tick' = FALSE /\ loop' = "run" /\ batch' = opList
  /\ UNCHANGED <<fsVars, watcher, watched, opList, stopping, fsEvents, clientVars, armed,
                 evMtx, tasks, boundVars, missed>>

(* mutant: only the path itself                                            *)
GoneOnly(p) == {q \in Files : q = p /\ loaded[q] # "no"}
Gone(p) ==
  LET all == {q \in Files : loaded[q] # "no"} IN
  IF p \in all THEN {p} ELSE {q \in all : IsSubpath(p, q)}

removePath(p) ==         \* LiveRemoveFile for each
  /\ loaded' = [q \in Files |-> IF q \in Gone(p) THEN "no" ELSE loaded[q]]
  /\ view' = [q \in Files |-> IF q \in Gone(p) THEN None ELSE view[q]]

(* evMtx is held to the end of the tasks                                   *)
processOp ==
  LET op == Head(batch) IN
  /\ loop = "run" /\ batch # <<>> /\ evMtx = "free" /\ batch' = Tail(batch)
  /\ IF op.typ = "REMOVE"
     THEN removePath(op.path) /\ UNCHANGED <<evMtx, tasks>>
     ELSE /\ evMtx' = "loop"
          /\ tasks' = <<Task("start", op.path, op.path \in Files /\ loaded[op.path] = "explicit")>>
          /\ UNCHANGED clientVars
  /\ UNCHANGED <<fsVars, watchVars, fsEvents, timerVars, boundVars, missed>>

(* mutant: the ops stay in the list                                        *)
OpsLeftAll == opList
OpsLeft == <<>>

resetOps ==              \* the end of processEvents()
  /\ loop = "run" /\ batch = <<>> /\ evMtx # "loop"
  /\ loop' = "select" /\ opList' = OpsLeft
  /\ UNCHANGED <<fsVars, watcher, watched, stopping, fsEvents, clientVars, timerVars,
                 jobVars, boundVars, missed>>

-----------------------------------------------------------------------------
(* doLoad(), for Load() or for processOp().                                *)

Load(p) ==
  /\ evMtx = "free" /\ MoreInput /\ loads' = loads + 1
  /\ evMtx' = "loader" /\ tasks' = <<Task("start", p, TRUE)>>
  /\ UNCHANGED <<fsVars, watchVars, fsEvents, clientVars, timerVars, batch, stops, crashed,
                 missed>>

AtTask(t) == tasks # <<>> /\ Head(tasks).t = t
Continue(seq) == tasks' = seq \o Tail(tasks) /\ UNCHANGED <<evMtx, batch>>

startWatching ==         \* needs initMtx; a failure leaves dw.watcher nil
  /\ AtTask("start") /\ ~stopping
  /\ Continue(<<[Head(tasks) EXCEPT !.t = "stat"]>>)
  /\ \/ watcher = "open" /\ UNCHANGED <<watchVars, fsEvents>>
     \/ /\ watcher # "open"
        /\ watcher' = "open" /\ watched' = {} /\ fsEvents' = <<>>
        /\ opList' = <<>> /\ loop' = "select"
        /\ UNCHANGED stopping
     \/ /\ watcher # "open" /\ WatcherMayFail
        /\ watcher' = "nil" /\ UNCHANGED <<watched, fsEvents, opList, loop, stopping>>
  /\ UNCHANGED <<fsVars, clientVars, timerVars, boundVars, missed>>

Stat ==                  \* os.Stat and the switch of doLoad
  LET task == Head(tasks)
      p == task.path
  IN
  /\ AtTask("stat")
  /\ Continue(CASE p \notin fs -> <<>>
                [] p \in fs \cap Dirs -> <<Task("dir", p, FALSE)>>
                [] p \in fs \cap Files /\ task.explicit -> <<Task("add", p, TRUE), Task("load", p, TRUE)>>
                [] p \in fs \cap Files /\ ~task.explicit /\ p \in Matching -> <<Task("load", p, FALSE)>>
                [] OTHER -> <<>>)
  /\ UNCHANGED <<fsVars, watchVars, fsEvents, clientVars, timerVars, boundVars, missed>>

(* mutant: non-matching files of a directory are loaded, too               *)
EntriesAll(p) == {q \in fs : Parent(q) = p}
Entries(p) == {q \in fs : Parent(q) = p /\ q \in Dirs \cup Matching}

loadDir ==               \* ReadDir; the loop over the entries comes after Add
  LET p == Head(tasks).path
      Entry(q) == Task(IF q \in Dirs THEN "dir" ELSE "load", q, FALSE)
      order == SetToSeq(Entries(p))
  IN
  /\ AtTask("dir")
  /\ Continue(IF p \in fs THEN <<Task("add", p, FALSE)>> \o [i \in DOMAIN order |-> Entry(order[i])]
              ELSE <<>>)
  /\ UNCHANGED <<fsVars, watchVars, fsEvents, clientVars, timerVars, boundVars, missed>>

Add ==                   \* dw.watcher.Add; its error is only logged
  LET p == Head(tasks).path IN
  /\ AtTask("add") /\ Continue(<<>>)
  /\ watched' = IF watcher = "open" /\ p \in fs THEN watched \cup {p} ELSE watched
  /\ crashed' = (watcher = "nil")
  /\ UNCHANGED <<fsVars, watcher, loop, opList, stopping, fsEvents, clientVars, timerVars,
                 loads, stops, missed>>

loadFile ==              \* the client fails when the file is gone
  LET task == Head(tasks)
      p == task.path
  IN
  /\ AtTask("load") /\ Continue(<<>>)
  /\ loaded' = [loaded EXCEPT ![p] = IF task.explicit THEN "explicit" ELSE "implicit"]
  /\ view' = IF p \in fs THEN [view EXCEPT ![p] = content[p]] ELSE view
  /\ missed' = IF RemovalWaits(p) /\ (p \notin Matching \/ ~Waits("CHANGE", p))
               THEN missed \cup {p} ELSE missed
  /\ UNCHANGED <<fsVars, watchVars, fsEvents, timerVars, boundVars>>

Unlock ==
  /\ evMtx # "free" /\ tasks = <<>> /\ evMtx' = "free"
  /\ UNCHANGED <<fsVars, watchVars, fsEvents, clientVars, timerVars, tasks, batch,
                 boundVars, missed>>

-----------------------------------------------------------------------------
Stop ==                  \* up to dw.quit <-
  /\ watcher = "open" /\ ~stopping /\ stops < MaxStops
  /\ stops' = stops + 1 /\ stopping' = TRUE
  /\ UNCHANGED <<fsVars, watcher, watched, loop, opList, fsEvents, clientVars, timerVars,
                 jobVars, loads, crashed, missed>>

(* mutant: the goroutine returns without closing the watcher and the lock *)
WaitingStill == TRUE
Waiting == FALSE

StopReceived ==          \* case <-dw.quit; then Close and the unlock
  /\ stopping /\ loop = "select"
  /\ loop' = "none" /\ stopping' = Waiting /\ watcher' = "closed"
  /\ watched' = {} /\ fsEvents' = <<>>
  /\ UNCHANGED <<fsVars, opList, clientVars, timerVars, jobVars, boundVars, missed>>

Init ==
  /\ fs \in Existing /\ content = [p \in Files |-> 0] /\ view = [p \in Files |-> None]
  /\ watcher = "nil" /\ watched = {} /\ fsEvents = <<>>
  /\ loaded = [p \in Files |-> "no"] /\ opList = <<>> /\ armed = FALSE /\ tick = FALSE
  /\ loop = "none" /\ batch = <<>> /\ evMtx = "free" /\ tasks = <<>> /\ stopping = FALSE
  /\ moved = {} /\ missed = {} /\ edits = 0 /\ loads = 0 /\ stops = 0 /\ crashed = FALSE

Changes == \E p \in Paths : Create(p) \/ Write(p) \/ Delete(p) \/ MoveAway(p)
doLoad == startWatching \/ Stat \/ loadDir \/ Add \/ loadFile \/ Unlock
LoopNext == registerFSEvent \/ processEvents \/ processOp \/ resetOps

Next ==
  /\ ~crashed
  /\ \/ Changes \/ Fire \/ LoopNext \/ doLoad
     \/ \E p \in Loads : Load(p)
     \/ Stop \/ StopReceived

(* Select serves its cases, goroutines run, a mutex that is free again and *)
(* again is got.  The timer fires unless events go on restarting it: Reset *)
(* begins the delay anew, and events may come closer together than that.   *)
TimerFires == []<><<registerFSEvent>>_vars \/ WF_vars(~crashed /\ Fire)

Fairness ==
  /\ TimerFires /\ SF_vars(~crashed /\ registerFSEvent)
  /\ SF_vars(~crashed /\ processEvents) /\ SF_vars(~crashed /\ processOp)
  /\ WF_vars(~crashed /\ resetOps) /\ WF_vars(~crashed /\ doLoad)
  /\ SF_vars(~crashed /\ StopReceived)

Spec == Init /\ [][Next]_vars
FairSpec == Spec /\ Fairness

-----------------------------------------------------------------------------
(* Properties.                                                             *)

Quiet ==
  /\ loop = "select" /\ evMtx = "free" /\ fsEvents = <<>> /\ opList = <<>>
  /\ stops = 0 /\ ~crashed

(* files the client should have as they are: the ones that match in a      *)
(* watched directory, and the ones given to Load() while their own watch   *)
(* lasts                                                                   *)
Tracked ==
  {p \in Files : p \in watched \/ (p \in Matching /\ Parent(p) \in watched)}

(* Whenever everything the watcher was told has been processed, the client *)
(* has the present version of every file it should have and none that is   *)
(* gone: although events of a path are merged in one op, ops run in the    *)
(* order of the first events, and files change while they are loaded.      *)
(* Left out are the files `missed`: removed while no watch was on them;    *)
(* created between ReadDir and Add of their directory; left behind by a    *)
(* directory that was moved away and created again before the ops were     *)
(* processed; loaded while a removal of theirs, or of a directory above    *)
(* them, waits, which takes them from the client again, unless they match  *)
(* and a change of theirs waits, too, to load them once more.              *)
ClientInSync ==
  Quiet => \A p \in Files \ missed :
             /\ p \in fs \cap Tracked => view[p] = content[p]
             /\ p \notin fs => view[p] = None

(* The client has no file that is not loaded, and a file that does not     *)
(* match only if it was given to Load().                                   *)
OnlyRequestedFiles ==
  \A p \in Files : /\ view[p] # None => loaded[p] # "no"
                   /\ loaded[p] = "implicit" => p \in Matching
                   /\ loaded[p] = "explicit" => p \in Loads

(* events keep coming and from some time on the timer never fires          *)
Postponed == []<><<registerFSEvent>>_vars /\ <>[][~Fire]_vars

(* An event is registered, and what is registered gets processed, also     *)
(* while events keep coming, unless Stop() intervenes or they come so      *)
(* close together, for ever, that the timer they restart never fires: then *)
(* processing is postponed as long as they do.                             *)
ChangesAreProcessed ==
  /\ fsEvents # <<>> ~> (opList # <<>> \/ stops > 0 \/ crashed)
  /\ Postponed \/ (opList # <<>> ~> (opList = <<>> \/ stops > 0 \/ crashed))

(* Stop() returns, unless it meets a load: it holds initMtx while it waits *)
(* for the goroutine, and startWatching() needs initMtx.                   *)
StopReturns == stopping ~> (~stopping \/ AtTask("start") \/ crashed)
=============================================================================
