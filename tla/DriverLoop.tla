----------------------------- MODULE DriverLoop -----------------------------
(***************************************************************************)
(* The life cycle of the Driver: Start() and Stop() called by an owner,    *)
(* the select loop of the driver's goroutine, the two bounded queues, the  *)
(* deferred thunks of WhenReady() (DeferredList of util.go), polling, and  *)
(* performCleanup() racing with the publications of the goroutine.  What   *)
(* handlers do with the driver's maps is the subject of module Driver.     *)
(***************************************************************************)
EXTENDS Integers, Sequences, SequencesExt, FiniteSets

CONSTANTS
  Callers,          \* goroutines of the application
  Program,          \* caller -> sequence of [op: {"WhenReady", "CallSync"}, thunk]
  Child,            \* thunk -> the thunk it gives to WhenReady, or None
  None,
  Meta,             \* the thunks that publish a meta topic (named after them)
  AutoPoll,         \* drv.autoPoll
  EVENT_QUEUE_LEN,  \* capacity of eventCh and handleMessageCh
  MaxMessages,      \* bound: messages that arrive
  MaxPolls          \* bound: ticks of the ticker, or calls of Poll()

Thunks == DOMAIN Child
Ops == [op: {"WhenReady", "CallSync"}, thunk: Thunks]
Given(c) == {Program[c][i].thunk : i \in DOMAIN Program[c]}

ASSUME ProgramAssumption ==
  /\ Program \in [Callers -> Seq(Ops)]
  /\ \A c \in Callers : \A i, j \in DOMAIN Program[c] :
       i # j => Program[c][i].thunk # Program[c][j].thunk
  /\ \A b, c \in Callers : b # c => Given(b) \cap Given(c) = {}
ASSUME ChildAssumption ==
  /\ None \notin Thunks
  /\ \A t \in Thunks : Child[t] \in Thunks \cup {None}
  /\ \A c \in Callers, t \in Thunks : Child[t] \notin Given(c)
  /\ \A s, t \in Thunks : s # t /\ Child[s] = Child[t] => Child[s] = None
ASSUME LoopAssumption ==
  /\ Meta \subseteq Thunks /\ AutoPoll \in BOOLEAN
  /\ EVENT_QUEUE_LEN \in Nat \ {0} /\ MaxMessages \in Nat /\ MaxPolls \in Nat

VARIABLES
  owner,         \* where the owner is in Start() and Stop()
  active,
  loop,          \* where the driver's goroutine is
  cur,           \* the thunk it runs, or None
  fns,           \* whenReady.fns: the deferred thunks
  deferring,     \* whenReady.fns is not nil
  batch,         \* what Ready() has still to run
  readyCh,       \* "open", "closed" by the client, "nil" once received
  ready,
  eventCh,
  handleMessageCh,
  arrived,       \* messages that have arrived, for the bound
  tick,          \* a tick is in ticker.C, or a caller is blocked in Poll()
  polls,         \* ticks so far, for the bound
  pc,            \* caller -> operations completed
  pushing,       \* callers whose thunk passed MaybeDefer, on its way to eventCh
  cleanupTopics,
  snapshot,      \* what performCleanup() has still to clear
  retained,      \* topics with a retained message at the broker
  late,          \* topics published or registered after the snapshot
  ran            \* thunks run, in order

queueVars == <<eventCh, handleMessageCh, arrived, tick, polls>>
deferVars == <<fns, deferring, batch, readyCh, ready>>
callVars == <<pc, pushing>>
topicVars == <<cleanupTopics, snapshot, retained, late>>
vars == <<owner, active, loop, cur, ran, queueVars, deferVars, callVars, topicVars>>

TypeOK ==
  /\ owner \in {"idle", "starting", "failed", "running", "cleanup", "quit",
                "waiting", "stopped"}
  /\ active \in BOOLEAN
  /\ loop \in {"none", "select", "batch", "publish", "add", "nest", "push",
               "modelStop", "clientStop", "exited"}
  /\ cur \in Thunks \cup {None}
  /\ fns \in Seq(Thunks) /\ deferring \in BOOLEAN /\ batch \in Seq(Thunks)
  /\ readyCh \in {"open", "closed", "nil"} /\ ready \in BOOLEAN
  /\ eventCh \in Seq(Thunks) /\ Len(eventCh) <= EVENT_QUEUE_LEN
  /\ handleMessageCh \in 0..EVENT_QUEUE_LEN
  /\ arrived \in 0..MaxMessages
  /\ tick \in BOOLEAN /\ polls \in 0..MaxPolls
  /\ pc \in [Callers -> Nat] /\ \A c \in Callers : pc[c] <= Len(Program[c])
  /\ pushing \subseteq Callers
  /\ cleanupTopics \in Seq(Meta) /\ snapshot \in Seq(Meta)
  /\ retained \subseteq Meta /\ late \subseteq Meta
  /\ ran \in Seq(Thunks)

-----------------------------------------------------------------------------
(* The owner.                                                              *)

Start ==
  /\ owner = "idle" /\ ~active
  /\ owner' = "starting" /\ active' = TRUE
  /\ UNCHANGED <<loop, cur, ran, queueVars, deferVars, callVars, topicVars>>

StartFailed ==         \* model.Start() failed: active stays TRUE
  /\ owner = "starting" /\ owner' = "failed"
  /\ UNCHANGED <<active, loop, cur, ran, queueVars, deferVars, callVars, topicVars>>

StartLoop ==           \* go func()
  /\ owner = "starting" /\ owner' = "running" /\ loop' = "select"
  /\ UNCHANGED <<active, cur, ran, queueVars, deferVars, callVars, topicVars>>

(* Stop() reads the slice header of drv.cleanupTopics while the goroutine  *)
(* may be appending to it; the header is the old or the new one.           *)
Stop ==
  /\ owner \in {"running", "failed"} /\ active
  /\ owner' = "cleanup" /\ active' = FALSE
  /\ snapshot' = cleanupTopics
  /\ late' = IF loop = "add" THEN {cur} ELSE {}
  /\ UNCHANGED <<loop, cur, ran, queueVars, deferVars, callVars, cleanupTopics,
                 retained>>

(* PublishSync of an empty retained message                                *)
performCleanup ==
  /\ owner = "cleanup" /\ snapshot # <<>>
  /\ retained' = retained \ {Head(snapshot)}
  /\ snapshot' = Tail(snapshot)
  /\ UNCHANGED <<owner, active, loop, cur, ran, queueVars, deferVars, callVars,
                 cleanupTopics, late>>

SendQuit ==            \* drv.quit <- ch, not yet received
  /\ owner = "cleanup" /\ snapshot = <<>> /\ owner' = "quit"
  /\ UNCHANGED <<active, loop, cur, ran, queueVars, deferVars, callVars, topicVars>>

StopReturns ==         \* <-ch
  /\ owner = "waiting" /\ loop = "exited" /\ owner' = "stopped"
  /\ UNCHANGED <<active, loop, cur, ran, queueVars, deferVars, callVars, topicVars>>

-----------------------------------------------------------------------------
(* Callers.                                                                *)

NextOp(c) == Program[c][pc[c] + 1]
HasOp(c) == pc[c] < Len(Program[c]) /\ c \notin pushing

(* mutant: thunks are deferred after Ready() as well                       *)
DeferAlways == TRUE
Defer == deferring

(* mutant: a thunk is queued without waiting for room                      *)
RoomAlways == TRUE
Room == Len(eventCh) < EVENT_QUEUE_LEN

(* WhenReady(thunk): MaybeDefer under its mutex; the executor, CallSync,   *)
(* is called after the unlock.                                             *)
MaybeDefer(c) ==
  /\ HasOp(c) /\ NextOp(c).op = "WhenReady"
  /\ IF Defer
     THEN /\ fns' = Append(fns, NextOp(c).thunk)
          /\ pc' = [pc EXCEPT ![c] = @ + 1] /\ UNCHANGED pushing
     ELSE /\ pushing' = pushing \cup {c} /\ UNCHANGED <<pc, fns>>
  /\ UNCHANGED <<owner, active, loop, cur, ran, queueVars, deferring, batch,
                 readyCh, ready, topicVars>>

(* drv.eventCh <- thunk: blocks while the channel is full                  *)
CallSync(c) ==
  /\ c \in pushing \/ (HasOp(c) /\ NextOp(c).op = "CallSync")
  /\ Room
  /\ eventCh' = Append(eventCh, NextOp(c).thunk)
  /\ pc' = [pc EXCEPT ![c] = @ + 1]
  /\ pushing' = pushing \ {c}
  /\ UNCHANGED <<owner, active, loop, cur, ran, handleMessageCh, arrived, tick,
                 polls, deferVars, topicVars>>

HandleMessageSync ==   \* the client's callback
  /\ arrived < MaxMessages /\ handleMessageCh < EVENT_QUEUE_LEN
  /\ owner # "idle"
  /\ handleMessageCh' = handleMessageCh + 1 /\ arrived' = arrived + 1
  /\ UNCHANGED <<owner, active, loop, cur, ran, eventCh, tick, polls, deferVars,
                 callVars, topicVars>>

(* The ticker drops ticks nobody takes, and is stopped by the loop; Poll() *)
(* blocks on an unbuffered channel.                                        *)
Tick ==
  /\ polls < MaxPolls /\ ~tick
  /\ AutoPoll => loop \notin {"none", "modelStop", "clientStop", "exited"}
  /\ tick' = TRUE /\ polls' = polls + 1
  /\ UNCHANGED <<owner, active, loop, cur, ran, eventCh, handleMessageCh, arrived,
                 deferVars, callVars, topicVars>>

ClientReady ==         \* the client closes the channel of WaitForReady()
  /\ loop \notin {"none", "exited"} /\ readyCh = "open" /\ readyCh' = "closed"
  /\ UNCHANGED <<owner, active, loop, cur, ran, queueVars, fns, deferring, batch,
                 ready, callVars, topicVars>>

-----------------------------------------------------------------------------
(* The driver's goroutine.                                                 *)

(* Where a thunk begins: its publications, then its call of WhenReady.     *)
Entry(t) == IF t \in Meta THEN "publish" ELSE "nest"

(* After a thunk: the next one of Ready(), or select                       *)
Back == IF readyCh = "closed" /\ ~deferring THEN "batch" ELSE "select"

Begin(t) == cur' = t /\ loop' = Entry(t) /\ ran' = Append(ran, t)

(* mutants: Ready() leaves the thunks in the list; runs the last one first *)
LeftAll == fns
Left == <<>>
TakenReversed == Reverse(fns)
Taken == fns

Ready ==               \* case <-readyCh: whenReady.Ready()
  /\ loop = "select" /\ readyCh = "closed" /\ deferring
  /\ batch' = Taken /\ fns' = Left /\ deferring' = FALSE
  /\ loop' = "batch"
  /\ UNCHANGED <<owner, active, cur, ran, queueVars, readyCh, ready, callVars,
                 topicVars>>

RunDeferred ==         \* for _, fn := range fns
  /\ loop = "batch" /\ batch # <<>>
  /\ Begin(Head(batch)) /\ batch' = Tail(batch)
  /\ UNCHANGED <<owner, active, queueVars, fns, deferring, readyCh, ready, callVars,
                 topicVars>>

BecomeReady ==         \* readyCh = nil; drv.ready = true
  /\ loop = "batch" /\ batch = <<>>
  /\ readyCh' = "nil" /\ ready' = TRUE /\ loop' = "select"
  /\ UNCHANGED <<owner, active, cur, ran, queueVars, fns, deferring, batch, callVars,
                 topicVars>>

TakeEvent ==           \* case f := <-drv.eventCh
  /\ loop = "select" /\ eventCh # <<>>
  /\ Begin(Head(eventCh)) /\ eventCh' = Tail(eventCh)
  /\ UNCHANGED <<owner, active, handleMessageCh, arrived, tick, polls, deferVars,
                 callVars, topicVars>>

TakeMessage ==         \* case f := <-drv.handleMessageCh
  /\ loop = "select" /\ handleMessageCh > 0
  /\ handleMessageCh' = handleMessageCh - 1
  /\ UNCHANGED <<owner, active, loop, cur, ran, eventCh, arrived, tick, polls,
                 deferVars, callVars, topicVars>>

TakePoll ==            \* case <-pollChannel: model.Poll()
  /\ loop = "select" /\ tick /\ tick' = FALSE
  /\ UNCHANGED <<owner, active, loop, cur, ran, eventCh, handleMessageCh, arrived,
                 polls, deferVars, callVars, topicVars>>

publishMeta ==         \* drv.publish of publishMeta
  /\ loop = "publish" /\ loop' = "add"
  /\ retained' = retained \cup {cur}
  /\ late' = IF active THEN late ELSE late \cup {cur}
  /\ UNCHANGED <<owner, active, cur, ran, queueVars, deferVars, callVars,
                 cleanupTopics, snapshot>>

(* mutant: the topic is not put on the cleanup list                        *)
WithTopicNot(t) == cleanupTopics
WithTopic(t) ==
  IF Contains(cleanupTopics, t) THEN cleanupTopics ELSE Append(cleanupTopics, t)

addCleanupTopic ==     \* the rest of publishMeta
  /\ loop = "add" /\ loop' = "nest"
  /\ cleanupTopics' = WithTopic(cur)
  /\ UNCHANGED <<owner, active, cur, ran, queueVars, deferVars, callVars, snapshot,
                 retained, late>>

EndThunk ==            \* the thunk has no (more) call to make
  /\ loop = "nest" /\ Child[cur] = None
  /\ loop' = Back /\ cur' = None
  /\ UNCHANGED <<owner, active, ran, queueVars, deferVars, callVars, topicVars>>

WhenReady ==           \* the thunk calls WhenReady: MaybeDefer
  /\ loop = "nest" /\ Child[cur] # None
  /\ IF Defer
     THEN fns' = Append(fns, Child[cur]) /\ loop' = Back /\ cur' = None
     ELSE loop' = "push" /\ UNCHANGED <<fns, cur>>
  /\ UNCHANGED <<owner, active, ran, queueVars, deferring, batch, readyCh, ready,
                 callVars, topicVars>>

PushOwn ==             \* the loop's own CallSync: nobody else makes room
  /\ loop = "push" /\ Room
  /\ eventCh' = Append(eventCh, Child[cur])
  /\ loop' = Back /\ cur' = None
  /\ UNCHANGED <<owner, active, ran, handleMessageCh, arrived, tick, polls, deferVars,
                 callVars, topicVars>>

Quit ==                \* case quitCh := <-drv.quit
  /\ loop = "select" /\ owner = "quit"
  /\ loop' = "modelStop" /\ owner' = "waiting"
  /\ UNCHANGED <<active, cur, ran, queueVars, deferVars, callVars, topicVars>>

ModelStop ==
  /\ loop = "modelStop" /\ loop' = "clientStop"
  /\ UNCHANGED <<owner, active, cur, ran, queueVars, deferVars, callVars, topicVars>>

(* mutant: the goroutine selects again instead of closing quitCh           *)
AfterStopSelect == "select"
AfterStop == "exited"

ClientStop ==          \* drv.client.Stop(); close(quitCh); return
  /\ loop = "clientStop" /\ loop' = AfterStop
  /\ UNCHANGED <<owner, active, cur, ran, queueVars, deferVars, callVars, topicVars>>

-----------------------------------------------------------------------------
Init ==
  /\ owner = "idle" /\ active = FALSE /\ loop = "none" /\ cur = None
  /\ fns = <<>> /\ deferring = TRUE /\ batch = <<>>
  /\ readyCh = "open" /\ ready = FALSE
  /\ eventCh = <<>> /\ handleMessageCh = 0 /\ arrived = 0
  /\ tick = FALSE /\ polls = 0
  /\ pc = [c \in Callers |-> 0] /\ pushing = {}
  /\ cleanupTopics = <<>> /\ snapshot = <<>> /\ retained = {} /\ late = {}
  /\ ran = <<>>

OwnerNext == Start \/ StartFailed \/ StartLoop \/ Stop \/ performCleanup
               \/ SendQuit \/ StopReturns
CallerNext == \E c \in Callers : MaybeDefer(c) \/ CallSync(c)
ClientNext == HandleMessageSync \/ Tick \/ ClientReady
ThunkNext == publishMeta \/ addCleanupTopic \/ EndThunk \/ WhenReady \/ PushOwn
LoopNext == Ready \/ RunDeferred \/ BecomeReady \/ TakeEvent \/ TakeMessage
              \/ TakePoll \/ ThunkNext \/ Quit \/ ModelStop \/ ClientStop

Next == OwnerNext \/ CallerNext \/ ClientNext \/ LoopNext

(* Goroutines that can run do run; select chooses uniformly among its      *)
(* ready cases, so that a case that is ready again and again is taken.     *)
(* Nothing is assumed of the model's Start(), of arriving messages, or of  *)
(* whether the owner ever stops the driver.                                *)
Fairness ==
  /\ WF_vars(performCleanup) /\ WF_vars(SendQuit) /\ WF_vars(StopReturns)
  /\ \A c \in Callers : WF_vars(MaybeDefer(c)) /\ SF_vars(CallSync(c))
  /\ WF_vars(ThunkNext) /\ WF_vars(RunDeferred) /\ WF_vars(BecomeReady)
  /\ WF_vars(ModelStop) /\ WF_vars(ClientStop)
  /\ SF_vars(Ready) /\ SF_vars(TakeEvent) /\ SF_vars(TakeMessage)
  /\ SF_vars(TakePoll) /\ SF_vars(Quit)

Spec == Init /\ [][Next]_vars
FairSpec == Spec /\ Fairness

-----------------------------------------------------------------------------
(* Properties.                                                             *)

(* the thunks given to WhenReady, by a caller or by another thunk          *)
Deferrable ==
  {t \in Thunks :
     \/ \E s \in Thunks : Child[s] = t
     \/ \E c \in Callers : \E i \in DOMAIN Program[c] :
          Program[c][i] = [op |-> "WhenReady", thunk |-> t]}

Occurrences(t, s) == Cardinality({i \in DOMAIN s : s[i] = t})
Everywhere == fns \o batch \o eventCh \o ran

(* Every thunk a caller or another thunk has handed over is in exactly one *)
(* place - deferred, taken by Ready(), in eventCh or run - whatever the    *)
(* race between MaybeDefer and Ready: none is lost, none runs twice.       *)
NothingLost ==
  /\ \A c \in Callers : \A i \in 1..pc[c] :
       Occurrences(Program[c][i].thunk, Everywhere) = 1
  /\ \A t \in ToSet(ran) \ {cur} :
       Child[t] # None => Occurrences(Child[t], Everywhere) = 1

(* When performCleanup() is over, what is still retained was published     *)
(* after Stop() looked at the list, or was being published at that moment: *)
(* nothing that was published earlier escapes the cleanup.                 *)
CleanupLeavesOnlyLate ==
  owner \in {"quit", "waiting", "stopped"} => retained \subseteq late

(* the elements of a sequence that are deferrable, in their order          *)
Selection(s) ==
  LET selected[i \in 0..Len(s)] ==
        IF i = 0 THEN <<>>
        ELSE IF s[i] \in Deferrable THEN Append(selected[i - 1], s[i]) ELSE selected[i - 1]
  IN selected
OnlyDeferrable(s) == Selection(s)[Len(s)]

RQ == INSTANCE ReadyQueue WITH
        Thunks <- Deferrable,
        queue <- fns \o batch \o OnlyDeferrable(eventCh),
        open <- ~deferring,
        ran <- OnlyDeferrable(ran)

(* WhenReady() is a gated queue: the thunks run once each, in the order in *)
(* which they were accepted, and none before the client is ready.          *)
ImplementsReadyQueue == RQ!Spec

(* A thunk that calls WhenReady() while eventCh is full blocks the         *)
(* goroutine that alone empties eventCh: the driver is locked up for good. *)
SelfBlocked == loop = "push" /\ Len(eventCh) = EVENT_QUEUE_LEN

(* Once the client is ready, everything the callers want to run runs, the  *)
(* calls blocked on a full channel included, unless the driver is stopped  *)
(* or a thunk has locked it up with a WhenReady() of its own.              *)
EverythingRuns ==
  \A c \in Callers :
    (owner = "running" /\ readyCh # "open")
      ~> (Given(c) \subseteq ToSet(ran) \/ owner # "running" \/ SelfBlocked)

(* Stop() returns if Start() succeeded, whatever is queued, deferred or    *)
(* blocked at that time, with the same exception.                          *)
StopTerminates ==
  (owner = "cleanup" /\ loop # "none") ~> (owner = "stopped" \/ SelfBlocked)
=============================================================================
