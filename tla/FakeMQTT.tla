------------------------------ MODULE FakeMQTT ------------------------------
(***************************************************************************)
(* FakeMQTTBroker and FakeMQTTClient of testutils/fake_mqtt.go, the double *)
(* the tests of this library and of its users run against.  Publish holds  *)
(* the broker's mutex and takes that of every client it delivers to;       *)
(* Subscribe and Unsubscribe hold the client's and take the broker's.      *)
(* Handlers run in the publishing goroutine, with both held.               *)
(*                                                                         *)
(* A goroutine has one client, named after it, and its handlers send to a  *)
(* channel the goroutine empties when it is in no call (the driver's       *)
(* handleMessageCh, the RPC server's messageCh).  The channel of the       *)
(* Recorder, to which the broker reports under its mutex, is emptied by    *)
(* the goroutine that runs the test; module Recorder has the rest of it.   *)
(* A call on a client that was not started panics; none is made here.      *)
(* PublishSync does nothing.                                               *)
(***************************************************************************)
EXTENDS Naturals, Sequences, SequencesExt, FiniteSetsExt

CONSTANTS
  Threads,
  Tester,           \* the goroutine that runs the test
  Nobody,
  Patterns,         \* subscribed topics: sequences of parts
  Topics,           \* topics of messages: sequences of parts
  TopicLists,       \* what Subscribe and Unsubscribe are given
  EVENT_QUEUE_LEN,  \* room in the channel of a handler
  REC_LEN,          \* room in the channel of the recorder (1000)
  MaxCalls          \* bound: thread -> calls it makes

ASSUME FakeAssumption ==
  /\ Tester \in Threads /\ Nobody \notin Threads
  /\ IsFiniteSet(Patterns) /\ Patterns \cup Topics \subseteq Seq(STRING)
  /\ TopicLists \subseteq Seq(Patterns) \ {<<>>}
  /\ EVENT_QUEUE_LEN \in Nat \ {0} /\ REC_LEN \in Nat \ {0}
  /\ MaxCalls \in [Threads -> Nat]

VARIABLES
  broker,         \* the holder of the broker's mutex
  mutex,          \* client -> the holder of its mutex
  subscriptions,  \* pattern -> sequence of clients
  callbackMap,    \* client -> pattern -> number of handlers
  waitForRetained, started,
  readyChannels,  \* clients whose ready channel SetReady() will close
  closed,         \* clients whose ready channel is closed
  crashed,        \* a channel was closed twice
  pc, op, arg,    \* thread -> where it is, in which call, with what
  todo,           \* publisher -> places in subscriptions it has to visit
  visit,          \* publisher -> the client it is at, handlers left to call
  recorded,       \* items in the channel of the recorder
  queued,         \* client -> messages in the channel of its handlers
  owed,           \* client -> calls of its handlers the last publication owes it
  calls           \* for the bound

locks == <<broker, mutex>>
tables == <<subscriptions, callbackMap>>
readiness == <<waitForRetained, started, readyChannels, closed, crashed>>
channels == <<recorded, queued, owed>>
control == <<pc, op, arg, todo, visit, calls>>
vars == <<locks, tables, readiness, channels, control>>

-----------------------------------------------------------------------------
(* mutant: "#" does not stand for the level above it                       *)
WildcardBelow(pattern, topic, i) == pattern[i] = "#" /\ i <= Len(topic)
Wildcard(pattern, topic, i) == pattern[i] = "#"

(* topicPartsMatch, on the parts from the i-th                             *)
topicMatch(pattern, topic) ==
  LET match[i \in 1..Len(pattern) + 1] ==
        IF i > Len(pattern) THEN i > Len(topic)
        ELSE \/ Wildcard(pattern, topic, i)
             \/ /\ i <= Len(topic) /\ pattern[i] \in {"+", topic[i]}
                /\ match[i + 1]
  IN match[1]

(* mutant: a client is listed once for every Subscribe                     *)
ListedAgain(c, p) == Append(subscriptions[p], c)

(* broker.subscriptions[p] after Subscribe and after Unsubscribe           *)
Listed(c, p) ==
  IF Contains(subscriptions[p], c) THEN subscriptions[p] ELSE Append(subscriptions[p], c)
NewSubs(subs, c) ==
  LET newSubs[n \in 0..Len(subs)] ==
        IF n = 0 THEN <<>>
        ELSE IF subs[n] # c THEN Append(newSubs[n - 1], subs[n]) ELSE newSubs[n - 1]
  IN newSubs
Unlisted(c, p) == NewSubs(subscriptions[p], c)[Len(subscriptions[p])]

(* The handlers a client has for the patterns of S, of which h[p] were     *)
(* given for p.                                                            *)
HandlersFor(h, S) == UNION {{p} \X (1..h[p]) : p \in S}

NoVisit == [client |-> Nobody, handlers |-> 0]

(* mutant: receive returns with the client's mutex held                    *)
UnlockNot(m, c) == m
Unlock(m, c) == [m EXCEPT ![c] = Nobody]

-----------------------------------------------------------------------------
Goto(th, l) == pc' = [pc EXCEPT ![th] = l]
Room == recorded < REC_LEN
Rec == Room /\ recorded' = recorded + 1

(* Calls.                                                                  *)
Called(th) ==
  /\ ~crashed /\ pc[th] = "idle" /\ calls[th] < MaxCalls[th]
  /\ calls' = [calls EXCEPT ![th] = @ + 1]

Enter(th, what, l, x) ==
  /\ Called(th) /\ started[th]
  /\ op' = [op EXCEPT ![th] = what] /\ arg' = [arg EXCEPT ![th] = x]
  /\ Goto(th, l)
  /\ UNCHANGED <<locks, tables, readiness, channels, todo, visit>>

Publish(th, t) == Enter(th, "pub", "broker", <<t>>)
Subscribe(th, ts) == Enter(th, "sub", "client", ts)
Unsubscribe(th, ts) == Enter(th, "unsub", "client", ts)

LockClient(th) ==     \* client.Lock() of Subscribe and Unsubscribe
  /\ pc[th] = "client" /\ mutex[th] = Nobody
  /\ mutex' = [mutex EXCEPT ![th] = th] /\ Goto(th, "broker")
  /\ UNCHANGED <<broker, tables, readiness, channels, op, arg, todo, visit, calls>>

LockBroker(th) ==
  /\ pc[th] = "broker" /\ broker = Nobody
  /\ broker' = th /\ Goto(th, "rec")
  /\ UNCHANGED <<mutex, tables, readiness, channels, op, arg, todo, visit, calls>>

-----------------------------------------------------------------------------
(* broker.Publish.                                                         *)

(* Reference: which topics a pattern stands for, and how often a client is *)
(* to get a message: every handler once for each pattern of the client     *)
(* that matches, a handler of the call the client is in included if the    *)
(* broker knows of it already.                                             *)
RefMatch(p, t) ==
  LET hashes == {i \in DOMAIN p : p[i] = "#"}
      levels == IF hashes = {} THEN Len(p) ELSE Min(hashes) - 1
  IN /\ Len(t) >= levels /\ (hashes = {} => Len(t) = levels)
     /\ \A i \in 1..levels : p[i] \in {"+", t[i]}
Fitting(t) == {p \in Patterns : RefMatch(p, t)}
Handlers(c, p) ==
  IF pc[c] = "apply" /\ Head(arg[c]) = p
  THEN (IF op[c] = "sub" THEN callbackMap[c][p] + 1 ELSE 0) ELSE callbackMap[c][p]
Due(c, t) ==
  Cardinality({p \in Fitting(t) : Contains(subscriptions[p], c)})
    * Cardinality(HandlersFor([p \in Patterns |-> Handlers(c, p)], Fitting(t)))

PublishRec(th) ==     \* the report; the clients of every matching pattern
  /\ pc[th] = "rec" /\ op[th] = "pub" /\ Rec /\ Goto(th, "deliver")
  /\ todo' = [todo EXCEPT ![th] =
       UNION {{<<p, i>> : i \in DOMAIN subscriptions[p]} :
                p \in {q \in Patterns : topicMatch(q, Head(arg[th]))}}]
  /\ owed' = [c \in Threads |-> Due(c, Head(arg[th]))]
  /\ UNCHANGED <<locks, tables, readiness, queued, op, arg, visit, calls>>

receive(th) ==        \* client.receive, up to the first handler
  /\ pc[th] = "deliver"
  /\ \E place \in todo[th] :
       LET c == subscriptions[place[1]][place[2]] IN
       /\ mutex[c] = Nobody /\ mutex' = [mutex EXCEPT ![c] = th]
       /\ todo' = [todo EXCEPT ![th] = @ \ {place}]
       /\ visit' = [visit EXCEPT ![th] = [client |-> c, handlers |->
            Cardinality(HandlersFor(callbackMap[c],
                          {q \in Patterns : topicMatch(q, Head(arg[th]))}))]]
  /\ Goto(th, "receive")
  /\ UNCHANGED <<broker, tables, readiness, channels, op, arg, calls>>

Full(c) == queued[c] = EVENT_QUEUE_LEN

CallHandler(th) ==    \* handler(message), which sends it to a channel
  LET c == visit[th].client IN
  /\ pc[th] = "receive" /\ visit[th].handlers > 0 /\ ~Full(c)
  /\ queued' = [queued EXCEPT ![c] = @ + 1]
  /\ visit' = [visit EXCEPT ![th].handlers = @ - 1]
  /\ owed' = [owed EXCEPT ![c] = @ - 1]
  /\ UNCHANGED <<locks, tables, readiness, recorded, pc, op, arg, todo, calls>>

receiveDone(th) ==
  /\ pc[th] = "receive" /\ visit[th].handlers = 0
  /\ mutex' = Unlock(mutex, visit[th].client) /\ Goto(th, "deliver")
  /\ visit' = [visit EXCEPT ![th] = NoVisit]
  /\ UNCHANGED <<broker, tables, readiness, channels, op, arg, todo, calls>>

PublishDone(th) ==
  /\ pc[th] = "deliver" /\ todo[th] = {} /\ broker' = Nobody /\ Goto(th, "idle")
  /\ op' = [op EXCEPT ![th] = "none"] /\ arg' = [arg EXCEPT ![th] = <<>>]
  /\ UNCHANGED <<mutex, tables, readiness, channels, todo, visit, calls>>

-----------------------------------------------------------------------------
(* broker.Subscribe and broker.Unsubscribe, then the client's own map.     *)

BrokerUpdate(th) ==
  LET p == Head(arg[th]) IN
  /\ pc[th] = "rec" /\ op[th] # "pub" /\ Rec /\ Goto(th, "apply")
  /\ subscriptions' = [subscriptions EXCEPT ![p] =
                         IF op[th] = "sub" THEN Listed(th, p) ELSE Unlisted(th, p)]
  /\ broker' = Nobody
  /\ UNCHANGED <<mutex, callbackMap, readiness, queued, owed, op, arg, todo, visit, calls>>

ClientUpdate(th) ==   \* and the next topic, or client.Unlock()
  /\ pc[th] = "apply"
  /\ callbackMap' = [callbackMap EXCEPT ![th][Head(arg[th])] =
                       IF op[th] = "sub" THEN @ + 1 ELSE 0]
  /\ arg' = [arg EXCEPT ![th] = Tail(@)]
  /\ IF Len(arg[th]) > 1
     THEN Goto(th, "broker") /\ UNCHANGED <<mutex, op>>
     ELSE /\ Goto(th, "idle") /\ op' = [op EXCEPT ![th] = "none"]
          /\ mutex' = Unlock(mutex, th)
  /\ UNCHANGED <<broker, subscriptions, readiness, channels, todo, visit, calls>>

-----------------------------------------------------------------------------
(* Start(), Stop() and SetReady(); closing a closed channel panics.        *)

Close(S) == closed' = closed \cup S /\ crashed' = (crashed \/ S \cap closed # {})

Start(th) ==          \* a client that is started returns
  /\ Called(th) /\ ~started[th]
  /\ started' = [started EXCEPT ![th] = TRUE]
  /\ Close(IF waitForRetained THEN {} ELSE {th})
  /\ UNCHANGED <<waitForRetained, readyChannels, locks, tables, channels, pc, op, arg, todo,
                 visit>>

Stop(th) ==
  /\ Called(th) /\ started[th] /\ Rec
  /\ started' = [started EXCEPT ![th] = FALSE]
  /\ UNCHANGED <<waitForRetained, readyChannels, closed, crashed, locks, tables, queued,
                 owed, pc, op, arg, todo, visit>>

SetReady ==
  /\ Called(Tester) /\ readyChannels # {}
  /\ Close(readyChannels) /\ readyChannels' = {}
  /\ UNCHANGED <<waitForRetained, started, locks, tables, channels, pc, op, arg, todo,
                 visit>>

(* The goroutines, external: one takes a message, the test takes an item.  *)
HandleOne(th) ==
  /\ ~crashed /\ pc[th] = "idle" /\ queued[th] > 0
  /\ queued' = [queued EXCEPT ![th] = @ - 1]
  /\ UNCHANGED <<locks, tables, readiness, recorded, owed, control>>

TakeItem ==
  /\ ~crashed /\ pc[Tester] = "idle" /\ recorded > 0 /\ recorded' = recorded - 1
  /\ UNCHANGED <<locks, tables, readiness, queued, owed, control>>

(* MakeClient() and Start() of every client have returned.                 *)
Init ==
  /\ broker = Nobody /\ mutex = [th \in Threads |-> Nobody]
  /\ subscriptions = [p \in Patterns |-> <<>>]
  /\ callbackMap = [th \in Threads |-> [p \in Patterns |-> 0]]
  /\ waitForRetained \in BOOLEAN /\ started = [th \in Threads |-> TRUE]
  /\ readyChannels = (IF waitForRetained THEN Threads ELSE {})
  /\ closed = Threads \ readyChannels /\ crashed = FALSE
  /\ pc = [th \in Threads |-> "idle"] /\ op = [th \in Threads |-> "none"]
  /\ arg = [th \in Threads |-> <<>>] /\ todo = [th \in Threads |-> {}]
  /\ visit = [th \in Threads |-> NoVisit] /\ calls = [th \in Threads |-> 0]
  /\ recorded = 0 /\ queued = [th \in Threads |-> 0] /\ owed = [th \in Threads |-> 0]

Call(th) ==
  \/ \E t \in Topics : Publish(th, t)
  \/ \E ts \in TopicLists : Subscribe(th, ts) \/ Unsubscribe(th, ts)
Continue(th) ==
  \/ LockClient(th) \/ LockBroker(th) \/ PublishRec(th) \/ receive(th) \/ CallHandler(th)
  \/ receiveDone(th) \/ PublishDone(th) \/ BrokerUpdate(th) \/ ClientUpdate(th)

Next ==
  \/ \E th \in Threads :
       Call(th) \/ (~crashed /\ Continue(th)) \/ Start(th) \/ Stop(th) \/ HandleOne(th)
  \/ SetReady \/ TakeItem

(* Goroutines run, a mutex is given to each that waits for it in turn, and *)
(* channels are emptied by a goroutine that is in no call.                 *)
Fairness ==
  /\ \A th \in Threads : SF_vars(~crashed /\ Continue(th)) /\ WF_vars(HandleOne(th))
  /\ WF_vars(TakeItem)

Spec == Init /\ [][Next]_vars
FairSpec == Spec /\ Fairness

-----------------------------------------------------------------------------
(* Properties.                                                             *)

(* A publication is atomic although Publish goes from client to client and *)
(* subscribers change two tables under two mutexes: once the broker is     *)
(* free, the handlers of every client have been called exactly as often as *)
(* the tables asked for when the message was reported, by the reference    *)
(* definition of a match.                                                  *)
DeliveredAsPublished ==
  \A c \in Threads : owed[c] >= 0 /\ (broker = Nobody => owed[c] = 0)

(* The two tables, which no lock covers together, agree: a client whose    *)
(* mutex is free is listed by the broker, once, for exactly the patterns   *)
(* it has handlers for.                                                    *)
TablesAgree ==
  \A c \in Threads, p \in Patterns :
    mutex[c] = Nobody =>
      Cardinality({i \in DOMAIN subscriptions[p] : subscriptions[p][i] = c})
        = (IF callbackMap[c][p] > 0 THEN 1 ELSE 0)

(* the three ways in which everybody may wait for everybody                *)
Crossed ==            \* a publisher and a subscriber took the mutexes in turn
  \E a, b \in Threads : /\ pc[a] = "deliver" /\ broker = a
                        /\ pc[b] = "broker" /\ mutex[b] = b
                        /\ \E place \in todo[a] : subscriptions[place[1]][place[2]] = b
Flooded ==            \* a full channel, its reader being in a call
  \E a \in Threads : /\ pc[a] = "receive" /\ visit[a].handlers > 0
                     /\ Full(visit[a].client)
                     /\ visit[a].client = a \/ pc[visit[a].client] \in {"client", "broker"}
RecorderFull == ~Room /\ \E a \in Threads : pc[a] = "rec" /\ pc[Tester] # "idle"

(* Every call returns unless one of the three happens: the broker's mutex  *)
(* held in the handlers, the two orders of locking, nor the channels stop  *)
(* anybody otherwise.                                                      *)
CallsReturn ==
  \A th \in Threads :
    pc[th] # "idle" ~> pc[th] = "idle" \/ Crossed \/ Flooded \/ RecorderFull \/ crashed
=============================================================================
