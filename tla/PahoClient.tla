----------------------------- MODULE PahoClient -----------------------------
(***************************************************************************)
(* PahoMQTTClient of mqtt.go: subscriptions and retained messages kept by  *)
(* the client and made again after a reconnection, the queue of tokens and *)
(* its goroutine, Start() and Stop().  The inner client, the broker and    *)
(* the network are external: a connection may be lost at any time, the     *)
(* broker may lose its retained messages with it, sessions are clean, and  *)
(* the handlers onConnectionLost and onConnect run in goroutines of the    *)
(* library, later than the event and in any order.  A token completes over *)
(* a connection that stays up; when its connection goes first, or there is *)
(* none, the library completes it with an error or never.                  *)
(***************************************************************************)
EXTENDS Naturals, Sequences, SequencesExt

CONSTANTS
  Threads,          \* goroutines that use the client (driver, RPC server, ...)
  Topics,
  UsedBy,           \* topic -> the one goroutine that uses it
  Payloads,         \* payloads of retained messages, without the empty one
  Empty,
  None,
  TOKEN_QUEUE_LEN,
  MaxCalls,         \* bound: calls of one goroutine
  MaxLosses,        \* bound: lost connections
  MaxStarts         \* bound: calls of Start()

ASSUME ClientAssumption ==
  /\ UsedBy \in [Topics -> Threads] /\ Empty \notin Payloads
  /\ None \notin Topics
  /\ TOKEN_QUEUE_LEN \in Nat \ {0} /\ MaxCalls \in Nat /\ MaxLosses \in Nat
  /\ MaxStarts \in Nat \ {0}

VARIABLES
  started,           \* client.started
  link,              \* the inner client is connected
  events,            \* handlers the library has to run
  connected,
  subs,              \* the topics of client.subs
  retainedMessages,  \* topic -> payload, Empty when the key is absent
  tokens,            \* tokens in client.tokens
  drain,             \* the goroutine of Start(), "wait" in token.Wait()
  stopping,          \* Stop() is at client.stopped <-
  handler,           \* where onConnect is; it holds connMtx unless "idle"
  todo,              \* topics it has still to go through
  item,              \* the message it is republishing
  pc, arg,           \* thread -> where it is, with which topic and payload
  calls,             \* thread -> calls so far, for the bound
  brokerSubs, brokerRetained,
  exempt,            \* topics with a Publish that overlapped an onConnect:
                     \* retainedMessages may be out of date
  inverted,          \* a handler overtook that of an earlier event
  wanted,            \* topics whose last call is a Subscribe
  latest,            \* topic -> what was last given to Publish or PublishSync
  cleared,           \* topic -> how the broker was last told to forget it
  losses, starts,    \* for the bounds
  hung,              \* the library will never complete some token
  crashed            \* the runtime detected a concurrent map access

clientVars == <<started, connected, subs, retainedMessages, tokens, drain, stopping>>
handlerVars == <<events, handler, todo, item, inverted>>
threadVars == <<pc, arg, calls, wanted, latest, cleared>>
brokerVars == <<link, brokerSubs, brokerRetained, losses, starts, hung>>
vars == <<clientVars, handlerVars, threadVars, brokerVars, exempt, crashed>>

Item == [topic: Topics \cup {None}, payload: Payloads \cup {Empty}]
NoItem == [topic |-> None, payload |-> Empty]

TypeOK ==
  /\ started \in BOOLEAN /\ link \in BOOLEAN /\ connected \in BOOLEAN
  /\ stopping \in BOOLEAN /\ crashed \in BOOLEAN /\ hung \in BOOLEAN
  /\ events \in Seq({"up", "down"})
  /\ subs \subseteq Topics /\ brokerSubs \subseteq Topics
  /\ exempt \subseteq Topics /\ todo \subseteq Topics
  /\ retainedMessages \in [Topics -> Payloads \cup {Empty}]
  /\ brokerRetained \in [Topics -> Payloads \cup {Empty}]
  /\ tokens \in 0..TOKEN_QUEUE_LEN
  /\ drain \in {"none", "select", "wait", "exited"}
  /\ handler \in {"idle", "resub", "subToken", "repub", "pubToken", "pubMap"}
  /\ item \in Item
  /\ pc \in [Threads -> {"idle", "subLock", "sub", "subToken", "unsubLock", "unsub",
                        "pubToken", "pubMap", "sync"}]
  /\ arg \in [Threads -> Item]
  /\ inverted \in BOOLEAN
  /\ cleared \in [Topics -> {"no", "map", "sync"}]
  /\ wanted \subseteq Topics /\ latest \in [Topics -> Payloads \cup {Empty}]
  /\ calls \in [Threads -> 0..MaxCalls] /\ losses \in 0..MaxLosses
  /\ starts \in 0..MaxStarts

Running == ~crashed
connMtxFree == handler = "idle"

(* effects at the broker, lost when the connection is down                 *)
AtBroker(set) == brokerSubs' = IF link THEN set ELSE brokerSubs
Retained(t, p) ==
  brokerRetained' = IF link THEN [brokerRetained EXCEPT ![t] = p] ELSE brokerRetained

(* the fate of a token made now, and of those there are when their         *)
(* connection goes                                                         *)
TokenMade == hung' \in IF link THEN {hung} ELSE {hung, TRUE}
TokensOut ==
  \/ tokens > 0 \/ drain = "wait" \/ handler \in {"subToken", "pubToken"}
  \/ \E th \in Threads : pc[th] \in {"subToken", "pubToken", "sync"}
TokensLeft == hung' \in IF TokensOut THEN {hung, TRUE} ELSE {hung}

(* mutant: a send that does not wait for room                              *)
PushTokenUnbounded == tokens' = tokens + 1

(* client.tokens <- token                                                  *)
PushToken == tokens < TOKEN_QUEUE_LEN /\ tokens' = tokens + 1

(* mutant: a subscription made while the connection is down is not stored  *)
StoredIfConnected(t) == IF connected THEN subs \cup {t} ELSE subs

(* client.subs with one topic more                                         *)
Stored(t) == subs \cup {t}

(* mutants: the message is not remembered; an empty one is not deleted     *)
RememberedNot(t, p) == retainedMessages
RememberedAsText(t, p) ==
  IF p = Empty THEN retainedMessages ELSE [retainedMessages EXCEPT ![t] = p]

(* client.retainedMessages after a Publish with Retained                   *)
Remembered(t, p) == [retainedMessages EXCEPT ![t] = p]

-----------------------------------------------------------------------------
(* Calls of a goroutine.                                                   *)

Enter(th, t, p) ==
  /\ Running /\ pc[th] = "idle" /\ calls[th] < MaxCalls /\ UsedBy[t] = th
  /\ calls' = [calls EXCEPT ![th] = @ + 1]
  /\ arg' = [arg EXCEPT ![th] = [topic |-> t, payload |-> p]]
Goto(th, l) ==
  pc' = [pc EXCEPT ![th] = l] /\ UNCHANGED <<arg, calls, wanted, latest, cleared>>

(* Subscribe, as far as connMtx.Lock(), and up to the unlock               *)
Subscribe(th, t) ==
  /\ Enter(th, t, Empty) /\ pc' = [pc EXCEPT ![th] = "subLock"]
  /\ UNCHANGED <<clientVars, handlerVars, wanted, latest, cleared, brokerVars,
                 exempt, crashed>>

SubscribeLocked(th) ==
  /\ Running /\ pc[th] = "subLock" /\ connMtxFree
  /\ wanted' = wanted \cup {arg[th].topic} /\ subs' = Stored(arg[th].topic)
  /\ pc' = [pc EXCEPT ![th] = IF connected THEN "sub" ELSE "idle"]
  /\ UNCHANGED <<started, connected, retainedMessages, tokens, drain, stopping,
                 handlerVars, arg, calls, latest, cleared, brokerVars, exempt, crashed>>

SubscribeInner(th) ==
  /\ Running /\ pc[th] = "sub" /\ Goto(th, "subToken")
  /\ AtBroker(brokerSubs \cup {arg[th].topic}) /\ TokenMade
  /\ UNCHANGED <<clientVars, handlerVars, link, brokerRetained, losses, starts, exempt, crashed>>

(* Unsubscribe, likewise                                                   *)
Unsubscribe(th, t) ==
  /\ Enter(th, t, Empty) /\ pc' = [pc EXCEPT ![th] = "unsubLock"]
  /\ UNCHANGED <<clientVars, handlerVars, wanted, latest, cleared, brokerVars,
                 exempt, crashed>>

UnsubscribeLocked(th) ==
  /\ Running /\ pc[th] = "unsubLock" /\ connMtxFree
  /\ wanted' = wanted \ {arg[th].topic} /\ subs' = subs \ {arg[th].topic}
  /\ pc' = [pc EXCEPT ![th] = IF connected THEN "unsub" ELSE "idle"]
  /\ UNCHANGED <<started, connected, retainedMessages, tokens, drain, stopping,
                 handlerVars, arg, calls, latest, cleared, brokerVars, exempt, crashed>>

UnsubscribeInner(th) ==
  /\ Running /\ pc[th] = "unsub" /\ Goto(th, "idle")
  /\ AtBroker(brokerSubs \ {arg[th].topic})    \* its token is dropped
  /\ UNCHANGED <<clientVars, handlerVars, link, brokerRetained, losses, starts, hung, exempt,
                 crashed>>

(* history: the broker was told to forget t while no onConnect ran         *)
Cleared(t, p, how) ==
  cleared' = [cleared EXCEPT ![t] = IF p = Empty /\ link /\ connMtxFree THEN how ELSE "no"]

(* Publish with Retained: the inner client's Publish, the token, the map   *)
Publish(th, t, p) ==
  /\ Enter(th, t, p)
  /\ latest' = [latest EXCEPT ![t] = p] /\ UNCHANGED wanted
  /\ pc' = [pc EXCEPT ![th] = "pubToken"]
  /\ Retained(t, p) /\ Cleared(t, p, "map") /\ TokenMade
  /\ exempt' = IF connMtxFree THEN exempt ELSE exempt \cup {t}
  /\ UNCHANGED <<clientVars, handlerVars, link, brokerSubs, losses, starts, crashed>>

(* PublishSync does not touch the map; the driver clears topics with it    *)
PublishSync(th, t) ==
  /\ Enter(th, t, Empty) /\ UNCHANGED wanted
  /\ latest' = [latest EXCEPT ![t] = Empty]
  /\ pc' = [pc EXCEPT ![th] = "sync"]
  /\ Retained(t, Empty) /\ Cleared(t, Empty, "sync") /\ TokenMade
  /\ UNCHANGED <<clientVars, handlerVars, link, brokerSubs, losses, starts, exempt, crashed>>

SyncDone(th) ==        \* token.Wait() returns
  /\ Running /\ pc[th] = "sync" /\ Goto(th, "idle")
  /\ UNCHANGED <<clientVars, handlerVars, brokerVars, exempt, crashed>>

SubscribeToken(th) ==
  /\ Running /\ pc[th] = "subToken" /\ Goto(th, "idle") /\ PushToken
  /\ UNCHANGED <<started, connected, subs, retainedMessages, drain, stopping,
                 handlerVars, brokerVars, exempt, crashed>>

PublishToken(th) ==
  /\ Running /\ pc[th] = "pubToken" /\ Goto(th, "pubMap") /\ PushToken
  /\ UNCHANGED <<started, connected, subs, retainedMessages, drain, stopping,
                 handlerVars, brokerVars, exempt, crashed>>

(* The map is written without a lock; while onConnect ranges over it or    *)
(* another goroutine writes it the runtime may stop the process.           *)
PublishMap(th) ==
  /\ Running /\ pc[th] = "pubMap" /\ Goto(th, "idle")
  /\ retainedMessages' = Remembered(arg[th].topic, arg[th].payload)
  /\ \/ UNCHANGED crashed
     \/ /\ \/ handler \in {"repub", "pubToken", "pubMap"}
           \/ \E o \in Threads \ {th} : pc[o] = "pubMap"
        /\ crashed' = TRUE
  /\ UNCHANGED <<started, connected, subs, tokens, drain, stopping, handlerVars,
                 brokerVars, exempt>>

-----------------------------------------------------------------------------
(* Handlers.                                                               *)

(* the handler of one of the events starts, not always that of the oldest  *)
Handle(event) ==
  /\ Running /\ connMtxFree
  /\ \E i \in DOMAIN events :
       /\ events[i] = event /\ events' = RemoveAt(events, i)
       /\ inverted' = (inverted \/ i > 1)

onConnectionLost ==
  /\ Handle("down") /\ connected' = FALSE
  /\ UNCHANGED <<started, subs, retainedMessages, tokens, drain, stopping, handler,
                 todo, item, threadVars, brokerVars, exempt, crashed>>

(* mutant: the handler does not set the flag                               *)
SetConnectedNot == connected' = connected
SetConnected == connected' = TRUE

onConnect ==           \* up to the first range
  /\ Handle("up") /\ SetConnected
  /\ handler' = "resub" /\ todo' = subs
  /\ exempt' = exempt \cup {arg[th].topic : th \in {x \in Threads : pc[x] \in {"pubToken", "pubMap"}}}
  /\ cleared' = [t \in Topics |-> IF cleared[t] = "sync" THEN "no" ELSE cleared[t]]
  /\ UNCHANGED <<started, subs, retainedMessages, tokens, drain, stopping, item,
                 pc, arg, calls, wanted, latest, brokerVars, crashed>>

Resub(t) ==            \* client.subscribe(callback, topic)
  /\ Running /\ handler = "resub" /\ t \in todo
  /\ handler' = "subToken" /\ todo' = todo \ {t}
  /\ AtBroker(brokerSubs \cup {t}) /\ TokenMade
  /\ UNCHANGED <<inverted, clientVars, events, item, threadVars, link, brokerRetained, losses,
                 starts, exempt, crashed>>

ResubToken ==
  /\ Running /\ handler = "subToken" /\ handler' = "resub" /\ PushToken
  /\ UNCHANGED <<inverted, started, connected, subs, retainedMessages, drain, stopping, events,
                 todo, item, threadVars, brokerVars, exempt, crashed>>

RepubStart ==          \* range client.retainedMessages
  /\ Running /\ handler = "resub" /\ todo = {}
  /\ handler' = "repub" /\ todo' = {t \in Topics : retainedMessages[t] # Empty}
  /\ UNCHANGED <<inverted, clientVars, events, item, threadVars, brokerVars, exempt, crashed>>

Repub(t) ==            \* client.Publish(msg): the inner Publish
  /\ Running /\ handler = "repub" /\ t \in todo /\ todo' = todo \ {t}
  /\ IF retainedMessages[t] = Empty     \* deleted before it was reached
     THEN UNCHANGED <<handler, item, brokerRetained, hung>>
     ELSE /\ handler' = "pubToken"
          /\ item' = [topic |-> t, payload |-> retainedMessages[t]]
          /\ Retained(t, retainedMessages[t]) /\ TokenMade
  /\ UNCHANGED <<inverted, clientVars, events, threadVars, link, brokerSubs, losses, starts, exempt, crashed>>

RepubToken ==
  /\ Running /\ handler = "pubToken" /\ handler' = "pubMap" /\ PushToken
  /\ UNCHANGED <<inverted, started, connected, subs, retainedMessages, drain, stopping, events,
                 todo, item, threadVars, brokerVars, exempt, crashed>>

RepubMap ==            \* Publish stores the message it was given
  /\ Running /\ handler = "pubMap" /\ handler' = "repub"
  /\ retainedMessages' = Remembered(item.topic, item.payload)
  /\ item' = NoItem
  /\ UNCHANGED <<inverted, started, connected, subs, tokens, drain, stopping, events, todo,
                 threadVars, brokerVars, exempt, crashed>>

onConnectDone ==       \* connMtx.Unlock()
  /\ Running /\ handler = "repub" /\ todo = {} /\ handler' = "idle"
  /\ UNCHANGED <<inverted, clientVars, events, todo, item, threadVars, brokerVars, exempt, crashed>>

-----------------------------------------------------------------------------
(* Start(), Stop(), the goroutine that waits for tokens, the network.      *)

(* Stop() holds startMtx until it returns; a refused connection (a panic   *)
(* in Start()) is left out, a client that is started already returns       *)
Start ==
  /\ Running /\ ~started /\ ~stopping /\ starts < MaxStarts
  /\ starts' = starts + 1
  /\ started' = TRUE /\ drain' = "select"
  /\ link' = TRUE /\ events' = Append(events, "up")
  /\ UNCHANGED <<inverted, connected, subs, retainedMessages, tokens, stopping, handler, todo,
                 item, threadVars, brokerSubs, brokerRetained, losses, hung, exempt, crashed>>

Stop ==                \* Disconnect; then client.stopped <-
  /\ Running /\ started
  /\ started' = FALSE /\ stopping' = TRUE
  /\ link' = FALSE /\ brokerSubs' = {} /\ TokensLeft
  /\ UNCHANGED <<connected, subs, retainedMessages, tokens, drain, handlerVars,
                 threadVars, brokerRetained, losses, starts, exempt, crashed>>

StopReceived ==        \* case <-client.stopped
  /\ Running /\ stopping /\ drain = "select"
  /\ stopping' = FALSE /\ drain' = "exited"
  /\ UNCHANGED <<started, connected, subs, retainedMessages, tokens, handlerVars,
                 threadVars, brokerVars, exempt, crashed>>

ReceiveToken ==        \* case token := <-client.tokens
  /\ Running /\ drain = "select" /\ tokens > 0
  /\ tokens' = tokens - 1 /\ drain' = "wait"
  /\ UNCHANGED <<started, connected, subs, retainedMessages, stopping,
                 handlerVars, threadVars, brokerVars, exempt, crashed>>

(* mutant: the goroutine returns after a token                             *)
LoopReturns == drain' = "exited"
Loop == drain' = "select"

WaitToken ==           \* token.Wait() returns
  /\ Running /\ drain = "wait" /\ Loop
  /\ UNCHANGED <<started, connected, subs, retainedMessages, tokens, stopping,
                 handlerVars, threadVars, brokerVars, exempt, crashed>>

Lose ==                \* the broker may have restarted without its messages
  /\ Running /\ started /\ link /\ losses < MaxLosses
  /\ losses' = losses + 1
  /\ link' = FALSE /\ brokerSubs' = {} /\ TokensLeft
  /\ brokerRetained' \in {brokerRetained, [t \in Topics |-> Empty]}
  /\ events' = Append(events, "down")
  /\ UNCHANGED <<inverted, clientVars, handler, todo, item, threadVars, starts, exempt, crashed>>

Reconnect ==
  /\ Running /\ started /\ ~link
  /\ link' = TRUE /\ events' = Append(events, "up")
  /\ UNCHANGED <<inverted, clientVars, handler, todo, item, threadVars, brokerSubs,
                 brokerRetained, losses, starts, hung, exempt, crashed>>

Init ==
  /\ started = FALSE /\ link = FALSE /\ connected = FALSE
  /\ events = <<>> /\ subs = {} /\ tokens = 0 /\ drain = "none" /\ stopping = FALSE
  /\ retainedMessages = [t \in Topics |-> Empty]
  /\ handler = "idle" /\ todo = {} /\ item = NoItem
  /\ pc = [th \in Threads |-> "idle"] /\ arg = [th \in Threads |-> NoItem]
  /\ calls = [th \in Threads |-> 0]
  /\ wanted = {} /\ latest = [t \in Topics |-> Empty]
  /\ brokerSubs = {} /\ brokerRetained = [t \in Topics |-> Empty]
  /\ inverted = FALSE /\ cleared = [t \in Topics |-> "no"]
  /\ exempt = {} /\ losses = 0 /\ starts = 0 /\ hung = FALSE /\ crashed = FALSE

Calls(th) ==
  \E t \in Topics :
    \/ Subscribe(th, t) \/ Unsubscribe(th, t) \/ PublishSync(th, t)
    \/ \E p \in Payloads \cup {Empty} : Publish(th, t, p)
Continue(th) ==
  \/ SubscribeLocked(th) \/ SubscribeInner(th) \/ SubscribeToken(th)
  \/ UnsubscribeLocked(th) \/ UnsubscribeInner(th)
  \/ PublishToken(th) \/ PublishMap(th)
onConnectNext ==
  \/ ResubToken \/ RepubStart \/ RepubToken \/ RepubMap \/ onConnectDone
  \/ \E t \in Topics : Resub(t) \/ Repub(t)
HandlerNext == onConnectionLost \/ onConnect \/ onConnectNext

Next ==
  \/ \E th \in Threads : Calls(th) \/ Continue(th) \/ SyncDone(th)
  \/ HandlerNext
  \/ Start \/ Stop \/ StopReceived \/ ReceiveToken \/ WaitToken \/ Lose \/ Reconnect

(* Goroutines that can run do run, a blocked send of a token and a blocked *)
(* Lock() are served in turn, select serves both its cases, and the        *)
(* library connects again after a loss.  token.Wait() is only known to     *)
(* return as long as the library has left no token uncompleted.  Stop()    *)
(* need not be called.                                                     *)
Fairness ==
  /\ \A th \in Threads : SF_vars(Continue(th)) /\ WF_vars(~hung /\ SyncDone(th))
  /\ WF_vars(onConnectionLost) /\ WF_vars(onConnect) /\ SF_vars(onConnectNext)
  /\ SF_vars(ReceiveToken) /\ WF_vars(~hung /\ WaitToken)
  /\ SF_vars(StopReceived) /\ WF_vars(Reconnect)

Spec == Init /\ [][Next]_vars
FairSpec == Spec /\ Fairness

-----------------------------------------------------------------------------
(* Properties.                                                             *)

(* no handler is running or due, no call is under way                      *)
Quiet ==
  /\ ~crashed /\ started /\ link /\ events = <<>> /\ handler = "idle"
  /\ \A th \in Threads : pc[th] = "idle"

(* Whatever calls, losses and handlers interleave, a client at rest that   *)
(* takes itself for connected has every topic it is subscribed to also     *)
(* subscribed at the broker: none is lost between the unlock and the inner *)
(* call or in an outage; and it takes itself for connected unless handlers *)
(* ran out of order.  Unless a connection was lost the broker has no other *)
(* topics.  (After a loss it may: an onConnect still running when the      *)
(* connection is lost and made again subscribes on the new connection,     *)
(* onConnectionLost then clears connected, and an Unsubscribe before the   *)
(* next onConnect stays local.)                                            *)
SubscriptionsRestored ==
  Quiet => /\ ~inverted => connected
           /\ connected => wanted \subseteq brokerSubs
           /\ losses = 0 => brokerSubs \subseteq wanted

(* At rest the broker has the last retained message of every topic, a      *)
(* broker that lost its messages included, in whatever order the handlers  *)
(* ran, except where a Publish overlapped the republication by onConnect.  *)
RetainedRestored ==
  Quiet => \A t \in Topics \ exempt :
             latest[t] # Empty => brokerRetained[t] = latest[t]

(* A topic the broker was told to forget stays forgotten: after Publish,   *)
(* which deletes it from retainedMessages, through every reconnection;     *)
(* after PublishSync, which does not, until the next onConnect.            *)
ClearedStaysCleared ==
  \A t \in Topics \ exempt : cleared[t] # "no" => brokerRetained[t] = Empty

(* Every call returns while the client is not stopped, although calls and  *)
(* onConnect, holding connMtx, wait for room in the queue of tokens, and   *)
(* Subscribe and Unsubscribe for connMtx; and Stop(), which waits for the  *)
(* goroutine that empties the queue, returns.  What can keep them from it  *)
(* is a token the library never completes because its connection is gone:  *)
(* then the goroutine stays in token.Wait(), Stop() waits for it, and the  *)
(* calls wait once the queue is full.                                      *)
CallsReturn ==
  /\ \A th \in Threads :
       (pc[th] # "idle" /\ started) ~> (pc[th] = "idle" \/ ~started \/ hung \/ crashed)
  /\ stopping ~> (~stopping \/ (hung /\ drain = "wait") \/ crashed)

(* A started client gets connected again after every loss, with its        *)
(* subscriptions made, unless handlers run out of order or the library     *)
(* leaves a token uncompleted, with which onConnect may wait forever.      *)
Reconnects ==
  started ~> ((connected /\ handler = "idle") \/ inverted \/ ~started \/ hung \/ crashed)
=============================================================================
