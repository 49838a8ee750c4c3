--------------------------- MODULE ReadyHandshake ---------------------------
(***************************************************************************)
(* PahoMQTTClient.WaitForReady() of mqtt.go: the client learns that the    *)
(* broker has sent it the retained messages by sending itself a message of *)
(* QoS 1 and one of QoS 2 on a topic of its own.  The broker keeps the     *)
(* order of messages of one QoS and none between two.  The driver calls    *)
(* Start(), Subscribe() and WaitForReady() in this order; the OnConnect    *)
(* handler, which makes the subscriptions stored until then, runs in a     *)
(* goroutine of the library.  Sessions are clean: a lost connection takes  *)
(* its subscriptions and its messages in flight with it.  A driver that    *)
(* was stopped may be started again with the same client.                  *)
(***************************************************************************)
EXTENDS Naturals, Sequences

CONSTANTS
  MaxLosses,        \* bound: lost connections
  MaxRestarts,      \* bound: restarts of the driver
  MaxDups           \* bound: duplicated QoS 1 messages

ASSUME HandshakeAssumption ==
  MaxLosses \in Nat /\ MaxRestarts \in Nat /\ MaxDups \in Nat

QoS == {1, 2}
Old == "retained"     \* an old retained message; there is one of each QoS
Probes == <<"1", "2">>

VARIABLES
  waitForRetained,  \* given to NewPahoMQTTClient, never changed
  link,       \* the connection is up
  handlers,   \* connections whose OnConnect handler has not run
  connected,  \* client.connected
  subs,       \* the driver's subscription is in client.subs
  brokerSub,  \* the broker knows it
  waitSub,    \* the broker knows the subscription to the wait topic
  driver,     \* "start", "subscribe", "wait", "run"
  ordered,    \* the broker knew brokerSub when it accepted waitSub
  waiter,     \* the goroutine of WaitForReady
  got,        \* the QoS whose probe has come back (got1, got2)
  failed,     \* the subscription to the wait topic was reported as failed
  ready,      \* number of times client.ready was closed
  net,        \* QoS -> messages under way to the client
  received,   \* QoS -> the old message was passed to the driver's callback
  losses, dups, restarts

connVars == <<link, handlers, connected>>
vars == <<connVars, subs, brokerSub, waitSub, driver, ordered, waiter, got, failed,
          ready, net, received, losses, dups, restarts, waitForRetained>>
bounded == <<losses, dups, restarts, waitForRetained>>

(* the broker answers a subscription with the retained messages            *)
Answered == [q \in QoS |-> Append(net[q], Old)]

Start ==              \* innerClient.Connect(), token.Wait()
  /\ driver = "start" /\ driver' = "subscribe"
  /\ link' = TRUE /\ handlers' = handlers + 1
  /\ UNCHANGED <<connected, subs, brokerSub, waitSub, ordered, waiter, got, failed,
                 ready, net, received, bounded>>

onConnect ==
  /\ handlers > 0 /\ handlers' = handlers - 1
  /\ connected' = TRUE
  /\ IF subs /\ link
     THEN brokerSub' = TRUE /\ net' = Answered
     ELSE UNCHANGED <<brokerSub, net>>
  /\ UNCHANGED <<link, subs, waitSub, driver, ordered, waiter, got, failed,
                 ready, received, bounded>>

Subscribe ==
  /\ driver = "subscribe" /\ driver' = "wait"
  /\ subs' = TRUE
  /\ IF connected /\ link
     THEN brokerSub' = TRUE /\ net' = Answered
     ELSE UNCHANGED <<brokerSub, net>>
  /\ UNCHANGED <<connVars, waitSub, ordered, waiter, got, failed, ready, received, bounded>>

WaitForReady ==
  /\ driver = "wait" /\ driver' = "run"
  /\ IF waitForRetained THEN waiter' = "subscribe" /\ UNCHANGED ready
                        ELSE ready' = ready + 1 /\ UNCHANGED waiter
  /\ UNCHANGED <<connVars, subs, brokerSub, waitSub, ordered, got, failed, net,
                 received, bounded>>

(* mutant: the failure is only logged                                      *)
FailedAnd(n) == n
FailedThen(n) == n + 1       \* "don't hang there, anyway"

(* client.subscribe(..., waitTopic), which does not enter client.subs, and *)
(* its token: it fails for want of a connection, or the broker refuses     *)
WaiterSubscribe ==
  /\ waiter = "subscribe" /\ waiter' = "publish1"
  /\ ordered' = brokerSub
  /\ \/ link /\ waitSub' = TRUE /\ UNCHANGED <<failed, ready>>
     \/ failed' = TRUE /\ ready' = FailedThen(ready) /\ UNCHANGED waitSub
  /\ UNCHANGED <<connVars, subs, brokerSub, driver, got, net, received,
                 bounded>>

Payload(q) == Probes[q]

(* client.Publish of probe q, which comes back with the same QoS           *)
Probe(q) ==
  /\ waiter = (IF q = 1 THEN "publish1" ELSE "publish2")
  /\ waiter' = IF q = 1 THEN "publish2" ELSE "done"
  /\ net' = IF link /\ waitSub THEN [net EXCEPT ![q] = Append(@, Payload(q))] ELSE net
  /\ UNCHANGED <<connVars, subs, brokerSub, waitSub, driver, ordered, got, failed,
                 ready, received, bounded>>

(* mutants: no check whether both have come back; one probe is enough      *)
BothAlreadyNot == FALSE
BothAlready == got = QoS
NotedBoth(p) == QoS
Noted(p) == got \cup {i \in QoS : Probes[i] = p}

(* the callback of the wait topic                                          *)
Callback(p) ==
  IF BothAlready THEN UNCHANGED <<got, ready, waitSub>>
  ELSE /\ got' = Noted(p)
       /\ IF got' = QoS THEN ready' = ready + 1 /\ waitSub' = FALSE
                        ELSE UNCHANGED <<ready, waitSub>>

Deliver(q) ==
  /\ net[q] # <<>>
  /\ net' = [net EXCEPT ![q] = Tail(@)]
  /\ IF Head(net[q]) = Old
     THEN received' = [received EXCEPT ![q] = TRUE] /\ UNCHANGED <<got, ready, waitSub>>
     ELSE Callback(Head(net[q])) /\ UNCHANGED received
  /\ UNCHANGED <<connVars, subs, brokerSub, driver, ordered, waiter, failed, bounded>>

Duplicate ==          \* QoS 1 is "at least once"
  /\ dups < MaxDups /\ dups' = dups + 1
  /\ net[1] # <<>>
  /\ net' = [net EXCEPT ![1] = <<Head(@)>> \o @]
  /\ UNCHANGED <<connVars, subs, brokerSub, waitSub, driver, ordered, waiter, got,
                 failed, ready, received, losses, restarts, waitForRetained>>

(* onConnectionLost runs before the handler of the next connection, which  *)
(* may be late                                                             *)
onConnectionLost ==
  /\ link /\ losses < MaxLosses
  /\ losses' = losses + 1
  /\ link' = FALSE /\ connected' = FALSE
  /\ brokerSub' = FALSE /\ waitSub' = FALSE
  /\ net' = [q \in QoS |-> <<>>]
  /\ UNCHANGED <<handlers, subs, driver, ordered, waiter, got, failed, ready,
                 received, dups, restarts, waitForRetained>>

(* Driver.Stop(), with client.Stop(), before the driver is started again;  *)
(* left out: a restart while the goroutine of WaitForReady still runs      *)
Restart ==
  /\ driver = "run" /\ waiter \in {"none", "done"} /\ restarts < MaxRestarts
  /\ restarts' = restarts + 1
  /\ driver' = "start" /\ waiter' = "none" /\ got' = {}
  /\ link' = FALSE /\ brokerSub' = FALSE /\ waitSub' = FALSE
  /\ net' = [q \in QoS |-> <<>>]
  /\ UNCHANGED <<handlers, connected, subs, ordered, failed, ready, received, losses,
                 dups, waitForRetained>>

Reconnect ==
  /\ driver # "start" /\ ~link
  /\ link' = TRUE /\ handlers' = handlers + 1
  /\ UNCHANGED <<connected, subs, brokerSub, waitSub, driver, ordered, waiter, got,
                 failed, ready, net, received, bounded>>

Init ==
  /\ link = FALSE /\ handlers = 0 /\ connected = FALSE
  /\ subs = FALSE /\ brokerSub = FALSE /\ waitSub = FALSE
  /\ driver = "start" /\ ordered = FALSE /\ waiter = "none"
  /\ got = {} /\ failed = FALSE /\ ready = 0
  /\ net = [q \in QoS |-> <<>>] /\ received = [q \in QoS |-> FALSE]
  /\ losses = 0 /\ dups = 0 /\ restarts = 0 /\ waitForRetained \in BOOLEAN

(* a second close(client.ready) is a panic                                 *)
Running == ready <= 1

DriverNext == Running /\ (Start \/ Subscribe \/ WaitForReady)
WaiterNext == Running /\ (WaiterSubscribe \/ \E q \in QoS : Probe(q))
NetNext == Running /\ (Duplicate \/ onConnectionLost \/ \E q \in QoS : Deliver(q))

Next ==
  DriverNext \/ WaiterNext \/ NetNext \/ (Running /\ (onConnect \/ Reconnect \/ Restart))

(* Goroutines run; the library reconnects; what is sent over a connection  *)
(* that stays up arrives.                                                  *)
Fairness ==
  /\ WF_vars(DriverNext) /\ WF_vars(WaiterNext)
  /\ WF_vars(Running /\ onConnect) /\ WF_vars(Running /\ Reconnect)
  /\ \A q \in QoS : WF_vars(Running /\ Deliver(q))

Spec == Init /\ [][Next]_vars
FairSpec == Spec /\ Fairness

-----------------------------------------------------------------------------
(* Properties.                                                             *)

(* client.ready is closed at most once ("avoid closing the channel twice   *)
(* upon QoS1 message duplication"), lost connections and a failed          *)
(* subscription included, as long as the driver is not restarted: the      *)
(* second close, a panic, takes a second WaitForReady().                   *)
ReadyClosedOnce == restarts = 0 => ready <= 1

(* what "ready" is to mean: the old messages have arrived                  *)
OldArrived == \A q \in QoS : received[q]

(* "According to the standard, our message will arrive after the old       *)
(* messages": when the probes have come back the old messages of both QoS  *)
(* have been passed to the driver.                                         *)
ReadyAfterRetained ==
  (waitForRetained /\ ready > 0 /\ ~failed) => OldArrived

(* The same when the broker had the driver's subscription before that to   *)
(* the wait topic: for any interleaving of the two QoS, duplicates, lost   *)
(* connections and late handlers, in the first run of the driver.          *)
ReadyAfterRetainedIfOrdered == ordered /\ restarts = 0 => ReadyAfterRetained

(* The client becomes ready, by the probes or because the subscription to  *)
(* the wait topic failed, unless a connection is lost on the way or the    *)
(* driver is stopped first.                                                *)
EventuallyReady == <>(ready > 0 \/ losses > 0 \/ restarts > 0)
=============================================================================
