------------------------ MODULE ReadyHandshakeProofs ------------------------
(***************************************************************************)
(* Proofs about module ReadyHandshake, for any number of lost connections  *)
(* and of duplicated messages.                                             *)
(***************************************************************************)
EXTENDS ReadyHandshake, SequenceTheorems, TLAPS

Waiting == {"none", "subscribe"}       \* before the wait topic is subscribed to

(* The types, and that a probe travels with its own QoS.                   *)
Typed ==
  /\ waitForRetained \in BOOLEAN /\ link \in BOOLEAN /\ connected \in BOOLEAN
  /\ subs \in BOOLEAN /\ brokerSub \in BOOLEAN /\ waitSub \in BOOLEAN
  /\ ordered \in BOOLEAN /\ failed \in BOOLEAN
  /\ handlers \in Nat /\ ready \in Nat /\ restarts \in Nat
  /\ driver \in {"start", "subscribe", "wait", "run"}
  /\ waiter \in Waiting \cup {"publish1", "publish2", "done"}
  /\ got \subseteq QoS
  /\ received \in [QoS -> BOOLEAN]
  /\ DOMAIN net = QoS /\ \A q \in QoS : net[q] \in Seq({Old, Probes[q]})

(* no probe of QoS q is under way                                          *)
Quiet(q) == net[q] \in Seq({Old})

(* How often client.ready is closed: by WaitForReady() itself, by the      *)
(* subscription that failed, or by the callback that got the second probe, *)
(* and whoever does it leaves nothing to the others.                       *)
CloseInv ==
  /\ driver # "run" => waiter = "none"
  /\ waiter = "none" => ready = IF driver = "run" THEN 1 ELSE 0
  /\ waiter \in Waiting => ~failed /\ ~waitSub /\ got = {} /\ \A q \in QoS : Quiet(q)
  /\ waiter # "none" => driver = "run" /\ waitForRetained
  /\ failed => ready = 1 /\ ~waitSub /\ got = {} /\ \A q \in QoS : Quiet(q)
  /\ waiter # "none" /\ ~failed => ready = IF got = QoS THEN 1 ELSE 0
  /\ driver = "run" /\ waitForRetained => waiter # "none"

(* the old message of QoS q has arrived, or is the next one to arrive      *)
OldFirst(q) == received[q] \/ (net[q] # <<>> /\ Head(net[q]) = Old)

(* Why the probes come after the old messages, if the broker had the       *)
(* driver's subscription first: whenever it has it, and whenever a probe   *)
(* is under way, an old message is ahead or has arrived; a connection lost *)
(* in between takes the subscription to the wait topic with it.            *)
OrderInv ==
  /\ ordered => waiter \notin Waiting
  /\ brokerSub /\ (ordered \/ waiter \in Waiting) => \A q \in QoS : OldFirst(q)
  /\ ordered /\ ~brokerSub => ~waitSub /\ \A q \in QoS : Quiet(q)
  /\ ordered => \A q \in QoS : /\ ~Quiet(q) => OldFirst(q)
                               /\ q \in got => received[q]

HandshakeInv == Typed /\ (restarts = 0 => CloseInv /\ OrderInv)

-----------------------------------------------------------------------------
(* Messages under way.                                                     *)

(* r is a queue of S that has x behind the messages of s                   *)
Extended(r, s, x, S) ==
  r \in Seq(S) /\ r # <<>> /\ Head(r) = IF s = <<>> THEN x ELSE Head(s)

(* A message put at the end of a queue leaves the first one first.         *)
LEMMA AppendHead ==
  ASSUME NEW S, NEW s \in Seq(S), NEW x \in S
  PROVE  Extended(Append(s, x), s, x, S)
BY AppendProperties, HeadTailAppend DEF Extended

(* The retained messages sent in answer to a subscription.                 *)
LEMMA AnsweredNet ==
  ASSUME Typed, net' = Answered, received' = received
  PROVE  /\ DOMAIN net' = QoS /\ \A q \in QoS : net'[q] \in Seq({Old, Probes[q]})
         /\ \A q \in QoS : Quiet(q) => Quiet(q)' /\ OldFirst(q)'
         /\ \A q \in QoS : OldFirst(q) => OldFirst(q)'
<1>1. DOMAIN net' = QoS /\ \A q \in QoS : net'[q] = Append(net[q], Old) BY DEF Answered
<1> SUFFICES ASSUME NEW q \in QoS
             PROVE  /\ net'[q] \in Seq({Old, Probes[q]})
                    /\ Quiet(q) => Quiet(q)' /\ OldFirst(q)'
                    /\ OldFirst(q) => OldFirst(q)'
  BY <1>1
<1>2. net[q] \in Seq({Old, Probes[q]}) BY DEF Typed
<1>3. /\ net'[q] \in Seq({Old, Probes[q]}) /\ net'[q] # <<>>
      /\ Head(net'[q]) = IF net[q] = <<>> THEN Old ELSE Head(net[q])
  <2>1. Extended(Append(net[q], Old), net[q], Old, {Old, Probes[q]}) BY <1>2, AppendHead
  <2> QED BY <1>1, <2>1 DEF Extended
<1>4. ASSUME Quiet(q) PROVE Quiet(q)' /\ OldFirst(q)'
  <2>1. net'[q] \in Seq({Old}) BY <1>1, <1>4, AppendHead DEF Quiet, Extended
  <2>2. Head(net'[q]) = Old BY <1>3, <2>1
  <2> QED BY <1>3, <2>1, <2>2 DEF Quiet, OldFirst
<1>5. OldFirst(q) => OldFirst(q)' BY <1>3 DEF OldFirst
<1> QED BY <1>3, <1>4, <1>5

(* A message taken from a queue.                                           *)
LEMMA DeliveredNet ==
  ASSUME Typed, NEW q \in QoS, net[q] # <<>>, net' = [net EXCEPT ![q] = Tail(@)]
  PROVE  /\ DOMAIN net' = QoS /\ \A p \in QoS : net'[p] \in Seq({Old, Probes[p]})
         /\ \A p \in QoS : Quiet(p) => Quiet(p)'
         /\ Head(net[q]) \in {Old, Probes[q]} /\ (Quiet(q) => Head(net[q]) = Old)
         /\ \A p \in QoS \ {q} : net'[p] = net[p]
<1>1. net[q] \in Seq({Old, Probes[q]}) BY DEF Typed
<1>2. /\ DOMAIN net' = QoS /\ net'[q] = Tail(net[q])
      /\ \A p \in QoS \ {q} : net'[p] = net[p]
  BY DEF Typed
<1>3. Tail(net[q]) \in Seq({Old, Probes[q]}) /\ Head(net[q]) \in {Old, Probes[q]}
  BY <1>1, HeadTailProperties
<1>4. Quiet(q) => Tail(net[q]) \in Seq({Old}) /\ Head(net[q]) = Old
  BY HeadTailProperties DEF Quiet
<1> QED BY <1>2, <1>3, <1>4 DEF Typed, Quiet

(* A probe put into its queue.                                             *)
LEMMA ProbedNet ==
  ASSUME Typed, NEW q \in QoS, net' = [net EXCEPT ![q] = Append(@, Payload(q))],
         received' = received
  PROVE  /\ DOMAIN net' = QoS /\ \A p \in QoS : net'[p] \in Seq({Old, Probes[p]})
         /\ \A p \in QoS : OldFirst(p) => OldFirst(p)'
         /\ \A p \in QoS \ {q} : net'[p] = net[p]
<1>1. net[q] \in Seq({Old, Probes[q]}) BY DEF Typed
<1>2. /\ DOMAIN net' = QoS /\ net'[q] = Append(net[q], Probes[q])
      /\ \A p \in QoS \ {q} : net'[p] = net[p]
  BY DEF Typed, Payload
<1>3. /\ net'[q] \in Seq({Old, Probes[q]}) /\ net'[q] # <<>>
      /\ Head(net'[q]) = IF net[q] = <<>> THEN Probes[q] ELSE Head(net[q])
  <2>1. Extended(Append(net[q], Probes[q]), net[q], Probes[q], {Old, Probes[q]})
    BY <1>1, AppendHead
  <2> QED BY <1>2, <2>1 DEF Extended
<1> QED BY <1>2, <1>3 DEF Typed, OldFirst

(* The first message of QoS 1 put there once more.                         *)
LEMMA DuplicatedNet ==
  ASSUME Typed, net[1] # <<>>, net' = [net EXCEPT ![1] = <<Head(@)>> \o @],
         received' = received
  PROVE  /\ DOMAIN net' = QoS /\ \A p \in QoS : net'[p] \in Seq({Old, Probes[p]})
         /\ \A p \in QoS : OldFirst(p) => OldFirst(p)'
         /\ \A p \in QoS : Quiet(p) => Quiet(p)'
<1>1. 1 \in QoS /\ net[1] \in Seq({Old, Probes[1]}) BY DEF Typed, QoS
<1>2. /\ DOMAIN net' = QoS /\ net'[1] = <<Head(net[1])>> \o net[1]
      /\ \A p \in QoS \ {1} : net'[p] = net[p]
  BY <1>1 DEF Typed
<1>3. \A S : net[1] \in Seq(S) => /\ net'[1] \in Seq(S) /\ net'[1] # <<>>
                                  /\ Head(net'[1]) = Head(net[1])
  <2> SUFFICES ASSUME NEW S, net[1] \in Seq(S)
               PROVE  net'[1] \in Seq(S) /\ net'[1] # <<>> /\ Head(net'[1]) = Head(net[1])
    OBVIOUS
  <2> DEFINE h == <<Head(net[1])>>
             s == net[1]
  <2>1. h \in Seq(S) /\ Len(h) = 1 /\ h[1] = Head(net[1]) BY HeadTailProperties
  <2>2. s \in Seq(S) /\ Len(s) \in Nat OBVIOUS
  <2> HIDE DEF h, s
  <2>3. /\ h \o s \in Seq(S) /\ Len(h \o s) = Len(h) + Len(s)
        /\ \A i \in 1..(Len(h) + Len(s)) : (h \o s)[i] = IF i <= Len(h) THEN h[i] ELSE s[i - Len(h)]
    BY <2>1, <2>2, ConcatProperties
  <2>4. (h \o s)[1] = h[1] /\ h \o s # <<>> BY <2>1, <2>2, <2>3
  <2>5. Head(h \o s) = h[1] BY <2>3, <2>4
  <2> QED BY <1>2, <2>1, <2>3, <2>4, <2>5 DEF h, s
<1> QED BY <1>1, <1>2, <1>3 DEF Typed, OldFirst, Quiet

(* A connection that is lost takes the messages with it.                   *)
LEMMA ClearedNet ==
  ASSUME net' = [q \in QoS |-> <<>>]
  PROVE  /\ DOMAIN net' = QoS /\ \A p \in QoS : net'[p] \in Seq({Old, Probes[p]})
         /\ \A p \in QoS : Quiet(p)'
<1>1. \A S : <<>> \in Seq(S) OBVIOUS
<1> QED BY <1>1 DEF Quiet

-----------------------------------------------------------------------------
(* The invariant.                                                          *)

(* The initial state has it.                                               *)
LEMMA HandshakeInit == Init => HandshakeInv
<1> SUFFICES ASSUME Init PROVE HandshakeInv OBVIOUS
<1>1. \A S : <<>> \in Seq(S) OBVIOUS
<1>2. net = [q \in QoS |-> <<>>] /\ received = [q \in QoS |-> FALSE] BY DEF Init
<1>3. DOMAIN net = QoS /\ \A q \in QoS : net[q] = <<>> BY <1>2
<1>4. Typed BY <1>1, <1>2, <1>3 DEF Init, Typed, Waiting
<1>5. \A q \in QoS : Quiet(q) BY <1>1, <1>3 DEF Quiet
<1> QED BY <1>4, <1>5 DEF Init, HandshakeInv, CloseInv, OrderInv, Waiting

(* The driver's steps keep it.                                             *)
LEMMA DriverKeeps == ASSUME HandshakeInv, DriverNext PROVE HandshakeInv'
<1> USE DEF HandshakeInv, connVars, bounded
<1>1. CASE Start
  <2>1. UNCHANGED <<net, received>> BY <1>1 DEF Start
  <2>2. \A q \in QoS : (Quiet(q)' <=> Quiet(q)) /\ (OldFirst(q)' <=> OldFirst(q))
    BY <2>1 DEF Quiet, OldFirst
  <2>3. Typed' BY <1>1 DEF Start, Typed
  <2> QED BY <1>1, <2>2, <2>3 DEF Start, CloseInv, OrderInv, Typed, Waiting
<1>2. CASE Subscribe
  <2>1. CASE connected /\ link
    <3>1. /\ driver = "subscribe" /\ driver' = "wait" /\ subs' = TRUE /\ brokerSub' = TRUE
          /\ net' = Answered
          /\ UNCHANGED <<link, handlers, connected, waitSub, ordered, waiter, got, failed, ready,
                         received, restarts, waitForRetained>>
      BY <1>2, <2>1 DEF Subscribe
    <3>2. Typed' BY <3>1, AnsweredNet DEF Typed
    <3>3. restarts = 0 => waiter = "none" BY <3>1 DEF CloseInv
    <3> QED BY <3>1, <3>2, <3>3, AnsweredNet DEF CloseInv, OrderInv, Waiting
  <2>2. CASE ~(connected /\ link)
    <3>1. UNCHANGED <<net, received>> BY <1>2, <2>2 DEF Subscribe
    <3>2. \A q \in QoS : (Quiet(q)' <=> Quiet(q)) /\ (OldFirst(q)' <=> OldFirst(q))
      BY <3>1 DEF Quiet, OldFirst
    <3>3. Typed' BY <1>2, <2>2 DEF Subscribe, Typed
    <3> QED BY <1>2, <2>2, <3>2, <3>3 DEF Subscribe, CloseInv, OrderInv, Typed, Waiting
  <2> QED BY <2>1, <2>2
<1>3. CASE WaitForReady
  <2>1. UNCHANGED <<net, received>> BY <1>3 DEF WaitForReady
  <2>2. \A q \in QoS : (Quiet(q)' <=> Quiet(q)) /\ (OldFirst(q)' <=> OldFirst(q))
    BY <2>1 DEF Quiet, OldFirst
  <2>3. Typed' BY <1>3 DEF WaitForReady, Typed, Waiting
  <2>4. got \subseteq QoS /\ QoS # {} BY DEF Typed, QoS
  <2> QED BY <1>3, <2>2, <2>3, <2>4 DEF WaitForReady, CloseInv, OrderInv, Typed, Waiting
<1> QED BY <1>1, <1>2, <1>3 DEF DriverNext

(* The steps of the goroutine of WaitForReady() keep it.                   *)
LEMMA WaiterKeeps == ASSUME HandshakeInv, WaiterNext PROVE HandshakeInv'
<1> USE DEF HandshakeInv, connVars, bounded
<1>1. CASE WaiterSubscribe
  <2>1. UNCHANGED <<net, received>> BY <1>1 DEF WaiterSubscribe
  <2>2. \A q \in QoS : (Quiet(q)' <=> Quiet(q)) /\ (OldFirst(q)' <=> OldFirst(q))
    BY <2>1 DEF Quiet, OldFirst
  <2>3. Typed'
    <3>1. waitSub' \in BOOLEAN /\ failed' \in BOOLEAN /\ ready' \in Nat
      <4>1. CASE waitSub' = TRUE /\ UNCHANGED <<failed, ready>> BY <4>1 DEF Typed
      <4>2. CASE failed' = TRUE /\ ready' = ready + 1 /\ UNCHANGED waitSub BY <4>2 DEF Typed
      <4> QED BY <1>1, <4>1, <4>2 DEF WaiterSubscribe, FailedThen
    <3>2. waiter' = "publish1" /\ ordered' \in BOOLEAN BY <1>1 DEF WaiterSubscribe, Typed
    <3> QED BY <1>1, <2>1, <3>1, <3>2 DEF WaiterSubscribe, Typed, Waiting
  <2>4. QoS # {} BY DEF QoS
  <2> QED BY <1>1, <2>2, <2>3, <2>4 DEF WaiterSubscribe, FailedThen, CloseInv, OrderInv, Typed, Waiting
<1>2. ASSUME NEW q \in QoS, Probe(q) PROVE HandshakeInv'
  <2>1. /\ waiter \in {"publish1", "publish2"} /\ waiter' \in {"publish2", "done"}
        /\ UNCHANGED <<link, handlers, connected, subs, brokerSub, waitSub, driver, ordered, got,
                       failed, ready, received, restarts, waitForRetained>>
    BY <1>2 DEF Probe
  <2>2. CASE link /\ waitSub
    <3>1. net' = [net EXCEPT ![q] = Append(@, Payload(q))] BY <1>2, <2>2 DEF Probe
    <3>2. Typed' BY <2>1, <3>1, ProbedNet DEF Typed
    <3>3. \A p \in QoS : OldFirst(p) => OldFirst(p)' BY <2>1, <3>1, ProbedNet
    <3>4. \A p \in QoS \ {q} : Quiet(p)' <=> Quiet(p) BY <2>1, <3>1, ProbedNet DEF Quiet
    <3>5. restarts = 0 => CloseInv' BY <2>1, <2>2 DEF CloseInv, Waiting
    <3>6. restarts = 0 => OrderInv' BY <2>1, <2>2, <3>3, <3>4 DEF OrderInv, Waiting
    <3> QED BY <2>1, <3>2, <3>5, <3>6
  <2>3. CASE ~(link /\ waitSub)
    <3>1. net' = net BY <1>2, <2>3 DEF Probe
    <3>2. \A p \in QoS : (Quiet(p)' <=> Quiet(p)) /\ (OldFirst(p)' <=> OldFirst(p))
      BY <2>1, <3>1 DEF Quiet, OldFirst
    <3>3. Typed' BY <2>1, <3>1 DEF Typed
    <3> QED BY <2>1, <3>2, <3>3 DEF CloseInv, OrderInv, Waiting
  <2> QED BY <2>2, <2>3
<1> QED BY <1>1, <1>2 DEF WaiterNext

(* A message that arrives keeps it.                                        *)
LEMMA DeliverKeeps == ASSUME HandshakeInv, NEW q \in QoS, Deliver(q), ready <= 1 PROVE HandshakeInv'
<1> USE DEF HandshakeInv, connVars, bounded
<1>1. /\ net[q] # <<>> /\ net' = [net EXCEPT ![q] = Tail(@)]
      /\ UNCHANGED <<link, handlers, connected, subs, brokerSub, driver, ordered, waiter, failed,
                     restarts, waitForRetained>>
  BY DEF Deliver
<1>2. /\ DOMAIN net' = QoS /\ (\A p \in QoS : net'[p] \in Seq({Old, Probes[p]}))
      /\ \A p \in QoS : Quiet(p) => Quiet(p)'
      /\ Head(net[q]) \in {Old, Probes[q]} /\ (Quiet(q) => Head(net[q]) = Old)
      /\ \A p \in QoS \ {q} : net'[p] = net[p]
  BY <1>1, DeliveredNet
<1>3. CASE Head(net[q]) = Old
  <2>1. received' = [received EXCEPT ![q] = TRUE] /\ UNCHANGED <<got, ready, waitSub>>
    BY <1>3 DEF Deliver
  <2>2. /\ received' \in [QoS -> BOOLEAN] /\ received'[q] = TRUE
        /\ \A p \in QoS \ {q} : received'[p] = received[p]
    BY <2>1 DEF Typed
  <2>3. Typed' BY <1>1, <1>2, <2>1, <2>2 DEF Typed
  <2>4. \A p \in QoS : OldFirst(p) => OldFirst(p)' BY <1>2, <2>2 DEF OldFirst
  <2>5. \A p \in QoS : received[p] => received'[p] BY <2>2
  <2> QED BY <1>1, <1>2, <2>1, <2>3, <2>4, <2>5 DEF CloseInv, OrderInv
<1>4. CASE Head(net[q]) # Old
  <2>1. received' = received /\ Head(net[q]) = Probes[q] /\ Callback(Probes[q]) /\ ~Quiet(q)
    BY <1>2, <1>4 DEF Deliver
  <2>2. Noted(Probes[q]) = got \cup {q} BY DEF Noted, Probes, QoS
  <2>3. /\ got' = got \cup {q} \/ (got = QoS /\ got' = got)
        /\ got # QoS /\ got' = QoS => ready' = ready + 1 /\ waitSub' = FALSE
        /\ got = QoS \/ got' # QoS => ready' = ready /\ waitSub' = waitSub
    BY <2>1, <2>2 DEF Callback, BothAlready
  <2>4. got' \subseteq QoS /\ (got' = QoS \/ got # QoS) /\ ready' \in Nat /\ waitSub' \in BOOLEAN
    <3>1. got \subseteq QoS /\ ready \in Nat /\ waitSub \in BOOLEAN BY DEF Typed
    <3>2. got' \subseteq QoS /\ (got' = QoS \/ got # QoS) BY <2>3, <3>1
    <3>3. ready' = ready \/ ready' = ready + 1 BY <2>3
    <3>4. ready' \in Nat BY <3>1, <3>3
    <3>5. waitSub' = waitSub \/ waitSub' = FALSE BY <2>3
    <3>6. waitSub' \in BOOLEAN BY <3>1, <3>5, Zenon
    <3> QED BY <3>2, <3>4, <3>6
  <2>5. Typed' BY <1>1, <1>2, <2>1, <2>4 DEF Typed
  <2>6. OldFirst(q) => received[q] BY <1>4 DEF OldFirst
  <2>7. \A p \in QoS : OldFirst(p) => OldFirst(p)' BY <1>2, <2>1, <2>6 DEF OldFirst
  <2>8. restarts = 0 => CloseInv'
    BY <1>1, <1>2, <2>1, <2>3, <2>4 DEF CloseInv, Waiting, Typed
  <2>9. restarts = 0 => OrderInv'
    BY <1>1, <1>2, <2>1, <2>3, <2>4, <2>6, <2>7 DEF OrderInv, Typed
  <2> QED BY <1>1, <2>5, <2>8, <2>9
<1> QED BY <1>3, <1>4

(* Duplicates and lost connections keep it.                                *)
LEMMA NetKeeps == ASSUME HandshakeInv, NetNext PROVE HandshakeInv'
<1> USE DEF HandshakeInv, connVars, bounded
<1>1. CASE Duplicate
  <2>1. /\ net[1] # <<>> /\ net' = [net EXCEPT ![1] = <<Head(@)>> \o @]
        /\ UNCHANGED <<link, handlers, connected, subs, brokerSub, waitSub, driver, ordered, waiter,
                       got, failed, ready, received, restarts, waitForRetained>>
    BY <1>1 DEF Duplicate
  <2>2. Typed'
    <3>1. DOMAIN net' = QoS /\ \A p \in QoS : net'[p] \in Seq({Old, Probes[p]})
      BY <2>1, DuplicatedNet
    <3> QED BY <2>1, <3>1 DEF Typed
  <2>3. \A p \in QoS : (OldFirst(p) => OldFirst(p)') /\ (Quiet(p) => Quiet(p)')
    BY <2>1, DuplicatedNet
  <2> QED BY <2>1, <2>2, <2>3 DEF CloseInv, OrderInv
<1>2. CASE onConnectionLost
  <2>1. /\ net' = [q \in QoS |-> <<>>] /\ brokerSub' = FALSE /\ waitSub' = FALSE
        /\ link' = FALSE /\ connected' = FALSE
        /\ UNCHANGED <<handlers, subs, driver, ordered, waiter, got, failed, ready, received,
                       restarts, waitForRetained>>
    BY <1>2 DEF onConnectionLost
  <2>2. Typed' BY <2>1, ClearedNet DEF Typed
  <2>3. \A p \in QoS : Quiet(p)' BY <2>1, ClearedNet
  <2> QED BY <2>1, <2>2, <2>3 DEF CloseInv, OrderInv
<1>3. ASSUME NEW q \in QoS, Deliver(q), Running PROVE HandshakeInv'
  BY <1>3, DeliverKeeps DEF Running
<1> QED BY <1>1, <1>2, <1>3 DEF NetNext

(* The OnConnect handler and a new connection keep it; a restart ends the  *)
(* run of the driver it is about.                                          *)
LEMMA ConnectKeeps == ASSUME HandshakeInv, onConnect \/ Reconnect \/ Restart PROVE HandshakeInv'
<1> USE DEF HandshakeInv, connVars, bounded
<1>1. CASE onConnect
  <2>1. /\ handlers > 0 /\ handlers' = handlers - 1 /\ connected' = TRUE
        /\ UNCHANGED <<link, subs, waitSub, driver, ordered, waiter, got, failed, ready, received,
                       restarts, waitForRetained>>
    BY <1>1 DEF onConnect
  <2>2. handlers' \in Nat BY <2>1 DEF Typed
  <2>3. CASE subs /\ link
    <3>1. brokerSub' = TRUE /\ net' = Answered BY <1>1, <2>3 DEF onConnect
    <3>2. Typed' BY <2>1, <2>2, <3>1, AnsweredNet DEF Typed
    <3>3. /\ \A q \in QoS : Quiet(q) => Quiet(q)' /\ OldFirst(q)'
          /\ \A q \in QoS : OldFirst(q) => OldFirst(q)'
      BY <2>1, <3>1, AnsweredNet
    <3>4. restarts = 0 => CloseInv' BY <2>1, <3>3 DEF CloseInv
    <3>5. restarts = 0 => OrderInv' BY <2>1, <3>1, <3>3 DEF OrderInv, CloseInv, Typed
    <3> QED BY <2>1, <3>2, <3>4, <3>5
  <2>4. CASE ~(subs /\ link)
    <3>1. UNCHANGED <<net, brokerSub>> BY <1>1, <2>4 DEF onConnect
    <3>2. \A q \in QoS : (Quiet(q)' <=> Quiet(q)) /\ (OldFirst(q)' <=> OldFirst(q))
      BY <2>1, <3>1 DEF Quiet, OldFirst
    <3>3. Typed' BY <2>1, <2>2, <3>1 DEF Typed
    <3> QED BY <2>1, <3>1, <3>2, <3>3 DEF CloseInv, OrderInv
  <2> QED BY <2>3, <2>4
<1>2. CASE Reconnect
  <2>1. UNCHANGED <<net, received>> BY <1>2 DEF Reconnect
  <2>2. \A q \in QoS : (Quiet(q)' <=> Quiet(q)) /\ (OldFirst(q)' <=> OldFirst(q))
    BY <2>1 DEF Quiet, OldFirst
  <2>3. Typed' BY <1>2 DEF Reconnect, Typed
  <2> QED BY <1>2, <2>2, <2>3 DEF Reconnect, CloseInv, OrderInv
<1>3. CASE Restart
  <2>1. net' = [q \in QoS |-> <<>>] /\ restarts' = restarts + 1 BY <1>3 DEF Restart
  <2>2. Typed'
    <3>1. DOMAIN net' = QoS /\ \A p \in QoS : net'[p] \in Seq({Old, Probes[p]})
      BY <2>1, ClearedNet
    <3>2. got' \subseteq QoS /\ restarts' \in Nat BY <1>3 DEF Restart, Typed
    <3> QED BY <1>3, <3>1, <3>2 DEF Restart, Typed, Waiting
  <2> QED BY <2>1, <2>2 DEF Typed
<1> QED BY <1>1, <1>2, <1>3

(* So it holds throughout.                                                 *)
LEMMA HandshakeInvariant == Spec => []HandshakeInv
<1>1. HandshakeInv /\ UNCHANGED vars => HandshakeInv'
  BY DEF vars, connVars, HandshakeInv, Typed, CloseInv, OrderInv, OldFirst, Quiet, Waiting
<1>2. HandshakeInv /\ [Next]_vars => HandshakeInv'
  BY <1>1, DriverKeeps, WaiterKeeps, NetKeeps, ConnectKeeps DEF Next
<1> QED BY HandshakeInit, <1>2, PTL DEF Spec

(* client.ready is never closed twice in one run of the driver, whatever   *)
(* is lost or duplicated.                                                  *)
THEOREM ClosedOnce == Spec => []ReadyClosedOnce
<1>1. HandshakeInv => ReadyClosedOnce
  BY DEF HandshakeInv, Typed, CloseInv, ReadyClosedOnce
<1> QED BY <1>1, HandshakeInvariant, PTL

(* A client that says it is ready has passed on the retained messages of   *)
(* both QoS, if its subscription reached the broker before the one to the  *)
(* wait topic.                                                             *)
THEOREM ReadyMeansReceived == Spec => []ReadyAfterRetainedIfOrdered
<1>1. HandshakeInv => ReadyAfterRetainedIfOrdered
  <2> SUFFICES ASSUME HandshakeInv, ordered, restarts = 0, waitForRetained, ready > 0, ~failed
               PROVE  \A q \in QoS : received[q]
    BY DEF ReadyAfterRetainedIfOrdered, ReadyAfterRetained, OldArrived
  <2>1. CloseInv /\ OrderInv BY DEF HandshakeInv
  <2>2. got = QoS BY <2>1 DEF CloseInv, OrderInv, Waiting
  <2> QED BY <2>1, <2>2 DEF OrderInv
<1> QED BY <1>1, HandshakeInvariant, PTL
=============================================================================
