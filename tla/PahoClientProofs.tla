-------------------------- MODULE PahoClientProofs --------------------------
(***************************************************************************)
(* Proofs about module PahoClient, for any goroutines, topics, payloads,   *)
(* capacity of the queue of tokens and number of losses and restarts.      *)
(***************************************************************************)
EXTENDS PahoClient, SequenceTheorems, TLAPS

(* the goroutine of topic t is at one of the places, in a call about t     *)
At(t, places) == pc[UsedBy[t]] \in places /\ arg[UsedBy[t]].topic = t

Sub == {"sub"}
Unsub == {"unsub"}
Pub == {"pubToken", "pubMap"}

(* onConnect is subscribing, republishing, or has a message in its hands   *)
Resubscribing == handler \in {"resub", "subToken"}
Republishing == handler \in {"repub", "pubToken", "pubMap"}

NoUp == \A i \in DOMAIN events : events[i] # "up"

(* What the steps need beyond the types: a goroutine in a call has one of  *)
(* its own topics in hand, and onConnect a message that is not empty.      *)
InHand ==
  /\ \A th \in Threads : pc[th] # "idle" =>
       arg[th].topic \in Topics /\ UsedBy[arg[th].topic] = th
  /\ handler \in Pub => item.topic \in Topics /\ item.payload # Empty

TypeInv == TypeOK /\ InHand

(* While handlers run in order, a connection that is up has been, or is    *)
(* about to be, noticed.                                                   *)
Noticed ==
  ~inverted /\ link => IF events = <<>> THEN connected ELSE events[Len(events)] = "up"

(* A call under way agrees with client.subs, and so does onConnect.        *)
CallsAgree ==
  /\ wanted = subs
  /\ \A th \in Threads : pc[th] = "sub" => arg[th].topic \in subs
  /\ \A th \in Threads : pc[th] = "unsub" => arg[th].topic \notin subs
  /\ Resubscribing => todo \subseteq subs

(* A topic the client keeps is at the broker, or the call or the onConnect *)
(* that puts it there is under way or due.                                 *)
SubsReach ==
  link /\ connected /\ NoUp =>
    \A t \in subs : t \in brokerSubs \/ At(t, Sub) \/ (Resubscribing /\ t \in todo)

(* As long as no connection was lost, the broker has no topic that the     *)
(* client does not keep.                                                   *)
SubsOnly ==
  /\ ~link => brokerSubs = {}
  /\ losses = 0 =>
       /\ \A i \in DOMAIN events : events[i] = "up"
       /\ ~connected => /\ handler = "idle" /\ brokerSubs = {}
                        /\ \A th \in Threads : pc[th] \notin {"sub", "unsub"}
       /\ \A t \in brokerSubs : t \in subs \/ At(t, Unsub)

SubsInv == Noticed /\ CallsAgree /\ SubsReach /\ SubsOnly

(* A Publish that overlaps onConnect is recorded; otherwise the message    *)
(* that onConnect has in its hands is the one in the map.                  *)
OverlapKnown ==
  /\ handler # "idle" =>
       \A th \in Threads : pc[th] \in Pub => arg[th].topic \in exempt
  /\ handler \in Pub /\ item.topic \notin exempt =>
       item.payload = retainedMessages[item.topic]

(* What a Publish under way has in hand is the last message, and a topic   *)
(* the broker was told to forget has none; PublishSync, which leaves the   *)
(* map as it is, counts only until onConnect begins.                       *)
LatestKnown ==
  /\ \A t \in Topics : At(t, Pub) => arg[UsedBy[t]].payload = latest[t]
  /\ \A t \in Topics : cleared[t] # "no" => latest[t] = Empty
  /\ handler # "idle" => \A t \in Topics : cleared[t] # "sync"

(* Of a topic whose Publish overlapped no onConnect the map has the last   *)
(* message, unless the Publish that puts it there is under way ...         *)
MapCurrent(t) ==
  ~At(t, Pub) => /\ latest[t] # Empty => retainedMessages[t] = latest[t]
                 /\ cleared[t] = "map" => retainedMessages[t] = Empty

(* ... and the broker has it, unless the onConnect that will republish it  *)
(* is under way or due; what it was told to forget it has not.             *)
BrokerCurrent(t) ==
  /\ link /\ NoUp /\ latest[t] # Empty =>
       \/ brokerRetained[t] = latest[t]
       \/ Resubscribing
       \/ Republishing /\ t \in todo
  /\ cleared[t] # "no" => brokerRetained[t] = Empty

RetainedInv ==
  /\ OverlapKnown /\ LatestKnown
  /\ \A t \in Topics \ exempt : MapCurrent(t) /\ BrokerCurrent(t)

-----------------------------------------------------------------------------
(* Types.                                                                  *)

Places == {"idle", "subLock", "sub", "subToken", "unsubLock", "unsub", "pubToken", "pubMap", "sync"}
Values == Payloads \cup {Empty}

(* The queue of events without the one whose handler starts.               *)
LEMMA RemoveAtIs ==
  ASSUME NEW S, NEW s \in Seq(S), NEW i \in DOMAIN s
  PROVE  /\ RemoveAt(s, i) \in Seq(S) /\ Len(RemoveAt(s, i)) = Len(s) - 1
         /\ \A k \in 1..(Len(s) - 1) : RemoveAt(s, i)[k] = IF k < i THEN s[k] ELSE s[k + 1]
<1> DEFINE l == SubSeq(s, 1, i - 1)
           r == SubSeq(s, i + 1, Len(s))
<1>1. Len(s) \in Nat /\ i \in 1..Len(s) OBVIOUS
<1>2. /\ l \in Seq(S) /\ Len(l) = i - 1 /\ \A k \in 1..(i - 1) : l[k] = s[k]
  BY <1>1
<1>3. /\ r \in Seq(S) /\ Len(r) = Len(s) - i
      /\ \A k \in 1..(Len(s) - i) : r[k] = s[i + k]
  BY <1>1
<1> HIDE DEF l, r
<1> DEFINE c == l \o r
<1>4. /\ c \in Seq(S) /\ Len(c) = Len(l) + Len(r)
      /\ \A k \in 1..(Len(l) + Len(r)) : c[k] = IF k <= Len(l) THEN l[k] ELSE r[k - Len(l)]
  BY <1>2, <1>3, ConcatProperties
<1> HIDE DEF c
<1>5. ASSUME NEW k \in 1..(Len(s) - 1) PROVE c[k] = IF k < i THEN s[k] ELSE s[k + 1]
  <2>1. k \in 1..(Len(l) + Len(r)) BY <1>1, <1>2, <1>3
  <2>2. c[k] = IF k <= Len(l) THEN l[k] ELSE r[k - Len(l)] BY <1>4, <2>1
  <2>3. CASE k < i BY <1>1, <1>2, <2>2, <2>3
  <2>4. CASE ~(k < i)
    <3>1. k - Len(l) \in 1..(Len(s) - i) /\ i + (k - Len(l)) = k + 1 BY <1>1, <1>2, <2>4
    <3>2. c[k] = r[k - Len(l)] BY <1>1, <1>2, <2>2, <2>4
    <3> QED BY <1>3, <2>4, <3>1, <3>2
  <2> QED BY <2>3, <2>4
<1>6. RemoveAt(s, i) = c BY DEF RemoveAt, c, l, r
<1> QED BY <1>1, <1>2, <1>3, <1>4, <1>5, <1>6

(* What a handler that starts does to the events.                          *)
LEMMA HandleIs ==
  ASSUME TypeOK, NEW event, Handle(event)
  PROVE  /\ events' \in Seq({"up", "down"}) /\ inverted' \in BOOLEAN /\ (inverted => inverted')
         /\ handler = "idle" /\ ~crashed
         /\ \A k \in DOMAIN events : events[k] = event \/ \E j \in DOMAIN events' : events'[j] = events[k]
         /\ \A j \in DOMAIN events' : \E k \in DOMAIN events : events'[j] = events[k]
         /\ ~inverted' => IF events' = <<>> THEN Len(events) = 1 /\ events[1] = event
                          ELSE events'[Len(events')] = events[Len(events)]
         /\ events # <<>> /\ \E k \in DOMAIN events : events[k] = event
<1>1. PICK i \in DOMAIN events : /\ events[i] = event /\ events' = RemoveAt(events, i)
                                 /\ inverted' = (inverted \/ i > 1)
  BY DEF Handle
<1>2. events \in Seq({"up", "down"}) /\ inverted \in BOOLEAN BY DEF TypeOK
<1>3. /\ events' \in Seq({"up", "down"}) /\ Len(events') = Len(events) - 1
      /\ \A k \in 1..(Len(events) - 1) :
           events'[k] = IF k < i THEN events[k] ELSE events[k + 1]
  BY <1>1, <1>2, RemoveAtIs
<1>4. /\ DOMAIN events = 1..Len(events) /\ Len(events) \in Nat /\ i \in 1..Len(events)
      /\ DOMAIN events' = 1..(Len(events) - 1)
  BY <1>2, <1>3
<1>5. ASSUME NEW k \in DOMAIN events, k # i PROVE \E j \in DOMAIN events' : events'[j] = events[k]
  <2>1. CASE k < i BY <1>3, <1>4, <2>1
  <2>2. CASE k > i
    <3>1. k - 1 \in DOMAIN events' /\ events'[k - 1] = events[(k - 1) + 1] /\ (k - 1) + 1 = k
      BY <1>3, <1>4, <2>2
    <3> QED BY <3>1
  <2> QED BY <1>4, <1>5, <2>1, <2>2
<1>6. ASSUME NEW j \in DOMAIN events' PROVE \E k \in DOMAIN events : events'[j] = events[k]
  <2>1. j \in DOMAIN events /\ j + 1 \in DOMAIN events BY <1>4
  <2> QED BY <1>3, <1>4, <2>1
<1>7. ASSUME ~inverted'
      PROVE  IF events' = <<>> THEN Len(events) = 1 /\ events[1] = event
             ELSE events'[Len(events')] = events[Len(events)]
  <2>1. ~(inverted \/ i > 1) BY <1>1, <1>7, Zenon
  <2>4. i = 1 BY <1>4, <2>1
  <2>2. CASE events' = <<>> BY <1>1, <1>3, <1>4, <2>4, <2>2
  <2>3. CASE events' # <<>>
    <3>1. Len(events') \in 1..(Len(events) - 1) /\ Len(events') + 1 = Len(events)
      BY <1>3, <1>4, <2>3
    <3> QED BY <1>3, <1>4, <2>4, <2>3, <3>1
  <2> QED BY <2>2, <2>3
<1>8. inverted' \in BOOLEAN /\ (inverted => inverted') BY <1>1, <1>2
<1>9. events # <<>> BY <1>4
<1>10. handler = "idle" /\ ~crashed BY DEF Handle, Running, connMtxFree
<1> QED BY <1>1, <1>3, <1>5, <1>6, <1>7, <1>8, <1>9, <1>10

(* An event appended.                                                      *)
LEMMA EventAppended ==
  ASSUME TypeOK, NEW e \in {"up", "down"}, events' = Append(events, e)
  PROVE  /\ events' \in Seq({"up", "down"}) /\ events' # <<>> /\ events'[Len(events')] = e
         /\ \E i \in DOMAIN events' : events'[i] = e
         /\ \A i \in DOMAIN events' : events'[i] = e \/ \E j \in DOMAIN events : events'[i] = events[j]
         /\ \A j \in DOMAIN events : \E i \in DOMAIN events' : events'[i] = events[j]
<1>1. events \in Seq({"up", "down"}) /\ Len(events) \in Nat BY DEF TypeOK
<1>2. /\ events' \in Seq({"up", "down"}) /\ Len(events') = Len(events) + 1
      /\ events'[Len(events) + 1] = e /\ \A i \in 1..Len(events) : events'[i] = events[i]
      /\ DOMAIN events' = 1..(Len(events) + 1) /\ DOMAIN events = 1..Len(events)
  BY <1>1
<1>3. \A i \in 1..(Len(events) + 1) : i = Len(events) + 1 \/ i \in 1..Len(events) BY <1>1
<1> QED BY <1>1, <1>2, <1>3

(* The beginning of a call.                                                *)
LEMMA EnterIs ==
  ASSUME TypeOK, NEW th \in Threads, NEW t \in Topics, NEW p \in Values, Enter(th, t, p)
  PROVE  /\ ~crashed /\ pc[th] = "idle" /\ UsedBy[t] = th
         /\ arg' \in [Threads -> Item] /\ arg'[th].topic = t /\ arg'[th].payload = p
         /\ \A o \in Threads \ {th} : arg'[o] = arg[o]
         /\ calls' \in [Threads -> 0..MaxCalls]
<1>1. [topic |-> t, payload |-> p] \in Item BY DEF Item, Values
<1>2. arg' = [arg EXCEPT ![th] = [topic |-> t, payload |-> p]] /\ arg \in [Threads -> Item]
  BY DEF Enter, TypeOK
<1>3. arg' \in [Threads -> Item] /\ arg'[th] = [topic |-> t, payload |-> p]
      /\ \A o \in Threads \ {th} : arg'[o] = arg[o]
  BY <1>1, <1>2
<1>4. calls' \in [Threads -> 0..MaxCalls]
  <2>1. calls \in [Threads -> 0..MaxCalls] /\ MaxCalls \in Nat BY ClientAssumption DEF TypeOK
  <2>2. calls' = [calls EXCEPT ![th] = @ + 1] /\ calls[th] < MaxCalls BY DEF Enter
  <2>3. calls[th] + 1 \in 0..MaxCalls BY <2>1, <2>2
  <2> QED BY <2>1, <2>2, <2>3
<1> QED BY <1>3, <1>4 DEF Enter, Running

(* A step from one place of a goroutine to the next.                       *)
LEMMA PlaceIs ==
  ASSUME TypeOK, NEW th \in Threads, NEW l \in Places, pc' = [pc EXCEPT ![th] = l]
  PROVE  /\ pc' \in [Threads -> Places] /\ pc'[th] = l
         /\ \A o \in Threads \ {th} : pc'[o] = pc[o]
<1>1. pc \in [Threads -> Places] BY DEF TypeOK, Places
<1> QED BY <1>1

(* A token sent.                                                           *)
LEMMA TokenTyped == ASSUME TypeOK, PushToken PROVE tokens' \in 0..TOKEN_QUEUE_LEN
BY ClientAssumption DEF TypeOK, PushToken

(* What becomes of tokens is a Boolean.                                    *)
LEMMA FateTyped == ASSUME TypeOK, TokenMade \/ TokensLeft PROVE hung' \in BOOLEAN
<1>1. hung \in BOOLEAN BY DEF TypeOK
<1>2. hung' \in {hung} \/ hung' \in {hung, TRUE} BY Zenon DEF TokenMade, TokensLeft
<1> QED BY <1>1, <1>2

(* The initial state is typed.                                             *)
LEMMA InitTyped == Init => TypeInv
<1> SUFFICES ASSUME Init PROVE TypeInv OBVIOUS
<1>1. NoItem \in Item BY DEF NoItem, Item
<1>2. <<>> \in Seq({"up", "down"}) OBVIOUS
<1>3. 0 \in 0..TOKEN_QUEUE_LEN /\ 0 \in 0..MaxCalls /\ 0 \in 0..MaxLosses /\ 0 \in 0..MaxStarts
  BY ClientAssumption
<1> QED BY <1>1, <1>2, <1>3 DEF Init, TypeInv, TypeOK, InHand, Pub

(* The beginning of a call keeps the types.                                *)
LEMMA CallsTyped ==
  ASSUME TypeInv, NEW th \in Threads, Calls(th)
  PROVE  TypeInv'
<1> PICK t \in Topics :
      \/ Subscribe(th, t) \/ Unsubscribe(th, t) \/ PublishSync(th, t)
      \/ \E p \in Values : Publish(th, t, p)
  BY DEF Calls, Values
<1> USE DEF clientVars, handlerVars, brokerVars
<1>1. TypeOK /\ InHand BY DEF TypeInv
<1>2. Empty \in Values BY DEF Values
<1>3. CASE Subscribe(th, t) \/ Unsubscribe(th, t)
  <2>1. Enter(th, t, Empty) BY <1>3 DEF Subscribe, Unsubscribe
  <2>2. PICK l \in {"subLock", "unsubLock"} : pc' = [pc EXCEPT ![th] = l]
    BY <1>3 DEF Subscribe, Unsubscribe
  <2>3. pc' \in [Threads -> Places] /\ pc'[th] = l /\ \A o \in Threads \ {th} : pc'[o] = pc[o]
    BY <1>1, <2>2, PlaceIs DEF Places
  <2>5. TypeOK'
    BY <1>1, <1>2, <1>3, <2>1, <2>3, EnterIs DEF Subscribe, Unsubscribe, TypeOK, Places
  <2>6. InHand'
    BY <1>1, <1>2, <1>3, <2>1, <2>3, EnterIs DEF Subscribe, Unsubscribe, InHand
  <2> QED BY <2>5, <2>6 DEF TypeInv
<1>4. CASE PublishSync(th, t)
  <2>1. Enter(th, t, Empty) /\ pc' = [pc EXCEPT ![th] = "sync"] BY <1>4 DEF PublishSync
  <2>2. /\ latest' \in [Topics -> Payloads \cup {Empty}]
        /\ brokerRetained' \in [Topics -> Payloads \cup {Empty}]
        /\ cleared' \in [Topics -> {"no", "map", "sync"}] /\ hung' \in BOOLEAN
    BY <1>1, <1>4, FateTyped DEF PublishSync, Retained, Cleared, TypeOK
  <2>3. /\ pc' \in [Threads -> Places] /\ pc'[th] = "sync"
        /\ \A o \in Threads \ {th} : pc'[o] = pc[o]
    BY <1>1, <2>1, PlaceIs DEF Places
  <2>4. TypeOK' BY <1>1, <1>2, <1>4, <2>1, <2>2, <2>3, EnterIs DEF PublishSync, TypeOK, Places
  <2>5. InHand' BY <1>1, <1>2, <1>4, <2>1, <2>3, EnterIs DEF PublishSync, InHand
  <2> QED BY <2>4, <2>5 DEF TypeInv
<1>5. ASSUME NEW p \in Values, Publish(th, t, p) PROVE TypeInv'
  <2>1. Enter(th, t, p) /\ pc' = [pc EXCEPT ![th] = "pubToken"] BY <1>5 DEF Publish
  <2>2. /\ latest' \in [Topics -> Payloads \cup {Empty}]
        /\ brokerRetained' \in [Topics -> Payloads \cup {Empty}]
        /\ cleared' \in [Topics -> {"no", "map", "sync"}] /\ hung' \in BOOLEAN
    BY <1>1, <1>5, FateTyped DEF Publish, Retained, Cleared, TypeOK, Values
  <2>3. /\ pc' \in [Threads -> Places] /\ pc'[th] = "pubToken"
        /\ \A o \in Threads \ {th} : pc'[o] = pc[o]
    BY <1>1, <2>1, PlaceIs DEF Places
  <2>4. exempt' \subseteq Topics BY <1>1, <1>5 DEF Publish, TypeOK
  <2>5. TypeOK' BY <1>1, <1>5, <2>1, <2>2, <2>3, <2>4, EnterIs DEF Publish, TypeOK, Places
  <2>6. InHand' BY <1>1, <1>5, <2>1, <2>3, EnterIs DEF Publish, InHand
  <2> QED BY <2>5, <2>6 DEF TypeInv
<1> QED BY <1>3, <1>4, <1>5

(* A later step of a call: where the goroutine is, and that it keeps what  *)
(* it has in hand.                                                         *)
LEMMA GotoIs ==
  ASSUME TypeInv, NEW th \in Threads, NEW l \in Places, Goto(th, l), pc[th] # "idle"
  PROVE  /\ pc' \in [Threads -> Places] /\ pc'[th] = l
         /\ \A o \in Threads \ {th} : pc'[o] = pc[o]
         /\ UNCHANGED <<arg, calls, wanted, latest, cleared>>
         /\ \A o \in Threads : pc'[o] # "idle" => arg'[o].topic \in Topics /\ UsedBy[arg'[o].topic] = o
         /\ arg[th].topic \in Topics /\ UsedBy[arg[th].topic] = th /\ arg[th].payload \in Values
<1>1. TypeOK /\ InHand BY DEF TypeInv
<1>2. pc' = [pc EXCEPT ![th] = l] /\ UNCHANGED <<arg, calls, wanted, latest, cleared>>
  BY DEF Goto
<1>3. arg[th] \in Item BY <1>1 DEF TypeOK
<1> QED BY <1>1, <1>2, <1>3, PlaceIs DEF InHand, Item, Values

(* Subscribe and Unsubscribe with connMtx locked: the same, but wanted.    *)
LEMMA LockedIs ==
  ASSUME TypeInv, NEW th \in Threads, SubscribeLocked(th) \/ UnsubscribeLocked(th)
  PROVE  /\ pc' \in [Threads -> Places] /\ handler = "idle"
         /\ pc[th] \notin {"idle", "sub", "unsub", "pubToken", "pubMap"}
         /\ pc'[th] = IF connected THEN (IF SubscribeLocked(th) THEN "sub" ELSE "unsub") ELSE "idle"
         /\ \A o \in Threads \ {th} : pc'[o] = pc[o]
         /\ arg[th].topic \in Topics /\ UsedBy[arg[th].topic] = th
         /\ UNCHANGED <<arg, calls, latest, cleared, connected>>
<1>1. TypeOK /\ InHand BY DEF TypeInv
<1>2. SubscribeLocked(th) => pc[th] = "subLock" BY DEF SubscribeLocked
<1>3. UnsubscribeLocked(th) => pc[th] = "unsubLock" BY DEF UnsubscribeLocked
<1>4. PICK l \in {"idle", "sub", "unsub"} :
        /\ pc' = [pc EXCEPT ![th] = l]
        /\ l = IF connected THEN (IF SubscribeLocked(th) THEN "sub" ELSE "unsub") ELSE "idle"
  <2>1. CASE SubscribeLocked(th) BY <2>1 DEF SubscribeLocked
  <2>2. CASE ~SubscribeLocked(th) /\ UnsubscribeLocked(th)
    <3>1. pc' = [pc EXCEPT ![th] = IF connected THEN "unsub" ELSE "idle"]
      BY <2>2 DEF UnsubscribeLocked
    <3> QED BY <2>2, <3>1
  <2> QED BY <2>1, <2>2
<1>5. pc' \in [Threads -> Places] /\ pc'[th] = l /\ \A o \in Threads \ {th} : pc'[o] = pc[o]
  BY <1>1, <1>4, PlaceIs DEF Places
<1>6. /\ pc[th] \in {"subLock", "unsubLock"} /\ handler = "idle"
      /\ UNCHANGED <<arg, calls, latest, cleared, connected>>
  BY DEF SubscribeLocked, UnsubscribeLocked, connMtxFree
<1>7. arg[th].topic \in Topics /\ UsedBy[arg[th].topic] = th BY <1>1, <1>6 DEF InHand
<1> QED BY <1>4, <1>5, <1>6, <1>7

(* The step that is not one of these two.                                  *)
Later(th) ==
  \/ SubscribeInner(th) \/ SubscribeToken(th) \/ UnsubscribeInner(th)
  \/ PublishToken(th) \/ PublishMap(th) \/ SyncDone(th)

(* It goes from one place to another.                                      *)
LEMMA LaterGoes ==
  ASSUME NEW th \in Threads, Later(th)
  PROVE  \E l \in {"idle", "subToken", "pubMap"} : Goto(th, l) /\ pc[th] # "idle"
BY DEF Later, SubscribeInner, SubscribeToken, UnsubscribeInner, PublishToken, PublishMap, SyncDone

(* These steps keep the types.                                             *)
LEMMA ContinueTyped ==
  ASSUME TypeInv, NEW th \in Threads, Continue(th) \/ SyncDone(th)
  PROVE  TypeInv'
<1> USE DEF clientVars, handlerVars, brokerVars
<1>1. TypeOK /\ InHand BY DEF TypeInv
<1>2. CASE SubscribeLocked(th) \/ UnsubscribeLocked(th)
  <2>1. /\ pc' \in [Threads -> Places] /\ pc[th] # "idle" /\ UNCHANGED <<arg, calls, latest, cleared>>
        /\ \A o \in Threads \ {th} : pc'[o] = pc[o]
        /\ arg[th].topic \in Topics /\ UsedBy[arg[th].topic] = th
    BY <1>2, LockedIs
  <2>2. subs' \subseteq Topics /\ wanted' \subseteq Topics
    BY <1>1, <1>2, <2>1 DEF SubscribeLocked, UnsubscribeLocked, Stored, TypeOK
  <2>3. TypeOK' BY <1>1, <1>2, <2>1, <2>2 DEF SubscribeLocked, UnsubscribeLocked, TypeOK, Places
  <2>4. InHand' BY <1>1, <1>2, <2>1 DEF SubscribeLocked, UnsubscribeLocked, InHand
  <2> QED BY <2>3, <2>4 DEF TypeInv
<1>3. CASE Later(th)
  <2>1. PICK l \in Places : Goto(th, l) /\ pc[th] # "idle" BY <1>3, LaterGoes DEF Places
  <2>2. /\ pc' \in [Threads -> Places] /\ UNCHANGED <<arg, calls, wanted, latest, cleared>>
        /\ \A o \in Threads : pc'[o] # "idle" => arg'[o].topic \in Topics /\ UsedBy[arg'[o].topic] = o
        /\ arg[th].topic \in Topics /\ arg[th].payload \in Values
    BY <2>1, GotoIs
  <2>3. CASE SubscribeInner(th) \/ UnsubscribeInner(th)
    <3>1. brokerSubs' \subseteq Topics
      BY <1>1, <2>2, <2>3 DEF SubscribeInner, UnsubscribeInner, AtBroker, TypeOK
    <3>2. hung' \in BOOLEAN
      BY <1>1, <2>3, FateTyped DEF SubscribeInner, UnsubscribeInner, TypeOK
    <3>3. TypeOK'
      BY <1>1, <2>2, <2>3, <3>1, <3>2 DEF SubscribeInner, UnsubscribeInner, TypeOK, Places
    <3>4. InHand' BY <1>1, <2>2, <2>3 DEF SubscribeInner, UnsubscribeInner, InHand
    <3> QED BY <3>3, <3>4 DEF TypeInv
  <2>4. CASE SubscribeToken(th) \/ PublishToken(th)
    <3>1. tokens' \in 0..TOKEN_QUEUE_LEN BY <1>1, <2>4, TokenTyped DEF SubscribeToken, PublishToken
    <3>2. TypeOK' BY <1>1, <2>2, <2>4, <3>1 DEF SubscribeToken, PublishToken, TypeOK, Places
    <3>3. InHand' BY <1>1, <2>2, <2>4 DEF SubscribeToken, PublishToken, InHand
    <3> QED BY <3>2, <3>3 DEF TypeInv
  <2>5. CASE PublishMap(th)
    <3>1. retainedMessages' \in [Topics -> Payloads \cup {Empty}]
      BY <1>1, <2>2, <2>5 DEF PublishMap, Remembered, TypeOK, Values
    <3>2. crashed' \in BOOLEAN BY <1>1, <2>5 DEF PublishMap, TypeOK
    <3>3. TypeOK' BY <1>1, <2>2, <2>5, <3>1, <3>2 DEF PublishMap, TypeOK, Places
    <3>4. InHand' BY <1>1, <2>2, <2>5 DEF PublishMap, InHand
    <3> QED BY <3>3, <3>4 DEF TypeInv
  <2>6. CASE SyncDone(th)
    <3>1. TypeOK' BY <1>1, <2>2, <2>6 DEF SyncDone, TypeOK, Places
    <3>2. InHand' BY <1>1, <2>2, <2>6 DEF SyncDone, InHand
    <3> QED BY <3>1, <3>2 DEF TypeInv
  <2> QED BY <1>3, <2>3, <2>4, <2>5, <2>6 DEF Later
<1> QED BY <1>2, <1>3 DEF Continue, Later

(* The handlers keep the types.                                            *)
LEMMA HandlerTyped == ASSUME TypeInv, HandlerNext PROVE TypeInv'
<1> USE DEF clientVars, threadVars, brokerVars
<1>1. TypeOK /\ InHand BY DEF TypeInv
<1>2. CASE onConnectionLost
  <2>1. Handle("down") BY <1>2 DEF onConnectionLost
  <2>2. TypeOK' BY <1>1, <1>2, <2>1, HandleIs DEF onConnectionLost, TypeOK
  <2>3. InHand' BY <1>1, <1>2 DEF onConnectionLost, InHand
  <2> QED BY <2>2, <2>3 DEF TypeInv
<1>3. CASE onConnect
  <2>1. Handle("up") BY <1>3 DEF onConnect
  <2>2. /\ cleared' \in [Topics -> {"no", "map", "sync"}] /\ connected' = TRUE
        /\ todo' \subseteq Topics
    BY <1>1, <1>3 DEF onConnect, TypeOK, SetConnected
  <2>3. exempt' \subseteq Topics
    <3>1. \A th \in Threads : pc[th] \in {"pubToken", "pubMap"} => arg[th].topic \in Topics
      BY <1>1 DEF InHand
    <3>2. exempt \subseteq Topics BY <1>1 DEF TypeOK
    <3> QED BY <1>3, <3>1, <3>2 DEF onConnect
  <2>4. TypeOK' BY <1>1, <1>3, <2>1, <2>2, <2>3, HandleIs DEF onConnect, TypeOK
  <2>5. InHand' BY <1>1, <1>3 DEF onConnect, InHand, Pub
  <2> QED BY <2>4, <2>5 DEF TypeInv
<1>4. ASSUME NEW t \in Topics, Resub(t) PROVE TypeInv'
  BY <1>1, <1>4, FateTyped DEF Resub, AtBroker, TypeInv, TypeOK, InHand, Pub
<1>5. CASE ResubToken \/ RepubToken
  <2>1. tokens' \in 0..TOKEN_QUEUE_LEN BY <1>1, <1>5, TokenTyped DEF ResubToken, RepubToken
  <2> QED BY <1>1, <1>5, <2>1 DEF ResubToken, RepubToken, TypeInv, TypeOK, InHand, Pub
<1>6. CASE RepubStart BY <1>1, <1>6 DEF RepubStart, TypeInv, TypeOK, InHand, Pub
<1>7. ASSUME NEW t \in Topics, Repub(t) PROVE TypeInv'
  <2>1. retainedMessages[t] \in Payloads \cup {Empty} BY <1>1 DEF TypeOK
  <2>2. CASE retainedMessages[t] = Empty
    BY <1>1, <1>7, <2>2 DEF Repub, TypeInv, TypeOK, InHand
  <2>3. CASE retainedMessages[t] # Empty
    <3>1. item' = [topic |-> t, payload |-> retainedMessages[t]] /\ handler' = "pubToken"
      BY <1>7, <2>3 DEF Repub
    <3>2. item' \in Item /\ item'.topic = t /\ item'.payload # Empty
      BY <2>1, <2>3, <3>1 DEF Item
    <3>3. brokerRetained' \in [Topics -> Payloads \cup {Empty}] /\ hung' \in BOOLEAN
      BY <1>1, <1>7, <2>1, <2>3, FateTyped DEF Repub, Retained, TypeOK
    <3> QED BY <1>1, <1>7, <3>1, <3>2, <3>3 DEF Repub, TypeInv, TypeOK, InHand
  <2> QED BY <2>2, <2>3
<1>8. CASE RepubMap
  <2>1. item.topic \in Topics /\ item.payload \in Payloads \cup {Empty}
    BY <1>1, <1>8 DEF RepubMap, InHand, Pub, TypeOK, Item
  <2>2. retainedMessages' \in [Topics -> Payloads \cup {Empty}]
    BY <1>1, <1>8, <2>1 DEF RepubMap, Remembered, TypeOK
  <2>3. item' \in Item BY <1>8 DEF RepubMap, NoItem, Item
  <2> QED BY <1>1, <1>8, <2>2, <2>3 DEF RepubMap, TypeInv, TypeOK, InHand, Pub
<1>9. CASE onConnectDone BY <1>1, <1>9 DEF onConnectDone, TypeInv, TypeOK, InHand, Pub
<1> QED BY <1>2, <1>3, <1>4, <1>5, <1>6, <1>7, <1>8, <1>9 DEF HandlerNext, onConnectNext

(* Start(), Stop() and the network keep the types.                         *)
LEMMA ConnectionTyped ==
  ASSUME TypeInv, Start \/ Stop \/ StopReceived \/ ReceiveToken \/ WaitToken \/ Lose \/ Reconnect
  PROVE  TypeInv'
<1> USE ClientAssumption DEF clientVars, handlerVars, threadVars, brokerVars
<1>1. TypeOK /\ InHand BY DEF TypeInv
<1>2. InHand'
  BY <1>1 DEF Start, Stop, StopReceived, ReceiveToken, WaitToken, Lose, Reconnect, InHand
<1>3. CASE Start
  <2>1. events' \in Seq({"up", "down"}) BY <1>1, <1>3, EventAppended DEF Start
  <2> QED BY <1>1, <1>2, <1>3, <2>1 DEF Start, TypeInv, TypeOK
<1>4. CASE Stop BY <1>1, <1>2, <1>4, FateTyped DEF Stop, TypeInv, TypeOK
<1>5. CASE StopReceived BY <1>1, <1>2, <1>5 DEF StopReceived, TypeInv, TypeOK
<1>6. CASE ReceiveToken \/ WaitToken
  BY <1>1, <1>2, <1>6 DEF ReceiveToken, WaitToken, Loop, TypeInv, TypeOK
<1>7. CASE Lose
  <2>1. events' \in Seq({"up", "down"}) BY <1>1, <1>7, EventAppended DEF Lose
  <2>2. brokerRetained' \in [Topics -> Payloads \cup {Empty}]
    <3>1. brokerRetained \in [Topics -> Payloads \cup {Empty}] BY <1>1 DEF TypeOK
    <3>2. CASE brokerRetained' = brokerRetained BY <3>1, <3>2
    <3>3. CASE brokerRetained' = [t \in Topics |-> Empty] BY <3>3
    <3> QED BY <1>7, <3>2, <3>3 DEF Lose
  <2>3. losses' \in 0..MaxLosses /\ hung' \in BOOLEAN BY <1>1, <1>7, FateTyped DEF Lose, TypeOK
  <2> QED BY <1>1, <1>2, <1>7, <2>1, <2>2, <2>3 DEF Lose, TypeInv, TypeOK
<1>8. CASE Reconnect
  <2>1. events' \in Seq({"up", "down"}) BY <1>1, <1>8, EventAppended DEF Reconnect
  <2> QED BY <1>1, <1>2, <1>8, <2>1 DEF Reconnect, TypeInv, TypeOK
<1> QED BY <1>3, <1>4, <1>5, <1>6, <1>7, <1>8

(* The strengthened type invariant holds.                                  *)
LEMMA TypeInvariant == Spec => []TypeInv
<1>1. TypeInv /\ UNCHANGED vars => TypeInv'
  BY DEF TypeInv, TypeOK, InHand, vars, clientVars, handlerVars, threadVars, brokerVars
<1>2. TypeInv /\ [Next]_vars => TypeInv'
  BY <1>1, CallsTyped, ContinueTyped, HandlerTyped, ConnectionTyped DEF Next
<1> QED BY InitTyped, <1>2, PTL DEF Spec

(* Type correctness of the client: among the types, that the queue of      *)
(* tokens stays within its capacity and that handlers and goroutines never *)
(* put a payload under a topic nobody uses.                                *)
THEOREM TypeCorrect == Spec => []TypeOK
<1>1. TypeInv => TypeOK BY DEF TypeInv
<1> QED BY <1>1, TypeInvariant, PTL

-----------------------------------------------------------------------------
(* Subscriptions.                                                          *)

(* Steps that change nothing of what the invariant is about.               *)
LEMMA SubsUnchanged ==
  ASSUME SubsInv,
         UNCHANGED <<wanted, subs, inverted, link, events, connected, pc, arg, handler, todo,
                     brokerSubs, losses>>
  PROVE  SubsInv'
BY DEF SubsInv, Noticed, CallsAgree, SubsReach, SubsOnly, NoUp, At, Resubscribing

(* The beginning of a call.                                                *)
LEMMA CallsSubs ==
  ASSUME TypeInv, SubsInv, NEW th \in Threads, Calls(th)
  PROVE  SubsInv'
<1> PICK t \in Topics :
      \/ Subscribe(th, t) \/ Unsubscribe(th, t) \/ PublishSync(th, t)
      \/ \E p \in Values : Publish(th, t, p)
  BY DEF Calls, Values
<1> USE DEF clientVars, handlerVars, brokerVars
<1>1. TypeOK /\ InHand BY DEF TypeInv
<1>2. Empty \in Values BY DEF Values
<1>3. UsedBy \in [Topics -> Threads] BY ClientAssumption
<1>4. subs \subseteq Topics /\ brokerSubs \subseteq Topics /\ connected \in BOOLEAN
  BY <1>1 DEF TypeOK
<1>7. ASSUME NEW p \in Values,
             \/ p = Empty /\ (Subscribe(th, t) \/ Unsubscribe(th, t) \/ PublishSync(th, t))
             \/ Publish(th, t, p)
      PROVE  SubsInv'
  <2>1. /\ pc[th] = "idle" /\ UsedBy[t] = th /\ arg'[th].topic = t
        /\ \A o \in Threads \ {th} : arg'[o] = arg[o]
    BY <1>1, <1>7, EnterIs DEF Subscribe, Unsubscribe, PublishSync, Publish
  <2>2. /\ pc'[th] \in {"subLock", "unsubLock", "pubToken", "sync"}
        /\ \A o \in Threads \ {th} : pc'[o] = pc[o]
    <3>1. PICK l \in {"subLock", "unsubLock", "pubToken", "sync"} : pc' = [pc EXCEPT ![th] = l]
      BY <1>7 DEF Subscribe, Unsubscribe, PublishSync, Publish
    <3> QED BY <1>1, <3>1, PlaceIs DEF Places
  <2>3. UNCHANGED <<wanted, subs, inverted, link, events, connected, handler, todo, brokerSubs, losses>>
    BY <1>7 DEF Subscribe, Unsubscribe, PublishSync, Publish
  <2>4. \A u \in Topics : (At(u, Sub)' <=> At(u, Sub)) /\ (At(u, Unsub)' <=> At(u, Unsub))
    BY <1>3, <2>1, <2>2 DEF At, Sub, Unsub
  <2>5. Noticed' BY <2>3 DEF SubsInv, Noticed
  <2>6. CallsAgree' BY <2>1, <2>2, <2>3 DEF SubsInv, CallsAgree, Resubscribing
  <2>7. SubsReach' BY <1>4, <2>3, <2>4 DEF SubsInv, SubsReach, NoUp, Resubscribing
  <2>8. SubsOnly' BY <1>4, <2>2, <2>3, <2>4 DEF SubsInv, SubsOnly
  <2> QED BY <2>5, <2>6, <2>7, <2>8 DEF SubsInv
<1> QED BY <1>2, <1>7

(* Subscribe and Unsubscribe with connMtx locked.                          *)
LEMMA LockedSubs ==
  ASSUME TypeInv, SubsInv, NEW th \in Threads, SubscribeLocked(th) \/ UnsubscribeLocked(th)
  PROVE  SubsInv'
<1> USE DEF clientVars, handlerVars, brokerVars
<1>1. TypeOK /\ InHand BY DEF TypeInv
<1>2. arg[th].topic \in Topics BY LockedIs
<1> PICK t \in Topics : t = arg[th].topic BY <1>2
<1>3. UsedBy \in [Topics -> Threads] BY ClientAssumption
<1>4. subs \subseteq Topics /\ brokerSubs \subseteq Topics /\ connected \in BOOLEAN
  BY <1>1 DEF TypeOK
<1>5. /\ pc[th] \notin {"idle", "sub", "unsub"} /\ UsedBy[t] = th /\ UNCHANGED arg /\ arg[th].topic = t
      /\ pc'[th] = IF connected THEN (IF SubscribeLocked(th) THEN "sub" ELSE "unsub") ELSE "idle"
      /\ \A o \in Threads \ {th} : pc'[o] = pc[o]
  BY LockedIs
<1>6. CASE SubscribeLocked(th)
  <2>1. pc'[th] = (IF connected THEN "sub" ELSE "idle") BY <1>5, <1>6
  <2>3. /\ handler = "idle" /\ wanted' = wanted \cup {t} /\ subs' = subs \cup {t}
        /\ UNCHANGED <<inverted, link, events, connected, handler, todo, brokerSubs, losses>>
    BY <1>6 DEF SubscribeLocked, connMtxFree, Stored
  <2>4. \A u \in Topics : UsedBy[u] # th => (At(u, Sub)' <=> At(u, Sub)) /\ (At(u, Unsub)' <=> At(u, Unsub))
    BY <1>3, <1>5, <2>1 DEF At
  <2>5. \A u \in Topics : UsedBy[u] = th => ~At(u, Sub) /\ ~At(u, Unsub) /\ ~At(u, Unsub)'
    BY <1>3, <1>5, <2>1 DEF At, Sub, Unsub
  <2>6. connected => At(t, Sub)' BY <1>5, <2>1 DEF At, Sub
  <2>7. Noticed' BY <2>3 DEF SubsInv, Noticed
  <2>8. CallsAgree'
    <3>1. ASSUME NEW o \in Threads, pc'[o] = "sub" PROVE arg'[o].topic \in subs'
      BY <1>5, <2>1, <2>3, <3>1 DEF SubsInv, CallsAgree
    <3>2. ASSUME NEW o \in Threads, pc'[o] = "unsub" PROVE arg'[o].topic \notin subs'
      <4>1. o # th BY <1>5, <2>1, <3>2
      <4>2. pc[o] = "unsub" /\ arg'[o] = arg[o] BY <1>5, <2>1, <3>2, <4>1
      <4>3. arg[o].topic \in Topics /\ UsedBy[arg[o].topic] = o BY <1>1, <4>2 DEF InHand
      <4> QED BY <1>5, <2>1, <2>3, <4>1, <4>2, <4>3 DEF SubsInv, CallsAgree
    <3> QED BY <2>3, <3>1, <3>2 DEF SubsInv, CallsAgree, Resubscribing
  <2>9. SubsReach'
    <3> SUFFICES ASSUME link, connected, NoUp, NEW u \in subs \cup {t}
                 PROVE  u \in brokerSubs \/ At(u, Sub)'
      BY <2>3 DEF SubsReach, NoUp
    <3>1. CASE u = t BY <2>6, <3>1
    <3>2. CASE u # t
      <4>1. u \in brokerSubs \/ At(u, Sub) BY <2>3, <3>2 DEF SubsInv, SubsReach, Resubscribing
      <4> QED BY <1>4, <2>4, <2>5, <4>1
    <3> QED BY <3>1, <3>2
  <2>10. SubsOnly'
    BY <1>4, <1>5, <2>1, <2>3, <2>4, <2>5 DEF SubsInv, SubsOnly
  <2> QED BY <2>7, <2>8, <2>9, <2>10 DEF SubsInv
<1>7. CASE UnsubscribeLocked(th)
  <2>1. pc'[th] = (IF connected THEN "unsub" ELSE "idle")
    <3>1. ~SubscribeLocked(th) BY <1>7 DEF SubscribeLocked, UnsubscribeLocked
    <3> QED BY <1>5, <3>1
  <2>3. /\ handler = "idle" /\ wanted' = wanted \ {t} /\ subs' = subs \ {t}
        /\ UNCHANGED <<inverted, link, events, connected, handler, todo, brokerSubs, losses>>
    BY <1>7 DEF UnsubscribeLocked, connMtxFree
  <2>4. \A u \in Topics : UsedBy[u] # th => (At(u, Sub)' <=> At(u, Sub)) /\ (At(u, Unsub)' <=> At(u, Unsub))
    BY <1>3, <1>5, <2>1 DEF At
  <2>5. \A u \in Topics : UsedBy[u] = th => ~At(u, Sub) /\ ~At(u, Unsub)
    BY <1>3, <1>5, <2>1 DEF At, Sub, Unsub
  <2>6. connected => At(t, Unsub)' BY <1>5, <2>1 DEF At, Unsub
  <2>7. Noticed' BY <2>3 DEF SubsInv, Noticed
  <2>8. CallsAgree'
    <3>1. ASSUME NEW o \in Threads, pc'[o] = "sub" PROVE arg'[o].topic \in subs'
      <4>1. o # th BY <1>5, <2>1, <3>1
      <4>2. pc[o] = "sub" /\ arg'[o] = arg[o] BY <1>5, <2>1, <3>1, <4>1
      <4>3. arg[o].topic \in Topics /\ UsedBy[arg[o].topic] = o BY <1>1, <4>2 DEF InHand
      <4> QED BY <1>5, <2>1, <2>3, <4>1, <4>2, <4>3 DEF SubsInv, CallsAgree
    <3>2. ASSUME NEW o \in Threads, pc'[o] = "unsub" PROVE arg'[o].topic \notin subs'
      BY <1>5, <2>1, <2>3, <3>2 DEF SubsInv, CallsAgree
    <3> QED BY <2>3, <3>1, <3>2 DEF SubsInv, CallsAgree, Resubscribing
  <2>9. SubsReach'
    <3> SUFFICES ASSUME link, connected, NoUp, NEW u \in subs \ {t}
                 PROVE  u \in brokerSubs \/ At(u, Sub)'
      BY <2>3 DEF SubsReach, NoUp
    <3>1. u \in brokerSubs \/ At(u, Sub) BY <2>3 DEF SubsInv, SubsReach, Resubscribing
    <3> QED BY <1>4, <2>4, <2>5, <3>1
  <2>10. SubsOnly'
    <3>1. ASSUME losses = 0, NEW u \in brokerSubs PROVE u \in subs' \/ At(u, Unsub)'
      <4>1. connected BY <3>1 DEF SubsInv, SubsOnly
      <4>2. CASE u = t BY <2>6, <4>1, <4>2
      <4>3. CASE u # t BY <1>4, <2>3, <2>4, <2>5, <3>1, <4>3 DEF SubsInv, SubsOnly
      <4> QED BY <4>2, <4>3
    <3> QED BY <1>5, <2>1, <2>3, <3>1 DEF SubsInv, SubsOnly
  <2> QED BY <2>7, <2>8, <2>9, <2>10 DEF SubsInv
<1> QED BY <1>6, <1>7

(* The later steps of a call.                                              *)
LEMMA ContinueSubs ==
  ASSUME TypeInv, SubsInv, NEW th \in Threads, Later(th)
  PROVE  SubsInv'
<1> USE DEF clientVars, handlerVars, brokerVars
<1>1. TypeOK /\ InHand BY DEF TypeInv
<1>2. UsedBy \in [Topics -> Threads] BY ClientAssumption
<1>3. subs \subseteq Topics /\ brokerSubs \subseteq Topics BY <1>1 DEF TypeOK
<1>4. PICK l \in Places \ {"sub", "unsub"} : Goto(th, l) /\ pc[th] # "idle"
  BY LaterGoes DEF Places
<1>5. /\ pc'[th] = l /\ (\A o \in Threads \ {th} : pc'[o] = pc[o]) /\ UNCHANGED <<arg, wanted>>
      /\ arg[th].topic \in Topics /\ UsedBy[arg[th].topic] = th
  BY <1>4, GotoIs
<1>6. UNCHANGED <<subs, inverted, link, events, connected, handler, todo, losses>>
  BY DEF Later, SubscribeInner, SubscribeToken, UnsubscribeInner, PublishToken, PublishMap, SyncDone
<1>7. Noticed' BY <1>6 DEF SubsInv, Noticed
<1>8. CallsAgree' BY <1>4, <1>5, <1>6 DEF SubsInv, CallsAgree, Resubscribing
<1>9. \A u \in Topics : UsedBy[u] # th => (At(u, Sub)' <=> At(u, Sub)) /\ (At(u, Unsub)' <=> At(u, Unsub))
  BY <1>2, <1>5 DEF At
<1>10. CASE SubscribeInner(th)
  <2>1. brokerSubs' = (IF link THEN brokerSubs \cup {arg[th].topic} ELSE brokerSubs) /\ pc[th] = "sub"
    BY <1>10 DEF SubscribeInner, AtBroker
  <2>2. arg[th].topic \in subs BY <2>1 DEF SubsInv, CallsAgree
  <2>3. \A u \in Topics : UsedBy[u] = th => ~At(u, Unsub) /\ (At(u, Sub) => u = arg[th].topic)
    BY <2>1 DEF At, Unsub
  <2>4. SubsReach'
    <3> SUFFICES ASSUME link, connected, NoUp, NEW u \in subs
                 PROVE  u \in brokerSubs' \/ At(u, Sub)' \/ (Resubscribing /\ u \in todo)
      BY <1>6 DEF SubsReach, NoUp, Resubscribing
    <3>1. u \in brokerSubs \/ At(u, Sub) \/ (Resubscribing /\ u \in todo)
      BY DEF SubsInv, SubsReach
    <3> QED BY <1>3, <1>9, <2>1, <2>3, <3>1
  <2>5. SubsOnly'
    <3>1. ~link => brokerSubs' = {} BY <2>1 DEF SubsInv, SubsOnly
    <3>2. ASSUME losses = 0 PROVE connected BY <2>1, <3>2 DEF SubsInv, SubsOnly
    <3>3. ASSUME losses = 0, NEW u \in brokerSubs' PROVE u \in subs \/ At(u, Unsub)'
      BY <1>3, <1>9, <2>1, <2>2, <2>3, <3>3 DEF SubsInv, SubsOnly
    <3> QED BY <1>6, <3>1, <3>2, <3>3 DEF SubsInv, SubsOnly
  <2> QED BY <1>7, <1>8, <2>4, <2>5 DEF SubsInv
<1>11. CASE UnsubscribeInner(th)
  <2>1. brokerSubs' = (IF link THEN brokerSubs \ {arg[th].topic} ELSE brokerSubs) /\ pc[th] = "unsub"
    BY <1>11 DEF UnsubscribeInner, AtBroker
  <2>2. arg[th].topic \notin subs BY <2>1 DEF SubsInv, CallsAgree
  <2>3. \A u \in Topics : UsedBy[u] = th => ~At(u, Sub) /\ (At(u, Unsub) => u = arg[th].topic)
    BY <2>1 DEF At, Sub
  <2>4. SubsReach'
    <3> SUFFICES ASSUME link, connected, NoUp, NEW u \in subs
                 PROVE  u \in brokerSubs' \/ At(u, Sub)' \/ (Resubscribing /\ u \in todo)
      BY <1>6 DEF SubsReach, NoUp, Resubscribing
    <3>1. u \in brokerSubs \/ At(u, Sub) \/ (Resubscribing /\ u \in todo)
      BY DEF SubsInv, SubsReach
    <3> QED BY <1>3, <1>9, <2>1, <2>2, <2>3, <3>1
  <2>5. SubsOnly'
    <3>1. ~link => brokerSubs' = {} BY <2>1 DEF SubsInv, SubsOnly
    <3>2. ASSUME losses = 0 PROVE connected BY <2>1, <3>2 DEF SubsInv, SubsOnly
    <3>3. ASSUME losses = 0, NEW u \in brokerSubs' PROVE u \in subs \/ At(u, Unsub)'
      BY <1>3, <1>9, <2>1, <2>3, <3>1, <3>3 DEF SubsInv, SubsOnly
    <3> QED BY <1>6, <3>1, <3>2, <3>3 DEF SubsInv, SubsOnly
  <2> QED BY <1>7, <1>8, <2>4, <2>5 DEF SubsInv
<1>12. CASE SubscribeToken(th) \/ PublishToken(th) \/ PublishMap(th) \/ SyncDone(th)
  <2>1. UNCHANGED brokerSubs /\ pc[th] \in {"subToken", "pubToken", "pubMap", "sync"}
    BY <1>12 DEF SubscribeToken, PublishToken, PublishMap, SyncDone
  <2>2. \A u \in Topics : (At(u, Sub)' <=> At(u, Sub)) /\ (At(u, Unsub)' <=> At(u, Unsub))
    BY <1>2, <1>4, <1>5, <2>1 DEF At, Sub, Unsub
  <2>3. SubsReach' BY <1>3, <1>6, <2>1, <2>2 DEF SubsInv, SubsReach, NoUp, Resubscribing
  <2>4. SubsOnly' BY <1>3, <1>4, <1>5, <1>6, <2>1, <2>2 DEF SubsInv, SubsOnly
  <2> QED BY <1>7, <1>8, <2>3, <2>4 DEF SubsInv
<1> QED BY <1>10, <1>11, <1>12 DEF Later

(* The handlers.                                                           *)
LEMMA HandlerSubs == ASSUME TypeInv, SubsInv, HandlerNext PROVE SubsInv'
<1> USE DEF clientVars, threadVars, brokerVars
<1>1. TypeOK /\ InHand BY DEF TypeInv
<1>2. subs \subseteq Topics /\ brokerSubs \subseteq Topics BY <1>1 DEF TypeOK
<1>3. CASE onConnectionLost
  <2>1. /\ Handle("down") /\ connected' = FALSE
        /\ UNCHANGED <<wanted, subs, link, pc, arg, handler, todo, brokerSubs, losses>>
    BY <1>3 DEF onConnectionLost
  <2>2. Noticed'
    <3> SUFFICES ASSUME ~inverted', link
                 PROVE  IF events' = <<>> THEN FALSE ELSE events'[Len(events')] = "up"
      BY <2>1 DEF Noticed
    <3>1. ~inverted /\ events # <<>> BY <1>1, <2>1, HandleIs
    <3>2. events[Len(events)] = "up" BY <3>1 DEF SubsInv, Noticed
    <3>3. IF events' = <<>> THEN Len(events) = 1 /\ events[1] = "down"
          ELSE events'[Len(events')] = events[Len(events)]
      BY <1>1, <2>1, HandleIs
    <3> QED BY <3>2, <3>3
  <2>3. CallsAgree' BY <2>1 DEF SubsInv, CallsAgree, Resubscribing
  <2>4. SubsReach' BY <2>1 DEF SubsReach
  <2>5. losses # 0
    <3>1. PICK k \in DOMAIN events : events[k] = "down" BY <1>1, <2>1, HandleIs
    <3> QED BY <3>1 DEF SubsInv, SubsOnly
  <2>6. SubsOnly' BY <2>1, <2>5 DEF SubsInv, SubsOnly
  <2> QED BY <2>2, <2>3, <2>4, <2>6 DEF SubsInv
<1>4. CASE onConnect
  <2>1. /\ Handle("up") /\ connected' = TRUE /\ handler' = "resub" /\ todo' = subs
        /\ UNCHANGED <<wanted, subs, link, pc, arg, brokerSubs, losses>>
    BY <1>4 DEF onConnect, SetConnected
  <2>2. Noticed'
    <3> SUFFICES ASSUME ~inverted', link
                 PROVE  events' # <<>> => events'[Len(events')] = "up"
      BY <2>1 DEF Noticed
    <3>1. ~inverted /\ events # <<>> BY <1>1, <2>1, HandleIs
    <3>2. events[Len(events)] = "up" BY <3>1 DEF SubsInv, Noticed
    <3>3. events' # <<>> => events'[Len(events')] = events[Len(events)]
      BY <1>1, <2>1, HandleIs
    <3> QED BY <3>2, <3>3
  <2>3. CallsAgree' BY <2>1 DEF SubsInv, CallsAgree, Resubscribing
  <2>4. SubsReach' BY <2>1 DEF SubsReach, Resubscribing
  <2>5. \A j \in DOMAIN events' : \E k \in DOMAIN events : events'[j] = events[k]
    BY <1>1, <2>1, HandleIs
  <2>6. \A u : At(u, Unsub)' <=> At(u, Unsub) BY <2>1 DEF At
  <2>7. SubsOnly' BY <2>1, <2>5, <2>6 DEF SubsInv, SubsOnly
  <2> QED BY <2>2, <2>3, <2>4, <2>7 DEF SubsInv
<1>5. ASSUME NEW t \in Topics, Resub(t) PROVE SubsInv'
  <2>1. /\ handler = "resub" /\ t \in todo /\ handler' = "subToken" /\ todo' = todo \ {t}
        /\ brokerSubs' = (IF link THEN brokerSubs \cup {t} ELSE brokerSubs)
        /\ UNCHANGED <<wanted, subs, inverted, link, events, connected, pc, arg, losses>>
    BY <1>5 DEF Resub, AtBroker
  <2>2. \A u : (At(u, Unsub)' <=> At(u, Unsub)) /\ (At(u, Sub)' <=> At(u, Sub)) BY <2>1 DEF At
  <2>3. t \in subs BY <2>1 DEF SubsInv, CallsAgree, Resubscribing
  <2>4. Noticed' BY <2>1 DEF SubsInv, Noticed
  <2>5. CallsAgree' BY <2>1 DEF SubsInv, CallsAgree, Resubscribing
  <2>6. SubsReach' BY <2>1, <2>2 DEF SubsInv, SubsReach, NoUp, Resubscribing
  <2>7. SubsOnly' BY <2>1, <2>2, <2>3 DEF SubsInv, SubsOnly
  <2> QED BY <2>4, <2>5, <2>6, <2>7 DEF SubsInv
<1>6. ASSUME UNCHANGED <<wanted, subs, inverted, link, events, connected, pc, arg, brokerSubs, losses>>,
             \/ Resubscribing /\ Resubscribing' /\ todo' = todo
             \/ handler = "resub" /\ todo = {} /\ ~Resubscribing' /\ handler' # "idle"
             \/ ~Resubscribing /\ ~Resubscribing' /\ (handler' = "idle" \/ handler # "idle")
      PROVE  SubsInv'
  <2>1. \A u : (At(u, Unsub)' <=> At(u, Unsub)) /\ (At(u, Sub)' <=> At(u, Sub)) BY <1>6 DEF At
  <2>2. Noticed' BY <1>6 DEF SubsInv, Noticed
  <2>3. CallsAgree' BY <1>6 DEF SubsInv, CallsAgree
  <2>4. SubsReach' BY <1>6, <2>1 DEF SubsInv, SubsReach, NoUp
  <2>5. SubsOnly' BY <1>6, <2>1 DEF SubsInv, SubsOnly, Resubscribing
  <2> QED BY <2>2, <2>3, <2>4, <2>5 DEF SubsInv
<1>7. CASE ResubToken BY <1>6, <1>7 DEF ResubToken, Resubscribing
<1>8. CASE RepubStart BY <1>6, <1>8 DEF RepubStart, Resubscribing
<1>9. ASSUME NEW t \in Topics, Repub(t) PROVE SubsInv'
  <2>1. handler = "repub" /\ handler' \in {"repub", "pubToken"}
    BY <1>9 DEF Repub
  <2> QED BY <1>6, <1>9, <2>1 DEF Repub, Resubscribing
<1>10. CASE RepubToken \/ RepubMap \/ onConnectDone
  BY <1>6, <1>10 DEF RepubToken, RepubMap, onConnectDone, Resubscribing
<1> QED BY <1>3, <1>4, <1>5, <1>7, <1>8, <1>9, <1>10 DEF HandlerNext, onConnectNext

(* Start(), Stop() and the network.                                        *)
LEMMA ConnectionSubs ==
  ASSUME TypeInv, SubsInv, Start \/ Stop \/ StopReceived \/ ReceiveToken \/ WaitToken \/ Lose \/ Reconnect
  PROVE  SubsInv'
<1> USE DEF clientVars, handlerVars, threadVars, brokerVars
<1>1. TypeOK BY DEF TypeInv
<1>2. UNCHANGED <<wanted, subs, inverted, connected, pc, arg, handler, todo>>
  BY DEF Start, Stop, StopReceived, ReceiveToken, WaitToken, Lose, Reconnect
<1>3. \A u : (At(u, Unsub)' <=> At(u, Unsub)) /\ (At(u, Sub)' <=> At(u, Sub)) BY <1>2 DEF At
<1>4. CallsAgree' BY <1>2 DEF SubsInv, CallsAgree, Resubscribing
<1>5. CASE Start \/ Reconnect
  <2>1. link' = TRUE /\ events' = Append(events, "up") /\ UNCHANGED <<brokerSubs, losses>>
    BY <1>5 DEF Start, Reconnect
  <2>2. Noticed' BY <1>1, <2>1, EventAppended DEF Noticed
  <2>3. ~NoUp' BY <1>1, <2>1, EventAppended DEF NoUp
  <2>4. SubsReach' BY <2>3 DEF SubsReach
  <2>5. \A i \in DOMAIN events' : events'[i] = "up" \/ \E j \in DOMAIN events : events'[i] = events[j]
    BY <1>1, <2>1, EventAppended
  <2>6. SubsOnly' BY <1>2, <1>3, <2>1, <2>5 DEF SubsInv, SubsOnly
  <2> QED BY <1>4, <2>2, <2>4, <2>6 DEF SubsInv
<1>6. CASE Stop
  <2>1. link' = FALSE /\ brokerSubs' = {} /\ UNCHANGED <<events, losses>> BY <1>6 DEF Stop
  <2> QED BY <1>2, <1>4, <2>1 DEF SubsInv, Noticed, SubsReach, SubsOnly
<1>7. CASE StopReceived \/ ReceiveToken \/ WaitToken
  BY <1>7, SubsUnchanged DEF StopReceived, ReceiveToken, WaitToken
<1>8. CASE Lose
  <2>1. link' = FALSE /\ brokerSubs' = {} /\ losses' # 0 BY <1>1, <1>8 DEF Lose, TypeOK
  <2> QED BY <1>2, <1>4, <2>1 DEF SubsInv, Noticed, SubsReach, SubsOnly
<1> QED BY <1>5, <1>6, <1>7, <1>8

(* Whatever calls, losses and handlers interleave, in whatever order the   *)
(* library runs the handlers, a client at rest has its subscriptions at    *)
(* the broker.                                                             *)
THEOREM SubscriptionsKept == Spec => []SubscriptionsRestored
<1>1. Init => SubsInv
  BY DEF Init, SubsInv, Noticed, CallsAgree, SubsReach, SubsOnly, Resubscribing
<1>2. SubsInv /\ UNCHANGED vars => SubsInv'
  BY SubsUnchanged DEF vars, clientVars, handlerVars, threadVars, brokerVars
<1>3. TypeInv /\ SubsInv /\ [Next]_vars => SubsInv'
  BY <1>2, CallsSubs, LockedSubs, ContinueSubs, HandlerSubs, ConnectionSubs
     DEF Next, Continue, Later
<1>4. TypeInv /\ SubsInv => SubscriptionsRestored
  <2> SUFFICES ASSUME TypeInv, SubsInv, Quiet
               PROVE  /\ ~inverted => connected
                      /\ connected => wanted \subseteq brokerSubs
                      /\ losses = 0 => brokerSubs \subseteq wanted
    BY DEF SubscriptionsRestored
  <2>1. subs \subseteq Topics /\ brokerSubs \subseteq Topics BY DEF TypeInv, TypeOK
  <2>2. \A u \in Topics : ~At(u, Sub) /\ ~At(u, Unsub)
    BY ClientAssumption DEF Quiet, At, Sub, Unsub
  <2>3. NoUp BY DEF Quiet, NoUp
  <2> QED BY <2>1, <2>2, <2>3
          DEF SubsInv, Noticed, CallsAgree, SubsReach, SubsOnly, Quiet, Resubscribing
<1> QED BY <1>1, <1>3, <1>4, TypeInvariant, PTL DEF Spec

-----------------------------------------------------------------------------
(* Retained messages.                                                      *)

(* Steps that change nothing of what the invariant is about.               *)
LEMMA RetainedUnchanged ==
  ASSUME RetainedInv,
         UNCHANGED <<link, events, pc, arg, handler, todo, item, exempt, latest, cleared,
                     retainedMessages, brokerRetained>>
  PROVE  RetainedInv'
BY DEF RetainedInv, OverlapKnown, LatestKnown, MapCurrent, BrokerCurrent, NoUp, At, Resubscribing,
       Republishing

(* The beginning of a call.                                                *)
LEMMA CallsRetained ==
  ASSUME TypeInv, RetainedInv, NEW th \in Threads, Calls(th)
  PROVE  RetainedInv'
<1> PICK t \in Topics :
      \/ Subscribe(th, t) \/ Unsubscribe(th, t) \/ PublishSync(th, t)
      \/ \E p \in Values : Publish(th, t, p)
  BY DEF Calls, Values
<1> USE DEF clientVars, handlerVars, brokerVars
<1>1. TypeOK /\ InHand BY DEF TypeInv
<1>2. Empty \in Values BY DEF Values
<1>3. UsedBy \in [Topics -> Threads] BY ClientAssumption
<1>4. /\ latest \in [Topics -> Values] /\ brokerRetained \in [Topics -> Values]
      /\ cleared \in [Topics -> {"no", "map", "sync"}]
  BY <1>1 DEF TypeOK, Values
<1>5. CASE Subscribe(th, t) \/ Unsubscribe(th, t)
  <2>1. /\ pc[th] = "idle" /\ \A o \in Threads \ {th} : arg'[o] = arg[o]
    BY <1>1, <1>2, <1>5, EnterIs DEF Subscribe, Unsubscribe
  <2>2. PICK l \in {"subLock", "unsubLock"} : pc' = [pc EXCEPT ![th] = l]
    BY <1>5 DEF Subscribe, Unsubscribe
  <2>3. pc'[th] = l /\ \A o \in Threads \ {th} : pc'[o] = pc[o]
    BY <1>1, <2>2, PlaceIs DEF Places
  <2>4. UNCHANGED <<link, events, handler, todo, item, exempt, latest, cleared,
                    retainedMessages, brokerRetained>>
    BY <1>5 DEF Subscribe, Unsubscribe
  <2>5. \A u \in Topics : At(u, Pub)' <=> At(u, Pub) BY <1>3, <2>1, <2>3 DEF At, Pub
  <2>6. \A u \in Topics : At(u, Pub) => arg'[UsedBy[u]] = arg[UsedBy[u]]
    BY <1>3, <2>1 DEF At, Pub
  <2>7. OverlapKnown' BY <2>1, <2>3, <2>4 DEF RetainedInv, OverlapKnown, Pub
  <2>8. LatestKnown' BY <2>4, <2>5, <2>6 DEF RetainedInv, LatestKnown
  <2>9. \A u \in Topics \ exempt : MapCurrent(u)' /\ BrokerCurrent(u)'
    BY <2>4, <2>5 DEF RetainedInv, MapCurrent, BrokerCurrent, NoUp, Resubscribing, Republishing
  <2> QED BY <2>4, <2>7, <2>8, <2>9 DEF RetainedInv
<1>6. CASE PublishSync(th, t)
  <2>1. /\ pc[th] = "idle" /\ UsedBy[t] = th /\ \A o \in Threads \ {th} : arg'[o] = arg[o]
    BY <1>1, <1>2, <1>6, EnterIs DEF PublishSync
  <2>2. /\ latest' = [latest EXCEPT ![t] = Empty]
        /\ UNCHANGED <<link, events, handler, todo, item, exempt, retainedMessages>>
    BY <1>6 DEF PublishSync
  <2>9. pc'[th] = "sync" /\ \A o \in Threads \ {th} : pc'[o] = pc[o]
    BY <1>1, <1>6, PlaceIs DEF PublishSync, Places
  <2>3. /\ brokerRetained' = IF link THEN [brokerRetained EXCEPT ![t] = Empty] ELSE brokerRetained
        /\ cleared' = [cleared EXCEPT ![t] = IF Empty = Empty /\ link /\ handler = "idle"
                                             THEN "sync" ELSE "no"]
    BY <1>6 DEF PublishSync, Retained, Cleared, connMtxFree
  <2>4. /\ latest'[t] = Empty /\ \A u \in Topics \ {t} : latest'[u] = latest[u]
        /\ cleared'[t] # "map" /\ (cleared'[t] # "no" => link /\ handler = "idle")
        /\ \A u \in Topics \ {t} : cleared'[u] = cleared[u]
        /\ link => brokerRetained'[t] = Empty
        /\ \A u \in Topics \ {t} : brokerRetained'[u] = brokerRetained[u]
    BY <1>4, <2>2, <2>3
  <2>5. \A u \in Topics : (At(u, Pub)' <=> At(u, Pub)) /\ (At(u, Pub) => UsedBy[u] # th)
    BY <1>3, <2>1, <2>9 DEF At, Pub
  <2>6. OverlapKnown' BY <2>1, <2>2, <2>9 DEF RetainedInv, OverlapKnown, Pub
  <2>7. LatestKnown' BY <1>3, <2>1, <2>2, <2>4, <2>5 DEF RetainedInv, LatestKnown
  <2>8. ASSUME NEW u \in Topics \ exempt PROVE MapCurrent(u)' /\ BrokerCurrent(u)'
    <3>1. CASE u = t BY <2>4, <3>1 DEF MapCurrent, BrokerCurrent
    <3>2. CASE u # t BY <2>2, <2>4, <2>5, <3>2
          DEF RetainedInv, MapCurrent, BrokerCurrent, NoUp, Resubscribing, Republishing
    <3> QED BY <3>1, <3>2
  <2> QED BY <2>2, <2>6, <2>7, <2>8 DEF RetainedInv
<1>7. ASSUME NEW p \in Values, Publish(th, t, p) PROVE RetainedInv'
  <2>1. /\ pc[th] = "idle" /\ UsedBy[t] = th /\ arg'[th].topic = t /\ arg'[th].payload = p
        /\ \A o \in Threads \ {th} : arg'[o] = arg[o]
    BY <1>1, <1>7, EnterIs DEF Publish
  <2>2. pc'[th] = "pubToken" /\ \A o \in Threads \ {th} : pc'[o] = pc[o]
    BY <1>1, <1>7, PlaceIs DEF Publish, Places
  <2>3. /\ latest' = [latest EXCEPT ![t] = p]
        /\ exempt' = IF handler = "idle" THEN exempt ELSE exempt \cup {t}
        /\ UNCHANGED <<link, events, handler, todo, item, retainedMessages>>
    BY <1>7 DEF Publish, connMtxFree
  <2>4. /\ brokerRetained' = IF link THEN [brokerRetained EXCEPT ![t] = p] ELSE brokerRetained
        /\ cleared' = [cleared EXCEPT ![t] = IF p = Empty /\ link /\ handler = "idle"
                                             THEN "map" ELSE "no"]
    BY <1>7 DEF Publish, Retained, Cleared, connMtxFree
  <2>5. /\ latest'[t] = p /\ \A u \in Topics \ {t} : latest'[u] = latest[u]
        /\ cleared'[t] # "sync" /\ (cleared'[t] # "no" => p = Empty /\ link)
        /\ \A u \in Topics \ {t} : cleared'[u] = cleared[u]
        /\ link => brokerRetained'[t] = p
        /\ \A u \in Topics \ {t} : brokerRetained'[u] = brokerRetained[u]
    BY <1>4, <2>3, <2>4
  <2>6. /\ At(t, Pub)' /\ \A u \in Topics \ {t} : At(u, Pub)' <=> At(u, Pub)
        /\ \A u \in Topics : At(u, Pub) => UsedBy[u] # th
    BY <1>3, <2>1, <2>2 DEF At, Pub
  <2>7. exempt \subseteq exempt' /\ (handler # "idle" => t \in exempt') BY <2>3
  <2>8. OverlapKnown'
    <3>1. ASSUME handler # "idle", NEW o \in Threads, pc'[o] \in Pub PROVE arg'[o].topic \in exempt'
      BY <2>1, <2>2, <2>7, <3>1 DEF RetainedInv, OverlapKnown
    <3> QED BY <2>3, <2>7, <3>1 DEF RetainedInv, OverlapKnown, Pub
  <2>9. LatestKnown'
    <3>1. ASSUME NEW u \in Topics, At(u, Pub)' PROVE arg'[UsedBy[u]].payload = latest'[u]
      <4>1. CASE u = t BY <2>1, <2>5, <4>1
      <4>2. CASE u # t BY <1>3, <2>1, <2>5, <2>6, <3>1, <4>2 DEF RetainedInv, LatestKnown
      <4> QED BY <4>1, <4>2
    <3>2. \A u \in Topics : cleared'[u] # "no" => latest'[u] = Empty
      BY <2>5 DEF RetainedInv, LatestKnown
    <3> QED BY <2>3, <2>5, <3>1, <3>2 DEF RetainedInv, LatestKnown
  <2>10. ASSUME NEW u \in Topics \ exempt' PROVE MapCurrent(u)' /\ BrokerCurrent(u)'
    <3>1. CASE u = t BY <2>3, <2>5, <2>6, <3>1 DEF MapCurrent, BrokerCurrent
    <3>2. CASE u # t BY <2>3, <2>5, <2>6, <2>7, <3>2
          DEF RetainedInv, MapCurrent, BrokerCurrent, NoUp, Resubscribing, Republishing
    <3> QED BY <3>1, <3>2
  <2> QED BY <2>8, <2>9, <2>10 DEF RetainedInv
<1> QED BY <1>5, <1>6, <1>7

(* The later steps of a call.                                              *)
LEMMA ContinueRetained ==
  ASSUME TypeInv, RetainedInv, NEW th \in Threads, Continue(th) \/ SyncDone(th)
  PROVE  RetainedInv'
<1> USE DEF clientVars, handlerVars, brokerVars
<1>1. TypeOK /\ InHand BY DEF TypeInv
<1>2. UsedBy \in [Topics -> Threads] BY ClientAssumption
<1>4. /\ \A o \in Threads \ {th} : pc'[o] = pc[o]
      /\ UNCHANGED <<arg, latest, cleared>>
      /\ arg[th].topic \in Topics /\ UsedBy[arg[th].topic] = th
  <2>1. CASE Later(th)
    <3>1. PICK l \in Places : Goto(th, l) /\ pc[th] # "idle" BY <2>1, LaterGoes DEF Places
    <3> QED BY <3>1, GotoIs
  <2>2. CASE SubscribeLocked(th) \/ UnsubscribeLocked(th) BY <2>2, LockedIs
  <2> QED BY <2>1, <2>2 DEF Continue, Later
<1>5. UNCHANGED <<link, events, handler, todo, item, exempt, brokerRetained>>
  BY DEF Continue, SubscribeLocked, UnsubscribeLocked, SubscribeInner, SubscribeToken,
         UnsubscribeInner, PublishToken, PublishMap, SyncDone
<1>6. CASE \/ SubscribeLocked(th) \/ UnsubscribeLocked(th)
           \/ SubscribeInner(th) \/ UnsubscribeInner(th) \/ SubscribeToken(th)
           \/ PublishToken(th) \/ SyncDone(th)
  <2>1. UNCHANGED retainedMessages /\ (pc'[th] \in Pub <=> pc[th] \in Pub)
    <3>1. CASE PublishToken(th)
      <4>1. pc[th] = "pubToken" /\ pc' = [pc EXCEPT ![th] = "pubMap"] /\ UNCHANGED retainedMessages
        BY <3>1 DEF PublishToken, Goto
      <4> QED BY <1>1, <4>1, PlaceIs DEF Places, Pub
    <3>2. CASE SubscribeInner(th) \/ UnsubscribeInner(th) \/ SubscribeToken(th) \/ SyncDone(th)
      <4>1. PICK k \in {"subToken", "idle"} : pc' = [pc EXCEPT ![th] = k]
        BY <3>2 DEF SubscribeInner, UnsubscribeInner, SubscribeToken, SyncDone, Goto
      <4>2. pc'[th] = k BY <1>1, <4>1, PlaceIs DEF Places
      <4> QED BY <3>2, <4>2 DEF SubscribeInner, UnsubscribeInner, SubscribeToken, SyncDone, Pub
    <3>3. CASE SubscribeLocked(th) \/ UnsubscribeLocked(th)
      <4>1. UNCHANGED retainedMessages BY <3>3 DEF SubscribeLocked, UnsubscribeLocked
      <4>2. pc'[th] \in {"idle", "sub", "unsub"} /\ pc[th] \notin {"pubToken", "pubMap"}
        BY <3>3, LockedIs
      <4> QED BY <4>1, <4>2 DEF Pub
    <3> QED BY <1>6, <3>1, <3>2, <3>3
  <2>2. \A u \in Topics : At(u, Pub)' <=> At(u, Pub) BY <1>2, <1>4, <2>1 DEF At
  <2>3. OverlapKnown' BY <1>4, <1>5, <2>1 DEF RetainedInv, OverlapKnown
  <2>4. LatestKnown' BY <1>4, <1>5, <2>2 DEF RetainedInv, LatestKnown
  <2>5. \A u \in Topics \ exempt : MapCurrent(u)' /\ BrokerCurrent(u)'
    BY <1>4, <1>5, <2>1, <2>2
       DEF RetainedInv, MapCurrent, BrokerCurrent, NoUp, Resubscribing, Republishing
  <2> QED BY <1>5, <2>3, <2>4, <2>5 DEF RetainedInv
<1>7. CASE PublishMap(th)
  <2> PICK t \in Topics : t = arg[th].topic BY <1>4
  <2>1. /\ pc[th] = "pubMap" /\ pc' = [pc EXCEPT ![th] = "idle"]
        /\ retainedMessages' = [retainedMessages EXCEPT ![t] = arg[th].payload]
    BY <1>7 DEF PublishMap, Goto, Remembered
  <2>2. pc'[th] = "idle" BY <1>1, <2>1, PlaceIs DEF Places
  <2>3. t \in Topics /\ UsedBy[t] = th /\ At(t, Pub) BY <1>4, <2>1 DEF At, Pub
  <2>4. \A u \in Topics : u # t => (At(u, Pub)' <=> At(u, Pub))
    BY <1>2, <1>4, <2>1, <2>2 DEF At, Pub
  <2>5. arg[th].payload = latest[t] BY <2>3 DEF RetainedInv, LatestKnown
  <2>6. /\ retainedMessages'[t] = latest[t]
        /\ \A u \in Topics \ {t} : retainedMessages'[u] = retainedMessages[u]
    BY <1>1, <2>1, <2>3, <2>5 DEF TypeOK
  <2>7. ~At(t, Pub)' BY <2>2, <2>3 DEF At, Pub
  <2>8. OverlapKnown'
    <3>1. handler # "idle" => t \in exempt BY <2>1 DEF RetainedInv, OverlapKnown, Pub
    <3>2. ASSUME handler \in Pub, item.topic \notin exempt
          PROVE  item.payload = retainedMessages'[item.topic]
      <4>1. item.topic \in Topics /\ item.topic # t BY <1>1, <3>1, <3>2 DEF InHand, Pub
      <4> QED BY <2>6, <3>2, <4>1 DEF RetainedInv, OverlapKnown
    <3>3. \A o \in Threads : pc'[o] \in Pub => pc[o] \in Pub BY <1>4, <2>2 DEF Pub
    <3> QED BY <1>4, <1>5, <3>2, <3>3 DEF RetainedInv, OverlapKnown
  <2>9. LatestKnown'
    <3>1. \A u \in Topics : At(u, Pub)' => At(u, Pub) BY <2>4, <2>7
    <3> QED BY <1>4, <1>5, <3>1 DEF RetainedInv, LatestKnown
  <2>10. ASSUME NEW u \in Topics \ exempt PROVE MapCurrent(u)' /\ BrokerCurrent(u)'
    <3>1. BrokerCurrent(u)' BY <1>4, <1>5 DEF RetainedInv, BrokerCurrent, NoUp, Resubscribing, Republishing
    <3>2. CASE u = t BY <1>4, <2>6, <3>1, <3>2 DEF RetainedInv, LatestKnown, MapCurrent
    <3>3. CASE u # t BY <1>4, <2>4, <2>6, <3>1, <3>3 DEF RetainedInv, MapCurrent
    <3> QED BY <3>2, <3>3
  <2> QED BY <1>5, <2>8, <2>9, <2>10 DEF RetainedInv
<1> QED BY <1>6, <1>7 DEF Continue

(* The handlers.                                                           *)
LEMMA HandlerRetained ==
  ASSUME TypeInv, RetainedInv, HandlerNext
  PROVE  RetainedInv'
<1> USE DEF clientVars, threadVars, brokerVars
<1>1. TypeOK /\ InHand BY DEF TypeInv
<1>2. UNCHANGED <<pc, arg, latest, link>>
  BY DEF HandlerNext, onConnectNext, onConnectionLost, onConnect, Resub, ResubToken, RepubStart,
         Repub, RepubToken, RepubMap, onConnectDone
<1>3. \A u : At(u, Pub)' <=> At(u, Pub) BY <1>2 DEF At
<1>4. CASE onConnectionLost
  <2>1. UNCHANGED <<handler, todo, item, exempt, cleared, retainedMessages, brokerRetained>>
    BY <1>4 DEF onConnectionLost
  <2>2. NoUp' => NoUp
    <3>1. \A k \in DOMAIN events :
            events[k] = "down" \/ \E j \in DOMAIN events' : events'[j] = events[k]
      BY <1>1, <1>4, HandleIs DEF onConnectionLost
    <3> QED BY <3>1 DEF NoUp
  <2>3. OverlapKnown' /\ LatestKnown'
    BY <1>2, <1>3, <2>1 DEF RetainedInv, OverlapKnown, LatestKnown
  <2>4. \A u \in Topics \ exempt : MapCurrent(u)' /\ BrokerCurrent(u)'
    BY <1>2, <1>3, <2>1, <2>2 DEF RetainedInv, MapCurrent, BrokerCurrent, Resubscribing, Republishing
  <2> QED BY <2>1, <2>3, <2>4 DEF RetainedInv
<1>5. CASE onConnect
  <2>1. /\ handler' = "resub" /\ UNCHANGED <<retainedMessages, brokerRetained>>
        /\ exempt' = exempt \cup {arg[th].topic : th \in {x \in Threads : pc[x] \in Pub}}
        /\ cleared' = [t \in Topics |-> IF cleared[t] = "sync" THEN "no" ELSE cleared[t]]
    BY <1>5 DEF onConnect, Pub
  <2>2. exempt \subseteq exempt' /\ \A th \in Threads : pc[th] \in Pub => arg[th].topic \in exempt'
    BY <2>1
  <2>3. \A t \in Topics : /\ cleared'[t] # "sync" /\ (cleared'[t] # "no" => cleared[t] # "no")
                          /\ (cleared'[t] = "map" => cleared[t] = "map")
    BY <2>1
  <2>4. OverlapKnown' BY <1>2, <2>1, <2>2 DEF OverlapKnown, Pub
  <2>5. LatestKnown' BY <1>2, <1>3, <2>3 DEF RetainedInv, LatestKnown
  <2>6. \A u \in Topics \ exempt' : MapCurrent(u)' /\ BrokerCurrent(u)'
    BY <1>2, <1>3, <2>1, <2>2, <2>3 DEF RetainedInv, MapCurrent, BrokerCurrent, Resubscribing
  <2> QED BY <2>4, <2>5, <2>6 DEF RetainedInv
<1>6. ASSUME onConnectNext
      PROVE  handler # "idle" /\ UNCHANGED <<events, exempt, cleared>>
  BY <1>6 DEF onConnectNext, Resub, ResubToken, RepubStart, Repub, RepubToken, RepubMap,
              onConnectDone
<1>7. ASSUME onConnectNext PROVE LatestKnown'
  BY <1>2, <1>3, <1>6, <1>7 DEF RetainedInv, LatestKnown
<1>8. ASSUME onConnectNext, NEW u \in Topics \ exempt PROVE ~At(u, Pub)
  BY <1>6, <1>8, ClientAssumption DEF RetainedInv, OverlapKnown, At
<1>9. ASSUME onConnectNext, UNCHANGED retainedMessages,
             \A u \in Topics \ exempt : BrokerCurrent(u)',
             handler' \in Pub => /\ item'.topic \notin exempt =>
                                      item'.payload = retainedMessages[item'.topic]
      PROVE  RetainedInv'
  <2>1. OverlapKnown' BY <1>2, <1>6, <1>9 DEF RetainedInv, OverlapKnown
  <2>2. \A u \in Topics \ exempt : MapCurrent(u)' BY <1>2, <1>3, <1>6, <1>9 DEF RetainedInv, MapCurrent
  <2> QED BY <1>6, <1>7, <1>9, <2>1, <2>2 DEF RetainedInv
<1>10. CASE ResubToken \/ \E t \in Topics : Resub(t)
  <2>1. /\ onConnectNext /\ handler' \in {"resub", "subToken"}
        /\ UNCHANGED <<retainedMessages, brokerRetained>>
    BY <1>10 DEF onConnectNext, Resub, ResubToken
  <2>2. handler' \notin Pub BY <2>1 DEF Pub
  <2>3. \A u \in Topics \ exempt : BrokerCurrent(u)'
    BY <1>2, <1>6, <2>1 DEF RetainedInv, BrokerCurrent, Resubscribing
  <2> QED BY <1>9, <2>1, <2>2, <2>3
<1>11. CASE RepubStart
  <2>1. /\ onConnectNext /\ handler' = "repub"
        /\ todo' = {t \in Topics : retainedMessages[t] # Empty}
        /\ UNCHANGED <<retainedMessages, brokerRetained>>
    BY <1>11 DEF onConnectNext, RepubStart
  <2>2. ASSUME NEW u \in Topics \ exempt PROVE BrokerCurrent(u)'
    <3>1. latest[u] # Empty => u \in todo' BY <1>8, <2>1 DEF RetainedInv, MapCurrent
    <3> QED BY <1>2, <1>6, <2>1, <3>1 DEF RetainedInv, BrokerCurrent, Republishing
  <2> QED BY <1>9, <2>1, <2>2 DEF Pub
<1>12. ASSUME NEW t \in Topics, Repub(t) PROVE RetainedInv'
  <2>1. onConnectNext BY <1>12 DEF onConnectNext
  <2>2. handler = "repub" /\ todo' = todo \ {t} /\ UNCHANGED retainedMessages
    BY <1>12 DEF Repub
  <2>3. t \notin exempt => /\ latest[t] # Empty => retainedMessages[t] = latest[t]
                           /\ cleared[t] = "map" => retainedMessages[t] = Empty
    BY <1>8, <2>1 DEF RetainedInv, MapCurrent
  <2>4. cleared[t] # "sync" /\ cleared \in [Topics -> {"no", "map", "sync"}]
    BY <1>1, <2>2 DEF RetainedInv, LatestKnown, TypeOK
  <2>5. CASE retainedMessages[t] = Empty
    <3>1. UNCHANGED <<handler, item, brokerRetained>> BY <1>12, <2>5 DEF Repub
    <3>2. \A u \in Topics \ exempt : BrokerCurrent(u)'
      BY <1>2, <1>6, <2>1, <2>2, <2>3, <2>5, <3>1
         DEF RetainedInv, BrokerCurrent, NoUp, Resubscribing, Republishing
    <3> QED BY <1>9, <2>1, <2>2, <3>1, <3>2 DEF Pub
  <2>6. CASE retainedMessages[t] # Empty
    <3>1. /\ handler' = "pubToken" /\ item' = [topic |-> t, payload |-> retainedMessages[t]]
          /\ brokerRetained' = IF link THEN [brokerRetained EXCEPT ![t] = retainedMessages[t]]
                               ELSE brokerRetained
      BY <1>12, <2>6 DEF Repub, Retained
    <3>2. /\ \A u \in Topics \ {t} : brokerRetained'[u] = brokerRetained[u]
          /\ brokerRetained'[t] = IF link THEN retainedMessages[t] ELSE brokerRetained[t]
      BY <1>1, <3>1 DEF TypeOK
    <3>3. ASSUME NEW u \in Topics \ exempt PROVE BrokerCurrent(u)'
      <4>1. CASE u = t
        BY <1>2, <1>6, <2>1, <2>3, <2>4, <2>6, <3>2, <4>1 DEF RetainedInv, BrokerCurrent
      <4>2. CASE u # t
        BY <1>2, <1>6, <2>1, <2>2, <3>1, <3>2, <4>2
           DEF RetainedInv, BrokerCurrent, NoUp, Resubscribing, Republishing
      <4> QED BY <4>1, <4>2
    <3> QED BY <1>9, <2>1, <2>2, <3>1, <3>3
  <2> QED BY <2>5, <2>6
<1>13. CASE RepubToken \/ RepubMap \/ onConnectDone
  <2>1. onConnectNext /\ UNCHANGED <<todo, brokerRetained>> /\ Republishing
    BY <1>13 DEF onConnectNext, RepubToken, RepubMap, onConnectDone, Republishing
  <2>2. /\ handler' \in {"pubMap", "repub"} \/ todo = {}
        /\ handler' \in Pub => UNCHANGED <<item, retainedMessages>> /\ handler \in Pub
    BY <1>13 DEF RepubToken, RepubMap, onConnectDone, Pub
  <2>3. \A u \in Topics \ exempt : BrokerCurrent(u)'
    BY <1>2, <1>6, <2>1, <2>2 DEF RetainedInv, BrokerCurrent, NoUp, Resubscribing, Republishing
  <2>4. \A u \in Topics \ exempt : retainedMessages'[u] = retainedMessages[u]
    <3>1. CASE RepubMap
      <4>1. /\ retainedMessages' = [retainedMessages EXCEPT ![item.topic] = item.payload]
            /\ handler \in Pub
        BY <3>1 DEF RepubMap, Remembered, Pub
      <4>2. item.topic \notin exempt => item.payload = retainedMessages[item.topic]
        BY <4>1 DEF RetainedInv, OverlapKnown
      <4>3. retainedMessages \in [Topics -> Values] BY <1>1 DEF TypeOK, Values
      <4> QED BY <4>1, <4>2, <4>3
    <3>2. CASE RepubToken \/ onConnectDone BY <3>2 DEF RepubToken, onConnectDone
    <3> QED BY <1>13, <3>1, <3>2
  <2>5. OverlapKnown' BY <1>2, <1>6, <2>1, <2>2 DEF RetainedInv, OverlapKnown
  <2>6. \A u \in Topics \ exempt : MapCurrent(u)'
    BY <1>2, <1>3, <1>6, <2>1, <2>4 DEF RetainedInv, MapCurrent
  <2> QED BY <1>6, <1>7, <2>1, <2>3, <2>5, <2>6 DEF RetainedInv
<1> QED BY <1>4, <1>5, <1>10, <1>11, <1>12, <1>13 DEF HandlerNext, onConnectNext

(* Start(), Stop() and the network.                                        *)
LEMMA ConnectionRetained ==
  ASSUME TypeInv, RetainedInv, Start \/ Stop \/ StopReceived \/ ReceiveToken \/ WaitToken \/ Lose \/ Reconnect
  PROVE  RetainedInv'
<1> USE DEF clientVars, handlerVars, threadVars, brokerVars
<1>1. TypeOK BY DEF TypeInv
<1>2. UNCHANGED <<pc, arg, handler, todo, item, exempt, latest, cleared, retainedMessages>>
  BY DEF Start, Stop, StopReceived, ReceiveToken, WaitToken, Lose, Reconnect
<1>3. \A u : At(u, Pub)' <=> At(u, Pub) BY <1>2 DEF At
<1>4. OverlapKnown' /\ LatestKnown' BY <1>2, <1>3 DEF RetainedInv, OverlapKnown, LatestKnown
<1>5. \A u \in Topics \ exempt : MapCurrent(u)' BY <1>2, <1>3 DEF RetainedInv, MapCurrent
<1>6. CASE Start \/ Reconnect
  <2>1. events' = Append(events, "up") /\ UNCHANGED brokerRetained BY <1>6 DEF Start, Reconnect
  <2>2. ~NoUp' BY <1>1, <2>1, EventAppended DEF NoUp
  <2>3. \A u \in Topics \ exempt : BrokerCurrent(u)' BY <1>2, <2>1, <2>2 DEF RetainedInv, BrokerCurrent
  <2> QED BY <1>2, <1>4, <1>5, <2>3 DEF RetainedInv
<1>7. CASE Stop \/ Lose
  <2>1. link' = FALSE BY <1>7 DEF Stop, Lose
  <2>2. \A u \in Topics : brokerRetained'[u] = brokerRetained[u] \/ brokerRetained'[u] = Empty
    BY <1>7 DEF Stop, Lose
  <2>3. \A u \in Topics \ exempt : BrokerCurrent(u)' BY <1>2, <2>1, <2>2 DEF RetainedInv, BrokerCurrent
  <2> QED BY <1>2, <1>4, <1>5, <2>3 DEF RetainedInv
<1>8. CASE StopReceived \/ ReceiveToken \/ WaitToken
  BY <1>8, RetainedUnchanged DEF StopReceived, ReceiveToken, WaitToken
<1> QED BY <1>6, <1>7, <1>8

(* The invariant of the retained messages.                                 *)
LEMMA RetainedInvariant == Spec => []RetainedInv
<1>1. Init => RetainedInv
  BY ClientAssumption DEF Init, RetainedInv, OverlapKnown, LatestKnown, MapCurrent, BrokerCurrent, At, Pub
<1>2. RetainedInv /\ UNCHANGED vars => RetainedInv'
  BY RetainedUnchanged DEF vars, clientVars, handlerVars, threadVars, brokerVars
<1>3. TypeInv /\ RetainedInv /\ [Next]_vars => RetainedInv'
  BY <1>2, CallsRetained, ContinueRetained, HandlerRetained, ConnectionRetained DEF Next
<1> QED BY <1>1, <1>3, TypeInvariant, PTL DEF Spec

(* At rest the broker has the last retained message of every topic whose   *)
(* Publish overlapped no onConnect, after any number of losses, one of     *)
(* which may have emptied the broker, and whatever order the handlers of   *)
(* Start and of the library ran in.                                        *)
THEOREM RetainedKept == Spec => []RetainedRestored
<1>1. RetainedInv => RetainedRestored
  <2> SUFFICES ASSUME RetainedInv, Quiet, NEW t \in Topics \ exempt, latest[t] # Empty
               PROVE  brokerRetained[t] = latest[t]
    BY DEF RetainedRestored
  <2>1. link /\ handler = "idle" /\ NoUp BY DEF Quiet, NoUp
  <2> QED BY <2>1 DEF RetainedInv, BrokerCurrent, Resubscribing, Republishing
<1> QED BY <1>1, RetainedInvariant, PTL

(* What the broker was told to forget it does not get back from onConnect: *)
(* Publish deletes the message from retainedMessages as well.              *)
THEOREM ClearedForGood == Spec => []ClearedStaysCleared
<1>1. RetainedInv => ClearedStaysCleared BY DEF RetainedInv, BrokerCurrent, ClearedStaysCleared
<1> QED BY <1>1, RetainedInvariant, PTL
=============================================================================
