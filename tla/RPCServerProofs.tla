--------------------------- MODULE RPCServerProofs ---------------------------
(***************************************************************************)
(* Proofs about module RPCServer, for any services, requests, results of   *)
(* methods and capacities of the two queues.                               *)
(***************************************************************************)
EXTENDS RPCServer, SequenceTheorems, TLAPS

Requests == Scenarios[scenario].requests

(* A method that is published can be located, and stays so.                *)
AdvertInv ==
  /\ DOMAIN serviceMap = Names
  /\ adverts \cup todo \subseteq Names \X MethodNames
  /\ AdvertisedIsCallable

(* The goroutine of processMessages() is there once Start() has returned,  *)
(* and Start() runs once.                                                  *)
StartInv == /\ ~active \/ starting # "idle" => proc = "none"
            /\ starting # "idle" => active

(* Messages are numbered as they are delivered: those up to cur were taken *)
(* from the queue, the following ones are in it, the one after them is in  *)
(* the callback.                                                           *)
QueueInv ==
  /\ cur \in Nat /\ messageCh \in Seq(Nat)
  /\ router \in {0, Len(received)}
  /\ \A i \in DOMAIN messageCh : messageCh[i] = cur + i
  /\ Len(received) = cur + Len(messageCh) + (IF router = 0 THEN 0 ELSE 1)

(* the messages that are done with                                         *)
LastDone == IF proc = "handle" THEN cur - 1 ELSE cur

Reply == [n: Nat, id: [kind: IdKinds, value: Int], kind: {"result", "extended", "error"},
          code: Int]

(* All messages that were taken are done with, but the one being handled.  *)
DoneInv ==
  /\ proc = "handle" => cur > 0
  /\ replies \in Seq(Reply)
  /\ \A i, j \in DOMAIN replies : i < j => replies[i].n < replies[j].n
  /\ Answered \cap mute = {} /\ Answered \cup mute = 1..LastDone
  /\ called \subseteq 1..cur
  /\ proc = "handle" /\ ~crashed => cur \notin called

Scenery == scenario \in DOMAIN Scenarios /\ received \in Seq(Requests)

ServerInv ==
  /\ Scenery /\ StartInv /\ QueueInv /\ DoneInv

ReservedCodes == -32700..-32000

(* ReplyFits, of one reply to the request req; ran says whether a method   *)
(* was called for it.                                                      *)
Fits(reply, req, ran) ==
  LET valid == req.json # "bad" /\ req.id.kind \in {"string", "integer"}
      exact == req.id.kind = "integer" => req.id.value <= FLOAT_EXACT
  IN /\ valid /\ exact => reply.id = req.id
     /\ ~valid => reply.id = NullId
     /\ req.json = "bad" => reply.code = parseError
     /\ ~valid /\ req.json # "bad" /\ req.id.kind # "huge"
          => reply.code = invalidRequestError
     /\ valid /\ ~ran
          => \/ reply.code = methodNotFoundError
             \/ reply.code = invalidParamsError /\ req.params # "good"
     /\ ran => valid /\ req.params = "good"
     /\ reply.code \in ReservedCodes <=> ~ran

FitInv == \A i \in DOMAIN replies :
            Fits(replies[i], received[replies[i].n], replies[i].n \in called)

-----------------------------------------------------------------------------
(* Registration and the retained topics.                                   *)

LEMMA InitAdvert == Init => AdvertInv
BY DEF Init, AdvertInv, AdvertisedIsCallable

(* A name that is there is not given to other methods, and a method is     *)
(* published from the services there were when Start() began.              *)
LEMMA NextAdvert == ASSUME AdvertInv, [Next]_vars PROVE AdvertInv'
<1> USE DEF setupVars
<1>1. ASSUME UNCHANGED serviceMap,
             adverts' \cup todo' \subseteq
               adverts \cup todo \cup {a \in Names \X MethodNames : a[2] \in serviceMap[a[1]]}
      PROVE  AdvertInv'
  BY <1>1 DEF AdvertInv, AdvertisedIsCallable
<1>2. ASSUME UNCHANGED <<serviceMap, adverts, todo>> PROVE AdvertInv'
  BY <1>1, <1>2
<1>3. ASSUME NEW rcvr, NEW name, NEW useName, register(rcvr, name, useName) PROVE AdvertInv'
  <2> DEFINE sname == IF useName THEN name ELSE rcvr.type
  <2>1. /\ serviceMap[sname] = {} /\ UNCHANGED <<adverts, todo>>
        /\ serviceMap' = [serviceMap EXCEPT ![sname] = suitableMethods(rcvr)]
    BY <1>3 DEF register, AlreadyDefined
  <2> HIDE DEF sname
  <2>2. DOMAIN serviceMap' = Names BY <2>1 DEF AdvertInv
  <2>3. ASSUME NEW a \in adverts \cup todo PROVE a[2] \in serviceMap'[a[1]]
    <3>1. a[1] \in Names /\ a[2] \in serviceMap[a[1]] BY DEF AdvertInv, AdvertisedIsCallable
    <3>2. a[1] # sname BY <2>1, <3>1
    <3> QED BY <2>1, <3>1, <3>2 DEF AdvertInv
  <2> QED BY <2>1, <2>2, <2>3 DEF AdvertInv, AdvertisedIsCallable
<1>4. CASE Start
  <2>1. /\ todo' = {a \in Names \X MethodNames : a[2] \in serviceMap[a[1]]}
        /\ UNCHANGED <<serviceMap, adverts>>
    BY <1>4 DEF Start
  <2>2. \A a \in todo' : a \in Names \X MethodNames /\ a[2] \in serviceMap[a[1]] BY <2>1
  <2> QED BY <1>1, <2>1, <2>2
<1>5. ASSUME NEW s \in Names, NEW m \in MethodNames, StartPublish(s, m) PROVE AdvertInv'
  <2>1. <<s, m>> \in todo /\ adverts' = adverts \cup {<<s, m>>} /\ todo' = todo \ {<<s, m>>}
        /\ UNCHANGED serviceMap
    BY <1>5 DEF StartPublish
  <2> QED BY <1>1, <2>1
<1>6. CASE StartToken \/ StartDone BY <1>2, <1>6 DEF StartToken, StartDone
<1>7. CASE Stop BY <1>2, <1>7 DEF Stop
<1>8. CASE (\E req \in Requests : Deliver(req)) \/ Callback \/ WaitToken \/ Ack
  BY <1>2, <1>8 DEF Deliver, Callback, WaitToken, Ack
<1>9. CASE Quit \/ Receive \/ handleMessage \/ ReplyToken
  BY <1>2, <1>9 DEF Quit, Receive, handleMessage, handleRejected, handleCalled, ReplyToken
<1>10. CASE UNCHANGED vars BY <1>2, <1>10 DEF vars
<1> QED BY <1>3, <1>4, <1>5, <1>6, <1>7, <1>8, <1>9, <1>10 DEF Next, StartNext, Requests

(* Whatever is registered while and after Start() publishes the topics, a  *)
(* method that is, or is about to be, advertised can be located.           *)
THEOREM AdvertsHold == Spec => []AdvertisedIsCallable
<1>1. AdvertInv => AdvertisedIsCallable BY DEF AdvertInv
<1> QED BY <1>1, InitAdvert, NextAdvert, PTL DEF Spec

-----------------------------------------------------------------------------
(* The queue and the messages that are done with.                          *)

LEMMA InitServer == Init => ServerInv
<1> SUFFICES ASSUME Init PROVE ServerInv OBVIOUS
<1>1. <<>> \in Seq(Requests) /\ <<>> \in Seq(Nat) /\ <<>> \in Seq(Reply) /\ Len(<<>>) = 0
  OBVIOUS
<1>2. Answered = {} /\ LastDone = 0 BY DEF Init, Answered, LastDone
<1>3. 1..0 = {} OBVIOUS
<1> QED BY <1>1, <1>2, <1>3 DEF Init, ServerInv, Scenery, StartInv, QueueInv, DoneInv

(* A sequence without one of its elements.                                *)
LEMMA RemoveAtIs ==
  ASSUME NEW S, NEW s \in Seq(S), NEW i \in DOMAIN s
  PROVE  /\ RemoveAt(s, i) \in Seq(S) /\ Len(RemoveAt(s, i)) = Len(s) - 1
         /\ \A k \in 1..(Len(s) - 1) : RemoveAt(s, i)[k] = IF k < i THEN s[k] ELSE s[k + 1]
<1> DEFINE l == SubSeq(s, 1, i - 1)
           r == SubSeq(s, i + 1, Len(s))
<1>1. Len(s) \in Nat /\ i \in 1..Len(s) OBVIOUS
<1>2. /\ l \in Seq(S) /\ Len(l) = i - 1 /\ \A k \in 1..(i - 1) : l[k] = s[k]
  BY <1>1
<1>3. /\ r \in Seq(S) /\ Len(r) = Len(s) - i
      /\ \A k \in 1..(Len(s) - i) : r[k] = s[i + k]
  BY <1>1
<1> HIDE DEF l, r
<1> DEFINE c == l \o r
<1>4. /\ c \in Seq(S) /\ Len(c) = Len(l) + Len(r)
      /\ \A k \in 1..(Len(l) + Len(r)) : c[k] = IF k <= Len(l) THEN l[k] ELSE r[k - Len(l)]
  BY <1>2, <1>3, ConcatProperties
<1> HIDE DEF c
<1>5. ASSUME NEW k \in 1..(Len(s) - 1) PROVE c[k] = IF k < i THEN s[k] ELSE s[k + 1]
  <2>1. k \in 1..(Len(l) + Len(r)) BY <1>1, <1>2, <1>3
  <2>2. c[k] = IF k <= Len(l) THEN l[k] ELSE r[k - Len(l)] BY <1>4, <2>1
  <2>3. CASE k < i BY <1>1, <1>2, <2>2, <2>3
  <2>4. CASE ~(k < i)
    <3>1. k - Len(l) \in 1..(Len(s) - i) /\ i + (k - Len(l)) = k + 1 BY <1>1, <1>2, <2>4
    <3>2. c[k] = r[k - Len(l)] BY <1>1, <1>2, <2>2, <2>4
    <3> QED BY <1>3, <2>4, <3>1, <3>2
  <2> QED BY <2>3, <2>4
<1>6. RemoveAt(s, i) = c BY DEF RemoveAt, c, l, r
<1> QED BY <1>1, <1>2, <1>3, <1>4, <1>5, <1>6

(* A sequence with one element more.                                       *)
LEMMA OneMore ==
  ASSUME NEW S, NEW s \in Seq(S), NEW x \in S
  PROVE  /\ Append(s, x) \in Seq(S) /\ Len(Append(s, x)) = Len(s) + 1
         /\ DOMAIN Append(s, x) = DOMAIN s \cup {Len(s) + 1}
         /\ Append(s, x)[Len(s) + 1] = x
         /\ \A k \in DOMAIN s : Append(s, x)[k] = s[k]
         /\ DOMAIN s = 1..Len(s)
OBVIOUS

(* Steps that move no message.                                             *)
LEMMA ServerUnchanged ==
  ASSUME ServerInv, StartInv',
         UNCHANGED <<scenario, received, cur, messageCh, router, replies, called, mute>>,
         proc' = "handle" <=> proc = "handle", ~crashed' => ~crashed
  PROVE  ServerInv'
<1>1. Answered' = Answered /\ LastDone' = LastDone BY DEF Answered, LastDone
<1> QED BY <1>1 DEF ServerInv, Scenery, Requests, QueueInv, DoneInv

(* Start(), Stop(), registration and the tokens.                           *)
LEMMA SetupServer ==
  ASSUME ServerInv,
         \/ \E rcvr, name, useName : register(rcvr, name, useName)
         \/ Start \/ StartNext \/ Stop \/ WaitToken \/ Ack \/ Quit \/ ReplyToken
  PROVE  ServerInv'
<1> USE DEF setupVars, clientVars, replyVars
<1>1. ASSUME NEW rcvr, NEW name, NEW useName, register(rcvr, name, useName) PROVE ServerInv'
  BY <1>1, ServerUnchanged DEF register, ServerInv, StartInv
<1>2. CASE Start BY <1>2, ServerUnchanged DEF Start, ServerInv, StartInv
<1>3. CASE StartNext
  <2>1. UNCHANGED <<scenario, received, cur, messageCh, router, replies, called, mute, crashed>>
    BY <1>3 DEF StartNext, StartToken, StartDone, StartPublish
  <2>2. proc = "none" /\ active /\ proc' # "handle"
    BY <1>3 DEF StartNext, StartToken, StartDone, StartPublish, ServerInv, StartInv
  <2>3. StartInv'
    BY <1>3, <2>2 DEF StartNext, StartToken, StartDone, StartPublish, StartInv
  <2> QED BY <2>1, <2>2, <2>3, ServerUnchanged
<1>4. CASE Stop BY <1>4, ServerUnchanged DEF Stop, ServerInv, StartInv
<1>5. CASE WaitToken \/ Ack BY <1>5, ServerUnchanged DEF WaitToken, Ack, ServerInv, StartInv
<1>6. CASE Quit \/ ReplyToken
  BY <1>6, ServerUnchanged DEF Quit, Return, ReplyToken, Loop, ServerInv, StartInv
<1> QED BY <1>1, <1>2, <1>3, <1>4, <1>5, <1>6

(* A message is delivered, queued, taken.                                  *)
LEMMA MoveServer ==
  ASSUME ServerInv, (\E req \in Requests : Deliver(req)) \/ Callback \/ Receive
  PROVE  ServerInv'
<1> USE DEF setupVars, clientVars, replyVars
<1>1. /\ cur \in Nat /\ messageCh \in Seq(Nat) /\ received \in Seq(Requests)
      /\ Len(messageCh) \in Nat /\ Len(received) \in Nat
  BY DEF ServerInv, QueueInv, Scenery
<1>2. UNCHANGED <<scenario, active, starting, replies, called, mute, crashed>>
  BY DEF Deliver, Callback, Receive
<1>3. Requests' = Requests /\ Answered' = Answered BY <1>2 DEF Requests, Answered
<1>4. ASSUME NEW req \in Requests, Deliver(req) PROVE ServerInv'
  <2>1. /\ router = 0 /\ received' = Append(received, req) /\ router' = Len(received) + 1
        /\ UNCHANGED <<proc, cur, messageCh>>
    BY <1>4 DEF Deliver
  <2>2. received' \in Seq(Requests) /\ Len(received') = Len(received) + 1 BY <1>1, <2>1, OneMore
  <2>3. QueueInv' BY <1>1, <2>1, <2>2 DEF ServerInv, QueueInv
  <2>4. StartInv' /\ LastDone' = LastDone BY <1>2, <2>1 DEF ServerInv, StartInv, LastDone
  <2>5. DoneInv' BY <1>2, <1>3, <2>1, <2>4 DEF ServerInv, DoneInv
  <2> QED BY <1>2, <1>3, <2>2, <2>3, <2>4, <2>5 DEF ServerInv, Scenery
<1>5. CASE Callback
  <2>1. /\ router # 0 /\ messageCh' = Append(messageCh, router) /\ router' = 0
        /\ UNCHANGED <<proc, cur, received>>
    BY <1>5 DEF Callback
  <2>2. router = Len(received) /\ router = cur + Len(messageCh) + 1
    BY <1>1, <2>1 DEF ServerInv, QueueInv
  <2>3. /\ messageCh' \in Seq(Nat) /\ Len(messageCh') = Len(messageCh) + 1
        /\ DOMAIN messageCh' = DOMAIN messageCh \cup {Len(messageCh) + 1}
        /\ messageCh'[Len(messageCh) + 1] = router
        /\ \A k \in DOMAIN messageCh : messageCh'[k] = messageCh[k]
    BY <1>1, <2>1, <2>2, OneMore
  <2>4. ASSUME NEW i \in DOMAIN messageCh' PROVE messageCh'[i] = cur + i
    <3>1. CASE i \in DOMAIN messageCh BY <2>3, <3>1 DEF ServerInv, QueueInv
    <3>2. CASE i = Len(messageCh) + 1 BY <1>1, <2>2, <2>3, <3>2
    <3> QED BY <2>3, <3>1, <3>2
  <2>5. QueueInv' BY <1>1, <2>1, <2>2, <2>3, <2>4 DEF QueueInv
  <2>6. StartInv' /\ LastDone' = LastDone BY <1>2, <2>1 DEF ServerInv, StartInv, LastDone
  <2>7. DoneInv' BY <1>2, <1>3, <2>1, <2>6 DEF ServerInv, DoneInv
  <2> QED BY <1>2, <1>3, <2>1, <2>5, <2>6, <2>7 DEF ServerInv, Scenery
<1>6. CASE Receive
  <2>1. /\ proc = "select" /\ proc' = "handle" /\ messageCh # <<>>
        /\ cur' = messageCh[1] /\ messageCh' = RemoveAt(messageCh, 1)
        /\ UNCHANGED <<received, router>>
    BY <1>6 DEF Receive, First
  <2>2. /\ messageCh' \in Seq(Nat) /\ Len(messageCh') = Len(messageCh) - 1
        /\ \A k \in 1..(Len(messageCh) - 1) : messageCh'[k] = messageCh[k + 1]
    <3>1. 1 \in DOMAIN messageCh BY <1>1, <2>1
    <3>2. \A k \in 1..(Len(messageCh) - 1) : ~(k < 1) BY <1>1
    <3> QED BY <1>1, <2>1, <3>1, <3>2, RemoveAtIs
  <2>3. 1 \in DOMAIN messageCh /\ DOMAIN messageCh = 1..Len(messageCh)
        /\ DOMAIN messageCh' = 1..(Len(messageCh) - 1)
    BY <1>1, <2>1, <2>2
  <2>4. cur' = cur + 1 BY <2>1, <2>3 DEF ServerInv, QueueInv
  <2>5. ASSUME NEW k \in DOMAIN messageCh' PROVE messageCh'[k] = cur' + k
    <3>1. k + 1 \in DOMAIN messageCh /\ k \in Nat BY <1>1, <2>3
    <3>2. messageCh'[k] = cur + (k + 1) BY <2>2, <2>3, <3>1 DEF ServerInv, QueueInv
    <3> QED BY <1>1, <2>4, <3>1, <3>2
  <2>6. QueueInv'
    <3>1. router \in {0, Len(received)} /\
          Len(received) = cur + Len(messageCh) + (IF router = 0 THEN 0 ELSE 1)
      BY DEF ServerInv, QueueInv
    <3>2. cur' \in Nat /\ cur' + Len(messageCh') = cur + Len(messageCh)
      BY <1>1, <2>2, <2>4
    <3> QED BY <2>1, <2>2, <2>5, <3>1, <3>2 DEF QueueInv
  <2>7. StartInv' BY <1>2, <2>1 DEF ServerInv, StartInv
  <2>8. LastDone' = LastDone BY <1>1, <2>1, <2>4 DEF LastDone
  <2>9. called \subseteq 1..cur' /\ cur' \notin called BY <1>1, <2>4 DEF ServerInv, DoneInv
  <2>10. DoneInv' BY <1>1, <1>2, <1>3, <2>4, <2>8, <2>9 DEF ServerInv, DoneInv
  <2> QED BY <1>2, <1>3, <2>1, <2>6, <2>7, <2>10 DEF ServerInv, Scenery
<1> QED BY <1>4, <1>5, <1>6

(* a payload that is JSON with an id that is a string or an integer        *)
Valid(req) == req.json # "bad" /\ req.id.kind \in {"string", "integer"}

(* What parseRequest and parseMessage give, by the kinds of wrong payload. *)
LEMMA ParseRequestIs ==
  ASSUME NEW req, req.id.kind \in IdKinds, NEW b \in BOOLEAN
  PROVE  /\ Valid(req) => /\ parseRequest(req, b).id = Decoded(req.id)
                          /\ parseRequest(req, b).err =
                               IF b /\ req.params # "good" THEN invalidParamsError ELSE noError
         /\ ~Valid(req) =>
              /\ parseRequest(req, b).id = NullId
              /\ parseRequest(req, b).err =
                   IF req.json = "bad" \/ req.id.kind = "huge" THEN parseError
                   ELSE invalidRequestError
<1>1. CASE req.json = "bad" BY <1>1, Zenon DEF parseRequest, Valid
<1>2. CASE req.json # "bad" /\ req.id.kind \in {"absent", "null"}
  <2>1. parseRequest(req, b) = [id |-> NullId, err |-> invalidRequestError]
    BY <1>2, Zenon DEF parseRequest
  <2> QED BY <1>2, <2>1 DEF Valid
<1>3. CASE req.json # "bad" /\ req.id.kind = "huge"
  <2>1. req.id.kind \notin {"absent", "null"} BY <1>3
  <2>2. parseRequest(req, b) = [id |-> NullId, err |-> parseError]
    BY <1>3, <2>1, Zenon DEF parseRequest
  <2> QED BY <1>3, <2>2 DEF Valid
<1>4. CASE req.json # "bad" /\ req.id.kind \in {"fraction", "other"}
  <2>1. /\ req.id.kind \notin {"absent", "null"} /\ req.id.kind # "huge"
        /\ ~validateId(req.id)
    BY <1>4 DEF validateId
  <2>2. parseRequest(req, b) = [id |-> NullId, err |-> invalidRequestError]
    BY <1>4, <2>1, Zenon DEF parseRequest
  <2> QED BY <1>4, <2>2 DEF Valid
<1>5. CASE Valid(req)
  <2>1. /\ req.json # "bad" /\ req.id.kind \notin {"absent", "null"} /\ req.id.kind # "huge"
        /\ validateId(req.id)
    BY <1>5 DEF Valid, validateId
  <2>2. parseRequest(req, b) = [id |-> Decoded(req.id), err |->
                                IF b /\ req.params # "good" THEN invalidParamsError ELSE noError]
    <3>1. CASE ~b BY <2>1, <3>1, Zenon DEF parseRequest
    <3>2. CASE b /\ req.params # "good" BY <2>1, <3>2, Zenon DEF parseRequest
    <3>3. CASE b /\ req.params = "good" BY <2>1, <3>3, Zenon DEF parseRequest
    <3> QED BY <3>1, <3>2, <3>3
  <2> QED BY <1>5, <2>2
<1> QED BY <1>1, <1>2, <1>3, <1>4, <1>5 DEF IdKinds, Valid

LEMMA ParseMessageIs ==
  ASSUME NEW req, req.id.kind \in IdKinds
  PROVE  /\ Valid(req) => /\ parseMessage(req).id = Decoded(req.id)
                          /\ \/ parseMessage(req).err = noError /\ req.params = "good"
                             \/ parseMessage(req).err = invalidParamsError /\ req.params # "good"
                             \/ parseMessage(req).err = methodNotFoundError
         /\ ~Valid(req) =>
              /\ parseMessage(req).id = NullId
              /\ parseMessage(req).err =
                   IF req.json = "bad" \/ req.id.kind = "huge" THEN parseError
                   ELSE invalidRequestError
<1>1. CASE locateMethod(req)
  <2>1. parseMessage(req) = parseRequest(req, TRUE) BY <1>1 DEF parseMessage
  <2> QED BY <2>1, ParseRequestIs
<1>2. CASE ~locateMethod(req)
  <2> DEFINE p == parseRequest(req, FALSE)
  <2>1. parseMessage(req) = IF p.err # noError THEN p ELSE [p EXCEPT !.err = methodNotFoundError]
    BY <1>2 DEF parseMessage, NotFound
  <2>2. CASE Valid(req)
    <3>1. p.id = Decoded(req.id) /\ p.err = noError BY <2>2, ParseRequestIs
    <3>2. parseMessage(req) = [p EXCEPT !.err = methodNotFoundError] BY <2>1, <3>1
    <3>3. \E id, err : p = [id |-> id, err |-> err] BY DEF parseRequest
    <3> HIDE DEF p
    <3> QED BY <2>2, <3>1, <3>2, <3>3
  <2>3. CASE ~Valid(req)
    <3>1. p.id = NullId /\ p.err = IF req.json = "bad" \/ req.id.kind = "huge" THEN parseError
                                   ELSE invalidRequestError
      BY <2>3, ParseRequestIs
    <3> HIDE DEF p
    <3>2. parseError # noError /\ invalidRequestError # noError
      BY DEF parseError, invalidRequestError, noError
    <3>3. p.err # noError BY <3>1, <3>2
    <3> QED BY <2>1, <2>3, <3>1, <3>3
  <2> QED BY <2>2, <2>3
<1> QED BY <1>1, <1>2

LEMMA ParsedTyped ==
  ASSUME NEW req, req.id \in [kind: IdKinds, value: Nat]
  PROVE  parseMessage(req).id \in [kind: IdKinds, value: Int] /\ parseMessage(req).err \in Int
<1>1. Decoded(req.id) \in [kind: IdKinds, value: Int]
  <2>1. Float64(req.id.value) \in Int BY DEF Float64
  <2> QED BY <2>1 DEF Decoded
<1>2. NullId \in [kind: IdKinds, value: Int] BY DEF NullId, IdKinds
<1>3. /\ parseError \in Int /\ invalidRequestError \in Int /\ methodNotFoundError \in Int
      /\ invalidParamsError \in Int /\ noError \in Int
  BY DEF parseError, invalidRequestError, methodNotFoundError, invalidParamsError, noError
<1> QED BY <1>1, <1>2, <1>3, ParseMessageIs

(* The request being handled.                                              *)
LEMMA HandledIs ==
  ASSUME ServerInv, proc = "handle"
  PROVE  /\ cur \in 1..Len(received) /\ received[cur] \in Requests
         /\ received[cur].id \in [kind: IdKinds, value: Nat]
<1>1. /\ cur \in Nat /\ cur > 0 /\ Len(messageCh) \in Nat /\ received \in Seq(Requests)
      /\ Len(received) = cur + Len(messageCh) + (IF router = 0 THEN 0 ELSE 1)
  BY DEF ServerInv, QueueInv, DoneInv, Scenery
<1>2. cur \in 1..Len(received) BY <1>1
<1>3. received[cur] \in Requests BY <1>1, <1>2
<1> QED BY <1>2, <1>3, RequestAssumption DEF Requests, ServerInv, Scenery

(* A reply is appended.                                                    *)
LEMMA AnswerIs ==
  ASSUME ServerInv, proc = "handle", NEW r \in Reply, r.n = cur, replies' = Append(replies, r)
  PROVE  /\ replies' \in Seq(Reply) /\ Answered' = Answered \cup {cur}
         /\ DOMAIN replies' = DOMAIN replies \cup {Len(replies) + 1}
         /\ replies'[Len(replies) + 1] = r /\ \A i \in DOMAIN replies : replies'[i] = replies[i]
         /\ \A i, j \in DOMAIN replies' : i < j => replies'[i].n < replies'[j].n
<1>1. replies \in Seq(Reply) /\ cur \in Nat BY DEF ServerInv, DoneInv, QueueInv
<1>2. /\ replies' \in Seq(Reply) /\ DOMAIN replies' = DOMAIN replies \cup {Len(replies) + 1}
      /\ replies'[Len(replies) + 1] = r /\ \A i \in DOMAIN replies : replies'[i] = replies[i]
      /\ DOMAIN replies = 1..Len(replies) /\ Len(replies) \in Nat
  BY <1>1, OneMore
<1>3. \A i \in DOMAIN replies : replies[i].n < cur
  <2> SUFFICES ASSUME NEW i \in DOMAIN replies PROVE replies[i].n < cur OBVIOUS
  <2>1. replies[i].n \in 1..(cur - 1) BY DEF ServerInv, DoneInv, Answered, LastDone
  <2> QED BY <1>1, <2>1
<1>4. Answered' = Answered \cup {cur} BY <1>2 DEF Answered
<1>5. ASSUME NEW i \in DOMAIN replies', NEW j \in DOMAIN replies', i < j
      PROVE  replies'[i].n < replies'[j].n
  <2>1. i \in DOMAIN replies BY <1>2, <1>5
  <2>2. CASE j \in DOMAIN replies BY <1>2, <1>5, <2>1, <2>2 DEF ServerInv, DoneInv
  <2>3. CASE j = Len(replies) + 1 BY <1>2, <1>3, <2>1, <2>3
  <2> QED BY <1>2, <2>2, <2>3
<1> QED BY <1>2, <1>4, <1>5

(* The request is answered, or the method is called: the message is done   *)
(* with unless the server panics.                                          *)
LEMMA HandleServer ==
  ASSUME ServerInv, handleMessage
  PROVE  ServerInv'
<1> USE DEF setupVars, clientVars
<1> DEFINE parsed == parseMessage(received[cur])
<1>1. /\ proc = "handle" /\ starting = "idle" /\ ~crashed
      /\ UNCHANGED <<scenario, active, starting, received, router, cur, messageCh>>
  BY DEF handleMessage, handleRejected, handleCalled, Handling
<1>2. Scenery' /\ QueueInv' /\ cur \in Nat /\ cur > 0
  BY <1>1 DEF ServerInv, Scenery, Requests, QueueInv, DoneInv
<1>3. active /\ StartInv' BY <1>1 DEF ServerInv, StartInv
<1>4. /\ Answered \cap mute = {} /\ Answered \cup mute = 1..(cur - 1) /\ called \subseteq 1..cur
  BY <1>1 DEF ServerInv, DoneInv, LastDone
<1>5. cur \notin Answered /\ cur \notin mute /\ (1..(cur - 1)) \cup {cur} = 1..cur
  BY <1>2, <1>4
<1>6. parsed.id \in [kind: IdKinds, value: Int] /\ parsed.err \in Int
  BY <1>1, HandledIs, ParsedTyped
<1> HIDE DEF parsed
<1>7. ASSUME NEW r \in Reply, r.n = cur, replies' = Append(replies, r), UNCHANGED mute,
             proc' = "token", called' \subseteq 1..cur
      PROVE  ServerInv'
  <2>1. LastDone' = cur BY <1>1, <1>7 DEF LastDone
  <2>2. Answered' \cap mute' = {} /\ Answered' \cup mute' = 1..cur
    BY <1>1, <1>4, <1>5, <1>7, AnswerIs
  <2>3. DoneInv' BY <1>1, <1>7, <2>1, <2>2, AnswerIs DEF DoneInv
  <2> QED BY <1>2, <1>3, <2>3 DEF ServerInv
<1>8. CASE handleRejected
  <2>1. /\ replies' = Append(replies, [n |-> cur, id |-> parsed.id, kind |-> "error",
                                       code |-> parsed.err])
        /\ UNCHANGED <<mute, called>> /\ proc' = "token"
    BY <1>8 DEF handleRejected, Answer, Rejection, parsed
  <2>2. [n |-> cur, id |-> parsed.id, kind |-> "error", code |-> parsed.err] \in Reply
    BY <1>2, <1>6 DEF Reply
  <2> QED BY <1>4, <1>7, <2>1, <2>2
<1>9. ASSUME NEW o \in Scenarios[scenario].outcomes, handleCalled(o) PROVE ServerInv'
  <2>1. called' = called \cup {cur} BY <1>9 DEF handleCalled
  <2>2. called' \subseteq 1..cur BY <1>2, <1>4, <2>1
  <2>3. o.code \in Int /\ o.err \in {"none", "coded", "simple"}
    BY OutcomeAssumption DEF ServerInv, Scenery
  <2>4. CASE UNCHANGED <<replies, mute, proc>> /\ crashed' = TRUE
    <3>1. Answered' = Answered /\ LastDone' = LastDone BY <1>1, <2>4 DEF Answered, LastDone
    <3>2. DoneInv' BY <1>1, <2>2, <2>4, <3>1 DEF ServerInv, DoneInv
    <3> QED BY <1>2, <1>3, <3>2 DEF ServerInv
  <2>5. CASE mute' = mute \cup {cur} /\ proc' = "select" /\ UNCHANGED replies
    <3>1. Answered' = Answered /\ LastDone' = cur BY <1>1, <2>5 DEF Answered, LastDone
    <3>2. Answered' \cap mute' = {} /\ Answered' \cup mute' = 1..cur BY <1>4, <1>5, <2>5, <3>1
    <3>3. DoneInv' BY <1>1, <2>2, <2>5, <3>1, <3>2 DEF ServerInv, DoneInv
    <3> QED BY <1>2, <1>3, <3>3 DEF ServerInv
  <2>6. CASE Answer(Response(parsed, o)) /\ proc' = "token" /\ UNCHANGED mute
    <3>1. PICK k \in {"result", "extended", "error"}, c \in Int :
            replies' = Append(replies, [n |-> cur, id |-> parsed.id, kind |-> k, code |-> c])
      BY <2>3, <2>6 DEF Answer, Response, noError
    <3>2. [n |-> cur, id |-> parsed.id, kind |-> k, code |-> c] \in Reply
      BY <1>2, <1>6 DEF Reply
    <3> QED BY <1>7, <2>2, <2>6, <3>1, <3>2
  <2> QED BY <1>9, <2>4, <2>5, <2>6 DEF handleCalled, parsed
<1> QED BY <1>8, <1>9 DEF handleMessage

LEMMA ServerInvariant == Spec => []ServerInv
<1>1. ServerInv /\ UNCHANGED vars => ServerInv'
  BY ServerUnchanged DEF vars, setupVars, clientVars, replyVars, ServerInv, StartInv
<1>2. ServerInv /\ [Next]_vars => ServerInv'
  BY <1>1, SetupServer, MoveServer, HandleServer DEF Next, Requests
<1> QED BY <1>2, InitServer, PTL DEF Spec

(* However the callbacks, the goroutine and Stop() interleave, and however *)
(* full the queue is, every delivered message is in one place, none is     *)
(* answered twice, and the replies come in the order of delivery.          *)
THEOREM HandledInOrder == Spec => []HandledOnceInOrder
<1>1. ServerInv => HandledOnceInOrder
  <2> SUFFICES ASSUME ServerInv PROVE HandledOnceInOrder OBVIOUS
  <2>1. /\ cur \in Nat /\ Len(messageCh) \in Nat /\ messageCh \in Seq(Nat)
        /\ \A i \in DOMAIN messageCh : messageCh[i] = cur + i
        /\ router \in {0, Len(received)}
        /\ Len(received) = cur + Len(messageCh) + (IF router = 0 THEN 0 ELSE 1)
    BY DEF ServerInv, QueueInv
  <2>2. /\ Answered \cap mute = {} /\ Answered \cup mute = 1..LastDone
        /\ \A i, j \in DOMAIN replies : i < j => replies[i].n < replies[j].n
        /\ proc = "handle" => cur > 0
    BY DEF ServerInv, DoneInv
  <2>3. (1..LastDone) \cup ({cur} \ {0}) = 1..cur BY <2>1, <2>2 DEF LastDone
  <2>4. DOMAIN messageCh = 1..Len(messageCh) BY <2>1
  <2>5. Waiting = (cur + 1)..Len(received)
    <3>1. ASSUME NEW w \in Waiting PROVE w \in (cur + 1)..Len(received)
      <4>1. CASE w \in {messageCh[i] : i \in DOMAIN messageCh}
        <5>1. PICK i \in 1..Len(messageCh) : w = cur + i BY <2>1, <2>4, <4>1
        <5> QED BY <2>1, <5>1
      <4>2. CASE w = router /\ router # 0 BY <2>1, <4>2
      <4> QED BY <4>1, <4>2 DEF Waiting
    <3>2. ASSUME NEW w \in (cur + 1)..Len(received) PROVE w \in Waiting
      <4>1. CASE w <= cur + Len(messageCh)
        <5>1. w - cur \in DOMAIN messageCh /\ cur + (w - cur) = w BY <2>1, <2>4, <4>1
        <5>2. messageCh[w - cur] = w BY <2>1, <5>1
        <5> QED BY <5>1, <5>2 DEF Waiting
      <4>2. CASE w > cur + Len(messageCh)
        <5>1. router # 0 /\ w = router BY <2>1, <4>2
        <5> QED BY <5>1 DEF Waiting
      <4> QED BY <2>1, <4>1, <4>2
    <3> QED BY <3>1, <3>2
  <2>6. \A n \in 1..cur : n \notin Waiting BY <2>1, <2>5
  <2>7. Answered \cup mute \subseteq 1..cur BY <2>2, <2>3
  <2>8. (Answered \cup mute) \cap Waiting = {} BY <2>6, <2>7
  <2>9. Answered \cup mute \cup Waiting \cup ({cur} \ {0}) = 1..Len(received)
    <3>1. (1..cur) \cup ((cur + 1)..Len(received)) = 1..Len(received) BY <2>1
    <3> QED BY <2>2, <2>3, <2>5, <3>1
  <2>10. \A n \in Answered \cup mute \cup {cur}, w \in Waiting : n < w
    <3>1. \A n \in (1..cur) \cup {cur}, w \in (cur + 1)..Len(received) : n < w BY <2>1
    <3> QED BY <2>5, <2>7, <3>1
  <2> QED BY <2>2, <2>8, <2>9, <2>10 DEF HandledOnceInOrder
<1> QED BY <1>1, ServerInvariant, PTL

-----------------------------------------------------------------------------
(* What a reply says.                                                      *)

(* The answer to a request that is rejected, and the answer of a method.   *)
LEMMA RejectionFits ==
  ASSUME NEW req, req.id \in [kind: IdKinds, value: Nat], NEW r,
         r.id = parseMessage(req).id, r.code = parseMessage(req).err,
         parseMessage(req).err # noError
  PROVE  Fits(r, req, FALSE)
<1>1. Valid(req) /\ (req.id.kind = "integer" => req.id.value <= FLOAT_EXACT)
        => Decoded(req.id) = req.id
  BY DEF Decoded, Float64, Valid
<1>2. /\ parseError \in ReservedCodes /\ invalidRequestError \in ReservedCodes
      /\ methodNotFoundError \in ReservedCodes /\ invalidParamsError \in ReservedCodes
  BY DEF parseError, invalidRequestError, methodNotFoundError, invalidParamsError, ReservedCodes
<1>3. Valid(req) => r.id = Decoded(req.id) /\ \/ r.code = invalidParamsError /\ req.params # "good"
                                              \/ r.code = methodNotFoundError
  BY ParseMessageIs
<1>4. ~Valid(req) => /\ r.id = NullId
                     /\ r.code = IF req.json = "bad" \/ req.id.kind = "huge" THEN parseError
                                 ELSE invalidRequestError
  BY ParseMessageIs
<1>5. r.code \in ReservedCodes
  <2>1. CASE Valid(req)
    <3>1. r.code = invalidParamsError \/ r.code = methodNotFoundError BY <1>3, <2>1
    <3> QED BY <1>2, <3>1
  <2>2. CASE ~Valid(req)
    <3>1. r.code = parseError \/ r.code = invalidRequestError BY <1>4, <2>2
    <3> QED BY <1>2, <3>1
  <2> QED BY <2>1, <2>2
<1> QED BY <1>1, <1>3, <1>4, <1>5 DEF Fits, Valid

LEMMA ResponseIs ==
  ASSUME NEW o, o.err \in {"none", "coded", "simple"}, o.code \in Int, ~Panics(o), NEW p
  PROVE  /\ Response(p, o).id = p.id
         /\ Response(p, o).kind \in {"result", "extended", "error"}
         /\ Response(p, o).code \in Int /\ Response(p, o).code \notin ReservedCodes
<1>1. Response(p, o).id = p.id BY DEF Response
<1>2. Response(p, o).kind \in {"result", "extended", "error"} BY DEF Response
<1>3. Response(p, o).code
        = (CASE o.err = "none" -> noError [] o.err = "coded" -> o.code [] OTHER -> -1)
  BY DEF Response
<1>4. CASE o.err = "coded"
  <2>1. Response(p, o).code = o.code BY <1>3, <1>4
  <2>2. o.code \notin ReservedCodes
    BY <1>4 DEF Panics, isReservedErrorCode, RPC_RESERVED_CODE_MIN, RPC_RESERVED_CODE_MAX,
                ReservedCodes
  <2> QED BY <1>1, <1>2, <2>1, <2>2
<1>5. CASE o.err # "coded"
  <2>1. Response(p, o).code = 0 \/ Response(p, o).code = -1 BY <1>3, <1>5 DEF noError
  <2> QED BY <1>1, <1>2, <2>1 DEF ReservedCodes
<1> QED BY <1>4, <1>5

LEMMA ResponseFits ==
  ASSUME NEW req, req.id \in [kind: IdKinds, value: Nat], NEW r,
         r.id = parseMessage(req).id, r.code \notin ReservedCodes,
         parseMessage(req).err = noError
  PROVE  Fits(r, req, TRUE)
<1>1. Valid(req) /\ (req.id.kind = "integer" => req.id.value <= FLOAT_EXACT)
        => Decoded(req.id) = req.id
  BY DEF Decoded, Float64, Valid
<1>2. /\ parseError # noError /\ invalidRequestError # noError
      /\ methodNotFoundError # noError /\ invalidParamsError # noError
  BY DEF parseError, invalidRequestError, methodNotFoundError, invalidParamsError, noError
<1>3. Valid(req) /\ r.id = Decoded(req.id) /\ req.params = "good"
  BY <1>2, ParseMessageIs
<1> QED BY <1>1, <1>3 DEF Fits, Valid

(* Replies that are there already go on fitting.                           *)
LEMMA OldFit ==
  ASSUME ServerInv, FitInv, NEW i \in DOMAIN replies,
         \A k \in DOMAIN received : received'[k] = received[k],
         called' \cap (1..LastDone) = called \cap (1..LastDone)
  PROVE  Fits(replies[i], received'[replies[i].n], replies[i].n \in called')
<1>1. replies[i].n \in 1..LastDone BY DEF ServerInv, DoneInv, Answered
<1>2. /\ cur \in Nat /\ Len(messageCh) \in Nat /\ received \in Seq(Requests)
      /\ Len(received) = cur + Len(messageCh) + (IF router = 0 THEN 0 ELSE 1)
      /\ LastDone <= cur /\ LastDone \in Int
  BY DEF ServerInv, QueueInv, Scenery, LastDone
<1>3. replies[i].n \in DOMAIN received BY <1>1, <1>2
<1>4. received'[replies[i].n] = received[replies[i].n] BY <1>3
<1>5. replies[i].n \in called' <=> replies[i].n \in called BY <1>1
<1>6. Fits(replies[i], received[replies[i].n], replies[i].n \in called) BY DEF FitInv
<1>7. CASE replies[i].n \in called BY <1>4, <1>5, <1>6, <1>7 DEF Fits
<1>8. CASE replies[i].n \notin called BY <1>4, <1>5, <1>6, <1>8 DEF Fits
<1> QED BY <1>7, <1>8

LEMMA FitUnchanged ==
  ASSUME ServerInv, FitInv, UNCHANGED <<replies, called>>,
         \A k \in DOMAIN received : received'[k] = received[k]
  PROVE  FitInv'
BY OldFit DEF FitInv

LEMMA HandleFit ==
  ASSUME ServerInv, FitInv, handleMessage
  PROVE  FitInv'
<1> USE DEF setupVars, clientVars
<1> DEFINE req == received[cur]
           new == Len(replies) + 1
<1>1. proc = "handle" /\ ~crashed /\ UNCHANGED <<received, cur>>
  BY DEF handleMessage, handleRejected, handleCalled, Handling
<1>2. req.id \in [kind: IdKinds, value: Nat] /\ cur \in Nat BY <1>1, HandledIs
<1>3. /\ parseMessage(req).id \in [kind: IdKinds, value: Int] /\ parseMessage(req).err \in Int
  BY <1>2, ParsedTyped
<1>4. LastDone = cur - 1 /\ cur \notin called BY <1>1 DEF LastDone, ServerInv, DoneInv
<1>5. ASSUME called' \in {called, called \cup {cur}}, NEW i \in DOMAIN replies
      PROVE  Fits(replies[i], received'[replies[i].n], replies[i].n \in called')
  <2>1. called' \cap (1..LastDone) = called \cap (1..LastDone) BY <1>2, <1>4, <1>5
  <2> QED BY <1>1, <2>1, OldFit
<1>6. ASSUME called' \in {called, called \cup {cur}}, UNCHANGED replies PROVE FitInv'
  BY <1>5, <1>6 DEF FitInv
<1>7. ASSUME called' \in {called, called \cup {cur}}, NEW r \in Reply, r.n = cur,
             replies' = Append(replies, r), Fits(r, req, cur \in called')
      PROVE  FitInv'
  <2>1. /\ DOMAIN replies' = DOMAIN replies \cup {new} /\ replies'[new] = r
        /\ \A i \in DOMAIN replies : replies'[i] = replies[i]
    BY <1>1, <1>7, AnswerIs
  <2> HIDE DEF new
  <2> SUFFICES ASSUME NEW i \in DOMAIN replies'
               PROVE  Fits(replies'[i], received'[replies'[i].n], replies'[i].n \in called')
    BY DEF FitInv
  <2>2. CASE i \in DOMAIN replies BY <1>5, <1>7, <2>1, <2>2
  <2>3. CASE i = new BY <1>1, <1>7, <2>1, <2>3
  <2> QED BY <2>1, <2>2, <2>3
<1> HIDE DEF req
<1>8. CASE handleRejected
  <2> DEFINE r == [n |-> cur, id |-> parseMessage(req).id, kind |-> "error",
                   code |-> parseMessage(req).err]
  <2>1. /\ replies' = Append(replies, r) /\ UNCHANGED called /\ parseMessage(req).err # noError
    BY <1>8 DEF handleRejected, Answer, Rejection, req
  <2>2. r \in Reply BY <1>2, <1>3 DEF Reply
  <2>3. r.n = cur /\ r.id = parseMessage(req).id /\ r.code = parseMessage(req).err OBVIOUS
  <2> HIDE DEF r
  <2>4. Fits(r, req, FALSE) BY <1>2, <2>1, <2>3, RejectionFits
  <2>5. Fits(r, req, cur \in called') BY <1>4, <2>1, <2>4 DEF Fits
  <2> QED BY <1>7, <2>1, <2>2, <2>3, <2>5
<1>9. ASSUME NEW o \in Scenarios[scenario].outcomes, handleCalled(o) PROVE FitInv'
  <2>1. called' = called \cup {cur} /\ parseMessage(req).err = noError
    BY <1>9 DEF handleCalled, req
  <2>2. o.err \in {"none", "coded", "simple"} /\ o.code \in Int
    BY OutcomeAssumption DEF ServerInv, Scenery
  <2>3. CASE UNCHANGED replies BY <1>6, <2>1, <2>3
  <2>4. CASE Answer(Response(parseMessage(req), o)) /\ ~Panics(o)
    <3> DEFINE a == Response(parseMessage(req), o)
               r == [n |-> cur, id |-> a.id, kind |-> a.kind, code |-> a.code]
    <3>1. replies' = Append(replies, r) BY <2>4 DEF Answer
    <3>2. /\ a.id = parseMessage(req).id /\ a.kind \in {"result", "extended", "error"}
          /\ a.code \in Int /\ a.code \notin ReservedCodes
      BY <2>2, <2>4, ResponseIs
    <3> HIDE DEF a
    <3>3. r \in Reply BY <1>2, <1>3, <3>2 DEF Reply
    <3>4. r.n = cur /\ r.id = parseMessage(req).id /\ r.code \notin ReservedCodes BY <3>2
    <3> HIDE DEF r
    <3>5. Fits(r, req, TRUE) BY <1>2, <2>1, <3>4, ResponseFits
    <3>6. Fits(r, req, cur \in called') BY <2>1, <3>5 DEF Fits
    <3> QED BY <1>7, <2>1, <3>1, <3>3, <3>4, <3>6
  <2> QED BY <1>9, <2>3, <2>4 DEF handleCalled, req
<1> QED BY <1>8, <1>9 DEF handleMessage

(* The reply to whatever comes: its id is that of the request, its code    *)
(* tells which part of it was wrong, and a reserved code that no method    *)
(* was called.                                                             *)
THEOREM RepliesFit == Spec => []ReplyFits
<1>1. Init => FitInv BY DEF Init, FitInv
<1>2. ASSUME ServerInv, FitInv, [Next]_vars PROVE FitInv'
  <2> USE DEF setupVars, clientVars, replyVars
  <2>1. CASE handleMessage BY <1>2, <2>1, HandleFit
  <2>2. ASSUME NEW req \in Requests, Deliver(req) PROVE FitInv'
    <3>1. received \in Seq(Requests) BY <1>2 DEF ServerInv, Scenery
    <3>2. \A k \in DOMAIN received : received'[k] = received[k] BY <2>2, <3>1, OneMore DEF Deliver
    <3> QED BY <1>2, <2>2, <3>2, FitUnchanged DEF Deliver
  <2>3. ASSUME UNCHANGED <<received, replies, called>> PROVE FitInv'
    BY <1>2, <2>3, FitUnchanged
  <2>4. ASSUME NEW rcvr, NEW name, NEW useName, register(rcvr, name, useName) PROVE FitInv'
    BY <2>3, <2>4 DEF register
  <2>5. CASE Start \/ StartNext \/ Stop
    BY <2>3, <2>5 DEF Start, StartNext, StartToken, StartDone, StartPublish, Stop
  <2>6. CASE Callback \/ WaitToken \/ Ack \/ Quit \/ Receive \/ ReplyToken
    BY <2>3, <2>6 DEF Callback, WaitToken, Ack, Quit, Receive, ReplyToken
  <2>7. CASE UNCHANGED vars BY <2>3, <2>7 DEF vars
  <2> QED BY <1>2, <2>1, <2>2, <2>4, <2>5, <2>6, <2>7 DEF Next, Requests
<1>3. FitInv => ReplyFits BY DEF FitInv, ReplyFits, Fits, ReservedCodes
<1> QED BY <1>1, <1>2, <1>3, ServerInvariant, PTL DEF Spec
=============================================================================
