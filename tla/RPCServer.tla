----------------------------- MODULE RPCServer -----------------------------
(***************************************************************************)
(* MQTTRPCServer of rpc.go: registration of services, Start() and Stop(),  *)
(* the goroutine of processMessages() behind its bounded queue, and what a *)
(* request is answered with.  The MQTT client is external: one goroutine   *)
(* of it runs the callbacks one after another, and the acknowledgements    *)
(* the tokens wait for come in the same stream, behind the messages.       *)
(***************************************************************************)
EXTENDS Integers, Sequences, SequencesExt

CONSTANTS
  Scenarios,        \* sequence of [receivers, requests, outcomes, count]:
                    \* what is registered, asked and returned, how many times
  Names,            \* names given to RegisterName
  NoName,           \* the empty string
  ExportedNames,    \* names that begin with an upper case letter
  FLOAT_EXACT,      \* up to it float64 holds every integer (2^53)
  RPC_MESSAGE_QUEUE_LEN,
  TOKEN_QUEUE_LEN,
  MaxStops          \* bound: calls of Stop()

ASSUME QueueAssumption ==
  /\ RPC_MESSAGE_QUEUE_LEN \in Nat \ {0} /\ TOKEN_QUEUE_LEN \in Nat \ {0}
  /\ MaxStops \in Nat /\ FLOAT_EXACT \in Nat \ {0}
(* A receiver is [type, methods], a request [service, method, json, id,    *)
(* params], an outcome of a method [err, code, marshals].                  *)
Receivers == UNION {Scenarios[i].receivers : i \in DOMAIN Scenarios}
MaxRequests == Max({Scenarios[i].count : i \in DOMAIN Scenarios})

ASSUME ScenarioAssumption == \A i \in DOMAIN Scenarios : Scenarios[i].count \in Nat
ASSUME NameAssumption ==
  /\ ExportedNames \subseteq Names /\ NoName \notin ExportedNames
  /\ \A r \in Receivers : r.type \in Names \cup {NoName}

RPC_RESERVED_CODE_MIN == -32700
RPC_RESERVED_CODE_MAX == -32000
parseError == -32700
invalidRequestError == -32600
methodNotFoundError == -32601
invalidParamsError == -32602
noError == 0

(* mutant: the upper end of the range is left out                          *)
isReservedErrorCodeBelow(code) ==
  code >= RPC_RESERVED_CODE_MIN /\ code < RPC_RESERVED_CODE_MAX
isReservedErrorCode(code) ==
  code >= RPC_RESERVED_CODE_MIN /\ code <= RPC_RESERVED_CODE_MAX

(* A JSON value used as an id: its kind, and the value of an integer.      *)
(* "huge" is a number that float64 cannot hold, "fraction" one that is not *)
(* integral, "other" a boolean, an array or an object.                     *)
IdKinds == {"absent", "null", "string", "integer", "fraction", "huge", "other"}
NullId == [kind |-> "null", value |-> 0]

ASSUME RequestAssumption ==
  \A i \in DOMAIN Scenarios : \A req \in Scenarios[i].requests :
    req.id \in [kind: IdKinds, value: Nat]
ASSUME OutcomeAssumption ==
  \A i \in DOMAIN Scenarios : \A o \in Scenarios[i].outcomes :
    o.err \in {"none", "coded", "simple"} /\ o.code \in Int

VARIABLES
  scenario,     \* the one this behaviour follows, never changed
  serviceMap,   \* name -> the methods registered under it, {} when absent
  active,
  quit,         \* "nil", "open", "closed"
  starting,     \* where Start() is; it holds the lock unless "idle"
  todo,         \* methods Start() has still to publish
  proc,         \* the goroutine of processMessages()
  cur,          \* the message it handles
  messageCh,
  router,       \* the message whose callback runs, 0 when none does
  subscribed,   \* the subscription exists
  tokens,       \* tokens in the queue of the client
  acked,        \* the client waits for no acknowledgement
  adverts,      \* <<service, method>> with a retained message
  received,     \* messages delivered; elsewhere a message is its place here
  replies,      \* [n, id, kind, code] in the order of their publication
  called,       \* messages a method was called for
  mute,         \* messages whose response could not be marshalled
  flooded,      \* a callback found the queue full
  stops,        \* for the bound
  crashed       \* a panic

setupVars == <<scenario, serviceMap, active, quit, starting, todo, adverts, stops>>
clientVars == <<router, subscribed, tokens, acked, received, flooded>>
replyVars == <<replies, called, mute>>
vars == <<setupVars, clientVars, replyVars, proc, cur, messageCh, crashed>>

MethodNames == UNION {{m.name : m \in r.methods} : r \in Receivers}
Numbers == 1..MaxRequests

-----------------------------------------------------------------------------
(* Registration.                                                           *)

isExported(name) == name \in ExportedNames

(* A signature is the set of conditions of suitableMethods it meets.       *)
Conditions == {"exported", "threeIns", "argExported", "replyPointer",
               "replyExported", "oneOut", "returnsError"}
suitableMethods(rcvr) == {m.name : m \in {x \in rcvr.methods : x.sig = Conditions}}

(* mutant: a name that is already there is taken over                      *)
AlreadyDefinedNot(sname) == FALSE
AlreadyDefined(sname) == serviceMap[sname] # {}

(* The error returns change nothing.                                       *)
register(rcvr, name, useName) ==
  LET sname == IF useName THEN name ELSE rcvr.type IN
  /\ ~crashed /\ starting = "idle"
  /\ sname # NoName
  /\ isExported(sname) \/ useName
  /\ ~AlreadyDefined(sname)
  /\ suitableMethods(rcvr) # {}
  /\ serviceMap' = [serviceMap EXCEPT ![sname] = suitableMethods(rcvr)]
  /\ UNCHANGED <<scenario, active, quit, starting, todo, adverts, stops, clientVars,
                 replyVars, proc, cur, messageCh, crashed>>

-----------------------------------------------------------------------------
(* What a request is answered with.                                        *)

validateId(id) == id.kind \in {"null", "string", "integer"}

(* An integer becomes a float64: beyond FLOAT_EXACT (and up to twice that) *)
(* an odd one is rounded to the neighbour with the even mantissa.          *)
Float64(n) ==
  IF n <= FLOAT_EXACT \/ n % 2 = 0 THEN n
  ELSE IF (n + 1) % 4 = 0 THEN n + 1 ELSE n - 1
Decoded(id) ==
  IF id.kind = "integer" THEN [id EXCEPT !.value = Float64(@)] ELSE id

locateMethod(req) == req.service \in Names /\ req.method \in serviceMap[req.service]

(* [id, err]; target says whether the method was found.  A null id leaves  *)
(* the pointer nil, as a missing one does; so do params.                   *)
parseRequest(req, target) ==
  LET Failed(err) == [id |-> NullId, err |-> err]
      Known(err) == [id |-> Decoded(req.id), err |-> err]
  IN IF req.json = "bad" THEN Failed(parseError)
     ELSE IF req.id.kind \in {"absent", "null"} THEN Failed(invalidRequestError)
     ELSE IF req.id.kind = "huge" THEN Failed(parseError)
     ELSE IF ~validateId(req.id) THEN Failed(invalidRequestError)
     ELSE IF ~target THEN Known(noError)
     ELSE IF req.params # "good" THEN Known(invalidParamsError)
     ELSE Known(noError)

(* mutant: the error of the second parse is dropped                        *)
NotFoundAlways(p) == [p EXCEPT !.err = methodNotFoundError]

(* the answer to a parsed request whose method was not found               *)
NotFound(p) == IF p.err # noError THEN p ELSE [p EXCEPT !.err = methodNotFoundError]

parseMessage(req) ==
  IF locateMethod(req) THEN parseRequest(req, TRUE)
  ELSE NotFound(parseRequest(req, FALSE))

(* buildResponse: errors of the server, and of a method                    *)
Rejection(parsed) == [id |-> parsed.id, kind |-> "error", code |-> parsed.err]
Response(parsed, o) ==
  [id |-> parsed.id,
   kind |-> CASE o.err = "none" -> "result" [] o.err = "coded" -> "extended"
              [] OTHER -> "error",
   code |-> CASE o.err = "none" -> noError [] o.err = "coded" -> o.code [] OTHER -> -1]
Panics(o) == o.err = "coded" /\ isReservedErrorCode(o.code)

-----------------------------------------------------------------------------
(* The client, external: callbacks and tokens.                             *)

PushToken == tokens < TOKEN_QUEUE_LEN /\ tokens' = tokens + 1

Deliver(req) ==          \* the router calls the callback of Start()
  /\ ~crashed /\ subscribed /\ router = 0
  /\ Len(received) < Scenarios[scenario].count
  /\ received' = Append(received, req) /\ router' = Len(received) + 1
  /\ flooded' = (flooded \/ Len(messageCh) = RPC_MESSAGE_QUEUE_LEN)
  /\ UNCHANGED <<setupVars, subscribed, tokens, acked, replyVars, proc, cur, messageCh,
                 crashed>>

Room == Len(messageCh) < RPC_MESSAGE_QUEUE_LEN

Callback ==              \* server.messageCh <- message
  /\ ~crashed /\ router # 0 /\ Room
  /\ messageCh' = Append(messageCh, router) /\ router' = 0
  /\ UNCHANGED <<setupVars, subscribed, tokens, acked, received, flooded, replyVars, proc,
                 cur, crashed>>

WaitToken ==
  /\ ~crashed /\ acked /\ tokens > 0
  /\ tokens' = tokens - 1 /\ acked' = FALSE
  /\ UNCHANGED <<setupVars, router, subscribed, received, flooded, replyVars, proc, cur,
                 messageCh, crashed>>

Ack ==                   \* read only while no callback holds up the stream
  /\ ~crashed /\ ~acked /\ router = 0 /\ acked' = TRUE
  /\ UNCHANGED <<setupVars, router, subscribed, tokens, received, flooded, replyVars,
                 proc, cur, messageCh, crashed>>

-----------------------------------------------------------------------------
(* Start() and Stop().                                                     *)

Start ==                 \* up to the subscription
  /\ ~crashed /\ starting = "idle" /\ ~active
  /\ active' = TRUE /\ quit' = "open" /\ subscribed' = TRUE
  /\ starting' = "token"
  /\ todo' = {a \in Names \X MethodNames : a[2] \in serviceMap[a[1]]}
  /\ UNCHANGED <<scenario, serviceMap, adverts, stops, router, tokens, acked, received, flooded,
                 replyVars, proc, cur, messageCh, crashed>>

StartToken ==
  /\ ~crashed /\ starting = "token" /\ PushToken /\ starting' = "publish"
  /\ UNCHANGED <<scenario, serviceMap, active, quit, todo, adverts, stops, router, subscribed,
                 acked, received, flooded, replyVars, proc, cur, messageCh, crashed>>

StartPublish(s, m) ==    \* in the order of the names in the code
  /\ ~crashed /\ starting = "publish" /\ <<s, m>> \in todo
  /\ adverts' = adverts \cup {<<s, m>>} /\ todo' = todo \ {<<s, m>>}
  /\ starting' = "token"
  /\ UNCHANGED <<scenario, serviceMap, active, quit, stops, clientVars, replyVars, proc, cur,
                 messageCh, crashed>>

StartDone ==             \* go server.processMessages(); unlock
  /\ ~crashed /\ starting = "publish" /\ todo = {}
  /\ starting' = "idle" /\ proc' = "select"
  /\ UNCHANGED <<scenario, serviceMap, active, quit, todo, adverts, stops, clientVars, replyVars,
                 cur, messageCh, crashed>>

(* active stays set: Start() does nothing afterwards, and a second Stop()  *)
(* closes a closed channel                                                 *)
Stop ==
  /\ ~crashed /\ starting = "idle" /\ active /\ stops < MaxStops
  /\ stops' = stops + 1 /\ quit' = "closed"
  /\ crashed' = (quit = "closed")
  /\ UNCHANGED <<scenario, serviceMap, active, starting, todo, adverts, clientVars, replyVars, proc,
                 cur, messageCh>>

-----------------------------------------------------------------------------
(* processMessages().                                                      *)

(* mutants: a break that only leaves the select statement; the goroutine   *)
(* returns after a reply                                                   *)
ReturnNot == proc' = proc
Return == proc' = "exited"
LoopReturns == proc' = "exited"
Loop == proc' = "select"

Quit ==                  \* case <-server.quit
  /\ ~crashed /\ proc = "select" /\ quit = "closed"
  /\ Return /\ subscribed' = FALSE
  /\ UNCHANGED <<setupVars, router, tokens, acked, received, flooded, replyVars, cur,
                 messageCh, crashed>>

(* mutant: the newest message first                                        *)
FirstNewest == Len(messageCh)
First == 1

Receive ==               \* case msg := <-server.messageCh
  /\ ~crashed /\ proc = "select" /\ messageCh # <<>>
  /\ cur' = messageCh[First] /\ messageCh' = RemoveAt(messageCh, First)
  /\ proc' = "handle"
  /\ UNCHANGED <<setupVars, clientVars, replyVars, crashed>>

(* handleMessage, up to the token of its Publish; locateMethod needs the   *)
(* read lock                                                               *)
Handling == ~crashed /\ proc = "handle" /\ starting = "idle"
Answer(r) ==
  replies' = Append(replies, [n |-> cur, id |-> r.id, kind |-> r.kind, code |-> r.code])

handleRejected ==
  LET parsed == parseMessage(received[cur]) IN
  /\ Handling /\ parsed.err # noError
  /\ Answer(Rejection(parsed)) /\ proc' = "token"
  /\ UNCHANGED <<setupVars, clientVars, called, mute, cur, messageCh, crashed>>

handleCalled(o) ==
  LET parsed == parseMessage(received[cur]) IN
  /\ Handling /\ parsed.err = noError
  /\ called' = called \cup {cur}
  /\ \/ /\ Panics(o) /\ crashed' = TRUE
        /\ UNCHANGED <<replies, mute, proc>>
     \/ /\ ~Panics(o) /\ ~o.marshals
        /\ mute' = mute \cup {cur} /\ proc' = "select"
        /\ UNCHANGED <<replies, crashed>>
     \/ /\ ~Panics(o) /\ o.marshals
        /\ Answer(Response(parsed, o)) /\ proc' = "token"
        /\ UNCHANGED <<mute, crashed>>
  /\ UNCHANGED <<setupVars, clientVars, cur, messageCh>>

ReplyToken ==
  /\ ~crashed /\ proc = "token" /\ PushToken /\ Loop
  /\ UNCHANGED <<setupVars, router, subscribed, acked, received, flooded, replyVars, cur,
                 messageCh, crashed>>

-----------------------------------------------------------------------------
Init ==
  /\ scenario \in DOMAIN Scenarios
  /\ serviceMap = [s \in Names |-> {}]
  /\ active = FALSE /\ quit = "nil" /\ starting = "idle" /\ todo = {}
  /\ proc = "none" /\ cur = 0 /\ messageCh = <<>>
  /\ router = 0 /\ subscribed = FALSE /\ tokens = 0 /\ acked = TRUE
  /\ adverts = {} /\ received = <<>> /\ replies = <<>> /\ called = {} /\ mute = {}
  /\ flooded = FALSE /\ stops = 0 /\ crashed = FALSE

StartNext ==
  StartToken \/ StartDone \/ \E s \in Names, m \in MethodNames : StartPublish(s, m)
handleMessage == handleRejected \/ \E o \in Scenarios[scenario].outcomes : handleCalled(o)

Next ==
  \/ \E r \in Scenarios[scenario].receivers :
       \/ register(r, r.type, FALSE)
       \/ \E name \in Names \cup {NoName} : register(r, name, TRUE)
  \/ Start \/ StartNext \/ Stop
  \/ \E req \in Scenarios[scenario].requests : Deliver(req)
  \/ Callback \/ WaitToken \/ Ack
  \/ Quit \/ Receive \/ handleMessage \/ ReplyToken

(* Goroutines run, select serves each of its cases, methods return, the    *)
(* broker acknowledges.  Nobody has to call Start() or Stop().             *)
Fairness ==
  /\ SF_vars(StartNext) /\ WF_vars(Callback) /\ WF_vars(WaitToken) /\ SF_vars(Ack)
  /\ SF_vars(Quit) /\ WF_vars(Receive) /\ SF_vars(handleMessage) /\ SF_vars(ReplyToken)

Spec == Init /\ [][Next]_vars
FairSpec == Spec /\ Fairness

-----------------------------------------------------------------------------
(* Properties.                                                             *)

(* A message that was delivered is being handed over, queued, handled or   *)
(* done with (answered once, or its response could not be marshalled), and *)
(* messages are done with in the order of delivery: whatever the state of  *)
(* the queue and whenever Stop() comes, none is lost or answered twice.    *)
Waiting == {messageCh[i] : i \in DOMAIN messageCh} \cup ({router} \ {0})
Answered == {replies[i].n : i \in DOMAIN replies}
HandledOnceInOrder ==
  /\ \A i, j \in DOMAIN replies : i < j => replies[i].n < replies[j].n
  /\ Answered \cap mute = {} /\ (Answered \cup mute) \cap Waiting = {}
  /\ Answered \cup mute \cup Waiting \cup ({cur} \ {0}) = 1..Len(received)
  /\ \A n \in Answered \cup mute \cup {cur}, w \in Waiting : n < w

(* What every client may rely on, whichever way the topic and the payload  *)
(* are wrong: JSON first, then the id, then the method, then the params;   *)
(* an id that is a string or an integer comes back, unless the payload is  *)
(* not JSON, and otherwise the id is null.  A reserved code means that the *)
(* server rejected the request and no method ran: the codes of             *)
(* applications never fall in the range (the process stops instead).       *)
ReplyFits ==
  \A i \in DOMAIN replies :
    LET reply == replies[i]
        req == received[reply.n]
        valid == req.json # "bad" /\ req.id.kind \in {"string", "integer"}
        exact == req.id.kind = "integer" => req.id.value <= FLOAT_EXACT
    IN /\ valid /\ exact => reply.id = req.id
       /\ ~valid => reply.id = NullId
       /\ req.json = "bad" => reply.code = parseError
       /\ ~valid /\ req.json # "bad" /\ req.id.kind # "huge"
            => reply.code = invalidRequestError
       /\ valid /\ reply.n \notin called
            => \/ reply.code = methodNotFoundError
               \/ reply.code = invalidParamsError /\ req.params # "good"
       /\ reply.n \in called => valid /\ req.params = "good"
       /\ reply.code \in -32700..-32000 <=> reply.n \notin called

(* The retained topics tell the truth: a method that is advertised can     *)
(* be located, whatever is registered after Start().                       *)
AdvertisedIsCallable == \A a \in adverts \cup todo : a[2] \in serviceMap[a[1]]

(* Every message of a running server is done with, as long as no callback  *)
(* found the queue full: the reply waits for room in the queue of tokens,  *)
(* tokens for acknowledgements, acknowledgements for the callbacks, and    *)
(* callbacks for room in messageCh.                                        *)
EveryRequestAnswered ==
  \A n \in Numbers :
    n <= Len(received) ~> (n \in Answered \cup mute \/ quit = "closed" \/ flooded \/ crashed)

(* After Stop() the goroutine unsubscribes and ends, although messages may *)
(* keep coming, and the server stays stopped: active stays set, so that    *)
(* Start() has no effect any more (and a second Stop() panics).            *)
StopEnds ==
  quit = "closed" ~> []((proc = "exited" /\ ~subscribed) \/ flooded \/ crashed)
=============================================================================
