---------------------------- MODULE MCRPCServer ----------------------------
(* Instances of RPCServer for TLC.                                         *)
EXTENDS RPCServer

CONSTANTS Arith, hidden, Multiply, Divide

AllConditions == {"exported", "threeIns", "argExported", "replyPointer",
                  "replyExported", "oneOut", "returnsError"}
Method(name, missing) == [name |-> name, sig |-> AllConditions \ missing]

ArithReceiver == [type |-> Arith, methods |-> {Method(Multiply, {}), Method(Divide, {"returnsError"})}]
OtherReceiver == [type |-> hidden, methods |-> {Method(Divide, {})}]
UnfitReceiver == [type |-> Arith, methods |-> {Method(Multiply, {"replyPointer"})}]

Id(kind, value) == [kind |-> kind, value |-> value]
Request(m, id, params) ==
  [service |-> Arith, method |-> m, json |-> "good", id |-> id, params |-> params]
(* all ids with params that fit, all params with two ids, an unknown       *)
(* method with ids of both sorts, and a payload that is not JSON           *)
AllRequests ==
  {Request(Multiply, Id(k, 0), "good") : k \in {"absent", "null", "string", "fraction", "huge", "other"}}
    \cup {Request(Multiply, Id("integer", n), "good") : n \in 3..6}
    \cup {Request(Multiply, Id(k, 1), p) : k \in {"integer", "other"}, p \in {"none", "wrong"}}
    \cup {Request(Divide, Id(k, 2), p) : k \in {"integer", "absent"}, p \in {"none", "good"}}
    \cup {[Request(m, Id("string", 0), "good") EXCEPT !.json = "bad"] : m \in {Multiply, Divide}}

Outcome(err, code, marshals) == [err |-> err, code |-> code, marshals |-> marshals]
AllOutcomes ==
  {Outcome("none", 0, b) : b \in BOOLEAN} \cup {Outcome("simple", 0, TRUE)}
    \cup {Outcome("coded", c, TRUE) : c \in {-42, 0, -32701, -32700, -32601, -32000, -31999}}
GoodOutcomes == {Outcome("none", 0, b) : b \in BOOLEAN}

(* every kind of request once, and many requests of one kind               *)
Replies == [receivers |-> {ArithReceiver, OtherReceiver, UnfitReceiver},
            requests |-> AllRequests, outcomes |-> AllOutcomes, count |-> 1]
Queue == [receivers |-> {ArithReceiver}, outcomes |-> GoodOutcomes, count |-> 3,
          requests |-> {Request(Multiply, Id("string", 0), "good")}]
BothScenarios == <<Replies, Queue>>
=============================================================================
