--------------------------- MODULE MCTestSupport ----------------------------
(* The instance of TestSupport that TLC checks.                            *)
EXTENDS TestSupport

CONSTANTS tst, drv, x, y, any

(* Two patterns, an exact topic and both wildcards; both match the first   *)
(* topic, one of them the second.                                          *)
Exact == <<"a", "b">>
AnyBelow == <<"+", "b", "#">>
SomePatterns == {Exact, AnyBelow}
SomeTopics == {<<"a", "b">>, <<"c", "b">>}
SomeLists == {<<Exact>>, <<Exact, AnyBelow>>}
FewCalls == tst :> 2 @@ drv :> 2

(* A text; regexps that accept their own text only, every item, and an     *)
(* item but not their own text.                                            *)
Y == [matcher |-> FALSE, text |-> y, accepts |-> {y}]
RxX == [matcher |-> TRUE, text |-> x, accepts |-> {x}]
RxAny == [matcher |-> TRUE, text |-> any, accepts |-> {x, y}]
RxNotX == [matcher |-> TRUE, text |-> x, accepts |-> {y}]
SomeSlices == {<<Y>>, <<RxX, Y>>, <<RxNotX>>}
KeptSlice == <<RxAny, Y>>

(* The parts that do not move start in one of their initial states.        *)
MCInit ==
  /\ AllInit
  /\ part # "broker" => waitForRetained
  /\ part # "timers" => kind = "timer"
  /\ till = x /\ key = [g \in Threads |-> x]

MCSpec == MCInit /\ [][AllNext]_allVars /\ Fairness /\ TM!Fairness
=============================================================================
