---------------------------- MODULE MCDriverLoop ----------------------------
(* Instances of DriverLoop for TLC.                                        *)
EXTENDS DriverLoop

CONSTANTS a, b, t1, t2, t3, t4

Op(o, t) == [op |-> o, thunk |-> t]

(* Two goroutines and four thunks: t1, run before or after the client is   *)
(* ready, gives t4 to WhenReady.                                           *)
ThunkChild == [t \in {t1, t2, t3, t4} |-> IF t = t1 THEN t4 ELSE None]
CallerProgram ==
  [c \in {a, b} |->
     IF c = a THEN <<Op("WhenReady", t1), Op("WhenReady", t2)>>
              ELSE <<Op("CallSync", t3)>>]
=============================================================================
