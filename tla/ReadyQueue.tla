----------------------------- MODULE ReadyQueue -----------------------------
(***************************************************************************)
(* What WhenReady() promises to the application: a queue of thunks behind  *)
(* a gate.  Thunks are accepted at any time; once the gate is open they    *)
(* run one after the other, each once, in the order they were accepted.    *)
(* Module DriverLoop implements it.                                        *)
(***************************************************************************)
EXTENDS Sequences

CONSTANT Thunks

VARIABLES
  queue,   \* thunks accepted and not yet run
  open,    \* the client has become ready
  ran      \* thunks run, in order

Known == {queue[i] : i \in DOMAIN queue} \cup {ran[i] : i \in DOMAIN ran}

Init == queue = <<>> /\ open = FALSE /\ ran = <<>>

Accept(t) == /\ t \notin Known
             /\ queue' = Append(queue, t)
             /\ UNCHANGED <<open, ran>>

Open == open' = TRUE /\ UNCHANGED <<queue, ran>>

Run == /\ open /\ queue # <<>>
       /\ ran' = Append(ran, Head(queue))
       /\ queue' = Tail(queue)
       /\ UNCHANGED open

Next == Open \/ Run \/ \E t \in Thunks : Accept(t)

Spec == Init /\ [][Next]_<<queue, open, ran>>
=============================================================================
