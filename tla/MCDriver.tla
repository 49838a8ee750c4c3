------------------------------ MODULE MCDriver ------------------------------
(* Instances of Driver for TLC.                                            *)
EXTENDS Driver

CONSTANTS c1, c2, v1, v2

Switch == [base |-> "switch", units |-> Empty]

(* an ordinary control: writable, retained, ordered automatically          *)
Plain(c) ==
  [name |-> c, title |-> Empty, type |-> Switch, units |-> Empty, value |-> v1,
   writability |-> "default", hasMax |-> FALSE, forget |-> FALSE, order |-> 0]

(* a read-only one with every description, placed after two others         *)
Described(c) ==
  [Plain(c) EXCEPT !.title = Text, !.units = Text, !.hasMax = TRUE,
                   !.writability = "ro", !.order = 2]

(* a button: the type makes its value volatile                             *)
Button(c) ==
  [Plain(c) EXCEPT !.type.base = "pushbutton", !.writability = "rw"]

(* one control: redefinition, values, external devices                     *)
OneControl == {Plain(c1), Button(c1)}

(* two controls: orders and the subscriptions of a definition              *)
TwoControls == {Plain(c1), Described(c1), Button(c2)}
=============================================================================
