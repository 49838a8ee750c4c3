---------------------------- MODULE MCPahoClient ----------------------------
(* Instances of PahoClient for TLC.                                        *)
EXTENDS PahoClient

CONSTANTS drv, rpc, x, y

(* each goroutine has a topic of its own                                   *)
OwnTopics == [t \in {x, y} |-> IF t = x THEN drv ELSE rpc]
OneThread == [t \in {x} |-> drv]
=============================================================================
