----------------------------- MODULE MCPipeline -----------------------------
(* Two finder units that may report a candidate each, one candidate        *)
(* replayed, buffers of one.                                               *)
EXTENDS Pipeline

CONSTANTS u, v, a, b, r

MCFinds  == [x \in Units |-> IF x = u THEN {a} ELSE {b}]
MCRoom   == [ch \in Channels |-> 1]
MCBudget == [p \in Pools |-> 1]
=============================================================================
