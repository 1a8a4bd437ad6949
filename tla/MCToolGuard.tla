---- MODULE MCToolGuard ----
\* Instances of ToolGuard for TLC: a threshold of three on a history of four.
EXTENDS ToolGuard
LongConfigs == {[history |-> 4, block |-> 3, attempts |-> 1, preflight |-> TRUE, enabled |-> TRUE]}
====
