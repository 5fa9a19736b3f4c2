-------------------------- MODULE MCPriorityBuffer --------------------------
(* Bounds for model-checking the outgoing buffers.                          *)
EXTENDS PriorityBuffer

MCFlushTime == [LOW |-> 4, MEDIUM |-> 2, HIGH |-> 0]
=============================================================================
