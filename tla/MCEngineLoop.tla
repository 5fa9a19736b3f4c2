---------------------------- MODULE MCEngineLoop ----------------------------
(* Words and lines for model-checking the process.  The hashes are the low   *)
(* 24 bits of fnv1a_32; "soap" and "quit" agree in the lower 16 of them.     *)
(* Four lines are enough for two pings around a quit, and a last line to end *)
(* the wait for the console.                                                 *)
EXTENDS EngineLoop, TLC

MCHash ==
  ("quit" :> 8881974) @@ ("ping" :> 6156425) @@ ("account" :> 5228380)
    @@ ("soap" :> 5670710) @@ ("exit" :> 15538821) @@ ("" :> 1875397)

MCWord == DOMAIN MCHash

MCLine ==
  {[word |-> w, params |-> 0] : w \in MCWord} \cup {[word |-> "account", params |-> 2]}
=============================================================================
