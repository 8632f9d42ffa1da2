--------------------------- MODULE RpcRefinement ----------------------------
(***************************************************************************)
(* RpcBridge implements RpcContract.  The handler's and the call's ends    *)
(* are those of its coroutine: decided when pc reaches "settle".           *)
(***************************************************************************)
EXTENDS RpcProperties

Asking    == [id \in Id |-> call[id].pc = "idle" \/ call[id].snd = "pull"]
Asked     == [id \in Id |-> call[id].sent]
Taken     == [id \in Id |-> srv[id].got]
Told      == [id \in Id |-> srv[id].reqs = "ended"]
Produced  == [id \in Id |-> srv[id].yielded]
Served    == [id \in Id |-> srv[id].outcome]
Delivered == [id \in Id |-> call[id].received]
Result    == [id \in Id |-> IF call[id].pc = "done" THEN call[id].outcome ELSE "none"]

Contract == INSTANCE RpcContract WITH
  Calls <- Id, asking <- Asking, asked <- Asked, taken <- Taken, told <- Told,
  produced <- Produced, served <- Served, delivered <- Delivered, result <- Result

(* Every behaviour of the runtime is one the contract allows: requests and *)
(* responses arrive in order and at most once, a handler is told of the    *)
(* end of the requests only after all of them, a call resolves only after  *)
(* all its responses, and once over a call delivers nothing.               *)
ImplementsContract == Contract!Spec
=============================================================================
