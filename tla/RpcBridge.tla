----------------------------- MODULE RpcBridge ------------------------------
(***************************************************************************)
(* One RpcClient and one RpcServer joined by a transport pair, with the    *)
(* applications on both sides: the whole TypeScript runtime of             *)
(* packages/rpc-core.  Every step is a step of one side.                   *)
(***************************************************************************)
EXTENDS RpcClient, RpcServer

vars == <<wireVars, clientVars, serverVars>>

Init == WireInit /\ ClientInit /\ ServerInit

ClientStep == ClientNext /\ UNCHANGED serverVars
ServerStep == ServerNext /\ UNCHANGED clientVars

(* The only state in which nothing is left to happen: every call settled,  *)
(* every handler returned and every frame dispatched.  Any other state     *)
(* without a successor is a deadlock.                                      *)
Idle(id) == call[id].pc \in {"idle", "done"} /\ srv[id].pc \in {"off", "done"}
Quiescent == /\ toServer = <<>> /\ toClient = <<>>
             /\ \A id \in Id : Idle(id)
Terminated == Quiescent /\ UNCHANGED vars

Next == ClientStep \/ ServerStep \/ Terminated

Spec == Init /\ [][Next]_vars

(***************************************************************************)
(* Fairness.  The event loop runs every resolved promise, delivers every   *)
(* posted frame and fires every timer (Runtime).  An application that      *)
(* iterates keeps asking, and its request iterable ends (Application); a   *)
(* handler that runs finishes (Handlers).  Closes, errors, aborts, throws  *)
(* and early returns are never owed.                                       *)
(***************************************************************************)
Runtime ==
  /\ WF_vars(ClientHandleFrame /\ UNCHANGED serverVars)
  /\ WF_vars(ServerHandleFrame /\ UNCHANGED clientVars)
  /\ \A id \in Id : /\ WF_vars(ClientContinue(id) /\ UNCHANGED serverVars)
                    /\ WF_vars(DeadlineFires(id) /\ UNCHANGED serverVars)
                    /\ WF_vars(ServerContinue(id) /\ UNCHANGED clientVars)
Application ==
  \A id \in Id : /\ WF_vars(AppNext(id) /\ UNCHANGED serverVars)
                 /\ WF_vars(EndRequests(id) /\ UNCHANGED serverVars)
Handlers == \A id \in Id : WF_vars(HandlerFinish(id) /\ UNCHANGED clientVars)

RuntimeSpec == Spec /\ Runtime
FairSpec    == Spec /\ Runtime /\ Application /\ Handlers
=============================================================================
