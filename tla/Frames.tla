------------------------------- MODULE Frames -------------------------------
(***************************************************************************)
(* The frames that travel between RpcClient and RpcServer                  *)
(* (packages/rpc-core/src/frame.ts), the status codes an error carries     *)
(* (errors.ts) and the method patterns the server dispatches on (types.ts).*)
(*                                                                         *)
(* A frame is a discriminated union in the source: a streamId and one      *)
(* body.  Here it is a record with the name of the body and one number,    *)
(* whose meaning the body gives: the pattern of the named method for       *)
(* "open", the payload for "message", the error code for "error", and 0    *)
(* for the empty bodies.                                                   *)
(***************************************************************************)
EXTENDS Naturals

(* RpcStatusCode *)
CANCELLED         == 1
INVALID_ARGUMENT  == 3
DEADLINE_EXCEEDED == 4
UNIMPLEMENTED     == 12
INTERNAL          == 13
RpcStatusCode     == {0, CANCELLED, INVALID_ARGUMENT, DEADLINE_EXCEEDED,
                      UNIMPLEMENTED, INTERNAL}

(* RpcError.fromFrame: a code the enumeration does not have is INTERNAL. *)
FromFrame(code) == IF code \in RpcStatusCode THEN code ELSE INTERNAL

(* MethodType: the pattern a method is registered with, and the pattern of *)
(* the RpcClient function that calls it.                                   *)
UNARY            == 1
SERVER_STREAMING == 2
CLIENT_STREAMING == 3
BIDI_STREAMING   == 4
MethodType       == UNARY..BIDI_STREAMING

(* What the method name of an OPEN frame finds in the server's registry: a *)
(* handler of some pattern, nothing, or no slash to split the name at.     *)
UNREGISTERED == 0
MALFORMED    == 5
Method       == MethodType \cup {UNREGISTERED, MALFORMED}

Body       == {"open", "message", "halfClose", "close", "cancel", "error"}
Frame(ids) == {f \in [streamId : ids, body : Body, arg : Nat] :
                 f.body = "open" => f.arg \in Method}

OpenFrame(id, method)     == [streamId |-> id, body |-> "open",      arg |-> method]
MessageFrame(id, payload) == [streamId |-> id, body |-> "message",   arg |-> payload]
HalfCloseFrame(id)        == [streamId |-> id, body |-> "halfClose", arg |-> 0]
CloseFrame(id)            == [streamId |-> id, body |-> "close",     arg |-> 0]
CancelFrame(id)           == [streamId |-> id, body |-> "cancel",    arg |-> 0]
ErrorFrame(id, code)      == [streamId |-> id, body |-> "error",     arg |-> code]
=============================================================================
