---------------------------- MODULE MCNativeHosts ---------------------------
(* The native hosts with the calls the runs make. *)
EXTENDS NativeHosts

(* A generated client calls a method with its own pattern, if the host has *)
(* the method.  The page sends the same frames for a unary call as for a   *)
(* server stream, and for a client stream as for a bidirectional one: of   *)
(* calls that find nothing, one stands for all.                            *)
OwnPattern    == {<<m, m>> : m \in MethodType}
Nothing       == {<<UNARY, found>> : found \in {UNREGISTERED, MALFORMED, NO_SUCH_METHOD}}
AllPlans      == OwnPattern \cup Nothing
UnaryCalls    == {<<UNARY, UNARY>>}
=============================================================================
