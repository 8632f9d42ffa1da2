---------------------------- MODULE MCRpcBridge -----------------------------
(* The sets of calls the TLC runs make. *)
EXTENDS RpcRefinement

AllPairs   == MethodType \X Method
Matching   == {<<m, m>> : m \in MethodType}
SingleRequest == {<<UNARY, UNARY>>, <<SERVER_STREAMING, SERVER_STREAMING>>}
ClientStreamCalls == {<<CLIENT_STREAMING, CLIENT_STREAMING>>}
BidiCalls         == {<<BIDI_STREAMING, BIDI_STREAMING>>}
SomePairs  == {UNARY} \X {UNARY, BIDI_STREAMING, UNREGISTERED} \cup ClientStreamCalls \cup BidiCalls
NoSignal   == {"none"}
AllSignals == {"none", "armed", "aborted"}
Abortable  == {"none", "armed"}
ArmedOrAborted == {"armed", "aborted"}
Armed      == {"armed"}
Timed      == {TRUE}
TimedOrNot == BOOLEAN
Untimed    == {FALSE}
ThrowInternal == {INTERNAL}
=============================================================================
