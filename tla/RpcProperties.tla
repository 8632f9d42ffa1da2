---------------------------- MODULE RpcProperties ---------------------------
(***************************************************************************)
(* What RpcBridge promises, and what the documents say of it.              *)
(***************************************************************************)
EXTENDS RpcBridge

(* Every variable of client, server and wires has its type; the counter of *)
(* StreamManager.createStream is an odd number.                            *)
TypeOK ==
  /\ WireTypeOK /\ ClientTypeOK /\ ServerTypeOK
  /\ nextStreamId \in {2 * k - 1 : k \in 1..MaxCalls + 1}

Counted(s) == \A i \in 1..Len(s) : s[i] = i

(***************************************************************************)
(* Safety.                                                                 *)
(***************************************************************************)

(* A coroutine suspended in nextItem() is registered as the waiter of its  *)
(* stream or has been given its item, never both and never neither, and    *)
(* nobody waits while items are queued: no push is ever lost on a waiter.  *)
NoLostWakeup ==
  \A id \in Id :
    /\ Suspended(cStream[id], call[id].pc \in {"first", "second", "iter"})
    /\ Suspended(sStream[id], srv[id].pc \in {"first", "second", "pull"})

(* The requests a handler is given are those the application sent, in      *)
(* order, none twice; when it is told that they have ended, it has had     *)
(* every one of them, whatever closed or cancelled the stream meanwhile.   *)
RequestsInOrder ==
  \A id \in Id :
    /\ Counted(srv[id].got) /\ Len(srv[id].got) <= call[id].sent
    /\ srv[id].reqs = "ended" => Len(srv[id].got) = call[id].sent /\ call[id].snd # "pull"

(* The responses a call is given are those its handler produced, in order, *)
(* none twice; a call that ends well has had every one of them, and its    *)
(* handler has returned.                                                   *)
ResponsesInOrder ==
  \A id \in Id :
    /\ Counted(call[id].received) /\ Len(call[id].received) <= srv[id].yielded
    /\ call[id].outcome = "resolved" =>
         srv[id].outcome = "ok" /\ Len(call[id].received) = srv[id].yielded

(* The frames of a stream on the wire keep the protocol's order: OPEN      *)
(* comes first, no MESSAGE or second HALF_CLOSE follows a HALF_CLOSE, and  *)
(* nothing follows CLOSE or ERROR.                                         *)
MayFollow(f, g) ==
  /\ g.body # "open"
  /\ f.body \notin {"close", "error"}
  /\ f.body = "halfClose" => g.body \notin {"message", "halfClose"}
FrameOrder ==
  \A q \in {toServer, toClient} : \A j \in DOMAIN q : \A i \in 1..j - 1 :
    q[i].streamId = q[j].streamId => MayFollow(q[i], q[j])

(* A call is told CANCELLED only when its signal was aborted, when a side  *)
(* closed or its transport failed, or when the handler said so itself; and *)
(* a handler's signal fires only when its call was aborted or rejected, or *)
(* a side closed or failed.  A cancellation never leaks between calls.     *)
CancellationHasCause ==
  \A id \in Id :
    /\ call[id].outcome = "rejected" /\ call[id].code = CANCELLED =>
         call[id].signal = "aborted" \/ faults > 0 \/ CANCELLED \in HandlerCodes
    /\ sStream[id].aborted =>
         call[id].signal = "aborted" \/ call[id].outcome = "rejected" \/ faults > 0

(* The maps of the two StreamManagers hold no stream whose call is settled *)
(* or whose handler has returned, by whatever path: finally, cancelAll, a  *)
(* CANCEL frame, a send that throws.                                       *)
NoStreamLeak ==
  /\ \A id \in cStreams : call[id].pc \notin {"idle", "done"}
  /\ \A id \in sStreams : srv[id].pc \notin {"off", "done"}

(***************************************************************************)
(* What a step may never do.                                               *)
(***************************************************************************)
SentFor(id, q, q1) == \E i \in Len(q) + 1..Len(q1) : q1[i].streamId = id

(* Once the server has sent CLOSE, or has seen the stream cancelled, or    *)
(* its handler has returned, it never sends another frame of the stream.   *)
ServerSilentWhenOver ==
  [][\A id \in Id :
       sStream[id].state \in {"closed", "cancelled"} \/ srv[id].pc = "done"
         => ~SentFor(id, toClient, toClient')]_vars

(* A call that is settled sends nothing more.  Its request loop is over.   *)
ClientSilentWhenDone ==
  [][\A id \in Id : call[id].pc = "done" => ~SentFor(id, toServer, toServer')]_vars

(***************************************************************************)
(* Liveness.                                                               *)
(***************************************************************************)

(* Every call that is made is settled, and every handler that is started   *)
(* returns.                                                                *)
CallsSettle == \A id \in Id : [](call[id].pc # "idle" => <>(call[id].pc = "done"))
HandlersEnd == \A id \in Id : [](srv[id].pc # "off" => <>(srv[id].pc = "done"))

(* A deadline bounds a unary call whatever its handler, the server and the *)
(* wire do: nothing but the client's own event loop is needed.             *)
DeadlineBoundsUnary ==
  \A id \in Id : [](call[id].kind = UNARY /\ call[id].timer => <>(call[id].pc = "done"))

(* When a call is rejected while the connection lives and its deadline has *)
(* not passed (which, like an ERROR, leaves its stream in error), its      *)
(* handler is not left waiting for requests that will never come.          *)
RejectionFreesHandler ==
  \A id \in Id :
    [](call[id].outcome = "rejected" /\ call[id].pc = "done" /\ cStream[id].state # "error"
         => <>(srv[id].pc \notin {"first", "second", "pull"} \/ faults > 0))

(***************************************************************************)
(* What the documents say.                                                 *)
(***************************************************************************)

(* docs/PROTOCOL.md, HALF_CLOSE: "Client-streaming: Client sends           *)
(* HALF_CLOSE after the last request MESSAGE."  Here: when the request     *)
(* loop of a clientStream is over, the server's stream hears of it (or of  *)
(* a cancellation), or its handler has returned.                           *)
RequestsEndIsHeard ==
  \A id \in Id : [](call[id].kind = CLIENT_STREAMING /\ call[id].snd = "done"
                      => <>(sStream[id].state # "open" \/ srv[id].pc = "done"))
=============================================================================
