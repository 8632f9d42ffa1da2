----------------------------- MODULE SwiftHost ------------------------------
(***************************************************************************)
(* The iOS host: RpcBridgeServer and ServerStream of rpc-core-swift        *)
(* (Server.swift), the dispatchers gen-swift.ts generates, the WKWebView   *)
(* transport and the view controller that joins them.                      *)
(*                                                                         *)
(* Frames from the page are handled on the main actor, one at a time; each *)
(* handler holds a lock only while it looks at the map or at one stream.   *)
(* Every stream has a task of its own on another thread, which looks at    *)
(* the stream's state and sends in separate steps, and every frame it      *)
(* sends runs in yet another task on the main actor.                       *)
(***************************************************************************)
EXTENDS NativeHost

vars == <<pageVars, hostVars>>

SwiftState == {"idle", "open", "halfClosedRemote", "closed", "error", "cancelled"}
SwiftPc == {"off", "first", "run", "items", "item", "checked", "sending", "result",
            "message", "close", "closed", "failed", "remove", "done"}

(***************************************************************************)
(* Frames from the page.                                                   *)
(***************************************************************************)

(* Where the dispatcher's switch starts: the first request of a method     *)
(* that takes one, the provider's code for the others, a throw.            *)
DispatchTo(method) ==
  CASE method \in {UNARY, SERVER_STREAMING} -> "first"
    [] method = CLIENT_STREAMING            -> "run"
    [] method = BIDI_STREAMING              -> "items"
    [] method = NO_SUCH_METHOD              -> "failed"

IsDuplicate(id) == streams[id] # 0

handleOpen ==
  /\ Arrived("open")
  /\ LET id == Frame1.streamId
         method == Frame1.arg IN
       \/ method = MALFORMED /\ Refuse(INVALID_ARGUMENT) /\ UNCHANGED streams
       \/ method = UNREGISTERED /\ Refuse(UNIMPLEMENTED) /\ UNCHANGED streams
       \/ /\ method \notin {MALFORMED, UNREGISTERED} /\ IsDuplicate(id)
          /\ Refuse(INTERNAL) /\ UNCHANGED streams
       \/ /\ method \notin {MALFORMED, UNREGISTERED} /\ ~IsDuplicate(id)
          /\ streams' = [streams EXCEPT ![id] = From]
          /\ Update(From, [NoTask EXCEPT !.pc = DispatchTo(method), !.method = method,
                                         !.state = "open"])
          /\ Received
  /\ UNCHANGED attached

(* pushMessage: a finished request stream takes nothing. *)
PushMessage(t, request) ==
  IF t.finished THEN t ELSE [t EXCEPT !.queue = Append(@, request)]

handleMessage ==
  /\ Arrived("message") /\ Received
  /\ IF Target = 0 THEN UNCHANGED task
     ELSE Update(Target, PushMessage(task[Target], <<From, Frame1.arg>>))
  /\ UNCHANGED <<streams, attached>>

handleHalfClose ==
  /\ Arrived("halfClose") /\ Received
  /\ IF Target = 0 THEN UNCHANGED task
     ELSE Update(Target, [task[Target] EXCEPT !.finished = TRUE, !.state = "halfClosedRemote"])
  /\ UNCHANGED <<streams, attached>>

(* A plausible slip: the requests end, but neither state nor task learns. *)
CancelRequests(t) == [t EXCEPT !.finished = TRUE, !.cancelled = TRUE]

(* ServerStream.cancel *)
CancelTask(t) == [t EXCEPT !.finished = TRUE, !.state = "cancelled",
                           !.cancelled = TRUE, !.interrupted = TRUE]

handleCancel ==
  /\ Arrived("cancel") /\ Received
  /\ IF Target = 0 THEN UNCHANGED <<task, streams>>
     ELSE Update(Target, CancelTask(task[Target])) /\ Unlist(Frame1.streamId)
  /\ UNCHANGED attached

(* The body decodes to .unknown and is ignored. *)
handleUnknown == Arrived("unknown") /\ Received /\ UNCHANGED hostVars

HandleFrame == Ios /\ attached /\ (handleOpen \/ handleMessage \/ handleHalfClose
                            \/ handleCancel \/ handleUnknown)

(***************************************************************************)
(* The generated dispatcher and the provider behind it.                    *)
(***************************************************************************)

(* An AsyncStream has no more to give: finished, or its consumer's task    *)
(* was cancelled.                                                          *)
Ended(t) == t.finished \/ t.interrupted

(* for await data in messages { requestData = data; break } *)
TakeFirst(c) ==
  LET t == task[c] IN
  /\ t.pc = "first" /\ t.queue # <<>>
  /\ Update(c, [Take(t) EXCEPT !.pc = IF StreamsResponses(t) THEN "items" ELSE "run"])
  /\ UNCHANGED <<pageVars, streams, attached>>

MissingRequestData(c) ==
  /\ task[c].pc = "first" /\ task[c].queue = <<>> /\ Ended(task[c])
  /\ Goto(c, "failed")
  /\ UNCHANGED <<pageVars, streams, attached>>

(* The provider pulls a request from the typed stream, or is told that     *)
(* there will be no more: a finished stream, or the cancellation of the    *)
(* task that awaits, looks the same.                                       *)
TakeRequest(c) ==
  LET t == task[c] IN
  /\ t.pc \in {"run", "items"} /\ StreamsRequests(t) /\ t.queue # <<>> /\ ~t.ended
  /\ Update(c, Take(t))
  /\ UNCHANGED <<pageVars, streams, attached>>

RequestsEnd(c) ==
  LET t == task[c] IN
  /\ t.pc \in {"run", "items"} /\ StreamsRequests(t) /\ t.queue = <<>> /\ Ended(t) /\ ~t.ended
  /\ Update(c, [t EXCEPT !.ended = TRUE])
  /\ UNCHANGED <<pageVars, streams, attached>>

(* The provider returns its response, or its response stream ends. *)
ProviderReturns(c) ==
  /\ task[c].pc \in {"run", "items"}
  /\ Goto(c, "result")
  /\ UNCHANGED <<pageVars, streams, attached>>

(* It throws, or a request does not decode. *)
ProviderThrows(c) ==
  /\ task[c].pc \in {"run", "items"}
  /\ Goto(c, "failed")
  /\ UNCHANGED <<pageVars, streams, attached>>

(* catch is CancellationError: no frame. *)
ProviderCancelled(c) ==
  /\ task[c].pc \in {"run", "items"} /\ task[c].interrupted
  /\ Goto(c, "remove")
  /\ UNCHANGED <<pageVars, streams, attached>>

(***************************************************************************)
(* dispatchToHandler, one step per look at shared state.                   *)
(***************************************************************************)
NextItem(c) ==
  /\ task[c].pc = "items" /\ task[c].made < MaxResponses
  /\ Goto(c, "item")
  /\ UNCHANGED <<pageVars, streams, attached>>

(* A plausible slip: the state is not looked at before an item is sent. *)
StopsNever(t) == FALSE

(* if stream.state == .cancelled { return } *)
Stops(t) == t.state = "cancelled"

CheckItem(c) ==
  /\ task[c].pc = "item"
  /\ Goto(c, IF Stops(task[c]) THEN "done" ELSE "checked")
  /\ UNCHANGED <<pageVars, streams, attached>>

(* try Task.checkCancellation() *)
CheckCancellation(c) ==
  /\ task[c].pc = "checked"
  /\ Goto(c, IF task[c].interrupted THEN "remove" ELSE "sending")
  /\ UNCHANGED <<pageVars, streams, attached>>

SendItem(c) ==
  /\ task[c].pc = "sending"
  /\ SendMessage(c, "items")
  /\ UNCHANGED <<streams, attached>>

(* guard stream.state != .cancelled else { return } *)
CheckResult(c) ==
  /\ task[c].pc = "result"
  /\ Goto(c, IF Stops(task[c]) THEN "done"
             ELSE IF StreamsResponses(task[c]) THEN "close" ELSE "message")
  /\ UNCHANGED <<pageVars, streams, attached>>

SendResponse(c) ==
  /\ task[c].pc = "message"
  /\ SendMessage(c, "close")
  /\ UNCHANGED <<streams, attached>>

SendEnd(c) ==
  /\ task[c].pc = "close"
  /\ SendClose(c, "closed")
  /\ UNCHANGED <<streams, attached>>

CloseStream(c) ==
  /\ task[c].pc = "closed"
  /\ Update(c, [task[c] EXCEPT !.finished = TRUE, !.state = "closed", !.pc = "remove"])
  /\ UNCHANGED <<pageVars, streams, attached>>

(* Any other error, whatever the state of the stream. *)
SendErrorFrame(c) ==
  /\ task[c].pc = "failed"
  /\ SendFailure(c, INTERNAL, "remove")
  /\ UNCHANGED <<streams, attached>>

(* A plausible slip: the stream is left in the map. *)
LeaveStream(id) == UNCHANGED streams

(* removeStream: by id, whichever object is registered under it by now. *)
RemoveStream(id) == Unlist(id)

TaskEnds(c) ==
  /\ task[c].pc = "remove"
  /\ Goto(c, "done") /\ RemoveStream(IdOf(c))
  /\ UNCHANGED <<pageVars, attached>>

(* The transport's tearDown, with the server's cancelAll. *)
TearDown ==
  /\ ShutsDown /\ Ios /\ attached
  /\ attached' = FALSE
  /\ task' = [c \in Call |-> IF \E id \in Id : streams[id] = c THEN CancelTask(task[c]) ELSE task[c]]
  /\ streams' = [id \in Id |-> 0]
  /\ toHost' = <<>> /\ toPage' = <<>>
  /\ UNCHANGED <<platform, load, nextId, page>>

(***************************************************************************)
(* The whole.                                                              *)
(***************************************************************************)
Init == Ios /\ PageInit /\ HostInit

Runs(c) ==
  /\ Ios
  /\ \/ TakeFirst(c) \/ MissingRequestData(c) \/ CheckItem(c) \/ CheckCancellation(c)
     \/ SendItem(c) \/ CheckResult(c) \/ SendResponse(c) \/ SendEnd(c) \/ CloseStream(c)
     \/ SendErrorFrame(c) \/ TaskEnds(c)
Provider(c) ==
  /\ Ios
  /\ \/ TakeRequest(c) \/ RequestsEnd(c) \/ NextItem(c)
     \/ ProviderReturns(c) \/ ProviderThrows(c) \/ ProviderCancelled(c)

Next ==
  \/ Ios /\ attached /\ PageNext /\ UNCHANGED hostVars
  \/ HandleFrame \/ TearDown
  \/ \E c \in Call : Runs(c) \/ Provider(c)
=============================================================================
