----------------------------- MODULE KotlinHost -----------------------------
(***************************************************************************)
(* The Android host: RpcBridgeServer and NativeBridgeTransport of          *)
(* rpc-core-android, the dispatchers gen-kotlin.ts generates and the       *)
(* activity that joins them.                                               *)
(*                                                                         *)
(* Three kinds of threads.  The WebView's bridge thread handles frames,    *)
(* one at a time, and the page's script waits for it.  A coroutine of the  *)
(* worker pool serves each stream.  The main thread runs the posted script *)
(* calls and onDestroy.  Only handleFrame takes the server's lock, so the  *)
(* steps of handleOpen and handleCancel interleave with the workers and    *)
(* with close().                                                           *)
(***************************************************************************)
EXTENDS NativeHost

VARIABLES bridge,    \* where the bridge thread stands inside a handler
          hasJob,    \* whether handlerJob of each object has been assigned
          activity,  \* where the main thread stands in onDestroy
          sweep      \* the streams close() has still to visit

androidVars == <<bridge, hasJob, activity, sweep>>
vars == <<pageVars, hostVars, androidVars>>

KotlinState == {"idle", "OPEN", "HALF_CLOSED_REMOTE", "CLOSED", "CANCELLED"}
KotlinPc == {"off", "listed", "launched", "first", "run", "items", "item", "sending", "end", "message",
             "close", "closed", "caught", "error", "unlist", "finally", "done"}
Activity == {"alive", "closing", "sweeping", "swept", "destroyed"}

(***************************************************************************)
(* Frames from the page, on the bridge thread.                             *)
(***************************************************************************)
Free == bridge = [at |-> "idle", call |-> 0]
BridgeAt(at, c) == bridge' = [at |-> at, call |-> c]
NotBridge == UNCHANGED <<bridge, hasJob, activity, sweep>>

(* handlerJob?.cancel(): nothing happens to a job that has ended. *)
CancelJob(t) == IF t.pc \in {"off", "done"} THEN t
                ELSE [t EXCEPT !.interrupted = TRUE, !.cancelled = TRUE]

(* An OPEN inserts its object first.  Nobody asks whether the id is taken. *)
handleOpen ==
  /\ Free /\ Arrived("open")
  /\ LET method == Frame1.arg IN
       \/ method = MALFORMED /\ Refuse(INVALID_ARGUMENT) /\ Unlist(Frame1.streamId)
          /\ UNCHANGED bridge
       \/ method = UNREGISTERED /\ Refuse(UNIMPLEMENTED) /\ Unlist(Frame1.streamId)
          /\ UNCHANGED bridge
       \/ /\ method \notin {MALFORMED, UNREGISTERED}
          /\ streams' = [streams EXCEPT ![Frame1.streamId] = From]
          /\ Update(From, [NoTask EXCEPT !.pc = "listed", !.method = method, !.state = "OPEN"])
          /\ BridgeAt("launch", From) /\ Received
  /\ UNCHANGED <<attached, hasJob, activity, sweep>>

(* Where dispatchJSON starts. *)
DispatchTo(method) ==
  CASE method \in {UNARY, SERVER_STREAMING} -> "first"
    [] method = CLIENT_STREAMING            -> "run"
    [] method = BIDI_STREAMING              -> "items"
    [] method = NO_SUCH_METHOD              -> "caught"

(* scope.launch: a cancelled scope makes a coroutine that is over.         *)
Launch ==
  /\ bridge.at = "launch"
  /\ LET c == bridge.call IN
       /\ Update(c, IF activity = "destroyed" THEN [CancelJob(task[c]) EXCEPT !.pc = "done"]
                    ELSE [task[c] EXCEPT !.pc = "launched"])
       /\ BridgeAt("assign", c)
  /\ UNCHANGED <<pageVars, streams, attached, hasJob, activity, sweep>>

AssignJob ==
  /\ bridge.at = "assign"
  /\ hasJob' = [hasJob EXCEPT ![bridge.call] = TRUE]
  /\ BridgeAt("idle", 0)
  /\ UNCHANGED <<pageVars, hostVars, activity, sweep>>

handleMessage ==
  /\ Free /\ Arrived("message") /\ Received
  /\ IF Target = 0 \/ task[Target].state \in {"CANCELLED", "CLOSED"} \/ task[Target].finished
     THEN UNCHANGED task
     ELSE task' = [task EXCEPT ![Target].queue = Append(@, <<From, Frame1.arg>>)]
  /\ UNCHANGED <<streams, attached>> /\ NotBridge

handleHalfClose ==
  /\ Free /\ Arrived("halfClose") /\ Received
  /\ IF Target = 0 THEN UNCHANGED task
     ELSE Update(Target, [task[Target] EXCEPT !.state = "HALF_CLOSED_REMOTE", !.finished = TRUE])
  /\ UNCHANGED <<streams, attached>> /\ NotBridge

(* state = CANCELLED and incoming.close(), before the job is cancelled. *)
MarkCancelled(t) == [t EXCEPT !.state = "CANCELLED", !.finished = TRUE, !.cancelled = TRUE]

(* frameFromJSONObject: a body it does not know is taken for a CANCEL. *)
handleCancel ==
  /\ Free /\ (Arrived("cancel") \/ Arrived("unknown")) /\ Received
  /\ IF Target = 0 THEN UNCHANGED <<task, bridge>>
     ELSE Update(Target, MarkCancelled(task[Target])) /\ BridgeAt("cancel", Target)
  /\ UNCHANGED <<streams, attached, hasJob, activity, sweep>>

(* The job is cancelled and its stream leaves the map: nothing but the     *)
(* coroutine itself, which removes the same id, could run in between.      *)
FinishCancel ==
  /\ bridge.at = "cancel"
  /\ Update(bridge.call, CancelJob(task[bridge.call]))
  /\ Unlist(IdOf(bridge.call))
  /\ BridgeAt("idle", 0)
  /\ UNCHANGED <<pageVars, attached, hasJob, activity, sweep>>

BridgeThread ==
  /\ Android
  /\ \/ handleOpen \/ handleMessage \/ handleHalfClose \/ handleCancel
     \/ Launch \/ AssignJob \/ FinishCancel

(***************************************************************************)
(* A coroutine: the generated dispatcher, the service and the body of      *)
(* launch.  A suspension point throws once the job is cancelled; code      *)
(* between two of them runs on.                                            *)
(***************************************************************************)
Quiet == UNCHANGED <<pageVars, streams, attached>> /\ NotBridge

(* A worker takes the coroutine up.  The body of one that was cancelled    *)
(* before never runs, not even its finally clause.                         *)
Start(c) ==
  /\ task[c].pc = "launched"
  /\ Goto(c, IF task[c].interrupted THEN "done" ELSE DispatchTo(task[c].method)) /\ Quiet

(* messages.first() *)
TakeFirst(c) ==
  LET t == task[c] IN
  /\ t.pc = "first" /\ t.queue # <<>>
  /\ Update(c, [Take(t) EXCEPT !.pc = IF StreamsResponses(t) THEN "items" ELSE "run"])
  /\ Quiet

NoFirst(c) ==
  /\ task[c].pc = "first" /\ task[c].queue = <<>> /\ task[c].finished
  /\ Goto(c, "caught") /\ Quiet

TakeRequest(c) ==
  LET t == task[c] IN
  /\ t.pc \in {"run", "items"} /\ StreamsRequests(t) /\ t.queue # <<>> /\ ~t.ended
  /\ Update(c, Take(t)) /\ Quiet

RequestsEnd(c) ==
  LET t == task[c] IN
  /\ t.pc \in {"run", "items"} /\ StreamsRequests(t) /\ t.queue = <<>> /\ t.finished /\ ~t.ended
  /\ Update(c, [t EXCEPT !.ended = TRUE]) /\ Quiet

(* The response is ready and its two frames follow with no further look at *)
(* the stream, or the response flow has been collected.                    *)
ServiceReturns(c) ==
  /\ task[c].pc \in {"run", "items"}
  /\ Goto(c, IF StreamsResponses(task[c]) THEN "end" ELSE "message") /\ Quiet

ServiceThrows(c) ==
  /\ task[c].pc \in {"run", "items"}
  /\ Goto(c, "caught") /\ Quiet

(* CancellationException out of a suspension point. *)
Interrupted(c) ==
  /\ task[c].pc \in {"first", "run", "items"} /\ task[c].interrupted
  /\ Goto(c, "caught") /\ Quiet

NextItem(c) ==
  /\ task[c].pc = "items" /\ task[c].made < MaxResponses
  /\ Goto(c, "item") /\ Quiet

(* if (streamInfo.state == CANCELLED) return@collect: on to the next item. *)
CheckItem(c) ==
  /\ task[c].pc = "item"
  /\ Goto(c, IF task[c].state = "CANCELLED" THEN "items" ELSE "sending") /\ Quiet

SendItem(c) ==
  /\ task[c].pc = "sending"
  /\ SendMessage(c, "items")
  /\ UNCHANGED <<streams, attached>> /\ NotBridge

CheckEnd(c) ==
  /\ task[c].pc = "end"
  /\ Goto(c, IF task[c].state = "CANCELLED" THEN "finally" ELSE "close") /\ Quiet

SendResponse(c) ==
  /\ task[c].pc = "message"
  /\ SendMessage(c, "close")
  /\ UNCHANGED <<streams, attached>> /\ NotBridge

SendEnd(c) ==
  /\ task[c].pc = "close"
  /\ SendClose(c, "closed")
  /\ UNCHANGED <<streams, attached>> /\ NotBridge

SetClosed(c) ==
  /\ task[c].pc = "closed"
  /\ Update(c, [task[c] EXCEPT !.state = "CLOSED", !.pc = "finally"]) /\ Quiet

(* A plausible slip: the errors of a half-closed stream are kept as well. *)
IsSilencedEarly(t) == t.state # "OPEN"

IsSilenced(t) == t.state = "CANCELLED"

(* catch (e: Exception), which a CancellationException is. *)
Catch(c) ==
  /\ task[c].pc = "caught"
  /\ Goto(c, IF IsSilenced(task[c]) THEN "finally" ELSE "error") /\ Quiet

SendError(c) ==
  /\ task[c].pc = "error"
  /\ SendFailure(c, INTERNAL, "unlist")
  /\ UNCHANGED <<streams, attached>> /\ NotBridge

(* Plausible slips: the stream is left in the map, or the map is emptied. *)
LeaveStream(id) == UNCHANGED streams
RemoveAllStreams(id) == streams' = [i \in Id |-> 0]

(* streams.remove(id), in sendError and in the finally clause: by id,      *)
(* whichever object is registered under it by now.                         *)
RemoveStream(id) == Unlist(id)

UnlistError(c) ==
  /\ task[c].pc = "unlist"
  /\ Goto(c, "finally") /\ RemoveStream(IdOf(c))
  /\ UNCHANGED <<pageVars, attached>> /\ NotBridge

Finally(c) ==
  /\ task[c].pc = "finally"
  /\ Goto(c, "done") /\ RemoveStream(IdOf(c))
  /\ UNCHANGED <<pageVars, attached>> /\ NotBridge

(***************************************************************************)
(* onDestroy, on the main thread.                                          *)
(***************************************************************************)

(* transport.close(): frames of both directions are dropped from now on,   *)
(* the posted ones included.  A frame that the bridge thread has let past  *)
(* its own check is still handled.                                         *)
CloseTransport ==
  /\ ShutsDown /\ Android /\ activity = "alive"
  /\ activity' = "closing" /\ attached' = FALSE
  /\ (toHost' = <<>>) \/ (toHost # <<>> /\ toHost' = <<Head(toHost)>>)
  /\ toPage' = <<>>
  /\ UNCHANGED <<platform, load, nextId, page, streams, task, bridge, hasJob, sweep>>

Listed == {c \in Call : \E id \in Id : streams[id] = c}

(* server.close(): the entries there are at the start, and perhaps later   *)
(* ones, in any order.  Neither state nor lock is touched.                 *)
StartSweep ==
  /\ activity = "closing"
  /\ activity' = "sweeping" /\ sweep' = Listed
  /\ UNCHANGED <<pageVars, hostVars, bridge, hasJob>>

SweepOne ==
  /\ activity = "sweeping"
  /\ \E c \in sweep \cup Listed :
       /\ sweep' = sweep \ {c}
       /\ Update(c, LET t == [task[c] EXCEPT !.finished = TRUE]
                    IN  IF hasJob[c] THEN CancelJob(t) ELSE t)
  /\ UNCHANGED <<pageVars, streams, attached, bridge, hasJob, activity>>

EndSweep ==
  /\ activity = "sweeping" /\ sweep = {}
  /\ activity' = "swept" /\ streams' = [id \in Id |-> 0]
  /\ UNCHANGED <<pageVars, task, attached, bridge, hasJob, sweep>>

(* A plausible slip: onDestroy stops at server.close(). *)
CancelNothing == UNCHANGED task

(* rpcScope.cancel(): every job there is. *)
CancelScope == task' = [c \in Call |-> IF task[c].pc = "listed" THEN task[c] ELSE CancelJob(task[c])]

DestroyScope ==
  /\ activity = "swept"
  /\ activity' = "destroyed" /\ CancelScope
  /\ UNCHANGED <<pageVars, streams, attached, bridge, hasJob, sweep>>

Destroy == CloseTransport \/ StartSweep \/ SweepOne \/ EndSweep \/ DestroyScope

(***************************************************************************)
(* The whole.                                                              *)
(***************************************************************************)
Init ==
  /\ Android /\ PageInit /\ HostInit
  /\ bridge = [at |-> "idle", call |-> 0]
  /\ hasJob = [c \in Call |-> FALSE]
  /\ activity = "alive" /\ sweep = {}

Runs(c) ==
  /\ Android
  /\ \/ Start(c) \/ TakeFirst(c) \/ NoFirst(c) \/ Interrupted(c) \/ CheckItem(c) \/ SendItem(c)
     \/ CheckEnd(c) \/ SendResponse(c) \/ SendEnd(c) \/ SetClosed(c) \/ Catch(c) \/ SendError(c)
     \/ UnlistError(c) \/ Finally(c)
Service(c) ==
  /\ Android
  /\ \/ TakeRequest(c) \/ RequestsEnd(c) \/ NextItem(c) \/ ServiceReturns(c) \/ ServiceThrows(c)

(* The page's script stands still while the bridge thread serves a call of *)
(* its own.                                                                *)
Waiting  == Android /\ attached /\ Free /\ UNCHANGED <<hostVars, androidVars>>
PageStep == Waiting /\ PageNext

Next == PageStep \/ BridgeThread \/ Destroy \/ \E c \in Call : Runs(c) \/ Service(c)
=============================================================================
