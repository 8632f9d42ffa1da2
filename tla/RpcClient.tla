----------------------------- MODULE RpcClient ------------------------------
(***************************************************************************)
(* RpcClient (packages/rpc-core/src/client.ts) with its StreamManager, and *)
(* the application that makes the calls.                                   *)
(*                                                                         *)
(* JavaScript runs one handler at a time, so a handler is one action, and  *)
(* an async function is cut at its awaits: pc names the await it stands at.*)
(*                                                                         *)
(*   idle     the call has not been made                                   *)
(*   send     clientStream: in the loop over the application's requests    *)
(*   first    collectUnary: waits for the response                         *)
(*   second   collectUnary: waits for the end of the stream                *)
(*   iter     messages(): waits for an item                                *)
(*   yield    serverStream, bidiStream: suspended at `yield msg`           *)
(*   settle   the outcome is known, catch and finally have yet to run      *)
(*   done     the promise or the iterator handed out is settled            *)
(*                                                                         *)
(* snd is the loop over the requests: bidiStream runs it beside the loop   *)
(* over the responses (sendDone), clientStream before it.                  *)
(***************************************************************************)
EXTENDS RpcWire

CONSTANTS Calls,         \* pairs <<pattern of the call, what its method name finds>>
          Signals,       \* options.signal of a call: "none", "armed" or "aborted"
          Deadlines,     \* whether a call has a deadline
          Breaks,        \* whether the application may leave an iteration early
          MaxRequests    \* bound on the requests an application's iterable yields

ASSUME ClientAssumption ==
  /\ Calls \subseteq MethodType \X Method
  /\ Signals \subseteq {"none", "armed", "aborted"}
  /\ Deadlines \subseteq BOOLEAN
  /\ Breaks \in BOOLEAN
  /\ MaxRequests \in Nat

VARIABLES nextStreamId,  \* the StreamManager's counter
          cStreams,      \* ids in the StreamManager's map
          cStream,       \* the Stream of every call
          call           \* the local variables of every call

clientVars == <<nextStreamId, cStreams, cStream, call>>

LocalError == 99  \* the code of an error that is not an RpcError
Call == [kind : MethodType,
         pc : {"idle", "send", "first", "second", "iter", "yield", "settle", "done"},
         snd : {"off", "pull", "done"},
         signal : {"none", "armed", "aborted"}, timer : BOOLEAN,
         outcome : {"none", "resolved", "rejected", "returned"}, code : Nat,
         received : Seq(Nat), sent : Nat]
NoCall == [kind |-> UNARY, pc |-> "idle", snd |-> "off", signal |-> "none", timer |-> FALSE,
           outcome |-> "none", code |-> 0, received |-> <<>>, sent |-> 0]

ClientTypeOK ==
  /\ nextStreamId \in Nat
  /\ cStreams \subseteq Id
  /\ cStream \in [Id -> StreamObject]
  /\ call \in [Id -> Call]

ClientInit ==
  /\ nextStreamId = 1
  /\ cStreams = {}
  /\ cStream = [id \in Id |-> NewStream]
  /\ call = [id \in Id |-> NoCall]

SetCStream(id, s) == cStream' = [cStream EXCEPT ![id] = s]
SetCall(id, c)    == call' = [call EXCEPT ![id] = c]
Decide(c, outcome, code) ==
  [c EXCEPT !.pc = "settle", !.outcome = outcome, !.code = code]

(* StreamManager.removeStream, and the slip of a finally without it. *)
KeepStream(id)   == UNCHANGED cStreams
RemoveStream(id) == cStreams' = cStreams \ {id}

(* A plausible slip in cancelStream: the server is never told. *)
TellNobody(id, s) == <<>>

(* cancelStream: best effort, and only for a stream neither CLOSED nor ERROR. *)
CancelFrames(id, s) ==
  IF ClientCanSend /\ s.state \notin {"closed", "error"} THEN <<CancelFrame(id)>> ELSE <<>>

(***************************************************************************)
(* Making a call: ensureOpen, createStream, setupCancellation, and the     *)
(* frames up to the first await.  A signal already aborted cancels the     *)
(* stream first; open() and setState() then overwrite that state.          *)
(***************************************************************************)
Prepared(signal) == IF signal = "aborted" THEN Cancel(NewStream) ELSE NewStream
NewCall(kind, signal, deadline) ==
  [NoCall EXCEPT !.kind = kind, !.signal = signal, !.timer = deadline]

(* cleanup: the timer is cleared and the signal no longer listened to. *)
Cleanup(c) == [c EXCEPT !.timer = FALSE, !.signal = IF @ = "armed" THEN "none" ELSE @]

(* A plausible slip in createStream: ids one apart. *)
EnsureOpenDense(id) == cOpen /\ id = nextStreamId /\ id \in Id /\ nextStreamId' = nextStreamId + 1

(* And another: the counter is not advanced. *)
EnsureOpenReuse(id) == cOpen /\ id = nextStreamId /\ id \in Id /\ UNCHANGED nextStreamId

(* ensureOpen and createStream *)
EnsureOpen(id) ==
  /\ cOpen
  /\ id = nextStreamId /\ id \in Id
  /\ nextStreamId' = nextStreamId + 2

StartSingleRequest(id, kind, method, signal, deadline) ==
  /\ EnsureOpen(id) /\ NoFault
  /\ kind \in {UNARY, SERVER_STREAMING}
  /\ ClientCanSend
  /\ PostToServer(<<OpenFrame(id, method), MessageFrame(id, 1), HalfCloseFrame(id)>>)
  /\ SetCStream(id, NextItem(SetState(Prepared(signal), "half_closed_local")))
  /\ SetCall(id, [NewCall(kind, signal, deadline) EXCEPT
                    !.pc = IF kind = UNARY THEN "first" ELSE "iter", !.sent = 1])
  /\ cStreams' = cStreams \cup {id}

StartRequestStream(id, kind, method, signal, deadline) ==
  LET s == SetState(Prepared(signal), "open") IN
  /\ EnsureOpen(id) /\ NoFault
  /\ kind \in {CLIENT_STREAMING, BIDI_STREAMING}
  /\ ClientCanSend
  /\ PostToServer(<<OpenFrame(id, method)>>)
  /\ SetCStream(id, IF kind = BIDI_STREAMING THEN NextItem(s) ELSE s)
  /\ SetCall(id, [NewCall(kind, signal, deadline) EXCEPT
                    !.pc = IF kind = BIDI_STREAMING THEN "iter" ELSE "send", !.snd = "pull"])
  /\ cStreams' = cStreams \cup {id}

(* A send of the first frames throws: on OPEN because a loopback peer is   *)
(* closed, or on MESSAGE because the payload cannot be cloned, after which *)
(* cancelStream tells the server.  catch and finally run at once.          *)
StartFails(id, kind, method, signal, deadline) ==
  /\ EnsureOpen(id)
  /\ \/ /\ ~ClientCanSend
        /\ PostToServer(<<>>) /\ NoFault
        /\ SetCStream(id, Prepared(signal))
     \/ /\ ClientCanSend /\ kind \in {UNARY, SERVER_STREAMING}
        /\ PostToServer(<<OpenFrame(id, method), CancelFrame(id)>>) /\ Fault
        /\ SetCStream(id, SetState(Prepared(signal), "open"))
  /\ SetCall(id, [Cleanup(NewCall(kind, signal, FALSE)) EXCEPT
                    !.pc = "done", !.outcome = "rejected", !.code = LocalError])
  /\ UNCHANGED cStreams

(***************************************************************************)
(* Consuming the responses.                                                *)
(***************************************************************************)
CollectUnary(id) ==
  LET c == call[id]
      s == Consume(cStream[id])
      item == cStream[id].hand
  IN /\ c.pc \in {"first", "second"} /\ Resolved(cStream[id])
     /\ \/ /\ item.type = "message" /\ c.pc = "first"
           /\ SetCStream(id, NextItem(s))
           /\ SetCall(id, [c EXCEPT !.pc = "second", !.received = Append(@, item.val)])
        \/ /\ item.type = "end" /\ c.pc = "second"
           /\ SetCStream(id, s)
           /\ SetCall(id, Decide(c, "resolved", 0))
        \/ /\ item.type = "error"
           /\ SetCStream(id, s)
           /\ SetCall(id, Decide(c, "rejected", item.val))
        \/ /\ item.type = (IF c.pc = "first" THEN "end" ELSE "message")
           /\ SetCStream(id, s)
           /\ SetCall(id, Decide(c, "rejected", INTERNAL))
     /\ UNCHANGED <<nextStreamId, cStreams, wireVars>>

Iterate(id) ==
  LET c == call[id]
      item == cStream[id].hand
  IN /\ c.pc = "iter" /\ Resolved(cStream[id])
     /\ SetCStream(id, Consume(cStream[id]))
     /\ \/ /\ item.type = "message"
           /\ SetCall(id, [c EXCEPT !.pc = "yield", !.received = Append(@, item.val)])
        \/ /\ item.type = "end"
           /\ SetCall(id, Decide(c, "resolved", 0))
        \/ /\ item.type = "error"
           /\ SetCall(id, Decide(c, "rejected", item.val))
     /\ UNCHANGED <<nextStreamId, cStreams, wireVars>>

(* The application asks for the next response, or leaves its for-await loop. *)
AppNext(id) ==
  /\ call[id].pc = "yield"
  /\ SetCStream(id, NextItem(cStream[id]))
  /\ SetCall(id, [call[id] EXCEPT !.pc = "iter"])
  /\ UNCHANGED <<nextStreamId, cStreams, wireVars>>

AppReturn(id) ==
  /\ Breaks /\ call[id].pc = "yield"
  /\ SetCall(id, Decide(call[id], "returned", 0))
  /\ UNCHANGED <<nextStreamId, cStreams, cStream, wireVars>>

(* bidiStream awaits sendDone before it lets go; the slip is not to. *)
NotAwaited(c)      == TRUE
RequestLoopOver(c) == c.snd # "pull"

(* catch and finally. *)
SettleCall(id) ==
  LET c == call[id] IN
  /\ c.pc = "settle" /\ RequestLoopOver(c)
  /\ PostToServer(IF c.outcome = "rejected" THEN CancelFrames(id, cStream[id]) ELSE <<>>)
  /\ SetCall(id, Cleanup([c EXCEPT !.pc = "done"]))
  /\ RemoveStream(id)
  /\ NoFault /\ UNCHANGED <<nextStreamId, cStream>>

(***************************************************************************)
(* The loop over the application's requests.                               *)
(***************************************************************************)
(* A plausible slip: the loop goes on. *)
KeepSending(id, s) == SetCStream(id, s) /\ UNCHANGED call

(* The code after the loop. *)
StopSending(id, s) ==
  LET c == [call[id] EXCEPT !.snd = "done"] IN
  IF c.kind = CLIENT_STREAMING
  THEN SetCStream(id, NextItem(s)) /\ SetCall(id, [c EXCEPT !.pc = "first"])
  ELSE SetCStream(id, s) /\ SetCall(id, c)

(* The loop throws: clientStream rejects, bidiStream only logs. *)
SendingThrows(id) ==
  LET c == [call[id] EXCEPT !.snd = "done"] IN
  /\ SetCall(id, IF c.kind = CLIENT_STREAMING THEN Decide(c, "rejected", LocalError) ELSE c)
  /\ PostToServer(<<>>) /\ UNCHANGED cStream

SendRequest(id) ==
  LET s == cStream[id]
      n == call[id].sent + 1
  IN /\ call[id].snd = "pull" /\ n <= MaxRequests
     /\ \/ /\ s.state \in {"cancelled", "error"}
           /\ StopSending(id, s) /\ PostToServer(<<>>)
        \/ /\ s.state \notin {"cancelled", "error"} /\ ClientCanSend
           /\ PostToServer(<<MessageFrame(id, n)>>)
           /\ SetCall(id, [call[id] EXCEPT !.sent = n])
           /\ UNCHANGED cStream
        \/ /\ s.state \notin {"cancelled", "error"} /\ ~ClientCanSend
           /\ SendingThrows(id)
     /\ NoFault /\ UNCHANGED <<nextStreamId, cStreams>>

EndRequests(id) ==
  LET s == cStream[id] IN
  /\ call[id].snd = "pull"
  /\ \/ /\ s.state = "open" /\ ClientCanSend
        /\ PostToServer(<<HalfCloseFrame(id)>>)
        /\ StopSending(id, SetState(s, "half_closed_local"))
     \/ /\ s.state = "open" /\ ~ClientCanSend
        /\ SendingThrows(id)
     \/ /\ s.state # "open"
        /\ StopSending(id, s) /\ PostToServer(<<>>)
  /\ NoFault /\ UNCHANGED <<nextStreamId, cStreams>>

RequestsThrow(id) ==
  /\ call[id].snd = "pull" /\ Fault
  /\ SendingThrows(id)
  /\ UNCHANGED <<nextStreamId, cStreams>>

(***************************************************************************)
(* Frames, the signal, the deadline, and the end of the transport.         *)
(***************************************************************************)
ClientReceive(s, f) ==
  CASE f.body = "message"   -> Push(s, Message(f.arg))
    [] f.body = "close"     -> Push(SetState(s, "closed"), End)
    [] f.body = "error"     -> Push(SetState(s, "error"), Error(FromFrame(f.arg)))
    [] f.body = "halfClose" -> SetState(s, IF s.state = "half_closed_local"
                                           THEN "half_closed_both" ELSE "half_closed_remote")
    [] f.body = "cancel"    -> Cancel(s)
    [] OTHER                -> s

ClientHandleFrame ==
  /\ toClient # <<>>
  /\ LET f == Head(toClient) IN
     cStream' = [id \in Id |-> IF id = f.streamId /\ id \in cStreams
                               THEN ClientReceive(cStream[id], f) ELSE cStream[id]]
  /\ toClient' = Tail(toClient)
  /\ UNCHANGED <<nextStreamId, cStreams, call, cOpen, sOpen, toServer, faults>>

(* A plausible slip in the abort handler: cancelAll for cancel. *)
AbortEvery(id) ==
  /\ call[id].signal = "armed"
  /\ cStream' = [i \in Id |-> IF i \in cStreams THEN Cancel(cStream[i]) ELSE cStream[i]]
  /\ PostToServer(CancelFrames(id, Cancel(cStream[id])))
  /\ SetCall(id, [call[id] EXCEPT !.signal = "aborted"])
  /\ NoFault /\ UNCHANGED <<nextStreamId, cStreams>>

(* The abort handler cancels the stream and tells the server. *)
Abort(id) ==
  LET s == Cancel(cStream[id]) IN
  /\ call[id].signal = "armed"
  /\ SetCStream(id, s)
  /\ PostToServer(CancelFrames(id, s))
  /\ SetCall(id, [call[id] EXCEPT !.signal = "aborted"])
  /\ NoFault /\ UNCHANGED <<nextStreamId, cStreams>>

(* A plausible slip in the timer: whoever waits is not told. *)
ExpireQuietly(s) == SetState(s, "error")

(* The state is ERROR before cancelStream looks at it, so no frame is sent. *)
Expire(s) == SetState(Push(s, Error(DEADLINE_EXCEEDED)), "error")

DeadlineFires(id) ==
  LET s == cStream[id]
      s1 == IF s.state \in {"open", "half_closed_local", "half_closed_remote"}
            THEN Expire(s) ELSE s
  IN /\ call[id].timer
     /\ SetCStream(id, s1)
     /\ PostToServer(IF s1 # s THEN CancelFrames(id, s1) ELSE <<>>)
     /\ SetCall(id, [call[id] EXCEPT !.timer = FALSE])
     /\ NoFault /\ UNCHANGED <<nextStreamId, cStreams>>

CancelAllClientStreams ==
  /\ cStream' = [id \in Id |-> IF id \in cStreams THEN Cancel(cStream[id]) ELSE cStream[id]]
  /\ cStreams' = {}
  /\ UNCHANGED <<nextStreamId, call>>

(* close() and handleTransportClose leave the same state behind. *)
ClientClose == CloseClientSide /\ CancelAllClientStreams /\ Fault

ClientTransportError ==
  cOpen /\ CancelAllClientStreams /\ Fault /\ UNCHANGED <<cOpen, sOpen, toServer, toClient>>

ClientStart(id) ==
  \E c \in Calls, signal \in Signals, deadline \in Deadlines :
    \/ StartSingleRequest(id, c[1], c[2], signal, deadline)
    \/ StartRequestStream(id, c[1], c[2], signal, deadline)
    \/ StartFails(id, c[1], c[2], signal, deadline)

(* The continuations of one call, without the application's own moves. *)
ClientContinue(id) == CollectUnary(id) \/ Iterate(id) \/ SettleCall(id)

ClientNext ==
  \/ \E id \in Id : \/ ClientStart(id) \/ ClientContinue(id) \/ AppNext(id) \/ AppReturn(id)
                    \/ SendRequest(id) \/ EndRequests(id) \/ RequestsThrow(id)
                    \/ Abort(id) \/ DeadlineFires(id)
  \/ ClientHandleFrame
  \/ ClientClose
  \/ ClientTransportError
=============================================================================
