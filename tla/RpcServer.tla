----------------------------- MODULE RpcServer ------------------------------
(***************************************************************************)
(* RpcServer (packages/rpc-core/src/server.ts) with its StreamManager, and *)
(* the handlers the host registered.  As in RpcClient, one action is one   *)
(* turn of the event loop; pc names the await dispatchMethod stands at.    *)
(*                                                                         *)
(*   off      no handler was ever started for this id                      *)
(*   first    collectUnary: waits for the request                          *)
(*   second   collectUnary: waits for the client's half-close              *)
(*   run      the handler runs, or awaits something of its own             *)
(*   pull     the handler awaits the next request of its iterable          *)
(*   settle   handleX returned or threw, catch and finally have yet to run *)
(*   done     dispatchMethod has returned                                  *)
(***************************************************************************)
EXTENDS RpcWire

CONSTANTS HandlerCodes,   \* codes of the errors handlers throw
          MaxResponses    \* bound on the responses a streaming handler yields

ASSUME ServerAssumption == HandlerCodes \subseteq Nat /\ MaxResponses \in Nat

VARIABLES sStreams,  \* ids in the StreamManager's map
          sStream,   \* the Stream of every accepted call
          srv        \* the local variables of every dispatchMethod

serverVars == <<sStreams, sStream, srv>>

Dispatch == [pc : {"off", "first", "second", "run", "pull", "settle", "done"},
             method : MethodType,
             reqs : {"live", "ended", "failed"},   \* what the request iterable has told
             got : Seq(Nat), yielded : Nat,
             outcome : {"none", "ok", "failed", "silent"}, code : Nat]
NoDispatch == [pc |-> "off", method |-> UNARY, reqs |-> "live", got |-> <<>>, yielded |-> 0,
               outcome |-> "none", code |-> 0]

ServerTypeOK ==
  /\ sStreams \subseteq Id
  /\ sStream \in [Id -> StreamObject]
  /\ srv \in [Id -> Dispatch]

ServerInit ==
  /\ sStreams = {}
  /\ sStream = [id \in Id |-> NewStream]
  /\ srv = [id \in Id |-> NoDispatch]

SetSStream(id, s) == sStream' = [sStream EXCEPT ![id] = s]
SetSrv(id, d)     == srv' = [srv EXCEPT ![id] = d]
Return(d, outcome) == [d EXCEPT !.pc = "settle", !.outcome = outcome]
Throw(d, code)     == [d EXCEPT !.pc = "settle", !.outcome = "failed", !.code = code]

(* sendError: best effort. *)
ErrorFrames(id, code) == IF ServerCanSend THEN <<ErrorFrame(id, code)>> ELSE <<>>

(***************************************************************************)
(* Frames.                                                                 *)
(***************************************************************************)
OpenError(id, method) ==
  CASE method = MALFORMED    -> INVALID_ARGUMENT
    [] method = UNREGISTERED -> UNIMPLEMENTED
    [] OTHER                 -> IF id \in sStreams THEN INTERNAL ELSE 0

(* handleOpen and the part of dispatchMethod that runs before the first    *)
(* await: collectUnary's nextItem, or the call of the streaming handler.   *)
HandleOpen(f) ==
  LET id == f.streamId
      error == OpenError(id, f.arg)
  IN \/ /\ error # 0
        /\ toClient' = (IF cOpen THEN toClient \o ErrorFrames(id, error) ELSE toClient)
        /\ UNCHANGED serverVars
     \/ /\ error = 0
        /\ sStreams' = sStreams \cup {id}
        /\ SetSStream(id, IF f.arg \in {UNARY, SERVER_STREAMING}
                          THEN NextItem(SetState(NewStream, "open"))
                          ELSE SetState(NewStream, "open"))
        /\ SetSrv(id, [NoDispatch EXCEPT !.method = f.arg,
                         !.pc = IF f.arg \in {UNARY, SERVER_STREAMING} THEN "first" ELSE "run"])
        /\ UNCHANGED toClient

ServerReceive(s, f) ==
  CASE f.body = "message"   -> Push(s, Message(f.arg))
    [] f.body = "halfClose" -> Push(SetState(s, IF s.state = "half_closed_local"
                                                THEN "half_closed_both"
                                                ELSE "half_closed_remote"), End)
    [] f.body = "cancel"    -> Cancel(s)
    [] f.body = "error"     -> Push(s, Error(FromFrame(f.arg)))
    [] OTHER                -> s

(* Every other frame; CANCEL and ERROR also end the registration. *)
HandleStreamFrame(f) ==
  /\ sStream' = [id \in Id |-> IF id = f.streamId /\ id \in sStreams
                                      THEN ServerReceive(sStream[id], f) ELSE sStream[id]]
  /\ sStreams' = (IF f.body \in {"cancel", "error"} THEN sStreams \ {f.streamId} ELSE sStreams)
  /\ UNCHANGED <<srv, toClient>>

ServerHandleFrame ==
  /\ toServer # <<>>
  /\ LET f == Head(toServer) IN
     \/ f.body = "open" /\ HandleOpen(f)
     \/ f.body # "open" /\ HandleStreamFrame(f)
  /\ toServer' = Tail(toServer)
  /\ UNCHANGED <<cOpen, sOpen, faults>>

(***************************************************************************)
(* The handlers.                                                           *)
(***************************************************************************)
(* handleUnary, handleServerStream: collectUnary, then the handler is called. *)
ServerCollect(id) ==
  LET d == srv[id]
      s == Consume(sStream[id])
      item == sStream[id].hand
  IN /\ d.pc \in {"first", "second"} /\ Resolved(sStream[id])
     /\ \/ /\ item.type = "message" /\ d.pc = "first"
           /\ SetSStream(id, NextItem(s))
           /\ SetSrv(id, [d EXCEPT !.pc = "second", !.got = Append(@, item.val)])
        \/ /\ item.type = "end" /\ d.pc = "second"
           /\ SetSStream(id, s)
           /\ SetSrv(id, [d EXCEPT !.pc = "run", !.reqs = "ended"])
        \/ /\ item.type = "error"
           /\ SetSStream(id, s)
           /\ SetSrv(id, Throw(d, item.val))
        \/ /\ item.type = (IF d.pc = "first" THEN "end" ELSE "message")
           /\ SetSStream(id, s)
           /\ SetSrv(id, Throw(d, INTERNAL))
     /\ UNCHANGED <<sStreams, wireVars>>

(* The iterable of createReceiveIterable: next() asks messages() for an item. *)
HandlerPull(id) ==
  /\ srv[id].pc = "run" /\ srv[id].method \in {CLIENT_STREAMING, BIDI_STREAMING}
  /\ srv[id].reqs = "live"
  /\ SetSStream(id, NextItem(sStream[id]))
  /\ SetSrv(id, [srv[id] EXCEPT !.pc = "pull"])
  /\ UNCHANGED <<sStreams, wireVars>>

(* An error of the iterable ends the handler unless the handler catches it. *)
HandlerGot(id) ==
  LET d == srv[id]
      item == sStream[id].hand
  IN /\ d.pc = "pull" /\ Resolved(sStream[id])
     /\ SetSStream(id, Consume(sStream[id]))
     /\ \/ /\ item.type = "message"
           /\ SetSrv(id, [d EXCEPT !.pc = "run", !.got = Append(@, item.val)])
        \/ /\ item.type = "end"
           /\ SetSrv(id, [d EXCEPT !.pc = "run", !.reqs = "ended"])
        \/ /\ item.type = "error"
           /\ SetSrv(id, Throw([d EXCEPT !.reqs = "failed"], item.val))
        \/ /\ item.type = "error"
           /\ SetSrv(id, [d EXCEPT !.pc = "run", !.reqs = "failed"])
     /\ UNCHANGED <<sStreams, wireVars>>

(* handleServerStream, handleBidiStream: the body of the for-await loop    *)
(* first looks at the state; the slip is not to.                           *)
NeverStops(s)    == FALSE
StopsYielding(s) == s.state = "cancelled"

HandlerYield(id) ==
  LET d == srv[id]
      n == d.yielded + 1
  IN /\ d.pc = "run" /\ d.method \in {SERVER_STREAMING, BIDI_STREAMING}
     /\ n <= MaxResponses
     /\ \/ /\ StopsYielding(sStream[id])
           /\ SetSrv(id, Return(d, "silent")) /\ PostToClient(<<>>)
        \/ /\ ~StopsYielding(sStream[id]) /\ ServerCanSend
           /\ SetSrv(id, [d EXCEPT !.yielded = n])
           /\ PostToClient(<<MessageFrame(id, n)>>)
        \/ /\ ~StopsYielding(sStream[id]) /\ ~ServerCanSend
           /\ SetSrv(id, Throw(d, INTERNAL)) /\ PostToClient(<<>>)
     /\ NoFault /\ UNCHANGED <<sStreams, sStream>>

(* A plausible slip: a half-closed stream is taken for a closed one. *)
NoClose(id, d) == IF d.method = BIDI_STREAMING THEN <<HalfCloseFrame(id)>>
                  ELSE <<MessageFrame(id, 1), CloseFrame(id)>>

(* What the four handleX functions send when the handler has finished. *)
FinalFrames(id, d) ==
  CASE d.method \in {UNARY, CLIENT_STREAMING} -> <<MessageFrame(id, 1), CloseFrame(id)>>
    [] d.method = SERVER_STREAMING            -> <<CloseFrame(id)>>
    [] OTHER                                  -> <<HalfCloseFrame(id), CloseFrame(id)>>

HandlerFinish(id) ==
  LET d == srv[id] IN
  /\ d.pc = "run"
  /\ \/ /\ sStream[id].state \in {"cancelled", "error"}
        /\ SetSrv(id, Return(d, "silent")) /\ PostToClient(<<>>)
        /\ UNCHANGED sStream
     \/ /\ sStream[id].state \notin {"cancelled", "error"} /\ ServerCanSend
        /\ PostToClient(FinalFrames(id, d))
        /\ SetSStream(id, SetState(sStream[id], "closed"))
        /\ SetSrv(id, [Return(d, "ok") EXCEPT !.yielded =
                         IF d.method \in {UNARY, CLIENT_STREAMING} THEN 1 ELSE @])
     \/ /\ sStream[id].state \notin {"cancelled", "error"} /\ ~ServerCanSend
        /\ SetSrv(id, Throw(d, INTERNAL)) /\ PostToClient(<<>>)
        /\ UNCHANGED sStream
  /\ NoFault /\ UNCHANGED sStreams

HandlerThrow(id) ==
  /\ srv[id].pc = "run"
  /\ \E code \in HandlerCodes : SetSrv(id, Throw(srv[id], code))
  /\ UNCHANGED <<sStreams, sStream, wireVars>>

(* catch and finally of dispatchMethod. *)
SettleDispatch(id) ==
  LET d == srv[id] IN
  /\ d.pc = "settle"
  /\ PostToClient(IF d.outcome = "failed" /\ sStream[id].state # "cancelled"
                  THEN ErrorFrames(id, d.code) ELSE <<>>)
  /\ SetSrv(id, [d EXCEPT !.pc = "done"])
  /\ sStreams' = sStreams \ {id}
  /\ NoFault /\ UNCHANGED sStream

(***************************************************************************)
(* The end of the transport.                                               *)
(***************************************************************************)
CancelAllServerStreams ==
  /\ sStream' = [id \in Id |->
                   IF id \in sStreams THEN Cancel(sStream[id]) ELSE sStream[id]]
  /\ sStreams' = {}
  /\ UNCHANGED srv

(* close() and handleTransportClose leave the same state behind. *)
ServerClose == CloseServerSide /\ CancelAllServerStreams /\ Fault

ServerTransportError ==
  sOpen /\ CancelAllServerStreams /\ Fault /\ UNCHANGED <<cOpen, sOpen, toServer, toClient>>

(* What runs by itself, and what the host's handler chooses. *)
ServerContinue(id) == ServerCollect(id) \/ HandlerGot(id) \/ SettleDispatch(id)
HandlerMoves(id)   == HandlerPull(id) \/ HandlerYield(id) \/ HandlerFinish(id) \/ HandlerThrow(id)

ServerNext ==
  \/ ServerHandleFrame
  \/ \E id \in Id : ServerContinue(id) \/ HandlerMoves(id)
  \/ ServerClose
  \/ ServerTransportError
=============================================================================
