--------------------------- MODULE LifecycleProofs --------------------------
(***************************************************************************)
(* Proofs about the life of a call: what registers it is undone when it    *)
(* ends, and once it has ended it is silent.  The inductive invariant adds *)
(* to IInv what a settled call has let go of, which ids are still unused,  *)
(* and which calls the two StreamManagers may still hold.                  *)
(***************************************************************************)
EXTENDS RpcProofs

Over(c)  == c.pc \in {"idle", "done"}
Ended(d) == d.pc \in {"off", "done"}

(* A settled call has no request loop, no abort listener and no timer. *)
LetGo(c) == c.pc = "done" => c.snd # "pull" /\ c.signal # "armed" /\ ~c.timer

ClientTidy ==
  /\ \A id \in Id : LetGo(call[id])
  /\ \A id \in Id : id >= nextStreamId => call[id].pc = "idle"
  /\ \A id \in cStreams : ~Over(call[id])
ServerTidy == \A id \in sStreams : ~Ended(srv[id])
Tidy == ClientTidy /\ ServerTidy

(* A step of a call that exists leaves the client tidy if it leaves that   *)
(* call tidy.                                                              *)
LEMMA CallStep ==
  ASSUME ClientPart, ClientTidy, NEW id \in Id, NEW c, LetGo(c), call[id].pc # "idle",
         call' = [call EXCEPT ![id] = c], UNCHANGED nextStreamId,
         cStreams' \subseteq cStreams, id \in cStreams' => ~Over(c)
  PROVE  ClientTidy'
<1>1. \A i \in Id : call'[i] = IF i = id THEN c ELSE call[i]
  BY DEF ClientPart
<1>2. \A i \in Id : LetGo(call'[i])
  BY <1>1 DEF ClientTidy
<1>3. \A i \in Id : i >= nextStreamId' => call'[i].pc = "idle"
  BY <1>1 DEF ClientTidy
<1>4. \A i \in cStreams' : ~Over(call'[i])
  BY <1>1 DEF ClientTidy, ClientPart
<1>5. QED
  BY <1>2, <1>3, <1>4 DEF ClientTidy

(* Most steps of a call keep it running. *)
LEMMA RunningStep ==
  ASSUME ClientPart, ClientTidy, NEW id \in Id, NEW c, ~Over(c), call[id].pc # "idle",
         call' = [call EXCEPT ![id] = c], UNCHANGED <<nextStreamId, cStreams>>
  PROVE  ClientTidy'
  BY CallStep DEF LetGo, Over

(* The others leave its pc and let go of something. *)
LEMMA SamePcStep ==
  ASSUME ClientPart, ClientTidy, NEW id \in Id, NEW c, LetGo(c), c.pc = call[id].pc,
         call' = [call EXCEPT ![id] = c], UNCHANGED <<nextStreamId, cStreams>>
  PROVE  ClientTidy'
<1>1. \A i \in Id : call'[i] = IF i = id THEN c ELSE call[i]
  BY DEF ClientPart
<1>2. \A i \in Id : call'[i].pc = call[i].pc /\ LetGo(call'[i])
  BY <1>1 DEF ClientTidy
<1>3. QED
  BY <1>2 DEF ClientTidy, ClientPart, Over

(* Making a call uses up its id. *)
LEMMA NewCallStep ==
  ASSUME ClientPart, ClientTidy, NEW id \in Id, NEW c, LetGo(c), EnsureOpen(id),
         call' = [call EXCEPT ![id] = c],
         \/ cStreams' = cStreams
         \/ cStreams' = cStreams \cup {id} /\ ~Over(c)
  PROVE  ClientTidy'
<1>1. \A i \in Id : call'[i] = IF i = id THEN c ELSE call[i]
  BY DEF ClientPart
<1>2. id = nextStreamId /\ nextStreamId' = nextStreamId + 2 /\ Id \subseteq Nat
  BY IdIsNat DEF EnsureOpen
<1>3. call[id].pc = "idle" /\ id \notin cStreams
  BY <1>2 DEF ClientTidy, Over
<1>4. \A i \in Id : LetGo(call'[i])
  BY <1>1 DEF ClientTidy
<1>5. \A i \in Id : i >= nextStreamId' => call'[i].pc = "idle"
  BY <1>1, <1>2 DEF ClientTidy
<1>6. \A i \in cStreams' : ~Over(call'[i])
  BY <1>1, <1>3 DEF ClientTidy, ClientPart
<1>7. QED
  BY <1>4, <1>5, <1>6 DEF ClientTidy

(* A call whose outcome is decided is not over: catch and finally remain. *)
LEMMA DecideRuns ==
  ASSUME NEW c \in GoodCall, NEW o, NEW code
  PROVE  ~Over(Decide(c, o, code))
<1>1. Decide(c, o, code).pc = "settle"
  BY DEF Decide, Call, GoodCall
<1>2. QED
  BY <1>1 DEF Over

(* A new call is the only one to enter the map, and it is running. *)
LEMMA ClientStartTidy ==
  ASSUME IInv, ClientTidy, NEW id \in Id, ClientStart(id)
  PROVE  ClientTidy'
<1>1. PICK p \in Calls, signal \in Signals, deadline \in Deadlines :
        \/ StartSingleRequest(id, p[1], p[2], signal, deadline)
        \/ StartRequestStream(id, p[1], p[2], signal, deadline)
        \/ StartFails(id, p[1], p[2], signal, deadline)
  BY DEF ClientStart
<1> DEFINE kind == p[1]  method == p[2]
<1>2. kind \in MethodType /\ deadline \in BOOLEAN /\ signal \in {"none", "armed", "aborted"}
  BY ClientAssumption
<1> HIDE DEF kind, method
<1>3. ClientPart
  BY DEF IInv
<1>4. /\ NewCall(kind, signal, deadline) \in Call
      /\ Cleanup(NewCall(kind, signal, FALSE)) \in Call
  BY <1>2, NewCallTyped
<1>5. CASE StartSingleRequest(id, kind, method, signal, deadline)
  <2> DEFINE c == [NewCall(kind, signal, deadline) EXCEPT
                     !.pc = IF kind = UNARY THEN "first" ELSE "iter", !.sent = 1]
  <2>1. c.pc \in {"first", "iter"} /\ call' = [call EXCEPT ![id] = c]
    BY <1>4, <1>5 DEF Call, StartSingleRequest, SetCall
  <2>2. cStreams' = cStreams \cup {id} /\ EnsureOpen(id)
    BY <1>5 DEF StartSingleRequest
  <2> HIDE DEF c
  <2>3. LetGo(c) /\ ~Over(c)
    BY <2>1 DEF LetGo, Over
  <2>4. QED
    BY <1>3, <2>1, <2>2, <2>3, NewCallStep
<1>6. CASE StartRequestStream(id, kind, method, signal, deadline)
  <2> DEFINE c == [NewCall(kind, signal, deadline) EXCEPT
                     !.pc = IF kind = BIDI_STREAMING THEN "iter" ELSE "send", !.snd = "pull"]
  <2>1. c.pc \in {"iter", "send"} /\ call' = [call EXCEPT ![id] = c]
    BY <1>4, <1>6 DEF Call, StartRequestStream, SetCall
  <2>2. cStreams' = cStreams \cup {id} /\ EnsureOpen(id)
    BY <1>6 DEF StartRequestStream
  <2> HIDE DEF c
  <2>3. LetGo(c) /\ ~Over(c)
    BY <2>1 DEF LetGo, Over
  <2>4. QED
    BY <1>3, <2>1, <2>2, <2>3, NewCallStep
<1>7. CASE StartFails(id, kind, method, signal, deadline)
  <2> DEFINE n == NewCall(kind, signal, FALSE)
             c == [Cleanup(n) EXCEPT !.pc = "done", !.outcome = "rejected", !.code = LocalError]
  <2>1. Cleanup(n).snd = "off" /\ Cleanup(n).signal # "armed" /\ Cleanup(n).timer = FALSE
    <3>1. n \in Call /\ n.snd = "off"
      BY <1>2, NewCallTyped
    <3> HIDE DEF n
    <3>2. QED
      BY <3>1 DEF Cleanup, Call
  <2>2. call' = [call EXCEPT ![id] = c]
    BY <1>7 DEF StartFails, SetCall
  <2>3. cStreams' = cStreams /\ EnsureOpen(id)
    BY <1>7 DEF StartFails
  <2>4. LetGo(c)
    <3>1. Cleanup(n) \in Call
      BY <1>4
    <3> HIDE DEF n
    <3>2. c.snd = "off" /\ c.signal # "armed" /\ c.timer = FALSE
      BY <2>1, <3>1 DEF Call
    <3> HIDE DEF c
    <3>3. QED
      BY <3>2 DEF LetGo
  <2> HIDE DEF c
  <2>5. QED
    BY <1>3, <2>2, <2>3, <2>4, NewCallStep
<1>8. QED
  BY <1>1, <1>5, <1>6, <1>7 DEF kind, method

(* Consuming responses ends no call. *)
LEMMA ConsumeTidy ==
  ASSUME IInv, ClientTidy, NEW id \in Id,
         CollectUnary(id) \/ Iterate(id) \/ AppNext(id) \/ AppReturn(id)
  PROVE  ClientTidy'
<1>1. ClientPart /\ call[id] \in GoodCall /\ call[id].pc # "idle"
  BY DEF IInv, ClientPart, CollectUnary, Iterate, AppNext, AppReturn
<1>2. UNCHANGED <<nextStreamId, cStreams>>
  BY DEF CollectUnary, Iterate, AppNext, AppReturn
<1> DEFINE val      == cStream[id].hand.val
           Given(pc) == [call[id] EXCEPT !.pc = pc, !.received = Append(@, val)]
           Asking    == [call[id] EXCEPT !.pc = "iter"]
<1>3. \/ SetCall(id, Given("second")) \/ SetCall(id, Given("yield")) \/ SetCall(id, Asking)
      \/ SetCall(id, Decide(call[id], "resolved", 0))
      \/ SetCall(id, Decide(call[id], "rejected", val))
      \/ SetCall(id, Decide(call[id], "rejected", INTERNAL))
      \/ SetCall(id, Decide(call[id], "returned", 0))
  BY DEF CollectUnary, Iterate, AppNext, AppReturn
<1>4. /\ ~Over(Given("second")) /\ ~Over(Given("yield")) /\ ~Over(Asking)
      /\ \A o, code : ~Over(Decide(call[id], o, code))
  BY <1>1, DecideRuns DEF Over, GoodCall, Call
<1> HIDE DEF Given, Asking, val
<1>5. \E c : ~Over(c) /\ call' = [call EXCEPT ![id] = c]
  BY <1>3, <1>4 DEF SetCall
<1>6. QED
  BY <1>1, <1>2, <1>5, RunningStep

(* finally takes the call's stream out of the map as the call ends. *)
LEMMA SettleCallTidy ==
  ASSUME IInv, ClientTidy, NEW id \in Id, SettleCall(id)
  PROVE  ClientTidy'
<1> DEFINE d == [call[id] EXCEPT !.pc = "done"]  c == Cleanup(d)
<1>1. ClientPart /\ call[id] \in GoodCall /\ call[id].pc = "settle" /\ call[id].snd # "pull"
  BY DEF IInv, ClientPart, SettleCall, RequestLoopOver
<1>2. d \in Call /\ d.snd # "pull"
  BY <1>1 DEF GoodCall, Call
<1>3. call' = [call EXCEPT ![id] = c] /\ cStreams' = cStreams \ {id} /\ UNCHANGED nextStreamId
  BY DEF SettleCall, SetCall, RemoveStream
<1> HIDE DEF d
<1>4. c.snd # "pull" /\ c.signal # "armed" /\ c.timer = FALSE
  BY <1>2 DEF Cleanup, Call
<1> HIDE DEF c
<1>5. LetGo(c)
  BY <1>4 DEF LetGo
<1>6. QED
  BY <1>1, <1>3, <1>5, CallStep

(* The request loop: clientStream goes on to its response, bidiStream      *)
(* keeps iterating.                                                        *)
LEMMA LoopOverTidy ==
  ASSUME IInv, ClientTidy, NEW id \in Id, call[id].snd = "pull",
         UNCHANGED <<nextStreamId, cStreams>>,
         SendingThrows(id) \/ \E s : StopSending(id, s)
  PROVE  ClientTidy'
<1> DEFINE c == [call[id] EXCEPT !.snd = "done"]
<1>1. ClientPart /\ call[id] \in GoodCall /\ LetGo(call[id])
  BY DEF IInv, ClientPart, ClientTidy
<1>2. c \in GoodCall /\ c.pc = call[id].pc /\ c.kind = call[id].kind /\ call[id].pc # "done"
  BY <1>1 DEF GoodCall, Call, LetGo
<1>3. CASE c.kind = CLIENT_STREAMING
  <2>1. call[id].pc = "send"
    BY <1>1, <1>2, <1>3 DEF GoodCall
  <2>2. \E e : ~Over(e) /\ call' = [call EXCEPT ![id] = e]
    <3>1. CASE SetCall(id, Decide(c, "rejected", LocalError))
      BY <1>2, <3>1, DecideRuns DEF SetCall
    <3>2. CASE SetCall(id, [c EXCEPT !.pc = "first"])
      <4> DEFINE e == [c EXCEPT !.pc = "first"]
      <4>1. e.pc = "first" /\ call' = [call EXCEPT ![id] = e]
        BY <1>2, <3>2 DEF GoodCall, Call, SetCall
      <4> HIDE DEF e
      <4>2. QED
        BY <4>1 DEF Over
    <3>3. QED
      BY <1>3, <3>1, <3>2 DEF SendingThrows, StopSending
  <2>3. QED
    BY <1>1, <2>1, <2>2, RunningStep
<1>4. CASE c.kind # CLIENT_STREAMING
  <2>1. call' = [call EXCEPT ![id] = c]
    BY <1>4 DEF SendingThrows, StopSending, SetCall
  <2> HIDE DEF c
  <2>2. LetGo(c)
    BY <1>2 DEF LetGo
  <2>3. QED
    BY <1>1, <1>2, <2>1, <2>2, SamePcStep
<1>5. QED
  BY <1>3, <1>4

(* The request loop ends no call. *)
LEMMA RequestLoopTidy ==
  ASSUME IInv, ClientTidy, NEW id \in Id, SendRequest(id) \/ EndRequests(id) \/ RequestsThrow(id)
  PROVE  ClientTidy'
<1>1. /\ ClientPart /\ call[id] \in GoodCall /\ LetGo(call[id]) /\ call[id].snd = "pull"
      /\ UNCHANGED <<nextStreamId, cStreams>>
  BY DEF IInv, ClientPart, ClientTidy, SendRequest, EndRequests, RequestsThrow
<1>2. CASE SetCall(id, [call[id] EXCEPT !.sent = call[id].sent + 1])
  <2> DEFINE c == [call[id] EXCEPT !.sent = call[id].sent + 1]
  <2>1. c.pc = call[id].pc /\ call[id].pc # "done" /\ call' = [call EXCEPT ![id] = c]
    BY <1>1, <1>2 DEF GoodCall, Call, SetCall, LetGo
  <2> HIDE DEF c
  <2>2. LetGo(c)
    BY <2>1 DEF LetGo
  <2>3. QED
    BY <1>1, <2>1, <2>2, SamePcStep
<1>3. CASE SendingThrows(id) \/ \E s : StopSending(id, s)
  BY <1>1, <1>3, LoopOverTidy
<1>4. QED
  BY <1>2, <1>3 DEF SendRequest, EndRequests, RequestsThrow

(* Aborts and deadlines end no call; they only push an error to it. *)
LEMMA SignalsTidy ==
  ASSUME IInv, ClientTidy, NEW id \in Id, Abort(id) \/ DeadlineFires(id)
  PROVE  ClientTidy'
<1>1. /\ ClientPart /\ call[id] \in GoodCall /\ LetGo(call[id])
      /\ UNCHANGED <<nextStreamId, cStreams>>
  BY DEF IInv, ClientPart, ClientTidy, Abort, DeadlineFires
<1>2. CASE Abort(id)
  <2> DEFINE c == [call[id] EXCEPT !.signal = "aborted"]
  <2>1. c.pc = call[id].pc /\ call[id].pc # "done" /\ call' = [call EXCEPT ![id] = c]
    BY <1>1, <1>2 DEF GoodCall, Call, SetCall, LetGo, Abort
  <2> HIDE DEF c
  <2>2. LetGo(c)
    BY <2>1 DEF LetGo
  <2>3. QED
    BY <1>1, <2>1, <2>2, SamePcStep
<1>3. CASE DeadlineFires(id)
  <2> DEFINE c == [call[id] EXCEPT !.timer = FALSE]
  <2>1. c.pc = call[id].pc /\ call[id].pc # "done" /\ call' = [call EXCEPT ![id] = c]
    BY <1>1, <1>3 DEF GoodCall, Call, SetCall, LetGo, DeadlineFires
  <2> HIDE DEF c
  <2>2. LetGo(c)
    BY <2>1 DEF LetGo
  <2>3. QED
    BY <1>1, <2>1, <2>2, SamePcStep
<1>4. QED
  BY <1>2, <1>3

(* Every step of the client keeps both sides tidy. *)
LEMMA ClientTidyInv ==
  ASSUME IInv, Tidy, ClientStep
  PROVE  Tidy'
<1>1. ClientNext /\ UNCHANGED serverVars /\ ClientTidy /\ ServerTidy
  BY DEF ClientStep, Tidy
<1>2. ServerTidy'
  BY <1>1 DEF ServerTidy, serverVars
<1>3. CASE ClientHandleFrame \/ ClientClose \/ ClientTransportError
  <2>1. UNCHANGED <<nextStreamId, call>> /\ cStreams' \subseteq cStreams
    BY <1>3 DEF ClientHandleFrame, ClientClose, ClientTransportError, CancelAllClientStreams
  <2>2. QED
    BY <1>1, <1>2, <2>1 DEF Tidy, ClientTidy
<1>4. ASSUME NEW id \in Id,
             \/ ClientStart(id) \/ ClientContinue(id) \/ AppNext(id) \/ AppReturn(id)
             \/ SendRequest(id) \/ EndRequests(id) \/ RequestsThrow(id)
             \/ Abort(id) \/ DeadlineFires(id)
      PROVE  ClientTidy'
  BY <1>1, <1>4, ClientStartTidy, ConsumeTidy, SettleCallTidy, RequestLoopTidy, SignalsTidy
     DEF ClientContinue
<1>5. QED
  BY <1>1, <1>2, <1>3, <1>4 DEF ClientNext, Tidy

(***************************************************************************)
(* The server.                                                             *)
(***************************************************************************)
(* A step of one handler leaves the map tidy if the handler still runs, or *)
(* its stream is not in the map any more.                                  *)
LEMMA DispatchStep ==
  ASSUME ServerPart, ServerTidy, NEW id \in Id, \A i \in Id : i # id => srv'[i] = srv[i],
         \/ sStreams' \subseteq sStreams \cup {id} /\ ~Ended(srv'[id])
         \/ sStreams' = sStreams \ {id}
  PROVE  ServerTidy'
  BY DEF ServerTidy, ServerPart, Ended

(* No step of a running handler ends its dispatch. *)
LEMMA HandlerTidy ==
  ASSUME IInv, ServerTidy, NEW id \in Id,
         \/ ServerCollect(id) \/ HandlerGot(id) \/ HandlerPull(id) \/ HandlerYield(id)
         \/ HandlerFinish(id) \/ HandlerThrow(id)
  PROVE  ServerTidy'
<1>1. ServerPart /\ srv \in [Id -> Dispatch] /\ srv[id] \in Dispatch
  BY DEF IInv, ServerPart
<1>2. sStreams' = sStreams
  BY DEF ServerCollect, HandlerGot, HandlerPull, HandlerYield, HandlerFinish, HandlerThrow
<1> DEFINE moved(e) == srv' = [srv EXCEPT ![id] = e]
<1>3. ASSUME NEW e, moved(e), ~Ended(e)
      PROVE  ServerTidy'
  BY <1>1, <1>2, <1>3, DispatchStep DEF Ended
<1>4. \A pc, n : /\ [srv[id] EXCEPT !.pc = pc].pc = pc
                 /\ [srv[id] EXCEPT !.pc = pc, !.reqs = n].pc = pc
                 /\ [srv[id] EXCEPT !.yielded = n].pc = srv[id].pc
                 /\ [Return(srv[id], "ok") EXCEPT !.yielded = n].pc = "settle"
  BY <1>1 DEF Return, Dispatch
<1>5. \A code : /\ Throw(srv[id], code).pc = "settle"
                /\ Throw([srv[id] EXCEPT !.reqs = "failed"], code).pc = "settle"
  BY <1>1 DEF Throw, Dispatch
<1>6. \A o : Return(srv[id], o).pc = "settle"
  BY <1>1 DEF Return, Dispatch
<1>7. ASSUME NEW e, moved(e), e.pc \in {"second", "run", "pull", "settle"}
      PROVE  ServerTidy'
  BY <1>3, <1>7 DEF Ended
<1> HIDE DEF moved
<1>8. CASE ServerCollect(id)
  <2> DEFINE e == [srv[id] EXCEPT !.pc = "second", !.got = Append(srv[id].got,
             sStream[id].hand.val)]
  <2>1. \/ moved(e)
        \/ \E r : moved([srv[id] EXCEPT !.pc = "run", !.reqs = r])
        \/ \E code : moved(Throw(srv[id], code))
    BY <1>8 DEF ServerCollect, SetSrv, moved
  <2>2. e.pc = "second"
    BY <1>1 DEF Dispatch
  <2> HIDE DEF e
  <2>3. CASE moved(e)
    BY <1>7, <2>2, <2>3
  <2>4. CASE \E r : moved([srv[id] EXCEPT !.pc = "run", !.reqs = r])
    BY <1>4, <1>7, <2>4
  <2>5. CASE \E code : moved(Throw(srv[id], code))
    BY <1>5, <1>7, <2>5
  <2>6. QED
    BY <2>1, <2>3, <2>4, <2>5
<1>9. CASE HandlerGot(id)
  <2> DEFINE e == [srv[id] EXCEPT !.pc = "run", !.got = Append(srv[id].got, sStream[id].hand.val)]
  <2>1. \/ moved(e)
        \/ \E r : moved([srv[id] EXCEPT !.pc = "run", !.reqs = r])
        \/ \E code : moved(Throw([srv[id] EXCEPT !.reqs = "failed"], code))
    BY <1>9 DEF HandlerGot, SetSrv, moved
  <2>2. e.pc = "run"
    BY <1>1 DEF Dispatch
  <2> HIDE DEF e
  <2>3. QED
    BY <1>4, <1>5, <1>7, <2>1, <2>2
<1>10. CASE HandlerPull(id)
  <2>1. moved([srv[id] EXCEPT !.pc = "pull"])
    BY <1>10 DEF HandlerPull, SetSrv, moved
  <2>2. QED
    BY <1>4, <1>7, <2>1
<1>11. CASE HandlerYield(id)
  <2>1. \/ moved(Return(srv[id], "silent"))
        \/ moved(Throw(srv[id], INTERNAL))
        \/ \E n : moved([srv[id] EXCEPT !.yielded = n])
    BY <1>11 DEF HandlerYield, SetSrv, moved
  <2>2. srv[id].pc = "run"
    BY <1>11 DEF HandlerYield
  <2>3. QED
    BY <1>4, <1>5, <1>6, <1>7, <2>1, <2>2
<1>12. CASE HandlerFinish(id)
  <2>1. \/ moved(Return(srv[id], "silent"))
        \/ moved(Throw(srv[id], INTERNAL))
        \/ \E n : moved([Return(srv[id], "ok") EXCEPT !.yielded = n])
    BY <1>12 DEF HandlerFinish, SetSrv, moved
  <2>2. QED
    BY <1>4, <1>5, <1>6, <1>7, <2>1
<1>13. CASE HandlerThrow(id)
  <2>1. \E code : moved(Throw(srv[id], code))
    BY <1>13 DEF HandlerThrow, SetSrv, moved
  <2>2. QED
    BY <1>5, <1>7, <2>1
<1>14. QED
  BY <1>8, <1>9, <1>10, <1>11, <1>12, <1>13

(* finally takes the stream out of the map as dispatchMethod returns. *)
LEMMA SettleDispatchTidy ==
  ASSUME IInv, ServerTidy, NEW id \in Id, SettleDispatch(id)
  PROVE  ServerTidy'
<1>1. ServerPart /\ \A i \in Id : i # id => srv'[i] = srv[i]
  BY DEF IInv, ServerPart, SettleDispatch, SetSrv
<1>2. sStreams' = sStreams \ {id}
  BY DEF SettleDispatch
<1>3. QED
  BY <1>1, <1>2, DispatchStep

(* Frames: an accepted OPEN starts a handler, CANCEL and ERROR only remove. *)
LEMMA ServerFrameTidy ==
  ASSUME IInv, ServerTidy, ServerHandleFrame
  PROVE  ServerTidy'
<1> DEFINE f == Head(toServer)
<1>1. ServerPart /\ f \in Frame(Id)
  BY DEF IInv, WireTypeOK, ServerHandleFrame
<1>2. f.streamId \in Id
  BY <1>1 DEF Frame
<1> DEFINE d == [NoDispatch EXCEPT !.method = f.arg,
                   !.pc = IF f.arg \in {UNARY, SERVER_STREAMING} THEN "first" ELSE "run"]
<1>3. CASE UNCHANGED srv /\ sStreams' \subseteq sStreams
  BY <1>3 DEF ServerTidy
<1>4. CASE SetSrv(f.streamId, d) /\ sStreams' = sStreams \cup {f.streamId}
  <2>1. d.pc \in {"first", "run"} /\ srv' = [srv EXCEPT ![f.streamId] = d]
    BY <1>4 DEF NoDispatch, SetSrv
  <2> HIDE DEF d, f
  <2>2. /\ \A i \in Id : i # f.streamId => srv'[i] = srv[i]
        /\ ~Ended(srv'[f.streamId])
    BY <1>1, <1>2, <2>1 DEF ServerPart, Ended
  <2>3. QED
    BY <1>1, <1>2, <1>4, <2>1, <2>2, DispatchStep
<1>5. QED
  BY <1>3, <1>4 DEF ServerHandleFrame, HandleOpen, HandleStreamFrame, serverVars

(* Every step of the server keeps both sides tidy. *)
LEMMA ServerTidyInv ==
  ASSUME IInv, Tidy, ServerStep
  PROVE  Tidy'
<1>1. ServerNext /\ UNCHANGED clientVars /\ ClientTidy /\ ServerTidy
  BY DEF ServerStep, Tidy
<1>2. ClientTidy'
  BY <1>1 DEF ClientTidy, clientVars
<1>3. CASE ServerClose \/ ServerTransportError
  <2>1. sStreams' = {}
    BY <1>3 DEF ServerClose, ServerTransportError, CancelAllServerStreams
  <2>2. QED
    BY <1>2, <2>1 DEF Tidy, ServerTidy
<1>4. QED
  BY <1>1, <1>2, <1>3, HandlerTidy, SettleDispatchTidy, ServerFrameTidy
     DEF ServerNext, ServerContinue, HandlerMoves, Tidy

(* The strengthened invariant holds in every reachable state. *)
LEMMA TidyInvariance == Spec => [](IInv /\ Tidy)
<1>1. Init => IInv /\ Tidy
  <2> SUFFICES ASSUME Init PROVE IInv /\ Tidy
    OBVIOUS
  <2>1. NoCall.pc = "idle"
    BY DEF NoCall
  <2>2. QED
    BY <2>1, InitInv DEF Init, ClientInit, ServerInit, Tidy, ClientTidy, ServerTidy, LetGo
<1>2. IInv /\ Tidy /\ [Next]_vars => (IInv /\ Tidy)'
  <2> SUFFICES ASSUME IInv, Tidy, [Next]_vars PROVE (IInv /\ Tidy)'
    OBVIOUS
  <2>1. ASSUME UNCHANGED vars
        PROVE  Tidy'
    BY <2>1 DEF Tidy, ClientTidy, ServerTidy, vars, clientVars, serverVars
  <2>2. Tidy'
    BY <2>1, ClientTidyInv, ServerTidyInv DEF Next, Terminated
  <2>3. QED
    BY <2>2, NextInv
<1>3. QED
  BY <1>1, <1>2, PTL DEF Spec

(* Every finally block removes what it should: neither map ever holds a    *)
(* stream whose call is settled or whose handler has returned.             *)
THEOREM NothingLeaks == Spec => []NoStreamLeak
<1>1. IInv /\ Tidy => NoStreamLeak
  BY DEF Tidy, ClientTidy, ServerTidy, NoStreamLeak, Over, Ended
<1>2. QED
  BY <1>1, TidyInvariance, PTL

(***************************************************************************)
(* What a client's step puts on the wire.                                  *)
(***************************************************************************)
Own(id, frames) == frames \in Seq(Frame(Id)) /\ \A k \in 1..Len(frames) : frames[k].streamId = id

(* The frames a call sends carry its own id. *)
LEMMA OwnFrames ==
  ASSUME NEW id \in Id
  PROVE  /\ Own(id, <<>>)
         /\ \A m \in Method : /\ Own(id, <<OpenFrame(id, m)>>)
                              /\ Own(id, <<OpenFrame(id, m), CancelFrame(id)>>)
                              /\ Own(id, <<OpenFrame(id, m), MessageFrame(id, 1),
                                 HalfCloseFrame(id)>>)
         /\ \A n \in Nat : Own(id, <<MessageFrame(id, n)>>)
         /\ Own(id, <<HalfCloseFrame(id)>>)
         /\ \A s : Own(id, CancelFrames(id, s))
<1> DEFINE mine == {f \in Frame(Id) : f.streamId = id}
<1>1. /\ \A m \in Method : OpenFrame(id, m) \in mine
      /\ \A n \in Nat : MessageFrame(id, n) \in mine
      /\ HalfCloseFrame(id) \in mine /\ CancelFrame(id) \in mine
  BY FramesTyped DEF OpenFrame, MessageFrame, HalfCloseFrame, CancelFrame
<1>2. Own(id, <<>>)
  BY DEF Own
<1>3. \A f \in mine : Own(id, <<f>>)
  BY DEF Own
<1>4. \A f, g \in mine : Own(id, <<f, g>>)
  BY DEF Own
<1>5. \A f, g, h \in mine : Own(id, <<f, g, h>>)
  BY DEF Own
<1>6. \A s : CancelFrames(id, s) = <<>> \/ CancelFrames(id, s) = <<CancelFrame(id)>>
  BY DEF CancelFrames
<1> HIDE DEF mine
<1>7. \A s : Own(id, CancelFrames(id, s))
  <2> TAKE s
  <2>1. CASE CancelFrames(id, s) = <<>>
    BY <1>2, <2>1
  <2>2. CASE CancelFrames(id, s) = <<CancelFrame(id)>>
    BY <1>1, <1>3, <2>2
  <2>3. QED
    BY <1>6, <2>1, <2>2
<1>8. \A m \in Method : /\ Own(id, <<OpenFrame(id, m)>>)
                        /\ Own(id, <<OpenFrame(id, m), CancelFrame(id)>>)
  BY <1>1, <1>3, <1>4
<1>9. \A m \in Method : Own(id, <<OpenFrame(id, m), MessageFrame(id, 1), HalfCloseFrame(id)>>)
  BY <1>1, <1>5
<1>10. /\ \A n \in Nat : Own(id, <<MessageFrame(id, n)>>)
       /\ Own(id, <<HalfCloseFrame(id)>>)
  BY <1>1, <1>3
<1>11. QED
  BY <1>2, <1>7, <1>8, <1>9, <1>10

(* A call that posts its own frames posts none of another call. *)
LEMMA OthersSilent ==
  ASSUME WireTypeOK, NEW id \in Id, NEW frames, Own(id, frames), PostToServer(frames),
         NEW i \in Id, i # id
  PROVE  ~SentFor(i, toServer, toServer')
<1>1. toServer \in Seq(Frame(Id)) /\ frames \in Seq(Frame(Id))
  BY DEF WireTypeOK, Own
<1>2. CASE toServer' = toServer
  BY <1>1, <1>2 DEF SentFor
<1>3. CASE toServer' = toServer \o frames
  <2>1. ASSUME NEW k \in Len(toServer) + 1..Len(toServer')
        PROVE  toServer'[k].streamId = id
    <3>1. k - Len(toServer) \in 1..Len(frames) /\ toServer'[k] = frames[k - Len(toServer)]
      BY <1>1, <1>3
    <3>2. QED
      BY <3>1 DEF Own
  <2>2. QED
    BY <2>1 DEF SentFor
<1>4. QED
  BY <1>2, <1>3 DEF PostToServer

(* A wire that is unchanged, emptied or shortened was sent nothing. *)
LEMMA NothingSent ==
  ASSUME WireTypeOK,
         \/ toServer' = toServer
         \/ toServer' = <<>>
         \/ toServer # <<>> /\ toServer' = Tail(toServer)
  PROVE  \A i \in Id : ~SentFor(i, toServer, toServer')
<1>1. toServer \in Seq(Frame(Id))
  BY DEF WireTypeOK
<1>2. Len(toServer') <= Len(toServer)
  BY <1>1
<1>3. QED
  BY <1>1, <1>2 DEF SentFor

(* Every step of the client that posts frames is a step of a call that is  *)
(* not settled, and the frames are that call's.                            *)
LEMMA ClientPosts ==
  ASSUME IInv, ClientTidy, NEW id \in Id,
         \/ ClientStart(id) \/ ClientContinue(id) \/ AppNext(id) \/ AppReturn(id)
         \/ SendRequest(id) \/ EndRequests(id) \/ RequestsThrow(id)
         \/ Abort(id) \/ DeadlineFires(id)
  PROVE  \/ toServer' = toServer
         \/ call[id].pc # "done" /\ \E frames : Own(id, frames) /\ PostToServer(frames)
<1>1. ClientPart /\ LetGo(call[id]) /\ call[id] \in GoodCall
  BY DEF IInv, ClientPart, ClientTidy
<1>2. CASE ClientStart(id)
  <2>1. PICK p \in Calls, signal \in Signals, deadline \in Deadlines :
          \/ StartSingleRequest(id, p[1], p[2], signal, deadline)
          \/ StartRequestStream(id, p[1], p[2], signal, deadline)
          \/ StartFails(id, p[1], p[2], signal, deadline)
    BY <1>2 DEF ClientStart
  <2> DEFINE kind == p[1]  method == p[2]
  <2>2. method \in Method
    BY ClientAssumption
  <2> HIDE DEF kind, method
  <2>3. StartSingleRequest(id, kind, method, signal, deadline)
        \/ StartRequestStream(id, kind, method, signal, deadline)
        \/ StartFails(id, kind, method, signal, deadline)
    BY <2>1 DEF kind, method
  <2>4. EnsureOpen(id)
    BY <2>3 DEF StartSingleRequest, StartRequestStream, StartFails
  <2>5. call[id].pc = "idle"
    BY <2>4, IdIsNat DEF ClientTidy, EnsureOpen
  <2>6. \E frames : Own(id, frames) /\ PostToServer(frames)
    BY <2>2, <2>3, OwnFrames DEF StartSingleRequest, StartRequestStream, StartFails
  <2>7. QED
    BY <2>5, <2>6
<1>3. CASE SettleCall(id)
  <2>1. \E frames : Own(id, frames) /\ PostToServer(frames)
    BY <1>3, OwnFrames DEF SettleCall
  <2>2. QED
    BY <1>3, <2>1 DEF SettleCall
<1>4. CASE SendRequest(id) \/ EndRequests(id) \/ RequestsThrow(id)
  <2>1. call[id].snd = "pull" /\ call[id].sent + 1 \in Nat
    BY <1>1, <1>4 DEF SendRequest, EndRequests, RequestsThrow, GoodCall, Call
  <2>2. call[id].pc # "done"
    BY <1>1, <2>1 DEF LetGo
  <2>3. \E frames : Own(id, frames) /\ PostToServer(frames)
    BY <1>4, <2>1, OwnFrames DEF SendRequest, EndRequests, RequestsThrow, SendingThrows
  <2>4. QED
    BY <2>2, <2>3
<1>5. CASE Abort(id) \/ DeadlineFires(id)
  <2>1. call[id].pc # "done"
    BY <1>1, <1>5 DEF LetGo, Abort, DeadlineFires
  <2>2. \E frames : Own(id, frames) /\ PostToServer(frames)
    BY <1>5, OwnFrames DEF Abort, DeadlineFires
  <2>3. QED
    BY <2>1, <2>2
<1>6. CASE CollectUnary(id) \/ Iterate(id) \/ AppNext(id) \/ AppReturn(id)
  BY <1>6 DEF CollectUnary, Iterate, AppNext, AppReturn, wireVars
<1>7. QED
  BY <1>2, <1>3, <1>4, <1>5, <1>6 DEF ClientContinue

(* A settled call sends nothing more: no late CANCEL, no request of a loop *)
(* that was left running, no frame of a timer or listener left behind.     *)
THEOREM DoneCallsAreSilent == Spec => ClientSilentWhenDone
<1>1. ASSUME IInv, Tidy, [Next]_vars
      PROVE  \A id \in Id : call[id].pc = "done" => ~SentFor(id, toServer, toServer')
  <2>1. WireTypeOK
    BY <1>1 DEF IInv
  <2>2. ASSUME NEW id \in Id,
               \/ ClientStart(id) \/ ClientContinue(id) \/ AppNext(id) \/ AppReturn(id)
               \/ SendRequest(id) \/ EndRequests(id) \/ RequestsThrow(id)
               \/ Abort(id) \/ DeadlineFires(id)
        PROVE  \A i \in Id : call[i].pc = "done" => ~SentFor(i, toServer, toServer')
    <3>1. ClientTidy
      BY <1>1 DEF Tidy
    <3>2. CASE toServer' = toServer
      BY <2>1, <3>2, NothingSent
    <3>3. CASE call[id].pc # "done" /\ \E frames : Own(id, frames) /\ PostToServer(frames)
      BY <2>1, <3>3, OthersSilent
    <3>4. QED
      BY <1>1, <2>2, <3>1, <3>2, <3>3, ClientPosts
  <2>3. CASE ClientHandleFrame \/ ClientClose \/ ClientTransportError
    <3>1. toServer' = toServer
      BY <2>3 DEF ClientHandleFrame, ClientClose, ClientTransportError, CloseClientSide
    <3>2. QED
      BY <2>1, <3>1, NothingSent
  <2>4. CASE ServerNext
    <3>1. CASE ServerHandleFrame
      <4>1. toServer # <<>> /\ toServer' = Tail(toServer)
        BY <3>1 DEF ServerHandleFrame
      <4>2. QED
        BY <2>1, <4>1, NothingSent
    <3>2. CASE ServerClose
      <4>1. toServer' = <<>>
        BY <3>2 DEF ServerClose, CloseServerSide
      <4>2. QED
        BY <2>1, <4>1, NothingSent
    <3>3. CASE ServerTransportError \/ \E id \in Id : ServerContinue(id) \/ HandlerMoves(id)
      <4>1. toServer' = toServer
        <5>1. CASE ServerTransportError
          BY <5>1 DEF ServerTransportError, wireVars
        <5>2. ASSUME NEW id \in Id, ServerContinue(id) PROVE toServer' = toServer
          BY <5>2 DEF ServerContinue, ServerCollect, HandlerGot, SettleDispatch, PostToClient,
             wireVars
        <5>3. ASSUME NEW id \in Id, HandlerMoves(id) PROVE toServer' = toServer
          BY <5>3 DEF HandlerMoves, HandlerPull, HandlerYield, HandlerFinish, HandlerThrow,
             PostToClient, wireVars
        <5>4. QED
          BY <3>3, <5>1, <5>2, <5>3
      <4>2. QED
        BY <2>1, <4>1, NothingSent
    <3>4. QED
      BY <2>4, <3>1, <3>2, <3>3 DEF ServerNext
  <2>5. CASE UNCHANGED vars
    <3>1. toServer' = toServer
      BY <2>5 DEF vars, wireVars
    <3>2. QED
      BY <2>1, <3>1, NothingSent
  <2>6. QED
    BY <1>1, <2>2, <2>3, <2>4, <2>5 DEF Next, ClientStep, ClientNext, ServerStep, Terminated
<1>2. QED
  BY <1>1, TidyInvariance, PTL DEF Spec, ClientSilentWhenDone
=============================================================================
