----------------------------- MODULE RpcProofs ------------------------------
(***************************************************************************)
(* Proofs about RpcBridge, for every number of calls, every set of methods *)
(* and every transport.  The inductive invariant is the conjunction of     *)
(* TypeOK and NoLostWakeup, split by the side that owns the variables, so  *)
(* that a step of one side has only its own part and the wires to restore. *)
(***************************************************************************)
EXTENDS RpcProperties, StreamProofs

CAwaits(c) == c.pc \in {"first", "second", "iter"}
SAwaits(d) == d.pc \in {"first", "second", "pull"}

(* clientStream does not ask for the response before its request loop is over. *)
GoodCall == {c \in Call : c.kind = CLIENT_STREAMING /\ c.snd = "pull" => c.pc = "send"}

ClientPart ==
  /\ nextStreamId \in {2 * k - 1 : k \in 1..MaxCalls + 1}
  /\ cStreams \subseteq Id
  /\ cStream \in [Id -> StreamObject] /\ call \in [Id -> GoodCall]
  /\ \A id \in Id : Sound(cStream[id], CAwaits(call[id]))

ServerPart ==
  /\ sStreams \subseteq Id
  /\ sStream \in [Id -> StreamObject] /\ srv \in [Id -> Dispatch]
  /\ \A id \in Id : Sound(sStream[id], SAwaits(srv[id]))

IInv == WireTypeOK /\ ClientPart /\ ServerPart

(***************************************************************************)
(* Lemmas about the wires.                                                 *)
(***************************************************************************)
(* Stream ids are numbers. *)
LEMMA IdIsNat == Id \subseteq Nat
  BY WireAssumption DEF Id

(* Every frame factory of frame.ts builds a frame. *)
LEMMA FramesTyped ==
  ASSUME NEW id \in Id
  PROVE  /\ \A m \in Method : OpenFrame(id, m) \in Frame(Id)
         /\ \A n \in Nat : MessageFrame(id, n) \in Frame(Id)
         /\ \A n \in Nat : ErrorFrame(id, n) \in Frame(Id)
         /\ HalfCloseFrame(id) \in Frame(Id)
         /\ CloseFrame(id) \in Frame(Id)
         /\ CancelFrame(id) \in Frame(Id)
<1>1. Method \subseteq Nat
  BY DEF Method, MethodType, UNARY, BIDI_STREAMING, UNREGISTERED, MALFORMED
<1>2. QED
  BY <1>1 DEF Frame, Body, OpenFrame, MessageFrame, ErrorFrame, HalfCloseFrame,
              CloseFrame, CancelFrame

(* Posting frames to the server keeps the wires typed. *)
LEMMA PostToServerTyped ==
  ASSUME WireTypeOK, NEW frames \in Seq(Frame(Id)), PostToServer(frames), faults' \in Nat
  PROVE  WireTypeOK'
  BY DEF WireTypeOK, PostToServer

(* Posting frames to the client keeps the wires typed. *)
LEMMA PostToClientTyped ==
  ASSUME WireTypeOK, NEW frames \in Seq(Frame(Id)), PostToClient(frames), faults' \in Nat
  PROVE  WireTypeOK'
  BY DEF WireTypeOK, PostToClient

(* The fault counter stays a number. *)
LEMMA FaultTyped ==
  ASSUME WireTypeOK, Fault \/ NoFault
  PROVE  faults' \in Nat
  BY DEF WireTypeOK, Fault, NoFault

(* The three ends of a transport: either side closes, or an error is reported. *)
LEMMA EndsTyped ==
  ASSUME WireTypeOK, faults' \in Nat,
         \/ CloseClientSide
         \/ CloseServerSide
         \/ UNCHANGED <<cOpen, sOpen, toServer, toClient>>
  PROVE  WireTypeOK'
<1>1. <<>> \in Seq(Frame(Id))
  OBVIOUS
<1>2. QED
  BY <1>1 DEF WireTypeOK, CloseClientSide, CloseServerSide

(* What cancelStream sends are frames. *)
LEMMA CancelFramesTyped ==
  ASSUME NEW id \in Id, NEW s
  PROVE  CancelFrames(id, s) \in Seq(Frame(Id))
  BY FramesTyped DEF CancelFrames

(* Error codes and queue items are typed, those taken from a frame included. *)
LEMMA CodesTyped ==
  /\ INTERNAL \in Nat /\ LocalError \in Nat
  /\ \A n \in Nat : FromFrame(n) \in Nat
  /\ \A n \in Nat : Error(n) \in QueueItem /\ Message(n) \in QueueItem
  /\ End \in QueueItem
  BY DEF INTERNAL, LocalError, FromFrame, Error, Message, End, QueueItem

(***************************************************************************)
(* The client's part.                                                      *)
(***************************************************************************)
(* A step that changes one call and its stream. *)
LEMMA ClientUpdate ==
  ASSUME ClientPart, NEW id \in Id, NEW s, NEW c \in GoodCall, Sound(s, CAwaits(c)),
         cStream' = [cStream EXCEPT ![id] = s], call' = [call EXCEPT ![id] = c],
         cStreams' \subseteq Id, nextStreamId' \in {2 * k - 1 : k \in 1..MaxCalls + 1}
  PROVE  ClientPart'
<1>1. s \in StreamObject
  BY DEF Sound
<1>2. cStream' \in [Id -> StreamObject] /\ call' \in [Id -> GoodCall]
  BY <1>1 DEF ClientPart
<1>3. ASSUME NEW i \in Id
      PROVE  Sound(cStream'[i], CAwaits(call'[i]))
  <2>1. CASE i = id
    BY <2>1 DEF ClientPart
  <2>2. CASE i # id
    BY <2>2 DEF ClientPart
  <2>3. QED
    BY <2>1, <2>2
<1>4. QED
  BY <1>2, <1>3 DEF ClientPart

(* A step that moves only the streams, each soundly. *)
LEMMA ClientStreamsUpdate ==
  ASSUME ClientPart, NEW F, F = [id \in Id |-> F[id]], cStream' = F,
         \A id \in Id : Sound(F[id], CAwaits(call[id])),
         cStreams' \subseteq Id, UNCHANGED <<nextStreamId, call>>
  PROVE  ClientPart'
<1>1. F \in [Id -> StreamObject]
  BY DEF Sound
<1>2. QED
  BY <1>1 DEF ClientPart

(* A step that moves only one stream, or only one call. *)
LEMMA ClientStreamUpdate ==
  ASSUME ClientPart, NEW id \in Id, NEW s, Sound(s, CAwaits(call[id])),
         cStream' = [cStream EXCEPT ![id] = s], UNCHANGED <<nextStreamId, cStreams, call>>
  PROVE  ClientPart'
  BY DEF ClientPart, Sound

(* A step that changes one call and not its stream. *)
LEMMA ClientCallUpdate ==
  ASSUME ClientPart, NEW id \in Id, NEW c \in GoodCall, CAwaits(c) = CAwaits(call[id]),
         call' = [call EXCEPT ![id] = c],
         cStreams' \subseteq Id, UNCHANGED <<nextStreamId, cStream>>
  PROVE  ClientPart'
  BY DEF ClientPart

(* A step that posts nothing. *)
LEMMA WireUnchanged ==
  ASSUME WireTypeOK, UNCHANGED wireVars
  PROVE  WireTypeOK'
  BY DEF WireTypeOK, wireVars

(* The item handed to a coroutine carries a number. *)
LEMMA HandTyped ==
  ASSUME NEW s \in StreamObject
  PROVE  s.hand.val \in Nat
  BY DEF StreamObject, QueueItem, NoItem

(* A call whose outcome is decided awaits nothing. *)
LEMMA DecideTyped ==
  ASSUME NEW c \in GoodCall, c.pc # "send" \/ c.snd # "pull",
         NEW o \in {"resolved", "rejected", "returned"}, NEW code \in Nat
  PROVE  Decide(c, o, code) \in GoodCall /\ CAwaits(Decide(c, o, code)) = FALSE
<1>1. Decide(c, o, code) \in GoodCall /\ Decide(c, o, code).pc = "settle"
  BY DEF Decide, Call, GoodCall
<1>2. QED
  BY <1>1 DEF CAwaits

(* Moving pc, with or without one more response. *)
LEMMA MoveTyped ==
  ASSUME NEW c \in GoodCall, c.pc # "send" \/ c.snd # "pull",
         NEW n \in Nat, NEW pc \in {"first", "second", "iter", "yield"}
  PROVE  /\ [c EXCEPT !.pc = pc] \in GoodCall
         /\ [c EXCEPT !.pc = pc, !.received = Append(c.received, n)] \in GoodCall
         /\ [c EXCEPT !.pc = pc].pc = pc
         /\ [c EXCEPT !.pc = pc, !.received = Append(c.received, n)].pc = pc
<1>1. Append(c.received, n) \in Seq(Nat)
  BY DEF Call, GoodCall
<1>2. QED
  BY <1>1 DEF Call, GoodCall

(* setupCancellation leaves a sound stream nobody waits on. *)
LEMMA PreparedSound ==
  ASSUME NEW signal, NEW st \in StreamState
  PROVE  Sound(Prepared(signal), FALSE) /\ Sound(SetState(Prepared(signal), st), FALSE)
<1>1. Sound(Prepared(signal), FALSE)
  BY NewStreamSound, CancelSound DEF Prepared
<1>2. QED
  BY <1>1, SetStateSound

(* createStream keeps the counter odd and within its bound. *)
LEMMA EnsureOpenCounts ==
  ASSUME ClientPart, NEW id \in Id, EnsureOpen(id)
  PROVE  nextStreamId' \in {2 * k - 1 : k \in 1..MaxCalls + 1}
<1>1. PICK k \in 1..MaxCalls : id = 2 * k - 1
  BY DEF Id
<1>2. nextStreamId' = 2 * (k + 1) - 1 /\ k + 1 \in 1..MaxCalls + 1
  BY <1>1, WireAssumption DEF EnsureOpen
<1>3. QED
  BY <1>2

(* cleanup leaves a call where it stands. *)
LEMMA CleanupTyped ==
  ASSUME NEW c \in GoodCall
  PROVE  Cleanup(c) \in GoodCall /\ Cleanup(c).pc = c.pc
  BY DEF Cleanup, Call, GoodCall

(* A call that starts is typed and awaits nothing yet. *)
LEMMA NewCallTyped ==
  ASSUME NEW kind \in MethodType, NEW signal \in {"none", "armed", "aborted"},
         NEW deadline \in BOOLEAN
  PROVE  LET c == NewCall(kind, signal, deadline) IN
         /\ c \in Call /\ c.kind = kind /\ c.snd = "off"
         /\ Cleanup(c) \in Call /\ Cleanup(c).kind = kind /\ Cleanup(c).snd = "off"
<1> DEFINE c == NewCall(kind, signal, deadline)
<1>1. NoCall \in Call /\ NoCall.snd = "off"
  BY DEF NoCall, Call, MethodType, UNARY, BIDI_STREAMING
<1>2. c \in Call /\ c.kind = kind /\ c.snd = "off"
  BY <1>1 DEF NewCall, Call
<1> HIDE DEF c
<1>3. Cleanup(c) \in Call /\ Cleanup(c).kind = kind /\ Cleanup(c).snd = "off"
  BY <1>2 DEF Cleanup, Call
<1>4. QED
  BY <1>2, <1>3 DEF c

(* Making a call, of any pattern, or failing to. *)
LEMMA ClientStartInv ==
  ASSUME IInv, NEW id \in Id, ClientStart(id)
  PROVE  WireTypeOK' /\ ClientPart'
<1>1. PICK c \in Calls, signal \in Signals, deadline \in Deadlines :
        \/ StartSingleRequest(id, c[1], c[2], signal, deadline)
        \/ StartRequestStream(id, c[1], c[2], signal, deadline)
        \/ StartFails(id, c[1], c[2], signal, deadline)
  BY DEF ClientStart
<1> DEFINE kind == c[1]  method == c[2]
<1>2. kind \in MethodType /\ method \in Method /\ deadline \in BOOLEAN
      /\ signal \in {"none", "armed", "aborted"}
  BY ClientAssumption
<1> HIDE DEF kind, method
<1> USE DEF IInv, ClientPart
<1>3. OpenFrame(id, method) \in Frame(Id) /\ MessageFrame(id, 1) \in Frame(Id)
      /\ HalfCloseFrame(id) \in Frame(Id) /\ CancelFrame(id) \in Frame(Id)
  BY <1>2, FramesTyped
<1>4. /\ NewCall(kind, signal, deadline) \in Call /\ NewCall(kind, signal, deadline).snd = "off"
      /\ NewCall(kind, signal, deadline).kind = kind
  BY <1>2, NewCallTyped
<1>5. CASE StartSingleRequest(id, kind, method, signal, deadline)
  <2>1. WireTypeOK'
    <3>1. /\ NoFault
          /\ PostToServer(<<OpenFrame(id, method), MessageFrame(id, 1), HalfCloseFrame(id)>>)
      BY <1>5 DEF StartSingleRequest
    <3>2. <<OpenFrame(id, method), MessageFrame(id, 1), HalfCloseFrame(id)>> \in Seq(Frame(Id))
      BY <1>3
    <3>3. QED
      BY <3>1, <3>2, PostToServerTyped, FaultTyped
  <2> DEFINE s == NextItem(SetState(Prepared(signal), "half_closed_local"))
             d == [NewCall(kind, signal, deadline) EXCEPT
                     !.pc = IF kind = UNARY THEN "first" ELSE "iter", !.sent = 1]
  <2>2. Sound(s, TRUE)
    BY PreparedSound, NextItemSound DEF StreamState
  <2>3. d \in GoodCall /\ CAwaits(d)
    <3>1. d \in Call /\ d.snd = "off" /\ d.pc \in {"first", "iter"}
      BY <1>4 DEF Call
    <3>2. QED
      BY <3>1 DEF GoodCall, CAwaits
  <2>4. Sound(s, CAwaits(d))
    BY <2>2, <2>3
  <2>5. cStream' = [cStream EXCEPT ![id] = s] /\ call' = [call EXCEPT ![id] = d]
    BY <1>5 DEF StartSingleRequest, SetCStream, SetCall
  <2>6. cStreams' \subseteq Id
    BY <1>5 DEF StartSingleRequest
  <2>7. EnsureOpen(id)
    BY <1>5 DEF StartSingleRequest
  <2> HIDE DEF s, d
  <2>8. QED
    BY <2>1, <2>3, <2>4, <2>5, <2>6, <2>7, EnsureOpenCounts, ClientUpdate
<1>6. CASE StartRequestStream(id, kind, method, signal, deadline)
  <2>1. WireTypeOK'
    <3>1. NoFault /\ PostToServer(<<OpenFrame(id, method)>>)
      BY <1>6 DEF StartRequestStream
    <3>2. <<OpenFrame(id, method)>> \in Seq(Frame(Id))
      BY <1>3
    <3>3. QED
      BY <3>1, <3>2, PostToServerTyped, FaultTyped
  <2> DEFINE o == SetState(Prepared(signal), "open")
             s == IF kind = BIDI_STREAMING THEN NextItem(o) ELSE o
             d == [NewCall(kind, signal, deadline) EXCEPT
                     !.pc = IF kind = BIDI_STREAMING THEN "iter" ELSE "send", !.snd = "pull"]
  <2>2. Sound(o, FALSE) /\ Sound(NextItem(o), TRUE)
    BY PreparedSound, NextItemSound DEF StreamState
  <2>3. d \in GoodCall /\ CAwaits(d) = (kind = BIDI_STREAMING)
    <3>1. d \in Call /\ d.pc = (IF kind = BIDI_STREAMING THEN "iter" ELSE "send") /\ d.kind = kind
      BY <1>4 DEF Call
    <3>2. kind = BIDI_STREAMING => kind # CLIENT_STREAMING
      BY DEF CLIENT_STREAMING, BIDI_STREAMING
    <3> HIDE DEF d
    <3>3. QED
      BY <3>1, <3>2 DEF GoodCall, CAwaits
  <2>4. Sound(s, CAwaits(d))
    BY <2>2, <2>3
  <2>5. cStream' = [cStream EXCEPT ![id] = s] /\ call' = [call EXCEPT ![id] = d]
    BY <1>6 DEF StartRequestStream, SetCStream, SetCall
  <2>6. cStreams' \subseteq Id
    BY <1>6 DEF StartRequestStream
  <2>7. EnsureOpen(id)
    BY <1>6 DEF StartRequestStream
  <2> HIDE DEF s, d
  <2>8. QED
    BY <2>1, <2>3, <2>4, <2>5, <2>6, <2>7, EnsureOpenCounts, ClientUpdate
<1>7. CASE StartFails(id, kind, method, signal, deadline)
  <2>1. WireTypeOK'
    <3>1. PICK frames \in {<<>>, <<OpenFrame(id, method), CancelFrame(id)>>} :
            PostToServer(frames) /\ (Fault \/ NoFault)
      BY <1>7 DEF StartFails
    <3>2. <<>> \in Seq(Frame(Id)) /\ <<OpenFrame(id, method), CancelFrame(id)>> \in Seq(Frame(Id))
      BY <1>3
    <3>3. QED
      BY <3>1, <3>2, PostToServerTyped, FaultTyped
  <2> DEFINE d == [Cleanup(NewCall(kind, signal, FALSE)) EXCEPT
                     !.pc = "done", !.outcome = "rejected", !.code = LocalError]
  <2>2. d \in GoodCall /\ CAwaits(d) = FALSE
    <3>1. /\ Cleanup(NewCall(kind, signal, FALSE)) \in Call
          /\ Cleanup(NewCall(kind, signal, FALSE)).snd = "off"
      BY <1>2, NewCallTyped
    <3>2. LocalError \in Nat
      BY CodesTyped
    <3>3. d \in Call /\ d.pc = "done" /\ d.snd = "off"
      BY <3>1, <3>2 DEF Call
    <3> HIDE DEF d
    <3>4. QED
      BY <3>3 DEF GoodCall, CAwaits
  <2> HIDE DEF d
  <2>3. PICK s \in {Prepared(signal), SetState(Prepared(signal), "open")} :
          cStream' = [cStream EXCEPT ![id] = s]
    BY <1>7 DEF StartFails, SetCStream
  <2>4. Sound(s, CAwaits(d))
    <3>1. Sound(s, FALSE)
      BY <2>3, PreparedSound DEF StreamState
    <3>2. QED
      BY <2>2, <3>1
  <2> USE DEF d
  <2>5. call' = [call EXCEPT ![id] = d] /\ cStreams' \subseteq Id /\ EnsureOpen(id)
    BY <1>7 DEF StartFails, SetCall
  <2> HIDE DEF d
  <2>6. QED
    BY <2>1, <2>2, <2>3, <2>4, <2>5, EnsureOpenCounts, ClientUpdate
<1>8. QED
  BY <1>1, <1>5, <1>6, <1>7 DEF kind, method

(* A continuation of collectUnary on the client. *)
LEMMA CollectUnaryInv ==
  ASSUME IInv, NEW id \in Id, CollectUnary(id)
  PROVE  WireTypeOK' /\ ClientPart'
<1> DEFINE c == call[id]  s == Consume(cStream[id])  item == cStream[id].hand
<1>1. WireTypeOK'
  BY WireUnchanged DEF IInv, CollectUnary
<1>2. ClientPart /\ c \in GoodCall /\ Sound(cStream[id], TRUE) /\ item.val \in Nat /\ c.pc # "send"
  BY HandTyped DEF IInv, ClientPart, CollectUnary, CAwaits
<1>3. Sound(s, FALSE) /\ Sound(NextItem(s), TRUE)
  BY <1>2, ConsumeSound, NextItemSound DEF CollectUnary
<1>4. cStreams' \subseteq Id /\ nextStreamId' \in {2 * k - 1 : k \in 1..MaxCalls + 1}
  BY <1>2 DEF CollectUnary, ClientPart
<1>5. CASE /\ SetCStream(id, NextItem(s))
           /\ SetCall(id, [c EXCEPT !.pc = "second", !.received = Append(@, item.val)])
  <2> DEFINE d == [c EXCEPT !.pc = "second", !.received = Append(@, item.val)]
  <2>1. d \in GoodCall /\ d.pc = "second"
    BY <1>2, MoveTyped
  <2>2. cStream' = [cStream EXCEPT ![id] = NextItem(s)] /\ call' = [call EXCEPT ![id] = d]
    BY <1>5 DEF SetCStream, SetCall
  <2> HIDE DEF c, s, item, d
  <2>3. CAwaits(d) = TRUE
    BY <2>1 DEF CAwaits
  <2>4. QED
    BY <1>1, <1>2, <1>3, <1>4, <2>1, <2>2, <2>3, ClientUpdate
<1>6. CASE /\ SetCStream(id, s)
           /\ \E o \in {"resolved", "rejected", "returned"}, code \in Nat :
                SetCall(id, Decide(c, o, code))
  <2>1. PICK o \in {"resolved", "rejected", "returned"}, code \in Nat :
          SetCall(id, Decide(c, o, code))
    BY <1>6
  <2>2. cStream' = [cStream EXCEPT ![id] = s] /\ call' = [call EXCEPT ![id] = Decide(c, o, code)]
    BY <1>6, <2>1 DEF SetCStream, SetCall
  <2> HIDE DEF c, s, item
  <2>3. QED
    BY <1>1, <1>2, <1>3, <1>4, <2>2, DecideTyped, ClientUpdate
<1>7. QED
  BY <1>2, <1>5, <1>6, CodesTyped DEF CollectUnary

(* A continuation of messages() on the client. *)
LEMMA IterateInv ==
  ASSUME IInv, NEW id \in Id, Iterate(id)
  PROVE  WireTypeOK' /\ ClientPart'
<1> DEFINE c == call[id]  s == Consume(cStream[id])  item == cStream[id].hand
<1>1. WireTypeOK'
  BY WireUnchanged DEF IInv, Iterate
<1>2. ClientPart /\ c \in GoodCall /\ Sound(cStream[id], TRUE) /\ item.val \in Nat /\ c.pc # "send"
  BY HandTyped DEF IInv, ClientPart, Iterate, CAwaits
<1>3. Sound(s, FALSE)
  BY <1>2, ConsumeSound DEF Iterate
<1>4. /\ cStreams' \subseteq Id /\ nextStreamId' \in {2 * k - 1 : k \in 1..MaxCalls + 1}
      /\ cStream' = [cStream EXCEPT ![id] = s]
  BY <1>2 DEF Iterate, ClientPart, SetCStream
<1>5. CASE SetCall(id, [c EXCEPT !.pc = "yield", !.received = Append(@, item.val)])
  <2> DEFINE d == [c EXCEPT !.pc = "yield", !.received = Append(@, item.val)]
  <2>1. d \in GoodCall /\ d.pc = "yield" /\ call' = [call EXCEPT ![id] = d]
    BY <1>2, <1>5, MoveTyped DEF SetCall
  <2> HIDE DEF c, s, item, d
  <2>2. CAwaits(d) = FALSE
    BY <2>1 DEF CAwaits
  <2>3. QED
    BY <1>1, <1>2, <1>3, <1>4, <2>1, <2>2, ClientUpdate
<1>6. CASE \E o \in {"resolved", "rejected", "returned"}, code \in Nat :
             SetCall(id, Decide(c, o, code))
  <2>1. PICK o \in {"resolved", "rejected", "returned"}, code \in Nat :
          call' = [call EXCEPT ![id] = Decide(c, o, code)]
    BY <1>6 DEF SetCall
  <2> HIDE DEF c, s, item
  <2>2. QED
    BY <1>1, <1>2, <1>3, <1>4, <2>1, DecideTyped, ClientUpdate
<1>7. QED
  BY <1>2, <1>5, <1>6 DEF Iterate

(* The application asks for the next response. *)
LEMMA AppNextInv ==
  ASSUME IInv, NEW id \in Id, AppNext(id)
  PROVE  WireTypeOK' /\ ClientPart'
<1> DEFINE d == [call[id] EXCEPT !.pc = "iter"]
<1>1. WireTypeOK'
  BY WireUnchanged DEF IInv, AppNext
<1>2. ClientPart /\ Sound(cStream[id], FALSE) /\ d \in GoodCall /\ d.pc = "iter"
  <2>1. call[id] \in GoodCall /\ CAwaits(call[id]) = FALSE /\ call[id].pc # "send"
    BY DEF IInv, ClientPart, AppNext, CAwaits
  <2>2. Sound(cStream[id], CAwaits(call[id])) /\ ClientPart
    BY DEF IInv, ClientPart
  <2>3. d \in GoodCall /\ d.pc = "iter"
    BY <2>1, MoveTyped
  <2>4. QED
    BY <2>1, <2>2, <2>3
<1>3. /\ cStream' = [cStream EXCEPT ![id] = NextItem(cStream[id])]
         /\ call' = [call EXCEPT ![id] = d]
      /\ cStreams' \subseteq Id /\ nextStreamId' \in {2 * k - 1 : k \in 1..MaxCalls + 1}
  BY <1>2 DEF AppNext, SetCStream, SetCall, ClientPart
<1> HIDE DEF d
<1>4. Sound(NextItem(cStream[id]), CAwaits(d))
  BY <1>2, NextItemSound DEF CAwaits
<1>5. QED
  BY <1>1, <1>2, <1>3, <1>4, ClientUpdate

(* The application leaves its iteration. *)
LEMMA AppReturnInv ==
  ASSUME IInv, NEW id \in Id, AppReturn(id)
  PROVE  WireTypeOK' /\ ClientPart'
<1>1. WireTypeOK'
  BY WireUnchanged DEF IInv, AppReturn
<1>2. ClientPart /\ call[id] \in GoodCall /\ CAwaits(call[id]) = FALSE /\ call[id].pc # "send"
  BY DEF IInv, ClientPart, AppReturn, CAwaits
<1>3. /\ call' = [call EXCEPT ![id] = Decide(call[id], "returned", 0)]
      /\ cStreams' \subseteq Id /\ UNCHANGED <<nextStreamId, cStream>>
  BY <1>2 DEF AppReturn, SetCall, ClientPart
<1>4. QED
  BY <1>1, <1>2, <1>3, DecideTyped, ClientCallUpdate

(* catch and finally of a call. *)
LEMMA SettleCallInv ==
  ASSUME IInv, NEW id \in Id, SettleCall(id)
  PROVE  WireTypeOK' /\ ClientPart'
<1> DEFINE c == call[id]  d == Cleanup([c EXCEPT !.pc = "done"])
<1>1. PICK frames \in {<<>>, CancelFrames(id, cStream[id])} : PostToServer(frames) /\ NoFault
  BY DEF SettleCall
<1>2. WireTypeOK'
  <2>1. frames \in Seq(Frame(Id))
    <3>1. <<>> \in Seq(Frame(Id))
      OBVIOUS
    <3>2. CancelFrames(id, cStream[id]) \in Seq(Frame(Id))
      BY CancelFramesTyped
    <3>3. QED
      BY <1>1, <3>1, <3>2
  <2>2. WireTypeOK /\ faults' \in Nat
    BY <1>1, FaultTyped DEF IInv
  <2>3. QED
    BY <1>1, <2>1, <2>2, PostToServerTyped
<1>3. ClientPart /\ c \in GoodCall /\ CAwaits(c) = FALSE /\ c.snd # "pull"
  BY DEF IInv, ClientPart, SettleCall, RequestLoopOver, CAwaits
<1>4. [c EXCEPT !.pc = "done"] \in GoodCall /\ [c EXCEPT !.pc = "done"].pc = "done"
  BY <1>3 DEF Call, GoodCall
<1>5. d \in GoodCall /\ d.pc = "done"
  BY <1>4, CleanupTyped
<1>6. /\ call' = [call EXCEPT ![id] = d]
      /\ cStreams' \subseteq Id /\ UNCHANGED <<nextStreamId, cStream>>
  BY <1>3 DEF SettleCall, SetCall, RemoveStream, ClientPart
<1> HIDE DEF c, d
<1>7. CAwaits(d) = FALSE
  BY <1>5 DEF CAwaits
<1>8. QED
  BY <1>2, <1>3, <1>5, <1>6, <1>7, ClientCallUpdate DEF c

(* The code after the request loop, for either pattern. *)
LEMMA StopSendingInv ==
  ASSUME ClientPart, NEW id \in Id, call[id].snd = "pull", NEW s, Sound(s, CAwaits(call[id])),
         StopSending(id, s), UNCHANGED <<nextStreamId, cStreams>>
  PROVE  ClientPart'
<1> DEFINE c == [call[id] EXCEPT !.snd = "done"]
<1>1. c \in GoodCall /\ c.pc = call[id].pc /\ c.kind = call[id].kind /\ c.snd = "done"
  BY DEF ClientPart, Call, GoodCall
<1>2. cStreams' \subseteq Id /\ nextStreamId' \in {2 * k - 1 : k \in 1..MaxCalls + 1}
  BY DEF ClientPart
<1>3. CASE c.kind = CLIENT_STREAMING
  <2> DEFINE d == [c EXCEPT !.pc = "first"]
  <2>1. d \in GoodCall /\ d.pc = "first"
    BY <1>1, MoveTyped
  <2>2. cStream' = [cStream EXCEPT ![id] = NextItem(s)] /\ call' = [call EXCEPT ![id] = d]
    BY <1>3 DEF StopSending, SetCStream, SetCall
  <2>3. Sound(s, FALSE)
    <3>1. call[id].pc = "send"
      BY <1>1, <1>3 DEF ClientPart, GoodCall
    <3>2. CAwaits(call[id]) = FALSE
      BY <3>1 DEF CAwaits
    <3>3. QED
      BY <3>2
  <2>4. Sound(NextItem(s), TRUE)
    BY <2>3, NextItemSound
  <2> HIDE DEF c, d
  <2>5. CAwaits(d) = TRUE
    BY <2>1 DEF CAwaits
  <2>6. QED
    BY <1>2, <2>1, <2>2, <2>4, <2>5, ClientUpdate
<1>4. CASE c.kind # CLIENT_STREAMING
  <2>1. cStream' = [cStream EXCEPT ![id] = s] /\ call' = [call EXCEPT ![id] = c]
    BY <1>4 DEF StopSending, SetCStream, SetCall
  <2> HIDE DEF c
  <2>2. CAwaits(c) = CAwaits(call[id])
    BY <1>1 DEF CAwaits
  <2>3. QED
    BY <1>1, <1>2, <2>1, <2>2, ClientUpdate
<1>5. QED
  BY <1>3, <1>4

(* The request loop throws: clientStream is at its loop, so nothing awaits. *)
LEMMA SendingThrowsInv ==
  ASSUME IInv, NEW id \in Id, call[id].snd = "pull", SendingThrows(id), Fault \/ NoFault,
         UNCHANGED <<nextStreamId, cStreams>>
  PROVE  WireTypeOK' /\ ClientPart'
<1> DEFINE c == [call[id] EXCEPT !.snd = "done"]
<1>1. WireTypeOK'
  <2>1. PostToServer(<<>>) /\ WireTypeOK /\ faults' \in Nat
    BY FaultTyped DEF SendingThrows, IInv
  <2>2. <<>> \in Seq(Frame(Id))
    OBVIOUS
  <2>3. QED
    BY <2>1, <2>2, PostToServerTyped
<1>2. /\ ClientPart /\ cStreams' \subseteq Id /\ UNCHANGED <<nextStreamId, cStream>>
      /\ call[id] \in GoodCall
  BY DEF IInv, ClientPart, SendingThrows
<1>3. c \in GoodCall /\ c.pc = call[id].pc /\ c.kind = call[id].kind /\ c.snd = "done"
  BY <1>2 DEF Call, GoodCall
<1>4. CASE c.kind = CLIENT_STREAMING
  <2>1. call' = [call EXCEPT ![id] = Decide(c, "rejected", LocalError)]
    BY <1>4 DEF SendingThrows, SetCall
  <2>2. call[id].pc = "send"
    BY <1>2, <1>3, <1>4 DEF GoodCall
  <2> HIDE DEF c
  <2>3. CAwaits(call[id]) = FALSE
    BY <2>2 DEF CAwaits
  <2>4. Decide(c, "rejected", LocalError) \in GoodCall
        /\ CAwaits(Decide(c, "rejected", LocalError)) = FALSE
    BY <1>3, CodesTyped, DecideTyped
  <2>5. QED
    BY <1>1, <1>2, <2>1, <2>3, <2>4, ClientCallUpdate
<1>5. CASE c.kind # CLIENT_STREAMING
  <2>1. call' = [call EXCEPT ![id] = c]
    BY <1>5 DEF SendingThrows, SetCall
  <2> HIDE DEF c
  <2>2. CAwaits(c) = CAwaits(call[id])
    BY <1>3 DEF CAwaits
  <2>3. QED
    BY <1>1, <1>2, <1>3, <2>1, <2>2, ClientCallUpdate
<1>6. QED
  BY <1>4, <1>5

(* One turn of the request loop. *)
LEMMA SendRequestInv ==
  ASSUME IInv, NEW id \in Id, SendRequest(id)
  PROVE  WireTypeOK' /\ ClientPart'
<1> DEFINE s == cStream[id]  n == call[id].sent + 1
<1>1. /\ ClientPart /\ WireTypeOK /\ call[id].snd = "pull" /\ Sound(s, CAwaits(call[id]))
      /\ faults' \in Nat /\ UNCHANGED <<nextStreamId, cStreams>>
      /\ call[id] \in GoodCall /\ n \in Nat /\ cStreams \subseteq Id
  BY FaultTyped DEF IInv, ClientPart, SendRequest, GoodCall, Call
<1>2. CASE StopSending(id, s) /\ PostToServer(<<>>)
  <2>1. <<>> \in Seq(Frame(Id))
    OBVIOUS
  <2>2. QED
    BY <1>1, <1>2, <2>1, StopSendingInv, PostToServerTyped
<1>3. CASE /\ PostToServer(<<MessageFrame(id, n)>>)
           /\ SetCall(id, [call[id] EXCEPT !.sent = n])
           /\ UNCHANGED cStream
  <2> DEFINE d == [call[id] EXCEPT !.sent = n]
  <2>1. d \in GoodCall /\ d.pc = call[id].pc
    BY <1>1 DEF Call, GoodCall
  <2>2. call' = [call EXCEPT ![id] = d]
    BY <1>3 DEF SetCall
  <2> HIDE DEF d, n
  <2>3. CAwaits(d) = CAwaits(call[id])
    BY <2>1 DEF CAwaits
  <2>4. ClientPart'
    BY <1>1, <1>3, <2>1, <2>2, <2>3, ClientCallUpdate
  <2>5. <<MessageFrame(id, n)>> \in Seq(Frame(Id))
    BY <1>1, FramesTyped
  <2>6. QED
    BY <1>1, <1>3, <2>4, <2>5, PostToServerTyped
<1>4. CASE SendingThrows(id)
  BY <1>1, <1>4, SendingThrowsInv DEF SendRequest
<1>5. QED
  BY <1>2, <1>3, <1>4 DEF SendRequest

(* The application's request iterable ends. *)
LEMMA EndRequestsInv ==
  ASSUME IInv, NEW id \in Id, EndRequests(id)
  PROVE  WireTypeOK' /\ ClientPart'
<1> DEFINE s == cStream[id]
<1>1. /\ ClientPart /\ WireTypeOK /\ call[id].snd = "pull" /\ Sound(s, CAwaits(call[id]))
      /\ faults' \in Nat /\ UNCHANGED <<nextStreamId, cStreams>>
  BY FaultTyped DEF IInv, ClientPart, EndRequests
<1>2. CASE PostToServer(<<HalfCloseFrame(id)>>) /\ StopSending(id, SetState(s, "half_closed_local"))
  <2>1. <<HalfCloseFrame(id)>> \in Seq(Frame(Id))
    BY FramesTyped
  <2>2. CAwaits(call[id]) \in BOOLEAN /\ "half_closed_local" \in StreamState
    BY DEF CAwaits, StreamState
  <2>3. Sound(SetState(s, "half_closed_local"), CAwaits(call[id]))
    BY <1>1, <2>2, SetStateSound
  <2>4. QED
    BY <1>1, <1>2, <2>1, <2>3, StopSendingInv, PostToServerTyped
<1>3. CASE SendingThrows(id)
  BY <1>1, <1>3, SendingThrowsInv DEF EndRequests
<1>4. CASE StopSending(id, s) /\ PostToServer(<<>>)
  <2>1. <<>> \in Seq(Frame(Id))
    OBVIOUS
  <2>2. QED
    BY <1>1, <1>4, <2>1, StopSendingInv, PostToServerTyped
<1>5. QED
  BY <1>2, <1>3, <1>4 DEF EndRequests

(* The application's request iterable throws. *)
LEMMA RequestsThrowInv ==
  ASSUME IInv, NEW id \in Id, RequestsThrow(id)
  PROVE  WireTypeOK' /\ ClientPart'
  BY SendingThrowsInv DEF RequestsThrow

(* A frame moves the stream of its call, and only the stream. *)
LEMMA ClientReceiveSound ==
  ASSUME NEW s, NEW w \in BOOLEAN, Sound(s, w), NEW f \in Frame(Id)
  PROVE  Sound(ClientReceive(s, f), w)
<1>1. f.arg \in Nat
  BY DEF Frame
<1>2. CASE f.body = "message"
  BY <1>1, <1>2, CodesTyped, PushSound DEF ClientReceive
<1>3. CASE f.body = "close"
  <2>1. Sound(SetState(s, "closed"), w)
    BY SetStateSound DEF StreamState
  <2>2. QED
    BY <1>3, <2>1, CodesTyped, PushSound DEF ClientReceive
<1>4. CASE f.body = "error"
  <2>1. Sound(SetState(s, "error"), w)
    BY SetStateSound DEF StreamState
  <2>2. QED
    BY <1>1, <1>4, <2>1, CodesTyped, PushSound DEF ClientReceive
<1>5. CASE f.body = "halfClose"
  BY <1>5, SetStateSound DEF ClientReceive, StreamState
<1>6. CASE f.body = "cancel"
  BY <1>6, CancelSound DEF ClientReceive
<1>7. CASE f.body \notin {"message", "close", "error", "halfClose", "cancel"}
  BY <1>7 DEF ClientReceive
<1>8. QED
  BY <1>2, <1>3, <1>4, <1>5, <1>6, <1>7

(* RpcClient.handleFrame. *)
LEMMA ClientHandleFrameInv ==
  ASSUME IInv, ClientHandleFrame
  PROVE  WireTypeOK' /\ ClientPart'
<1> DEFINE f == Head(toClient)
           F == [id \in Id |-> IF id = f.streamId /\ id \in cStreams
                               THEN ClientReceive(cStream[id], f) ELSE cStream[id]]
<1>1. toClient \in Seq(Frame(Id)) /\ toClient # <<>> /\ ClientPart /\ WireTypeOK
  BY DEF IInv, WireTypeOK, ClientHandleFrame
<1>2. f \in Frame(Id) /\ Tail(toClient) \in Seq(Frame(Id))
  BY <1>1
<1>3. WireTypeOK'
  BY <1>1, <1>2 DEF WireTypeOK, ClientHandleFrame
<1>4. cStream' = F /\ UNCHANGED <<nextStreamId, cStreams, call>>
  BY DEF ClientHandleFrame
<1> HIDE DEF f
<1>5. ASSUME NEW id \in Id
      PROVE  Sound(F[id], CAwaits(call[id]))
  <2>1. Sound(cStream[id], CAwaits(call[id])) /\ CAwaits(call[id]) \in BOOLEAN
    BY <1>1 DEF ClientPart, CAwaits
  <2>2. QED
    BY <1>2, <2>1, ClientReceiveSound
<1>6. cStreams' \subseteq Id
  BY <1>1, <1>4 DEF ClientPart
<1>7. F = [id \in Id |-> F[id]]
  OBVIOUS
<1> HIDE DEF F
<1>8. QED
  BY <1>7, <1>1, <1>3, <1>4, <1>5, <1>6, ClientStreamsUpdate

(* The abort listener. *)
LEMMA AbortInv ==
  ASSUME IInv, NEW id \in Id, Abort(id)
  PROVE  WireTypeOK' /\ ClientPart'
<1> DEFINE s == Cancel(cStream[id])  d == [call[id] EXCEPT !.signal = "aborted"]
<1>1. /\ ClientPart /\ WireTypeOK /\ faults' \in Nat /\ PostToServer(CancelFrames(id, s))
      /\ cStreams' \subseteq Id /\ nextStreamId' \in {2 * k - 1 : k \in 1..MaxCalls + 1}
  BY FaultTyped DEF IInv, ClientPart, Abort
<1>2. WireTypeOK'
  BY <1>1, CancelFramesTyped, PostToServerTyped
<1>3. /\ Sound(cStream[id], CAwaits(call[id])) /\ CAwaits(call[id]) \in BOOLEAN
      /\ call[id] \in GoodCall
  BY <1>1 DEF ClientPart, CAwaits
<1>4. Sound(s, CAwaits(call[id]))
  BY <1>3, CancelSound
<1>5. d \in GoodCall /\ d.pc = call[id].pc
  BY <1>3 DEF Call, GoodCall
<1>6. cStream' = [cStream EXCEPT ![id] = s] /\ call' = [call EXCEPT ![id] = d]
  BY DEF Abort, SetCStream, SetCall
<1> HIDE DEF s, d
<1>7. CAwaits(d) = CAwaits(call[id])
  BY <1>5 DEF CAwaits
<1>8. QED
  BY <1>1, <1>2, <1>4, <1>5, <1>6, <1>7, ClientUpdate

(* The deadline timer. *)
LEMMA DeadlineFiresInv ==
  ASSUME IInv, NEW id \in Id, DeadlineFires(id)
  PROVE  WireTypeOK' /\ ClientPart'
<1> DEFINE d == [call[id] EXCEPT !.timer = FALSE]
<1>1. PICK s \in {cStream[id], Expire(cStream[id])} :
        /\ cStream' = [cStream EXCEPT ![id] = s]
        /\ PostToServer(<<>>) \/ PostToServer(CancelFrames(id, s))
  BY DEF DeadlineFires, SetCStream
<1>2. /\ ClientPart /\ WireTypeOK /\ faults' \in Nat
      /\ cStreams' \subseteq Id /\ nextStreamId' \in {2 * k - 1 : k \in 1..MaxCalls + 1}
  BY FaultTyped DEF IInv, ClientPart, DeadlineFires
<1>3. WireTypeOK'
  <2>1. <<>> \in Seq(Frame(Id))
    OBVIOUS
  <2>2. CancelFrames(id, s) \in Seq(Frame(Id))
    BY CancelFramesTyped
  <2>3. QED
    BY <1>1, <1>2, <2>1, <2>2, PostToServerTyped
<1>4. /\ Sound(cStream[id], CAwaits(call[id])) /\ CAwaits(call[id]) \in BOOLEAN
      /\ call[id] \in GoodCall
  BY <1>2 DEF ClientPart, CAwaits
<1>5. Sound(s, CAwaits(call[id]))
  <2>1. Sound(Push(cStream[id], Error(DEADLINE_EXCEEDED)), CAwaits(call[id]))
    BY <1>4, CodesTyped, PushSound DEF DEADLINE_EXCEEDED
  <2>2. Sound(Expire(cStream[id]), CAwaits(call[id]))
    BY <1>4, <2>1, SetStateSound DEF Expire, StreamState
  <2>3. QED
    BY <1>1, <1>4, <2>2
<1>6. d \in GoodCall /\ d.pc = call[id].pc /\ call' = [call EXCEPT ![id] = d]
  BY <1>4 DEF Call, GoodCall, DeadlineFires, SetCall
<1> HIDE DEF d
<1>7. CAwaits(d) = CAwaits(call[id])
  BY <1>6 DEF CAwaits
<1>8. QED
  BY <1>1, <1>2, <1>3, <1>5, <1>6, <1>7, ClientUpdate

(* cancelAll on the client. *)
LEMMA CancelAllClientInv ==
  ASSUME ClientPart, CancelAllClientStreams
  PROVE  ClientPart'
<1> DEFINE F == [id \in Id |-> IF id \in cStreams THEN Cancel(cStream[id]) ELSE cStream[id]]
<1>1. cStream' = F /\ cStreams' = {} /\ UNCHANGED <<nextStreamId, call>>
      /\ F = [id \in Id |-> F[id]]
  BY DEF CancelAllClientStreams
<1>2. ASSUME NEW id \in Id
      PROVE  Sound(F[id], CAwaits(call[id]))
  <2>1. Sound(cStream[id], CAwaits(call[id])) /\ CAwaits(call[id]) \in BOOLEAN
    BY DEF ClientPart, CAwaits
  <2>2. QED
    BY <2>1, CancelSound
<1> HIDE DEF F
<1>3. QED
  BY <1>1, <1>2, ClientStreamsUpdate

(* Every step of the client preserves the invariant. *)
LEMMA ClientInv ==
  ASSUME IInv, ClientStep
  PROVE  IInv'
<1>1. ClientNext /\ UNCHANGED serverVars
  BY DEF ClientStep
<1>2. ServerPart'
  BY <1>1 DEF IInv, ServerPart, serverVars
<1>3. ASSUME NEW id \in Id, ClientContinue(id)
      PROVE  WireTypeOK' /\ ClientPart'
  BY <1>3, CollectUnaryInv, IterateInv, SettleCallInv DEF ClientContinue
<1>4. CASE ClientClose
  <2>1. ClientPart'
    BY <1>4, CancelAllClientInv DEF ClientClose, IInv
  <2>2. WireTypeOK /\ faults' \in Nat /\ CloseClientSide
    BY <1>4, FaultTyped DEF ClientClose, IInv
  <2>3. WireTypeOK'
    BY <2>2, EndsTyped
  <2>4. QED
    BY <1>2, <2>1, <2>3 DEF IInv
<1>5. CASE ClientTransportError
  <2>1. ClientPart'
    BY <1>5, CancelAllClientInv DEF ClientTransportError, IInv
  <2>2. WireTypeOK /\ faults' \in Nat /\ UNCHANGED <<cOpen, sOpen, toServer, toClient>>
    BY <1>5, FaultTyped DEF ClientTransportError, IInv
  <2>3. WireTypeOK'
    BY <2>2, EndsTyped
  <2>4. QED
    BY <1>2, <2>1, <2>3 DEF IInv
<1>6. CASE ClientHandleFrame
  BY <1>2, <1>6, ClientHandleFrameInv DEF IInv
<1>7. ASSUME NEW id \in Id,
             \/ ClientStart(id) \/ ClientContinue(id) \/ AppNext(id) \/ AppReturn(id)
             \/ SendRequest(id) \/ EndRequests(id) \/ RequestsThrow(id)
             \/ Abort(id) \/ DeadlineFires(id)
      PROVE  WireTypeOK' /\ ClientPart'
  BY <1>3, <1>7, ClientStartInv, AppNextInv, AppReturnInv, SendRequestInv, EndRequestsInv,
     RequestsThrowInv, AbortInv, DeadlineFiresInv
<1>8. QED
  BY <1>1, <1>2, <1>4, <1>5, <1>6, <1>7 DEF ClientNext, IInv

(***************************************************************************)
(* The server's part.                                                      *)
(***************************************************************************)
(* A step that changes one dispatch and its stream. *)
LEMMA ServerUpdate ==
  ASSUME ServerPart, NEW id \in Id, NEW s, NEW d \in Dispatch, Sound(s, SAwaits(d)),
         sStream' = [sStream EXCEPT ![id] = s], srv' = [srv EXCEPT ![id] = d],
         sStreams' \subseteq Id
  PROVE  ServerPart'
<1>1. s \in StreamObject
  BY DEF Sound
<1>2. sStream' \in [Id -> StreamObject] /\ srv' \in [Id -> Dispatch]
  BY <1>1 DEF ServerPart
<1>3. ASSUME NEW i \in Id
      PROVE  Sound(sStream'[i], SAwaits(srv'[i]))
  <2>1. CASE i = id
    BY <2>1 DEF ServerPart
  <2>2. CASE i # id
    BY <2>2 DEF ServerPart
  <2>3. QED
    BY <2>1, <2>2
<1>4. QED
  BY <1>2, <1>3 DEF ServerPart

(* A step that moves only the streams, each soundly. *)
LEMMA ServerStreamsUpdate ==
  ASSUME ServerPart, NEW F, F = [id \in Id |-> F[id]], sStream' = F,
         \A id \in Id : Sound(F[id], SAwaits(srv[id])),
         sStreams' \subseteq Id, UNCHANGED srv
  PROVE  ServerPart'
<1>1. F \in [Id -> StreamObject]
  BY DEF Sound
<1>2. QED
  BY <1>1 DEF ServerPart

(* A step that moves only one handler. *)
LEMMA ServerDispatchUpdate ==
  ASSUME ServerPart, NEW id \in Id, NEW d \in Dispatch, SAwaits(d) = SAwaits(srv[id]),
         srv' = [srv EXCEPT ![id] = d], sStreams' \subseteq Id, UNCHANGED sStream
  PROVE  ServerPart'
  BY DEF ServerPart

(* A handler that is about to settle awaits nothing. *)
LEMMA ReturnTyped ==
  ASSUME NEW d \in Dispatch, NEW o \in {"ok", "silent"}
  PROVE  Return(d, o) \in Dispatch /\ SAwaits(Return(d, o)) = FALSE
<1>1. Return(d, o) \in Dispatch /\ Return(d, o).pc = "settle"
  BY DEF Return, Dispatch
<1>2. QED
  BY <1>1 DEF SAwaits

(* A handler that threw awaits nothing. *)
LEMMA ThrowTyped ==
  ASSUME NEW d \in Dispatch, NEW code \in Nat
  PROVE  Throw(d, code) \in Dispatch /\ SAwaits(Throw(d, code)) = FALSE
<1>1. Throw(d, code) \in Dispatch /\ Throw(d, code).pc = "settle"
  BY DEF Throw, Dispatch
<1>2. QED
  BY <1>1 DEF SAwaits

(* What sendError sends are frames. *)
LEMMA ErrorFramesTyped ==
  ASSUME NEW id \in Id, NEW code \in Nat
  PROVE  ErrorFrames(id, code) \in Seq(Frame(Id))
<1>1. <<>> \in Seq(Frame(Id))
  OBVIOUS
<1>2. <<ErrorFrame(id, code)>> \in Seq(Frame(Id))
  BY FramesTyped
<1>3. QED
  BY <1>1, <1>2 DEF ErrorFrames

(* An accepted OPEN names a registered method; a refused one sends its error. *)
LEMMA HandleOpenInv ==
  ASSUME ServerPart, NEW f \in Frame(Id), f.body = "open", HandleOpen(f),
         toClient \in Seq(Frame(Id))
  PROVE  ServerPart' /\ toClient' \in Seq(Frame(Id))
<1> DEFINE id == f.streamId  error == OpenError(id, f.arg)
<1>1. id \in Id /\ f.arg \in Method
  BY DEF Frame
<1>2. CASE /\ error # 0
           /\ toClient' = (IF cOpen THEN toClient \o ErrorFrames(id, error) ELSE toClient)
           /\ UNCHANGED serverVars
  <2>1. error \in Nat
    BY DEF OpenError, INVALID_ARGUMENT, UNIMPLEMENTED, INTERNAL
  <2>2. ErrorFrames(id, error) \in Seq(Frame(Id))
    BY <1>1, <2>1, ErrorFramesTyped
  <2>3. ServerPart'
    BY <1>2 DEF ServerPart, serverVars
  <2> HIDE DEF id, error
  <2>4. QED
    BY <1>2, <2>2, <2>3
<1>3. CASE error = 0 /\ UNCHANGED toClient
  <2> DEFINE waits == f.arg \in {UNARY, SERVER_STREAMING}
             o == SetState(NewStream, "open")
             s == IF waits THEN NextItem(o) ELSE o
             d == [NoDispatch EXCEPT !.method = f.arg, !.pc = IF waits THEN "first" ELSE "run"]
  <2>1. f.arg \in MethodType
    BY <1>1, <1>3 DEF Method, OpenError, INVALID_ARGUMENT, UNIMPLEMENTED
  <2>2. Sound(o, FALSE) /\ Sound(NextItem(o), TRUE)
    BY NewStreamSound, SetStateSound, NextItemSound DEF StreamState
  <2>3. NoDispatch \in Dispatch
    BY DEF NoDispatch, Dispatch, MethodType, UNARY, BIDI_STREAMING
  <2>4. d \in Dispatch /\ d.pc = (IF waits THEN "first" ELSE "run")
    BY <2>1, <2>3 DEF Dispatch
  <2>5. /\ sStream' = [sStream EXCEPT ![id] = s] /\ srv' = [srv EXCEPT ![id] = d]
        /\ sStreams' \subseteq Id
    BY <1>1, <1>3 DEF HandleOpen, SetSStream, SetSrv, ServerPart
  <2>6. Sound(s, SAwaits(d))
    <3>1. CASE waits
      <4> HIDE DEF d
      <4>1. SAwaits(d) = TRUE
        BY <2>4, <3>1 DEF SAwaits
      <4>2. QED
        BY <2>2, <3>1, <4>1
    <3>2. CASE ~waits
      <4> HIDE DEF d
      <4>1. SAwaits(d) = FALSE
        BY <2>4, <3>2 DEF SAwaits
      <4>2. QED
        BY <2>2, <3>2, <4>1
    <3>3. QED
      BY <3>1, <3>2
  <2> HIDE DEF d, o, waits
  <2> HIDE DEF s, id
  <2>7. QED
    BY <1>1, <1>3, <2>4, <2>5, <2>6, ServerUpdate
<1>4. QED
  BY <1>2, <1>3 DEF HandleOpen

(* A frame moves the stream it names, and only the stream. *)
LEMMA ServerReceiveSound ==
  ASSUME NEW s, NEW w \in BOOLEAN, Sound(s, w), NEW f \in Frame(Id)
  PROVE  Sound(ServerReceive(s, f), w)
<1>1. f.arg \in Nat
  BY DEF Frame
<1>2. CASE f.body = "message"
  BY <1>1, <1>2, CodesTyped, PushSound DEF ServerReceive
<1>3. CASE f.body = "halfClose"
  <2> DEFINE st == IF s.state = "half_closed_local"
                   THEN "half_closed_both" ELSE "half_closed_remote"
  <2>1. Sound(SetState(s, st), w)
    BY SetStateSound DEF StreamState
  <2>2. QED
    BY <1>3, <2>1, CodesTyped, PushSound DEF ServerReceive
<1>4. CASE f.body = "cancel"
  BY <1>4, CancelSound DEF ServerReceive
<1>5. CASE f.body = "error"
  BY <1>1, <1>5, CodesTyped, PushSound DEF ServerReceive
<1>6. CASE f.body \notin {"message", "halfClose", "cancel", "error"}
  BY <1>6 DEF ServerReceive
<1>7. QED
  BY <1>2, <1>3, <1>4, <1>5, <1>6

(* RpcServer.handleFrame for every body but OPEN. *)
LEMMA HandleStreamFrameInv ==
  ASSUME ServerPart, NEW f \in Frame(Id), HandleStreamFrame(f)
  PROVE  ServerPart' /\ UNCHANGED toClient
<1> DEFINE F == [id \in Id |-> IF id = f.streamId /\ id \in sStreams
                               THEN ServerReceive(sStream[id], f) ELSE sStream[id]]
<1>1. /\ sStream' = F /\ UNCHANGED <<srv, toClient>> /\ sStreams' \subseteq Id
      /\ F = [id \in Id |-> F[id]]
  BY DEF HandleStreamFrame, ServerPart
<1>2. ASSUME NEW id \in Id
      PROVE  Sound(F[id], SAwaits(srv[id]))
  <2>1. Sound(sStream[id], SAwaits(srv[id])) /\ SAwaits(srv[id]) \in BOOLEAN
    BY DEF ServerPart, SAwaits
  <2>2. QED
    BY <2>1, ServerReceiveSound
<1> HIDE DEF F
<1>3. QED
  BY <1>1, <1>2, ServerStreamsUpdate

(* RpcServer.handleFrame. *)
LEMMA ServerHandleFrameInv ==
  ASSUME IInv, ServerHandleFrame
  PROVE  WireTypeOK' /\ ServerPart'
<1> DEFINE f == Head(toServer)
<1>1. /\ toServer \in Seq(Frame(Id)) /\ toServer # <<>> /\ ServerPart /\ WireTypeOK
      /\ toClient \in Seq(Frame(Id))
  BY DEF IInv, WireTypeOK, ServerHandleFrame
<1>2. f \in Frame(Id) /\ Tail(toServer) \in Seq(Frame(Id))
  BY <1>1
<1>3. \/ f.body = "open" /\ HandleOpen(f)
      \/ HandleStreamFrame(f)
  BY DEF ServerHandleFrame
<1>4. toServer' = Tail(toServer) /\ UNCHANGED <<cOpen, sOpen, faults>>
  BY DEF ServerHandleFrame
<1> HIDE DEF f
<1>5. ServerPart' /\ toClient' \in Seq(Frame(Id))
  BY <1>1, <1>2, <1>3, HandleOpenInv, HandleStreamFrameInv
<1>6. QED
  BY <1>1, <1>2, <1>4, <1>5 DEF WireTypeOK

(* A continuation of collectUnary on the server. *)
LEMMA ServerCollectInv ==
  ASSUME IInv, NEW id \in Id, ServerCollect(id)
  PROVE  WireTypeOK' /\ ServerPart'
<1> DEFINE d == srv[id]  s == Consume(sStream[id])  item == sStream[id].hand
<1>1. WireTypeOK'
  BY WireUnchanged DEF IInv, ServerCollect
<1>2. /\ ServerPart /\ d \in Dispatch /\ Sound(sStream[id], TRUE) /\ item.val \in Nat
      /\ sStreams' \subseteq Id
  BY HandTyped DEF IInv, ServerPart, ServerCollect, SAwaits
<1>3. Sound(s, FALSE) /\ Sound(NextItem(s), TRUE)
  BY <1>2, ConsumeSound, NextItemSound DEF ServerCollect
<1>4. CASE /\ SetSStream(id, NextItem(s))
           /\ SetSrv(id, [d EXCEPT !.pc = "second", !.got = Append(@, item.val)])
  <2> DEFINE e == [d EXCEPT !.pc = "second", !.got = Append(@, item.val)]
  <2>1. Append(d.got, item.val) \in Seq(Nat)
    BY <1>2 DEF Dispatch
  <2>2. e \in Dispatch /\ e.pc = "second"
    BY <1>2, <2>1 DEF Dispatch
  <2>3. sStream' = [sStream EXCEPT ![id] = NextItem(s)] /\ srv' = [srv EXCEPT ![id] = e]
    BY <1>4 DEF SetSStream, SetSrv
  <2> HIDE DEF d, s, item, e
  <2>4. SAwaits(e) = TRUE
    BY <2>2 DEF SAwaits
  <2>5. QED
    BY <1>1, <1>2, <1>3, <2>2, <2>3, <2>4, ServerUpdate
<1>5. CASE /\ SetSStream(id, s)
           /\ SetSrv(id, [d EXCEPT !.pc = "run", !.reqs = "ended"])
  <2> DEFINE e == [d EXCEPT !.pc = "run", !.reqs = "ended"]
  <2>1. e \in Dispatch /\ e.pc = "run"
    BY <1>2 DEF Dispatch
  <2>2. sStream' = [sStream EXCEPT ![id] = s] /\ srv' = [srv EXCEPT ![id] = e]
    BY <1>5 DEF SetSStream, SetSrv
  <2> HIDE DEF d, s, item, e
  <2>3. SAwaits(e) = FALSE
    BY <2>1 DEF SAwaits
  <2>4. QED
    BY <1>1, <1>2, <1>3, <2>1, <2>2, <2>3, ServerUpdate
<1>6. CASE SetSStream(id, s) /\ \E code \in Nat : SetSrv(id, Throw(d, code))
  <2>1. PICK code \in Nat : srv' = [srv EXCEPT ![id] = Throw(d, code)]
    BY <1>6 DEF SetSrv
  <2>2. sStream' = [sStream EXCEPT ![id] = s]
    BY <1>6 DEF SetSStream
  <2> HIDE DEF d, s, item
  <2>3. QED
    BY <1>1, <1>2, <1>3, <2>1, <2>2, ThrowTyped, ServerUpdate
<1>7. QED
  BY <1>2, <1>4, <1>5, <1>6, CodesTyped DEF ServerCollect

(* A handler asks for its next request. *)
LEMMA HandlerPullInv ==
  ASSUME IInv, NEW id \in Id, HandlerPull(id)
  PROVE  WireTypeOK' /\ ServerPart'
<1> DEFINE e == [srv[id] EXCEPT !.pc = "pull"]
<1>1. WireTypeOK'
  BY WireUnchanged DEF IInv, HandlerPull
<1>2. /\ ServerPart /\ Sound(sStream[id], FALSE) /\ e \in Dispatch /\ e.pc = "pull"
      /\ sStreams' \subseteq Id
  <2>1. ServerPart /\ srv[id] \in Dispatch /\ sStreams' \subseteq Id
    BY DEF IInv, ServerPart, HandlerPull
  <2>2. SAwaits(srv[id]) = FALSE
    BY DEF HandlerPull, SAwaits
  <2>3. Sound(sStream[id], FALSE)
    BY <2>1, <2>2 DEF ServerPart
  <2>4. e \in Dispatch /\ e.pc = "pull"
    BY <2>1 DEF Dispatch
  <2>5. QED
    BY <2>1, <2>3, <2>4
<1>3. /\ sStream' = [sStream EXCEPT ![id] = NextItem(sStream[id])]
      /\ srv' = [srv EXCEPT ![id] = e]
  BY DEF HandlerPull, SetSStream, SetSrv
<1> HIDE DEF e
<1>4. Sound(NextItem(sStream[id]), SAwaits(e))
  BY <1>2, NextItemSound DEF SAwaits
<1>5. QED
  BY <1>1, <1>2, <1>3, <1>4, ServerUpdate

(* A handler is given its next request. *)
LEMMA HandlerGotInv ==
  ASSUME IInv, NEW id \in Id, HandlerGot(id)
  PROVE  WireTypeOK' /\ ServerPart'
<1> DEFINE d == srv[id]  s == Consume(sStream[id])  item == sStream[id].hand
<1>1. WireTypeOK'
  BY WireUnchanged DEF IInv, HandlerGot
<1>2. /\ ServerPart /\ d \in Dispatch /\ Sound(sStream[id], TRUE) /\ item.val \in Nat
      /\ sStreams' \subseteq Id
  BY HandTyped DEF IInv, ServerPart, HandlerGot, SAwaits
<1>3. Sound(s, FALSE) /\ sStream' = [sStream EXCEPT ![id] = s]
  BY <1>2, ConsumeSound DEF HandlerGot, SetSStream
<1>4. \E e \in Dispatch : SAwaits(e) = FALSE /\ SetSrv(id, e)
  <2>1. CASE SetSrv(id, [d EXCEPT !.pc = "run", !.got = Append(@, item.val)])
    <3> DEFINE e == [d EXCEPT !.pc = "run", !.got = Append(@, item.val)]
    <3>1. Append(d.got, item.val) \in Seq(Nat)
      BY <1>2 DEF Dispatch
    <3>2. e \in Dispatch /\ e.pc = "run" /\ SetSrv(id, e)
      BY <1>2, <2>1, <3>1 DEF Dispatch
    <3> HIDE DEF d, item, e
    <3>3. QED
      BY <3>2 DEF SAwaits
  <2>2. ASSUME NEW r \in {"ended", "failed"}, SetSrv(id, [d EXCEPT !.pc = "run", !.reqs = r])
        PROVE  \E e \in Dispatch : SAwaits(e) = FALSE /\ SetSrv(id, e)
    <3> DEFINE e == [d EXCEPT !.pc = "run", !.reqs = r]
    <3>1. e \in Dispatch /\ e.pc = "run" /\ SetSrv(id, e)
      BY <1>2, <2>2 DEF Dispatch
    <3> HIDE DEF d, item, e
    <3>2. QED
      BY <3>1 DEF SAwaits
  <2>3. CASE SetSrv(id, Throw([d EXCEPT !.reqs = "failed"], item.val))
    <3>1. [d EXCEPT !.reqs = "failed"] \in Dispatch
      BY <1>2 DEF Dispatch
    <3> HIDE DEF d, item
    <3>2. QED
      BY <1>2, <2>3, <3>1, ThrowTyped
  <2>4. QED
    BY <2>1, <2>2, <2>3 DEF HandlerGot
<1>5. PICK e \in Dispatch : SAwaits(e) = FALSE /\ srv' = [srv EXCEPT ![id] = e]
  BY <1>4 DEF SetSrv
<1> HIDE DEF d, s, item
<1>6. QED
  BY <1>1, <1>2, <1>3, <1>5, ServerUpdate

(* A streaming handler yields a response. *)
LEMMA HandlerYieldInv ==
  ASSUME IInv, NEW id \in Id, HandlerYield(id)
  PROVE  WireTypeOK' /\ ServerPart'
<1> DEFINE d == srv[id]  n == d.yielded + 1
<1>1. /\ ServerPart /\ WireTypeOK /\ d \in Dispatch /\ SAwaits(d) = FALSE
      /\ n \in Nat /\ INTERNAL \in Nat
  BY CodesTyped DEF IInv, ServerPart, HandlerYield, Dispatch, SAwaits
<1>2. faults' \in Nat /\ sStreams' \subseteq Id /\ UNCHANGED sStream
  BY <1>1, FaultTyped DEF HandlerYield, ServerPart
<1>3. /\ <<>> \in Seq(Frame(Id))
      /\ <<MessageFrame(id, n)>> \in Seq(Frame(Id))
  BY <1>1, FramesTyped
<1>4. WireTypeOK'
  BY <1>1, <1>2, <1>3, PostToClientTyped DEF HandlerYield
<1>5. \E e \in Dispatch : SAwaits(e) = FALSE /\ SetSrv(id, e)
  <2>1. CASE SetSrv(id, [d EXCEPT !.yielded = n])
    <3> DEFINE e == [d EXCEPT !.yielded = n]
    <3>1. e \in Dispatch /\ e.pc = d.pc /\ SetSrv(id, e)
      BY <1>1, <2>1 DEF Dispatch
    <3> HIDE DEF e, d
    <3>2. SAwaits(e) = SAwaits(d)
      BY <3>1 DEF SAwaits
    <3>3. QED
      BY <1>1, <3>1, <3>2
  <2>2. CASE SetSrv(id, Return(d, "silent")) \/ SetSrv(id, Throw(d, INTERNAL))
    <3> HIDE DEF d
    <3>1. QED
      BY <1>1, <2>2, ReturnTyped, ThrowTyped
  <2>3. QED
    BY <2>1, <2>2 DEF HandlerYield
<1>6. PICK e \in Dispatch : SAwaits(e) = FALSE /\ srv' = [srv EXCEPT ![id] = e]
  BY <1>5 DEF SetSrv
<1>7. QED
  BY <1>1, <1>2, <1>4, <1>6, ServerDispatchUpdate

(* What a finished handler sends are frames. *)
LEMMA FinalFramesTyped ==
  ASSUME NEW id \in Id, NEW d \in Dispatch
  PROVE  FinalFrames(id, d) \in Seq(Frame(Id))
<1>1. /\ MessageFrame(id, 1) \in Frame(Id) /\ CloseFrame(id) \in Frame(Id)
      /\ HalfCloseFrame(id) \in Frame(Id)
  BY FramesTyped
<1>2. QED
  BY <1>1 DEF FinalFrames

(* A handler finishes. *)
LEMMA HandlerFinishInv ==
  ASSUME IInv, NEW id \in Id, HandlerFinish(id)
  PROVE  WireTypeOK' /\ ServerPart'
<1> DEFINE d == srv[id]
<1>1. /\ ServerPart /\ WireTypeOK /\ d \in Dispatch /\ INTERNAL \in Nat
      /\ Sound(sStream[id], FALSE) /\ SAwaits(d) = FALSE
  <2>1. ServerPart /\ WireTypeOK /\ d \in Dispatch /\ INTERNAL \in Nat
    BY CodesTyped DEF IInv, ServerPart
  <2>2. SAwaits(d) = FALSE
    BY DEF HandlerFinish, SAwaits
  <2>3. Sound(sStream[id], FALSE)
    BY <2>1, <2>2 DEF ServerPart
  <2>4. QED
    BY <2>1, <2>2, <2>3
<1>2. faults' \in Nat /\ sStreams' \subseteq Id
  BY <1>1, FaultTyped DEF HandlerFinish, ServerPart
<1>3. <<>> \in Seq(Frame(Id)) /\ FinalFrames(id, d) \in Seq(Frame(Id))
  BY <1>1, FinalFramesTyped
<1>4. WireTypeOK'
  BY <1>1, <1>2, <1>3, PostToClientTyped DEF HandlerFinish
<1>5. CASE UNCHANGED sStream /\ \E e \in {Return(d, "silent"), Throw(d, INTERNAL)} : SetSrv(id, e)
  <2>1. PICK e \in {Return(d, "silent"), Throw(d, INTERNAL)} : srv' = [srv EXCEPT ![id] = e]
    BY <1>5 DEF SetSrv
  <2> HIDE DEF d
  <2>2. e \in Dispatch /\ SAwaits(e) = FALSE
    <3>1. CASE e = Return(d, "silent")
      BY <1>1, <3>1, ReturnTyped
    <3>2. CASE e = Throw(d, INTERNAL)
      BY <1>1, <3>2, ThrowTyped
    <3>3. QED
      BY <2>1, <3>1, <3>2
  <2>3. QED
    BY <1>1, <1>2, <1>4, <1>5, <2>1, <2>2, ServerDispatchUpdate DEF d
<1>6. CASE /\ SetSStream(id, SetState(sStream[id], "closed"))
           /\ SetSrv(id, [Return(d, "ok") EXCEPT !.yielded =
                            IF d.method \in {UNARY, CLIENT_STREAMING} THEN 1 ELSE @])
  <2> DEFINE n == IF d.method \in {UNARY, CLIENT_STREAMING} THEN 1 ELSE Return(d, "ok").yielded
             e == [Return(d, "ok") EXCEPT !.yielded = n]
  <2>1. Return(d, "ok") \in Dispatch /\ Return(d, "ok").pc = "settle"
    BY <1>1, ReturnTyped DEF Return, Dispatch
  <2>2. n \in Nat
    BY <2>1 DEF Dispatch
  <2> HIDE DEF n
  <2>3. e \in Dispatch /\ e.pc = "settle"
    BY <2>1, <2>2 DEF Dispatch
  <2>4. /\ sStream' = [sStream EXCEPT ![id] = SetState(sStream[id], "closed")]
        /\ srv' = [srv EXCEPT ![id] = e]
    BY <1>6 DEF SetSStream, SetSrv, n
  <2> HIDE DEF d, e
  <2>5. Sound(SetState(sStream[id], "closed"), SAwaits(e))
    <3>1. SAwaits(e) = FALSE
      BY <2>3 DEF SAwaits
    <3>2. QED
      BY <1>1, <3>1, SetStateSound DEF StreamState
  <2>6. QED
    BY <1>1, <1>2, <1>4, <2>3, <2>4, <2>5, ServerUpdate
<1>7. QED
  BY <1>5, <1>6 DEF HandlerFinish

(* A handler throws. *)
LEMMA HandlerThrowInv ==
  ASSUME IInv, NEW id \in Id, HandlerThrow(id)
  PROVE  WireTypeOK' /\ ServerPart'
<1>1. WireTypeOK'
  BY WireUnchanged DEF IInv, HandlerThrow
<1>2. /\ ServerPart /\ srv[id] \in Dispatch /\ SAwaits(srv[id]) = FALSE
      /\ sStreams' \subseteq Id /\ UNCHANGED sStream
  BY DEF IInv, ServerPart, HandlerThrow, SAwaits
<1>3. PICK code \in HandlerCodes : srv' = [srv EXCEPT ![id] = Throw(srv[id], code)]
  BY DEF HandlerThrow, SetSrv
<1>4. code \in Nat
  BY ServerAssumption
<1>5. QED
  BY <1>1, <1>2, <1>3, <1>4, ThrowTyped, ServerDispatchUpdate

(* catch and finally of dispatchMethod. *)
LEMMA SettleDispatchInv ==
  ASSUME IInv, NEW id \in Id, SettleDispatch(id)
  PROVE  WireTypeOK' /\ ServerPart'
<1> DEFINE e == [srv[id] EXCEPT !.pc = "done"]
<1>1. /\ ServerPart /\ WireTypeOK /\ srv[id] \in Dispatch /\ SAwaits(srv[id]) = FALSE
      /\ srv[id].code \in Nat
  BY DEF IInv, ServerPart, SettleDispatch, SAwaits, Dispatch
<1>2. faults' \in Nat /\ sStreams' \subseteq Id /\ UNCHANGED sStream
  BY <1>1, FaultTyped DEF SettleDispatch, ServerPart
<1>3. <<>> \in Seq(Frame(Id)) /\ ErrorFrames(id, srv[id].code) \in Seq(Frame(Id))
  BY <1>1, ErrorFramesTyped
<1>4. WireTypeOK'
  BY <1>1, <1>2, <1>3, PostToClientTyped DEF SettleDispatch
<1>5. e \in Dispatch /\ e.pc = "done" /\ srv' = [srv EXCEPT ![id] = e]
  BY <1>1 DEF SettleDispatch, SetSrv, Dispatch
<1> HIDE DEF e
<1>6. SAwaits(e) = SAwaits(srv[id])
  BY <1>1, <1>5 DEF SAwaits
<1>7. QED
  BY <1>1, <1>2, <1>4, <1>5, <1>6, ServerDispatchUpdate

(* cancelAll on the server. *)
LEMMA CancelAllServerInv ==
  ASSUME ServerPart, CancelAllServerStreams
  PROVE  ServerPart'
<1> DEFINE F == [id \in Id |-> IF id \in sStreams THEN Cancel(sStream[id]) ELSE sStream[id]]
<1>1. sStream' = F /\ sStreams' = {} /\ UNCHANGED srv /\ F = [id \in Id |-> F[id]]
  BY DEF CancelAllServerStreams
<1>2. ASSUME NEW id \in Id
      PROVE  Sound(F[id], SAwaits(srv[id]))
  <2>1. Sound(sStream[id], SAwaits(srv[id])) /\ SAwaits(srv[id]) \in BOOLEAN
    BY DEF ServerPart, SAwaits
  <2>2. QED
    BY <2>1, CancelSound
<1> HIDE DEF F
<1>3. QED
  BY <1>1, <1>2, ServerStreamsUpdate

(* Every step of the server preserves the invariant. *)
LEMMA ServerInv ==
  ASSUME IInv, ServerStep
  PROVE  IInv'
<1>1. ServerNext /\ UNCHANGED clientVars
  BY DEF ServerStep
<1>2. ClientPart'
  BY <1>1 DEF IInv, ClientPart, clientVars
<1>3. ASSUME NEW id \in Id, ServerContinue(id) \/ HandlerMoves(id)
      PROVE  WireTypeOK' /\ ServerPart'
  BY <1>3, ServerCollectInv, HandlerGotInv, SettleDispatchInv, HandlerPullInv, HandlerYieldInv,
     HandlerFinishInv, HandlerThrowInv DEF ServerContinue, HandlerMoves
<1>4. CASE ServerClose \/ ServerTransportError
  <2>1. ServerPart'
    BY <1>4, CancelAllServerInv DEF ServerClose, ServerTransportError, IInv
  <2>2. WireTypeOK /\ faults' \in Nat
    BY <1>4, FaultTyped DEF ServerClose, ServerTransportError, IInv
  <2>3. WireTypeOK'
    BY <1>4, <2>2, EndsTyped DEF ServerClose, ServerTransportError
  <2>4. QED
    BY <1>2, <2>1, <2>3 DEF IInv
<1>5. CASE ServerHandleFrame
  BY <1>2, <1>5, ServerHandleFrameInv DEF IInv
<1>6. QED
  BY <1>1, <1>2, <1>3, <1>4, <1>5 DEF ServerNext, IInv

(***************************************************************************)
(* The theorems.                                                           *)
(***************************************************************************)
(* The invariant holds of a fresh client, server and connection. *)
LEMMA InitInv == Init => IInv
<1> SUFFICES ASSUME Init PROVE IInv
  OBVIOUS
<1>1. <<>> \in Seq(Frame(Id))
  OBVIOUS
<1>2. WireTypeOK
  BY <1>1 DEF Init, WireInit, WireTypeOK
<1>3. ClientPart
  <2>1. NoCall \in GoodCall /\ NoCall.pc = "idle"
    BY DEF NoCall, GoodCall, Call, MethodType, UNARY, CLIENT_STREAMING, BIDI_STREAMING
  <2>2. CAwaits(NoCall) = FALSE
    BY <2>1 DEF CAwaits
  <2>3. nextStreamId = 2 * 1 - 1 /\ 1 \in 1..MaxCalls + 1
    BY WireAssumption DEF Init, ClientInit
  <2>4. NewStream \in StreamObject /\ Sound(NewStream, FALSE)
    BY NewStreamSound DEF Sound
  <2>5. QED
    BY <2>1, <2>2, <2>3, <2>4 DEF Init, ClientInit, ClientPart
<1>4. ServerPart
  <2>1. NoDispatch \in Dispatch /\ NoDispatch.pc = "off"
    BY DEF NoDispatch, Dispatch, MethodType, UNARY, BIDI_STREAMING
  <2>2. SAwaits(NoDispatch) = FALSE
    BY <2>1 DEF SAwaits
  <2>3. NewStream \in StreamObject /\ Sound(NewStream, FALSE)
    BY NewStreamSound DEF Sound
  <2>4. QED
    BY <2>1, <2>2, <2>3 DEF Init, ServerInit, ServerPart
<1>5. QED
  BY <1>2, <1>3, <1>4 DEF IInv

(* Every step, and every stutter, preserves the invariant. *)
LEMMA NextInv == IInv /\ [Next]_vars => IInv'
<1> SUFFICES ASSUME IInv, [Next]_vars PROVE IInv'
  OBVIOUS
<1>1. CASE ClientStep
  BY <1>1, ClientInv
<1>2. CASE ServerStep
  BY <1>2, ServerInv
<1>3. CASE UNCHANGED vars
  BY <1>3 DEF IInv, ClientPart, ServerPart, WireTypeOK, vars, wireVars, clientVars, serverVars
<1>4. QED
  BY <1>1, <1>2, <1>3 DEF Next, Terminated

(* The invariant holds in every reachable state. *)
LEMMA Invariance == Spec => []IInv
  BY InitInv, NextInv, PTL DEF Spec

(* Every variable keeps its type: whatever frames arrive, in whatever      *)
(* state they find a stream, and whatever closes meanwhile, the two        *)
(* runtimes send well-formed frames and hold well-formed streams.          *)
THEOREM TypeCorrect == Spec => []TypeOK
<1>1. IInv => TypeOK
  BY DEF IInv, ClientPart, ServerPart, GoodCall, TypeOK, ClientTypeOK, ServerTypeOK
<1>2. QED
  BY <1>1, Invariance, PTL

(* No push is ever lost on a suspended coroutine of either side: it is the *)
(* waiter of its stream or already has its item, never both.               *)
THEOREM NoWakeupIsLost == Spec => []NoLostWakeup
<1>1. IInv => NoLostWakeup
  BY DEF IInv, ClientPart, ServerPart, Sound, CAwaits, SAwaits, NoLostWakeup
<1>2. QED
  BY <1>1, Invariance, PTL
=============================================================================
