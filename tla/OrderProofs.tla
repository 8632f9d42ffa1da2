----------------------------- MODULE OrderProofs -----------------------------
(***************************************************************************)
(* The invariants of both directions of a call, and what they show: frames *)
(* keep the protocol's order, requests and responses arrive in order and   *)
(* complete, a cancellation has a cause, a server that is over is silent,  *)
(* and the runtime implements the contract of a call.                      *)
(***************************************************************************)
EXTENDS WireProofs, RpcRefinement

(***************************************************************************)
(* The requests of a call, from the request loop to the handler.           *)
(***************************************************************************)
Reaches(id) == id \in sStreams \/ Opening(id)
Requests(id) ==
  /\ Flow(srv[id].got, Pending(sStream[id]), srv[id].outcome = "none",
          Carried(toServer, id, "halfClose"), Reaches(id), call[id].sent, call[id].snd # "pull")
  /\ srv[id].reqs = "ended" => Len(srv[id].got) = call[id].sent /\ call[id].snd # "pull"

(* What a call says goes on from its counter, and ends only at the end.    *)
LEMMA SaysFlow ==
  ASSUME NEW id \in Id, NEW c \in Call, NEW d, NEW frames, Own(id, frames), Says(id, c, d, frames)
  PROVE  /\ Run(Carried(frames, id, "halfClose"), c.sent, d.sent)
         /\ c.snd # "pull" => d.snd # "pull" /\ d.sent = c.sent
         /\ Tells(Carried(frames, id, "halfClose")) => d.snd # "pull"
         /\ d.sent \in Nat
<1>1. c.sent \in Nat /\ frames \in Seq(Frame(Id))
  BY DEF Call, Own
<1>2. c.snd # "pull" => d.snd # "pull" /\ d.sent = c.sent
  BY DEF Says
<1>3. d.sent = c.sent \/ d.sent = c.sent + 1
  BY DEF Says
<1>4. Tells(Carried(frames, id, "halfClose")) => d.snd # "pull"
  <2>1. ASSUME NEW f \in Of(frames, id), f.body = "halfClose"
        PROVE  d.snd # "pull"
    <3>1. PICK k \in 1..Len(frames) : f = frames[k]
      BY OfOwn
    <3>2. QED
      BY <2>1, <3>1 DEF Says, CancelFrame, MessageFrame
  <2>2. Tells(Carried(frames, id, "halfClose")) => \E f \in Of(frames, id) : f.body = "halfClose"
    BY <1>1, CarriedTells
  <2>3. QED
    BY <2>1, <2>2
<1>5. Run(Carried(frames, id, "halfClose"), c.sent, d.sent)
  <2>1. CASE frames = <<MessageFrame(id, c.sent + 1)>> /\ d.sent = c.sent + 1
    BY <1>1, <2>1, CarriedMessage
  <2>2. CASE d.sent = c.sent /\ \A k \in 1..Len(frames) : frames[k].body # "message"
    BY <1>1, <2>2, CarriedSilent
  <2>3. QED
    BY <2>1, <2>2 DEF Says, CancelFrame, HalfCloseFrame
<1>6. QED
  BY <1>1, <1>2, <1>3, <1>4, <1>5

(* So do the first frames of a call. *)
LEMMA StartFlow ==
  ASSUME NEW id \in Id, NEW m \in Method, NEW frames, StartMove(id, m, frames)
  PROVE  /\ Run(Carried(frames, id, "halfClose"), 0, call'[id].sent)
         /\ Tells(Carried(frames, id, "halfClose")) => call'[id].snd # "pull"
         /\ call'[id].sent \in Nat
<1>1. Own(id, frames) /\ frames \in Seq(Frame(Id))
  BY DEF StartMove, Own
<1>2. call'[id].sent \in Nat
  BY DEF StartMove
<1>3. Tells(Carried(frames, id, "halfClose")) => call'[id].snd # "pull"
  <2>1. ASSUME NEW f \in Of(frames, id), f.body = "halfClose"
        PROVE  call'[id].snd # "pull"
    <3>1. PICK k \in 1..Len(frames) : f = frames[k]
      BY <1>1, OfOwn
    <3>2. QED
      BY <2>1, <3>1 DEF StartMove, OpenFrame, CancelFrame
  <2>2. Tells(Carried(frames, id, "halfClose")) => \E f \in Of(frames, id) : f.body = "halfClose"
    BY <1>1, CarriedTells
  <2>3. QED
    BY <2>1, <2>2
<1>4. Run(Carried(frames, id, "halfClose"), 0, call'[id].sent)
  <2>1. CASE /\ frames = <<OpenFrame(id, m), MessageFrame(id, 1), HalfCloseFrame(id)>>
             /\ call'[id].sent = 1
    BY <2>1, CarriedMessage
  <2>2. CASE call'[id].sent = 0 /\ \A k \in 1..Len(frames) : frames[k].body # "message"
    BY <1>1, <2>2, CarriedSilent
  <2>3. QED
    BY <2>1, <2>2 DEF StartMove, OpenFrame, CancelFrame
<1>5. QED
  BY <1>2, <1>3, <1>4

(* The types of the requests of a call. *)
LEMMA RequestTypes ==
  ASSUME IInv, NEW i \in Id
  PROVE  /\ srv[i].got \in Seq(Nat) /\ Pending(sStream[i]) \in Seq(Flight)
         /\ call[i] \in Call /\ call[i].sent \in Nat /\ toServer \in Seq(Frame(Id))
         /\ Carried(toServer, i, "halfClose") \in Seq(Flight) /\ Reaches(i) \in BOOLEAN
<1>1. /\ srv[i] \in Dispatch /\ sStream[i] \in StreamObject /\ call[i] \in Call
      /\ toServer \in Seq(Frame(Id))
  BY DEF IInv, WireTypeOK, ClientPart, ServerPart, GoodCall
<1>2. Pending(sStream[i]) \in Seq(Flight)
  BY <1>1, PendingTyped DEF Flight
<1>3. Carried(toServer, i, "halfClose") \in Seq(Flight)
  BY <1>1, CarriedTyped
<1>4. QED
  BY <1>1, <1>2, <1>3 DEF Dispatch, Call, Reaches

(* A call moves. *)
LEMMA RequestsClientMove ==
  ASSUME Steady, Life, NEW id \in Id, NEW frames, ClientMove(id, frames), UNCHANGED serverVars,
         NEW i \in Id, Requests(i)
  PROVE  Requests(i)'
<1>1. /\ srv[i].got \in Seq(Nat) /\ Pending(sStream[i]) \in Seq(Flight) /\ call[i].sent \in Nat
      /\ toServer \in Seq(Frame(Id)) /\ call[id] \in Call
  BY RequestTypes DEF Steady
<1>2. /\ Own(id, frames) /\ Says(id, call[id], call'[id], frames)
      /\ \A k \in Id : k # id => call'[k] = call[k]
      /\ toServer' = toServer \o frames \/ (toServer' = toServer /\ ~sOpen)
  BY DEF ClientMove, PostToServer
<1>3. UNCHANGED <<srv, sStream, sStreams>>
  BY DEF serverVars
<1> DEFINE live == Reaches(i)  live1 == Reaches(i)'
<1>4. live1 => live
  <2>1. /\ \A k \in Id : k # id => Of(toServer', k) = Of(toServer, k)
        /\ \A f \in Of(toServer', id) : f \in Of(toServer, id)
           \/ \E k \in 1..Len(frames) : f = frames[k]
    BY <1>1, <1>2, PostedOf
  <2>2. \A k \in 1..Len(frames) : frames[k].body # "open"
    BY <1>2 DEF Says, MessageFrame, HalfCloseFrame, CancelFrame
  <2>3. Opening(i)' => Opening(i)
    BY <2>1, <2>2 DEF Opening
  <2>4. QED
    BY <1>3, <2>3 DEF Reaches
<1>5. toServer' = toServer \o frames \/ (toServer' = toServer /\ ~live1)
  <2>1. ~sOpen => sStreams = {} /\ Of(toServer, i) = {}
    BY OfOwn, OwnFrames DEF Life, Wires
  <2>2. QED
    BY <1>2, <1>4, <2>1 DEF Reaches, Opening
<1>6. live \in BOOLEAN /\ live1 \in BOOLEAN
  BY DEF Reaches
<1> DEFINE sent == call[i].sent  sent1 == call'[i].sent
           over == call[i].snd # "pull"  over1 == call'[i].snd # "pull"
<1>7. Posts(toServer, toServer', i, "halfClose", live, live1, sent, sent1, over, over1)
  <2> over \in BOOLEAN /\ over1 \in BOOLEAN
    OBVIOUS
  <2>1. CASE i = id
    <3>1. /\ Run(Carried(frames, i, "halfClose"), sent, sent1)
          /\ over => over1 /\ sent1 = sent
          /\ Tells(Carried(frames, i, "halfClose")) => over1
          /\ sent1 \in Nat
      BY <1>1, <1>2, <2>1, SaysFlow
    <3>2. frames \in Seq(Frame(Id))
      BY <1>2 DEF Own
    <3> HIDE DEF live, live1, sent, sent1, over, over1
    <3>3. sent \in Nat
      BY <1>1 DEF sent
    <3>4. QED
      BY <1>1, <1>4, <1>5, <1>6, <3>1, <3>2, <3>3 DEF Posts
  <2>2. CASE i # id
    <3>1. sent1 = sent /\ over1 = over /\ sent \in Nat
      BY <1>1, <1>2, <2>2
    <3> HIDE DEF live, live1, sent, sent1, over, over1
    <3>2. QED
      BY <1>1, <1>2, <1>4, <1>5, <1>6, <2>2, <3>1, PostsOthers
  <2>3. QED
    BY <2>1, <2>2
<1> DEFINE got == srv[i].got  pend == Pending(sStream[i])  open == srv[i].outcome = "none"
<1>8. Flow(got, pend, open, Carried(toServer, i, "halfClose"), live, sent, over)
  BY DEF Requests
<1>9. over => over1 /\ sent1 = sent
  BY <1>7 DEF Posts
<1>10. srv[i].reqs = "ended" => Len(got) = sent1 /\ over1
  BY <1>9 DEF Requests
<1>11. Requests(i)' <=> /\ Flow(got, pend, open,
                           Carried(toServer', i, "halfClose"), live1, sent1, over1)
                        /\ srv[i].reqs = "ended" => Len(got) = sent1 /\ over1
  BY <1>3 DEF Requests
<1>12. open \in BOOLEAN /\ over \in BOOLEAN /\ over1 \in BOOLEAN
  OBVIOUS
<1> HIDE DEF got, pend, open, live, sent, over, live1, sent1, over1
<1>13. Flow(got, pend, open, Carried(toServer', i, "halfClose"), live1, sent1, over1)
  <2>1. got \in Seq(Nat) /\ pend \in Seq(Flight)
    BY <1>1 DEF got, pend
  <2>2. QED
    BY <1>6, <1>7, <1>8, <1>12, <2>1, FlowPost
<1>14. QED
  BY <1>10, <1>11, <1>13

(* A call is made. *)
LEMMA RequestsStartMove ==
  ASSUME Steady, Life, NEW id \in Id, NEW m \in Method, NEW frames, StartMove(id, m, frames),
         UNCHANGED serverVars, NEW i \in Id, Requests(i)
  PROVE  Requests(i)'
<1>1. /\ toServer \in Seq(Frame(Id)) /\ Own(id, frames)
      /\ \A k \in Id : k # id => call'[k] = call[k]
      /\ toServer' = toServer \o frames \/ (toServer' = toServer /\ ~sOpen)
      /\ UNCHANGED <<srv, sStream, sStreams>>
  BY DEF Steady, IInv, WireTypeOK, StartMove, PostToServer, serverVars
<1>2. ~sOpen => sStreams = {} /\ Of(toServer, i) = {}
  BY OfOwn, OwnFrames DEF Life, Wires
<1> DEFINE live1 == Reaches(i)'
<1>3. toServer' = toServer \o frames \/ (toServer' = toServer /\ ~live1)
  BY <1>1, <1>2 DEF Reaches, Opening
<1>4. live1 \in BOOLEAN
  BY DEF Reaches
<1>5. CASE i # id
  <2> DEFINE got == srv[i].got  pend == Pending(sStream[i])  open == srv[i].outcome = "none"
             live == Reaches(i)  sent == call[i].sent  over == call[i].snd # "pull"
  <2>1. /\ got \in Seq(Nat) /\ pend \in Seq(Flight) /\ sent \in Nat
        /\ live \in BOOLEAN /\ open \in BOOLEAN /\ over \in BOOLEAN
    BY RequestTypes DEF Steady
  <2>2. Of(toServer', i) = Of(toServer, i)
    BY <1>1, <1>5, PostedOf
  <2>3. live1 => live
    BY <1>1, <2>2 DEF Reaches, Opening
  <2>4. Flow(got, pend, open, Carried(toServer, i, "halfClose"), live, sent, over)
    BY DEF Requests
  <2>5. Requests(i)' <=> /\ Flow(got, pend, open,
                            Carried(toServer', i, "halfClose"), live1, sent, over)
                         /\ srv[i].reqs = "ended" => Len(got) = sent /\ over
    BY <1>1, <1>5 DEF Requests
  <2>6. srv[i].reqs = "ended" => Len(got) = sent /\ over
    BY DEF Requests
  <2> HIDE DEF got, pend, open, live, sent, over, live1
  <2>7. Posts(toServer, toServer', i, "halfClose", live, live1, sent, sent, over, over)
    BY <1>1, <1>3, <1>4, <1>5, <2>1, <2>3, PostsOthers
  <2>8. Flow(got, pend, open, Carried(toServer', i, "halfClose"), live1, sent, over)
    BY <1>4, <2>1, <2>4, <2>7, FlowPost
  <2>9. QED
    BY <2>5, <2>6, <2>8
<1>6. CASE i = id
  <2> DEFINE sent1 == call'[i].sent  over1 == call'[i].snd # "pull"
  <2>1. Untouched(i) /\ Of(toServer, i) = {}
    BY <1>6 DEF StartMove, Life, Fresh
  <2>2. srv[i].got = <<>> /\ srv[i].reqs = "live" /\ Pending(sStream[i]) = <<>>
        /\ srv[i].outcome = "none"
    BY <2>1, PendingNew DEF Untouched, NoDispatch
  <2>3. /\ Run(Carried(frames, i, "halfClose"), 0, sent1)
        /\ Tells(Carried(frames, i, "halfClose")) => over1
        /\ sent1 \in Nat
    BY <1>6, StartFlow
  <2>4. Requests(i)' <=> Flow(<<>>, <<>>, TRUE,
                         Carried(toServer', i, "halfClose"), live1, sent1, over1)
    BY <1>1, <2>2 DEF Requests
  <2>5. over1 \in BOOLEAN /\ frames \in Seq(Frame(Id))
    BY <1>1 DEF Own
  <2> HIDE DEF sent1, over1, live1
  <2>6. Flow(<<>>, <<>>, TRUE, Carried(toServer, i, "halfClose"), TRUE, 0, FALSE)
    <3>1. \A open, live, over \in BOOLEAN :
            Flow(<<>>, <<>>, open, Carried(toServer, i, "halfClose"), live, 0, over)
      BY <1>1, <2>1, FlowBegin
    <3>2. QED
      BY <3>1
  <2>7. <<>> \in Seq(Nat) /\ <<>> \in Seq(Flight) /\ TRUE \in BOOLEAN /\ FALSE \in BOOLEAN
        /\ 0 \in Nat
    OBVIOUS
  <2>8. Posts(toServer, toServer', i, "halfClose", TRUE, live1, 0, sent1, FALSE, over1)
    BY <1>1, <1>3, <1>4, <2>3, <2>5 DEF Posts
  <2>9. Flow(<<>>, <<>>, TRUE, Carried(toServer', i, "halfClose"), live1, sent1, over1)
    <3>1. \A got \in Seq(Nat) : \A pend \in Seq(Flight) : \A open, live, over \in BOOLEAN :
            \A sent \in Nat :
              /\ Flow(got, pend, open, Carried(toServer, i, "halfClose"), live, sent, over)
              /\ Posts(toServer, toServer', i, "halfClose", live, live1, sent, sent1, over, over1)
              => Flow(got, pend, open, Carried(toServer', i, "halfClose"), live1, sent1, over1)
      BY <1>4, <2>5, FlowPost
    <3>2. QED
      BY <2>6, <2>7, <2>8, <3>1
  <2>10. QED
    BY <2>4, <2>9
<1>7. QED
  BY <1>5, <1>6

(* The first frame of the wire passes a stream by. *)
LEMMA RequestsPass ==
  ASSUME IInv, toServer # <<>>, toServer' = Tail(toServer), NEW i \in Id, Requests(i),
         call'[i] = call[i], srv'[i].got = srv[i].got, srv'[i].reqs = srv[i].reqs,
         srv'[i].outcome = "none" <=> srv[i].outcome = "none",
         Pending(sStream'[i]) = Pending(sStream[i]), Reaches(i)' => Reaches(i),
         \/ Head(toServer).streamId # i
         \/ Head(toServer).body \notin {"message", "halfClose"}
         \/ ~Reaches(i)'
  PROVE  Requests(i)'
<1> DEFINE got == srv[i].got  pend == Pending(sStream[i])  open == srv[i].outcome = "none"
           live == Reaches(i)  sent == call[i].sent  over == call[i].snd # "pull"
           live1 == Reaches(i)'
<1>1. /\ got \in Seq(Nat) /\ pend \in Seq(Flight) /\ sent \in Nat /\ toServer \in Seq(Frame(Id))
      /\ live \in BOOLEAN /\ live1 \in BOOLEAN /\ open \in BOOLEAN /\ over \in BOOLEAN
  BY RequestTypes DEF Reaches
<1>2. Flow(got, pend, open, Carried(toServer, i, "halfClose"), live, sent, over)
  BY DEF Requests
<1>3. Requests(i)' <=> /\ Flow(got, pend, open,
                          Carried(Tail(toServer), i, "halfClose"), live1, sent, over)
                       /\ srv[i].reqs = "ended" => Len(got) = sent /\ over
  <2>1. open' = open
    OBVIOUS
  <2>2. got' = got /\ pend' = pend /\ sent' = sent /\ over' = over
    OBVIOUS
  <2> HIDE DEF got, pend, open, sent, over
  <2>3. Requests(i) <=> /\ Flow(got, pend, open,
                           Carried(toServer, i, "halfClose"), live, sent, over)
                        /\ srv[i].reqs = "ended" => Len(got) = sent /\ over
    BY DEF Requests, got, pend, open, sent, over
  <2>4. Requests(i)' <=> /\ Flow(got', pend', open',
                            Carried(toServer', i, "halfClose"), live1, sent', over')
                         /\ srv'[i].reqs = "ended" => Len(got') = sent' /\ over'
    BY DEF Requests, got, pend, open, sent, over
  <2>5. QED
    BY <2>1, <2>2, <2>4
<1>4. srv[i].reqs = "ended" => Len(got) = sent /\ over
  BY DEF Requests
<1>5. live1 => live
  OBVIOUS
<1> HIDE DEF got, pend, open, live, sent, over
<1>6. Flow(got, pend, open, Carried(Tail(toServer), i, "halfClose"), live1, sent, over)
  <2>1. \/ Head(toServer).streamId # i
        \/ Head(toServer).body \notin {"message", "halfClose"}
        \/ ~live1
    OBVIOUS
  <2> HIDE DEF live1
  <2>2. QED
    BY <1>1, <1>2, <1>5, <2>1, FlowPass
<1>7. QED
  BY <1>3, <1>4, <1>6

(* An OPEN is refused or accepted. *)
LEMMA RequestsOpened ==
  ASSUME Steady, Life, toServer # <<>>, toServer' = Tail(toServer), UNCHANGED clientVars,
         \/ \E code : Refused(Head(toServer), code)
         \/ \E d, s : Accepted(Head(toServer), d, s),
         NEW i \in Id, Requests(i)
  PROVE  Requests(i)'
<1>1. PICK f, id : f = Head(toServer) /\ id = f.streamId
  OBVIOUS
<1>2. /\ IInv /\ toServer \in Seq(Frame(Id)) /\ f \in Frame(Id) /\ id \in Id
      /\ call' = call /\ f.body = "open"
  <2>1. f.body = "open"
    BY <1>1 DEF Refused, Accepted
  <2>2. toServer \in Seq(Frame(Id)) /\ IInv /\ call' = call
    BY DEF Steady, IInv, WireTypeOK, clientVars
  <2>3. QED
    BY <1>1, <2>1, <2>2 DEF Frame
<1>3. Of(toServer', i) \subseteq Of(toServer, i) /\ f \in Of(toServer, id)
  BY <1>1, <1>2, OfTail
<1>4. Opening(i)' => Opening(i)
  BY <1>3 DEF Opening
<1>5. ASSUME \E code : Refused(f, code)
      PROVE  Requests(i)'
  <2>1. UNCHANGED <<srv, sStream, sStreams>>
    BY <1>5 DEF Refused, serverVars
  <2>2. Reaches(i)' => Reaches(i)
    BY <1>4, <2>1 DEF Reaches
  <2>3. QED
    BY <1>1, <1>2, <2>1, <2>2, RequestsPass
<1>6. ASSUME NEW d, NEW s, Accepted(f, d, s)
      PROVE  Requests(i)'
  <2>1. /\ sStreams' = sStreams \cup {id} /\ sStream'[id] = s /\ srv'[id] = d
        /\ \A k \in Id : k # id => sStream'[k] = sStream[k] /\ srv'[k] = srv[k]
        /\ Pending(s) = <<>> /\ d.outcome = "none" /\ d.reqs = "live" /\ d.got = <<>>
    BY <1>1, <1>2, <1>6 DEF Accepted, IInv, ServerPart
  <2>2. Untouched(id) /\ Opening(id)
    BY <1>2, <1>3, <1>1, OfTail DEF Life, Fresh, Opening
  <2>3. /\ srv[id].got = <<>> /\ srv[id].reqs = "live" /\ srv[id].outcome = "none"
        /\ Pending(sStream[id]) = <<>>
    BY <2>2, PendingNew DEF Untouched, NoDispatch
  <2>4. Reaches(i)' => Reaches(i)
    BY <1>4, <2>1, <2>2 DEF Reaches
  <2>5. /\ srv'[i].got = srv[i].got /\ srv'[i].reqs = srv[i].reqs
        /\ srv'[i].outcome = "none" <=> srv[i].outcome = "none"
        /\ Pending(sStream'[i]) = Pending(sStream[i])
    BY <2>1, <2>3
  <2>6. QED
    BY <1>1, <1>2, <2>4, <2>5, RequestsPass
<1>7. QED
  BY <1>1, <1>5, <1>6

(* A stream frame is delivered. *)
LEMMA RequestsDelivered ==
  ASSUME Steady, Life, toServer # <<>>, toServer' = Tail(toServer), UNCHANGED clientVars,
         Head(toServer).body # "open", HandleStreamFrame(Head(toServer)),
         NEW i \in Id, Requests(i)
  PROVE  Requests(i)'
<1>1. PICK f, id : f = Head(toServer) /\ id = f.streamId
  OBVIOUS
<1>2. /\ IInv /\ toServer \in Seq(Frame(Id)) /\ f \in Frame(Id) /\ id \in Id /\ f.arg \in Nat
      /\ call' = call /\ srv' = srv /\ sStreams' \subseteq sStreams
      /\ sStream'[i] = IF i = id /\ i \in sStreams THEN ServerReceive(sStream[i], f) ELSE sStream[i]
      /\ f.body = "cancel" => id \notin sStreams'
  BY <1>1 DEF Steady, IInv, WireTypeOK, HandleStreamFrame, clientVars, Frame
<1>3. Of(toServer', i) \subseteq Of(toServer, i) /\ f \in Of(toServer, id)
  BY <1>1, <1>2, OfTail
<1>4. Reaches(i)' => Reaches(i)
  BY <1>2, <1>3 DEF Opening, Reaches
<1>5. CASE i # id
  BY <1>1, <1>2, <1>4, <1>5, RequestsPass
<1>6. CASE i = id /\ i \notin sStreams
  <2>1. ~Opening(i)'
    BY <1>1, <1>2, <1>6, OrderedTail DEF Life, Wires, Opening, MayFollow
  <2>2. ~Reaches(i)'
    BY <1>2, <1>6, <2>1 DEF Reaches
  <2>3. QED
    BY <1>1, <1>2, <1>4, <1>6, <2>2, RequestsPass
<1>7. CASE i = id /\ i \in sStreams
  <2> DEFINE s == sStream[i]  t == ServerReceive(s, f)
             got == srv[i].got  pend == Pending(s)  open == srv[i].outcome = "none"
             sent == call[i].sent  over == call[i].snd # "pull"
             live == Reaches(i)  live1 == Reaches(i)'
  <2>1. Sound(s, SAwaits(srv[i])) /\ SAwaits(srv[i]) \in BOOLEAN /\ s \in StreamObject
    BY <1>2 DEF IInv, ServerPart, SAwaits
  <2>2. /\ got \in Seq(Nat) /\ pend \in Seq(Flight) /\ sent \in Nat
        /\ live \in BOOLEAN /\ live1 \in BOOLEAN /\ open \in BOOLEAN /\ over \in BOOLEAN
    BY <1>2, RequestTypes DEF Reaches
  <2>3. Flow(got, pend, open, Carried(toServer, i, "halfClose"), live, sent, over)
    BY DEF Requests
  <2>4. srv[i].reqs = "ended" => Len(got) = sent /\ over
    BY DEF Requests
  <2>5. Requests(i)' <=> /\ Flow(got, Pending(t), open,
                            Carried(Tail(toServer), i, "halfClose"), live1, sent, over)
                         /\ srv[i].reqs = "ended" => Len(got) = sent /\ over
    BY <1>2, <1>7 DEF Requests
  <2>6. live /\ (live1 => live) /\ (f.body = "cancel" => ~live1)
    <3>1. f.body = "cancel" => ~Opening(i)'
      BY <1>1, <1>2, <1>7, OrderedTail DEF Life, Wires, Opening, MayFollow
    <3>2. QED
      BY <1>2, <1>4, <1>7, <3>1 DEF Reaches
  <2>7. f.body \in {"message", "halfClose", "cancel"}
    BY <1>1, <1>3, <1>7 DEF Life, Asks
  <2>8. CASE f.body \in {"message", "halfClose"}
    <3>1. Pending(t) = pend \o <<Item(f, "halfClose")>>
      <4>1. CASE f.body = "message"
        <5>1. t = Push(s, Message(f.arg)) /\ Item(f, "halfClose") = Message(f.arg)
          BY <4>1 DEF ServerReceive, Item
        <5>2. Message(f.arg) \in QueueItem
          BY <1>2 DEF Message, QueueItem
        <5> HIDE DEF s, t
        <5>3. QED
          BY <2>1, <5>1, <5>2, PendingPush
      <4>2. CASE f.body = "halfClose"
        <5> DEFINE st == IF s.state = "half_closed_local" THEN "half_closed_both"
                     ELSE "half_closed_remote"
        <5>1. t = Push(SetState(s, st), End) /\ Item(f, "halfClose") = End
          BY <4>2 DEF ServerReceive, Item
        <5>2. End \in QueueItem /\ st \in StreamState
          BY DEF End, QueueItem, StreamState
        <5> HIDE DEF s, t, st
        <5>3. Sound(SetState(s, st), SAwaits(srv[i])) /\ Pending(SetState(s, st)) = Pending(s)
          BY <2>1, <5>2, SetStateSound, PendingSetState
        <5>4. QED
          BY <5>1, <5>2, <5>3, PendingPush
      <4>3. QED
        BY <2>8, <4>1, <4>2
    <3> HIDE DEF t, s, pend, got, open, sent, over, live, live1
    <3>2. Flow(got, pend \o <<Item(Head(toServer), "halfClose")>>, open,
               Carried(Tail(toServer), i, "halfClose"), live1, sent, over)
      <4>1. Head(toServer).streamId = i /\ toServer \in Seq(Frame(Id)) /\ live
        BY <1>1, <1>2, <1>7, <2>6
      <4>2. toServer # <<>>
        BY <1>1
      <4>3. Reaching(got, pend, open, toServer, i, "halfClose", live, sent, over, live1)
        BY FlowReach
      <4>4. QED
        BY <2>2, <2>3, <4>1, <4>2, <4>3 DEF Reaching
    <3>3. QED
      BY <1>1, <2>4, <2>5, <3>1, <3>2
  <2>9. CASE f.body = "cancel"
    <3>1. Pending(t) = pend \/ Pending(t) = pend \o <<Error(CANCELLED)>>
      <4>1. t = Cancel(s)
        BY <2>9 DEF ServerReceive
      <4> HIDE DEF s, t
      <4>2. QED
        BY <2>1, <4>1, PendingCancel
    <3>2. Error(CANCELLED) \in Flight /\ Error(CANCELLED).type \notin {"message", "end"}
      BY DEF Error, CANCELLED, Flight, QueueItem
    <3> HIDE DEF t, s, pend, got, open, sent, over, live, live1
    <3>3. Flow(got, pend, open, Carried(Tail(toServer), i, "halfClose"), live1, sent, over)
      <4>1. \/ Head(toServer).streamId # i
            \/ Head(toServer).body \notin {"message", "halfClose"}
            \/ ~live1
        BY <1>1, <2>9
      <4>2. live1 => live
        BY <2>6
      <4>3. toServer \in Seq(Frame(Id))
        BY <1>2
      <4>4. QED
        BY <2>2, <2>3, <4>1, <4>2, <4>3, FlowPass
    <3>4. Flow(got, pend \o <<Error(CANCELLED)>>, open, Carried(Tail(toServer), i, "halfClose"),
               live1, sent, over)
      BY <2>2, <3>2, <3>3, FlowPush
    <3>5. QED
      BY <2>4, <2>5, <3>1, <3>3, <3>4
  <2>10. QED
    BY <2>7, <2>8, <2>9
<1>8. QED
  BY <1>5, <1>6, <1>7

(* A handler moves. *)
LEMMA RequestsServerMove ==
  ASSUME Steady, Life, NEW id \in Id, NEW frames, ServerMove(id, frames), UNCHANGED clientVars,
         NEW i \in Id, Requests(i)
  PROVE  Requests(i)'
<1> DEFINE got == srv[i].got  pend == Pending(sStream[i])  open == srv[i].outcome = "none"
           sent == call[i].sent  over == call[i].snd # "pull"
           live == Reaches(i)  live1 == Reaches(i)'  c == Carried(toServer, i, "halfClose")
           got1 == srv'[i].got  pend1 == Pending(sStream'[i])  open1 == srv'[i].outcome = "none"
<1>1. /\ got \in Seq(Nat) /\ pend \in Seq(Flight) /\ sent \in Nat
      /\ live \in BOOLEAN /\ live1 \in BOOLEAN /\ open \in BOOLEAN /\ over \in BOOLEAN
      /\ open1 \in BOOLEAN
  BY RequestTypes DEF Reaches, Steady
<1>2. Flow(got, pend, open, c, live, sent, over)
  BY DEF Requests
<1>3. srv[i].reqs = "ended" => Len(got) = sent /\ over
  BY DEF Requests
<1>4. UNCHANGED <<toServer, call>> /\ sStreams' \subseteq sStreams
  BY DEF ServerMove, PostToClient, clientVars
<1>5. Requests(i)' <=> /\ Flow(got1, pend1, open1, c, live1, sent, over)
                       /\ srv'[i].reqs = "ended" => Len(got1) = sent /\ over
  BY <1>4 DEF Requests
<1>6. live1 => live
  BY <1>4 DEF Reaches, Opening
<1>7. ASSUME got1 = got, open1 => open /\ pend1 = pend, srv'[i].reqs = srv[i].reqs
      PROVE  Requests(i)'
  <2>1. Flow(got, pend1, open1, c, live1, sent, over)
    <3> HIDE DEF got, pend, open, sent, over, live, live1, c, pend1, open1
    <3>1. QED
      BY <1>1, <1>2, <1>6, <1>7, FlowShut
  <2>2. QED
    BY <1>3, <1>5, <1>7, <2>1
<1>8. CASE i # id
  <2>1. srv'[i] = srv[i] /\ sStream'[i] = sStream[i]
    BY <1>8 DEF ServerMove
  <2>2. QED
    BY <1>7, <2>1
<1>9. CASE i = id /\ Rests(srv[i], srv'[i], pend, pend1)
  <2>1. got1 = got /\ pend1 = pend /\ srv'[i].reqs = srv[i].reqs /\ (open1 => open)
    BY <1>9 DEF Rests
  <2>2. QED
    BY <1>7, <2>1
<1>10. CASE i = id /\ Reads(srv[i], srv'[i], pend, pend1)
  <2>1. /\ open /\ pend # <<>> /\ pend1 = Tail(pend)
        /\ \/ Head(pend).type = "message" /\ got1 = Append(got, Head(pend).val)
              /\ srv'[i].reqs = "live"
           \/ Head(pend).type = "end" /\ got1 = got
           \/ /\ Head(pend).type # "message" \/ ~open1
              /\ got1 = got /\ srv'[i].reqs # "ended"
    BY <1>10 DEF Reads
  <2> DEFINE r1 == srv'[i].reqs
  <2>2. Requests(i)' <=> /\ Flow(got1, pend1, open1, c, live1, sent, over)
                         /\ r1 = "ended" => Len(got1) = sent /\ over
    BY <1>5
  <2>3. open /\ pend # <<>>
    BY <2>1
  <2>4. /\ Head(pend).type = "message" =>
             Flow(Append(got, Head(pend).val), Tail(pend), open, c, live, sent, over)
        /\ Head(pend).type = "end" => Len(got) = sent /\ over
        /\ Head(pend).type # "message" => Flow(got, Tail(pend), open, c, live, sent, over)
    <3> HIDE DEF got, pend, open, sent, over, live, live1, c, pend1, open1, got1
    <3>1. Head(pend).type = "message" =>
            Flow(Append(got, Head(pend).val), Tail(pend), open, c, live, sent, over)
      BY <1>1, <1>2, <2>3, FlowTake
    <3>2. Head(pend).type # "message" => Flow(got, Tail(pend), open, c, live, sent, over)
      BY <1>1, <1>2, <2>3, FlowTake
    <3>3. Due(got, pend, sent, over)
      BY <1>1, <1>2, <2>3, FlowDue
    <3>4. QED
      BY <3>1, <3>2, <3>3 DEF Due
  <2>5. CASE Head(pend).type = "message" /\ got1 = Append(got, Head(pend).val) /\ r1 = "live"
    <3> HIDE DEF got, pend, open, sent, over, live, live1, c, pend1, open1, got1, r1
    <3>1. Flow(got1, pend1, open, c, live, sent, over)
      BY <2>1, <2>4, <2>5
    <3>2. Flow(got1, pend1, open1, c, live1, sent, over)
      BY <1>1, <1>6, <2>3, <3>1 DEF Flow
    <3>3. QED
      BY <2>2, <2>5, <3>2
  <2>6. CASE Head(pend).type = "end" /\ got1 = got
    <3> HIDE DEF got, pend, open, sent, over, live, live1, c, pend1, open1, got1, r1
    <3>1. Flow(got1, pend1, open, c, live, sent, over)
      BY <2>1, <2>4, <2>6
    <3>2. Flow(got1, pend1, open1, c, live1, sent, over)
      BY <1>1, <1>6, <2>3, <3>1 DEF Flow
    <3>3. QED
      BY <2>2, <2>4, <2>6, <3>2
  <2>7. CASE Head(pend).type # "message" /\ got1 = got /\ r1 # "ended"
    <3> HIDE DEF got, pend, open, sent, over, live, live1, c, pend1, open1, got1, r1
    <3>1. Flow(got1, pend1, open, c, live, sent, over)
      BY <2>1, <2>4, <2>7
    <3>2. Flow(got1, pend1, open1, c, live1, sent, over)
      BY <1>1, <1>6, <2>3, <3>1 DEF Flow
    <3>3. QED
      BY <2>2, <2>7, <3>2
  <2>8. CASE ~open1 /\ got1 = got /\ r1 # "ended"
    <3> HIDE DEF got, pend, open, sent, over, live, live1, c, pend1, open1, got1, r1
    <3>1. Flow(got, pend1, open1, c, live1, sent, over)
      BY <1>1, <1>2, <1>6, <2>8, FlowShut
    <3>2. QED
      BY <2>2, <2>8, <3>1
  <2>9. QED
    BY <2>1, <2>5, <2>6, <2>7, <2>8
<1>11. QED
  BY <1>8, <1>9, <1>10 DEF ServerMove

(* The server closes, or its transport fails: its streams are cancelled. *)
LEMMA RequestsServerEnds ==
  ASSUME Steady, Life, ServerEnds, UNCHANGED clientVars, NEW i \in Id, Requests(i)
  PROVE  Requests(i)'
<1> DEFINE got == srv[i].got  pend == Pending(sStream[i])  open == srv[i].outcome = "none"
           sent == call[i].sent  over == call[i].snd # "pull"
           live == Reaches(i)  live1 == Reaches(i)'  c == Carried(toServer, i, "halfClose")
           c1 == Carried(toServer', i, "halfClose")  pend1 == Pending(sStream'[i])
<1>1. /\ got \in Seq(Nat) /\ pend \in Seq(Flight) /\ sent \in Nat
      /\ live \in BOOLEAN /\ live1 \in BOOLEAN /\ open \in BOOLEAN /\ over \in BOOLEAN
  BY RequestTypes DEF Reaches, Steady
<1>2. Flow(got, pend, open, c, live, sent, over)
  BY DEF Requests
<1>3. srv[i].reqs = "ended" => Len(got) = sent /\ over
  BY DEF Requests
<1>4. /\ UNCHANGED <<call, srv>> /\ sStreams' = {}
      /\ sStream'[i] = IF i \in sStreams THEN Cancel(sStream[i]) ELSE sStream[i]
      /\ toServer' = toServer \/ toServer' = <<>>
  BY DEF ServerEnds, ServerClose, ServerTransportError, CloseServerSide, CancelAllServerStreams,
         clientVars
<1>5. Requests(i)' <=> /\ Flow(got, pend1, open, c1, live1, sent, over)
                       /\ srv[i].reqs = "ended" => Len(got) = sent /\ over
  BY <1>4 DEF Requests
<1>6. pend1 = pend \/ pend1 = pend \o <<Error(CANCELLED)>>
  <2>1. Sound(sStream[i], SAwaits(srv[i])) /\ SAwaits(srv[i]) \in BOOLEAN
    BY DEF Steady, IInv, ServerPart, SAwaits
  <2>2. QED
    BY <1>4, <2>1, PendingCancel
<1>7. /\ live1 => live /\ toServer' = toServer
  <2>1. Of(<<>>, i) = {}
    BY OfOwn, OwnFrames
  <2>2. QED
    BY <1>4, <2>1 DEF Reaches, Opening
<1>8. toServer' = <<>> => ~live1
  <2>1. Of(<<>>, i) = {}
    BY OfOwn, OwnFrames
  <2>2. QED
    BY <1>4, <2>1 DEF Reaches, Opening
<1>9. Error(CANCELLED) \in Flight /\ Error(CANCELLED).type \notin {"message", "end"}
  BY DEF Error, CANCELLED, Flight, QueueItem
<1>10. Flow(got, pend, open, c1, live1, sent, over)
  <2>1. CASE toServer' = toServer
    <3>1. c1 = c /\ (live1 => live)
      BY <1>7, <2>1
    <3> HIDE DEF got, pend, open, sent, over, live, live1, c, pend1, c1
    <3>2. QED
      BY <1>1, <1>2, <3>1, FlowShut
  <2>2. CASE toServer' = <<>>
    <3>1. ~Tells(c1) /\ ~live1
      BY <1>8, <2>2, CarriedEmpty
    <3> HIDE DEF got, pend, open, sent, over, live, live1, c, pend1, c1
    <3>2. QED
      BY <1>1, <1>2, <3>1 DEF Flow
  <2>3. QED
    BY <1>4, <2>1, <2>2
<1>11. Flow(got, pend1, open, c1, live1, sent, over)
  <2> HIDE DEF got, pend, open, sent, over, live, live1, c, pend1, c1
  <2>1. Flow(got, pend \o <<Error(CANCELLED)>>, open, c1, live1, sent, over)
    BY <1>1, <1>9, <1>10, FlowPush
  <2>2. QED
    BY <1>6, <1>10, <2>1
<1>12. QED
  BY <1>3, <1>5, <1>11

(* Initially nothing has been asked, and every step keeps the requests in  *)
(* flow.                                                                   *)
LEMMA RequestsInit ==
  ASSUME Init, NEW i \in Id
  PROVE  Requests(i)
<1>1. /\ toServer = <<>> /\ call[i] = NoCall /\ srv[i] = NoDispatch /\ sStream[i] = NewStream
  BY DEF Init, WireInit, ClientInit, ServerInit
<1>2. Of(<<>>, i) = {}
  BY OfOwn, OwnFrames
<1>3. \A open, live, over \in BOOLEAN :
        Flow(<<>>, <<>>, open, Carried(<<>>, i, "halfClose"), live, 0, over)
  <2>1. <<>> \in Seq(Frame(Id))
    OBVIOUS
  <2>2. QED
    BY <1>2, <2>1, FlowBegin
<1>4. Reaches(i) \in BOOLEAN
  BY DEF Reaches
<1>5. NoDispatch.got = <<>> /\ NoDispatch.reqs = "live" /\ NoCall.sent = 0
  BY DEF NoDispatch, NoCall
<1>6. QED
  BY <1>1, <1>3, <1>4, <1>5, PendingNew DEF Requests

(* And every step keeps it. *)
LEMMA RequestsNext ==
  ASSUME Steady, Life, [Next]_vars, NEW i \in Id, Requests(i)
  PROVE  Requests(i)'
<1>1. IInv /\ Tidy
  BY DEF Steady
<1>2. \A id \in Id : Sane(id)
  BY DEF Life, Alive, Fresh, Sane
<1>3. ASSUME UNCHANGED <<toServer, sStreams, sStream, srv>>, call'[i].sent = call[i].sent,
             call'[i].snd = call[i].snd
      PROVE  Requests(i)'
  BY <1>3 DEF Requests, Reaches, Opening
<1>4. ASSUME UNCHANGED vars
      PROVE  Requests(i)'
  BY <1>3, <1>4 DEF vars, wireVars, clientVars, serverVars
<1>5. ASSUME ServerHandleFrame, UNCHANGED clientVars
      PROVE  Requests(i)'
  BY <1>1, <1>5, ServerFrames, RequestsOpened, RequestsDelivered
<1>6. ASSUME ClientHandleFrame \/ ClientEnds, UNCHANGED serverVars
      PROVE  Requests(i)'
  <2>1. UNCHANGED <<toServer, sStreams, sStream, srv, call>>
    BY <1>6 DEF ClientHandleFrame, ClientEnds, ClientClose, ClientTransportError, CloseClientSide,
                CancelAllClientStreams, serverVars
  <2>2. QED
    BY <1>3, <2>1
<1>7. QED
  BY <1>1, <1>2, <1>4, <1>5, <1>6, Steps, RequestsClientMove, RequestsStartMove,
     RequestsServerMove, RequestsServerEnds

(***************************************************************************)
(* The responses of a call, from the handler to the application.           *)
(***************************************************************************)
Responses(id) ==
  /\ Flow(call[id].received, Pending(cStream[id]), call[id].outcome = "none",
          Carried(toClient, id, "close"), id \in cStreams, srv[id].yielded, srv[id].outcome = "ok")
  /\ call[id].outcome = "resolved" =>
       Len(call[id].received) = srv[id].yielded /\ srv[id].outcome = "ok"

(* What a handler answers goes on from its counter, and ends only when it  *)
(* returned well.                                                          *)
LEMMA AnswersFlow ==
  ASSUME NEW id \in Id, NEW d \in Dispatch, NEW e, NEW s, NEW t, NEW frames, Own(id, frames),
         Answers(id, d, e, s, t, frames), d.pc # "done",
         d.method \in {UNARY, CLIENT_STREAMING} /\ d.outcome # "ok" => d.yielded = 0
  PROVE  /\ Run(Carried(frames, id, "close"), d.yielded, e.yielded)
         /\ d.outcome = "ok" => e.outcome = "ok" /\ e.yielded = d.yielded
         /\ Tells(Carried(frames, id, "close")) => e.outcome = "ok"
         /\ e.yielded \in Nat
<1>1. d.yielded \in Nat /\ frames \in Seq(Frame(Id)) /\ d.method \in MethodType
  BY DEF Dispatch, Own
<1>2. d.outcome = "ok" => e.outcome = "ok" /\ e.yielded = d.yielded
  BY DEF Answers
<1>3. e.yielded \in Nat
  BY <1>1 DEF Answers
<1>4. Tells(Carried(frames, id, "close")) => e.outcome = "ok"
  <2>1. ASSUME NEW f \in Of(frames, id), f.body = "close"
        PROVE  e.outcome = "ok"
    <3>1. PICK k \in 1..Len(frames) : f = frames[k]
      BY OfOwn
    <3>2. QED
      BY <2>1, <3>1 DEF Answers, MessageFrame, ErrorFrame
  <2>2. Tells(Carried(frames, id, "close")) => \E f \in Of(frames, id) : f.body = "close"
    BY <1>1, CarriedTells
  <2>3. QED
    BY <2>1, <2>2
<1>5. Run(Carried(frames, id, "close"), d.yielded, e.yielded)
  <2>1. CASE frames = <<MessageFrame(id, d.yielded + 1)>> /\ e.yielded = d.yielded + 1
    BY <1>1, <2>1, CarriedMessage
  <2>2. CASE e.yielded = d.yielded /\ \A k \in 1..Len(frames) : frames[k].body # "message"
    BY <1>1, <2>2, CarriedSilent
  <2>3. CASE frames = FinalFrames(id, d) /\ d.outcome = "none"
             /\ e.yielded = IF d.method \in {UNARY, CLIENT_STREAMING} THEN 1 ELSE d.yielded
    <3>1. CASE d.method \in {UNARY, CLIENT_STREAMING}
      <4>1. d.yielded = 0 /\ e.yielded = 1
        BY <2>3, <3>1
      <4>2. frames = <<MessageFrame(id, 1), CloseFrame(id)>>
        BY <2>3, <3>1 DEF FinalFrames, UNARY, CLIENT_STREAMING, SERVER_STREAMING
      <4>3. QED
        BY <4>1, <4>2, CarriedMessage
    <3>2. CASE d.method \notin {UNARY, CLIENT_STREAMING}
      <4>1. frames = <<CloseFrame(id)>> \/ frames = <<HalfCloseFrame(id), CloseFrame(id)>>
        BY <2>3, <3>2 DEF FinalFrames
      <4>2. \A k \in 1..Len(frames) : frames[k].body # "message"
        BY <4>1 DEF CloseFrame, HalfCloseFrame
      <4>3. QED
        BY <2>2, <2>3, <3>2, <4>2
    <3>3. QED
      BY <3>1, <3>2
  <2>4. QED
    BY <2>1, <2>2, <2>3 DEF Answers, ErrorFrame
<1>6. QED
  BY <1>2, <1>3, <1>4, <1>5

(* The types of the responses of a call. *)
LEMMA ResponseTypes ==
  ASSUME IInv, NEW i \in Id
  PROVE  /\ call[i].received \in Seq(Nat) /\ Pending(cStream[i]) \in Seq(Flight)
         /\ srv[i] \in Dispatch /\ srv[i].yielded \in Nat /\ toClient \in Seq(Frame(Id))
         /\ Carried(toClient, i, "close") \in Seq(Flight)
         /\ Sound(cStream[i], CAwaits(call[i])) /\ CAwaits(call[i]) \in BOOLEAN
<1>1. /\ srv[i] \in Dispatch /\ cStream[i] \in StreamObject /\ call[i] \in Call
      /\ toClient \in Seq(Frame(Id))
  BY DEF IInv, WireTypeOK, ClientPart, ServerPart, GoodCall
<1>2. Pending(cStream[i]) \in Seq(Flight)
  BY <1>1, PendingTyped DEF Flight
<1>3. Carried(toClient, i, "close") \in Seq(Flight)
  BY <1>1, CarriedTyped
<1>4. Sound(cStream[i], CAwaits(call[i])) /\ CAwaits(call[i]) \in BOOLEAN
  BY DEF IInv, ClientPart, CAwaits
<1>5. QED
  BY <1>1, <1>2, <1>3, <1>4 DEF Dispatch, Call

(* Nothing happens to the responses of a call.                             *)
LEMMA ResponsesSame ==
  ASSUME NEW i \in Id, Responses(i), call'[i].received = call[i].received,
         call'[i].outcome = call[i].outcome, Pending(cStream'[i]) = Pending(cStream[i]),
         toClient' = toClient, i \in cStreams' => i \in cStreams,
         srv'[i].yielded = srv[i].yielded, srv'[i].outcome = "ok" <=> srv[i].outcome = "ok"
  PROVE  Responses(i)'
  BY DEF Responses, Flow

(* A call moves. *)
LEMMA ResponsesClientMove ==
  ASSUME Steady, Life, NEW id \in Id, NEW frames, ClientMove(id, frames), UNCHANGED serverVars,
         NEW i \in Id, Responses(i)
  PROVE  Responses(i)'
<1> DEFINE got == call[i].received  pend == Pending(cStream[i])  open == call[i].outcome = "none"
           sent == srv[i].yielded  over == srv[i].outcome = "ok"
           live == i \in cStreams  live1 == i \in cStreams'  c == Carried(toClient, i, "close")
           got1 == call'[i].received  pend1 == Pending(cStream'[i])
           out1 == call'[i].outcome  open1 == out1 = "none"
<1>1. /\ got \in Seq(Nat) /\ pend \in Seq(Flight) /\ sent \in Nat
      /\ live \in BOOLEAN /\ live1 \in BOOLEAN /\ open \in BOOLEAN /\ over \in BOOLEAN
      /\ open1 \in BOOLEAN
  BY ResponseTypes DEF Steady
<1>2. Flow(got, pend, open, c, live, sent, over)
  BY DEF Responses
<1>3. call[i].outcome = "resolved" => Len(got) = sent /\ over
  BY DEF Responses
<1>4. UNCHANGED <<toClient, srv>> /\ cStreams' \subseteq cStreams
  BY DEF ClientMove, PostToServer, serverVars
<1>5. Responses(i)' <=> /\ Flow(got1, pend1, open1, c, live1, sent, over)
                        /\ out1 = "resolved" => Len(got1) = sent /\ over
  BY <1>4 DEF Responses
<1>6. live1 => live
  BY <1>4
<1>7. CASE i # id
  BY <1>4, <1>7, ResponsesSame DEF ClientMove
<1>8. CASE i = id /\ Keeps(call[i], call'[i], pend, pend1)
  <2>1. got1 = got /\ out1 = call[i].outcome /\ open1 = open
    BY <1>8 DEF Keeps
  <2>2. Flow(got, pend, open, c, live1, sent, over)
    <3> HIDE DEF got, pend, open, sent, over, live, live1, c
    <3>1. QED
      BY <1>1, <1>2, <1>6 DEF Flow
  <2>3. pend1 = pend \/ \E code \in Nat : pend1 = pend \o <<Error(code)>>
    BY <1>8 DEF Keeps
  <2>4. ASSUME NEW code \in Nat
        PROVE  Flow(got, pend \o <<Error(code)>>, open, c, live1, sent, over)
    <3>1. Error(code) \in Flight /\ Error(code).type \notin {"message", "end"}
      BY DEF Error, Flight, QueueItem
    <3> HIDE DEF got, pend, open, sent, over, live, live1, c
    <3>2. QED
      BY <1>1, <2>2, <3>1, FlowPush
  <2>5. Flow(got, pend1, open, c, live1, sent, over)
    <3> HIDE DEF got, pend, open, sent, over, live, live1, c, pend1
    <3>1. QED
      BY <2>2, <2>3, <2>4
  <2>6. QED
    BY <1>3, <1>5, <2>1, <2>5
<1>9. CASE i = id /\ Quits(call[i], call'[i], pend, pend1)
  <2>1. got1 = got /\ ~open1 /\ out1 # "resolved"
    BY <1>9 DEF Quits
  <2>2. Flow(got1, pend1, open1, c, live1, sent, over)
    <3> HIDE DEF got, pend, open, sent, over, live, live1, c, pend1, open1, got1
    <3>1. QED
      BY <1>1, <1>2, <2>1 DEF Flow
  <2>3. QED
    BY <1>5, <2>1, <2>2
<1>10. CASE i = id /\ Takes(call[i], call'[i], pend, pend1)
  <2>1. /\ open /\ pend # <<>> /\ pend1 = Tail(pend)
        /\ \/ /\ Head(pend).type = "message" /\ got1 = Append(got, Head(pend).val)
              /\ open1 /\ out1 # "resolved"
           \/ Head(pend).type = "end" /\ got1 = got /\ ~open1
           \/ got1 = got /\ ~open1 /\ out1 # "resolved"
    BY <1>10 DEF Takes
  <2>2. open /\ pend # <<>>
    BY <2>1
  <2>3. Head(pend).type = "message" =>
          Flow(Append(got, Head(pend).val), Tail(pend), open, c, live, sent, over)
    <3> HIDE DEF got, pend, open, sent, over, live, live1, c, got1, pend1, open1, out1
    <3>1. QED
      BY <1>1, <1>2, <2>2, FlowTake
  <2>4. Head(pend).type = "end" => Len(got) = sent /\ over
    <3> HIDE DEF got, pend, open, sent, over, live, live1, c, got1, pend1, open1, out1
    <3>1. Due(got, pend, sent, over)
      BY <1>1, <1>2, <2>2, FlowDue
    <3>2. QED
      BY <3>1 DEF Due
  <2>5. ASSUME got1 = got, ~open1
        PROVE  Flow(got1, pend1, open1, c, live1, sent, over)
    <3> HIDE DEF got, pend, open, sent, over, live, live1, c, pend1, open1, got1
    <3>1. QED
      BY <1>1, <1>2, <2>5 DEF Flow
  <2>6. CASE Head(pend).type = "message" /\ got1 = Append(got, Head(pend).val)
             /\ open1 /\ out1 # "resolved"
    <3>1. Flow(got1, pend1, open1, c, live1, sent, over)
      <4> HIDE DEF got, pend, open, sent, over, live, live1, c, pend1, open1, got1
      <4>1. Flow(got1, pend1, open, c, live, sent, over)
        BY <2>1, <2>3, <2>6
      <4>2. QED
        BY <1>1, <1>6, <2>2, <4>1 DEF Flow
    <3>2. QED
      BY <1>5, <2>6, <3>1
  <2>7. CASE Head(pend).type = "end" /\ got1 = got /\ ~open1
    BY <1>5, <2>4, <2>5, <2>7
  <2>8. CASE got1 = got /\ ~open1 /\ out1 # "resolved"
    BY <1>5, <2>5, <2>8
  <2>9. QED
    BY <2>1, <2>6, <2>7, <2>8
<1>11. QED
  BY <1>7, <1>8, <1>9, <1>10 DEF ClientMove, Hears

(* A call is made. *)
LEMMA ResponsesStartMove ==
  ASSUME Steady, Life, NEW id \in Id, NEW m \in Method, NEW frames, StartMove(id, m, frames),
         UNCHANGED serverVars, NEW i \in Id, Responses(i)
  PROVE  Responses(i)'
<1>1. /\ UNCHANGED <<toClient, srv>> /\ cStreams' \subseteq cStreams \cup {id}
      /\ toClient \in Seq(Frame(Id))
  BY DEF StartMove, PostToServer, serverVars, Steady, IInv, WireTypeOK
<1>2. CASE i # id
  BY <1>1, <1>2, ResponsesSame DEF StartMove
<1>3. CASE i = id
  <2> DEFINE pend1 == Pending(cStream'[i])  open1 == call'[i].outcome = "none"
             live1 == i \in cStreams'  c == Carried(toClient, i, "close")
  <2>1. Untouched(i)
    BY <1>3 DEF StartMove, Life, Fresh
  <2>2. srv[i].yielded = 0 /\ srv[i].outcome # "ok" /\ Of(toClient, i) = {}
    BY <2>1 DEF Untouched, NoDispatch
  <2>3. call'[i].received = <<>> /\ call'[i].outcome # "resolved"
        /\ (pend1 = <<>> \/ pend1 = <<Error(CANCELLED)>>)
    BY <1>3 DEF StartMove
  <2>4. Responses(i)' <=> Flow(<<>>, pend1, open1, c, live1, 0, FALSE)
    BY <1>1, <2>2, <2>3 DEF Responses
  <2>5. \A open, live, over \in BOOLEAN : Flow(<<>>, <<>>, open, c, live, 0, over)
    BY <1>1, <2>2, FlowBegin
  <2>6. Flow(<<>>, <<>>, open1, c, live1, 0, FALSE)
    <3>1. open1 \in BOOLEAN /\ live1 \in BOOLEAN /\ FALSE \in BOOLEAN
      OBVIOUS
    <3> HIDE DEF open1, live1, c
    <3>2. QED
      BY <2>5, <3>1
  <2>7. Flow(<<>>, <<Error(CANCELLED)>>, open1, c, live1, 0, FALSE)
    <3>1. /\ open1 \in BOOLEAN /\ live1 \in BOOLEAN /\ FALSE \in BOOLEAN /\ 0 \in Nat
          /\ <<>> \in Seq(Nat) /\ <<>> \in Seq(Flight)
          /\ <<>> \o <<Error(CANCELLED)>> = <<Error(CANCELLED)>>
      OBVIOUS
    <3>2. Error(CANCELLED) \in Flight /\ Error(CANCELLED).type \notin {"message", "end"}
      BY DEF Error, CANCELLED, Flight, QueueItem
    <3> HIDE DEF open1, live1, c
    <3>3. Flow(<<>>, <<>> \o <<Error(CANCELLED)>>, open1, c, live1, 0, FALSE)
      BY <2>6, <3>1, <3>2, FlowPush
    <3>4. QED
      BY <3>1, <3>3
  <2>8. QED
    BY <2>3, <2>4, <2>6, <2>7
<1>4. QED
  BY <1>2, <1>3

(* The client dispatches a frame. *)
LEMMA ResponsesClientFrame ==
  ASSUME Steady, Life, ClientHandleFrame, UNCHANGED serverVars, NEW i \in Id, Responses(i)
  PROVE  Responses(i)'
<1>1. PICK f, id : f = Head(toClient) /\ id = f.streamId
  OBVIOUS
<1> DEFINE s == cStream[i]  t == ClientReceive(s, f)
           got == call[i].received  pend == Pending(s)  open == call[i].outcome = "none"
           sent == srv[i].yielded  over == srv[i].outcome = "ok"
           live == i \in cStreams  pend1 == Pending(cStream'[i])
           rest == Carried(Tail(toClient), i, "close")
<1>2. /\ toClient \in Seq(Frame(Id)) /\ toClient # <<>> /\ toClient' = Tail(toClient)
      /\ f \in Frame(Id) /\ id \in Id /\ f.arg \in Nat
      /\ cStream'[i] = IF i = id /\ i \in cStreams THEN t ELSE s
      /\ UNCHANGED <<call, srv, cStreams>>
  <2>1. toClient \in Seq(Frame(Id)) /\ toClient # <<>>
    BY DEF Steady, IInv, WireTypeOK, ClientHandleFrame
  <2>2. f \in Frame(Id)
    BY <1>1, <2>1
  <2>3. id \in Id /\ f.arg \in Nat
    BY <1>1, <2>2 DEF Frame
  <2>4. cStream'[i] = IF i = id /\ i \in cStreams THEN t ELSE s
    BY <1>1 DEF ClientHandleFrame
  <2>5. QED
    BY <2>1, <2>2, <2>3, <2>4 DEF ClientHandleFrame, serverVars
<1>3. /\ got \in Seq(Nat) /\ pend \in Seq(Flight) /\ sent \in Nat
      /\ live \in BOOLEAN /\ open \in BOOLEAN /\ over \in BOOLEAN
  BY ResponseTypes DEF Steady
<1>4. Sound(s, CAwaits(call[i])) /\ CAwaits(call[i]) \in BOOLEAN /\ s \in StreamObject
  BY ResponseTypes DEF Steady, Sound
<1>5. Flow(got, pend, open, Carried(toClient, i, "close"), live, sent, over)
  BY DEF Responses
<1>6. Responses(i)' <=> Flow(got, pend1, open, rest, live, sent, over)
  BY <1>2 DEF Responses
<1>7. ASSUME \/ Head(toClient).streamId # i
             \/ Head(toClient).body \notin {"message", "close"}
             \/ ~live
      PROVE  Flow(got, pend, open, rest, live, sent, over)
  <2>1. live => live
    OBVIOUS
  <2> HIDE DEF got, pend, open, sent, over, live, pend1, s, t
  <2>2. QED
    BY <1>2, <1>3, <1>5, <1>7, <2>1, FlowPass
<1>8. CASE i # id \/ i \notin cStreams
  <2>1. pend1 = pend
    BY <1>2, <1>8
  <2>2. Head(toClient).streamId # i \/ ~live
    BY <1>1, <1>8
  <2>3. Flow(got, pend, open, rest, live, sent, over)
    BY <1>7, <2>2
  <2>4. QED
    BY <1>6, <2>1, <2>3
<1>9. CASE i = id /\ i \in cStreams
  <2>1. pend1 = Pending(t) /\ live /\ Head(toClient).streamId = i
    BY <1>1, <1>2, <1>9
  <2>2. f \in Of(toClient, id)
    BY <1>1, <1>2, OfTail
  <2>3. f.body \in {"message", "halfClose", "close", "error"}
    BY <1>9, <2>2 DEF Life, Replies
  <2>4. \A st \in StreamState :
          Sound(SetState(s, st), CAwaits(call[i])) /\ Pending(SetState(s, st)) = pend
    BY <1>4, SetStateSound, PendingSetState
  <2>5. CASE f.body \in {"message", "close"}
    <3>1. Pending(t) = pend \o <<Item(Head(toClient), "close")>>
      <4>1. CASE f.body = "message"
        <5>1. t = Push(s, Message(f.arg)) /\ Item(Head(toClient), "close") = Message(f.arg)
          BY <1>1, <4>1 DEF ClientReceive, Item
        <5>2. Message(f.arg) \in QueueItem
          BY <1>2 DEF Message, QueueItem
        <5> HIDE DEF s, t
        <5>3. QED
          BY <1>4, <5>1, <5>2, PendingPush
      <4>2. CASE f.body = "close"
        <5>1. t = Push(SetState(s, "closed"), End) /\ Item(Head(toClient), "close") = End
          BY <1>1, <4>2 DEF ClientReceive, Item
        <5>2. End \in QueueItem /\ "closed" \in StreamState
          BY DEF End, QueueItem, StreamState
        <5> HIDE DEF s, t
        <5>3. QED
          BY <2>4, <5>1, <5>2, PendingPush
      <4>3. QED
        BY <2>5, <4>1, <4>2
    <3> HIDE DEF t, s, pend, got, open, sent, over, live, pend1
    <3>2. Flow(got, pend \o <<Item(Head(toClient), "close")>>, open, rest, live, sent, over)
      <4>1. Reaching(got, pend, open, toClient, i, "close", live, sent, over, live)
        BY FlowReach
      <4>2. QED
        BY <1>2, <1>3, <1>5, <2>1, <4>1 DEF Reaching
    <3>3. QED
      BY <1>6, <2>1, <3>1, <3>2
  <2>6. CASE f.body \in {"halfClose", "error"}
    <3>1. Flow(got, pend, open, rest, live, sent, over)
      BY <1>1, <1>7, <2>6
    <3>2. CASE f.body = "halfClose"
      <4> DEFINE st == IF s.state = "half_closed_local" THEN "half_closed_both"
                   ELSE "half_closed_remote"
      <4>1. t = SetState(s, st) /\ st \in StreamState
        BY <3>2 DEF ClientReceive, StreamState
      <4>2. Pending(t) = pend
        <5> HIDE DEF t, st
        <5>1. QED
          BY <2>4, <4>1
      <4>3. QED
        BY <1>6, <2>1, <3>1, <4>2
    <3>3. CASE f.body = "error"
      <4> DEFINE e == Error(FromFrame(f.arg))
      <4>1. t = Push(SetState(s, "error"), e) /\ "error" \in StreamState
        BY <3>3 DEF ClientReceive, StreamState
      <4>2. e \in QueueItem /\ e \in Flight /\ e.type \notin {"message", "end"}
        <5>1. FromFrame(f.arg) \in Nat
          BY <1>2 DEF FromFrame, INTERNAL
        <5>2. QED
          BY <5>1 DEF Error, QueueItem, Flight
      <4> HIDE DEF e
      <4>3. Pending(t) = pend \o <<e>>
        <5> HIDE DEF t
        <5>1. QED
          BY <2>4, <4>1, <4>2, PendingPush
      <4>4. Flow(got, pend \o <<e>>, open, rest, live, sent, over)
        <5> HIDE DEF t, s, pend, got, open, sent, over, live, pend1, rest
        <5>1. QED
          BY <1>3, <3>1, <4>2, FlowPush
      <4>5. QED
        BY <1>6, <2>1, <4>3, <4>4
    <3>4. QED
      BY <2>6, <3>2, <3>3
  <2>7. QED
    BY <2>3, <2>5, <2>6
<1>10. QED
  BY <1>8, <1>9

(* The client closes, or its transport fails: its streams are cancelled. *)
LEMMA ResponsesClientEnds ==
  ASSUME Steady, Life, ClientEnds, UNCHANGED serverVars, NEW i \in Id, Responses(i)
  PROVE  Responses(i)'
<1> DEFINE got == call[i].received  pend == Pending(cStream[i])  open == call[i].outcome = "none"
           sent == srv[i].yielded  over == srv[i].outcome = "ok"
           live == i \in cStreams  live1 == i \in cStreams'  c == Carried(toClient, i, "close")
           c1 == Carried(toClient', i, "close")  pend1 == Pending(cStream'[i])
<1>1. /\ got \in Seq(Nat) /\ pend \in Seq(Flight) /\ sent \in Nat
      /\ live \in BOOLEAN /\ open \in BOOLEAN /\ over \in BOOLEAN
  BY ResponseTypes DEF Steady
<1>2. Flow(got, pend, open, c, live, sent, over)
  BY DEF Responses
<1>3. /\ UNCHANGED <<call, srv>> /\ cStreams' = {}
      /\ cStream'[i] = IF i \in cStreams THEN Cancel(cStream[i]) ELSE cStream[i]
      /\ toClient' = toClient \/ toClient' = <<>>
  BY DEF ClientEnds, ClientClose, ClientTransportError, CloseClientSide, CancelAllClientStreams,
         serverVars
<1>4. /\ Responses(i)' <=> /\ Flow(got, pend1, open, c1, live1, sent, over)
                           /\ call[i].outcome = "resolved" => Len(got) = sent /\ over
      /\ call[i].outcome = "resolved" => Len(got) = sent /\ over
      /\ ~live1 /\ live1 \in BOOLEAN
  BY <1>3 DEF Responses
<1>5. pend1 = pend \/ pend1 = pend \o <<Error(CANCELLED)>>
  <2>1. Sound(cStream[i], CAwaits(call[i])) /\ CAwaits(call[i]) \in BOOLEAN
    BY ResponseTypes DEF Steady
  <2>2. QED
    BY <1>3, <2>1, PendingCancel
<1>6. Error(CANCELLED) \in Flight /\ Error(CANCELLED).type \notin {"message", "end"}
  BY DEF Error, CANCELLED, Flight, QueueItem
<1>7. Flow(got, pend, open, c1, live1, sent, over)
  <2>1. c1 = c \/ ~Tells(c1)
    BY <1>3, CarriedEmpty
  <2> HIDE DEF got, pend, open, sent, over, live, live1, c, pend1, c1
  <2>2. QED
    BY <1>1, <1>2, <1>4, <2>1 DEF Flow
<1>8. Flow(got, pend1, open, c1, live1, sent, over)
  <2> HIDE DEF got, pend, open, sent, over, live, live1, c, pend1, c1
  <2>1. live1 \in BOOLEAN
    BY <1>4
  <2>2. Flow(got, pend \o <<Error(CANCELLED)>>, open, c1, live1, sent, over)
    BY <1>1, <1>6, <1>7, <2>1, FlowPush
  <2>3. QED
    BY <1>5, <1>7, <2>2
<1>9. QED
  BY <1>4, <1>8

(* A handler moves. *)
LEMMA ResponsesServerMove ==
  ASSUME Steady, Life, NEW id \in Id, NEW frames, ServerMove(id, frames), UNCHANGED clientVars,
         NEW i \in Id, Responses(i)
  PROVE  Responses(i)'
<1> DEFINE got == call[i].received  pend == Pending(cStream[i])  open == call[i].outcome = "none"
           sent == srv[i].yielded  over == srv[i].outcome = "ok"  live == i \in cStreams
           sent1 == srv'[i].yielded  over1 == srv'[i].outcome = "ok"
<1>1. /\ got \in Seq(Nat) /\ pend \in Seq(Flight) /\ sent \in Nat /\ toClient \in Seq(Frame(Id))
      /\ live \in BOOLEAN /\ open \in BOOLEAN /\ over \in BOOLEAN /\ over1 \in BOOLEAN
  BY ResponseTypes DEF Steady
<1>2. /\ Own(id, frames) /\ frames \in Seq(Frame(Id))
      /\ Answers(id, srv[id], srv'[id], sStream[id], sStream'[id], frames) /\ srv[id].pc # "done"
      /\ \A k \in Id : k # id => srv'[k] = srv[k]
      /\ UNCHANGED <<call, cStream, cStreams>>
  BY DEF ServerMove, Own, clientVars
<1>3. toClient' = toClient \o frames \/ (toClient' = toClient /\ ~live)
  BY DEF ServerMove, PostToClient, Life, Wires
<1>4. Posts(toClient, toClient', i, "close", live, live, sent, sent1, over, over1)
  <2>1. CASE i = id
    <3>1. srv[i] \in Dispatch
      BY ResponseTypes DEF Steady
    <3>2. /\ Run(Carried(frames, i, "close"), sent, sent1)
          /\ over => over1 /\ sent1 = sent
          /\ Tells(Carried(frames, i, "close")) => over1
          /\ sent1 \in Nat
      BY <1>2, <2>1, <3>1, AnswersFlow DEF Life, Alive
    <3> HIDE DEF sent, over, live, sent1, over1
    <3>3. QED
      BY <1>1, <1>2, <1>3, <3>2 DEF Posts
  <2>2. CASE i # id
    <3>1. sent1 = sent /\ over1 = over
      BY <1>2, <2>2
    <3>2. live => live
      OBVIOUS
    <3> HIDE DEF sent, over, live, sent1, over1
    <3>3. QED
      BY <1>1, <1>2, <1>3, <2>2, <3>1, <3>2, PostsOthers
  <2>3. QED
    BY <2>1, <2>2
<1>5. Flow(got, pend, open, Carried(toClient, i, "close"), live, sent, over)
  BY DEF Responses
<1>6. over => over1 /\ sent1 = sent
  BY <1>4 DEF Posts
<1>7. call[i].outcome = "resolved" => Len(got) = sent1 /\ over1
  BY <1>6 DEF Responses
<1>8. Responses(i)' <=> /\ Flow(got, pend, open, Carried(toClient', i, "close"), live, sent1, over1)
                        /\ call[i].outcome = "resolved" => Len(got) = sent1 /\ over1
  BY <1>2 DEF Responses
<1>9. Flow(got, pend, open, Carried(toClient', i, "close"), live, sent1, over1)
  <2> HIDE DEF got, pend, open, sent, over, live, sent1, over1
  <2>1. QED
    BY <1>1, <1>4, <1>5, FlowPost
<1>10. QED
  BY <1>7, <1>8, <1>9

(* An OPEN is refused: the ERROR frame carries no response. *)
LEMMA ResponsesRefused ==
  ASSUME Steady, Life, toServer # <<>>, UNCHANGED clientVars, NEW code,
         Refused(Head(toServer), code),
         NEW i \in Id, Responses(i)
  PROVE  Responses(i)'
<1>1. PICK id : id = Head(toServer).streamId
  OBVIOUS
<1> DEFINE frames == <<ErrorFrame(id, code)>>
           got == call[i].received  pend == Pending(cStream[i])  open == call[i].outcome = "none"
           sent == srv[i].yielded  over == srv[i].outcome = "ok"  live == i \in cStreams
<1>2. /\ got \in Seq(Nat) /\ pend \in Seq(Flight) /\ sent \in Nat /\ toClient \in Seq(Frame(Id))
      /\ live \in BOOLEAN /\ open \in BOOLEAN /\ over \in BOOLEAN
  BY ResponseTypes DEF Steady
<1>3. UNCHANGED <<call, cStream, cStreams, srv>>
  BY DEF Refused, serverVars, clientVars
<1>4. id \in Id /\ Own(id, frames) /\ frames \in Seq(Frame(Id))
  <2>1. Head(toServer) \in Frame(Id)
    BY DEF Steady, IInv, WireTypeOK
  <2>2. id \in Id
    BY <1>1, <2>1 DEF Frame
  <2>3. Own(id, frames)
    BY <2>2, OwnAnswers DEF Refused
  <2>4. QED
    BY <2>2, <2>3 DEF Own
<1>5. CASE toClient' = toClient
  BY <1>3, <1>5, ResponsesSame
<1>6. CASE toClient' = toClient \o frames
  <2>1. /\ Run(Carried(frames, i, "close"), sent, sent)
        /\ ~Tells(Carried(frames, i, "close"))
    <3>1. \A f \in Of(frames, i) : f.body = "error"
      BY DEF Of, ErrorFrame
    <3>2. QED
      BY <1>2, <1>4, <3>1, CarriedNone
  <2>2. Flow(got, pend, open, Carried(toClient, i, "close"), live, sent, over)
    BY DEF Responses
  <2>3. Responses(i)' <=> /\ Flow(got, pend, open, Carried(toClient', i, "close"), live, sent, over)
                          /\ call[i].outcome = "resolved" => Len(got) = sent /\ over
    BY <1>3 DEF Responses
  <2>4. call[i].outcome = "resolved" => Len(got) = sent /\ over
    BY DEF Responses
  <2>5. Flow(got, pend, open, Carried(toClient', i, "close"), live, sent, over)
    <3> HIDE DEF got, pend, open, sent, over, live, frames
    <3>1. Posts(toClient, toClient', i, "close", live, live, sent, sent, over, over)
      BY <1>2, <1>4, <1>6, <2>1 DEF Posts
    <3>2. QED
      BY <1>2, <2>2, <3>1, FlowPost
  <2>6. QED
    BY <2>3, <2>4, <2>5
<1>7. QED
  BY <1>1, <1>5, <1>6 DEF Refused

(* Initially nothing has been answered, and every step keeps the responses *)
(* in flow.                                                                *)
LEMMA ResponsesInit ==
  ASSUME Init, NEW i \in Id
  PROVE  Responses(i)
<1>1. /\ toClient = <<>> /\ call[i] = NoCall /\ srv[i] = NoDispatch /\ cStream[i] = NewStream
  BY DEF Init, WireInit, ClientInit, ServerInit
<1>2. Of(<<>>, i) = {}
  BY OfOwn, OwnFrames
<1>3. \A open, live, over \in BOOLEAN :
        Flow(<<>>, <<>>, open, Carried(<<>>, i, "close"), live, 0, over)
  <2>1. <<>> \in Seq(Frame(Id))
    OBVIOUS
  <2>2. QED
    BY <1>2, <2>1, FlowBegin
<1>4. NoCall.received = <<>> /\ NoCall.outcome = "none" /\ NoDispatch.yielded = 0
  BY DEF NoDispatch, NoCall
<1> DEFINE open == call[i].outcome = "none"  live == i \in cStreams  over == srv[i].outcome = "ok"
<1>5. Flow(<<>>, <<>>, open, Carried(<<>>, i, "close"), live, 0, over)
  <2>1. open \in BOOLEAN /\ live \in BOOLEAN /\ over \in BOOLEAN
    OBVIOUS
  <2> HIDE DEF open, live, over
  <2>2. QED
    BY <1>3, <2>1
<1>6. QED
  BY <1>1, <1>4, <1>5, PendingNew DEF Responses

(* And every step keeps it. *)
LEMMA ResponsesNext ==
  ASSUME Steady, Life, [Next]_vars, NEW i \in Id, Responses(i)
  PROVE  Responses(i)'
<1>1. IInv /\ Tidy
  BY DEF Steady
<1>2. \A id \in Id : Sane(id)
  BY DEF Life, Alive, Fresh, Sane
<1>3. ASSUME UNCHANGED vars
      PROVE  Responses(i)'
  BY <1>3, ResponsesSame DEF vars, wireVars, clientVars, serverVars
<1>4. ASSUME ServerHandleFrame, UNCHANGED clientVars
      PROVE  Responses(i)'
  <2>1. PICK f, id : f = Head(toServer) /\ id = f.streamId
    OBVIOUS
  <2>2. UNCHANGED <<call, cStream, cStreams>> /\ toServer # <<>>
    BY <1>4 DEF ServerHandleFrame, clientVars
  <2>3. ASSUME NEW d, NEW s, Accepted(f, d, s)
        PROVE  Responses(i)'
    <3>1. toServer \in Seq(Frame(Id)) /\ f \in Frame(Id) /\ id \in Id
      BY <1>1, <2>1, <2>2 DEF IInv, WireTypeOK, Frame
    <3>2. Untouched(id)
      BY <2>1, <2>2, <2>3, <3>1, OfTail DEF Accepted, Life, Fresh, Opening
    <3>3. srv[id].yielded = 0 /\ srv[id].outcome # "ok"
      BY <3>2 DEF Untouched, NoDispatch
    <3>4. /\ srv'[i] = IF i = id THEN d ELSE srv[i]
          /\ d.outcome # "ok" /\ d.yielded = 0 /\ UNCHANGED toClient
      BY <1>1, <2>1, <2>3, <3>1 DEF Accepted, IInv, ServerPart
    <3>5. srv'[i].yielded = srv[i].yielded /\ (srv'[i].outcome = "ok" <=> srv[i].outcome = "ok")
      BY <3>3, <3>4
    <3>6. QED
      BY <2>2, <3>4, <3>5, ResponsesSame
  <2>4. ASSUME HandleStreamFrame(f)
        PROVE  Responses(i)'
    BY <2>2, <2>4, ResponsesSame DEF HandleStreamFrame
  <2>5. QED
    BY <1>1, <1>4, <2>1, <2>2, <2>3, <2>4, ServerFrames, ResponsesRefused
<1>5. ASSUME ServerEnds, UNCHANGED clientVars
      PROVE  Responses(i)'
  BY <1>5, ResponsesSame DEF ServerEnds, ServerClose, ServerTransportError, CloseServerSide,
        CancelAllServerStreams, clientVars
<1>6. QED
  BY <1>1, <1>2, <1>3, <1>4, <1>5, Steps, ResponsesClientMove, ResponsesStartMove,
     ResponsesClientFrame, ResponsesClientEnds, ResponsesServerMove

(***************************************************************************)
(* Where a cancellation comes from.                                        *)
(***************************************************************************)
Caused(id)   == call[id].signal = "aborted" \/ faults > 0 \/ CANCELLED \in HandlerCodes
Unwanted(id) == call[id].signal = "aborted" \/ call[id].outcome = "rejected" \/ faults > 0

(* The call is told CANCELLED, or is about to be, with a cause; and it     *)
(* tells the server to cancel only what nobody wants any more.             *)
ClientCauses(id) ==
  /\ call[id].outcome = "rejected" /\ call[id].code = CANCELLED => Caused(id)
  /\ Holds(Pending(cStream[id]), Error(CANCELLED)) => Caused(id)
  /\ \A f \in Of(toServer, id) : f.body = "cancel" => Unwanted(id)

(* The server says CANCELLED only after a handler, and its stream fails or *)
(* its signal fires only by a cancellation.                                *)
ServerCauses(id) ==
  /\ \A f \in Of(toClient, id) : f.body = "error" /\ f.arg = CANCELLED => CANCELLED \in HandlerCodes
  /\ srv[id].outcome = "failed" /\ srv[id].code = CANCELLED =>
       sStream[id].state = "cancelled" \/ CANCELLED \in HandlerCodes
  /\ Fails(Pending(sStream[id])) => sStream[id].state = "cancelled"
  /\ sStream[id].aborted => Unwanted(id)
Causes(id) == ClientCauses(id) /\ ServerCauses(id)

(* A cause stays, and so does the reason not to want a call.               *)
LEMMA CauseStays ==
  ASSUME IInv, NEW i \in Id, faults <= faults', faults' \in Nat,
         \/ /\ call[i].signal = "aborted" => call'[i].signal = "aborted"
            /\ call[i].outcome = "rejected" => call'[i].outcome = "rejected"
         \/ faults' > 0
  PROVE  (Caused(i) => Caused(i)') /\ (Unwanted(i) => Unwanted(i)')
<1>1. faults \in Nat /\ (faults > 0 => faults' > 0)
  BY DEF IInv, WireTypeOK
<1>2. QED
  BY <1>1 DEF Caused, Unwanted

(* Nothing happens to one half of a call.                                  *)
LEMMA ClientCausesSame ==
  ASSUME NEW i \in Id, ClientCauses(i), Caused(i) => Caused(i)', Unwanted(i) => Unwanted(i)',
         call'[i].outcome = call[i].outcome, call'[i].code = call[i].code,
         Pending(cStream'[i]) = Pending(cStream[i]), Of(toServer', i) \subseteq Of(toServer, i)
  PROVE  ClientCauses(i)'
  BY DEF ClientCauses

(* The same for the server's half.                                         *)
LEMMA ServerCausesSame ==
  ASSUME NEW i \in Id, ServerCauses(i), Unwanted(i) => Unwanted(i)', srv'[i] = srv[i],
         sStream'[i] = sStream[i], Of(toClient', i) \subseteq Of(toClient, i)
  PROVE  ServerCauses(i)'
  BY DEF ServerCauses

(* What a client holds once it heard: an error only for its own abort.     *)
LEMMA HeardCauses ==
  ASSUME NEW c, NEW d, NEW pend \in Seq(Flight), NEW pend1, Hears(c, d, pend, pend1)
  PROVE  /\ c.outcome = "rejected" => d.outcome = "rejected" /\ d.code = c.code
         /\ d.outcome = "rejected" /\ d.code = CANCELLED =>
              Holds(pend, Error(CANCELLED)) \/ (c.outcome = "rejected" /\ c.code = CANCELLED)
         /\ Holds(pend1, Error(CANCELLED)) => Holds(pend, Error(CANCELLED)) \/ d.signal = "aborted"
<1>1. CASE Keeps(c, d, pend, pend1)
  <2>1. d.outcome = c.outcome /\ d.code = c.code
    BY <1>1 DEF Keeps
  <2>2. CASE pend1 = pend
    BY <2>1, <2>2
  <2>3. ASSUME NEW code \in Nat, pend1 = pend \o <<Error(code)>>,
                    code = CANCELLED => d.signal = "aborted"
        PROVE  Holds(pend1, Error(CANCELLED))
                 => Holds(pend, Error(CANCELLED)) \/ d.signal = "aborted"
    <3>1. Error(code) \in Flight /\ (Error(code) = Error(CANCELLED) => code = CANCELLED)
      BY DEF Error, Flight, QueueItem
    <3>2. Holds(<<Error(code)>>, Error(CANCELLED)) => code = CANCELLED
      BY <3>1 DEF Holds
    <3>3. <<Error(code)>> \in Seq(Flight)
      BY <3>1
    <3>4. Holds(pend1, Error(CANCELLED)) =>
            Holds(pend, Error(CANCELLED)) \/ Holds(<<Error(code)>>, Error(CANCELLED))
      BY <2>3, <3>3, HoldsParts
    <3>5. QED
      BY <2>3, <3>2, <3>4
  <2>4. QED
    BY <1>1, <2>1, <2>2, <2>3 DEF Keeps
<1>2. CASE Quits(c, d, pend, pend1)
  BY <1>2 DEF Quits
<1>3. CASE Takes(c, d, pend, pend1)
  <2>1. pend # <<>> /\ pend1 = Tail(pend) /\ c.outcome = "none"
    BY <1>3 DEF Takes
  <2>2. /\ Holds(Tail(pend), Error(CANCELLED)) => Holds(pend, Error(CANCELLED))
        /\ Head(pend) = Error(CANCELLED) => Holds(pend, Error(CANCELLED))
    BY <2>1, HoldsTail
  <2>3. d.outcome = "rejected" /\ d.code = CANCELLED => Head(pend) = Error(CANCELLED)
    BY <1>3 DEF Takes
  <2>4. QED
    BY <2>1, <2>2, <2>3
<1>4. QED
  BY <1>1, <1>2, <1>3 DEF Hears

(* A call moves. *)
LEMMA CausesClientMove ==
  ASSUME Steady, Life, NEW id \in Id, NEW frames, ClientMove(id, frames), UNCHANGED serverVars,
         NEW i \in Id, Causes(i)
  PROVE  Causes(i)'
<1>1. /\ faults \in Nat /\ faults' \in Nat /\ faults <= faults' /\ toServer \in Seq(Frame(Id))
      /\ UNCHANGED <<toClient, srv, sStream>> /\ IInv
      /\ Own(id, frames) /\ Says(id, call[id], call'[id], frames)
      /\ toServer' = toServer \/ toServer' = toServer \o frames
      /\ \A k \in Id : k # id => call'[k] = call[k] /\ cStream'[k] = cStream[k]
      /\ Hears(call[id], call'[id], Pending(cStream[id]), Pending(cStream'[id]))
  BY DEF Steady, IInv, WireTypeOK, ClientMove, PostToServer, serverVars
<1>2. Pending(cStream[id]) \in Seq(Flight)
  BY <1>1, ResponseTypes
<1>3. /\ call[id].outcome = "rejected" =>
           call'[id].outcome = "rejected" /\ call'[id].code = call[id].code
      /\ call'[id].outcome = "rejected" /\ call'[id].code = CANCELLED =>
           \/ Holds(Pending(cStream[id]), Error(CANCELLED))
           \/ call[id].outcome = "rejected" /\ call[id].code = CANCELLED
      /\ Holds(Pending(cStream'[id]), Error(CANCELLED)) =>
           Holds(Pending(cStream[id]), Error(CANCELLED)) \/ call'[id].signal = "aborted"
  BY <1>1, <1>2, HeardCauses
<1>4. /\ call[i].signal = "aborted" => call'[i].signal = "aborted"
      /\ call[i].outcome = "rejected" => call'[i].outcome = "rejected"
  BY <1>1, <1>3 DEF Says
<1>5. (Caused(i) => Caused(i)') /\ (Unwanted(i) => Unwanted(i)')
  BY <1>1, <1>4, CauseStays
<1>6. ServerCauses(i)'
  BY <1>1, <1>5, ServerCausesSame DEF Causes
<1>7. /\ \A k \in Id : k # id => Of(toServer', k) = Of(toServer, k)
      /\ \A f \in Of(toServer', id) : f \in Of(toServer, id)
         \/ \E k \in 1..Len(frames) : f = frames[k]
  <2>1. /\ toServer \in Seq(Frame(Id)) /\ Own(id, frames)
        /\ toServer' = toServer \/ toServer' = toServer \o frames
    BY <1>1
  <2>2. QED
    BY <2>1, PostedOf
<1>8. CASE i # id
  <2>1. call'[i] = call[i] /\ cStream'[i] = cStream[i] /\ Of(toServer', i) \subseteq Of(toServer, i)
    BY <1>1, <1>7, <1>8
  <2>2. /\ call'[i].outcome = call[i].outcome /\ call'[i].code = call[i].code
        /\ Pending(cStream'[i]) = Pending(cStream[i]) /\ ClientCauses(i)
    BY <2>1 DEF Causes
  <2>3. ClientCauses(i)'
    BY <1>5, <2>1, <2>2, ClientCausesSame
  <2>4. QED
    BY <1>6, <2>3 DEF Causes
<1>9. CASE i = id
  <2>1. call'[i].signal = "aborted" => Caused(i)'
    BY DEF Caused
  <2>2. \A k \in 1..Len(frames) : frames[k].body = "cancel" => Unwanted(i)'
    BY <1>1, <1>9 DEF Says, Unwanted, CancelFrame, MessageFrame, HalfCloseFrame
  <2>3. \A f \in Of(toServer', i) : f.body = "cancel" => Unwanted(i)'
    BY <1>5, <1>7, <1>9, <2>2 DEF Causes, ClientCauses
  <2>4. ClientCauses(i)'
    BY <1>3, <1>5, <1>9, <2>1, <2>3 DEF Causes, ClientCauses
  <2>5. QED
    BY <1>6, <2>4 DEF Causes
<1>10. QED
  BY <1>8, <1>9

(* A call is made. *)
LEMMA CausesStartMove ==
  ASSUME Steady, Life, NEW id \in Id, NEW m \in Method, NEW frames, StartMove(id, m, frames),
         UNCHANGED serverVars, NEW i \in Id, Causes(i)
  PROVE  Causes(i)'
<1>1. /\ faults \in Nat /\ faults' \in Nat /\ faults <= faults' /\ toServer \in Seq(Frame(Id))
      /\ UNCHANGED <<toClient, srv, sStream>> /\ IInv
      /\ Own(id, frames) /\ call[id].pc = "idle"
      /\ toServer' = toServer \/ toServer' = toServer \o frames
      /\ \A k \in Id : k # id => call'[k] = call[k] /\ cStream'[k] = cStream[k]
  BY DEF Steady, IInv, WireTypeOK, StartMove, PostToServer, serverVars
<1>2. call[id] = NoCall /\ Of(toServer, id) = {}
  BY <1>1 DEF Life, Fresh
<1>3. /\ call[i].signal = "aborted" => call'[i].signal = "aborted"
      /\ call[i].outcome = "rejected" => call'[i].outcome = "rejected"
  BY <1>1, <1>2 DEF NoCall
<1>4. (Caused(i) => Caused(i)') /\ (Unwanted(i) => Unwanted(i)')
  BY <1>1, <1>3, CauseStays
<1>5. ServerCauses(i)'
  BY <1>1, <1>4, ServerCausesSame DEF Causes
<1>6. /\ \A k \in Id : k # id => Of(toServer', k) = Of(toServer, k)
      /\ \A f \in Of(toServer', id) : f \in Of(toServer, id)
         \/ \E k \in 1..Len(frames) : f = frames[k]
  BY <1>1, PostedOf
<1>7. CASE i # id
  <2>1. call'[i] = call[i] /\ cStream'[i] = cStream[i] /\ Of(toServer', i) \subseteq Of(toServer, i)
    BY <1>1, <1>6, <1>7
  <2>2. /\ call'[i].outcome = call[i].outcome /\ call'[i].code = call[i].code
        /\ Pending(cStream'[i]) = Pending(cStream[i]) /\ ClientCauses(i)
    BY <2>1 DEF Causes
  <2>3. ClientCauses(i)'
    BY <1>4, <2>1, <2>2, ClientCausesSame
  <2>4. QED
    BY <1>5, <2>3 DEF Causes
<1>8. CASE i = id
  <2>1. call'[i].outcome = "rejected" => call'[i].code # CANCELLED
    BY <1>8 DEF StartMove, LocalError, CANCELLED
  <2>2. Holds(Pending(cStream'[i]), Error(CANCELLED)) => Caused(i)'
    BY <1>8 DEF StartMove, Caused, Holds
  <2>3. \A k \in 1..Len(frames) : frames[k].body = "cancel" => Unwanted(i)'
    BY <1>8 DEF StartMove, Unwanted, OpenFrame, CancelFrame, MessageFrame, HalfCloseFrame
  <2>4. ClientCauses(i)'
    BY <1>2, <1>6, <1>8, <2>1, <2>2, <2>3 DEF ClientCauses
  <2>5. QED
    BY <1>5, <2>4 DEF Causes
<1>9. QED
  BY <1>7, <1>8

(* The client dispatches a frame: an ERROR is the server's. *)
LEMMA CausesClientFrame ==
  ASSUME Steady, Life, ClientHandleFrame, UNCHANGED serverVars, NEW i \in Id, Causes(i)
  PROVE  Causes(i)'
<1>1. PICK f, id : f = Head(toClient) /\ id = f.streamId
  OBVIOUS
<1> DEFINE s == cStream[i]  t == ClientReceive(s, f)  pend == Pending(s)
           bad(p) == Holds(p, Error(CANCELLED))
<1>2. /\ toClient \in Seq(Frame(Id)) /\ toClient # <<>> /\ toClient' = Tail(toClient)
      /\ f \in Frame(Id) /\ f.arg \in Nat
      /\ cStream'[i] = IF i = id /\ i \in cStreams THEN t ELSE s
      /\ UNCHANGED <<call, srv, sStream, toServer, faults>>
  <2>1. toClient \in Seq(Frame(Id)) /\ toClient # <<>>
    BY DEF Steady, IInv, WireTypeOK, ClientHandleFrame
  <2>2. f \in Frame(Id)
    BY <1>1, <2>1
  <2>3. f.arg \in Nat
    BY <2>2 DEF Frame
  <2>4. cStream'[i] = IF i = id /\ i \in cStreams THEN t ELSE s
    BY <1>1 DEF ClientHandleFrame
  <2>5. QED
    BY <2>1, <2>2, <2>3, <2>4 DEF ClientHandleFrame, serverVars
<1>3. /\ Of(toClient', i) \subseteq Of(toClient, i)
      /\ i = id => f \in Of(toClient, i)
  BY <1>1, <1>2, OfTail
<1>4. (Caused(i) <=> Caused(i)') /\ (Unwanted(i) <=> Unwanted(i)')
  BY <1>2 DEF Caused, Unwanted
<1>5. ServerCauses(i)'
  BY <1>2, <1>3, <1>4, ServerCausesSame DEF Causes
<1>6. Sound(s, CAwaits(call[i])) /\ CAwaits(call[i]) \in BOOLEAN /\ s \in StreamObject
      /\ pend \in Seq(Flight)
  BY ResponseTypes DEF Steady, Sound
<1>7. \A st \in StreamState :
        Sound(SetState(s, st), CAwaits(call[i])) /\ Pending(SetState(s, st)) = pend
  BY <1>6, SetStateSound, PendingSetState
<1>8. ASSUME NEW e \in QueueItem, e = Error(CANCELLED) => Caused(i), bad(pend \o <<e>>)
      PROVE  Caused(i)
  <2>1. <<e>> \in Seq(Flight) /\ (Holds(<<e>>, Error(CANCELLED)) => e = Error(CANCELLED))
    BY DEF Holds, Flight
  <2>2. bad(pend) \/ Holds(<<e>>, Error(CANCELLED))
    BY <1>6, <1>8, <2>1, HoldsParts
  <2>3. QED
    BY <1>8, <2>1, <2>2 DEF Causes, ClientCauses
<1>9. ASSUME i = id, bad(Pending(t))
      PROVE  Caused(i)
  <2> HIDE DEF s
  <2>1. f.body \in {"message", "halfClose", "close", "error"}
    BY <1>3, <1>9 DEF Life, Replies
  <2>2. CASE f.body = "message"
    <3>1. t = Push(s, Message(f.arg)) /\ Message(f.arg) \in QueueItem
          /\ Message(f.arg) # Error(CANCELLED)
      BY <1>2, <2>2 DEF ClientReceive, Message, Error, QueueItem
    <3>2. Pending(t) = pend \o <<Message(f.arg)>>
      BY <1>6, <3>1, PendingPush
    <3>3. QED
      BY <1>8, <1>9, <3>1, <3>2
  <2>3. CASE f.body = "close"
    <3>1. t = Push(SetState(s, "closed"), End) /\ End \in QueueItem /\ End # Error(CANCELLED)
      BY <2>3 DEF ClientReceive, End, Error, QueueItem
    <3>2. Pending(t) = pend \o <<End>>
      BY <1>6, <1>7, <3>1, PendingPush DEF StreamState
    <3>3. QED
      BY <1>8, <1>9, <3>1, <3>2
  <2>4. CASE f.body = "error"
    <3> DEFINE e == Error(FromFrame(f.arg))
    <3>1. t = Push(SetState(s, "error"), e)
      BY <2>4 DEF ClientReceive
    <3>2. FromFrame(f.arg) \in Nat /\ (FromFrame(f.arg) = CANCELLED => f.arg = CANCELLED)
      BY <1>2 DEF FromFrame, INTERNAL, CANCELLED
    <3>3. e \in QueueItem /\ (e = Error(CANCELLED) => f.arg = CANCELLED)
      BY <3>2 DEF Error, QueueItem
    <3>4. e = Error(CANCELLED) => Caused(i)
      BY <1>3, <1>9, <2>4, <3>3 DEF Causes, ServerCauses, Caused
    <3> HIDE DEF e
    <3>5. Pending(t) = pend \o <<e>>
      BY <1>6, <1>7, <3>1, <3>3, PendingPush DEF StreamState
    <3>6. QED
      BY <1>8, <1>9, <3>3, <3>4, <3>5
  <2>5. CASE f.body = "halfClose"
    <3> DEFINE st == IF s.state = "half_closed_local" THEN "half_closed_both"
                 ELSE "half_closed_remote"
    <3>1. t = SetState(s, st) /\ st \in StreamState
      BY <2>5 DEF ClientReceive, StreamState
    <3>2. Pending(t) = pend
      <4> HIDE DEF t, st
      <4>1. QED
        BY <1>7, <3>1
    <3>3. QED
      BY <1>9, <3>2 DEF Causes, ClientCauses, s
  <2>6. QED
    BY <2>1, <2>2, <2>3, <2>4, <2>5
<1>10. bad(Pending(cStream'[i])) => Caused(i)
  BY <1>2, <1>9 DEF Causes, ClientCauses
<1>11. ClientCauses(i)'
  BY <1>2, <1>4, <1>10 DEF Causes, ClientCauses
<1>12. QED
  BY <1>5, <1>11 DEF Causes

(* A side closes or its transport fails: that is a cause.                  *)
LEMMA CausesEnds ==
  ASSUME Steady, Life, \/ ClientEnds /\ UNCHANGED serverVars
                       \/ ServerEnds /\ UNCHANGED clientVars,
         NEW i \in Id, Causes(i)
  PROVE  Causes(i)'
<1>1. faults \in Nat /\ faults' = faults + 1
  BY DEF Steady, IInv, WireTypeOK, ClientEnds, ServerEnds, ClientClose, ClientTransportError,
         ServerClose, ServerTransportError, Fault
<1>2. Caused(i)' /\ Unwanted(i)'
  BY <1>1 DEF Caused, Unwanted
<1>3. ClientCauses(i)'
  BY <1>2 DEF ClientCauses
<1>4. Of(toClient', i) \subseteq Of(toClient, i) /\ srv' = srv
  <2>1. Of(<<>>, i) = {}
    BY OfOwn, OwnFrames
  <2>2. toClient' \in {toClient, <<>>} /\ srv' = srv
    BY DEF ClientEnds, ServerEnds, ClientClose, ClientTransportError, ServerClose,
           ServerTransportError, CloseClientSide, CloseServerSide, CancelAllServerStreams,
           serverVars
  <2>3. QED
    BY <2>1, <2>2
<1>5. CASE sStream'[i] = sStream[i]
  <2>1. ServerCauses(i)'
    BY <1>2, <1>4, <1>5, ServerCausesSame DEF Causes
  <2>2. QED
    BY <1>3, <2>1 DEF Causes
<1>6. CASE sStream'[i] = Cancel(sStream[i])
  <2>1. Sound(sStream[i], SAwaits(srv[i])) /\ sStream[i] \in StreamObject
    BY DEF Steady, IInv, ServerPart, Sound
  <2>2. sStream'[i] = sStream[i] \/ sStream'[i].state = "cancelled"
    BY <1>6, <2>1 DEF Cancel, Push, StreamObject
  <2>3. CASE sStream'[i].state = "cancelled"
    BY <1>2, <1>3, <1>4, <2>3 DEF Causes, ServerCauses
  <2>4. QED
    BY <1>5, <2>2, <2>3
<1>7. sStream'[i] \in {sStream[i], Cancel(sStream[i])}
  BY DEF ClientEnds, ServerEnds, ServerClose, ServerTransportError, CancelAllServerStreams,
         serverVars
<1>8. QED
  BY <1>5, <1>6, <1>7

(* A handler moves: what it throws is the stream's error or its own.       *)
LEMMA CausesServerMove ==
  ASSUME Steady, Life, NEW id \in Id, NEW frames, ServerMove(id, frames), UNCHANGED clientVars,
         NEW i \in Id, Causes(i)
  PROVE  Causes(i)'
<1> DEFINE d == srv[id]  e == srv'[id]  s == sStream[id]  t == sStream'[id]
           pend == Pending(s)  pend1 == Pending(t)
<1>1. /\ toClient \in Seq(Frame(Id)) /\ Own(id, frames)
      /\ toClient' = toClient \/ toClient' = toClient \o frames
  BY DEF Steady, IInv, WireTypeOK, ServerMove, PostToClient
<1>2. /\ UNCHANGED <<toServer, call, cStream, faults>>
      /\ \A k \in Id : k # id => srv'[k] = srv[k] /\ sStream'[k] = sStream[k]
      /\ Answers(id, d, e, s, t, frames)
      /\ Rests(d, e, pend, pend1) \/ Reads(d, e, pend, pend1)
      /\ Running(d)
  BY DEF Life, Alive, ServerMove, PostToClient, clientVars
<1>3. (Caused(i) <=> Caused(i)') /\ (Unwanted(i) <=> Unwanted(i)')
  BY <1>2 DEF Caused, Unwanted
<1>4. ClientCauses(i)'
  BY <1>2, <1>3 DEF Causes, ClientCauses
<1>5. /\ \A k \in Id : k # id => Of(toClient', k) = Of(toClient, k)
      /\ \A f \in Of(toClient', id) : f \in Of(toClient, id)
         \/ \E k \in 1..Len(frames) : f = frames[k]
  BY <1>1, PostedOf
<1>6. CASE i # id
  <2>1. ServerCauses(i)'
    BY <1>2, <1>3, <1>5, <1>6, ServerCausesSame DEF Causes
  <2>2. QED
    BY <1>4, <2>1 DEF Causes
<1>7. CASE i = id
  <2>1. /\ d.outcome = "failed"
           /\ d.code = CANCELLED => s.state = "cancelled" \/ CANCELLED \in HandlerCodes
        /\ Fails(pend) => s.state = "cancelled"
        /\ s.aborted => Unwanted(i)
        /\ \A f \in Of(toClient, i) : f.body = "error"
           /\ f.arg = CANCELLED => CANCELLED \in HandlerCodes
    BY <1>7 DEF Causes, ServerCauses
  <2>2. PICK final : final = FinalFrames(id, d)
    OBVIOUS
  <2>3. \A k \in 1..Len(final) : final[k].body # "error"
    BY <2>2 DEF FinalFrames, MessageFrame, CloseFrame, HalfCloseFrame
  <2>4. \/ frames = <<>> \/ frames = final
        \/ frames = <<MessageFrame(id, d.yielded + 1)>>
        \/ frames = <<ErrorFrame(id, d.code)>> /\ d.outcome = "failed" /\ s.state # "cancelled"
    BY <1>2, <2>2 DEF Answers
  <2>5. \A k \in 1..Len(frames) :
          frames[k].body = "error" /\ frames[k].arg = CANCELLED => CANCELLED \in HandlerCodes
    BY <2>1, <2>3, <2>4 DEF MessageFrame, ErrorFrame
  <2>6. \A f \in Of(toClient', i) : f.body = "error"
        /\ f.arg = CANCELLED => CANCELLED \in HandlerCodes
    BY <1>5, <1>7, <2>1, <2>5
  <2>7. t.aborted = s.aborted /\ (s.state = "cancelled" => t.state = "cancelled")
    BY <1>2 DEF Answers
  <2>8. e.outcome = "failed"
        /\ e.code = CANCELLED => t.state = "cancelled" \/ CANCELLED \in HandlerCodes
    <3>1. CASE Rests(d, e, pend, pend1)
      BY <2>1, <2>7, <3>1 DEF Rests
    <3>2. CASE Reads(d, e, pend, pend1)
      <4>1. /\ e.outcome = "failed" /\ e.code = CANCELLED => Head(pend).type = "error"
            /\ pend # <<>>
        BY <3>2 DEF Reads
      <4>2. pend \in Seq(Flight)
        BY RequestTypes DEF Steady
      <4>3. Head(pend).type = "error" => Fails(pend)
        BY <4>1, <4>2 DEF Fails
      <4>4. QED
        BY <2>1, <2>7, <4>1, <4>3
    <3>3. QED
      BY <1>2, <3>1, <3>2
  <2>9. Fails(pend1) => Fails(pend)
    <3>1. pend \in Seq(Flight)
      BY RequestTypes DEF Steady
    <3>2. pend1 = pend \/ (pend # <<>> /\ pend1 = Tail(pend))
      BY <1>2 DEF Rests, Reads
    <3>3. QED
      BY <3>1, <3>2, TellsTail
  <2>10. ServerCauses(i)'
    BY <1>3, <1>7, <2>1, <2>6, <2>7, <2>8, <2>9 DEF ServerCauses
  <2>11. QED
    BY <1>4, <2>10 DEF Causes
<1>8. QED
  BY <1>6, <1>7

(* The server dispatches a frame: a refusal is not a cancellation, and a   *)
(* stream fails only by a CANCEL.                                          *)
LEMMA CausesServerFrame ==
  ASSUME Steady, Life, ServerHandleFrame, UNCHANGED clientVars, NEW i \in Id, Causes(i)
  PROVE  Causes(i)'
<1>1. PICK f, id : f = Head(toServer) /\ id = f.streamId
  OBVIOUS
<1> DEFINE s == sStream[i]
<1>2. /\ f \in Frame(Id) /\ id \in Id /\ toServer # <<>> /\ toServer' = Tail(toServer)
      /\ toServer \in Seq(Frame(Id)) /\ toClient \in Seq(Frame(Id))
      /\ UNCHANGED <<call, cStream, faults>>
      /\ \/ \E code : Refused(f, code)
         \/ \E d, t : Accepted(f, d, t)
         \/ f.body # "open" /\ HandleStreamFrame(f)
  BY <1>1, ServerFrames DEF Steady, IInv, WireTypeOK, clientVars
<1>3. /\ Of(toServer', i) \subseteq Of(toServer, i)
      /\ f \in Of(toServer, id)
  BY <1>1, <1>2, OfTail
<1>4. (Caused(i) <=> Caused(i)') /\ (Unwanted(i) <=> Unwanted(i)')
  BY <1>2 DEF Caused, Unwanted
<1>5. ClientCauses(i)'
  BY <1>2, <1>3, <1>4 DEF Causes, ClientCauses
<1>6. ASSUME NEW code, Refused(f, code)
      PROVE  ServerCauses(i)'
  <2>1. UNCHANGED <<srv, sStream>> /\ code # CANCELLED /\ code \in Nat
    BY <1>6 DEF Refused, serverVars
  <2>2. Own(id, <<ErrorFrame(id, code)>>)
    BY <1>2, <2>1, OwnAnswers
  <2>3. toClient' = toClient \/ toClient' = toClient \o <<ErrorFrame(id, code)>>
    BY <1>1, <1>6 DEF Refused
  <2>4. PICK frames : frames = <<ErrorFrame(id, code)>>
    OBVIOUS
  <2>5. Own(id, frames) /\ (toClient' = toClient \/ toClient' = toClient \o frames)
    BY <2>2, <2>3, <2>4
  <2>6. /\ \A k \in Id : k # id => Of(toClient', k) = Of(toClient, k)
        /\ \A g \in Of(toClient', id) : g \in Of(toClient, id)
           \/ \E k \in 1..Len(frames) : g = frames[k]
    BY <1>2, <2>5, PostedOf
  <2>7. \A k \in 1..Len(frames) : frames[k].arg # CANCELLED
    BY <2>1, <2>4 DEF ErrorFrame
  <2>8. \A g \in Of(toClient', i) : g.body = "error"
        /\ g.arg = CANCELLED => CANCELLED \in HandlerCodes
    BY <2>6, <2>7 DEF Causes, ServerCauses
  <2>9. QED
    BY <1>4, <2>1, <2>8 DEF Causes, ServerCauses
<1>7. ASSUME NEW d, NEW t, Accepted(f, d, t)
      PROVE  ServerCauses(i)'
  <2>1. /\ srv'[i] = IF i = id THEN d ELSE srv[i]
        /\ sStream'[i] = IF i = id THEN t ELSE sStream[i]
        /\ d.outcome = "none" /\ Pending(t) = <<>> /\ t.aborted = FALSE /\ UNCHANGED toClient
    BY <1>1, <1>2, <1>7 DEF Accepted, Steady, IInv, ServerPart
  <2>2. ~Fails(<<>>)
    BY DEF Fails
  <2>3. QED
    BY <1>4, <2>1, <2>2 DEF Causes, ServerCauses
<1>8. ASSUME f.body # "open", HandleStreamFrame(f)
      PROVE  ServerCauses(i)'
  <2>1. /\ UNCHANGED <<srv, toClient>>
        /\ sStream'[i] = IF i = id /\ i \in sStreams THEN ServerReceive(s, f) ELSE s
    BY <1>1, <1>8 DEF HandleStreamFrame
  <2>2. CASE i # id \/ i \notin sStreams
    <3>1. srv'[i] = srv[i] /\ sStream'[i] = sStream[i] /\ Of(toClient', i) \subseteq Of(toClient, i)
      BY <2>1, <2>2
    <3>2. QED
      BY <1>4, <3>1, ServerCausesSame DEF Causes
  <2>3. CASE i = id /\ i \in sStreams
    <3>1. f.body \in {"message", "halfClose", "cancel"}
      BY <1>3, <1>8, <2>3 DEF Life, Asks
    <3>2. Sound(s, SAwaits(srv[i])) /\ SAwaits(srv[i]) \in BOOLEAN /\ s \in StreamObject
      BY DEF Steady, IInv, ServerPart, SAwaits, Sound
    <3>3. s.state # "cancelled" /\ ~Fails(Pending(s)) /\ Pending(s) \in Seq(Flight)
      <4>1. s.state # "cancelled"
        BY <2>3 DEF Life, Alive
      <4>2. Pending(s) \in Seq(Flight)
        BY RequestTypes DEF Steady
      <4>3. QED
        BY <4>1, <4>2 DEF Causes, ServerCauses
    <3>4. ServerReceive(s, f).aborted => s.aborted \/ f.body = "cancel"
      BY <1>2, <1>8, <3>2, ReceiveState
    <3>5. f.body = "cancel" => Unwanted(i)
      BY <1>3, <2>3 DEF Causes, ClientCauses
    <3>6. sStream'[i].aborted => Unwanted(i)
      BY <2>1, <2>3, <3>4, <3>5 DEF Causes, ServerCauses
    <3>7. CASE f.body = "cancel"
      <4>1. ServerReceive(s, f) = Cancel(s)
        BY <3>7 DEF ServerReceive
      <4>2. Cancel(s) = s \/ Cancel(s).state = "cancelled"
        BY <3>2 DEF Cancel, Push, StreamObject
      <4>3. Fails(Pending(sStream'[i])) => sStream'[i].state = "cancelled"
        BY <2>1, <2>3, <3>3, <4>1, <4>2
      <4>4. QED
        BY <1>4, <2>1, <3>3, <3>6, <4>3 DEF Causes, ServerCauses
    <3>8. CASE f.body \in {"message", "halfClose"}
      <4>1. \E x \in StreamObject, e \in QueueItem :
              /\ ServerReceive(s, f) = Push(x, e) /\ e.type # "error"
              /\ Sound(x, SAwaits(srv[i])) /\ Pending(x) = Pending(s)
        <5>1. CASE f.body = "message"
          <6>1. Message(f.arg) \in QueueItem /\ Message(f.arg).type # "error"
            BY <1>2 DEF Frame, Message, QueueItem
          <6>2. ServerReceive(s, f) = Push(s, Message(f.arg))
            BY <5>1 DEF ServerReceive
          <6> HIDE DEF s
          <6>3. QED
            BY <3>2, <6>1, <6>2
        <5>2. CASE f.body = "halfClose"
          <6> DEFINE st == IF s.state = "half_closed_local" THEN "half_closed_both"
                           ELSE "half_closed_remote"
          <6>1. ServerReceive(s, f) = Push(SetState(s, st), End) /\ st \in StreamState
            BY <5>2 DEF ServerReceive, StreamState
          <6>2. End \in QueueItem /\ End.type # "error"
            BY DEF End, QueueItem
          <6> HIDE DEF s, st
          <6>3. Sound(SetState(s, st), SAwaits(srv[i])) /\ Pending(SetState(s, st)) = Pending(s)
            BY <3>2, <6>1, SetStateSound, PendingSetState
          <6>4. QED
            BY <6>1, <6>2, <6>3 DEF Sound
        <5>3. QED
          BY <3>8, <5>1, <5>2
      <4>2. PICK x \in StreamObject, e \in QueueItem :
              /\ ServerReceive(s, f) = Push(x, e) /\ e.type # "error"
              /\ Sound(x, SAwaits(srv[i])) /\ Pending(x) = Pending(s)
        BY <4>1
      <4>3. Pending(Push(x, e)) = Pending(s) \o <<e>>
        BY <3>2, <4>2, PendingPush
      <4>4. ~Fails(<<e>>) /\ <<e>> \in Seq(Flight)
        BY <4>2 DEF Fails, Flight
      <4>5. ~Fails(Pending(sStream'[i]))
        <5>1. Fails(Pending(s) \o <<e>>) => Fails(Pending(s)) \/ Fails(<<e>>)
          BY <3>3, <4>4, TellsParts
        <5>2. QED
          BY <2>1, <2>3, <3>3, <4>2, <4>3, <4>4, <5>1
      <4>6. srv'[i] = srv[i] /\ Of(toClient', i) = Of(toClient, i)
        BY <2>1
      <4>7. srv[i].outcome = "failed" /\ srv[i].code = CANCELLED => CANCELLED \in HandlerCodes
        BY <3>3 DEF Causes, ServerCauses
      <4>8. QED
        BY <1>4, <3>6, <4>5, <4>6, <4>7 DEF Causes, ServerCauses
    <3>9. QED
      BY <3>1, <3>7, <3>8
  <2>4. QED
    BY <2>2, <2>3
<1>9. ServerCauses(i)'
  BY <1>2, <1>6, <1>7, <1>8
<1>10. QED
  BY <1>5, <1>9 DEF Causes

(* Initially nobody is told anything, and every step has its causes.       *)
LEMMA CausesInit ==
  ASSUME Init, NEW i \in Id
  PROVE  Causes(i)
<1>1. /\ toClient = <<>> /\ toServer = <<>> /\ call[i] = NoCall /\ srv[i] = NoDispatch
      /\ cStream[i] = NewStream /\ sStream[i] = NewStream
  BY DEF Init, WireInit, ClientInit, ServerInit
<1>2. Of(<<>>, i) = {}
  BY OfOwn, OwnFrames
<1>3. ~Holds(<<>>, Error(CANCELLED)) /\ ~Fails(<<>>)
  BY DEF Holds, Fails
<1>4. NoCall.outcome = "none" /\ NoDispatch.outcome = "none" /\ NewStream.aborted = FALSE
  BY DEF NoCall, NoDispatch, NewStream
<1>5. QED
  BY <1>1, <1>2, <1>3, <1>4, PendingNew DEF Causes, ClientCauses, ServerCauses

(* And every step keeps them. *)
LEMMA CausesNext ==
  ASSUME Steady, Life, [Next]_vars, NEW i \in Id, Causes(i)
  PROVE  Causes(i)'
<1>1. IInv /\ Tidy /\ \A id \in Id : Sane(id)
  BY DEF Steady, Life, Alive, Fresh, Sane
<1>2. ASSUME UNCHANGED vars
      PROVE  Causes(i)'
  BY <1>2 DEF vars, wireVars, clientVars, serverVars, Causes, ClientCauses, ServerCauses, Caused,
              Unwanted
<1>3. QED
  BY <1>1, <1>2, Steps, CausesClientMove, CausesStartMove, CausesClientFrame, CausesEnds,
     CausesServerMove, CausesServerFrame

(***************************************************************************)
(* The invariants of the bridge, together.                                 *)
(***************************************************************************)
Bridge == Life /\ \A id \in Id : Requests(id) /\ Responses(id) /\ Causes(id)

(* They hold of every reachable state.                                     *)
LEMMA BridgeInvariance == Spec => [](IInv /\ Tidy /\ Bridge)
<1>1. Init => Bridge
  BY LifeInit, RequestsInit, ResponsesInit, CausesInit DEF Bridge
<1>2. (IInv /\ Tidy) /\ (IInv /\ Tidy)' /\ Bridge /\ [Next]_vars => Bridge'
  <2> SUFFICES ASSUME Steady, Bridge, [Next]_vars PROVE Bridge'
    BY DEF Steady
  <2>1. Life'
    BY LifeNext DEF Bridge
  <2>2. ASSUME NEW id \in Id
        PROVE  Requests(id)' /\ Responses(id)' /\ Causes(id)'
    BY RequestsNext, ResponsesNext, CausesNext DEF Bridge
  <2>3. QED
    BY <2>1, <2>2 DEF Bridge
<1>3. QED
  BY <1>1, <1>2, TidyInvariance, PTL DEF Spec

(* A handler is given the requests of its call in order, none twice, and   *)
(* is told that they have ended only when it has had every one of them.    *)
THEOREM RequestsArriveInOrder == Spec => []RequestsInOrder
<1>1. Bridge => RequestsInOrder
  <2> SUFFICES ASSUME Bridge, NEW id \in Id
               PROVE  /\ Counted(srv[id].got) /\ Len(srv[id].got) <= call[id].sent
                      /\ srv[id].reqs = "ended" =>
                           Len(srv[id].got) = call[id].sent /\ call[id].snd # "pull"
    BY DEF RequestsInOrder
  <2>1. QED
    BY DEF Bridge, Requests, Flow, Counted
<1>2. QED
  BY <1>1, BridgeInvariance, PTL

(* A call is given the responses of its handler in order, none twice, and  *)
(* ends well only when it has had every one of them.                       *)
THEOREM ResponsesArriveInOrder == Spec => []ResponsesInOrder
<1>1. Bridge => ResponsesInOrder
  <2> SUFFICES ASSUME Bridge, NEW id \in Id
               PROVE  /\ Counted(call[id].received) /\ Len(call[id].received) <= srv[id].yielded
                      /\ call[id].outcome = "resolved" =>
                           srv[id].outcome = "ok" /\ Len(call[id].received) = srv[id].yielded
    BY DEF ResponsesInOrder
  <2>1. QED
    BY DEF Bridge, Responses, Flow, Counted
<1>2. QED
  BY <1>1, BridgeInvariance, PTL

(* The frames of a stream keep the protocol's order on both wires.         *)
THEOREM FramesKeepOrder == Spec => []FrameOrder
<1>1. IInv /\ Bridge => FrameOrder
  BY DEF Bridge, Life, Wires, Ordered, FrameOrder, IInv, WireTypeOK
<1>2. QED
  BY <1>1, BridgeInvariance, PTL

(* Nobody is told CANCELLED, and no handler's signal fires, without a      *)
(* cause of that very call or of the whole connection.                     *)
THEOREM CancellationsHaveCauses == Spec => []CancellationHasCause
<1>1. Bridge => CancellationHasCause
  BY DEF Bridge, Causes, ClientCauses, ServerCauses, Caused, Unwanted, CancellationHasCause
<1>2. QED
  BY <1>1, BridgeInvariance, PTL

(* Frames a server posts for one stream are sent for no other.             *)
LEMMA OthersUnanswered ==
  ASSUME WireTypeOK, NEW id \in Id, NEW frames, Own(id, frames),
         toClient' = toClient \/ toClient' = toClient \o frames
  PROVE  \A i \in Id : i # id => ~SentFor(i, toClient, toClient')
<1>1. toClient \in Seq(Frame(Id)) /\ frames \in Seq(Frame(Id))
  BY DEF WireTypeOK, Own
<1>2. \A k \in Len(toClient) + 1..Len(toClient \o frames) :
        (toClient \o frames)[k] = frames[k - Len(toClient)] /\ k - Len(toClient) \in 1..Len(frames)
  BY <1>1
<1>3. \A i \in Id : ~SentFor(i, toClient, toClient)
  BY <1>1 DEF SentFor
<1>4. QED
  BY <1>2, <1>3 DEF SentFor, Own

(* A server that is over with a stream, because it has closed it, has seen *)
(* it cancelled or has let its handler go, sends nothing more of it.       *)
THEOREM OverIsSilent == Spec => ServerSilentWhenOver
<1> DEFINE over(id) == sStream[id].state \in {"closed", "cancelled"} \/ srv[id].pc = "done"
<1>1. ASSUME IInv, Tidy, Bridge, [Next]_vars
      PROVE  \A id \in Id : over(id) => ~SentFor(id, toClient, toClient')
  <2>1. WireTypeOK /\ toClient \in Seq(Frame(Id))
    BY <1>1 DEF IInv, WireTypeOK
  <2>2. ASSUME toClient' = toClient \/ toClient' = <<>>
                \/ (toClient # <<>> /\ toClient' = Tail(toClient))
        PROVE  \A id \in Id : ~SentFor(id, toClient, toClient')
    <3>1. Len(toClient') <= Len(toClient)
      BY <2>1, <2>2
    <3>2. QED
      BY <2>1, <3>1 DEF SentFor
  <2>3. ASSUME NEW i \in Id, NEW frames, ServerMove(i, frames)
        PROVE  \A id \in Id : over(id) => ~SentFor(id, toClient, toClient')
    <3>1. /\ Answers(i, srv[i], srv'[i], sStream[i], sStream'[i], frames) /\ srv[i].pc # "done"
          /\ Own(i, frames) /\ (toClient' = toClient \/ toClient' = toClient \o frames)
      BY <2>3 DEF ServerMove, PostToClient
    <3>2. frames # <<>> => srv[i].outcome # "ok" /\ sStream[i].state # "cancelled"
      BY <3>1, AnswersKnown
    <3>3. sStream[i].state = "closed" => srv[i].outcome = "ok"
      BY <1>1 DEF Bridge, Life, Alive
    <3>4. over(i) => frames = <<>>
      BY <3>1, <3>2, <3>3
    <3>5. frames = <<>> => toClient' = toClient
      BY <2>1, <3>1
    <3>6. over(i) => ~SentFor(i, toClient, toClient')
      BY <2>2, <3>4, <3>5
    <3>7. \A id \in Id : id # i => ~SentFor(id, toClient, toClient')
      BY <2>1, <3>1, OthersUnanswered
    <3>8. QED
      BY <3>6, <3>7
  <2>4. ASSUME ServerHandleFrame
        PROVE  \A id \in Id : over(id) => ~SentFor(id, toClient, toClient')
    <3>1. PICK f, i : f = Head(toServer) /\ i = f.streamId
      OBVIOUS
    <3>2. /\ i \in Id /\ toServer # <<>> /\ toServer \in Seq(Frame(Id))
          /\ \/ \E code : Refused(f, code)
             \/ \E d, t : Accepted(f, d, t)
             \/ HandleStreamFrame(f)
      BY <1>1, <2>4, <3>1, ServerFrames DEF IInv, WireTypeOK
    <3>3. ASSUME NEW code, Refused(f, code)
          PROVE  \A id \in Id : over(id) => ~SentFor(id, toClient, toClient')
      <4>1. f.body = "open" /\ code \in Nat
        BY <3>3 DEF Refused
      <4>2. f \in Of(toServer, i)
        BY <3>1, <3>2, OfTail
      <4>3. Untouched(i)
        BY <1>1, <3>2, <4>1, <4>2 DEF Bridge, Life, Fresh, Opening
      <4>4. ~over(i)
        BY <4>3 DEF Untouched, NewStream, NoDispatch
      <4>5. Own(i, <<ErrorFrame(i, code)>>)
        BY <3>2, <4>1, OwnAnswers
      <4>6. toClient' = toClient \/ toClient' = toClient \o <<ErrorFrame(i, code)>>
        BY <3>1, <3>3 DEF Refused
      <4>7. \A id \in Id : id # i => ~SentFor(id, toClient, toClient')
        BY <2>1, <3>2, <4>5, <4>6, OthersUnanswered
      <4>8. QED
        BY <4>4, <4>7
    <3>4. ASSUME (\E d, t : Accepted(f, d, t)) \/ HandleStreamFrame(f)
          PROVE  toClient' = toClient
      BY <3>4 DEF Accepted, HandleStreamFrame
    <3>5. QED
      BY <2>2, <3>2, <3>3, <3>4
  <2>5. \A id \in Id : Sane(id)
    BY <1>1 DEF Bridge, Life, Alive, Fresh, Sane
  <2>6. ASSUME \/ UNCHANGED vars
               \/ \E id \in Id : \E frames : ClientMove(id, frames)
               \/ \E id \in Id, m \in Method : \E frames : StartMove(id, m, frames)
               \/ ClientHandleFrame
               \/ ClientEnds
               \/ ServerEnds
        PROVE  toClient' = toClient \/ toClient' = <<>>
                \/ (toClient # <<>> /\ toClient' = Tail(toClient))
    BY <2>6 DEF vars, wireVars, ClientMove, StartMove, PostToServer, ClientHandleFrame, ClientEnds,
       ClientClose, ClientTransportError, CloseClientSide, ServerEnds, ServerClose,
       ServerTransportError, CloseServerSide
  <2>7. QED
    BY <1>1, <2>2, <2>3, <2>4, <2>5, <2>6, Steps
<1>2. QED
  BY <1>1, BridgeInvariance, PTL DEF Spec, ServerSilentWhenOver

(***************************************************************************)
(* The bridge implements its contract.  A step changes what the contract   *)
(* sees of one call, at its client or at its server, and only as one of    *)
(* the contract's actions may.                                             *)
(***************************************************************************)
MayAsk(c) == c.pc = "idle" \/ c.snd = "pull"
Ending(c) == IF c.pc = "done" THEN c.outcome ELSE "none"

(* What the contract sees of a call whose client moves from c to d, while  *)
(* its handler is at h: nothing, or one of the contract's actions.         *)
Looks(d, asked, received, asking, ending) ==
  /\ d.sent = asked /\ d.received = received /\ MayAsk(d) = asking /\ Ending(d) = ending
ClientKeeps(c, d, h) ==
  \/ Looks(d, c.sent, c.received, MayAsk(c), Ending(c))
  \/ /\ MayAsk(c) /\ Ending(c) = "none"
     /\ \E asking \in {TRUE, FALSE} : Looks(d, c.sent + 1, c.received, asking, "none")
  \/ MayAsk(c) /\ Looks(d, c.sent, c.received, FALSE, Ending(c))
  \/ /\ Ending(c) = "none" /\ Len(c.received) < h.yielded
     /\ Looks(d, c.sent, Append(c.received, Len(c.received) + 1), MayAsk(c), "none")
  \/ /\ Ending(c) = "none" /\ Len(c.received) = h.yielded /\ h.outcome = "ok"
     /\ Looks(d, c.sent, c.received, MayAsk(c), "resolved")
  \/ /\ Ending(c) = "none"
     /\ \E how \in {"rejected", "returned"} : Looks(d, c.sent, c.received, FALSE, how)

(* Such a step is a step of the contract. *)
LEMMA ClientImplements ==
  ASSUME IInv, NEW id \in Id, UNCHANGED srv, \A i \in Id : i # id => call'[i] = call[i],
         ClientKeeps(call[id], call'[id], srv[id])
  PROVE  [Contract!Next]_(Contract!vars)
<1> DEFINE c == call[id]  d == call'[id]  h == srv[id]
<1>1. call \in [Id -> Call] /\ c \in Call
  BY DEF IInv, ClientPart, GoodCall
<1>2. /\ Asking = [Asking EXCEPT ![id] = MayAsk(c)] /\ Asked = [Asked EXCEPT ![id] = c.sent]
      /\ Delivered = [Delivered EXCEPT ![id] = c.received]
      /\ Result = [Result EXCEPT ![id] = Ending(c)]
      /\ Asking[id] = MayAsk(c) /\ Asked[id] = c.sent /\ Delivered[id] = c.received
      /\ Result[id] = Ending(c)
  BY DEF Asking, Asked, Delivered, Result, MayAsk, Ending
<1>3. /\ Asking' = [Asking EXCEPT ![id] = MayAsk(d)] /\ Asked' = [Asked EXCEPT ![id] = d.sent]
      /\ Delivered' = [Delivered EXCEPT ![id] = d.received]
      /\ Result' = [Result EXCEPT ![id] = Ending(d)]
  BY <1>1 DEF Asking, Asked, Delivered, Result, MayAsk, Ending
<1>4. /\ UNCHANGED <<Taken, Told, Produced, Served>>
      /\ Produced[id] = h.yielded /\ Served[id] = h.outcome
  BY DEF Taken, Told, Produced, Served
<1> HIDE DEF c, d, h
<1>5. CASE Looks(d, c.sent, c.received, MayAsk(c), Ending(c))
  BY <1>2, <1>3, <1>4, <1>5 DEF Looks, Contract!vars
<1>6. CASE /\ MayAsk(c) /\ Ending(c) = "none"
           /\ \E asking \in {TRUE, FALSE} : Looks(d, c.sent + 1, c.received, asking, "none")
  <2>1. Contract!Ask(id)
    BY <1>2, <1>3, <1>4, <1>6 DEF Looks, Contract!Ask
  <2>2. QED
    BY <2>1 DEF Contract!Next
<1>7. CASE MayAsk(c) /\ Looks(d, c.sent, c.received, FALSE, Ending(c))
  <2>1. Contract!StopAsking(id)
    BY <1>2, <1>3, <1>4, <1>7 DEF Looks, Contract!StopAsking
  <2>2. QED
    BY <2>1 DEF Contract!Next
<1>8. CASE /\ Ending(c) = "none" /\ Len(c.received) < h.yielded
           /\ Looks(d, c.sent, Append(c.received, Len(c.received) + 1), MayAsk(c), "none")
  <2>1. Contract!Deliver(id)
    BY <1>2, <1>3, <1>4, <1>8 DEF Looks, Contract!Deliver, Contract!Next1
  <2>2. QED
    BY <2>1 DEF Contract!Next
<1>9. CASE /\ Ending(c) = "none" /\ Len(c.received) = h.yielded /\ h.outcome = "ok"
           /\ Looks(d, c.sent, c.received, MayAsk(c), "resolved")
  <2>1. Contract!Resolve(id)
    BY <1>2, <1>3, <1>4, <1>9 DEF Looks, Contract!Resolve
  <2>2. QED
    BY <2>1 DEF Contract!Next
<1>10. CASE /\ Ending(c) = "none"
            /\ \E how \in {"rejected", "returned"} : Looks(d, c.sent, c.received, FALSE, how)
  <2>1. Contract!CutOff(id)
    BY <1>2, <1>3, <1>4, <1>10 DEF Looks, Contract!CutOff
  <2>2. QED
    BY <2>1 DEF Contract!Next
<1>11. QED
  BY <1>5, <1>6, <1>7, <1>8, <1>9, <1>10 DEF ClientKeeps, c, d, h

(* And of a call whose handler moves from d to e, while its client is at c. *)
Heard(e, got, told, yielded, outcome) ==
  e.got = got /\ (e.reqs = "ended") = told /\ e.yielded = yielded /\ e.outcome = outcome
ServerKeeps(d, e, c) ==
  LET told == d.reqs = "ended" IN
  \/ Heard(e, d.got, told, d.yielded, d.outcome)
  \/ /\ d.outcome = "none" /\ ~told /\ Len(d.got) < c.sent
     /\ Heard(e, Append(d.got, Len(d.got) + 1), told, d.yielded, "none")
  \/ /\ d.outcome = "none" /\ ~MayAsk(c) /\ Len(d.got) = c.sent
     /\ Heard(e, d.got, TRUE, d.yielded, "none")
  \/ d.outcome = "none" /\ Heard(e, d.got, told, d.yielded + 1, "none")
  \/ /\ d.outcome = "none"
     /\ \E yielded \in {d.yielded, d.yielded + 1}, how \in {"ok", "failed", "silent"} :
          Heard(e, d.got, told, yielded, how)

(* Such a step is a step of the contract. *)
LEMMA ServerImplements ==
  ASSUME IInv, NEW id \in Id, UNCHANGED call, \A i \in Id : i # id => srv'[i] = srv[i],
         ServerKeeps(srv[id], srv'[id], call[id])
  PROVE  [Contract!Next]_(Contract!vars)
<1> DEFINE d == srv[id]  e == srv'[id]  c == call[id]  told == d.reqs = "ended"
<1>1. /\ Taken = [Taken EXCEPT ![id] = d.got] /\ Told = [Told EXCEPT ![id] = told]
      /\ Produced = [Produced EXCEPT ![id] = d.yielded]
      /\ Served = [Served EXCEPT ![id] = d.outcome]
      /\ Taken[id] = d.got /\ Told[id] = told /\ Produced[id] = d.yielded /\ Served[id] = d.outcome
  BY DEF Taken, Told, Produced, Served
<1>2. /\ Taken' = [Taken EXCEPT ![id] = e.got] /\ Told' = [Told EXCEPT ![id] = e.reqs = "ended"]
      /\ Produced' = [Produced EXCEPT ![id] = e.yielded]
      /\ Served' = [Served EXCEPT ![id] = e.outcome]
  BY DEF Taken, Told, Produced, Served
<1>3. /\ UNCHANGED <<Asking, Asked, Delivered, Result>>
      /\ Asked[id] = c.sent /\ Asking[id] = MayAsk(c)
  BY DEF Asking, Asked, Delivered, Result, MayAsk
<1>4. told \in BOOLEAN
  OBVIOUS
<1> HIDE DEF c, d, e, told
<1>5. CASE Heard(e, d.got, told, d.yielded, d.outcome)
  BY <1>1, <1>2, <1>3, <1>5 DEF Heard, Contract!vars
<1>6. CASE /\ d.outcome = "none" /\ ~told /\ Len(d.got) < c.sent
           /\ Heard(e, Append(d.got, Len(d.got) + 1), told, d.yielded, "none")
  <2>1. Contract!Take(id)
    BY <1>1, <1>2, <1>3, <1>4, <1>6 DEF Heard, Contract!Take, Contract!Next1
  <2>2. QED
    BY <2>1 DEF Contract!Next
<1>7. CASE /\ d.outcome = "none" /\ ~MayAsk(c) /\ Len(d.got) = c.sent
           /\ Heard(e, d.got, TRUE, d.yielded, "none")
  <2>1. Contract!TellEnd(id)
    BY <1>1, <1>2, <1>3, <1>7 DEF Heard, Contract!TellEnd
  <2>2. QED
    BY <2>1 DEF Contract!Next
<1>8. CASE d.outcome = "none" /\ Heard(e, d.got, told, d.yielded + 1, "none")
  <2>1. Contract!Produce(id)
    BY <1>1, <1>2, <1>3, <1>8 DEF Heard, Contract!Produce
  <2>2. QED
    BY <2>1 DEF Contract!Next
<1>9. CASE /\ d.outcome = "none"
           /\ \E yielded \in {d.yielded, d.yielded + 1}, how \in {"ok", "failed", "silent"} :
                Heard(e, d.got, told, yielded, how)
  <2>1. Contract!Serve(id)
    BY <1>1, <1>2, <1>3, <1>9 DEF Heard, Contract!Serve
  <2>2. QED
    BY <2>1 DEF Contract!Next
<1>10. QED
  BY <1>5, <1>6, <1>7, <1>8, <1>9 DEF ServerKeeps, c, d, e, told

(* A handler's step is one the contract allows.  It reads or it answers,   *)
(* never both.                                                             *)
LEMMA HandlersKeep ==
  ASSUME IInv, Bridge, NEW id \in Id, ServerContinue(id) \/ HandlerMoves(id)
  PROVE  ServerKeeps(srv[id], srv'[id], call[id])
<1> DEFINE d == srv[id]  e == srv'[id]  c == call[id]  pend == Pending(sStream[id])
           pend1 == Pending(sStream'[id])
<1>1. d \in Dispatch /\ \A x : (srv' = [srv EXCEPT ![id] = x]) => e = x
  BY DEF IInv, ServerPart
<1>2. Reads(d, e, pend, pend1) => e.yielded = d.yielded
  <2>1. CASE ServerCollect(id)
    BY <1>1, <2>1 DEF ServerCollect, SetSrv, Throw, Dispatch
  <2>2. CASE HandlerGot(id)
    BY <1>1, <2>2 DEF HandlerGot, SetSrv, Throw, Dispatch
  <2>3. CASE HandlerPull(id) \/ SettleDispatch(id)
    BY <1>1, <2>3 DEF HandlerPull, SettleDispatch, SetSrv, Dispatch
  <2>4. CASE HandlerThrow(id)
    BY <1>1, <2>4 DEF HandlerThrow, SetSrv, Throw, Dispatch
  <2>5. CASE HandlerYield(id) \/ HandlerFinish(id)
    <3>1. sStream[id] \in StreamObject
      BY DEF IInv, ServerPart
    <3>2. sStream'[id] = sStream[id] \/ sStream'[id] = SetState(sStream[id], "closed")
      BY <2>5 DEF HandlerYield, HandlerFinish, SetSStream, IInv, ServerPart
    <3>3. pend1 = pend /\ pend \in Seq(Flight)
      BY <3>1, <3>2, PendingSetState, RequestTypes
    <3>4. pend # <<>> => Len(Tail(pend)) # Len(pend)
      BY <3>3
    <3>5. QED
      BY <3>3, <3>4 DEF Reads
  <2>6. QED
    BY <2>1, <2>2, <2>3, <2>4, <2>5 DEF ServerContinue, HandlerMoves
<1>3. PICK frames : ServerMove(id, frames)
  BY ServerMoves DEF Bridge, Life, Alive
<1>4. Alive(id) /\ Fresh(id) /\ Requests(id)
  BY DEF Bridge, Life
<1>5. /\ Answers(id, d, e, sStream[id], sStream'[id], frames)
      /\ Rests(d, e, pend, pend1) \/ Reads(d, e, pend, pend1)
      /\ d.pc # "off"
  BY <1>3 DEF ServerMove
<1>6. CASE Rests(d, e, pend, pend1)
  <2>1. e.got = d.got /\ e.reqs = d.reqs
    BY <1>6 DEF Rests
  <2>2. \/ e.outcome = d.outcome /\ e.yielded = d.yielded
        \/ d.outcome = "none" /\ e.outcome = "none" /\ e.yielded = d.yielded + 1
        \/ /\ d.outcome = "none" /\ e.outcome \in {"ok", "failed", "silent"}
           /\ e.yielded \in {d.yielded, d.yielded + 1}
    <3>1. d.method \in {UNARY, CLIENT_STREAMING} /\ d.outcome = "none" => d.yielded = 0
      BY <1>4 DEF Alive
    <3>2. \/ e.outcome = d.outcome
          \/ d.outcome = "none" /\ e.outcome \in {"ok", "failed", "silent"}
      BY <1>6 DEF Rests
    <3>3. QED
      BY <1>5, <3>1, <3>2 DEF Answers
  <2>3. QED
    BY <2>1, <2>2 DEF ServerKeeps, Heard
<1>7. CASE Reads(d, e, pend, pend1)
  <2>1. d.outcome = "none" /\ d.reqs = "live" /\ pend # <<>>
    BY <1>7 DEF Reads
  <2>2. e.yielded = d.yielded
    BY <1>2, <1>7
  <2>3. MayAsk(c) = (c.snd = "pull")
    <3>1. c.pc # "idle"
      BY <1>4, <1>5 DEF Fresh, Untouched, NoDispatch
    <3>2. QED
      BY <3>1 DEF MayAsk
  <2>4. Due(d.got, pend, c.sent, c.snd # "pull")
    <3>1. Flow(d.got, pend, d.outcome = "none", Carried(toServer, id, "halfClose"), Reaches(id),
               c.sent, c.snd # "pull")
      BY <1>4 DEF Requests
    <3>2. d.got \in Seq(Nat) /\ pend \in Seq(Flight) /\ c.sent \in Nat
      BY RequestTypes
    <3> DEFINE over == c.snd # "pull"  open == d.outcome = "none"  live == Reaches(id)
    <3>3. over \in BOOLEAN /\ open \in BOOLEAN /\ live \in BOOLEAN /\ open
      BY <2>1 DEF Reaches
    <3>4. Flow(d.got, pend, open, Carried(toServer, id, "halfClose"), live, c.sent, over)
      BY <3>1
    <3> HIDE DEF over, open, live, d, c, pend
    <3>5. Due(d.got, pend, c.sent, over)
      BY <2>1, <3>2, <3>3, <3>4, FlowDue
    <3>6. QED
      BY <3>5 DEF over
  <2>5. CASE /\ Head(pend).type = "message"
             /\ e.got = Append(d.got, Head(pend).val) /\ e.outcome = "none" /\ e.reqs = "live"
    BY <2>1, <2>2, <2>4, <2>5 DEF Due, ServerKeeps, Heard
  <2>6. CASE /\ Head(pend).type = "end"
             /\ e.got = d.got /\ e.outcome = "none" /\ e.reqs = "ended"
    BY <2>1, <2>2, <2>3, <2>4, <2>6 DEF Due, ServerKeeps, Heard
  <2>7. CASE e.got = d.got /\ e.outcome \in {"none", "failed"} /\ e.reqs # "ended"
    BY <2>1, <2>2, <2>7 DEF ServerKeeps, Heard
  <2>8. QED
    BY <1>7, <2>5, <2>6, <2>7 DEF Reads
<1>8. QED
  BY <1>5, <1>6, <1>7

(* The same for the client.  Making a call asks once, opens the request    *)
(* stream, or fails at once.                                               *)
LEMMA StartsKeep ==
  ASSUME IInv, Tidy, Bridge, NEW id \in Id, ClientStart(id)
  PROVE  ClientKeeps(call[id], call'[id], srv[id])
<1>1. PICK p \in Calls, signal \in Signals, deadline \in Deadlines :
        \/ StartSingleRequest(id, p[1], p[2], signal, deadline)
        \/ StartRequestStream(id, p[1], p[2], signal, deadline)
        \/ StartFails(id, p[1], p[2], signal, deadline)
  BY DEF ClientStart
<1> DEFINE kind == p[1]  m == p[2]  new == NewCall(kind, signal, deadline)  d == call'[id]
           bare == NewCall(kind, signal, FALSE)
<1>2. /\ kind \in MethodType /\ deadline \in BOOLEAN /\ signal \in {"none", "armed", "aborted"}
  BY ClientAssumption
<1>3. call[id] = NoCall /\ \A c : (call' = [call EXCEPT ![id] = c]) => d = c
  <2>1. EnsureOpen(id)
    BY <1>1 DEF StartSingleRequest, StartRequestStream, StartFails
  <2>2. call[id].pc = "idle"
    BY <2>1, IdIsNat DEF Tidy, ClientTidy, EnsureOpen
  <2>3. QED
    BY <2>2 DEF Bridge, Life, Fresh, IInv, ClientPart
<1> HIDE DEF kind, m
<1>4. new \in Call /\ new.received = <<>> /\ new.snd = "off" /\ new.sent = 0
  BY <1>2, NewCallFields
<1>5. bare \in Call /\ bare.received = <<>> /\ bare.snd = "off" /\ bare.sent = 0
  <2>1. FALSE \in BOOLEAN
    OBVIOUS
  <2>2. QED
    BY <1>2, <2>1, NewCallFields
<1> HIDE DEF new, bare
<1>6. /\ MayAsk(NoCall) /\ Ending(NoCall) = "none" /\ NoCall.sent = 0 /\ NoCall.received = <<>>
  BY DEF MayAsk, Ending, NoCall
<1>7. CASE StartSingleRequest(id, kind, m, signal, deadline)
  <2>1. d = [new EXCEPT !.pc = IF kind = UNARY THEN "first" ELSE "iter", !.sent = 1]
    BY <1>3, <1>7 DEF StartSingleRequest, SetCall, new
  <2>2. /\ d.pc \in {"first", "iter"} /\ d.snd = "off" /\ d.sent = 1 /\ d.received = <<>>
    BY <1>4, <2>1 DEF Call
  <2>3. Looks(d, NoCall.sent + 1, NoCall.received, FALSE, "none")
    BY <1>6, <2>2 DEF Looks, MayAsk, Ending
  <2>4. QED
    BY <1>3, <1>6, <2>3 DEF ClientKeeps
<1>8. CASE StartRequestStream(id, kind, m, signal, deadline)
  <2>1. d = [new EXCEPT !.pc = IF kind = BIDI_STREAMING THEN "iter" ELSE "send", !.snd = "pull"]
    BY <1>3, <1>8 DEF StartRequestStream, SetCall, new
  <2>2. /\ d.pc \in {"send", "iter"} /\ d.snd = "pull" /\ d.sent = 0 /\ d.received = <<>>
    BY <1>4, <2>1 DEF Call
  <2>3. Looks(d, NoCall.sent, NoCall.received, MayAsk(NoCall), Ending(NoCall))
    BY <1>6, <2>2 DEF Looks, MayAsk, Ending
  <2>4. QED
    BY <1>3, <2>3 DEF ClientKeeps
<1>9. CASE StartFails(id, kind, m, signal, deadline)
  <2> DEFINE c == Cleanup(bare)
  <2>1. d = [c EXCEPT !.pc = "done", !.outcome = "rejected", !.code = LocalError]
    BY <1>3, <1>9 DEF StartFails, SetCall, bare
  <2>2. c \in Call /\ c.received = <<>> /\ c.snd = "off" /\ c.sent = 0
    BY <1>5 DEF Cleanup, Call
  <2> HIDE DEF c
  <2>3. /\ d.pc = "done" /\ d.outcome = "rejected" /\ d.snd = "off" /\ d.sent = 0
        /\ d.received = <<>>
    BY <2>1, <2>2 DEF Call
  <2>4. Looks(d, NoCall.sent, NoCall.received, FALSE, "rejected")
    BY <1>6, <2>3 DEF Looks, MayAsk, Ending
  <2>5. QED
    BY <1>3, <1>6, <2>4 DEF ClientKeeps
<1>10. QED
  BY <1>1, <1>7, <1>8, <1>9 DEF kind, m

(* Giving the application a response, or its own next or return, leaves    *)
(* the requests alone.                                                     *)
LEMMA ConsumingKeeps ==
  ASSUME call \in [Id -> Call], NEW id \in Id,
         CollectUnary(id) \/ Iterate(id) \/ AppNext(id) \/ AppReturn(id)
  PROVE  LET c == call[id]  d == call'[id] IN
         d.sent = c.sent /\ d.snd = c.snd /\ c.pc # "done" /\ d.pc # "done"
<1> DEFINE c == call[id]  item == cStream[id].hand
           G(pc) == [c EXCEPT !.pc = pc, !.received = Append(@, item.val)]
           go == [c EXCEPT !.pc = "iter"]
<1>1. c \in Call /\ \A x : SetCall(id, x) => call'[id] = x
  BY DEF SetCall
<1>2. c.pc \in {"first", "second", "iter", "yield"}
  BY DEF CollectUnary, Iterate, AppNext, AppReturn
<1>3. \/ SetCall(id, G("second")) \/ SetCall(id, G("yield")) \/ SetCall(id, go)
      \/ \E how, code : SetCall(id, Decide(c, how, code))
  <2>1. CASE CollectUnary(id)
    BY <2>1 DEF CollectUnary
  <2>2. CASE Iterate(id)
    BY <2>2 DEF Iterate
  <2>3. CASE AppNext(id)
    BY <2>3 DEF AppNext
  <2>4. CASE AppReturn(id)
    BY <2>4 DEF AppReturn
  <2>5. QED
    BY <2>1, <2>2, <2>3, <2>4
<1>4. \A pc \in {"second", "yield"} : G(pc).sent = c.sent /\ G(pc).snd = c.snd /\ G(pc).pc = pc
  BY <1>1 DEF Call
<1>5. go.sent = c.sent /\ go.snd = c.snd /\ go.pc = "iter"
  BY <1>1 DEF Call
<1> HIDE DEF c, item, G, go
<1>6. call'[id].sent = c.sent /\ call'[id].snd = c.snd /\ call'[id].pc # "done"
  BY <1>1, <1>3, <1>4, <1>5, Decided
<1>7. QED
  BY <1>2, <1>6 DEF c

(* The loop over the requests, the signal and the deadline leave the       *)
(* responses alone.                                                        *)
LEMMA AskingKeeps ==
  ASSUME call \in [Id -> Call], NEW id \in Id, call[id].pc # "done",
         \/ SendRequest(id) \/ EndRequests(id) \/ RequestsThrow(id)
         \/ Abort(id) \/ DeadlineFires(id)
  PROVE  call'[id].received = call[id].received /\ call'[id].pc # "done"
<1> DEFINE c == call[id]  over == [c EXCEPT !.snd = "done"]  first == [over EXCEPT !.pc = "first"]
           more == [c EXCEPT !.sent = c.sent + 1]  gone == [c EXCEPT !.signal = "aborted"]
           late == [c EXCEPT !.timer = FALSE]
<1>1. c \in Call /\ \A x : SetCall(id, x) => call'[id] = x
  BY DEF SetCall
<1>2. \/ SetCall(id, over) \/ SetCall(id, first)
      \/ SetCall(id, Decide(over, "rejected", LocalError))
      \/ SetCall(id, more) \/ SetCall(id, gone) \/ SetCall(id, late)
  <2>1. CASE SendRequest(id)
    BY <2>1 DEF SendRequest, StopSending, SendingThrows
  <2>2. CASE EndRequests(id)
    BY <2>2 DEF EndRequests, StopSending, SendingThrows
  <2>3. CASE RequestsThrow(id)
    BY <2>3 DEF RequestsThrow, SendingThrows
  <2>4. CASE Abort(id)
    BY <2>4 DEF Abort
  <2>5. CASE DeadlineFires(id)
    BY <2>5 DEF DeadlineFires
  <2>6. QED
    BY <2>1, <2>2, <2>3, <2>4, <2>5
<1>3. over \in Call /\ over.received = c.received /\ over.pc = c.pc
  BY <1>1 DEF Call
<1>4. /\ more.received = c.received /\ more.pc = c.pc /\ gone.received = c.received
      /\ gone.pc = c.pc /\ late.received = c.received /\ late.pc = c.pc
  BY <1>1 DEF Call
<1> HIDE DEF c, over, more, gone, late
<1>5. first.received = c.received /\ first.pc = "first"
  BY <1>3 DEF Call
<1> HIDE DEF first
<1>6. QED
  BY <1>1, <1>2, <1>3, <1>4, <1>5, Decided DEF c

(* While a call runs, it asks or it is given a response, never both; and   *)
(* it ends when catch and finally run.                                     *)
LEMMA CallsKeep ==
  ASSUME IInv, Tidy, Bridge, NEW id \in Id,
         \/ ClientContinue(id) \/ AppNext(id) \/ AppReturn(id)
         \/ SendRequest(id) \/ EndRequests(id) \/ RequestsThrow(id)
         \/ Abort(id) \/ DeadlineFires(id)
  PROVE  ClientKeeps(call[id], call'[id], srv[id])
<1> DEFINE c == call[id]  d == call'[id]  h == srv[id]  pend == Pending(cStream[id])
           pend1 == Pending(cStream'[id])
<1>1. c \in Call /\ \A x : (call' = [call EXCEPT ![id] = x]) => d = x
  BY DEF IInv, ClientPart, GoodCall
<1>2. Alive(id) /\ Responses(id) /\ LetGo(c)
  BY DEF Bridge, Life, Tidy, ClientTidy
<1>3. Deciding(call[id]) /\ (call[id].pc = "idle" => call[id] = NoCall)
  BY DEF Bridge, Life, Alive, Fresh
<1>4. PICK frames : ClientMove(id, frames)
  <2> HIDE DEF c, d, h, pend, pend1
  <2>1. QED
    BY <1>3, ClientMoves
<1>5. /\ Says(id, c, d, frames) /\ Hears(c, d, pend, pend1)
      /\ c.pc # "idle" /\ d.pc # "idle"
  BY <1>4 DEF ClientMove
<1>6. MayAsk(c) = (c.snd = "pull") /\ MayAsk(d) = (d.snd = "pull")
  BY <1>5 DEF MayAsk
<1>7. CASE SettleCall(id)
  <2>1. /\ c.pc = "settle" /\ c.snd # "pull" /\ d = Cleanup([c EXCEPT !.pc = "done"])
    BY <1>1, <1>7 DEF SettleCall, RequestLoopOver, SetCall
  <2> DEFINE x == [c EXCEPT !.pc = "done"]
  <2>2. /\ x \in Call /\ x.pc = "done" /\ x.snd = c.snd /\ x.sent = c.sent
        /\ x.received = c.received /\ x.outcome = c.outcome
    BY <1>1 DEF Call
  <2> HIDE DEF x
  <2>3. /\ d.pc = "done" /\ d.snd = c.snd /\ d.sent = c.sent /\ d.received = c.received
        /\ d.outcome = c.outcome
    <3>1. d = Cleanup(x)
      BY <2>1 DEF x
    <3>2. QED
      BY <2>2, <3>1 DEF Cleanup, Call
  <2>4. Looks(d, c.sent, c.received, FALSE, c.outcome) /\ ~MayAsk(c)
    BY <1>6, <2>1, <2>3 DEF Looks, Ending
  <2>5. Ending(c) = "none"
    BY <2>1 DEF Ending
  <2>6. c.outcome \in {"resolved", "rejected", "returned"}
    BY <1>1, <1>2, <2>1 DEF Alive, Deciding, Call
  <2>7. c.outcome = "resolved" => Len(c.received) = h.yielded /\ h.outcome = "ok"
    BY <1>2 DEF Responses
  <2>8. MayAsk(c) = FALSE
    BY <1>6, <2>1
  <2>9. QED
    <3> HIDE DEF c, d, h
    <3>1. CASE c.outcome = "resolved"
      BY <2>4, <2>5, <2>7, <2>8, <3>1 DEF ClientKeeps, c, d, h
    <3>2. CASE c.outcome \in {"rejected", "returned"}
      BY <2>4, <2>5, <3>2 DEF ClientKeeps, c, d, h
    <3>3. QED
      BY <2>6, <3>1, <3>2
<1>8. CASE CollectUnary(id) \/ Iterate(id) \/ AppNext(id) \/ AppReturn(id)
  <2>1. d.sent = c.sent /\ d.snd = c.snd /\ c.pc # "done" /\ d.pc # "done"
    <3>1. call \in [Id -> Call]
      BY DEF IInv, ClientPart, GoodCall
    <3>2. QED
      BY <1>8, <3>1, ConsumingKeeps
  <2>2. \/ d.received = c.received
        \/ /\ c.outcome = "none" /\ pend # <<>> /\ Head(pend).type = "message"
           /\ d.received = Append(c.received, Head(pend).val)
    BY <1>5 DEF Hears, Keeps, Quits, Takes
  <2>3. c.outcome = "none" /\ pend # <<>> => Due(c.received, pend, h.yielded, h.outcome = "ok")
    <3> SUFFICES ASSUME c.outcome = "none", pend # <<>>
                 PROVE  Due(c.received, pend, h.yielded, h.outcome = "ok")
      OBVIOUS
    <3> DEFINE over == h.outcome = "ok"  open == c.outcome = "none"  live == id \in cStreams
    <3>1. Flow(c.received, pend, open, Carried(toClient, id, "close"), live, h.yielded, over)
      BY <1>2 DEF Responses
    <3>2. c.received \in Seq(Nat) /\ pend \in Seq(Flight) /\ h.yielded \in Nat
      BY ResponseTypes
    <3>3. over \in BOOLEAN /\ open \in BOOLEAN /\ live \in BOOLEAN /\ open /\ pend # <<>>
      OBVIOUS
    <3> HIDE DEF over, open, live, h, c, pend
    <3>4. Due(c.received, pend, h.yielded, over)
      BY <3>1, <3>2, <3>3, FlowDue
    <3>5. QED
      BY <3>4 DEF over
  <2>4. Ending(c) = "none" /\ Ending(d) = "none" /\ MayAsk(d) = MayAsk(c)
    BY <1>6, <2>1 DEF Ending
  <2>5. QED
    BY <2>1, <2>2, <2>3, <2>4 DEF Due, ClientKeeps, Looks
<1>9. CASE SendRequest(id) \/ EndRequests(id) \/ RequestsThrow(id) \/ Abort(id) \/ DeadlineFires(id)
  <2>1. d.received = c.received /\ c.pc # "done" /\ d.pc # "done"
    <3>1. c.pc # "done"
      BY <1>2, <1>9 DEF LetGo, SendRequest, EndRequests, RequestsThrow, Abort, DeadlineFires
    <3>2. call \in [Id -> Call]
      BY DEF IInv, ClientPart, GoodCall
    <3>3. QED
      BY <1>9, <3>1, <3>2, AskingKeeps
  <2>2. Ending(c) = "none" /\ Ending(d) = "none"
    BY <2>1 DEF Ending
  <2>3. \/ d.sent = c.sent /\ (MayAsk(d) => MayAsk(c))
        \/ d.sent = c.sent + 1 /\ MayAsk(c) /\ MayAsk(d)
    BY <1>5, <1>6 DEF Says
  <2>4. MayAsk(c) \in BOOLEAN /\ MayAsk(d) \in BOOLEAN
    BY <1>6
  <2> HIDE DEF c, d, h, pend, pend1
  <2>5. CASE d.sent = c.sent /\ (MayAsk(d) => MayAsk(c))
    <3>1. MayAsk(d) = MayAsk(c) \/ (MayAsk(c) /\ MayAsk(d) = FALSE)
      BY <2>4, <2>5
    <3>2. \/ Looks(d, c.sent, c.received, MayAsk(c), Ending(c))
          \/ MayAsk(c) /\ Looks(d, c.sent, c.received, FALSE, Ending(c))
      BY <2>1, <2>2, <2>5, <3>1 DEF Looks
    <3>3. QED
      BY <3>2 DEF ClientKeeps, c, d, h
  <2>6. CASE d.sent = c.sent + 1 /\ MayAsk(c) /\ MayAsk(d)
    <3>1. MayAsk(d) = TRUE
      BY <2>4, <2>6
    <3>2. Looks(d, c.sent + 1, c.received, TRUE, "none")
      BY <2>1, <2>2, <2>6, <3>1 DEF Looks
    <3>3. QED
      BY <2>2, <2>6, <3>2 DEF ClientKeeps, c, d, h
  <2>7. QED
    BY <2>3, <2>5, <2>6
<1>10. QED
  BY <1>7, <1>8, <1>9 DEF ClientContinue

(* Every behaviour of the bridge is one the contract allows.               *)
THEOREM BridgeMeetsContract == Spec => ImplementsContract
<1>1. Init => Contract!Init
  <2> SUFFICES ASSUME Init  PROVE Contract!Init
    OBVIOUS
  <2>1. call = [id \in Id |-> NoCall] /\ srv = [id \in Id |-> NoDispatch]
    BY DEF Init, ClientInit, ServerInit
  <2>2. /\ NoCall.pc = "idle" /\ NoCall.sent = 0 /\ NoCall.received = <<>>
        /\ NoDispatch.got = <<>> /\ NoDispatch.reqs # "ended" /\ NoDispatch.yielded = 0
        /\ NoDispatch.outcome = "none"
    BY DEF NoCall, NoDispatch
  <2> HIDE DEF NoCall, NoDispatch
  <2>3. Asking = [id \in Id |-> TRUE] /\ Result = [id \in Id |-> "none"]
    BY <2>1, <2>2 DEF Asking, Result
  <2>4. Asked = [id \in Id |-> 0] /\ Delivered = [id \in Id |-> <<>>]
    BY <2>1, <2>2 DEF Asked, Delivered
  <2>5. Taken = [id \in Id |-> <<>>] /\ Told = [id \in Id |-> FALSE]
    BY <2>1, <2>2 DEF Taken, Told
  <2>6. Produced = [id \in Id |-> 0] /\ Served = [id \in Id |-> "none"]
    BY <2>1, <2>2 DEF Produced, Served
  <2>7. QED
    BY <2>3, <2>4, <2>5, <2>6 DEF Contract!Init
<1>2. ASSUME IInv, Tidy, Bridge, [Next]_vars
      PROVE  [Contract!Next]_(Contract!vars)
  <2>1. ASSUME UNCHANGED <<call, srv>>
        PROVE  UNCHANGED Contract!vars
    BY <2>1 DEF Contract!vars, Asking, Asked, Delivered, Result, Taken, Told, Produced, Served
  <2>2. CASE ClientStep
    <3>1. ClientNext /\ UNCHANGED <<srv>>
      BY <2>2 DEF ClientStep, serverVars
    <3>2. ASSUME NEW id \in Id,
                 \/ ClientStart(id) \/ ClientContinue(id) \/ AppNext(id) \/ AppReturn(id)
                 \/ SendRequest(id) \/ EndRequests(id) \/ RequestsThrow(id)
                 \/ Abort(id) \/ DeadlineFires(id)
          PROVE  [Contract!Next]_(Contract!vars)
      <4>1. ClientKeeps(call[id], call'[id], srv[id])
        BY <1>2, <3>2, StartsKeep, CallsKeep
      <4>2. \A i \in Id : i # id => call'[i] = call[i]
        <5>1. \A k \in Id : Sane(k)
          BY <1>2 DEF Bridge, Life, Alive, Fresh, Sane
        <5>2. CASE ClientStart(id)
          BY <1>2, <5>2, StartMoves DEF StartMove
        <5>3. CASE ~ClientStart(id)
          BY <1>2, <3>2, <5>1, <5>3, ClientMoves DEF ClientMove, Sane
        <5>4. QED
          BY <5>2, <5>3
      <4>3. QED
        BY <1>2, <3>1, <4>1, <4>2, ClientImplements
    <3>3. CASE ClientHandleFrame \/ ClientClose \/ ClientTransportError
      BY <2>1, <3>1, <3>3 DEF ClientHandleFrame, ClientClose, ClientTransportError,
         CancelAllClientStreams
    <3>4. QED
      BY <3>1, <3>2, <3>3 DEF ClientNext
  <2>3. CASE ServerStep
    <3>1. ServerNext /\ UNCHANGED <<call>>
      BY <2>3 DEF ServerStep, clientVars
    <3>2. ASSUME NEW id \in Id, ServerContinue(id) \/ HandlerMoves(id)
          PROVE  [Contract!Next]_(Contract!vars)
      <4>1. ServerKeeps(srv[id], srv'[id], call[id])
        BY <1>2, <3>2, HandlersKeep
      <4>2. \A i \in Id : i # id => srv'[i] = srv[i]
        BY <1>2, <3>2, ServerMoves DEF ServerMove, Bridge, Life, Alive
      <4>3. QED
        BY <1>2, <3>1, <4>1, <4>2, ServerImplements
    <3>3. CASE ServerHandleFrame
      <4>1. PICK f, i : f = Head(toServer) /\ i = f.streamId
        OBVIOUS
      <4>2. /\ i \in Id /\ toServer # <<>> /\ toServer \in Seq(Frame(Id))
            /\ \/ \E code : Refused(f, code)
               \/ \E d, t : Accepted(f, d, t)
               \/ HandleStreamFrame(f)
        BY <1>2, <3>3, <4>1, ServerFrames DEF IInv, WireTypeOK
      <4>3. CASE (\E code : Refused(f, code)) \/ HandleStreamFrame(f)
        BY <2>1, <3>1, <4>3 DEF Refused, HandleStreamFrame, serverVars
      <4>4. ASSUME NEW d, NEW t, Accepted(f, d, t)
            PROVE  [Contract!Next]_(Contract!vars)
        <5>1. f.body = "open" /\ f \in Of(toServer, i)
          BY <4>1, <4>2, <4>4, OfTail DEF Accepted
        <5>2. srv[i] = NoDispatch
          BY <1>2, <4>2, <5>1 DEF Bridge, Life, Fresh, Opening, Untouched
        <5>3. /\ srv'[i] = d /\ \A k \in Id : k # i => srv'[k] = srv[k]
              /\ d.outcome = "none" /\ d.reqs = "live" /\ d.got = <<>> /\ d.yielded = 0
          BY <1>2, <4>1, <4>2, <4>4 DEF Accepted, IInv, ServerPart
        <5>4. ServerKeeps(srv[i], srv'[i], call[i])
          BY <5>2, <5>3 DEF ServerKeeps, Heard, NoDispatch
        <5>5. QED
          BY <1>2, <3>1, <4>2, <5>3, <5>4, ServerImplements
      <4>5. QED
        BY <4>2, <4>3, <4>4
    <3>4. CASE ServerClose \/ ServerTransportError
      BY <2>1, <3>1, <3>4 DEF ServerClose, ServerTransportError, CancelAllServerStreams
    <3>5. QED
      BY <3>1, <3>2, <3>3, <3>4 DEF ServerNext
  <2>4. CASE UNCHANGED vars
    BY <2>1, <2>4 DEF vars, clientVars, serverVars
  <2>5. QED
    BY <1>2, <2>2, <2>3, <2>4 DEF Next, Terminated
<1>3. QED
  BY <1>1, <1>2, BridgeInvariance, PTL DEF Spec, ImplementsContract, Contract!Spec
=============================================================================
