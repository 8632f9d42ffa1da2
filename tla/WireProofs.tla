----------------------------- MODULE WireProofs ------------------------------
(***************************************************************************)
(* Proofs about what travels between the two sides of a call.  The         *)
(* inductive invariant follows each direction from the sender's counter,   *)
(* over the wire and the receiver's stream, to what the receiver was given *)
(* (Flow in StreamProofs), and says what the frames on the wires and the   *)
(* errors on the streams imply of those who sent them.                     *)
(***************************************************************************)
EXTENDS LifecycleProofs

(***************************************************************************)
(* The frames of one stream on a wire, and the items they carry.           *)
(***************************************************************************)
Of(q, id) == {q[k] : k \in {k \in 1..Len(q) : q[k].streamId = id}}

Item(f, last) == IF f.body = "message" THEN Message(f.arg)
                 ELSE IF f.body = last THEN End ELSE NoItem
Carried(q, id, last) ==
  [k \in 1..Len(q) |-> IF q[k].streamId = id THEN Item(q[k], last) ELSE NoItem]

Ordered(q) == \A j \in 1..Len(q) : \A i \in 1..j - 1 :
                q[i].streamId = q[j].streamId => MayFollow(q[i], q[j])

(* A frame is of a stream of a concatenation when it is of one of its parts. *)
LEMMA OfConcat ==
  ASSUME NEW q \in Seq(Frame(Id)), NEW r \in Seq(Frame(Id)), NEW id
  PROVE  Of(q \o r, id) = Of(q, id) \cup Of(r, id)
<1> DEFINE w == q \o r
<1>1. /\ Len(w) = Len(q) + Len(r) /\ Len(q) \in Nat /\ Len(r) \in Nat
      /\ \A k \in 1..Len(q) : w[k] = q[k] /\ k \in 1..Len(w)
      /\ \A k \in 1..Len(r) : w[k + Len(q)] = r[k] /\ k + Len(q) \in 1..Len(w)
      /\ \A k \in Len(q) + 1..Len(w) : w[k] = r[k - Len(q)] /\ k - Len(q) \in 1..Len(r)
  OBVIOUS
<1> HIDE DEF w
<1>2. \A k \in 1..Len(w) : k \in 1..Len(q) \/ k \in Len(q) + 1..Len(w)
  BY <1>1
<1>3. ASSUME NEW f \in Of(w, id)
      PROVE  f \in Of(q, id) \cup Of(r, id)
  <2>1. PICK k \in 1..Len(w) : f = w[k] /\ w[k].streamId = id
    BY DEF Of
  <2>2. CASE k \in 1..Len(q)
    BY <1>1, <2>1, <2>2 DEF Of
  <2>3. CASE k \in Len(q) + 1..Len(w)
    BY <1>1, <2>1, <2>3 DEF Of
  <2>4. QED
    BY <1>2, <2>2, <2>3
<1>4. ASSUME NEW f \in Of(q, id)
      PROVE  f \in Of(w, id)
  <2>1. PICK k \in 1..Len(q) : f = q[k] /\ q[k].streamId = id
    BY DEF Of
  <2>2. QED
    BY <1>1, <2>1 DEF Of
<1>5. ASSUME NEW f \in Of(r, id)
      PROVE  f \in Of(w, id)
  <2>1. PICK k \in 1..Len(r) : f = r[k] /\ r[k].streamId = id
    BY DEF Of
  <2>2. QED
    BY <1>1, <2>1 DEF Of
<1>6. QED
  BY <1>3, <1>4, <1>5 DEF w

(* The rest of a wire and its first frame. *)
LEMMA OfTail ==
  ASSUME NEW q \in Seq(Frame(Id)), q # <<>>, NEW id
  PROVE  /\ Of(Tail(q), id) \subseteq Of(q, id)
         /\ Head(q).streamId = id => Head(q) \in Of(q, id)
         /\ \A f \in Of(q, id) : f \in Of(Tail(q), id) \/ (f = Head(q) /\ f.streamId = id)
<1> DEFINE t == Tail(q)
<1>1. /\ Len(q) = Len(t) + 1 /\ Len(t) \in Nat /\ Head(q) = q[1] /\ 1 \in 1..Len(q)
      /\ \A k \in 1..Len(t) : t[k] = q[k + 1] /\ k + 1 \in 1..Len(q)
      /\ \A k \in 1..Len(q) : k = 1 \/ (k - 1 \in 1..Len(t) /\ q[k] = t[k - 1])
  OBVIOUS
<1> HIDE DEF t
<1>2. ASSUME NEW f \in Of(t, id)
      PROVE  f \in Of(q, id)
  <2>1. PICK k \in 1..Len(t) : f = t[k] /\ t[k].streamId = id
    BY DEF Of
  <2>2. QED
    BY <1>1, <2>1 DEF Of
<1>3. ASSUME NEW f \in Of(q, id)
      PROVE  f \in Of(t, id) \/ (f = Head(q) /\ f.streamId = id)
  <2>1. PICK k \in 1..Len(q) : f = q[k] /\ q[k].streamId = id
    BY DEF Of
  <2>2. QED
    BY <1>1, <2>1 DEF Of
<1>4. Head(q).streamId = id => Head(q) \in Of(q, id)
  BY <1>1 DEF Of
<1>5. QED
  BY <1>2, <1>3, <1>4 DEF t

(* The frames a side posts for one of its streams. *)
LEMMA OfOwn ==
  ASSUME NEW id \in Id, NEW frames, Own(id, frames)
  PROVE  /\ \A i \in Id : i # id => Of(frames, i) = {}
         /\ \A f \in Of(frames, id) : \E k \in 1..Len(frames) : f = frames[k]
         /\ Of(<<>>, id) = {}
<1>1. \A k \in 1..Len(frames) : frames[k].streamId = id
  BY DEF Own
<1>2. \A i \in Id : i # id => {k \in 1..Len(frames) : frames[k].streamId = i} = {}
  BY <1>1
<1>3. \A i \in Id : i # id => Of(frames, i) = {}
  BY <1>2, Zenon DEF Of
<1>4. \A f \in Of(frames, id) : \E k \in 1..Len(frames) : f = frames[k]
  BY DEF Of
<1>5. Of(<<>>, id) = {}
  <2>1. {k \in 1..Len(<<>>) : <<>>[k].streamId = id} = {}
    OBVIOUS
  <2>2. QED
    BY <2>1, Zenon DEF Of
<1>6. QED
  BY <1>3, <1>4, <1>5

(* Items are items. *)
LEMMA CarriedTyped ==
  ASSUME NEW q \in Seq(Frame(Id)), NEW id, NEW last
  PROVE  Carried(q, id, last) \in Seq(Flight) /\ Len(Carried(q, id, last)) = Len(q)
<1>1. ASSUME NEW k \in 1..Len(q)
      PROVE  (IF q[k].streamId = id THEN Item(q[k], last) ELSE NoItem) \in Flight
  <2>1. q[k] \in Frame(Id)
    OBVIOUS
  <2>2. q[k].arg \in Nat
    BY <2>1 DEF Frame
  <2>3. Item(q[k], last) \in Flight
    BY <2>2 DEF Item, Message, End, NoItem, Flight, QueueItem
  <2>4. QED
    BY <2>3 DEF Flight
<1> DEFINE I(k) == IF q[k].streamId = id THEN Item(q[k], last) ELSE NoItem
<1>2. Carried(q, id, last) = [k \in 1..Len(q) |-> I(k)]
  BY DEF Carried
<1>3. \A k \in 1..Len(q) : I(k) \in Flight
  BY <1>1
<1>4. Len(q) \in Nat
  OBVIOUS
<1> HIDE DEF I
<1>5. QED
  BY <1>2, <1>3, <1>4

(* What a concatenation carries. *)
LEMMA CarriedConcat ==
  ASSUME NEW q \in Seq(Frame(Id)), NEW r \in Seq(Frame(Id)), NEW id, NEW last
  PROVE  Carried(q \o r, id, last) = Carried(q, id, last) \o Carried(r, id, last)
<1> DEFINE w == q \o r
           I(f) == IF f.streamId = id THEN Item(f, last) ELSE NoItem
           cw == Carried(w, id, last)  cq == Carried(q, id, last)  cr == Carried(r, id, last)
<1>1. /\ w \in Seq(Frame(Id)) /\ Len(w) = Len(q) + Len(r) /\ Len(q) \in Nat /\ Len(r) \in Nat
      /\ \A k \in 1..Len(q) : w[k] = q[k]
      /\ \A k \in Len(q) + 1..Len(w) : w[k] = r[k - Len(q)]
  OBVIOUS
<1>2. /\ cw = [k \in 1..Len(w) |-> I(w[k])]
      /\ cq = [k \in 1..Len(q) |-> I(q[k])]
      /\ cr = [k \in 1..Len(r) |-> I(r[k])]
  BY DEF Carried
<1>3. /\ cw \in Seq(Flight) /\ Len(cw) = Len(w)
      /\ cq \in Seq(Flight) /\ Len(cq) = Len(q)
      /\ cr \in Seq(Flight) /\ Len(cr) = Len(r)
  BY <1>1, CarriedTyped
<1> HIDE DEF w, I, cw, cq, cr
<1>4. /\ cq \o cr \in Seq(Flight) /\ Len(cq \o cr) = Len(w)
      /\ \A k \in 1..Len(q) : (cq \o cr)[k] = cq[k]
      /\ \A k \in Len(q) + 1..Len(w) : (cq \o cr)[k] = cr[k - Len(q)]
  <2>1. Len(w) = Len(cq) + Len(cr) /\ Len(q) = Len(cq)
    BY <1>1, <1>3
  <2>2. /\ cq \o cr \in Seq(Flight) /\ Len(cq \o cr) = Len(cq) + Len(cr)
        /\ \A k \in 1..Len(cq) : (cq \o cr)[k] = cq[k]
        /\ \A k \in Len(cq) + 1..Len(cq) + Len(cr) : (cq \o cr)[k] = cr[k - Len(cq)]
    <3>1. cq \in Seq(Flight) /\ cr \in Seq(Flight)
      BY <1>3
    <3>2. QED
      BY <3>1
  <2>3. QED
    BY <2>1, <2>2
<1>5. ASSUME NEW k \in 1..Len(cw)
      PROVE  cw[k] = (cq \o cr)[k]
  <2>1. k \in 1..Len(w) /\ cw[k] = I(w[k])
    BY <1>2, <1>3
  <2>2. CASE k \in 1..Len(q)
    BY <1>1, <1>2, <1>4, <2>1, <2>2
  <2>3. CASE k \in Len(q) + 1..Len(w)
    <3>1. k - Len(q) \in 1..Len(r)
      BY <1>1, <2>3
    <3>2. QED
      BY <1>1, <1>2, <1>4, <2>1, <2>3, <3>1
  <2>4. k \in 1..Len(q) \/ k \in Len(q) + 1..Len(w)
    BY <1>1, <2>1
  <2>5. QED
    BY <2>2, <2>3, <2>4
<1>6. cw = cq \o cr
  BY <1>3, <1>4, <1>5, SeqEqual
<1>7. QED
  BY <1>6 DEF w, cw, cq, cr

(* What the rest of a wire carries. *)
LEMMA CarriedTail ==
  ASSUME NEW q \in Seq(Frame(Id)), q # <<>>, NEW id, NEW last
  PROVE  /\ Carried(q, id, last) # <<>>
         /\ Carried(Tail(q), id, last) = Tail(Carried(q, id, last))
         /\ Head(Carried(q, id, last)) =
              IF Head(q).streamId = id THEN Item(Head(q), last) ELSE NoItem
<1> DEFINE t == Tail(q)
           I(f) == IF f.streamId = id THEN Item(f, last) ELSE NoItem
           ct == Carried(t, id, last)  cq == Carried(q, id, last)
<1>1. /\ t \in Seq(Frame(Id)) /\ Len(q) = Len(t) + 1 /\ Len(t) \in Nat /\ Head(q) = q[1]
      /\ \A k \in 1..Len(t) : t[k] = q[k + 1] /\ k + 1 \in 1..Len(q)
  OBVIOUS
<1>2. /\ ct = [k \in 1..Len(t) |-> I(t[k])]
      /\ cq = [k \in 1..Len(q) |-> I(q[k])]
  BY DEF Carried
<1>3. /\ ct \in Seq(Flight) /\ Len(ct) = Len(t)
      /\ cq \in Seq(Flight) /\ Len(cq) = Len(q)
  BY <1>1, CarriedTyped
<1>4. Head(q) = q[1] /\ 1 \in 1..Len(q)
  BY <1>1
<1> HIDE DEF t, I, ct, cq
<1>5. cq # <<>> /\ Head(cq) = cq[1] /\ cq[1] = I(q[1])
  BY <1>1, <1>2, <1>3, <1>4
<1>6. /\ Tail(cq) \in Seq(Flight) /\ Len(Tail(cq)) = Len(t)
      /\ \A k \in 1..Len(t) : Tail(cq)[k] = cq[k + 1]
  BY <1>1, <1>3, <1>5
<1>7. ASSUME NEW k \in 1..Len(ct)
      PROVE  ct[k] = Tail(cq)[k]
  BY <1>1, <1>2, <1>3, <1>6
<1>8. ct = Tail(cq)
  BY <1>3, <1>6, <1>7, SeqEqual
<1>9. QED
  BY <1>4, <1>5, <1>8 DEF t, I, ct, cq

(* A wire that carries nothing to a stream. *)
LEMMA CarriedNone ==
  ASSUME NEW q \in Seq(Frame(Id)), NEW id, NEW last, NEW n \in Nat,
         \A f \in Of(q, id) : f.body # "message" /\ f.body # last
  PROVE  Run(Carried(q, id, last), n, n) /\ ~Tells(Carried(q, id, last))
<1> DEFINE c == Carried(q, id, last)
<1>1. c \in Seq(Flight) /\ Len(c) = Len(q)
  BY CarriedTyped
<1>2. \A k \in 1..Len(q) : c[k] = NoItem
  BY DEF Carried, Of, Item
<1> HIDE DEF c
<1>3. \A k \in 1..Len(c) : c[k].type # "message" /\ c[k].type # "end"
  BY <1>1, <1>2 DEF NoItem
<1>4. Run(c, n, n)
  BY <1>1, <1>3, RunSilent
<1>5. ~Tells(c)
  BY <1>3 DEF Tells
<1>6. QED
  BY <1>4, <1>5 DEF c

(* A wire tells the end of a stream with a frame of that stream. *)
LEMMA CarriedTells ==
  ASSUME NEW q \in Seq(Frame(Id)), NEW id, NEW last
  PROVE  Tells(Carried(q, id, last)) <=> last # "message" /\ \E f \in Of(q, id) : f.body = last
<1>1. \A n : Message(n).type # "end"
  BY DEF Message
<1>2. End.type = "end" /\ NoItem.type # "end"
  BY DEF End, NoItem
<1>3. Len(Carried(q, id, last)) = Len(q)
  BY CarriedTyped
<1>4. QED
  BY <1>1, <1>2, <1>3 DEF Tells, Carried, Of, Item

(* Frames without a message run nowhere. *)
LEMMA CarriedSilent ==
  ASSUME NEW q \in Seq(Frame(Id)), NEW id, NEW last, NEW n \in Nat,
         \A k \in 1..Len(q) : q[k].body # "message"
  PROVE  Run(Carried(q, id, last), n, n)
<1> DEFINE c == Carried(q, id, last)
<1>1. c \in Seq(Flight) /\ Len(c) = Len(q)
  BY CarriedTyped
<1>2. \A k \in 1..Len(q) : c[k] = End \/ c[k] = NoItem
  BY DEF Carried, Item
<1> HIDE DEF c
<1>3. \A k \in 1..Len(c) : c[k].type # "message"
  BY <1>1, <1>2 DEF End, NoItem
<1>4. QED
  BY <1>1, <1>3, RunSilent DEF c

(* The frames a side sends with one message among them. *)
LEMMA CarriedMessage ==
  ASSUME NEW id \in Id, NEW n \in Nat
  PROVE  /\ Run(Carried(<<MessageFrame(id, n + 1)>>, id, "halfClose"), n, n + 1)
         /\ Run(Carried(<<MessageFrame(id, n + 1)>>, id, "close"), n, n + 1)
         /\ \A m : Run(Carried(<<OpenFrame(id, m), MessageFrame(id, 1), HalfCloseFrame(id)>>,
                               id, "halfClose"), 0, 1)
         /\ Run(Carried(<<MessageFrame(id, 1), CloseFrame(id)>>, id, "close"), 0, 1)
<1>1. /\ Item(MessageFrame(id, n + 1), "halfClose") = Message(n + 1)
      /\ Item(MessageFrame(id, n + 1), "close") = Message(n + 1)
      /\ MessageFrame(id, n + 1).streamId = id
  BY DEF Item, MessageFrame
<1>2. /\ Item(MessageFrame(id, 1), "halfClose") = Message(1)
      /\ Item(MessageFrame(id, 1), "close") = Message(1)
      /\ MessageFrame(id, 1).streamId = id
  BY DEF Item, MessageFrame
<1>3. /\ Item(HalfCloseFrame(id), "halfClose") = End /\ HalfCloseFrame(id).streamId = id
      /\ Item(CloseFrame(id), "close") = End /\ CloseFrame(id).streamId = id
      /\ \A m : Item(OpenFrame(id, m), "halfClose") = NoItem /\ OpenFrame(id, m).streamId = id
  BY DEF Item, HalfCloseFrame, CloseFrame, OpenFrame
<1>4. \A f, last : f.streamId = id => Carried(<<f>>, id, last) = <<Item(f, last)>>
  BY DEF Carried
<1>5. \A f, g, last : f.streamId = id /\ g.streamId = id =>
        Carried(<<f, g>>, id, last) = <<Item(f, last), Item(g, last)>>
  BY DEF Carried
<1>6. \A f, g, h, last : f.streamId = id /\ g.streamId = id /\ h.streamId = id =>
        Carried(<<f, g, h>>, id, last) = <<Item(f, last), Item(g, last), Item(h, last)>>
  BY DEF Carried
<1>7. Run(<<Message(1), End>>, 0, 1)
  <2> DEFINE w == <<Message(1), End>>
  <2>1. Len(w) = 2 /\ w[1] = Message(1) /\ w[2] = End /\ 1..2 = {1, 2} /\ 0 + 1..1 = {1}
    OBVIOUS
  <2>2. Message(1).type = "message" /\ Message(1).val = 1 /\ End.type = "end"
    BY DEF Message, End
  <2> HIDE DEF w
  <2>3. QED
    BY <2>1, <2>2 DEF Run, w
<1>8. Run(<<NoItem, Message(1), End>>, 0, 1)
  <2> DEFINE w == <<NoItem, Message(1), End>>
  <2>1. /\ Len(w) = 3 /\ w[1] = NoItem /\ w[2] = Message(1) /\ w[3] = End
        /\ 1..3 = {1, 2, 3} /\ 0 + 1..1 = {1}
    OBVIOUS
  <2>2. /\ Message(1).type = "message" /\ Message(1).val = 1
        /\ End.type = "end" /\ NoItem.type = "none"
    BY DEF Message, End, NoItem
  <2> HIDE DEF w
  <2>3. QED
    BY <2>1, <2>2 DEF Run, w
<1>9. Run(<<Message(n + 1)>>, n, n + 1)
  BY RunOne
<1>10. QED
  BY <1>1, <1>2, <1>3, <1>4, <1>5, <1>6, <1>7, <1>8, <1>9

(***************************************************************************)
(* The order of the frames.                                                *)
(***************************************************************************)
(* What is posted keeps the order if it is in order, is of one stream, and *)
(* may follow what is on the wire of that stream.                          *)
LEMMA OrderedPost ==
  ASSUME NEW q \in Seq(Frame(Id)), NEW id \in Id, NEW frames, Own(id, frames),
         Ordered(q), Ordered(frames),
         \A f \in Of(q, id), g \in Of(frames, id) : MayFollow(f, g)
  PROVE  Ordered(q \o frames)
<1> DEFINE w == q \o frames
<1>1. frames \in Seq(Frame(Id))
  BY DEF Own
<1>2. /\ Len(w) = Len(q) + Len(frames) /\ Len(q) \in Nat /\ Len(frames) \in Nat
      /\ \A k \in 1..Len(q) : w[k] = q[k]
      /\ \A k \in Len(q) + 1..Len(w) : w[k] = frames[k - Len(q)] /\ k - Len(q) \in 1..Len(frames)
  BY <1>1
<1> HIDE DEF w
<1>3. ASSUME NEW j \in 1..Len(w), NEW i \in 1..j - 1, w[i].streamId = w[j].streamId
      PROVE  MayFollow(w[i], w[j])
  <2>1. CASE j \in 1..Len(q)
    <3>1. i \in 1..Len(q) /\ i \in 1..j - 1
      BY <1>2, <2>1
    <3>2. QED
      BY <1>2, <1>3, <2>1, <3>1 DEF Ordered
  <2>2. CASE j \in Len(q) + 1..Len(w) /\ i \in 1..Len(q)
    <3>1. w[j] = frames[j - Len(q)] /\ j - Len(q) \in 1..Len(frames) /\ w[i] = q[i]
      BY <1>2, <2>2
    <3>2. w[j].streamId = id
      BY <3>1 DEF Own
    <3>3. w[j] \in Of(frames, id) /\ w[i] \in Of(q, id)
      BY <1>3, <2>2, <3>1, <3>2 DEF Of
    <3>4. QED
      BY <3>3
  <2>3. CASE j \in Len(q) + 1..Len(w) /\ i \in Len(q) + 1..Len(w)
    <3> DEFINE k == j - Len(q)  l == i - Len(q)
    <3>1. /\ w[j] = frames[k] /\ w[i] = frames[l]
          /\ k \in 1..Len(frames) /\ l \in 1..k - 1
      BY <1>2, <2>3
    <3> HIDE DEF k, l
    <3>2. QED
      BY <1>3, <3>1 DEF Ordered
  <2>4. j \in 1..Len(q) \/ j \in Len(q) + 1..Len(w)
    BY <1>2
  <2>5. i \in 1..Len(q) \/ i \in Len(q) + 1..Len(w)
    BY <1>2
  <2>6. QED
    BY <2>1, <2>2, <2>3, <2>4, <2>5
<1>4. QED
  BY <1>3 DEF Ordered, w

(* The first frame of a stream decides what may be behind it. *)
LEMMA OrderedTail ==
  ASSUME NEW q \in Seq(Frame(Id)), q # <<>>, Ordered(q)
  PROVE  /\ Ordered(Tail(q))
         /\ \A f \in Of(Tail(q), Head(q).streamId) : MayFollow(Head(q), f)
<1> DEFINE t == Tail(q)
<1>1. /\ Len(q) = Len(t) + 1 /\ Len(t) \in Nat /\ Head(q) = q[1] /\ 1 \in 1..Len(q)
      /\ \A k \in 1..Len(t) : t[k] = q[k + 1] /\ k + 1 \in 1..Len(q) /\ 1 \in 1..(k + 1) - 1
      /\ \A k \in 1..Len(t) : \A l \in 1..k - 1 : l \in 1..Len(t) /\ l + 1 \in 1..(k + 1) - 1
  OBVIOUS
<1> HIDE DEF t
<1>2. Ordered(t)
  BY <1>1 DEF Ordered
<1>3. ASSUME NEW f \in Of(t, q[1].streamId)
      PROVE  MayFollow(q[1], f)
  <2>1. PICK k \in 1..Len(t) : f = t[k] /\ t[k].streamId = q[1].streamId
    BY DEF Of
  <2>2. QED
    BY <1>1, <2>1 DEF Ordered
<1>4. QED
  BY <1>1, <1>2, <1>3 DEF t

(* The empty wire, and a single frame. *)
LEMMA OrderedShort == Ordered(<<>>) /\ \A f : Ordered(<<f>>)
<1>1. Ordered(<<>>)
  BY DEF Ordered
<1>2. ASSUME NEW f PROVE Ordered(<<f>>)
  <2>1. Len(<<f>>) = 1 /\ 1..1 = {1} /\ 1..1 - 1 = {}
    OBVIOUS
  <2>2. QED
    BY <2>1 DEF Ordered
<1>3. QED
  BY <1>1, <1>2

(***************************************************************************)
(* The flow of a stream when its wire moves.                               *)
(***************************************************************************)
(* Frames a side posts for one stream carry nothing to another.            *)
LEMMA CarriedOthers ==
  ASSUME NEW id \in Id, NEW frames, Own(id, frames), NEW i \in Id, i # id, NEW last,
         NEW n \in Nat
  PROVE  Run(Carried(frames, i, last), n, n) /\ ~Tells(Carried(frames, i, last))
<1>1. frames \in Seq(Frame(Id)) /\ Of(frames, i) = {}
  BY OfOwn DEF Own
<1>2. QED
  BY <1>1, CarriedNone

(* Frames are posted that go on from the sender's counter, or are lost on  *)
(* a wire that reaches nobody any more.                                    *)
Posts(q, q1, i, last, live, live1, sent, sent1, over, over1) ==
  /\ live \in BOOLEAN /\ live1 \in BOOLEAN /\ over \in BOOLEAN /\ over1 \in BOOLEAN
  /\ q \in Seq(Frame(Id)) /\ sent \in Nat /\ sent1 \in Nat
  /\ live1 => live
  /\ over => over1 /\ sent1 = sent
  /\ \E frames \in Seq(Frame(Id)) :
       /\ q1 = q \o frames \/ (q1 = q /\ ~live1)
       /\ Run(Carried(frames, i, last), sent, sent1)
       /\ Tells(Carried(frames, i, last)) => over1

(* Either way the flow goes on. *)
LEMMA FlowPost ==
  ASSUME NEW got \in Seq(Nat), NEW pend \in Seq(Flight), NEW open \in BOOLEAN,
         NEW q, NEW i, NEW last, NEW live \in BOOLEAN, NEW sent, NEW over \in BOOLEAN,
         Flow(got, pend, open, Carried(q, i, last), live, sent, over),
         NEW q1, NEW live1 \in BOOLEAN, NEW sent1, NEW over1 \in BOOLEAN,
         Posts(q, q1, i, last, live, live1, sent, sent1, over, over1)
  PROVE  Flow(got, pend, open, Carried(q1, i, last), live1, sent1, over1)
<1>1. /\ q \in Seq(Frame(Id)) /\ sent \in Nat /\ sent1 \in Nat
      /\ live1 => live
      /\ over => over1 /\ sent1 = sent
  BY DEF Posts
<1>2. PICK frames \in Seq(Frame(Id)) :
        /\ q1 = q \o frames \/ (q1 = q /\ ~live1)
        /\ Run(Carried(frames, i, last), sent, sent1)
        /\ Tells(Carried(frames, i, last)) => over1
  BY DEF Posts
<1> DEFINE c == Carried(q, i, last)  v == Carried(frames, i, last)
<1>3. c \in Seq(Flight) /\ v \in Seq(Flight)
  BY <1>1, CarriedTyped
<1>4. Carried(q \o frames, i, last) = c \o v
  BY <1>1, CarriedConcat
<1>5. Run(v, sent, sent1) /\ (Tells(v) => over1)
  BY <1>2
<1>6. Flow(got, pend, open, c, live, sent, over)
  OBVIOUS
<1>7. Len(got) \in Nat /\ sent <= sent1
  BY <1>2 DEF Run
<1>8. CASE q1 = q \o frames
  <2> HIDE DEF c, v
  <2>1. Flow(got, pend, open, c \o v, live1, sent1, over1)
    BY <1>1, <1>3, <1>5, <1>6, FlowSend, SMTT(60)
  <2>2. QED
    BY <1>4, <1>8, <2>1, Zenon
<1>9. CASE q1 = q /\ ~live1
  <2> HIDE DEF c, v
  <2>1. Flow(got, pend, open, c, live1, sent1, over1)
    BY <1>1, <1>3, <1>6, <1>7, <1>9, FlowLose, SMTT(60)
  <2>2. QED
    BY <1>9, <2>1 DEF c
<1>10. QED
  BY <1>2, <1>8, <1>9

(* Nothing of a stream is posted when the frames are another's.            *)
LEMMA PostsOthers ==
  ASSUME NEW id \in Id, NEW frames, Own(id, frames), NEW i \in Id, i # id, NEW last,
         NEW q \in Seq(Frame(Id)), NEW q1, NEW live \in BOOLEAN, NEW live1 \in BOOLEAN,
         live1 => live, q1 = q \o frames \/ (q1 = q /\ ~live1),
         NEW sent \in Nat, NEW over \in BOOLEAN
  PROVE  Posts(q, q1, i, last, live, live1, sent, sent, over, over)
<1>1. Run(Carried(frames, i, last), sent, sent) /\ ~Tells(Carried(frames, i, last))
  BY CarriedOthers
<1>2. frames \in Seq(Frame(Id))
  BY DEF Own
<1>3. QED
  BY <1>1, <1>2 DEF Posts

(* A frame is dispatched that is not for this stream, or carries nothing   *)
(* to it, or finds it dead.                                                *)
LEMMA FlowPass ==
  ASSUME NEW got, NEW pend, NEW open \in BOOLEAN,
         NEW q \in Seq(Frame(Id)), q # <<>>, NEW i \in Id, NEW last, NEW live \in BOOLEAN,
         NEW sent \in Nat, NEW over \in BOOLEAN,
         Flow(got, pend, open, Carried(q, i, last), live, sent, over),
         NEW live1 \in BOOLEAN, live1 => live,
         \/ Head(q).streamId # i
         \/ Head(q).body \notin {"message", last}
         \/ ~live1
  PROVE  Flow(got, pend, open, Carried(Tail(q), i, last), live1, sent, over)
<1> DEFINE c == Carried(q, i, last)
<1>1. c \in Seq(Flight) /\ c # <<>> /\ Carried(Tail(q), i, last) = Tail(c)
  BY CarriedTyped, CarriedTail
<1>2. Head(c) = IF Head(q).streamId = i THEN Item(Head(q), last) ELSE NoItem
  BY CarriedTail
<1>3. live1 => Head(c) = NoItem
  BY <1>2 DEF Item
<1>4. live1 => live /\ Head(c).type \notin {"message", "end"}
  BY <1>3 DEF NoItem
<1>5. Flow(got, pend, open, c, live, sent, over)
  OBVIOUS
<1> HIDE DEF c
<1>6. Flow(got, pend, open, Tail(c), live1, sent, over)
  BY <1>1, <1>4, <1>5, FlowSkip
<1>7. QED
  BY <1>1, <1>6

(* A message, or the last frame, reaches its stream. *)
Reaching(got, pend, open, q, i, last, live, sent, over, live1) ==
  /\ got \in Seq(Nat) /\ pend \in Seq(Flight) /\ open \in BOOLEAN
  /\ q \in Seq(Frame(Id)) /\ q # <<>> /\ i \in Id /\ Head(q).streamId = i
  /\ live \in BOOLEAN /\ live /\ sent \in Nat /\ over \in BOOLEAN /\ live1 \in BOOLEAN
  /\ Flow(got, pend, open, Carried(q, i, last), live, sent, over)
  => Flow(got, pend \o <<Item(Head(q), last)>>, open, Carried(Tail(q), i, last), live1, sent, over)
LEMMA FlowReach ==
  ASSUME NEW got, NEW pend, NEW open, NEW q, NEW i, NEW last, NEW live, NEW sent, NEW over, NEW live1
  PROVE  Reaching(got, pend, open, q, i, last, live, sent, over, live1)
<1> SUFFICES ASSUME got \in Seq(Nat), pend \in Seq(Flight), open \in BOOLEAN,
                    q \in Seq(Frame(Id)), q # <<>>, i \in Id, Head(q).streamId = i,
                    live \in BOOLEAN, live, sent \in Nat, over \in BOOLEAN, live1 \in BOOLEAN,
                    Flow(got, pend, open, Carried(q, i, last), live, sent, over)
             PROVE  Flow(got, pend \o <<Item(Head(q), last)>>, open,
                         Carried(Tail(q), i, last), live1, sent, over)
  BY DEF Reaching
<1> DEFINE c == Carried(q, i, last)
<1>1. c \in Seq(Flight) /\ c # <<>> /\ Carried(Tail(q), i, last) = Tail(c)
  BY CarriedTyped, CarriedTail
<1>2. Head(c) = Item(Head(q), last)
  BY CarriedTail
<1>3. Flow(got, pend, open, c, live, sent, over)
  OBVIOUS
<1> HIDE DEF c
<1>4. Flow(got, pend \o <<Head(c)>>, open, Tail(c), live1, sent, over)
  <2>1. Arriving(got, pend, open, c, live, sent, over, live1)
    BY FlowArrive
  <2>2. QED
    BY <1>1, <1>3, <2>1 DEF Arriving
<1>5. QED
  BY <1>1, <1>2, <1>4

(* Nothing sent, nothing got. *)
LEMMA FlowBegin ==
  ASSUME NEW q \in Seq(Frame(Id)), NEW i, NEW last, Of(q, i) = {},
         NEW open \in BOOLEAN, NEW live \in BOOLEAN, NEW over \in BOOLEAN
  PROVE  Flow(<<>>, <<>>, open, Carried(q, i, last), live, 0, over)
<1>1. Run(Carried(q, i, last), 0, 0) /\ ~Tells(Carried(q, i, last))
  BY CarriedNone
<1>2. Run(<<>>, 0, 0) /\ ~Tells(<<>>)
  BY DEF Run, Tells
<1>3. 0 \in 0..0 /\ Len(<<>>) = 0 /\ 1..0 = {}
  OBVIOUS
<1>4. QED
  BY <1>1, <1>2, <1>3 DEF Flow

(* The wire is emptied and tells nothing.                                  *)
LEMMA CarriedEmpty ==
  ASSUME NEW i, NEW last
  PROVE  ~Tells(Carried(<<>>, i, last))
  BY DEF Carried, Tells

(***************************************************************************)
(* What a step of one call amounts to, for the wires and the flows: what   *)
(* it sends, and what it does with the items pending on its stream.        *)
(***************************************************************************)
(* A call sends nothing, a CANCEL it has a reason for, its next request, or *)
(* the end of its requests.                                                *)
Says(id, c, d, frames) ==
  /\ c.signal = "aborted" => d.signal = "aborted"
  /\ d.snd = "pull" => c.snd = "pull"
  /\ \/ frames = <<>> /\ d.sent = c.sent
     \/ /\ frames = <<CancelFrame(id)>> /\ d.sent = c.sent
        /\ d.signal = "aborted" \/ d.outcome = "rejected"
     \/ /\ frames = <<MessageFrame(id, c.sent + 1)>> /\ d.sent = c.sent + 1
        /\ c.snd = "pull" /\ d.snd = "pull"
     \/ /\ frames = <<HalfCloseFrame(id)>> /\ d.sent = c.sent
        /\ c.snd = "pull" /\ d.snd # "pull"

(* It is told an error, ends of its own accord, or takes the first item:   *)
(* a response, the end, or what makes it fail.                             *)
Keeps(c, d, pend, pend1) ==
  /\ d.received = c.received /\ d.outcome = c.outcome /\ d.code = c.code
  /\ \/ pend1 = pend
     \/ \E code \in Nat : /\ pend1 = pend \o <<Error(code)>>
                          /\ code = CANCELLED => d.signal = "aborted"
Quits(c, d, pend, pend1) ==
  /\ c.outcome = "none" /\ pend1 = pend /\ d.received = c.received
  /\ d.outcome \in {"rejected", "returned"} /\ d.code # CANCELLED
Takes(c, d, pend, pend1) ==
  /\ c.outcome = "none" /\ pend # <<>> /\ pend1 = Tail(pend)
  /\ \/ /\ Head(pend).type = "message"
        /\ d.received = Append(c.received, Head(pend).val) /\ d.outcome = "none"
     \/ /\ Head(pend).type = "end"
        /\ d.received = c.received /\ d.outcome = "resolved"
     \/ /\ d.received = c.received /\ d.outcome = "rejected"
        /\ d.code = CANCELLED => Head(pend) = Error(CANCELLED)
Hears(c, d, pend, pend1) ==
  /\ d.outcome = "none" <=> d.pc \notin {"settle", "done"}
  /\ Keeps(c, d, pend, pend1) \/ Quits(c, d, pend, pend1) \/ Takes(c, d, pend, pend1)

Deciding(c) == c.outcome = "none" <=> c.pc \notin {"settle", "done"}

ClientMove(id, frames) ==
  /\ call[id].pc # "idle" /\ call'[id].pc # "idle"
  /\ \A i \in Id : i # id => call'[i] = call[i] /\ cStream'[i] = cStream[i]
  /\ Own(id, frames) /\ PostToServer(frames)
  /\ cStreams' \subseteq cStreams /\ faults <= faults'
  /\ Says(id, call[id], call'[id], frames)
  /\ Hears(call[id], call'[id], Pending(cStream[id]), Pending(cStream'[id]))

(* The consumer of a stream takes its first pending item.                  *)
LEMMA TakesFirst ==
  ASSUME NEW s, Sound(s, TRUE), Resolved(s)
  PROVE  /\ Pending(s) # <<>> /\ Head(Pending(s)) = s.hand
         /\ Pending(Consume(s)) = Tail(Pending(s))
         /\ Pending(NextItem(Consume(s))) = Tail(Pending(s))
         /\ Consume(s).state = s.state /\ Consume(s).aborted = s.aborted
         /\ NextItem(Consume(s)).state = s.state /\ NextItem(Consume(s)).aborted = s.aborted
<1>1. s \in StreamObject
  BY DEF Sound
<1>2. Pending(s) # <<>> /\ Head(Pending(s)) = s.hand /\ Pending(Consume(s)) = Tail(Pending(s))
  BY <1>1, PendingConsume
<1>3. Sound(Consume(s), FALSE)
  BY ConsumeSound
<1>4. Pending(NextItem(Consume(s))) = Pending(Consume(s))
  BY <1>3, PendingNextItem
<1>5. Consume(s) \in StreamObject /\ Consume(s).state = s.state /\ Consume(s).aborted = s.aborted
  BY <1>1, <1>3 DEF Sound, Consume, StreamObject
<1>6. NextItem(Consume(s)).state = s.state /\ NextItem(Consume(s)).aborted = s.aborted
  BY <1>5 DEF NextItem, StreamObject
<1>7. QED
  BY <1>2, <1>4, <1>5, <1>6

(* Asking for the next item pends nothing and changes no state.            *)
LEMMA AsksNext ==
  ASSUME NEW s, Sound(s, FALSE)
  PROVE  /\ Pending(NextItem(s)) = Pending(s)
         /\ NextItem(s).state = s.state /\ NextItem(s).aborted = s.aborted
  BY PendingNextItem DEF Sound, NextItem, StreamObject

(* The fields of a call whose outcome is decided.                          *)
LEMMA Decided ==
  ASSUME NEW c \in Call, NEW o, NEW code
  PROVE  LET d == Decide(c, o, code) IN
         /\ d.pc = "settle" /\ d.outcome = o /\ d.code = code
         /\ d.received = c.received /\ d.sent = c.sent /\ d.snd = c.snd /\ d.signal = c.signal
  BY DEF Decide, Call

(* A step that leaves the wires alone posts nothing.                       *)
LEMMA NothingPosted ==
  ASSUME WireTypeOK, UNCHANGED wireVars, NEW id \in Id
  PROVE  /\ PostToServer(<<>>) /\ PostToClient(<<>>) /\ Own(id, <<>>)
         /\ faults <= faults'
  BY DEF WireTypeOK, wireVars, PostToServer, PostToClient, Own

(* A step of a call that is heard and said.                                *)
LEMMA Moved ==
  ASSUME ClientPart, NEW id \in Id, NEW c, NEW s,
         call' = [call EXCEPT ![id] = c], cStream' = [cStream EXCEPT ![id] = s],
         call[id].pc # "idle", c.pc # "idle", cStreams' \subseteq cStreams, faults <= faults',
         NEW frames, Own(id, frames), PostToServer(frames),
         Says(id, call[id], c, frames), Hears(call[id], c, Pending(cStream[id]), Pending(s))
  PROVE  ClientMove(id, frames)
<1>1. /\ call'[id] = c /\ cStream'[id] = s
      /\ \A i \in Id : i # id => call'[i] = call[i] /\ cStream'[i] = cStream[i]
  BY DEF ClientPart
<1>2. QED
  BY <1>1 DEF ClientMove

(* collectUnary and the iteration take an item or fail.                    *)
LEMMA CollectMoves ==
  ASSUME IInv, NEW id \in Id, Deciding(call[id]), CollectUnary(id) \/ Iterate(id)
  PROVE  \E frames : ClientMove(id, frames)
<1> DEFINE c == call[id]  s == cStream[id]  item == s.hand  pend == Pending(s)
           G(pc) == [c EXCEPT !.pc = pc, !.received = Append(@, item.val)]
<1>1. /\ ClientPart /\ WireTypeOK /\ c \in Call /\ Sound(s, TRUE)
      /\ c.pc \in {"first", "second", "iter"} /\ Resolved(s) /\ UNCHANGED <<cStreams, wireVars>>
  BY DEF IInv, ClientPart, GoodCall, CollectUnary, Iterate, CAwaits
<1>2. /\ c.outcome = "none" /\ c.pc # "idle"
  BY <1>1 DEF Deciding
<1>3. /\ PostToServer(<<>>) /\ Own(id, <<>>) /\ faults <= faults' /\ cStreams' \subseteq cStreams
  BY <1>1, NothingPosted
<1>4. /\ pend # <<>> /\ Head(pend) = item
      /\ Pending(Consume(s)) = Tail(pend) /\ Pending(NextItem(Consume(s))) = Tail(pend)
  BY <1>1, TakesFirst
<1>5. \E d, t : /\ call' = [call EXCEPT ![id] = d] /\ cStream' = [cStream EXCEPT ![id] = t]
                /\ t \in {Consume(s), NextItem(Consume(s))}
                /\ \/ /\ item.type = "message"
                      /\ d = G("second") \/ d = G("yield")
                   \/ item.type = "end" /\ d = Decide(c, "resolved", 0)
                   \/ item.type = "error" /\ d = Decide(c, "rejected", item.val)
                   \/ d = Decide(c, "rejected", INTERNAL)
  <2>1. \/ item.type = "message" /\ (SetCall(id, G("second")) \/ SetCall(id, G("yield")))
        \/ item.type = "end" /\ SetCall(id, Decide(c, "resolved", 0))
        \/ item.type = "error" /\ SetCall(id, Decide(c, "rejected", item.val))
        \/ SetCall(id, Decide(c, "rejected", INTERNAL))
    BY DEF CollectUnary, Iterate
  <2>2. SetCStream(id, Consume(s)) \/ SetCStream(id, NextItem(Consume(s)))
    BY DEF CollectUnary, Iterate
  <2> HIDE DEF c, s, item, pend, G
  <2>3. QED
    BY <2>1, <2>2 DEF SetCStream, SetCall
<1>6. PICK d, t : /\ call' = [call EXCEPT ![id] = d] /\ cStream' = [cStream EXCEPT ![id] = t]
                  /\ t \in {Consume(s), NextItem(Consume(s))}
                  /\ \/ /\ item.type = "message"
                        /\ d = G("second") \/ d = G("yield")
                     \/ item.type = "end" /\ d = Decide(c, "resolved", 0)
                     \/ item.type = "error" /\ d = Decide(c, "rejected", item.val)
                     \/ d = Decide(c, "rejected", INTERNAL)
  BY <1>5
<1>7. \A pc \in {"second", "yield"} :
        /\ G(pc).pc = pc /\ G(pc).received = Append(c.received, item.val)
        /\ G(pc).outcome = c.outcome /\ G(pc).sent = c.sent /\ G(pc).snd = c.snd
        /\ G(pc).signal = c.signal
  BY <1>1 DEF Call
<1>8. INTERNAL # CANCELLED
      /\ (item.type = "error" /\ item.val = CANCELLED => item = Error(CANCELLED))
  <2>1. item \in QueueItem \cup {NoItem}
    BY <1>1 DEF Sound, StreamObject
  <2>2. QED
    BY <2>1 DEF QueueItem, NoItem, Error, INTERNAL, CANCELLED
<1> HIDE DEF c, s, item, pend, G
<1>9. d.snd = c.snd /\ d.sent = c.sent /\ d.signal = c.signal /\ d.pc # "idle"
  BY <1>1, <1>6, <1>7, Decided
<1>10. Says(id, c, d, <<>>)
  BY <1>9 DEF Says
<1>11. Hears(c, d, pend, Pending(t))
  <2>1. Pending(t) = Tail(pend)
    BY <1>4, <1>6
  <2>2. CASE item.type = "message" /\ (d = G("second") \/ d = G("yield"))
    BY <1>2, <1>4, <1>7, <2>1, <2>2 DEF Hears, Takes
  <2>3. CASE item.type = "end" /\ d = Decide(c, "resolved", 0)
    BY <1>1, <1>2, <1>4, <2>1, <2>3, Decided DEF Hears, Takes
  <2>4. CASE item.type = "error" /\ d = Decide(c, "rejected", item.val)
    BY <1>1, <1>2, <1>4, <1>8, <2>1, <2>4, Decided DEF Hears, Takes
  <2>5. CASE d = Decide(c, "rejected", INTERNAL)
    BY <1>1, <1>2, <1>4, <1>8, <2>1, <2>5, Decided DEF Hears, Takes
  <2>6. QED
    BY <1>6, <2>2, <2>3, <2>4, <2>5
<1>12. ClientMove(id, <<>>)
  BY <1>1, <1>2, <1>3, <1>6, <1>9, <1>10, <1>11, Moved DEF c, s, pend
<1>13. QED
  BY <1>12

(* The application asks for the next response, or leaves.                  *)
LEMMA AppMoves ==
  ASSUME IInv, NEW id \in Id, Deciding(call[id]), AppNext(id) \/ AppReturn(id)
  PROVE  \E frames : ClientMove(id, frames)
<1> DEFINE c == call[id]  s == cStream[id]  d == [c EXCEPT !.pc = "iter"]
<1>1. /\ ClientPart /\ WireTypeOK /\ c \in Call /\ Sound(s, FALSE)
      /\ c.pc = "yield" /\ UNCHANGED <<cStreams, wireVars>>
  <2>1. /\ ClientPart /\ WireTypeOK /\ c \in Call /\ Sound(s, CAwaits(c))
        /\ c.pc = "yield" /\ UNCHANGED <<cStreams, wireVars>>
    BY DEF IInv, ClientPart, GoodCall, AppNext, AppReturn
  <2>2. CAwaits(c) = FALSE
    BY <2>1 DEF CAwaits
  <2>3. QED
    BY <2>1, <2>2
<1>2. c.outcome = "none" /\ c.pc # "idle"
  BY <1>1 DEF Deciding
<1>3. /\ PostToServer(<<>>) /\ Own(id, <<>>) /\ faults <= faults' /\ cStreams' \subseteq cStreams
  BY <1>1, NothingPosted
<1>4. CASE AppNext(id)
  <2>1. call' = [call EXCEPT ![id] = d] /\ cStream' = [cStream EXCEPT ![id] = NextItem(s)]
    BY <1>4 DEF AppNext, SetCall, SetCStream
  <2>2. /\ d.pc = "iter" /\ d.outcome = c.outcome /\ d.received = c.received /\ d.code = c.code
        /\ d.sent = c.sent /\ d.snd = c.snd /\ d.signal = c.signal
    BY <1>1 DEF Call
  <2> HIDE DEF d, c, s
  <2>3. Hears(c, d, Pending(s), Pending(NextItem(s))) /\ Says(id, c, d, <<>>)
    BY <1>1, <1>2, <2>2, AsksNext DEF Hears, Keeps, Says
  <2>4. d.pc # "idle"
    BY <2>2
  <2>5. ClientMove(id, <<>>)
    BY <1>1, <1>2, <1>3, <2>1, <2>3, <2>4, Moved DEF c, s
  <2>6. QED
    BY <2>5
<1>5. CASE AppReturn(id)
  <2> DEFINE e == Decide(c, "returned", 0)
  <2>1. call' = [call EXCEPT ![id] = e] /\ cStream' = [cStream EXCEPT ![id] = s]
    BY <1>1, <1>5 DEF AppReturn, SetCall, ClientPart
  <2>2. /\ e.pc = "settle" /\ e.outcome = "returned" /\ e.received = c.received /\ e.code = 0
        /\ e.sent = c.sent /\ e.snd = c.snd /\ e.signal = c.signal
    BY <1>1, Decided
  <2> HIDE DEF d, c, s, e
  <2>3. Hears(c, e, Pending(s), Pending(s)) /\ Says(id, c, e, <<>>)
    BY <1>1, <1>2, <2>2 DEF Hears, Quits, Says, CANCELLED
  <2>4. e.pc # "idle"
    BY <2>2
  <2>5. ClientMove(id, <<>>)
    BY <1>1, <1>2, <1>3, <2>1, <2>3, <2>4, Moved DEF c, s
  <2>6. QED
    BY <2>5
<1>6. QED
  BY <1>4, <1>5

(* cancelStream sends at most a CANCEL.                                    *)
LEMMA CancelOrNothing ==
  ASSUME NEW id \in Id, NEW s
  PROVE  /\ CancelFrames(id, s) \in {<<>>, <<CancelFrame(id)>>}
         /\ s.state = "error" => CancelFrames(id, s) = <<>>
         /\ Own(id, CancelFrames(id, s)) /\ Own(id, <<>>)
  BY OwnFrames DEF CancelFrames

(* catch and finally.                                                      *)
LEMMA SettleMoves ==
  ASSUME IInv, NEW id \in Id, Deciding(call[id]), SettleCall(id)
  PROVE  \E frames : ClientMove(id, frames)
<1> DEFINE c == call[id]  s == cStream[id]  b == [c EXCEPT !.pc = "done"]  d == Cleanup(b)
           frames == IF c.outcome = "rejected" THEN CancelFrames(id, s) ELSE <<>>
<1>1. /\ ClientPart /\ WireTypeOK /\ c \in Call
      /\ c.pc = "settle" /\ UNCHANGED <<cStream, faults>> /\ PostToServer(frames)
      /\ cStreams' = cStreams \ {id}
  BY DEF IInv, ClientPart, GoodCall, SettleCall, NoFault, RemoveStream
<1>2. c.outcome # "none" /\ c.pc # "idle" /\ faults <= faults' /\ cStreams' \subseteq cStreams
  BY <1>1 DEF Deciding, WireTypeOK
<1>3. /\ frames = <<>> \/ (frames = <<CancelFrame(id)>> /\ c.outcome = "rejected")
      /\ Own(id, frames)
  BY CancelOrNothing
<1>4. call' = [call EXCEPT ![id] = d] /\ cStream' = [cStream EXCEPT ![id] = s]
  BY <1>1 DEF SettleCall, SetCall, ClientPart
<1>5. /\ d.pc = "done" /\ d.outcome = c.outcome /\ d.received = c.received /\ d.code = c.code
      /\ d.sent = c.sent /\ d.snd = c.snd /\ (c.signal = "aborted" => d.signal = "aborted")
  <2>1. /\ b \in Call /\ b.pc = "done" /\ b.outcome = c.outcome /\ b.received = c.received
        /\ b.code = c.code /\ b.sent = c.sent /\ b.snd = c.snd /\ b.signal = c.signal
    BY <1>1 DEF Call
  <2> HIDE DEF b, c
  <2>2. QED
    BY <2>1 DEF Cleanup, Call
<1> HIDE DEF c, s, b, d, frames
<1>6. Hears(c, d, Pending(s), Pending(s))
  BY <1>2, <1>5 DEF Hears, Keeps
<1>7. Says(id, c, d, frames)
  BY <1>3, <1>5 DEF Says
<1>8. d.pc # "idle"
  BY <1>5
<1>9. ClientMove(id, frames)
  BY <1>1, <1>2, <1>3, <1>4, <1>6, <1>7, <1>8, Moved DEF c, s
<1>10. QED
  BY <1>9

(* The code after the request loop.                                        *)
LEMMA StopMoves ==
  ASSUME IInv, NEW id \in Id, Deciding(call[id]), call[id].pc # "idle", call[id].snd = "pull",
         NEW s, Sound(s, CAwaits(call[id])), Pending(s) = Pending(cStream[id]), StopSending(id, s),
         UNCHANGED <<cStreams, faults>>,
         NEW frames \in {<<>>, <<HalfCloseFrame(id)>>}, PostToServer(frames)
  PROVE  ClientMove(id, frames)
<1> DEFINE c == call[id]  d == [c EXCEPT !.snd = "done"]  e == [d EXCEPT !.pc = "first"]
<1>1. /\ ClientPart /\ c \in GoodCall /\ c \in Call /\ faults <= faults'
      /\ cStreams' \subseteq cStreams /\ Own(id, frames)
  <2>1. Own(id, <<>>) /\ Own(id, <<HalfCloseFrame(id)>>)
    BY OwnFrames
  <2>2. Own(id, frames)
    BY <2>1, Zenon
  <2>3. faults \in Nat /\ ClientPart /\ c \in GoodCall
    BY DEF IInv, ClientPart, WireTypeOK
  <2>4. QED
    BY <2>2, <2>3 DEF GoodCall
<1>2. /\ d.snd = "done" /\ d.pc = c.pc /\ d.outcome = c.outcome /\ d.received = c.received
      /\ d.code = c.code /\ d.sent = c.sent /\ d.signal = c.signal /\ d.kind = c.kind
      /\ d \in Call
  BY <1>1 DEF Call
<1>3. CASE d.kind = CLIENT_STREAMING
  <2>1. call' = [call EXCEPT ![id] = e] /\ cStream' = [cStream EXCEPT ![id] = NextItem(s)]
    BY <1>3 DEF StopSending, SetCall, SetCStream
  <2>2. c.pc = "send" /\ c.outcome = "none"
    BY <1>1, <1>2, <1>3 DEF GoodCall, Deciding
  <2>3. Sound(s, FALSE)
    <3>1. CAwaits(c) = FALSE
      BY <2>2 DEF CAwaits
    <3>2. QED
      BY <3>1
  <2>4. Pending(NextItem(s)) = Pending(cStream[id])
    BY <2>3, PendingNextItem
  <2> HIDE DEF d
  <2>5. /\ e.snd = "done" /\ e.pc = "first" /\ e.outcome = c.outcome /\ e.received = c.received
        /\ e.code = c.code /\ e.sent = c.sent /\ e.signal = c.signal
    BY <1>2 DEF Call
  <2> HIDE DEF c, e
  <2>6. Hears(c, e, Pending(cStream[id]), Pending(NextItem(s)))
    BY <2>2, <2>4, <2>5 DEF Hears, Keeps
  <2>7. Says(id, c, e, frames)
    BY <2>5 DEF Says, c
  <2>8. e.pc # "idle"
    BY <2>5
  <2>9. QED
    BY <1>1, <2>1, <2>6, <2>7, <2>8, Moved DEF c
<1>4. CASE d.kind # CLIENT_STREAMING
  <2>1. call' = [call EXCEPT ![id] = d] /\ cStream' = [cStream EXCEPT ![id] = s]
    BY <1>4 DEF StopSending, SetCall, SetCStream
  <2>2. Hears(c, d, Pending(cStream[id]), Pending(s))
    <3> HIDE DEF d
    <3>1. QED
      BY <1>2 DEF Hears, Keeps, Deciding
  <2>3. Says(id, c, d, frames)
    <3> HIDE DEF d
    <3>1. QED
      BY <1>2 DEF Says
  <2> HIDE DEF d
  <2>4. QED
    BY <1>1, <1>2, <2>1, <2>2, <2>3, Moved
<1>5. QED
  BY <1>3, <1>4

(* The request loop throws.                                                *)
LEMMA ThrowMoves ==
  ASSUME IInv, NEW id \in Id, Deciding(call[id]), call[id].pc # "idle", call[id].snd = "pull",
         SendingThrows(id), Fault \/ NoFault, UNCHANGED cStreams
  PROVE  ClientMove(id, <<>>)
<1> DEFINE c == call[id]  d == [c EXCEPT !.snd = "done"]
           e == Decide(d, "rejected", LocalError)  s == cStream[id]
<1>1. /\ ClientPart /\ c \in GoodCall /\ c \in Call /\ faults <= faults'
      /\ cStreams' \subseteq cStreams /\ Own(id, <<>>) /\ PostToServer(<<>>)
      /\ cStream' = [cStream EXCEPT ![id] = s]
  <2>1. ClientPart /\ c \in GoodCall /\ faults \in Nat /\ PostToServer(<<>>) /\ UNCHANGED cStream
    BY DEF IInv, ClientPart, WireTypeOK, SendingThrows
  <2>2. faults <= faults'
    BY <2>1 DEF Fault, NoFault
  <2>3. cStream' = [cStream EXCEPT ![id] = s]
    BY <2>1 DEF ClientPart
  <2>4. Own(id, <<>>)
    BY OwnFrames
  <2>5. QED
    BY <2>1, <2>2, <2>3, <2>4 DEF GoodCall
<1>2. /\ d.snd = "done" /\ d.pc = c.pc /\ d.outcome = c.outcome /\ d.received = c.received
      /\ d.code = c.code /\ d.sent = c.sent /\ d.signal = c.signal /\ d.kind = c.kind
      /\ d \in Call
  BY <1>1 DEF Call
<1>3. CASE d.kind = CLIENT_STREAMING
  <2>1. call' = [call EXCEPT ![id] = e]
    BY <1>3 DEF SendingThrows, SetCall
  <2>2. c.outcome = "none"
    BY <1>1, <1>2, <1>3 DEF GoodCall, Deciding
  <2> HIDE DEF d
  <2>3. /\ e.snd = "done" /\ e.pc = "settle" /\ e.outcome = "rejected" /\ e.code = LocalError
        /\ e.received = c.received /\ e.sent = c.sent /\ e.signal = c.signal
    BY <1>2, Decided
  <2> HIDE DEF c, e, s
  <2>4. Hears(c, e, Pending(s), Pending(s))
    BY <2>2, <2>3 DEF Hears, Quits, LocalError, CANCELLED
  <2>5. Says(id, c, e, <<>>)
    BY <2>3 DEF Says, c
  <2>6. e.pc # "idle"
    BY <2>3
  <2>7. QED
    BY <1>1, <2>1, <2>4, <2>5, <2>6, Moved DEF c, s
<1>4. CASE d.kind # CLIENT_STREAMING
  <2>1. call' = [call EXCEPT ![id] = d]
    BY <1>4 DEF SendingThrows, SetCall
  <2> HIDE DEF d
  <2>2. Hears(c, d, Pending(s), Pending(s)) /\ Says(id, c, d, <<>>)
    BY <1>2 DEF Hears, Keeps, Deciding, Says
  <2>3. QED
    BY <1>1, <1>2, <2>1, <2>2, Moved
<1>5. QED
  BY <1>3, <1>4

(* The request loop.                                                       *)
LEMMA RequestMoves ==
  ASSUME IInv, NEW id \in Id, Deciding(call[id]), call[id].pc # "idle",
         SendRequest(id) \/ EndRequests(id) \/ RequestsThrow(id)
  PROVE  \E frames : ClientMove(id, frames)
<1> DEFINE c == call[id]  s == cStream[id]
<1>1. /\ ClientPart /\ WireTypeOK /\ c \in Call /\ c.snd = "pull" /\ UNCHANGED cStreams
      /\ Sound(s, CAwaits(c)) /\ CAwaits(c) \in BOOLEAN
  BY DEF IInv, ClientPart, GoodCall, SendRequest, EndRequests, RequestsThrow, CAwaits
<1>2. CASE SendingThrows(id) /\ (Fault \/ NoFault)
  BY <1>1, <1>2, ThrowMoves
<1>3. CASE StopSending(id, s) /\ PostToServer(<<>>) /\ NoFault
  <2>1. ClientMove(id, <<>>)
    BY <1>1, <1>3, StopMoves DEF NoFault
  <2>2. QED
    BY <2>1
<1>4. CASE /\ PostToServer(<<HalfCloseFrame(id)>>) /\ NoFault
           /\ StopSending(id, SetState(s, "half_closed_local"))
  <2> DEFINE t == SetState(s, "half_closed_local")
  <2>1. Sound(t, CAwaits(c)) /\ Pending(t) = Pending(s)
    BY <1>1, SetStateSound, PendingSetState DEF StreamState, Sound
  <2> HIDE DEF t
  <2>2. StopSending(id, t)
    BY <1>4 DEF t
  <2>3. ClientMove(id, <<HalfCloseFrame(id)>>)
    BY <1>1, <1>4, <2>1, <2>2, StopMoves DEF NoFault
  <2>4. QED
    BY <2>3
<1>5. CASE /\ PostToServer(<<MessageFrame(id, c.sent + 1)>>) /\ NoFault
           /\ SetCall(id, [c EXCEPT !.sent = c.sent + 1]) /\ UNCHANGED cStream
  <2> DEFINE d == [c EXCEPT !.sent = c.sent + 1]  frames == <<MessageFrame(id, c.sent + 1)>>
  <2>1. /\ d.snd = c.snd /\ d.pc = c.pc /\ d.outcome = c.outcome /\ d.received = c.received
        /\ d.code = c.code /\ d.sent = c.sent + 1 /\ d.signal = c.signal /\ c.sent + 1 \in Nat
    BY <1>1 DEF Call
  <2>2. /\ call' = [call EXCEPT ![id] = d] /\ cStream' = [cStream EXCEPT ![id] = s]
        /\ faults <= faults' /\ cStreams' \subseteq cStreams /\ PostToServer(frames)
    BY <1>1, <1>5 DEF SetCall, NoFault, WireTypeOK, ClientPart
  <2>3. Own(id, frames)
    BY <2>1, OwnFrames
  <2> HIDE DEF d
  <2>4. Hears(c, d, Pending(s), Pending(s)) /\ Says(id, c, d, frames)
    BY <1>1, <2>1 DEF Hears, Keeps, Deciding, Says
  <2>5. d.pc # "idle"
    BY <2>1
  <2> HIDE DEF frames
  <2>6. ClientMove(id, frames)
    BY <1>1, <2>2, <2>3, <2>4, <2>5, Moved
  <2>7. QED
    BY <2>6
<1>6. QED
  BY <1>2, <1>3, <1>4, <1>5 DEF SendRequest, EndRequests, RequestsThrow

(* The signal and the deadline push an error; only the signal cancels.     *)
LEMMA SignalMoves ==
  ASSUME IInv, NEW id \in Id, Deciding(call[id]), call[id].pc # "idle",
         Abort(id) \/ DeadlineFires(id)
  PROVE  \E frames : ClientMove(id, frames)
<1> DEFINE c == call[id]  s == cStream[id]
<1>1. /\ ClientPart /\ WireTypeOK /\ c \in Call /\ UNCHANGED <<cStreams, faults>>
      /\ Sound(s, CAwaits(c)) /\ CAwaits(c) \in BOOLEAN
  BY DEF IInv, ClientPart, GoodCall, Abort, DeadlineFires, CAwaits, NoFault
<1>2. cStreams' \subseteq cStreams /\ faults <= faults'
  BY <1>1 DEF WireTypeOK
<1>3. CASE Abort(id)
  <2> DEFINE d == [c EXCEPT !.signal = "aborted"]  t == Cancel(s)  frames == CancelFrames(id, t)
  <2>1. /\ call' = [call EXCEPT ![id] = d] /\ cStream' = [cStream EXCEPT ![id] = t]
        /\ PostToServer(frames)
    BY <1>3 DEF Abort, SetCall, SetCStream
  <2>2. /\ d.signal = "aborted" /\ d.pc = c.pc /\ d.outcome = c.outcome /\ d.received = c.received
        /\ d.code = c.code /\ d.sent = c.sent /\ d.snd = c.snd
    BY <1>1 DEF Call
  <2>3. Pending(t) = Pending(s) \/ Pending(t) = Pending(s) \o <<Error(CANCELLED)>>
    BY <1>1, PendingCancel
  <2>4. frames \in {<<>>, <<CancelFrame(id)>>} /\ Own(id, frames)
    BY CancelOrNothing
  <2> HIDE DEF d, t, frames, s
  <2>5. Keeps(c, d, Pending(s), Pending(t))
    BY <2>2, <2>3 DEF Keeps, CANCELLED
  <2>6. Hears(c, d, Pending(s), Pending(t)) /\ Says(id, c, d, frames)
    BY <2>2, <2>4, <2>5 DEF Hears, Deciding, Says
  <2>7. d.pc # "idle"
    BY <2>2
  <2>8. ClientMove(id, frames)
    BY <1>1, <1>2, <2>1, <2>4, <2>6, <2>7, Moved DEF s
  <2>9. QED
    BY <2>8
<1>4. CASE DeadlineFires(id)
  <2> DEFINE d == [c EXCEPT !.timer = FALSE]
             t == IF s.state \in {"open", "half_closed_local", "half_closed_remote"}
                  THEN Expire(s) ELSE s
             frames == IF t # s THEN CancelFrames(id, t) ELSE <<>>
  <2>1. /\ call' = [call EXCEPT ![id] = d] /\ cStream' = [cStream EXCEPT ![id] = t]
        /\ PostToServer(frames)
    BY <1>4 DEF DeadlineFires, SetCall, SetCStream
  <2>2. /\ d.signal = c.signal /\ d.pc = c.pc /\ d.outcome = c.outcome /\ d.received = c.received
        /\ d.code = c.code /\ d.sent = c.sent /\ d.snd = c.snd
    BY <1>1 DEF Call
  <2> DEFINE p == Push(s, Error(DEADLINE_EXCEEDED))
  <2>3. /\ p \in StreamObject /\ Expire(s) = SetState(p, "error")
        /\ Pending(p) = Pending(s) \o <<Error(DEADLINE_EXCEEDED)>>
    <3>1. Error(DEADLINE_EXCEEDED) \in QueueItem
      BY CodesTyped DEF DEADLINE_EXCEEDED
    <3>2. Sound(p, CAwaits(c))
      BY <1>1, <3>1, PushSound
    <3>3. QED
      BY <1>1, <3>1, <3>2, PendingPush DEF Sound, Expire
  <2>4. Expire(s).state = "error"
    <3> HIDE DEF p
    <3>1. QED
      BY <2>3 DEF SetState, StreamObject
  <2>5. Pending(t) = Pending(s) \/ Pending(t) = Pending(s) \o <<Error(DEADLINE_EXCEEDED)>>
    BY <2>3, PendingSetState
  <2>6. frames = <<>> /\ Own(id, frames)
    BY <2>4, CancelOrNothing
  <2> HIDE DEF d, t, frames, s, p
  <2>7. Keeps(c, d, Pending(s), Pending(t))
    BY <2>2, <2>5 DEF Keeps, CANCELLED, DEADLINE_EXCEEDED
  <2>8. Hears(c, d, Pending(s), Pending(t)) /\ Says(id, c, d, frames)
    BY <2>2, <2>6, <2>7 DEF Hears, Deciding, Says
  <2>9. d.pc # "idle"
    BY <2>2
  <2>10. ClientMove(id, frames)
    BY <1>1, <1>2, <2>1, <2>6, <2>8, <2>9, Moved DEF s
  <2>11. QED
    BY <2>10
<1>5. QED
  BY <1>3, <1>4

(* Every step of a call that was made is such a move.                      *)
LEMMA ClientMoves ==
  ASSUME IInv, NEW id \in Id, Deciding(call[id]), call[id].pc = "idle" => call[id] = NoCall,
         \/ ClientContinue(id) \/ AppNext(id) \/ AppReturn(id)
         \/ SendRequest(id) \/ EndRequests(id) \/ RequestsThrow(id)
         \/ Abort(id) \/ DeadlineFires(id)
  PROVE  \E frames : ClientMove(id, frames)
<1>1. ASSUME SendRequest(id) \/ EndRequests(id) \/ RequestsThrow(id) \/ Abort(id)
             \/ DeadlineFires(id)
      PROVE  call[id].pc # "idle"
  BY <1>1 DEF SendRequest, EndRequests, RequestsThrow, Abort, DeadlineFires, NoCall
<1>2. QED
  BY <1>1, CollectMoves, AppMoves, SettleMoves, RequestMoves, SignalMoves DEF ClientContinue

(***************************************************************************)
(* The same for a handler.  It answers nothing, one more response, its     *)
(* final frames, or its error; and it keeps its requests as they are,      *)
(* returns or throws, or takes the first item.                             *)
(***************************************************************************)
Answers(id, d, e, s, t, frames) ==
  /\ e.method = d.method /\ t.aborted = s.aborted
  /\ \/ /\ frames = <<>> /\ e.yielded = d.yielded /\ t.state = s.state
        /\ e.outcome = "ok" <=> d.outcome = "ok"
     \/ /\ frames = <<MessageFrame(id, d.yielded + 1)>> /\ e.yielded = d.yielded + 1
        /\ t.state = s.state /\ s.state # "cancelled"
        /\ d.outcome = "none" /\ e.outcome = "none"
        /\ d.method \notin {UNARY, CLIENT_STREAMING}
     \/ /\ frames = FinalFrames(id, d) /\ t.state = "closed" /\ s.state # "cancelled"
        /\ d.outcome = "none" /\ e.outcome = "ok"
        /\ e.yielded = IF d.method \in {UNARY, CLIENT_STREAMING} THEN 1 ELSE d.yielded
     \/ /\ frames = <<ErrorFrame(id, d.code)>> /\ e.yielded = d.yielded
        /\ t.state = s.state /\ s.state # "cancelled"
        /\ d.outcome = "failed" /\ e.outcome = "failed" /\ e.pc = "done"

Rests(d, e, pend, pend1) ==
  /\ e.got = d.got /\ e.reqs = d.reqs /\ pend1 = pend
  /\ \/ e.outcome = d.outcome /\ e.code = d.code
     \/ d.outcome = "none" /\ e.outcome \in {"ok", "silent"}
     \/ /\ d.outcome = "none" /\ e.outcome = "failed"
        /\ e.code = CANCELLED => CANCELLED \in HandlerCodes
Reads(d, e, pend, pend1) ==
  /\ d.outcome = "none" /\ d.reqs = "live" /\ pend # <<>> /\ pend1 = Tail(pend)
  /\ \/ /\ Head(pend).type = "message"
        /\ e.got = Append(d.got, Head(pend).val) /\ e.outcome = "none" /\ e.reqs = "live"
     \/ /\ Head(pend).type = "end"
        /\ e.got = d.got /\ e.outcome = "none" /\ e.reqs = "ended"
     \/ /\ Head(pend).type # "message" \/ e.outcome # "none"
        /\ e.got = d.got /\ e.outcome \in {"none", "failed"} /\ e.reqs # "ended"
        /\ e.code = CANCELLED /\ e.outcome = "failed" => Head(pend).type = "error"

Running(d) ==
  /\ d.outcome = "none" <=> d.pc \notin {"settle", "done"}
  /\ d.pc \in {"first", "second", "pull"} => d.reqs = "live"

ServerMove(id, frames) ==
  /\ srv[id].pc \notin {"off", "done"} /\ srv'[id].pc # "off"
  /\ \A i \in Id : i # id => srv'[i] = srv[i] /\ sStream'[i] = sStream[i]
  /\ Own(id, frames) /\ PostToClient(frames)
  /\ sStreams' \subseteq sStreams /\ UNCHANGED faults
  /\ srv'[id].pc = "done" => id \notin sStreams'
  /\ Answers(id, srv[id], srv'[id], sStream[id], sStream'[id], frames)
  /\ Rests(srv[id], srv'[id], Pending(sStream[id]), Pending(sStream'[id]))
     \/ Reads(srv[id], srv'[id], Pending(sStream[id]), Pending(sStream'[id]))
  /\ Running(srv'[id])

(* A step of a handler that is read and answered.                          *)
LEMMA ServedMove ==
  ASSUME ServerPart, NEW id \in Id, NEW e, NEW t,
         srv' = [srv EXCEPT ![id] = e], sStream' = [sStream EXCEPT ![id] = t],
         srv[id].pc \notin {"off", "done"}, e.pc # "off", sStreams' \subseteq sStreams,
         UNCHANGED faults, e.pc = "done" => id \notin sStreams',
         NEW frames, Own(id, frames), PostToClient(frames),
         Answers(id, srv[id], e, sStream[id], t, frames),
         \/ Rests(srv[id], e, Pending(sStream[id]), Pending(t))
         \/ Reads(srv[id], e, Pending(sStream[id]), Pending(t)),
         Running(e)
  PROVE  ServerMove(id, frames)
<1>1. /\ srv'[id] = e /\ sStream'[id] = t
      /\ \A i \in Id : i # id => srv'[i] = srv[i] /\ sStream'[i] = sStream[i]
  BY DEF ServerPart
<1>2. QED
  BY <1>1 DEF ServerMove

(* The fields of a handler that returns, throws or moves on.               *)
LEMMA ServedFields ==
  ASSUME NEW d \in Dispatch
  PROVE  /\ \A o : LET e == Return(d, o) IN
              /\ e.pc = "settle" /\ e.outcome = o /\ e.method = d.method /\ e.yielded = d.yielded
              /\ e.got = d.got /\ e.reqs = d.reqs /\ e.code = d.code
         /\ \A code : LET e == Throw(d, code) IN
              /\ e.pc = "settle" /\ e.outcome = "failed" /\ e.code = code /\ e.method = d.method
              /\ e.yielded = d.yielded /\ e.got = d.got /\ e.reqs = d.reqs
         /\ \A pc : LET e == [d EXCEPT !.pc = pc] IN
              /\ e.pc = pc /\ e.outcome = d.outcome /\ e.code = d.code /\ e.method = d.method
              /\ e.yielded = d.yielded /\ e.got = d.got /\ e.reqs = d.reqs
         /\ \A pc, r : LET e == [d EXCEPT !.pc = pc, !.reqs = r] IN
              /\ e.pc = pc /\ e.outcome = d.outcome /\ e.code = d.code /\ e.method = d.method
              /\ e.yielded = d.yielded /\ e.got = d.got /\ e.reqs = r
         /\ \A pc, g : LET e == [d EXCEPT !.pc = pc, !.got = g] IN
              /\ e.pc = pc /\ e.outcome = d.outcome /\ e.code = d.code /\ e.method = d.method
              /\ e.yielded = d.yielded /\ e.got = g /\ e.reqs = d.reqs
         /\ \A n : LET e == [d EXCEPT !.yielded = n] IN
              /\ e.pc = d.pc /\ e.outcome = d.outcome /\ e.code = d.code /\ e.method = d.method
              /\ e.yielded = n /\ e.got = d.got /\ e.reqs = d.reqs
         /\ \A n : LET e == [Return(d, "ok") EXCEPT !.yielded = n] IN
              /\ e.pc = "settle" /\ e.outcome = "ok" /\ e.code = d.code /\ e.method = d.method
              /\ e.yielded = n /\ e.got = d.got /\ e.reqs = d.reqs
         /\ \A code : LET e == Throw([d EXCEPT !.reqs = "failed"], code) IN
              /\ e.pc = "settle" /\ e.outcome = "failed" /\ e.code = code /\ e.method = d.method
              /\ e.yielded = d.yielded /\ e.got = d.got /\ e.reqs = "failed"
  BY DEF Return, Throw, Dispatch

(* collectUnary and the request iterable take an item or fail.             *)
LEMMA ReadMoves ==
  ASSUME IInv, NEW id \in Id, Running(srv[id]), ServerCollect(id) \/ HandlerGot(id)
  PROVE  \E frames : ServerMove(id, frames)
<1> DEFINE d == srv[id]  s == sStream[id]  item == s.hand  pend == Pending(s)
           G(pc) == [d EXCEPT !.pc = pc, !.got = Append(d.got, item.val)]
           R(r)  == [d EXCEPT !.pc = "run", !.reqs = r]
           F     == Throw([d EXCEPT !.reqs = "failed"], item.val)
<1>1. /\ ServerPart /\ WireTypeOK /\ d \in Dispatch /\ Sound(s, TRUE)
      /\ d.pc \in {"first", "second", "pull"} /\ Resolved(s) /\ UNCHANGED <<sStreams, wireVars>>
  <2>1. /\ ServerPart /\ WireTypeOK /\ d \in Dispatch /\ Sound(s, SAwaits(d))
        /\ d.pc \in {"first", "second", "pull"} /\ Resolved(s) /\ UNCHANGED <<sStreams, wireVars>>
    BY DEF IInv, ServerPart, ServerCollect, HandlerGot
  <2>2. SAwaits(d) = TRUE
    BY <2>1 DEF SAwaits
  <2>3. QED
    BY <2>1, <2>2
<1>2. d.outcome = "none" /\ d.reqs = "live"
  BY <1>1 DEF Running
<1>3. /\ PostToClient(<<>>) /\ Own(id, <<>>) /\ sStreams' \subseteq sStreams /\ UNCHANGED faults
  BY <1>1, NothingPosted DEF wireVars
<1>4. /\ pend # <<>> /\ Head(pend) = item
      /\ \A t \in {Consume(s), NextItem(Consume(s))} :
           Pending(t) = Tail(pend) /\ t.state = s.state /\ t.aborted = s.aborted
  BY <1>1, TakesFirst
<1>5. \E e, t : /\ srv' = [srv EXCEPT ![id] = e] /\ sStream' = [sStream EXCEPT ![id] = t]
                /\ t \in {Consume(s), NextItem(Consume(s))}
                /\ \/ item.type = "message" /\ (e = G("second") \/ e = G("run"))
                   \/ item.type = "end" /\ e = R("ended")
                   \/ item.type = "error" /\ e \in {Throw(d, item.val), F, R("failed")}
                   \/ e = Throw(d, INTERNAL)
  <2>1. \/ item.type = "message" /\ (SetSrv(id, G("second")) \/ SetSrv(id, G("run")))
        \/ item.type = "end" /\ SetSrv(id, R("ended"))
        \/ item.type = "error"
           /\ (SetSrv(id, Throw(d, item.val)) \/ SetSrv(id, F) \/ SetSrv(id, R("failed")))
        \/ SetSrv(id, Throw(d, INTERNAL))
    <3>1. CASE ServerCollect(id)
      BY <3>1 DEF ServerCollect
    <3>2. CASE HandlerGot(id)
      BY <3>2 DEF HandlerGot
    <3>3. QED
      BY <3>1, <3>2
  <2>2. SetSStream(id, Consume(s)) \/ SetSStream(id, NextItem(Consume(s)))
    BY DEF ServerCollect, HandlerGot
  <2> HIDE DEF d, s, item, pend, G, R, F
  <2>3. QED
    BY <2>1, <2>2 DEF SetSStream, SetSrv
<1>6. PICK e, t : /\ srv' = [srv EXCEPT ![id] = e] /\ sStream' = [sStream EXCEPT ![id] = t]
                  /\ t \in {Consume(s), NextItem(Consume(s))}
                  /\ \/ item.type = "message" /\ (e = G("second") \/ e = G("run"))
                     \/ item.type = "end" /\ e = R("ended")
                     \/ item.type = "error" /\ e \in {Throw(d, item.val), F, R("failed")}
                     \/ e = Throw(d, INTERNAL)
  BY <1>5
<1>7. INTERNAL # CANCELLED
  BY DEF INTERNAL, CANCELLED
<1>8. /\ \A pc : /\ G(pc).pc = pc /\ G(pc).outcome = d.outcome /\ G(pc).method = d.method
                 /\ G(pc).yielded = d.yielded /\ G(pc).got = Append(d.got, item.val)
                 /\ G(pc).reqs = d.reqs
      /\ \A r : /\ R(r).pc = "run" /\ R(r).outcome = d.outcome /\ R(r).method = d.method
                /\ R(r).yielded = d.yielded /\ R(r).got = d.got /\ R(r).reqs = r
      /\ F.pc = "settle" /\ F.outcome = "failed" /\ F.method = d.method
      /\ F.yielded = d.yielded /\ F.got = d.got /\ F.reqs = "failed"
  BY <1>1, ServedFields
<1>9. \A code : LET x == Throw(d, code) IN
        /\ x.pc = "settle" /\ x.outcome = "failed" /\ x.code = code /\ x.method = d.method
        /\ x.yielded = d.yielded /\ x.got = d.got /\ x.reqs = d.reqs
  BY <1>1, ServedFields
<1>10. Pending(t) = Tail(pend) /\ t.state = s.state /\ t.aborted = s.aborted
  BY <1>4, <1>6
<1> HIDE DEF d, s, item, pend, G, R, F
<1>11. /\ e.method = d.method /\ e.yielded = d.yielded /\ e.pc \in {"second", "run", "settle"}
       /\ e.outcome # "ok" /\ Running(e)
  BY <1>2, <1>6, <1>8, <1>9 DEF Running
<1>12. Answers(id, d, e, s, t, <<>>)
  BY <1>2, <1>10, <1>11 DEF Answers
<1>13. Reads(d, e, pend, Pending(t))
  <2>1. CASE item.type = "message" /\ (e = G("second") \/ e = G("run"))
    BY <1>2, <1>4, <1>8, <1>10, <2>1 DEF Reads
  <2>2. CASE item.type = "end" /\ e = R("ended")
    BY <1>2, <1>4, <1>8, <1>10, <2>2 DEF Reads
  <2>3. CASE item.type = "error" /\ e \in {Throw(d, item.val), F, R("failed")}
    BY <1>2, <1>4, <1>8, <1>9, <1>10, <2>3 DEF Reads
  <2>4. CASE e = Throw(d, INTERNAL)
    BY <1>2, <1>4, <1>7, <1>9, <1>10, <2>4 DEF Reads
  <2>5. QED
    BY <1>6, <2>1, <2>2, <2>3, <2>4
<1>14. d.pc \notin {"off", "done"} /\ e.pc # "off" /\ e.pc # "done"
  BY <1>1, <1>11
<1>15. ServerMove(id, <<>>)
  BY <1>1, <1>3, <1>6, <1>11, <1>12, <1>13, <1>14, ServedMove DEF d, s, pend
<1>16. QED
  BY <1>15

(* The frames a handler sends carry its own id.                            *)
LEMMA OwnAnswers ==
  ASSUME NEW id \in Id
  PROVE  /\ Own(id, <<>>)
         /\ \A n \in Nat : Own(id, <<MessageFrame(id, n)>>) /\ Own(id, <<ErrorFrame(id, n)>>)
         /\ \A d : Own(id, FinalFrames(id, d))
<1> DEFINE mine == {f \in Frame(Id) : f.streamId = id}
<1>1. /\ \A n \in Nat : MessageFrame(id, n) \in mine /\ ErrorFrame(id, n) \in mine
      /\ HalfCloseFrame(id) \in mine /\ CloseFrame(id) \in mine
  BY FramesTyped DEF MessageFrame, ErrorFrame, HalfCloseFrame, CloseFrame
<1>2. Own(id, <<>>)
  BY DEF Own
<1>3. \A f \in mine : Own(id, <<f>>)
  BY DEF Own
<1>4. \A f, g \in mine : Own(id, <<f, g>>)
  BY DEF Own
<1> HIDE DEF mine
<1>5. ASSUME NEW d
      PROVE  Own(id, FinalFrames(id, d))
  <2>1. FinalFrames(id, d) \in {<<MessageFrame(id, 1), CloseFrame(id)>>, <<CloseFrame(id)>>,
                                <<HalfCloseFrame(id), CloseFrame(id)>>}
    BY DEF FinalFrames
  <2>2. /\ Own(id, <<MessageFrame(id, 1), CloseFrame(id)>>) /\ Own(id, <<CloseFrame(id)>>)
        /\ Own(id, <<HalfCloseFrame(id), CloseFrame(id)>>)
    BY <1>1, <1>3, <1>4
  <2>3. QED
    BY <2>1, <2>2, Zenon
<1>6. QED
  BY <1>1, <1>2, <1>3, <1>5

(* The handler asks for a request or throws.                               *)
LEMMA HandlerMovesQuietly ==
  ASSUME IInv, NEW id \in Id, Running(srv[id]), HandlerPull(id) \/ HandlerThrow(id)
  PROVE  \E frames : ServerMove(id, frames)
<1> DEFINE d == srv[id]  s == sStream[id]
<1>1. /\ ServerPart /\ WireTypeOK /\ d \in Dispatch /\ Sound(s, FALSE)
      /\ d.pc = "run" /\ UNCHANGED <<sStreams, wireVars>>
  <2>1. /\ ServerPart /\ WireTypeOK /\ d \in Dispatch /\ Sound(s, SAwaits(d))
        /\ d.pc = "run" /\ UNCHANGED <<sStreams, wireVars>>
    BY DEF IInv, ServerPart, HandlerPull, HandlerThrow
  <2>2. SAwaits(d) = FALSE
    BY <2>1 DEF SAwaits
  <2>3. QED
    BY <2>1, <2>2
<1>2. d.outcome = "none" /\ d.pc \notin {"off", "done"}
  BY <1>1 DEF Running
<1>3. /\ PostToClient(<<>>) /\ Own(id, <<>>) /\ sStreams' \subseteq sStreams /\ UNCHANGED faults
  BY <1>1, NothingPosted DEF wireVars
<1>4. CASE HandlerPull(id)
  <2> DEFINE e == [d EXCEPT !.pc = "pull"]  t == NextItem(s)
  <2>1. /\ srv' = [srv EXCEPT ![id] = e] /\ sStream' = [sStream EXCEPT ![id] = t]
        /\ d.reqs = "live"
    BY <1>4 DEF HandlerPull, SetSrv, SetSStream
  <2>2. /\ e.pc = "pull" /\ e.outcome = d.outcome /\ e.code = d.code /\ e.method = d.method
        /\ e.yielded = d.yielded /\ e.got = d.got /\ e.reqs = d.reqs
    BY <1>1, ServedFields
  <2>3. Pending(t) = Pending(s) /\ t.state = s.state /\ t.aborted = s.aborted
    BY <1>1, AsksNext
  <2> HIDE DEF d, s, e, t
  <2>4. Answers(id, d, e, s, t, <<>>)
    BY <2>2, <2>3 DEF Answers
  <2>5. Rests(d, e, Pending(s), Pending(t)) /\ Running(e)
    BY <1>2, <2>1, <2>2, <2>3 DEF Rests, Running
  <2>6. e.pc # "off" /\ e.pc # "done"
    BY <2>2
  <2>7. ServerMove(id, <<>>)
    BY <1>1, <1>2, <1>3, <2>1, <2>4, <2>5, <2>6, ServedMove DEF d, s
  <2>8. QED
    BY <2>7
<1>5. CASE HandlerThrow(id)
  <2>1. PICK code \in HandlerCodes : SetSrv(id, Throw(d, code))
    BY <1>5 DEF HandlerThrow
  <2> DEFINE e == Throw(d, code)
  <2>2. srv' = [srv EXCEPT ![id] = e] /\ sStream' = [sStream EXCEPT ![id] = s]
    BY <1>1, <1>5, <2>1 DEF HandlerThrow, SetSrv, ServerPart
  <2>3. /\ e.pc = "settle" /\ e.outcome = "failed" /\ e.code = code /\ e.method = d.method
        /\ e.yielded = d.yielded /\ e.got = d.got /\ e.reqs = d.reqs
    <3>1. \A k : LET x == Throw(d, k) IN
            /\ x.pc = "settle" /\ x.outcome = "failed" /\ x.code = k /\ x.method = d.method
            /\ x.yielded = d.yielded /\ x.got = d.got /\ x.reqs = d.reqs
      BY <1>1, ServedFields
    <3> HIDE DEF d
    <3>2. QED
      BY <3>1
  <2> HIDE DEF d, s, e
  <2>4. Answers(id, d, e, s, s, <<>>)
    BY <1>2, <2>3 DEF Answers
  <2>5. Rests(d, e, Pending(s), Pending(s)) /\ Running(e)
    BY <1>2, <2>3 DEF Rests, Running
  <2>6. e.pc # "off" /\ e.pc # "done"
    BY <2>3
  <2>7. ServerMove(id, <<>>)
    BY <1>1, <1>2, <1>3, <2>2, <2>4, <2>5, <2>6, ServedMove DEF d, s
  <2>8. QED
    BY <2>7
<1>6. QED
  BY <1>4, <1>5

(* The handler yields a response, or finishes.                             *)
LEMMA HandlerMovesAloud ==
  ASSUME IInv, NEW id \in Id, Running(srv[id]), HandlerYield(id) \/ HandlerFinish(id)
  PROVE  \E frames : ServerMove(id, frames)
<1> DEFINE d == srv[id]  s == sStream[id]  n == d.yielded + 1
<1>1. /\ ServerPart /\ d \in Dispatch /\ s \in StreamObject
      /\ d.pc = "run" /\ UNCHANGED <<sStreams, faults>>
  BY DEF IInv, ServerPart, HandlerYield, HandlerFinish, NoFault
<1>2. /\ d.outcome = "none" /\ d.pc \notin {"off", "done"} /\ n \in Nat
      /\ sStreams' \subseteq sStreams
  BY <1>1 DEF Running, Dispatch
<1>3. INTERNAL # CANCELLED
  BY DEF INTERNAL, CANCELLED
<1>4. /\ Own(id, <<>>) /\ Own(id, <<MessageFrame(id, n)>>) /\ Own(id, FinalFrames(id, d))
  BY <1>2, OwnAnswers
<1> DEFINE Y == [d EXCEPT !.yielded = n]
           m == IF d.method \in {UNARY, CLIENT_STREAMING} THEN 1 ELSE Return(d, "ok").yielded
           K == [Return(d, "ok") EXCEPT !.yielded = m]
           C == SetState(s, "closed")
<1>5. \/ /\ srv' = [srv EXCEPT ![id] = Return(d, "silent")] /\ PostToClient(<<>>)
         /\ UNCHANGED sStream
      \/ /\ srv' = [srv EXCEPT ![id] = Throw(d, INTERNAL)] /\ PostToClient(<<>>)
         /\ UNCHANGED sStream
      \/ /\ srv' = [srv EXCEPT ![id] = Y] /\ PostToClient(<<MessageFrame(id, n)>>)
         /\ s.state # "cancelled" /\ d.method \in {SERVER_STREAMING, BIDI_STREAMING}
         /\ UNCHANGED sStream
      \/ /\ srv' = [srv EXCEPT ![id] = K] /\ PostToClient(FinalFrames(id, d))
         /\ s.state # "cancelled" /\ sStream' = [sStream EXCEPT ![id] = C]
  <2>1. CASE HandlerYield(id)
    BY <2>1 DEF HandlerYield, StopsYielding, SetSrv
  <2>2. CASE HandlerFinish(id)
    BY <2>2 DEF HandlerFinish, SetSrv, SetSStream
  <2>3. QED
    BY <2>1, <2>2
<1>6. /\ \A o : LET e == Return(d, o) IN
           /\ e.pc = "settle" /\ e.outcome = o /\ e.method = d.method /\ e.yielded = d.yielded
           /\ e.got = d.got /\ e.reqs = d.reqs /\ e.code = d.code
      /\ \A code : LET e == Throw(d, code) IN
           /\ e.pc = "settle" /\ e.outcome = "failed" /\ e.code = code /\ e.method = d.method
           /\ e.yielded = d.yielded /\ e.got = d.got /\ e.reqs = d.reqs
  BY <1>1, ServedFields
<1>7. /\ Y.pc = d.pc /\ Y.outcome = d.outcome /\ Y.code = d.code /\ Y.method = d.method
      /\ Y.yielded = n /\ Y.got = d.got /\ Y.reqs = d.reqs
      /\ K.pc = "settle" /\ K.outcome = "ok" /\ K.code = d.code /\ K.method = d.method
      /\ K.yielded = m /\ K.got = d.got /\ K.reqs = d.reqs
  <2>1. /\ Y.pc = d.pc /\ Y.outcome = d.outcome /\ Y.code = d.code /\ Y.method = d.method
        /\ Y.yielded = n /\ Y.got = d.got /\ Y.reqs = d.reqs
    BY <1>1, ServedFields
  <2>2. \A k : LET x == [Return(d, "ok") EXCEPT !.yielded = k] IN
          /\ x.pc = "settle" /\ x.outcome = "ok" /\ x.code = d.code /\ x.method = d.method
          /\ x.yielded = k /\ x.got = d.got /\ x.reqs = d.reqs
    BY <1>1, ServedFields
  <2> HIDE DEF d, m, Y
  <2>3. QED
    BY <2>1, <2>2
<1>8. C.state = "closed" /\ C.aborted = s.aborted /\ Pending(C) = Pending(s)
  BY <1>1, PendingSetState DEF SetState, StreamObject
<1>9. UNCHANGED sStream => sStream' = [sStream EXCEPT ![id] = s]
  BY <1>1 DEF ServerPart
<1>m. m = IF d.method \in {UNARY, CLIENT_STREAMING} THEN 1 ELSE d.yielded
  <2> HIDE DEF d
  <2>1. QED
    BY <1>6
<1> HIDE DEF d, s, n, Y, m, K, C
<1>10. CASE /\ srv' = [srv EXCEPT ![id] = Return(d, "silent")] /\ PostToClient(<<>>)
            /\ UNCHANGED sStream
  <2> DEFINE e == Return(d, "silent")
  <2>1. /\ e.pc = "settle" /\ e.outcome = "silent" /\ e.method = d.method
        /\ e.yielded = d.yielded /\ e.got = d.got /\ e.reqs = d.reqs /\ e.code = d.code
    BY <1>6
  <2>2. srv' = [srv EXCEPT ![id] = e] /\ PostToClient(<<>>) /\ sStream' = [sStream EXCEPT ![id] = s]
    BY <1>9, <1>10
  <2> HIDE DEF e
  <2>3. Answers(id, d, e, s, s, <<>>) /\ Rests(d, e, Pending(s), Pending(s)) /\ Running(e)
    BY <1>2, <2>1 DEF Answers, Rests, Running
  <2>4. e.pc # "off" /\ e.pc # "done"
    BY <2>1
  <2>5. ServerMove(id, <<>>)
    BY <1>1, <1>2, <1>4, <2>2, <2>3, <2>4, ServedMove DEF d, s
  <2>6. QED
    BY <2>5
<1>11. CASE /\ srv' = [srv EXCEPT ![id] = Throw(d, INTERNAL)] /\ PostToClient(<<>>)
            /\ UNCHANGED sStream
  <2> DEFINE e == Throw(d, INTERNAL)
  <2>1. /\ e.pc = "settle" /\ e.outcome = "failed" /\ e.code = INTERNAL /\ e.method = d.method
        /\ e.yielded = d.yielded /\ e.got = d.got /\ e.reqs = d.reqs
    BY <1>6
  <2>2. srv' = [srv EXCEPT ![id] = e] /\ PostToClient(<<>>) /\ sStream' = [sStream EXCEPT ![id] = s]
    BY <1>9, <1>11
  <2> HIDE DEF e
  <2>3. Answers(id, d, e, s, s, <<>>) /\ Rests(d, e, Pending(s), Pending(s)) /\ Running(e)
    BY <1>2, <1>3, <2>1 DEF Answers, Rests, Running
  <2>4. e.pc # "off" /\ e.pc # "done"
    BY <2>1
  <2>5. ServerMove(id, <<>>)
    BY <1>1, <1>2, <1>4, <2>2, <2>3, <2>4, ServedMove DEF d, s
  <2>6. QED
    BY <2>5
<1>12. CASE /\ srv' = [srv EXCEPT ![id] = Y] /\ PostToClient(<<MessageFrame(id, n)>>)
            /\ s.state # "cancelled" /\ d.method \in {SERVER_STREAMING, BIDI_STREAMING}
            /\ UNCHANGED sStream
  <2> DEFINE frames == <<MessageFrame(id, n)>>
  <2>1. sStream' = [sStream EXCEPT ![id] = s]
    BY <1>9, <1>12
  <2>2. Answers(id, d, Y, s, s, frames)
    BY <1>2, <1>7, <1>12 DEF Answers, n, UNARY, CLIENT_STREAMING, SERVER_STREAMING, BIDI_STREAMING
  <2>3. Rests(d, Y, Pending(s), Pending(s)) /\ Running(Y)
    BY <1>1, <1>2, <1>7 DEF Rests, Running
  <2>4. Y.pc # "off" /\ Y.pc # "done"
    BY <1>1, <1>7
  <2> HIDE DEF frames
  <2>5. Own(id, frames) /\ PostToClient(frames)
    BY <1>4, <1>12 DEF frames
  <2>6. ServerMove(id, frames)
    BY <1>1, <1>2, <1>12, <2>1, <2>2, <2>3, <2>4, <2>5, ServedMove DEF d, s
  <2>7. QED
    BY <2>6
<1>13. CASE /\ srv' = [srv EXCEPT ![id] = K] /\ PostToClient(FinalFrames(id, d))
            /\ s.state # "cancelled" /\ sStream' = [sStream EXCEPT ![id] = C]
  <2> DEFINE frames == FinalFrames(id, d)
  <2>1. Answers(id, d, K, s, C, frames)
    BY <1>2, <1>7, <1>8, <1>13, <1>m DEF Answers
  <2>2. Rests(d, K, Pending(s), Pending(C)) /\ Running(K)
    BY <1>2, <1>7, <1>8 DEF Rests, Running
  <2>3. K.pc # "off" /\ K.pc # "done"
    BY <1>7
  <2> HIDE DEF frames
  <2>4. Own(id, frames) /\ PostToClient(frames)
    BY <1>4, <1>13 DEF frames
  <2>5. ServerMove(id, frames)
    BY <1>1, <1>2, <1>13, <2>1, <2>2, <2>3, <2>4, ServedMove DEF d, s
  <2>6. QED
    BY <2>5
<1>14. QED
  BY <1>5, <1>10, <1>11, <1>12, <1>13

(* catch and finally of a dispatch.                                        *)
LEMMA SettleAnswers ==
  ASSUME IInv, NEW id \in Id, Running(srv[id]), SettleDispatch(id)
  PROVE  \E frames : ServerMove(id, frames)
<1> DEFINE d == srv[id]  s == sStream[id]  e == [d EXCEPT !.pc = "done"]
           frames == IF d.outcome = "failed" /\ s.state # "cancelled"
                     THEN ErrorFrames(id, d.code) ELSE <<>>
<1>1. /\ ServerPart /\ d \in Dispatch /\ d.pc = "settle" /\ UNCHANGED <<sStream, faults>>
      /\ PostToClient(frames) /\ srv' = [srv EXCEPT ![id] = e] /\ sStreams' = sStreams \ {id}
  BY DEF IInv, ServerPart, SettleDispatch, NoFault, SetSrv
<1>2. sStream' = [sStream EXCEPT ![id] = s] /\ d.code \in Nat
  BY <1>1 DEF ServerPart, Dispatch
<1>3. /\ Own(id, frames)
      /\ \/ frames = <<>>
         \/ frames = <<ErrorFrame(id, d.code)>> /\ d.outcome = "failed" /\ s.state # "cancelled"
  BY <1>2, OwnAnswers DEF ErrorFrames
<1>4. /\ e.pc = "done" /\ e.outcome = d.outcome /\ e.code = d.code /\ e.method = d.method
      /\ e.yielded = d.yielded /\ e.got = d.got /\ e.reqs = d.reqs
  BY <1>1, ServedFields
<1>5. /\ d.outcome # "none" /\ d.pc \notin {"off", "done"} /\ e.pc # "off"
      /\ sStreams' \subseteq sStreams /\ id \notin sStreams'
  BY <1>1, <1>4 DEF Running
<1> HIDE DEF d, s, e, frames
<1>6. Answers(id, d, e, s, s, frames)
  BY <1>3, <1>4 DEF Answers
<1>7. Rests(d, e, Pending(s), Pending(s)) /\ Running(e)
  BY <1>4, <1>5 DEF Rests, Running
<1>8. ServerMove(id, frames)
  BY <1>1, <1>2, <1>3, <1>5, <1>6, <1>7, ServedMove DEF d, s
<1>9. QED
  BY <1>8

(* Every step of a running dispatch is such a move.                        *)
LEMMA ServerMoves ==
  ASSUME IInv, NEW id \in Id, Running(srv[id]), ServerContinue(id) \/ HandlerMoves(id)
  PROVE  \E frames : ServerMove(id, frames)
  BY ReadMoves, HandlerMovesQuietly, HandlerMovesAloud, SettleAnswers
     DEF ServerContinue, HandlerMoves

(***************************************************************************)
(* Making a call.                                                          *)
(***************************************************************************)
StartMove(id, m, frames) ==
  /\ call[id].pc = "idle" /\ call'[id].pc # "idle" /\ Deciding(call'[id])
  /\ \A i \in Id : i # id => call'[i] = call[i] /\ cStream'[i] = cStream[i]
  /\ Own(id, frames) /\ PostToServer(frames)
  /\ cStreams' \subseteq cStreams \cup {id} /\ faults <= faults' /\ cOpen
  /\ call'[id].received = <<>>
  /\ \/ call'[id].outcome = "none"
     \/ call'[id].outcome = "rejected" /\ call'[id].code = LocalError
  /\ \/ Pending(cStream'[id]) = <<>>
     \/ Pending(cStream'[id]) = <<Error(CANCELLED)>> /\ call'[id].signal = "aborted"
  /\ \/ /\ frames = <<OpenFrame(id, m), MessageFrame(id, 1), HalfCloseFrame(id)>>
        /\ call'[id].sent = 1 /\ call'[id].snd = "off"
     \/ /\ frames = <<OpenFrame(id, m)>>
        /\ call'[id].sent = 0 /\ call'[id].snd = "pull"
     \/ /\ frames \in {<<>>, <<OpenFrame(id, m), CancelFrame(id)>>}
        /\ call'[id].sent = 0 /\ call'[id].snd = "off" /\ call'[id].outcome = "rejected"

(* What a prepared stream holds: nothing, or the error of a signal that    *)
(* was aborted before the call.                                            *)
LEMMA PreparedPending ==
  ASSUME NEW signal
  PROVE  /\ Sound(Prepared(signal), FALSE)
         /\ \/ Pending(Prepared(signal)) = <<>>
            \/ Pending(Prepared(signal)) = <<Error(CANCELLED)>> /\ signal = "aborted"
<1>1. Sound(NewStream, FALSE)
  BY NewStreamSound
<1>2. Sound(Cancel(NewStream), FALSE)
  BY <1>1, CancelSound
<1>3. Pending(NewStream) = <<>>
  BY PendingNew
<1>4. \/ Pending(Cancel(NewStream)) = Pending(NewStream)
      \/ Pending(Cancel(NewStream)) = Pending(NewStream) \o <<Error(CANCELLED)>>
  BY <1>1, PendingCancel
<1>5. <<>> \o <<Error(CANCELLED)>> = <<Error(CANCELLED)>>
  OBVIOUS
<1>6. QED
  BY <1>1, <1>2, <1>3, <1>4, <1>5 DEF Prepared

(* And so does the stream of a new call, opened and perhaps awaited.       *)
LEMMA OpenedPending ==
  ASSUME NEW signal, NEW st \in StreamState
  PROVE  LET s == SetState(Prepared(signal), st) IN
         /\ Pending(s) = Pending(Prepared(signal))
         /\ Pending(NextItem(s)) = Pending(Prepared(signal))
<1> DEFINE p == Prepared(signal)
<1>1. Sound(p, FALSE)
  BY PreparedPending
<1>2. Pending(SetState(p, st)) = Pending(p)
  BY <1>1, PendingSetState DEF Sound
<1>3. Sound(SetState(p, st), FALSE)
  BY <1>1, SetStateSound
<1>4. QED
  BY <1>2, <1>3, PendingNextItem

(* The fields of a new call.                                               *)
LEMMA NewCallFields ==
  ASSUME NEW kind \in MethodType, NEW signal \in {"none", "armed", "aborted"},
         NEW deadline \in BOOLEAN
  PROVE  LET c == NewCall(kind, signal, deadline) IN
         /\ c \in Call /\ c.received = <<>> /\ c.signal = signal /\ c.outcome = "none"
         /\ c.snd = "off" /\ c.sent = 0
<1>1. /\ NoCall \in Call /\ NoCall.received = <<>> /\ NoCall.outcome = "none"
      /\ NoCall.snd = "off" /\ NoCall.sent = 0
  <2>1. <<>> \in Seq(Nat) /\ UNARY \in MethodType
    BY DEF MethodType, UNARY, BIDI_STREAMING
  <2>2. QED
    BY <2>1 DEF NoCall, Call
<1> HIDE DEF NoCall
<1>2. QED
  BY <1>1 DEF NewCall, Call

(* Every way to make a call is such a move.                                *)
LEMMA StartMoves ==
  ASSUME IInv, Tidy, NEW id \in Id, ClientStart(id)
  PROVE  \E m \in Method : \E frames : StartMove(id, m, frames)
<1>1. PICK p \in Calls, signal \in Signals, deadline \in Deadlines :
        \/ StartSingleRequest(id, p[1], p[2], signal, deadline)
        \/ StartRequestStream(id, p[1], p[2], signal, deadline)
        \/ StartFails(id, p[1], p[2], signal, deadline)
  BY DEF ClientStart
<1> DEFINE kind == p[1]  m == p[2]
<1>2. /\ kind \in MethodType /\ m \in Method /\ deadline \in BOOLEAN
      /\ signal \in {"none", "armed", "aborted"}
  BY ClientAssumption
<1> HIDE DEF kind, m
<1>3. EnsureOpen(id)
  BY <1>1 DEF StartSingleRequest, StartRequestStream, StartFails, kind, m
<1>4. ClientPart /\ WireTypeOK /\ call[id].pc = "idle" /\ cOpen
  BY <1>3, IdIsNat DEF IInv, Tidy, ClientTidy, EnsureOpen, ClientPart
<1>5. faults \in Nat
  BY <1>4 DEF WireTypeOK
<1> DEFINE new == NewCall(kind, signal, deadline)
<1>6. /\ new \in Call /\ new.received = <<>> /\ new.signal = signal /\ new.outcome = "none"
      /\ new.snd = "off" /\ new.sent = 0
  BY <1>2, NewCallFields
<1>7. ASSUME NEW c, NEW s, call' = [call EXCEPT ![id] = c], cStream' = [cStream EXCEPT ![id] = s]
      PROVE  /\ call'[id] = c /\ cStream'[id] = s
             /\ \A i \in Id : i # id => call'[i] = call[i] /\ cStream'[i] = cStream[i]
  BY <1>4, <1>7 DEF ClientPart
<1>8. CASE StartSingleRequest(id, kind, m, signal, deadline)
  <2> DEFINE c == [new EXCEPT !.pc = IF kind = UNARY THEN "first" ELSE "iter", !.sent = 1]
             s == NextItem(SetState(Prepared(signal), "half_closed_local"))
             frames == <<OpenFrame(id, m), MessageFrame(id, 1), HalfCloseFrame(id)>>
  <2>1. /\ call' = [call EXCEPT ![id] = c] /\ cStream' = [cStream EXCEPT ![id] = s]
        /\ PostToServer(frames) /\ cStreams' = cStreams \cup {id} /\ faults' = faults
    BY <1>8 DEF StartSingleRequest, SetCall, SetCStream, NoFault
  <2>2. Own(id, frames)
    BY <1>2, OwnFrames
  <2> HIDE DEF frames
  <2>3. /\ c.pc \in {"first", "iter"} /\ c.received = <<>> /\ c.signal = signal
        /\ c.outcome = "none" /\ c.snd = "off" /\ c.sent = 1
    <3> HIDE DEF new
    <3>1. QED
      BY <1>6 DEF Call
  <2>4. Pending(s) = Pending(Prepared(signal))
    BY OpenedPending DEF StreamState
  <2> HIDE DEF c, s
  <2>5. /\ call'[id] = c /\ cStream'[id] = s
        /\ \A i \in Id : i # id => call'[i] = call[i] /\ cStream'[i] = cStream[i]
    BY <1>7, <2>1
  <2>6. Deciding(c)
    BY <2>3 DEF Deciding
  <2>7. \/ Pending(s) = <<>>
        \/ Pending(s) = <<Error(CANCELLED)>> /\ signal = "aborted"
    BY <2>4, PreparedPending
  <2>8. StartMove(id, m, frames)
    BY <1>4, <1>5, <2>1, <2>2, <2>3, <2>5, <2>6, <2>7 DEF StartMove, frames
  <2>9. QED
    BY <1>2, <2>8
<1>9. CASE StartRequestStream(id, kind, m, signal, deadline)
  <2> DEFINE c == [new EXCEPT !.pc = IF kind = BIDI_STREAMING THEN "iter" ELSE "send",
                         !.snd = "pull"]
             o == SetState(Prepared(signal), "open")
             s == IF kind = BIDI_STREAMING THEN NextItem(o) ELSE o
             frames == <<OpenFrame(id, m)>>
  <2>1. /\ call' = [call EXCEPT ![id] = c] /\ cStream' = [cStream EXCEPT ![id] = s]
        /\ PostToServer(frames) /\ cStreams' = cStreams \cup {id} /\ faults' = faults
    BY <1>9 DEF StartRequestStream, SetCall, SetCStream, NoFault
  <2>2. Own(id, frames)
    BY <1>2, OwnFrames
  <2> HIDE DEF frames
  <2>3. /\ c.pc \in {"send", "iter"} /\ c.received = <<>> /\ c.signal = signal
        /\ c.outcome = "none" /\ c.snd = "pull" /\ c.sent = 0
    <3> HIDE DEF new
    <3>1. QED
      BY <1>6 DEF Call
  <2>4. Pending(s) = Pending(Prepared(signal))
    BY OpenedPending DEF StreamState
  <2> HIDE DEF c, s
  <2>5. /\ call'[id] = c /\ cStream'[id] = s
        /\ \A i \in Id : i # id => call'[i] = call[i] /\ cStream'[i] = cStream[i]
    BY <1>7, <2>1
  <2>6. Deciding(c)
    BY <2>3 DEF Deciding
  <2>7. \/ Pending(s) = <<>>
        \/ Pending(s) = <<Error(CANCELLED)>> /\ signal = "aborted"
    BY <2>4, PreparedPending
  <2>8. StartMove(id, m, frames)
    BY <1>4, <1>5, <2>1, <2>2, <2>3, <2>5, <2>6, <2>7 DEF StartMove, frames
  <2>9. QED
    BY <1>2, <2>8
<1>10. CASE StartFails(id, kind, m, signal, deadline)
  <2> DEFINE n == NewCall(kind, signal, FALSE)
             c == [Cleanup(n) EXCEPT !.pc = "done", !.outcome = "rejected", !.code = LocalError]
             q == Prepared(signal)
  <2>1. PICK frames \in {<<>>, <<OpenFrame(id, m), CancelFrame(id)>>},
             s \in {q, SetState(q, "open")} :
          cStream' = [cStream EXCEPT ![id] = s] /\ PostToServer(frames)
    BY <1>10 DEF StartFails, SetCStream
  <2>2. /\ call' = [call EXCEPT ![id] = c] /\ cStreams' = cStreams /\ faults <= faults'
    BY <1>5, <1>10 DEF StartFails, SetCall, NoFault, Fault
  <2>3. Own(id, frames)
    BY <1>2, <2>1, OwnFrames
  <2>4. /\ Cleanup(n) \in Call /\ Cleanup(n).received = <<>> /\ Cleanup(n).sent = 0
        /\ Cleanup(n).snd = "off" /\ (signal = "aborted" => Cleanup(n).signal = "aborted")
    <3>1. /\ n \in Call /\ n.received = <<>> /\ n.signal = signal /\ n.snd = "off" /\ n.sent = 0
      BY <1>2, NewCallFields
    <3> HIDE DEF n
    <3>2. QED
      BY <3>1 DEF Cleanup, Call
  <2>5. /\ c.pc = "done" /\ c.received = <<>> /\ (signal = "aborted" => c.signal = "aborted")
        /\ c.outcome = "rejected" /\ c.code = LocalError /\ c.snd = "off" /\ c.sent = 0
    <3> DEFINE k == Cleanup(n)
    <3> HIDE DEF k
    <3>1. QED
      BY <2>4 DEF Call, k
  <2>6. Pending(s) = Pending(q)
    BY <2>1, OpenedPending DEF StreamState
  <2> HIDE DEF c, q
  <2>7. /\ call'[id] = c /\ cStream'[id] = s
        /\ \A i \in Id : i # id => call'[i] = call[i] /\ cStream'[i] = cStream[i]
    BY <1>7, <2>1, <2>2
  <2>8. Deciding(c)
    BY <2>5 DEF Deciding
  <2>9. \/ Pending(s) = <<>>
        \/ Pending(s) = <<Error(CANCELLED)>> /\ signal = "aborted"
    BY <2>6, PreparedPending DEF q
  <2>10. StartMove(id, m, frames)
    BY <1>4, <2>1, <2>2, <2>3, <2>5, <2>7, <2>8, <2>9 DEF StartMove
  <2>11. QED
    BY <1>2, <2>10
<1>11. QED
  BY <1>1, <1>8, <1>9, <1>10 DEF kind, m

(***************************************************************************)
(* The steps of the system, by what they do to wires and flows.            *)
(***************************************************************************)
ClientEnds == ClientClose \/ ClientTransportError
ServerEnds == ServerClose \/ ServerTransportError

Sane(id) == /\ Deciding(call[id]) /\ Running(srv[id])
            /\ call[id].pc = "idle" => call[id] = NoCall

(* Every step is one of these. *)
LEMMA Steps ==
  ASSUME IInv, Tidy, \A id \in Id : Sane(id), [Next]_vars
  PROVE  \/ UNCHANGED vars
         \/ \E id \in Id : \E frames : ClientMove(id, frames) /\ UNCHANGED serverVars
         \/ \E id \in Id, m \in Method : \E frames : StartMove(id, m, frames)
            /\ UNCHANGED serverVars
         \/ ClientHandleFrame /\ UNCHANGED serverVars
         \/ ClientEnds /\ UNCHANGED serverVars
         \/ \E id \in Id : \E frames : ServerMove(id, frames) /\ UNCHANGED clientVars
         \/ ServerHandleFrame /\ UNCHANGED clientVars
         \/ ServerEnds /\ UNCHANGED clientVars
<1>1. CASE UNCHANGED vars
  BY <1>1
<1>2. CASE ClientStep
  <2>1. ClientNext /\ UNCHANGED serverVars
    BY <1>2 DEF ClientStep
  <2>2. ASSUME NEW id \in Id,
               \/ ClientContinue(id) \/ AppNext(id) \/ AppReturn(id)
               \/ SendRequest(id) \/ EndRequests(id) \/ RequestsThrow(id)
               \/ Abort(id) \/ DeadlineFires(id)
        PROVE  \E frames : ClientMove(id, frames)
    BY <2>2, ClientMoves DEF Sane
  <2>3. ASSUME NEW id \in Id, ClientStart(id)
        PROVE  \E m \in Method : \E frames : StartMove(id, m, frames)
    BY <2>3, StartMoves
  <2>4. QED
    BY <2>1, <2>2, <2>3 DEF ClientNext, ClientEnds
<1>3. CASE ServerStep
  <2>1. ServerNext /\ UNCHANGED clientVars
    BY <1>3 DEF ServerStep
  <2>2. ASSUME NEW id \in Id, ServerContinue(id) \/ HandlerMoves(id)
        PROVE  \E frames : ServerMove(id, frames)
    BY <2>2, ServerMoves DEF Sane
  <2>3. QED
    BY <2>1, <2>2 DEF ServerNext, ServerEnds
<1>4. CASE Terminated
  BY <1>4 DEF Terminated
<1>5. QED
  BY <1>1, <1>2, <1>3, <1>4 DEF Next

(* What is of a stream on a wire one side may have posted to.              *)
LEMMA PostedOf ==
  ASSUME NEW q \in Seq(Frame(Id)), NEW id \in Id, NEW frames, Own(id, frames),
         NEW q1, q1 = q \/ q1 = q \o frames
  PROVE  /\ \A i \in Id : Of(q, i) \subseteq Of(q1, i)
         /\ \A i \in Id : i # id => Of(q1, i) = Of(q, i)
         /\ \A f \in Of(q1, id) : f \in Of(q, id) \/ \E k \in 1..Len(frames) : f = frames[k]
<1>1. frames \in Seq(Frame(Id))
  BY DEF Own
<1>2. \A i \in Id : Of(q \o frames, i) = Of(q, i) \cup Of(frames, i)
  BY <1>1, OfConcat
<1>3. /\ \A i \in Id : i # id => Of(frames, i) = {}
      /\ \A f \in Of(frames, id) : \E k \in 1..Len(frames) : f = frames[k]
  BY OfOwn
<1>4. QED
  BY <1>2, <1>3

(***************************************************************************)
(* The lives of a call and of its dispatch, and the frames they leave on   *)
(* the wires.                                                              *)
(***************************************************************************)
Opening(id)   == \E f \in Of(toServer, id) : f.body = "open"
Untouched(id) == /\ id \notin sStreams /\ sStream[id] = NewStream /\ srv[id] = NoDispatch
                 /\ Of(toClient, id) = {}
Finished(id)  == \/ srv[id].pc = "done" \/ srv[id].outcome = "ok"
                 \/ srv[id].pc = "off" /\ call[id].pc # "idle" /\ ~Opening(id)

(* What a client sends, and what a server answers. *)
Asks(id) ==
  \A f \in Of(toServer, id) : /\ f.body \in {"open", "message", "halfClose", "cancel"}
                              /\ f.body = "halfClose" => call[id].snd # "pull"
Replies(id) ==
  \A f \in Of(toClient, id) : /\ f.body \in {"message", "halfClose", "close", "error"}
                              /\ f.body # "message" => Finished(id)

(* Before the call, nothing; and until OPEN is dispatched, no server. *)
Fresh(id) ==
  /\ call[id].pc = "idle" => /\ call[id] = NoCall /\ cStream[id] = NewStream
                             /\ Of(toServer, id) = {} /\ Untouched(id)
  /\ Opening(id) => Untouched(id)
Alive(id) ==
  /\ Deciding(call[id]) /\ Running(srv[id])
  /\ srv[id].method \in {UNARY, CLIENT_STREAMING} /\ srv[id].outcome # "ok" => srv[id].yielded = 0
  /\ sStream[id].state = "closed" => srv[id].outcome = "ok"
  /\ sStream[id].state = "cancelled" => id \notin sStreams

(* The wires are in order, and a closed side has let go of its own. *)
Wires ==
  /\ Ordered(toServer) /\ Ordered(toClient)
  /\ ~cOpen => cStreams = {} /\ toClient = <<>>
  /\ ~sOpen => sStreams = {} /\ toServer = <<>>
Life == Wires /\ \A id \in Id : Asks(id) /\ Replies(id) /\ Fresh(id) /\ Alive(id)

(* Each step starts and ends in states of the earlier invariants. *)
Steady == IInv /\ Tidy /\ IInv' /\ Tidy'

(* A call moves. *)
LEMMA LifeClientMove ==
  ASSUME Steady, Life, NEW id \in Id, NEW frames, ClientMove(id, frames), UNCHANGED serverVars
  PROVE  Life'
<1>1. /\ toServer \in Seq(Frame(Id)) /\ toServer' \in Seq(Frame(Id))
      /\ UNCHANGED <<cOpen, sOpen, toClient, srv, sStream, sStreams>>
      /\ Own(id, frames) /\ cStreams' \subseteq cStreams
  BY DEF Steady, IInv, WireTypeOK, ClientMove, PostToServer, serverVars
<1>2. toServer' = toServer \o frames \/ (toServer' = toServer /\ ~sOpen)
  BY DEF ClientMove, PostToServer
<1>3. Says(id, call[id], call'[id], frames) /\ call'[id].pc # "idle" /\ call[id].pc # "idle"
  BY DEF ClientMove
<1>4. \A k \in 1..Len(frames) :
        /\ frames[k].body \in {"message", "halfClose", "cancel"}
        /\ frames[k].body \in {"message", "halfClose"} => call[id].snd = "pull"
        /\ frames[k].body = "halfClose" => call'[id].snd # "pull"
  BY <1>3 DEF Says, MessageFrame, HalfCloseFrame, CancelFrame
<1>5. Ordered(frames)
  BY <1>3, OrderedShort DEF Says
<1>6. /\ \A i \in Id : Of(toServer, i) \subseteq Of(toServer', i)
      /\ \A i \in Id : i # id => Of(toServer', i) = Of(toServer, i)
      /\ \A f \in Of(toServer', id) : f \in Of(toServer, id)
         \/ \E k \in 1..Len(frames) : f = frames[k]
  BY <1>1, <1>2, PostedOf
<1>7. Wires'
  <2>1. \A f \in Of(toServer, id), g \in Of(frames, id) : MayFollow(f, g)
    BY <1>1, <1>4, OfOwn DEF Life, Asks, MayFollow
  <2>2. Ordered(toServer \o frames)
    BY <1>1, <1>5, <2>1, OrderedPost DEF Life, Wires
  <2>3. Ordered(toServer')
    BY <1>2, <2>2 DEF Life, Wires
  <2>4. ~sOpen => toServer' = <<>>
    BY DEF Life, Wires, ClientMove, PostToServer
  <2>5. QED
    BY <1>1, <2>3, <2>4 DEF Life, Wires
<1>8. \A i \in Id : Opening(i)' <=> Opening(i)
  BY <1>4, <1>6 DEF Opening
<1>9. ASSUME NEW i \in Id
      PROVE  /\ call'[i].pc = "idle" <=> call[i].pc = "idle"
             /\ call'[i].pc = "idle" => /\ call'[i] = call[i] /\ cStream'[i] = cStream[i]
                                        /\ Of(toServer', i) = Of(toServer, i)
             /\ Deciding(call'[i])
             /\ call[i].snd # "pull" => call'[i].snd # "pull"
  BY <1>3, <1>6 DEF ClientMove, Hears, Deciding, Life, Alive, Says
<1>10. ASSUME NEW i \in Id
       PROVE  Asks(i)'
  BY <1>4, <1>6, <1>9 DEF Life, Asks
<1>11. ASSUME NEW i \in Id
       PROVE  Replies(i)' /\ Fresh(i)' /\ Alive(i)'
  BY <1>1, <1>8, <1>9 DEF Life, Replies, Fresh, Alive, Finished, Untouched
<1>12. QED
  BY <1>7, <1>10, <1>11 DEF Life

(* A call is made. *)
LEMMA LifeStartMove ==
  ASSUME Steady, Life, NEW id \in Id, NEW m \in Method, NEW frames, StartMove(id, m, frames),
         UNCHANGED serverVars
  PROVE  Life'
<1>1. /\ toServer \in Seq(Frame(Id)) /\ toServer' \in Seq(Frame(Id))
      /\ UNCHANGED <<cOpen, sOpen, toClient, srv, sStream, sStreams>>
      /\ Own(id, frames) /\ cOpen
  BY DEF Steady, IInv, WireTypeOK, StartMove, PostToServer, serverVars
<1>2. toServer' = toServer \o frames \/ (toServer' = toServer /\ ~sOpen)
  BY DEF StartMove, PostToServer
<1>3. /\ call[id].pc = "idle" /\ call'[id].pc # "idle" /\ Deciding(call'[id])
      /\ Untouched(id) /\ Of(toServer, id) = {}
  BY DEF StartMove, Life, Fresh
<1>4. \A k \in 1..Len(frames) :
        /\ frames[k].body \in {"open", "message", "halfClose", "cancel"}
        /\ frames[k].body = "halfClose" => call'[id].snd # "pull"
  BY DEF StartMove, OpenFrame, MessageFrame, HalfCloseFrame, CancelFrame
<1>5. Ordered(frames)
  BY DEF StartMove, Ordered, MayFollow, OpenFrame, MessageFrame, HalfCloseFrame, CancelFrame
<1>6. /\ \A i \in Id : i # id => Of(toServer', i) = Of(toServer, i)
      /\ \A f \in Of(toServer', id) : \E k \in 1..Len(frames) : f = frames[k]
  BY <1>1, <1>2, <1>3, PostedOf
<1>7. Wires'
  <2>1. Ordered(toServer \o frames)
    BY <1>1, <1>3, <1>5, OrderedPost DEF Life, Wires
  <2>2. Ordered(toServer')
    BY <1>2, <2>1 DEF Life, Wires
  <2>3. ~sOpen => toServer' = <<>>
    BY DEF Life, Wires, StartMove, PostToServer
  <2>4. QED
    BY <1>1, <2>2, <2>3 DEF Life, Wires
<1>8. ASSUME NEW i \in Id
      PROVE  Asks(i)'
  BY <1>4, <1>6 DEF Life, Asks, StartMove
<1>9. ASSUME NEW i \in Id, i # id
      PROVE  Replies(i)' /\ Fresh(i)' /\ Alive(i)'
  BY <1>1, <1>6, <1>9 DEF Life, Replies, Fresh, Alive, Finished, Untouched, StartMove, Opening
<1>10. Replies(id)' /\ Fresh(id)' /\ Alive(id)'
  BY <1>1, <1>3 DEF Life, Replies, Fresh, Alive, Untouched
<1>11. QED
  BY <1>7, <1>8, <1>9, <1>10 DEF Life

(* The client dispatches a frame. *)
LEMMA LifeClientFrame ==
  ASSUME Steady, Life, ClientHandleFrame, UNCHANGED serverVars
  PROVE  Life'
<1>1. /\ toClient \in Seq(Frame(Id)) /\ toClient # <<>> /\ toClient' = Tail(toClient)
      /\ UNCHANGED <<cOpen, sOpen, toServer, call, cStreams, srv, sStream, sStreams>>
  BY DEF Steady, IInv, WireTypeOK, ClientHandleFrame, serverVars
<1>2. \A i \in Id : Of(toClient', i) \subseteq Of(toClient, i)
  BY <1>1, OfTail
<1>3. Wires'
  <2>1. Ordered(toClient')
    BY <1>1, OrderedTail DEF Life, Wires
  <2>2. QED
    BY <1>1, <2>1 DEF Life, Wires
<1>4. ASSUME NEW i \in Id, Untouched(i)
      PROVE  Untouched(i)' /\ cStream'[i] = cStream[i]
  <2>1. Untouched(i)'
    BY <1>1, <1>2, <1>4 DEF Untouched
  <2>2. Head(toClient).streamId # i
    BY <1>1, <1>4, OfTail DEF Untouched
  <2>3. QED
    BY <2>1, <2>2 DEF ClientHandleFrame
<1>5. ASSUME NEW i \in Id
      PROVE  Fresh(i)'
  BY <1>1, <1>4 DEF Life, Fresh, Opening
<1>6. ASSUME NEW i \in Id
      PROVE  Asks(i)' /\ Replies(i)' /\ Alive(i)'
  BY <1>1, <1>2 DEF Life, Asks, Replies, Alive, Finished, Opening
<1>7. QED
  BY <1>3, <1>5, <1>6 DEF Life

(* A side closes, or its transport fails. *)
LEMMA LifeEnds ==
  ASSUME Steady, Life,
         (ClientEnds /\ UNCHANGED serverVars) \/ (ServerEnds /\ UNCHANGED clientVars)
  PROVE  Life'
<1>1. /\ toServer \in Seq(Frame(Id)) /\ toClient \in Seq(Frame(Id))
      /\ UNCHANGED <<call, srv>>
      /\ toServer' = toServer \/ toServer' = <<>>
      /\ toClient' = toClient \/ toClient' = <<>>
  BY DEF Steady, IInv, WireTypeOK, ClientEnds, ServerEnds, ClientClose, ClientTransportError,
         ServerClose, ServerTransportError, CloseClientSide,
         CloseServerSide, serverVars, clientVars,
         CancelAllClientStreams, CancelAllServerStreams
<1>2. \A i \in Id : /\ Of(toServer', i) \subseteq Of(toServer, i)
                    /\ Of(toClient', i) \subseteq Of(toClient, i)
  BY <1>1, OfOwn, OwnFrames
<1>3. /\ cStreams' \subseteq cStreams /\ sStreams' \subseteq sStreams
      /\ ~cOpen' => cStreams' = {} /\ toClient' = <<>>
      /\ ~sOpen' => sStreams' = {} /\ toServer' = <<>>
  BY DEF Life, Wires, ClientEnds, ServerEnds, ClientClose, ClientTransportError,
         ServerClose, ServerTransportError, CloseClientSide,
         CloseServerSide, serverVars, clientVars,
         CancelAllClientStreams, CancelAllServerStreams
<1>4. Wires'
  <2>1. Ordered(toServer') /\ Ordered(toClient')
    BY <1>1, OrderedShort DEF Life, Wires
  <2>2. QED
    BY <1>3, <2>1 DEF Wires
<1>5. ASSUME NEW i \in Id
      PROVE  /\ i \notin cStreams => cStream'[i] = cStream[i]
             /\ i \notin sStreams => sStream'[i] = sStream[i]
             /\ \/ sStream'[i].state = sStream[i].state
                \/ sStream'[i].state = "cancelled" /\ sStreams' = {}
  <2>1. CASE ClientEnds /\ UNCHANGED serverVars
    BY <2>1 DEF ClientEnds, ClientClose, ClientTransportError, CancelAllClientStreams, serverVars
  <2>2. CASE ServerEnds /\ UNCHANGED clientVars
    <3>1. /\ sStreams' = {} /\ cStream' = cStream
          /\ sStream'[i] = IF i \in sStreams THEN Cancel(sStream[i]) ELSE sStream[i]
      BY <2>2 DEF ServerEnds, ServerClose, ServerTransportError, CancelAllServerStreams, clientVars
    <3>2. Sound(sStream[i], SAwaits(srv[i])) /\ SAwaits(srv[i]) \in BOOLEAN
      BY DEF Steady, IInv, ServerPart, SAwaits
    <3>3. Cancel(sStream[i]).state = sStream[i].state \/ Cancel(sStream[i]).state = "cancelled"
      BY <3>2 DEF Sound, Cancel, Push, StreamObject
    <3>4. QED
      BY <3>1, <3>3
  <2>3. QED
    BY <2>1, <2>2
<1>6. ASSUME NEW i \in Id
      PROVE  Fresh(i)'
  <2>1. call[i].pc = "idle" => i \notin cStreams
    BY DEF Steady, Tidy, ClientTidy, Over
  <2>2. ASSUME Untouched(i)
        PROVE  Untouched(i)'
    BY <1>1, <1>2, <1>3, <1>5, <2>2 DEF Untouched
  <2>3. Opening(i)' => Opening(i)
    BY <1>2 DEF Opening
  <2>4. QED
    BY <1>1, <1>2, <1>5, <2>1, <2>2, <2>3 DEF Life, Fresh
<1>7. ASSUME NEW i \in Id
      PROVE  Asks(i)' /\ Replies(i)' /\ Alive(i)'
  <2>1. Opening(i)' => Opening(i)
    BY <1>2 DEF Opening
  <2>2. QED
    BY <1>1, <1>2, <1>3, <1>5, <2>1 DEF Life, Asks, Replies, Alive, Finished
<1>8. QED
  BY <1>4, <1>6, <1>7 DEF Life

(* What a handler may send: nothing when it has finished, and only a       *)
(* message while it has not.                                               *)
LEMMA AnswersKnown ==
  ASSUME NEW id \in Id, NEW frames, NEW d, NEW e, NEW s, NEW t, Answers(id, d, e, s, t, frames),
         d.pc # "done"
  PROVE  /\ frames # <<>> => d.outcome # "ok" /\ s.state # "cancelled"
         /\ \A k \in 1..Len(frames) :
              /\ frames[k].body \in {"message", "halfClose", "close", "error"}
              /\ frames[k].body # "message" => e.outcome = "ok" \/ e.pc = "done"
         /\ Ordered(frames)
         /\ d.outcome = "ok" => e.outcome = "ok"
<1>1. FinalFrames(id, d) \in {<<MessageFrame(id, 1), CloseFrame(id)>>, <<CloseFrame(id)>>,
                              <<HalfCloseFrame(id), CloseFrame(id)>>}
  BY DEF FinalFrames
<1>2. \/ frames = <<>>
      \/ \E n : frames = <<MessageFrame(id, n)>> /\ d.outcome = "none" /\ s.state # "cancelled"
      \/ /\ frames \in {<<MessageFrame(id, 1), CloseFrame(id)>>, <<CloseFrame(id)>>,
                        <<HalfCloseFrame(id), CloseFrame(id)>>}
         /\ e.outcome = "ok" /\ d.outcome = "none" /\ s.state # "cancelled"
      \/ /\ \E code : frames = <<ErrorFrame(id, code)>>
         /\ e.pc = "done" /\ d.outcome = "failed" /\ s.state # "cancelled"
  BY <1>1 DEF Answers
<1>3. \A k \in 1..Len(frames) :
        /\ frames[k].body \in {"message", "halfClose", "close", "error"}
        /\ frames[k].body # "message" => e.outcome = "ok" \/ e.pc = "done"
  BY <1>2 DEF MessageFrame, CloseFrame, HalfCloseFrame, ErrorFrame
<1>4. Ordered(frames)
  BY <1>2, OrderedShort DEF Ordered, MayFollow, MessageFrame, CloseFrame, HalfCloseFrame
<1>5. d.outcome = "ok" => e.outcome = "ok"
  BY DEF Answers
<1>6. QED
  BY <1>2, <1>3, <1>4, <1>5

(* A handler moves. *)
LEMMA LifeServerMove ==
  ASSUME Steady, Life, NEW id \in Id, NEW frames, ServerMove(id, frames), UNCHANGED clientVars
  PROVE  Life'
<1>1. /\ toClient \in Seq(Frame(Id)) /\ toClient' \in Seq(Frame(Id))
      /\ UNCHANGED <<cOpen, sOpen, toServer, call, cStream, cStreams>>
      /\ Own(id, frames) /\ sStreams' \subseteq sStreams
      /\ toClient' = toClient \o frames \/ (toClient' = toClient /\ ~cOpen)
  BY DEF Steady, IInv, WireTypeOK, ServerMove, PostToClient, clientVars
<1>2. /\ srv[id].pc \notin {"off", "done"} /\ srv'[id].pc # "off" /\ Running(srv'[id])
      /\ Answers(id, srv[id], srv'[id], sStream[id], sStream'[id], frames)
      /\ \A i \in Id : i # id => srv'[i] = srv[i] /\ sStream'[i] = sStream[i]
  BY DEF ServerMove
<1>3. /\ frames # <<>> => srv[id].outcome # "ok" /\ sStream[id].state # "cancelled"
      /\ \A k \in 1..Len(frames) :
           /\ frames[k].body \in {"message", "halfClose", "close", "error"}
           /\ frames[k].body # "message" => srv'[id].outcome = "ok" \/ srv'[id].pc = "done"
      /\ Ordered(frames)
      /\ srv[id].outcome = "ok" => srv'[id].outcome = "ok"
  BY <1>2, AnswersKnown
<1>4. /\ \A i \in Id : i # id => Of(toClient', i) = Of(toClient, i)
      /\ \A f \in Of(toClient', id) : f \in Of(toClient, id)
         \/ \E k \in 1..Len(frames) : f = frames[k]
  BY <1>1, PostedOf
<1>5. frames # <<>> => ~Finished(id)
  BY <1>2, <1>3 DEF Finished
<1>6. Wires'
  <2>1. \A f \in Of(toClient, id), g \in Of(frames, id) : MayFollow(f, g)
    <3>1. \A g \in Of(frames, id) : frames # <<>> /\ g.body # "open"
      BY <1>1, <1>3, OfOwn
    <3>2. QED
      BY <1>5, <3>1 DEF Life, Replies, MayFollow
  <2>2. Ordered(toClient \o frames)
    BY <1>1, <1>3, <2>1, OrderedPost DEF Life, Wires
  <2>3. Ordered(toClient') /\ (~cOpen => toClient' = <<>>)
    BY <1>1, <2>2 DEF Life, Wires, ServerMove, PostToClient
  <2>4. QED
    BY <1>1, <2>3 DEF Life, Wires
<1>7. Finished(id) => Finished(id)'
  BY <1>2, <1>3 DEF Finished
<1>8. ~Untouched(id)
  BY <1>2 DEF Untouched, NoDispatch
<1>9. ASSUME NEW i \in Id, i # id
      PROVE  Replies(i)' /\ Fresh(i)' /\ Alive(i)'
  BY <1>1, <1>2, <1>4, <1>9 DEF Life, Replies, Fresh, Alive, Finished, Untouched, Opening
<1>10. Replies(id)'
  <2>1. ASSUME NEW f \in Of(toClient', id)
        PROVE  /\ f.body \in {"message", "halfClose", "close", "error"}
               /\ f.body # "message" => Finished(id)'
    BY <1>3, <1>4, <1>7 DEF Life, Replies, Finished
  <2>2. QED
    BY <2>1 DEF Replies
<1>11. Fresh(id)'
  BY <1>1, <1>8 DEF Life, Fresh, Opening
<1>12. Alive(id)'
  <2>1. /\ srv'[id].method \in {UNARY, CLIENT_STREAMING} /\ srv'[id].outcome # "ok"
           => srv'[id].yielded = 0
        /\ sStream'[id].state = "closed" => srv'[id].outcome = "ok"
        /\ sStream'[id].state = "cancelled" => id \notin sStreams
    BY <1>2 DEF Life, Alive, Answers
  <2>2. QED
    BY <1>1, <1>2, <2>1 DEF Life, Alive
<1>13. ASSUME NEW i \in Id
       PROVE  Asks(i)'
  BY <1>1 DEF Life, Asks
<1>14. QED
  BY <1>6, <1>9, <1>10, <1>11, <1>12, <1>13 DEF Life

(***************************************************************************)
(* The server dispatches a frame: OPEN is refused or accepted, the others  *)
(* are delivered.                                                          *)
(***************************************************************************)
Refused(f, code) ==
  /\ f.body = "open" /\ code \in Nat /\ code # CANCELLED
  /\ \/ toClient' = toClient
     \/ toClient' = toClient \o <<ErrorFrame(f.streamId, code)>> /\ cOpen
  /\ UNCHANGED serverVars
Accepted(f, d, s) ==
  /\ f.body = "open" /\ sStreams' = sStreams \cup {f.streamId}
  /\ sStream' = [sStream EXCEPT ![f.streamId] = s]
  /\ Pending(s) = <<>> /\ s.state = "open" /\ s.aborted = FALSE
  /\ srv' = [srv EXCEPT ![f.streamId] = d]
  /\ d.pc # "off" /\ Running(d) /\ d.outcome = "none" /\ d.reqs = "live" /\ d.got = <<>>
  /\ d.yielded = 0
  /\ UNCHANGED toClient

(* Nothing else happens when the server handles a frame.                   *)
LEMMA ServerFrames ==
  ASSUME IInv, ServerHandleFrame
  PROVE  LET f == Head(toServer) IN
         /\ f \in Frame(Id) /\ f.streamId \in Id
         /\ toServer # <<>> /\ toServer' = Tail(toServer) /\ UNCHANGED <<cOpen, sOpen, faults>>
         /\ \/ \E code : Refused(f, code)
            \/ \E d, s : Accepted(f, d, s)
            \/ f.body # "open" /\ HandleStreamFrame(f)
<1> DEFINE f == Head(toServer)
<1>1. toServer \in Seq(Frame(Id)) /\ toServer # <<>>
  BY DEF IInv, WireTypeOK, ServerHandleFrame
<1>2. f \in Frame(Id) /\ f.streamId \in Id
  BY <1>1 DEF Frame
<1>3. toServer' = Tail(toServer) /\ UNCHANGED <<cOpen, sOpen, faults>>
  BY DEF ServerHandleFrame
<1>4. \/ f.body = "open" /\ HandleOpen(f)
      \/ f.body # "open" /\ HandleStreamFrame(f)
  BY DEF ServerHandleFrame
<1> HIDE DEF f
<1>5. ASSUME f.body = "open", HandleOpen(f)
      PROVE  (\E code : Refused(f, code)) \/ \E d, s : Accepted(f, d, s)
  <2> DEFINE id == f.streamId  error == OpenError(id, f.arg)
  <2>1. CASE error # 0 /\ UNCHANGED serverVars
             /\ toClient' = IF cOpen THEN toClient \o ErrorFrames(id, error) ELSE toClient
    <3>1. error \in {INVALID_ARGUMENT, UNIMPLEMENTED, INTERNAL}
      BY <2>1 DEF OpenError
    <3>2. error \in Nat /\ error # CANCELLED
      BY <3>1 DEF INVALID_ARGUMENT, UNIMPLEMENTED, INTERNAL, CANCELLED
    <3>3. ErrorFrames(id, error) = <<>> \/ ErrorFrames(id, error) = <<ErrorFrame(id, error)>>
      BY DEF ErrorFrames
    <3>4. toClient \o <<>> = toClient
      BY DEF IInv, WireTypeOK
    <3> HIDE DEF error
    <3>5. Refused(f, error)
      BY <1>5, <2>1, <3>2, <3>3, <3>4 DEF Refused
    <3>6. QED
      BY <3>5
  <2> DEFINE first == f.arg \in {UNARY, SERVER_STREAMING}
             o == SetState(NewStream, "open")
             s == IF first THEN NextItem(o) ELSE o
             d == [NoDispatch EXCEPT !.method = f.arg, !.pc = IF first THEN "first" ELSE "run"]
  <2>2. CASE /\ sStreams' = sStreams \cup {id} /\ sStream' = [sStream EXCEPT ![id] = s]
             /\ srv' = [srv EXCEPT ![id] = d] /\ UNCHANGED toClient
    <3>1. Sound(NewStream, FALSE) /\ Sound(o, FALSE)
      BY NewStreamSound, SetStateSound DEF StreamState
    <3>2. Pending(NextItem(o)) = Pending(o) /\ Pending(o) = Pending(NewStream)
          /\ Pending(NewStream) = <<>>
      BY <3>1, PendingNextItem, PendingSetState, PendingNew DEF Sound
    <3>3. /\ o.state = "open" /\ o.aborted = FALSE
          /\ NextItem(o).state = o.state /\ NextItem(o).aborted = o.aborted
      <4>1. o.state = "open" /\ o.aborted = FALSE
        BY DEF SetState, NewStream
      <4>2. NextItem(o).state = o.state /\ NextItem(o).aborted = o.aborted
        BY <3>1, AsksNext
      <4>3. QED
        BY <4>1, <4>2
    <3>4. Pending(s) = <<>> /\ s.state = "open" /\ s.aborted = FALSE
      BY <3>2, <3>3
    <3>5. /\ d.pc \in {"first", "run"} /\ d.outcome = "none" /\ d.reqs = "live" /\ d.got = <<>>
          /\ d.yielded = 0
      BY DEF NoDispatch
    <3> HIDE DEF d, s
    <3>6. d.pc # "off" /\ Running(d)
      BY <3>5 DEF Running
    <3>7. Accepted(f, d, s)
      BY <1>5, <2>2, <3>4, <3>5, <3>6 DEF Accepted
    <3>8. QED
      BY <3>7
  <2>3. QED
    BY <1>5, <2>1, <2>2 DEF HandleOpen, SetSStream, SetSrv
<1>6. QED
  BY <1>1, <1>2, <1>3, <1>4, <1>5 DEF f

(* What a frame does to the state of its stream. *)
LEMMA ReceiveState ==
  ASSUME NEW s, NEW w \in BOOLEAN, Sound(s, w), NEW f \in Frame(Id), f.body # "open"
  PROVE  LET t == ServerReceive(s, f) IN
         /\ t.state = "closed" => s.state = "closed"
         /\ t.state = "cancelled" => s.state = "cancelled" \/ f.body = "cancel"
         /\ t.aborted => s.aborted \/ f.body = "cancel"
<1>1. s \in StreamObject
  BY DEF Sound
<1>2. \A x \in StreamObject : \A e : Push(x, e).state = x.state /\ Push(x, e).aborted = x.aborted
  BY DEF Push, StreamObject
<1>3. \A st \in StreamState : LET x == SetState(s, st) IN
        x \in StreamObject /\ x.state = st /\ x.aborted = s.aborted
  BY <1>1 DEF SetState, StreamObject
<1>4. CASE f.body = "message"
  BY <1>1, <1>2, <1>4 DEF ServerReceive
<1>5. CASE f.body = "halfClose"
  <2> DEFINE st == IF s.state = "half_closed_local" THEN "half_closed_both"
               ELSE "half_closed_remote"
  <2>1. st \in StreamState /\ st # "closed" /\ st # "cancelled"
    BY DEF StreamState
  <2>2. ServerReceive(s, f) = Push(SetState(s, st), End)
    BY <1>5 DEF ServerReceive
  <2> HIDE DEF st
  <2>3. QED
    BY <1>2, <1>3, <2>1, <2>2
<1>6. CASE f.body = "cancel"
  <2>1. ServerReceive(s, f) = Cancel(s)
    BY <1>6 DEF ServerReceive
  <2>2. Cancel(s).state = s.state \/ Cancel(s).state = "cancelled"
    BY <1>1 DEF Cancel, Push, StreamObject
  <2>3. QED
    BY <1>6, <2>1, <2>2
<1>7. CASE f.body = "error"
  BY <1>1, <1>2, <1>7 DEF ServerReceive
<1>8. CASE f.body = "close"
  BY <1>8 DEF ServerReceive
<1>9. QED
  BY <1>4, <1>5, <1>6, <1>7, <1>8 DEF Frame, Body

(* An OPEN is refused. *)
LEMMA LifeRefused ==
  ASSUME Steady, Life, toServer # <<>>, toServer' = Tail(toServer), UNCHANGED <<cOpen, sOpen>>,
         UNCHANGED clientVars, NEW code, Refused(Head(toServer), code)
  PROVE  Life'
<1>1. PICK f, id : f = Head(toServer) /\ id = f.streamId
  OBVIOUS
<1>2. /\ toServer \in Seq(Frame(Id)) /\ toClient \in Seq(Frame(Id)) /\ f \in Frame(Id) /\ id \in Id
      /\ UNCHANGED <<call, cStream, cStreams, srv, sStream, sStreams>>
  BY <1>1 DEF Steady, IInv, WireTypeOK, Refused, serverVars, clientVars, Frame
<1>3. /\ \A i \in Id : Of(toServer', i) \subseteq Of(toServer, i)
      /\ f \in Of(toServer, id)
  BY <1>1, <1>2, OfTail
<1>4. Ordered(toServer') /\ \A g \in Of(toServer', id) : MayFollow(f, g)
  BY <1>1, <1>2, OrderedTail DEF Life, Wires
<1> DEFINE frames == <<ErrorFrame(id, code)>>
<1>5. Own(id, frames) /\ Ordered(frames)
  BY <1>1, <1>2, OwnAnswers, OrderedShort DEF Refused
<1>6. toClient' = toClient \/ (toClient' = toClient \o frames /\ cOpen)
  BY <1>1 DEF Refused
<1>7. frames[1].body = "error" /\ Len(frames) = 1
  BY DEF ErrorFrame
<1>8. f.body = "open"
  BY <1>1 DEF Refused
<1> HIDE DEF frames
<1>9. Untouched(id) /\ call[id].pc # "idle" /\ ~Opening(id)' /\ srv[id].pc = "off"
  BY <1>2, <1>3, <1>4, <1>8 DEF Life, Fresh, Opening, MayFollow, Untouched, NoDispatch
<1>10. /\ \A i \in Id : i # id => Of(toClient', i) = Of(toClient, i)
      /\ \A g \in Of(toClient', id) : g.body = "error"
  <2>1. \A g \in Of(toClient', id) : g \in Of(toClient, id)
        \/ \E k \in 1..Len(frames) : g = frames[k]
    BY <1>2, <1>5, <1>6, PostedOf
  <2>2. \A i \in Id : i # id => Of(toClient', i) = Of(toClient, i)
    BY <1>2, <1>5, <1>6, PostedOf
  <2>3. QED
    BY <1>7, <1>9, <2>1, <2>2 DEF Untouched
<1>11. Finished(id)'
  BY <1>2, <1>9 DEF Finished
<1>12. Wires'
  <2>1. Ordered(toClient \o frames)
    BY <1>2, <1>5, <1>9, OrderedPost DEF Life, Wires, Untouched
  <2>2. Ordered(toClient') /\ (~cOpen => toClient' = <<>>)
    BY <1>6, <2>1 DEF Life, Wires
  <2>3. ~sOpen => toServer' = <<>>
    BY <1>2 DEF Life, Wires
  <2>4. QED
    BY <1>2, <1>4, <2>2, <2>3 DEF Life, Wires
<1>13. ASSUME NEW i \in Id
       PROVE  Asks(i)' /\ Alive(i)' /\ (Opening(i)' => Opening(i))
  BY <1>2, <1>3 DEF Life, Asks, Alive, Opening
<1>14. ASSUME NEW i \in Id, i # id
       PROVE  Replies(i)' /\ Fresh(i)'
  BY <1>2, <1>3, <1>10, <1>13, <1>14 DEF Life, Replies, Fresh, Finished, Untouched
<1>15. Replies(id)' /\ Fresh(id)'
  BY <1>2, <1>9, <1>10, <1>11 DEF Replies, Fresh
<1>16. QED
  BY <1>12, <1>13, <1>14, <1>15 DEF Life

(* An OPEN is accepted. *)
LEMMA LifeAccepted ==
  ASSUME Steady, Life, toServer # <<>>, toServer' = Tail(toServer), UNCHANGED <<cOpen, sOpen>>,
         UNCHANGED clientVars, NEW d, NEW s, Accepted(Head(toServer), d, s)
  PROVE  Life'
<1>1. PICK f, id : f = Head(toServer) /\ id = f.streamId
  OBVIOUS
<1>2. /\ toServer \in Seq(Frame(Id)) /\ f \in Frame(Id) /\ id \in Id
      /\ UNCHANGED <<call, cStream, cStreams, toClient>>
  BY <1>1 DEF Steady, IInv, WireTypeOK, Accepted, clientVars, Frame
<1>3. /\ \A i \in Id : Of(toServer', i) \subseteq Of(toServer, i)
      /\ f \in Of(toServer, id)
  BY <1>1, <1>2, OfTail
<1>4. Ordered(toServer') /\ \A g \in Of(toServer', id) : MayFollow(f, g)
  BY <1>1, <1>2, OrderedTail DEF Life, Wires
<1>5. /\ f.body = "open" /\ sStreams' = sStreams \cup {id}
      /\ sStream'[id] = s /\ srv'[id] = d
      /\ \A i \in Id : i # id => sStream'[i] = sStream[i] /\ srv'[i] = srv[i]
      /\ s.state = "open" /\ Running(d) /\ d.yielded = 0
  BY <1>1, <1>2 DEF Accepted, Steady, IInv, ServerPart
<1>6. Untouched(id) /\ call[id].pc # "idle" /\ ~Opening(id)' /\ sOpen
  BY <1>2, <1>3, <1>4, <1>5 DEF Life, Wires, Fresh, Opening, MayFollow
<1>7. Wires'
  BY <1>2, <1>4, <1>6 DEF Life, Wires
<1>8. ASSUME NEW i \in Id
      PROVE  Asks(i)' /\ (Opening(i)' => Opening(i))
  BY <1>2, <1>3 DEF Life, Asks, Opening
<1>9. ASSUME NEW i \in Id, i # id
      PROVE  Replies(i)' /\ Fresh(i)' /\ Alive(i)'
  BY <1>2, <1>3, <1>5, <1>8, <1>9 DEF Life, Replies, Fresh, Alive, Finished, Untouched
<1>10. Replies(id)' /\ Fresh(id)'
  BY <1>2, <1>6 DEF Replies, Fresh, Untouched
<1>11. Alive(id)'
  BY <1>2, <1>5 DEF Life, Alive
<1>12. QED
  BY <1>7, <1>8, <1>9, <1>10, <1>11 DEF Life

(* Another frame is delivered. *)
LEMMA LifeDelivered ==
  ASSUME Steady, Life, toServer # <<>>, toServer' = Tail(toServer), UNCHANGED <<cOpen, sOpen>>,
         UNCHANGED clientVars, Head(toServer).body # "open", HandleStreamFrame(Head(toServer))
  PROVE  Life'
<1> DEFINE f == Head(toServer)  id == f.streamId
<1>1. /\ toServer \in Seq(Frame(Id)) /\ f \in Frame(Id) /\ id \in Id
      /\ UNCHANGED <<call, cStream, cStreams, toClient, srv>> /\ sStreams' \subseteq sStreams
      /\ f.body = "cancel" => id \notin sStreams'
  BY DEF Steady, IInv, WireTypeOK, HandleStreamFrame, clientVars, Frame
<1>2. \A i \in Id : Of(toServer', i) \subseteq Of(toServer, i)
  BY <1>1, OfTail
<1>3. Ordered(toServer')
  BY <1>1, OrderedTail DEF Life, Wires
<1>4. ASSUME NEW i \in Id
      PROVE  /\ i \notin sStreams => sStream'[i] = sStream[i]
             /\ sStream'[i].state = "closed" => sStream[i].state = "closed"
             /\ sStream'[i].state = "cancelled" => sStream[i].state = "cancelled"
                \/ i \notin sStreams'
  <2>1. sStream'[i] = IF i = id /\ i \in sStreams THEN ServerReceive(sStream[i], f) ELSE sStream[i]
    BY DEF HandleStreamFrame
  <2>2. Sound(sStream[i], SAwaits(srv[i])) /\ SAwaits(srv[i]) \in BOOLEAN
    BY DEF Steady, IInv, ServerPart, SAwaits
  <2> HIDE DEF id
  <2>3. /\ ServerReceive(sStream[i], f).state = "closed" => sStream[i].state = "closed"
        /\ ServerReceive(sStream[i], f).state = "cancelled" =>
             sStream[i].state = "cancelled" \/ f.body = "cancel"
    BY <1>1, <2>2, ReceiveState
  <2>4. QED
    BY <1>1, <2>1, <2>3
<1> HIDE DEF f, id
<1>5. Wires'
  BY <1>1, <1>3 DEF Life, Wires
<1>6. ASSUME NEW i \in Id
      PROVE  Asks(i)' /\ (Opening(i)' => Opening(i)) /\ (Untouched(i) => Untouched(i)')
  BY <1>1, <1>2, <1>4 DEF Life, Asks, Opening, Untouched
<1>7. ASSUME NEW i \in Id
      PROVE  Replies(i)' /\ Fresh(i)' /\ Alive(i)'
  BY <1>1, <1>2, <1>4, <1>6 DEF Life, Replies, Fresh, Alive, Finished
<1>8. QED
  BY <1>5, <1>6, <1>7 DEF Life

(* The lives hold initially. *)
LEMMA LifeInit == Init => Life
<1> SUFFICES ASSUME Init PROVE Life
  OBVIOUS
<1>1. /\ toServer = <<>> /\ toClient = <<>> /\ cOpen = TRUE /\ sOpen = TRUE /\ sStreams = {}
      /\ \A id \in Id : /\ call[id] = NoCall /\ cStream[id] = NewStream
                        /\ srv[id] = NoDispatch /\ sStream[id] = NewStream
  BY DEF Init, WireInit, ClientInit, ServerInit
<1>2. \A id \in Id : Of(<<>>, id) = {}
  BY OfOwn, OwnFrames
<1>3. Ordered(<<>>)
  BY OrderedShort
<1>4. Deciding(NoCall) /\ Running(NoDispatch) /\ NoDispatch.yielded = 0 /\ NewStream.state = "idle"
  BY DEF Deciding, Running, NoCall, NoDispatch, NewStream
<1>5. QED
  BY <1>1, <1>2, <1>3, <1>4 DEF Life, Wires, Asks, Replies, Fresh, Alive, Opening, Untouched

(* And every step keeps them. *)
LEMMA LifeNext ==
  ASSUME Steady, Life, [Next]_vars
  PROVE  Life'
<1>1. IInv /\ Tidy
  BY DEF Steady
<1>2. \A id \in Id : Sane(id)
  BY DEF Life, Alive, Fresh, Sane
<1>3. ASSUME UNCHANGED vars
      PROVE  Life'
  BY <1>3 DEF vars, wireVars, clientVars, serverVars, Life, Wires, Asks, Replies, Fresh, Alive,
              Opening, Untouched, Finished
<1>4. ASSUME ServerHandleFrame, UNCHANGED clientVars
      PROVE  Life'
  BY <1>1, <1>4, ServerFrames, LifeRefused, LifeAccepted, LifeDelivered
<1>5. QED
  BY <1>1, <1>2, <1>3, <1>4, Steps, LifeClientMove, LifeStartMove, LifeClientFrame, LifeEnds,
     LifeServerMove
=============================================================================
