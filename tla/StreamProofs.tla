---------------------------- MODULE StreamProofs ----------------------------
(***************************************************************************)
(* What the methods of Stream preserve, for every stream and every item.   *)
(* A stream is sound for a consumer that awaits an item, or does not, when *)
(* it has its type and is suspended accordingly.                           *)
(***************************************************************************)
EXTENDS Stream, SequenceTheorems, TLAPS

Sound(s, awaiting) == s \in StreamObject /\ Suspended(s, awaiting)

(* A new stream has nobody waiting. *)
LEMMA NewStreamSound == Sound(NewStream, FALSE)
  BY DEF Sound, Suspended, NewStream, StreamObject, StreamState, Resolved, NoItem

(* Changing the state changes neither the queue nor its consumer. *)
LEMMA SetStateSound ==
  ASSUME NEW s, NEW w \in BOOLEAN, Sound(s, w), NEW st \in StreamState
  PROVE  Sound(SetState(s, st), w)
  BY DEF Sound, Suspended, SetState, StreamObject, Resolved

(* A push keeps a consumer suspended or running as it was. *)
LEMMA PushSound ==
  ASSUME NEW s, NEW w \in BOOLEAN, Sound(s, w), NEW item \in QueueItem
  PROVE  Sound(Push(s, item), w)
<1>1. item # NoItem
  BY DEF QueueItem, NoItem
<1>2. CASE s.waiter
  BY <1>1, <1>2 DEF Sound, Suspended, Push, StreamObject, Resolved
<1>3. CASE ~s.waiter
  <2>1. Append(s.queue, item) \in Seq(QueueItem)
    BY DEF Sound, StreamObject
  <2>2. QED
    BY <1>3, <2>1 DEF Sound, Suspended, Push, StreamObject, Resolved
<1>4. QED
  BY <1>2, <1>3

(* So does a cancellation. *)
LEMMA CancelSound ==
  ASSUME NEW s, NEW w \in BOOLEAN, Sound(s, w)
  PROVE  Sound(Cancel(s), w)
<1> DEFINE c == [s EXCEPT !.state = "cancelled", !.aborted = TRUE]
<1>1. Sound(c, w)
  BY DEF Sound, Suspended, StreamObject, StreamState, Resolved
<1>2. Error(CANCELLED) \in QueueItem
  BY DEF Error, QueueItem, CANCELLED
<1>3. Sound(Push(c, Error(CANCELLED)), w)
  BY <1>1, <1>2, PushSound
<1>4. QED
  BY <1>3 DEF Cancel

(* nextItem suspends a running consumer. *)
LEMMA NextItemSound ==
  ASSUME NEW s, Sound(s, FALSE)
  PROVE  Sound(NextItem(s), TRUE)
<1>1. CASE s.queue = <<>>
  BY <1>1 DEF Sound, Suspended, NextItem, StreamObject, Resolved
<1>2. CASE s.queue # <<>>
  <2>1. Head(s.queue) \in QueueItem /\ Tail(s.queue) \in Seq(QueueItem)
    BY <1>2 DEF Sound, StreamObject
  <2>2. Head(s.queue) # NoItem
    BY <2>1 DEF QueueItem, NoItem
  <2>3. QED
    BY <1>2, <2>1, <2>2 DEF Sound, Suspended, NextItem, StreamObject, Resolved
<1>3. QED
  BY <1>1, <1>2

(* Consuming the item resumes it. *)
LEMMA ConsumeSound ==
  ASSUME NEW s, Sound(s, TRUE), Resolved(s)
  PROVE  Sound(Consume(s), FALSE)
  BY DEF Sound, Suspended, Consume, StreamObject, Resolved, NoItem

(***************************************************************************)
(* A stream is a FIFO queue of items: what was pushed and not yet consumed *)
(* is the item in the consumer's hand, if there is one, and the queue.     *)
(***************************************************************************)
Flight     == QueueItem \cup {NoItem}
Pending(s) == IF Resolved(s) THEN <<s.hand>> \o s.queue ELSE s.queue

(* What is pending are items. *)
LEMMA PendingTyped ==
  ASSUME NEW s \in StreamObject
  PROVE  Pending(s) \in Seq(QueueItem)
  BY DEF Pending, Resolved, StreamObject

(* Nothing is pending on a new stream. *)
LEMMA PendingNew == Pending(NewStream) = <<>>
  BY DEF Pending, NewStream, Resolved, NoItem

(* Changing the state moves no item. *)
LEMMA PendingSetState ==
  ASSUME NEW s \in StreamObject, NEW st
  PROVE  Pending(SetState(s, st)) = Pending(s)
  BY DEF Pending, SetState, Resolved, StreamObject

(* A push appends, whether the item goes to the waiter or to the queue. *)
LEMMA PendingPush ==
  ASSUME NEW s, NEW w, Sound(s, w), NEW item \in QueueItem
  PROVE  Pending(Push(s, item)) = Pending(s) \o <<item>>
<1>1. item # NoItem
  BY DEF QueueItem, NoItem
<1>2. s \in StreamObject
  BY DEF Sound
<1>3. CASE s.waiter
  <2>1. s.queue = <<>> /\ ~Resolved(s)
    BY <1>3 DEF Sound, Suspended
  <2>2. Push(s, item).hand = item /\ Push(s, item).queue = <<>>
    BY <1>2, <1>3, <2>1 DEF Push, StreamObject
  <2>3. QED
    BY <1>1, <2>1, <2>2 DEF Pending, Resolved
<1>4. CASE ~s.waiter
  <2>1. Push(s, item).hand = s.hand /\ Push(s, item).queue = Append(s.queue, item)
    BY <1>2, <1>4 DEF Push, StreamObject
  <2>2. s.queue \in Seq(Flight) /\ <<s.hand>> \in Seq(Flight) /\ <<item>> \in Seq(Flight)
    BY <1>2 DEF StreamObject, Flight
  <2>3. Append(s.queue, item) = s.queue \o <<item>>
    BY <2>2
  <2>4. <<s.hand>> \o (s.queue \o <<item>>) = (<<s.hand>> \o s.queue) \o <<item>>
    <3> DEFINE h == <<s.hand>>  q == s.queue  e == <<item>>
    <3>1. h \in Seq(Flight) /\ q \in Seq(Flight) /\ e \in Seq(Flight)
      BY <2>2
    <3> HIDE DEF h, q, e
    <3>2. (h \o q) \o e = h \o (q \o e)
      BY <3>1, ConcatAssociative
    <3>3. QED
      BY <3>2 DEF h, q, e
  <2>5. QED
    BY <2>1, <2>3, <2>4 DEF Pending, Resolved
<1>5. QED
  BY <1>3, <1>4

(* nextItem moves the head of the queue to the hand, or nothing. *)
LEMMA PendingNextItem ==
  ASSUME NEW s, Sound(s, FALSE)
  PROVE  Pending(NextItem(s)) = Pending(s)
<1>1. s \in StreamObject /\ ~Resolved(s)
  BY DEF Sound, Suspended
<1>2. CASE s.queue = <<>>
  BY <1>1, <1>2 DEF Pending, NextItem, Resolved, StreamObject
<1>3. CASE s.queue # <<>>
  <2>1. s.queue \in Seq(QueueItem)
    BY <1>1 DEF StreamObject
  <2>2. Head(s.queue) # NoItem /\ <<Head(s.queue)>> \o Tail(s.queue) = s.queue
    <3>1. Head(s.queue) \in QueueItem
      BY <1>3, <2>1
    <3>2. QED
      BY <1>3, <2>1, <3>1 DEF QueueItem, NoItem
  <2>3. NextItem(s).hand = Head(s.queue) /\ NextItem(s).queue = Tail(s.queue)
    BY <1>1, <1>3 DEF NextItem, StreamObject
  <2>4. QED
    BY <1>1, <2>2, <2>3 DEF Pending, Resolved
<1>4. QED
  BY <1>2, <1>3

(* The consumer is given the oldest pending item. *)
LEMMA PendingConsume ==
  ASSUME NEW s \in StreamObject, Resolved(s)
  PROVE  /\ Pending(s) # <<>> /\ Head(Pending(s)) = s.hand
         /\ Pending(Consume(s)) = Tail(Pending(s))
<1>1. s.queue \in Seq(QueueItem) /\ Pending(s) = <<s.hand>> \o s.queue
  BY DEF Pending, StreamObject
<1>2. Consume(s).hand = NoItem /\ Consume(s).queue = s.queue
  BY DEF Consume, StreamObject
<1>3. Pending(Consume(s)) = s.queue
  BY <1>2 DEF Pending, Resolved
<1>4. QED
  BY <1>1, <1>3

(* A cancellation only adds an error. *)
LEMMA PendingCancel ==
  ASSUME NEW s, NEW w \in BOOLEAN, Sound(s, w)
  PROVE  Pending(Cancel(s)) = Pending(s) \/ Pending(Cancel(s)) = Pending(s) \o <<Error(CANCELLED)>>
<1> DEFINE c == [s EXCEPT !.state = "cancelled", !.aborted = TRUE]
<1>1. Sound(c, w) /\ Pending(c) = Pending(s)
  BY DEF Sound, Suspended, StreamObject, StreamState, Resolved, Pending
<1>2. Error(CANCELLED) \in QueueItem
  BY DEF Error, QueueItem, CANCELLED
<1>3. Pending(Push(c, Error(CANCELLED))) = Pending(s) \o <<Error(CANCELLED)>>
  <2> HIDE DEF c
  <2>1. QED
    BY <1>1, <1>2, PendingPush
<1>4. QED
  BY <1>3 DEF Cancel

(***************************************************************************)
(* A sequence of items in flight runs from lo to hi when its messages are  *)
(* lo + 1, ..., hi in this order and none follows an end.                  *)
(***************************************************************************)
Tells(q) == \E k \in 1..Len(q) : q[k].type = "end"
Fails(q) == \E k \in 1..Len(q) : q[k].type = "error"
Run(q, lo, hi) ==
  /\ lo <= hi
  /\ \A k \in 1..Len(q) : q[k].type = "message" => q[k].val \in lo + 1..hi
  /\ \A n \in lo + 1..hi : \E k \in 1..Len(q) : q[k] = Message(n)
  /\ \A j, k \in 1..Len(q) : j < k /\ q[k].type = "message" =>
       q[j].type # "end" /\ (q[j].type = "message" => q[j].val < q[k].val)

(* Items other than messages run nowhere. *)
LEMMA RunSilent ==
  ASSUME NEW q \in Seq(Flight), NEW n \in Nat, \A k \in 1..Len(q) : q[k].type # "message"
  PROVE  Run(q, n, n)
  BY DEF Run

(* One message. *)
LEMMA RunOne ==
  ASSUME NEW n \in Nat
  PROVE  Run(<<Message(n + 1)>>, n, n + 1)
<1> DEFINE q == <<Message(n + 1)>>
<1>1. Len(q) = 1 /\ q[1] = Message(n + 1) /\ 1..1 = {1} /\ n + 1..n + 1 = {n + 1}
  OBVIOUS
<1>2. Message(n + 1).type = "message" /\ Message(n + 1).val = n + 1
  BY DEF Message
<1> HIDE DEF q
<1>3. QED
  BY <1>1, <1>2 DEF Run, q

(* One item that is no message. *)
LEMMA RunOther ==
  ASSUME NEW e \in Flight, e.type # "message", NEW n \in Nat
  PROVE  Run(<<e>>, n, n)
<1> DEFINE q == <<e>>
<1>1. q \in Seq(Flight) /\ \A k \in 1..Len(q) : q[k].type # "message"
  OBVIOUS
<1> HIDE DEF q
<1>2. Run(q, n, n)
  BY <1>1, RunSilent
<1>3. QED
  BY <1>2 DEF q

(* One run after another. *)
LEMMA RunConcat ==
  ASSUME NEW u \in Seq(Flight), NEW v \in Seq(Flight),
         NEW lo \in Nat, NEW mid \in Nat, NEW hi \in Nat,
         Run(u, lo, mid), Run(v, mid, hi), Tells(u) => mid = hi
  PROVE  Run(u \o v, lo, hi)
<1> DEFINE w == u \o v
<1>1. /\ w \in Seq(Flight) /\ Len(w) = Len(u) + Len(v)
      /\ Len(u) \in Nat /\ Len(v) \in Nat
      /\ \A k \in 1..Len(u) : w[k] = u[k] /\ k \in 1..Len(w)
      /\ \A k \in Len(u) + 1..Len(w) : w[k] = v[k - Len(u)] /\ k - Len(u) \in 1..Len(v)
      /\ \A k \in 1..Len(v) : w[k + Len(u)] = v[k] /\ k + Len(u) \in 1..Len(w)
  OBVIOUS
<1> HIDE DEF w
<1>2. lo <= mid /\ mid <= hi
  BY DEF Run
<1>3. ASSUME NEW k \in 1..Len(w), w[k].type = "message"
      PROVE  w[k].val \in lo + 1..hi
  <2>1. CASE k <= Len(u)
    <3>1. w[k] = u[k] /\ k \in 1..Len(u)
      BY <1>1, <2>1
    <3>2. w[k].val \in lo + 1..mid
      BY <1>3, <3>1 DEF Run
    <3>3. QED
      BY <1>2, <3>2
  <2>2. CASE k > Len(u)
    <3> DEFINE l == k - Len(u)
    <3>1. w[k] = v[l] /\ l \in 1..Len(v)
      BY <1>1, <2>2
    <3> HIDE DEF l
    <3>2. w[k].val \in mid + 1..hi
      BY <1>3, <3>1 DEF Run
    <3>3. QED
      BY <1>2, <3>2
  <2>3. QED
    BY <1>1, <2>1, <2>2
<1>4. ASSUME NEW n \in lo + 1..hi
      PROVE  \E k \in 1..Len(w) : w[k] = Message(n)
  <2>1. CASE n <= mid
    <3>1. n \in lo + 1..mid
      BY <2>1
    <3>2. PICK k \in 1..Len(u) : u[k] = Message(n)
      BY <3>1, Zenon DEF Run
    <3>3. QED
      BY <1>1, <3>2
  <2>2. CASE n > mid
    <3>1. n \in mid + 1..hi
      BY <2>2
    <3>2. PICK k \in 1..Len(v) : v[k] = Message(n)
      BY <3>1, Zenon DEF Run
    <3>3. QED
      BY <1>1, <3>2
  <2>3. QED
    BY <2>1, <2>2
<1>5. ASSUME NEW j \in 1..Len(w), NEW k \in 1..Len(w), j < k, w[k].type = "message"
      PROVE  w[j].type # "end" /\ (w[j].type = "message" => w[j].val < w[k].val)
  <2>1. CASE k <= Len(u)
    <3>1. w[j] = u[j] /\ w[k] = u[k] /\ j \in 1..Len(u) /\ k \in 1..Len(u)
      BY <1>1, <1>5, <2>1
    <3>2. QED
      BY <1>5, <3>1 DEF Run
  <2>2. CASE j > Len(u)
    <3> DEFINE i == j - Len(u)  l == k - Len(u)
    <3>1. w[j] = v[i] /\ w[k] = v[l] /\ i \in 1..Len(v) /\ l \in 1..Len(v) /\ i < l
      BY <1>1, <1>5, <2>2
    <3> HIDE DEF i, l
    <3>2. QED
      BY <1>5, <3>1 DEF Run
  <2>3. CASE j <= Len(u) /\ k > Len(u)
    <3> DEFINE l == k - Len(u)
    <3>1. w[j] = u[j] /\ w[k] = v[l] /\ j \in 1..Len(u) /\ l \in 1..Len(v)
      BY <1>1, <1>5, <2>3
    <3> HIDE DEF l
    <3>2. w[k].val \in mid + 1..hi
      BY <1>5, <3>1 DEF Run
    <3>3. w[j].type # "end"
      BY <3>1, <3>2 DEF Tells
    <3>4. w[j].type = "message" => w[j].val \in lo + 1..mid
      BY <3>1 DEF Run
    <3>5. QED
      BY <3>2, <3>3, <3>4
  <2>4. QED
    BY <1>1, <2>1, <2>2, <2>3
<1>6. \A j, k \in 1..Len(w) : j < k /\ w[k].type = "message" =>
        w[j].type # "end" /\ (w[j].type = "message" => w[j].val < w[k].val)
  BY <1>5
<1>7. lo <= hi
  BY <1>2
<1>8. Run(w, lo, hi)
  BY <1>3, <1>4, <1>6, <1>7, Zenon DEF Run
<1>9. QED
  BY <1>8 DEF w

(* The first item of a run is its first message, its end, or neither. *)
LEMMA RunTail ==
  ASSUME NEW q \in Seq(Flight), q # <<>>, NEW lo \in Nat, NEW hi \in Nat, Run(q, lo, hi)
  PROVE  /\ Head(q).type = "message" =>
              Head(q).val = lo + 1 /\ lo + 1 <= hi /\ Run(Tail(q), lo + 1, hi)
         /\ Head(q).type # "message" => Run(Tail(q), lo, hi)
         /\ Head(q).type = "end" => lo = hi
<1> DEFINE t == Tail(q)
<1>1. /\ t \in Seq(Flight) /\ Len(q) = Len(t) + 1 /\ Len(t) \in Nat /\ Head(q) = q[1]
      /\ \A k \in 1..Len(t) : t[k] = q[k + 1] /\ k + 1 \in 2..Len(q)
      /\ \A k \in 2..Len(q) : q[k] = t[k - 1] /\ k - 1 \in 1..Len(t)
  OBVIOUS
<1> HIDE DEF t
<1>2. lo <= hi
  BY DEF Run
<1>3. \A n : Message(n).type = "message" /\ Message(n).val = n
  BY DEF Message
<1>4. \A j, k \in 1..Len(t) : j < k /\ t[k].type = "message" =>
        t[j].type # "end" /\ (t[j].type = "message" => t[j].val < t[k].val)
  <2> TAKE j, k \in 1..Len(t)
  <2> DEFINE i == j + 1  l == k + 1
  <2>1. t[j] = q[i] /\ t[k] = q[l] /\ i \in 1..Len(q) /\ l \in 1..Len(q) /\ (j < k => i < l)
    BY <1>1
  <2> HIDE DEF i, l
  <2>2. QED
    BY <2>1 DEF Run
<1>5. CASE q[1].type = "message"
  <2>1. q[1].val \in lo + 1..hi
    BY <1>1, <1>5 DEF Run
  <2>2. lo + 1 \in lo + 1..hi
    BY <2>1
  <2>3. PICK k \in 1..Len(q) : q[k] = Message(lo + 1)
    BY <2>2 DEF Run
  <2>4. k = 1
    <3>1. SUFFICES ASSUME k # 1 PROVE FALSE
      OBVIOUS
    <3>2. 1 \in 1..Len(q) /\ 1 < k /\ q[k].type = "message" /\ q[k].val = lo + 1
      BY <1>1, <1>3, <2>3, <3>1
    <3>3. q[1].val < lo + 1
      BY <1>5, <3>2 DEF Run
    <3>4. QED
      BY <2>1, <3>3
  <2>5. q[1].val = lo + 1
    BY <1>3, <2>3, <2>4
  <2>6. ASSUME NEW i \in 1..Len(t), t[i].type = "message"
        PROVE  t[i].val \in lo + 2..hi
    <3> DEFINE l == i + 1
    <3>1. t[i] = q[l] /\ l \in 1..Len(q) /\ 1 < l /\ 1 \in 1..Len(q)
      BY <1>1
    <3> HIDE DEF l
    <3>2. q[l].val \in lo + 1..hi /\ q[1].val < q[l].val
      BY <1>5, <2>6, <3>1 DEF Run
    <3>3. QED
      BY <2>5, <3>1, <3>2
  <2>7. ASSUME NEW n \in lo + 2..hi
        PROVE  \E i \in 1..Len(t) : t[i] = Message(n)
    <3>1. PICK i \in 1..Len(q) : q[i] = Message(n)
      BY DEF Run
    <3>2. i # 1
      BY <1>3, <2>5, <3>1
    <3>3. i \in 2..Len(q)
      BY <1>1, <3>2
    <3>4. t[i - 1] = Message(n) /\ i - 1 \in 1..Len(t)
      BY <1>1, <3>1, <3>3
    <3>5. QED
      BY <3>4
  <2>8. Run(t, lo + 1, hi)
    <3>1. (lo + 1) + 1 = lo + 2 /\ lo + 1 <= hi
      BY <2>1
    <3>2. QED
      BY <1>4, <2>6, <2>7, <3>1 DEF Run
  <2>9. QED
    BY <1>1, <1>5, <2>1, <2>5, <2>8 DEF t
<1>6. CASE q[1].type # "message"
  <2>1. ASSUME NEW i \in 1..Len(t), t[i].type = "message"
        PROVE  t[i].val \in lo + 1..hi
    BY <1>1, <2>1 DEF Run
  <2>2. ASSUME NEW n \in lo + 1..hi
        PROVE  \E i \in 1..Len(t) : t[i] = Message(n)
    <3>1. PICK i \in 1..Len(q) : q[i] = Message(n)
      BY DEF Run
    <3>2. i # 1
      BY <1>3, <1>6, <3>1
    <3>3. i \in 2..Len(q)
      BY <1>1, <3>2
    <3>4. t[i - 1] = Message(n) /\ i - 1 \in 1..Len(t)
      BY <1>1, <3>1, <3>3
    <3>5. QED
      BY <3>4
  <2>3. Run(t, lo, hi)
    BY <1>2, <1>4, <2>1, <2>2 DEF Run
  <2>4. ASSUME q[1].type = "end"
        PROVE  lo = hi
    <3>1. SUFFICES ASSUME lo < hi PROVE FALSE
      BY <1>2
    <3>2. PICK i \in 1..Len(q) : q[i] = Message(lo + 1)
      BY <3>1 DEF Run
    <3>3. i # 1 /\ 1 < i /\ 1 \in 1..Len(q) /\ q[i].type = "message"
      BY <1>1, <1>3, <1>6, <3>2
    <3>4. QED
      BY <2>4, <3>3 DEF Run
  <2>5. QED
    BY <1>1, <1>6, <2>3, <2>4 DEF t
<1>7. QED
  BY <1>5, <1>6

(* An empty run goes nowhere. *)
LEMMA RunEmpty ==
  ASSUME NEW lo \in Nat, NEW hi \in Nat, Run(<<>>, lo, hi)
  PROVE  lo = hi
<1>1. SUFFICES ASSUME lo < hi PROVE FALSE
  BY DEF Run
<1>2. PICK k \in 1..Len(<<>>) : <<>>[k] = Message(lo + 1)
  BY <1>1 DEF Run
<1>3. QED
  BY <1>2

(* Ends and errors of a sequence and of its parts. *)
LEMMA TellsParts ==
  ASSUME NEW u \in Seq(Flight), NEW v \in Seq(Flight)
  PROVE  /\ Tells(u \o v) <=> Tells(u) \/ Tells(v)
         /\ Fails(u \o v) <=> Fails(u) \/ Fails(v)
<1> DEFINE w == u \o v
<1>1. /\ Len(w) = Len(u) + Len(v) /\ Len(u) \in Nat /\ Len(v) \in Nat
      /\ \A k \in 1..Len(u) : w[k] = u[k] /\ k \in 1..Len(w)
      /\ \A k \in Len(u) + 1..Len(w) : w[k] = v[k - Len(u)] /\ k - Len(u) \in 1..Len(v)
      /\ \A k \in 1..Len(v) : w[k + Len(u)] = v[k] /\ k + Len(u) \in 1..Len(w)
  OBVIOUS
<1> HIDE DEF w
<1>2. \A k \in 1..Len(w) : \/ \E i \in 1..Len(u) : w[k] = u[i]
                           \/ \E i \in 1..Len(v) : w[k] = v[i]
  <2>1. \A k \in 1..Len(w) : k \in 1..Len(u) \/ k \in Len(u) + 1..Len(w)
    BY <1>1
  <2>2. QED
    BY <1>1, <2>1
<1>3. /\ \A i \in 1..Len(u) : \E k \in 1..Len(w) : w[k] = u[i]
      /\ \A i \in 1..Len(v) : \E k \in 1..Len(w) : w[k] = v[i]
  BY <1>1
<1>4. Tells(w) <=> Tells(u) \/ Tells(v)
  <2>1. Tells(w) => Tells(u) \/ Tells(v)
    BY <1>2 DEF Tells
  <2>2. Tells(u) \/ Tells(v) => Tells(w)
    BY <1>3 DEF Tells
  <2>3. QED
    BY <2>1, <2>2
<1>5. Fails(w) <=> Fails(u) \/ Fails(v)
  <2>1. Fails(w) => Fails(u) \/ Fails(v)
    BY <1>2 DEF Fails
  <2>2. Fails(u) \/ Fails(v) => Fails(w)
    BY <1>3 DEF Fails
  <2>3. QED
    BY <2>1, <2>2
<1>6. QED
  BY <1>4, <1>5 DEF w

(* Taking the first item takes no end or error into account but its own. *)
LEMMA TellsTail ==
  ASSUME NEW q \in Seq(Flight), q # <<>>
  PROVE  /\ Tells(Tail(q)) => Tells(q)
         /\ Fails(Tail(q)) => Fails(q)
         /\ Head(q).type = "end" => Tells(q)
         /\ Head(q).type = "error" => Fails(q)
<1> DEFINE t == Tail(q)
<1>1. /\ Len(q) = Len(t) + 1 /\ Len(t) \in Nat /\ Head(q) = q[1] /\ 1 \in 1..Len(q)
      /\ \A k \in 1..Len(t) : t[k] = q[k + 1] /\ k + 1 \in 1..Len(q)
  OBVIOUS
<1> HIDE DEF t
<1>2. QED
  BY <1>1 DEF Tells, Fails, t

(* Whether an item is in a sequence. *)
Holds(q, e) == \E k \in 1..Len(q) : q[k] = e

(* It is in a concatenation when it is in one of the parts. *)
LEMMA HoldsParts ==
  ASSUME NEW u \in Seq(Flight), NEW v \in Seq(Flight), NEW e
  PROVE  Holds(u \o v, e) <=> Holds(u, e) \/ Holds(v, e)
<1> DEFINE w == u \o v
<1>1. /\ Len(w) = Len(u) + Len(v) /\ Len(u) \in Nat /\ Len(v) \in Nat
      /\ \A k \in 1..Len(u) : w[k] = u[k] /\ k \in 1..Len(w)
      /\ \A k \in Len(u) + 1..Len(w) : w[k] = v[k - Len(u)] /\ k - Len(u) \in 1..Len(v)
      /\ \A k \in 1..Len(v) : w[k + Len(u)] = v[k] /\ k + Len(u) \in 1..Len(w)
  OBVIOUS
<1> HIDE DEF w
<1>2. \A k \in 1..Len(w) : k \in 1..Len(u) \/ k \in Len(u) + 1..Len(w)
  BY <1>1
<1>3. QED
  BY <1>1, <1>2 DEF Holds, w

(* The tail holds nothing the sequence does not; its head it does. *)
LEMMA HoldsTail ==
  ASSUME NEW q \in Seq(Flight), q # <<>>, NEW e
  PROVE  (Holds(Tail(q), e) => Holds(q, e)) /\ Holds(q, Head(q))
<1> DEFINE t == Tail(q)
<1>1. /\ Len(q) = Len(t) + 1 /\ Len(t) \in Nat /\ Head(q) = q[1] /\ 1 \in 1..Len(q)
      /\ \A k \in 1..Len(t) : t[k] = q[k + 1] /\ k + 1 \in 1..Len(q)
  OBVIOUS
<1> HIDE DEF t
<1>2. QED
  BY <1>1 DEF Holds, t

(***************************************************************************)
(* One direction of a call, from the sender's counter to what the receiver *)
(* got.  While the receiver is open, what it got, what is pending on its   *)
(* stream and, if that stream is live, what the wire carries to it make up *)
(* the messages 1, ..., sent; and an end comes after all of them, when the *)
(* sender is over.                                                         *)
(***************************************************************************)
Flow(got, pend, open, carried, live, sent, over) ==
  /\ \A i \in 1..Len(got) : got[i] = i
  /\ Len(got) <= sent
  /\ open => \E a \in 0..sent : /\ Run(pend, Len(got), a)
                                /\ Tells(pend) => a = sent /\ over
                                /\ live => Run(carried, a, sent)
  /\ Tells(carried) => over

(* The sender sends more, or is over.                                      *)
LEMMA FlowSend ==
  ASSUME NEW got \in Seq(Nat), NEW pend \in Seq(Flight), NEW open \in BOOLEAN,
         NEW carried \in Seq(Flight), NEW live \in BOOLEAN, NEW sent \in Nat, NEW over \in BOOLEAN,
         Flow(got, pend, open, carried, live, sent, over),
         NEW v \in Seq(Flight), NEW live1 \in BOOLEAN, NEW sent1 \in Nat, NEW over1 \in BOOLEAN,
         live1 => live, Run(v, sent, sent1), over => over1 /\ sent1 = sent, Tells(v) => over1
  PROVE  Flow(got, pend, open, carried \o v, live1, sent1, over1)
<1>1. sent <= sent1 /\ Len(got) \in Nat
  BY DEF Run
<1>2. Tells(carried \o v) => over1
  <2>1. Tells(carried) => over
    BY DEF Flow
  <2>2. Tells(carried \o v) <=> Tells(carried) \/ Tells(v)
    BY TellsParts
  <2>3. QED
    BY <2>1, <2>2
<1>3. ASSUME open
      PROVE  \E a \in 0..sent1 : /\ Run(pend, Len(got), a)
                                 /\ Tells(pend) => a = sent1 /\ over1
                                 /\ live1 => Run(carried \o v, a, sent1)
  <2>1. PICK a \in 0..sent : /\ Run(pend, Len(got), a)
                             /\ Tells(pend) => a = sent /\ over
                             /\ live => Run(carried, a, sent)
    BY <1>3 DEF Flow
  <2>2. a \in 0..sent1 /\ a \in Nat
    BY <1>1, <2>1
  <2>3. ASSUME live1
        PROVE  Run(carried \o v, a, sent1)
    <3>1. Run(carried, a, sent)
      BY <2>1, <2>3
    <3>2. Tells(carried) => sent = sent1
      BY DEF Flow
    <3>3. QED
      BY <2>2, <3>1, <3>2, RunConcat
  <2>4. QED
    BY <2>1, <2>2, <2>3
<1>4. QED
  BY <1>1, <1>2, <1>3 DEF Flow

(* What is sent to a stream that is not live may be dropped.               *)
LEMMA FlowLose ==
  ASSUME NEW got, NEW pend, NEW open \in BOOLEAN,
         NEW carried, NEW live \in BOOLEAN, NEW sent \in Nat, NEW over \in BOOLEAN,
         Flow(got, pend, open, carried, live, sent, over), Len(got) \in Nat,
         NEW live1 \in BOOLEAN, NEW sent1 \in Nat, NEW over1 \in BOOLEAN,
         ~live1, sent <= sent1, over => over1 /\ sent1 = sent
  PROVE  Flow(got, pend, open, carried, live1, sent1, over1)
<1>1. ASSUME open
      PROVE  \E a \in 0..sent1 : /\ Run(pend, Len(got), a)
                                 /\ Tells(pend) => a = sent1 /\ over1
                                 /\ live1 => Run(carried, a, sent1)
  <2>1. PICK a \in 0..sent : /\ Run(pend, Len(got), a)
                             /\ Tells(pend) => a = sent /\ over
                             /\ live => Run(carried, a, sent)
    BY <1>1 DEF Flow
  <2>2. a \in 0..sent1
    BY <2>1
  <2>3. QED
    BY <2>1, <2>2
<1>2. QED
  BY <1>1 DEF Flow

(* The receiver closes, or its stream stops being live. *)
LEMMA FlowShut ==
  ASSUME NEW got, NEW pend, NEW open \in BOOLEAN, NEW carried, NEW live \in BOOLEAN, NEW sent,
         NEW over \in BOOLEAN,
         Flow(got, pend, open, carried, live, sent, over),
         NEW pend1, NEW open1 \in BOOLEAN, NEW live1 \in BOOLEAN,
         open1 => open /\ pend1 = pend, live1 => live
  PROVE  Flow(got, pend1, open1, carried, live1, sent, over)
  BY DEF Flow

(* An item that is no message and no end becomes pending. *)
LEMMA FlowPush ==
  ASSUME NEW got \in Seq(Nat), NEW pend \in Seq(Flight), NEW open \in BOOLEAN, NEW carried,
         NEW live \in BOOLEAN,
         NEW sent \in Nat, NEW over \in BOOLEAN, Flow(got, pend, open, carried, live, sent, over),
         NEW e \in Flight, e.type \notin {"message", "end"}
  PROVE  Flow(got, pend \o <<e>>, open, carried, live, sent, over)
<1>1. ASSUME open
      PROVE  \E a \in 0..sent : /\ Run(pend \o <<e>>, Len(got), a)
                                /\ Tells(pend \o <<e>>) => a = sent /\ over
                                /\ live => Run(carried, a, sent)
  <2>1. PICK a \in 0..sent : /\ Run(pend, Len(got), a)
                             /\ Tells(pend) => a = sent /\ over
                             /\ live => Run(carried, a, sent)
    BY <1>1 DEF Flow
  <2>2. a \in Nat /\ Len(got) \in Nat /\ <<e>> \in Seq(Flight)
    BY <2>1
  <2>3. Run(<<e>>, a, a)
    BY <2>2, RunOther
  <2>4. Run(pend \o <<e>>, Len(got), a)
    <3> DEFINE v == <<e>>
    <3> HIDE DEF v
    <3>1. v \in Seq(Flight) /\ Run(v, a, a) /\ Run(pend, Len(got), a)
      BY <2>1, <2>2, <2>3 DEF v
    <3>2. Run(pend \o v, Len(got), a)
      BY <2>2, <3>1, RunConcat
    <3>3. QED
      BY <3>2 DEF v
  <2>5. ~Tells(<<e>>)
    BY DEF Tells
  <2>6. Tells(pend \o <<e>>) => Tells(pend)
    BY <2>2, <2>5, TellsParts
  <2>7. QED
    BY <2>1, <2>4, <2>6
<1>2. QED
  BY <1>1 DEF Flow

(* The first item on the wire arrives at a stream that is not live any     *)
(* more, is not for this stream, or is neither message nor end.            *)
LEMMA FlowSkip ==
  ASSUME NEW got, NEW pend, NEW open \in BOOLEAN, NEW carried \in Seq(Flight), NEW live \in BOOLEAN,
         NEW sent \in Nat, NEW over \in BOOLEAN, Flow(got, pend, open, carried, live, sent, over),
         carried # <<>>, NEW live1 \in BOOLEAN,
         live1 => live /\ Head(carried).type \notin {"message", "end"}
  PROVE  Flow(got, pend, open, Tail(carried), live1, sent, over)
<1>1. ASSUME open
      PROVE  \E a \in 0..sent : /\ Run(pend, Len(got), a)
                                /\ Tells(pend) => a = sent /\ over
                                /\ live1 => Run(Tail(carried), a, sent)
  <2>1. PICK a \in 0..sent : /\ Run(pend, Len(got), a)
                             /\ Tells(pend) => a = sent /\ over
                             /\ live => Run(carried, a, sent)
    BY <1>1 DEF Flow
  <2>2. live1 => Run(Tail(carried), a, sent)
    BY <2>1, RunTail
  <2>3. QED
    BY <2>1, <2>2
<1>2. QED
  BY <1>1, TellsTail DEF Flow

(* The first item on the wire arrives and becomes pending. *)
Arriving(got, pend, open, carried, live, sent, over, live1) ==
  /\ got \in Seq(Nat) /\ pend \in Seq(Flight) /\ open \in BOOLEAN /\ carried \in Seq(Flight)
  /\ live \in BOOLEAN /\ sent \in Nat /\ over \in BOOLEAN
  /\ Flow(got, pend, open, carried, live, sent, over)
  /\ carried # <<>> /\ live /\ live1 \in BOOLEAN
  => Flow(got, pend \o <<Head(carried)>>, open, Tail(carried), live1, sent, over)
LEMMA FlowArrive ==
  ASSUME NEW got, NEW pend, NEW open, NEW carried, NEW live, NEW sent, NEW over, NEW live1
  PROVE  Arriving(got, pend, open, carried, live, sent, over, live1)
<1> SUFFICES ASSUME got \in Seq(Nat), pend \in Seq(Flight), open \in BOOLEAN,
                    carried \in Seq(Flight), live \in BOOLEAN, sent \in Nat, over \in BOOLEAN,
                    Flow(got, pend, open, carried, live, sent, over),
                    carried # <<>>, live, live1 \in BOOLEAN
             PROVE  Flow(got, pend \o <<Head(carried)>>, open, Tail(carried), live1, sent, over)
  BY DEF Arriving
<1> DEFINE e == Head(carried)
<1>1. e \in Flight /\ <<e>> \in Seq(Flight) /\ Len(got) \in Nat
      /\ Len(<<e>>) = 1 /\ <<e>>[1] = e
  OBVIOUS
<1>2. ASSUME open
      PROVE  \E a \in 0..sent : /\ Run(pend \o <<e>>, Len(got), a)
                                /\ Tells(pend \o <<e>>) => a = sent /\ over
                                /\ live1 => Run(Tail(carried), a, sent)
  <2>1. PICK a \in 0..sent : /\ Run(pend, Len(got), a)
                             /\ Tells(pend) => a = sent /\ over
                             /\ Run(carried, a, sent)
    BY <1>2 DEF Flow
  <2>2. a \in Nat
    BY <2>1
  <2>3. CASE e.type = "message"
    <3>1. e.val = a + 1 /\ a + 1 <= sent /\ Run(Tail(carried), a + 1, sent)
      BY <2>1, <2>2, <2>3, RunTail
    <3>2. e = Message(a + 1)
      BY <1>1, <2>3, <3>1 DEF Flight, QueueItem, NoItem, Message
    <3>3. Run(<<e>>, a, a + 1)
      BY <2>2, <3>2, RunOne
    <3>4. ~Tells(pend)
      BY <2>1, <3>1
    <3>5. Run(pend \o <<e>>, Len(got), a + 1)
      <4>1. a + 1 \in Nat
        BY <2>2
      <4> HIDE DEF e
      <4>2. QED
        BY <1>1, <2>1, <2>2, <3>3, <3>4, <4>1, RunConcat
    <3>6. ~Tells(<<e>>)
      BY <1>1, <2>3 DEF Tells
    <3>7. ~Tells(pend \o <<e>>)
      <4> HIDE DEF e
      <4>1. QED
        BY <1>1, <3>4, <3>6, TellsParts
    <3>8. a + 1 \in 0..sent
      BY <2>2, <3>1
    <3>9. QED
      BY <3>1, <3>5, <3>7, <3>8
  <2>4. CASE e.type # "message"
    <3>1. Run(Tail(carried), a, sent) /\ (e.type = "end" => a = sent)
      BY <2>1, <2>2, <2>4, RunTail
    <3>2. Run(<<e>>, a, a)
      <4> HIDE DEF e
      <4>1. QED
        BY <1>1, <2>2, <2>4, RunOther
    <3>3. Run(pend \o <<e>>, Len(got), a)
      <4> DEFINE v == <<e>>
      <4> HIDE DEF v
      <4>1. v \in Seq(Flight) /\ Run(v, a, a) /\ Run(pend, Len(got), a)
        BY <1>1, <2>1, <3>2 DEF v
      <4>2. Run(pend \o v, Len(got), a)
        BY <1>1, <2>2, <4>1, RunConcat
      <4>3. QED
        BY <4>2 DEF v
    <3>4. Tells(<<e>>) => e.type = "end"
      BY <1>1 DEF Tells
    <3>5. e.type = "end" => over
      BY TellsTail DEF Flow
    <3>6. Tells(pend \o <<e>>) => Tells(pend) \/ Tells(<<e>>)
      <4> HIDE DEF e
      <4>1. QED
        BY <1>1, TellsParts
    <3>7. QED
      BY <2>1, <3>1, <3>3, <3>4, <3>5, <3>6
  <2>5. QED
    BY <2>3, <2>4
<1>3. Tells(Tail(carried)) => over
  BY TellsTail DEF Flow
<1>4. QED
  BY <1>2, <1>3 DEF Flow

(* The first pending item is the next message, an end that comes after     *)
(* every message, or something else.                                       *)
Due(got, pend, sent, over) ==
  /\ Head(pend).type = "message" => Head(pend).val = Len(got) + 1 /\ Len(got) < sent
  /\ Head(pend).type = "end" => Len(got) = sent /\ over

(* In a flow to an open receiver, that is what the first item is.          *)
LEMMA FlowDue ==
  ASSUME NEW got \in Seq(Nat), NEW pend \in Seq(Flight), NEW open \in BOOLEAN,
         NEW carried, NEW live \in BOOLEAN, NEW sent \in Nat, NEW over \in BOOLEAN,
         Flow(got, pend, open, carried, live, sent, over), pend # <<>>, open
  PROVE  Due(got, pend, sent, over)
<1>1. PICK a \in 0..sent : Run(pend, Len(got), a) /\ (Tells(pend) => a = sent /\ over)
  BY DEF Flow
<1>2. Len(got) \in Nat /\ a \in Nat /\ a <= sent
  OBVIOUS
<1>3. CASE Head(pend).type = "message"
  <2>1. Head(pend).val = Len(got) + 1 /\ Len(got) + 1 <= a
    BY <1>1, <1>2, <1>3, RunTail
  <2>2. QED
    BY <1>2, <1>3, <2>1 DEF Due
<1>4. CASE Head(pend).type = "end"
  <2>1. Tells(pend) /\ Len(got) = a
    BY <1>1, <1>2, <1>4, RunTail, TellsTail
  <2>2. QED
    BY <1>1, <1>4, <2>1 DEF Due
<1>5. QED
  BY <1>3, <1>4 DEF Due

(* The receiver consumes it.                                               *)
LEMMA FlowTake ==
  ASSUME NEW got \in Seq(Nat), NEW pend \in Seq(Flight), NEW open \in BOOLEAN, NEW carried,
         NEW live \in BOOLEAN,
         NEW sent \in Nat, NEW over \in BOOLEAN, Flow(got, pend, open, carried, live, sent, over),
         pend # <<>>, open
  PROVE  /\ Head(pend).type = "message" =>
              Flow(Append(got, Head(pend).val), Tail(pend), open, carried, live, sent, over)
         /\ Head(pend).type # "message" => Flow(got, Tail(pend), open, carried, live, sent, over)
<1>1. PICK a \in 0..sent : /\ Run(pend, Len(got), a)
                           /\ Tells(pend) => a = sent /\ over
                           /\ live => Run(carried, a, sent)
  BY DEF Flow
<1>2. a \in Nat /\ a <= sent /\ Len(got) \in Nat /\ (Tells(Tail(pend)) => Tells(pend))
  BY <1>1, TellsTail
<1>3. CASE Head(pend).type = "message"
  <2> DEFINE n == Len(got) + 1  got1 == Append(got, n)
  <2>1. Head(pend).val = n /\ n <= a /\ Run(Tail(pend), n, a)
    BY <1>1, <1>2, <1>3, RunTail
  <2>2. Len(got1) = n /\ \A i \in 1..n : got1[i] = i
    <3>1. Len(got1) = n /\ got1[n] = n /\ \A i \in 1..Len(got) : got1[i] = got[i]
      OBVIOUS
    <3>2. \A i \in 1..n : i = n \/ i \in 1..Len(got)
      BY <1>2
    <3> HIDE DEF got1, n
    <3>3. QED
      BY <3>1, <3>2 DEF Flow
  <2> HIDE DEF got1
  <2>3. n <= sent
    BY <1>2, <2>1
  <2>4. Flow(got1, Tail(pend), open, carried, live, sent, over)
    <3> HIDE DEF n
    <3>1. QED
      BY <1>1, <1>2, <2>1, <2>2, <2>3 DEF Flow
  <2>5. QED
    BY <1>3, <2>1, <2>4 DEF got1
<1>4. CASE Head(pend).type # "message"
  <2>1. Run(Tail(pend), Len(got), a)
    BY <1>1, <1>2, <1>4, RunTail
  <2>2. Flow(got, Tail(pend), open, carried, live, sent, over)
    BY <1>1, <1>2, <2>1 DEF Flow
  <2>3. QED
    BY <1>4, <2>2
<1>5. QED
  BY <1>3, <1>4
=============================================================================
