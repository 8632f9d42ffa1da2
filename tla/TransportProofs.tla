--------------------------- MODULE TransportProofs ---------------------------
(***************************************************************************)
(* Proofs about a message channel: handlers hear what they are due and are *)
(* told of a close once, and a port loses nothing, for any handlers,       *)
(* channel and number of frames.                                           *)
(*                                                                         *)
(* Every step changes one end at most, so the first invariant is about one *)
(* transport at a time: Good says where its two loops stand.  The second,  *)
(* FlowInv, adds what is on the way to it.                                 *)
(***************************************************************************)
EXTENDS MessageTransport, SequenceTheorems, TLAPS

NoDuplicates(s) == \A i, j \in 1..Len(s) : s[i] = s[j] => i = j

(* The loop over the copy of the frame handlers: those it has still to     *)
(* call lack the frame of the turn, and nothing else is missing.           *)
Ahead(x, h) == \E i \in x.next..Len(x.snapshot) : x.snapshot[i] = h
Hears(x) ==
  /\ NoDuplicates(x.frameHandlers) /\ NoDuplicates(x.snapshot)
  /\ x.next \in 1..Len(x.snapshot) + 1
  /\ x.frame = 0 => x.heard = x.due
  /\ x.frame # 0 =>
       \A h \in Handler :
         x.due[h] = IF Ahead(x, h) THEN Append(x.heard[h], x.frame) ELSE x.heard[h]

(* The loop over the close handlers, which runs once: before it nobody has *)
(* been told, within it those it has passed, after it the runtime too.     *)
Passed(x, h) == \E i \in 1..x.closing - 1 : x.closeHandlers[i] = h
Keeps(x)     == \E i \in 1..Len(x.closeHandlers) : x.closeHandlers[i] = Runtime
Closes(x) ==
  /\ NoDuplicates(x.closeHandlers)
  /\ x.life = "absent" => ~x.isOpen /\ x.closing = 0 /\ x.frame = 0
  /\ x.isOpen => x.closing = 0 /\ Keeps(x)
  /\ x.isOpen \/ x.life = "absent" => \A h \in Handler : x.told[h] = 0
  /\ x.closing # 0 =>
       /\ x.closing <= Len(x.closeHandlers) + 1 /\ Keeps(x)
       /\ \A h \in Handler : x.told[h] = IF Passed(x, h) THEN 1 ELSE 0
  /\ ~x.isOpen /\ x.closing = 0 /\ x.life # "absent" =>
       x.told[Runtime] = 1 /\ \A h \in Handler : x.told[h] \in {0, 1}

Good(x) == x \in Transport /\ Hears(x) /\ Closes(x)
IInv    == end \in [End -> Transport] /\ \A e \in End : Good(end[e])

(***************************************************************************)
(* Lists without duplicates.                                               *)
(***************************************************************************)

(* Appending a handler that is not in a list keeps it free of duplicates.  *)
LEMMA AppendKeeps ==
  ASSUME NEW S, NEW s \in Seq(S), NEW h \in S, NoDuplicates(s), h \notin Range(s)
  PROVE  Append(s, h) \in Seq(S) /\ NoDuplicates(Append(s, h))
BY DEF NoDuplicates, Range

(* Taking one out moves those behind it. *)
LEMMA Removed ==
  ASSUME NEW S, NEW s \in Seq(S), NEW k \in 1..Len(s)
  PROVE  /\ RemoveAt(s, k) \in Seq(S) /\ Len(RemoveAt(s, k)) = Len(s) - 1
         /\ \A i \in 1..Len(s) - 1 : RemoveAt(s, k)[i] = IF i < k THEN s[i] ELSE s[i + 1]
<1> DEFINE before == SubSeq(s, 1, k - 1)
           after  == SubSeq(s, k + 1, Len(s))
           r      == before \o after
<1>1. /\ before \in Seq(S) /\ Len(before) = k - 1
      /\ \A i \in 1..k - 1 : before[i] = s[i]
  <2>1. \A i \in 1..k - 1 : s[i] \in S
    BY ElementOfSeq
  <2> QED BY <2>1, SubSeqProperties
<1>2. /\ after \in Seq(S) /\ Len(after) = Len(s) - k
      /\ \A i \in 1..Len(s) - k : after[i] = s[k + i]
  BY ElementOfSeq, SubSeqProperties
<1> HIDE DEF before, after
<1>3. r \in Seq(S) /\ Len(r) = Len(s) - 1
  <2>1. /\ before \in Seq(S) /\ after \in Seq(S)
        /\ Len(before) = k - 1 /\ Len(after) = Len(s) - k /\ Len(s) \in Nat
    BY <1>1, <1>2
  <2>2. r \in Seq(S) /\ Len(r) = Len(before) + Len(after)
    BY <2>1, ConcatProperties
  <2> HIDE DEF r
  <2> QED BY <2>1, <2>2
<1>4. \A i \in 1..Len(r) : r[i] = IF i < k THEN s[i] ELSE s[i + 1]
  BY <1>1, <1>2, <1>3, ConcatProperties
<1> QED BY <1>3, <1>4 DEF RemoveAt, r, before, after

(* It leaves a list without duplicates ... *)
LEMMA RemoveKeeps ==
  ASSUME NEW S, NEW s \in Seq(S), NEW k \in 1..Len(s), NoDuplicates(s)
  PROVE  RemoveAt(s, k) \in Seq(S) /\ NoDuplicates(RemoveAt(s, k))
<1> DEFINE r == RemoveAt(s, k)
<1>1. /\ r \in Seq(S) /\ Len(r) = Len(s) - 1
      /\ \A i \in 1..Len(s) - 1 : r[i] = IF i < k THEN s[i] ELSE s[i + 1]
  BY Removed
<1> HIDE DEF r
<1>2. \A i, j \in 1..Len(r) : r[i] = r[j] => i = j
  <2> SUFFICES ASSUME NEW i \in 1..Len(r), NEW j \in 1..Len(r), r[i] = r[j] PROVE i = j
    OBVIOUS
  <2> DEFINE place(n) == IF n < k THEN n ELSE n + 1
  <2>1. place(i) \in 1..Len(s) /\ place(j) \in 1..Len(s) /\ s[place(i)] = s[place(j)]
    BY <1>1
  <2>2. place(i) = place(j)
    BY <2>1 DEF NoDuplicates
  <2> QED BY <2>2
<1> QED BY <1>1, <1>2 DEF NoDuplicates, r

(* ... and everyone else on it. *)
LEMMA RemoveLeaves ==
  ASSUME NEW S, NEW s \in Seq(S), NEW k \in 1..Len(s), NEW h \in Range(s), h # s[k]
  PROVE  h \in Range(RemoveAt(s, k))
<1> DEFINE r == RemoveAt(s, k)
<1>1. /\ r \in Seq(S) /\ Len(r) = Len(s) - 1
      /\ \A i \in 1..Len(s) - 1 : r[i] = IF i < k THEN s[i] ELSE s[i + 1]
  BY Removed
<1>2. PICK i \in 1..Len(s) : s[i] = h /\ i # k
  BY DEF Range
<1> HIDE DEF r
<1>3. CASE i < k
  <2>1. i \in 1..Len(s) - 1 /\ i \in DOMAIN r /\ r[i] = h
    BY <1>1, <1>2, <1>3
  <2> QED BY <2>1 DEF Range, r
<1>4. CASE i > k
  <2>1. i - 1 \in 1..Len(s) - 1 /\ i - 1 \in DOMAIN r /\ r[i - 1] = h
    BY <1>1, <1>2, <1>4
  <2> QED BY <2>1 DEF Range, r
<1> QED BY <1>2, <1>3, <1>4

(***************************************************************************)
(* One transport, one step.                                                *)
(***************************************************************************)

(* The types of a transport's parts. *)
LEMMA Parts ==
  ASSUME NEW x \in Transport
  PROVE  /\ x.life \in {"absent", "up", "gone"} /\ x.isOpen \in BOOLEAN
         /\ x.frameHandlers \in Seq(Handler) /\ x.closeHandlers \in Seq(Handler)
         /\ x.frame \in Frame \cup {0} /\ x.snapshot \in Seq(Handler)
         /\ x.next \in Nat /\ x.closing \in Nat
         /\ x.due \in [Handler -> Seq(Frame)] /\ x.heard \in [Handler -> Seq(Frame)]
         /\ x.told \in [Handler -> Nat]
BY DEF Transport

(* A step that makes one end another good transport keeps the invariant.   *)
LEMMA Changed ==
  ASSUME IInv, NEW e \in End, NEW y, Good(y), end' = [end EXCEPT ![e] = y]
  PROVE  IInv'
BY DEF IInv, Good

(* A transport whose loop over the frame handlers stands where it stood.   *)
LEMMA SameHears ==
  ASSUME NEW x, NEW y, Hears(x), NoDuplicates(y.frameHandlers), y.snapshot = x.snapshot,
         y.next = x.next, y.frame = x.frame, y.due = x.due, y.heard = x.heard
  PROVE  Hears(y)
BY DEF Hears, Ahead

(* One whose loop over the close handlers does. *)
LEMMA SameCloses ==
  ASSUME NEW x, NEW y, Closes(x), y.closeHandlers = x.closeHandlers, y.closing = x.closing,
         y.told = x.told, y.life = x.life, y.isOpen = x.isOpen,
         y.frame = x.frame \/ y.life # "absent"
  PROVE  Closes(y)
BY DEF Closes, Keeps, Passed

(* A transport that is constructed is good. *)
LEMMA GoodConstruct ==
  ASSUME IInv, NEW e \in End, Construct(e)
  PROVE  IInv'
<1> DEFINE y == [Absent EXCEPT !.life = "up", !.isOpen = TRUE,
                               !.frameHandlers = <<Runtime>>, !.closeHandlers = <<Runtime>>]
<1>1. /\ <<Runtime>> \in Seq(Handler) /\ <<>> \in Seq(Handler)
      /\ [h \in Handler |-> <<>>] \in [Handler -> Seq(Frame)]
      /\ [h \in Handler |-> 0] \in [Handler -> Nat]
  BY DEF Handler
<1>2. /\ y.life = "up" /\ y.isOpen = TRUE /\ y.frameHandlers = <<Runtime>>
      /\ y.closeHandlers = <<Runtime>> /\ y.frame = 0 /\ y.snapshot = <<>> /\ y.next = 1
      /\ y.closing = 0 /\ y.due = [h \in Handler |-> <<>>] /\ y.heard = [h \in Handler |-> <<>>]
      /\ y.told = [h \in Handler |-> 0]
  BY DEF Absent
<1>3. y \in Transport
  BY <1>1 DEF Absent, Transport
<1> HIDE DEF y
<1>4. Hears(y)
  BY <1>2 DEF Hears, NoDuplicates
<1>5. Closes(y)
  BY <1>2 DEF Closes, NoDuplicates, Keeps
<1> QED BY <1>3, <1>4, <1>5, Changed DEF Construct, Local, Set, Good, y

(* A handler more on the list of frame handlers, or one less. *)
LEMMA GoodFrameHandlers ==
  ASSUME IInv, NEW e \in End, NEW s \in Seq(Handler), NoDuplicates(s),
         end' = [end EXCEPT ![e] = [end[e] EXCEPT !.frameHandlers = s]]
  PROVE  IInv'
<1> DEFINE x == end[e]
           y == [x EXCEPT !.frameHandlers = s]
<1>1. x \in Transport /\ Hears(x) /\ Closes(x)
  BY DEF IInv, Good
<1>2. /\ y \in Transport /\ y.frameHandlers = s /\ y.snapshot = x.snapshot /\ y.next = x.next
      /\ y.frame = x.frame /\ y.due = x.due /\ y.heard = x.heard /\ y.told = x.told
      /\ y.closeHandlers = x.closeHandlers /\ y.closing = x.closing /\ y.life = x.life
      /\ y.isOpen = x.isOpen
  BY <1>1 DEF Transport
<1>3. end' = [end EXCEPT ![e] = y]
  OBVIOUS
<1> HIDE DEF x, y
<1>4. Hears(y) /\ Closes(y)
  BY <1>1, <1>2, SameHears, SameCloses
<1> QED BY <1>2, <1>3, <1>4, Changed DEF Good

LEMMA GoodOnFrame ==
  ASSUME IInv, NEW e \in End, OnFrame(e)
  PROVE  IInv'
<1> PICK h \in Others \ Range(end[e].frameHandlers) :
      Local(e, [end[e] EXCEPT !.frameHandlers = Append(@, h)])
  BY DEF OnFrame
<1>1. end[e].frameHandlers \in Seq(Handler) /\ NoDuplicates(end[e].frameHandlers)
  BY Parts DEF IInv, Good, Hears
<1>2. /\ Append(end[e].frameHandlers, h) \in Seq(Handler)
      /\ NoDuplicates(Append(end[e].frameHandlers, h))
  BY <1>1, AppendKeeps DEF Handler
<1> QED BY <1>2, GoodFrameHandlers DEF Local, Set

LEMMA GoodUnsubscribe ==
  ASSUME IInv, NEW e \in End, Unsubscribe(e)
  PROVE  IInv'
<1> PICK k \in DOMAIN end[e].frameHandlers :
      Local(e, [end[e] EXCEPT !.frameHandlers = RemoveAt(@, k)])
  BY DEF Unsubscribe
<1>1. end[e].frameHandlers \in Seq(Handler) /\ NoDuplicates(end[e].frameHandlers)
  BY Parts DEF IInv, Good, Hears
<1>2. /\ RemoveAt(end[e].frameHandlers, k) \in Seq(Handler)
      /\ NoDuplicates(RemoveAt(end[e].frameHandlers, k))
  BY <1>1, RemoveKeeps
<1> QED BY <1>2, GoodFrameHandlers DEF Local, Set

(* A close handler more, during the loop too: those passed stay passed. *)
LEMMA GoodOnClose ==
  ASSUME IInv, NEW e \in End, OnClose(e)
  PROVE  IInv'
<1> PICK h \in Others \ Range(end[e].closeHandlers) :
      Local(e, [end[e] EXCEPT !.closeHandlers = Append(@, h)])
  BY DEF OnClose
<1> DEFINE x == end[e]
           s == Append(x.closeHandlers, h)
           y == [x EXCEPT !.closeHandlers = s]
<1>1. x \in Transport /\ Hears(x) /\ Closes(x)
  BY DEF IInv, Good
<1>2. x.closeHandlers \in Seq(Handler) /\ NoDuplicates(x.closeHandlers) /\ x.closing \in Nat
  BY <1>1, Parts DEF Closes
<1>3. s \in Seq(Handler) /\ NoDuplicates(s)
  BY <1>2, AppendKeeps DEF Handler
<1>4. /\ Len(s) = Len(x.closeHandlers) + 1
      /\ \A i \in 1..Len(x.closeHandlers) : s[i] = x.closeHandlers[i]
  BY <1>2
<1>5. /\ y \in Transport /\ y.frameHandlers = x.frameHandlers /\ y.snapshot = x.snapshot
      /\ y.next = x.next /\ y.frame = x.frame /\ y.due = x.due /\ y.heard = x.heard
      /\ y.told = x.told /\ y.closeHandlers = s /\ y.closing = x.closing /\ y.life = x.life
      /\ y.isOpen = x.isOpen
  BY <1>1, <1>3 DEF Transport
<1>6. end' = [end EXCEPT ![e] = y]
  BY DEF Local, Set
<1> HIDE DEF x, s, y
<1>7. Hears(y)
  BY <1>1, <1>5, SameHears DEF Hears
<1>8. Keeps(x) => Keeps(y)
  BY <1>2, <1>4, <1>5 DEF Keeps
<1>9. ASSUME x.closing # 0
      PROVE  x.closing <= Len(s) + 1 /\ \A g \in Handler : Passed(y, g) <=> Passed(x, g)
  <2>1. x.closing <= Len(x.closeHandlers) + 1
    BY <1>1, <1>9 DEF Closes
  <2>2. x.closing <= Len(s) + 1 /\ \A i \in 1..x.closing - 1 : s[i] = x.closeHandlers[i]
    BY <1>2, <1>4, <2>1
  <2>3. y.closeHandlers = s /\ y.closing = x.closing
    BY <1>5
  <2>4. ASSUME NEW g \in Handler PROVE Passed(y, g) <=> Passed(x, g)
    BY <2>2, <2>3 DEF Passed
  <2> QED BY <2>2, <2>4
<1>10. Closes(y)
  BY <1>1, <1>3, <1>5, <1>8, <1>9 DEF Closes
<1> QED BY <1>5, <1>6, <1>7, <1>10, Changed DEF Good

(* The loop over the close handlers begins: only an open transport does it. *)
LEMMA GoodClosing ==
  ASSUME NEW x, Good(x), x.isOpen
  PROVE  Good(Closing(x))
<1> DEFINE y == Closing(x)
<1>1. x \in Transport /\ Hears(x) /\ Closes(x)
  BY DEF Good
<1>2. /\ y \in Transport /\ y.frameHandlers = x.frameHandlers /\ y.snapshot = x.snapshot
      /\ y.next = x.next /\ y.frame = x.frame /\ y.due = x.due /\ y.heard = x.heard
      /\ y.told = x.told /\ y.closeHandlers = x.closeHandlers /\ y.closing = 1
      /\ y.life = x.life /\ y.isOpen = FALSE
  BY <1>1 DEF Transport, Closing
<1> HIDE DEF y
<1>3. Hears(y)
  BY <1>1, <1>2, SameHears DEF Hears
<1>4. x.life # "absent" /\ Keeps(y) /\ \A h \in Handler : y.told[h] = 0 /\ ~Passed(y, h)
  BY <1>1, <1>2 DEF Closes, Keeps, Passed
<1>5. Len(y.closeHandlers) \in Nat
  BY <1>1, <1>2, Parts
<1>6. Closes(y)
  BY <1>1, <1>2, <1>4, <1>5 DEF Closes
<1> QED BY <1>2, <1>3, <1>6 DEF Good, y

LEMMA GoodClose ==
  ASSUME IInv, NEW e \in End, Close(e) \/ CloseEvent(e)
  PROVE  IInv'
<1>1. Good(end[e]) /\ end[e].isOpen
  BY DEF IInv, Close, CloseEvent, MayClose
<1>2. Good(Closing(end[e]))
  BY <1>1, GoodClosing
<1> QED BY <1>2, Changed DEF Close, CloseEvent, Local, Set

(* A frame arrives between turns: all handlers are still to be called. *)
LEMMA GoodDispatched ==
  ASSUME NEW x, Good(x), x.frame = 0, x.closing = 0, x.life = "up", x.isOpen,
         NEW item \in Frame
  PROVE  Good(Dispatched(x, item))
<1> DEFINE due == [h \in Handler |-> IF h \in Range(x.frameHandlers)
                                     THEN Append(x.due[h], item) ELSE x.due[h]]
           y   == [x EXCEPT !.frame = item, !.snapshot = x.frameHandlers, !.next = 1, !.due = due]
<1>1. x \in Transport /\ Hears(x) /\ Closes(x) /\ item # 0
  BY DEF Good, Frame
<1>2. x.frameHandlers \in Seq(Handler) /\ x.due \in [Handler -> Seq(Frame)] /\ x.heard = x.due
  BY <1>1, Parts DEF Hears
<1>3. due \in [Handler -> Seq(Frame)]
  BY <1>2
<1>4. \A h \in Handler : due[h] = IF h \in Range(x.frameHandlers)
                                  THEN Append(x.due[h], item) ELSE x.due[h]
  OBVIOUS
<1>5. y = Dispatched(x, item)
  BY DEF Dispatched
<1> HIDE DEF due
<1>6. /\ y \in Transport /\ y.frameHandlers = x.frameHandlers /\ y.snapshot = x.frameHandlers
      /\ y.next = 1 /\ y.frame = item /\ y.due = due /\ y.heard = x.heard
      /\ y.told = x.told /\ y.closeHandlers = x.closeHandlers /\ y.closing = x.closing
      /\ y.life = x.life /\ y.isOpen = x.isOpen
  BY <1>1, <1>2, <1>3 DEF Transport
<1> HIDE DEF y
<1>7. \A h \in Handler : Ahead(y, h) <=> h \in Range(x.frameHandlers)
  <2> TAKE h \in Handler
  <2>1. y.snapshot = x.frameHandlers /\ y.next = 1
    BY <1>6
  <2>2. DOMAIN x.frameHandlers = 1..Len(x.frameHandlers)
    BY <1>2
  <2> QED BY <2>1, <2>2 DEF Ahead, Range
<1>8. Hears(y)
  BY <1>1, <1>2, <1>4, <1>6, <1>7 DEF Hears
<1>9. Closes(y)
  BY <1>1, <1>6, SameCloses
<1> QED BY <1>5, <1>6, <1>8, <1>9 DEF Good

LEMMA GoodArrive ==
  ASSUME IInv, NEW e \in End, Arrive(e)
  PROVE  IInv'
<1> DEFINE item == Head(wire[e])
<1>1. Good(end[e]) /\ end[e].frame = 0 /\ end[e].closing = 0
  BY DEF IInv, Arrive, Idle
<1>2. end' = [end EXCEPT ![e] = IF Listening(end[e]) THEN Dispatched(end[e], item) ELSE end[e]]
  BY DEF Arrive, Set
<1> HIDE DEF item
<1>3. CASE item \in Frame /\ Listening(end[e])
  <2>1. Good(Dispatched(end[e], item))
    BY <1>1, <1>3, GoodDispatched DEF Listening
  <2> QED BY <1>2, <1>3, <2>1, Changed
<1>4. CASE ~(item \in Frame /\ Listening(end[e]))
  <2>1. end' = [end EXCEPT ![e] = end[e]]
    BY <1>2, <1>4 DEF Dispatched
  <2> QED BY <1>1, <2>1, Changed
<1> QED BY <1>3, <1>4

(* The next handler of the copy hears the frame of the turn. *)
LEMMA GoodCallHandler ==
  ASSUME IInv, NEW e \in End, CallHandler(e)
  PROVE  IInv'
<1> DEFINE x == end[e]
           g == x.snapshot[x.next]
           heard == Hearing(x, g)
           y == [x EXCEPT !.heard = heard, !.next = x.next + 1]
<1>1. x \in Transport /\ Hears(x) /\ Closes(x)
  BY DEF IInv, Good
<1>2. /\ x.snapshot \in Seq(Handler) /\ x.next \in Nat /\ x.heard \in [Handler -> Seq(Frame)]
      /\ x.frame \in Frame \cup {0}
  BY <1>1, Parts
<1>3. x.frame # 0 /\ x.frame \in Frame /\ x.next \in 1..Len(x.snapshot)
  BY <1>1, <1>2 DEF CallHandler, Called, Hears
<1>4. g \in Handler
  BY <1>2, <1>3
<1>5. heard \in [Handler -> Seq(Frame)] /\ x.next + 1 \in Nat
  BY <1>2, <1>3, <1>4 DEF Hearing
<1>6. \A h \in Handler : heard[h] = IF h = g THEN Append(x.heard[h], x.frame) ELSE x.heard[h]
  BY <1>2, <1>3, <1>4 DEF Hearing
<1>7. end' = [end EXCEPT ![e] = y]
  BY DEF CallHandler, Called, Local, Set
<1> HIDE DEF heard
<1>8. /\ y \in Transport /\ y.frameHandlers = x.frameHandlers /\ y.snapshot = x.snapshot
      /\ y.next = x.next + 1 /\ y.frame = x.frame /\ y.due = x.due /\ y.heard = heard
      /\ y.told = x.told /\ y.closeHandlers = x.closeHandlers /\ y.closing = x.closing
      /\ y.life = x.life /\ y.isOpen = x.isOpen
  BY <1>1, <1>5 DEF Transport
<1> HIDE DEF x, y
<1>9. Ahead(x, g) /\ ~Ahead(y, g)
  <2>1. NoDuplicates(x.snapshot) /\ x.snapshot[x.next] = g
    BY <1>1 DEF Hears
  <2>2. x.next \in x.next..Len(x.snapshot)
    BY <1>2, <1>3
  <2>3. \A i \in x.next + 1..Len(x.snapshot) : i \in 1..Len(x.snapshot) /\ i # x.next
    BY <1>2, <1>3
  <2>4. \A i \in x.next + 1..Len(x.snapshot) : x.snapshot[i] # g
    BY <1>3, <2>1, <2>3 DEF NoDuplicates
  <2> QED BY <1>8, <2>1, <2>2, <2>4 DEF Ahead
<1>10. \A h \in Handler : h # g => (Ahead(y, h) <=> Ahead(x, h))
  <2>1. \A i \in x.next..Len(x.snapshot) : i = x.next \/ i \in x.next + 1..Len(x.snapshot)
    BY <1>2, <1>3
  <2>2. \A i \in x.next + 1..Len(x.snapshot) : i \in x.next..Len(x.snapshot)
    BY <1>2, <1>3
  <2>3. x.snapshot[x.next] = g
    OBVIOUS
  <2> HIDE DEF g
  <2> QED BY <1>8, <2>1, <2>2, <2>3 DEF Ahead
<1>11. \A h \in Handler :
         y.due[h] = IF Ahead(y, h) THEN Append(y.heard[h], y.frame) ELSE y.heard[h]
  <2> HIDE DEF g
  <2> TAKE h \in Handler
  <2>0. Hears(x) /\ x.frame # 0
    BY <1>1, <1>3
  <2>1. x.due[h] = IF Ahead(x, h) THEN Append(x.heard[h], x.frame) ELSE x.heard[h]
    BY <2>0 DEF Hears
  <2>2. CASE h = g
    BY <1>6, <1>8, <1>9, <2>1, <2>2
  <2>3. CASE h # g
    BY <1>6, <1>8, <1>10, <2>1, <2>3
  <2> QED BY <2>2, <2>3
<1>12. Hears(y)
  BY <1>1, <1>2, <1>3, <1>8, <1>11 DEF Hears
<1>13. Closes(y)
  BY <1>1, <1>8, SameCloses
<1> QED BY <1>7, <1>8, <1>12, <1>13, Changed DEF Good

(* The loop over the copy is over: nobody lacks the frame any more. *)
LEMMA GoodEndDispatch ==
  ASSUME IInv, NEW e \in End, EndDispatch(e)
  PROVE  IInv'
<1> DEFINE x == end[e]
           y == [x EXCEPT !.frame = 0, !.snapshot = <<>>, !.next = 1]
<1>1. x \in Transport /\ Hears(x) /\ Closes(x)
  BY DEF IInv, Good
<1>2. /\ x.snapshot \in Seq(Handler) /\ x.next \in Nat /\ x.heard \in [Handler -> Seq(Frame)]
      /\ x.due \in [Handler -> Seq(Frame)] /\ <<>> \in Seq(Handler)
  BY <1>1, Parts
<1>3. x.frame # 0 /\ x.next > Len(x.snapshot)
  BY DEF EndDispatch, Called
<1>4. end' = [end EXCEPT ![e] = y]
  BY DEF EndDispatch, Local, Set
<1>5. /\ y \in Transport /\ y.frameHandlers = x.frameHandlers /\ y.snapshot = <<>>
      /\ y.next = 1 /\ y.frame = 0 /\ y.due = x.due /\ y.heard = x.heard
      /\ y.told = x.told /\ y.closeHandlers = x.closeHandlers /\ y.closing = x.closing
      /\ y.life = x.life /\ y.isOpen = x.isOpen
  BY <1>1, <1>2 DEF Transport
<1> HIDE DEF x, y
<1>6. \A h \in Handler : ~Ahead(x, h)
  BY <1>2, <1>3 DEF Ahead
<1>7. \A h \in Handler : x.due[h] = x.heard[h]
  BY <1>1, <1>3, <1>6 DEF Hears
<1>8. x.due = x.heard
  BY <1>2, <1>7
<1>9. Hears(y)
  BY <1>1, <1>5, <1>8 DEF Hears, NoDuplicates
<1>10. x.life # "absent"
  BY <1>1, <1>3 DEF Closes
<1>11. Closes(y)
  BY <1>1, <1>5, <1>10, SameCloses
<1> QED BY <1>4, <1>5, <1>9, <1>11, Changed DEF Good

(* The next close handler is told; no other handler is its equal. *)
LEMMA GoodCallCloser ==
  ASSUME IInv, NEW e \in End, CallCloser(e)
  PROVE  IInv'
<1> DEFINE x == end[e]
           g == x.closeHandlers[x.closing]
           told == Telling(x, g)
           y == [x EXCEPT !.told = told, !.closing = x.closing + 1]
<1>1. x \in Transport /\ Hears(x) /\ Closes(x)
  BY DEF IInv, Good
<1>2. x.closeHandlers \in Seq(Handler) /\ x.closing \in Nat /\ x.told \in [Handler -> Nat]
  BY <1>1, Parts
<1>3. x.closing # 0 /\ x.closing \in 1..Len(x.closeHandlers)
  BY <1>2 DEF CallCloser
<1>4. g \in Handler
  BY <1>2, <1>3
<1>5. told \in [Handler -> Nat] /\ x.closing + 1 \in Nat
  <2>1. told = [x.told EXCEPT ![g] = x.told[g] + 1]
    BY DEF Telling
  <2> HIDE DEF told, g, x
  <2>2. x.told[g] \in Nat
    BY <1>2, <1>4
  <2> QED BY <1>2, <1>4, <2>1, <2>2
<1>6. \A h \in Handler : told[h] = IF h = g THEN x.told[h] + 1 ELSE x.told[h]
  BY <1>2, <1>4 DEF Telling
<1>7. end' = [end EXCEPT ![e] = y]
  BY DEF CallCloser, Local, Set
<1> HIDE DEF told
<1>8. /\ y \in Transport /\ y.frameHandlers = x.frameHandlers /\ y.snapshot = x.snapshot
      /\ y.next = x.next /\ y.frame = x.frame /\ y.due = x.due /\ y.heard = x.heard
      /\ y.told = told /\ y.closeHandlers = x.closeHandlers /\ y.closing = x.closing + 1
      /\ y.life = x.life /\ y.isOpen = x.isOpen
  BY <1>1, <1>5 DEF Transport
<1> HIDE DEF x, y
<1>9. Hears(y)
  BY <1>1, <1>8, SameHears DEF Hears
<1>10. ~Passed(x, g) /\ Passed(y, g)
  <2>1. \A i \in 1..x.closing - 1 : i \in 1..Len(x.closeHandlers) /\ i # x.closing
    BY <1>2, <1>3
  <2>2. NoDuplicates(x.closeHandlers) /\ x.closeHandlers[x.closing] = g
    BY <1>1 DEF Closes, x, g
  <2>3. ~Passed(x, g)
    BY <1>3, <2>1, <2>2 DEF Passed, NoDuplicates
  <2>4. x.closing \in 1..y.closing - 1 /\ y.closeHandlers[x.closing] = g
    BY <1>2, <1>3, <1>8, <2>2
  <2> QED BY <2>3, <2>4 DEF Passed
<1>11. \A h \in Handler : h # g => (Passed(y, h) <=> Passed(x, h))
  BY <1>2, <1>3, <1>8 DEF Passed
<1>12. \A h \in Handler : y.told[h] = IF Passed(y, h) THEN 1 ELSE 0
  <2> TAKE h \in Handler
  <2>1. x.told[h] = IF Passed(x, h) THEN 1 ELSE 0
    BY <1>1, <1>3 DEF Closes
  <2>2. CASE h = g
    BY <1>6, <1>8, <1>10, <2>1, <2>2
  <2>3. CASE h # g
    BY <1>6, <1>8, <1>11, <2>1, <2>3
  <2> QED BY <2>2, <2>3
<1>13. Keeps(y) /\ ~y.isOpen /\ y.life # "absent" /\ y.closing # 0
       /\ y.closing <= Len(y.closeHandlers) + 1 /\ NoDuplicates(y.closeHandlers)
  BY <1>1, <1>2, <1>3, <1>8 DEF Closes, Keeps
<1>14. Closes(y)
  BY <1>12, <1>13 DEF Closes
<1> QED BY <1>7, <1>8, <1>9, <1>14, Changed DEF Good

(* The loop is over: the runtime, who was on the list, has been told. *)
LEMMA GoodEndClose ==
  ASSUME IInv, NEW e \in End, EndClose(e)
  PROVE  IInv'
<1> DEFINE x == end[e]
           y == [x EXCEPT !.closing = 0, !.frameHandlers = <<>>, !.closeHandlers = <<>>]
<1>1. x \in Transport /\ Hears(x) /\ Closes(x)
  BY DEF IInv, Good
<1>2. x.closeHandlers \in Seq(Handler) /\ x.closing \in Nat /\ <<>> \in Seq(Handler)
  BY <1>1, Parts
<1>3. x.closing # 0 /\ x.closing > Len(x.closeHandlers)
  BY DEF EndClose
<1>4. end' = [end EXCEPT ![e] = y]
  BY DEF EndClose, Local, Set
<1>5. /\ y \in Transport /\ y.frameHandlers = <<>> /\ y.snapshot = x.snapshot
      /\ y.next = x.next /\ y.frame = x.frame /\ y.due = x.due /\ y.heard = x.heard
      /\ y.told = x.told /\ y.closeHandlers = <<>> /\ y.closing = 0
      /\ y.life = x.life /\ y.isOpen = x.isOpen
  BY <1>1, <1>2 DEF Transport
<1> HIDE DEF x, y
<1>6. NoDuplicates(<<>>)
  BY DEF NoDuplicates
<1>7. Hears(y)
  BY <1>1, <1>5, <1>6, SameHears
<1>8. x.closing <= Len(x.closeHandlers) + 1 /\ Keeps(x) /\ ~x.isOpen /\ x.life # "absent"
      /\ \A h \in Handler : x.told[h] = IF Passed(x, h) THEN 1 ELSE 0
  BY <1>1, <1>3 DEF Closes
<1>9. Runtime \in Handler /\ Passed(x, Runtime)
  BY <1>2, <1>3, <1>8 DEF Keeps, Passed, Handler
<1>10. Closes(y)
  BY <1>5, <1>6, <1>8, <1>9 DEF Closes
<1> QED BY <1>4, <1>5, <1>7, <1>10, Changed DEF Good

(* A page that goes leaves its transport as it stands. *)
LEMMA GoodPageGoes ==
  ASSUME IInv, PageGoes
  PROVE  IInv'
<1> DEFINE x == end["page"]
           y == [x EXCEPT !.life = "gone"]
<1>1. x \in Transport /\ Hears(x) /\ Closes(x) /\ x.life = "up" /\ "page" \in End
  BY DEF IInv, Good, PageGoes, End
<1>2. end' = [end EXCEPT !["page"] = y]
  BY DEF PageGoes, Local, Set
<1>3. /\ y \in Transport /\ y.frameHandlers = x.frameHandlers /\ y.snapshot = x.snapshot
      /\ y.next = x.next /\ y.frame = x.frame /\ y.due = x.due /\ y.heard = x.heard
      /\ y.told = x.told /\ y.closeHandlers = x.closeHandlers /\ y.closing = x.closing
      /\ y.life = "gone" /\ y.isOpen = x.isOpen
  BY <1>1 DEF Transport
<1> HIDE DEF x, y
<1>4. Hears(y)
  BY <1>1, <1>3, SameHears DEF Hears
<1>5. Closes(y)
  BY <1>1, <1>3 DEF Closes, Passed, Keeps
<1> QED BY <1>1, <1>2, <1>3, <1>4, <1>5, Changed DEF Good

(***************************************************************************)
(* The theorems.                                                           *)
(***************************************************************************)

(* The invariant holds at the start. *)
LEMMA InitGood == Init => IInv
<1> SUFFICES ASSUME Init PROVE IInv
  OBVIOUS
<1>1. Absent \in Transport
  BY DEF Absent, Transport
<1>2. Hears(Absent) /\ Closes(Absent)
  BY DEF Hears, Closes, Absent, NoDuplicates, Keeps
<1> QED BY <1>1, <1>2 DEF Init, IInv, Good

(* Every step keeps it. *)
LEMMA NextGood == IInv /\ [Next]_vars => IInv'
<1> SUFFICES ASSUME IInv, [Next]_vars PROVE IInv'
  OBVIOUS
<1>1. CASE PageGoes
  BY <1>1, GoodPageGoes
<1>2. ASSUME NEW e \in End, Turn(e) PROVE IInv'
  BY <1>2, GoodArrive, GoodCallHandler, GoodEndDispatch, GoodCallCloser, GoodEndClose, GoodClose
     DEF Turn
<1>3. ASSUME NEW e \in End, Acts(e) PROVE IInv'
  <2>1. CASE Send(e)
    BY <2>1 DEF Send, IInv
  <2> QED BY <1>3, <2>1, GoodConstruct, GoodOnFrame, GoodUnsubscribe, GoodOnClose, GoodClose
       DEF Acts
<1>4. ASSUME NEW e \in End, Noise(e) PROVE IInv'
  BY <1>4 DEF Noise, IInv
<1>5. CASE UNCHANGED vars
  BY <1>5 DEF vars, IInv
<1> QED BY <1>1, <1>2, <1>3, <1>4, <1>5 DEF Next

(* The two loops of every transport stand where Good says, always. *)
LEMMA AlwaysGood == Spec => []IInv
BY InitGood, NextGood, PTL DEF Spec

(* Every frame handler hears each frame that arrives while it is           *)
(* registered, once and in order, though handlers change the list or close *)
(* the transport in the middle of a turn.                                  *)
THEOREM NobodyMissesAFrame == Spec => []HearsWhatIsDue
<1>1. IInv => HearsWhatIsDue
  BY DEF IInv, Good, Hears, HearsWhatIsDue, Idle
<1> QED BY <1>1, AlwaysGood, PTL

(* A close handler is never told twice, and the runtime's has been told    *)
(* whenever close() has returned.                                          *)
THEOREM ToldOnce == Spec => []ClosedOnce
<1>1. ASSUME IInv PROVE ClosedOnce
  <2> SUFFICES ASSUME NEW e \in End
               PROVE  /\ \A h \in Handler : end[e].told[h] <= 1
                      /\ end[e].life = "up" /\ ~end[e].isOpen /\ end[e].closing = 0
                           => end[e].told[Runtime] = 1
    BY DEF ClosedOnce
  <2>1. Good(end[e])
    BY <1>1 DEF IInv
  <2> QED BY <2>1 DEF Good, Closes
<1> QED BY <1>1, AlwaysGood, PTL

(***************************************************************************)
(* Nothing is lost on the way.                                             *)
(***************************************************************************)

(* The types that IInv leaves out: the channel's. *)
Item     == Frame \cup {Garbled, Foreign}
WireInv  == /\ link \in Links
            /\ wire \in [End -> Seq(Item)]
            /\ sent \in [End -> 0..MaxFrames]

(* An end's peer is an end, and so are both ends' peers' peers. *)
LEMMA Peers == \A e \in End : Peer(e) \in End /\ Peer(Peer(e)) = e /\ Peer(e) # e
BY DEF End, Peer

(* What is no frame is no number of a frame. *)
LEMMA NoFrames == Garbled \notin Frame /\ Foreign \notin Frame
BY TransportAssumption DEF Garbled, Foreign, Frame

(* Every step leaves the channel well typed. *)
LEMMA WireTypes == WireInv /\ [Next]_vars => WireInv'
<1> SUFFICES ASSUME WireInv, [Next]_vars PROVE WireInv'
  OBVIOUS
<1> USE TransportAssumption, Peers DEF WireInv
<1>1. CASE PageGoes
  BY <1>1 DEF PageGoes, Local, Set
<1>2. ASSUME NEW e \in End, Arrive(e) PROVE WireInv'
  <2>1. wire[e] \in Seq(Item) /\ wire[e] # <<>>
    BY <1>2 DEF Arrive
  <2>2. Tail(wire[e]) \in Seq(Item)
    BY <2>1
  <2> QED BY <1>2, <2>2 DEF Arrive, Set
<1>3. ASSUME NEW e \in End, Turn(e), ~Arrive(e) PROVE WireInv'
  BY <1>3 DEF Turn, CallHandler, EndDispatch, CallCloser, EndClose, CloseEvent, Local, Set
<1>4. ASSUME NEW e \in End, Send(e) PROVE WireInv'
  <2>1. sent[e] \in 0..MaxFrames /\ sent[e] < MaxFrames
    BY <1>4 DEF Send
  <2>2. sent[e] + 1 \in 0..MaxFrames /\ sent[e] + 1 \in Item
    BY <2>1 DEF Item, Frame
  <2>3. Append(wire[Peer(e)], sent[e] + 1) \in Seq(Item)
    BY <2>2
  <2> QED BY <1>4, <2>2, <2>3 DEF Send
<1>5. ASSUME NEW e \in End, Acts(e), ~Send(e) PROVE WireInv'
  BY <1>5 DEF Acts, Construct, OnFrame, Unsubscribe, OnClose, Close, Local, Set
<1>6. ASSUME NEW e \in End, Noise(e) PROVE WireInv'
  <2>1. PICK item \in {Garbled, Foreign} : wire' = [wire EXCEPT ![e] = Append(@, item)]
    BY <1>6 DEF Noise
  <2>2. Append(wire[e], item) \in Seq(Item)
    BY DEF Item
  <2> QED BY <1>6, <2>1, <2>2 DEF Noise
<1>7. CASE UNCHANGED vars
  BY <1>7 DEF vars
<1> QED BY <1>1, <1>2, <1>3, <1>4, <1>5, <1>6, <1>7 DEF Next

(* The frame that arrives is the next one, and the rest still follow. *)
LEMMA CarriedHead ==
  ASSUME NEW heard \in Seq(Frame), NEW items \in Seq(Item), NEW n \in 0..MaxFrames,
         items # <<>>, Carried(heard, items, n)
  PROVE  /\ Head(items) \in Frame => Carried(Append(heard, Head(items)), Tail(items), n)
         /\ Head(items) \notin Frame => Carried(heard, Tail(items), n)
<1> DEFINE m == Len(heard)
           rest == Tail(items)
<1>1. /\ m \in Nat /\ n \in Nat /\ Len(items) \in Nat \ {0} /\ rest \in Seq(Item)
      /\ Len(rest) = Len(items) - 1 /\ \A i \in DOMAIN rest : rest[i] = items[i + 1]
      /\ DOMAIN items = 1..Len(items) /\ DOMAIN rest = 1..Len(rest)
  BY TransportAssumption
<1>2. Head(items) = items[1]
  OBVIOUS
<1>3. \A k : k \in Range(items) <=> k = Head(items) \/ k \in Range(rest)
  <2>1. ASSUME NEW i \in DOMAIN items PROVE items[i] = Head(items) \/ items[i] \in Range(rest)
    <3>1. i # 1 => i - 1 \in DOMAIN rest /\ rest[i - 1] = items[i]
      BY <1>1
    <3> QED BY <3>1, <1>2 DEF Range
  <2>2. ASSUME NEW i \in DOMAIN rest PROVE rest[i] \in Range(items)
    <3>1. i + 1 \in DOMAIN items
      BY <1>1
    <3> QED BY <3>1, <1>1 DEF Range
  <2>3. Head(items) \in Range(items)
    BY <1>1, <1>2 DEF Range
  <2> QED BY <2>1, <2>2, <2>3 DEF Range
<1>4. \A i, j \in DOMAIN rest :
        i < j /\ rest[i] \in Frame /\ rest[j] \in Frame => rest[i] < rest[j]
  <2> TAKE i, j \in DOMAIN rest
  <2>1. i + 1 \in DOMAIN items /\ j + 1 \in DOMAIN items /\ (i < j => i + 1 < j + 1)
    BY <1>1
  <2> QED BY <2>1, <1>1 DEF Carried
<1>5. Range(items) \cap Frame = (m + 1)..n
  BY DEF Carried
<1>6. CASE Head(items) \notin Frame
  <2>1. Range(rest) \cap Frame = (m + 1)..n
    BY <1>3, <1>5, <1>6
  <2> QED BY <1>6, <2>1, <1>4 DEF Carried
<1>7. CASE Head(items) \in Frame
  <2>1. Head(items) \in (m + 1)..n
    BY <1>3, <1>5, <1>7
  <2>2. \A k \in Range(rest) \cap Frame : Head(items) < k
    <3> TAKE k \in Range(rest) \cap Frame
    <3>1. PICK i \in DOMAIN rest : rest[i] = k
      BY DEF Range
    <3>2. i + 1 \in DOMAIN items /\ items[i + 1] = k /\ 1 \in DOMAIN items /\ 1 < i + 1
      BY <3>1, <1>1
    <3> QED BY <3>2, <1>2, <1>7 DEF Carried
  <2>3. Head(items) = m + 1
    <3>1. m + 1 \in (m + 1)..n
      BY <1>1, <2>1
    <3>2. m + 1 \in Range(items) /\ m + 1 \in Frame
      BY <3>1, <1>5
    <3>3. CASE m + 1 \in Range(rest)
      BY <3>2, <3>3, <2>2, <2>1, <1>1
    <3> QED BY <3>2, <3>3, <1>3
  <2>4. Range(rest) \cap Frame = (m + 2)..n
    <3>1. ASSUME NEW k \in Range(rest) \cap Frame PROVE k \in (m + 2)..n
      <4>1. k \in (m + 1)..n
        BY <1>3, <1>5
      <4>2. m + 1 < k
        BY <2>2, <2>3
      <4> QED BY <4>1, <4>2, <1>1
    <3>2. ASSUME NEW k \in (m + 2)..n PROVE k \in Range(rest) \cap Frame
      <4>1. k \in (m + 1)..n /\ k # m + 1
        BY <1>1
      <4> QED BY <4>1, <2>3, <1>3, <1>5
    <3> QED BY <3>1, <3>2
  <2>5. /\ Len(Append(heard, m + 1)) = m + 1 /\ DOMAIN Append(heard, m + 1) = 1..(m + 1)
        /\ \A i \in 1..(m + 1) : Append(heard, m + 1)[i] = IF i = m + 1 THEN m + 1 ELSE heard[i]
    OBVIOUS
  <2>6. \A i \in 1..(m + 1) : Append(heard, m + 1)[i] = i
    BY <2>5, <1>1 DEF Carried
  <2>7. m + 1 <= n /\ (m + 1) + 1 = m + 2
    BY <2>1, <2>3, <1>1
  <2> QED BY <1>7, <2>3, <2>4, <2>5, <2>6, <2>7, <1>4 DEF Carried
<1> QED BY <1>6, <1>7

(* What is sent follows what is on the way; noise is no frame. *)
LEMMA CarriedAppend ==
  ASSUME NEW heard \in Seq(Frame), NEW items \in Seq(Item), NEW n \in 0..MaxFrames,
         Carried(heard, items, n)
  PROVE  /\ n < MaxFrames => Carried(heard, Append(items, n + 1), n + 1)
         /\ \A item \in {Garbled, Foreign} : Carried(heard, Append(items, item), n)
<1>1. Len(heard) \in Nat /\ n \in Nat /\ MaxFrames \in Nat /\ Len(items) \in Nat
      /\ DOMAIN items = 1..Len(items)
  BY TransportAssumption
<1>2. \A x : /\ DOMAIN Append(items, x) = 1..(Len(items) + 1)
             /\ \A i \in DOMAIN Append(items, x) :
                  Append(items, x)[i] = IF i = Len(items) + 1 THEN x ELSE items[i]
  OBVIOUS
<1>3. \A x : Range(Append(items, x)) = Range(items) \cup {x}
  <2> TAKE x
  <2>1. \A i \in DOMAIN Append(items, x) : Append(items, x)[i] \in Range(items) \cup {x}
    BY <1>1, <1>2 DEF Range
  <2>2. \A i \in DOMAIN items : i \in DOMAIN Append(items, x) /\ Append(items, x)[i] = items[i]
    BY <1>1, <1>2
  <2>3. Len(items) + 1 \in DOMAIN Append(items, x) /\ Append(items, x)[Len(items) + 1] = x
    BY <1>1, <1>2
  <2> QED BY <2>1, <2>2, <2>3 DEF Range
<1>4. ASSUME n < MaxFrames PROVE Carried(heard, Append(items, n + 1), n + 1)
  <2>1. Len(heard) <= n /\ Range(items) \cap Frame = (Len(heard) + 1)..n
    BY DEF Carried
  <2>2. n + 1 \in Frame
    BY <1>1, <1>4 DEF Frame
  <2>3. Range(Append(items, n + 1)) \cap Frame = (Len(heard) + 1)..n \cup {n + 1}
    BY <1>3, <2>1, <2>2
  <2>4. (Len(heard) + 1)..n \cup {n + 1} = (Len(heard) + 1)..(n + 1)
    BY <1>1, <2>1
  <2>5. \A i \in DOMAIN items : items[i] \in Frame => items[i] < n + 1
    <3> TAKE i \in DOMAIN items
    <3>1. items[i] \in Frame => items[i] \in (Len(heard) + 1)..n
      BY <2>1 DEF Range
    <3> QED BY <3>1, <1>1
  <2>6. ASSUME NEW i \in DOMAIN Append(items, n + 1), NEW j \in DOMAIN Append(items, n + 1), i < j,
               Append(items, n + 1)[i] \in Frame, Append(items, n + 1)[j] \in Frame
        PROVE  Append(items, n + 1)[i] < Append(items, n + 1)[j]
    <3>1. i \in DOMAIN items /\ Append(items, n + 1)[i] = items[i]
      BY <2>6, <1>1, <1>2
    <3>2. CASE j = Len(items) + 1
      BY <3>1, <3>2, <2>5, <2>6, <1>2
    <3>3. CASE j # Len(items) + 1
      <4>1. j \in DOMAIN items /\ Append(items, n + 1)[j] = items[j]
        BY <3>3, <1>1, <1>2
      <4> QED BY <4>1, <3>1, <2>6 DEF Carried
    <3> QED BY <3>2, <3>3
  <2>7. Len(heard) <= n + 1
    BY <2>1, <1>1
  <2> QED BY <2>3, <2>4, <2>6, <2>7 DEF Carried
<1>5. ASSUME NEW item \in {Garbled, Foreign} PROVE Carried(heard, Append(items, item), n)
  <2>1. item \notin Frame
    BY NoFrames
  <2>2. Range(Append(items, item)) \cap Frame = Range(items) \cap Frame
    BY <1>3, <2>1
  <2>3. \A i \in DOMAIN Append(items, item) :
          Append(items, item)[i] \in Frame
            => i \in DOMAIN items /\ Append(items, item)[i] = items[i]
    BY <1>1, <1>2, <2>1
  <2> QED BY <2>2, <2>3 DEF Carried
<1> QED BY <1>4, <1>5

(* The transports of which the property speaks, not yet there or open, and *)
(* what it takes: an open one has its runtime on the list, and a frame is  *)
(* due to the runtime or on its way.                                       *)
Ready(x)  == x.life = "absent" \/ (x.life = "up" /\ x.isOpen)
Attends(x) == /\ x.life = "up" /\ x.isOpen => Runtime \in Range(x.frameHandlers)
              /\ x.life = "absent" => x.due[Runtime] = <<>>
Flows(e)  == link # "window" /\ Ready(end[e])
               => Carried(end[e].due[Runtime], wire[e], sent[Peer(e)])
FlowInv   == IInv /\ WireInv /\ \A e \in End : Attends(end[e]) /\ Flows(e)

(* A step of one end that leaves what is due to its runtime. *)
LEMMA FlowLocal ==
  ASSUME FlowInv, NEW e \in End, NEW y, Local(e, y), Attends(y),
         Ready(y) => Ready(end[e]) /\ y.due[Runtime] = end[e].due[Runtime]
  PROVE  \A o \in End : Attends(end[o])' /\ Flows(o)'
<1> TAKE o \in End
<1>1. /\ end' = [end EXCEPT ![e] = y] /\ link' = link /\ wire' = wire /\ sent' = sent
      /\ end \in [End -> Transport]
  BY DEF Local, Set, FlowInv, IInv
<1>2. CASE o = e
  BY <1>1, <1>2 DEF FlowInv, Flows
<1>3. CASE o # e
  BY <1>1, <1>3 DEF FlowInv, Flows
<1> QED BY <1>2, <1>3

(* A step that leaves an end's lists alone, or only shortens its life.     *)
LEMMA FlowKeeps ==
  ASSUME FlowInv, NEW e \in End, NEW y, Local(e, y),
         y.due = end[e].due, y.life = "absent" => end[e].life = "absent",
         y.life = "up" /\ y.isOpen => /\ end[e].life = "up" /\ end[e].isOpen
                                      /\ Runtime \in Range(y.frameHandlers)
  PROVE  \A o \in End : Attends(end[o])' /\ Flows(o)'
<1>1. Attends(end[e])
  BY DEF FlowInv
<1>2. Attends(y)
  BY <1>1 DEF Attends
<1>3. Ready(y) => Ready(end[e]) /\ y.due[Runtime] = end[e].due[Runtime]
  BY DEF Ready
<1> QED BY <1>2, <1>3, FlowLocal

(* The runtime is there before anything is due to it. *)
LEMMA FlowConstruct ==
  ASSUME FlowInv, NEW e \in End, Construct(e)
  PROVE  \A o \in End : Attends(end[o])' /\ Flows(o)'
<1> DEFINE y == [Absent EXCEPT !.life = "up", !.isOpen = TRUE,
                               !.frameHandlers = <<Runtime>>, !.closeHandlers = <<Runtime>>]
<1>1. Runtime \in Handler
  BY DEF Handler
<1>2. /\ y.life = "up" /\ y.isOpen /\ y.frameHandlers = <<Runtime>>
      /\ y.due = [h \in Handler |-> <<>>]
  BY DEF Absent
<1>3. Local(e, y) /\ end[e].life = "absent" /\ end[e].due[Runtime] = <<>>
  BY DEF Construct, FlowInv, Attends
<1> HIDE DEF y
<1>4. Runtime \in Range(<<Runtime>>)
  BY DEF Range
<1>5. Attends(y)
  BY <1>2, <1>4 DEF Attends
<1>6. Ready(y) => Ready(end[e]) /\ y.due[Runtime] = end[e].due[Runtime]
  BY <1>1, <1>2, <1>3 DEF Ready
<1> QED BY <1>3, <1>5, <1>6, FlowLocal

(* Registering and unsubscribing others leaves the runtime on the list. *)
LEMMA FlowLists ==
  ASSUME FlowInv, NEW e \in End, OnFrame(e) \/ Unsubscribe(e) \/ OnClose(e)
  PROVE  \A o \in End : Attends(end[o])' /\ Flows(o)'
<1> DEFINE x == end[e]
<1>1. x \in Transport /\ Attends(x) /\ x.life = "up"
  BY DEF FlowInv, IInv, OnFrame, Unsubscribe, OnClose, MayAct
<1>2. x.frameHandlers \in Seq(Handler)
  BY <1>1, Parts
<1>3. CASE OnFrame(e)
  <2>1. PICK h : Local(e, [x EXCEPT !.frameHandlers = Append(x.frameHandlers, h)])
    BY <1>3 DEF OnFrame
  <2> DEFINE y == [x EXCEPT !.frameHandlers = Append(x.frameHandlers, h)]
  <2>2. y.due = x.due /\ y.life = x.life /\ y.isOpen = x.isOpen
        /\ y.frameHandlers = Append(x.frameHandlers, h)
    BY <1>1 DEF Transport
  <2>3. \A i \in DOMAIN x.frameHandlers :
          /\ i \in DOMAIN Append(x.frameHandlers, h)
          /\ Append(x.frameHandlers, h)[i] = x.frameHandlers[i]
    BY <1>2
  <2>4. Runtime \in Range(x.frameHandlers) => Runtime \in Range(Append(x.frameHandlers, h))
    BY <2>3 DEF Range
  <2>5. Local(e, y)
    BY <2>1
  <2> HIDE DEF y
  <2> QED BY <1>1, <2>2, <2>4, <2>5, FlowKeeps DEF Attends
<1>4. CASE Unsubscribe(e)
  <2>1. PICK k \in DOMAIN x.frameHandlers :
          /\ x.frameHandlers[k] # Runtime
          /\ Local(e, [x EXCEPT !.frameHandlers = RemoveAt(x.frameHandlers, k)])
    BY <1>4 DEF Unsubscribe
  <2> DEFINE y == [x EXCEPT !.frameHandlers = RemoveAt(x.frameHandlers, k)]
             s == x.frameHandlers
  <2>2. y.due = x.due /\ y.life = x.life /\ y.isOpen = x.isOpen
        /\ y.frameHandlers = RemoveAt(x.frameHandlers, k)
    BY <1>1 DEF Transport
  <2>3. k \in 1..Len(s)
    BY <1>2
  <2> HIDE DEF s
  <2>4. Runtime \in Range(s) => Runtime \in Range(RemoveAt(s, k))
    BY <1>2, <2>1, <2>3, RemoveLeaves DEF s
  <2>5. Local(e, y)
    BY <2>1
  <2> HIDE DEF y
  <2> QED BY <1>1, <2>2, <2>4, <2>5, FlowKeeps DEF Attends, s
<1>5. CASE OnClose(e)
  <2>1. PICK h : Local(e, [x EXCEPT !.closeHandlers = Append(x.closeHandlers, h)])
    BY <1>5 DEF OnClose
  <2> DEFINE y == [x EXCEPT !.closeHandlers = Append(x.closeHandlers, h)]
  <2>2. /\ y.due = x.due /\ y.life = x.life /\ y.isOpen = x.isOpen
        /\ y.frameHandlers = x.frameHandlers
    BY <1>1 DEF Transport
  <2>3. Local(e, y)
    BY <2>1
  <2> HIDE DEF y
  <2> QED BY <1>1, <2>2, <2>3, FlowKeeps DEF Attends
<1> QED BY <1>3, <1>4, <1>5

(* A closed transport has no part in it any more. *)
LEMMA FlowClose ==
  ASSUME FlowInv, NEW e \in End, Close(e) \/ CloseEvent(e) \/ EndClose(e)
  PROVE  \A o \in End : Attends(end[o])' /\ Flows(o)'
<1> DEFINE x == end[e]
<1>1. x \in Transport /\ Closes(x)
  BY DEF FlowInv, IInv, Good
<1>2. CASE Close(e) \/ CloseEvent(e)
  <2>1. Local(e, Closing(x))
    BY <1>2 DEF Close, CloseEvent
  <2>2. Closing(x).due = x.due /\ Closing(x).life = x.life /\ ~Closing(x).isOpen
    BY <1>1 DEF Closing, Transport
  <2> QED BY <2>1, <2>2, FlowKeeps
<1>3. CASE EndClose(e)
  <2> DEFINE y == [x EXCEPT !.closing = 0, !.frameHandlers = <<>>, !.closeHandlers = <<>>]
  <2>1. Local(e, y) /\ x.closing # 0
    BY <1>3 DEF EndClose
  <2>2. y.due = x.due /\ y.life = x.life /\ y.isOpen = x.isOpen
    BY <1>1 DEF Transport
  <2>3. ~x.isOpen
    BY <1>1, <2>1 DEF Closes
  <2> HIDE DEF y
  <2> QED BY <2>1, <2>2, <2>3, FlowKeeps
<1> QED BY <1>2, <1>3

(* The loops over the handlers leave what is due. *)
LEMMA FlowTurn ==
  ASSUME FlowInv, NEW e \in End, CallHandler(e) \/ EndDispatch(e) \/ CallCloser(e)
  PROVE  \A o \in End : Attends(end[o])' /\ Flows(o)'
<1> DEFINE x == end[e]
<1>1. x \in Transport /\ Attends(x)
  BY DEF FlowInv, IInv
<1>2. PICK y : /\ Local(e, y) /\ y.due = x.due /\ y.life = x.life /\ y.isOpen = x.isOpen
               /\ y.frameHandlers = x.frameHandlers
  <2>1. CASE CallHandler(e)
    <3> DEFINE y == [x EXCEPT !.heard = Hearing(x, Called(x)[x.next]), !.next = x.next + 1]
    <3>1. Local(e, y)
      BY <2>1 DEF CallHandler
    <3>2. /\ y.due = x.due /\ y.life = x.life /\ y.isOpen = x.isOpen
          /\ y.frameHandlers = x.frameHandlers
      BY <1>1 DEF Transport
    <3> QED BY <3>1, <3>2
  <2>2. CASE EndDispatch(e)
    <3> DEFINE y == [x EXCEPT !.frame = 0, !.snapshot = <<>>, !.next = 1]
    <3>1. Local(e, y)
      BY <2>2 DEF EndDispatch
    <3>2. /\ y.due = x.due /\ y.life = x.life /\ y.isOpen = x.isOpen
          /\ y.frameHandlers = x.frameHandlers
      BY <1>1 DEF Transport
    <3> QED BY <3>1, <3>2
  <2>3. CASE CallCloser(e)
    <3> DEFINE y == [x EXCEPT !.told = Telling(x, x.closeHandlers[x.closing]),
                              !.closing = x.closing + 1]
    <3>1. Local(e, y)
      BY <2>3 DEF CallCloser
    <3>2. /\ y.due = x.due /\ y.life = x.life /\ y.isOpen = x.isOpen
          /\ y.frameHandlers = x.frameHandlers
      BY <1>1 DEF Transport
    <3> QED BY <3>1, <3>2
  <2> QED BY <2>1, <2>2, <2>3
<1> QED BY <1>1, <1>2, FlowKeeps DEF Attends

(* A page that goes takes its end out of it. *)
LEMMA FlowPageGoes ==
  ASSUME FlowInv, PageGoes
  PROVE  \A o \in End : Attends(end[o])' /\ Flows(o)'
<1> DEFINE y == [end["page"] EXCEPT !.life = "gone"]
<1>1. "page" \in End /\ end["page"] \in Transport
  BY DEF FlowInv, IInv, End
<1>2. Local("page", y) /\ y.due = end["page"].due /\ y.life = "gone"
  BY <1>1 DEF PageGoes, Transport
<1> HIDE DEF y
<1> QED BY <1>1, <1>2, FlowKeeps

(* What arrives becomes due where there is a transport to take it; a port  *)
(* keeps it as long as there is none.                                      *)
LEMMA FlowArrive ==
  ASSUME FlowInv, NEW e \in End, Arrive(e)
  PROVE  \A o \in End : Attends(end[o])' /\ Flows(o)'
<1> DEFINE x    == end[e]
           item == Head(wire[e])
           y    == IF Listening(x) THEN Dispatched(x, item) ELSE x
<1>1. /\ end' = [end EXCEPT ![e] = y] /\ link' = link /\ sent' = sent
      /\ wire' = [wire EXCEPT ![e] = Tail(wire[e])] /\ wire[e] # <<>> /\ ~Kept(e)
  BY DEF Arrive, Set
<1>2. /\ x \in Transport /\ end \in [End -> Transport] /\ wire \in [End -> Seq(Item)]
      /\ sent \in [End -> 0..MaxFrames] /\ Attends(x)
  BY DEF FlowInv, IInv, WireInv
<1>3. x.due \in [Handler -> Seq(Frame)] /\ Runtime \in Handler
  BY <1>2, Parts DEF Handler
<1>4. /\ y.life = x.life /\ y.isOpen = x.isOpen /\ y.frameHandlers = x.frameHandlers
      /\ (item \notin Frame \/ ~Listening(x) => y.due = x.due)
      /\ (item \in Frame /\ Listening(x) =>
            y.due = [h \in Handler |-> IF h \in Range(x.frameHandlers)
                                       THEN Append(x.due[h], item) ELSE x.due[h]])
  BY <1>2 DEF Dispatched, Transport
<1> HIDE DEF y, item
<1>5. Attends(y)
  BY <1>2, <1>4 DEF Attends, Listening
<1>6. Flows(e)'
  <2> SUFFICES ASSUME link # "window", Ready(y)
               PROVE  Carried(y.due[Runtime], Tail(wire[e]), sent[Peer(e)])
    BY <1>1, <1>2 DEF Flows
  <2>1. Ready(x) /\ Listening(x)
    BY <1>1, <1>4 DEF Ready, Listening, Kept
  <2>2. Carried(x.due[Runtime], wire[e], sent[Peer(e)])
    BY <2>1 DEF FlowInv, Flows
  <2>3. Runtime \in Range(x.frameHandlers)
    BY <1>2, <2>1 DEF Attends, Listening
  <2>4. /\ x.due[Runtime] \in Seq(Frame) /\ wire[e] \in Seq(Item)
        /\ sent[Peer(e)] \in 0..MaxFrames
    BY <1>2, <1>3, Peers
  <2>5. /\ item \in Frame => Carried(Append(x.due[Runtime], item), Tail(wire[e]), sent[Peer(e)])
        /\ item \notin Frame => Carried(x.due[Runtime], Tail(wire[e]), sent[Peer(e)])
    BY <1>1, <2>2, <2>4, CarriedHead DEF item
  <2>6. CASE item \in Frame
    <3>1. y.due[Runtime] = Append(x.due[Runtime], item)
      BY <1>3, <1>4, <2>1, <2>3, <2>6
    <3> QED BY <2>5, <2>6, <3>1
  <2>7. CASE item \notin Frame
    BY <1>4, <2>5, <2>7
  <2> QED BY <2>6, <2>7
<1>7. \A o \in End \ {e} : Flows(o)' /\ Attends(end[o])'
  BY <1>1, <1>2 DEF FlowInv, Flows
<1>8. Attends(end[e])'
  BY <1>1, <1>2, <1>5
<1> QED BY <1>6, <1>7, <1>8

(* What is sent, or is noise, is on its way. *)
LEMMA FlowSend ==
  ASSUME FlowInv, NEW e \in End, Send(e) \/ Noise(e)
  PROVE  \A o \in End : Attends(end[o])' /\ Flows(o)'
<1>1. /\ end \in [End -> Transport] /\ wire \in [End -> Seq(Item)]
      /\ sent \in [End -> 0..MaxFrames] /\ end' = end /\ link' = link
  BY DEF FlowInv, IInv, WireInv, Send, Noise
<1>2. \A o \in End : Attends(end[o])'
  BY <1>1 DEF FlowInv
<1>3. \A o \in End : Runtime \in Handler /\ end[o].due[Runtime] \in Seq(Frame)
  BY <1>1, Parts DEF Handler
<1>4. ASSUME NEW o \in End, link # "window", Ready(end[o])
      PROVE  Carried(end[o].due[Runtime], wire'[o], sent'[Peer(o)])
  <2>1. Carried(end[o].due[Runtime], wire[o], sent[Peer(o)])
    BY <1>4 DEF FlowInv, Flows
  <2>2. wire[o] \in Seq(Item) /\ sent[Peer(o)] \in 0..MaxFrames /\ Peer(o) \in End
    BY <1>1, Peers
  <2>3. /\ sent[Peer(o)] < MaxFrames =>
             Carried(end[o].due[Runtime], Append(wire[o], sent[Peer(o)] + 1), sent[Peer(o)] + 1)
        /\ \A item \in {Garbled, Foreign} :
             Carried(end[o].due[Runtime], Append(wire[o], item), sent[Peer(o)])
    BY <1>3, <2>1, <2>2, CarriedAppend
  <2>4. CASE Send(e)
    <3>1. /\ sent' = [sent EXCEPT ![e] = sent[e] + 1] /\ sent[e] < MaxFrames
          /\ wire' = [wire EXCEPT ![Peer(e)] = Append(wire[Peer(e)], sent[e] + 1)]
      BY <2>4 DEF Send
    <3>2. CASE o = Peer(e)
      <4>1. Peer(o) = e
        BY <3>2, Peers
      <4>2. wire'[o] = Append(wire[o], sent[Peer(o)] + 1) /\ sent'[Peer(o)] = sent[Peer(o)] + 1
        BY <1>1, <3>1, <3>2, <4>1
      <4> QED BY <2>3, <3>1, <4>1, <4>2
    <3>3. CASE o # Peer(e)
      <4>1. Peer(o) # e
        BY <3>3, Peers
      <4>2. wire'[o] = wire[o] /\ sent'[Peer(o)] = sent[Peer(o)]
        BY <1>1, <2>2, <3>1, <3>3, <4>1
      <4> QED BY <2>1, <4>2
    <3> QED BY <3>2, <3>3
  <2>5. CASE Noise(e)
    <3>1. sent' = sent
      BY <2>5 DEF Noise
    <3>2. PICK item \in {Garbled, Foreign} : wire' = [wire EXCEPT ![e] = Append(wire[e], item)]
      BY <2>5 DEF Noise
    <3>3. wire'[o] = IF o = e THEN Append(wire[o], item) ELSE wire[o]
      BY <1>1, <3>2
    <3> QED BY <2>1, <2>3, <3>1, <3>3
  <2> QED BY <2>4, <2>5
<1>5. \A o \in End : Flows(o)'
  BY <1>1, <1>4 DEF Flows
<1> QED BY <1>2, <1>5

(* Every step keeps all of it. *)
LEMMA FlowStep == FlowInv /\ [Next]_vars => FlowInv'
<1> SUFFICES ASSUME FlowInv, [Next]_vars PROVE FlowInv'
  OBVIOUS
<1>1. IInv' /\ WireInv'
  BY NextGood, WireTypes DEF FlowInv
<1>2. \A o \in End : Attends(end[o])' /\ Flows(o)'
  <2>1. CASE PageGoes
    BY <2>1, FlowPageGoes
  <2>2. ASSUME NEW e \in End, Turn(e) \/ Acts(e) \/ Noise(e)
        PROVE  \A o \in End : Attends(end[o])' /\ Flows(o)'
    BY <2>2, FlowArrive, FlowTurn, FlowClose, FlowConstruct, FlowLists, FlowSend DEF Turn, Acts
  <2>3. CASE UNCHANGED vars
    BY <2>3 DEF vars, FlowInv, Flows
  <2> QED BY <2>1, <2>2, <2>3 DEF Next
<1> QED BY <1>1, <1>2 DEF FlowInv

(* The invariant holds at the start: nothing was sent. *)
LEMMA InitFlows == Init => FlowInv
<1> SUFFICES ASSUME Init PROVE FlowInv
  OBVIOUS
<1>1. IInv
  BY InitGood
<1>2. WireInv
  BY TransportAssumption DEF Init, WireInv
<1>3. Absent.life = "absent" /\ Absent.due = [h \in Handler |-> <<>>] /\ Runtime \in Handler
  BY DEF Absent, Handler
<1>4. Carried(<<>>, <<>>, 0)
  BY DEF Carried, Range
<1>5. \A o \in End : Attends(end[o]) /\ Flows(o)
  BY <1>3, <1>4, Peers DEF Init, Attends, Flows
<1> QED BY <1>1, <1>2, <1>5 DEF FlowInv

(* So it holds always. *)
LEMMA AlwaysFlows == Spec => []FlowInv
BY InitFlows, FlowStep, PTL DEF Spec

(* Channel, transports and counters have their types, and no turn calls a  *)
(* handler beyond the copy it made of the list.                            *)
THEOREM ChannelTypes == Spec => []TypeOK
<1>1. ASSUME FlowInv PROVE TypeOK
  <2>1. \A e \in End : end[e] \in Transport /\ Hears(end[e])
    BY <1>1 DEF FlowInv, IInv, Good
  <2>2. \A e \in End : end[e].next <= Len(end[e].snapshot) + 1
    BY <2>1, Parts DEF Hears
  <2> QED BY <1>1, <2>2 DEF FlowInv, IInv, WireInv, TypeOK, Item
<1> QED BY <1>1, AlwaysFlows, PTL

(* A port loses no frame and keeps their order, though frames are sent     *)
(* before the receiving end has a transport and handlers come and go: an   *)
(* open runtime has heard all but what is still under way.                 *)
THEOREM PortsLoseNothing == Spec => []NothingLost
<1>1. ASSUME FlowInv PROVE NothingLost
  <2> SUFFICES ASSUME NEW e \in End, link # "window", end[e].life # "gone", Idle(end[e]),
                      end[e].life = "up" => end[e].isOpen
               PROVE  Carried(end[e].heard[Runtime], wire[e], sent[Peer(e)])
    BY DEF NothingLost
  <2>1. end[e] \in Transport /\ Hears(end[e])
    BY <1>1 DEF FlowInv, IInv, Good
  <2>2. Ready(end[e])
    BY <2>1, Parts DEF Ready
  <2>3. end[e].heard = end[e].due
    BY <2>1 DEF Hears, Idle
  <2> QED BY <1>1, <2>2, <2>3 DEF FlowInv, Flows
<1> QED BY <1>1, AlwaysFlows, PTL
=============================================================================
