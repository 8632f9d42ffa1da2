----------------------------- MODULE HostProofs ------------------------------
(***************************************************************************)
(* Proofs about the native hosts: a page in the web view of an iOS or an   *)
(* Android host.  The inductive invariant has a part for the page, one for *)
(* the frames on the way, one for the map of streams, one for the threads  *)
(* of the Android host, and one for the task of each stream on either      *)
(* platform.                                                               *)
(***************************************************************************)
EXTENDS NativeHosts, SequenceTheorems, TLAPS

(***************************************************************************)
(* The inductive invariant.                                                *)
(***************************************************************************)

(* Calls are placed in order, and within one load each has an id of its    *)
(* own; a call not placed has no task.                                     *)
Paged ==
  /\ PageTypeOK
  /\ \A c \in Call :
       /\ page[c].id = 0 => nextId <= 2 * c - 1 /\ ~page[c].live /\ task[c].pc = "off"
       /\ page[c].sending => ~page[c].halfClosed
  /\ load = 1 => \A c \in Call : page[c].id = IF 2 * c - 1 < nextId THEN 2 * c - 1 ELSE 0

(* A frame to the host carries the id of its call.  OPEN comes before the  *)
(* other frames of its call, and before the call has a task.               *)
ToHost(q) ==
  \A i \in 1..Len(q) :
    LET c == q[i].call  f == q[i].frame IN
    /\ page[c].id = f.streamId
    /\ f.body = "open" => /\ f.arg \in Method \cup {NO_SUCH_METHOD} /\ task[c].pc = "off"
                          /\ \A j \in 1..i - 1 : q[j].call # c
    /\ f.body = "halfClose" => page[c].halfClosed

(* A frame to the page carries the id of its call, which has a task.       *)
ToPage(q) ==
  \A i \in 1..Len(q) : /\ page[q[i].call].id = q[i].frame.streamId
                       /\ task[q[i].call].pc # "off"
                       /\ q[i].frame.body \in {"message", "close", "error"}

(* A stream is listed under its own id, once its task exists.  While the   *)
(* transport is attached, a listed task is not over, nor cancelled unless  *)
(* the bridge thread is about to remove it.                                *)
Listed ==
  /\ streams \in [Id -> Call \cup {0}]
  /\ \A id \in Id : streams[id] # 0 =>
       LET c == streams[id] IN
       /\ page[c].id = id /\ task[c].pc # "off"
       /\ attached => /\ task[c].pc # "done" /\ ~task[c].interrupted
                      /\ task[c].cancelled => bridge = [at |-> "cancel", call |-> c]

Threads ==
  /\ attached \in BOOLEAN
  /\ bridge \in [at : {"idle"}, call : {0}] \cup [at : {"launch", "assign", "cancel"}, call : Call]
  /\ bridge.call # 0 => task[bridge.call].pc # "off"
  /\ bridge.at = "launch" => task[bridge.call].pc = "listed"
  /\ bridge.at = "cancel" => task[bridge.call].cancelled
  /\ hasJob \in [Call -> BOOLEAN]
  /\ activity \in Kotlin!Activity /\ sweep \subseteq {c \in Call : task[c].pc # "off"}
  /\ Android => (attached <=> activity = "alive")
  /\ activity # "alive" => Android

(* The task of a stream on iOS.  Once cancelled, it is told wherever it    *)
(* looks; what it may still send depends on where it stands.               *)
SwiftGood(t) ==
  /\ t \in Task(Swift!SwiftPc, Swift!SwiftState)
  /\ t.pc = "off" => t = NoTask
  /\ t.verdict # Untold => t.pc \in {"closed", "remove", "done"}
  /\ t.interrupted = t.cancelled /\ (t.state = "cancelled" => t.cancelled)
  /\ t.late <= 2 /\ (t.cancelled \/ t.late = 0)
  /\ t.cancelled => /\ t.pc \in {"remove", "done"} \/ t.state = "cancelled"
                    /\ t.pc \in {"sending", "message"} => t.late = 0
                    /\ t.pc \in {"first", "run", "items", "failed", "close"} => t.late <= 1

(* And on Android, where a service that returns its one response sends two *)
(* frames without looking, and an item or an error is sent after one look. *)
KotlinGood(t) ==
  /\ t \in Task(Kotlin!KotlinPc, Kotlin!KotlinState)
  /\ t.pc = "off" => t = NoTask
  /\ t.verdict # Untold => t.pc \in {"closed", "unlist", "finally", "done"}
  /\ t.interrupted => t.cancelled
  /\ t.pc \notin {"off", "done"} => t.method \in MethodType \cup {NO_SUCH_METHOD}
  /\ t.pc \in {"items", "item", "sending", "end"} => StreamsResponses(t)
  /\ t.late <= 2 /\ (t.cancelled \/ t.late = 0)
  /\ t.cancelled /\ attached =>
       /\ t.pc \in {"finally", "done"} \/ t.state = "CANCELLED"
       /\ t.pc \in {"listed", "launched", "first", "run", "message", "sending", "error"}
            => t.late = 0
       /\ t.pc \in {"items", "item", "end", "close", "caught"} => t.late <= 1

HostPc    == Swift!SwiftPc \cup Kotlin!KotlinPc
HostState == Swift!SwiftState \cup Kotlin!KotlinState
Tasks ==
  /\ task \in [Call -> Task(HostPc, HostState)]
  /\ \A c \in Call : (Ios => SwiftGood(task[c])) /\ (Android => KotlinGood(task[c]))

HostInv == Paged /\ ToHost(toHost) /\ ToPage(toPage) /\ Listed /\ Threads /\ Tasks

(* On iOS, the requests of a task end because the page ended them, because *)
(* the stream was cancelled, or because the answer has been sent.          *)
Whole(t, halfClosed) ==
  /\ t.finished => t.cancelled \/ halfClosed \/ t.pc \in {"remove", "done"}
  /\ t.ended => t.cancelled \/ halfClosed
  /\ (t.verdict = Closed \/ t.pc \in {"message", "close"}) /\ t.ended => halfClosed
AllWhole == Ios /\ load = 1 => \A c \in Call : Whole(task[c], page[c].halfClosed)

Message1(c, k) == Sent(c, MessageFrame(page[c].id, k))

(***************************************************************************)
(* What a step does to one task.                                           *)
(***************************************************************************)
Alike(t, u) ==
  /\ t.method = u.method /\ t.state = u.state /\ t.interrupted = u.interrupted
  /\ t.cancelled = u.cancelled /\ t.queue = u.queue /\ t.finished = u.finished
  /\ t.taken = u.taken /\ t.ended = u.ended
Silent(t, u) == t.made = u.made /\ t.verdict = u.verdict /\ t.late = u.late

(* Going on changes nothing else. *)
LEMMA Goes ==
  ASSUME NEW P, NEW S, task \in [Call -> Task(P, S)], NEW c \in Call, NEW p \in P,
         task' = [task EXCEPT ![c].pc = p]
  PROVE  LET t == task'[c]  u == task[c] IN
         /\ t \in Task(P, S) /\ task' = [task EXCEPT ![c] = t]
         /\ t.pc = p /\ Alike(t, u) /\ Silent(t, u)
<1> DEFINE u == task[c]  t == [u EXCEPT !.pc = p]
<1>1. u \in Task(P, S)
  OBVIOUS
<1>2. task' = [task EXCEPT ![c] = t]
  OBVIOUS
<1>3. t \in Task(P, S) /\ t.pc = p /\ Alike(t, u) /\ Silent(t, u)
  BY <1>1 DEF Task, Alike, Silent
<1>4. task'[c] = t
  BY <1>2
<1> HIDE DEF t
<1>5. QED
  BY <1>2, <1>3, <1>4

(* A frame that is sent is counted, if it is sent at all.                  *)
Later(u)       == IF u.cancelled /\ attached THEN u.late + 1 ELSE u.late
Spoken(u, p)   == [Counting(u) EXCEPT !.made = @ + 1, !.pc = p]
Told(u, v, p)  == [Counting(u) EXCEPT !.verdict = v, !.pc = p]

(* Sending a response, or the frame that ends the stream, is counted. *)
LEMMA Counts ==
  ASSUME NEW P, NEW S, NEW u \in Task(P, S), NEW p \in P, attached \in BOOLEAN
  PROVE  /\ Spoken(u, p) \in Task(P, S) /\ Spoken(u, p).pc = p /\ Alike(Spoken(u, p), u)
         /\ Spoken(u, p).made = u.made + 1 /\ Spoken(u, p).verdict = u.verdict
         /\ Spoken(u, p).late = Later(u)
         /\ \A v \in Verdict :
              /\ Told(u, v, p) \in Task(P, S) /\ Told(u, v, p).pc = p /\ Alike(Told(u, v, p), u)
              /\ Told(u, v, p).made = u.made /\ Told(u, v, p).verdict = v
              /\ Told(u, v, p).late = Later(u)
<1> DEFINE w == Counting(u)  n == Later(u)
<1>1. u \in Task(P, S)
  OBVIOUS
<1>2. w \in Task(P, S) /\ w.pc = u.pc /\ Alike(w, u) /\ w.made = u.made /\ w.verdict = u.verdict
      /\ w.late = n /\ w.made \in Nat
  <2>1. w = [u EXCEPT !.late = n] /\ n \in Nat
    BY <1>1 DEF Counting, Task, Later
  <2> HIDE DEF w, n
  <2>2. QED
    BY <1>1, <2>1 DEF Task, Alike
<1> HIDE DEF w, n
<1>3. LET t == Spoken(u, p) IN
      /\ t \in Task(P, S) /\ t.pc = p /\ Alike(t, u)
      /\ t.made = u.made + 1 /\ t.verdict = u.verdict /\ t.late = n
  <2> DEFINE m == w.made + 1  t == [w EXCEPT !.made = m, !.pc = p]
  <2>1. m \in Nat /\ m = u.made + 1
    BY <1>2
  <2> HIDE DEF m
  <2>2. t \in Task(P, S) /\ t.pc = p /\ t.made = m /\ t.verdict = w.verdict /\ t.late = w.late
    BY <1>2, <2>1 DEF Task
  <2>3. Alike(t, w)
    BY <1>2 DEF Task, Alike
  <2> HIDE DEF t
  <2>4. t.made = u.made + 1 /\ t.verdict = u.verdict /\ t.late = n /\ Alike(t, u)
    BY <1>2, <2>1, <2>2, <2>3 DEF Alike
  <2>5. Spoken(u, p) = t
    BY DEF Spoken, t, m, w
  <2>6. QED
    BY <2>2, <2>4, <2>5
<1>4. ASSUME NEW v \in Verdict
      PROVE  LET t == Told(u, v, p) IN
             /\ t \in Task(P, S) /\ t.pc = p /\ Alike(t, u)
             /\ t.made = u.made /\ t.verdict = v /\ t.late = n
  <2>1. Told(u, v, p) = [w EXCEPT !.verdict = v, !.pc = p]
    BY DEF Told, w
  <2>2. QED
    BY <1>2, <2>1 DEF Task, Alike
<1>5. QED
  BY <1>3, <1>4 DEF n

(* A request is taken from the head of the queue.                          *)
TakeTo(u, p) == [Take(u) EXCEPT !.pc = p]

(* A request is taken from the queue: nothing else of the task changes. *)
LEMMA Takes ==
  ASSUME NEW P, NEW S, NEW u \in Task(P, S), u.queue # <<>>, NEW p \in P
  PROVE  /\ Take(u) \in Task(P, S) /\ TakeTo(u, p) \in Task(P, S)
         /\ Take(u).pc = u.pc /\ TakeTo(u, p).pc = p
         /\ \A t \in {Take(u), TakeTo(u, p)} :
              /\ t.method = u.method /\ t.state = u.state /\ t.interrupted = u.interrupted
              /\ t.cancelled = u.cancelled /\ t.finished = u.finished /\ t.ended = u.ended
              /\ Silent(t, u)
<1>1. /\ u.queue \in Seq(Call \X Nat) /\ u.taken \in Seq(Call \X Nat)
  BY DEF Task
<1>2. Append(u.taken, Head(u.queue)) \in Seq(Call \X Nat) /\ Tail(u.queue) \in Seq(Call \X Nat)
  BY <1>1
<1> DEFINE w == Take(u)
<1>3. /\ w \in Task(P, S) /\ w.pc = u.pc /\ w.method = u.method /\ w.state = u.state
      /\ w.interrupted = u.interrupted /\ w.cancelled = u.cancelled /\ w.finished = u.finished
      /\ w.ended = u.ended /\ Silent(w, u)
  BY <1>2 DEF Task, Take, Silent
<1> HIDE DEF w
<1> DEFINE t == [w EXCEPT !.pc = p]
<1>4. /\ t \in Task(P, S) /\ t.pc = p /\ t.method = u.method /\ t.state = u.state
      /\ t.interrupted = u.interrupted /\ t.cancelled = u.cancelled /\ t.finished = u.finished
      /\ t.ended = u.ended /\ Silent(t, u)
  BY <1>3 DEF Task, Silent
<1> HIDE DEF t
<1>5. QED
  BY <1>3, <1>4 DEF w, t, TakeTo

(***************************************************************************)
(* A step of one task, as the rest of the host sees it.                    *)
(***************************************************************************)
Says(u, t, c) ==
  \/ toPage' = toPage /\ t.made = u.made /\ t.verdict = u.verdict
  \/ /\ u.verdict = Untold /\ t.verdict = Untold /\ t.made = u.made + 1
     /\ toPage' = IF attached THEN Append(toPage, Message1(c, u.made + 1)) ELSE toPage
  \/ /\ u.verdict = Untold /\ t.verdict # Untold /\ t.made = u.made
     /\ \E f \in WireFrame :
          /\ f.streamId = page[c].id /\ f.body \in {"close", "error"}
          /\ toPage' = IF attached THEN Append(toPage, Sent(c, f)) ELSE toPage
TaskMove(c) ==
  LET u == task[c]  t == task'[c] IN
  /\ task' = [task EXCEPT ![c] = t]
  /\ UNCHANGED <<platform, load, nextId, page, toHost, attached, androidVars>>
  /\ u.pc \notin {"off", "listed", "done"} /\ t.pc \notin {"off", "listed"}
  /\ u.pc = "finally" => t.pc = "done"
  /\ t.cancelled = u.cancelled /\ t.interrupted = u.interrupted
  /\ \/ streams' = streams
     \/ streams' = [streams EXCEPT ![page[c].id] = 0] /\ t.pc \in {"finally", "done"}
  /\ t.pc = "done" => u.interrupted \/ streams' = [streams EXCEPT ![page[c].id] = 0]
  /\ Says(u, t, c)

(* The ways of a task on iOS that only go on. *)
SwiftWay(u, p) ==
  \/ u.pc = "first" /\ p = "failed"
  \/ u.pc \in {"run", "items"} /\ p \in {"result", "failed"}
  \/ u.pc \in {"run", "items"} /\ u.interrupted /\ p = "remove"
  \/ u.pc = "items" /\ p = "item"
  \/ u.pc = "item" /\ p = IF u.state = "cancelled" THEN "done" ELSE "checked"
  \/ u.pc = "checked" /\ p = IF u.interrupted THEN "remove" ELSE "sending"
  \/ u.pc = "result" /\ u.state = "cancelled" /\ p = "done"
  \/ u.pc = "result" /\ u.state # "cancelled" /\ p \in {"close", "message"}

(* What a step of a task on iOS keeps. *)
SwiftKeeps(c) ==
  /\ TaskMove(c) /\ SwiftGood(task'[c])
  /\ \A h \in BOOLEAN : Whole(task[c], h) => Whole(task'[c], h)

(* They keep it. *)
LEMMA SwiftGoes ==
  ASSUME Tasks, Ios, NEW c \in Call, NEW p, SwiftWay(task[c], p),
         UNCHANGED <<pageVars, streams, attached, androidVars>>,
         task' = [task EXCEPT ![c].pc = p]
  PROVE  SwiftKeeps(c)
<1> DEFINE u == task[c]  t == task'[c]
<1>1. SwiftGood(u)
  BY DEF Tasks
<1>2. p \in Swift!SwiftPc \ {"off", "listed", "finally"} /\ u.pc \notin {"off", "listed", "done"}
  BY DEF SwiftWay, Swift!SwiftPc
<1>3. /\ task' = [task EXCEPT ![c] = t] /\ t.pc = p /\ Alike(t, u) /\ Silent(t, u)
  <2>1. task \in [Call -> Task(HostPc, HostState)] /\ p \in HostPc
    BY <1>2 DEF Tasks, HostPc
  <2>2. QED
    BY <2>1, Goes
<1>4. t \in Task(Swift!SwiftPc, Swift!SwiftState)
  <2>1. t = [u EXCEPT !.pc = p]
    BY DEF Tasks
  <2>2. u \in Task(Swift!SwiftPc, Swift!SwiftState)
    BY <1>1 DEF SwiftGood
  <2> HIDE DEF u, t
  <2>3. QED
    BY <1>2, <2>1, <2>2 DEF Task
<1> HIDE DEF u, t
<1>5. SwiftGood(t)
  BY <1>1, <1>2, <1>3, <1>4 DEF SwiftGood, SwiftWay, Alike, Silent, u
<1>6. \A h \in BOOLEAN : Whole(u, h) => Whole(t, h)
  BY <1>1, <1>2, <1>3 DEF SwiftGood, Whole, SwiftWay, Alike, Silent, Closed, Untold, u
<1>7. t.pc = "done" => u.interrupted
  BY <1>1, <1>2, <1>3 DEF SwiftGood, SwiftWay, Alike, u
<1>8. TaskMove(c)
  <2>1. u.pc # "finally"
    BY <1>1 DEF SwiftGood, Task, Swift!SwiftPc
  <2>2. Says(u, t, c)
    BY <1>3 DEF Says, Silent, pageVars
  <2>3. t.cancelled = u.cancelled /\ t.interrupted = u.interrupted
    BY <1>3 DEF Alike
  <2>4. QED
    BY <1>2, <1>3, <1>7, <2>1, <2>2, <2>3 DEF TaskMove, pageVars, u, t
<1>9. QED
  BY <1>5, <1>6, <1>8 DEF SwiftKeeps, u, t

(* A task of either platform is one of its own, by where it stands.        *)
LEMMA Narrow ==
  ASSUME NEW t \in Task(HostPc, HostState), NEW P, NEW S, t.pc \in P, t.state \in S
  PROVE  t \in Task(P, S)
  BY DEF Task

(* Both dispatchers send with the operators they share.                    *)
LEMMA SameSends ==
  /\ \A c, p : Swift!SendMessage(c, p) <=> SendMessage(c, p)
  /\ \A c, p : Swift!SendClose(c, p) <=> SendClose(c, p)
  /\ \A c, p, code : Swift!SendFailure(c, code, p) <=> SendFailure(c, code, p)
  /\ \A c, p : Kotlin!SendMessage(c, p) <=> SendMessage(c, p)
  /\ \A c, p : Kotlin!SendClose(c, p) <=> SendClose(c, p)
  /\ \A c, p, code : Kotlin!SendFailure(c, code, p) <=> SendFailure(c, code, p)
<1> USE DEF Reply, Update, Counting, Sent, IdOf, MessageFrame, CloseFrame, ErrorFrame, Closed
<1>1. /\ \A c, p : Swift!SendMessage(c, p) <=> SendMessage(c, p)
      /\ \A c, p : Swift!SendClose(c, p) <=> SendClose(c, p)
      /\ \A c, p, code : Swift!SendFailure(c, code, p) <=> SendFailure(c, code, p)
  BY DEF Swift!SendMessage, SendMessage, Swift!SendClose, SendClose, Swift!SendFailure, SendFailure,
     Swift!Reply, Swift!Update, Swift!Counting, Swift!Sent, Swift!IdOf, Swift!MessageFrame,
     Swift!CloseFrame, Swift!ErrorFrame, Swift!Closed
<1>2. /\ \A c, p : Kotlin!SendMessage(c, p) <=> SendMessage(c, p)
      /\ \A c, p : Kotlin!SendClose(c, p) <=> SendClose(c, p)
      /\ \A c, p, code : Kotlin!SendFailure(c, code, p) <=> SendFailure(c, code, p)
  BY DEF Kotlin!SendMessage, SendMessage, Kotlin!SendClose, SendClose, Kotlin!SendFailure,
     SendFailure, Kotlin!Reply, Kotlin!Update, Kotlin!Counting, Kotlin!Sent, Kotlin!IdOf,
     Kotlin!MessageFrame, Kotlin!CloseFrame, Kotlin!ErrorFrame, Kotlin!Closed
<1>3. QED
  BY <1>1, <1>2

(* What sending changes.                                                   *)
LEMMA Sends ==
  ASSUME Tasks, Paged, Threads, NEW c \in Call,
         NEW p \in HostPc \ {"off", "listed", "finally", "done"},
         task[c].pc \notin {"off", "listed", "finally", "done"}, task[c].verdict = Untold,
         UNCHANGED <<streams, attached, androidVars>>,
         SendMessage(c, p) \/ SendClose(c, p) \/ SendFailure(c, INTERNAL, p)
  PROVE  LET u == task[c]  t == task'[c] IN
         /\ TaskMove(c)
         /\ t \in Task(HostPc, HostState) /\ t.pc = p /\ Alike(t, u) /\ t.late = Later(u)
         /\ SendMessage(c, p) => t.verdict = Untold
         /\ SendClose(c, p) => t.verdict = Closed
         /\ SendFailure(c, INTERNAL, p) => t.verdict = INTERNAL
<1> DEFINE u == task[c]  t == task'[c]
<1>1. /\ task \in [Call -> Task(HostPc, HostState)] /\ attached \in BOOLEAN
      /\ u \in Task(HostPc, HostState)
      /\ page[c].id \in Id /\ u.made \in Nat
  <2>1. task \in [Call -> Task(HostPc, HostState)] /\ attached \in BOOLEAN
    BY DEF Tasks, Threads
  <2>2. page[c] \in PageCall /\ page[c].id # 0
    BY DEF Paged, PageTypeOK
  <2>3. QED
    BY <2>1, <2>2 DEF PageCall, Task
<1>2. Closed \in Verdict /\ INTERNAL \in Verdict /\ Closed # Untold /\ INTERNAL # Untold
  BY DEF Verdict, Closed, Untold, INTERNAL, RpcStatusCode
<1>3. /\ t \in Task(HostPc, HostState) /\ t.pc = p /\ Alike(t, u) /\ t.late = Later(u)
      /\ task' = [task EXCEPT ![c] = t]
      /\ SendMessage(c, p) => t.made = u.made + 1 /\ t.verdict = Untold
      /\ SendClose(c, p) => t.made = u.made /\ t.verdict = Closed
      /\ SendFailure(c, INTERNAL, p) => t.made = u.made /\ t.verdict = INTERNAL
  <2>1. u \in Task(HostPc, HostState) /\ attached \in BOOLEAN /\ p \in HostPc
    BY <1>1
  <2>2. /\ SendMessage(c, p) => task' = [task EXCEPT ![c] = Spoken(u, p)]
        /\ SendClose(c, p) => task' = [task EXCEPT ![c] = Told(u, Closed, p)]
        /\ SendFailure(c, INTERNAL, p) => task' = [task EXCEPT ![c] = Told(u, INTERNAL, p)]
    BY DEF SendMessage, SendClose, SendFailure, Update, Spoken, Told
  <2>3. /\ LET s == Spoken(u, p) IN
           /\ s \in Task(HostPc, HostState) /\ s.pc = p /\ Alike(s, u)
           /\ s.made = u.made + 1 /\ s.verdict = u.verdict /\ s.late = Later(u)
        /\ \A v \in Verdict : LET s == Told(u, v, p) IN
           /\ s \in Task(HostPc, HostState) /\ s.pc = p /\ Alike(s, u)
           /\ s.made = u.made /\ s.verdict = v /\ s.late = Later(u)
    <3> HIDE DEF u
    <3>1. QED
      BY <2>1, Counts
  <2>4. ASSUME NEW s, task' = [task EXCEPT ![c] = s]
        PROVE  t = s /\ task' = [task EXCEPT ![c] = t]
    BY <1>1, <2>4
  <2>5. QED
    BY <1>2, <2>2, <2>3, <2>4
<1>4. Says(u, t, c)
  <2>1. CASE SendMessage(c, p) /\ t.made = u.made + 1 /\ t.verdict = u.verdict
    BY <2>1 DEF SendMessage, Reply, IdOf, Message1, Says
  <2>2. CASE SendClose(c, p) /\ t.made = u.made /\ t.verdict # Untold
    <3>1. CloseFrame(page[c].id) \in WireFrame
      BY <1>1 DEF WireFrame, CloseFrame, Body
    <3>2. QED
      BY <2>2, <3>1 DEF SendClose, Reply, IdOf, Says, CloseFrame
  <2>3. CASE SendFailure(c, INTERNAL, p) /\ t.made = u.made /\ t.verdict # Untold
    <3>1. ErrorFrame(page[c].id, INTERNAL) \in WireFrame
      BY <1>1 DEF WireFrame, ErrorFrame, Body, INTERNAL
    <3>2. QED
      BY <2>3, <3>1 DEF SendFailure, Reply, IdOf, Says, ErrorFrame
  <2>4. QED
    BY <1>2, <1>3, <2>1, <2>2, <2>3
<1>5. UNCHANGED <<platform, load, nextId, page, toHost>>
  BY DEF SendMessage, SendClose, SendFailure, Reply
<1>6. TaskMove(c)
  BY <1>3, <1>4, <1>5 DEF TaskMove, Alike
<1>7. QED
  BY <1>3, <1>6

(* The steps of a task on iOS that only go on. *)
LEMMA SwiftWalks ==
  ASSUME Tasks, Ios, NEW c \in Call, UNCHANGED androidVars,
         \/ Swift!MissingRequestData(c) \/ Swift!CheckItem(c) \/ Swift!CheckCancellation(c)
         \/ Swift!CheckResult(c) \/ Swift!NextItem(c) \/ Swift!ProviderReturns(c)
         \/ Swift!ProviderThrows(c) \/ Swift!ProviderCancelled(c)
  PROVE  SwiftKeeps(c)
<1> USE DEF SwiftWay, Swift!Goto, Swift!pageVars, pageVars
<1>1. PICK p : /\ SwiftWay(task[c], p) /\ task' = [task EXCEPT ![c].pc = p]
               /\ UNCHANGED <<pageVars, streams, attached>>
  <2>1. CASE Swift!MissingRequestData(c)
    BY <2>1 DEF Swift!MissingRequestData
  <2>2. CASE Swift!CheckItem(c)
    BY <2>2 DEF Swift!CheckItem, Swift!Stops
  <2>3. CASE Swift!CheckCancellation(c)
    BY <2>3 DEF Swift!CheckCancellation
  <2>4. CASE Swift!CheckResult(c)
    BY <2>4 DEF Swift!CheckResult, Swift!Stops
  <2>5. CASE Swift!NextItem(c)
    BY <2>5 DEF Swift!NextItem
  <2>6. CASE Swift!ProviderReturns(c)
    BY <2>6 DEF Swift!ProviderReturns
  <2>7. CASE Swift!ProviderThrows(c)
    BY <2>7 DEF Swift!ProviderThrows
  <2>8. CASE Swift!ProviderCancelled(c)
    BY <2>8 DEF Swift!ProviderCancelled
  <2>9. QED
    BY <2>1, <2>2, <2>3, <2>4, <2>5, <2>6, <2>7, <2>8
<1>2. QED
  BY <1>1, SwiftGoes

(* Those that send. *)
LEMMA SwiftSpeaks ==
  ASSUME Tasks, Paged, Threads, Ios, NEW c \in Call, UNCHANGED androidVars,
         Swift!SendItem(c) \/ Swift!SendResponse(c) \/ Swift!SendEnd(c) \/ Swift!SendErrorFrame(c)
  PROVE  SwiftKeeps(c)
<1> DEFINE u == task[c]  t == task'[c]
<1>1. SwiftGood(u)
  BY DEF Tasks
<1>2. PICK p : /\ p \in Swift!SwiftPc \ {"off", "done"}
           /\ UNCHANGED <<streams, attached, androidVars>>
               /\ \/ u.pc = "sending" /\ p = "items" /\ SendMessage(c, p)
                  \/ u.pc = "message" /\ p = "close" /\ SendMessage(c, p)
                  \/ u.pc = "close" /\ p = "closed" /\ SendClose(c, p)
                  \/ u.pc = "failed" /\ p = "remove" /\ SendFailure(c, INTERNAL, p)
  BY SameSends DEF Swift!SendItem, Swift!SendResponse, Swift!SendEnd, Swift!SendErrorFrame,
     Swift!SwiftPc, Swift!INTERNAL, INTERNAL
<1>3. p \in HostPc \ {"off", "listed", "finally", "done"}
      /\ u.pc \notin {"off", "listed", "finally", "done"}
      /\ u.verdict = Untold
  BY <1>1, <1>2 DEF SwiftGood, HostPc, Swift!SwiftPc
<1>4. /\ TaskMove(c)
      /\ t \in Task(HostPc, HostState) /\ t.pc = p /\ Alike(t, u) /\ t.late = Later(u)
      /\ SendMessage(c, p) => t.verdict = Untold
      /\ SendClose(c, p) => t.verdict = Closed
      /\ SendFailure(c, INTERNAL, p) => t.verdict = INTERNAL
  BY <1>2, <1>3, Sends
<1> HIDE DEF u, t
<1>5. t \in Task(Swift!SwiftPc, Swift!SwiftState)
  <2>1. t.pc \in Swift!SwiftPc /\ t.state \in Swift!SwiftState
    BY <1>1, <1>2, <1>4 DEF SwiftGood, Task, Alike
  <2>2. QED
    BY <1>4, <2>1, Narrow
<1>6. /\ \/ u.pc = "sending" /\ p = "items" /\ t.verdict = Untold
         \/ u.pc = "message" /\ p = "close" /\ t.verdict = Untold
         \/ u.pc = "close" /\ p = "closed" /\ t.verdict = Closed
         \/ u.pc = "failed" /\ p = "remove" /\ t.verdict = INTERNAL
  BY <1>2, <1>4
<1>7. u.late \in Nat /\ attached \in BOOLEAN
  BY <1>1 DEF SwiftGood, Task, Threads
<1>8. SwiftGood(t)
  BY <1>1, <1>4, <1>5, <1>6, <1>7 DEF SwiftGood, Alike, Later
<1>9. \A h \in BOOLEAN : Whole(u, h) => Whole(t, h)
  BY <1>1, <1>4, <1>6 DEF Whole, Alike, Closed, Untold, INTERNAL
<1>10. QED
  BY <1>4, <1>8, <1>9 DEF SwiftKeeps, u, t

(* A task that sends nothing moves as the rest of the host allows.         *)
LEMMA Mute ==
  ASSUME Tasks, NEW c \in Call, NEW t, task' = [task EXCEPT ![c] = t],
         UNCHANGED <<pageVars, attached, androidVars>>,
         Silent(t, task[c]), t.cancelled = task[c].cancelled, t.interrupted = task[c].interrupted,
         task[c].pc \notin {"off", "listed", "done"}, t.pc \notin {"off", "listed"},
         task[c].pc = "finally" => t.pc = "done",
         \/ streams' = streams
         \/ streams' = [streams EXCEPT ![page[c].id] = 0] /\ t.pc \in {"finally", "done"},
         t.pc = "done" => task[c].interrupted \/ streams' = [streams EXCEPT ![page[c].id] = 0]
  PROVE  task'[c] = t /\ TaskMove(c)
<1>1. task'[c] = t
  BY DEF Tasks
<1>2. Says(task[c], t, c)
  BY DEF Says, Silent, pageVars
<1>3. QED
  BY <1>1, <1>2 DEF TaskMove, pageVars

(* The steps on iOS that change the object otherwise.                      *)
LEMMA SwiftWorks ==
  ASSUME Tasks, Ios, NEW c \in Call, UNCHANGED androidVars,
         \/ Swift!TakeFirst(c) \/ Swift!TakeRequest(c) \/ Swift!RequestsEnd(c)
         \/ Swift!CloseStream(c) \/ Swift!TaskEnds(c)
  PROVE  SwiftKeeps(c)
<1> DEFINE u == task[c]
<1>1. SwiftGood(u) /\ u \in Task(Swift!SwiftPc, Swift!SwiftState)
  BY DEF Tasks, SwiftGood
<1>2. UNCHANGED pageVars <=> UNCHANGED Swift!pageVars
  BY DEF pageVars, Swift!pageVars
<1>3. \A r : Swift!Take(r) = Take(r)
  BY DEF Swift!Take, Take
<1>4. ASSUME NEW t, t \in Task(Swift!SwiftPc, Swift!SwiftState), task' = [task EXCEPT ![c] = t],
             UNCHANGED <<pageVars, attached>>, Silent(t, u), t.cancelled = u.cancelled,
             t.interrupted = u.interrupted, u.pc \notin {"off", "done"},
             t.pc \notin {"off", "done"},
             streams' = streams, SwiftGood(t), \A h \in BOOLEAN : Whole(u, h) => Whole(t, h)
      PROVE  SwiftKeeps(c)
  <2>1. /\ u.pc \notin {"off", "listed", "done"} /\ t.pc \notin {"off", "listed"}
        /\ u.pc # "finally"
    BY <1>1, <1>4 DEF Task, Swift!SwiftPc
  <2>2. task'[c] = t /\ TaskMove(c)
    BY <1>4, <2>1, Mute
  <2>3. QED
    BY <1>4, <2>2 DEF SwiftKeeps
<1>5. CASE Swift!TakeFirst(c) \/ Swift!TakeRequest(c)
  <2>1. PICK p, t :
          /\ p \in Swift!SwiftPc \ {"off", "done"} /\ t \in {Take(u), TakeTo(u, p)}
          /\ u.queue # <<>> /\ task' = [task EXCEPT ![c] = t]
          /\ UNCHANGED <<pageVars, streams, attached>>
          /\ \/ u.pc = "first" /\ p \in {"run", "items"} /\ t = TakeTo(u, p)
             \/ u.pc \in {"run", "items"} /\ t = Take(u)
    <3>1. CASE Swift!TakeFirst(c)
      <4> DEFINE p == IF Swift!StreamsResponses(u) THEN "items" ELSE "run"
      <4>1. p \in Swift!SwiftPc \ {"off", "done"} /\ p \in {"run", "items"}
        BY DEF Swift!SwiftPc
      <4>2. /\ u.pc = "first" /\ u.queue # <<>> /\ task' = [task EXCEPT ![c] = TakeTo(u, p)]
            /\ UNCHANGED <<pageVars, streams, attached>>
        BY <1>2, <1>3, <3>1 DEF Swift!TakeFirst, Swift!Update, TakeTo
      <4> HIDE DEF p, u
      <4>3. QED
        BY <4>1, <4>2
    <3>2. CASE Swift!TakeRequest(c)
      <4>1. "run" \in Swift!SwiftPc \ {"off", "done"}
        BY DEF Swift!SwiftPc
      <4>2. /\ u.pc \in {"run", "items"} /\ u.queue # <<>> /\ task' = [task EXCEPT ![c] = Take(u)]
            /\ UNCHANGED <<pageVars, streams, attached>>
        BY <1>2, <1>3, <3>2 DEF Swift!TakeRequest, Swift!Update
      <4> HIDE DEF u
      <4>3. QED
        BY <4>1, <4>2
    <3>3. QED
      BY <1>5, <3>1, <3>2
  <2> HIDE DEF u
  <2>2. /\ t \in Task(Swift!SwiftPc, Swift!SwiftState) /\ t.method = u.method /\ t.state = u.state
        /\ t.interrupted = u.interrupted /\ t.cancelled = u.cancelled /\ t.finished = u.finished
        /\ t.ended = u.ended /\ Silent(t, u)
        /\ t = Take(u) => t.pc = u.pc
        /\ t = TakeTo(u, p) => t.pc = p
    <3>1. u \in Task(Swift!SwiftPc, Swift!SwiftState) /\ u.queue # <<>> /\ p \in Swift!SwiftPc
      BY <1>1, <2>1
    <3>2. t \in {Take(u), TakeTo(u, p)}
      BY <2>1
    <3>3. /\ Take(u) \in Task(Swift!SwiftPc, Swift!SwiftState)
          /\ TakeTo(u, p) \in Task(Swift!SwiftPc, Swift!SwiftState)
          /\ Take(u).pc = u.pc /\ TakeTo(u, p).pc = p
          /\ \A s \in {Take(u), TakeTo(u, p)} :
               /\ s.method = u.method /\ s.state = u.state /\ s.interrupted = u.interrupted
               /\ s.cancelled = u.cancelled /\ s.finished = u.finished /\ s.ended = u.ended
               /\ Silent(s, u)
      BY <3>1, Takes
    <3>4. QED
      BY <3>2, <3>3
  <2>3. u.pc \in {"first", "run", "items"} /\ t.pc \in {"run", "items"}
    BY <2>1, <2>2
  <2>4. SwiftGood(t) /\ \A h \in BOOLEAN : Whole(u, h) => Whole(t, h)
    BY <1>1, <2>2, <2>3 DEF SwiftGood, Whole, Silent, Closed, Untold
  <2>5. QED
    BY <1>4, <2>1, <2>2, <2>3, <2>4
<1>6. CASE Swift!RequestsEnd(c)
  <2> DEFINE t == [u EXCEPT !.ended = TRUE]
  <2>1. /\ u.pc \in {"run", "items"} /\ (u.finished \/ u.interrupted)
        /\ task' = [task EXCEPT ![c] = t] /\ UNCHANGED <<pageVars, streams, attached>>
    BY <1>2, <1>6 DEF Swift!RequestsEnd, Swift!Update, Swift!Ended
  <2>2. t \in Task(Swift!SwiftPc, Swift!SwiftState) /\ t.ended
    BY <1>1 DEF Task
  <2>3. /\ t.pc = u.pc /\ t.state = u.state /\ t.interrupted = u.interrupted
        /\ t.cancelled = u.cancelled /\ t.finished = u.finished /\ Silent(t, u)
    BY <1>1 DEF Task, Silent
  <2> HIDE DEF t, u
  <2>4. SwiftGood(t) /\ \A h \in BOOLEAN : Whole(u, h) => Whole(t, h)
    BY <1>1, <2>1, <2>2, <2>3 DEF SwiftGood, Whole, Silent, Closed, Untold
  <2>5. QED
    BY <1>4, <2>1, <2>2, <2>3, <2>4
<1>7. CASE Swift!CloseStream(c)
  <2> DEFINE t == [u EXCEPT !.finished = TRUE, !.state = "closed", !.pc = "remove"]
  <2>1. /\ u.pc = "closed"
        /\ task' = [task EXCEPT ![c] = t] /\ UNCHANGED <<pageVars, streams, attached>>
    BY <1>2, <1>7 DEF Swift!CloseStream, Swift!Update
  <2>2. t \in Task(Swift!SwiftPc, Swift!SwiftState) /\ t.pc = "remove" /\ t.state = "closed"
    BY <1>1 DEF Task, Swift!SwiftPc, Swift!SwiftState
  <2>3. /\ t.interrupted = u.interrupted /\ t.cancelled = u.cancelled /\ t.ended = u.ended
        /\ Silent(t, u)
    BY <1>1 DEF Task, Silent
  <2> HIDE DEF t, u
  <2>4. SwiftGood(t) /\ \A h \in BOOLEAN : Whole(u, h) => Whole(t, h)
    BY <1>1, <2>1, <2>2, <2>3 DEF SwiftGood, Whole, Silent, Closed, Untold
  <2>5. QED
    BY <1>4, <2>1, <2>2, <2>3, <2>4
<1>8. CASE Swift!TaskEnds(c)
  <2> DEFINE t == [u EXCEPT !.pc = "done"]
  <2>1. /\ u.pc = "remove" /\ streams' = [streams EXCEPT ![page[c].id] = 0]
        /\ task' = [task EXCEPT ![c] = t] /\ UNCHANGED <<pageVars, attached>>
    BY <1>2, <1>8 DEF Swift!TaskEnds, Swift!Goto, Swift!RemoveStream, Swift!Unlist, Swift!IdOf,
       Tasks
  <2>2. t \in Task(Swift!SwiftPc, Swift!SwiftState) /\ t.pc = "done"
    BY <1>1 DEF Task, Swift!SwiftPc
  <2>3. /\ t.state = u.state /\ t.interrupted = u.interrupted /\ t.cancelled = u.cancelled
        /\ t.finished = u.finished /\ t.ended = u.ended /\ Silent(t, u)
    BY <1>1 DEF Task, Silent
  <2> HIDE DEF t
  <2>4. SwiftGood(t) /\ \A h \in BOOLEAN : Whole(u, h) => Whole(t, h)
    <3> HIDE DEF u
    <3>1. QED
      BY <1>1, <2>1, <2>2, <2>3 DEF SwiftGood, Whole, Silent, Closed, Untold
  <2>5. task'[c] = t /\ TaskMove(c)
    BY <2>1, <2>2, <2>3, Mute
  <2>6. QED
    BY <2>4, <2>5 DEF SwiftKeeps
<1>9. QED
  BY <1>5, <1>6, <1>7, <1>8

(* Whatever a task or its provider does on iOS.                            *)
LEMMA SwiftTurns ==
  ASSUME HostInv, NEW c \in Call, Swift!Runs(c) \/ Swift!Provider(c), UNCHANGED androidVars
  PROVE  Ios /\ SwiftKeeps(c)
<1>1. Tasks /\ Paged /\ Threads /\ Ios
  BY DEF HostInv, Swift!Runs, Swift!Provider, Swift!Ios, Ios
<1>2. QED
  BY <1>1, SwiftWalks, SwiftSpeaks, SwiftWorks DEF Swift!Runs, Swift!Provider

(***************************************************************************)
(* The same on Android.                                                    *)
(***************************************************************************)
Dispatched(u, p) ==
  \/ u.method \in {UNARY, SERVER_STREAMING} /\ p = "first"
  \/ u.method = CLIENT_STREAMING /\ p = "run"
  \/ u.method = BIDI_STREAMING /\ p = "items"
  \/ u.method = NO_SUCH_METHOD /\ p = "caught"
KotlinWay(u, p) ==
  \/ u.pc = "launched" /\ u.interrupted /\ p = "done"
  \/ u.pc = "launched" /\ Dispatched(u, p)
  \/ u.pc = "first" /\ p = "caught"
  \/ u.pc \in {"run", "items"} /\ p = IF StreamsResponses(u) THEN "end" ELSE "message"
  \/ u.pc \in {"run", "items"} /\ p = "caught"
  \/ u.pc = "items" /\ p = "item"
  \/ u.pc = "item" /\ p = IF u.state = "CANCELLED" THEN "items" ELSE "sending"
  \/ u.pc = "end" /\ p = IF u.state = "CANCELLED" THEN "finally" ELSE "close"
  \/ u.pc = "caught" /\ p = IF u.state = "CANCELLED" THEN "finally" ELSE "error"

(* What a step of a coroutine keeps. *)
KotlinKeeps(c) == TaskMove(c) /\ KotlinGood(task'[c])

(* They keep it. *)
LEMMA KotlinGoes ==
  ASSUME Tasks, Android, NEW c \in Call, NEW p, KotlinWay(task[c], p),
         UNCHANGED <<pageVars, streams, attached, androidVars>>,
         task' = [task EXCEPT ![c].pc = p]
  PROVE  KotlinKeeps(c)
<1> DEFINE u == task[c]  t == task'[c]
<1>1. KotlinGood(u)
  BY DEF Tasks
<1>2. /\ p \in Kotlin!KotlinPc \ {"off", "listed"}
         /\ u.pc \notin {"off", "listed", "done", "finally"}
      /\ p = "done" => u.interrupted
  BY DEF KotlinWay, Dispatched, Kotlin!KotlinPc
<1>3. /\ task' = [task EXCEPT ![c] = t] /\ t.pc = p /\ Alike(t, u) /\ Silent(t, u)
  <2>1. task \in [Call -> Task(HostPc, HostState)] /\ p \in HostPc
    BY <1>2 DEF Tasks, HostPc
  <2>2. QED
    BY <2>1, Goes
<1>4. t \in Task(Kotlin!KotlinPc, Kotlin!KotlinState)
  <2>1. t = [u EXCEPT !.pc = p]
    BY DEF Tasks
  <2>2. u \in Task(Kotlin!KotlinPc, Kotlin!KotlinState)
    BY <1>1 DEF KotlinGood
  <2> HIDE DEF u, t
  <2>3. QED
    BY <1>2, <2>1, <2>2 DEF Task
<1>5. t.cancelled = u.cancelled /\ t.interrupted = u.interrupted
  BY <1>3 DEF Alike
<1>6. TaskMove(c)
  <2>1. streams' = streams /\ UNCHANGED <<pageVars, attached, androidVars>>
    OBVIOUS
  <2>2. u.pc = "finally" => t.pc = "done"
    BY <1>2
  <2>3. t.pc = "done" => u.interrupted
    BY <1>2, <1>3
  <2>4. u.pc \notin {"off", "listed", "done"} /\ t.pc \notin {"off", "listed"}
    BY <1>2, <1>3
  <2>5. task' = [task EXCEPT ![c] = t] /\ Silent(t, u)
    BY <1>3
  <2> HIDE DEF t
  <2>6. QED
    BY <1>5, <2>1, <2>2, <2>3, <2>4, <2>5, Mute
<1> HIDE DEF u, t
<1>7. KotlinGood(t)
  <2>1. t.state = u.state /\ t.method = u.method /\ t.late = u.late /\ t.verdict = u.verdict
    BY <1>3 DEF Alike, Silent
  <2>2. KotlinWay(u, t.pc)
    BY <1>3 DEF u
  <2>3. u.verdict = Untold
    BY <1>1, <2>2 DEF KotlinGood, KotlinWay
  <2>4. t.pc \in {"items", "item", "sending", "end"} => StreamsResponses(t)
    BY <1>1, <2>1, <2>2 DEF KotlinGood, KotlinWay, Dispatched, StreamsResponses
  <2>5. t.cancelled /\ attached =>
          /\ t.pc \in {"finally", "done"} \/ t.state = "CANCELLED"
          /\ t.pc \in {"listed", "launched", "first", "run", "message", "sending", "error"}
               => t.late = 0
          /\ t.pc \in {"items", "item", "end", "close", "caught"} => t.late <= 1
    BY <1>1, <1>5, <2>1, <2>2 DEF KotlinGood, KotlinWay, Dispatched
  <2>6. t.pc # "off" /\ u.pc \notin {"off", "done"}
    BY <1>2, <1>3
  <2>7. QED
    BY <1>1, <1>4, <1>5, <2>1, <2>3, <2>4, <2>5, <2>6 DEF KotlinGood
<1>8. QED
  BY <1>6, <1>7 DEF KotlinKeeps, t

(* The steps of a coroutine that only go on. *)
LEMMA KotlinWalks ==
  ASSUME Tasks, Android, NEW c \in Call,
         \/ Kotlin!Start(c) \/ Kotlin!NoFirst(c) \/ Kotlin!Interrupted(c) \/ Kotlin!CheckItem(c)
         \/ Kotlin!CheckEnd(c) \/ Kotlin!Catch(c) \/ Kotlin!NextItem(c)
         \/ Kotlin!ServiceReturns(c) \/ Kotlin!ServiceThrows(c)
  PROVE  KotlinKeeps(c)
<1> USE DEF KotlinWay, Kotlin!Goto, Kotlin!Quiet, Kotlin!NotBridge,
           Kotlin!pageVars, pageVars, androidVars
<1>1. PICK p : /\ KotlinWay(task[c], p) /\ task' = [task EXCEPT ![c].pc = p]
               /\ UNCHANGED <<pageVars, streams, attached, androidVars>>
  <2>1. CASE Kotlin!Start(c)
    <3>1. task[c].interrupted \/ Dispatched(task[c], Kotlin!DispatchTo(task[c].method))
      <4>1. KotlinGood(task[c]) /\ task[c].pc = "launched"
        BY <2>1 DEF Tasks, Kotlin!Start
      <4>2. task[c].method \in MethodType \cup {NO_SUCH_METHOD}
        BY <4>1 DEF KotlinGood
      <4>3. QED
        BY <4>2 DEF Dispatched, Kotlin!DispatchTo, MethodType, UNARY, SERVER_STREAMING,
           CLIENT_STREAMING,
           BIDI_STREAMING, NO_SUCH_METHOD, Kotlin!UNARY, Kotlin!SERVER_STREAMING,
           Kotlin!CLIENT_STREAMING, Kotlin!BIDI_STREAMING, Kotlin!NO_SUCH_METHOD
    <3>2. QED
      BY <2>1, <3>1 DEF Kotlin!Start
  <2>2. CASE Kotlin!NoFirst(c)
    BY <2>2 DEF Kotlin!NoFirst
  <2>3. CASE Kotlin!Interrupted(c)
    BY <2>3 DEF Kotlin!Interrupted
  <2>4. CASE Kotlin!CheckItem(c)
    BY <2>4 DEF Kotlin!CheckItem
  <2>5. CASE Kotlin!CheckEnd(c)
    BY <2>5 DEF Kotlin!CheckEnd
  <2>6. CASE Kotlin!Catch(c)
    BY <2>6 DEF Kotlin!Catch, Kotlin!IsSilenced
  <2>7. CASE Kotlin!NextItem(c)
    BY <2>7 DEF Kotlin!NextItem
  <2>8. CASE Kotlin!ServiceReturns(c)
    BY <2>8 DEF Kotlin!ServiceReturns, Kotlin!StreamsResponses, StreamsResponses, SERVER_STREAMING,
       BIDI_STREAMING, Kotlin!SERVER_STREAMING, Kotlin!BIDI_STREAMING
  <2>9. CASE Kotlin!ServiceThrows(c)
    BY <2>9 DEF Kotlin!ServiceThrows
  <2>10. QED
    BY <2>1, <2>2, <2>3, <2>4, <2>5, <2>6, <2>7, <2>8, <2>9
<1>2. QED
  BY <1>1, KotlinGoes

(* Those that send. *)
LEMMA KotlinSpeaks ==
  ASSUME Tasks, Paged, Threads, Android, NEW c \in Call,
         Kotlin!SendItem(c) \/ Kotlin!SendResponse(c) \/ Kotlin!SendEnd(c) \/ Kotlin!SendError(c)
  PROVE  KotlinKeeps(c)
<1> DEFINE u == task[c]  t == task'[c]
<1>1. KotlinGood(u)
  BY DEF Tasks
<1>2. PICK p : /\ p \in Kotlin!KotlinPc \ {"off", "listed", "finally", "done"}
               /\ UNCHANGED <<streams, attached, androidVars>>
               /\ \/ u.pc = "sending" /\ p = "items" /\ SendMessage(c, p)
                  \/ u.pc = "message" /\ p = "close" /\ SendMessage(c, p)
                  \/ u.pc = "close" /\ p = "closed" /\ SendClose(c, p)
                  \/ u.pc = "error" /\ p = "unlist" /\ SendFailure(c, INTERNAL, p)
  BY SameSends DEF Kotlin!SendItem, Kotlin!SendResponse, Kotlin!SendEnd, Kotlin!SendError,
     Kotlin!KotlinPc, Kotlin!INTERNAL, INTERNAL, Kotlin!NotBridge, androidVars
<1>3. p \in HostPc \ {"off", "listed", "finally", "done"}
      /\ u.pc \notin {"off", "listed", "finally", "done"}
      /\ u.verdict = Untold
  BY <1>1, <1>2 DEF KotlinGood, HostPc
<1>4. /\ TaskMove(c)
      /\ t \in Task(HostPc, HostState) /\ t.pc = p /\ Alike(t, u) /\ t.late = Later(u)
      /\ SendMessage(c, p) => t.verdict = Untold
      /\ SendClose(c, p) => t.verdict = Closed
      /\ SendFailure(c, INTERNAL, p) => t.verdict = INTERNAL
  BY <1>2, <1>3, Sends
<1> HIDE DEF u, t
<1>5. t \in Task(Kotlin!KotlinPc, Kotlin!KotlinState)
  <2>1. t.pc \in Kotlin!KotlinPc /\ t.state \in Kotlin!KotlinState
    BY <1>1, <1>2, <1>4 DEF KotlinGood, Task, Alike
  <2>2. QED
    BY <1>4, <2>1, Narrow
<1>6. /\ \/ u.pc = "sending" /\ p = "items" /\ t.verdict = Untold
         \/ u.pc = "message" /\ p = "close" /\ t.verdict = Untold
         \/ u.pc = "close" /\ p = "closed" /\ t.verdict = Closed
         \/ u.pc = "error" /\ p = "unlist" /\ t.verdict = INTERNAL
  BY <1>2, <1>4
<1>7. u.late \in Nat /\ attached \in BOOLEAN
  BY <1>1 DEF KotlinGood, Task, Threads
<1>8. KotlinGood(t)
  BY <1>1, <1>4, <1>5, <1>6, <1>7 DEF KotlinGood, Alike, Later, StreamsResponses
<1>9. QED
  BY <1>4, <1>8 DEF KotlinKeeps, t

(* The steps on Android that change the object otherwise.                  *)
LEMMA KotlinWorks ==
  ASSUME Tasks, Android, NEW c \in Call,
         \/ Kotlin!TakeFirst(c) \/ Kotlin!TakeRequest(c) \/ Kotlin!RequestsEnd(c)
         \/ Kotlin!SetClosed(c) \/ Kotlin!UnlistError(c) \/ Kotlin!Finally(c)
  PROVE  KotlinKeeps(c)
<1> DEFINE u == task[c]
<1>1. KotlinGood(u) /\ u \in Task(Kotlin!KotlinPc, Kotlin!KotlinState)
  BY DEF Tasks, KotlinGood
<1>2. /\ UNCHANGED pageVars <=> UNCHANGED Kotlin!pageVars
      /\ UNCHANGED androidVars <=> Kotlin!NotBridge
      /\ Kotlin!Quiet <=> UNCHANGED <<pageVars, streams, attached, androidVars>>
  BY DEF pageVars, Kotlin!pageVars, androidVars, Kotlin!NotBridge, Kotlin!Quiet
<1>3. /\ \A r : Kotlin!Take(r) = Take(r)
      /\ \A r : Kotlin!StreamsResponses(r) = StreamsResponses(r)
  BY DEF Kotlin!Take, Take, Kotlin!StreamsResponses, StreamsResponses, SERVER_STREAMING,
     BIDI_STREAMING, Kotlin!SERVER_STREAMING, Kotlin!BIDI_STREAMING
<1>4. ASSUME NEW t, task' = [task EXCEPT ![c] = t],
             UNCHANGED <<pageVars, attached, androidVars>>, Silent(t, u), t.cancelled = u.cancelled,
             t.interrupted = u.interrupted, u.pc \notin {"off", "listed", "finally", "done"},
             t.pc \notin {"off", "listed", "done"}, KotlinGood(t),
             streams' = streams
      PROVE  KotlinKeeps(c)
  <2>1. task'[c] = t /\ TaskMove(c)
    BY <1>4, Mute
  <2>2. QED
    BY <1>4, <2>1 DEF KotlinKeeps
<1>5. CASE Kotlin!TakeFirst(c) \/ Kotlin!TakeRequest(c)
  <2>1. PICK p, t :
          /\ p \in Kotlin!KotlinPc /\ t \in {Take(u), TakeTo(u, p)}
          /\ u.queue # <<>> /\ task' = [task EXCEPT ![c] = t]
          /\ UNCHANGED <<pageVars, streams, attached, androidVars>>
          /\ \/ u.pc = "first" /\ p = (IF StreamsResponses(u) THEN "items" ELSE "run")
                /\ t = TakeTo(u, p)
             \/ u.pc \in {"run", "items"} /\ t = Take(u)
    <3>1. CASE Kotlin!TakeFirst(c)
      <4> DEFINE p == IF StreamsResponses(u) THEN "items" ELSE "run"
      <4>1. p \in Kotlin!KotlinPc
        BY DEF Kotlin!KotlinPc
      <4>2. /\ u.pc = "first" /\ u.queue # <<>> /\ task' = [task EXCEPT ![c] = TakeTo(u, p)]
            /\ UNCHANGED <<pageVars, streams, attached, androidVars>>
        BY <1>2, <1>3, <3>1 DEF Kotlin!TakeFirst, Kotlin!Update, TakeTo
      <4>3. p = IF StreamsResponses(u) THEN "items" ELSE "run"
        OBVIOUS
      <4> HIDE DEF p, u
      <4>4. QED
        BY <4>1, <4>2, <4>3
    <3>2. CASE Kotlin!TakeRequest(c)
      <4>1. "run" \in Kotlin!KotlinPc
        BY DEF Kotlin!KotlinPc
      <4>2. /\ u.pc \in {"run", "items"} /\ u.queue # <<>> /\ task' = [task EXCEPT ![c] = Take(u)]
            /\ UNCHANGED <<pageVars, streams, attached, androidVars>>
        BY <1>2, <1>3, <3>2 DEF Kotlin!TakeRequest, Kotlin!Update
      <4> HIDE DEF u
      <4>3. QED
        BY <4>1, <4>2
    <3>3. QED
      BY <1>5, <3>1, <3>2
  <2> HIDE DEF u
  <2>2. /\ t \in Task(Kotlin!KotlinPc, Kotlin!KotlinState)
        /\ t.method = u.method /\ t.state = u.state
        /\ t.interrupted = u.interrupted /\ t.cancelled = u.cancelled /\ Silent(t, u)
        /\ t = Take(u) => t.pc = u.pc
        /\ t = TakeTo(u, p) => t.pc = p
    <3>1. u \in Task(Kotlin!KotlinPc, Kotlin!KotlinState) /\ u.queue # <<>> /\ p \in Kotlin!KotlinPc
      BY <1>1, <2>1
    <3>2. t \in {Take(u), TakeTo(u, p)}
      BY <2>1
    <3>3. /\ Take(u) \in Task(Kotlin!KotlinPc, Kotlin!KotlinState)
          /\ TakeTo(u, p) \in Task(Kotlin!KotlinPc, Kotlin!KotlinState)
          /\ Take(u).pc = u.pc /\ TakeTo(u, p).pc = p
          /\ \A s \in {Take(u), TakeTo(u, p)} :
               /\ s.method = u.method /\ s.state = u.state /\ s.interrupted = u.interrupted
               /\ s.cancelled = u.cancelled /\ s.finished = u.finished /\ s.ended = u.ended
               /\ Silent(s, u)
      BY <3>1, Takes
    <3>4. QED
      BY <3>2, <3>3
  <2>3. \/ t.pc = u.pc /\ u.pc \in {"run", "items"}
        \/ u.pc = "first" /\ t.pc = IF StreamsResponses(u) THEN "items" ELSE "run"
    BY <2>1, <2>2
  <2>4. KotlinGood(t)
    BY <1>1, <2>2, <2>3 DEF KotlinGood, Silent, StreamsResponses
  <2>5. QED
    BY <1>4, <2>1, <2>2, <2>3, <2>4
<1>6. CASE Kotlin!RequestsEnd(c)
  <2> DEFINE t == [u EXCEPT !.ended = TRUE]
  <2>1. /\ u.pc \in {"run", "items"}
        /\ task' = [task EXCEPT ![c] = t] /\ UNCHANGED <<pageVars, streams, attached, androidVars>>
    BY <1>2, <1>6 DEF Kotlin!RequestsEnd, Kotlin!Update
  <2>2. t \in Task(Kotlin!KotlinPc, Kotlin!KotlinState)
    BY <1>1 DEF Task
  <2>3. /\ t.pc = u.pc /\ t.state = u.state /\ t.interrupted = u.interrupted
        /\ t.cancelled = u.cancelled /\ t.method = u.method /\ Silent(t, u)
    BY <1>1 DEF Task, Silent
  <2> HIDE DEF t, u
  <2>4. KotlinGood(t)
    BY <1>1, <2>1, <2>2, <2>3 DEF KotlinGood, Silent, StreamsResponses
  <2>5. QED
    BY <1>4, <2>1, <2>2, <2>3, <2>4
<1>7. CASE Kotlin!SetClosed(c)
  <2> DEFINE t == [u EXCEPT !.state = "CLOSED", !.pc = "finally"]
  <2>1. /\ u.pc = "closed"
        /\ task' = [task EXCEPT ![c] = t] /\ UNCHANGED <<pageVars, streams, attached, androidVars>>
    BY <1>2, <1>7 DEF Kotlin!SetClosed, Kotlin!Update
  <2>2. t \in Task(Kotlin!KotlinPc, Kotlin!KotlinState) /\ t.pc = "finally"
    BY <1>1 DEF Task, Kotlin!KotlinPc, Kotlin!KotlinState
  <2>3. /\ t.interrupted = u.interrupted
        /\ t.cancelled = u.cancelled /\ t.method = u.method /\ Silent(t, u)
    BY <1>1 DEF Task, Silent
  <2> HIDE DEF t, u
  <2>4. KotlinGood(t)
    BY <1>1, <2>1, <2>2, <2>3 DEF KotlinGood, Silent
  <2>5. QED
    BY <1>4, <2>1, <2>2, <2>3, <2>4
<1>8. CASE Kotlin!UnlistError(c) \/ Kotlin!Finally(c)
  <2>1. PICK p : /\ task' = [task EXCEPT ![c].pc = p]
                 /\ \/ u.pc = "unlist" /\ p = "finally"
                    \/ u.pc = "finally" /\ p = "done"
                 /\ streams' = [streams EXCEPT ![page[c].id] = 0]
                 /\ UNCHANGED <<pageVars, attached, androidVars>>
    BY <1>2, <1>8 DEF Kotlin!UnlistError, Kotlin!Finally, Kotlin!Goto, Kotlin!RemoveStream,
       Kotlin!Unlist, Kotlin!IdOf
  <2> DEFINE t == [u EXCEPT !.pc = p]
  <2>2. task' = [task EXCEPT ![c] = t]
    BY <2>1 DEF Tasks
  <2>3. t \in Task(Kotlin!KotlinPc, Kotlin!KotlinState) /\ t.pc = p
    BY <1>1, <2>1 DEF Task, Kotlin!KotlinPc
  <2>4. /\ t.state = u.state /\ t.interrupted = u.interrupted
        /\ t.cancelled = u.cancelled /\ t.method = u.method /\ Silent(t, u)
    BY <1>1 DEF Task, Silent
  <2> HIDE DEF t
  <2>5. KotlinGood(t)
    <3> HIDE DEF u
    <3>1. QED
      BY <1>1, <2>1, <2>3, <2>4 DEF KotlinGood, Silent
  <2>6. task'[c] = t /\ TaskMove(c)
    BY <2>1, <2>2, <2>3, <2>4, Mute
  <2>7. QED
    BY <2>5, <2>6 DEF KotlinKeeps
<1>9. QED
  BY <1>5, <1>6, <1>7, <1>8

(* Whatever a coroutine or its service does on Android.                    *)
LEMMA KotlinTurns ==
  ASSUME HostInv, NEW c \in Call, Kotlin!Runs(c) \/ Kotlin!Service(c)
  PROVE  Android /\ KotlinKeeps(c)
<1>1. Tasks /\ Paged /\ Threads /\ Android
  BY DEF HostInv, Kotlin!Runs, Kotlin!Service, Kotlin!Android, Android
<1>2. QED
  BY <1>1, KotlinWalks, KotlinSpeaks, KotlinWorks DEF Kotlin!Runs, Kotlin!Service

(***************************************************************************)
(* The page on either platform.                                            *)
(***************************************************************************)

(* Both hosts have the same page.                                          *)
LEMMA SamePage == (Swift!PageNext <=> PageNext) /\ (Kotlin!PageNext <=> PageNext)
<1> USE DEF Ios, Android, MayAct, Call, Sent, SentAll, Post, Set, UNARY, SERVER_STREAMING,
    CLIENT_STREAMING, BIDI_STREAMING, OpenFrame, MessageFrame, HalfCloseFrame, CancelFrame,
    UnknownFrame, Untold, Closed, Unplaced
<1>1. Swift!PageNext <=> PageNext
  <2> USE DEF Swift!Ios, Swift!Android, Swift!MayAct, Swift!Call, Swift!Sent, Swift!SentAll,
      Swift!Post, Swift!Set, Swift!UNARY, Swift!SERVER_STREAMING, Swift!CLIENT_STREAMING,
      Swift!BIDI_STREAMING, Swift!OpenFrame, Swift!MessageFrame, Swift!HalfCloseFrame,
      Swift!CancelFrame, Swift!UnknownFrame, Swift!Untold, Swift!Closed, Swift!Unplaced
  <2>1. Swift!Reload <=> Reload
    BY DEF Swift!Reload, Reload
  <2>2. Swift!Deliver <=> Deliver
    BY DEF Swift!Deliver, Deliver, Swift!MayArrive, MayArrive, Swift!RemoveAt, RemoveAt,
       Swift!Hearing, Hearing, Swift!Hear, Hear, Swift!FromFrame, FromFrame, Swift!RpcStatusCode,
       RpcStatusCode, Swift!INTERNAL, INTERNAL, Swift!CANCELLED, CANCELLED,
       Swift!INVALID_ARGUMENT, INVALID_ARGUMENT, Swift!DEADLINE_EXCEEDED, DEADLINE_EXCEEDED,
       Swift!UNIMPLEMENTED, UNIMPLEMENTED
  <2>3. \A c : Swift!PlaceCall(c) <=> PlaceCall(c)
    BY DEF Swift!PlaceCall, PlaceCall, Swift!Placing, Placing, Swift!Opening, Opening,
       Swift!Placed, Placed, Swift!NextId, NextId
  <2>4. \A c : Swift!PlaceFails(c) <=> PlaceFails(c)
    BY DEF Swift!PlaceFails, PlaceFails, Swift!Placing, Placing, Swift!Opening, Opening,
       Swift!Placed, Placed, Swift!NextId, NextId
  <2>5. \A c : Swift!SendRequest(c) <=> SendRequest(c)
    BY DEF Swift!SendRequest, SendRequest
  <2>6. \A c : Swift!EndRequests(c) <=> EndRequests(c)
    BY DEF Swift!EndRequests, EndRequests
  <2>7. \A c : Swift!Abort(c) <=> Abort(c)
    BY DEF Swift!Abort, Abort
  <2>8. \A c : Swift!Forget(c) <=> Forget(c)
    BY DEF Swift!Forget, Forget
  <2>9. \A c : Swift!SendUnknown(c) <=> SendUnknown(c)
    BY DEF Swift!SendUnknown, SendUnknown
  <2>10. QED
    BY <2>1, <2>2, <2>3, <2>4, <2>5, <2>6, <2>7, <2>8, <2>9 DEF Swift!PageNext, PageNext
<1>2. Kotlin!PageNext <=> PageNext
  <2> USE DEF Kotlin!Ios, Kotlin!Android, Kotlin!MayAct, Kotlin!Call, Kotlin!Sent, Kotlin!SentAll,
      Kotlin!Post, Kotlin!Set, Kotlin!UNARY, Kotlin!SERVER_STREAMING, Kotlin!CLIENT_STREAMING,
      Kotlin!BIDI_STREAMING, Kotlin!OpenFrame, Kotlin!MessageFrame, Kotlin!HalfCloseFrame,
      Kotlin!CancelFrame, Kotlin!UnknownFrame, Kotlin!Untold, Kotlin!Closed, Kotlin!Unplaced
  <2>1. Kotlin!Reload <=> Reload
    BY DEF Kotlin!Reload, Reload
  <2>2. Kotlin!Deliver <=> Deliver
    BY DEF Kotlin!Deliver, Deliver, Kotlin!MayArrive, MayArrive, Kotlin!RemoveAt, RemoveAt,
       Kotlin!Hearing, Hearing, Kotlin!Hear, Hear, Kotlin!FromFrame, FromFrame,
       Kotlin!RpcStatusCode, RpcStatusCode, Kotlin!INTERNAL, INTERNAL, Kotlin!CANCELLED,
       CANCELLED, Kotlin!INVALID_ARGUMENT, INVALID_ARGUMENT, Kotlin!DEADLINE_EXCEEDED,
       DEADLINE_EXCEEDED, Kotlin!UNIMPLEMENTED, UNIMPLEMENTED
  <2>3. \A c : Kotlin!PlaceCall(c) <=> PlaceCall(c)
    BY DEF Kotlin!PlaceCall, PlaceCall, Kotlin!Placing, Placing, Kotlin!Opening, Opening,
       Kotlin!Placed, Placed, Kotlin!NextId, NextId
  <2>4. \A c : Kotlin!PlaceFails(c) <=> PlaceFails(c)
    BY DEF Kotlin!PlaceFails, PlaceFails, Kotlin!Placing, Placing, Kotlin!Opening, Opening,
       Kotlin!Placed, Placed, Kotlin!NextId, NextId
  <2>5. \A c : Kotlin!SendRequest(c) <=> SendRequest(c)
    BY DEF Kotlin!SendRequest, SendRequest
  <2>6. \A c : Kotlin!EndRequests(c) <=> EndRequests(c)
    BY DEF Kotlin!EndRequests, EndRequests
  <2>7. \A c : Kotlin!Abort(c) <=> Abort(c)
    BY DEF Kotlin!Abort, Abort
  <2>8. \A c : Kotlin!Forget(c) <=> Forget(c)
    BY DEF Kotlin!Forget, Forget
  <2>9. \A c : Kotlin!SendUnknown(c) <=> SendUnknown(c)
    BY DEF Kotlin!SendUnknown, SendUnknown
  <2>10. QED
    BY <2>1, <2>2, <2>3, <2>4, <2>5, <2>6, <2>7, <2>8, <2>9 DEF Kotlin!PageNext, PageNext
<1>3. QED
  BY <1>1, <1>2

(* What a call does to the page and to the wire: it is placed, or goes on. *)
PageTurn(c, r, frames) ==
  /\ r \in PageCall /\ frames \in Seq(WireFrame)
  /\ page' = [page EXCEPT ![c] = r] /\ Post(c, frames)
  /\ UNCHANGED <<platform, load, toPage>>
  /\ \/ /\ Placing(c) /\ r.id = nextId /\ nextId' = nextId + 2
        /\ r.heard = <<>> /\ r.told = Untold
     \/ /\ page[c].id # 0 /\ r.id = page[c].id /\ nextId' = nextId
        /\ r.heard = page[c].heard /\ r.told = page[c].told
        /\ (r.live => page[c].live) /\ (page[c].halfClosed => r.halfClosed)
  /\ r.sending => ~r.halfClosed
  /\ \A i \in 1..Len(frames) :
       /\ frames[i].streamId = r.id
       /\ frames[i].body = "open" => /\ i = 1 /\ page[c].id = 0
                                     /\ frames[i].arg \in Method \cup {NO_SUCH_METHOD}
       /\ frames[i].body = "halfClose" => r.halfClosed
PageMove(c) == \E r, frames : PageTurn(c, r, frames)

(* Ids are handed out while there are calls to place.                      *)
LEMMA FreshId ==
  ASSUME Paged, NEW c \in Call, Placing(c)
  PROVE  /\ nextId \in Id /\ nextId \in Nat /\ nextId <= 2 * c - 1
         /\ nextId + 2 \in Id \cup {2 * MaxCalls + 1}
         /\ load = 1 => nextId = 2 * c - 1
<1>1. nextId <= 2 * c - 1 /\ c \in 1..MaxCalls /\ MaxCalls \in Nat
  BY PageAssumption DEF Paged, Placing, Call
<1>2. nextId \in Id \cup {2 * MaxCalls + 1}
  BY DEF Paged, PageTypeOK
<1>3. nextId # 2 * MaxCalls + 1
  BY <1>1
<1>4. PICK k \in 1..MaxCalls : nextId = 2 * k - 1
  BY <1>2, <1>3 DEF Id, Call
<1>5. nextId + 2 \in Id \cup {2 * MaxCalls + 1}
  <2>1. CASE k = MaxCalls
    BY <1>1, <1>4, <2>1
  <2>2. CASE k # MaxCalls
    <3>1. k + 1 \in Call /\ nextId + 2 = 2 * (k + 1) - 1
      BY <1>1, <1>4, <2>2 DEF Call
    <3>2. QED
      BY <3>1 DEF Id
  <2>3. QED
    BY <2>1, <2>2
<1>6. ASSUME load = 1
      PROVE  nextId = 2 * c - 1
  <2>1. CASE c = 1
    BY <1>1, <1>4, <2>1
  <2>2. CASE c # 1
    <3>1. c - 1 \in 1..c - 1 /\ c - 1 \in Call
      BY <1>1, <2>2 DEF Call
    <3>2. page[c - 1].id # 0
      BY <3>1 DEF Placing
    <3>3. page[c - 1].id = IF 2 * (c - 1) - 1 < nextId THEN 2 * (c - 1) - 1 ELSE 0
      BY <1>6, <3>1 DEF Paged
    <3>4. QED
      BY <1>1, <1>4, <3>2, <3>3
  <2>3. QED
    BY <2>1, <2>2
<1>7. QED
  BY <1>1, <1>2, <1>3, <1>4, <1>5, <1>6

(* The frames a call opens with, and the record it starts from.            *)
LEMMA Opens ==
  ASSUME nextId \in Id, nextId \in Nat, NEW plan \in Patterns
  PROVE  LET frames == Opening(plan[1], plan[2])  r == Placed(plan[1]) IN
         /\ frames \in Seq(WireFrame) /\ Len(frames) \in {1, 3}
         /\ \A i \in 1..Len(frames) :
              /\ frames[i].streamId = nextId
              /\ frames[i].body = "open" => i = 1 /\ frames[i].arg \in Method \cup {NO_SUCH_METHOD}
              /\ frames[i].body = "halfClose" => i = 3 /\ r.halfClosed
         /\ r \in PageCall /\ r.id = nextId /\ r.heard = <<>> /\ r.told = Untold
         /\ r.sending => ~r.halfClosed
<1>1. plan[1] \in MethodType /\ plan[2] \in Method \cup {NO_SUCH_METHOD} /\ plan[2] \in Nat
  BY DEF Patterns, Method, MethodType, UNARY, BIDI_STREAMING, UNREGISTERED, MALFORMED,
     NO_SUCH_METHOD
<1>2. /\ OpenFrame(nextId, plan[2]) \in WireFrame /\ MessageFrame(nextId, 1) \in WireFrame
      /\ HalfCloseFrame(nextId) \in WireFrame
  BY <1>1 DEF OpenFrame, MessageFrame, HalfCloseFrame, WireFrame, Body
<1> DEFINE single == plan[1] \in {UNARY, SERVER_STREAMING}
           b == ~single  h == single  n == IF single THEN 1 ELSE 0
<1>3. Placed(plan[1]) = [Unplaced EXCEPT !.id = nextId, !.pattern = plan[1], !.live = TRUE,
                                         !.sending = b, !.halfClosed = h, !.asked = n]
  BY Zenon DEF Placed
<1>4. /\ b \in BOOLEAN /\ h \in BOOLEAN /\ n \in Nat /\ (b => ~h) /\ (single => h)
      /\ nextId \in Id \cup {0} /\ TRUE \in BOOLEAN
  OBVIOUS
<1> HIDE DEF single, b, h, n
<1>5. Placed(plan[1]) \in PageCall
  <2>1. Unplaced \in PageCall
    BY DEF Unplaced, PageCall, Verdict, MethodType, UNARY, BIDI_STREAMING
  <2>2. ASSUME NEW p \in MethodType
        PROVE  [Unplaced EXCEPT !.id = nextId, !.pattern = p, !.live = TRUE, !.sending = b,
                                !.halfClosed = h, !.asked = n] \in PageCall
    BY <1>4, <2>1 DEF PageCall
  <2>3. QED
    BY <1>1, <1>3, <2>2
<1>6. /\ Placed(plan[1]).id = nextId /\ Placed(plan[1]).heard = <<>>
         /\ Placed(plan[1]).told = Untold
      /\ Placed(plan[1]).sending = b /\ Placed(plan[1]).halfClosed = h
  BY <1>3 DEF Unplaced
<1>7. LET frames == Opening(plan[1], plan[2]) IN
      /\ frames \in Seq(WireFrame) /\ Len(frames) \in {1, 3}
      /\ \A i \in 1..Len(frames) :
           /\ frames[i].streamId = nextId
           /\ frames[i].body = "open" => i = 1 /\ frames[i].arg \in Method \cup {NO_SUCH_METHOD}
           /\ frames[i].body = "halfClose" => i = 3 /\ single
  <2> DEFINE f == OpenFrame(nextId, plan[2])  g == MessageFrame(nextId, 1)
             e == HalfCloseFrame(nextId)
  <2>1. /\ f \in WireFrame /\ f.streamId = nextId /\ f.body = "open" /\ f.arg = plan[2]
        /\ g \in WireFrame /\ g.streamId = nextId /\ g.body = "message"
        /\ e \in WireFrame /\ e.streamId = nextId /\ e.body = "halfClose"
    BY <1>2 DEF OpenFrame, MessageFrame, HalfCloseFrame
  <2>2. Opening(plan[1], plan[2]) = IF single THEN <<f, g, e>> ELSE <<f>>
    BY DEF Opening, single
  <2> HIDE DEF f, g, e
  <2>3. CASE single
    <3>1. /\ <<f, g, e>> \in Seq(WireFrame) /\ Len(<<f, g, e>>) = 3
          /\ <<f, g, e>>[1] = f /\ <<f, g, e>>[2] = g /\ <<f, g, e>>[3] = e
          /\ \A i \in 1..3 : i \in {1, 2, 3}
      BY <2>1
    <3>2. QED
      BY <1>1, <2>1, <2>2, <2>3, <3>1
  <2>4. CASE ~single
    <3>1. <<f>> \in Seq(WireFrame) /\ Len(<<f>>) = 1 /\ <<f>>[1] = f /\ \A i \in 1..1 : i = 1
      BY <2>1
    <3>2. QED
      BY <1>1, <2>1, <2>2, <2>4, <3>1
  <2>5. QED
    BY <2>3, <2>4
<1>8. QED
  BY <1>4, <1>5, <1>6, <1>7

(* Placing a call is a move of that call.                                  *)
LEMMA PlacingMoves ==
  ASSUME Paged, NEW c \in Call, PlaceCall(c) \/ PlaceFails(c)
  PROVE  PageMove(c)
<1>1. PICK plan \in Patterns : \E r, frames :
        /\ Placing(c) /\ page' = [page EXCEPT ![c] = r] /\ Post(c, frames)
        /\ nextId' = nextId + 2 /\ UNCHANGED <<platform, load, toPage>>
        /\ \/ r = Placed(plan[1]) /\ frames = Opening(plan[1], plan[2])
           \/ \E n \in 0..Len(Opening(plan[1], plan[2])) - 1 :
                /\ frames = SubSeq(Opening(plan[1], plan[2]), 1, n)
                /\ r = [Placed(plan[1]) EXCEPT !.live = FALSE, !.sending = FALSE,
                                               !.halfClosed = FALSE,
                                               !.asked = IF n > 1 THEN 1 ELSE 0]
  <2>1. CASE PlaceCall(c)
    BY <2>1, PageAssumption DEF PlaceCall, Set, NextId
  <2>2. CASE PlaceFails(c)
    BY <2>2, PageAssumption DEF PlaceFails, Set, NextId
  <2>3. QED
    BY <2>1, <2>2
<1> DEFINE all == Opening(plan[1], plan[2])  r0 == Placed(plan[1])
<1>2. PICK r, frames :
        /\ Placing(c) /\ page' = [page EXCEPT ![c] = r] /\ Post(c, frames)
        /\ nextId' = nextId + 2 /\ UNCHANGED <<platform, load, toPage>>
        /\ \/ r = r0 /\ frames = all
           \/ \E n \in 0..Len(all) - 1 :
                /\ frames = SubSeq(all, 1, n)
                /\ r = [r0 EXCEPT !.live = FALSE, !.sending = FALSE, !.halfClosed = FALSE,
                                  !.asked = IF n > 1 THEN 1 ELSE 0]
  BY <1>1
<1>3. nextId \in Id /\ nextId \in Nat /\ page[c].id = 0
  BY <1>2, FreshId DEF Placing
<1>4. /\ all \in Seq(WireFrame) /\ Len(all) \in {1, 3}
      /\ \A i \in 1..Len(all) :
           /\ all[i].streamId = nextId
           /\ all[i].body = "open" => i = 1 /\ all[i].arg \in Method \cup {NO_SUCH_METHOD}
           /\ all[i].body = "halfClose" => i = 3 /\ r0.halfClosed
      /\ r0 \in PageCall /\ r0.id = nextId /\ r0.heard = <<>> /\ r0.told = Untold
      /\ r0.sending => ~r0.halfClosed
  BY <1>3, Opens
<1> HIDE DEF all, r0
<1>5. /\ frames \in Seq(WireFrame) /\ r \in PageCall
      /\ r.id = nextId /\ r.heard = <<>> /\ r.told = Untold /\ (r.sending => ~r.halfClosed)
      /\ \A i \in 1..Len(frames) :
           /\ frames[i].streamId = nextId
           /\ frames[i].body = "open" => i = 1 /\ frames[i].arg \in Method \cup {NO_SUCH_METHOD}
           /\ frames[i].body = "halfClose" => r.halfClosed
  <2>1. CASE r = r0 /\ frames = all
    BY <1>4, <2>1
  <2>2. CASE ~(r = r0 /\ frames = all)
    <3>7. PICK n \in 0..Len(all) - 1 :
            /\ frames = SubSeq(all, 1, n)
            /\ r = [r0 EXCEPT !.live = FALSE, !.sending = FALSE, !.halfClosed = FALSE,
                              !.asked = IF n > 1 THEN 1 ELSE 0]
      BY <1>2, <2>2
    <3>1. /\ frames \in Seq(WireFrame) /\ Len(frames) = n /\ n \in 0..2
          /\ \A i \in 1..n : frames[i] = all[i] /\ i \in 1..Len(all)
      BY <1>4, <3>7
    <3> DEFINE m == IF n > 1 THEN 1 ELSE 0
    <3>2. m \in Nat
      OBVIOUS
    <3>3. r = [r0 EXCEPT !.live = FALSE, !.sending = FALSE, !.halfClosed = FALSE, !.asked = m]
      BY <3>7
    <3> HIDE DEF m
    <3>4. r \in PageCall /\ r.id = r0.id /\ r.heard = r0.heard /\ r.told = r0.told /\ ~r.sending
      BY <1>4, <3>2, <3>3 DEF PageCall
    <3>5. \A i \in 1..n : i # 3
      BY <3>1
    <3>6. QED
      BY <1>4, <3>1, <3>4, <3>5
  <2>3. QED
    BY <2>1, <2>2
<1>6. PageTurn(c, r, frames)
  BY <1>2, <1>3, <1>5 DEF PageTurn
<1>7. QED
  BY <1>6 DEF PageMove

(* And so is everything a call does afterwards.                            *)
LEMMA GoingMoves ==
  ASSUME Paged, toHost \in Seq(OnWire), NEW c \in Call,
         SendRequest(c) \/ EndRequests(c) \/ Abort(c) \/ Forget(c) \/ SendUnknown(c)
  PROVE  PageMove(c)
<1> DEFINE u == page[c]
<1>1. u \in PageCall /\ u.live /\ u.id \in Id /\ u.id # 0 /\ (u.sending => ~u.halfClosed)
      /\ u.asked \in Nat
  <2>1. page \in [Call -> PageCall] /\ u.live
    BY DEF Paged, PageTypeOK, SendRequest, EndRequests, Abort, Forget, SendUnknown
  <2>2. u.id # 0 /\ (u.sending => ~u.halfClosed)
    BY <2>1 DEF Paged
  <2>3. QED
    BY <2>1, <2>2 DEF PageCall
<1>2. ASSUME NEW r \in PageCall, NEW frames \in Seq(WireFrame),
             page' = [page EXCEPT ![c] = r], Post(c, frames),
             UNCHANGED <<platform, load, nextId, toPage>>,
             r.id = u.id, r.heard = u.heard, r.told = u.told, r.live => u.live,
             u.halfClosed => r.halfClosed, r.sending => ~r.halfClosed,
             \A i \in 1..Len(frames) : /\ frames[i].streamId = u.id
                                       /\ frames[i].body # "open"
                                       /\ frames[i].body = "halfClose" => r.halfClosed
      PROVE  PageMove(c)
  <2>1. PageTurn(c, r, frames)
    BY <1>1, <1>2 DEF PageTurn
  <2>2. QED
    BY <2>1 DEF PageMove
<1>3. \A f \in WireFrame : <<f>> \in Seq(WireFrame) /\ Len(<<f>>) = 1 /\ <<f>>[1] = f
  OBVIOUS
<1>4. Post(c, <<>>) <=> toHost' = toHost
  BY DEF Post, SentAll
<1>5. <<>> \in Seq(WireFrame) /\ Len(<<>>) = 0
  OBVIOUS
<1>6. page \in [Call -> PageCall]
  BY DEF Paged, PageTypeOK
<1> HIDE DEF u
<1>7. CASE SendRequest(c)
  <2> DEFINE n == u.asked + 1  r == [u EXCEPT !.asked = n]  f == MessageFrame(u.id, n)
  <2>1. n \in Nat
    BY <1>1
  <2>2. page' = [page EXCEPT ![c] = r] /\ Post(c, <<f>>)
        /\ UNCHANGED <<platform, load, nextId, toPage>>
    BY <1>7 DEF SendRequest, Set, u
  <2> HIDE DEF n
  <2>3. f \in WireFrame /\ f.streamId = u.id /\ f.body = "message"
    BY <1>1, <2>1 DEF MessageFrame, WireFrame, Body
  <2>4. /\ r \in PageCall /\ r.id = u.id /\ r.heard = u.heard /\ r.told = u.told /\ r.live = u.live
        /\ r.halfClosed = u.halfClosed /\ r.sending = u.sending
    BY <1>1, <2>1 DEF PageCall
  <2> DEFINE fs == <<f>>
  <2>5. fs \in Seq(WireFrame) /\ Len(fs) = 1 /\ \A i \in 1..1 : fs[i] = f
    BY <1>3, <2>3
  <2> HIDE DEF f, r, fs
  <2>6. \A i \in 1..Len(fs) : /\ fs[i].streamId = u.id /\ fs[i].body # "open"
                              /\ fs[i].body = "halfClose" => r.halfClosed
    BY <2>3, <2>5
  <2>7. Post(c, fs)
    BY <2>2 DEF fs
  <2>8. QED
    BY <1>1, <1>2, <2>2, <2>4, <2>5, <2>6, <2>7
<1>8. CASE EndRequests(c)
  <2> DEFINE o == u.told = Untold  h == o  r == [u EXCEPT !.sending = FALSE, !.halfClosed = h]
             f == HalfCloseFrame(u.id)
  <2>1. h \in BOOLEAN /\ (o => h) /\ u.sending
    BY <1>8 DEF EndRequests, u
  <2>2. /\ page' = [page EXCEPT ![c] = r] /\ Post(c, IF o THEN <<f>> ELSE <<>>)
        /\ UNCHANGED <<platform, load, nextId, toPage>>
    BY <1>8 DEF EndRequests, Set, u
  <2>3. f \in WireFrame /\ f.streamId = u.id /\ f.body = "halfClose"
    BY <1>1 DEF HalfCloseFrame, WireFrame, Body
  <2> HIDE DEF h, o
  <2>4. /\ r \in PageCall /\ r.id = u.id /\ r.heard = u.heard /\ r.told = u.told /\ r.live = u.live
        /\ r.halfClosed = h /\ ~r.sending
    BY <1>1, <2>1 DEF PageCall
  <2> HIDE DEF f, r
  <2>5. CASE o
    <3> DEFINE fs == <<f>>
    <3>1. Post(c, fs) /\ h
      BY <2>1, <2>2, <2>5
    <3>2. fs \in Seq(WireFrame) /\ Len(fs) = 1 /\ \A i \in 1..1 : fs[i] = f
      BY <1>3, <2>3
    <3> HIDE DEF fs
    <3>3. \A i \in 1..Len(fs) : /\ fs[i].streamId = u.id /\ fs[i].body # "open"
                                /\ fs[i].body = "halfClose" => r.halfClosed
      BY <2>3, <2>4, <3>1, <3>2
    <3>4. QED
      BY <1>1, <1>2, <2>1, <2>2, <2>4, <3>1, <3>2, <3>3
  <2>6. CASE ~o
    <3> DEFINE fs == <<>>
    <3>1. Post(c, fs)
      BY <2>2, <2>6
    <3>2. fs \in Seq(WireFrame) /\ Len(fs) = 0 /\ 1..0 = {}
      BY <1>5
    <3> HIDE DEF fs
    <3>3. \A i \in 1..Len(fs) : /\ fs[i].streamId = u.id /\ fs[i].body # "open"
                                /\ fs[i].body = "halfClose" => r.halfClosed
      BY <3>2
    <3>4. QED
      BY <1>1, <1>2, <2>1, <2>2, <2>4, <3>1, <3>2, <3>3
  <2>7. QED
    BY <2>5, <2>6
<1>9. CASE Abort(c)
  <2> DEFINE r == [u EXCEPT !.live = FALSE, !.sending = FALSE, !.cancelled = TRUE]
             f == CancelFrame(u.id)
  <2>1. /\ page' = [page EXCEPT ![c] = r] /\ Post(c, <<f, f>>)
        /\ UNCHANGED <<platform, load, nextId, toPage>>
    BY <1>9 DEF Abort, Set, u
  <2>2. f \in WireFrame /\ f.streamId = u.id /\ f.body = "cancel"
    BY <1>1 DEF CancelFrame, WireFrame, Body
  <2>3. /\ r \in PageCall /\ r.id = u.id /\ r.heard = u.heard /\ r.told = u.told /\ ~r.live
        /\ r.halfClosed = u.halfClosed /\ ~r.sending
    BY <1>1 DEF PageCall
  <2> HIDE DEF f, r
  <2>4. <<f, f>> \in Seq(WireFrame) /\ Len(<<f, f>>) = 2 /\ \A i \in 1..2 : <<f, f>>[i] = f
    BY <2>2
  <2> DEFINE fs == <<f, f>>
  <2>5. fs \in Seq(WireFrame) /\ Post(c, fs)
    BY <2>1, <2>4
  <2>6. \A i \in 1..Len(fs) : /\ fs[i].streamId = u.id /\ fs[i].body # "open"
                              /\ fs[i].body = "halfClose" => r.halfClosed
    BY <2>2, <2>4
  <2> HIDE DEF fs
  <2>7. QED
    BY <1>1, <1>2, <2>1, <2>3, <2>5, <2>6
<1>10. CASE Forget(c)
  <2> DEFINE r == [u EXCEPT !.live = FALSE, !.sending = FALSE]
  <2>1. /\ page' = [page EXCEPT ![c] = r] /\ Post(c, <<>>)
        /\ UNCHANGED <<platform, load, nextId, toPage>>
    BY <1>4, <1>10 DEF Forget, Set, u
  <2>2. /\ r \in PageCall /\ r.id = u.id /\ r.heard = u.heard /\ r.told = u.told /\ ~r.live
        /\ r.halfClosed = u.halfClosed /\ ~r.sending
    BY <1>1 DEF PageCall
  <2> DEFINE fs == <<>>
  <2>3. fs \in Seq(WireFrame) /\ Len(fs) = 0 /\ 1..0 = {} /\ Post(c, fs)
    BY <1>5, <2>1
  <2> HIDE DEF r, fs
  <2>4. \A i \in 1..Len(fs) : /\ fs[i].streamId = u.id /\ fs[i].body # "open"
                              /\ fs[i].body = "halfClose" => r.halfClosed
    BY <2>3
  <2>5. QED
    BY <1>1, <1>2, <2>1, <2>2, <2>3, <2>4
<1>11. CASE SendUnknown(c)
  <2> DEFINE f == UnknownFrame(u.id)
  <2>1. page' = [page EXCEPT ![c] = u] /\ Post(c, <<f>>)
        /\ UNCHANGED <<platform, load, nextId, toPage>>
    BY <1>6, <1>11 DEF SendUnknown, u
  <2>2. f \in WireFrame /\ f.streamId = u.id /\ f.body = "unknown"
    BY <1>1 DEF UnknownFrame, WireFrame, Body
  <2> DEFINE fs == <<f>>
  <2>3. fs \in Seq(WireFrame) /\ Len(fs) = 1 /\ (\A i \in 1..1 : fs[i] = f) /\ Post(c, fs)
    BY <1>3, <2>1, <2>2
  <2> HIDE DEF f, fs
  <2>4. \A i \in 1..Len(fs) : /\ fs[i].streamId = u.id /\ fs[i].body # "open"
                              /\ fs[i].body = "halfClose" => u.halfClosed
    BY <2>2, <2>3
  <2>5. QED
    BY <1>1, <1>2, <2>1, <2>3, <2>4
<1>12. QED
  BY <1>7, <1>8, <1>9, <1>10, <1>11

(***************************************************************************)
(* Every step keeps the invariant: first the steps of the page.            *)
(***************************************************************************)
LEMMA Odd == \A id \in Id : id \in Nat /\ id # 0
BY PageAssumption DEF Id, Call

(* A frame on the way has the id of a stream, and a call it was sent for. *)
LEMMA OnTheWay ==
  ASSUME NEW q \in Seq(OnWire), NEW i \in 1..Len(q)
  PROVE  /\ q[i] \in OnWire /\ q[i].call \in Call /\ q[i].frame \in WireFrame
         /\ q[i].frame.streamId \in Id /\ q[i].frame.streamId # 0
<1>1. q[i] \in OnWire
  OBVIOUS
<1>2. q[i].call \in Call /\ q[i].frame \in WireFrame
  BY <1>1 DEF OnWire
<1>3. q[i].frame.streamId \in Id
  BY <1>2 DEF WireFrame
<1>4. QED
  BY <1>1, <1>2, <1>3, Odd

(* What a step of the page leaves as it is: the id of a call that has one, *)
(* and that its requests have ended.                                       *)
Steady ==
  /\ page' \in [Call -> PageCall]
  /\ \A d \in Call : page[d].id # 0 => /\ page'[d].id = page[d].id
                                       /\ page[d].halfClosed => page'[d].halfClosed

(* Then nothing changes for the host, nor for frames already on the way.   *)
LEMMA SteadyKeeps ==
  ASSUME HostInv, Steady, UNCHANGED <<platform, hostVars, androidVars>>
  PROVE  /\ Listed' /\ Threads' /\ Tasks'
         /\ \A q \in Seq(OnWire) : (ToHost(q) => ToHost(q)') /\ (ToPage(q) => ToPage(q)')
<1>1. \A id \in Id : id # 0
  BY Odd
<1>2. UNCHANGED <<platform, streams, task, attached, bridge, hasJob, activity, sweep>>
  BY DEF hostVars, androidVars
<1>3. Listed'
  <2>1. Listed /\ streams' = streams /\ task' = task /\ attached' = attached /\ bridge' = bridge
    BY <1>2 DEF HostInv
  <2>2. ASSUME NEW id \in Id, streams[id] # 0
        PROVE  page'[streams[id]].id = id
    BY <1>1, <2>1, <2>2 DEF Listed, Steady
  <2>3. QED
    BY <2>1, <2>2 DEF Listed
<1>4. Threads'
  BY <1>2 DEF HostInv, Threads, Android
<1>5. Tasks'
  BY <1>2 DEF HostInv, Tasks, KotlinGood, Ios, Android
<1>6. ASSUME NEW q \in Seq(OnWire), ToHost(q)
      PROVE  ToHost(q)'
  <2>1. ASSUME NEW i \in 1..Len(q)
        PROVE  /\ page'[q[i].call].id = q[i].frame.streamId
               /\ q[i].frame.body = "halfClose" => page'[q[i].call].halfClosed
    <3>1. q[i].call \in Call /\ q[i].frame.streamId # 0
      BY OnTheWay
    <3>2. QED
      BY <1>6, <3>1 DEF ToHost, Steady
  <2>2. QED
    BY <1>2, <1>6, <2>1 DEF ToHost
<1>7. ASSUME NEW q \in Seq(OnWire), ToPage(q)
      PROVE  ToPage(q)'
  <2>1. ASSUME NEW i \in 1..Len(q)
        PROVE  page'[q[i].call].id = q[i].frame.streamId
    <3>1. q[i].call \in Call /\ q[i].frame.streamId # 0
      BY OnTheWay
    <3>2. QED
      BY <1>7, <3>1 DEF ToPage, Steady
  <2>2. QED
    BY <1>2, <1>7, <2>1 DEF ToPage
<1>8. QED
  BY <1>3, <1>4, <1>5, <1>6, <1>7

(* Frames are put behind those on the way.                                 *)
LEMMA Behind ==
  ASSUME toHost \in Seq(OnWire), NEW c \in Call, NEW frames \in Seq(WireFrame), Post(c, frames)
  PROVE  /\ toHost' \in Seq(OnWire) /\ Len(toHost') = Len(toHost) + Len(frames)
         /\ \A i \in 1..Len(toHost) : toHost'[i] = toHost[i]
         /\ \A i \in 1..Len(frames) : toHost'[Len(toHost) + i] = Sent(c, frames[i])
         /\ \A i \in 1..Len(toHost') :
              i \in 1..Len(toHost) \/ \E k \in 1..Len(frames) : i = Len(toHost) + k
<1> DEFINE s == SentAll(c, frames)
<1>1. s \in Seq(OnWire) /\ Len(s) = Len(frames)
      /\ \A i \in 1..Len(frames) : s[i] = Sent(c, frames[i])
  <2>1. /\ s = [i \in 1..Len(frames) |-> Sent(c, frames[i])] /\ Len(frames) \in Nat
        /\ \A i \in 1..Len(frames) : frames[i] \in WireFrame
    BY DEF SentAll
  <2>2. \A i \in 1..Len(frames) : Sent(c, frames[i]) \in OnWire
    BY <2>1 DEF Sent, OnWire
  <2> HIDE DEF s
  <2>3. QED
    BY <2>1, <2>2
<1>2. toHost' = toHost \o s
  BY DEF Post
<1> HIDE DEF s
<1>3. /\ toHost' \in Seq(OnWire) /\ Len(toHost') = Len(toHost) + Len(frames)
      /\ \A i \in 1..Len(toHost) : toHost'[i] = toHost[i]
      /\ \A i \in 1..Len(frames) : toHost'[Len(toHost) + i] = s[i]
  <2>1. toHost' \in Seq(OnWire) /\ Len(toHost') = Len(toHost) + Len(s)
    BY <1>1, <1>2
  <2>2. ASSUME NEW i \in 1..Len(toHost)
        PROVE  toHost'[i] = toHost[i]
    BY <1>1, <1>2
  <2>3. ASSUME NEW i \in 1..Len(s)
        PROVE  toHost'[Len(toHost) + i] = s[i]
    <3> DEFINE n == Len(toHost)  k == n + i
    <3>1. n \in Nat /\ Len(s) \in Nat /\ i \in 1..Len(s)
      BY <1>1
    <3>2. k \in 1..n + Len(s) /\ ~(k <= n) /\ k - n = i
      BY <3>1
    <3> HIDE DEF k
    <3>3. (toHost \o s)[k] = IF k <= n THEN toHost[k] ELSE s[k - n]
      BY <1>1, <3>2
    <3>4. toHost'[k] = s[i]
      <4> DEFINE j == k - n
      <4>1. j = i
        BY <3>2
      <4> HIDE DEF j
      <4>2. (toHost \o s)[k] = s[j]
        BY <3>2, <3>3 DEF j
      <4>3. QED
        BY <1>2, <4>1, <4>2
    <3>5. QED
      BY <3>4 DEF k
  <2>4. QED
    BY <1>1, <2>1, <2>2, <2>3
<1>4. Len(toHost) \in Nat /\ Len(frames) \in Nat
  OBVIOUS
<1>5. ASSUME NEW i \in 1..Len(toHost'), i \notin 1..Len(toHost)
      PROVE  \E k \in 1..Len(frames) : i = Len(toHost) + k
  <2>1. i - Len(toHost) \in 1..Len(frames)
    BY <1>3, <1>4, <1>5
  <2>2. i = Len(toHost) + (i - Len(toHost))
    BY <1>4, <1>3, <1>5
  <2>3. QED
    BY <2>1, <2>2
<1>6. QED
  BY <1>1, <1>3, <1>5

(* A call that is placed or goes on keeps the invariant.                   *)
Loads == platform' = platform /\ (load' = 1 => load = 1)

(* What a call does keeps the invariant. *)
LEMMA TurnsKeep ==
  ASSUME HostInv, NEW c \in Call, PageMove(c), UNCHANGED <<hostVars, androidVars>>
  PROVE  HostInv' /\ Steady /\ Loads
<1>1. PICK r, frames : PageTurn(c, r, frames)
  BY DEF PageMove
<1>2. /\ r \in PageCall /\ frames \in Seq(WireFrame) /\ Post(c, frames)
      /\ page' = [page EXCEPT ![c] = r] /\ (r.sending => ~r.halfClosed)
      /\ platform' = platform /\ load' = load /\ toPage' = toPage
  BY <1>1 DEF PageTurn
<1>3. /\ PageTypeOK /\ Paged /\ ToHost(toHost) /\ ToPage(toPage)
      /\ page \in [Call -> PageCall] /\ toHost \in Seq(OnWire) /\ toPage \in Seq(OnWire)
  BY DEF HostInv, Paged, PageTypeOK
<1>4. task' = task
  BY DEF hostVars
<1>5. /\ page' \in [Call -> PageCall] /\ page'[c] = r
      /\ \A d \in Call : d # c => page'[d] = page[d]
  BY <1>2, <1>3
<1>6. r.id # 0 /\ (page[c].id # 0 => r.id = page[c].id /\ (page[c].halfClosed => r.halfClosed))
  <2>1. CASE Placing(c) /\ r.id = nextId
    <3>1. nextId \in Id
      BY <1>3, <2>1, FreshId
    <3>2. QED
      BY <2>1, <3>1, Odd DEF Placing
  <2>2. CASE ~(Placing(c) /\ r.id = nextId)
    BY <1>1, <2>2 DEF PageTurn
  <2>3. QED
    BY <2>1, <2>2
<1>7. Steady
  BY <1>5, <1>6 DEF Steady
<1>8. /\ Listed' /\ Threads' /\ Tasks'
      /\ \A q \in Seq(OnWire) : (ToHost(q) => ToHost(q)') /\ (ToPage(q) => ToPage(q)')
  BY <1>2, <1>7, SteadyKeeps
<1>9. ToPage(toPage)'
  <2>1. PICK q \in Seq(OnWire) : q = toPage
    BY <1>3
  <2>2. ToPage(q)'
    BY <1>3, <1>8, <2>1
  <2>3. QED
    BY <1>2, <2>1, <2>2 DEF ToPage
<1>10. ToHost(toHost)'
  <2>1. /\ toHost' \in Seq(OnWire) /\ Len(toHost') = Len(toHost) + Len(frames)
        /\ \A i \in 1..Len(toHost) : toHost'[i] = toHost[i]
        /\ \A i \in 1..Len(frames) : toHost'[Len(toHost) + i] = Sent(c, frames[i])
        /\ \A i \in 1..Len(toHost') :
             i \in 1..Len(toHost) \/ \E k \in 1..Len(frames) : i = Len(toHost) + k
    BY <1>2, <1>3, Behind
  <2>2. PICK q \in Seq(OnWire) : q = toHost
    BY <1>3
  <2>3. ToHost(q)'
    BY <1>3, <1>8, <2>2
  <2>4. Len(q) \in Nat /\ Len(frames) \in Nat
    BY <1>2, <2>2
  <2>5. ASSUME NEW i \in 1..Len(toHost')
        PROVE  LET d == toHost'[i].call  f == toHost'[i].frame IN
               /\ page'[d].id = f.streamId
               /\ f.body = "open" => /\ f.arg \in Method \cup {NO_SUCH_METHOD} /\ task[d].pc = "off"
                                     /\ \A j \in 1..i - 1 : toHost'[j].call # d
               /\ f.body = "halfClose" => page'[d].halfClosed
    <3>1. CASE i \in 1..Len(toHost)
      <4>1. toHost'[i] = q[i] /\ i \in 1..Len(q) /\ \A j \in 1..i - 1 : toHost'[j] = q[j]
        BY <2>1, <2>2, <2>4, <3>1
      <4>2. QED
        BY <1>4, <2>3, <4>1 DEF ToHost
    <3>2. CASE \E k \in 1..Len(frames) : i = Len(toHost) + k
      <4>1. PICK k \in 1..Len(frames) : i = Len(toHost) + k
        BY <3>2
      <4>2. toHost'[i].call = c /\ toHost'[i].frame = frames[k]
        <5>1. toHost'[Len(toHost) + k] = Sent(c, frames[k])
          BY <2>1, <4>1
        <5>2. toHost'[i] = Sent(c, frames[k])
          BY <4>1, <5>1
        <5>3. QED
          BY <5>2 DEF Sent
      <4>3. /\ frames[k].streamId = r.id
            /\ frames[k].body = "open" => /\ k = 1 /\ page[c].id = 0
                                          /\ frames[k].arg \in Method \cup {NO_SUCH_METHOD}
            /\ frames[k].body = "halfClose" => r.halfClosed
        BY <1>1, <4>1 DEF PageTurn
      <4>4. ASSUME page[c].id = 0, NEW j \in 1..Len(toHost)
            PROVE  toHost[j].call # c
        <5>1. toHost[j].frame.streamId # 0
          BY <1>3, <4>4, OnTheWay
        <5>2. page[toHost[j].call].id = toHost[j].frame.streamId
          BY <1>3, <4>4 DEF ToHost
        <5>3. QED
          BY <4>4, <5>1, <5>2
      <4>5. page[c].id = 0 => task[c].pc = "off"
        BY <1>3 DEF Paged
      <4>6. k = 1 => \A j \in 1..i - 1 : j \in 1..Len(toHost)
        BY <2>2, <2>4, <4>1
      <4>7. QED
        BY <1>5, <2>1, <4>2, <4>3, <4>4, <4>5, <4>6
    <3>3. QED
      BY <2>1, <3>1, <3>2
  <2>6. QED
    BY <1>4, <2>5 DEF ToHost
<1>11. Paged'
  <2>1. /\ nextId' \in Id \cup {2 * MaxCalls + 1}
        /\ \A d \in Call : page'[d].id = 0 => nextId' <= 2 * d - 1
        /\ load = 1 => \A d \in Call : page'[d].id = IF 2 * d - 1 < nextId' THEN 2 * d - 1 ELSE 0
    <3>1. CASE Placing(c) /\ r.id = nextId /\ nextId' = nextId + 2
      <4>1. /\ nextId \in Nat /\ nextId <= 2 * c - 1 /\ nextId + 2 \in Id \cup {2 * MaxCalls + 1}
            /\ load = 1 => nextId = 2 * c - 1
        BY <1>3, <3>1, FreshId
      <4>2. c \in Nat /\ \A d \in Call : d \in Nat /\ (d < c => d \in 1..c - 1)
        BY PageAssumption DEF Call
      <4>3. \A d \in Call : d < c => page[d].id # 0
        BY <3>1, <4>2 DEF Placing
      <4>4. ASSUME NEW d \in Call, page'[d].id = 0
            PROVE  nextId' <= 2 * d - 1
        BY <1>5, <1>6, <3>1, <4>1, <4>2, <4>3, <4>4
      <4>5. ASSUME load = 1, NEW d \in Call
            PROVE  page'[d].id = IF 2 * d - 1 < nextId' THEN 2 * d - 1 ELSE 0
        <5>1. CASE d = c
          BY <1>5, <3>1, <4>1, <4>2, <4>5, <5>1
        <5>2. CASE d # c
          <6>1. page'[d].id = IF 2 * d - 1 < nextId THEN 2 * d - 1 ELSE 0
            BY <1>3, <1>5, <4>5, <5>2 DEF Paged
          <6>2. 2 * d - 1 < nextId <=> 2 * d - 1 < nextId'
            BY <3>1, <4>1, <4>2, <4>5, <5>2
          <6>3. QED
            BY <6>1, <6>2
        <5>3. QED
          BY <5>1, <5>2
      <4>6. QED
        BY <3>1, <4>1, <4>4, <4>5
    <3>2. CASE ~(Placing(c) /\ r.id = nextId /\ nextId' = nextId + 2)
      <4>1. page[c].id # 0 /\ r.id = page[c].id /\ nextId' = nextId
        BY <1>1, <3>2 DEF PageTurn
      <4>2. \A d \in Call : page'[d].id = page[d].id
        BY <1>5, <4>1
      <4>3. QED
        BY <1>3, <4>1, <4>2 DEF Paged, PageTypeOK
    <3>3. QED
      BY <3>1, <3>2
  <2>2. PageTypeOK'
    <3>1. toHost' \in Seq(OnWire)
      BY <1>2, <1>3, Behind
    <3>2. QED
      BY <1>2, <1>3, <1>5, <2>1, <3>1 DEF PageTypeOK, Ios, Android
  <2>3. ASSUME NEW d \in Call
        PROVE  /\ page'[d].id = 0 => ~page'[d].live /\ task'[d].pc = "off"
               /\ page'[d].sending => ~page'[d].halfClosed
    BY <1>2, <1>3, <1>4, <1>5, <1>6 DEF Paged
  <2>4. QED
    BY <1>2, <2>1, <2>2, <2>3 DEF Paged
<1>12. QED
  BY <1>2, <1>7, <1>8, <1>9, <1>10, <1>11 DEF HostInv, Loads

(* The page is loaded again.                                               *)
LEMMA ReloadKeeps ==
  ASSUME HostInv, Reload, UNCHANGED <<hostVars, androidVars>>
  PROVE  HostInv' /\ Steady /\ Loads
<1>1. /\ load' = load + 1 /\ load < MaxLoads /\ nextId' = 1
      /\ page' = [c \in Call |-> [page[c] EXCEPT !.live = FALSE, !.sending = FALSE]]
      /\ platform' = platform /\ toHost' = toHost /\ toPage' = toPage
  BY DEF Reload
<1>2. /\ PageTypeOK /\ Paged /\ ToHost(toHost) /\ ToPage(toPage) /\ task' = task
      /\ page \in [Call -> PageCall] /\ toHost \in Seq(OnWire) /\ toPage \in Seq(OnWire)
  BY DEF HostInv, Paged, PageTypeOK, hostVars
<1>3. ASSUME NEW c \in Call
      PROVE  /\ page'[c] \in PageCall /\ page'[c].id = page[c].id /\ ~page'[c].live
             /\ ~page'[c].sending /\ page'[c].halfClosed = page[c].halfClosed
  <2> DEFINE u == page[c]
  <2>1. u \in PageCall /\ page'[c] = [u EXCEPT !.live = FALSE, !.sending = FALSE]
    BY <1>1, <1>2
  <2> HIDE DEF u
  <2>2. /\ page'[c] \in PageCall /\ page'[c].id = u.id /\ ~page'[c].live
        /\ ~page'[c].sending /\ page'[c].halfClosed = u.halfClosed
    BY <2>1 DEF PageCall
  <2>3. QED
    BY <2>2 DEF u
<1>4. page' \in [Call -> PageCall]
  BY <1>1, <1>3
<1>5. Steady
  BY <1>3, <1>4 DEF Steady
<1>6. /\ Listed' /\ Threads' /\ Tasks'
      /\ \A q \in Seq(OnWire) : (ToHost(q) => ToHost(q)') /\ (ToPage(q) => ToPage(q)')
  BY <1>1, <1>5, SteadyKeeps
<1>7. ToPage(toPage)' /\ ToHost(toHost)'
  <2>1. PICK p \in Seq(OnWire) : p = toPage
    BY <1>2
  <2>2. PICK q \in Seq(OnWire) : q = toHost
    BY <1>2
  <2>3. ToPage(p)' /\ ToHost(q)'
    BY <1>2, <1>6, <2>1, <2>2
  <2>4. ToPage(toPage)'
    BY <1>1, <2>1, <2>3 DEF ToPage
  <2>5. toHost' = q
    BY <1>1, <2>2
  <2>6. ToHost(toHost)'
    BY <2>3, <2>5 DEF ToHost
  <2>7. QED
    BY <2>4, <2>6
<1>8. Paged'
  <2>1. load \in Nat /\ load >= 1 /\ MaxLoads \in Nat
    <3>1. load \in 1..MaxLoads
      BY <1>2 DEF PageTypeOK
    <3>2. MaxLoads \in Nat
      BY PageAssumption
    <3>3. QED
      BY <3>1, <3>2
  <2>2. load' \in 1..MaxLoads /\ load' # 1
    <3>1. load' = load + 1 /\ load < MaxLoads
      BY <1>1
    <3>2. QED
      BY <2>1, <3>1
  <2>3. 1 \in Id \cup {2 * MaxCalls + 1} /\ \A c \in Call : 1 <= 2 * c - 1
    <3>1. CASE MaxCalls = 0
      BY <3>1 DEF Call
    <3>2. CASE MaxCalls # 0
      <4>1. 1 \in Call /\ 1 = 2 * 1 - 1 /\ \A c \in Call : c \in Nat /\ c >= 1
        BY <3>2, PageAssumption DEF Call
      <4>2. QED
        BY <4>1 DEF Id
    <3>3. QED
      BY <3>1, <3>2
  <2>4. PageTypeOK'
    BY <1>1, <1>2, <1>4, <2>2, <2>3 DEF PageTypeOK, Ios, Android
  <2>5. QED
    BY <1>1, <1>2, <1>3, <2>2, <2>3, <2>4 DEF Paged
<1>9. Loads
  <2>1. load \in 1..MaxLoads /\ MaxLoads \in Nat
    BY <1>2, PageAssumption DEF PageTypeOK
  <2>2. load' = load + 1
    BY <1>1
  <2>3. load \in Nat /\ load >= 1
    BY <2>1
  <2>4. load' = 1 => load = 1
    BY <2>2, <2>3
  <2>5. QED
    BY <1>1, <2>4 DEF Loads
<1>10. QED
  BY <1>5, <1>6, <1>7, <1>8, <1>9 DEF HostInv

(* A frame is taken out of those on the way.                               *)
LEMMA TakenOut ==
  ASSUME NEW S, NEW s \in Seq(S), NEW i \in 1..Len(s)
  PROVE  /\ RemoveAt(s, i) \in Seq(S) /\ Len(RemoveAt(s, i)) = Len(s) - 1
         /\ \A j \in 1..Len(s) - 1 : RemoveAt(s, i)[j] = IF j < i THEN s[j] ELSE s[j + 1]
<1> DEFINE before == SubSeq(s, 1, i - 1)  after == SubSeq(s, i + 1, Len(s))  n == Len(s)
<1>1. n \in Nat /\ i \in 1..n
  OBVIOUS
<1>2. /\ before \in Seq(S) /\ Len(before) = i - 1
      /\ \A j \in 1..i - 1 : before[j] = s[j]
  BY <1>1
<1>3. /\ after \in Seq(S) /\ Len(after) = n - i
      /\ \A j \in 1..n - i : after[j] = s[i + j]
  BY <1>1, ElementOfSeq, SubSeqProperties
<1>4. RemoveAt(s, i) = before \o after
  BY DEF RemoveAt
<1> HIDE DEF before, after, n
<1>5. before \o after \in Seq(S) /\ Len(before \o after) = n - 1
  <2>1. before \o after \in Seq(S) /\ Len(before \o after) = Len(before) + Len(after)
    BY <1>2, <1>3, ConcatProperties
  <2>2. QED
    BY <1>1, <1>2, <1>3, <2>1
<1>6. ASSUME NEW j \in 1..n - 1
      PROVE  (before \o after)[j] = IF j < i THEN s[j] ELSE s[j + 1]
  <2>1. (before \o after)[j] = IF j <= i - 1 THEN before[j] ELSE after[j - (i - 1)]
    BY <1>1, <1>2, <1>3
  <2>2. CASE j < i
    BY <1>1, <1>2, <2>1, <2>2
  <2>3. CASE ~(j < i)
    <3> DEFINE k == j - (i - 1)
    <3>1. k \in 1..n - i /\ i + k = j + 1 /\ ~(j <= i - 1)
      BY <1>1, <2>3
    <3>2. (before \o after)[j] = after[k]
      BY <2>1, <3>1
    <3> HIDE DEF k
    <3>3. after[k] = s[i + k]
      BY <1>3, <3>1
    <3>4. QED
      BY <2>3, <3>1, <3>2, <3>3
  <2>4. QED
    BY <2>2, <2>3
<1>7. QED
  BY <1>4, <1>5, <1>6 DEF n

(* What a call makes of a frame that the host sends.                       *)
LEMMA Hears ==
  ASSUME NEW u \in PageCall, NEW m \in OnWire, m.frame.body \in {"message", "close", "error"}
  PROVE  LET t == Hear(u, m) IN
         /\ t \in PageCall /\ t.id = u.id /\ t.live = u.live /\ t.halfClosed = u.halfClosed
         /\ t.sending => u.sending
         /\ m.frame.body = "message" => /\ t.heard = Append(u.heard, <<m.call, m.frame.arg>>)
                                        /\ t.told = u.told
         /\ m.frame.body # "message" => t.heard = u.heard
         /\ m.frame.body = "close" => t.told = Closed
         /\ m.frame.body = "error" => t.told \notin {Untold, Closed}
<1>1. m.call \in Call /\ m.frame.arg \in Nat
  BY DEF OnWire, WireFrame
<1>2. CASE m.frame.body = "message"
  <2> DEFINE h == Append(u.heard, <<m.call, m.frame.arg>>)
  <2>1. h \in Seq(Call \X Nat)
    BY <1>1 DEF PageCall
  <2>2. Hear(u, m) = [u EXCEPT !.heard = h]
    BY <1>2 DEF Hear
  <2> HIDE DEF h
  <2>3. QED
    BY <1>2, <2>1, <2>2 DEF PageCall, h
<1>3. CASE m.frame.body = "close"
  <2>1. Hear(u, m) = [u EXCEPT !.told = Closed]
    BY <1>3 DEF Hear
  <2>2. QED
    BY <1>3, <2>1 DEF PageCall, Verdict
<1>4. CASE m.frame.body = "error"
  <2> DEFINE v == FromFrame(m.frame.arg)
  <2>1. v \in Verdict /\ v \notin {Untold, Closed}
    BY DEF FromFrame, Verdict, RpcStatusCode, INTERNAL, CANCELLED, INVALID_ARGUMENT,
       DEADLINE_EXCEEDED, UNIMPLEMENTED, Closed, Untold
  <2>2. Hear(u, m) = [u EXCEPT !.told = v, !.sending = FALSE]
    BY <1>4 DEF Hear
  <2> HIDE DEF v
  <2>3. QED
    BY <1>4, <2>1, <2>2 DEF PageCall
<1>5. QED
  BY <1>2, <1>3, <1>4

(* A frame arrives: what Deliver does, call by call.                       *)
LEMMA Delivered ==
  ASSUME PageTypeOK, ToPage(toPage), NEW i \in 1..Len(toPage),
         page' = [c \in Call |-> IF c \in Hearing(toPage[i].frame.streamId)
                                 THEN Hear(page[c], toPage[i]) ELSE page[c]],
         NEW c \in Call
  PROVE  /\ page'[c] \in PageCall /\ page'[c].id = page[c].id /\ page'[c].live = page[c].live
         /\ page'[c].halfClosed = page[c].halfClosed /\ (page'[c].sending => page[c].sending)
         /\ \/ page'[c] = page[c]
            \/ /\ page[c].live /\ page[c].told = Untold
               /\ page[c].id = toPage[i].frame.streamId
               /\ toPage[i].frame.body = "message" =>
                    /\ page'[c].heard = Append(page[c].heard,
                                                 <<toPage[i].call, toPage[i].frame.arg>>)
                    /\ page'[c].told = page[c].told
               /\ toPage[i].frame.body # "message" => page'[c].heard = page[c].heard
<1> DEFINE m == toPage[i]
<1>1. page[c] \in PageCall /\ toPage \in Seq(OnWire)
  BY DEF PageTypeOK
<1>2. m \in OnWire /\ m.frame.body \in {"message", "close", "error"}
  BY <1>1, OnTheWay DEF ToPage
<1> HIDE DEF m
<1>3. page'[c] = IF c \in Hearing(m.frame.streamId) THEN Hear(page[c], m) ELSE page[c]
  BY DEF m
<1>4. CASE c \in Hearing(m.frame.streamId)
  <2>1. page[c].live /\ page[c].id = m.frame.streamId /\ page[c].told = Untold
    BY <1>4 DEF Hearing
  <2>2. page'[c] = Hear(page[c], m)
    BY <1>3, <1>4
  <2> DEFINE t == Hear(page[c], m)
  <2>3. /\ t \in PageCall /\ t.id = page[c].id /\ t.live = page[c].live
        /\ t.halfClosed = page[c].halfClosed /\ (t.sending => page[c].sending)
        /\ m.frame.body = "message" => /\ t.heard = Append(page[c].heard, <<m.call, m.frame.arg>>)
                                       /\ t.told = page[c].told
        /\ m.frame.body # "message" => t.heard = page[c].heard
    BY <1>1, <1>2, Hears
  <2> HIDE DEF t
  <2>4. page'[c] = t
    BY <2>2 DEF t
  <2>5. QED
    BY <2>1, <2>3, <2>4 DEF m
<1>5. CASE c \notin Hearing(m.frame.streamId)
  <2>1. page'[c] = page[c]
    BY <1>3, <1>5
  <2>2. QED
    BY <1>1, <2>1
<1>6. QED
  BY <1>4, <1>5

(* A frame that arrives at the page keeps the invariant. *)
LEMMA DeliverKeeps ==
  ASSUME HostInv, Deliver, UNCHANGED <<hostVars, androidVars>>
  PROVE  HostInv' /\ Steady /\ Loads
<1>1. PICK i \in 1..Len(toPage) :
        /\ toPage' = RemoveAt(toPage, i)
        /\ page' = [c \in Call |-> IF c \in Hearing(toPage[i].frame.streamId)
                                   THEN Hear(page[c], toPage[i]) ELSE page[c]]
        /\ platform' = platform /\ load' = load /\ nextId' = nextId /\ toHost' = toHost
  <2>1. toPage \in Seq(OnWire)
    BY DEF HostInv, Paged, PageTypeOK
  <2>2. DOMAIN toPage = 1..Len(toPage)
    BY <2>1
  <2>3. QED
    BY <2>2 DEF Deliver
<1>2. /\ PageTypeOK /\ Paged /\ ToHost(toHost) /\ ToPage(toPage) /\ task' = task
      /\ page \in [Call -> PageCall] /\ toHost \in Seq(OnWire) /\ toPage \in Seq(OnWire)
  BY DEF HostInv, Paged, PageTypeOK, hostVars
<1>3. \A c \in Call :
        /\ page'[c] \in PageCall /\ page'[c].id = page[c].id /\ page'[c].live = page[c].live
        /\ page'[c].halfClosed = page[c].halfClosed /\ (page'[c].sending => page[c].sending)
  BY <1>1, <1>2, Delivered
<1>4. page' \in [Call -> PageCall]
  BY <1>1, <1>3
<1>5. Steady
  BY <1>3, <1>4 DEF Steady
<1>6. /\ Listed' /\ Threads' /\ Tasks'
      /\ \A q \in Seq(OnWire) : (ToHost(q) => ToHost(q)') /\ (ToPage(q) => ToPage(q)')
  BY <1>1, <1>5, SteadyKeeps
<1>7. ToHost(toHost)'
  <2>1. PICK q \in Seq(OnWire) : q = toHost
    BY <1>2
  <2>2. ToHost(q)'
    BY <1>2, <1>6, <2>1
  <2>3. QED
    BY <1>1, <2>1, <2>2 DEF ToHost
<1>8. /\ toPage' \in Seq(OnWire) /\ Len(toPage') = Len(toPage) - 1 /\ Len(toPage) \in Nat
      /\ \A j \in 1..Len(toPage) - 1 : toPage'[j] = IF j < i THEN toPage[j] ELSE toPage[j + 1]
  BY <1>1, <1>2, TakenOut
<1>9. ToPage(toPage)'
  <2>1. PICK q \in Seq(OnWire) : q = toPage
    BY <1>2
  <2>2. ToPage(q)'
    BY <1>2, <1>6, <2>1
  <2>3. ASSUME NEW j \in 1..Len(toPage')
        PROVE  \E k \in 1..Len(q) : toPage'[j] = q[k]
    <3>1. j \in 1..Len(q) /\ j + 1 \in 1..Len(q) /\ j \in 1..Len(toPage) - 1
      BY <1>8, <2>1, <2>3
    <3>2. QED
      BY <1>8, <2>1, <3>1
  <2>4. QED
    BY <2>2, <2>3 DEF ToPage
<1>10. Paged'
  <2>1. PageTypeOK'
    BY <1>1, <1>2, <1>4, <1>8 DEF PageTypeOK, Ios, Android
  <2>2. QED
    BY <1>1, <1>2, <1>3, <2>1 DEF Paged
<1>11. QED
  BY <1>1, <1>5, <1>6, <1>7, <1>9, <1>10 DEF HostInv, Loads

(* So does whatever the page does.                                         *)
LEMMA PageKeeps ==
  ASSUME HostInv, PageNext, UNCHANGED <<hostVars, androidVars>>
  PROVE  HostInv' /\ Steady /\ Loads
<1>1. CASE Reload
  BY <1>1, ReloadKeeps
<1>2. CASE Deliver
  BY <1>2, DeliverKeeps
<1>3. ASSUME NEW c \in Call, PlaceCall(c) \/ PlaceFails(c)
      PROVE  HostInv' /\ Steady /\ Loads
  <2>1. PageMove(c)
    BY <1>3, PlacingMoves DEF HostInv
  <2>2. QED
    BY <2>1, TurnsKeep
<1>4. ASSUME NEW c \in Call,
             SendRequest(c) \/ EndRequests(c) \/ Abort(c) \/ Forget(c) \/ SendUnknown(c)
      PROVE  HostInv' /\ Steady /\ Loads
  <2>1. PageMove(c)
    BY <1>4, GoingMoves DEF HostInv, Paged, PageTypeOK
  <2>2. QED
    BY <2>1, TurnsKeep
<1>5. QED
  BY <1>1, <1>2, <1>3, <1>4 DEF PageNext

(***************************************************************************)
(* What the steps of the host have in common.                              *)
(***************************************************************************)

(* Tasks do not come to be, but for the call of a frame that is handled.   *)
Wakes ==
  \A d \in Call :
    /\ task[d].pc # "off" => task'[d].pc # "off"
    /\ task[d].pc = "off" => \/ task'[d].pc = "off"
                             \/ toHost # <<>> /\ toHost' = Tail(toHost) /\ d = toHost[1].call

(* A frame is handled, or the frames on the way are dropped, all but the   *)
(* one that is being handled perhaps.                                      *)
Handled ==
  \/ toHost' = toHost \/ toHost' = <<>>
  \/ toHost # <<>> /\ toHost' = Tail(toHost)
  \/ toHost # <<>> /\ toHost' = <<Head(toHost)>>

(* What is left of the frames to the host is in order still. *)
LEMMA HandledKeeps ==
  ASSUME toHost \in Seq(OnWire), ToHost(toHost), page' = page, Wakes, Handled
  PROVE  ToHost(toHost)' /\ toHost' \in Seq(OnWire)
<1>1. ASSUME NEW s \in Seq(OnWire), s # <<>>
      PROVE  /\ Tail(s) \in Seq(OnWire) /\ Len(Tail(s)) = Len(s) - 1 /\ Len(s) \in Nat
             /\ \A j \in 1..Len(s) - 1 : Tail(s)[j] = s[j + 1]
             /\ <<Head(s)>> \in Seq(OnWire) /\ Len(<<Head(s)>>) = 1 /\ <<Head(s)>>[1] = s[1]
             /\ 1 \in 1..Len(s)
  BY <1>1
<1>2. CASE toHost' = toHost
  <2>1. \A i \in 1..Len(toHost) : toHost[i].call \in Call
    BY OnTheWay
  <2>2. ASSUME NEW d \in Call, task[d].pc = "off", toHost # <<>>, d = toHost[1].call,
               toHost' = Tail(toHost)
        PROVE  FALSE
    BY <1>1, <1>2, <2>2
  <2>3. \A d \in Call : task[d].pc = "off" => task'[d].pc = "off"
    BY <2>2 DEF Wakes
  <2>4. QED
    BY <1>2, <2>1, <2>3 DEF ToHost
<1>3. CASE toHost' = <<>>
  <2>1. Len(toHost') = 0 /\ 1..0 = {} /\ toHost' \in Seq(OnWire)
    BY <1>3
  <2>2. QED
    BY <2>1 DEF ToHost
<1>4. CASE toHost # <<>> /\ toHost' = Tail(toHost)
  <2>1. /\ toHost' \in Seq(OnWire) /\ Len(toHost') = Len(toHost) - 1 /\ Len(toHost) \in Nat
        /\ \A j \in 1..Len(toHost) - 1 : toHost'[j] = toHost[j + 1]
    BY <1>1, <1>4
  <2>2. ASSUME NEW i \in 1..Len(toHost')
        PROVE  LET c == toHost'[i].call  f == toHost'[i].frame IN
               /\ page[c].id = f.streamId
               /\ f.body = "open" => /\ f.arg \in Method \cup {NO_SUCH_METHOD}
                  /\ task'[c].pc = "off"
                                     /\ \A j \in 1..i - 1 : toHost'[j].call # c
               /\ f.body = "halfClose" => page[c].halfClosed
    <3>1. /\ i + 1 \in 1..Len(toHost) /\ toHost'[i] = toHost[i + 1] /\ 1 \in 1..(i + 1) - 1
          /\ \A j \in 1..i - 1 : j + 1 \in 1..(i + 1) - 1 /\ toHost'[j] = toHost[j + 1]
      BY <2>1
    <3>2. toHost[i + 1].call \in Call
      BY <3>1, OnTheWay
    <3> DEFINE k == i + 1
    <3>3. LET c == toHost[k].call  f == toHost[k].frame IN
          /\ page[c].id = f.streamId
          /\ f.body = "open" => /\ f.arg \in Method \cup {NO_SUCH_METHOD} /\ task[c].pc = "off"
                                /\ \A j \in 1..k - 1 : toHost[j].call # c
          /\ f.body = "halfClose" => page[c].halfClosed
      <4>1. k \in 1..Len(toHost)
        BY <3>1
      <4> HIDE DEF k
      <4>2. QED
        BY <4>1 DEF ToHost
    <3>4. toHost[k].frame.body = "open" => task'[toHost[k].call].pc = "off"
      BY <3>1, <3>2, <3>3 DEF Wakes
    <3>5. QED
      BY <3>1, <3>3, <3>4
  <2>3. QED
    BY <2>1, <2>2 DEF ToHost
<1>5. CASE toHost # <<>> /\ toHost' = <<Head(toHost)>>
  <2>1. toHost' \in Seq(OnWire) /\ Len(toHost') = 1 /\ toHost'[1] = toHost[1]
        /\ 1 \in 1..Len(toHost)
    BY <1>1, <1>5
  <2>2. CASE toHost' = Tail(toHost)
    <3>1. Len(toHost) = 2 /\ toHost'[1] = toHost[2] /\ 2 \in 1..Len(toHost) /\ 1 \in 1..2 - 1
      <4> DEFINE t == Tail(toHost)  n == Len(toHost)
      <4>1. /\ Len(t) = n - 1 /\ n \in Nat /\ \A j \in 1..n - 1 : t[j] = toHost[j + 1]
        BY <1>1, <1>5
      <4>2. toHost' = t
        BY <2>2
      <4> HIDE DEF t, n
      <4>3. n = 2
        <5>1. Len(t) = 1
          BY <2>1, <4>2
        <5>2. n \in Nat /\ n - 1 = 1
          BY <4>1, <5>1
        <5>3. QED
          BY <5>2
      <4>4. t[1] = toHost[1 + 1]
        BY <4>1, <4>3
      <4>5. QED
        BY <4>2, <4>3, <4>4 DEF n
    <3>2. toHost[1].call \in Call /\ toHost[2].call \in Call
      BY <2>1, <3>1, OnTheWay
    <3>3. toHost[2].frame.body # "open"
      <4>1. toHost[2] = toHost[1]
        BY <2>1, <3>1
      <4>2. toHost[2].frame.body = "open" => toHost[1].call # toHost[2].call
        BY <3>1 DEF ToHost
      <4>3. QED
        BY <4>1, <4>2
    <3>4. QED
      BY <2>1, <3>1, <3>2, <3>3 DEF ToHost
  <2>3. CASE toHost' # Tail(toHost)
    <3>1. toHost[1].call \in Call
      BY <2>1, OnTheWay
    <3>2. \A d \in Call : task[d].pc = "off" => task'[d].pc = "off"
      BY <2>3 DEF Wakes
    <3>3. QED
      BY <2>1, <3>1, <3>2 DEF ToHost
  <2>4. QED
    BY <2>2, <2>3
<1>6. QED
  BY <1>2, <1>3, <1>4, <1>5 DEF Handled

(* A frame for a call that has a task is sent, or what is on the way is    *)
(* dropped.                                                                *)
Answers(d, f) ==
  /\ d \in Call /\ f \in WireFrame /\ toPage' = Append(toPage, Sent(d, f))
  /\ page[d].id = f.streamId /\ task'[d].pc # "off" /\ f.body \in {"message", "close", "error"}
Answered1 == toPage' = toPage \/ toPage' = <<>> \/ \E d, f : Answers(d, f)

(* So are the frames to the page. *)
LEMMA AnsweredKeeps ==
  ASSUME toPage \in Seq(OnWire), ToPage(toPage), page' = page, Wakes, Answered1
  PROVE  ToPage(toPage)' /\ toPage' \in Seq(OnWire)
<1>1. \A i \in 1..Len(toPage) : task'[toPage[i].call].pc # "off"
  BY OnTheWay DEF ToPage, Wakes
<1>2. CASE toPage' = toPage
  BY <1>1, <1>2 DEF ToPage
<1>3. CASE toPage' = <<>>
  <2>1. Len(toPage') = 0 /\ 1..0 = {} /\ toPage' \in Seq(OnWire)
    BY <1>3
  <2>2. QED
    BY <2>1 DEF ToPage
<1>4. ASSUME NEW d, NEW f, Answers(d, f)
      PROVE  ToPage(toPage)' /\ toPage' \in Seq(OnWire)
  <2> DEFINE m == Sent(d, f)
  <2>1. m \in OnWire /\ m.call = d /\ m.frame = f
    BY <1>4 DEF Answers, Sent, OnWire
  <2>2. toPage' = Append(toPage, m)
    BY <1>4 DEF Answers
  <2> HIDE DEF m
  <2>3. /\ toPage' \in Seq(OnWire) /\ Len(toPage') = Len(toPage) + 1 /\ Len(toPage) \in Nat
        /\ \A i \in 1..Len(toPage) : toPage'[i] = toPage[i]
        /\ toPage'[Len(toPage) + 1] = m
    BY <2>1, <2>2
  <2>4. ASSUME NEW i \in 1..Len(toPage')
        PROVE  /\ page[toPage'[i].call].id = toPage'[i].frame.streamId
               /\ task'[toPage'[i].call].pc # "off"
               /\ toPage'[i].frame.body \in {"message", "close", "error"}
    <3>1. CASE i \in 1..Len(toPage)
      BY <1>1, <2>3, <3>1 DEF ToPage
    <3>2. CASE i = Len(toPage) + 1
      <4>1. toPage'[i] = m
        BY <2>3, <3>2
      <4>2. QED
        BY <1>4, <2>1, <4>1 DEF Answers
    <3>3. QED
      BY <2>3, <3>1, <3>2
  <2>5. QED
    BY <2>3, <2>4 DEF ToPage
<1>5. QED
  BY <1>2, <1>3, <1>4 DEF Answered1

(* Together: a step of the host keeps the page and the ways to and from it.*)
LEMMA HostSide ==
  ASSUME HostInv, UNCHANGED <<platform, load, nextId, page>>, Wakes, Handled, Answered1
  PROVE  Paged' /\ ToHost(toHost)' /\ ToPage(toPage)'
<1>1. /\ Paged /\ PageTypeOK /\ toHost \in Seq(OnWire) /\ toPage \in Seq(OnWire)
      /\ ToHost(toHost) /\ ToPage(toPage)
  BY DEF HostInv, Paged, PageTypeOK
<1>2. /\ ToHost(toHost)' /\ ToPage(toPage)' /\ toHost' \in Seq(OnWire) /\ toPage' \in Seq(OnWire)
  BY <1>1, HandledKeeps, AnsweredKeeps
<1>3. PageTypeOK'
  BY <1>1, <1>2 DEF PageTypeOK, Ios, Android
<1>4. ASSUME NEW d \in Call, page[d].id = 0
      PROVE  task'[d].pc = "off"
  <2>1. task[d].pc = "off"
    BY <1>1, <1>4 DEF Paged
  <2>2. toHost # <<>> => d # toHost[1].call
    <3>1. SUFFICES ASSUME toHost # <<>>, d = toHost[1].call
                   PROVE  FALSE
      OBVIOUS
    <3>2. 1 \in 1..Len(toHost)
      BY <1>1, <3>1
    <3>3. page[toHost[1].call].id = toHost[1].frame.streamId
      BY <1>1, <3>2 DEF ToHost
    <3>4. toHost[1].frame.streamId # 0
      BY <1>1, <3>2, OnTheWay
    <3>5. QED
      BY <1>4, <3>1, <3>3, <3>4
  <2>3. QED
    BY <2>1, <2>2 DEF Wakes
<1>5. Paged'
  BY <1>1, <1>3, <1>4 DEF Paged
<1>6. QED
  BY <1>2, <1>5

(***************************************************************************)
(* The steps of a task.                                                    *)
(***************************************************************************)
LEMMA Wide ==
  /\ \A t \in Task(Swift!SwiftPc, Swift!SwiftState) : t \in Task(HostPc, HostState)
  /\ \A t \in Task(Kotlin!KotlinPc, Kotlin!KotlinState) : t \in Task(HostPc, HostState)
BY DEF Task, HostPc, HostState

(* A task that goes on keeps the invariant. *)
LEMMA MoveKeeps ==
  ASSUME HostInv, NEW c \in Call, TaskMove(c), Ios => SwiftGood(task'[c]),
         Android => KotlinGood(task'[c])
  PROVE  HostInv'
<1> DEFINE u == task[c]  t == task'[c]
<1>1. /\ Paged /\ PageTypeOK /\ Listed /\ Threads /\ Tasks /\ c \in Call /\ (Ios \/ Android)
      /\ task \in [Call -> Task(HostPc, HostState)] /\ page \in [Call -> PageCall]
  BY DEF HostInv, Paged, PageTypeOK, Tasks
<1>2. /\ task' = [task EXCEPT ![c] = t]
      /\ UNCHANGED <<platform, load, nextId, page, toHost, attached, androidVars>>
      /\ u.pc \notin {"off", "listed", "done"} /\ t.pc \notin {"off", "listed"}
      /\ t.cancelled = u.cancelled /\ t.interrupted = u.interrupted
      /\ \/ streams' = streams
         \/ streams' = [streams EXCEPT ![page[c].id] = 0] /\ t.pc \in {"finally", "done"}
      /\ t.pc = "done" => u.interrupted \/ streams' = [streams EXCEPT ![page[c].id] = 0]
      /\ Says(u, t, c)
  BY DEF TaskMove
<1>3. \A d \in Call : d # c => task'[d] = task[d]
  BY <1>1, <1>2
<1>4. page[c].id \in Id /\ page[c].id # 0 /\ u.made \in Nat
  BY <1>1, <1>2 DEF Paged, PageCall, Task
<1> HIDE DEF u, t
<1>5. t = task'[c] /\ u = task[c]
  BY DEF u, t
<1>6. Wakes
  BY <1>2, <1>3, <1>5 DEF Wakes
<1>7. Answered1
  <2>1. \A f \in WireFrame : f.streamId = page[c].id /\ f.body \in {"message", "close", "error"}
          /\ toPage' = Append(toPage, Sent(c, f)) => Answered1
    <3>1. SUFFICES ASSUME NEW f \in WireFrame, f.streamId = page[c].id,
                          f.body \in {"message", "close", "error"},
                          toPage' = Append(toPage, Sent(c, f))
                   PROVE  Answers(c, f)
      BY DEF Answered1
    <3>2. QED
      BY <1>2, <1>5, <3>1 DEF Answers
  <2>2. CASE toPage' = toPage
    BY <2>2 DEF Answered1
  <2>3. CASE toPage' # toPage /\ toPage' = Append(toPage, Message1(c, u.made + 1))
    <3> DEFINE f == MessageFrame(page[c].id, u.made + 1)
    <3>1. f \in WireFrame /\ f.streamId = page[c].id /\ f.body = "message"
      BY <1>4 DEF MessageFrame, WireFrame, Body
    <3>2. toPage' = Append(toPage, Sent(c, f))
      BY <2>3 DEF Message1
    <3> HIDE DEF f
    <3>3. QED
      BY <2>1, <3>1, <3>2
  <2>4. QED
    BY <1>2, <2>1, <2>2, <2>3 DEF Says
<1>8. Paged' /\ ToHost(toHost)' /\ ToPage(toPage)'
  BY <1>2, <1>6, <1>7, HostSide DEF Handled
<1>9. Tasks'
  <2>1. t \in Task(HostPc, HostState)
    BY <1>1, <1>5, Wide DEF SwiftGood, KotlinGood
  <2>2. task' \in [Call -> Task(HostPc, HostState)]
    BY <1>1, <1>2, <2>1
  <2>3. Ios' = Ios /\ Android' = Android
    BY <1>2 DEF Ios, Android
  <2>4. ASSUME NEW d \in Call, Ios
        PROVE  SwiftGood(task[d])'
    <3>1. SwiftGood(task'[d])
      BY <1>1, <1>3, <2>4 DEF Tasks
    <3>2. QED
      BY <3>1 DEF SwiftGood
  <2>5. ASSUME NEW d \in Call, Android
        PROVE  KotlinGood(task[d])'
    <3>1. KotlinGood(task'[d])
      BY <1>1, <1>3, <2>5 DEF Tasks
    <3>2. QED
      BY <1>2, <3>1 DEF KotlinGood
  <2>6. QED
    BY <2>2, <2>3, <2>4, <2>5 DEF Tasks
<1>10. Listed'
  <2>1. streams \in [Id -> Call \cup {0}]
    BY <1>1 DEF Listed
  <2>2. streams' \in [Id -> Call \cup {0}] /\ \A id \in Id : streams'[id] # 0 =>
          streams'[id] = streams[id] /\ (streams' = streams \/ id # page[c].id)
    BY <1>2, <1>4, <2>1
  <2>3. ASSUME NEW id \in Id, streams'[id] # 0
        PROVE  LET d == streams'[id] IN
               /\ page[d].id = id /\ task'[d].pc # "off"
               /\ attached => /\ task'[d].pc # "done" /\ ~task'[d].interrupted
                              /\ task'[d].cancelled => bridge = [at |-> "cancel", call |-> d]
    <3> DEFINE d == streams[id]
    <3>1. d \in Call /\ d = streams'[id] /\ d # 0
      BY <2>1, <2>2, <2>3
    <3>2. /\ page[d].id = id /\ task[d].pc # "off"
          /\ attached => /\ task[d].pc # "done" /\ ~task[d].interrupted
                         /\ task[d].cancelled => bridge = [at |-> "cancel", call |-> d]
      BY <1>1, <3>1 DEF Listed
    <3> HIDE DEF d
    <3>3. CASE d = c
      <4>1. attached => t.pc # "done"
        <5>1. page[c].id = id /\ streams'[id] # 0
          BY <2>3, <3>2, <3>3
        <5>2. streams' # [streams EXCEPT ![page[c].id] = 0]
          BY <2>1, <5>1
        <5>3. attached => ~u.interrupted
          BY <1>5, <3>2, <3>3
        <5>4. QED
          BY <1>2, <5>2, <5>3
      <4>2. QED
        BY <1>2, <1>5, <3>1, <3>2, <3>3, <4>1
    <3>4. CASE d # c
      BY <1>3, <3>1, <3>2, <3>4
    <3>5. QED
      BY <3>3, <3>4
  <2>4. bridge' = bridge
    BY <1>2 DEF androidVars
  <2>5. QED
    BY <1>2, <2>2, <2>3, <2>4 DEF Listed
<1>11. Threads'
  <2>1. UNCHANGED <<bridge, hasJob, activity, sweep>> /\ platform' = platform
        /\ attached' = attached
    BY <1>2 DEF androidVars
  <2>2. bridge.call # 0 => bridge.call \in Call
    BY <1>1 DEF Threads
  <2>3. \A d \in Call : /\ task[d].pc # "off" => task'[d].pc # "off"
                        /\ task[d].pc = "listed" => task'[d] = task[d]
                        /\ task[d].cancelled = task'[d].cancelled
    BY <1>2, <1>3, <1>5
  <2>4. /\ bridge.call # 0 => task'[bridge.call].pc # "off"
        /\ bridge.at = "launch" => task'[bridge.call].pc = "listed"
        /\ bridge.at = "cancel" => task'[bridge.call].cancelled
    <3>1. bridge.at \in {"launch", "cancel"} => bridge.call \in Call
      BY <1>1 DEF Threads
    <3>2. QED
      BY <1>1, <2>2, <2>3, <3>1 DEF Threads
  <2>5. sweep \subseteq {d \in Call : task'[d].pc # "off"}
    BY <1>1, <2>3 DEF Threads
  <2>6. QED
    BY <1>1, <2>1, <2>4, <2>5 DEF Threads, Android
<1>12. QED
  BY <1>8, <1>9, <1>10, <1>11 DEF HostInv

(***************************************************************************)
(* The other steps of a host: one stream is touched, nothing is done for   *)
(* the streams, or the host shuts down.                                    *)
(***************************************************************************)
Over == {"off", "finally", "done"}
Touch(d, t) ==
  /\ d \in Call /\ task' = [task EXCEPT ![d] = t] /\ t.pc # "off"
  /\ UNCHANGED <<platform, load, nextId, page, attached>>
  /\ (Ios => SwiftGood(t)) /\ (Android => KotlinGood(t)) /\ Threads'
  /\ t.made = task[d].made
  /\ \/ toHost' = toHost /\ task[d].pc # "off"
     \/ /\ toHost # <<>> /\ toHost' = Tail(toHost)
        /\ task[d].pc # "off" \/ d = toHost[1].call
  /\ \/ toPage' = toPage /\ t.verdict = task[d].verdict
     \/ /\ task[d].pc = "off" /\ t.verdict \notin {Untold, Closed}
        /\ \E f \in WireFrame :
             /\ f.streamId = page[d].id /\ f.body = "error"
             /\ toPage' = IF attached THEN Append(toPage, Sent(d, f)) ELSE toPage
  /\ page[d].id # 0
  /\ \/ streams' = streams
     \/ streams' = [streams EXCEPT ![page[d].id] = d]
     \/ streams' = [streams EXCEPT ![page[d].id] = 0] /\ (t.cancelled \/ t.pc = "done")
  /\ attached => \A id \in Id : streams'[id] = d =>
       /\ t.pc # "done" /\ ~t.interrupted
       /\ t.cancelled => bridge' = [at |-> "cancel", call |-> d]
  /\ \A e \in Call : e # d => bridge' = bridge \/ bridge # [at |-> "cancel", call |-> e]
  /\ t.pc \notin Over /\ ~t.cancelled =>
       \/ streams'[page[d].id] = d
       \/ streams' = streams /\ task[d].pc \notin Over /\ ~task[d].cancelled
  /\ Ios /\ load = 1 /\ Whole(task[d], page[d].halfClosed) => Whole(t, page[d].halfClosed)

Still ==
  /\ UNCHANGED <<platform, load, nextId, page, streams, task, attached, toPage>>
  /\ toHost' = toHost \/ (toHost # <<>> /\ toHost' = Tail(toHost))
  /\ Threads'
  /\ \A e \in Call : bridge' = bridge \/ bridge # [at |-> "cancel", call |-> e]

Shut ==
  /\ ~attached' /\ UNCHANGED <<platform, load, nextId, page>>
  /\ toPage' = toPage \/ toPage' = <<>>
  /\ Handled
  /\ streams' = streams \/ streams' = [id \in Id |-> 0]
  /\ Threads' /\ Tasks'
  /\ \A c \in Call : /\ task'[c].pc = task[c].pc
                     /\ task'[c].made = task[c].made /\ task'[c].verdict = task[c].verdict
                     /\ Ios => \A h \in BOOLEAN : Whole(task[c], h) => Whole(task'[c], h)

(* A frame that is handled, or a job that begins or ends, touches one      *)
(* task.                                                                   *)
LEMMA TouchKeeps ==
  ASSUME HostInv, NEW d, NEW t, Touch(d, t)
  PROVE  HostInv'
<1>1. /\ Paged /\ PageTypeOK /\ Listed /\ Tasks /\ (Ios \/ Android)
      /\ task \in [Call -> Task(HostPc, HostState)] /\ page \in [Call -> PageCall]
  BY DEF HostInv, Paged, PageTypeOK, Tasks
<1>2. /\ d \in Call /\ task' = [task EXCEPT ![d] = t] /\ t.pc # "off" /\ page[d].id # 0
      /\ UNCHANGED <<platform, load, nextId, page, attached>>
      /\ (Ios => SwiftGood(t)) /\ (Android => KotlinGood(t)) /\ Threads'
  BY DEF Touch
<1>3. task'[d] = t /\ \A e \in Call : e # d => task'[e] = task[e]
  BY <1>1, <1>2
<1>4. page[d].id \in Id
  BY <1>1, <1>2 DEF PageCall
<1>5. Wakes
  BY <1>2, <1>3 DEF Touch, Wakes
<1>6. Handled
  BY DEF Touch, Handled
<1>7. Answered1
  <2>1. CASE toPage' = toPage
    BY <2>1 DEF Answered1
  <2>2. CASE toPage' # toPage
    <3>1. PICK f \in WireFrame : /\ f.streamId = page[d].id /\ f.body = "error"
                                 /\ toPage' = Append(toPage, Sent(d, f))
      BY <2>2 DEF Touch
    <3>2. Answers(d, f)
      BY <1>2, <1>3, <3>1 DEF Answers
    <3>3. QED
      BY <3>2 DEF Answered1
  <2>3. QED
    BY <2>1, <2>2
<1>8. Paged' /\ ToHost(toHost)' /\ ToPage(toPage)'
  BY <1>2, <1>5, <1>6, <1>7, HostSide
<1>9. Tasks'
  <2>1. t \in Task(HostPc, HostState)
    BY <1>1, <1>2, Wide DEF SwiftGood, KotlinGood
  <2>2. task' \in [Call -> Task(HostPc, HostState)]
    BY <1>1, <1>2, <2>1
  <2>3. Ios' = Ios /\ Android' = Android
    BY <1>2 DEF Ios, Android
  <2>4. ASSUME NEW e \in Call, Ios
        PROVE  SwiftGood(task[e])'
    <3>1. SwiftGood(task'[e])
      BY <1>1, <1>2, <1>3, <2>4 DEF Tasks
    <3>2. QED
      BY <3>1 DEF SwiftGood
  <2>5. ASSUME NEW e \in Call, Android
        PROVE  KotlinGood(task[e])'
    <3>1. KotlinGood(task'[e])
      BY <1>1, <1>2, <1>3, <2>5 DEF Tasks
    <3>2. QED
      BY <1>2, <3>1 DEF KotlinGood
  <2>6. QED
    BY <2>2, <2>3, <2>4, <2>5 DEF Tasks
<1>10. Listed'
  <2>1. streams \in [Id -> Call \cup {0}]
    BY <1>1 DEF Listed
  <2>2. /\ streams' \in [Id -> Call \cup {0}]
        /\ \A id \in Id : streams'[id] # 0 =>
             streams'[id] = streams[id] \/ (streams'[id] = d /\ page[d].id = id)
    <3>1. \/ streams' = streams
          \/ streams' = [streams EXCEPT ![page[d].id] = d]
          \/ streams' = [streams EXCEPT ![page[d].id] = 0]
      BY DEF Touch
    <3> DEFINE k == page[d].id
    <3>2. k \in Id /\ d \in Call \cup {0} /\ 0 \in Call \cup {0}
      BY <1>2, <1>4
    <3>3. ASSUME NEW e \in Call \cup {0}, streams' = [streams EXCEPT ![k] = e]
          PROVE  /\ streams' \in [Id -> Call \cup {0}] /\ streams'[k] = e
                 /\ \A id \in Id : id # k => streams'[id] = streams[id]
      <4> HIDE DEF k
      <4>1. QED
        BY <2>1, <3>2, <3>3
    <3>4. \/ streams' = streams
          \/ streams' = [streams EXCEPT ![k] = d]
          \/ streams' = [streams EXCEPT ![k] = 0]
      BY <3>1
    <3>5. page[d].id = k
      OBVIOUS
    <3> HIDE DEF k
    <3>6. CASE streams' = streams
      BY <2>1, <3>6
    <3>7. CASE streams' = [streams EXCEPT ![k] = d]
      BY <3>2, <3>3, <3>5, <3>7
    <3>8. CASE streams' = [streams EXCEPT ![k] = 0]
      BY <3>2, <3>3, <3>8
    <3>9. QED
      BY <3>4, <3>6, <3>7, <3>8
  <2>3. ASSUME NEW id \in Id, streams'[id] # 0
        PROVE  LET e == streams'[id] IN
               /\ page[e].id = id /\ task'[e].pc # "off"
               /\ attached => /\ task'[e].pc # "done" /\ ~task'[e].interrupted
                              /\ task'[e].cancelled => bridge' = [at |-> "cancel", call |-> e]
    <3> DEFINE e == streams'[id]
    <3>1. e \in Call /\ e # 0
      BY <2>2, <2>3
    <3>2. e = streams[id] \/ (e = d /\ page[d].id = id)
      BY <2>2, <2>3
    <3>3. e = d /\ attached => /\ t.pc # "done" /\ ~t.interrupted
                               /\ t.cancelled => bridge' = [at |-> "cancel", call |-> d]
      BY DEF Touch
    <3>4. e # d => bridge' = bridge \/ bridge # [at |-> "cancel", call |-> e]
      BY <3>1 DEF Touch
    <3> HIDE DEF e
    <3>5. e = streams[id] => /\ page[e].id = id /\ task[e].pc # "off"
                             /\ attached => /\ task[e].pc # "done" /\ ~task[e].interrupted
                                            /\ task[e].cancelled
                                                 => bridge = [at |-> "cancel", call |-> e]
      BY <1>1, <3>1 DEF Listed
    <3>6. CASE e = d
      <4>1. page[d].id = id
        BY <3>2, <3>5, <3>6
      <4>2. QED
        BY <1>2, <1>3, <3>3, <3>6, <4>1 DEF e
    <3>7. CASE e # d
      BY <1>3, <3>1, <3>2, <3>4, <3>5, <3>7 DEF e
    <3>8. QED
      BY <3>6, <3>7
  <2>4. QED
    BY <1>2, <2>2, <2>3 DEF Listed
<1>11. QED
  BY <1>2, <1>8, <1>9, <1>10 DEF HostInv

(* A step that touches no task keeps the invariant. *)
LEMMA StillKeeps ==
  ASSUME HostInv, Still
  PROVE  HostInv'
<1>1. /\ Wakes /\ Handled /\ Answered1
  BY DEF Still, Wakes, Handled, Answered1
<1>2. Paged' /\ ToHost(toHost)' /\ ToPage(toPage)'
  BY <1>1, HostSide DEF Still
<1>3. Listed'
  <2>1. Listed /\ UNCHANGED <<page, streams, task, attached>>
    BY DEF HostInv, Still
  <2>2. \A id \in Id : streams[id] # 0 =>
          (bridge = [at |-> "cancel", call |-> streams[id]] => bridge' = bridge)
    BY <2>1 DEF Still, Listed
  <2>3. QED
    BY <2>1, <2>2 DEF Listed
<1>4. Tasks' /\ Threads'
  BY DEF HostInv, Tasks, Still, Ios, Android, KotlinGood
<1>5. QED
  BY <1>2, <1>3, <1>4 DEF HostInv

(* And so does the end of the host, which touches all of them. *)
LEMMA ShutKeeps ==
  ASSUME HostInv, Shut
  PROVE  HostInv'
<1>1. Wakes /\ Handled /\ Answered1
  BY DEF Shut, Wakes, Answered1
<1>2. Paged' /\ ToHost(toHost)' /\ ToPage(toPage)'
  BY <1>1, HostSide DEF Shut
<1>3. Listed'
  <2>1. Listed /\ page' = page /\ ~attached'
    BY DEF HostInv, Shut
  <2>2. \A c \in Call : task'[c].pc = task[c].pc
    BY DEF Shut
  <2>3. CASE streams' = streams
    BY <2>1, <2>2, <2>3 DEF Listed
  <2>4. CASE streams' = [id \in Id |-> 0]
    BY <2>1, <2>4 DEF Listed
  <2>5. QED
    BY <2>3, <2>4 DEF Shut
<1>4. QED
  BY <1>2, <1>3 DEF HostInv, Shut

(***************************************************************************)
(* The frames that a host handles.                                         *)
(***************************************************************************)

(* Within one load no two calls have the same id. *)
LEMMA OwnIds ==
  ASSUME Paged, load = 1, NEW c \in Call, NEW d \in Call, page[c].id = page[d].id, page[c].id # 0
  PROVE  c = d
<1>1. c \in Nat /\ d \in Nat
  BY PageAssumption DEF Call
<1>2. page[c].id = 2 * c - 1 /\ page[d].id = 2 * d - 1
  BY DEF Paged
<1>3. 2 * c - 1 = 2 * d - 1
  BY <1>2
<1>4. QED
  BY <1>1, <1>3

(* The next frame, and the stream it is for. *)
LEMMA Heads ==
  ASSUME HostInv, toHost # <<>>
  PROVE  /\ From \in Call /\ page[From].id = Frame1.streamId /\ Frame1.streamId \in Id
         /\ Frame1.streamId # 0 /\ Frame1.arg \in Nat
         /\ Frame1.body = "open" => /\ Frame1.arg \in Method \cup {NO_SUCH_METHOD}
                                    /\ task[From].pc = "off"
         /\ Frame1.body = "halfClose" => page[From].halfClosed
         /\ Target # 0 =>
              /\ Target \in Call /\ page[Target].id = Frame1.streamId /\ task[Target].pc # "off"
              /\ attached => /\ task[Target].pc # "done" /\ ~task[Target].interrupted
                             /\ task[Target].cancelled
                                  => bridge = [at |-> "cancel", call |-> Target]
              /\ load = 1 => Target = From
<1>1. Paged /\ toHost \in Seq(OnWire) /\ ToHost(toHost) /\ Listed
  BY DEF HostInv, Paged, PageTypeOK
<1>2. 1 \in 1..Len(toHost)
  BY <1>1
<1>3. From \in Call /\ Frame1 \in WireFrame /\ Frame1.streamId \in Id /\ Frame1.streamId # 0
  BY <1>1, <1>2, OnTheWay DEF From, Frame1
<1>4. /\ page[From].id = Frame1.streamId
      /\ Frame1.body = "open" => /\ Frame1.arg \in Method \cup {NO_SUCH_METHOD}
                                 /\ task[From].pc = "off"
      /\ Frame1.body = "halfClose" => page[From].halfClosed
  BY <1>1, <1>2 DEF ToHost, From, Frame1
<1>5. Frame1.arg \in Nat
  BY <1>3 DEF WireFrame
<1>6. ASSUME Target # 0
      PROVE  /\ Target \in Call /\ page[Target].id = Frame1.streamId /\ task[Target].pc # "off"
             /\ attached => /\ task[Target].pc # "done" /\ ~task[Target].interrupted
                            /\ task[Target].cancelled => bridge = [at |-> "cancel", call |-> Target]
  BY <1>1, <1>3, <1>6 DEF Listed, Target
<1>7. ASSUME Target # 0, load = 1
      PROVE  Target = From
  BY <1>1, <1>3, <1>4, <1>6, <1>7, OwnIds
<1>8. QED
  BY <1>3, <1>4, <1>5, <1>6, <1>7

(* The threads stand where they stood. *)
LEMMA ThreadsStand ==
  ASSUME HostInv, UNCHANGED <<platform, attached, androidVars>>, NEW d \in Call, NEW t,
         task' = [task EXCEPT ![d] = t], t.pc # "off", task[d].pc = "listed" => t.pc = "listed",
         task[d].cancelled => t.cancelled
  PROVE  Threads'
<1>1. Threads /\ task \in [Call -> Task(HostPc, HostState)]
  BY DEF HostInv, Tasks
<1>2. UNCHANGED <<bridge, hasJob, activity, sweep>>
  BY DEF androidVars
<1>3. \A e \in Call : /\ task[e].pc # "off" => task'[e].pc # "off"
                      /\ task[e].pc = "listed" => task'[e].pc = "listed"
                      /\ task[e].cancelled => task'[e].cancelled
  BY <1>1
<1>4. bridge.call # 0 => bridge.call \in Call
  BY <1>1 DEF Threads
<1>5. bridge.at \in {"launch", "cancel"} => bridge.call \in Call
  BY <1>1 DEF Threads
<1>6. QED
  BY <1>1, <1>2, <1>3, <1>4, <1>5 DEF Threads, Android

(***************************************************************************)
(* On iOS.                                                                 *)
(***************************************************************************)

(* What a frame makes of a stream that has not been cancelled.             *)
HalfClosed(u)    == [u EXCEPT !.finished = TRUE, !.state = "halfClosedRemote"]
Opened(p, m, s)  == [NoTask EXCEPT !.pc = p, !.method = m, !.state = s]
Refused(u, code) == [u EXCEPT !.verdict = code, !.pc = "done"]
SameTask(u, t)   == t.pc = u.pc /\ t.made = u.made /\ t.verdict = u.verdict

(* What handleMessage, handleHalfClose and handleCancel make of a task on  *)
(* iOS.                                                                    *)
LEMMA SwiftMarks ==
  ASSUME NEW u, SwiftGood(u), u.pc # "off", ~u.cancelled
  PROVE  /\ \A r \in Call \X Nat :
              LET t == Swift!PushMessage(u, r) IN
              /\ SwiftGood(t) /\ SameTask(u, t) /\ ~t.cancelled
              /\ \A h \in BOOLEAN : Whole(u, h) => Whole(t, h)
         /\ LET t == HalfClosed(u) IN
            /\ SwiftGood(t) /\ SameTask(u, t) /\ ~t.cancelled
            /\ Whole(u, TRUE) => Whole(t, TRUE)
         /\ LET t == Swift!CancelTask(u) IN
            /\ SwiftGood(t) /\ SameTask(u, t) /\ t.cancelled
            /\ \A h \in BOOLEAN : Whole(u, h) => Whole(t, h)
<1>1. u \in Task(Swift!SwiftPc, Swift!SwiftState)
  BY DEF SwiftGood
<1>2. ASSUME NEW r \in Call \X Nat
      PROVE  LET t == Swift!PushMessage(u, r) IN
             /\ SwiftGood(t) /\ SameTask(u, t) /\ ~t.cancelled
             /\ \A h \in BOOLEAN : Whole(u, h) => Whole(t, h)
  <2> DEFINE q == Append(u.queue, r)  t == [u EXCEPT !.queue = q]
  <2>1. q \in Seq(Call \X Nat)
    BY <1>1 DEF Task
  <2> HIDE DEF q
  <2>2. /\ t \in Task(Swift!SwiftPc, Swift!SwiftState) /\ t.pc = u.pc /\ t.made = u.made
        /\ t.verdict = u.verdict /\ t.state = u.state /\ t.interrupted = u.interrupted
        /\ t.cancelled = u.cancelled /\ t.late = u.late /\ t.finished = u.finished
        /\ t.ended = u.ended
    BY <1>1, <2>1 DEF Task
  <2>3. Swift!PushMessage(u, r) = IF u.finished THEN u ELSE t
    BY DEF Swift!PushMessage, q
  <2> HIDE DEF t
  <2>4. SwiftGood(t) /\ SameTask(u, t) /\ ~t.cancelled
        /\ \A h \in BOOLEAN : Whole(u, h) => Whole(t, h)
    BY <2>2 DEF SwiftGood, SameTask, Whole
  <2>5. QED
    BY <2>3, <2>4 DEF SameTask
<1>3. LET t == HalfClosed(u) IN
      /\ SwiftGood(t) /\ SameTask(u, t) /\ ~t.cancelled
      /\ Whole(u, TRUE) => Whole(t, TRUE)
  <2> DEFINE t == [u EXCEPT !.finished = TRUE, !.state = "halfClosedRemote"]
  <2>1. /\ t \in Task(Swift!SwiftPc, Swift!SwiftState) /\ t.pc = u.pc /\ t.made = u.made
        /\ t.verdict = u.verdict /\ t.state # "cancelled" /\ t.interrupted = u.interrupted
        /\ t.cancelled = u.cancelled /\ t.late = u.late
        /\ t.ended = u.ended
    BY <1>1 DEF Task, Swift!SwiftState
  <2> HIDE DEF t
  <2>2. SwiftGood(t) /\ SameTask(u, t) /\ ~t.cancelled /\ (Whole(u, TRUE) => Whole(t, TRUE))
    BY <2>1 DEF SwiftGood, SameTask, Whole
  <2>3. QED
    BY <2>2 DEF HalfClosed, t
<1>4. LET t == Swift!CancelTask(u) IN
      /\ SwiftGood(t) /\ SameTask(u, t) /\ t.cancelled
      /\ \A h \in BOOLEAN : Whole(u, h) => Whole(t, h)
  <2> DEFINE t == [u EXCEPT !.finished = TRUE, !.state = "cancelled", !.cancelled = TRUE,
                            !.interrupted = TRUE]
  <2>1. /\ t \in Task(Swift!SwiftPc, Swift!SwiftState) /\ t.pc = u.pc /\ t.made = u.made
        /\ t.verdict = u.verdict /\ t.state = "cancelled" /\ t.interrupted
        /\ t.cancelled /\ t.late = u.late /\ t.ended = u.ended
    BY <1>1 DEF Task, Swift!SwiftState
  <2> HIDE DEF t
  <2>2. u.late = 0
    BY DEF SwiftGood
  <2>3. SwiftGood(t) /\ SameTask(u, t) /\ t.cancelled
        /\ \A h \in BOOLEAN : Whole(u, h) => Whole(t, h)
    BY <2>1, <2>2 DEF SwiftGood, SameTask, Whole
  <2>4. QED
    BY <2>3 DEF Swift!CancelTask, t
<1>5. QED
  BY <1>2, <1>3, <1>4

(* And what an OPEN makes of the call it is for. *)
Anew(t, p, m, s) ==
  /\ t \in Task(HostPc, HostState) /\ t.pc = p /\ t.method = m /\ t.state = s
  /\ t.interrupted = FALSE /\ t.cancelled = FALSE /\ t.finished = FALSE /\ t.ended = FALSE
  /\ t.made = 0 /\ t.verdict = Untold /\ t.late = 0

(* A task that has just been opened. *)
LEMMA StartsAnew ==
  ASSUME NEW p, NEW m, NEW s, p \in HostPc, m \in Method \cup {NO_SUCH_METHOD}, s \in HostState
  PROVE  Anew(Opened(p, m, s), p, m, s)
<1>1. NoTask \in Task(HostPc \cup {"off"}, HostState \cup {"idle"})
  BY DEF NoTask, Task, Method, Verdict, UNREGISTERED
<1>2. HostPc \cup {"off"} = HostPc /\ HostState \cup {"idle"} = HostState
  BY DEF HostPc, HostState, Swift!SwiftPc, Swift!SwiftState, Kotlin!KotlinPc, Kotlin!KotlinState
<1>3. NoTask \in Task(HostPc, HostState)
  BY <1>1, <1>2
<1>4. QED
  BY <1>3 DEF Opened, NoTask, Task, Anew

(* A call that is refused has a task that never began. *)
LEMMA Refuses ==
  ASSUME NEW v \in RpcStatusCode, NEW P, NEW S, NoTask \in Task(P, S), "done" \in P
  PROVE  LET t == Refused(NoTask, v) IN
         /\ t \in Task(P, S) /\ t.pc = "done" /\ t.state = "idle"
         /\ t.interrupted = FALSE /\ t.cancelled = FALSE /\ t.finished = FALSE /\ t.ended = FALSE
         /\ t.made = 0 /\ t.verdict = v /\ t.late = 0
BY DEF Refused, NoTask, Task, Verdict

(* A frame is handled and its stream touched. *)
SwiftHandled ==
  /\ toHost # <<>> /\ toHost' = Tail(toHost)
  /\ UNCHANGED <<platform, load, nextId, page, attached, androidVars>>

(* A frame that finds its stream on iOS touches the task of that stream. *)
LEMMA SwiftTouches ==
  ASSUME HostInv, Ios, attached, SwiftHandled, toPage' = toPage, Target # 0, NEW t,
         task' = [task EXCEPT ![Target] = t], SwiftGood(t), SameTask(task[Target], t),
         load = 1 /\ Whole(task[Target], page[From].halfClosed) => Whole(t, page[From].halfClosed),
         \/ streams' = streams /\ ~t.cancelled
         \/ streams' = [streams EXCEPT ![Frame1.streamId] = 0] /\ t.cancelled
  PROVE  Touch(Target, t)
<1> DEFINE d == Target  u == task[d]
<1>1. /\ d \in Call /\ page[d].id = Frame1.streamId /\ u.pc \notin {"off", "done"}
      /\ Frame1.streamId \in Id /\ Frame1.streamId # 0 /\ ~u.interrupted /\ (load = 1 => d = From)
  BY Heads DEF SwiftHandled
<1>2. SwiftGood(u) /\ ~u.cancelled /\ u.pc # "listed"
  BY <1>1 DEF HostInv, Tasks, SwiftGood, Task, Swift!SwiftPc
<1>3. ~Android
  BY DEF Ios, Android
<1>4. t.pc = u.pc /\ t.made = u.made /\ t.verdict = u.verdict
  BY DEF SameTask
<1>5. streams \in [Id -> Call \cup {0}]
  BY DEF HostInv, Listed
<1> HIDE DEF d, u
<1>6. d = Target /\ u = task[d]
  BY DEF d, u
<1>7. Threads'
  BY <1>1, <1>2, <1>4, <1>6, ThreadsStand DEF SwiftHandled
<1>8. \A id \in Id : streams'[id] = d => ~t.cancelled /\ ~t.interrupted /\ t.pc # "done"
  <2>1. CASE streams' = streams /\ ~t.cancelled
    BY <1>1, <1>4, <2>1 DEF SwiftGood
  <2>2. CASE streams' = [streams EXCEPT ![Frame1.streamId] = 0] /\ t.cancelled
    <3>1. ASSUME NEW id \in Id, streams'[id] = d
          PROVE  FALSE
      <4>1. streams'[Frame1.streamId] = 0 /\ (id # Frame1.streamId => streams'[id] = streams[id])
        BY <1>1, <1>5, <2>2
      <4>2. d # 0
        BY <1>6
      <4>3. streams[id] = d /\ id # Frame1.streamId
        BY <3>1, <4>1, <4>2
      <4>4. page[d].id = id
        BY <4>2, <4>3 DEF HostInv, Listed
      <4>5. QED
        BY <1>1, <4>3, <4>4
    <3>2. QED
      BY <3>1
  <2>3. QED
    BY <2>1, <2>2
<1>9. ~t.cancelled => streams' = streams
  OBVIOUS
<1>10. androidVars' = androidVars => bridge' = bridge
  BY DEF androidVars
<1>11. Ios /\ load = 1 /\ Whole(u, page[d].halfClosed) => Whole(t, page[d].halfClosed)
  BY <1>1, <1>6
<1>12. streams' = streams \/ (streams' = [streams EXCEPT ![page[d].id] = 0] /\ t.cancelled)
  BY <1>1
<1>13. UNCHANGED <<platform, load, nextId, page, attached>> /\ bridge' = bridge
       /\ toHost # <<>> /\ toHost' = Tail(toHost)
  BY <1>10 DEF SwiftHandled
<1>14. QED
  BY <1>1, <1>2, <1>3, <1>4, <1>6, <1>7, <1>8, <1>9, <1>11, <1>12, <1>13 DEF Touch, Over

(* An OPEN that is refused. *)
LEMMA RefusalTouches ==
  ASSUME HostInv, toHost # <<>>, toHost' = Tail(toHost), Frame1.body = "open",
         NEW v \in RpcStatusCode,
         UNCHANGED <<platform, load, nextId, page, attached, androidVars>>,
         task' = [task EXCEPT ![From] = Refused(@, v)],
         toPage' = IF attached THEN Append(toPage, Sent(From, ErrorFrame(Frame1.streamId, v)))
                               ELSE toPage,
         streams' = streams \/ streams' = [streams EXCEPT ![Frame1.streamId] = 0]
  PROVE  \E t : Touch(From, t)
<1> DEFINE d == From  t == Refused(NoTask, v)
<1>1. /\ d \in Call /\ page[d].id = Frame1.streamId /\ task[d].pc = "off"
      /\ Frame1.streamId \in Id /\ Frame1.streamId # 0
  BY Heads
<1>2. task[d] = NoTask /\ task \in [Call -> Task(HostPc, HostState)] /\ (Ios \/ Android)
  BY <1>1 DEF HostInv, Tasks, SwiftGood, KotlinGood, Paged, PageTypeOK
<1>3. task' = [task EXCEPT ![d] = t]
  <2>1. Refused(task[d], v) = t
    BY <1>2
  <2>2. QED
    BY <2>1
<1>4. \A P, S : NoTask \in Task(P, S) /\ "done" \in P =>
        /\ t \in Task(P, S) /\ t.pc = "done" /\ t.state = "idle"
        /\ t.interrupted = FALSE /\ t.cancelled = FALSE /\ t.finished = FALSE /\ t.ended = FALSE
        /\ t.made = 0 /\ t.verdict = v /\ t.late = 0
  BY Refuses
<1> HIDE DEF d, t
<1>5. /\ NoTask \in Task(Swift!SwiftPc, Swift!SwiftState) /\ "done" \in Swift!SwiftPc
      /\ NoTask \in Task(Kotlin!KotlinPc, Kotlin!KotlinState) /\ "done" \in Kotlin!KotlinPc
  BY DEF NoTask, Task, Method, Verdict, UNREGISTERED, Swift!SwiftPc, Swift!SwiftState,
     Kotlin!KotlinPc, Kotlin!KotlinState
<1>6. /\ t \in Task(Swift!SwiftPc, Swift!SwiftState)
      /\ t \in Task(Kotlin!KotlinPc, Kotlin!KotlinState)
      /\ t.pc = "done" /\ t.state = "idle"
      /\ t.interrupted = FALSE /\ t.cancelled = FALSE /\ t.finished = FALSE /\ t.ended = FALSE
      /\ t.made = 0 /\ t.verdict = v /\ t.late = 0
  BY <1>4, <1>5
<1>7. SwiftGood(t) /\ KotlinGood(t)
  <2>1. SwiftGood(t)
    <3>1. t.interrupted = t.cancelled /\ ~t.cancelled
      BY <1>6, Zenon
    <3>2. QED
      BY <1>6, <3>1 DEF SwiftGood
  <2>2. KotlinGood(t)
    BY <1>6 DEF KotlinGood
  <2>3. QED
    BY <2>1, <2>2
<1>8. NoTask.made = 0 /\ NoTask.verdict = Untold /\ NoTask.cancelled = FALSE /\ NoTask.pc = "off"
  BY DEF NoTask
<1>9. v \notin {Untold, Closed}
  BY DEF RpcStatusCode, Untold, Closed, INTERNAL, CANCELLED, INVALID_ARGUMENT, DEADLINE_EXCEEDED,
     UNIMPLEMENTED
<1>10. Threads'
  BY <1>1, <1>2, <1>3, <1>6, <1>8, ThreadsStand
<1>11. \A id \in Id : streams'[id] # d
  <2>1. streams \in [Id -> Call \cup {0}] /\ d # 0 /\ \A id \in Id : streams[id] # d
    <3>1. d # 0
      BY <1>1, PageAssumption DEF Call
    <3>2. QED
      BY <1>1, <3>1 DEF HostInv, Listed
  <2>2. QED
    BY <1>1, <2>1
<1>12. \A h \in BOOLEAN : Whole(t, h)
  BY <1>6, <1>9 DEF Whole
<1>13. page[d].halfClosed \in BOOLEAN
  <2>1. page[d] \in PageCall
    BY <1>1 DEF HostInv, Paged, PageTypeOK
  <2>2. QED
    BY <2>1 DEF PageCall
<1>14. \E f \in WireFrame :
         /\ f.streamId = page[d].id /\ f.body = "error"
         /\ toPage' = IF attached THEN Append(toPage, Sent(d, f)) ELSE toPage
  <2> DEFINE f == ErrorFrame(Frame1.streamId, v)
  <2>1. v \in Nat
    BY DEF RpcStatusCode, INTERNAL, CANCELLED, INVALID_ARGUMENT, DEADLINE_EXCEEDED, UNIMPLEMENTED
  <2>2. f \in WireFrame /\ f.streamId = page[d].id /\ f.body = "error"
    BY <1>1, <2>1 DEF ErrorFrame, WireFrame, Body
  <2>3. toPage' = IF attached THEN Append(toPage, Sent(d, f)) ELSE toPage
    BY DEF d
  <2> HIDE DEF f
  <2>4. QED
    BY <2>2, <2>3
<1>15. streams' = streams \/ streams' = [streams EXCEPT ![page[d].id] = 0]
  BY <1>1
<1>16. bridge' = bridge
  BY DEF androidVars
<1>17. Touch(d, t)
  <2>1. d = From
    BY DEF d
  <2>2. /\ d \in Call /\ task' = [task EXCEPT ![d] = t] /\ t.pc # "off"
        /\ UNCHANGED <<platform, load, nextId, page, attached>>
        /\ (Ios => SwiftGood(t)) /\ (Android => KotlinGood(t)) /\ Threads'
        /\ t.made = task[d].made /\ page[d].id # 0
    BY <1>1, <1>2, <1>3, <1>6, <1>7, <1>8, <1>10
  <2>3. /\ task[d].pc = "off" /\ t.verdict \notin {Untold, Closed}
        /\ toHost # <<>> /\ toHost' = Tail(toHost) /\ d = toHost[1].call
    BY <1>1, <1>6, <1>9, <2>1 DEF From
  <2>4. /\ attached => \A id \in Id : streams'[id] = d =>
            /\ t.pc # "done" /\ ~t.interrupted
            /\ t.cancelled => bridge' = [at |-> "cancel", call |-> d]
        /\ t.pc \in Over
        /\ Ios /\ load = 1 /\ Whole(task[d], page[d].halfClosed) => Whole(t, page[d].halfClosed)
        /\ \A e \in Call : e # d => bridge' = bridge \/ bridge # [at |-> "cancel", call |-> e]
    BY <1>6, <1>11, <1>12, <1>13, <1>16 DEF Over
  <2>5. QED
    BY <1>6, <1>14, <1>15, <2>2, <2>3, <2>4 DEF Touch
<1>18. QED
  BY <1>17 DEF d

(* An OPEN that is accepted on iOS. *)
LEMMA SwiftOpenTouches ==
  ASSUME HostInv, Ios, toHost # <<>>, toHost' = Tail(toHost),
         Frame1.body = "open", toPage' = toPage,
         UNCHANGED <<platform, load, nextId, page, attached, androidVars>>,
         Frame1.arg \notin {MALFORMED, UNREGISTERED},
         streams' = [streams EXCEPT ![Frame1.streamId] = From],
         task' = [task EXCEPT ![From] = Opened(Swift!DispatchTo(Frame1.arg), Frame1.arg, "open")]
  PROVE  \E t : Touch(From, t)
<1> DEFINE d == From  m == Frame1.arg  p == Swift!DispatchTo(m)  t == Opened(p, m, "open")
<1>1. /\ d \in Call /\ page[d].id = Frame1.streamId /\ task[d].pc = "off"
      /\ Frame1.streamId \in Id /\ Frame1.streamId # 0 /\ m \in Method \cup {NO_SUCH_METHOD}
  BY Heads
<1>2. task[d] = NoTask
  BY <1>1 DEF HostInv, Tasks, SwiftGood
<1>3. ~Android
  BY DEF Ios, Android
<1>4. m \in MethodType \cup {NO_SUCH_METHOD} /\ p \in {"first", "run", "items", "failed"}
  <2>1. m \in {UNARY, SERVER_STREAMING, CLIENT_STREAMING, BIDI_STREAMING, NO_SUCH_METHOD}
    BY <1>1 DEF Method, MethodType, UNARY, SERVER_STREAMING, CLIENT_STREAMING, BIDI_STREAMING
  <2>2. m \in MethodType \cup {NO_SUCH_METHOD}
    BY <2>1 DEF MethodType, UNARY, SERVER_STREAMING, CLIENT_STREAMING, BIDI_STREAMING
  <2>3. p \in {"first", "run", "items", "failed"}
    BY <2>1 DEF Swift!DispatchTo, Swift!UNARY, Swift!SERVER_STREAMING, Swift!CLIENT_STREAMING,
       Swift!BIDI_STREAMING, Swift!NO_SUCH_METHOD, UNARY, SERVER_STREAMING, CLIENT_STREAMING,
       BIDI_STREAMING, NO_SUCH_METHOD
  <2>4. QED
    BY <2>2, <2>3
<1> HIDE DEF d, m, p
<1>5. /\ t \in Task(HostPc, HostState) /\ t.pc = p /\ t.method = m /\ t.state = "open"
      /\ t.interrupted = FALSE /\ t.cancelled = FALSE /\ t.finished = FALSE /\ t.ended = FALSE
      /\ t.made = 0 /\ t.verdict = Untold /\ t.late = 0
  <2>1. p \in HostPc \ {"off"} /\ "open" \in HostState /\ m \in Method \cup {NO_SUCH_METHOD}
    BY <1>1, <1>4 DEF HostPc, HostState, Swift!SwiftPc, Swift!SwiftState
  <2>2. Anew(Opened(p, m, "open"), p, m, "open")
    BY <2>1, StartsAnew
  <2>3. QED
    BY <2>2 DEF Anew
<1> HIDE DEF t
<1>6. t \in Task(Swift!SwiftPc, Swift!SwiftState)
  <2>1. p \in Swift!SwiftPc /\ "open" \in Swift!SwiftState
    BY <1>4 DEF Swift!SwiftPc, Swift!SwiftState
  <2>2. QED
    BY <1>5, <2>1, Narrow
<1>7. SwiftGood(t)
  <2>1. t.interrupted = t.cancelled /\ ~t.cancelled
    BY <1>5, Zenon
  <2>2. QED
    BY <1>4, <1>5, <1>6, <2>1 DEF SwiftGood
<1>8. NoTask.made = 0 /\ NoTask.verdict = Untold /\ NoTask.cancelled = FALSE /\ NoTask.pc = "off"
  BY DEF NoTask
<1>9. task' = [task EXCEPT ![d] = t] /\ d = From
  BY DEF d, m, p, t
<1>10. t.pc \notin {"off", "listed", "done"}
  BY <1>4, <1>5
<1>11. Threads'
  BY <1>1, <1>2, <1>8, <1>9, <1>10, ThreadsStand
<1>12. streams' = [streams EXCEPT ![page[d].id] = d] /\ streams \in [Id -> Call \cup {0}]
  BY <1>1, <1>9 DEF HostInv, Listed
<1>13. streams'[page[d].id] = d
  BY <1>1, <1>12
<1>14. \A h \in BOOLEAN : Whole(t, h)
  BY <1>4, <1>5 DEF Whole, Untold, Closed
<1>15. page[d].halfClosed \in BOOLEAN
  <2>1. page[d] \in PageCall
    BY <1>1 DEF HostInv, Paged, PageTypeOK
  <2>2. QED
    BY <2>1 DEF PageCall
<1>16. bridge' = bridge
  BY DEF androidVars
<1>17. /\ toPage' = toPage /\ t.verdict = task[d].verdict /\ t.made = task[d].made /\ page[d].id # 0
       /\ toHost # <<>> /\ toHost' = Tail(toHost) /\ d = toHost[1].call
       /\ ~t.interrupted /\ ~t.cancelled
  BY <1>1, <1>2, <1>5, <1>8, <1>9 DEF From
<1>18. Touch(d, t)
  BY <1>1, <1>3, <1>7, <1>9, <1>10, <1>11, <1>12, <1>13, <1>14, <1>15, <1>16, <1>17 DEF Touch
<1>19. QED
  BY <1>9, <1>18

(* What the main actor of an iOS host does with a frame. *)
LEMMA SwiftHandles ==
  ASSUME HostInv, Swift!HandleFrame, UNCHANGED androidVars
  PROVE  Still \/ \E d, t : Touch(d, t)
<1>1. Ios /\ attached
  BY DEF Swift!HandleFrame, Swift!Ios, Ios
<1>2. UNCHANGED <<bridge, hasJob, activity, sweep>> /\ androidVars' = androidVars
  BY DEF androidVars
<1>3. toHost # <<>> /\ toHost' = Tail(toHost)
      /\ UNCHANGED <<platform, load, nextId, page, attached>>
  BY DEF Swift!HandleFrame, Swift!handleOpen, Swift!handleMessage, Swift!handleHalfClose,
     Swift!handleCancel, Swift!handleUnknown, Swift!Arrived, Swift!Received, Swift!Receipt,
     Swift!Refuse, Swift!hostVars
<1>4. SwiftHandled
  BY <1>2, <1>3 DEF SwiftHandled
<1>5. ASSUME toPage' = toPage, UNCHANGED <<streams, task>>
      PROVE  Still
  <2>1. Threads'
    BY <1>2, <1>3, <1>5 DEF HostInv, Threads, Android
  <2>2. QED
    BY <1>2, <1>3, <1>5, <2>1 DEF Still
<1>6. Swift!Target = Target /\ Swift!Frame1 = Frame1 /\ Swift!From = From
  BY DEF Swift!Target, Target, Swift!Frame1, Frame1, Swift!From, From
<1>7. /\ From \in Call /\ page[From].id = Frame1.streamId /\ Frame1.streamId \in Id
         /\ Frame1.arg \in Nat
      /\ Frame1.body = "halfClose" => page[From].halfClosed
      /\ Target # 0 => /\ Target \in Call /\ task[Target].pc # "off"
                       /\ ~task[Target].interrupted
      /\ page[From].halfClosed \in BOOLEAN
  <2>1. From \in Call
    BY <1>3, Heads
  <2>2. page[From] \in PageCall
    BY <2>1 DEF HostInv, Paged, PageTypeOK
  <2>3. QED
    BY <1>1, <1>3, <2>2, Heads DEF PageCall
<1>8. ASSUME Target # 0
      PROVE  /\ SwiftGood(task[Target]) /\ task[Target].pc # "off" /\ ~task[Target].cancelled
  BY <1>1, <1>7, <1>8 DEF HostInv, Tasks, SwiftGood
<1>9. CASE Swift!handleMessage
  <2>1. /\ toPage' = toPage /\ UNCHANGED streams
        /\ IF Target = 0 THEN UNCHANGED task
           ELSE task' = [task EXCEPT ![Target] = Swift!PushMessage(task[Target],
                                                              <<From, Frame1.arg>>)]
    BY <1>6, <1>9 DEF Swift!handleMessage, Swift!Received, Swift!Update
  <2>2. CASE Target = 0
    BY <1>5, <2>1, <2>2
  <2>3. CASE Target # 0
    <3> DEFINE t == Swift!PushMessage(task[Target], <<From, Frame1.arg>>)
    <3>1. <<From, Frame1.arg>> \in Call \X Nat
      BY <1>7
    <3>2. /\ SwiftGood(t) /\ SameTask(task[Target], t) /\ ~t.cancelled
          /\ \A h \in BOOLEAN : Whole(task[Target], h) => Whole(t, h)
      BY <1>8, <2>3, <3>1, SwiftMarks
    <3>3. task' = [task EXCEPT ![Target] = t]
      BY <2>1, <2>3
    <3> HIDE DEF t
    <3>4. Touch(Target, t)
      BY <1>1, <1>4, <1>7, <2>1, <2>3, <3>2, <3>3, SwiftTouches
    <3>5. QED
      BY <3>4
  <2>4. QED
    BY <2>2, <2>3
<1>10. CASE Swift!handleHalfClose
  <2>1. /\ toPage' = toPage /\ UNCHANGED streams /\ Frame1.body = "halfClose"
        /\ IF Target = 0 THEN UNCHANGED task
           ELSE task' = [task EXCEPT ![Target] = HalfClosed(task[Target])]
    BY <1>6, <1>10 DEF Swift!handleHalfClose, Swift!Received, Swift!Update, Swift!Arrived,
       HalfClosed, Frame1
  <2>2. CASE Target = 0
    BY <1>5, <2>1, <2>2
  <2>3. CASE Target # 0
    <3> DEFINE t == HalfClosed(task[Target])
    <3>1. /\ SwiftGood(t) /\ SameTask(task[Target], t) /\ ~t.cancelled
          /\ Whole(task[Target], TRUE) => Whole(t, TRUE)
      BY <1>8, <2>3, SwiftMarks
    <3>2. task' = [task EXCEPT ![Target] = t]
      BY <2>1, <2>3
    <3>3. page[From].halfClosed = TRUE
      BY <1>7, <2>1
    <3> HIDE DEF t
    <3>4. Touch(Target, t)
      BY <1>1, <1>4, <2>1, <2>3, <3>1, <3>2, <3>3, SwiftTouches
    <3>5. QED
      BY <3>4
  <2>4. QED
    BY <2>2, <2>3
<1>11. CASE Swift!handleCancel
  <2>1. /\ toPage' = toPage
        /\ IF Target = 0 THEN UNCHANGED <<task, streams>>
           ELSE /\ task' = [task EXCEPT ![Target] = Swift!CancelTask(task[Target])]
                /\ streams' = [streams EXCEPT ![Frame1.streamId] = 0]
    BY <1>6, <1>11 DEF Swift!handleCancel, Swift!Received, Swift!Update, Swift!Unlist
  <2>2. CASE Target = 0
    BY <1>5, <2>1, <2>2
  <2>3. CASE Target # 0
    <3> DEFINE t == Swift!CancelTask(task[Target])
    <3>1. /\ SwiftGood(t) /\ SameTask(task[Target], t) /\ t.cancelled
          /\ \A h \in BOOLEAN : Whole(task[Target], h) => Whole(t, h)
      BY <1>8, <2>3, SwiftMarks
    <3>2. task' = [task EXCEPT ![Target] = t] /\ streams' = [streams EXCEPT ![Frame1.streamId] = 0]
      BY <2>1, <2>3
    <3> HIDE DEF t
    <3>3. Touch(Target, t)
      BY <1>1, <1>4, <1>7, <2>1, <2>3, <3>1, <3>2, SwiftTouches
    <3>4. QED
      BY <3>3
  <2>4. QED
    BY <2>2, <2>3
<1>12. CASE Swift!handleUnknown
  <2>1. toPage' = toPage /\ UNCHANGED <<streams, task>>
    BY <1>12 DEF Swift!handleUnknown, Swift!Received, Swift!hostVars
  <2>2. QED
    BY <1>5, <2>1
<1>13. CASE Swift!handleOpen
  <2>1. Frame1.body = "open"
    BY <1>13 DEF Swift!handleOpen, Swift!Arrived, Frame1
  <2>2. CASE \E v \in RpcStatusCode : Swift!Refuse(v) /\ UNCHANGED streams
    <3>1. PICK v \in RpcStatusCode : Swift!Refuse(v) /\ UNCHANGED streams
      BY <2>2
    <3>2. /\ task' = [task EXCEPT ![From] = Refused(@, v)]
          /\ toPage' = IF attached THEN Append(toPage, Sent(From, ErrorFrame(Frame1.streamId, v)))
                                   ELSE toPage
      BY <1>6, <3>1 DEF Swift!Refuse, Refused, Swift!Sent, Sent, Swift!ErrorFrame, ErrorFrame
    <3>3. \E t : Touch(From, t)
      BY <1>2, <1>3, <2>1, <3>1, <3>2, RefusalTouches
    <3>4. QED
      BY <3>3
  <2>3. CASE ~\E v \in RpcStatusCode : Swift!Refuse(v) /\ UNCHANGED streams
    <3>1. INVALID_ARGUMENT \in RpcStatusCode /\ UNIMPLEMENTED \in RpcStatusCode
          /\ INTERNAL \in RpcStatusCode
      BY DEF RpcStatusCode
    <3>2. /\ Swift!INVALID_ARGUMENT = INVALID_ARGUMENT /\ Swift!UNIMPLEMENTED = UNIMPLEMENTED
          /\ Swift!INTERNAL = INTERNAL /\ Swift!MALFORMED = MALFORMED
          /\ Swift!UNREGISTERED = UNREGISTERED
      BY DEF Swift!INVALID_ARGUMENT, INVALID_ARGUMENT, Swift!UNIMPLEMENTED, UNIMPLEMENTED,
         Swift!INTERNAL, INTERNAL, Swift!MALFORMED, MALFORMED, Swift!UNREGISTERED, UNREGISTERED
    <3>3. /\ Frame1.arg \notin {MALFORMED, UNREGISTERED}
          /\ streams' = [streams EXCEPT ![Frame1.streamId] = From]
          /\ Swift!Update(From, [Swift!NoTask EXCEPT !.pc = Swift!DispatchTo(Frame1.arg),
                                                     !.method = Frame1.arg, !.state = "open"])
          /\ Swift!Received
      BY <1>6, <1>13, <2>3, <3>1, <3>2 DEF Swift!handleOpen
    <3>4. Swift!NoTask = NoTask
      BY DEF Swift!NoTask, NoTask, Swift!UNREGISTERED, UNREGISTERED, Swift!Untold, Untold
    <3>5. task' = [task EXCEPT ![From] = Opened(Swift!DispatchTo(Frame1.arg), Frame1.arg, "open")]
      BY <3>3, <3>4 DEF Swift!Update, Opened
    <3>6. toPage' = toPage
      BY <3>3 DEF Swift!Received
    <3>7. \E t : Touch(From, t)
      BY <1>1, <1>2, <1>3, <2>1, <3>3, <3>5, <3>6, SwiftOpenTouches
    <3>8. QED
      BY <3>7
  <2>4. QED
    BY <2>2, <2>3
<1>14. QED
  BY <1>9, <1>10, <1>11, <1>12, <1>13 DEF Swift!HandleFrame

(* The tearing down of an iOS host. *)
LEMMA SwiftTears ==
  ASSUME HostInv, Swift!TearDown, UNCHANGED androidVars
  PROVE  Shut
<1>1. /\ Ios /\ attached /\ ~attached' /\ UNCHANGED <<platform, load, nextId, page>>
      /\ task' = [c \in Call |-> IF \E id \in Id : streams[id] = c
                                 THEN Swift!CancelTask(task[c]) ELSE task[c]]
      /\ streams' = [id \in Id |-> 0] /\ toHost' = <<>> /\ toPage' = <<>>
  BY DEF Swift!TearDown, Swift!Ios, Ios, Swift!Call, Call, Swift!Id, Id
<1>2. UNCHANGED <<bridge, hasJob, activity, sweep>>
  BY DEF androidVars
<1>3. Threads /\ Tasks /\ Listed /\ task \in [Call -> Task(HostPc, HostState)] /\ ~Android
  BY <1>1 DEF HostInv, Tasks, Ios, Android
<1>4. ASSUME NEW c \in Call
      PROVE  /\ SwiftGood(task'[c]) /\ SameTask(task[c], task'[c])
             /\ task[c].cancelled => task'[c].cancelled
             /\ \A h \in BOOLEAN : Whole(task[c], h) => Whole(task'[c], h)
  <2>1. SwiftGood(task[c])
    BY <1>1, <1>3 DEF Tasks
  <2>2. CASE \E id \in Id : streams[id] = c
    <3>1. c # 0
      BY PageAssumption DEF Call
    <3>2. task[c].pc # "off" /\ ~task[c].interrupted
      BY <1>1, <1>3, <2>2, <3>1 DEF Listed
    <3>3. ~task[c].cancelled
      BY <2>1, <3>2 DEF SwiftGood
    <3> DEFINE u == task[c]  t == Swift!CancelTask(u)
    <3> HIDE DEF u
    <3>4. SwiftGood(u) /\ u.pc # "off" /\ ~u.cancelled
      BY <2>1, <3>2, <3>3 DEF u
    <3>5. /\ SwiftGood(t) /\ SameTask(u, t) /\ t.cancelled
          /\ \A h \in BOOLEAN : Whole(u, h) => Whole(t, h)
      BY <3>4, SwiftMarks
    <3>6. task'[c] = t
      BY <1>1, <2>2 DEF u
    <3> HIDE DEF t
    <3>7. QED
      BY <3>5, <3>6 DEF u
  <2>3. CASE ~\E id \in Id : streams[id] = c
    <3>1. task'[c] = task[c]
      BY <1>1, <2>3
    <3>2. QED
      BY <2>1, <3>1 DEF SameTask
  <2>4. QED
    BY <2>2, <2>3
<1>5. Tasks'
  <2>1. ASSUME NEW c \in Call
        PROVE  task'[c] \in Task(HostPc, HostState)
    BY <1>4, Wide DEF SwiftGood
  <2>2. task' \in [Call -> Task(HostPc, HostState)]
    BY <1>1, <2>1
  <2>3. Ios' /\ ~Android'
    BY <1>1, <1>3 DEF Ios, Android
  <2>4. \A c \in Call : SwiftGood(task[c])'
    BY <1>4 DEF SwiftGood
  <2>5. QED
    BY <2>2, <2>3, <2>4 DEF Tasks
<1>6. Threads'
  <2>1. \A c \in Call : /\ task'[c].pc = task[c].pc /\ (task[c].cancelled => task'[c].cancelled)
    BY <1>4 DEF SameTask
  <2>2. (bridge.call # 0 => bridge.call \in Call)
        /\ (bridge.at \in {"launch", "cancel"} => bridge.call \in Call)
    BY <1>3 DEF Threads
  <2>3. ~Android' /\ attached' \in BOOLEAN
    BY <1>1, <1>3 DEF Android, Swift!TearDown
  <2>4. QED
    BY <1>2, <1>3, <2>1, <2>2, <2>3 DEF Threads
<1>7. QED
  BY <1>1, <1>4, <1>5, <1>6 DEF Shut, Handled, SameTask

(***************************************************************************)
(* On Android.                                                             *)
(***************************************************************************)

(* The bridge thread is free, or stands in a handler of the stream that is *)
(* touched.                                                                *)
LEMMA ThreadsGo ==
  ASSUME HostInv, UNCHANGED <<platform, attached, hasJob, activity, sweep>>, NEW d \in Call, NEW t,
         task' = [task EXCEPT ![d] = t], t.pc # "off",
         \/ bridge' = [at |-> "idle", call |-> 0]
         \/ bridge' = [at |-> "launch", call |-> d] /\ t.pc = "listed"
         \/ bridge' = [at |-> "assign", call |-> d]
         \/ bridge' = [at |-> "cancel", call |-> d] /\ t.cancelled
  PROVE  Threads'
<1>1. Threads /\ task \in [Call -> Task(HostPc, HostState)]
  BY DEF HostInv, Tasks
<1>2. task'[d] = t /\ \A e \in Call : task[e].pc # "off" => task'[e].pc # "off"
  BY <1>1
<1>3. /\ bridge' \in [at : {"idle"}, call : {0}] \cup
              [at : {"launch", "assign", "cancel"}, call : Call]
      /\ bridge'.call # 0 => bridge'.call = d
      /\ bridge'.at = "launch" => bridge'.call = d /\ t.pc = "listed"
      /\ bridge'.at = "cancel" => bridge'.call = d /\ t.cancelled
  OBVIOUS
<1>4. sweep \subseteq {e \in Call : task'[e].pc # "off"}
  BY <1>1, <1>2 DEF Threads
<1>5. QED
  BY <1>1, <1>2, <1>3, <1>4 DEF Threads, Android

(* What the bridge thread makes of a stream. *)
Queued1(u, r) == [u EXCEPT !.queue = Append(@, r)]
KHalfClosed(u) == [u EXCEPT !.state = "HALF_CLOSED_REMOTE", !.finished = TRUE]
KotlinMark(u, t) ==
  /\ KotlinGood(t) /\ SameTask(u, t) /\ t.interrupted = u.interrupted

(* What a message, a HALF_CLOSE and a CANCEL make of a task on Android. *)
LEMMA KotlinMarks ==
  ASSUME NEW u, KotlinGood(u), u.pc # "off", attached => ~u.cancelled
  PROVE  /\ \A r \in Call \X Nat :
              KotlinMark(u, Queued1(u, r)) /\ Queued1(u, r).cancelled = u.cancelled
         /\ KotlinMark(u, KHalfClosed(u)) /\ KHalfClosed(u).cancelled = u.cancelled
         /\ KotlinMark(u, Kotlin!MarkCancelled(u)) /\ Kotlin!MarkCancelled(u).cancelled
<1>1. u \in Task(Kotlin!KotlinPc, Kotlin!KotlinState)
  BY DEF KotlinGood
<1>2. ASSUME NEW r \in Call \X Nat
      PROVE  KotlinMark(u, Queued1(u, r)) /\ Queued1(u, r).cancelled = u.cancelled
  <2> DEFINE q == Append(u.queue, r)  t == [u EXCEPT !.queue = q]
  <2>1. q \in Seq(Call \X Nat)
    BY <1>1 DEF Task
  <2>2. Queued1(u, r) = t
    BY DEF Queued1
  <2> HIDE DEF q
  <2>3. /\ t \in Task(Kotlin!KotlinPc, Kotlin!KotlinState) /\ t.pc = u.pc /\ t.made = u.made
        /\ t.verdict = u.verdict /\ t.state = u.state /\ t.interrupted = u.interrupted
        /\ t.cancelled = u.cancelled /\ t.late = u.late /\ t.method = u.method
    BY <1>1, <2>1 DEF Task
  <2> HIDE DEF t
  <2>4. KotlinGood(t) /\ SameTask(u, t)
    BY <2>3 DEF KotlinGood, SameTask, StreamsResponses
  <2>5. QED
    BY <2>2, <2>3, <2>4 DEF KotlinMark
<1>3. KotlinMark(u, KHalfClosed(u)) /\ KHalfClosed(u).cancelled = u.cancelled
  <2> DEFINE t == KHalfClosed(u)
  <2>1. /\ t \in Task(Kotlin!KotlinPc, Kotlin!KotlinState) /\ t.pc = u.pc /\ t.made = u.made
        /\ t.verdict = u.verdict /\ t.interrupted = u.interrupted
        /\ t.cancelled = u.cancelled /\ t.late = u.late /\ t.method = u.method
    BY <1>1 DEF Task, KHalfClosed, Kotlin!KotlinState
  <2> HIDE DEF t
  <2>2. KotlinGood(t) /\ SameTask(u, t)
    BY <2>1 DEF KotlinGood, SameTask, StreamsResponses
  <2>3. QED
    BY <2>1, <2>2 DEF KotlinMark, t
<1>4. KotlinMark(u, Kotlin!MarkCancelled(u)) /\ Kotlin!MarkCancelled(u).cancelled
  <2> DEFINE t == Kotlin!MarkCancelled(u)
  <2>1. /\ t \in Task(Kotlin!KotlinPc, Kotlin!KotlinState) /\ t.pc = u.pc /\ t.made = u.made
        /\ t.verdict = u.verdict /\ t.interrupted = u.interrupted
        /\ t.cancelled /\ t.late = u.late /\ t.method = u.method /\ t.state = "CANCELLED"
    BY <1>1 DEF Task, Kotlin!MarkCancelled, Kotlin!KotlinState
  <2>2. u.late <= 2 /\ (attached => u.late = 0)
    BY DEF KotlinGood
  <2> HIDE DEF t
  <2>3. KotlinGood(t) /\ SameTask(u, t)
    BY <2>1, <2>2 DEF KotlinGood, SameTask, StreamsResponses
  <2>4. QED
    BY <2>1, <2>3 DEF KotlinMark, t
<1>5. QED
  BY <1>2, <1>3, <1>4

(* A job is cancelled. *)
CJob(u) == [u EXCEPT !.interrupted = TRUE, !.cancelled = TRUE]

(* What the cancellation of its job makes of it. *)
LEMMA KotlinCancels ==
  ASSUME NEW u, KotlinGood(u), u.pc # "off", attached => u.cancelled
  PROVE  LET t == Kotlin!CancelJob(u) IN
         KotlinGood(t) /\ SameTask(u, t) /\ (u.cancelled => t.cancelled)
<1>1. CASE u.pc = "done"
  <2>1. Kotlin!CancelJob(u) = u
    BY <1>1 DEF Kotlin!CancelJob
  <2>2. QED
    BY <2>1 DEF SameTask
<1>2. CASE u.pc # "done"
  <2> DEFINE t == CJob(u)
  <2>1. Kotlin!CancelJob(u) = t
    BY <1>2 DEF Kotlin!CancelJob, CJob
  <2>2. u \in Task(Kotlin!KotlinPc, Kotlin!KotlinState)
    BY DEF KotlinGood
  <2>3. /\ t \in Task(Kotlin!KotlinPc, Kotlin!KotlinState) /\ t.pc = u.pc /\ t.made = u.made
        /\ t.verdict = u.verdict /\ t.interrupted = TRUE /\ t.state = u.state
        /\ t.cancelled = TRUE /\ t.late = u.late /\ t.method = u.method
    BY <2>2 DEF Task, CJob
  <2> HIDE DEF t
  <2>4. KotlinGood(t) /\ SameTask(u, t)
    BY <2>3 DEF KotlinGood, SameTask, StreamsResponses
  <2>5. QED
    BY <2>1, <2>3, <2>4
<1>3. QED
  BY <1>1, <1>2

(* A frame is handled and its stream touched. *)
LEMMA KotlinTouches ==
  ASSUME HostInv, Android, Kotlin!Free, toHost # <<>>, toHost' = Tail(toHost),
         UNCHANGED <<platform, load, nextId, page, toPage, streams, attached, hasJob, activity,
         sweep>>,
         Target # 0, NEW t, task' = [task EXCEPT ![Target] = t], KotlinMark(task[Target], t),
         \/ bridge' = bridge /\ t.cancelled = task[Target].cancelled
         \/ bridge' = [at |-> "cancel", call |-> Target] /\ t.cancelled
  PROVE  Touch(Target, t)
<1> DEFINE d == Target  u == task[d]
<1>1. /\ d \in Call /\ page[d].id = Frame1.streamId /\ u.pc # "off"
      /\ Frame1.streamId # 0
      /\ attached => u.pc # "done" /\ ~u.interrupted
                     /\ (u.cancelled => bridge = [at |-> "cancel", call |-> d])
  BY Heads
<1>2. bridge = [at |-> "idle", call |-> 0] /\ bridge.at = "idle"
  BY DEF Kotlin!Free
<1>3. ~Ios
  BY DEF Ios, Android
<1>4. /\ t.pc = u.pc /\ t.made = u.made /\ t.verdict = u.verdict /\ KotlinGood(t)
      /\ t.interrupted = u.interrupted
  BY DEF SameTask, KotlinMark
<1> HIDE DEF d, u
<1>5. d = Target /\ u = task[d]
  BY DEF d, u
<1>6. Threads'
  BY <1>1, <1>2, <1>4, <1>5, ThreadsGo
<1>7. attached => ~u.cancelled
  BY <1>1, <1>2
<1>8. attached => t.pc # "done" /\ ~t.interrupted
                  /\ (t.cancelled => bridge' = [at |-> "cancel", call |-> d])
  BY <1>1, <1>4, <1>5, <1>7
<1>9. \A e \in Call : bridge # [at |-> "cancel", call |-> e]
  BY <1>2
<1>10. QED
  BY <1>1, <1>3, <1>4, <1>5, <1>6, <1>8, <1>9 DEF Touch, Over

(* An OPEN that is accepted on Android. *)
LEMMA KotlinOpenTouches ==
  ASSUME HostInv, Android, Kotlin!Free, toHost # <<>>, toHost' = Tail(toHost), Frame1.body = "open",
         UNCHANGED <<platform, load, nextId, page, toPage, attached, hasJob, activity, sweep>>,
         Frame1.arg \notin {MALFORMED, UNREGISTERED},
         streams' = [streams EXCEPT ![Frame1.streamId] = From],
         bridge' = [at |-> "launch", call |-> From],
         task' = [task EXCEPT ![From] = Opened("listed", Frame1.arg, "OPEN")]
  PROVE  \E t : Touch(From, t)
<1> DEFINE d == From  m == Frame1.arg  t == Opened("listed", m, "OPEN")
<1>1. /\ d \in Call /\ page[d].id = Frame1.streamId /\ task[d].pc = "off"
      /\ Frame1.streamId \in Id /\ Frame1.streamId # 0 /\ m \in Method \cup {NO_SUCH_METHOD}
  BY Heads
<1>2. task[d] = NoTask
  BY <1>1 DEF HostInv, Tasks, KotlinGood
<1>3. ~Ios
  BY DEF Ios, Android
<1>4. m \in MethodType \cup {NO_SUCH_METHOD}
  BY <1>1 DEF Method
<1> HIDE DEF d, m
<1>5. /\ t \in Task(HostPc, HostState) /\ t.pc = "listed" /\ t.method = m /\ t.state = "OPEN"
      /\ t.interrupted = FALSE /\ t.cancelled = FALSE /\ t.finished = FALSE /\ t.ended = FALSE
      /\ t.made = 0 /\ t.verdict = Untold /\ t.late = 0
  <2>1. "listed" \in HostPc /\ "OPEN" \in HostState /\ m \in Method \cup {NO_SUCH_METHOD}
    BY <1>1 DEF HostPc, HostState, Kotlin!KotlinPc, Kotlin!KotlinState
  <2>2. Anew(Opened("listed", m, "OPEN"), "listed", m, "OPEN")
    BY <2>1, StartsAnew
  <2>3. QED
    BY <2>2 DEF Anew
<1> HIDE DEF t
<1>6. t \in Task(Kotlin!KotlinPc, Kotlin!KotlinState)
  <2>1. "listed" \in Kotlin!KotlinPc /\ "OPEN" \in Kotlin!KotlinState
    BY DEF Kotlin!KotlinPc, Kotlin!KotlinState
  <2>2. QED
    BY <1>5, <2>1, Narrow
<1>7. KotlinGood(t)
  BY <1>4, <1>5, <1>6 DEF KotlinGood
<1>8. NoTask.made = 0 /\ NoTask.verdict = Untold /\ NoTask.pc = "off"
  BY DEF NoTask
<1>9. task' = [task EXCEPT ![d] = t] /\ d = From
  BY DEF d, m, t
<1>10. bridge = [at |-> "idle", call |-> 0] /\ bridge' = [at |-> "launch", call |-> d]
  BY DEF Kotlin!Free, d
<1>11. Threads'
  BY <1>1, <1>5, <1>9, <1>10, ThreadsGo
<1>12. streams' = [streams EXCEPT ![page[d].id] = d] /\ streams \in [Id -> Call \cup {0}]
  BY <1>1, <1>9 DEF HostInv, Listed
<1>13. streams'[page[d].id] = d
  BY <1>1, <1>12
<1>14. \A e \in Call : bridge # [at |-> "cancel", call |-> e]
  BY <1>10
<1>15. /\ toPage' = toPage /\ t.verdict = task[d].verdict /\ t.made = task[d].made /\ page[d].id # 0
       /\ toHost # <<>> /\ toHost' = Tail(toHost) /\ d = toHost[1].call
       /\ ~t.interrupted /\ ~t.cancelled /\ t.pc \notin {"off", "done"}
  BY <1>1, <1>2, <1>5, <1>8, <1>9 DEF From
<1>16. Touch(d, t)
  BY <1>1, <1>3, <1>7, <1>9, <1>11, <1>12, <1>13, <1>14, <1>15 DEF Touch
<1>17. QED
  BY <1>9, <1>16

(* Between the handlers: the coroutine of a stream is launched. *)
LEMMA LaunchTouches ==
  ASSUME HostInv, Android, Kotlin!Launch
  PROVE  \E d, t : Touch(d, t)
<1> DEFINE d == bridge.call  u == task[d]
           t == IF activity = "destroyed" THEN [Kotlin!CancelJob(u) EXCEPT !.pc = "done"]
                ELSE [u EXCEPT !.pc = "launched"]
<1>1. /\ bridge.at = "launch" /\ task' = [task EXCEPT ![d] = t]
      /\ bridge' = [at |-> "assign", call |-> d]
      /\ UNCHANGED <<platform, load, nextId, page, toHost, toPage, streams, attached, hasJob,
                     activity, sweep>>
  BY DEF Kotlin!Launch, Kotlin!Update, Kotlin!BridgeAt, Kotlin!pageVars
<1>2. Threads /\ Tasks /\ Listed /\ Paged /\ task \in [Call -> Task(HostPc, HostState)]
  BY DEF HostInv, Tasks
<1>3. d \in Call /\ u.pc = "listed" /\ (activity = "destroyed" => ~attached)
  <2>1. d \in Call
    BY <1>1, <1>2 DEF Threads
  <2>2. u.pc = "listed"
    BY <1>1, <1>2 DEF Threads
  <2>3. QED
    BY <1>2, <2>1, <2>2 DEF Threads
<1>4. KotlinGood(u) /\ ~Ios
  BY <1>2, <1>3 DEF Tasks, Ios, Android
<1>5. \A id \in Id : attached /\ streams[id] = d => ~u.interrupted /\ ~u.cancelled
  <2>1. d # 0 /\ bridge # [at |-> "cancel", call |-> d]
    BY <1>1, <1>3, PageAssumption DEF Call
  <2>2. QED
    BY <1>2, <2>1 DEF Listed
<1>6. page[d].id # 0
  BY <1>2, <1>3 DEF Paged
<1>7. /\ KotlinGood(t) /\ t.pc # "off" /\ t.made = u.made /\ t.verdict = u.verdict
      /\ t.pc \in {"done", "launched"}
      /\ t.pc = "launched" => t.cancelled = u.cancelled /\ t.interrupted = u.interrupted
      /\ attached => t.pc = "launched"
  <2> HIDE DEF u
  <2>1. CASE activity = "destroyed"
    <3> DEFINE w == Kotlin!CancelJob(u)  v == [w EXCEPT !.pc = "done"]
    <3>1. KotlinGood(w) /\ SameTask(u, w) /\ ~attached
      BY <1>3, <1>4, <2>1, KotlinCancels
    <3>2. w \in Task(Kotlin!KotlinPc, Kotlin!KotlinState)
      BY <3>1 DEF KotlinGood
    <3> HIDE DEF w
    <3>3. /\ v \in Task(Kotlin!KotlinPc, Kotlin!KotlinState) /\ v.pc = "done" /\ v.made = w.made
          /\ v.verdict = w.verdict /\ v.interrupted = w.interrupted /\ v.cancelled = w.cancelled
          /\ v.late = w.late
      BY <3>2 DEF Task, Kotlin!KotlinPc
    <3>4. t = v
      BY <2>1 DEF w
    <3> HIDE DEF v, t
    <3>5. KotlinGood(v)
      BY <3>1, <3>3 DEF KotlinGood
    <3>6. QED
      BY <3>1, <3>3, <3>4, <3>5 DEF SameTask
  <2>2. CASE activity # "destroyed"
    <3> DEFINE v == [u EXCEPT !.pc = "launched"]
    <3>1. u \in Task(Kotlin!KotlinPc, Kotlin!KotlinState)
      BY <1>4 DEF KotlinGood
    <3>2. /\ v \in Task(Kotlin!KotlinPc, Kotlin!KotlinState) /\ v.pc = "launched" /\ v.made = u.made
          /\ v.verdict = u.verdict /\ v.interrupted = u.interrupted /\ v.cancelled = u.cancelled
          /\ v.late = u.late /\ v.method = u.method /\ v.state = u.state
      BY <3>1 DEF Task, Kotlin!KotlinPc
    <3>3. t = v
      BY <2>2
    <3> HIDE DEF v, t
    <3>4. KotlinGood(v)
      BY <1>3, <1>4, <3>2 DEF KotlinGood
    <3>5. QED
      BY <3>2, <3>3, <3>4
  <2>3. QED
    BY <2>1, <2>2
<1> HIDE DEF d, t
<1>8. Threads'
  BY <1>1, <1>3, <1>7, ThreadsGo
<1>9. \A e \in Call : bridge # [at |-> "cancel", call |-> e]
  BY <1>1
<1>10. u = task[d] /\ (t.pc = "launched" => u.pc \notin Over) /\ u.pc # "off"
  BY <1>3 DEF Over
<1> HIDE DEF u
<1>11. attached => \A id \in Id : streams'[id] = d => t.pc # "done" /\ ~t.interrupted
       /\ ~t.cancelled
  BY <1>1, <1>5, <1>7
<1>12. t.pc \notin Over /\ ~t.cancelled => streams' = streams /\ u.pc \notin Over /\ ~u.cancelled
  BY <1>1, <1>7, <1>10 DEF Over
<1>13. Touch(d, t)
  BY <1>1, <1>3, <1>4, <1>6, <1>7, <1>8, <1>9, <1>10, <1>11, <1>12 DEF Touch
<1>14. QED
  BY <1>13

(* Its job is assigned to the object of the stream. *)
LEMMA AssignStands ==
  ASSUME HostInv, Kotlin!AssignJob
  PROVE  Still
<1>1. /\ bridge.at = "assign" /\ hasJob' = [hasJob EXCEPT ![bridge.call] = TRUE]
      /\ bridge' = [at |-> "idle", call |-> 0]
      /\ UNCHANGED <<platform, load, nextId, page, toHost, toPage, streams, task, attached,
                     activity, sweep>>
  BY DEF Kotlin!AssignJob, Kotlin!BridgeAt, Kotlin!pageVars, Kotlin!hostVars
<1>2. Threads
  BY DEF HostInv
<1>3. hasJob' \in [Call -> BOOLEAN]
  BY <1>1, <1>2 DEF Threads
<1>4. Threads'
  BY <1>1, <1>2, <1>3 DEF Threads, Android
<1>5. QED
  BY <1>1, <1>4 DEF Still

(* A cancelled job is told, and its stream leaves the map. *)
LEMMA FinishTouches ==
  ASSUME HostInv, Android, Kotlin!FinishCancel
  PROVE  \E d, t : Touch(d, t)
<1> DEFINE d == bridge.call  u == task[d]  t == Kotlin!CancelJob(u)
<1>1. /\ bridge.at = "cancel" /\ task' = [task EXCEPT ![d] = t]
      /\ streams' = [streams EXCEPT ![page[d].id] = 0]
      /\ bridge' = [at |-> "idle", call |-> 0]
      /\ UNCHANGED <<platform, load, nextId, page, toHost, toPage, attached, hasJob,
                     activity, sweep>>
  BY DEF Kotlin!FinishCancel, Kotlin!Update, Kotlin!BridgeAt, Kotlin!pageVars, Kotlin!Unlist,
     Kotlin!IdOf
<1>2. Threads /\ Tasks /\ Listed /\ Paged /\ task \in [Call -> Task(HostPc, HostState)]
  BY DEF HostInv, Tasks
<1>3. d \in Call /\ u.pc # "off" /\ u.cancelled
  <2>1. d \in Call /\ d # 0
    BY <1>1, <1>2, PageAssumption DEF Threads, Call
  <2>2. QED
    BY <1>1, <1>2, <2>1 DEF Threads
<1>4. KotlinGood(u) /\ ~Ios
  BY <1>2, <1>3 DEF Tasks, Ios, Android
<1>5. page[d].id # 0 /\ page[d].id \in Id
  <2>1. page[d] \in PageCall /\ page[d].id # 0
    BY <1>2, <1>3 DEF Paged, PageTypeOK
  <2>2. QED
    BY <2>1 DEF PageCall
<1>6. KotlinGood(t) /\ SameTask(u, t) /\ t.cancelled
  <2> HIDE DEF u
  <2>1. QED
    BY <1>3, <1>4, KotlinCancels
<1>7. \A id \in Id : streams'[id] # d
  <2>1. d # 0
    BY <1>3, PageAssumption DEF Call
  <2>2. \A id \in Id : streams[id] = d => page[d].id = id
    BY <1>2, <2>1 DEF Listed
  <2>3. streams \in [Id -> Call \cup {0}]
    BY <1>2 DEF Listed
  <2> HIDE DEF d
  <2>4. QED
    BY <1>1, <1>5, <2>1, <2>2, <2>3
<1>8. \A e \in Call : e # d => bridge # [at |-> "cancel", call |-> e]
  OBVIOUS
<1> HIDE DEF d, t
<1>9. t.pc # "off" /\ t.made = u.made /\ t.verdict = u.verdict
  BY <1>3, <1>6 DEF SameTask
<1>10. Threads'
  BY <1>1, <1>3, <1>9, ThreadsGo
<1>11. u = task[d]
  OBVIOUS
<1> HIDE DEF u
<1>12. Touch(d, t)
  BY <1>1, <1>3, <1>4, <1>5, <1>6, <1>7, <1>8, <1>9, <1>10, <1>11 DEF Touch
<1>13. QED
  BY <1>12

(* What the bridge thread of an Android host does. *)
LEMMA KotlinHandles ==
  ASSUME HostInv, Kotlin!BridgeThread
  PROVE  Still \/ \E d, t : Touch(d, t)
<1>1. Android
  BY DEF Kotlin!BridgeThread, Kotlin!Android, Android
<1>2. Threads
  BY DEF HostInv
<1>3. Kotlin!Target = Target /\ Kotlin!Frame1 = Frame1 /\ Kotlin!From = From
  BY DEF Kotlin!Target, Target, Kotlin!Frame1, Frame1, Kotlin!From, From
<1>4. CASE Kotlin!Launch
  BY <1>1, <1>4, LaunchTouches
<1>5. CASE Kotlin!AssignJob
  BY <1>5, AssignStands
<1>6. CASE Kotlin!FinishCancel
  BY <1>1, <1>6, FinishTouches
<1>7. ASSUME Kotlin!Free, toHost # <<>>, toHost' = Tail(toHost),
             UNCHANGED <<platform, load, nextId, page, toPage, streams, task, attached, bridge,
                         hasJob, activity, sweep>>
      PROVE  Still
  <2>1. Threads'
    BY <1>2, <1>7 DEF Threads, Android
  <2>2. QED
    BY <1>7, <2>1 DEF Still
<1>8. ASSUME toHost # <<>>, Kotlin!Free, Target # 0
      PROVE  /\ Target \in Call /\ task[Target].pc # "off" /\ KotlinGood(task[Target])
             /\ attached => ~task[Target].cancelled
  <2>1. bridge # [at |-> "cancel", call |-> Target]
    BY <1>8 DEF Kotlin!Free
  <2>2. Target \in Call /\ task[Target].pc # "off" /\ (attached => ~task[Target].cancelled)
    BY <1>8, <2>1, Heads
  <2>3. QED
    BY <1>1, <2>2 DEF HostInv, Tasks
<1>9. CASE Kotlin!handleMessage
  <2>1. /\ Kotlin!Free /\ toHost # <<>> /\ toHost' = Tail(toHost)
        /\ UNCHANGED <<platform, load, nextId, page, toPage, streams, attached, bridge, hasJob,
                       activity, sweep>>
        /\ \/ UNCHANGED task
           \/ Target # 0 /\ task' = [task EXCEPT ![Target].queue = Append(@, <<From, Frame1.arg>>)]
    BY <1>3, <1>9 DEF Kotlin!handleMessage, Kotlin!Received, Kotlin!Receipt, Kotlin!Arrived,
       Kotlin!NotBridge
  <2>2. CASE UNCHANGED task
    BY <1>7, <2>1, <2>2
  <2>3. CASE Target # 0 /\ task' = [task EXCEPT ![Target].queue = Append(@, <<From, Frame1.arg>>)]
    <3> DEFINE u == task[Target]  t == Queued1(u, <<From, Frame1.arg>>)
    <3>1. <<From, Frame1.arg>> \in Call \X Nat
      BY <2>1, Heads
    <3>2. u.pc # "off" /\ KotlinGood(u) /\ (attached => ~u.cancelled)
      BY <1>8, <2>1, <2>3
    <3>3. task' = [task EXCEPT ![Target] = t]
      BY <2>3 DEF Queued1
    <3>4. u = task[Target]
      OBVIOUS
    <3> HIDE DEF u
    <3>5. KotlinMark(u, t) /\ t.cancelled = u.cancelled
      BY <3>1, <3>2, KotlinMarks
    <3> HIDE DEF t
    <3>6. Touch(Target, t)
      BY <1>1, <2>1, <2>3, <3>3, <3>4, <3>5, KotlinTouches
    <3>7. QED
      BY <3>6
  <2>4. QED
    BY <2>1, <2>2, <2>3
<1>10. CASE Kotlin!handleHalfClose
  <2>1. /\ Kotlin!Free /\ toHost # <<>> /\ toHost' = Tail(toHost)
        /\ UNCHANGED <<platform, load, nextId, page, toPage, streams, attached, bridge, hasJob,
                       activity, sweep>>
        /\ \/ UNCHANGED task
           \/ Target # 0 /\ task' = [task EXCEPT ![Target] = KHalfClosed(task[Target])]
    BY <1>3, <1>10 DEF Kotlin!handleHalfClose, Kotlin!Received, Kotlin!Receipt, Kotlin!Arrived,
       Kotlin!NotBridge, Kotlin!Update, KHalfClosed
  <2>2. CASE UNCHANGED task
    BY <1>7, <2>1, <2>2
  <2>3. CASE Target # 0 /\ task' = [task EXCEPT ![Target] = KHalfClosed(task[Target])]
    <3> DEFINE u == task[Target]  t == KHalfClosed(u)
    <3>1. u.pc # "off" /\ KotlinGood(u) /\ (attached => ~u.cancelled)
      BY <1>8, <2>1, <2>3
    <3>2. task' = [task EXCEPT ![Target] = t] /\ u = task[Target]
      BY <2>3
    <3> HIDE DEF u
    <3>3. KotlinMark(u, t) /\ t.cancelled = u.cancelled
      BY <3>1, KotlinMarks
    <3> HIDE DEF t
    <3>4. Touch(Target, t)
      BY <1>1, <2>1, <2>3, <3>2, <3>3, KotlinTouches
    <3>5. QED
      BY <3>4
  <2>4. QED
    BY <2>1, <2>2, <2>3
<1>11. CASE Kotlin!handleCancel
  <2>1. /\ Kotlin!Free /\ toHost # <<>> /\ toHost' = Tail(toHost)
        /\ UNCHANGED <<platform, load, nextId, page, toPage, streams, attached, hasJob,
                       activity, sweep>>
        /\ \/ UNCHANGED <<task, bridge>>
           \/ /\ Target # 0 /\ task' = [task EXCEPT ![Target] = Kotlin!MarkCancelled(task[Target])]
              /\ bridge' = [at |-> "cancel", call |-> Target]
    BY <1>3, <1>11 DEF Kotlin!handleCancel, Kotlin!Received, Kotlin!Receipt, Kotlin!Arrived,
       Kotlin!BridgeAt, Kotlin!Update
  <2>2. CASE UNCHANGED <<task, bridge>>
    BY <1>7, <2>1, <2>2
  <2>3. CASE /\ Target # 0 /\ task' = [task EXCEPT ![Target] = Kotlin!MarkCancelled(task[Target])]
             /\ bridge' = [at |-> "cancel", call |-> Target]
    <3> DEFINE u == task[Target]  t == Kotlin!MarkCancelled(u)
    <3>1. u.pc # "off" /\ KotlinGood(u) /\ (attached => ~u.cancelled)
      BY <1>8, <2>1, <2>3
    <3>2. task' = [task EXCEPT ![Target] = t] /\ u = task[Target]
      BY <2>3
    <3> HIDE DEF u
    <3>3. KotlinMark(u, t) /\ t.cancelled
      BY <3>1, KotlinMarks
    <3> HIDE DEF t
    <3>4. Touch(Target, t)
      BY <1>1, <2>1, <2>3, <3>2, <3>3, KotlinTouches
    <3>5. QED
      BY <3>4
  <2>4. QED
    BY <2>1, <2>2, <2>3
<1>12. CASE Kotlin!handleOpen
  <2>1. /\ Kotlin!Free /\ toHost # <<>> /\ Frame1.body = "open"
        /\ UNCHANGED <<attached, hasJob, activity, sweep>>
    BY <1>12 DEF Kotlin!handleOpen, Kotlin!Arrived, Frame1
  <2>2. CASE \E v \in RpcStatusCode : Kotlin!Refuse(v) /\ Kotlin!Unlist(Frame1.streamId)
             /\ UNCHANGED bridge
    <3>1. PICK v \in RpcStatusCode : Kotlin!Refuse(v) /\ Kotlin!Unlist(Frame1.streamId)
               /\ UNCHANGED bridge
      BY <2>2
    <3>2. /\ task' = [task EXCEPT ![From] = Refused(@, v)]
          /\ toPage' = IF attached THEN Append(toPage, Sent(From, ErrorFrame(Frame1.streamId, v)))
                                   ELSE toPage
          /\ toHost' = Tail(toHost) /\ UNCHANGED <<platform, load, nextId, page>>
          /\ streams' = [streams EXCEPT ![Frame1.streamId] = 0]
      BY <1>3, <3>1 DEF Kotlin!Refuse, Refused, Kotlin!Sent, Sent, Kotlin!ErrorFrame, ErrorFrame,
         Kotlin!Receipt, Kotlin!Unlist
    <3>3. UNCHANGED <<platform, load, nextId, page, attached, androidVars>>
      BY <2>1, <3>1, <3>2 DEF androidVars
    <3>4. \E t : Touch(From, t)
      BY <2>1, <3>2, <3>3, RefusalTouches
    <3>5. QED
      BY <3>4
  <2>3. CASE ~\E v \in RpcStatusCode : Kotlin!Refuse(v) /\ Kotlin!Unlist(Frame1.streamId)
             /\ UNCHANGED bridge
    <3>1. INVALID_ARGUMENT \in RpcStatusCode /\ UNIMPLEMENTED \in RpcStatusCode
      BY DEF RpcStatusCode
    <3>2. /\ Kotlin!INVALID_ARGUMENT = INVALID_ARGUMENT /\ Kotlin!UNIMPLEMENTED = UNIMPLEMENTED
          /\ Kotlin!MALFORMED = MALFORMED /\ Kotlin!UNREGISTERED = UNREGISTERED
      BY DEF Kotlin!INVALID_ARGUMENT, INVALID_ARGUMENT, Kotlin!UNIMPLEMENTED, UNIMPLEMENTED,
         Kotlin!MALFORMED, MALFORMED, Kotlin!UNREGISTERED, UNREGISTERED
    <3>3. /\ Frame1.arg \notin {MALFORMED, UNREGISTERED}
          /\ streams' = [streams EXCEPT ![Frame1.streamId] = From]
          /\ Kotlin!Update(From, [Kotlin!NoTask EXCEPT !.pc = "listed", !.method = Frame1.arg,
                                                       !.state = "OPEN"])
          /\ Kotlin!BridgeAt("launch", From) /\ Kotlin!Received
      BY <1>3, <1>12, <2>3, <3>1, <3>2 DEF Kotlin!handleOpen
    <3>4. Kotlin!NoTask = NoTask
      BY DEF Kotlin!NoTask, NoTask, Kotlin!UNREGISTERED, UNREGISTERED, Kotlin!Untold, Untold
    <3>5. task' = [task EXCEPT ![From] = Opened("listed", Frame1.arg, "OPEN")]
      BY <3>3, <3>4 DEF Kotlin!Update, Opened
    <3>6. /\ bridge' = [at |-> "launch", call |-> From] /\ toHost' = Tail(toHost)
          /\ UNCHANGED <<platform, load, nextId, page, toPage>>
      BY <3>3 DEF Kotlin!Received, Kotlin!Receipt, Kotlin!BridgeAt
    <3>7. \E t : Touch(From, t)
      BY <1>1, <2>1, <3>3, <3>5, <3>6, KotlinOpenTouches
    <3>8. QED
      BY <3>7
  <2>4. QED
    BY <2>2, <2>3
<1>13. QED
  BY <1>4, <1>5, <1>6, <1>9, <1>10, <1>11, <1>12 DEF Kotlin!BridgeThread

(* Marks that the main thread of an Android host leaves on the tasks, once *)
(* the transport is closed, shut it down.                                  *)
LEMMA MainThreadShuts ==
  ASSUME HostInv, Android, attached' = FALSE, activity' \in Kotlin!Activity \ {"alive"},
         UNCHANGED <<platform, load, nextId, page, bridge, hasJob>>,
         toPage' = toPage \/ toPage' = <<>>, Handled,
         streams' = streams \/ streams' = [id \in Id |-> 0],
         sweep' \subseteq {c \in Call : task[c].pc # "off"},
         task' \in [Call -> Task(HostPc, HostState)],
         \A c \in Call : /\ ~attached => KotlinGood(task'[c])
                         /\ attached => task'[c] = task[c]
                         /\ SameTask(task[c], task'[c])
                         /\ task[c].cancelled => task'[c].cancelled
  PROVE  Shut
<1>1. Threads /\ Tasks /\ ~Ios /\ ~Ios' /\ Android'
  BY DEF HostInv, Ios, Android
<1>2. \A c \in Call : task'[c].pc = task[c].pc
  BY DEF SameTask
<1>3. Threads'
  <2>1. (bridge.call # 0 => bridge.call \in Call)
        /\ (bridge.at \in {"launch", "cancel"} => bridge.call \in Call)
    BY <1>1 DEF Threads
  <2>2. attached' \in BOOLEAN /\ ~(activity' = "alive") /\ activity' \in Kotlin!Activity
    OBVIOUS
  <2>3. sweep' \subseteq {c \in Call : task'[c].pc # "off"}
    BY <1>2
  <2>4. QED
    BY <1>1, <1>2, <2>1, <2>2, <2>3 DEF Threads
<1>4. ASSUME NEW c \in Call
      PROVE  KotlinGood(task[c])'
  <2>1. KotlinGood(task[c]) /\ (~attached => KotlinGood(task'[c]))
        /\ (attached => task'[c] = task[c])
    BY <1>1 DEF Tasks
  <2>2. CASE attached
    BY <2>1, <2>2 DEF KotlinGood
  <2>3. CASE ~attached
    BY <2>1, <2>3 DEF KotlinGood
  <2>4. QED
    BY <2>2, <2>3
<1>5. Tasks'
  BY <1>1, <1>4 DEF Tasks
<1>6. QED
  BY <1>1, <1>3, <1>5 DEF Shut, SameTask

(* The steps of onDestroy. *)
LEMMA KotlinShuts ==
  ASSUME HostInv, Android, Kotlin!Destroy
  PROVE  Shut
<1>1. /\ Threads /\ Tasks /\ Listed /\ task \in [Call -> Task(HostPc, HostState)]
      /\ (attached <=> activity = "alive")
  BY DEF HostInv, Tasks, Threads
<1>2. \A c \in Call : KotlinGood(task[c])
  BY <1>1 DEF Tasks
<1>3. /\ sweep \subseteq {c \in Call : task[c].pc # "off"}
      /\ Kotlin!Listed \subseteq {c \in Call : task[c].pc # "off"}
  <2>1. 0 \notin Call
    BY PageAssumption DEF Call
  <2>2. Kotlin!Listed \subseteq {c \in Call : task[c].pc # "off"}
    BY <1>1, <2>1 DEF Listed, Kotlin!Listed, Kotlin!Call, Call, Kotlin!Id, Id
  <2>3. QED
    BY <1>1, <2>2 DEF Threads
<1>4. \A c \in Call : SameTask(task[c], task[c])
  BY DEF SameTask
<1>5. CASE Kotlin!CloseTransport
  <2>1. /\ activity' = "closing" /\ attached' = FALSE
        /\ UNCHANGED <<platform, load, nextId, page, streams, task, bridge, hasJob, sweep>>
        /\ toPage' = <<>> /\ (toHost' = <<>> \/ (toHost # <<>> /\ toHost' = <<Head(toHost)>>))
        /\ attached
    BY <1>1, <1>5 DEF Kotlin!CloseTransport
  <2>2. Handled
    BY <2>1 DEF Handled
  <2>3. activity' \in Kotlin!Activity \ {"alive"}
    BY <2>1 DEF Kotlin!Activity
  <2>4. QED
    BY <1>1, <1>3, <1>4, <2>1, <2>2, <2>3, MainThreadShuts
<1>6. CASE Kotlin!StartSweep
  <2>1. /\ activity' = "sweeping" /\ attached = FALSE /\ attached' = FALSE
        /\ UNCHANGED <<platform, load, nextId, page, toHost, toPage, streams, task, bridge, hasJob>>
        /\ sweep' = Kotlin!Listed
    BY <1>1, <1>6 DEF Threads, Kotlin!StartSweep, Kotlin!pageVars, Kotlin!hostVars
  <2>2. Handled
    BY <2>1 DEF Handled
  <2>3. activity' \in Kotlin!Activity \ {"alive"}
    BY <2>1 DEF Kotlin!Activity
  <2>4. QED
    BY <1>1, <1>2, <1>3, <1>4, <2>1, <2>2, <2>3, MainThreadShuts
<1>7. CASE Kotlin!SweepOne
  <2>1. PICK c \in sweep \cup Kotlin!Listed :
          /\ sweep' = sweep \ {c}
          /\ Kotlin!Update(c, LET t == [task[c] EXCEPT !.finished = TRUE]
                              IN  IF hasJob[c] THEN Kotlin!CancelJob(t) ELSE t)
    BY <1>7 DEF Kotlin!SweepOne
  <2> DEFINE u == task[c]  w == [u EXCEPT !.finished = TRUE]
             t == IF hasJob[c] THEN Kotlin!CancelJob(w) ELSE w
  <2>2. /\ activity' = "sweeping" /\ attached = FALSE /\ attached' = FALSE
        /\ UNCHANGED <<platform, load, nextId, page, toHost, toPage, streams, bridge, hasJob>>
        /\ task' = [task EXCEPT ![c] = t]
    BY <1>1, <1>7, <2>1 DEF Threads, Kotlin!SweepOne, Kotlin!pageVars, Kotlin!Update
  <2>3. c \in Call /\ u.pc # "off" /\ KotlinGood(u)
    BY <1>2, <1>3
  <2>4. KotlinGood(w) /\ SameTask(u, w) /\ w.cancelled = u.cancelled
    <3> HIDE DEF u
    <3>1. u \in Task(Kotlin!KotlinPc, Kotlin!KotlinState)
      BY <2>3 DEF KotlinGood
    <3>2. /\ w \in Task(Kotlin!KotlinPc, Kotlin!KotlinState) /\ w.pc = u.pc /\ w.made = u.made
          /\ w.verdict = u.verdict /\ w.interrupted = u.interrupted /\ w.cancelled = u.cancelled
          /\ w.late = u.late /\ w.method = u.method /\ w.state = u.state
      BY <3>1 DEF Task
    <3> HIDE DEF w
    <3>3. QED
      BY <2>3, <3>2 DEF KotlinGood, SameTask, StreamsResponses
  <2>5. KotlinGood(t) /\ SameTask(u, t) /\ (u.cancelled => t.cancelled)
    <3> HIDE DEF u, w
    <3>1. w.pc # "off"
      BY <2>3, <2>4 DEF SameTask
    <3>2. KotlinGood(Kotlin!CancelJob(w)) /\ SameTask(w, Kotlin!CancelJob(w))
          /\ (w.cancelled => Kotlin!CancelJob(w).cancelled)
      BY <2>2, <2>4, <3>1, KotlinCancels
    <3>3. QED
      BY <2>4, <3>2 DEF SameTask
  <2> HIDE DEF t, w
  <2>6. t \in Task(HostPc, HostState)
    BY <2>5, Wide DEF KotlinGood
  <2>7. task' \in [Call -> Task(HostPc, HostState)] /\ task'[c] = t
        /\ \A d \in Call : d # c => task'[d] = task[d]
    BY <1>1, <2>2, <2>3, <2>6
  <2>8. \A d \in Call : /\ KotlinGood(task'[d]) /\ SameTask(task[d], task'[d])
                        /\ task[d].cancelled => task'[d].cancelled
    BY <1>2, <1>4, <2>5, <2>7
  <2>9. sweep' \subseteq {d \in Call : task[d].pc # "off"}
    BY <1>3, <2>1
  <2>10. Handled /\ activity' \in Kotlin!Activity \ {"alive"}
    BY <2>2 DEF Handled, Kotlin!Activity
  <2>11. QED
    BY <2>2, <2>7, <2>8, <2>9, <2>10, MainThreadShuts
<1>8. CASE Kotlin!EndSweep
  <2>1. /\ activity' = "swept" /\ attached = FALSE /\ attached' = FALSE
           /\ streams' = [id \in Id |-> 0]
        /\ UNCHANGED <<platform, load, nextId, page, toHost, toPage, task, bridge, hasJob, sweep>>
    BY <1>1, <1>8 DEF Kotlin!EndSweep, Kotlin!pageVars, Kotlin!Call, Call, Kotlin!Id, Id,
       Threads
  <2>2. Handled /\ activity' \in Kotlin!Activity \ {"alive"}
    BY <2>1 DEF Handled, Kotlin!Activity
  <2>3. QED
    BY <1>1, <1>2, <1>3, <1>4, <2>1, <2>2, MainThreadShuts
<1>9. CASE Kotlin!DestroyScope
  <2>1. /\ activity' = "destroyed" /\ attached = FALSE /\ attached' = FALSE
        /\ UNCHANGED <<platform, load, nextId, page, toHost, toPage, streams, bridge, hasJob,
           sweep>>
        /\ task' = [c \in Call |-> IF task[c].pc = "listed" THEN task[c]
                                ELSE Kotlin!CancelJob(task[c])]
    BY <1>1, <1>9 DEF Threads, Kotlin!DestroyScope, Kotlin!CancelScope, Kotlin!pageVars,
       Kotlin!Call, Call
  <2>2. ASSUME NEW c \in Call
        PROVE  /\ KotlinGood(task'[c]) /\ SameTask(task[c], task'[c])
               /\ task[c].cancelled => task'[c].cancelled
    <3> DEFINE u == task[c]
    <3>1. KotlinGood(u)
      BY <1>2
    <3>2. task'[c] = u \/ (u.pc # "off" /\ task'[c] = Kotlin!CancelJob(u))
      <4>1. u.pc = "off" => Kotlin!CancelJob(u) = u
        BY DEF Kotlin!CancelJob
      <4>2. QED
        BY <2>1, <4>1
    <3>3. CASE task'[c] = u
      BY <1>4, <3>1, <3>3
    <3>4. CASE u.pc # "off" /\ task'[c] = Kotlin!CancelJob(u)
      <4> HIDE DEF u
      <4>1. LET t == Kotlin!CancelJob(u) IN
            KotlinGood(t) /\ SameTask(u, t) /\ (u.cancelled => t.cancelled)
        BY <2>1, <3>1, <3>4, KotlinCancels
      <4>2. QED
        BY <3>4, <4>1 DEF u
    <3>5. QED
      BY <3>2, <3>3, <3>4
  <2>3. task' \in [Call -> Task(HostPc, HostState)]
    <3>1. \A c \in Call : task'[c] \in Task(HostPc, HostState)
      BY <2>2, Wide DEF KotlinGood
    <3>2. QED
      BY <2>1, <3>1
  <2>4. Handled /\ activity' \in Kotlin!Activity \ {"alive"}
    BY <2>1 DEF Handled, Kotlin!Activity
  <2>5. QED
    BY <1>3, <2>1, <2>2, <2>3, <2>4, MainThreadShuts
<1>10. QED
  BY <1>5, <1>6, <1>7, <1>8, <1>9 DEF Kotlin!Destroy

(***************************************************************************)
(* The invariant holds.                                                    *)
(***************************************************************************)

(* What a step of the page or of its host is, seen from either side.       *)
HostStep ==
  \/ attached /\ PageNext /\ UNCHANGED <<hostVars, androidVars>>
  \/ \E c \in Call : (Ios \/ Android) /\ (Ios => SwiftKeeps(c)) /\ (Android => KotlinKeeps(c))
  \/ \E d, t : Touch(d, t)
  \/ Still
  \/ Shut

(* Every step of a host has one of these shapes. *)
LEMMA HostSteps ==
  ASSUME HostInv, Next
  PROVE  HostStep
<1>1. CASE Swift!Next /\ UNCHANGED androidVars
  <2>1. CASE Swift!HandleFrame
    BY <1>1, <2>1, SwiftHandles DEF HostStep
  <2>2. CASE Swift!TearDown
    BY <1>1, <2>2, SwiftTears DEF HostStep
  <2>3. CASE attached /\ Swift!PageNext /\ UNCHANGED Swift!hostVars
    <3>1. attached /\ PageNext /\ UNCHANGED <<hostVars, androidVars>>
      BY <1>1, <2>3, SamePage DEF Swift!hostVars, hostVars
    <3>2. QED
      BY <3>1 DEF HostStep
  <2>4. CASE \E c \in Swift!Call : Swift!Runs(c) \/ Swift!Provider(c)
    <3>1. PICK c \in Call : Swift!Runs(c) \/ Swift!Provider(c)
      BY <2>4 DEF Swift!Call, Call
    <3>2. Ios /\ SwiftKeeps(c)
      BY <1>1, <3>1, SwiftTurns
    <3>3. ~Android
      BY <3>2 DEF Ios, Android
    <3>4. QED
      BY <3>2, <3>3 DEF HostStep
  <2>5. QED
    BY <1>1, <2>1, <2>2, <2>3, <2>4 DEF Swift!Next
<1>2. CASE Kotlin!Next
  <2>1. CASE Kotlin!PageStep
    <3>1. attached /\ PageNext /\ UNCHANGED <<hostVars, androidVars>>
      BY <2>1, SamePage DEF Kotlin!PageStep, Kotlin!Waiting, Kotlin!hostVars, hostVars,
         Kotlin!androidVars, androidVars
    <3>2. QED
      BY <3>1 DEF HostStep
  <2>2. CASE Kotlin!BridgeThread
    BY <2>2, KotlinHandles DEF HostStep
  <2>3. CASE Kotlin!Destroy
    <3>1. Android
      <4>1. Threads /\ (Ios \/ Android)
        BY DEF HostInv, Paged, PageTypeOK
      <4>2. QED
        BY <2>3, <4>1 DEF Threads, Kotlin!Destroy, Kotlin!CloseTransport, Kotlin!StartSweep,
           Kotlin!SweepOne, Kotlin!EndSweep, Kotlin!DestroyScope, Kotlin!Android, Android
    <3>2. QED
      BY <2>3, <3>1, KotlinShuts DEF HostStep
  <2>4. CASE \E c \in Kotlin!Call : Kotlin!Runs(c) \/ Kotlin!Service(c)
    <3>1. PICK c \in Call : Kotlin!Runs(c) \/ Kotlin!Service(c)
      BY <2>4 DEF Kotlin!Call, Call
    <3>2. Android /\ KotlinKeeps(c)
      BY <3>1, KotlinTurns
    <3>3. ~Ios
      BY <3>2 DEF Ios, Android
    <3>4. QED
      BY <3>2, <3>3 DEF HostStep
  <2>5. QED
    BY <1>2, <2>1, <2>2, <2>3, <2>4 DEF Kotlin!Next
<1>3. QED
  BY <1>1, <1>2 DEF Next

(* Both hosts start alike. *)
LEMMA HostBegins ==
  ASSUME Init
  PROVE  /\ Ios \/ Android
         /\ PageInit /\ HostInit /\ NoThreads
<1>1. /\ Swift!Ios <=> Ios
      /\ Swift!PageInit <=> PageInit
      /\ Swift!HostInit <=> HostInit
  BY DEF Swift!Ios, Ios, Swift!PageInit, PageInit, Swift!HostInit, HostInit, Swift!Unplaced,
     Unplaced, Swift!Call, Call, Swift!Id, Id, Swift!NoTask, NoTask, Swift!UNARY, UNARY,
     Swift!Untold, Untold, Swift!UNREGISTERED, UNREGISTERED
<1>2. /\ Kotlin!Android <=> Android
      /\ Kotlin!PageInit <=> PageInit
      /\ Kotlin!HostInit <=> HostInit
  BY DEF Kotlin!Android, Android, Kotlin!PageInit, PageInit, Kotlin!HostInit, HostInit,
     Kotlin!Unplaced, Unplaced, Kotlin!Call, Call, Kotlin!Id, Id, Kotlin!NoTask, NoTask,
     Kotlin!UNARY, UNARY, Kotlin!Untold, Untold, Kotlin!UNREGISTERED, UNREGISTERED
<1>3. Kotlin!Init => Android /\ PageInit /\ HostInit /\ NoThreads
  BY <1>2 DEF Kotlin!Init, NoThreads, Kotlin!Call, Call
<1>4. Swift!Init /\ NoThreads => Ios /\ PageInit /\ HostInit /\ NoThreads
  BY <1>1 DEF Swift!Init
<1>5. QED
  BY <1>3, <1>4 DEF Init

(* The invariant holds at first. *)
LEMMA HostInits ==
  ASSUME Init
  PROVE  HostInv
<1>1. /\ Ios \/ Android
      /\ PageInit /\ HostInit /\ NoThreads
  BY HostBegins
<1>2. /\ load = 1 /\ nextId = 1 /\ page = [c \in Call |-> Unplaced] /\ toHost = <<>>
         /\ toPage = <<>>
      /\ streams = [id \in Id |-> 0] /\ task = [c \in Call |-> NoTask] /\ attached = TRUE
      /\ bridge = [at |-> "idle", call |-> 0] /\ hasJob = [c \in Call |-> FALSE]
      /\ activity = "alive" /\ sweep = {}
  BY <1>1 DEF PageInit, HostInit, NoThreads
<1>3. NoTask.pc = "off" /\ SwiftGood(NoTask) /\ KotlinGood(NoTask)
      /\ NoTask \in Task(HostPc, HostState)
  <2>1. /\ NoTask \in Task(Swift!SwiftPc, Swift!SwiftState)
        /\ NoTask \in Task(Kotlin!KotlinPc, Kotlin!KotlinState)
    BY DEF NoTask, Task, Method, Verdict, UNREGISTERED, Swift!SwiftPc, Swift!SwiftState,
       Kotlin!KotlinPc, Kotlin!KotlinState
  <2>2. NoTask.pc = "off" /\ NoTask.verdict = Untold /\ NoTask.interrupted = FALSE
        /\ NoTask.cancelled = FALSE /\ NoTask.late = 0 /\ NoTask.state = "idle"
    BY DEF NoTask
  <2>3. NoTask.interrupted = NoTask.cancelled
    BY <2>2, Zenon
  <2>4. SwiftGood(NoTask)
    BY <2>1, <2>2, <2>3 DEF SwiftGood
  <2>5. KotlinGood(NoTask)
    BY <2>1, <2>2 DEF KotlinGood
  <2>6. QED
    BY <2>1, <2>2, <2>4, <2>5, Wide
<1>4. Unplaced \in PageCall /\ Unplaced.id = 0 /\ ~Unplaced.live /\ ~Unplaced.sending
  BY DEF Unplaced, PageCall, Verdict, MethodType, UNARY, BIDI_STREAMING
<1>5. PageTypeOK
  <2>1. load \in 1..MaxLoads
    BY <1>2, PageAssumption
  <2>2. nextId \in Id \cup {2 * MaxCalls + 1}
    <3>1. CASE MaxCalls = 0
      BY <1>2, <3>1
    <3>2. CASE MaxCalls # 0
      <4>1. 1 \in Call /\ 1 = 2 * 1 - 1
        BY <3>2, PageAssumption DEF Call
      <4>2. QED
        BY <1>2, <4>1 DEF Id
    <3>3. QED
      BY <3>1, <3>2
  <2>3. page \in [Call -> PageCall] /\ toHost \in Seq(OnWire) /\ toPage \in Seq(OnWire)
    BY <1>2, <1>4
  <2>4. QED
    BY <1>1, <2>1, <2>2, <2>3 DEF PageTypeOK
<1>6. Paged
  <2>1. \A c \in Call : c \in Nat /\ c >= 1 /\ page[c] = Unplaced /\ task[c] = NoTask
    BY <1>2, PageAssumption DEF Call
  <2>2. \A c \in Call : nextId <= 2 * c - 1 /\ ~(2 * c - 1 < nextId)
    BY <1>2, <2>1
  <2>3. QED
    BY <1>2, <1>3, <1>4, <1>5, <2>1, <2>2 DEF Paged
<1>7. ToHost(toHost) /\ ToPage(toPage)
  <2>1. 1..Len(toHost) = {} /\ 1..Len(toPage) = {}
    BY <1>2
  <2>2. QED
    BY <2>1 DEF ToHost, ToPage
<1>8. Listed
  BY <1>2 DEF Listed
<1>9. Threads
  BY <1>2 DEF Threads, Kotlin!Activity
<1>10. Tasks
  BY <1>2, <1>3 DEF Tasks
<1>11. QED
  BY <1>6, <1>7, <1>8, <1>9, <1>10 DEF HostInv

(* There are no streams to begin with. *)
LEMMA StartsEmpty ==
  ASSUME Init
  PROVE  /\ task = [c \in Call |-> NoTask] /\ \A c \in Call : task[c] = NoTask
         /\ page = [c \in Call |-> Unplaced] /\ toPage = <<>>
BY HostBegins DEF PageInit, HostInit

(* Every step keeps it. *)
LEMMA HostStepsKeep ==
  ASSUME HostInv, [Next]_vars
  PROVE  HostInv'
<1>1. CASE Next
  <2>1. HostStep
    BY <1>1, HostSteps
  <2>2. CASE \E c \in Call : (Ios \/ Android) /\ (Ios => SwiftKeeps(c))
             /\ (Android => KotlinKeeps(c))
    <3>1. PICK c \in Call : (Ios \/ Android) /\ (Ios => SwiftKeeps(c))
               /\ (Android => KotlinKeeps(c))
      BY <2>2
    <3>2. TaskMove(c) /\ (Ios => SwiftGood(task'[c])) /\ (Android => KotlinGood(task'[c]))
      BY <3>1 DEF SwiftKeeps, KotlinKeeps
    <3>3. QED
      BY <3>2, MoveKeeps
  <2>3. CASE \E d, t : Touch(d, t)
    BY <2>3, TouchKeeps
  <2>4. QED
    BY <2>1, <2>2, <2>3, PageKeeps, StillKeeps, ShutKeeps DEF HostStep
<1>2. CASE UNCHANGED vars
  <2>1. UNCHANGED <<platform, load, nextId, page, toHost, toPage, streams, task, attached, bridge,
                    hasJob, activity, sweep>>
    BY <1>2 DEF vars, pageVars, hostVars, androidVars
  <2>2. Still
    BY <2>1 DEF Still, HostInv, Threads, Android
  <2>3. QED
    BY <2>2, StillKeeps
<1>3. QED
  BY <1>1, <1>2

(* So it always holds. *)
LEMMA HostInvariant == Spec => []HostInv
<1>1. Init => HostInv
  BY HostInits
<1>2. HostInv /\ [Next]_vars => HostInv'
  BY HostStepsKeep
<1>3. QED
  BY <1>1, <1>2, PTL DEF Spec

(***************************************************************************)
(* What the page of a native host can rely on.                             *)
(***************************************************************************)

(* Every variable has its type, and the bridge thread stands inside a      *)
(* handler only for a call whose object exists.                            *)
THEOREM HostTypes == Spec => []TypeOK
<1>1. HostInv => TypeOK
  <2>1. SUFFICES ASSUME HostInv PROVE TypeOK
    OBVIOUS
  <2>2. Ios => task \in [Call -> Task(Swift!SwiftPc, Swift!SwiftState)]
    BY <2>1 DEF HostInv, Tasks, SwiftGood
  <2>3. Android => task \in [Call -> Task(Kotlin!KotlinPc, Kotlin!KotlinState)]
    BY <2>1 DEF HostInv, Tasks, KotlinGood
  <2>4. /\ PageTypeOK /\ streams \in [Id -> Call \cup {0}] /\ attached \in BOOLEAN
        /\ bridge \in [at : {"idle"}, call : {0}] \cup
                [at : {"launch", "assign", "cancel"}, call : Call]
        /\ bridge.call # 0 => task[bridge.call].pc # "off"
        /\ hasJob \in [Call -> BOOLEAN]
        /\ activity \in Kotlin!Activity /\ sweep \subseteq Call
    BY <2>1 DEF HostInv, Paged, Listed, Threads
  <2>5. QED
    BY <2>2, <2>3, <2>4 DEF TypeOK
<1>2. QED
  BY <1>1, HostInvariant, PTL

(* Once the host has cancelled a stream, at most a response that was past  *)
(* its check and one frame that ends the stream still go out.              *)
THEOREM CancelledFallsSilent == Spec => []CancelSilences
<1>1. HostInv => CancelSilences
  BY DEF HostInv, Paged, PageTypeOK, Tasks, SwiftGood, KotlinGood, CancelSilences
<1>2. QED
  BY <1>1, HostInvariant, PTL

(* The map holds no stream whose task is over.                             *)
THEOREM ListedStaysLive == Spec => []ListedIsLive
<1>1. HostInv => ListedIsLive
  BY DEF HostInv, Listed, ListedIsLive
<1>2. QED
  BY <1>1, HostInvariant, PTL

(* Within one load of the page, a stream that is served and has not been   *)
(* cancelled is found under its id.                                        *)
LEMMA LiveKeeps ==
  ASSUME HostInv, LiveIsListed, [Next]_vars
  PROVE  LiveIsListed'
<1>1. /\ Paged /\ page \in [Call -> PageCall] /\ task \in [Call -> Task(HostPc, HostState)]
      /\ streams \in [Id -> Call \cup {0}]
  BY DEF HostInv, Paged, PageTypeOK, Tasks, Listed
<1>2. SUFFICES ASSUME attached', load' = 1, NEW c \in Call,
                      task'[c].pc \notin {"off", "done", "finally"}, ~task'[c].cancelled
               PROVE  streams'[page'[c].id] = c
  BY DEF LiveIsListed, IdOf
<1>3. ASSUME attached, load = 1, task[c].pc \notin {"off", "done", "finally"}, ~task[c].cancelled
      PROVE  streams[page[c].id] = c
  BY <1>3 DEF LiveIsListed, IdOf
<1>4. CASE UNCHANGED <<load, page, streams, task, attached>>
  BY <1>2, <1>3, <1>4
<1>5. CASE PageNext /\ UNCHANGED <<hostVars, androidVars>>
  <2>1. Steady /\ Loads /\ UNCHANGED <<streams, task, attached>>
    BY <1>5, PageKeeps DEF hostVars
  <2>2. page[c].id # 0
    BY <1>1, <1>2, <2>1 DEF Paged
  <2>3. page'[c].id = page[c].id /\ load = 1
    BY <1>2, <2>1, <2>2 DEF Steady, Loads
  <2>4. QED
    BY <1>2, <1>3, <2>1, <2>3
<1>6. ASSUME NEW d \in Call, d # c, page[d].id # 0, load = 1, streams[page[c].id] = c,
             task[c].pc # "off",
             \/ streams' = streams
             \/ streams' = [streams EXCEPT ![page[d].id] = d]
             \/ streams' = [streams EXCEPT ![page[d].id] = 0]
      PROVE  streams'[page[c].id] = c
  <2>1. page[c].id # page[d].id
    BY <1>1, <1>6, OwnIds
  <2> DEFINE i == page[c].id  k == page[d].id
  <2>2. i # k /\ streams[i] = c
    BY <1>6, <2>1
  <2>3. i \in Id /\ k \in Id
    <3>1. page[c] \in PageCall /\ page[d] \in PageCall
      BY <1>1
    <3>2. page[c].id # 0
      BY <1>1, <1>6 DEF Paged
    <3>3. QED
      BY <1>6, <3>1, <3>2 DEF PageCall
  <2>4. \/ streams' = streams
        \/ streams' = [streams EXCEPT ![k] = d]
        \/ streams' = [streams EXCEPT ![k] = 0]
    BY <1>6
  <2> HIDE DEF i, k
  <2>5. streams'[i] = c
    BY <1>1, <2>2, <2>3, <2>4
  <2>6. QED
    BY <2>5 DEF i
<1>7. ASSUME NEW d \in Call, TaskMove(d)
      PROVE  streams'[page'[c].id] = c
  <2> DEFINE u == task[d]  t == task'[d]
  <2>1. /\ task' = [task EXCEPT ![d] = t] /\ UNCHANGED <<load, page, attached>>
        /\ u.pc \notin {"off", "listed", "done"} /\ (u.pc = "finally" => t.pc = "done")
        /\ t.cancelled = u.cancelled
        /\ \/ streams' = streams
           \/ streams' = [streams EXCEPT ![page[d].id] = 0] /\ t.pc \in {"finally", "done"}
    BY <1>7 DEF TaskMove
  <2>2. CASE d = c
    <3>1. u.pc \notin {"off", "done", "finally"} /\ ~u.cancelled /\ streams' = streams
      BY <1>2, <2>1, <2>2
    <3>2. QED
      BY <1>2, <1>3, <2>1, <2>2, <3>1
  <2>3. CASE d # c
    <3>1. task'[c] = task[c]
      BY <1>1, <1>7, <2>1, <2>3
    <3>2. page[d].id # 0
      BY <1>1, <2>1 DEF Paged
    <3>3. streams[page[c].id] = c
      BY <1>2, <1>3, <2>1, <3>1
    <3>4. streams'[page[c].id] = c
      BY <1>2, <1>6, <2>1, <2>3, <3>1, <3>2, <3>3
    <3>5. QED
      BY <2>1, <3>4
  <2>4. QED
    BY <2>2, <2>3
<1>8. ASSUME NEW d, NEW t, Touch(d, t)
      PROVE  streams'[page'[c].id] = c
  <2>1. /\ d \in Call /\ task' = [task EXCEPT ![d] = t] /\ UNCHANGED <<load, page, attached>>
        /\ page[d].id # 0
        /\ \/ streams' = streams
           \/ streams' = [streams EXCEPT ![page[d].id] = d]
           \/ streams' = [streams EXCEPT ![page[d].id] = 0]
        /\ t.pc \notin Over /\ ~t.cancelled =>
             \/ streams'[page[d].id] = d
             \/ streams' = streams /\ task[d].pc \notin Over /\ ~task[d].cancelled
    BY <1>8 DEF Touch
  <2>2. CASE d = c
    <3>1. t.pc \notin Over /\ ~t.cancelled
      BY <1>1, <1>2, <2>1, <2>2 DEF Over
    <3>2. QED
      BY <1>2, <1>3, <2>1, <2>2, <3>1 DEF Over
  <2>3. CASE d # c
    <3>1. task'[c] = task[c]
      BY <1>1, <2>1, <2>3
    <3>2. streams[page[c].id] = c
      BY <1>2, <1>3, <2>1, <3>1
    <3>3. streams'[page[c].id] = c
      BY <1>2, <1>6, <2>1, <2>3, <3>1, <3>2
    <3>4. QED
      BY <2>1, <3>3
  <2>4. QED
    BY <2>2, <2>3
<1>9. CASE HostStep
  <2>1. CASE \E d \in Call : (Ios \/ Android) /\ (Ios => SwiftKeeps(d))
             /\ (Android => KotlinKeeps(d))
    BY <1>7, <2>1 DEF SwiftKeeps, KotlinKeeps
  <2>2. CASE \E d, t : Touch(d, t)
    BY <1>8, <2>2
  <2>3. CASE Still
    BY <1>4, <2>3 DEF Still
  <2>4. CASE Shut
    BY <1>2, <2>4 DEF Shut
  <2>5. QED
    BY <1>5, <1>9, <2>1, <2>2, <2>3, <2>4 DEF HostStep
<1>10. CASE UNCHANGED vars
  BY <1>4, <1>10 DEF vars, pageVars, hostVars
<1>11. QED
  BY <1>9, <1>10, HostSteps

(* LiveIsListed: within one load of the page, a stream that is served and  *)
(* has not been cancelled is found under its id.                           *)
THEOREM LiveStaysListed == Spec => []LiveIsListed
<1>1. Init => LiveIsListed
  <2>1. SUFFICES ASSUME Init PROVE LiveIsListed
    OBVIOUS
  <2>2. \A c \in Call : task[c] = NoTask
    BY <2>1, StartsEmpty
  <2>3. \A c \in Call : task[c].pc = "off"
    BY <2>2 DEF NoTask
  <2>4. QED
    BY <2>3 DEF LiveIsListed
<1>2. HostInv /\ LiveIsListed /\ [Next]_vars => LiveIsListed'
  BY LiveKeeps
<1>3. QED
  BY <1>1, <1>2, HostInvariant, PTL DEF Spec

(* On iOS, the requests of a stream end for a reason.                      *)
LEMMA WholeKeeps ==
  ASSUME HostInv, AllWhole, [Next]_vars
  PROVE  AllWhole'
<1>1. /\ Paged /\ page \in [Call -> PageCall] /\ task \in [Call -> Task(HostPc, HostState)] /\ Tasks
  BY DEF HostInv, Paged, PageTypeOK, Tasks
<1>2. SUFFICES ASSUME Ios', load' = 1, NEW c \in Call
               PROVE  Whole(task'[c], page'[c].halfClosed)
  <2>1. (\A c \in Call : Whole(task'[c], page'[c].halfClosed)) =>
          \A c \in Call : Whole(task[c], page[c].halfClosed)'
    BY DEF Whole
  <2>2. QED
    BY <2>1 DEF AllWhole
<1>3. ASSUME Ios, load = 1
      PROVE  Whole(task[c], page[c].halfClosed)
  BY <1>3 DEF AllWhole
<1>4. page[c].halfClosed \in BOOLEAN
  <2>1. page[c] \in PageCall
    BY <1>1
  <2>2. QED
    BY <2>1 DEF PageCall
<1>5. CASE UNCHANGED <<platform, load, page, task>>
  BY <1>2, <1>3, <1>5 DEF Ios
<1>6. CASE PageNext /\ UNCHANGED <<hostVars, androidVars>>
  <2>1. HostInv' /\ Steady /\ Loads /\ task' = task
    BY <1>6, PageKeeps DEF hostVars
  <2>2. Ios
    BY <1>2, <2>1 DEF Loads, Ios
  <2>3. load = 1
    BY <1>2, <2>1 DEF Loads
  <2>4. CASE page[c].id = 0
    <3>1. task[c] = NoTask
      BY <1>1, <2>2, <2>4 DEF Paged, Tasks, SwiftGood
    <3>2. \A h : Whole(NoTask, h)
      BY DEF Whole, NoTask, Untold, Closed
    <3>3. QED
      BY <2>1, <3>1, <3>2
  <2>5. CASE page[c].id # 0
    <3>1. page[c].halfClosed => page'[c].halfClosed
      BY <2>1, <2>5 DEF Steady
    <3>2. Whole(task[c], page[c].halfClosed)
      BY <1>3, <2>2, <2>3
    <3>3. QED
      BY <2>1, <3>1, <3>2 DEF Whole
  <2>6. QED
    BY <2>4, <2>5
<1>7. ASSUME NEW d \in Call, SwiftKeeps(d)
      PROVE  Whole(task'[c], page'[c].halfClosed)
  <2>1. /\ task' = [task EXCEPT ![d] = task'[d]] /\ UNCHANGED <<platform, load, page>>
        /\ \A h \in BOOLEAN : Whole(task[d], h) => Whole(task'[d], h)
    BY <1>7 DEF SwiftKeeps, TaskMove
  <2>2. Whole(task[c], page[c].halfClosed)
    BY <1>2, <1>3, <2>1 DEF Ios
  <2>3. CASE d = c
    BY <1>4, <2>1, <2>2, <2>3
  <2>4. CASE d # c
    <3>1. task'[c] = task[c]
      BY <1>1, <2>1, <2>4
    <3>2. QED
      BY <2>1, <2>2, <3>1
  <2>5. QED
    BY <2>3, <2>4
<1>8. ASSUME NEW d, NEW t, Touch(d, t)
      PROVE  Whole(task'[c], page'[c].halfClosed)
  <2>1. /\ d \in Call /\ task' = [task EXCEPT ![d] = t] /\ UNCHANGED <<platform, load, page>>
        /\ Ios /\ load = 1 /\ Whole(task[d], page[d].halfClosed) => Whole(t, page[d].halfClosed)
    BY <1>8 DEF Touch
  <2>2. Whole(task[c], page[c].halfClosed) /\ Ios /\ load = 1
    BY <1>2, <1>3, <2>1 DEF Ios
  <2>3. CASE d = c
    <3>1. task'[c] = t
      BY <1>1, <2>1, <2>3
    <3>2. QED
      BY <2>1, <2>2, <2>3, <3>1
  <2>4. CASE d # c
    <3>1. task'[c] = task[c]
      BY <1>1, <2>1, <2>4
    <3>2. QED
      BY <2>1, <2>2, <3>1
  <2>5. QED
    BY <2>3, <2>4
<1>9. CASE Shut
  <2>1. UNCHANGED <<platform, load, page>>
        /\ (Ios => \A h \in BOOLEAN : Whole(task[c], h) => Whole(task'[c], h))
    BY <1>9 DEF Shut
  <2>2. Whole(task[c], page[c].halfClosed) /\ Ios
    BY <1>2, <1>3, <2>1 DEF Ios
  <2>3. QED
    BY <1>4, <2>1, <2>2
<1>10. CASE HostStep
  <2>1. CASE \E d \in Call : (Ios \/ Android) /\ (Ios => SwiftKeeps(d))
             /\ (Android => KotlinKeeps(d))
    <3>1. PICK d \in Call : (Ios \/ Android) /\ (Ios => SwiftKeeps(d))
               /\ (Android => KotlinKeeps(d))
      BY <2>1
    <3>2. platform' = platform
      BY <3>1 DEF SwiftKeeps, KotlinKeeps, TaskMove
    <3>3. Ios
      BY <1>2, <3>2 DEF Ios
    <3>4. QED
      BY <1>7, <3>1, <3>3
  <2>2. CASE \E d, t : Touch(d, t)
    BY <1>8, <2>2
  <2>3. CASE Still
    BY <1>5, <2>3 DEF Still
  <2>4. QED
    BY <1>6, <1>9, <1>10, <2>1, <2>2, <2>3 DEF HostStep
<1>11. CASE UNCHANGED vars
  BY <1>5, <1>11 DEF vars, pageVars, hostVars
<1>12. QED
  BY <1>10, <1>11, HostSteps

(* On iOS, within one load of the page, a handler that was told that its   *)
(* requests had ended, though the page never ended them, does not answer   *)
(* with a good answer.                                                     *)
THEOREM PartialStaysUnanswered == Spec => []PartialNeverAnswered
<1>1. Init => AllWhole
  <2>1. SUFFICES ASSUME Init PROVE AllWhole
    OBVIOUS
  <2>2. \A c \in Call : task[c] = NoTask
    BY <2>1, StartsEmpty
  <2>3. \A h : Whole(NoTask, h)
    BY DEF Whole, NoTask, Untold, Closed
  <2>4. QED
    BY <2>2, <2>3 DEF AllWhole
<1>2. HostInv /\ AllWhole /\ [Next]_vars => AllWhole'
  BY WholeKeeps
<1>3. AllWhole => PartialNeverAnswered
  BY DEF AllWhole, Whole, PartialNeverAnswered
<1>4. QED
  BY <1>1, <1>2, <1>3, HostInvariant, PTL DEF Spec

(***************************************************************************)
(* What the calls of a page hear.                                          *)
(***************************************************************************)

(* A frame that carries response k of call c.  The responses that have     *)
(* been heard (h) and those on the way (q) are among the m there were, and *)
(* none is there twice.                                                    *)
Carries(s, c, k) == s.call = c /\ s.frame.body = "message" /\ s.frame.arg = k
Once(c, h, q, m) ==
  /\ \A i \in 1..Len(h) : /\ h[i][1] = c /\ h[i][2] \in 1..m
                          /\ \A j \in 1..i - 1 : h[j] # h[i]
                          /\ \A j \in 1..Len(q) : ~Carries(q[j], c, h[i][2])
  /\ \A i \in 1..Len(q) : q[i].call = c /\ q[i].frame.body = "message" =>
       /\ q[i].frame.arg \in 1..m
       /\ \A j \in 1..i - 1 : ~Carries(q[j], c, q[i].frame.arg)

(* A frame is put behind the others, or taken out of them.                 *)
Put(q, w, s) ==
  /\ Len(w) = Len(q) + 1 /\ w[Len(q) + 1] = s
  /\ \A i \in 1..Len(q) : w[i] = q[i]
Out(q, w, i) ==
  /\ i \in 1..Len(q) /\ Len(w) = Len(q) - 1
  /\ \A j \in 1..Len(q) - 1 : w[j] = IF j < i THEN q[j] ELSE q[j + 1]

(* A frame behind the others: another one, or the next response. *)
LEMMA OncePut ==
  ASSUME NEW c, NEW h \in Seq(Call \X Nat), NEW q \in Seq(OnWire), NEW w \in Seq(OnWire),
         NEW s \in OnWire, Put(q, w, s), NEW m \in Nat, Once(c, h, q, m)
  PROVE  /\ ~(s.call = c /\ s.frame.body = "message") => Once(c, h, w, m)
         /\ Carries(s, c, m + 1) => Once(c, h, w, m + 1)
<1> DEFINE n == Len(q)
<1>1. n \in Nat /\ Len(w) = n + 1 /\ w[n + 1] = s /\ \A i \in 1..n : w[i] = q[i]
  BY DEF Put
<1>2. /\ \A i \in 1..Len(h) : /\ h[i][1] = c /\ h[i][2] \in 1..m
                              /\ \A j \in 1..i - 1 : h[j] # h[i]
                              /\ \A j \in 1..n : ~Carries(q[j], c, h[i][2])
      /\ \A i \in 1..n : q[i].call = c /\ q[i].frame.body = "message" =>
           /\ q[i].frame.arg \in 1..m
           /\ \A j \in 1..i - 1 : ~Carries(q[j], c, q[i].frame.arg)
  BY DEF Once
<1> HIDE DEF n
<1>3. \A j \in 1..n + 1 : j \in 1..n \/ j = n + 1
  BY <1>1
<1>4. \A j \in 1..n : 1..j - 1 \subseteq 1..n
  BY <1>1
<1>5. CASE ~(s.call = c /\ s.frame.body = "message")
  <2>1. \A k : ~Carries(s, c, k)
    BY <1>5 DEF Carries
  <2>2. \A i \in 1..Len(h) : \A j \in 1..Len(w) : ~Carries(w[j], c, h[i][2])
    BY <1>1, <1>2, <1>3, <2>1
  <2>3. \A i \in 1..Len(w) : w[i].call = c /\ w[i].frame.body = "message" =>
           /\ w[i].frame.arg \in 1..m
           /\ \A j \in 1..i - 1 : ~Carries(w[j], c, w[i].frame.arg)
    BY <1>1, <1>2, <1>3, <1>4, <1>5
  <2>4. Once(c, h, w, m)
    BY <1>2, <2>2, <2>3 DEF Once
  <2>5. QED
    BY <1>5, <2>4 DEF Carries
<1>6. CASE Carries(s, c, m + 1)
  <2>1. \A i \in 1..m : i \in 1..m + 1 /\ ~Carries(s, c, i) /\ i # m + 1
    BY <1>6 DEF Carries
  <2>2. \A i \in 1..Len(h) : \A j \in 1..Len(w) : ~Carries(w[j], c, h[i][2])
    BY <1>1, <1>2, <1>3, <2>1
  <2>3. ASSUME NEW i \in 1..Len(w), w[i].call = c, w[i].frame.body = "message"
        PROVE  /\ w[i].frame.arg \in 1..m + 1
               /\ \A j \in 1..i - 1 : ~Carries(w[j], c, w[i].frame.arg)
    <3>1. CASE i \in 1..n
      BY <1>1, <1>2, <1>4, <2>1, <2>3, <3>1
    <3>2. CASE i = n + 1
      <4>1. w[i].frame.arg = m + 1 /\ m + 1 \in 1..m + 1
        BY <1>1, <1>6, <3>2 DEF Carries
      <4>2. \A j \in 1..n : q[j].call = c /\ q[j].frame.body = "message" => q[j].frame.arg # m + 1
        BY <1>2, <2>1
      <4>3. \A j \in 1..i - 1 : j \in 1..n
        BY <1>1, <3>2
      <4>4. QED
        BY <1>1, <4>1, <4>2, <4>3 DEF Carries
    <3>3. QED
      BY <1>1, <1>3, <3>1, <3>2
  <2>4. \A i \in 1..Len(h) : h[i][2] \in 1..m + 1
    BY <1>2, <2>1
  <2>5. Once(c, h, w, m + 1)
    BY <1>2, <2>2, <2>3, <2>4 DEF Once
  <2>6. QED
    BY <1>6, <2>5 DEF Carries
<1>7. QED
  BY <1>5, <1>6

(* A frame taken out from anywhere: passed over, or heard. *)
LEMMA OnceOut ==
  ASSUME NEW c, NEW h \in Seq(Call \X Nat), NEW q \in Seq(OnWire), NEW w \in Seq(OnWire), NEW i,
         Out(q, w, i), NEW m \in Nat, Once(c, h, q, m)
  PROVE  /\ Once(c, h, w, m)
         /\ \A k, g : Carries(q[i], c, k) /\ g \in Seq(Call \X Nat) /\ Put(h, g, <<c, k>>)
                        => Once(c, g, w, m)
<1> DEFINE n == Len(q)  f(j) == IF j < i THEN j ELSE j + 1
<1>1. /\ n \in Nat /\ i \in 1..n /\ Len(w) = n - 1
      /\ \A j \in 1..n - 1 : w[j] = q[f(j)]
  BY DEF Out
<1>2. /\ \A j \in 1..n - 1 : f(j) \in 1..n /\ f(j) # i
      /\ \A j \in 1..n - 1 : \A l \in 1..j - 1 : l \in 1..n - 1 /\ f(l) \in 1..f(j) - 1
  BY <1>1
<1>3. /\ \A j \in 1..Len(h) : /\ h[j][1] = c /\ h[j][2] \in 1..m
                              /\ \A l \in 1..j - 1 : h[l] # h[j]
                              /\ \A l \in 1..n : ~Carries(q[l], c, h[j][2])
      /\ \A j \in 1..n : q[j].call = c /\ q[j].frame.body = "message" =>
           /\ q[j].frame.arg \in 1..m
           /\ \A l \in 1..j - 1 : ~Carries(q[l], c, q[j].frame.arg)
  BY DEF Once
<1> HIDE DEF n, f
<1>4. Once(c, h, w, m)
  <2>1. ASSUME NEW j \in 1..Len(h), NEW l \in 1..Len(w)
        PROVE  ~Carries(w[l], c, h[j][2])
    <3>1. w[l] = q[f(l)] /\ f(l) \in 1..n
      BY <1>1, <1>2
    <3>2. ~Carries(q[f(l)], c, h[j][2])
      BY <1>3, <3>1
    <3>3. QED
      BY <3>1, <3>2
  <2>2. ASSUME NEW j \in 1..Len(w), w[j].call = c, w[j].frame.body = "message"
        PROVE  /\ w[j].frame.arg \in 1..m
               /\ \A l \in 1..j - 1 : ~Carries(w[l], c, w[j].frame.arg)
    <3>1. j \in 1..n - 1 /\ w[j] = q[f(j)] /\ f(j) \in 1..n
      BY <1>1, <1>2
    <3>2. /\ q[f(j)].frame.arg \in 1..m
          /\ \A l \in 1..f(j) - 1 : ~Carries(q[l], c, q[f(j)].frame.arg)
      BY <1>3, <2>2, <3>1
    <3>3. \A l \in 1..j - 1 : w[l] = q[f(l)] /\ f(l) \in 1..f(j) - 1
      BY <1>1, <1>2, <3>1
    <3>4. QED
      BY <3>1, <3>2, <3>3
  <2>3. QED
    BY <1>3, <2>1, <2>2 DEF Once
<1>5. ASSUME NEW k, NEW g, Carries(q[i], c, k), g \in Seq(Call \X Nat), Put(h, g, <<c, k>>)
      PROVE  Once(c, g, w, m)
  <2> DEFINE o == Len(h)
  <2>1. o \in Nat /\ Len(g) = o + 1 /\ g[o + 1] = <<c, k>> /\ \A j \in 1..o : g[j] = h[j]
    BY <1>5 DEF Put
  <2>2. k \in 1..m /\ q[i].call = c /\ q[i].frame.body = "message" /\ q[i].frame.arg = k
    BY <1>1, <1>3, <1>5 DEF Carries
  <2>3. \A j \in 1..o : h[j][2] # k /\ h[j] # <<c, k>>
    BY <1>1, <1>3, <1>5
  <2>4. ASSUME NEW l \in 1..Len(w)
        PROVE  ~Carries(w[l], c, k)
    <3>1. w[l] = q[f(l)] /\ f(l) \in 1..n /\ f(l) # i
      BY <1>1, <1>2
    <3>2. CASE f(l) < i
      <4>1. f(l) \in 1..i - 1
        BY <1>1, <3>1, <3>2
      <4>2. QED
        BY <1>1, <1>3, <2>2, <3>1, <4>1
    <3>3. CASE f(l) > i
      <4>1. i \in 1..f(l) - 1
        BY <1>1, <3>1, <3>3
      <4>2. QED
        BY <1>3, <1>5, <2>2, <3>1, <4>1 DEF Carries
    <3>4. QED
      BY <1>1, <3>1, <3>2, <3>3
  <2>5. \A j \in 1..o + 1 : j \in 1..o \/ j = o + 1
    BY <2>1
  <2>6. \A j \in 1..o + 1 : \A l \in 1..j - 1 : l \in 1..o
    BY <2>1
  <2>7. /\ \A j \in 1..o : h[j][1] = c /\ h[j][2] \in 1..m /\ \A l \in 1..j - 1 : h[l] # h[j]
        /\ \A j \in 1..o : \A l \in 1..Len(w) : ~Carries(w[l], c, h[j][2])
        /\ \A j \in 1..Len(w) : w[j].call = c /\ w[j].frame.body = "message" =>
             /\ w[j].frame.arg \in 1..m
             /\ \A l \in 1..j - 1 : ~Carries(w[l], c, w[j].frame.arg)
    BY <1>4 DEF Once
  <2> HIDE DEF o
  <2>8. ASSUME NEW j \in 1..o + 1
        PROVE  /\ g[j][1] = c /\ g[j][2] \in 1..m
               /\ \A l \in 1..j - 1 : g[l] # g[j]
               /\ \A l \in 1..Len(w) : ~Carries(w[l], c, g[j][2])
    <3>1. CASE j \in 1..o
      BY <2>1, <2>6, <2>7, <3>1
    <3>2. CASE j = o + 1
      <4>1. g[j] = <<c, k>> /\ g[j][1] = c /\ g[j][2] = k
        BY <2>1, <3>2
      <4>2. \A l \in 1..j - 1 : g[l] = h[l] /\ h[l] # <<c, k>>
        BY <2>1, <2>3, <2>6
      <4>3. QED
        BY <2>2, <2>4, <4>1, <4>2
    <3>3. QED
      BY <2>5, <3>1, <3>2
  <2>9. QED
    BY <2>1, <2>7, <2>8 DEF Once
<1>6. QED
  BY <1>4, <1>5

(* On Android they come in order.  What a call that still listens (open)   *)
(* has not heard is on the way, and its CLOSE is behind it.                *)
InLine(c, h, q, m, v, told, open) ==
  /\ \A i \in 1..Len(h) : h[i] = <<c, i>>
  /\ told = Closed => Len(h) = m /\ v # Untold
  /\ \A i \in 1..Len(q) : q[i].call = c =>
       /\ q[i].frame.body = "message" =>
            \A j \in 1..i - 1 : q[j].call = c => /\ q[j].frame.body = "message"
                                                 /\ q[j].frame.arg < q[i].frame.arg
       /\ q[i].frame.body # "message" => v # Untold
  /\ open => /\ \A k \in Len(h) + 1..m : \E i \in 1..Len(q) : Carries(q[i], c, k)
             /\ \A i \in 1..Len(q) : q[i].call = c /\ q[i].frame.body = "message"
                                      => q[i].frame.arg > Len(h)

(* No more has been heard than there was. *)
LEMMA HeardAll ==
  ASSUME NEW c, NEW h \in Seq(Call \X Nat), NEW q, NEW m \in Nat, NEW v, NEW told, NEW open,
         Once(c, h, q, m), InLine(c, h, q, m, v, told, open)
  PROVE  Len(h) <= m
<1> DEFINE o == Len(h)
<1>1. o \in Nat /\ \A i \in 1..o : h[i] = <<c, i>> /\ h[i][2] \in 1..m
  BY DEF Once, InLine
<1>2. CASE o = 0
  BY <1>2
<1>3. CASE o # 0
  <2>1. o \in 1..o
    BY <1>1, <1>3
  <2>2. h[o] = <<c, o>> /\ h[o][2] \in 1..m
    BY <1>1, <2>1
  <2>3. o \in 1..m
    BY <2>2
  <2>4. QED
    BY <2>3
<1>4. QED
  BY <1>2, <1>3

(* Behind the others there is room for the next response, or for the end. *)
LEMMA InLinePut ==
  ASSUME NEW c, NEW h \in Seq(Call \X Nat), NEW q \in Seq(OnWire), NEW w \in Seq(OnWire),
         NEW s \in OnWire, Put(q, w, s), NEW m \in Nat, NEW v, NEW told, NEW open \in BOOLEAN,
         Once(c, h, q, m), InLine(c, h, q, m, v, told, open)
  PROVE  /\ s.call # c => InLine(c, h, w, m, v, told, open)
         /\ s.call = c /\ s.frame.body # "message" =>
              \A x : x # Untold => InLine(c, h, w, m, x, told, open)
         /\ Carries(s, c, m + 1) /\ v = Untold => InLine(c, h, w, m + 1, v, told, open)
<1> DEFINE n == Len(q)
<1>1. n \in Nat /\ Len(w) = n + 1 /\ w[n + 1] = s /\ \A i \in 1..n : w[i] = q[i]
  BY DEF Put
<1>2. /\ \A i \in 1..Len(h) : h[i] = <<c, i>>
      /\ told = Closed => Len(h) = m /\ v # Untold
      /\ \A i \in 1..n : q[i].call = c =>
           /\ q[i].frame.body = "message" =>
                \A j \in 1..i - 1 : q[j].call = c => /\ q[j].frame.body = "message"
                                                     /\ q[j].frame.arg < q[i].frame.arg
           /\ q[i].frame.body # "message" => v # Untold
      /\ open => /\ \A k \in Len(h) + 1..m : \E i \in 1..n : Carries(q[i], c, k)
                 /\ \A i \in 1..n : q[i].call = c /\ q[i].frame.body = "message"
                                     => q[i].frame.arg > Len(h)
  BY DEF InLine
<1>3. \A i \in 1..n : q[i].call = c /\ q[i].frame.body = "message" => q[i].frame.arg \in 1..m
  BY DEF Once
<1>4. Len(h) \in Nat /\ Len(h) <= m
  BY HeardAll
<1> HIDE DEF n
<1>5. \A j \in 1..n + 1 : j \in 1..n \/ j = n + 1
  BY <1>1
<1>6. (\A j \in 1..n + 1 : \A l \in 1..j - 1 : l \in 1..n) /\ 1..n \subseteq 1..n + 1
  BY <1>1
<1>7. ASSUME open
      PROVE  \A k \in Len(h) + 1..m : \E i \in 1..Len(w) : Carries(w[i], c, k)
  <2>1. ASSUME NEW k \in Len(h) + 1..m
        PROVE  \E i \in 1..Len(w) : Carries(w[i], c, k)
    <3>1. PICK i \in 1..n : Carries(q[i], c, k)
      BY <1>2, <1>7
    <3>2. i \in 1..Len(w) /\ w[i] = q[i]
      BY <1>1, <1>6
    <3>3. QED
      BY <3>1, <3>2
  <2>2. QED
    BY <2>1
<1>8. ASSUME s.call # c
      PROVE  InLine(c, h, w, m, v, told, open)
  <2>1. ASSUME NEW i \in 1..Len(w), w[i].call = c
        PROVE  i \in 1..n /\ w[i] = q[i] /\ \A j \in 1..i - 1 : w[j] = q[j]
    BY <1>1, <1>5, <1>6, <1>8, <2>1
  <2>2. ASSUME NEW i \in 1..Len(w), w[i].call = c
        PROVE  /\ w[i].frame.body = "message" =>
                    \A j \in 1..i - 1 : w[j].call = c => /\ w[j].frame.body = "message"
                                                         /\ w[j].frame.arg < w[i].frame.arg
               /\ w[i].frame.body # "message" => v # Untold
               /\ open /\ w[i].frame.body = "message" => w[i].frame.arg > Len(h)
    BY <1>2, <2>1, <2>2
  <2>3. QED
    BY <1>2, <1>7, <2>2 DEF InLine
<1>9. ASSUME s.call = c, s.frame.body # "message", NEW x, x # Untold
      PROVE  InLine(c, h, w, m, x, told, open)
  <2>1. ASSUME NEW i \in 1..Len(w), w[i].frame.body = "message"
        PROVE  i \in 1..n /\ w[i] = q[i] /\ \A j \in 1..i - 1 : w[j] = q[j]
    BY <1>1, <1>5, <1>6, <1>9, <2>1
  <2>2. ASSUME NEW i \in 1..Len(w), w[i].call = c
        PROVE  /\ w[i].frame.body = "message" =>
                    \A j \in 1..i - 1 : w[j].call = c => /\ w[j].frame.body = "message"
                                                         /\ w[j].frame.arg < w[i].frame.arg
               /\ open /\ w[i].frame.body = "message" => w[i].frame.arg > Len(h)
    BY <1>2, <2>1, <2>2
  <2>3. QED
    BY <1>2, <1>7, <1>9, <2>2 DEF InLine
<1>10. ASSUME Carries(s, c, m + 1), v = Untold
       PROVE  InLine(c, h, w, m + 1, v, told, open)
  <2>1. s.call = c /\ s.frame.body = "message" /\ s.frame.arg = m + 1 /\ told # Closed
    BY <1>2, <1>10 DEF Carries
  <2>2. ASSUME NEW i \in 1..Len(w), w[i].call = c
        PROVE  /\ w[i].frame.body = "message"
               /\ \A j \in 1..i - 1 : w[j].call = c => /\ w[j].frame.body = "message"
                                                       /\ w[j].frame.arg < w[i].frame.arg
               /\ open => w[i].frame.arg > Len(h)
    <3>1. CASE i \in 1..n
      <4>1. w[i] = q[i] /\ \A j \in 1..i - 1 : w[j] = q[j]
        BY <1>1, <1>6, <3>1
      <4>2. QED
        BY <1>2, <1>10, <2>2, <3>1, <4>1
    <3>2. CASE i = n + 1
      <4>1. w[i] = s /\ m + 1 > Len(h)
        BY <1>1, <1>4, <3>2
      <4>2. ASSUME NEW j \in 1..i - 1, w[j].call = c
            PROVE  w[j].frame.body = "message" /\ w[j].frame.arg < m + 1
        <5>1. j \in 1..n /\ w[j] = q[j]
          BY <1>1, <1>6, <3>2
        <5>2. q[j].frame.body = "message"
          BY <1>2, <1>10, <4>2, <5>1
        <5>3. q[j].frame.arg \in 1..m
          BY <1>3, <4>2, <5>1, <5>2
        <5>4. QED
          BY <5>1, <5>2, <5>3
      <4>3. QED
        BY <2>1, <4>1, <4>2
    <3>3. QED
      BY <1>1, <1>5, <3>1, <3>2
  <2>3. ASSUME open, NEW k \in Len(h) + 1..m + 1
        PROVE  \E i \in 1..Len(w) : Carries(w[i], c, k)
    <3>1. CASE k \in Len(h) + 1..m
      BY <1>7, <2>3, <3>1
    <3>2. CASE k = m + 1
      <4>1. n + 1 \in 1..Len(w) /\ Carries(w[n + 1], c, k)
        BY <1>1, <1>10, <3>2
      <4>2. QED
        BY <4>1
    <3>3. QED
      BY <1>4, <3>1, <3>2
  <2>4. QED
    BY <1>2, <1>10, <2>1, <2>2, <2>3 DEF InLine
<1>11. QED
  BY <1>8, <1>9, <1>10

(* The first frame is the next response, or the end after all of them. *)
LEMMA InLineFirst ==
  ASSUME NEW c, NEW h \in Seq(Call \X Nat), NEW q \in Seq(OnWire), NEW w \in Seq(OnWire),
         Out(q, w, 1), NEW m \in Nat, NEW v, NEW told, NEW open \in BOOLEAN,
         Once(c, h, q, m), InLine(c, h, q, m, v, told, open)
  PROVE  /\ q[1].call # c => InLine(c, h, w, m, v, told, open)
         /\ \A x : x = told \/ x # Closed => InLine(c, h, w, m, v, x, FALSE)
         /\ open /\ q[1].call = c /\ q[1].frame.body # "message"
              => InLine(c, h, w, m, v, Closed, FALSE)
         /\ open => \A k, g : Carries(q[1], c, k) /\ g \in Seq(Call \X Nat) /\ Put(h, g, <<c, k>>)
                                /\ told # Closed => InLine(c, g, w, m, v, told, open)
<1> DEFINE n == Len(q)
<1>1. n \in Nat /\ 1 \in 1..n /\ Len(w) = n - 1 /\ \A i \in 1..n - 1 : w[i] = q[i + 1]
  BY DEF Out
<1>2. /\ \A i \in 1..Len(h) : h[i] = <<c, i>>
      /\ told = Closed => Len(h) = m /\ v # Untold
      /\ \A i \in 1..n : q[i].call = c =>
           /\ q[i].frame.body = "message" =>
                \A j \in 1..i - 1 : q[j].call = c => /\ q[j].frame.body = "message"
                                                     /\ q[j].frame.arg < q[i].frame.arg
           /\ q[i].frame.body # "message" => v # Untold
      /\ open => /\ \A k \in Len(h) + 1..m : \E i \in 1..n : Carries(q[i], c, k)
                 /\ \A i \in 1..n : q[i].call = c /\ q[i].frame.body = "message"
                                     => q[i].frame.arg > Len(h)
  BY DEF InLine
<1>3. \A i \in 1..n : q[i].call = c /\ q[i].frame.body = "message" => q[i].frame.arg \in 1..m
  BY DEF Once
<1>4. Len(h) \in Nat /\ Len(h) <= m
  BY HeardAll
<1> HIDE DEF n
<1>5. \A i \in 1..n - 1 : i + 1 \in 1..n /\ \A j \in 1..i - 1 : j \in 1..n - 1
      /\ j + 1 \in 1..i + 1 - 1
  BY <1>1
<1>6. ASSUME NEW i \in 1..Len(w), w[i].call = c
      PROVE  /\ w[i].frame.body = "message" =>
                  \A j \in 1..i - 1 : w[j].call = c => /\ w[j].frame.body = "message"
                                                       /\ w[j].frame.arg < w[i].frame.arg
             /\ w[i].frame.body # "message" => v # Untold
             /\ open /\ w[i].frame.body = "message" => w[i].frame.arg > Len(h)
  <2>1. i \in 1..n - 1 /\ i + 1 \in 1..n /\ w[i] = q[i + 1]
    BY <1>1, <1>5
  <2>2. \A j \in 1..i - 1 : w[j] = q[j + 1] /\ j + 1 \in 1..i + 1 - 1
    BY <1>1, <1>5, <2>1
  <2> DEFINE p == i + 1
  <2>3. p \in 1..n /\ w[i] = q[p] /\ \A j \in 1..i - 1 : w[j] = q[j + 1] /\ j + 1 \in 1..p - 1
    BY <2>1, <2>2
  <2> HIDE DEF p
  <2>4. /\ q[p].frame.body = "message" =>
             \A j \in 1..p - 1 : q[j].call = c => /\ q[j].frame.body = "message"
                                                  /\ q[j].frame.arg < q[p].frame.arg
        /\ q[p].frame.body # "message" => v # Untold
        /\ open /\ q[p].frame.body = "message" => q[p].frame.arg > Len(h)
    BY <1>2, <1>6, <2>3
  <2>5. QED
    BY <2>3, <2>4
<1>7. ASSUME NEW x, x = told \/ x # Closed
      PROVE  InLine(c, h, w, m, v, x, FALSE)
  BY <1>2, <1>6, <1>7 DEF InLine
<1>8. ASSUME NEW i \in 1..n, i # 1
      PROVE  i - 1 \in 1..Len(w) /\ w[i - 1] = q[i]
  <2>1. i - 1 \in 1..n - 1 /\ (i - 1) + 1 = i
    BY <1>1, <1>8
  <2>2. QED
    BY <1>1, <2>1
<1>9. ASSUME q[1].call # c
      PROVE  InLine(c, h, w, m, v, told, open)
  <2>1. ASSUME open, NEW k \in Len(h) + 1..m
        PROVE  \E i \in 1..Len(w) : Carries(w[i], c, k)
    <3>1. PICK i \in 1..n : Carries(q[i], c, k)
      BY <1>2, <2>1
    <3>2. i # 1
      BY <1>9, <3>1 DEF Carries
    <3>3. QED
      BY <1>8, <3>1, <3>2
  <2>2. QED
    BY <1>2, <1>6, <2>1 DEF InLine
<1>10. ASSUME open, q[1].call = c, q[1].frame.body # "message"
       PROVE  InLine(c, h, w, m, v, Closed, FALSE)
  <2>1. v # Untold
    BY <1>1, <1>2, <1>10
  <2>2. \A i \in 1..n : ~(q[i].call = c /\ q[i].frame.body = "message")
    <3>1. ASSUME NEW i \in 1..n, q[i].call = c, q[i].frame.body = "message"
          PROVE  FALSE
      <4>1. i # 1
        BY <1>10, <3>1
      <4>2. 1 \in 1..i - 1
        BY <1>1, <4>1
      <4>3. QED
        BY <1>2, <1>10, <3>1, <4>2
    <3>2. QED
      BY <3>1
  <2>3. Len(h) = m
    <3>1. ASSUME Len(h) # m
          PROVE  FALSE
      <4>1. Len(h) + 1 \in Len(h) + 1..m
        BY <1>4, <3>1
      <4>2. PICK i \in 1..n : Carries(q[i], c, Len(h) + 1)
        BY <1>2, <1>10, <4>1
      <4>3. QED
        BY <2>2, <4>2 DEF Carries
    <3>2. QED
      BY <3>1
  <2>4. QED
    BY <1>2, <1>6, <2>1, <2>3 DEF InLine
<1>11. ASSUME open, NEW k, NEW g, Carries(q[1], c, k), g \in Seq(Call \X Nat), Put(h, g, <<c, k>>),
              told # Closed
       PROVE  InLine(c, g, w, m, v, told, open)
  <2> DEFINE o == Len(h)
  <2>1. /\ o \in Nat /\ Len(g) = o + 1 /\ g[o + 1] = <<c, k>> /\ (\A j \in 1..o : g[j] = h[j])
        /\ o <= m
    BY <1>4, <1>11 DEF Put
  <2>2. q[1].call = c /\ q[1].frame.body = "message" /\ q[1].frame.arg = k /\ k \in 1..m /\ k > o
    BY <1>1, <1>2, <1>3, <1>11 DEF Carries
  <2>3. \A i \in 1..n : i # 1 /\ q[i].call = c /\ q[i].frame.body = "message" => q[i].frame.arg > k
    <3>1. ASSUME NEW i \in 1..n, i # 1, q[i].call = c, q[i].frame.body = "message"
          PROVE  q[i].frame.arg > k
      <4>1. 1 \in 1..i - 1
        BY <1>1, <3>1
      <4>2. q[1].frame.arg < q[i].frame.arg /\ q[i].frame.arg \in 1..m
        BY <1>2, <1>3, <2>2, <3>1, <4>1
      <4>3. QED
        BY <2>2, <4>2
    <3>2. QED
      BY <3>1
  <2>4. \A l \in o + 1..m : \E i \in 1..n : Carries(q[i], c, l)
    BY <1>2, <1>11
  <2> HIDE DEF o
  <2>5. k = o + 1
    <3>1. o + 1 \in o + 1..m
      BY <2>1, <2>2
    <3>2. PICK i \in 1..n : Carries(q[i], c, o + 1)
      BY <2>4, <3>1
    <3>3. CASE i = 1
      BY <2>2, <3>2, <3>3 DEF Carries
    <3>4. CASE i # 1
      <4>1. q[i].frame.arg = o + 1 /\ q[i].frame.arg > k
        BY <2>3, <3>2, <3>4 DEF Carries
      <4>2. QED
        BY <2>1, <2>2, <4>1
    <3>5. QED
      BY <3>3, <3>4
  <2>6. ASSUME NEW l \in Len(g) + 1..m
        PROVE  \E i \in 1..Len(w) : Carries(w[i], c, l)
    <3>1. l \in o + 1..m /\ l # k
      BY <2>1, <2>5
    <3>2. PICK i \in 1..n : Carries(q[i], c, l)
      BY <2>4, <3>1
    <3>3. i # 1
      BY <2>2, <3>1, <3>2 DEF Carries
    <3>4. QED
      BY <1>8, <3>2, <3>3
  <2>7. ASSUME NEW i \in 1..Len(w), w[i].call = c, w[i].frame.body = "message"
        PROVE  w[i].frame.arg > Len(g)
    <3>1. i + 1 \in 1..n /\ w[i] = q[i + 1] /\ i + 1 # 1
      BY <1>1, <1>5
    <3>2. q[i + 1].frame.arg > k
      BY <2>3, <2>7, <3>1
    <3>3. QED
      BY <2>1, <2>5, <3>1, <3>2
  <2>8. \A j \in 1..Len(g) : g[j] = <<c, j>>
    <3>1. \A j \in 1..o : h[j] = <<c, j>>
      BY <1>2 DEF o
    <3>2. \A j \in 1..o + 1 : j \in 1..o \/ j = o + 1
      BY <2>1
    <3>3. QED
      BY <2>1, <2>5, <3>1, <3>2
  <2>9. QED
    BY <1>6, <1>11, <2>6, <2>7, <2>8 DEF InLine
<1>12. QED
  BY <1>7, <1>9, <1>10, <1>11

(* A call that does not listen any more. *)
LEMMA Adrift ==
  ASSUME NEW c, NEW h \in Seq(Call \X Nat), NEW q \in Seq(OnWire), NEW m \in Nat, NEW v, NEW told,
         NEW open \in BOOLEAN, InLine(c, h, q, m, v, told, open)
  PROVE  /\ \A o \in BOOLEAN : (o => open) => InLine(c, h, q, m, v, told, o)
         /\ \A x : x # Untold => InLine(c, h, q, m, x, told, open)
         /\ v = Untold => InLine(c, h, q, m + 1, v, told, FALSE)
         /\ InLine(c, h, <<>>, m, v, told, FALSE)
BY DEF InLine

(* No frames on the way, or more responses than before. *)
LEMMA OnceMore ==
  ASSUME NEW c, NEW h \in Seq(Call \X Nat), NEW q \in Seq(OnWire), NEW m \in Nat, Once(c, h, q, m)
  PROVE  Once(c, h, q, m + 1) /\ Once(c, h, <<>>, m)
<1>1. \A i \in 1..m : i \in 1..m + 1
  OBVIOUS
<1>2. Once(c, h, q, m + 1)
  BY <1>1 DEF Once
<1>3. Once(c, h, <<>>, m)
  BY DEF Once
<1>4. QED
  BY <1>2, <1>3

(* Append puts a frame behind the others. *)
LEMMA PutBehind ==
  ASSUME NEW S, NEW q \in Seq(S), NEW s \in S
  PROVE  Append(q, s) \in Seq(S) /\ Put(q, Append(q, s), s)
BY DEF Put

(* What the host tells its page in one step. *)
Tells ==
  /\ UNCHANGED <<platform, load, page>> /\ (attached' => attached)
  /\ \/ /\ toPage' = toPage \/ (toPage' = <<>> /\ ~attached')
        /\ \A e \in Call : task'[e].made = task[e].made /\ task'[e].verdict = task[e].verdict
     \/ \E d \in Call : \E s \in OnWire :
          /\ s.call = d /\ task[d].verdict = Untold
          /\ toPage' = IF attached THEN Append(toPage, s) ELSE toPage
          /\ \A e \in Call \ {d} : task'[e].made = task[e].made
             /\ task'[e].verdict = task[e].verdict
          /\ \/ /\ Carries(s, d, task[d].made + 1)
                /\ task'[d].made = task[d].made + 1 /\ task'[d].verdict = Untold
             \/ /\ s.frame.body # "message"
                /\ task'[d].made = task[d].made /\ task'[d].verdict # Untold

(* A task that goes on tells the page one thing at most. *)
LEMMA MovesTell ==
  ASSUME HostInv, NEW c \in Call, TaskMove(c)
  PROVE  Tells
<1> DEFINE u == task[c]  t == task'[c]
<1>1. /\ task' = [task EXCEPT ![c] = t] /\ UNCHANGED <<platform, load, page, attached>>
      /\ u.pc # "off" /\ Says(u, t, c)
  BY DEF TaskMove
<1>2. Paged /\ task \in [Call -> Task(HostPc, HostState)]
  BY DEF HostInv, Tasks
<1>3. page[c].id \in Id /\ u.made \in Nat
  <2>1. page[c] \in PageCall /\ page[c].id # 0
    BY <1>1, <1>2 DEF Paged, PageTypeOK
  <2>2. u \in Task(HostPc, HostState)
    BY <1>2
  <2>3. QED
    BY <2>1, <2>2 DEF PageCall, Task
<1>4. \A e \in Call \ {c} : task'[e] = task[e]
  BY <1>1, <1>2
<1>5. u = task[c] /\ t = task'[c]
  OBVIOUS
<1> HIDE DEF u, t
<1>6. CASE toPage' = toPage /\ t.made = u.made /\ t.verdict = u.verdict
  <2>1. \A e \in Call : task'[e].made = task[e].made /\ task'[e].verdict = task[e].verdict
    BY <1>4, <1>5, <1>6
  <2>2. QED
    BY <1>1, <1>6, <2>1 DEF Tells
<1>7. CASE /\ u.verdict = Untold /\ t.verdict = Untold /\ t.made = u.made + 1
           /\ toPage' = IF attached THEN Append(toPage, Message1(c, u.made + 1)) ELSE toPage
  <2> DEFINE s == Message1(c, u.made + 1)
  <2>1. s \in OnWire /\ s.call = c /\ Carries(s, c, u.made + 1)
    BY <1>3 DEF Message1, Sent, MessageFrame, OnWire, WireFrame, Body, Carries
  <2>2. toPage' = IF attached THEN Append(toPage, s) ELSE toPage
    BY <1>7
  <2> HIDE DEF s
  <2>3. QED
    BY <1>1, <1>4, <1>5, <1>7, <2>1, <2>2 DEF Tells
<1>8. CASE /\ u.verdict = Untold /\ t.verdict # Untold /\ t.made = u.made
           /\ \E f \in WireFrame :
                /\ f.streamId = page[c].id /\ f.body \in {"close", "error"}
                /\ toPage' = IF attached THEN Append(toPage, Sent(c, f)) ELSE toPage
  <2>1. PICK f \in WireFrame :
          /\ f.body \in {"close", "error"}
          /\ toPage' = IF attached THEN Append(toPage, Sent(c, f)) ELSE toPage
    BY <1>8
  <2> DEFINE s == Sent(c, f)
  <2>2. s \in OnWire /\ s.call = c /\ s.frame.body # "message"
    BY <2>1 DEF Sent, OnWire
  <2>3. toPage' = IF attached THEN Append(toPage, s) ELSE toPage
    BY <2>1
  <2> HIDE DEF s
  <2>4. QED
    BY <1>1, <1>4, <1>5, <1>8, <2>2, <2>3 DEF Tells
<1>9. QED
  BY <1>1, <1>6, <1>7, <1>8 DEF Says

(* A frame that is handled tells the page of a refusal at most. *)
LEMMA TouchTells ==
  ASSUME HostInv, NEW d, NEW t, Touch(d, t)
  PROVE  Tells
<1>1. /\ d \in Call /\ task' = [task EXCEPT ![d] = t]
         /\ UNCHANGED <<platform, load, page, attached>>
      /\ t.made = task[d].made
      /\ \/ toPage' = toPage /\ t.verdict = task[d].verdict
         \/ /\ task[d].pc = "off" /\ t.verdict \notin {Untold, Closed}
            /\ \E f \in WireFrame :
                 /\ f.streamId = page[d].id /\ f.body = "error"
                 /\ toPage' = IF attached THEN Append(toPage, Sent(d, f)) ELSE toPage
  BY DEF Touch
<1>2. task'[d] = t /\ \A e \in Call \ {d} : task'[e] = task[e]
  BY <1>1 DEF HostInv, Tasks
<1>3. CASE toPage' = toPage /\ t.verdict = task[d].verdict
  <2>1. \A e \in Call : task'[e].made = task[e].made /\ task'[e].verdict = task[e].verdict
    BY <1>1, <1>2, <1>3
  <2>2. QED
    BY <1>1, <1>3, <2>1 DEF Tells
<1>4. CASE /\ task[d].pc = "off" /\ t.verdict \notin {Untold, Closed}
           /\ \E f \in WireFrame :
                /\ f.streamId = page[d].id /\ f.body = "error"
                /\ toPage' = IF attached THEN Append(toPage, Sent(d, f)) ELSE toPage
  <2>1. task[d].verdict = Untold
    <3>1. task[d] = NoTask
      BY <1>1, <1>4 DEF HostInv, Paged, PageTypeOK, Tasks, SwiftGood, KotlinGood
    <3>2. QED
      BY <3>1 DEF NoTask
  <2>2. PICK f \in WireFrame :
          /\ f.body = "error"
          /\ toPage' = IF attached THEN Append(toPage, Sent(d, f)) ELSE toPage
    BY <1>4
  <2> DEFINE s == Sent(d, f)
  <2>3. s \in OnWire /\ s.call = d /\ s.frame.body # "message"
    BY <1>1, <2>2 DEF Sent, OnWire
  <2>4. toPage' = IF attached THEN Append(toPage, s) ELSE toPage
    BY <2>2
  <2> HIDE DEF s
  <2>5. task'[d].verdict # Untold /\ task'[d].made = task[d].made
    BY <1>1, <1>2, <1>4
  <2>6. QED
    BY <1>1, <1>2, <2>1, <2>3, <2>4, <2>5 DEF Tells
<1>5. QED
  BY <1>1, <1>3, <1>4

(* Every step of the host tells its page one thing at most.                *)
LEMMA HostTells ==
  ASSUME HostInv, [Next]_vars
  PROVE  Tells \/ (attached /\ PageNext /\ UNCHANGED <<hostVars, androidVars>>)
<1>1. CASE HostStep
  <2>1. CASE \E c \in Call : (Ios \/ Android) /\ (Ios => SwiftKeeps(c))
             /\ (Android => KotlinKeeps(c))
    BY <2>1, MovesTell DEF SwiftKeeps, KotlinKeeps
  <2>2. CASE \E d, t : Touch(d, t)
    BY <2>2, TouchTells
  <2>3. CASE Still
    BY <2>3 DEF Still, Tells
  <2>4. CASE Shut
    BY <2>4 DEF Shut, Tells
  <2>5. QED
    BY <1>1, <2>1, <2>2, <2>3, <2>4 DEF HostStep
<1>2. CASE UNCHANGED vars
  BY <1>2 DEF vars, pageVars, hostVars, Tells
<1>3. QED
  BY <1>1, <1>2, HostSteps

(***************************************************************************)
(* A call hears its own responses, each once; from an Android host it      *)
(* hears them in order.                                                    *)
(***************************************************************************)
Listens(c)  == attached /\ page[c].live /\ page[c].told = Untold
OwnHeard(c) == Once(c, page[c].heard, toPage, task[c].made)
InOrder(c)  == InLine(c, page[c].heard, toPage, task[c].made, task[c].verdict,
                      page[c].told, Listens(c))
AllHeard    == load = 1 => \A c \in Call : OwnHeard(c) /\ (Android => InOrder(c))

(* The types of what is compared. *)
LEMMA Lengths ==
  ASSUME HostInv, NEW c \in Call
  PROVE  /\ page[c] \in PageCall /\ page[c].heard \in Seq(Call \X Nat) /\ toPage \in Seq(OnWire)
         /\ task[c].made \in Nat /\ Listens(c) \in BOOLEAN
<1>1. page[c] \in PageCall /\ toPage \in Seq(OnWire)
  BY DEF HostInv, Paged, PageTypeOK
<1>2. task[c] \in Task(HostPc, HostState)
  BY DEF HostInv, Tasks
<1>3. page[c].heard \in Seq(Call \X Nat) /\ task[c].made \in Nat
  BY <1>1, <1>2 DEF PageCall, Task
<1>4. Listens(c) \in BOOLEAN
  BY DEF Listens
<1>5. QED
  BY <1>1, <1>3, <1>4

(* A step of the host puts one frame at most behind those on the way.      *)
LEMMA TellsKeep ==
  ASSUME HostInv, AllHeard, Tells
  PROVE  AllHeard'
<1> SUFFICES ASSUME load' = 1, NEW c \in Call
             PROVE  OwnHeard(c)' /\ (Android' => InOrder(c)')
  BY DEF AllHeard
<1> DEFINE h == page[c].heard  q == toPage  w == toPage'  m == task[c].made  x == task'[c].made
           v == task[c].verdict  y == task'[c].verdict  told == page[c].told
           open == Listens(c)  o == Listens(c)'
<1>1. UNCHANGED <<platform, load, page>> /\ (attached' => attached)
  BY DEF Tells
<1>2. h \in Seq(Call \X Nat) /\ q \in Seq(OnWire) /\ m \in Nat /\ open \in BOOLEAN
  BY Lengths
<1>3. Once(c, h, q, m) /\ (Android => InLine(c, h, q, m, v, told, open))
  BY <1>1 DEF AllHeard, OwnHeard, InOrder
<1>4. o \in BOOLEAN /\ (o => open) /\ (~attached => ~o /\ ~open) /\ (~attached' => ~o)
  BY <1>1 DEF Listens
<1>5. ASSUME Once(c, h, w, x), Android => InLine(c, h, w, x, y, told, o)
      PROVE  OwnHeard(c)' /\ (Android' => InOrder(c)')
  BY <1>1, <1>5 DEF OwnHeard, InOrder, Android
<1>6. CASE /\ toPage' = toPage \/ (toPage' = <<>> /\ ~attached')
           /\ x = m /\ y = v
  <2> HIDE DEF h, q, w, m, x, v, y, told, open, o
  <2>1. CASE w = q
    <3>1. Android => InLine(c, h, w, x, y, told, o)
      BY <1>2, <1>3, <1>4, <1>6, <2>1, Adrift
    <3>2. QED
      BY <1>3, <1>5, <1>6, <2>1, <3>1
  <2>2. CASE w = <<>> /\ ~attached'
    <3>1. o = FALSE
      BY <1>4, <2>2
    <3>2. Once(c, h, w, x)
      BY <1>2, <1>3, <1>6, <2>2, OnceMore
    <3>3. Android => InLine(c, h, w, x, y, told, o)
      BY <1>2, <1>3, <1>6, <2>2, <3>1, Adrift
    <3>4. QED
      BY <1>5, <3>2, <3>3
  <2>3. QED
    BY <1>6, <2>1, <2>2 DEF q, w
<1>7. ASSUME NEW d \in Call, NEW s \in OnWire, s.call = d, task[d].verdict = Untold,
             toPage' = IF attached THEN Append(toPage, s) ELSE toPage,
             \A e \in Call \ {d} : task'[e].made = task[e].made
             /\ task'[e].verdict = task[e].verdict,
             \/ /\ Carries(s, d, task[d].made + 1)
                /\ task'[d].made = task[d].made + 1 /\ task'[d].verdict = Untold
             \/ /\ s.frame.body # "message"
                /\ task'[d].made = task[d].made /\ task'[d].verdict # Untold
      PROVE  OwnHeard(c)' /\ (Android' => InOrder(c)')
  <2>1. \/ s.call # c /\ x = m /\ y = v
        \/ s.call = c /\ v = Untold /\ s.frame.body # "message" /\ x = m /\ y # Untold
        \/ s.call = c /\ v = Untold /\ Carries(s, c, m + 1) /\ x = m + 1 /\ y = v
    BY <1>7
  <2>2. w = IF attached THEN Append(q, s) ELSE q
    BY <1>7
  <2> HIDE DEF h, q, w, m, x, v, y, told, open, o
  <2>3. CASE attached
    <3>1. w \in Seq(OnWire) /\ Put(q, w, s)
      BY <1>2, <1>7, <2>2, <2>3, PutBehind
    <3>2. Once(c, h, w, x)
      <4>1. h \in Seq(Call \X Nat)
        BY <1>2
      <4>2. q \in Seq(OnWire)
        BY <1>2
      <4>3. w \in Seq(OnWire)
        BY <3>1
      <4>4. Put(q, w, s)
        BY <3>1
      <4>5. m \in Nat
        BY <1>2
      <4>6. Once(c, h, q, m)
        BY <1>3
      <4>7. s \in OnWire
        BY <1>7
      <4>8. /\ ~(s.call = c /\ s.frame.body = "message") => Once(c, h, w, m)
            /\ Carries(s, c, m + 1) => Once(c, h, w, m + 1)
        BY <4>1, <4>2, <4>3, <4>4, <4>5, <4>6, <4>7, OncePut
      <4>9. QED
        BY <2>1, <4>8
    <3>3. ASSUME Android
          PROVE  InLine(c, h, w, x, y, told, open)
      <4>1. InLine(c, h, q, m, v, told, open)
        BY <1>3, <3>3
      <4>2. /\ s.call # c => InLine(c, h, w, m, v, told, open)
            /\ s.call = c /\ s.frame.body # "message" =>
                 \A z : z # Untold => InLine(c, h, w, m, z, told, open)
            /\ Carries(s, c, m + 1) /\ v = Untold => InLine(c, h, w, m + 1, v, told, open)
        <5>1. h \in Seq(Call \X Nat)
          BY <1>2
        <5>2. q \in Seq(OnWire)
          BY <1>2
        <5>3. w \in Seq(OnWire)
          BY <3>1
        <5>4. Put(q, w, s)
          BY <3>1
        <5>5. m \in Nat
          BY <1>2
        <5>6. Once(c, h, q, m)
          BY <1>3
        <5>7. s \in OnWire
          BY <1>7
        <5>8. open \in BOOLEAN
          BY <1>2
        <5>9. QED
          BY <4>1, <5>1, <5>2, <5>3, <5>4, <5>5, <5>6, <5>7, <5>8, InLinePut
      <4>3. QED
        BY <2>1, <4>2
    <3>4. Android => InLine(c, h, w, x, y, told, o)
      <4>1. x \in Nat
        BY <1>2, <2>1
      <4>2. QED
        BY <1>2, <1>4, <3>1, <3>3, <4>1, Adrift
    <3>5. QED
      BY <1>5, <3>2, <3>4
  <2>4. CASE ~attached
    <3>1. w = q /\ open = FALSE /\ o = FALSE
      BY <1>2, <1>4, <2>2, <2>4
    <3>2. Once(c, h, w, x)
      BY <1>2, <1>3, <2>1, <3>1, OnceMore
    <3>3. ASSUME Android
          PROVE  InLine(c, h, w, x, y, told, FALSE)
      <4>1. InLine(c, h, q, m, v, told, FALSE)
        BY <1>3, <3>1, <3>3
      <4>2. /\ \A z : z # Untold => InLine(c, h, q, m, z, told, FALSE)
            /\ v = Untold => InLine(c, h, q, m + 1, v, told, FALSE)
        BY <1>2, <4>1, Adrift
      <4>3. QED
        BY <2>1, <3>1, <4>1, <4>2
    <3>4. QED
      BY <1>5, <3>1, <3>2, <3>3
  <2>5. QED
    BY <2>3, <2>4
<1>8. QED
  BY <1>6, <1>7 DEF Tells

(* A call that has just been placed has heard nothing, and nothing is on   *)
(* its way.                                                                *)
LEMMA NothingYet ==
  ASSUME NEW c, NEW q \in Seq(OnWire), \A i \in 1..Len(q) : q[i].call # c, NEW open \in BOOLEAN
  PROVE  Once(c, <<>>, q, 0) /\ InLine(c, <<>>, q, 0, Untold, Untold, open)
<1>1. Len(<<>>) = 0 /\ 1..0 = {} /\ Untold # Closed
  BY DEF Untold, Closed
<1>2. Once(c, <<>>, q, 0)
  BY <1>1 DEF Once, Carries
<1>3. \A k \in 0 + 1..0 : FALSE
  OBVIOUS
<1>4. InLine(c, <<>>, q, 0, Untold, Untold, open)
  BY <1>1, <1>3 DEF InLine, Carries
<1>5. QED
  BY <1>2, <1>4

(* What a call does takes nothing out of the frames on the way to it.      *)
LEMMA MovesHear ==
  ASSUME HostInv, AllHeard, attached, NEW d \in Call, PageMove(d),
         UNCHANGED <<hostVars, androidVars>>
  PROVE  AllHeard'
<1> SUFFICES ASSUME load' = 1, NEW c \in Call
             PROVE  OwnHeard(c)' /\ (Android' => InOrder(c)')
  BY DEF AllHeard
<1>1. PICK r, frames : PageTurn(d, r, frames)
  BY DEF PageMove
<1>2. /\ r \in PageCall /\ page' = [page EXCEPT ![d] = r] /\ UNCHANGED <<platform, load, toPage>>
      /\ \/ page[d].id = 0 /\ r.heard = <<>> /\ r.told = Untold
         \/ r.heard = page[d].heard /\ r.told = page[d].told /\ (r.live => page[d].live)
  BY <1>1 DEF PageTurn, Placing
<1>3. page \in [Call -> PageCall] /\ UNCHANGED <<task, attached>>
  BY DEF HostInv, Paged, PageTypeOK, hostVars
<1> DEFINE h == page[c].heard  q == toPage  m == task[c].made
           v == task[c].verdict  told == page[c].told  open == Listens(c)  o == Listens(c)'
<1>4. h \in Seq(Call \X Nat) /\ q \in Seq(OnWire) /\ m \in Nat /\ open \in BOOLEAN
  BY Lengths
<1>5. Once(c, h, q, m) /\ (Android => InLine(c, h, q, m, v, told, open))
  BY <1>2 DEF AllHeard, OwnHeard, InOrder
<1>6. o \in BOOLEAN
  BY DEF Listens
<1>7. CASE page'[c].heard = h /\ page'[c].told = told /\ (page'[c].live => page[c].live)
  <2>1. o => open
    BY <1>3, <1>7 DEF Listens
  <2>2. Android => InLine(c, h, q, m, v, told, o)
    <3> HIDE DEF h, q, m, v, told, open, o
    <3>1. QED
      BY <1>4, <1>5, <1>6, <2>1, Adrift
  <2>3. OwnHeard(c)'
    BY <1>2, <1>3, <1>5, <1>7 DEF OwnHeard
  <2>4. Android' => InOrder(c)'
    BY <1>2, <1>3, <1>7, <2>2 DEF InOrder, Android
  <2>5. QED
    BY <2>3, <2>4
<1>8. CASE page[c].id = 0 /\ page'[c].heard = <<>> /\ page'[c].told = Untold
  <2>1. task[c] = NoTask
    BY <1>8 DEF HostInv, Paged, PageTypeOK, Tasks, SwiftGood, KotlinGood
  <2>2. task[c].pc = "off" /\ m = 0 /\ v = Untold
    BY <2>1 DEF NoTask
  <2>3. \A i \in 1..Len(q) : q[i].call # c
    BY <2>2 DEF HostInv, ToPage
  <2>4. Once(c, <<>>, q, 0) /\ InLine(c, <<>>, q, 0, Untold, Untold, o)
    <3> HIDE DEF q, o
    <3>1. QED
      BY <1>4, <1>6, <2>3, NothingYet
  <2>5. OwnHeard(c)'
    BY <1>2, <1>3, <1>8, <2>2, <2>4 DEF OwnHeard
  <2>6. InOrder(c)'
    BY <1>2, <1>3, <1>8, <2>2, <2>4 DEF InOrder
  <2>7. QED
    BY <2>5, <2>6
<1>9. QED
  <2>1. CASE c = d
    BY <1>2, <1>3, <1>7, <1>8, <2>1
  <2>2. CASE c # d
    BY <1>2, <1>3, <1>7, <2>2
  <2>3. QED
    BY <2>1, <2>2

(* Within one load of the page, a frame is heard by the call that it was   *)
(* sent for, if that one listens, and by no other.                         *)
LEMMA HeardByItsCall ==
  ASSUME HostInv, load = 1, NEW i \in 1..Len(toPage), NEW c \in Call
  PROVE  c \in Hearing(toPage[i].frame.streamId)
           <=> toPage[i].call = c /\ page[c].live /\ page[c].told = Untold
<1> DEFINE s == toPage[i]
<1>1. s.call \in Call /\ s.frame.streamId # 0
  BY OnTheWay DEF HostInv, Paged, PageTypeOK
<1>2. page[s.call].id = s.frame.streamId /\ Paged
  BY DEF HostInv, ToPage
<1> HIDE DEF s
<1>3. page[c].id = s.frame.streamId <=> s.call = c
  BY <1>1, <1>2, OwnIds
<1>4. c \in Hearing(s.frame.streamId) <=> page[c].live /\ page[c].id = s.frame.streamId
      /\ page[c].told = Untold
  BY DEF Hearing
<1>5. QED
  BY <1>3, <1>4 DEF s

(* A frame that arrives leaves those on the way, and is heard.             *)
LEMMA DeliverHears ==
  ASSUME HostInv, AllHeard, attached, Deliver, UNCHANGED <<hostVars, androidVars>>
  PROVE  AllHeard'
<1> SUFFICES ASSUME load' = 1, NEW c \in Call
             PROVE  OwnHeard(c)' /\ (Android' => InOrder(c)')
  BY DEF AllHeard
<1>1. PICK i \in 1..Len(toPage) :
        /\ Android => i = 1
        /\ toPage' = RemoveAt(toPage, i)
        /\ page' = [e \in Call |-> IF e \in Hearing(toPage[i].frame.streamId)
                                   THEN Hear(page[e], toPage[i]) ELSE page[e]]
        /\ platform' = platform /\ load' = load
  <2>1. toPage \in Seq(OnWire)
    BY DEF HostInv, Paged, PageTypeOK
  <2>2. DOMAIN toPage = 1..Len(toPage)
    BY <2>1
  <2>3. QED
    BY <2>2 DEF Deliver, MayArrive
<1>2. UNCHANGED <<task, attached>>
  BY DEF hostVars
<1> DEFINE h == page[c].heard  q == toPage  w == toPage'  m == task[c].made
           v == task[c].verdict  told == page[c].told  open == Listens(c)  o == Listens(c)'
           s == q[i]  g == page'[c].heard  z == page'[c].told
<1>3. h \in Seq(Call \X Nat) /\ q \in Seq(OnWire) /\ m \in Nat /\ open \in BOOLEAN
      /\ page[c] \in PageCall
  BY Lengths
<1>4. Once(c, h, q, m) /\ (Android => InLine(c, h, q, m, v, told, open))
  BY <1>1 DEF AllHeard, OwnHeard, InOrder
<1>5. w \in Seq(OnWire) /\ Out(q, w, i) /\ i \in 1..Len(q)
  BY <1>1, <1>3, TakenOut DEF Out
<1>6. s \in OnWire /\ s.frame.body \in {"message", "close", "error"}
  BY <1>3, OnTheWay DEF HostInv, ToPage
<1>7. Once(c, h, w, m)
  <2> HIDE DEF h, q, w, m
  <2>1. QED
    BY <1>3, <1>4, <1>5, OnceOut
<1>8. ASSUME Once(c, g, w, m), Android => InLine(c, g, w, m, v, z, o)
      PROVE  OwnHeard(c)' /\ (Android' => InOrder(c)')
  BY <1>1, <1>2, <1>8 DEF OwnHeard, InOrder, Android
<1>9. CASE c \notin Hearing(s.frame.streamId)
  <2>1. page'[c] = page[c]
    BY <1>1, <1>9
  <2>2. g = h /\ z = told /\ o = open /\ (s.call = c => open = FALSE)
    BY <1>1, <1>2, <1>9, <2>1, HeardByItsCall DEF Listens
  <2> HIDE DEF h, q, w, m, v, told, open, o, s, g, z
  <2>3. ASSUME Android
        PROVE  InLine(c, h, w, m, v, told, open)
    <3>1. Out(q, w, 1) /\ s = q[1]
      BY <1>1, <1>5, <2>3 DEF s
    <3>2. InLine(c, h, q, m, v, told, open)
      BY <1>4, <2>3
    <3>3. /\ q[1].call # c => InLine(c, h, w, m, v, told, open)
          /\ InLine(c, h, w, m, v, told, FALSE)
      BY <1>3, <1>4, <1>5, <3>1, <3>2, InLineFirst
    <3>4. QED
      BY <2>2, <3>1, <3>3
  <2>4. QED
    BY <1>7, <1>8, <2>2, <2>3
<1>10. CASE c \in Hearing(s.frame.streamId)
  <2>1. s.call = c /\ page[c].live /\ page[c].told = Untold
    BY <1>1, <1>10, HeardByItsCall
  <2>2. open = TRUE /\ told = Untold /\ told # Closed
    BY <2>1 DEF Listens, Untold, Closed
  <2> DEFINE t == Hear(page[c], s)
  <2>3. page'[c] = t
    BY <1>1, <1>10
  <2>4. /\ t.live = page[c].live
        /\ s.frame.body = "message" => t.heard = Append(h, <<s.call, s.frame.arg>>) /\ t.told = told
        /\ s.frame.body # "message" => t.heard = h
        /\ s.frame.body = "close" => t.told = Closed
        /\ s.frame.body = "error" => t.told \notin {Untold, Closed}
    <3> HIDE DEF s
    <3>1. QED
      BY <1>3, <1>6, Hears
  <2>5. o <=> z = Untold
    BY <1>2, <2>1, <2>3, <2>4 DEF Listens
  <2>6. g = t.heard /\ z = t.told
    BY <2>3
  <2>7. o \in BOOLEAN
    BY DEF Listens
  <2> HIDE DEF h, q, w, m, v, told, open, o, s, g, z, t
  <2>8. CASE s.frame.body = "message"
    <3> DEFINE k == s.frame.arg
    <3>1. k \in Nat /\ Carries(s, c, k)
      BY <1>6, <2>1, <2>8 DEF OnWire, WireFrame, Carries
    <3>2. g = Append(h, <<c, k>>) /\ z = told /\ o = TRUE
      BY <2>1, <2>2, <2>4, <2>5, <2>6, <2>7, <2>8
    <3> HIDE DEF k
    <3>3. g \in Seq(Call \X Nat) /\ Put(h, g, <<c, k>>)
      BY <1>3, <3>1, <3>2, PutBehind
    <3>4. Carries(q[i], c, k)
      BY <3>1 DEF s
    <3>5. Once(c, g, w, m)
      BY <1>3, <1>4, <1>5, <3>3, <3>4, OnceOut
    <3>6. ASSUME Android
          PROVE  InLine(c, g, w, m, v, told, open)
      <4>1. Out(q, w, 1) /\ Carries(q[1], c, k)
        BY <1>1, <1>5, <3>4, <3>6
      <4>2. InLine(c, h, q, m, v, told, open)
        BY <1>4, <3>6
      <4>3. open => \A kk, gg : Carries(q[1], c, kk) /\ gg \in Seq(Call \X Nat)
            /\ Put(h, gg, <<c, kk>>)
                                /\ told # Closed => InLine(c, gg, w, m, v, told, open)
        BY <1>3, <1>4, <1>5, <4>1, <4>2, InLineFirst
      <4>4. QED
        BY <2>2, <3>3, <4>1, <4>3
    <3>7. QED
      BY <1>8, <2>2, <3>2, <3>5, <3>6
  <2>9. CASE s.frame.body # "message"
    <3>1. g = h /\ o = FALSE
      BY <1>6, <2>4, <2>5, <2>6, <2>7, <2>9 DEF Untold, Closed
    <3>2. ASSUME Android
          PROVE  InLine(c, h, w, m, v, z, FALSE)
      <4>1. Out(q, w, 1) /\ s = q[1]
        BY <1>1, <1>5, <3>2 DEF s
      <4>2. InLine(c, h, q, m, v, told, open)
        BY <1>4, <3>2
      <4>3. /\ \A x : x = told \/ x # Closed => InLine(c, h, w, m, v, x, FALSE)
            /\ open /\ q[1].call = c /\ q[1].frame.body # "message"
                 => InLine(c, h, w, m, v, Closed, FALSE)
        BY <1>3, <1>4, <1>5, <4>1, <4>2, InLineFirst
      <4>4. CASE z = Closed
        BY <2>1, <2>2, <2>9, <4>1, <4>3, <4>4
      <4>5. CASE z # Closed
        BY <4>3, <4>5
      <4>6. QED
        BY <4>4, <4>5
    <3>3. QED
      BY <1>7, <1>8, <3>1, <3>2
  <2>10. QED
    BY <2>8, <2>9
<1>11. QED
  BY <1>9, <1>10

(* Every step keeps what the calls have heard and will hear.               *)
LEMMA HeardKeeps ==
  ASSUME HostInv, AllHeard, [Next]_vars
  PROVE  AllHeard'
<1>1. CASE Tells
  BY <1>1, TellsKeep
<1>2. CASE attached /\ PageNext /\ UNCHANGED <<hostVars, androidVars>>
  <2>1. Paged /\ toHost \in Seq(OnWire)
    BY DEF HostInv, Paged, PageTypeOK
  <2>2. CASE Reload
    <3>1. load' = load + 1 /\ load \in 1..MaxLoads
      BY <2>1, <2>2 DEF Reload, Paged, PageTypeOK
    <3>2. load' # 1
      BY <3>1, PageAssumption
    <3>3. QED
      BY <3>2 DEF AllHeard
  <2>3. CASE Deliver
    BY <1>2, <2>3, DeliverHears
  <2>4. CASE \E c \in Call : PageMove(c)
    BY <1>2, <2>4, MovesHear
  <2>5. QED
    BY <1>2, <2>1, <2>2, <2>3, <2>4, PlacingMoves, GoingMoves DEF PageNext
<1>3. QED
  BY <1>1, <1>2, HostTells

(* So it always holds. *)
LEMMA HeardInvariant == Spec => []AllHeard
<1>1. Init => AllHeard
  <2> SUFFICES ASSUME Init, NEW c \in Call
               PROVE  OwnHeard(c) /\ InOrder(c)
    BY DEF AllHeard
  <2>1. /\ page = [e \in Call |-> Unplaced] /\ toPage = <<>> /\ task = [e \in Call |-> NoTask]
    BY StartsEmpty
  <2>2. page[c].heard = <<>> /\ page[c].told = Untold /\ task[c].made = 0
        /\ task[c].verdict = Untold
    BY <2>1 DEF Unplaced, NoTask
  <2>3. toPage \in Seq(OnWire) /\ Listens(c) \in BOOLEAN
        /\ \A i \in 1..Len(toPage) : toPage[i].call # c
    BY <2>1 DEF Listens
  <2>4. QED
    BY <2>2, <2>3, NothingYet DEF OwnHeard, InOrder
<1>2. HostInv /\ AllHeard /\ [Next]_vars => AllHeard'
  BY HeardKeeps
<1>3. QED
  BY <1>1, <1>2, HostInvariant, PTL DEF Spec

(* HearsOwn: within one load of the page, a call hears its own responses   *)
(* only, and none of them twice.                                           *)
THEOREM OwnResponsesHeard == Spec => []HearsOwn
<1>1. HostInv /\ AllHeard => HearsOwn
  <2> SUFFICES ASSUME HostInv, AllHeard, load = 1, NEW c \in Call, NEW i \in DOMAIN page[c].heard
               PROVE  /\ page[c].heard[i][1] = c /\ page[c].heard[i][2] <= task[c].made
                      /\ \A j \in 1..i - 1 : page[c].heard[j] # page[c].heard[i]
    BY DEF HearsOwn
  <2>1. i \in 1..Len(page[c].heard) /\ task[c].made \in Nat
    BY Lengths
  <2>2. Once(c, page[c].heard, toPage, task[c].made)
    BY DEF AllHeard, OwnHeard
  <2>3. QED
    BY <2>1, <2>2 DEF Once
<1>2. QED
  BY <1>1, HostInvariant, HeardInvariant, PTL

(* HearsInOrder: within one load of the page, a call of an Android host    *)
(* hears the responses in the order they were sent, and CLOSE after all of *)
(* them.                                                                   *)
THEOREM HeardInOrder == Spec => []HearsInOrder
<1>1. HostInv /\ AllHeard => HearsInOrder
  <2> SUFFICES ASSUME HostInv, AllHeard, Android, load = 1, NEW c \in Call
               PROVE  /\ \A i \in DOMAIN page[c].heard : page[c].heard[i] = <<c, i>>
                      /\ page[c].told = Closed => Len(page[c].heard) = task[c].made
    BY DEF HearsInOrder
  <2>1. DOMAIN page[c].heard = 1..Len(page[c].heard)
    BY Lengths
  <2>2. InLine(c, page[c].heard, toPage, task[c].made, task[c].verdict, page[c].told, Listens(c))
    BY DEF AllHeard, InOrder
  <2>3. QED
    BY <2>1, <2>2 DEF InLine
<1>2. QED
  BY <1>1, HostInvariant, HeardInvariant, PTL
=====
