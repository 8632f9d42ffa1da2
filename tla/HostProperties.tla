--------------------------- MODULE HostProperties ---------------------------
(***************************************************************************)
(* What a native host owes its page, whichever host it is.                 *)
(***************************************************************************)
EXTENDS NativeHost

Stage(c) == CASE task[c].pc = "off" -> "none" [] task[c].pc = "done" -> "over" [] OTHER -> "serving"

Contract == INSTANCE HostContract WITH
  Calls <- Call, Codes <- RpcStatusCode, Methods <- Method \cup {NO_SUCH_METHOD},
  Single <- {UNARY, CLIENT_STREAMING},
  stage     <- [c \in Call |-> Stage(c)],
  method    <- [c \in Call |-> task[c].method],
  asked     <- [c \in Call |-> page[c].asked],
  taken     <- [c \in Call |-> task[c].taken],
  made      <- [c \in Call |-> task[c].made],
  verdict   <- [c \in Call |-> task[c].verdict],
  cancelled <- [c \in Call |-> task[c].cancelled]

(* The host implements the contract of a stream: its requests reach the    *)
(* handler in order, its answer has the shape of its pattern, nothing      *)
(* follows CLOSE or ERROR, and only cancelled streams end without one.     *)
ImplementsContract == Contract!Spec

(* Once the host has cancelled a stream, at most a response that was past  *)
(* its check and one frame that ends the stream still go out.              *)
CancelSilences == \A c \in Call : task[c].late <= 2

(* The map holds no stream whose task is over.                             *)
ListedIsLive ==
  attached => \A id \in Id : streams[id] # 0 => task[streams[id]].pc \notin {"off", "done"}

(* Within one load of the page, a stream that is served and has not been  *)
(* cancelled is found under its id: its requests, its HALF_CLOSE and its   *)
(* CANCEL reach it.                                                        *)
LiveIsListed ==
  attached /\ load = 1 =>
    \A c \in Call : task[c].pc \notin {"off", "done", "finally"} /\ ~task[c].cancelled
                     => streams[IdOf(c)] = c

(* Within one load of the page, a call hears its own responses only, and   *)
(* none of them twice.                                                     *)
HearsOwn ==
  load = 1 => \A c \in Call : \A i \in DOMAIN page[c].heard :
    /\ page[c].heard[i][1] = c /\ page[c].heard[i][2] <= task[c].made
    /\ \A j \in 1..i - 1 : page[c].heard[j] # page[c].heard[i]

(* docs/TRADEOFFS.md: "Frames are delivered in order within a single       *)
(* transport."  An Android host keeps it: within one load of the page, a   *)
(* call hears the responses of its stream in the order they were sent, and *)
(* CLOSE after all of them.                                                *)
HearsInOrder ==
  Android /\ load = 1 => \A c \in Call :
    /\ \A i \in DOMAIN page[c].heard : page[c].heard[i] = <<c, i>>
    /\ page[c].told = Closed => Len(page[c].heard) = task[c].made

(* On iOS, within one load of the page, a handler that was told that its   *)
(* requests had ended, though the page never ended them, is a cancelled    *)
(* one: no answer it computes from part of the requests goes out as a good *)
(* one.  (After a reload the frames of a new call reach an old stream that *)
(* still has its id, its HALF_CLOSE too.)                                  *)
PartialNeverAnswered ==
  Ios /\ load = 1 =>
    \A c \in Call : task[c].ended /\ ~page[c].halfClosed => task[c].verdict # Closed

(* A call that stays is told CLOSE or ERROR at last, unless the host is    *)
(* shut down first.                                                        *)
Answered == \A c \in Call : [](page[c].live => <>(page[c].told # Untold \/ ~page[c].live \/ ~attached))

(* When the transport has been shut down, the task of every stream ends.   *)
ShutDownEndsTasks == \A c \in Call : [](~attached => <>(task[c].pc \in {"off", "done"}))

(* docs/COMPATIBILITY.md, Unknown Body Variant Tolerance: "Receivers MUST  *)
(* silently ignore frames where no recognized body key is found."          *)
UnknownIsIgnored ==
  [][toHost # <<>> /\ toHost[1].frame.body = "unknown" /\ toHost' = Tail(toHost)
       => UNCHANGED <<streams, task>>]_<<toHost, streams, task>>
=============================================================================
