----------------------------- MODULE NativeHost -----------------------------
(***************************************************************************)
(* What the two native servers have in common: a map from stream ids to    *)
(* stream objects, a task (iOS) or coroutine (Android) per object, and     *)
(* frames sent to the page from it.  An OPEN makes at most one object, so  *)
(* objects are named by the call that opened them; the map is by id, and   *)
(* several objects may have had the same one.                              *)
(***************************************************************************)
EXTENDS NativePage

VARIABLES streams,   \* the map: the call whose object is registered under an id, or 0
          task,      \* the object of each call and the task that serves it
          attached   \* FALSE once the native transport has been shut down

hostVars == <<streams, task, attached>>

(* state      the state of the stream object                               *)
(* interrupted  whether its task or job has been cancelled                 *)
(* cancelled  whether the host has begun to cancel the stream              *)
(* queue      requests the handler has not pulled                          *)
(* finished   whether the request stream was finished                      *)
(* taken      the requests the handler was given; ended: told of their end *)
(* made       responses sent; verdict: the CLOSE or ERROR sent             *)
(* late       frames that went out since then                              *)
Task(pcs, states) ==
  [pc : pcs, method : Method \cup {NO_SUCH_METHOD}, state : states, interrupted : BOOLEAN,
   cancelled : BOOLEAN, queue : Seq(Call \X Nat), finished : BOOLEAN,
   taken : Seq(Call \X Nat), ended : BOOLEAN,
   made : Nat, verdict : Verdict, late : Nat]
NoTask == [pc |-> "off", method |-> UNREGISTERED, state |-> "idle", interrupted |-> FALSE,
           cancelled |-> FALSE, queue |-> <<>>, finished |-> FALSE, taken |-> <<>>, ended |-> FALSE,
           made |-> 0, verdict |-> Untold, late |-> 0]

HostInit ==
  /\ streams = [id \in Id |-> 0]
  /\ task = [c \in Call |-> NoTask]
  /\ attached = TRUE

Update(c, t)  == task' = [task EXCEPT ![c] = t]
Goto(c, pc)   == task' = [task EXCEPT ![c].pc = pc]
Unlist(id)    == streams' = [streams EXCEPT ![id] = 0]
IdOf(c)       == page[c].id

(* Frames from the host: a transport that is shut down drops them.         *)
Reply(c, frame) ==
  /\ toPage' = IF attached THEN Append(toPage, Sent(c, frame)) ELSE toPage
  /\ UNCHANGED <<platform, load, nextId, page, toHost>>

(* The object counts what its task sends. *)
Counting(t) == [t EXCEPT !.late = IF t.cancelled /\ attached THEN @ + 1 ELSE @]
SendMessage(c, pc) ==
  /\ Reply(c, MessageFrame(IdOf(c), task[c].made + 1))
  /\ Update(c, [Counting(task[c]) EXCEPT !.made = @ + 1, !.pc = pc])
SendClose(c, pc) ==
  /\ Reply(c, CloseFrame(IdOf(c)))
  /\ Update(c, [Counting(task[c]) EXCEPT !.verdict = Closed, !.pc = pc])
SendFailure(c, code, pc) ==
  /\ Reply(c, ErrorFrame(IdOf(c), code))
  /\ Update(c, [Counting(task[c]) EXCEPT !.verdict = code, !.pc = pc])

(* The next frame from the page, and its receipt. *)
Arrived(body) == toHost # <<>> /\ toHost[1].frame.body = body
Receipt  == toHost' = Tail(toHost) /\ UNCHANGED <<platform, load, nextId, page>>
Received == Receipt /\ UNCHANGED toPage
From     == toHost[1].call
Frame1   == toHost[1].frame
Target   == streams[Frame1.streamId]

(* An OPEN that is refused: ERROR, and no object. *)
Refuse(code) ==
  /\ Receipt
  /\ toPage' = IF attached THEN Append(toPage, Sent(From, ErrorFrame(Frame1.streamId, code)))
                           ELSE toPage
  /\ task' = [task EXCEPT ![From] = [@ EXCEPT !.verdict = code, !.pc = "done"]]

(* A plausible slip: the newest request first. *)
TakeNewest(t) == [t EXCEPT !.taken = Append(@, Last(t.queue)), !.queue = Front(@)]

Take(t) == [t EXCEPT !.taken = Append(@, Head(t.queue)), !.queue = Tail(@)]

(* Methods whose handler is given a stream of requests, and those whose    *)
(* result is a stream of responses.                                        *)
StreamsRequests(t)  == t.method \in {CLIENT_STREAMING, BIDI_STREAMING}
StreamsResponses(t) == t.method \in {SERVER_STREAMING, BIDI_STREAMING}
=============================================================================
