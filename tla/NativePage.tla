----------------------------- MODULE NativePage -----------------------------
(***************************************************************************)
(* The page of a native host: an RpcClient over a NativeWebViewTransport   *)
(* inside a WKWebView or an Android WebView, seen from the native side.    *)
(* RpcClient itself is modelled in detail by RpcClient.tla; here it is the *)
(* frames a call sends, and what it hears.                                 *)
(*                                                                         *)
(* Two things set the native hosts apart.  The page may be loaded again    *)
(* while the host lives on: the new page counts its streams from 1 again,  *)
(* and nobody tells the host.  And the way back to the page is the         *)
(* platform's: the script calls of an Android host are posted in order     *)
(* to one looper, those of an iOS host each run in a task of their own.    *)
(***************************************************************************)
EXTENDS Frames, SequencesExt

CONSTANTS MaxCalls,     \* bound on the calls made, over all loads of the page
          MaxLoads,     \* bound on the loads of the page
          MaxRequests,  \* bound on the requests of a call
          MaxResponses, \* bound on the responses of a call
          Plans,        \* the pairs <<pattern, what the name finds>> of calls made
          Cuts,         \* whether the page of an iOS host may find its bridge object gone
          Newer,        \* the platforms whose page may send a body the host does not know
          ShutsDown     \* whether the host may be shut down

(* A method that its registered service does not have. *)
NO_SUCH_METHOD == 6
Patterns       == MethodType \X (Method \cup {NO_SUCH_METHOD})

ASSUME PageAssumption ==
  /\ MaxCalls \in Nat /\ MaxLoads \in Nat \ {0} /\ MaxRequests \in Nat /\ MaxResponses \in Nat
  /\ Plans \subseteq Patterns
  /\ {Cuts, ShutsDown} \subseteq BOOLEAN

Call == 1..MaxCalls
Id   == {2 * k - 1 : k \in Call}

VARIABLES platform,  \* whose web view it is: "ios" or "android"
          load,      \* how many times the page has been loaded
          nextId,    \* StreamManager.nextStreamId of the current load
          page,      \* what each call has sent and heard
          toHost,    \* frames on the way to the host
          toPage     \* frames on the way to the page

pageVars == <<platform, load, nextId, page, toHost, toPage>>

Ios     == platform = "ios"
Android == platform = "android"

(* A frame on the way, with the call it was sent for: the wire carries     *)
(* only the stream id, and no step of either side depends on the call.     *)
Sent(c, frame)   == [call |-> c, frame |-> frame]
SentAll(c, fs)   == [i \in DOMAIN fs |-> Sent(c, fs[i])]
UnknownFrame(id) == [streamId |-> id, body |-> "unknown", arg |-> 0]
WireFrame == [streamId : Id, body : Body \cup {"unknown"}, arg : Nat]
OnWire    == [call : Call, frame : WireFrame]

(* How a stream ended: an error code, a CLOSE, or neither yet. *)
Closed  == 98
Untold  == 99
Verdict == RpcStatusCode \cup {Closed, Untold}

(* live: the call's stream is in the map of the current page.              *)
(* sending: its request loop runs.  told: the CLOSE or ERROR it heard.     *)
PageCall == [id : Id \cup {0}, pattern : MethodType, live : BOOLEAN, sending : BOOLEAN,
             asked : Nat, halfClosed : BOOLEAN, cancelled : BOOLEAN,
             heard : Seq(Call \X Nat), told : Verdict]
Unplaced == [id |-> 0, pattern |-> UNARY, live |-> FALSE, sending |-> FALSE, asked |-> 0,
             halfClosed |-> FALSE, cancelled |-> FALSE, heard |-> <<>>, told |-> Untold]

PageTypeOK ==
  /\ Ios \/ Android
  /\ load \in 1..MaxLoads /\ nextId \in Id \cup {2 * MaxCalls + 1}
  /\ page \in [Call -> PageCall]
  /\ toHost \in Seq(OnWire) /\ toPage \in Seq(OnWire)

PageInit ==
  /\ load = 1 /\ nextId = 1
  /\ page = [c \in Call |-> Unplaced]
  /\ toHost = <<>> /\ toPage = <<>>

Post(c, frames) == toHost' = toHost \o SentAll(c, frames)
Set(c, update)  == page' = [page EXCEPT ![c] = update]
MayAct          == Android => toHost = <<>>   \* a send returns when the host has handled it

(* The first call not made yet. *)
Placing(c) == page[c].id = 0 /\ \A d \in 1..c - 1 : page[d].id # 0

Opening(pattern, method) ==
  IF pattern \in {UNARY, SERVER_STREAMING}
  THEN <<OpenFrame(nextId, method), MessageFrame(nextId, 1), HalfCloseFrame(nextId)>>
  ELSE <<OpenFrame(nextId, method)>>

Placed(pattern) ==
  LET single == pattern \in {UNARY, SERVER_STREAMING}
  IN  [Unplaced EXCEPT !.id = nextId, !.pattern = pattern, !.live = TRUE,
         !.sending = ~single, !.halfClosed = single, !.asked = IF single THEN 1 ELSE 0]

(* A plausible slip: the counter takes every number. *)
NextIdDense == nextId + 1

(* createStream leaves the even numbers to the other side. *)
NextId == nextId + 2

(* The stretch of unary, serverStream, clientStream and bidiStream up to   *)
(* their first await.                                                      *)
PlaceCall(c) ==
  /\ MayAct /\ Placing(c)
  /\ \E plan \in Plans :
       /\ Post(c, Opening(plan[1], plan[2]))
       /\ Set(c, Placed(plan[1]))
  /\ nextId' = NextId
  /\ UNCHANGED <<platform, load, toPage>>

(* The same, when sendRaw stops finding the script handler part way (it is *)
(* gone while the iOS view is covered): the call is rejected, and what it  *)
(* had sent stays sent.  Its CANCEL is lost as well.                       *)
PlaceFails(c) ==
  /\ Cuts /\ Ios /\ Placing(c)
  /\ \E plan \in Plans : \E n \in 0..Len(Opening(plan[1], plan[2])) - 1 :
       /\ Post(c, SubSeq(Opening(plan[1], plan[2]), 1, n))
       /\ Set(c, [Placed(plan[1]) EXCEPT !.live = FALSE, !.sending = FALSE,
                                         !.halfClosed = FALSE, !.asked = IF n > 1 THEN 1 ELSE 0])
  /\ nextId' = NextId
  /\ UNCHANGED <<platform, load, toPage>>

(* One turn of the request loop.  A CLOSE does not end it. *)
SendRequest(c) ==
  /\ MayAct /\ page[c].live /\ page[c].sending /\ page[c].told \in {Untold, Closed}
  /\ page[c].asked < MaxRequests
  /\ Post(c, <<MessageFrame(page[c].id, page[c].asked + 1)>>)
  /\ Set(c, [page[c] EXCEPT !.asked = @ + 1])
  /\ UNCHANGED <<platform, load, nextId, toPage>>

(* The requests are over: HALF_CLOSE if the stream is still open. *)
EndRequests(c) ==
  /\ MayAct /\ page[c].live /\ page[c].sending
  /\ LET open == page[c].told = Untold IN
       /\ Post(c, IF open THEN <<HalfCloseFrame(page[c].id)>> ELSE <<>>)
       /\ Set(c, [page[c] EXCEPT !.sending = FALSE, !.halfClosed = open])
  /\ UNCHANGED <<platform, load, nextId, toPage>>

(* An abort: CANCEL from the abort listener and again from the catch       *)
(* clause of the call, which then leaves the map.                          *)
Abort(c) ==
  /\ MayAct /\ page[c].live /\ page[c].told = Untold
  /\ Post(c, <<CancelFrame(page[c].id), CancelFrame(page[c].id)>>)
  /\ Set(c, [page[c] EXCEPT !.live = FALSE, !.sending = FALSE, !.cancelled = TRUE])
  /\ UNCHANGED <<platform, load, nextId, toPage>>

(* A deadline that fires, or a consumer that leaves its loop: the call     *)
(* leaves the map and sends nothing.                                       *)
Forget(c) ==
  /\ MayAct /\ page[c].live /\ page[c].told = Untold
  /\ Set(c, [page[c] EXCEPT !.live = FALSE, !.sending = FALSE])
  /\ UNCHANGED <<platform, load, nextId, toHost, toPage>>

(* A frame whose body a newer protocol defined: sent while no other frame  *)
(* is on the way, to bound what there is to check.                         *)
SendUnknown(c) ==
  /\ platform \in Newer /\ toHost = <<>> /\ page[c].live /\ page[c].told = Untold
  /\ Post(c, <<UnknownFrame(page[c].id)>>)
  /\ UNCHANGED <<platform, load, nextId, page, toPage>>

(* The page is loaded again: its calls are gone and its ids start anew.    *)
(* Frames on their way stay on their way.                                  *)
Reload ==
  /\ MayAct /\ load < MaxLoads
  /\ load' = load + 1 /\ nextId' = 1
  /\ page' = [c \in Call |-> [page[c] EXCEPT !.live = FALSE, !.sending = FALSE]]
  /\ UNCHANGED <<platform, toHost, toPage>>

(* What handleFrame and the stream of the call make of a frame. *)
Hear(call, sent) ==
  CASE sent.frame.body = "message" ->
         [call EXCEPT !.heard = Append(@, <<sent.call, sent.frame.arg>>)]
    [] sent.frame.body = "close"   -> [call EXCEPT !.told = Closed]
    [] sent.frame.body = "error"   ->
         [call EXCEPT !.told = FromFrame(sent.frame.arg), !.sending = FALSE]

(* A plausible slip: whoever still listens hears it. *)
HearingAny(id) == {c \in Call : page[c].live /\ page[c].told = Untold}

Hearing(id) == {c \in Call : page[c].live /\ page[c].id = id /\ page[c].told = Untold}

(* A plausible slip: a task of its own for every frame. *)
MayArriveAny(i) == i \in DOMAIN toPage

(* Whether frame i of toPage may arrive next. *)
MayArrive(i) == i \in DOMAIN toPage /\ (Android => i = 1)

(* The global callback of the current page is called with a frame: the     *)
(* stream of that id hears it, if there is one.                            *)
Deliver ==
  \E i \in DOMAIN toPage :
    /\ MayArrive(i)
    /\ toPage' = RemoveAt(toPage, i)
    /\ page' = [c \in Call |-> IF c \in Hearing(toPage[i].frame.streamId)
                               THEN Hear(page[c], toPage[i]) ELSE page[c]]
    /\ UNCHANGED <<platform, load, nextId, toHost>>

PageNext ==
  \/ Reload \/ Deliver
  \/ \E c \in Call : \/ PlaceCall(c) \/ PlaceFails(c) \/ SendRequest(c) \/ EndRequests(c)
                     \/ Abort(c) \/ Forget(c) \/ SendUnknown(c)
=============================================================================
