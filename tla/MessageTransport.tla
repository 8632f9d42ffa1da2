--------------------------- MODULE MessageTransport ---------------------------
(***************************************************************************)
(* Two ends of a message channel, each a MessageTransportBase: message     *)
(* ports (MessagePortTransport), an Electron port pair (the preload        *)
(* script's transport and the main process's), or windows that post to     *)
(* each other (PostMessageTransport).  RpcWire is what the two runtimes    *)
(* see of it; here are the lists of handlers, the turns that call them,    *)
(* and what a handler may do to its transport meanwhile.                   *)
(*                                                                         *)
(* An end runs one turn at a time.  Within a turn a frame handler may      *)
(* close the transport, whose close handlers then run inside the turn.     *)
(***************************************************************************)
EXTENDS Naturals, Sequences, SequencesExt

CONSTANTS Links,        \* the kinds of channel there are
          Runtime,      \* the RpcClient or RpcServer of an end
          Others,       \* further handlers the application may register
          Observed,     \* the ends where it may: a bound, the ends are alike
          MaxFrames     \* bound on the frames an end sends

ASSUME TransportAssumption ==
  /\ Links \subseteq {"port", "electron", "window"}
  /\ Observed \subseteq {"page", "host"} /\ Runtime \notin Others /\ MaxFrames \in Nat

End     == {"page", "host"}
Peer(e) == IF e = "page" THEN "host" ELSE "page"
Handler == {Runtime} \cup Others

(* What is on the wire: numbered frames, text that does not parse, and, at *)
(* a window, messages of another origin or channel.                        *)
Frame   == 1..MaxFrames
Garbled == MaxFrames + 1
Foreign == MaxFrames + 2

VARIABLES link,   \* the kind of channel
          end,    \* the transport object of each end
          wire,   \* what is on the way to each end
          sent    \* how many frames each end has sent

vars == <<link, end, wire, sent>>

(* life: before its construction, after it, and when its page is gone.     *)
(* frame, snapshot, next: the turn of a frame, 0 when there is none, the   *)
(* handlers it is for and the next of them.                                *)
(* closing: the next close handler to call, 0 outside of close().          *)
(* due, heard: the frames each handler should hear, and has heard.         *)
(* told: how often each close handler was called.                          *)
Transport == [life : {"absent", "up", "gone"}, isOpen : BOOLEAN,
              frameHandlers : Seq(Handler), closeHandlers : Seq(Handler),
              frame : Frame \cup {0}, snapshot : Seq(Handler), next : Nat, closing : Nat,
              due : [Handler -> Seq(Frame)], heard : [Handler -> Seq(Frame)],
              told : [Handler -> Nat]]
Absent == [life |-> "absent", isOpen |-> FALSE, frameHandlers |-> <<>>, closeHandlers |-> <<>>,
           frame |-> 0, snapshot |-> <<>>, next |-> 1, closing |-> 0,
           due |-> [h \in Handler |-> <<>>], heard |-> [h \in Handler |-> <<>>],
           told |-> [h \in Handler |-> 0]]

Init ==
  /\ link \in Links
  /\ end = [e \in End |-> Absent] /\ wire = [e \in End |-> <<>>] /\ sent = [e \in End |-> 0]

Set(e, x) == end' = [end EXCEPT ![e] = x] /\ UNCHANGED link
Local(e, x) == Set(e, x) /\ UNCHANGED <<wire, sent>>

(* No callback runs; some code of the application may run.                 *)
Idle(x)   == x.frame = 0 /\ x.closing = 0
MayAct(x) == x.life = "up" /\ (x.frame # 0 => x.next > 1) /\ (x.closing # 0 => x.closing > 1)

(***************************************************************************)
(* What the application does, between turns or inside a handler.           *)
(***************************************************************************)

(* The constructor listens; the runtime built on it registers its handlers *)
(* in the same turn.                                                       *)
Construct(e) ==
  /\ end[e].life = "absent"
  /\ Local(e, [Absent EXCEPT !.life = "up", !.isOpen = TRUE,
                             !.frameHandlers = <<Runtime>>, !.closeHandlers = <<Runtime>>])

OnFrame(e) ==
  /\ MayAct(end[e]) /\ e \in Observed
  /\ \E h \in Others \ Range(end[e].frameHandlers) :
       Local(e, [end[e] EXCEPT !.frameHandlers = Append(@, h)])

(* The function onFrame returns.  The runtimes never call theirs. *)
Unsubscribe(e) ==
  /\ MayAct(end[e])
  /\ \E i \in DOMAIN end[e].frameHandlers :
       /\ end[e].frameHandlers[i] # Runtime
       /\ Local(e, [end[e] EXCEPT !.frameHandlers = RemoveAt(@, i)])

OnClose(e) ==
  /\ MayAct(end[e]) /\ e \in Observed
  /\ \E h \in Others \ Range(end[e].closeHandlers) :
       Local(e, [end[e] EXCEPT !.closeHandlers = Append(@, h)])

Send(e) ==
  /\ MayAct(end[e]) /\ end[e].isOpen /\ sent[e] < MaxFrames
  /\ sent' = [sent EXCEPT ![e] = @ + 1]
  /\ wire' = [wire EXCEPT ![Peer(e)] = Append(@, sent[e] + 1)]
  /\ UNCHANGED <<link, end>>

(* A plausible slip: close() inside close() starts over. *)
MayCloseTwice(x) == x.isOpen \/ x.closing # 0

(* A transport closes once. *)
MayClose(x) == x.isOpen

Closing(x) == [x EXCEPT !.isOpen = FALSE, !.closing = 1]

Close(e) == MayAct(end[e]) /\ MayClose(end[e]) /\ Local(e, Closing(end[e]))

(***************************************************************************)
(* Turns.                                                                  *)
(***************************************************************************)

(* onmessage, the message event, the listener: removed by close(). *)
Listening(x) == x.life = "up" /\ x.isOpen

(* A plausible slip: the port is started before there is a transport. *)
KeptNever(e) == FALSE

(* A port keeps what arrives until the transport starts it. *)
Kept(e) == link # "window" /\ end[e].life = "absent"

(* A frame goes to the handlers registered at that moment, text that does  *)
(* not parse to the error handlers, a foreign message to nobody.           *)
Dispatched(x, item) ==
  IF item \notin Frame THEN x
  ELSE [x EXCEPT !.frame = item, !.snapshot = x.frameHandlers, !.next = 1,
                 !.due = [h \in Handler |-> IF h \in Range(x.frameHandlers)
                                            THEN Append(@[h], item) ELSE @[h]]]

Arrive(e) ==
  /\ wire[e] # <<>> /\ ~Kept(e) /\ Idle(end[e])
  /\ Set(e, IF Listening(end[e]) THEN Dispatched(end[e], Head(wire[e])) ELSE end[e])
  /\ wire' = [wire EXCEPT ![e] = Tail(@)]
  /\ UNCHANGED sent

(* A plausible slip: the list itself is iterated, not a copy. *)
CalledLive(x) == x.frameHandlers

(* const handlers = [...this.frameHandlers] *)
Called(x) == x.snapshot

Hearing(x, h) == [x.heard EXCEPT ![h] = Append(@, x.frame)]

CallHandler(e) ==
  LET x == end[e] IN
  /\ x.frame # 0 /\ x.closing = 0 /\ x.next <= Len(Called(x))
  /\ Local(e, [x EXCEPT !.heard = Hearing(x, Called(x)[x.next]), !.next = @ + 1])

EndDispatch(e) ==
  LET x == end[e] IN
  /\ x.frame # 0 /\ x.closing = 0 /\ x.next > Len(Called(x))
  /\ Local(e, [x EXCEPT !.frame = 0, !.snapshot = <<>>, !.next = 1])

(* The close handlers, those registered meanwhile included. *)
Telling(x, h) == [x.told EXCEPT ![h] = @ + 1]

CallCloser(e) ==
  LET x == end[e] IN
  /\ x.closing # 0 /\ x.closing <= Len(x.closeHandlers)
  /\ Local(e, [x EXCEPT !.told = Telling(x, x.closeHandlers[x.closing]), !.closing = @ + 1])

EndClose(e) ==
  LET x == end[e] IN
  /\ x.closing # 0 /\ x.closing > Len(x.closeHandlers)
  /\ Local(e, [x EXCEPT !.closing = 0, !.frameHandlers = <<>>, !.closeHandlers = <<>>])

(***************************************************************************)
(* The world outside.                                                      *)
(***************************************************************************)

(* Something that is no frame: text that does not parse, or at a window a  *)
(* message that is not for this transport.  Sent while nothing else is on  *)
(* the way, to bound what there is to check.                               *)
Noise(e) ==
  /\ link = "window" \/ Listening(end[Peer(e)])
  /\ wire[e] = <<>>
  /\ \E item \in {Garbled} \cup (IF link = "window" THEN {Foreign} ELSE {}) :
       wire' = [wire EXCEPT ![e] = Append(@, item)]
  /\ UNCHANGED <<link, end, sent>>

(* The page crashes or is loaded anew. *)
PageGoes ==
  /\ end["page"].life = "up"
  /\ Local("page", [end["page"] EXCEPT !.life = "gone"])

Departed(x) == x.life = "gone" \/ (x.life = "up" /\ ~x.isOpen)

(* A plausible slip: nobody is subscribed to the port's close event. *)
HearsNoClose(e) == FALSE

(* Only the main process of Electron listens to its port's close event. *)
HearsClose(e) == link = "electron" /\ e = "host"

CloseEvent(e) ==
  /\ HearsClose(e) /\ Departed(end[Peer(e)])
  /\ Idle(end[e]) /\ end[e].life = "up" /\ MayClose(end[e])
  /\ Local(e, Closing(end[e]))

Living(e) == end[e].life # "gone"
Turn(e)   == Living(e) /\ (Arrive(e) \/ CallHandler(e) \/ EndDispatch(e) \/ CallCloser(e)
                           \/ EndClose(e) \/ CloseEvent(e))
Acts(e)   == Construct(e) \/ OnFrame(e) \/ Unsubscribe(e) \/ OnClose(e) \/ Send(e) \/ Close(e)

Next == PageGoes \/ \E e \in End : Turn(e) \/ Acts(e) \/ Noise(e)

(* An end's event loop runs: its turns end and what has arrived is taken.  *)
Fairness == \A e \in End : WF_vars(Turn(e)) /\ WF_vars(Living(e) /\ CloseEvent(e))

Spec == Init /\ [][Next]_vars /\ Fairness

(***************************************************************************)
(* Properties.                                                             *)
(***************************************************************************)

(* Every variable has its type; a turn calls the handlers of its copy and  *)
(* no more.                                                                *)
TypeOK ==
  /\ link \in Links
  /\ end \in [End -> Transport]
  /\ wire \in [End -> Seq(Frame \cup {Garbled, Foreign})]
  /\ sent \in [End -> 0..MaxFrames]
  /\ \A e \in End : end[e].next <= Len(end[e].snapshot) + 1

(* Between turns every handler has heard each frame that arrived while it  *)
(* was registered, once and in order, whatever the handlers before it did  *)
(* to the lists: unsubscribe themselves or it, or close the transport.     *)
HearsWhatIsDue ==
  \A e \in End : end[e].life = "up" /\ Idle(end[e]) => end[e].heard = end[e].due

(* While it is open, the runtime behind a port has heard every frame its   *)
(* peer sent and that is not on the way, those sent before it was there    *)
(* included: the first frames, in order, and the others follow in order.   *)
Carried(heard, items, n) ==
  /\ Len(heard) <= n
  /\ \A i \in DOMAIN heard : heard[i] = i
  /\ Range(items) \cap Frame = (Len(heard) + 1)..n
  /\ \A i, j \in DOMAIN items :
       i < j /\ items[i] \in Frame /\ items[j] \in Frame => items[i] < items[j]

NothingLost ==
  \A e \in End : link # "window" /\ end[e].life # "gone" /\ Idle(end[e])
                   /\ (end[e].life = "up" => end[e].isOpen)
    => Carried(end[e].heard[Runtime], wire[e], sent[Peer(e)])

(* A close handler is called at most once, though handlers may close the   *)
(* transport again and register others meanwhile; the runtime's has been   *)
(* called when close() returns.                                            *)
ClosedOnce ==
  \A e \in End :
    /\ \A h \in Handler : end[e].told[h] <= 1
    /\ end[e].life = "up" /\ ~end[e].isOpen /\ end[e].closing = 0 => end[e].told[Runtime] = 1

(* The main process of an Electron application learns that its page closed *)
(* its port, crashed or went away: its server's streams are not left.      *)
HostLearns ==
  link = "electron" /\ Departed(end["page"]) /\ end["host"].life = "up"
    ~> end["host"].told[Runtime] = 1
=============================================================================
