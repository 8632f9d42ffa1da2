------------------------------- MODULE Stream -------------------------------
(***************************************************************************)
(* The Stream class of packages/rpc-core/src/stream.ts, as a value and the *)
(* operators its methods compute on it.  Both ends of a call hold one.     *)
(*                                                                         *)
(*   state    _state                                                       *)
(*   aborted  whether abortController has fired                            *)
(*   queue    the items that arrived while nobody waited                   *)
(*   waiter   whether a promise of nextItem() waits for its item           *)
(*   hand     the item a promise of nextItem() was resolved with and whose *)
(*            continuation has not run yet, or NoItem.  The continuation   *)
(*            of an await is a microtask, so other handlers may run        *)
(*            between the two.                                             *)
(***************************************************************************)
EXTENDS Frames, Sequences

StreamState == {"idle", "open", "half_closed_local", "half_closed_remote",
                "half_closed_both", "closed", "error", "cancelled"}

QueueItem   == [type : {"message", "error", "end"}, val : Nat]
Message(v)  == [type |-> "message", val |-> v]
Error(code) == [type |-> "error",   val |-> code]
End         == [type |-> "end",     val |-> 0]
NoItem      == [type |-> "none",    val |-> 0]

StreamObject == [state : StreamState, aborted : BOOLEAN, queue : Seq(QueueItem),
                 waiter : BOOLEAN, hand : QueueItem \cup {NoItem}]

NewStream == [state |-> "idle", aborted |-> FALSE, queue |-> <<>>,
              waiter |-> FALSE, hand |-> NoItem]

(* setState and open *)
SetState(s, st) == [s EXCEPT !.state = st]

(* A plausible slip in pushMessage: the waiter is not reset. *)
PushKeepsWaiter(s, item) ==
  IF s.waiter THEN [s EXCEPT !.hand = item] ELSE [s EXCEPT !.queue = Append(@, item)]

(* pushMessage, pushEnd and pushError: to the waiter if there is one, to   *)
(* the queue otherwise.                                                    *)
Push(s, item) ==
  IF s.waiter THEN [s EXCEPT !.waiter = FALSE, !.hand = item]
              ELSE [s EXCEPT !.queue = Append(@, item)]

(* A plausible slip in nextItem: pop() for shift(). *)
NextItemNewest(s) ==
  IF s.queue # <<>> THEN [s EXCEPT !.queue = SubSeq(@, 1, Len(@) - 1),
                                   !.hand = s.queue[Len(s.queue)]]
                    ELSE [s EXCEPT !.waiter = TRUE]

(* nextItem: a promise already resolved with the head of the queue, or a   *)
(* waiter.                                                                 *)
NextItem(s) ==
  IF s.queue # <<>> THEN [s EXCEPT !.queue = Tail(@), !.hand = Head(s.queue)]
                    ELSE [s EXCEPT !.waiter = TRUE]

(* The code after `await this.nextItem()` has the item. *)
Resolved(s) == s.hand # NoItem
Consume(s)  == [s EXCEPT !.hand = NoItem]

(* What the methods keep true of a stream, whether or not its consumer     *)
(* awaits an item: the consumer is the waiter or has been given its item,  *)
(* never both, and nobody waits while items are queued.                    *)
Suspended(s, awaiting) ==
  /\ s.waiter => s.queue = <<>> /\ ~Resolved(s)
  /\ awaiting <=> s.waiter \/ Resolved(s)

Terminal == {"closed", "error", "cancelled"}

(* A plausible slip in cancel: whoever waits is not told. *)
CancelQuietly(s) ==
  IF s.state \in Terminal THEN s ELSE [s EXCEPT !.state = "cancelled", !.aborted = TRUE]

(* cancel: only the three terminal states are left alone. *)
Cancel(s) ==
  IF s.state \in Terminal THEN s
  ELSE Push([s EXCEPT !.state = "cancelled", !.aborted = TRUE], Error(CANCELLED))
=============================================================================
