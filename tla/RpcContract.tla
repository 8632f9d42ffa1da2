---------------------------- MODULE RpcContract -----------------------------
(***************************************************************************)
(* What the bridge promises to the two applications, without frames,       *)
(* queues, promises or states: a call is a sequence of requests one way    *)
(* and of responses the other, each delivered in order and at most once;   *)
(* either side may be cut off at any moment, but is never told that the    *)
(* other has ended before it has had everything the other sent.            *)
(***************************************************************************)
EXTENDS Naturals, Sequences

CONSTANT Calls

VARIABLES asking,     \* whether the application may still send requests
          asked,      \* how many requests it has sent
          taken,      \* the requests the handler was given
          told,       \* whether the handler was told that the requests have ended
          produced,   \* how many responses the handler has produced
          served,     \* how the handler ended
          delivered,  \* the responses the application was given
          result      \* how the call ended

vars == <<asking, asked, taken, told, produced, served, delivered, result>>

Init ==
  /\ asking = [c \in Calls |-> TRUE] /\ asked = [c \in Calls |-> 0]
  /\ taken = [c \in Calls |-> <<>>] /\ told = [c \in Calls |-> FALSE]
  /\ produced = [c \in Calls |-> 0] /\ served = [c \in Calls |-> "none"]
  /\ delivered = [c \in Calls |-> <<>>] /\ result = [c \in Calls |-> "none"]

Next1(s) == Append(s, Len(s) + 1)

Ask(c) ==
  /\ asking[c] /\ result[c] = "none"
  /\ asked' = [asked EXCEPT ![c] = @ + 1]
  /\ asking' \in {asking, [asking EXCEPT ![c] = FALSE]}
  /\ UNCHANGED <<taken, told, produced, served, delivered, result>>

StopAsking(c) ==
  /\ asking[c]
  /\ asking' = [asking EXCEPT ![c] = FALSE]
  /\ UNCHANGED <<asked, taken, told, produced, served, delivered, result>>

Take(c) ==
  /\ served[c] = "none" /\ ~told[c] /\ Len(taken[c]) < asked[c]
  /\ taken' = [taken EXCEPT ![c] = Next1(@)]
  /\ UNCHANGED <<asking, asked, told, produced, served, delivered, result>>

(* The promise about requests. *)
TellEnd(c) ==
  /\ served[c] = "none" /\ ~asking[c] /\ Len(taken[c]) = asked[c]
  /\ told' = [told EXCEPT ![c] = TRUE]
  /\ UNCHANGED <<asking, asked, taken, produced, served, delivered, result>>

Produce(c) ==
  /\ served[c] = "none"
  /\ produced' = [produced EXCEPT ![c] = @ + 1]
  /\ UNCHANGED <<asking, asked, taken, told, served, delivered, result>>

(* A handler that returns a value produces its response as it ends. *)
Serve(c) ==
  /\ served[c] = "none"
  /\ \E how \in {"ok", "failed", "silent"} : served' = [served EXCEPT ![c] = how]
  /\ produced' \in {produced, [produced EXCEPT ![c] = @ + 1]}
  /\ UNCHANGED <<asking, asked, taken, told, delivered, result>>

Deliver(c) ==
  /\ result[c] = "none" /\ Len(delivered[c]) < produced[c]
  /\ delivered' = [delivered EXCEPT ![c] = Next1(@)]
  /\ UNCHANGED <<asking, asked, taken, told, produced, served, result>>

(* The promise about responses. *)
Resolve(c) ==
  /\ result[c] = "none" /\ served[c] = "ok" /\ Len(delivered[c]) = produced[c]
  /\ result' = [result EXCEPT ![c] = "resolved"]
  /\ UNCHANGED <<asking, asked, taken, told, produced, served, delivered>>

(* A rejection, or the application's own return. *)
CutOff(c) ==
  /\ result[c] = "none"
  /\ \E how \in {"rejected", "returned"} : result' = [result EXCEPT ![c] = how]
  /\ asking' = [asking EXCEPT ![c] = FALSE]
  /\ UNCHANGED <<asked, taken, told, produced, served, delivered>>

Next == \E c \in Calls : \/ Ask(c) \/ StopAsking(c) \/ Take(c) \/ TellEnd(c) \/ Produce(c)
                         \/ Serve(c) \/ Deliver(c) \/ Resolve(c) \/ CutOff(c)

Spec == Init /\ [][Next]_vars
=============================================================================
