---------------------------- MODULE HostContract ----------------------------
(***************************************************************************)
(* What any native host promises of a stream, without threads, tasks, maps *)
(* or states: it is refused, or served to the end.  Its handler is given   *)
(* the requests the page sent, in order and each once.  A method with one  *)
(* response answers with exactly one before CLOSE and with none before     *)
(* ERROR.  Nothing follows CLOSE or ERROR, and only a stream that was      *)
(* cancelled is left without either.                                       *)
(***************************************************************************)
EXTENDS Naturals, Sequences

CONSTANTS Calls, Codes, Methods, Single, Untold, Closed

VARIABLES stage, method, asked, taken, made, verdict, cancelled

vars == <<stage, method, asked, taken, made, verdict, cancelled>>

Init ==
  /\ stage = [c \in Calls |-> "none"] /\ method \in [Calls -> Methods]
  /\ asked = [c \in Calls |-> 0] /\ taken = [c \in Calls |-> <<>>] /\ made = [c \in Calls |-> 0]
  /\ verdict = [c \in Calls |-> Untold] /\ cancelled = [c \in Calls |-> FALSE]

Ask(c) ==
  /\ asked' = [asked EXCEPT ![c] = @ + 1]
  /\ UNCHANGED <<stage, method, taken, made, verdict, cancelled>>

Open(c) ==
  /\ stage[c] = "none"
  /\ stage' = [stage EXCEPT ![c] = "serving"]
  /\ \E m \in Methods : method' = [method EXCEPT ![c] = m]
  /\ UNCHANGED <<asked, taken, made, verdict, cancelled>>

Refuse(c) ==
  /\ stage[c] = "none"
  /\ stage' = [stage EXCEPT ![c] = "over"]
  /\ \E code \in Codes : verdict' = [verdict EXCEPT ![c] = code]
  /\ UNCHANGED <<method, asked, taken, made, cancelled>>

Give(c) ==
  /\ stage[c] = "serving" /\ Len(taken[c]) < asked[c]
  /\ taken' = [taken EXCEPT ![c] = Append(@, <<c, Len(@) + 1>>)]
  /\ UNCHANGED <<stage, method, asked, made, verdict, cancelled>>

Say(c) ==
  /\ stage[c] = "serving" /\ verdict[c] = Untold
  /\ method[c] \in Single => made[c] = 0
  /\ made' = [made EXCEPT ![c] = @ + 1]
  /\ UNCHANGED <<stage, method, asked, taken, verdict, cancelled>>

Close(c) ==
  /\ stage[c] = "serving" /\ verdict[c] = Untold
  /\ method[c] \in Single => made[c] = 1
  /\ verdict' = [verdict EXCEPT ![c] = Closed]
  /\ UNCHANGED <<stage, method, asked, taken, made, cancelled>>

Fail(c) ==
  /\ stage[c] = "serving" /\ verdict[c] = Untold
  /\ method[c] \in Single => made[c] = 0
  /\ \E code \in Codes : verdict' = [verdict EXCEPT ![c] = code]
  /\ UNCHANGED <<stage, method, asked, taken, made, cancelled>>

Finish(c) ==
  /\ stage[c] = "serving" /\ (verdict[c] = Untold => cancelled[c])
  /\ stage' = [stage EXCEPT ![c] = "over"]
  /\ UNCHANGED <<method, asked, taken, made, verdict, cancelled>>

(* One stream, or all of them at once.  A stream cancelled before its      *)
(* handler runs is over with it.                                           *)
Cancel ==
  /\ \E S \in SUBSET Calls :
       /\ cancelled' = [c \in Calls |-> cancelled[c] \/ c \in S]
       /\ \E T \in SUBSET {c \in S : stage[c] = "serving"} :
            stage' = [c \in Calls |-> IF c \in T THEN "over" ELSE stage[c]]
  /\ UNCHANGED <<method, asked, taken, made, verdict>>

Next == Cancel \/ \E c \in Calls : Ask(c) \/ Open(c) \/ Refuse(c) \/ Give(c) \/ Say(c)
                                   \/ Close(c) \/ Fail(c) \/ Finish(c)

Spec == Init /\ [][Next]_vars
=============================================================================
