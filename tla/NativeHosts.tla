---------------------------- MODULE NativeHosts -----------------------------
(***************************************************************************)
(* A page in the web view of a native host, on either platform: what the   *)
(* page does and what it is owed is the same, the servers are two.         *)
(***************************************************************************)
EXTENDS HostProperties

CONSTANT Platforms   \* the platforms whose hosts there are

ASSUME PlatformsAssumption == Platforms \subseteq {"ios", "android"}

VARIABLES bridge, hasJob, activity, sweep   \* the threads of an Android host

androidVars == <<bridge, hasJob, activity, sweep>>
vars == <<pageVars, hostVars, androidVars>>

Swift  == INSTANCE SwiftHost
Kotlin == INSTANCE KotlinHost

(* On iOS there is nothing behind the variables of the Android threads.    *)
NoThreads ==
  /\ bridge = [at |-> "idle", call |-> 0] /\ hasJob = [c \in Call |-> FALSE]
  /\ activity = "alive" /\ sweep = {}

Init ==
  /\ platform \in Platforms
  /\ \/ Swift!Init /\ NoThreads
     \/ Kotlin!Init

Next ==
  \/ Swift!Next /\ UNCHANGED androidVars
  \/ Kotlin!Next

Spec == Init /\ [][Next]_vars

(* What keeps going on either platform: frames are handled, a frame to the *)
(* page arrives, the requests of a call end, a task runs until it is done, *)
(* a provider that is asked ends, and an onDestroy that has begun goes on. *)
ByPage(A)  ==
  \/ Ios /\ attached /\ A /\ UNCHANGED <<hostVars, androidVars>>
  \/ Kotlin!Waiting /\ A
ByHost(iosStep, androidStep) ==
  \/ Ios /\ iosStep /\ UNCHANGED androidVars
  \/ Android /\ androidStep
Handles    == ByHost(Swift!HandleFrame, Kotlin!BridgeThread)
Runs(c)    == ByHost(Swift!Runs(c), Kotlin!Runs(c))
Returns(c) == ByHost(Swift!ProviderReturns(c), Kotlin!ServiceReturns(c))
Sweeps     == Kotlin!StartSweep \/ Kotlin!SweepOne \/ Kotlin!EndSweep \/ Kotlin!DestroyScope

FairSpec ==
  /\ Spec
  /\ WF_vars(Handles) /\ WF_vars(ByPage(Deliver)) /\ WF_vars(Sweeps)
  /\ \A c \in Call : /\ WF_vars(ByPage(EndRequests(c)))
                     /\ WF_vars(Runs(c)) /\ SF_vars(Returns(c))

(* Every variable has its type; the bridge thread stands inside a handler  *)
(* only for a call whose object exists.                                    *)
TypeOK ==
  /\ PageTypeOK
  /\ streams \in [Id -> Call \cup {0}]
  /\ Ios => task \in [Call -> Task(Swift!SwiftPc, Swift!SwiftState)]
  /\ Android => task \in [Call -> Task(Kotlin!KotlinPc, Kotlin!KotlinState)]
  /\ attached \in BOOLEAN
  /\ bridge \in [at : {"idle"}, call : {0}] \cup [at : {"launch", "assign", "cancel"}, call : Call]
  /\ bridge.call # 0 => task[bridge.call].pc # "off"
  /\ hasJob \in [Call -> BOOLEAN]
  /\ activity \in Kotlin!Activity /\ sweep \subseteq Call
=============================================================================
