---------------------------- MODULE ResourceMutex ----------------------------
(***************************************************************************)
(* What the task queue promises the code it runs: an agent takes all the   *)
(* keys it needs in one step, only while nobody else has one of them, and  *)
(* keeps exactly those until it lets them all go. A crash lets every agent *)
(* go at once.                                                             *)
(***************************************************************************)
CONSTANTS Agent, Resource

VARIABLE using

Init == using = [g \in Agent |-> {}]

Acquire(g) ==
  /\ using[g] = {}
  /\ \E ks \in SUBSET Resource :
       /\ \A h \in Agent : using[h] \cap ks = {}
       /\ using' = [using EXCEPT ![g] = ks]

Release(g) == using' = [using EXCEPT ![g] = {}]

ReleaseAll == using' = [g \in Agent |-> {}]

Next == ReleaseAll \/ \E g \in Agent : Acquire(g) \/ Release(g)

Spec == Init /\ [][Next]_using
=============================================================================
