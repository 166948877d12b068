---------------------------- MODULE MCTaskQueue ----------------------------
(* Small instances of TaskQueue. *)
EXTENDS TaskQueue, TLC

CONSTANTS a, b, c, x, k1, k2, k3

(* Chains: the next task of a is c, which another caller may enqueue too;  *)
(* a and c want the inheritable key k1, and so does b of another chain; c  *)
(* also wants k2, and b a slot of the pool of k2 and k3.                   *)
ChainNeeds == (a :> {{k1}}) @@ (c :> {{k2}}) @@ (b :> {{k1}, {k2, k3}})
ChainInheritable == (a :> k1) @@ (c :> k1) @@ (b :> k1)
ChainSuccessors == (a :> {c}) @@ (c :> {}) @@ (b :> {})
ChainMaxAttempts == (a :> 2) @@ (c :> 1) @@ (b :> 1)

(* Recovery: an enqueued task with a retry and an inheritable key and an   *)
(* exclusive call compete for one key.                                     *)
DuoNeeds == [t \in {b, x} |-> {{k1}}]
DuoInheritable == (b :> k1) @@ (x :> NoKey)
DuoSuccessors == [t \in {b, x} |-> {}]
DuoMaxAttempts == (b :> 2) @@ (x :> 1)
=============================================================================
