--------------------------- MODULE TaskQueueMutex ---------------------------
(* TaskQueue implements ResourceMutex: the agents are the attempts, and an *)
(* attempt uses its keys while its business coroutine runs.                *)
EXTENDS TaskQueue

usedKeys == [r \in Run |-> IF Executing(r) THEN Uses(r) ELSE {}]

Mutex == INSTANCE ResourceMutex WITH
           Agent <- Run, Resource <- Key, using <- usedKeys

(* Business code runs under mutual exclusion of whole key sets: it never   *)
(* starts with some of its keys, gains one later or loses one half way,    *)
(* and never meets another attempt that uses one of them.                  *)
MutualExclusion == Mutex!Spec
=============================================================================
