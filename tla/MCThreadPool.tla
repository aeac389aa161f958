---------------------------- MODULE MCThreadPool ----------------------------
(***************************************************************************)
(* Small instances of ThreadPool.  m1 spawns k1 and k2, and k1 spawns k3.  *)
(***************************************************************************)
EXTENDS ThreadPool

CONSTANTS m1, k1, k2, k3, w2, w3

Nested == [k \in Tasks |-> IF k = k1 \/ k = k2 THEN m1 ELSE k1]

SyncAndResize == [m \in Mains |-> {"sync", "setMinPoolSize", "setMaxPoolSize"}]
OnlySpawns    == [m \in Mains |-> {}]

(* Bound: either the program calls setMaxPoolSize before the pool has more *)
(* than the workers that allows, and then tasks do not spawn; or it only   *)
(* spawns, and the pool grows for spawners that are workers themselves.    *)
(* Threads are created in one order, and the third only in that case.      *)
Bound ==
  IF maxPoolSize < Records
  THEN /\ \A k \in Tasks : Parent[k] \in Tasks => phase[k] = "new"
       /\ currentPoolSize < Records /\ pc[w3] = "off"
  ELSE /\ pc[w2] = "off" => pc[w3] = "off"
       /\ minPoolSize = MinPoolSize
       /\ \A i \in Workers : ~workersData[i].shutdown
       /\ \A t \in Threads : site[t] # "advice" /\ pc[t] \notin {"sync", "finish"}
BoundSpec ==
  /\ Init /\ [][Next /\ Bound']_vars
  /\ \A s \in Slaves : WF_vars(SlaveStep(s) \/ CallStep(s))
  /\ \A m \in Mains : WF_vars(CallStep(m) \/ MainStep(m))
=============================================================================
