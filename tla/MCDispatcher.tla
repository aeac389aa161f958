---------------------------- MODULE MCDispatcher ----------------------------
(* Two tasks on one socket, or the first task on two.                      *)
EXTENDS Dispatcher

CONSTANTS s1, s2

(* Bound: with the second socket there are one operation and the program's *)
(* own callbacks; five futures are those of a timeout or of three receives *)
(* of the first task, while the second has started nothing.                *)
Bound ==
  /\ fds[s2].open => op[NTasks] = 0 /\ timers = << >> /\ Len(futs) <= NTasks + 1
  /\ Len(futs) = MaxFutures =>
       /\ op[NTasks] = 0
       /\ \/ futs[MaxFutures - 1].kind = "timeout"
          \/ \A f \in NTasks + 1 .. MaxFutures : futs[f].kind = "recv"
MCSpec == /\ Init /\ fds[s1].open /\ [][Next /\ Bound']_vars
          /\ WF_vars(Operation \/ Loop) /\ WF_vars(Tick)
=============================================================================
