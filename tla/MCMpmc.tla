------------------------------- MODULE MCMpmc -------------------------------
(***************************************************************************)
(* Small instances of MpmcChannel: s1 and s2 send, r1 and r2 receive.      *)
(***************************************************************************)
EXTENDS MpmcChannel

CONSTANTS s1, s2, r1, r2, m1, m2

Call(s, r) == [t \in Threads |-> IF t \in {s1, s2} THEN s ELSE r]

Blocking == Call({"send"}, {"recv"})
Mixed    == [t \in Threads |-> CASE t = s1 -> {"send"} [] t = s2 -> {"trySend"}
                                  [] t = r1 -> {"recv"}
                                  [] t = r2 -> Ops \ SendOps]

(* Bound: every sender has a message of its own.  On a buffered channel r2 *)
(* polls; on an unbuffered one it blocks, closes and opens, and no wakeup  *)
(* is spurious, so that none is owed to them.                              *)
Bound == /\ \A t \in Threads : op[t] \in SendOps => msg[t] = IF t = s2 THEN m2 ELSE m1
         /\ IF Unbuffered THEN op[r2] # "tryRecv"
                          ELSE op[r2] # "recv" /\ pc[r2] \notin {"closing", "opening"}
MCNext == \E t \in Threads : \/ Start(t) \/ FlagTest(t) \/ Continues(t)
                             \/ ~Unbuffered /\ SpuriousWakeup(t)
MCSpec == Init /\ [][MCNext /\ Bound']_vars /\ \A t \in Threads : WF_vars(Continues(t))
=============================================================================
