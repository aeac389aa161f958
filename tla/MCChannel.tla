----------------------------- MODULE MCChannel -----------------------------
(***************************************************************************)
(* Small instances of Channel.  The threads s1, s2 send and r1, r2 receive;*)
(* a run takes the threads it needs and says what each of them may call.   *)
(***************************************************************************)
EXTENDS Channel, TLC

CONSTANTS s1, s2, r1, r2,
          MaxPending      \* messages in an unlimited channel, or on their way to it

Messages == Permutations(Msgs)

Call(s, r) == [t \in Threads |-> IF t \in {s1, s2} THEN s ELSE r]

Blocking   == Call({"send"}, {"recv"})
PollingToo == [Blocking EXCEPT ![r2] = {"recv", "tryRecv"}]
Everything == [t \in Threads |-> CASE t = s1 -> SendOps
                                   [] t = r1 -> {"recv", "peek"}
                                   [] OTHER  -> {"tryRecv", "close"}]

(* Bound: only so many sends start in an unlimited channel.                *)
Sending == {t \in Threads : op[t] \in SendOps /\ pc[t] \in {"enter", "in"}}
Bound == MaxItems = 0 => count + Cardinality(Sending) <= MaxPending
BoundSpec == Init /\ [][Next /\ Bound']_vars
=============================================================================
