-------------------------- MODULE MCServedChannel --------------------------
(***************************************************************************)
(* A bounded channel that is used in every way until, at any time, its use *)
(* becomes calm: from then on one thread only sends, another one receives  *)
(* for ever, as the workers and the result loop of tools/nimgrep.nim do,   *)
(* calls under way are finished and no wakeup is spurious any more.        *)
(***************************************************************************)
EXTENDS MCChannel

VARIABLE calm

all == <<vars, calm>>

Serves(t) == (StartSend(t) \/ StartOther(t)) /\ op'[t] \in {"send", "recv"}

ServedInit == Init /\ calm = FALSE
ServedNext ==
  \/ ~calm /\ Next /\ calm' \in BOOLEAN
  \/ calm /\ (\E t \in Threads : Serves(t) \/ Continues(t)) /\ UNCHANGED calm

(* A thread that can take a step of its call takes it eventually.  Nobody  *)
(* has to start a call but, once the use is calm, the receiver.            *)
ServedSpec ==
  /\ ServedInit /\ [][ServedNext]_all
  /\ \A t \in Threads : WF_all(Continues(t) /\ ServedNext)
  /\ \A t \in Threads : "recv" \in Does[t] => WF_all(calm /\ Serves(t) /\ UNCHANGED calm)

(* Once the use of an open channel is calm, every send returns.            *)
SendReturns == \A t \in Threads :
  (calm /\ op[t] = "send" /\ pc[t] = "enter") ~> (pc[t] = "idle" \/ mask = ChannelDeadMask)

(* Once the use of an open channel is calm, a receiver that sleeps while   *)
(* there is a message does not sleep on, unless a call that was under way  *)
(* takes the message.                                                      *)
RecvUnblocks == \A t \in Threads :
  (/\ calm /\ op[t] = "recv" /\ pc[t] = "wait" /\ count > 0
   /\ \A u \in Threads \ {t} : op[u] \in RecvOps => pc[u] = "idle")
    ~> (pc[t] = "idle" \/ mask = ChannelDeadMask)
=============================================================================
