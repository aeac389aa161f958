---------------------------- MODULE MessageQueue ----------------------------
(***************************************************************************)
(* What a channel promises its users, whatever its implementation: a first *)
(* in, first out queue of at most capacity messages (0: no limit) on which *)
(* every call takes effect at one instant between its start and its        *)
(* return.  A call that has started and has not taken effect is "busy".    *)
(*                                                                         *)
(* This module is the contract; Channel.tla is the code that implements it *)
(* and states the refinement.                                              *)
(***************************************************************************)
EXTENDS Naturals, Sequences

CONSTANTS Threads,    \* the threads that share the channel
          Msgs,       \* the messages
          NoMsg       \* "no message": the default value of the type

VARIABLES capacity,   \* chosen when the channel is made; 0 means unlimited
          exact,      \* TRUE: trySend fails only on a full channel
          queue,      \* the messages sent and not yet received, oldest first
          open,       \* FALSE once the channel is closed
          busy,       \* the threads whose call has not taken effect
          op,         \* the operation of a thread's current or last call
          msg,        \* its message: the argument of a send, a recv's result
          ok          \* its success flag

qvars == <<capacity, exact, queue, open, busy, op, msg, ok>>

SendOps == {"send", "trySend"}
RecvOps == {"recv", "tryRecv"}
QueueOps == SendOps \union RecvOps \union {"peek", "close"}

IsFull == capacity > 0 /\ Len(queue) >= capacity

QInit == /\ capacity \in Nat /\ exact \in BOOLEAN
         /\ queue = << >>
         /\ open = TRUE
         /\ busy = {}
         /\ op = [t \in Threads |-> "peek"]
         /\ msg = [t \in Threads |-> NoMsg]
         /\ ok = [t \in Threads |-> FALSE]

(* A call starts; only a send brings a message.                            *)
Begin(t) == /\ t \notin busy
            /\ busy' = busy \union {t}
            /\ \E o \in QueueOps :
                 /\ op' = [op EXCEPT ![t] = o]
                 /\ \E m \in Msgs \union {NoMsg} :
                      /\ o \in SendOps <=> m \in Msgs
                      /\ msg' = [msg EXCEPT ![t] = m]
            /\ ok' = [ok EXCEPT ![t] = FALSE]
            /\ UNCHANGED <<queue, open>>

(* The effect of a busy call: it stops being busy.                         *)
Effect(t) == t \in busy /\ busy' = busy \ {t} /\ UNCHANGED op

(* A send takes effect only while there is room.                           *)
Put(t) == /\ Effect(t) /\ op[t] \in SendOps
          /\ open /\ ~IsFull
          /\ queue' = Append(queue, msg[t])
          /\ ok' = [ok EXCEPT ![t] = TRUE]
          /\ UNCHANGED <<open, msg>>

(* trySend gives up on a full channel and, unless exact, under contention. *)
Refuse(t) == /\ Effect(t) /\ op[t] = "trySend"
             /\ open
             /\ exact => IsFull
             /\ ok' = [ok EXCEPT ![t] = FALSE]
             /\ UNCHANGED <<queue, open, msg>>

(* A receive takes the oldest message.                                     *)
Get(t) == /\ Effect(t) /\ op[t] \in RecvOps
          /\ open /\ queue # << >>
          /\ queue' = Tail(queue)
          /\ msg' = [msg EXCEPT ![t] = Head(queue)]
          /\ ok' = [ok EXCEPT ![t] = TRUE]
          /\ UNCHANGED open

(* tryRecv may fail "for all sort of reasons, including contention".       *)
Miss(t) == /\ Effect(t) /\ op[t] = "tryRecv"
           /\ ok' = [ok EXCEPT ![t] = FALSE]
           /\ UNCHANGED <<queue, open, msg>>

Look(t) == /\ Effect(t) /\ op[t] = "peek" /\ open
           /\ UNCHANGED <<queue, open, msg, ok>>

(* Closing drops the messages that are still in the channel.               *)
Shut(t) == /\ Effect(t) /\ op[t] = "close" /\ open
           /\ open' = FALSE
           /\ queue' = << >>
           /\ UNCHANGED <<msg, ok>>

(* On a closed channel a call fails at once and changes nothing but its    *)
(* own record.                                                             *)
Fail(t) == /\ t \notin busy /\ ~open
           /\ \E o \in QueueOps \ {"recv", "close"} : op' = [op EXCEPT ![t] = o]
           /\ msg' = [msg EXCEPT ![t] = NoMsg]
           /\ ok' = [ok EXCEPT ![t] = FALSE]
           /\ UNCHANGED <<queue, open, busy>>

QNext == /\ \E t \in Threads : \/ Begin(t) \/ Put(t) \/ Refuse(t) \/ Get(t)
                               \/ Miss(t) \/ Look(t) \/ Shut(t) \/ Fail(t)
         /\ UNCHANGED <<capacity, exact>>

QSpec == QInit /\ [][QNext]_qvars
=============================================================================
