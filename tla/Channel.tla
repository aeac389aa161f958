------------------------------ MODULE Channel ------------------------------
(***************************************************************************)
(* Nim's builtin channel between threads (lib/system/channels_builtin.nim):*)
(* a ring buffer that doubles when it is full, one mutex, and ONE condition*)
(* variable on which senders (of a bounded channel) and receivers both     *)
(* wait.                                                                   *)
(*                                                                         *)
(* A step of the model is a stretch of code between two points at which    *)
(* another thread can tell the difference: the unlocked test of the mask,  *)
(* the acquisition of the lock, the critical section up to a wait or the   *)
(* release, and the signal a sender gives AFTER it has released the lock.  *)
(*                                                                         *)
(* Modelled by what it does: (i + 1) and mask.  mask + 1 is 1 at first and *)
(* doubles when the buffer grows, so it is the successor in 0 .. mask,     *)
(* cyclic.                                                                 *)
(* Left out: elemType, which a statically typed Channel[T] never changes,  *)
(* the deep copy of the message, and re-opening a closed channel.          *)
(***************************************************************************)
EXTENDS Integers, Sequences, FiniteSets

CONSTANTS Threads,      \* the threads that share the channel
          Msgs,         \* the messages
          MaxItems,     \* the maxItems given to open(); 0: unlimited
          Does,         \* Does[t]: the operations thread t may call
          Spurious,     \* TRUE: waitSysCond may return without a signal
          NoThread,     \* the lock is free
          NoMsg         \* no message

SendOps == {"send", "trySend"}
RecvOps == {"recv", "tryRecv"}
Ops     == SendOps \union RecvOps \union {"peek", "close"}

ASSUME ConstantsAssumption ==
         /\ MaxItems \in Nat
         /\ Does \in [Threads -> SUBSET Ops]
         /\ Spurious \in BOOLEAN
         /\ NoThread \notin Threads
         /\ NoMsg \notin Msgs
ASSUME ThreadsFinite == IsFiniteSet(Threads)

VARIABLES rd, wr, count, mask, data,   \* the ring buffer
          ready,                       \* "a thread waits for new messages"
          lock,                        \* the thread that holds the lock
          pc,                          \* where a thread is in its call
          op, msg, ok                  \* the call: operation, message, success

ring    == <<rd, wr, count, mask, data>>
call    == <<op, msg, ok>>
vars    == <<rd, wr, count, mask, data, ready, lock, pc, op, msg, ok>>

ChannelDeadMask == -2

(* idle    outside a call                                                  *)
(* enter   past the test of the mask, about to acquire the lock            *)
(* in      holds the lock for the first time in this call                  *)
(* wait    asleep in waitSysCond                                           *)
(* wake    woken, about to re-acquire the lock                             *)
(* again   holds the lock again, about to test the loop condition          *)
(* signal  a sender that has released the lock and not yet signalled       *)
PCs == {"idle", "enter", "in", "wait", "wake", "again", "signal"}

Waiters   == {t \in Threads : pc[t] = "wait"}
Holding(t) == pc[t] \in {"in", "again"}

Init == /\ rd = 0 /\ wr = 0 /\ count = 0
        /\ mask = -1
        /\ data = << >>
        /\ ready = FALSE
        /\ lock = NoThread
        /\ pc  = [t \in Threads |-> "idle"]
        /\ op  = [t \in Threads |-> "peek"]
        /\ msg = [t \in Threads |-> NoMsg]
        /\ ok  = [t \in Threads |-> FALSE]

-----------------------------------------------------------------------------
(* The ring buffer.                                                        *)

(* Mutant: the index does not wrap.                                        *)
Succ_NoWrap(i, m) == i + 1
Succ(i, m) == IF i = m THEN 0 ELSE i + 1

(* Slot(k): the index of the k-th oldest message.                          *)
Slot(k) == IF rd + k - 1 <= mask THEN rd + k - 1 ELSE rd + k - 1 - (mask + 1)

(* The messages in the channel, oldest first.                              *)
Contents == [k \in 1 .. count |-> data[Slot(k)]]

GrownMask == IF mask = -1 THEN 1 ELSE 2 * (mask + 1) - 1

NewSlots == 0 .. GrownMask

(* Mutant: the copy starts at slot 0 instead of at rd.                     *)
Copied_FromZero(i) == data[i]
Copied(i) == data[Slot(i + 1)]

RawSend(m) ==
  \/ /\ count >= mask + 1                      \* full: move to a buffer twice the size
     /\ mask' = GrownMask
     /\ data' = [i \in NewSlots |->
                   IF i < count THEN Copied(i)
                   ELSE IF i = count THEN m ELSE NoMsg]
     /\ rd' = 0
     /\ wr' = Succ(count, GrownMask)
     /\ count' = count + 1
  \/ /\ count < mask + 1
     /\ data' = [data EXCEPT ![wr] = m]
     /\ wr' = Succ(wr, mask)
     /\ count' = count + 1
     /\ UNCHANGED <<rd, mask>>

RawRecv(t) == /\ count' = count - 1
              /\ msg' = [msg EXCEPT ![t] = data[rd]]
              /\ rd' = Succ(rd, mask)
              /\ UNCHANGED <<wr, mask, data>>

-----------------------------------------------------------------------------
(* Mutex and condition variable.                                           *)

(* signalSysCond: the values of pc after one waiter, if any, is woken.     *)
Signalled(f) == IF Waiters = {} THEN {f}
                ELSE {[f EXCEPT ![w] = "wake"] : w \in Waiters}

Acquire(t) == /\ pc[t] \in {"enter", "wake"}
              /\ pc[t] = "enter" => op[t] # "tryRecv"
              /\ lock = NoThread
              /\ lock' = t
              /\ pc' = [pc EXCEPT ![t] = IF pc[t] = "enter" THEN "in" ELSE "again"]
              /\ UNCHANGED <<ring, ready, call>>

(* POSIX lets waitSysCond return without a signal.                         *)
SpuriousWakeup(t) == /\ Spurious
                     /\ pc[t] = "wait"
                     /\ pc' = [pc EXCEPT ![t] = "wake"]
                     /\ UNCHANGED <<ring, ready, lock, call>>

(* waitSysCond(q.cond, q.lock): release the lock and sleep, atomically.    *)
Sleep(t) == /\ lock' = NoThread
            /\ pc' = [pc EXCEPT ![t] = "wait"]
            /\ UNCHANGED <<ring, call>>

Return(t, success) == /\ pc' = [pc EXCEPT ![t] = "idle"]
                      /\ ok' = [ok EXCEPT ![t] = success]

-----------------------------------------------------------------------------
(* A call starts.  Every operation but recv and close first reads the mask *)
(* without the lock.                                                       *)

Start(t, o, m) == /\ pc[t] = "idle"
                  /\ o \in Does[t]
                  /\ op' = [op EXCEPT ![t] = o]
                  /\ msg' = [msg EXCEPT ![t] = m]
                  /\ ok' = [ok EXCEPT ![t] = FALSE]

StartSend(t) == /\ mask # ChannelDeadMask
                /\ \E o \in SendOps, m \in Msgs : Start(t, o, m)
                /\ pc' = [pc EXCEPT ![t] = "enter"]
                /\ UNCHANGED <<ring, ready, lock>>

(* close is called once: a program that closes twice hangs on the lock.    *)
StartOther(t) == /\ \E o \in Ops \ SendOps :
                      /\ o # "recv" => mask # ChannelDeadMask
                      /\ Start(t, o, NoMsg)
                 /\ pc' = [pc EXCEPT ![t] = "enter"]
                 /\ UNCHANGED <<ring, ready, lock>>

(* send raises DeadThreadDefect, tryRecv returns false, peek returns -1.   *)
DeadCall(t) == /\ mask = ChannelDeadMask
               /\ \E o \in SendOps \union {"tryRecv", "peek"} : Start(t, o, NoMsg)
               /\ UNCHANGED <<ring, ready, lock, pc>>

-----------------------------------------------------------------------------
(* sendImpl                                                                *)

(* Mutant: one message too many.                                           *)
Full_OffByOne == MaxItems > 0 /\ count > MaxItems
Full == MaxItems > 0 /\ count >= MaxItems

SendWait(t) == /\ Holding(t) /\ op[t] = "send"
               /\ Full
               /\ Sleep(t)
               /\ UNCHANGED ready

TrySendFull(t) == /\ Holding(t) /\ op[t] = "trySend"
                  /\ Full
                  /\ lock' = NoThread
                  /\ Return(t, FALSE)
                  /\ UNCHANGED <<ring, ready, op, msg>>

SendStore(t) == /\ Holding(t) /\ op[t] \in SendOps
                /\ ~Full
                /\ RawSend(msg[t])
                /\ lock' = NoThread
                /\ pc' = [pc EXCEPT ![t] = "signal"]
                /\ ok' = [ok EXCEPT ![t] = TRUE]
                /\ UNCHANGED <<ready, op, msg>>

(* Mutant: the signal is forgotten.                                        *)
SendSignal_Dropped(t) == /\ pc[t] = "signal"
                         /\ pc' = [pc EXCEPT ![t] = "idle"]
                         /\ UNCHANGED <<ring, ready, lock, call>>
SendSignal(t) == /\ pc[t] = "signal"
                 /\ pc' \in Signalled([pc EXCEPT ![t] = "idle"])
                 /\ UNCHANGED <<ring, ready, lock, call>>

-----------------------------------------------------------------------------
(* llRecv, with the release in recv and tryRecv.  ready is set once, before*)
(* the loop, and cleared by whoever leaves the loop.                       *)

RecvWait(t) == /\ Holding(t) /\ op[t] = "recv"
               /\ count <= 0
               /\ Sleep(t)
               /\ ready' = (ready \/ pc[t] = "in")

(* Mutant: a receiver wakes nobody.                                        *)
RecvSignals_Dropped == FALSE
(* Wake a sender when the channel has just stopped being full.             *)
RecvSignals == MaxItems > 0 /\ count = MaxItems       \* count before rawRecv

RecvTake(t) == /\ Holding(t) /\ op[t] \in RecvOps
               /\ count > 0
               /\ RawRecv(t)
               /\ ready' = FALSE
               /\ ok' = [ok EXCEPT ![t] = TRUE]
               /\ lock' = NoThread
               /\ LET returned == [pc EXCEPT ![t] = "idle"]
                  IN  \/ RecvSignals /\ pc' \in Signalled(returned)
                      \/ ~RecvSignals /\ pc' = returned
               /\ UNCHANGED op

(* tryAcquireSys succeeds if the lock is free; otherwise tryRecv gives up. *)
TryRecvLock(t) == /\ pc[t] = "enter" /\ op[t] = "tryRecv"
                  /\ \/ /\ lock = NoThread
                        /\ lock' = t
                        /\ pc' = [pc EXCEPT ![t] = "in"]
                        /\ UNCHANGED ok
                     \/ /\ lock # NoThread
                        /\ Return(t, FALSE)
                        /\ UNCHANGED lock
                  /\ UNCHANGED <<ring, ready, op, msg>>

TryRecvEmpty(t) == /\ Holding(t) /\ op[t] = "tryRecv"
                   /\ count <= 0
                   /\ lock' = NoThread
                   /\ Return(t, FALSE)
                   /\ UNCHANGED <<ring, ready, op, msg>>

(* peek returns count, read under the lock.                                *)
Peek(t) == /\ Holding(t) /\ op[t] = "peek"
           /\ lock' = NoThread
           /\ pc' = [pc EXCEPT ![t] = "idle"]
           /\ UNCHANGED <<ring, ready, call>>

(* deinitRawChannel: the lock is destroyed while it is held, and glibc     *)
(* leaves such a mutex locked.  The buffer is freed; count, rd, wr stay.   *)
Close(t) == /\ Holding(t) /\ op[t] = "close"
            /\ mask' = ChannelDeadMask
            /\ data' = << >>
            /\ pc' = [pc EXCEPT ![t] = "idle"]
            /\ UNCHANGED <<rd, wr, count, ready, lock, call>>

-----------------------------------------------------------------------------
Starts(t) == StartSend(t) \/ StartOther(t) \/ DeadCall(t)

(* The steps of a thread inside a call.                                    *)
Continues(t) == \/ Acquire(t)
                \/ SendWait(t) \/ TrySendFull(t) \/ SendStore(t) \/ SendSignal(t)
                \/ RecvWait(t) \/ RecvTake(t) \/ TryRecvLock(t) \/ TryRecvEmpty(t)
                \/ Peek(t) \/ Close(t)

Next == \E t \in Threads : Starts(t) \/ Continues(t) \/ SpuriousWakeup(t)

Spec == Init /\ [][Next]_vars

-----------------------------------------------------------------------------
(* Properties.                                                             *)

(* Every variable has its type, and a thread holds the lock exactly while  *)
(* it is in a critical section (or has closed the channel).                *)
TypeOK ==
  /\ mask \in Int /\ mask >= ChannelDeadMask
  /\ count \in Nat /\ rd \in Nat /\ wr \in Nat
  /\ data \in [0 .. mask -> Msgs \union {NoMsg}]
  /\ ready \in BOOLEAN
  /\ lock \in Threads \union {NoThread}
  /\ pc \in [Threads -> PCs]
  /\ op \in [Threads -> Ops]
  /\ msg \in [Threads -> Msgs \union {NoMsg}]
  /\ ok \in [Threads -> BOOLEAN]

(* A thread whose call has not taken effect yet.                           *)
Busy == {t \in Threads : pc[t] \in {"enter", "in", "wait", "wake", "again"}}

Queue == INSTANCE MessageQueue WITH
           capacity <- MaxItems,
           exact <- TRUE,
           queue <- IF mask = ChannelDeadMask THEN << >> ELSE Contents,
           open <- mask # ChannelDeadMask,
           busy <- Busy

(* Whatever the interleaving, the ring buffer behaves as a bounded FIFO    *)
(* queue: no message is lost, duplicated, reordered or corrupted by the    *)
(* growth of the buffer or by the indices wrapping around, a bounded       *)
(* channel never holds more than maxItems messages, trySend fails only on  *)
(* a full channel and recv returns the oldest message.                     *)
ImplementsQueue == Queue!QSpec

(* The indices stay inside the buffer and agree with count.                *)
RingConsistent ==
  mask # ChannelDeadMask =>
    /\ count <= mask + 1
    /\ IF mask = -1 THEN rd = 0 /\ wr = 0
                    ELSE /\ rd \in 0 .. mask
                         /\ wr = Slot(count + 1)

(* The wakeups under way: signals that senders still owe, and receivers    *)
(* that were woken and have not yet looked at count again.                 *)
OwedSignals    == {t \in Threads : pc[t] = "signal"}
WokenReceivers == {t \in Threads : op[t] = "recv" /\ pc[t] \in {"wake", "again"}}

(* No lost wakeup in an unlimited channel, with any number of senders and  *)
(* receivers: while a receiver sleeps, every message in the channel is     *)
(* matched by a wakeup under way.                                          *)
NoLostWakeup ==
  MaxItems = 0 /\ Waiters # {} =>
    count <= Cardinality(OwedSignals \union WokenReceivers)

MayGoOn(t) == IF op[t] = "send" THEN ~Full ELSE count > 0

(* open() says: "The send operation will block until number of unprocessed *)
(* items is less than maxItems", recv() that it "blocks until a message has*)
(* arrived": when all threads sleep, no sleeper has what it waits for.     *)
AllAsleepJustified == Waiters = Threads => \A t \in Threads : ~MayGoOn(t)
=============================================================================
