--------------------------- MODULE ChannelProofs ---------------------------
(***************************************************************************)
(* Theorems about Channel, for every set of threads and messages, every    *)
(* maxItems and every number of messages in the channel.                   *)
(***************************************************************************)
EXTENDS Channel, SequenceTheorems, FiniteSetTheorems, TLAPS

(* Only the holder of the lock is in a critical section; a closed channel  *)
(* keeps its lock locked, so that nobody enters one again.                 *)
LockInv == /\ \A t \in Threads : Holding(t) => lock = t
           /\ mask = ChannelDeadMask =>
                /\ lock # NoThread
                /\ \A t \in Threads : ~Holding(t)

IInv == TypeOK /\ RingConsistent /\ LockInv

(***************************************************************************)
(* The ring buffer keeps its shape in a send and in a receive.             *)
(***************************************************************************)
LEMMA RawSendShape ==
  ASSUME TypeOK, RingConsistent, mask # ChannelDeadMask,
         NEW m \in Msgs \union {NoMsg}, RawSend(m)
  PROVE  /\ mask' \in Nat
         /\ count' = count + 1 /\ count' <= mask' + 1
         /\ rd' \in 0 .. mask'
         /\ wr' = Slot(count + 1)'
         /\ wr' \in Nat
         /\ data' \in [0 .. mask' -> Msgs \union {NoMsg}]
<1> USE DEF TypeOK, RingConsistent, RawSend, NewSlots, Copied, Slot, Succ, GrownMask,
            ChannelDeadMask
<1>1. CASE count >= mask + 1
  BY <1>1
<1>2. CASE count < mask + 1
  <2>1. mask \in Nat /\ wr \in 0 .. mask
    BY <1>2
  <2>2. rd' = rd /\ mask' = mask /\ wr' = Succ(wr, mask) /\ count' = count + 1
    BY <1>2
  <2>3. data' = [data EXCEPT ![wr] = m]
    BY <1>2
  <2> QED BY <1>2, <2>1, <2>2, <2>3
<1> QED BY <1>1, <1>2

LEMMA RawRecvShape ==
  ASSUME TypeOK, RingConsistent, mask # ChannelDeadMask, count > 0,
         NEW t \in Threads, RawRecv(t)
  PROVE  /\ count' = count - 1 /\ count' \in Nat /\ count' <= mask' + 1
         /\ mask' = mask /\ mask \in Nat /\ data' = data /\ wr' = wr
         /\ rd \in 0 .. mask /\ rd' \in 0 .. mask'
         /\ wr' = Slot(count + 1)'
         /\ data[rd] \in Msgs \union {NoMsg}
         /\ msg' = [msg EXCEPT ![t] = data[rd]]
<1>1. mask \in Nat /\ rd \in 0 .. mask /\ wr = Slot(count + 1) /\ count <= mask + 1
  BY DEF TypeOK, RingConsistent, ChannelDeadMask, Slot
<1>2. mask' = mask /\ data' = data /\ wr' = wr /\ count' = count - 1
      /\ rd' = Succ(rd, mask) /\ msg' = [msg EXCEPT ![t] = data[rd]]
  BY DEF RawRecv
<1>3. wr' = Slot(count + 1)'
  BY <1>1, <1>2 DEF Slot, Succ, TypeOK
<1> QED BY <1>1, <1>2, <1>3 DEF Succ, TypeOK

(***************************************************************************)
(* The inductive invariant.                                                *)
(***************************************************************************)
LEMMA InitInv == Init => IInv
<1> SUFFICES ASSUME Init PROVE IInv
  OBVIOUS
<1>1. data \in [0 .. mask -> Msgs \union {NoMsg}]
  BY DEF Init
<1>2. TypeOK
  <2>1. mask \in Int /\ mask >= ChannelDeadMask /\ count \in Nat /\ rd \in Nat /\ wr \in Nat
    BY DEF Init, ChannelDeadMask
  <2> QED BY <1>1, <2>1 DEF Init, TypeOK, PCs, Ops
<1> QED BY <1>2 DEF Init, IInv, RingConsistent, LockInv, Holding, ChannelDeadMask

LEMMA StepInv == IInv /\ [Next]_vars => IInv'
<1> SUFFICES ASSUME IInv, [Next]_vars PROVE IInv'
  OBVIOUS
<1> USE ConstantsAssumption
<1>0. CASE UNCHANGED vars
  BY <1>0 DEF IInv, TypeOK, RingConsistent, LockInv, Holding, Slot, vars
<1>ring. ASSUME UNCHANGED ring PROVE RingConsistent'
  BY <1>ring DEF IInv, RingConsistent, Slot, ring
<1>1. ASSUME NEW t \in Threads, Starts(t) PROVE IInv'
  <2>1. UNCHANGED <<ring, ready, lock>>
    BY <1>1 DEF Starts, StartSend, StartOther, DeadCall
  <2>2. TypeOK'
    <3>1. PICK o \in Ops, m \in Msgs \union {NoMsg} : Start(t, o, m)
      BY <1>1 DEF Starts, StartSend, StartOther, DeadCall, Ops, RecvOps
    <3>2. pc' \in [Threads -> PCs]
      BY <1>1 DEF Starts, StartSend, StartOther, DeadCall, IInv, TypeOK, PCs
    <3> QED BY <2>1, <3>1, <3>2 DEF Start, IInv, TypeOK, ring
  <2>3. LockInv'
    BY <1>1, <2>1 DEF Starts, StartSend, StartOther, DeadCall, Start, IInv, TypeOK, ring,
                      LockInv, Holding
  <2> QED BY <1>ring, <2>1, <2>2, <2>3 DEF IInv
<1>2. ASSUME NEW t \in Threads, Acquire(t) \/ TryRecvLock(t) PROVE IInv'
  <2>1. TypeOK' /\ UNCHANGED ring
    BY <1>2 DEF Acquire, TryRecvLock, Return, IInv, TypeOK, ring, call, PCs
  <2>2. LockInv'
    BY <1>2, <2>1 DEF Acquire, TryRecvLock, Return, IInv, TypeOK, ring, LockInv, Holding
  <2> QED BY <1>ring, <2>1, <2>2 DEF IInv
<1>3. ASSUME NEW t \in Threads, SendWait(t) \/ RecvWait(t) PROVE IInv'
  <2>1. TypeOK' /\ UNCHANGED ring
    BY <1>3 DEF SendWait, RecvWait, Sleep, IInv, TypeOK, ring, call, PCs
  <2>2. LockInv'
    BY <1>3, <2>1 DEF SendWait, RecvWait, Sleep, IInv, TypeOK, ring, LockInv, Holding
  <2> QED BY <1>ring, <2>1, <2>2 DEF IInv
<1>4. ASSUME NEW t \in Threads, TrySendFull(t) \/ TryRecvEmpty(t) \/ Peek(t) PROVE IInv'
  <2>1. TypeOK' /\ UNCHANGED ring
    BY <1>4 DEF TrySendFull, TryRecvEmpty, Peek, Return, IInv, TypeOK, ring, call, PCs
  <2>2. LockInv'
    BY <1>4, <2>1 DEF TrySendFull, TryRecvEmpty, Peek, Return, IInv, TypeOK, ring,
                      LockInv, Holding
  <2> QED BY <1>ring, <2>1, <2>2 DEF IInv
<1>5. ASSUME NEW t \in Threads, SendSignal(t) \/ SpuriousWakeup(t) PROVE IInv'
  <2>1. UNCHANGED <<ring, ready, lock, op, msg, ok>>
    BY <1>5 DEF SendSignal, SpuriousWakeup, call
  <2>2. pc' \in [Threads -> PCs] /\ \A u \in Threads : Holding(u)' => Holding(u)
    BY <1>5 DEF SendSignal, SpuriousWakeup, Signalled, Waiters, Holding, IInv, TypeOK, PCs
  <2>3. TypeOK' /\ LockInv'
    BY <2>1, <2>2 DEF IInv, TypeOK, LockInv, ring, Holding
  <2> QED BY <1>ring, <2>1, <2>3 DEF IInv
<1>6. ASSUME NEW t \in Threads, SendStore(t) PROVE IInv'
  <2>1. mask # ChannelDeadMask /\ msg[t] \in Msgs \union {NoMsg} /\ RawSend(msg[t])
    BY <1>6 DEF SendStore, IInv, LockInv, TypeOK
  <2>2. /\ mask' \in Nat
        /\ count' = count + 1 /\ count' <= mask' + 1
        /\ rd' \in 0 .. mask'
        /\ wr' = Slot(count + 1)'
        /\ wr' \in Nat
        /\ data' \in [0 .. mask' -> Msgs \union {NoMsg}]
    BY <2>1, RawSendShape DEF IInv
  <2>3. TypeOK'
    BY <1>6, <2>2 DEF SendStore, IInv, TypeOK, PCs, ChannelDeadMask
  <2>4. RingConsistent'
    BY <2>2 DEF RingConsistent
  <2>5. LockInv'
    BY <1>6, <2>2 DEF SendStore, IInv, TypeOK, LockInv, Holding, ChannelDeadMask
  <2> QED BY <2>3, <2>4, <2>5 DEF IInv
<1>7. ASSUME NEW t \in Threads, RecvTake(t) PROVE IInv'
  <2>1. mask # ChannelDeadMask /\ count > 0 /\ RawRecv(t)
    BY <1>7 DEF RecvTake, IInv, LockInv, TypeOK
  <2>2. /\ count' = count - 1 /\ count' \in Nat /\ count' <= mask' + 1
        /\ mask' = mask /\ mask \in Nat /\ data' = data /\ wr' = wr
        /\ rd \in 0 .. mask /\ rd' \in 0 .. mask'
        /\ wr' = Slot(count + 1)'
        /\ data[rd] \in Msgs \union {NoMsg}
        /\ msg' = [msg EXCEPT ![t] = data[rd]]
    BY <2>1, RawRecvShape DEF IInv
  <2>3. /\ pc' \in [Threads -> PCs]
        /\ \A u \in Threads : Holding(u)' => Holding(u) /\ u # t
    BY <1>7 DEF RecvTake, Signalled, Waiters, Holding, IInv, TypeOK, PCs
  <2>4. TypeOK'
    <3>1. /\ ready' = FALSE /\ lock' = NoThread /\ UNCHANGED op
          /\ ok' = [ok EXCEPT ![t] = TRUE]
      BY <1>7 DEF RecvTake
    <3>2. msg' \in [Threads -> Msgs \union {NoMsg}]
      BY <2>2 DEF IInv, TypeOK
    <3>3. ok' \in [Threads -> BOOLEAN] /\ op' \in [Threads -> Ops]
      BY <3>1 DEF IInv, TypeOK
    <3>4. /\ mask' \in Int /\ mask' >= ChannelDeadMask
          /\ count' \in Nat /\ rd' \in Nat /\ wr' \in Nat
          /\ data' \in [0 .. mask' -> Msgs \union {NoMsg}]
      BY <2>2 DEF IInv, TypeOK
    <3> QED BY <2>3, <3>1, <3>2, <3>3, <3>4 DEF TypeOK
  <2>5. RingConsistent'
    BY <2>2 DEF RingConsistent
  <2>6. LockInv'
    <3>1. lock = t /\ lock' = NoThread
      BY <1>7 DEF RecvTake, IInv, LockInv
    <3>2. \A u \in Threads : ~Holding(u)'
      BY <2>3, <3>1 DEF IInv, LockInv
    <3> QED BY <2>2, <3>2 DEF LockInv, ChannelDeadMask
  <2> QED BY <2>4, <2>5, <2>6 DEF IInv
<1>8. ASSUME NEW t \in Threads, Close(t) PROVE IInv'
  <2>1. mask' = ChannelDeadMask /\ data' = << >> /\ pc' = [pc EXCEPT ![t] = "idle"]
        /\ UNCHANGED <<rd, wr, count, ready, lock, op, msg, ok>> /\ lock = t
    BY <1>8 DEF Close, call, IInv, LockInv
  <2>2. data' \in [0 .. mask' -> Msgs \union {NoMsg}]
    BY <2>1 DEF ChannelDeadMask
  <2>3. TypeOK'
    BY <2>1, <2>2 DEF IInv, TypeOK, PCs, ChannelDeadMask
  <2>4. LockInv'
    BY <2>1 DEF IInv, TypeOK, LockInv, Holding
  <2> QED BY <2>1, <2>3, <2>4 DEF IInv, RingConsistent
<1> QED
  BY <1>0, <1>1, <1>2, <1>3, <1>4, <1>5, <1>6, <1>7, <1>8 DEF Next, Continues

(* Every variable keeps its type: in particular the message a receiver     *)
(* takes is read from a slot inside the buffer, and count is never         *)
(* negative.                                                               *)
THEOREM TypeCorrect == Spec => []TypeOK
<1>1. IInv => TypeOK
  BY DEF IInv
<1> QED BY InitInv, StepInv, <1>1, PTL DEF Spec

(* The indices of the ring buffer agree with count, whatever the growth.   *)
THEOREM RingCorrect == Spec => []RingConsistent
<1>1. IInv => RingConsistent
  BY DEF IInv
<1> QED BY InitInv, StepInv, <1>1, PTL DEF Spec

-----------------------------------------------------------------------------
(***************************************************************************)
(* The refinement.  A send appends to the contents, a receive takes the    *)
(* head; the contents do not depend on how the messages lie in the ring.   *)
(***************************************************************************)
LEMMA ContentsIsSeq ==
  ASSUME TypeOK, RingConsistent, mask # ChannelDeadMask
  PROVE  /\ Contents \in Seq(Msgs \union {NoMsg})
         /\ Len(Contents) = count
         /\ \A k \in 1 .. count : Contents[k] = data[Slot(k)]
<1>1. \A k \in 1 .. count : Slot(k) \in 0 .. mask
  BY DEF TypeOK, RingConsistent, Slot, ChannelDeadMask
<1>2. \A k \in 1 .. count : data[Slot(k)] \in Msgs \union {NoMsg}
  BY <1>1 DEF TypeOK
<1> QED BY <1>2 DEF Contents, TypeOK

LEMMA RawSendAppends ==
  ASSUME TypeOK, RingConsistent, mask # ChannelDeadMask,
         NEW m \in Msgs \union {NoMsg}, RawSend(m)
  PROVE  Contents' = Append(Contents, m)
<1>1. /\ Contents \in Seq(Msgs \union {NoMsg}) /\ Len(Contents) = count
      /\ \A k \in 1 .. count : Contents[k] = data[Slot(k)]
  BY ContentsIsSeq
<1>2. count' = count + 1 /\ count \in Nat
  BY RawSendShape DEF TypeOK
<1>3. \A k \in 1 .. count : Slot(k) \in 0 .. mask /\ Slot(k) \in Int
  BY DEF TypeOK, RingConsistent, Slot, ChannelDeadMask
<1>4. \A k \in 1 .. count : data'[Slot(k)'] = data[Slot(k)]
  <2>1. CASE count >= mask + 1
    <3>1. rd' = 0 /\ mask' = GrownMask /\ GrownMask >= count
      BY <2>1 DEF RawSend, GrownMask, TypeOK, RingConsistent, ChannelDeadMask
    <3>2. ASSUME NEW k \in 1 .. count PROVE Slot(k)' = k - 1 /\ k - 1 \in 0 .. GrownMask
      BY <3>1, <1>2 DEF Slot, GrownMask, TypeOK
    <3>3. data' = [i \in 0 .. GrownMask |->
                     IF i < count THEN data[Slot(i + 1)]
                     ELSE IF i = count THEN m ELSE NoMsg]
      BY <2>1 DEF RawSend, NewSlots, Copied, TypeOK
    <3>4. ASSUME NEW k \in 1 .. count PROVE data'[k - 1] = data[Slot(k)]
      <4>1. k - 1 \in 0 .. GrownMask /\ k - 1 < count /\ (k - 1) + 1 = k
        BY <3>2, <1>2
      <4> QED BY <4>1, <3>3
    <3> QED BY <3>2, <3>4
  <2>2. CASE count < mask + 1
    <3>1. rd' = rd /\ mask' = mask /\ data' = [data EXCEPT ![wr] = m]
      BY <2>2 DEF RawSend, TypeOK
    <3>2. ASSUME NEW k \in 1 .. count PROVE Slot(k)' = Slot(k) /\ Slot(k) # wr
      BY <2>2, <3>1, <1>2 DEF Slot, TypeOK, RingConsistent, ChannelDeadMask
    <3> QED BY <3>1, <3>2, <1>3 DEF TypeOK
  <2> QED BY <2>1, <2>2 DEF TypeOK
<1>5. data'[Slot(count)'] = m
  <2>1. CASE count >= mask + 1
    <3>1. rd' = 0 /\ mask' = GrownMask /\ GrownMask >= count
      BY <2>1 DEF RawSend, GrownMask, TypeOK, RingConsistent, ChannelDeadMask
    <3>2. Slot(count)' = count /\ count \in 0 .. GrownMask
      BY <3>1, <1>2 DEF Slot, GrownMask, TypeOK
    <3>3. data' = [i \in 0 .. GrownMask |->
                     IF i < count THEN data[Slot(i + 1)]
                     ELSE IF i = count THEN m ELSE NoMsg]
      BY <2>1 DEF RawSend, NewSlots, Copied, TypeOK
    <3> QED BY <1>2, <3>2, <3>3
  <2>2. CASE count < mask + 1
    <3>1. rd' = rd /\ mask' = mask /\ data' = [data EXCEPT ![wr] = m]
      BY <2>2 DEF RawSend, TypeOK
    <3>2. Slot(count)' = wr /\ wr \in 0 .. mask
      BY <2>2, <3>1, <1>2 DEF Slot, TypeOK, RingConsistent, ChannelDeadMask
    <3> QED BY <3>1, <3>2 DEF TypeOK
  <2> QED BY <2>1, <2>2 DEF TypeOK
<1>6. /\ Contents' \in Seq(Msgs \union {NoMsg})
      /\ Len(Contents') = count + 1
      /\ \A k \in 1 .. count + 1 : Contents'[k] = IF k <= count THEN Contents[k] ELSE m
  <2>1. Contents' = [k \in 1 .. count + 1 |-> data'[Slot(k)']]
    BY <1>2 DEF Contents
  <2>3. ASSUME NEW k \in 1 .. count + 1
        PROVE  data'[Slot(k)'] = IF k <= count THEN Contents[k] ELSE m
    <3>1. CASE k <= count
      BY <3>1, <1>1, <1>2, <1>4
    <3>2. CASE k = count'
      BY <3>2, <1>2, <1>5
    <3> QED BY <3>1, <3>2, <1>2
  <2>4. \A k \in 1 .. count + 1 : data'[Slot(k)'] \in Msgs \union {NoMsg}
    BY <1>1, <1>2, <2>3, ElementOfSeq
  <2> QED BY <1>2, <2>1, <2>3, <2>4
<1>7. /\ Append(Contents, m) \in Seq(Msgs \union {NoMsg})
      /\ Len(Append(Contents, m)) = count + 1
      /\ \A k \in 1 .. count + 1 : Append(Contents, m)[k] = IF k <= count THEN Contents[k] ELSE m
  BY <1>1, <1>2, AppendProperties
<1>8. \A k \in 1 .. Len(Contents') : Contents'[k] = Append(Contents, m)[k]
  BY <1>6, <1>7
<1> QED BY <1>6, <1>7, <1>8, SeqEqual

LEMMA RawRecvTakesHead ==
  ASSUME TypeOK, RingConsistent, mask # ChannelDeadMask, count > 0,
         NEW t \in Threads, RawRecv(t)
  PROVE  /\ Contents # << >>
         /\ Contents' = Tail(Contents)
         /\ msg' = [msg EXCEPT ![t] = Head(Contents)]
<1>1. /\ Contents \in Seq(Msgs \union {NoMsg}) /\ Len(Contents) = count
      /\ \A k \in 1 .. count : Contents[k] = data[Slot(k)]
  BY ContentsIsSeq
<1>2. /\ count \in Nat /\ count' = count - 1 /\ mask' = mask /\ mask \in Nat
      /\ data' = data /\ rd \in 0 .. mask /\ rd' = Succ(rd, mask)
      /\ msg' = [msg EXCEPT ![t] = data[rd]] /\ count <= mask + 1
  BY RawRecvShape DEF RawRecv, TypeOK, RingConsistent
<1>3. Slot(1) = rd
  BY <1>2 DEF Slot
<1>4. Head(Contents) = data[rd] /\ Contents # << >>
  BY <1>1, <1>2, <1>3
<1>5. \A k \in 1 .. count - 1 : Slot(k)' = Slot(k + 1)
  BY <1>2 DEF Slot, Succ
<1>6. /\ Contents' \in Seq(Msgs \union {NoMsg})
      /\ Len(Contents') = count - 1
      /\ \A k \in 1 .. count - 1 : Contents'[k] = Contents[k + 1]
  <2>1. Contents' = [k \in 1 .. count - 1 |-> data[Slot(k)']]
    BY <1>2 DEF Contents
  <2>2. \A k \in 1 .. count - 1 : data[Slot(k)'] = Contents[k + 1]
    BY <1>1, <1>2, <1>5
  <2>3. \A k \in 1 .. count - 1 : Contents[k + 1] \in Msgs \union {NoMsg}
    BY <1>1, <1>2, ElementOfSeq
  <2>4. /\ Contents' = [k \in 1 .. count - 1 |-> Contents[k + 1]] /\ count - 1 \in Nat
    BY <1>2, <2>1, <2>2
  <2> QED BY <2>3, <2>4
<1>7. /\ Tail(Contents) \in Seq(Msgs \union {NoMsg})
      /\ Len(Tail(Contents)) = count - 1
      /\ \A k \in 1 .. count - 1 : Tail(Contents)[k] = Contents[k + 1]
  BY <1>1, <1>2, <1>4, HeadTailProperties
<1>8. \A k \in 1 .. Len(Contents') : Contents'[k] = Tail(Contents)[k]
  BY <1>6, <1>7
<1>9. Contents' = Tail(Contents)
  BY <1>6, <1>7, <1>8, SeqEqual
<1> QED BY <1>2, <1>4, <1>9

LEMMA InitRefines == Init => Queue!QInit
<1> SUFFICES ASSUME Init PROVE Queue!QInit
  OBVIOUS
<1>1. Contents = << >>
  BY DEF Init, Contents
<1>2. mask # ChannelDeadMask
  BY DEF Init, ChannelDeadMask
<1>3. Busy = {}
  BY DEF Init, Busy
<1> QED BY <1>1, <1>2, <1>3, ConstantsAssumption DEF Init, Queue!QInit

LEMMA StepRefines == IInv /\ [Next]_vars => [Queue!QNext]_(Queue!qvars)
<1> SUFFICES ASSUME IInv, [Next]_vars PROVE [Queue!QNext]_(Queue!qvars)
  OBVIOUS
<1> DEFINE queue == IF mask = ChannelDeadMask THEN << >> ELSE Contents
<1> USE ConstantsAssumption
<1>ring. ASSUME UNCHANGED ring PROVE UNCHANGED <<queue, mask>>
  BY <1>ring DEF ring, Contents, Slot
<1>live. ASSUME NEW t \in Threads, Holding(t)
         PROVE  mask # ChannelDeadMask /\ t \in Busy
  BY <1>live DEF IInv, LockInv, Holding, Busy
<1>out. ASSUME NEW t \in Threads, NEW r \in {"idle", "signal"}, pc' = [pc EXCEPT ![t] = r],
               Holding(t)
        PROVE  Busy' = Busy \ {t}
  BY <1>out DEF IInv, TypeOK, Busy
<1>0. CASE UNCHANGED vars
  BY <1>0 DEF vars, Queue!qvars, Contents, Slot, Busy
<1>1. ASSUME NEW t \in Threads, StartSend(t) \/ StartOther(t) PROVE Queue!Begin(t)
  <2>1. PICK o \in Ops, m \in Msgs \union {NoMsg} :
           Start(t, o, m) /\ (o \in SendOps <=> m \in Msgs)
    BY <1>1 DEF StartSend, StartOther, Ops, RecvOps
  <2>2. pc' = [pc EXCEPT ![t] = "enter"] /\ UNCHANGED ring
    BY <1>1 DEF StartSend, StartOther, ring
  <2>3. t \notin Busy /\ Busy' = Busy \union {t}
    BY <2>1, <2>2 DEF Start, Busy, IInv, TypeOK
  <2>4. o \in Queue!QueueOps /\ (o \in Queue!SendOps <=> m \in Msgs)
    BY <2>1 DEF Ops, SendOps, RecvOps, Queue!QueueOps, Queue!SendOps, Queue!RecvOps
  <2> QED BY <1>ring, <2>1, <2>2, <2>3, <2>4 DEF Queue!Begin, Start
<1>2. ASSUME NEW t \in Threads, DeadCall(t) PROVE Queue!Fail(t)
  <2>1. PICK o \in SendOps \union {"tryRecv", "peek"} : Start(t, o, NoMsg)
    BY <1>2 DEF DeadCall
  <2>2. UNCHANGED <<ring, pc>> /\ mask = ChannelDeadMask
    BY <1>2 DEF DeadCall
  <2>3. t \notin Busy /\ Busy' = Busy
    BY <2>1, <2>2 DEF Start, Busy, IInv, TypeOK
  <2>4. o \in Queue!QueueOps \ {"recv", "close"}
    BY <2>1 DEF SendOps, Queue!QueueOps, Queue!SendOps, Queue!RecvOps
  <2> QED BY <1>ring, <2>1, <2>2, <2>3, <2>4 DEF Queue!Fail, Start
<1>3. ASSUME NEW t \in Threads, Acquire(t) \/ SendWait(t) \/ RecvWait(t) \/ SendSignal(t)
                                \/ SpuriousWakeup(t)
      PROVE  UNCHANGED Queue!qvars
  <2>1. UNCHANGED <<ring, op, msg, ok>>
    BY <1>3 DEF Acquire, SendWait, RecvWait, SendSignal, SpuriousWakeup, Sleep, call
  <2>2. Busy' = Busy
    BY <1>3 DEF Acquire, SendWait, RecvWait, SendSignal, SpuriousWakeup, Sleep, Busy,
                Holding, Signalled, Waiters, IInv, TypeOK
  <2> QED BY <1>ring, <2>1, <2>2 DEF Queue!qvars
<1>4. ASSUME NEW t \in Threads, TrySendFull(t) PROVE Queue!Refuse(t)
  <2>1. Holding(t) /\ op[t] = "trySend" /\ Full /\ UNCHANGED <<ring, op, msg>>
        /\ pc' = [pc EXCEPT ![t] = "idle"] /\ ok' = [ok EXCEPT ![t] = FALSE]
    BY <1>4 DEF TrySendFull, Return
  <2>2. mask # ChannelDeadMask /\ t \in Busy /\ Busy' = Busy \ {t}
    BY <1>live, <1>out, <2>1
  <2>3. Queue!IsFull
    BY <2>1, <2>2, ContentsIsSeq DEF IInv, Full, Queue!IsFull
  <2> QED BY <1>ring, <2>1, <2>2, <2>3 DEF Queue!Refuse, Queue!Effect
<1>5. ASSUME NEW t \in Threads, SendStore(t) PROVE Queue!Put(t)
  <2>1. /\ Holding(t) /\ op[t] \in SendOps /\ ~Full /\ RawSend(msg[t]) /\ UNCHANGED <<op, msg>>
        /\ pc' = [pc EXCEPT ![t] = "signal"] /\ ok' = [ok EXCEPT ![t] = TRUE]
    BY <1>5 DEF SendStore
  <2>2. mask # ChannelDeadMask /\ t \in Busy /\ Busy' = Busy \ {t}
    BY <1>live, <1>out, <2>1
  <2>3. msg[t] \in Msgs \union {NoMsg}
    BY DEF IInv, TypeOK
  <2>4. mask' # ChannelDeadMask
    BY <2>1, <2>2, <2>3, RawSendShape DEF IInv, ChannelDeadMask
  <2>5. Contents' = Append(Contents, msg[t])
    BY <2>1, <2>2, <2>3, RawSendAppends DEF IInv
  <2>6. ~Queue!IsFull
    BY <2>1, <2>2, ContentsIsSeq DEF IInv, Full, Queue!IsFull
  <2> QED BY <2>1, <2>2, <2>4, <2>5, <2>6
          DEF Queue!Put, Queue!Effect, Queue!SendOps, SendOps
<1>6. ASSUME NEW t \in Threads, RecvTake(t) PROVE Queue!Get(t)
  <2>1. /\ Holding(t) /\ op[t] \in RecvOps /\ count > 0 /\ RawRecv(t) /\ UNCHANGED op
        /\ ok' = [ok EXCEPT ![t] = TRUE]
    BY <1>6 DEF RecvTake
  <2>2. mask # ChannelDeadMask /\ t \in Busy
    BY <1>live, <2>1
  <2>3. Busy' = Busy \ {t}
    BY <1>6, <2>1 DEF RecvTake, Signalled, Waiters, Busy, Holding, IInv, TypeOK
  <2>4. mask' # ChannelDeadMask
    BY <2>1, <2>2, RawRecvShape DEF IInv, ChannelDeadMask
  <2>5. Contents # << >> /\ Contents' = Tail(Contents)
        /\ msg' = [msg EXCEPT ![t] = Head(Contents)]
    BY <2>1, <2>2, RawRecvTakesHead DEF IInv
  <2> QED BY <2>1, <2>2, <2>3, <2>4, <2>5
          DEF Queue!Get, Queue!Effect, Queue!RecvOps, RecvOps
<1>7. ASSUME NEW t \in Threads, TryRecvLock(t)
      PROVE  Queue!Miss(t) \/ UNCHANGED Queue!qvars
  <2>1. pc[t] = "enter" /\ op[t] = "tryRecv" /\ UNCHANGED <<ring, op, msg>>
    BY <1>7 DEF TryRecvLock
  <2>2. CASE lock = NoThread /\ pc' = [pc EXCEPT ![t] = "in"] /\ UNCHANGED ok
    <3>1. Busy' = Busy
      BY <2>1, <2>2 DEF Busy, IInv, TypeOK
    <3> QED BY <1>ring, <2>1, <2>2, <3>1 DEF Queue!qvars
  <2>3. CASE pc' = [pc EXCEPT ![t] = "idle"] /\ ok' = [ok EXCEPT ![t] = FALSE]
    <3>1. t \in Busy /\ Busy' = Busy \ {t}
      BY <2>1, <2>3 DEF Busy, IInv, TypeOK
    <3> QED BY <1>ring, <2>1, <2>3, <3>1 DEF Queue!Miss, Queue!Effect
  <2> QED BY <1>7, <2>2, <2>3 DEF TryRecvLock, Return
<1>8. ASSUME NEW t \in Threads, TryRecvEmpty(t) PROVE Queue!Miss(t)
  <2>1. Holding(t) /\ op[t] = "tryRecv" /\ UNCHANGED <<ring, op, msg>>
        /\ pc' = [pc EXCEPT ![t] = "idle"] /\ ok' = [ok EXCEPT ![t] = FALSE]
    BY <1>8 DEF TryRecvEmpty, Return
  <2>2. t \in Busy /\ Busy' = Busy \ {t}
    BY <1>live, <1>out, <2>1
  <2> QED BY <1>ring, <2>1, <2>2 DEF Queue!Miss, Queue!Effect
<1>9. ASSUME NEW t \in Threads, Peek(t) PROVE Queue!Look(t)
  <2>1. Holding(t) /\ op[t] = "peek" /\ UNCHANGED <<ring, op, msg, ok>>
        /\ pc' = [pc EXCEPT ![t] = "idle"]
    BY <1>9 DEF Peek, call
  <2>2. mask # ChannelDeadMask /\ t \in Busy /\ Busy' = Busy \ {t}
    BY <1>live, <1>out, <2>1
  <2> QED BY <1>ring, <2>1, <2>2 DEF Queue!Look, Queue!Effect
<1>10. ASSUME NEW t \in Threads, Close(t) PROVE Queue!Shut(t)
  <2>1. Holding(t) /\ op[t] = "close" /\ UNCHANGED <<op, msg, ok>>
        /\ pc' = [pc EXCEPT ![t] = "idle"] /\ mask' = ChannelDeadMask
    BY <1>10 DEF Close, call
  <2>2. mask # ChannelDeadMask /\ t \in Busy /\ Busy' = Busy \ {t}
    BY <1>live, <1>out, <2>1
  <2> QED BY <2>1, <2>2 DEF Queue!Shut, Queue!Effect
<1> QED
  BY <1>0, <1>1, <1>2, <1>3, <1>4, <1>5, <1>6, <1>7, <1>8, <1>9, <1>10
  DEF Next, Starts, Continues, Queue!QNext

(* A channel is a bounded first in, first out queue: every run of the code *)
(* is, seen through its contents, a run of MessageQueue.                   *)
THEOREM Refines == Spec => ImplementsQueue
<1>1. Init => Queue!QInit
  BY InitRefines
<1>2. IInv /\ [Next]_vars => [Queue!QNext]_(Queue!qvars)
  BY StepRefines
<1> QED BY InitInv, StepInv, <1>1, <1>2, PTL DEF Spec, ImplementsQueue, Queue!QSpec

-----------------------------------------------------------------------------
(***************************************************************************)
(* No lost wakeup.  In an unlimited channel only receivers ever sleep, so  *)
(* a signal always reaches a thread that can use it, and the wakeups under *)
(* way keep up with the messages.                                          *)
(***************************************************************************)
Wakeups == OwedSignals \union WokenReceivers

OnlyReceiversSleep ==
  MaxItems = 0 => \A t \in Threads : pc[t] \in {"wait", "wake", "again"} => op[t] = "recv"

WakeupInv == OnlyReceiversSleep /\ NoLostWakeup

LEMMA WakeupsFinite == IsFiniteSet(Wakeups) /\ Cardinality(Wakeups) \in Nat
<1>1. Wakeups \subseteq Threads
  BY DEF Wakeups, OwedSignals, WokenReceivers
<1> QED BY <1>1, ThreadsFinite, FS_Subset, FS_CardinalityType

LEMMA StepSleepers == IInv /\ OnlyReceiversSleep /\ [Next]_vars => OnlyReceiversSleep'
<1> SUFFICES ASSUME IInv, OnlyReceiversSleep, [Next]_vars, MaxItems = 0
             PROVE  \A t \in Threads : pc'[t] \in {"wait", "wake", "again"} => op'[t] = "recv"
  BY DEF OnlyReceiversSleep
<1>0. CASE UNCHANGED vars
  BY <1>0 DEF vars, OnlyReceiversSleep
<1>1. ASSUME NEW t \in Threads, Starts(t)
      PROVE  \A u \in Threads : pc'[u] \in {"wait", "wake", "again"} => op'[u] = "recv"
  BY <1>1 DEF Starts, StartSend, StartOther, DeadCall, Start, IInv, TypeOK, OnlyReceiversSleep
<1>2. ASSUME NEW t \in Threads, Continues(t) \/ SpuriousWakeup(t)
      PROVE  \A u \in Threads : pc'[u] \in {"wait", "wake", "again"} => op'[u] = "recv"
  <2>1. UNCHANGED op
    BY <1>2 DEF Continues, SpuriousWakeup, Acquire, SendWait, TrySendFull, SendStore,
       SendSignal, RecvWait, RecvTake, TryRecvLock, TryRecvEmpty, Peek, Close, Sleep, call
  <2>2. ASSUME NEW u \in Threads, pc'[u] \in {"wait", "wake", "again"}
        PROVE  pc[u] \in {"wait", "wake", "again"} \/ op[u] = "recv"
    BY <1>2, <2>2 DEF Continues, SpuriousWakeup, Acquire, SendWait, TrySendFull, SendStore,
       SendSignal, RecvWait, RecvTake, TryRecvLock, TryRecvEmpty, Peek, Close, Sleep, Return,
       Signalled, Waiters, Full, IInv, TypeOK
  <2> QED BY <2>1, <2>2 DEF OnlyReceiversSleep
<1> QED BY <1>0, <1>1, <1>2 DEF Next

LEMMA StepWakeups == IInv /\ WakeupInv /\ [Next]_vars => NoLostWakeup'
<1> SUFFICES ASSUME IInv, WakeupInv, [Next]_vars, MaxItems = 0, Waiters' # {}
             PROVE  count' <= Cardinality(Wakeups')
  BY DEF NoLostWakeup, Wakeups
<1> USE DEF WakeupInv
<1>fin. IsFiniteSet(Wakeups) /\ Cardinality(Wakeups) \in Nat
        /\ IsFiniteSet(Wakeups') /\ Cardinality(Wakeups') \in Nat
  <2>1. Wakeups' \subseteq Threads
    BY DEF Wakeups, OwedSignals, WokenReceivers
  <2> QED BY <2>1, WakeupsFinite, ThreadsFinite, FS_Subset, FS_CardinalityType
<1>old. Waiters # {} => count <= Cardinality(Wakeups)
  BY DEF NoLostWakeup, Wakeups
<1>0. CASE UNCHANGED vars
  <2>1. Wakeups' = Wakeups /\ Waiters' = Waiters /\ count' = count
    BY <1>0 DEF vars, Wakeups, Waiters, OwedSignals, WokenReceivers
  <2> QED BY <2>1, <1>old
<1>1. ASSUME NEW t \in Threads, Starts(t) PROVE count' <= Cardinality(Wakeups')
  <2>1. Wakeups' = Wakeups /\ Waiters' = Waiters /\ count' = count
    BY <1>1 DEF Starts, StartSend, StartOther, DeadCall, Start, ring, Wakeups, Waiters,
                OwedSignals, WokenReceivers, IInv, TypeOK
  <2> QED BY <2>1, <1>old
<1>2. ASSUME NEW t \in Threads, Acquire(t) \/ TrySendFull(t) \/ TryRecvLock(t)
                                \/ TryRecvEmpty(t) \/ Peek(t) \/ Close(t)
      PROVE  count' <= Cardinality(Wakeups')
  <2>1. Wakeups' = Wakeups /\ Waiters' = Waiters /\ count' = count
    BY <1>2 DEF Acquire, TrySendFull, TryRecvLock, TryRecvEmpty, Peek, Close, Return, Holding,
                ring, call, Wakeups, Waiters, OwedSignals, WokenReceivers, IInv, TypeOK,
                OnlyReceiversSleep
  <2> QED BY <2>1, <1>old
<1>3. ASSUME NEW t \in Threads, SendWait(t) PROVE FALSE
  BY <1>3 DEF SendWait, Full
<1>4. ASSUME NEW t \in Threads, RecvWait(t) PROVE count' <= Cardinality(Wakeups')
  <2>1. count' = 0
    BY <1>4 DEF RecvWait, Sleep, ring, IInv, TypeOK
  <2> QED BY <2>1, <1>fin
<1>5. ASSUME NEW t \in Threads, SendStore(t) PROVE count' <= Cardinality(Wakeups')
  <2>1. Waiters' = Waiters /\ t \notin Wakeups /\ Wakeups' = Wakeups \union {t}
    BY <1>5 DEF SendStore, Holding, SendOps, Wakeups, Waiters, OwedSignals, WokenReceivers,
                IInv, TypeOK, OnlyReceiversSleep
  <2>2. count' = count + 1 /\ count \in Nat
    BY <1>5 DEF SendStore, RawSend, IInv, TypeOK
  <2>3. Cardinality(Wakeups') = Cardinality(Wakeups) + 1
    BY <2>1, <1>fin, FS_AddElement
  <2> QED BY <2>1, <2>2, <2>3, <1>old, <1>fin
<1>6. ASSUME NEW t \in Threads, SendSignal(t) PROVE count' <= Cardinality(Wakeups')
  <2>1. count' = count
    BY <1>6 DEF SendSignal, ring
  <2>2. PICK w \in Waiters : pc' = [[pc EXCEPT ![t] = "idle"] EXCEPT ![w] = "wake"]
    BY <1>6 DEF SendSignal, Signalled, Waiters, IInv, TypeOK
  <2>3. /\ t \in Wakeups /\ w \notin Wakeups /\ w # t
        /\ Wakeups' = (Wakeups \ {t}) \union {w}
    BY <1>6, <2>2 DEF SendSignal, call, Wakeups, Waiters, OwedSignals, WokenReceivers,
                      IInv, TypeOK, OnlyReceiversSleep
  <2>4. IsFiniteSet(Wakeups \ {t}) /\ Cardinality(Wakeups \ {t}) = Cardinality(Wakeups) - 1
    BY <2>3, <1>fin, FS_RemoveElement
  <2>5. Cardinality(Wakeups') = Cardinality(Wakeups \ {t}) + 1
    BY <2>3, <2>4, FS_AddElement
  <2> QED BY <2>1, <2>2, <2>4, <2>5, <1>old, <1>fin
<1>7. ASSUME NEW t \in Threads, SpuriousWakeup(t) PROVE count' <= Cardinality(Wakeups')
  <2>1. count' = count /\ Waiters # {} /\ Wakeups \subseteq Wakeups'
    BY <1>7 DEF SpuriousWakeup, ring, call, Wakeups, Waiters, OwedSignals, WokenReceivers,
                IInv, TypeOK, OnlyReceiversSleep
  <2>2. Cardinality(Wakeups) <= Cardinality(Wakeups')
    BY <2>1, <1>fin, FS_Subset
  <2> QED BY <2>1, <2>2, <1>old, <1>fin DEF IInv, TypeOK
<1>8. ASSUME NEW t \in Threads, RecvTake(t) PROVE count' <= Cardinality(Wakeups')
  <2>1. count' = count - 1 /\ count \in Nat /\ count > 0
    BY <1>8 DEF RecvTake, RawRecv, IInv, TypeOK
  <2>2. pc' = [pc EXCEPT ![t] = "idle"] /\ UNCHANGED op
    BY <1>8 DEF RecvTake, RecvSignals
  <2>3. Waiters' = Waiters /\ Wakeups' = Wakeups \ {t}
    BY <1>8, <2>2 DEF RecvTake, Holding, Wakeups, Waiters, OwedSignals, WokenReceivers,
                      IInv, TypeOK
  <2>4. Cardinality(Wakeups \ {t}) \in {Cardinality(Wakeups), Cardinality(Wakeups) - 1}
    BY <1>fin, FS_RemoveElement, Zenon
  <2> QED BY <2>1, <2>3, <2>4, <1>old, <1>fin
<1> QED
  BY <1>0, <1>1, <1>2, <1>3, <1>4, <1>5, <1>6, <1>7, <1>8 DEF Next, Continues

(* In an unlimited channel, with any number of senders and receivers and   *)
(* with spurious wakeups, no wakeup is lost.                               *)
THEOREM WakeupsKeptUp == Spec => []NoLostWakeup
<1>1. Init => WakeupInv
  BY DEF Init, WakeupInv, OnlyReceiversSleep, NoLostWakeup, Waiters
<1>2. IInv /\ WakeupInv /\ [Next]_vars => WakeupInv'
  BY StepSleepers, StepWakeups DEF WakeupInv
<1>3. WakeupInv => NoLostWakeup
  BY DEF WakeupInv
<1> QED BY InitInv, StepInv, <1>1, <1>2, <1>3, PTL DEF Spec
=============================================================================
