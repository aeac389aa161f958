----------------------------- MODULE MpmcProofs -----------------------------
(***************************************************************************)
(* Theorems about MpmcChannel, for every set of threads and messages, every*)
(* size of the channel, and any calls of the threads.                      *)
(***************************************************************************)
EXTENDS MpmcChannel, SequenceTheorems, TLAPS

Locked == {"test", "towait", "move", "signal"}

(* A thread between acquire and release holds the lock of its side.        *)
LockInv == \A t \in Threads : pc[t] \in Locked => lock[LockOf(t)] = t

(* What the places in the code say of the operation that runs there.       *)
CallInv == \A t \in Threads :
  /\ pc[t] \in Locked \union {"lock", "asleep", "relock"} => op[t] \in SendOps \union RecvOps
  /\ pc[t] \in {"early", "early2"} => op[t] \in TryOps \union {"peek"} /\ ~ok[t]

(* "assert not chan.isFull" of sendMpmc and "assert not chan.isEmpty" of   *)
(* recvMpmc: the other side only moves away from what the test has found.  *)
MayMove == \A t \in Threads : pc[t] = "move" => ~Blocked(t)

IInv == TypeOK /\ LockInv /\ CallInv /\ MayMove

-----------------------------------------------------------------------------
(***************************************************************************)
(* The two indices of a buffered channel.                                  *)
(***************************************************************************)
LEMMA ItemsCounted ==
  TypeOK /\ ~Unbuffered => /\ NumItems(tail) \in 0 .. size
                           /\ IsFull <=> NumItems(tail) = size
                           /\ IsEmpty <=> NumItems(tail) = 0
BY MpmcAssumption DEF TypeOK, Unbuffered, NumItems, IsFull, FullAt, IsEmpty, EmptyAt, Distance

LEMMA TailMoves ==
  ASSUME TypeOK, ~Unbuffered, ~IsFull, tail' = Stored(tail), UNCHANGED <<size, head>>
  PROVE  /\ tail' \in 0 .. 2 * size - 1 /\ ~Unbuffered'
         /\ NumItems(tail)' = NumItems(tail) + 1
         /\ Index(tail) = Index(Index(head) + NumItems(tail))
<1>1. NumItems(tail) \in 0 .. size - 1
  BY ItemsCounted, MpmcAssumption DEF TypeOK
<1>2. size \in Nat /\ size >= 2 /\ head \in 0 .. 2 * size - 1 /\ tail \in 0 .. 2 * size - 1
  BY MpmcAssumption DEF TypeOK, Unbuffered
<1> QED BY <1>1, <1>2 DEF Unbuffered, NumItems, Stored, Wraps, Index

LEMMA HeadMoves ==
  ASSUME TypeOK, ~Unbuffered, ~IsEmpty, head' = Stored(head), UNCHANGED <<size, tail>>
  PROVE  /\ head' \in 0 .. 2 * size - 1 /\ ~Unbuffered'
         /\ NumItems(tail)' = NumItems(tail) - 1
<1>1. NumItems(tail) \in 1 .. size
  BY ItemsCounted, MpmcAssumption DEF TypeOK
<1>2. size \in Nat /\ size >= 2 /\ head \in 0 .. 2 * size - 1 /\ tail \in 0 .. 2 * size - 1
  BY MpmcAssumption DEF TypeOK, Unbuffered
<1> QED BY <1>1, <1>2 DEF Unbuffered, NumItems, Stored, Wraps

LEMMA IndexApart ==
  ASSUME size \in Nat \ {0}, NEW i \in 0 .. 2 * size - 1, NEW j \in 0 .. 2 * size - 1,
         i < j, j - i < size
  PROVE  Index(i) # Index(j)
BY DEF Index

-----------------------------------------------------------------------------
(***************************************************************************)
(* The invariant.                                                          *)
(***************************************************************************)
LEMMA InitInv == Init => IInv
<1> SUFFICES ASSUME Init PROVE IInv
  OBVIOUS
<1>1. TypeOK
  <2>1. size \in Nat /\ size >= 1 /\ NumItems(tail) <= size
    BY MpmcAssumption DEF Init, NumItems, Unbuffered
  <2>2. "idle" \in PCs /\ "peek" \in Ops
    BY DEF PCs, Ops
  <2>3. head \in 0 .. 2 * size - 1 /\ tail \in 0 .. 2 * size - 1
        /\ saw \in [Threads -> 0 .. 2 * size - 1]
    BY <2>1 DEF Init
  <2> QED BY <2>1, <2>2, <2>3 DEF Init, TypeOK
<1>2. LockInv /\ CallInv /\ MayMove
  BY DEF Init, LockInv, CallInv, MayMove, Locked
<1> QED BY <1>1, <1>2 DEF IInv

LEMMA StepTyped == IInv /\ [Next]_vars => TypeOK'
<1> SUFFICES ASSUME IInv, [Next]_vars PROVE TypeOK'
  OBVIOUS
<1> USE MpmcAssumption DEF IInv
<1>0. CASE UNCHANGED vars
  BY <1>0 DEF vars, TypeOK, NumItems, Unbuffered
<1>1. ASSUME NEW t \in Threads, Start(t) PROVE TypeOK'
  BY <1>1 DEF Start, Goto, shared, TypeOK, NumItems, Unbuffered, PCs
<1>2. ASSUME NEW t \in Threads, FlagTest(t) \/ FlagStore(t) \/ SpuriousWakeup(t)
      PROVE TypeOK'
  BY <1>2 DEF FlagTest, FlagStore, SpuriousWakeup, Goto, shared, call, TypeOK, NumItems,
              Unbuffered, PCs
<1>3. ASSUME NEW t \in Threads, EarlyRead(t) \/ EarlyTest(t) PROVE TypeOK'
  <2>1. UNCHANGED <<size, head, tail, buffer, closed, lock, op, msg>>
    BY <1>3 DEF EarlyRead, EarlyTest, shared
  <2>2. pc' \in [Threads -> PCs] /\ ok' \in [Threads -> BOOLEAN]
    BY <1>3 DEF EarlyRead, EarlyTest, Goto, Return, TypeOK, PCs
  <2>3. saw' \in [Threads -> 0 .. 2 * size - 1]
    <3>1. 0 \in 0 .. 2 * size - 1
      BY DEF TypeOK
    <3> QED BY <1>3, <3>1 DEF EarlyRead, EarlyTest, TypeOK
  <2> QED BY <2>1, <2>2, <2>3 DEF TypeOK, NumItems, Unbuffered
<1>4. ASSUME NEW t \in Threads, Acquire(t) \/ GiveUp(t) \/ MustWait(t) \/ Wait(t) \/ Pass(t)
                                \/ SignalAndRelease(t)
      PROVE TypeOK'
  <2>1. UNCHANGED <<size, head, tail, buffer, closed, op, msg, saw>>
    BY <1>4 DEF Acquire, GiveUp, MustWait, Wait, Pass, SignalAndRelease, shared, call
  <2>2. lock' \in [{"headLock", "tailLock"} -> Threads \union {NoThread}]
    BY <1>4 DEF Acquire, GiveUp, MustWait, Wait, Pass, SignalAndRelease, Release, LockOf, TypeOK
  <2>3. ok' \in [Threads -> BOOLEAN]
    BY <1>4 DEF Acquire, GiveUp, MustWait, Wait, Pass, SignalAndRelease, Return, call, TypeOK
  <2>4. pc' \in [Threads -> PCs]
    <3>1. CASE SignalAndRelease(t)
      <4>1. [pc EXCEPT ![t] = "idle"] \in [Threads -> PCs]
        BY DEF TypeOK, PCs
      <4> QED BY <3>1, <4>1 DEF SignalAndRelease, Wakes, Sleeping, PCs
    <3>2. CASE ~SignalAndRelease(t)
      BY <1>4, <3>2 DEF Acquire, GiveUp, MustWait, Wait, Pass, Goto, Return, TypeOK, PCs
    <3> QED BY <3>1, <3>2
  <2> QED BY <2>1, <2>2, <2>3, <2>4 DEF TypeOK, NumItems, Unbuffered
<1>5. ASSUME NEW t \in Threads, Put(t) PROVE TypeOK'
  <2>1. pc' \in [Threads -> PCs] /\ ok' \in [Threads -> BOOLEAN]
    BY <1>5 DEF Put, Goto, TypeOK, PCs
  <2>2. ~IsFull
    BY <1>5 DEF Put, MayMove, Blocked
  <2>3. CASE Unbuffered
    BY <1>5, <2>1, <2>3 DEF Put, TypeOK, NumItems, Unbuffered
  <2>4. CASE ~Unbuffered
    <3>1. Index(tail) \in 0 .. size - 1
      BY <2>4 DEF TypeOK, Index
    <3>2. tail' \in 0 .. 2 * size - 1 /\ NumItems(tail)' = NumItems(tail) + 1
      BY <1>5, <2>2, <2>4, TailMoves DEF Put
    <3>3. NumItems(tail)' <= size'
      BY <1>5, <2>2, <2>4, <3>2, ItemsCounted DEF Put, TypeOK
    <3>4. buffer' \in [0 .. size - 1 -> Msgs \union {NoMsg}]
      BY <1>5, <2>4, <3>1 DEF Put, TypeOK
    <3> QED BY <1>5, <2>1, <2>4, <3>2, <3>3, <3>4 DEF Put, TypeOK
  <2> QED BY <2>3, <2>4
<1>6. ASSUME NEW t \in Threads, Take(t) PROVE TypeOK'
  <2>1. pc' \in [Threads -> PCs] /\ ok' \in [Threads -> BOOLEAN]
    BY <1>6 DEF Take, Goto, TypeOK, PCs
  <2>2. ~IsEmpty
    BY <1>6 DEF Take, MayMove, Blocked, SendOps, RecvOps
  <2>3. msg' \in [Threads -> Msgs \union {NoMsg}]
    <3>1. (IF Unbuffered THEN 0 ELSE Index(head)) \in 0 .. size - 1
      BY DEF TypeOK, Index, Unbuffered
    <3> QED BY <1>6, <3>1 DEF Take, TypeOK
  <2>4. CASE Unbuffered
    BY <1>6, <2>1, <2>3, <2>4 DEF Take, TypeOK, NumItems, Unbuffered
  <2>5. CASE ~Unbuffered
    <3>1. head' \in 0 .. 2 * size - 1 /\ NumItems(tail)' = NumItems(tail) - 1
      BY <1>6, <2>2, <2>5, HeadMoves DEF Take
    <3>2. NumItems(tail)' <= size'
      BY <1>6, <2>5, <3>1, ItemsCounted DEF Take, TypeOK
    <3> QED BY <1>6, <2>1, <2>3, <2>5, <3>1, <3>2 DEF Take, TypeOK
  <2> QED BY <2>4, <2>5
<1> QED BY <1>0, <1>1, <1>2, <1>3, <1>4, <1>5, <1>6 DEF Next, Continues

LEMMA StepLocks == IInv /\ [Next]_vars => LockInv' /\ CallInv'
<1> SUFFICES ASSUME IInv, [Next]_vars PROVE LockInv' /\ CallInv'
  OBVIOUS
<1> USE DEF IInv, TypeOK, LockInv, CallInv, Locked
<1>0. CASE UNCHANGED vars
  BY <1>0 DEF vars, LockOf, Unbuffered
<1>1. ASSUME NEW t \in Threads, Start(t) PROVE LockInv' /\ CallInv'
  <2>1. pc' \in {[pc EXCEPT ![t] = "lock"], [pc EXCEPT ![t] = "early"]} /\ UNCHANGED lock
    BY <1>1 DEF Start, Goto
  <2>2. PICK o \in Does[t] \ {"close", "open"} :
          /\ op' = [op EXCEPT ![t] = o]
          /\ pc' = [pc EXCEPT ![t] = IF o \in {"send", "recv"} THEN "lock" ELSE "early"]
    BY <1>1 DEF Start, Goto
  <2>3. ASSUME NEW u \in Threads, u # t
        PROVE  pc'[u] = pc[u] /\ op'[u] = op[u] /\ ok'[u] = ok[u] /\ LockOf(u)' = LockOf(u)
    BY <1>1, <2>1, <2>2, <2>3 DEF Start, shared, LockOf, Unbuffered
  <2>4. o \in SendOps \union RecvOps \union {"peek"}
    BY <2>2, MpmcAssumption DEF Ops
  <2>5. ok'[t] = FALSE
    BY <1>1 DEF Start
  <2> QED BY <2>1, <2>2, <2>3, <2>4, <2>5 DEF SendOps, RecvOps, TryOps
<1>2. ASSUME NEW t \in Threads, FlagTest(t) \/ FlagStore(t) \/ SpuriousWakeup(t)
      PROVE LockInv' /\ CallInv'
  BY <1>2 DEF FlagTest, FlagStore, SpuriousWakeup, Goto, shared, call, LockOf, Unbuffered
<1>3. ASSUME NEW t \in Threads, EarlyRead(t) \/ EarlyTest(t) PROVE LockInv' /\ CallInv'
  BY <1>3 DEF EarlyRead, EarlyTest, Goto, Return, shared, LockOf, Unbuffered, SendOps,
              RecvOps, TryOps
<1>4. ASSUME NEW t \in Threads, Acquire(t) PROVE LockInv' /\ CallInv'
  <2>1. LockOf(t) \in {"headLock", "tailLock"}
    BY DEF LockOf
  <2>2. \A u \in Threads : LockOf(u)' = LockOf(u)
    BY <1>4 DEF Acquire, shared, call, LockOf, Unbuffered
  <2> QED BY <1>4, <2>1, <2>2, MpmcAssumption DEF Acquire, Goto, call
<1>5. ASSUME NEW t \in Threads, GiveUp(t) \/ Wait(t) \/ SignalAndRelease(t)
      PROVE LockInv' /\ CallInv'
  <2>1. LockOf(t) \in {"headLock", "tailLock"} /\ lock' = [lock EXCEPT ![LockOf(t)] = NoThread]
        /\ lock[LockOf(t)] = t
    BY <1>5 DEF GiveUp, Wait, SignalAndRelease, Release, LockOf
  <2>2. \A u \in Threads : LockOf(u)' = LockOf(u)
    BY <1>5 DEF GiveUp, Wait, SignalAndRelease, shared, call, LockOf, Unbuffered
  <2>3. /\ pc'[t] \in {"idle", "asleep"} /\ op' = op
        /\ pc'[t] = "asleep" => pc[t] = "towait"
        /\ \A u \in Threads \ {t} :
             pc'[u] = pc[u] \/ (pc[u] = "asleep" /\ pc'[u] = "relock")
    <3>1. CASE GiveUp(t) \/ Wait(t)
      <4>1. pc' \in {[pc EXCEPT ![t] = "idle"], [pc EXCEPT ![t] = "asleep"]} /\ op' = op
        BY <3>1 DEF GiveUp, Wait, Goto, Return, call
      <4>2. pc'[t] = "asleep" => pc[t] = "towait"
        BY <3>1 DEF GiveUp, Wait, Goto, Return
      <4> QED BY <4>1, <4>2
    <3>2. CASE SignalAndRelease(t)
      <4> DEFINE returned == [pc EXCEPT ![t] = "idle"]
      <4>1. \/ pc' = returned
            \/ \E w \in Wakes(t) : pc' = [returned EXCEPT ![w] = "relock"]
        BY <3>2 DEF SignalAndRelease
      <4>2. \A w \in Wakes(t) : w \in Threads /\ pc[w] = "asleep" /\ w # t
        BY <3>2 DEF SignalAndRelease, Wakes, Sleeping
      <4>3. op' = op
        BY <3>2 DEF SignalAndRelease, call
      <4>4. pc'[t] = "idle"
        BY <4>1, <4>2
      <4>5. \A u \in Threads \ {t} :
               pc'[u] = pc[u] \/ (pc[u] = "asleep" /\ pc'[u] = "relock")
        BY <4>1, <4>2
      <4> QED BY <4>3, <4>4, <4>5
    <3> QED BY <1>5, <3>1, <3>2
  <2>4. ASSUME NEW u \in Threads, pc'[u] \in Locked PROVE lock'[LockOf(u)'] = u
    <3>1. u # t /\ pc[u] \in Locked
      BY <2>3, <2>4
    <3>2. lock[LockOf(u)] = u /\ LockOf(u) # LockOf(t)
      BY <2>1, <3>1
    <3> QED BY <2>1, <2>2, <3>2
  <2>5. \A u \in Threads \ {t} : ok'[u] = ok[u]
    BY <1>5 DEF GiveUp, Wait, SignalAndRelease, Return, call
  <2>6. CallInv'
    <3>1. ASSUME NEW u \in Threads, u # t, pc'[u] \in {"early", "early2"}
          PROVE  op'[u] \in TryOps \union {"peek"} /\ ~ok'[u]
      BY <2>3, <2>5, <3>1
    <3>2. ASSUME NEW u \in Threads, pc'[u] \in Locked \union {"lock", "asleep", "relock"}
          PROVE  op'[u] \in SendOps \union RecvOps
      BY <2>3, <3>2
    <3>3. pc'[t] \notin {"early", "early2"}
      BY <2>3
    <3> QED BY <3>1, <3>2, <3>3
  <2> QED BY <2>4, <2>6
<1>6. ASSUME NEW t \in Threads, MustWait(t) \/ Pass(t) \/ Put(t) \/ Take(t)
      PROVE LockInv' /\ CallInv'
  BY <1>6 DEF MustWait, Pass, Put, Take, Goto, shared, call, LockOf, Unbuffered
<1> QED BY <1>0, <1>1, <1>2, <1>3, <1>4, <1>5, <1>6 DEF Next, Continues

LEMMA StepMayMove == IInv /\ [Next]_vars => MayMove'
<1> SUFFICES ASSUME IInv, [Next]_vars, NEW u \in Threads, pc'[u] = "move"
             PROVE  ~Blocked(u)'
  BY DEF MayMove
<1> USE DEF IInv, TypeOK
<1>same. ASSUME pc[u] = "move" \/ ~Blocked(u), op'[u] = op[u], UNCHANGED <<size, head, tail>>
         PROVE  ~Blocked(u)'
  BY <1>same DEF MayMove, Blocked, IsFull, FullAt, IsEmpty, EmptyAt, Unbuffered, Distance
<1>0. CASE UNCHANGED vars
  BY <1>0, <1>same DEF vars
<1>1. ASSUME NEW t \in Threads, Start(t) PROVE ~Blocked(u)'
  BY <1>1, <1>same DEF Start, Goto, shared
<1>2. ASSUME NEW t \in Threads, FlagTest(t) \/ FlagStore(t) \/ SpuriousWakeup(t)
      PROVE ~Blocked(u)'
  BY <1>2, <1>same DEF FlagTest, FlagStore, SpuriousWakeup, Goto, shared, call
<1>3. ASSUME NEW t \in Threads, EarlyRead(t) \/ EarlyTest(t) PROVE ~Blocked(u)'
  BY <1>3, <1>same DEF EarlyRead, EarlyTest, Goto, Return, shared
<1>4. ASSUME NEW t \in Threads, Acquire(t) \/ GiveUp(t) \/ MustWait(t) \/ Wait(t) \/ Pass(t)
                                \/ SignalAndRelease(t)
      PROVE ~Blocked(u)'
  BY <1>4, <1>same DEF Acquire, GiveUp, MustWait, Wait, Pass, SignalAndRelease, Goto, Return,
                       Wakes, Sleeping, shared, call
<1>5. ASSUME NEW t \in Threads, Put(t) \/ Take(t) PROVE ~Blocked(u)'
  <2>1. pc[u] = "move" /\ pc[t] = "move" /\ u # t /\ op' = op /\ size' = size
    BY <1>5 DEF Put, Take, Goto
  <2>2. LockOf(u) # LockOf(t)
    BY <2>1 DEF LockInv, Locked
  <2>3. ~Unbuffered /\ ~Unbuffered' /\ ~Blocked(u) /\ ~Blocked(t)
    BY <2>1, <2>2 DEF LockOf, MayMove, Unbuffered
  <2>4. CASE Put(t)
    <3>1. op[t] \in SendOps /\ op[u] \notin SendOps
      BY <2>1, <2>2, <2>4 DEF Put, LockOf
    <3>2. ~IsFull /\ tail' = Stored(tail) /\ UNCHANGED <<size, head>>
      BY <2>3, <2>4, <3>1 DEF Put, Blocked
    <3>3. NumItems(tail)' = NumItems(tail) + 1 /\ NumItems(tail) \in 0 .. size
      BY <2>3, <3>2, TailMoves, ItemsCounted
    <3>4. (NumItems(tail) = 0)' <=> FALSE
      BY <3>3, MpmcAssumption
    <3>5. TypeOK'
      BY StepTyped
    <3>6. ~IsEmpty'
      BY <2>3, <3>4, <3>5, ItemsCounted, PTL
    <3> QED BY <2>1, <3>1, <3>6 DEF Blocked
  <2>5. CASE Take(t)
    <3>1. op[t] \in RecvOps /\ op[u] \in SendOps
      BY <2>1, <2>2, <2>5 DEF Take, LockOf, RecvOps, SendOps
    <3>2. ~IsEmpty /\ head' = Stored(head) /\ UNCHANGED <<size, tail>>
      BY <2>3, <2>5, <3>1 DEF Take, Blocked, RecvOps, SendOps
    <3>3. NumItems(tail)' = NumItems(tail) - 1 /\ NumItems(tail) \in 0 .. size
      BY <2>3, <3>2, HeadMoves, ItemsCounted
    <3>4. (NumItems(tail) = size)' <=> FALSE
      BY <2>1, <3>3, MpmcAssumption
    <3>5. ~IsFull'
      <4>1. TypeOK'
        BY StepTyped
      <4> QED BY <2>3, <3>4, <4>1, ItemsCounted, PTL
    <3> QED BY <2>1, <3>1, <3>5 DEF Blocked
  <2> QED BY <1>5, <2>4, <2>5
<1> QED BY <1>0, <1>1, <1>2, <1>3, <1>4, <1>5 DEF Next, Continues

LEMMA StepInv == IInv /\ [Next]_vars => IInv'
BY StepTyped, StepLocks, StepMayMove DEF IInv

(* For every size the variables keep their types, and numItems never       *)
(* exceeds the size of the channel, as its assertion says.                 *)
THEOREM MpmcTyped == Spec => []TypeOK
<1>1. IInv => TypeOK
  BY DEF IInv
<1> QED BY InitInv, StepInv, <1>1, PTL DEF Spec

-----------------------------------------------------------------------------
(***************************************************************************)
(* The buffer read from head on is the queue.                              *)
(***************************************************************************)
Items == IF Unbuffered THEN head ELSE NumItems(tail)

ContentsShape ==
  /\ Contents \in Seq(Msgs \union {NoMsg}) /\ Len(Contents) = Items
  /\ Items \in 0 .. size
  /\ ~Unbuffered => \A k \in 1 .. Items : /\ Index(Index(head) + k - 1) \in 0 .. size - 1
                                          /\ Contents[k] = buffer[Index(Index(head) + k - 1)]

LEMMA ContentsIsSeq == TypeOK => ContentsShape
<1> SUFFICES ASSUME TypeOK PROVE ContentsShape
  OBVIOUS
<1> USE MpmcAssumption DEF ContentsShape
<1>1. CASE Unbuffered
  <2>1. head \in {0, 1} /\ buffer[0] \in Msgs \union {NoMsg} /\ size = 1
    BY <1>1 DEF TypeOK, Unbuffered
  <2>2. /\ <<buffer[0]>> \in Seq(Msgs \union {NoMsg}) /\ Len(<<buffer[0]>>) = 1
        /\ << >> \in Seq(Msgs \union {NoMsg}) /\ Len(<< >>) = 0
    BY <2>1
  <2>3. Contents = IF head = 1 THEN <<buffer[0]>> ELSE << >>
    BY <1>1 DEF Contents
  <2>4. Items = head /\ Items \in 0 .. size
    BY <1>1, <2>1 DEF Items
  <2>5. CASE head = 1
    BY <1>1, <2>2, <2>3, <2>4, <2>5
  <2>6. CASE head = 0
    BY <1>1, <2>2, <2>3, <2>4, <2>6
  <2> QED BY <2>1, <2>5, <2>6
<1>2. CASE ~Unbuffered
  <2>1. Items \in 0 .. size /\ Items = NumItems(tail) /\ Items \in Nat
    BY <1>2, ItemsCounted DEF Items
  <2>2. ASSUME NEW k \in 1 .. Items PROVE Index(Index(head) + k - 1) \in 0 .. size - 1
    BY <2>1 DEF TypeOK, Index
  <2>3. \A k \in 1 .. Items : buffer[Index(Index(head) + k - 1)] \in Msgs \union {NoMsg}
    BY <2>2 DEF TypeOK
  <2>4. Contents = [k \in 1 .. Items |-> buffer[Index(Index(head) + k - 1)]]
    BY <1>2, <2>1 DEF Contents
  <2> QED BY <1>2, <2>1, <2>2, <2>3, <2>4
<1> QED BY <1>1, <1>2

LEMMA PutAppends ==
  ASSUME IInv, NEW t \in Threads, Put(t)
  PROVE  Contents' = Append(Contents, msg[t]) /\ Len(Contents) < size
<1> USE MpmcAssumption
<1>1. ~IsFull /\ TypeOK /\ TypeOK' /\ size' = size /\ size \in Nat /\ msg[t] \in Msgs \union {NoMsg}
  BY StepTyped DEF IInv, TypeOK, Put, MayMove, Blocked, Next, Continues
<1>2. CASE Unbuffered
  <2>1. head = 0 /\ Unbuffered' /\ head' = 1 /\ size = 1
    BY <1>1, <1>2 DEF Put, TypeOK, IsFull, FullAt, Unbuffered
  <2>2. buffer'[0] = msg[t]
    BY <1>1, <1>2 DEF Put, TypeOK, Unbuffered
  <2>3. Contents = << >> /\ Contents' = <<msg[t]>>
    BY <1>2, <2>1, <2>2 DEF Contents
  <2> QED BY <2>1, <2>3
<1>3. CASE ~Unbuffered
  <2> DEFINE n == NumItems(tail)
             m == msg[t]
             Slot(k) == Index(Index(head) + k - 1)
  <2>1. /\ tail' = Stored(tail) /\ UNCHANGED <<size, head>>
        /\ buffer' = [buffer EXCEPT ![Index(tail)] = m]
    BY <1>3 DEF Put
  <2>2. /\ n \in 0 .. size - 1 /\ n \in Nat /\ NumItems(tail)' = n + 1 /\ ~Unbuffered'
        /\ Index(tail) = Slot(n + 1)
    <3>1. n \in 0 .. size /\ n # size
      BY <1>1, <1>3, ItemsCounted
    <3>2. /\ NumItems(tail)' = n + 1 /\ ~Unbuffered'
          /\ Index(tail) = Index(Index(head) + n)
      BY <1>1, <1>3, <2>1, TailMoves
    <3>3. Index(head) \in 0 .. size - 1 /\ size \in Nat
      BY <1>1 DEF Index, TypeOK
    <3> HIDE DEF n
    <3>4. Index(head) + (n + 1) - 1 = Index(head) + n
      BY <3>1, <3>3
    <3>5. n \in 0 .. size - 1 /\ n \in Nat
      BY <3>1, <3>3
    <3> QED BY <3>2, <3>4, <3>5
  <2>3. /\ Contents \in Seq(Msgs \union {NoMsg}) /\ Len(Contents) = n
        /\ \A k \in 1 .. n : Slot(k) \in 0 .. size - 1 /\ Contents[k] = buffer[Slot(k)]
    BY <1>1, <1>3, ContentsIsSeq DEF Items, ContentsShape
  <2>4. Slot(n + 1) \in 0 .. size - 1
    <3>1. Index(tail) \in 0 .. size - 1
      BY <1>1 DEF TypeOK, Index
    <3> QED BY <2>2, <3>1
  <2>5. ASSUME NEW k \in 1 .. n PROVE Slot(k) # Slot(n + 1)
    <3>1. Index(head) \in 0 .. size - 1 /\ size \in Nat \ {0}
      BY <1>1 DEF TypeOK, Index
    <3> HIDE DEF n
    <3>2. /\ Index(head) + k - 1 \in 0 .. 2 * size - 1
          /\ Index(head) + (n + 1) - 1 \in 0 .. 2 * size - 1
          /\ Index(head) + k - 1 < Index(head) + (n + 1) - 1
          /\ (Index(head) + (n + 1) - 1) - (Index(head) + k - 1) < size
      BY <2>2, <3>1
    <3> QED BY <3>1, <3>2, IndexApart
  <2>6. \A k \in 1 .. n + 1 : buffer'[Slot(k)] = IF k <= n THEN Contents[k] ELSE m
    <3>1. ASSUME NEW k \in 1 .. n PROVE buffer'[Slot(k)] = Contents[k]
      BY <1>1, <2>1, <2>2, <2>3, <2>5 DEF TypeOK
    <3>2. buffer'[Slot(n + 1)] = m
      BY <1>1, <2>1, <2>2, <2>4 DEF TypeOK
    <3> HIDE DEF Slot
    <3>3. \A k \in 1 .. n + 1 : k \in 1 .. n \/ k = n + 1
      BY <2>2
    <3> QED BY <2>2, <3>1, <3>2, <3>3
  <2>7. Contents' = [k \in 1 .. n + 1 |-> buffer'[Slot(k)]]
    BY <2>1, <2>2 DEF Contents, Index
  <2> HIDE DEF Slot, n, m
  <2>8. \A k \in 1 .. n + 1 : Contents'[k] = IF k <= n THEN Contents[k] ELSE m
    BY <2>6, <2>7
  <2>9. Contents' \in Seq(Msgs \union {NoMsg}) /\ Len(Contents') = n + 1
    <3>1. ContentsShape'
      BY <1>1, ContentsIsSeq, PTL
    <3> QED BY <2>2, <3>1 DEF ContentsShape, Items, n
  <2>10. m \in Msgs \union {NoMsg}
    BY <1>1 DEF m
  <2>11. /\ Append(Contents, m) \in Seq(Msgs \union {NoMsg})
         /\ Len(Append(Contents, m)) = n + 1
         /\ \A k \in 1 .. n + 1 : Append(Contents, m)[k] = IF k <= n THEN Contents[k] ELSE m
    BY <2>2, <2>3, <2>10, AppendProperties
  <2>12. Contents' = Append(Contents, m)
    BY <2>8, <2>9, <2>11, SeqEqual
  <2> QED BY <1>1, <2>2, <2>3, <2>12 DEF m
<1> QED BY <1>2, <1>3

LEMMA TakeGetsHead ==
  ASSUME IInv, NEW t \in Threads, Take(t)
  PROVE  /\ Contents # << >> /\ Contents' = Tail(Contents)
         /\ msg' = [msg EXCEPT ![t] = Head(Contents)]
<1> USE MpmcAssumption
<1>1. ~IsEmpty /\ TypeOK /\ TypeOK' /\ size' = size /\ buffer' = buffer
  BY StepTyped DEF IInv, Take, MayMove, Blocked, SendOps, RecvOps, Next, Continues
<1>2. CASE Unbuffered
  <2>1. head = 1 /\ Unbuffered' /\ head' = 0
    BY <1>1, <1>2 DEF Take, TypeOK, IsEmpty, EmptyAt, Unbuffered
  <2>2. Contents = <<buffer[0]>> /\ Contents' = << >>
    BY <1>2, <2>1 DEF Contents
  <2>3. msg' = [msg EXCEPT ![t] = buffer[0]]
    BY <1>2 DEF Take
  <2>4. Contents # << >> /\ Tail(Contents) = << >> /\ Head(Contents) = buffer[0]
    BY <2>2
  <2> QED BY <2>2, <2>3, <2>4
<1>3. CASE ~Unbuffered
  <2> DEFINE n == NumItems(tail)
             Slot(k) == Index(Index(head) + k - 1)
  <2>1. head' = Stored(head) /\ UNCHANGED <<size, tail>>
        /\ msg' = [msg EXCEPT ![t] = buffer[Index(head)]]
    BY <1>3 DEF Take
  <2>2. /\ n \in 1 .. size /\ n \in Nat /\ n - 1 \in Nat /\ NumItems(tail)' = n - 1
        /\ ~Unbuffered'
    <3>1. n \in 0 .. size /\ n # 0
      BY <1>1, <1>3, ItemsCounted
    <3>2. NumItems(tail)' = n - 1 /\ ~Unbuffered'
      BY <1>1, <1>3, <2>1, HeadMoves
    <3>3. size \in Nat
      BY <1>1 DEF TypeOK
    <3> HIDE DEF n
    <3>4. n \in 1 .. size /\ n \in Nat /\ n - 1 \in Nat
      BY <3>1, <3>3
    <3> QED BY <3>2, <3>4
  <2>3. /\ Contents \in Seq(Msgs \union {NoMsg}) /\ Len(Contents) = n
        /\ \A k \in 1 .. n : Contents[k] = buffer[Slot(k)]
    BY <1>1, <1>3, ContentsIsSeq DEF Items, ContentsShape
  <2>4. Slot(1) = Index(head)
    BY <1>1 DEF TypeOK, Index
  <2>5. ASSUME NEW k \in 1 .. n - 1 PROVE Slot(k)' = Slot(k + 1)
    BY <1>1, <2>1, <2>2 DEF TypeOK, Index, Stored, Wraps
  <2>6. Contents' = [k \in 1 .. n - 1 |-> buffer[Slot(k)']]
    BY <1>1, <2>1, <2>2 DEF Contents, Index
  <2>7. \A k \in 1 .. n - 1 : Contents'[k] = Contents[k + 1]
    <3>1. ASSUME NEW k \in 1 .. n - 1 PROVE buffer[Slot(k)'] = Contents[k + 1]
      <4>1. k + 1 \in 1 .. n
        BY <2>2
      <4> QED BY <2>3, <2>5, <4>1
    <3> QED BY <2>6, <3>1
  <2>8. Head(Contents) = buffer[Index(head)] /\ Contents # << >>
    BY <2>2, <2>3, <2>4
  <2> HIDE DEF Slot, n
  <2>9. Contents' \in Seq(Msgs \union {NoMsg}) /\ Len(Contents') = n - 1
    <3>1. ContentsShape'
      BY <1>1, ContentsIsSeq, PTL
    <3> QED BY <2>2, <3>1 DEF ContentsShape, Items, n
  <2>10. /\ Tail(Contents) \in Seq(Msgs \union {NoMsg})
         /\ Len(Tail(Contents)) = n - 1
         /\ \A k \in 1 .. n - 1 : Tail(Contents)[k] = Contents[k + 1]
    BY <2>2, <2>3, <2>8, HeadTailProperties
  <2>11. Contents' = Tail(Contents)
    BY <2>7, <2>9, <2>10, SeqEqual
  <2> QED BY <2>1, <2>8, <2>11
<1> QED BY <1>2, <1>3

-----------------------------------------------------------------------------
(***************************************************************************)
(* The channel implements the queue of MessageQueue.                       *)
(***************************************************************************)
InCall == {"early", "early2", "lock", "test", "towait", "asleep", "relock", "move"}
Busy   == {t \in Threads : pc[t] \in InCall}

LEMMA InitRefines == Init => Queue!QInit
<1> SUFFICES ASSUME Init PROVE Queue!QInit
  OBVIOUS
<1>1. Contents = << >>
  BY MpmcAssumption DEF Init, Contents, NumItems
<1>2. size \in Nat /\ Unbuffered \in BOOLEAN
  BY MpmcAssumption DEF Init, Unbuffered
<1> QED BY <1>1, <1>2 DEF Init, Queue!QInit

LEMMA StepRefines == IInv /\ [Next]_vars => [Queue!QNext]_(Queue!qvars)
<1> SUFFICES ASSUME IInv, [Next]_vars PROVE [Queue!QNext]_(Queue!qvars)
  OBVIOUS
<1> USE MpmcAssumption DEF InCall
<1>same. ASSUME UNCHANGED <<size, head, tail, buffer>>
         PROVE  Contents' = Contents /\ Unbuffered' = Unbuffered
  BY <1>same DEF Contents, Unbuffered, NumItems, Index
<1>out. ASSUME NEW t \in Threads, NEW r \in {"idle", "signal"}, pc' = [pc EXCEPT ![t] = r]
        PROVE  Busy' = Busy \ {t}
  BY <1>out DEF IInv, TypeOK, Busy
<1>full. ASSUME IsFull PROVE Len(Contents) >= size /\ size > 0
  BY <1>full, ContentsIsSeq, ItemsCounted
     DEF ContentsShape, Items, IsFull, FullAt, Unbuffered, IInv, TypeOK
<1>0. CASE UNCHANGED vars
  <2>1. UNCHANGED <<size, head, tail, buffer, pc, op, msg, ok>>
    BY <1>0 DEF vars
  <2> QED BY <1>same, <2>1 DEF Queue!qvars
<1>1. ASSUME NEW t \in Threads, Start(t) PROVE Queue!Begin(t) /\ UNCHANGED <<size, Unbuffered>>
  <2>1. PICK o \in Does[t] \ {"close", "open"}, m \in Msgs \union {NoMsg} :
          /\ op' = [op EXCEPT ![t] = o]
          /\ o \in SendOps <=> m \in Msgs
          /\ msg' = [msg EXCEPT ![t] = m]
          /\ pc' = [pc EXCEPT ![t] = IF o \in {"send", "recv"} THEN "lock" ELSE "early"]
    BY <1>1 DEF Start, Goto
  <2>2. pc[t] = "idle" /\ ok' = [ok EXCEPT ![t] = FALSE]
        /\ UNCHANGED <<size, head, tail, buffer>>
    BY <1>1 DEF Start, shared
  <2>3. t \notin Busy /\ Busy' = Busy \union {t}
    BY <2>1, <2>2 DEF Busy, IInv, TypeOK
  <2>4. o \in Queue!QueueOps /\ (o \in Queue!SendOps <=> m \in Msgs)
    BY <2>1 DEF Ops, SendOps, RecvOps, Queue!QueueOps, Queue!SendOps, Queue!RecvOps
  <2> QED BY <1>same, <2>1, <2>2, <2>3, <2>4 DEF Queue!Begin, Busy
<1>2. ASSUME NEW t \in Threads, \/ FlagTest(t) \/ FlagStore(t) \/ SpuriousWakeup(t)
                                \/ EarlyRead(t) \/ Acquire(t) \/ MustWait(t) \/ Wait(t)
                                \/ Pass(t) \/ SignalAndRelease(t)
      PROVE  UNCHANGED Queue!qvars
  <2>1. UNCHANGED <<size, head, tail, buffer, op, msg, ok>>
    BY <1>2 DEF FlagTest, FlagStore, SpuriousWakeup, EarlyRead, Acquire, MustWait, Wait, Pass,
                SignalAndRelease, shared, call
  <2>2. Busy' = Busy
    <3>1. CASE SignalAndRelease(t)
      <4> DEFINE returned == [pc EXCEPT ![t] = "idle"]
      <4>1. \/ pc' = returned
            \/ \E w \in Wakes(t) : pc' = [returned EXCEPT ![w] = "relock"]
        BY <3>1 DEF SignalAndRelease
      <4>2. \A w \in Wakes(t) : w \in Threads /\ pc[w] = "asleep" /\ w # t
        BY <3>1 DEF SignalAndRelease, Wakes, Sleeping
      <4>3. pc[t] = "signal" /\ pc \in [Threads -> PCs]
        BY <3>1 DEF SignalAndRelease, IInv, TypeOK
      <4>4. ASSUME NEW u \in Threads PROVE pc'[u] \in InCall <=> pc[u] \in InCall
        BY <4>1, <4>2, <4>3
      <4> QED BY <4>4 DEF Busy
    <3>2. CASE ~SignalAndRelease(t)
      BY <1>2, <3>2 DEF FlagTest, FlagStore, SpuriousWakeup, EarlyRead, Acquire, MustWait, Wait,
                        Pass, Goto, Busy, IInv, TypeOK
    <3> QED BY <3>1, <3>2
  <2> QED BY <1>same, <2>1, <2>2 DEF Queue!qvars, Busy
<1>3. ASSUME NEW t \in Threads, EarlyTest(t)
      PROVE  \/ UNCHANGED Queue!qvars
             \/ /\ Queue!Refuse(t) \/ Queue!Miss(t) \/ Queue!Look(t)
                /\ UNCHANGED <<size, Unbuffered>>
  <2>1. pc[t] = "early2" /\ UNCHANGED <<size, head, tail, buffer, op, msg>>
    BY <1>3 DEF EarlyTest, shared
  <2>2. CASE pc' = [pc EXCEPT ![t] = "lock"] /\ UNCHANGED ok
    <3>1. Busy' = Busy
      BY <2>1, <2>2 DEF Busy, IInv, TypeOK
    <3> QED BY <1>same, <2>1, <2>2, <3>1 DEF Queue!qvars, Busy
  <2>3. CASE pc' = [pc EXCEPT ![t] = "idle"] /\ ok' = [ok EXCEPT ![t] = FALSE]
    <3>1. t \in Busy /\ Busy' = Busy \ {t} /\ UNCHANGED <<Contents, size, Unbuffered>>
      BY <1>out, <1>same, <2>1, <2>3 DEF Busy
    <3>2. op[t] \in {"trySend", "tryRecv", "peek"} /\ ok[t] = FALSE
      BY <2>1 DEF IInv, CallInv, TypeOK, TryOps
    <3>3. CASE op[t] = "trySend"
      <4>1. FullAt(saw[t])
        BY <1>3, <2>3, <3>3 DEF EarlyTest, Goto, IInv, TypeOK
      <4>2. Unbuffered => IsFull
        BY <4>1 DEF FullAt, IsFull
      <4>3. Unbuffered => Queue!IsFull
        BY <1>full, <4>2 DEF Queue!IsFull
      <4> QED BY <2>1, <2>3, <3>1, <3>3, <4>3 DEF Queue!Refuse, Queue!Effect, Busy
    <3>4. CASE op[t] = "tryRecv"
      BY <2>1, <2>3, <3>1, <3>4 DEF Queue!Miss, Queue!Effect, Busy
    <3>5. CASE op[t] = "peek"
      <4>1. ok' = ok
        BY <2>3, <3>2 DEF IInv, TypeOK
      <4> QED BY <2>1, <3>1, <3>5, <4>1 DEF Queue!Look, Queue!Effect, Busy
    <3> QED BY <3>1, <3>2, <3>3, <3>4, <3>5
  <2> QED BY <1>3, <2>2, <2>3 DEF EarlyTest, Return, Goto
<1>4. ASSUME NEW t \in Threads, GiveUp(t)
      PROVE  (Queue!Refuse(t) \/ Queue!Miss(t)) /\ UNCHANGED <<size, Unbuffered>>
  <2>1. /\ pc[t] = "test" /\ op[t] \in TryOps /\ Blocked(t)
        /\ pc' = [pc EXCEPT ![t] = "idle"] /\ ok' = [ok EXCEPT ![t] = FALSE]
        /\ UNCHANGED <<size, head, tail, buffer, op, msg>>
    BY <1>4 DEF GiveUp, Return, Goto, shared
  <2>2. t \in Busy /\ Busy' = Busy \ {t} /\ UNCHANGED <<Contents, size, Unbuffered>>
    BY <1>out, <1>same, <2>1 DEF Busy
  <2>3. CASE op[t] = "trySend"
    <3>1. Queue!IsFull
      BY <1>full, <2>1, <2>3 DEF Queue!IsFull, Blocked, SendOps
    <3> QED BY <2>1, <2>2, <2>3, <3>1 DEF Queue!Refuse, Queue!Effect, Busy
  <2>4. CASE op[t] = "tryRecv"
    BY <2>1, <2>2, <2>4 DEF Queue!Miss, Queue!Effect, Busy
  <2> QED BY <2>1, <2>2, <2>3, <2>4 DEF TryOps
<1>5. ASSUME NEW t \in Threads, Put(t) PROVE Queue!Put(t) /\ UNCHANGED <<size, Unbuffered>>
  <2>1. /\ pc[t] = "move" /\ op[t] \in SendOps /\ UNCHANGED <<size, op, msg>>
        /\ pc' = [pc EXCEPT ![t] = "signal"] /\ ok' = [ok EXCEPT ![t] = TRUE]
    BY <1>5 DEF Put, Goto
  <2>2. t \in Busy /\ Busy' = Busy \ {t} /\ Unbuffered' = Unbuffered
    BY <1>out, <2>1 DEF Busy, Unbuffered
  <2>3. Contents' = Append(Contents, msg[t]) /\ Len(Contents) < size
    BY <1>5, PutAppends
  <2>4. ~Queue!IsFull
    BY <2>3, ContentsIsSeq DEF Queue!IsFull, IInv, TypeOK, ContentsShape
  <2> QED BY <2>1, <2>2, <2>3, <2>4
          DEF Queue!Put, Queue!Effect, Queue!SendOps, SendOps, Busy
<1>6. ASSUME NEW t \in Threads, Take(t) PROVE Queue!Get(t) /\ UNCHANGED <<size, Unbuffered>>
  <2>1. /\ pc[t] = "move" /\ op[t] \in RecvOps /\ UNCHANGED <<size, op>>
        /\ pc' = [pc EXCEPT ![t] = "signal"] /\ ok' = [ok EXCEPT ![t] = TRUE]
    BY <1>6 DEF Take, Goto
  <2>2. t \in Busy /\ Busy' = Busy \ {t} /\ Unbuffered' = Unbuffered
    BY <1>out, <2>1 DEF Busy, Unbuffered
  <2>3. Contents # << >> /\ Contents' = Tail(Contents)
        /\ msg' = [msg EXCEPT ![t] = Head(Contents)]
    BY <1>6, TakeGetsHead
  <2> QED BY <2>1, <2>2, <2>3 DEF Queue!Get, Queue!Effect, Queue!RecvOps, RecvOps, Busy
<1> QED
  BY <1>0, <1>1, <1>2, <1>3, <1>4, <1>5, <1>6 DEF Next, Continues, Queue!QNext

(* With its two locks, its unlocked tests and its indices that run to      *)
(* twice the size, a channel of any size is a first in, first out queue    *)
(* for any number of senders and receivers.                                *)
THEOREM MpmcRefines == Spec => ImplementsQueue
<1>1. Init => Queue!QInit
  BY InitRefines
<1>2. IInv /\ [Next]_vars => [Queue!QNext]_(Queue!qvars)
  BY StepRefines
<1> QED BY InitInv, StepInv, <1>1, <1>2, PTL DEF Spec, ImplementsQueue, Queue!QSpec
=============================================================================
