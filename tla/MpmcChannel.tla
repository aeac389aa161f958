---------------------------- MODULE MpmcChannel ----------------------------
(***************************************************************************)
(* The multi-producer multi-consumer channel of lib/std/channels.nim.  A   *)
(* buffered channel is a two-lock queue: senders hold tailLock, receivers  *)
(* hold headLock, and each side tests for full or empty by reading the     *)
(* other side's index without the other side's lock.  A channel of one     *)
(* element ("unbuffered") uses headLock on both sides and head as a flag.  *)
(*                                                                         *)
(* head and tail run over 0 .. 2 * size - 1, so that full and empty differ.*)
(* Memory is sequentially consistent in the model, and an index that wraps *)
(* is stored once, as optimizing compilers do.  An unlocked test reads tail*)
(* and head one after the other.                                           *)
(***************************************************************************)
EXTENDS Integers, Sequences, FiniteSets

CONSTANTS Threads, Msgs,
          Sizes,        \* the sizes newChannel may be given
          Does,         \* Does[t]: the operations thread t may call
          Spurious,     \* wait may return without a signal
          NoThread, NoMsg

SendOps == {"send", "trySend"}
RecvOps == {"recv", "tryRecv"}
TryOps  == {"trySend", "tryRecv"}
Ops     == SendOps \union RecvOps \union {"peek", "close", "open"}

ASSUME MpmcAssumption == /\ Sizes \subseteq Nat \ {0}
                         /\ Does \in [Threads -> SUBSET Ops]
                         /\ Spurious \in BOOLEAN
                         /\ NoThread \notin Threads /\ NoMsg \notin Msgs

VARIABLES size,               \* of the channel, chosen when it is made
          head, tail, buffer, closed,
          lock,               \* lock["headLock"], lock["tailLock"]: the holder
          pc, op, msg, ok,    \* the calls, as in Channel
          saw                 \* the first index an unlocked test has read

shared == <<size, head, tail, buffer, closed>>
call   == <<op, msg, ok, saw>>
vars   == <<size, head, tail, buffer, closed, lock, pc, op, msg, ok, saw>>

(* idle     outside a call          early    about to read an index unlocked *)
(* early2   about to read the other lock     about to take the lock          *)
(* test     holds the lock, about to test    towait   has found it must wait *)
(* asleep   in wait                 relock   woken, about to take the lock   *)
(* move     the test has let it pass signal   has moved its index            *)
(* closing, opening   about to store the flag                                *)
PCs == {"idle", "early", "early2", "lock", "test", "towait", "asleep", "relock",
        "move", "signal", "closing", "opening"}

Init == /\ size \in Sizes
        /\ head = 0 /\ tail = 0 /\ closed = FALSE
        /\ buffer = [i \in 0 .. size - 1 |-> NoMsg]
        /\ lock = [l \in {"headLock", "tailLock"} |-> NoThread]
        /\ pc  = [t \in Threads |-> "idle"]
        /\ op  = [t \in Threads |-> "peek"]
        /\ msg = [t \in Threads |-> NoMsg]
        /\ ok  = [t \in Threads |-> FALSE]
        /\ saw = [t \in Threads |-> 0]

-----------------------------------------------------------------------------
Unbuffered == size = 1
Distance(i, j) == IF i >= j THEN i - j ELSE j - i

(* Mutant: full is noticed one message late.                               *)
FullAt_Late(tl) == Distance(tl, head) = size + 1
FullAt(tl)  == IF Unbuffered THEN head = 1 ELSE Distance(tl, head) = size
EmptyAt(hd) == IF Unbuffered THEN head = 0 ELSE hd = tail
IsFull      == FullAt(tail)
IsEmpty     == EmptyAt(head)

NumItems(tl) == IF Unbuffered THEN head
                ELSE IF tl >= head THEN tl - head ELSE tl - head + 2 * size

Index(i) == IF i < size THEN i ELSE i - size

LockOf(t) == IF op[t] \in SendOps /\ ~Unbuffered THEN "tailLock" ELSE "headLock"
Blocked(t) == IF op[t] \in SendOps THEN IsFull ELSE IsEmpty

(* The threads asleep on notFullCond and on notEmptyCond.                  *)
Sleeping(ops) == {t \in Threads : pc[t] = "asleep" /\ op[t] \in ops}

Goto(t, p)  == pc' = [pc EXCEPT ![t] = p]
Release(t)  == lock' = [lock EXCEPT ![LockOf(t)] = NoThread]
Return(t, success) == Goto(t, "idle") /\ ok' = [ok EXCEPT ![t] = success]

-----------------------------------------------------------------------------
Start(t) == /\ pc[t] = "idle"
            /\ \E o \in Does[t] \ {"close", "open"} :
                 /\ op' = [op EXCEPT ![t] = o]
                 /\ \E m \in Msgs \union {NoMsg} :
                      /\ o \in SendOps <=> m \in Msgs
                      /\ msg' = [msg EXCEPT ![t] = m]
                 /\ Goto(t, IF o \in {"send", "recv"} THEN "lock" ELSE "early")
            /\ ok' = [ok EXCEPT ![t] = FALSE]
            /\ UNCHANGED <<shared, lock, saw>>

(* The unlocked tests of the non-blocking operations, and peek, read one   *)
(* index and then the other.                                               *)
EarlyRead(t) == /\ pc[t] = "early"
                /\ saw' = [saw EXCEPT ![t] = IF op[t] = "tryRecv" THEN head ELSE tail]
                /\ Goto(t, "early2")
                /\ UNCHANGED <<shared, lock, op, msg, ok>>

EarlyTest(t) ==
  /\ pc[t] = "early2"
  /\ LET fails == CASE op[t] = "trySend" -> FullAt(saw[t])
                    [] op[t] = "tryRecv" -> EmptyAt(saw[t])
                    [] OTHER -> TRUE
     IN  \/ fails /\ Return(t, FALSE)
         \/ ~fails /\ Goto(t, "lock") /\ UNCHANGED ok
  /\ saw' = [saw EXCEPT ![t] = 0]
  /\ UNCHANGED <<shared, lock, op, msg>>

Acquire(t) == /\ pc[t] \in {"lock", "relock"}
              /\ lock[LockOf(t)] = NoThread
              /\ lock' = [lock EXCEPT ![LockOf(t)] = t]
              /\ Goto(t, "test")
              /\ UNCHANGED <<shared, call>>

(* "Another thread was faster."                                            *)
GiveUp(t) == /\ pc[t] = "test" /\ op[t] \in TryOps
             /\ Blocked(t)
             /\ Release(t)
             /\ Return(t, FALSE)
             /\ UNCHANGED <<shared, op, msg, saw>>

(* The test of the loop and the wait are two steps: the other side of a    *)
(* buffered channel does not need this lock to signal in between.          *)
MustWait(t) == /\ pc[t] = "test" /\ op[t] \notin TryOps
               /\ Blocked(t)
               /\ Goto(t, "towait")
               /\ UNCHANGED <<shared, lock, call>>

Wait(t) == /\ pc[t] = "towait"
           /\ Release(t)
           /\ Goto(t, "asleep")
           /\ UNCHANGED <<shared, call>>

SpuriousWakeup(t) == /\ Spurious /\ pc[t] = "asleep"
                     /\ Goto(t, "relock")
                     /\ UNCHANGED <<shared, lock, call>>

(* Mutant: an index never wraps.                                           *)
Wraps_Never(i) == FALSE
Wraps(i) == i + 1 = 2 * size

Stored(i) == IF Wraps(i) THEN 0 ELSE i + 1

(* The test that lets the thread pass: from here to the store of the index *)
(* the code relies on the other side moving only away from full, or empty. *)
Pass(t) == /\ pc[t] = "test"
           /\ ~Blocked(t)
           /\ Goto(t, "move")
           /\ UNCHANGED <<shared, lock, call>>

(* The copy of the item and the store of the index, which shows it.        *)
Put(t) == /\ pc[t] = "move" /\ op[t] \in SendOps
          /\ IF Unbuffered
               THEN /\ buffer' = [buffer EXCEPT ![0] = msg[t]]
                    /\ head' = 1
                    /\ UNCHANGED tail
               ELSE /\ buffer' = [buffer EXCEPT ![Index(tail)] = msg[t]]
                    /\ tail' = Stored(tail)
                    /\ UNCHANGED head
          /\ ok' = [ok EXCEPT ![t] = TRUE]
          /\ Goto(t, "signal")
          /\ UNCHANGED <<size, closed, lock, op, msg, saw>>

Take(t) == /\ pc[t] = "move" /\ op[t] \in RecvOps
           /\ msg' = [msg EXCEPT ![t] = buffer[IF Unbuffered THEN 0 ELSE Index(head)]]
           /\ head' = IF Unbuffered THEN 0 ELSE Stored(head)
           /\ ok' = [ok EXCEPT ![t] = TRUE]
           /\ Goto(t, "signal")
           /\ UNCHANGED <<size, tail, buffer, closed, lock, op, saw>>

(* Mutant: a receiver signals the condition variable it waits on itself.   *)
Wakes_OwnCond(t) == Sleeping({op[t]})
Wakes(t) == Sleeping(IF op[t] \in SendOps THEN {"recv"} ELSE {"send"})

(* Signal the other side, then release the lock.                           *)
SignalAndRelease(t) ==
  /\ pc[t] = "signal"
  /\ LET returned == [pc EXCEPT ![t] = "idle"]
     IN  IF Wakes(t) = {} THEN pc' = returned
         ELSE \E w \in Wakes(t) : pc' = [returned EXCEPT ![w] = "relock"]
  /\ Release(t)
  /\ UNCHANGED <<shared, call>>

(* close and open: an unsynchronized test of the flag, then its store.     *)
(* Nothing in send and recv looks at the flag.                             *)
FlagTest(t) == /\ pc[t] = "idle"
               /\ \/ "close" \in Does[t] /\ ~closed /\ Goto(t, "closing")
                  \/ "open" \in Does[t] /\ closed /\ Goto(t, "opening")
               /\ UNCHANGED <<shared, lock, call>>

FlagStore(t) == /\ pc[t] \in {"closing", "opening"}
                /\ closed' = (pc[t] = "closing")
                /\ Goto(t, "idle")
                /\ UNCHANGED <<size, head, tail, buffer, lock, call>>

-----------------------------------------------------------------------------
Continues(t) == \/ EarlyRead(t) \/ EarlyTest(t) \/ Acquire(t) \/ GiveUp(t)
                \/ MustWait(t) \/ Wait(t) \/ Pass(t) \/ Put(t) \/ Take(t)
                \/ SignalAndRelease(t) \/ FlagStore(t)

Next == \E t \in Threads : Start(t) \/ FlagTest(t) \/ Continues(t) \/ SpuriousWakeup(t)

Spec == Init /\ [][Next]_vars

(* Threads finish their calls if they can; they need not start any.        *)
FairSpec == Spec /\ \A t \in Threads : WF_vars(Continues(t))

-----------------------------------------------------------------------------
(* Properties.                                                             *)

(* Every variable has its type; numItems asserts "result <= chan.size".    *)
TypeOK == /\ size \in Sizes /\ NumItems(tail) <= size
          /\ head \in 0 .. 2 * size - 1 /\ tail \in 0 .. 2 * size - 1
          /\ buffer \in [0 .. size - 1 -> Msgs \union {NoMsg}]
          /\ closed \in BOOLEAN
          /\ lock \in [{"headLock", "tailLock"} -> Threads \union {NoThread}]
          /\ pc \in [Threads -> PCs]
          /\ op \in [Threads -> Ops]
          /\ msg \in [Threads -> Msgs \union {NoMsg}]
          /\ ok \in [Threads -> BOOLEAN]
          /\ saw \in [Threads -> 0 .. 2 * size - 1]

(* The messages, oldest first.                                             *)
Contents == IF Unbuffered THEN (IF head = 1 THEN <<buffer[0]>> ELSE << >>)
            ELSE [k \in 1 .. NumItems(tail) |-> buffer[Index(Index(head) + k - 1)]]

Queue == INSTANCE MessageQueue WITH
           capacity <- size,
           exact <- Unbuffered,
           queue <- Contents,
           open <- TRUE,
           busy <- {t \in Threads : pc[t] \in {"early", "early2", "lock", "test", "towait",
                                               "asleep", "relock", "move"}}

(* With the two locks, both sides of the queue may move at once; still the *)
(* channel is a FIFO queue of at most size messages.                       *)
ImplementsQueue == Queue!QSpec

Stuck(t) == pc[t] = "asleep" /\ ~Blocked(t)

(* On an unbuffered channel no thread sleeps on while it could go on: a    *)
(* receiver beside a message, or a sender though there is room.            *)
MaySleep == {t \in Threads : Does[t] \intersect {"send", "recv"} # {}}
UnbufferedWakes == \A t \in MaySleep : (Unbuffered /\ Stuck(t)) ~> ~Stuck(t)

(* A receiver that sleeps while the channel holds a message does not sleep *)
(* on with the message in the channel: the module's example waits with     *)
(* recv() to "Block until the message arrives".                            *)
RecvWakes == \A t \in MaySleep : (op[t] = "recv" /\ Stuck(t)) ~> ~Stuck(t)
=============================================================================
