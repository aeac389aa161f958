------------------------------ MODULE Barrier ------------------------------
(***************************************************************************)
(* The barrier at the end of a "parallel" section, with its semaphore      *)
(* (lib/pure/concurrency/threadpool.nim).  A thread, the master, opens the *)
(* barrier, spawns tasks that enter it, and closes it, again and again in  *)
(* the same place of its stack.  A task may still be in barrierLeave when  *)
(* the section it belongs to is over.                                      *)
(*                                                                         *)
(* A critical section of the semaphore's lock is one step.  Memory is      *)
(* sequentially consistent: the code puts a fence after every store.       *)
(***************************************************************************)
EXTENDS Integers, FiniteSets

CONSTANTS Workers,         \* the threads of the pool
          MaxTasks         \* bound: the tasks of a section

ASSUME BarrierAssumption == IsFiniteSet(Workers) /\ MaxTasks \in Nat

VARIABLES entered, left, interest, counter,   \* of the Barrier; counter of its cv
          master, pc                          \* the master's point, the workers' points

barrier == <<entered, left, interest, counter>>
vars    == <<barrier, master, pc>>

(* out      no section is open         open     in the section               *)
(* close    in closeBarrier            listen   about to set interest        *)
(* while    about to compare left with entered                               *)
(* block    about to look at the counter        asleep   in wait             *)
MasterPCs == {"out", "open", "close", "listen", "while", "block", "asleep"}
(* idle     without a task             work     running a task               *)
(* left     has counted itself         compare  has seen interest            *)
(* signal   about to add to the counter         notify   about to wake       *)
WorkerPCs == {"idle", "work", "left", "compare", "signal", "notify"}

Init == /\ entered = 0 /\ left = 0 /\ interest = FALSE /\ counter = 0
        /\ master = "out"
        /\ pc = [w \in Workers |-> "idle"]

-----------------------------------------------------------------------------
(* The section's variable is cleared when it is declared, then opened.     *)
openBarrier == /\ master = "out"
               /\ master' = "open"
               /\ entered' = 0 /\ left' = 0 /\ interest' = FALSE /\ counter' = 0
               /\ UNCHANGED pc

(* A spawn, during which the wrapper of the task enters the barrier: the   *)
(* master waits for it.                                                    *)
barrierEnter(w) == /\ master = "open" /\ pc[w] = "idle"
                   /\ entered < MaxTasks
                   /\ entered' = entered + 1
                   /\ pc' = [pc EXCEPT ![w] = "work"]
                   /\ UNCHANGED <<left, interest, counter, master>>

EndSection == /\ master = "open"
              /\ master' = "close"
              /\ UNCHANGED <<barrier, pc>>

(* closeBarrier: nothing more to do if everybody has left.                 *)
CloseFast == /\ master = "close"
             /\ master' = IF left # entered THEN "listen" ELSE "out"
             /\ UNCHANGED <<barrier, pc>>

(* Mutant: the master listens, and sleeps without another look at left.    *)
Listen_NoLook == /\ master = "listen"
                 /\ interest' = TRUE
                 /\ master' = "block"
                 /\ UNCHANGED <<entered, left, counter, pc>>
Listen == /\ master = "listen"
          /\ interest' = TRUE
          /\ master' = "while"
          /\ UNCHANGED <<entered, left, counter, pc>>

While == /\ master = "while"
         /\ master' = IF left # entered THEN "block" ELSE "out"
         /\ UNCHANGED <<barrier, pc>>

(* Mutant: "if" instead of "while".                                        *)
Take_NoLoop == /\ master = "block"
               /\ \/ counter > 0 /\ counter' = counter - 1 /\ master' = "out"
                  \/ counter <= 0 /\ master' = "asleep" /\ UNCHANGED counter
               /\ UNCHANGED <<entered, left, interest, pc>>
(* blockUntil(b.cv)                                                        *)
Take == /\ master = "block"
        /\ \/ counter > 0 /\ counter' = counter - 1 /\ master' = "while"
           \/ counter <= 0 /\ master' = "asleep" /\ UNCHANGED counter
        /\ UNCHANGED <<entered, left, interest, pc>>

-----------------------------------------------------------------------------
(* barrierLeave *)
Leave(w) == /\ pc[w] = "work"
            /\ left' = left + 1
            /\ pc' = [pc EXCEPT ![w] = "left"]
            /\ UNCHANGED <<entered, interest, counter, master>>

ReadInterest(w) == /\ pc[w] = "left"
                   /\ pc' = [pc EXCEPT ![w] = IF interest THEN "compare" ELSE "idle"]
                   /\ UNCHANGED <<barrier, master>>

(* Mutant: ">" instead of ">=".                                            *)
AllLeft_Late == left > entered
AllLeft == left >= entered

Compare(w) == /\ pc[w] = "compare"
              /\ pc' = [pc EXCEPT ![w] = IF AllLeft THEN "signal" ELSE "idle"]
              /\ UNCHANGED <<barrier, master>>

(* signal(b.cv): the counter under the lock, then the condition variable.  *)
Signal(w) == /\ pc[w] = "signal"
             /\ counter' = counter + 1
             /\ pc' = [pc EXCEPT ![w] = "notify"]
             /\ UNCHANGED <<entered, left, interest, master>>

Notify(w) == /\ pc[w] = "notify"
             /\ master' = IF master = "asleep" THEN "block" ELSE master
             /\ pc' = [pc EXCEPT ![w] = "idle"]
             /\ UNCHANGED barrier

-----------------------------------------------------------------------------
MasterStep    == EndSection \/ CloseFast \/ Listen \/ While \/ Take
WorkerStep(w) == Leave(w) \/ ReadInterest(w) \/ Compare(w) \/ Signal(w) \/ Notify(w)

Next == \/ openBarrier \/ MasterStep
        \/ \E w \in Workers : barrierEnter(w) \/ WorkerStep(w)

Spec == Init /\ [][Next]_vars

(* Threads run and tasks end.                                              *)
FairSpec == Spec /\ WF_vars(MasterStep) /\ \A w \in Workers : WF_vars(WorkerStep(w))

-----------------------------------------------------------------------------
(* Properties.                                                             *)

Working == {w \in Workers : pc[w] = "work"}

(* Every variable has its type.                                            *)
TypeOK == /\ entered \in Nat /\ left \in Nat /\ counter \in Nat
          /\ interest \in BOOLEAN
          /\ master \in MasterPCs
          /\ pc \in [Workers -> WorkerPCs]

(* closeBarrier returns only when all tasks of the section have left, even *)
(* though workers of earlier sections may still signal its semaphore.      *)
ClosedMeansLeft == master = "out" => Working = {}

(* The handshake of interest and left: a master that goes to sleep while   *)
(* all tasks have left will be signalled, whoever looks first.             *)
NoLostSignal ==
  master \in {"block", "asleep"} /\ Working = {} =>
    \/ master = "block" /\ counter > 0
    \/ \E w \in Workers : pc[w] \in {"left", "compare", "signal", "notify"}

(* A parallel section ends.                                                *)
CloseReturns == (master = "close") ~> (master = "out")
=============================================================================
