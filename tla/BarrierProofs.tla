--------------------------- MODULE BarrierProofs ---------------------------
(***************************************************************************)
(* Theorems about Barrier, for any number of workers and of tasks.         *)
(***************************************************************************)
EXTENDS Barrier, FiniteSetTheorems, TLAPS

(* Every task that has entered has left or is working, so that left and    *)
(* entered are equal exactly when nobody works.                            *)
Accounted == entered = left + Cardinality(Working)

(* A master that waits has said so.                                        *)
Listening == master \in {"while", "block", "asleep"} => interest

(* When the last task has left and the master waits, a token is there or on*)
(* its way; and a master asleep beside a token is about to be woken.       *)
TokenComes == master \in {"block", "asleep"} /\ Working = {} =>
                \/ counter > 0
                \/ \E w \in Workers : pc[w] \in {"left", "compare", "signal"}
WakeupComes == master = "asleep" /\ counter > 0 => \E w \in Workers : pc[w] = "notify"

IInv == TypeOK /\ Accounted /\ Listening /\ ClosedMeansLeft /\ TokenComes /\ WakeupComes

-----------------------------------------------------------------------------
LEMMA WorkingFinite == IsFiniteSet(Working) /\ Cardinality(Working) \in Nat
<1>1. IsFiniteSet(Working)
  BY BarrierAssumption, FS_Subset DEF Working
<1> QED BY <1>1, FS_CardinalityType

LEMMA NobodyWorks == (Cardinality(Working) = 0) <=> (Working = {})
BY WorkingFinite, FS_EmptySet

(* The set of working tasks, when one worker moves and when none does.     *)
LEMMA WorkingGrows ==
  ASSUME TypeOK, NEW w \in Workers, pc[w] # "work", pc' = [pc EXCEPT ![w] = "work"]
  PROVE  Cardinality(Working') = Cardinality(Working) + 1
<1>1. Working' = Working \union {w} /\ w \notin Working
  BY DEF Working, TypeOK
<1> QED BY <1>1, WorkingFinite, FS_AddElement

LEMMA WorkingShrinks ==
  ASSUME TypeOK, NEW w \in Workers, pc[w] = "work", pc' = [pc EXCEPT ![w] = "left"]
  PROVE  Cardinality(Working') = Cardinality(Working) - 1 /\ Working' \subseteq Working
<1>1. Working' = Working \ {w} /\ w \in Working
  BY DEF Working, TypeOK
<1> QED BY <1>1, WorkingFinite, FS_RemoveElement

LEMMA WorkingStays ==
  ASSUME TypeOK, NEW w \in Workers, pc[w] # "work",
         NEW p \in WorkerPCs \ {"work"}, pc' = [pc EXCEPT ![w] = p]
  PROVE  Working' = Working
BY DEF Working, TypeOK

-----------------------------------------------------------------------------
LEMMA BarrierInit == Init => IInv
<1> SUFFICES ASSUME Init PROVE IInv
  OBVIOUS
<1>1. TypeOK
  BY DEF Init, TypeOK, MasterPCs, WorkerPCs
<1>2. Working = {}
  BY DEF Init, Working
<1>3. Accounted
  BY <1>2, FS_EmptySet DEF Init, Accounted
<1> QED BY <1>1, <1>2, <1>3 DEF Init, IInv, Listening, ClosedMeansLeft, TokenComes, WakeupComes

LEMMA MasterKeepsInv == ASSUME IInv, openBarrier \/ MasterStep PROVE IInv'
<1>0. TypeOK /\ Accounted /\ Cardinality(Working) \in Nat
  BY WorkingFinite DEF IInv
<1>1. pc' = pc /\ Working' = Working
  BY DEF openBarrier, MasterStep, EndSection, CloseFast, Listen, While, Take, Working
<1>2. CASE openBarrier
  <2>1. Working = {} /\ Cardinality(Working) = 0
    BY <1>2, NobodyWorks DEF IInv, ClosedMeansLeft, openBarrier
  <2>2. TypeOK'
    BY <1>2 DEF openBarrier, IInv, TypeOK, MasterPCs
  <2>3. Accounted'
    BY <1>1, <1>2, <2>1 DEF openBarrier, Accounted
  <2> QED BY <1>1, <1>2, <2>2, <2>3
          DEF openBarrier, IInv, Listening, ClosedMeansLeft, TokenComes, WakeupComes
<1>3. CASE MasterStep
  <2>1. entered' = entered /\ left' = left /\ entered \in Nat /\ left \in Nat /\ counter \in Nat
    BY <1>3, <1>0 DEF MasterStep, EndSection, CloseFast, Listen, While, Take, barrier, TypeOK
  <2>2. TypeOK'
    <3>1. counter' \in Nat
      BY <1>3, <2>1 DEF MasterStep, EndSection, CloseFast, Listen, While, Take, barrier
    <3>2. interest' \in BOOLEAN
      BY <1>3, <1>0 DEF MasterStep, EndSection, CloseFast, Listen, While, Take, barrier, TypeOK
    <3>3. master' \in MasterPCs
      BY <1>3 DEF MasterStep, EndSection, CloseFast, Listen, While, Take, MasterPCs
    <3> QED BY <1>0, <1>1, <2>1, <3>1, <3>2, <3>3 DEF TypeOK
  <2>3. Accounted'
    BY <1>0, <1>1, <2>1 DEF Accounted
  <2>4. Listening'
    BY <1>3 DEF MasterStep, EndSection, CloseFast, Listen, While, Take, barrier, IInv, Listening
  <2>5. (left = entered) <=> (Working = {})
    BY <1>0, <2>1, NobodyWorks DEF Accounted
  <2>6. ClosedMeansLeft'
    BY <1>1, <1>3, <2>5
       DEF MasterStep, EndSection, CloseFast, Listen, While, Take, IInv, ClosedMeansLeft
  <2>7. TokenComes'
    BY <1>1, <1>3, <2>1, <2>5
       DEF MasterStep, EndSection, CloseFast, Listen, While, Take, barrier, IInv, TokenComes
  <2>8. WakeupComes'
    BY <1>1, <1>3, <2>1
       DEF MasterStep, EndSection, CloseFast, Listen, While, Take, barrier, IInv, WakeupComes
  <2> QED BY <2>2, <2>3, <2>4, <2>6, <2>7, <2>8 DEF IInv
<1> QED BY <1>2, <1>3

LEMMA WorkerKeepsInv ==
  ASSUME IInv, NEW w \in Workers, barrierEnter(w) \/ WorkerStep(w) PROVE IInv'
<1>0. TypeOK /\ Accounted /\ Cardinality(Working) \in Nat /\ entered \in Nat /\ left \in Nat
  BY WorkingFinite DEF IInv, TypeOK
<1>1. TypeOK'
  BY <1>0 DEF barrierEnter, WorkerStep, Leave, ReadInterest, Compare, Signal, Notify, barrier,
              TypeOK, MasterPCs, WorkerPCs
<1>2. CASE barrierEnter(w)
  <2>0. pc[w] # "work" /\ pc' = [pc EXCEPT ![w] = "work"] /\ entered' = entered + 1 /\ left' = left
    BY <1>2 DEF barrierEnter
  <2>a. Cardinality(Working') = Cardinality(Working) + 1
    BY <1>0, <2>0, WorkingGrows
  <2>1. Accounted'
    BY <1>0, <2>0, <2>a DEF Accounted
  <2> QED BY <1>1, <1>2, <2>1
          DEF barrierEnter, IInv, Listening, ClosedMeansLeft, TokenComes, WakeupComes
<1>3. CASE Leave(w)
  <2>1. Cardinality(Working') = Cardinality(Working) - 1 /\ Working' \subseteq Working
    BY <1>0, <1>3, WorkingShrinks DEF Leave
  <2>2. Accounted'
    BY <1>0, <1>3, <2>1 DEF Leave, Accounted
  <2>3. pc'[w] = "left" /\ \A v \in Workers : v # w => pc'[v] = pc[v]
    BY <1>0, <1>3 DEF Leave, TypeOK
  <2>4. ClosedMeansLeft' /\ Listening' /\ TokenComes'
    BY <1>3, <2>1, <2>3 DEF Leave, IInv, Listening, ClosedMeansLeft, TokenComes
  <2>5. WakeupComes'
    BY <1>3, <2>3 DEF Leave, IInv, WakeupComes
  <2> QED BY <1>1, <2>2, <2>4, <2>5 DEF IInv
<1>4. ASSUME ReadInterest(w) \/ Compare(w) \/ Signal(w) \/ Notify(w) PROVE IInv'
  <2>1. Working' = Working
    BY <1>0, <1>4, WorkingStays DEF ReadInterest, Compare, Signal, Notify, WorkerPCs
  <2>2. entered' = entered /\ left' = left /\ interest' = interest
    BY <1>4 DEF ReadInterest, Compare, Signal, Notify, barrier
  <2>3. Accounted'
    BY <1>0, <2>1, <2>2 DEF Accounted
  <2>4. Listening' /\ ClosedMeansLeft'
    BY <1>4, <2>1, <2>2
       DEF ReadInterest, Compare, Signal, Notify, IInv, Listening, ClosedMeansLeft
  <2>5. \A v \in Workers : v # w => pc'[v] = pc[v]
    BY <1>0, <1>4 DEF ReadInterest, Compare, Signal, Notify, TypeOK
  <2>6. Working = {} => left = entered
    BY <1>0, NobodyWorks DEF Accounted
  <2>7. CASE ReadInterest(w)
    <3>1. master \in {"block", "asleep"} => pc'[w] = "compare"
      BY <1>0, <2>7 DEF ReadInterest, IInv, Listening, TypeOK
    <3> QED BY <1>1, <2>1, <2>3, <2>4, <2>5, <2>7, <3>1
            DEF ReadInterest, barrier, IInv, TokenComes, WakeupComes
  <2>8. CASE Compare(w)
    <3>1. Working = {} => pc'[w] = "signal"
      BY <1>0, <2>6, <2>8 DEF Compare, AllLeft, TypeOK
    <3> QED BY <1>1, <2>1, <2>3, <2>4, <2>5, <2>8, <3>1
            DEF Compare, barrier, IInv, TokenComes, WakeupComes
  <2>9. CASE Signal(w)
    <3>1. pc'[w] = "notify" /\ counter' > 0
      BY <1>0, <2>9 DEF Signal, TypeOK
    <3> QED BY <1>1, <2>3, <2>4, <3>1 DEF IInv, TokenComes, WakeupComes
  <2>10. CASE Notify(w)
    <3>1. master' # "asleep" /\ counter' = counter
         /\ (master' = "block" => master \in {"block", "asleep"})
      BY <2>10 DEF Notify, barrier
    <3> QED BY <1>1, <2>1, <2>3, <2>4, <2>5, <2>10, <3>1
            DEF Notify, IInv, TokenComes, WakeupComes
  <2> QED BY <1>4, <2>7, <2>8, <2>9, <2>10
<1> QED BY <1>2, <1>3, <1>4 DEF WorkerStep

LEMMA BarrierStep == IInv /\ [Next]_vars => IInv'
<1> SUFFICES ASSUME IInv, [Next]_vars PROVE IInv'
  OBVIOUS
<1>1. CASE UNCHANGED vars
  BY <1>1 DEF vars, barrier, IInv, TypeOK, Accounted, Listening, ClosedMeansLeft, TokenComes,
              WakeupComes, Working
<1>2. CASE Next
  BY <1>2, MasterKeepsInv, WorkerKeepsInv DEF Next
<1> QED BY <1>1, <1>2

-----------------------------------------------------------------------------
(* Every variable keeps its type; the semaphore's counter is never negative*)
(* though the master may be woken without a token.                         *)
THEOREM BarrierTyped == Spec => []TypeOK
<1>1. IInv => TypeOK
  BY DEF IInv
<1> QED BY BarrierInit, BarrierStep, <1>1, PTL DEF Spec

(* closeBarrier returns only when every task of the section has left.      *)
THEOREM BarrierWaits == Spec => []ClosedMeansLeft
<1>1. IInv => ClosedMeansLeft
  BY DEF IInv
<1> QED BY BarrierInit, BarrierStep, <1>1, PTL DEF Spec

(* A master that waits for nobody is signalled: whichever of the last      *)
(* leaver and the master looks second sees what the other has done.        *)
THEOREM BarrierSignals == Spec => []NoLostSignal
<1>1. IInv => NoLostSignal
  BY DEF IInv, TokenComes, WakeupComes, NoLostSignal
<1> QED BY BarrierInit, BarrierStep, <1>1, PTL DEF Spec
=============================================================================
