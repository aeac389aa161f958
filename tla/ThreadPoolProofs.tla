-------------------------- MODULE ThreadPoolProofs --------------------------
(***************************************************************************)
(* Theorems about ThreadPool, for any number of threads, tasks and Worker  *)
(* records.  SlavesCounted holds of every program.  The others are about   *)
(* programs whose tasks do not spawn, and most of them about programs of   *)
(* which one thread spawns: the run pool_two_spawners shows why.  The pool *)
(* may grow and shrink meanwhile.                                          *)
(***************************************************************************)
EXTENDS ThreadPool, FiniteSetTheorems, TLAPS

Phases == {"new", "spawning", "running", "done", "finished"}

-----------------------------------------------------------------------------
(* The invariant of programs whose tasks do not spawn.                     *)

(* A slave has a record while it lives, and a task while it runs one.      *)
SlaveInv ==
  \A s \in Slaves : /\ pc[s] \in SlavePCs
                    /\ pc[s] # "off" => worker[s] \in Workers
                    /\ pc[s] = "body" => job[s] \in Tasks /\ owner[job[s]] \in Workers

(* A call of spawn has a task, and looks at records that exist.            *)
MainAt(m) ==
  /\ pc[m] \in MainPCs \union (CallPCs \ {"decide", "unmark"})
  /\ site[m] # "slave"
  /\ pc[m] \in CallPCs => task[m] \in Tasks
  /\ pc[m] \in {"select", "hand", "started", "finish", "wakeup", "empty"} => cur[m] \in Workers
  /\ pc[m] = "select" /\ site[m] = "scan" => cur[m] < upto[m]
MainInv == \A m \in Mains : MainAt(m)

(* The pool changes its size under stateLock.                              *)
Growing(m) == pc[m] \in {"create", "count"}
Advising(m) == \/ pc[m] \in {"min", "advice"} \/ Growing(m)
               \/ pc[m] \in {"select", "hand", "started"} /\ site[m] \in {"min", "advice"}
LockAt(m) == /\ Advising(m) => stateLock = m
             /\ Growing(m) => currentPoolSize < Records /\ site[m] \in {"min", "advice"}
LockInv == numSlavesLock = Nil /\ \A m \in Mains : LockAt(m)

OwnerInv == \A k \in Tasks : phase[k] \in {"running", "done", "finished"} => owner[k] \in Workers

(* There are at most as many live threads as the pool counts, and one that *)
(* is about to be counted.  The first record's thread never shuts down.    *)
Live == {s \in Slaves : pc[s] \notin {"off", "dying"}}
Uncounted == IF \E m \in Mains : pc[m] = "count" THEN 1 ELSE 0
SizeInv == /\ Cardinality(Live) <= currentPoolSize + Uncounted
           /\ ~workersData[0].shutdown
           /\ \E s \in Live : worker[s] = 0

FlatInv == TypeOK /\ SlaveInv /\ MainInv /\ LockInv /\ OwnerInv /\ SizeInv

-----------------------------------------------------------------------------
(* The invariant of programs of which one thread m spawns.                 *)

OneSpawner == \E m : Mains = {m}

(* At most one task is being handed over: it has arrived at its record, or *)
(* at one thread, or its start has been told.                              *)
Calm(i)  == /\ workersData[i].taskArrived = 0 /\ workersData[i].taskStarted = 0
            /\ workersData[i].empty = 0
Receiving == {s \in Slaves : pc[s] \in {"arrived", "wrap"}}
HandoverInv(m) ==
  IF pc[m] \notin {"started", "empty"}
  THEN Receiving = {} /\ \A i \in Workers : Calm(i)
  ELSE LET w == workersData[cur[m]] IN
       /\ \A i \in Workers \ {cur[m]} : Calm(i)
       /\ \A s \in Receiving : worker[s] = cur[m] /\ Receiving = {s}
       /\ pc[m] = "started" => w.f = "call" /\ w.data = task[m] /\ w.empty = 0
       /\ pc[m] = "empty" => w.f = "clean" /\ w.taskStarted = 0
       /\ \/ w.taskArrived = 1 /\ w.taskStarted = 0 /\ w.empty = 0 /\ Receiving = {}
          \/ w.taskArrived = 0 /\ w.taskStarted = 0 /\ w.empty = 0 /\ Receiving # {}
          \/ w.taskArrived = 0 /\ w.taskStarted + w.empty = 1 /\ Receiving = {}

(* Only the task in hand is on its way, until its start has been told; and *)
(* what runs is some thread's job.                                         *)
InHand(m) == \/ pc[m] \in CallPCs \ {"started"}
             \/ pc[m] = "started" /\ workersData[cur[m]].taskStarted = 0
PhaseInv(m) ==
  /\ \A k \in Tasks : phase[k] = "spawning" <=> InHand(m) /\ task[m] = k
  /\ \A k \in Tasks : phase[k] = "running" => \E s \in Slaves : pc[s] = "body" /\ job[s] = k
  /\ \A s \in Slaves : pc[s] = "body" => phase[job[s]] \notin {"new", "spawning"}

(* A worker that stands ready has left a token, or will be looked at.      *)
Looks(m, i) ==
  pc[m] \in CallPCs \ {"hand", "started"} =>
    /\ pc[m] = "select"
    /\ \/ site[m] = "ready"
       \/ site[m] = "scan" /\ cur[m] <= i
       \/ site[m] \in {"min", "advice"} /\ cur[m] = i
TokenInv(m) ==
  /\ \A i \in Workers : StandsReady(i) => gSomeReady > 0 \/ Looks(m, i)
  /\ pc[m] = "select" /\ site[m] = "scan" => currentPoolSize <= upto[m]

(* A record that is ready has a thread that waits, and so has a record that*)
(* is handed a task; one that is both has two.                             *)
Waiters(i) == {s \in Slaves : worker[s] = i /\ pc[s] \in {"announce", "waitTask"}}
Handed(m, i) == workersData[i].taskArrived > 0 \/ (pc[m] = "hand" /\ cur[m] = i)
WaitInv(m) ==
  \A i \in Workers :
    /\ workersData[i].ready \/ Handed(m, i) => Waiters(i) # {}
    /\ workersData[i].ready /\ Handed(m, i) =>
         \E s1, s2 \in Waiters(i) : s1 # s2

(* While sync looks at the workers, those it has seen stay ready.          *)
SyncInv(m) ==
  pc[m] = "sync" => /\ cur[m] <= upto[m] /\ currentPoolSize <= upto[m]
                    /\ \A i \in Workers : i < cur[m] => workersData[i].ready

AloneInv(m) == HandoverInv(m) /\ PhaseInv(m) /\ TokenInv(m) /\ WaitInv(m) /\ SyncInv(m)

-----------------------------------------------------------------------------
(* The counters of running and waiting workers, whatever the program does. *)

PcInv ==
  /\ pc \in [Threads -> SlavePCs \union CallPCs \union MainPCs]
  /\ site \in [Threads -> Sites]
  /\ \A s \in Slaves : pc[s] \in SlavePCs \union CallPCs
  /\ \A m \in Mains : /\ pc[m] \in MainPCs \union (CallPCs \ {"decide", "unmark"})
                      /\ site[m] # "slave"
CountInv == PcInv /\ SlavesCounted

LEMMA SlavesFinite ==
  \A S \in SUBSET Slaves : IsFiniteSet(S) /\ Cardinality(S) \in Nat
BY PoolAssumption, FS_Subset, FS_CardinalityType

LEMMA ThreadsApart == \A t \in Threads : (t \in Mains) # (t \in Slaves)
BY PoolAssumption DEF Threads

LEMMA InitPc == Init => PcInv
<1> SUFFICES ASSUME Init PROVE PcInv
  OBVIOUS
<1>1. pc = [t \in Threads |-> IF t \in Mains THEN "idle"
                              ELSE IF worker[t] = Nil THEN "off" ELSE "top"]
  BY DEF Init
<1>2. site = [t \in Threads |-> "ready"]
  BY DEF Init
<1> QED BY <1>1, <1>2, ThreadsApart DEF PcInv, Threads, SlavePCs, CallPCs, MainPCs, Sites

LEMMA InitCount == Init => CountInv
<1> SUFFICES ASSUME Init PROVE CountInv
  OBVIOUS
<1>1. PcInv
  BY InitPc
<1>2. pc = [t \in Threads |-> IF t \in Mains THEN "idle"
                              ELSE IF worker[t] = Nil THEN "off" ELSE "top"]
  BY DEF Init
<1>3. AtTask = {} /\ Waiting = {}
  BY <1>2, ThreadsApart DEF AtTask, Waiting, CallPCs, Threads
<1>4. numSlavesRunning = 0 /\ numSlavesWaiting = 0
  BY DEF Init
<1> QED BY <1>1, <1>3, <1>4, FS_EmptySet DEF CountInv, SlavesCounted

LEMMA Counting ==
  \A S \in SUBSET Slaves : \A t :
    /\ t \in S => S \union {t} = S /\ Cardinality(S \ {t}) = Cardinality(S) - 1
    /\ t \notin S => S \ {t} = S /\ Cardinality(S \union {t}) = Cardinality(S) + 1
<1> SUFFICES ASSUME NEW S \in SUBSET Slaves, NEW t
             PROVE  /\ t \in S => S \union {t} = S /\ Cardinality(S \ {t}) = Cardinality(S) - 1
                    /\ t \notin S => S \ {t} = S /\ Cardinality(S \union {t}) = Cardinality(S) + 1
  OBVIOUS
<1>1. IsFiniteSet(S)
  BY SlavesFinite
<1>2. t \in S => Cardinality(S \ {t}) = Cardinality(S) - 1
  BY <1>1, FS_RemoveElement
<1>3. t \notin S => Cardinality(S \union {t}) = Cardinality(S) + 1
  BY <1>1, FS_AddElement
<1> QED BY <1>2, <1>3

(* What a thread that moves to p does to the two numbers.                  *)
AtTaskPCs  == {"wrap", "body", "leave"} \union CallPCs
WaitingPCs == {"block", "unmark"}
In(S) == {s \in Slaves : pc[s] \in S}
LEMMA CountMove ==
  ASSUME PcInv, NEW t \in Threads, NEW p, pc' = [pc EXCEPT ![t] = p], NEW S
  PROVE  /\ t \in Mains \/ (pc[t] \in S <=> p \in S) => In(S)' = In(S)
         /\ t \in Slaves /\ pc[t] \notin S /\ p \in S => Cardinality(In(S)') = Cardinality(In(S)) + 1
         /\ t \in Slaves /\ pc[t] \in S /\ p \notin S => Cardinality(In(S)') = Cardinality(In(S)) - 1
<1>1. \A s \in Slaves : pc'[s] = IF s = t THEN p ELSE pc[s]
  BY DEF PcInv, Threads
<1>2. CASE t \in Mains \/ (pc[t] \in S <=> p \in S)
  <2>1. In(S)' = In(S)
    BY <1>1, <1>2, ThreadsApart DEF In
  <2> QED BY <2>1, <1>2, ThreadsApart
<1>3. CASE t \in Slaves /\ pc[t] \notin S /\ p \in S
  <2>1. In(S)' = In(S) \union {t} /\ t \notin In(S) /\ In(S) \in SUBSET Slaves
    BY <1>1, <1>3 DEF In
  <2>2. Cardinality(In(S)') = Cardinality(In(S)) + 1
    BY <2>1, Counting
  <2> QED BY <2>2, <1>3, ThreadsApart
<1>4. CASE t \in Slaves /\ pc[t] \in S /\ p \notin S
  <2>1. In(S)' = In(S) \ {t} /\ t \in In(S) /\ In(S) \in SUBSET Slaves
    BY <1>1, <1>4 DEF In
  <2>2. Cardinality(In(S)') = Cardinality(In(S)) - 1
    BY <2>1, Counting
  <2> QED BY <2>2, <1>4, ThreadsApart
<1> QED BY <1>2, <1>3, <1>4

LEMMA CountMoves ==
  ASSUME PcInv, NEW t \in Threads, NEW p, pc' = [pc EXCEPT ![t] = p], SlavesCounted
  PROVE  /\ t \in Mains \/ (pc[t] \in AtTaskPCs <=> p \in AtTaskPCs) =>
              numSlavesRunning = Cardinality(AtTask')
         /\ t \in Slaves /\ pc[t] \notin AtTaskPCs /\ p \in AtTaskPCs =>
              numSlavesRunning + 1 = Cardinality(AtTask')
         /\ t \in Slaves /\ pc[t] \in AtTaskPCs /\ p \notin AtTaskPCs =>
              numSlavesRunning - 1 = Cardinality(AtTask')
         /\ t \in Mains \/ (pc[t] \in WaitingPCs <=> p \in WaitingPCs) =>
              numSlavesWaiting = Cardinality(Waiting')
         /\ t \in Slaves /\ pc[t] \notin WaitingPCs /\ p \in WaitingPCs =>
              numSlavesWaiting + 1 = Cardinality(Waiting')
         /\ t \in Slaves /\ pc[t] \in WaitingPCs /\ p \notin WaitingPCs =>
              numSlavesWaiting - 1 = Cardinality(Waiting')
<1>1. AtTask = In(AtTaskPCs) /\ AtTask' = In(AtTaskPCs)'
  BY DEF AtTask, AtTaskPCs, In, CallPCs
<1>2. Waiting = In(WaitingPCs) /\ Waiting' = In(WaitingPCs)'
  BY DEF Waiting, WaitingPCs, In
<1>3. numSlavesRunning = Cardinality(In(AtTaskPCs)) /\ numSlavesWaiting = Cardinality(In(WaitingPCs))
  BY <1>1, <1>2 DEF SlavesCounted
<1>4. /\ t \in Mains \/ (pc[t] \in AtTaskPCs <=> p \in AtTaskPCs) => In(AtTaskPCs)' = In(AtTaskPCs)
      /\ t \in Slaves /\ pc[t] \notin AtTaskPCs /\ p \in AtTaskPCs =>
           Cardinality(In(AtTaskPCs)') = Cardinality(In(AtTaskPCs)) + 1
      /\ t \in Slaves /\ pc[t] \in AtTaskPCs /\ p \notin AtTaskPCs =>
           Cardinality(In(AtTaskPCs)') = Cardinality(In(AtTaskPCs)) - 1
  BY CountMove
<1>5. /\ t \in Mains \/ (pc[t] \in WaitingPCs <=> p \in WaitingPCs) => In(WaitingPCs)' = In(WaitingPCs)
      /\ t \in Slaves /\ pc[t] \notin WaitingPCs /\ p \in WaitingPCs =>
           Cardinality(In(WaitingPCs)') = Cardinality(In(WaitingPCs)) + 1
      /\ t \in Slaves /\ pc[t] \in WaitingPCs /\ p \notin WaitingPCs =>
           Cardinality(In(WaitingPCs)') = Cardinality(In(WaitingPCs)) - 1
  BY CountMove
<1> QED BY <1>1, <1>2, <1>3, <1>4, <1>5

LEMMA StepPc == PcInv /\ [Next]_vars => PcInv'
<1> SUFFICES ASSUME PcInv, [Next]_vars PROVE PcInv'
  OBVIOUS
<1> USE ThreadsApart DEF PcInv, Threads, SlavePCs, CallPCs, MainPCs, Sites, Goto
<1>1. CASE UNCHANGED vars
  BY <1>1 DEF vars, call
<1>2. ASSUME NEW s \in Slaves, SlaveStep(s) PROVE PcInv'
  <2>1. PICK p \in SlavePCs : pc' = [pc EXCEPT ![s] = p]
    BY <1>2 DEF SlaveStep, Top, Exit, Announce, Arrived, EnterRunning, Wrapper, CleanFlowVars,
                FinishTask, LeaveRunning
  <2>2. site' = site
    BY <1>2 DEF SlaveStep, Top, Exit, Announce, Arrived, EnterRunning, Wrapper, CleanFlowVars,
                FinishTask, LeaveRunning, call
  <2> QED BY <2>1, <2>2
<1>3. ASSUME NEW t \in Threads, Spawn(t) PROVE PcInv'
  BY <1>3 DEF Spawn, Round
<1>4. ASSUME NEW t \in Threads, CallStep(t) PROVE PcInv'
  <2>1. CASE Create(t)
    BY <2>1 DEF Create, call
  <2>2. CASE NotReady(t)
    <3>1. pc' \in {[pc EXCEPT ![t] = p] : p \in {"select", "advise", "advice", "slave", "block"}}
      BY <2>2 DEF NotReady, LoopFrom
    <3>2. site' = site \/ site' = [site EXCEPT ![t] = "scan"]
      BY <2>2 DEF NotReady, LoopFrom
    <3> QED BY <3>1, <3>2
  <2>3. CASE Select(t) \/ Hand(t) \/ Started(t) \/ Advise(t) \/ Count(t) \/ NotASlave(t)
             \/ LockSlaves(t) \/ MarkWaiting(t)
    BY <2>3 DEF Select, Hand, Started, Advise, Count, NotASlave, LockSlaves, MarkWaiting, Idle, call
  <2>4. CASE Min(t) \/ FollowAdvice(t) \/ GrowForSlaves(t)
    BY <2>4 DEF Min, FollowAdvice, GrowForSlaves, Grow
  <2>5. CASE Unblock(t) \/ UnmarkWaiting(t)
    BY <2>5 DEF Unblock, UnmarkWaiting, Round
  <2> QED BY <1>4, <2>1, <2>2, <2>3, <2>4, <2>5 DEF CallStep
<1>5. ASSUME NEW m \in Mains, \/ StartSync(m) \/ MainStep(m)
                              \/ SetMinPoolSize(m) \/ SetMaxPoolSize(m) \/ StartFinish(m)
      PROVE  PcInv'
  BY <1>5 DEF MainStep, StartSync, SyncLook, SyncReturn, Finish, QueueFull, Wakeup, Emptied,
              SetMinPoolSize, SetMaxPoolSize, StartFinish, call
<1> QED BY <1>1, <1>2, <1>3, <1>4, <1>5 DEF Next

LEMMA StepCount == CountInv /\ [Next]_vars => CountInv'
<1> SUFFICES ASSUME CountInv, [Next]_vars PROVE CountInv'
  OBVIOUS
<1>1. PcInv /\ PcInv'
  BY StepPc DEF CountInv
<1>2. /\ AtTask \in SUBSET Slaves /\ Waiting \in SUBSET Slaves
      /\ Cardinality(AtTask) \in Nat /\ Cardinality(Waiting) \in Nat
  BY SlavesFinite DEF AtTask, Waiting
<1> USE <1>1, <1>2 DEF Goto
<1>3. CASE UNCHANGED vars
  BY <1>3 DEF vars, slaves, CountInv, SlavesCounted, AtTask, Waiting
(* Most steps leave a thread counted as it was.                            *)
<1>4. ASSUME NEW t \in Threads, NEW p, pc' = [pc EXCEPT ![t] = p], UNCHANGED slaves,
             t \in Mains \/ /\ pc[t] \in AtTaskPCs <=> p \in AtTaskPCs
                            /\ pc[t] \in WaitingPCs <=> p \in WaitingPCs
      PROVE  CountInv'
  BY <1>4, CountMoves DEF CountInv, SlavesCounted, slaves
<1>5. ASSUME NEW s \in Slaves, SlaveStep(s) PROVE CountInv'
  <2>0. s \in Threads
    BY DEF Threads
  <2>1. CASE EnterRunning(s) \/ LeaveRunning(s)
    <3>1. CASE EnterRunning(s)
      <4>1. pc' = [pc EXCEPT ![s] = "wrap"] /\ pc[s] \notin AtTaskPCs /\ "wrap" \in AtTaskPCs
            /\ pc[s] \notin WaitingPCs /\ "wrap" \notin WaitingPCs
        BY <3>1 DEF EnterRunning, AtTaskPCs, WaitingPCs, CallPCs
      <4> QED BY <2>0, <3>1, <4>1, CountMoves DEF EnterRunning, CountInv, SlavesCounted
    <3>2. CASE LeaveRunning(s)
      <4>1. pc' = [pc EXCEPT ![s] = "top"] /\ pc[s] \in AtTaskPCs /\ "top" \notin AtTaskPCs
            /\ pc[s] \notin WaitingPCs /\ "top" \notin WaitingPCs
        BY <3>2 DEF LeaveRunning, AtTaskPCs, WaitingPCs, CallPCs
      <4> QED BY <2>0, <3>2, <4>1, CountMoves DEF LeaveRunning, CountInv, SlavesCounted
    <3> QED BY <2>1, <3>1, <3>2
  <2>2. CASE ~(EnterRunning(s) \/ LeaveRunning(s))
    <3>1. PICK p \in {"off", "dying", "announce", "waitTask", "arrived", "body", "leave"} :
            /\ pc' = [pc EXCEPT ![s] = p]
            /\ p \in {"body", "leave"} <=> pc[s] \in {"wrap", "body"}
            /\ pc[s] \in {"top", "dying", "announce", "waitTask", "wrap", "body"}
      BY <1>5, <2>2 DEF SlaveStep, Top, Exit, Announce, Arrived, Wrapper, CleanFlowVars, FinishTask
    <3>2. UNCHANGED slaves
      BY <1>5, <2>2 DEF SlaveStep, Top, Exit, Announce, Arrived, Wrapper, CleanFlowVars, FinishTask
    <3> QED BY <2>0, <3>1, <3>2, <1>4 DEF CallPCs, AtTaskPCs, WaitingPCs
  <2> QED BY <2>1, <2>2
<1>6. ASSUME NEW t \in Threads, Spawn(t) PROVE CountInv'
  BY <1>4, <1>6 DEF Spawn, Round, Idle, CallPCs, AtTaskPCs, WaitingPCs, Threads
<1>7. ASSUME NEW t \in Threads, CallStep(t) PROVE CountInv'
  <2>1. CASE NotReady(t)
    <3>1. CASE site[t] = "slave"
      <4>1. t \in Slaves
        BY <3>1 DEF PcInv, Threads
      <4>2. pc' = [pc EXCEPT ![t] = "block"] /\ pc[t] = "select"
            /\ numSlavesWaiting' = numSlavesWaiting + 1 /\ numSlavesRunning' = numSlavesRunning
        BY <2>1, <3>1 DEF NotReady, OneMoreWaiting
      <4>3. pc[t] \in AtTaskPCs /\ "block" \in AtTaskPCs
            /\ pc[t] \notin WaitingPCs /\ "block" \in WaitingPCs
        BY <4>2 DEF AtTaskPCs, WaitingPCs, CallPCs
      <4> QED BY <4>1, <4>2, <4>3, CountMoves DEF CountInv, SlavesCounted
    <3>2. CASE site[t] # "slave"
      <4>1. PICK p \in {"select", "advise", "advice", "slave"} : pc' = [pc EXCEPT ![t] = p]
        <5>1. site[t] \in Sites
          BY DEF PcInv
        <5> QED BY <2>1, <3>2, <5>1 DEF NotReady, LoopFrom, Sites
      <4>2. UNCHANGED slaves /\ pc[t] = "select"
        BY <2>1, <3>2 DEF NotReady, slaves
      <4> QED BY <4>1, <4>2, <1>4 DEF CallPCs, AtTaskPCs, WaitingPCs
    <3> QED BY <3>1, <3>2
  <2>2. CASE MarkWaiting(t) \/ UnmarkWaiting(t)
    <3>1. t \in Slaves
      BY <2>2 DEF MarkWaiting, UnmarkWaiting, PcInv, Threads, MainPCs, CallPCs
    <3>2. PICK p \in {"block", "select"} :
            /\ pc' = [pc EXCEPT ![t] = p]
            /\ pc[t] = (IF p = "block" THEN "decide" ELSE "unmark")
            /\ numSlavesWaiting' = (IF p = "block" THEN numSlavesWaiting + 1 ELSE numSlavesWaiting - 1)
            /\ numSlavesRunning' = numSlavesRunning
      BY <2>2 DEF MarkWaiting, UnmarkWaiting, OneMoreWaiting, Round
    <3>3. pc[t] \in AtTaskPCs /\ p \in AtTaskPCs /\ (p \in WaitingPCs <=> pc[t] \notin WaitingPCs)
      BY <3>2 DEF AtTaskPCs, WaitingPCs, CallPCs
    <3>4. p \in WaitingPCs <=> p = "block"
      BY <3>2 DEF WaitingPCs
    <3> QED BY <3>1, <3>2, <3>3, <3>4, CountMoves DEF CountInv, SlavesCounted
  <2>3. CASE Create(t)
    <3>1. PICK s \in Slaves : pc[s] = "off" /\ pc' = [pc EXCEPT ![s] = "top", ![t] = "count"]
      BY <2>3 DEF Create
    <3>2. AtTask' = AtTask /\ Waiting' = Waiting
      BY <2>3, <3>1 DEF Create, AtTask, Waiting, PcInv, Threads, CallPCs
    <3> QED BY <2>3, <3>2 DEF Create, CountInv, SlavesCounted, slaves
  <2>4. CASE Select(t) \/ Hand(t) \/ Started(t) \/ Advise(t) \/ Count(t) \/ LockSlaves(t)
    BY <2>4, <1>4 DEF Select, Hand, Started, Advise, Count, LockSlaves, Idle, CallPCs, AtTaskPCs, WaitingPCs
  <2>5. CASE Min(t) \/ FollowAdvice(t) \/ GrowForSlaves(t)
    BY <2>5, <1>4 DEF Min, FollowAdvice, GrowForSlaves, Grow, CallPCs, AtTaskPCs, WaitingPCs
  <2>6. CASE NotASlave(t) \/ Unblock(t)
    BY <2>6, <1>4, ThreadsApart DEF NotASlave, Unblock, Round, CallPCs, AtTaskPCs, WaitingPCs
  <2> QED BY <1>7, <2>1, <2>2, <2>3, <2>4, <2>5, <2>6 DEF CallStep
<1>8. ASSUME NEW m \in Mains, \/ StartSync(m) \/ MainStep(m)
                              \/ SetMinPoolSize(m) \/ SetMaxPoolSize(m) \/ StartFinish(m)
      PROVE  CountInv'
  <2>1. UNCHANGED slaves /\ m \in Threads
    BY <1>8 DEF MainStep, StartSync, SyncLook, SyncReturn, Finish, QueueFull, Wakeup, Emptied,
                SetMinPoolSize, SetMaxPoolSize, StartFinish, Threads
  <2>2. pc' = pc \/ \E p \in MainPCs : pc' = [pc EXCEPT ![m] = p]
    BY <1>8 DEF MainStep, StartSync, SyncLook, SyncReturn, Finish, QueueFull, Wakeup, Emptied,
                SetMinPoolSize, SetMaxPoolSize, StartFinish, MainPCs
  <2>3. CASE pc' = pc
    BY <2>1, <2>3 DEF CountInv, SlavesCounted, AtTask, Waiting, slaves
  <2> QED BY <2>1, <2>2, <2>3, <1>4
<1> QED BY <1>3, <1>5, <1>6, <1>7, <1>8 DEF Next

(* The counters by which a worker decides whether it may wait are right in *)
(* every program, however it spawns and whatever the pool's size does.     *)
THEOREM CountersRight == Spec => []SlavesCounted
<1>1. Init => CountInv
  BY InitCount
<1>2. CountInv /\ [Next]_vars => CountInv'
  BY StepCount
<1>3. CountInv => SlavesCounted
  BY DEF CountInv
<1> QED BY <1>1, <1>2, <1>3, PTL DEF Spec

-----------------------------------------------------------------------------
(* Programs whose tasks do not spawn: types, whatever the number of threads*)
(* that spawn.                                                             *)

LEMMA CountersNat == CountInv' => numSlavesRunning' \in Nat /\ numSlavesWaiting' \in Nat
<1>1. Cardinality(AtTask') \in Nat /\ Cardinality(Waiting') \in Nat
  BY SlavesFinite DEF AtTask, Waiting
<1> QED BY <1>1 DEF CountInv, SlavesCounted

(* Live threads are finitely many.                                         *)
LEMMA LiveFinite == Live \in SUBSET Slaves /\ IsFiniteSet(Live) /\ Cardinality(Live) \in Nat
BY SlavesFinite DEF Live

(* A step of a worker keeps the invariant.                                 *)
LEMMA SlaveFlat ==
  ASSUME FlatInv, CountInv', NEW s \in Slaves, SlaveStep(s)
  PROVE  FlatInv'
<1> USE DEF Goto
<1>1. s \in Threads /\ s \notin Mains /\ Mains \subseteq Threads /\ Slaves \subseteq Threads
  BY ThreadsApart DEF Threads
<1>2. UNCHANGED <<minPoolSize, maxPoolSize, numSlavesLock, stateLock, task, site, cur, upto>>
  BY DEF SlaveStep, Top, Exit, Announce, Arrived, EnterRunning, Wrapper, CleanFlowVars,
       FinishTask, LeaveRunning, size, limits, locks, call
<1>3. TypeOK /\ pc[s] \in SlavePCs /\ (pc[s] # "off" => worker[s] \in Workers)
  BY DEF FlatInv, SlaveInv
<1>4. PICK p \in SlavePCs : pc' = [pc EXCEPT ![s] = p]
  BY DEF SlaveStep, Top, Exit, Announce, Arrived, EnterRunning, Wrapper, CleanFlowVars,
       FinishTask, LeaveRunning, SlavePCs
<1>5. pc' \in [Threads -> SlavePCs \union CallPCs \union MainPCs]
  BY <1>3, <1>4 DEF TypeOK
<1>6. /\ \A r \in Slaves : pc'[r] = IF r = s THEN p ELSE pc[r]
      /\ \A m \in Mains : pc'[m] = pc[m]
      /\ pc'[s] = p
  BY <1>1, <1>3, <1>4 DEF TypeOK
<1> DEFINE Move(q) == pc' = [pc EXCEPT ![s] = q]
<1>m. \A q : Move(q) => p = q
  BY <1>1, <1>3, <1>4 DEF TypeOK
<1>7. workersData' \in [Workers -> WorkerRecord]
  <2>0. workersData \in [Workers -> WorkerRecord] /\ (pc[s] # "off" => worker[s] \in Workers)
    BY <1>3 DEF TypeOK
  <2>1. CASE Top(s)
    <3>1. \/ workersData' = [workersData EXCEPT ![worker[s]].shutdown = FALSE]
          \/ workersData' = [workersData EXCEPT ![worker[s]].ready = TRUE]
      BY <2>1 DEF Top
    <3>2. worker[s] \in Workers
      BY <2>0, <2>1 DEF Top
    <3>3. CASE workersData' = [workersData EXCEPT ![worker[s]].shutdown = FALSE]
      BY <2>0, <3>2, <3>3 DEF WorkerRecord
    <3>4. CASE workersData' = [workersData EXCEPT ![worker[s]].ready = TRUE]
      BY <2>0, <3>2, <3>4 DEF WorkerRecord
    <3> QED BY <3>1, <3>3, <3>4
  <2>2. CASE Arrived(s)
    BY <2>0, <2>2 DEF Arrived, WorkerRecord
  <2>3. CASE Wrapper(s)
    BY <2>0, <2>3 DEF Wrapper, WorkerRecord
  <2>4. CASE CleanFlowVars(s)
    <3>1. workersData' = [workersData EXCEPT ![worker[s]].q = 0, ![worker[s]].empty = @ + 1]
      BY <2>4 DEF CleanFlowVars
    <3> QED BY <2>0, <2>4, <3>1, PoolAssumption DEF CleanFlowVars, WorkerRecord
  <2>5. CASE LeaveRunning(s)
    BY <2>0, <2>5, PoolAssumption DEF LeaveRunning, WorkerRecord
  <2>6. CASE Exit(s) \/ Announce(s) \/ EnterRunning(s) \/ FinishTask(s)
    BY <2>0, <2>6 DEF Exit, Announce, EnterRunning, FinishTask
  <2> QED BY <2>1, <2>2, <2>3, <2>4, <2>5, <2>6 DEF SlaveStep
<1>8. /\ gSomeReady' \in Nat /\ readyWorker' \in Workers
      /\ worker' \in [Slaves -> Workers \union {Nil}] /\ job' \in [Slaves -> Tasks \union {Nil}]
  <2>1. CASE Wrapper(s)
    <3>1. workersData[worker[s]].data \in Tasks \union {Nil}
      BY <1>3, <2>1 DEF Wrapper, TypeOK, WorkerRecord
    <3> QED BY <1>3, <2>1, <3>1 DEF Wrapper, TypeOK, ready
  <2>2. CASE Announce(s)
    BY <1>3, <2>2 DEF Announce, Signalled, TypeOK, thread
  <2>3. CASE Exit(s) \/ FinishTask(s)
    BY <1>3, <2>3 DEF Exit, FinishTask, TypeOK, ready
  <2>4. CASE Top(s) \/ Arrived(s) \/ EnterRunning(s) \/ CleanFlowVars(s) \/ LeaveRunning(s)
    BY <1>3, <2>4 DEF Top, Arrived, EnterRunning, CleanFlowVars, LeaveRunning, TypeOK, ready, thread
  <2> QED BY <2>1, <2>2, <2>3, <2>4 DEF SlaveStep
<1>9. /\ phase' \in [Tasks -> Phases] /\ owner' \in [Tasks -> Workers \union {Nil}]
      /\ SlaveInv' /\ OwnerInv'
  <2>0. /\ workersData \in [Workers -> WorkerRecord] /\ (pc[s] # "off" => worker[s] \in Workers)
        /\ phase \in [Tasks -> Phases] /\ owner \in [Tasks -> Workers \union {Nil}]
        /\ worker \in [Slaves -> Workers \union {Nil}] /\ job \in [Slaves -> Tasks \union {Nil}]
        /\ SlaveInv /\ OwnerInv
    BY <1>3 DEF FlatInv, TypeOK, Phases
  <2>1. CASE Wrapper(s)
    <3>1. PICK k : /\ k = workersData[worker[s]].data /\ k # Nil
                   /\ job' = [job EXCEPT ![s] = k]
                   /\ phase' = [phase EXCEPT ![k] = "running"]
                   /\ owner' = [owner EXCEPT ![k] = worker[s]]
      BY <2>1 DEF Wrapper
    <3>2. k \in Tasks /\ worker[s] \in Workers /\ worker' = worker /\ p = "body"
      BY <1>m, <2>0, <2>1, <3>1 DEF Wrapper, WorkerRecord
    <3> QED BY <1>6, <2>0, <3>1, <3>2 DEF SlaveInv, OwnerInv, Phases, SlavePCs
  <2>2. CASE FinishTask(s)
    <3>1. /\ phase' = [phase EXCEPT ![job[s]] = "done"] /\ owner' = owner /\ worker' = worker
          /\ job' = [job EXCEPT ![s] = Nil] /\ p = "leave" /\ pc[s] = "body"
      BY <1>m, <2>2 DEF FinishTask
    <3> QED BY <1>6, <2>0, <3>1 DEF SlaveInv, OwnerInv, Phases, SlavePCs
  <2>3. CASE Exit(s)
    <3>1. /\ phase' = phase /\ owner' = owner /\ job' = job
          /\ worker' = [worker EXCEPT ![s] = Nil] /\ p = "off"
      BY <1>m, <2>3 DEF Exit, status
    <3> QED BY <1>6, <2>0, <3>1 DEF SlaveInv, OwnerInv
  <2>4. CASE Top(s) \/ Announce(s) \/ Arrived(s) \/ EnterRunning(s) \/ CleanFlowVars(s)
             \/ LeaveRunning(s)
    <3>1. /\ phase' = phase /\ owner' = owner /\ job' = job /\ worker' = worker
          /\ p # "body" /\ pc[s] # "off"
      BY <1>m, <2>4 DEF Top, Announce, Arrived, EnterRunning, CleanFlowVars, LeaveRunning, status, thread
    <3> QED BY <1>6, <2>0, <3>1 DEF SlaveInv, OwnerInv
  <2> QED BY <2>1, <2>2, <2>3, <2>4 DEF SlaveStep
<1>10. currentPoolSize' \in 0 .. Records /\ currentPoolSize' <= currentPoolSize /\ SizeInv'
  <2>0. /\ SizeInv /\ currentPoolSize \in 0 .. Records /\ Records \in Nat
        /\ workersData \in [Workers -> WorkerRecord] /\ 0 \in Workers
    BY <1>3, PoolAssumption DEF FlatInv, TypeOK, Workers
  <2>1. Uncounted' = Uncounted
    BY <1>1, <1>6 DEF Uncounted
  <2>2. PICK z \in Live : worker[z] = 0
    BY <2>0 DEF SizeInv
  <2>3. CASE Top(s) /\ workersData[worker[s]].shutdown
    <3>1. /\ workersData' = [workersData EXCEPT ![worker[s]].shutdown = FALSE]
          /\ currentPoolSize' = currentPoolSize - 1 /\ worker' = worker
          /\ pc[s] = "top" /\ p = "dying"
      BY <1>m, <2>3 DEF Top, thread
    <3>2. Live' = Live \ {s} /\ s \in Live
      BY <1>6, <3>1 DEF Live
    <3>8. z # s
      BY <2>0, <2>2, <2>3 DEF SizeInv
    <3>3. Cardinality(Live') = Cardinality(Live) - 1 /\ Cardinality(Live') # 0
      BY <2>2, <3>2, <3>8, LiveFinite, FS_RemoveElement, FS_EmptySet, FS_Subset
    <3>4. ~workersData'[0].shutdown
      BY <2>0, <3>1 DEF SizeInv
    <3>5. Cardinality(Live) \in Nat /\ Uncounted \in {0, 1}
          /\ Cardinality(Live) <= currentPoolSize + Uncounted
      BY <2>0, LiveFinite DEF Uncounted, SizeInv
    <3>6. \E y \in Live' : worker'[y] = 0
      BY <2>2, <3>1, <3>2, <3>8
    <3>9. Cardinality(Live') \in Nat
      BY <3>2, LiveFinite, FS_Subset, FS_CardinalityType
    <3>7. currentPoolSize' \in 0 .. Records /\ currentPoolSize' <= currentPoolSize
          /\ Cardinality(Live') <= currentPoolSize' + Uncounted'
      BY <2>0, <2>1, <3>1, <3>3, <3>5, <3>9
    <3> QED BY <3>4, <3>6, <3>7 DEF SizeInv
  <2>4. CASE ~(Top(s) /\ workersData[worker[s]].shutdown)
    <3>1. /\ currentPoolSize' = currentPoolSize
          /\ p \in {"off", "dying"} <=> pc[s] \in {"off", "dying"}
          /\ worker' = worker \/ (worker' = [worker EXCEPT ![s] = Nil] /\ pc[s] = "dying")
      BY <1>m, <2>4 DEF SlaveStep, Top, Exit, Announce, Arrived, EnterRunning, Wrapper, CleanFlowVars,
         FinishTask, LeaveRunning, size, thread
    <3>2. Live' = Live
      BY <1>6, <3>1 DEF Live
    <3>3. ~workersData'[0].shutdown
      <4>1. CASE workersData' = workersData
        BY <2>0, <4>1 DEF SizeInv
      <4>2. CASE Top(s)
        BY <2>0, <2>4, <4>2 DEF SizeInv, Top, WorkerRecord
      <4>3. CASE Arrived(s) \/ Wrapper(s)
        BY <2>0, <4>3 DEF SizeInv, Arrived, Wrapper, WorkerRecord
      <4>4. CASE CleanFlowVars(s) \/ LeaveRunning(s)
        BY <2>0, <4>4 DEF SizeInv, CleanFlowVars, LeaveRunning, WorkerRecord
      <4>5. \/ workersData' = workersData \/ Top(s) \/ Arrived(s) \/ Wrapper(s)
            \/ CleanFlowVars(s) \/ LeaveRunning(s)
        BY DEF SlaveStep, Exit, Announce, EnterRunning, FinishTask
      <4> QED BY <4>1, <4>2, <4>3, <4>4, <4>5
    <3>4. worker'[z] = 0
      BY <1>3, <2>2, <3>1 DEF Live, TypeOK
    <3> QED BY <2>0, <2>1, <2>2, <3>1, <3>2, <3>3, <3>4 DEF SizeInv
  <2> QED BY <2>3, <2>4
<1>11. MainInv' /\ LockInv'
  <2>1. MainInv /\ LockInv
    BY DEF FlatInv
  <2>2. currentPoolSize \in Nat /\ currentPoolSize' \in Nat /\ Records \in Nat
    BY <1>3, <1>10, PoolAssumption DEF TypeOK
  <2> QED BY <1>1, <1>2, <1>6, <1>10, <2>1, <2>2 DEF MainInv, MainAt, LockInv, LockAt, Advising, Growing
<1>12. TypeOK'
  BY <1>2, <1>3, <1>5, <1>7, <1>8, <1>9, <1>10, CountersNat DEF TypeOK, Phases
<1> QED BY <1>9, <1>10, <1>11, <1>12 DEF FlatInv

(* A step of a thread m outside the pool that leaves the other threads     *)
(* where they are.                                                         *)
OnlyMoves(m, p) ==
  /\ pc' = [pc EXCEPT ![m] = p]
  /\ \A n \in Mains \ {m} : /\ site'[n] = site[n] /\ cur'[n] = cur[n]
                            /\ upto'[n] = upto[n] /\ task'[n] = task[n]
  /\ UNCHANGED <<worker, job, numSlavesLock>>

(* What a thread's own step must show, then, for the invariant to hold.    *)
LEMMA OwnStepFlat ==
  ASSUME FlatInv, NEW m \in Mains, NEW p, OnlyMoves(m, p),
         TypeOK', OwnerInv', MainAt(m)', LockAt(m)',
         owner' = owner, ~workersData'[0].shutdown,
         \/ UNCHANGED <<currentPoolSize, stateLock>> /\ (p = "count" <=> pc[m] = "count")
         \/ /\ stateLock \in {m, Nil}
            /\ stateLock' \in {stateLock, m, Nil}
            /\ \/ currentPoolSize' = currentPoolSize /\ (p = "count" \/ pc[m] # "count")
               \/ currentPoolSize' = currentPoolSize + 1 /\ pc[m] = "count" /\ p # "count"
  PROVE  FlatInv'
<1>1. m \in Threads /\ m \notin Slaves /\ Mains \subseteq Threads /\ Slaves \subseteq Threads
      /\ Nil \notin Mains
  BY ThreadsApart, PoolAssumption DEF Threads
<1>2. pc \in [Threads -> SlavePCs \union CallPCs \union MainPCs]
      /\ currentPoolSize \in Nat /\ currentPoolSize' \in Nat /\ Records \in Nat
  BY PoolAssumption DEF FlatInv, TypeOK
<1>3. pc'[m] = p /\ \A t \in Threads \ {m} : pc'[t] = pc[t]
  BY <1>1, <1>2 DEF OnlyMoves
<1>4. SlaveInv'
  BY <1>1, <1>3 DEF FlatInv, SlaveInv, OnlyMoves
<1>5. MainInv'
  BY <1>1, <1>3 DEF FlatInv, MainInv, MainAt, OnlyMoves
<1>6. LockInv'
  <2>1. ASSUME NEW n \in Mains, n # m PROVE LockAt(n)'
    <3>1. LockAt(n) /\ LockAt(m)
      BY DEF FlatInv, LockInv
    <3>2. (Advising(n)' <=> Advising(n)) /\ (Growing(n)' <=> Growing(n)) /\ site'[n] = site[n]
      BY <1>1, <1>3, <2>1 DEF Advising, Growing, OnlyMoves
    <3>3. Growing(n) => Advising(n)
      BY DEF Advising
    <3>4. CASE UNCHANGED <<currentPoolSize, stateLock>>
      BY <3>1, <3>2, <3>4 DEF LockAt
    <3>5. CASE stateLock \in {m, Nil}
      <4>1. ~Advising(n)
        BY <1>1, <2>1, <3>1, <3>5 DEF LockAt
      <4> QED BY <3>2, <3>3, <4>1 DEF LockAt
    <3> QED BY <3>4, <3>5
  <2> QED BY <2>1 DEF LockInv, FlatInv, OnlyMoves
<1>7. SizeInv'
  <2>1. Live' = Live /\ worker' = worker
    BY <1>1, <1>3 DEF Live, OnlyMoves
  <2>2. SizeInv /\ Cardinality(Live) \in Nat
    BY LiveFinite DEF FlatInv
  <2>3. /\ \/ currentPoolSize' = currentPoolSize
           \/ currentPoolSize' = currentPoolSize + 1 /\ pc[m] = "count" /\ p # "count"
        /\ p # "count" /\ pc[m] = "count" => currentPoolSize' = currentPoolSize + 1
    OBVIOUS
  <2>4. PICK u \in 0 .. 1, v \in 0 .. 1 : u = Uncounted /\ v = Uncounted'
    BY DEF Uncounted
  <2>5. (p = "count" <=> pc[m] = "count") => u = v
    BY <1>1, <1>3, <2>4 DEF Uncounted
  <2>6. p = "count" => v = 1
    BY <1>1, <1>3, <2>4 DEF Uncounted
  <2>a. PICK a \in Nat, b \in Nat, n \in Nat :
          a = currentPoolSize /\ b = currentPoolSize' /\ n = Cardinality(Live)
    BY <1>2, <2>2
  <2>7. a + u <= b + v
    <3>1. CASE b = a
      <4>1. u = v \/ v = 1
        BY <2>3, <2>5, <2>6, <2>a, <3>1
      <4> QED BY <3>1, <4>1
    <3>2. CASE b = a + 1
      BY <3>2
    <3> QED BY <2>3, <2>a, <3>1, <3>2
  <2>8. n <= a + u
    BY <2>2, <2>4, <2>a DEF SizeInv
  <2>9. Cardinality(Live') <= currentPoolSize' + v
    <3>1. n <= b + v
      BY <2>7, <2>8
    <3> QED BY <2>1, <2>a, <3>1
  <2> QED BY <2>1, <2>2, <2>4, <2>9 DEF SizeInv
<1> QED BY <1>4, <1>5, <1>6, <1>7 DEF FlatInv

(* What TypeOK, MainInv and LockInv say of one thread m outside the pool.  *)
LEMMA AtMain ==
  ASSUME FlatInv, NEW m \in Mains
  PROVE  /\ m \in Threads /\ m \notin Slaves /\ m # Nil
         /\ pc[m] \in MainPCs \union (CallPCs \ {"decide", "unmark"})
         /\ site[m] \in Sites \ {"slave"}
         /\ pc[m] \in CallPCs => task[m] \in Tasks
         /\ pc[m] \in {"select", "hand", "started", "finish", "wakeup", "empty"} => cur[m] \in Workers
         /\ pc[m] = "select" /\ site[m] = "scan" => cur[m] < upto[m]
         /\ Advising(m) => stateLock = m
         /\ Growing(m) => currentPoolSize < Records /\ site[m] \in {"min", "advice"}
         /\ pc \in [Threads -> SlavePCs \union CallPCs \union MainPCs]
         /\ site \in [Threads -> Sites] /\ task \in [Threads -> Tasks \union {Nil}]
         /\ cur \in [Threads -> 0 .. Records] /\ upto \in [Threads -> 0 .. Records]
         /\ workersData \in [Workers -> WorkerRecord]
         /\ currentPoolSize \in 0 .. Records /\ Records \in Nat /\ readyWorker \in Workers
         /\ ~workersData[0].shutdown /\ numSlavesLock = Nil
<1>1. TypeOK /\ MainAt(m) /\ LockAt(m)
  BY DEF FlatInv, MainInv, LockInv
<1>2. m \in Threads /\ m \notin Slaves /\ m # Nil
  BY ThreadsApart, PoolAssumption DEF Threads
<1> QED BY <1>1, <1>2, PoolAssumption DEF FlatInv, TypeOK, MainAt, LockAt, LockInv, SizeInv

(* The flags of a record can be set.                                       *)
LEMMA FlagsSet ==
  ASSUME NEW r \in WorkerRecord
  PROVE  /\ [r EXCEPT !.ready = FALSE] \in WorkerRecord
         /\ [r EXCEPT !.ready = FALSE].shutdown = r.shutdown
         /\ [r EXCEPT !.shutdown = TRUE] \in WorkerRecord
<1>1. [r EXCEPT !.ready = FALSE].shutdown = r.shutdown
  BY DEF WorkerRecord
<1>2. [r EXCEPT !.ready = FALSE] \in WorkerRecord
  BY DEF WorkerRecord
<1>3. [r EXCEPT !.shutdown = TRUE] \in WorkerRecord
  BY DEF WorkerRecord
<1> QED BY <1>1, <1>2, <1>3

(* A call of spawn keeps the invariant: selectWorker, ...                  *)
LEMMA SelectFlat ==
  ASSUME FlatInv, CountInv', NEW m \in Mains, Select(m) \/ Hand(m) \/ Started(m)
  PROVE  FlatInv'
<1>1. TypeOK /\ OwnerInv
  BY DEF FlatInv
<1> USE AtMain DEF Goto
<1>2. PICK p \in {"hand", "started", "idle"} :
        OnlyMoves(m, p) /\ pc[m] \in {"select", "hand", "started"}
        /\ (p = "hand" => pc[m] = "select") /\ (p = "started" => pc[m] = "hand")
        /\ UNCHANGED <<size, ready, slaves, thread, call, status>>
        /\ stateLock' = IF p = "idle" THEN Unlocked(stateLock, m) ELSE stateLock
  BY DEF Select, Hand, Started, Idle, OnlyMoves, Unlocked, locks, call, thread
<1>3. workersData' \in [Workers -> WorkerRecord] /\ workersData'[0].shutdown = workersData[0].shutdown
  <2>1. CASE Select(m)
    <3>1. cur[m] \in Workers
      BY <2>1 DEF Select
    <3>2. workersData' = [workersData EXCEPT ![cur[m]].ready = FALSE]
      BY <2>1 DEF Select
    <3>3. workersData \in [Workers -> WorkerRecord] /\ 0 \in Workers
      BY DEF Workers
    <3> QED BY ONLY <3>1, <3>2, <3>3, FlagsSet
  <2>2. CASE Hand(m)
    <3>1. workersData' = [workersData EXCEPT ![cur[m]].data = task[m], ![cur[m]].f = "call",
                                             ![cur[m]].taskArrived = @ + 1]
      BY <2>2 DEF Hand
    <3>2. cur[m] \in Workers /\ task[m] \in Tasks
      BY <2>2 DEF Hand, CallPCs
    <3> QED BY <3>1, <3>2 DEF WorkerRecord
  <2>3. CASE Started(m)
    BY <2>3 DEF Started, WorkerRecord
  <2> QED BY <2>1, <2>2, <2>3
<1>4. pc'[m] = p /\ pc' \in [Threads -> SlavePCs \union CallPCs \union MainPCs]
  BY <1>2 DEF OnlyMoves, CallPCs, MainPCs
<1>5. TypeOK'
  BY <1>1, <1>2, <1>3, <1>4, CountersNat DEF TypeOK, OnlyMoves, size, limits, ready, call, thread, status,
     Unlocked
<1>6. MainAt(m)' /\ LockAt(m)' /\ OwnerInv'
  BY <1>1, <1>2, <1>4 DEF MainAt, LockAt, Advising, Growing, OwnerInv, call, status, size, CallPCs, MainPCs,
     Sites, Unlocked
<1>7. /\ UNCHANGED currentPoolSize /\ p # "count" /\ pc[m] # "count" /\ owner' = owner
      /\ ~workersData'[0].shutdown
  BY <1>2, <1>3 DEF size, status
<1>8. stateLock' = stateLock \/ (stateLock = m /\ stateLock' = Nil)
  BY <1>2 DEF Unlocked
<1> QED BY <1>2, <1>5, <1>6, <1>7, <1>8, OwnStepFlat

(* ... the loop over the workers and the growth of the pool,               *)
LEMMA NotReadyFlat ==
  ASSUME FlatInv, CountInv', NEW m \in Mains, NotReady(m)
  PROVE  FlatInv'
<1>1. TypeOK /\ OwnerInv
  BY DEF FlatInv
<1> USE AtMain DEF Goto
<1>2. pc[m] = "select" /\ site[m] \in {"ready", "scan", "min", "advice"} /\ task[m] \in Tasks
      /\ UNCHANGED <<workersData, size, ready, slaves, numSlavesLock, thread, task, status>>
  BY DEF NotReady, Sites, CallPCs, slaves
<1>3. stateLock' = IF site[m] = "advice" THEN Nil ELSE stateLock
  BY DEF NotReady
<1>4. CASE site[m] \in {"ready", "scan"}
  <2>1. PICK i \in 0 .. Records, end \in 0 .. Records : LoopFrom(m, i, end)
    <3>1. CASE site[m] = "ready"
      BY <3>1 DEF NotReady
    <3>2. CASE site[m] = "scan"
      <4>1. LoopFrom(m, cur[m] + 1, upto[m])
        BY <3>2 DEF NotReady
      <4>2. cur[m] + 1 \in 0 .. Records /\ upto[m] \in 0 .. Records
        BY <1>2 DEF Workers
      <4> QED BY <4>1, <4>2
    <3> QED BY <1>4, <3>1, <3>2
  <2>2. /\ site' = [site EXCEPT ![m] = "scan"] /\ upto' = [upto EXCEPT ![m] = end]
        /\ cur' = [cur EXCEPT ![m] = IF i < end THEN i ELSE @]
        /\ pc' = [pc EXCEPT ![m] = IF i < end THEN "select" ELSE "advise"]
    BY <2>1 DEF LoopFrom
  <2>3. /\ cur[m] \in 0 .. Records
        /\ cur' \in [Threads -> 0 .. Records] /\ upto' \in [Threads -> 0 .. Records]
        /\ site' \in [Threads -> Sites]
        /\ pc' \in [Threads -> SlavePCs \union CallPCs \union MainPCs]
        /\ pc'[m] = IF i < end THEN "select" ELSE "advise"
        /\ site'[m] = "scan" /\ upto'[m] = end /\ (i < end => cur'[m] = i)
    BY <2>2 DEF Sites, CallPCs
  <2>4. PICK p \in {"select", "advise"} : OnlyMoves(m, p)
    BY <1>2, <2>2 DEF OnlyMoves, thread
  <2>5. TypeOK' /\ OwnerInv'
    BY <1>1, <1>2, <1>3, <1>4, <2>3, <2>4, CountersNat DEF TypeOK, OwnerInv, OnlyMoves, size, limits,
       ready, thread, status
  <2>6. MainAt(m)' /\ LockAt(m)'
    BY <1>2, <2>3 DEF MainAt, LockAt, Advising, Growing, Workers, CallPCs, MainPCs
  <2>7. /\ UNCHANGED <<currentPoolSize, stateLock>> /\ p # "count" /\ pc[m] # "count"
        /\ owner' = owner /\ ~workersData'[0].shutdown
    BY <1>2, <1>3, <1>4 DEF size, status
  <2> QED BY <2>4, <2>5, <2>6, <2>7, OwnStepFlat
<1>5. CASE site[m] \in {"min", "advice"}
  <2>1. PICK p \in {"advice", "slave"} : /\ pc' = [pc EXCEPT ![m] = p] /\ UNCHANGED <<site, cur, upto>>
                                         /\ p = "slave" <=> site[m] = "advice"
    BY <1>5 DEF NotReady
  <2>2. OnlyMoves(m, p) /\ pc'[m] = p /\ pc' \in [Threads -> SlavePCs \union CallPCs \union MainPCs]
    BY <1>2, <2>1 DEF OnlyMoves, thread, CallPCs
  <2>3. stateLock = m /\ stateLock' \in {stateLock, Nil}
    BY <1>2, <1>3, <1>5 DEF Advising
  <2>4. TypeOK' /\ OwnerInv'
    BY <1>1, <1>2, <2>1, <2>2, <2>3, CountersNat DEF TypeOK, OwnerInv, OnlyMoves, size, limits,
       ready, thread, status
  <2>5. MainAt(m)' /\ LockAt(m)'
    BY <1>2, <1>3, <1>5, <2>1, <2>2, <2>3 DEF MainAt, LockAt, Advising, Growing, CallPCs, MainPCs, Sites
  <2>6. /\ UNCHANGED currentPoolSize /\ p # "count" /\ pc[m] # "count"
        /\ owner' = owner /\ ~workersData'[0].shutdown
    BY <1>2, <2>1 DEF size, status
  <2> QED BY <2>2, <2>3, <2>4, <2>5, <2>6, OwnStepFlat
<1> QED BY <1>2, <1>4, <1>5

LEMMA AdviseFlat ==
  ASSUME FlatInv, CountInv', NEW m \in Mains,
         Advise(m) \/ Min(m) \/ FollowAdvice(m) \/ NotASlave(m) \/ Unblock(m)
  PROVE  FlatInv'
<1>1. TypeOK /\ OwnerInv
  BY DEF FlatInv
<1> USE AtMain DEF Goto
<1>2. /\ pc[m] \in {"advise", "min", "advice", "slave", "block"} /\ task[m] \in Tasks
      /\ UNCHANGED <<size, readyWorker, slaves, numSlavesLock, thread, task, upto, status>>
      /\ gSomeReady' \in Nat
  BY <1>1 DEF Advise, Min, FollowAdvice, NotASlave, Unblock, Grow, CallPCs, TypeOK, ready, locks, call
<1>3. PICK p \in {"min", "slave", "advice", "create", "count", "block", "select"} :
        /\ pc' = [pc EXCEPT ![m] = p]
        /\ p = "select" => site' = [site EXCEPT ![m] = "ready"] /\ cur' = [cur EXCEPT ![m] = readyWorker]
        /\ p # "select" => cur' = cur
        /\ p \in {"create", "count"} => /\ currentPoolSize \in Workers
                                        /\ site' \in {[site EXCEPT ![m] = "min"], [site EXCEPT ![m] = "advice"]}
        /\ p \in {"min", "slave", "advice", "block"} => site' = site
        /\ p = "min" => stateLock' = m /\ stateLock \in {m, Nil}
        /\ p \in {"create", "count", "advice"} => Advising(m) /\ stateLock' = stateLock
        /\ p = "slave" => stateLock' = stateLock \/ (Advising(m) /\ stateLock' = Nil)
        /\ p \in {"block", "select"} => stateLock' = stateLock
  <2>1. CASE Advise(m)
    BY <2>1 DEF Advise, call
  <2>2. CASE Min(m)
    BY <2>2 DEF Min, Grow, Advising, locks
  <2>3. CASE FollowAdvice(m)
    BY <2>3 DEF FollowAdvice, Grow, Advising
  <2>4. CASE NotASlave(m) \/ Unblock(m)
    BY <2>4 DEF NotASlave, Unblock, Round, locks, call
  <2> QED BY <2>1, <2>2, <2>3, <2>4
<1>4. workersData' \in [Workers -> WorkerRecord] /\ workersData'[0].shutdown = workersData[0].shutdown
  <2>1. CASE workersData' = workersData
    BY <2>1
  <2>2. CASE /\ workersData' = [workersData EXCEPT ![currentPoolSize - 1].shutdown = TRUE]
             /\ currentPoolSize > minPoolSize
    <3>1. minPoolSize \in 1 .. Records
      BY <1>1 DEF TypeOK
    <3>2. PICK j \in Workers : j # 0 /\ workersData' = [workersData EXCEPT ![j].shutdown = TRUE]
      <4>1. currentPoolSize - 1 \in Workers /\ currentPoolSize - 1 # 0
        BY <2>2, <3>1 DEF Workers
      <4> QED BY <2>2, <4>1
    <3>3. workersData \in [Workers -> WorkerRecord] /\ 0 \in Workers
      BY DEF Workers
    <3> QED BY ONLY <3>2, <3>3, FlagsSet
  <2> QED BY <2>1, <2>2 DEF Advise, Min, FollowAdvice, NotASlave, Unblock
<1>5. /\ pc'[m] = p /\ pc' \in [Threads -> SlavePCs \union CallPCs \union MainPCs]
      /\ site' \in [Threads -> Sites] /\ cur' \in [Threads -> 0 .. Records]
      /\ OnlyMoves(m, p)
  <2>1. pc'[m] = p /\ pc' \in [Threads -> SlavePCs \union CallPCs \union MainPCs]
    BY <1>3 DEF CallPCs
  <2>2. site' = site \/ \E w \in {"ready", "min", "advice"} : site' = [site EXCEPT ![m] = w]
    BY <1>3
  <2>3. cur' = cur \/ cur' = [cur EXCEPT ![m] = readyWorker]
    BY <1>3
  <2>4. site' \in [Threads -> Sites] /\ \A n \in Mains \ {m} : site'[n] = site[n]
    BY <2>2, ThreadsApart DEF Sites, Threads
  <2>5. cur' \in [Threads -> 0 .. Records] /\ \A n \in Mains \ {m} : cur'[n] = cur[n]
    <3>1. readyWorker \in 0 .. Records
      BY DEF Workers
    <3> QED BY <2>3, <3>1 DEF Threads
  <2> QED BY <1>2, <1>3, <2>1, <2>4, <2>5 DEF OnlyMoves, thread
<1>6. stateLock' = stateLock \/ (stateLock \in {m, Nil} /\ stateLock' \in {stateLock, m, Nil})
  BY <1>3
<1>7. TypeOK' /\ OwnerInv'
  BY <1>1, <1>2, <1>3, <1>4, <1>5, <1>6, CountersNat DEF TypeOK, OwnerInv, OnlyMoves, size, limits, thread, status
<1>8. MainAt(m)'
  BY <1>2, <1>3, <1>5 DEF MainAt, CallPCs, MainPCs, Sites
<1>9. LockAt(m)'
  <2>1. CASE p \in {"create", "count"}
    <3>1. site'[m] \in {"min", "advice"} /\ currentPoolSize' < Records
      BY <1>2, <1>3, <2>1 DEF size, Workers
    <3> QED BY <1>3, <1>5, <2>1, <3>1 DEF LockAt, Advising
  <2>2. CASE p = "select"
    BY <1>3, <1>5, <2>2 DEF LockAt, Advising, Growing
  <2>3. CASE p \in {"min", "advice", "slave", "block"}
    BY <1>3, <1>5, <2>3 DEF LockAt, Advising, Growing
  <2> QED BY <2>1, <2>2, <2>3
<1>10. /\ UNCHANGED currentPoolSize /\ pc[m] # "count" /\ owner' = owner /\ ~workersData'[0].shutdown
  BY <1>2, <1>4 DEF size, status
<1>11. p = "count" => Advising(m) /\ stateLock' = stateLock
  BY <1>3
<1> QED BY <1>5, <1>6, <1>7, <1>8, <1>9, <1>10, <1>11, OwnStepFlat

LEMMA CountFlat ==
  ASSUME FlatInv, CountInv', NEW m \in Mains, Count(m)
  PROVE  FlatInv'
<1>1. TypeOK /\ OwnerInv
  BY DEF FlatInv
<1> USE AtMain DEF Goto
<1>2. /\ pc[m] = "count" /\ task[m] \in Tasks /\ pc' = [pc EXCEPT ![m] = "select"]
      /\ cur' = [cur EXCEPT ![m] = currentPoolSize] /\ currentPoolSize' = currentPoolSize + 1
      /\ UNCHANGED <<workersData, limits, ready, slaves, locks, thread, task, site, upto, status>>
  BY DEF Count, CallPCs
<1>3. /\ stateLock = m /\ currentPoolSize \in Workers /\ currentPoolSize' \in 0 .. Records
      /\ site[m] \in {"min", "advice"}
  BY <1>2 DEF Growing, Advising, Workers
<1>4. OnlyMoves(m, "select") /\ pc'[m] = "select" /\ cur'[m] = currentPoolSize
      /\ pc' \in [Threads -> SlavePCs \union CallPCs \union MainPCs]
      /\ cur' \in [Threads -> 0 .. Records]
  BY <1>2 DEF OnlyMoves, CallPCs, thread, locks
<1>5. TypeOK' /\ OwnerInv'
  BY <1>1, <1>2, <1>3, <1>4, CountersNat DEF TypeOK, OwnerInv, limits, ready, locks, thread, status
<1>6. MainAt(m)' /\ LockAt(m)'
  BY <1>2, <1>3, <1>4 DEF MainAt, LockAt, Advising, Growing, CallPCs, locks
<1>7. stateLock' = stateLock /\ owner' = owner /\ ~workersData'[0].shutdown
  BY <1>2 DEF locks, status
<1> QED BY <1>2, <1>3, <1>4, <1>5, <1>6, <1>7, OwnStepFlat

(* ... and the new worker.                                                 *)
LEMMA CreateFlat ==
  ASSUME FlatInv, CountInv', NEW m \in Mains, Create(m)
  PROVE  FlatInv'
<1>1. TypeOK /\ OwnerInv /\ SlaveInv /\ MainInv /\ LockInv /\ SizeInv
  BY DEF FlatInv
<1>2. /\ m \in Threads /\ m \notin Slaves /\ pc[m] = "create"
      /\ stateLock = m /\ currentPoolSize \in Workers /\ 0 \in Workers
      /\ site[m] \in {"min", "advice"}
      /\ pc \in [Threads -> SlavePCs \union CallPCs \union MainPCs]
      /\ worker \in [Slaves -> Workers \union {Nil}]
      /\ workersData \in [Workers -> WorkerRecord]
  BY <1>1, AtMain DEF Create, Growing, Advising, Workers, TypeOK
<1>3. PICK s \in Slaves : /\ pc[s] = "off"
                          /\ pc' = [pc EXCEPT ![s] = "top", ![m] = "count"]
                          /\ worker' = [worker EXCEPT ![s] = currentPoolSize]
  BY DEF Create
<1>4. UNCHANGED <<size, ready, slaves, locks, job, call, status>>
  BY DEF Create
<1>5. s \in Threads /\ Slaves \subseteq Threads /\ Mains \subseteq Threads
      /\ \A n \in Mains : n \notin Slaves
  BY ThreadsApart DEF Threads
<1>6. /\ pc' \in [Threads -> SlavePCs \union CallPCs \union MainPCs]
      /\ pc'[m] = "count" /\ pc'[s] = "top"
      /\ \A t \in Threads \ {s, m} : pc'[t] = pc[t]
      /\ worker' \in [Slaves -> Workers \union {Nil}]
      /\ \A r \in Slaves : worker'[r] = IF r = s THEN currentPoolSize ELSE worker[r]
  BY <1>2, <1>3, <1>5 DEF CallPCs, SlavePCs
<1>7. workersData' \in [Workers -> WorkerRecord] /\ ~workersData'[0].shutdown
  <2>1. workersData' = [workersData EXCEPT
          ![currentPoolSize].initialized = TRUE, ![currentPoolSize].taskArrived = 0,
          ![currentPoolSize].taskStarted = 0, ![currentPoolSize].empty = 0]
    BY DEF Create
  <2>2. ~workersData[0].shutdown
    BY <1>1 DEF SizeInv
  <2> DEFINE r == [workersData[currentPoolSize] EXCEPT !.initialized = TRUE, !.taskArrived = 0,
                                                       !.taskStarted = 0, !.empty = 0]
  <2>3. r \in WorkerRecord /\ r.shutdown = workersData[currentPoolSize].shutdown
    BY <1>2 DEF WorkerRecord
  <2>4. workersData' = [workersData EXCEPT ![currentPoolSize] = r]
    BY <1>2, <2>1
  <2> HIDE DEF r
  <2> QED BY <1>2, <2>2, <2>3, <2>4
<1>8. TypeOK'
  BY <1>1, <1>4, <1>6, <1>7, CountersNat DEF TypeOK, size, limits, ready, locks, call, status
<1>9. SlaveInv' /\ OwnerInv'
  BY <1>1, <1>2, <1>4, <1>5, <1>6 DEF SlaveInv, OwnerInv, SlavePCs, status
<1>10. MainInv'
  BY <1>1, <1>2, <1>4, <1>5, <1>6 DEF MainInv, MainAt, CallPCs, call
<1>11. \A n \in Mains \ {m} : ~Advising(n)
  BY <1>1, <1>2 DEF LockInv, LockAt
<1>12. LockInv'
  <2>1. LockAt(m)'
    BY <1>1, <1>2, <1>4, <1>6, PoolAssumption DEF LockAt, Advising, Growing, locks, size, call, Workers
  <2>2. ASSUME NEW n \in Mains, n # m PROVE LockAt(n)'
    <3>1. pc'[n] = pc[n] /\ site'[n] = site[n]
      BY <1>3, <1>4, <1>5, <1>6, <2>2 DEF call
    <3> QED BY <1>11, <2>2, <3>1 DEF LockAt, Advising, Growing
  <2> QED BY <1>1, <1>4, <2>1, <2>2 DEF LockInv, locks
<1>13. SizeInv'
  <2>1. Uncounted = 0 /\ Uncounted' = 1
    BY <1>2, <1>6, <1>11 DEF Uncounted, Advising, Growing
  <2>2. Live' = Live \union {s} /\ s \notin Live
    BY <1>2, <1>3, <1>5, <1>6 DEF Live
  <2>3. Cardinality(Live') = Cardinality(Live) + 1 /\ Cardinality(Live) \in Nat
    BY <2>2, LiveFinite, FS_AddElement
  <2>4. Cardinality(Live) <= currentPoolSize /\ currentPoolSize \in Nat
    BY <1>1, <1>2, <2>1 DEF SizeInv, TypeOK
  <2>5. Cardinality(Live) + 1 <= currentPoolSize + 1
    BY <2>3, <2>4
  <2>6. Cardinality(Live') <= currentPoolSize' + Uncounted'
    BY <1>4, <2>1, <2>3, <2>5 DEF size
  <2>7. \E z \in Live' : worker'[z] = 0
    BY <1>1, <1>6, <2>2 DEF SizeInv, Live
  <2> QED BY <1>7, <2>6, <2>7 DEF SizeInv
<1> QED BY <1>8, <1>9, <1>10, <1>12, <1>13 DEF FlatInv

(* The other operations of a thread outside the pool keep it, too.         *)
LEMMA SyncFlat ==
  ASSUME FlatInv, CountInv', NEW m \in Mains,
         StartSync(m) \/ SyncLook(m) \/ SyncReturn(m) \/ QueueFull(m)
  PROVE  FlatInv'
<1>1. TypeOK /\ OwnerInv
  BY DEF FlatInv
<1> USE AtMain DEF Goto
<1>2. UNCHANGED <<workersData, size, ready, slaves, locks, thread, task, site, status>>
  BY DEF StartSync, SyncLook, SyncReturn, QueueFull, call
<1>3. PICK p \in {"sync", "idle", "wakeup"} :
        /\ pc' = [pc EXCEPT ![m] = p] /\ pc[m] \in {"idle", "sync", "finish"}
        /\ p = "wakeup" => pc[m] = "finish" /\ cur' = cur
  BY DEF StartSync, SyncLook, SyncReturn, QueueFull, call
<1>4. /\ cur' = cur \/ \E i \in 0 .. Records : cur' = [cur EXCEPT ![m] = i]
      /\ upto' = upto \/ upto' = [upto EXCEPT ![m] = currentPoolSize]
  <2>1. CASE SyncLook(m)
    <3>1. pc[m] = "sync" /\ cur[m] + 1 \in 0 .. Records /\ 0 \in 0 .. Records
      BY <2>1 DEF SyncLook
    <3> QED BY <2>1, <3>1 DEF SyncLook
  <2>2. CASE ~SyncLook(m)
    BY <2>2 DEF StartSync, SyncReturn, QueueFull, call
  <2> QED BY <2>1, <2>2
<1>5. /\ OnlyMoves(m, p) /\ pc'[m] = p /\ pc' \in [Threads -> SlavePCs \union CallPCs \union MainPCs]
      /\ cur' \in [Threads -> 0 .. Records] /\ upto' \in [Threads -> 0 .. Records]
  BY <1>2, <1>3, <1>4 DEF OnlyMoves, thread, locks, MainPCs, Threads
<1>6. TypeOK' /\ OwnerInv'
  BY <1>1, <1>2, <1>5, CountersNat DEF TypeOK, OwnerInv, size, limits, ready, locks, thread, status
<1>7. MainAt(m)' /\ LockAt(m)'
  BY <1>2, <1>3, <1>5 DEF MainAt, LockAt, Advising, Growing, CallPCs, MainPCs, Sites
<1>8. /\ UNCHANGED <<currentPoolSize, stateLock>> /\ p # "count" /\ pc[m] # "count" /\ owner' = owner
      /\ ~workersData'[0].shutdown
  BY <1>2, <1>3 DEF locks, size, status
<1> QED BY <1>5, <1>6, <1>7, <1>8, OwnStepFlat

LEMMA FinishFlat ==
  ASSUME FlatInv, CountInv', NEW m \in Mains, Finish(m) \/ Wakeup(m) \/ Emptied(m)
  PROVE  FlatInv'
<1>1. TypeOK /\ OwnerInv
  BY DEF FlatInv
<1> USE AtMain DEF Goto
<1>2. UNCHANGED <<size, ready, slaves, locks, thread, call, status>>
      /\ pc[m] \in {"finish", "wakeup", "empty"} /\ cur[m] \in Workers
  BY DEF Finish, Wakeup, Emptied
<1>3. PICK p \in {"idle", "empty", "finish"} : pc' = [pc EXCEPT ![m] = p]
  BY DEF Finish, Wakeup, Emptied
<1>4. OnlyMoves(m, p) /\ pc'[m] = p /\ pc' \in [Threads -> SlavePCs \union CallPCs \union MainPCs]
  BY <1>2, <1>3 DEF OnlyMoves, thread, call, locks, MainPCs
<1>5. workersData' \in [Workers -> WorkerRecord] /\ ~workersData'[0].shutdown
  <2>1. workersData \in [Workers -> WorkerRecord] /\ 0 \in Workers /\ ~workersData[0].shutdown
    BY DEF Workers
  <2>2. CASE Finish(m)
    <3>1. workersData' = [workersData EXCEPT ![cur[m]].q = @ + 1, ![cur[m]].data = Nil]
          /\ workersData[cur[m]].q < QueueSize
      BY <2>2 DEF Finish, HasRoom
    <3> QED BY ONLY <1>2, <2>1, <3>1, PoolAssumption DEF WorkerRecord
  <2>3. CASE Wakeup(m)
    <3>1. workersData' = [workersData EXCEPT
            ![cur[m]].ready = FALSE, ![cur[m]].data = Nil, ![cur[m]].f = "clean",
            ![cur[m]].taskArrived = @ + 1]
      BY <2>3 DEF Wakeup
    <3>2. PICK n \in Nat : n = workersData[cur[m]].taskArrived + 1
      BY ONLY <1>2, <2>1 DEF WorkerRecord
    <3> DEFINE r == [workersData[cur[m]] EXCEPT !.ready = FALSE, !.data = Nil, !.f = "clean",
                                                !.taskArrived = n]
    <3>3. r \in WorkerRecord /\ r.shutdown = workersData[cur[m]].shutdown
      <4>1. workersData[cur[m]] \in WorkerRecord
        BY <1>2, <2>1
      <4> QED BY ONLY <4>1, n \in Nat DEF WorkerRecord
    <3>4. workersData' = [workersData EXCEPT ![cur[m]] = r]
      BY ONLY <1>2, <2>1, <3>1, <3>2
    <3> HIDE DEF r
    <3> QED BY ONLY <1>2, <2>1, <3>3, <3>4
  <2>4. CASE Emptied(m)
    <3>1. workersData' = [workersData EXCEPT ![cur[m]].empty = @ - 1] /\ workersData[cur[m]].empty > 0
      BY <2>4 DEF Emptied
    <3> QED BY ONLY <1>2, <2>1, <3>1 DEF WorkerRecord
  <2> QED BY <2>2, <2>3, <2>4
<1>6. TypeOK' /\ OwnerInv'
  BY <1>1, <1>2, <1>4, <1>5, CountersNat DEF TypeOK, OwnerInv, size, limits, ready, locks, thread, call, status
<1>7. MainAt(m)' /\ LockAt(m)'
  BY <1>2, <1>4 DEF MainAt, LockAt, Advising, Growing, CallPCs, MainPCs, Sites, call
<1>8. /\ UNCHANGED <<currentPoolSize, stateLock>> /\ p # "count" /\ pc[m] # "count" /\ owner' = owner
  BY <1>2 DEF locks, size, status
<1> QED BY <1>4, <1>5, <1>6, <1>7, <1>8, OwnStepFlat

LEMMA SetFlat ==
  ASSUME FlatInv, CountInv', NEW m \in Mains, SetMinPoolSize(m) \/ SetMaxPoolSize(m)
  PROVE  FlatInv'
<1>1. TypeOK /\ OwnerInv
  BY DEF FlatInv
<1> USE AtMain
<1>2. UNCHANGED <<currentPoolSize, ready, slaves, locks, pc, thread, call, status>> /\ pc[m] = "idle"
  BY DEF SetMinPoolSize, SetMaxPoolSize
<1>3. OnlyMoves(m, "idle")
  BY <1>2 DEF OnlyMoves, thread, call, locks
<1>4. minPoolSize' \in 1 .. Records /\ maxPoolSize' \in 1 .. Records
  BY <1>1, PoolAssumption DEF SetMinPoolSize, SetMaxPoolSize, TypeOK
<1>5. workersData' \in [Workers -> WorkerRecord] /\ ~workersData'[0].shutdown
  <2>1. workersData \in [Workers -> WorkerRecord] /\ 0 \in Workers /\ ~workersData[0].shutdown
    BY DEF Workers
  <2>2. CASE SetMinPoolSize(m)
    BY <2>1, <2>2 DEF SetMinPoolSize
  <2>3. CASE SetMaxPoolSize(m)
    <3>1. PICK n \in PoolSizes : workersData' = [i \in Workers |->
            [workersData[i] EXCEPT !.shutdown = @ \/ i \in n .. currentPoolSize - 1]]
      BY <2>3 DEF SetMaxPoolSize
    <3>2. 0 \notin n .. currentPoolSize - 1
      BY PoolAssumption
    <3>3. \A i \in Workers : [workersData[i] EXCEPT !.shutdown = @ \/ i \in n .. currentPoolSize - 1]
                             \in WorkerRecord
      BY ONLY <2>1 DEF WorkerRecord
    <3>4. workersData'[0].shutdown = (workersData[0].shutdown \/ 0 \in n .. currentPoolSize - 1)
      BY ONLY <2>1, <3>1 DEF WorkerRecord
    <3> QED BY ONLY <2>1, <3>1, <3>2, <3>3, <3>4
  <2> QED BY <2>2, <2>3
<1>6. TypeOK' /\ OwnerInv'
  BY <1>1, <1>2, <1>4, <1>5, CountersNat DEF TypeOK, OwnerInv, ready, locks, thread, call, status
<1>7. MainAt(m)' /\ LockAt(m)'
  BY <1>2 DEF MainAt, LockAt, Advising, Growing, CallPCs, locks, call
<1>8. UNCHANGED <<currentPoolSize, stateLock>> /\ owner' = owner
  BY <1>2 DEF locks, status
<1> QED BY <1>2, <1>3, <1>5, <1>6, <1>7, <1>8, OwnStepFlat

LEMMA PhasesFlat ==
  ASSUME FlatInv, CountInv', NEW m \in Mains, Spawn(m) \/ StartFinish(m)
  PROVE  FlatInv'
<1>1. TypeOK /\ OwnerInv
  BY DEF FlatInv
<1> USE AtMain DEF Goto
<1>2. UNCHANGED <<workersData, size, ready, slaves, locks, thread, upto, owner>> /\ pc[m] = "idle"
  BY DEF Spawn, StartFinish, Idle
<1>3. PICK k \in Tasks, p \in {"select", "finish"}, i \in Workers :
        /\ pc' = [pc EXCEPT ![m] = p] /\ cur' = [cur EXCEPT ![m] = i]
        /\ \/ /\ p = "select" /\ phase' = [phase EXCEPT ![k] = "spawning"]
              /\ task' = [task EXCEPT ![m] = k] /\ site' = [site EXCEPT ![m] = "ready"]
           \/ /\ p = "finish" /\ phase' = [phase EXCEPT ![k] = "finished"] /\ phase[k] = "done"
              /\ task' = task /\ site' = site
  <2>1. CASE Spawn(m)
    BY <2>1 DEF Spawn, Round
  <2>2. CASE StartFinish(m)
    <3>1. PICK k \in Awaited : phase[k] = "done" /\ phase' = [phase EXCEPT ![k] = "finished"]
                              /\ cur' = [cur EXCEPT ![m] = owner[k]]
      BY <2>2 DEF StartFinish
    <3>2. k \in Tasks /\ owner[k] \in Workers
      BY <1>1, <3>1, PoolAssumption DEF OwnerInv
    <3> QED BY <2>2, <3>1, <3>2 DEF StartFinish
  <2> QED BY <2>1, <2>2
<1>4. /\ OnlyMoves(m, p) /\ pc'[m] = p /\ pc' \in [Threads -> SlavePCs \union CallPCs \union MainPCs]
      /\ cur' \in [Threads -> 0 .. Records] /\ cur'[m] \in Workers
      /\ site' \in [Threads -> Sites] /\ task' \in [Threads -> Tasks \union {Nil}]
      /\ p = "select" => site'[m] = "ready" /\ task'[m] \in Tasks
  <2>1. i \in 0 .. Records
    BY DEF Workers
  <2>2. p \in CallPCs \union MainPCs /\ "ready" \in Sites
    BY <1>3 DEF CallPCs, MainPCs, Sites
  <2>3. OnlyMoves(m, p)
    BY <1>2, <1>3 DEF OnlyMoves, thread, locks
  <2>4. pc'[m] = p /\ pc' \in [Threads -> SlavePCs \union CallPCs \union MainPCs]
    BY <1>3, <2>2
  <2>5. cur' \in [Threads -> 0 .. Records] /\ cur'[m] \in Workers
    BY <1>3, <2>1
  <2>6. /\ site' \in [Threads -> Sites] /\ task' \in [Threads -> Tasks \union {Nil}]
        /\ p = "select" => site'[m] = "ready" /\ task'[m] \in Tasks
    BY <1>3, <2>2
  <2> QED BY <2>3, <2>4, <2>5, <2>6
<1>5. phase' \in [Tasks -> Phases]
      /\ \A l \in Tasks : phase'[l] \in {"running", "done", "finished"} =>
                           phase[l] \in {"running", "done", "finished"}
  BY <1>1, <1>3 DEF TypeOK, Phases
<1>6. TypeOK' /\ OwnerInv'
  BY <1>1, <1>2, <1>4, <1>5, CountersNat DEF TypeOK, OwnerInv, Phases, size, limits, ready, locks, thread
<1>7. MainAt(m)' /\ LockAt(m)'
  BY <1>2, <1>3, <1>4 DEF MainAt, LockAt, Advising, Growing, CallPCs, MainPCs, Sites
<1>8. /\ UNCHANGED <<currentPoolSize, stateLock>> /\ p # "count" /\ pc[m] # "count" /\ owner' = owner
      /\ ~workersData'[0].shutdown
  BY <1>2, <1>3 DEF locks, size
<1> QED BY <1>4, <1>6, <1>7, <1>8, OwnStepFlat

(* A task that spawns ends such a program for good.                        *)
FlatIInv == phase \in [Tasks -> Phases] /\ (NotNested => FlatInv)

LEMMA StaysFlat ==
  ASSUME phase \in [Tasks -> Phases], [Next]_vars
  PROVE  phase' \in [Tasks -> Phases] /\ \A k \in Tasks : phase'[k] = "new" => phase[k] = "new"
<1>1. \/ phase' = phase
      \/ \E k, q : q \in Phases \ {"new"} /\ phase' = [phase EXCEPT ![k] = q]
  <2>1. CASE UNCHANGED vars
    BY <2>1 DEF vars, status
  <2>2. ASSUME NEW s \in Slaves, SlaveStep(s) PROVE <1>1!:
    BY <2>2 DEF SlaveStep, Top, Exit, Announce, Arrived, EnterRunning, Wrapper, CleanFlowVars, FinishTask,
       LeaveRunning, status, Phases
  <2>3. ASSUME NEW t \in Threads, Spawn(t) PROVE <1>1!:
    BY <2>3 DEF Spawn, Phases
  <2>4. ASSUME NEW t \in Threads, CallStep(t) PROVE <1>1!:
    BY <2>4 DEF CallStep, Select, Hand, Started, NotReady, Advise, Min, FollowAdvice, Create, Count,
       NotASlave, LockSlaves, GrowForSlaves, MarkWaiting, Unblock, UnmarkWaiting, status
  <2>5. ASSUME NEW m \in Mains, StartSync(m) \/ MainStep(m) \/ SetMinPoolSize(m) \/ SetMaxPoolSize(m)
        PROVE  <1>1!:
    BY <2>5 DEF StartSync, MainStep, SyncLook, SyncReturn, Finish, QueueFull, Wakeup, Emptied,
       SetMinPoolSize, SetMaxPoolSize, status
  <2>6. ASSUME NEW m \in Mains, StartFinish(m) PROVE <1>1!:
    BY <2>6 DEF StartFinish, Phases
  <2> QED BY <2>1, <2>2, <2>3, <2>4, <2>5, <2>6 DEF Next
<1> QED BY <1>1 DEF Phases

LEMMA CallsAt == \A t : CallStep(t) => pc[t] \in CallPCs
BY DEF CallStep, Select, Hand, Started, NotReady, Advise, Min, FollowAdvice, Create, Count,
   NotASlave, LockSlaves, GrowForSlaves, MarkWaiting, Unblock, UnmarkWaiting, CallPCs

(* Who takes a step then: no worker spawns.                                *)
LEMMA FlatNext ==
  ASSUME FlatInv, Next, NotNested'
  PROVE  \/ \E s \in Slaves : SlaveStep(s)
         \/ \E m \in Mains : Spawn(m) \/ CallStep(m)
         \/ \E m \in Mains : StartSync(m) \/ MainStep(m)
                             \/ SetMinPoolSize(m) \/ SetMaxPoolSize(m) \/ StartFinish(m)
<1>1. ASSUME NEW s \in Slaves, Spawn(s) PROVE FALSE
  <2>1. s \notin Mains /\ phase \in [Tasks -> Phases]
    BY ThreadsApart DEF Threads, FlatInv, TypeOK, Phases
  <2>2. pc[s] = "body" /\ job[s] \in Tasks
    BY <1>1, <2>1 DEF Spawn, Idle, FlatInv, SlaveInv
  <2>3. PICK k \in Tasks : Parent[k] = job[s] /\ phase'[k] = "spawning"
    BY <1>1, <2>1 DEF Spawn, MayRun
  <2> QED BY <2>2, <2>3 DEF NotNested
<1>2. ASSUME NEW s \in Slaves, CallStep(s) PROVE FALSE
  <2> QED BY <1>2, CallsAt DEF FlatInv, SlaveInv, SlavePCs, CallPCs
<1> QED BY <1>1, <1>2 DEF Next, Threads

LEMMA FlatStep ==
  ASSUME FlatIInv, CountInv', [Next]_vars
  PROVE  FlatIInv'
<1>1. phase' \in [Tasks -> Phases] /\ (NotNested' => NotNested)
  BY StaysFlat DEF FlatIInv, NotNested
<1>2. ASSUME NotNested', FlatInv PROVE FlatInv'
  <2>1. CASE UNCHANGED vars
    BY <1>2, <2>1 DEF FlatInv, TypeOK, SlaveInv, MainInv, MainAt, LockInv, LockAt, Advising, Growing, OwnerInv,
       SizeInv, Live, Uncounted, vars, size, limits, ready, slaves, locks, thread, call, status
  <2>2. ASSUME NEW s \in Slaves, SlaveStep(s) PROVE FlatInv'
    BY <1>2, <2>2, SlaveFlat
  <2>3. ASSUME NEW m \in Mains, CallStep(m) PROVE FlatInv'
    <3>1. pc[m] \notin {"decide", "unmark"} /\ m \notin Slaves
      BY <1>2, AtMain, ThreadsApart DEF MainPCs, CallPCs
    <3>2. ~LockSlaves(m) /\ ~GrowForSlaves(m) /\ ~MarkWaiting(m) /\ ~UnmarkWaiting(m)
      BY <3>1 DEF LockSlaves, GrowForSlaves, MarkWaiting, UnmarkWaiting
    <3> QED BY <1>2, <2>3, <3>2, SelectFlat, NotReadyFlat, AdviseFlat, CountFlat, CreateFlat DEF CallStep
  <2>4. ASSUME NEW m \in Mains, \/ Spawn(m) \/ StartSync(m) \/ MainStep(m)
                                \/ SetMinPoolSize(m) \/ SetMaxPoolSize(m) \/ StartFinish(m)
        PROVE  FlatInv'
    BY <1>2, <2>4, SyncFlat, FinishFlat, SetFlat, PhasesFlat DEF MainStep
  <2> QED BY <1>2, <2>1, <2>2, <2>3, <2>4, FlatNext
<1> QED BY <1>1, <1>2 DEF FlatIInv

(* setup gives each of the first records one thread, which there is.       *)
Assigned(g) == \A i \in Workers : Cardinality({s \in Slaves : g[s] = i})
                                 = IF i < Processors THEN 1 ELSE 0
LEMMA ThreadsEnough == \E g \in [Slaves -> Workers \union {Nil}] : Assigned(g)
<1>1. /\ IsFiniteSet(Slaves) /\ Cardinality(Slaves) \in Nat
      /\ Processors \in 1 .. Records /\ Records \in Nat /\ Cardinality(Slaves) >= Processors
      /\ Nil \notin Workers
  BY PoolAssumption, FS_CardinalityType
<1> DEFINE N == Cardinality(Slaves)
<1>2. PICK f \in Bijection(1 .. N, Slaves) : TRUE
  BY <1>1, FS_CardinalityType DEF ExistsBijection
<1>3. /\ f \in [1 .. N -> Slaves]
      /\ \A a, b \in 1 .. N : f[a] = f[b] => a = b
      /\ \A s \in Slaves : \E j \in 1 .. N : f[j] = s
  BY <1>2 DEF Bijection, Injection, Surjection, IsInjective
<1> DEFINE g == [s \in Slaves |-> IF \E i \in 0 .. Processors - 1 : f[i + 1] = s
                                   THEN CHOOSE i \in 0 .. Processors - 1 : f[i + 1] = s ELSE Nil]
<1>4. \A s \in Slaves : \/ g[s] \in 0 .. Processors - 1 /\ f[g[s] + 1] = s
                        \/ g[s] = Nil /\ \A i \in 0 .. Processors - 1 : f[i + 1] # s
  OBVIOUS
<1>5. 0 .. Processors - 1 \subseteq Workers
  BY <1>1 DEF Workers
<1>6. g \in [Slaves -> Workers \union {Nil}]
  BY <1>4, <1>5
<1>7. ASSUME NEW i \in Workers
      PROVE  Cardinality({s \in Slaves : g[s] = i}) = IF i < Processors THEN 1 ELSE 0
  <2>1. CASE i < Processors
    <3>1. i \in 0 .. Processors - 1 /\ i + 1 \in 1 .. N
      BY <1>1, <2>1 DEF Workers
    <3>2. f[i + 1] \in Slaves
      BY <1>3, <3>1
    <3>3. g[f[i + 1]] = i
      <4>1. g[f[i + 1]] \in 0 .. Processors - 1 /\ f[g[f[i + 1]] + 1] = f[i + 1]
        BY <1>4, <3>1, <3>2
      <4>2. g[f[i + 1]] + 1 \in 1 .. N
        BY <1>1, <4>1
      <4>3. g[f[i + 1]] + 1 = i + 1
        BY <1>3, <3>1, <4>1, <4>2
      <4> HIDE DEF g
      <4> QED BY <3>1, <4>1, <4>3
    <3>4. \A s \in Slaves : g[s] = i => s = f[i + 1]
      BY <1>1, <1>4
    <3> HIDE DEF g
    <3>5. {s \in Slaves : g[s] = i} = {f[i + 1]}
      BY <3>2, <3>3, <3>4
    <3> QED BY <2>1, <3>5, FS_Singleton
  <2>2. CASE ~(i < Processors)
    <3> HIDE DEF g
    <3>1. \A s \in Slaves : g[s] # i
      BY <1>1, <1>4, <2>2 DEF Workers
    <3>2. {s \in Slaves : g[s] = i} = {}
      BY <3>1
    <3> QED BY <2>2, <3>2, FS_EmptySet
  <2> QED BY <2>1, <2>2
<1> QED BY <1>6, <1>7 DEF Assigned

LEMMA InitWorkers ==
  ASSUME Init
  PROVE  /\ worker \in [Slaves -> Workers \union {Nil}] /\ Assigned(worker)
         /\ Live = {s \in Slaves : worker[s] # Nil}
         /\ Cardinality(Live) <= Processors
         /\ \E s \in Live : worker[s] = 0
<1>1. worker = CHOOSE g \in [Slaves -> Workers \union {Nil}] : Assigned(g)
  BY DEF Init, Assigned
<1>2. worker \in [Slaves -> Workers \union {Nil}] /\ Assigned(worker)
  BY <1>1, ThreadsEnough
<1>3. Live = {s \in Slaves : worker[s] # Nil}
  <2>1. \A s \in Slaves : pc[s] = IF worker[s] = Nil THEN "off" ELSE "top"
    <3>1. pc = [t \in Threads |-> IF t \in Mains THEN "idle"
                                  ELSE IF worker[t] = Nil THEN "off" ELSE "top"]
      BY DEF Init
    <3> QED BY <3>1, ThreadsApart DEF Threads
  <2> QED BY <2>1 DEF Live
<1>4. /\ Processors \in 1 .. Records /\ Records \in Nat /\ Nil \notin Workers
  BY PoolAssumption
<1>5. ASSUME NEW i \in Workers, i < Processors
      PROVE  \E s \in Slaves : {r \in Slaves : worker[r] = i} = {s}
  <2>1. {r \in Slaves : worker[r] = i} \in SUBSET Slaves
    OBVIOUS
  <2>2. IsFiniteSet({r \in Slaves : worker[r] = i})
        /\ Cardinality({r \in Slaves : worker[r] = i}) = 1
    BY <1>2, <1>5, <2>1, SlavesFinite DEF Assigned
  <2>3. PICK s : {r \in Slaves : worker[r] = i} = {s}
    BY <2>2, FS_Singleton
  <2> QED BY <2>3
<1>6. ASSUME NEW s \in Live PROVE worker[s] \in 0 .. Processors - 1
  <2>1. worker[s] \in Workers
    BY <1>2, <1>3
  <2>2. CASE ~(worker[s] < Processors)
    <3>1. Cardinality({r \in Slaves : worker[r] = worker[s]}) = 0
      BY <1>2, <2>1, <2>2 DEF Assigned
    <3>2. {r \in Slaves : worker[r] = worker[s]} \in SUBSET Slaves
      OBVIOUS
    <3>3. {r \in Slaves : worker[r] = worker[s]} = {}
      BY <3>1, <3>2, SlavesFinite, FS_EmptySet
    <3> QED BY <1>3, <3>3
  <2> QED BY <1>4, <2>1, <2>2 DEF Workers
<1>7. Cardinality(Live) <= Processors
  <2> DEFINE g == [s \in Live |-> worker[s]]
  <2>1. \A s, r \in Live : worker[s] = worker[r] => s = r
    BY <1>3, <1>4, <1>5, <1>6, LiveFinite DEF Workers
  <2>2. g \in Injection(Live, 0 .. Processors - 1)
    BY <1>6, <2>1 DEF Injection, IsInjective
  <2>3. IsFiniteSet(0 .. Processors - 1) /\ Cardinality(0 .. Processors - 1) = Processors
    BY <1>4, FS_Interval
  <2>4. Cardinality(Live) <= Cardinality(0 .. Processors - 1)
    BY <2>2, <2>3, FS_Injection
  <2> QED BY <2>3, <2>4
<1>8. \E s \in Live : worker[s] = 0
  <2>1. PICK s \in Slaves : {r \in Slaves : worker[r] = 0} = {s}
    BY <1>4, <1>5 DEF Workers
  <2> QED BY <1>3, <1>4, <2>1 DEF Workers
<1> QED BY <1>2, <1>3, <1>7, <1>8

LEMMA InitFlat == Init => FlatIInv
<1> SUFFICES ASSUME Init PROVE FlatIInv
  OBVIOUS
<1>1. /\ worker \in [Slaves -> Workers \union {Nil}] /\ Cardinality(Live) <= Processors
      /\ Live = {s \in Slaves : worker[s] # Nil}
      /\ \E s \in Live : worker[s] = 0
  BY InitWorkers
<1>2. pc = [t \in Threads |-> IF t \in Mains THEN "idle"
                              ELSE IF worker[t] = Nil THEN "off" ELSE "top"]
  BY DEF Init
<1>3. /\ Records \in Nat /\ Processors \in 1 .. Records /\ MinPoolSize \in 1 .. Records
      /\ 0 \in Workers /\ QueueSize \in Nat
  BY PoolAssumption DEF Workers
<1>4. workersData \in [Workers -> WorkerRecord] /\ ~workersData[0].shutdown
  <2>1. workersData = [i \in Workers |->
       [ready |-> FALSE, initialized |-> i < Processors, shutdown |-> FALSE,
        f |-> "call", data |-> Nil, taskArrived |-> 0, taskStarted |-> 0, q |-> 0, empty |-> 0]]
    BY DEF Init
  <2> QED BY <1>3, <2>1 DEF WorkerRecord
<1>9. /\ currentPoolSize = Processors /\ minPoolSize = MinPoolSize /\ maxPoolSize = Records
      /\ gSomeReady = 0 /\ readyWorker = 0 /\ numSlavesRunning = 0 /\ numSlavesWaiting = 0
      /\ numSlavesLock = Nil /\ stateLock = Nil /\ job = [s \in Slaves |-> Nil]
      /\ task = [t \in Threads |-> Nil] /\ site = [t \in Threads |-> "ready"]
      /\ cur = [t \in Threads |-> 0] /\ upto = [t \in Threads |-> 0]
      /\ phase = [k \in Tasks |-> "new"] /\ owner = [k \in Tasks |-> Nil]
  BY DEF Init
<1>10. pc \in [Threads -> SlavePCs \union CallPCs \union MainPCs]
  BY <1>2 DEF SlavePCs, MainPCs
<1>5. TypeOK
  BY <1>1, <1>3, <1>4, <1>9, <1>10 DEF TypeOK, Sites
<1>6. SlaveInv /\ MainInv /\ LockInv /\ OwnerInv
  BY <1>1, <1>2, <1>9, ThreadsApart DEF SlaveInv, MainInv, MainAt, LockInv, LockAt, Advising, Growing, OwnerInv,
     SlavePCs, CallPCs, MainPCs, Threads
<1>7. SizeInv
  <2>1. Uncounted = 0
    BY <1>2 DEF Uncounted, Threads
  <2>2. currentPoolSize = Processors
    BY DEF Init
  <2> QED BY <1>1, <1>3, <1>4, <2>1, <2>2 DEF SizeInv
<1>8. phase \in [Tasks -> Phases]
  BY DEF Init, Phases
<1> QED BY <1>5, <1>6, <1>7, <1>8 DEF FlatInv, FlatIInv

(* As long as no task spawns, every variable has its type, and only records*)
(* that exist are touched, though the pool grows and shrinks meanwhile and *)
(* however many threads spawn.                                             *)
THEOREM PoolTyped == Spec => [](NotNested => TypeOK)
<1>1. Init => CountInv /\ FlatIInv
  BY InitCount, InitFlat
<1>2. CountInv /\ FlatIInv /\ [Next]_vars => (CountInv /\ FlatIInv)'
  BY StepCount, FlatStep
<1>3. FlatIInv => (NotNested => TypeOK)
  BY DEF FlatIInv, FlatInv
<1> QED BY <1>1, <1>2, <1>3, PTL DEF Spec

-----------------------------------------------------------------------------
(* Programs of which one thread spawns: the hand-over.                     *)

(* What a step of a worker s leaves alone.                                 *)
LEMMA SlaveFrame ==
  ASSUME FlatInv, NEW s \in Slaves, SlaveStep(s), NEW m \in Mains
  PROVE  /\ workersData \in [Workers -> WorkerRecord] /\ pc[s] \in SlavePCs
         /\ pc[s] # "off" => worker[s] \in Workers
         /\ pc \in [Threads -> SlavePCs \union CallPCs \union MainPCs]
         /\ s \in Threads /\ m \in Threads /\ Slaves \subseteq Threads
         /\ pc'[m] = pc[m] /\ UNCHANGED <<site, cur, upto, task>>
         /\ \A r \in Slaves \ {s} : pc'[r] = pc[r] /\ worker'[r] = worker[r] /\ job'[r] = job[r]
<1>1. s # m /\ Slaves \subseteq Threads /\ Mains \subseteq Threads
  BY ThreadsApart DEF Threads
<1>2. TypeOK /\ pc[s] \in SlavePCs /\ (pc[s] # "off" => worker[s] \in Workers)
  BY DEF FlatInv, SlaveInv
<1>3. \E p : pc' = [pc EXCEPT ![s] = p]
  BY DEF SlaveStep, Top, Exit, Announce, Arrived, EnterRunning, Wrapper, CleanFlowVars,
       FinishTask, LeaveRunning, Goto
<1>4. /\ UNCHANGED <<site, cur, upto, task>>
      /\ worker' = worker \/ \E w : worker' = [worker EXCEPT ![s] = w]
      /\ job' = job \/ \E j : job' = [job EXCEPT ![s] = j]
  BY DEF SlaveStep, Top, Exit, Announce, Arrived, EnterRunning, Wrapper, CleanFlowVars,
       FinishTask, LeaveRunning, call, thread
<1> QED BY <1>1, <1>2, <1>3, <1>4 DEF TypeOK

(* The part of a record that the hand-over uses.                           *)
SameHand(i) == /\ workersData'[i].taskArrived = workersData[i].taskArrived
               /\ workersData'[i].taskStarted = workersData[i].taskStarted
               /\ workersData'[i].empty = workersData[i].empty
SameTask(i) == /\ SameHand(i)
               /\ workersData'[i].f = workersData[i].f /\ workersData'[i].data = workersData[i].data

LEMMA HandoverSlave ==
  ASSUME FlatInv, NEW m \in Mains, NEW s \in Slaves, SlaveStep(s), HandoverInv(m)
  PROVE  HandoverInv(m)'
<1> USE SlaveFrame DEF Goto
<1>1. pc[m] \in {"started", "empty"} => cur[m] \in Workers
  BY AtMain
<1>2. CASE Top(s) \/ Exit(s) \/ Announce(s) \/ EnterRunning(s) \/ FinishTask(s) \/ LeaveRunning(s)
  <2>1. \A i \in Workers : SameTask(i)
    <3>1. CASE Top(s)
      <4>1. \/ workersData' = [workersData EXCEPT ![worker[s]].shutdown = FALSE]
            \/ workersData' = [workersData EXCEPT ![worker[s]].ready = TRUE]
        BY <3>1 DEF Top
      <4> QED BY <4>1 DEF WorkerRecord, SameTask, SameHand
    <3>2. CASE LeaveRunning(s)
      BY <3>2 DEF LeaveRunning, WorkerRecord, SameTask, SameHand
    <3>3. CASE Exit(s) \/ Announce(s) \/ EnterRunning(s) \/ FinishTask(s)
      BY <3>3 DEF Exit, Announce, EnterRunning, FinishTask, SameTask, SameHand
    <3> QED BY <1>2, <3>1, <3>2, <3>3
  <2>2. pc'[s] \in {"arrived", "wrap"} <=> pc[s] \in {"arrived", "wrap"}
    BY <1>2 DEF Top, Exit, Announce, EnterRunning, FinishTask, LeaveRunning
  <2>3. Receiving' = Receiving
    BY <2>2 DEF Receiving
  <2>4. pc[s] \in {"arrived", "wrap"} => worker'[s] = worker[s]
    BY <1>2 DEF Top, Exit, Announce, EnterRunning, FinishTask, LeaveRunning, thread
  <2>5. \A r \in Receiving : worker'[r] = worker[r]
    BY <2>4 DEF Receiving
  <2> QED BY <1>1, <2>1, <2>3, <2>5 DEF HandoverInv, Calm, SameTask, SameHand
<1>3. CASE Arrived(s)
  <2>1. pc[s] = "waitTask" /\ pc'[s] = "arrived" /\ worker' = worker /\ worker[s] \in Workers
        /\ workersData' = [workersData EXCEPT ![worker[s]].taskArrived = @ - 1]
        /\ workersData[worker[s]].taskArrived > 0
    BY <1>3 DEF Arrived, thread
  <2>2. ~Calm(worker[s])
    BY <2>1 DEF Calm
  <2>3. pc[m] \in {"started", "empty"} /\ worker[s] = cur[m]
    BY <2>1, <2>2 DEF HandoverInv
  <2>4. /\ Receiving = {} /\ workersData[cur[m]].taskArrived = 1
        /\ workersData[cur[m]].taskStarted = 0 /\ workersData[cur[m]].empty = 0
    BY <2>1, <2>3 DEF HandoverInv
  <2>5. Receiving' = {s}
    BY <2>1, <2>4 DEF Receiving
  <2>6. \A i \in Workers \ {cur[m]} : SameTask(i)
    BY <2>1, <2>3 DEF SameTask, SameHand, WorkerRecord
  <2>7. /\ workersData'[cur[m]].taskArrived = 0 /\ workersData'[cur[m]].taskStarted = 0
        /\ workersData'[cur[m]].empty = 0 /\ workersData'[cur[m]].f = workersData[cur[m]].f
        /\ workersData'[cur[m]].data = workersData[cur[m]].data
    BY <2>1, <2>3, <2>4 DEF WorkerRecord
  <2> QED BY <1>1, <2>1, <2>3, <2>5, <2>6, <2>7 DEF HandoverInv, Calm, SameTask, SameHand
<1>4. CASE Wrapper(s) \/ CleanFlowVars(s)
  <2>1. s \in Receiving /\ worker[s] \in Workers /\ worker' = worker
    BY <1>4 DEF Wrapper, CleanFlowVars, Receiving, thread
  <2>2. pc[m] \in {"started", "empty"} /\ worker[s] = cur[m] /\ Receiving = {s}
        /\ workersData[cur[m]].taskArrived = 0 /\ workersData[cur[m]].taskStarted = 0
        /\ workersData[cur[m]].empty = 0
    BY <2>1 DEF HandoverInv
  <2>3. Receiving' = {}
    <3>1. pc'[s] \in {"body", "leave"}
      BY <1>4 DEF Wrapper, CleanFlowVars
    <3> QED BY <2>2, <3>1 DEF Receiving
  <2>4. CASE Wrapper(s)
    <3>1. workersData' = [workersData EXCEPT ![cur[m]].taskStarted = @ + 1] /\ workersData[cur[m]].f = "call"
      BY <2>2, <2>4 DEF Wrapper
    <3>2. pc[m] = "started"
      BY <2>2, <3>1 DEF HandoverInv
    <3>3. \A i \in Workers \ {cur[m]} : SameTask(i)
      BY <3>1, <1>1, <2>2 DEF SameTask, SameHand, WorkerRecord
    <3>4. /\ workersData'[cur[m]].taskArrived = 0 /\ workersData'[cur[m]].taskStarted = 1
          /\ workersData'[cur[m]].empty = 0 /\ workersData'[cur[m]].f = workersData[cur[m]].f
          /\ workersData'[cur[m]].data = workersData[cur[m]].data
      BY <1>1, <2>2, <3>1 DEF WorkerRecord
    <3> QED BY <1>1, <2>2, <2>3, <3>2, <3>3, <3>4 DEF HandoverInv, Calm, SameTask, SameHand
  <2>5. CASE CleanFlowVars(s)
    <3>1. workersData' = [workersData EXCEPT ![cur[m]].q = 0, ![cur[m]].empty = @ + 1]
          /\ workersData[cur[m]].f = "clean"
      BY <2>2, <2>5 DEF CleanFlowVars
    <3>2. pc[m] = "empty"
      BY <2>2, <3>1 DEF HandoverInv
    <3>3. \A i \in Workers \ {cur[m]} : SameTask(i)
      BY <3>1, <1>1, <2>2 DEF SameTask, SameHand, WorkerRecord
    <3>4. /\ workersData'[cur[m]].taskArrived = 0 /\ workersData'[cur[m]].taskStarted = 0
          /\ workersData'[cur[m]].empty = 1 /\ workersData'[cur[m]].f = workersData[cur[m]].f
      BY <1>1, <2>2, <3>1 DEF WorkerRecord
    <3> QED BY <1>1, <2>2, <2>3, <3>2, <3>3, <3>4 DEF HandoverInv, Calm, SameTask, SameHand
  <2> QED BY <1>4, <2>4, <2>5
<1> QED BY <1>2, <1>3, <1>4 DEF SlaveStep

(* What a step of a worker does to the records.                            *)
LEMMA SlaveRecords ==
  ASSUME FlatInv, NEW s \in Slaves, SlaveStep(s), NEW i \in Workers
  PROVE  /\ workersData'[i].ready = IF Top(s) /\ ~workersData[worker[s]].shutdown /\ i = worker[s]
                                    THEN TRUE ELSE workersData[i].ready
         /\ ~Arrived(s) => workersData'[i].taskArrived = workersData[i].taskArrived
         /\ ~Wrapper(s) => workersData'[i].taskStarted = workersData[i].taskStarted
<1>1. workersData \in [Workers -> WorkerRecord] /\ (pc[s] # "off" => worker[s] \in Workers)
  BY DEF FlatInv, TypeOK, SlaveInv
<1>2. CASE Top(s)
  <2>1. worker[s] \in Workers /\ pc[s] = "top"
    BY <1>1, <1>2 DEF Top
  <2>2. CASE workersData[worker[s]].shutdown
    <3>1. workersData' = [workersData EXCEPT ![worker[s]].shutdown = FALSE]
      BY <1>2, <2>2 DEF Top
    <3> QED BY <1>1, <2>1, <2>2, <3>1 DEF WorkerRecord
  <2>3. CASE ~workersData[worker[s]].shutdown
    <3>1. workersData' = [workersData EXCEPT ![worker[s]].ready = TRUE]
      BY <1>2, <2>3 DEF Top
    <3> QED BY <1>1, <1>2, <2>1, <2>3, <3>1 DEF WorkerRecord
  <2> QED BY <2>2, <2>3
<1>3. CASE Arrived(s)
  <2>1. ~Top(s)
    BY <1>3 DEF Top, Arrived
  <2> QED BY <1>1, <1>3, <2>1 DEF Arrived, WorkerRecord
<1>4. CASE Wrapper(s)
  <2>1. ~Top(s)
    BY <1>4 DEF Top, Wrapper
  <2> QED BY <1>1, <1>4, <2>1 DEF Wrapper, WorkerRecord
<1>5. CASE CleanFlowVars(s)
  <2>1. ~Top(s)
    BY <1>5 DEF Top, CleanFlowVars
  <2>2. workersData' = [workersData EXCEPT ![worker[s]].q = 0, ![worker[s]].empty = @ + 1]
    BY <1>5 DEF CleanFlowVars
  <2> QED BY <1>1, <2>1, <2>2 DEF WorkerRecord
<1>6. CASE LeaveRunning(s)
  <2>1. ~Top(s)
    BY <1>6 DEF Top, LeaveRunning
  <2> QED BY <1>1, <1>6, <2>1 DEF LeaveRunning, WorkerRecord
<1>7. CASE Exit(s) \/ Announce(s) \/ EnterRunning(s) \/ FinishTask(s)
  <2>1. ~Top(s)
    BY <1>7 DEF Top, Exit, Announce, EnterRunning, FinishTask
  <2> QED BY <1>7, <2>1 DEF Exit, Announce, EnterRunning, FinishTask
<1> QED BY <1>2, <1>3, <1>4, <1>5, <1>6, <1>7 DEF SlaveStep

(* A wrapper is about to run the task that the spawner hands over.         *)
LEMMA WrapperFinds ==
  ASSUME FlatInv, NEW m \in Mains, NEW s \in Slaves, SlaveStep(s), HandoverInv(m), Wrapper(s)
  PROVE  /\ pc[m] = "started" /\ worker[s] = cur[m] /\ cur[m] \in Workers
         /\ workersData[cur[m]].data = task[m] /\ task[m] \in Tasks
         /\ workersData[cur[m]].taskStarted = 0 /\ workersData'[cur[m]].taskStarted = 1
         /\ phase' = [phase EXCEPT ![task[m]] = "running"] /\ job' = [job EXCEPT ![s] = task[m]]
         /\ pc'[s] = "body"
<1> USE SlaveFrame DEF Goto
<1>1. s \in Receiving /\ worker[s] \in Workers /\ workersData[worker[s]].f = "call"
  BY DEF Wrapper, Receiving
<1>2. pc[m] = "started" /\ worker[s] = cur[m] /\ workersData[cur[m]].data = task[m]
      /\ workersData[cur[m]].taskStarted = 0
  BY <1>1 DEF HandoverInv, Calm
<1>3. cur[m] \in Workers /\ task[m] \in Tasks
  BY <1>2, AtMain DEF CallPCs
<1>4. workersData' = [workersData EXCEPT ![cur[m]].taskStarted = @ + 1]
  BY <1>2 DEF Wrapper
<1>5. workersData'[cur[m]].taskStarted = 1
  BY <1>2, <1>3, <1>4 DEF WorkerRecord
<1> QED BY <1>2, <1>3, <1>5 DEF Wrapper

LEMMA PhaseSlave ==
  ASSUME FlatInv, NEW m \in Mains, NEW s \in Slaves, SlaveStep(s), HandoverInv(m), PhaseInv(m)
  PROVE  PhaseInv(m)'
<1> USE SlaveFrame DEF Goto
<1>1. phase \in [Tasks -> Phases] /\ job \in [Slaves -> Tasks \union {Nil}]
  BY DEF FlatInv, TypeOK, Phases
<1>2. CASE Wrapper(s)
  <2>0. pc[s] # "body"
    BY <1>2 DEF Wrapper
  <2>2. ~InHand(m)'
    BY <1>2, WrapperFinds DEF InHand, CallPCs
  <2>3. InHand(m)
    BY <1>2, WrapperFinds DEF InHand
  <2>1. phase[task[m]] = "spawning"
    BY <1>2, <2>3, WrapperFinds DEF PhaseInv
  <2>4. /\ phase' = [phase EXCEPT ![task[m]] = "running"] /\ job' = [job EXCEPT ![s] = task[m]]
        /\ pc'[s] = "body" /\ task[m] \in Tasks
    BY <1>2, WrapperFinds
  <2>5. \A k \in Tasks : phase'[k] = "spawning" <=> InHand(m)' /\ task'[m] = k
    BY <1>1, <2>2, <2>3, <2>4 DEF PhaseInv
  <2>6. \A k \in Tasks : phase'[k] = "running" => \E r \in Slaves : pc'[r] = "body" /\ job'[r] = k
    BY <1>1, <2>0, <2>4 DEF PhaseInv
  <2>7. \A r \in Slaves : pc'[r] = "body" => phase'[job'[r]] \notin {"new", "spawning"}
    BY <1>1, <2>4 DEF PhaseInv
  <2> QED BY <2>5, <2>6, <2>7 DEF PhaseInv
<1>3. ASSUME ~Wrapper(s) PROVE InHand(m)' <=> InHand(m)
  <2>1. CASE pc[m] = "started"
    <3>1. cur[m] \in Workers
      BY <2>1, AtMain
    <3>2. workersData'[cur[m]].taskStarted = workersData[cur[m]].taskStarted
      BY <1>3, <3>1, SlaveRecords
    <3> QED BY <3>2 DEF InHand
  <2>2. CASE pc[m] # "started"
    BY <2>2 DEF InHand
  <2> QED BY <2>1, <2>2
<1>4. CASE FinishTask(s)
  <2>1. ~Wrapper(s) /\ job[s] \in Tasks
    BY <1>4 DEF FinishTask, Wrapper, FlatInv, SlaveInv
  <2>3. phase' = [phase EXCEPT ![job[s]] = "done"]
    BY <1>4 DEF FinishTask
  <2>4. InHand(m) => task[m] # job[s]
    <3>1. phase[job[s]] # "spawning"
      BY <1>4 DEF FinishTask, PhaseInv
    <3> QED BY <2>1, <3>1 DEF PhaseInv
  <2> QED BY <1>1, <1>3, <1>4, <2>1, <2>3, <2>4 DEF PhaseInv, FinishTask
<1>5. CASE Top(s) \/ Exit(s) \/ Announce(s) \/ Arrived(s) \/ EnterRunning(s) \/ CleanFlowVars(s)
           \/ LeaveRunning(s)
  <2>1. phase' = phase /\ job' = job /\ pc[s] # "body" /\ pc'[s] # "body" /\ ~Wrapper(s)
    BY <1>5 DEF Top, Exit, Announce, Arrived, EnterRunning, CleanFlowVars, LeaveRunning, status, thread, Wrapper
  <2> QED BY <1>3, <2>1 DEF PhaseInv
<1> QED BY <1>2, <1>4, <1>5 DEF SlaveStep

LEMMA TokenSlave ==
  ASSUME FlatInv, FlatInv', NEW m \in Mains, NEW s \in Slaves, SlaveStep(s), TokenInv(m)
  PROVE  TokenInv(m)'
<1> USE SlaveFrame DEF Goto
<1>1. currentPoolSize' <= currentPoolSize /\ currentPoolSize \in Nat /\ currentPoolSize' \in Nat
  BY DEF FlatInv, TypeOK, SlaveStep, Top, Exit, Announce, Arrived, EnterRunning, Wrapper, CleanFlowVars,
     FinishTask, LeaveRunning, size
<1>2. \A i : Looks(m, i)' <=> Looks(m, i)
  BY DEF Looks
<1>3. upto[m] \in Nat
  BY DEF FlatInv, TypeOK
<1>4. pc'[m] = "select" /\ site'[m] = "scan" => currentPoolSize' <= upto'[m]
  BY <1>1, <1>3 DEF TokenInv
<1>5. CASE Announce(s)
  <2>1. gSomeReady' = gSomeReady + 1 /\ gSomeReady \in Nat
    BY <1>5 DEF Announce, Signalled, FlatInv, TypeOK
  <2> QED BY <1>4, <2>1 DEF TokenInv
<1>6. CASE ~Announce(s)
  <2>1. gSomeReady' = gSomeReady /\ pc[s] # "announce"
    BY <1>6 DEF SlaveStep, Top, Exit, Announce, Arrived, EnterRunning, Wrapper, CleanFlowVars,
       FinishTask, LeaveRunning, ready
  <2>2. ASSUME NEW i \in Workers, StandsReady(i)' PROVE StandsReady(i)
    <3>1. i < currentPoolSize
      BY <1>1, <2>2 DEF StandsReady, Workers
    <3>2. \A r \in Slaves : worker[r] = i => pc[r] # "announce"
      BY <2>1, <2>2 DEF StandsReady
    <3>3. workersData[i].ready
      <4>1. CASE Top(s)
        <5>1. ~(pc'[s] = "announce" /\ worker[s] = i)
          BY <2>2, <4>1 DEF StandsReady, Top, thread
        <5> QED BY <2>2, <4>1, <5>1 DEF StandsReady, Top, WorkerRecord
      <4>2. CASE ~Top(s)
        BY <2>2, <4>2, SlaveRecords DEF StandsReady
      <4> QED BY <4>1, <4>2
    <3> QED BY <3>1, <3>2, <3>3 DEF StandsReady
  <2> QED BY <1>2, <1>4, <2>1, <2>2 DEF TokenInv
<1> QED BY <1>5, <1>6

LEMMA WaitSlave ==
  ASSUME FlatInv, NEW m \in Mains, NEW s \in Slaves, SlaveStep(s), HandoverInv(m), WaitInv(m)
  PROVE  WaitInv(m)'
<1> USE SlaveFrame DEF Goto
<1>1. CASE Top(s) /\ ~workersData[worker[s]].shutdown
  <2>1. /\ workersData' = [workersData EXCEPT ![worker[s]].ready = TRUE] /\ worker' = worker
        /\ pc'[s] = "announce" /\ pc[s] = "top" /\ worker[s] \in Workers
    BY <1>1 DEF Top, thread
  <2>2. ASSUME NEW i \in Workers PROVE /\ workersData'[i].taskArrived = workersData[i].taskArrived
                                      /\ workersData'[i].ready = (workersData[i].ready \/ i = worker[s])
    BY <2>1 DEF WorkerRecord
  <2>3. \A i : Waiters(i)' = IF i = worker[s] THEN Waiters(i) \union {s} ELSE Waiters(i)
    BY <2>1 DEF Waiters
  <2>4. \A i : s \notin Waiters(i)
    BY <2>1 DEF Waiters
  <2>5. \A i \in Workers : Handed(m, i)' <=> Handed(m, i)
    BY <2>2 DEF Handed
  <2>6. ASSUME NEW i \in Workers, workersData'[i].ready \/ Handed(m, i)' PROVE Waiters(i)' # {}
    BY <2>2, <2>3, <2>5, <2>6 DEF WaitInv
  <2>7. ASSUME NEW i \in Workers, workersData'[i].ready, Handed(m, i)'
        PROVE  \E s1, s2 \in Waiters(i)' : s1 # s2
    <3>1. CASE i = worker[s]
      <4>1. PICK r \in Waiters(i) : r # s
        BY <2>4, <2>5, <2>7 DEF WaitInv
      <4> QED BY <2>3, <3>1, <4>1
    <3>2. CASE i # worker[s]
      BY <2>2, <2>3, <2>5, <2>7, <3>2 DEF WaitInv
    <3> QED BY <3>1, <3>2
  <2> QED BY <2>6, <2>7 DEF WaitInv
<1>2. CASE Arrived(s)
  <2>1. /\ workersData' = [workersData EXCEPT ![worker[s]].taskArrived = @ - 1] /\ worker' = worker
        /\ pc'[s] = "arrived" /\ pc[s] = "waitTask" /\ worker[s] \in Workers
        /\ workersData[worker[s]].taskArrived > 0
    BY <1>2 DEF Arrived, thread
  <2>2. pc[m] # "hand" /\ workersData[worker[s]].taskArrived = 1
    BY <2>1 DEF HandoverInv, Calm
  <2>3. \A i \in Workers : workersData'[i].ready = workersData[i].ready
        /\ workersData'[i].taskArrived = IF i = worker[s] THEN 0 ELSE workersData[i].taskArrived
    BY <2>1, <2>2 DEF WorkerRecord
  <2>4. \A i : Waiters(i)' = IF i = worker[s] THEN Waiters(i) \ {s} ELSE Waiters(i)
    BY <2>1 DEF Waiters
  <2>5. \A i \in Workers : Handed(m, i)' <=> Handed(m, i) /\ i # worker[s]
    BY <2>2, <2>3 DEF Handed
  <2>6. Handed(m, worker[s])
    BY <2>1 DEF Handed
  <2> QED BY <2>1, <2>3, <2>4, <2>5, <2>6 DEF WaitInv
<1>3. CASE ~(Top(s) /\ ~workersData[worker[s]].shutdown) /\ ~Arrived(s)
  <2>1. \A i \in Workers : workersData'[i].ready = workersData[i].ready
                          /\ workersData'[i].taskArrived = workersData[i].taskArrived
    BY <1>3, SlaveRecords
  <2>2. pc'[s] \in {"announce", "waitTask"} <=> pc[s] \in {"announce", "waitTask"}
    BY <1>3 DEF SlaveStep, Top, Exit, Announce, EnterRunning, Wrapper, CleanFlowVars, FinishTask, LeaveRunning
  <2>3. pc[s] \in {"announce", "waitTask"} => worker'[s] = worker[s]
    BY <1>3 DEF SlaveStep, Top, Exit, Announce, EnterRunning, Wrapper, CleanFlowVars, FinishTask, LeaveRunning, thread
  <2>4. \A i : Waiters(i)' = Waiters(i)
    BY <2>2, <2>3 DEF Waiters
  <2>5. \A i \in Workers : Handed(m, i)' <=> Handed(m, i)
    BY <2>1 DEF Handed
  <2> QED BY <2>1, <2>4, <2>5 DEF WaitInv
<1> QED BY <1>1, <1>2, <1>3

LEMMA SyncSlave ==
  ASSUME FlatInv, NEW m \in Mains, NEW s \in Slaves, SlaveStep(s), SyncInv(m)
  PROVE  SyncInv(m)'
<1> USE SlaveFrame DEF Goto
<1>1. currentPoolSize' <= currentPoolSize /\ currentPoolSize \in Nat /\ currentPoolSize' \in Int
      /\ upto[m] \in Nat
  BY DEF FlatInv, TypeOK, SlaveStep, Top, Exit, Announce, Arrived, EnterRunning, Wrapper, CleanFlowVars,
     FinishTask, LeaveRunning, size
<1>2. \A i \in Workers : workersData[i].ready => workersData'[i].ready
  BY SlaveRecords
<1> QED BY <1>1, <1>2 DEF SyncInv

(* What the spawner's steps leave alone.                                   *)
SpawnerStep(m) == \/ Spawn(m) \/ CallStep(m) \/ StartSync(m) \/ MainStep(m)
                  \/ SetMinPoolSize(m) \/ SetMaxPoolSize(m) \/ StartFinish(m)
Quiet(m) == ~(Hand(m) \/ Started(m) \/ Wakeup(m) \/ Emptied(m) \/ Create(m))

LEMMA OtherCalls ==
  ASSUME FlatInv, NEW m \in Mains
  PROVE  ~LockSlaves(m) /\ ~GrowForSlaves(m) /\ ~MarkWaiting(m) /\ ~UnmarkWaiting(m)
<1>1. pc[m] \notin {"decide", "unmark"} /\ m \notin Slaves
  BY AtMain, ThreadsApart DEF MainPCs, CallPCs
<1> QED BY <1>1 DEF LockSlaves, GrowForSlaves, MarkWaiting, UnmarkWaiting

LEMMA MainFrame ==
  ASSUME FlatInv, NEW m \in Mains, SpawnerStep(m), ~Create(m)
  PROVE  /\ \A s \in Slaves : pc'[s] = pc[s]
         /\ UNCHANGED <<worker, job>>
         /\ Receiving' = Receiving /\ \A i : Waiters(i)' = Waiters(i)
<1> USE DEF Goto
<1>1. UNCHANGED <<worker, job>>
  <2>1. CASE CallStep(m)
    BY <2>1 DEF CallStep, Select, Hand, Started, NotReady, Advise, Min, FollowAdvice, Count,
       NotASlave, LockSlaves, GrowForSlaves, MarkWaiting, Unblock, UnmarkWaiting, thread
  <2>2. CASE ~CallStep(m)
    BY <2>2 DEF SpawnerStep, Spawn, StartSync, MainStep, SyncLook, SyncReturn, Finish, QueueFull, Wakeup,
       Emptied, SetMinPoolSize, SetMaxPoolSize, StartFinish, thread
  <2> QED BY <2>1, <2>2
<1>2. pc' = pc \/ \E p : pc' = [pc EXCEPT ![m] = p]
  <2>1. CASE NotReady(m)
    <3>1. site[m] \in Sites
      BY AtMain
    <3> QED BY <2>1, <3>1 DEF NotReady, LoopFrom, Sites
  <2>2. CASE CallStep(m) /\ ~NotReady(m)
    BY <2>2 DEF CallStep, Select, Hand, Started, Advise, Min, FollowAdvice, Count, Grow, Round,
       NotASlave, LockSlaves, GrowForSlaves, MarkWaiting, Unblock, UnmarkWaiting
  <2>3. CASE ~CallStep(m)
    BY <2>3 DEF SpawnerStep, Spawn, Round, StartSync, MainStep, SyncLook, SyncReturn, Finish, QueueFull, Wakeup,
       Emptied, SetMinPoolSize, SetMaxPoolSize, StartFinish
  <2> QED BY <2>1, <2>2, <2>3
<1>3. m \notin Slaves /\ Slaves \subseteq Threads
  BY ThreadsApart DEF Threads
<1>4. \A s \in Slaves : pc'[s] = pc[s]
  BY <1>2, <1>3 DEF FlatInv, TypeOK
<1> QED BY <1>1, <1>4 DEF Receiving, Waiters

LEMMA MainRecords ==
  ASSUME FlatInv, NEW m \in Mains, SpawnerStep(m), NEW i \in Workers
  PROVE  /\ Quiet(m) => SameHand(i)
         /\ ~Select(m) /\ ~Wakeup(m) => workersData'[i].ready = workersData[i].ready
<1>1. workersData \in [Workers -> WorkerRecord]
  BY DEF FlatInv, TypeOK
<1>2. CASE Select(m) \/ Finish(m)
  <2>1. cur[m] \in Workers
    BY <1>2, AtMain DEF Select, Finish
  <2>2. CASE Select(m)
    BY <1>1, <2>1, <2>2 DEF Select, SameHand, WorkerRecord
  <2>3. CASE Finish(m)
    BY <1>1, <2>1, <2>3 DEF Finish, SameHand, WorkerRecord
  <2> QED BY <1>2, <2>2, <2>3
<1>3. CASE Started(m) \/ Emptied(m)
  BY <1>1, <1>3 DEF Started, Emptied, WorkerRecord, Quiet
<1>4. CASE Hand(m)
  <2>1. workersData' = [workersData EXCEPT ![cur[m]].data = task[m], ![cur[m]].f = "call",
                                           ![cur[m]].taskArrived = @ + 1]
    BY <1>4 DEF Hand
  <2> QED BY <1>1, <1>4, <2>1 DEF WorkerRecord, Quiet
<1>5. CASE Create(m)
  <2>1. workersData' = [workersData EXCEPT
          ![currentPoolSize].initialized = TRUE, ![currentPoolSize].taskArrived = 0,
          ![currentPoolSize].taskStarted = 0, ![currentPoolSize].empty = 0]
    BY <1>5 DEF Create
  <2>2. workersData'[i].ready = workersData[i].ready
    BY <1>1, <2>1 DEF WorkerRecord
  <2> QED BY <1>5, <2>2 DEF Quiet
<1>6. CASE FollowAdvice(m)
  <2>1. CASE workersData' = workersData
    BY <2>1 DEF SameHand
  <2>2. CASE workersData' = [workersData EXCEPT ![currentPoolSize - 1].shutdown = TRUE]
    BY <1>1, <2>2 DEF SameHand, WorkerRecord
  <2> QED BY <1>6, <2>1, <2>2 DEF FollowAdvice
<1>7. CASE SetMaxPoolSize(m)
  <2>1. \E n : workersData' = [j \in Workers |->
            [workersData[j] EXCEPT !.shutdown = @ \/ j \in n .. currentPoolSize - 1]]
    BY <1>7 DEF SetMaxPoolSize
  <2> QED BY <1>1, <2>1 DEF SameHand, WorkerRecord
<1>8. CASE ~(Select(m) \/ Finish(m) \/ Started(m) \/ Emptied(m) \/ Hand(m) \/ Create(m) \/ FollowAdvice(m)
             \/ SetMaxPoolSize(m) \/ Wakeup(m))
  <2>1. workersData' = workersData
    <3>1. CASE CallStep(m)
      BY <1>8, <3>1 DEF CallStep, NotReady, Advise, Min, Count, NotASlave, LockSlaves, GrowForSlaves,
         MarkWaiting, Unblock, UnmarkWaiting
    <3>2. CASE ~CallStep(m)
      BY <1>8, <3>2 DEF SpawnerStep, Spawn, StartSync, MainStep, SyncLook, SyncReturn, QueueFull,
         SetMinPoolSize, StartFinish
    <3> QED BY <3>1, <3>2
  <2> QED BY <2>1 DEF SameHand
<1> QED BY <1>2, <1>3, <1>4, <1>5, <1>6, <1>7, <1>8 DEF Quiet

LEMMA QuietPc ==
  ASSUME FlatInv, NEW m \in Mains, SpawnerStep(m), Quiet(m)
  PROVE  pc[m] \notin {"started", "empty"} /\ pc'[m] \notin {"started", "empty"}
<1> USE DEF Goto
<1>1. m \in Threads /\ pc \in [Threads -> SlavePCs \union CallPCs \union MainPCs] /\ site[m] \in Sites
  BY AtMain
<1>2. CASE NotReady(m)
  BY <1>1, <1>2 DEF NotReady, LoopFrom, Sites
<1>3. CASE CallStep(m) /\ ~NotReady(m)
  BY <1>1, <1>3 DEF Quiet, CallStep, Select, Advise, Min, FollowAdvice, Count, Grow, Round,
     NotASlave, LockSlaves, GrowForSlaves, MarkWaiting, Unblock, UnmarkWaiting
<1>4. CASE ~CallStep(m)
  BY <1>1, <1>4 DEF Quiet, SpawnerStep, Spawn, Idle, Round, StartSync, MainStep, SyncLook, SyncReturn, Finish,
     QueueFull, SetMinPoolSize, SetMaxPoolSize, StartFinish
<1> QED BY <1>2, <1>3, <1>4

LEMMA HandoverMain ==
  ASSUME FlatInv, NEW m \in Mains, SpawnerStep(m), HandoverInv(m)
  PROVE  HandoverInv(m)'
<1> USE DEF Goto
<1>1. m \in Threads /\ pc \in [Threads -> SlavePCs \union CallPCs \union MainPCs]
      /\ workersData \in [Workers -> WorkerRecord]
      /\ (pc[m] \in {"hand", "started", "wakeup", "empty"} => cur[m] \in Workers)
      /\ (pc[m] \in CallPCs => task[m] \in Tasks)
  BY AtMain
<1>2. CASE Quiet(m)
  <2>1. Receiving' = Receiving
    BY <1>2, MainFrame DEF Quiet
  <2>2. \A i \in Workers : SameHand(i)
    BY <1>2, MainRecords
  <2> QED BY <1>2, <2>1, <2>2, QuietPc DEF HandoverInv, Calm, SameHand
<1>3. CASE Hand(m) \/ Wakeup(m)
  <2>1. /\ pc[m] \in {"hand", "wakeup"} /\ cur[m] \in Workers /\ UNCHANGED <<cur, task>>
        /\ pc' = [pc EXCEPT ![m] = IF Hand(m) THEN "started" ELSE "empty"]
    BY <1>1, <1>3 DEF Hand, Wakeup, call
  <2>2. ~Create(m) /\ Receiving = {} /\ \A i \in Workers : Calm(i)
    BY <2>1 DEF HandoverInv, Create
  <2>3. Receiving' = {}
    BY <2>2, MainFrame
  <2>4. \A i \in Workers \ {cur[m]} : Calm(i)'
    BY <1>1, <1>3, <2>1, <2>2 DEF Hand, Wakeup, Calm
  <2>5. CASE Hand(m)
    <3>1. workersData' = [workersData EXCEPT ![cur[m]].data = task[m], ![cur[m]].f = "call",
                                             ![cur[m]].taskArrived = @ + 1]
      BY <2>5 DEF Hand
    <3>2. /\ workersData'[cur[m]].taskArrived = 1 /\ workersData'[cur[m]].taskStarted = 0
          /\ workersData'[cur[m]].empty = 0 /\ workersData'[cur[m]].f = "call"
          /\ workersData'[cur[m]].data = task[m]
      BY <1>1, <2>1, <2>2, <3>1 DEF WorkerRecord, Calm
    <3>3. pc'[m] = "started"
      BY <1>1, <2>1, <2>5
    <3> QED BY <2>1, <2>3, <2>4, <3>2, <3>3 DEF HandoverInv
  <2>6. CASE ~Hand(m)
    <3>1. workersData' = [workersData EXCEPT
            ![cur[m]].ready = FALSE, ![cur[m]].data = Nil, ![cur[m]].f = "clean",
            ![cur[m]].taskArrived = @ + 1]
      BY <1>3, <2>6 DEF Wakeup
    <3>2. /\ workersData'[cur[m]].taskArrived = 1 /\ workersData'[cur[m]].taskStarted = 0
          /\ workersData'[cur[m]].empty = 0 /\ workersData'[cur[m]].f = "clean"
      BY <1>1, <2>1, <2>2, <3>1 DEF WorkerRecord, Calm
    <3>3. pc'[m] = "empty"
      BY <1>1, <2>1, <2>6
    <3> QED BY <2>1, <2>3, <2>4, <3>2, <3>3 DEF HandoverInv
  <2> QED BY <2>5, <2>6
<1>4. CASE Started(m) \/ Emptied(m)
  <2>1. pc[m] \in {"started", "empty"} /\ cur[m] \in Workers /\ UNCHANGED cur
        /\ pc'[m] \notin {"started", "empty"}
    BY <1>1, <1>4 DEF Started, Emptied, Idle, call
  <2>2. Receiving = {} /\ workersData[cur[m]].taskArrived = 0
        /\ workersData[cur[m]].taskStarted + workersData[cur[m]].empty = 1
        /\ (Started(m) => workersData[cur[m]].taskStarted = 1 /\ workersData[cur[m]].empty = 0)
        /\ (Emptied(m) => workersData[cur[m]].taskStarted = 0 /\ workersData[cur[m]].empty = 1)
    <3>1. workersData[cur[m]].taskStarted \in Nat /\ workersData[cur[m]].empty \in Nat
      BY <1>1, <2>1 DEF WorkerRecord
    <3>2. CASE Started(m)
      <4>1. ~Emptied(m) /\ pc[m] = "started" /\ workersData[cur[m]].taskStarted > 0
        BY <3>2 DEF Started, Emptied
      <4> QED BY <3>1, <3>2, <4>1 DEF HandoverInv
    <3>3. CASE Emptied(m)
      <4>1. ~Started(m) /\ pc[m] = "empty" /\ workersData[cur[m]].empty > 0
        BY <3>3 DEF Started, Emptied
      <4> QED BY <3>1, <3>3, <4>1 DEF HandoverInv
    <3> QED BY <1>4, <3>2, <3>3
  <2>3. ~Create(m) /\ \A i \in Workers \ {cur[m]} : Calm(i)
    BY <2>1 DEF HandoverInv, Create
  <2>4. Receiving' = {}
    BY <2>2, <2>3, MainFrame
  <2>5. \A i \in Workers : Calm(i)'
    BY <1>1, <1>4, <2>1, <2>2, <2>3 DEF Started, Emptied, Calm, WorkerRecord
  <2> QED BY <2>1, <2>4, <2>5 DEF HandoverInv
<1>5. CASE Create(m)
  <2>1. PICK s \in Slaves : pc[s] = "off" /\ pc' = [pc EXCEPT ![s] = "top", ![m] = "count"]
    BY <1>5 DEF Create
  <2>2. Slaves \subseteq Threads /\ m \notin Slaves
    BY ThreadsApart DEF Threads
  <2>3. Receiving' = Receiving /\ pc'[m] = "count" /\ pc[m] = "create"
    BY <1>1, <1>5, <2>1, <2>2 DEF Receiving, Create
  <2>4. workersData' = [workersData EXCEPT
          ![currentPoolSize].initialized = TRUE, ![currentPoolSize].taskArrived = 0,
          ![currentPoolSize].taskStarted = 0, ![currentPoolSize].empty = 0]
    BY <1>5 DEF Create
  <2>5. \A i \in Workers : Calm(i)'
    BY <1>1, <2>3, <2>4 DEF HandoverInv, Calm, WorkerRecord
  <2> QED BY <2>3, <2>5 DEF HandoverInv
<1> QED BY <1>2, <1>3, <1>4, <1>5 DEF Quiet

LEMMA PhaseMain ==
  ASSUME FlatInv, NEW m \in Mains, SpawnerStep(m), HandoverInv(m), PhaseInv(m)
  PROVE  PhaseInv(m)'
<1> USE DEF Goto
<1>1. m \in Threads /\ pc \in [Threads -> SlavePCs \union CallPCs \union MainPCs]
      /\ task \in [Threads -> Tasks \union {Nil}] /\ site[m] \in Sites
      /\ (pc[m] \in {"hand", "started", "wakeup", "empty"} => cur[m] \in Workers)
      /\ workersData \in [Workers -> WorkerRecord]
      /\ phase \in [Tasks -> Phases] /\ job \in [Slaves -> Tasks \union {Nil}]
  BY AtMain DEF FlatInv, TypeOK, Phases
<1>2. \A s \in Slaves : (pc'[s] = "body" <=> pc[s] = "body") /\ job'[s] = job[s]
  <2>1. CASE Create(m)
    <3>1. PICK s \in Slaves : pc[s] = "off" /\ pc' = [pc EXCEPT ![s] = "top", ![m] = "count"]
      BY <2>1 DEF Create
    <3>2. Slaves \subseteq Threads /\ m \notin Slaves /\ job' = job
      BY <2>1, ThreadsApart DEF Threads, Create
    <3> QED BY <1>1, <3>1, <3>2
  <2>2. CASE ~Create(m)
    BY <2>2, MainFrame
  <2> QED BY <2>1, <2>2
<1>3. CASE Spawn(m)
  <2>1. PICK k \in Tasks : /\ phase[k] = "new" /\ task' = [task EXCEPT ![m] = k]
                          /\ phase' = [phase EXCEPT ![k] = "spawning"]
    BY <1>3 DEF Spawn
  <2>2. pc[m] = "idle" /\ pc'[m] = "select"
    BY <1>1, <1>3 DEF Spawn, Idle, Round
  <2>3. ~InHand(m) /\ InHand(m)'
    BY <2>2 DEF InHand, CallPCs
  <2>4. \A l \in Tasks : phase[l] # "spawning"
    BY <2>3 DEF PhaseInv
  <2>5. \A s \in Slaves : pc[s] = "body" => job[s] # k
    BY <2>1 DEF PhaseInv
  <2> QED BY <1>1, <1>2, <2>1, <2>3, <2>4, <2>5 DEF PhaseInv
<1>4. CASE StartFinish(m)
  <2>1. PICK k \in Tasks : phase[k] = "done" /\ phase' = [phase EXCEPT ![k] = "finished"]
    BY <1>4, PoolAssumption DEF StartFinish
  <2>2. ~InHand(m) /\ ~InHand(m)'
    BY <1>1, <1>4 DEF StartFinish, InHand, CallPCs
  <2> QED BY <1>1, <1>2, <2>1, <2>2 DEF PhaseInv
<1>5. CASE ~Spawn(m) /\ ~StartFinish(m)
  <2>1. phase' = phase /\ task' = task
    <3>1. CASE NotReady(m)
      BY <3>1 DEF NotReady, status
    <3>2. CASE CallStep(m) /\ ~NotReady(m)
      BY <3>2 DEF CallStep, Select, Hand, Started, Advise, Min, FollowAdvice, Create, Count,
         NotASlave, LockSlaves, GrowForSlaves, MarkWaiting, Unblock, UnmarkWaiting, call, status
    <3>3. CASE ~CallStep(m)
      BY <1>5, <3>3 DEF SpawnerStep, StartSync, MainStep, SyncLook, SyncReturn, Finish, QueueFull, Wakeup,
         Emptied, SetMinPoolSize, SetMaxPoolSize, call, status
    <3> QED BY <3>1, <3>2, <3>3
  <2>2. InHand(m)' <=> InHand(m)
    <3>1. CASE Started(m)
      BY <1>1, <3>1 DEF Started, Idle, InHand, CallPCs
    <3>2. CASE Hand(m)
      <4>1. pc[m] = "hand" /\ pc'[m] = "started" /\ cur' = cur /\ cur[m] \in Workers
        BY <1>1, <3>2 DEF Hand, call
      <4>2. workersData[cur[m]].taskStarted = 0
        BY <4>1 DEF HandoverInv, Calm
      <4>3. workersData'[cur[m]].taskStarted = workersData[cur[m]].taskStarted
        BY <1>1, <3>2, <4>1 DEF Hand, WorkerRecord
      <4> QED BY <4>1, <4>2, <4>3 DEF InHand, CallPCs
    <3>3. CASE NotReady(m)
      BY <1>1, <3>3 DEF NotReady, LoopFrom, Sites, InHand, CallPCs
    <3>4. CASE CallStep(m) /\ ~NotReady(m) /\ ~Hand(m) /\ ~Started(m)
      <4>1. pc[m] \in CallPCs \ {"started"} /\ pc'[m] \in CallPCs \ {"started"}
        <5>1. CASE Create(m)
          <6>1. PICK s \in Slaves : pc' = [pc EXCEPT ![s] = "top", ![m] = "count"]
            BY <5>1 DEF Create
          <6> QED BY <1>1, <5>1, <6>1, ThreadsApart DEF Create, CallPCs
        <5>2. CASE ~Create(m)
          BY <1>1, <3>4, <5>2, OtherCalls DEF CallStep, Select, Advise, Min, FollowAdvice, Count, Grow, Round,
             NotASlave, Unblock, CallPCs
        <5> QED BY <5>1, <5>2
      <4> QED BY <4>1 DEF InHand
    <3>5. CASE ~CallStep(m)
      <4>1. pc[m] \in MainPCs /\ pc'[m] \in MainPCs
        BY <1>1, <1>5, <3>5 DEF SpawnerStep, StartSync, MainStep, SyncLook, SyncReturn, Finish, QueueFull, Wakeup,
           Emptied, SetMinPoolSize, SetMaxPoolSize, MainPCs
      <4> QED BY <4>1 DEF InHand, MainPCs, CallPCs
    <3> QED BY <3>1, <3>2, <3>3, <3>4, <3>5
  <2> QED BY <1>2, <2>1, <2>2 DEF PhaseInv
<1> QED BY <1>3, <1>4, <1>5

LEMMA SyncMain ==
  ASSUME FlatInv, NEW m \in Mains, SpawnerStep(m), SyncInv(m)
  PROVE  SyncInv(m)'
<1> USE DEF Goto
<1>1. /\ m \in Threads /\ pc \in [Threads -> SlavePCs \union CallPCs \union MainPCs] /\ site[m] \in Sites
      /\ cur \in [Threads -> 0 .. Records] /\ upto \in [Threads -> 0 .. Records]
      /\ currentPoolSize \in 0 .. Records
  BY AtMain
<1>2. CASE StartSync(m)
  <2>1. cur'[m] = 0 /\ upto'[m] = currentPoolSize /\ currentPoolSize' = currentPoolSize
    BY <1>1, <1>2 DEF StartSync, size
  <2> QED BY <1>1, <2>1 DEF SyncInv, Workers
<1>3. CASE SyncLook(m)
  <2>1. pc[m] = "sync" /\ workersData' = workersData /\ currentPoolSize' = currentPoolSize
        /\ cur[m] < upto[m] /\ cur[m] \in 0 .. Records /\ upto[m] \in 0 .. Records
    BY <1>1, <1>3 DEF SyncLook, size
  <2>2. CASE workersData[cur[m]].ready
    <3>1. cur'[m] = cur[m] + 1 /\ upto'[m] = upto[m]
      BY <1>1, <1>3, <2>2 DEF SyncLook
    <3>2. \A i \in Workers : i < cur[m] + 1 => i < cur[m] \/ i = cur[m]
      BY <2>1 DEF Workers
    <3> QED BY <2>1, <2>2, <3>1, <3>2 DEF SyncInv
  <2>3. CASE ~workersData[cur[m]].ready
    <3>1. cur'[m] = 0 /\ upto'[m] = currentPoolSize
      BY <1>1, <1>3, <2>3 DEF SyncLook
    <3> QED BY <1>1, <2>1, <3>1 DEF SyncInv, Workers
  <2> QED BY <2>2, <2>3
<1>4. CASE SetMinPoolSize(m) \/ SetMaxPoolSize(m)
  <2>1. pc'[m] # "sync"
    BY <1>4 DEF SetMinPoolSize, SetMaxPoolSize
  <2> QED BY <2>1 DEF SyncInv
<1>5. CASE ~(StartSync(m) \/ SyncLook(m) \/ SetMinPoolSize(m) \/ SetMaxPoolSize(m))
  <2>1. pc'[m] # "sync"
    <3>1. CASE NotReady(m)
      BY <1>1, <3>1 DEF NotReady, LoopFrom, Sites
    <3>2. CASE Create(m)
      <4>1. PICK s \in Slaves : pc' = [pc EXCEPT ![s] = "top", ![m] = "count"]
        BY <3>2 DEF Create
      <4> QED BY <1>1, <4>1
    <3>3. CASE CallStep(m) /\ ~NotReady(m) /\ ~Create(m)
      BY <1>1, <3>3 DEF CallStep, Select, Hand, Started, Idle, Advise, Min, FollowAdvice, Count, Grow, Round,
         NotASlave, LockSlaves, GrowForSlaves, MarkWaiting, Unblock, UnmarkWaiting
    <3>4. CASE ~CallStep(m)
      BY <1>1, <1>5, <3>4 DEF SpawnerStep, Spawn, Round, MainStep, SyncReturn, Finish, QueueFull, Wakeup,
         Emptied, StartFinish
    <3> QED BY <3>1, <3>2, <3>3, <3>4
  <2> QED BY <2>1 DEF SyncInv
<1> QED BY <1>2, <1>3, <1>4, <1>5

(* The spawner makes no worker ready; its pool may come to cover one.      *)
LEMMA ReadyMain ==
  ASSUME FlatInv, NEW m \in Mains, SpawnerStep(m), NEW i \in Workers, StandsReady(i)'
  PROVE  StandsReady(i) \/ (Count(m) /\ i = currentPoolSize)
<1> USE DEF Goto
<1>1. currentPoolSize \in Nat /\ m \in Threads /\ workersData \in [Workers -> WorkerRecord]
      /\ cur[m] \in 0 .. Records /\ pc \in [Threads -> SlavePCs \union CallPCs \union MainPCs]
  BY AtMain
<1>2. currentPoolSize' = IF Count(m) THEN currentPoolSize + 1 ELSE currentPoolSize
  <2>1. CASE CallStep(m)
    BY <2>1 DEF CallStep, Select, Hand, Started, NotReady, Advise, Min, FollowAdvice, Create, Count,
       NotASlave, LockSlaves, GrowForSlaves, MarkWaiting, Unblock, UnmarkWaiting, size
  <2>2. CASE ~CallStep(m)
    BY <2>2 DEF SpawnerStep, Spawn, StartSync, MainStep, SyncLook, SyncReturn, Finish, QueueFull, Wakeup,
       Emptied, SetMinPoolSize, SetMaxPoolSize, StartFinish, size, CallStep
  <2> QED BY <2>1, <2>2
<1>3. workersData[i].ready
  <2>1. CASE Select(m) \/ Wakeup(m)
    <3>1. cur[m] \in Workers
      BY <2>1, AtMain DEF Select, Wakeup
    <3>2. CASE Select(m)
      BY <1>1, <3>1, <3>2 DEF Select, StandsReady, WorkerRecord
    <3>3. CASE Wakeup(m)
      <4>1. workersData' = [workersData EXCEPT
              ![cur[m]].ready = FALSE, ![cur[m]].data = Nil, ![cur[m]].f = "clean",
              ![cur[m]].taskArrived = @ + 1]
        BY <3>3 DEF Wakeup
      <4>2. workersData'[i].ready => workersData[i].ready
        BY <1>1, <3>1, <4>1 DEF WorkerRecord
      <4> QED BY <4>2 DEF StandsReady
    <3> QED BY <2>1, <3>2, <3>3
  <2>2. CASE ~(Select(m) \/ Wakeup(m))
    BY <2>2, MainRecords DEF StandsReady
  <2> QED BY <2>1, <2>2
<1>4. \A s \in Slaves : worker[s] = i => pc[s] # "announce"
  <2>1. CASE Create(m)
    <3>1. PICK s \in Slaves : /\ pc[s] = "off" /\ pc' = [pc EXCEPT ![s] = "top", ![m] = "count"]
                              /\ worker' = [worker EXCEPT ![s] = currentPoolSize]
      BY <2>1 DEF Create
    <3>2. \A r \in Slaves \ {s} : pc'[r] = pc[r] /\ worker'[r] = worker[r]
      BY <1>1, <3>1, ThreadsApart DEF Threads, FlatInv, TypeOK
    <3> QED BY <3>1, <3>2 DEF StandsReady
  <2>2. CASE ~Create(m)
    BY <2>2, MainFrame DEF StandsReady
  <2> QED BY <2>1, <2>2
<1> QED BY <1>1, <1>2, <1>3, <1>4 DEF StandsReady, Workers

LEMMA TokenMain ==
  ASSUME FlatInv, NEW m \in Mains, SpawnerStep(m), TokenInv(m)
  PROVE  TokenInv(m)'
<1> USE DEF Goto
<1>1. /\ m \in Threads /\ pc \in [Threads -> SlavePCs \union CallPCs \union MainPCs] /\ site[m] \in Sites
      /\ site \in [Threads -> Sites]
      /\ cur \in [Threads -> 0 .. Records] /\ upto \in [Threads -> 0 .. Records]
      /\ currentPoolSize \in 0 .. Records /\ Records \in Nat
  BY AtMain
<1>2. CASE Count(m)
  <2>1. pc[m] = "count" /\ pc'[m] = "select" /\ site'[m] = site[m] /\ site[m] \in {"min", "advice"}
        /\ cur'[m] = currentPoolSize /\ gSomeReady' = gSomeReady
    BY <1>1, <1>2, AtMain DEF Count, Growing, ready
  <2>2. \A i : ~Looks(m, i)
    BY <2>1 DEF Looks, CallPCs
  <2>3. \A i \in Workers : StandsReady(i)' => gSomeReady' > 0 \/ Looks(m, i)'
    <3>1. ASSUME NEW i \in Workers, StandsReady(i)' PROVE gSomeReady' > 0 \/ Looks(m, i)'
      <4>1. CASE StandsReady(i)
        BY <2>1, <2>2, <4>1 DEF TokenInv
      <4>2. CASE i = currentPoolSize
        BY <2>1, <4>2 DEF Looks
      <4> QED BY <3>1, <4>1, <4>2, ReadyMain
    <3> QED BY <3>1
  <2> QED BY <2>1, <2>3 DEF TokenInv
<1>3. ASSUME ~Count(m) PROVE \A i \in Workers : StandsReady(i)' => StandsReady(i)
  BY <1>3, ReadyMain
<1>4. CASE NotReady(m)
  <2>1. pc[m] = "select" /\ ~workersData[cur[m]].ready /\ UNCHANGED <<currentPoolSize, gSomeReady>> /\ ~Count(m)
    BY <1>4 DEF NotReady, Count, size, ready
  <2>2. \A i \in Workers : StandsReady(i)' => gSomeReady > 0 \/ (Looks(m, i) /\ i < currentPoolSize /\ i # cur[m])
    BY <1>3, <2>1 DEF TokenInv, StandsReady
  <2>3. CASE site[m] = "ready"
    <3>1. upto'[m] = currentPoolSize /\ site'[m] = "scan"
          /\ IF 0 < currentPoolSize THEN cur'[m] = 0 /\ pc'[m] = "select" ELSE pc'[m] = "advise"
      BY <1>1, <1>4, <2>3 DEF NotReady, LoopFrom
    <3>2. ASSUME NEW i \in Workers, i < currentPoolSize PROVE Looks(m, i)'
      BY <1>1, <3>1, <3>2 DEF Looks, Workers
    <3> QED BY <1>1, <2>1, <2>2, <3>1, <3>2 DEF TokenInv
  <2>4. CASE site[m] = "scan"
    <3>1. upto'[m] = upto[m] /\ site'[m] = "scan" /\ currentPoolSize <= upto[m]
          /\ IF cur[m] + 1 < upto[m] THEN cur'[m] = cur[m] + 1 /\ pc'[m] = "select" ELSE pc'[m] = "advise"
      BY <1>1, <1>4, <2>1, <2>4 DEF NotReady, LoopFrom, TokenInv
    <3>2. ASSUME NEW i \in Workers, Looks(m, i), i < currentPoolSize, i # cur[m] PROVE Looks(m, i)'
      <4>1. cur[m] <= i
        BY <2>1, <2>4, <3>2 DEF Looks, CallPCs
      <4>2. cur[m] + 1 <= i /\ i < upto[m] /\ cur[m] \in Nat /\ upto[m] \in Nat
        BY <1>1, <3>1, <3>2, <4>1 DEF Workers
      <4>3. pc'[m] = "select" /\ cur'[m] = cur[m] + 1
        BY <3>1, <4>2, <3>2 DEF Workers
      <4> QED BY <3>1, <4>2, <4>3 DEF Looks
    <3> QED BY <1>1, <2>1, <2>2, <3>1, <3>2 DEF TokenInv
  <2>5. CASE site[m] \notin {"ready", "scan"}
    <3>1. \A i \in Workers : Looks(m, i) => i = cur[m]
      BY <1>1, <2>1, <2>5 DEF Looks, CallPCs, Sites
    <3>2. pc'[m] # "select"
      BY <1>1, <1>4, <2>5 DEF NotReady, Sites
    <3> QED BY <2>1, <2>2, <3>1, <3>2 DEF TokenInv
  <2> QED BY <2>3, <2>4, <2>5
<1>5. CASE Spawn(m) \/ Unblock(m)
  <2>1. pc'[m] = "select" /\ site'[m] = "ready"
    BY <1>1, <1>5, ThreadsApart DEF Spawn, Unblock, Round
  <2> QED BY <2>1 DEF TokenInv, Looks
<1>6. CASE Select(m) \/ Hand(m) \/ Started(m)
  <2>1. pc'[m] \in {"hand", "started", "idle"}
    BY <1>1, <1>6 DEF Select, Hand, Started, Idle
  <2> QED BY <2>1 DEF TokenInv, Looks, CallPCs
<1>7. CASE Advise(m) \/ Min(m) \/ FollowAdvice(m) \/ Create(m) \/ NotASlave(m)
  <2>1. pc[m] \in CallPCs \ {"select", "hand", "started"} /\ pc'[m] # "select" /\ gSomeReady' = gSomeReady
        /\ ~Count(m)
    <3>1. CASE Create(m)
      <4>1. PICK s \in Slaves : pc' = [pc EXCEPT ![s] = "top", ![m] = "count"]
        BY <3>1 DEF Create
      <4> QED BY <1>1, <3>1, <4>1 DEF Create, CallPCs, ready, Count
    <3>2. CASE ~Create(m)
      BY <1>1, <1>7, <3>2 DEF Advise, Min, FollowAdvice, Grow, NotASlave, CallPCs, ready, Count
    <3> QED BY <3>1, <3>2
  <2>2. \A i : ~Looks(m, i)
    BY <2>1 DEF Looks
  <2>3. \A i \in Workers : StandsReady(i) => gSomeReady > 0
    BY <2>2 DEF TokenInv
  <2> QED BY <1>3, <2>1, <2>3 DEF TokenInv
<1>8. CASE ~CallStep(m) /\ ~Spawn(m)
  <2>1. pc'[m] \in MainPCs
    BY <1>1, <1>8 DEF SpawnerStep, StartSync, MainStep, SyncLook, SyncReturn, Finish, QueueFull, Wakeup,
       Emptied, SetMinPoolSize, SetMaxPoolSize, StartFinish, MainPCs
  <2>2. pc'[m] \notin CallPCs
    BY <2>1 DEF MainPCs, CallPCs
  <2>3. \A i : Looks(m, i)'
    BY <2>2 DEF Looks
  <2> QED BY <2>2, <2>3 DEF TokenInv, CallPCs
<1> QED BY <1>2, <1>4, <1>5, <1>6, <1>7, <1>8, OtherCalls DEF SpawnerStep, CallStep

LEMMA WaitMain ==
  ASSUME FlatInv, NEW m \in Mains, SpawnerStep(m), HandoverInv(m), WaitInv(m)
  PROVE  WaitInv(m)'
<1> USE DEF Goto
<1>1. /\ m \in Threads /\ pc \in [Threads -> SlavePCs \union CallPCs \union MainPCs] /\ site[m] \in Sites
      /\ (pc[m] \in {"select", "hand", "wakeup", "started", "empty"} => cur[m] \in Workers)
      /\ workersData \in [Workers -> WorkerRecord]
  BY AtMain
<1>2. \A i \in Workers : Waiters(i)' = Waiters(i)
  <2>1. CASE Create(m)
    <3>1. PICK s \in Slaves : /\ pc[s] = "off" /\ pc' = [pc EXCEPT ![s] = "top", ![m] = "count"]
                              /\ worker' = [worker EXCEPT ![s] = currentPoolSize]
      BY <2>1 DEF Create
    <3>2. \A r \in Slaves \ {s} : pc'[r] = pc[r] /\ worker'[r] = worker[r]
      BY <1>1, <3>1, ThreadsApart DEF Threads, FlatInv, TypeOK
    <3>3. pc'[s] = "top"
      BY <1>1, <3>1, ThreadsApart DEF Threads
    <3> QED BY <3>1, <3>2, <3>3 DEF Waiters
  <2>2. CASE ~Create(m)
    BY <2>2, MainFrame
  <2> QED BY <2>1, <2>2
<1>3. CASE Select(m)
  <2>1. /\ pc[m] = "select" /\ pc'[m] = "hand" /\ cur' = cur /\ cur[m] \in Workers
        /\ workersData[cur[m]].ready /\ workersData' = [workersData EXCEPT ![cur[m]].ready = FALSE]
    BY <1>1, <1>3 DEF Select, call
  <2>2. \A i \in Workers : /\ workersData'[i].taskArrived = workersData[i].taskArrived
                          /\ workersData'[i].ready = (workersData[i].ready /\ i # cur[m])
    BY <1>1, <2>1 DEF WorkerRecord
  <2>3. \A i \in Workers : Handed(m, i)' <=> Handed(m, i) \/ i = cur[m]
    BY <2>1, <2>2 DEF Handed
  <2>4. Waiters(cur[m]) # {}
    BY <2>1 DEF WaitInv
  <2>5. ASSUME NEW i \in Workers \ {cur[m]}
        PROVE  (workersData'[i].ready <=> workersData[i].ready) /\ (Handed(m, i)' <=> Handed(m, i))
    BY <2>2, <2>3
  <2>6. ~workersData'[cur[m]].ready
    BY <2>1, <2>2
  <2> QED BY <1>2, <2>1, <2>4, <2>5, <2>6 DEF WaitInv
<1>4. CASE Wakeup(m)
  <2>1. /\ pc[m] = "wakeup" /\ pc'[m] = "empty" /\ cur[m] \in Workers /\ workersData[cur[m]].ready
        /\ workersData' = [workersData EXCEPT
              ![cur[m]].ready = FALSE, ![cur[m]].data = Nil, ![cur[m]].f = "clean",
              ![cur[m]].taskArrived = @ + 1]
    BY <1>1, <1>4 DEF Wakeup
  <2>2. \A i \in Workers \ {cur[m]} : /\ workersData'[i].taskArrived = workersData[i].taskArrived
                                     /\ workersData'[i].ready = workersData[i].ready
    BY <1>1, <2>1 DEF WorkerRecord
  <2>3. ~workersData'[cur[m]].ready
    BY <1>1, <2>1 DEF WorkerRecord
  <2>4. \A i \in Workers \ {cur[m]} : Handed(m, i)' <=> Handed(m, i)
    BY <2>1, <2>2 DEF Handed
  <2>5. Waiters(cur[m]) # {}
    BY <2>1 DEF WaitInv
  <2>6. ASSUME NEW i \in Workers \ {cur[m]}
        PROVE  (workersData'[i].ready <=> workersData[i].ready) /\ (Handed(m, i)' <=> Handed(m, i))
    BY <2>2, <2>4
  <2>7. cur[m] \in Workers
    BY <2>1
  <2> QED BY <1>2, <2>3, <2>5, <2>6, <2>7 DEF WaitInv
<1>5. CASE ~Select(m) /\ ~Wakeup(m)
  <2>1. \A i \in Workers : workersData'[i].ready = workersData[i].ready
    BY <1>5, MainRecords
  <2>2. \A i \in Workers : Handed(m, i)' => Handed(m, i)
    <3>1. CASE Hand(m)
      <4>1. workersData' = [workersData EXCEPT ![cur[m]].data = task[m], ![cur[m]].f = "call",
                                               ![cur[m]].taskArrived = @ + 1]
        BY <3>1 DEF Hand
      <4>2. pc[m] = "hand" /\ pc'[m] = "started" /\ cur[m] \in Workers
        BY <1>1, <3>1 DEF Hand
      <4>3. \A i \in Workers \ {cur[m]} : workersData'[i].taskArrived = workersData[i].taskArrived
        BY <1>1, <4>1, <4>2 DEF WorkerRecord
      <4> QED BY <4>2, <4>3 DEF Handed
    <3>2. CASE Create(m)
      <4>1. PICK s \in Slaves : pc' = [pc EXCEPT ![s] = "top", ![m] = "count"]
        BY <3>2 DEF Create
      <4>2. pc'[m] = "count"
        BY <1>1, <4>1
      <4>3. workersData' = [workersData EXCEPT
              ![currentPoolSize].initialized = TRUE, ![currentPoolSize].taskArrived = 0,
              ![currentPoolSize].taskStarted = 0, ![currentPoolSize].empty = 0]
        BY <3>2 DEF Create
      <4>4. \A i \in Workers : workersData'[i].taskArrived > 0 => workersData[i].taskArrived > 0
        BY <1>1, <4>3 DEF WorkerRecord
      <4> QED BY <4>2, <4>4 DEF Handed
    <3>3. CASE Started(m) \/ Emptied(m)
      <4>1. pc'[m] # "hand" /\ cur[m] \in Workers
        BY <1>1, <3>3 DEF Started, Emptied, Idle
      <4>2. \A i \in Workers : workersData'[i].taskArrived = workersData[i].taskArrived
        BY <1>1, <3>3, <4>1 DEF Started, Emptied, WorkerRecord
      <4> QED BY <4>1, <4>2 DEF Handed
    <3>4. CASE Quiet(m)
      <4>1. pc'[m] # "hand"
        <5>1. CASE NotReady(m)
          BY <1>1, <5>1 DEF NotReady, LoopFrom, Sites
        <5>2. CASE CallStep(m) /\ ~NotReady(m)
          BY <1>1, <1>5, <3>4, <5>2 DEF Quiet, CallStep, Advise, Min, FollowAdvice, Count, Grow, Round,
             NotASlave, LockSlaves, GrowForSlaves, MarkWaiting, Unblock, UnmarkWaiting
        <5>3. CASE ~CallStep(m)
          BY <1>1, <5>3 DEF SpawnerStep, Spawn, Round, StartSync, MainStep, SyncLook, SyncReturn, Finish,
             QueueFull, Wakeup, Emptied, SetMinPoolSize, SetMaxPoolSize, StartFinish
        <5> QED BY <5>1, <5>2, <5>3
      <4> QED BY <3>4, <4>1, MainRecords DEF Handed, SameHand
    <3> QED BY <1>5, <3>1, <3>2, <3>3, <3>4 DEF Quiet
  <2> QED BY <1>2, <2>1, <2>2 DEF WaitInv
<1> QED BY <1>3, <1>4, <1>5

-----------------------------------------------------------------------------
(* What follows for the programs of which one thread spawns.               *)
AloneIInv == /\ CountInv /\ FlatIInv
             /\ NotNested => \A m \in Mains : AloneInv(m)

LEMMA InitAlone == Init => AloneIInv
<1> SUFFICES ASSUME Init PROVE AloneIInv
  OBVIOUS
<1>1. CountInv /\ FlatIInv
  BY InitCount, InitFlat
<1>2. /\ \A m \in Mains : pc[m] = "idle"
      /\ \A s \in Slaves : pc[s] \in {"top", "off"}
  <2>1. pc = [t \in Threads |-> IF t \in Mains THEN "idle"
                                ELSE IF worker[t] = Nil THEN "off" ELSE "top"]
    BY DEF Init
  <2> QED BY <2>1, ThreadsApart DEF Threads
<1>3. \A i \in Workers : Calm(i) /\ ~workersData[i].ready /\ workersData[i].taskArrived = 0
  <2>1. workersData = [i \in Workers |->
       [ready |-> FALSE, initialized |-> i < Processors, shutdown |-> FALSE,
        f |-> "call", data |-> Nil, taskArrived |-> 0, taskStarted |-> 0, q |-> 0, empty |-> 0]]
    BY DEF Init
  <2> QED BY <2>1 DEF Calm
<1>4. phase = [k \in Tasks |-> "new"]
  BY DEF Init
<1>5. ASSUME NEW m \in Mains PROVE AloneInv(m)
  <2>1. HandoverInv(m)
    BY <1>2, <1>3 DEF HandoverInv, Receiving
  <2>2. PhaseInv(m)
    BY <1>2, <1>4 DEF PhaseInv, InHand, CallPCs
  <2>3. TokenInv(m) /\ WaitInv(m) /\ SyncInv(m)
    BY <1>2, <1>3 DEF TokenInv, StandsReady, WaitInv, Handed, SyncInv
  <2> QED BY <2>1, <2>2, <2>3 DEF AloneInv
<1> QED BY <1>1, <1>5 DEF AloneIInv

LEMMA AloneStep ==
  ASSUME OneSpawner, AloneIInv, [Next]_vars
  PROVE  AloneIInv'
<1>1. CountInv' /\ FlatIInv' /\ (NotNested' => NotNested)
  BY StepCount, FlatStep, StaysFlat DEF AloneIInv, FlatIInv, NotNested
<1>2. ASSUME NotNested', NEW m \in Mains PROVE AloneInv(m)'
  <2>1. FlatInv /\ FlatInv' /\ AloneInv(m)
    BY <1>1, <1>2 DEF AloneIInv, FlatIInv
  <2>2. CASE UNCHANGED vars
    BY <2>1, <2>2 DEF AloneInv, HandoverInv, Receiving, Calm, PhaseInv, InHand, TokenInv, StandsReady, Looks,
       WaitInv, Handed, Waiters, SyncInv, vars, size, ready, thread, call, status
  <2>3. ASSUME NEW s \in Slaves, SlaveStep(s) PROVE AloneInv(m)'
    BY <2>1, <2>3, HandoverSlave, PhaseSlave, TokenSlave, WaitSlave, SyncSlave DEF AloneInv
  <2>4. ASSUME NEW n \in Mains, SpawnerStep(n) PROVE AloneInv(m)'
    <3>1. n = m
      BY DEF OneSpawner
    <3> QED BY <2>1, <2>4, <3>1, HandoverMain, PhaseMain, TokenMain, WaitMain, SyncMain DEF AloneInv
  <2> QED BY <1>2, <2>1, <2>2, <2>3, <2>4, FlatNext DEF SpawnerStep
<1> QED BY <1>1, <1>2 DEF AloneIInv

(* With one spawner the step invariant says this, while no task spawns.    *)
LEMMA AloneNow ==
  ASSUME OneSpawner, AloneIInv, NotNested
  PROVE  \E m \in Mains : Mains = {m} /\ FlatInv /\ AloneInv(m)
BY DEF OneSpawner, AloneIInv, FlatIInv

(* The arguments of a task lie on the stack of its spawner: the wrapper    *)
(* that is about to copy them (spawn.nim, createWrapperProc) finds in its  *)
(* record the task of a thread that still waits for taskStarted.           *)
THEOREM ArgumentsWaitedFor ==
  ASSUME OneSpawner
  PROVE  Spec => []ArgumentsAlive
<1>1. AloneIInv => ArgumentsAlive
  <2> SUFFICES ASSUME AloneIInv, NotNested, NEW s \in Slaves, pc[s] \in {"arrived", "wrap"},
                      workersData[worker[s]].f = "call"
               PROVE  \E t \in Threads : /\ pc[t] = "started" /\ cur[t] = worker[s]
                                         /\ workersData[worker[s]].data = task[t]
    BY DEF ArgumentsAlive
  <2>1. PICK m \in Mains : FlatInv /\ HandoverInv(m)
    BY AloneNow DEF AloneInv
  <2>2. s \in Receiving
    BY DEF Receiving
  <2>3. worker[s] = cur[m] /\ pc[m] = "started" /\ workersData[cur[m]].data = task[m]
    BY <2>1, <2>2 DEF HandoverInv
  <2> QED BY <2>3 DEF Threads
<1> QED BY <1>1, InitAlone, AloneStep, PTL DEF Spec

(* A spawn returns when its own task has started, and a task starts once.  *)
THEOREM SpawnsItsOwn ==
  ASSUME OneSpawner
  PROVE  Spec => StartedIfAlone
<1>1. AloneIInv /\ [Next]_vars => [NotNested' => OwnStart]_vars
  <2> SUFFICES ASSUME AloneIInv, Next, NotNested' PROVE OwnStart
    BY DEF OwnStart
  <2>1. NotNested
    BY StaysFlat DEF AloneIInv, FlatIInv, NotNested
  <2>2. PICK m \in Mains : Mains = {m} /\ FlatInv /\ AloneInv(m)
    BY <2>1, AloneNow
  <2>3. CASE \E s \in Slaves : SlaveStep(s)
    <3>1. PICK s \in Slaves : SlaveStep(s)
      BY <2>3
    <3>2. \A t \in Threads : pc[t] = "started" => pc'[t] = "started"
      <4>1. \A t \in Slaves : pc[t] # "started"
        BY <2>2 DEF FlatInv, SlaveInv, SlavePCs
      <4> QED BY <2>2, <3>1, <4>1, SlaveFrame DEF Threads
    <3>3. ASSUME NEW k \in Tasks, phase'[k] = "running" PROVE phase[k] \in {"spawning", "running"}
      <4>0. phase \in [Tasks -> Phases]
        BY <2>2 DEF FlatInv, TypeOK, Phases
      <4>1. CASE Wrapper(s)
        <5>1. phase' = [phase EXCEPT ![task[m]] = "running"] /\ task[m] \in Tasks
              /\ pc[m] = "started" /\ workersData[cur[m]].taskStarted = 0
          BY <2>2, <3>1, <4>1, WrapperFinds DEF AloneInv
        <5>2. phase[task[m]] = "spawning"
          BY <2>2, <5>1 DEF AloneInv, PhaseInv, InHand
        <5> QED BY <3>3, <4>0, <5>1, <5>2
      <4>2. CASE ~Wrapper(s)
        BY <3>1, <3>3, <4>0, <4>2 DEF SlaveStep, Top, Exit, Announce, Arrived, EnterRunning, CleanFlowVars,
           FinishTask, LeaveRunning, status
      <4> QED BY <4>1, <4>2
    <3> QED BY <3>2, <3>3 DEF OwnStart
  <2>4. CASE SpawnerStep(m)
    <3>1. \A k \in Tasks : phase'[k] = "running" => phase[k] = "running"
      <4>1. phase \in [Tasks -> Phases]
        BY <2>2 DEF FlatInv, TypeOK, Phases
      <4>2. phase' = phase \/ \E k, q : q \in {"spawning", "finished"} /\ phase' = [phase EXCEPT ![k] = q]
        BY <2>4 DEF SpawnerStep, CallStep, Select, Hand, Started, NotReady, Advise, Min, FollowAdvice, Create, Count,
           NotASlave, LockSlaves, GrowForSlaves, MarkWaiting, Unblock, UnmarkWaiting, Spawn, StartSync, MainStep,
           SyncLook, SyncReturn, Finish, QueueFull, Wakeup, Emptied, SetMinPoolSize, SetMaxPoolSize, StartFinish, status
      <4> QED BY <4>1, <4>2
    <3>2. ASSUME NEW t \in Threads, pc[t] = "started", pc'[t] # "started" PROVE phase[task[t]] # "spawning"
      <4>1. t = m
        BY <2>2, <3>2 DEF FlatInv, SlaveInv, SlavePCs, Threads
      <4>2. Started(m)
        <5>1. ~Quiet(m)
          BY <2>2, <2>4, <3>2, <4>1, QuietPc
        <5> QED BY <3>2, <4>1, <5>1 DEF Quiet, Hand, Wakeup, Emptied, Create
      <4>3. cur[m] \in Workers /\ workersData[cur[m]].taskStarted > 0 /\ task[m] \in Tasks
        BY <2>2, <4>2, AtMain DEF Started, CallPCs
      <4>4. ~InHand(m)
        BY <3>2, <4>1, <4>3 DEF InHand
      <4> QED BY <2>2, <4>1, <4>3, <4>4 DEF AloneInv, PhaseInv
    <3> QED BY <3>1, <3>2 DEF OwnStart
  <2> QED BY <2>2, <2>3, <2>4, FlatNext DEF SpawnerStep
<1> QED BY <1>1, InitAlone, AloneStep, PTL DEF Spec, StartedIfAlone

(* No token of gSomeReady is lost, though it counts how often a worker     *)
(* became ready: no spawner is blocked while a worker of the pool stands   *)
(* ready and has said so.                                                  *)
THEOREM NobodyStranded ==
  ASSUME OneSpawner
  PROVE  Spec => [](NotNested => NoStrandedSpawner)
<1>1. AloneIInv => (NotNested => NoStrandedSpawner)
  <2> SUFFICES ASSUME AloneIInv, NotNested, NEW t \in Threads, pc[t] = "block", gSomeReady = 0,
                      NEW i \in Workers, StandsReady(i)
               PROVE  FALSE
    BY DEF NoStrandedSpawner
  <2>1. PICK m \in Mains : Mains = {m} /\ FlatInv /\ TokenInv(m)
    BY AloneNow DEF AloneInv
  <2>2. t = m
    BY <2>1 DEF FlatInv, SlaveInv, SlavePCs, Threads
  <2>3. Looks(m, i)
    BY <2>1 DEF TokenInv
  <2> QED BY <2>2, <2>3 DEF Looks, CallPCs
<1> QED BY <1>1, InitAlone, AloneStep, PTL DEF Spec

(* sync waits for all spawned tasks, though the pool grows and shrinks: if *)
(* all records that it looked at are ready, so many threads wait at them   *)
(* that none is left to run a task.                                        *)
LEMMA AllWait ==
  ASSUME FlatInv, NEW m \in Mains, Mains = {m}, WaitInv(m), SyncInv(m),
         pc[m] = "sync", cur[m] >= upto[m], NEW s \in Slaves, pc[s] = "body"
  PROVE  FALSE
<1>1. /\ currentPoolSize \in 0 .. Records /\ Records \in Nat /\ cur[m] \in 0 .. Records /\ upto[m] \in 0 .. Records
      /\ currentPoolSize <= upto[m] /\ \A i \in Workers : i < cur[m] => workersData[i].ready
  BY AtMain DEF SyncInv
<1>2. \A i \in 0 .. currentPoolSize - 1 : i \in Workers /\ Waiters(i) # {}
  BY <1>1 DEF WaitInv, Workers
<1> DEFINE h == [i \in 0 .. currentPoolSize |-> IF i < currentPoolSize THEN CHOOSE r \in Waiters(i) : TRUE ELSE s]
<1>3. \A i \in 0 .. currentPoolSize - 1 : h[i] \in Waiters(i)
  BY <1>1, <1>2
<1>4. h[currentPoolSize] = s
  BY <1>1
<1> HIDE DEF h
<1>5. \A i \in 0 .. currentPoolSize - 1 : h[i] \in Live /\ worker[h[i]] = i /\ h[i] # s
  BY <1>3 DEF Waiters, Live
<1>6. s \in Live
  BY DEF Live
<1>7. h \in Injection(0 .. currentPoolSize, Live)
  <2>1. h \in [0 .. currentPoolSize -> Live]
    <3>1. \A i \in 0 .. currentPoolSize : i \in 0 .. currentPoolSize - 1 \/ i = currentPoolSize
      BY <1>1
    <3>2. \A i \in 0 .. currentPoolSize : h[i] \in Live
      BY <1>4, <1>5, <1>6, <3>1
    <3> QED BY <3>2 DEF h
  <2>2. \A i, j \in 0 .. currentPoolSize : h[i] = h[j] => i = j
    <3>1. \A i \in 0 .. currentPoolSize : i \in 0 .. currentPoolSize - 1 \/ i = currentPoolSize
      BY <1>1
    <3> QED BY <1>4, <1>5, <3>1
  <2> QED BY <2>1, <2>2 DEF Injection, IsInjective
<1>8. Cardinality(0 .. currentPoolSize) = currentPoolSize + 1
  BY <1>1, FS_Interval
<1>9. Cardinality(0 .. currentPoolSize) <= Cardinality(Live)
  BY <1>7, LiveFinite, FS_Injection
<1>10. Uncounted = 0
  BY DEF Uncounted
<1>11. Cardinality(Live) <= currentPoolSize /\ Cardinality(Live) \in Nat
  BY <1>1, <1>10, LiveFinite DEF FlatInv, SizeInv
<1> QED BY <1>1, <1>8, <1>9, <1>11

THEOREM SyncWaitsForAll ==
  ASSUME OneSpawner
  PROVE  Spec => SyncWaits
<1> DEFINE Returns == NotNested /\ (\E m \in Mains : pc[m] = "sync" /\ pc'[m] = "idle") =>
                        \A k \in Tasks : phase[k] \notin {"spawning", "running"}
<1>1. AloneIInv /\ [Next]_vars => [Returns]_vars
  <2> SUFFICES ASSUME AloneIInv, Next, NotNested, NEW n \in Mains, pc[n] = "sync", pc'[n] = "idle",
                      NEW k \in Tasks, phase[k] \in {"spawning", "running"}
               PROVE  FALSE
    OBVIOUS
  <2>1. PICK m \in Mains : Mains = {m} /\ FlatInv /\ AloneInv(m)
    BY AloneNow
  <2>2. n = m /\ m \in Threads /\ pc \in [Threads -> SlavePCs \union CallPCs \union MainPCs]
    BY <2>1, AtMain
  <2>3. cur[m] >= upto[m]
    <3>1. CASE \E s \in Slaves : SlaveStep(s)
      BY <2>1, <2>2, <3>1, SlaveFrame
    <3>2. ASSUME NEW t \in Slaves, Spawn(t) PROVE FALSE
      <4>1. t # m /\ pc' = [pc EXCEPT ![t] = "select"]
        BY <2>2, <3>2, ThreadsApart DEF Spawn, Round, Goto
      <4> QED BY <2>2, <4>1
    <3>3. CASE SpawnerStep(m)
      <4>1. ~CallStep(m)
        BY <2>2, CallsAt DEF CallPCs
      <4> QED BY <2>2, <3>3, <4>1 DEF SpawnerStep, Spawn, Idle, StartSync, MainStep, SyncLook, SyncReturn, Finish,
              QueueFull, Wakeup, Emptied, SetMinPoolSize, SetMaxPoolSize, StartFinish
    <3>4. ASSUME NEW t \in Slaves, CallStep(t) PROVE FALSE
      BY <2>1, <3>4, CallsAt DEF FlatInv, SlaveInv, SlavePCs, CallPCs
    <3> QED BY <2>1, <3>1, <3>2, <3>3, <3>4 DEF Next, Threads, SpawnerStep
  <2>4. ~InHand(m)
    BY <2>2 DEF InHand, CallPCs
  <2>5. phase[k] = "running"
    BY <2>1, <2>4 DEF AloneInv, PhaseInv
  <2>6. PICK s \in Slaves : pc[s] = "body"
    BY <2>1, <2>5 DEF AloneInv, PhaseInv
  <2> QED BY <2>1, <2>2, <2>3, <2>6, AllWait DEF AloneInv
<1> QED BY <1>1, InitAlone, AloneStep, PTL DEF Spec, SyncWaits

=============================================================================
