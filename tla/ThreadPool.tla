---------------------------- MODULE ThreadPool ----------------------------
(***************************************************************************)
(* The thread pool of lib/pure/concurrency/threadpool.nim: nimSpawn3, the  *)
(* worker threads (slave), sync, setMaxPoolSize and the way a flow variable*)
(* of a garbage collected type is given back (finished).  The wrapper that *)
(* the compiler generates around a spawned call is in compiler/spawn.nim.  *)
(*                                                                         *)
(* A semaphore is its counter: blockUntil takes one if there is one, signal*)
(* adds one.  A task is one spawned call; Parent says who spawns it.  Load *)
(* measurements are a choice from Advice.                                  *)
(***************************************************************************)
EXTENDS Integers, FiniteSets

CONSTANTS Mains,       \* threads that are not workers
          Slaves,      \* the threads createThread may create
          Tasks, Parent,
          Awaited,     \* the tasks with a flow variable that owns garbage collected data
          Records,     \* number of Worker records (MaxThreadPoolSize)
          Processors, MinPoolSize,
          PoolSizes,   \* the arguments of setMinPoolSize and setMaxPoolSize
          Advice,      \* what advice() may answer
          QueueSize,   \* room in a ToFreeQueue
          Does,        \* Does[m]: what thread m calls besides spawn
          Nil

Threads == Mains \union Slaves
Workers == 0 .. Records - 1

ASSUME PoolAssumption ==
  /\ Records \in Nat /\ Processors \in 1 .. Records
  /\ IsFiniteSet(Slaves) /\ Cardinality(Slaves) >= Processors
  /\ MinPoolSize \in 1 .. Records /\ PoolSizes \subseteq 1 .. Records
  /\ QueueSize \in Nat \ {0}
  /\ Advice \subseteq {"doNothing", "doCreateThread", "doShutdownThread"}
  /\ Parent \in [Tasks -> Mains \union Tasks] /\ Awaited \subseteq Tasks
  /\ Does \in [Mains -> SUBSET {"sync", "setMinPoolSize", "setMaxPoolSize"}]
  /\ Mains \intersect Slaves = {} /\ Nil \notin Threads \union Tasks \union Workers

VARIABLES workersData,                \* the Worker records
          currentPoolSize, minPoolSize, maxPoolSize, gSomeReady, readyWorker,
          numSlavesRunning, numSlavesWaiting,
          numSlavesLock, stateLock,   \* the holder, or Nil
          pc,
          worker, job,                \* of a slave: its record, the task it runs
          task, site, cur, upto,      \* of a call: its task, the place of the current
                                      \* selectWorker, the worker it tries, the loop's end
          phase, owner                \* of a task: how far it is, the worker that runs it

limits == <<minPoolSize, maxPoolSize>>
size   == <<currentPoolSize, limits>>
ready  == <<gSomeReady, readyWorker>>
slaves == <<numSlavesRunning, numSlavesWaiting>>
locks  == <<numSlavesLock, stateLock>>
thread == <<worker, job>>
call   == <<task, site, cur, upto>>
status == <<phase, owner>>
vars   == <<workersData, size, ready, slaves, locks, pc, thread, call, status>>

SlavePCs == {"off", "top", "announce", "waitTask", "arrived", "wrap", "body", "leave", "dying"}
CallPCs  == {"select", "hand", "started", "advise", "min", "advice", "create", "count",
             "slave", "decide", "block", "unmark"}
MainPCs  == {"idle", "sync", "finish", "wakeup", "empty"}
Sites    == {"ready", "scan", "min", "advice", "slave"}

WorkerRecord == [ready: BOOLEAN, initialized: BOOLEAN, shutdown: BOOLEAN,
                 f: {"call", "clean"}, data: Tasks \union {Nil},
                 taskArrived: Nat, taskStarted: Nat, q: 0 .. QueueSize, empty: Nat]

Init ==
  /\ worker = CHOOSE g \in [Slaves -> Workers \union {Nil}] :
                 \A i \in Workers : Cardinality({s \in Slaves : g[s] = i})
                                    = IF i < Processors THEN 1 ELSE 0
  /\ pc = [t \in Threads |-> IF t \in Mains THEN "idle"
                             ELSE IF worker[t] = Nil THEN "off" ELSE "top"]
  /\ workersData = [i \in Workers |->
       [ready |-> FALSE, initialized |-> i < Processors, shutdown |-> FALSE,
        f |-> "call", data |-> Nil, taskArrived |-> 0, taskStarted |-> 0, q |-> 0, empty |-> 0]]
  /\ currentPoolSize = Processors /\ minPoolSize = MinPoolSize /\ maxPoolSize = Records
  /\ gSomeReady = 0 /\ readyWorker = 0
  /\ numSlavesRunning = 0 /\ numSlavesWaiting = 0
  /\ numSlavesLock = Nil /\ stateLock = Nil
  /\ job = [s \in Slaves |-> Nil]
  /\ task = [t \in Threads |-> Nil] /\ site = [t \in Threads |-> "ready"]
  /\ cur = [t \in Threads |-> 0] /\ upto = [t \in Threads |-> 0]
  /\ phase = [k \in Tasks |-> "new"] /\ owner = [k \in Tasks |-> Nil]

Goto(t, p) == pc' = [pc EXCEPT ![t] = p]
Idle(t)    == IF t \in Mains THEN "idle" ELSE "body"
Unlocked(lock, t) == IF lock = t THEN Nil ELSE lock

-----------------------------------------------------------------------------
(* slave *)

Top(s) ==
  /\ pc[s] = "top"
  /\ LET i == worker[s]
     IN  IF workersData[i].shutdown
           THEN /\ workersData' = [workersData EXCEPT ![i].shutdown = FALSE]
                /\ currentPoolSize' = currentPoolSize - 1
                /\ Goto(s, "dying")
           ELSE /\ workersData' = [workersData EXCEPT ![i].ready = TRUE]
                /\ Goto(s, "announce")
                /\ UNCHANGED currentPoolSize
  /\ UNCHANGED <<limits, ready, slaves, locks, thread, call, status>>

(* A thread that has been shut down waits until its last flow variable is  *)
(* finished.                                                               *)
Exit(s) == /\ pc[s] = "dying"
           /\ workersData[worker[s]].data = Nil
           /\ Goto(s, "off")
           /\ worker' = [worker EXCEPT ![s] = Nil]
           /\ UNCHANGED <<workersData, size, ready, slaves, locks, job, call, status>>

(* Mutant: a worker that becomes ready tells nobody.                       *)
Signalled_Not == gSomeReady
Signalled == gSomeReady + 1

Announce(s) == /\ pc[s] = "announce"
               /\ readyWorker' = worker[s]
               /\ gSomeReady' = Signalled
               /\ Goto(s, "waitTask")
               /\ UNCHANGED <<workersData, size, slaves, locks, thread, call, status>>

Arrived(s) == /\ pc[s] = "waitTask"
              /\ workersData[worker[s]].taskArrived > 0
              /\ workersData' = [workersData EXCEPT ![worker[s]].taskArrived = @ - 1]
              /\ Goto(s, "arrived")
              /\ UNCHANGED <<size, ready, slaves, locks, thread, call, status>>

EnterRunning(s) == /\ pc[s] = "arrived" /\ numSlavesLock = Nil
                   /\ numSlavesRunning' = numSlavesRunning + 1
                   /\ Goto(s, "wrap")
                   /\ UNCHANGED <<workersData, size, ready, numSlavesWaiting, locks,
                                  thread, call, status>>

(* The wrapper copies its arguments and tells the spawner so.              *)
Wrapper(s) ==
  /\ pc[s] = "wrap" /\ workersData[worker[s]].f = "call"
  /\ LET i == worker[s]  k == workersData[i].data
     IN  /\ k # Nil
         /\ job' = [job EXCEPT ![s] = k]
         /\ phase' = [phase EXCEPT ![k] = "running"]
         /\ owner' = [owner EXCEPT ![k] = i]
         /\ workersData' = [workersData EXCEPT ![i].taskStarted = @ + 1]
  /\ Goto(s, "body")
  /\ UNCHANGED <<size, ready, slaves, locks, worker, call>>

CleanFlowVars(s) ==
  /\ pc[s] = "wrap" /\ workersData[worker[s]].f = "clean"
  /\ workersData' = [workersData EXCEPT ![worker[s]].q = 0, ![worker[s]].empty = @ + 1]
  /\ Goto(s, "leave")
  /\ UNCHANGED <<size, ready, slaves, locks, thread, call, status>>

(* The call returns, and its flow variable is signalled.                   *)
FinishTask(s) == /\ pc[s] = "body"
                 /\ phase' = [phase EXCEPT ![job[s]] = "done"]
                 /\ job' = [job EXCEPT ![s] = Nil]
                 /\ Goto(s, "leave")
                 /\ UNCHANGED <<workersData, size, ready, slaves, locks, worker, call,
                                owner>>

LeaveRunning(s) == /\ pc[s] = "leave" /\ numSlavesLock = Nil
                   /\ numSlavesRunning' = numSlavesRunning - 1
                   /\ workersData' = [workersData EXCEPT ![worker[s]].q = 0]
                   /\ Goto(s, "top")
                   /\ UNCHANGED <<size, ready, numSlavesWaiting, locks, thread, call,
                                  status>>

-----------------------------------------------------------------------------
(* nimSpawn3.  Every round tries readyWorker, then the workers of the pool.*)

Round(t) == /\ Goto(t, "select")
            /\ site' = [site EXCEPT ![t] = "ready"]
            /\ cur' = [cur EXCEPT ![t] = readyWorker]

MayRun(t) == IF t \in Mains THEN {t} ELSE {job[t]}

Spawn(t) == /\ pc[t] = Idle(t)
            /\ \E k \in Tasks :
                 /\ phase[k] = "new" /\ Parent[k] \in MayRun(t)
                 /\ task' = [task EXCEPT ![t] = k]
                 /\ phase' = [phase EXCEPT ![k] = "spawning"]
            /\ Round(t)
            /\ UNCHANGED <<workersData, size, ready, slaves, locks, thread, upto, owner>>

(* selectWorker *)
Select(t) == /\ pc[t] = "select"
             /\ workersData[cur[t]].ready
             /\ workersData' = [workersData EXCEPT ![cur[t]].ready = FALSE]
             /\ Goto(t, "hand")
             /\ UNCHANGED <<size, ready, slaves, locks, thread, call, status>>

Hand(t) == /\ pc[t] = "hand"
           /\ workersData' = [workersData EXCEPT ![cur[t]].data = task[t], ![cur[t]].f = "call",
                                                 ![cur[t]].taskArrived = @ + 1]
           /\ Goto(t, "started")
           /\ UNCHANGED <<size, ready, slaves, locks, thread, call, status>>

(* Mutant: spawn does not wait for the arguments to be copied.             *)
Started_NoWait(t) ==
  /\ pc[t] = "started"
  /\ UNCHANGED workersData
  /\ numSlavesLock' = Unlocked(numSlavesLock, t)
  /\ stateLock' = Unlocked(stateLock, t)
  /\ Goto(t, Idle(t))
  /\ UNCHANGED <<size, ready, slaves, thread, call, status>>
(* ... and spawn returns, which releases the lock it may hold.             *)
Started(t) ==
  /\ pc[t] = "started"
  /\ workersData[cur[t]].taskStarted > 0
  /\ workersData' = [workersData EXCEPT ![cur[t]].taskStarted = @ - 1]
  /\ numSlavesLock' = Unlocked(numSlavesLock, t)
  /\ stateLock' = Unlocked(stateLock, t)
  /\ Goto(t, Idle(t))
  /\ UNCHANGED <<size, ready, slaves, thread, call, status>>

(* Mutant: a worker that blocks does not say so.                           *)
OneMoreWaiting_Forgotten == numSlavesWaiting
OneMoreWaiting == numSlavesWaiting + 1

(* The worker was not ready: the loop goes on, and after the loop the pool *)
(* may grow.                                                               *)
LoopFrom(t, i, end) == /\ site' = [site EXCEPT ![t] = "scan"]
                       /\ upto' = [upto EXCEPT ![t] = end]
                       /\ cur' = [cur EXCEPT ![t] = IF i < end THEN i ELSE @]
                       /\ Goto(t, IF i < end THEN "select" ELSE "advise")

NotReady(t) ==
  /\ pc[t] = "select"
  /\ ~workersData[cur[t]].ready
  /\ CASE site[t] = "ready"  -> LoopFrom(t, 0, currentPoolSize)
       [] site[t] = "scan"   -> LoopFrom(t, cur[t] + 1, upto[t])
       [] site[t] = "min"    -> Goto(t, "advice") /\ UNCHANGED <<site, cur, upto>>
       [] site[t] = "advice" -> Goto(t, "slave") /\ UNCHANGED <<site, cur, upto>>
       [] site[t] = "slave"  -> Goto(t, "block") /\ UNCHANGED <<site, cur, upto>>
  /\ stateLock' = IF site[t] = "advice" THEN Nil ELSE stateLock
  /\ numSlavesLock' = IF site[t] = "slave" THEN Nil ELSE numSlavesLock
  /\ numSlavesWaiting' = IF site[t] = "slave" THEN OneMoreWaiting ELSE numSlavesWaiting
  /\ UNCHANGED <<workersData, size, ready, numSlavesRunning, thread, task, status>>

(* Now and then, and if nobody else is at it: is the pool large enough?    *)
Advise(t) == /\ pc[t] = "advise"
             /\ \/ /\ stateLock = Nil
                   /\ stateLock' = t
                   /\ Goto(t, "min")
                \/ Goto(t, "slave") /\ UNCHANGED stateLock
             /\ UNCHANGED <<workersData, size, ready, slaves, numSlavesLock, thread, call, status>>

(* The record after the last one of the pool gets a thread unless it has   *)
(* had one before.                                                         *)
Grow(t, where) == /\ currentPoolSize \in Workers
                  /\ site' = [site EXCEPT ![t] = where]
                  /\ Goto(t, IF workersData[currentPoolSize].initialized THEN "count"
                             ELSE "create")

Min(t) == /\ pc[t] = "min"
          /\ \/ currentPoolSize < minPoolSize /\ Grow(t, "min")
             \/ currentPoolSize >= minPoolSize /\ Goto(t, "advice") /\ UNCHANGED site
          /\ UNCHANGED <<workersData, size, ready, slaves, locks, thread, task, cur, upto, status>>

FollowAdvice(t) ==
  /\ pc[t] = "advice"
  /\ \E a \in Advice :
       \/ /\ a = "doCreateThread" /\ currentPoolSize < maxPoolSize
          /\ Grow(t, "advice")
          /\ UNCHANGED <<workersData, stateLock>>
       \/ /\ ~(a = "doCreateThread" /\ currentPoolSize < maxPoolSize)
          /\ workersData' = IF a = "doShutdownThread" /\ currentPoolSize > minPoolSize
                              THEN [workersData EXCEPT ![currentPoolSize - 1].shutdown = TRUE]
                              ELSE workersData
          /\ stateLock' = Nil
          /\ Goto(t, "slave")
          /\ UNCHANGED site
  /\ UNCHANGED <<size, ready, slaves, numSlavesLock, thread, task, cur, upto, status>>

(* activateWorkerThread: the record's semaphores are set up as well.       *)
Create(t) ==
  /\ pc[t] = "create"
  /\ workersData' = [workersData EXCEPT
       ![currentPoolSize].initialized = TRUE, ![currentPoolSize].taskArrived = 0,
       ![currentPoolSize].taskStarted = 0, ![currentPoolSize].empty = 0]
  /\ \E s \in Slaves : /\ pc[s] = "off"
                       /\ pc' = [pc EXCEPT ![s] = "top", ![t] = "count"]
                       /\ worker' = [worker EXCEPT ![s] = currentPoolSize]
  /\ UNCHANGED <<size, ready, slaves, locks, job, call, status>>

Count(t) == /\ pc[t] = "count"
            /\ cur' = [cur EXCEPT ![t] = currentPoolSize]
            /\ currentPoolSize' = currentPoolSize + 1
            /\ Goto(t, "select")
            /\ UNCHANGED <<workersData, limits, ready, slaves, locks, thread,
                           task, site, upto, status>>

(* A spawner that is a worker itself counts as waiting, and if it would be *)
(* the last one to wait, the pool grows.                                   *)
NotASlave(t) == /\ pc[t] = "slave" /\ t \in Mains
                /\ Goto(t, "block")
                /\ UNCHANGED <<workersData, size, ready, slaves, locks, thread, call, status>>

LockSlaves(t) == /\ pc[t] = "slave" /\ t \in Slaves
                 /\ numSlavesLock = Nil
                 /\ numSlavesLock' = t
                 /\ Goto(t, "decide")
                 /\ UNCHANGED <<workersData, size, ready, slaves, stateLock, thread, call, status>>

(* Mutant: the worker that asks is not counted.                            *)
LastToWait_OffByOne == numSlavesRunning <= numSlavesWaiting
LastToWait == numSlavesRunning <= numSlavesWaiting + 1

GrowForSlaves(t) == /\ pc[t] = "decide"
                    /\ LastToWait /\ currentPoolSize < maxPoolSize
                    /\ Grow(t, "slave")
                    /\ UNCHANGED <<workersData, size, ready, slaves, locks, thread,
                                   task, cur, upto, status>>

MarkWaiting(t) == /\ pc[t] = "decide"
                  /\ ~(LastToWait /\ currentPoolSize < maxPoolSize)
                  /\ numSlavesWaiting' = OneMoreWaiting
                  /\ numSlavesLock' = Nil
                  /\ Goto(t, "block")
                  /\ UNCHANGED <<workersData, size, ready, numSlavesRunning, stateLock, thread,
                                 call, status>>

(* blockUntil(gSomeReady), and the next round.                             *)
Unblock(t) == /\ pc[t] = "block" /\ gSomeReady > 0
              /\ gSomeReady' = gSomeReady - 1
              /\ IF t \in Mains THEN Round(t) ELSE Goto(t, "unmark") /\ UNCHANGED <<site, cur>>
              /\ UNCHANGED <<workersData, size, readyWorker, slaves, locks, thread,
                             task, upto, status>>

UnmarkWaiting(t) == /\ pc[t] = "unmark" /\ numSlavesLock = Nil
                    /\ numSlavesWaiting' = numSlavesWaiting - 1
                    /\ Round(t)
                    /\ UNCHANGED <<workersData, size, ready, numSlavesRunning, locks, thread,
                                   task, upto, status>>

-----------------------------------------------------------------------------
(* sync, the pool sizes, and finished on a flow variable that has arrived. *)

StartSync(m) == /\ pc[m] = "idle" /\ "sync" \in Does[m]
                /\ Goto(m, "sync")
                /\ cur' = [cur EXCEPT ![m] = 0]
                /\ upto' = [upto EXCEPT ![m] = currentPoolSize]
                /\ UNCHANGED <<workersData, size, ready, slaves, locks, thread, task, site, status>>

(* Mutant: sync sleeps and looks at the next worker.                       *)
SyncLook_GoesOn(m) ==
  /\ pc[m] = "sync" /\ cur[m] < upto[m]
  /\ cur' = [cur EXCEPT ![m] = @ + 1]
  /\ UNCHANGED <<workersData, size, ready, slaves, locks, pc, thread, task, site, upto, status>>
(* A worker that is not ready makes sync sleep and begin again.            *)
SyncLook(m) ==
  /\ pc[m] = "sync" /\ cur[m] < upto[m]
  /\ \/ /\ workersData[cur[m]].ready
        /\ cur' = [cur EXCEPT ![m] = @ + 1]
        /\ UNCHANGED upto
     \/ /\ ~workersData[cur[m]].ready
        /\ cur' = [cur EXCEPT ![m] = 0]
        /\ upto' = [upto EXCEPT ![m] = currentPoolSize]
  /\ UNCHANGED <<workersData, size, ready, slaves, locks, pc, thread, task, site, status>>

SyncReturn(m) == /\ pc[m] = "sync" /\ cur[m] >= upto[m]
                 /\ Goto(m, "idle")
                 /\ UNCHANGED <<workersData, size, ready, slaves, locks, thread, call, status>>

SetMaxPoolSize(m) ==
  /\ pc[m] = "idle" /\ "setMaxPoolSize" \in Does[m]
  /\ \E n \in PoolSizes \ {maxPoolSize} :
       /\ maxPoolSize' = n
       /\ workersData' = [i \in Workers |->
            [workersData[i] EXCEPT !.shutdown = @ \/ i \in n .. currentPoolSize - 1]]
  /\ UNCHANGED <<currentPoolSize, minPoolSize, ready, slaves, locks, pc, thread, call, status>>

SetMinPoolSize(m) == /\ pc[m] = "idle" /\ "setMinPoolSize" \in Does[m]
                     /\ \E n \in PoolSizes \ {minPoolSize} : minPoolSize' = n
                     /\ UNCHANGED <<workersData, currentPoolSize, maxPoolSize, ready, slaves,
                                    locks, pc, thread, call, status>>

StartFinish(m) == /\ pc[m] = "idle"
                  /\ \E k \in Awaited : /\ Parent[k] = m /\ phase[k] = "done"
                                        /\ phase' = [phase EXCEPT ![k] = "finished"]
                                        /\ cur' = [cur EXCEPT ![m] = owner[k]]
                  /\ Goto(m, "finish")
                  /\ UNCHANGED <<workersData, size, ready, slaves, locks, thread,
                                 task, site, upto, owner>>

(* Mutant: a full queue takes one more.                                    *)
HasRoom_OffByOne(i) == workersData[i].q <= QueueSize
HasRoom(i) == workersData[i].q < QueueSize

(* The data goes to the queue of its owner, which lets go of the task.     *)
Finish(m) == /\ pc[m] = "finish"
             /\ HasRoom(cur[m])
             /\ workersData' = [workersData EXCEPT ![cur[m]].q = @ + 1, ![cur[m]].data = Nil]
             /\ Goto(m, "idle")
             /\ UNCHANGED <<size, ready, slaves, locks, thread, call, status>>

(* The queue is full: the owner is claimed and made to empty it.           *)
QueueFull(m) == /\ pc[m] = "finish"
                /\ ~HasRoom(cur[m])
                /\ Goto(m, "wakeup")
                /\ UNCHANGED <<workersData, size, ready, slaves, locks, thread, call, status>>

Wakeup(m) == /\ pc[m] = "wakeup" /\ workersData[cur[m]].ready
             /\ workersData' = [workersData EXCEPT
                  ![cur[m]].ready = FALSE, ![cur[m]].data = Nil, ![cur[m]].f = "clean",
                  ![cur[m]].taskArrived = @ + 1]
             /\ Goto(m, "empty")
             /\ UNCHANGED <<size, ready, slaves, locks, thread, call, status>>

Emptied(m) == /\ pc[m] = "empty" /\ workersData[cur[m]].empty > 0
              /\ workersData' = [workersData EXCEPT ![cur[m]].empty = @ - 1]
              /\ Goto(m, "finish")
              /\ UNCHANGED <<size, ready, slaves, locks, thread, call, status>>

-----------------------------------------------------------------------------
SlaveStep(s) == \/ Top(s) \/ Exit(s) \/ Announce(s) \/ Arrived(s) \/ EnterRunning(s)
                \/ Wrapper(s) \/ CleanFlowVars(s) \/ FinishTask(s) \/ LeaveRunning(s)

CallStep(t) == \/ Select(t) \/ Hand(t) \/ Started(t) \/ NotReady(t) \/ Advise(t) \/ Min(t)
               \/ FollowAdvice(t) \/ Create(t) \/ Count(t) \/ NotASlave(t) \/ LockSlaves(t)
               \/ GrowForSlaves(t) \/ MarkWaiting(t) \/ Unblock(t) \/ UnmarkWaiting(t)

MainStep(m) == SyncLook(m) \/ SyncReturn(m) \/ Finish(m) \/ QueueFull(m) \/ Wakeup(m) \/ Emptied(m)

Next == \/ \E s \in Slaves : SlaveStep(s)
        \/ \E t \in Threads : Spawn(t) \/ CallStep(t)
        \/ \E m \in Mains : StartSync(m) \/ MainStep(m)
                             \/ SetMinPoolSize(m) \/ SetMaxPoolSize(m) \/ StartFinish(m)

Spec == Init /\ [][Next]_vars

(* Threads run; tasks end.  Nobody is obliged to spawn, or to sync.        *)
FairSpec == /\ Spec
            /\ \A s \in Slaves : WF_vars(SlaveStep(s) \/ CallStep(s))
            /\ \A m \in Mains : WF_vars(CallStep(m) \/ MainStep(m))

-----------------------------------------------------------------------------
(* Properties.                                                             *)

(* Every variable has its type.                                            *)
TypeOK ==
  /\ workersData \in [Workers -> WorkerRecord]
  /\ currentPoolSize \in 0 .. Records
  /\ minPoolSize \in 1 .. Records /\ maxPoolSize \in 1 .. Records
  /\ gSomeReady \in Nat /\ readyWorker \in Workers
  /\ numSlavesRunning \in Nat /\ numSlavesWaiting \in Nat
  /\ numSlavesLock \in Slaves \union {Nil} /\ stateLock \in Threads \union {Nil}
  /\ pc \in [Threads -> SlavePCs \union CallPCs \union MainPCs]
  /\ worker \in [Slaves -> Workers \union {Nil}]
  /\ job \in [Slaves -> Tasks \union {Nil}]
  /\ task \in [Threads -> Tasks \union {Nil}]
  /\ site \in [Threads -> Sites]
  /\ cur \in [Threads -> 0 .. Records] /\ upto \in [Threads -> 0 .. Records]
  /\ phase \in [Tasks -> {"new", "spawning", "running", "done", "finished"}]
  /\ owner \in [Tasks -> Workers \union {Nil}]

(* Only threads outside the pool have spawned so far.                      *)
NotNested == \A k \in Tasks : Parent[k] \in Tasks => phase[k] = "new"

(* The arguments of a task lie on the stack of its spawner.  A wrapper that*)
(* is about to copy them finds in its record the task of a spawner that    *)
(* still waits for it.                                                     *)
ArgumentsAlive == NotNested => \A s \in Slaves :
  pc[s] \in {"arrived", "wrap"} /\ workersData[worker[s]].f = "call" =>
    \E t \in Threads : /\ pc[t] = "started" /\ cur[t] = worker[s]
                       /\ workersData[worker[s]].data = task[t]

(* What ends a spawn is the start of its own task, which runs once.  It is *)
(* so for a thread that alone spawns, and not if a task spawns meanwhile.  *)
OwnStart == /\ \A t \in Threads : pc[t] = "started" /\ pc'[t] # "started" => phase[task[t]] # "spawning"
            /\ \A k \in Tasks : phase'[k] = "running" => phase[k] \in {"spawning", "running"}
StartedIsMine  == [][OwnStart]_vars
StartedIfAlone == [][NotNested' => OwnStart]_vars

(* No token is lost: while a spawner is blocked on gSomeReady and a worker *)
(* of the pool stands ready and has said so, another spawner is awake and  *)
(* looks for one.                                                          *)
StandsReady(i) == /\ i < currentPoolSize /\ workersData[i].ready
                  /\ \A s \in Slaves : worker[s] = i => pc[s] # "announce"
NoStrandedSpawner ==
  (\E t \in Threads : pc[t] = "block") /\ gSomeReady = 0 /\ (\E i \in Workers : StandsReady(i)) =>
    \E t \in Threads : pc[t] \in CallPCs \ {"hand", "started", "block"}

(* The two counters by which a worker decides whether it may wait say how  *)
(* many workers run a task and how many of those wait for a worker.        *)
AtTask  == {s \in Slaves : pc[s] \in {"wrap", "body", "leave"} \union CallPCs}
Waiting == {s \in Slaves : pc[s] \in {"block", "unmark"}}
SlavesCounted == numSlavesRunning = Cardinality(AtTask) /\ numSlavesWaiting = Cardinality(Waiting)

(* "Run under lock until numSlavesWaiting increment to avoid a race        *)
(* (otherwise two last threads might start waiting together)": as long as  *)
(* the pool may grow, a worker that waits for a worker is not left alone.  *)
AtWork(t) == \/ pc[t] \notin MainPCs \union {"off", "dying", "waitTask", "block"}
             \/ pc[t] = "waitTask" /\ workersData[worker[t]].taskArrived > 0
LastDoesNotWait ==
  (\E s \in Slaves : pc[s] = "block") /\ gSomeReady = 0 /\ currentPoolSize < maxPoolSize =>
    \E t \in Threads : AtWork(t)

(* sync is "A simple barrier to wait for all spawned tasks": when it       *)
(* returns, no task is on its way or running, if tasks do not spawn.       *)
SyncWaits ==
  [][NotNested /\ (\E m \in Mains : pc[m] = "sync" /\ pc'[m] = "idle") =>
       \A k \in Tasks : phase[k] \notin {"spawning", "running"}]_vars

(* A spawn by a thread outside the pool returns, though the pool shrinks   *)
(* and grows meanwhile, if tasks do not spawn.                             *)
SpawnReturns == \A m \in Mains : (pc[m] = "select") ~> (pc[m] = "idle" \/ ~NotNested)
=============================================================================
