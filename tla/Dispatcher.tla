----------------------------- MODULE Dispatcher -----------------------------
(***************************************************************************)
(* The event loop of one thread on Linux (lib/pure/asyncdispatch.nim with  *)
(* the epoll selector), the async procs it runs, and the kernel's sockets. *)
(* Main starts the tasks, each an async proc, and polls until all have     *)
(* finished.  A task's code runs until it awaits an unfinished future.     *)
(*                                                                         *)
(* Sockets, time and the programs are the environment: a message arrives   *)
(* or is read as one unit, a clock tick is a millisecond.  Socket errors   *)
(* other than those of a closed socket are left out.                       *)
(***************************************************************************)
EXTENDS Futures, Integers, FiniteSets, SequencesExt

CONSTANTS
  NTasks,        \* the async procs are 1 .. NTasks, and so are their futures
  Sockets,       \* registered sockets
  MaxFutures,    \* Bound: how many futures are made
  SendSizes,     \* units in a call of send
  SendRoom,      \* units the peer's buffer holds
  MaxInbox,      \* Bound: messages waiting to be read
  Delays,        \* milliseconds of a sleep or a timeout
  PollTimeout    \* the argument of poll

ASSUME ConstantsAssumption ==
  /\ NTasks \in Nat \ {0} /\ MaxFutures \in Nat /\ MaxFutures >= NTasks
  /\ SendSizes \subseteq Nat \ {0} /\ SendRoom \in Nat \ {0} /\ MaxInbox \in Nat
  /\ Delays \subseteq Nat \ {0} /\ PollTimeout \in Nat /\ IsFiniteSet(Sockets)

Tasks   == 1 .. NTasks
Events  == {"read", "write"}
Watcher == 0     \* a callback that the program itself gave to addRead

VARIABLES
  futs, ready, order,   \* see Futures
  fds,       \* per socket: open and registered, the events epoll watches, readList and writeList
  inbox, room, hungup,  \* the kernel: messages to read, room to write, the peer will send no more
  timers,    \* the heap of timers, the first to expire first: [fut, left]
  pc,        \* where the thread is
  task,      \* the task whose code runs
  op,        \* per task: the latest operation it has started
  started,   \* tasks that main has started
  until,     \* milliseconds until epoll_wait gives up
  keys,      \* what epoll_wait returned and is not processed yet: [fd, events, counts]
  io         \* processBasicCallbacks: the event, curList, newList

loop == <<timers, pc, task, op, started, until, keys, io>>
vars == <<futs, ready, order, fds, inbox, room, hungup, loop>>

(* The part of the state that callbacks change, as one record.             *)
State == [futs |-> futs, ready |-> ready, order |-> order, fds |-> fds,
          inbox |-> inbox, room |-> room]
Becomes(s) ==
  /\ futs' = s.futs /\ ready' = s.ready /\ order' = s.order
  /\ fds' = s.fds /\ inbox' = s.inbox /\ room' = s.room /\ UNCHANGED hungup

Closed == [open |-> FALSE, interest |-> {}, readList |-> << >>, writeList |-> << >>]
NoIo == [event |-> "none", cur |-> << >>, new |-> << >>]

(* of: the socket of a recv or send, the future that a timeout is set for. *)
Future(kind, of, left) ==
  [kind |-> kind, of |-> of, left |-> left, answer |-> "none", callbacks |-> << >>]

Init ==
  /\ futs = [t \in Tasks |-> Future("task", 0, 0)]
  /\ ready = << >> /\ order = << >>
  /\ fds \in [Sockets -> {Closed, [Closed EXCEPT !.open = TRUE]}]
  /\ inbox = [fd \in Sockets |-> 0] /\ room = [fd \in Sockets |-> SendRoom]
  /\ hungup = [fd \in Sockets |-> FALSE]
  /\ timers = << >> /\ pc = "poll" /\ task = 0 /\ op = [t \in Tasks |-> 0]
  /\ started = 0 /\ until = 0 /\ keys = << >> /\ io = NoIo

-----------------------------------------------------------------------------
(* Descriptors                                                             *)

updateHandle(s, fd, events) == [s EXCEPT !.fds[fd].interest = events]

Listed(s, fd) == {e \in Events : IF e = "read" THEN s.fds[fd].readList # << >>
                                               ELSE s.fds[fd].writeList # << >>}

addRead(s, fd, cb) ==
  LET a == [s EXCEPT !.fds[fd].readList = Append(@, cb)] IN updateHandle(a, fd, Listed(a, fd))

(* Mutant: the readers of the socket are no longer watched for.            *)
addWrite_Alone(s, fd, cb) ==
  updateHandle([s EXCEPT !.fds[fd].writeList = Append(@, cb)], fd, {"write"})
addWrite(s, fd, cb) ==
  LET a == [s EXCEPT !.fds[fd].writeList = Append(@, cb)] IN updateHandle(a, fd, Listed(a, fd))

(* The callbacks of recv and send, and whether they want to be called      *)
(* again.  On a closed socket the system call fails with EBADF.            *)
Again(s, fd, f) ==
  /\ s.fds[fd].open
  /\ IF s.futs[f].kind = "recv" THEN s.inbox[fd] = 0 /\ ~hungup[fd]
                                ELSE s.room[fd] < s.futs[f].left
Attempt(s, fd, f) ==
  IF f = Watcher THEN s
  ELSE IF ~s.fds[fd].open THEN Finish(s, f, "failed")
  ELSE IF s.futs[f].kind = "recv"
  THEN IF s.inbox[fd] > 0 THEN Finish([s EXCEPT !.inbox[fd] = @ - 1], f, "data")
       ELSE IF hungup[fd] THEN Finish(s, f, "end") ELSE s
  ELSE IF s.room[fd] >= s.futs[f].left
       THEN Finish([s EXCEPT !.room[fd] = @ - s.futs[f].left, !.futs[f].left = 0], f, "done")
       ELSE [s EXCEPT !.room[fd] = 0, !.futs[f].left = @ - s.room[fd]]

(* The callbacks in the list are called one after the other.               *)
CallAll(s, fd, list) ==
  LET after[i \in 0 .. Len(list)] ==
        IF i = 0 THEN s ELSE Attempt(after[i - 1], fd, list[i])
  IN  after[Len(list)]

(* unregister and close: what is left in the kernel is of no interest.     *)
Gone(s, fd) == [s EXCEPT !.fds[fd] = Closed, !.inbox[fd] = 0, !.room[fd] = SendRoom]
(* Mutant: only the readers learn that the socket is closed.               *)
closeSocket_Reads(s, fd) == CallAll(Gone(s, fd), fd, s.fds[fd].readList)
closeSocket(s, fd) == CallAll(Gone(s, fd), fd, s.fds[fd].readList \o s.fds[fd].writeList)

-----------------------------------------------------------------------------
(* Operations                                                              *)

Room(n) == Len(futs) + n <= MaxFutures
recv(s, fd) ==
  addRead(NewFuture(s, Future("recv", fd, 0)), fd, Len(s.futs) + 1)
send(s, fd, n) ==
  addWrite(NewFuture(s, Future("send", fd, n)), fd, Len(s.futs) + 1)

(* The heap orders timers by the time they expire; equal ones in any way.  *)
PushTimer(f, ms) ==
  \E i \in 1 .. Len(timers) + 1 :
    /\ \A j \in 1 .. Len(timers) : IF j < i THEN timers[j].left <= ms ELSE timers[j].left >= ms
    /\ timers' = InsertAt(timers, i, [fut |-> f, left |-> ms])

(* createCb adds the task to the awaited future and returns to its caller. *)
Resume(t) == [kind |-> "resume", task |-> t]
Yield == /\ task' = 0 /\ pc' = IF pc = "main" THEN "poll" ELSE "callbacks"
         /\ UNCHANGED <<started, until, keys, io>>
Running == pc \in {"main", "task"}
Stays == UNCHANGED <<pc, task, started, until, keys, io>>

Recv(fd) == /\ Running /\ Room(1) /\ fds[fd].open
            /\ Becomes(recv(State, fd)) /\ op' = [op EXCEPT ![task] = Len(futs) + 1]
            /\ Stays /\ UNCHANGED timers
Send(fd, n) == /\ Running /\ Room(1) /\ fds[fd].open
               /\ Becomes(send(State, fd, n)) /\ op' = [op EXCEPT ![task] = Len(futs) + 1]
               /\ Stays /\ UNCHANGED timers
sleepAsync(ms) == /\ Running /\ Room(1)
                  /\ Becomes(NewFuture(State, Future("sleep", 0, 0))) /\ PushTimer(Len(futs) + 1, ms)
                  /\ op' = [op EXCEPT ![task] = Len(futs) + 1] /\ Stays
(* The future of another task is awaited like that of an operation.        *)
Join == /\ Running /\ \E u \in Tasks : u < task /\ op' = [op EXCEPT ![task] = u]
        /\ Stays /\ UNCHANGED <<futs, ready, order, fds, inbox, room, hungup, timers>>

Await == /\ Running /\ op[task] # 0 /\ ~Finished(State, op[task])
         /\ Becomes(addCallback(State, op[task], Resume(task)))
         /\ Yield /\ UNCHANGED <<timers, op>>

(* await withTimeout(op[task], ms)                                         *)
WithTimeout(ms) ==
  LET f == op[task]  ret == Len(futs) + 1  timeout == Len(futs) + 2
      a == NewFuture(NewFuture(State, Future("timeout", f, 0)), Future("sleep", 0, 0))
      b == setCallback(a, f, [kind |-> "first", of |-> f, ret |-> ret])
      c == setCallback(b, timeout, [kind |-> "elapsed", ret |-> ret])
  IN /\ Running /\ f # 0 /\ Room(2)
     /\ PushTimer(timeout, ms) /\ Becomes(addCallback(c, ret, Resume(task)))
     /\ Yield /\ UNCHANGED op

Close(fd) == /\ Running /\ fds[fd].open /\ Becomes(closeSocket(State, fd))
             /\ Stays /\ UNCHANGED <<timers, op>>
Watch(fd) == /\ Running /\ fds[fd].open /\ ~Contains(fds[fd].readList, Watcher)
             /\ Becomes(addRead(State, fd, Watcher)) /\ Stays /\ UNCHANGED <<timers, op>>

(* The proc ends, or reading a failed future raises in it.                 *)
Return == /\ Running
          /\ \/ Becomes(Finish(State, task, "done"))
             \/ op[task] # 0 /\ Failed(State, op[task]) /\ Becomes(Finish(State, task, "failed"))
          /\ Yield /\ UNCHANGED <<timers, op>>

Operation ==
  \/ \E fd \in Sockets : Recv(fd) \/ Close(fd) \/ Watch(fd) \/ \E n \in SendSizes : Send(fd, n)
  \/ \E ms \in Delays : sleepAsync(ms) \/ WithTimeout(ms)
  \/ Join \/ Await \/ Return

-----------------------------------------------------------------------------
(* runOnce                                                                 *)

Unchanged == UNCHANGED <<futs, ready, order, fds, inbox, room, hungup>>

(* Main calls the next async proc, which runs up to its first await.       *)
StartTask == /\ pc = "poll" /\ started < NTasks
             /\ started' = started + 1 /\ task' = started + 1 /\ pc' = "main"
             /\ Unchanged /\ UNCHANGED <<timers, op, until, keys, io>>

(* Main polls while it waits for a task that it has started (waitFor).     *)
Awaited == \E t \in 1 .. started : ~Finished(State, t)

isEmpty == \A fd \in Sockets : fds[fd].interest = {}

(* Timers are taken off the heap as long as the first one is due.          *)
Due == CHOOSE n \in 0 .. Len(timers) : /\ \A i \in 1 .. n : timers[i].left = 0
                                       /\ n < Len(timers) => timers[n + 1].left # 0
Expired == LET after[i \in 0 .. Due] ==
                 IF i = 0 THEN State ELSE Finish(after[i - 1], timers[i].fut, "done")
           IN  after[Due]
processTimers == Becomes(Expired) /\ timers' = SubSeq(timers, Due + 1, Len(timers))

Poll ==
  /\ pc = "poll" /\ Awaited
  /\ IF isEmpty /\ timers = << >> /\ ready = << >>
     THEN pc' = "raised" /\ Unchanged /\ UNCHANGED timers
     ELSE pc' = "adjust" /\ processTimers
  /\ UNCHANGED <<task, op, started, until, keys, io>>

(* Mutant: the time to the next timer may be negative.                     *)
adjustTimeout_Unclamped ==
  IF ready # << >> THEN 0
  ELSE IF timers = << >> \/ timers[1].left - 1 > PollTimeout THEN PollTimeout
  ELSE timers[1].left - 1
(* Mutant: callbacks that main has scheduled do not count.                 *)
adjustTimeout_NoCallbacks ==
  IF timers = << >> \/ timers[1].left + 1 > PollTimeout THEN PollTimeout ELSE timers[1].left + 1
adjustTimeout ==
  IF ready # << >> THEN 0
  ELSE IF timers = << >> \/ timers[1].left + 1 > PollTimeout THEN PollTimeout
  ELSE timers[1].left + 1

Select == /\ pc = "adjust" /\ pc' = "select" /\ until' = adjustTimeout
          /\ Unchanged /\ UNCHANGED <<timers, task, op, started, keys, io>>

(* epoll reports the watched events, and a peer that hung up unasked.      *)
Possible(fd) == {e \in Events : IF e = "read" THEN inbox[fd] > 0 \/ hungup[fd] ELSE room[fd] > 0}
Reported == {fd \in Sockets : /\ fds[fd].interest # {}
                              /\ hungup[fd] \/ Possible(fd) \cap fds[fd].interest # {}}
SelectReturns ==
  /\ pc = "select" /\ (Reported # {} \/ until = 0)
  /\ \E q \in SetToSeqs(Reported) :
       keys' = [i \in DOMAIN q |-> [fd |-> q[i], events |-> Possible(q[i]) \cap fds[q[i]].interest,
                                    counts |-> [read |-> 0, write |-> 0]]]
  /\ pc' = "dispatch" /\ until' = 0 /\ Unchanged /\ UNCHANGED <<timers, task, op, started, io>>

Fd == keys[1].fd
Dispatching == pc = "dispatch" /\ keys # << >>
IoOnly == UNCHANGED <<timers, pc, task, op, started, until>>

Lists(s, fd, event) == IF event = "read" THEN s.fds[fd].readList ELSE s.fds[fd].writeList
SetList(s, fd, event, list) ==
  IF event = "read" THEN [s EXCEPT !.fds[fd].readList = list]
                    ELSE [s EXCEPT !.fds[fd].writeList = list]

(* processBasicCallbacks moves the list out before it calls anybody, for   *)
(* the readers first.                                                      *)
MoveOut ==
  /\ Dispatching /\ io.event = "none" /\ keys[1].events # {}
  /\ LET e == IF "read" \in keys[1].events THEN "read" ELSE "write" IN
       /\ io' = [event |-> e, cur |-> Lists(State, Fd, e), new |-> << >>]
       /\ keys' = [keys EXCEPT ![1].events = @ \ {e}]
       /\ Becomes(SetList(State, Fd, e, << >>))
  /\ IoOnly

CallsNext == Dispatching /\ io.cur # << >>
Done    == io' = [io EXCEPT !.cur = Tail(@)]
(* Mutant: the next callback is tried although this one could do nothing.  *)
Extinguished_Not == io' = [io EXCEPT !.cur = Tail(@), !.new = Append(@, io.cur[1])]
(* Nobody behind a callback that wants to be called again is called.       *)
Extinguished == io' = [io EXCEPT !.cur = << >>, !.new = @ \o io.cur]

CallBack ==
  /\ CallsNext /\ io.cur[1] # Watcher
  /\ Becomes(Attempt(State, Fd, io.cur[1]))
  /\ IF Again(State, Fd, io.cur[1]) THEN Extinguished ELSE Done
  /\ UNCHANGED keys /\ IoOnly
(* The program's callback may stay, leave, add itself again, start another *)
(* recv, or close a socket.                                                *)
CallWatcher ==
  /\ CallsNext /\ io.cur[1] = Watcher
  /\ \/ fds[Fd].open /\ Extinguished /\ Unchanged
     \/ Done /\ Unchanged
     \/ fds[Fd].open /\ Done /\ Becomes(addRead(State, Fd, Watcher))
     \/ fds[Fd].open /\ Done /\ Room(1) /\ Becomes(recv(State, Fd))
     \/ \E fd \in Sockets : fds[fd].open /\ Done /\ Becomes(closeSocket(State, fd))
  /\ UNCHANGED keys /\ IoOnly

prependSeq(dest, src) == src \o dest
(* What is left goes back in front.  The socket may be gone by now.        *)
MoveBack ==
  LET s == SetList(State, Fd, io.event, prependSeq(Lists(State, Fd, io.event), io.new)) IN
  /\ Dispatching /\ io.event # "none" /\ io.cur = << >> /\ io' = NoIo
  /\ IF fds[Fd].open
     THEN /\ Becomes(s)
          /\ keys' = [keys EXCEPT ![1].counts = [read  |-> Len(s.fds[Fd].readList),
                                                 write |-> Len(s.fds[Fd].writeList)]]
     ELSE Unchanged /\ keys' = [keys EXCEPT ![1].counts = [read |-> -1, write |-> -1]]
  /\ IoOnly

(* Mutant: the readers are not counted.                                    *)
Counted_Writes == {e \in {"write"} : keys[1].counts[e] > 0}
Counted == {e \in Events : keys[1].counts[e] > 0}
(* The events are set from the counts, which are 0 if no list was looked   *)
(* at.  updateHandle asserts that the socket is registered.                *)
NextKey ==
  /\ Dispatching /\ io.event = "none" /\ keys[1].events = {}
  /\ keys' = Tail(keys)
  /\ IF keys[1].counts.read = -1 THEN Unchanged /\ UNCHANGED pc
     ELSE IF fds[Fd].open THEN Becomes(updateHandle(State, Fd, Counted)) /\ UNCHANGED pc
     ELSE pc' = "raised" /\ Unchanged
  /\ UNCHANGED <<timers, task, op, started, until, io>>

Dispatched == /\ pc = "dispatch" /\ keys = << >> /\ pc' = "callbacks" /\ processTimers
              /\ UNCHANGED <<task, op, started, until, keys, io>>

(* processPendingCallbacks                                                 *)
Popped == [State EXCEPT !.ready = Tail(@)]
(* Mutant: the timeout answers although the answer is there already.       *)
Elapsed_Always(ret) == Becomes(Finish(Popped, ret, "false"))
(* Mutant: the timeout does not answer.                                    *)
Elapsed_Never(ret) == Becomes(Popped)
Elapsed(ret) ==
  IF Finished(State, ret) THEN Becomes(Popped) ELSE Becomes(Finish(Popped, ret, "false"))
First(f, ret) ==
  IF Finished(State, ret) THEN Becomes(Popped)
  ELSE Becomes(Finish(Popped, ret, IF Failed(State, f) THEN "failed" ELSE "true"))

RunCallback ==
  /\ pc = "callbacks" /\ ready # << >>
  /\ LET cb == Head(ready) IN
       \/ /\ cb.kind = "resume" /\ Becomes(Popped) /\ task' = cb.task /\ pc' = "task"
       \/ /\ cb.kind = "first" /\ First(cb.of, cb.ret) /\ UNCHANGED <<task, pc>>
       \/ /\ cb.kind = "elapsed" /\ Elapsed(cb.ret) /\ UNCHANGED <<task, pc>>
  /\ UNCHANGED <<timers, op, started, until, keys, io>>
PollReturns == /\ pc = "callbacks" /\ ready = << >> /\ pc' = "poll"
               /\ Unchanged /\ UNCHANGED <<timers, task, op, started, until, keys, io>>

Loop == \/ StartTask \/ Poll \/ Select \/ SelectReturns
        \/ MoveOut \/ CallBack \/ CallWatcher \/ MoveBack \/ NextKey \/ Dispatched
        \/ RunCallback \/ PollReturns

-----------------------------------------------------------------------------
(* The environment                                                         *)

Arrive(fd) == /\ fds[fd].open /\ ~hungup[fd] /\ inbox[fd] < MaxInbox
              /\ inbox' = [inbox EXCEPT ![fd] = @ + 1]
              /\ UNCHANGED <<futs, ready, order, fds, room, hungup, loop>>
PeerReads(fd) == /\ fds[fd].open /\ room[fd] < SendRoom /\ room' = [room EXCEPT ![fd] = @ + 1]
                 /\ UNCHANGED <<futs, ready, order, fds, inbox, hungup, loop>>
HangUp(fd) == /\ fds[fd].open /\ ~hungup[fd] /\ hungup' = [hungup EXCEPT ![fd] = TRUE]
              /\ UNCHANGED <<futs, ready, order, fds, inbox, room, loop>>
Less(n) == IF n = 0 THEN 0 ELSE n - 1
Tick == /\ until > 0 \/ \E i \in DOMAIN timers : timers[i].left > 0
        /\ until' = Less(until)
        /\ timers' = [i \in DOMAIN timers |-> [timers[i] EXCEPT !.left = Less(@)]]
        /\ Unchanged /\ UNCHANGED <<pc, task, op, started, keys, io>>

Environment == Tick \/ \E fd \in Sockets : Arrive(fd) \/ PeerReads(fd) \/ HangUp(fd)

Ended == pc = "raised" \/ (pc = "poll" /\ started = NTasks /\ ~Awaited)
Stopped == Ended /\ UNCHANGED vars

Next == Operation \/ Loop \/ Environment \/ Stopped
Spec == Init /\ [][Next]_vars
(* Main polls, callbacks return and time passes; the peers owe nothing.    *)
FairSpec == Spec /\ WF_vars(Operation \/ Loop) /\ WF_vars(Tick)

-----------------------------------------------------------------------------
Callback == [kind : {"resume"}, task : Tasks]
            \cup [kind : {"first"}, of : 1 .. MaxFutures, ret : 1 .. MaxFutures]
            \cup [kind : {"elapsed"}, ret : 1 .. MaxFutures]
Answers == {"none", "done", "data", "end", "true", "false", "failed"}
IoList(list) == \A i \in DOMAIN list : list[i] \in 0 .. Len(futs)

TypeOK ==
  /\ Len(futs) \in NTasks .. MaxFutures
  /\ \A f \in DOMAIN futs : /\ futs[f].kind \in {"task", "recv", "send", "sleep", "timeout"}
                            /\ futs[f].left \in Nat /\ futs[f].answer \in Answers
                            /\ \A i \in DOMAIN futs[f].callbacks : futs[f].callbacks[i] \in Callback
  /\ \A i \in DOMAIN ready : ready[i] \in Callback
  /\ \A fd \in Sockets : /\ fds[fd].open \in BOOLEAN /\ fds[fd].interest \subseteq Events
                         /\ IoList(fds[fd].readList) /\ IoList(fds[fd].writeList)
  /\ inbox \in [Sockets -> 0 .. MaxInbox] /\ room \in [Sockets -> 0 .. SendRoom]
  /\ hungup \in [Sockets -> BOOLEAN]
  /\ pc \in {"poll", "main", "adjust", "select", "dispatch", "callbacks", "task", "raised"}
  /\ task \in 0 .. NTasks /\ (task # 0 <=> Running) /\ op \in [Tasks -> 0 .. MaxFutures]
  /\ started \in 0 .. NTasks /\ until \in Nat /\ io.event \in Events \cup {"none"}

Pending(f) == ~Finished(State, f)
Ops(kind, fd) == {f \in DOMAIN futs : futs[f].kind = kind /\ futs[f].of = fd}
Times(x, s) == Cardinality({i \in DOMAIN s : s[i] = x})

(* An operation that has not finished is known to the loop, once: its      *)
(* callback is in the socket's list or among those being called.  So data, *)
(* or the closing of the socket, will reach it.                            *)
OperationsKept ==
  \A fd \in Sockets, kind \in {"recv", "send"} : \A f \in Ops(kind, fd) :
    LET inList == Times(f, fds[fd].readList \o fds[fd].writeList)
        called == IF keys # << >> /\ Fd = fd THEN Times(f, io.cur \o io.new) ELSE 0
    IN inList + called = IF Pending(f) THEN 1 ELSE 0

(* Where the callback of a task is: with futures, or ready to be called.   *)
PlacesHeld(t) ==
  UNION {{f} \X {i \in DOMAIN futs[f].callbacks : futs[f].callbacks[i] = Resume(t)}
           : f \in DOMAIN futs}
Places(t) == PlacesHeld(t) \cup {0} \X {i \in DOMAIN ready : ready[i] = Resume(t)}
(* Whoever awaits something is resumed once: its callback is in exactly    *)
(* one place, with an unfinished future or ready to be called.             *)
ResumedOnce ==
  \A t \in Tasks :
    Cardinality(Places(t)) = IF t <= started /\ t # task /\ Pending(t) THEN 1 ELSE 0

(* When the loop waits, epoll watches for just what the lists wait for.    *)
(* "because state `data` can be modified in callback we need to update     *)
(* descriptor events with currently registered callbacks" (lines 1355-56). *)
Watched(fd) == pc = "select" /\ fds[fd].open => fds[fd].interest = Listed(State, fd)
WatchedAlways == \A fd \in Sockets : Watched(fd)
(* While the loop sleeps nothing is overlooked: it is so as long as the    *)
(* peer has not hung up, and epoll_wait gives up when the first timer is   *)
(* due, and at once if there are callbacks to call.                        *)
NothingOverlooked ==
  /\ \A fd \in Sockets : ~hungup[fd] => Watched(fd)
  /\ pc = "select" => /\ ready # << >> => until = 0
                      /\ timers # << >> => until <= timers[1].left + 1

(* Two receivers of one socket are served in the order they asked.         *)
ServedInOrder ==
  \A fd \in Sockets : \A f, g \in Ops("recv", fd) :
    f < g /\ futs[g].answer = "data" => futs[f].answer = "data"

(* A future finishes once, and the answer of withTimeout tells which of    *)
(* the two finished first.                                                 *)
Before(f, g) == \E i, j \in DOMAIN order : i < j /\ order[i] = f /\ order[j] = g
AnswersTell ==
  /\ \A f \in DOMAIN futs : Times(f, order) = IF Pending(f) THEN 0 ELSE 1
  /\ \A r \in DOMAIN futs : futs[r].kind = "timeout" /\ ~Pending(r) =>
       LET f == futs[r].of IN
         IF futs[r].answer = "false" THEN ~Pending(r + 1) /\ ~Before(f, r + 1)
         ELSE ~Pending(f) /\ ~Before(r + 1, f)

(* While a task awaits something the loop has something to wait for, so    *)
(* poll does not raise "No handles or timers registered in dispatcher",    *)
(* unless a peer has hung up.                                              *)
NeverIdle == pc = "raised" => \E fd \in Sockets : hungup[fd]

(* A timeout is answered while main polls, whatever the sockets do.        *)
Unanswered == \E r \in DOMAIN futs : futs[r].kind = "timeout" /\ Pending(r)
TimeoutsAnswer == Unanswered ~> Ended \/ ~Unanswered

(* A message that has arrived is handed to a receiver that waits, unless a *)
(* callback of the program's own, which may return FALSE and so keep those *)
(* behind it waiting, shares the socket.                                   *)
MessagesReachReceivers ==
  \A fd \in Sockets :
    inbox[fd] > 0 /\ (\E f \in Ops("recv", fd) : Pending(f))
      ~> \/ Ended \/ inbox[fd] = 0 \/ Contains(fds[fd].readList, Watcher)
         \/ \A f \in Ops("recv", fd) : ~Pending(f)
=============================================================================
