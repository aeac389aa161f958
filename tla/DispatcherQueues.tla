-------------------------- MODULE DispatcherQueues --------------------------
(***************************************************************************)
(* Theorems about what the loop has to call and to wait for: no operation  *)
(* is lost or called for twice, receivers are served in turn, nothing is   *)
(* overlooked while the loop waits, who awaits something is resumed once,  *)
(* a timeout is answered by what comes first, and the loop never has       *)
(* nothing to wait for while somebody awaits something.                    *)
(***************************************************************************)
EXTENDS DispatcherProofs

(***************************************************************************)
(* Where the loop may be, and what processBasicCallbacks then holds.       *)
(***************************************************************************)
PlaceInv ==
  /\ keys # << >> => ~Elsewhere
  /\ io.event = "none" => io.cur = << >> /\ io.new = << >>
  /\ io.event # "none" => keys # << >> /\ pc = "dispatch"
  /\ io.new # << >> => io.cur = << >> /\ fds[Fd].open

(* The steps in which no list of the loop moves.                           *)
LEMMA Resting ==
  ASSUME DataInv, LoopInv, PlaceInv, Moves,
         ~MoveOut, ~CallBack, ~CallWatcher, ~MoveBack, ~NextKey, ~SelectReturns
  PROVE  /\ UNCHANGED <<io, keys, Fd>> /\ (keys = << >> \/ (pc' = pc /\ fds' = fds))
         /\ \/ Quiet
            \/ /\ keys = << >>
               /\ \E fd \in Sockets : fds[fd].open /\ (Shut(fd) \/ Watches(fd) \/ \E k \in IoKinds : Asked(k, fd))
<1>1. Elsewhere => keys = << >>
  BY DEF PlaceInv
<1>2. io' = io /\ keys' = keys
  BY DEF Moves
<1>3. Quiet => fds' = fds
  BY DEF Quiet
<1> QED BY <1>1, <1>2, <1>3 DEF Moves, Fd

LEMMA PlaceKept ==
  ASSUME DataInv, LoopInv, PlaceInv, Moves
  PROVE  PlaceInv'
<1>1. CASE SelectReturns
  <2>1. pc = "select" /\ pc' = "dispatch" /\ io' = io
    BY <1>1 DEF SelectReturns
  <2>2. keys = << >> /\ io.event = "none" /\ io.cur = << >> /\ io.new = << >>
    BY <2>1 DEF PlaceInv, Elsewhere
  <2> QED BY <2>1, <2>2 DEF PlaceInv, Elsewhere
<1>2. CASE MoveOut
  <2>1. io'.event \in Events /\ io'.new = << >> /\ keys' = [keys EXCEPT ![1].events = @ \ {io'.event}]
    BY <1>2, MoveOutDoes
  <2>2. keys # << >> /\ pc' = pc /\ pc = "dispatch"
    BY <1>2 DEF MoveOut, Dispatching, IoOnly
  <2>3. keys' # << >>
    BY <2>1, <2>2 DEF LoopInv
  <2> QED BY <2>1, <2>2, <2>3 DEF PlaceInv, Elsewhere, Events
<1>3. CASE CallBack
  <2>1. keys' = keys /\ pc' = pc /\ pc = "dispatch" /\ io.cur # << >> /\ keys # << >>
    BY <1>3 DEF CallBack, IoOnly, CallsNext, Dispatching
  <2>2. io.event # "none" /\ io.new = << >>
    BY <2>1 DEF PlaceInv
  <2>3. CASE Again(State, Fd, io.cur[1])
    <3>1. Remains /\ fds' = fds /\ fds[Fd].open
      BY <1>3, <2>3, CallBackDoes DEF Tried, Again, State
    <3>2. io'.event = io.event /\ io'.cur = << >>
      BY <3>1 DEF Remains
    <3>3. fds'[Fd'].open
      BY <2>1, <3>1 DEF Fd
    <3> QED BY <2>1, <2>2, <3>2, <3>3 DEF PlaceInv, Elsewhere
  <2>4. CASE ~Again(State, Fd, io.cur[1])
    <3>1. Leaves
      BY <1>3, <2>4, CallBackDoes
    <3>2. io'.event = io.event /\ io'.new = << >>
      BY <2>2, <3>1 DEF Leaves
    <3> QED BY <2>1, <2>2, <3>2 DEF PlaceInv, Elsewhere
  <2> QED BY <2>3, <2>4
<1>4. CASE CallWatcher
  <2>1. keys' = keys /\ pc' = pc /\ pc = "dispatch" /\ io.cur # << >> /\ keys # << >>
    BY <1>4 DEF CallWatcher, IoOnly, CallsNext, Dispatching
  <2>2. io.event # "none" /\ io.new = << >>
    BY <2>1 DEF PlaceInv
  <2>3. CASE Leaves
    <3>1. io'.event = io.event /\ io'.new = << >>
      BY <2>2, <2>3 DEF Leaves
    <3> QED BY <2>1, <2>2, <3>1 DEF PlaceInv, Elsewhere
  <2>4. CASE Unchanged /\ fds[Fd].open /\ Remains
    <3>1. io'.event = io.event /\ io'.cur = << >>
      BY <2>4 DEF Remains
    <3>2. fds'[Fd'].open
      BY <2>1, <2>4 DEF Unchanged, Fd
    <3> QED BY <2>1, <2>2, <3>1, <3>2 DEF PlaceInv, Elsewhere
  <2> QED BY <1>4, <2>3, <2>4, CallWatcherDoes
<1>5. CASE MoveBack
  <2>1. io' = NoIo /\ pc' = pc /\ pc = "dispatch"
    BY <1>5 DEF MoveBack, Dispatching, IoOnly
  <2> QED BY <2>1 DEF PlaceInv, NoIo, Elsewhere
<1>6. CASE NextKey
  <2>1. io' = io /\ io.event = "none" /\ pc' \in {"dispatch", "raised"}
    BY <1>6 DEF NextKey, Dispatching
  <2> QED BY <2>1 DEF PlaceInv, Elsewhere
<1>7. CASE ~MoveOut /\ ~CallBack /\ ~CallWatcher /\ ~MoveBack /\ ~NextKey /\ ~SelectReturns
  <2>1. UNCHANGED <<io, keys, Fd>> /\ (keys = << >> \/ (pc' = pc /\ fds' = fds))
    BY <1>7, Resting
  <2>2. CASE keys = << >>
    <3>1. io.event = "none" /\ io.new = << >> /\ io.cur = << >>
      BY <2>2 DEF PlaceInv
    <3> QED BY <2>1, <2>2, <3>1 DEF PlaceInv
  <2>3. CASE pc' = pc /\ fds' = fds
    BY <2>1, <2>3 DEF PlaceInv, Elsewhere
  <2> QED BY <2>1, <2>2, <2>3
<1> QED BY <1>1, <1>2, <1>3, <1>4, <1>5, <1>6, <1>7

(***************************************************************************)
(* A list of callbacks is of one kind and one socket.                      *)
(***************************************************************************)
Belongs(F, list, kind, fd) ==
  \A i \in 1 .. Len(list) :
    \/ list[i] = Watcher /\ kind = "recv"
    \/ list[i] # Watcher /\ F[list[i]].kind = kind /\ F[list[i]].of = fd
KindOf(event) == IF event = "read" THEN "recv" ELSE "send"

ListInv ==
  /\ \A fd \in Sockets : /\ Belongs(futs, fds[fd].readList, "recv", fd)
                         /\ Belongs(futs, fds[fd].writeList, "send", fd)
  /\ io.event # "none" => /\ Belongs(futs, io.cur, KindOf(io.event), Fd)
                          /\ Belongs(futs, io.new, KindOf(io.event), Fd)

LEMMA BelongsEmpty == ASSUME NEW F, NEW k, NEW fd PROVE Belongs(F, << >>, k, fd)
BY DEF Belongs

LEMMA BelongsTail ==
  ASSUME NEW S, NEW s \in Seq(S), s # << >>, NEW F, NEW k, NEW fd, Belongs(F, s, k, fd)
  PROVE  Belongs(F, Tail(s), k, fd)
<1>1. Len(Tail(s)) = Len(s) - 1 /\ Len(s) \in Nat /\ \A i \in 1 .. Len(s) - 1 : Tail(s)[i] = s[i + 1]
  BY HeadTailProperties, LenProperties
<1>2. \A i \in 1 .. Len(s) - 1 : i + 1 \in 1 .. Len(s)
  BY <1>1
<1> QED BY <1>1, <1>2 DEF Belongs

LEMMA BelongsConcat ==
  ASSUME NEW S, NEW s \in Seq(S), NEW t \in Seq(S), NEW F, NEW k, NEW fd,
         Belongs(F, s, k, fd), Belongs(F, t, k, fd)
  PROVE  Belongs(F, s \o t, k, fd)
<1>1. /\ Len(s \o t) = Len(s) + Len(t) /\ Len(s) \in Nat /\ Len(t) \in Nat
      /\ \A i \in 1 .. Len(s) + Len(t) : (s \o t)[i] = IF i <= Len(s) THEN s[i] ELSE t[i - Len(s)]
  BY ConcatProperties, LenProperties
<1>2. \A i \in 1 .. Len(s) + Len(t) : i <= Len(s) => i \in 1 .. Len(s)
  BY <1>1
<1>3. \A i \in 1 .. Len(s) + Len(t) : ~(i <= Len(s)) => i - Len(s) \in 1 .. Len(t)
  BY <1>1
<1> QED BY <1>1, <1>2, <1>3 DEF Belongs

LEMMA BelongsAppend ==
  ASSUME NEW S, NEW s \in Seq(S), NEW x \in S, NEW F, NEW k, NEW fd, Belongs(F, s, k, fd),
         \/ x = Watcher /\ k = "recv"
         \/ x # Watcher /\ F[x].kind = k /\ F[x].of = fd
  PROVE  Belongs(F, Append(s, x), k, fd)
<1>1. Append(s, x) = s \o <<x>> /\ <<x>> \in Seq(S)
  BY AppendIsConcat
<1>2. Belongs(F, <<x>>, k, fd)
  BY DEF Belongs
<1> QED BY <1>1, <1>2, BelongsConcat

(* Futures stay of their kind.                                             *)
LEMMA BelongsStill ==
  ASSUME NEW n \in Nat, NEW s \in Seq(0 .. n), NEW F, NEW G, NEW k, NEW fd, Belongs(F, s, k, fd),
         \A g \in 1 .. n : G[g].kind = F[g].kind /\ G[g].of = F[g].of
  PROVE  Belongs(G, s, k, fd)
<1>1. \A i \in 1 .. Len(s) : s[i] \in 0 .. n
  BY ElementOfSeq
<1>2. \A i \in 1 .. Len(s) : s[i] # Watcher => s[i] \in 1 .. n
  BY <1>1 DEF Watcher
<1> QED BY <1>2 DEF Belongs

SameKinds == \A g \in 1 .. Len(futs) : futs'[g].kind = futs[g].kind /\ futs'[g].of = futs[g].of
BothBelong(F, d, fd) == Belongs(F, d.readList, "recv", fd) /\ Belongs(F, d.writeList, "send", fd)

LEMMA ListsTyped ==
  ASSUME DataInv, NEW fd \in Sockets
  PROVE  /\ Len(futs) \in Nat /\ fds[fd].open \in BOOLEAN
         /\ fds[fd].readList \in Seq(0 .. Len(futs)) /\ fds[fd].writeList \in Seq(0 .. Len(futs))
<1>1. Len(futs) \in Nat /\ State \in States(Len(futs), Of("timeout"))
  BY FutsTyped DEF DataInv
<1>2. State.fds[fd] \in Descriptor(Len(futs))
  BY <1>1, At
<1> QED BY <1>1, <1>2 DEF State, Descriptor

LEMMA BothStill ==
  ASSUME DataInv, SameKinds, NEW fd \in Sockets, BothBelong(futs, fds[fd], fd)
  PROVE  BothBelong(futs', fds[fd], fd)
BY ListsTyped, BelongsStill DEF SameKinds, BothBelong

LEMMA ListsStill ==
  ASSUME DataInv, ListInv, SameKinds, NEW fd \in Sockets, \A g \in Sockets : g # fd => fds'[g] = fds[g],
         BothBelong(futs', fds'[fd], fd)
  PROVE  \A g \in Sockets : BothBelong(futs', fds'[g], g)
<1>1. \A g \in Sockets : BothBelong(futs, fds[g], g)
  BY DEF ListInv, BothBelong
<1>2. \A g \in Sockets : BothBelong(futs', fds[g], g)
  BY <1>1, BothStill
<1>3. ASSUME NEW g \in Sockets, g # fd PROVE BothBelong(futs', fds'[g], g)
  BY <1>2, <1>3
<1> QED BY <1>3

LEMMA AskedLists ==
  ASSUME DataInv, ListInv, NEW fd \in Sockets, NEW k \in IoKinds, Asked(k, fd)
  PROVE  SameKinds /\ \A g \in Sockets : BothBelong(futs', fds'[g], g)
<1> DEFINE n == Len(futs)
           F == futs'
<1>1. SameKinds /\ \A g \in Sockets : g # fd => fds'[g] = fds[g]
  BY DEF Asked, Kept, SameKinds, Others
<1>2. BothBelong(F, fds[fd], fd)
  BY <1>1, BothStill DEF ListInv, BothBelong
<1>3. /\ n \in Nat /\ n + 1 \in 0 .. n + 1 /\ n + 1 # Watcher
      /\ fds[fd].readList \in Seq(0 .. n + 1) /\ fds[fd].writeList \in Seq(0 .. n + 1)
  <2>1. n \in Nat
    BY ListsTyped
  <2>2. 0 .. n \subseteq 0 .. n + 1 /\ n + 1 \in 0 .. n + 1 /\ n + 1 # Watcher
    BY <2>1 DEF Watcher
  <2>3. Seq(0 .. n) \subseteq Seq(0 .. n + 1)
    BY <2>2, SeqMonotonic
  <2> QED BY <2>1, <2>2, <2>3, ListsTyped
<1>4. F[n + 1].kind = k /\ F[n + 1].of = fd
  BY DEF Asked
<1> HIDE DEF n, F
<1>5. BothBelong(F, fds'[fd], fd)
  <2>1. CASE k = "recv"
    <3>1. Belongs(F, Append(fds[fd].readList, n + 1), "recv", fd)
      BY <1>2, <1>3, <1>4, <2>1, BelongsAppend DEF BothBelong
    <3> QED BY <1>2, <2>1, <3>1 DEF Asked, BothBelong, n
  <2>2. CASE k = "send"
    <3>1. Belongs(F, Append(fds[fd].writeList, n + 1), "send", fd)
      BY <1>2, <1>3, <1>4, <2>2, BelongsAppend DEF BothBelong
    <3> QED BY <1>2, <2>2, <3>1 DEF Asked, BothBelong, n
  <2> QED BY <2>1, <2>2 DEF IoKinds
<1> QED BY <1>1, <1>5, ListsStill DEF F

LEMMA ShutLists ==
  ASSUME DataInv, ListInv, NEW fd \in Sockets, Shut(fd)
  PROVE  SameKinds /\ \A g \in Sockets : BothBelong(futs', fds'[g], g)
<1>1. SameKinds /\ \A g \in Sockets : g # fd => fds'[g] = fds[g]
  BY DEF Shut, Kept, SameKinds, Others
<1>2. fds'[fd].readList = << >> /\ fds'[fd].writeList = << >>
  BY DEF Shut, Closed
<1>3. BothBelong(futs', fds'[fd], fd)
  BY <1>2, BelongsEmpty DEF BothBelong
<1> QED BY <1>1, <1>3, ListsStill

LEMMA RelistedLists ==
  ASSUME DataInv, ListInv, NEW fd \in Sockets, NEW reads, NEW writes, NEW e,
         Relisted(fd, reads, writes, e),
         reads \in Seq(0 .. Len(futs)), Belongs(futs, reads, "recv", fd),
         writes \in Seq(0 .. Len(futs)), Belongs(futs, writes, "send", fd)
  PROVE  SameKinds /\ \A g \in Sockets : BothBelong(futs', fds'[g], g)
<1>1. SameKinds /\ \A g \in Sockets : g # fd => fds'[g] = fds[g]
  BY DEF Relisted, Kept, SameKinds, Others
<1>2. fds'[fd].readList = reads /\ fds'[fd].writeList = writes
  BY DEF Relisted
<1>3. Belongs(futs', reads, "recv", fd) /\ Belongs(futs', writes, "send", fd)
  BY <1>1, FutsTyped, BelongsStill DEF SameKinds
<1>4. BothBelong(futs', fds'[fd], fd)
  BY <1>2, <1>3 DEF BothBelong
<1> QED BY <1>1, <1>4, ListsStill

LEMMA WatchesLists ==
  ASSUME DataInv, ListInv, NEW fd \in Sockets, Watches(fd)
  PROVE  SameKinds /\ \A g \in Sockets : BothBelong(futs', fds'[g], g)
<1>1. PICK reads, writes, e :
         /\ Relisted(fd, reads, writes, e)
         /\ reads = Append(fds[fd].readList, Watcher) /\ writes = fds[fd].writeList
  BY DEF Watches
<1>2. /\ Watcher \in 0 .. Len(futs) /\ fds[fd].readList \in Seq(0 .. Len(futs))
      /\ fds[fd].writeList \in Seq(0 .. Len(futs))
      /\ Belongs(futs, fds[fd].readList, "recv", fd) /\ Belongs(futs, fds[fd].writeList, "send", fd)
  BY ListsTyped DEF Watcher, ListInv
<1>3. reads \in Seq(0 .. Len(futs)) /\ Belongs(futs, reads, "recv", fd)
  BY <1>1, <1>2, AppendProperties, BelongsAppend
<1> QED BY <1>1, <1>2, <1>3, RelistedLists

LEMMA StillLists ==
  ASSUME DataInv, ListInv, SameKinds, fds' = fds
  PROVE  \A g \in Sockets : BothBelong(futs', fds'[g], g)
BY BothStill DEF ListInv, BothBelong

(* What processBasicCallbacks holds.                                       *)
LEMMA HeldLists ==
  ASSUME DataInv, ListInv, SameKinds, Fd' = Fd, io.event # "none",
         Leaves \/ Remains \/ io' = io, io' = io \/ io.cur # << >>
  PROVE  /\ Belongs(futs', io'.cur, KindOf(io'.event), Fd')
         /\ Belongs(futs', io'.new, KindOf(io'.event), Fd')
<1>1. io.cur \in Seq(0 .. Len(futs)) /\ io.new \in Seq(0 .. Len(futs)) /\ Len(futs) \in Nat
  BY IoTyped, FutsTyped
<1> DEFINE k == KindOf(io.event)
<1>2. Belongs(futs', io.cur, k, Fd) /\ Belongs(futs', io.new, k, Fd)
  <2>1. Belongs(futs, io.cur, k, Fd) /\ Belongs(futs, io.new, k, Fd)
    BY DEF ListInv
  <2> HIDE DEF k
  <2> QED BY <1>1, <2>1, BelongsStill DEF SameKinds
<1>3. io.cur # << >> => Belongs(futs', Tail(io.cur), k, Fd)
  <2> HIDE DEF k
  <2> QED BY <1>1, <1>2, BelongsTail
<1>4. Belongs(futs', io.new \o io.cur, k, Fd) /\ Belongs(futs', << >>, k, Fd)
  <2> HIDE DEF k
  <2> QED BY <1>1, <1>2, BelongsConcat, BelongsEmpty
<1>5. CASE Leaves
  <2>1. io'.event = io.event /\ io'.new = io.new /\ io'.cur = Tail(io.cur)
    BY <1>5 DEF Leaves
  <2>2. CASE io' # io
    BY <1>2, <1>3, <2>1, <2>2
  <2>3. CASE io' = io
    BY <1>2, <2>3
  <2> QED BY <2>2, <2>3
<1>6. CASE Remains
  <2>1. io'.event = io.event /\ io'.new = io.new \o io.cur /\ io'.cur = << >>
    BY <1>6 DEF Remains
  <2> QED BY <1>4, <2>1
<1>7. CASE io' = io
  BY <1>2, <1>7
<1> QED BY <1>5, <1>6, <1>7

LEMMA ListKept ==
  ASSUME DataInv, LoopInv, PlaceInv, ListInv, Moves
  PROVE  ListInv' /\ SameKinds
<1> DEFINE Both == \A g \in Sockets : BothBelong(futs', fds'[g], g)
<1>1. CASE SelectReturns
  <2>1. io' = io /\ pc = "select" /\ fds' = fds /\ SameKinds
    BY <1>1, SelectReturnsDoes DEF SelectReturns, Quiet, SameKinds
  <2>2. io.event = "none"
    BY <2>1 DEF PlaceInv
  <2> QED BY <2>1, <2>2, StillLists DEF ListInv, BothBelong
<1>2. CASE MoveOut
  <2>1. /\ io'.event \in Events /\ io'.new = << >>
        /\ io'.cur = IF io'.event = "read" THEN fds[Fd].readList ELSE fds[Fd].writeList
        /\ Relisted(Fd, IF io'.event = "read" THEN << >> ELSE fds[Fd].readList,
                        IF io'.event = "read" THEN fds[Fd].writeList ELSE << >>, fds[Fd].interest)
        /\ keys' = [keys EXCEPT ![1].events = @ \ {io'.event}]
    BY <1>2, MoveOutDoes
  <2>2. /\ Fd \in Sockets /\ keys[1] \in Key /\ Len(keys) \in Nat \ {0}
        /\ fds[Fd].readList \in Seq(0 .. Len(futs)) /\ fds[Fd].writeList \in Seq(0 .. Len(futs))
    BY <1>2, AtFd DEF MoveOut, Dispatching
  <2>3. Fd' = Fd
    BY <2>1, <2>2 DEF Fd, Key, LoopInv
  <2>4. /\ Belongs(futs, fds[Fd].readList, "recv", Fd) /\ Belongs(futs, fds[Fd].writeList, "send", Fd)
    BY <2>2 DEF ListInv
  <2>5. PICK fd, reads, writes, e :
           /\ fd \in Sockets /\ fd = Fd /\ Relisted(fd, reads, writes, e)
           /\ reads \in {<< >>, fds[Fd].readList} /\ writes \in {<< >>, fds[Fd].writeList}
    BY <2>1, <2>2
  <2>6. /\ reads \in Seq(0 .. Len(futs)) /\ Belongs(futs, reads, "recv", fd)
        /\ writes \in Seq(0 .. Len(futs)) /\ Belongs(futs, writes, "send", fd)
    BY <2>2, <2>4, <2>5, BelongsEmpty, EmptySeq
  <2>7. SameKinds /\ Both
    BY <2>5, <2>6, RelistedLists
  <2>8. Belongs(futs', io'.cur, KindOf(io'.event), Fd')
    <3>1. Belongs(futs', fds[fd].readList, "recv", fd) /\ Belongs(futs', fds[fd].writeList, "send", fd)
      BY <2>4, <2>5, <2>7, BothStill DEF BothBelong
    <3> QED BY <2>1, <2>3, <2>5, <3>1 DEF KindOf
  <2>9. Belongs(futs', io'.new, KindOf(io'.event), Fd')
    BY <2>1, BelongsEmpty
  <2> QED BY <2>7, <2>8, <2>9 DEF ListInv, BothBelong
<1>3. CASE CallBack
  <2>1. Tried(Fd, io.cur[1]) /\ (Leaves \/ Remains)
    BY <1>3, CallBackDoes
  <2>2. fds' = fds /\ SameKinds
    BY <2>1 DEF Tried, Kept, SameKinds
  <2>3. Both
    BY <2>2, StillLists
  <2>4. Fd' = Fd /\ io.cur # << >> /\ io.event # "none"
    BY <1>3 DEF CallBack, CallsNext, Fd, PlaceInv
  <2> QED BY <2>1, <2>2, <2>3, <2>4, HeldLists DEF ListInv, BothBelong
<1>4. CASE CallWatcher
  <2>1. Fd \in Sockets /\ Fd' = Fd /\ io.cur # << >> /\ io.event # "none"
    BY <1>4, AtFd DEF CallWatcher, CallsNext, Fd, PlaceInv, Dispatching
  <2>2. Leaves \/ Remains
    BY <1>4, CallWatcherDoes
  <2>3. SameKinds /\ Both
    <3>1. PICK fd : fd = Fd
      OBVIOUS
    <3>2. CASE Unchanged
      BY <3>2, StillLists DEF Unchanged, SameKinds
    <3>3. CASE Watches(Fd)
      BY <2>1, <3>1, <3>3, WatchesLists
    <3>4. CASE Asked("recv", Fd)
      BY <2>1, <3>1, <3>4, AskedLists DEF IoKinds
    <3>5. CASE \E g \in Sockets : Shut(g)
      BY <3>5, ShutLists
    <3> QED BY <1>4, <3>2, <3>3, <3>4, <3>5, CallWatcherDoes
  <2> QED BY <2>1, <2>2, <2>3, HeldLists DEF ListInv, BothBelong
<1>5. CASE MoveBack
  <2>1. PICK reads, writes :
          /\ reads = IF io.event = "read" THEN io.new \o fds[Fd].readList ELSE fds[Fd].readList
          /\ writes = IF io.event = "read" THEN fds[Fd].writeList ELSE io.new \o fds[Fd].writeList
    OBVIOUS
  <2>2. /\ io' = NoIo /\ io.event # "none"
        /\ Unchanged \/ Relisted(Fd, reads, writes, fds[Fd].interest)
    BY <1>5, <2>1, MoveBackDoes DEF MoveBack
  <2>3. io'.event = "none"
    BY <2>2 DEF NoIo
  <2>4. SameKinds /\ Both
    <3>1. CASE Unchanged
      BY <3>1, StillLists DEF Unchanged, SameKinds
    <3>2. CASE Relisted(Fd, reads, writes, fds[Fd].interest)
      <4>1. PICK fd, e : fd \in Sockets /\ fd = Fd /\ e = fds[Fd].interest
        BY <1>5, AtFd DEF MoveBack, Dispatching
      <4>2. /\ io.new \in Seq(0 .. Len(futs)) /\ fds[fd].readList \in Seq(0 .. Len(futs))
            /\ fds[fd].writeList \in Seq(0 .. Len(futs))
            /\ Belongs(futs, fds[fd].readList, "recv", fd) /\ Belongs(futs, fds[fd].writeList, "send", fd)
            /\ Belongs(futs, io.new, KindOf(io.event), fd)
        BY <2>2, <4>1, IoTyped, ListsTyped DEF ListInv
      <4>3. CASE io.event = "read"
        <5>1. reads = io.new \o fds[fd].readList /\ writes = fds[fd].writeList
          BY <2>1, <4>1, <4>3
        <5>2. reads \in Seq(0 .. Len(futs)) /\ Belongs(futs, reads, "recv", fd)
          BY <4>2, <4>3, <5>1, BelongsConcat, ConcatProperties DEF KindOf
        <5> QED BY <3>2, <4>1, <4>2, <5>1, <5>2, RelistedLists
      <4>4. CASE io.event # "read"
        <5>1. reads = fds[fd].readList /\ writes = io.new \o fds[fd].writeList
          BY <2>1, <4>1, <4>4
        <5>2. writes \in Seq(0 .. Len(futs)) /\ Belongs(futs, writes, "send", fd)
          BY <4>2, <4>4, <5>1, BelongsConcat, ConcatProperties DEF KindOf
        <5> QED BY <3>2, <4>1, <4>2, <5>1, <5>2, RelistedLists
      <4> QED BY <4>3, <4>4
    <3> QED BY <2>2, <3>1, <3>2
  <2> QED BY <2>3, <2>4 DEF ListInv, BothBelong
<1>6. CASE NextKey
  <2>1. io' = io /\ io.event = "none"
    BY <1>6 DEF NextKey
  <2>2. SameKinds /\ Both
    <3>1. CASE Unchanged
      BY <3>1, StillLists DEF Unchanged, SameKinds
    <3>2. CASE Relisted(Fd, fds[Fd].readList, fds[Fd].writeList, Counted)
      <4>1. PICK fd, e : fd \in Sockets /\ fd = Fd /\ e = Counted
        BY <1>6, AtFd DEF NextKey, Dispatching
      <4>2. /\ fds[fd].readList \in Seq(0 .. Len(futs)) /\ fds[fd].writeList \in Seq(0 .. Len(futs))
            /\ Belongs(futs, fds[fd].readList, "recv", fd) /\ Belongs(futs, fds[fd].writeList, "send", fd)
        BY <4>1, ListsTyped DEF ListInv
      <4> QED BY <3>2, <4>1, <4>2, RelistedLists
    <3> QED BY <1>6, <3>1, <3>2, NextKeyDoes
  <2> QED BY <2>1, <2>2 DEF ListInv, BothBelong
<1>7. CASE ~MoveOut /\ ~CallBack /\ ~CallWatcher /\ ~MoveBack /\ ~NextKey /\ ~SelectReturns
  <2>1. /\ UNCHANGED <<io, keys, Fd>>
        /\ \/ Quiet
           \/ /\ keys = << >>
              /\ \E fd \in Sockets : fds[fd].open /\ (Shut(fd) \/ Watches(fd) \/ \E k \in IoKinds : Asked(k, fd))
    BY <1>7, Resting
  <2>2. SameKinds /\ Both
    <3>1. CASE Quiet
      BY <3>1, StillLists DEF Quiet, SameKinds
    <3>2. CASE \E fd \in Sockets : Shut(fd) \/ Watches(fd) \/ \E k \in IoKinds : Asked(k, fd)
      BY <3>2, ShutLists, WatchesLists, AskedLists
    <3> QED BY <2>1, <3>1, <3>2
  <2>3. io.event # "none" => /\ Belongs(futs', io'.cur, KindOf(io'.event), Fd')
                             /\ Belongs(futs', io'.new, KindOf(io'.event), Fd')
    BY <2>1, <2>2, HeldLists
  <2> QED BY <2>1, <2>2, <2>3 DEF ListInv, BothBelong
<1> QED BY <1>1, <1>2, <1>3, <1>4, <1>5, <1>6, <1>7

(***************************************************************************)
(* How often an operation is known to the loop.                            *)
(***************************************************************************)
Called(f, fd) == IF keys # << >> /\ Fd = fd THEN Times(f, io.cur) + Times(f, io.new) ELSE 0
Count(f, fd) == Times(f, fds[fd].readList) + Times(f, fds[fd].writeList) + Called(f, fd)
CountInv ==
  \A fd \in Sockets : \A f \in 1 .. Len(futs) :
    futs[f].kind \in IoKinds /\ futs[f].of = fd => Count(f, fd) = IF Pending(f) THEN 1 ELSE 0

LEMMA CountNat ==
  ASSUME DataInv, NEW fd \in Sockets, NEW f
  PROVE  /\ Times(f, fds[fd].readList) \in Nat /\ Times(f, fds[fd].writeList) \in Nat
         /\ Times(f, io.cur) \in Nat /\ Times(f, io.new) \in Nat /\ Called(f, fd) \in Nat
<1>1. /\ fds[fd].readList \in Seq(0 .. Len(futs)) /\ fds[fd].writeList \in Seq(0 .. Len(futs))
      /\ io.cur \in Seq(0 .. Len(futs)) /\ io.new \in Seq(0 .. Len(futs))
  BY ListsTyped, IoTyped
<1>2. /\ Times(f, fds[fd].readList) \in Nat /\ Times(f, fds[fd].writeList) \in Nat
      /\ Times(f, io.cur) \in Nat /\ Times(f, io.new) \in Nat
  BY <1>1, TimesNat
<1> QED BY <1>2 DEF Called

LEMMA CountIs ==
  ASSUME DataInv, NEW fd \in Sockets, NEW f
  PROVE  Count(f, fd) = Times(f, fds[fd].readList \o fds[fd].writeList)
                        + IF keys # << >> /\ Fd = fd THEN Times(f, io.cur \o io.new) ELSE 0
<1>1. /\ fds[fd].readList \in Seq(0 .. Len(futs)) /\ fds[fd].writeList \in Seq(0 .. Len(futs))
      /\ io.cur \in Seq(0 .. Len(futs)) /\ io.new \in Seq(0 .. Len(futs))
  BY ListsTyped, IoTyped
<1>2. /\ Times(f, fds[fd].readList \o fds[fd].writeList)
           = Times(f, fds[fd].readList) + Times(f, fds[fd].writeList)
      /\ Times(f, io.cur \o io.new) = Times(f, io.cur) + Times(f, io.new)
  BY <1>1, TimesConcat
<1> QED BY <1>2 DEF Count, Called

LEMMA CountSame ==
  ASSUME NEW fd \in Sockets, NEW f, fds'[fd].readList = fds[fd].readList,
         fds'[fd].writeList = fds[fd].writeList, Called(f, fd)' = Called(f, fd)
  PROVE  Count(f, fd)' = Count(f, fd)
BY DEF Count

(* The callback that is called leaves, and the others stay.                *)
LEMMA CalledLeaves ==
  ASSUME DataInv, io.cur # << >>, keys # << >>, keys' = keys, Leaves, NEW fd \in Sockets, NEW f
  PROVE  Called(f, fd) = Called(f, fd)' + IF Fd = fd /\ io.cur[1] = f THEN 1 ELSE 0
<1>1. Times(f, io.cur) = Times(f, Tail(io.cur)) + IF io.cur[1] = f THEN 1 ELSE 0
  BY IoTyped, TimesTail
<1>2. Times(f, Tail(io.cur)) \in Nat /\ Times(f, io.new) \in Nat
  BY IoTyped, TimesNat, HeadTailProperties
<1>3. /\ Called(f, fd)' = IF Fd = fd THEN Times(f, Tail(io.cur)) + Times(f, io.new) ELSE 0
      /\ Called(f, fd) = IF Fd = fd THEN Times(f, io.cur) + Times(f, io.new) ELSE 0
  BY DEF Called, Leaves, Fd
<1> QED BY <1>1, <1>2, <1>3

LEMMA CalledRemains ==
  ASSUME DataInv, keys' = keys, Remains, NEW fd \in Sockets, NEW f
  PROVE  Called(f, fd)' = Called(f, fd)
<1>1. Times(f, io.new \o io.cur) = Times(f, io.new) + Times(f, io.cur)
  BY IoTyped, TimesConcat
<1>2. Times(f, io.cur) \in Nat /\ Times(f, io.new) \in Nat
  BY IoTyped, TimesNat
<1>3. /\ Called(f, fd)' = IF keys # << >> /\ Fd = fd THEN Times(f, io.new \o io.cur) + Times(f, << >>) ELSE 0
      /\ Called(f, fd) = IF keys # << >> /\ Fd = fd THEN Times(f, io.cur) + Times(f, io.new) ELSE 0
  <2>1. io'.cur = << >> /\ io'.new = io.new \o io.cur /\ Fd' = Fd
    BY DEF Remains, Fd
  <2>2. Times(f, io'.cur) = Times(f, << >>) /\ Times(f, io'.new) = Times(f, io.new \o io.cur)
    BY <2>1
  <2>3. Called(f, fd)' = IF keys # << >> /\ Fd = fd THEN Times(f, io'.new) + Times(f, io'.cur) ELSE 0
    <3>1. Called(f, fd)' = IF keys' # << >> /\ Fd' = fd THEN Times(f, io'.cur) + Times(f, io'.new) ELSE 0
      BY DEF Called
    <3>2. Times(f, io'.cur) \in Nat /\ Times(f, io'.new) \in Nat
      BY <1>1, <1>2, <2>2, TimesEmpty
    <3> QED BY <2>1, <3>1, <3>2
  <2> QED BY <2>2, <2>3 DEF Called
<1> QED BY <1>1, <1>2, <1>3, TimesEmpty

LEMMA NotYet ==
  ASSUME DataInv, NEW fd \in Sockets
  PROVE  Count(Len(futs) + 1, fd) = 0
<1>1. /\ Len(futs) \in Nat
      /\ fds[fd].readList \in Seq(0 .. Len(futs)) /\ fds[fd].writeList \in Seq(0 .. Len(futs))
      /\ io.cur \in Seq(0 .. Len(futs)) /\ io.new \in Seq(0 .. Len(futs))
  BY ListsTyped, IoTyped
<1>2. ASSUME NEW s \in Seq(0 .. Len(futs)) PROVE Times(Len(futs) + 1, s) = 0
  <2>1. \A i \in 1 .. Len(s) : s[i] \in 0 .. Len(futs)
    BY ElementOfSeq
  <2>2. \A i \in 1 .. Len(s) : s[i] # Len(futs) + 1
    BY <1>1, <2>1
  <2> QED BY <2>2, TimesNat
<1>3. /\ Times(Len(futs) + 1, fds[fd].readList) = 0 /\ Times(Len(futs) + 1, fds[fd].writeList) = 0
      /\ Times(Len(futs) + 1, io.cur) = 0 /\ Times(Len(futs) + 1, io.new) = 0
  BY <1>1, <1>2
<1> QED BY <1>3 DEF Count, Called

(***************************************************************************)
(* Steps that concern one socket, and the callbacks that are called.       *)
(***************************************************************************)
AskedBy(f, fd) == f \in 1 .. Len(futs) /\ futs[f].kind \in IoKinds /\ futs[f].of = fd
Counted1(f, fd) == Count(f, fd) = IF Pending(f) THEN 1 ELSE 0

LEMMA CountOld ==
  ASSUME CountInv, NEW fd \in Sockets, NEW f, AskedBy(f, fd)
  PROVE  Counted1(f, fd)
BY DEF CountInv, AskedBy, Counted1

LEMMA StayCounted ==
  ASSUME DataInv, CountInv, NEW fd \in Sockets, NEW f, AskedBy(f, fd),
         Count(f, fd)' = Count(f, fd), futs'[f].answer = futs[f].answer
  PROVE  Counted1(f, fd)'
<1>1. Pending(f)' <=> Pending(f)
  BY DEF Pending, Finished, State
<1>2. Count(f, fd) = IF Pending(f) THEN 1 ELSE 0
  BY CountOld DEF Counted1
<1> QED BY <1>1, <1>2 DEF Counted1

LEMMA ShutCounted ==
  ASSUME DataInv, ListInv, CountInv, NEW g \in Sockets, Shut(g), NEW fd \in Sockets, NEW f, AskedBy(f, fd),
         Called(f, fd)' = Called(f, fd)
  PROVE  Counted1(f, fd)'
<1> DEFINE reads == fds[g].readList
           writes == fds[g].writeList
           list == reads \o writes
           In == \E j \in 1 .. Len(list) : list[j] = f
<1>1. /\ f \in 1 .. Len(futs) /\ futs[f].kind \in IoKinds /\ futs[f].of = fd
      /\ futs'[f].answer = IF In THEN "failed" ELSE futs[f].answer
      /\ fds'[g] = Closed /\ \A h \in Sockets : h # g => fds'[h] = fds[h]
  BY DEF AskedBy, Shut, Others
<1>2. reads \in Seq(0 .. Len(futs)) /\ writes \in Seq(0 .. Len(futs)) /\ list \in Seq(0 .. Len(futs))
  BY ListsTyped, ConcatProperties
<1>3. /\ Times(f, reads) \in Nat /\ Times(f, writes) \in Nat
      /\ Times(f, list) = Times(f, reads) + Times(f, writes)
      /\ Times(f, list) \in Nat /\ (Times(f, list) = 0 <=> ~In)
  <2> HIDE DEF reads, writes
  <2>1. Times(f, list) = Times(f, reads) + Times(f, writes)
    BY <1>2, TimesConcat
  <2> HIDE DEF list
  <2> QED BY <1>2, <2>1, TimesNat
<1>4. CASE fd # g
  <2>1. ~In
    <3>1. Belongs(futs, reads, "recv", g) /\ Belongs(futs, writes, "send", g)
      BY DEF ListInv
    <3>2. ASSUME NEW s \in Seq(0 .. Len(futs)), NEW k, Belongs(futs, s, k, g), Times(f, s) # 0
          PROVE  FALSE
      <4>1. PICK i \in 1 .. Len(s) : s[i] = f
        BY <3>2, TimesNat
      <4>2. f # Watcher
        BY <1>1 DEF Watcher
      <4> QED BY <1>1, <1>4, <3>2, <4>1, <4>2 DEF Belongs
    <3> HIDE DEF reads, writes, list
    <3>3. Times(f, reads) = 0 /\ Times(f, writes) = 0
      BY <1>2, <3>1, <3>2
    <3> QED BY <1>3, <3>3
  <2>2. futs'[f].answer = futs[f].answer /\ fds'[fd] = fds[fd]
    BY <1>1, <1>4, <2>1
  <2>3. Count(f, fd)' = Count(f, fd)
    BY <2>2, CountSame
  <2> QED BY <2>2, <2>3, StayCounted
<1>5. CASE fd = g
  <2>1. fds'[fd].readList = << >> /\ fds'[fd].writeList = << >>
    BY <1>1, <1>5 DEF Closed
  <2>2. PICK c \in Nat : c = Called(f, fd)
    BY CountNat
  <2>3. Called(f, fd)' = c
    BY <2>2
  <2>4. Count(f, fd)' = c
    <3>1. Count(f, fd)' = Times(f, fds'[fd].readList) + Times(f, fds'[fd].writeList) + Called(f, fd)'
      BY DEF Count
    <3>2. Count(f, fd)' = 0 + 0 + c
      BY <2>1, <2>3, <3>1, TimesEmpty
    <3> QED BY <3>2
  <2>5. Count(f, fd) = Times(f, list) + c
    BY <1>3, <1>5, <2>2 DEF Count
  <2>6. Count(f, fd) = IF Pending(f) THEN 1 ELSE 0
    BY CountOld DEF Counted1
  <2> HIDE DEF list, In
  <2>7. CASE In
    <3>1. c = 0
      BY <1>3, <2>5, <2>6, <2>7
    <3>2. ~Pending(f)'
      BY <1>1, <2>7 DEF Pending, Finished, State
    <3> QED BY <2>4, <3>1, <3>2 DEF Counted1
  <2>8. CASE ~In
    <3>1. Count(f, fd)' = Count(f, fd)
      BY <1>3, <2>4, <2>5, <2>8
    <3> QED BY <1>1, <2>8, <3>1, StayCounted
  <2> QED BY <2>7, <2>8
<1> QED BY <1>4, <1>5

LEMMA AskedCounted ==
  ASSUME DataInv, CountInv, NEW g \in Sockets, NEW k \in IoKinds, Asked(k, g), NEW fd \in Sockets, NEW f,
         AskedBy(f, fd)', Called(f, fd)' = Called(f, fd)
  PROVE  Counted1(f, fd)'
<1>1. /\ Len(futs)' = Len(futs) + 1 /\ Len(futs) \in Nat /\ f \in 1 .. Len(futs) + 1
      /\ \A h \in Sockets : h # g => fds'[h] = fds[h]
  BY FutsTyped DEF Asked, AskedBy, Others
<1>2. PICK n : n = Len(futs) + 1
  OBVIOUS
<1>3. /\ fds[g].readList \in Seq(0 .. n) /\ fds[g].writeList \in Seq(0 .. n) /\ n \in 0 .. n /\ n \in Nat
  <2>1. 0 .. Len(futs) \subseteq 0 .. n /\ n \in 0 .. n /\ n \in Nat
    BY <1>1, <1>2
  <2> QED BY <2>1, ListsTyped, SeqMonotonic
<1>4. /\ fds'[g].readList = IF k = "recv" THEN Append(fds[g].readList, n) ELSE fds[g].readList
      /\ fds'[g].writeList = IF k = "recv" THEN fds[g].writeList ELSE Append(fds[g].writeList, n)
  BY <1>2 DEF Asked
<1>5. PICK r \in Nat, w \in Nat, c \in Nat :
         r = Times(f, fds[fd].readList) /\ w = Times(f, fds[fd].writeList) /\ c = Called(f, fd)
  BY CountNat
<1>6. CASE fd = g
  <2>1. /\ Times(f, Append(fds[g].readList, n)) = r + IF n = f THEN 1 ELSE 0
        /\ Times(f, Append(fds[g].writeList, n)) = w + IF n = f THEN 1 ELSE 0
    <3>1. /\ Times(f, Append(fds[g].readList, n)) = Times(f, fds[g].readList) + IF n = f THEN 1 ELSE 0
          /\ Times(f, Append(fds[g].writeList, n)) = Times(f, fds[g].writeList) + IF n = f THEN 1 ELSE 0
      BY <1>3, TimesAppend
    <3> QED BY <1>5, <1>6, <3>1
  <2>2. Times(f, fds'[fd].readList) + Times(f, fds'[fd].writeList) = r + w + IF n = f THEN 1 ELSE 0
    BY <1>4, <1>5, <1>6, <2>1
  <2>3. Called(f, fd)' = c
    BY <1>5
  <2>4. Count(f, fd)' = r + w + c + IF n = f THEN 1 ELSE 0
    <3>1. Count(f, fd)' = Times(f, fds'[fd].readList) + Times(f, fds'[fd].writeList) + Called(f, fd)'
      BY DEF Count
    <3>2. Count(f, fd)' = (r + w + IF n = f THEN 1 ELSE 0) + c
      BY <2>2, <2>3, <3>1
    <3> QED BY <1>5, <3>2
  <2>5. Count(f, fd) = r + w + c
    BY <1>5 DEF Count
  <2>6. CASE f = n
    <3>1. r + w + c = 0
      BY <1>2, <2>5, <2>6, NotYet
    <3>2. Count(f, fd)' = 1
      BY <1>5, <2>4, <2>6, <3>1
    <3>3. Pending(f)'
      BY <1>2, <2>6 DEF Asked, Pending, Finished, State
    <3> QED BY <3>2, <3>3 DEF Counted1
  <2>7. CASE f # n
    <3>1. f \in 1 .. Len(futs) /\ futs'[f].kind = futs[f].kind /\ futs'[f].of = futs[f].of
          /\ futs'[f].answer = futs[f].answer
      BY <1>1, <1>2, <2>7 DEF Asked, Kept, Answered
    <3>2. AskedBy(f, fd)
      BY <3>1 DEF AskedBy
    <3>3. Count(f, fd)' = Count(f, fd)
      BY <1>5, <2>4, <2>5, <2>7
    <3> QED BY <3>1, <3>2, <3>3, StayCounted
  <2> QED BY <2>6, <2>7
<1>7. CASE fd # g
  <2>1. f # n
    BY <1>2, <1>7 DEF Asked, AskedBy
  <2>2. f \in 1 .. Len(futs) /\ futs'[f].kind = futs[f].kind /\ futs'[f].of = futs[f].of
        /\ futs'[f].answer = futs[f].answer
    BY <1>1, <1>2, <2>1 DEF Asked, Kept, Answered
  <2>3. AskedBy(f, fd)
    BY <2>2 DEF AskedBy
  <2>4. Count(f, fd)' = Count(f, fd)
    BY <1>1, <1>7, CountSame
  <2> QED BY <2>2, <2>3, <2>4, StayCounted
<1> QED BY <1>6, <1>7

LEMMA WatchesCounted ==
  ASSUME DataInv, CountInv, NEW g \in Sockets, Watches(g), NEW fd \in Sockets, NEW f, AskedBy(f, fd),
         Called(f, fd)' = Called(f, fd)
  PROVE  Counted1(f, fd)'
<1>1. /\ fds'[g].readList = Append(fds[g].readList, Watcher) /\ fds'[g].writeList = fds[g].writeList
      /\ \A h \in Sockets : h # g => fds'[h] = fds[h]
      /\ \A h \in 1 .. Len(futs) : futs'[h].answer = futs[h].answer
  BY DEF Watches, Relisted, Others, Answered
<1>2. futs'[f].answer = futs[f].answer /\ f # Watcher /\ Watcher \in 0 .. Len(futs)
  BY <1>1, FutsTyped DEF AskedBy, Watcher
<1>3. Times(f, fds'[fd].readList) = Times(f, fds[fd].readList) /\ fds'[fd].writeList = fds[fd].writeList
  <2>1. Times(f, Append(fds[g].readList, Watcher)) = Times(f, fds[g].readList) + 0
    BY <1>2, ListsTyped, TimesAppend
  <2>2. Times(f, fds[g].readList) \in Nat
    BY CountNat
  <2>3. CASE fd = g
    <3>1. Times(f, Append(fds[g].readList, Watcher)) = Times(f, fds[g].readList)
      BY <2>1, <2>2
    <3>2. Times(f, fds'[g].readList) = Times(f, fds[g].readList)
      BY <1>1, <3>1
    <3> QED BY <1>1, <2>3, <3>2
  <2>4. CASE fd # g
    BY <1>1, <2>4
  <2> QED BY <2>3, <2>4
<1>4. Count(f, fd)' = Count(f, fd)
  BY <1>3 DEF Count
<1> QED BY <1>2, <1>4, StayCounted

(* The callback of f0 is called: it stays if it wants to be called again.  *)
LEMMA CallBackCounted ==
  ASSUME DataInv, LoopInv, PlaceInv, ListInv, CountInv, CallBack, NEW fd \in Sockets, NEW f, AskedBy(f, fd)
  PROVE  Counted1(f, fd)'
<1>1. PICK f0 \in 1 .. Len(futs) : f0 = io.cur[1]
  BY CallBackDoes
<1>2. /\ Tried(Fd, f0) /\ IF Again(State, Fd, f0) THEN Remains ELSE Leaves
  BY <1>1, CallBackDoes
<1>3. keys' = keys /\ keys # << >> /\ io.cur # << >> /\ io.event # "none"
  BY DEF CallBack, CallsNext, Dispatching, PlaceInv
<1>4. fds' = fds /\ (f # f0 => futs'[f].answer = futs[f].answer)
      /\ futs'[f0].answer = Outcome(State, Fd, f0)
  BY <1>2 DEF Tried, Answered, AskedBy
<1>5. f \in 1 .. Len(futs) /\ futs[f].of = fd
  BY DEF AskedBy
<1>6. CASE Again(State, Fd, f0)
  <2>1. futs'[f].answer = futs[f].answer
    BY <1>4, <1>6 DEF Outcome, State
  <2>2. Called(f, fd)' = Called(f, fd)
    BY <1>2, <1>3, <1>6, CalledRemains
  <2>3. Count(f, fd)' = Count(f, fd)
    BY <1>4, <2>2, CountSame
  <2> QED BY <2>1, <2>3, StayCounted
<1>7. CASE ~Again(State, Fd, f0)
  <2>1. Called(f, fd) = Called(f, fd)' + IF Fd = fd /\ io.cur[1] = f THEN 1 ELSE 0
    BY <1>2, <1>3, <1>7, CalledLeaves
  <2>2. PICK c \in Nat, r \in Nat, w \in Nat :
           c = Called(f, fd) /\ r = Times(f, fds[fd].readList) /\ w = Times(f, fds[fd].writeList)
    BY CountNat
  <2>3. Count(f, fd) = r + w + c
    BY <2>2 DEF Count
  <2>4. Called(f, fd)' \in Nat
    <3>1. Leaves
      BY <1>2, <1>7
    <3>2. io.cur \in Seq(0 .. Len(futs)) /\ io.new \in Seq(0 .. Len(futs)) /\ io.cur # << >>
      BY <1>3, IoTyped
    <3>3. Tail(io.cur) \in Seq(0 .. Len(futs))
      BY <3>2, HeadTailProperties
    <3>4. Times(f, io'.cur) \in Nat /\ Times(f, io'.new) \in Nat
      BY <3>1, <3>2, <3>3, TimesNat DEF Leaves
    <3> QED BY <3>4 DEF Called
  <2>5. PICK e \in Nat : e = Called(f, fd)'
    BY <2>4
  <2>6. Count(f, fd)' = r + w + e
    <3>1. Count(f, fd)' = Times(f, fds'[fd].readList) + Times(f, fds'[fd].writeList) + Called(f, fd)'
      BY DEF Count
    <3> QED BY <1>4, <2>2, <2>5, <3>1
  <2>7. CASE f = f0
    <3>1. Fd = fd
      <4>1. Belongs(futs, io.cur, KindOf(io.event), Fd)
        BY <1>3 DEF ListInv
      <4>2. 1 \in 1 .. Len(io.cur) /\ f0 # Watcher
        BY <1>3, IoTyped, EmptySeq, LenProperties DEF Watcher
      <4> QED BY <1>1, <1>5, <2>7, <4>1, <4>2 DEF Belongs
    <3>2. c = e + 1
      BY <1>1, <2>1, <2>2, <2>5, <2>7, <3>1
    <3>3. Count(f, fd) = IF Pending(f) THEN 1 ELSE 0
      BY CountOld DEF Counted1
    <3>4. r + w + e = 0
      <4>1. r + w + c = 0 \/ r + w + c = 1
        BY <2>3, <3>3
      <4> QED BY <3>2, <4>1
    <3>5. ~Pending(f)'
      <4>1. Outcome(State, Fd, f0) # "none"
        BY <1>7 DEF Outcome
      <4> QED BY <1>4, <2>7, <4>1 DEF Pending, Finished, State
    <3>6. Count(f, fd)' = 0
      BY <2>6, <3>4
    <3> QED BY <3>5, <3>6 DEF Counted1
  <2>8. CASE f # f0
    <3>1. c = e
      BY <1>1, <2>1, <2>2, <2>5, <2>8
    <3>2. Count(f, fd)' = Count(f, fd)
      BY <2>3, <2>6, <3>1
    <3> QED BY <1>4, <2>8, <3>2, StayCounted
  <2> QED BY <2>7, <2>8
<1> QED BY <1>6, <1>7

LEMMA CallWatcherCounted ==
  ASSUME DataInv, LoopInv, PlaceInv, ListInv, CountInv, CallWatcher,
         NEW fd \in Sockets, NEW f, AskedBy(f, fd)'
  PROVE  Counted1(f, fd)'
<1>1. /\ keys' = keys /\ keys # << >> /\ io.cur # << >> /\ io.cur[1] = Watcher
      /\ Fd \in Sockets
  BY AtFd DEF CallWatcher, CallsNext, Dispatching
<1>2. f # Watcher
  BY DEF AskedBy, Watcher
<1>3. Called(f, fd)' = Called(f, fd)
  <2>1. CASE Remains
    BY <1>1, <2>1, CalledRemains
  <2>2. CASE Leaves
    <3>1. Called(f, fd) = Called(f, fd)' + IF Fd = fd /\ io.cur[1] = f THEN 1 ELSE 0
      BY <1>1, <2>2, CalledLeaves
    <3>2. Called(f, fd)' \in Nat
      <4>1. Times(f, io'.cur) \in Nat /\ Times(f, io'.new) \in Nat
        BY <1>1, <2>2, IoTyped, TimesNat, HeadTailProperties DEF Leaves
      <4> QED BY <4>1 DEF Called
    <3>3. PICK e \in Nat : e = Called(f, fd)'
      BY <3>2
    <3>4. Called(f, fd) = e
      BY <1>1, <1>2, <3>1, <3>3
    <3> QED BY <3>3, <3>4
  <2> QED BY <2>1, <2>2, CallWatcherDoes
<1>4. CASE Unchanged
  <2>1. fds' = fds /\ futs' = futs
    BY <1>4 DEF Unchanged
  <2>2. AskedBy(f, fd) /\ futs'[f].answer = futs[f].answer
    BY <2>1 DEF AskedBy
  <2>3. Count(f, fd)' = Count(f, fd)
    BY <1>3, <2>1, CountSame
  <2> QED BY <2>2, <2>3, StayCounted
<1>5. CASE Asked("recv", Fd)
  <2>1. PICK g \in Sockets, k \in IoKinds : g = Fd /\ k = "recv"
    BY <1>1 DEF IoKinds
  <2> QED BY <1>3, <1>5, <2>1, AskedCounted
<1>6. CASE Watches(Fd)
  <2>1. PICK g \in Sockets : g = Fd
    BY <1>1
  <2>2. AskedBy(f, fd)
    BY <1>6 DEF Watches, Relisted, Kept, AskedBy
  <2> QED BY <1>3, <1>6, <2>1, <2>2, WatchesCounted
<1>7. CASE \E g \in Sockets : Shut(g)
  <2>1. PICK g \in Sockets : Shut(g)
    BY <1>7
  <2>2. AskedBy(f, fd)
    BY <2>1 DEF Shut, Kept, AskedBy
  <2> QED BY <1>3, <2>1, <2>2, ShutCounted
<1> QED BY <1>4, <1>5, <1>6, <1>7, CallWatcherDoes

LEMMA MoveOutCounted ==
  ASSUME DataInv, LoopInv, PlaceInv, CountInv, MoveOut, NEW fd \in Sockets, NEW f, AskedBy(f, fd)
  PROVE  Counted1(f, fd)'
<1>1. /\ io'.cur = (IF io'.event = "read" THEN fds[Fd].readList ELSE fds[Fd].writeList)
      /\ io'.new = << >> /\ keys' = [keys EXCEPT ![1].events = @ \ {io'.event}]
      /\ Relisted(Fd, IF io'.event = "read" THEN << >> ELSE fds[Fd].readList,
                      IF io'.event = "read" THEN fds[Fd].writeList ELSE << >>, fds[Fd].interest)
  BY MoveOutDoes
<1>2. /\ Fd \in Sockets /\ keys # << >> /\ keys[1] \in Key /\ Len(keys) \in Nat \ {0}
      /\ io.cur = << >> /\ io.new = << >>
  BY AtFd DEF MoveOut, Dispatching, PlaceInv
<1>3. keys' # << >> /\ Fd' = Fd
  BY <1>1, <1>2 DEF Fd, Key, LoopInv
<1>4. /\ fds'[Fd].readList = (IF io'.event = "read" THEN << >> ELSE fds[Fd].readList)
      /\ fds'[Fd].writeList = (IF io'.event = "read" THEN fds[Fd].writeList ELSE << >>)
      /\ \A h \in Sockets : h # Fd => fds'[h] = fds[h]
      /\ futs'[f].answer = futs[f].answer
  BY <1>1 DEF Relisted, Others, Answered, AskedBy
<1>5. PICK r \in Nat, w \in Nat : r = Times(f, fds[fd].readList) /\ w = Times(f, fds[fd].writeList)
  BY CountNat
<1>6. Called(f, fd) = 0
  BY <1>2, TimesEmpty DEF Called
<1>7. Called(f, fd)' = IF Fd = fd THEN Times(f, io'.cur) + Times(f, io'.new) ELSE 0
  BY <1>3 DEF Called
<1>8. Count(f, fd) = r + w
  BY <1>5, <1>6 DEF Count
<1>9. Count(f, fd)' = Times(f, fds'[fd].readList) + Times(f, fds'[fd].writeList) + Called(f, fd)'
  BY DEF Count
<1>10. Count(f, fd)' = r + w
  <2>1. CASE fd # Fd
    <3>1. Times(f, fds'[fd].readList) = r /\ Times(f, fds'[fd].writeList) = w /\ Called(f, fd)' = 0
      BY <1>4, <1>5, <1>7, <2>1
    <3> QED BY <1>9, <3>1
  <2>2. CASE fd = Fd /\ io'.event = "read"
    <3>1. fds'[fd].readList = << >> /\ fds'[fd].writeList = fds[fd].writeList
          /\ io'.cur = fds[fd].readList /\ io'.new = << >>
      BY <1>1, <1>4, <2>2
    <3>2. Times(f, fds'[fd].readList) = 0 /\ Times(f, fds'[fd].writeList) = w
          /\ Times(f, io'.cur) = r /\ Times(f, io'.new) = 0
      BY <1>5, <3>1, TimesEmpty
    <3>3. Called(f, fd)' = r + 0
      BY <1>7, <2>2, <3>2
    <3> QED BY <1>9, <3>2, <3>3
  <2>3. CASE fd = Fd /\ io'.event # "read"
    <3>1. fds'[fd].readList = fds[fd].readList /\ fds'[fd].writeList = << >>
          /\ io'.cur = fds[fd].writeList /\ io'.new = << >>
      BY <1>1, <1>4, <2>3
    <3>2. Times(f, fds'[fd].readList) = r /\ Times(f, fds'[fd].writeList) = 0
          /\ Times(f, io'.cur) = w /\ Times(f, io'.new) = 0
      BY <1>5, <3>1, TimesEmpty
    <3>3. Called(f, fd)' = w + 0
      BY <1>7, <2>3, <3>2
    <3> QED BY <1>9, <3>2, <3>3
  <2> QED BY <2>1, <2>2, <2>3
<1>11. Count(f, fd)' = Count(f, fd)
  BY <1>8, <1>10
<1> QED BY <1>4, <1>11, StayCounted

LEMMA MoveBackCounted ==
  ASSUME DataInv, LoopInv, PlaceInv, CountInv, MoveBack, NEW fd \in Sockets, NEW f, AskedBy(f, fd)
  PROVE  Counted1(f, fd)'
<1>1. PICK reads, writes :
        /\ reads = IF io.event = "read" THEN io.new \o fds[Fd].readList ELSE fds[Fd].readList
        /\ writes = IF io.event = "read" THEN fds[Fd].writeList ELSE io.new \o fds[Fd].writeList
  OBVIOUS
<1>2. /\ io' = NoIo /\ keys # << >> /\ io.cur = << >> /\ Fd \in Sockets
      /\ \/ fds[Fd].open /\ Relisted(Fd, reads, writes, fds[Fd].interest)
         \/ ~fds[Fd].open /\ Unchanged
  BY <1>1, MoveBackDoes, AtFd DEF MoveBack, Dispatching
<1>3. Called(f, fd)' = 0
  BY <1>2, TimesEmpty DEF Called, NoIo
<1>4. Called(f, fd) = IF Fd = fd THEN Times(f, io.new) ELSE 0
  <2>1. Times(f, io.new) \in Nat /\ Times(f, io.cur) = 0
    BY <1>2, CountNat, TimesEmpty
  <2> QED BY <1>2, <2>1 DEF Called
<1>5. PICK r \in Nat, w \in Nat, c \in Nat :
         r = Times(f, fds[fd].readList) /\ w = Times(f, fds[fd].writeList) /\ c = Times(f, io.new)
  BY CountNat
<1>6. Count(f, fd) = r + w + IF Fd = fd THEN c ELSE 0
  BY <1>4, <1>5 DEF Count
<1>7. Count(f, fd)' = Times(f, fds'[fd].readList) + Times(f, fds'[fd].writeList) + Called(f, fd)'
  BY DEF Count
<1>8. CASE ~fds[Fd].open /\ Unchanged
  <2>1. io.new = << >>
    BY <1>8 DEF PlaceInv
  <2>2. c = 0
    BY <1>5, <2>1, TimesEmpty
  <2>3. fds' = fds /\ futs' = futs
    BY <1>8 DEF Unchanged
  <2>4. Called(f, fd)' = Called(f, fd)
    BY <1>3, <1>4, <1>5, <2>2
  <2>5. Count(f, fd)' = Count(f, fd)
    BY <2>3, <2>4, CountSame
  <2> QED BY <2>3, <2>5, StayCounted
<1>9. CASE Relisted(Fd, reads, writes, fds[Fd].interest)
  <2>1. /\ fds'[Fd].readList = reads /\ fds'[Fd].writeList = writes
        /\ \A h \in Sockets : h # Fd => fds'[h] = fds[h]
        /\ futs'[f].answer = futs[f].answer
    BY <1>9 DEF Relisted, Others, Answered, AskedBy
  <2>2. /\ Times(f, io.new \o fds[fd].readList) = Times(f, io.new) + Times(f, fds[fd].readList)
        /\ Times(f, io.new \o fds[fd].writeList) = Times(f, io.new) + Times(f, fds[fd].writeList)
    BY ListsTyped, IoTyped, TimesConcat
  <2>3. CASE fd # Fd
    <3>1. Times(f, fds'[fd].readList) = r /\ Times(f, fds'[fd].writeList) = w
      BY <1>5, <2>1, <2>3
    <3>2. Count(f, fd)' = r + w + 0
      BY <1>3, <1>7, <3>1
    <3>3. Count(f, fd)' = Count(f, fd)
      BY <1>6, <2>3, <3>2
    <3> QED BY <2>1, <3>3, StayCounted
  <2>4. CASE fd = Fd
    <3>1. Times(f, fds'[fd].readList) + Times(f, fds'[fd].writeList) = r + w + c
      <4>1. CASE io.event = "read"
        <5>1. Times(f, fds'[fd].readList) = c + r /\ Times(f, fds'[fd].writeList) = w
          BY <1>1, <1>5, <2>1, <2>2, <2>4, <4>1
        <5> QED BY <1>5, <5>1
      <4>2. CASE io.event # "read"
        <5>1. Times(f, fds'[fd].readList) = r /\ Times(f, fds'[fd].writeList) = c + w
          BY <1>1, <1>5, <2>1, <2>2, <2>4, <4>2
        <5> QED BY <1>5, <5>1
      <4> QED BY <4>1, <4>2
    <3>2. Count(f, fd)' = (r + w + c) + 0
      BY <1>3, <1>7, <3>1
    <3>3. Count(f, fd)' = Count(f, fd)
      BY <1>5, <1>6, <2>4, <3>2
    <3> QED BY <2>1, <3>3, StayCounted
  <2> QED BY <2>3, <2>4
<1> QED BY <1>2, <1>8, <1>9

LEMMA CountKept ==
  ASSUME DataInv, LoopInv, PlaceInv, ListInv, CountInv, Moves
  PROVE  CountInv'
<1> SUFFICES ASSUME NEW fd \in Sockets, NEW f, AskedBy(f, fd)' PROVE Counted1(f, fd)'
  BY DEF CountInv, AskedBy, Counted1
<1>1. CASE SelectReturns
  <2>1. pc = "select" /\ io' = io /\ fds' = fds /\ futs' = futs
    BY <1>1 DEF SelectReturns, Unchanged
  <2>2. keys = << >> /\ io.cur = << >> /\ io.new = << >>
    BY <2>1 DEF PlaceInv, Elsewhere
  <2>3. Called(f, fd) = 0 /\ Called(f, fd)' = 0
    BY <2>1, <2>2, TimesEmpty DEF Called
  <2>4. AskedBy(f, fd) /\ Count(f, fd)' = Count(f, fd)
    BY <2>1, <2>3, CountSame DEF AskedBy
  <2> QED BY <2>1, <2>4, StayCounted
<1>2. CASE MoveOut
  <2>1. AskedBy(f, fd)
    BY <1>2, MoveOutDoes DEF Relisted, Kept, AskedBy
  <2> QED BY <1>2, <2>1, MoveOutCounted
<1>3. CASE CallBack
  <2>1. AskedBy(f, fd)
    BY <1>3, CallBackDoes DEF Tried, Kept, AskedBy
  <2> QED BY <1>3, <2>1, CallBackCounted
<1>4. CASE CallWatcher
  BY <1>4, CallWatcherCounted
<1>5. CASE MoveBack
  <2>1. PICK reads, writes :
          /\ reads = IF io.event = "read" THEN io.new \o fds[Fd].readList ELSE fds[Fd].readList
          /\ writes = IF io.event = "read" THEN fds[Fd].writeList ELSE io.new \o fds[Fd].writeList
    OBVIOUS
  <2>2. Unchanged \/ Relisted(Fd, reads, writes, fds[Fd].interest)
    BY <1>5, <2>1, MoveBackDoes
  <2>3. AskedBy(f, fd)
    BY <2>2 DEF Relisted, Kept, AskedBy, Unchanged
  <2> QED BY <1>5, <2>3, MoveBackCounted
<1>6. CASE NextKey
  <2>1. /\ io' = io /\ io.cur = << >> /\ io.new = << >>
        /\ Unchanged \/ Relisted(Fd, fds[Fd].readList, fds[Fd].writeList, Counted)
    BY <1>6, NextKeyDoes DEF NextKey, PlaceInv
  <2>2. AskedBy(f, fd) /\ futs'[f].answer = futs[f].answer
        /\ fds'[fd].readList = fds[fd].readList /\ fds'[fd].writeList = fds[fd].writeList
    BY <2>1 DEF Relisted, Kept, AskedBy, Unchanged, Answered, Others
  <2>3. Called(f, fd) = 0 /\ Called(f, fd)' = 0
    BY <2>1, TimesEmpty DEF Called
  <2>4. Count(f, fd)' = Count(f, fd)
    BY <2>2, <2>3, CountSame
  <2> QED BY <2>2, <2>4, StayCounted
<1>7. CASE ~MoveOut /\ ~CallBack /\ ~CallWatcher /\ ~MoveBack /\ ~NextKey /\ ~SelectReturns
  <2>1. /\ UNCHANGED <<io, keys, Fd>>
        /\ \/ Quiet
           \/ /\ keys = << >>
              /\ \E g \in Sockets : fds[g].open /\ (Shut(g) \/ Watches(g) \/ \E k \in IoKinds : Asked(k, g))
    BY <1>7, Resting
  <2>2. Called(f, fd)' = Called(f, fd)
    BY <2>1 DEF Called
  <2>3. CASE Quiet
    <3>1. AskedBy(f, fd) /\ futs'[f].answer = futs[f].answer /\ fds' = fds
      BY <2>3 DEF Quiet, AskedBy
    <3>2. Count(f, fd)' = Count(f, fd)
      BY <2>2, <3>1, CountSame
    <3> QED BY <3>1, <3>2, StayCounted
  <2>4. CASE \E g \in Sockets : Shut(g)
    <3>1. AskedBy(f, fd)
      BY <2>4 DEF Shut, Kept, AskedBy
    <3> QED BY <2>2, <2>4, <3>1, ShutCounted
  <2>5. CASE \E g \in Sockets : Watches(g)
    <3>1. AskedBy(f, fd)
      BY <2>5 DEF Watches, Relisted, Kept, AskedBy
    <3> QED BY <2>2, <2>5, <3>1, WatchesCounted
  <2>6. CASE \E g \in Sockets, k \in IoKinds : Asked(k, g)
    BY <2>2, <2>6, AskedCounted
  <2> QED BY <2>1, <2>3, <2>4, <2>5, <2>6
<1> QED BY <1>1, <1>2, <1>3, <1>4, <1>5, <1>6, <1>7

(***************************************************************************)
(* The lists of the loop, as they are always.                              *)
(***************************************************************************)
QueuesInv == DataInv /\ LoopInv /\ PlaceInv /\ ListInv /\ CountInv

LEMMA QueuesInitially ==
  ASSUME Init
  PROVE  QueuesInv
<1>1. DataInv /\ LoopInv
  BY Initially
<1>2. /\ keys = << >> /\ io.event = "none" /\ io.cur = << >> /\ io.new = << >>
      /\ \A fd \in Sockets : fds[fd].readList = << >> /\ fds[fd].writeList = << >>
  BY DEF Init, NoIo, Closed
<1>3. PlaceInv
  BY <1>2 DEF PlaceInv
<1>4. ListInv
  BY <1>2, BelongsEmpty DEF ListInv
<1>5. \A f \in 1 .. Len(futs) : futs[f].kind = "task"
  <2> DEFINE x == Future("task", 0, 0)
  <2>1. NTasks \in Nat /\ futs = [t \in 1 .. NTasks |-> x]
    <3> HIDE DEF x
    <3> QED BY ConstantsAssumption DEF Init, Tasks, x
  <2>2. x.kind = "task"
    BY DEF Future
  <2> HIDE DEF x
  <2> QED BY <2>1, <2>2
<1>6. CountInv
  BY <1>5 DEF CountInv, IoKinds
<1> QED BY <1>1, <1>3, <1>4, <1>6 DEF QueuesInv

LEMMA QueuesStep ==
  ASSUME QueuesInv, [Next]_vars
  PROVE  QueuesInv'
<1>1. DataInv /\ LoopInv /\ PlaceInv /\ ListInv /\ CountInv
  BY DEF QueuesInv
<1>2. DataInv' /\ LoopInv' /\ Moves
  BY <1>1, Steps, LoopKept
<1>3. PlaceInv' /\ ListInv' /\ CountInv'
  BY <1>1, <1>2, PlaceKept, ListKept, CountKept
<1> QED BY <1>2, <1>3 DEF QueuesInv

LEMMA Queues == Spec => []QueuesInv
BY QueuesInitially, QueuesStep, PTL DEF Spec

LEMMA KeptFollows ==
  ASSUME QueuesInv
  PROVE  OperationsKept
<1> SUFFICES ASSUME NEW fd \in Sockets, NEW kind \in {"recv", "send"}, NEW f \in Ops(kind, fd)
             PROVE  Times(f, fds[fd].readList \o fds[fd].writeList)
                    + (IF keys # << >> /\ Fd = fd THEN Times(f, io.cur \o io.new) ELSE 0)
                    = IF Pending(f) THEN 1 ELSE 0
  BY DEF OperationsKept
<1>1. DataInv /\ CountInv
  BY DEF QueuesInv
<1>2. AskedBy(f, fd)
  BY <1>1, FutsTyped DEF Ops, AskedBy, IoKinds
<1>3. Count(f, fd) = IF Pending(f) THEN 1 ELSE 0
  BY <1>1, <1>2, CountOld DEF Counted1
<1> QED BY <1>1, <1>3, CountIs

(* An operation that has not finished is in its socket's list or among     *)
(* those being called, once, and one that has finished is nowhere, however *)
(* the callbacks read, write, ask anew or close while the lists are out.   *)
THEOREM NothingIsLost == Spec => []OperationsKept
BY KeptFollows, Queues, PTL

(***************************************************************************)
(* Readers are in the order in which they asked.  A future's number tells  *)
(* when it was made; the program's own callback has no place in the order. *)
(***************************************************************************)
Precedes(a, b) ==
  \A i \in 1 .. Len(a), j \in 1 .. Len(b) : a[i] # Watcher /\ b[j] # Watcher => a[i] < b[j]
Ascends(list) ==
  \A i, j \in 1 .. Len(list) : i < j /\ list[i] # Watcher /\ list[j] # Watcher => list[i] < list[j]
OrderInv ==
  /\ \A fd \in Sockets : Ascends(fds[fd].readList)
  /\ io.event = "read" => /\ Ascends(io.cur) /\ Precedes(io.cur, fds[Fd].readList)
                          /\ Ascends(io.new) /\ Precedes(io.new, fds[Fd].readList)

LEMMA OrderEmpty == ASSUME NEW s PROVE Ascends(<< >>) /\ Precedes(s, << >>) /\ Precedes(<< >>, s)
BY DEF Ascends, Precedes

LEMMA OrderTail ==
  ASSUME NEW S, NEW s \in Seq(S), s # << >>, Ascends(s), NEW t, Precedes(s, t)
  PROVE  Ascends(Tail(s)) /\ Precedes(Tail(s), t)
<1>1. Len(Tail(s)) = Len(s) - 1 /\ Len(s) \in Nat /\ \A i \in 1 .. Len(s) - 1 : Tail(s)[i] = s[i + 1]
  BY HeadTailProperties, LenProperties
<1>2. \A i \in 1 .. Len(s) - 1 : i + 1 \in 1 .. Len(s)
  BY <1>1
<1>3. \A i, j \in 1 .. Len(s) - 1 : i < j => i + 1 < j + 1
  BY <1>1
<1>4. Ascends(Tail(s))
  BY <1>1, <1>2, <1>3 DEF Ascends
<1>5. Precedes(Tail(s), t)
  BY <1>1, <1>2 DEF Precedes
<1> QED BY <1>4, <1>5

LEMMA OrderConcat ==
  ASSUME NEW S, NEW s \in Seq(S), NEW t \in Seq(S), Ascends(s), Ascends(t), Precedes(s, t)
  PROVE  Ascends(s \o t)
<1> DEFINE q == s \o t
           m == Len(s)
<1>1. /\ Len(q) = m + Len(t) /\ m \in Nat /\ Len(t) \in Nat
      /\ \A i \in 1 .. m + Len(t) : q[i] = IF i <= m THEN s[i] ELSE t[i - m]
  BY ConcatProperties, LenProperties
<1> HIDE DEF q
<1>2. \A i \in 1 .. m + Len(t) : IF i <= m THEN i \in 1 .. m ELSE i - m \in 1 .. Len(t)
  BY <1>1
<1> SUFFICES ASSUME NEW i \in 1 .. Len(q), NEW j \in 1 .. Len(q), i < j, q[i] # Watcher, q[j] # Watcher
             PROVE  q[i] < q[j]
  BY DEF Ascends, q
<1>3. CASE i <= m /\ j <= m
  <2>1. i \in 1 .. m /\ j \in 1 .. m /\ q[i] = s[i] /\ q[j] = s[j]
    BY <1>1, <1>2, <1>3
  <2> QED BY <2>1 DEF Ascends
<1>4. CASE i <= m /\ ~(j <= m)
  <2>1. i \in 1 .. m /\ j - m \in 1 .. Len(t) /\ q[i] = s[i] /\ q[j] = t[j - m]
    BY <1>1, <1>2, <1>4
  <2> QED BY <2>1 DEF Precedes
<1>5. CASE ~(i <= m)
  <2>1. i - m \in 1 .. Len(t) /\ j - m \in 1 .. Len(t) /\ q[i] = t[i - m] /\ q[j] = t[j - m]
        /\ i - m < j - m
    BY <1>1, <1>2, <1>5
  <2> QED BY <2>1 DEF Ascends
<1> QED BY <1>3, <1>4, <1>5

(* Who asks later is behind everybody.                                     *)
LEMMA OrderAppend ==
  ASSUME NEW n \in Nat, NEW s \in Seq(0 .. n), NEW x \in {Watcher, n + 1}
  PROVE  /\ Ascends(s) => Ascends(Append(s, x))
         /\ \A t \in Seq(0 .. n) : Precedes(t, s) => Precedes(t, Append(s, x))
<1>1. /\ Len(Append(s, x)) = Len(s) + 1 /\ Len(s) \in Nat /\ Append(s, x)[Len(s) + 1] = x
      /\ \A i \in 1 .. Len(s) : Append(s, x)[i] = s[i]
  BY AppendProperties, LenProperties
<1>2. \A i \in 1 .. Len(s) + 1 : i \in 1 .. Len(s) \/ i = Len(s) + 1
  BY <1>1
<1>3. \A t \in Seq(0 .. n) : \A i \in 1 .. Len(t) : t[i] \in 0 .. n
  BY ElementOfSeq
<1>4. \A k \in 0 .. n : x # Watcher => k < x
  OBVIOUS
<1>5. ASSUME Ascends(s) PROVE Ascends(Append(s, x))
  <2>1. \A i, j \in 1 .. Len(s) + 1 : i < j => i \in 1 .. Len(s)
    BY <1>1
  <2> QED BY <1>1, <1>2, <1>3, <1>4, <1>5, <2>1 DEF Ascends
<1>6. ASSUME NEW t \in Seq(0 .. n), Precedes(t, s) PROVE Precedes(t, Append(s, x))
  BY <1>1, <1>2, <1>3, <1>4, <1>6 DEF Precedes
<1> QED BY <1>5, <1>6

(* Outside of processBasicCallbacks' own steps, a reader joins the end of  *)
(* its list, or the list is emptied.                                       *)
ReadersGrow ==
  \A fd \in Sockets :
    \/ fds'[fd].readList \in {fds[fd].readList, << >>}
    \/ \E x \in {Watcher, Len(futs) + 1} : fds'[fd].readList = Append(fds[fd].readList, x)

LEMMA ReadersMove ==
  ASSUME DataInv, LoopInv, PlaceInv, Moves, ~MoveOut, ~MoveBack
  PROVE  ReadersGrow
<1>1. fds' = fds => ReadersGrow
  BY DEF ReadersGrow
<1>2. ASSUME NEW g \in Sockets, Shut(g) \/ Watches(g) \/ \E k \in IoKinds : Asked(k, g)
      PROVE  ReadersGrow
  <2>1. \A h \in Sockets : h # g => fds'[h] = fds[h]
    BY <1>2 DEF Shut, Watches, Relisted, Asked, Others
  <2>2. \/ fds'[g].readList \in {fds[g].readList, << >>}
        \/ \E x \in {Watcher, Len(futs) + 1} : fds'[g].readList = Append(fds[g].readList, x)
    <3>1. CASE Shut(g)
      BY <3>1 DEF Shut, Closed
    <3>2. CASE Watches(g)
      BY <3>2 DEF Watches, Relisted
    <3>3. CASE \E k \in IoKinds : Asked(k, g)
      BY <3>3 DEF Asked
    <3> QED BY <1>2, <3>1, <3>2, <3>3
  <2> QED BY <2>1, <2>2 DEF ReadersGrow
<1>3. CASE Quiet \/ CallBack
  BY <1>1, <1>3, CallBackDoes DEF Quiet, Tried
<1>4. CASE SelectReturns
  BY <1>1, <1>4, SelectReturnsDoes DEF Quiet
<1>5. CASE CallWatcher
  <2>1. Fd \in Sockets
    BY <1>5, AtFd DEF CallWatcher, CallsNext, Dispatching
  <2> QED BY <1>1, <1>2, <1>5, <2>1, CallWatcherDoes DEF Unchanged, IoKinds
<1>6. CASE NextKey
  <2>1. Fd \in Sockets
    BY <1>6, AtFd DEF NextKey, Dispatching
  <2>2. CASE Unchanged
    BY <1>1, <2>2 DEF Unchanged
  <2>3. CASE Relisted(Fd, fds[Fd].readList, fds[Fd].writeList, Counted)
    BY <2>1, <2>3 DEF Relisted, Others, ReadersGrow
  <2> QED BY <1>6, <2>2, <2>3, NextKeyDoes
<1> QED BY <1>2, <1>3, <1>4, <1>5, <1>6 DEF Moves

LEMMA ReadersAscend ==
  ASSUME DataInv, OrderInv, ReadersGrow, NEW fd \in Sockets
  PROVE  /\ Ascends(fds'[fd].readList)
         /\ \A t \in Seq(0 .. Len(futs)) :
              Precedes(t, fds[fd].readList) => Precedes(t, fds'[fd].readList)
<1>1. Len(futs) \in Nat /\ fds[fd].readList \in Seq(0 .. Len(futs)) /\ Ascends(fds[fd].readList)
  BY ListsTyped DEF OrderInv
<1>2. CASE fds'[fd].readList \in {fds[fd].readList, << >>}
  BY <1>1, <1>2, OrderEmpty
<1>3. CASE \E x \in {Watcher, Len(futs) + 1} : fds'[fd].readList = Append(fds[fd].readList, x)
  BY <1>1, <1>3, OrderAppend
<1> QED BY <1>2, <1>3 DEF ReadersGrow

LEMMA HeldInOrder ==
  ASSUME DataInv, PlaceInv, OrderInv, ReadersGrow, Fd \in Sockets, Fd' = Fd, io'.event = "read",
         io' = io \/ (io.cur # << >> /\ (Leaves \/ Remains))
  PROVE  /\ Ascends(io'.cur) /\ Precedes(io'.cur, fds'[Fd'].readList)
         /\ Ascends(io'.new) /\ Precedes(io'.new, fds'[Fd'].readList)
<1>1. io.cur \in Seq(0 .. Len(futs)) /\ io.new \in Seq(0 .. Len(futs))
  BY IoTyped
<1>2. io.event = "read"
  BY DEF Leaves, Remains
<1>3. /\ Ascends(io.cur) /\ Precedes(io.cur, fds[Fd].readList)
      /\ Ascends(io.new) /\ Precedes(io.new, fds[Fd].readList)
  BY <1>2 DEF OrderInv
<1>4. PICK list : list = fds'[Fd].readList
  OBVIOUS
<1>5. Precedes(io.cur, list) /\ Precedes(io.new, list)
  BY <1>1, <1>3, <1>4, ReadersAscend
<1>6. CASE io' = io
  BY <1>3, <1>4, <1>5, <1>6
<1>7. CASE io.cur # << >> /\ Leaves
  <2>1. io'.new = io.new /\ io'.cur = Tail(io.cur)
    BY <1>7 DEF Leaves
  <2>2. Ascends(Tail(io.cur)) /\ Precedes(Tail(io.cur), list)
    BY <1>1, <1>3, <1>5, <1>7, OrderTail
  <2> QED BY <1>3, <1>4, <1>5, <2>1, <2>2
<1>8. CASE io.cur # << >> /\ Remains
  <2>1. io.new = << >> /\ io'.new = io.new \o io.cur /\ io'.cur = << >>
    BY <1>8 DEF Remains, PlaceInv
  <2>2. io'.new = io.cur
    BY <1>1, <2>1, ConcatEmptySeq
  <2> QED BY <1>3, <1>4, <1>5, <2>1, <2>2, OrderEmpty
<1> QED BY <1>6, <1>7, <1>8

LEMMA OrderKept ==
  ASSUME DataInv, LoopInv, PlaceInv, OrderInv, Moves
  PROVE  OrderInv'
<1>1. CASE MoveOut
  <2>1. PICK fd, reads, writes, e :
           /\ fd \in Sockets /\ fd = Fd /\ Relisted(fd, reads, writes, e) /\ io'.new = << >>
           /\ \/ io'.event = "read" /\ reads = << >> /\ io'.cur = fds[fd].readList
              \/ io'.event = "write" /\ reads = fds[fd].readList
    <3>1. Fd \in Sockets
      BY <1>1, AtFd DEF MoveOut, Dispatching
    <3>2. io'.event = "read" \/ io'.event = "write"
      BY <1>1, MoveOutDoes DEF Events
    <3> QED BY <1>1, <3>1, <3>2, MoveOutDoes
  <2>2. fds'[fd].readList = reads /\ \A g \in Sockets : g # fd => fds'[g] = fds[g]
    BY <2>1 DEF Relisted, Others
  <2>3. Fd' = Fd
    <3>1. keys' = [keys EXCEPT ![1].events = @ \ {io'.event}]
      BY <1>1, MoveOutDoes
    <3>2. keys # << >>
      BY <1>1 DEF MoveOut, Dispatching
    <3>3. keys[1] \in Key /\ Len(keys) \in Nat \ {0}
      BY <3>2, AtFd
    <3> QED BY <3>1, <3>3 DEF Fd, Key, LoopInv
  <2>4. Ascends(reads) /\ Ascends(fds[fd].readList)
    BY <2>1, OrderEmpty DEF OrderInv
  <2>5. \A g \in Sockets : Ascends(fds'[g].readList)
    BY <2>2, <2>4 DEF OrderInv
  <2>6. ASSUME io'.event = "read"
        PROVE  /\ Ascends(io'.cur) /\ Precedes(io'.cur, fds'[Fd'].readList)
               /\ Ascends(io'.new) /\ Precedes(io'.new, fds'[Fd'].readList)
    BY <2>1, <2>2, <2>3, <2>4, <2>6, OrderEmpty
  <2> QED BY <2>5, <2>6 DEF OrderInv
<1>2. CASE MoveBack
  <2>1. Fd \in Sockets /\ fds[Fd].readList \in Seq(0 .. Len(futs)) /\ io.new \in Seq(0 .. Len(futs))
    BY <1>2, AtFd, IoTyped DEF MoveBack, Dispatching
  <2>2. PICK fd, reads, writes :
           /\ fd \in Sockets /\ fd = Fd
           /\ reads = (IF io.event = "read" THEN io.new \o fds[Fd].readList ELSE fds[Fd].readList)
           /\ writes = (IF io.event = "read" THEN fds[Fd].writeList ELSE io.new \o fds[Fd].writeList)
    BY <2>1
  <2>3. io' = NoIo /\ (Relisted(fd, reads, writes, fds[Fd].interest) \/ Unchanged)
    BY <1>2, <2>2, MoveBackDoes
  <2>4. Ascends(reads) /\ \A g \in Sockets : Ascends(fds[g].readList)
    <3>1. \A g \in Sockets : Ascends(fds[g].readList)
      BY DEF OrderInv
    <3>2. CASE io.event = "read"
      <4>1. Ascends(io.new) /\ Precedes(io.new, fds[Fd].readList)
        BY <3>2 DEF OrderInv
      <4>2. Ascends(io.new \o fds[Fd].readList)
        BY <2>1, <3>1, <4>1, OrderConcat
      <4> QED BY <2>2, <3>1, <3>2, <4>2
    <3>3. CASE io.event # "read"
      BY <2>1, <2>2, <3>1, <3>3
    <3> QED BY <3>2, <3>3
  <2>5. CASE Unchanged
    BY <2>3, <2>4, <2>5 DEF Unchanged, NoIo, OrderInv
  <2>6. CASE Relisted(fd, reads, writes, fds[Fd].interest)
    <3>1. fds'[fd].readList = reads /\ \A g \in Sockets : g # fd => fds'[g] = fds[g]
      BY <2>6 DEF Relisted, Others
    <3>2. \A g \in Sockets : Ascends(fds'[g].readList)
      BY <2>4, <3>1
    <3> QED BY <2>3, <3>2 DEF NoIo, OrderInv
  <2> QED BY <2>3, <2>5, <2>6
<1>3. CASE ~MoveOut /\ ~MoveBack
  <2>1. ReadersGrow
    BY <1>3, ReadersMove
  <2>2. \A fd \in Sockets : Ascends(fds'[fd].readList)
    BY <2>1, ReadersAscend
  <2>3. CASE CallBack \/ CallWatcher
    <3>1. Fd \in Sockets /\ keys' = keys /\ io.cur # << >>
      BY <2>3, AtFd DEF CallBack, CallWatcher, CallsNext, Dispatching
    <3>2. Leaves \/ Remains
      BY <2>3, CallBackDoes, CallWatcherDoes
    <3>3. Fd' = Fd
      BY <3>1 DEF Fd
    <3> QED BY <2>1, <2>2, <3>1, <3>2, <3>3, HeldInOrder DEF OrderInv
  <2>4. CASE SelectReturns \/ NextKey
    <3>1. io' = io /\ io.event = "none"
      BY <2>4 DEF SelectReturns, NextKey, Dispatching, PlaceInv, Elsewhere
    <3> QED BY <2>2, <3>1 DEF OrderInv
  <2>5. CASE ~CallBack /\ ~CallWatcher /\ ~SelectReturns /\ ~NextKey
    <3>1. io' = io /\ keys' = keys /\ Fd' = Fd
      BY <1>3, <2>5, Resting
    <3>2. CASE io.event = "read"
      <4>1. Fd \in Sockets
        BY <3>2, AtFd DEF PlaceInv
      <4> QED BY <2>1, <2>2, <3>1, <4>1, HeldInOrder DEF OrderInv
    <3>3. CASE io.event # "read"
      BY <2>2, <3>1, <3>3 DEF OrderInv
    <3> QED BY <3>2, <3>3
  <2> QED BY <2>3, <2>4, <2>5
<1> QED BY <1>1, <1>2, <1>3

(***************************************************************************)
(* How operations are answered.                                            *)
(***************************************************************************)
LEMMA ListedPending ==
  ASSUME QueuesInv, NEW fd \in Sockets, NEW f \in 1 .. Len(futs),
         NEW list, list = fds[fd].readList \o fds[fd].writeList, NEW j \in 1 .. Len(list), list[j] = f
  PROVE  AskedBy(f, fd) /\ Pending(f)
<1>1. DataInv /\ ListInv /\ CountInv
  BY DEF QueuesInv
<1>2. /\ fds[fd].readList \in Seq(0 .. Len(futs)) /\ fds[fd].writeList \in Seq(0 .. Len(futs))
      /\ f # Watcher /\ Len(futs) \in Nat
  BY <1>1, ListsTyped DEF Watcher
<1>3. list \in Seq(0 .. Len(futs)) /\ Len(list) = Len(fds[fd].readList) + Len(fds[fd].writeList)
      /\ Len(fds[fd].readList) \in Nat /\ Len(fds[fd].writeList) \in Nat
      /\ list[j] = IF j <= Len(fds[fd].readList) THEN fds[fd].readList[j]
                   ELSE fds[fd].writeList[j - Len(fds[fd].readList)]
  BY <1>2, ConcatProperties, LenProperties
<1>4. AskedBy(f, fd)
  <2>1. Belongs(futs, fds[fd].readList, "recv", fd) /\ Belongs(futs, fds[fd].writeList, "send", fd)
    BY <1>1 DEF ListInv
  <2>2. CASE j <= Len(fds[fd].readList)
    <3>1. j \in 1 .. Len(fds[fd].readList) /\ fds[fd].readList[j] = f
      BY <1>3, <2>2
    <3> QED BY <1>2, <2>1, <3>1 DEF Belongs, AskedBy, IoKinds
  <2>3. CASE ~(j <= Len(fds[fd].readList))
    <3>1. PICK i : i = j - Len(fds[fd].readList)
      OBVIOUS
    <3>2. fds[fd].writeList[i] = f
      BY <1>3, <2>3, <3>1
    <3>3. i \in 1 .. Len(fds[fd].writeList)
      <4>1. PICK m, w : m = Len(fds[fd].readList) /\ w = Len(fds[fd].writeList)
        OBVIOUS
      <4>2. m \in Nat /\ w \in Nat
        BY <1>3, <4>1
      <4>3. Len(list) = m + w
        BY <1>3, <4>1
      <4>4. j \in 1 .. m + w
        BY <4>3
      <4>5. ~(j <= m) /\ i = j - m
        BY <2>3, <3>1, <4>1
      <4>6. i \in 1 .. w
        BY <4>2, <4>4, <4>5
      <4> QED BY <4>1, <4>6
    <3> QED BY <1>2, <2>1, <3>2, <3>3 DEF Belongs, AskedBy, IoKinds
  <2> QED BY <2>2, <2>3
<1>5. PICK a \in Nat, b \in Nat : a = Times(f, list) /\ b = Count(f, fd) - a /\ a # 0
  <2>1. PICK a \in Nat : a = Times(f, list) /\ a # 0
    BY <1>3, TimesNat
  <2>2. PICK b \in Nat : b = IF keys # << >> /\ Fd = fd THEN Times(f, io.cur \o io.new) ELSE 0
    <3>1. io.cur \o io.new \in Seq(0 .. Len(futs))
      BY <1>1, IoTyped, ConcatProperties
    <3> QED BY <3>1, TimesNat
  <2>3. Count(f, fd) = a + b
    BY <1>1, <2>1, <2>2, CountIs
  <2> QED BY <2>1, <2>3
<1>6. Count(f, fd) = IF Pending(f) THEN 1 ELSE 0
  BY <1>1, <1>4, CountOld DEF Counted1
<1>7. Pending(f)
  BY <1>5, <1>6
<1> QED BY <1>4, <1>7

LEMMA CalledPending ==
  ASSUME QueuesInv, CallBack, NEW f, f = io.cur[1]
  PROVE  /\ AskedBy(f, Fd) /\ Pending(f) /\ futs[f].kind = KindOf(io.event)
         /\ Fd \in Sockets /\ io.cur # << >> /\ io.event # "none" /\ io.new = << >>
<1>1. DataInv /\ LoopInv /\ PlaceInv /\ ListInv /\ CountInv
  BY DEF QueuesInv
<1>2. /\ keys # << >> /\ io.cur # << >> /\ io.event # "none" /\ io.new = << >>
      /\ Fd \in Sockets /\ f \in 1 .. Len(futs)
  BY <1>1, CallBackDoes, AtFd DEF CallBack, CallsNext, Dispatching, PlaceInv
<1>3. /\ io.cur \in Seq(0 .. Len(futs)) /\ 1 \in 1 .. Len(io.cur) /\ f # Watcher
  BY <1>1, <1>2, IoTyped, FutsTyped, EmptySeq, LenProperties DEF Watcher
<1>4. futs[f].kind = KindOf(io.event) /\ futs[f].of = Fd
  BY <1>1, <1>2, <1>3 DEF ListInv, Belongs
<1>5. AskedBy(f, Fd)
  BY <1>2, <1>4 DEF AskedBy, KindOf, IoKinds
<1>6. PICK fd \in Sockets : fd = Fd
  BY <1>2
<1>7. Pending(f)
  <2>1. PICK a \in Nat, b \in Nat, c \in Nat, d \in Nat :
          /\ a = Times(f, fds[fd].readList) /\ b = Times(f, fds[fd].writeList)
          /\ c = Times(f, io.cur) /\ d = Times(f, io.new)
    BY <1>1, CountNat
  <2>2. c # 0
    BY <1>3, <2>1, TimesNat
  <2>3. Count(f, fd) = a + b + (c + d)
    BY <1>2, <1>6, <2>1 DEF Count, Called
  <2>4. Count(f, fd) = IF Pending(f) THEN 1 ELSE 0
    BY <1>1, <1>5, <1>6, CountOld DEF Counted1
  <2> QED BY <2>2, <2>3, <2>4
<1> QED BY <1>2, <1>4, <1>5, <1>7

(* Nothing opens a socket again or makes a peer speak that has hung up.    *)
SocketsAge ==
  \A fd \in Sockets : /\ ~fds[fd].open => ~fds'[fd].open
                      /\ hungup[fd] => hungup'[fd] /\ (inbox[fd] = 0 => inbox'[fd] = 0)

LEMMA SocketsMove ==
  ASSUME DataInv, LoopInv, Moves, DataInv'
  PROVE  SocketsAge
<1>1. Quiet \/ Unchanged => SocketsAge
  BY DEF Quiet, Unchanged, SocketsAge
<1>2. ASSUME NEW g \in Sockets, Shut(g) \/ Watches(g) \/ \E k \in IoKinds : Asked(k, g)
      PROVE  SocketsAge
  <2>1. hungup' = hungup /\ \A h \in Sockets : h # g => fds'[h] = fds[h] /\ inbox'[h] = inbox[h]
    BY <1>2 DEF Shut, Watches, Relisted, Asked, Kept, Others
  <2>2. CASE Shut(g)
    <3>1. ~fds'[g].open /\ inbox'[g] = 0
      BY <2>2 DEF Shut, Closed
    <3> QED BY <2>1, <3>1 DEF SocketsAge
  <2>3. CASE Watches(g) \/ \E k \in IoKinds : Asked(k, g)
    <3>1. fds'[g].open = fds[g].open /\ inbox' = inbox
      BY <2>3 DEF Watches, Relisted, Asked
    <3> QED BY <2>1, <3>1 DEF SocketsAge
  <2> QED BY <1>2, <2>2, <2>3
<1>3. ASSUME NEW g \in Sockets, NEW reads, NEW writes, NEW e, Relisted(g, reads, writes, e)
      PROVE  SocketsAge
  BY <1>3 DEF Relisted, Kept, Others, SocketsAge
<1>4. CASE SelectReturns
  BY <1>1, <1>4, SelectReturnsDoes
<1>5. CASE MoveOut
  <2>1. Fd \in Sockets
    BY <1>5, AtFd DEF MoveOut, Dispatching
  <2> QED BY <1>3, <1>5, <2>1, MoveOutDoes
<1>6. CASE CallBack
  <2>1. hungup' = hungup /\ fds' = fds /\ \A g \in Sockets : inbox'[g] <= inbox[g]
    BY <1>6, CallBackDoes DEF Tried, Kept
  <2>2. inbox' \in [Sockets -> 0 .. MaxInbox] /\ inbox \in [Sockets -> 0 .. MaxInbox]
    <3>1. Len(futs) \in Nat /\ Len(futs)' \in Nat
      BY <1>6, FutsTyped, CallBackDoes DEF Tried, Kept
    <3>2. State.inbox \in [Sockets -> 0 .. MaxInbox]
      BY <3>1, Fields DEF DataInv
    <3>3. PICK s, n, T : s = State' /\ n = Len(futs)' /\ T = Of("timeout")'
      OBVIOUS
    <3>4. s \in States(n, T)
      BY <3>3 DEF DataInv
    <3>5. s.inbox \in [Sockets -> 0 .. MaxInbox]
      BY <3>1, <3>3, <3>4, Fields
    <3> QED BY <3>2, <3>3, <3>5 DEF State
  <2>3. \A g \in Sockets : inbox[g] = 0 => inbox'[g] = 0
    BY <2>1, <2>2, ConstantsAssumption
  <2> QED BY <2>1, <2>3 DEF SocketsAge
<1>7. CASE CallWatcher
  <2>1. Fd \in Sockets /\ "recv" \in IoKinds
    BY <1>7, AtFd DEF CallWatcher, CallsNext, Dispatching, IoKinds
  <2> QED BY <1>1, <1>2, <1>7, <2>1, CallWatcherDoes
<1>8. CASE MoveBack
  <2>1. Fd \in Sockets
    BY <1>8, AtFd DEF MoveBack, Dispatching
  <2>2. PICK reads, writes :
           /\ reads = (IF io.event = "read" THEN io.new \o fds[Fd].readList ELSE fds[Fd].readList)
           /\ writes = (IF io.event = "read" THEN fds[Fd].writeList ELSE io.new \o fds[Fd].writeList)
    OBVIOUS
  <2> QED BY <1>1, <1>3, <1>8, <2>1, <2>2, MoveBackDoes
<1>9. CASE NextKey
  <2>1. Fd \in Sockets
    BY <1>9, AtFd DEF NextKey, Dispatching
  <2> QED BY <1>1, <1>3, <1>9, <2>1, NextKeyDoes
<1> QED BY <1>1, <1>2, <1>4, <1>5, <1>6, <1>7, <1>8, <1>9 DEF Moves

(* What may become of a receiver in a step.                                *)
Fate(f) ==
  \/ f \in 1 .. Len(futs) /\ futs'[f].answer = futs[f].answer
  \/ f \notin 1 .. Len(futs) /\ futs'[f].answer = "none" /\ futs'[f].of \in Sockets
  \/ /\ f \in 1 .. Len(futs) /\ Pending(f)
     /\ \E fd \in Sockets :
          /\ futs[f].of = fd
          /\ \/ futs'[f].answer = "failed" /\ ~fds'[fd].open
             \/ futs'[f].answer = "end" /\ hungup[fd] /\ inbox[fd] = 0
             \/ /\ futs'[f].answer = "data" /\ fds[fd].open /\ inbox[fd] > 0
                /\ CallBack /\ f = io.cur[1] /\ Fd = fd

LEMMA InboxTyped ==
  ASSUME DataInv
  PROVE  \A fd \in Sockets : inbox[fd] \in Nat /\ hungup[fd] \in BOOLEAN
<1>1. Len(futs) \in Nat /\ MaxInbox \in Nat
  BY FutsTyped, ConstantsAssumption
<1>2. State.inbox \in [Sockets -> 0 .. MaxInbox]
  BY <1>1, Fields DEF DataInv
<1>3. \A fd \in Sockets : inbox[fd] \in 0 .. MaxInbox
  BY <1>2 DEF State
<1> QED BY <1>1, <1>3 DEF DataInv

LEMMA FateShut ==
  ASSUME QueuesInv, NEW g \in Sockets, Shut(g), NEW f \in 1 .. Len(futs)'
  PROVE  Fate(f)
<1>1. PICK list : list = fds[g].readList \o fds[g].writeList
  OBVIOUS
<1>2. /\ f \in 1 .. Len(futs) /\ ~fds'[g].open
      /\ futs'[f].answer = IF \E j \in 1 .. Len(list) : list[j] = f THEN "failed" ELSE futs[f].answer
  <2>1. f \in 1 .. Len(futs) /\ ~fds'[g].open
    BY DEF Shut, Closed
  <2>2. \A h \in 1 .. Len(futs) :
          futs'[h].answer = IF \E j \in 1 .. Len(list) : list[j] = h THEN "failed" ELSE futs[h].answer
    BY <1>1, Zenon DEF Shut
  <2> QED BY <2>1, <2>2
<1>3. CASE \E j \in 1 .. Len(list) : list[j] = f
  <2>1. AskedBy(f, g) /\ Pending(f)
    BY <1>1, <1>2, <1>3, ListedPending
  <2> QED BY <1>2, <1>3, <2>1 DEF Fate, AskedBy
<1>4. CASE ~\E j \in 1 .. Len(list) : list[j] = f
  BY <1>2, <1>4 DEF Fate
<1> QED BY <1>3, <1>4

LEMMA FateAsked ==
  ASSUME DataInv, NEW g \in Sockets, NEW k \in IoKinds, Asked(k, g), NEW f \in 1 .. Len(futs)'
  PROVE  Fate(f)
<1>1. PICK n \in Nat : n = Len(futs)
  BY FutsTyped
<1>2. /\ Len(futs)' = n + 1 /\ \A h \in 1 .. n : futs'[h].answer = futs[h].answer
      /\ futs'[n + 1].answer = "none" /\ futs'[n + 1].of = g
  BY <1>1 DEF Asked, Answered
<1>3. f \in 1 .. n \/ f = n + 1
  BY <1>2
<1>4. n + 1 \notin 1 .. n
  OBVIOUS
<1> QED BY <1>1, <1>2, <1>3, <1>4 DEF Fate

LEMMA FateCalled ==
  ASSUME QueuesInv, CallBack, NEW f \in 1 .. Len(futs)', futs'[f].kind = "recv"
  PROVE  Fate(f)
<1>1. DataInv /\ LoopInv
  BY DEF QueuesInv
<1>2. PICK f0 : f0 = io.cur[1]
  OBVIOUS
<1>3. PICK fd \in Sockets : fd = Fd
  BY <1>2, CalledPending
<1>4. AskedBy(f0, fd) /\ Pending(f0)
  BY <1>2, <1>3, CalledPending
<1>5. /\ f \in 1 .. Len(futs) /\ fds' = fds
      /\ futs[f].kind = "recv"
      /\ futs'[f0].answer = Outcome(State, fd, f0)
      /\ f # f0 => futs'[f].answer = futs[f].answer
  BY <1>1, <1>2, <1>3, CallBackDoes DEF Tried, Kept, Answered
<1>6. CASE f # f0 \/ Again(State, fd, f0)
  BY <1>5, <1>6 DEF Fate, Outcome, State
<1>7. CASE f = f0 /\ ~Again(State, fd, f0)
  <2>1. futs'[f].answer = IF ~fds[fd].open THEN "failed" ELSE IF inbox[fd] > 0 THEN "data" ELSE "end"
    BY <1>5, <1>7 DEF Outcome, State
  <2>2. fds[fd].open => inbox[fd] # 0 \/ hungup[fd]
    BY <1>5, <1>7 DEF Again, State
  <2>3. inbox[fd] > 0 \/ inbox[fd] = 0
    BY <1>1, InboxTyped
  <2>4. futs[f].of = fd /\ Pending(f)
    BY <1>4, <1>7 DEF AskedBy
  <2>5. CASE ~fds[fd].open
    BY <1>5, <2>1, <2>4, <2>5 DEF Fate
  <2>6. CASE fds[fd].open /\ inbox[fd] > 0
    BY <1>2, <1>3, <1>5, <1>7, <2>1, <2>4, <2>6 DEF Fate
  <2>7. CASE fds[fd].open /\ ~(inbox[fd] > 0)
    <3>1. futs'[f].answer = "end" /\ hungup[fd] /\ inbox[fd] = 0
      BY <1>1, <2>1, <2>2, <2>3, <2>7
    <3> QED BY <1>5, <2>4, <3>1 DEF Fate
  <2> QED BY <2>5, <2>6, <2>7
<1> QED BY <1>6, <1>7

LEMMA FatesAre ==
  ASSUME QueuesInv, Moves, NEW f \in 1 .. Len(futs)', futs'[f].kind = "recv"
  PROVE  Fate(f)
<1>1. DataInv /\ LoopInv
  BY DEF QueuesInv
<1>2. Quiet \/ Unchanged => Fate(f)
  BY DEF Quiet, Unchanged, Fate, IoKinds
<1>3. ASSUME NEW g \in Sockets, Shut(g) \/ Watches(g) \/ \E k \in IoKinds : Asked(k, g)
      PROVE  Fate(f)
  <2>1. CASE Watches(g)
    BY <2>1 DEF Watches, Relisted, Answered, Fate
  <2> QED BY <1>1, <1>3, <2>1, FateShut, FateAsked
<1>4. ASSUME NEW g, NEW reads, NEW writes, NEW e, Relisted(g, reads, writes, e)
      PROVE  Fate(f)
  BY <1>4 DEF Relisted, Answered, Fate
<1>5. CASE SelectReturns
  BY <1>1, <1>2, <1>5, SelectReturnsDoes
<1>6. CASE MoveOut
  BY <1>1, <1>4, <1>6, MoveOutDoes
<1>7. CASE CallBack
  BY <1>7, FateCalled
<1>8. CASE CallWatcher
  <2>1. Fd \in Sockets /\ "recv" \in IoKinds
    BY <1>1, <1>8, AtFd DEF CallWatcher, CallsNext, Dispatching, IoKinds
  <2> QED BY <1>1, <1>2, <1>3, <1>8, <2>1, CallWatcherDoes
<1>9. CASE MoveBack
  <2>1. PICK reads, writes :
           /\ reads = (IF io.event = "read" THEN io.new \o fds[Fd].readList ELSE fds[Fd].readList)
           /\ writes = (IF io.event = "read" THEN fds[Fd].writeList ELSE io.new \o fds[Fd].writeList)
    OBVIOUS
  <2> QED BY <1>1, <1>2, <1>4, <1>9, <2>1, MoveBackDoes
<1>10. CASE NextKey
  BY <1>1, <1>2, <1>4, <1>10, NextKeyDoes
<1> QED BY <1>2, <1>3, <1>5, <1>6, <1>7, <1>8, <1>9, <1>10 DEF Moves

(***************************************************************************)
(* Receivers are served in turn.                                           *)
(***************************************************************************)
Receiver(F, f) == F[f].kind = "recv"
ReceivedInv ==
  \A f \in 1 .. Len(futs) : Receiver(futs, f) =>
    \E fd \in Sockets :
      /\ futs[f].of = fd /\ futs[f].answer \in {"none", "data", "end", "failed"}
      /\ futs[f].answer = "failed" => ~fds[fd].open
      /\ futs[f].answer = "end" => ~fds[fd].open \/ (hungup[fd] /\ inbox[fd] = 0)
TurnInv ==
  \A f, g \in 1 .. Len(futs) :
    Receiver(futs, f) /\ Receiver(futs, g) /\ futs[f].of = futs[g].of /\ f < g
      => (futs[g].answer = "data" => futs[f].answer = "data")

LEMMA ReceivedKept ==
  ASSUME QueuesInv, ReceivedInv, Moves, SameKinds, SocketsAge, Len(futs)' \in Nat
  PROVE  ReceivedInv'
<1> SUFFICES ASSUME NEW f \in 1 .. Len(futs)', Receiver(futs', f)
             PROVE  \E fd \in Sockets :
                      /\ futs'[f].of = fd /\ futs'[f].answer \in {"none", "data", "end", "failed"}
                      /\ futs'[f].answer = "failed" => ~fds'[fd].open
                      /\ futs'[f].answer = "end" => ~fds'[fd].open \/ (hungup'[fd] /\ inbox'[fd] = 0)
  BY DEF ReceivedInv, Receiver
<1>1. Fate(f)
  BY FatesAre DEF Receiver
<1>2. CASE f \notin 1 .. Len(futs)
  <2>1. futs'[f].answer = "none" /\ futs'[f].of \in Sockets
    BY <1>1, <1>2 DEF Fate
  <2> QED BY <2>1
<1>3. CASE f \in 1 .. Len(futs)
  <2>1. Receiver(futs, f) /\ futs'[f].of = futs[f].of
    BY <1>3 DEF SameKinds, Receiver
  <2>2. PICK fd \in Sockets :
          /\ futs[f].of = fd /\ futs[f].answer \in {"none", "data", "end", "failed"}
          /\ futs[f].answer = "failed" => ~fds[fd].open
          /\ futs[f].answer = "end" => ~fds[fd].open \/ (hungup[fd] /\ inbox[fd] = 0)
    BY <1>3, <2>1 DEF ReceivedInv
  <2>3. /\ ~fds[fd].open => ~fds'[fd].open
        /\ hungup[fd] => hungup'[fd] /\ (inbox[fd] = 0 => inbox'[fd] = 0)
    BY DEF SocketsAge
  <2>4. CASE futs'[f].answer = futs[f].answer
    BY <2>1, <2>2, <2>3, <2>4
  <2>5. CASE futs'[f].answer # futs[f].answer
    <3>1. \/ futs'[f].answer = "failed" /\ ~fds'[fd].open
          \/ futs'[f].answer = "end" /\ hungup[fd] /\ inbox[fd] = 0
          \/ futs'[f].answer = "data"
      BY <1>1, <1>3, <2>2, <2>5 DEF Fate
    <3> QED BY <2>1, <2>2, <2>3, <3>1
  <2> QED BY <2>4, <2>5
<1> QED BY <1>2, <1>3

(* Whoever is called is the first of those who still wait for data.        *)
LEMMA FirstIsCalled ==
  ASSUME QueuesInv, OrderInv, CallBack, NEW g, g = io.cur[1], Receiver(futs, g),
         NEW fd \in Sockets, fd = Fd, NEW f, AskedBy(f, fd), Receiver(futs, f), Pending(f), f < g
  PROVE  FALSE
<1>1. DataInv /\ ListInv /\ CountInv /\ PlaceInv
  BY DEF QueuesInv
<1>2. io.event = "read" /\ io.cur # << >> /\ io.new = << >> /\ g \in 1 .. Len(futs) /\ keys # << >>
  BY <1>1, CalledPending DEF Receiver, KindOf, AskedBy, PlaceInv
<1>3. /\ Ascends(io.cur) /\ Precedes(io.cur, fds[fd].readList)
  BY <1>2 DEF OrderInv
<1>4. /\ f \in 1 .. Len(futs) /\ f # Watcher /\ g # Watcher /\ Len(futs) \in Nat
      /\ 1 \in 1 .. Len(io.cur) /\ Len(io.cur) \in Nat
      /\ io.cur \in Seq(0 .. Len(futs)) /\ fds[fd].readList \in Seq(0 .. Len(futs))
      /\ fds[fd].writeList \in Seq(0 .. Len(futs))
  <2>1. f # Watcher /\ g # Watcher /\ f \in 1 .. Len(futs) /\ Len(futs) \in Nat
    BY <1>1, <1>2, FutsTyped DEF AskedBy, Watcher
  <2>2. 1 \in 1 .. Len(io.cur) /\ Len(io.cur) \in Nat
    BY <1>1, <1>2, IoTyped, EmptySeq, LenProperties
  <2> QED BY <1>1, <2>1, <2>2, IoTyped, ListsTyped
<1>5. Times(f, io.cur) = 0
  <2>1. ASSUME NEW i \in 1 .. Len(io.cur), io.cur[i] = f PROVE FALSE
    <3>1. i = 1 \/ 1 < i
      BY <1>4
    <3>2. CASE 1 < i
      <4>1. g < f
        BY <1>3, <1>4, <2>1, <3>2 DEF Ascends
      <4> QED BY <1>2, <1>4, <4>1
    <3>3. CASE i = 1
      BY <1>2, <1>4, <2>1, <3>3
    <3> QED BY <3>1, <3>2, <3>3
  <2> QED BY <1>4, <2>1, TimesNat
<1>6. Times(f, fds[fd].readList) = 0
  <2>1. ASSUME NEW i \in 1 .. Len(fds[fd].readList), fds[fd].readList[i] = f PROVE FALSE
    <3>1. g < f
      BY <1>3, <1>4, <2>1 DEF Precedes
    <3> QED BY <1>2, <1>4, <3>1
  <2> QED BY <1>4, <2>1, TimesNat
<1>7. Times(f, fds[fd].writeList) = 0
  <2>1. Belongs(futs, fds[fd].writeList, "send", fd)
    BY <1>1 DEF ListInv
  <2>2. ASSUME NEW i \in 1 .. Len(fds[fd].writeList), fds[fd].writeList[i] = f PROVE FALSE
    BY <1>4, <2>1, <2>2 DEF Belongs, Receiver
  <2> QED BY <1>4, <2>2, TimesNat
<1>8. Count(f, fd) = 0
  BY <1>2, <1>5, <1>6, <1>7, TimesEmpty DEF Count, Called
<1> QED BY <1>1, <1>8, CountOld DEF Counted1

LEMMA TurnKept ==
  ASSUME QueuesInv, OrderInv, ReceivedInv, TurnInv, Moves, SameKinds, Len(futs)' \in Nat
  PROVE  TurnInv'
<1> SUFFICES ASSUME NEW f \in 1 .. Len(futs)', NEW g \in 1 .. Len(futs)', f < g,
                    Receiver(futs', f), Receiver(futs', g), futs'[f].of = futs'[g].of,
                    futs'[g].answer = "data"
             PROVE  futs'[f].answer = "data"
  BY DEF TurnInv, Receiver
<1>1. DataInv /\ LoopInv
  BY DEF QueuesInv
<1>2. Fate(f) /\ Fate(g)
  BY FatesAre DEF Receiver
<1>3. g \in 1 .. Len(futs)
  BY <1>2 DEF Fate
<1>4. f \in 1 .. Len(futs)
  BY <1>1, <1>3, FutsTyped
<1>5. Receiver(futs, f) /\ Receiver(futs, g) /\ futs[f].of = futs[g].of
  BY <1>3, <1>4 DEF SameKinds, Receiver
<1>6. CASE futs[g].answer = "data"
  <2>1. futs[f].answer = "data"
    BY <1>3, <1>4, <1>5, <1>6 DEF TurnInv
  <2> QED BY <1>2, <1>4, <2>1 DEF Fate, Pending, Finished, State
<1>7. CASE futs[g].answer # "data"
  <2>1. PICK fd \in Sockets :
          /\ futs[g].of = fd /\ fds[fd].open /\ inbox[fd] > 0
          /\ CallBack /\ g = io.cur[1] /\ Fd = fd
    BY <1>2, <1>3, <1>7 DEF Fate
  <2>2. futs'[f].answer = futs[f].answer
    <3>1. f # g
      BY <1>1, <1>3, <1>4, FutsTyped
    <3> QED BY <1>1, <1>4, <2>1, <3>1, CallBackDoes DEF Tried, Answered
  <2>3. AskedBy(f, fd)
    BY <1>4, <1>5, <2>1 DEF AskedBy, Receiver, IoKinds
  <2>4. ~Pending(f)
    BY <1>5, <2>1, <2>3, FirstIsCalled
  <2>5. futs[f].answer \in {"data", "end", "failed"}
    BY <1>4, <1>5, <2>4 DEF ReceivedInv, Pending, Finished, State
  <2>6. futs[f].answer # "failed" /\ (futs[f].answer = "end" => inbox[fd] = 0)
    BY <1>4, <1>5, <2>1 DEF ReceivedInv
  <2>7. inbox[fd] # 0
    BY <1>1, <2>1, InboxTyped
  <2> QED BY <2>2, <2>5, <2>6, <2>7
<1> QED BY <1>6, <1>7

ServingInv == QueuesInv /\ OrderInv /\ ReceivedInv /\ TurnInv

LEMMA ServingInitially ==
  ASSUME Init
  PROVE  ServingInv
<1>1. QueuesInv
  BY QueuesInitially
<1>2. io.event = "none" /\ \A fd \in Sockets : fds[fd].readList = << >>
  BY DEF Init, NoIo, Closed
<1>3. OrderInv
  BY <1>2, OrderEmpty DEF OrderInv
<1>4. \A f \in 1 .. Len(futs) : ~Receiver(futs, f)
  <2> DEFINE x == Future("task", 0, 0)
  <2>1. NTasks \in Nat /\ futs = [t \in 1 .. NTasks |-> x]
    <3> HIDE DEF x
    <3> QED BY ConstantsAssumption DEF Init, Tasks, x
  <2>2. x.kind = "task"
    BY DEF Future
  <2> HIDE DEF x
  <2> QED BY <2>1, <2>2 DEF Receiver
<1> QED BY <1>1, <1>3, <1>4 DEF ServingInv, ReceivedInv, TurnInv

LEMMA ServingStep ==
  ASSUME ServingInv, [Next]_vars
  PROVE  ServingInv'
<1>1. QueuesInv /\ OrderInv /\ ReceivedInv /\ TurnInv
  BY DEF ServingInv
<1>2. DataInv /\ LoopInv /\ PlaceInv /\ ListInv
  BY <1>1 DEF QueuesInv
<1>3. QueuesInv' /\ DataInv' /\ Moves
  BY <1>1, <1>2, QueuesStep, Steps
<1>4. SameKinds /\ SocketsAge /\ Len(futs)' \in Nat
  <2>1. Len(futs)' \in NTasks .. MaxFutures
    BY <1>3 DEF DataInv
  <2> QED BY <1>2, <1>3, <2>1, ListKept, SocketsMove, ConstantsAssumption
<1>5. OrderInv' /\ ReceivedInv' /\ TurnInv'
  BY <1>1, <1>2, <1>3, <1>4, OrderKept, ReceivedKept, TurnKept
<1> QED BY <1>3, <1>5 DEF ServingInv

LEMMA Serving == Spec => []ServingInv
BY ServingInitially, ServingStep, PTL DEF Spec

LEMMA ServedFollows ==
  ASSUME ServingInv
  PROVE  ServedInOrder
<1>1. DataInv /\ TurnInv
  BY DEF ServingInv, QueuesInv
<1> QED BY <1>1, FutsTyped DEF TurnInv, ServedInOrder, Ops, Receiver

(* A receiver gets data only after those of its socket who asked before it *)
(* have got theirs: none is overtaken, also when the list is moved out and *)
(* the rest is put back in front of those who asked meanwhile.             *)
THEOREM ReceiversServedInTurn == Spec => []ServedInOrder
BY ServedFollows, Serving, PTL

(***************************************************************************)
(* What epoll watches for.  While keys are processed, the interest of the  *)
(* one at the head is settled when it is left; one that was reported       *)
(* without an event has hung up, and its interest may then be cleared.     *)
(***************************************************************************)
WatchedInv ==
  /\ \A fd \in Sockets :
       fds[fd].open /\ ~hungup[fd] /\ (keys = << >> \/ Fd # fd) => fds[fd].interest = Listing(fds[fd])
  /\ \A i, j \in 1 .. Len(keys) : i # j => keys[i].fd # keys[j].fd
  /\ \A i \in 1 .. Len(keys) : keys[i].counts.read = -1 => ~fds[keys[i].fd].open
  /\ \A i \in 2 .. Len(keys) : hungup[keys[i].fd] \/ keys[i].events # {}
  /\ keys # << >> /\ io.event = "none" /\ keys[1].events = {} /\ fds[Fd].open /\ ~hungup[Fd]
       => Counted = Listing(fds[Fd])

LEMMA WatchedSelect ==
  ASSUME DataInv, LoopInv, PlaceInv, WatchedInv, SelectReturns
  PROVE  WatchedInv'
<1>1. /\ fds' = fds /\ \A fd \in Sockets : hungup[fd] => hungup'[fd]
      /\ keys' \in Seq(Key)
      /\ \A i, j \in 1 .. Len(keys') : i # j => keys'[i].fd # keys'[j].fd
      /\ \A i \in 1 .. Len(keys') :
           keys'[i].counts.read = 0 /\ (hungup[keys'[i].fd] \/ keys'[i].events # {})
  BY SelectReturnsDoes DEF Quiet
<1>2. keys = << >>
  BY DEF SelectReturns, PlaceInv, Elsewhere
<1>3. \A i \in 1 .. Len(keys') : keys'[i].fd \in Sockets
  <2>1. \A i \in 1 .. Len(keys') : keys'[i] \in Key
    BY <1>1, ElementOfSeq
  <2> QED BY <2>1 DEF Key
<1>4. \A i \in 1 .. Len(keys') : hungup'[keys'[i].fd] \/ keys'[i].events # {}
  BY <1>1, <1>3
<1>5. keys' # << >> => 1 \in 1 .. Len(keys')
  BY <1>1, EmptySeq, LenProperties
<1>6. \A i \in 2 .. Len(keys') : i \in 1 .. Len(keys')
  BY <1>1, LenProperties
<1>7. \A fd \in Sockets : fds'[fd].open /\ ~hungup'[fd] => fds'[fd].interest = Listing(fds'[fd])
  BY <1>1, <1>2 DEF WatchedInv
<1>8. ~(keys' # << >> /\ keys'[1].events = {} /\ ~hungup'[Fd'])
  BY <1>4, <1>5 DEF Fd
<1> QED BY <1>1, <1>4, <1>6, <1>7, <1>8 DEF WatchedInv

(* The keys stay, and so does what is known of the one at the head.        *)
LEMMA WatchedHolds ==
  ASSUME DataInv, LoopInv, WatchedInv, SocketsAge, keys # << >>,
         Len(keys') = Len(keys), \A i \in 2 .. Len(keys) : keys'[i] = keys[i], keys'[1].fd = Fd,
         keys'[1].counts.read = -1 => ~fds[Fd].open,
         \A fd \in Sockets : Fd # fd /\ fds'[fd].open =>
           fds'[fd] = fds[fd] \/ fds'[fd].interest = Listing(fds'[fd]),
         io'.event = "none" /\ keys'[1].events = {} /\ fds'[Fd].open /\ ~hungup'[Fd]
           => Counted' = Listing(fds'[Fd])
  PROVE  WatchedInv'
<1>1. Len(keys) \in Nat \ {0} /\ Fd \in Sockets /\ Fd = keys[1].fd /\ Fd' = Fd
      /\ \A i \in 1 .. Len(keys) : keys[i].fd \in Sockets
  <2>1. \A i \in 1 .. Len(keys) : keys[i] \in Key
    BY ElementOfSeq DEF LoopInv
  <2>2. Len(keys) \in Nat \ {0} /\ Fd \in Sockets
    BY AtFd
  <2> QED BY <2>1, <2>2 DEF Fd, Key
<1>2. keys' # << >>
  BY <1>1
<1>3. \A i \in 1 .. Len(keys) : i = 1 \/ i \in 2 .. Len(keys)
  BY <1>1
<1>4. \A i \in 1 .. Len(keys) : keys'[i].fd = keys[i].fd
  BY <1>1, <1>3
<1>5. ASSUME NEW fd \in Sockets, fds'[fd].open, ~hungup'[fd], Fd # fd
      PROVE  fds'[fd].interest = Listing(fds'[fd])
  <2>1. fds[fd].open /\ ~hungup[fd]
    BY <1>5 DEF SocketsAge
  <2>2. fds[fd].interest = Listing(fds[fd])
    BY <1>5, <2>1 DEF WatchedInv
  <2> QED BY <1>5, <2>2
<1>6. \A i \in 1 .. Len(keys) : keys'[i].counts.read = -1 => ~fds'[keys'[i].fd].open
  <2>1. \A i \in 1 .. Len(keys) : keys'[i].counts.read = -1 => ~fds[keys[i].fd].open
    BY <1>1, <1>3 DEF WatchedInv
  <2> QED BY <1>1, <1>4, <2>1 DEF SocketsAge
<1>7. \A i \in 2 .. Len(keys) : hungup'[keys'[i].fd] \/ keys'[i].events # {}
  <2>1. \A i \in 2 .. Len(keys) : i \in 1 .. Len(keys)
    BY <1>1
  <2> QED BY <1>1, <2>1 DEF WatchedInv, SocketsAge
<1>8. \A i, j \in 1 .. Len(keys') : i # j => keys'[i].fd # keys'[j].fd
  BY <1>4 DEF WatchedInv
<1> QED BY <1>1, <1>2, <1>5, <1>6, <1>7, <1>8 DEF WatchedInv

LEMMA WatchedNext ==
  ASSUME DataInv, LoopInv, WatchedInv, SocketsAge, NextKey
  PROVE  WatchedInv'
<1>1. /\ keys # << >> /\ io.event = "none" /\ keys[1].events = {} /\ keys' = Tail(keys)
  BY DEF NextKey, Dispatching
<1>2. PICK n \in Nat \ {0} : n = Len(keys)
  BY <1>1, AtFd
<1>3. /\ keys \in Seq(Key) /\ Fd \in Sockets /\ \A i \in 1 .. n : keys[i] \in Key
  BY <1>1, <1>2, AtFd, ElementOfSeq DEF LoopInv
<1>4. Len(keys') = n - 1 /\ \A i \in 1 .. n - 1 : keys'[i] = keys[i + 1]
  BY <1>1, <1>2, <1>3, HeadTailProperties
<1>5. \A i \in 1 .. n - 1 : i + 1 \in 2 .. n /\ i + 1 \in 1 .. n
  OBVIOUS
<1>6. \A i \in 1 .. n - 1 : keys'[i].fd \in Sockets
  BY <1>3, <1>4, <1>5 DEF Key
<1>7. \A i \in 1 .. n - 1 : hungup'[keys'[i].fd] \/ keys'[i].events # {}
  BY <1>2, <1>4, <1>5, <1>6 DEF WatchedInv, SocketsAge
<1>8. \A i \in 1 .. n - 1 : keys'[i].counts.read = -1 => ~fds'[keys'[i].fd].open
  BY <1>2, <1>4, <1>5, <1>6 DEF WatchedInv, SocketsAge
<1>9. \A i, j \in 1 .. n - 1 : i # j => keys'[i].fd # keys'[j].fd
  <2>1. \A i, j \in 1 .. n - 1 : i # j => i + 1 # j + 1
    OBVIOUS
  <2> QED BY <1>2, <1>4, <1>5, <2>1 DEF WatchedInv
<1>10. ASSUME NEW fd \in Sockets, fds'[fd].open, ~hungup'[fd]
       PROVE  fds'[fd].interest = Listing(fds'[fd])
  <2>1. fds[fd].open /\ ~hungup[fd]
    BY <1>10 DEF SocketsAge
  <2>2. CASE fd # Fd
    <3>1. fds'[fd] = fds[fd]
      BY <1>3, <2>2, NextKeyDoes DEF Unchanged, Relisted, Others
    <3> QED BY <2>1, <2>2, <3>1 DEF WatchedInv
  <2>3. CASE fd = Fd
    <3>1. 1 \in 1 .. n
      OBVIOUS
    <3>2. keys[1].counts.read # -1
      BY <1>2, <2>1, <2>3, <3>1 DEF WatchedInv, Fd
    <3>3. Relisted(fd, fds[fd].readList, fds[fd].writeList, Counted)
      BY <2>1, <2>3, <3>2, NextKeyDoes
    <3>4. /\ fds'[fd].readList = fds[fd].readList /\ fds'[fd].writeList = fds[fd].writeList
          /\ fds'[fd].interest = Counted
      BY <3>3 DEF Relisted
    <3>5. Counted = Listing(fds[fd])
      BY <1>1, <2>1, <2>3 DEF WatchedInv
    <3> QED BY <3>4, <3>5 DEF Listing
  <2> QED BY <2>2, <2>3
<1>11. \A i \in 2 .. n - 1 : i \in 1 .. n - 1
  OBVIOUS
<1>12. ~(keys' # << >> /\ keys'[1].events = {} /\ ~hungup'[Fd'])
  <2>1. CASE n = 1
    <3>1. Len(keys') = 0
      BY <1>4, <2>1
    <3>2. keys' \in Seq(Key)
      BY <1>1, <1>3, HeadTailProperties
    <3> QED BY <3>1, <3>2, EmptySeq
  <2>2. CASE n # 1
    <3>1. 1 \in 1 .. n - 1
      BY <2>2
    <3> QED BY <1>7, <3>1 DEF Fd
  <2> QED BY <2>1, <2>2
<1> QED BY <1>4, <1>7, <1>8, <1>9, <1>10, <1>11, <1>12 DEF WatchedInv

LEMMA WatchedBack ==
  ASSUME DataInv, LoopInv, WatchedInv, SocketsAge, MoveBack
  PROVE  WatchedInv'
<1>1. keys # << >>
  BY DEF MoveBack, Dispatching
<1>2. PICK fd, reads, writes :
         /\ fd \in Sockets /\ fd = Fd
         /\ reads = (IF io.event = "read" THEN io.new \o fds[Fd].readList ELSE fds[Fd].readList)
         /\ writes = (IF io.event = "read" THEN fds[Fd].writeList ELSE io.new \o fds[Fd].writeList)
  BY <1>1, AtFd
<1>3. \/ /\ fds[fd].open /\ Relisted(fd, reads, writes, fds[fd].interest)
         /\ Len(reads) \in Nat /\ Len(writes) \in Nat
         /\ keys' = [keys EXCEPT ![1].counts = [read |-> Len(reads), write |-> Len(writes)]]
      \/ /\ ~fds[fd].open /\ Unchanged
         /\ keys' = [keys EXCEPT ![1].counts = [read |-> -1, write |-> -1]]
  BY <1>2, MoveBackDoes
<1>4. PICK counts : /\ keys' = [keys EXCEPT ![1].counts = counts]
                    /\ \/ /\ fds[fd].open /\ Relisted(fd, reads, writes, fds[fd].interest)
                          /\ Len(reads) \in Nat /\ Len(writes) \in Nat
                          /\ counts = [read |-> Len(reads), write |-> Len(writes)]
                       \/ ~fds[fd].open /\ Unchanged
  BY <1>3
<1>5. /\ keys \in Seq(Key) /\ Len(keys) \in Nat \ {0} /\ keys[1] \in Key
  BY <1>1, AtFd DEF LoopInv
<1>6. Len(keys') = Len(keys) /\ (\A i \in 2 .. Len(keys) : keys'[i] = keys[i])
      /\ keys'[1].fd = fd /\ keys'[1].counts = counts
  BY <1>2, <1>4, <1>5 DEF Key, Fd
<1>7. \A g \in Sockets : fd # g => fds'[g] = fds[g]
  BY <1>4 DEF Relisted, Others, Unchanged
<1>8. counts.read = -1 => ~fds[fd].open
  BY <1>4
<1>9. ASSUME fds'[fd].open PROVE Counted' = Listing(fds'[fd])
  <2>1. fds[fd].open /\ Relisted(fd, reads, writes, fds[fd].interest)
        /\ counts = [read |-> Len(reads), write |-> Len(writes)]
    BY <1>2, <1>4, <1>9 DEF SocketsAge
  <2>2. /\ reads \in Seq(0 .. Len(futs)) /\ writes \in Seq(0 .. Len(futs))
    BY <1>1, <1>2, AtFd, IoTyped, ConcatProperties
  <2>3. fds'[fd].readList = reads /\ fds'[fd].writeList = writes
    BY <2>1 DEF Relisted
  <2>4. (Len(reads) > 0 <=> reads # << >>) /\ (Len(writes) > 0 <=> writes # << >>)
    BY <2>2, EmptySeq, LenProperties
  <2>5. Counted' = {e \in Events : IF e = "read" THEN Len(reads) > 0 ELSE Len(writes) > 0}
    <3>1. Counted' = {e \in Events : counts[e] > 0}
      BY <1>6 DEF Counted
    <3> QED BY <2>1, <3>1 DEF Events
  <2> QED BY <2>3, <2>4, <2>5 DEF Listing
<1> QED BY <1>1, <1>2, <1>6, <1>7, <1>8, <1>9, WatchedHolds

LEMMA WatchedOut ==
  ASSUME DataInv, LoopInv, WatchedInv, SocketsAge, MoveOut
  PROVE  WatchedInv'
<1>1. keys # << >>
  BY DEF MoveOut, Dispatching
<1>2. /\ io'.event # "none"
      /\ \E events : keys' = [keys EXCEPT ![1].events = events]
      /\ \E reads, writes, e : Relisted(Fd, reads, writes, e)
  <2>1. io'.event \in Events
    BY MoveOutDoes
  <2> QED BY <2>1, MoveOutDoes DEF Events
<1>3. /\ keys \in Seq(Key) /\ Len(keys) \in Nat \ {0} /\ keys[1] \in Key
  BY <1>1, AtFd DEF LoopInv
<1>4. PICK events : keys' = [keys EXCEPT ![1].events = events]
  BY <1>2
<1>5. Len(keys') = Len(keys) /\ (\A i \in 2 .. Len(keys) : keys'[i] = keys[i])
      /\ keys'[1].fd = Fd /\ keys'[1].counts = keys[1].counts
  BY <1>3, <1>4 DEF Key, Fd
<1>6. \A g \in Sockets : Fd # g => fds'[g] = fds[g]
  BY <1>2 DEF Relisted, Others
<1>7. keys'[1].counts.read = -1 => ~fds[Fd].open
  BY <1>3, <1>5 DEF WatchedInv, Fd
<1> QED BY <1>1, <1>2, <1>5, <1>6, <1>7, WatchedHolds

LEMMA WatchedCall ==
  ASSUME DataInv, LoopInv, PlaceInv, WatchedInv, SocketsAge, CallBack \/ CallWatcher
  PROVE  WatchedInv'
<1>1. keys # << >> /\ keys' = keys /\ io.cur # << >>
  BY DEF CallBack, CallWatcher, CallsNext, Dispatching
<1>2. io'.event # "none"
  <2>1. io'.event = io.event
    BY CallBackDoes, CallWatcherDoes DEF Leaves, Remains, CallBack, CallWatcher, Extinguished
  <2> QED BY <1>1, <2>1 DEF PlaceInv
<1>3. Fd \in Sockets /\ Len(keys) \in Nat \ {0} /\ Fd = keys[1].fd
  BY <1>1, AtFd DEF Fd
<1>4. \A g \in Sockets : Fd # g /\ fds'[g].open => fds'[g] = fds[g]
  <2>1. CASE fds' = fds
    BY <2>1
  <2>2. CASE Watches(Fd) \/ Asked("recv", Fd)
    BY <2>2 DEF Watches, Relisted, Asked, Others
  <2>3. CASE \E fd \in Sockets : Shut(fd)
    BY <2>3 DEF Shut, Closed, Others
  <2> QED BY <2>1, <2>2, <2>3, CallBackDoes, CallWatcherDoes DEF Tried, Unchanged
<1>5. keys[1].counts.read = -1 => ~fds[Fd].open
  BY <1>3 DEF WatchedInv
<1> QED BY <1>1, <1>2, <1>3, <1>4, <1>5, WatchedHolds

LEMMA WatchedRests ==
  ASSUME DataInv, LoopInv, PlaceInv, WatchedInv, SocketsAge, Moves,
         ~MoveOut, ~CallBack, ~CallWatcher, ~MoveBack, ~NextKey, ~SelectReturns
  PROVE  WatchedInv'
<1>1. /\ UNCHANGED <<io, keys, Fd>>
      /\ \/ Quiet
         \/ /\ keys = << >>
            /\ \E g \in Sockets : fds[g].open /\ (Shut(g) \/ Watches(g) \/ \E k \in IoKinds : Asked(k, g))
  BY Resting
<1>2. CASE keys = << >>
  <2>1. ASSUME NEW fd \in Sockets, fds'[fd].open PROVE fds'[fd] = fds[fd] \/ fds'[fd].interest = Listing(fds'[fd])
    <3>1. CASE Quiet
      BY <3>1 DEF Quiet
    <3>2. ASSUME NEW g \in Sockets, Shut(g) PROVE fds'[fd] = fds[fd]
      BY <2>1, <3>2 DEF Shut, Closed, Others
    <3>3. ASSUME NEW g \in Sockets, Watches(g) PROVE fds'[fd] = fds[fd] \/ fds'[fd].interest = Listing(fds'[fd])
      BY <3>3 DEF Watches, Relisted, Others, Listing
    <3>4. ASSUME NEW g \in Sockets, NEW k, Asked(k, g)
          PROVE  fds'[fd] = fds[fd] \/ fds'[fd].interest = Listing(fds'[fd])
      BY <3>4 DEF Asked, Others
    <3> QED BY <1>1, <3>1, <3>2, <3>3, <3>4
  <2>2. ASSUME NEW fd \in Sockets, fds'[fd].open, ~hungup'[fd]
        PROVE  fds'[fd].interest = Listing(fds'[fd])
    <3>1. fds[fd].open /\ ~hungup[fd]
      BY <2>2 DEF SocketsAge
    <3>2. fds[fd].interest = Listing(fds[fd])
      BY <1>2, <3>1 DEF WatchedInv
    <3> QED BY <2>1, <2>2, <3>2
  <2>3. keys' = << >> /\ Len(keys') = 0
    BY <1>1, <1>2
  <2> QED BY <2>2, <2>3 DEF WatchedInv
<1>3. CASE keys # << >>
  <2>1. fds' = fds /\ keys' = keys /\ io' = io
    BY <1>1, <1>3 DEF Quiet
  <2>2. Fd \in Sockets /\ Len(keys) \in Nat \ {0} /\ Fd = keys[1].fd
    BY <1>3, AtFd DEF Fd
  <2>3. keys[1].counts.read = -1 => ~fds[Fd].open
    BY <2>2 DEF WatchedInv
  <2>4. io'.event = "none" /\ keys'[1].events = {} /\ fds'[Fd].open /\ ~hungup'[Fd]
          => Counted' = Listing(fds'[Fd])
    <3>1. Counted' = Counted
      BY <2>1 DEF Counted
    <3> QED BY <1>3, <2>1, <2>2, <3>1 DEF WatchedInv, SocketsAge
  <2> QED BY <1>3, <2>1, <2>2, <2>3, <2>4, WatchedHolds
<1> QED BY <1>2, <1>3

LEMMA WatchedKept ==
  ASSUME DataInv, LoopInv, PlaceInv, WatchedInv, SocketsAge, Moves
  PROVE  WatchedInv'
BY WatchedSelect, WatchedOut, WatchedCall, WatchedBack, WatchedNext, WatchedRests

(***************************************************************************)
(* How long epoll_wait waits.                                              *)
(***************************************************************************)
UntilInv == pc = "select" => /\ ready # << >> => until = 0
                             /\ timers # << >> => until <= timers[1].left + 1

LEMMA TimersTyped ==
  ASSUME DataInv
  PROVE  timers # << >> => timers[1].left \in Nat /\ 1 \in DOMAIN timers
<1> SUFFICES ASSUME timers # << >> PROVE timers[1].left \in Nat /\ 1 \in DOMAIN timers
  OBVIOUS
<1>1. timers \in Seq(Timer(Of("sleep")))
  BY DEF DataInv
<1>2. 1 \in 1 .. Len(timers)
  BY <1>1, EmptySeq, LenProperties
<1>3. timers[1] \in Timer(Of("sleep")) /\ 1 \in DOMAIN timers
  BY <1>1, <1>2, ElementOfSeq, LenProperties
<1> QED BY <1>3 DEF Timer

LEMMA AdjustInTime ==
  ASSUME DataInv
  PROVE  /\ ready # << >> => adjustTimeout = 0
         /\ timers # << >> => adjustTimeout <= timers[1].left + 1
<1>1. ready # << >> => adjustTimeout = 0
  BY DEF adjustTimeout
<1>2. ASSUME timers # << >> PROVE adjustTimeout <= timers[1].left + 1
  <2>1. PICK left \in Nat, p \in Nat : left = timers[1].left /\ p = PollTimeout
    BY <1>2, TimersTyped, ConstantsAssumption
  <2>2. adjustTimeout = IF ready # << >> THEN 0 ELSE IF left + 1 > p THEN p ELSE left + 1
    BY <1>2, <2>1 DEF adjustTimeout
  <2>3. adjustTimeout <= left + 1
    BY <2>1, <2>2
  <2> QED BY <2>1, <2>3
<1> QED BY <1>1, <1>2

LEMMA UntilTicks ==
  ASSUME DataInv, LoopInv, UntilInv, Tick
  PROVE  UntilInv'
<1>1. /\ pc' = pc /\ ready' = ready /\ until' = Less(until)
      /\ timers' = [i \in DOMAIN timers |-> [timers[i] EXCEPT !.left = Less(@)]]
  BY DEF Tick, Unchanged
<1>2. CASE pc # "select"
  BY <1>1, <1>2 DEF UntilInv
<1>3. CASE pc = "select"
  <2>1. until \in Nat
    BY DEF LoopInv
  <2>2. ready # << >> => until' = 0
    BY <1>1, <1>3 DEF UntilInv, Less
  <2>3. ASSUME timers' # << >> PROVE until' <= timers'[1].left + 1
    <3>1. timers # << >>
      BY <1>1, <2>3
    <3>2. PICK left \in Nat, u \in Nat : left = timers[1].left /\ u = until /\ 1 \in DOMAIN timers
      BY <2>1, <3>1, TimersTyped
    <3>3. u <= left + 1
      BY <1>3, <3>1, <3>2 DEF UntilInv
    <3>4. Less(u) <= Less(left) + 1
      BY <3>2, <3>3 DEF Less
    <3>5. timers'[1].left = Less(left)
      <4>1. timers[1] \in Timer(Of("sleep"))
        BY <3>2, ElementOfSeq, LenProperties DEF DataInv
      <4> QED BY <1>1, <3>2, <4>1 DEF Timer
    <3> QED BY <1>1, <3>2, <3>4, <3>5
  <2> QED BY <1>1, <2>2, <2>3 DEF UntilInv
<1> QED BY <1>2, <1>3

LEMMA UntilKept ==
  ASSUME DataInv, LoopInv, UntilInv, [Next]_vars
  PROVE  UntilInv'
<1>1. CASE UNCHANGED <<pc, ready, timers, until>>
  BY <1>1 DEF UntilInv
<1>2. CASE pc' # "select"
  BY <1>2 DEF UntilInv
<1>3. CASE Select
  <2>1. until' = adjustTimeout /\ ready' = ready /\ timers' = timers
    BY <1>3 DEF Select, Unchanged
  <2> QED BY <2>1, AdjustInTime DEF UntilInv
<1>4. CASE Operation
  <2>1. pc' # "select"
    BY <1>4, OperationDoes DEF Running
  <2> QED BY <1>2, <2>1
<1>5. CASE Loop /\ ~Select
  <2>1. pc' # "select"
    BY <1>5 DEF Loop, StartTask, Poll, SelectReturns, MoveOut, CallBack, CallWatcher, CallsNext, MoveBack,
                NextKey, Dispatched, RunCallback, PollReturns, Dispatching, IoOnly
  <2> QED BY <1>2, <2>1
<1>6. CASE Environment
  <2>1. CASE \E fd \in Sockets : Arrive(fd) \/ PeerReads(fd) \/ HangUp(fd)
    BY <1>1, <2>1 DEF Arrive, PeerReads, HangUp, loop
  <2> QED BY <1>6, <2>1, UntilTicks DEF Environment
<1>7. CASE UNCHANGED vars
  BY <1>1, <1>7 DEF vars, loop
<1> QED BY <1>3, <1>4, <1>5, <1>6, <1>7 DEF Next, Stopped

WaitingInv == DataInv /\ LoopInv /\ PlaceInv /\ WatchedInv /\ UntilInv

LEMMA WaitingInitially ==
  ASSUME Init
  PROVE  WaitingInv
<1>1. DataInv /\ LoopInv /\ PlaceInv
  BY QueuesInitially DEF QueuesInv
<1>2. /\ pc = "poll" /\ keys = << >> /\ Len(keys) = 0
      /\ \A fd \in Sockets : fds[fd].interest = {} /\ fds[fd].readList = << >> /\ fds[fd].writeList = << >>
  BY EmptySeq DEF Init, Closed
<1>3. \A fd \in Sockets : fds[fd].interest = Listing(fds[fd])
  BY <1>2 DEF Listing
<1>4. WatchedInv
  BY <1>2, <1>3 DEF WatchedInv
<1>5. UntilInv
  BY <1>2 DEF UntilInv
<1> QED BY <1>1, <1>4, <1>5 DEF WaitingInv

LEMMA WaitingStep ==
  ASSUME WaitingInv, [Next]_vars
  PROVE  WaitingInv'
<1>1. DataInv /\ LoopInv /\ PlaceInv /\ WatchedInv /\ UntilInv
  BY DEF WaitingInv
<1>2. DataInv' /\ LoopInv' /\ Moves
  BY <1>1, Steps, LoopKept
<1>3. SocketsAge
  BY <1>1, <1>2, SocketsMove
<1>4. PlaceInv' /\ WatchedInv' /\ UntilInv'
  BY <1>1, <1>2, <1>3, PlaceKept, WatchedKept, UntilKept
<1> QED BY <1>2, <1>4 DEF WaitingInv

LEMMA Waiting == Spec => []WaitingInv
BY WaitingInitially, WaitingStep, PTL DEF Spec

LEMMA WaitingFollows ==
  ASSUME WaitingInv
  PROVE  NothingOverlooked
<1>1. PlaceInv /\ WatchedInv /\ UntilInv
  BY DEF WaitingInv
<1>2. ASSUME NEW fd \in Sockets, ~hungup[fd] PROVE Watched(fd)
  <2> SUFFICES ASSUME pc = "select", fds[fd].open PROVE fds[fd].interest = Listed(State, fd)
    BY DEF Watched
  <2>1. keys = << >>
    BY <1>1 DEF PlaceInv, Elsewhere
  <2>2. fds[fd].interest = Listing(fds[fd])
    BY <1>1, <1>2, <2>1 DEF WatchedInv
  <2> QED BY <2>2 DEF Listing, Listed, State
<1> QED BY <1>1, <1>2 DEF NothingOverlooked, UntilInv

(* When the loop waits, epoll watches for just what the lists wait for, on *)
(* every socket whose peer is still there, and it wakes for the first      *)
(* timer, or at once if there are callbacks to call.                       *)
THEOREM LoopWakesUp == Spec => []NothingOverlooked
BY WaitingFollows, Waiting, PTL

(***************************************************************************)
(* Where a callback is: at place i with the future f, or, if f is 0, at    *)
(* place i of those that are ready to be called.                           *)
(***************************************************************************)
Has(list, cb, i) == i \in 1 .. Len(list) /\ list[i] = cb
Waits(s, cb, f, i) ==
  \/ f \in 1 .. Len(s.futs) /\ Has(s.futs[f].callbacks, cb, i)
  \/ f = 0 /\ Has(s.ready, cb, i)
Known(s, cb) == \E f, i : Waits(s, cb, f, i)
Lone(s, cb) == \A f, g, i, j : Waits(s, cb, f, i) /\ Waits(s, cb, g, j) => f = g /\ i = j

(* No callback is lost or doubled, and futures get none.                   *)
Carries(s, r) ==
  /\ \A cb : (Known(s, cb) <=> Known(r, cb)) /\ (Lone(s, cb) => Lone(r, cb))
  /\ \A cb, g, i : g # 0 /\ Waits(r, cb, g, i) => Waits(s, cb, g, i)

LEMMA CarriesOn ==
  ASSUME NEW s, NEW q, NEW r, Carries(s, q), Carries(q, r)
  PROVE  Carries(s, r)
BY DEF Carries

LEMMA CarriesSame ==
  ASSUME NEW s, NEW r, \A cb, g, i : Waits(r, cb, g, i) <=> Waits(s, cb, g, i)
  PROVE  Carries(s, r)
BY DEF Carries, Known, Lone

LEMMA ConcatHas ==
  ASSUME NEW S, NEW a \in Seq(S), NEW b \in Seq(S), NEW cb, NEW i
  PROVE  Has(a \o b, cb, i) <=> Has(a, cb, i) \/ (i - Len(a) \in 1 .. Len(b) /\ i \in Nat /\ Has(b, cb, i - Len(a)))
<1>1. /\ Len(a \o b) = Len(a) + Len(b) /\ Len(a) \in Nat /\ Len(b) \in Nat
      /\ \A j \in 1 .. Len(a) + Len(b) : (a \o b)[j] = IF j <= Len(a) THEN a[j] ELSE b[j - Len(a)]
  BY ConcatProperties, LenProperties
<1>2. PICK m \in Nat, l \in Nat : m = Len(a) /\ l = Len(b)
  BY <1>1
<1>3. i \in 1 .. m + l <=> i \in 1 .. m \/ (i - m \in 1 .. l /\ i \in Nat)
  <2>1. CASE i \in Nat
    BY <2>1
  <2>2. CASE i \notin Nat
    BY <2>2
  <2> QED BY <2>1, <2>2
<1>4. \A j \in 1 .. m : j \in 1 .. m + l /\ (a \o b)[j] = a[j]
  BY <1>1, <1>2
<1>5. \A j \in 1 .. m + l : j - m \in 1 .. l => (a \o b)[j] = b[j - m]
  BY <1>1, <1>2
<1> QED BY <1>1, <1>2, <1>3, <1>4, <1>5 DEF Has

(* Where callbacks are after a future has finished: its own are scheduled. *)
LEMMA FinishWaits ==
  ASSUME NEW n \in Nat, NEW T, NEW s \in States(n, T), NEW f \in 1 .. n, NEW a,
         NEW r, Finishes(n, T, s, f, a, r)
  PROVE  /\ Len(s.ready) \in Nat /\ \A cb, g, i : Waits(s, cb, g, i) => i \in Nat
         /\ \A cb, i : Waits(s, cb, 0, i) => i <= Len(s.ready)
         /\ \A cb, g, i :
              Waits(r, cb, g, i) <=>
                \/ g # f /\ Waits(s, cb, g, i)
                \/ g = 0 /\ i - Len(s.ready) \in Nat \ {0} /\ i \in Nat /\ Waits(s, cb, f, i - Len(s.ready))
<1>1. /\ Len(s.futs) = n /\ Len(r.futs) = n /\ s.ready \in Seq(Call(n, T))
      /\ \A g \in 1 .. n : s.futs[g].callbacks \in Seq(Call(n, T))
  <2>1. /\ s.futs \in Seq(Made(n, T)) /\ Len(s.futs) = n /\ s.ready \in Seq(Call(n, T))
        /\ Len(r.futs) = n
    BY Fields DEF Finishes
  <2>2. \A g \in 1 .. n : s.futs[g] \in Made(n, T)
    BY <2>1, ElementOfSeq
  <2> QED BY <2>1, <2>2, MadeFields
<1>2. PICK m \in Nat : m = Len(s.ready)
  BY <1>1, LenProperties
<1>3. r.futs[f].callbacks = << >> /\ \A g \in 1 .. n : g # f => r.futs[g] = s.futs[g]
  <2>1. s.futs[f] \in Made(n, T)
    BY Fields, ElementOfSeq
  <2> QED BY <2>1 DEF Finishes, Settled, Made
<1>4. ASSUME NEW cb, NEW g, NEW i
      PROVE  Waits(r, cb, g, i) <=>
               \/ g # f /\ Waits(s, cb, g, i)
               \/ g = 0 /\ i - m \in Nat \ {0} /\ i \in Nat /\ Waits(s, cb, f, i - m)
  <2>1. CASE g = 0
    <3>1. r.ready = s.ready \o s.futs[f].callbacks
      BY DEF Finishes
    <3>2. Has(r.ready, cb, i) <=> \/ Has(s.ready, cb, i)
                                  \/ /\ i - m \in 1 .. Len(s.futs[f].callbacks) /\ i \in Nat
                                     /\ Has(s.futs[f].callbacks, cb, i - m)
      BY <1>1, <1>2, <3>1, ConcatHas
    <3>3. Len(s.futs[f].callbacks) \in Nat
      BY <1>1, LenProperties
    <3> QED BY <1>1, <2>1, <3>2, <3>3 DEF Waits, Has
  <2>2. CASE g \in 1 .. n /\ g # f
    BY <1>1, <1>3, <2>2 DEF Waits
  <2>3. CASE g = f
    <3>1. ~Has(<< >>, cb, i)
      BY DEF Has
    <3> QED BY <1>1, <1>3, <2>3, <3>1 DEF Waits
  <2>4. CASE g # 0 /\ g \notin 1 .. n
    BY <1>1, <2>4 DEF Waits
  <2> QED BY <2>1, <2>2, <2>3, <2>4
<1>5. ASSUME NEW cb, NEW g, NEW i, Waits(s, cb, g, i) PROVE i \in Nat /\ (g = 0 => i <= m)
  <2>1. CASE g = 0
    BY <1>1, <1>2, <1>5, <2>1 DEF Waits, Has
  <2>2. CASE g \in 1 .. n /\ i \in 1 .. Len(s.futs[g].callbacks)
    <3>1. Len(s.futs[g].callbacks) \in Nat
      BY <1>1, <2>2, LenProperties
    <3> QED BY <2>2, <3>1
  <2> QED BY <1>1, <1>5, <2>1, <2>2 DEF Waits, Has
<1> QED BY <1>2, <1>4, <1>5

LEMMA FinishCarries ==
  ASSUME NEW n \in Nat, NEW T, NEW s \in States(n, T), NEW f \in 1 .. n, NEW a,
         NEW r, Finishes(n, T, s, f, a, r)
  PROVE  Carries(s, r)
<1>1. PICK m \in Nat : m = Len(s.ready)
  BY FinishWaits
<1>2. \A cb, g, i : Waits(s, cb, g, i) => i \in Nat
  BY FinishWaits
<1>3. \A cb, i : Waits(s, cb, f, i) => i # 0
  <2>1. \A cb, i : Waits(s, cb, f, i) => \E k : i \in 1 .. k
    BY DEF Waits, Has
  <2> QED BY <2>1
<1>4. \A cb, g, i :
        Waits(r, cb, g, i) <=>
          \/ g # f /\ Waits(s, cb, g, i)
          \/ g = 0 /\ i - m \in Nat /\ i \in Nat /\ Waits(s, cb, f, i - m)
  <2>1. \A cb, g, i :
          Waits(r, cb, g, i) <=>
            \/ g # f /\ Waits(s, cb, g, i)
            \/ g = 0 /\ i - m \in Nat \ {0} /\ i \in Nat /\ Waits(s, cb, f, i - m)
    BY <1>1, FinishWaits
  <2> QED BY <1>3, <2>1
<1>5. \A cb, i : Waits(s, cb, f, i) => i \in Nat /\ Waits(r, cb, 0, i + m) /\ i + m - m = i
  <2> TAKE cb, i
  <2> HAVE Waits(s, cb, f, i)
  <2>1. i \in Nat /\ (i + m) - m = i /\ i + m \in Nat
    BY <1>1, <1>2
  <2> QED BY <1>4, <2>1
<1>6. ASSUME NEW cb PROVE Known(s, cb) <=> Known(r, cb)
  BY <1>4, <1>5 DEF Known
<1>7. ASSUME NEW cb, Lone(s, cb) PROVE Lone(r, cb)
  <2> SUFFICES ASSUME NEW g, NEW h, NEW i, NEW j, Waits(r, cb, g, i), Waits(r, cb, h, j)
               PROVE  g = h /\ i = j
    BY DEF Lone
  <2>1. CASE g # f /\ Waits(s, cb, g, i) /\ h # f /\ Waits(s, cb, h, j)
    BY <1>7, <2>1 DEF Lone
  <2>2. CASE g = 0 /\ i - m \in Nat /\ i \in Nat /\ Waits(s, cb, f, i - m) /\ h # f /\ Waits(s, cb, h, j)
    BY <1>7, <2>2 DEF Lone
  <2>3. CASE h = 0 /\ j - m \in Nat /\ j \in Nat /\ Waits(s, cb, f, j - m) /\ g # f /\ Waits(s, cb, g, i)
    BY <1>7, <2>3 DEF Lone
  <2>4. CASE /\ g = 0 /\ i - m \in Nat /\ i \in Nat /\ Waits(s, cb, f, i - m)
             /\ h = 0 /\ j - m \in Nat /\ j \in Nat /\ Waits(s, cb, f, j - m)
    <3>1. i - m = j - m
      BY <1>7, <2>4 DEF Lone
    <3> QED BY <2>4, <3>1
  <2> QED BY <1>4, <2>1, <2>2, <2>3, <2>4
<1>8. \A cb, g, i : g # 0 /\ Waits(r, cb, g, i) => Waits(s, cb, g, i)
  BY <1>4
<1> QED BY <1>6, <1>7, <1>8 DEF Carries

LEMMA StillCarries ==
  ASSUME NEW s, NEW r, r.ready = s.ready, Len(r.futs) = Len(s.futs),
         \A g \in 1 .. Len(s.futs) : r.futs[g].callbacks = s.futs[g].callbacks
  PROVE  Carries(s, r)
<1>1. \A cb, g, i : Waits(r, cb, g, i) <=> Waits(s, cb, g, i)
  BY DEF Waits
<1> QED BY <1>1, CarriesSame

LEMMA NewWaits ==
  ASSUME NEW n \in Nat, NEW S, NEW s, NEW r, s.futs \in Seq(S), Len(s.futs) = n,
         NEW x, x.callbacks = << >>, r.futs = Append(s.futs, x), r.ready = s.ready
  PROVE  \A cb, g, i : Waits(r, cb, g, i) <=> Waits(s, cb, g, i)
<1>1. Len(r.futs) = n + 1 /\ r.futs[n + 1] = x /\ \A g \in 1 .. n : r.futs[g] = s.futs[g]
  <2>1. s.futs \in Seq(S \cup {x}) /\ x \in S \cup {x}
    <3>1. S \subseteq S \cup {x}
      OBVIOUS
    <3> QED BY <3>1, SeqMonotonic
  <2> QED BY <2>1, AppendProperties
<1>2. \A cb, i : ~Has(<< >>, cb, i)
  BY DEF Has
<1>3. \A cb, i : ~Has(r.futs[n + 1].callbacks, cb, i)
  BY <1>1, <1>2
<1>4. \A g : g \in 1 .. n + 1 <=> g \in 1 .. n \/ g = n + 1
  OBVIOUS
<1> QED BY <1>1, <1>3, <1>4 DEF Waits

LEMMA NewCarries ==
  ASSUME NEW n \in Nat, NEW S, NEW s, NEW r, s.futs \in Seq(S), Len(s.futs) = n,
         NEW x, x.callbacks = << >>, r.futs = Append(s.futs, x), r.ready = s.ready
  PROVE  Carries(s, r)
<1>1. \A cb, g, i : Waits(r, cb, g, i) <=> Waits(s, cb, g, i)
  BY NewWaits
<1> QED BY <1>1, CarriesSame

(* A callback that is added is in one place more than before.              *)
JoinsAt(s, r, cb, e, k) ==
  \A x, g, i : Waits(r, x, g, i) <=> Waits(s, x, g, i) \/ (x = cb /\ g = e /\ i = k)
Joins(s, r, cb, f) ==
  \E e, k : e \in {0, f} /\ (e = 0 <=> Finished(s, f)) /\ JoinsAt(s, r, cb, e, k)

LEMMA AppendHas ==
  ASSUME NEW S, NEW a \in Seq(S), NEW c \in S, NEW cb, NEW i
  PROVE  Has(Append(a, c), cb, i) <=> Has(a, cb, i) \/ (cb = c /\ i = Len(a) + 1)
<1>1. /\ Len(Append(a, c)) = Len(a) + 1 /\ Append(a, c)[Len(a) + 1] = c
      /\ \A j \in 1 .. Len(a) : Append(a, c)[j] = a[j]
  BY AppendProperties
<1>2. Len(a) \in Nat
  BY LenProperties
<1>3. i \in 1 .. Len(a) + 1 <=> i \in 1 .. Len(a) \/ i = Len(a) + 1
  BY <1>2
<1> QED BY <1>1, <1>3 DEF Has

LEMMA addCallbackJoins ==
  ASSUME NEW n \in Nat, NEW T, NEW s \in States(n, T),
         NEW f \in 1 .. n, NEW cb \in Call(n, T), NEW r, r = addCallback(s, f, cb)
  PROVE  Joins(s, r, cb, f)
<1>1. /\ s.futs \in Seq(Made(n, T)) /\ Len(s.futs) = n /\ s.ready \in Seq(Call(n, T))
      /\ s.futs[f].callbacks \in Seq(Call(n, T))
  <2>1. s.futs \in Seq(Made(n, T)) /\ Len(s.futs) = n /\ s.ready \in Seq(Call(n, T))
    BY Fields
  <2>2. s.futs[f] \in Made(n, T)
    BY <2>1, ElementOfSeq
  <2> QED BY <2>1, <2>2, MadeFields
<1>2. CASE Finished(s, f)
  <2>1. r.futs = s.futs /\ r.ready = Append(s.ready, cb)
    <3>1. r.futs = s.futs /\ r.ready = s.ready \o <<cb>>
      BY <1>2 DEF States, addCallback, callSoon, Schedule
    <3> QED BY <1>1, <3>1, AppendIsConcat
  <2>2. \A x, i : Has(r.ready, x, i) <=> Has(s.ready, x, i) \/ (x = cb /\ i = Len(s.ready) + 1)
    BY <1>1, <2>1, AppendHas
  <2>3. JoinsAt(s, r, cb, 0, Len(s.ready) + 1)
    BY <1>1, <2>1, <2>2 DEF Waits, JoinsAt
  <2> QED BY <1>2, <2>3 DEF Joins
<1>3. CASE ~Finished(s, f)
  <2> DEFINE fut == [s.futs[f] EXCEPT !.callbacks = Append(@, cb)]
  <2>1. r.futs = [s.futs EXCEPT ![f] = fut] /\ r.ready = s.ready
    BY <1>3 DEF States, addCallback
  <2>2. s.futs[f] \in Made(n, T)
    BY <1>1, ElementOfSeq
  <2>3. fut.callbacks = Append(s.futs[f].callbacks, cb)
    BY <2>2 DEF Made
  <2> HIDE DEF fut
  <2>4. Len(r.futs) = n /\ DOMAIN s.futs = 1 .. n
    BY <1>1, <2>1, ExceptSeq, LenProperties
  <2>5. r.futs[f] = fut /\ \A g \in 1 .. n : g # f => r.futs[g] = s.futs[g]
    BY <2>1, <2>4
  <2>6. \A x, i : Has(r.futs[f].callbacks, x, i)
                  <=> Has(s.futs[f].callbacks, x, i) \/ (x = cb /\ i = Len(s.futs[f].callbacks) + 1)
    <3>1. r.futs[f].callbacks = Append(s.futs[f].callbacks, cb)
      BY <2>3, <2>5
    <3>2. PICK a \in Seq(Call(n, T)) : a = s.futs[f].callbacks
      BY <1>1
    <3>3. \A x, i : Has(Append(a, cb), x, i) <=> Has(a, x, i) \/ (x = cb /\ i = Len(a) + 1)
      BY AppendHas
    <3> QED BY <3>1, <3>2, <3>3
  <2>7. JoinsAt(s, r, cb, f, Len(s.futs[f].callbacks) + 1)
    BY <1>1, <2>1, <2>4, <2>5, <2>6 DEF Waits, JoinsAt
  <2>8. f # 0
    OBVIOUS
  <2> QED BY <1>3, <2>7, <2>8 DEF Joins
<1> QED BY <1>2, <1>3

(* ... and the others of the future are forgotten by setCallback.          *)
LEMMA setCallbackJoins ==
  ASSUME NEW n \in Nat, NEW T, NEW s \in States(n, T),
         NEW f \in 1 .. n, NEW cb \in Call(n, T), NEW r, r = setCallback(s, f, cb)
  PROVE  \E q \in States(n, T) :
           /\ Joins(q, r, cb, f) /\ q.futs[f].answer = s.futs[f].answer
           /\ \A x, g, i : Waits(q, x, g, i) <=> Waits(s, x, g, i) /\ g # f
<1> DEFINE q == [s EXCEPT !.futs[f].callbacks = << >>]
           fut == [s.futs[f] EXCEPT !.callbacks = << >>]
<1>1. /\ s.futs \in Seq(Made(n, T)) /\ Len(s.futs) = n /\ s.ready \in Seq(Call(n, T))
      /\ s.order \in Seq(1 .. n) /\ s.fds \in [Sockets -> Descriptor(n)]
      /\ s.inbox \in [Sockets -> 0 .. MaxInbox] /\ s.room \in [Sockets -> 0 .. SendRoom]
  BY Fields
<1>2. s.futs[f] \in Made(n, T) /\ << >> \in Seq(Call(n, T))
  BY <1>1, ElementOfSeq, EmptySeq
<1>3. fut \in Made(n, T) /\ fut.callbacks = << >> /\ fut.answer = s.futs[f].answer
  BY <1>2 DEF Made
<1>4. q.futs = [s.futs EXCEPT ![f] = fut] /\ q.ready = s.ready
  BY DEF States
<1>5. q.order = s.order /\ SameIo(s, q) /\ Record(q)
  BY DEF States, SameIo, Record
<1> HIDE DEF fut
<1>6. q.futs \in Seq(Made(n, T)) /\ Len(q.futs) = n
  <2> HIDE DEF q
  <2> QED BY <1>1, <1>3, <1>4, ExceptSeq
<1>7. q \in States(n, T)
  <2> HIDE DEF q
  <2> QED BY <1>1, <1>4, <1>5, <1>6, MakeState DEF SameIo
<1>8. r = addCallback(q, f, cb)
  BY DEF setCallback
<1> HIDE DEF q
<1>9. Joins(q, r, cb, f)
  BY <1>7, <1>8, addCallbackJoins
<1>10. q.futs[f] = fut /\ \A g \in 1 .. n : g # f => q.futs[g] = s.futs[g]
  <2>1. DOMAIN s.futs = 1 .. n
    BY <1>1, LenProperties
  <2> QED BY <1>4, <2>1
<1>11. \A x, i : ~Has(q.futs[f].callbacks, x, i)
  BY <1>3, <1>10 DEF Has
<1>12. \A x, g, i : Waits(q, x, g, i) <=> Waits(s, x, g, i) /\ g # f
  BY <1>1, <1>4, <1>6, <1>10, <1>11 DEF Waits
<1> QED BY <1>3, <1>7, <1>9, <1>10, <1>12

LEMMA PoppedWaits ==
  ASSUME DataInv, ready # << >>
  PROVE  \A cb, g, i : Waits(Popped, cb, g, i)
                       <=> \/ g # 0 /\ Waits(State, cb, g, i)
                           \/ g = 0 /\ i \in Nat \ {0} /\ Waits(State, cb, 0, i + 1)
<1>1. Popped.futs = State.futs /\ Popped.ready = Tail(ready) /\ State.ready = ready
  BY DEF Popped, State
<1>2. ready \in Seq(Call(Len(futs), Of("timeout"))) /\ Len(futs) \in Nat
  <2>1. State.ready \in Seq(Call(Len(futs), Of("timeout"))) /\ Len(futs) \in Nat
    BY FutsTyped, Fields DEF DataInv
  <2> QED BY <2>1 DEF State
<1>3. /\ Len(ready) \in Nat \ {0} /\ Len(Tail(ready)) = Len(ready) - 1
      /\ \A i \in 1 .. Len(ready) - 1 : Tail(ready)[i] = ready[i + 1]
  BY <1>2, HeadTailProperties, LenProperties, EmptySeq
<1>4. 0 \notin 1 .. Len(State.futs)
  OBVIOUS
<1>5. ASSUME NEW cb, NEW i PROVE Has(Tail(ready), cb, i) <=> i \in Nat \ {0} /\ Has(ready, cb, i + 1)
  <2>1. i \in 1 .. Len(ready) - 1 <=> i \in Nat \ {0} /\ i + 1 \in 1 .. Len(ready)
    BY <1>3
  <2> QED BY <1>3, <2>1 DEF Has
<1> QED BY <1>1, <1>4, <1>5 DEF Waits

(***************************************************************************)
(* P is a set of states that a step does not leave if it only changes what *)
(* callbacks and timeouts do not depend on, finishes a pending future of   *)
(* the kinds K, or makes one.                                              *)
(***************************************************************************)
Still(z, r) ==
  /\ Len(r.futs) = Len(z.futs) /\ r.ready = z.ready /\ r.order = z.order
  /\ \A g \in 1 .. Len(z.futs) :
       /\ r.futs[g].kind = z.futs[g].kind /\ r.futs[g].of = z.futs[g].of
       /\ r.futs[g].answer = z.futs[g].answer /\ r.futs[g].callbacks = z.futs[g].callbacks
Gains(z, x, r) ==
  /\ r.futs = Append(z.futs, x) /\ r.ready = z.ready /\ r.order = z.order
  /\ x.answer = "none" /\ x.callbacks = << >>

Lasting(P, T) ==
  \A n \in Nat : \A z \in P, r \in States(n, T) : z \in States(n, T) /\ Still(z, r) => r \in P
Finishing(P, T, K) ==
  \A n \in Nat : \A z \in P, f \in 1 .. n, a \in Answers \ {"none"} :
    z \in States(n, T) /\ z.futs[f].kind \in K /\ z.futs[f].answer = "none" => Finish(z, f, a) \in P
Making(P, T, K) ==
  \A n \in Nat : \A z \in P, r \in States(n + 1, T) : \A x :
    z \in States(n, T) /\ Gains(z, x, r) /\ x.kind \in K => r \in P

LEMMA AttemptKeeps ==
  ASSUME NEW n \in Nat, NEW T, NEW s \in States(n, T), NEW fd \in Sockets, NEW f \in 1 .. n,
         NEW K, s.futs[f].kind \in K, s.futs[f].answer = "none",
         NEW P, s \in P, Lasting(P, T), Finishing(P, T, K)
  PROVE  Attempt(s, fd, f) \in P
<1>1. /\ s.futs \in Seq(Made(n, T)) /\ Len(s.futs) = n /\ s.futs[f] \in Made(n, T)
      /\ s.inbox \in [Sockets -> 0 .. MaxInbox] /\ s.room \in [Sockets -> 0 .. SendRoom]
      /\ DOMAIN s.futs = 1 .. n
  <2>1. /\ s.futs \in Seq(Made(n, T)) /\ Len(s.futs) = n
        /\ s.inbox \in [Sockets -> 0 .. MaxInbox] /\ s.room \in [Sockets -> 0 .. SendRoom]
    BY Fields
  <2> QED BY <2>1, ElementOfSeq, LenProperties
<1>2. s.futs[f].left \in Nat /\ s.room[fd] \in 0 .. SendRoom /\ SendRoom \in Nat /\ f # Watcher
  BY <1>1, MadeFields, ConstantsAssumption DEF Watcher
<1>3. {"failed", "data", "end", "done"} \subseteq Answers \ {"none"}
  BY DEF Answers
<1>4. ASSUME NEW z \in States(n, T), Still(s, z)
      PROVE  z \in P /\ \A a \in {"failed", "data", "end", "done"} : Finish(z, f, a) \in P
  <2>1. z \in P
    BY <1>4 DEF Lasting
  <2>2. z.futs[f].kind \in K /\ z.futs[f].answer = "none"
    BY <1>1, <1>4 DEF Still
  <2> QED BY <1>3, <2>1, <2>2 DEF Finishing
<1>5. ASSUME NEW x \in 0 .. SendRoom, NEW y \in Nat, NEW q, q = [s EXCEPT !.room[fd] = x, !.futs[f].left = y]
      PROVE  q \in States(n, T) /\ Still(s, q)
  <2>1. q \in States(n, T)
    BY <1>5, Sends
  <2>2. /\ q.ready = s.ready /\ q.order = s.order
        /\ q.futs = [s.futs EXCEPT ![f] = [@ EXCEPT !.left = y]]
    BY <1>5 DEF States
  <2>3. \A v : v = [s.futs[f] EXCEPT !.left = y] =>
          /\ v.callbacks = s.futs[f].callbacks /\ v.kind = s.futs[f].kind
          /\ v.of = s.futs[f].of /\ v.answer = s.futs[f].answer
    BY <1>1 DEF Made
  <2>4. \A g \in 1 .. n :
          /\ q.futs[g].kind = s.futs[g].kind /\ q.futs[g].of = s.futs[g].of
          /\ q.futs[g].answer = s.futs[g].answer /\ q.futs[g].callbacks = s.futs[g].callbacks
    BY <1>1, <2>2, <2>3
  <2>5. Len(q.futs) = n
    BY <2>1, Fields
  <2> QED BY <1>1, <2>1, <2>2, <2>4, <2>5 DEF Still
<1>6. Still(s, s)
  BY DEF Still
<1>7. CASE ~s.fds[fd].open
  BY <1>2, <1>4, <1>6, <1>7 DEF Attempt
<1>8. CASE s.fds[fd].open /\ s.futs[f].kind = "recv"
  <2>1. CASE s.inbox[fd] > 0
    <3> DEFINE q == [s EXCEPT !.inbox[fd] = @ - 1]
    <3>1. q.ready = s.ready /\ q.futs = s.futs /\ q.order = s.order /\ q \in States(n, T)
      BY <2>1, Takes DEF States
    <3>2. Attempt(s, fd, f) = Finish(q, f, "data")
      BY <1>2, <1>8, <2>1 DEF Attempt
    <3> HIDE DEF q
    <3>3. Still(s, q)
      BY <3>1 DEF Still
    <3> QED BY <1>4, <3>1, <3>2, <3>3
  <2>2. CASE ~(s.inbox[fd] > 0)
    BY <1>2, <1>4, <1>6, <1>8, <2>2 DEF Attempt
  <2> QED BY <2>1, <2>2
<1>9. CASE s.fds[fd].open /\ s.futs[f].kind # "recv"
  <2>1. CASE s.room[fd] >= s.futs[f].left
    <3>1. PICK x, q : x = s.room[fd] - s.futs[f].left /\ q = [s EXCEPT !.room[fd] = x, !.futs[f].left = 0]
      OBVIOUS
    <3>2. x \in 0 .. SendRoom
      BY <1>2, <2>1, <3>1
    <3>3. q \in States(n, T) /\ Still(s, q)
      BY <1>5, <3>1, <3>2
    <3>4. Attempt(s, fd, f) = Finish(q, f, "done")
      BY <1>2, <1>9, <2>1, <3>1 DEF Attempt
    <3> QED BY <1>4, <3>3, <3>4
  <2>2. CASE ~(s.room[fd] >= s.futs[f].left)
    <3>1. PICK y, q : y = s.futs[f].left - s.room[fd] /\ q = [s EXCEPT !.room[fd] = 0, !.futs[f].left = y]
      OBVIOUS
    <3>2. y \in Nat /\ 0 \in 0 .. SendRoom
      BY <1>2, <2>2, <3>1
    <3>3. q \in States(n, T) /\ Still(s, q)
      BY <1>5, <3>1, <3>2
    <3>4. Attempt(s, fd, f) = q
      BY <1>2, <1>9, <2>2, <3>1 DEF Attempt, States
    <3> QED BY <1>4, <3>3, <3>4
  <2> QED BY <2>1, <2>2
<1> QED BY <1>7, <1>8, <1>9

LEMMA StillStep ==
  ASSUME DataInv, DataInv', UNCHANGED <<futs, ready, order>>,
         NEW P, State \in P, Lasting(P, Of("timeout"))
  PROVE  State' \in P
<1>1. Len(futs) \in Nat /\ State \in States(Len(futs), Of("timeout"))
  BY FutsTyped DEF DataInv
<1>2. Len(futs)' = Len(futs) /\ Of("timeout")' = Of("timeout")
  BY DEF Of
<1>3. State' \in States(Len(futs), Of("timeout"))
  <2>1. State' \in States(Len(futs)', Of("timeout")')
    BY DEF DataInv
  <2> QED BY <1>2, <2>1
<1>4. /\ State.futs = futs /\ State.ready = ready /\ State.order = order
      /\ State'.futs = futs /\ State'.ready = ready /\ State'.order = order
  BY DEF State
<1>5. Still(State, State')
  BY <1>4 DEF Still
<1> QED BY <1>1, <1>3, <1>5 DEF Lasting

LEMMA GainStep ==
  ASSUME DataInv, DataInv', UNCHANGED <<ready, order>>,
         NEW x, futs' = Append(futs, x), x.answer = "none", x.callbacks = << >>,
         NEW K, x.kind \in K, "timeout" \notin K,
         NEW P, State \in P, Making(P, Of("timeout"), K)
  PROVE  State' \in P
<1>1. Len(futs) \in Nat /\ State \in States(Len(futs), Of("timeout"))
  BY FutsTyped DEF DataInv
<1>2. /\ Len(futs)' = Len(futs) + 1 /\ futs'[Len(futs) + 1] = x
      /\ \A g \in 1 .. Len(futs) : futs'[g] = futs[g]
  <2>1. futs \in Seq(Made(Len(futs), Of("timeout")) \cup {x}) /\ x \in Made(Len(futs), Of("timeout")) \cup {x}
    <3>1. Made(Len(futs), Of("timeout")) \subseteq Made(Len(futs), Of("timeout")) \cup {x}
      OBVIOUS
    <3>2. futs \in Seq(Made(Len(futs), Of("timeout")))
      BY FutsTyped
    <3> QED BY <3>1, <3>2, SeqMonotonic
  <2> QED BY <2>1, AppendProperties
<1>3. Of("timeout")' = Of("timeout")
  <2>1. \A g : g \in 1 .. Len(futs) + 1 <=> g \in 1 .. Len(futs) \/ g = Len(futs) + 1
    BY <1>1
  <2> QED BY <1>2, <2>1 DEF Of
<1>4. State' \in States(Len(futs) + 1, Of("timeout"))
  <2>1. State' \in States(Len(futs)', Of("timeout")')
    BY DEF DataInv
  <2> QED BY <1>2, <1>3, <2>1
<1>5. /\ State.futs = futs /\ State.ready = ready /\ State.order = order
      /\ State'.futs = futs' /\ State'.ready = ready /\ State'.order = order
  BY DEF State
<1>6. Gains(State, x, State')
  BY <1>5 DEF Gains
<1> QED BY <1>1, <1>4, <1>6 DEF Making

(* Each operation is listed once.                                          *)
LEMMA TimesOnce ==
  ASSUME NEW S, NEW s \in Seq(S), NEW x, Times(x, s) \in {0, 1},
         NEW i \in 1 .. Len(s), NEW j \in 1 .. Len(s), s[i] = x, s[j] = x
  PROVE  i = j
<1> DEFINE Q == {k \in DOMAIN s : s[k] = x}
<1>1. i \in Q /\ j \in Q /\ IsFiniteSet(Q)
  <2>1. Len(s) \in Nat /\ DOMAIN s = 1 .. Len(s)
    BY LenProperties
  <2>2. IsFiniteSet(1 .. Len(s))
    BY <2>1, FS_Interval
  <2> QED BY <2>1, <2>2, FS_Subset
<1>2. Cardinality(Q) \in {0, 1}
  BY DEF Times
<1> HIDE DEF Q
<1>3. CASE Cardinality(Q) = 0
  BY <1>1, <1>3, FS_EmptySet
<1>4. CASE Cardinality(Q) = 1
  <2>1. PICK y : Q = {y}
    BY <1>1, <1>4, FS_Singleton
  <2> QED BY <1>1, <2>1
<1> QED BY <1>2, <1>3, <1>4

LEMMA NotBefore ==
  ASSUME NEW m \in Nat, NEW i \in 1 .. m
  PROVE  \A j \in 1 .. i - 1 : j \in 1 .. m /\ j # i
OBVIOUS

LEMMA IsFuture ==
  ASSUME NEW n \in Nat, NEW s \in Seq(0 .. n), NEW i \in 1 .. Len(s), s[i] # Watcher
  PROVE  s[i] \in 1 .. n
<1>1. s[i] \in 0 .. n
  BY ElementOfSeq
<1> QED BY <1>1 DEF Watcher

LEMMA ListedOnce ==
  ASSUME QueuesInv, NEW fd \in Sockets, NEW list, list = fds[fd].readList \o fds[fd].writeList,
         NEW i \in 1 .. Len(list), NEW j \in 1 .. Len(list), list[i] = list[j], list[i] # Watcher
  PROVE  i = j
<1>1. DataInv /\ CountInv
  BY DEF QueuesInv
<1>2. list \in Seq(0 .. Len(futs)) /\ Len(futs) \in Nat
  BY <1>1, ListsTyped, ConcatProperties
<1>3. PICK f \in 1 .. Len(futs) : f = list[i]
  <2>1. list[i] \in 1 .. Len(futs)
    BY ONLY IsFuture, <1>2, i \in 1 .. Len(list), list[i] # Watcher
  <2> QED BY <2>1
<1>4. AskedBy(f, fd) /\ Pending(f)
  BY <1>3, ListedPending
<1>5. PICK a \in Nat : a = Times(f, list)
  BY <1>2, TimesNat
<1>6. PICK b \in Nat : b = IF keys # << >> /\ Fd = fd THEN Times(f, io.cur \o io.new) ELSE 0
  <2>1. io.cur \o io.new \in Seq(0 .. Len(futs))
    BY <1>1, IoTyped, ConcatProperties
  <2> QED BY <2>1, TimesNat
<1>7. Count(f, fd) = a + b
  BY <1>1, <1>5, <1>6, CountIs
<1>8. Count(f, fd) = 1
  BY <1>1, <1>4, CountOld DEF Counted1
<1>9. Times(f, list) \in {0, 1}
  BY <1>5, <1>6, <1>7, <1>8
<1>10. list[i] = f /\ list[j] = f
  BY <1>3
<1> QED BY ONLY <1>2, <1>9, <1>10, TimesOnce, i \in 1 .. Len(list), j \in 1 .. Len(list)

LEMMA CloseKeeps ==
  ASSUME QueuesInv, NEW fd \in Sockets, NEW T, T = Of("timeout"),
         NEW P, State \in P, Lasting(P, T), Finishing(P, T, IoKinds)
  PROVE  closeSocket(State, fd) \in P
<1> DEFINE n == Len(futs)
           q == Gone(State, fd)
           list == fds[fd].readList \o fds[fd].writeList
           r == closeSocket(State, fd)
<1>1. n \in Nat /\ State \in States(n, T) /\ hungup[fd] \in BOOLEAN /\ State.futs = futs /\ State.fds = fds
  BY FutsTyped DEF DataInv, State, QueuesInv
<1>2. list \in Seq(0 .. n)
  BY <1>1, At, ConcatProperties
<1>3. Closes(n, T, State, fd, q)
  BY <1>1, GoneDoes
<1>4. r = CallAll(q, fd, list)
  BY <1>1 DEF closeSocket
<1> HIDE DEF q, r
<1>5. q \in States(n, T) /\ ~q.fds[fd].open /\ q.futs = futs /\ Still(State, q)
  BY <1>1, <1>3 DEF Closes, Closed, Still
<1>6. q \in P
  BY <1>1, <1>5 DEF Lasting
<1>7. PICK m \in Nat : m = Len(list)
  BY <1>2, LenProperties
<1>8. ASSUME NEW i \in 1 .. m, list[i] # Watcher
      PROVE  /\ AskedBy(list[i], fd) /\ Pending(list[i]) /\ list[i] \in 1 .. n
             /\ ~\E j \in 1 .. i - 1 : list[j] = list[i]
  <2>1. n \in Nat /\ i \in 1 .. Len(list)
    BY <1>1, <1>7
  <2>2. list[i] \in 1 .. n
    <3> HIDE DEF list, n
    <3> QED BY <1>2, <1>8, <2>1, IsFuture
  <2>3. AskedBy(list[i], fd) /\ Pending(list[i])
    BY <1>7, <2>2, ListedPending
  <2>4. \A j \in 1 .. m : list[j] = list[i] => i = j
    <3> SUFFICES ASSUME NEW j \in 1 .. m, list[j] = list[i] PROVE i = j
      OBVIOUS
    <3>1. PICK l : l = list
      OBVIOUS
    <3>2. /\ l = fds[fd].readList \o fds[fd].writeList /\ i \in 1 .. Len(l) /\ j \in 1 .. Len(l)
          /\ l[i] = l[j] /\ l[i] # Watcher
      BY <1>7, <1>8, <3>1
    <3> QED BY <3>2, ListedOnce
  <2>5. \A j \in 1 .. i - 1 : j \in 1 .. m /\ j # i
    BY NotBefore
  <2> QED BY <2>2, <2>3, <2>4, <2>5
<1> HIDE DEF list
<1>9. ASSUME NEW i \in 1 .. m, NEW z \in P, list[i] # Watcher,
             Answer(n, T, q, i - 1, list, "failed", z)
      PROVE  Finish(z, list[i], "failed") \in P
  <2>1. PICK f \in 1 .. n : f = list[i]
    BY <1>8, <1>9
  <2>2. futs[f].kind \in IoKinds /\ futs[f].answer = "none" /\ ~\E j \in 1 .. i - 1 : list[j] = f
    BY <1>1, <1>8, <1>9, <2>1 DEF AskedBy, Pending, Finished, State
  <2>3. z \in States(n, T) /\ z.futs[f].kind = q.futs[f].kind
        /\ (~(\E j \in 1 .. i - 1 : list[j] = f) => z.futs[f].answer = q.futs[f].answer)
    BY <1>9 DEF Answer
  <2>4. z.futs[f].kind \in IoKinds /\ z.futs[f].answer = "none"
    BY <1>5, <2>2, <2>3
  <2>5. "failed" \in Answers \ {"none"}
    BY DEF Answers
  <2> QED BY <1>1, <2>1, <2>3, <2>4, <2>5 DEF Finishing
<1>10. r \in P
  BY <1>1, <1>2, <1>4, <1>5, <1>6, <1>7, <1>9, CallAllKeeps
<1> QED BY <1>10 DEF r

(***************************************************************************)
(* The steps that do nothing to futures, callbacks and the history.        *)
(***************************************************************************)
Silent == UNCHANGED <<futs, ready, order>>

LEMMA SetsSilent ==
  ASSUME NEW fd, NEW e, NEW list
  PROVE  /\ Becomes(SetList(State, fd, e, list)) => Silent
         /\ Becomes(updateHandle(State, fd, e)) => Silent
         /\ Becomes(addRead(State, fd, e)) => Silent
<1>1. \A v : /\ [State EXCEPT !.fds = v].futs = futs /\ [State EXCEPT !.fds = v].ready = ready
             /\ [State EXCEPT !.fds = v].order = order
             /\ \A w : /\ [[State EXCEPT !.fds = v] EXCEPT !.fds = w].futs = futs
                       /\ [[State EXCEPT !.fds = v] EXCEPT !.fds = w].ready = ready
                       /\ [[State EXCEPT !.fds = v] EXCEPT !.fds = w].order = order
  BY DEF State
<1>2. ASSUME Becomes(SetList(State, fd, e, list)) PROVE Silent
  BY <1>1, <1>2 DEF Becomes, SetList, Silent
<1>3. ASSUME Becomes(updateHandle(State, fd, e)) PROVE Silent
  BY <1>1, <1>3 DEF Becomes, updateHandle, Silent
<1>4. ASSUME Becomes(addRead(State, fd, e)) PROVE Silent
  BY <1>1, <1>4 DEF Becomes, addRead, updateHandle, Silent
<1> QED BY <1>2, <1>3, <1>4

LEMMA SilentSteps ==
  ASSUME \/ \E fd \in Sockets : Watch(fd)
         \/ Join \/ StartTask \/ Select \/ SelectReturns \/ MoveOut \/ MoveBack \/ NextKey \/ PollReturns
         \/ Environment \/ UNCHANGED vars
  PROVE  Silent
<1>1. CASE \E fd \in Sockets : Watch(fd)
  BY <1>1, SetsSilent DEF Watch
<1>2. CASE MoveOut
  BY <1>2, SetsSilent DEF MoveOut
<1>3. CASE MoveBack
  BY <1>3, SetsSilent DEF MoveBack, Unchanged, Silent
<1>4. CASE NextKey
  BY <1>4, SetsSilent DEF NextKey, Unchanged, Silent
<1>5. CASE Join \/ StartTask \/ Select \/ SelectReturns \/ PollReturns \/ UNCHANGED vars
  BY <1>5 DEF Join, StartTask, Select, SelectReturns, PollReturns, vars, Unchanged, Silent
<1>6. CASE Environment
  BY <1>6 DEF Environment, Tick, Arrive, PeerReads, HangUp, Unchanged, Silent
<1> QED BY <1>1, <1>2, <1>3, <1>4, <1>5, <1>6

(* recv, send and sleepAsync make a future that nobody waits for.          *)
LEMMA MakesOne ==
  ASSUME NEW x, NEW fd, NEW n,
         \/ x = Future("recv", fd, 0) /\ Becomes(recv(State, fd))
         \/ x = Future("send", fd, n) /\ Becomes(send(State, fd, n))
         \/ x = Future("sleep", 0, 0) /\ Becomes(NewFuture(State, x))
  PROVE  /\ UNCHANGED <<ready, order>> /\ futs' = Append(futs, x)
         /\ x.answer = "none" /\ x.callbacks = << >>
<1>1. x.answer = "none" /\ x.callbacks = << >>
  BY DEF Future
<1>2. ASSUME NEW v
      PROVE  LET q == NewFuture(State, v) IN
             \A y : /\ [q EXCEPT !.fds = y].futs = Append(futs, v)
                    /\ [q EXCEPT !.fds = y].ready = ready /\ [q EXCEPT !.fds = y].order = order
                    /\ \A w : /\ [[q EXCEPT !.fds = y] EXCEPT !.fds = w].futs = Append(futs, v)
                              /\ [[q EXCEPT !.fds = y] EXCEPT !.fds = w].ready = ready
                              /\ [[q EXCEPT !.fds = y] EXCEPT !.fds = w].order = order
  BY DEF State, NewFuture
<1>3. CASE x = Future("recv", fd, 0) /\ Becomes(recv(State, fd))
  BY <1>1, <1>2, <1>3 DEF Becomes, recv, addRead, updateHandle
<1>4. CASE x = Future("send", fd, n) /\ Becomes(send(State, fd, n))
  BY <1>1, <1>2, <1>4 DEF Becomes, send, addWrite, updateHandle
<1>5. CASE x = Future("sleep", 0, 0) /\ Becomes(NewFuture(State, x))
  BY <1>1, <1>5 DEF Becomes, NewFuture, State
<1> QED BY <1>3, <1>4, <1>5

(***************************************************************************)
(* The steps in which no callback is called, no timer expires, and nobody  *)
(* starts to wait.                                                         *)
(***************************************************************************)
Plain ==
  \/ \E fd \in Sockets : Recv(fd) \/ Close(fd) \/ Watch(fd) \/ \E n \in SendSizes : Send(fd, n)
  \/ \E ms \in Delays : sleepAsync(ms)
  \/ Join \/ StartTask \/ Select \/ SelectReturns \/ MoveOut \/ CallBack \/ CallWatcher \/ MoveBack
  \/ NextKey \/ PollReturns \/ Environment \/ UNCHANGED vars

LEMMA PlainKeeps ==
  ASSUME QueuesInv, QueuesInv', Plain, NEW T, T = Of("timeout"),
         NEW P, State \in P, Lasting(P, T), Finishing(P, T, IoKinds), Making(P, T, IoKinds \cup {"sleep"})
  PROVE  State' \in P
<1> DEFINE K == IoKinds \cup {"sleep"}
<1>1. DataInv /\ DataInv' /\ LoopInv /\ Len(futs) \in Nat /\ State \in States(Len(futs), T)
  BY FutsTyped DEF QueuesInv, DataInv
<1>2. ASSUME Silent PROVE State' \in P
  BY <1>1, <1>2, StillStep DEF Silent
<1>3. ASSUME NEW fd, NEW n, NEW x,
             \/ x = Future("recv", fd, 0) /\ Becomes(recv(State, fd))
             \/ x = Future("send", fd, n) /\ Becomes(send(State, fd, n))
             \/ x = Future("sleep", 0, 0) /\ Becomes(NewFuture(State, x))
      PROVE  State' \in P
  <2>1. /\ UNCHANGED <<ready, order>> /\ futs' = Append(futs, x)
        /\ x.answer = "none" /\ x.callbacks = << >>
    BY <1>3, MakesOne
  <2>2. x.kind \in K /\ "timeout" \notin K
    BY <1>3 DEF Future, IoKinds
  <2> HIDE DEF K
  <2>3. Making(P, Of("timeout"), K)
    BY DEF K
  <2> QED BY <1>1, <2>1, <2>2, <2>3, GainStep
<1>4. ASSUME NEW fd \in Sockets, Becomes(closeSocket(State, fd)) PROVE State' \in P
  <2>1. closeSocket(State, fd) \in P
    BY CloseKeeps
  <2>2. Became(Len(futs), closeSocket(State, fd), 1 .. Len(futs))
    BY <1>1, <1>4, Shutting
  <2> QED BY <2>1, <2>2 DEF Became
<1>5. CASE \E fd \in Sockets : Recv(fd)
  BY <1>3, <1>5 DEF Recv
<1>6. CASE \E fd \in Sockets, n \in SendSizes : Send(fd, n)
  BY <1>3, <1>6 DEF Send
<1>7. CASE \E ms \in Delays : sleepAsync(ms)
  BY <1>3, <1>7 DEF sleepAsync
<1>8. CASE \E fd \in Sockets : Close(fd)
  BY <1>4, <1>8 DEF Close
<1>9. CASE CallBack
  <2>1. PICK f \in 1 .. Len(futs) : f = io.cur[1]
    BY <1>1, <1>9, CallBackDoes
  <2>2. AskedBy(f, Fd) /\ Pending(f) /\ Fd \in Sockets
    BY <1>9, <2>1, CalledPending
  <2>3. Becomes(Attempt(State, Fd, f))
    BY <1>9, <2>1 DEF CallBack
  <2>4. Became(Len(futs), Attempt(State, Fd, f), {f})
    BY <1>1, <2>2, <2>3, Trying
  <2>5. State.futs[f].kind \in IoKinds /\ State.futs[f].answer = "none"
    BY <2>2 DEF AskedBy, Pending, Finished, State
  <2>6. Attempt(State, Fd, f) \in P
    BY <1>1, <2>2, <2>5, AttemptKeeps
  <2> QED BY <2>4, <2>6 DEF Became
<1>10. CASE CallWatcher
  <2>1. Fd \in Sockets
    BY <1>1, <1>10, AtFd DEF CallWatcher, CallsNext, Dispatching
  <2>2. CASE Unchanged
    BY <1>2, <2>2 DEF Unchanged, Silent
  <2>3. CASE Becomes(addRead(State, Fd, Watcher))
    BY <1>2, <2>3, SetsSilent
  <2>4. CASE Becomes(recv(State, Fd))
    BY <1>3, <2>4
  <2> QED BY <1>4, <1>10, <2>2, <2>3, <2>4 DEF CallWatcher
<1>11. CASE \/ \E fd \in Sockets : Watch(fd)
            \/ Join \/ StartTask \/ Select \/ SelectReturns \/ MoveOut \/ MoveBack \/ NextKey \/ PollReturns
            \/ Environment \/ UNCHANGED vars
  BY <1>2, <1>11, SilentSteps
<1> QED BY <1>5, <1>6, <1>7, <1>8, <1>9, <1>10, <1>11 DEF Plain

LEMMA Otherwise ==
  ASSUME [Next]_vars
  PROVE  \/ Plain \/ Poll \/ Dispatched \/ RunCallback \/ Await \/ Return
         \/ \E ms \in Delays : WithTimeout(ms)
BY DEF Next, Operation, Loop, Plain, Stopped

(***************************************************************************)
(* No step of these, and no timer that expires, loses or doubles a callback*)
(* or finishes a task.                                                     *)
(***************************************************************************)
TasksSame(s, z) ==
  /\ Tasks \subseteq 1 .. Len(z.futs)
  /\ \A t \in Tasks : z.futs[t].kind = "task" /\ z.futs[t].answer = s.futs[t].answer
Carried(s, T) ==
  {z \in UNION {States(n, T) : n \in Nat} : Carries(s, z) /\ TasksSame(s, z)}

LEMMA CarriedLasts ==
  ASSUME NEW T, NEW s
  PROVE  Lasting(Carried(s, T), T)
<1> DEFINE P == Carried(s, T)
<1>1. ASSUME NEW n \in Nat, NEW z \in P, NEW r \in States(n, T), z \in States(n, T), Still(z, r)
      PROVE  r \in P
  <2>1. Carries(s, z) /\ TasksSame(s, z)
    BY DEF Carried
  <2>2. Carries(z, r)
    BY <1>1, StillCarries DEF Still
  <2>3. Carries(s, r)
    BY <2>1, <2>2, CarriesOn
  <2>4. TasksSame(s, r)
    BY <1>1, <2>1 DEF TasksSame, Still
  <2> QED BY <2>3, <2>4 DEF Carried
<1> HIDE DEF P
<1>2. Lasting(P, T)
  BY <1>1 DEF Lasting
<1> QED BY <1>2 DEF P

LEMMA CarriedFinish ==
  ASSUME NEW T, NEW s, NEW n \in Nat, NEW z \in Carried(s, T), NEW f \in 1 .. n,
         NEW a \in Answers \ {"none"}, z \in States(n, T), z.futs[f].kind # "task"
  PROVE  Finish(z, f, a) \in Carried(s, T)
<1>1. Carries(s, z) /\ TasksSame(s, z)
  BY DEF Carried
<1>2. PICK r : r = Finish(z, f, a)
  OBVIOUS
<1>3. Finishes(n, T, z, f, a, r)
  BY <1>2, FinishDoes
<1>4. Carries(s, r)
  BY <1>1, <1>3, FinishCarries, CarriesOn
<1>5. Len(z.futs) = n /\ Len(r.futs) = n /\ r \in States(n, T)
  BY <1>3, Fields DEF Finishes
<1>6. TasksSame(s, r)
  BY <1>1, <1>3, <1>5 DEF TasksSame, Finishes, Same
<1> QED BY <1>2, <1>4, <1>5, <1>6 DEF Carried

LEMMA CarriedFinishes ==
  ASSUME NEW T, NEW s, NEW K, "task" \notin K
  PROVE  Finishing(Carried(s, T), T, K)
<1>1. \A n \in Nat : \A z \in Carried(s, T), f \in 1 .. n, a \in Answers \ {"none"} :
        z \in States(n, T) /\ z.futs[f].kind \in K => Finish(z, f, a) \in Carried(s, T)
  BY CarriedFinish
<1> QED BY <1>1 DEF Finishing

LEMMA CarriedMakes ==
  ASSUME NEW T, NEW s, NEW K
  PROVE  Making(Carried(s, T), T, K)
<1> DEFINE P == Carried(s, T)
<1>1. ASSUME NEW n \in Nat, NEW z \in P, NEW r \in States(n + 1, T), NEW x,
             z \in States(n, T), Gains(z, x, r)
      PROVE  r \in P
  <2>1. Carries(s, z) /\ TasksSame(s, z)
    BY DEF Carried
  <2>2. z.futs \in Seq(Made(n, T)) /\ Len(z.futs) = n /\ Len(r.futs) = n + 1
    BY <1>1, Fields
  <2>3. Carries(s, r)
    BY <1>1, <2>1, <2>2, NewCarries, CarriesOn DEF Gains
  <2>4. \A g \in 1 .. n : r.futs[g] = z.futs[g]
    <3>1. Made(n, T) \subseteq Made(n, T) \cup {x} /\ x \in Made(n, T) \cup {x}
      OBVIOUS
    <3>2. z.futs \in Seq(Made(n, T) \cup {x})
      BY <2>2, <3>1, SeqMonotonic
    <3> QED BY <1>1, <2>2, <3>1, <3>2, AppendProperties DEF Gains
  <2>5. 1 .. n \subseteq 1 .. n + 1
    OBVIOUS
  <2>6. TasksSame(s, r)
    BY <2>1, <2>2, <2>4, <2>5 DEF TasksSame
  <2>7. n + 1 \in Nat
    OBVIOUS
  <2> QED BY <2>3, <2>6, <2>7 DEF Carried
<1> HIDE DEF P
<1>2. Making(P, T, K)
  BY <1>1 DEF Making
<1> QED BY <1>2 DEF P

LEMMA CarriedNow ==
  ASSUME DataInv
  PROVE  State \in Carried(State, Of("timeout"))
<1>1. Carries(State, State)
  BY DEF Carries
<1>2. TasksSame(State, State) /\ Len(futs) \in Nat
  BY FutsTyped DEF TasksSame, State, DataInv
<1> QED BY <1>1, <1>2 DEF Carried, DataInv

LEMMA ExpiredCarries ==
  ASSUME DataInv, processTimers
  PROVE  Carries(State, State') /\ TasksSame(State, State')
<1> DEFINE n == Len(futs)
           T == Of("timeout")
           F == Of("sleep")
           P == Carried(State, T)
           list == [i \in 1 .. Len(timers) |-> timers[i].fut]
           r == Expired
<1>1. n \in Nat /\ F \in SUBSET (1 .. n) /\ timers \in Seq([fut : F, left : Nat]) /\ State \in States(n, T)
  BY FutsTyped DEF DataInv, Of, Timer
<1>2. /\ Len(timers) \in Nat /\ Due \in 0 .. Len(timers)
      /\ \A i \in 1 .. Len(timers) : timers[i] \in [fut : F, left : Nat]
  BY <1>1, DueIs, LenProperties, ElementOfSeq
<1>3. \A i \in 1 .. Due : list[i] \in F
  BY <1>2
<1>4. \A f \in F : f \in 1 .. n /\ State.futs[f].kind = "sleep"
  BY DEF Of, State
<1> HIDE DEF n, T, F, list, r
<1>5. State \in P /\ Finishing(P, T, {"sleep"})
  BY CarriedNow, CarriedFinishes DEF T
<1> HIDE DEF P
<1>6. \A i \in 1 .. Due, z \in P : Answer(n, T, State, i - 1, list, "done", z) => Finish(z, list[i], "done") \in P
  <2> SUFFICES ASSUME NEW i \in 1 .. Due, NEW z \in P, Answer(n, T, State, i - 1, list, "done", z)
               PROVE  Finish(z, list[i], "done") \in P
    OBVIOUS
  <2>1. PICK f \in 1 .. n : f = list[i] /\ State.futs[f].kind = "sleep"
    BY <1>3, <1>4
  <2>2. z \in States(n, T) /\ z.futs[f].kind # "task" /\ "done" \in Answers \ {"none"}
    BY <2>1 DEF Answer, Answers
  <2>3. Finish(z, f, "done") \in Carried(State, T)
    BY <1>1, <2>2, CarriedFinish DEF P
  <2> QED BY <2>1, <2>3 DEF P
<1>7. r \in P
  BY <1>1, <1>5, <1>6, ExpiredKeeps DEF list, r
<1>8. State' = r
  <2>1. Becomes(Expired)
    BY DEF processTimers
  <2>2. /\ r.futs = futs' /\ r.ready = ready' /\ r.order = order' /\ r.fds = fds'
        /\ r.inbox = inbox' /\ r.room = room'
    BY <2>1 DEF Becomes, r
  <2>3. \E m \in Nat : r \in States(m, T)
    BY <1>7 DEF P, Carried
  <2> QED BY <2>2, <2>3 DEF State, States
<1> QED BY <1>7, <1>8 DEF P, Carried

LEMMA PlainCarries ==
  ASSUME QueuesInv, QueuesInv', Plain
  PROVE  Carries(State, State') /\ TasksSame(State, State')
<1>1. PICK T, P : T = Of("timeout") /\ P = Carried(State, T)
  OBVIOUS
<1>2. State \in P
  BY <1>1, CarriedNow DEF QueuesInv
<1>3. Lasting(P, T) /\ Finishing(P, T, IoKinds) /\ Making(P, T, IoKinds \cup {"sleep"})
  BY <1>1, CarriedLasts, CarriedFinishes, CarriedMakes DEF IoKinds
<1>4. State' \in P
  BY <1>1, <1>2, <1>3, PlainKeeps
<1> QED BY <1>1, <1>4 DEF Carried

(***************************************************************************)
(* The steps that do: a task waits, a task ends, a callback is called.     *)
(***************************************************************************)
LEMMA Joined ==
  ASSUME NEW s, NEW r, NEW cb, NEW f, Joins(s, r, cb, f)
  PROVE  /\ \A x : x # cb => (Known(r, x) <=> Known(s, x)) /\ (Lone(s, x) => Lone(r, x))
         /\ \A x, g, i : x # cb => (Waits(r, x, g, i) <=> Waits(s, x, g, i))
         /\ Known(r, cb) /\ (~Known(s, cb) => Lone(r, cb))
         /\ \A x, g, i : Waits(r, x, g, i) => Waits(s, x, g, i) \/ (x = cb /\ g \in {0, f})
<1>1. PICK e, k : e \in {0, f} /\ JoinsAt(s, r, cb, e, k)
  BY DEF Joins
<1>2. \A x, g, i : Waits(r, x, g, i) <=> Waits(s, x, g, i) \/ (x = cb /\ g = e /\ i = k)
  BY <1>1 DEF JoinsAt
<1>3. ASSUME NEW x, x # cb PROVE (Known(r, x) <=> Known(s, x)) /\ (Lone(s, x) => Lone(r, x))
  BY <1>2, <1>3 DEF Known, Lone
<1>4. Known(r, cb)
  BY <1>2 DEF Known
<1>5. ASSUME ~Known(s, cb) PROVE Lone(r, cb)
  BY <1>2, <1>5 DEF Known, Lone
<1> QED BY <1>1, <1>2, <1>3, <1>4, <1>5

LEMMA AwaitJoins ==
  ASSUME DataInv, LoopInv, Await
  PROVE  Joins(State, State', Resume(task), op[task]) /\ TasksSame(State, State')
<1>1. op[task] \in 1 .. Len(futs) /\ task \in Tasks /\ Len(futs) \in Nat
  BY AtTask, FutsTyped DEF Await
<1>2. Resume(task) \in Call(Len(futs), Of("timeout"))
  BY <1>1 DEF Resume, Call
<1> DEFINE r == addCallback(State, op[task], Resume(task))
<1>3. State \in States(Len(futs), Of("timeout"))
  BY DEF DataInv
<1>4. Hears(Len(futs), Of("timeout"), State, r)
  BY <1>1, <1>2, <1>3, addCallbackDoes
<1>5. Joins(State, r, Resume(task), op[task])
  BY <1>1, <1>2, <1>3, addCallbackJoins
<1>6. Becomes(r)
  BY DEF Await
<1> HIDE DEF r
<1>7. Became(Len(futs), r, {})
  BY <1>4, <1>6, HearsQuiet
<1>8. TasksSame(State, State')
  BY <1>1, <1>4, <1>7, FutsTyped DEF Became, Hears, Same, TasksSame, DataInv, State
<1> QED BY <1>5, <1>7, <1>8 DEF Became

LEMMA ReturnFinishes ==
  ASSUME DataInv, LoopInv, Return
  PROVE  /\ task \in Tasks /\ Carries(State, State') /\ Tasks \subseteq 1 .. Len(futs)'
         /\ futs'[task].answer # "none"
         /\ \A t \in Tasks : t # task => futs'[t].answer = futs[t].answer
<1>1. task \in Tasks /\ task \in 1 .. Len(futs) /\ futs[task].kind = "task" /\ Len(futs) \in Nat
      /\ State \in States(Len(futs), Of("timeout"))
  BY AtTask, FutsTyped DEF Return, DataInv
<1>2. PICK a \in Answers \ {"none"} : Becomes(Finish(State, task, a))
  <2>1. {"done", "failed"} \subseteq Answers \ {"none"}
    BY DEF Answers
  <2> QED BY <2>1 DEF Return
<1>3. PICK r : r = Finish(State, task, a)
  OBVIOUS
<1>4. Finishes(Len(futs), Of("timeout"), State, task, a, r)
  BY <1>1, <1>3, FinishDoes
<1>5. Became(Len(futs), r, {task})
  BY <1>2, <1>3, <1>4, BecomingSame DEF Finishes
<1>6. State' = r /\ futs' = r.futs /\ Len(futs)' = Len(futs)
  BY <1>5 DEF Became, State
<1>7. Carries(State, State')
  BY <1>1, <1>4, <1>6, FinishCarries
<1>8. Tasks \subseteq 1 .. Len(futs)'
  BY <1>6, FutsTyped
<1>9. futs'[task].answer # "none"
  BY <1>1, <1>4, <1>6 DEF Finishes
<1>10. \A t \in Tasks : t # task => futs'[t].answer = futs[t].answer
  BY <1>4, <1>6, FutsTyped DEF Finishes, Same, State
<1> QED BY <1>1, <1>7, <1>8, <1>9, <1>10

(* The first callback leaves the queue; all others stay.                   *)
LEMMA PoppedKnows ==
  ASSUME DataInv, ready # << >>, NEW cb
  PROVE  /\ cb # Head(ready) => (Known(Popped, cb) <=> Known(State, cb))
         /\ Lone(State, cb) => Lone(Popped, cb)
         /\ cb = Head(ready) => Known(State, cb) /\ (Lone(State, cb) => ~Known(Popped, cb))
         /\ \A g, i : g # 0 /\ Waits(Popped, cb, g, i) => Waits(State, cb, g, i)
<1>1. \A g, i : Waits(Popped, cb, g, i) <=> \/ g # 0 /\ Waits(State, cb, g, i)
                                            \/ g = 0 /\ i \in Nat \ {0} /\ Waits(State, cb, 0, i + 1)
  BY PoppedWaits
<1>2. \A i : Waits(State, cb, 0, i) => i \in Nat \ {0} /\ (i = 1 \/ (i - 1 \in Nat \ {0} /\ (i - 1) + 1 = i))
  <2>1. Len(State.ready) \in Nat
    <3>1. State.ready \in Seq(Call(Len(futs), Of("timeout")))
      BY FutsTyped, Fields DEF DataInv
    <3> QED BY <3>1, LenProperties
  <2>2. 0 \notin 1 .. Len(State.futs)
    OBVIOUS
  <2> QED BY <2>1, <2>2 DEF Waits, Has
<1>3. Waits(State, cb, 0, 1) <=> cb = Head(ready)
  <2>1. ready \in Seq(Call(Len(futs), Of("timeout"))) /\ State.ready = ready
    <3>1. State.ready \in Seq(Call(Len(futs), Of("timeout")))
      BY FutsTyped, Fields DEF DataInv
    <3> QED BY <3>1 DEF State
  <2>2. Len(ready) \in Nat \ {0} /\ Head(ready) = ready[1]
    BY <2>1, EmptySeq, LenProperties, HeadTailProperties
  <2>3. 0 \notin 1 .. Len(State.futs) /\ 1 \in 1 .. Len(ready)
    BY <2>2
  <2> QED BY <2>1, <2>2, <2>3 DEF Waits, Has
<1>4. ASSUME NEW i, i \in Nat \ {0}, Waits(State, cb, 0, i + 1) PROVE i + 1 # 1
  BY <1>4
<1>5. ASSUME cb # Head(ready) PROVE Known(Popped, cb) <=> Known(State, cb)
  <2>1. \A g, i : Waits(State, cb, g, i) => g # 0 \/ (i - 1 \in Nat \ {0} /\ Waits(State, cb, 0, (i - 1) + 1))
    BY <1>2, <1>3, <1>5
  <2>2. Known(State, cb) => Known(Popped, cb)
    BY <1>1, <2>1 DEF Known
  <2>3. Known(Popped, cb) => Known(State, cb)
    BY <1>1 DEF Known
  <2> QED BY <2>2, <2>3
<1>6. ASSUME Lone(State, cb) PROVE Lone(Popped, cb)
  <2> SUFFICES ASSUME NEW g, NEW h, NEW i, NEW j, Waits(Popped, cb, g, i), Waits(Popped, cb, h, j)
               PROVE  g = h /\ i = j
    BY DEF Lone
  <2>1. CASE g # 0
    BY <1>1, <1>6, <2>1 DEF Lone
  <2>2. CASE g = 0
    <3>1. i \in Nat \ {0} /\ Waits(State, cb, 0, i + 1)
      BY <1>1, <2>2
    <3>2. h = 0 /\ j \in Nat \ {0} /\ Waits(State, cb, 0, j + 1)
      BY <1>1, <1>6, <3>1 DEF Lone
    <3>3. i + 1 = j + 1
      BY <1>6, <3>1, <3>2 DEF Lone
    <3> QED BY <2>2, <3>1, <3>2, <3>3
  <2> QED BY <2>1, <2>2
<1>7. ASSUME cb = Head(ready) PROVE Known(State, cb) /\ (Lone(State, cb) => ~Known(Popped, cb))
  <2>1. Waits(State, cb, 0, 1)
    BY <1>3, <1>7
  <2>2. Known(State, cb)
    BY <2>1 DEF Known
  <2>3. ASSUME Lone(State, cb), NEW g, NEW i, Waits(Popped, cb, g, i) PROVE FALSE
    <3>1. CASE g # 0
      BY <1>1, <2>1, <2>3, <3>1 DEF Lone
    <3>2. CASE g = 0
      <4>1. i \in Nat \ {0} /\ Waits(State, cb, 0, i + 1)
        BY <1>1, <2>3, <3>2
      <4>2. i + 1 = 1
        BY <2>1, <2>3, <4>1 DEF Lone
      <4> QED BY <4>1, <4>2
    <3> QED BY <3>1, <3>2
  <2> QED BY <2>2, <2>3 DEF Known
<1> QED BY <1>1, <1>5, <1>6, <1>7

LEMMA RunCarries ==
  ASSUME DataInv, RunCallback
  PROVE  /\ ready # << >> /\ Carries(Popped, State') /\ TasksSame(State, State') /\ UNCHANGED <<op, started>>
         /\ \/ \E t \in Tasks : Head(ready) = Resume(t) /\ task' = t
            \/ task' = task /\ \A t \in Tasks : Head(ready) # Resume(t)
<1> DEFINE n == Len(futs)
           T == Of("timeout")
           cb == Head(ready)
<1>1. /\ Popped \in States(n, T) /\ SameIo(State, Popped) /\ Popped.futs = futs
      /\ Same(n, State, Popped, {}) /\ cb \in Call(n, T) /\ n \in Nat
  BY PoppedDoes, FutsTyped DEF RunCallback
<1>2. UNCHANGED <<op, started>>
  BY DEF RunCallback
<1> HIDE DEF n, T
<1>3. \A t \in Tasks : t \in 1 .. n /\ futs[t].kind = "task"
  BY FutsTyped DEF DataInv, n
<1>4. ASSUME Becomes(Popped) PROVE Carries(Popped, State') /\ TasksSame(State, State')
  <2>1. Became(n, Popped, {})
    BY <1>1, <1>4, BecomingSame DEF n, T
  <2>2. State' = Popped /\ futs' = futs
    BY <1>1, <2>1 DEF Became, State
  <2>3. Carries(Popped, State')
    BY <2>2 DEF Carries
  <2> QED BY <1>1, <1>3, <2>2, <2>3 DEF TasksSame, State, n
<1>5. ASSUME cb.ret \in T, NEW a \in Answers, Becomes(Finish(Popped, cb.ret, a))
      PROVE  Carries(Popped, State') /\ TasksSame(State, State')
  <2>1. PICK f \in 1 .. n : f = cb.ret /\ futs[f].kind = "timeout"
    BY <1>5 DEF Of, T, n
  <2>2. PICK r : r = Finish(Popped, f, a)
    OBVIOUS
  <2>3. Finishes(n, T, Popped, f, a, r)
    BY <1>1, <2>1, <2>2, FinishDoes
  <2>4. Same(n, State, r, {f})
    BY <1>1, <2>3 DEF Finishes, Same, State
  <2>5. Became(n, r, {f})
    BY <1>5, <2>1, <2>2, <2>3, <2>4, BecomingSame DEF Finishes, n, T
  <2>6. State' = r /\ Len(r.futs) = n
    BY <1>1, <2>3, <2>5, Fields DEF Became, Finishes
  <2>7. Carries(Popped, State')
    BY <1>1, <2>3, <2>6, FinishCarries
  <2>8. TasksSame(State, State')
    BY <1>3, <2>1, <2>4, <2>6 DEF Same, TasksSame, State
  <2> QED BY <2>7, <2>8
<1>6. CASE cb.kind = "resume"
  <2>1. Becomes(Popped) /\ task' = cb.task
    BY <1>6 DEF RunCallback
  <2>2. cb.task \in Tasks /\ cb = Resume(cb.task)
    BY <1>1, <1>6 DEF Call, Resume
  <2> QED BY <1>2, <1>4, <2>1, <2>2 DEF RunCallback
<1>7. CASE cb.kind # "resume"
  <2>1. task' = task /\ cb.ret \in T
    BY <1>1, <1>7 DEF RunCallback, Call
  <2>2. \A t \in Tasks : cb # Resume(t)
    BY <1>7 DEF Resume
  <2>3. Becomes(Popped) \/ \E a \in Answers : Becomes(Finish(Popped, cb.ret, a))
    <3>1. {"failed", "true", "false"} \subseteq Answers
      BY DEF Answers
    <3> QED BY <1>7, <3>1 DEF RunCallback, First, Elapsed
  <2> QED BY <1>2, <1>4, <1>5, <2>1, <2>2, <2>3 DEF RunCallback
<1> QED BY <1>6, <1>7

(* withTimeout makes the timeout and its sleep, is heard by both, and may  *)
(* forget who else awaits its future.                                      *)
Elapses(r) == [kind |-> "elapsed", ret |-> r]
Rewires(s, c, f, ret, e, k, j) ==
  \A x, g, i : Waits(c, x, g, i) <=>
    \/ g # f /\ Waits(s, x, g, i)
    \/ x = [kind |-> "first", of |-> f, ret |-> ret] /\ g = e /\ i = k
    \/ x = Elapses(ret) /\ g = ret + 1 /\ i = j

LEMMA setCallbackHears ==
  ASSUME NEW n \in Nat, NEW T, NEW s \in States(n, T),
         NEW f \in 1 .. n, NEW cb \in Call(n, T), NEW r, r = setCallback(s, f, cb)
  PROVE  \E q : /\ Joins(q, r, cb, f) /\ (Finished(q, f) <=> Finished(s, f))
                /\ \A x, g, i : Waits(q, x, g, i) <=> Waits(s, x, g, i) /\ g # f
BY setCallbackJoins DEF Finished

LEMMA WithTimeoutMakes ==
  ASSUME DataInv, LoopInv, NEW ms \in Delays, WithTimeout(ms)
  PROVE  \E n \in Nat : \E f \in 1 .. n :
           /\ n = Len(futs) /\ f = op[task] /\ task \in Tasks /\ TasksSame(State, State') /\ op' = op
           /\ Len(futs)' = n + 2 /\ PushTimer(n + 2, ms)
           /\ Same(n, State, State', {}) /\ State'.order = State.order
           /\ futs'[n + 1].kind = "timeout" /\ futs'[n + 1].of = f /\ futs'[n + 1].answer = "none"
           /\ futs'[n + 2].kind = "sleep" /\ futs'[n + 2].answer = "none"
           /\ \E c, e, k, j : /\ e \in {0, f} /\ (e = 0 <=> Finished(State, f))
                             /\ Joins(c, State', Resume(task), n + 1) /\ ~Finished(c, n + 1)
                             /\ Rewires(State, c, f, n + 1, e, k, j)
<1> DEFINE n == Len(futs)
           T == Of("timeout")
           U == T \cup {n + 1}
           f == op[task]
           x == Future("timeout", f, 0)
           y == Future("sleep", 0, 0)
           p == NewFuture(State, x)
           a == NewFuture(p, y)
           first == [kind |-> "first", of |-> f, ret |-> n + 1]
           elapsed == [kind |-> "elapsed", ret |-> n + 1]
           b == setCallback(a, f, first)
           c == setCallback(b, n + 2, elapsed)
           r == addCallback(c, n + 1, Resume(task))
<1>1. /\ n \in Nat /\ State \in States(n, T) /\ n + 2 \in n .. MaxFutures /\ n + 1 \in Nat /\ n + 2 \in Nat
      /\ f \in 1 .. n /\ f \in 1 .. n + 2 /\ n + 1 \in 1 .. n + 2 /\ n + 2 \in 1 .. n + 2 /\ (n + 1) + 1 = n + 2
      /\ task \in Tasks
  BY FutsTyped, AtTask, ConstantsAssumption DEF DataInv, WithTimeout, Room
<1>2. x \in Made(n + 1, U) /\ x.kind = "timeout" /\ x.callbacks = << >> /\ x.of = f /\ x.answer = "none"
  <2>1. "timeout" \in Kinds /\ 0 \in Nat /\ f \in Sockets \cup Nat
    BY <1>1 DEF Kinds
  <2> HIDE DEF n, f
  <2> QED BY <1>1, <2>1, FutureTyped DEF Future
<1>3. y \in Made(n + 2, U) /\ y.kind = "sleep" /\ y.callbacks = << >> /\ y.answer = "none"
  <2>1. "sleep" \in Kinds /\ 0 \in Nat /\ 0 \in Sockets \cup Nat
    BY DEF Kinds
  <2> HIDE DEF n
  <2> QED BY <1>1, <2>1, FutureTyped DEF Future
<1>4. /\ first \in Call(n + 2, U) /\ elapsed \in Call(n + 2, U) /\ Resume(task) \in Call(n + 2, U)
      /\ \A t : Resume(t) # first /\ Resume(t) # elapsed
  <2> HIDE DEF n, f, T
  <2> QED BY <1>1 DEF Call, Resume
<1>5. Becomes(r) /\ op' = op /\ PushTimer(n + 2, ms)
  BY DEF WithTimeout, Yield
<1> HIDE DEF n, T, f, x, y, first, elapsed
<1>6. Adds(n, U, State, x, p) /\ Carries(State, p) /\ p.futs = Append(State.futs, x) /\ p.ready = State.ready
  <2>1. Adds(n, U, State, x, p)
    BY <1>1, <1>2, NewDoes
  <2>2. p.futs = Append(State.futs, x) /\ p.ready = State.ready
    BY DEF NewFuture, State
  <2>3. State.futs \in Seq(Made(n, T)) /\ Len(State.futs) = n
    BY <1>1, Fields
  <2> HIDE DEF p
  <2> QED BY <1>1, <1>2, <2>1, <2>2, <2>3, NewCarries
<1>7. Adds(n + 1, U, p, y, a) /\ a.futs = Append(p.futs, y) /\ a.ready = p.ready
  <2>1. p \in States(n + 1, U) /\ U \subseteq U /\ y \in Made((n + 1) + 1, U)
    BY <1>1, <1>3, <1>6 DEF Adds
  <2>2. a.futs = Append(p.futs, y) /\ a.ready = p.ready
    BY DEF NewFuture, State
  <2> HIDE DEF p
  <2> QED BY <1>1, <2>1, <2>2, NewDoes
<1> HIDE DEF p
<1>0. PICK m \in Nat : m = n + 2
  BY <1>1
<1>8. /\ a \in States(m, U) /\ f \in 1 .. m /\ n + 1 \in 1 .. m /\ m \in 1 .. m
      /\ first \in Call(m, U) /\ elapsed \in Call(m, U) /\ Resume(task) \in Call(m, U)
  BY <1>0, <1>1, <1>4, <1>7 DEF Adds
<1> HIDE DEF a
<1>80. b = setCallback(a, f, first) /\ c = setCallback(b, m, elapsed) /\ r = addCallback(c, n + 1, Resume(task))
  BY <1>0
<1> HIDE DEF b, c, r
<1>9. Hears(m, U, a, b)
  BY <1>8, <1>80, setCallbackDoes
<1>91. PICK q1 : /\ Joins(q1, b, first, f) /\ (Finished(q1, f) <=> Finished(a, f))
                 /\ \A z, g, i : Waits(q1, z, g, i) <=> Waits(a, z, g, i) /\ g # f
  BY <1>8, <1>80, setCallbackHears
<1>10. b \in States(m, U)
  BY <1>9 DEF Hears
<1>11. Hears(m, U, b, c)
  BY <1>8, <1>80, <1>10, setCallbackDoes
<1>111. PICK q2 : /\ Joins(q2, c, elapsed, m) /\ (Finished(q2, m) <=> Finished(b, m))
                  /\ \A z, g, i : Waits(q2, z, g, i) <=> Waits(b, z, g, i) /\ g # m
  BY <1>8, <1>80, <1>10, setCallbackHears
<1>12. c \in States(m, U)
  BY <1>11 DEF Hears
<1>13. Hears(m, U, c, r) /\ Joins(c, r, Resume(task), n + 1)
  BY <1>8, <1>80, <1>12, addCallbackDoes, addCallbackJoins
<1>14. Same(m, a, r, {}) /\ r \in States(m, U)
  BY <1>9, <1>11, <1>13 DEF Hears, Same
<1>15. Same(n, State, r, {})
  <2>1. 1 .. n \subseteq 1 .. n + 1 /\ 1 .. n \subseteq 1 .. m
    BY <1>0, <1>1
  <2> QED BY <1>0, <1>1, <1>6, <1>7, <1>14, <2>1 DEF Adds, Same
<1>16. /\ r.futs[n + 1].kind = "timeout" /\ r.futs[n + 1].of = f /\ r.futs[n + 1].answer = "none"
       /\ r.futs[n + 2].kind = "sleep" /\ r.futs[n + 2].answer = "none"
       /\ a.futs[n + 2].answer = "none" /\ a.futs[n + 1].answer = "none"
       /\ a.futs[f].answer = State.futs[f].answer
  <2>1. n + 1 \in 1 .. n + 1 /\ f \in 1 .. n + 1
    BY <1>1
  <2>2. /\ a.futs[n + 1].kind = "timeout" /\ a.futs[n + 1].of = f /\ a.futs[n + 1].answer = "none"
        /\ a.futs[f].answer = State.futs[f].answer
    BY <1>1, <1>2, <1>6, <1>7, <2>1 DEF Adds, Same
  <2>3. a.futs[n + 2].kind = "sleep" /\ a.futs[n + 2].answer = "none"
    BY <1>1, <1>3, <1>7 DEF Adds
  <2> QED BY <1>0, <1>1, <1>14, <2>2, <2>3 DEF Same
<1>17. State' = r /\ futs' = r.futs /\ Len(r.futs) = n + 2
  <2>1. /\ futs' = r.futs /\ ready' = r.ready /\ order' = r.order /\ fds' = r.fds
        /\ inbox' = r.inbox /\ room' = r.room
    BY <1>5 DEF Becomes
  <2> QED BY <1>0, <1>14, <2>1 DEF State, States
<1>18. TasksSame(State, State')
  <2>1. 1 .. n \subseteq 1 .. n + 2
    BY <1>1
  <2>2. \A t \in Tasks : t \in 1 .. n /\ futs[t].kind = "task"
    BY FutsTyped DEF DataInv, n
  <2> QED BY <1>15, <1>17, <2>1, <2>2 DEF Same, TasksSame, State
<1>19. \A z, g, i : Waits(a, z, g, i) <=> Waits(State, z, g, i)
  <2>1. \A z, g, i : Waits(p, z, g, i) <=> Waits(State, z, g, i)
    <3>1. State.futs \in Seq(Made(n, T)) /\ Len(State.futs) = n
      BY <1>1, Fields
    <3> QED BY <1>1, <1>2, <1>6, <3>1, NewWaits
  <2>2. \A z, g, i : Waits(a, z, g, i) <=> Waits(p, z, g, i)
    <3>1. p.futs \in Seq(Made(n + 1, U)) /\ Len(p.futs) = n + 1
      BY <1>1, <1>6, Fields DEF Adds
    <3> QED BY <1>1, <1>3, <1>7, <3>1, NewWaits
  <2> QED BY <2>1, <2>2
<1>20. PICK e, k : /\ e \in {0, f} /\ (e = 0 <=> Finished(State, f))
                   /\ \A z, g, i : Waits(b, z, g, i) <=> \/ g # f /\ Waits(State, z, g, i)
                                                         \/ z = first /\ g = e /\ i = k
  <2>1. PICK e, k : e \in {0, f} /\ (e = 0 <=> Finished(q1, f)) /\ JoinsAt(q1, b, first, e, k)
    BY <1>91 DEF Joins
  <2>2. Finished(q1, f) <=> Finished(State, f)
    BY <1>16, <1>91 DEF Finished
  <2>3. \A z, g, i : Waits(b, z, g, i) <=> Waits(q1, z, g, i) \/ (z = first /\ g = e /\ i = k)
    BY <2>1 DEF JoinsAt
  <2>4. \A z, g, i : Waits(b, z, g, i) <=> \/ g # f /\ Waits(State, z, g, i)
                                           \/ z = first /\ g = e /\ i = k
    BY <1>19, <1>91, <2>3
  <2> QED BY <2>1, <2>2, <2>4
<1>21. PICK j : \A z, g, i : Waits(c, z, g, i) <=> \/ g # m /\ Waits(b, z, g, i)
                                                   \/ z = elapsed /\ g = m /\ i = j
  <2>1. b.futs[m].answer = "none" /\ m # 0
    BY <1>0, <1>1, <1>9, <1>16 DEF Hears, Same
  <2>2. PICK d, j : d \in {0, m} /\ (d = 0 <=> Finished(q2, m)) /\ JoinsAt(q2, c, elapsed, d, j)
    BY <1>111 DEF Joins
  <2>3. d = m
    BY <1>111, <2>1, <2>2 DEF Finished
  <2>4. \A z, g, i : Waits(c, z, g, i) <=> Waits(q2, z, g, i) \/ (z = elapsed /\ g = m /\ i = j)
    BY <2>2, <2>3 DEF JoinsAt
  <2>5. \A z, g, i : Waits(c, z, g, i) <=> \/ g # m /\ Waits(b, z, g, i)
                                           \/ z = elapsed /\ g = m /\ i = j
    BY <1>111, <2>4
  <2> QED BY ONLY <2>5
<1>22. ~Finished(c, n + 1)
  BY <1>8, <1>9, <1>11, <1>16 DEF Hears, Same, Finished
<1>23. m \notin {0, f} /\ \A z, g, i : Waits(State, z, g, i) => g # m
  <2>1. Len(State.futs) = n
    BY <1>1, Fields
  <2> QED BY <1>0, <1>1, <2>1 DEF Waits
<1>24. \A z, g, i : Waits(c, z, g, i) <=> \/ g # f /\ Waits(State, z, g, i)
                                          \/ z = first /\ g = e /\ i = k
                                          \/ z = elapsed /\ g = m /\ i = j
  <2> SUFFICES ASSUME NEW z, NEW g, NEW i
               PROVE  Waits(c, z, g, i) <=> \/ g # f /\ Waits(State, z, g, i)
                                            \/ z = first /\ g = e /\ i = k
                                            \/ z = elapsed /\ g = m /\ i = j
    OBVIOUS
  <2>1. Waits(b, z, g, i) <=> (g # f /\ Waits(State, z, g, i)) \/ (z = first /\ g = e /\ i = k)
    BY <1>20
  <2>2. Waits(c, z, g, i) <=> (g # m /\ Waits(b, z, g, i)) \/ (z = elapsed /\ g = m /\ i = j)
    BY <1>21
  <2>3. e # m /\ (Waits(State, z, g, i) => g # m)
    BY <1>20, <1>23
  <2> QED BY <2>1, <2>2, <2>3
<1>25. Rewires(State, c, f, n + 1, e, k, j)
  <2>1. first = [kind |-> "first", of |-> f, ret |-> n + 1] /\ elapsed = Elapses(n + 1) /\ (n + 1) + 1 = m
    BY <1>0, <1>1 DEF first, elapsed, Elapses
  <2> QED BY <1>24, <2>1 DEF Rewires
<1>26. State'.order = State.order
  BY <1>6, <1>7, <1>9, <1>11, <1>13, <1>17 DEF Adds, Hears
<1>27. n = Len(futs) /\ f = op[task] /\ n \in Nat /\ f \in 1 .. n
  BY <1>1 DEF n, f
<1>28. \E c0, e0, k0, j0 :
         /\ e0 \in {0, f} /\ (e0 = 0 <=> Finished(State, f))
         /\ Joins(c0, State', Resume(task), n + 1) /\ ~Finished(c0, n + 1)
         /\ Rewires(State, c0, f, n + 1, e0, k0, j0)
  BY <1>13, <1>17, <1>20, <1>22, <1>25
<1> QED BY <1>1, <1>5, <1>15, <1>16, <1>17, <1>18, <1>26, <1>27, <1>28

LEMMA WithTimeoutJoins ==
  ASSUME DataInv, LoopInv, NEW ms \in Delays, WithTimeout(ms)
  PROVE  /\ op[task] \in 1 .. Len(futs) /\ task \in Tasks /\ TasksSame(State, State') /\ op' = op
         /\ futs'[Len(futs) + 1].kind = "timeout"
         /\ \E c : /\ Joins(c, State', Resume(task), Len(futs) + 1)
                   /\ \A t, g, i : Waits(c, Resume(t), g, i) <=> Waits(State, Resume(t), g, i) /\ g # op[task]
<1>1. PICK n \in Nat : \E f \in 1 .. n :
           /\ n = Len(futs) /\ f = op[task] /\ task \in Tasks /\ TasksSame(State, State') /\ op' = op
           /\ futs'[n + 1].kind = "timeout"
           /\ \E c, e, k, j : Joins(c, State', Resume(task), n + 1) /\ Rewires(State, c, f, n + 1, e, k, j)
  BY WithTimeoutMakes
<1>2. PICK c, e, k, j : /\ Joins(c, State', Resume(task), n + 1)
                        /\ Rewires(State, c, op[task], n + 1, e, k, j)
  BY <1>1
<1>3. \A t, g, i : Waits(c, Resume(t), g, i) <=> Waits(State, Resume(t), g, i) /\ g # op[task]
  <2>1. \A t : Resume(t).kind = "resume" /\ Elapses(n + 1).kind = "elapsed"
    BY DEF Resume, Elapses
  <2> QED BY <1>2, <2>1 DEF Rewires
<1> QED BY <1>1, <1>2, <1>3

(***************************************************************************)
(* Nobody is resumed twice, nobody who runs or has ended, and nobody who   *)
(* has not begun.                                                          *)
(***************************************************************************)
Awaiting(t) == t <= started /\ t # task /\ Pending(t)
WaitersInv ==
  /\ task # 0 => task <= started /\ Pending(task)
  /\ \A t \in Tasks : /\ t > started => Pending(t)
                      /\ Lone(State, Resume(t)) /\ (Known(State, Resume(t)) => Awaiting(t))

LEMMA PendingSame ==
  ASSUME TasksSame(State, State')
  PROVE  \A t \in Tasks : Pending(t)' <=> Pending(t)
BY DEF TasksSame, Pending, Finished, State

LEMMA TaskIs ==
  ASSUME LoopInv
  PROVE  /\ task # 0 => task \in Tasks
         /\ 0 \notin Tasks /\ started \in Nat /\ Tasks \subseteq Nat /\ NTasks \in Nat
BY ConstantsAssumption DEF LoopInv, Tasks

LEMMA WaitersStay ==
  ASSUME LoopInv, WaitersInv, Carries(State, State'), TasksSame(State, State'), UNCHANGED <<task, started>>
  PROVE  WaitersInv'
<1>1. \A t \in Tasks : Pending(t)' <=> Pending(t)
  BY PendingSame
<1>2. \A t \in Tasks : /\ Known(State, Resume(t)) <=> Known(State', Resume(t))
                       /\ Lone(State, Resume(t)) => Lone(State', Resume(t))
  BY DEF Carries
<1>3. \A t \in Tasks : Awaiting(t)' <=> Awaiting(t)
  BY <1>1 DEF Awaiting
<1>4. task # 0 => (Pending(task)' <=> Pending(task))
  BY <1>1, TaskIs
<1> QED BY <1>1, <1>2, <1>3, <1>4 DEF WaitersInv

LEMMA WaitersStart ==
  ASSUME LoopInv, WaitersInv, Carries(State, State'), TasksSame(State, State'), StartTask
  PROVE  WaitersInv'
<1>1. task' = started + 1 /\ started' = started + 1 /\ started < NTasks /\ task = 0
  BY DEF StartTask, LoopInv, Running
<1>2. started + 1 \in Tasks /\ started + 1 > started /\ started \in Nat /\ Tasks \subseteq Nat
  BY <1>1, TaskIs DEF Tasks
<1>3. \A t \in Tasks : Pending(t)' <=> Pending(t)
  BY PendingSame
<1>4. \A t \in Tasks : /\ Known(State, Resume(t)) <=> Known(State', Resume(t))
                       /\ Lone(State, Resume(t)) => Lone(State', Resume(t))
  BY DEF Carries
<1>5. task' <= started' /\ Pending(task)'
  <2>1. PICK u \in Tasks : u = started + 1
    BY <1>2
  <2>2. Pending(u)'
    BY <1>2, <1>3, <2>1 DEF WaitersInv
  <2> QED BY <1>1, <1>2, <2>1, <2>2 DEF Pending, Finished, State
<1>6. ASSUME NEW t \in Tasks
      PROVE  /\ t > started' => Pending(t)'
             /\ Lone(State, Resume(t))' /\ (Known(State, Resume(t))' => Awaiting(t)')
  <2>1. t \in Nat /\ (t > started + 1 => t > started) /\ (t <= started => t <= started + 1 /\ t # started + 1)
    BY <1>2
  <2>2. t > started' => Pending(t)'
    BY <1>1, <1>3, <2>1 DEF WaitersInv
  <2>3. Known(State', Resume(t)) => t <= started /\ Pending(t)
    BY <1>4 DEF WaitersInv, Awaiting
  <2>4. Lone(State', Resume(t))
    BY <1>4 DEF WaitersInv
  <2> QED BY <1>1, <1>3, <2>1, <2>2, <2>3, <2>4 DEF Awaiting
<1> QED BY <1>5, <1>6 DEF WaitersInv

LEMMA WaitersJoin ==
  ASSUME LoopInv, WaitersInv, task \in Tasks, task' = 0, started' = started, TasksSame(State, State'),
         NEW c, NEW f, Joins(c, State', Resume(task), f),
         \A t, g, i : Waits(c, Resume(t), g, i) => Waits(State, Resume(t), g, i)
  PROVE  WaitersInv'
<1>1. \A t \in Tasks : Pending(t)' <=> Pending(t)
  BY PendingSame
<1>2. 0 \notin Tasks
  BY TaskIs
<1>3. \A t : (Known(c, Resume(t)) => Known(State, Resume(t))) /\ (Lone(State, Resume(t)) => Lone(c, Resume(t)))
  BY DEF Known, Lone
<1>4. \A t, u : t # u => Resume(t) # Resume(u)
  BY DEF Resume
<1>5. ASSUME NEW t \in Tasks
      PROVE  /\ t > started' => Pending(t)'
             /\ Lone(State', Resume(t)) /\ (Known(State', Resume(t)) => Awaiting(t)')
  <2>1. t > started' => Pending(t)'
    BY <1>1 DEF WaitersInv
  <2>2. CASE t = task
    <3>1. ~Known(c, Resume(task))
      BY <1>3 DEF WaitersInv, Awaiting
    <3>2. Lone(State', Resume(t))
      BY <2>2, <3>1, Joined
    <3>3. t <= started /\ Pending(t) /\ t # 0
      BY <1>2, <2>2 DEF WaitersInv
    <3> QED BY <1>1, <2>1, <3>2, <3>3 DEF Awaiting
  <2>3. CASE t # task
    <3>1. (Known(State', Resume(t)) <=> Known(c, Resume(t))) /\ (Lone(c, Resume(t)) => Lone(State', Resume(t)))
      BY <1>4, <2>3, Joined
    <3>2. Lone(State', Resume(t)) /\ (Known(State', Resume(t)) => t <= started /\ Pending(t))
      BY <1>3, <3>1 DEF WaitersInv, Awaiting
    <3>3. t # 0
      BY <1>2
    <3> QED BY <1>1, <2>1, <3>2, <3>3 DEF Awaiting
  <2> QED BY <2>2, <2>3
<1> QED BY <1>5 DEF WaitersInv

LEMMA WaitersReturn ==
  ASSUME DataInv, LoopInv, WaitersInv, Return
  PROVE  WaitersInv'
<1>1. /\ task \in Tasks /\ Carries(State, State') /\ task' = 0 /\ started' = started
      /\ \A t \in Tasks : t # task => futs'[t].answer = futs[t].answer
  BY ReturnFinishes DEF Return, Yield
<1>2. \A t \in Tasks : t # task => (Pending(t)' <=> Pending(t))
  BY <1>1 DEF Pending, Finished, State
<1>3. \A t \in Tasks : /\ Known(State, Resume(t)) <=> Known(State', Resume(t))
                       /\ Lone(State, Resume(t)) => Lone(State', Resume(t))
  BY <1>1 DEF Carries
<1>4. task <= started /\ 0 \notin Tasks /\ started \in Nat /\ Tasks \subseteq Nat
  BY <1>1, TaskIs DEF WaitersInv
<1>5. ASSUME NEW t \in Tasks
      PROVE  /\ t > started' => Pending(t)'
             /\ Lone(State', Resume(t)) /\ (Known(State', Resume(t)) => Awaiting(t)')
  <2>1. t > started => t # task
    BY <1>1, <1>4
  <2>2. t > started' => Pending(t)'
    BY <1>1, <1>2, <2>1 DEF WaitersInv
  <2>3. Known(State', Resume(t)) => t <= started /\ t # task /\ Pending(t)
    BY <1>3 DEF WaitersInv, Awaiting
  <2>4. Lone(State', Resume(t)) /\ t # 0
    BY <1>3, <1>4 DEF WaitersInv
  <2> QED BY <1>1, <1>2, <2>2, <2>3, <2>4 DEF Awaiting
<1> QED BY <1>1, <1>5 DEF WaitersInv

LEMMA WaitersRun ==
  ASSUME DataInv, LoopInv, WaitersInv, RunCallback
  PROVE  WaitersInv'
<1>1. /\ ready # << >> /\ Carries(Popped, State') /\ TasksSame(State, State') /\ started' = started
      /\ task = 0
  BY RunCarries DEF RunCallback, LoopInv, Running
<1>2. \A t \in Tasks : Pending(t)' <=> Pending(t)
  BY <1>1, PendingSame
<1>3. \A t \in Tasks : /\ Known(Popped, Resume(t)) <=> Known(State', Resume(t))
                       /\ Lone(Popped, Resume(t)) => Lone(State', Resume(t))
  BY <1>1 DEF Carries
<1>4. \A t, u : t # u => Resume(t) # Resume(u)
  BY DEF Resume
<1>5. ASSUME NEW t \in Tasks
      PROVE  Lone(State', Resume(t)) /\ (t > started' => Pending(t)')
  BY <1>1, <1>2, <1>3, PoppedKnows DEF WaitersInv
<1>6. CASE \E u \in Tasks : Head(ready) = Resume(u) /\ task' = u
  <2>1. PICK u \in Tasks : Head(ready) = Resume(u) /\ task' = u
    BY <1>6
  <2>2. Known(State, Resume(u)) /\ ~Known(Popped, Resume(u))
    BY <1>1, <2>1, PoppedKnows DEF WaitersInv
  <2>3. u <= started /\ Pending(u)
    BY <2>2 DEF WaitersInv, Awaiting
  <2>4. Pending(task)'
    <3>1. Pending(u)'
      BY <1>2, <2>3
    <3> QED BY <2>1, <3>1 DEF Pending, Finished, State
  <2>5. ASSUME NEW t \in Tasks, Known(State', Resume(t)) PROVE Awaiting(t)'
    <3>1. Known(Popped, Resume(t))
      BY <1>3, <2>5
    <3>2. t # u
      BY <2>2, <3>1
    <3>3. Known(State, Resume(t))
      BY <1>1, <1>4, <2>1, <3>1, <3>2, PoppedKnows
    <3>4. t <= started /\ Pending(t)
      BY <3>3 DEF WaitersInv, Awaiting
    <3> QED BY <1>1, <1>2, <2>1, <3>2, <3>4 DEF Awaiting
  <2> QED BY <1>1, <1>5, <2>1, <2>3, <2>4, <2>5 DEF WaitersInv
<1>7. CASE task' = task /\ \A t \in Tasks : Head(ready) # Resume(t)
  <2>1. ASSUME NEW t \in Tasks, Known(State', Resume(t)) PROVE Awaiting(t)'
    <3>1. Known(State, Resume(t))
      BY <1>1, <1>3, <1>7, <2>1, PoppedKnows
    <3> QED BY <1>1, <1>2, <1>7, <3>1 DEF WaitersInv, Awaiting
  <2> QED BY <1>1, <1>5, <1>7, <2>1 DEF WaitersInv
<1> QED BY <1>6, <1>7, RunCarries

LEMMA ExpiringCarries ==
  ASSUME DataInv, LoopInv, Poll \/ Dispatched
  PROVE  Carries(State, State') /\ TasksSame(State, State') /\ UNCHANGED <<task, started, op>>
<1>1. UNCHANGED <<task, started, op>>
  BY DEF Poll, Dispatched
<1>2. CASE processTimers
  BY <1>1, <1>2, ExpiredCarries
<1>3. CASE Unchanged
  <2>1. State' = State
    BY <1>3 DEF State, Unchanged
  <2>2. State \in Carried(State, Of("timeout"))
    BY CarriedNow
  <2> QED BY <1>1, <2>1, <2>2 DEF Carried
<1> QED BY <1>2, <1>3 DEF Poll, Dispatched

LEMMA PlainMoves ==
  ASSUME Plain
  PROVE  StartTask \/ UNCHANGED <<task, started>>
BY DEF Plain, Recv, Send, Close, Watch, sleepAsync, Join, Select, SelectReturns, MoveOut, CallBack,
       CallWatcher, MoveBack, NextKey, PollReturns, Environment, Tick, Arrive, PeerReads, HangUp,
       Stays, IoOnly, loop, vars

LEMMA WaitersKept ==
  ASSUME QueuesInv, QueuesInv', WaitersInv, [Next]_vars
  PROVE  WaitersInv'
<1>1. DataInv /\ LoopInv
  BY DEF QueuesInv
<1>2. CASE Plain
  BY <1>1, <1>2, PlainMoves, PlainCarries, WaitersStay, WaitersStart
<1>3. CASE Poll \/ Dispatched
  BY <1>1, <1>3, ExpiringCarries, WaitersStay
<1>4. CASE RunCallback
  BY <1>1, <1>4, WaitersRun
<1>5. CASE Return
  BY <1>1, <1>5, WaitersReturn
<1>6. CASE Await
  <2>1. task \in Tasks /\ task' = 0 /\ started' = started
    BY <1>1, <1>6, AtTask DEF Await, Yield
  <2>2. Joins(State, State', Resume(task), op[task]) /\ TasksSame(State, State')
    BY <1>1, <1>6, AwaitJoins
  <2> QED BY <1>1, <2>1, <2>2, WaitersJoin
<1>7. CASE \E ms \in Delays : WithTimeout(ms)
  <2>1. PICK ms \in Delays : WithTimeout(ms)
    BY <1>7
  <2>2. task \in Tasks /\ task' = 0 /\ started' = started
    BY <1>1, <2>1, AtTask DEF WithTimeout, Yield
  <2>3. PICK c : /\ Joins(c, State', Resume(task), Len(futs) + 1)
                 /\ \A t, g, i : Waits(c, Resume(t), g, i) <=> Waits(State, Resume(t), g, i) /\ g # op[task]
    BY <1>1, <2>1, WithTimeoutJoins
  <2>4. TasksSame(State, State')
    BY <1>1, <2>1, WithTimeoutJoins
  <2> QED BY <1>1, <2>2, <2>3, <2>4, WaitersJoin
<1> QED BY <1>2, <1>3, <1>4, <1>5, <1>6, <1>7, Otherwise

(***************************************************************************)
(* Whoever waits is not forgotten, as long as no two tasks have the same   *)
(* future as their latest operation: withTimeout sets the callback of its  *)
(* future, whoever else has added one.                                     *)
(***************************************************************************)
Unshared == \A t, u \in Tasks : t # u /\ op[t] # 0 => op[t] # op[u]

HomeInv ==
  /\ \A t \in Tasks : op[t] # 0 => futs[op[t]].kind # "timeout" /\ (op[t] > NTasks \/ op[t] < t)
  /\ \A t \in Tasks : \A g, i :
       Waits(State, Resume(t), g, i) /\ g # 0 => g = op[t] \/ futs[g].kind = "timeout"
AllWait == \A t \in Tasks : Awaiting(t) => Known(State, Resume(t))

Chooses ==
  /\ Running /\ task' = task
  /\ \E g : /\ op' = [op EXCEPT ![task] = g]
            /\ \/ g = Len(futs) + 1 /\ futs'[g].kind # "timeout"
               \/ g \in Tasks /\ g < task

LEMMA OpMoves ==
  ASSUME DataInv, LoopInv, Plain
  PROVE  op' = op \/ Chooses
<1>1. CASE \E fd \in Sockets : Recv(fd)
  <2>1. PICK fd \in Sockets : Recv(fd)
    BY <1>1
  <2>2. Asked("recv", fd)
    BY <2>1, RecvDoes
  <2> QED BY <2>1, <2>2 DEF Recv, Stays, Chooses, Asked
<1>2. CASE \E fd \in Sockets, n \in SendSizes : Send(fd, n)
  <2>1. PICK fd \in Sockets, n \in SendSizes : Send(fd, n)
    BY <1>2
  <2>2. Asked("send", fd)
    BY <2>1, SendDoes
  <2> QED BY <2>1, <2>2 DEF Send, Stays, Chooses, Asked
<1>3. CASE \E ms \in Delays : sleepAsync(ms)
  <2>1. PICK x : x = Future("sleep", 0, 0)
    OBVIOUS
  <2>2. futs' = Append(futs, x)
    BY <1>3, <2>1, MakesOne DEF sleepAsync
  <2>3. futs'[Len(futs) + 1] = x
    BY <2>2, FutsTyped, AppendProperties
  <2>4. futs'[Len(futs) + 1].kind # "timeout"
    BY <2>1, <2>3 DEF Future
  <2>5. Running /\ task' = task /\ op' = [op EXCEPT ![task] = Len(futs) + 1]
    BY <1>3 DEF sleepAsync, Stays
  <2> QED BY <2>4, <2>5 DEF Chooses
<1>4. CASE Join
  BY <1>4 DEF Join, Stays, Chooses
<1>5. ASSUME ~Join, ~(\E fd \in Sockets : Recv(fd)), ~(\E fd \in Sockets, n \in SendSizes : Send(fd, n)),
             ~(\E ms \in Delays : sleepAsync(ms))
      PROVE  op' = op
  BY <1>5 DEF Plain, Close, Watch, StartTask, Select, SelectReturns, MoveOut, CallBack,
       CallWatcher, MoveBack, NextKey, PollReturns, Environment, Tick, Arrive, PeerReads, HangUp,
       IoOnly, loop, vars
<1> QED BY <1>1, <1>2, <1>3, <1>4, <1>5

(* What is new with a future has been put there by the task that runs.     *)
HomeMoves ==
  \A t, g, i : Waits(State', Resume(t), g, i) /\ g # 0 =>
    \/ Waits(State, Resume(t), g, i)
    \/ t = task /\ (g = op[task] \/ futs'[g].kind = "timeout") /\ op' = op

LEMMA HomesMove ==
  ASSUME QueuesInv, QueuesInv', [Next]_vars
  PROVE  HomeMoves
<1>1. DataInv /\ LoopInv
  BY DEF QueuesInv
<1>2. CASE Plain
  BY <1>2, PlainCarries DEF Carries, HomeMoves
<1>3. CASE Poll \/ Dispatched
  BY <1>1, <1>3, ExpiringCarries DEF Carries, HomeMoves
<1>4. CASE RunCallback
  BY <1>1, <1>4, RunCarries, PoppedKnows DEF Carries, HomeMoves
<1>5. CASE Return
  BY <1>1, <1>5, ReturnFinishes DEF Carries, HomeMoves
<1>6. \A t, u : Resume(t) = Resume(u) => t = u
  BY DEF Resume
<1>7. CASE Await
  <2>1. Joins(State, State', Resume(task), op[task]) /\ op' = op
    BY <1>1, <1>7, AwaitJoins DEF Await
  <2>2. \A x, g, i : Waits(State', x, g, i) => Waits(State, x, g, i) \/ (x = Resume(task) /\ g \in {0, op[task]})
    BY <2>1, Joined
  <2> QED BY <1>6, <2>1, <2>2 DEF HomeMoves
<1>8. CASE \E ms \in Delays : WithTimeout(ms)
  <2>1. PICK ms \in Delays : WithTimeout(ms)
    BY <1>8
  <2>2. PICK c : /\ Joins(c, State', Resume(task), Len(futs) + 1)
                 /\ \A t, g, i : Waits(c, Resume(t), g, i) <=> Waits(State, Resume(t), g, i) /\ g # op[task]
    BY <1>1, <2>1, WithTimeoutJoins
  <2>3. futs'[Len(futs) + 1].kind = "timeout" /\ op' = op
    BY <1>1, <2>1, WithTimeoutJoins
  <2>4. \A x, g, i : Waits(State', x, g, i) => Waits(c, x, g, i) \/ (x = Resume(task) /\ g \in {0, Len(futs) + 1})
    BY <2>2, Joined
  <2> QED BY <1>6, <2>2, <2>3, <2>4 DEF HomeMoves
<1> QED BY <1>2, <1>3, <1>4, <1>5, <1>7, <1>8, Otherwise

LEMMA OpsMove ==
  ASSUME DataInv, LoopInv, [Next]_vars
  PROVE  op' = op \/ Chooses
<1>1. CASE Poll \/ Dispatched \/ RunCallback \/ Await \/ Return \/ \E ms \in Delays : WithTimeout(ms)
  BY <1>1 DEF Poll, Dispatched, RunCallback, Await, Return, WithTimeout
<1> QED BY <1>1, OpMoves, Otherwise

LEMMA HomeKept ==
  ASSUME QueuesInv, QueuesInv', WaitersInv, HomeInv, [Next]_vars
  PROVE  HomeInv'
<1>1. /\ DataInv /\ LoopInv /\ HomeMoves /\ (op' = op \/ Chooses) /\ SameKinds
      /\ op \in [Tasks -> 0 .. Len(futs)] /\ op' \in [Tasks -> 0 .. Len(futs)'] /\ NTasks \in Nat
      /\ Len(futs) \in Nat /\ Len(futs) >= NTasks /\ \A t \in Tasks : t \in 1 .. Len(futs) /\ futs[t].kind = "task"
  <2>1. DataInv /\ LoopInv /\ PlaceInv /\ ListInv /\ DataInv'
    BY DEF QueuesInv
  <2>2. SameKinds
    BY <2>1, Steps, ListKept
  <2>3. Len(futs) \in Nat /\ Len(futs) >= NTasks /\ NTasks \in Nat
    BY <2>1, FutsTyped DEF DataInv
  <2> QED BY <2>1, <2>2, <2>3, HomesMove, OpsMove, FutsTyped DEF DataInv
<1>2. ASSUME NEW t \in Tasks, op'[t] = op[t]
      PROVE  op'[t] # 0 => futs'[op'[t]].kind # "timeout" /\ (op'[t] > NTasks \/ op'[t] < t)
  <2>1. op[t] # 0 => op[t] \in 1 .. Len(futs)
    BY <1>1
  <2> QED BY <1>1, <1>2, <2>1 DEF HomeInv, SameKinds
<1>3. ASSUME Chooses
      PROVE  task \in Tasks /\ \A t \in Tasks : t # task => op'[t] = op[t]
  <2>1. task \in Tasks
    BY <1>1, <1>3, AtTask DEF Chooses
  <2> QED BY <1>1, <1>3, <2>1 DEF Chooses
<1>4. ASSUME Chooses
      PROVE  op'[task] # 0 => futs'[op'[task]].kind # "timeout" /\ (op'[task] > NTasks \/ op'[task] < task)
  <2>1. PICK g : /\ op' = [op EXCEPT ![task] = g]
                 /\ \/ g = Len(futs) + 1 /\ futs'[g].kind # "timeout"
                    \/ g \in Tasks /\ g < task
    BY <1>4 DEF Chooses
  <2>2. op'[task] = g
    BY <1>1, <1>3, <1>4, <2>1
  <2>3. CASE g = Len(futs) + 1 /\ futs'[g].kind # "timeout"
    BY <1>1, <2>2, <2>3
  <2>4. CASE g \in Tasks /\ g < task
    BY <1>1, <2>2, <2>4 DEF SameKinds
  <2> QED BY <2>1, <2>3, <2>4
<1>5. ASSUME NEW t \in Tasks
      PROVE  op'[t] # 0 => futs'[op'[t]].kind # "timeout" /\ (op'[t] > NTasks \/ op'[t] < t)
  BY <1>1, <1>2, <1>3, <1>4
<1>6. ASSUME NEW t \in Tasks, NEW g, NEW i, Waits(State', Resume(t), g, i), g # 0
      PROVE  g = op'[t] \/ futs'[g].kind = "timeout"
  <2>1. CASE Waits(State, Resume(t), g, i)
    <3>1. g \in 1 .. Len(futs)
      BY <1>6, <2>1 DEF Waits, State
    <3>2. t # task
      BY <2>1 DEF Known, WaitersInv, Awaiting
    <3>3. op'[t] = op[t]
      BY <1>1, <1>3, <3>2
    <3> QED BY <1>1, <1>6, <2>1, <3>1, <3>3 DEF HomeInv, SameKinds
  <2>2. CASE t = task /\ (g = op[task] \/ futs'[g].kind = "timeout") /\ op' = op
    BY <2>2
  <2> QED BY <1>1, <1>6, <2>1, <2>2 DEF HomeMoves
<1> QED BY <1>5, <1>6 DEF HomeInv

LEMMA AllWaitKept ==
  ASSUME QueuesInv, QueuesInv', WaitersInv, HomeInv, Unshared, AllWait, [Next]_vars
  PROVE  AllWait'
<1>1. DataInv /\ LoopInv
  BY DEF QueuesInv
<1>2. ASSUME TasksSame(State, State') PROVE \A t \in Tasks : Pending(t)' <=> Pending(t)
  BY <1>2, PendingSame
<1>3. 0 \notin Tasks /\ started \in Nat /\ Tasks \subseteq Nat
  BY <1>1, TaskIs
<1> SUFFICES ASSUME NEW t \in Tasks, Awaiting(t)' PROVE Known(State', Resume(t))
  BY DEF AllWait
<1>4. t <= started' /\ t # task' /\ Pending(t)'
  BY DEF Awaiting
<1>5. ASSUME Carries(State, State'), TasksSame(State, State'), UNCHANGED <<task, started>>
      PROVE  Known(State', Resume(t))
  <2>1. Awaiting(t)
    BY <1>2, <1>4, <1>5 DEF Awaiting
  <2> QED BY <1>5, <2>1 DEF AllWait, Carries
<1>6. CASE Plain
  <2>1. Carries(State, State') /\ TasksSame(State, State')
    BY <1>6, PlainCarries
  <2>2. CASE StartTask
    <3>1. task' = started + 1 /\ started' = started + 1 /\ task = 0
      BY <1>1, <2>2 DEF StartTask, LoopInv, Running
    <3>2. t <= started /\ t # task
      BY <1>3, <1>4, <3>1
    <3>3. Awaiting(t)
      BY <1>2, <1>4, <2>1, <3>2 DEF Awaiting
    <3> QED BY <2>1, <3>3 DEF AllWait, Carries
  <2> QED BY <1>5, <1>6, <2>1, <2>2, PlainMoves
<1>7. CASE Poll \/ Dispatched
  BY <1>1, <1>5, <1>7, ExpiringCarries
<1>8. CASE RunCallback
  <2>1. /\ ready # << >> /\ Carries(Popped, State') /\ TasksSame(State, State') /\ started' = started
        /\ task = 0
    BY <1>1, <1>8, RunCarries DEF RunCallback, LoopInv, Running
  <2>2. Known(State, Resume(t))
    BY <1>2, <1>3, <1>4, <2>1 DEF AllWait, Awaiting
  <2>3. Head(ready) # Resume(t)
    <3>1. \A u : Resume(t) = Resume(u) => t = u
      BY DEF Resume
    <3> QED BY <1>1, <1>4, <1>8, <3>1, RunCarries
  <2>4. Known(Popped, Resume(t))
    BY <1>1, <2>1, <2>2, <2>3, PoppedKnows
  <2> QED BY <2>1, <2>4 DEF Carries
<1>9. CASE Return
  <2>1. /\ task \in Tasks /\ Carries(State, State') /\ started' = started /\ futs'[task].answer # "none"
        /\ \A u \in Tasks : u # task => futs'[u].answer = futs[u].answer
    BY <1>1, <1>9, ReturnFinishes DEF Return, Yield
  <2>2. t # task
    BY <1>4, <2>1 DEF Pending, Finished, State
  <2>3. Awaiting(t)
    BY <1>4, <2>1, <2>2 DEF Awaiting, Pending, Finished, State
  <2> QED BY <2>1, <2>3 DEF AllWait, Carries
<1>10. \A u : t # u => Resume(t) # Resume(u)
  BY DEF Resume
<1>11. CASE Await
  <2>1. Joins(State, State', Resume(task), op[task]) /\ TasksSame(State, State') /\ started' = started
    BY <1>1, <1>11, AwaitJoins DEF Await, Yield
  <2>2. CASE t = task
    BY <2>1, <2>2, Joined
  <2>3. CASE t # task
    <3>1. Known(State, Resume(t))
      BY <1>2, <1>4, <2>1, <2>3 DEF AllWait, Awaiting
    <3> QED BY <1>10, <2>1, <2>3, <3>1, Joined
  <2> QED BY <2>2, <2>3
<1>12. CASE \E ms \in Delays : WithTimeout(ms)
  <2>1. PICK ms \in Delays : WithTimeout(ms)
    BY <1>12
  <2>2. PICK c : /\ Joins(c, State', Resume(task), Len(futs) + 1)
                 /\ \A u, g, i : Waits(c, Resume(u), g, i) <=> Waits(State, Resume(u), g, i) /\ g # op[task]
    BY <1>1, <2>1, WithTimeoutJoins
  <2>3. /\ TasksSame(State, State') /\ started' = started /\ task \in Tasks
        /\ op[task] \in 1 .. Len(futs) /\ op[task] # 0
    BY <1>1, <2>1, WithTimeoutJoins DEF WithTimeout, Yield
  <2>4. CASE t = task
    BY <2>2, <2>4, Joined
  <2>5. CASE t # task
    <3>1. Known(State, Resume(t))
      BY <1>2, <1>4, <2>3, <2>5 DEF AllWait, Awaiting
    <3>2. PICK g, i : Waits(State, Resume(t), g, i)
      BY <3>1 DEF Known
    <3>3. g # op[task]
      BY <2>3, <2>5, <3>2 DEF HomeInv, Unshared
    <3>4. Known(c, Resume(t))
      BY <2>2, <3>2, <3>3 DEF Known
    <3> QED BY <1>10, <2>2, <2>5, <3>4, Joined
  <2> QED BY <2>4, <2>5
<1> QED BY <1>6, <1>7, <1>8, <1>9, <1>11, <1>12, Otherwise

LEMMA PlacesAre ==
  ASSUME DataInv, NEW t \in Tasks, Lone(State, Resume(t))
  PROVE  Cardinality(Places(t)) = IF Known(State, Resume(t)) THEN 1 ELSE 0
<1>1. PICK cb : cb = Resume(t)
  OBVIOUS
<1>2. /\ DOMAIN futs = 1 .. Len(futs) /\ DOMAIN ready = 1 .. Len(ready)
      /\ \A f \in 1 .. Len(futs) : DOMAIN futs[f].callbacks = 1 .. Len(futs[f].callbacks)
  <2>1. State.ready \in Seq(Call(Len(futs), Of("timeout"))) /\ Len(futs) \in Nat
    BY FutsTyped, Fields DEF DataInv
  <2>2. ready \in Seq(Call(Len(futs), Of("timeout")))
    BY <2>1 DEF State
  <2>3. \A f \in 1 .. Len(futs) : futs[f].callbacks \in Seq(Call(Len(futs), Of("timeout")))
    BY FutsTyped, MadeFields
  <2> QED BY <2>2, <2>3, FutsTyped, LenProperties
<1> DEFINE A(f) == {f} \X {i \in DOMAIN futs[f].callbacks : futs[f].callbacks[i] = Resume(t)}
           B == {0} \X {i \in DOMAIN ready : ready[i] = Resume(t)}
<1>3. PICK Q : Q = Places(t) /\ \A p : p \in Q <=> (\E f \in DOMAIN futs : p \in A(f)) \/ p \in B
  <2>1. ASSUME NEW p PROVE p \in Places(t) <=> (\E f \in DOMAIN futs : p \in A(f)) \/ p \in B
    <3>1. p \in Places(t) <=> p \in PlacesHeld(t) \/ p \in B
      BY DEF Places
    <3>2. p \in PlacesHeld(t) <=> p \in UNION {A(f) : f \in DOMAIN futs}
      BY DEF PlacesHeld
    <3> HIDE DEF A, B
    <3>3. p \in UNION {A(f) : f \in DOMAIN futs} <=> \E f \in DOMAIN futs : p \in A(f)
      BY Zenon
    <3> QED BY <3>1, <3>2, <3>3
  <2> HIDE DEF A, B
  <2>2. PICK Q : Q = Places(t)
    OBVIOUS
  <2>3. \A p : p \in Q <=> (\E f \in DOMAIN futs : p \in A(f)) \/ p \in B
    BY <2>1, <2>2
  <2> QED BY <2>2, <2>3, Zenon
<1>4. ASSUME NEW p \in Q PROVE \E f, i : p = <<f, i>> /\ Waits(State, cb, f, i)
  <2>1. CASE \E f \in DOMAIN futs : p \in A(f)
    <3>1. PICK f \in DOMAIN futs : p \in A(f)
      BY <2>1
    <3>2. PICK i : p = <<f, i>> /\ i \in DOMAIN futs[f].callbacks /\ futs[f].callbacks[i] = Resume(t)
      BY <3>1
    <3>3. Waits(State, cb, f, i)
      BY <1>1, <1>2, <3>2 DEF Waits, Has, State
    <3> QED BY <3>2, <3>3
  <2>2. CASE p \in B
    <3>1. PICK i : p = <<0, i>> /\ i \in DOMAIN ready /\ ready[i] = Resume(t)
      BY <2>2
    <3>2. Waits(State, cb, 0, i)
      BY <1>1, <1>2, <3>1 DEF Waits, Has, State
    <3> QED BY <3>1, <3>2
  <2> HIDE DEF A, B
  <2> QED BY <1>3, <2>1, <2>2
<1>5. ASSUME NEW f, NEW i, Waits(State, cb, f, i) PROVE <<f, i>> \in Q
  <2>1. CASE f \in 1 .. Len(futs) /\ Has(futs[f].callbacks, cb, i)
    <3>1. i \in {k \in DOMAIN futs[f].callbacks : futs[f].callbacks[k] = Resume(t)}
      BY <1>1, <1>2, <2>1 DEF Has
    <3>2. <<f, i>> \in A(f)
      BY <3>1
    <3> HIDE DEF A, B
    <3> QED BY <1>2, <1>3, <2>1, <3>2
  <2>2. CASE f = 0 /\ Has(ready, cb, i)
    <3>1. i \in {k \in DOMAIN ready : ready[k] = Resume(t)}
      BY <1>1, <1>2, <2>2 DEF Has
    <3>2. <<f, i>> \in B
      BY <2>2, <3>1
    <3> HIDE DEF A, B
    <3> QED BY <1>3, <3>2
  <2> QED BY <1>5, <2>1, <2>2 DEF Waits, State
<1> HIDE DEF A, B
<1>6. CASE Known(State, cb)
  <2>1. PICK f, i : Waits(State, cb, f, i)
    BY <1>6 DEF Known
  <2>2. Q = {<<f, i>>}
    BY <1>1, <1>4, <1>5, <2>1 DEF Lone
  <2> QED BY <1>1, <1>3, <1>6, <2>2, FS_Singleton
<1>7. CASE ~Known(State, cb)
  <2>1. Q = {}
    BY <1>4, <1>7 DEF Known
  <2> QED BY <1>1, <1>3, <1>7, <2>1, FS_EmptySet
<1> QED BY <1>6, <1>7

LEMMA WaitersInitially ==
  ASSUME Init
  PROVE  WaitersInv /\ HomeInv /\ AllWait /\ Unshared
<1>1. /\ futs = [t \in Tasks |-> Future("task", 0, 0)] /\ ready = << >> /\ task = 0 /\ started = 0
      /\ op = [t \in Tasks |-> 0]
  BY DEF Init
<1>2. Tasks = 1 .. NTasks /\ NTasks \in Nat
  BY ConstantsAssumption DEF Tasks
<1>3. Len(State.futs) = NTasks /\ State.futs = futs /\ State.ready = << >>
  BY <1>1, <1>2 DEF State
<1>4. \A t \in Tasks : futs[t].answer = "none" /\ futs[t].callbacks = << >>
  BY <1>1 DEF Future
<1>5. \A cb, i : ~Has(<< >>, cb, i)
  BY DEF Has
<1>6. \A cb, f, i : ~Waits(State, cb, f, i)
  BY <1>2, <1>3, <1>4, <1>5 DEF Waits
<1>7. \A cb : Lone(State, cb) /\ ~Known(State, cb)
  BY <1>6 DEF Lone, Known
<1>8. \A t \in Tasks : Pending(t) /\ ~(t <= 0)
  BY <1>2, <1>3, <1>4 DEF Pending, Finished
<1> QED BY <1>1, <1>6, <1>7, <1>8 DEF WaitersInv, HomeInv, AllWait, Unshared, Awaiting

ResumingInv == QueuesInv /\ WaitersInv /\ HomeInv

LEMMA ResumingStep ==
  ASSUME ResumingInv, [Next]_vars
  PROVE  ResumingInv'
<1>1. QueuesInv'
  BY QueuesStep DEF ResumingInv
<1> QED BY <1>1, WaitersKept, HomeKept DEF ResumingInv

LEMMA Resuming == Spec => []ResumingInv
<1>1. Init => ResumingInv
  BY QueuesInitially, WaitersInitially DEF ResumingInv
<1>2. ResumingInv /\ [Next]_vars => ResumingInv'
  BY ResumingStep
<1> QED BY <1>1, <1>2, PTL DEF Spec

(* A task has its callback in one place at most, and only while it waits:  *)
(* nobody is resumed twice for one await, after its end or before its      *)
(* start, whatever tasks do with the futures of others.                    *)
ResumedAtMostOnce ==
  \A t \in Tasks : Cardinality(Places(t)) = IF Known(State, Resume(t)) /\ Awaiting(t) THEN 1 ELSE 0

LEMMA AtMostOnceFollows ==
  ASSUME ResumingInv
  PROVE  ResumedAtMostOnce
BY PlacesAre DEF ResumingInv, QueuesInv, WaitersInv, ResumedAtMostOnce

THEOREM NobodyResumedTwice == Spec => []ResumedAtMostOnce
<1>1. ResumingInv => ResumedAtMostOnce
  BY AtMostOnceFollows
<1> QED BY <1>1, Resuming, PTL

LEMMA ResumedFollows ==
  ASSUME ResumingInv, AllWait
  PROVE  ResumedOnce
BY AtMostOnceFollows DEF AllWait, ResumingInv, WaitersInv, ResumedOnce, ResumedAtMostOnce, Awaiting

(* And it has it in exactly one place as long as no two tasks have the     *)
(* same latest operation: withTimeout sets the callback of the future it   *)
(* is given, and so forgets another task that awaits that future           *)
(* (asyncfutures.nim:272).                                                 *)
THEOREM EveryoneResumed == Spec /\ []Unshared => []ResumedOnce
<1>1. Init => AllWait
  BY WaitersInitially
<1>2. ResumingInv /\ ResumingInv' /\ Unshared /\ AllWait /\ [Next]_vars => AllWait'
  BY AllWaitKept DEF ResumingInv
<1>3. ResumingInv /\ AllWait => ResumedOnce
  BY ResumedFollows
<1> QED BY <1>1, <1>2, <1>3, Resuming, PTL DEF Spec

LEMMA UnsharedKept ==
  ASSUME NTasks <= 2, ResumingInv, Unshared, [Next]_vars
  PROVE  Unshared'
<1>1. /\ op \in [Tasks -> 0 .. Len(futs)] /\ NTasks \in Nat /\ Len(futs) \in Nat /\ Len(futs) >= NTasks
      /\ (op' = op \/ Chooses) /\ \A t \in Tasks : t \in 1 .. NTasks /\ op[t] \in 0 .. Len(futs)
  BY OpsMove, FutsTyped DEF ResumingInv, QueuesInv, DataInv, Tasks
<1>2. CASE op' = op
  BY <1>2 DEF Unshared
<1>3. CASE Chooses
  <2>1. PICK g : /\ op' = [op EXCEPT ![task] = g]
                 /\ \/ g = Len(futs) + 1
                    \/ g \in Tasks /\ g < task
    BY <1>3 DEF Chooses
  <2>2. task \in Tasks
    BY <1>3, AtTask DEF Chooses, ResumingInv, QueuesInv
  <2>3. op'[task] = g /\ \A t \in Tasks : t # task => op'[t] = op[t]
    BY <1>1, <2>1, <2>2
  <2>4. \A t \in Tasks : t # task => op[t] # g
    <3>1. CASE g = Len(futs) + 1
      BY <1>1, <3>1
    <3>2. CASE g \in Tasks /\ g < task
      <4>1. g = 1 /\ task = 2 /\ \A t \in Tasks : t # task => t = 1
        BY <1>1, <2>2, <3>2
      <4>2. op[1] # 1
        BY <1>1, <2>2, <3>2, <4>1 DEF ResumingInv, HomeInv
      <4> QED BY <4>1, <4>2
    <3> QED BY <2>1, <3>1, <3>2
  <2> QED BY <2>3, <2>4 DEF Unshared
<1> QED BY <1>1, <1>2, <1>3

(* Two tasks cannot: the first has nobody whose future it could await.     *)
LEMMA NeverShared ==
  ASSUME NTasks <= 2
  PROVE  Spec => []Unshared
<1>1. Init => Unshared
  BY WaitersInitially
<1>2. ResumingInv /\ Unshared /\ [Next]_vars => Unshared'
  BY UnsharedKept
<1> QED BY <1>1, <1>2, Resuming, PTL DEF Spec

(* So two tasks are resumed whatever they await.                           *)
THEOREM TwoTasksResumed ==
  ASSUME NTasks <= 2
  PROVE  Spec => []ResumedOnce
BY NeverShared, EveryoneResumed, PTL

(***************************************************************************)
(* A future finishes once.  What asks for a future's end is called after   *)
(* it, and of the two that may answer a timeout first the one whose future *)
(* has finished first.                                                     *)
(***************************************************************************)
(* f finished before g, and both have.                                     *)
Earlier(s, f, g) == \E i, j : i < j /\ Has(s.order, f, i) /\ Has(s.order, g, j)
(* order has the finished futures, each once.                              *)
Once(s) ==
  /\ \A f, i, j : Has(s.order, f, i) /\ Has(s.order, f, j) => i = j
  /\ \A f \in 1 .. Len(s.futs) : Finished(s, f) <=> \E i : Has(s.order, f, i)

(* The two callbacks that answer a timeout, and what each is about.        *)
Asks(cb) == cb.kind # "resume"
Trigger(cb) == IF cb.kind = "first" THEN cb.of ELSE cb.ret + 1
IsTimeout(s, r) == r \in 1 .. Len(s.futs) /\ s.futs[r].kind = "timeout"
Comes(s, r) == [kind |-> "first", of |-> s.futs[r].of, ret |-> r]

(* The future of a timeout is older than it, and the sleep is the next one.*)
Pairs(s) ==
  \A r : IsTimeout(s, r) => /\ r + 1 \in 1 .. Len(s.futs) /\ s.futs[r + 1].kind = "sleep"
                            /\ s.futs[r].of \in 1 .. Len(s.futs) /\ s.futs[r].of < r
                            /\ s.futs[s.futs[r].of].kind # "timeout"
(* Callbacks wait for their future, or are ready as it has finished.       *)
Placed(s) ==
  /\ \A f \in 1 .. Len(s.futs) : Finished(s, f) => \A cb, i : ~Waits(s, cb, f, i)
  /\ \A cb, g, i : Asks(cb) /\ Waits(s, cb, g, i) =>
       /\ IsTimeout(s, cb.ret) /\ (cb = Comes(s, cb.ret) \/ cb = Elapses(cb.ret))
       /\ IF g = 0 THEN Finished(s, Trigger(cb)) ELSE g = Trigger(cb)
(* The first of the two to have finished is called first.                  *)
InTurn(s) ==
  \A x, y, i, j : /\ Asks(x) /\ Asks(y) /\ x.ret = y.ret /\ Waits(s, x, 0, i) /\ Waits(s, y, 0, j)
                  /\ Earlier(s, Trigger(x), Trigger(y))
                  => i < j
Scheduled(s) == Once(s) /\ Pairs(s) /\ Placed(s) /\ InTurn(s)

(* The sleep of a timeout is always heard, so that a timeout is answered,  *)
(* and never with "true" if the sleep has ended first.                     *)
Expires(s, r) ==
  IF ~Finished(s, r) THEN Known(s, Elapses(r))
  ELSE IF s.futs[r].answer = "false" THEN Finished(s, r + 1)
  ELSE Finished(s, s.futs[r].of) /\ ~Earlier(s, r + 1, s.futs[r].of)

(* The future is heard, and so the answer is not "false" if it was first.  *)
Listens(s, r) ==
  IF ~Finished(s, r) THEN Known(s, Comes(s, r))
  ELSE s.futs[r].answer = "false" => ~Earlier(s, s.futs[r].of, r + 1)
AllExpire(s) == \A r : IsTimeout(s, r) => Expires(s, r)
AllListen(s) == \A r : IsTimeout(s, r) => Listens(s, r)

LEMMA FinishOrder ==
  ASSUME NEW n \in Nat, NEW T, NEW s \in States(n, T), NEW f \in 1 .. n, NEW a,
         NEW r, Finishes(n, T, s, f, a, r), Once(s), ~Finished(s, f)
  PROVE  /\ \E k \in Nat :
              /\ \A x, i : Has(r.order, x, i) <=> Has(s.order, x, i) \/ (x = f /\ i = k)
              /\ \A x, i : Has(s.order, x, i) => x # f /\ i \in Nat /\ i < k
         /\ \A x, y : Earlier(r, x, y) => Earlier(s, x, y) \/ y = f
         /\ \A y : ~Earlier(r, f, y)
         /\ \A x, i : Has(s.order, x, i) => x \in 1 .. n
<1>1. s.order \in Seq(1 .. n) /\ r.order = Append(s.order, f) /\ Len(s.order) \in Nat /\ Len(s.futs) = n
  <2>1. s.order \in Seq(1 .. n) /\ Len(s.futs) = n
    BY Fields
  <2> QED BY <2>1, LenProperties DEF Finishes
<1>2. ASSUME NEW x, NEW i
      PROVE  Has(r.order, x, i) <=> Has(s.order, x, i) \/ (x = f /\ i = Len(s.order) + 1)
  <2>1. PICK S, o : S = 1 .. n /\ o = s.order /\ o \in Seq(S) /\ f \in S
    BY <1>1
  <2>2. Has(Append(o, f), x, i) <=> Has(o, x, i) \/ (x = f /\ i = Len(o) + 1)
    BY <2>1, AppendHas
  <2> QED BY <1>1, <2>1, <2>2
<1>3. \A x, i : Has(s.order, x, i) => i \in Nat /\ i < Len(s.order) + 1
  BY <1>1 DEF Has
<1>4. \A i : ~Has(s.order, f, i)
  BY <1>1 DEF Once
<1>5. ASSUME NEW x, NEW y, Earlier(r, x, y) PROVE x # f /\ (Earlier(s, x, y) \/ y = f)
  <2>1. PICK i, j : i < j /\ Has(r.order, x, i) /\ Has(r.order, y, j)
    BY <1>5 DEF Earlier
  <2>2. j \in Nat /\ j <= Len(s.order) + 1
    BY <1>1, <1>2, <1>3, <2>1
  <2>3. Has(s.order, x, i)
    BY <1>1, <1>2, <2>1, <2>2
  <2>4. x # f
    BY <1>4, <2>3
  <2>5. Has(s.order, y, j) \/ y = f
    BY <1>2, <2>1
  <2> QED BY <2>1, <2>3, <2>4, <2>5 DEF Earlier
<1>6. \A x, i : Has(s.order, x, i) => x \in 1 .. n
  BY <1>1, ElementOfSeq DEF Has
<1>7. PICK k \in Nat : k = Len(s.order) + 1
  BY <1>1
<1>8. /\ \A x, i : Has(r.order, x, i) <=> Has(s.order, x, i) \/ (x = f /\ i = k)
      /\ \A x, i : Has(s.order, x, i) => x # f /\ i \in Nat /\ i < k
  BY <1>2, <1>3, <1>4, <1>7
<1>9. \A x, y : Earlier(r, x, y) => x # f /\ (Earlier(s, x, y) \/ y = f)
  BY <1>5
<1> QED BY <1>6, <1>8, <1>9

(* The end of a future keeps the schedule.                                 *)
LEMMA FinishScheduled ==
  ASSUME NEW n \in Nat, NEW T, NEW s \in States(n, T), NEW f \in 1 .. n, NEW a, a # "none",
         NEW r, Finishes(n, T, s, f, a, r), Scheduled(s), ~Finished(s, f)
  PROVE  Scheduled(r)
<1>1. /\ Len(s.futs) = n /\ Len(r.futs) = n
      /\ \A g \in 1 .. n : r.futs[g].kind = s.futs[g].kind /\ r.futs[g].of = s.futs[g].of
      /\ \A g \in 1 .. n : Finished(r, g) <=> Finished(s, g) \/ g = f
  <2>1. Len(s.futs) = n /\ Len(r.futs) = n /\ r.futs[f].answer = a
    BY Fields DEF Finishes
  <2>2. /\ \A g \in 1 .. n : r.futs[g].kind = s.futs[g].kind /\ r.futs[g].of = s.futs[g].of
        /\ \A g \in 1 .. n : g # f => r.futs[g] = s.futs[g]
    BY DEF Finishes, Same
  <2> QED BY <2>1, <2>2 DEF Finished
<1>2. PICK m \in Nat :
        /\ m = Len(s.ready) /\ \A cb, g, i : Waits(s, cb, g, i) => i \in Nat
        /\ \A cb, i : Waits(s, cb, 0, i) => i <= m
        /\ \A cb, g, i : Waits(r, cb, g, i) <=>
             \/ g # f /\ Waits(s, cb, g, i)
             \/ g = 0 /\ i - m \in Nat \ {0} /\ i \in Nat /\ Waits(s, cb, f, i - m)
  BY FinishWaits
<1>3. \A g : IsTimeout(r, g) <=> IsTimeout(s, g)
  BY <1>1 DEF IsTimeout
<1>4. Once(r)
  <2>0. Once(s)
    BY DEF Scheduled
  <2>1. PICK k \in Nat : /\ \A x, i : Has(r.order, x, i) <=> Has(s.order, x, i) \/ (x = f /\ i = k)
                         /\ \A x, i : Has(s.order, x, i) => x # f /\ i \in Nat /\ i < k
    BY <2>0, FinishOrder
  <2>2. \A g, i, j : Has(r.order, g, i) /\ Has(r.order, g, j) => i = j
    BY <2>0, <2>1 DEF Once
  <2>3. ASSUME NEW g \in 1 .. n PROVE Finished(r, g) <=> \E i : Has(r.order, g, i)
    <3>1. Finished(s, g) <=> \E i : Has(s.order, g, i)
      BY <1>1, <2>0 DEF Once
    <3>2. g = f => Has(r.order, g, k)
      BY <2>1
    <3> QED BY <1>1, <2>1, <3>1, <3>2
  <2> QED BY <1>1, <2>2, <2>3 DEF Once
<1>5. Pairs(r)
  <2> SUFFICES ASSUME NEW g, IsTimeout(r, g)
               PROVE  /\ g + 1 \in 1 .. Len(r.futs) /\ r.futs[g + 1].kind = "sleep"
                      /\ r.futs[g].of \in 1 .. Len(r.futs) /\ r.futs[g].of < g
                      /\ r.futs[r.futs[g].of].kind # "timeout"
    BY DEF Pairs
  <2>1. g \in 1 .. n /\ IsTimeout(s, g)
    BY <1>1, <1>3 DEF IsTimeout
  <2>2. /\ g + 1 \in 1 .. n /\ s.futs[g + 1].kind = "sleep"
        /\ s.futs[g].of \in 1 .. n /\ s.futs[g].of < g
        /\ s.futs[s.futs[g].of].kind # "timeout"
    BY <1>1, <2>1 DEF Pairs, Scheduled
  <2> HIDE DEF Finishes
  <2> QED BY <1>1, <2>1, <2>2
<1>6. ASSUME NEW cb, NEW i, Waits(s, cb, f, i), Asks(cb) PROVE Trigger(cb) = f
  BY <1>6 DEF Scheduled, Placed
<1>7. ASSUME NEW cb, Asks(cb), IsTimeout(s, cb.ret), cb = Comes(s, cb.ret) \/ cb = Elapses(cb.ret)
      PROVE  /\ Trigger(cb) \in 1 .. n
             /\ cb = Comes(r, cb.ret) \/ cb = Elapses(cb.ret)
  <2>1. cb.ret \in 1 .. n /\ cb.ret + 1 \in 1 .. n /\ s.futs[cb.ret].of \in 1 .. n
    BY <1>1, <1>7 DEF Scheduled, Pairs, IsTimeout
  <2>2. r.futs[cb.ret].of = s.futs[cb.ret].of
    BY <1>1, <2>1
  <2>3. CASE cb = Comes(s, cb.ret)
    <3>1. cb.kind = "first" /\ cb.of = s.futs[cb.ret].of
      BY <2>3 DEF Comes
    <3> QED BY <2>1, <2>2, <2>3, <3>1 DEF Trigger, Comes
  <2>4. CASE cb = Elapses(cb.ret)
    <3>1. cb.kind = "elapsed"
      BY <2>4 DEF Elapses
    <3> QED BY <2>1, <2>4, <3>1 DEF Trigger
  <2> QED BY <1>7, <2>3, <2>4
<1>8. Placed(r)
  <2>1. ASSUME NEW g \in 1 .. n, Finished(r, g), NEW cb, NEW i PROVE ~Waits(r, cb, g, i)
    <3>1. g = f \/ ~Waits(s, cb, g, i)
      BY <1>1, <2>1 DEF Scheduled, Placed
    <3> QED BY <1>2, <3>1
  <2>2. ASSUME NEW cb, NEW g, NEW i, Asks(cb), Waits(r, cb, g, i)
        PROVE  /\ IsTimeout(r, cb.ret) /\ (cb = Comes(r, cb.ret) \/ cb = Elapses(cb.ret))
               /\ IF g = 0 THEN Finished(r, Trigger(cb)) ELSE g = Trigger(cb)
    <3>1. CASE g # f /\ Waits(s, cb, g, i)
      <4>1. /\ IsTimeout(s, cb.ret) /\ (cb = Comes(s, cb.ret) \/ cb = Elapses(cb.ret))
            /\ IF g = 0 THEN Finished(s, Trigger(cb)) ELSE g = Trigger(cb)
        BY <2>2, <3>1 DEF Scheduled, Placed
      <4> QED BY <1>1, <1>3, <1>7, <2>2, <4>1
    <3>2. CASE g = 0 /\ Waits(s, cb, f, i - m)
      <4>1. /\ IsTimeout(s, cb.ret) /\ (cb = Comes(s, cb.ret) \/ cb = Elapses(cb.ret))
            /\ Trigger(cb) = f
        BY <1>6, <2>2, <3>2 DEF Scheduled, Placed
      <4> QED BY <1>1, <1>3, <1>7, <2>2, <3>2, <4>1
    <3> QED BY <1>2, <2>2, <3>1, <3>2
  <2> QED BY <1>1, <2>1, <2>2 DEF Placed
<1>9. ASSUME NEW x, NEW y, NEW i, NEW j, Asks(x), Asks(y), x.ret = y.ret,
             Waits(r, x, 0, i), Waits(r, y, 0, j), Earlier(r, Trigger(x), Trigger(y))
      PROVE  i < j
  <2>1. Trigger(x) # f
    BY <1>9, FinishOrder DEF Scheduled
  <2>2. Waits(s, x, 0, i)
    BY <1>2, <1>6, <1>9, <2>1
  <2>3. CASE Waits(s, y, 0, j)
    <3>1. Finished(s, Trigger(y))
      BY <1>9, <2>3 DEF Scheduled, Placed
    <3>2. Earlier(s, Trigger(x), Trigger(y))
      BY <1>9, <3>1, FinishOrder DEF Scheduled
    <3> QED BY <1>9, <2>2, <2>3, <3>2 DEF Scheduled, InTurn
  <2>4. CASE j - m \in Nat \ {0} /\ j \in Nat
    <3>1. i \in Nat /\ i <= m
      BY <1>2, <2>2
    <3> QED BY <2>4, <3>1
  <2> QED BY <1>2, <1>9, <2>3, <2>4
<1> QED BY <1>4, <1>5, <1>8, <1>9 DEF Scheduled, InTurn

(* What answers a timeout whose future does not finish stays right.        *)
LEMMA FinishExpires ==
  ASSUME NEW n \in Nat, NEW T, NEW s \in States(n, T), NEW f \in 1 .. n, NEW a, a # "none",
         NEW r, Finishes(n, T, s, f, a, r), Scheduled(s), ~Finished(s, f)
  PROVE  \A t : IsTimeout(s, t) /\ t # f /\ Expires(s, t) =>
           IsTimeout(r, t) /\ Expires(r, t) /\ (Listens(s, t) => Listens(r, t))
<1> SUFFICES ASSUME NEW t, IsTimeout(s, t), t # f, Expires(s, t)
             PROVE  IsTimeout(r, t) /\ Expires(r, t) /\ (Listens(s, t) => Listens(r, t))
  OBVIOUS
<1>1. /\ Len(s.futs) = n /\ Len(r.futs) = n
      /\ \A g \in 1 .. n : r.futs[g].kind = s.futs[g].kind /\ r.futs[g].of = s.futs[g].of
      /\ \A g \in 1 .. n : g # f => r.futs[g].answer = s.futs[g].answer
      /\ \A g \in 1 .. n : Finished(r, g) <=> Finished(s, g) \/ g = f
  <2>1. Len(s.futs) = n /\ Len(r.futs) = n /\ r.futs[f].answer = a
    BY Fields DEF Finishes
  <2>2. /\ \A g \in 1 .. n : r.futs[g].kind = s.futs[g].kind /\ r.futs[g].of = s.futs[g].of
        /\ \A g \in 1 .. n : g # f => r.futs[g] = s.futs[g]
    BY DEF Finishes, Same
  <2> QED BY <2>1, <2>2 DEF Finished
<1>2. /\ t \in 1 .. n /\ t + 1 \in 1 .. n /\ s.futs[t].of \in 1 .. n /\ IsTimeout(r, t)
  BY <1>1 DEF Scheduled, Pairs, IsTimeout
<1>3. PICK g \in 1 .. n : g = s.futs[t].of
  BY <1>2
<1>4. PICK e \in 1 .. n : e = t + 1
  BY <1>2
<1>5. /\ r.futs[t].of = g /\ r.futs[t].answer = s.futs[t].answer /\ (Finished(r, t) <=> Finished(s, t))
      /\ Comes(r, t) = Comes(s, t)
  BY <1>1, <1>2, <1>3 DEF Comes
<1>6. \A cb : Known(s, cb) => Known(r, cb)
  BY FinishCarries DEF Carries
<1>7. \A x, y : Earlier(r, x, y) => Earlier(s, x, y) \/ y = f
  BY FinishOrder DEF Scheduled
<1>8. Expires(r, t)
  <2>1. CASE ~Finished(s, t)
    BY <1>5, <1>6, <2>1 DEF Expires
  <2>2. CASE Finished(s, t) /\ s.futs[t].answer = "false"
    <3>1. Finished(s, e)
      BY <1>4, <2>2 DEF Expires
    <3> QED BY <1>1, <1>4, <1>5, <2>2, <3>1 DEF Expires
  <2>3. CASE Finished(s, t) /\ s.futs[t].answer # "false"
    <3>1. Finished(s, g) /\ ~Earlier(s, e, g)
      BY <1>3, <1>4, <2>3 DEF Expires
    <3>2. Finished(r, g) /\ ~Earlier(r, e, g)
      BY <1>1, <1>7, <3>1
    <3> QED BY <1>4, <1>5, <2>3, <3>2 DEF Expires
  <2> QED BY <2>1, <2>2, <2>3
<1>9. ASSUME Listens(s, t) PROVE Listens(r, t)
  <2>1. CASE ~Finished(s, t)
    BY <1>5, <1>6, <1>9, <2>1 DEF Listens
  <2>2. CASE Finished(s, t) /\ s.futs[t].answer = "false"
    <3>1. Finished(s, e) /\ ~Earlier(s, g, e)
      BY <1>3, <1>4, <1>9, <2>2 DEF Expires, Listens
    <3>2. ~Earlier(r, g, e)
      BY <1>7, <3>1
    <3> QED BY <1>4, <1>5, <2>2, <3>2 DEF Listens
  <2>3. CASE Finished(s, t) /\ s.futs[t].answer # "false"
    BY <1>5, <2>3 DEF Listens
  <2> QED BY <2>1, <2>2, <2>3
<1> QED BY <1>2, <1>8, <1>9

(***************************************************************************)
(* The steps in which nothing finishes and nobody who answers a timeout is *)
(* added or forgotten.                                                     *)
(***************************************************************************)
Abides(s, r) ==
  /\ r.order = s.order /\ Len(s.futs) \in Nat /\ Len(r.futs) \in Nat /\ Len(s.futs) <= Len(r.futs)
  /\ \A g \in 1 .. Len(s.futs) : /\ r.futs[g].kind = s.futs[g].kind /\ r.futs[g].of = s.futs[g].of
                                 /\ r.futs[g].answer = s.futs[g].answer
  /\ \A g \in 1 .. Len(r.futs) : g \in 1 .. Len(s.futs) \/ (r.futs[g].kind # "timeout" /\ ~Finished(r, g))
  /\ \A f, i : Has(s.order, f, i) => f \in 1 .. Len(s.futs)
  /\ \A cb, g, i : Asks(cb) => (Waits(r, cb, g, i) <=> Waits(s, cb, g, i))
  /\ \A cb, g, i : g # 0 /\ Waits(r, cb, g, i) => Waits(s, cb, g, i) \/ ~Finished(r, g)

LEMMA AbidesKeeps ==
  ASSUME NEW s, NEW r, Abides(s, r), Scheduled(s)
  PROVE  /\ Scheduled(r)
         /\ \A t : IsTimeout(r, t) <=> IsTimeout(s, t)
         /\ \A t : IsTimeout(r, t) => /\ Expires(s, t) => Expires(r, t)
                                      /\ Listens(s, t) => Listens(r, t)
<1>1. \A t : IsTimeout(r, t) <=> IsTimeout(s, t)
  BY DEF Abides, IsTimeout
<1>2. PICK n \in Nat, m \in Nat : n = Len(s.futs) /\ m = Len(r.futs) /\ n <= m
  BY DEF Abides
<1>3. /\ \A g \in 1 .. n : /\ r.futs[g].kind = s.futs[g].kind /\ r.futs[g].of = s.futs[g].of
                           /\ (Finished(r, g) <=> Finished(s, g)) /\ g \in 1 .. m
                           /\ r.futs[g].answer = s.futs[g].answer
      /\ \A g \in 1 .. m : g \in 1 .. n \/ ~Finished(r, g)
  BY <1>2 DEF Abides, Finished
<1>4. \A f, g : Earlier(r, f, g) <=> Earlier(s, f, g)
  BY DEF Abides, Earlier
<1>5. Once(r)
  <2>1. \A f, i : Has(r.order, f, i) <=> Has(s.order, f, i)
    BY DEF Abides
  <2>2. ASSUME NEW f \in 1 .. m PROVE Finished(r, f) <=> \E i : Has(r.order, f, i)
    <3>1. CASE f \in 1 .. n
      BY <1>2, <1>3, <2>1, <3>1 DEF Scheduled, Once
    <3>2. CASE f \notin 1 .. n
      BY <1>2, <1>3, <2>1, <3>2 DEF Abides
    <3> QED BY <3>1, <3>2
  <2> QED BY <1>2, <2>1, <2>2 DEF Scheduled, Once
<1>6. ASSUME NEW t, IsTimeout(s, t)
      PROVE  /\ t \in 1 .. n /\ t + 1 \in 1 .. n /\ s.futs[t + 1].kind = "sleep"
             /\ s.futs[t].of \in 1 .. n /\ s.futs[t].of < t /\ s.futs[s.futs[t].of].kind # "timeout"
             /\ Comes(r, t) = Comes(s, t)
  <2>1. /\ t \in 1 .. n /\ t + 1 \in 1 .. n /\ s.futs[t + 1].kind = "sleep"
        /\ s.futs[t].of \in 1 .. n /\ s.futs[t].of < t /\ s.futs[s.futs[t].of].kind # "timeout"
    BY <1>2, <1>6 DEF Scheduled, Pairs, IsTimeout
  <2> QED BY <1>3, <2>1 DEF Comes
<1>7. Pairs(r)
  <2> SUFFICES ASSUME NEW t, IsTimeout(r, t)
               PROVE  /\ t + 1 \in 1 .. m /\ r.futs[t + 1].kind = "sleep"
                      /\ r.futs[t].of \in 1 .. m /\ r.futs[t].of < t
                      /\ r.futs[r.futs[t].of].kind # "timeout"
    BY <1>2 DEF Pairs
  <2>1. IsTimeout(s, t)
    BY <1>1
  <2> QED BY <1>3, <1>6, <2>1
<1>8. Placed(r)
  <2>1. ASSUME NEW g \in 1 .. m, Finished(r, g), NEW cb, NEW i PROVE ~Waits(r, cb, g, i)
    <3>1. g \in 1 .. n /\ Finished(s, g) /\ g # 0
      BY <1>3, <2>1
    <3>2. ~Waits(s, cb, g, i)
      BY <1>2, <3>1 DEF Scheduled, Placed
    <3> QED BY <2>1, <3>1, <3>2 DEF Abides
  <2>2. ASSUME NEW cb, NEW g, NEW i, Asks(cb), Waits(r, cb, g, i)
        PROVE  /\ IsTimeout(r, cb.ret) /\ (cb = Comes(r, cb.ret) \/ cb = Elapses(cb.ret))
               /\ IF g = 0 THEN Finished(r, Trigger(cb)) ELSE g = Trigger(cb)
    <3>1. Waits(s, cb, g, i)
      BY <2>2 DEF Abides
    <3>2. /\ IsTimeout(s, cb.ret) /\ (cb = Comes(s, cb.ret) \/ cb = Elapses(cb.ret))
          /\ IF g = 0 THEN Finished(s, Trigger(cb)) ELSE g = Trigger(cb)
      BY <2>2, <3>1 DEF Scheduled, Placed
    <3>3. Trigger(cb) \in 1 .. n
      <4>1. CASE cb = Comes(s, cb.ret)
        <5>1. cb.kind = "first" /\ cb.of = s.futs[cb.ret].of
          BY <4>1 DEF Comes
        <5> QED BY <1>6, <3>2, <5>1 DEF Trigger
      <4>2. CASE cb = Elapses(cb.ret)
        <5>1. cb.kind = "elapsed"
          BY <4>2 DEF Elapses
        <5> QED BY <1>6, <3>2, <5>1 DEF Trigger
      <4> QED BY <3>2, <4>1, <4>2
    <3> QED BY <1>1, <1>3, <1>6, <3>2, <3>3
  <2> QED BY <1>2, <2>1, <2>2 DEF Placed
<1>9. InTurn(r)
  <2> SUFFICES ASSUME NEW x, NEW y, NEW i, NEW j, Asks(x), Asks(y), x.ret = y.ret,
                      Waits(r, x, 0, i), Waits(r, y, 0, j), Earlier(r, Trigger(x), Trigger(y))
               PROVE  i < j
    BY DEF InTurn
  <2>1. Waits(s, x, 0, i) /\ Waits(s, y, 0, j)
    BY DEF Abides
  <2> QED BY <1>4, <2>1 DEF Scheduled, InTurn
<1>10. ASSUME NEW t, IsTimeout(r, t)
       PROVE  (Expires(s, t) => Expires(r, t)) /\ (Listens(s, t) => Listens(r, t))
  <2>1. IsTimeout(s, t)
    BY <1>1, <1>10
  <2>2. /\ r.futs[t].of = s.futs[t].of /\ r.futs[t].answer = s.futs[t].answer
        /\ Finished(r, t) <=> Finished(s, t)
        /\ Finished(r, t + 1) <=> Finished(s, t + 1)
        /\ Finished(r, s.futs[t].of) <=> Finished(s, s.futs[t].of)
    BY <1>3, <1>6, <2>1
  <2>3. \A cb : Asks(cb) /\ Known(s, cb) => Known(r, cb)
    BY DEF Abides, Known
  <2>4. Asks(Elapses(t)) /\ Asks(Comes(s, t)) /\ Comes(r, t) = Comes(s, t)
    BY <1>6, <2>1 DEF Asks, Elapses, Comes
  <2> QED BY <1>4, <2>2, <2>3, <2>4 DEF Expires, Listens
<1> QED BY <1>1, <1>5, <1>7, <1>8, <1>9, <1>10 DEF Scheduled

(***************************************************************************)
(* What a step, or several of them, keeps, as long as no timeout is made.  *)
(***************************************************************************)
Ages(s, r) ==
  /\ Len(s.futs) \in Nat /\ Len(r.futs) \in Nat /\ Len(s.futs) <= Len(r.futs)
  /\ \A g \in 1 .. Len(s.futs) : /\ r.futs[g].kind = s.futs[g].kind /\ r.futs[g].of = s.futs[g].of
                                 /\ Finished(s, g) => Finished(r, g)
  /\ \A cb, g, i : g # 0 /\ ~Finished(r, g) /\ Waits(s, cb, g, i) => Waits(r, cb, g, i)
  /\ \A t : IsTimeout(r, t) => IsTimeout(s, t)
Follows(s, r) == Ages(s, r) /\ Scheduled(r) /\ AllExpire(r) /\ (AllListen(s) => AllListen(r))
Spared(s, r, K) ==
  \A g \in 1 .. Len(s.futs) : s.futs[g].kind \notin K => r.futs[g].answer = s.futs[g].answer

LEMMA AgesOn ==
  ASSUME NEW s, NEW z, NEW r, Ages(s, z), Ages(z, r)
  PROVE  Ages(s, r)
<1>1. PICK k \in Nat, n \in Nat, m \in Nat :
        k = Len(s.futs) /\ n = Len(z.futs) /\ m = Len(r.futs) /\ k <= n /\ n <= m
  BY DEF Ages
<1>2. ASSUME NEW g \in 1 .. k
      PROVE  /\ r.futs[g].kind = s.futs[g].kind /\ r.futs[g].of = s.futs[g].of
             /\ Finished(s, g) => Finished(z, g)
             /\ Finished(z, g) => Finished(r, g)
  <2>1. g \in 1 .. n
    BY <1>1
  <2> QED BY <1>1, <2>1 DEF Ages
<1>3. ASSUME NEW cb, NEW g, NEW i, g # 0, ~Finished(r, g), Waits(s, cb, g, i) PROVE Waits(r, cb, g, i)
  <2>1. g \in 1 .. k
    BY <1>1, <1>3 DEF Waits
  <2>2. ~Finished(z, g)
    BY <1>2, <1>3, <2>1
  <2> QED BY <1>3, <2>2 DEF Ages
<1> QED BY <1>1, <1>2, <1>3 DEF Ages

LEMMA AbidesFollows ==
  ASSUME NEW s, NEW z, NEW r, Follows(s, z), Abides(z, r),
         \A cb, g, i : g # 0 /\ ~Finished(r, g) /\ Waits(z, cb, g, i) => Waits(r, cb, g, i)
  PROVE  Follows(s, r)
<1>1. /\ Scheduled(r)
      /\ \A t : IsTimeout(r, t) <=> IsTimeout(z, t)
      /\ \A t : IsTimeout(r, t) => /\ Expires(z, t) => Expires(r, t)
                                   /\ Listens(z, t) => Listens(r, t)
  BY AbidesKeeps DEF Follows
<1>2. Ages(z, r)
  BY <1>1 DEF Ages, Abides, Finished
<1>3. Ages(s, r)
  BY <1>2, AgesOn DEF Follows
<1> QED BY <1>1, <1>3 DEF Follows, AllExpire, AllListen

LEMMA FinishFollows ==
  ASSUME NEW s, NEW n \in Nat, NEW T, NEW z \in States(n, T), Follows(s, z), NEW f \in 1 .. n,
         NEW a, a # "none", NEW r, Finishes(n, T, z, f, a, r), ~Finished(z, f),
         z.futs[f].kind # "timeout"
  PROVE  Follows(s, r)
<1>1. Scheduled(r)
  BY FinishScheduled DEF Follows
<1>2. /\ Len(z.futs) = n /\ Len(r.futs) = n
      /\ \A g \in 1 .. n : r.futs[g].kind = z.futs[g].kind /\ r.futs[g].of = z.futs[g].of
      /\ \A g \in 1 .. n : Finished(r, g) <=> Finished(z, g) \/ g = f
  <2>1. Len(z.futs) = n /\ Len(r.futs) = n /\ r.futs[f].answer = a
    BY Fields DEF Finishes
  <2>2. /\ \A g \in 1 .. n : r.futs[g].kind = z.futs[g].kind /\ r.futs[g].of = z.futs[g].of
        /\ \A g \in 1 .. n : g # f => r.futs[g] = z.futs[g]
    BY DEF Finishes, Same
  <2> QED BY <2>1, <2>2 DEF Finished
<1>3. ASSUME NEW t, IsTimeout(r, t)
      PROVE  IsTimeout(z, t) /\ Expires(r, t) /\ (Listens(z, t) => Listens(r, t))
  <2>1. IsTimeout(z, t) /\ t # f
    BY <1>2, <1>3 DEF IsTimeout
  <2>2. Scheduled(z) /\ Expires(z, t)
    BY <2>1 DEF Follows, AllExpire
  <2>3. \A u : IsTimeout(z, u) /\ u # f /\ Expires(z, u) =>
               IsTimeout(r, u) /\ Expires(r, u) /\ (Listens(z, u) => Listens(r, u))
    BY <2>2, FinishExpires
  <2> QED BY <2>1, <2>2, <2>3
<1>4. \A cb, g, i : g # 0 /\ ~Finished(r, g) /\ Waits(z, cb, g, i) => Waits(r, cb, g, i)
  <2> SUFFICES ASSUME NEW cb, NEW g, NEW i, g # 0, ~Finished(r, g), Waits(z, cb, g, i)
               PROVE  Waits(r, cb, g, i)
    OBVIOUS
  <2>1. g # f
    BY <1>2
  <2> QED BY <2>1, FinishWaits
<1>5. Ages(z, r)
  BY <1>2, <1>3, <1>4 DEF Ages
<1>6. Ages(s, r)
  BY <1>5, AgesOn DEF Follows
<1> QED BY <1>1, <1>3, <1>6 DEF Follows, AllExpire, AllListen

LEMMA FollowsSelf ==
  ASSUME NEW s, Scheduled(s), AllExpire(s), Len(s.futs) \in Nat
  PROVE  Follows(s, s)
BY DEF Follows, Ages

Following(s, T, K) ==
  {z \in UNION {States(n, T) : n \in Nat} : Follows(s, z) /\ Spared(s, z, K)}

LEMMA FollowingLasts ==
  ASSUME NEW T, NEW s, NEW K
  PROVE  Lasting(Following(s, T, K), T)
<1> SUFFICES ASSUME NEW n \in Nat, NEW z \in Following(s, T, K), NEW r \in States(n, T),
                    z \in States(n, T), Still(z, r)
             PROVE  r \in Following(s, T, K)
  BY DEF Lasting
<1>1. Follows(s, z) /\ Spared(s, z, K)
  BY DEF Following
<1>2. /\ z.order \in Seq(1 .. n) /\ Len(z.futs) = n /\ Len(r.futs) = n
  BY Fields
<1>3. \A x, i : Has(z.order, x, i) => x \in 1 .. n
  BY <1>2, ElementOfSeq DEF Has
<1>4. \A cb, g, i : Waits(r, cb, g, i) <=> Waits(z, cb, g, i)
  BY DEF Still, Waits
<1>5. /\ \A g \in 1 .. n : /\ r.futs[g].kind = z.futs[g].kind /\ r.futs[g].of = z.futs[g].of
                           /\ r.futs[g].answer = z.futs[g].answer
      /\ r.order = z.order
  BY <1>2 DEF Still
<1>6. Abides(z, r)
  BY <1>2, <1>3, <1>4, <1>5 DEF Abides
<1>7. Follows(s, r)
  BY <1>1, <1>4, <1>6, AbidesFollows
<1>8. Spared(s, r, K)
  BY <1>1, <1>2, <1>5 DEF Spared, Follows, Ages
<1> QED BY <1>7, <1>8 DEF Following

LEMMA FollowingFinish ==
  ASSUME NEW T, NEW s, NEW K, "timeout" \notin K, NEW n \in Nat, NEW z \in Following(s, T, K),
         NEW f \in 1 .. n, NEW a \in Answers \ {"none"}, z \in States(n, T),
         z.futs[f].kind \in K, z.futs[f].answer = "none"
  PROVE  Finish(z, f, a) \in Following(s, T, K)
<1>1. PICK r : r = Finish(z, f, a)
  OBVIOUS
<1>2. Finishes(n, T, z, f, a, r)
  BY <1>1, FinishDoes
<1>3. Follows(s, z) /\ Spared(s, z, K)
  BY DEF Following
<1>4. Follows(s, r)
  <2> HIDE DEF Finishes
  <2> QED BY <1>2, <1>3, FinishFollows DEF Finished
<1>5. r \in States(n, T) /\ Len(z.futs) = n /\ \A g \in 1 .. n : g # f => r.futs[g] = z.futs[g]
  BY <1>2, Fields DEF Finishes
<1>6. Spared(s, r, K)
  <2>1. /\ Len(s.futs) \in Nat /\ Len(s.futs) <= n
        /\ \A g \in 1 .. Len(s.futs) : z.futs[g].kind = s.futs[g].kind
    BY <1>3, <1>5 DEF Follows, Ages
  <2> QED BY <1>3, <1>5, <2>1 DEF Spared
<1> QED BY <1>1, <1>4, <1>5, <1>6 DEF Following

LEMMA FollowingFinishes ==
  ASSUME NEW T, NEW s, NEW K, "timeout" \notin K
  PROVE  Finishing(Following(s, T, K), T, K)
BY FollowingFinish DEF Finishing

LEMMA FollowingMakes ==
  ASSUME NEW T, NEW s, NEW K, NEW L, "timeout" \notin L
  PROVE  Making(Following(s, T, K), T, L)
<1> SUFFICES ASSUME NEW n \in Nat, NEW z \in Following(s, T, K), NEW r \in States(n + 1, T), NEW x,
                    z \in States(n, T), Gains(z, x, r), x.kind \in L
             PROVE  r \in Following(s, T, K)
  BY DEF Making
<1>1. Follows(s, z) /\ Spared(s, z, K)
  BY DEF Following
<1>2. /\ z.order \in Seq(1 .. n) /\ Len(z.futs) = n /\ Len(r.futs) = n + 1
      /\ z.futs \in Seq(Made(n, T)) /\ r.order = z.order
  <2>1. r.order = z.order
    BY DEF Gains
  <2> QED BY <2>1, Fields
<1>3. \A y, i : Has(z.order, y, i) => y \in 1 .. n
  BY <1>2, ElementOfSeq DEF Has
<1>4. \A cb, g, i : Waits(r, cb, g, i) <=> Waits(z, cb, g, i)
  BY <1>2, NewWaits DEF Gains
<1>5. (\A g \in 1 .. n : r.futs[g] = z.futs[g]) /\ r.futs[n + 1] = x
  BY <1>2, AppendProperties DEF Gains
<1>6. ASSUME NEW g \in 1 .. n + 1, g \notin 1 .. n PROVE r.futs[g].kind # "timeout" /\ ~Finished(r, g)
  <2>1. g = n + 1
    BY <1>6
  <2>2. x.kind # "timeout" /\ x.answer = "none"
    BY DEF Gains
  <2> QED BY <1>5, <2>1, <2>2 DEF Finished
<1>7. Abides(z, r)
  BY <1>2, <1>3, <1>4, <1>5, <1>6 DEF Abides
<1>8. Follows(s, r)
  BY <1>1, <1>4, <1>7, AbidesFollows
<1>9. Spared(s, r, K)
  <2>1. Len(s.futs) \in Nat /\ Len(s.futs) <= n
    BY <1>1, <1>2 DEF Follows, Ages
  <2> QED BY <1>1, <1>5, <2>1 DEF Spared
<1> QED BY <1>8, <1>9 DEF Following

(***************************************************************************)
(* The timers are those of the sleeps that have not ended, each once.      *)
(***************************************************************************)
TimersInv ==
  /\ \A i \in 1 .. Len(timers) : Pending(timers[i].fut)
  /\ \A i, j \in 1 .. Len(timers) : timers[i].fut = timers[j].fut => i = j
  /\ \A f \in 1 .. Len(futs) : futs[f].kind = "sleep" /\ Pending(f)
                                 => \E i \in 1 .. Len(timers) : timers[i].fut = f
ScheduleInv == Scheduled(State) /\ AllExpire(State)

LEMMA FollowingNow ==
  ASSUME DataInv, ScheduleInv, NEW K
  PROVE  State \in Following(State, Of("timeout"), K)
<1>1. Len(futs) \in Nat /\ State \in States(Len(futs), Of("timeout")) /\ Len(State.futs) = Len(futs)
  BY FutsTyped, Fields DEF DataInv
<1>2. Follows(State, State)
  BY <1>1, FollowsSelf DEF ScheduleInv
<1> QED BY <1>1, <1>2 DEF Following, Spared

LEMMA PlainFollows ==
  ASSUME QueuesInv, QueuesInv', Plain, ScheduleInv
  PROVE  Follows(State, State') /\ Spared(State, State', IoKinds)
<1>1. PICK T, P : T = Of("timeout") /\ P = Following(State, T, IoKinds)
  OBVIOUS
<1>2. State \in P
  BY <1>1, FollowingNow DEF QueuesInv
<1>3. Lasting(P, T) /\ Finishing(P, T, IoKinds) /\ Making(P, T, IoKinds \cup {"sleep"})
  BY <1>1, FollowingLasts, FollowingFinishes, FollowingMakes DEF IoKinds
<1>4. State' \in P
  BY <1>1, <1>2, <1>3, PlainKeeps
<1> QED BY <1>1, <1>4 DEF Following

LEMMA ExpiredFollows ==
  ASSUME DataInv, ScheduleInv, TimersInv, processTimers
  PROVE  Follows(State, State') /\ Spared(State, State', {"sleep"})
<1> DEFINE n == Len(futs)
           T == Of("timeout")
           F == Of("sleep")
           P == Following(State, T, {"sleep"})
           list == [i \in 1 .. Len(timers) |-> timers[i].fut]
           r == Expired
<1>1. n \in Nat /\ F \in SUBSET (1 .. n) /\ timers \in Seq([fut : F, left : Nat]) /\ State \in States(n, T)
  BY FutsTyped DEF DataInv, Of, Timer
<1>2. /\ Len(timers) \in Nat /\ Due \in 0 .. Len(timers)
      /\ \A i \in 1 .. Len(timers) : timers[i] \in [fut : F, left : Nat]
  BY <1>1, DueIs, LenProperties, ElementOfSeq
<1>3. \A i \in 1 .. Due : list[i] \in F
  BY <1>2
<1>4. \A f \in F : f \in 1 .. n /\ State.futs[f].kind = "sleep"
  BY DEF Of, State
<1>5. \A i \in 1 .. Due : State.futs[list[i]].answer = "none" /\ \A j \in 1 .. i - 1 : list[j] # list[i]
  <2> SUFFICES ASSUME NEW i \in 1 .. Due
               PROVE  State.futs[list[i]].answer = "none" /\ \A j \in 1 .. i - 1 : list[j] # list[i]
    OBVIOUS
  <2>1. i \in 1 .. Len(timers) /\ \A j \in 1 .. i - 1 : j \in 1 .. Len(timers) /\ j # i
    BY <1>2
  <2> QED BY <2>1 DEF TimersInv, Pending, Finished
<1> HIDE DEF n, T, F, list, r
<1>6. State \in P
  BY FollowingNow DEF T
<1> HIDE DEF P
<1>7. \A i \in 1 .. Due, z \in P : Answer(n, T, State, i - 1, list, "done", z) => Finish(z, list[i], "done") \in P
  <2> SUFFICES ASSUME NEW i \in 1 .. Due, NEW z \in P, Answer(n, T, State, i - 1, list, "done", z)
               PROVE  Finish(z, list[i], "done") \in P
    OBVIOUS
  <2>1. PICK f \in 1 .. n : f = list[i] /\ State.futs[f].kind = "sleep"
    BY <1>3, <1>4
  <2>2. /\ z \in States(n, T) /\ z.futs[f].kind = "sleep" /\ z.futs[f].answer = "none"
        /\ "done" \in Answers \ {"none"}
    BY <1>5, <2>1 DEF Answer, Answers
  <2>3. Finish(z, f, "done") \in Following(State, T, {"sleep"})
    BY <1>1, <2>2, FollowingFinish DEF P
  <2> QED BY <2>1, <2>3 DEF P
<1>8. r \in P
  BY <1>1, <1>6, <1>7, ExpiredKeeps DEF list, r
<1>9. State' = r
  <2>1. Becomes(Expired)
    BY DEF processTimers
  <2>2. /\ r.futs = futs' /\ r.ready = ready' /\ r.order = order' /\ r.fds = fds'
        /\ r.inbox = inbox' /\ r.room = room'
    BY <2>1 DEF Becomes, r
  <2>3. \E m \in Nat : r \in States(m, T)
    BY <1>8 DEF P, Following
  <2> QED BY <2>2, <2>3 DEF State, States
<1> QED BY <1>8, <1>9 DEF P, Following

LEMMA AwaitFollows ==
  ASSUME DataInv, LoopInv, Await, ScheduleInv
  PROVE  Follows(State, State') /\ Spared(State, State', {}) /\ Len(futs)' = Len(futs)
<1>1. op[task] \in 1 .. Len(futs) /\ task \in Tasks /\ Len(futs) \in Nat
  BY AtTask, FutsTyped DEF Await
<1>2. Resume(task) \in Call(Len(futs), Of("timeout"))
  BY <1>1 DEF Resume, Call
<1> DEFINE r == addCallback(State, op[task], Resume(task))
<1>3. State \in States(Len(futs), Of("timeout")) /\ ~Finished(State, op[task]) /\ Becomes(r)
  BY DEF DataInv, Await
<1>4. Hears(Len(futs), Of("timeout"), State, r)
  BY <1>1, <1>2, <1>3, addCallbackDoes
<1>5. Joins(State, r, Resume(task), op[task])
  BY <1>1, <1>2, <1>3, addCallbackJoins
<1> HIDE DEF r
<1>6. Became(Len(futs), r, {})
  BY <1>3, <1>4, HearsQuiet
<1>7. PICK n \in Nat : n = Len(futs) /\ n = Len(State.futs) /\ n = Len(r.futs)
  BY <1>1, <1>3, <1>4, Fields DEF Hears
<1>8. \A x, i : Has(State.order, x, i) => x \in 1 .. n
  <2>1. State.order \in Seq(1 .. n)
    BY <1>3, <1>7, Fields
  <2> QED BY <2>1, ElementOfSeq DEF Has
<1>9. PICK e, k : e \in {0, op[task]} /\ (e = 0 <=> Finished(State, op[task])) /\ JoinsAt(State, r, Resume(task), e, k)
  BY <1>5 DEF Joins
<1>10. ~Asks(Resume(task)) /\ e = op[task]
  BY <1>3, <1>9 DEF Asks, Resume
<1>11. \A x, g, i : Waits(r, x, g, i) <=> Waits(State, x, g, i) \/ (x = Resume(task) /\ g = e /\ i = k)
  BY <1>9 DEF JoinsAt
<1>12. /\ \A g \in 1 .. n : /\ r.futs[g].kind = State.futs[g].kind /\ r.futs[g].of = State.futs[g].of
                            /\ r.futs[g].answer = State.futs[g].answer
       /\ r.order = State.order
  BY <1>4, <1>7 DEF Hears, Same
<1>13. ~Finished(r, e)
  BY <1>1, <1>3, <1>7, <1>10, <1>12 DEF Finished
<1>14. Abides(State, r)
  BY <1>7, <1>8, <1>10, <1>11, <1>12, <1>13 DEF Abides
<1>15. Follows(State, State)
  BY <1>7, FollowsSelf DEF ScheduleInv
<1>16. Follows(State, r)
  BY <1>11, <1>14, <1>15, AbidesFollows
<1>17. Spared(State, r, {})
  BY <1>7, <1>12 DEF Spared
<1> QED BY <1>6, <1>16, <1>17 DEF Became

LEMMA ReturnFollows ==
  ASSUME DataInv, LoopInv, Return, ScheduleInv, Pending(task)
  PROVE  Follows(State, State') /\ Spared(State, State', {"task"}) /\ Len(futs)' = Len(futs)
<1>1. /\ task \in 1 .. Len(futs) /\ State.futs[task].kind = "task" /\ Len(futs) \in Nat
      /\ State \in States(Len(futs), Of("timeout")) /\ State.futs[task].answer = "none"
  BY AtTask, FutsTyped DEF Return, DataInv, Pending, Finished, State
<1>2. PICK a \in Answers \ {"none"} : Becomes(Finish(State, task, a))
  <2>1. {"done", "failed"} \subseteq Answers \ {"none"}
    BY DEF Answers
  <2> QED BY <2>1 DEF Return
<1>3. PICK r : r = Finish(State, task, a)
  OBVIOUS
<1>4. Finishes(Len(futs), Of("timeout"), State, task, a, r)
  BY <1>1, <1>3, FinishDoes
<1>5. Became(Len(futs), r, {task})
  BY <1>2, <1>3, <1>4, BecomingSame DEF Finishes
<1>6. r \in Following(State, Of("timeout"), {"task"})
  BY <1>1, <1>3, FollowingNow, FollowingFinish
<1> QED BY <1>5, <1>6 DEF Became, Following

(* The callback that is called first leaves the queue.                     *)
LEMMA PoppedSchedules ==
  ASSUME DataInv, ready # << >>, ScheduleInv
  PROVE  /\ Scheduled(Popped) /\ Ages(State, Popped)
         /\ \A t : IsTimeout(Popped, t) <=> IsTimeout(State, t)
         /\ \A t : IsTimeout(State, t) =>
              /\ Head(ready) # Elapses(t) \/ Finished(State, t) => Expires(Popped, t)
              /\ Listens(State, t) /\ (Head(ready) # Comes(State, t) \/ Finished(State, t)) => Listens(Popped, t)
<1>1. /\ Popped.futs = State.futs /\ Popped.order = State.order /\ Len(State.futs) \in Nat
      /\ Popped.futs = futs /\ State.futs = futs
  BY FutsTyped DEF Popped, State
<1>2. \A cb, g, i : Waits(Popped, cb, g, i) <=> \/ g # 0 /\ Waits(State, cb, g, i)
                                                \/ g = 0 /\ i \in Nat \ {0} /\ Waits(State, cb, 0, i + 1)
  BY PoppedWaits
<1>3. \A cb : cb # Head(ready) => (Known(Popped, cb) <=> Known(State, cb))
  BY PoppedKnows
<1>4. /\ \A f : Finished(Popped, f) <=> Finished(State, f)
      /\ \A f, g : Earlier(Popped, f, g) <=> Earlier(State, f, g)
      /\ \A t : (IsTimeout(Popped, t) <=> IsTimeout(State, t)) /\ Comes(Popped, t) = Comes(State, t)
  BY <1>1 DEF Finished, Earlier, IsTimeout, Comes
<1>5. Once(Popped) /\ Pairs(Popped)
  <2>1. Once(State) /\ Pairs(State)
    BY DEF ScheduleInv, Scheduled
  <2>2. Once(Popped)
    BY <1>1, <1>4, <2>1 DEF Once
  <2>3. Pairs(Popped)
    BY <1>1, <1>4, <2>1 DEF Pairs
  <2> QED BY <2>2, <2>3
<1>6. Placed(Popped)
  <2>0. Placed(State)
    BY DEF ScheduleInv, Scheduled
  <2>1. ASSUME NEW g \in 1 .. Len(Popped.futs), Finished(Popped, g), NEW cb, NEW i PROVE ~Waits(Popped, cb, g, i)
    BY <1>1, <1>2, <1>4, <2>0, <2>1 DEF Placed
  <2>2. ASSUME NEW cb, NEW g, NEW i, Asks(cb), Waits(Popped, cb, g, i)
        PROVE  /\ IsTimeout(Popped, cb.ret) /\ (cb = Comes(Popped, cb.ret) \/ cb = Elapses(cb.ret))
               /\ IF g = 0 THEN Finished(Popped, Trigger(cb)) ELSE g = Trigger(cb)
    <3>1. \E j : Waits(State, cb, g, j)
      BY <1>2, <2>2
    <3>2. /\ IsTimeout(State, cb.ret) /\ (cb = Comes(State, cb.ret) \/ cb = Elapses(cb.ret))
          /\ IF g = 0 THEN Finished(State, Trigger(cb)) ELSE g = Trigger(cb)
      BY <2>0, <2>2, <3>1 DEF Placed
    <3> QED BY <1>4, <3>2
  <2> QED BY <2>1, <2>2 DEF Placed
<1>7. InTurn(Popped)
  <2> SUFFICES ASSUME NEW x, NEW y, NEW i, NEW j, Asks(x), Asks(y), x.ret = y.ret,
                      Waits(Popped, x, 0, i), Waits(Popped, y, 0, j), Earlier(Popped, Trigger(x), Trigger(y))
               PROVE  i < j
    BY DEF InTurn
  <2>1. i \in Nat /\ j \in Nat /\ Waits(State, x, 0, i + 1) /\ Waits(State, y, 0, j + 1)
    BY <1>2
  <2>2. i + 1 < j + 1
    BY <1>4, <2>1 DEF ScheduleInv, Scheduled, InTurn
  <2> QED BY <2>1, <2>2
<1>8. Ages(State, Popped)
  BY <1>1, <1>2, <1>4 DEF Ages
<1>9. ASSUME NEW t, IsTimeout(State, t)
      PROVE  /\ Head(ready) # Elapses(t) \/ Finished(State, t) => Expires(Popped, t)
             /\ Listens(State, t) /\ (Head(ready) # Comes(State, t) \/ Finished(State, t)) => Listens(Popped, t)
  <2>1. Expires(State, t)
    BY <1>9 DEF ScheduleInv, AllExpire
  <2> QED BY <1>1, <1>3, <1>4, <2>1 DEF Expires, Listens
<1> QED BY <1>4, <1>5, <1>6, <1>7, <1>8, <1>9 DEF Scheduled

(* Of the two that may answer a timeout the other is not before it.        *)
LEMMA HeadAnswers ==
  ASSUME DataInv, ready # << >>, ScheduleInv, NEW cb, cb = Head(ready), Asks(cb)
  PROVE  /\ IsTimeout(State, cb.ret) /\ (cb = Comes(State, cb.ret) \/ cb = Elapses(cb.ret))
         /\ Finished(State, Trigger(cb))
         /\ \A y : Asks(y) /\ y.ret = cb.ret /\ Known(State, y) => ~Earlier(State, Trigger(y), Trigger(cb))
<1>1. /\ State.ready \in Seq(Call(Len(futs), Of("timeout"))) /\ State.ready = ready /\ Len(State.futs) \in Nat
      /\ State.order \in Seq(1 .. Len(State.futs))
  <2>1. /\ State.ready \in Seq(Call(Len(futs), Of("timeout"))) /\ Len(State.futs) = Len(futs) /\ Len(futs) \in Nat
        /\ State.order \in Seq(1 .. Len(futs))
    BY FutsTyped, Fields DEF DataInv
  <2> QED BY <2>1 DEF State
<1>2. Len(ready) \in Nat \ {0} /\ Head(ready) = ready[1]
  BY <1>1, EmptySeq, LenProperties, HeadTailProperties
<1>3. Waits(State, cb, 0, 1)
  BY <1>1, <1>2 DEF Waits, Has
<1>4. /\ IsTimeout(State, cb.ret) /\ (cb = Comes(State, cb.ret) \/ cb = Elapses(cb.ret))
      /\ Finished(State, Trigger(cb))
  BY <1>3 DEF ScheduleInv, Scheduled, Placed
<1>5. ASSUME NEW y, Asks(y), y.ret = cb.ret, Known(State, y), Earlier(State, Trigger(y), Trigger(cb))
      PROVE  FALSE
  <2>1. PICK g, j : Waits(State, y, g, j)
    BY <1>5 DEF Known
  <2>2. CASE g = 0
    <3>1. j < 1
      BY <1>3, <1>5, <2>1, <2>2 DEF ScheduleInv, Scheduled, InTurn
    <3>2. j \in Nat \ {0}
      BY <1>1, <1>2, <2>1, <2>2 DEF Waits, Has
    <3> QED BY <3>1, <3>2
  <2>3. CASE g # 0
    <3>1. g = Trigger(y) /\ g \in 1 .. Len(State.futs)
      BY <1>5, <2>1, <2>3 DEF ScheduleInv, Scheduled, Placed, Waits
    <3>2. \E i : Has(State.order, g, i)
      BY <1>5, <3>1 DEF Earlier
    <3>3. Finished(State, g)
      BY <3>1, <3>2 DEF ScheduleInv, Scheduled, Once
    <3> QED BY <2>1, <3>1, <3>3 DEF ScheduleInv, Scheduled, Placed
  <2> QED BY <2>2, <2>3
<1> QED BY <1>4, <1>5

LEMMA AnswerFollows ==
  ASSUME DataInv, ready # << >>, ScheduleInv, NEW cb, cb = Head(ready), Asks(cb),
         ~Finished(State, cb.ret), NEW a \in Answers \ {"none"},
         IF cb.kind = "elapsed" THEN a = "false" ELSE a # "false",
         NEW r, Finishes(Len(futs), Of("timeout"), Popped, cb.ret, a, r)
  PROVE  Follows(State, r)
<1>1. PICK n, T : /\ n \in Nat /\ n = Len(futs) /\ T = Of("timeout") /\ Popped \in States(n, T)
                  /\ Popped.futs = State.futs /\ Popped.order = State.order /\ Len(State.futs) = n
  BY PoppedDoes, FutsTyped DEF Popped, State
<1>2. PICK t : t = cb.ret
  OBVIOUS
<1>3. /\ IsTimeout(State, t) /\ (cb = Comes(State, t) \/ cb = Elapses(t)) /\ Finished(State, Trigger(cb))
      /\ \A y : Asks(y) /\ y.ret = t /\ Known(State, y) => ~Earlier(State, Trigger(y), Trigger(cb))
  BY <1>2, HeadAnswers
<1>4. /\ t \in 1 .. n /\ State.futs[t].kind = "timeout"
      /\ t + 1 \in 1 .. n /\ State.futs[t].of \in 1 .. n /\ State.futs[t].of < t
  BY <1>1, <1>3 DEF IsTimeout, ScheduleInv, Scheduled, Pairs
<1>5. PICK g \in 1 .. n, e \in 1 .. n : g = State.futs[t].of /\ e = t + 1 /\ g # t /\ e # t
  BY <1>4
<1>6. Finishes(n, T, Popped, t, a, r) /\ ~Finished(Popped, t)
  BY <1>1, <1>2 DEF Finished
<1>7. /\ Scheduled(Popped) /\ Ages(State, Popped)
      /\ \A u : IsTimeout(Popped, u) <=> IsTimeout(State, u)
      /\ \A u : IsTimeout(State, u) =>
           /\ Head(ready) # Elapses(u) \/ Finished(State, u) => Expires(Popped, u)
           /\ Listens(State, u) /\ (Head(ready) # Comes(State, u) \/ Finished(State, u)) => Listens(Popped, u)
  BY PoppedSchedules
<1>8. Scheduled(r)
  BY <1>1, <1>4, <1>6, <1>7, FinishScheduled
<1>9. /\ Len(r.futs) = n /\ r.futs[t].answer = a
      /\ \A h \in 1 .. n : r.futs[h].kind = State.futs[h].kind /\ r.futs[h].of = State.futs[h].of
      /\ \A h \in 1 .. n : Finished(r, h) <=> Finished(State, h) \/ h = t
  <2>1. Len(r.futs) = n /\ r.futs[t].answer = a
    <3>1. r \in States(n, T) /\ r.futs[t].answer = a
      BY <1>6 DEF Finishes
    <3> QED BY <1>1, <3>1, Fields
  <2>2. /\ \A h \in 1 .. n : r.futs[h].kind = State.futs[h].kind /\ r.futs[h].of = State.futs[h].of
        /\ \A h \in 1 .. n : h # t => r.futs[h] = State.futs[h]
    BY <1>1, <1>6 DEF Finishes, Same
  <2> QED BY <2>1, <2>2 DEF Finished
<1> HIDE DEF Finishes
<1>10. \A x, y : Earlier(r, x, y) => Earlier(State, x, y) \/ y = t
  <2>1. \A x, y : Earlier(r, x, y) => Earlier(Popped, x, y) \/ y = t
    BY <1>1, <1>4, <1>6, <1>7, FinishOrder DEF Scheduled
  <2> QED BY <1>1, <2>1 DEF Earlier
<1>11. \A u : IsTimeout(r, u) <=> IsTimeout(State, u)
  BY <1>1, <1>9 DEF IsTimeout
<1>12. cb.kind \in {"first", "elapsed"} /\ (cb.kind = "elapsed" <=> cb = Elapses(t))
       /\ (cb.kind = "first" <=> cb = Comes(State, t))
       /\ Trigger(cb) = IF cb.kind = "elapsed" THEN e ELSE g
  <2>1. Comes(State, t).kind = "first" /\ Comes(State, t).of = g /\ Elapses(t).kind = "elapsed" /\ Elapses(t).ret = t
    BY <1>5 DEF Comes, Elapses
  <2> QED BY <1>3, <1>5, <2>1 DEF Trigger
<1>13. Expires(r, t) /\ (AllListen(State) => Listens(r, t))
  <2>1. /\ Asks(Elapses(t)) /\ Elapses(t).ret = t /\ Trigger(Elapses(t)) = e
        /\ Asks(Comes(State, t)) /\ Comes(State, t).ret = t /\ Trigger(Comes(State, t)) = g
    BY <1>5 DEF Comes, Elapses, Trigger, Asks
  <2>2. CASE cb = Elapses(t)
    <3>1. a = "false" /\ Finished(State, e)
      BY <1>3, <1>12, <2>2
    <3>2. AllListen(State) => ~Earlier(r, g, e)
      <4>1. AllListen(State) => Known(State, Comes(State, t))
        BY <1>2, <1>3 DEF AllListen, Listens
      <4>2. Known(State, Comes(State, t)) => ~Earlier(State, g, e)
        BY <1>3, <2>1, <2>2
      <4> QED BY <1>5, <1>10, <4>1, <4>2
    <3>3. Finished(r, t) /\ Finished(r, t + 1) /\ r.futs[t].of = g
      BY <1>4, <1>5, <1>9, <3>1
    <3> QED BY <1>5, <1>9, <3>1, <3>2, <3>3 DEF Expires, Listens
  <2>3. CASE cb = Comes(State, t)
    <3>1. a # "false" /\ Finished(State, g)
      BY <1>3, <1>12, <2>3
    <3>2. ~Earlier(r, e, g)
      <4>1. Known(State, Elapses(t))
        BY <1>2, <1>3 DEF ScheduleInv, AllExpire, Expires
      <4> QED BY <1>3, <1>5, <1>10, <2>1, <2>3, <4>1
    <3>3. Finished(r, t) /\ Finished(r, g) /\ r.futs[t].of = g
      BY <1>4, <1>5, <1>9, <3>1
    <3> QED BY <1>5, <1>9, <3>1, <3>2, <3>3 DEF Expires, Listens
  <2> QED BY <1>3, <2>2, <2>3
<1>14. \A u : IsTimeout(r, u) /\ u # t => Expires(r, u) /\ (AllListen(State) => Listens(r, u))
  <2>1. \A u : IsTimeout(Popped, u) /\ u # t /\ Expires(Popped, u) =>
               IsTimeout(r, u) /\ Expires(r, u) /\ (Listens(Popped, u) => Listens(r, u))
    BY <1>1, <1>4, <1>6, <1>7, FinishExpires
  <2> SUFFICES ASSUME NEW u, IsTimeout(r, u), u # t
               PROVE  Expires(r, u) /\ (AllListen(State) => Listens(r, u))
    OBVIOUS
  <2>2. Head(ready) # Elapses(u) /\ Head(ready) # Comes(State, u)
    BY <1>2 DEF Comes, Elapses
  <2>3. Expires(Popped, u) /\ (Listens(State, u) => Listens(Popped, u)) /\ IsTimeout(Popped, u)
    BY <1>7, <1>11, <2>2
  <2>4. AllListen(State) => Listens(State, u)
    BY <1>11 DEF AllListen
  <2> QED BY <2>1, <2>3, <2>4
<1>15. \A x, h, i : h # 0 /\ ~Finished(r, h) /\ Waits(Popped, x, h, i) => Waits(r, x, h, i)
  <2> SUFFICES ASSUME NEW x, NEW h, NEW i, h # 0, ~Finished(r, h), Waits(Popped, x, h, i)
               PROVE  Waits(r, x, h, i)
    OBVIOUS
  <2>1. h # t
    BY <1>4, <1>9
  <2>2. \A y, k, j : Waits(r, y, k, j) <=>
                \/ k # t /\ Waits(Popped, y, k, j)
                \/ k = 0 /\ j - Len(Popped.ready) \in Nat \ {0} /\ j \in Nat /\ Waits(Popped, y, t, j - Len(Popped.ready))
    BY <1>1, <1>4, <1>6, FinishWaits
  <2> QED BY <2>1, <2>2
<1>16. Ages(Popped, r)
  BY <1>1, <1>7, <1>9, <1>11, <1>15 DEF Ages, Finished
<1>17. Ages(State, r)
  BY <1>7, <1>16, AgesOn
<1> QED BY <1>8, <1>13, <1>14, <1>17 DEF Follows, AllExpire, AllListen

LEMMA RunFollows ==
  ASSUME DataInv, RunCallback, ScheduleInv
  PROVE  Follows(State, State') /\ Spared(State, State', {"timeout"}) /\ Len(futs)' = Len(futs)
<1>1. PICK n, T, cb :
        /\ n \in Nat /\ n = Len(futs) /\ T = Of("timeout") /\ cb = Head(ready) /\ cb \in Call(n, T)
        /\ Popped \in States(n, T) /\ Popped.futs = futs /\ Same(n, State, Popped, {})
        /\ State.futs = futs /\ ready # << >>
  BY PoppedDoes, FutsTyped DEF RunCallback, State
<1>2. /\ Scheduled(Popped) /\ Ages(State, Popped)
      /\ \A u : IsTimeout(Popped, u) <=> IsTimeout(State, u)
      /\ \A u : IsTimeout(State, u) =>
           /\ Head(ready) # Elapses(u) \/ Finished(State, u) => Expires(Popped, u)
           /\ Listens(State, u) /\ (Head(ready) # Comes(State, u) \/ Finished(State, u)) => Listens(Popped, u)
  BY <1>1, PoppedSchedules
<1>3. ASSUME Becomes(Popped), \A u : cb \in {Elapses(u), Comes(State, u)} => Finished(State, u)
      PROVE  Follows(State, State') /\ Spared(State, State', {"timeout"}) /\ Len(futs)' = Len(futs)
  <2>1. Became(n, Popped, {})
    BY <1>1, <1>3, BecomingSame
  <2>2. State' = Popped /\ Len(futs)' = n
    BY <2>1 DEF Became
  <2>3. Follows(State, Popped)
    BY <1>1, <1>2, <1>3 DEF Follows, AllExpire, AllListen
  <2>4. Spared(State, Popped, {"timeout"})
    BY <1>1 DEF Spared
  <2> QED BY <1>1, <2>2, <2>3, <2>4
<1>4. ASSUME Asks(cb), ~Finished(State, cb.ret), cb.ret \in T, NEW a \in Answers \ {"none"},
             IF cb.kind = "elapsed" THEN a = "false" ELSE a # "false", Becomes(Finish(Popped, cb.ret, a))
      PROVE  Follows(State, State') /\ Spared(State, State', {"timeout"}) /\ Len(futs)' = Len(futs)
  <2>1. PICK f \in 1 .. n : f = cb.ret /\ futs[f].kind = "timeout"
    BY <1>1, <1>4 DEF Of
  <2>2. PICK r : r = Finish(Popped, f, a)
    OBVIOUS
  <2>3. Finishes(n, T, Popped, f, a, r)
    BY <1>1, <2>1, <2>2, FinishDoes
  <2>4. Same(n, State, r, {f})
    BY <1>1, <2>3 DEF Finishes, Same, State
  <2>5. Became(n, r, {f})
    BY <1>1, <1>4, <2>1, <2>2, <2>3, <2>4, BecomingSame DEF Finishes
  <2>6. State' = r /\ Len(futs)' = n
    BY <2>5 DEF Became
  <2>7. Follows(State, r)
    <3>1. Finishes(Len(futs), Of("timeout"), Popped, cb.ret, a, r)
      BY <1>1, <2>1, <2>3
    <3> HIDE DEF Finishes
    <3> QED BY <1>1, <1>4, <3>1, AnswerFollows
  <2>8. Spared(State, r, {"timeout"})
    BY <1>1, <2>1, <2>4 DEF Spared, Same
  <2> QED BY <1>1, <2>6, <2>7, <2>8
<1>5. CASE cb.kind = "resume"
  <2>1. Becomes(Popped)
    BY <1>1, <1>5 DEF RunCallback
  <2>2. \A u : cb \notin {Elapses(u), Comes(State, u)}
    BY <1>5 DEF Elapses, Comes
  <2> QED BY <1>3, <2>1, <2>2
<1>6. CASE cb.kind # "resume"
  <2>1. cb.ret \in T /\ Asks(cb) /\ \A u : cb \in {Elapses(u), Comes(State, u)} => u = cb.ret
    BY <1>1, <1>6 DEF Call, Asks, Elapses, Comes
  <2>2. CASE Finished(State, cb.ret)
    <3>1. Becomes(Popped)
      BY <1>1, <1>6, <2>2 DEF RunCallback, First, Elapsed
    <3> QED BY <1>3, <2>1, <2>2, <3>1
  <2>3. CASE ~Finished(State, cb.ret)
    <3>1. \E a \in Answers \ {"none"} : /\ IF cb.kind = "elapsed" THEN a = "false" ELSE a # "false"
                                        /\ Becomes(Finish(Popped, cb.ret, a))
      <4>1. {"failed", "true", "false"} \subseteq Answers \ {"none"}
        BY DEF Answers
      <4> QED BY <1>1, <1>6, <2>3, <4>1 DEF RunCallback, First, Elapsed
    <3> QED BY <1>4, <2>1, <2>3, <3>1
  <2> QED BY <2>2, <2>3
<1> QED BY <1>5, <1>6

LEMMA RewiresSchedules ==
  ASSUME NEW n \in Nat, NEW f \in 1 .. n, NEW s, NEW r, NEW c, NEW e, NEW k, NEW j, NEW cb, ~Asks(cb),
         Len(s.futs) = n, Len(r.futs) = n + 2, s.order \in Seq(1 .. n), r.order = s.order, Same(n, s, r, {}),
         r.futs[n + 1].kind = "timeout", r.futs[n + 1].of = f, r.futs[n + 1].answer = "none",
         r.futs[n + 2].kind = "sleep", r.futs[n + 2].answer = "none",
         Rewires(s, c, f, n + 1, e, k, j), e \in {0, f}, e = 0 <=> Finished(s, f),
         Joins(c, r, cb, n + 1), ~Finished(c, n + 1), Scheduled(s), AllExpire(s),
         s.futs[f].kind # "timeout", \A t : IsTimeout(s, t) => f # t + 1
  PROVE  /\ Scheduled(r) /\ AllExpire(r)
         /\ \A t : IsTimeout(r, t) <=> IsTimeout(s, t) \/ t = n + 1
         /\ AllListen(s) /\ (\A t : IsTimeout(s, t) /\ ~Finished(s, t) => s.futs[t].of # f) => AllListen(r)
<1>1. PICK u \in Nat, v \in Nat : u = n + 1 /\ v = n + 2 /\ v = u + 1
  OBVIOUS
<1>2. /\ \A g \in 1 .. n : /\ r.futs[g].kind = s.futs[g].kind /\ r.futs[g].of = s.futs[g].of
                           /\ r.futs[g].answer = s.futs[g].answer /\ (Finished(r, g) <=> Finished(s, g))
      /\ ~Finished(r, u) /\ ~Finished(r, v) /\ r.futs[u].kind = "timeout" /\ r.futs[u].of = f
      /\ r.futs[v].kind = "sleep"
      /\ \A g \in 1 .. v : g \in 1 .. n \/ g = u \/ g = v
      /\ \A g \in 1 .. n : g \in 1 .. v /\ g # u /\ g # v
  BY <1>1 DEF Same, Finished
<1>3. \A x, g, i : Asks(x) => (Waits(r, x, g, i) <=> \/ g # f /\ Waits(s, x, g, i)
                                                     \/ x = Comes(r, u) /\ g = e /\ i = k
                                                     \/ x = Elapses(u) /\ g = v /\ i = j)
  <2>1. Comes(r, u) = [kind |-> "first", of |-> f, ret |-> n + 1]
    BY <1>1, <1>2 DEF Comes
  <2>2. \A x, g, i : x # cb => (Waits(r, x, g, i) <=> Waits(c, x, g, i))
    BY Joined
  <2>3. \A x, g, i : Waits(c, x, g, i) <=> \/ g # f /\ Waits(s, x, g, i)
                                           \/ x = Comes(r, u) /\ g = e /\ i = k
                                           \/ x = Elapses(u) /\ g = v /\ i = j
    BY <1>1, <2>1 DEF Rewires
  <2> QED BY <2>2, <2>3
<1>4. \A x, g, i : g # 0 /\ Waits(r, x, g, i) => (g # f /\ Waits(s, x, g, i)) \/ g = e \/ g \in {u, v}
  <2>1. \A x, g, i : Waits(r, x, g, i) => Waits(c, x, g, i) \/ g \in {0, u}
    BY <1>1, Joined
  <2>2. \A x, g, i : Waits(c, x, g, i) => (g # f /\ Waits(s, x, g, i)) \/ g = e \/ g = v
    BY <1>1 DEF Rewires
  <2> QED BY <2>1, <2>2
<1>5. \A x, y : Earlier(r, x, y) <=> Earlier(s, x, y)
  BY DEF Earlier
<1>6. ASSUME NEW t PROVE IsTimeout(r, t) <=> IsTimeout(s, t) \/ t = u
  <2>1. Len(r.futs) = v /\ Len(s.futs) = n /\ u \in 1 .. v
    BY <1>1
  <2>2. t \in 1 .. v => t \in 1 .. n \/ t = u \/ t = v
    BY <1>2
  <2>3. t \in 1 .. n => t \in 1 .. v /\ r.futs[t].kind = s.futs[t].kind
    BY <1>2
  <2>4. t = v => r.futs[t].kind # "timeout"
    BY <1>2
  <2> QED BY <1>2, <2>1, <2>2, <2>3, <2>4 DEF IsTimeout
<1>7. ASSUME NEW t, IsTimeout(s, t)
      PROVE  /\ t \in 1 .. n /\ t + 1 \in 1 .. n /\ s.futs[t + 1].kind = "sleep"
             /\ s.futs[t].of \in 1 .. n /\ s.futs[t].of < t /\ s.futs[s.futs[t].of].kind # "timeout"
             /\ Comes(r, t) = Comes(s, t) /\ t # u
  <2>1. /\ t \in 1 .. n /\ t + 1 \in 1 .. n /\ s.futs[t + 1].kind = "sleep"
        /\ s.futs[t].of \in 1 .. n /\ s.futs[t].of < t /\ s.futs[s.futs[t].of].kind # "timeout"
    BY <1>7 DEF Scheduled, Pairs, IsTimeout
  <2> QED BY <1>2, <2>1 DEF Comes
<1>8. Once(r)
  <2>1. \A x, i : Has(r.order, x, i) <=> Has(s.order, x, i)
    OBVIOUS
  <2>2. \A x, i : Has(s.order, x, i) => x \in 1 .. n
    BY ElementOfSeq DEF Has
  <2>3. ASSUME NEW x \in 1 .. v PROVE Finished(r, x) <=> \E i : Has(r.order, x, i)
    <3>1. CASE x \in 1 .. n
      BY <1>2, <2>1, <3>1 DEF Scheduled, Once
    <3>2. CASE x \notin 1 .. n
      BY <1>2, <2>1, <2>2, <3>2
    <3> QED BY <3>1, <3>2
  <2> QED BY <1>1, <2>1, <2>3 DEF Scheduled, Once
<1>9. Pairs(r)
  <2> SUFFICES ASSUME NEW t, IsTimeout(r, t)
               PROVE  /\ t + 1 \in 1 .. v /\ r.futs[t + 1].kind = "sleep"
                      /\ r.futs[t].of \in 1 .. v /\ r.futs[t].of < t
                      /\ r.futs[r.futs[t].of].kind # "timeout"
    BY <1>1 DEF Pairs
  <2>1. CASE IsTimeout(s, t)
    <3>0. /\ t \in 1 .. n /\ t + 1 \in 1 .. n /\ s.futs[t + 1].kind = "sleep"
          /\ s.futs[t].of \in 1 .. n /\ s.futs[t].of < t /\ s.futs[s.futs[t].of].kind # "timeout"
      BY <1>7, <2>1
    <3>1. PICK a, b, d :
            /\ a \in 1 .. n /\ b \in 1 .. n /\ d \in 1 .. n
            /\ a = t /\ b = t + 1 /\ d = s.futs[t].of /\ d < a /\ s.futs[b].kind = "sleep" /\ s.futs[d].kind # "timeout"
      BY <3>0
    <3>2. r.futs[a].of = d /\ r.futs[b].kind = "sleep" /\ r.futs[d].kind # "timeout" /\ b \in 1 .. v /\ d \in 1 .. v
      BY <1>2, <3>1
    <3> QED BY <3>1, <3>2
  <2>2. CASE t = u
    <3>1. u + 1 = v /\ v \in 1 .. v /\ f \in 1 .. v /\ f < u
      BY <1>1
    <3> QED BY <1>2, <2>2, <3>1
  <2> QED BY <1>6, <2>1, <2>2
<1>10. /\ Trigger(Comes(r, u)) = f /\ Trigger(Elapses(u)) = v /\ Comes(r, u).ret = u /\ Elapses(u).ret = u
  BY <1>1, <1>2 DEF Trigger, Comes, Elapses
<1>11. ASSUME NEW x, NEW g, NEW i, Asks(x), Waits(s, x, g, i)
       PROVE  /\ IsTimeout(s, x.ret) /\ (x = Comes(r, x.ret) \/ x = Elapses(x.ret))
              /\ IF g = 0 THEN Finished(r, Trigger(x)) ELSE g = Trigger(x)
  <2>1. /\ IsTimeout(s, x.ret) /\ (x = Comes(s, x.ret) \/ x = Elapses(x.ret))
        /\ IF g = 0 THEN Finished(s, Trigger(x)) ELSE g = Trigger(x)
    BY <1>11 DEF Scheduled, Placed
  <2>2. Trigger(x) \in 1 .. n
    <3>1. CASE x = Comes(s, x.ret)
      <4>1. x.kind = "first" /\ x.of = s.futs[x.ret].of
        BY <3>1 DEF Comes
      <4> QED BY <1>7, <2>1, <4>1 DEF Trigger
    <3>2. CASE x = Elapses(x.ret)
      <4>1. x.kind = "elapsed"
        BY <3>2 DEF Elapses
      <4> QED BY <1>7, <2>1, <4>1 DEF Trigger
    <3> QED BY <2>1, <3>1, <3>2
  <2> QED BY <1>2, <1>7, <2>1, <2>2
<1>12. Placed(r)
  <2>1. ASSUME NEW g \in 1 .. v, Finished(r, g), NEW x, NEW i, Waits(r, x, g, i) PROVE FALSE
    <3>1. g \in 1 .. n /\ Finished(s, g) /\ g # 0 /\ g # u /\ g # v
      <4>1. g # u /\ g # v
        BY <1>2, <2>1
      <4>2. g \in 1 .. n
        BY <1>2, <4>1
      <4> QED BY <1>2, <2>1, <4>1, <4>2
    <3>2. ~Waits(s, x, g, i)
      BY <3>1 DEF Scheduled, Placed
    <3>3. g # 0 /\ Waits(r, x, g, i) => (g # f /\ Waits(s, x, g, i)) \/ g = e \/ g \in {u, v}
      BY <1>4
    <3>4. g = e
      BY <2>1, <3>1, <3>2, <3>3
    <3> QED BY <3>1, <3>4
  <2>2. ASSUME NEW x, NEW g, NEW i, Asks(x), Waits(r, x, g, i)
        PROVE  /\ IsTimeout(r, x.ret) /\ (x = Comes(r, x.ret) \/ x = Elapses(x.ret))
               /\ IF g = 0 THEN Finished(r, Trigger(x)) ELSE g = Trigger(x)
    <3>1. CASE Waits(s, x, g, i)
      BY <1>6, <1>11, <2>2, <3>1
    <3>2. CASE x = Comes(r, u) /\ g = e
      BY <1>2, <1>6, <1>10, <3>2
    <3>3. CASE x = Elapses(u) /\ g = v
      BY <1>1, <1>6, <1>10, <3>3
    <3> QED BY <1>3, <2>2, <3>1, <3>2, <3>3
  <2> QED BY <1>1, <2>1, <2>2 DEF Placed
<1>13. InTurn(r)
  <2> SUFFICES ASSUME NEW x, NEW y, NEW i, NEW m, Asks(x), Asks(y), x.ret = y.ret,
                      Waits(r, x, 0, i), Waits(r, y, 0, m), Earlier(r, Trigger(x), Trigger(y))
               PROVE  i < m
    BY DEF InTurn
  <2>1. /\ Waits(s, x, 0, i) \/ x = Comes(r, u)
        /\ Waits(s, y, 0, m) \/ y = Comes(r, u)
    BY <1>1, <1>3
  <2>2. CASE Waits(s, x, 0, i) /\ Waits(s, y, 0, m)
    BY <1>5, <2>2 DEF Scheduled, InTurn
  <2>3. CASE x = Comes(r, u) /\ y = Comes(r, u)
    <3>1. Earlier(s, f, f)
      BY <1>5, <1>10, <2>3
    <3>2. PICK a, b : a < b /\ Has(s.order, f, a) /\ Has(s.order, f, b)
      BY <3>1 DEF Earlier
    <3>3. a = b
      BY <3>2 DEF Scheduled, Once
    <3>4. a \in Int
      BY <3>2, LenProperties DEF Has
    <3> QED BY <3>2, <3>3, <3>4
  <2>4. (Waits(s, x, 0, i) => x.ret # u) /\ (Waits(s, y, 0, m) => y.ret # u)
    BY <1>7, <1>11
  <2> QED BY <1>10, <2>1, <2>2, <2>3, <2>4
<1>14. ASSUME NEW t, IsTimeout(s, t)
       PROVE  Expires(r, t) /\ (Listens(s, t) /\ (~Finished(s, t) => s.futs[t].of # f) => Listens(r, t))
  <2>1. Expires(s, t)
    BY <1>14 DEF AllExpire
  <2>2. /\ r.futs[t].of = s.futs[t].of /\ r.futs[t].answer = s.futs[t].answer
        /\ Finished(r, t) <=> Finished(s, t)
        /\ Finished(r, t + 1) <=> Finished(s, t + 1)
        /\ Finished(r, s.futs[t].of) <=> Finished(s, s.futs[t].of)
    BY <1>2, <1>7, <1>14
  <2>3. /\ Asks(Elapses(t)) /\ Trigger(Elapses(t)) = t + 1
        /\ Asks(Comes(s, t)) /\ Trigger(Comes(s, t)) = s.futs[t].of /\ Comes(r, t) = Comes(s, t)
    BY <1>7, <1>14 DEF Asks, Elapses, Comes, Trigger
  <2>4. \A x : Asks(x) /\ Known(s, x) /\ Trigger(x) # f => Known(r, x)
    <3> SUFFICES ASSUME NEW x, Asks(x), Known(s, x), Trigger(x) # f PROVE Known(r, x)
      OBVIOUS
    <3>1. PICK g, i : Waits(s, x, g, i)
      BY DEF Known
    <3>2. g # f
      <4>1. g # 0 => g = Trigger(x)
        BY <1>11, <3>1
      <4> QED BY <4>1
    <3> QED BY <1>3, <3>1, <3>2 DEF Known
  <2>5. ~Finished(s, t) => Known(r, Elapses(t))
    BY <1>14, <2>1, <2>3, <2>4 DEF Expires
  <2>6. Listens(s, t) /\ ~Finished(s, t) /\ s.futs[t].of # f => Known(r, Comes(r, t))
    BY <2>3, <2>4 DEF Listens
  <2> QED BY <1>5, <2>1, <2>2, <2>5, <2>6 DEF Expires, Listens
<1>15. Expires(r, u) /\ Listens(r, u)
  <2>1. Waits(r, Elapses(u), v, j) /\ Waits(r, Comes(r, u), e, k)
    <3>1. Asks(Elapses(u)) /\ Asks(Comes(r, u))
      BY DEF Asks, Elapses, Comes
    <3> QED BY <1>3, <3>1
  <2> QED BY <1>2, <2>1 DEF Expires, Listens, Known
<1>16. AllExpire(r)
  BY <1>6, <1>14, <1>15 DEF AllExpire
<1>17. ASSUME AllListen(s), \A t : IsTimeout(s, t) /\ ~Finished(s, t) => s.futs[t].of # f PROVE AllListen(r)
  BY <1>6, <1>14, <1>15, <1>17 DEF AllListen
<1> QED BY <1>1, <1>6, <1>8, <1>9, <1>12, <1>13, <1>16, <1>17 DEF Scheduled

(* No task has the sleep of a timeout as its operation: the program never  *)
(* sees that future.                                                       *)
OpsIn == \A t \in Tasks : \A r : IsTimeout(State, r) => op[t] # r + 1

LEMMA WithTimeoutSchedules ==
  ASSUME DataInv, LoopInv, ScheduleInv, HomeInv, OpsIn, NEW ms \in Delays, WithTimeout(ms)
  PROVE  /\ Scheduled(State') /\ AllExpire(State')
         /\ AllListen(State) /\ (\A t : IsTimeout(State, t) /\ Pending(t) => futs[t].of # op[task]) => AllListen(State')
         /\ \A t : IsTimeout(State', t) <=> IsTimeout(State, t) \/ t = Len(futs) + 1
<1>1. PICK n \in Nat : \E f \in 1 .. n :
           /\ n = Len(futs) /\ f = op[task] /\ task \in Tasks /\ TasksSame(State, State') /\ op' = op
           /\ Len(futs)' = n + 2 /\ PushTimer(n + 2, ms)
           /\ Same(n, State, State', {}) /\ State'.order = State.order
           /\ futs'[n + 1].kind = "timeout" /\ futs'[n + 1].of = f /\ futs'[n + 1].answer = "none"
           /\ futs'[n + 2].kind = "sleep" /\ futs'[n + 2].answer = "none"
           /\ \E c, e, k, j : /\ e \in {0, f} /\ (e = 0 <=> Finished(State, f))
                             /\ Joins(c, State', Resume(task), n + 1) /\ ~Finished(c, n + 1)
                             /\ Rewires(State, c, f, n + 1, e, k, j)
  BY WithTimeoutMakes
<1>2. PICK f \in 1 .. n :
           /\ n = Len(futs) /\ f = op[task] /\ task \in Tasks
           /\ Len(futs)' = n + 2
           /\ Same(n, State, State', {}) /\ State'.order = State.order
           /\ futs'[n + 1].kind = "timeout" /\ futs'[n + 1].of = f /\ futs'[n + 1].answer = "none"
           /\ futs'[n + 2].kind = "sleep" /\ futs'[n + 2].answer = "none"
           /\ \E c, e, k, j : /\ e \in {0, f} /\ (e = 0 <=> Finished(State, f))
                             /\ Joins(c, State', Resume(task), n + 1) /\ ~Finished(c, n + 1)
                             /\ Rewires(State, c, f, n + 1, e, k, j)
  BY <1>1
<1>3. PICK c, e, k, j : /\ e \in {0, f} /\ (e = 0 <=> Finished(State, f))
                        /\ Joins(c, State', Resume(task), n + 1) /\ ~Finished(c, n + 1)
                        /\ Rewires(State, c, f, n + 1, e, k, j)
  BY <1>2
<1>4. PICK s, r, cb : s = State /\ r = State' /\ cb = Resume(task)
  OBVIOUS
<1>5. /\ s.futs = futs /\ s.order = order /\ r.futs = futs' /\ r.order = order /\ ~Asks(cb)
  BY <1>2, <1>4 DEF State, Asks, Resume
<1>6. s.order \in Seq(1 .. n)
  BY <1>2, <1>5 DEF DataInv, States, State
<1>7. f # 0 /\ s.futs[f].kind # "timeout"
  BY <1>2, <1>5 DEF HomeInv
<1>8. \A t : IsTimeout(s, t) => f # t + 1
  BY <1>2, <1>4 DEF OpsIn
<1>9. Scheduled(s) /\ AllExpire(s)
  BY <1>4 DEF ScheduleInv
<1>10. /\ Len(s.futs) = n /\ Len(r.futs) = n + 2 /\ r.order = s.order /\ Same(n, s, r, {})
       /\ r.futs[n + 1].kind = "timeout" /\ r.futs[n + 1].of = f /\ r.futs[n + 1].answer = "none"
       /\ r.futs[n + 2].kind = "sleep" /\ r.futs[n + 2].answer = "none"
       /\ Rewires(s, c, f, n + 1, e, k, j) /\ e \in {0, f} /\ (e = 0 <=> Finished(s, f))
       /\ Joins(c, r, cb, n + 1) /\ ~Finished(c, n + 1)
  BY <1>2, <1>3, <1>4, <1>5
<1>11. /\ Scheduled(r) /\ AllExpire(r)
       /\ \A t : IsTimeout(r, t) <=> IsTimeout(s, t) \/ t = n + 1
       /\ AllListen(s) /\ (\A t : IsTimeout(s, t) /\ ~Finished(s, t) => s.futs[t].of # f) => AllListen(r)
  BY <1>5, <1>6, <1>7, <1>8, <1>9, <1>10, RewiresSchedules
<1>12. (\A t : IsTimeout(State, t) /\ Pending(t) => futs[t].of # op[task])
         => \A t : IsTimeout(s, t) /\ ~Finished(s, t) => s.futs[t].of # f
  BY <1>2, <1>4, <1>5 DEF Pending
<1> QED BY <1>2, <1>4, <1>11, <1>12

(***************************************************************************)
(* What is known of timeouts, step by step.                                *)
(***************************************************************************)
LEMMA ExpiringFollows ==
  ASSUME DataInv, ScheduleInv, TimersInv, Poll \/ Dispatched
  PROVE  Follows(State, State') /\ Spared(State, State', {"sleep"})
<1>1. CASE processTimers
  BY <1>1, ExpiredFollows
<1>2. CASE Unchanged
  <2>1. State' = State
    BY <1>2 DEF Unchanged, State
  <2>2. Follows(State, State)
    BY FutsTyped, FollowsSelf DEF ScheduleInv, State
  <2> QED BY <2>1, <2>2 DEF Spared
<1> QED BY <1>1, <1>2 DEF Poll, Dispatched

LEMMA StepFollows ==
  ASSUME QueuesInv, QueuesInv', WaitersInv, ScheduleInv, TimersInv, [Next]_vars,
         \A ms \in Delays : ~WithTimeout(ms)
  PROVE  Follows(State, State')
<1>1. DataInv /\ LoopInv
  BY DEF QueuesInv
<1>2. CASE Plain
  BY <1>2, PlainFollows
<1>3. CASE Poll \/ Dispatched
  BY <1>1, <1>3, ExpiringFollows
<1>4. CASE RunCallback
  BY <1>1, <1>4, RunFollows
<1>5. CASE Await
  BY <1>1, <1>5, AwaitFollows
<1>6. CASE Return
  <2>1. Pending(task)
    BY <1>1, <1>6, TaskIs, AtTask DEF Return, WaitersInv
  <2> QED BY <1>1, <1>6, <2>1, ReturnFollows
<1> QED BY <1>2, <1>3, <1>4, <1>5, <1>6, Otherwise

LEMMA ScheduleKept ==
  ASSUME QueuesInv, QueuesInv', WaitersInv, ScheduleInv, TimersInv, HomeInv, OpsIn, [Next]_vars
  PROVE  ScheduleInv'
<1>1. CASE \E ms \in Delays : WithTimeout(ms)
  <2>1. PICK ms \in Delays : WithTimeout(ms)
    BY <1>1
  <2>2. Scheduled(State') /\ AllExpire(State')
    BY <2>1, WithTimeoutSchedules DEF QueuesInv
  <2> QED BY <2>2 DEF ScheduleInv
<1>2. CASE \A ms \in Delays : ~WithTimeout(ms)
  <2>1. Follows(State, State')
    BY <1>2, StepFollows
  <2> QED BY <2>1 DEF ScheduleInv, Follows
<1> QED BY <1>1, <1>2

LEMMA OpsKept ==
  ASSUME QueuesInv, QueuesInv', WaitersInv, ScheduleInv, TimersInv, HomeInv, OpsIn, [Next]_vars
  PROVE  OpsIn'
<1> SUFFICES ASSUME NEW t \in Tasks, NEW r, IsTimeout(State', r) PROVE op'[t] # r + 1
  BY DEF OpsIn
<1>1. DataInv /\ LoopInv /\ Len(futs) \in Nat /\ op \in [Tasks -> 0 .. Len(futs)]
  BY FutsTyped DEF QueuesInv, DataInv
<1>2. CASE \E ms \in Delays : WithTimeout(ms)
  <2>1. PICK ms \in Delays : WithTimeout(ms)
    BY <1>2
  <2>2. op' = op
    BY <2>1 DEF WithTimeout
  <2>3. IsTimeout(State, r) \/ r = Len(futs) + 1
    BY <1>1, <2>1, WithTimeoutSchedules
  <2>4. r = Len(futs) + 1 => op[t] # r + 1
    BY <1>1
  <2> QED BY <2>2, <2>3, <2>4 DEF OpsIn
<1>3. CASE \A ms \in Delays : ~WithTimeout(ms)
  <2>1. IsTimeout(State, r)
    BY <1>3, StepFollows DEF Follows, Ages
  <2>2. r + 1 \in 1 .. Len(futs) /\ futs[r + 1].kind = "sleep"
    BY <2>1 DEF ScheduleInv, Scheduled, Pairs, State
  <2>3. op[t] # r + 1
    BY <2>1 DEF OpsIn
  <2>4. \A g : op' = [op EXCEPT ![task] = g] => op'[t] \in {op[t], g}
    BY <1>1
  <2>5. r + 1 # Len(futs) + 1 /\ r + 1 \notin Tasks
    BY <1>1, <2>2 DEF DataInv
  <2> QED BY <1>1, <2>3, <2>4, <2>5, OpsMove DEF Chooses
<1> QED BY <1>2, <1>3

(***************************************************************************)
(* Timers and sleeps.                                                      *)
(***************************************************************************)
SleepsSame == \A g \in Of("sleep") : futs'[g].answer = futs[g].answer
NoNewSleeps == \A g \in 1 .. Len(futs)' : futs'[g].kind = "sleep" => g \in Of("sleep")

LEMMA TimersAre ==
  ASSUME DataInv
  PROVE  /\ Len(timers) \in Nat /\ \A i \in 1 .. Len(timers) : timers[i].fut \in Of("sleep")
         /\ \A i \in 1 .. Len(timers) : timers[i] \in Timer(Of("sleep"))
<1>1. \A i \in 1 .. Len(timers) : timers[i] \in Timer(Of("sleep"))
  BY ElementOfSeq DEF DataInv
<1> QED BY <1>1, LenProperties DEF DataInv, Timer

LEMMA TimersStay ==
  ASSUME DataInv, TimersInv, Len(timers)' = Len(timers),
         \A i \in 1 .. Len(timers) : timers'[i].fut = timers[i].fut, SleepsSame, NoNewSleeps
  PROVE  TimersInv'
<1>1. \A i \in 1 .. Len(timers) : timers'[i].fut = timers[i].fut /\ futs'[timers[i].fut].answer = "none"
  BY TimersAre DEF TimersInv, Pending, Finished, State, SleepsSame
<1>2. ASSUME NEW f \in 1 .. Len(futs)', futs'[f].kind = "sleep", futs'[f].answer = "none"
      PROVE  \E i \in 1 .. Len(timers) : timers'[i].fut = f
  <2>1. f \in 1 .. Len(futs) /\ futs[f].kind = "sleep" /\ futs[f].answer = "none"
    BY <1>2 DEF NoNewSleeps, SleepsSame, Of
  <2>2. PICK i \in 1 .. Len(timers) : timers[i].fut = f
    BY <2>1 DEF TimersInv, Pending, Finished, State
  <2> QED BY <1>1, <2>2
<1>3. \A i, j \in 1 .. Len(timers) : timers'[i].fut = timers'[j].fut => i = j
  BY <1>1 DEF TimersInv
<1> QED BY <1>1, <1>2, <1>3 DEF TimersInv, Pending, Finished, State

LEMMA Spliced ==
  ASSUME NEW S, NEW a \in Seq(S), NEW b \in Seq(S), NEW e \in S, NEW c, c = a \o <<e>> \o b
  PROVE  /\ Len(c) = Len(a) + 1 + Len(b) /\ c[Len(a) + 1] = e
         /\ \A j \in 1 .. Len(a) : c[j] = a[j]
         /\ \A j \in 1 .. Len(b) : c[Len(a) + 1 + j] = b[j]
<1>1. <<e>> \in Seq(S) /\ Len(<<e>>) = 1 /\ <<e>>[1] = e
  OBVIOUS
<1>2. Len(a) \in Nat /\ Len(b) \in Nat
  BY LenProperties
<1>3. PICK d : d = a \o <<e>>
  OBVIOUS
<1>4. /\ d \in Seq(S) /\ Len(d) = Len(a) + 1
      /\ \A j \in 1 .. Len(a) + 1 : d[j] = IF j <= Len(a) THEN a[j] ELSE <<e>>[j - Len(a)]
  BY <1>1, <1>3, ConcatProperties
<1>5. d[Len(a) + 1] = e /\ \A j \in 1 .. Len(a) : d[j] = a[j]
  <2>1. Len(a) + 1 - Len(a) = 1 /\ Len(a) + 1 \in 1 .. Len(a) + 1
    BY <1>2
  <2> QED BY <1>1, <1>2, <1>4, <2>1
<1>6. c = d \o b
  BY <1>3
<1>7. /\ Len(c) = Len(d) + Len(b)
      /\ \A j \in 1 .. Len(d) + Len(b) : c[j] = IF j <= Len(d) THEN d[j] ELSE b[j - Len(d)]
  BY <1>4, <1>6, ConcatProperties
<1>8. /\ \A j \in 1 .. Len(a) + 1 : c[j] = d[j]
      /\ \A j \in 1 .. Len(b) : c[Len(a) + 1 + j] = b[j]
  <2>1. ASSUME NEW j \in 1 .. Len(b) PROVE c[Len(a) + 1 + j] = b[j]
    <3>1. PICK k : k = Len(a) + 1 + j /\ k \in 1 .. Len(d) + Len(b) /\ ~(k <= Len(d)) /\ k - Len(d) = j
      BY <1>2, <1>4
    <3> QED BY <1>7, <3>1
  <2> QED BY <1>2, <1>4, <1>7, <2>1
<1> QED BY <1>2, <1>4, <1>5, <1>7, <1>8

LEMMA Pushed ==
  ASSUME NEW S, timers \in Seq(S), NEW f, NEW ms, [fut |-> f, left |-> ms] \in S, PushTimer(f, ms)
  PROVE  \E i \in 1 .. Len(timers) + 1 :
           /\ Len(timers)' = Len(timers) + 1 /\ timers'[i].fut = f
           /\ \A j \in 1 .. Len(timers) : timers'[IF j < i THEN j ELSE j + 1] = timers[j]
<1> DEFINE e == [fut |-> f, left |-> ms]
<1>1. PICK i \in 1 .. Len(timers) + 1 : timers' = InsertAt(timers, i, e)
  BY DEF PushTimer
<1>2. /\ Len(timers) \in Nat /\ \A j \in 1 .. Len(timers) : timers[j] \in S
  BY LenProperties, ElementOfSeq
<1>3. PICK a, b : a = SubSeq(timers, 1, i - 1) /\ b = SubSeq(timers, i, Len(timers))
  OBVIOUS
<1>4. a \in Seq(S) /\ Len(a) = i - 1 /\ \A j \in 1 .. i - 1 : a[j] = timers[j]
  <2>1. \A j \in 1 .. i - 1 : timers[j] \in S
    BY <1>2
  <2>2. i - 1 \in Int /\ 1 \in Int
    BY <1>2
  <2>3. /\ a \in Seq(S) /\ Len(a) = (IF 1 <= i - 1 THEN i - 1 - 1 + 1 ELSE 0)
        /\ \A j \in 1 .. i - 1 - 1 + 1 : a[j] = timers[1 + j - 1]
    BY <1>3, <2>1, <2>2, SubSeqProperties
  <2>4. \A j \in 1 .. i - 1 : j \in 1 .. i - 1 - 1 + 1 /\ 1 + j - 1 = j
    BY <1>2
  <2>5. \A j \in 1 .. i - 1 : a[j] = timers[j]
    BY <2>3, <2>4
  <2> QED BY <1>2, <2>3, <2>5
<1>5. /\ b \in Seq(S) /\ Len(b) = Len(timers) - i + 1
      /\ \A j \in 1 .. Len(timers) - i + 1 : b[j] = timers[i + j - 1]
  <2>1. \A j \in i .. Len(timers) : timers[j] \in S
    BY <1>2
  <2>2. i \in Int /\ Len(timers) \in Int
    BY <1>2
  <2>3. /\ b \in Seq(S) /\ Len(b) = (IF i <= Len(timers) THEN Len(timers) - i + 1 ELSE 0)
        /\ \A j \in 1 .. Len(timers) - i + 1 : b[j] = timers[i + j - 1]
    BY <1>3, <2>1, <2>2, SubSeqProperties
  <2> QED BY <1>2, <2>3
<1> HIDE DEF e
<1>6. timers' = a \o <<e>> \o b
  BY <1>1, <1>3 DEF InsertAt
<1>7. e \in S
  BY DEF e
<1>8. /\ Len(timers') = Len(a) + 1 + Len(b) /\ timers'[Len(a) + 1] = e
      /\ \A j \in 1 .. Len(a) : timers'[j] = a[j]
      /\ \A j \in 1 .. Len(b) : timers'[Len(a) + 1 + j] = b[j]
  <2>1. PICK c : c = timers'
    OBVIOUS
  <2>2. c = a \o <<e>> \o b /\ a \in Seq(S) /\ b \in Seq(S)
    BY <1>4, <1>5, <1>6, <2>1
  <2>3. /\ Len(c) = Len(a) + 1 + Len(b) /\ c[Len(a) + 1] = e
        /\ \A j \in 1 .. Len(a) : c[j] = a[j]
        /\ \A j \in 1 .. Len(b) : c[Len(a) + 1 + j] = b[j]
    BY <1>7, <2>2, Spliced
  <2> QED BY <2>1, <2>3
<1>9. ASSUME NEW j \in 1 .. Len(timers) PROVE timers'[IF j < i THEN j ELSE j + 1] = timers[j]
  <2>1. CASE j < i
    <3>1. j \in 1 .. i - 1
      BY <2>1
    <3> QED BY <1>4, <1>8, <2>1, <3>1
  <2>2. CASE ~(j < i)
    <3>1. PICK k : k = j + 1 - i /\ k \in 1 .. Len(timers) - i + 1 /\ i + k - 1 = j /\ Len(a) + 1 + k = j + 1
      BY <1>2, <1>4, <2>2
    <3> QED BY <1>5, <1>8, <2>2, <3>1
  <2> QED BY <2>1, <2>2
<1>10. Len(timers') = Len(timers) + 1 /\ timers'[i] = e
  BY <1>2, <1>4, <1>5, <1>8
<1>11. timers'[i].fut = f
  BY <1>10 DEF e
<1> QED BY <1>9, <1>10, <1>11

LEMMA TimersPush ==
  ASSUME DataInv, TimersInv, NEW ms \in Nat, NEW f \in Of("sleep")', f \notin 1 .. Len(futs), PushTimer(f, ms),
         Seq(Timer(Of("sleep"))) \subseteq Seq(Timer(Of("sleep")')), Pending(f)', SleepsSame,
         \A g \in 1 .. Len(futs)' : futs'[g].kind = "sleep" => g \in Of("sleep") \/ g = f
  PROVE  TimersInv'
<1>1. timers \in Seq(Timer(Of("sleep")')) /\ [fut |-> f, left |-> ms] \in Timer(Of("sleep")')
  BY DEF DataInv, Timer
<1>2. PICK i \in 1 .. Len(timers) + 1 :
           /\ Len(timers)' = Len(timers) + 1 /\ timers'[i].fut = f
           /\ \A j \in 1 .. Len(timers) : timers'[IF j < i THEN j ELSE j + 1] = timers[j]
  BY <1>1, Pushed
<1>3. Len(timers) \in Nat /\ \A j \in 1 .. Len(timers) : timers[j].fut \in Of("sleep") /\ timers[j].fut # f
  BY TimersAre DEF Of
<1>4. \A j \in 1 .. Len(timers) : futs'[timers[j].fut].answer = "none"
  BY <1>3 DEF TimersInv, Pending, Finished, State, SleepsSame
<1>5. ASSUME NEW j \in 1 .. Len(timers) + 1, j # i
      PROVE  \E k \in 1 .. Len(timers) : timers'[j] = timers[k] /\ j = IF k < i THEN k ELSE k + 1
  <2>1. CASE j < i
    BY <1>2, <1>3, <2>1
  <2>2. CASE j > i
    <3>1. j - 1 \in 1 .. Len(timers) /\ ~(j - 1 < i) /\ j - 1 + 1 = j
      BY <1>3, <2>2
    <3> QED BY <1>2, <3>1
  <2> QED BY <1>3, <1>5, <2>1, <2>2
<1>6. \A j \in 1 .. Len(timers) + 1 : futs'[timers'[j].fut].answer = "none" /\ (timers'[j].fut = f => j = i)
  BY <1>2, <1>3, <1>4, <1>5 DEF Pending, Finished, State
<1>7. \A j, k \in 1 .. Len(timers) + 1 : timers'[j].fut = timers'[k].fut => j = k
  <2> SUFFICES ASSUME NEW j \in 1 .. Len(timers) + 1, NEW k \in 1 .. Len(timers) + 1, timers'[j].fut = timers'[k].fut
               PROVE  j = k
    OBVIOUS
  <2>1. CASE j = i \/ k = i
    BY <1>2, <1>6, <2>1
  <2>2. CASE j # i /\ k # i
    <3>1. PICK a \in 1 .. Len(timers) : timers'[j] = timers[a] /\ j = IF a < i THEN a ELSE a + 1
      BY <1>5, <2>2
    <3>2. PICK b \in 1 .. Len(timers) : timers'[k] = timers[b] /\ k = IF b < i THEN b ELSE b + 1
      BY <1>5, <2>2
    <3>3. a = b
      BY <3>1, <3>2 DEF TimersInv
    <3> QED BY <3>1, <3>2, <3>3
  <2> QED BY <2>1, <2>2
<1>8. ASSUME NEW g \in 1 .. Len(futs)', futs'[g].kind = "sleep", futs'[g].answer = "none"
      PROVE  \E j \in 1 .. Len(timers) + 1 : timers'[j].fut = g
  <2>1. CASE g = f
    BY <1>2, <2>1
  <2>2. CASE g # f
    <3>1. g \in 1 .. Len(futs) /\ futs[g].kind = "sleep" /\ futs[g].answer = "none"
      BY <1>8, <2>2 DEF SleepsSame, Of
    <3>2. PICK k \in 1 .. Len(timers) : timers[k].fut = g
      BY <3>1 DEF TimersInv, Pending, Finished, State
    <3>3. (IF k < i THEN k ELSE k + 1) \in 1 .. Len(timers) + 1
      BY <1>3
    <3> QED BY <1>2, <3>2, <3>3
  <2> QED BY <2>1, <2>2
<1> QED BY <1>2, <1>6, <1>7, <1>8 DEF TimersInv, Pending, Finished, State

LEMMA TimersExpire ==
  ASSUME DataInv, TimersInv, processTimers
  PROVE  TimersInv' /\ Len(futs)' = Len(futs)
<1> DEFINE n == Len(futs)
           F == Of("sleep")
           list == [i \in 1 .. Len(timers) |-> timers[i].fut]
           r == Expired
<1>1. n \in Nat /\ F \in SUBSET (1 .. n) /\ timers \in Seq([fut : F, left : Nat]) /\ State \in States(n, Of("timeout"))
  BY FutsTyped DEF DataInv, Of, Timer
<1>2. Answer(n, Of("timeout"), State, Due, list, "done", r)
  BY <1>1, ExpiredDoes
<1>3. /\ Len(timers) \in Nat /\ Due \in 0 .. Len(timers) /\ \A i \in 1 .. Len(timers) : timers[i].fut \in F
  BY <1>1, DueIs, TimersAre
<1>4. r.futs = futs' /\ timers' = SubSeq(timers, Due + 1, Len(timers))
  BY DEF processTimers, Becomes
<1>5. Len(futs') = n
  BY <1>2, <1>4, Fields DEF Answer, States
<1>6. \A g \in 1 .. n : /\ futs'[g].kind = futs[g].kind
                        /\ futs'[g].answer = IF \E j \in 1 .. Due : list[j] = g THEN "done" ELSE futs[g].answer
  BY <1>2, <1>4 DEF Answer, State
<1>7. /\ Len(timers') = Len(timers) - Due
      /\ \A i \in 1 .. Len(timers) - Due : timers'[i] = timers[Due + i]
  <2>0. \A i \in 1 .. Len(timers) : timers[i] \in [fut : F, left : Nat]
    BY <1>1, ElementOfSeq
  <2>1. \A i \in Due + 1 .. Len(timers) : timers[i] \in [fut : F, left : Nat]
    BY <1>3, <2>0
  <2>2. Due + 1 \in Int /\ Len(timers) \in Int
    BY <1>3
  <2>3. /\ Len(timers') = (IF Due + 1 <= Len(timers) THEN Len(timers) - (Due + 1) + 1 ELSE 0)
        /\ \A i \in 1 .. Len(timers) - (Due + 1) + 1 : timers'[i] = timers[Due + 1 + i - 1]
    BY <1>4, <2>1, <2>2, SubSeqProperties
  <2> QED BY <1>3, <2>3
<1> HIDE DEF n, F, r
<1>8. \A i \in 1 .. Len(timers) - Due : Due + i \in 1 .. Len(timers) /\ \A j \in 1 .. Due : j \in 1 .. Len(timers) /\ j # Due + i
  BY <1>3
<1>9. ASSUME NEW i \in 1 .. Len(timers) - Due PROVE futs'[timers'[i].fut].answer = "none"
  <2>1. timers[Due + i].fut \in 1 .. n /\ futs[timers[Due + i].fut].answer = "none"
    BY <1>1, <1>3, <1>8 DEF TimersInv, Pending, Finished, State
  <2>2. \A j \in 1 .. Due : list[j] # timers[Due + i].fut
    BY <1>8 DEF TimersInv
  <2> QED BY <1>6, <1>7, <2>1, <2>2
<1>10. \A i, j \in 1 .. Len(timers) - Due : timers'[i].fut = timers'[j].fut => i = j
  <2> SUFFICES ASSUME NEW i \in 1 .. Len(timers) - Due, NEW j \in 1 .. Len(timers) - Due, timers'[i].fut = timers'[j].fut
               PROVE  i = j
    OBVIOUS
  <2>1. Due + i = Due + j
    BY <1>7, <1>8 DEF TimersInv
  <2> QED BY <1>3, <2>1
<1>11. ASSUME NEW g \in 1 .. n, futs'[g].kind = "sleep", futs'[g].answer = "none"
       PROVE  \E i \in 1 .. Len(timers) - Due : timers'[i].fut = g
  <2>1. futs[g].kind = "sleep" /\ futs[g].answer = "none" /\ \A j \in 1 .. Due : list[j] # g
    BY <1>6, <1>11
  <2>2. PICK k \in 1 .. Len(timers) : timers[k].fut = g
    BY <2>1 DEF TimersInv, Pending, Finished, State, n
  <2>3. ~(k \in 1 .. Due)
    BY <2>1, <2>2
  <2>4. k - Due \in 1 .. Len(timers) - Due /\ Due + (k - Due) = k
    BY <1>3, <2>3
  <2> QED BY <1>7, <2>2, <2>4
<1>12. TimersInv'
  BY <1>5, <1>7, <1>9, <1>10, <1>11 DEF TimersInv, Pending, Finished, State
<1> QED BY <1>5, <1>12 DEF n

LEMMA SleepsGrow ==
  ASSUME \A g \in 1 .. Len(futs) : g \in 1 .. Len(futs)' /\ futs'[g].kind = futs[g].kind
  PROVE  Seq(Timer(Of("sleep"))) \subseteq Seq(Timer(Of("sleep")'))
<1>1. Of("sleep") \subseteq Of("sleep")'
  BY DEF Of
<1>2. PICK A, B : A = Timer(Of("sleep")) /\ B = Timer(Of("sleep")')
  OBVIOUS
<1>3. A \subseteq B
  BY <1>1, <1>2 DEF Timer
<1>4. Seq(A) \subseteq Seq(B)
  BY <1>3
<1> QED BY <1>2, <1>4

LEMMA SleepsSpared ==
  ASSUME NEW K, "sleep" \notin K, Spared(State, State', K)
  PROVE  SleepsSame
BY DEF Spared, SleepsSame, Of, State

(* Other steps of these make no future or that of an operation.            *)
LEMMA PlainMakes ==
  ASSUME QueuesInv, Plain, \A ms \in Delays : ~sleepAsync(ms)
  PROVE  \/ Len(futs)' = Len(futs)
         \/ /\ Len(futs)' = Len(futs) + 1
            /\ futs'[Len(futs) + 1].kind \in IoKinds /\ futs'[Len(futs) + 1].of \in Sockets
<1> DEFINE Concl == \/ Len(futs)' = Len(futs)
                    \/ /\ Len(futs)' = Len(futs) + 1
                       /\ futs'[Len(futs) + 1].kind \in IoKinds /\ futs'[Len(futs) + 1].of \in Sockets
<1>1. DataInv /\ LoopInv /\ PlaceInv
  BY DEF QueuesInv
<1>2. ASSUME NEW fd \in Sockets, NEW k \in IoKinds, Asked(k, fd) PROVE Concl
  BY <1>2 DEF Asked
<1>3. "recv" \in IoKinds /\ "send" \in IoKinds
  BY DEF IoKinds
<1>4. \A fd \in Sockets : Shut(fd) \/ Watches(fd) => Concl
  BY DEF Shut, Watches, Relisted
<1> HIDE DEF Concl
<1>5. CASE \E fd \in Sockets : Recv(fd) \/ Close(fd) \/ \E n \in SendSizes : Send(fd, n)
  <2>1. PICK fd \in Sockets : Recv(fd) \/ Close(fd) \/ \E n \in SendSizes : Send(fd, n)
    BY <1>5
  <2>2. Asked("recv", fd) \/ Shut(fd) \/ Asked("send", fd)
    BY <1>1, <2>1, RecvDoes, CloseDoes, SendDoes
  <2>3. Concl
    BY <1>2, <1>3, <1>4, <2>2
  <2> QED BY <2>3 DEF Concl
<1>6. CASE CallBack
  <2>1. Tried(Fd, io.cur[1])
    BY <1>1, <1>6, CallBackDoes
  <2> QED BY <2>1 DEF Tried
<1>7. CASE CallWatcher
  <2>1. \/ Unchanged \/ Watches(Fd) \/ Asked("recv", Fd) \/ \E fd \in Sockets : Shut(fd)
    BY <1>1, <1>7, CallWatcherDoes
  <2>2. Fd \in Sockets
    BY <1>1, <1>7, AtFd DEF CallWatcher, CallsNext, Dispatching
  <2>3. Unchanged => Concl
    BY DEF Unchanged, Concl
  <2>4. Concl
    BY <1>2, <1>3, <1>4, <2>1, <2>2, <2>3
  <2> QED BY <2>4 DEF Concl
<1>8. CASE \/ \E fd \in Sockets : Watch(fd)
           \/ Join \/ StartTask \/ Select \/ SelectReturns \/ MoveOut \/ MoveBack \/ NextKey \/ PollReturns
           \/ Environment \/ UNCHANGED vars
  BY <1>8, SilentSteps DEF Silent
<1> QED BY <1>5, <1>6, <1>7, <1>8 DEF Plain

LEMMA PlainSleeps ==
  ASSUME QueuesInv, Plain, \A ms \in Delays : ~sleepAsync(ms), Ages(State, State')
  PROVE  NoNewSleeps
<1> SUFFICES ASSUME NEW g \in 1 .. Len(futs)', futs'[g].kind = "sleep" PROVE g \in Of("sleep")
  BY DEF NoNewSleeps
<1>1. \A f \in 1 .. Len(futs) : futs'[f].kind = futs[f].kind
  BY DEF Ages, State
<1>2. Len(futs) \in Nat
  BY FutsTyped DEF QueuesInv
<1>3. g \in 1 .. Len(futs)
  <2>1. Len(futs)' = Len(futs) \/ (Len(futs)' = Len(futs) + 1 /\ futs'[Len(futs) + 1].kind # "sleep")
    BY PlainMakes DEF IoKinds
  <2> QED BY <1>2, <2>1
<1> QED BY <1>1, <1>3 DEF Of

LEMMA PlainTimers ==
  ASSUME QueuesInv, Plain, \A ms \in Delays : ~sleepAsync(ms)
  PROVE  Len(timers)' = Len(timers) /\ \A i \in 1 .. Len(timers) : timers'[i].fut = timers[i].fut
<1>1. CASE Environment
  <2>1. CASE Tick
    <3>1. timers' = [i \in DOMAIN timers |-> [timers[i] EXCEPT !.left = Less(@)]]
      BY <2>1 DEF Tick
    <3>2. /\ Len(timers) \in Nat /\ DOMAIN timers = 1 .. Len(timers)
          /\ \A i \in 1 .. Len(timers) : timers[i] \in Timer(Of("sleep"))
      BY TimersAre, LenProperties DEF QueuesInv, DataInv
    <3>3. Len(timers') = Len(timers)
      BY <3>1, <3>2
    <3>4. \A i \in 1 .. Len(timers) : timers'[i].fut = timers[i].fut
      BY <3>1, <3>2 DEF Timer
    <3> QED BY <3>3, <3>4
  <2>2. CASE \E fd \in Sockets : Arrive(fd) \/ PeerReads(fd) \/ HangUp(fd)
    BY <2>2 DEF Arrive, PeerReads, HangUp, loop
  <2> QED BY <1>1, <2>1, <2>2 DEF Environment
<1>2. CASE ~Environment
  <2>1. timers' = timers
    BY <1>2 DEF Plain, Recv, Send, Close, Watch, Join, StartTask, Select, SelectReturns, MoveOut, CallBack,
                CallWatcher, MoveBack, NextKey, PollReturns, IoOnly, vars, loop
  <2> QED BY <2>1
<1> QED BY <1>1, <1>2

LEMMA TimersKept ==
  ASSUME QueuesInv, QueuesInv', WaitersInv, ScheduleInv, TimersInv, [Next]_vars
  PROVE  TimersInv'
<1>1. DataInv /\ LoopInv /\ Len(futs) \in Nat
  BY FutsTyped DEF QueuesInv
<1>2. CASE \E ms \in Delays : sleepAsync(ms)
  <2>1. PICK ms \in Delays : sleepAsync(ms)
    BY <1>2
  <2>2. Follows(State, State') /\ Spared(State, State', IoKinds)
    BY <1>2, PlainFollows DEF Plain
  <2>3. PICK x : x = Future("sleep", 0, 0) /\ futs' = Append(futs, x) /\ x.answer = "none"
    BY <2>1, MakesOne DEF sleepAsync
  <2>4. PICK n : n = Len(futs) + 1
    OBVIOUS
  <2>5. Len(futs)' = n /\ futs'[n] = x /\ x.kind = "sleep"
    BY <1>1, <2>3, <2>4, FutsTyped DEF Future
  <2>6. n \in Of("sleep")' /\ n \notin 1 .. Len(futs) /\ Pending(n)'
    BY <1>1, <2>3, <2>4, <2>5 DEF Of, Pending, Finished, State
  <2>7. SleepsSame /\ \A g \in 1 .. Len(futs)' : futs'[g].kind = "sleep" => g \in Of("sleep") \/ g = n
    <3>1. \A g \in 1 .. Len(futs)' : g \in 1 .. Len(futs) \/ g = n
      BY <1>1, <2>4, <2>5
    <3>2. \A g \in 1 .. Len(futs) : futs'[g].kind = futs[g].kind
      BY <2>2 DEF Follows, Ages, State
    <3> QED BY <2>2, <3>1, <3>2, SleepsSpared DEF IoKinds, Of
  <2>8. ms \in Nat /\ PushTimer(n, ms)
    BY <2>1, <2>4, ConstantsAssumption DEF sleepAsync
  <2>9. Seq(Timer(Of("sleep"))) \subseteq Seq(Timer(Of("sleep")'))
    <3>1. \A g \in 1 .. Len(futs) : g \in 1 .. Len(futs)' /\ futs'[g].kind = futs[g].kind
      BY <2>2 DEF Follows, Ages, State
    <3> QED BY <3>1, SleepsGrow
  <2> QED BY <1>1, <2>6, <2>7, <2>8, <2>9, TimersPush
<1>3. CASE Plain /\ \A ms \in Delays : ~sleepAsync(ms)
  <2>1. Follows(State, State') /\ Spared(State, State', IoKinds)
    BY <1>3, PlainFollows
  <2>2. SleepsSame /\ NoNewSleeps
    BY <1>3, <2>1, SleepsSpared, PlainSleeps DEF IoKinds, Follows
  <2> QED BY <1>1, <1>3, <2>2, PlainTimers, TimersStay
<1>4. CASE Poll \/ Dispatched
  <2>1. CASE processTimers
    BY <1>1, <2>1, TimersExpire
  <2>2. CASE Unchanged /\ UNCHANGED timers
    BY <2>2 DEF Unchanged, TimersInv, Pending, Finished, State
  <2> QED BY <1>4, <2>1, <2>2 DEF Poll, Dispatched
<1>5. ASSUME NEW K, "sleep" \notin K, Spared(State, State', K), Follows(State, State'), Len(futs)' = Len(futs), timers' = timers
      PROVE  TimersInv'
  <2>1. SleepsSame
    BY <1>5, SleepsSpared
  <2>2. NoNewSleeps
    BY <1>5 DEF Follows, Ages, NoNewSleeps, Of, State
  <2> QED BY <1>1, <1>5, <2>1, <2>2, TimersStay
<1>6. CASE RunCallback
  <2>1. Follows(State, State') /\ Spared(State, State', {"timeout"}) /\ Len(futs)' = Len(futs)
    BY <1>1, <1>6, RunFollows
  <2> QED BY <1>5, <1>6, <2>1 DEF RunCallback
<1>7. CASE Await
  <2>1. Follows(State, State') /\ Spared(State, State', {}) /\ Len(futs)' = Len(futs)
    BY <1>1, <1>7, AwaitFollows
  <2> QED BY <1>5, <1>7, <2>1 DEF Await
<1>8. CASE Return
  <2>1. Pending(task)
    BY <1>1, <1>8, TaskIs, AtTask DEF Return, WaitersInv
  <2>2. Follows(State, State') /\ Spared(State, State', {"task"}) /\ Len(futs)' = Len(futs)
    BY <1>1, <1>8, <2>1, ReturnFollows
  <2> QED BY <1>5, <1>8, <2>2 DEF Return
<1>9. CASE \E ms \in Delays : WithTimeout(ms)
  <2>1. PICK ms \in Delays : WithTimeout(ms)
    BY <1>9
  <2>2. PICK n \in Nat :
           /\ n = Len(futs) /\ Len(futs)' = n + 2 /\ PushTimer(n + 2, ms)
           /\ Same(n, State, State', {}) /\ futs'[n + 1].kind = "timeout"
           /\ futs'[n + 2].kind = "sleep" /\ futs'[n + 2].answer = "none"
    BY <1>1, <2>1, WithTimeoutMakes
  <2>3. PICK u : u = n + 2
    OBVIOUS
  <2>4. u \in Of("sleep")' /\ u \notin 1 .. Len(futs) /\ Pending(u)'
    BY <2>2, <2>3 DEF Of, Pending, Finished, State
  <2>5. \A g \in 1 .. n : futs'[g].kind = futs[g].kind /\ futs'[g].answer = futs[g].answer
    BY <2>2 DEF Same, State
  <2>6. SleepsSame /\ \A g \in 1 .. Len(futs)' : futs'[g].kind = "sleep" => g \in Of("sleep") \/ g = u
    <3>1. \A g \in 1 .. Len(futs)' : g \in 1 .. n \/ g = n + 1 \/ g = u
      BY <2>2, <2>3
    <3>2. futs'[n + 1].kind # "sleep"
      BY <2>2
    <3> QED BY <2>2, <2>5, <3>1, <3>2 DEF SleepsSame, Of
  <2>7. ms \in Nat /\ PushTimer(u, ms)
    BY <2>2, <2>3, ConstantsAssumption
  <2>8. Seq(Timer(Of("sleep"))) \subseteq Seq(Timer(Of("sleep")'))
    <3>1. \A g \in 1 .. Len(futs) : g \in 1 .. Len(futs)' /\ futs'[g].kind = futs[g].kind
      BY <2>2, <2>5
    <3> QED BY <3>1, SleepsGrow
  <2> QED BY <1>1, <2>4, <2>6, <2>7, <2>8, TimersPush
<1> QED BY <1>2, <1>3, <1>4, <1>6, <1>7, <1>8, <1>9, Otherwise

(***************************************************************************)
(* Whoever set a timeout waits for its answer; as nobody else has the same *)
(* operation, nobody takes the future's callback from it.                  *)
(***************************************************************************)
ReturnInv ==
  \A r : IsTimeout(State, r) /\ Pending(r) =>
    \E t \in Tasks : op[t] = futs[r].of /\ \E i : Waits(State, Resume(t), r, i)

LEMMA WithTimeoutReturns ==
  ASSUME DataInv, LoopInv, NEW ms \in Delays, WithTimeout(ms)
  PROVE  /\ \A x, g, i : g # op[task] /\ Waits(State, x, g, i) => Waits(State', x, g, i)
         /\ \E i : Waits(State', Resume(task), Len(futs) + 1, i)
         /\ futs'[Len(futs) + 1].of = op[task] /\ task \in Tasks /\ op' = op
         /\ \A g \in 1 .. Len(futs) : futs'[g].of = futs[g].of /\ futs'[g].answer = futs[g].answer
<1>1. PICK n \in Nat : \E f \in 1 .. n :
           /\ n = Len(futs) /\ f = op[task] /\ task \in Tasks /\ TasksSame(State, State') /\ op' = op
           /\ Len(futs)' = n + 2 /\ PushTimer(n + 2, ms)
           /\ Same(n, State, State', {}) /\ State'.order = State.order
           /\ futs'[n + 1].kind = "timeout" /\ futs'[n + 1].of = f /\ futs'[n + 1].answer = "none"
           /\ futs'[n + 2].kind = "sleep" /\ futs'[n + 2].answer = "none"
           /\ \E c, e, k, j : /\ e \in {0, f} /\ (e = 0 <=> Finished(State, f))
                             /\ Joins(c, State', Resume(task), n + 1) /\ ~Finished(c, n + 1)
                             /\ Rewires(State, c, f, n + 1, e, k, j)
  BY WithTimeoutMakes
<1>2. PICK f \in 1 .. n :
           /\ n = Len(futs) /\ f = op[task] /\ task \in Tasks /\ op' = op
           /\ Same(n, State, State', {}) /\ futs'[n + 1].of = f
           /\ \E c, e, k, j : /\ Joins(c, State', Resume(task), n + 1) /\ ~Finished(c, n + 1)
                             /\ Rewires(State, c, f, n + 1, e, k, j)
  BY <1>1
<1>3. PICK c, e, k, j : /\ Joins(c, State', Resume(task), n + 1) /\ ~Finished(c, n + 1)
                        /\ Rewires(State, c, f, n + 1, e, k, j)
  BY <1>2
<1>4. PICK e0, k0 : /\ e0 \in {0, n + 1} /\ (e0 = 0 <=> Finished(c, n + 1))
                    /\ JoinsAt(c, State', Resume(task), e0, k0)
  BY <1>3 DEF Joins
<1>5. \A x, g, i : Waits(c, x, g, i) => Waits(State', x, g, i)
  BY <1>4 DEF JoinsAt
<1>6. \A x, g, i : g # f /\ Waits(State, x, g, i) => Waits(c, x, g, i)
  BY <1>3 DEF Rewires
<1>7. Waits(State', Resume(task), n + 1, k0)
  <2>1. e0 = n + 1
    BY <1>3, <1>4
  <2> QED BY <1>4, <2>1 DEF JoinsAt
<1>8. \A g \in 1 .. n : futs'[g].of = futs[g].of /\ futs'[g].answer = futs[g].answer
  BY <1>2 DEF Same, State
<1> QED BY <1>2, <1>5, <1>6, <1>7, <1>8

LEMMA ReturnKept ==
  ASSUME QueuesInv, QueuesInv', WaitersInv, ScheduleInv, TimersInv, HomeInv, OpsIn, ReturnInv, [Next]_vars
  PROVE  ReturnInv'
<1>1. DataInv /\ LoopInv /\ Len(futs) \in Nat /\ op \in [Tasks -> 0 .. Len(futs)]
  BY FutsTyped DEF QueuesInv, DataInv
<1> SUFFICES ASSUME NEW r, IsTimeout(State', r), ~Finished(State', r)
             PROVE  \E t \in Tasks : op'[t] = futs'[r].of /\ \E i : Waits(State', Resume(t), r, i)
  BY DEF ReturnInv, Pending
<1>2. IsTimeout(State, r) /\ ~Finished(State, r) =>
        \E t \in Tasks : op[t] = futs[r].of /\ \E i : Waits(State, Resume(t), r, i)
  BY DEF ReturnInv, Pending
<1>3. r # 0 /\ (IsTimeout(State, r) => r \in 1 .. Len(futs) /\ futs[r].kind = "timeout")
  BY DEF IsTimeout, State
<1>4. CASE \E ms \in Delays : WithTimeout(ms)
  <2>1. PICK ms \in Delays : WithTimeout(ms)
    BY <1>4
  <2>2. PICK n, w : n = Len(futs) + 1 /\ w = op[task]
    OBVIOUS
  <2>3. /\ \A x, g, i : g # w /\ Waits(State, x, g, i) => Waits(State', x, g, i)
        /\ \E i : Waits(State', Resume(task), n, i)
        /\ futs'[n].of = op[task] /\ task \in Tasks /\ op' = op
        /\ \A g \in 1 .. Len(futs) : futs'[g].of = futs[g].of /\ futs'[g].answer = futs[g].answer
    BY <1>1, <2>1, <2>2, WithTimeoutReturns
  <2>4. IsTimeout(State, r) \/ r = n
    BY <1>1, <2>1, <2>2, WithTimeoutSchedules
  <2>5. CASE r = n
    BY <2>3, <2>5
  <2>6. CASE IsTimeout(State, r)
    <3>1. ~Finished(State, r) /\ futs'[r].of = futs[r].of
      BY <1>3, <2>3, <2>6 DEF Finished, State
    <3>2. PICK t \in Tasks : op[t] = futs[r].of /\ \E i : Waits(State, Resume(t), r, i)
      BY <1>2, <2>6, <3>1
    <3>3. w # 0
      BY <2>1, <2>2 DEF WithTimeout
    <3>4. r # w
      BY <1>3, <2>2, <2>3, <2>6, <3>3 DEF HomeInv
    <3> QED BY <2>3, <3>1, <3>2, <3>4
  <2> QED BY <2>4, <2>5, <2>6
<1>5. CASE \A ms \in Delays : ~WithTimeout(ms)
  <2>1. Ages(State, State')
    BY <1>5, StepFollows DEF Follows
  <2>2. IsTimeout(State, r) /\ ~Finished(State, r) /\ futs'[r].of = futs[r].of
    <3>1. IsTimeout(State, r)
      BY <2>1 DEF Ages
    <3> QED BY <1>3, <2>1, <3>1 DEF Ages, State
  <2>3. PICK t \in Tasks : op[t] = futs[r].of /\ \E i : Waits(State, Resume(t), r, i)
    BY <1>2, <2>2
  <2>4. \E i : Waits(State', Resume(t), r, i)
    BY <1>3, <2>1, <2>3 DEF Ages
  <2>5. t # task
    BY <2>3 DEF WaitersInv, Known, Awaiting
  <2>6. op'[t] = op[t]
    BY <1>1, <2>5, OpsMove DEF Chooses
  <2> QED BY <2>2, <2>3, <2>4, <2>6
<1> QED BY <1>4, <1>5

LEMMA ListenKept ==
  ASSUME QueuesInv, QueuesInv', WaitersInv, ScheduleInv, TimersInv, HomeInv, OpsIn, ReturnInv, Unshared,
         AllListen(State), [Next]_vars
  PROVE  AllListen(State')
<1>1. CASE \E ms \in Delays : WithTimeout(ms)
  <2>1. PICK ms \in Delays : WithTimeout(ms)
    BY <1>1
  <2>2. task \in Tasks /\ op[task] # 0
    BY <2>1, AtTask DEF QueuesInv, WithTimeout
  <2>3. ASSUME NEW r, IsTimeout(State, r), Pending(r) PROVE futs[r].of # op[task]
    <3>1. PICK t \in Tasks : op[t] = futs[r].of /\ \E i : Waits(State, Resume(t), r, i)
      BY <2>3 DEF ReturnInv
    <3>2. t # task
      BY <3>1 DEF WaitersInv, Known, Awaiting
    <3> QED BY <2>2, <3>1, <3>2 DEF Unshared
  <2> QED BY <2>1, <2>3, WithTimeoutSchedules DEF QueuesInv
<1>2. CASE \A ms \in Delays : ~WithTimeout(ms)
  BY <1>2, StepFollows DEF Follows
<1> QED BY <1>1, <1>2

LEMMA TimeoutsInitially ==
  ASSUME Init
  PROVE  ScheduleInv /\ TimersInv /\ OpsIn /\ ReturnInv /\ AllListen(State)
<1>1. /\ NTasks \in Nat /\ Len(futs) = NTasks /\ State.futs = futs /\ Len(order) = 0 /\ Len(ready) = 0
      /\ Len(timers) = 0 /\ State.order = order /\ State.ready = ready
      /\ \A t \in 1 .. NTasks : /\ futs[t].kind = "task" /\ futs[t].answer = "none"
                                /\ Len(futs[t].callbacks) = 0
  BY ConstantsAssumption DEF Init, Tasks, Future, State
<1>2. \A r : ~IsTimeout(State, r)
  BY <1>1 DEF IsTimeout
<1>3. \A cb, g, i : ~Waits(State, cb, g, i)
  BY <1>1 DEF Waits, Has
<1>4. \A f, i : ~Has(State.order, f, i)
  BY <1>1 DEF Has
<1>5. Scheduled(State)
  BY <1>1, <1>2, <1>3, <1>4 DEF Scheduled, Once, Pairs, Placed, InTurn, Finished
<1>6. TimersInv
  BY <1>1 DEF TimersInv
<1> QED BY <1>2, <1>5, <1>6 DEF ScheduleInv, AllExpire, AllListen, OpsIn, ReturnInv
TimeoutInv == ResumingInv /\ ScheduleInv /\ TimersInv /\ OpsIn /\ ReturnInv

LEMMA TimeoutStep ==
  ASSUME TimeoutInv, [Next]_vars
  PROVE  TimeoutInv'
<1>1. ResumingInv'
  BY ResumingStep DEF TimeoutInv
<1>2. ScheduleInv' /\ TimersInv' /\ OpsIn' /\ ReturnInv'
  BY <1>1, ScheduleKept, TimersKept, OpsKept, ReturnKept DEF TimeoutInv, ResumingInv
<1> QED BY <1>1, <1>2 DEF TimeoutInv

LEMMA TimeoutsHold == Spec => []TimeoutInv
<1>1. Init => TimeoutInv
  BY QueuesInitially, WaitersInitially, TimeoutsInitially DEF TimeoutInv, ResumingInv
<1>2. TimeoutInv /\ [Next]_vars => TimeoutInv'
  BY TimeoutStep
<1> QED BY <1>1, <1>2, PTL DEF Spec

(* A future finishes once, and withTimeout answers "true" only if its      *)
(* future has finished, and not after the sleep, and "false" only if the   *)
(* sleep has ended.                                                        *)
AnswersInTime ==
  /\ \A f \in DOMAIN futs : Times(f, order) = IF Pending(f) THEN 0 ELSE 1
  /\ \A r \in DOMAIN futs : futs[r].kind = "timeout" /\ ~Pending(r) =>
       IF futs[r].answer = "false" THEN ~Pending(r + 1)
       ELSE ~Pending(futs[r].of) /\ ~Before(r + 1, futs[r].of)

LEMMA BeforeIs ==
  ASSUME DataInv
  PROVE  \A f, g : Before(f, g) <=> Earlier(State, f, g)
<1>1. DOMAIN order = 1 .. Len(order) /\ State.order = order
  BY LenProperties DEF DataInv, States, State
<1> QED BY <1>1 DEF Before, Earlier, Has

LEMMA TimesOf ==
  ASSUME NEW S, NEW s \in Seq(S), NEW x, \A i, j : Has(s, x, i) /\ Has(s, x, j) => i = j
  PROVE  Times(x, s) = IF \E i : Has(s, x, i) THEN 1 ELSE 0
<1>1. Times(x, s) = Cardinality({i \in DOMAIN s : s[i] = x}) /\ DOMAIN s = 1 .. Len(s)
  BY LenProperties DEF Times
<1>2. CASE \E i : Has(s, x, i)
  <2>1. PICK i : Has(s, x, i)
    BY <1>2
  <2>2. {k \in DOMAIN s : s[k] = x} = {i}
    BY <1>1, <2>1 DEF Has
  <2> QED BY <1>1, <1>2, <2>2, FS_Singleton
<1>3. CASE ~\E i : Has(s, x, i)
  <2>1. {k \in DOMAIN s : s[k] = x} = {}
    BY <1>1, <1>3 DEF Has
  <2> QED BY <1>1, <1>3, <2>1, FS_EmptySet
<1> QED BY <1>2, <1>3

LEMMA InTimeFollows ==
  ASSUME TimeoutInv
  PROVE  AnswersInTime
<1>1. /\ DataInv /\ Scheduled(State) /\ DOMAIN futs = 1 .. Len(futs)
      /\ State.futs = futs /\ State.order = order /\ order \in Seq(1 .. Len(futs))
  BY FutsTyped DEF TimeoutInv, ResumingInv, QueuesInv, ScheduleInv, DataInv, States, State
<1>2. ASSUME NEW f \in DOMAIN futs PROVE Times(f, order) = IF Pending(f) THEN 0 ELSE 1
  <2>1. \A i, j : Has(order, f, i) /\ Has(order, f, j) => i = j
    BY <1>1 DEF Scheduled, Once
  <2>2. Finished(State, f) <=> \E i : Has(order, f, i)
    BY <1>1 DEF Scheduled, Once
  <2>3. Times(f, order) = IF \E i : Has(order, f, i) THEN 1 ELSE 0
    BY <1>1, <2>1, TimesOf
  <2> QED BY <2>2, <2>3 DEF Pending
<1>3. ASSUME NEW r \in DOMAIN futs, futs[r].kind = "timeout", ~Pending(r)
      PROVE  IF futs[r].answer = "false" THEN ~Pending(r + 1)
             ELSE ~Pending(futs[r].of) /\ ~Before(r + 1, futs[r].of)
  <2>1. Expires(State, r) /\ Finished(State, r)
    BY <1>1, <1>3 DEF TimeoutInv, ScheduleInv, AllExpire, IsTimeout, Pending
  <2> QED BY <1>1, <2>1, BeforeIs DEF Expires, Pending
<1> QED BY <1>2, <1>3 DEF AnswersInTime

(* Whatever else tasks do with a future, no future finishes twice, and the *)
(* answer of withTimeout is never given before what it tells of has come:  *)
(* a sleep that has ended first is never answered by "true".               *)
THEOREM NoAnswerTooEarly == Spec => []AnswersInTime
BY InTimeFollows, TimeoutsHold, PTL

LEMMA TellsFollows ==
  ASSUME TimeoutInv, AllListen(State)
  PROVE  AnswersTell
<1>1. /\ DataInv /\ DOMAIN futs = 1 .. Len(futs) /\ State.futs = futs
  BY FutsTyped DEF TimeoutInv, ResumingInv, QueuesInv, State
<1>2. AnswersInTime
  BY InTimeFollows
<1>3. ASSUME NEW r \in DOMAIN futs, futs[r].kind = "timeout", ~Pending(r), futs[r].answer = "false"
      PROVE  ~Before(futs[r].of, r + 1)
  <2>1. Listens(State, r) /\ Finished(State, r)
    BY <1>1, <1>3 DEF AllListen, IsTimeout, Pending
  <2> QED BY <1>1, <1>3, <2>1, BeforeIs DEF Listens
<1> QED BY <1>2, <1>3 DEF AnswersInTime, AnswersTell

(* The answer of withTimeout tells which of the two finished first, as     *)
(* long as no two tasks have the same latest operation: who sets a timeout *)
(* for a future takes its callback from another timeout (asyncfutures.nim: *)
(* 272), which is then answered "false" although its future was first.     *)
THEOREM TimeoutsTell == Spec /\ []Unshared => []AnswersTell
<1>1. Init => AllListen(State)
  BY TimeoutsInitially
<1>2. TimeoutInv /\ TimeoutInv' /\ Unshared /\ AllListen(State) /\ [Next]_vars => AllListen(State)'
  BY ListenKept DEF TimeoutInv, ResumingInv
<1>3. TimeoutInv /\ AllListen(State) => AnswersTell
  BY TellsFollows
<1> QED BY <1>1, <1>2, <1>3, TimeoutsHold, PTL DEF Spec

(* Two tasks cannot have the same latest operation.                        *)
THEOREM TwoTimeoutsTell ==
  ASSUME NTasks <= 2
  PROVE  Spec => []AnswersTell
BY NeverShared, TimeoutsTell, PTL

(***************************************************************************)
(* The loop has something to wait for.                                     *)
(***************************************************************************)
(* The tasks' futures are made by main, and operations are of sockets.     *)
MadeInv ==
  \A f \in 1 .. Len(futs) : /\ futs[f].kind = "task" => f \in Tasks
                            /\ futs[f].kind \in IoKinds => futs[f].of \in Sockets

(* Nobody waits for a socket that is closed.                               *)
ClosedInv == \A fd \in Sockets : ~fds[fd].open => fds[fd].readList = << >> /\ fds[fd].writeList = << >>

(* updateHandle finds the socket that was reported, or its peer has hung   *)
(* up: a socket is closed before its turn only if no event is left for it. *)
HeadInv ==
  keys # << >> /\ io.event = "none" /\ keys[1].events = {} /\ keys[1].counts.read # -1
    => fds[Fd].open \/ hungup[Fd]

LEMMA NewMade ==
  ASSUME Len(futs) \in Nat, NEW k \in Nat, Len(futs)' = Len(futs) + k, MadeInv,
         \A g \in 1 .. Len(futs) : futs'[g].kind = futs[g].kind /\ futs'[g].of = futs[g].of,
         \A j \in 1 .. k : /\ futs'[Len(futs) + j].kind # "task"
                           /\ futs'[Len(futs) + j].kind \in IoKinds => futs'[Len(futs) + j].of \in Sockets
  PROVE  MadeInv'
<1> SUFFICES ASSUME NEW f \in 1 .. Len(futs)'
             PROVE  /\ futs'[f].kind = "task" => f \in Tasks
                    /\ futs'[f].kind \in IoKinds => futs'[f].of \in Sockets
  BY DEF MadeInv
<1>1. CASE f \in 1 .. Len(futs)
  BY <1>1 DEF MadeInv
<1>2. CASE f \notin 1 .. Len(futs)
  <2>1. f - Len(futs) \in 1 .. k /\ Len(futs) + (f - Len(futs)) = f
    BY <1>2
  <2> QED BY <2>1
<1> QED BY <1>1, <1>2

LEMMA MadeKept ==
  ASSUME TimeoutInv, TimeoutInv', MadeInv, [Next]_vars
  PROVE  MadeInv'
<1>1. QueuesInv /\ QueuesInv' /\ DataInv /\ LoopInv /\ Len(futs) \in Nat
  BY FutsTyped DEF TimeoutInv, ResumingInv, QueuesInv
<1>2. ASSUME \A ms \in Delays : ~WithTimeout(ms)
      PROVE  \A g \in 1 .. Len(futs) : futs'[g].kind = futs[g].kind /\ futs'[g].of = futs[g].of
  BY <1>2, StepFollows DEF TimeoutInv, ResumingInv, Follows, Ages, State
<1>3. CASE Len(futs)' = Len(futs) /\ \A ms \in Delays : ~WithTimeout(ms)
  <2>1. 0 \in Nat /\ Len(futs)' = Len(futs) + 0
    BY <1>1, <1>3
  <2>2. \A j \in 1 .. 0 : FALSE
    OBVIOUS
  <2> QED BY <1>1, <1>2, <1>3, <2>1, <2>2, NewMade
<1>4. CASE /\ Len(futs)' = Len(futs) + 1 /\ futs'[Len(futs) + 1].kind # "task"
           /\ futs'[Len(futs) + 1].kind \in IoKinds => futs'[Len(futs) + 1].of \in Sockets
           /\ \A ms \in Delays : ~WithTimeout(ms)
  <2>1. 1 \in Nat /\ \A j \in 1 .. 1 : j = 1
    OBVIOUS
  <2> QED BY <1>1, <1>2, <1>4, <2>1, NewMade
<1>5. CASE \E ms \in Delays : WithTimeout(ms)
  <2>1. PICK ms \in Delays : WithTimeout(ms)
    BY <1>5
  <2>2. PICK n \in Nat :
           /\ n = Len(futs) /\ Len(futs)' = n + 2 /\ Same(n, State, State', {})
           /\ futs'[n + 1].kind = "timeout" /\ futs'[n + 2].kind = "sleep"
    BY <1>1, <2>1, WithTimeoutMakes
  <2>3. \A j \in 1 .. 2 : j = 1 \/ j = 2
    OBVIOUS
  <2>4. \A g \in 1 .. Len(futs) : futs'[g].kind = futs[g].kind /\ futs'[g].of = futs[g].of
    BY <2>2 DEF Same, State
  <2>5. \A j \in 1 .. 2 : futs'[n + j].kind # "task" /\ futs'[n + j].kind \notin IoKinds
    BY <2>2, <2>3 DEF IoKinds
  <2>6. 2 \in Nat
    OBVIOUS
  <2> QED BY <1>1, <2>2, <2>4, <2>5, <2>6, NewMade
<1>6. CASE ~(\E ms \in Delays : WithTimeout(ms)) /\ ~Plain
  <2>1. Poll \/ Dispatched \/ RunCallback \/ Await \/ Return
    BY <1>6, Otherwise
  <2>2. Len(futs)' = Len(futs)
    <3>1. CASE RunCallback
      BY <1>1, <3>1, RunFollows DEF TimeoutInv
    <3>2. CASE Await
      BY <1>1, <3>2, AwaitFollows DEF TimeoutInv
    <3>3. CASE Return
      <4>1. Pending(task)
        BY <1>1, <3>3, TaskIs, AtTask DEF Return, WaitersInv, TimeoutInv, ResumingInv
      <4> QED BY <1>1, <3>3, <4>1, ReturnFollows DEF TimeoutInv
    <3>4. CASE (Poll \/ Dispatched) /\ processTimers
      BY <1>1, <3>4, TimersExpire DEF TimeoutInv
    <3>5. CASE Unchanged
      BY <3>5 DEF Unchanged
    <3> QED BY <2>1, <3>1, <3>2, <3>3, <3>4, <3>5 DEF Poll, Dispatched
  <2> QED BY <1>3, <1>6, <2>2
<1>7. CASE ~(\E ms \in Delays : WithTimeout(ms)) /\ Plain /\ ~\E ms \in Delays : sleepAsync(ms)
  <2>1. \/ Len(futs)' = Len(futs)
        \/ /\ Len(futs)' = Len(futs) + 1
           /\ futs'[Len(futs) + 1].kind \in IoKinds /\ futs'[Len(futs) + 1].of \in Sockets
    BY <1>1, <1>7, PlainMakes
  <2> QED BY <1>3, <1>4, <1>7, <2>1 DEF IoKinds
<1>8. CASE ~(\E ms \in Delays : WithTimeout(ms)) /\ \E ms \in Delays : sleepAsync(ms)
  <2>1. PICK x : x = Future("sleep", 0, 0) /\ futs' = Append(futs, x)
    BY <1>8, MakesOne DEF sleepAsync
  <2>2. Len(futs)' = Len(futs) + 1 /\ futs'[Len(futs) + 1].kind = "sleep"
    BY <1>1, <2>1, FutsTyped DEF Future
  <2> QED BY <1>4, <1>8, <2>2 DEF IoKinds
<1> QED BY <1>5, <1>6, <1>7, <1>8

LEMMA ClosedKept ==
  ASSUME DataInv, LoopInv, PlaceInv, ClosedInv, Moves
  PROVE  ClosedInv'
<1>1. CASE Quiet
  BY <1>1 DEF Quiet, ClosedInv
<1>2. ASSUME NEW fd \in Sockets, Others(fd),
             ~fds'[fd].open => fds'[fd].readList = << >> /\ fds'[fd].writeList = << >>
      PROVE  ClosedInv'
  BY <1>2 DEF Others, ClosedInv
<1>3. ASSUME NEW fd \in Sockets, Shut(fd) PROVE ClosedInv'
  BY <1>2, <1>3 DEF Shut, Closed
<1>4. ASSUME NEW fd \in Sockets, fds[fd].open, Watches(fd) \/ \E k \in IoKinds : Asked(k, fd) PROVE ClosedInv'
  BY <1>2, <1>4 DEF Watches, Relisted, Asked
<1>5. ASSUME fds' = fds PROVE ClosedInv'
  BY <1>5 DEF ClosedInv
<1>6. CASE SelectReturns
  BY <1>5, <1>6 DEF SelectReturns, Unchanged
<1>7. keys # << >> => Fd \in Sockets
  BY AtFd
<1>8. CASE MoveOut
  <2>1. keys # << >>
    BY <1>8 DEF MoveOut, Dispatching
  <2>2. Relisted(Fd, IF io'.event = "read" THEN << >> ELSE fds[Fd].readList,
                     IF io'.event = "read" THEN fds[Fd].writeList ELSE << >>, fds[Fd].interest)
    BY <1>8, MoveOutDoes
  <2> QED BY <1>2, <1>7, <2>1, <2>2 DEF Relisted, ClosedInv
<1>9. CASE CallBack
  BY <1>5, <1>9, CallBackDoes DEF Tried
<1>10. CASE CallWatcher
  <2>1. \/ Unchanged \/ (fds[Fd].open /\ (Watches(Fd) \/ Asked("recv", Fd))) \/ \E fd \in Sockets : Shut(fd)
    BY <1>10, CallWatcherDoes
  <2>2. Fd \in Sockets /\ "recv" \in IoKinds
    BY <1>7, <1>10 DEF CallWatcher, CallsNext, Dispatching, IoKinds
  <2> QED BY <1>3, <1>4, <1>5, <2>1, <2>2 DEF Unchanged
<1>11. CASE MoveBack
  <2>1. Fd \in Sockets
    BY <1>7, <1>11 DEF MoveBack, Dispatching
  <2>2. Unchanged \/ (fds[Fd].open /\ \E x, y, e : Relisted(Fd, x, y, e))
    BY <1>11, MoveBackDoes
  <2> QED BY <1>2, <1>5, <2>1, <2>2 DEF Unchanged, Relisted
<1>12. CASE NextKey
  <2>1. Fd \in Sockets
    BY <1>7, <1>12 DEF NextKey, Dispatching
  <2>2. Unchanged \/ (fds[Fd].open /\ \E x, y, e : Relisted(Fd, x, y, e))
    BY <1>12, NextKeyDoes
  <2> QED BY <1>2, <1>5, <2>1, <2>2 DEF Unchanged, Relisted
<1> QED BY <1>1, <1>3, <1>4, <1>6, <1>8, <1>9, <1>10, <1>11, <1>12 DEF Moves

LEMMA HeadKept ==
  ASSUME DataInv, LoopInv, PlaceInv, WatchedInv, HeadInv, SocketsAge, Moves
  PROVE  HeadInv'
<1> SUFFICES ASSUME keys' # << >>, io'.event = "none", keys'[1].events = {}, keys'[1].counts.read # -1
             PROVE  fds'[keys'[1].fd].open \/ hungup'[keys'[1].fd]
  BY DEF HeadInv, Fd
<1>1. keys # << >> => Fd \in Sockets /\ ~Elsewhere
  BY AtFd DEF PlaceInv
<1>2. CASE Quiet /\ UNCHANGED <<io, keys>>
  BY <1>1, <1>2 DEF Quiet, SocketsAge, HeadInv, Fd
<1>3. CASE Elsewhere /\ UNCHANGED <<io, keys>>
  BY <1>1, <1>3
<1>4. CASE SelectReturns
  <2>1. 1 \in 1 .. Len(keys')
    BY <1>4, SelectReturnsDoes
  <2>2. hungup[keys'[1].fd] /\ hungup' = hungup
    BY <1>4, <2>1, SelectReturnsDoes DEF SelectReturns, Unchanged
  <2> QED BY <2>2
<1>5. CASE MoveOut
  <2>1. io'.event \in Events
    BY <1>5, MoveOutDoes
  <2> QED BY <2>1 DEF Events
<1>6. CASE CallBack \/ CallWatcher
  <2>1. io.event # "none"
    BY <1>6 DEF PlaceInv, CallBack, CallWatcher, CallsNext
  <2>2. io'.event = io.event
    BY <1>6, CallBackDoes, CallWatcherDoes DEF Leaves, Remains
  <2> QED BY <2>1, <2>2
<1>7. CASE MoveBack
  <2>1. keys # << >> /\ keys[1] \in Key /\ Len(keys) \in Nat \ {0} /\ keys \in Seq(Key)
    BY <1>7, AtFd DEF MoveBack, Dispatching, LoopInv
  <2>2. \A x : keys' = [keys EXCEPT ![1].counts = x] => keys'[1].fd = Fd /\ keys'[1].counts = x
    <3>1. PICK k \in Key : k = keys[1]
      BY <2>1
    <3>2. \A x : [k EXCEPT !.counts = x].fd = k.fd /\ [k EXCEPT !.counts = x].counts = x
      BY DEF Key
    <3>3. \A x : keys' = [keys EXCEPT ![1].counts = x] => keys'[1] = [k EXCEPT !.counts = x]
      BY <2>1, <3>1
    <3> QED BY <3>1, <3>2, <3>3 DEF Fd
  <2>3. CASE fds[Fd].open
    <3>1. \E x, y, e : Relisted(Fd, x, y, e)
      BY <1>7, <2>3, MoveBackDoes
    <3>2. fds'[Fd].open
      BY <2>3, <3>1 DEF Relisted
    <3>3. keys'[1].fd = Fd
      BY <1>7, <2>2 DEF MoveBack
    <3> QED BY <3>2, <3>3
  <2>4. CASE ~fds[Fd].open
    <3>1. keys' = [keys EXCEPT ![1].counts = [read |-> -1, write |-> -1]]
      BY <1>7, <2>4 DEF MoveBack
    <3>2. keys'[1].counts = [read |-> -1, write |-> -1]
      BY <2>2, <3>1
    <3> QED BY <3>2
  <2> QED BY <2>3, <2>4
<1>8. CASE NextKey
  <2>1. keys # << >> /\ keys' = Tail(keys) /\ keys \in Seq(Key)
    BY <1>8 DEF NextKey, Dispatching, LoopInv
  <2>2. /\ Len(keys) \in Nat /\ Len(keys') = Len(keys) - 1
        /\ \A i \in 1 .. Len(keys') : keys'[i] = keys[i + 1]
    BY <2>1, HeadTailProperties
  <2>3. 1 \in 1 .. Len(keys') /\ 2 \in 2 .. Len(keys) /\ 2 \in 1 .. Len(keys)
    BY <2>1, <2>2
  <2>4. keys'[1] = keys[2]
    BY <2>2, <2>3
  <2>5. keys[2] \in Key
    BY <2>1, <2>3, ElementOfSeq
  <2>6. hungup[keys[2].fd]
    BY <2>3, <2>4 DEF WatchedInv
  <2> QED BY <2>4, <2>5, <2>6 DEF SocketsAge, Key
<1> QED BY <1>2, <1>3, <1>4, <1>5, <1>6, <1>7, <1>8 DEF Moves

(* Who awaits an operation of a socket is in its list, and epoll watches.  *)
LEMMA OperationWaits ==
  ASSUME QueuesInv, WatchedInv, MadeInv, ClosedInv, keys = << >>,
         NEW g \in 1 .. Len(futs), futs[g].kind \in IoKinds, Pending(g), isEmpty
  PROVE  \E fd \in Sockets : hungup[fd]
<1>1. PICK fd \in Sockets : fd = futs[g].of
  BY DEF MadeInv
<1>2. Count(g, fd) = 1
  BY <1>1 DEF QueuesInv, CountInv
<1>3. Called(g, fd) = 0
  BY DEF Called
<1>4. DataInv /\ fds[fd].readList \in Seq(0 .. Len(futs)) /\ fds[fd].writeList \in Seq(0 .. Len(futs))
  BY ListsTyped DEF QueuesInv
<1>5. fds[fd].readList # << >> \/ fds[fd].writeList # << >>
  BY <1>2, <1>3, TimesEmpty DEF Count
<1>6. Listing(fds[fd]) # {}
  <2>1. "read" \in Events /\ "write" \in Events
    BY DEF Events
  <2> QED BY <1>5, <2>1 DEF Listing
<1>7. fds[fd].open
  BY <1>5 DEF ClosedInv
<1> QED BY <1>6, <1>7 DEF WatchedInv, isEmpty

LEMMA SomebodyWaits ==
  ASSUME TimeoutInv, AllWait, WatchedInv, MadeInv, ClosedInv,
         pc = "poll", Awaited, isEmpty, timers = << >>, ready = << >>
  PROVE  \E fd \in Sockets : hungup[fd]
<1>1. QueuesInv /\ WaitersInv /\ HomeInv /\ DataInv /\ LoopInv /\ PlaceInv /\ Scheduled(State) /\ AllExpire(State)
  BY DEF TimeoutInv, ResumingInv, QueuesInv, ScheduleInv
<1>2. keys = << >> /\ task = 0
  BY <1>1 DEF PlaceInv, Elsewhere, LoopInv, Running
<1>3. /\ State.futs = futs /\ State.ready = << >> /\ Len(futs) \in Nat
      /\ \A t \in Tasks : t \in 1 .. Len(futs) /\ futs[t].kind = "task"
  BY <1>1, FutsTyped DEF State, DataInv
<1>4. \A cb, i : ~Waits(State, cb, 0, i)
  BY <1>3 DEF Waits, Has
<1>5. \A g \in 1 .. Len(futs) : futs[g].kind = "sleep" => ~Pending(g)
  BY <1>1 DEF TimeoutInv, TimersInv
<1>6. \A cb, g, i : Waits(State, cb, g, i) => g \in 1 .. Len(futs) /\ g # 0 /\ Pending(g)
  <2> SUFFICES ASSUME NEW cb, NEW g, NEW i, Waits(State, cb, g, i) PROVE g \in 1 .. Len(futs) /\ g # 0 /\ Pending(g)
    OBVIOUS
  <2>1. g # 0
    BY <1>4
  <2>2. g \in 1 .. Len(futs)
    BY <1>3, <2>1 DEF Waits
  <2> QED BY <1>1, <1>3, <2>1, <2>2 DEF Scheduled, Placed, Pending
<1> DEFINE S == {t \in Tasks : t <= started /\ Pending(t)}
<1>7. started \in Nat /\ started <= NTasks /\ NTasks \in Nat /\ S \subseteq Nat
  BY <1>1, FutsTyped DEF LoopInv, Tasks
<1>8. S # {}
  <2>1. PICK t \in 1 .. started : ~Finished(State, t)
    BY DEF Awaited
  <2>2. t \in S
    BY <1>7, <2>1 DEF Tasks, Pending
  <2> QED BY <2>2
<1>9. PICK t \in S : \A k \in S : t <= k
  <2>1. S \in SUBSET Nat
    BY <1>7
  <2> HIDE DEF S
  <2> QED BY <1>8, <2>1, LeastNumber
<1>10. t \in Tasks /\ t <= started /\ Awaiting(t) /\ t \in Nat
  <2>1. t # 0
    BY <1>9 DEF Tasks
  <2> QED BY <1>2, <1>7, <1>9, <2>1 DEF Awaiting
<1>11. PICK g, i : Waits(State, Resume(t), g, i)
  BY <1>10 DEF AllWait, Known
<1>12. /\ g \in 1 .. Len(futs) /\ g # 0 /\ Pending(g)
       /\ g = op[t] \/ futs[g].kind = "timeout"
  <2>1. g \in 1 .. Len(futs) /\ g # 0 /\ Pending(g)
    BY <1>6, <1>11
  <2> QED BY <1>1, <1>10, <1>11, <2>1 DEF HomeInv
<1>13. CASE futs[g].kind = "timeout"
  <2>1. IsTimeout(State, g) /\ ~Finished(State, g)
    BY <1>3, <1>12, <1>13 DEF IsTimeout, Pending
  <2>2. PICK h, j : Waits(State, Elapses(g), h, j)
    BY <1>1, <2>1 DEF AllExpire, Expires, Known
  <2>3. h \in 1 .. Len(futs) /\ h # 0 /\ Pending(h)
    BY <1>6, <2>2
  <2>4. Asks(Elapses(g)) /\ Trigger(Elapses(g)) = g + 1
    BY DEF Asks, Elapses, Trigger
  <2>5. h = g + 1
    BY <1>1, <2>2, <2>3, <2>4 DEF Scheduled, Placed
  <2>6. futs[g + 1].kind = "sleep"
    BY <1>1, <1>3, <2>1 DEF Scheduled, Pairs
  <2> QED BY <1>5, <2>3, <2>5, <2>6
<1>14. CASE futs[g].kind = "sleep"
  BY <1>5, <1>12, <1>14
<1>15. CASE futs[g].kind \in IoKinds
  BY <1>1, <1>2, <1>12, <1>15, OperationWaits
<1>16. CASE futs[g].kind = "task"
  <2>1. g \in Tasks /\ g = op[t]
    BY <1>12, <1>16 DEF MadeInv
  <2>2. g < t
    <3>1. op[t] > NTasks \/ op[t] < t
      BY <1>1, <1>10, <1>12, <2>1 DEF HomeInv
    <3>2. g \in 1 .. NTasks
      BY <2>1 DEF Tasks
    <3> QED BY <1>7, <2>1, <3>1, <3>2
  <2>3. g \in S /\ g \in Nat
    BY <1>7, <1>10, <1>12, <2>1, <2>2
  <2> QED BY <1>9, <1>10, <2>2, <2>3
<1>17. futs[g].kind \in {"task", "recv", "send", "sleep", "timeout"}
  <2>1. futs[g] \in Made(Len(futs), Of("timeout"))
    BY <1>1, <1>12, FutsTyped
  <2> QED BY <2>1 DEF Made, Kinds
<1> QED BY <1>13, <1>14, <1>15, <1>16, <1>17 DEF IoKinds

(* The loop raises in these two places.                                    *)
LEMMA RaisesIn ==
  ASSUME DataInv, LoopInv, [Next]_vars, pc' = "raised"
  PROVE  \/ pc = "raised"
         \/ pc = "poll" /\ Awaited /\ isEmpty /\ timers = << >> /\ ready = << >> /\ hungup' = hungup
         \/ /\ keys # << >> /\ io.event = "none" /\ keys[1].events = {} /\ keys[1].counts.read # -1
            /\ ~fds[Fd].open /\ hungup' = hungup
<1>1. CASE Operation
  BY <1>1, OperationDoes
<1>2. CASE Environment
  BY <1>2, EnvironmentDoes
<1>3. CASE UNCHANGED vars
  BY <1>3 DEF vars, loop
<1>4. CASE Poll
  BY <1>4 DEF Poll, Unchanged
<1>5. CASE NextKey
  BY <1>5 DEF NextKey, Dispatching, Unchanged
<1>6. CASE StartTask \/ Select \/ SelectReturns \/ MoveOut \/ CallBack \/ CallWatcher \/ MoveBack
           \/ Dispatched \/ RunCallback \/ PollReturns
  BY <1>6 DEF StartTask, Select, SelectReturns, MoveOut, CallBack, CallWatcher, MoveBack, Dispatched, RunCallback,
              PollReturns, IoOnly
<1> QED BY <1>1, <1>2, <1>3, <1>4, <1>5, <1>6 DEF Next, Loop, Stopped
IdleInv == TimeoutInv /\ WaitingInv /\ MadeInv /\ ClosedInv /\ HeadInv

LEMMA IdleInitially ==
  ASSUME Init
  PROVE  IdleInv
<1>1. /\ Len(futs) = NTasks /\ NTasks \in Nat /\ \A t \in 1 .. NTasks : futs[t].kind = "task"
  BY ConstantsAssumption DEF Init, Tasks, Future
<1>2. MadeInv
  BY <1>1 DEF MadeInv, Tasks, IoKinds
<1>3. ClosedInv
  BY DEF Init, Closed, ClosedInv
<1>4. HeadInv
  BY DEF Init, HeadInv
<1> QED BY <1>2, <1>3, <1>4, QueuesInitially, WaitersInitially, TimeoutsInitially, WaitingInitially
        DEF IdleInv, TimeoutInv, ResumingInv

LEMMA IdleStep ==
  ASSUME IdleInv, [Next]_vars
  PROVE  IdleInv' /\ SocketsAge
<1>1. TimeoutInv' /\ WaitingInv' /\ DataInv /\ LoopInv /\ PlaceInv /\ WatchedInv /\ DataInv'
  BY TimeoutStep, WaitingStep DEF IdleInv, WaitingInv
<1>2. Moves
  BY <1>1, Steps
<1>3. SocketsAge
  BY <1>1, <1>2, SocketsMove
<1> QED BY <1>1, <1>2, <1>3, MadeKept, ClosedKept, HeadKept DEF IdleInv

LEMMA NeverIdleKept ==
  ASSUME IdleInv, AllWait, NeverIdle, [Next]_vars
  PROVE  NeverIdle'
<1> SUFFICES ASSUME pc' = "raised" PROVE \E fd \in Sockets : hungup'[fd]
  BY DEF NeverIdle
<1>1. DataInv /\ LoopInv /\ WatchedInv /\ TimeoutInv /\ MadeInv /\ ClosedInv /\ HeadInv
  BY DEF IdleInv, WaitingInv
<1>2. \E fd \in Sockets : hungup[fd]
  <2>1. CASE pc = "raised"
    BY <2>1 DEF NeverIdle
  <2>2. CASE pc = "poll" /\ Awaited /\ isEmpty /\ timers = << >> /\ ready = << >>
    BY <1>1, <2>2, SomebodyWaits
  <2>3. CASE /\ keys # << >> /\ io.event = "none" /\ keys[1].events = {} /\ keys[1].counts.read # -1
             /\ ~fds[Fd].open
    BY <1>1, <2>3, AtFd DEF HeadInv
  <2> QED BY <1>1, <2>1, <2>2, <2>3, RaisesIn
<1> QED BY <1>2, IdleStep DEF SocketsAge

(* While somebody awaits something, poll has a socket, a timer or a        *)
(* callback to wait for, and no socket that was reported is closed when    *)
(* its interest is set, unless a peer has hung up: as long as no two tasks *)
(* have the same latest operation.                                         *)
THEOREM LoopNeverIdle == Spec /\ []Unshared => []NeverIdle
<1>1. Init => AllWait /\ NeverIdle
  BY WaitersInitially DEF Init, NeverIdle
<1>2. ResumingInv /\ ResumingInv' /\ Unshared /\ AllWait /\ [Next]_vars => AllWait'
  BY AllWaitKept DEF ResumingInv
<1>3. IdleInv /\ AllWait /\ NeverIdle /\ [Next]_vars => NeverIdle'
  BY NeverIdleKept
<1>4. Spec => []IdleInv
  <2>1. Init => IdleInv
    BY IdleInitially
  <2>2. IdleInv /\ [Next]_vars => IdleInv'
    BY IdleStep
  <2> QED BY <2>1, <2>2, PTL DEF Spec
<1> QED BY <1>1, <1>2, <1>3, <1>4, Resuming, PTL DEF Spec

(* And so for two tasks.                                                   *)
THEOREM TwoTasksNeverIdle ==
  ASSUME NTasks <= 2
  PROVE  Spec => []NeverIdle
BY NeverShared, LoopNeverIdle, PTL
=============================================================================
