-------------------------- MODULE DispatcherProofs --------------------------
(***************************************************************************)
(* Theorems about Dispatcher, for any number of tasks, sockets, futures and*)
(* messages, and all that the programs may do.                             *)
(***************************************************************************)
EXTENDS Dispatcher, SequenceTheorems, FiniteSetTheorems, TLAPS

(***************************************************************************)
(* Induction up to a number, with a set in place of a predicate.           *)
(***************************************************************************)
LEMMA LeastNumber ==
  ASSUME NEW T \in SUBSET Nat, T # {}
  PROVE  \E n \in T : \A k \in T : n <= k
<1> DEFINE R == OpToRel(<, Nat)
<1>1. IsWellFoundedOn(R, Nat)
  BY NatLessThanWellFounded
<1> HIDE DEF R
<1>2. PICK n \in T : \A k \in T : ~(<<k, n>> \in R)
  BY <1>1, WFMin
<1>3. ASSUME NEW k \in T PROVE n <= k
  <2>1. ~(<<k, n>> \in R) /\ k \in Nat /\ n \in Nat
    BY <1>2
  <2>2. CASE k < n
    <3>1. <<k, n>> \in R
      BY <2>1, <2>2 DEF R, OpToRel
    <3> QED BY <2>1, <3>1
  <2> QED BY <2>1, <2>2
<1> QED BY <1>3

LEMMA UpTo ==
  ASSUME NEW N \in Nat, NEW T, 0 \in T, \A n \in 0 .. N - 1 : n \in T => n + 1 \in T
  PROVE  \A n \in 0 .. N : n \in T
<1> SUFFICES ASSUME NEW n \in 0 .. N, n \notin T PROVE FALSE
  OBVIOUS
<1> DEFINE B == {k \in 0 .. N : k \notin T}
<1>1. PICK m \in B : \A k \in B : m <= k
  <2>1. B \in SUBSET Nat /\ B # {}
    OBVIOUS
  <2> HIDE DEF B
  <2> QED BY <2>1, LeastNumber
<1>2. m \in 1 .. N /\ m \notin T
  OBVIOUS
<1>3. m - 1 \in 0 .. N - 1 /\ m - 1 \in T
  BY <1>1, <1>2
<1>4. (m - 1) + 1 \in T /\ (m - 1) + 1 = m
  BY <1>2, <1>3
<1> QED BY <1>2, <1>4

(* A function may be defined by what it is at 0 and its steps.             *)
Iterates(S, N, step, s, g) ==
  g \in [0 .. N -> S] /\ g[0] = s /\ \A i \in 1 .. N : g[i] = step[<<g[i - 1], i>>]
LEMMA Iteration ==
  ASSUME NEW S, NEW N \in Nat, NEW step \in [S \X (1 .. N) -> S], NEW s \in S
  PROVE  \E g : Iterates(S, N, step, s, g)
<1> DEFINE Good(g, n) == g \in [0 .. n -> S] /\ g[0] = s /\ \A i \in 1 .. n : g[i] = step[<<g[i-1], i>>]
           T == {n \in 0 .. N : \E g : Good(g, n)}
<1>1. 0 \in T
  <2>1. Good([i \in 0 .. 0 |-> s], 0)
    OBVIOUS
  <2>2. \E g : Good(g, 0)
    BY <2>1
  <2> QED BY <2>2
<1>2. ASSUME NEW n \in 0 .. N - 1, n \in T PROVE n + 1 \in T
  <2>1. PICK g : Good(g, n)
    BY <1>2
  <2>2. g \in [0 .. n -> S] /\ g[n] \in S /\ g[0] = s
    BY <2>1
  <2>3. PICK x \in S : x = step[<<g[n], n + 1>>]
    BY <2>2
  <2> DEFINE h == [i \in 0 .. n + 1 |-> IF i <= n THEN g[i] ELSE x]
  <2>4. h \in [0 .. n + 1 -> S] /\ h[0] = s
    BY <2>2
  <2>5. ASSUME NEW i \in 1 .. n + 1 PROVE h[i] = step[<<h[i-1], i>>]
    <3>1. h[i-1] = g[i-1]
      OBVIOUS
    <3>2. CASE i = n + 1
      <4>1. i - 1 = n /\ h[i] = x /\ h[i - 1] = g[n]
        BY <2>2, <3>2
      <4> HIDE DEF h
      <4> QED BY <2>3, <3>2, <4>1
    <3>3. CASE i # n + 1
      <4>1. g[i] = step[<<g[i-1], i>>]
        BY <2>1, <3>3
      <4> QED BY <3>1, <3>3, <4>1
    <3> QED BY <3>2, <3>3
  <2>6. Good(h, n + 1)
    <3> HIDE DEF h
    <3> QED BY <2>4, <2>5
  <2>7. \E f : Good(f, n + 1)
    BY <2>6
  <2> QED BY <2>7
<1>3. N \in T
  <2> HIDE DEF T
  <2>1. \A n \in 0 .. N : n \in T
    BY <1>1, <1>2, UpTo
  <2> QED BY <2>1
<1>4. PICK g : Good(g, N)
  BY <1>3
<1>5. Iterates(S, N, step, s, g)
  BY <1>4 DEF Iterates
<1> QED BY <1>5

(***************************************************************************)
(* How often something occurs in a sequence.                               *)
(***************************************************************************)
LEMMA TimesNat ==
  ASSUME NEW S, NEW s \in Seq(S), NEW x
  PROVE  Times(x, s) \in Nat /\ (Times(x, s) = 0 <=> \A i \in 1 .. Len(s) : s[i] # x)
<1> DEFINE P == {i \in DOMAIN s : s[i] = x}
<1>1. Len(s) \in Nat /\ DOMAIN s = 1 .. Len(s)
  BY LenProperties
<1>2. IsFiniteSet(1 .. Len(s))
  BY <1>1, FS_Interval
<1>3. IsFiniteSet(P)
  BY <1>1, <1>2, FS_Subset
<1>4. Cardinality(P) \in Nat /\ (Cardinality(P) = 0 <=> P = {})
  BY <1>3, FS_CardinalityType, FS_EmptySet
<1> QED BY <1>1, <1>4 DEF Times

LEMMA TimesEmpty == ASSUME NEW x PROVE Times(x, << >>) = 0
<1>1. {i \in DOMAIN << >> : << >>[i] = x} = {}
  OBVIOUS
<1> QED BY <1>1, FS_EmptySet DEF Times

LEMMA TimesOne ==
  ASSUME NEW x, NEW y
  PROVE  Times(x, <<y>>) = IF y = x THEN 1 ELSE 0
<1>1. {i \in DOMAIN <<y>> : <<y>>[i] = x} = IF y = x THEN {1} ELSE {}
  OBVIOUS
<1> QED BY <1>1, FS_EmptySet, FS_Singleton DEF Times

LEMMA TimesConcat ==
  ASSUME NEW S, NEW s \in Seq(S), NEW t \in Seq(S), NEW x
  PROVE  Times(x, s \o t) = Times(x, s) + Times(x, t)
<1> DEFINE m == Len(s)
           n == Len(t)
           A == {i \in 1 .. m : s[i] = x}
           B == {i \in 1 .. n : t[i] = x}
           C == {i \in m + 1 .. m + n : (s \o t)[i] = x}
           D == {i \in 1 .. m + n : (s \o t)[i] = x}
<1>1. m \in Nat /\ n \in Nat /\ DOMAIN s = 1 .. m /\ DOMAIN t = 1 .. n /\ DOMAIN (s \o t) = 1 .. m + n
  BY LenProperties, ConcatProperties
<1>2. /\ \A i \in 1 .. m : (s \o t)[i] = s[i]
      /\ \A i \in 1 .. n : (s \o t)[m + i] = t[i]
  <2>1. \A i \in 1 .. m + n : (s \o t)[i] = IF i <= Len(s) THEN s[i] ELSE t[i - Len(s)]
    BY ConcatProperties
  <2>2. ASSUME NEW i \in 1 .. n PROVE (s \o t)[m + i] = t[i]
    <3>1. m + i \in 1 .. m + n /\ ~(m + i <= m) /\ (m + i) - m = i
      BY <1>1
    <3> QED BY <2>1, <3>1
  <2> QED BY <1>1, <2>1, <2>2
<1> HIDE DEF m, n
<1>3. IsFiniteSet(1 .. m + n) /\ IsFiniteSet(1 .. n) /\ IsFiniteSet(1 .. m)
  BY <1>1, FS_Interval
<1>4. IsFiniteSet(A) /\ IsFiniteSet(B) /\ IsFiniteSet(C)
  BY <1>1, <1>3, FS_Subset
<1>5. D = A \cup C /\ A \cap C = {}
  BY <1>1, <1>2
<1>6. Cardinality(C) = Cardinality(B)
  <2> DEFINE f == [i \in B |-> m + i]
  <2>1. f \in Bijection(B, C)
    <3>1. f \in [B -> C]
      BY <1>1, <1>2
    <3>2. \A i, j \in B : f[i] = f[j] => i = j
      BY <1>1
    <3>3. \A c \in C : \E b \in B : f[b] = c
      <4> TAKE c \in C
      <4>1. c - m \in 1 .. n /\ m + (c - m) = c
        BY <1>1
      <4>2. c - m \in B
        BY <1>2, <4>1
      <4> QED BY <4>1, <4>2
    <3> HIDE DEF f, B, C
    <3> QED BY <3>1, <3>2, <3>3 DEF Bijection, Injection, Surjection, IsInjective
  <2>2. ExistsBijection(B, C)
    BY <2>1 DEF ExistsBijection
  <2> HIDE DEF B, C
  <2> QED BY <1>4, <2>2, FS_Bijection
<1>7. Cardinality(A \cup C) = Cardinality(A) + Cardinality(C) - Cardinality({})
  <2> HIDE DEF A, C
  <2> QED BY <1>4, <1>5, FS_Union
<1>8. Cardinality(A) \in Nat /\ Cardinality(C) \in Nat /\ Cardinality({}) = 0
  BY <1>4, FS_CardinalityType, FS_EmptySet
<1>9. Times(x, s) = Cardinality(A) /\ Times(x, t) = Cardinality(B) /\ Times(x, s \o t) = Cardinality(D)
  BY <1>1 DEF Times
<1> HIDE DEF A, B, C, D
<1> QED BY <1>5, <1>6, <1>7, <1>8, <1>9

LEMMA TimesAppend ==
  ASSUME NEW S, NEW s \in Seq(S), NEW y \in S, NEW x
  PROVE  Times(x, Append(s, y)) = Times(x, s) + IF y = x THEN 1 ELSE 0
<1>1. Append(s, y) = s \o <<y>> /\ <<y>> \in Seq(S)
  BY AppendIsConcat
<1>2. Times(x, s \o <<y>>) = Times(x, s) + Times(x, <<y>>)
  BY <1>1, TimesConcat
<1> QED BY <1>1, <1>2, TimesOne

LEMMA TimesTail ==
  ASSUME NEW S, NEW s \in Seq(S), s # << >>, NEW x
  PROVE  Times(x, s) = Times(x, Tail(s)) + IF s[1] = x THEN 1 ELSE 0
<1>1. s[1] \in S /\ Tail(s) \in Seq(S) /\ <<s[1]>> \in Seq(S) /\ s = <<s[1]>> \o Tail(s)
  <2>1. s[1] \in S /\ Tail(s) \in Seq(S) /\ Len(Tail(s)) = Len(s) - 1 /\ Len(s) \in Nat \ {0}
    BY HeadTailProperties, EmptySeq, LenProperties
  <2>2. \A i \in 1 .. Len(s) - 1 : Tail(s)[i] = s[i + 1]
    BY HeadTailProperties
  <2>3. <<s[1]>> \o Tail(s) \in Seq(S) /\ Len(<<s[1]>> \o Tail(s)) = Len(s)
    BY <2>1, ConcatProperties
  <2>4. \A i \in 1 .. Len(s) : s[i] = (<<s[1]>> \o Tail(s))[i]
    BY <2>1, <2>2
  <2> QED BY <2>1, <2>3, <2>4, SeqEqual
<1>2. Times(x, s) = Times(x, <<s[1]>>) + Times(x, Tail(s))
  BY <1>1, TimesConcat
<1>3. Times(x, Tail(s)) \in Nat
  BY <1>1, TimesNat
<1> QED BY <1>2, <1>3, TimesOne

(***************************************************************************)
(* What the operations do to a state of n futures, T the timeouts of them. *)
(***************************************************************************)
Kinds == {"task", "recv", "send", "sleep", "timeout"}
Call(n, T) == [kind : {"resume"}, task : Tasks]
              \cup [kind : {"first"}, of : 1 .. n, ret : T] \cup [kind : {"elapsed"}, ret : T]
Made(n, T) == [kind : Kinds, of : Sockets \cup Nat, left : Nat, answer : Answers,
               callbacks : Seq(Call(n, T))]
Descriptor(n) == [open : BOOLEAN, interest : SUBSET Events,
                  readList : Seq(0 .. n), writeList : Seq(0 .. n)]
States(n, T) ==
  {s \in [futs : Seq(Made(n, T)), ready : Seq(Call(n, T)), order : Seq(1 .. n),
          fds : [Sockets -> Descriptor(n)],
          inbox : [Sockets -> 0 .. MaxInbox], room : [Sockets -> 0 .. SendRoom]] :
     Len(s.futs) = n}

(* What is not in the futures, the queue and the history is left alone.    *)
SameIo(s, r) == r.fds = s.fds /\ r.inbox = s.inbox /\ r.room = s.room

LEMMA Fields ==
  ASSUME NEW n \in Nat, NEW T, NEW s \in States(n, T)
  PROVE  /\ s.futs \in Seq(Made(n, T)) /\ Len(s.futs) = n /\ s.ready \in Seq(Call(n, T))
         /\ s.order \in Seq(1 .. n) /\ s.fds \in [Sockets -> Descriptor(n)]
         /\ s.inbox \in [Sockets -> 0 .. MaxInbox] /\ s.room \in [Sockets -> 0 .. SendRoom]
BY DEF States

(* A record with the fields of a state, of whatever type.                  *)
Record(s) == s \in [futs : {s.futs}, ready : {s.ready}, order : {s.order}, fds : {s.fds},
                    inbox : {s.inbox}, room : {s.room}]

LEMMA Changed ==
  ASSUME NEW s, Record(s), NEW v
  PROVE  /\ Record([s EXCEPT !.futs = v]) /\ Record([s EXCEPT !.ready = v])
         /\ Record([s EXCEPT !.order = v]) /\ Record([s EXCEPT !.fds = v])
         /\ Record([s EXCEPT !.inbox = v]) /\ Record([s EXCEPT !.room = v])
BY DEF Record

LEMMA MakeState ==
  ASSUME NEW n \in Nat, NEW T, NEW s, Record(s),
         s.futs \in Seq(Made(n, T)), Len(s.futs) = n, s.ready \in Seq(Call(n, T)),
         s.order \in Seq(1 .. n), s.fds \in [Sockets -> Descriptor(n)],
         s.inbox \in [Sockets -> 0 .. MaxInbox], s.room \in [Sockets -> 0 .. SendRoom]
  PROVE  s \in States(n, T)
BY DEF States, Record

LEMMA MadeFields ==
  ASSUME NEW n \in Nat, NEW T, NEW x \in Made(n, T)
  PROVE  /\ x.callbacks \in Seq(Call(n, T)) /\ x.kind \in Kinds /\ x.left \in Nat
         /\ x.answer \in Answers /\ x.of \in Sockets \cup Nat
BY DEF Made

Settled(x, a) == [x EXCEPT !.answer = a, !.callbacks = << >>]
LEMMA Settles ==
  ASSUME NEW n \in Nat, NEW T, NEW x \in Made(n, T), NEW a \in Answers
  PROVE  /\ Settled(x, a) \in Made(n, T) /\ Settled(x, a).answer = a
         /\ Settled(x, a).kind = x.kind /\ Settled(x, a).of = x.of /\ Settled(x, a).left = x.left
         /\ Settled(x, a).callbacks = << >>
<1>1. << >> \in Seq(Call(n, T))
  BY EmptySeq
<1> QED BY <1>1 DEF Made, Settled

(* A future stays of its kind, and the answers of those outside F stay.    *)
Same(n, s, r, F) ==
  \A g \in 1 .. n : /\ r.futs[g].kind = s.futs[g].kind /\ r.futs[g].of = s.futs[g].of
                    /\ g \notin F => r.futs[g].answer = s.futs[g].answer

Finishes(n, T, s, f, a, r) ==
  /\ r \in States(n, T) /\ SameIo(s, r) /\ Same(n, s, r, {f}) /\ r.futs[f].answer = a
  /\ r.order = Append(s.order, f) /\ r.ready = s.ready \o s.futs[f].callbacks
  /\ r.futs[f] = Settled(s.futs[f], a) /\ \A g \in 1 .. n : g # f => r.futs[g] = s.futs[g]
LEMMA FinishDoes ==
  ASSUME NEW n \in Nat, NEW T, NEW s \in States(n, T),
         NEW f \in 1 .. n, NEW a \in Answers, NEW r, r = Finish(s, f, a)
  PROVE  Finishes(n, T, s, f, a, r)
<1> DEFINE fut == Settled(s.futs[f], a)
<1>1. /\ s.futs \in Seq(Made(n, T)) /\ Len(s.futs) = n /\ s.ready \in Seq(Call(n, T))
      /\ s.order \in Seq(1 .. n) /\ s.fds \in [Sockets -> Descriptor(n)]
      /\ s.inbox \in [Sockets -> 0 .. MaxInbox] /\ s.room \in [Sockets -> 0 .. SendRoom]
  BY Fields
<1>2. s.futs[f] \in Made(n, T)
  BY <1>1, ElementOfSeq
<1>3. fut \in Made(n, T) /\ s.futs[f].callbacks \in Seq(Call(n, T))
  BY <1>2, Settles, MadeFields
<1>4. r.futs = [s.futs EXCEPT ![f] = fut]
  BY DEF States, Finish, Schedule, Settled
<1>41. r.ready = s.ready \o s.futs[f].callbacks
  BY DEF States, Finish, Schedule
<1>42. r.order = Append(s.order, f)
  BY DEF States, Finish, Schedule
<1>43. SameIo(s, r)
  BY DEF States, Finish, Schedule, SameIo
<1>44. Record(r)
  BY DEF States, Finish, Schedule, Record
<1>6. /\ [s.futs EXCEPT ![f] = fut] \in Seq(Made(n, T))
      /\ Len([s.futs EXCEPT ![f] = fut]) = n
  BY <1>1, <1>3, ExceptSeq
<1>7. s.ready \o s.futs[f].callbacks \in Seq(Call(n, T)) /\ Append(s.order, f) \in Seq(1 .. n)
  BY <1>1, <1>3, ConcatProperties, AppendProperties
<1>8. r \in States(n, T)
  <2> HIDE DEF fut
  <2> QED BY <1>1, <1>4, <1>41, <1>42, <1>43, <1>44, <1>6, <1>7, MakeState DEF SameIo
<1>9. r.futs[f] = fut /\ \A g \in 1 .. n : g # f => r.futs[g] = s.futs[g]
  BY <1>1, <1>4
<1>10. fut.answer = a /\ fut.kind = s.futs[f].kind /\ fut.of = s.futs[f].of
  BY <1>2, Settles
<1>11. Same(n, s, r, {f})
  <2> HIDE DEF fut
  <2> QED BY <1>9, <1>10 DEF Same
<1>12. r.futs[f].answer = a
  BY <1>9, <1>10
<1> QED BY <1>41, <1>42, <1>43, <1>8, <1>9, <1>11, <1>12 DEF Finishes

(* Futures, callbacks and lists stay legal when a future is added.         *)
LEMMA Widen ==
  ASSUME NEW n \in Nat, NEW T, NEW U, T \subseteq U
  PROVE  /\ Call(n, T) \subseteq Call(n + 1, U) /\ Made(n, T) \subseteq Made(n + 1, U)
         /\ Descriptor(n) \subseteq Descriptor(n + 1)
<1>1. Call(n, T) \subseteq Call(n + 1, U)
  BY DEF Call
<1>2. Seq(Call(n, T)) \subseteq Seq(Call(n + 1, U))
  BY <1>1, SeqMonotonic
<1>3. 0 .. n \subseteq 0 .. n + 1
  OBVIOUS
<1>4. Seq(0 .. n) \subseteq Seq(0 .. n + 1)
  BY <1>3, SeqMonotonic
<1>5. Made(n, T) \subseteq Made(n + 1, U)
  BY <1>2 DEF Made
<1>6. Descriptor(n) \subseteq Descriptor(n + 1)
  BY <1>4 DEF Descriptor
<1> QED BY <1>1, <1>5, <1>6

Adds(n, U, s, x, r) ==
  /\ r \in States(n + 1, U) /\ SameIo(s, r) /\ Same(n, s, r, {})
  /\ r.futs[n + 1] = x /\ r.ready = s.ready /\ r.order = s.order
LEMMA NewDoes ==
  ASSUME NEW n \in Nat, NEW T, NEW U, T \subseteq U, NEW s \in States(n, T),
         NEW x \in Made(n + 1, U), NEW r, r = NewFuture(s, x)
  PROVE  Adds(n, U, s, x, r)
<1>1. /\ s.futs \in Seq(Made(n, T)) /\ Len(s.futs) = n /\ s.ready \in Seq(Call(n, T))
      /\ s.order \in Seq(1 .. n) /\ s.fds \in [Sockets -> Descriptor(n)]
      /\ s.inbox \in [Sockets -> 0 .. MaxInbox] /\ s.room \in [Sockets -> 0 .. SendRoom]
  BY Fields
<1>2. /\ Call(n, T) \subseteq Call(n + 1, U) /\ Made(n, T) \subseteq Made(n + 1, U)
      /\ Descriptor(n) \subseteq Descriptor(n + 1)
  BY Widen
<1>3. /\ s.futs \in Seq(Made(n + 1, U)) /\ s.ready \in Seq(Call(n + 1, U))
      /\ s.fds \in [Sockets -> Descriptor(n + 1)]
  BY <1>1, <1>2, SeqMonotonic
<1>4. 1 .. n \subseteq 1 .. n + 1
  OBVIOUS
<1>5. s.order \in Seq(1 .. n + 1)
  BY <1>1, <1>4, SeqMonotonic
<1>6. r.futs = Append(s.futs, x)
  BY DEF States, NewFuture
<1>7. SameIo(s, r) /\ r.ready = s.ready /\ r.order = s.order
  BY DEF States, NewFuture, SameIo
<1>8. Record(r)
  BY DEF States, NewFuture, Record
<1>9. /\ Append(s.futs, x) \in Seq(Made(n + 1, U)) /\ Len(Append(s.futs, x)) = n + 1
      /\ \A g \in 1 .. n : Append(s.futs, x)[g] = s.futs[g]
      /\ Append(s.futs, x)[n + 1] = x
  <2>1. Len(Append(s.futs, x)) = Len(s.futs) + 1
    BY <1>3, AppendProperties
  <2> QED BY <1>1, <1>3, <2>1, AppendProperties
<1>10. r \in States(n + 1, U)
  <2>1. /\ r.futs \in Seq(Made(n + 1, U)) /\ Len(r.futs) = n + 1 /\ r.ready \in Seq(Call(n + 1, U))
        /\ r.order \in Seq(1 .. n + 1) /\ r.fds \in [Sockets -> Descriptor(n + 1)]
        /\ r.inbox \in [Sockets -> 0 .. MaxInbox] /\ r.room \in [Sockets -> 0 .. SendRoom]
    BY <1>1, <1>3, <1>5, <1>6, <1>7, <1>9 DEF SameIo
  <2>2. n + 1 \in Nat
    OBVIOUS
  <2> QED BY <1>8, <2>1, <2>2, MakeState
<1> QED BY <1>6, <1>7, <1>9, <1>10 DEF Same, Adds

(* A callback is added, or replaces the others: nothing else changes.      *)
Hears(n, T, s, r) ==
  r \in States(n, T) /\ SameIo(s, r) /\ Same(n, s, r, {}) /\ r.order = s.order
LEMMA addCallbackDoes ==
  ASSUME NEW n \in Nat, NEW T, NEW s \in States(n, T),
         NEW f \in 1 .. n, NEW cb \in Call(n, T), NEW r, r = addCallback(s, f, cb)
  PROVE  Hears(n, T, s, r)
<1>1. /\ s.futs \in Seq(Made(n, T)) /\ Len(s.futs) = n /\ s.ready \in Seq(Call(n, T))
      /\ s.order \in Seq(1 .. n) /\ s.fds \in [Sockets -> Descriptor(n)]
      /\ s.inbox \in [Sockets -> 0 .. MaxInbox] /\ s.room \in [Sockets -> 0 .. SendRoom]
  BY Fields
<1>2. CASE Finished(s, f)
  <2>1. r.futs = s.futs /\ r.order = s.order /\ r.ready = s.ready \o <<cb>>
    BY <1>2 DEF States, addCallback, callSoon, Schedule
  <2>2. SameIo(s, r)
    BY <1>2 DEF States, addCallback, callSoon, Schedule, SameIo
  <2>3. Record(r)
    BY <1>2 DEF States, addCallback, callSoon, Schedule, Record
  <2>4. s.ready \o <<cb>> \in Seq(Call(n, T))
    BY <1>1, ConcatProperties
  <2>5. r \in States(n, T)
    BY <1>1, <2>1, <2>2, <2>3, <2>4, MakeState DEF SameIo
  <2> QED BY <2>1, <2>2, <2>5 DEF Hears, Same
<1>3. CASE ~Finished(s, f)
  <2> DEFINE fut == [s.futs[f] EXCEPT !.callbacks = Append(@, cb)]
  <2>1. s.futs[f] \in Made(n, T)
    BY <1>1, ElementOfSeq
  <2>2. s.futs[f].callbacks \in Seq(Call(n, T))
    BY <2>1, MadeFields
  <2>3. Append(s.futs[f].callbacks, cb) \in Seq(Call(n, T))
    BY <2>2, AppendProperties
  <2>4. /\ fut \in Made(n, T) /\ fut.answer = s.futs[f].answer
        /\ fut.kind = s.futs[f].kind /\ fut.of = s.futs[f].of
    BY <2>1, <2>3 DEF Made
  <2>5. r.futs = [s.futs EXCEPT ![f] = fut]
    BY <1>3 DEF States, addCallback
  <2>6. r.order = s.order /\ r.ready = s.ready /\ SameIo(s, r)
    BY <1>3 DEF States, addCallback, SameIo
  <2>7. Record(r)
    BY <1>3 DEF States, addCallback, Record
  <2>8. /\ [s.futs EXCEPT ![f] = fut] \in Seq(Made(n, T)) /\ Len([s.futs EXCEPT ![f] = fut]) = n
        /\ \A g \in 1 .. n : [s.futs EXCEPT ![f] = fut][g] = IF g = f THEN fut ELSE s.futs[g]
    <3> HIDE DEF fut
    <3> QED BY <1>1, <2>4, ExceptSeq
  <2>9. r \in States(n, T)
    <3> HIDE DEF fut
    <3> QED BY <1>1, <2>5, <2>6, <2>7, <2>8, MakeState DEF SameIo
  <2>10. Same(n, s, r, {})
    <3> HIDE DEF fut
    <3> QED BY <2>4, <2>5, <2>8 DEF Same
  <2> QED BY <2>6, <2>9, <2>10 DEF Hears
<1> QED BY <1>2, <1>3

LEMMA setCallbackDoes ==
  ASSUME NEW n \in Nat, NEW T, NEW s \in States(n, T),
         NEW f \in 1 .. n, NEW cb \in Call(n, T), NEW r, r = setCallback(s, f, cb)
  PROVE  Hears(n, T, s, r)
<1> DEFINE fut == [s.futs[f] EXCEPT !.callbacks = << >>]
           q == [s EXCEPT !.futs[f].callbacks = << >>]
<1>1. /\ s.futs \in Seq(Made(n, T)) /\ Len(s.futs) = n /\ s.ready \in Seq(Call(n, T))
      /\ s.order \in Seq(1 .. n) /\ s.fds \in [Sockets -> Descriptor(n)]
      /\ s.inbox \in [Sockets -> 0 .. MaxInbox] /\ s.room \in [Sockets -> 0 .. SendRoom]
  BY Fields
<1>2. s.futs[f] \in Made(n, T) /\ << >> \in Seq(Call(n, T))
  BY <1>1, ElementOfSeq, EmptySeq
<1>3. /\ fut \in Made(n, T) /\ fut.answer = s.futs[f].answer
      /\ fut.kind = s.futs[f].kind /\ fut.of = s.futs[f].of
  BY <1>2 DEF Made
<1>4. q.futs = [s.futs EXCEPT ![f] = fut]
  BY DEF States
<1>5. q.order = s.order /\ q.ready = s.ready /\ SameIo(s, q)
  BY DEF States, SameIo
<1>6. Record(q)
  BY DEF States, Record
<1>7. /\ [s.futs EXCEPT ![f] = fut] \in Seq(Made(n, T)) /\ Len([s.futs EXCEPT ![f] = fut]) = n
      /\ \A g \in 1 .. n : [s.futs EXCEPT ![f] = fut][g] = IF g = f THEN fut ELSE s.futs[g]
  <2> HIDE DEF fut
  <2> QED BY <1>1, <1>3, ExceptSeq
<1>8. q \in States(n, T)
  <2> HIDE DEF fut, q
  <2> QED BY <1>1, <1>4, <1>5, <1>6, <1>7, MakeState DEF SameIo
<1>9. Same(n, s, q, {})
  <2> HIDE DEF fut, q
  <2> QED BY <1>3, <1>4, <1>7 DEF Same
<1>10. r = addCallback(q, f, cb)
  BY DEF setCallback
<1> HIDE DEF q
<1>11. Hears(n, T, q, r)
  BY <1>8, <1>10, addCallbackDoes
<1> QED BY <1>5, <1>9, <1>11 DEF Hears, Same, SameIo

(***************************************************************************)
(* Descriptors: only that of fd changes.                                   *)
(***************************************************************************)
Points(n, T, s, fd, d, r) ==
  /\ r \in States(n, T) /\ r.futs = s.futs /\ r.ready = s.ready /\ r.order = s.order
  /\ r.inbox = s.inbox /\ r.room = s.room
  /\ r.fds[fd] = d /\ \A g \in Sockets : g # fd => r.fds[g] = s.fds[g]
LEMMA PointsAt ==
  ASSUME NEW n \in Nat, NEW T, NEW s \in States(n, T), NEW fd \in Sockets,
         NEW d \in Descriptor(n), NEW r, r = [s EXCEPT !.fds[fd] = d]
  PROVE  Points(n, T, s, fd, d, r)
<1>1. /\ s.futs \in Seq(Made(n, T)) /\ Len(s.futs) = n /\ s.ready \in Seq(Call(n, T))
      /\ s.order \in Seq(1 .. n) /\ s.fds \in [Sockets -> Descriptor(n)]
      /\ s.inbox \in [Sockets -> 0 .. MaxInbox] /\ s.room \in [Sockets -> 0 .. SendRoom]
  BY Fields
<1>2. /\ r.futs = s.futs /\ r.ready = s.ready /\ r.order = s.order
      /\ r.inbox = s.inbox /\ r.room = s.room
  BY DEF States
<1>3. r.fds = [s.fds EXCEPT ![fd] = d]
  BY DEF States
<1>4. Record(r)
  BY DEF States, Record
<1>5. /\ r.fds \in [Sockets -> Descriptor(n)] /\ r.fds[fd] = d
      /\ \A g \in Sockets : g # fd => r.fds[g] = s.fds[g]
  BY <1>1, <1>3
<1>6. r \in States(n, T)
  BY <1>1, <1>2, <1>4, <1>5, MakeState
<1> QED BY <1>2, <1>5, <1>6 DEF Points

LEMMA At ==
  ASSUME NEW n \in Nat, NEW T, NEW s \in States(n, T), NEW fd \in Sockets
  PROVE  /\ s.fds[fd] \in Descriptor(n)
         /\ s.fds[fd].open \in BOOLEAN /\ s.fds[fd].interest \in SUBSET Events
         /\ s.fds[fd].readList \in Seq(0 .. n) /\ s.fds[fd].writeList \in Seq(0 .. n)
<1>1. s.fds[fd] \in Descriptor(n)
  BY Fields
<1> QED BY <1>1 DEF Descriptor

(* The lists of a descriptor, and what they are waiting for.               *)
Listing(d) == {e \in Events : IF e = "read" THEN d.readList # << >> ELSE d.writeList # << >>}

LEMMA addReadDoes ==
  ASSUME NEW n \in Nat, NEW T, NEW s \in States(n, T), NEW fd \in Sockets,
         NEW cb \in 0 .. n, NEW r, r = addRead(s, fd, cb)
  PROVE  \E d \in Descriptor(n) :
           /\ Points(n, T, s, fd, d, r)
           /\ d.open = s.fds[fd].open /\ d.interest = Listing(d)
           /\ d.readList = Append(s.fds[fd].readList, cb) /\ d.writeList = s.fds[fd].writeList
<1> DEFINE old == s.fds[fd]
           e == [old EXCEPT !.readList = Append(@, cb)]
           a == [s EXCEPT !.fds[fd] = e]
           d == [e EXCEPT !.interest = Listing(e)]
<1>1. /\ old \in Descriptor(n) /\ old.readList \in Seq(0 .. n)
  BY At
<1>2. Append(old.readList, cb) \in Seq(0 .. n)
  BY <1>1, AppendProperties
<1>3. /\ e \in Descriptor(n) /\ e.open = old.open /\ e.readList = Append(old.readList, cb)
      /\ e.writeList = old.writeList
  BY <1>1, <1>2 DEF Descriptor
<1>4. Listing(e) \in SUBSET Events
  BY DEF Listing
<1>5. /\ d \in Descriptor(n) /\ d.open = e.open /\ d.readList = e.readList
      /\ d.writeList = e.writeList /\ d.interest = Listing(e)
  <2> HIDE DEF e
  <2> QED BY <1>3, <1>4 DEF Descriptor
<1>6. d.interest = Listing(d)
  <2> HIDE DEF e, d
  <2> QED BY <1>5 DEF Listing
<1>7. Points(n, T, s, fd, e, a)
  <2> HIDE DEF e
  <2> QED BY <1>3, PointsAt
<1>8. [s EXCEPT !.fds[fd].readList = Append(@, cb)] = a
  BY DEF States
<1>9. Listed(a, fd) = Listing(e)
  <2>1. a.fds[fd] = e
    BY <1>7 DEF Points
  <2> HIDE DEF a, e
  <2> QED BY <2>1 DEF Listed, Listing
<1>10. r = [a EXCEPT !.fds[fd].interest = Listing(e)]
  <2>1. r = updateHandle(a, fd, Listed(a, fd))
    BY <1>8 DEF addRead
  <2> HIDE DEF a, e
  <2> QED BY <1>9, <2>1 DEF updateHandle
<1>11. r = [a EXCEPT !.fds[fd] = d]
  <2>1. a.fds[fd] = e /\ a \in States(n, T)
    BY <1>7 DEF Points
  <2> HIDE DEF a, e
  <2> QED BY <1>10, <2>1
<1>12. Points(n, T, a, fd, d, r)
  <2>1. a \in States(n, T)
    BY <1>7 DEF Points
  <2> HIDE DEF a, d
  <2> QED BY <1>5, <1>11, <2>1, PointsAt
<1>13. Points(n, T, s, fd, d, r)
  <2> HIDE DEF a, d, e
  <2> QED BY <1>7, <1>12 DEF Points
<1> HIDE DEF d, e
<1> QED BY <1>3, <1>5, <1>6, <1>13

LEMMA addWriteDoes ==
  ASSUME NEW n \in Nat, NEW T, NEW s \in States(n, T), NEW fd \in Sockets,
         NEW cb \in 0 .. n, NEW r, r = addWrite(s, fd, cb)
  PROVE  \E d \in Descriptor(n) :
           /\ Points(n, T, s, fd, d, r)
           /\ d.open = s.fds[fd].open /\ d.interest = Listing(d)
           /\ d.writeList = Append(s.fds[fd].writeList, cb) /\ d.readList = s.fds[fd].readList
<1> DEFINE old == s.fds[fd]
           e == [old EXCEPT !.writeList = Append(@, cb)]
           a == [s EXCEPT !.fds[fd] = e]
           d == [e EXCEPT !.interest = Listing(e)]
<1>1. /\ old \in Descriptor(n) /\ old.writeList \in Seq(0 .. n)
  BY At
<1>2. Append(old.writeList, cb) \in Seq(0 .. n)
  BY <1>1, AppendProperties
<1>3. /\ e \in Descriptor(n) /\ e.open = old.open /\ e.writeList = Append(old.writeList, cb)
      /\ e.readList = old.readList
  BY <1>1, <1>2 DEF Descriptor
<1>4. Listing(e) \in SUBSET Events
  BY DEF Listing
<1>5. /\ d \in Descriptor(n) /\ d.open = e.open /\ d.writeList = e.writeList
      /\ d.readList = e.readList /\ d.interest = Listing(e)
  <2> HIDE DEF e
  <2> QED BY <1>3, <1>4 DEF Descriptor
<1>6. d.interest = Listing(d)
  <2> HIDE DEF e, d
  <2> QED BY <1>5 DEF Listing
<1>7. Points(n, T, s, fd, e, a)
  <2> HIDE DEF e
  <2> QED BY <1>3, PointsAt
<1>8. [s EXCEPT !.fds[fd].writeList = Append(@, cb)] = a
  BY DEF States
<1>9. Listed(a, fd) = Listing(e)
  <2>1. a.fds[fd] = e
    BY <1>7 DEF Points
  <2> HIDE DEF a, e
  <2> QED BY <2>1 DEF Listed, Listing
<1>10. r = [a EXCEPT !.fds[fd].interest = Listing(e)]
  <2>1. r = updateHandle(a, fd, Listed(a, fd))
    BY <1>8 DEF addWrite
  <2> HIDE DEF a, e
  <2> QED BY <1>9, <2>1 DEF updateHandle
<1>11. r = [a EXCEPT !.fds[fd] = d]
  <2>1. a.fds[fd] = e /\ a \in States(n, T)
    BY <1>7 DEF Points
  <2> HIDE DEF a, e
  <2> QED BY <1>10, <2>1
<1>12. Points(n, T, a, fd, d, r)
  <2>1. a \in States(n, T)
    BY <1>7 DEF Points
  <2> HIDE DEF a, d
  <2> QED BY <1>5, <1>11, <2>1, PointsAt
<1>13. Points(n, T, s, fd, d, r)
  <2> HIDE DEF a, d, e
  <2> QED BY <1>7, <1>12 DEF Points
<1> HIDE DEF d, e
<1> QED BY <1>3, <1>5, <1>6, <1>13

LEMMA updateHandleDoes ==
  ASSUME NEW n \in Nat, NEW T, NEW s \in States(n, T), NEW fd \in Sockets,
         NEW e \in SUBSET Events, NEW r, r = updateHandle(s, fd, e)
  PROVE  \E d \in Descriptor(n) :
           /\ Points(n, T, s, fd, d, r)
           /\ d.open = s.fds[fd].open /\ d.interest = e
           /\ d.readList = s.fds[fd].readList /\ d.writeList = s.fds[fd].writeList
<1> DEFINE old == s.fds[fd]
           d == [old EXCEPT !.interest = e]
<1>1. old \in Descriptor(n)
  BY At
<1>2. /\ d \in Descriptor(n) /\ d.open = old.open /\ d.readList = old.readList
      /\ d.writeList = old.writeList /\ d.interest = e
  BY <1>1 DEF Descriptor
<1>3. r = [s EXCEPT !.fds[fd] = d]
  BY DEF States, updateHandle
<1>4. Points(n, T, s, fd, d, r)
  <2> HIDE DEF d
  <2> QED BY <1>2, <1>3, PointsAt
<1> HIDE DEF d
<1> QED BY <1>2, <1>4

LEMMA SetListDoes ==
  ASSUME NEW n \in Nat, NEW T, NEW s \in States(n, T), NEW fd \in Sockets,
         NEW e \in Events, NEW list \in Seq(0 .. n), NEW r, r = SetList(s, fd, e, list)
  PROVE  \E d \in Descriptor(n) :
           /\ Points(n, T, s, fd, d, r)
           /\ d.open = s.fds[fd].open /\ d.interest = s.fds[fd].interest
           /\ d.readList = IF e = "read" THEN list ELSE s.fds[fd].readList
           /\ d.writeList = IF e = "read" THEN s.fds[fd].writeList ELSE list
<1> DEFINE old == s.fds[fd]
           d == IF e = "read" THEN [old EXCEPT !.readList = list] ELSE [old EXCEPT !.writeList = list]
<1>1. old \in Descriptor(n)
  BY At
<1>2. /\ d \in Descriptor(n) /\ d.open = old.open /\ d.interest = old.interest
      /\ d.readList = IF e = "read" THEN list ELSE old.readList
      /\ d.writeList = IF e = "read" THEN old.writeList ELSE list
  <2>1. CASE e = "read"
    BY <1>1, <2>1 DEF Descriptor
  <2>2. CASE e # "read"
    BY <1>1, <2>2 DEF Descriptor
  <2> QED BY <2>1, <2>2
<1>3. r = [s EXCEPT !.fds[fd] = d]
  <2>1. CASE e = "read"
    BY <2>1 DEF States, SetList
  <2>2. CASE e # "read"
    BY <2>2 DEF States, SetList
  <2> QED BY <2>1, <2>2
<1>4. Points(n, T, s, fd, d, r)
  <2> HIDE DEF d
  <2> QED BY <1>2, <1>3, PointsAt
<1> HIDE DEF d
<1> QED BY <1>2, <1>4

Closes(n, T, s, fd, r) ==
  /\ r \in States(n, T) /\ r.futs = s.futs /\ r.ready = s.ready /\ r.order = s.order
  /\ r.fds[fd] = Closed /\ r.inbox[fd] = 0 /\ r.room[fd] = SendRoom
  /\ \A g \in Sockets : g # fd => /\ r.fds[g] = s.fds[g] /\ r.inbox[g] = s.inbox[g]
                                  /\ r.room[g] = s.room[g]
LEMMA GoneDoes ==
  ASSUME NEW n \in Nat, NEW T, NEW s \in States(n, T), NEW fd \in Sockets,
         NEW r, r = Gone(s, fd)
  PROVE  Closes(n, T, s, fd, r)
<1>1. /\ s.futs \in Seq(Made(n, T)) /\ Len(s.futs) = n /\ s.ready \in Seq(Call(n, T))
      /\ s.order \in Seq(1 .. n) /\ s.fds \in [Sockets -> Descriptor(n)]
      /\ s.inbox \in [Sockets -> 0 .. MaxInbox] /\ s.room \in [Sockets -> 0 .. SendRoom]
  BY Fields
<1>2. r.futs = s.futs /\ r.ready = s.ready /\ r.order = s.order
  BY DEF States, Gone
<1>3. /\ r.fds = [s.fds EXCEPT ![fd] = Closed] /\ r.inbox = [s.inbox EXCEPT ![fd] = 0]
      /\ r.room = [s.room EXCEPT ![fd] = SendRoom]
  BY DEF States, Gone
<1>4. Record(r)
  BY DEF States, Record, Gone
<1>5. Closed \in Descriptor(n)
  <2>1. << >> \in Seq(0 .. n)
    BY EmptySeq
  <2> QED BY <2>1 DEF Closed, Descriptor
<1>6. 0 \in 0 .. MaxInbox /\ SendRoom \in 0 .. SendRoom
  BY ConstantsAssumption
<1>7. /\ r.fds \in [Sockets -> Descriptor(n)] /\ r.inbox \in [Sockets -> 0 .. MaxInbox]
      /\ r.room \in [Sockets -> 0 .. SendRoom]
  BY <1>1, <1>3, <1>5, <1>6
<1>8. /\ r.fds[fd] = Closed /\ r.inbox[fd] = 0 /\ r.room[fd] = SendRoom
      /\ \A g \in Sockets : g # fd => /\ r.fds[g] = s.fds[g] /\ r.inbox[g] = s.inbox[g]
                                      /\ r.room[g] = s.room[g]
  BY <1>1, <1>3
<1>9. r \in States(n, T)
  BY <1>1, <1>2, <1>4, <1>7, MakeState
<1> QED BY <1>2, <1>8, <1>9 DEF Closes

(***************************************************************************)
(* The callbacks of recv and send.                                         *)
(***************************************************************************)
LEMMA Sends ==
  ASSUME NEW n \in Nat, NEW T, NEW s \in States(n, T), NEW fd \in Sockets, NEW f \in 1 .. n,
         NEW x \in 0 .. SendRoom, NEW y \in Nat,
         NEW r, r = [s EXCEPT !.room[fd] = x, !.futs[f].left = y]
  PROVE  r \in States(n, T) /\ r.fds = s.fds /\ r.inbox = s.inbox /\ Same(n, s, r, {})
<1> DEFINE fut == [s.futs[f] EXCEPT !.left = y]
<1>1. /\ s.futs \in Seq(Made(n, T)) /\ Len(s.futs) = n /\ s.ready \in Seq(Call(n, T))
      /\ s.order \in Seq(1 .. n) /\ s.fds \in [Sockets -> Descriptor(n)]
      /\ s.inbox \in [Sockets -> 0 .. MaxInbox] /\ s.room \in [Sockets -> 0 .. SendRoom]
  BY Fields
<1>2. s.futs[f] \in Made(n, T)
  BY <1>1, ElementOfSeq
<1>3. /\ fut \in Made(n, T) /\ fut.answer = s.futs[f].answer
      /\ fut.kind = s.futs[f].kind /\ fut.of = s.futs[f].of
  BY <1>2 DEF Made
<1>4. r.futs = [s.futs EXCEPT ![f] = fut]
  BY DEF States
<1>5. /\ r.order = s.order /\ r.ready = s.ready /\ r.fds = s.fds /\ r.inbox = s.inbox
      /\ r.room = [s.room EXCEPT ![fd] = x]
  BY DEF States
<1>6. Record(r)
  BY DEF States, Record
<1>7. /\ [s.futs EXCEPT ![f] = fut] \in Seq(Made(n, T)) /\ Len([s.futs EXCEPT ![f] = fut]) = n
      /\ \A g \in 1 .. n : [s.futs EXCEPT ![f] = fut][g] = IF g = f THEN fut ELSE s.futs[g]
  <2> HIDE DEF fut
  <2> QED BY <1>1, <1>3, ExceptSeq
<1>8. r.room \in [Sockets -> 0 .. SendRoom]
  BY <1>1, <1>5
<1>9. r \in States(n, T)
  <2> HIDE DEF fut
  <2> QED BY <1>1, <1>4, <1>5, <1>6, <1>7, <1>8, MakeState
<1>10. Same(n, s, r, {})
  <2> HIDE DEF fut
  <2> QED BY <1>3, <1>4, <1>7 DEF Same
<1> QED BY <1>5, <1>9, <1>10

LEMMA Takes ==
  ASSUME NEW n \in Nat, NEW T, NEW s \in States(n, T), NEW fd \in Sockets,
         s.inbox[fd] > 0, NEW r, r = [s EXCEPT !.inbox[fd] = @ - 1]
  PROVE  /\ r \in States(n, T) /\ r.fds = s.fds /\ r.futs = s.futs
         /\ \A g \in Sockets : r.inbox[g] <= s.inbox[g]
<1>1. /\ s.futs \in Seq(Made(n, T)) /\ Len(s.futs) = n /\ s.ready \in Seq(Call(n, T))
      /\ s.order \in Seq(1 .. n) /\ s.fds \in [Sockets -> Descriptor(n)]
      /\ s.inbox \in [Sockets -> 0 .. MaxInbox] /\ s.room \in [Sockets -> 0 .. SendRoom]
  BY Fields
<1>2. /\ r.order = s.order /\ r.ready = s.ready /\ r.fds = s.fds /\ r.futs = s.futs
      /\ r.room = s.room /\ r.inbox = [s.inbox EXCEPT ![fd] = @ - 1]
  BY DEF States
<1>3. Record(r)
  BY DEF States, Record
<1>4. s.inbox[fd] \in 0 .. MaxInbox /\ s.inbox[fd] - 1 \in 0 .. MaxInbox
  BY <1>1, ConstantsAssumption
<1>5. r.inbox \in [Sockets -> 0 .. MaxInbox]
  BY <1>1, <1>2, <1>4
<1>6. \A g \in Sockets : r.inbox[g] <= s.inbox[g]
  <2> TAKE g \in Sockets
  <2>1. s.inbox[g] \in Nat
    BY <1>1, ConstantsAssumption
  <2>2. CASE g = fd
    BY <1>1, <1>2, <1>4, <2>2
  <2>3. CASE g # fd
    BY <1>1, <1>2, <2>1, <2>3
  <2> QED BY <2>2, <2>3
<1> QED BY <1>1, <1>2, <1>3, <1>5, <1>6, MakeState

(* What the future of f has become: Again says that it waits on.           *)
Outcome(s, fd, f) ==
  IF Again(s, fd, f) THEN s.futs[f].answer
  ELSE IF ~s.fds[fd].open THEN "failed"
  ELSE IF s.futs[f].kind # "recv" THEN "done"
  ELSE IF s.inbox[fd] > 0 THEN "data" ELSE "end"
Tries(n, T, s, fd, f, r) ==
  /\ r \in States(n, T) /\ r.fds = s.fds /\ Same(n, s, r, {f})
  /\ r.futs[f].answer = Outcome(s, fd, f)
  /\ \A g \in Sockets : r.inbox[g] <= s.inbox[g]
  /\ ~s.fds[fd].open => SameIo(s, r)

LEMMA AttemptDoes ==
  ASSUME NEW n \in Nat, NEW T, NEW s \in States(n, T), NEW fd \in Sockets, NEW f \in 1 .. n,
         hungup[fd] \in BOOLEAN, NEW r, r = Attempt(s, fd, f)
  PROVE  Tries(n, T, s, fd, f, r)
<1>1. /\ s.futs \in Seq(Made(n, T)) /\ Len(s.futs) = n
      /\ s.inbox \in [Sockets -> 0 .. MaxInbox] /\ s.room \in [Sockets -> 0 .. SendRoom]
  BY Fields
<1>2. s.futs[f] \in Made(n, T) /\ s.futs[f].left \in Nat
  BY <1>1, ElementOfSeq, MadeFields
<1>3. s.fds[fd].open \in BOOLEAN
  BY At
<1>4. s.room[fd] \in 0 .. SendRoom /\ s.inbox[fd] \in Nat
  BY <1>1, ConstantsAssumption
<1>5. f # Watcher
  BY DEF Watcher
<1>6. \A g \in Sockets : s.inbox[g] \in Nat
  BY <1>1, ConstantsAssumption
<1>7. CASE ~s.fds[fd].open
  <2>1. r = Finish(s, f, "failed") /\ "failed" \in Answers
    BY <1>5, <1>7 DEF Attempt, Answers
  <2>2. Finishes(n, T, s, f, "failed", r)
    BY <2>1, FinishDoes
  <2>3. Outcome(s, fd, f) = "failed"
    BY <1>7 DEF Outcome, Again
  <2> QED BY <1>6, <2>2, <2>3 DEF Finishes, Tries, SameIo
<1>8. CASE s.fds[fd].open /\ s.futs[f].kind = "recv"
  <2>1. CASE s.inbox[fd] > 0
    <3> DEFINE q == [s EXCEPT !.inbox[fd] = @ - 1]
    <3>1. r = Finish(q, f, "data") /\ "data" \in Answers
      BY <1>5, <1>8, <2>1 DEF Attempt, Answers
    <3>2. /\ q \in States(n, T) /\ q.fds = s.fds /\ q.futs = s.futs
          /\ \A g \in Sockets : q.inbox[g] <= s.inbox[g]
      BY <2>1, Takes
    <3> HIDE DEF q
    <3>3. Finishes(n, T, q, f, "data", r)
      BY <3>1, <3>2, FinishDoes
    <3>4. Outcome(s, fd, f) = "data"
      BY <1>4, <1>8, <2>1 DEF Outcome, Again
    <3> QED BY <1>8, <3>2, <3>3, <3>4 DEF Finishes, Tries, SameIo, Same
  <2>2. CASE s.inbox[fd] = 0 /\ hungup[fd]
    <3>1. r = Finish(s, f, "end") /\ "end" \in Answers
      BY <1>5, <1>8, <2>2 DEF Attempt, Answers
    <3>2. Finishes(n, T, s, f, "end", r)
      BY <3>1, FinishDoes
    <3>3. Outcome(s, fd, f) = "end"
      BY <1>4, <1>8, <2>2 DEF Outcome, Again
    <3> QED BY <1>6, <1>8, <3>2, <3>3 DEF Finishes, Tries, SameIo
  <2>3. CASE s.inbox[fd] = 0 /\ ~hungup[fd]
    <3>1. r = s
      BY <1>5, <1>8, <2>3 DEF Attempt
    <3>2. Outcome(s, fd, f) = s.futs[f].answer
      BY <1>8, <2>3 DEF Outcome, Again
    <3> QED BY <1>6, <1>8, <3>1, <3>2 DEF Tries, Same
  <2> QED BY <1>4, <2>1, <2>2, <2>3
<1>9. CASE s.fds[fd].open /\ s.futs[f].kind # "recv"
  <2>1. CASE s.room[fd] >= s.futs[f].left
    <3> DEFINE x == s.room[fd] - s.futs[f].left
               q == [s EXCEPT !.room[fd] = x, !.futs[f].left = 0]
    <3>1. r = Finish(q, f, "done") /\ "done" \in Answers
      BY <1>5, <1>9, <2>1 DEF Attempt, Answers
    <3>2. x \in 0 .. SendRoom
      BY <1>2, <1>4, <2>1, ConstantsAssumption
    <3> HIDE DEF x
    <3>3. q \in States(n, T) /\ q.fds = s.fds /\ q.inbox = s.inbox /\ Same(n, s, q, {})
      BY <3>2, Sends
    <3> HIDE DEF q
    <3>4. Finishes(n, T, q, f, "done", r)
      BY <3>1, <3>3, FinishDoes
    <3>5. Outcome(s, fd, f) = "done"
      BY <1>2, <1>4, <1>9, <2>1 DEF Outcome, Again
    <3> QED BY <1>6, <1>9, <3>3, <3>4, <3>5 DEF Finishes, Tries, SameIo, Same
  <2>2. CASE ~(s.room[fd] >= s.futs[f].left)
    <3> DEFINE y == s.futs[f].left - s.room[fd]
               q == [s EXCEPT !.room[fd] = 0, !.futs[f].left = y]
    <3>1. r = q
      BY <1>5, <1>9, <2>2 DEF Attempt, States
    <3>2. y \in Nat /\ 0 \in 0 .. SendRoom
      BY <1>2, <1>4, <2>2, ConstantsAssumption
    <3> HIDE DEF y
    <3>5. q \in States(n, T) /\ q.fds = s.fds /\ q.inbox = s.inbox /\ Same(n, s, q, {})
      BY <3>2, Sends
    <3> HIDE DEF q
    <3>3. r \in States(n, T) /\ r.fds = s.fds /\ r.inbox = s.inbox /\ Same(n, s, r, {})
      BY <3>1, <3>5
    <3>4. Outcome(s, fd, f) = s.futs[f].answer
      BY <1>2, <1>4, <1>9, <2>2 DEF Outcome, Again
    <3> QED BY <1>6, <1>9, <3>3, <3>4 DEF Tries, Same
  <2> QED BY <2>1, <2>2
<1> QED BY <1>3, <1>7, <1>8, <1>9

(* The first k futures in the list are answered, and the rest stays.       *)
Answer(n, T, s, k, list, a, r) ==
  /\ r \in States(n, T) /\ SameIo(s, r)
  /\ \A g \in 1 .. n :
       /\ r.futs[g].kind = s.futs[g].kind /\ r.futs[g].of = s.futs[g].of
       /\ r.futs[g].answer = IF \E j \in 1 .. k : list[j] = g THEN a ELSE s.futs[g].answer
LEMMA AnswerNext ==
  ASSUME NEW n \in Nat, NEW T, NEW s, NEW list, NEW k \in Nat, NEW f \in 1 .. n, f = list[k + 1],
         NEW a, NEW q, Answer(n, T, s, k, list, a, q),
         NEW r \in States(n, T), SameIo(q, r), Same(n, q, r, {f}), r.futs[f].answer = a
  PROVE  Answer(n, T, s, k + 1, list, a, r)
<1>1. ASSUME NEW g \in 1 .. n
      PROVE  /\ r.futs[g].kind = s.futs[g].kind /\ r.futs[g].of = s.futs[g].of
             /\ r.futs[g].answer = IF \E j \in 1 .. k + 1 : list[j] = g THEN a
                                                                      ELSE s.futs[g].answer
  <2>1. (\E j \in 1 .. k + 1 : list[j] = g) <=> (g = f \/ \E j \in 1 .. k : list[j] = g)
    <3>1. \A j \in 1 .. k + 1 : j = k + 1 \/ j \in 1 .. k
      OBVIOUS
    <3>2. k + 1 \in 1 .. k + 1 /\ 1 .. k \subseteq 1 .. k + 1
      OBVIOUS
    <3> QED BY <3>1, <3>2
  <2>2. r.futs[g].kind = s.futs[g].kind /\ r.futs[g].of = s.futs[g].of
    BY DEF Same, Answer
  <2>3. g # f => r.futs[g].answer = q.futs[g].answer
    BY DEF Same
  <2>4. q.futs[g].answer = IF \E j \in 1 .. k : list[j] = g THEN a ELSE s.futs[g].answer
    BY DEF Answer
  <2> QED BY <2>1, <2>2, <2>3, <2>4
<1>2. SameIo(s, r)
  BY DEF Answer, SameIo
<1> QED BY <1>1, <1>2 DEF Answer

(* Callbacks called on a closed socket fail.                               *)
LEMMA FailsNext ==
  ASSUME NEW n \in Nat, NEW T, NEW s \in States(n, T), NEW fd \in Sockets, ~s.fds[fd].open,
         hungup[fd] \in BOOLEAN, NEW list, NEW k \in Nat, list[k + 1] \in 0 .. n,
         NEW q, Answer(n, T, s, k, list, "failed", q), NEW r, r = Attempt(q, fd, list[k + 1])
  PROVE  Answer(n, T, s, k + 1, list, "failed", r)
<1>1. q \in States(n, T) /\ SameIo(s, q) /\ ~q.fds[fd].open
  BY DEF Answer, SameIo
<1>2. CASE list[k + 1] = 0
  <2>1. r = q
    BY <1>2 DEF Attempt, Watcher
  <2>2. \A g \in 1 .. n : (\E j \in 1 .. k : list[j] = g) <=> \E j \in 1 .. k + 1 : list[j] = g
    <3> TAKE g \in 1 .. n
    <3>1. \A j \in 1 .. k + 1 : list[j] = g => j \in 1 .. k
      BY <1>2
    <3> QED BY <3>1
  <2> QED BY <2>1, <2>2 DEF Answer
<1>3. CASE list[k + 1] # 0
  <2>1. PICK f \in 1 .. n : f = list[k + 1]
    BY <1>3
  <2>2. Tries(n, T, q, fd, f, r)
    BY <1>1, <2>1, AttemptDoes
  <2>3. Outcome(q, fd, f) = "failed"
    BY <1>1 DEF Outcome, Again
  <2>4. r \in States(n, T) /\ SameIo(q, r) /\ Same(n, q, r, {f}) /\ r.futs[f].answer = "failed"
    BY <1>1, <2>2, <2>3 DEF Tries
  <2> QED BY <2>1, <2>4, AnswerNext
<1> QED BY <1>2, <1>3

(* What holds of s and is kept when one more future in the list is answered*)
(* holds in the end; P is the set of the states of which it holds.         *)
LEMMA CallAllKeeps ==
  ASSUME NEW n \in Nat, NEW T, NEW s \in States(n, T), NEW fd \in Sockets, ~s.fds[fd].open,
         hungup[fd] \in BOOLEAN, NEW list \in Seq(0 .. n), NEW r, r = CallAll(s, fd, list),
         NEW P, s \in P,
         \A i \in 1 .. Len(list), z \in P :
           list[i] # Watcher /\ Answer(n, T, s, i - 1, list, "failed", z)
             => Finish(z, list[i], "failed") \in P
  PROVE  Answer(n, T, s, Len(list), list, "failed", r) /\ r \in P
<1> DEFINE m == Len(list)
           S == {z \in States(n, T) : SameIo(s, z)}
           step == [p \in S \X (1 .. m) |-> Attempt(p[1], fd, list[p[2]])]
           Rec(h) == [i \in 0 .. m |-> IF i = 0 THEN s ELSE Attempt(h[i - 1], fd, list[i])]
           after == CHOOSE h : h = Rec(h)
<1>1. m \in Nat /\ \A i \in 1 .. m : list[i] \in 0 .. n
  BY LenProperties
<1> HIDE DEF m
<1>2. s \in S
  BY DEF SameIo
<1>3. ASSUME NEW z \in S, NEW i \in 1 .. m PROVE Attempt(z, fd, list[i]) \in S
  <2>1. list[i] \in 0 .. n /\ z \in States(n, T) /\ SameIo(s, z) /\ ~z.fds[fd].open
    BY <1>1 DEF SameIo
  <2>2. CASE list[i] = 0
    BY <2>1, <2>2 DEF Attempt, Watcher
  <2>3. CASE list[i] # 0
    <3>1. PICK f \in 1 .. n : f = list[i]
      BY <2>1, <2>3
    <3>2. Tries(n, T, z, fd, f, Attempt(z, fd, f))
      BY <2>1, AttemptDoes
    <3> QED BY <2>1, <3>1, <3>2 DEF Tries, SameIo
  <2> QED BY <2>2, <2>3
<1>4. step \in [S \X (1 .. m) -> S]
  <2> HIDE DEF S
  <2> QED BY <1>3
<1>41. PICK g : Iterates(S, m, step, s, g)
  <2> HIDE DEF S, step
  <2> QED BY <1>1, <1>2, <1>4, Iteration
<1>5. g \in [0 .. m -> S] /\ g[0] = s /\ \A i \in 1 .. m : g[i] = step[<<g[i - 1], i>>]
  <2> HIDE DEF S, step
  <2> QED BY <1>41 DEF Iterates
<1>6. g = Rec(g)
  <2>1. \A i \in 1 .. m : g[i - 1] \in S
    BY <1>1, <1>5
  <2>2. \A i \in 1 .. m : g[i] = Attempt(g[i - 1], fd, list[i])
    <3> HIDE DEF S
    <3> QED BY <1>5, <2>1
  <2> HIDE DEF S, step
  <2> QED BY <1>5, <2>2
<1>7. after = Rec(after)
  <2> HIDE DEF Rec
  <2> QED BY <1>6
<1>71. \A i \in 1 .. m : after[i] = Attempt(after[i - 1], fd, list[i])
  <2> HIDE DEF after
  <2> QED BY <1>1, <1>7
<1>8. r = after[m]
  BY DEF CallAll, m
<1> HIDE DEF after
<1> DEFINE U == {i \in 0 .. m : Answer(n, T, s, i, list, "failed", after[i]) /\ after[i] \in P}
<1>9. 0 \in U
  <2>1. after[0] = s
    BY <1>1, <1>7
  <2> QED BY <1>1, <2>1 DEF Answer, SameIo
<1>10. ASSUME NEW i \in 0 .. m - 1, i \in U PROVE i + 1 \in U
  <2>1. i + 1 \in 1 .. m /\ i + 1 \in 0 .. m /\ (i + 1) - 1 = i
    BY <1>1
  <2>2. after[i + 1] = Attempt(after[i], fd, list[i + 1])
    BY <1>71, <2>1
  <2>3. /\ i \in Nat /\ list[i + 1] \in 0 .. n /\ Answer(n, T, s, i, list, "failed", after[i])
        /\ after[i] \in P
    BY <1>1, <1>10, <2>1
  <2>4. Answer(n, T, s, i + 1, list, "failed", after[i + 1])
    BY <2>2, <2>3, FailsNext
  <2>5. CASE list[i + 1] = Watcher
    BY <2>1, <2>2, <2>3, <2>4, <2>5 DEF Attempt
  <2>6. CASE list[i + 1] # Watcher
    <3>1. Finish(after[i], list[i + 1], "failed") \in P
      BY <2>1, <2>3, <2>6 DEF m
    <3>2. ~after[i].fds[fd].open
      BY <2>3 DEF Answer, SameIo
    <3>3. after[i + 1] = Finish(after[i], list[i + 1], "failed")
      BY <2>2, <2>6, <3>2 DEF Attempt
    <3> QED BY <2>1, <2>4, <3>1, <3>3
  <2> QED BY <2>5, <2>6
<1>11. m \in U
  <2> HIDE DEF U
  <2>1. \A i \in 0 .. m : i \in U
    BY <1>1, <1>9, <1>10, UpTo
  <2> QED BY <1>1, <2>1
<1> QED BY <1>8, <1>11 DEF m

LEMMA CallAllDoes ==
  ASSUME NEW n \in Nat, NEW T, NEW s \in States(n, T), NEW fd \in Sockets, ~s.fds[fd].open,
         hungup[fd] \in BOOLEAN, NEW list \in Seq(0 .. n), NEW r, r = CallAll(s, fd, list)
  PROVE  Answer(n, T, s, Len(list), list, "failed", r)
<1> DEFINE P == {s} \cup {Finish(z, f, "failed") : z \in States(n, T), f \in 1 .. n}
<1>1. ASSUME NEW i \in 1 .. Len(list), NEW z \in P, list[i] # Watcher, Answer(n, T, s, i - 1, list, "failed", z)
      PROVE  Finish(z, list[i], "failed") \in P
  <2>1. list[i] \in 1 .. n /\ z \in States(n, T)
    BY <1>1, ElementOfSeq DEF Answer, Watcher
  <2> QED BY <2>1
<1>2. s \in P
  OBVIOUS
<1> HIDE DEF P
<1> QED BY <1>1, <1>2, CallAllKeeps

(* Timers: those that are due are completed in order.                      *)
LEMMA DueIs ==
  ASSUME NEW S, timers \in Seq(S)
  PROVE  /\ Due \in 0 .. Len(timers)
         /\ \A i \in 1 .. Due : timers[i].left = 0
         /\ Due < Len(timers) => timers[Due + 1].left # 0
<1> DEFINE m == Len(timers)
           Least(n) == /\ \A i \in 1 .. n : timers[i].left = 0
                       /\ n < m => timers[n + 1].left # 0
           B == {n \in 0 .. m : n < m => timers[n + 1].left # 0}
<1>1. m \in Nat
  BY LenProperties
<1> HIDE DEF m
<1>2. B \in SUBSET Nat /\ m \in B
  BY <1>1
<1>3. PICK n \in B : \A k \in B : n <= k
  <2> HIDE DEF B
  <2> QED BY <1>2, LeastNumber
<1>4. ASSUME NEW i \in 1 .. n PROVE timers[i].left = 0
  <2>1. i - 1 \in 0 .. m /\ i - 1 < m /\ (i - 1) + 1 = i /\ ~(n <= i - 1)
    BY <1>1, <1>3
  <2>2. i - 1 \notin B
    BY <1>3, <2>1
  <2> QED BY <2>1, <2>2
<1>5. Least(n) /\ n \in 0 .. m
  BY <1>3, <1>4
<1>6. Due = CHOOSE k \in 0 .. m : Least(k)
  BY DEF Due, m
<1>7. Due \in 0 .. m /\ Least(Due)
  <2> HIDE DEF Least
  <2> QED BY <1>5, <1>6
<1> QED BY <1>7 DEF m

LEMMA ExpiredKeeps ==
  ASSUME NEW n \in Nat, NEW T, State \in States(n, T), NEW F \in SUBSET (1 .. n),
         timers \in Seq([fut : F, left : Nat]), NEW r, r = Expired,
         NEW list, list = [i \in 1 .. Len(timers) |-> timers[i].fut],
         NEW P, State \in P,
         \A i \in 1 .. Due, z \in P :
           Answer(n, T, State, i - 1, list, "done", z) => Finish(z, list[i], "done") \in P
  PROVE  Answer(n, T, State, Due, list, "done", r) /\ r \in P
<1> DEFINE l == Len(timers)
<1>1. PICK m : m = Due
  OBVIOUS
<1>2. l \in Nat /\ m \in 0 .. l /\ \A i \in 1 .. l : timers[i].fut \in 1 .. n
  <2>1. \A i \in 1 .. l : timers[i] \in [fut : F, left : Nat]
    BY ElementOfSeq
  <2> QED BY <1>1, <2>1, DueIs, LenProperties
<1> HIDE DEF l
<1> DEFINE s == State
           S == States(n, T)
           step == [p \in S \X (1 .. m) |-> Finish(p[1], timers[p[2]].fut, "done")]
           Rec(h) == [i \in 0 .. m |-> IF i = 0 THEN s ELSE Finish(h[i - 1], timers[i].fut, "done")]
           after == CHOOSE h : h = Rec(h)
<1>3. "done" \in Answers
  BY DEF Answers
<1>4. ASSUME NEW z \in S, NEW i \in 1 .. m
      PROVE  Finishes(n, T, z, timers[i].fut, "done", Finish(z, timers[i].fut, "done"))
  <2>1. timers[i].fut \in 1 .. n
    BY <1>2
  <2> QED BY <1>3, <2>1, FinishDoes
<1>5. step \in [S \X (1 .. m) -> S]
  <2>1. \A z \in S, i \in 1 .. m : Finish(z, timers[i].fut, "done") \in S
    BY <1>4 DEF Finishes
  <2> HIDE DEF S
  <2> QED BY <2>1
<1>6. PICK g : Iterates(S, m, step, s, g)
  <2>1. m \in Nat /\ s \in S
    BY <1>2
  <2> HIDE DEF S, step, s
  <2> QED BY <1>5, <2>1, Iteration
<1>7. g \in [0 .. m -> S] /\ g[0] = s /\ \A i \in 1 .. m : g[i] = step[<<g[i - 1], i>>]
  <2> HIDE DEF S, step, s
  <2> QED BY <1>6 DEF Iterates
<1>8. g = Rec(g)
  <2>1. \A i \in 1 .. m : g[i - 1] \in S
    BY <1>2, <1>7
  <2>2. \A i \in 1 .. m : g[i] = Finish(g[i - 1], timers[i].fut, "done")
    <3> HIDE DEF S, s
    <3> QED BY <1>7, <2>1
  <2> HIDE DEF S, step, s
  <2> QED BY <1>2, <1>7, <2>2
<1>9. after = Rec(after)
  <2> HIDE DEF Rec
  <2> QED BY <1>8
<1>10. r = after[m]
  BY <1>1 DEF Expired
<1>11. after[0] = s /\ \A i \in 1 .. m : after[i] = Finish(after[i - 1], timers[i].fut, "done")
  <2> HIDE DEF after, s
  <2> QED BY <1>2, <1>9
<1> HIDE DEF after
<1> DEFINE U == {i \in 0 .. m : Answer(n, T, s, i, list, "done", after[i]) /\ after[i] \in P}
<1>12. 0 \in U
  BY <1>2, <1>11 DEF Answer, SameIo
<1>13. ASSUME NEW i \in 0 .. m - 1, i \in U PROVE i + 1 \in U
  <2>1. i + 1 \in 1 .. m /\ i + 1 \in 0 .. m /\ (i + 1) - 1 = i /\ i \in Nat
    BY <1>2
  <2>2. after[i + 1] = Finish(after[i], timers[i + 1].fut, "done")
    BY <1>11, <2>1
  <2>3. Answer(n, T, s, i, list, "done", after[i]) /\ after[i] \in P
    BY <1>13
  <2>4. PICK f \in 1 .. n : f = list[i + 1] /\ f = timers[i + 1].fut
    <3>1. i + 1 \in 1 .. l /\ timers[i + 1].fut \in 1 .. n
      BY <1>2, <2>1
    <3>2. list[i + 1] = timers[i + 1].fut
      BY <3>1 DEF l
    <3> QED BY <3>1, <3>2
  <2>5. Finishes(n, T, after[i], f, "done", after[i + 1])
    <3>1. after[i] \in States(n, T)
      BY <2>3 DEF Answer
    <3> QED BY <1>3, <2>2, <2>4, <3>1, FinishDoes
  <2>6. Answer(n, T, s, i + 1, list, "done", after[i + 1])
    BY <2>1, <2>3, <2>4, <2>5, AnswerNext DEF Finishes
  <2>7. after[i + 1] \in P
    <3>1. Finish(after[i], list[i + 1], "done") \in P
      BY <1>1, <2>1, <2>3
    <3> QED BY <2>2, <2>4, <3>1
  <2> QED BY <2>1, <2>6, <2>7
<1>14. m \in U
  <2> HIDE DEF U
  <2>1. m \in Nat
    BY <1>2
  <2>2. \A i \in 0 .. m : i \in U
    BY <1>12, <1>13, <2>1, UpTo
  <2> QED BY <1>2, <2>2
<1> QED BY <1>1, <1>10, <1>14

LEMMA ExpiredDoes ==
  ASSUME NEW n \in Nat, NEW T, State \in States(n, T), NEW F \in SUBSET (1 .. n),
         timers \in Seq([fut : F, left : Nat]), NEW r, r = Expired
  PROVE  Answer(n, T, State, Due, [i \in 1 .. Len(timers) |-> timers[i].fut], "done", r)
<1> DEFINE P == {State} \cup {Finish(z, f, "done") : z \in States(n, T), f \in 1 .. n}
<1>1. PICK list : list = [i \in 1 .. Len(timers) |-> timers[i].fut]
  OBVIOUS
<1>2. ASSUME NEW i \in 1 .. Due, NEW z \in P, Answer(n, T, State, i - 1, list, "done", z)
      PROVE  Finish(z, list[i], "done") \in P
  <2>1. PICK d : d = Due
    OBVIOUS
  <2>2. Len(timers) \in Nat /\ d \in 0 .. Len(timers)
    BY <2>1, DueIs, LenProperties
  <2>3. i \in 1 .. Len(timers)
    BY <2>1, <2>2
  <2>4. \A j \in 1 .. Len(timers) : timers[j] \in [fut : F, left : Nat]
    <3> HIDE DEF P
    <3> QED BY ElementOfSeq
  <2>5. list[i] = timers[i].fut /\ timers[i].fut \in F
    BY <1>1, <2>3, <2>4
  <2>6. list[i] \in 1 .. n /\ z \in States(n, T)
    <3> HIDE DEF P
    <3> QED BY <1>2, <2>5 DEF Answer
  <2> QED BY <2>6
<1>3. State \in P
  OBVIOUS
<1> HIDE DEF P
<1> QED BY <1>1, <1>2, <1>3, ExpiredKeeps

(***************************************************************************)
(* Types.  Callbacks name the futures of timeouts, timers those of sleeps. *)
(***************************************************************************)
Of(kind) == {f \in 1 .. Len(futs) : futs[f].kind = kind}
Timer(F) == [fut : F, left : Nat]
Io(n) == [event : Events \cup {"none"}, cur : Seq(0 .. n), new : Seq(0 .. n)]
Counts == [read : Nat \cup {-1}, write : Nat \cup {-1}]
Key == [fd : Sockets, events : SUBSET Events, counts : Counts]

DataInv ==
  /\ Len(futs) \in NTasks .. MaxFutures
  /\ State \in States(Len(futs), Of("timeout"))
  /\ hungup \in [Sockets -> BOOLEAN]
  /\ timers \in Seq(Timer(Of("sleep"))) /\ op \in [Tasks -> 0 .. Len(futs)]
  /\ \A t \in Tasks : futs[t].kind = "task"
  /\ io \in Io(Len(futs))
LoopInv ==
  /\ pc \in {"poll", "main", "adjust", "select", "dispatch", "callbacks", "task", "raised"}
  /\ task \in 0 .. NTasks /\ (task # 0 <=> Running)
  /\ started \in 0 .. NTasks /\ until \in Nat /\ keys \in Seq(Key)

LEMMA FutsTyped ==
  ASSUME DataInv
  PROVE  /\ Len(futs) \in Nat /\ NTasks \in Nat /\ DOMAIN futs = 1 .. Len(futs)
         /\ futs \in Seq(Made(Len(futs), Of("timeout")))
         /\ \A f \in 1 .. Len(futs) : futs[f] \in Made(Len(futs), Of("timeout"))
         /\ \A t \in Tasks : t \in 1 .. Len(futs)
<1>1. Len(futs) \in Nat /\ NTasks \in Nat /\ Len(futs) >= NTasks
  BY ConstantsAssumption DEF DataInv
<1>2. futs \in Seq(Made(Len(futs), Of("timeout")))
  <2>1. State.futs \in Seq(Made(Len(futs), Of("timeout")))
    BY <1>1, Fields DEF DataInv
  <2> QED BY <2>1 DEF State
<1>3. DOMAIN futs = 1 .. Len(futs)
  BY <1>2, LenProperties
<1>4. \A f \in 1 .. Len(futs) : futs[f] \in Made(Len(futs), Of("timeout"))
  BY <1>2, ElementOfSeq
<1> QED BY <1>1, <1>2, <1>3, <1>4 DEF Tasks

(* A step keeps what a future is, and answers at most those in F.          *)
Grown(F) ==
  /\ Len(futs)' >= Len(futs) /\ Len(futs)' \in Nat
  /\ \A g \in 1 .. Len(futs) : /\ futs'[g].kind = futs[g].kind /\ futs'[g].of = futs[g].of
                               /\ g \notin F => futs'[g].answer = futs[g].answer

Became(m, r, F) ==
  /\ Len(futs)' = m /\ State' = r
  /\ Len(futs)' \in NTasks .. MaxFutures
  /\ State' \in States(Len(futs)', Of("timeout")')
  /\ hungup' \in [Sockets -> BOOLEAN] /\ hungup' = hungup
  /\ \A t \in Tasks : futs'[t].kind = "task"
  /\ Seq(Timer(Of("sleep"))) \subseteq Seq(Timer(Of("sleep")'))
  /\ Io(Len(futs)) \subseteq Io(Len(futs)')
  /\ [Tasks -> 0 .. Len(futs)] \subseteq [Tasks -> 0 .. Len(futs)']
  /\ Grown(F)
LEMMA Becoming ==
  ASSUME DataInv, NEW m \in Len(futs) .. MaxFutures, NEW U, NEW r \in States(m, U), Becomes(r),
         NEW F, Same(Len(futs), State, r, F), U = {f \in 1 .. m : r.futs[f].kind = "timeout"}
  PROVE  Became(m, r, F)
<1>1. Len(futs) \in Nat /\ m \in Nat /\ m >= Len(futs) /\ MaxFutures \in Nat
  BY FutsTyped, ConstantsAssumption
<1>2. /\ futs' = r.futs /\ ready' = r.ready /\ order' = r.order /\ fds' = r.fds
      /\ inbox' = r.inbox /\ room' = r.room /\ hungup' = hungup
  BY DEF Becomes
<1>3. Len(futs)' = m /\ Len(futs') = m
  BY <1>1, <1>2, Fields
<1>4. State' = r
  BY <1>2 DEF State, States
<1>5. Of("timeout")' = U
  BY <1>2, <1>3 DEF Of
<1>6. Grown(F)
  BY <1>1, <1>2, <1>3 DEF Grown, Same, State
<1>7. \A t \in Tasks : futs'[t].kind = "task"
  BY <1>6, FutsTyped DEF Grown, DataInv
<1>8. Of("sleep") \subseteq Of("sleep")'
  BY <1>1, <1>3, <1>6 DEF Grown, Of
<1>9. Seq(Timer(Of("sleep"))) \subseteq Seq(Timer(Of("sleep")'))
  <2>1. Timer(Of("sleep")) \subseteq Timer(Of("sleep")')
    BY <1>8 DEF Timer
  <2> QED BY <2>1, SeqMonotonic
<1>10. 0 .. Len(futs) \subseteq 0 .. Len(futs)'
  BY <1>1, <1>3
<1>11. Io(Len(futs)) \subseteq Io(Len(futs)')
  <2>1. Seq(0 .. Len(futs)) \subseteq Seq(0 .. Len(futs)')
    BY <1>10, SeqMonotonic
  <2> QED BY <2>1 DEF Io
<1>12. [Tasks -> 0 .. Len(futs)] \subseteq [Tasks -> 0 .. Len(futs)']
  BY <1>10
<1>13. Len(futs)' \in NTasks .. MaxFutures
  BY <1>1, <1>3, FutsTyped DEF DataInv
<1>14. hungup' \in [Sockets -> BOOLEAN]
  BY <1>2 DEF DataInv
<1> QED BY <1>2, <1>3, <1>4, <1>5, <1>6, <1>7, <1>9, <1>11, <1>12, <1>13, <1>14 DEF Became

LEMMA BecomingSame ==
  ASSUME DataInv, NEW r \in States(Len(futs), Of("timeout")), Becomes(r),
         NEW F, Same(Len(futs), State, r, F)
  PROVE  Became(Len(futs), r, F)
<1>1. Len(futs) \in Len(futs) .. MaxFutures
  BY FutsTyped, ConstantsAssumption DEF DataInv
<1>2. Of("timeout") = {f \in 1 .. Len(futs) : r.futs[f].kind = "timeout"}
  <2>1. \A f \in 1 .. Len(futs) : r.futs[f].kind = futs[f].kind
    BY DEF Same, State
  <2> QED BY <2>1 DEF Of
<1> QED BY <1>1, <1>2, Becoming

LEMMA BecomingOld ==
  ASSUME DataInv, Unchanged
  PROVE  Became(Len(futs), State, {})
<1>1. Becomes(State)
  BY DEF Becomes, State, Unchanged
<1>2. Same(Len(futs), State, State, {}) /\ State \in States(Len(futs), Of("timeout"))
  BY DEF Same, DataInv
<1> QED BY <1>1, <1>2, BecomingSame

LEMMA DataKept ==
  ASSUME DataInv, NEW m, NEW r, NEW F, Became(m, r, F),
         timers' \in Seq(Timer(Of("sleep"))) \cup Seq(Timer(Of("sleep")')),
         op' \in [Tasks -> 0 .. Len(futs)] \cup [Tasks -> 0 .. Len(futs)'],
         io' \in Io(Len(futs)) \cup Io(Len(futs)')
  PROVE  DataInv'
BY DEF Became, DataInv

(***************************************************************************)
(* What each operation makes of a state.                                   *)
(***************************************************************************)
LEMMA FutureTyped ==
  ASSUME NEW n \in Nat, NEW T, NEW k \in Kinds, NEW x \in Sockets \cup Nat, NEW y \in Nat
  PROVE  [kind |-> k, of |-> x, left |-> y, answer |-> "none", callbacks |-> << >>] \in Made(n, T)
<1>1. << >> \in Seq(Call(n, T))
  BY EmptySeq
<1>2. "none" \in Answers
  BY DEF Answers
<1> QED BY <1>1, <1>2 DEF Made

Receives(n, T, s, fd, r) ==
  /\ r \in States(n + 1, T) /\ Same(n, s, r, {}) /\ r.inbox = s.inbox /\ r.room = s.room
  /\ r.futs[n + 1].kind = "recv" /\ r.futs[n + 1].of = fd /\ r.futs[n + 1].answer = "none"
  /\ r.fds[fd].open = s.fds[fd].open /\ r.fds[fd].interest = Listing(r.fds[fd])
  /\ r.fds[fd].readList = Append(s.fds[fd].readList, n + 1)
  /\ r.fds[fd].writeList = s.fds[fd].writeList
  /\ \A g \in Sockets : g # fd => r.fds[g] = s.fds[g]
LEMMA recvDoes ==
  ASSUME NEW n \in Nat, NEW T, NEW s \in States(n, T), NEW fd \in Sockets, NEW r, r = recv(s, fd)
  PROVE  Receives(n, T, s, fd, r)
<1> DEFINE x == Future("recv", fd, 0)
           q == NewFuture(s, x)
<1>1. /\ x \in Made(n + 1, T) /\ x.kind = "recv" /\ x.of = fd /\ x.answer = "none"
  <2>1. x = [kind |-> "recv", of |-> fd, left |-> 0, answer |-> "none", callbacks |-> << >>]
    BY DEF Future
  <2>2. "recv" \in Kinds /\ fd \in Sockets \cup Nat /\ 0 \in Nat /\ n + 1 \in Nat
    BY DEF Kinds
  <2>3. [kind |-> "recv", of |-> fd, left |-> 0, answer |-> "none", callbacks |-> << >>]
          \in Made(n + 1, T)
    BY <2>2, FutureTyped
  <2> HIDE DEF x
  <2> QED BY <2>1, <2>3
<1>2. Adds(n, T, s, x, q)
  <2> HIDE DEF x
  <2> QED BY <1>1, NewDoes
<1>3. r = addRead(q, fd, n + 1)
  BY Fields DEF recv
<1>4. q \in States(n + 1, T) /\ n + 1 \in Nat /\ n + 1 \in 0 .. n + 1
  BY <1>2 DEF Adds
<1>5. PICK d \in Descriptor(n + 1) :
         /\ Points(n + 1, T, q, fd, d, r)
         /\ d.open = q.fds[fd].open /\ d.interest = Listing(d)
         /\ d.readList = Append(q.fds[fd].readList, n + 1) /\ d.writeList = q.fds[fd].writeList
  <2> HIDE DEF q
  <2> QED BY <1>3, <1>4, addReadDoes
<1>6. Same(n, s, r, {}) /\ r.futs[n + 1] = x
  <2> HIDE DEF x, q
  <2> QED BY <1>2, <1>5 DEF Adds, Points, Same
<1> HIDE DEF x, q
<1> QED BY <1>1, <1>2, <1>5, <1>6 DEF Adds, SameIo, Points, Receives

Posts(n, T, s, fd, r) ==
  /\ r \in States(n + 1, T) /\ Same(n, s, r, {}) /\ r.inbox = s.inbox /\ r.room = s.room
  /\ r.futs[n + 1].kind = "send" /\ r.futs[n + 1].of = fd /\ r.futs[n + 1].answer = "none"
  /\ r.fds[fd].open = s.fds[fd].open /\ r.fds[fd].interest = Listing(r.fds[fd])
  /\ r.fds[fd].writeList = Append(s.fds[fd].writeList, n + 1)
  /\ r.fds[fd].readList = s.fds[fd].readList
  /\ \A g \in Sockets : g # fd => r.fds[g] = s.fds[g]
LEMMA sendDoes ==
  ASSUME NEW n \in Nat, NEW T, NEW s \in States(n, T), NEW fd \in Sockets, NEW y \in Nat,
         NEW r, r = send(s, fd, y)
  PROVE  Posts(n, T, s, fd, r)
<1> DEFINE x == Future("send", fd, y)
           q == NewFuture(s, x)
<1>1. /\ x \in Made(n + 1, T) /\ x.kind = "send" /\ x.of = fd /\ x.answer = "none"
  <2>1. x = [kind |-> "send", of |-> fd, left |-> y, answer |-> "none", callbacks |-> << >>]
    BY DEF Future
  <2>2. "send" \in Kinds /\ fd \in Sockets \cup Nat /\ n + 1 \in Nat
    BY DEF Kinds
  <2>3. [kind |-> "send", of |-> fd, left |-> y, answer |-> "none", callbacks |-> << >>]
          \in Made(n + 1, T)
    BY <2>2, FutureTyped
  <2> HIDE DEF x
  <2> QED BY <2>1, <2>3
<1>2. Adds(n, T, s, x, q)
  <2> HIDE DEF x
  <2> QED BY <1>1, NewDoes
<1>3. r = addWrite(q, fd, n + 1)
  BY Fields DEF send
<1>4. q \in States(n + 1, T) /\ n + 1 \in Nat /\ n + 1 \in 0 .. n + 1
  BY <1>2 DEF Adds
<1>5. PICK d \in Descriptor(n + 1) :
         /\ Points(n + 1, T, q, fd, d, r)
         /\ d.open = q.fds[fd].open /\ d.interest = Listing(d)
         /\ d.writeList = Append(q.fds[fd].writeList, n + 1) /\ d.readList = q.fds[fd].readList
  <2> HIDE DEF q
  <2> QED BY <1>3, <1>4, addWriteDoes
<1>6. Same(n, s, r, {}) /\ r.futs[n + 1] = x
  <2> HIDE DEF x, q
  <2> QED BY <1>2, <1>5 DEF Adds, Points, Same
<1> HIDE DEF x, q
<1> QED BY <1>1, <1>2, <1>5, <1>6 DEF Adds, SameIo, Points, Posts
Shuts(n, T, s, fd, list, r) ==
  /\ r \in States(n, T) /\ r.fds[fd] = Closed /\ r.inbox[fd] = 0
  /\ \A g \in Sockets : g # fd => r.fds[g] = s.fds[g] /\ r.inbox[g] = s.inbox[g]
  /\ \A g \in 1 .. n :
       /\ r.futs[g].kind = s.futs[g].kind /\ r.futs[g].of = s.futs[g].of
       /\ r.futs[g].answer = IF \E j \in 1 .. Len(list) : list[j] = g THEN "failed"
                                                                    ELSE s.futs[g].answer
LEMMA closeSocketDoes ==
  ASSUME NEW n \in Nat, NEW T, NEW s \in States(n, T), NEW fd \in Sockets, hungup[fd] \in BOOLEAN,
         NEW r, r = closeSocket(s, fd)
  PROVE  Shuts(n, T, s, fd, s.fds[fd].readList \o s.fds[fd].writeList, r)
<1> DEFINE q == Gone(s, fd)
           list == s.fds[fd].readList \o s.fds[fd].writeList
<1>1. Closes(n, T, s, fd, q)
  BY GoneDoes
<1>2. list \in Seq(0 .. n)
  BY At, ConcatProperties
<1>3. r = CallAll(q, fd, list)
  BY DEF closeSocket
<1> HIDE DEF q, list
<1>4. q \in States(n, T) /\ ~q.fds[fd].open
  BY <1>1 DEF Closes, Closed
<1>5. Answer(n, T, q, Len(list), list, "failed", r)
  BY <1>2, <1>3, <1>4, CallAllDoes
<1>6. Shuts(n, T, s, fd, list, r)
  BY <1>1, <1>5 DEF Answer, SameIo, Closes, Shuts
<1> QED BY <1>6 DEF list

(***************************************************************************)
(* Steps that leave the sockets alone.                                     *)
(***************************************************************************)
IoKinds == {"recv", "send"}
Quiet ==
  /\ fds' = fds /\ Len(futs)' \in Nat /\ Len(futs)' >= Len(futs)
  /\ \A g \in 1 .. Len(futs) : /\ futs'[g].kind = futs[g].kind /\ futs'[g].of = futs[g].of
                               /\ futs[g].kind \in IoKinds => futs'[g].answer = futs[g].answer
  /\ \A g \in 1 .. Len(futs)' : g \in 1 .. Len(futs) \/ futs'[g].kind \notin IoKinds
  /\ \A fd \in Sockets : hungup[fd] => hungup'[fd] /\ (inbox[fd] = 0 => inbox'[fd] = 0)

LEMMA QuietFrom ==
  ASSUME DataInv, NEW m, NEW r, NEW F, Became(m, r, F), SameIo(State, r),
         \A f \in 1 .. Len(futs) : f \in F => futs[f].kind \notin IoKinds,
         \A g \in 1 .. m : g \in 1 .. Len(futs) \/ r.futs[g].kind \notin IoKinds
  PROVE  Quiet
<1>1. State' = r /\ Len(futs)' = m /\ hungup' = hungup /\ Grown(F)
  BY DEF Became
<1>2. futs' = r.futs /\ fds' = r.fds /\ inbox' = r.inbox
  BY <1>1 DEF State
<1>3. fds' = fds /\ inbox' = inbox
  BY <1>2 DEF SameIo, State
<1> QED BY <1>1, <1>2, <1>3 DEF Grown, Quiet

LEMMA QuietOld ==
  ASSUME DataInv, Unchanged
  PROVE  Quiet /\ Became(Len(futs), State, {})
<1>1. Became(Len(futs), State, {})
  BY BecomingOld
<1> QED BY <1>1, QuietFrom DEF SameIo

LEMMA Inserted ==
  ASSUME NEW S, timers \in Seq(S), NEW f, NEW ms, [fut |-> f, left |-> ms] \in S, PushTimer(f, ms)
  PROVE  timers' \in Seq(S)
<1> DEFINE e == [fut |-> f, left |-> ms]
<1>1. PICK i \in 1 .. Len(timers) + 1 : timers' = InsertAt(timers, i, e)
  BY DEF PushTimer
<1>2. /\ Len(timers) \in Nat /\ \A j \in 1 .. Len(timers) : timers[j] \in S
  BY LenProperties, ElementOfSeq
<1>3. SubSeq(timers, 1, i - 1) \in Seq(S) /\ SubSeq(timers, i, Len(timers)) \in Seq(S)
  <2>1. \A j \in 1 .. i - 1 : timers[j] \in S
    BY <1>2
  <2>2. \A j \in i .. Len(timers) : timers[j] \in S
    BY <1>2
  <2>3. i \in Int /\ i - 1 \in Int /\ Len(timers) \in Int
    BY <1>2
  <2> QED BY <2>1, <2>2, <2>3, SubSeqProperties
<1> HIDE DEF e
<1>4. <<e>> \in Seq(S)
  BY DEF e
<1>5. SubSeq(timers, 1, i - 1) \o <<e>> \o SubSeq(timers, i, Len(timers)) \in Seq(S)
  BY <1>3, <1>4, ConcatProperties
<1> QED BY <1>1, <1>5 DEF InsertAt

LEMMA sleepAsyncDoes ==
  ASSUME DataInv, LoopInv, NEW ms \in Delays, sleepAsync(ms)
  PROVE  DataInv' /\ Quiet
<1> DEFINE n == Len(futs)
           T == Of("timeout")
           x == Future("sleep", 0, 0)
           r == NewFuture(State, x)
<1>1. /\ n \in Nat /\ State \in States(n, T) /\ n + 1 \in n .. MaxFutures /\ n + 1 \in Nat
  BY FutsTyped, ConstantsAssumption DEF DataInv, sleepAsync, Room
<1>2. x \in Made(n + 1, T) /\ x.kind = "sleep"
  <2>1. "sleep" \in Kinds /\ 0 \in Nat /\ 0 \in Sockets \cup Nat
    BY DEF Kinds
  <2> QED BY <1>1, <2>1, FutureTyped DEF Future
<1> HIDE DEF n, T, x
<1>3. Adds(n, T, State, x, r)
  BY <1>1, <1>2, NewDoes
<1> HIDE DEF r
<1>4. T = {f \in 1 .. n + 1 : r.futs[f].kind = "timeout"}
  <2>1. \A f \in 1 .. n : r.futs[f].kind = futs[f].kind
    BY <1>3 DEF Adds, Same, State
  <2>2. r.futs[n + 1].kind = "sleep"
    BY <1>2, <1>3 DEF Adds
  <2> QED BY <1>1, <2>1, <2>2 DEF T, n, Of
<1>5. Became(n + 1, r, {})
  <2>1. Becomes(r)
    BY DEF sleepAsync, r, x
  <2>2. r \in States(n + 1, T) /\ Same(n, State, r, {})
    BY <1>3 DEF Adds
  <2> QED BY <1>1, <1>4, <2>1, <2>2, Becoming DEF n
<1>6. Quiet
  <2>1. SameIo(State, r) /\ r.futs[n + 1].kind \notin IoKinds
    BY <1>2, <1>3 DEF Adds, IoKinds
  <2>2. \A g \in 1 .. n + 1 : g \in 1 .. n \/ r.futs[g].kind \notin IoKinds
    BY <1>1, <2>1
  <2> QED BY <1>5, <2>1, <2>2, QuietFrom DEF n
<1>7. timers' \in Seq(Timer(Of("sleep")'))
  <2>1. timers \in Seq(Timer(Of("sleep")'))
    BY <1>5 DEF Became, DataInv
  <2>2. n + 1 \in Of("sleep")'
    <3>1. futs' = r.futs /\ Len(futs)' = n + 1
      BY <1>5 DEF Became, State
    <3>2. futs'[n + 1].kind = "sleep"
      BY <1>2, <1>3, <3>1 DEF Adds
    <3> QED BY <1>1, <3>1, <3>2 DEF Of
  <2>3. ms \in Nat
    BY ConstantsAssumption
  <2>4. [fut |-> n + 1, left |-> ms] \in Timer(Of("sleep")')
    BY <2>2, <2>3 DEF Timer
  <2>5. PushTimer(n + 1, ms)
    BY DEF sleepAsync, n
  <2> QED BY <2>1, <2>4, <2>5, Inserted
<1>8. op' \in [Tasks -> 0 .. Len(futs)']
  <2>1. Len(futs)' = n + 1 /\ op \in [Tasks -> 0 .. Len(futs)']
    BY <1>5 DEF Became, DataInv
  <2>2. n + 1 \in 0 .. n + 1
    BY <1>1
  <2>3. op' = [op EXCEPT ![task] = n + 1]
    BY DEF sleepAsync, n
  <2> QED BY <2>1, <2>2, <2>3
<1>9. io' = io
  BY DEF sleepAsync, Stays
<1>10. DataInv'
  BY <1>5, <1>7, <1>8, <1>9, DataKept DEF DataInv
<1> QED BY <1>6, <1>10

LEMMA AtTask ==
  ASSUME DataInv, LoopInv, Running
  PROVE  task \in Tasks /\ op[task] \in 0 .. Len(futs) /\ task \in 1 .. Len(futs)
         /\ futs[task].kind = "task"
<1>1. task \in Tasks
  BY ConstantsAssumption DEF LoopInv, Tasks
<1> QED BY <1>1, FutsTyped DEF DataInv

LEMMA HearsQuiet ==
  ASSUME DataInv, NEW r, Becomes(r), Hears(Len(futs), Of("timeout"), State, r)
  PROVE  Became(Len(futs), r, {}) /\ Quiet
<1>1. Became(Len(futs), r, {}) /\ SameIo(State, r)
  BY BecomingSame DEF Hears
<1> QED BY <1>1, QuietFrom

LEMMA StayQuiet ==
  ASSUME DataInv, NEW r, NEW F, Became(Len(futs), r, F), UNCHANGED <<timers, op, io>>
  PROVE  DataInv'
BY DataKept DEF DataInv

LEMMA JoinDoes ==
  ASSUME DataInv, LoopInv, Join
  PROVE  DataInv' /\ Quiet
<1>1. Quiet /\ Became(Len(futs), State, {})
  BY QuietOld DEF Join, Unchanged
<1>2. PICK u \in Tasks : op' = [op EXCEPT ![task] = u]
  BY DEF Join
<1>3. u \in 0 .. Len(futs)
  BY FutsTyped
<1>4. op' \in [Tasks -> 0 .. Len(futs)]
  BY <1>2, <1>3 DEF DataInv
<1> QED BY <1>1, <1>4, DataKept DEF Join, Stays, DataInv

LEMMA AwaitDoes ==
  ASSUME DataInv, LoopInv, Await
  PROVE  DataInv' /\ Quiet
<1>1. op[task] \in 1 .. Len(futs) /\ task \in Tasks /\ Len(futs) \in Nat
  BY AtTask, FutsTyped DEF Await
<1>2. Resume(task) \in Call(Len(futs), Of("timeout"))
  BY <1>1 DEF Resume, Call
<1> DEFINE r == addCallback(State, op[task], Resume(task))
<1>3. Hears(Len(futs), Of("timeout"), State, r)
  BY <1>1, <1>2, addCallbackDoes DEF DataInv
<1>4. Becomes(r)
  BY DEF Await
<1> HIDE DEF r
<1>5. Became(Len(futs), r, {}) /\ Quiet
  BY <1>3, <1>4, HearsQuiet
<1>6. UNCHANGED <<timers, op, io>>
  BY DEF Await, Yield
<1> QED BY <1>5, <1>6, StayQuiet

LEMMA WithTimeoutDoes ==
  ASSUME DataInv, LoopInv, NEW ms \in Delays, WithTimeout(ms)
  PROVE  DataInv' /\ Quiet
<1> DEFINE n == Len(futs)
           T == Of("timeout")
           U == T \cup {n + 1}
           f == op[task]
           x == Future("timeout", f, 0)
           y == Future("sleep", 0, 0)
           p == NewFuture(State, x)
           a == NewFuture(p, y)
           b == setCallback(a, f, [kind |-> "first", of |-> f, ret |-> n + 1])
           c == setCallback(b, n + 2, [kind |-> "elapsed", ret |-> n + 1])
           r == addCallback(c, n + 1, Resume(task))
<1>1. /\ n \in Nat /\ State \in States(n, T) /\ n + 2 \in n .. MaxFutures /\ n + 1 \in Nat /\ n + 2 \in Nat
      /\ f \in 1 .. n /\ f \in 1 .. n + 2 /\ n + 1 \in 1 .. n + 2 /\ n + 2 \in 1 .. n + 2 /\ (n + 1) + 1 = n + 2
      /\ task \in Tasks
  BY FutsTyped, AtTask, ConstantsAssumption DEF DataInv, WithTimeout, Room
<1>2. x \in Made(n + 1, U) /\ x.kind = "timeout"
  <2>1. "timeout" \in Kinds /\ 0 \in Nat /\ f \in Sockets \cup Nat
    BY <1>1 DEF Kinds
  <2> HIDE DEF n, f
  <2> QED BY <1>1, <2>1, FutureTyped DEF Future
<1>3. y \in Made(n + 2, U) /\ y.kind = "sleep"
  <2>1. "sleep" \in Kinds /\ 0 \in Nat /\ 0 \in Sockets \cup Nat
    BY DEF Kinds
  <2> HIDE DEF n
  <2> QED BY <1>1, <2>1, FutureTyped DEF Future
<1>4. /\ [kind |-> "first", of |-> f, ret |-> n + 1] \in Call(n + 2, U)
      /\ [kind |-> "elapsed", ret |-> n + 1] \in Call(n + 2, U) /\ Resume(task) \in Call(n + 2, U)
  <2> HIDE DEF n, f, T
  <2> QED BY <1>1 DEF Call, Resume
<1>5. Becomes(r) /\ PushTimer(n + 2, ms) /\ UNCHANGED <<op, io>>
  <2>1. n + 2 = Len(futs) + 2
    OBVIOUS
  <2> QED BY DEF WithTimeout, Yield
<1> HIDE DEF n, T, f, x, y
<1>6. Adds(n, U, State, x, p)
  BY <1>1, <1>2, NewDoes
<1> HIDE DEF p
<1>7. Adds(n + 1, U, p, y, a)
  <2>1. p \in States(n + 1, U) /\ U \subseteq U /\ y \in Made((n + 1) + 1, U)
    BY <1>1, <1>3, <1>6 DEF Adds
  <2> QED BY <1>1, <2>1, NewDoes
<1>8. a \in States(n + 2, U)
  BY <1>1, <1>7 DEF Adds
<1> HIDE DEF a
<1>9. Hears(n + 2, U, a, b)
  BY <1>1, <1>4, <1>8, setCallbackDoes
<1> HIDE DEF b
<1>10. b \in States(n + 2, U)
  BY <1>9 DEF Hears
<1>11. Hears(n + 2, U, b, c)
  BY <1>1, <1>4, <1>10, setCallbackDoes
<1> HIDE DEF c
<1>12. c \in States(n + 2, U)
  BY <1>11 DEF Hears
<1>13. Hears(n + 2, U, c, r)
  BY <1>1, <1>4, <1>12, addCallbackDoes
<1> HIDE DEF r
<1>14. Same(n + 2, a, r, {}) /\ SameIo(a, r) /\ r \in States(n + 2, U)
  BY <1>9, <1>11, <1>13 DEF Hears, Same, SameIo
<1>15. Same(n, State, r, {}) /\ SameIo(State, r)
  <2>1. 1 .. n \subseteq 1 .. n + 1 /\ 1 .. n \subseteq 1 .. n + 2
    BY <1>1
  <2> QED BY <1>6, <1>7, <1>14, <2>1 DEF Adds, Same, SameIo
<1>16. r.futs[n + 1].kind = "timeout" /\ r.futs[n + 2].kind = "sleep"
  <2>1. n + 1 \in 1 .. n + 1
    BY <1>1
  <2>2. a.futs[n + 1].kind = "timeout"
    BY <1>2, <1>6, <1>7, <2>1 DEF Adds, Same
  <2>3. a.futs[n + 2].kind = "sleep"
    BY <1>1, <1>3, <1>7 DEF Adds
  <2> QED BY <1>1, <1>14, <2>2, <2>3 DEF Same
<1>17. U = {g \in 1 .. n + 2 : r.futs[g].kind = "timeout"}
  <2>1. \A g \in 1 .. n : r.futs[g].kind = futs[g].kind
    BY <1>15 DEF Same, State
  <2> QED BY <1>1, <1>16, <2>1 DEF T, n, Of
<1> HIDE DEF U
<1>18. Became(n + 2, r, {})
  BY <1>1, <1>5, <1>14, <1>15, <1>17, Becoming DEF n
<1>19. Quiet
  <2>1. \A g \in 1 .. n + 2 : g \in 1 .. n \/ r.futs[g].kind \notin IoKinds
    BY <1>1, <1>16 DEF IoKinds
  <2> QED BY <1>15, <1>18, <2>1, QuietFrom DEF n
<1>20. timers' \in Seq(Timer(Of("sleep")'))
  <2>1. timers \in Seq(Timer(Of("sleep")'))
    BY <1>18 DEF Became, DataInv
  <2>2. n + 2 \in Of("sleep")'
    <3>1. futs' = r.futs /\ Len(futs)' = n + 2
      BY <1>18 DEF Became, State
    <3> QED BY <1>1, <1>16, <3>1 DEF Of
  <2>3. ms \in Nat
    BY ConstantsAssumption
  <2>4. [fut |-> n + 2, left |-> ms] \in Timer(Of("sleep")')
    BY <2>2, <2>3 DEF Timer
  <2> QED BY <1>5, <2>1, <2>4, Inserted
<1>21. DataInv'
  BY <1>5, <1>18, <1>20, DataKept DEF DataInv
<1> QED BY <1>19, <1>21

LEMMA FinishQuiet ==
  ASSUME DataInv, NEW s \in States(Len(futs), Of("timeout")), SameIo(State, s), s.futs = futs,
         NEW f \in 1 .. Len(futs), futs[f].kind \notin IoKinds, NEW a \in Answers,
         Becomes(Finish(s, f, a))
  PROVE  Became(Len(futs), Finish(s, f, a), {f}) /\ Quiet
<1> DEFINE r == Finish(s, f, a)
<1>1. Finishes(Len(futs), Of("timeout"), s, f, a, r)
  BY FinishDoes, FutsTyped
<1> HIDE DEF r
<1>2. /\ r \in States(Len(futs), Of("timeout")) /\ SameIo(State, r)
      /\ Same(Len(futs), State, r, {f})
  BY <1>1 DEF Finishes, SameIo, Same, State
<1>3. Became(Len(futs), r, {f})
  BY <1>2, BecomingSame DEF r
<1>4. \A g \in 1 .. Len(futs) : g \in {f} => futs[g].kind \notin IoKinds
  OBVIOUS
<1>5. Quiet
  BY <1>2, <1>3, <1>4, QuietFrom
<1> QED BY <1>3, <1>5 DEF r

LEMMA ReturnDoes ==
  ASSUME DataInv, LoopInv, Return
  PROVE  DataInv' /\ Quiet
<1>1. /\ State \in States(Len(futs), Of("timeout")) /\ SameIo(State, State) /\ State.futs = futs
      /\ task \in 1 .. Len(futs) /\ futs[task].kind \notin IoKinds
  BY AtTask DEF Return, DataInv, SameIo, State, IoKinds
<1>2. PICK a \in {"done", "failed"} : Becomes(Finish(State, task, a))
  BY DEF Return
<1>3. a \in Answers
  BY DEF Answers
<1>4. Became(Len(futs), Finish(State, task, a), {task}) /\ Quiet
  BY <1>1, <1>2, <1>3, FinishQuiet
<1>5. UNCHANGED <<timers, op, io>>
  BY DEF Return, Yield
<1> QED BY <1>4, <1>5, StayQuiet

LEMMA OldDoes ==
  ASSUME DataInv, Unchanged, UNCHANGED <<timers, op, io>>
  PROVE  DataInv' /\ Quiet
BY QuietOld, StayQuiet

LEMMA processTimersDoes ==
  ASSUME DataInv, processTimers, UNCHANGED <<op, io>>
  PROVE  DataInv' /\ Quiet
<1> DEFINE r == Expired
           F == Of("sleep")
           list == [i \in 1 .. Len(timers) |-> timers[i].fut]
<1>1. Len(futs) \in Nat /\ F \in SUBSET (1 .. Len(futs)) /\ timers \in Seq([fut : F, left : Nat])
  BY FutsTyped DEF DataInv, Of, Timer
<1>2. State \in States(Len(futs), Of("timeout"))
  BY DEF DataInv
<1>3. Becomes(r) /\ timers' = SubSeq(timers, Due + 1, Len(timers))
  BY DEF processTimers
<1> HIDE DEF r, F
<1>4. Answer(Len(futs), Of("timeout"), State, Due, list, "done", r)
  BY <1>1, <1>2, ExpiredDoes DEF r
<1>5. /\ Len(timers) \in Nat /\ Due \in 0 .. Len(timers)
      /\ \A i \in 1 .. Len(timers) : timers[i] \in [fut : F, left : Nat]
  BY <1>1, DueIs, LenProperties, ElementOfSeq
<1>6. \A j \in 1 .. Due : list[j] \in F
  BY <1>5
<1> HIDE DEF list
<1>7. r \in States(Len(futs), Of("timeout")) /\ SameIo(State, r) /\ Same(Len(futs), State, r, F)
  BY <1>4, <1>6 DEF Answer, Same
<1>8. Became(Len(futs), r, F)
  BY <1>3, <1>7, BecomingSame
<1>9. \A f \in 1 .. Len(futs) : f \in F => futs[f].kind \notin IoKinds
  BY DEF F, Of, IoKinds
<1>10. Quiet
  BY <1>7, <1>8, <1>9, QuietFrom
<1>11. timers' \in Seq(Timer(F))
  <2>1. PICK d : d = Due
    OBVIOUS
  <2>2. \A i \in d + 1 .. Len(timers) : timers[i] \in Timer(F)
    BY <1>5, <2>1 DEF Timer
  <2>3. d + 1 \in Int /\ Len(timers) \in Int
    BY <1>5, <2>1
  <2> QED BY <1>3, <2>1, <2>2, <2>3, SubSeqProperties
<1>12. DataInv'
  BY <1>8, <1>11, DataKept DEF DataInv, F
<1> QED BY <1>10, <1>12

LEMMA PollDoes ==
  ASSUME DataInv, Poll
  PROVE  DataInv' /\ Quiet
<1>1. UNCHANGED <<op, io>>
  BY DEF Poll
<1>2. CASE Unchanged /\ UNCHANGED timers
  BY <1>1, <1>2, OldDoes
<1>3. CASE processTimers
  BY <1>1, <1>3, processTimersDoes
<1> QED BY <1>2, <1>3 DEF Poll

LEMMA DispatchedDoes ==
  ASSUME DataInv, Dispatched
  PROVE  DataInv' /\ Quiet
BY processTimersDoes DEF Dispatched

LEMMA PoppedDoes ==
  ASSUME DataInv, ready # << >>
  PROVE  /\ Popped \in States(Len(futs), Of("timeout")) /\ SameIo(State, Popped)
         /\ Popped.futs = futs /\ Same(Len(futs), State, Popped, {})
         /\ Head(ready) \in Call(Len(futs), Of("timeout"))
<1> DEFINE n == Len(futs)
           T == Of("timeout")
<1>1. n \in Nat /\ State \in States(n, T)
  BY FutsTyped DEF DataInv
<1>2. /\ State.futs \in Seq(Made(n, T)) /\ Len(State.futs) = n /\ State.ready \in Seq(Call(n, T))
      /\ State.order \in Seq(1 .. n) /\ State.fds \in [Sockets -> Descriptor(n)]
      /\ State.inbox \in [Sockets -> 0 .. MaxInbox] /\ State.room \in [Sockets -> 0 .. SendRoom]
  <2> HIDE DEF n, T
  <2> QED BY <1>1, Fields
<1>3. ready \in Seq(Call(n, T))
  BY <1>2 DEF State
<1>4. Head(ready) \in Call(n, T) /\ Tail(ready) \in Seq(Call(n, T))
  <2> HIDE DEF n, T
  <2> QED BY <1>3, HeadTailProperties
<1>5. /\ Popped.ready = Tail(ready) /\ Popped.futs = State.futs /\ Popped.order = State.order
      /\ SameIo(State, Popped)
  BY DEF Popped, State, SameIo
<1>6. Record(Popped)
  BY DEF Popped, State, Record
<1>7. Popped \in States(n, T)
  <2> HIDE DEF n, T
  <2> QED BY <1>1, <1>2, <1>4, <1>5, <1>6, MakeState DEF SameIo
<1> QED BY <1>4, <1>5, <1>7 DEF Same, State

LEMMA RunCallbackDoes ==
  ASSUME DataInv, RunCallback
  PROVE  DataInv' /\ Quiet
<1> DEFINE n == Len(futs)
           T == Of("timeout")
           cb == Head(ready)
<1>1. /\ Popped \in States(n, T) /\ SameIo(State, Popped) /\ Popped.futs = futs
      /\ Same(n, State, Popped, {}) /\ cb \in Call(n, T)
  BY PoppedDoes DEF RunCallback
<1>2. UNCHANGED <<timers, op, io>>
  BY DEF RunCallback
<1>3. CASE Becomes(Popped)
  <2>1. Became(n, Popped, {})
    BY <1>1, <1>3, BecomingSame
  <2>2. Quiet
    BY <1>1, <2>1, QuietFrom
  <2> QED BY <1>2, <2>1, <2>2, StayQuiet
<1>4. ASSUME cb.ret \in T, NEW a \in Answers, Becomes(Finish(Popped, cb.ret, a))
      PROVE  DataInv' /\ Quiet
  <2>1. cb.ret \in 1 .. n /\ futs[cb.ret].kind \notin IoKinds
    BY <1>4 DEF Of, IoKinds
  <2>2. Became(n, Finish(Popped, cb.ret, a), {cb.ret}) /\ Quiet
    <3>1. PICK f : f = cb.ret
      OBVIOUS
    <3> QED BY <1>1, <1>4, <2>1, <3>1, FinishQuiet
  <2> QED BY <1>2, <2>2, StayQuiet
<1>5. CASE cb.kind = "resume"
  <2>1. Becomes(Popped)
    BY <1>5 DEF RunCallback
  <2> QED BY <1>3, <2>1
<1>6. CASE cb.kind = "first"
  <2>1. cb.ret \in T
    BY <1>1, <1>6 DEF Call
  <2>2. First(cb.of, cb.ret)
    BY <1>6 DEF RunCallback
  <2>3. Becomes(Popped) \/ \E a \in Answers : Becomes(Finish(Popped, cb.ret, a))
    <3>1. "failed" \in Answers /\ "true" \in Answers
      BY DEF Answers
    <3> QED BY <2>2, <3>1 DEF First
  <2> QED BY <1>3, <1>4, <2>1, <2>3
<1>7. CASE cb.kind = "elapsed"
  <2>1. cb.ret \in T
    BY <1>1, <1>7 DEF Call
  <2>2. Elapsed(cb.ret)
    BY <1>7 DEF RunCallback
  <2>3. Becomes(Popped) \/ \E a \in Answers : Becomes(Finish(Popped, cb.ret, a))
    <3>1. "false" \in Answers
      BY DEF Answers
    <3> QED BY <2>2, <3>1 DEF Elapsed
  <2> QED BY <1>3, <1>4, <2>1, <2>3
<1> QED BY <1>5, <1>6, <1>7 DEF RunCallback

(***************************************************************************)
(* Steps that concern one socket.                                          *)
(***************************************************************************)
Kept == /\ hungup' = hungup /\ Len(futs)' \in Nat /\ Len(futs)' >= Len(futs)
        /\ \A g \in 1 .. Len(futs) : futs'[g].kind = futs[g].kind /\ futs'[g].of = futs[g].of
Others(fd) == \A g \in Sockets : g # fd => fds'[g] = fds[g] /\ inbox'[g] = inbox[g]
Answered(F) == \A g \in 1 .. Len(futs) : g \notin F => futs'[g].answer = futs[g].answer

(* A new operation enters the list of its kind.                            *)
Asked(kind, fd) ==
  /\ Kept /\ Others(fd) /\ Answered({}) /\ inbox' = inbox /\ Len(futs)' = Len(futs) + 1
  /\ futs'[Len(futs) + 1].kind = kind /\ futs'[Len(futs) + 1].of = fd
  /\ futs'[Len(futs) + 1].answer = "none"
  /\ fds'[fd].open = fds[fd].open /\ fds'[fd].interest = Listing(fds'[fd])
  /\ fds'[fd].readList = IF kind = "recv" THEN Append(fds[fd].readList, Len(futs) + 1)
                                          ELSE fds[fd].readList
  /\ fds'[fd].writeList = IF kind = "recv" THEN fds[fd].writeList
                                           ELSE Append(fds[fd].writeList, Len(futs) + 1)
(* The lists of the socket, and what epoll watches, are now these.         *)
Relisted(fd, reads, writes, interest) ==
  /\ Kept /\ Others(fd) /\ Answered({}) /\ inbox' = inbox /\ Len(futs)' = Len(futs)
  /\ fds'[fd].open = fds[fd].open /\ fds'[fd].interest = interest
  /\ fds'[fd].readList = reads /\ fds'[fd].writeList = writes
(* The socket is closed, and the operations in its lists have failed.      *)
Shut(fd) ==
  LET list == fds[fd].readList \o fds[fd].writeList IN
  /\ Kept /\ Others(fd) /\ Len(futs)' = Len(futs) /\ fds'[fd] = Closed /\ inbox'[fd] = 0
  /\ \A g \in 1 .. Len(futs) :
       futs'[g].answer = IF \E j \in 1 .. Len(list) : list[j] = g THEN "failed" ELSE futs[g].answer
(* The callback of f has been called.                                      *)
Tried(fd, f) ==
  /\ Kept /\ Answered({f}) /\ Len(futs)' = Len(futs) /\ fds' = fds
  /\ futs'[f].answer = Outcome(State, fd, f)
  /\ \A g \in Sockets : inbox'[g] <= inbox[g]

LEMMA Asking ==
  ASSUME DataInv, NEW fd \in Sockets, Room(1), NEW r, Becomes(r),
         NEW k, \/ k = "recv" /\ Receives(Len(futs), Of("timeout"), State, fd, r)
                \/ k = "send" /\ Posts(Len(futs), Of("timeout"), State, fd, r)
  PROVE  Became(Len(futs) + 1, r, {}) /\ Asked(k, fd)
<1> DEFINE n == Len(futs)
           T == Of("timeout")
<1>1. n \in Nat /\ n + 1 \in n .. MaxFutures /\ n + 1 \in Nat
  BY FutsTyped, ConstantsAssumption DEF Room
<1>2. r \in States(n + 1, T) /\ Same(n, State, r, {}) /\ r.inbox = State.inbox
  BY DEF Receives, Posts
<1>3. r.futs[n + 1].kind = k /\ r.futs[n + 1].of = fd /\ r.futs[n + 1].answer = "none"
  BY DEF Receives, Posts
<1>4. T = {f \in 1 .. n + 1 : r.futs[f].kind = "timeout"}
  <2>1. \A f \in 1 .. n : r.futs[f].kind = futs[f].kind
    BY <1>2 DEF Same, State
  <2>2. r.futs[n + 1].kind # "timeout"
    BY <1>3
  <2> QED BY <1>1, <2>1, <2>2 DEF Of
<1> HIDE DEF T
<1>5. Became(n + 1, r, {})
  BY <1>1, <1>2, <1>4, Becoming
<1>6. State' = r /\ Len(futs)' = n + 1 /\ hungup' = hungup /\ Grown({})
  BY <1>5 DEF Became
<1>7. /\ fds' = r.fds /\ futs' = r.futs /\ inbox' = r.inbox
      /\ State.fds = fds /\ State.inbox = inbox
  BY <1>6 DEF State
<1>8. Kept /\ Answered({}) /\ inbox' = inbox
  BY <1>2, <1>6, <1>7 DEF Kept, Answered, Grown
<1>9. /\ r.fds[fd].open = State.fds[fd].open /\ r.fds[fd].interest = Listing(r.fds[fd])
      /\ \A g \in Sockets : g # fd => r.fds[g] = State.fds[g]
  BY DEF Receives, Posts
<1>10. /\ r.fds[fd].readList = IF k = "recv" THEN Append(State.fds[fd].readList, n + 1)
                                             ELSE State.fds[fd].readList
       /\ r.fds[fd].writeList = IF k = "recv" THEN State.fds[fd].writeList
                                              ELSE Append(State.fds[fd].writeList, n + 1)
  BY DEF Receives, Posts
<1>11. Others(fd)
  BY <1>7, <1>8, <1>9 DEF Others
<1> QED BY <1>3, <1>5, <1>6, <1>7, <1>8, <1>9, <1>10, <1>11 DEF Asked

LEMMA Relisting ==
  ASSUME DataInv, NEW fd \in Sockets, NEW d, NEW r, Becomes(r),
         Points(Len(futs), Of("timeout"), State, fd, d, r), d.open = fds[fd].open
  PROVE  Became(Len(futs), r, {}) /\ Relisted(fd, d.readList, d.writeList, d.interest)
<1>1. Same(Len(futs), State, r, {}) /\ r \in States(Len(futs), Of("timeout"))
  BY DEF Points, Same
<1>2. Became(Len(futs), r, {})
  BY <1>1, BecomingSame
<1>3. State' = r /\ Len(futs)' = Len(futs) /\ hungup' = hungup /\ Grown({})
  BY <1>2 DEF Became
<1>4. /\ fds' = r.fds /\ futs' = r.futs /\ inbox' = r.inbox
      /\ State.fds = fds /\ State.inbox = inbox
  BY <1>3 DEF State
<1>5. Kept /\ Answered({}) /\ inbox' = inbox /\ Others(fd)
  BY <1>3, <1>4 DEF Kept, Answered, Grown, Others, Points
<1> QED BY <1>2, <1>3, <1>4, <1>5 DEF Points, Relisted

LEMMA Shutting ==
  ASSUME DataInv, NEW fd \in Sockets, Becomes(closeSocket(State, fd))
  PROVE  Became(Len(futs), closeSocket(State, fd), 1 .. Len(futs)) /\ Shut(fd)
<1> DEFINE r == closeSocket(State, fd)
           list == fds[fd].readList \o fds[fd].writeList
<1>1. Len(futs) \in Nat /\ State \in States(Len(futs), Of("timeout")) /\ hungup[fd] \in BOOLEAN
  BY FutsTyped DEF DataInv
<1>2. Shuts(Len(futs), Of("timeout"), State, fd,
            State.fds[fd].readList \o State.fds[fd].writeList, r)
  BY <1>1, closeSocketDoes
<1> HIDE DEF r
<1>3. list = State.fds[fd].readList \o State.fds[fd].writeList
  BY DEF State
<1> HIDE DEF list
<1>4. Shuts(Len(futs), Of("timeout"), State, fd, list, r)
  BY <1>2, <1>3
<1>5. Same(Len(futs), State, r, 1 .. Len(futs)) /\ r \in States(Len(futs), Of("timeout"))
  BY <1>4 DEF Shuts, Same
<1>6. Became(Len(futs), r, 1 .. Len(futs))
  BY <1>5, BecomingSame DEF r
<1>7. State' = r /\ Len(futs)' = Len(futs) /\ hungup' = hungup /\ Grown(1 .. Len(futs))
  BY <1>6 DEF Became
<1>8. /\ fds' = r.fds /\ futs' = r.futs /\ inbox' = r.inbox
      /\ State.fds = fds /\ State.inbox = inbox /\ State.futs = futs
  BY <1>7 DEF State
<1>9. Kept /\ Others(fd)
  BY <1>4, <1>7, <1>8 DEF Kept, Grown, Others, Shuts
<1> QED BY <1>4, <1>6, <1>7, <1>8, <1>9 DEF Shut, Shuts, list, r

LEMMA Trying ==
  ASSUME DataInv, NEW fd \in Sockets, NEW f \in 1 .. Len(futs), Becomes(Attempt(State, fd, f))
  PROVE  Became(Len(futs), Attempt(State, fd, f), {f}) /\ Tried(fd, f)
<1> DEFINE r == Attempt(State, fd, f)
<1>1. Len(futs) \in Nat /\ State \in States(Len(futs), Of("timeout")) /\ hungup[fd] \in BOOLEAN
  BY FutsTyped DEF DataInv
<1>2. Tries(Len(futs), Of("timeout"), State, fd, f, r)
  BY <1>1, AttemptDoes
<1> HIDE DEF r
<1>3. Same(Len(futs), State, r, {f}) /\ r \in States(Len(futs), Of("timeout"))
  BY <1>2 DEF Tries
<1>4. Became(Len(futs), r, {f})
  BY <1>3, BecomingSame DEF r
<1>5. State' = r /\ Len(futs)' = Len(futs) /\ hungup' = hungup /\ Grown({f})
  BY <1>4 DEF Became
<1>6. /\ fds' = r.fds /\ futs' = r.futs /\ inbox' = r.inbox
      /\ State.fds = fds /\ State.inbox = inbox
  BY <1>5 DEF State
<1>7. Kept /\ Answered({f})
  BY <1>5 DEF Kept, Grown, Answered
<1> QED BY <1>2, <1>4, <1>5, <1>6, <1>7 DEF Tried, Tries, r

LEMMA RecvDoes ==
  ASSUME DataInv, LoopInv, NEW fd \in Sockets, Recv(fd)
  PROVE  DataInv' /\ Asked("recv", fd)
<1> DEFINE r == recv(State, fd)
<1>1. Becomes(r) /\ Room(1) /\ op' = [op EXCEPT ![task] = Len(futs) + 1] /\ UNCHANGED <<timers, io>>
  BY DEF Recv, Stays
<1>2. Receives(Len(futs), Of("timeout"), State, fd, r)
  BY FutsTyped, recvDoes DEF DataInv
<1> HIDE DEF r
<1>3. Became(Len(futs) + 1, r, {}) /\ Asked("recv", fd)
  BY <1>1, <1>2, Asking
<1>4. op' \in [Tasks -> 0 .. Len(futs)']
  <2>1. Len(futs)' = Len(futs) + 1 /\ op \in [Tasks -> 0 .. Len(futs)']
    BY <1>3 DEF Became, DataInv
  <2>2. Len(futs) + 1 \in 0 .. Len(futs) + 1
    BY FutsTyped
  <2> QED BY <1>1, <2>1, <2>2
<1>5. DataInv'
  BY <1>1, <1>3, <1>4, DataKept DEF DataInv
<1> QED BY <1>3, <1>5

LEMMA SendDoes ==
  ASSUME DataInv, LoopInv, NEW fd \in Sockets, NEW y \in SendSizes, Send(fd, y)
  PROVE  DataInv' /\ Asked("send", fd)
<1> DEFINE r == send(State, fd, y)
<1>1. Becomes(r) /\ Room(1) /\ op' = [op EXCEPT ![task] = Len(futs) + 1] /\ UNCHANGED <<timers, io>>
  BY DEF Send, Stays
<1>2. Posts(Len(futs), Of("timeout"), State, fd, r)
  <2>1. y \in Nat
    BY ConstantsAssumption
  <2> QED BY <2>1, FutsTyped, sendDoes DEF DataInv
<1> HIDE DEF r
<1>3. Became(Len(futs) + 1, r, {}) /\ Asked("send", fd)
  BY <1>1, <1>2, Asking
<1>4. op' \in [Tasks -> 0 .. Len(futs)']
  <2>1. Len(futs)' = Len(futs) + 1 /\ op \in [Tasks -> 0 .. Len(futs)']
    BY <1>3 DEF Became, DataInv
  <2>2. Len(futs) + 1 \in 0 .. Len(futs) + 1
    BY FutsTyped
  <2> QED BY <1>1, <2>1, <2>2
<1>5. DataInv'
  BY <1>1, <1>3, <1>4, DataKept DEF DataInv
<1> QED BY <1>3, <1>5

LEMMA CloseDoes ==
  ASSUME DataInv, NEW fd \in Sockets, Close(fd)
  PROVE  DataInv' /\ Shut(fd)
<1>1. Becomes(closeSocket(State, fd)) /\ UNCHANGED <<timers, op, io>>
  BY DEF Close, Stays
<1>2. Became(Len(futs), closeSocket(State, fd), 1 .. Len(futs)) /\ Shut(fd)
  BY <1>1, Shutting
<1> QED BY <1>1, <1>2, StayQuiet

(* The watcher enters the list of the readers.                             *)
Watches(fd) ==
  \E d : Relisted(fd, d.readList, d.writeList, d.interest) /\ d.interest = Listing(d)
         /\ d.readList = Append(fds[fd].readList, Watcher) /\ d.writeList = fds[fd].writeList
LEMMA Watching ==
  ASSUME DataInv, NEW fd \in Sockets, Becomes(addRead(State, fd, Watcher))
  PROVE  Became(Len(futs), addRead(State, fd, Watcher), {}) /\ Watches(fd)
<1> DEFINE r == addRead(State, fd, Watcher)
<1>1. Len(futs) \in Nat /\ State \in States(Len(futs), Of("timeout")) /\ Watcher \in 0 .. Len(futs)
  BY FutsTyped DEF DataInv, Watcher
<1>2. PICK d \in Descriptor(Len(futs)) :
         /\ Points(Len(futs), Of("timeout"), State, fd, d, r)
         /\ d.open = State.fds[fd].open /\ d.interest = Listing(d)
         /\ d.readList = Append(State.fds[fd].readList, Watcher)
         /\ d.writeList = State.fds[fd].writeList
  BY <1>1, addReadDoes
<1> HIDE DEF r
<1>3. State.fds = fds
  BY DEF State
<1>4. Became(Len(futs), r, {}) /\ Relisted(fd, d.readList, d.writeList, d.interest)
  BY <1>2, <1>3, Relisting DEF r
<1> QED BY <1>2, <1>3, <1>4 DEF Watches, r

LEMMA WatchDoes ==
  ASSUME DataInv, NEW fd \in Sockets, Watch(fd)
  PROVE  DataInv' /\ Watches(fd)
<1>1. Becomes(addRead(State, fd, Watcher)) /\ UNCHANGED <<timers, op, io>>
  BY DEF Watch, Stays
<1>2. Became(Len(futs), addRead(State, fd, Watcher), {}) /\ Watches(fd)
  BY <1>1, Watching
<1> QED BY <1>1, <1>2, StayQuiet

(***************************************************************************)
(* Dispatching.                                                            *)
(***************************************************************************)
LEMMA AtFd ==
  ASSUME DataInv, LoopInv, keys # << >>
  PROVE  /\ Fd \in Sockets /\ keys[1] \in Key /\ Len(keys) \in Nat \ {0}
         /\ fds[Fd].readList \in Seq(0 .. Len(futs)) /\ fds[Fd].writeList \in Seq(0 .. Len(futs))
         /\ fds[Fd].open \in BOOLEAN
<1>1. keys[1] \in Key /\ Len(keys) \in Nat \ {0}
  <2>1. Len(keys) \in Nat \ {0} /\ 1 \in 1 .. Len(keys)
    BY EmptySeq, LenProperties DEF LoopInv
  <2> QED BY <2>1, ElementOfSeq DEF LoopInv
<1>2. Fd \in Sockets
  BY <1>1 DEF Fd, Key
<1>3. State.fds[Fd] \in Descriptor(Len(futs))
  BY <1>2, FutsTyped, At DEF DataInv
<1> QED BY <1>1, <1>2, <1>3 DEF State, Descriptor

LEMMA IoTyped ==
  ASSUME DataInv
  PROVE  /\ io.event \in Events \cup {"none"} /\ io.cur \in Seq(0 .. Len(futs))
         /\ io.new \in Seq(0 .. Len(futs))
         /\ \A i \in 1 .. Len(io.cur) : io.cur[i] \in 0 .. Len(futs)
<1>1. io \in Io(Len(futs))
  BY DEF DataInv
<1> QED BY <1>1, ElementOfSeq DEF Io

(* The current callback leaves, or it stays and those behind it, too.      *)
Leaves == /\ io'.event = io.event /\ io'.new = io.new /\ io'.cur = Tail(io.cur)
Remains == /\ io'.event = io.event /\ io'.new = io.new \o io.cur /\ io'.cur = << >>
LEMMA MakeIo ==
  ASSUME NEW n, NEW e \in Events \cup {"none"}, NEW c \in Seq(0 .. n), NEW w \in Seq(0 .. n),
         NEW x, x = [event |-> e, cur |-> c, new |-> w]
  PROVE  x \in Io(n) /\ x.event = e /\ x.cur = c /\ x.new = w
BY DEF Io

LEMMA DoneDoes ==
  ASSUME DataInv, io.cur # << >>, Done
  PROVE  io' \in Io(Len(futs)) /\ Leaves
<1>1. io \in Io(Len(futs))
  BY DEF DataInv
<1>2. PICK e, c, w : e = io.event /\ c = Tail(io.cur) /\ w = io.new
  OBVIOUS
<1>3. e \in Events \cup {"none"} /\ c \in Seq(0 .. Len(futs)) /\ w \in Seq(0 .. Len(futs))
  BY <1>2, IoTyped, HeadTailProperties
<1>4. io' = [event |-> e, cur |-> c, new |-> w]
  BY <1>1, <1>2 DEF Done, Io
<1>5. io' \in Io(Len(futs)) /\ io'.event = e /\ io'.cur = c /\ io'.new = w
  BY <1>3, <1>4, MakeIo
<1> QED BY <1>2, <1>5 DEF Leaves

LEMMA ExtinguishedDoes ==
  ASSUME DataInv, io.cur # << >>, Extinguished
  PROVE  io' \in Io(Len(futs)) /\ Remains
<1>1. io \in Io(Len(futs))
  BY DEF DataInv
<1>2. PICK e, c, w : e = io.event /\ c = << >> /\ w = io.new \o io.cur
  OBVIOUS
<1>3. e \in Events \cup {"none"} /\ c \in Seq(0 .. Len(futs)) /\ w \in Seq(0 .. Len(futs))
  BY <1>2, IoTyped, EmptySeq, ConcatProperties
<1>4. io' = [event |-> e, cur |-> c, new |-> w]
  BY <1>1, <1>2 DEF Extinguished, Io
<1>5. io' \in Io(Len(futs)) /\ io'.event = e /\ io'.cur = c /\ io'.new = w
  BY <1>3, <1>4, MakeIo
<1> QED BY <1>2, <1>5 DEF Remains

LEMMA MoveOutDoes ==
  ASSUME DataInv, LoopInv, MoveOut
  PROVE  /\ DataInv' /\ io'.event \in keys[1].events /\ io'.event \in Events
         /\ io'.cur = IF io'.event = "read" THEN fds[Fd].readList ELSE fds[Fd].writeList
         /\ io'.new = << >> /\ keys' = [keys EXCEPT ![1].events = @ \ {io'.event}]
         /\ Relisted(Fd, IF io'.event = "read" THEN << >> ELSE fds[Fd].readList,
                         IF io'.event = "read" THEN fds[Fd].writeList ELSE << >>, fds[Fd].interest)
<1>1. /\ Fd \in Sockets /\ keys[1] \in Key /\ fds[Fd].readList \in Seq(0 .. Len(futs))
      /\ fds[Fd].writeList \in Seq(0 .. Len(futs))
  BY AtFd DEF MoveOut, Dispatching
<1>2. PICK e \in Events :
         /\ e \in keys[1].events /\ keys' = [keys EXCEPT ![1].events = @ \ {e}]
         /\ io' = [event |-> e, cur |-> Lists(State, Fd, e), new |-> << >>]
         /\ Becomes(SetList(State, Fd, e, << >>))
  <2>1. keys[1].events \subseteq Events /\ keys[1].events # {}
    BY <1>1 DEF MoveOut, Key
  <2> DEFINE e == IF "read" \in keys[1].events THEN "read" ELSE "write"
  <2>2. e \in Events /\ e \in keys[1].events
    BY <2>1 DEF Events
  <2> QED BY <2>2 DEF MoveOut
<1>3. io'.event = e /\ io'.cur = (IF e = "read" THEN fds[Fd].readList ELSE fds[Fd].writeList)
      /\ io'.new = << >>
  BY <1>2 DEF Lists, State
<1>4. io' \in Io(Len(futs))
  <2>1. Lists(State, Fd, e) \in Seq(0 .. Len(futs)) /\ << >> \in Seq(0 .. Len(futs))
    BY <1>1, EmptySeq DEF Lists, State
  <2> QED BY <1>2, <2>1 DEF Io
<1>45. PICK fd \in Sockets : fd = Fd
  BY <1>1
<1> DEFINE r == SetList(State, fd, e, << >>)
<1>5. PICK d \in Descriptor(Len(futs)) :
         /\ Points(Len(futs), Of("timeout"), State, fd, d, r)
         /\ d.open = State.fds[fd].open /\ d.interest = State.fds[fd].interest
         /\ d.readList = IF e = "read" THEN << >> ELSE State.fds[fd].readList
         /\ d.writeList = IF e = "read" THEN State.fds[fd].writeList ELSE << >>
  <2>1. << >> \in Seq(0 .. Len(futs)) /\ Len(futs) \in Nat /\ State \in States(Len(futs), Of("timeout"))
    BY FutsTyped, EmptySeq DEF DataInv
  <2>2. PICK list \in Seq(0 .. Len(futs)) : list = << >>
    BY <2>1
  <2>3. r = SetList(State, fd, e, list)
    BY <2>2
  <2> HIDE DEF r
  <2>4. PICK d \in Descriptor(Len(futs)) :
         /\ Points(Len(futs), Of("timeout"), State, fd, d, r)
         /\ d.open = State.fds[fd].open /\ d.interest = State.fds[fd].interest
         /\ d.readList = IF e = "read" THEN list ELSE State.fds[fd].readList
         /\ d.writeList = IF e = "read" THEN State.fds[fd].writeList ELSE list
    BY <2>1, <2>3, SetListDoes
  <2> QED BY <2>2, <2>4
<1> HIDE DEF r
<1>6. State.fds = fds
  BY DEF State
<1>7. Became(Len(futs), r, {}) /\ Relisted(fd, d.readList, d.writeList, d.interest)
  BY <1>2, <1>45, <1>5, <1>6, Relisting DEF r
<1>8. DataInv'
  <2>1. timers' = timers /\ op' = op
    BY DEF MoveOut, IoOnly
  <2> QED BY <1>4, <1>7, <2>1, DataKept DEF DataInv
<1> QED BY <1>2, <1>3, <1>45, <1>5, <1>6, <1>7, <1>8

LEMMA CallBackDoes ==
  ASSUME DataInv, LoopInv, CallBack
  PROVE  /\ DataInv' /\ io.cur[1] \in 1 .. Len(futs) /\ Tried(Fd, io.cur[1])
         /\ IF Again(State, Fd, io.cur[1]) THEN Remains ELSE Leaves
<1>1. Fd \in Sockets /\ io.cur # << >>
  BY AtFd DEF CallBack, CallsNext, Dispatching
<1>2. io.cur[1] \in 1 .. Len(futs)
  <2>1. io.cur[1] \in 0 .. Len(futs)
    <3>1. 1 \in 1 .. Len(io.cur)
      BY <1>1, IoTyped, EmptySeq, LenProperties
    <3> QED BY <3>1, IoTyped
  <2> QED BY <2>1, FutsTyped DEF CallBack, Watcher
<1>3. PICK fd \in Sockets, f \in 1 .. Len(futs) : fd = Fd /\ f = io.cur[1]
  BY <1>1, <1>2
<1>4. Became(Len(futs), Attempt(State, fd, f), {f}) /\ Tried(fd, f)
  BY <1>3, Trying DEF CallBack
<1>5. /\ io' \in Io(Len(futs))
      /\ IF Again(State, Fd, io.cur[1]) THEN Remains ELSE Leaves
  BY <1>1, DoneDoes, ExtinguishedDoes DEF CallBack
<1>6. DataInv'
  <2>1. timers' = timers /\ op' = op
    BY DEF CallBack, IoOnly
  <2> QED BY <1>4, <1>5, <2>1, DataKept DEF DataInv
<1> QED BY <1>2, <1>3, <1>4, <1>5, <1>6

LEMMA CallWatcherDoes ==
  ASSUME DataInv, LoopInv, CallWatcher
  PROVE  /\ DataInv' /\ io.cur[1] = Watcher
         /\ \/ Unchanged /\ (Leaves \/ (fds[Fd].open /\ Remains))
            \/ Leaves /\ fds[Fd].open /\ Watches(Fd)
            \/ Leaves /\ fds[Fd].open /\ Asked("recv", Fd)
            \/ Leaves /\ \E fd \in Sockets : fds[fd].open /\ Shut(fd)
<1>1. /\ io.cur # << >> /\ timers' = timers /\ op' = op /\ io.cur[1] = Watcher
      /\ Fd \in Sockets
  BY AtFd DEF CallWatcher, CallsNext, Dispatching, IoOnly
<1>2. /\ Done => io' \in Io(Len(futs)) /\ Leaves
      /\ Extinguished => io' \in Io(Len(futs)) /\ Remains
  BY <1>1, DoneDoes, ExtinguishedDoes
<1>3. PICK fd \in Sockets : fd = Fd
  BY <1>1
<1>4. CASE Unchanged /\ (Done \/ (fds[Fd].open /\ Extinguished))
  <2>1. Became(Len(futs), State, {})
    BY <1>4, QuietOld
  <2>2. DataInv'
    BY <1>1, <1>2, <1>4, <2>1, DataKept DEF DataInv
  <2> QED BY <1>1, <1>2, <1>4, <2>2
<1>5. CASE fds[Fd].open /\ Done /\ Becomes(addRead(State, Fd, Watcher))
  <2>1. Became(Len(futs), addRead(State, fd, Watcher), {}) /\ Watches(fd)
    BY <1>3, <1>5, Watching
  <2>2. DataInv'
    BY <1>1, <1>2, <1>5, <2>1, DataKept DEF DataInv
  <2> QED BY <1>1, <1>2, <1>3, <1>5, <2>1, <2>2
<1>6. CASE fds[Fd].open /\ Done /\ Room(1) /\ Becomes(recv(State, Fd))
  <2> DEFINE r == recv(State, fd)
  <2>1. Receives(Len(futs), Of("timeout"), State, fd, r)
    BY FutsTyped, recvDoes DEF DataInv
  <2>2. Becomes(r)
    BY <1>3, <1>6
  <2> HIDE DEF r
  <2>3. Became(Len(futs) + 1, r, {}) /\ Asked("recv", fd)
    BY <1>6, <2>1, <2>2, Asking
  <2>4. DataInv'
    BY <1>1, <1>2, <1>6, <2>3, DataKept DEF DataInv
  <2> QED BY <1>1, <1>2, <1>3, <1>6, <2>3, <2>4
<1>7. ASSUME NEW g \in Sockets, fds[g].open /\ Done /\ Becomes(closeSocket(State, g))
      PROVE  DataInv' /\ Leaves /\ Shut(g)
  <2>1. Became(Len(futs), closeSocket(State, g), 1 .. Len(futs)) /\ Shut(g)
    BY <1>7, Shutting
  <2>2. DataInv'
    BY <1>1, <1>2, <1>7, <2>1, DataKept DEF DataInv
  <2> QED BY <1>2, <1>7, <2>1, <2>2
<1>8. CASE \E g \in Sockets : fds[g].open /\ Done /\ Becomes(closeSocket(State, g))
  BY <1>1, <1>7, <1>8
<1>9. \/ Unchanged /\ (Done \/ (fds[Fd].open /\ Extinguished))
      \/ fds[Fd].open /\ Done /\ Becomes(addRead(State, Fd, Watcher))
      \/ fds[Fd].open /\ Done /\ Room(1) /\ Becomes(recv(State, Fd))
      \/ \E g \in Sockets : fds[g].open /\ Done /\ Becomes(closeSocket(State, g))
  BY DEF CallWatcher
<1> QED BY <1>4, <1>5, <1>6, <1>8, <1>9

LEMMA MoveBackDoes ==
  ASSUME DataInv, LoopInv, MoveBack,
         NEW reads, reads = IF io.event = "read" THEN io.new \o fds[Fd].readList ELSE fds[Fd].readList,
         NEW writes, writes = IF io.event = "read" THEN fds[Fd].writeList ELSE io.new \o fds[Fd].writeList
  PROVE  /\ DataInv' /\ io' = NoIo /\ io.event \in Events
         /\ \/ /\ fds[Fd].open /\ Relisted(Fd, reads, writes, fds[Fd].interest)
               /\ Len(reads) \in Nat /\ Len(writes) \in Nat
               /\ keys' = [keys EXCEPT ![1].counts = [read |-> Len(reads), write |-> Len(writes)]]
            \/ /\ ~fds[Fd].open /\ Unchanged
               /\ keys' = [keys EXCEPT ![1].counts = [read |-> -1, write |-> -1]]
<1> DEFINE n == Len(futs)
           T == Of("timeout")
<1>1. /\ io.event \in Events /\ Fd \in Sockets /\ io' = NoIo /\ timers' = timers /\ op' = op
      /\ keys # << >>
  BY AtFd, IoTyped DEF MoveBack, Dispatching, IoOnly
<1>2. /\ io.new \in Seq(0 .. n) /\ fds[Fd].readList \in Seq(0 .. n)
      /\ fds[Fd].writeList \in Seq(0 .. n)
  BY <1>1, AtFd, IoTyped
<1>3. io' \in Io(n)
  <2>1. << >> \in Seq(0 .. n)
    BY EmptySeq
  <2> QED BY <1>1, <2>1 DEF NoIo, Io
<1>4. CASE ~fds[Fd].open
  <2>1. Unchanged /\ keys' = [keys EXCEPT ![1].counts = [read |-> -1, write |-> -1]]
    BY <1>4 DEF MoveBack
  <2>2. Became(n, State, {})
    BY <2>1, QuietOld
  <2>3. DataInv'
    BY <1>1, <1>3, <2>2, DataKept DEF DataInv
  <2> QED BY <1>1, <1>4, <2>1, <2>3
<1>5. CASE fds[Fd].open
  <2>1. PICK fd \in Sockets, e \in Events : fd = Fd /\ e = io.event
    BY <1>1
  <2>2. PICK list : list = (IF e = "read" THEN io.new \o fds[Fd].readList
                                           ELSE io.new \o fds[Fd].writeList)
    OBVIOUS
  <2>3. list \in Seq(0 .. n)
    BY <1>2, <2>2, ConcatProperties
  <2> DEFINE r == SetList(State, fd, e, list)
  <2>4. /\ Becomes(r)
        /\ keys' = [keys EXCEPT ![1].counts = [read  |-> Len(r.fds[fd].readList),
                                               write |-> Len(r.fds[fd].writeList)]]
    <3>1. r = SetList(State, Fd, io.event, prependSeq(Lists(State, Fd, io.event), io.new))
      BY <2>1, <2>2 DEF prependSeq, Lists, State
    <3> HIDE DEF r
    <3> QED BY <1>5, <2>1, <3>1 DEF MoveBack
  <2> HIDE DEF r
  <2>5. PICK d \in Descriptor(n) :
           /\ Points(n, T, State, fd, d, r)
           /\ d.open = State.fds[fd].open /\ d.interest = State.fds[fd].interest
           /\ d.readList = IF e = "read" THEN list ELSE State.fds[fd].readList
           /\ d.writeList = IF e = "read" THEN State.fds[fd].writeList ELSE list
    BY <2>3, FutsTyped, SetListDoes DEF DataInv, r
  <2>6. State.fds = fds
    BY DEF State
  <2>7. Became(n, r, {}) /\ Relisted(fd, d.readList, d.writeList, d.interest)
    BY <2>4, <2>5, <2>6, Relisting
  <2>8. DataInv'
    BY <1>1, <1>3, <2>7, DataKept DEF DataInv
  <2>9. d.readList = reads /\ d.writeList = writes /\ d.interest = fds[Fd].interest
    BY <2>1, <2>2, <2>5, <2>6
  <2>10. r.fds[fd] = d /\ d.readList \in Seq(0 .. n) /\ d.writeList \in Seq(0 .. n)
    BY <2>5 DEF Points, Descriptor
  <2>11. Len(reads) \in Nat /\ Len(writes) \in Nat
    BY <2>9, <2>10, LenProperties
  <2> QED BY <1>1, <1>5, <2>1, <2>4, <2>7, <2>8, <2>9, <2>10, <2>11
<1> QED BY <1>4, <1>5

LEMMA NextKeyDoes ==
  ASSUME DataInv, LoopInv, NextKey
  PROVE  /\ DataInv' /\ UNCHANGED io
         /\ \/ Unchanged /\ (keys[1].counts.read = -1 \/ ~fds[Fd].open)
            \/ /\ keys[1].counts.read # -1 /\ fds[Fd].open
               /\ Relisted(Fd, fds[Fd].readList, fds[Fd].writeList, Counted)
<1>1. /\ Fd \in Sockets /\ io' = io /\ timers' = timers /\ op' = op /\ keys[1] \in Key
  BY AtFd DEF NextKey, Dispatching
<1>2. CASE Unchanged /\ (keys[1].counts.read = -1 \/ ~fds[Fd].open)
  <2>1. DataInv'
    BY <1>1, <1>2, OldDoes
  <2> QED BY <1>1, <1>2, <2>1
<1>3. CASE keys[1].counts.read # -1 /\ fds[Fd].open /\ Becomes(updateHandle(State, Fd, Counted))
  <2>1. PICK fd \in Sockets, e \in SUBSET Events : fd = Fd /\ e = Counted
    BY <1>1 DEF Counted
  <2> DEFINE r == updateHandle(State, fd, e)
  <2>2. PICK d \in Descriptor(Len(futs)) :
           /\ Points(Len(futs), Of("timeout"), State, fd, d, r)
           /\ d.open = State.fds[fd].open /\ d.interest = e
           /\ d.readList = State.fds[fd].readList /\ d.writeList = State.fds[fd].writeList
    <3>1. Len(futs) \in Nat /\ State \in States(Len(futs), Of("timeout")) /\ r = updateHandle(State, fd, e)
      BY FutsTyped DEF DataInv
    <3> HIDE DEF r
    <3> QED BY <3>1, updateHandleDoes
  <2>3. Becomes(r)
    BY <1>3, <2>1
  <2> HIDE DEF r
  <2>4. State.fds = fds
    BY DEF State
  <2>5. Became(Len(futs), r, {}) /\ Relisted(fd, d.readList, d.writeList, d.interest)
    BY <2>2, <2>3, <2>4, Relisting
  <2>6. DataInv'
    BY <1>1, <2>5, DataKept DEF DataInv
  <2> QED BY <1>1, <1>3, <2>1, <2>2, <2>4, <2>5, <2>6
<1> QED BY <1>2, <1>3 DEF NextKey

(***************************************************************************)
(* The loop, the environment, and all steps together.                      *)
(***************************************************************************)
LEMMA TickDoes ==
  ASSUME DataInv, LoopInv, Tick
  PROVE  DataInv' /\ Quiet /\ until' \in Nat
<1>1. Unchanged /\ UNCHANGED <<op, io>>
  BY DEF Tick
<1>2. Quiet /\ Became(Len(futs), State, {})
  BY <1>1, QuietOld
<1>3. ASSUME NEW k \in Nat PROVE Less(k) \in Nat
  BY DEF Less
<1>4. timers' \in Seq(Timer(Of("sleep")))
  <2>1. /\ Len(timers) \in Nat /\ DOMAIN timers = 1 .. Len(timers)
        /\ \A i \in 1 .. Len(timers) : timers[i] \in Timer(Of("sleep"))
    BY LenProperties, ElementOfSeq DEF DataInv
  <2>2. ASSUME NEW i \in 1 .. Len(timers)
        PROVE  [timers[i] EXCEPT !.left = Less(@)] \in Timer(Of("sleep"))
    BY <1>3, <2>1 DEF Timer
  <2>3. timers' = [i \in 1 .. Len(timers) |-> [timers[i] EXCEPT !.left = Less(@)]]
    BY <2>1 DEF Tick
  <2>4. timers' \in [1 .. Len(timers) -> Timer(Of("sleep"))]
    BY <2>2, <2>3
  <2> QED BY <2>1, <2>4, SeqDef
<1>5. DataInv'
  BY <1>1, <1>2, <1>4, DataKept DEF DataInv
<1>6. until' \in Nat
  BY <1>3 DEF Tick, LoopInv
<1> QED BY <1>2, <1>5, <1>6

LEMMA ArriveDoes ==
  ASSUME DataInv, NEW fd \in Sockets, Arrive(fd)
  PROVE  DataInv' /\ Quiet
<1> DEFINE q == [inbox EXCEPT ![fd] = @ + 1]
           r == [State EXCEPT !.inbox = q]
<1>1. Len(futs) \in Nat /\ State \in States(Len(futs), Of("timeout"))
  BY FutsTyped DEF DataInv
<1>2. /\ State.futs \in Seq(Made(Len(futs), Of("timeout"))) /\ Len(State.futs) = Len(futs)
      /\ State.ready \in Seq(Call(Len(futs), Of("timeout")))
      /\ State.order \in Seq(1 .. Len(futs)) /\ State.fds \in [Sockets -> Descriptor(Len(futs))]
      /\ State.inbox \in [Sockets -> 0 .. MaxInbox] /\ State.room \in [Sockets -> 0 .. SendRoom]
  BY <1>1, Fields
<1>3. q \in [Sockets -> 0 .. MaxInbox] /\ \A g \in Sockets : g # fd => q[g] = inbox[g]
  <2>1. inbox \in [Sockets -> 0 .. MaxInbox] /\ MaxInbox \in Nat /\ inbox[fd] < MaxInbox
    BY <1>2, ConstantsAssumption DEF State, Arrive
  <2>2. inbox[fd] + 1 \in 0 .. MaxInbox
    BY <2>1
  <2> QED BY <2>1, <2>2
<1>4. /\ inbox' = q /\ ~hungup[fd]
      /\ UNCHANGED <<futs, ready, order, fds, room, hungup, timers, op, io>>
  BY DEF Arrive, loop
<1> HIDE DEF q
<1>5. /\ r.futs = State.futs /\ r.ready = State.ready /\ r.order = State.order
      /\ r.fds = State.fds /\ r.inbox = q /\ r.room = State.room /\ Record(r)
  BY DEF State, Record
<1>6. Becomes(r)
  BY <1>4, <1>5 DEF Becomes, State
<1>7. r \in States(Len(futs), Of("timeout"))
  <2> HIDE DEF r
  <2> QED BY <1>1, <1>2, <1>3, <1>5, MakeState
<1>8. Same(Len(futs), State, r, {})
  BY <1>5 DEF Same
<1> HIDE DEF r
<1>9. Became(Len(futs), r, {})
  BY <1>6, <1>7, <1>8, BecomingSame
<1>10. DataInv'
  BY <1>4, <1>9, StayQuiet
<1>11. Quiet
  BY <1>1, <1>3, <1>4 DEF Quiet
<1> QED BY <1>10, <1>11

LEMMA PeerReadsDoes ==
  ASSUME DataInv, NEW fd \in Sockets, PeerReads(fd)
  PROVE  DataInv' /\ Quiet
<1> DEFINE q == [room EXCEPT ![fd] = @ + 1]
           r == [State EXCEPT !.room = q]
<1>1. Len(futs) \in Nat /\ State \in States(Len(futs), Of("timeout"))
  BY FutsTyped DEF DataInv
<1>2. /\ State.futs \in Seq(Made(Len(futs), Of("timeout"))) /\ Len(State.futs) = Len(futs)
      /\ State.ready \in Seq(Call(Len(futs), Of("timeout")))
      /\ State.order \in Seq(1 .. Len(futs)) /\ State.fds \in [Sockets -> Descriptor(Len(futs))]
      /\ State.inbox \in [Sockets -> 0 .. MaxInbox] /\ State.room \in [Sockets -> 0 .. SendRoom]
  BY <1>1, Fields
<1>3. q \in [Sockets -> 0 .. SendRoom]
  <2>1. room \in [Sockets -> 0 .. SendRoom] /\ SendRoom \in Nat /\ room[fd] < SendRoom
    BY <1>2, ConstantsAssumption DEF State, PeerReads
  <2>2. room[fd] + 1 \in 0 .. SendRoom
    BY <2>1
  <2> QED BY <2>1, <2>2
<1>4. /\ room' = q /\ UNCHANGED <<futs, ready, order, fds, inbox, hungup, timers, op, io>>
  BY DEF PeerReads, loop
<1> HIDE DEF q
<1>5. /\ r.futs = State.futs /\ r.ready = State.ready /\ r.order = State.order
      /\ r.fds = State.fds /\ r.inbox = State.inbox /\ r.room = q /\ Record(r)
  BY DEF State, Record
<1>6. Becomes(r)
  BY <1>4, <1>5 DEF Becomes, State
<1>7. r \in States(Len(futs), Of("timeout"))
  <2> HIDE DEF r
  <2> QED BY <1>1, <1>2, <1>3, <1>5, MakeState
<1>8. Same(Len(futs), State, r, {})
  BY <1>5 DEF Same
<1> HIDE DEF r
<1>9. Became(Len(futs), r, {})
  BY <1>6, <1>7, <1>8, BecomingSame
<1>10. DataInv'
  BY <1>4, <1>9, StayQuiet
<1>11. Quiet
  BY <1>1, <1>4 DEF Quiet
<1> QED BY <1>10, <1>11

LEMMA HangUpDoes ==
  ASSUME DataInv, NEW fd \in Sockets, HangUp(fd)
  PROVE  DataInv' /\ Quiet
<1>1. /\ UNCHANGED <<futs, ready, order, fds, inbox, room, timers, op, io>>
      /\ hungup' = [hungup EXCEPT ![fd] = TRUE]
  BY DEF HangUp, loop
<1>2. hungup' \in [Sockets -> BOOLEAN] /\ \A g \in Sockets : hungup[g] => hungup'[g]
  BY <1>1 DEF DataInv
<1>3. State' = State /\ Of("timeout")' = Of("timeout") /\ Of("sleep")' = Of("sleep")
  BY <1>1 DEF State, Of
<1>4. DataInv'
  BY <1>1, <1>2, <1>3 DEF DataInv
<1>5. Quiet
  BY <1>1, <1>2, FutsTyped DEF Quiet
<1> QED BY <1>4, <1>5

(* What epoll_wait returns: each socket that is reported, once.            *)
LEMMA SelectReturnsDoes ==
  ASSUME DataInv, LoopInv, SelectReturns
  PROVE  /\ DataInv' /\ Quiet /\ keys' \in Seq(Key) /\ io' = io
         /\ \A i, j \in 1 .. Len(keys') : i # j => keys'[i].fd # keys'[j].fd
         /\ \A i \in 1 .. Len(keys') :
              /\ keys'[i].counts.read = 0
              /\ hungup[keys'[i].fd] \/ keys'[i].events # {}
<1>1. DataInv' /\ Quiet /\ io' = io
  BY OldDoes DEF SelectReturns
<1>2. PICK q \in SetToSeqs(Reported) :
        keys' = [i \in DOMAIN q |-> [fd |-> q[i], events |-> Possible(q[i]) \cap fds[q[i]].interest,
                                     counts |-> [read |-> 0, write |-> 0]]]
  BY DEF SelectReturns
<1> DEFINE m == Cardinality(Reported)
<1>3. m \in Nat
  <2>1. IsFiniteSet(Reported)
    BY FS_Subset, ConstantsAssumption DEF Reported
  <2> QED BY <2>1, FS_CardinalityType
<1>4. q \in [1 .. m -> Reported] /\ \A i, j \in 1 .. m : i # j => q[i] # q[j]
  BY <1>2 DEF SetToSeqs
<1> HIDE DEF m
<1>5. ASSUME NEW i \in 1 .. m
      PROVE  /\ q[i] \in Sockets
             /\ hungup[q[i]] \/ Possible(q[i]) \cap fds[q[i]].interest # {}
             /\ Possible(q[i]) \cap fds[q[i]].interest \subseteq Events
  BY <1>4 DEF Reported, Possible
<1>6. /\ DOMAIN keys' = 1 .. m
      /\ \A i \in 1 .. m :
           /\ keys'[i].fd = q[i] /\ keys'[i].events = Possible(q[i]) \cap fds[q[i]].interest
           /\ keys'[i] \in Key /\ keys'[i].counts.read = 0
  <2>1. [read |-> 0, write |-> 0] \in Counts
    BY DEF Counts
  <2>2. ASSUME NEW i \in 1 .. m
        PROVE  [fd |-> q[i], events |-> Possible(q[i]) \cap fds[q[i]].interest,
                counts |-> [read |-> 0, write |-> 0]] \in Key
    BY <1>5, <2>1 DEF Key
  <2> QED BY <1>2, <1>4, <2>2
<1>7. keys' \in Seq(Key) /\ Len(keys') = m
  <2>1. keys' \in [1 .. m -> Key]
    BY <1>2, <1>6
  <2>2. keys' \in Seq(Key)
    BY <1>3, <2>1, SeqDef
  <2> QED BY <1>3, <1>6, <2>2, LenProperties
<1>8. \A i, j \in 1 .. Len(keys') : i # j => keys'[i].fd # keys'[j].fd
  BY <1>4, <1>6, <1>7
<1>9. ASSUME NEW i \in 1 .. Len(keys')
      PROVE  keys'[i].counts.read = 0 /\ (hungup[keys'[i].fd] \/ keys'[i].events # {})
  <2>1. /\ i \in 1 .. m /\ keys'[i].fd = q[i] /\ keys'[i].counts.read = 0
        /\ keys'[i].events = Possible(q[i]) \cap fds[q[i]].interest
    BY <1>6, <1>7
  <2> QED BY <1>5, <2>1
<1> QED BY <1>1, <1>7, <1>8, <1>9

Elsewhere == pc \notin {"dispatch", "raised"}
Moves ==
  \/ Quiet /\ UNCHANGED <<io, keys>> /\ (keys = << >> \/ pc' = pc \/ Elsewhere)
  \/ /\ Elsewhere /\ UNCHANGED <<io, keys>>
     /\ \E fd \in Sockets : /\ fds[fd].open
                            /\ Shut(fd) \/ Watches(fd) \/ \E k \in IoKinds : Asked(k, fd)
  \/ SelectReturns \/ MoveOut \/ CallBack \/ CallWatcher \/ MoveBack \/ NextKey

LEMMA OperationDoes ==
  ASSUME DataInv, LoopInv, Operation
  PROVE  DataInv' /\ Moves /\ Running /\ UNCHANGED <<io, keys, started, until>>
         /\ (UNCHANGED <<pc, task>> \/ (task' = 0 /\ pc' \in {"poll", "callbacks"}))
<1>1. CASE \E fd \in Sockets : Recv(fd)
  <2>1. PICK fd \in Sockets : Recv(fd)
    BY <1>1
  <2>2. DataInv' /\ Asked("recv", fd)
    BY <2>1, RecvDoes
  <2>3. "recv" \in IoKinds /\ fds[fd].open /\ Running /\ Stays
    BY <2>1 DEF Recv, IoKinds
  <2> QED BY <2>2, <2>3 DEF Moves, Stays, Running, Elsewhere
<1>2. CASE \E fd \in Sockets : \E y \in SendSizes : Send(fd, y)
  <2>1. PICK fd \in Sockets, y \in SendSizes : Send(fd, y)
    BY <1>2
  <2>2. DataInv' /\ Asked("send", fd)
    BY <2>1, SendDoes
  <2>3. "send" \in IoKinds /\ fds[fd].open /\ Running /\ Stays
    BY <2>1 DEF Send, IoKinds
  <2> QED BY <2>2, <2>3 DEF Moves, Stays, Running, Elsewhere
<1>3. CASE \E fd \in Sockets : Close(fd)
  <2>1. PICK fd \in Sockets : Close(fd)
    BY <1>3
  <2>2. DataInv' /\ Shut(fd)
    BY <2>1, CloseDoes
  <2>3. fds[fd].open /\ Running /\ Stays
    BY <2>1 DEF Close
  <2> QED BY <2>2, <2>3 DEF Moves, Stays, Running, Elsewhere
<1>4. CASE \E fd \in Sockets : Watch(fd)
  <2>1. PICK fd \in Sockets : Watch(fd)
    BY <1>4
  <2>2. DataInv' /\ Watches(fd)
    BY <2>1, WatchDoes
  <2>3. fds[fd].open /\ Running /\ Stays
    BY <2>1 DEF Watch
  <2> QED BY <2>2, <2>3 DEF Moves, Stays, Running, Elsewhere
<1>5. CASE \E ms \in Delays : sleepAsync(ms)
  <2>1. PICK ms \in Delays : sleepAsync(ms)
    BY <1>5
  <2>2. DataInv' /\ Quiet
    BY <2>1, sleepAsyncDoes
  <2>3. Running /\ Stays
    BY <2>1 DEF sleepAsync
  <2> QED BY <2>2, <2>3 DEF Moves, Stays, Running, Elsewhere
<1>6. CASE \E ms \in Delays : WithTimeout(ms)
  <2>1. PICK ms \in Delays : WithTimeout(ms)
    BY <1>6
  <2>2. DataInv' /\ Quiet
    BY <2>1, WithTimeoutDoes
  <2>3. Running /\ Yield
    BY <2>1 DEF WithTimeout
  <2> QED BY <2>2, <2>3 DEF Moves, Yield, Running, Elsewhere
<1>7. CASE Join
  <2>1. DataInv' /\ Quiet
    BY <1>7, JoinDoes
  <2>2. Running /\ Stays
    BY <1>7 DEF Join
  <2> QED BY <2>1, <2>2 DEF Moves, Stays, Running, Elsewhere
<1>8. CASE Await
  <2>1. DataInv' /\ Quiet
    BY <1>8, AwaitDoes
  <2>2. Running /\ Yield
    BY <1>8 DEF Await
  <2> QED BY <2>1, <2>2 DEF Moves, Yield, Running, Elsewhere
<1>9. CASE Return
  <2>1. DataInv' /\ Quiet
    BY <1>9, ReturnDoes
  <2>2. Running /\ Yield
    BY <1>9 DEF Return
  <2> QED BY <2>1, <2>2 DEF Moves, Yield, Running, Elsewhere
<1> QED BY <1>1, <1>2, <1>3, <1>4, <1>5, <1>6, <1>7, <1>8, <1>9 DEF Operation

LEMMA EnvironmentDoes ==
  ASSUME DataInv, LoopInv, Environment
  PROVE  DataInv' /\ Quiet /\ UNCHANGED <<io, keys, pc, task, started>> /\ until' \in Nat
<1>1. CASE Tick
  BY <1>1, TickDoes DEF Tick
<1>2. CASE \E fd \in Sockets : Arrive(fd) \/ PeerReads(fd) \/ HangUp(fd)
  <2>1. PICK fd \in Sockets : Arrive(fd) \/ PeerReads(fd) \/ HangUp(fd)
    BY <1>2
  <2>2. DataInv' /\ Quiet
    BY <2>1, ArriveDoes, PeerReadsDoes, HangUpDoes
  <2>3. UNCHANGED loop
    BY <2>1 DEF Arrive, PeerReads, HangUp
  <2> QED BY <2>2, <2>3 DEF loop, LoopInv
<1> QED BY <1>1, <1>2 DEF Environment

LEMMA LoopDoes ==
  ASSUME DataInv, LoopInv, Loop
  PROVE  DataInv' /\ Moves
<1>1. CASE StartTask
  BY <1>1, OldDoes DEF StartTask, Moves, Elsewhere
<1>2. CASE Poll
  BY <1>2, PollDoes DEF Poll, Moves, Elsewhere
<1>3. CASE Select
  BY <1>3, OldDoes DEF Select, Moves, Elsewhere
<1>4. CASE SelectReturns
  BY <1>4, SelectReturnsDoes DEF Moves
<1>5. CASE MoveOut
  <2>1. DataInv'
    BY <1>5, MoveOutDoes
  <2> QED BY <1>5, <2>1 DEF Moves
<1>6. CASE CallBack
  <2>1. DataInv'
    BY <1>6, CallBackDoes
  <2> QED BY <1>6, <2>1 DEF Moves
<1>7. CASE CallWatcher
  <2>1. DataInv'
    BY <1>7, CallWatcherDoes
  <2> QED BY <1>7, <2>1 DEF Moves
<1>8. CASE MoveBack
  <2>1. PICK reads : reads = (IF io.event = "read" THEN io.new \o fds[Fd].readList ELSE fds[Fd].readList)
    OBVIOUS
  <2>2. PICK writes : writes = (IF io.event = "read" THEN fds[Fd].writeList ELSE io.new \o fds[Fd].writeList)
    OBVIOUS
  <2>3. DataInv'
    BY <1>8, <2>1, <2>2, MoveBackDoes
  <2> QED BY <1>8, <2>3 DEF Moves
<1>9. CASE NextKey
  <2>1. DataInv'
    BY <1>9, NextKeyDoes
  <2> QED BY <1>9, <2>1 DEF Moves
<1>10. CASE Dispatched
  BY <1>10, DispatchedDoes DEF Dispatched, Moves
<1>11. CASE RunCallback
  BY <1>11, RunCallbackDoes DEF RunCallback, Moves, Elsewhere
<1>12. CASE PollReturns
  BY <1>12, OldDoes DEF PollReturns, Moves, Elsewhere
<1> QED BY <1>1, <1>2, <1>3, <1>4, <1>5, <1>6, <1>7, <1>8, <1>9, <1>10, <1>11, <1>12 DEF Loop

LEMMA Steps ==
  ASSUME DataInv, LoopInv, [Next]_vars
  PROVE  DataInv' /\ Moves
<1>1. CASE UNCHANGED vars
  <2>1. Unchanged /\ UNCHANGED <<timers, pc, op, io, keys>>
    BY <1>1 DEF vars, loop, Unchanged
  <2> QED BY <2>1, OldDoes DEF Moves
<1>2. CASE Operation
  BY <1>2, OperationDoes
<1>3. CASE Loop
  BY <1>3, LoopDoes
<1>4. CASE Environment
  BY <1>4, EnvironmentDoes DEF Moves
<1> QED BY <1>1, <1>2, <1>3, <1>4 DEF Next, Stopped

LEMMA adjustTimeoutNat ==
  ASSUME DataInv
  PROVE  adjustTimeout \in Nat
<1>1. PollTimeout \in Nat
  BY ConstantsAssumption
<1>2. CASE timers = << >>
  BY <1>1, <1>2 DEF adjustTimeout
<1>3. CASE timers # << >>
  <2>1. timers[1] \in Timer(Of("sleep"))
    <3>1. 1 \in 1 .. Len(timers)
      BY <1>3, EmptySeq, LenProperties DEF DataInv
    <3> QED BY <3>1, ElementOfSeq DEF DataInv
  <2>2. timers[1].left + 1 \in Nat
    BY <2>1 DEF Timer
  <2> QED BY <1>1, <2>2 DEF adjustTimeout
<1> QED BY <1>2, <1>3

LEMMA KeysChanged ==
  ASSUME DataInv, LoopInv, keys # << >>, NEW k \in Key, keys' = [keys EXCEPT ![1] = k]
  PROVE  keys' \in Seq(Key) /\ Len(keys') = Len(keys)
BY ExceptSeq, AtFd DEF LoopInv

LEMMA LoopKept ==
  ASSUME DataInv, LoopInv, [Next]_vars
  PROVE  LoopInv'
<1> DEFINE Pcs == {"poll", "main", "adjust", "select", "dispatch", "callbacks", "task", "raised"}
<1>1. /\ NTasks \in Nat \ {0} /\ pc \in Pcs /\ task \in 0 .. NTasks /\ (task # 0 <=> Running)
      /\ started \in 0 .. NTasks /\ until \in Nat /\ keys \in Seq(Key)
  BY ConstantsAssumption DEF LoopInv
<1>2. CASE UNCHANGED <<pc, task, started, until, keys>>
  BY <1>1, <1>2 DEF LoopInv, Running
<1>3. CASE Operation
  <2>1. Running /\ UNCHANGED <<keys, started, until>>
    BY <1>3, OperationDoes
  <2>2. CASE task' = 0 /\ pc' \in {"poll", "callbacks"}
    BY <1>1, <2>1, <2>2 DEF LoopInv, Running
  <2> QED BY <1>2, <1>3, <2>1, <2>2, OperationDoes
<1>4. CASE Environment
  <2>1. UNCHANGED <<pc, task, started, keys>> /\ until' \in Nat
    BY <1>4, EnvironmentDoes
  <2> QED BY <1>1, <2>1 DEF LoopInv, Running
<1>5. CASE StartTask
  <2>1. task' = started + 1 /\ started' = started + 1 /\ pc' = "main" /\ started < NTasks
        /\ UNCHANGED <<until, keys>>
    BY <1>5 DEF StartTask
  <2>2. started + 1 \in 0 .. NTasks /\ started + 1 # 0
    BY <1>1, <2>1
  <2> QED BY <1>1, <2>1, <2>2 DEF LoopInv, Running
<1>6. CASE Poll
  <2>1. pc = "poll" /\ pc' \in {"raised", "adjust"} /\ UNCHANGED <<task, started, until, keys>>
    BY <1>6 DEF Poll
  <2> QED BY <1>1, <2>1 DEF LoopInv, Running
<1>7. CASE Select
  <2>1. /\ pc = "adjust" /\ pc' = "select" /\ until' = adjustTimeout
        /\ UNCHANGED <<task, started, keys>>
    BY <1>7 DEF Select
  <2> QED BY <1>1, <2>1, adjustTimeoutNat DEF LoopInv, Running
<1>8. CASE SelectReturns
  <2>1. pc = "select" /\ pc' = "dispatch" /\ until' = 0 /\ UNCHANGED <<task, started>>
    BY <1>8 DEF SelectReturns
  <2>2. keys' \in Seq(Key)
    BY <1>8, SelectReturnsDoes
  <2> QED BY <1>1, <2>1, <2>2 DEF LoopInv, Running
<1>9. CASE MoveOut
  <2>1. keys # << >> /\ UNCHANGED <<pc, task, started, until>>
    BY <1>9 DEF MoveOut, Dispatching, IoOnly
  <2>2. keys[1] \in Key
    BY <2>1, AtFd
  <2>3. PICK k : k = [keys[1] EXCEPT !.events = @ \ {io'.event}]
    OBVIOUS
  <2>4. k \in Key
    BY <2>2, <2>3 DEF Key
  <2>5. keys' = [keys EXCEPT ![1] = k]
    BY <1>9, <2>3, MoveOutDoes
  <2>6. keys' \in Seq(Key)
    BY <2>1, <2>4, <2>5, KeysChanged
  <2> QED BY <1>1, <2>1, <2>6 DEF LoopInv, Running
<1>10. CASE CallBack
  BY <1>2, <1>10 DEF CallBack, IoOnly
<1>11. CASE CallWatcher
  BY <1>2, <1>11 DEF CallWatcher, IoOnly
<1>12. CASE MoveBack
  <2>1. keys # << >> /\ UNCHANGED <<pc, task, started, until>>
    BY <1>12 DEF MoveBack, Dispatching, IoOnly
  <2>2. keys[1] \in Key
    BY <2>1, AtFd
  <2>3. PICK reads, writes :
          /\ reads = IF io.event = "read" THEN io.new \o fds[Fd].readList ELSE fds[Fd].readList
          /\ writes = IF io.event = "read" THEN fds[Fd].writeList ELSE io.new \o fds[Fd].writeList
    OBVIOUS
  <2>4. PICK c \in Counts : keys' = [keys EXCEPT ![1].counts = c]
    <3>1. CASE /\ Len(reads) \in Nat /\ Len(writes) \in Nat
               /\ keys' = [keys EXCEPT ![1].counts = [read |-> Len(reads), write |-> Len(writes)]]
      <4>1. [read |-> Len(reads), write |-> Len(writes)] \in Counts
        BY <3>1 DEF Counts
      <4> QED BY <3>1, <4>1
    <3>2. CASE keys' = [keys EXCEPT ![1].counts = [read |-> -1, write |-> -1]]
      <4>1. [read |-> -1, write |-> -1] \in Counts
        BY DEF Counts
      <4> QED BY <3>2, <4>1
    <3> QED BY <1>12, <2>3, <3>1, <3>2, MoveBackDoes
  <2>5. PICK k : k = [keys[1] EXCEPT !.counts = c]
    OBVIOUS
  <2>6. k \in Key
    BY <2>2, <2>5 DEF Key
  <2>7. keys' = [keys EXCEPT ![1] = k]
    BY <2>4, <2>5
  <2>8. keys' \in Seq(Key)
    BY <2>1, <2>6, <2>7, KeysChanged
  <2> QED BY <1>1, <2>1, <2>8 DEF LoopInv, Running
<1>13. CASE NextKey
  <2>1. /\ keys # << >> /\ pc = "dispatch" /\ pc' \in {"dispatch", "raised"} /\ keys' = Tail(keys)
        /\ UNCHANGED <<task, started, until>>
    BY <1>13 DEF NextKey, Dispatching
  <2>2. keys' \in Seq(Key)
    BY <1>1, <2>1, HeadTailProperties
  <2> QED BY <1>1, <2>1, <2>2 DEF LoopInv, Running
<1>14. CASE Dispatched
  <2>1. pc = "dispatch" /\ pc' = "callbacks" /\ UNCHANGED <<task, started, until, keys>>
    BY <1>14 DEF Dispatched
  <2> QED BY <1>1, <2>1 DEF LoopInv, Running
<1>15. CASE RunCallback
  <2>1. pc = "callbacks" /\ UNCHANGED <<started, until, keys>>
    BY <1>15 DEF RunCallback
  <2>2. CASE Head(ready).kind = "resume" /\ task' = Head(ready).task /\ pc' = "task"
    <3>1. Head(ready) \in Call(Len(futs), Of("timeout"))
      BY <1>15, PoppedDoes DEF RunCallback
    <3>2. Head(ready).task \in Tasks
      BY <2>2, <3>1 DEF Call
    <3> QED BY <1>1, <2>1, <2>2, <3>2 DEF LoopInv, Running, Tasks
  <2>3. CASE UNCHANGED <<task, pc>>
    BY <1>2, <2>1, <2>3
  <2> QED BY <1>15, <2>2, <2>3 DEF RunCallback
<1>16. CASE PollReturns
  <2>1. pc = "callbacks" /\ pc' = "poll" /\ UNCHANGED <<task, started, until, keys>>
    BY <1>16 DEF PollReturns
  <2> QED BY <1>1, <2>1 DEF LoopInv, Running
<1>17. CASE UNCHANGED vars
  BY <1>2, <1>17 DEF vars, loop
<1> QED BY <1>3, <1>4, <1>5, <1>6, <1>7, <1>8, <1>9, <1>10, <1>11, <1>12, <1>13, <1>14,
           <1>15, <1>16, <1>17 DEF Next, Loop, Stopped

LEMMA Initially ==
  ASSUME Init
  PROVE  DataInv /\ LoopInv
<1>1. NTasks \in Nat \ {0} /\ NTasks \in NTasks .. MaxFutures /\ SendRoom \in Nat /\ MaxInbox \in Nat
  BY ConstantsAssumption
<1> DEFINE x == Future("task", 0, 0)
<1>2. futs = [t \in 1 .. NTasks |-> x] /\ Len(futs) = NTasks
  <2> HIDE DEF x
  <2> QED BY <1>1 DEF Init, Tasks, x
<1>3. x.kind = "task" /\ x \in Made(NTasks, {})
  <2>1. "task" \in Kinds /\ 0 \in Nat /\ 0 \in Sockets \cup Nat
    BY DEF Kinds
  <2> QED BY <1>1, <2>1, FutureTyped DEF Future
<1> HIDE DEF x
<1>4. Of("timeout") = {} /\ \A t \in Tasks : futs[t].kind = "task"
  BY <1>2, <1>3 DEF Of, Tasks
<1>5. futs \in Seq(Made(NTasks, {}))
  <2>1. futs \in [1 .. NTasks -> Made(NTasks, {})]
    BY <1>2, <1>3
  <2> QED BY <1>1, <2>1, SeqDef
<1>6. << >> \in Seq(0 .. NTasks) /\ << >> \in Seq(Call(NTasks, {})) /\ << >> \in Seq(1 .. NTasks)
      /\ << >> \in Seq(Timer(Of("sleep"))) /\ << >> \in Seq(Key)
  BY EmptySeq
<1>7. Closed \in Descriptor(NTasks) /\ [Closed EXCEPT !.open = TRUE] \in Descriptor(NTasks)
  BY <1>6 DEF Closed, Descriptor
<1>8. /\ fds \in [Sockets -> Descriptor(NTasks)] /\ inbox \in [Sockets -> 0 .. MaxInbox]
      /\ room \in [Sockets -> 0 .. SendRoom] /\ ready = << >> /\ order = << >>
  <2>1. 0 \in 0 .. MaxInbox /\ SendRoom \in 0 .. SendRoom
    BY <1>1
  <2> QED BY <1>7, <2>1 DEF Init
<1>9. State \in States(NTasks, {})
  <2>1. /\ State.futs = futs /\ State.ready = ready /\ State.order = order /\ State.fds = fds
        /\ State.inbox = inbox /\ State.room = room /\ Record(State)
    BY DEF State, Record
  <2> QED BY <1>1, <1>2, <1>5, <1>6, <1>8, <2>1, MakeState
<1>10. /\ hungup \in [Sockets -> BOOLEAN] /\ timers \in Seq(Timer(Of("sleep")))
       /\ op \in [Tasks -> 0 .. NTasks]
  <2>1. 0 \in 0 .. NTasks
    BY <1>1
  <2> QED BY <1>6, <2>1 DEF Init
<1>11. io \in Io(NTasks)
  BY <1>6 DEF Init, NoIo, Io
<1>12. DataInv
  BY <1>1, <1>2, <1>4, <1>9, <1>10, <1>11 DEF DataInv
<1>13. LoopInv
  BY <1>1, <1>6 DEF Init, LoopInv, Running
<1> QED BY <1>12, <1>13

(* The loop's state is of its types: callbacks name futures that were made,*)
(* lists hold futures or the watcher, the kernel's buffers stay in bounds. *)
LEMMA Typed == Spec => [](DataInv /\ LoopInv)
<1>1. Init => DataInv /\ LoopInv
  BY Initially
<1>2. DataInv /\ LoopInv /\ [Next]_vars => (DataInv /\ LoopInv)'
  BY Steps, LoopKept
<1> QED BY <1>1, <1>2, PTL DEF Spec

LEMMA TypesFollow ==
  ASSUME DataInv, LoopInv
  PROVE  TypeOK
<1> DEFINE n == Len(futs)
           T == Of("timeout")
<1>1. n \in Nat /\ State \in States(n, T) /\ T \subseteq 1 .. n /\ n \in NTasks .. MaxFutures
  BY FutsTyped DEF DataInv, Of
<1>2. n <= MaxFutures /\ MaxFutures \in Nat /\ 1 .. n \subseteq 1 .. MaxFutures
      /\ 0 .. n \subseteq 0 .. MaxFutures
  BY <1>1, ConstantsAssumption
<1>3. Call(n, T) \subseteq Callback
  <2>1. T \subseteq 1 .. MaxFutures
    BY <1>1, <1>2
  <2> HIDE DEF n, T
  <2> QED BY <1>2, <2>1 DEF Call, Callback
<1>4. /\ futs \in Seq(Made(n, T)) /\ ready \in Seq(Call(n, T)) /\ fds \in [Sockets -> Descriptor(n)]
      /\ inbox \in [Sockets -> 0 .. MaxInbox] /\ room \in [Sockets -> 0 .. SendRoom]
  <2>1. /\ State.futs \in Seq(Made(n, T)) /\ State.ready \in Seq(Call(n, T))
        /\ State.fds \in [Sockets -> Descriptor(n)]
        /\ State.inbox \in [Sockets -> 0 .. MaxInbox] /\ State.room \in [Sockets -> 0 .. SendRoom]
    <3> HIDE DEF n, T
    <3> QED BY <1>1, Fields
  <2> QED BY <2>1 DEF State
<1>5. ASSUME NEW f \in DOMAIN futs
      PROVE  /\ futs[f].kind \in {"task", "recv", "send", "sleep", "timeout"}
             /\ futs[f].left \in Nat /\ futs[f].answer \in Answers
             /\ \A i \in DOMAIN futs[f].callbacks : futs[f].callbacks[i] \in Callback
  <2>1. futs[f] \in Made(n, T)
    BY <1>4, ElementOfSeq, LenProperties
  <2> HIDE DEF n, T
  <2>2. futs[f].callbacks \in Seq(Call(n, T)) /\ futs[f].kind \in Kinds
        /\ futs[f].left \in Nat /\ futs[f].answer \in Answers
    BY <1>1, <2>1, MadeFields
  <2>3. \A i \in DOMAIN futs[f].callbacks : futs[f].callbacks[i] \in Call(n, T)
    BY <2>2, ElementOfSeq, LenProperties
  <2> QED BY <1>3, <2>2, <2>3 DEF Kinds
<1>6. \A i \in DOMAIN ready : ready[i] \in Callback
  <2> HIDE DEF n, T
  <2>1. \A i \in DOMAIN ready : ready[i] \in Call(n, T)
    BY <1>4, ElementOfSeq, LenProperties
  <2> QED BY <1>3, <2>1
<1>7. ASSUME NEW fd \in Sockets
      PROVE  /\ fds[fd].open \in BOOLEAN /\ fds[fd].interest \subseteq Events
             /\ IoList(fds[fd].readList) /\ IoList(fds[fd].writeList)
  <2>1. fds[fd] \in Descriptor(n)
    BY <1>4
  <2>2. /\ fds[fd].open \in BOOLEAN /\ fds[fd].interest \in SUBSET Events
        /\ fds[fd].readList \in Seq(0 .. n) /\ fds[fd].writeList \in Seq(0 .. n)
    BY <2>1 DEF Descriptor
  <2>3. ASSUME NEW list \in Seq(0 .. n) PROVE IoList(list)
    <3>1. \A i \in DOMAIN list : list[i] \in 0 .. n
      BY ElementOfSeq, LenProperties
    <3> QED BY <3>1 DEF IoList
  <2> QED BY <2>2, <2>3
<1>8. op \in [Tasks -> 0 .. MaxFutures] /\ io.event \in Events \cup {"none"}
      /\ hungup \in [Sockets -> BOOLEAN]
  BY <1>2, IoTyped DEF DataInv
<1> QED BY <1>1, <1>4, <1>5, <1>6, <1>7, <1>8 DEF TypeOK, LoopInv

THEOREM LoopTyped == Spec => []TypeOK
<1>1. DataInv /\ LoopInv => TypeOK
  BY TypesFollow
<1> QED BY <1>1, Typed, PTL
=============================================================================
