------------------------- MODULE MpmcLifetimeProofs -------------------------
(***************************************************************************)
(* Theorems about MpmcLifetime, for any number of threads, handles and     *)
(* channels, and caches of any size.                                       *)
(***************************************************************************)
EXTENDS MpmcLifetime, FiniteSetTheorems, SequenceTheorems, TLAPS

(* The variables that refer to c, and those to which =copy will assign it. *)
Handles(c) == {v \in Vars : d[v] = c}
Coming(c)  == {v \in Vars : next[v] = c}
Uses(c)    == Cardinality(Handles(c)) + Cardinality(Coming(c))

(* The counter of a channel in use is the number of its uses minus one;    *)
(* that of a channel in a cache is 0, as newChannel would set it.          *)
Counted == \A c \in Chans : Uses(c) # 0 => counter[c] = Uses(c) - 1
CachedAtZero == \A t \in Threads : \A i \in DOMAIN cache[t] : counter[cache[t][i]] = 0

(* A destructor at work has a handle of its own thread, and one that has   *)
(* decided to free the channel has the only handle.  This is why the load  *)
(* and the decrement may be two steps.                                     *)
Destroying == \A t \in Threads :
  /\ pc[t] # "idle" => arg[t] \in Mine(t)
  /\ pc[t] \in {"copy", "dec", "free"} => d[arg[t]] # Nil
  /\ pc[t] = "assign" => d[arg[t]] = Nil /\ next[arg[t]] # Nil
LastHandle == \A t \in Threads :
  pc[t] = "free" => Handles(d[arg[t]]) = {arg[t]} /\ Coming(d[arg[t]]) = {}

(* What is copied lives until it is assigned, and only one =copy at a time *)
(* has the variable as its destination.                                    *)
Copying == \A v \in Vars : next[v] # Nil =>
  /\ next[v] \in allocated \ Cached
  /\ pc[Owner[v]] # "idle" /\ arg[Owner[v]] = v

IInv == /\ TypeOK /\ NoDanglingHandle /\ CachesDisjoint
        /\ Counted /\ CachedAtZero /\ Destroying /\ LastHandle /\ Copying

-----------------------------------------------------------------------------
(* Facts about states.                                                     *)

LEMMA HandlesFinite ==
  ASSUME NEW c
  PROVE  /\ IsFiniteSet(Handles(c)) /\ IsFiniteSet(Coming(c))
         /\ Cardinality(Handles(c)) \in Nat /\ Cardinality(Coming(c)) \in Nat
         /\ Cardinality(Handles(c)) <= Cardinality(Vars)
         /\ Cardinality(Coming(c)) <= Cardinality(Vars)
         /\ Cardinality(Vars) \in Nat
         /\ Cardinality(Handles(c)) = 0 <=> Handles(c) = {}
         /\ Cardinality(Coming(c)) = 0 <=> Coming(c) = {}
<1>1. Handles(c) \in SUBSET Vars /\ Coming(c) \in SUBSET Vars
  BY DEF Handles, Coming
<1>2. IsFiniteSet(Handles(c)) /\ Cardinality(Handles(c)) <= Cardinality(Vars)
  BY <1>1, LifetimeAssumption, FS_Subset
<1>3. IsFiniteSet(Coming(c)) /\ Cardinality(Coming(c)) <= Cardinality(Vars)
  BY <1>1, LifetimeAssumption, FS_Subset
<1>4. /\ Cardinality(Handles(c)) \in Nat /\ Cardinality(Coming(c)) \in Nat
      /\ Cardinality(Vars) \in Nat
  BY <1>2, <1>3, LifetimeAssumption, FS_CardinalityType
<1> QED BY <1>2, <1>3, <1>4, FS_EmptySet

LEMMA UsesFact ==
  ASSUME NEW c
  PROVE  /\ Uses(c) \in Nat /\ Uses(c) <= 2 * Cardinality(Vars) /\ Cardinality(Vars) \in Nat
         /\ Uses(c) = 0 <=> Handles(c) = {} /\ Coming(c) = {}
<1>1. PICK h, m, n \in Nat : /\ h = Cardinality(Handles(c)) /\ m = Cardinality(Coming(c))
                             /\ n = Cardinality(Vars) /\ h \in Nat /\ m \in Nat
                             /\ h <= n /\ m <= n
  BY HandlesFinite
<1>2. Uses(c) = h + m
  BY <1>1 DEF Uses
<1>3. h + m \in Nat /\ h + m <= 2 * n /\ (h + m = 0 <=> h = 0 /\ m = 0)
  BY <1>1
<1>4. (h = 0 <=> Handles(c) = {}) /\ (m = 0 <=> Coming(c) = {})
  BY <1>1, HandlesFinite
<1> QED BY <1>1, <1>2, <1>3, <1>4

LEMMA InCache ==
  ASSUME NEW c
  PROVE  c \in Cached <=> \E t \in Threads : \E i \in DOMAIN cache[t] : cache[t][i] = c
BY DEF Cached, Range

LEMMA FrontOf ==
  ASSUME NEW S, NEW s \in Seq(S), s # << >>
  PROVE  /\ Len(s) \in Nat \ {0} /\ DOMAIN s = 1 .. Len(s) /\ Last(s) \in S
         /\ Front(s) \in Seq(S) /\ Len(Front(s)) = Len(s) - 1 /\ DOMAIN Front(s) = 1 .. Len(s) - 1
         /\ \A i \in 1 .. Len(s) - 1 : Front(s)[i] = s[i]
<1>1. Len(s) \in Nat \ {0} /\ DOMAIN s = 1 .. Len(s) /\ \A i \in 1 .. Len(s) : s[i] \in S
  BY EmptySeq, LenProperties, ElementOfSeq
<1>2. Last(s) \in S
  BY <1>1 DEF Last
<1>3. /\ Front(s) \in Seq(S) /\ Len(Front(s)) = Len(s) - 1
      /\ \A i \in 1 .. Len(s) - 1 : Front(s)[i] = s[i]
  BY <1>1, SubSeqProperties DEF Front
<1>4. DOMAIN Front(s) = 1 .. Len(s) - 1
  BY <1>3, LenProperties
<1> QED BY <1>1, <1>2, <1>3, <1>4

(* A variable gets a handle or loses its own; =copy begins and ends.       *)
LEMMA HandleAdded ==
  ASSUME TypeOK, NEW v \in Vars, NEW c \in Chans, d[v] = Nil, d' = [d EXCEPT ![v] = c]
  PROVE  /\ Handles(c)' = Handles(c) \union {v} /\ v \notin Handles(c)
         /\ Cardinality(Handles(c)') = Cardinality(Handles(c)) + 1
         /\ \A e \in Chans \ {c} : Handles(e)' = Handles(e)
<1>1. c # Nil
  BY LifetimeAssumption
<1>2. Handles(c)' = Handles(c) \union {v} /\ v \notin Handles(c)
  BY <1>1 DEF Handles, TypeOK
<1>3. \A e \in Chans \ {c} : Handles(e)' = Handles(e)
  BY LifetimeAssumption DEF Handles, TypeOK
<1>4. Cardinality(Handles(c) \union {v}) = Cardinality(Handles(c)) + 1
  BY <1>2, HandlesFinite, FS_AddElement
<1> QED BY <1>2, <1>3, <1>4

LEMMA HandleRemoved ==
  ASSUME TypeOK, NEW v \in Vars, NEW c \in Chans, d[v] = c, d' = [d EXCEPT ![v] = Nil]
  PROVE  /\ Handles(c)' = Handles(c) \ {v} /\ v \in Handles(c)
         /\ Cardinality(Handles(c)') = Cardinality(Handles(c)) - 1
         /\ \A e \in Chans \ {c} : Handles(e)' = Handles(e)
<1>1. c # Nil
  BY LifetimeAssumption
<1>2. Handles(c)' = Handles(c) \ {v} /\ v \in Handles(c)
  BY <1>1 DEF Handles, TypeOK
<1>3. \A e \in Chans \ {c} : Handles(e)' = Handles(e)
  BY LifetimeAssumption DEF Handles, TypeOK
<1>4. Cardinality(Handles(c) \ {v}) = Cardinality(Handles(c)) - 1
  BY <1>2, HandlesFinite, FS_RemoveElement
<1> QED BY <1>2, <1>3, <1>4

LEMMA ComingAdded ==
  ASSUME TypeOK, NEW v \in Vars, NEW c \in Chans, next[v] = Nil, next' = [next EXCEPT ![v] = c]
  PROVE  /\ Coming(c)' = Coming(c) \union {v} /\ v \notin Coming(c)
         /\ Cardinality(Coming(c)') = Cardinality(Coming(c)) + 1
         /\ \A e \in Chans \ {c} : Coming(e)' = Coming(e)
<1>1. c # Nil
  BY LifetimeAssumption
<1>2. Coming(c)' = Coming(c) \union {v} /\ v \notin Coming(c)
  BY <1>1 DEF Coming, TypeOK
<1>3. \A e \in Chans \ {c} : Coming(e)' = Coming(e)
  BY LifetimeAssumption DEF Coming, TypeOK
<1>4. Cardinality(Coming(c) \union {v}) = Cardinality(Coming(c)) + 1
  BY <1>2, HandlesFinite, FS_AddElement
<1> QED BY <1>2, <1>3, <1>4

LEMMA ComingRemoved ==
  ASSUME TypeOK, NEW v \in Vars, NEW c \in Chans, next[v] = c, next' = [next EXCEPT ![v] = Nil]
  PROVE  /\ Coming(c)' = Coming(c) \ {v} /\ v \in Coming(c)
         /\ Cardinality(Coming(c)') = Cardinality(Coming(c)) - 1
         /\ \A e \in Chans \ {c} : Coming(e)' = Coming(e)
<1>1. c # Nil
  BY LifetimeAssumption
<1>2. Coming(c)' = Coming(c) \ {v} /\ v \in Coming(c)
  BY <1>1 DEF Coming, TypeOK
<1>3. \A e \in Chans \ {c} : Coming(e)' = Coming(e)
  BY LifetimeAssumption DEF Coming, TypeOK
<1>4. Cardinality(Coming(c) \ {v}) = Cardinality(Coming(c)) - 1
  BY <1>2, HandlesFinite, FS_RemoveElement
<1> QED BY <1>2, <1>3, <1>4

(* No variable refers to a cached or a free channel, or is going to.       *)
LEMMA Unused ==
  ASSUME IInv, NEW c \in Chans, c \in Cached \/ c \notin allocated
  PROVE  Handles(c) = {} /\ Coming(c) = {} /\ Uses(c) = 0
<1>1. Handles(c) = {} /\ Coming(c) = {}
  BY LifetimeAssumption DEF Handles, Coming, IInv, NoDanglingHandle, Copying
<1> QED BY <1>1, UsesFact

LEMMA OneUseMore ==
  ASSUME NEW c, NEW h, NEW m,
         \/ h = Cardinality(Handles(c)) + 1 /\ m = Cardinality(Coming(c))
         \/ h = Cardinality(Handles(c)) /\ m = Cardinality(Coming(c)) + 1
  PROVE  h + m = Uses(c) + 1
<1>1. PICK x \in Nat, y \in Nat : x = Cardinality(Handles(c)) /\ y = Cardinality(Coming(c))
  BY HandlesFinite
<1> QED BY <1>1 DEF Uses

(* What a step that touches one channel's counter does to Counted.         *)
LEMMA OneCounted ==
  ASSUME IInv, NEW c \in Chans, NEW n, counter' = [counter EXCEPT ![c] = n],
         Uses(c)' # 0 => n = Uses(c)' - 1, \A e \in Chans \ {c} : Uses(e)' = Uses(e)
  PROVE  Counted'
BY DEF IInv, TypeOK, Counted

(* Nobody else is at work with the variables of a thread.                  *)
LEMMA OthersElsewhere ==
  ASSUME IInv, NEW t \in Threads, NEW v \in Mine(t), NEW u \in Threads, u # t, pc[u] # "idle"
  PROVE  arg[u] \in Mine(u) /\ arg[u] \in Vars /\ arg[u] # v
BY DEF IInv, Destroying, Mine

(* The threads that are about to free a channel other than c stay so.      *)
LEMMA StillLast ==
  ASSUME IInv, NEW c \in Chans,
         \A e \in Chans \ {c} : Handles(e)' = Handles(e) /\ Coming(e)' = Coming(e),
         \A u \in Threads : pc'[u] = "free" =>
           /\ pc[u] = "free" /\ arg'[u] = arg[u] /\ arg[u] \in Vars
           /\ d'[arg[u]] = d[arg[u]] /\ d[arg[u]] # c
  PROVE  LastHandle'
<1> SUFFICES ASSUME NEW u \in Threads, pc'[u] = "free"
             PROVE  Handles(d[arg[u]])' = {arg[u]}' /\ Coming(d[arg[u]])' = {}
  BY DEF LastHandle
<1>1. /\ pc[u] = "free" /\ arg'[u] = arg[u] /\ d'[arg'[u]] = d[arg[u]] /\ d[arg[u]] # c
      /\ arg[u] \in Vars /\ d[arg[u]] # Nil
  BY DEF IInv, Destroying
<1>2. PICK e \in Chans \ {c} : e = d[arg[u]] /\ e = d'[arg'[u]]
  BY <1>1 DEF IInv, TypeOK
<1>3. Handles(e) = {arg[u]} /\ Coming(e) = {} /\ Handles(e)' = Handles(e) /\ Coming(e)' = Coming(e)
  BY <1>1, <1>2 DEF IInv, LastHandle
<1>4. Handles(d[arg[u]])' = Handles(e)' /\ Coming(d[arg[u]])' = Coming(e)'
  BY <1>2 DEF Handles, Coming
<1> QED BY <1>1, <1>3, <1>4

-----------------------------------------------------------------------------
(* The invariant holds initially and is kept by every action.              *)

LEMMA LifetimeInit == Init => IInv
<1> SUFFICES ASSUME Init PROVE IInv
  OBVIOUS
<1>1. \A c \in Chans : Uses(c) = 0
  <2>1. \A c \in Chans : Handles(c) = {} /\ Coming(c) = {}
    BY LifetimeAssumption DEF Init, Handles, Coming
  <2> QED BY <2>1, UsesFact
<1>2. TypeOK
  <2>1. Cardinality(Vars) \in Nat
    BY LifetimeAssumption, FS_CardinalityType
  <2>2. \A t \in Threads : cache[t] = << >> /\ << >> \in Seq(Chans) /\ Len(<< >>) <= CacheSize
    BY LifetimeAssumption DEF Init
  <2> QED BY <2>1, <2>2, LifetimeAssumption DEF Init, TypeOK
<1>3. Cached = {}
  BY DEF Cached, Range, Init
<1>4. CachesDisjoint
  BY <1>3 DEF CachesDisjoint, Init
<1> QED BY <1>1, <1>2, <1>4
        DEF Init, IInv, NoDanglingHandle, Counted, CachedAtZero, Destroying, LastHandle, Copying

LEMMA NewCachedKeeps ==
  ASSUME IInv, NEW t \in Threads, NEW v \in Vars, NewCached(t, v) PROVE IInv'
<1>0. PICK n, c : n = Len(cache[t]) /\ c = cache[t][n]
  OBVIOUS
<1>1. cache[t] \in Seq(Chans) /\ cache[t] # << >> /\ n <= CacheSize
  BY <1>0 DEF IInv, TypeOK, NewCached
<1>2. /\ n \in Nat \ {0} /\ DOMAIN cache[t] = 1 .. n /\ c \in Chans /\ n \in DOMAIN cache[t]
      /\ Front(cache[t]) \in Seq(Chans) /\ Len(Front(cache[t])) = n - 1
      /\ DOMAIN Front(cache[t]) = 1 .. n - 1 /\ Last(cache[t]) = c
      /\ \A i \in 1 .. n - 1 : Front(cache[t])[i] = cache[t][i]
  <2>1. /\ Len(cache[t]) \in Nat \ {0} /\ DOMAIN cache[t] = 1 .. Len(cache[t])
        /\ Last(cache[t]) \in Chans /\ Front(cache[t]) \in Seq(Chans)
        /\ Len(Front(cache[t])) = Len(cache[t]) - 1
        /\ DOMAIN Front(cache[t]) = 1 .. Len(cache[t]) - 1
        /\ \A i \in 1 .. Len(cache[t]) - 1 : Front(cache[t])[i] = cache[t][i]
    BY <1>1, FrontOf
  <2>2. Last(cache[t]) = c
    BY <1>0 DEF Last
  <2> QED BY <1>0, <2>1, <2>2
<1>3. c \in Cached /\ c \in allocated /\ counter[c] = 0
  <2>1. c \in Cached
    BY <1>0, <1>2, InCache
  <2> QED BY <1>0, <1>2, <2>1 DEF IInv, CachesDisjoint, CachedAtZero
<1>4. /\ d' = [d EXCEPT ![v] = c] /\ v \in Mine(t) /\ pc[t] = "idle" /\ d[v] = Nil
      /\ cache' = [cache EXCEPT ![t] = Front(cache[t])]
      /\ UNCHANGED <<counter, allocated, hasCache, pc, arg, next>>
  BY <1>2 DEF NewCached, Free, Busy
<1>5. /\ cache'[t] = Front(cache[t]) /\ \A u \in Threads \ {t} : cache'[u] = cache[u]
      /\ cache' \in [Threads -> Seq(Chans)]
  BY <1>2, <1>4 DEF IInv, TypeOK
<1>6. TypeOK'
  <2>1. \A u \in Threads : Len(cache'[u]) <= CacheSize
    <3>1. Len(cache'[t]) <= CacheSize
      BY <1>1, <1>2, <1>5, LifetimeAssumption
    <3> QED BY <1>5, <3>1 DEF IInv, TypeOK
  <2>2. d' \in [Vars -> Chans \union {Nil}]
    BY <1>2, <1>4 DEF IInv, TypeOK
  <2> QED BY <1>4, <1>5, <2>1, <2>2 DEF IInv, TypeOK
<1>7. \A u \in Threads : \A i \in DOMAIN cache'[u] :
        /\ i \in DOMAIN cache[u] /\ cache'[u][i] = cache[u][i]
        /\ ~(u = t /\ i = n)
  <2>1. \A i \in DOMAIN cache'[t] : /\ i \in DOMAIN cache[t] /\ i # n
                                   /\ cache'[t][i] = cache[t][i]
    <3>1. \A i \in 1 .. n - 1 : i \in 1 .. n /\ i # n
      BY <1>2
    <3> QED BY <1>2, <1>5, <3>1
  <2>2. \A u \in Threads \ {t} : cache'[u] = cache[u]
    BY <1>5
  <2> QED BY <2>1, <2>2
<1>8. CachesDisjoint' /\ Cached' \subseteq Cached /\ c \notin Cached'
  <2>1. ASSUME NEW e, e \in Cached' PROVE e \in Cached /\ e # c
    <3>1. PICK u \in Threads : \E i \in DOMAIN cache'[u] : cache'[u][i] = e
      BY <2>1 DEF Cached, Range
    <3>2. PICK i \in DOMAIN cache'[u] : cache'[u][i] = e
      BY <3>1
    <3>3. e = cache[u][i] /\ i \in DOMAIN cache[u] /\ ~(u = t /\ i = n)
      BY <1>7, <3>2
    <3> QED BY <1>0, <1>2, <3>3, InCache DEF IInv, CachesDisjoint
  <2>2. CachesDisjoint'
    BY <1>4, <1>7, <2>1 DEF IInv, CachesDisjoint
  <2> QED BY <2>1, <2>2
<1>9. Uses(c) = 0 /\ Handles(c) = {} /\ Coming(c) = {}
  BY <1>2, <1>3, Unused
<1>91. \A e \in Chans : Coming(e)' = Coming(e)
  BY <1>4 DEF Coming
<1>92. /\ Cardinality(Handles(c)') = Cardinality(Handles(c)) + 1
       /\ \A e \in Chans \ {c} : Handles(e)' = Handles(e)
  BY <1>2, <1>4, HandleAdded DEF IInv
<1>10. Counted'
  <2>1. Uses(c)' = 1
    <3>1. Coming(c)' = {} /\ Cardinality(Coming(c)') = 0
      BY <1>2, <1>9, <1>91, FS_EmptySet
    <3>2. Cardinality(Handles(c)') = 1
      BY <1>9, <1>92, FS_EmptySet
    <3> QED BY <3>1, <3>2 DEF Uses
  <2>2. \A e \in Chans \ {c} : Uses(e)' = Uses(e)
    BY <1>91, <1>92 DEF Uses
  <2> QED BY <1>3, <1>4, <2>1, <2>2 DEF IInv, Counted
<1>11. CachedAtZero'
  BY <1>4, <1>7 DEF IInv, CachedAtZero
<1>12. NoDanglingHandle'
  BY <1>3, <1>4, <1>8 DEF IInv, TypeOK, NoDanglingHandle
<1>13. ASSUME NEW u \in Threads, pc[u] # "idle"
       PROVE  /\ arg[u] \in Mine(u) /\ arg[u] \in Vars /\ arg[u] # v
              /\ d'[arg[u]] = d[arg[u]] /\ d[arg[u]] # c
  <2>1. arg[u] \in Mine(u) /\ arg[u] \in Vars /\ arg[u] # v
    BY <1>4, <1>13, OthersElsewhere
  <2> QED BY <1>4, <1>9, <2>1 DEF IInv, TypeOK, Handles
<1>14. Destroying'
  BY <1>4, <1>13 DEF IInv, Destroying, Mine
<1>15. LastHandle'
  BY <1>2, <1>4, <1>13, <1>91, <1>92, StillLast
<1>16. Copying'
  BY <1>4, <1>8 DEF IInv, Copying
<1> QED BY <1>6, <1>8, <1>10, <1>11, <1>12, <1>14, <1>15, <1>16 DEF IInv

LEMMA NewFreshKeeps ==
  ASSUME IInv, NEW t \in Threads, NEW v \in Vars, NewFresh(t, v) PROVE IInv'
<1>1. PICK c \in Chans \ allocated :
        /\ d' = [d EXCEPT ![v] = c] /\ allocated' = allocated \union {c}
        /\ counter' = [counter EXCEPT ![c] = 0]
  BY DEF NewFresh
<1>2. v \in Mine(t) /\ pc[t] = "idle" /\ d[v] = Nil /\ UNCHANGED <<cache, pc, arg, next>>
  BY DEF NewFresh, Free, Busy
<1>3. c \notin Cached /\ Cached' = Cached /\ Uses(c) = 0 /\ Handles(c) = {} /\ Coming(c) = {}
  BY <1>1, <1>2, Unused DEF IInv, CachesDisjoint, Cached
<1>31. \A e \in Chans : Coming(e)' = Coming(e)
  BY <1>2 DEF Coming
<1>32. /\ Cardinality(Handles(c)') = Cardinality(Handles(c)) + 1
       /\ \A e \in Chans \ {c} : Handles(e)' = Handles(e)
  BY <1>1, <1>2, HandleAdded DEF IInv
<1>4. Uses(c)' = 1 /\ \A e \in Chans \ {c} : Uses(e)' = Uses(e)
  <2>1. Coming(c)' = {} /\ Cardinality(Coming(c)') = 0
    BY <1>3, <1>31, FS_EmptySet
  <2>2. Cardinality(Handles(c)') = 1
    BY <1>3, <1>32, FS_EmptySet
  <2> QED BY <1>31, <1>32, <2>1, <2>2 DEF Uses
<1>5. TypeOK'
  <2>1. Cardinality(Vars) \in Nat
    BY LifetimeAssumption, FS_CardinalityType
  <2>2. hasCache' \subseteq Threads
    BY DEF NewFresh, IInv, TypeOK
  <2> QED BY <1>1, <1>2, <2>1, <2>2 DEF IInv, TypeOK
<1>6. Counted'
  <2>1. Uses(c)' # 0 => 0 = Uses(c)' - 1
    BY <1>4
  <2> QED BY <1>1, <1>4, <2>1, OneCounted
<1>7. \A u \in Threads : \A i \in DOMAIN cache[u] : cache[u][i] # c /\ cache[u][i] \in Chans
  BY <1>3, InCache DEF IInv, TypeOK, CachesDisjoint
<1>8. CachedAtZero'
  BY <1>1, <1>2, <1>7 DEF IInv, TypeOK, CachedAtZero
<1>9. CachesDisjoint'
  BY <1>1, <1>2, <1>3 DEF IInv, CachesDisjoint
<1>10. NoDanglingHandle'
  BY <1>1, <1>3 DEF IInv, TypeOK, NoDanglingHandle
<1>11. ASSUME NEW u \in Threads, pc[u] # "idle"
       PROVE  /\ arg[u] \in Mine(u) /\ arg[u] \in Vars /\ arg[u] # v
              /\ d'[arg[u]] = d[arg[u]] /\ d[arg[u]] # c
  <2>1. arg[u] \in Mine(u) /\ arg[u] \in Vars /\ arg[u] # v
    BY <1>2, <1>11, OthersElsewhere
  <2> QED BY <1>1, <1>3, <2>1 DEF IInv, TypeOK, Handles
<1>12. Destroying'
  BY <1>2, <1>11 DEF IInv, Destroying, Mine
<1>13. LastHandle'
  BY <1>2, <1>11, <1>31, <1>32, StillLast
<1>14. Copying'
  BY <1>1, <1>2, <1>3 DEF IInv, Copying
<1> QED BY <1>5, <1>6, <1>8, <1>9, <1>10, <1>12, <1>13, <1>14 DEF IInv

LEMMA CopyKeeps ==
  ASSUME IInv, NEW t \in Threads, NEW s \in Vars, NEW v \in Vars, Copy(t, s, v) PROVE IInv'
<1>1. PICK c \in Chans : c = d[s] /\ s \in Mine(t)
  BY DEF Copy, IInv, TypeOK
<1>2. /\ d[v] = Nil /\ d' = [d EXCEPT ![v] = c] /\ counter' = [counter EXCEPT ![c] = @ + 1]
      /\ pc[t] = "idle" /\ UNCHANGED <<allocated, hasCache, cache, pc, arg, next>>
      /\ \A u \in Threads : pc[u] # "idle" => arg[u] # v
  BY <1>1 DEF Copy, Busy
<1>3. s \in Handles(c) /\ c \in allocated /\ c \notin Cached /\ Cached' = Cached
  BY <1>1, <1>2, LifetimeAssumption DEF Handles, IInv, NoDanglingHandle, Cached
<1>31. \A e \in Chans : Coming(e)' = Coming(e)
  BY <1>2 DEF Coming
<1>4. /\ Cardinality(Handles(c)') = Cardinality(Handles(c)) + 1
      /\ \A e \in Chans \ {c} : Handles(e)' = Handles(e)
  BY <1>1, <1>2, HandleAdded DEF IInv
<1>41. Uses(c)' = Uses(c) + 1 /\ \A e \in Chans \ {c} : Uses(e)' = Uses(e)
  BY <1>31, <1>4, OneUseMore DEF Uses
<1>5. counter[c] = Uses(c) - 1
  BY <1>3, UsesFact DEF IInv, Counted
<1>6. TypeOK'
  <2>1. counter[c] + 1 \in -1 .. 2 * Cardinality(Vars)
    BY <1>5, UsesFact
  <2> QED BY <1>1, <1>2, <2>1 DEF IInv, TypeOK
<1>7. Counted'
  <2>1. PICK n \in Nat : n = Uses(c)
    BY UsesFact
  <2>2. counter[c] + 1 = Uses(c)' - 1
    BY <1>41, <1>5, <2>1
  <2>3. counter' = [counter EXCEPT ![c] = counter[c] + 1]
    BY <1>2
  <2> QED BY <1>41, <2>2, <2>3, OneCounted
<1>8. \A u \in Threads : \A i \in DOMAIN cache[u] : cache[u][i] # c /\ cache[u][i] \in Chans
  BY <1>3, InCache DEF IInv, TypeOK, CachesDisjoint
<1>9. CachedAtZero'
  BY <1>2, <1>8 DEF IInv, TypeOK, CachedAtZero
<1>10. CachesDisjoint'
  BY <1>2, <1>3 DEF IInv, CachesDisjoint
<1>11. NoDanglingHandle'
  BY <1>2, <1>3 DEF IInv, TypeOK, NoDanglingHandle
<1>12. ASSUME NEW u \in Threads, pc[u] # "idle"
       PROVE  /\ arg[u] \in Mine(u) /\ arg[u] \in Vars /\ arg[u] # v
              /\ d'[arg[u]] = d[arg[u]]
  BY <1>2, <1>12 DEF IInv, TypeOK, Destroying, Mine
<1>13. Destroying'
  BY <1>2, <1>12 DEF IInv, Destroying, Mine
<1>14. LastHandle'
  <2>1. ASSUME NEW u \in Threads, pc'[u] = "free" PROVE d[arg[u]] # c /\ pc[u] = "free"
    <3>1. u # t /\ pc[u] = "free"
      BY <1>2, <2>1
    <3>2. arg[u] # s
      BY <1>1, <3>1, OthersElsewhere
    <3> QED BY <1>1, <1>3, <3>1, <3>2 DEF IInv, LastHandle
  <2> QED BY <1>2, <1>4, <1>12, <1>31, <2>1, StillLast
<1>15. Copying'
  BY <1>2, <1>3 DEF IInv, Copying
<1> QED BY <1>6, <1>7, <1>9, <1>10, <1>11, <1>13, <1>14, <1>15 DEF IInv

LEMMA CopyOverKeeps ==
  ASSUME IInv, NEW t \in Threads, NEW s \in Vars, NEW v \in Vars, CopyOver(t, s, v) PROVE IInv'
<1>1. PICK c \in Chans : c = d[s]
  BY DEF CopyOver, IInv, TypeOK
<1>2. /\ next' = [next EXCEPT ![v] = c] /\ counter' = [counter EXCEPT ![c] = @ + 1]
      /\ pc[t] = "idle" /\ pc' = [pc EXCEPT ![t] = "copy"] /\ arg' = [arg EXCEPT ![t] = v]
      /\ UNCHANGED <<d, allocated, hasCache, cache>>
      /\ s \in Mine(t) /\ v \in Mine(t) /\ d[v] # Nil
  BY <1>1 DEF CopyOver, Busy
<1>3. s \in Handles(c) /\ c \in allocated /\ c \notin Cached /\ Cached' = Cached
  BY <1>1, <1>2, LifetimeAssumption DEF Handles, IInv, NoDanglingHandle, Cached
<1>4. next[v] = Nil
  BY <1>2 DEF IInv, Copying, Mine
<1>5. \A e \in Chans : Handles(e)' = Handles(e)
  BY <1>2 DEF Handles
<1>6. /\ Cardinality(Coming(c)') = Cardinality(Coming(c)) + 1
      /\ \A e \in Chans \ {c} : Coming(e)' = Coming(e)
  BY <1>2, <1>4, ComingAdded DEF IInv
<1>7. Uses(c)' = Uses(c) + 1 /\ \A e \in Chans \ {c} : Uses(e)' = Uses(e)
  BY <1>5, <1>6, OneUseMore DEF Uses
<1>8. counter[c] = Uses(c) - 1
  BY <1>3, UsesFact DEF IInv, Counted
<1>9. TypeOK'
  <2>1. counter[c] + 1 \in -1 .. 2 * Cardinality(Vars)
    BY <1>8, UsesFact
  <2> QED BY <1>1, <1>2, <2>1 DEF IInv, TypeOK
<1>10. Counted'
  <2>1. PICK n \in Nat : n = Uses(c)
    BY UsesFact
  <2>2. counter[c] + 1 = Uses(c)' - 1
    BY <1>7, <1>8, <2>1
  <2>3. counter' = [counter EXCEPT ![c] = counter[c] + 1]
    BY <1>2
  <2> QED BY <1>7, <2>2, <2>3, OneCounted
<1>11. CachedAtZero'
  <2>1. \A u \in Threads : \A i \in DOMAIN cache[u] : cache[u][i] # c /\ cache[u][i] \in Chans
    BY <1>3, InCache DEF IInv, TypeOK, CachesDisjoint
  <2> QED BY <1>2, <2>1 DEF IInv, TypeOK, CachedAtZero
<1>12. CachesDisjoint' /\ NoDanglingHandle'
  BY <1>2, <1>3 DEF IInv, CachesDisjoint, NoDanglingHandle
<1>13. Destroying'
  BY <1>2 DEF IInv, TypeOK, Destroying, Mine
<1>14. LastHandle'
  <2>1. ASSUME NEW u \in Threads, pc'[u] = "free"
        PROVE  /\ pc[u] = "free" /\ arg'[u] = arg[u] /\ arg[u] \in Vars
               /\ d'[arg[u]] = d[arg[u]] /\ d[arg[u]] # c
    <3>1. u # t /\ pc[u] = "free" /\ arg'[u] = arg[u]
      BY <1>2, <2>1 DEF IInv, TypeOK
    <3>2. arg[u] # s /\ arg[u] \in Vars
      BY <1>2, <3>1, OthersElsewhere
    <3> QED BY <1>1, <1>2, <1>3, <3>1, <3>2 DEF IInv, LastHandle
  <2> QED BY <1>5, <1>6, <2>1, StillLast
<1>15. Copying'
  <2>1. Owner[v] = t
    BY <1>2 DEF Mine
  <2>2. ASSUME NEW w \in Vars, next'[w] # Nil
        PROVE  next'[w] \in allocated \ Cached /\ pc'[Owner[w]] # "idle" /\ arg'[Owner[w]] = w
    <3>1. CASE w = v
      BY <1>2, <1>3, <2>1, <3>1 DEF IInv, TypeOK
    <3>2. CASE w # v
      <4>1. next[w] # Nil /\ next'[w] = next[w]
        BY <1>2, <2>2, <3>2 DEF IInv, TypeOK
      <4>2. Owner[w] # t
        BY <1>2, <4>1 DEF IInv, Copying
      <4> QED BY <1>2, <4>1, <4>2 DEF IInv, TypeOK, Copying
    <3> QED BY <3>1, <3>2
  <2> QED BY <1>2, <1>3, <2>2 DEF Copying
<1> QED BY <1>9, <1>10, <1>11, <1>12, <1>13, <1>14, <1>15 DEF IInv

LEMMA DestroyLoadKeeps ==
  ASSUME IInv, NEW t \in Threads, NEW v \in Vars, DestroyLoad(t, v) PROVE IInv'
<1>1. v \in Mine(t) /\ d[v] # Nil /\ (pc[t] = "idle" \/ (pc[t] = "copy" /\ arg[t] = v))
  BY DEF DestroyLoad, IInv, Destroying, Busy
<1>2. PICK c \in Chans : c = d[v] /\ v \in Handles(c)
  BY <1>1 DEF IInv, TypeOK, Handles
<1>3. /\ pc' = [pc EXCEPT ![t] = IF counter[c] = 0 THEN "free" ELSE "dec"]
      /\ arg' = [arg EXCEPT ![t] = v]
      /\ UNCHANGED <<d, counter, allocated, hasCache, cache, next>>
  BY <1>2 DEF DestroyLoad, mem
<1>4. TypeOK'
  BY <1>3 DEF IInv, TypeOK
<1>5. NoDanglingHandle' /\ CachesDisjoint' /\ Counted' /\ CachedAtZero'
  BY <1>3
  DEF IInv, NoDanglingHandle, CachesDisjoint, Cached, Counted, CachedAtZero, Uses, Handles, Coming
<1>6. Destroying'
  BY <1>1, <1>3 DEF IInv, TypeOK, Destroying, Mine
<1>7. LastHandle'
  <2>1. ASSUME counter[c] = 0 PROVE Handles(c) = {v} /\ Coming(c) = {}
    <3>1. PICK h \in Nat, m \in Nat : h = Cardinality(Handles(c)) /\ m = Cardinality(Coming(c))
      BY HandlesFinite
    <3>2. h # 0
      BY <1>2, <3>1, HandlesFinite
    <3>3. h + m # 0 /\ h + m - 1 = 0
      BY <2>1, <3>1, <3>2 DEF IInv, Counted, Uses
    <3>4. h = 1 /\ m = 0
      BY <3>2, <3>3
    <3>5. PICK w : Handles(c) = {w}
      BY <3>1, <3>4, HandlesFinite, FS_Singleton
    <3> QED BY <1>2, <3>1, <3>4, <3>5, HandlesFinite
  <2>2. ASSUME NEW u \in Threads, pc'[u] = "free"
        PROVE  Handles(d'[arg'[u]]) = {arg'[u]} /\ Coming(d'[arg'[u]]) = {}
    <3>1. CASE u = t
      BY <1>2, <1>3, <2>1, <2>2, <3>1 DEF IInv, TypeOK
    <3>2. CASE u # t
      BY <1>3, <2>2, <3>2 DEF IInv, TypeOK, LastHandle
    <3> QED BY <3>1, <3>2
  <2> QED BY <1>3, <2>2 DEF LastHandle, Handles, Coming
<1>8. Copying'
  <2>1. \A w \in Vars : Owner[w] = t /\ next[w] # Nil => w = v
    BY <1>1 DEF IInv, Copying
  <2>2. Cached' = Cached
    BY <1>3 DEF Cached
  <2> QED BY <1>1, <1>3, <2>1, <2>2 DEF IInv, TypeOK, Copying, Mine
<1> QED BY <1>4, <1>5, <1>6, <1>7, <1>8 DEF IInv

(* What the end of =destroy does, whether it frees the channel or not.     *)
LEMMA DestroyedDoes ==
  ASSUME IInv, NEW t \in Threads, pc[t] \in {"dec", "free"}, Destroyed(t),
         NEW v \in Vars, v = arg[t]
  PROVE  /\ Destroying'
         /\ \A u \in Threads : pc'[u] = "free" =>
              /\ pc[u] = "free" /\ u # t /\ arg'[u] = arg[u] /\ arg[u] \in Vars
              /\ arg[u] # v /\ d'[arg[u]] = d[arg[u]]
         /\ \A w \in Vars : next'[w] # Nil =>
              next'[w] = next[w] /\ pc'[Owner[w]] # "idle" /\ arg'[Owner[w]] = w
         /\ \A e \in Chans : Coming(e)' = Coming(e)
<1>1. /\ d' = [d EXCEPT ![v] = Nil] /\ arg' = arg /\ next' = next
      /\ pc' = [pc EXCEPT ![t] = IF next[v] = Nil THEN "idle" ELSE "assign"]
      /\ v \in Mine(t)
  BY DEF Destroyed, IInv, Destroying
<1>2. ASSUME NEW u \in Threads, u # t, pc'[u] # "idle"
      PROVE  /\ pc[u] = pc'[u] /\ arg[u] \in Mine(u) /\ arg[u] \in Vars /\ arg[u] # v
             /\ d'[arg[u]] = d[arg[u]]
  <2>1. pc[u] = pc'[u]
    BY <1>1, <1>2 DEF IInv, TypeOK
  <2>2. arg[u] \in Mine(u) /\ arg[u] \in Vars /\ arg[u] # v
    BY <1>1, <1>2, <2>1, OthersElsewhere
  <2> QED BY <1>1, <2>1, <2>2 DEF IInv, TypeOK
<1>3. pc'[t] = IF next[v] = Nil THEN "idle" ELSE "assign"
  BY <1>1 DEF IInv, TypeOK
<1>4. Destroying'
  <2>1. ASSUME NEW u \in Threads
        PROVE  /\ pc'[u] # "idle" => arg'[u] \in Mine(u)
               /\ pc'[u] \in {"copy", "dec", "free"} => d'[arg'[u]] # Nil
               /\ pc'[u] = "assign" => d'[arg'[u]] = Nil /\ next'[arg'[u]] # Nil
    <3>1. CASE u = t
      BY <1>1, <1>3, <3>1 DEF IInv, TypeOK
    <3>2. CASE u # t
      BY <1>1, <1>2, <3>2 DEF IInv, Destroying
    <3> QED BY <3>1, <3>2
  <2> QED BY <2>1 DEF Destroying, Mine
<1>5. ASSUME NEW w \in Vars, next'[w] # Nil
      PROVE  next'[w] = next[w] /\ pc'[Owner[w]] # "idle" /\ arg'[Owner[w]] = w
  <2>1. next[w] # Nil /\ pc[Owner[w]] # "idle" /\ arg[Owner[w]] = w /\ Owner[w] \in Threads
    BY <1>1, <1>5, LifetimeAssumption DEF IInv, Copying
  <2>2. CASE Owner[w] = t
    BY <1>1, <1>3, <2>1, <2>2
  <2>3. CASE Owner[w] # t
    BY <1>1, <2>1, <2>3 DEF IInv, TypeOK
  <2> QED BY <1>1, <2>2, <2>3
<1>6. \A e \in Chans : Coming(e)' = Coming(e)
  BY <1>1 DEF Coming
<1> QED BY <1>1, <1>2, <1>3, <1>4, <1>5, <1>6

LEMMA DestroyDecKeeps ==
  ASSUME IInv, NEW t \in Threads, DestroyDec(t) PROVE IInv'
<1>1. PICK v \in Vars, c \in Chans : v = arg[t] /\ c = d[v] /\ c # Nil
  BY LifetimeAssumption DEF DestroyDec, IInv, TypeOK, Destroying
<1>2. /\ pc[t] = "dec" /\ Destroyed(t) /\ d' = [d EXCEPT ![v] = Nil]
      /\ pc' = [pc EXCEPT ![t] = IF next[v] = Nil THEN "idle" ELSE "assign"]
      /\ counter' = [counter EXCEPT ![c] = @ - 1]
      /\ UNCHANGED <<allocated, hasCache, cache, arg, next>>
  BY <1>1 DEF DestroyDec, Destroyed
<1>3. /\ v \in Handles(c) /\ Cardinality(Handles(c)') = Cardinality(Handles(c)) - 1
      /\ \A e \in Chans \ {c} : Handles(e)' = Handles(e)
  BY <1>1, <1>2, HandleRemoved DEF IInv
<1>4. /\ Destroying'
      /\ \A u \in Threads : pc'[u] = "free" =>
           /\ pc[u] = "free" /\ u # t /\ arg'[u] = arg[u] /\ arg[u] \in Vars
           /\ arg[u] # v /\ d'[arg[u]] = d[arg[u]]
      /\ \A w \in Vars : next'[w] # Nil =>
           next'[w] = next[w] /\ pc'[Owner[w]] # "idle" /\ arg'[Owner[w]] = w
      /\ \A e \in Chans : Coming(e)' = Coming(e)
  BY <1>1, <1>2, DestroyedDoes
<1>5. Uses(c)' = Uses(c) - 1 /\ \A e \in Chans \ {c} : Uses(e)' = Uses(e)
  <2>1. PICK h \in Nat, m \in Nat : h = Cardinality(Handles(c)) /\ m = Cardinality(Coming(c))
    BY HandlesFinite
  <2>2. h - 1 + m = h + m - 1
    BY <2>1
  <2> QED BY <1>3, <1>4, <2>1, <2>2 DEF Uses
<1>6. PICK n \in Nat : n = Uses(c) /\ n # 0 /\ counter[c] = n - 1
  BY <1>3, UsesFact DEF IInv, Counted
<1>7. c \in allocated /\ c \notin Cached /\ Cached' = Cached
  BY <1>1, <1>2 DEF IInv, NoDanglingHandle, Cached
<1>8. TypeOK'
  <2>1. counter[c] - 1 \in -1 .. 2 * Cardinality(Vars)
    BY <1>6, UsesFact
  <2> QED BY <1>1, <1>2, <2>1 DEF IInv, TypeOK
<1>9. Counted'
  BY <1>2, <1>5, <1>6, OneCounted
<1>10. CachedAtZero'
  <2>1. \A u \in Threads : \A i \in DOMAIN cache[u] : cache[u][i] # c /\ cache[u][i] \in Chans
    BY <1>7, InCache DEF IInv, TypeOK, CachesDisjoint
  <2> QED BY <1>2, <2>1 DEF IInv, TypeOK, CachedAtZero
<1>11. CachesDisjoint'
  BY <1>2, <1>7 DEF IInv, CachesDisjoint
<1>12. NoDanglingHandle'
  BY <1>2, <1>7 DEF IInv, TypeOK, NoDanglingHandle
<1>13. LastHandle'
  <2>1. \A u \in Threads : pc'[u] = "free" => d[arg[u]] # c
    BY <1>3, <1>4 DEF IInv, LastHandle
  <2> QED BY <1>3, <1>4, <2>1, StillLast
<1>14. Copying'
  BY <1>2, <1>4, <1>7 DEF IInv, Copying
<1> QED BY <1>4, <1>8, <1>9, <1>10, <1>11, <1>12, <1>13, <1>14 DEF IInv

LEMMA DestroyFreeKeeps ==
  ASSUME IInv, NEW t \in Threads, DestroyFree(t) PROVE IInv'
<1>1. PICK v \in Vars, c \in Chans : v = arg[t] /\ c = d[v] /\ c # Nil
  BY LifetimeAssumption DEF DestroyFree, IInv, TypeOK, Destroying
<1>2. /\ pc[t] = "free" /\ Destroyed(t) /\ d' = [d EXCEPT ![v] = Nil]
      /\ pc' = [pc EXCEPT ![t] = IF next[v] = Nil THEN "idle" ELSE "assign"]
      /\ UNCHANGED <<counter, hasCache, arg, next>>
  BY <1>1 DEF DestroyFree, Destroyed
<1>3. /\ Handles(c) = {v} /\ Handles(c)' = {} /\ Coming(c) = {}
      /\ \A e \in Chans \ {c} : Handles(e)' = Handles(e)
  <2>1. Handles(c) = {v} /\ Coming(c) = {}
    BY <1>1, <1>2 DEF IInv, LastHandle
  <2>2. Handles(c)' = Handles(c) \ {v}
    BY <1>1, <1>2, HandleRemoved DEF IInv
  <2>3. \A e \in Chans \ {c} : Handles(e)' = Handles(e)
    BY <1>1, <1>2, HandleRemoved DEF IInv
  <2> QED BY <2>1, <2>2, <2>3
<1>31. /\ Destroying'
       /\ \A u \in Threads : pc'[u] = "free" =>
            /\ pc[u] = "free" /\ u # t /\ arg'[u] = arg[u] /\ arg[u] \in Vars
            /\ arg[u] # v /\ d'[arg[u]] = d[arg[u]]
       /\ \A w \in Vars : next'[w] # Nil =>
            next'[w] = next[w] /\ pc'[Owner[w]] # "idle" /\ arg'[Owner[w]] = w
       /\ \A e \in Chans : Coming(e)' = Coming(e)
  BY <1>1, <1>2, DestroyedDoes
<1>4. counter[c] = 0
  <2>1. Cardinality({v}) = 1 /\ Cardinality({}) = 0
    BY FS_Singleton, FS_EmptySet
  <2>2. Uses(c) = 1
    BY <1>3, <2>1 DEF Uses
  <2> QED BY <2>2 DEF IInv, Counted
<1>5. c \in allocated /\ c \notin Cached
  BY <1>1 DEF IInv, NoDanglingHandle
<1>6. \A u \in Threads : \A i \in DOMAIN cache[u] :
        cache[u][i] # c /\ cache[u][i] \in Chans /\ cache[u][i] \in allocated
  BY <1>5, InCache DEF IInv, TypeOK, CachesDisjoint
<1>7. Counted'
  <2>1. Uses(c)' = 0
    <3>1. Coming(c)' = {} /\ Cardinality(Coming(c)') = 0 /\ Cardinality(Handles(c)') = 0
      BY <1>3, <1>31, FS_EmptySet
    <3> QED BY <3>1 DEF Uses
  <2>2. \A e \in Chans \ {c} : Uses(e)' = Uses(e)
    BY <1>3, <1>31 DEF Uses
  <2> QED BY <1>2, <2>1, <2>2 DEF IInv, Counted
<1>8. \A w \in Vars : d'[w] # Nil => d'[w] = d[w] /\ d[w] # c
  BY <1>2, <1>3 DEF IInv, TypeOK, Handles
<1>81. \A w \in Vars : next[w] # c
  BY <1>3 DEF Coming
<1>9. TypeOK' /\ Copying' /\ CachedAtZero' /\ CachesDisjoint' /\ NoDanglingHandle'
  <2>1. CASE CacheRoom(t)
    <3>0. PICK n \in Nat : n = Len(cache[t]) /\ n < CacheSize
      BY <2>1, LenProperties DEF CacheRoom, IInv, TypeOK
    <3>1. cache' = [cache EXCEPT ![t] = Append(@, c)] /\ allocated' = allocated
      BY <1>1, <2>1 DEF DestroyFree
    <3>2. /\ cache[t] \in Seq(Chans) /\ cache'[t] = Append(cache[t], c)
          /\ \A u \in Threads \ {t} : cache'[u] = cache[u]
      BY <3>1 DEF IInv, TypeOK
    <3>3. /\ cache'[t] \in Seq(Chans) /\ Len(cache'[t]) = n + 1
          /\ DOMAIN cache'[t] = 1 .. n + 1 /\ DOMAIN cache[t] = 1 .. n
          /\ cache'[t][n + 1] = c /\ \A i \in 1 .. n : cache'[t][i] = cache[t][i]
      BY <3>0, <3>2, LenProperties, AppendProperties
    <3>4. \A u \in Threads : \A i \in DOMAIN cache'[u] :
            \/ i \in DOMAIN cache[u] /\ cache'[u][i] = cache[u][i]
            \/ u = t /\ i = n + 1 /\ cache'[u][i] = c /\ i \notin DOMAIN cache[u]
      BY <3>0, <3>2, <3>3
    <3>5. TypeOK'
      <4>1. \A u \in Threads : Len(cache'[u]) <= CacheSize
        <5>1. Len(cache'[t]) <= CacheSize
          BY <3>0, <3>3, LifetimeAssumption
        <5> QED BY <3>2, <5>1 DEF IInv, TypeOK
      <4>2. cache' \in [Threads -> Seq(Chans)]
        BY <3>1, <3>2, <3>3 DEF IInv, TypeOK
      <4> QED BY <1>2, <3>1, <4>1, <4>2 DEF IInv, TypeOK
    <3>6. CachedAtZero'
      BY <1>2, <1>4, <3>4 DEF IInv, CachedAtZero
    <3>7. ASSUME NEW e, e \in Cached' PROVE e \in Cached \/ e = c
      <4>1. PICK u \in Threads : \E i \in DOMAIN cache'[u] : cache'[u][i] = e
        BY <3>7 DEF Cached, Range
      <4> QED BY <3>4, <4>1, InCache
    <3>8. CachesDisjoint'
      <4>1. Cached' \subseteq allocated'
        BY <1>5, <3>1, <3>7 DEF IInv, CachesDisjoint
      <4>2. ASSUME NEW u \in Threads, NEW w \in Threads,
                   NEW i \in DOMAIN cache'[u], NEW j \in DOMAIN cache'[w],
                   cache'[u][i] = cache'[w][j]
            PROVE  u = w /\ i = j
        BY <1>6, <3>4, <4>2 DEF IInv, CachesDisjoint
      <4> QED BY <4>1, <4>2 DEF CachesDisjoint
    <3>9. NoDanglingHandle'
      BY <1>8, <3>1, <3>7 DEF IInv, NoDanglingHandle
    <3>10. Copying'
      BY <1>2, <1>31, <1>81, <3>1, <3>7 DEF IInv, Copying
    <3> QED BY <3>5, <3>6, <3>8, <3>9, <3>10
  <2>2. CASE ~CacheRoom(t)
    <3>1. allocated' = allocated \ {c} /\ cache' = cache /\ Cached' = Cached
      BY <1>1, <2>2 DEF DestroyFree, Cached
    <3>2. TypeOK'
      BY <1>2, <3>1 DEF IInv, TypeOK
    <3>3. CachedAtZero'
      BY <1>2, <3>1 DEF IInv, CachedAtZero
    <3>4. CachesDisjoint'
      BY <1>5, <3>1 DEF IInv, CachesDisjoint
    <3>5. NoDanglingHandle'
      BY <1>8, <3>1 DEF IInv, NoDanglingHandle
    <3>6. Copying'
      BY <1>2, <1>31, <1>81, <3>1 DEF IInv, Copying
    <3> QED BY <3>2, <3>3, <3>4, <3>5, <3>6
  <2> QED BY <2>1, <2>2
<1>10. LastHandle'
  <2>1. \A u \in Threads : pc'[u] = "free" => d[arg[u]] # c
    BY <1>3, <1>31 DEF IInv, LastHandle
  <2> QED BY <1>3, <1>31, <2>1, StillLast
<1> QED BY <1>31, <1>7, <1>9, <1>10 DEF IInv

LEMMA AssignKeeps ==
  ASSUME IInv, NEW t \in Threads, Assign(t) PROVE IInv'
<1>1. PICK v \in Vars, c \in Chans : v = arg[t] /\ c = next[v]
  BY DEF Assign, IInv, TypeOK, Destroying
<1>2. /\ d' = [d EXCEPT ![v] = c] /\ next' = [next EXCEPT ![v] = Nil]
      /\ pc[t] = "assign" /\ pc' = [pc EXCEPT ![t] = "idle"] /\ UNCHANGED <<mem, arg>>
      /\ d[v] = Nil /\ v \in Mine(t) /\ c # Nil
  BY <1>1 DEF Assign, IInv, Destroying
<1>3. UNCHANGED <<counter, allocated, hasCache, cache, arg>> /\ Cached' = Cached
  BY <1>2 DEF mem, Cached
<1>4. c \in allocated /\ c \notin Cached
  BY <1>1, <1>2 DEF IInv, Copying
<1>5. /\ Cardinality(Handles(c)') = Cardinality(Handles(c)) + 1
      /\ \A e \in Chans \ {c} : Handles(e)' = Handles(e)
  BY <1>2, HandleAdded DEF IInv
<1>6. /\ v \in Coming(c) /\ Cardinality(Coming(c)') = Cardinality(Coming(c)) - 1
      /\ \A e \in Chans \ {c} : Coming(e)' = Coming(e)
  BY <1>1, <1>2, ComingRemoved DEF IInv
<1>7. \A e \in Chans : Uses(e)' = Uses(e)
  <2>1. PICK h \in Nat, m \in Nat : h = Cardinality(Handles(c)) /\ m = Cardinality(Coming(c))
    BY HandlesFinite
  <2>2. h + 1 + (m - 1) = h + m
    BY <2>1
  <2>3. Uses(c)' = Uses(c)
    BY <1>5, <1>6, <2>1, <2>2 DEF Uses
  <2> QED BY <1>5, <1>6, <2>3 DEF Uses
<1>8. TypeOK'
  BY <1>2, <1>3 DEF IInv, TypeOK
<1>9. Counted' /\ CachedAtZero' /\ CachesDisjoint'
  BY <1>3, <1>7 DEF IInv, Counted, CachedAtZero, CachesDisjoint
<1>10. NoDanglingHandle'
  BY <1>2, <1>3, <1>4 DEF IInv, TypeOK, NoDanglingHandle
<1>11. ASSUME NEW u \in Threads, pc'[u] # "idle"
       PROVE  /\ u # t /\ pc'[u] = pc[u] /\ arg[u] \in Mine(u) /\ arg[u] \in Vars
              /\ d'[arg[u]] = d[arg[u]] /\ next'[arg[u]] = next[arg[u]]
  <2>1. u # t /\ pc'[u] = pc[u]
    BY <1>2, <1>11 DEF IInv, TypeOK
  <2>2. arg[u] \in Mine(u) /\ arg[u] \in Vars /\ arg[u] # v
    BY <1>2, <1>11, <2>1, OthersElsewhere
  <2> QED BY <1>2, <2>1, <2>2 DEF IInv, TypeOK
<1>12. Destroying'
  BY <1>3, <1>11 DEF IInv, Destroying, Mine
<1>13. LastHandle'
  <2>1. \A u \in Threads : pc'[u] = "free" => d[arg[u]] # c
    BY <1>6, <1>11 DEF IInv, LastHandle
  <2> QED BY <1>3, <1>5, <1>6, <1>11, <2>1, StillLast
<1>14. Copying'
  <2>1. ASSUME NEW w \in Vars, next'[w] # Nil
        PROVE  next'[w] = next[w] /\ pc'[Owner[w]] # "idle" /\ arg'[Owner[w]] = w
    <3>1. w # v /\ next'[w] = next[w]
      BY <1>2, <2>1 DEF IInv, TypeOK
    <3>2. pc[Owner[w]] # "idle" /\ arg[Owner[w]] = w /\ Owner[w] \in Threads
      BY <2>1, <3>1, LifetimeAssumption DEF IInv, Copying
    <3>3. Owner[w] # t
      BY <1>1, <3>1, <3>2
    <3> QED BY <1>2, <1>3, <3>1, <3>2, <3>3 DEF IInv, TypeOK
  <2> QED BY <1>3, <2>1 DEF IInv, Copying
<1> QED BY <1>8, <1>9, <1>10, <1>12, <1>13, <1>14 DEF IInv

LEMMA FreeCacheKeeps ==
  ASSUME IInv, NEW t \in Threads, FreeCache(t) PROVE IInv'
<1>1. /\ allocated' = allocated \ Range(cache[t]) /\ cache' = [cache EXCEPT ![t] = << >>]
      /\ hasCache' = hasCache \ {t} /\ UNCHANGED <<d, counter, pc, arg, next>>
  BY DEF FreeCache
<1>2. cache'[t] = << >> /\ \A u \in Threads \ {t} : cache'[u] = cache[u]
  BY <1>1 DEF IInv, TypeOK
<1>3. \A u \in Threads : \A i \in DOMAIN cache'[u] :
        u # t /\ i \in DOMAIN cache[u] /\ cache'[u][i] = cache[u][i]
  BY <1>2
<1>4. TypeOK'
  <2>1. << >> \in Seq(Chans) /\ Len(<< >>) <= CacheSize
    BY EmptySeq, LifetimeAssumption
  <2>2. cache' \in [Threads -> Seq(Chans)]
    BY <1>1, <2>1 DEF IInv, TypeOK
  <2>3. \A u \in Threads : Len(cache'[u]) <= CacheSize
    BY <1>2, <2>1 DEF IInv, TypeOK
  <2> QED BY <1>1, <2>2, <2>3 DEF IInv, TypeOK
<1>5. ASSUME NEW e, e \in Cached' PROVE e \in Cached /\ e \notin Range(cache[t])
  <2>1. PICK u \in Threads : \E i \in DOMAIN cache'[u] : cache'[u][i] = e
    BY <1>5 DEF Cached, Range
  <2>2. PICK i \in DOMAIN cache'[u] : cache'[u][i] = e
    BY <2>1
  <2>3. u # t /\ i \in DOMAIN cache[u] /\ cache[u][i] = e
    BY <1>3, <2>2
  <2>4. e \in Cached
    BY <2>3, InCache
  <2>5. e \notin Range(cache[t])
    BY <2>3 DEF IInv, CachesDisjoint, Range
  <2> QED BY <2>4, <2>5
<1>6. CachesDisjoint'
  <2>1. Cached' \subseteq allocated'
    BY <1>1, <1>5 DEF IInv, CachesDisjoint
  <2> QED BY <1>3, <2>1 DEF IInv, CachesDisjoint
<1>7. NoDanglingHandle'
  <2>1. Range(cache[t]) \subseteq Cached
    BY DEF Cached
  <2> QED BY <1>1, <1>5, <2>1 DEF IInv, NoDanglingHandle
<1>8. Counted' /\ CachedAtZero'
  BY <1>1, <1>3 DEF IInv, Counted, CachedAtZero, Uses, Handles, Coming
<1>9. Destroying' /\ LastHandle'
  BY <1>1 DEF IInv, Destroying, LastHandle, Handles, Coming, Mine
<1>10. Copying'
  <2>1. Range(cache[t]) \subseteq Cached
    BY DEF Cached
  <2> QED BY <1>1, <1>5, <2>1 DEF IInv, Copying
<1> QED BY <1>4, <1>6, <1>7, <1>8, <1>9, <1>10 DEF IInv

LEMMA LifetimeStep == IInv /\ [Next]_vars => IInv'
<1> SUFFICES ASSUME IInv, [Next]_vars PROVE IInv'
  OBVIOUS
<1>1. CASE UNCHANGED vars
  BY <1>1 DEF vars, mem, IInv, TypeOK, NoDanglingHandle, CachesDisjoint, Cached, Counted,
              CachedAtZero, Destroying, LastHandle, Copying, Handles, Coming, Uses, Mine
<1>2. CASE Next
  BY <1>2, NewCachedKeeps, NewFreshKeeps, CopyKeeps, CopyOverKeeps, AssignKeeps,
     DestroyLoadKeeps, DestroyDecKeeps,
     DestroyFreeKeeps, FreeCacheKeeps DEF Next
<1> QED BY <1>1, <1>2

LEMMA LifetimeInvariant == Spec => []IInv
BY LifetimeInit, LifetimeStep, PTL DEF Spec

-----------------------------------------------------------------------------
(* Every variable keeps its type: the counter stays between -1 and twice   *)
(* the number of handles, and no cache grows beyond its limit.             *)
THEOREM LifetimeTyped == Spec => []TypeOK
<1>1. IInv => TypeOK
  BY DEF IInv
<1> QED BY <1>1, LifetimeInvariant, PTL

(* However many threads copy and destroy handles at once, =destroy frees   *)
(* or caches no channel that another handle refers to.                     *)
THEOREM HandlesNeverDangle == Spec => []NoDanglingHandle
<1>1. IInv => NoDanglingHandle
  BY DEF IInv
<1> QED BY <1>1, LifetimeInvariant, PTL

(* No channel is in two caches, or twice in one, or freed while it is in a *)
(* cache, so that newChannel never hands out one channel twice.            *)
THEOREM CachesStayDisjoint == Spec => []CachesDisjoint
<1>1. IInv => CachesDisjoint
  BY DEF IInv
<1> QED BY <1>1, LifetimeInvariant, PTL
=============================================================================
