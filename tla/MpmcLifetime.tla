---------------------------- MODULE MpmcLifetime ----------------------------
(***************************************************************************)
(* The life of a channel of lib/std/channels.nim: handles counted by       *)
(* atomicCounter (the number of handles minus one), destroyed by a load of *)
(* the counter followed by a free or an atomic decrement, and a cache of   *)
(* freed channels per thread from which newChannel is served.              *)
(*                                                                         *)
(* All channels have the same item size and capacity, so that a thread has *)
(* one list in its cache.  What a channel holds, and whether it is closed, *)
(* is left out: no step here looks at it.                                  *)
(***************************************************************************)
EXTENDS Integers, Sequences, SequencesExt, FiniteSets

CONSTANTS Threads,
          Vars,        \* the variables of type Channel
          Owner,       \* Owner[v]: the thread of variable v
          Chans,       \* the addresses malloc may return
          CacheSize,   \* nimChannelCacheSize
          Nil

ASSUME LifetimeAssumption == /\ IsFiniteSet(Vars) /\ Vars # {}
                             /\ Owner \in [Vars -> Threads]
                             /\ CacheSize \in Nat
                             /\ Nil \notin Chans

VARIABLES d,           \* d[v]: the channel the variable refers to, or Nil
          counter,     \* of each channel
          allocated,   \* the addresses that malloc has given out
          hasCache,    \* the threads that have created their cache
          cache,       \* cache[t]: the freed channels thread t keeps
          pc, arg,     \* a thread's destructor: its point, its variable
          next         \* next[v]: what =copy will make v refer to, or Nil

mem  == <<counter, allocated, hasCache, cache>>
vars == <<d, mem, pc, arg, next>>

Init == /\ d = [v \in Vars |-> Nil]
        /\ counter = [c \in Chans |-> 0]
        /\ allocated = {}
        /\ hasCache = {}
        /\ cache = [t \in Threads |-> << >>]
        /\ pc = [t \in Threads |-> "idle"]
        /\ arg = [t \in Threads |-> CHOOSE v \in Vars : TRUE]
        /\ next = [v \in Vars |-> Nil]

Mine(t) == {v \in Vars : Owner[v] = t}
Busy(t) == pc[t] # "idle"
Free(t, v) == ~Busy(t) /\ v \in Mine(t) /\ d[v] = Nil

-----------------------------------------------------------------------------
(* newChannel: a cached channel is returned as it is.                      *)
NewCached(t, v) ==
  /\ Free(t, v) /\ cache[t] # << >>
  /\ d' = [d EXCEPT ![v] = Last(cache[t])]
  /\ cache' = [cache EXCEPT ![t] = Front(@)]
  /\ UNCHANGED <<counter, allocated, hasCache, pc, arg, next>>

NewFresh(t, v) ==
  /\ Free(t, v) /\ cache[t] = << >>
  /\ \E c \in Chans \ allocated :
       /\ d' = [d EXCEPT ![v] = c]
       /\ allocated' = allocated \union {c}
       /\ counter' = [counter EXCEPT ![c] = 0]
  /\ hasCache' = IF CacheSize > 0 THEN hasCache \union {t} ELSE hasCache
  /\ UNCHANGED <<cache, pc, arg, next>>

(* Mutant: the copy is not counted.                                        *)
Copy_Uncounted(t, s, v) ==
  /\ ~Busy(t) /\ s \in Mine(t) /\ d[s] # Nil /\ d[v] = Nil
  /\ d' = [d EXCEPT ![v] = d[s]]
  /\ UNCHANGED <<mem, pc, arg, next>>
(* =copy to an empty variable: of the same thread, or of a thread that is  *)
(* given its argument.                                                     *)
Copy(t, s, v) ==
  /\ ~Busy(t) /\ s \in Mine(t) /\ d[s] # Nil /\ d[v] = Nil
  /\ \A u \in Threads : pc[u] # "idle" => arg[u] # v
  /\ counter' = [counter EXCEPT ![d[s]] = @ + 1]
  /\ d' = [d EXCEPT ![v] = d[s]]
  /\ UNCHANGED <<allocated, hasCache, cache, pc, arg, next>>

(* =copy to a variable that has a channel: the source is counted, then the *)
(* destination is destroyed, at last assigned (Assign).                    *)
CopyOver(t, s, v) ==
  /\ ~Busy(t) /\ {s, v} \subseteq Mine(t) /\ d[s] # Nil /\ d[v] # Nil
  /\ counter' = [counter EXCEPT ![d[s]] = @ + 1]
  /\ next' = [next EXCEPT ![v] = d[s]]
  /\ pc' = [pc EXCEPT ![t] = "copy"]
  /\ arg' = [arg EXCEPT ![t] = v]
  /\ UNCHANGED <<d, allocated, hasCache, cache>>

Assign(t) ==
  /\ pc[t] = "assign" /\ pc' = [pc EXCEPT ![t] = "idle"]
  /\ d' = [d EXCEPT ![arg[t]] = next[arg[t]]]
  /\ next' = [next EXCEPT ![arg[t]] = Nil]
  /\ UNCHANGED <<mem, arg>>

-----------------------------------------------------------------------------
(* =destroy of a variable that goes out of scope, that an empty one is     *)
(* copied to, or that CopyOver has begun to copy to.                       *)
DestroyLoad(t, v) ==
  /\ \/ ~Busy(t) /\ v \in Mine(t) /\ d[v] # Nil
     \/ pc[t] = "copy" /\ v = arg[t]
  /\ pc' = [pc EXCEPT ![t] = IF counter[d[v]] = 0 THEN "free" ELSE "dec"]
  /\ arg' = [arg EXCEPT ![t] = v]
  /\ UNCHANGED <<d, mem, next>>

Destroyed(t) ==
  /\ d' = [d EXCEPT ![arg[t]] = Nil]
  /\ pc' = [pc EXCEPT ![t] = IF next[arg[t]] = Nil THEN "idle" ELSE "assign"]
  /\ UNCHANGED <<arg, next>>

DestroyDec(t) ==
  /\ pc[t] = "dec"
  /\ counter' = [counter EXCEPT ![d[arg[t]]] = @ - 1]
  /\ Destroyed(t)
  /\ UNCHANGED <<allocated, hasCache, cache>>

(* Mutant: a full cache takes one more channel.                            *)
CacheRoom_OffByOne(t) == t \in hasCache /\ Len(cache[t]) <= CacheSize
CacheRoom(t) == t \in hasCache /\ Len(cache[t]) < CacheSize

(* freeChannel: into the cache of the thread if there is room, else free.  *)
DestroyFree(t) ==
  /\ pc[t] = "free"
  /\ LET c == d[arg[t]]
     IN  IF CacheRoom(t)
           THEN cache' = [cache EXCEPT ![t] = Append(@, c)] /\ UNCHANGED allocated
           ELSE allocated' = allocated \ {c} /\ UNCHANGED cache
  /\ Destroyed(t)
  /\ UNCHANGED <<counter, hasCache>>

(* Mutant: the cache is freed and keeps the channels.                      *)
FreeCache_Kept(t) ==
  /\ ~Busy(t) /\ t \in hasCache
  /\ allocated' = allocated \ Range(cache[t])
  /\ hasCache' = hasCache \ {t}
  /\ UNCHANGED <<d, counter, cache, pc, arg, next>>
(* freeChannelCache *)
FreeCache(t) ==
  /\ ~Busy(t) /\ t \in hasCache
  /\ allocated' = allocated \ Range(cache[t])
  /\ cache' = [cache EXCEPT ![t] = << >>]
  /\ hasCache' = hasCache \ {t}
  /\ UNCHANGED <<d, counter, pc, arg, next>>

-----------------------------------------------------------------------------
Next == \E t \in Threads :
          \/ \E v \in Vars : NewCached(t, v) \/ NewFresh(t, v) \/ DestroyLoad(t, v)
          \/ \E s, v \in Vars : Copy(t, s, v) \/ CopyOver(t, s, v)
          \/ Assign(t)
          \/ DestroyDec(t) \/ DestroyFree(t) \/ FreeCache(t)

Spec == Init /\ [][Next]_vars

-----------------------------------------------------------------------------
(* Properties.                                                             *)

Cached == UNION {Range(cache[t]) : t \in Threads}

(* Every variable has its type.                                            *)
TypeOK == /\ d \in [Vars -> Chans \union {Nil}]
          /\ counter \in [Chans -> -1 .. 2 * Cardinality(Vars)]
          /\ allocated \subseteq Chans /\ hasCache \subseteq Threads
          /\ cache \in [Threads -> Seq(Chans)]
          /\ \A t \in Threads : Len(cache[t]) <= CacheSize
          /\ pc \in [Threads -> {"idle", "copy", "dec", "free", "assign"}]
          /\ arg \in [Threads -> Vars]
          /\ next \in [Vars -> Chans \union {Nil}]

(* No handle refers to a channel that is freed or waits in a cache, even   *)
(* though the counter is loaded and decremented in two steps.              *)
NoDanglingHandle == \A v \in Vars : d[v] # Nil => d[v] \in allocated \ Cached

(* A channel is in one cache, once, and is not freed while it is there.    *)
CachesDisjoint ==
  /\ Cached \subseteq allocated
  /\ \A t, u \in Threads : \A i \in DOMAIN cache[t], j \in DOMAIN cache[u] :
       cache[t][i] = cache[u][j] => t = u /\ i = j
=============================================================================
