------------------------------- MODULE LRUCache -------------------------------
(***************************************************************************)
(* src/cache.cpp: the cache of file contents, bounded in bytes, with least *)
(* recently used eviction and a time to live.  Every operation runs under  *)
(* mutex_ from its first read to its last write, so each is one action.    *)
(*                                                                         *)
(* Contents are values with a size.  The age of an entry is the number of  *)
(* whole seconds since it was created, counted up to the time to live, so  *)
(* no clock is needed.  The statistics, and an entry's content type,       *)
(* last_accessed and access_count, which no decision reads, are left out.  *)
(* evict_expired, set_max_size and set_ttl have no caller.                 *)
(***************************************************************************)
EXTENDS Naturals, FiniteSets, SequencesExt

CONSTANTS
  Keys,      \* file paths
  Data,      \* file contents
  SizeOf,    \* SizeOf[d]: the size of contents d
  MaxSize,   \* max_size_bytes_
  TTL,       \* ttl_seconds_; 0 is for ever
  NoEntry

ASSUME CacheAssumption ==
  /\ SizeOf \in [Data -> Nat]
  /\ MaxSize \in Nat
  /\ TTL \in Nat
  /\ NoEntry \notin [data : Data, age : 0..TTL]

VARIABLES
  cache,         \* cache_: the entry of each key
  lru_list,      \* lru_list_: the cached keys, most recently used first
  current_size,  \* current_size_
  recency        \* history: every key ever used, the last one used first

cacheVars == <<cache, lru_list, current_size, recency>>

Entries == [data : Data, age : 0..TTL]

\* The node of key, which the map keeps an iterator to.
NodeOf(list, key) == CHOOSE i \in DOMAIN list : list[i] = key

\* A list without the node of key, and with it moved to the front.
Without(list, key) ==
  IF key \in Range(list) THEN RemoveAt(list, NodeOf(list, key)) ELSE list

\* Mutant: an entry that is used keeps its place in the list.
ToFrontNot(list, key) ==
  IF key \in Range(list) THEN list ELSE <<key>> \o list

ToFront(list, key) == <<key>> \o Without(list, key)

Cached == {k \in Keys : cache[k] # NoEntry}

Init ==
  /\ cache = [k \in Keys |-> NoEntry]
  /\ lru_list = <<>>
  /\ current_size = 0
  /\ recency = <<>>

\* Mutant: an entry expires one second late.
ExpiredLate(entry) == TTL > 0 /\ entry.age > TTL

is_expired(entry) == TTL > 0 /\ entry.age >= TTL

-------------------------------------------------------------------------------
Hit(key) == cache[key] # NoEntry /\ ~is_expired(cache[key])

\* Mutant: an expired entry is taken off the books but not out of the map.
getKeepsExpired(key) ==
  \/ /\ cache[key] = NoEntry
     /\ UNCHANGED cacheVars
  \/ /\ cache[key] # NoEntry
     /\ is_expired(cache[key])
     /\ lru_list' = Without(lru_list, key)
     /\ current_size' = current_size - SizeOf[cache[key].data]
     /\ UNCHANGED <<cache, recency>>
  \/ /\ Hit(key)
     /\ lru_list' = ToFront(lru_list, key)
     /\ recency' = <<key>> \o Without(recency, key)
     /\ UNCHANGED <<cache, current_size>>

\* get: a hit moves the key to the front, an expired entry is dropped.
get(key) ==
  \/ /\ cache[key] = NoEntry
     /\ UNCHANGED cacheVars
  \/ /\ cache[key] # NoEntry
     /\ is_expired(cache[key])
     /\ lru_list' = Without(lru_list, key)
     /\ current_size' = current_size - SizeOf[cache[key].data]
     /\ cache' = [cache EXCEPT ![key] = NoEntry]
     /\ UNCHANGED recency
  \/ /\ Hit(key)
     /\ lru_list' = ToFront(lru_list, key)
     /\ recency' = <<key>> \o Without(recency, key)
     /\ UNCHANGED <<cache, current_size>>

\* Mutant: the most recently used entry is evicted.
evict_mru(s) ==
  [list |-> Tail(s.list),
   size |-> s.size - SizeOf[cache[Head(s.list)].data],
   gone |-> s.gone \cup {Head(s.list)}]

\* evict_lru, on the list, the size and the set of evicted keys.
evict_lru(s) ==
  LET victim == s.list[Len(s.list)]
  IN  [list |-> SubSeq(s.list, 1, Len(s.list) - 1),
       size |-> s.size - SizeOf[cache[victim].data],
       gone |-> s.gone \cup {victim}]

\* The eviction loop of put, n rounds of it: as long as the new entry does not
\* fit and the cache is not empty, drop the last of the list.
EvictFor(bytes) ==
  LET loop[n \in 0..Len(lru_list)] ==
        IF n = 0 THEN [list |-> lru_list, size |-> current_size, gone |-> {}]
        ELSE IF loop[n-1].size + bytes > MaxSize /\ loop[n-1].list # <<>>
             THEN evict_lru(loop[n-1])
             ELSE loop[n-1]
  IN  loop[Len(lru_list)]

NewEntry(data) == [data |-> data, age |-> 0]

\* Mutant: the size of the entry that is replaced is not taken off.
PutReplaceAdds(key, data) ==
  /\ cache[key] # NoEntry
  /\ current_size' = current_size + SizeOf[data]
  /\ cache' = [cache EXCEPT ![key] = NewEntry(data)]
  /\ lru_list' = ToFront(lru_list, key)
  /\ recency' = <<key>> \o Without(recency, key)

\* An entry that is there already is replaced in place, whatever its new
\* size: this path never evicts.
PutReplace(key, data) ==
  /\ cache[key] # NoEntry
  /\ current_size' = current_size - SizeOf[cache[key].data] + SizeOf[data]
  /\ cache' = [cache EXCEPT ![key] = NewEntry(data)]
  /\ lru_list' = ToFront(lru_list, key)
  /\ recency' = <<key>> \o Without(recency, key)

\* Mutant: the size of a new entry is not accounted for.
PutInsertUncounted(key, data) ==
  LET s == EvictFor(SizeOf[data])
  IN  /\ cache[key] = NoEntry
      /\ SizeOf[data] <= MaxSize
      /\ lru_list' = <<key>> \o s.list
      /\ cache' = [k \in Keys |-> IF k = key THEN NewEntry(data)
                                  ELSE IF k \in s.gone THEN NoEntry ELSE cache[k]]
      /\ current_size' = s.size
      /\ recency' = <<key>> \o Without(recency, key)

PutInsert(key, data) ==
  LET s == EvictFor(SizeOf[data])
  IN  /\ cache[key] = NoEntry
      /\ SizeOf[data] <= MaxSize
      /\ lru_list' = <<key>> \o s.list
      /\ cache' = [k \in Keys |-> IF k = key THEN NewEntry(data)
                                  ELSE IF k \in s.gone THEN NoEntry ELSE cache[k]]
      /\ current_size' = s.size + SizeOf[data]
      /\ recency' = <<key>> \o Without(recency, key)

\* Contents larger than the whole cache are skipped, but only after the loop
\* has evicted everything else for them.
PutTooLarge(key, data) ==
  LET s == EvictFor(SizeOf[data])
  IN  /\ cache[key] = NoEntry
      /\ SizeOf[data] > MaxSize
      /\ lru_list' = s.list
      /\ cache' = [k \in Keys |-> IF k \in s.gone THEN NoEntry ELSE cache[k]]
      /\ current_size' = s.size
      /\ UNCHANGED recency

\* put ignores empty contents.
put(key, data) ==
  \/ SizeOf[data] = 0 /\ UNCHANGED cacheVars
  \/ SizeOf[data] > 0 /\ (PutReplace(key, data) \/ PutInsert(key, data) \/ PutTooLarge(key, data))

\* Mutant: the key's node stays in the list.
removeKeepsNode(key) ==
  \/ /\ cache[key] # NoEntry
     /\ current_size' = current_size - SizeOf[cache[key].data]
     /\ cache' = [cache EXCEPT ![key] = NoEntry]
     /\ UNCHANGED <<lru_list, recency>>
  \/ /\ cache[key] = NoEntry
     /\ UNCHANGED cacheVars

remove(key) ==
  \/ /\ cache[key] # NoEntry
     /\ current_size' = current_size - SizeOf[cache[key].data]
     /\ lru_list' = Without(lru_list, key)
     /\ cache' = [cache EXCEPT ![key] = NoEntry]
     /\ UNCHANGED recency
  \/ /\ cache[key] = NoEntry
     /\ UNCHANGED cacheVars

clear ==
  /\ cache' = [k \in Keys |-> NoEntry]
  /\ lru_list' = <<>>
  /\ current_size' = 0
  /\ UNCHANGED recency

\* A second passes.
Tick ==
  /\ cache' = [k \in Keys |->
                 IF cache[k] # NoEntry /\ cache[k].age < TTL
                 THEN [cache[k] EXCEPT !.age = @ + 1] ELSE cache[k]]
  /\ UNCHANGED <<lru_list, current_size, recency>>

Next ==
  \/ \E k \in Keys : get(k) \/ remove(k)
  \/ \E k \in Keys, d \in Data : put(k, d)
  \/ clear
  \/ Tick

Spec == Init /\ [][Next]_cacheVars

-------------------------------------------------------------------------------
(* Properties *)

CacheTypeOK ==
  /\ cache \in [Keys -> Entries \cup {NoEntry}]
  /\ lru_list \in Seq(Keys)
  /\ current_size \in Nat
  /\ recency \in Seq(Keys)

\* cache_ and lru_list_ hold the same keys, each once, so every iterator kept
\* in the map points to its own key's node and evict_lru always finds its
\* victim in the map (cache.cpp:125-132).
ListMatchesMap == Range(lru_list) = Cached /\ IsInjective(lru_list)

\* Key k stands before key l.
Before(list, k, l) == \E i, j \in DOMAIN list : i < j /\ list[i] = k /\ list[j] = l

\* The list is in order of last use, so what is evicted is the entry not used
\* for the longest time: its keys stand as they do in the history of uses.
ListIsLruOrder ==
  /\ IsInjective(recency)
  /\ \A k, l \in Keys : Before(lru_list, k, l) => Before(recency, k, l)

\* The sums of the first numbers of a list.
Sums(w) ==
  LET sum[i \in 0..Len(w)] == IF i = 0 THEN 0 ELSE sum[i-1] + w[i]
  IN  sum

\* The size of the n most recently used entries.
SizeUpTo(n) == Sums([i \in DOMAIN lru_list |-> SizeOf[cache[lru_list[i]].data]])[n]

\* current_size_ is the sum of the sizes of the cached contents: the many
\* places that adjust it never drift apart, and it never wraps below zero.
SizeIsExact == current_size = SizeUpTo(Len(lru_list))

\* What the eviction loop of put computes (cache.cpp:78-80): a new entry keeps
\* exactly the most recently used entries that fit beside it, and evicts
\* neither a more recent one first nor one more than it must.
EvictsLeastRecentlyUsed ==
  [][\A k \in Keys :
       cache[k] = NoEntry /\ cache'[k] # NoEntry =>
         \A i \in DOMAIN lru_list :
           cache'[lru_list[i]] # NoEntry <=>
             SizeUpTo(i) + SizeOf[cache'[k].data] <= MaxSize]_cacheVars
===============================================================================
