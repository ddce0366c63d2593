--------------------------- MODULE FileHandlerProofs ---------------------------
(***************************************************************************)
(* Proofs about FileHandler, for any number of workers, any files, paths,  *)
(* contents and limits.                                                    *)
(*                                                                         *)
(* The cache underneath takes only steps that LRUCache describes, so what  *)
(* LRUCacheProofs shows of it holds here too (HandlerUsesCache).  Beyond   *)
(* that the invariant says of each worker and of each cache entry how long *)
(* ago its contents were in the file, and counts the workers that are      *)
(* going to replace an entry without evicting.                             *)
(***************************************************************************)
EXTENDS FileHandler, LRUCacheProofs, FiniteSetTheorems

-------------------------------------------------------------------------------
(* The inductive invariant *)

\* The file a path leads to may be served.
Servable(k) ==
  /\ k \in Keys /\ canonical(k) \in Files
  /\ DefaultsBelowRoot => BelowRoot(canonical(k))

\* With g the seconds since a file last held each contents: it began with data
\* at most age seconds ago.
Within(g, data, age) == \E c \in Contents : BeginsWith(c, data) /\ g[c] <= age

FileStates == [size : Nat, data : Data \cup {Absent}, linked : BOOLEAN]

\* What is true of a worker at step l with path k, the file x and h seconds since
\* it was opened.
WorkerOK(g, l, k, x, h) ==
  /\ l \in {"idle", "directory", "inspect", "lookup", "open", "read", "put"}
  /\ k \in Keys \cup Admitted \cup {NoPath}
  /\ x \in FileStates
  /\ h \in 0..RequestSecs
  /\ l = "directory" => k \in Admitted /\ canonical(k) \in Dirs
  /\ l \in {"inspect", "lookup", "open", "read", "put"} => Servable(k)
  /\ l = "read" => x.data \in Contents /\ g[canonical(k)][x.data] <= h
  /\ l = "put" => /\ x.data \in Data /\ SizeOf[x.data] < CacheFileLimit
                  /\ Within(g[canonical(k)], x.data, h)

WorkersInv ==
  /\ pc \in [Workers -> {"idle", "directory", "inspect", "lookup", "open", "read", "put"}]
  /\ key \in [Workers -> Keys \cup Admitted \cup {NoPath}]
  /\ file \in [Workers -> FileStates]
  /\ held \in [Workers -> 0..RequestSecs]
  /\ \A w \in Workers : WorkerOK(gone, pc[w], key[w], file[w], held[w])

\* What is true of the entry e of a key: it is small, not empty, and was read at
\* most RequestSecs before it was cached.
EntryOK(g, k, e) ==
  /\ canonical(k) \in Files
  /\ SizeOf[e.data] >= 1 /\ SizeOf[e.data] < CacheFileLimit
  /\ Within(g[canonical(k)], e.data, e.age + RequestSecs)

EntriesInv == \A k \in Keys : cache[k] # NoEntry => EntryOK(gone, k, cache[k])

\* What a file holds it has held for no time.
DiskInv ==
  /\ disk \in [Files -> Contents \cup {Absent}]
  /\ changes \in 0..MaxChanges
  /\ gone \in [Files -> [Contents -> 0..AgeCap]]
  /\ \A f \in Files : disk[f] # Absent => gone[f][disk[f]] = 0

\* What is true of an answer.
AnswerOK(a) ==
  /\ a \in [file : Files \cup {Absent}, age : 0..AgeCap]
  /\ TTL > 0 => a.age < TTL + RequestSecs \/ a.age = 0
  /\ DefaultsBelowRoot /\ a.file # Absent => BelowRoot(a.file)

AnswerInv == AnswerOK(answer)

\* The workers that will find the entry they missed when they come to put theirs.
Behind == {w \in Workers : pc[w] \in {"open", "read", "put"} /\ cache[key[w]] # NoEntry}

\* How much one replacement can add, and what so many can.
Growth(n) == (CacheFileLimit - 2) * n

\* The room that these workers may still take is left under the bound.
RoomInv ==
  current_size + Growth(Cardinality(Behind)) <= MaxSize + Growth(Cardinality(Workers) - 1)

FileInv == IInv /\ WorkersInv /\ EntriesInv /\ DiskInv /\ AnswerInv /\ RoomInv

-------------------------------------------------------------------------------
(* Numbers *)

\* A set of numbers that is not empty has a least one.
LEMMA Least ==
  ASSUME NEW S \in SUBSET Nat, S # {}
  PROVE  \E m \in S : \A n \in S : m <= n
<1>1. PICK m \in S : \A n \in S : ~(<<n, m>> \in OpToRel(<, Nat))
  BY NatLessThanWellFounded, WFMin, Zenon
<1>2. ASSUME NEW n \in S PROVE m <= n
  <2>1. <<n, m>> \in Nat \X Nat /\ <<n, m>>[1] = n /\ <<n, m>>[2] = m
    OBVIOUS
  <2>2. ~(n < m)
    BY <1>1, <2>1 DEF OpToRel
  <2> QED
    BY <2>2
<1> QED
  BY <1>2

\* More replacements add more, and each at most one file's growth.
LEMMA GrowthGrows ==
  ASSUME NEW m \in Nat, NEW n \in Nat, m <= n
  PROVE  /\ Growth(m) \in Nat /\ Growth(n) \in Nat /\ Growth(m) <= Growth(n)
         /\ Growth(0) = 0
         /\ Growth(n + 1) = Growth(n) + (CacheFileLimit - 2)
         /\ CacheFileLimit - 2 \in Nat
<1>1. CacheFileLimit - 2 \in Nat
  BY FileAssumption
<1> DEFINE a == CacheFileLimit - 2
<1> HIDE DEF a
<1>2. a \in Nat
  BY <1>1 DEF a
<1>3. a * m \in Nat /\ a * n \in Nat /\ a * m <= a * n /\ a * 0 = 0 /\ a * (n + 1) = a * n + a
  BY <1>2, SMTT(30)
<1> QED
  BY <1>2, <1>3 DEF Growth, a

\* There are workers, and those that are behind are some of them.
LEMMA WorkersCounted ==
  /\ Cardinality(Workers) \in Nat /\ Cardinality(Workers) - 1 \in Nat
  /\ IsFiniteSet(Behind) /\ Cardinality(Behind) \in Nat
<1>1. IsFiniteSet(Workers) /\ Cardinality(Workers) \in Nat /\ Cardinality(Workers) # 0
  BY FileAssumption, FS_CardinalityType, FS_EmptySet
<1>2. Behind \subseteq Workers
  BY DEF Behind
<1>3. IsFiniteSet(Behind) /\ Cardinality(Behind) \in Nat
  BY <1>1, <1>2, FS_Subset, FS_CardinalityType
<1> QED
  BY <1>1, <1>3

-------------------------------------------------------------------------------
(* Ages *)

\* Some contents begin with themselves, and with each of their beginnings.
LEMMA Beginnings ==
  ASSUME NEW c \in Contents
  PROVE  /\ BeginsWith(c, c) /\ c \in Data /\ SizeOf[c] = Len(c) /\ Len(c) \in Nat
         /\ \A n \in 0..Len(c) : /\ SubSeq(c, 1, n) \in Data
                                 /\ SizeOf[SubSeq(c, 1, n)] = n
                                 /\ BeginsWith(c, SubSeq(c, 1, n))
<1>1. c \in Data /\ c \in Seq(Range(c)) /\ SizeOf[c] = Len(c) /\ Len(c) \in Nat
  BY FileAssumption
<1>2. ASSUME NEW n \in 0..Len(c)
      PROVE  /\ SubSeq(c, 1, n) \in Data /\ SizeOf[SubSeq(c, 1, n)] = n
             /\ BeginsWith(c, SubSeq(c, 1, n))
  <2>1. SubSeq(c, 1, n) \in Data
    BY <1>2, FileAssumption
  <2>2. Len(SubSeq(c, 1, n)) = n
    BY <1>1
  <2>3. \A d \in Data : SizeOf[d] = Len(d)
    BY FileAssumption
  <2> DEFINE s == SubSeq(c, 1, n)
  <2>4. s \in Data /\ Len(s) = n /\ s = SubSeq(c, 1, n)
    BY <2>1, <2>2
  <2> HIDE DEF s
  <2>5. SizeOf[s] = n
    BY <2>3, <2>4
  <2>6. BeginsWith(c, s)
    BY <1>1, <2>4 DEF BeginsWith
  <2> QED
    BY <2>4, <2>5, <2>6
<1>3. SubSeq(c, 1, Len(c)) = c
  BY <1>1
<1> QED
  BY <1>1, <1>2, <1>3 DEF BeginsWith

\* Time adds to an age at most what passes.
LEMMA Ages ==
  ASSUME NEW g \in [Contents -> Nat], NEW h \in [Contents -> Nat], NEW data,
         NEW a \in Nat, NEW b \in Nat, Within(g, data, a),
         \A c \in Contents : g[c] <= a => h[c] <= b
  PROVE  Within(h, data, b)
  BY DEF Within

\* The age of an answer is that of the latest contents that begin with it.
LEMMA AnswerAge ==
  ASSUME NEW g \in [Contents -> 0..AgeCap], NEW data, NEW a \in Nat, Within(g, data, a)
  PROVE  LET ages == {g[d] : d \in {c \in Contents : BeginsWith(c, data)}}
             m == CHOOSE m \in ages : \A n \in ages : m <= n
         IN  m \in 0..AgeCap /\ m <= a
<1> DEFINE ages == {g[d] : d \in {c \in Contents : BeginsWith(c, data)}}
           m == CHOOSE x \in ages : \A n \in ages : x <= n
<1>1. AgeCap \in Nat
  BY FileAssumption, CacheAssumption DEF AgeCap
<1>2. PICK c \in Contents : BeginsWith(c, data) /\ g[c] <= a
  BY DEF Within
<1>3. g[c] \in ages /\ ages \subseteq 0..AgeCap
  BY <1>2
<1>4. ages \in SUBSET Nat /\ ages # {}
  BY <1>1, <1>3
<1> HIDE DEF ages
<1>5. \E x \in ages : \A n \in ages : x <= n
  BY <1>4, Least
<1>6. m \in ages /\ \A n \in ages : m <= n
  BY <1>5
<1> HIDE DEF m
<1>7. m \in 0..AgeCap /\ m <= a
  BY <1>1, <1>2, <1>3, <1>6
<1> QED
  BY <1>7 DEF m, ages

-------------------------------------------------------------------------------
(* What the operations of the cache do to single entries *)

\* get forgets an expired entry and changes no other; it misses only where
\* nothing is left.
LEMMA GetEffect ==
  ASSUME IInv, NEW k \in Keys, get(k)
  PROVE  /\ \A l \in Keys : cache'[l] = cache[l] \/ cache'[l] = NoEntry
         /\ ~Hit(k) => cache'[k] = NoEntry
         /\ current_size' <= current_size
<1>1. cache \in [Keys -> Entries \cup {NoEntry}] /\ current_size \in Nat
  BY DEF IInv, CacheTypeOK
<1>2. CASE cache[k] = NoEntry /\ UNCHANGED cacheVars
  BY <1>1, <1>2 DEF cacheVars, Hit
<1>3. CASE /\ cache[k] # NoEntry /\ is_expired(cache[k])
           /\ current_size' = current_size - SizeOf[cache[k].data]
           /\ cache' = [cache EXCEPT ![k] = NoEntry]
  <2>1. SizeOf[cache[k].data] \in Nat
    BY <1>1, <1>3, CacheAssumption DEF Entries
  <2> QED
    BY <1>1, <1>3, <2>1 DEF Hit
<1>4. CASE Hit(k) /\ UNCHANGED <<cache, current_size>>
  BY <1>1, <1>4
<1> QED
  BY <1>2, <1>3, <1>4 DEF get

\* An entry that is put in place of another adds at most their difference.
LEMMA ReplaceEffect ==
  ASSUME IInv, NEW k \in Keys, NEW d \in Data, PutReplace(k, d)
  PROVE  /\ cache[k] # NoEntry /\ cache'[k] = NewEntry(d)
         /\ \A l \in Keys : l # k => cache'[l] = cache[l]
         /\ current_size' = current_size - SizeOf[cache[k].data] + SizeOf[d]
  BY DEF PutReplace, IInv, CacheTypeOK

\* A new entry brings the cache back under its limit.
LEMMA InsertEffect ==
  ASSUME IInv, NEW k \in Keys, NEW d \in Data, PutInsert(k, d)
  PROVE  /\ cache[k] = NoEntry /\ cache'[k] = NewEntry(d)
         /\ \A l \in Keys : l # k => cache'[l] = cache[l] \/ cache'[l] = NoEntry
         /\ current_size' <= MaxSize
<1>1. current_size' <= MaxSize
  BY InsertEvicts
<1> QED
  BY <1>1 DEF PutInsert

\* Contents that are too large only evict.
LEMMA TooLargeEffect ==
  ASSUME IInv, NEW k \in Keys, NEW d \in Data, PutTooLarge(k, d)
  PROVE  /\ cache[k] = NoEntry
         /\ \A l \in Keys : cache'[l] = cache[l] \/ cache'[l] = NoEntry
         /\ current_size' <= current_size
<1> DEFINE n == Len(lru_list)
<1>1. n \in Nat /\ SizeOf[d] \in Nat
  BY Given, CacheAssumption
<1>2. PICK m \in 0..n : EvictFor(SizeOf[d]) = Kept(m)
  BY <1>1, EvictionLoop
<1>3. Kept(m).size = SizeUpTo(m)
  BY KeptList
<1>4. SizeUpTo(m) <= SizeUpTo(n)
  <2>1. \A i, j \in 0..n : i <= j => SizeUpTo(i) <= SizeUpTo(j)
    BY SizesOf
  <2>2. m \in 0..n /\ n \in 0..n /\ m <= n
    BY <1>1
  <2> QED
    BY <2>1, <2>2
<1>5. current_size = SizeUpTo(n)
  BY DEF IInv, SizeIsExact
<1>6. current_size' = Kept(m).size
  BY <1>2 DEF PutTooLarge
<1> QED
  BY <1>3, <1>4, <1>5, <1>6 DEF PutTooLarge

\* What any put does.
LEMMA PutEffect ==
  ASSUME IInv, NEW k \in Keys, NEW d \in Data, put(k, d)
  PROVE  /\ \A l \in Keys : l # k => cache'[l] = cache[l] \/ cache'[l] = NoEntry
         /\ \/ cache'[k] = cache[k] \/ cache'[k] = NoEntry
            \/ cache'[k] = NewEntry(d) /\ SizeOf[d] > 0
<1>1. CASE UNCHANGED cacheVars
  BY <1>1 DEF cacheVars
<1>2. CASE PutReplace(k, d) /\ SizeOf[d] > 0
  BY <1>2, ReplaceEffect
<1>3. CASE PutInsert(k, d) /\ SizeOf[d] > 0
  BY <1>3, InsertEffect
<1>4. CASE PutTooLarge(k, d)
  BY <1>4, TooLargeEffect
<1> QED
  BY <1>1, <1>2, <1>3, <1>4 DEF put

-------------------------------------------------------------------------------
(* The parts of the invariant, one by one *)

\* A worker that comes to a step it may be at keeps the workers in order.
LEMMA WorkerMoves ==
  ASSUME WorkersInv, NEW w \in Workers, NEW l, NEW k, NEW x, NEW h,
         WorkerOK(gone, l, k, x, h),
         pc' = [pc EXCEPT ![w] = l], key' = [key EXCEPT ![w] = k],
         file' = [file EXCEPT ![w] = x], held' = [held EXCEPT ![w] = h], gone' = gone
  PROVE  WorkersInv'
<1>1. ASSUME NEW v \in Workers PROVE WorkerOK(gone', pc'[v], key'[v], file'[v], held'[v])
  <2>1. CASE v = w
    <3>1. pc'[v] = l /\ key'[v] = k /\ file'[v] = x /\ held'[v] = h
      BY <2>1 DEF WorkersInv
    <3> QED
      BY <3>1
  <2>2. CASE v # w
    <3>1. pc'[v] = pc[v] /\ key'[v] = key[v] /\ file'[v] = file[v] /\ held'[v] = held[v]
      BY <2>2 DEF WorkersInv
    <3>2. WorkerOK(gone, pc[v], key[v], file[v], held[v])
      BY DEF WorkersInv
    <3> QED
      BY <3>1, <3>2
  <2> QED
    BY <2>1, <2>2
<1>2. /\ l \in {"idle", "directory", "inspect", "lookup", "open", "read", "put"}
      /\ k \in Keys \cup Admitted \cup {NoPath} /\ x \in FileStates /\ h \in 0..RequestSecs
  BY DEF WorkerOK
<1>3. /\ pc' \in [Workers -> {"idle", "directory", "inspect", "lookup", "open", "read", "put"}]
      /\ key' \in [Workers -> Keys \cup Admitted \cup {NoPath}]
      /\ file' \in [Workers -> FileStates]
      /\ held' \in [Workers -> 0..RequestSecs]
  BY <1>2 DEF WorkersInv
<1> QED
  BY <1>1, <1>3 DEF WorkersInv

\* A worker that returns is idle.
LEMMA WorkerReturns ==
  ASSUME WorkersInv, NEW w \in Workers, NEW a, Return(w, a), gone' = gone
  PROVE  /\ WorkersInv' /\ answer' = a
         /\ pc' = [pc EXCEPT ![w] = "idle"] /\ key' = [key EXCEPT ![w] = NoPath]
<1>1. WorkerOK(gone, "idle", NoPath, NoFile, 0)
  BY FileAssumption DEF WorkerOK, NoFile, FileStates
<1>2. WorkersInv'
  BY <1>1, WorkerMoves DEF Return
<1> QED
  BY <1>2 DEF Return

\* An error page, a listing, or no answer at all.
LEMMA NoAnswerOK == AnswerOK(NoAnswer)
<1>1. AgeCap \in Nat
  BY FileAssumption, CacheAssumption DEF AgeCap
<1> QED
  BY <1>1 DEF AnswerOK, NoAnswer

\* An answer with contents that are not too old is in order.
LEMMA AnswerGiven ==
  ASSUME WorkersInv, DiskInv, NEW w \in Workers, NEW k, Servable(k), NEW data,
         NEW a \in Nat, Within(gone[canonical(k)], data, a), TTL > 0 => a < TTL + RequestSecs,
         Ok(w, k, data), gone' = gone
  PROVE  WorkersInv' /\ AnswerInv'
         /\ pc' = [pc EXCEPT ![w] = "idle"] /\ key' = [key EXCEPT ![w] = NoPath]
<1> DEFINE f == canonical(k)
           ages == {gone[f][d] : d \in {c \in Contents : BeginsWith(c, data)}}
           m == CHOOSE x \in ages : \A n \in ages : x <= n
<1>1. f \in Files /\ gone[f] \in [Contents -> 0..AgeCap]
  BY DEF Servable, DiskInv
<1>2. m \in 0..AgeCap /\ m <= a
  BY <1>1, AnswerAge
<1>3. Return(w, [file |-> f, age |-> m])
  BY DEF Ok
<1> HIDE DEF m
<1>4. AnswerOK([file |-> f, age |-> m])
  <2>1. TTL \in Nat /\ RequestSecs \in Nat /\ AgeCap \in Nat
    BY FileAssumption, CacheAssumption DEF AgeCap
  <2>2. m \in Nat
    BY <1>2, <2>1
  <2>3. TTL > 0 => m < TTL + RequestSecs
    BY <1>2, <2>1, <2>2
  <2>4. DefaultsBelowRoot => BelowRoot(f)
    BY DEF Servable
  <2> QED
    BY <1>1, <1>2, <2>3, <2>4 DEF AnswerOK
<1>5. /\ WorkersInv' /\ answer' = [file |-> f, age |-> m]
      /\ pc' = [pc EXCEPT ![w] = "idle"] /\ key' = [key EXCEPT ![w] = NoPath]
  BY <1>3, WorkerReturns
<1> QED
  BY <1>4, <1>5 DEF AnswerInv

\* Entries that are not replaced, and have not grown older, stay in order.
LEMMA EntriesStay ==
  ASSUME EntriesInv, gone' = gone,
         \A k \in Keys : cache'[k] = cache[k] \/ cache'[k] = NoEntry \/ EntryOK(gone, k, cache'[k])
  PROVE  EntriesInv'
  BY DEF EntriesInv

\* While no file changes and no time passes, the disk stays as it is.
LEMMA DiskStays ==
  ASSUME DiskInv, UNCHANGED <<disk, changes, gone>>
  PROVE  DiskInv'
  BY DEF DiskInv

\* Room is left when nobody is newly behind and nothing was added.
LEMMA RoomStays ==
  ASSUME RoomInv, current_size \in Nat, current_size' \in Nat, current_size' <= current_size,
         Behind' \subseteq Behind
  PROVE  RoomInv'
<1> DEFINE m == Cardinality(Behind')
           n == Cardinality(Behind)
<1>1. m \in Nat /\ n \in Nat /\ m <= n
  BY WorkersCounted, FS_Subset, FS_CardinalityType
<1>2. Growth(m) \in Nat /\ Growth(n) \in Nat /\ Growth(m) <= Growth(n)
  BY <1>1, GrowthGrows
<1>3. Growth(Cardinality(Workers) - 1) \in Nat /\ MaxSize \in Nat
  BY WorkersCounted, GrowthGrows, CacheAssumption
<1>4. current_size + Growth(n) <= MaxSize + Growth(Cardinality(Workers) - 1)
  BY DEF RoomInv
<1> HIDE DEF m, n
<1>5. current_size' + Growth(m) <= MaxSize + Growth(Cardinality(Workers) - 1)
  BY <1>2, <1>3, <1>4
<1> QED
  BY <1>5 DEF RoomInv, m

\* The cache's part of a step of a worker that leaves the cache alone.
LEMMA CacheAlone ==
  ASSUME FileInv, UNCHANGED <<cacheVars, disk, changes, gone>>
  PROVE  IInv' /\ EntriesInv' /\ DiskInv'
<1>1. IInv'
  BY Unchanged DEF FileInv
<1>2. EntriesInv'
  BY EntriesStay DEF FileInv, cacheVars
<1>3. DiskInv'
  BY DiskStays DEF FileInv
<1> QED
  BY <1>1, <1>2, <1>3

\* A worker that is at no step where it could be behind is not.
LEMMA NotBehind ==
  ASSUME WorkersInv, NEW w \in Workers, NEW l, NEW k,
         pc' = [pc EXCEPT ![w] = l], key' = [key EXCEPT ![w] = k],
         \A j \in Keys : cache[j] = NoEntry => cache'[j] = NoEntry,
         \/ l \notin {"open", "read", "put"}
         \/ cache'[k] = NoEntry
         \/ k = key[w] /\ pc[w] \in {"open", "read", "put"}
  PROVE  Behind' \subseteq Behind
<1>0. \A v \in Workers : pc[v] \in {"open", "read", "put"} => key[v] \in Keys
  BY DEF WorkersInv, WorkerOK, Servable
<1>1. ASSUME NEW v \in Workers, pc'[v] \in {"open", "read", "put"}, cache'[key'[v]] # NoEntry
      PROVE  pc[v] \in {"open", "read", "put"} /\ cache[key[v]] # NoEntry
  <2>1. CASE v = w
    <3>1. pc'[v] = l /\ key'[v] = k
      BY <2>1 DEF WorkersInv
    <3> QED
      BY <1>0, <1>1, <2>1, <3>1
  <2>2. CASE v # w
    <3>1. pc'[v] = pc[v] /\ key'[v] = key[v]
      BY <2>2 DEF WorkersInv
    <3> QED
      BY <1>0, <1>1, <2>2, <3>1
  <2> QED
    BY <2>1, <2>2
<1> QED
  BY <1>1 DEF Behind

\* The sizes the cache keeps book of are numbers.
LEMMA CurrentSizes ==
  /\ IInv => current_size \in Nat /\ cache \in [Keys -> Entries \cup {NoEntry}]
  /\ IInv' => current_size' \in Nat
  BY DEF IInv, CacheTypeOK

\* A step of a worker that leaves the cache alone keeps the whole invariant, if
\* it takes the worker where it may be, not past a lookup, and answers well.
LEMMA QuietStep ==
  ASSUME FileInv, NEW w \in Workers, NEW l, NEW k,
         UNCHANGED <<cacheVars, disk, changes, gone>>, WorkersInv', AnswerInv',
         pc' = [pc EXCEPT ![w] = l], key' = [key EXCEPT ![w] = k],
         \/ l \notin {"open", "read", "put"}
         \/ k = key[w] /\ pc[w] \in {"open", "read", "put"}
  PROVE  FileInv'
<1>1. IInv' /\ EntriesInv' /\ DiskInv'
  BY CacheAlone
<1>2. cache' = cache /\ current_size' = current_size
  BY DEF cacheVars
<1>3. Behind' \subseteq Behind
  BY <1>2, NotBehind DEF FileInv
<1>4. RoomInv'
  BY <1>2, <1>3, RoomStays, CurrentSizes DEF FileInv
<1> QED
  BY <1>1, <1>4 DEF FileInv

\* So does one that only returns.
LEMMA QuietReturn ==
  ASSUME FileInv, NEW w \in Workers, UNCHANGED <<cacheVars, disk, changes, gone>>,
         Return(w, NoAnswer)
  PROVE  FileInv'
<1>1. /\ WorkersInv' /\ answer' = NoAnswer
      /\ pc' = [pc EXCEPT ![w] = "idle"] /\ key' = [key EXCEPT ![w] = NoPath]
  BY WorkerReturns DEF FileInv
<1>2. AnswerInv'
  BY <1>1, NoAnswerOK DEF AnswerInv
<1> QED
  BY <1>1, <1>2, QuietStep

\* Or one that goes on with a path, a file and a time it may have.
LEMMA QuietContinue ==
  ASSUME FileInv, NEW w \in Workers, NEW l, NEW k, NEW x,
         UNCHANGED <<cacheVars, disk, changes, gone, held>>, Continue(w, l),
         key' = [key EXCEPT ![w] = k], file' = [file EXCEPT ![w] = x],
         WorkerOK(gone, l, k, x, held[w]),
         \/ l \notin {"open", "read", "put"}
         \/ k = key[w] /\ pc[w] \in {"open", "read", "put"}
  PROVE  FileInv'
<1>1. pc' = [pc EXCEPT ![w] = l] /\ answer' = NoAnswer
  BY DEF Continue
<1>2. held' = [held EXCEPT ![w] = held[w]]
  BY DEF FileInv, WorkersInv
<1>3. WorkersInv'
  BY <1>1, <1>2, WorkerMoves DEF FileInv
<1>4. AnswerInv'
  BY <1>1, NoAnswerOK DEF AnswerInv
<1> QED
  BY <1>1, <1>3, <1>4, QuietStep

-------------------------------------------------------------------------------
(* The steps *)

\* What the invariant says of one worker.
LEMMA OfWorker ==
  ASSUME FileInv, NEW w \in Workers
  PROVE  /\ WorkerOK(gone, pc[w], key[w], file[w], held[w])
         /\ key = [key EXCEPT ![w] = key[w]] /\ file = [file EXCEPT ![w] = file[w]]
         /\ held = [held EXCEPT ![w] = held[w]]
         /\ file[w] \in FileStates /\ held[w] \in 0..RequestSecs
  BY DEF FileInv, WorkersInv

\* handle_file_request resolves and judges the path.
LEMMA BeginStep ==
  ASSUME FileInv, NEW w \in Workers, NEW path \in Requests, RequestBegin(w, path)
  PROVE  FileInv'
<1> DEFINE k == resolve_path(path)
           l == IF canonical(k) \in Dirs THEN "directory" ELSE "inspect"
<1>1. UNCHANGED <<cacheVars, disk, changes, gone>>
  BY DEF RequestBegin
<1>2. CASE Return(w, NoAnswer)
  BY <1>1, <1>2, QuietReturn
<1>3. CASE /\ is_safe_path(k) /\ Exists(canonical(k))
           /\ Continue(w, l)
           /\ key' = [key EXCEPT ![w] = k] /\ UNCHANGED <<file, held>>
  <2>1. k \in Admitted
    BY <1>3 DEF Admitted
  <2>2. canonical(k) \in Dirs \cup Files
    BY <1>3 DEF Exists
  <2>3. BelowRoot(canonical(k))
    BY <1>3, <2>2 DEF is_safe_path, BelowRoot
  <2>4. canonical(k) \in Files => Servable(k)
    BY <2>1, <2>3, KeyAssumption DEF Servable
  <2>5. \/ l = "directory" /\ canonical(k) \in Dirs
        \/ l = "inspect" /\ Servable(k)
    BY <2>2, <2>4
  <2>6. WorkerOK(gone, l, k, file[w], held[w])
    BY <2>1, <2>5, OfWorker DEF WorkerOK
  <2>7. file' = [file EXCEPT ![w] = file[w]] /\ held' = held
    BY <1>3, OfWorker
  <2>8. l \notin {"open", "read", "put"}
    BY <2>5
  <2> HIDE DEF k, l
  <2> QED
    BY <1>1, <1>3, <2>6, <2>7, <2>8, QuietContinue
<1> QED
  BY <1>2, <1>3 DEF RequestBegin, Error

\* A directory is replaced by its default file, or listed.
LEMMA DirectoryStep ==
  ASSUME FileInv, NEW w \in Workers, RequestDirectory(w)
  PROVE  FileInv'
<1> DEFINE k == Default(key[w])
<1>1. UNCHANGED <<cacheVars, disk, changes, gone>> /\ pc[w] = "directory"
  BY DEF RequestDirectory
<1>2. CASE Return(w, NoAnswer)
  BY <1>1, <1>2, QuietReturn
<1>3. CASE /\ canonical(k) \in Files /\ key' = [key EXCEPT ![w] = k]
           /\ Continue(w, "inspect") /\ UNCHANGED <<file, held>>
  <2>1. key[w] \in Admitted /\ canonical(key[w]) \in Dirs
    BY <1>1, OfWorker DEF WorkerOK
  <2>2. Servable(k)
    BY <1>3, <2>1, KeyAssumption DEF Servable, DefaultsBelowRoot
  <2>3. WorkerOK(gone, "inspect", k, file[w], held[w])
    BY <2>2, OfWorker DEF WorkerOK, Servable
  <2>4. file' = [file EXCEPT ![w] = file[w]] /\ held' = held
    BY <1>3, OfWorker
  <2> HIDE DEF k
  <2> QED
    BY <1>1, <1>3, <2>3, <2>4, QuietContinue
<1> QED
  BY <1>2, <1>3 DEF RequestDirectory, create_directory_listing, Error

\* The file is looked at.
LEMMA InspectStep ==
  ASSUME FileInv, NEW w \in Workers, RequestInspect(w)
  PROVE  FileInv'
<1>1. UNCHANGED <<cacheVars, disk, changes, gone>> /\ pc[w] = "inspect"
  BY DEF RequestInspect
<1>2. CASE Return(w, NoAnswer)
  BY <1>1, <1>2, QuietReturn
<1>3. CASE Continue(w, "lookup") /\ UNCHANGED <<key, file, held>>
  <2>1. WorkerOK(gone, "lookup", key[w], file[w], held[w])
    BY <1>1, OfWorker DEF WorkerOK
  <2>2. key' = [key EXCEPT ![w] = key[w]] /\ file' = [file EXCEPT ![w] = file[w]] /\ held' = held
    BY <1>3, OfWorker
  <2> QED
    BY <1>1, <1>3, <2>1, <2>2, QuietContinue
<1> QED
  BY <1>2, <1>3 DEF RequestInspect, Error

\* The lookup: a hit is answered with an entry that has not expired; after a miss
\* nothing is cached under the key.
LEMMA LookupStep ==
  ASSUME FileInv, NEW w \in Workers, RequestLookup(w)
  PROVE  FileInv'
<1> DEFINE k == key[w]
<1>1. /\ UNCHANGED <<disk, changes, gone>> /\ pc[w] = "lookup" /\ get(k)
      /\ Servable(k) /\ k \in Keys
  BY OfWorker DEF RequestLookup, WorkerOK, Servable
<1>2. IInv /\ WorkersInv /\ EntriesInv /\ DiskInv /\ RoomInv
  BY DEF FileInv
<1>3. IInv'
  BY <1>1, <1>2, GetStep
<1>4. /\ \A j \in Keys : cache'[j] = cache[j] \/ cache'[j] = NoEntry
      /\ ~Hit(k) => cache'[k] = NoEntry
      /\ current_size' <= current_size
  BY <1>1, <1>2, GetEffect
<1>5. EntriesInv' /\ DiskInv'
  BY <1>1, <1>2, <1>4, EntriesStay, DiskStays
<1>6. ASSUME NEW l, NEW j, pc' = [pc EXCEPT ![w] = l], key' = [key EXCEPT ![w] = j],
             l = "idle" \/ cache'[j] = NoEntry
      PROVE  RoomInv'
  <2>1. \A i \in Keys : cache[i] = NoEntry => cache'[i] = NoEntry
    BY <1>4
  <2>2. l \notin {"open", "read", "put"} \/ cache'[j] = NoEntry
    BY <1>6
  <2> HIDE DEF k
  <2>3. Behind' \subseteq Behind
    BY <1>2, <1>6, <2>1, <2>2, NotBehind
  <2> QED
    BY <1>2, <1>3, <1>4, <2>3, RoomStays, CurrentSizes
<1>7. CASE Hit(k) /\ Ok(w, k, cache[k].data)
  <2> DEFINE a == cache[k].age + RequestSecs
  <2>1. Within(gone[canonical(k)], cache[k].data, a)
    BY <1>1, <1>2, <1>7 DEF EntriesInv, EntryOK, Hit
  <2>2. cache[k].age \in Nat /\ RequestSecs \in Nat /\ TTL \in Nat
    BY <1>1, <1>2, <1>7, CurrentSizes, FileAssumption, CacheAssumption DEF Hit, Entries
  <2>3. a \in Nat /\ (TTL > 0 => a < TTL + RequestSecs)
    BY <1>7, <2>2 DEF Hit, is_expired
  <2> HIDE DEF a, k
  <2>4. /\ WorkersInv' /\ AnswerInv'
        /\ pc' = [pc EXCEPT ![w] = "idle"] /\ key' = [key EXCEPT ![w] = NoPath]
    BY <1>1, <1>2, <1>7, <2>1, <2>3, AnswerGiven
  <2>5. RoomInv'
    BY <1>6, <2>4
  <2> QED
    BY <1>3, <1>5, <2>4, <2>5 DEF FileInv
<1>8. CASE ~Hit(k) /\ Continue(w, "open") /\ UNCHANGED <<key, file, held>>
  <2>1. WorkerOK(gone, "open", k, file[w], held[w])
    BY <1>1, OfWorker DEF WorkerOK
  <2>2. /\ pc' = [pc EXCEPT ![w] = "open"] /\ key' = [key EXCEPT ![w] = k]
        /\ file' = [file EXCEPT ![w] = file[w]] /\ held' = [held EXCEPT ![w] = held[w]]
        /\ answer' = NoAnswer
    BY <1>8, OfWorker DEF Continue
  <2>3. cache'[k] = NoEntry
    BY <1>4, <1>8
  <2> HIDE DEF k
  <2>4. WorkersInv'
    BY <1>1, <1>2, <2>1, <2>2, WorkerMoves
  <2>5. RoomInv'
    BY <1>6, <2>2, <2>3
  <2>6. AnswerInv'
    BY <2>2, NoAnswerOK DEF AnswerInv
  <2> QED
    BY <1>3, <1>5, <2>4, <2>5, <2>6 DEF FileInv
<1> QED
  BY <1>7, <1>8 DEF RequestLookup

\* read_file opens what the file holds now.
LEMMA OpenStep ==
  ASSUME FileInv, NEW w \in Workers, ReadOpen(w)
  PROVE  FileInv'
<1> DEFINE k == key[w]
           d == disk[canonical(k)]
           x == [size |-> SizeOf[d], data |-> d, linked |-> TRUE]
<1>1. UNCHANGED <<cacheVars, disk, changes, gone>> /\ pc[w] = "open"
  BY DEF ReadOpen
<1>2. CASE Return(w, NoAnswer)
  BY <1>1, <1>2, QuietReturn
<1>3. CASE /\ d # Absent /\ file' = [file EXCEPT ![w] = x]
           /\ Continue(w, "read") /\ UNCHANGED <<key, held>>
  <2>1. Servable(k) /\ canonical(k) \in Files /\ held[w] \in 0..RequestSecs
    BY <1>1, OfWorker DEF WorkerOK, Servable
  <2>2. d \in Contents /\ gone[canonical(k)][d] = 0
    BY <1>3, <2>1 DEF FileInv, DiskInv
  <2>3. d \in Data /\ SizeOf[d] \in Nat
    BY <2>2, Beginnings
  <2>4. x \in FileStates /\ x.data = d
    BY <2>3 DEF FileStates
  <2> HIDE DEF x, d
  <2>5. 0 <= held[w]
    BY <2>1
  <2>6. WorkerOK(gone, "read", k, x, held[w])
    BY <2>1, <2>2, <2>4, <2>5, OfWorker DEF WorkerOK
  <2>7. key' = [key EXCEPT ![w] = k] /\ held' = held
    BY <1>3, OfWorker
  <2> HIDE DEF k
  <2>8. k = key[w]
    BY DEF k
  <2> QED
    BY <1>1, <1>3, <2>6, <2>7, <2>8, QuietContinue
<1> QED
  BY <1>2, <1>3 DEF ReadOpen, Error

\* And reads as many bytes as it had then of what the open file holds by now.
LEMMA ReadStep ==
  ASSUME FileInv, NEW w \in Workers, ReadContents(w)
  PROVE  FileInv'
<1> DEFINE k == key[w]
           d == file[w].data
           n == file[w].size
           data == SubSeq(d, 1, n)
           x == [file[w] EXCEPT !.data = data]
<1>1. UNCHANGED <<cacheVars, disk, changes, gone>> /\ pc[w] = "read"
  BY DEF ReadContents
<1>2. /\ Servable(k) /\ canonical(k) \in Files /\ d \in Contents
      /\ gone[canonical(k)][d] <= held[w] /\ held[w] \in Nat /\ held[w] <= RequestSecs
      /\ file[w] \in FileStates
  BY <1>1, OfWorker, FileAssumption DEF WorkerOK, Servable
<1>3. CASE Return(w, NoAnswer)
  BY <1>1, <1>3, QuietReturn
<1>4. ASSUME SizeOf[d] >= n
      PROVE  data \in Data /\ Within(gone[canonical(k)], data, held[w])
  <2>1. SizeOf[d] = Len(d) /\ Len(d) \in Nat /\ n \in Nat
    BY <1>2, Beginnings DEF FileStates
  <2>2. n \in 0..Len(d)
    BY <1>4, <2>1
  <2> HIDE DEF d, n
  <2>3. data \in Data /\ BeginsWith(d, data)
    BY <1>2, <2>2, Beginnings
  <2> QED
    BY <1>2, <2>3 DEF Within
<1>5. CASE SizeOf[d] >= n /\ Ok(w, k, data)
  <2>1. TTL > 0 => held[w] < TTL + RequestSecs
    BY <1>2, CacheAssumption, FileAssumption
  <2> HIDE DEF k, d, data
  <2>2. /\ WorkersInv' /\ AnswerInv'
        /\ pc' = [pc EXCEPT ![w] = "idle"] /\ key' = [key EXCEPT ![w] = NoPath]
    BY <1>1, <1>2, <1>4, <1>5, <2>1, AnswerGiven DEF FileInv
  <2> QED
    BY <1>1, <2>2, QuietStep
<1>6. CASE /\ SizeOf[d] >= n /\ SizeOf[data] < CacheFileLimit
           /\ file' = [file EXCEPT ![w] = x]
           /\ Continue(w, "put") /\ UNCHANGED <<key, held>>
  <2>1. x \in FileStates /\ x.data = data
    BY <1>2, <1>4, <1>6 DEF FileStates
  <2> HIDE DEF x, data, d
  <2>2. WorkerOK(gone, "put", k, x, held[w])
    BY <1>2, <1>4, <1>6, <2>1, OfWorker DEF WorkerOK
  <2>3. key' = [key EXCEPT ![w] = k] /\ held' = held
    BY <1>6, OfWorker
  <2> HIDE DEF k
  <2>4. k = key[w]
    BY DEF k
  <2> QED
    BY <1>1, <1>6, <2>2, <2>3, <2>4, QuietContinue
<1>7. file' = [file EXCEPT ![w].data = data] => file' = [file EXCEPT ![w] = x]
  OBVIOUS
<1> HIDE DEF x
<1> QED
  BY <1>3, <1>5, <1>6, <1>7 DEF ReadContents, Error

\* A replacement adds at most one file's growth, and its worker is then no longer
\* behind.
LEMMA RoomForReplacement ==
  ASSUME FileInv, IInv', NEW w \in Workers, NEW d \in Data, pc[w] = "put",
         PutReplace(key[w], d), SizeOf[d] < CacheFileLimit,
         pc' = [pc EXCEPT ![w] = "idle"], key' = [key EXCEPT ![w] = NoPath]
  PROVE  RoomInv'
<1> DEFINE k == key[w]
           n == Cardinality(Behind)
           m == Cardinality(Behind \ {w})
           old == SizeOf[cache[k].data]
           limit == MaxSize + Growth(Cardinality(Workers) - 1)
<1>1. IInv /\ WorkersInv /\ EntriesInv /\ RoomInv /\ k \in Keys
  BY OfWorker DEF FileInv, WorkerOK, Servable
<1>2. /\ cache[k] # NoEntry /\ \A l \in Keys : l # k => cache'[l] = cache[l]
      /\ current_size' = current_size - old + SizeOf[d]
  BY <1>1, ReplaceEffect
<1>3. w \in Behind
  BY <1>2 DEF Behind
<1>4. Behind' \subseteq Behind
  BY <1>1, <1>2, NotBehind
<1>5. pc'[w] = "idle"
  BY <1>1 DEF WorkersInv
<1>6. Behind' \subseteq Behind \ {w}
  BY <1>4, <1>5 DEF Behind
<1>7. n \in Nat /\ m \in Nat /\ n = m + 1 /\ IsFiniteSet(Behind \ {w})
  <2>1. IsFiniteSet(Behind \ {w}) /\ m = n - 1 /\ n \in Nat
    BY <1>3, WorkersCounted, FS_RemoveElement
  <2>2. m \in Nat
    BY <2>1, FS_CardinalityType
  <2> QED
    BY <2>1, <2>2
<1>8. Cardinality(Behind') \in Nat /\ Cardinality(Behind') <= m
  BY <1>6, <1>7, FS_Subset, FS_CardinalityType
<1>9. old >= 1 /\ old \in Nat /\ SizeOf[d] \in Nat /\ SizeOf[d] <= CacheFileLimit - 1
      /\ CacheFileLimit \in Nat /\ current_size \in Nat /\ current_size' \in Nat
  <2>1. cache[k].data \in Data
    BY <1>1, <1>2, CurrentSizes DEF Entries
  <2>2. old >= 1
    BY <1>1, <1>2 DEF EntriesInv, EntryOK
  <2>3. current_size \in Nat /\ current_size' \in Nat
    BY <1>1 DEF IInv, CacheTypeOK
  <2> QED
    BY <2>1, <2>2, <2>3, CacheAssumption, FileAssumption
<1>10. /\ Growth(Cardinality(Behind')) \in Nat /\ Growth(m) \in Nat
       /\ Growth(Cardinality(Behind')) <= Growth(m)
       /\ Growth(n) = Growth(m) + (CacheFileLimit - 2)
  BY <1>7, <1>8, GrowthGrows
<1>11. limit \in Nat /\ current_size + Growth(n) <= limit
  <2>1. Growth(Cardinality(Workers) - 1) \in Nat
    BY WorkersCounted, GrowthGrows
  <2> QED
    BY <1>1, <2>1, CacheAssumption DEF RoomInv
<1> HIDE DEF n, m, old, limit
<1>12. current_size' + Growth(Cardinality(Behind')) <= limit
  BY <1>2, <1>9, <1>10, <1>11
<1> QED
  BY <1>12 DEF RoomInv, limit

\* After an insertion the limit holds again, and every other worker may be behind.
LEMMA RoomAfterInsertion ==
  ASSUME FileInv, IInv', NEW w \in Workers, current_size' <= MaxSize,
         pc' = [pc EXCEPT ![w] = "idle"]
  PROVE  RoomInv'
<1> DEFINE n == Cardinality(Workers) - 1
           m == Cardinality(Behind')
<1>1. pc'[w] = "idle"
  BY DEF FileInv, WorkersInv
<1>2. Behind' \subseteq Workers \ {w}
  BY <1>1 DEF Behind
<1>3. IsFiniteSet(Workers \ {w}) /\ Cardinality(Workers \ {w}) = n
  BY FileAssumption, FS_RemoveElement
<1>4. m \in Nat /\ m <= n /\ n \in Nat
  BY <1>2, <1>3, WorkersCounted, FS_Subset, FS_CardinalityType
<1>5. Growth(m) \in Nat /\ Growth(n) \in Nat /\ Growth(m) <= Growth(n)
  BY <1>4, GrowthGrows
<1>6. MaxSize \in Nat /\ current_size' \in Nat
  BY CacheAssumption DEF IInv, CacheTypeOK
<1> HIDE DEF n, m
<1>7. current_size' + Growth(m) <= MaxSize + Growth(n)
  BY <1>5, <1>6
<1> QED
  BY <1>7 DEF RoomInv, n, m

\* What was read is cached, and answered.
LEMMA PutFileStep ==
  ASSUME FileInv, NEW w \in Workers, RequestPut(w)
  PROVE  FileInv'
<1> DEFINE k == key[w]
           d == file[w].data
<1>1. /\ UNCHANGED <<disk, changes, gone>> /\ pc[w] = "put"
      /\ put(k, d) /\ Ok(w, k, d)
  BY DEF RequestPut
<1>2. /\ Servable(k) /\ k \in Keys /\ canonical(k) \in Files
      /\ d \in Data /\ SizeOf[d] < CacheFileLimit /\ SizeOf[d] \in Nat
      /\ Within(gone[canonical(k)], d, held[w])
      /\ held[w] \in Nat /\ held[w] <= RequestSecs /\ RequestSecs \in Nat /\ TTL \in Nat
  BY <1>1, OfWorker, FileAssumption, CacheAssumption DEF WorkerOK, Servable
<1>3. IInv /\ WorkersInv /\ EntriesInv /\ DiskInv /\ RoomInv
  BY DEF FileInv
<1>4. IInv'
  BY <1>1, <1>2, <1>3, PutStep
<1>5. DiskInv'
  BY <1>1, <1>3, DiskStays
<1>6. TTL > 0 => held[w] < TTL + RequestSecs
  BY <1>2
<1>7. /\ WorkersInv' /\ AnswerInv'
      /\ pc' = [pc EXCEPT ![w] = "idle"] /\ key' = [key EXCEPT ![w] = NoPath]
  <2> HIDE DEF k, d
  <2> QED
    BY <1>1, <1>2, <1>3, <1>6, AnswerGiven
<1>8. EntriesInv'
  <2>1. gone[canonical(k)] \in [Contents -> 0..AgeCap] /\ AgeCap \in Nat
    BY <1>2, <1>3, FileAssumption, CacheAssumption DEF DiskInv, AgeCap
  <2>2. Within(gone[canonical(k)], d, 0 + RequestSecs)
    BY <1>2, <2>1 DEF Within
  <2>3. SizeOf[d] > 0 => EntryOK(gone, k, NewEntry(d))
    BY <1>2, <2>2 DEF EntryOK, NewEntry
  <2>4. \A l \in Keys : \/ cache'[l] = cache[l] \/ cache'[l] = NoEntry
                        \/ EntryOK(gone, l, cache'[l])
    BY <1>1, <1>2, <1>3, <2>3, PutEffect
  <2> QED
    BY <1>1, <1>3, <2>4, EntriesStay
<1>9. RoomInv'
  <2>1. CASE UNCHANGED cacheVars \/ PutTooLarge(k, d)
    <3>1. /\ \A l \in Keys : cache[l] = NoEntry => cache'[l] = NoEntry
          /\ current_size' <= current_size
      BY <1>2, <1>3, <2>1, CurrentSizes, TooLargeEffect DEF cacheVars
    <3>2. Behind' \subseteq Behind
      BY <1>3, <1>7, <3>1, NotBehind
    <3> QED
      BY <1>3, <1>4, <3>1, <3>2, RoomStays, CurrentSizes
  <2>2. CASE PutReplace(k, d)
    <3> HIDE DEF d
    <3> QED
      BY <1>1, <1>2, <1>4, <1>7, <2>2, RoomForReplacement
  <2>3. CASE PutInsert(k, d)
    <3>1. current_size' <= MaxSize
      BY <1>2, <1>3, <2>3, InsertEffect
    <3> QED
      BY <1>4, <1>7, <3>1, RoomAfterInsertion
  <2> QED
    BY <1>1, <2>1, <2>2, <2>3 DEF put
<1> QED
  BY <1>4, <1>5, <1>7, <1>8, <1>9 DEF FileInv

\* clear_cache forgets all entries.
LEMMA ClearFileStep ==
  ASSUME FileInv, clear_cache
  PROVE  FileInv'
<1>1. /\ clear /\ answer' = NoAnswer
      /\ UNCHANGED <<disk, changes, gone, pc, key, file, held>>
  BY DEF clear_cache
<1>2. IInv /\ WorkersInv /\ EntriesInv /\ DiskInv /\ RoomInv
  BY DEF FileInv
<1>3. IInv'
  BY <1>1, <1>2, ClearStep
<1>4. WorkersInv'
  BY <1>1, <1>2 DEF WorkersInv
<1>5. (\A k \in Keys : cache'[k] = NoEntry) /\ current_size' = 0
  BY <1>1 DEF clear
<1>6. EntriesInv' /\ DiskInv'
  BY <1>1, <1>2, <1>5, DiskStays DEF EntriesInv
<1>7. AnswerInv'
  BY <1>1, NoAnswerOK DEF AnswerInv
<1>8. Behind' \subseteq Behind
  <2>1. \A w \in Workers : pc[w] \in {"open", "read", "put"} => key[w] \in Keys
    BY OfWorker DEF WorkerOK, Servable
  <2> QED
    BY <1>1, <1>5, <2>1 DEF Behind
<1>9. RoomInv'
  BY <1>2, <1>3, <1>5, <1>8, RoomStays, CurrentSizes
<1> QED
  BY <1>3, <1>4, <1>6, <1>7, <1>9 DEF FileInv

\* A file changes: what it held before grows no older by that, what it holds now
\* is new, and whoever has it open sees what it held or what it holds.
LEMMA ChangeStep ==
  ASSUME FileInv, NEW f \in Files, NEW d \in Contents \cup {Absent}, Holds(f, d),
         file' \in [Workers -> FileStates],
         \A w \in Workers :
           \/ file'[w].data = file[w].data
           \/ pc[w] = "read" /\ canonical(key[w]) = f /\ file'[w].data = d /\ d \in Contents
  PROVE  FileInv'
<1>1. /\ changes < MaxChanges /\ changes' = changes + 1 /\ answer' = NoAnswer
      /\ disk' = [disk EXCEPT ![f] = d]
      /\ gone' = [gone EXCEPT ![f] = [e \in Contents |-> IF e = d THEN 0 ELSE gone[f][e]]]
      /\ UNCHANGED <<cacheVars, pc, key, held>>
  BY DEF Holds
<1>2. IInv /\ WorkersInv /\ EntriesInv /\ DiskInv /\ RoomInv
  BY DEF FileInv
<1>3. AgeCap \in Nat /\ RequestSecs \in Nat /\ MaxChanges \in Nat /\ TTL \in Nat
  BY FileAssumption, CacheAssumption DEF AgeCap
<1>4. /\ gone \in [Files -> [Contents -> 0..AgeCap]]
      /\ gone'[f] = [e \in Contents |-> IF e = d THEN 0 ELSE gone[f][e]]
      /\ \A g \in Files : g # f => gone'[g] = gone[g]
  BY <1>1, <1>2 DEF DiskInv
<1>5. gone'[f] \in [Contents -> 0..AgeCap]
  <2>1. gone[f] \in [Contents -> 0..AgeCap]
    BY <1>4
  <2> QED
    BY <1>3, <1>4, <2>1
<1>6. gone' \in [Files -> [Contents -> 0..AgeCap]]
  BY <1>1, <1>2, <1>4, <1>5 DEF DiskInv
<1>7. ASSUME NEW g \in Files, NEW c \in Contents
      PROVE  /\ gone'[g][c] <= gone[g][c] /\ gone'[g][c] \in Nat /\ gone[g][c] \in Nat
             /\ g = f /\ c = d => gone'[g][c] = 0
  <2>1. gone[g] \in [Contents -> 0..AgeCap] /\ gone'[g] \in [Contents -> 0..AgeCap]
    BY <1>4, <1>6
  <2>2. gone[g][c] \in Nat /\ gone'[g][c] \in Nat
    BY <1>3, <2>1
  <2> QED
    BY <1>4, <2>2
<1>8. ASSUME NEW g \in Files, NEW data, NEW a \in Nat, Within(gone[g], data, a)
      PROVE  Within(gone'[g], data, a)
  BY <1>7, <1>8 DEF Within
<1>9. DiskInv'
  <2>1. disk' \in [Files -> Contents \cup {Absent}] /\ changes' \in 0..MaxChanges
    BY <1>1, <1>2, <1>3 DEF DiskInv
  <2>2. ASSUME NEW g \in Files, disk'[g] # Absent PROVE gone'[g][disk'[g]] = 0
    <3>1. CASE g = f
      <4>1. disk'[g] = d /\ d \in Contents
        BY <1>1, <1>2, <2>2, <3>1 DEF DiskInv
      <4> QED
        BY <1>7, <3>1, <4>1
    <3>2. CASE g # f
      <4>1. disk'[g] = disk[g] /\ gone'[g] = gone[g]
        BY <1>1, <1>2, <1>4, <3>2 DEF DiskInv
      <4> QED
        BY <1>2, <2>2, <4>1 DEF DiskInv
    <3> QED
      BY <3>1, <3>2
  <2> QED
    BY <1>6, <2>1, <2>2 DEF DiskInv
<1>10. WorkersInv'
  <2>1. ASSUME NEW w \in Workers PROVE WorkerOK(gone', pc[w], key[w], file'[w], held[w])
    <3>1. WorkerOK(gone, pc[w], key[w], file[w], held[w]) /\ held[w] \in Nat
      BY <1>2, <1>3 DEF WorkersInv, WorkerOK
    <3>2. ASSUME pc[w] = "read"
          PROVE  /\ file'[w].data \in Contents
                 /\ gone'[canonical(key[w])][file'[w].data] <= held[w]
      <4>1. /\ canonical(key[w]) \in Files /\ file[w].data \in Contents
            /\ gone[canonical(key[w])][file[w].data] <= held[w]
        BY <3>1, <3>2 DEF WorkerOK, Servable
      <4>2. CASE file'[w].data = file[w].data
        <5>1. /\ gone'[canonical(key[w])][file[w].data] <= gone[canonical(key[w])][file[w].data]
              /\ gone'[canonical(key[w])][file[w].data] \in Nat
              /\ gone[canonical(key[w])][file[w].data] \in Nat
          BY <1>7, <4>1
        <5> QED
          BY <3>1, <4>1, <4>2, <5>1
      <4>3. CASE canonical(key[w]) = f /\ file'[w].data = d /\ d \in Contents
        <5>1. gone'[f][d] = 0
          BY <1>7, <4>3
        <5> QED
          BY <3>1, <4>3, <5>1
      <4> QED
        BY <4>2, <4>3
    <3>3. ASSUME pc[w] = "put"
          PROVE  /\ file'[w].data \in Data /\ SizeOf[file'[w].data] < CacheFileLimit
                 /\ Within(gone'[canonical(key[w])], file'[w].data, held[w])
      <4>1. file'[w].data = file[w].data
        BY <3>3
      <4>2. /\ canonical(key[w]) \in Files /\ Within(gone[canonical(key[w])], file[w].data, held[w])
            /\ file[w].data \in Data /\ SizeOf[file[w].data] < CacheFileLimit
        BY <3>1, <3>3 DEF WorkerOK, Servable
      <4>3. Within(gone'[canonical(key[w])], file[w].data, held[w])
        BY <1>8, <3>1, <4>2
      <4> QED
        BY <4>1, <4>2, <4>3
    <3> QED
      BY <3>1, <3>2, <3>3 DEF WorkerOK
  <2> QED
    BY <1>1, <1>2, <2>1 DEF WorkersInv
<1>11. cache' = cache /\ current_size' = current_size
  BY <1>1 DEF cacheVars
<1>12. EntriesInv'
  <2>1. ASSUME NEW k \in Keys, cache[k] # NoEntry PROVE EntryOK(gone', k, cache[k])
    <3>1. EntryOK(gone, k, cache[k]) /\ cache[k].age + RequestSecs \in Nat
      BY <1>2, <1>3, <2>1, CurrentSizes DEF EntriesInv, Entries
    <3> QED
      BY <1>8, <3>1 DEF EntryOK
  <2> QED
    BY <1>11, <2>1 DEF EntriesInv
<1>13. IInv'
  BY <1>1, <1>2, Unchanged
<1>14. RoomInv'
  BY <1>1, <1>2, <1>11 DEF RoomInv, Behind
<1>15. AnswerInv'
  BY <1>1, NoAnswerOK DEF AnswerInv
<1> QED
  BY <1>9, <1>10, <1>12, <1>13, <1>14, <1>15 DEF FileInv

\* A file is created, removed or replaced.
LEMMA ReplacedStep ==
  ASSUME FileInv, NEW f \in Files, NEW d \in Contents \cup {Absent}, FileReplaced(f, d)
  PROVE  FileInv'
<1>1. /\ Holds(f, d)
      /\ file' = [w \in Workers |-> IF w \in OpenBy(f) THEN [file[w] EXCEPT !.linked = FALSE]
                                   ELSE file[w]]
  BY DEF FileReplaced
<1>2. ASSUME NEW w \in Workers PROVE file'[w] \in FileStates /\ file'[w].data = file[w].data
  <2>1. file[w] \in FileStates
    BY OfWorker
  <2> QED
    BY <1>1, <2>1 DEF FileStates
<1>3. file' \in [Workers -> FileStates]
  BY <1>1, <1>2
<1> QED
  BY <1>1, <1>2, <1>3, ChangeStep

\* A file is written in place.
LEMMA WrittenStep ==
  ASSUME FileInv, NEW f \in Files, NEW d \in Contents, FileWritten(f, d)
  PROVE  FileInv'
<1>1. /\ Holds(f, d)
      /\ file' = [w \in Workers |-> IF w \in OpenBy(f) THEN [file[w] EXCEPT !.data = d]
                                   ELSE file[w]]
  BY DEF FileWritten
<1>2. d \in Data
  BY FileAssumption
<1>3. ASSUME NEW w \in Workers
      PROVE  /\ file'[w] \in FileStates
             /\ \/ file'[w].data = file[w].data
                \/ pc[w] = "read" /\ canonical(key[w]) = f /\ file'[w].data = d
  <2>1. file[w] \in FileStates
    BY OfWorker
  <2>2. CASE w \in OpenBy(f)
    <3>1. pc[w] = "read" /\ canonical(key[w]) = f
      BY <2>2 DEF OpenBy
    <3> QED
      BY <1>1, <1>2, <2>1, <2>2, <3>1 DEF FileStates
  <2>3. CASE w \notin OpenBy(f)
    BY <1>1, <2>1, <2>3
  <2> QED
    BY <2>2, <2>3
<1>4. file' \in [Workers -> FileStates]
  BY <1>1, <1>3
<1> QED
  BY <1>1, <1>3, <1>4, ChangeStep

\* A second passes: contents, entries and open files grow older together, and
\* no entry and no history beyond its bound.
LEMMA SecondStep ==
  ASSUME FileInv, SecondPasses
  PROVE  FileInv'
<1>1. /\ \A w \in Workers : pc[w] \in {"read", "put"} => held[w] < RequestSecs
      /\ Tick /\ answer' = NoAnswer
      /\ gone' = [f \in Files |-> [d \in Contents |->
                   IF disk[f] = d THEN 0
                   ELSE IF gone[f][d] < AgeCap THEN gone[f][d] + 1 ELSE AgeCap]]
      /\ held' = [w \in Workers |-> IF pc[w] \in {"read", "put"} THEN held[w] + 1 ELSE 0]
      /\ UNCHANGED <<disk, changes, pc, key, file>>
  BY DEF SecondPasses
<1>2. IInv /\ WorkersInv /\ EntriesInv /\ DiskInv /\ RoomInv
  BY DEF FileInv
<1>3. AgeCap \in Nat /\ RequestSecs \in Nat /\ TTL \in Nat /\ AgeCap = TTL + RequestSecs
  BY FileAssumption, CacheAssumption DEF AgeCap
<1>4. IInv'
  BY <1>1, <1>2, TickStep
<1>5. ASSUME NEW f \in Files, NEW c \in Contents
      PROVE  /\ gone'[f][c] \in 0..AgeCap /\ gone[f][c] \in 0..AgeCap
             /\ gone'[f][c] <= gone[f][c] + 1 /\ gone'[f][c] <= AgeCap
             /\ disk[f] = c => gone'[f][c] = 0
  <2>1. gone[f] \in [Contents -> 0..AgeCap]
    BY <1>2 DEF DiskInv
  <2>2. gone[f][c] \in 0..AgeCap
    BY <2>1
  <2>3. gone'[f][c] = IF disk[f] = c THEN 0
                      ELSE IF gone[f][c] < AgeCap THEN gone[f][c] + 1 ELSE AgeCap
    BY <1>1
  <2> QED
    BY <1>3, <2>2, <2>3
<1>6. DiskInv'
  <2>1. gone' \in [Files -> [Contents -> 0..AgeCap]]
    BY <1>1, <1>5
  <2>2. ASSUME NEW f \in Files, disk'[f] # Absent PROVE gone'[f][disk'[f]] = 0
    BY <1>1, <1>2, <1>5, <2>2 DEF DiskInv
  <2> QED
    BY <1>1, <1>2, <2>1, <2>2 DEF DiskInv
<1>7. ASSUME NEW f \in Files, NEW data, NEW a \in Nat, Within(gone[f], data, a)
      PROVE  Within(gone'[f], data, a + 1) /\ (a >= AgeCap => Within(gone'[f], data, a))
  <2>1. PICK c \in Contents : BeginsWith(c, data) /\ gone[f][c] <= a
    BY <1>7 DEF Within
  <2>2. gone'[f][c] <= a + 1 /\ (a >= AgeCap => gone'[f][c] <= a)
    BY <1>3, <1>5, <2>1
  <2> QED
    BY <2>1, <2>2 DEF Within
<1>8. WorkersInv'
  <2>1. ASSUME NEW w \in Workers PROVE WorkerOK(gone', pc[w], key[w], file[w], held'[w])
    <3>1. WorkerOK(gone, pc[w], key[w], file[w], held[w]) /\ held[w] \in Nat
      BY <1>2, <1>3 DEF WorkersInv, WorkerOK
    <3>2. held'[w] = IF pc[w] \in {"read", "put"} THEN held[w] + 1 ELSE 0
      BY <1>1
    <3>3. held'[w] \in 0..RequestSecs
      BY <1>1, <1>3, <3>1, <3>2
    <3>4. ASSUME pc[w] = "read"
          PROVE  gone'[canonical(key[w])][file[w].data] <= held'[w]
      <4>1. /\ canonical(key[w]) \in Files /\ file[w].data \in Contents
            /\ gone[canonical(key[w])][file[w].data] <= held[w]
        BY <3>1, <3>4 DEF WorkerOK, Servable
      <4>2. /\ gone'[canonical(key[w])][file[w].data] <= gone[canonical(key[w])][file[w].data] + 1
            /\ gone'[canonical(key[w])][file[w].data] \in 0..AgeCap
            /\ gone[canonical(key[w])][file[w].data] \in 0..AgeCap
        BY <1>5, <4>1
      <4>3. held'[w] = held[w] + 1
        BY <3>2, <3>4
      <4> QED
        BY <1>3, <3>1, <4>1, <4>2, <4>3
    <3>5. ASSUME pc[w] = "put"
          PROVE  Within(gone'[canonical(key[w])], file[w].data, held'[w])
      <4>1. canonical(key[w]) \in Files /\ Within(gone[canonical(key[w])], file[w].data, held[w])
        BY <3>1, <3>5 DEF WorkerOK, Servable
      <4>2. held'[w] = held[w] + 1
        BY <3>2, <3>5
      <4> QED
        BY <1>7, <3>1, <4>1, <4>2
    <3> QED
      BY <3>1, <3>3, <3>4, <3>5 DEF WorkerOK
  <2>2. held' \in [Workers -> 0..RequestSecs]
    BY <1>1, <2>1 DEF WorkerOK
  <2> QED
    BY <1>1, <1>2, <2>1, <2>2 DEF WorkersInv
<1>9. ASSUME NEW k \in Keys
      PROVE  /\ cache'[k] = NoEntry <=> cache[k] = NoEntry
             /\ cache[k] # NoEntry =>
                  /\ cache'[k].data = cache[k].data
                  /\ cache[k].age \in 0..TTL
                  /\ \/ cache'[k].age = cache[k].age + 1
                     \/ cache[k].age = TTL /\ cache'[k].age = TTL
  <2>1. cache[k] \in Entries \cup {NoEntry} /\ NoEntry \notin Entries
    BY <1>2, CurrentSizes, CacheAssumption DEF Entries
  <2>2. cache'[k] = IF cache[k] # NoEntry /\ cache[k].age < TTL
                    THEN [cache[k] EXCEPT !.age = @ + 1] ELSE cache[k]
    BY <1>1 DEF Tick
  <2>3. CASE cache[k] # NoEntry /\ cache[k].age < TTL
    <3>1. cache[k] \in Entries
      BY <2>1, <2>3
    <3>2. /\ cache'[k] = [data |-> cache[k].data, age |-> cache[k].age + 1]
          /\ cache[k].age \in 0..TTL /\ cache[k].data \in Data
      BY <2>2, <2>3, <3>1 DEF Entries
    <3>3. cache'[k] \in Entries
      BY <1>3, <2>3, <3>2 DEF Entries
    <3> QED
      BY <2>1, <2>3, <3>2, <3>3
  <2>4. CASE ~(cache[k] # NoEntry /\ cache[k].age < TTL)
    BY <1>3, <2>1, <2>2, <2>4 DEF Entries
  <2> QED
    BY <2>3, <2>4
<1>10. EntriesInv'
  <2>1. ASSUME NEW k \in Keys, cache'[k] # NoEntry PROVE EntryOK(gone', k, cache'[k])
    <3>1. EntryOK(gone, k, cache[k]) /\ cache[k] # NoEntry
      BY <1>2, <1>9, <2>1 DEF EntriesInv
    <3>2. /\ cache'[k].data = cache[k].data /\ cache[k].age \in 0..TTL
          /\ \/ cache'[k].age = cache[k].age + 1
             \/ cache[k].age = TTL /\ cache'[k].age = TTL
      BY <1>9, <3>1
    <3> DEFINE a == cache[k].age + RequestSecs
               b == cache'[k].age + RequestSecs
    <3>3. a \in Nat /\ (b = a + 1 \/ (b = a /\ a >= AgeCap))
      BY <1>3, <3>2
    <3>4. canonical(k) \in Files /\ Within(gone[canonical(k)], cache[k].data, a)
      BY <3>1 DEF EntryOK
    <3> HIDE DEF a, b
    <3>5. Within(gone'[canonical(k)], cache[k].data, b)
      BY <1>7, <3>3, <3>4
    <3> QED
      BY <3>1, <3>2, <3>5 DEF EntryOK, b
  <2> QED
    BY <2>1 DEF EntriesInv
<1>11. RoomInv'
  <2>1. Behind' \subseteq Behind
    <3>1. \A w \in Workers : pc[w] \in {"open", "read", "put"} => key[w] \in Keys
      BY OfWorker DEF WorkerOK, Servable
    <3> QED
      BY <1>1, <1>9, <3>1 DEF Behind
  <2>2. current_size' = current_size
    BY <1>1 DEF Tick
  <2> QED
    BY <1>2, <1>4, <2>1, <2>2, RoomStays, CurrentSizes
<1>12. AnswerInv'
  BY <1>1, NoAnswerOK DEF AnswerInv
<1> QED
  BY <1>4, <1>6, <1>8, <1>10, <1>11, <1>12 DEF FileInv

\* At the start nothing is cached and every worker is idle.
LEMMA FileInit == FInit => FileInv
<1> SUFFICES ASSUME FInit PROVE FileInv
  OBVIOUS
<1>1. PICK d \in Contents : disk = [f \in Files |-> d]
  BY DEF FInit
<1>2. /\ Init /\ changes = 0 /\ answer = NoAnswer
      /\ gone = [f \in Files |-> [c \in Contents |-> IF disk[f] = c THEN 0 ELSE AgeCap]]
      /\ pc = [w \in Workers |-> "idle"] /\ key = [w \in Workers |-> NoPath]
      /\ file = [w \in Workers |-> NoFile] /\ held = [w \in Workers |-> 0]
  BY DEF FInit
<1>3. AgeCap \in Nat /\ RequestSecs \in Nat /\ MaxChanges \in Nat /\ MaxSize \in Nat
  BY FileAssumption, CacheAssumption DEF AgeCap
<1>4. IInv
  BY <1>2, CacheInit
<1>5. NoFile \in FileStates
  BY DEF NoFile, FileStates
<1>6. WorkersInv
  <2>1. ASSUME NEW w \in Workers PROVE WorkerOK(gone, pc[w], key[w], file[w], held[w])
    <3>1. pc[w] = "idle" /\ key[w] = NoPath /\ file[w] = NoFile /\ held[w] = 0
      BY <1>2
    <3> QED
      BY <1>3, <1>5, <3>1 DEF WorkerOK
  <2> QED
    BY <1>2, <1>3, <1>5, <2>1 DEF WorkersInv
<1>7. (\A k \in Keys : cache[k] = NoEntry) /\ current_size = 0
  BY <1>2 DEF Init
<1>8. EntriesInv
  BY <1>7 DEF EntriesInv
<1>9. DiskInv
  <2>1. ASSUME NEW f \in Files PROVE gone[f] \in [Contents -> 0..AgeCap] /\ gone[f][disk[f]] = 0
    BY <1>1, <1>2, <1>3
  <2>2. gone \in [Files -> [Contents -> 0..AgeCap]]
    BY <1>2, <2>1
  <2> QED
    BY <1>1, <1>2, <1>3, <2>1, <2>2 DEF DiskInv
<1>10. AnswerInv
  BY <1>2, NoAnswerOK DEF AnswerInv
<1>11. RoomInv
  <2>1. Behind = {} /\ Cardinality(Behind) = 0
    BY <1>2, FS_EmptySet DEF Behind
  <2>2. Growth(0) = 0 /\ Growth(Cardinality(Workers) - 1) \in Nat
    BY WorkersCounted, GrowthGrows
  <2> QED
    BY <1>3, <1>7, <2>1, <2>2 DEF RoomInv
<1> QED
  BY <1>4, <1>6, <1>8, <1>9, <1>10, <1>11 DEF FileInv

\* Every step of a worker, and of the world outside, keeps the invariant.
LEMMA FileNext == FileInv /\ [FNext]_fileVars => FileInv'
<1> SUFFICES ASSUME FileInv, [FNext]_fileVars PROVE FileInv'
  OBVIOUS
<1>1. ASSUME NEW w \in Workers, NEW path \in Requests, RequestBegin(w, path) PROVE FileInv'
  BY <1>1, BeginStep
<1>2. ASSUME NEW w \in Workers, RequestDirectory(w) PROVE FileInv'
  BY <1>2, DirectoryStep
<1>3. ASSUME NEW w \in Workers, RequestInspect(w) PROVE FileInv'
  BY <1>3, InspectStep
<1>4. ASSUME NEW w \in Workers, RequestLookup(w) PROVE FileInv'
  BY <1>4, LookupStep
<1>5. ASSUME NEW w \in Workers, ReadOpen(w) PROVE FileInv'
  BY <1>5, OpenStep
<1>6. ASSUME NEW w \in Workers, ReadContents(w) PROVE FileInv'
  BY <1>6, ReadStep
<1>7. ASSUME NEW w \in Workers, RequestPut(w) PROVE FileInv'
  BY <1>7, PutFileStep
<1>8. CASE clear_cache
  BY <1>8, ClearFileStep
<1>9. ASSUME NEW f \in Files, NEW d \in Contents \cup {Absent}, FileReplaced(f, d) PROVE FileInv'
  BY <1>9, ReplacedStep
<1>10. ASSUME NEW f \in Files, NEW d \in Contents, FileWritten(f, d) PROVE FileInv'
  BY <1>10, WrittenStep
<1>11. CASE SecondPasses
  BY <1>11, SecondStep
<1>12. CASE UNCHANGED fileVars
  <2>1. /\ UNCHANGED cacheVars /\ UNCHANGED <<disk, changes, gone>>
        /\ UNCHANGED <<pc, key, file, held, answer>>
    BY <1>12 DEF fileVars
  <2>2. IInv' /\ EntriesInv' /\ DiskInv'
    BY <2>1, CacheAlone
  <2>3. WorkersInv' /\ AnswerInv'
    BY <2>1 DEF FileInv, WorkersInv, AnswerInv
  <2>4. RoomInv'
    BY <2>1 DEF FileInv, RoomInv, Behind, cacheVars
  <2> QED
    BY <2>2, <2>3, <2>4 DEF FileInv
<1> QED
  BY <1>1, <1>2, <1>3, <1>4, <1>5, <1>6, <1>7, <1>8, <1>9, <1>10, <1>11, <1>12 DEF FNext

\* What a step does to the cache is an operation of the cache, or nothing.
LEMMA CacheOperation == FileInv /\ [FNext]_fileVars => [Next]_cacheVars
<1> SUFFICES ASSUME FileInv, [FNext]_fileVars PROVE [Next]_cacheVars
  OBVIOUS
<1>1. ASSUME NEW w \in Workers, RequestLookup(w) PROVE Next
  <2>1. get(key[w]) /\ key[w] \in Keys
    BY <1>1, OfWorker DEF RequestLookup, WorkerOK, Servable
  <2> QED
    BY <2>1 DEF Next
<1>2. ASSUME NEW w \in Workers, RequestPut(w) PROVE Next
  <2>1. put(key[w], file[w].data) /\ key[w] \in Keys /\ file[w].data \in Data
    BY <1>2, OfWorker DEF RequestPut, WorkerOK, Servable
  <2> QED
    BY <2>1 DEF Next
<1>3. CASE clear_cache \/ SecondPasses
  BY <1>3 DEF clear_cache, SecondPasses, Next
<1>4. ASSUME NEW w \in Workers,
             \/ \E path \in Requests : RequestBegin(w, path)
             \/ RequestDirectory(w) \/ RequestInspect(w) \/ ReadOpen(w) \/ ReadContents(w)
      PROVE  UNCHANGED cacheVars
  BY <1>4 DEF RequestBegin, RequestDirectory, RequestInspect, ReadOpen, ReadContents
<1>5. ASSUME \/ \E f \in Files, d \in Contents \cup {Absent} : FileReplaced(f, d)
             \/ \E f \in Files, d \in Contents : FileWritten(f, d)
      PROVE  UNCHANGED cacheVars
  BY <1>5 DEF FileReplaced, FileWritten, Holds
<1>6. CASE UNCHANGED fileVars
  BY <1>6 DEF fileVars
<1> QED
  BY <1>1, <1>2, <1>3, <1>4, <1>5, <1>6 DEF FNext

-------------------------------------------------------------------------------
(* The theorems *)

\* The inductive invariant holds in every behaviour of the file handler.
THEOREM FileInvariance == FSpec => []FileInv
  BY FileInit, FileNext, PTL DEF FSpec

\* However many workers handle requests, the cache goes through a behaviour that
\* LRUCache allows: every property of the cache holds in the file handler too.
THEOREM HandlerUsesCache == FSpec => Spec
<1>1. FInit => Init
  BY DEF FInit
<1> QED
  BY <1>1, FileInvariance, CacheOperation, PTL DEF FSpec, Spec

\* Variables keep their types: a worker that looks up, opens or caches has the
\* path of a file, and every answer a file and an age.
THEOREM FileTypes == FSpec => []FileTypeOK
<1>1. ASSUME FileInv PROVE FileTypeOK
  <2>1. CacheTypeOK
    BY <1>1 DEF FileInv, IInv
  <2> QED
    BY <1>1, <2>1
       DEF FileInv, WorkersInv, DiskInv, AnswerInv, AnswerOK, FileStates, FileTypeOK
<1> QED
  BY <1>1, FileInvariance, PTL

\* No answer is older than the time to live and one request's time, whatever
\* happens to the file between two steps of any of the workers.
THEOREM AnswersAreFresh == FSpec => []StalenessBound
<1>1. FileInv => StalenessBound
  BY DEF FileInv, AnswerInv, AnswerOK, StalenessBound
<1> QED
  BY <1>1, FileInvariance, PTL

\* No path, through whatever links and "..", leads to a file outside the root,
\* unless it is a directory's default file.
THEOREM NothingElseIsServed == FSpec => []ServedFromRoot
<1>1. FileInv => ServedFromRoot
  BY DEF FileInv, AnswerInv, AnswerOK, ServedFromRoot
<1> QED
  BY <1>1, FileInvariance, PTL

\* The cache exceeds its limit by at most one file's growth for every worker but
\* one.
THEOREM OverrunIsBounded == FSpec => []OverrunBound
<1>1. ASSUME FileInv PROVE OverrunBound
  <2> DEFINE n == Cardinality(Workers) - 1
  <2>1. /\ Growth(n) \in Nat /\ Growth(Cardinality(Behind)) \in Nat /\ MaxSize \in Nat
    BY WorkersCounted, GrowthGrows, CacheAssumption
  <2>2. current_size + Growth(Cardinality(Behind)) <= MaxSize + Growth(n) /\ current_size \in Nat
    BY <1>1, CurrentSizes DEF FileInv, RoomInv
  <2>3. Growth(n) = n * (CacheFileLimit - 2)
    <3>1. n \in Nat /\ CacheFileLimit - 2 \in Nat
      BY WorkersCounted, FileAssumption
    <3> HIDE DEF n
    <3> QED
      BY <3>1 DEF Growth
  <2> HIDE DEF n
  <2>4. current_size <= MaxSize + n * (CacheFileLimit - 2)
    BY <2>1, <2>2, <2>3
  <2> QED
    BY <2>4 DEF OverrunBound, n
<1> QED
  BY <1>1, FileInvariance, PTL
===============================================================================
