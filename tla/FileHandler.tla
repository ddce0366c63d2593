------------------------------ MODULE FileHandler ------------------------------
(***************************************************************************)
(* src/file_handler.cpp: handle_file_request, run by any number of workers *)
(* at once over one LRUCache, while the files change on disk.  Between two *)
(* steps of one request (exists, is_directory, file_size, the lookup in    *)
(* the cache, opening the file, reading it and caching it) anything may    *)
(* happen to the file and to the cache.                                    *)
(*                                                                         *)
(* A path is a sequence of names below the document root, and the cache is *)
(* keyed by the path as it is spelled: one file can have several keys.     *)
(* The tree of directories and links is a constant; what the files below   *)
(* the root hold is not.  Contents are sequences of bytes.                 *)
(***************************************************************************)
EXTENDS LRUCache

CONSTANTS
  Workers,
  Requests,        \* request paths
  Dirs, Files,     \* the nodes of the tree
  Root,            \* the directory document_root_
  Entry,           \* Entry[d]: what each name in directory d denotes, links followed
  Home,            \* Home[n] = <<d, x>>: node n really is the entry x of d
  LeadingDot,      \* the names that begin with "."
  HoldsDotDot,     \* the names that contain ".."
  DefaultFile,     \* default_file_
  Contents,        \* what files may hold; Data has their beginnings too
  MaxFileSize,     \* max_file_size_
  CacheFileLimit,  \* only smaller files are cached (1 MB)
  RequestSecs,     \* bound: seconds a request takes from opening a file to its put
  MaxChanges,      \* bound: how often files change
  Absent,          \* no such file
  NoPath

ASSUME FileAssumption ==
  /\ IsFiniteSet(Workers) /\ Workers # {}
  /\ Root \in Dirs /\ Dirs \cap Files = {}
  /\ ".." \in LeadingDot \cap HoldsDotDot
  /\ Contents \subseteq Data
  /\ \A d \in Data : d \in Seq(Range(d)) /\ SizeOf[d] = Len(d)
  /\ \A d \in Contents : \A n \in 0..Len(d) : SubSeq(d, 1, n) \in Data
  /\ MaxFileSize \in Nat /\ RequestSecs \in Nat
  /\ CacheFileLimit \in Nat /\ CacheFileLimit >= 2
  /\ MaxChanges \in Nat
  /\ Absent \notin Data

VARIABLES
  disk,      \* what each file holds now
  changes,   \* how often files have changed
  gone,      \* history: seconds since each file last held each contents
  pc, key,   \* each worker's next step and resolved path
  file,      \* its open file: the size found, the contents, whether the path
             \* still leads to it; then the contents it has read
  held,      \* seconds since it opened that file
  answer     \* history: the file this step has served with 200, and the age
             \* of the contents

fileVars == <<cacheVars, disk, changes, gone, pc, key, file, held, answer>>

\* Beyond this age the history does not count on.
AgeCap == TTL + RequestSecs

NoFile == [size |-> 0, data |-> Absent, linked |-> FALSE]

NoAnswer == [file |-> Absent, age |-> 0]

FInit ==
  /\ Init
  /\ \E d \in Contents : disk = [f \in Files |-> d]
  /\ changes = 0
  /\ gone = [f \in Files |-> [d \in Contents |-> IF disk[f] = d THEN 0 ELSE AgeCap]]
  /\ pc = [w \in Workers |-> "idle"]
  /\ key = [w \in Workers |-> NoPath]
  /\ file = [w \in Workers |-> NoFile]
  /\ held = [w \in Workers |-> 0]
  /\ answer = NoAnswer

-------------------------------------------------------------------------------
(* Paths *)

resolve_path(path) == IF path = <<>> THEN <<DefaultFile>> ELSE path

\* The node a path leads to: the operating system goes through it name by
\* name, following links, and ".." leads to where the directory really is.
canonical(path) ==
  LET step(n, x) ==
        IF n \notin Dirs THEN Absent
        ELSE IF x = ".." THEN Home[n][1]
        ELSE IF x \in DOMAIN Entry[n] THEN Entry[n][x] ELSE Absent
      walk[i \in 0..Len(path)] == IF i = 0 THEN Root ELSE step(walk[i-1], path[i])
  IN  walk[Len(path)]

\* The names from the root down to a node; a node that is not below the root
\* is reached by going up first.
relative(n) ==
  LET up[i \in 0..Cardinality(Dirs)] ==   \* <<the i-th node above n, the names below it>>
        IF i = 0 THEN <<n, <<>>>>
        ELSE IF up[i-1][1] = Root THEN up[i-1]
        ELSE <<Home[up[i-1][1]][1], <<Home[up[i-1][1]][2]>> \o up[i-1][2]>>
      top == up[Cardinality(Dirs)]
  IN  IF top[1] = Root THEN top[2] ELSE <<"..">>

Exists(n) == n \in Dirs \/ (n \in Files /\ disk[n] # Absent)

\* Mutant: the path is looked at as it is spelled, links and all.
is_safe_path_spelled(path) ==
  /\ path # <<>>
  /\ path[1] \notin LeadingDot
  /\ \A i \in DOMAIN path : path[i] \notin HoldsDotDot

\* A path that leads nowhere is judged by its spelling, which only chooses
\* between the answers 403 and 404.
is_safe_path(path) ==
  LET r == IF canonical(path) \in Dirs \cup Files THEN relative(canonical(path)) ELSE path
  IN  /\ r # <<>>
      /\ r[1] \notin LeadingDot
      /\ \A i \in DOMAIN r : r[i] \notin HoldsDotDot

Default(path) == Append(path, DefaultFile)

\* The requests let through, by the paths that handle_file_request resolves
\* them to.
Admitted == {k \in {resolve_path(p) : p \in Requests} : is_safe_path(k)}

\* The cache takes any path as a key: Keys has all that can come up.
ASSUME KeyAssumption ==
  \A k \in Admitted :
    /\ canonical(k) \in Files => k \in Keys
    /\ canonical(k) \in Dirs /\ canonical(Default(k)) \in Files => Default(k) \in Keys

-------------------------------------------------------------------------------
(* handle_file_request *)

\* The worker answers and is free again.
Return(w, what) ==
  /\ answer' = what
  /\ pc' = [pc EXCEPT ![w] = "idle"]
  /\ key' = [key EXCEPT ![w] = NoPath]
  /\ file' = [file EXCEPT ![w] = NoFile]
  /\ held' = [held EXCEPT ![w] = 0]

\* With an error page: status tells which.
Error(w, status) == Return(w, NoAnswer)

BeginsWith(c, data) == Len(c) >= Len(data) /\ SubSeq(c, 1, Len(data)) = data

\* With contents, which the file held, or began with, so many seconds ago.
Ok(w, k, data) ==
  LET f == canonical(k)
      ages == {gone[f][d] : d \in {c \in Contents : BeginsWith(c, data)}}
  IN  Return(w, [file |-> f, age |-> CHOOSE m \in ages : \A n \in ages : m <= n])

Continue(w, label) ==
  /\ pc' = [pc EXCEPT ![w] = label]
  /\ answer' = NoAnswer

\* Up to is_directory, whose result does not change.
RequestBegin(w, path) ==
  LET k == resolve_path(path)
  IN  /\ pc[w] = "idle"
      /\ \/ ~is_safe_path(k) /\ Error(w, "403")
         \/ is_safe_path(k) /\ ~Exists(canonical(k)) /\ Error(w, "404")
         \/ /\ is_safe_path(k) /\ Exists(canonical(k))
            /\ Continue(w, IF canonical(k) \in Dirs THEN "directory" ELSE "inspect")
            /\ key' = [key EXCEPT ![w] = k]
            /\ UNCHANGED <<file, held>>
      /\ UNCHANGED <<cacheVars, disk, changes, gone>>

\* The listing of a directory, unless it cannot be read.
create_directory_listing(w) == Return(w, NoAnswer) \/ Error(w, "500")

\* A directory is served through its default file, whose path is then the key.
RequestDirectory(w) ==
  LET default == Default(key[w])
  IN  /\ pc[w] = "directory"
      /\ \/ /\ canonical(default) \in Files /\ Exists(canonical(default))
            /\ key' = [key EXCEPT ![w] = default]
            /\ Continue(w, "inspect")
            /\ UNCHANGED <<file, held>>
         \/ /\ ~(canonical(default) \in Files /\ Exists(canonical(default)))
            /\ create_directory_listing(w)
      /\ UNCHANGED <<cacheVars, disk, changes, gone>>

\* is_regular_file and file_size: a file that has disappeared in the meantime
\* is "not a regular file" to the one and an exception to the other.
RequestInspect(w) ==
  LET d == disk[canonical(key[w])]
  IN  /\ pc[w] = "inspect"
      /\ \/ d = Absent /\ (Error(w, "403") \/ Error(w, "500"))
         \/ d # Absent /\ SizeOf[d] > MaxFileSize /\ Error(w, "403")
         \/ /\ d # Absent /\ SizeOf[d] <= MaxFileSize
            /\ Continue(w, "lookup")
            /\ UNCHANGED <<key, file, held>>
      /\ UNCHANGED <<cacheVars, disk, changes, gone>>

RequestLookup(w) ==
  LET k == key[w]
  IN  /\ pc[w] = "lookup"
      /\ get(k)
      /\ \/ Hit(k) /\ Ok(w, k, cache[k].data)
         \/ /\ ~Hit(k)
            /\ Continue(w, "open")
            /\ UNCHANGED <<key, file, held>>
      /\ UNCHANGED <<disk, changes, gone>>

\* read_file opens the file at its end and so learns its size.
ReadOpen(w) ==
  LET d == disk[canonical(key[w])]
  IN  /\ pc[w] = "open"
      /\ \/ d = Absent /\ Error(w, "500")
         \/ /\ d # Absent
            /\ file' = [file EXCEPT ![w] = [size |-> SizeOf[d], data |-> d, linked |-> TRUE]]
            /\ Continue(w, "read")
            /\ UNCHANGED <<key, held>>
      /\ UNCHANGED <<cacheVars, disk, changes, gone>>

\* Then it reads that many bytes of what the file holds by now, which fails
\* when there are fewer.  Large files are answered without being cached.
ReadContents(w) ==
  LET d == file[w].data
      data == SubSeq(d, 1, file[w].size)
  IN  /\ pc[w] = "read"
      /\ \/ SizeOf[d] < file[w].size /\ Error(w, "500")
         \/ SizeOf[d] >= file[w].size /\ SizeOf[data] >= CacheFileLimit /\ Ok(w, key[w], data)
         \/ /\ SizeOf[d] >= file[w].size /\ SizeOf[data] < CacheFileLimit
            /\ file' = [file EXCEPT ![w].data = data]
            /\ Continue(w, "put")
            /\ UNCHANGED <<key, held>>
      /\ UNCHANGED <<cacheVars, disk, changes, gone>>

RequestPut(w) ==
  /\ pc[w] = "put"
  /\ put(key[w], file[w].data)
  /\ Ok(w, key[w], file[w].data)
  /\ UNCHANGED <<disk, changes, gone>>

clear_cache ==
  /\ clear
  /\ answer' = NoAnswer
  /\ UNCHANGED <<disk, changes, gone, pc, key, file, held>>

-------------------------------------------------------------------------------
(* The world outside *)

OpenBy(f) == {w \in Workers : pc[w] = "read" /\ file[w].linked /\ canonical(key[w]) = f}

\* Only what lies below the root changes.
Holds(f, d) ==
  /\ d # disk[f]
  /\ changes < MaxChanges
  /\ changes' = changes + 1
  /\ relative(f)[1] # ".."
  /\ disk' = [disk EXCEPT ![f] = d]
  /\ gone' = [gone EXCEPT ![f] = [e \in Contents |-> IF e = d THEN 0 ELSE gone[f][e]]]
  /\ answer' = NoAnswer
  /\ UNCHANGED <<cacheVars, pc, key, held>>

\* A file is created, removed, or another file renamed to its name: who has it
\* open keeps the file it opened.
FileReplaced(f, d) ==
  /\ Holds(f, d)
  /\ file' = [w \in Workers |-> IF w \in OpenBy(f) THEN [file[w] EXCEPT !.linked = FALSE]
                                ELSE file[w]]

\* A file is written in place: who has it open sees the change.
FileWritten(f, d) ==
  /\ disk[f] # Absent
  /\ Holds(f, d)
  /\ file' = [w \in Workers |-> IF w \in OpenBy(f) THEN [file[w] EXCEPT !.data = d]
                                ELSE file[w]]

\* A second passes; no request takes longer than RequestSecs from opening the
\* file to caching it.
SecondPasses ==
  /\ \A w \in Workers : pc[w] \in {"read", "put"} => held[w] < RequestSecs
  /\ Tick
  /\ gone' = [f \in Files |-> [d \in Contents |->
                IF disk[f] = d THEN 0
                ELSE IF gone[f][d] < AgeCap THEN gone[f][d] + 1 ELSE AgeCap]]
  /\ held' = [w \in Workers |-> IF pc[w] \in {"read", "put"} THEN held[w] + 1 ELSE 0]
  /\ answer' = NoAnswer
  /\ UNCHANGED <<disk, changes, pc, key, file>>

FNext ==
  \/ \E w \in Workers :
       \/ \E path \in Requests : RequestBegin(w, path)
       \/ RequestDirectory(w) \/ RequestInspect(w) \/ RequestLookup(w)
       \/ ReadOpen(w) \/ ReadContents(w) \/ RequestPut(w)
  \/ clear_cache
  \/ \E f \in Files, d \in Contents \cup {Absent} : FileReplaced(f, d)
  \/ \E f \in Files, d \in Contents : FileWritten(f, d)
  \/ SecondPasses

FSpec == FInit /\ [][FNext]_fileVars

-------------------------------------------------------------------------------
(* Properties *)

FileTypeOK ==
  /\ CacheTypeOK
  /\ disk \in [Files -> Contents \cup {Absent}]
  /\ changes \in 0..MaxChanges
  /\ gone \in [Files -> [Contents -> 0..AgeCap]]
  /\ pc \in [Workers -> {"idle", "directory", "inspect", "lookup", "open", "read", "put"}]
  /\ key \in [Workers -> Keys \cup Admitted \cup {NoPath}]
  /\ file \in [Workers -> [size : Nat, data : Data \cup {Absent}, linked : BOOLEAN]]
  /\ held \in [Workers -> 0..RequestSecs]
  /\ answer \in [file : Files \cup {Absent}, age : 0..AgeCap]

\* How stale an answer can be: contents served with 200 are what the file held,
\* or the beginning of it when it was written while it was read, less than TTL
\* seconds ago or, when the request that cached them was slow to do so, that
\* request's time more.  Without a time to live there is no such bound: entries
\* then stay until they are evicted.
StalenessBound == TTL > 0 => answer.age < TTL + RequestSecs \/ answer.age = 0

\* A node below the document root and not under a hidden top-level name.
BelowRoot(n) == relative(n) # <<>> /\ relative(n)[1] \notin LeadingDot

\* No directory that can be asked for has a default file that is a link to a
\* file elsewhere.
DefaultsBelowRoot ==
  \A k \in Admitted :
    canonical(k) \in Dirs /\ canonical(Default(k)) \in Files => BelowRoot(canonical(Default(k)))

\* What is_safe_path promises (file_handler.cpp:112-146): whatever way a path
\* takes through links and "..", the file that is served lies below the
\* document root and not under a hidden top-level name.  The default file of a
\* directory is the exception: its path is not judged again (39-52).
ServedFromRoot == DefaultsBelowRoot /\ answer.file # Absent => BelowRoot(answer.file)

\* How far the cache can exceed its memory limit.  put replaces an entry
\* without evicting (cache.cpp:58-73), but only a worker that looked the key
\* up before it was inserted gets there: after an insertion the limit holds,
\* and then each of the other workers can add once what the file has grown.
OverrunBound ==
  current_size <= MaxSize + (Cardinality(Workers) - 1) * (CacheFileLimit - 2)
===============================================================================
