----------------------------- MODULE BinaryCache -----------------------------
(***************************************************************************)
(* The executors of one worker process, their temporary directories and    *)
(* the cache of those that were compiled with cached=True                  *)
(* (dmoj/executors/compiled_executor.py, base_executor.py).                *)
(*                                                                         *)
(* The cache counts as a reference to what it holds.  An executor nobody   *)
(* refers to is collected at once, and its __del__ deletes its directory   *)
(* unless is_cached says that it belongs to the cache.  An executor that   *)
(* was served from the cache shares the directory of the entry, but does   *)
(* not refer to it.                                                        *)
(***************************************************************************)
EXTENDS Naturals, Sequences, SequencesExt, FiniteSets

CONSTANTS
    Keys,        \* class, problem and source: what the cache key digests
    Executors,   \* bound: executors that are constructed
    CacheSize    \* compiled_binary_cache_size

NoFiles == 0
Ids == 1 .. Executors

VARIABLES
    made,      \* how many executors were constructed
    key,       \* the key of each
    dir,       \* _dir of each, named by the executor that created it
    isCached,  \* those with is_cached set
    held,      \* those the grader refers to
    cache,     \* the entries, the most recently used first
    disk,      \* the directories there are
    binaries,  \* those of them that hold the executable
    removed,   \* directories somebody else took something from
    failed,    \* those whose compilation failed
    over       \* the worker's finally clause has run

CacheInit ==
    /\ made = 0
    /\ key = <<>> /\ dir = <<>>
    /\ isCached = {} /\ held = {} /\ cache = <<>>
    /\ disk = {} /\ binaries = {} /\ removed = {} /\ failed = {}
    /\ over = FALSE

\* Where the cache has an entry for k, and the cache once that is used.
EntriesFor(k) == {j \in DOMAIN cache : key[cache[j]] = k}
Used(j) == <<cache[j]>> \o RemoveAt(cache, j)

\* cleanup, for executors nobody refers to any more.
Clean(gone) ==
    LET doomed == {dir[o] : o \in gone \ isCached}
    IN disk' = disk \ doomed /\ binaries' = binaries \ doomed

\* The constructor.
New(k, cached) ==
    /\ ~over
    /\ made < Executors
    /\ made' = made + 1
    /\ key' = Append(key, k)

\* The file is there: the new executor takes over its path.
Hit(k) ==
    \E j \in EntriesFor(k) :
      /\ dir[cache[j]] \in binaries
      /\ New(k, TRUE)
      /\ dir' = Append(dir, dir[cache[j]])
      /\ isCached' = isCached \cup {made + 1}
      /\ held' = held \cup {made + 1}
      /\ cache' = Used(j)
      /\ UNCHANGED <<disk, binaries, removed, failed, over>>

Missing(k) == \A j \in EntriesFor(k) : dir[cache[j]] \notin binaries

\* The cache grows without a bound.
StoreAll(k, o) ==
    LET leaves == EntriesFor(k) IN
    /\ cache' = <<o>> \o IF leaves = {} THEN cache ELSE RemoveAt(cache, CHOOSE j \in leaves : TRUE)
    /\ isCached' = isCached \cup {o}
    /\ disk' = disk \cup {o} /\ binaries' = binaries \cup {o}

\* cache[key] = obj.  An old entry of this key is replaced, and not told;
\* otherwise the least recently used entry of a full cache is evicted: it is
\* no longer is_cached, and collected unless the grader still refers to it.
Store(k, o) ==
    LET old == EntriesFor(k)
        leaves == IF old = {} /\ Len(cache) = CacheSize THEN {CacheSize} ELSE old
        evicted == {cache[j] : j \in leaves \ old}
        doomed == {dir[p] : p \in evicted \ held}
    IN /\ cache' = <<o>> \o IF leaves = {} THEN cache ELSE RemoveAt(cache, CHOOSE j \in leaves : TRUE)
       /\ isCached' = (isCached \ evicted) \cup {o}
       /\ disk' = (disk \ doomed) \cup {o}
       /\ binaries' = (binaries \ doomed) \cup {o}

\* No entry, or one that lost its file: create_files and compile.
Compile(k) ==
    /\ Missing(k)
    /\ New(k, TRUE)
    /\ dir' = Append(dir, made + 1)
    /\ Store(k, made + 1)
    /\ held' = held \cup {made + 1}
    /\ UNCHANGED <<removed, failed, over>>

\* A CompileError leaves an executor that is_cached and that nobody holds.
\* The entry that was looked up counts as used.
CompileFails(k) ==
    /\ Missing(k)
    /\ New(k, TRUE)
    /\ dir' = Append(dir, made + 1)
    /\ isCached' = isCached \cup {made + 1}
    /\ disk' = disk \cup {made + 1}
    /\ failed' = failed \cup {made + 1}
    /\ cache' = IF EntriesFor(k) = {} THEN cache
                ELSE Used(CHOOSE j \in EntriesFor(k) : TRUE)
    /\ UNCHANGED <<held, binaries, removed, over>>

\* A submission's own executor is not cached; if it does not compile, nothing
\* is left of it.
CompileUncached(k) ==
    /\ New(k, FALSE)
    /\ \/ /\ dir' = Append(dir, made + 1)
          /\ disk' = disk \cup {made + 1} /\ binaries' = binaries \cup {made + 1}
          /\ held' = held \cup {made + 1}
       \/ dir' = Append(dir, NoFiles) /\ UNCHANGED <<disk, binaries, held>>
    /\ UNCHANGED <<isCached, cache, removed, failed, over>>

\* The grader, checker or generator is done with its executor.
Release(o) ==
    /\ o \in held
    /\ held' = held \ {o}
    /\ Clean({o} \ ToSet(cache))
    /\ UNCHANGED <<made, key, dir, isCached, cache, removed, failed, over>>

\* Somebody cleans up the temporary files: an executable, or a directory.
TakeFiles(d) ==
    /\ ~over
    /\ d \in binaries
    /\ removed' = removed \cup {d}
    /\ binaries' = binaries \ {d}
    /\ \/ disk' = disk \ {d}
       \/ UNCHANGED disk
    /\ UNCHANGED <<made, key, dir, isCached, held, cache, failed, over>>

\* The end of _worker_process_main cleans up every entry, and lets go of the
\* grader and of all that it holds.
End ==
    /\ ~over
    /\ over' = TRUE
    /\ isCached' = isCached \ ToSet(cache)
    /\ LET doomed == {dir[o] : o \in ToSet(cache) \cup (held \ isCached)}
       IN disk' = disk \ doomed /\ binaries' = binaries \ doomed
    /\ held' = {}
    /\ UNCHANGED <<made, key, dir, cache, removed, failed>>

CacheNext ==
    \/ \E k \in Keys : Hit(k) \/ Compile(k) \/ CompileFails(k) \/ CompileUncached(k)
    \/ \E o \in Ids : Release(o) \/ TakeFiles(o)
    \/ End

-------------------------------------------------------------------------------
(* Properties *)

\* An executor in use that compiled its binary itself keeps its files, and so
\* does one that was served, for as long as the entry it was served from is in
\* the cache; unless somebody else removes them.  The code promises more:
\* "once an Executor is instantiated, it should be ready to launch"
\* (compiled_executor.py:23-24), but the files of one that was served go when
\* its entry is evicted, or replaced, and cleaned up, while it is in use.
OwnersKeepFiles ==
    \A o \in held :
      dir[o] = o \/ dir[o] \in ToSet(cache) => dir[o] \in binaries \cup removed

\* The cache has at most CacheSize entries, one of a key, each with the files it
\* will be asked for, and the files of what is in use stay while their owner is
\* in use or in the cache.
CacheSound ==
    /\ Len(cache) <= CacheSize
    /\ \A i, j \in DOMAIN cache : key[cache[i]] = key[cache[j]] => i = j
    /\ OwnersKeepFiles
    /\ ~over => \A o \in ToSet(cache) : o \in isCached /\ dir[o] \in binaries \cup removed

===============================================================================
