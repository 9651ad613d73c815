------------------------------- MODULE Cache -------------------------------
(***************************************************************************)
(* The cache of audio files and the limiter that keeps it small            *)
(* (core/src/cache.rs).  Threads save, open and remove files.  Only the    *)
(* limiter is locked, for one operation at a time: between its locks and   *)
(* the calls of the file system other threads go on.  The program may stop *)
(* at any point and start again with what is on the disk.                  *)
(***************************************************************************)
EXTENDS Integers, Sequences, SequencesExt, FiniteSets

CONSTANTS Files,       \* audio files, by their id
          FileSize,    \* the size of each
          SizeLimit,   \* size_limit
          Threads,     \* who uses the cache
          MaxTime      \* bound: accesses to files

ASSUME CacheAssumption ==
  /\ IsFiniteSet(Files) /\ "none" \notin Files
  /\ FileSize \in [Files -> Nat]
  /\ SizeLimit \in Nat

VARIABLES disk,      \* the files on the disk: their size
          limiter,   \* SizeLimiter
          thread,    \* what each thread is doing
          left,      \* files that an error left behind
          time       \* SystemTime::now()

cacheVars == <<disk, limiter, thread, left, time>>

Rest == [at |-> "idle", file |-> "none", linked |-> FALSE, size |-> 0]

CacheInit ==
  /\ disk = <<>>
  /\ limiter = [queue |-> <<>>, sizes |-> <<>>, in_use |-> 0]
  /\ thread = [t \in Threads |-> Rest]
  /\ left = {}
  /\ time = 1

With(f, x, v) == [y \in DOMAIN f \cup {x} |-> IF y = x THEN v ELSE f[y]]
Without(f, x) == Restrict(f, DOMAIN f \ {x})
Old(f, x) == IF x \in DOMAIN f THEN f[x] ELSE 0

\* The sum of what f maps files to: init_dir adds one after the other.
Total(f) ==
  LET each == SetToSeq(Files)
      sum[n \in 0..Len(each)] == IF n = 0 THEN 0
                                 ELSE sum[n - 1] + Old(f, each[n])
  IN sum[Len(each)]

-----------------------------------------------------------------------------
(* SizeLimiter                                                             *)

LimiterAdd(l, f, size, at) ==
  [queue |-> With(l.queue, f, at), sizes |-> With(l.sizes, f, size),
   in_use |-> l.in_use + size - Old(l.sizes, f)]

ExceedsLimit(l) == l.in_use > SizeLimit

\* The files that pop may return: accessed least recently.
Oldest(l) ==
  {f \in DOMAIN l.queue : \A g \in DOMAIN l.queue : l.queue[f] <= l.queue[g]}

LimiterRemove(l, f) ==
  IF f \notin DOMAIN l.queue THEN l
  ELSE [queue |-> Without(l.queue, f), sizes |-> Without(l.sizes, f),
        in_use |-> l.in_use - l.sizes[f]]

LimiterUpdate(l, f, at) ==
  IF f \in DOMAIN l.queue THEN [l EXCEPT !.queue[f] = at] ELSE l

-----------------------------------------------------------------------------
(* The file system: a file that is removed while it is written is lost     *)

Unlinked(th, f) ==
  [t \in Threads |-> IF th[t].file = f THEN [th[t] EXCEPT !.linked = FALSE]
                     ELSE th[t]]
Started == \A t \in Threads : thread[t].at \notin {"starting", "off"}
Uncounted(f) == ({f} \cap DOMAIN disk) \ DOMAIN limiter.queue

\* save_file: create_dir_all, File::create
Create(t, f) ==
  /\ thread[t].at = "idle" /\ Started
  /\ disk' = With(disk, f, 0)
  /\ thread' = [thread EXCEPT ![t] = [at |-> "copying", file |-> f,
                                      linked |-> TRUE, size |-> 0]]
  /\ UNCHANGED <<limiter, left, time>>

\* io::copy; what an error leaves is not counted.
Copy(t) ==
  LET f == thread[t].file
  IN /\ thread[t].at = "copying"
     /\ \/ /\ disk' = IF thread[t].linked THEN With(disk, f, FileSize[f])
                      ELSE disk
           /\ thread' = [thread EXCEPT ![t].at = "copied",
                                       ![t].size = FileSize[f]]
           /\ UNCHANGED left
        \/ /\ left' = left \cup Uncounted(f)
           /\ thread' = [thread EXCEPT ![t] = Rest]
           /\ UNCHANGED disk
     /\ UNCHANGED <<limiter, time>>

\* limiter.add
AddFile(t) ==
  /\ thread[t].at = "copied" /\ time < MaxTime
  /\ limiter' = LimiterAdd(limiter, thread[t].file, thread[t].size, time)
  /\ time' = time + 1
  /\ thread' = [thread EXCEPT ![t] = [Rest EXCEPT !.at = "prune"]]
  /\ left' = left \ {thread[t].file}
  /\ UNCHANGED disk

\* prune_internal: one round of its loop takes the entry under the lock ...
Prune(t) ==
  /\ thread[t].at \in {"prune", "starting"}
  /\ IF ExceedsLimit(limiter)
     THEN \E f \in Oldest(limiter) :
            /\ limiter' = LimiterRemove(limiter, f)
            /\ thread' = [thread EXCEPT ![t].file = f,
                 ![t].at = IF @ = "starting" THEN "starting unlink"
                           ELSE "unlink"]
     ELSE /\ thread' = [thread EXCEPT ![t] =
               IF @.at = "starting" /\ left # {} THEN [Rest EXCEPT !.at = "off"]
               ELSE Rest]
          /\ UNCHANGED limiter
  /\ UNCHANGED <<disk, left, time>>

\* ... and removes the file without it.  The loop goes on after an error; at
\* the start the program then does without the cache.
PruneFile(t) ==
  LET f == thread[t].file
      next == [Rest EXCEPT !.at = IF thread[t].at = "unlink" THEN "prune"
                                  ELSE "starting"]
  IN /\ thread[t].at \in {"unlink", "starting unlink"}
     /\ \/ /\ disk' = Without(disk, f)
           /\ thread' = [Unlinked(thread, f) EXCEPT ![t] = next]
           /\ UNCHANGED left
        \/ /\ f \in DOMAIN disk
           /\ left' = left \cup Uncounted(f)
           /\ thread' = [thread EXCEPT ![t] = next]
           /\ UNCHANGED disk
     /\ UNCHANGED <<limiter, time>>

\* Cache::file: a file that can be opened is touched.
OpenFile(f) ==
  /\ f \in DOMAIN disk /\ Started /\ time < MaxTime
  /\ limiter' = LimiterUpdate(limiter, f, time)
  /\ time' = time + 1
  /\ UNCHANGED <<disk, thread, left>>

\* remove_file: the file, and then its entry; an error keeps both.
RemoveFile(t, f) ==
  /\ thread[t].at = "idle" /\ Started /\ f \in DOMAIN disk
  /\ disk' = Without(disk, f)
  /\ thread' = [Unlinked(thread, f) EXCEPT ![t] = [Rest EXCEPT !.at = "forget",
                                                               !.file = f]]
  /\ UNCHANGED <<limiter, left, time>>

\* The entry may by now stand for a file that was saved again.
ForgetFile(t) ==
  LET f == thread[t].file
  IN /\ thread[t].at = "forget"
     /\ limiter' = LimiterRemove(limiter, f)
     /\ left' = left \cup (DOMAIN limiter.queue \cap DOMAIN disk \cap {f})
     /\ thread' = [thread EXCEPT ![t] = Rest]
     /\ UNCHANGED <<disk, time>>

RestartAsItIs ==
  \E at \in [DOMAIN disk -> {0, 1}] :
    /\ limiter' = [queue |-> at, sizes |-> disk, in_use |-> Total(disk)]
    /\ thread' = [t \in Threads |-> Rest]
    /\ left' = {}
    /\ time' = 1
    /\ UNCHANGED disk

\* The program stops, and starts again: Cache::new, FsSizeLimiter::new.  The
\* times are the file system's.
Restart ==
  \E at \in [DOMAIN disk -> {0, 1}], t \in Threads :
    /\ limiter' = [queue |-> at, sizes |-> disk, in_use |-> Total(disk)]
    /\ thread' = [u \in Threads |-> IF u = t THEN [Rest EXCEPT !.at = "starting"]
                                    ELSE Rest]
    /\ left' = {}
    /\ time' = 1
    /\ UNCHANGED disk

CacheNext ==
  \/ \E t \in Threads : \/ \E f \in Files : Create(t, f) \/ RemoveFile(t, f)
                        \/ Copy(t) \/ AddFile(t) \/ Prune(t) \/ PruneFile(t)
                        \/ ForgetFile(t)
  \/ \E f \in Files : OpenFile(f)
  \/ Restart

CacheSpec == CacheInit /\ [][CacheNext]_cacheVars

-----------------------------------------------------------------------------
(* Properties                                                              *)

\* When nobody is in the middle of something, what is on the disk is within
\* the limit, whoever saved, pruned, opened and removed files at the same time
\* and wherever the program was stopped before: only files that an error left
\* behind, or that were saved while they were being removed, escape it.  The
\* limiter counts what it holds.
DiskWithinLimit ==
  /\ limiter.in_use = Total(limiter.sizes)
  /\ DOMAIN limiter.queue = DOMAIN limiter.sizes
  /\ (\A t \in Threads : thread[t] = Rest)
       => Total(Restrict(disk, DOMAIN disk \ left)) <= SizeLimit
=============================================================================
