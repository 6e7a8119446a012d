------------------------------ MODULE PageCache ------------------------------
(***************************************************************************)
(* The page cache of src/os/fs/inode.c.  Processes read, write, map and      *)
(* truncate open files; each call holds the inode's lock from Call to        *)
(* Unlock and takes the pages it needs, one after the other, from ctable.    *)
(*                                                                         *)
(* A page has its own sleeping mutex (owner).  ctable.lock (table) covers    *)
(* the search and the eviction, but not the read of a missing page, nor the  *)
(* insertion of that page in the LRU list: those run with the page's mutex   *)
(* alone, next to whoever has ctable.lock.  The two loops that shift the     *)
(* list are therefore modelled one assignment at a time.                     *)
(*                                                                         *)
(* A file is counted in pages.  FatFs (one volume mutex, so each f_ call is  *)
(* one step) keeps one position per open file; the inode's lock protects it  *)
(* from other callers but not from a write-back.                             *)
(***************************************************************************)
EXTENDS Naturals, FiniteSets, FiniteSetsExt

CONSTANTS Procs, Files,
          Fixed,      \* the files that are neither truncated nor extended
          NPage,      \* bound: pages of a file that calls name
          NCACHE, Val, Ops,
          MaxCalls,   \* bound: calls made in a run
          None

ASSUME ConstantsAssumption ==
  /\ Fixed \subseteq Files
  /\ NPage \in Nat \ {0} /\ NCACHE \in Nat \ {0} /\ MaxCalls \in Nat
  /\ 0 \in Val
  /\ Ops \subseteq {"read", "write", "map", "trunc", "link"}
  /\ None \notin Procs \cup Files

Pages == 0 .. NPage - 1
Slots == 1 .. NCACHE

ASSUME UseAssumption ==
  None \notin [file : Files, page : Pages, writes : BOOLEAN, seen : Val]

VARIABLES
  pc,      \* where each process is
  call,    \* its call: op, file, next page, last page; and locals of the table
  ilock,   \* ilock[f]: who holds the inode's lock
  table,   \* who holds ctable.lock
  cache,   \* ctable.cache: struct page_cache with its mutex
  lru,     \* ctable.lru: slots, 0 for NULL
  cref,    \* the references the cache has on each inode
  size, disk, fptr,  \* FatFs: length, stored pages, and position of each file
  halted,  \* panic() has stopped the machine
  calls,   \* calls made, for the bound
  left,    \* history: slots whose mutex mmap() has left held
  hasty    \* history: ctable_lru_add() has evicted, without ctable.lock

fatfs == <<size, disk, fptr>>
vars == <<pc, call, ilock, table, cache, lru, cref, size, disk, fptr, halted, calls,
          left, hasty>>

NoCall == [op |-> None, file |-> None, off |-> 0, last |-> 0,
           i |-> 0, e |-> 0, j |-> 0, v |-> 0, retried |-> FALSE]
EmptySlot == [valid |-> FALSE, dirty |-> FALSE, host |-> None, off |-> 0,
              data |-> 0, owner |-> None]

Init ==
  /\ pc = [p \in Procs |-> "idle"]
  /\ call = [p \in Procs |-> NoCall]
  /\ ilock = [f \in Files |-> None]
  /\ table = None
  /\ cache = [e \in Slots |-> EmptySlot]
  /\ lru = [k \in Slots |-> 0]
  /\ cref = [f \in Files |-> 0]
  /\ size = [f \in Files |-> IF f \in Fixed THEN NPage ELSE 0]
  /\ disk = [f \in Files |-> [g \in 0 .. NPage |-> 0]]
  /\ fptr = [f \in Files |-> 0]
  /\ halted = FALSE
  /\ calls = 0
  /\ left = {} /\ hasty = FALSE

At(p, l) == ~halted /\ pc[p] = l
Goto(p, l) == pc' = [pc EXCEPT ![p] = l]
------------------------------------------------------------------------------
(* FatFs: f_lseek(), f_write(), f_read(), f_truncate(), with room on the    *)
(* disk.  A seek past the end of a writable file (every file is opened for   *)
(* writing) extends it; the new part holds whatever the clusters held.       *)
FSeek(f, o) ==
  /\ fptr' = [fptr EXCEPT ![f] = o]
  /\ size' = [size EXCEPT ![f] = Max({@, o})]
  /\ UNCHANGED disk

FWrite(f, n, v) ==
  IF n = 0 THEN UNCHANGED fatfs ELSE
  /\ disk' = [disk EXCEPT ![f][fptr[f]] = v]
  /\ fptr' = [fptr EXCEPT ![f] = @ + 1]
  /\ size' = [size EXCEPT ![f] = Max({@, fptr[f] + 1})]

FReads(f) == IF fptr[f] < size[f] THEN disk[f][fptr[f]] ELSE 0

FTruncate(f) == size' = [size EXCEPT ![f] = fptr[f]] /\ UNCHANGED <<disk, fptr>>
------------------------------------------------------------------------------
(* The calls: fileread(), filewrite(), sys_mmap(), fileopen() with O_TRUNC, *)
(* filelink().  ilock(), and what the call does before its first page.      *)
Calls ==
  {c \in [op : Ops, file : Files, off : Pages, last : Pages] :
     /\ c.off <= c.last
     /\ c.op \in {"trunc", "link"} => c.last = 0 /\ c.file \notin Fixed}

Call(p) ==
  /\ At(p, "idle") /\ calls < MaxCalls
  /\ calls' = calls + 1
  /\ \E c \in Calls :
       /\ ilock[c.file] = None
       /\ ilock' = [ilock EXCEPT ![c.file] = p]
       /\ call' = [call EXCEPT ![p] = [NoCall EXCEPT
                      !.op = c.op, !.file = c.file, !.off = c.off,
                      !.last = IF c.op = "read" THEN Min({c.last, Max({size[c.file], 1}) - 1})
                                                ELSE c.last]]
       /\ \/ /\ c.op = "read"
             /\ Goto(p, IF size[c.file] <= c.off THEN "unlock" ELSE "table")
             /\ UNCHANGED fatfs
          \/ /\ c.op # "read" /\ c.op # "trunc"
             /\ IF c.last + 1 > size[c.file] THEN FSeek(c.file, c.last + 1)
                                             ELSE UNCHANGED fatfs
             /\ Goto(p, "table")
          \/ \* the file cannot be extended
             /\ c.op = "write" /\ c.last + 1 > size[c.file]
             /\ Goto(p, "unlock") /\ UNCHANGED fatfs
          \/ /\ c.op = "trunc"
             /\ FSeek(c.file, 0)
             /\ Goto(p, "trunc")
  /\ UNCHANGED <<table, cache, lru, cref, halted, left, hasty>>

Truncate(p) ==
  /\ At(p, "trunc")
  /\ FTruncate(call[p].file)
  /\ Goto(p, "unlock")
  /\ UNCHANGED <<call, ilock, table, cache, lru, cref, halted, calls, left, hasty>>

(* On to the next page, or out of the loop. *)
CopyNext(p) ==
  LET c == call[p] IN
  /\ Goto(p, IF c.off < c.last THEN "table" ELSE IF c.op = "link" THEN "flush" ELSE "unlock")
  /\ call' = [call EXCEPT ![p].off = Min({@ + 1, c.last}), ![p].e = 0]

(* The end of a copy into slot e: the page is dirty, its mutex is free.     *)
(* Faulty variant: the page is not marked dirty. *)
MutStore(e, v) == cache' = [cache EXCEPT ![e].data = v, ![e].owner = None]
Store(e, v) ==
  cache' = [cache EXCEPT ![e].data = v, ![e].dirty = TRUE, ![e].owner = None]

(* What a writer writes; only the bytes of Fixed files are followed. *)
Bytes(f) == IF f \in Fixed THEN Val ELSE {0}

(* The copy to or from user space, which may find a bad address, and the    *)
(* release of the page's mutex.  mmap() may find no page to copy to: it      *)
(* gives up without that release.                                           *)
Copy(p) ==
  LET c == call[p]
      written == c.op \in {"write", "link"}
  IN
  /\ At(p, "copy")
  /\ \/ /\ written /\ \E v \in Bytes(c.file) : Store(c.e, v)
        /\ CopyNext(p) /\ UNCHANGED left
     \/ /\ ~written /\ cache' = [cache EXCEPT ![c.e].owner = None]
        /\ CopyNext(p) /\ UNCHANGED left
     \/ /\ c.op \in {"read", "write"}
        /\ cache' = [cache EXCEPT ![c.e].owner = None]
        /\ call' = [call EXCEPT ![p].e = 0]
        /\ Goto(p, "unlock") /\ UNCHANGED left
     \/ /\ c.op = "map"
        /\ left' = left \cup {c.e}
        /\ call' = [call EXCEPT ![p].e = 0]
        /\ Goto(p, "unlock") /\ UNCHANGED cache
  /\ UNCHANGED <<ilock, table, lru, cref, fatfs, halted, calls, hasty>>

Unlock(p) ==
  /\ At(p, "unlock")
  /\ ilock' = [ilock EXCEPT ![call[p].file] = None]
  /\ call' = [call EXCEPT ![p] = NoCall]
  /\ Goto(p, "idle")
  /\ UNCHANGED <<table, cache, lru, cref, fatfs, halted, calls, left, hasty>>
------------------------------------------------------------------------------
(* ctable_acquire() *)
LockTable(p) ==
  /\ At(p, "table") /\ table = None
  /\ table' = p
  /\ call' = [call EXCEPT ![p].i = 1, ![p].retried = FALSE]
  /\ Goto(p, "find")
  /\ UNCHANGED <<ilock, cache, lru, cref, fatfs, halted, calls, left, hasty>>

(* The first place of e in the LRU list, 0 if it is not there. *)
LruIndex(e) == IF \E k \in Slots : lru[k] = e THEN Min({k \in Slots : lru[k] = e}) ELSE 0

Matches(e, c) == cache[e].valid /\ cache[e].host = c.file /\ cache[e].off = c.off

(* acquire_mutex_sleep(&cache->lock) gets through. *)
(* Faulty variant: an entry is looked into, and taken, without its mutex. *)
MutUnheld(e) == TRUE
Unheld(e) == cache[e].owner = None

(* Look for the page; the mutex of every slot is taken on the way. *)
Find(p) ==
  LET c == call[p] IN
  /\ At(p, "find") /\ Unheld(c.i)
  /\ \/ /\ Matches(c.i, c)
        /\ cache' = [cache EXCEPT ![c.i].owner = p]
        /\ call' = [call EXCEPT ![p].i = 0, ![p].e = c.i, ![p].j = LruIndex(c.i)]
        /\ Goto(p, "adjust")
     \/ /\ ~Matches(c.i, c) /\ c.i < NCACHE
        /\ call' = [call EXCEPT ![p].i = @ + 1] /\ UNCHANGED <<pc, cache>>
     \/ /\ ~Matches(c.i, c) /\ c.i = NCACHE
        /\ call' = [call EXCEPT ![p].i = 1] /\ Goto(p, "empty") /\ UNCHANGED cache
  /\ UNCHANGED <<ilock, table, lru, cref, fatfs, halted, calls, left, hasty>>

(* ctable_lru_adjust(): shift what is before the slot, put it first. *)
Adjust(p) ==
  LET c == call[p] IN
  /\ At(p, "adjust")
  /\ IF c.j > 1
     THEN /\ lru' = [lru EXCEPT ![c.j] = lru[c.j - 1]]
          /\ call' = [call EXCEPT ![p].j = @ - 1] /\ UNCHANGED <<pc, table>>
     ELSE /\ IF c.j = 1 THEN lru' = [lru EXCEPT ![1] = c.e] ELSE UNCHANGED lru
          /\ call' = [call EXCEPT ![p].j = 0]
          /\ table' = None /\ Goto(p, "copy")
  /\ UNCHANGED <<ilock, cache, cref, fatfs, halted, calls, left, hasty>>

(* find_again: look for a free slot, evict once if there is none.  There may *)
(* be no page for the slot: what is cleared then is address 0, in the kernel. *)
FindEmpty(p) ==
  LET c == call[p] IN
  /\ At(p, "empty") /\ Unheld(c.i)
  /\ \/ /\ ~cache[c.i].valid
        /\ cache' = [cache EXCEPT ![c.i] = [EmptySlot EXCEPT !.valid = TRUE, !.host = c.file,
                                                             !.off = c.off, !.owner = p]]
        /\ call' = [call EXCEPT ![p].i = 0, ![p].e = c.i]
        /\ table' = None /\ Goto(p, "seek") /\ UNCHANGED halted
     \/ /\ ~cache[c.i].valid
        /\ halted' = TRUE /\ UNCHANGED <<pc, call, table, cache>>
     \/ /\ cache[c.i].valid /\ c.i < NCACHE
        /\ call' = [call EXCEPT ![p].i = @ + 1] /\ UNCHANGED <<pc, cache, table, halted>>
     \/ /\ cache[c.i].valid /\ c.i = NCACHE /\ ~c.retried
        /\ call' = [call EXCEPT ![p].i = 0, ![p].retried = TRUE]
        /\ Goto(p, "evict") /\ UNCHANGED <<cache, table, halted>>
     \/ /\ cache[c.i].valid /\ c.i = NCACHE /\ c.retried
        /\ call' = [call EXCEPT ![p].i = 0]
        /\ table' = None /\ Goto(p, "unlock") /\ UNCHANGED <<cache, halted>>
  /\ UNCHANGED <<ilock, lru, cref, fatfs, calls, left, hasty>>

(* read_page: and read_page_err: -- ctable.lock is not held. *)
Seek(p) ==
  /\ At(p, "seek")
  /\ FSeek(call[p].file, call[p].off)
  /\ Goto(p, "load")
  /\ UNCHANGED <<call, ilock, table, cache, lru, cref, halted, calls, left, hasty>>

Load(p) ==
  LET c == call[p] IN
  /\ At(p, "load")
  /\ cache' = [cache EXCEPT ![c.e].data = FReads(c.file)]
  /\ fptr' = [fptr EXCEPT ![c.file] = IF @ < size[c.file] THEN @ + 1 ELSE @]
  /\ Goto(p, "idup")
  /\ UNCHANGED <<call, ilock, table, lru, cref, size, disk, halted, calls, left, hasty>>

(* Faulty variant: the mutex of the page stays held. *)
MutGiveUp(p, e) == cache' = [cache EXCEPT ![e] = [EmptySlot EXCEPT !.owner = p]]
GiveUp(p, e) == cache' = [cache EXCEPT ![e] = EmptySlot]

ReadFails(p) ==
  /\ At(p, "seek") \/ At(p, "load")
  /\ GiveUp(p, call[p].e)
  /\ call' = [call EXCEPT ![p].e = 0]
  /\ Goto(p, "unlock")
  /\ UNCHANGED <<ilock, table, lru, cref, fatfs, halted, calls, left, hasty>>

(* idup(ip) and the test at the head of ctable_lru_add(): a list that is full *)
(* has this process, which does not have ctable.lock, evict a page.          *)
Idup(p) ==
  LET c == call[p] IN
  /\ At(p, "idup")
  /\ cref' = [cref EXCEPT ![c.file] = @ + 1]
  /\ call' = [call EXCEPT ![p].j = NCACHE]
  /\ Goto(p, IF lru[NCACHE] # 0 THEN "evict" ELSE "add")
  /\ hasty' = (hasty \/ lru[NCACHE] # 0)
  /\ UNCHANGED <<ilock, table, cache, lru, fatfs, halted, calls, left>>

(* The shift of ctable_lru_add(). *)
LruAdd(p) ==
  LET c == call[p] IN
  /\ At(p, "add")
  /\ IF c.j > 1
     THEN lru' = [lru EXCEPT ![c.j] = lru[c.j - 1]] /\ UNCHANGED pc
     ELSE lru' = [lru EXCEPT ![1] = c.e] /\ Goto(p, "copy")
  /\ call' = [call EXCEPT ![p].j = @ - 1]
  /\ UNCHANGED <<ilock, table, cache, cref, fatfs, halted, calls, left, hasty>>
------------------------------------------------------------------------------
(* ctable_lru_evict().  Pages of the cache are never shared: mmap() copies  *)
(* them, so the last slot of the list is the one that goes.  A process that   *)
(* has ctable.lock here has passed every page's mutex: nobody else is at the  *)
(* list, and its shift is one step.                                         *)
LruLast == IF \E k \in Slots : lru[k] # 0 THEN Max({k \in Slots : lru[k] # 0}) ELSE 0

LruWithout(k) == [n \in Slots |-> IF n < k THEN lru[n]
                                  ELSE IF n < NCACHE THEN lru[n + 1] ELSE 0]

(* Back to find_again, or to the shift of ctable_lru_add() (j is set). *)
Evicted(p) ==
  IF call[p].j # 0 THEN Goto(p, "add") /\ call' = [call EXCEPT ![p].i = 0, ![p].v = 0]
  ELSE Goto(p, "empty") /\ call' = [call EXCEPT ![p].i = 1, ![p].v = 0]

(* recycle_physical_page(), iput(), memset(): the mutex is cleared too. *)
(* Faulty variant: the inode's reference is not given back. *)
MutClear(e) == cache' = [cache EXCEPT ![e] = EmptySlot] /\ UNCHANGED cref
Clear(e) ==
  /\ cache' = [cache EXCEPT ![e] = EmptySlot]
  /\ cref' = [cref EXCEPT ![cache[e].host] = @ - 1]

Evict(p) ==
  LET e == lru[LruLast] IN
  /\ At(p, "evict")
  /\ \/ /\ LruLast = 0
        /\ IF call[p].j # 0 THEN Goto(p, "copy") /\ UNCHANGED call ELSE Evicted(p)
        /\ UNCHANGED <<cache, lru, cref, fatfs, halted>>
     \/ \* the slot has been cleared already: its page is NULL
        /\ LruLast # 0 /\ ~cache[e].valid
        /\ halted' = TRUE
        /\ UNCHANGED <<pc, call, cache, lru, cref, fatfs>>
     \/ /\ LruLast # 0 /\ cache[e].valid /\ cache[e].dirty
        /\ FSeek(cache[e].host, cache[e].off)
        /\ call' = [call EXCEPT ![p].i = LruLast, ![p].v = e]
        /\ Goto(p, "evict_write") /\ UNCHANGED <<cache, lru, cref, halted>>
     \/ /\ LruLast # 0 /\ cache[e].valid /\ ~cache[e].dirty
        /\ Clear(e) /\ lru' = LruWithout(LruLast) /\ Evicted(p)
        /\ UNCHANGED <<fatfs, halted>>
  /\ UNCHANGED <<ilock, table, calls, left, hasty>>

(* The second half of cache_writeback(): the position is FatFs's. *)
WriteBack(e) ==
  FWrite(cache[e].host, Min({size[cache[e].host] - cache[e].off, 1}), cache[e].data)

EvictWrite(p) ==
  LET c == call[p] IN
  /\ At(p, "evict_write")
  /\ WriteBack(c.v)
  /\ Clear(c.v) /\ lru' = LruWithout(c.i) /\ Evicted(p)
  /\ UNCHANGED <<ilock, table, halted, calls, left, hasty>>

(* A write that fails ends in panic(). *)
WriteBackFails(p) ==
  /\ At(p, "evict_write") \/ At(p, "flush_write")
  /\ halted' = TRUE
  /\ UNCHANGED <<pc, call, ilock, table, cache, lru, cref, fatfs, calls, left, hasty>>
------------------------------------------------------------------------------
(* ctable_release(ip), by ilink(); ctable_release(NULL), by the process that *)
(* the_only_proc_in_pool() has found alone in exit().  The others leave, and  *)
(* count until they have left: two that exit together may both find the      *)
(* other, and nobody empties the cache.                                     *)
Exit(p) ==
  /\ At(p, "idle")
  /\ Goto(p, IF \A q \in Procs \ {p} : pc[q] = "exited" THEN "flush" ELSE "leave")
  /\ UNCHANGED <<call, ilock, table, cache, lru, cref, fatfs, halted, calls, left, hasty>>

Leave(p) ==
  /\ At(p, "leave")
  /\ Goto(p, "exited")
  /\ UNCHANGED <<call, ilock, table, cache, lru, cref, fatfs, halted, calls, left, hasty>>

FlushLock(p) ==
  /\ At(p, "flush") /\ table = None
  /\ table' = p
  /\ call' = [call EXCEPT ![p].i = 1]
  /\ Goto(p, "flushing")
  /\ UNCHANGED <<ilock, cache, lru, cref, fatfs, halted, calls, left, hasty>>

Flushes(e, f) == cache[e].valid /\ f \in {None, cache[e].host}

(* One turn of the loop ends. *)
(* Faulty variant: one turn too many. *)
MutTurnsLeft(p) == call[p].i <= NCACHE
TurnsLeft(p) == call[p].i < NCACHE

FlushNext(p) ==
  IF TurnsLeft(p)
  THEN /\ call' = [call EXCEPT ![p].i = @ + 1, ![p].j = 0]
       /\ Goto(p, "flushing") /\ UNCHANGED table
  ELSE /\ call' = [call EXCEPT ![p].i = 0, ![p].j = 0]
       /\ Goto(p, IF call[p].file = None THEN "flushed" ELSE "unlock")
       /\ table' = None

(* The page goes; its place in the list is what ctable_lru_remove() finds.   *)
FlushClear(p) ==
  /\ Clear(call[p].i)
  /\ call' = [call EXCEPT ![p].j = LruIndex(call[p].i)]
  /\ Goto(p, "remove")

Flush(p) ==
  LET e == call[p].i IN
  /\ At(p, "flushing") /\ Unheld(e)
  /\ \/ /\ ~Flushes(e, call[p].file)
        /\ FlushNext(p) /\ UNCHANGED <<cache, cref, fatfs>>
     \/ /\ Flushes(e, call[p].file) /\ cache[e].dirty
        /\ FSeek(cache[e].host, cache[e].off)
        /\ cache' = [cache EXCEPT ![e].owner = p]
        /\ Goto(p, "flush_write") /\ UNCHANGED <<call, table, cref>>
     \/ /\ Flushes(e, call[p].file) /\ ~cache[e].dirty
        /\ FlushClear(p) /\ UNCHANGED <<table, fatfs>>
  /\ UNCHANGED <<ilock, lru, halted, calls, left, hasty>>

FlushWrite(p) ==
  /\ At(p, "flush_write")
  /\ WriteBack(call[p].i)
  /\ FlushClear(p)
  /\ UNCHANGED <<ilock, table, lru, halted, calls, left, hasty>>

(* ctable_lru_remove(): shift what is behind the slot, if it was there.  A   *)
(* reader may be shifting the list the other way: see LruAdd.               *)
Remove(p) ==
  LET j == call[p].j IN
  /\ At(p, "remove")
  /\ IF j \in 1 .. NCACHE - 1
     THEN /\ lru' = [lru EXCEPT ![j] = lru[j + 1]]
          /\ call' = [call EXCEPT ![p].j = @ + 1] /\ UNCHANGED <<pc, table>>
     ELSE /\ IF j = 0 THEN UNCHANGED lru ELSE lru' = [lru EXCEPT ![NCACHE] = 0]
          /\ FlushNext(p)
  /\ UNCHANGED <<ilock, cache, cref, fatfs, halted, calls, left, hasty>>
------------------------------------------------------------------------------
(* The steps a process owes once it is in a call. *)
Step(p) ==
  \/ Truncate(p) \/ Copy(p) \/ Unlock(p)
  \/ LockTable(p) \/ Find(p) \/ Adjust(p) \/ FindEmpty(p)
  \/ Seek(p) \/ Load(p) \/ ReadFails(p) \/ Idup(p) \/ LruAdd(p)
  \/ Evict(p) \/ EvictWrite(p) \/ WriteBackFails(p)
  \/ FlushLock(p) \/ Flush(p) \/ FlushWrite(p) \/ Remove(p) \/ Leave(p)

Next == \E p \in Procs : Call(p) \/ Exit(p) \/ Step(p)

Spec == Init /\ [][Next]_vars
------------------------------------------------------------------------------
(* Properties *)

(* ctable.lock and the mutexes of the pages are what everything here rests   *)
(* on.  A full list makes ctable_lru_add() evict without ctable.lock: after   *)
(* that (hasty) nothing is claimed.  It takes linkat(), whose ctable_release() *)
(* of one file can leave in the list what is no longer in the cache.         *)

(* The variables have their types: the indices of the loops stay within the  *)
(* table, the inode is referenced at most once for a page.                   *)
TypeOK ==
  /\ hasty \in BOOLEAN
  /\ hasty \/
     /\ pc \in [Procs -> {"idle", "trunc", "copy", "unlock", "table", "find", "adjust",
                          "empty", "seek", "load", "idup", "add", "evict", "evict_write",
                          "flush", "flushing", "flush_write", "remove", "flushed",
                          "leave", "exited"}]
     /\ call \in [Procs -> [op : Ops \cup {None}, file : Files \cup {None},
                            off : Pages, last : Pages, i : 0 .. NCACHE, e : 0 .. NCACHE,
                            j : 0 .. NCACHE, v : 0 .. NCACHE, retried : BOOLEAN]]
     /\ ilock \in [Files -> Procs \cup {None}]
     /\ table \in Procs \cup {None}
     /\ cache \in [Slots -> [valid : BOOLEAN, dirty : BOOLEAN, host : Files \cup {None},
                             off : Pages, data : Val, owner : Procs \cup {None}]]
     /\ lru \in [Slots -> 0 .. NCACHE]
     /\ cref \in [Files -> 0 .. NCACHE]
     /\ size \in [Files -> 0 .. NPage + 1]
     /\ disk \in [Files -> [0 .. NPage -> Val]]
     /\ fptr \in [Files -> 0 .. NPage + 1]
     /\ halted \in BOOLEAN
     /\ calls \in 0 .. MaxCalls
     /\ left \subseteq Slots

(* Loaded: the page has been read; while it is being read the disk counts. *)
Loaded(e) ==
  cache[e].valid /\ \A p \in Procs : pc[p] \in {"seek", "load"} => call[p].e # e

(* From the return of ctable_acquire() to the release of the page's mutex    *)
(* readi(), writei() and mmap() work on the page they asked for: nobody      *)
(* evicts it, gives its slot to another page or takes its mutex, though      *)
(* ctable_lru_evict() takes pages without their mutex and the LRU list is    *)
(* shifted by two processes at a time, so that it may name a slot twice, a    *)
(* slot that has been cleared, and another not at all.                       *)
InUseStays ==
  hasty \/ \A p \in Procs : pc[p] = "copy" =>
    /\ Matches(call[p].e, call[p]) /\ Loaded(call[p].e)
    /\ cache[call[p].e].owner = p

(* A page of a file is in one slot at most: two copies would drift apart.    *)
(* The references on an inode are those of the pages that are in: the inode  *)
(* is neither recycled under a page nor pinned for good.  And when a process  *)
(* that was alone in exit() is through with ctable_release() nothing is in    *)
(* the cache, nor comes back.                                               *)
CacheExact ==
  hasty \/
  /\ \A d, e \in Slots : d # e /\ cache[d].valid /\ cache[e].valid
                           => <<cache[d].host, cache[d].off>> # <<cache[e].host, cache[e].off>>
  /\ \A f \in Files :
       cref[f] = Cardinality({e \in Slots :
                   /\ Loaded(e) /\ cache[e].host = f
                   /\ \A p \in Procs : pc[p] = "idup" => call[p].e # e})
  /\ (\E p \in Procs : pc[p] = "flushed") => \A e \in Slots : ~cache[e].valid

(* What the file holds: the cached page, else the one on the disk. *)
SlotOf(f, g) == {e \in Slots : Loaded(e) /\ cache[e].host = f /\ cache[e].off = g}

Content == [f \in Fixed |-> [g \in Pages |->
  IF SlotOf(f, g) # {} THEN cache[CHOOSE e \in SlotOf(f, g) : TRUE].data ELSE disk[f][g]]]

(* The page in the hands of a process, from ctable_acquire() to the release. *)
Use == [p \in Procs |->
  IF pc[p] = "copy" /\ call[p].file \in Fixed
  THEN [file |-> call[p].file, page |-> call[p].off,
        writes |-> call[p].op = "write", seen |-> cache[call[p].e].data]
  ELSE None]

FC == INSTANCE FileContent WITH Files <- Fixed, content <- Content, use <- Use

(* The cache cannot be seen: whoever holds the inode's lock finds in a page   *)
(* what the last writer left there, whatever was evicted, written back or    *)
(* read again in between, by processes working on other files, and while     *)
(* other files grow, shrink, and are made links.  (Once hasty it can: a page  *)
(* may be evicted under its writer, and the write lost.)                     *)
Transparent == FC!Init /\ [][hasty' \/ FC!Next]_(FC!vars)

(* p waits in a sleeping mutex for ctable.lock or for a page. *)
WaitsForTable(p) == pc[p] \in {"table", "flush"} /\ table # None
WaitsForPage(p) ==
  pc[p] \in {"find", "empty", "flushing"} /\ cache[call[p].i].owner # None
Blocked(p) == WaitsForTable(p) \/ WaitsForPage(p)

(* Page mutexes, ctable.lock and inode locks are taken in no global order    *)
(* (ctable_release() waits for pages with ctable.lock, a reader for          *)
(* ctable.lock with its inode): still, whenever somebody is blocked somebody *)
(* else who is in a call is not; unless it is a page that mmap() has left    *)
(* locked that holds them up.                                               *)
SomeCallReturns ==
  hasty \/ halted \/ \A p \in Procs : Blocked(p) =>
    \/ \E q \in Procs : pc[q] \notin {"idle", "leave", "exited", "flushed"} /\ ~Blocked(q)
    \/ \E q \in Procs : WaitsForPage(q) /\ call[q].i \in left
=============================================================================
