------------------------------- MODULE Files --------------------------------
(***************************************************************************)
(* Open files: the pool of struct file, the table of in-memory inodes that *)
(* they and the working directories refer to, and the calls that walk a    *)
(* path, create, open, close, duplicate, unlink and rename.                *)
(*                                                                         *)
(* itable.lock and the lock of an inode are sleeping mutexes.  All that is *)
(* done to the table between acquire_mutex_sleep(&itable.lock) and its     *)
(* release is one step, however long FatFs and the disk take inside; to    *)
(* give an inode's mutex back is part of the step before.                  *)
(* FatFs is external: it keeps, for every path, what is there.             *)
(*                                                                         *)
(* The page cache is here by what PageCache shows of it (CacheExact): each *)
(* page that is in holds one reference on its inode, and gives it back by  *)
(* iput() when it is evicted or flushed.                                   *)
(***************************************************************************)
EXTENDS Integers, FiniteSets, FiniteSetsExt

CONSTANTS
  Procs,
  NInode,       (* NINODE, entries of the inode table                       *)
  NFile,        (* FILE_MAX, entries of the pool of files                   *)
  NFd,          (* FD_MAX, descriptors of a process                         *)
  NCACHE,       (* entries of the page cache                                *)
  Paths, Root,  (* absolute paths; they are at most two names deep          *)
  Parent,       (* the directory of each path but Root                      *)
  Disks,        (* what may be on the disk at the start                     *)
  Calls,        (* the system calls with a path that processes make         *)
  MaxCalls,     (* bound on the number of such calls, and of reads          *)
  None

PathOps == {"open", "opendir", "creat", "mkdir", "chdir", "unlink", "rename"}
Ops == PathOps \cup {"close", "read", "clone", "exit", "flush"}
Dirs == {Root} \cup {Parent[q] : q \in Paths \ {Root}}

ASSUME FilesAssumption ==
  /\ Procs # {} /\ IsFiniteSet(Procs)
  /\ NInode \in Nat \ {0} /\ NFile \in Nat \ {0} /\ NFd \in Nat \ {0}
  /\ Root \in Paths /\ Parent \in [Paths \ {Root} -> Paths]
  /\ \A q \in Paths \ {Root} : Parent[q] = Root \/ Parent[Parent[q]] = Root
  /\ Disks \subseteq [Paths -> {"none", "file", "dir"}]
  /\ \A k \in Disks : /\ k[Root] = "dir"
                      /\ \A q \in Paths \ {Root} :
                           k[q] # "none" => k[Parent[q]] = "dir"
  /\ Calls \subseteq [op : PathOps, abs : BOOLEAN, goal : Paths,
                      goal2 : Paths \cup {None}]
  /\ \A c \in Calls : c.op = "rename" => {c.goal, c.goal2} \subseteq Paths \ Dirs
  /\ MaxCalls \in Nat /\ NCACHE \in Nat \ {0}
  /\ None \notin Procs \cup Paths \cup Nat \cup Ops

Slots == 0 .. NInode - 1
FileSlots == 0 .. NFile - 1
Fds == 0 .. NFd - 1
Entries == 1 .. NCACHE
VARIABLES
  disk,       (* what FatFs has at each path: "none", "file" or "dir"       *)
  ino,        (* itable.inode                                               *)
  ilk,        (* who holds the lock of each inode                           *)
  file,       (* filepool.files                                             *)
  fds, cwd,   (* p->files and p->cwd                                        *)
  cached,     (* the inode of the page in each entry of the page cache      *)
  pc, loc,    (* control point and local variables of each process          *)
  calls,      (* the calls with a path, and the reads, so far               *)
  panicked    (* what panic() has shut the machine down for, or "no"        *)

vars == <<disk, ino, ilk, file, fds, cwd, cached, pc, loc, calls, panicked>>

NoLocals ==
  [op |-> None, abs |-> FALSE, goal |-> None, goal2 |-> None, marked |-> FALSE,
   ip |-> None, dp |-> None, fd |-> None, fd1 |-> None,
   child |-> None]

NoInode == [ref |-> 0, path |-> None, kind |-> None, unlinked |-> FALSE,
            newPath |-> None]

(* Points at which a process wants, or is inside, the inode table. *)
TablePoints == {"cwd", "from", "lookup", "walkput", "clookup", "cput", "icreate",
                "newput", "chput", "put", "idup", "exitcwd", "evict", "pageadd"}
(* Points at which it is about to lock the inode in loc.ip, or another one. *)
InodePoints == {"walk", "cfound", "newlock", "found", "mark", "rename", "read"}
Points == TablePoints \cup InodePoints
            \cup {"idle", "dead", "alloc", "close", "close1", "exit", "page", "flush"}

Init ==
  /\ disk \in Disks
  /\ ino = [s \in Slots |-> NoInode]
  /\ ilk = [s \in Slots |-> None]
  /\ file = [f \in FileSlots |-> [ref |-> 0, ip |-> None]]
  /\ fds = [p \in Procs |-> [d \in Fds |-> None]]
  /\ cwd = [p \in Procs |-> None]
  /\ cached = [e \in Entries |-> None]
  /\ \E shell \in Procs :
       pc = [p \in Procs |-> IF p = shell THEN "idle" ELSE "dead"]
  /\ loc = [p \in Procs |-> NoLocals]
  /\ calls = 0
  /\ panicked = "no"

-----------------------------------------------------------------------------
(* The inode table, as the holder of itable.lock sees it. *)

Live(s) == ino[s].ref > 0
EntriesOf(q) == {s \in Slots : Live(s) /\ ino[s].path = q}
FreeEntries == {s \in Slots : ~Live(s)}

Fresh(q, k) == [ref |-> 1, path |-> q, kind |-> k, unlinked |-> FALSE,
                newPath |-> None]
Referenced(s) == [ino EXCEPT ![s].ref = @ + 1]

(* iget_root() stops at the first entry that is "/" or free. *)
RootCandidates == EntriesOf(Root) \cup FreeEntries
RootSlot == Min(RootCandidates)
WithRoot(s) == IF Live(s) THEN Referenced(s)
                          ELSE [ino EXCEPT ![s] = Fresh(Root, "dir")]

(* Faulty variant: the result of f_opendir() and f_open() is not looked at. *)
MutLookupSlot(q) == IF EntriesOf(q) # {} THEN Min(EntriesOf(q))
                    ELSE Min(FreeEntries)

(* dirlookup(): the entry that has the path, else a new one for what FatFs
   finds there. *)
LookupSlot(q) == IF EntriesOf(q) # {} THEN Min(EntriesOf(q))
                 ELSE IF disk[q] = "none" THEN None ELSE Min(FreeEntries)
WithLookedUp(q, s) == IF s = None THEN ino
                      ELSE IF Live(s) THEN Referenced(s)
                      ELSE [ino EXCEPT ![s] = Fresh(q, disk[q])]
TableFull(q) == EntriesOf(q) = {} /\ FreeEntries = {}

(* f_mkdir(), and f_open() with FA_CREATE_ALWAYS. *)
FatCreates(q, k) == /\ disk[Parent[q]] = "dir"
                    /\ IF k = "dir" THEN disk[q] = "none" ELSE disk[q] # "dir"
(* f_unlink() refuses the root, and a directory that is not empty. *)
FatUnlinks(q) == /\ q # Root /\ disk[q] # "none"
                 /\ \A r \in Paths \ {Root} : Parent[r] = q => disk[r] = "none"
(* f_rename() wants the old name to exist and the new one not to. *)
FatRenames(q, r) == disk[q] # "none" /\ disk[r] = "none" /\ disk[Parent[r]] = "dir"

Last(s) == ino[s].ref = 1
RenamedAtPut(s) == Last(s) /\ ~ino[s].unlinked /\ ino[s].newPath # None

(* Faulty variant: what unlink() noted is done by any iput(). *)
MutPutInode(s) ==
  /\ ino' = IF Last(s) THEN [ino EXCEPT ![s] = NoInode]
                       ELSE [ino EXCEPT ![s].ref = @ - 1]
  /\ disk' = IF ino[s].unlinked /\ FatUnlinks(ino[s].path)
             THEN [disk EXCEPT ![ino[s].path] = "none"]
             ELSE IF RenamedAtPut(s)
             THEN [disk EXCEPT ![ino[s].path] = "none",
                               ![ino[s].newPath] = disk[ino[s].path]]
             ELSE disk

(* iput(): the last reference closes the file and does what unlink() and
   rename() had noted. *)
PutInode(s) ==
  /\ ino' = IF Last(s) THEN [ino EXCEPT ![s] = NoInode]
                       ELSE [ino EXCEPT ![s].ref = @ - 1]
  /\ disk' = IF Last(s) /\ ino[s].unlinked /\ FatUnlinks(ino[s].path)
             THEN [disk EXCEPT ![ino[s].path] = "none"]
             ELSE IF RenamedAtPut(s)
             THEN [disk EXCEPT ![ino[s].path] = "none",
                               ![ino[s].newPath] = disk[ino[s].path]]
             ELSE disk


Goto(p, at) == pc' = [pc EXCEPT ![p] = at]
Locals(p, l) == loc' = [loc EXCEPT ![p] = l]

(* Where a call continues once what it had opened and referenced is given
   back: exit() goes on with the next file, rename() with the old file. *)
Onward(p, l) ==
  LET at == IF l.op = "exit"
            THEN IF \A d \in Fds : fds'[p][d] = None THEN "exitcwd" ELSE "exit"
            ELSE IF l.fd1 = None THEN "idle"
            ELSE IF l.marked THEN "rename" ELSE "close1"
  IN  /\ Goto(p, at)
      /\ Locals(p, IF at = "idle" THEN NoLocals ELSE l)

-----------------------------------------------------------------------------
(* Walking a path: inode_or_parent_by_name().                              *)

Creating(p) == \/ loc[p].op \in {"creat", "mkdir"}
               \/ loc[p].op = "rename" /\ loc[p].fd1 # None
(* the next element on the way from directory d to path q *)
NextOn(d, q) == IF Parent[q] = d THEN q ELSE Parent[q]
Below(d) == {q \in Paths \ {Root} :
               Parent[q] = d \/ (Parent[q] # Root /\ Parent[Parent[q]] = d)}

CwdPath(p) == IF cwd[p] = None THEN Root ELSE ino[cwd[p]].path

StartWalk(p, l) ==
  /\ Goto(p, IF cwd[p] = None THEN "cwd" ELSE "from")
  /\ Locals(p, l)

(* A system call that takes a path, absolute or below the working directory.
   Bound: directories are not renamed. *)
PathCall(p) ==
  /\ pc[p] = "idle"
  /\ calls < MaxCalls
  /\ calls' = calls + 1
  /\ \E c \in Calls :
       /\ ~c.abs => {c.goal, c.goal2} \ {None} \subseteq Below(CwdPath(p))
       /\ StartWalk(p, [NoLocals EXCEPT !.op = c.op, !.abs = c.abs,
                                        !.goal = c.goal, !.goal2 = c.goal2])
  /\ UNCHANGED <<disk, ino, ilk, file, fds, cwd, cached, panicked>>

(* The walk has come to path q. *)
Arrive(p, q) == Goto(p, IF q # loc[p].goal THEN "walk"
                        ELSE IF Creating(p) THEN "put" ELSE "found")

(* Faulty variant: a relative walk starts without idup(). *)
MutWalkFrom(p) ==
  /\ pc[p] = "from"
  /\ LET s == IF loc[p].abs THEN RootSlot ELSE cwd[p]
     IN  /\ ino' = IF loc[p].abs THEN WithRoot(s) ELSE ino
         /\ Locals(p, [loc[p] EXCEPT !.ip = s])
  /\ Arrive(p, IF loc[p].abs THEN Root ELSE CwdPath(p))
  /\ UNCHANGED <<disk, ilk, file, fds, cwd, cached, calls, panicked>>

(* The shell has no working directory before its first path. *)
FirstCwd(p) ==
  /\ pc[p] = "cwd"
  /\ ino' = WithRoot(RootSlot)
  /\ cwd' = [cwd EXCEPT ![p] = RootSlot]
  /\ Goto(p, "from")
  /\ UNCHANGED <<disk, ilk, file, fds, cached, loc, calls, panicked>>

WalkFrom(p) ==
  /\ pc[p] = "from"
  /\ LET s == IF loc[p].abs THEN RootSlot ELSE cwd[p]
     IN  /\ ino' = IF loc[p].abs THEN WithRoot(s) ELSE Referenced(s)
         /\ Locals(p, [loc[p] EXCEPT !.ip = s])
  /\ Arrive(p, IF loc[p].abs THEN Root ELSE CwdPath(p))
  /\ UNCHANGED <<disk, ilk, file, fds, cwd, cached, calls, panicked>>

(* One more element: lock the directory.  When the name after it is to be
   created, the walk ends here and create() locks the directory again. *)
WalkStep(p) ==
  LET d == loc[p].ip
      parent == Creating(p) /\ Parent[loc[p].goal] = ino[d].path IN
  /\ pc[p] = "walk"
  /\ ilk[d] = None
  /\ \/ /\ ino[d].kind # "dir"
        /\ Goto(p, "put")
        /\ UNCHANGED <<ilk, loc>>
     \/ /\ ino[d].kind = "dir"
        /\ ilk' = [ilk EXCEPT ![d] = p]
        /\ Goto(p, IF parent THEN "clookup" ELSE "lookup")
        /\ IF parent THEN Locals(p, [loc[p] EXCEPT !.dp = d, !.ip = None])
                     ELSE UNCHANGED loc
  /\ UNCHANGED <<disk, ino, file, fds, cwd, cached, calls, panicked>>

WalkLookup(p) ==
  /\ pc[p] = "lookup"
  /\ LET d == loc[p].ip
         q == NextOn(ino[d].path, loc[p].goal)
         s == LookupSlot(q)
     IN  /\ ino' = WithLookedUp(q, s)
         /\ Locals(p, [loc[p] EXCEPT !.dp = d, !.ip = s])
         /\ ilk' = [ilk EXCEPT ![d] = None]
  /\ Goto(p, "walkput")
  /\ UNCHANGED <<disk, file, fds, cwd, cached, calls, panicked>>

(* iput() of the directory that was searched. *)
WalkPut(p) ==
  /\ pc[p] = "walkput"
  /\ PutInode(loc[p].dp)
  /\ UNCHANGED <<ilk, file, fds, cwd, cached, calls, panicked>>
  /\ LET l == [loc[p] EXCEPT !.dp = None]
     IN  IF l.ip = None THEN Onward(p, l)
                             ELSE Arrive(p, ino[l.ip].path) /\ Locals(p, l)

-----------------------------------------------------------------------------
(* create()                                                                *)

CreateLookup(p) ==
  /\ pc[p] = "clookup"
  /\ LET s == LookupSlot(loc[p].goal)
     IN  /\ ino' = WithLookedUp(loc[p].goal, s)
         /\ Locals(p, [loc[p] EXCEPT !.ip = s])
         /\ IF s = None THEN Goto(p, "icreate") /\ UNCHANGED ilk
            ELSE Goto(p, "cput") /\ ilk' = [ilk EXCEPT ![loc[p].dp] = None]
  /\ UNCHANGED <<disk, file, fds, cwd, cached, calls, panicked>>

CreatePut(p) ==
  /\ pc[p] = "cput"
  /\ PutInode(loc[p].dp)
  /\ Locals(p, [loc[p] EXCEPT !.dp = None])
  /\ Goto(p, "cfound")
  /\ UNCHANGED <<ilk, file, fds, cwd, cached, calls, panicked>>

(* The name exists: only a file may be opened that way. *)
CreateFound(p) ==
  LET s == loc[p].ip IN
  /\ pc[p] = "cfound"
  /\ ilk[s] = None
  /\ IF loc[p].op # "mkdir" /\ ino[s].kind = "file"
     THEN Goto(p, "alloc") /\ ilk' = [ilk EXCEPT ![s] = p]
     ELSE Goto(p, "put") /\ UNCHANGED ilk
  /\ UNCHANGED <<disk, ino, file, fds, cwd, cached, loc, calls, panicked>>

NewKind(p) == IF loc[p].op = "mkdir" THEN "dir" ELSE "file"

(* Faulty variant: the table is not searched again. *)
MutIcreate(p) ==
  LET q == loc[p].goal
      s == Min(IF FreeEntries # {} THEN FreeEntries ELSE EntriesOf(q)) IN
  /\ pc[p] = "icreate"
  /\ disk' = [disk EXCEPT ![q] = NewKind(p)]
  /\ ino' = [ino EXCEPT ![s] = Fresh(q, NewKind(p))]
  /\ Locals(p, [loc[p] EXCEPT !.ip = s])
  /\ Goto(p, "newlock")
  /\ UNCHANGED <<ilk, file, fds, cwd, cached, calls, panicked>>

(* icreate(): another entry may have appeared for the path in the meantime. *)
Icreate(p) ==
  LET q == loc[p].goal IN
  /\ pc[p] = "icreate"
  /\ \/ /\ EntriesOf(q) # {}
        /\ ino' = Referenced(Min(EntriesOf(q)))
        /\ Locals(p, [loc[p] EXCEPT !.ip = Min(EntriesOf(q))])
        /\ UNCHANGED disk
     \/ /\ EntriesOf(q) = {}
        /\ disk' = [disk EXCEPT ![q] = NewKind(p)]
        /\ ino' = [ino EXCEPT ![Min(FreeEntries)] = Fresh(q, NewKind(p))]
        /\ Locals(p, [loc[p] EXCEPT !.ip = Min(FreeEntries)])
  /\ Goto(p, "newlock")
  /\ UNCHANGED <<ilk, file, fds, cwd, cached, calls, panicked>>

(* ilock(ip), then iunlock(dp) *)
LockNew(p) ==
  /\ pc[p] = "newlock"
  /\ ilk[loc[p].ip] = None
  /\ ilk' = [ilk EXCEPT ![loc[p].ip] = p, ![loc[p].dp] = None]
  /\ Goto(p, "newput")
  /\ UNCHANGED <<disk, ino, file, fds, cwd, cached, loc, calls, panicked>>

(* iput(dp); mkdir() is then done with the new directory. *)
NewPut(p) ==
  /\ pc[p] = "newput"
  /\ PutInode(loc[p].dp)
  /\ Locals(p, [loc[p] EXCEPT !.dp = None])
  /\ IF loc[p].op = "mkdir"
     THEN Goto(p, "put") /\ ilk' = [ilk EXCEPT ![loc[p].ip] = None]
     ELSE Goto(p, "alloc") /\ UNCHANGED ilk
  /\ UNCHANGED <<file, fds, cwd, cached, calls, panicked>>

(* Faulty variant: chdir() keeps the lock of its new directory. *)
MutFound(p) ==
  LET s == loc[p].ip IN
  /\ pc[p] = "found"
  /\ ilk[s] = None
  /\ IF loc[p].op \in {"opendir", "chdir"} /\ ino[s].kind # "dir"
     THEN Goto(p, "put") /\ UNCHANGED ilk
     ELSE /\ Goto(p, IF loc[p].op = "chdir" THEN "chput" ELSE "alloc")
          /\ ilk' = [ilk EXCEPT ![s] = p]
  /\ UNCHANGED <<disk, ino, file, fds, cwd, cached, loc, calls, panicked>>

-----------------------------------------------------------------------------
(* fileopen() and chdir() with the inode found.                            *)

Found(p) ==
  LET s == loc[p].ip IN
  /\ pc[p] = "found"
  /\ ilk[s] = None
  /\ IF loc[p].op \in {"opendir", "chdir"} /\ ino[s].kind # "dir"
     THEN Goto(p, "put") /\ UNCHANGED ilk
     ELSE IF loc[p].op = "chdir" THEN Goto(p, "chput") /\ UNCHANGED ilk
     ELSE Goto(p, "alloc") /\ ilk' = [ilk EXCEPT ![s] = p]
  /\ UNCHANGED <<disk, ino, file, fds, cwd, cached, loc, calls, panicked>>

ChdirPut(p) ==
  /\ pc[p] = "chput"
  /\ PutInode(cwd[p])
  /\ cwd' = [cwd EXCEPT ![p] = loc[p].ip]
  /\ UNCHANGED <<ilk, file, fds, cached, calls, panicked>>
  /\ Onward(p, [loc[p] EXCEPT !.ip = None])

FreeFiles == {f \in FileSlots : file[f].ref = 0}
FreeFds(p) == {d \in Fds : fds[p][d] = None}

(* filealloc(), fdalloc() and the rest of fileopen() up to iunlock(ip).  The
   pool's lock is free in between, but the new file is nobody else's. *)
OpenFile(p) ==
  LET l == [loc[p] EXCEPT !.ip = None]
      f == Min(FreeFiles)
      d == Min(FreeFds(p)) IN
  /\ pc[p] = "alloc"
  /\ FreeFiles # {} /\ FreeFds(p) # {}
  /\ file' = [file EXCEPT ![f] = [ref |-> 1, ip |-> loc[p].ip]]
  /\ fds' = [fds EXCEPT ![p][d] = f]
  /\ ilk' = [ilk EXCEPT ![loc[p].ip] = None]
  /\ IF l.op = "unlink" \/ (l.op = "rename" /\ Creating(p))
     THEN Goto(p, "mark") /\ Locals(p, [l EXCEPT !.fd = d])
     ELSE IF l.op = "rename"
     THEN StartWalk(p, [l EXCEPT !.fd1 = d, !.goal = l.goal2])
     ELSE Goto(p, "idle") /\ Locals(p, NoLocals)
  /\ UNCHANGED <<disk, ino, cwd, cached, calls, panicked>>

OpenFails(p) ==
  /\ pc[p] = "alloc"
  /\ FreeFiles = {} \/ FreeFds(p) = {}
  /\ ilk' = [ilk EXCEPT ![loc[p].ip] = None]
  /\ Goto(p, "put")
  /\ UNCHANGED <<disk, ino, file, fds, cwd, cached, loc, calls, panicked>>

-----------------------------------------------------------------------------
(* fileunlink(), filerename() and fileclose()                              *)

InodeOf(p, d) == file[fds[p][d]].ip

MarkUnlinked(p) ==
  LET s == InodeOf(p, loc[p].fd) IN
  /\ pc[p] = "mark"
  /\ ilk[s] = None
  /\ ino' = [ino EXCEPT ![s].unlinked = TRUE]
  /\ Locals(p, [loc[p] EXCEPT !.marked = TRUE])
  /\ Goto(p, "close")
  /\ UNCHANGED <<disk, ilk, file, fds, cwd, cached, calls, panicked>>

NoteNewPath(p) ==
  LET s == InodeOf(p, loc[p].fd1) IN
  /\ pc[p] = "rename"
  /\ ilk[s] = None
  /\ ino' = [ino EXCEPT ![s].newPath = loc[p].goal2]
  /\ Goto(p, "close1")
  /\ UNCHANGED <<disk, ilk, file, fds, cwd, cached, loc, calls, panicked>>

(* fileclose() of descriptor d; the last reference leaves an inode to put. *)
CloseFile(p, d, l) ==
  LET f == fds[p][d] IN
  /\ fds' = [fds EXCEPT ![p][d] = None]
  /\ IF file[f].ref > 1
     THEN /\ file' = [file EXCEPT ![f].ref = @ - 1]
          /\ Onward(p, l)
     ELSE /\ file' = [file EXCEPT ![f] = [ref |-> 0, ip |-> None]]
          /\ Goto(p, "put")
          /\ Locals(p, [l EXCEPT !.ip = file[f].ip])
  /\ UNCHANGED <<disk, ino, ilk, cwd, cached, calls, panicked>>

Put(p) ==
  /\ pc[p] = "put"
  /\ PutInode(loc[p].ip)
  /\ UNCHANGED <<ilk, file, fds, cwd, cached, calls, panicked>>
  /\ Onward(p, [loc[p] EXCEPT !.ip = None])

CloseAtEnd(p) == pc[p] = "close"
                   /\ CloseFile(p, loc[p].fd, [loc[p] EXCEPT !.fd = None])
CloseOld(p) == pc[p] = "close1"
                 /\ CloseFile(p, loc[p].fd1, [loc[p] EXCEPT !.fd1 = None])

CallClose(p) ==
  /\ pc[p] = "idle"
  /\ \E d \in Fds \ FreeFds(p) :
       CloseFile(p, d, [NoLocals EXCEPT !.op = "close"])

Dup(p) ==
  /\ pc[p] = "idle"
  /\ FreeFds(p) # {}
  /\ \E d \in Fds \ FreeFds(p) :
       /\ fds' = [fds EXCEPT ![p][Min(FreeFds(p))] = fds[p][d]]
       /\ file' = [file EXCEPT ![fds[p][d]].ref = @ + 1]
  /\ UNCHANGED <<disk, ino, ilk, cwd, cached, pc, loc, calls, panicked>>

-----------------------------------------------------------------------------
(* A page of an open file: fileread(), filewrite(), mmap().                *)

Read(p) ==
  /\ pc[p] = "idle"
  /\ calls < MaxCalls
  /\ calls' = calls + 1
  /\ \E d \in Fds \ FreeFds(p) :
       /\ ino[InodeOf(p, d)].kind = "file"
       /\ Locals(p, [NoLocals EXCEPT !.op = "read", !.fd = d])
  /\ Goto(p, "read")
  /\ UNCHANGED <<disk, ino, ilk, file, fds, cwd, cached, panicked>>

ReadLock(p) ==
  LET s == InodeOf(p, loc[p].fd) IN
  /\ pc[p] = "read"
  /\ ilk[s] = None
  /\ ilk' = [ilk EXCEPT ![s] = p]
  /\ Goto(p, "page")
  /\ UNCHANGED <<disk, ino, file, fds, cwd, cached, loc, calls, panicked>>

(* iunlock() and the end of the call *)
ReadEnds(p) ==
  /\ ilk' = [ilk EXCEPT ![InodeOf(p, loc[p].fd)] = None]
  /\ Goto(p, "idle")
  /\ Locals(p, NoLocals)

(* The page that goes takes its reference on the inode with it to iput(). *)
Victim(p) ==
  \E e \in Entries :
    /\ cached[e] # None
    /\ cached' = [cached EXCEPT ![e] = None]
    /\ Locals(p, [loc[p] EXCEPT !.dp = cached[e]])

(* Entries in use, those whose page is being read included. *)
InUse == Cardinality({e \in Entries : cached[e] # None})
           + Cardinality({q \in Procs : pc[q] = "pageadd"})

(* ctable_acquire(): the page is there or cannot be read, an entry is free, or
   one is evicted; ctable.lock is held all the time of an eviction. *)
GetPage(p) ==
  /\ pc[p] = "page"
  /\ \A q \in Procs : pc[q] # "evict"
  /\ \/ ReadEnds(p) /\ UNCHANGED cached
     \/ /\ InUse < NCACHE
        /\ Goto(p, "pageadd")
        /\ UNCHANGED <<ilk, cached, loc>>
     \/ /\ InUse = NCACHE
        /\ Victim(p)
        /\ Goto(p, "evict")
        /\ UNCHANGED ilk
  /\ UNCHANGED <<disk, ino, file, fds, cwd, calls, panicked>>

(* ctable_lru_evict() and ctable_release(NULL) *)
Evict(p) ==
  /\ pc[p] = "evict"
  /\ PutInode(loc[p].dp)
  /\ Locals(p, [loc[p] EXCEPT !.dp = None])
  /\ Goto(p, IF loc[p].op = "flush" THEN "flush" ELSE "pageadd")
  /\ UNCHANGED <<ilk, file, fds, cwd, cached, calls, panicked>>

(* The page has been read: idup(ip), and the copy. *)
AddPage(p) ==
  LET s == InodeOf(p, loc[p].fd) IN
  /\ pc[p] = "pageadd"
  /\ ino' = Referenced(s)
  /\ \E e \in Entries : /\ cached[e] = None
                        /\ cached' = [cached EXCEPT ![e] = s]
  /\ ReadEnds(p)
  /\ UNCHANGED <<disk, file, fds, cwd, calls, panicked>>

(* exit() of the last process: the cache is emptied, without a spin lock. *)
Flush(p) ==
  /\ pc[p] = "flush"
  /\ \/ /\ \A e \in Entries : cached[e] = None
        /\ Goto(p, "dead")
        /\ Locals(p, NoLocals)
        /\ UNCHANGED cached
     \/ Victim(p) /\ Goto(p, "evict")
  /\ UNCHANGED <<disk, ino, ilk, file, fds, cwd, calls, panicked>>

-----------------------------------------------------------------------------
(* clone() with np->lock and exit() with p->lock.  Both want a working
   directory: the shell opens its console before it makes a process. *)

Clone(p) ==
  /\ pc[p] = "idle"
  /\ cwd[p] # None
  /\ \E q \in Procs :
       /\ pc[q] = "dead"
       /\ \A r \in Procs : loc[r].child # q
       /\ fds' = [fds EXCEPT ![q] = fds[p]]
       /\ file' = [f \in FileSlots |->
                    [file[f] EXCEPT
                       !.ref = @ + Cardinality({d \in Fds : fds[p][d] = f})]]
       /\ Locals(p, [NoLocals EXCEPT !.op = "clone", !.child = q])
  /\ Goto(p, "idup")
  /\ UNCHANGED <<disk, ino, ilk, cwd, cached, calls, panicked>>

CloneCwd(p) ==
  /\ pc[p] = "idup"
  /\ ino' = Referenced(cwd[p])
  /\ cwd' = [cwd EXCEPT ![loc[p].child] = cwd[p]]
  /\ pc' = [pc EXCEPT ![p] = "idle", ![loc[p].child] = "idle"]
  /\ Locals(p, NoLocals)
  /\ UNCHANGED <<disk, ilk, file, fds, cached, calls, panicked>>

Exit(p) ==
  /\ pc[p] = "idle"
  /\ cwd[p] # None
  /\ Goto(p, IF Fds = FreeFds(p) THEN "exitcwd" ELSE "exit")
  /\ Locals(p, [NoLocals EXCEPT !.op = "exit"])
  /\ UNCHANGED <<disk, ino, ilk, file, fds, cwd, cached, calls, panicked>>

(* close_proc_files(), one file a step *)
ExitFile(p) ==
  /\ pc[p] = "exit"
  /\ CloseFile(p, Min(Fds \ FreeFds(p)), loc[p])

(* the_only_proc_in_pool(): the last process finds itself alone, unless
   another that has come as far as this has not left its slot yet. *)
Alone(p) == \A q \in Procs \ {p} : pc[q] = "dead"

(* iput(p->cwd); then the page cache is flushed, or not. *)
ExitCwd(p) ==
  /\ pc[p] = "exitcwd"
  /\ PutInode(cwd[p])
  /\ cwd' = [cwd EXCEPT ![p] = None]
  /\ \/ Goto(p, "dead") /\ Locals(p, NoLocals)
     \/ /\ Alone(p)
        /\ Goto(p, "flush")
        /\ Locals(p, [NoLocals EXCEPT !.op = "flush"])
  /\ UNCHANGED <<ilk, file, fds, cached, calls, panicked>>

-----------------------------------------------------------------------------
(* What ends in panic().                                                   *)

(* the entry the process is about to give back *)
PutAt(p) == IF pc[p] \in {"walkput", "cput", "newput", "evict"} THEN loc[p].dp
            ELSE IF pc[p] \in {"chput", "exitcwd"} THEN cwd[p]
            ELSE IF pc[p] = "put" THEN loc[p].ip ELSE None

(* iget_root(), dirlookup() and icreate(): "iget: no inodes" *)
NoInodes(p) ==
  \/ pc[p] = "cwd" /\ RootCandidates = {}
  \/ pc[p] = "from" /\ loc[p].abs /\ RootCandidates = {}
  \/ pc[p] = "lookup" /\ TableFull(NextOn(ino[loc[p].ip].path, loc[p].goal))
  \/ pc[p] \in {"clookup", "icreate"} /\ TableFull(loc[p].goal)
(* ilock(NULL) in create(), when icreate() has failed *)
CreateFails(p) == /\ pc[p] = "icreate"
                  /\ EntriesOf(loc[p].goal) = {}
                  /\ ~FatCreates(loc[p].goal, NewKind(p))
(* iput(): "f_rename failed" *)
RenameFails(p) ==
  LET s == PutAt(p) IN
  s # None /\ RenamedAtPut(s) /\ ~FatRenames(ino[s].path, ino[s].newPath)

Panics(p) == NoInodes(p) \/ CreateFails(p) \/ RenameFails(p)

(* clone() holds np->lock and exit() p->lock when they want the table.  While
   another process is inside they sleep, which neither lock allows: sleep()
   would take p->lock again, or switch with two locks held. *)
HoldsSpinLock(p) == loc[p].op \in {"clone", "exit"}
SleepsLocked(p) == /\ HoldsSpinLock(p) /\ pc[p] \in TablePoints
                   /\ \E q \in Procs \ {p} : pc[q] \in TablePoints

Panic(p) ==
  /\ panicked' = IF NoInodes(p) THEN "iget: no inodes"
                 ELSE IF CreateFails(p) THEN "ilock"
                 ELSE IF RenameFails(p) THEN "iput: f_rename failed"
                 ELSE "noff"
  /\ UNCHANGED <<disk, ino, ilk, file, fds, cwd, cached, pc, loc, calls>>

WalkPath(p) == \/ FirstCwd(p) \/ WalkFrom(p) \/ WalkStep(p) \/ WalkLookup(p)
               \/ WalkPut(p)
Create(p) == \/ CreateLookup(p) \/ CreatePut(p) \/ CreateFound(p)
             \/ Icreate(p) \/ LockNew(p) \/ NewPut(p)
OpenFound(p) == Found(p) \/ ChdirPut(p) \/ OpenFile(p) \/ OpenFails(p)
Finish(p) == \/ MarkUnlinked(p) \/ NoteNewPath(p) \/ Put(p) \/ CloseAtEnd(p)
             \/ CloseOld(p)
UsePage(p) == ReadLock(p) \/ GetPage(p) \/ Evict(p) \/ AddPage(p)
Leave(p) == CloneCwd(p) \/ ExitFile(p) \/ ExitCwd(p) \/ Flush(p)

(* what the kernel does for a process without further calls of the user *)
Step(p) ==
  /\ panicked = "no"
  /\ \/ Panics(p) /\ Panic(p)
     \/ SleepsLocked(p) /\ Panic(p)
     \/ ~Panics(p) /\ (\/ WalkPath(p) \/ Create(p) \/ OpenFound(p) \/ Finish(p)
                       \/ UsePage(p) \/ Leave(p))
Call(p) ==
  /\ panicked = "no"
  /\ PathCall(p) \/ Read(p) \/ CallClose(p) \/ Dup(p) \/ Clone(p) \/ Exit(p)

Next == \E p \in Procs : Step(p) \/ Call(p)

Spec == Init /\ [][Next]_vars

-----------------------------------------------------------------------------
TypeOK ==
  /\ disk \in [Paths -> {"none", "file", "dir"}]
  /\ ino \in [Slots -> [ref : Nat, path : Paths \cup {None},
                        kind : {"file", "dir", None}, unlinked : BOOLEAN,
                        newPath : Paths \cup {None}]]
  /\ ilk \in [Slots -> Procs \cup {None}]
  /\ file \in [FileSlots -> [ref : Nat, ip : Slots \cup {None}]]
  /\ fds \in [Procs -> [Fds -> FileSlots \cup {None}]]
  /\ cwd \in [Procs -> Slots \cup {None}]
  /\ cached \in [Entries -> Slots \cup {None}]
  /\ pc \in [Procs -> Points]
  /\ loc \in [Procs -> [op : Ops \cup {None}, abs : BOOLEAN,
                        goal : Paths \cup {None}, goal2 : Paths \cup {None},
                        marked : BOOLEAN, ip : Slots \cup {None},
                        dp : Slots \cup {None},
                        fd : Fds \cup {None}, fd1 : Fds \cup {None},
                        child : Procs \cup {None}]]
  /\ calls \in Nat
  /\ panicked \in {"no", "iget: no inodes", "ilock", "iput: f_rename failed", "noff"}

FileHolders(f) == {h \in Procs \X Fds : fds[h[1]][h[2]] = f}
InodeHolders(s) ==
  Cardinality({e \in Entries : cached[e] = s})
            + Cardinality({f \in FileSlots : file[f].ip = s})
            + Cardinality({p \in Procs : cwd[p] = s})
            + Cardinality({p \in Procs : loc[p].ip = s})
            + Cardinality({p \in Procs : loc[p].dp = s})

(* Every reference count is the number of those who hold a reference:
   descriptors, of all processes, for a file; open files, working directories,
   pages in the cache and calls under way for an inode.  A count too low frees
   what is in use (iput, fileclose), one too high never closes the file. *)
RefsExact ==
  /\ \A f \in FileSlots : file[f].ref = Cardinality(FileHolders(f))
  /\ \A s \in Slots : ino[s].ref = InodeHolders(s)

(* Two entries for one file would be two FatFs objects that write the same
   directory entry and clusters; the table is searched for the path and the
   entry added under one hold of itable.lock (dirlookup, icreate). *)
OneEntryPerFile ==
  \A s, t \in Slots : Live(s) /\ Live(t) /\ ino[s].path = ino[t].path
                        /\ ino[s].path # Root => s = t

(* What somebody has open is on the disk, as what it was opened: it is deleted
   or renamed only by the last iput(), and create() never replaces it.  Nor is
   an entry given away while a process holds its lock, so that iunlock() finds
   the inode it locked. *)
OpenExists ==
  \A s \in Slots : /\ Live(s) => disk[ino[s].path] = ino[s].kind
                   /\ ilk[s] # None => Live(s)

(* No process sleeps with a spin lock in hand beside the one sleep() takes:
   switch_to_scheduler() asserts noff == 1. *)
SleepsUnlocked == panicked # "noff"

(* the inode whose lock a process wants next *)
Wants(p) == CASE pc[p] \in {"walk", "cfound", "newlock", "found"} -> loc[p].ip
              [] pc[p] \in {"mark", "read"} -> InodeOf(p, loc[p].fd)
              [] pc[p] = "rename" -> InodeOf(p, loc[p].fd1)
              [] OTHER -> None
InCall(p) == pc[p] \notin {"idle", "dead"}
Blocked(p) == \/ Wants(p) # None /\ ilk[Wants(p)] # None
              \/ pc[p] = "page" /\ \E q \in Procs : pc[q] = "evict"

(* Processes in system calls never all wait for each other's inodes, and no
   call returns with an inode locked: a directory is locked before what is in
   it, and given up on every path (create, inode_or_parent_by_name, fileopen). *)
SomeCallGoesOn ==
  (\E p \in Procs : Blocked(p)) => \E p \in Procs : InCall(p) /\ ~Blocked(p)
=============================================================================
