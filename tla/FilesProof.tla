------------------------------ MODULE FilesProof ------------------------------
(***************************************************************************)
(* Proofs about Files, for any number of processes, paths, descriptors,    *)
(* files, inodes and pages.                                                *)
(***************************************************************************)
EXTENDS Files, FiniteSetTheorems, WellFoundedInduction, TLAPS

(* Points with a reference in loc.ip (in walkput, if the name was there);   *)
(* with one in loc.dp; and of a call that walks.                            *)
HasIp == {"walk", "lookup", "cput", "cfound", "newlock", "newput", "found",
          "alloc", "chput", "put"}
HasDp == {"walkput", "clookup", "cput", "icreate", "newlock", "newput", "evict"}
Walking == {"cwd", "from", "walk", "lookup", "walkput", "clookup", "cput",
            "cfound", "icreate", "newlock", "newput", "found", "alloc"}

IpPath(p) == ino[loc[p].ip].path
DpPath(p) == ino[loc[p].dp].path
NoFds(p) == \A d \in Fds : fds[p][d] = None
Reading(p) == pc[p] \in {"page", "pageadd"} \/ (pc[p] = "evict" /\ loc[p].op = "read")

(* The inode whose lock a process has. *)
Locked(p) == IF pc[p] = "lookup" THEN loc[p].ip
             ELSE IF pc[p] \in {"clookup", "icreate", "newlock"} THEN loc[p].dp
             ELSE IF pc[p] \in {"newput", "alloc"} THEN loc[p].ip
             ELSE IF Reading(p) THEN InodeOf(p, loc[p].fd)
             ELSE None

(* A process has references where the code says so, and nowhere else; *)
LRefs(p) == /\ pc[p] # "walkput" => (loc[p].ip # None <=> pc[p] \in HasIp)
            /\ loc[p].dp # None <=> pc[p] \in HasDp
            /\ pc[p] \in {"idle", "dead"} => loc[p] = NoLocals

(* its descriptors are open, and there when it wants them; *)
LFds(p) == /\ loc[p].fd # None => fds[p][loc[p].fd] # None /\ loc[p].fd # loc[p].fd1
           /\ loc[p].fd1 # None => fds[p][loc[p].fd1] # None /\ loc[p].op = "rename"
           /\ pc[p] \in {"mark", "close", "read"} \/ Reading(p) => loc[p].fd # None
           /\ pc[p] \in {"rename", "close1"} => loc[p].fd1 # None

(* it is in the call that has this point; *)
LOps(p) == /\ pc[p] \in Walking => loc[p].op \in PathOps /\ loc[p].goal \in Paths
           /\ pc[p] = "evict" => loc[p].op \in {"read", "flush"}
           /\ pc[p] \in {"read", "page", "pageadd"} => loc[p].op = "read"
           /\ pc[p] \in {"exit", "exitcwd"} => loc[p].op = "exit"
           /\ loc[p].op = "exit" => /\ pc[p] \in {"exit", "exitcwd", "put"}
                                    /\ loc[p].fd = None
           /\ pc[p] = "chput" => loc[p].op = "chdir"
           /\ pc[p] = "exit" => ~NoFds(p)
           /\ pc[p] = "exitcwd" => NoFds(p)
           /\ pc[p] = "flush" => loc[p].op = "flush"
           /\ loc[p].op = "flush" => /\ pc[p] \in {"flush", "evict"}
                                     /\ NoFds(p) /\ cwd[p] = None
           /\ loc[p].child # None <=> pc[p] = "idup"

(* it has a working directory once it has walked; *)
LCwd(p) == /\ pc[p] \in {"cwd", "dead"} => cwd[p] = None
           /\ loc[p].op \in PathOps \cup {"clone", "exit"} /\ pc[p] # "cwd"
                => cwd[p] # None
           /\ pc[p] = "idup" => loc[p].op = "clone"

(* what it looks for is below where it starts, *)
LGoal(p) == /\ loc[p].op = "rename" => {loc[p].goal, loc[p].goal2} \subseteq Paths \ Dirs
            /\ pc[p] \in Walking /\ ~loc[p].abs =>
                 {loc[p].goal, loc[p].goal2} \ {None} \subseteq Below(CwdPath(p))
            /\ loc[p].fd1 # None => ino[InodeOf(p, loc[p].fd1)].path # Root

(* and below where it is; a directory in hand is the parent of the goal.    *)
LPath(p) == /\ pc[p] \in {"walk", "lookup"} => loc[p].goal \in Below(IpPath(p))
            /\ pc[p] = "walkput" /\ loc[p].ip # None =>
                 IpPath(p) = loc[p].goal \/ loc[p].goal \in Below(IpPath(p))
            /\ pc[p] \in {"cput", "cfound", "newlock", "newput", "found", "alloc"} =>
                 IpPath(p) = loc[p].goal
            /\ pc[p] \in {"clookup", "icreate", "newlock"} =>
                 loc[p].goal # Root /\ Parent[loc[p].goal] = DpPath(p)

LocalOK(p) == LRefs(p) /\ LFds(p) /\ LOps(p) /\ LCwd(p) /\ LGoal(p) /\ LPath(p)
InvLocal == \A p \in Procs : LocalOK(p)

InvLock == \A s \in Slots, p \in Procs : ilk[s] = p <=> Locked(p) = s

(* A process that clone() is making is dead until it has all it gets. *)
InvChild ==
  /\ \A p \in Procs : loc[p].child # None => pc[loc[p].child] = "dead"
  /\ \A p, q \in Procs : loc[p].child # None /\ loc[p].child = loc[q].child => p = q
  /\ \A q \in Procs : pc[q] = "dead" /\ ~NoFds(q) => \E p \in Procs : loc[p].child = q

InvFile == \A f \in FileSlots : file[f].ref = 0 <=> file[f].ip = None

(* What is in the table is on the disk, and no two entries are one file. *)
EntryOK(s) ==
  IF Live(s) THEN /\ ino[s].path \in Paths
                  /\ ino[s].kind \in {"file", "dir"}
                  /\ disk[ino[s].path] = ino[s].kind
                  /\ ino[s].newPath # None => ino[s].path # Root
             ELSE ino[s] = NoInode
InvTable == (\A s \in Slots : EntryOK(s)) /\ OneEntryPerFile /\ disk[Root] = "dir"

IInv == /\ TypeOK /\ RefsExact /\ InvLocal /\ InvLock /\ InvChild /\ InvFile
        /\ InvTable
-----------------------------------------------------------------------------
(* Counting.                                                               *)

OpNames == Ops \cup {None}
LocRec == [op : OpNames, abs : BOOLEAN, goal : Paths \cup {None},
           goal2 : Paths \cup {None}, marked : BOOLEAN, ip : Slots \cup {None},
           dp : Slots \cup {None}, fd : Fds \cup {None}, fd1 : Fds \cup {None},
           child : Procs \cup {None}]
InoRec == [ref : Nat, path : Paths \cup {None}, kind : {"file", "dir", None},
           unlinked : BOOLEAN, newPath : Paths \cup {None}]
FileRec == [ref : Nat, ip : Slots \cup {None}]

One(b) == IF b THEN 1 ELSE 0
Count(S, g, v) == Cardinality({y \in S : g[y] = v})

(* None is none of the things a variable may have instead. *)
LEMMA Nones ==
  /\ None \notin Procs /\ None \notin Paths /\ None \notin Slots
  /\ None \notin Fds /\ None \notin FileSlots /\ None \notin Ops
  /\ Slots \subseteq Nat /\ Fds \subseteq Nat /\ FileSlots \subseteq Nat
<1>1. Slots \subseteq Nat /\ Fds \subseteq Nat /\ FileSlots \subseteq Nat
  BY FilesAssumption DEF Slots, Fds, FileSlots
<1> QED  BY <1>1, FilesAssumption

(* A set of numbers that is not empty has a least element.                  *)
LEMMA Least ==
  ASSUME NEW S \in SUBSET Nat, S # {}
  PROVE  \E x \in S : \A y \in S : x <= y
<1> DEFINE R == {ss \in Nat \X Nat : ss[1] < ss[2]}
<1>1. IsWellFoundedOn(R, Nat)
  BY NatLessThanWellFounded DEF OpToRel
<1> HIDE DEF R
<1>2. PICK x \in S : \A y \in S : <<y, x>> \notin R
  BY <1>1, WFMin
<1>3. \A y \in S : ~(y < x)
  BY <1>2 DEF R
<1> QED  BY <1>3

(* ... which is its Min.                                                    *)
LEMMA MinIsIn ==
  ASSUME NEW S \in SUBSET Nat, S # {}
  PROVE  Min(S) \in S
BY Least DEF Min

(* When a function changes at one point, the number of points where it has  *)
(* the value v changes by what it had there and has now.                    *)
LEMMA CountChange ==
  ASSUME NEW S, IsFiniteSet(S), NEW x \in S, NEW v, NEW g, NEW h,
         \A y \in S \ {x} : g[y] = h[y]
  PROVE  /\ Count(S, g, v) \in Nat /\ Count(S, h, v) \in Nat
         /\ Count(S, h, v) + One(g[x] = v) = Count(S, g, v) + One(h[x] = v)
<1> DEFINE G == {y \in S : g[y] = v}
           H == {y \in S : h[y] = v}
           R == {y \in S \ {x} : g[y] = v}
<1>1. G \in SUBSET S /\ H \in SUBSET S /\ R \in SUBSET S /\ x \notin R
  OBVIOUS
<1>2. G = IF g[x] = v THEN R \cup {x} ELSE R
  OBVIOUS
<1>3. H = IF h[x] = v THEN R \cup {x} ELSE R
  OBVIOUS
<1> HIDE DEF G, H, R
<1>4. IsFiniteSet(R)
  BY <1>1, FS_Subset
<1>5. Cardinality(R) \in Nat
  BY <1>4, FS_CardinalityType
<1>6. Cardinality(R \cup {x}) = Cardinality(R) + 1
  BY <1>1, <1>4, FS_AddElement
<1>7. Cardinality(G) = Cardinality(R) + One(g[x] = v)
  BY <1>2, <1>5, <1>6 DEF One
<1>8. Cardinality(H) = Cardinality(R) + One(h[x] = v)
  BY <1>3, <1>5, <1>6 DEF One
<1>9. One(g[x] = v) \in Nat /\ One(h[x] = v) \in Nat
  BY DEF One
<1> QED
  <2>1. /\ Cardinality(G) \in Nat /\ Cardinality(H) \in Nat
        /\ Cardinality(H) + One(g[x] = v) = Cardinality(G) + One(h[x] = v)
    BY <1>5, <1>7, <1>8, <1>9
  <2> QED  BY <2>1 DEF G, H, Count

(* A set with a member has at least one.                                    *)
LEMMA NotEmpty ==
  ASSUME NEW S, IsFiniteSet(S), NEW T \in SUBSET S
  PROVE  /\ Cardinality(T) \in Nat
         /\ T # {} => Cardinality(T) > 0
         /\ \A x, y \in T : x # y => Cardinality(T) > 1
<1>1. IsFiniteSet(T) /\ Cardinality(T) \in Nat
  BY FS_Subset, FS_CardinalityType
<1>2. T # {} => Cardinality(T) # 0
  BY <1>1, FS_EmptySet
<1>3. ASSUME NEW x \in T, NEW y \in T, x # y PROVE Cardinality(T) # 1
  BY <1>1, <1>3, FS_Singleton
<1>4. ASSUME NEW x \in T, NEW y \in T, x # y PROVE Cardinality(T) > 1
  <2>1. Cardinality(T) # 1
    BY <1>3, <1>4
  <2>2. Cardinality(T) # 0
    BY <1>2
  <2> QED  BY <2>1, <2>2, <1>1
<1> QED  BY <1>1, <1>2, <1>4

(* The sets that references are counted in are finite.                      *)
LEMMA Finite ==
  /\ IsFiniteSet(Procs) /\ IsFiniteSet(FileSlots) /\ IsFiniteSet(Fds)
  /\ IsFiniteSet(Entries) /\ IsFiniteSet(Procs \X Fds)
<1>1. IsFiniteSet(Procs) /\ IsFiniteSet(FileSlots) /\ IsFiniteSet(Fds)
      /\ IsFiniteSet(Entries)
  <2>1. /\ 0 \in Int /\ 1 \in Int /\ NFile - 1 \in Int /\ NFd - 1 \in Int
        /\ NCACHE \in Int
    BY FilesAssumption
  <2>2. IsFiniteSet(Procs)
    BY FilesAssumption
  <2> QED  BY <2>1, <2>2, FS_Interval DEF FileSlots, Fds, Entries
<1>2. IsFiniteSet(Procs \X Fds)
  BY <1>1, FS_Product
<1> QED  BY <1>1, <1>2
-----------------------------------------------------------------------------
(* What a step may do to the inode table and the disk.                     *)

Kinds == {"none", "file", "dir"}
TableType == ino \in [Slots -> InoRec] /\ disk \in [Paths -> Kinds]
Kept == \A t \in Slots : Live(t) /\ Live(t)' => ino'[t].path = ino[t].path
TableStep == TableType' /\ InvTable' /\ Kept

(* One reference more on s, one less, none either way.                      *)
Adds(s) == \A t \in Slots : ino'[t].ref = ino[t].ref + One(t = s)
Drops(s) == \A t \in Slots : ino'[t].ref + One(t = s) = ino[t].ref
Same == \A t \in Slots : ino'[t].ref = ino[t].ref

(* A new value r for entry s is sound when r is for what the disk has then, *)
(* no other entry is for the same path, and an entry in use keeps its path. *)
LEMMA Update ==
  ASSUME TableType, InvTable, NEW s \in Slots, NEW r \in InoRec,
         ino' = [ino EXCEPT ![s] = r],
         disk' \in [Paths -> Kinds], disk'[Root] = "dir",
         \A t \in Slots \ {s} : Live(t) => disk'[ino[t].path] = disk[ino[t].path],
         r.ref = 0 => r = NoInode,
         r.ref > 0 => /\ r.path \in Paths /\ r.kind \in {"file", "dir"}
                      /\ disk'[r.path] = r.kind
                      /\ r.newPath # None => r.path # Root
                      /\ \A t \in Slots \ {s} :
                           Live(t) /\ ino[t].path = r.path => r.path = Root
                      /\ Live(s) => r.path = ino[s].path
  PROVE  /\ TableStep
         /\ ino'[s] = r /\ \A t \in Slots \ {s} : ino'[t] = ino[t]
<1>1. ino'[s] = r /\ \A t \in Slots \ {s} : ino'[t] = ino[t]
  BY DEF TableType
<1>2. ino' \in [Slots -> InoRec]
  BY DEF TableType
<1>3. r.ref \in Nat
  BY DEF InoRec
<1>4. ASSUME NEW t \in Slots PROVE EntryOK(t)'
  <2>1. CASE t = s
    BY <1>1, <1>3, <2>1 DEF EntryOK, Live
  <2>2. CASE t # s
    <3>1. ino'[t] = ino[t] /\ EntryOK(t)
      BY <1>1, <2>2 DEF InvTable
    <3>2. Live(t) => disk'[ino[t].path] = disk[ino[t].path]
      BY <2>2
    <3> QED  BY <3>1, <3>2 DEF EntryOK, Live
  <2> QED  BY <2>1, <2>2
<1>5. OneEntryPerFile'
  <2> SUFFICES ASSUME NEW t \in Slots, NEW u \in Slots, Live(t)', Live(u)', t # u,
                      ino'[t].path = ino'[u].path, ino'[t].path # Root
               PROVE  FALSE
    BY DEF OneEntryPerFile
  <2>1. CASE t = s
    BY <2>1, <1>1 DEF Live
  <2>2. CASE u = s
    BY <2>2, <1>1 DEF Live
  <2>3. CASE t # s /\ u # s
    BY <2>3, <1>1 DEF Live, InvTable, OneEntryPerFile
  <2> QED  BY <2>1, <2>2, <2>3
<1>6. Kept
  BY <1>1 DEF Kept, Live
<1> QED  BY <1>1, <1>2, <1>4, <1>5, <1>6 DEF TableStep, TableType, InvTable

(* idup(): one reference more on an entry in use.                           *)
LEMMA ReferencedIs ==
  ASSUME TableType, InvTable, NEW s \in Slots, Live(s),
         ino' = Referenced(s), disk' = disk
  PROVE  TableStep /\ Adds(s) /\ ino'[s].path = ino[s].path
<1> PICK n \in Nat : n = ino[s].ref
  BY DEF TableType, InoRec
<1>1. PICK r : r = [ino[s] EXCEPT !.ref = n + 1]
  OBVIOUS
<1>2. /\ r \in InoRec /\ r.ref = n + 1 /\ r.path = ino[s].path /\ r.kind = ino[s].kind
      /\ r.newPath = ino[s].newPath
  BY <1>1 DEF TableType, InoRec
<1>3. ino' = [ino EXCEPT ![s] = r]
  BY <1>1 DEF Referenced
<1>4. EntryOK(s)
  BY DEF InvTable
<1>5. r.ref > 0
  BY <1>2
<1>6. \A t \in Slots \ {s} : Live(t) /\ ino[t].path = r.path => r.path = Root
  BY <1>2 DEF InvTable, OneEntryPerFile
<1>7. disk' \in [Paths -> Kinds] /\ disk'[Root] = "dir"
  BY DEF TableType, InvTable
<1>8. /\ r.path \in Paths /\ r.kind \in {"file", "dir"} /\ disk'[r.path] = r.kind
      /\ r.newPath # None => r.path # Root
  BY <1>2, <1>4 DEF EntryOK
<1>9. TableStep /\ ino'[s] = r /\ \A t \in Slots \ {s} : ino'[t] = ino[t]
  <2>1. r.ref # 0
    BY <1>5
  <2>2. \A t \in Slots \ {s} : Live(t) => disk'[ino[t].path] = disk[ino[t].path]
    OBVIOUS
  <2>3. r \in InoRec /\ r.path = ino[s].path
    BY <1>2
  <2> QED  BY <1>3, <2>1, <2>2, <2>3, <1>6, <1>7, <1>8, Update
<1>10. Adds(s)
  <2> SUFFICES ASSUME NEW t \in Slots PROVE ino'[t].ref = ino[t].ref + One(t = s)
    BY DEF Adds
  <2>1. ino[t].ref \in Nat
    BY DEF TableType, InoRec
  <2> QED  BY <2>1, <1>2, <1>9 DEF One
<1> QED  BY <1>2, <1>9, <1>10

(* A free entry is taken for a path that has none.                          *)
LEMMA FreshIs ==
  ASSUME TableType, InvTable, NEW s \in Slots, ~Live(s),
         NEW q \in Paths, NEW k \in {"file", "dir"},
         ino' = [ino EXCEPT ![s] = Fresh(q, k)],
         q # Root => EntriesOf(q) = {},
         disk' \in [Paths -> Kinds], disk'[Root] = "dir", disk'[q] = k,
         \A t \in Slots : Live(t) => disk'[ino[t].path] = disk[ino[t].path]
  PROVE  TableStep /\ Adds(s) /\ ino'[s].path = q
<1>1. PICK r : r = Fresh(q, k)
  OBVIOUS
<1>2. /\ r \in InoRec /\ r.ref = 1 /\ r.path = q /\ r.kind = k /\ r.newPath = None
  BY <1>1 DEF Fresh, InoRec
<1>3. \A t \in Slots \ {s} : Live(t) /\ ino[t].path = r.path => r.path = Root
  BY <1>2 DEF EntriesOf
<1>4. ino' = [ino EXCEPT ![s] = r]
  BY <1>1
<1>5. /\ r.path \in Paths /\ r.kind \in {"file", "dir"} /\ disk'[r.path] = r.kind
      /\ r.newPath # None => r.path # Root
  BY <1>2
<1>6. r.ref # 0 /\ r \in InoRec
  BY <1>2
<1>7. TableStep /\ ino'[s] = r /\ \A t \in Slots \ {s} : ino'[t] = ino[t]
  <2>1. \A t \in Slots \ {s} : Live(t) => disk'[ino[t].path] = disk[ino[t].path]
    OBVIOUS
  <2> QED  BY <2>1, <1>3, <1>4, <1>5, <1>6, Update
<1>8. ino[s].ref = 0
  BY DEF Live, TableType, InoRec
<1>9. Adds(s)
  <2> SUFFICES ASSUME NEW t \in Slots PROVE ino'[t].ref = ino[t].ref + One(t = s)
    BY DEF Adds
  <2>1. ino[t].ref \in Nat
    BY DEF TableType, InoRec
  <2> QED  BY <2>1, <1>2, <1>7, <1>8 DEF One
<1> QED  BY <1>2, <1>7, <1>9

(* iget_root(), when there is an entry to be had.                           *)
LEMMA WithRootIs ==
  ASSUME TableType, InvTable, RootCandidates # {},
         ino' = WithRoot(RootSlot), disk' = disk
  PROVE  RootSlot \in Slots /\ TableStep /\ Adds(RootSlot) /\ ino'[RootSlot].path = Root
<1>1. RootCandidates \in SUBSET Nat
  BY Nones DEF RootCandidates, EntriesOf, FreeEntries
<1>2. RootSlot \in RootCandidates
  BY <1>1, MinIsIn DEF RootSlot
<1> PICK s \in Slots : s = RootSlot
  BY <1>2 DEF RootCandidates, EntriesOf, FreeEntries
<1>3. ino' = WithRoot(s)
  OBVIOUS
<1>4. CASE Live(s)
  <2>1. ino[s].path = Root
    BY <1>2, <1>4 DEF RootCandidates, EntriesOf, FreeEntries
  <2>2. ino' = Referenced(s)
    BY <1>3, <1>4 DEF WithRoot
  <2> QED  BY <1>4, <2>1, <2>2, ReferencedIs
<1>5. CASE ~Live(s)
  <2>1. ino' = [ino EXCEPT ![s] = Fresh(Root, "dir")]
    BY <1>3, <1>5 DEF WithRoot
  <2>2. /\ Root \in Paths /\ disk' \in [Paths -> Kinds] /\ disk'[Root] = "dir"
    BY FilesAssumption DEF TableType, InvTable
  <2> QED  BY <1>5, <2>1, <2>2, FreshIs
<1> QED  BY <1>4, <1>5

(* dirlookup(), when there is an entry to be had.                           *)
LEMMA LookedUpIs ==
  ASSUME TableType, InvTable, NEW q \in Paths \ {Root}, ~TableFull(q),
         ino' = WithLookedUp(q, LookupSlot(q)), disk' = disk
  PROVE  /\ TableStep
         /\ LookupSlot(q) = None => ino' = ino
         /\ LookupSlot(q) # None => /\ LookupSlot(q) \in Slots
                                    /\ Adds(LookupSlot(q))
                                    /\ ino'[LookupSlot(q)].path = q
<1>1. EntriesOf(q) \in SUBSET Nat /\ FreeEntries \in SUBSET Nat
  BY Nones DEF EntriesOf, FreeEntries
<1>2. CASE EntriesOf(q) # {}
  <2>1. PICK s : s = Min(EntriesOf(q))
    OBVIOUS
  <2>2. s \in EntriesOf(q) /\ s = LookupSlot(q)
    BY <1>1, <1>2, <2>1, MinIsIn DEF LookupSlot
  <2>3. s \in Slots /\ Live(s) /\ ino[s].path = q
    BY <2>2 DEF EntriesOf
  <2>4. ino' = Referenced(s) /\ s # None
    BY <2>2, <2>3, Nones DEF WithLookedUp
  <2> QED  BY <2>2, <2>3, <2>4, ReferencedIs
<1>3. CASE EntriesOf(q) = {} /\ disk[q] = "none"
  <2>1. LookupSlot(q) = None
    BY <1>3 DEF LookupSlot
  <2>2. ino' = ino
    BY <2>1 DEF WithLookedUp
  <2>3. TableStep
    <3>1. TableType' /\ Kept
      BY <2>2 DEF TableType, Kept
    <3>2. InvTable'
      BY <2>2 DEF InvTable, EntryOK, OneEntryPerFile, Live
    <3> QED  BY <3>1, <3>2 DEF TableStep
  <2> QED  BY <2>1, <2>2, <2>3
<1>4. CASE EntriesOf(q) = {} /\ disk[q] # "none"
  <2>1. PICK s : s = Min(FreeEntries)
    OBVIOUS
  <2>2. FreeEntries # {}
    BY <1>4 DEF TableFull
  <2>3. s \in FreeEntries /\ s = LookupSlot(q)
    BY <1>1, <1>4, <2>1, <2>2, MinIsIn DEF LookupSlot
  <2>4. s \in Slots /\ ~Live(s)
    BY <2>3 DEF FreeEntries
  <2>5. ino' = [ino EXCEPT ![s] = Fresh(q, disk[q])] /\ s # None
    BY <2>3, <2>4, Nones DEF WithLookedUp
  <2>6. /\ disk[q] \in {"file", "dir"} /\ disk' \in [Paths -> Kinds]
        /\ disk'[Root] = "dir" /\ disk'[q] = disk[q]
    BY <1>4 DEF TableType, InvTable, Kinds
  <2>7. \A t \in Slots : Live(t) => disk'[ino[t].path] = disk[ino[t].path]
    OBVIOUS
  <2>8. PICK k \in {"file", "dir"} : k = disk[q]
    BY <2>6
  <2>9. /\ ino' = [ino EXCEPT ![s] = Fresh(q, k)] /\ disk'[q] = k
        /\ s \in Slots /\ ~Live(s) /\ q \in Paths
    BY <2>4, <2>5, <2>6, <2>8
  <2>10. disk' \in [Paths -> Kinds] /\ disk'[Root] = "dir"
    BY <2>6
  <2>11. q # Root => EntriesOf(q) = {}
    BY <1>4
  <2>12. TableStep /\ Adds(s) /\ ino'[s].path = q
    BY <2>7, <2>9, <2>10, <2>11, FreshIs
  <2> QED  BY <2>3, <2>4, <2>5, <2>12
<1> QED  BY <1>2, <1>3, <1>4

(* icreate(), when FatFs lets it.                                           *)
LEMMA IcreateIs ==
  ASSUME TableType, InvTable, NEW q \in Paths \ {Root}, NEW k \in {"file", "dir"},
         ~TableFull(q), EntriesOf(q) = {}, FatCreates(q, k),
         disk' = [disk EXCEPT ![q] = k],
         ino' = [ino EXCEPT ![Min(FreeEntries)] = Fresh(q, k)]
  PROVE  /\ TableStep /\ Min(FreeEntries) \in Slots
         /\ Adds(Min(FreeEntries)) /\ ino'[Min(FreeEntries)].path = q
<1>1. FreeEntries \in SUBSET Nat /\ FreeEntries # {}
  BY Nones DEF FreeEntries, TableFull
<1> PICK s : s = Min(FreeEntries)
  OBVIOUS
<1>2. s \in Slots /\ ~Live(s)
  <2>1. s \in FreeEntries
    BY <1>1, MinIsIn
  <2> QED  BY <2>1 DEF FreeEntries
<1>3. ino' = [ino EXCEPT ![s] = Fresh(q, k)] /\ q \in Paths
  OBVIOUS
<1>4. disk' \in [Paths -> Kinds] /\ disk'[Root] = "dir" /\ disk'[q] = k
  BY FilesAssumption DEF TableType, InvTable, Kinds
<1>5. \A t \in Slots : Live(t) => disk'[ino[t].path] = disk[ino[t].path]
  <2> SUFFICES ASSUME NEW t \in Slots, Live(t)
               PROVE  disk'[ino[t].path] = disk[ino[t].path]
    OBVIOUS
  <2>1. ino[t].path # q
    BY DEF EntriesOf
  <2>2. ino[t].path \in Paths
    BY DEF InvTable, EntryOK
  <2> QED  BY <2>1, <2>2 DEF TableType
<1>6. q # Root => EntriesOf(q) = {}
  OBVIOUS
<1>7. TableStep /\ Adds(s) /\ ino'[s].path = q
  BY <1>2, <1>3, <1>4, <1>5, <1>6, FreshIs
<1> QED  BY <1>2, <1>7

(* iput(): what it does on the disk is to files nobody else has.            *)
LEMMA PutInodeDisk ==
  ASSUME TableType, InvTable, NEW s \in Slots, Live(s), PutInode(s),
         RenamedAtPut(s) => FatRenames(ino[s].path, ino[s].newPath)
  PROVE  /\ disk' \in [Paths -> Kinds] /\ disk'[Root] = "dir"
         /\ \A t \in Slots \ {s} : Live(t) => disk'[ino[t].path] = disk[ino[t].path]
         /\ Last(s) \/ disk' = disk
<1>1. /\ ino[s].path \in Paths /\ disk[Root] = "dir" /\ Root \in Paths
      /\ disk[ino[s].path] \in {"file", "dir"}
      /\ ino[s].newPath # None => ino[s].path # Root
  BY FilesAssumption DEF InvTable, EntryOK
<1>2. ASSUME NEW t \in Slots \ {s}, Live(t)
      PROVE  /\ ino[t].path \in Paths /\ disk[ino[t].path] \in {"file", "dir"}
             /\ ino[s].path # Root => ino[t].path # ino[s].path
  BY <1>2 DEF InvTable, EntryOK, OneEntryPerFile
<1>3. CASE Last(s) /\ ino[s].unlinked /\ FatUnlinks(ino[s].path)
  <2>1. disk' = [disk EXCEPT ![ino[s].path] = "none"]
    BY <1>3 DEF PutInode
  <2>2. ino[s].path # Root
    BY <1>3 DEF FatUnlinks
  <2>3. disk' \in [Paths -> Kinds] /\ disk'[Root] = "dir"
    BY <2>1, <2>2, <1>1 DEF TableType, Kinds
  <2> QED  BY <2>1, <2>2, <2>3, <1>1, <1>2, <1>3 DEF TableType
<1>4. CASE ~(Last(s) /\ ino[s].unlinked /\ FatUnlinks(ino[s].path)) /\ RenamedAtPut(s)
  <2> PICK q : q = ino[s].newPath
    OBVIOUS
  <2>1. disk' = [disk EXCEPT ![ino[s].path] = "none", ![q] = disk[ino[s].path]]
    BY <1>4 DEF PutInode
  <2>2. q \in Paths /\ ino[s].path # Root /\ Last(s)
    BY <1>1, <1>4 DEF RenamedAtPut, TableType, InoRec
  <2>3. disk[q] = "none" /\ q # ino[s].path
    BY <1>4, <1>1 DEF FatRenames
  <2>4. disk' \in [Paths -> Kinds] /\ disk'[Root] = "dir"
    BY <2>1, <2>2, <2>3, <1>1 DEF TableType, Kinds
  <2>5. ASSUME NEW t \in Slots \ {s}, Live(t)
        PROVE  disk'[ino[t].path] = disk[ino[t].path]
    BY <2>1, <2>2, <2>3, <1>2, <2>5 DEF TableType
  <2> QED  BY <2>2, <2>4, <2>5
<1>5. CASE ~(Last(s) /\ ino[s].unlinked /\ FatUnlinks(ino[s].path)) /\ ~RenamedAtPut(s)
  <2>1. disk' = disk
    BY <1>5 DEF PutInode
  <2> QED  BY <2>1, <1>1 DEF TableType
<1> QED  BY <1>3, <1>4, <1>5

(* iput(): one reference less, and the table stays sound.                   *)
LEMMA PutInodeIs ==
  ASSUME TableType, InvTable, NEW s \in Slots, Live(s), PutInode(s),
         RenamedAtPut(s) => FatRenames(ino[s].path, ino[s].newPath)
  PROVE  TableStep /\ Drops(s)
<1>1. /\ disk' \in [Paths -> Kinds] /\ disk'[Root] = "dir"
      /\ \A t \in Slots \ {s} : Live(t) => disk'[ino[t].path] = disk[ino[t].path]
      /\ Last(s) \/ disk' = disk
  BY PutInodeDisk
<1> PICK n \in Nat : n = ino[s].ref
  BY DEF TableType, InoRec
<1>2. n > 0
  BY DEF Live
<1>3. CASE Last(s)
  <2>1. ino' = [ino EXCEPT ![s] = NoInode]
    BY <1>3 DEF PutInode
  <2>2. PICK r : r = NoInode
    OBVIOUS
  <2>3. r \in InoRec /\ r.ref = 0 /\ ~(r.ref > 0)
    BY <2>2 DEF NoInode, InoRec
  <2>4. TableStep /\ ino'[s] = r /\ \A t \in Slots \ {s} : ino'[t] = ino[t]
    BY <2>1, <2>2, <2>3, <1>1, Update
  <2>5. ino[s].ref = 1
    BY <1>3 DEF Last
  <2> QED  BY <2>3, <2>4, <2>5 DEF Drops, One, TableType, InoRec
<1>4. CASE ~Last(s)
  <2>1. n # 1
    BY <1>4 DEF Last
  <2>2. n - 1 \in Nat /\ n - 1 # 0 /\ n - 1 > 0
    BY <1>2, <2>1
  <2>3. PICK m \in Nat : m = n - 1
    BY <2>2
  <2>4. PICK r : r = [ino[s] EXCEPT !.ref = m]
    OBVIOUS
  <2>5. /\ r \in InoRec /\ r.ref = m /\ r.path = ino[s].path /\ r.kind = ino[s].kind
        /\ r.newPath = ino[s].newPath
    BY <2>3, <2>4 DEF TableType, InoRec
  <2>6. ino' = [ino EXCEPT ![s] = r]
    <3>1. ino' = [ino EXCEPT ![s] = [ino[s] EXCEPT !.ref = ino[s].ref - 1]]
      BY <1>4 DEF PutInode
    <3> QED  BY <3>1, <2>3, <2>4
  <2>7. disk' = disk /\ EntryOK(s)
    BY <1>1, <1>4 DEF InvTable
  <2>8. r.ref # 0
    BY <2>2, <2>3, <2>5
  <2>9. /\ r.path \in Paths /\ r.kind \in {"file", "dir"} /\ disk'[r.path] = r.kind
        /\ r.newPath # None => r.path # Root
    BY <2>5, <2>7 DEF EntryOK
  <2>10. \A t \in Slots \ {s} : Live(t) /\ ino[t].path = r.path => r.path = Root
    BY <2>5 DEF InvTable, OneEntryPerFile
  <2>11. r \in InoRec /\ r.path = ino[s].path
    BY <2>5
  <2>12. TableStep /\ ino'[s] = r /\ \A t \in Slots \ {s} : ino'[t] = ino[t]
    BY <2>6, <2>8, <2>9, <2>10, <2>11, <1>1, Update
  <2>13. ino'[s].ref + 1 = ino[s].ref
    BY <2>3, <2>5, <2>12
  <2> QED
    <3> SUFFICES ASSUME NEW t \in Slots PROVE ino'[t].ref + One(t = s) = ino[t].ref
      BY <2>12 DEF Drops
    <3>1. ino[t].ref \in Nat
      BY DEF TableType, InoRec
    <3> QED  BY <2>12, <2>13, <3>1 DEF One
<1> QED  BY <1>3, <1>4

(* fileunlink() and filerename() note what is to be done.                   *)
LEMMA NotedIs ==
  ASSUME TableType, InvTable, NEW s \in Slots, Live(s), NEW q \in Paths \cup {None},
         q # None => ino[s].path # Root, disk' = disk,
         \/ ino' = [ino EXCEPT ![s].unlinked = TRUE] /\ q = ino[s].newPath
         \/ ino' = [ino EXCEPT ![s].newPath = q]
  PROVE  TableStep /\ Same
<1> PICK r : /\ ino' = [ino EXCEPT ![s] = r]
             /\ \/ r = [ino[s] EXCEPT !.unlinked = TRUE] /\ q = ino[s].newPath
                \/ r = [ino[s] EXCEPT !.newPath = q]
  OBVIOUS
<1>1. /\ r \in InoRec /\ r.ref = ino[s].ref /\ r.path = ino[s].path
      /\ r.kind = ino[s].kind /\ r.newPath = q
  BY DEF TableType, InoRec
<1>2. EntryOK(s) /\ r.ref # 0
  BY <1>1 DEF InvTable, Live, TableType, InoRec
<1>3. /\ r.path \in Paths /\ r.kind \in {"file", "dir"} /\ disk'[r.path] = r.kind
      /\ r.newPath # None => r.path # Root
  BY <1>1, <1>2 DEF EntryOK
<1>4. \A t \in Slots \ {s} : Live(t) /\ ino[t].path = r.path => r.path = Root
  BY <1>1 DEF InvTable, OneEntryPerFile
<1>5. /\ disk' \in [Paths -> Kinds] /\ disk'[Root] = "dir"
      /\ \A t \in Slots \ {s} : Live(t) => disk'[ino[t].path] = disk[ino[t].path]
  BY DEF TableType, InvTable
<1>6. r \in InoRec /\ r.path = ino[s].path
  BY <1>1
<1>7. ino' = [ino EXCEPT ![s] = r]
  OBVIOUS
<1>8. TableStep /\ ino'[s] = r /\ \A t \in Slots \ {s} : ino'[t] = ino[t]
  BY <1>2, <1>3, <1>4, <1>5, <1>6, <1>7, Update
<1> QED  BY <1>1, <1>8 DEF Same

(* All other steps leave table and disk alone.                              *)
LEMMA UntouchedIs ==
  ASSUME TableType, InvTable, ino' = ino, disk' = disk
  PROVE  TableStep /\ Same
<1>1. TableType' /\ Kept /\ Same
  BY DEF TableType, Kept, Same
<1>2. InvTable'
  BY DEF InvTable, EntryOK, OneEntryPerFile, Live
<1> QED  BY <1>1, <1>2 DEF TableStep
-----------------------------------------------------------------------------
(* Who holds a reference.                                                  *)

(* What p has of s, if c has a working directory, f an inode, e a page.     *)
Part(p, c, f, e, s) == One(loc[p].ip = s) + One(loc[p].dp = s) + One(cwd[c] = s)
                         + One(file[f].ip = s) + One(cached[e] = s)

(* Five equations added up.                                                 *)
LEMMA AddUp ==
  ASSUME NEW a0 \in Nat, NEW b0 \in Nat, NEW c0 \in Nat, NEW g0 \in Nat, NEW e0 \in Nat,
         NEW a1 \in Nat, NEW b1 \in Nat, NEW c1 \in Nat, NEW g1 \in Nat, NEW e1 \in Nat,
         NEW i0 \in Nat, NEW j0 \in Nat, NEW k0 \in Nat, NEW l0 \in Nat, NEW m0 \in Nat,
         NEW i1 \in Nat, NEW j1 \in Nat, NEW k1 \in Nat, NEW l1 \in Nat, NEW m1 \in Nat,
         a1 + i0 = a0 + i1, b1 + j0 = b0 + j1, c1 + k0 = c0 + k1, g1 + l0 = g0 + l1,
         e1 + m0 = e0 + m1
  PROVE  (e1 + g1 + c1 + a1 + b1) + (i0 + j0 + k0 + l0 + m0)
           = (e0 + g0 + c0 + a0 + b0) + (i1 + j1 + k1 + l1 + m1)
OBVIOUS

(* When locals change for p only, the working directory for c only, and no  *)
(* file but f, no page but e has another inode, that makes the difference.  *)
LEMMA HoldersChange ==
  ASSUME NEW p \in Procs, NEW c \in Procs, NEW f \in FileSlots, NEW e \in Entries,
         NEW s,
         \A q \in Procs \ {p} : loc'[q] = loc[q],
         \A q \in Procs \ {c} : cwd'[q] = cwd[q],
         \A g \in FileSlots \ {f} : file'[g].ip = file[g].ip,
         \A d \in Entries \ {e} : cached'[d] = cached[d]
  PROVE  /\ InodeHolders(s) \in Nat /\ InodeHolders(s)' \in Nat
         /\ Part(p, c, f, e, s) \in Nat /\ Part(p, c, f, e, s)' \in Nat
         /\ InodeHolders(s)' + Part(p, c, f, e, s)
              = InodeHolders(s) + Part(p, c, f, e, s)'
<1>1. PICK ip0, ip1, dp0, dp1, f0, f1 :
        /\ ip0 = [q \in Procs |-> loc[q].ip] /\ ip1 = [q \in Procs |-> loc'[q].ip]
        /\ dp0 = [q \in Procs |-> loc[q].dp] /\ dp1 = [q \in Procs |-> loc'[q].dp]
        /\ f0 = [g \in FileSlots |-> file[g].ip]
        /\ f1 = [g \in FileSlots |-> file'[g].ip]
  OBVIOUS
<1> PICK a0, a1 : a0 = Count(Procs, ip0, s)
                  /\ a1 = Count(Procs, ip1, s)
  OBVIOUS
<1> PICK b0, b1 : b0 = Count(Procs, dp0, s)
                  /\ b1 = Count(Procs, dp1, s)
  OBVIOUS
<1> PICK c0, c1 : c0 = Count(Procs, cwd, s)
                  /\ c1 = Count(Procs, cwd', s)
  OBVIOUS
<1> PICK g0, g1 : g0 = Count(FileSlots, f0, s)
                  /\ g1 = Count(FileSlots, f1, s)
  OBVIOUS
<1> PICK e0, e1 : e0 = Count(Entries, cached, s)
                  /\ e1 = Count(Entries, cached', s)
  OBVIOUS
<1>2. a0 \in Nat /\ a1 \in Nat /\ a1 + One(ip0[p] = s) = a0 + One(ip1[p] = s)
  <2>1. \A q \in Procs \ {p} : ip0[q] = ip1[q]
    BY <1>1
  <2> QED  BY <2>1, CountChange, Finite
<1>3. b0 \in Nat /\ b1 \in Nat /\ b1 + One(dp0[p] = s) = b0 + One(dp1[p] = s)
  <2>1. \A q \in Procs \ {p} : dp0[q] = dp1[q]
    BY <1>1
  <2> QED  BY <2>1, CountChange, Finite
<1>4. c0 \in Nat /\ c1 \in Nat /\ c1 + One(cwd[c] = s) = c0 + One(cwd'[c] = s)
  <2>1. \A q \in Procs \ {c} : cwd[q] = cwd'[q]
    OBVIOUS
  <2> QED  BY <2>1, CountChange, Finite
<1>5. g0 \in Nat /\ g1 \in Nat /\ g1 + One(f0[f] = s) = g0 + One(f1[f] = s)
  <2>1. \A g \in FileSlots \ {f} : f0[g] = f1[g]
    BY <1>1
  <2> QED  BY <2>1, CountChange, Finite
<1>6. e0 \in Nat /\ e1 \in Nat /\ e1 + One(cached[e] = s) = e0 + One(cached'[e] = s)
  <2>1. \A d \in Entries \ {e} : cached[d] = cached'[d]
    OBVIOUS
  <2> QED  BY <2>1, CountChange, Finite
<1>7. InodeHolders(s) = e0 + g0 + c0 + a0 + b0
  <2>1. /\ {q \in Procs : ip0[q] = s} = {q \in Procs : loc[q].ip = s}
        /\ {q \in Procs : dp0[q] = s} = {q \in Procs : loc[q].dp = s}
        /\ {g \in FileSlots : f0[g] = s} = {g \in FileSlots : file[g].ip = s}
    BY <1>1
  <2> QED  BY <2>1 DEF InodeHolders, Count
<1>8. InodeHolders(s)' = e1 + g1 + c1 + a1 + b1
  <2>1. /\ {q \in Procs : ip1[q] = s} = {q \in Procs : loc'[q].ip = s}
        /\ {q \in Procs : dp1[q] = s} = {q \in Procs : loc'[q].dp = s}
        /\ {g \in FileSlots : f1[g] = s} = {g \in FileSlots : file'[g].ip = s}
    BY <1>1
  <2> QED  BY <2>1 DEF InodeHolders, Count
<1>9. Part(p, c, f, e, s) = One(ip0[p] = s) + One(dp0[p] = s) + One(cwd[c] = s)
                              + One(f0[f] = s) + One(cached[e] = s)
  BY <1>1 DEF Part
<1>10. Part(p, c, f, e, s)' = One(ip1[p] = s) + One(dp1[p] = s) + One(cwd'[c] = s)
                                + One(f1[f] = s) + One(cached'[e] = s)
  BY <1>1 DEF Part
<1>11. /\ One(ip0[p] = s) \in Nat /\ One(dp0[p] = s) \in Nat /\ One(cwd[c] = s) \in Nat
       /\ One(f0[f] = s) \in Nat /\ One(cached[e] = s) \in Nat
       /\ One(ip1[p] = s) \in Nat /\ One(dp1[p] = s) \in Nat /\ One(cwd'[c] = s) \in Nat
       /\ One(f1[f] = s) \in Nat /\ One(cached'[e] = s) \in Nat
  BY DEF One
<1> QED
  <2>1. /\ InodeHolders(s) \in Nat /\ InodeHolders(s)' \in Nat
        /\ Part(p, c, f, e, s) \in Nat /\ Part(p, c, f, e, s)' \in Nat
    BY <1>2, <1>3, <1>4, <1>5, <1>6, <1>7, <1>8, <1>9, <1>10, <1>11
  <2>2. (e1 + g1 + c1 + a1 + b1)
          + (One(ip0[p] = s) + One(dp0[p] = s) + One(cwd[c] = s)
               + One(f0[f] = s) + One(cached[e] = s))
        = (e0 + g0 + c0 + a0 + b0)
          + (One(ip1[p] = s) + One(dp1[p] = s) + One(cwd'[c] = s)
               + One(f1[f] = s) + One(cached'[e] = s))
    BY <1>2, <1>3, <1>4, <1>5, <1>6, <1>11, AddUp
  <2> QED  BY <2>1, <2>2, <1>7, <1>8, <1>9, <1>10

(* What is held is there: the reference count says so.                      *)
Held ==
  /\ \A p \in Procs, s \in Slots :
       loc[p].ip = s \/ loc[p].dp = s \/ cwd[p] = s => Live(s)
  /\ \A f \in FileSlots, s \in Slots : file[f].ip = s => Live(s)
  /\ \A e \in Entries, s \in Slots : cached[e] = s => Live(s)
  /\ \A p \in Procs, d \in Fds, f \in FileSlots : fds[p][d] = f => file[f].ref > 0

(* Exact counts say so.                                                     *)
LEMMA HeldIs == RefsExact => Held
<1> SUFFICES ASSUME RefsExact PROVE Held
  OBVIOUS
<1>1. ASSUME NEW s \in Slots,
             \/ \E p \in Procs : loc[p].ip = s \/ loc[p].dp = s \/ cwd[p] = s
             \/ \E f \in FileSlots : file[f].ip = s
             \/ \E e \in Entries : cached[e] = s
      PROVE  Live(s)
  <2> PICK A, B, C, D, E :
        /\ A = {e \in Entries : cached[e] = s} /\ B = {f \in FileSlots : file[f].ip = s}
        /\ C = {p \in Procs : cwd[p] = s} /\ D = {p \in Procs : loc[p].ip = s}
        /\ E = {p \in Procs : loc[p].dp = s}
    OBVIOUS
  <2>1. /\ A \in SUBSET Entries /\ B \in SUBSET FileSlots
        /\ C \in SUBSET Procs /\ D \in SUBSET Procs /\ E \in SUBSET Procs
        /\ (A # {} \/ B # {} \/ C # {} \/ D # {} \/ E # {})
    BY <1>1
  <2>2. /\ Cardinality(A) \in Nat /\ (A # {} => Cardinality(A) > 0)
        /\ Cardinality(B) \in Nat /\ (B # {} => Cardinality(B) > 0)
        /\ Cardinality(C) \in Nat /\ (C # {} => Cardinality(C) > 0)
        /\ Cardinality(D) \in Nat /\ (D # {} => Cardinality(D) > 0)
        /\ Cardinality(E) \in Nat /\ (E # {} => Cardinality(E) > 0)
    BY <2>1, Finite, NotEmpty
  <2>3. ino[s].ref = Cardinality(A) + Cardinality(B) + Cardinality(C)
                       + Cardinality(D) + Cardinality(E)
    BY DEF RefsExact, InodeHolders
  <2>4. ino[s].ref > 0
    BY <2>1, <2>2, <2>3
  <2> QED  BY <2>4 DEF Live
<1>2. ASSUME NEW p \in Procs, NEW d \in Fds, NEW f \in FileSlots, fds[p][d] = f
      PROVE  file[f].ref > 0
  <2>1. <<p, d>> \in FileHolders(f)
    BY <1>2 DEF FileHolders
  <2>2. FileHolders(f) \in SUBSET (Procs \X Fds)
    BY DEF FileHolders
  <2> QED  BY <2>1, <2>2, Finite, NotEmpty DEF RefsExact
<1> QED  BY <1>1, <1>2 DEF Held
-----------------------------------------------------------------------------
(* A step of one process.                                                  *)

Moves(p, at, l, c) == /\ pc' = [pc EXCEPT ![p] = at]
                      /\ loc' = [loc EXCEPT ![p] = l]
                      /\ cwd' = [cwd EXCEPT ![p] = c]
Moved(p, at, l, c) == /\ pc'[p] = at /\ loc'[p] = l /\ cwd'[p] = c
                      /\ \A q \in Procs \ {p} :
                           pc'[q] = pc[q] /\ loc'[q] = loc[q] /\ cwd'[q] = cwd[q]
Quiet == fds' = fds /\ file' = file /\ cached' = cached /\ calls' \in Nat
         /\ panicked' = panicked

(* The counts of inodes change by what p gives up and gets.                 *)
RefsMove(p, l, c) ==
  \A s \in Slots :
    ino'[s].ref + (One(loc[p].ip = s) + One(loc[p].dp = s) + One(cwd[p] = s))
      = ino[s].ref + (One(l.ip = s) + One(l.dp = s) + One(c = s))
FilesKept == \A f \in FileSlots :
               file[f].ref > 0 /\ file'[f].ref > 0 => file'[f].ip = file[f].ip

(* Then p alone has moved.                                                  *)
LEMMA MovedIs ==
  ASSUME TypeOK, NEW p \in Procs, NEW at \in Points, NEW l \in LocRec,
         NEW c \in Slots \cup {None}, Moves(p, at, l, c)
  PROVE  /\ Moved(p, at, l, c)
         /\ pc' \in [Procs -> Points] /\ loc' \in [Procs -> LocRec]
         /\ cwd' \in [Procs -> Slots \cup {None}]
<1>1. /\ pc \in [Procs -> Points] /\ loc \in [Procs -> LocRec]
      /\ cwd \in [Procs -> Slots \cup {None}]
  BY DEF TypeOK, LocRec, OpNames
<1> QED  BY <1>1 DEF Moves, Moved

(* TypeOK, in the terms of these proofs.                                    *)
Typed == /\ TableType
         /\ ilk \in [Slots -> Procs \cup {None}]
         /\ file \in [FileSlots -> FileRec]
         /\ fds \in [Procs -> [Fds -> FileSlots \cup {None}]]
         /\ cwd \in [Procs -> Slots \cup {None}]
         /\ cached \in [Entries -> Slots \cup {None}]
         /\ pc \in [Procs -> Points]
         /\ loc \in [Procs -> LocRec]
         /\ calls \in Nat
         /\ panicked \in {"no", "iget: no inodes", "ilock", "iput: f_rename failed",
                          "noff"}

(* TypeOK says just that.                                                   *)
LEMMA Types == TypeOK <=> Typed
BY DEF Typed, TypeOK, TableType, InoRec, FileRec, LocRec, OpNames, Kinds

(* ... and after a step.                                                    *)
LEMMA TypesNext == TypeOK' <=> Typed'
BY Types, PTL

(* The counts of inodes stay exact when what holders gain the counts do.    *)
LEMMA InodeRefs ==
  ASSUME RefsExact, TableType, TableType',
         NEW p \in Procs, NEW c \in Procs, NEW f \in FileSlots, NEW e \in Entries,
         \A q \in Procs \ {p} : loc'[q] = loc[q],
         \A q \in Procs \ {c} : cwd'[q] = cwd[q],
         \A g \in FileSlots \ {f} : file'[g].ip = file[g].ip,
         \A d \in Entries \ {e} : cached'[d] = cached[d],
         \A s \in Slots : ino'[s].ref + Part(p, c, f, e, s)
                            = ino[s].ref + Part(p, c, f, e, s)'
  PROVE  \A s \in Slots : ino'[s].ref = InodeHolders(s)'
<1> SUFFICES ASSUME NEW s \in Slots PROVE ino'[s].ref = InodeHolders(s)'
  OBVIOUS
<1>1. /\ InodeHolders(s) \in Nat /\ InodeHolders(s)' \in Nat
      /\ Part(p, c, f, e, s) \in Nat /\ Part(p, c, f, e, s)' \in Nat
      /\ InodeHolders(s)' + Part(p, c, f, e, s)
           = InodeHolders(s) + Part(p, c, f, e, s)'
  BY HoldersChange
<1>2. ino[s].ref = InodeHolders(s) /\ ino[s].ref \in Nat /\ ino'[s].ref \in Nat
  BY DEF RefsExact, TableType, InoRec
<1>3. ino'[s].ref + Part(p, c, f, e, s) = ino[s].ref + Part(p, c, f, e, s)'
  OBVIOUS
<1> QED  BY <1>1, <1>2, <1>3

(* ... in a step that moves neither files nor pages.                        *)
LEMMA OwnRefs ==
  ASSUME IInv, NEW p \in Procs, NEW at \in Points, NEW l \in LocRec,
         NEW c \in Slots \cup {None}, Moves(p, at, l, c), Quiet, TableStep,
         ilk' \in [Slots -> Procs \cup {None}], RefsMove(p, l, c)
  PROVE  Moved(p, at, l, c) /\ TypeOK' /\ RefsExact' /\ Held'
<1>1. /\ Moved(p, at, l, c)
      /\ pc' \in [Procs -> Points] /\ loc' \in [Procs -> LocRec]
      /\ cwd' \in [Procs -> Slots \cup {None}]
  BY MovedIs DEF IInv
<1>2. TypeOK'
  <2>1. /\ TableType' /\ fds' \in [Procs -> [Fds -> FileSlots \cup {None}]]
        /\ file' \in [FileSlots -> FileRec]
        /\ cached' \in [Entries -> Slots \cup {None}]
        /\ calls' \in Nat
        /\ panicked' \in {"no", "iget: no inodes", "ilock", "iput: f_rename failed",
                          "noff"}
    BY Types DEF Typed, IInv, Quiet, TableStep
  <2> QED  BY <1>1, <2>1, TypesNext DEF Typed
<1>3. RefsExact'
  <2>1. \A g \in FileSlots : file'[g].ref = Cardinality(FileHolders(g)')
    BY DEF Quiet, IInv, RefsExact, FileHolders
  <2> PICK f \in FileSlots, e \in Entries : TRUE
    <3>1. 0 \in FileSlots /\ 1 \in Entries
      BY FilesAssumption DEF FileSlots, Entries
    <3> QED  BY <3>1
  <2>2. ASSUME NEW s \in Slots
        PROVE  ino'[s].ref + Part(p, p, f, e, s) = ino[s].ref + Part(p, p, f, e, s)'
    <3>6. PICK i, j, k, x, y, u, v, w \in Nat :
          /\ i = One(loc[p].ip = s) /\ j = One(loc[p].dp = s) /\ k = One(cwd[p] = s)
          /\ x = One(l.ip = s) /\ y = One(l.dp = s) /\ u = One(c = s)
          /\ v = One(file[f].ip = s) /\ w = One(cached[e] = s)
      BY DEF One
    <3>1. Part(p, p, f, e, s) = i + j + k + v + w
      BY <3>6 DEF Part
    <3>2. Part(p, p, f, e, s)' = x + y + u + v + w
      BY <1>1, <3>6 DEF Part, Moved, Quiet
    <3>3. ino[s].ref \in Nat /\ ino'[s].ref \in Nat
      BY Types, TypesNext, <1>2 DEF IInv, Typed, TableType, InoRec
    <3>4. ino'[s].ref + (i + j + k) = ino[s].ref + (x + y + u)
      BY <3>6 DEF RefsMove
    <3>5. ino'[s].ref + (i + j + k + v + w) = ino[s].ref + (x + y + u + v + w)
      <4>1. PICK n, m \in Nat : n = ino[s].ref /\ m = ino'[s].ref
        BY <3>3
      <4>2. m + (i + j + k) = n + (x + y + u)
        BY <3>4, <4>1
      <4>3. m + (i + j + k + v + w) = n + (x + y + u + v + w)
        BY <4>2
      <4> QED  BY <4>1, <4>3
    <3> QED  BY <3>1, <3>2, <3>5
  <2>3. /\ \A q \in Procs \ {p} : loc'[q] = loc[q] /\ cwd'[q] = cwd[q]
        /\ \A g \in FileSlots \ {f} : file'[g].ip = file[g].ip
        /\ \A d \in Entries \ {e} : cached'[d] = cached[d]
    BY <1>1 DEF Moved, Quiet
  <2>4. RefsExact /\ TableType /\ TableType'
    BY Types, TypesNext, <1>2 DEF IInv, Typed
  <2>5. \A s \in Slots : ino'[s].ref = InodeHolders(s)'
    BY <2>2, <2>3, <2>4, InodeRefs
  <2> QED  BY <2>1, <2>5 DEF RefsExact
<1>4. Held'
  BY <1>3, HeldIs, PTL
<1> QED  BY <1>1, <1>2, <1>3, <1>4

(* A process that nothing happens to keeps all it relies on: what it holds  *)
(* stays in the table and keeps its path.                                   *)
LEMMA Bystander ==
  ASSUME IInv, TypeOK', Held', Kept, FilesKept, InvFile', NEW q \in Procs,
         pc'[q] = pc[q], loc'[q] = loc[q], fds'[q] = fds[q], cwd'[q] = cwd[q]
  PROVE  LocalOK(q)' /\ Locked(q)' = Locked(q)
<1>1. LocalOK(q) /\ Held
  BY HeldIs DEF IInv, InvLocal
<1>t. Typed
  BY Types DEF IInv
<1> PICK l \in LocRec : l = loc[q] /\ l = loc'[q]
  BY <1>t DEF Typed
<1>2. /\ l.ip # None => IpPath(q)' = IpPath(q)
      /\ l.dp # None => DpPath(q)' = DpPath(q)
  <2>1. l.ip \in Slots \cup {None} /\ l.dp \in Slots \cup {None}
    BY DEF LocRec
  <2>2. \A s \in Slots : s = l.ip \/ s = l.dp => Live(s) /\ Live(s)'
    BY <1>1 DEF Held
  <2> QED  BY <2>1, <2>2 DEF Kept, IpPath, DpPath
<1>3. CwdPath(q)' = CwdPath(q)
  <2>1. CASE cwd[q] = None
    BY <2>1 DEF CwdPath
  <2>2. CASE cwd[q] # None
    <3>1. cwd[q] \in Slots
      BY <2>2, <1>t DEF Typed
    <3>2. Live(cwd[q]) /\ ino'[cwd[q]].path = ino[cwd[q]].path
      BY <1>1, <3>1 DEF Held, Kept
    <3> QED  BY <2>2, <3>2 DEF CwdPath
  <2> QED  BY <2>1, <2>2
<1>4. ASSUME NEW d \in Fds, fds[q][d] # None
      PROVE  /\ InodeOf(q, d)' = InodeOf(q, d)
             /\ ino'[InodeOf(q, d)].path = ino[InodeOf(q, d)].path
  <2>f. fds \in [Procs -> [Fds -> FileSlots \cup {None}]]
    BY <1>t DEF Typed
  <2> PICK f \in FileSlots : f = fds[q][d]
    BY <1>4, <2>f
  <2>1. file[f].ref > 0 /\ file'[f].ref > 0
    BY <1>1 DEF Held
  <2>2. file'[f].ip = file[f].ip
    BY <2>1 DEF FilesKept
  <2>3. file[f].ip \in Slots
    <3>1. file[f].ref # 0
      BY <2>1
    <3> QED  BY <3>1, <1>t DEF Typed, IInv, InvFile, FileRec
  <2>4. Live(file[f].ip) /\ Live(file[f].ip)'
    BY <1>1, <2>2, <2>3 DEF Held
  <2> QED  BY <2>2, <2>3, <2>4 DEF InodeOf, Kept
<1>5. Locked(q)' = Locked(q)
  <2>1. Reading(q)' = Reading(q)
    BY DEF Reading
  <2>2. Reading(q) => InodeOf(q, l.fd)' = InodeOf(q, l.fd)
    <3>1. Reading(q) => l.fd \in Fds /\ fds[q][l.fd] # None
      BY <1>1 DEF LocalOK, LFds, LocRec
    <3> QED  BY <3>1, <1>4
  <2> QED  BY <2>1, <2>2 DEF Locked
<1>6. LRefs(q)' /\ LCwd(q)'
  BY <1>1 DEF LocalOK, LRefs, LCwd
<1>7. LFds(q)'
  BY <1>1 DEF LocalOK, LFds, Reading
<1>8. LOps(q)'
  BY <1>1 DEF LocalOK, LOps, NoFds
<1>9. LGoal(q)'
  <2>1. l.fd1 # None => l.fd1 \in Fds /\ fds[q][l.fd1] # None
    BY <1>1 DEF LocalOK, LFds, LocRec
  <2>2. LGoal(q)
    BY <1>1 DEF LocalOK
  <2>3. l.fd1 # None => ino'[InodeOf(q, l.fd1)'].path # Root
    BY <1>4, <2>1, <2>2 DEF LGoal
  <2> QED  BY <2>2, <2>3, <1>3 DEF LGoal
<1>10. LPath(q)'
  <2>1. LPath(q) /\ LRefs(q)
    BY <1>1 DEF LocalOK
  <2>2. pc[q] \in HasIp => l.ip # None
    BY <2>1 DEF LRefs, HasIp
  <2>3. pc[q] \in HasDp => l.dp # None
    BY <2>1 DEF LRefs
  <2> QED  BY <1>2, <2>1, <2>2, <2>3 DEF LPath, HasIp, HasDp
<1> QED  BY <1>5, <1>6, <1>7, <1>8, <1>9, <1>10 DEF LocalOK

(* What is left to show of a step of p: p itself, and the locks it takes.   *)
LEMMA Frame ==
  ASSUME IInv, NEW p \in Procs, NEW at, NEW l, NEW c, Moved(p, at, l, c),
         TypeOK', RefsExact', TableStep, FilesKept, InvFile',
         \A q \in Procs \ {p} : fds'[q] = fds[q],
         pc[p] # "dead", pc[p] # "idup", at = "dead" => NoFds(p)', l.child = None,
         LocalOK(p)',
         \A s \in Slots : ilk'[s] = ilk[s] \/ {ilk[s], ilk'[s]} \subseteq {None, p},
         \A s \in Slots : ilk'[s] = p <=> Locked(p)' = s
  PROVE  IInv'
<1>1. Held'
  BY HeldIs, PTL
<1>2. ASSUME NEW q \in Procs, q # p PROVE LocalOK(q)' /\ Locked(q)' = Locked(q)
  BY <1>1, <1>2, Bystander DEF Moved, TableStep
<1>3. InvLocal'
  BY <1>2 DEF InvLocal
<1>4. InvLock'
  <2> SUFFICES ASSUME NEW s \in Slots, NEW q \in Procs
               PROVE  ilk'[s] = q <=> Locked(q)' = s
    BY DEF InvLock
  <2>1. CASE q # p
    <3>1. ilk[s] = q <=> Locked(q) = s
      BY DEF IInv, InvLock
    <3>2. q # None
      BY Nones
    <3> QED  BY <1>2, <2>1, <3>1, <3>2
  <2> QED  BY <2>1
<1>5. loc[p].child = None
  BY DEF IInv, InvLocal, LocalOK, LOps
<1>6. InvChild'
  <2>1. ASSUME NEW q \in Procs, loc'[q].child # None
        PROVE  /\ q # p /\ loc[q].child = loc'[q].child
               /\ pc'[loc[q].child] = "dead"
    <3>1. q # p /\ loc[q].child = loc'[q].child
      BY <2>1 DEF Moved
    <3>2. loc \in [Procs -> LocRec]
      BY Types DEF IInv, Typed
    <3>3. loc[q].child \in Procs
      BY <2>1, <3>1, <3>2 DEF LocRec
    <3>4. pc[loc[q].child] = "dead"
      BY <2>1, <3>1 DEF IInv, InvChild
    <3> QED  BY <3>1, <3>3, <3>4 DEF Moved
  <2>2. ASSUME NEW q \in Procs, pc'[q] = "dead", ~NoFds(q)'
        PROVE  \E r \in Procs : loc'[r].child = q
    <3>1. q # p
      BY <2>2 DEF Moved
    <3>2. pc[q] = "dead" /\ ~NoFds(q)
      BY <2>2, <3>1 DEF Moved, NoFds
    <3>3. PICK r \in Procs : loc[r].child = q
      BY <3>2 DEF IInv, InvChild
    <3>4. r # p
      BY <3>3, <1>5, Nones
    <3> QED  BY <3>3, <3>4 DEF Moved
  <2>3. ASSUME NEW q \in Procs, NEW r \in Procs,
               loc'[q].child # None, loc'[q].child = loc'[r].child
        PROVE  q = r
    BY <2>1, <2>3 DEF IInv, InvChild
  <2> QED  BY <2>1, <2>2, <2>3 DEF InvChild
<1> QED  BY <1>3, <1>4, <1>6 DEF IInv, TableStep

(* What p itself can rely on: what it held before and holds now.            *)
LEMMA Mine ==
  ASSUME IInv, TypeOK', Held', Kept, FilesKept, NEW p \in Procs, fds'[p] = fds[p]
  PROVE  /\ \A s \in Slots : loc[p].ip = s \/ loc[p].dp = s \/ cwd[p] = s => Live(s)
         /\ \A s \in Slots :
              /\ loc[p].ip = s \/ loc[p].dp = s \/ cwd[p] = s
              /\ loc'[p].ip = s \/ loc'[p].dp = s \/ cwd'[p] = s
              => ino'[s].path = ino[s].path
         /\ cwd'[p] = cwd[p] => CwdPath(p)' = CwdPath(p)
         /\ \A d \in Fds : fds[p][d] # None =>
              /\ InodeOf(p, d) \in Slots /\ Live(InodeOf(p, d))
              /\ InodeOf(p, d)' = InodeOf(p, d)
              /\ ino'[InodeOf(p, d)].path = ino[InodeOf(p, d)].path
<1>1. Held /\ Typed
  BY HeldIs, Types DEF IInv
<1>2. \A s \in Slots : loc[p].ip = s \/ loc[p].dp = s \/ cwd[p] = s => Live(s)
  BY <1>1 DEF Held
<1>3. \A s \in Slots : loc'[p].ip = s \/ loc'[p].dp = s \/ cwd'[p] = s => Live(s)'
  BY DEF Held
<1>4. cwd'[p] = cwd[p] => CwdPath(p)' = CwdPath(p)
  <2> SUFFICES ASSUME cwd'[p] = cwd[p], cwd[p] # None PROVE CwdPath(p)' = CwdPath(p)
    BY DEF CwdPath
  <2>1. cwd[p] \in Slots
    BY <1>1 DEF Typed
  <2>2. ino'[cwd[p]].path = ino[cwd[p]].path
    BY <1>2, <1>3, <2>1 DEF Kept
  <2> QED  BY <2>2 DEF CwdPath
<1>5. ASSUME NEW d \in Fds, fds[p][d] # None
      PROVE  /\ InodeOf(p, d) \in Slots /\ Live(InodeOf(p, d))
             /\ InodeOf(p, d)' = InodeOf(p, d)
             /\ ino'[InodeOf(p, d)].path = ino[InodeOf(p, d)].path
  <2>1. fds \in [Procs -> [Fds -> FileSlots \cup {None}]]
    BY <1>1 DEF Typed
  <2> PICK f \in FileSlots : f = fds[p][d]
    BY <1>5, <2>1
  <2>2. file[f].ref > 0 /\ file'[f].ref > 0
    BY <1>1 DEF Held
  <2>3. file'[f].ip = file[f].ip
    BY <2>2 DEF FilesKept
  <2>4. file[f].ip \in Slots
    <3>1. file[f].ref # 0
      BY <2>2
    <3> QED  BY <3>1, <1>1 DEF Typed, IInv, InvFile, FileRec
  <2>5. Live(file[f].ip) /\ Live(file[f].ip)'
    BY <1>1, <2>3, <2>4 DEF Held
  <2> QED  BY <2>3, <2>4, <2>5 DEF InodeOf, Kept
<1> QED  BY <1>2, <1>3, <1>4, <1>5 DEF Kept

(* A step of p that moves neither files nor pages, up to p's own locals.    *)
LEMMA QuietFrame ==
  ASSUME IInv, NEW p \in Procs, NEW at, NEW l, NEW c, Moved(p, at, l, c), Quiet,
         TypeOK', RefsExact', TableStep,
         pc[p] # "dead", pc[p] # "idup", at = "dead" => NoFds(p), l.child = None,
         LocalOK(p)',
         \A s \in Slots : ilk'[s] = ilk[s] \/ {ilk[s], ilk'[s]} \subseteq {None, p},
         \A s \in Slots : ilk'[s] = p <=> Locked(p)' = s
  PROVE  IInv'
<1>1. FilesKept /\ InvFile' /\ \A q \in Procs : fds'[q] = fds[q]
  BY DEF Quiet, FilesKept, IInv, InvFile
<1>2. NoFds(p)' <=> NoFds(p)
  BY DEF NoFds, Quiet
<1> QED  BY <1>1, <1>2, Frame

(* What the invariant says of p, piece by piece.                            *)
LEMMA Before ==
  ASSUME IInv, NEW p \in Procs
  PROVE  /\ Typed /\ TableType /\ InvTable /\ RefsExact /\ Held
         /\ loc[p] \in LocRec /\ cwd[p] \in Slots \cup {None}
         /\ LRefs(p) /\ LFds(p) /\ LOps(p) /\ LCwd(p) /\ LGoal(p) /\ LPath(p)
         /\ \A s \in Slots : ilk[s] = p <=> Locked(p) = s
BY HeldIs, Types DEF IInv, InvLocal, LocalOK, InvLock, Typed

(* A system call with a path begins.                                        *)
LEMMA PathCallStep ==
  ASSUME IInv, NEW p \in Procs, PathCall(p)
  PROVE  IInv'
<1>b. /\ Typed /\ TableType /\ InvTable /\ loc[p] \in LocRec /\ cwd[p] \in Slots \cup {None}
      /\ LRefs(p) /\ LCwd(p) /\ \A s \in Slots : ilk[s] = p <=> Locked(p) = s
  BY Before
<1> PICK x \in Calls :
      /\ ~x.abs => {x.goal, x.goal2} \ {None} \subseteq Below(CwdPath(p))
      /\ StartWalk(p, [NoLocals EXCEPT !.op = x.op, !.abs = x.abs,
                                       !.goal = x.goal, !.goal2 = x.goal2])
  BY DEF PathCall
<1> PICK l : l = [NoLocals EXCEPT !.op = x.op, !.abs = x.abs,
                                  !.goal = x.goal, !.goal2 = x.goal2]
  OBVIOUS
<1>1. /\ x.op \in PathOps /\ x.abs \in BOOLEAN /\ x.goal \in Paths
      /\ x.goal2 \in Paths \cup {None}
      /\ x.op = "rename" => {x.goal, x.goal2} \subseteq Paths \ Dirs
  BY FilesAssumption
<1>2. /\ l.op = x.op /\ l.abs = x.abs /\ l.goal = x.goal /\ l.goal2 = x.goal2
      /\ l.ip = None /\ l.dp = None /\ l.fd = None /\ l.fd1 = None /\ l.child = None
  BY DEF NoLocals
<1>3. l \in LocRec
  BY <1>1 DEF NoLocals, LocRec, OpNames, Ops
<1> PICK at : at = IF cwd[p] = None THEN "cwd" ELSE "from"
  OBVIOUS
<1> PICK c \in Slots \cup {None} : c = cwd[p]
  BY <1>b
<1>4. at \in Points /\ Moves(p, at, l, c)
  BY <1>b DEF PathCall, StartWalk, Goto, Locals, Moves, Points, TablePoints, Typed
<1>5. pc[p] = "idle" /\ Quiet /\ ino' = ino /\ disk' = disk /\ ilk' = ilk
  <2>1. calls \in Nat /\ calls' = calls + 1
    BY <1>b DEF PathCall, Typed
  <2>2. calls' \in Nat
    BY <2>1
  <2> QED  BY <2>2 DEF PathCall, Quiet
<1>6. loc[p].ip = None /\ loc[p].dp = None
  BY <1>5, <1>b DEF LRefs, HasIp, HasDp
<1>7. TableStep
  BY <1>b, <1>5, UntouchedIs
<1>8. Moved(p, at, l, c) /\ TypeOK' /\ RefsExact' /\ Held'
  <2>1. ilk' \in [Slots -> Procs \cup {None}]
    BY <1>b, <1>5 DEF Typed
  <2>2. RefsMove(p, l, c)
    BY <1>2, <1>5, <1>6 DEF RefsMove
  <2> QED  BY <1>b, <1>3, <1>4, <1>5, <1>7, <2>1, <2>2, OwnRefs
<1>9. pc'[p] = at /\ loc'[p] = l /\ cwd'[p] = c /\ at \in {"cwd", "from"}
  BY <1>8 DEF Moved
<1>10. LocalOK(p)'
  <2>1. LRefs(p)' /\ LFds(p)' /\ LPath(p)'
    BY <1>2, <1>9 DEF LRefs, LFds, LPath, HasIp, HasDp, Reading
  <2>2. LOps(p)'
    BY <1>1, <1>2, <1>9 DEF LOps, PathOps
  <2>3. LCwd(p)'
    BY <1>9 DEF LCwd
  <2>4. LGoal(p)'
    <3>1. CwdPath(p)' = CwdPath(p)
      BY <1>5, <1>9 DEF CwdPath
    <3> QED  BY <1>1, <1>2, <1>9, <3>1 DEF LGoal
  <2> QED  BY <2>1, <2>2, <2>3, <2>4 DEF LocalOK
<1>11. Locked(p) = None /\ Locked(p)' = None
  BY <1>5, <1>9 DEF Locked, Reading
<1>12. \A s \in Slots : ilk'[s] = p <=> Locked(p)' = s
  BY <1>b, <1>5, <1>11
<1> QED  BY <1>2, <1>5, <1>7, <1>8, <1>9, <1>10, <1>12, QuietFrame

(* The first path of the shell: its working directory is the root.          *)
LEMMA FirstCwdStep ==
  ASSUME IInv, NEW p \in Procs, FirstCwd(p), ~Panics(p)
  PROVE  IInv'
<1>b. /\ Typed /\ TableType /\ InvTable /\ loc[p] \in LocRec
      /\ LRefs(p) /\ LFds(p) /\ LOps(p) /\ LCwd(p) /\ LGoal(p)
      /\ \A s \in Slots : ilk[s] = p <=> Locked(p) = s
  BY Before
<1> PICK l \in LocRec : l = loc[p]
  BY <1>b
<1>1. /\ pc[p] = "cwd" /\ disk' = disk /\ ilk' = ilk /\ calls' = calls /\ loc' = loc
      /\ ino' = WithRoot(RootSlot) /\ cwd' = [cwd EXCEPT ![p] = RootSlot]
      /\ pc' = [pc EXCEPT ![p] = "from"] /\ fds' = fds /\ file' = file
      /\ cached' = cached /\ panicked' = panicked
  BY DEF FirstCwd, Goto
<1>2. RootCandidates # {}
  BY <1>1 DEF Panics, NoInodes
<1>3. RootSlot \in Slots /\ TableStep /\ Adds(RootSlot) /\ ino'[RootSlot].path = Root
  BY <1>b, <1>1, <1>2, WithRootIs
<1> PICK c \in Slots : c = RootSlot
  BY <1>3
<1>4. l.ip = None /\ l.dp = None /\ cwd[p] = None /\ l.child = None
  BY <1>1, <1>b DEF LRefs, LCwd, LOps, HasIp, HasDp
<1>5. Moves(p, "from", l, c) /\ Quiet
  BY <1>1, <1>b DEF Moves, Quiet, Typed
<1>6. Moved(p, "from", l, c) /\ TypeOK' /\ RefsExact' /\ Held'
  <2>1. ilk' \in [Slots -> Procs \cup {None}] /\ "from" \in Points
    BY <1>b, <1>1 DEF Typed, Points, TablePoints
  <2>2. RefsMove(p, l, c)
    <3> SUFFICES ASSUME NEW s \in Slots
                 PROVE  ino'[s].ref + (One(l.ip = s) + One(l.dp = s) + One(cwd[p] = s))
                          = ino[s].ref + (One(l.ip = s) + One(l.dp = s) + One(c = s))
      BY DEF RefsMove
    <3>1. ino[s].ref \in Nat
      BY <1>b DEF TableType, InoRec
    <3>2. ino'[s].ref = ino[s].ref + One(s = c)
      BY <1>3 DEF Adds
    <3>3. s # None
      BY Nones
    <3> QED  BY <3>1, <3>2, <3>3, <1>4 DEF One
  <2> QED  BY <1>3, <1>5, <2>1, <2>2, OwnRefs
<1>7. pc'[p] = "from" /\ loc'[p] = l /\ cwd'[p] = c /\ fds' = fds
  BY <1>1, <1>6 DEF Moved
<1>8. /\ \A d \in Fds : fds[p][d] # None =>
           /\ InodeOf(p, d)' = InodeOf(p, d)
           /\ ino'[InodeOf(p, d)].path = ino[InodeOf(p, d)].path
  <2>1. FilesKept
    BY <1>1 DEF FilesKept
  <2> QED  BY <1>3, <1>6, <1>7, <2>1, Mine DEF TableStep
<1>9. LocalOK(p)'
  <2>1. LRefs(p)' /\ LPath(p)'
    BY <1>4, <1>7 DEF LRefs, LPath, HasIp, HasDp
  <2>2. LFds(p)'
    BY <1>1, <1>7, <1>b DEF LFds, Reading
  <2>3. LOps(p)'
    BY <1>1, <1>4, <1>7, <1>b DEF LOps, Walking
  <2>4. LCwd(p)'
    BY <1>1, <1>7, <1>b, Nones DEF LCwd
  <2>5. LGoal(p)'
    <3>1. CwdPath(p)' = Root /\ CwdPath(p) = Root
      BY <1>3, <1>4, <1>7, Nones DEF CwdPath
    <3>2. l.fd1 # None => l.fd1 \in Fds /\ fds[p][l.fd1] # None
      BY <1>b DEF LFds, LocRec
    <3>3. l.fd1 # None => ino'[InodeOf(p, l.fd1)'].path # Root
      BY <1>8, <1>b, <3>2 DEF LGoal
    <3> QED  BY <1>1, <1>7, <1>b, <3>1, <3>3 DEF LGoal, Walking
  <2> QED  BY <2>1, <2>2, <2>3, <2>4, <2>5 DEF LocalOK
<1>10. Locked(p) = None /\ Locked(p)' = None
  BY <1>1, <1>7 DEF Locked, Reading
<1>11. \A s \in Slots : ilk'[s] = p <=> Locked(p)' = s
  BY <1>b, <1>1, <1>10
<1> QED  BY <1>1, <1>3, <1>4, <1>5, <1>6, <1>9, <1>11, QuietFrame
-----------------------------------------------------------------------------
(* Walking a path.                                                         *)

(* A step within the walk of a call: only what p has of the table changes.  *)
Walks(p, at, l) ==
  /\ pc' = [pc EXCEPT ![p] = at] /\ loc' = [loc EXCEPT ![p] = l]
  /\ cwd' = cwd /\ fds' = fds /\ file' = file /\ cached' = cached
  /\ calls' = calls /\ panicked' = panicked
  /\ l.op = loc[p].op /\ l.abs = loc[p].abs /\ l.goal = loc[p].goal
  /\ l.goal2 = loc[p].goal2 /\ l.fd = loc[p].fd /\ l.fd1 = loc[p].fd1
  /\ l.child = loc[p].child

(* It leaves all but the references, the paths and the lock as they were.   *)
LEMMA WalkKeeps ==
  ASSUME IInv, NEW p \in Procs, NEW at \in (Walking \cup {"put", "chput"}) \ {"cwd"},
         NEW l \in LocRec, Walks(p, at, l), pc[p] \in Walking \ {"cwd"},
         TableStep, ilk' \in [Slots -> Procs \cup {None}], RefsMove(p, l, cwd[p]),
         at = "chput" => l.op = "chdir"
  PROVE  /\ Moved(p, at, l, cwd[p]) /\ Quiet /\ TypeOK' /\ RefsExact' /\ Held'
         /\ pc'[p] = at /\ loc'[p] = l /\ l.child = None
         /\ LFds(p)' /\ LOps(p)' /\ LCwd(p)' /\ LGoal(p)'
         /\ \A s \in Slots : /\ loc[p].ip = s \/ loc[p].dp = s \/ cwd[p] = s
                             /\ l.ip = s \/ l.dp = s \/ cwd[p] = s
                             => ino'[s].path = ino[s].path
<1>b. /\ Typed /\ cwd[p] \in Slots \cup {None}
      /\ LFds(p) /\ LOps(p) /\ LCwd(p) /\ LGoal(p) /\ LRefs(p)
  BY Before
<1> PICK c \in Slots \cup {None} : c = cwd[p]
  BY <1>b
<1>1. at \in Points /\ at \notin {"idle", "dead", "idup", "flush", "evict", "exit", "exitcwd",
                               "read", "page", "pageadd"}
  BY DEF Points, TablePoints, InodePoints, Walking
<1>2. Moves(p, at, l, c) /\ Quiet
  BY <1>b DEF Moves, Walks, Quiet, Typed
<1>3. Moved(p, at, l, c) /\ TypeOK' /\ RefsExact' /\ Held'
  <2>1. RefsMove(p, l, c)
    OBVIOUS
  <2> QED  BY <1>1, <1>2, <2>1, OwnRefs
<1>4. pc'[p] = at /\ loc'[p] = l /\ cwd'[p] = cwd[p] /\ fds' = fds
  BY <1>3 DEF Moved, Walks
<1>5. FilesKept /\ Kept
  BY DEF Walks, FilesKept, TableStep
<1>6. /\ \A s \in Slots :
            /\ loc[p].ip = s \/ loc[p].dp = s \/ cwd[p] = s
            /\ loc'[p].ip = s \/ loc'[p].dp = s \/ cwd'[p] = s
            => ino'[s].path = ino[s].path
      /\ CwdPath(p)' = CwdPath(p)
      /\ \A d \in Fds : fds[p][d] # None =>
           /\ InodeOf(p, d)' = InodeOf(p, d)
           /\ ino'[InodeOf(p, d)].path = ino[InodeOf(p, d)].path
  BY <1>3, <1>4, <1>5, Mine
<1>7. /\ l.op \in PathOps /\ l.goal \in Paths /\ l.child = None
      /\ pc[p] \notin {"idup", "evict", "flush", "exit", "exitcwd"}
      /\ l.op # "exit" /\ l.op # "flush" /\ cwd[p] # None
  BY <1>b DEF LOps, LCwd, Walks, Walking, PathOps
<1>8. LFds(p)'
  <2>1. ~Reading(p)' /\ at \notin {"mark", "close", "read", "rename", "close1"}
    BY <1>1, <1>4 DEF Reading, Walking
  <2> QED  BY <2>1, <1>4, <1>b DEF LFds, Walks
<1>9. LOps(p)'
  BY <1>1, <1>4, <1>7 DEF LOps
<1>10. LCwd(p)'
  BY <1>1, <1>4, <1>7 DEF LCwd
<1>11. LGoal(p)'
  <2>1. l.fd1 # None => l.fd1 \in Fds /\ fds[p][l.fd1] # None
    BY <1>b DEF LFds, LocRec, Walks
  <2>2. l.fd1 # None => ino'[InodeOf(p, l.fd1)'].path # Root
    BY <1>6, <1>b, <2>1 DEF LGoal, Walks
  <2>3. ~l.abs => {l.goal, l.goal2} \ {None} \subseteq Below(CwdPath(p))
    BY <1>b DEF LGoal, Walks
  <2>4. l.op = "rename" => {l.goal, l.goal2} \subseteq Paths \ Dirs
    BY <1>b DEF LGoal, Walks
  <2> QED  BY <1>4, <1>6, <2>2, <2>3, <2>4 DEF LGoal
<1> QED  BY <1>2, <1>3, <1>4, <1>6, <1>7, <1>8, <1>9, <1>10, <1>11

(* So these are left to show.                                               *)
LEMMA WalkFrame ==
  ASSUME IInv, NEW p \in Procs, NEW at \in (Walking \cup {"put", "chput"}) \ {"cwd"},
         NEW l \in LocRec, Walks(p, at, l), pc[p] \in Walking \ {"cwd"},
         TableStep, ilk' \in [Slots -> Procs \cup {None}], RefsMove(p, l, cwd[p]),
         at = "chput" => l.op = "chdir",
         LRefs(p)', LPath(p)',
         \A s \in Slots : ilk'[s] = ilk[s] \/ {ilk[s], ilk'[s]} \subseteq {None, p},
         \A s \in Slots : ilk'[s] = p <=> Locked(p)' = s
  PROVE  IInv'
<1>1. /\ Moved(p, at, l, cwd[p]) /\ Quiet /\ TypeOK' /\ RefsExact'
      /\ LFds(p)' /\ LOps(p)' /\ LCwd(p)' /\ LGoal(p)' /\ l.child = None
  BY WalkKeeps
<1>2. LocalOK(p)'
  BY <1>1 DEF LocalOK
<1>3. pc[p] # "dead" /\ pc[p] # "idup" /\ at # "dead"
  BY DEF Walking
<1> PICK c : c = cwd[p]
  OBVIOUS
<1>4. Moved(p, at, l, c)
  BY <1>1
<1> QED  BY <1>1, <1>2, <1>3, <1>4, QuietFrame

(* What a path is below is on the way to it.                                *)
LEMMA OnTheWay ==
  ASSUME NEW q \in Paths, NEW d, q \in Below(d)
  PROVE  /\ q # Root /\ Parent[q] \in Paths
         /\ NextOn(d, q) \in Paths \ {Root}
         /\ NextOn(d, q) = q \/ q \in Below(NextOn(d, q))
BY FilesAssumption DEF Below, NextOn

(* Every path but the root is below the root, and none is its own parent.   *)
LEMMA BelowRoot ==
  ASSUME NEW q \in Paths \ {Root}
  PROVE  q \in Below(Root) /\ Parent[q] \in Paths /\ Parent[q] # q
BY FilesAssumption DEF Below

(* A reference is had on the root or on the working directory.              *)
LEMMA WalkFromStep ==
  ASSUME IInv, NEW p \in Procs, WalkFrom(p), ~Panics(p)
  PROVE  IInv'
<1>b. /\ Typed /\ TableType /\ InvTable /\ Held /\ loc[p] \in LocRec
      /\ cwd[p] \in Slots \cup {None}
      /\ LRefs(p) /\ LOps(p) /\ LCwd(p) /\ LGoal(p)
      /\ \A s \in Slots : ilk[s] = p <=> Locked(p) = s
  BY Before
<1> PICK s : s = IF loc[p].abs THEN RootSlot ELSE cwd[p]
  OBVIOUS
<1> PICK q : q = IF loc[p].abs THEN Root ELSE CwdPath(p)
  OBVIOUS
<1> PICK l : l = [loc[p] EXCEPT !.ip = s]
  OBVIOUS
<1> PICK at : at = IF q # loc[p].goal THEN "walk" ELSE IF Creating(p) THEN "put" ELSE "found"
  OBVIOUS
<1>1. pc[p] = "from" /\ disk' = disk /\ ilk' = ilk
  BY DEF WalkFrom
<1>2. /\ loc[p].op \in PathOps /\ loc[p].goal \in Paths /\ cwd[p] \in Slots
      /\ loc[p].ip = None /\ loc[p].dp = None
  BY <1>1, <1>b DEF LOps, LCwd, LRefs, Walking, HasIp, HasDp
<1>3. s \in Slots /\ TableStep /\ Adds(s) /\ ino'[s].path = q
  <2>1. CASE loc[p].abs
    <3>1. RootCandidates # {}
      BY <1>1, <2>1 DEF Panics, NoInodes
    <3>2. ino' = WithRoot(RootSlot)
      BY <2>1 DEF WalkFrom
    <3> QED  BY <1>1, <1>b, <2>1, <3>1, <3>2, WithRootIs
  <2>2. CASE ~loc[p].abs
    <3>1. s \in Slots /\ Live(s) /\ ino[s].path = q
      BY <1>2, <1>b, <2>2, Nones DEF Held, CwdPath
    <3>2. ino' = Referenced(s)
      BY <2>2 DEF WalkFrom
    <3> QED  BY <1>1, <1>b, <3>1, <3>2, ReferencedIs
  <2> QED  BY <2>1, <2>2
<1>4. /\ l \in LocRec /\ l.ip = s /\ l.dp = None /\ l.goal = loc[p].goal
      /\ at \in {"walk", "put", "found"}
  BY <1>2, <1>3, <1>b DEF LocRec
<1>5. Walks(p, at, l)
  <2>1. /\ l.op = loc[p].op /\ l.abs = loc[p].abs /\ l.goal = loc[p].goal
        /\ l.goal2 = loc[p].goal2 /\ l.fd = loc[p].fd /\ l.fd1 = loc[p].fd1
        /\ l.child = loc[p].child
    BY <1>b DEF LocRec
  <2>2. pc' = [pc EXCEPT ![p] = at] /\ loc' = [loc EXCEPT ![p] = l]
    BY DEF WalkFrom, Arrive, Goto, Locals
  <2> QED  BY <2>1, <2>2 DEF WalkFrom, Walks
<1>6. RefsMove(p, l, cwd[p])
  <2> SUFFICES ASSUME NEW t \in Slots
               PROVE  ino'[t].ref + (One(loc[p].ip = t) + One(loc[p].dp = t) + One(cwd[p] = t))
                        = ino[t].ref + (One(l.ip = t) + One(l.dp = t) + One(cwd[p] = t))
    BY DEF RefsMove
  <2>1. ino[t].ref \in Nat
    BY <1>b DEF TableType, InoRec
  <2>2. ino'[t].ref = ino[t].ref + One(t = s)
    BY <1>3 DEF Adds
  <2>3. t # None
    BY Nones
  <2> QED  BY <2>1, <2>2, <2>3, <1>2, <1>4 DEF One
<1>7. ilk' \in [Slots -> Procs \cup {None}]
  BY <1>1, <1>b DEF Typed
<1>8. /\ at \in (Walking \cup {"put", "chput"}) \ {"cwd"} /\ pc[p] \in Walking \ {"cwd"}
      /\ at # "chput"
  BY <1>1, <1>4 DEF Walking
<1>9. pc'[p] = at /\ loc'[p] = l
  BY <1>3, <1>4, <1>5, <1>6, <1>7, <1>8, WalkKeeps
<1>10. LRefs(p)'
  BY <1>3, <1>4, <1>9, Nones DEF LRefs, HasIp, HasDp
<1>11. LPath(p)'
  <2>1. at = "walk" => l.goal \in Below(q)
    <3>1. CASE loc[p].abs
      BY <1>2, <1>4, <3>1, BelowRoot
    <3>2. CASE ~loc[p].abs
      BY <1>1, <1>2, <1>4, <1>b, <3>2, Nones DEF LGoal, Walking
    <3> QED  BY <3>1, <3>2
  <2>2. at = "found" => q = l.goal
    BY <1>4
  <2> QED  BY <1>3, <1>4, <1>9, <2>1, <2>2 DEF LPath, IpPath
<1>12. \A t \in Slots : ilk'[t] = p <=> Locked(p)' = t
  <2>1. Locked(p) = None /\ Locked(p)' = None
    BY <1>1, <1>4, <1>9 DEF Locked, Reading
  <2> QED  BY <1>b, <1>1, <2>1
<1> QED  BY <1>1, <1>3, <1>4, <1>5, <1>6, <1>7, <1>8, <1>10, <1>11, <1>12, WalkFrame


(* The directory is locked, unless it is a file.                            *)
LEMMA WalkStepStep ==
  ASSUME IInv, NEW p \in Procs, WalkStep(p)
  PROVE  IInv'
<1>b. /\ Typed /\ TableType /\ InvTable /\ loc[p] \in LocRec
      /\ LRefs(p) /\ LOps(p) /\ LPath(p)
      /\ \A s \in Slots : ilk[s] = p <=> Locked(p) = s
  BY Before
<1>1. /\ pc[p] = "walk" /\ disk' = disk /\ ino' = ino
  BY DEF WalkStep
<1>2. loc[p].ip # None /\ loc[p].dp = None
  BY <1>1, <1>b DEF LRefs, HasIp, HasDp
<1> PICK d \in Slots : d = loc[p].ip
  BY <1>2, <1>b DEF LocRec
<1>3. ilk[d] = None /\ TableStep /\ Same
  BY <1>1, <1>b, UntouchedIs DEF WalkStep
<1>4. loc[p].goal \in Paths /\ loc[p].goal \in Below(ino[d].path)
  BY <1>1, <1>b DEF LOps, LPath, Walking, IpPath
<1>5. \A s \in Slots : ilk[s] # p
  <2>1. Locked(p) = None
    BY <1>1 DEF Locked, Reading
  <2> QED  BY <2>1, <1>b, Nones
<1>6. ASSUME NEW at, NEW l, Walks(p, at, l), l \in LocRec,
             \/ at = "put" /\ ilk' = ilk /\ l = loc[p]
             \/ at = "lookup" /\ ilk' = [ilk EXCEPT ![d] = p] /\ l = loc[p]
             \/ /\ at = "clookup" /\ ilk' = [ilk EXCEPT ![d] = p]
                /\ l.dp = d /\ l.ip = None /\ Parent[loc[p].goal] = ino[d].path
      PROVE  IInv'
  <2>1. ilk' \in [Slots -> Procs \cup {None}]
    BY <1>6, <1>b DEF Typed
  <2>2. RefsMove(p, l, cwd[p])
    <3> SUFFICES ASSUME NEW t \in Slots
                 PROVE  ino'[t].ref + (One(loc[p].ip = t) + One(loc[p].dp = t) + One(cwd[p] = t))
                          = ino[t].ref + (One(l.ip = t) + One(l.dp = t) + One(cwd[p] = t))
      BY DEF RefsMove
    <3>1. ino[t].ref \in Nat
      BY <1>b DEF TableType, InoRec
    <3>2. ino'[t].ref = ino[t].ref
      BY <1>3 DEF Same
    <3>3. t # None
      BY Nones
    <3> QED  BY <3>1, <3>2, <3>3, <1>2, <1>6 DEF One
  <2>3. /\ at \in (Walking \cup {"put", "chput"}) \ {"cwd"} /\ pc[p] \in Walking \ {"cwd"}
        /\ at # "chput"
    BY <1>1, <1>6 DEF Walking
  <2>4. pc'[p] = at /\ loc'[p] = l
    BY <1>3, <1>6, <2>1, <2>2, <2>3, WalkKeeps
  <2>5. LRefs(p)'
    BY <1>2, <1>6, <2>4, Nones DEF LRefs, HasIp, HasDp
  <2>6. LPath(p)'
    <3>1. loc[p].goal # Root
      BY <1>4, OnTheWay
    <3>2. l.goal = loc[p].goal
      BY <1>6 DEF Walks
    <3> QED  BY <1>1, <1>4, <1>6, <2>4, <3>1, <3>2 DEF LPath, IpPath, DpPath
  <2>7. \A t \in Slots : ilk'[t] = ilk[t] \/ {ilk[t], ilk'[t]} \subseteq {None, p}
    BY <1>3, <1>6, <1>b DEF Typed
  <2>8. \A t \in Slots : ilk'[t] = p <=> Locked(p)' = t
    <3>1. CASE at = "put"
      BY <1>5, <1>6, <2>4, <3>1, Nones DEF Locked, Reading
    <3>2. CASE at # "put"
      <4>1. Locked(p)' = d
        BY <1>6, <2>4, <3>2 DEF Locked
      <4>2. \A t \in Slots : ilk'[t] = IF t = d THEN p ELSE ilk[t]
        BY <1>6, <1>b, <3>2 DEF Typed
      <4> QED  BY <1>5, <4>1, <4>2
    <3> QED  BY <3>1, <3>2
  <2> QED  BY <1>3, <1>6, <2>1, <2>2, <2>3, <2>5, <2>6, <2>7, <2>8, WalkFrame
<1>7. ASSUME NEW at, NEW l, pc' = [pc EXCEPT ![p] = at], loc' = [loc EXCEPT ![p] = l],
             l = loc[p] \/ l = [loc[p] EXCEPT !.dp = d, !.ip = None]
      PROVE  Walks(p, at, l) /\ l \in LocRec
  <2>1. /\ l.op = loc[p].op /\ l.abs = loc[p].abs /\ l.goal = loc[p].goal
        /\ l.goal2 = loc[p].goal2 /\ l.fd = loc[p].fd /\ l.fd1 = loc[p].fd1
        /\ l.child = loc[p].child /\ l \in LocRec
    BY <1>7, <1>b DEF LocRec
  <2> QED  BY <1>7, <2>1 DEF WalkStep, Walks
<1>8. CASE pc' = [pc EXCEPT ![p] = "put"] /\ UNCHANGED <<ilk, loc>>
  <2>1. loc' = [loc EXCEPT ![p] = loc[p]]
    BY <1>8, <1>b DEF Typed
  <2> QED  BY <1>6, <1>7, <1>8, <2>1
<1>9. CASE ilk' = [ilk EXCEPT ![d] = p] /\ pc' = [pc EXCEPT ![p] = "lookup"] /\ UNCHANGED loc
  <2>1. loc' = [loc EXCEPT ![p] = loc[p]]
    BY <1>9, <1>b DEF Typed
  <2> QED  BY <1>6, <1>7, <1>9, <2>1
<1>10. CASE /\ ilk' = [ilk EXCEPT ![d] = p] /\ pc' = [pc EXCEPT ![p] = "clookup"]
            /\ loc' = [loc EXCEPT ![p] = [loc[p] EXCEPT !.dp = d, !.ip = None]]
            /\ Parent[loc[p].goal] = ino[d].path
  <2> PICK l : l = [loc[p] EXCEPT !.dp = d, !.ip = None]
    OBVIOUS
  <2>1. l.dp = d /\ l.ip = None
    BY <1>b DEF LocRec
  <2> QED  BY <1>6, <1>7, <1>10, <2>1
<1> QED  BY <1>8, <1>9, <1>10 DEF WalkStep, Goto, Locals

(* dirlookup(), and the directory unlocked.                                 *)
LEMMA WalkLookupStep ==
  ASSUME IInv, NEW p \in Procs, WalkLookup(p), ~Panics(p)
  PROVE  IInv'
<1>b. /\ Typed /\ TableType /\ InvTable /\ loc[p] \in LocRec
      /\ LRefs(p) /\ LOps(p) /\ LPath(p)
      /\ \A s \in Slots : ilk[s] = p <=> Locked(p) = s
  BY Before
<1>1. pc[p] = "lookup" /\ disk' = disk
  BY DEF WalkLookup
<1>2. loc[p].ip # None /\ loc[p].dp = None
  BY <1>1, <1>b DEF LRefs, HasIp, HasDp
<1> PICK d \in Slots : d = loc[p].ip
  BY <1>2, <1>b DEF LocRec
<1> PICK q : q = NextOn(ino[d].path, loc[p].goal)
  OBVIOUS
<1> PICK s : s = LookupSlot(q)
  OBVIOUS
<1>3. q \in Paths \ {Root} /\ (q = loc[p].goal \/ loc[p].goal \in Below(q))
  <2>1. loc[p].goal \in Paths /\ loc[p].goal \in Below(ino[d].path)
    BY <1>1, <1>b DEF LOps, LPath, Walking, IpPath
  <2> QED  BY <2>1, OnTheWay
<1>4. ~TableFull(q)
  BY <1>1 DEF Panics, NoInodes
<1>5. ino' = WithLookedUp(q, LookupSlot(q)) /\ ilk' = [ilk EXCEPT ![d] = None]
  BY DEF WalkLookup
<1>6. /\ TableStep
      /\ s = None => ino' = ino
      /\ s # None => s \in Slots /\ Adds(s) /\ ino'[s].path = q
  BY <1>1, <1>3, <1>4, <1>5, <1>b, LookedUpIs
<1> PICK l : l = [loc[p] EXCEPT !.dp = d, !.ip = s]
  OBVIOUS
<1>7. /\ l.op = loc[p].op /\ l.abs = loc[p].abs /\ l.goal = loc[p].goal
      /\ l.goal2 = loc[p].goal2 /\ l.fd = loc[p].fd /\ l.fd1 = loc[p].fd1
      /\ l.child = loc[p].child /\ l \in LocRec /\ l.ip = s /\ l.dp = d
  BY <1>6, <1>b DEF LocRec
<1>8. Walks(p, "walkput", l)
  BY <1>7 DEF WalkLookup, Walks, Goto, Locals
<1>9. RefsMove(p, l, cwd[p])
  <2> SUFFICES ASSUME NEW t \in Slots
               PROVE  ino'[t].ref + (One(loc[p].ip = t) + One(loc[p].dp = t) + One(cwd[p] = t))
                        = ino[t].ref + (One(l.ip = t) + One(l.dp = t) + One(cwd[p] = t))
    BY DEF RefsMove
  <2>1. ino[t].ref \in Nat
    BY <1>b DEF TableType, InoRec
  <2>2. ino'[t].ref = ino[t].ref + IF s = t THEN 1 ELSE 0
    BY <2>1, <1>6, Nones DEF Adds, One
  <2>3. t # None
    BY Nones
  <2> QED  BY <2>1, <2>2, <2>3, <1>2, <1>7 DEF One
<1>10. /\ ilk' \in [Slots -> Procs \cup {None}]
       /\ \A t \in Slots : ilk'[t] = IF t = d THEN None ELSE ilk[t]
  BY <1>5, <1>b DEF Typed
<1>11. /\ "walkput" \in (Walking \cup {"put", "chput"}) \ {"cwd"}
       /\ pc[p] \in Walking \ {"cwd"}
  BY <1>1 DEF Walking
<1>12. pc'[p] = "walkput" /\ loc'[p] = l
  BY <1>6, <1>7, <1>8, <1>9, <1>10, <1>11, WalkKeeps
<1>13. LRefs(p)'
  BY <1>7, <1>12, Nones DEF LRefs, HasDp
<1>14. LPath(p)'
  BY <1>3, <1>6, <1>7, <1>12 DEF LPath, IpPath
<1>15. ilk[d] = p
  BY <1>1, <1>b DEF Locked
<1>16. \A t \in Slots : ilk'[t] = ilk[t] \/ {ilk[t], ilk'[t]} \subseteq {None, p}
  BY <1>10, <1>15
<1>17. \A t \in Slots : ilk'[t] = p <=> Locked(p)' = t
  <2>1. Locked(p)' = None /\ Locked(p) = d
    BY <1>1, <1>12 DEF Locked, Reading
  <2> QED  BY <1>10, <1>b, <2>1, Nones
<1> QED  BY <1>6, <1>7, <1>8, <1>9, <1>10, <1>11, <1>13, <1>14, <1>16, <1>17, WalkFrame
-----------------------------------------------------------------------------
(* Giving back, and going on with what is left of the call.                *)

SameCall(p, l) == /\ l.op = loc[p].op /\ l.goal = loc[p].goal /\ l.goal2 = loc[p].goal2
                  /\ l.fd = loc[p].fd /\ l.fd1 = loc[p].fd1 /\ l.child = loc[p].child

(* Onward goes to a point where a call has no references.                   *)
OnwardIs(p, l, at, m) ==
  /\ pc' = [pc EXCEPT ![p] = at] /\ loc' = [loc EXCEPT ![p] = m]
  /\ m = IF at = "idle" THEN NoLocals ELSE l
  /\ at = "exit" => l.op = "exit" /\ ~NoFds(p)'
  /\ at = "exitcwd" => l.op = "exit" /\ NoFds(p)'
  /\ at \in {"rename", "close1"} => l.fd1 # None /\ l.op # "exit"

(* Onward is such a move.                                                   *)
LEMMA OnwardTo ==
  ASSUME NEW p \in Procs, NEW l \in LocRec, Onward(p, l),
         fds' \in [Procs -> [Fds -> FileSlots \cup {None}]]
  PROVE  \E at \in {"exit", "exitcwd", "idle", "rename", "close1"}, m \in LocRec :
           OnwardIs(p, l, at, m)
<1> PICK at : at = IF l.op = "exit"
                   THEN IF \A d \in Fds : fds'[p][d] = None THEN "exitcwd" ELSE "exit"
                   ELSE IF l.fd1 = None THEN "idle"
                   ELSE IF l.marked THEN "rename" ELSE "close1"
  OBVIOUS
<1> PICK m : m = IF at = "idle" THEN NoLocals ELSE l
  OBVIOUS
<1>1. pc' = [pc EXCEPT ![p] = at] /\ loc' = [loc EXCEPT ![p] = m]
  BY DEF Onward, Goto, Locals
<1>2. m \in LocRec
  BY DEF NoLocals, LocRec, OpNames
<1>3. NoFds(p)' <=> \A d \in Fds : fds'[p][d] = None
  BY DEF NoFds
<1>4. /\ at \in {"exit", "exitcwd", "idle", "rename", "close1"}
      /\ at = "exit" => l.op = "exit" /\ ~NoFds(p)'
      /\ at = "exitcwd" => l.op = "exit" /\ NoFds(p)'
      /\ at \in {"rename", "close1"} => l.fd1 # None /\ l.op # "exit"
  BY <1>3
<1> QED  BY <1>1, <1>2, <1>4 DEF OnwardIs

(* There, this is all that p relies on.                                     *)
OnwardOK(p, l) ==
  /\ l.ip = None /\ l.dp = None /\ l.child = None /\ l.op # "flush"
  /\ l.fd # None => fds'[p][l.fd] # None /\ l.fd # l.fd1
  /\ l.fd1 # None => /\ fds'[p][l.fd1] # None /\ l.op = "rename"
                     /\ ino'[InodeOf(p, l.fd1)'].path # Root
  /\ l.op = "rename" => {l.goal, l.goal2} \subseteq Paths \ Dirs
  /\ l.op \in PathOps \cup {"clone", "exit"} => cwd'[p] # None
  /\ l.op = "exit" => l.fd = None

(* With that, what p relies on is right, and it holds no lock.              *)
LEMMA OnwardLocal ==
  ASSUME NEW p \in Procs, NEW l \in LocRec,
         NEW at \in {"exit", "exitcwd", "idle", "rename", "close1"},
         NEW m, OnwardIs(p, l, at, m), pc'[p] = at, loc'[p] = m, OnwardOK(p, l)
  PROVE  LocalOK(p)' /\ Locked(p)' = None /\ loc'[p].child = None
<1>1. /\ m.ip = None /\ m.dp = None /\ m.child = None /\ m.op # "flush"
      /\ m.fd # None => fds'[p][m.fd] # None /\ m.fd # m.fd1
      /\ m.fd1 # None => /\ fds'[p][m.fd1] # None /\ m.op = "rename"
                         /\ ino'[InodeOf(p, m.fd1)'].path # Root
      /\ m.op = "rename" => {m.goal, m.goal2} \subseteq Paths \ Dirs
      /\ m.op \in PathOps \cup {"clone", "exit"} => cwd'[p] # None
      /\ m.op = "exit" => m.fd = None
      /\ at = "idle" => m = NoLocals
      /\ at \in {"rename", "close1"} => m.fd1 # None
      /\ at \in {"exit", "exitcwd"} <=> m.op = "exit"
      /\ at = "exit" => ~NoFds(p)'
      /\ at = "exitcwd" => NoFds(p)'
  <2>1. /\ NoLocals.ip = None /\ NoLocals.dp = None /\ NoLocals.child = None
        /\ NoLocals.op = None /\ NoLocals.fd = None /\ NoLocals.fd1 = None
    BY DEF NoLocals
  <2>2. None # "flush" /\ None \notin PathOps \cup {"clone", "exit"} /\ None # "rename"
    BY Nones DEF Ops, PathOps
  <2>3. CASE at = "idle"
    BY <2>1, <2>2, <2>3 DEF OnwardIs, OnwardOK
  <2>4. CASE at # "idle"
    BY <2>4 DEF OnwardIs, OnwardOK
  <2> QED  BY <2>3, <2>4
<1>2. LRefs(p)' /\ LPath(p)'
  BY <1>1 DEF LRefs, LPath, HasIp, HasDp
<1>3. ~Reading(p)'
  BY DEF Reading
<1>4. LFds(p)'
  BY <1>1, <1>3 DEF LFds
<1>5. LOps(p)'
  BY <1>1 DEF LOps, Walking
<1>6. LCwd(p)'
  BY <1>1 DEF LCwd
<1>7. LGoal(p)'
  BY <1>1 DEF LGoal, Walking
<1>8. Locked(p)' = None
  BY <1>3 DEF Locked
<1> QED  BY <1>1, <1>2, <1>4, <1>5, <1>6, <1>7, <1>8 DEF LocalOK

(* iput() of what p is about to give back.                                  *)
LEMMA GivesBack ==
  ASSUME TableType, InvTable, NEW p \in Procs, NEW s \in Slots, Live(s),
         PutAt(p) = s, ~Panics(p), PutInode(s)
  PROVE  TableStep /\ Drops(s)
<1>1. s # None
  BY Nones
<1>2. RenamedAtPut(s) => FatRenames(ino[s].path, ino[s].newPath)
  BY <1>1 DEF Panics, RenameFails
<1> QED  BY <1>2, PutInodeIs

(* p has one reference less, on s: with the locals l, the working directory c. *)
Less(p, s, l, c) ==
  \A t \in Slots : One(loc[p].ip = t) + One(loc[p].dp = t) + One(cwd[p] = t)
                     = One(t = s) + (One(l.ip = t) + One(l.dp = t) + One(c = t))

(* That makes up for a count that drops.                                    *)
LEMMA RefsLess ==
  ASSUME TableType, TableType', NEW p, NEW s, NEW l, NEW c, Drops(s), Less(p, s, l, c)
  PROVE  RefsMove(p, l, c)
<1> SUFFICES ASSUME NEW t \in Slots
             PROVE  ino'[t].ref + (One(loc[p].ip = t) + One(loc[p].dp = t) + One(cwd[p] = t))
                      = ino[t].ref + (One(l.ip = t) + One(l.dp = t) + One(c = t))
  BY DEF RefsMove
<1> PICK a, b, d, e, f, g, x \in Nat :
      /\ a = One(loc[p].ip = t) /\ b = One(loc[p].dp = t) /\ d = One(cwd[p] = t)
      /\ e = One(l.ip = t) /\ f = One(l.dp = t) /\ g = One(c = t) /\ x = One(t = s)
  BY DEF One
<1> PICK r0, r1 \in Nat : r0 = ino[t].ref /\ r1 = ino'[t].ref
  BY DEF TableType, InoRec
<1>1. r1 + x = r0
  BY DEF Drops
<1>2. a + b + d = x + (e + f + g)
  BY DEF Less
<1>3. r1 + (a + b + d) = r0 + (e + f + g)
  BY <1>1, <1>2
<1> QED  BY <1>3

(* The call gives back s, and goes on with the working directory c.         *)
PutsBack(p, s, c, l) ==
  /\ pc[p] \in {"walkput", "chput", "put"} /\ PutAt(p) = s /\ ~Panics(p)
  /\ PutInode(s) /\ cwd' = [cwd EXCEPT ![p] = c] /\ (c = None <=> cwd[p] = None)
  /\ UNCHANGED <<ilk, file, fds, cached, calls, panicked>>
  /\ Onward(p, l) /\ SameCall(p, l) /\ l.ip = None /\ l.dp = None

(* Such a step keeps the invariant.                                         *)
LEMMA PutOnward ==
  ASSUME IInv, NEW p \in Procs, NEW s \in Slots, NEW c \in Slots \cup {None},
         NEW l \in LocRec, PutsBack(p, s, c, l), Less(p, s, l, c)
  PROVE  IInv'
<1>b. /\ Typed /\ TableType /\ InvTable /\ Held /\ loc[p] \in LocRec
      /\ cwd[p] \in Slots \cup {None}
      /\ LRefs(p) /\ LFds(p) /\ LOps(p) /\ LCwd(p) /\ LGoal(p)
      /\ \A t \in Slots : ilk[t] = p <=> Locked(p) = t
  BY Before
<1>p. /\ pc[p] \in {"walkput", "chput", "put"} /\ PutAt(p) = s /\ ~Panics(p)
      /\ PutInode(s) /\ Onward(p, l) /\ SameCall(p, l) /\ l.ip = None /\ l.dp = None
      /\ fds' = fds /\ ilk' = ilk /\ file' = file
      /\ c = None <=> cwd[p] = None
  BY DEF PutsBack
<1>1. Live(s)
  <2>1. s \in {loc[p].ip, loc[p].dp, cwd[p]}
    BY <1>p DEF PutAt
  <2> QED  BY <2>1, <1>b DEF Held
<1>2. TableStep /\ Drops(s)
  BY <1>1, <1>b, <1>p, GivesBack
<1>3. fds' \in [Procs -> [Fds -> FileSlots \cup {None}]]
      /\ ilk' \in [Slots -> Procs \cup {None}]
  BY <1>b, <1>p DEF Typed
<1> PICK at \in {"exit", "exitcwd", "idle", "rename", "close1"}, m \in LocRec :
      OnwardIs(p, l, at, m)
  BY <1>3, <1>p, OnwardTo
<1>4. m.ip = None /\ m.dp = None /\ m.child = None /\ l.child = None
  <2>1. loc[p].child = None
    BY <1>b, <1>p DEF LOps
  <2> QED  BY <2>1, <1>p DEF SameCall, NoLocals, OnwardIs
<1>5. Moves(p, at, m, c) /\ Quiet
  BY <1>b DEF Moves, Quiet, Typed, PutsBack, OnwardIs
<1>6. at \in Points
  BY DEF Points, TablePoints, InodePoints
<1>7. RefsMove(p, m, c)
  <2>1. Less(p, s, m, c)
    BY <1>4, <1>p DEF Less
  <2> QED  BY <2>1, <1>2, <1>b, RefsLess DEF TableStep
<1>8. Moved(p, at, m, c) /\ TypeOK' /\ RefsExact' /\ Held'
  BY <1>2, <1>3, <1>5, <1>6, <1>7, OwnRefs
<1>9. pc'[p] = at /\ loc'[p] = m /\ cwd'[p] = c
  BY <1>8 DEF Moved
<1>10. \A d \in Fds : fds[p][d] # None =>
         /\ InodeOf(p, d)' = InodeOf(p, d)
         /\ ino'[InodeOf(p, d)].path = ino[InodeOf(p, d)].path
  <2>1. Kept /\ FilesKept /\ fds'[p] = fds[p]
    BY <1>2, <1>p DEF TableStep, FilesKept
  <2> QED  BY <1>8, <2>1, Mine
<1>11. LocalOK(p)' /\ Locked(p)' = None
  <2>1. l.op # "flush"
    BY <1>b, <1>p DEF LOps, SameCall
  <2>2. l.fd # None => fds'[p][l.fd] # None /\ l.fd # l.fd1
    BY <1>b, <1>p DEF LFds, SameCall
  <2>3. l.fd1 # None => /\ fds'[p][l.fd1] # None /\ l.op = "rename"
                        /\ ino'[InodeOf(p, l.fd1)'].path # Root
    <3>1. l.fd1 # None => /\ l.fd1 \in Fds /\ fds[p][l.fd1] # None /\ l.op = "rename"
                          /\ ino[InodeOf(p, l.fd1)].path # Root
      BY <1>b, <1>p DEF LFds, LGoal, SameCall, LocRec
    <3> QED  BY <3>1, <1>10, <1>p
  <2>4. l.op = "rename" => {l.goal, l.goal2} \subseteq Paths \ Dirs
    BY <1>b, <1>p DEF LGoal, SameCall
  <2>5. l.op \in PathOps \cup {"clone", "exit"} => cwd'[p] # None
    BY <1>9, <1>b, <1>p DEF LCwd, SameCall
  <2>6. l.ip = None /\ l.dp = None /\ l.child = None /\ pc'[p] = at /\ loc'[p] = m
    BY <1>4, <1>9, <1>p
  <2>8. l.op = "exit" => l.fd = None
    BY <1>b, <1>p DEF LOps, SameCall
  <2>7. OnwardOK(p, l)
    BY <2>1, <2>2, <2>3, <2>4, <2>5, <2>6, <2>8 DEF OnwardOK
  <2> QED  BY <2>6, <2>7, OnwardLocal
<1>12. \A t \in Slots : ilk'[t] = p <=> Locked(p)' = t
  <2>1. Locked(p) = None
    BY <1>p DEF Locked, Reading
  <2> QED  BY <2>1, <1>11, <1>b, <1>p
<1>13. pc[p] # "dead" /\ pc[p] # "idup" /\ at # "dead"
       /\ \A t \in Slots : ilk'[t] = ilk[t]
  BY <1>p
<1> QED  BY <1>2, <1>4, <1>5, <1>8, <1>11, <1>12, <1>13, QuietFrame

(* The directory that was searched is given back.                           *)
LEMMA WalkPutStep ==
  ASSUME IInv, NEW p \in Procs, WalkPut(p), ~Panics(p)
  PROVE  IInv'
<1>b. /\ Typed /\ TableType /\ InvTable /\ Held /\ loc[p] \in LocRec
      /\ cwd[p] \in Slots \cup {None} /\ LRefs(p) /\ LOps(p) /\ LPath(p)
      /\ \A t \in Slots : ilk[t] = p <=> Locked(p) = t
  BY Before
<1>1. pc[p] = "walkput" /\ ilk' = ilk
  BY DEF WalkPut
<1>2. loc[p].dp # None
  BY <1>1, <1>b DEF LRefs, HasDp
<1> PICK d \in Slots : d = loc[p].dp
  BY <1>2, <1>b DEF LocRec
<1> PICK l : l = [loc[p] EXCEPT !.dp = None]
  OBVIOUS
<1>3. /\ l.op = loc[p].op /\ l.abs = loc[p].abs /\ l.goal = loc[p].goal
      /\ l.goal2 = loc[p].goal2 /\ l.fd = loc[p].fd /\ l.fd1 = loc[p].fd1
      /\ l.child = loc[p].child /\ l \in LocRec /\ l.ip = loc[p].ip /\ l.dp = None
  BY <1>b DEF LocRec
<1>4. PutAt(p) = d /\ PutInode(d)
  BY <1>1 DEF PutAt, WalkPut
<1>5. CASE l.ip = None
  <2>1. Onward(p, l)
    BY <1>5 DEF WalkPut
  <2> PICK c \in Slots \cup {None} : c = cwd[p]
    BY <1>b
  <2>2. cwd' = [cwd EXCEPT ![p] = c] /\ (c = None <=> cwd[p] = None)
    BY <1>b DEF WalkPut, Typed
  <2>3. Less(p, d, l, c)
    BY <1>3, <1>5, Nones DEF Less, One
  <2>4. UNCHANGED <<ilk, file, fds, cached, calls, panicked>> /\ SameCall(p, l)
    BY <1>3 DEF WalkPut, SameCall
  <2>5. pc[p] \in {"walkput", "chput", "put"}
    BY <1>1
  <2>6. PutsBack(p, d, c, l)
    BY <1>3, <1>4, <1>5, <2>1, <2>2, <2>4, <2>5 DEF PutsBack
  <2> QED  BY <1>3, <2>3, <2>6, PutOnward
<1>6. CASE l.ip # None
  <2> PICK s \in Slots : s = l.ip
    BY <1>3, <1>6 DEF LocRec
  <2>1. PICK at : at = IF ino[s].path # loc[p].goal THEN "walk"
                       ELSE IF Creating(p) THEN "put" ELSE "found"
    OBVIOUS
  <2>2. pc' = [pc EXCEPT ![p] = at] /\ loc' = [loc EXCEPT ![p] = l]
    BY <1>6, <2>1 DEF WalkPut, Arrive, Goto, Locals
  <2>3. Walks(p, at, l)
    BY <1>3, <2>2 DEF Walks, WalkPut
  <2>4. /\ at \in (Walking \cup {"put", "chput"}) \ {"cwd"} /\ pc[p] \in Walking \ {"cwd"}
        /\ at \in {"walk", "put", "found"} /\ at # "chput"
    BY <1>1, <2>1 DEF Walking
  <2>5. TableStep /\ Drops(d)
    <3>1. Live(d)
      BY <1>b DEF Held
    <3> QED  BY <3>1, <1>4, <1>b, GivesBack
  <2>6. RefsMove(p, l, cwd[p])
    <3>1. Less(p, d, l, cwd[p])
      <4> SUFFICES ASSUME NEW t \in Slots
                   PROVE  One(loc[p].ip = t) + One(loc[p].dp = t) + One(cwd[p] = t)
                            = One(t = d) + (One(l.ip = t) + One(l.dp = t) + One(cwd[p] = t))
        BY DEF Less
      <4> QED  BY <1>3, Nones DEF One
    <3> QED  BY <2>5, <3>1, <1>b, RefsLess DEF TableStep
  <2>7. ilk' \in [Slots -> Procs \cup {None}]
    BY <1>1, <1>b DEF Typed
  <2>8. pc'[p] = at /\ loc'[p] = l /\ ino'[s].path = ino[s].path
    <3>1. Moved(p, at, l, cwd[p]) /\ Held'
      BY <1>3, <2>3, <2>4, <2>5, <2>6, <2>7, WalkKeeps
    <3>2. pc'[p] = at /\ loc'[p] = l
      BY <3>1 DEF Moved
    <3>3. Live(s) /\ Live(s)'
      BY <1>3, <1>b, <3>1, <3>2 DEF Held
    <3> QED  BY <2>5, <3>2, <3>3 DEF TableStep, Kept
  <2>9. LRefs(p)'
    BY <1>3, <1>6, <2>4, <2>8, Nones DEF LRefs, HasIp, HasDp
  <2>10. LPath(p)'
    <3>1. ino[s].path = l.goal \/ l.goal \in Below(ino[s].path)
      BY <1>1, <1>3, <1>6, <1>b DEF LPath, IpPath
    <3> QED  BY <1>3, <2>1, <2>4, <2>8, <3>1 DEF LPath, IpPath
  <2>11. \A t \in Slots : ilk'[t] = p <=> Locked(p)' = t
    <3>1. Locked(p) = None /\ Locked(p)' = None
      BY <1>1, <2>4, <2>8 DEF Locked, Reading
    <3> QED  BY <1>1, <1>b, <3>1
  <2> QED  BY <1>1, <1>3, <2>3, <2>4, <2>5, <2>6, <2>7, <2>9, <2>10, <2>11, WalkFrame
<1> QED  BY <1>5, <1>6

(* chdir() gives the old working directory back, and any call its inode.    *)
LEMMA ChdirPutStep ==
  ASSUME IInv, NEW p \in Procs, ChdirPut(p), ~Panics(p)
  PROVE  IInv'
<1>b. /\ Typed /\ loc[p] \in LocRec /\ cwd[p] \in Slots \cup {None}
      /\ LRefs(p) /\ LOps(p) /\ LCwd(p)
  BY Before
<1>1. pc[p] = "chput" /\ loc[p].op = "chdir"
  BY <1>b DEF ChdirPut, LOps
<1>2. loc[p].ip # None /\ loc[p].dp = None /\ cwd[p] # None
  BY <1>1, <1>b DEF LRefs, LCwd, HasIp, HasDp, PathOps
<1> PICK c \in Slots : c = loc[p].ip
  BY <1>2, <1>b DEF LocRec
<1> PICK s \in Slots : s = cwd[p]
  BY <1>2, <1>b
<1> PICK l : l = [loc[p] EXCEPT !.ip = None]
  OBVIOUS
<1>3. /\ l.op = loc[p].op /\ l.goal = loc[p].goal /\ l.goal2 = loc[p].goal2
      /\ l.fd = loc[p].fd /\ l.fd1 = loc[p].fd1 /\ l.child = loc[p].child
      /\ l \in LocRec /\ l.ip = None /\ l.dp = None
  BY <1>2, <1>b DEF LocRec
<1>4. PutsBack(p, s, c, l)
  <2>1. PutAt(p) = s /\ (c = None <=> cwd[p] = None)
    BY <1>1, <1>2, Nones DEF PutAt
  <2>2. PutInode(s) /\ Onward(p, l) /\ cwd' = [cwd EXCEPT ![p] = c]
    BY DEF ChdirPut
  <2> QED  BY <1>1, <1>3, <2>1, <2>2 DEF PutsBack, SameCall, ChdirPut
<1>5. Less(p, s, l, c)
  <2> SUFFICES ASSUME NEW t \in Slots
               PROVE  One(loc[p].ip = t) + One(loc[p].dp = t) + One(cwd[p] = t)
                        = One(t = s) + (One(l.ip = t) + One(l.dp = t) + One(c = t))
    BY DEF Less
  <2> QED  BY <1>2, <1>3, Nones DEF One
<1> QED  BY <1>3, <1>4, <1>5, PutOnward

(* Any call gives back its inode at the end.                                *)
LEMMA PutStep ==
  ASSUME IInv, NEW p \in Procs, Put(p), ~Panics(p)
  PROVE  IInv'
<1>b. /\ Typed /\ loc[p] \in LocRec /\ cwd[p] \in Slots \cup {None} /\ LRefs(p)
  BY Before
<1>1. pc[p] = "put"
  BY DEF Put
<1>2. loc[p].ip # None /\ loc[p].dp = None
  BY <1>1, <1>b DEF LRefs, HasIp, HasDp
<1> PICK s \in Slots : s = loc[p].ip
  BY <1>2, <1>b DEF LocRec
<1> PICK c \in Slots \cup {None} : c = cwd[p]
  BY <1>b
<1> PICK l : l = [loc[p] EXCEPT !.ip = None]
  OBVIOUS
<1>3. /\ l.op = loc[p].op /\ l.goal = loc[p].goal /\ l.goal2 = loc[p].goal2
      /\ l.fd = loc[p].fd /\ l.fd1 = loc[p].fd1 /\ l.child = loc[p].child
      /\ l \in LocRec /\ l.ip = None /\ l.dp = None
  BY <1>2, <1>b DEF LocRec
<1>4. PutsBack(p, s, c, l)
  <2>1. PutAt(p) = s /\ (c = None <=> cwd[p] = None)
    BY <1>1 DEF PutAt
  <2>2. PutInode(s) /\ Onward(p, l) /\ cwd' = [cwd EXCEPT ![p] = c]
    BY <1>b DEF Put, Typed
  <2> QED  BY <1>1, <1>3, <2>1, <2>2 DEF PutsBack, SameCall, Put
<1>5. Less(p, s, l, c)
  <2> SUFFICES ASSUME NEW t \in Slots
               PROVE  One(loc[p].ip = t) + One(loc[p].dp = t) + One(cwd[p] = t)
                        = One(t = s) + (One(l.ip = t) + One(l.dp = t) + One(c = t))
    BY DEF Less
  <2> QED  BY <1>2, <1>3, Nones DEF One
<1> QED  BY <1>3, <1>4, <1>5, PutOnward
-----------------------------------------------------------------------------
(* create(), and the inode that was found.                                 *)

(* A step of a walk to point at, with x in ip and y in dp.                  *)
Arrivals == {"walk", "put", "found", "cput", "icreate", "cfound", "alloc", "newlock",
             "newput", "chput"}
WalkTo(p, at, x, y) ==
  /\ pc' = [pc EXCEPT ![p] = at]
  /\ loc' = [loc EXCEPT ![p] = [loc[p] EXCEPT !.ip = x, !.dp = y]]
  /\ UNCHANGED <<file, fds, cwd, cached, calls, panicked>>
(* The counts follow, *)
RefsHand(p, x, y) ==
  \A t \in Slots : ino'[t].ref + (One(loc[p].ip = t) + One(loc[p].dp = t))
                     = ino[t].ref + (One(x = t) + One(y = t))
(* both are there just when they are wanted, *)
HandAt(at, x, y) == (x # None <=> at \in HasIp) /\ (y # None <=> at \in HasDp)
(* with path q in ip and r in dp the way to g is right, *)
OnPath(at, g, q, r) ==
  /\ at = "walk" => g \in Below(q)
  /\ at \in {"cput", "cfound", "newlock", "newput", "found", "alloc"} => q = g
  /\ at \in {"icreate", "newlock"} => g # Root /\ Parent[g] = r
(* and p has this lock then, and no other.                                  *)
LockAt(at, x, y) == IF at \in {"icreate", "newlock"} THEN y
                    ELSE IF at \in {"newput", "alloc"} THEN x ELSE None
LockMoves(p, k) ==
  /\ \A t \in Slots : ilk'[t] = IF t = k THEN p ELSE IF ilk[t] = p THEN None ELSE ilk[t]
  /\ k # None => ilk[k] \in {None, p}

(* The working directory counts the same before and after.                  *)
LEMMA AddBoth ==
  ASSUME NEW a \in Nat, NEW b \in Nat, NEW d \in Nat, NEW e \in Nat, NEW f \in Nat,
         NEW r0 \in Nat, NEW r1 \in Nat, r1 + (a + b) = r0 + (e + f)
  PROVE  r1 + (a + b + d) = r0 + (e + f + d)
OBVIOUS

(* What is in hand before and after keeps its path.                         *)
LEMMA WalkPaths ==
  ASSUME IInv, NEW p \in Procs, NEW at \in Arrivals, NEW x \in Slots \cup {None},
         NEW y \in Slots \cup {None}, WalkTo(p, at, x, y), pc[p] \in Walking \ {"cwd"},
         TableStep, RefsHand(p, x, y), at = "chput" => loc[p].op = "chdir",
         ilk' \in [Slots -> Procs \cup {None}]
  PROVE  \E l \in LocRec :
           /\ Walks(p, at, l) /\ RefsMove(p, l, cwd[p]) /\ l.ip = x /\ l.dp = y
           /\ pc'[p] = at /\ loc'[p] = l /\ l.goal = loc[p].goal /\ l.op = loc[p].op
           /\ \A t \in Slots : /\ loc[p].ip = t \/ loc[p].dp = t
                               /\ x = t \/ y = t
                               => ino'[t].path = ino[t].path
<1>b. Typed /\ TableType /\ loc[p] \in LocRec /\ Held
  BY Before
<1>1. PICK l : l = [loc[p] EXCEPT !.ip = x, !.dp = y]
  OBVIOUS
<1>2. /\ l.op = loc[p].op /\ l.abs = loc[p].abs /\ l.goal = loc[p].goal
      /\ l.goal2 = loc[p].goal2 /\ l.fd = loc[p].fd /\ l.fd1 = loc[p].fd1
      /\ l.child = loc[p].child /\ l \in LocRec /\ l.ip = x /\ l.dp = y
  BY <1>1, <1>b DEF LocRec
<1>3. Walks(p, at, l)
  BY <1>1, <1>2 DEF Walks, WalkTo
<1>4. RefsMove(p, l, cwd[p])
  <2> SUFFICES ASSUME NEW t \in Slots
               PROVE  ino'[t].ref + (One(loc[p].ip = t) + One(loc[p].dp = t) + One(cwd[p] = t))
                        = ino[t].ref + (One(l.ip = t) + One(l.dp = t) + One(cwd[p] = t))
    BY DEF RefsMove
  <2>4. PICK a, b, d, e, f \in Nat :
        /\ a = One(loc[p].ip = t) /\ b = One(loc[p].dp = t) /\ d = One(cwd[p] = t)
        /\ e = One(x = t) /\ f = One(y = t)
    BY DEF One
  <2>5. PICK r0, r1 \in Nat : r0 = ino[t].ref /\ r1 = ino'[t].ref
    BY <1>b DEF TableStep, TableType, InoRec
  <2>1. r1 + (a + b) = r0 + (e + f)
    BY <2>4, <2>5 DEF RefsHand
  <2>2. r1 + (a + b + d) = r0 + (e + f + d)
    BY ONLY <2>1, a \in Nat, b \in Nat, d \in Nat, e \in Nat, f \in Nat, r0 \in Nat, r1 \in Nat
  <2>3. l.ip = x /\ l.dp = y
    BY <1>2
  <2> QED  BY <2>2, <2>3, <2>4, <2>5
<1>5. at \in (Walking \cup {"put", "chput"}) \ {"cwd"}
  BY DEF Arrivals, Walking
<1>6. at = "chput" => l.op = "chdir"
  BY <1>2
<1>7. Moved(p, at, l, cwd[p]) /\ Held'
  BY <1>2, <1>3, <1>4, <1>5, <1>6, WalkKeeps
<1>8. pc'[p] = at /\ loc'[p] = l
  BY <1>7 DEF Moved
<1>9. ASSUME NEW t \in Slots, loc[p].ip = t \/ loc[p].dp = t, x = t \/ y = t
      PROVE  ino'[t].path = ino[t].path
  <2>1. Live(t)
    BY <1>9, <1>b DEF Held
  <2>2. Live(t)'
    <3>1. loc'[p].ip = t \/ loc'[p].dp = t
      BY <1>2, <1>8, <1>9
    <3> QED  BY <1>7, <3>1 DEF Held
  <2> QED  BY <2>1, <2>2 DEF TableStep, Kept
<1> QED  BY <1>2, <1>3, <1>4, <1>8, <1>9

(* A step of a walk with all that keeps the invariant.                      *)
LEMMA WalkOn ==
  ASSUME IInv, NEW p \in Procs, NEW at \in Arrivals, NEW x \in Slots \cup {None},
         NEW y \in Slots \cup {None}, WalkTo(p, at, x, y), pc[p] \in Walking \ {"cwd"},
         TableStep, RefsHand(p, x, y), at = "chput" => loc[p].op = "chdir",
         HandAt(at, x, y), LockMoves(p, LockAt(at, x, y)),
         ilk' \in [Slots -> Procs \cup {None}],
         OnPath(at, loc[p].goal, ino'[x].path, ino'[y].path)
  PROVE  IInv'
<1> PICK l \in LocRec :
      /\ Walks(p, at, l) /\ RefsMove(p, l, cwd[p]) /\ l.ip = x /\ l.dp = y
      /\ pc'[p] = at /\ loc'[p] = l /\ l.goal = loc[p].goal /\ l.op = loc[p].op
  <2>1. \E l \in LocRec :
           /\ Walks(p, at, l) /\ RefsMove(p, l, cwd[p]) /\ l.ip = x /\ l.dp = y
           /\ pc'[p] = at /\ loc'[p] = l /\ l.goal = loc[p].goal /\ l.op = loc[p].op
           /\ \A t \in Slots : /\ loc[p].ip = t \/ loc[p].dp = t
                               /\ x = t \/ y = t
                               => ino'[t].path = ino[t].path
    BY WalkPaths
  <2> QED  BY <2>1
<1>b. (\A s \in Slots : ilk[s] = p <=> Locked(p) = s)
      /\ ilk \in [Slots -> Procs \cup {None}]
  BY Before DEF Typed
<1>1. at \in (Walking \cup {"put", "chput"}) \ {"cwd"}
  BY DEF Arrivals, Walking
<1>2. LRefs(p)'
  BY DEF LRefs, HandAt, Arrivals
<1>3. LPath(p)'
  BY DEF LPath, OnPath, IpPath, DpPath, Arrivals
<1>4. Locked(p)' = LockAt(at, x, y)
  BY DEF Locked, LockAt, Reading, Arrivals
<1> PICK k : k = LockAt(at, x, y)
  OBVIOUS
<1>5. k \in Slots \cup {None}
  BY DEF LockAt
<1>6. \A t \in Slots : ilk'[t] = p <=> Locked(p)' = t
  BY <1>4, Nones DEF LockMoves
<1>7. ASSUME NEW t \in Slots
      PROVE  ilk'[t] = ilk[t] \/ {ilk[t], ilk'[t]} \subseteq {None, p}
  <2>1. ilk'[t] = IF t = k THEN p ELSE IF ilk[t] = p THEN None ELSE ilk[t]
    BY DEF LockMoves
  <2>2. k # None => ilk[k] \in {None, p}
    BY DEF LockMoves
  <2>3. t # None
    BY Nones
  <2> QED  BY <2>1, <2>2, <2>3
<1>8. at = "chput" => l.op = "chdir"
  OBVIOUS
<1> QED  BY <1>1, <1>2, <1>3, <1>6, <1>7, <1>8, WalkFrame

(* Nothing changes, ip is found, or dp is given back.                       *)
LEMMA HandRefs ==
  ASSUME TableType, TableType', NEW p, NEW x, NEW y,
         \/ Same /\ x = loc[p].ip /\ y = loc[p].dp
         \/ \E s \in Slots : Adds(s) /\ loc[p].ip = None /\ x = s /\ y = loc[p].dp
         \/ \E s \in Slots : Drops(s) /\ loc[p].dp = s /\ x = loc[p].ip /\ y = None
  PROVE  RefsHand(p, x, y)
<1> SUFFICES ASSUME NEW t \in Slots
             PROVE  ino'[t].ref + (One(loc[p].ip = t) + One(loc[p].dp = t))
                      = ino[t].ref + (One(x = t) + One(y = t))
  BY DEF RefsHand
<1>1. ino[t].ref \in Nat /\ ino'[t].ref \in Nat /\ t # None
  BY Nones DEF TableType, InoRec
<1>2. CASE Same /\ x = loc[p].ip /\ y = loc[p].dp
  BY <1>1, <1>2 DEF Same, One
<1>3. CASE \E s \in Slots : Adds(s) /\ loc[p].ip = None /\ x = s /\ y = loc[p].dp
  BY <1>1, <1>3 DEF Adds, One
<1>4. CASE \E s \in Slots : Drops(s) /\ loc[p].dp = s /\ x = loc[p].ip /\ y = None
  BY <1>1, <1>4 DEF Drops, One
<1> QED  BY <1>2, <1>3, <1>4

(* p keeps the lock it has, takes its only one, or gives it up.             *)
LEMMA LockKinds ==
  ASSUME IInv, NEW p \in Procs, NEW k \in Slots \cup {None},
         \/ ilk' = ilk /\ Locked(p) = k
         \/ Locked(p) = None /\ k # None /\ ilk[k] = None /\ ilk' = [ilk EXCEPT ![k] = p]
         \/ k = None /\ \E d \in Slots : Locked(p) = d /\ ilk' = [ilk EXCEPT ![d] = None]
  PROVE  LockMoves(p, k) /\ ilk' \in [Slots -> Procs \cup {None}]
<1>b. (\A s \in Slots : ilk[s] = p <=> Locked(p) = s)
      /\ ilk \in [Slots -> Procs \cup {None}]
  BY Before DEF Typed
<1>1. CASE ilk' = ilk /\ Locked(p) = k
  BY <1>1, <1>b, Nones DEF LockMoves
<1>2. CASE Locked(p) = None /\ k # None /\ ilk[k] = None /\ ilk' = [ilk EXCEPT ![k] = p]
  BY <1>2, <1>b, Nones DEF LockMoves
<1>3. CASE k = None /\ \E d \in Slots : Locked(p) = d /\ ilk' = [ilk EXCEPT ![d] = None]
  BY <1>3, <1>b, Nones DEF LockMoves
<1> QED  BY <1>1, <1>2, <1>3

(* create() searches the directory it has locked.                           *)
LEMMA CreateLookupStep ==
  ASSUME IInv, NEW p \in Procs, CreateLookup(p), ~Panics(p)
  PROVE  IInv'
<1>b. /\ TableType /\ InvTable /\ Held /\ loc[p] \in LocRec /\ LRefs(p) /\ LOps(p) /\ LPath(p)
  BY Before
<1>1. pc[p] = "clookup" /\ disk' = disk
  BY DEF CreateLookup
<1>2. loc[p].ip = None /\ loc[p].dp # None
  BY <1>1, <1>b DEF LRefs, HasIp, HasDp
<1> PICK d \in Slots : d = loc[p].dp
  BY <1>2, <1>b DEF LocRec
<1> PICK q : q = loc[p].goal
  OBVIOUS
<1> PICK s : s = LookupSlot(q)
  OBVIOUS
<1>3. q \in Paths \ {Root} /\ Parent[q] = ino[d].path
  BY <1>1, <1>b DEF LOps, LPath, Walking, DpPath
<1>4. /\ TableStep
      /\ s = None => ino' = ino
      /\ s # None => s \in Slots /\ Adds(s) /\ ino'[s].path = q
  <2>1. ~TableFull(q) /\ ino' = WithLookedUp(q, LookupSlot(q))
    BY <1>1 DEF Panics, NoInodes, CreateLookup
  <2> QED  BY <1>1, <1>3, <1>b, <2>1, LookedUpIs
<1>5. pc[p] \in Walking \ {"cwd"} /\ Locked(p) = d
  BY <1>1 DEF Walking, Locked
<1>6. CASE s = None
  <2>1. WalkTo(p, "icreate", None, d)
    <3>1. [loc[p] EXCEPT !.ip = s] = [loc[p] EXCEPT !.ip = None, !.dp = d]
      BY <1>6, <1>b DEF LocRec
    <3> QED  BY <1>6, <3>1 DEF CreateLookup, WalkTo, Goto, Locals
  <2>2. RefsHand(p, None, d)
    <3>1. Same
      BY <1>4, <1>6 DEF Same
    <3> QED  BY <1>2, <1>4, <1>b, <3>1, HandRefs DEF TableStep
  <2>3. HandAt("icreate", None, d)
    BY Nones DEF HandAt, HasIp, HasDp
  <2>4. LockMoves(p, d) /\ ilk' \in [Slots -> Procs \cup {None}]
    <3>1. ilk' = ilk
      BY <1>6 DEF CreateLookup
    <3> QED  BY <1>5, <3>1, LockKinds
  <2>5. LockAt("icreate", None, d) = d
    BY DEF LockAt
  <2>6. OnPath("icreate", loc[p].goal, ino'[None].path, ino'[d].path)
    BY <1>3, <1>4, <1>6 DEF OnPath
  <2>7. "icreate" \in Arrivals
    BY DEF Arrivals
  <2> QED  BY <1>4, <1>5, <2>1, <2>2, <2>3, <2>4, <2>5, <2>6, <2>7, WalkOn
<1>7. CASE s # None
  <2>1. WalkTo(p, "cput", s, d)
    <3>1. [loc[p] EXCEPT !.ip = s] = [loc[p] EXCEPT !.ip = s, !.dp = d]
      BY <1>b DEF LocRec
    <3> QED  BY <1>7, <3>1 DEF CreateLookup, WalkTo, Goto, Locals
  <2>2. RefsHand(p, s, d)
    BY <1>2, <1>4, <1>7, <1>b, HandRefs DEF TableStep
  <2>3. HandAt("cput", s, d)
    BY <1>7, Nones DEF HandAt, HasIp, HasDp
  <2>4. LockMoves(p, None) /\ ilk' \in [Slots -> Procs \cup {None}]
    <3>1. ilk' = [ilk EXCEPT ![d] = None]
      BY <1>7 DEF CreateLookup
    <3> QED  BY <1>5, <3>1, LockKinds
  <2>5. LockAt("cput", s, d) = None
    BY DEF LockAt
  <2>6. OnPath("cput", loc[p].goal, ino'[s].path, ino'[d].path)
    BY <1>4, <1>7 DEF OnPath
  <2>7. "cput" \in Arrivals /\ s \in Slots \cup {None}
    BY <1>4 DEF Arrivals
  <2> QED  BY <1>4, <1>5, <2>1, <2>2, <2>3, <2>4, <2>5, <2>6, <2>7, WalkOn
<1> QED  BY <1>6, <1>7

(* The directory is given back, the file is there.                          *)
LEMMA CreatePutStep ==
  ASSUME IInv, NEW p \in Procs, CreatePut(p), ~Panics(p)
  PROVE  IInv'
<1>b. /\ TableType /\ InvTable /\ Held /\ loc[p] \in LocRec /\ LRefs(p) /\ LOps(p) /\ LPath(p)
  BY Before
<1>1. pc[p] = "cput" /\ ilk' = ilk
  BY DEF CreatePut
<1>2. loc[p].ip # None /\ loc[p].dp # None
  BY <1>1, <1>b DEF LRefs, HasIp, HasDp
<1> PICK d \in Slots : d = loc[p].dp
  BY <1>2, <1>b DEF LocRec
<1> PICK s \in Slots : s = loc[p].ip
  BY <1>2, <1>b DEF LocRec
<1>3. ino[s].path = loc[p].goal
  BY <1>1, <1>b DEF LPath, IpPath
<1>4. TableStep /\ Drops(d)
  <2>1. Live(d)
    BY <1>b DEF Held
  <2>2. PutAt(p) = d /\ PutInode(d)
    BY <1>1 DEF PutAt, CreatePut
  <2> QED  BY <1>b, <2>1, <2>2, GivesBack
<1>5. pc[p] \in Walking \ {"cwd"} /\ Locked(p) = None
  BY <1>1 DEF Walking, Locked, Reading
<1>6. WalkTo(p, "cfound", s, None)
  <2>1. [loc[p] EXCEPT !.dp = None] = [loc[p] EXCEPT !.ip = s, !.dp = None]
    BY <1>b DEF LocRec
  <2> QED  BY <2>1 DEF CreatePut, WalkTo, Goto, Locals
<1>7. RefsHand(p, s, None)
  BY <1>4, <1>b, HandRefs DEF TableStep
<1>8. HandAt("cfound", s, None)
  BY Nones DEF HandAt, HasIp, HasDp
<1>9. LockMoves(p, None) /\ ilk' \in [Slots -> Procs \cup {None}]
  BY <1>1, <1>5, LockKinds
<1>10. LockAt("cfound", s, None) = None
  BY DEF LockAt
<1>11. "cfound" \in Arrivals /\ "cfound" # "chput"
  BY DEF Arrivals
<1>12. ino'[s].path = ino[s].path
  BY <1>4, <1>5, <1>6, <1>7, <1>9, <1>11, WalkPaths
<1>13. OnPath("cfound", loc[p].goal, ino'[s].path, ino'[None].path)
  BY <1>3, <1>12 DEF OnPath
<1> QED  BY <1>4, <1>5, <1>6, <1>7, <1>8, <1>9, <1>10, <1>11, <1>13, WalkOn

(* With the inode in hand the call goes on to open it, or gives it back.    *)
InHand(p, s, at) ==
  /\ pc[p] \in {"cfound", "found", "alloc"} /\ at \in {"put", "alloc", "chput"}
  /\ s = loc[p].ip /\ pc' = [pc EXCEPT ![p] = at]
  /\ UNCHANGED <<disk, ino, file, fds, cwd, cached, loc, calls, panicked>>
  /\ at = "chput" => loc[p].op = "chdir"

(* Either keeps the invariant when the lock goes with it.                   *)
LEMMA InHandStep ==
  ASSUME IInv, NEW p \in Procs, NEW s \in Slots, NEW at, InHand(p, s, at),
         LockMoves(p, LockAt(at, s, None)), ilk' \in [Slots -> Procs \cup {None}]
  PROVE  IInv'
<1>b. Typed /\ TableType /\ InvTable /\ loc[p] \in LocRec /\ LRefs(p) /\ LPath(p)
  BY Before
<1>1. /\ pc[p] \in {"cfound", "found", "alloc"} /\ at \in {"put", "alloc", "chput"}
      /\ s = loc[p].ip /\ ino' = ino /\ disk' = disk
      /\ at = "chput" => loc[p].op = "chdir"
  BY DEF InHand
<1>2. loc[p].dp = None /\ ino[s].path = loc[p].goal
  BY <1>1, <1>b DEF LRefs, LPath, HasDp, IpPath
<1>3. TableStep /\ Same
  BY <1>1, <1>b, UntouchedIs
<1>4. WalkTo(p, at, s, None)
  <2>1. loc[p] = [loc[p] EXCEPT !.ip = s, !.dp = None]
    BY <1>1, <1>2, <1>b DEF LocRec
  <2>2. loc' = [loc EXCEPT ![p] = loc[p]]
    BY <1>b DEF InHand, Typed
  <2> QED  BY <2>1, <2>2 DEF InHand, WalkTo
<1>5. RefsHand(p, s, None)
  BY <1>1, <1>2, <1>3, <1>b, HandRefs DEF TableStep
<1>6. HandAt(at, s, None)
  BY <1>1, Nones DEF HandAt, HasIp, HasDp
<1>7. at \in Arrivals /\ pc[p] \in Walking \ {"cwd"}
  BY <1>1 DEF Arrivals, Walking
<1>8. OnPath(at, loc[p].goal, ino'[s].path, ino'[None].path)
  BY <1>1, <1>2 DEF OnPath
<1> QED  BY <1>1, <1>3, <1>4, <1>5, <1>6, <1>7, <1>8, WalkOn

(* create() has found a file, or what it may not open.                      *)
LEMMA CreateFoundStep ==
  ASSUME IInv, NEW p \in Procs, CreateFound(p)
  PROVE  IInv'
<1>b. loc[p] \in LocRec /\ LRefs(p)
  BY Before
<1>1. pc[p] = "cfound" /\ Locked(p) = None
  BY DEF CreateFound, Locked, Reading
<1> PICK s \in Slots : s = loc[p].ip
  BY <1>1, <1>b DEF LRefs, HasIp, LocRec
<1>2. CASE pc' = [pc EXCEPT ![p] = "alloc"] /\ ilk' = [ilk EXCEPT ![s] = p]
  <2>1. InHand(p, s, "alloc")
    BY <1>1, <1>2 DEF InHand, CreateFound
  <2>2. ilk[s] = None /\ s # None /\ LockAt("alloc", s, None) = s
    BY Nones DEF CreateFound, LockAt
  <2> QED  BY <1>1, <1>2, <2>1, <2>2, LockKinds, InHandStep
<1>3. CASE pc' = [pc EXCEPT ![p] = "put"] /\ UNCHANGED ilk
  <2>1. InHand(p, s, "put")
    BY <1>1, <1>3 DEF InHand, CreateFound
  <2>2. LockAt("put", s, None) = None
    BY DEF LockAt
  <2> QED  BY <1>1, <1>3, <2>1, <2>2, LockKinds, InHandStep
<1> QED  BY <1>2, <1>3 DEF CreateFound, Goto

(* fileopen() and chdir() with the inode of the path.                       *)
LEMMA FoundStep ==
  ASSUME IInv, NEW p \in Procs, Found(p)
  PROVE  IInv'
<1>b. loc[p] \in LocRec /\ LRefs(p)
  BY Before
<1>1. pc[p] = "found" /\ Locked(p) = None
  BY DEF Found, Locked, Reading
<1> PICK s \in Slots : s = loc[p].ip
  BY <1>1, <1>b DEF LRefs, HasIp, LocRec
<1>2. CASE pc' = [pc EXCEPT ![p] = "alloc"] /\ ilk' = [ilk EXCEPT ![s] = p]
  <2>1. InHand(p, s, "alloc")
    BY <1>1, <1>2 DEF InHand, Found
  <2>2. ilk[s] = None /\ s # None /\ LockAt("alloc", s, None) = s
    BY Nones DEF Found, LockAt
  <2> QED  BY <1>1, <1>2, <2>1, <2>2, LockKinds, InHandStep
<1>3. ASSUME NEW at \in {"put", "chput"}, pc' = [pc EXCEPT ![p] = at], UNCHANGED ilk,
             at = "chput" => loc[p].op = "chdir"
      PROVE  IInv'
  <2>1. InHand(p, s, at)
    BY <1>1, <1>3 DEF InHand, Found
  <2>2. LockAt(at, s, None) = None
    BY DEF LockAt
  <2> QED  BY <1>1, <1>3, <2>1, <2>2, LockKinds, InHandStep
<1>4. CASE pc' = [pc EXCEPT ![p] = "put"] /\ UNCHANGED ilk
  BY <1>3, <1>4
<1>5. CASE pc' = [pc EXCEPT ![p] = "chput"] /\ UNCHANGED ilk /\ loc[p].op = "chdir"
  BY <1>3, <1>5
<1> QED  BY <1>2, <1>4, <1>5 DEF Found, Goto

(* No file or descriptor is free.                                           *)
LEMMA OpenFailsStep ==
  ASSUME IInv, NEW p \in Procs, OpenFails(p)
  PROVE  IInv'
<1>b. loc[p] \in LocRec /\ LRefs(p)
  BY Before
<1>1. pc[p] = "alloc"
  BY DEF OpenFails
<1> PICK s \in Slots : s = loc[p].ip
  BY <1>1, <1>b DEF LRefs, HasIp, LocRec
<1>2. Locked(p) = s /\ ilk' = [ilk EXCEPT ![s] = None]
  BY <1>1 DEF OpenFails, Locked
<1>3. InHand(p, s, "put")
  BY <1>1 DEF InHand, OpenFails, Goto
<1>4. LockAt("put", s, None) = None
  BY DEF LockAt
<1> QED  BY <1>2, <1>3, <1>4, LockKinds, InHandStep

(* icreate(): an entry that has appeared for the path, or a new one.        *)
LEMMA IcreateStep ==
  ASSUME IInv, NEW p \in Procs, Icreate(p), ~Panics(p)
  PROVE  IInv'
<1>b. /\ TableType /\ InvTable /\ Held /\ loc[p] \in LocRec /\ LRefs(p) /\ LOps(p) /\ LPath(p)
  BY Before
<1>1. pc[p] = "icreate" /\ ilk' = ilk
  BY DEF Icreate
<1>2. loc[p].ip = None /\ loc[p].dp # None
  BY <1>1, <1>b DEF LRefs, HasIp, HasDp
<1> PICK d \in Slots : d = loc[p].dp
  BY <1>2, <1>b DEF LocRec
<1> PICK q : q = loc[p].goal
  OBVIOUS
<1>3. q \in Paths \ {Root} /\ Parent[q] = ino[d].path
  BY <1>1, <1>b DEF LOps, LPath, Walking, DpPath
<1> PICK k : k = NewKind(p)
  OBVIOUS
<1>4. k \in {"file", "dir"} /\ ~TableFull(q) /\ (EntriesOf(q) = {} => FatCreates(q, k))
  <2>1. ~NoInodes(p) /\ ~CreateFails(p)
    BY DEF Panics
  <2> QED  BY <1>1, <2>1 DEF NewKind, NoInodes, CreateFails
<1> PICK s : s = IF EntriesOf(q) # {} THEN Min(EntriesOf(q)) ELSE Min(FreeEntries)
  OBVIOUS
<1>5. /\ \/ EntriesOf(q) # {} /\ ino' = Referenced(s) /\ disk' = disk
         \/ /\ EntriesOf(q) = {} /\ disk' = [disk EXCEPT ![q] = k]
            /\ ino' = [ino EXCEPT ![s] = Fresh(q, k)]
      /\ loc' = [loc EXCEPT ![p] = [loc[p] EXCEPT !.ip = s]]
  BY DEF Icreate, Locals
<1>6. s \in Slots /\ TableStep /\ Adds(s) /\ ino'[s].path = q
  <2>1. EntriesOf(q) \in SUBSET Nat /\ FreeEntries \in SUBSET Nat
    BY Nones DEF EntriesOf, FreeEntries
  <2>2. CASE EntriesOf(q) # {}
    <3>1. s \in EntriesOf(q)
      BY <2>1, <2>2, MinIsIn
    <3>2. s \in Slots /\ Live(s) /\ ino[s].path = q
      BY <3>1 DEF EntriesOf
    <3>3. ino' = Referenced(s) /\ disk' = disk
      BY <1>5, <2>2
    <3> QED  BY <1>b, <3>2, <3>3, ReferencedIs
  <2>3. CASE EntriesOf(q) = {}
    <3>1. s \in FreeEntries
      BY <1>4, <2>1, <2>3, MinIsIn DEF TableFull
    <3>2. s \in Slots /\ ~Live(s)
      BY <3>1 DEF FreeEntries
    <3>3. ino' = [ino EXCEPT ![s] = Fresh(q, k)] /\ disk' = [disk EXCEPT ![q] = k]
      BY <1>5, <2>3
    <3>4. FatCreates(q, k)
      BY <1>4, <2>3
    <3> QED  BY <1>3, <1>4, <1>b, <2>3, <3>2, <3>3, <3>4, IcreateIs
  <2> QED  BY <2>2, <2>3
<1>7. pc[p] \in Walking \ {"cwd"} /\ Locked(p) = d
  BY <1>1 DEF Walking, Locked
<1>8. WalkTo(p, "newlock", s, d)
  <2>1. [loc[p] EXCEPT !.ip = s] = [loc[p] EXCEPT !.ip = s, !.dp = d]
    BY <1>b DEF LocRec
  <2> QED  BY <1>5, <2>1 DEF Icreate, WalkTo, Goto
<1>9. RefsHand(p, s, d)
  BY <1>2, <1>6, <1>b, HandRefs DEF TableStep
<1>10. HandAt("newlock", s, d)
  BY <1>6, Nones DEF HandAt, HasIp, HasDp
<1>11. LockMoves(p, d) /\ ilk' \in [Slots -> Procs \cup {None}]
  BY <1>1, <1>7, LockKinds
<1>12. LockAt("newlock", s, d) = d
  BY DEF LockAt
<1>13. "newlock" \in Arrivals /\ "newlock" # "chput" /\ s \in Slots \cup {None}
  BY <1>6 DEF Arrivals
<1>14. ino'[d].path = ino[d].path
  <2>1. Live(d) /\ ino[d].ref \in Nat /\ ino'[d].ref = ino[d].ref + One(d = s)
    BY <1>6, <1>b DEF Held, Adds, TableType, InoRec
  <2>2. Live(d)'
    BY <2>1 DEF Live, One
  <2> QED  BY <1>6, <2>1, <2>2 DEF TableStep, Kept
<1>15. OnPath("newlock", loc[p].goal, ino'[s].path, ino'[d].path)
  BY <1>3, <1>6, <1>14 DEF OnPath
<1> QED  BY <1>6, <1>7, <1>8, <1>9, <1>10, <1>11, <1>12, <1>13, <1>15, WalkOn

(* The new inode is locked before its directory is let go.                  *)
LEMMA LockNewStep ==
  ASSUME IInv, NEW p \in Procs, LockNew(p)
  PROVE  IInv'
<1>b. /\ Typed /\ TableType /\ InvTable /\ loc[p] \in LocRec /\ LRefs(p) /\ LOps(p) /\ LPath(p)
      /\ \A t \in Slots : ilk[t] = p <=> Locked(p) = t
  BY Before
<1>1. pc[p] = "newlock" /\ ino' = ino /\ disk' = disk
  BY DEF LockNew
<1>2. loc[p].ip # None /\ loc[p].dp # None
  BY <1>1, <1>b DEF LRefs, HasIp, HasDp
<1> PICK d \in Slots : d = loc[p].dp
  BY <1>2, <1>b DEF LocRec
<1> PICK s \in Slots : s = loc[p].ip
  BY <1>2, <1>b DEF LocRec
<1> PICK q : q = loc[p].goal
  OBVIOUS
<1>3. q \in Paths \ {Root} /\ Parent[q] = ino[d].path /\ ino[s].path = q
  BY <1>1, <1>b DEF LOps, LPath, Walking, DpPath, IpPath
<1>4. s # d
  BY <1>3, BelowRoot
<1>5. TableStep /\ Same
  BY <1>1, <1>b, UntouchedIs
<1>6. WalkTo(p, "newput", s, d)
  <2>1. loc[p] = [loc[p] EXCEPT !.ip = s, !.dp = d]
    BY <1>b DEF LocRec
  <2>2. loc' = [loc EXCEPT ![p] = loc[p]]
    BY <1>b DEF LockNew, Typed
  <2> QED  BY <2>1, <2>2 DEF LockNew, WalkTo, Goto
<1>7. RefsHand(p, s, d)
  BY <1>5, <1>b, HandRefs DEF TableStep
<1>8. HandAt("newput", s, d)
  BY Nones DEF HandAt, HasIp, HasDp
<1>9. LockMoves(p, s) /\ ilk' \in [Slots -> Procs \cup {None}]
  <2>1. /\ ilk \in [Slots -> Procs \cup {None}] /\ Locked(p) = d
        /\ ilk' = [ilk EXCEPT ![s] = p, ![d] = None] /\ ilk[s] = None
    BY <1>1, <1>b DEF Locked, LockNew, Typed
  <2>2. ilk' \in [Slots -> Procs \cup {None}]
    BY <2>1
  <2>3. ASSUME NEW t \in Slots
        PROVE  ilk'[t] = IF t = s THEN p ELSE IF ilk[t] = p THEN None ELSE ilk[t]
    <3>1. ilk[t] = p <=> t = d
      BY <1>b, <2>1
    <3> QED  BY <1>4, <2>1, <3>1
  <2> QED  BY <2>1, <2>2, <2>3 DEF LockMoves
<1>10. LockAt("newput", s, d) = s
  BY DEF LockAt
<1>11. "newput" \in Arrivals /\ "newput" # "chput" /\ pc[p] \in Walking \ {"cwd"}
  BY <1>1 DEF Arrivals, Walking
<1>12. OnPath("newput", loc[p].goal, ino'[s].path, ino'[d].path)
  BY <1>1, <1>3 DEF OnPath
<1> QED  BY <1>5, <1>6, <1>7, <1>8, <1>9, <1>10, <1>11, <1>12, WalkOn

(* ... and the directory given back.                                        *)
LEMMA NewPutStep ==
  ASSUME IInv, NEW p \in Procs, NewPut(p), ~Panics(p)
  PROVE  IInv'
<1>b. /\ TableType /\ InvTable /\ Held /\ loc[p] \in LocRec /\ LRefs(p) /\ LOps(p) /\ LPath(p)
  BY Before
<1>1. pc[p] = "newput"
  BY DEF NewPut
<1>2. loc[p].ip # None /\ loc[p].dp # None
  BY <1>1, <1>b DEF LRefs, HasIp, HasDp
<1> PICK d \in Slots : d = loc[p].dp
  BY <1>2, <1>b DEF LocRec
<1> PICK s \in Slots : s = loc[p].ip
  BY <1>2, <1>b DEF LocRec
<1>3. ino[s].path = loc[p].goal
  BY <1>1, <1>b DEF LPath, IpPath
<1>4. TableStep /\ Drops(d)
  <2>1. Live(d)
    BY <1>b DEF Held
  <2>2. PutAt(p) = d /\ PutInode(d)
    BY <1>1 DEF PutAt, NewPut
  <2> QED  BY <1>b, <2>1, <2>2, GivesBack
<1>5. pc[p] \in Walking \ {"cwd"} /\ Locked(p) = s
  BY <1>1 DEF Walking, Locked
<1>6. RefsHand(p, s, None)
  BY <1>4, <1>b, HandRefs DEF TableStep
<1>7. ASSUME NEW at \in {"put", "alloc"}, pc' = [pc EXCEPT ![p] = at],
             LockMoves(p, LockAt(at, s, None)), ilk' \in [Slots -> Procs \cup {None}]
      PROVE  IInv'
  <2>1. WalkTo(p, at, s, None)
    <3>1. [loc[p] EXCEPT !.dp = None] = [loc[p] EXCEPT !.ip = s, !.dp = None]
      BY <1>b DEF LocRec
    <3> QED  BY <1>7, <3>1 DEF NewPut, WalkTo, Locals
  <2>2. HandAt(at, s, None)
    BY Nones DEF HandAt, HasIp, HasDp
  <2>3. at \in Arrivals /\ at # "chput"
    BY DEF Arrivals
  <2>4. ino'[s].path = ino[s].path
    BY <1>4, <1>5, <1>6, <1>7, <2>1, <2>3, WalkPaths
  <2>5. OnPath(at, loc[p].goal, ino'[s].path, ino'[None].path)
    BY <1>3, <2>4 DEF OnPath
  <2> QED  BY <1>4, <1>5, <1>6, <1>7, <2>1, <2>2, <2>3, <2>5, WalkOn
<1>8. CASE pc' = [pc EXCEPT ![p] = "put"] /\ ilk' = [ilk EXCEPT ![s] = None]
  <2>1. LockAt("put", s, None) = None
    BY DEF LockAt
  <2> QED  BY <1>5, <1>7, <1>8, <2>1, LockKinds
<1>9. CASE pc' = [pc EXCEPT ![p] = "alloc"] /\ ilk' = ilk
  <2>1. LockAt("alloc", s, None) = s
    BY DEF LockAt
  <2> QED  BY <1>5, <1>7, <1>9, <2>1, LockKinds
<1> QED  BY <1>8, <1>9 DEF NewPut, Goto
-----------------------------------------------------------------------------
(* Steps with an open file, and those of exit() that move no file.         *)

(* What p itself keeps, in the words of the invariant.                      *)
LEMMA FdKept ==
  ASSUME IInv, TypeOK', Held', Kept, FilesKept, NEW p \in Procs,
         NEW d \in Fds, fds[p][d] # None, fds'[p][d] = fds[p][d]
  PROVE  /\ InodeOf(p, d)' = InodeOf(p, d) /\ InodeOf(p, d) \in Slots /\ Live(InodeOf(p, d))
         /\ ino'[InodeOf(p, d)'].path = ino[InodeOf(p, d)].path
<1>1. Held /\ Typed
  BY Before
<1>2. fds \in [Procs -> [Fds -> FileSlots \cup {None}]]
  BY <1>1 DEF Typed
<1> PICK f \in FileSlots : f = fds[p][d]
  BY <1>2
<1>3. file[f].ref > 0 /\ file'[f].ref > 0
  BY <1>1 DEF Held
<1>4. file'[f].ip = file[f].ip
  BY <1>3 DEF FilesKept
<1>5. file[f].ip \in Slots
  <2>1. file[f].ref # 0
    BY <1>3
  <2> QED  BY <2>1, <1>1 DEF Typed, IInv, InvFile, FileRec
<1>6. Live(file[f].ip) /\ Live(file[f].ip)'
  BY <1>1, <1>4, <1>5 DEF Held
<1> QED  BY <1>4, <1>5, <1>6 DEF InodeOf, Kept

(* ilock() of an open file; fileread() and mmap() then want a page.         *)
LEMMA ReadStep ==
  ASSUME IInv, NEW p \in Procs, Read(p)
  PROVE  IInv'
<1>b. /\ Typed /\ TableType /\ InvTable /\ loc[p] \in LocRec
      /\ cwd[p] \in Slots \cup {None} /\ LRefs(p) /\ LCwd(p)
      /\ \A t \in Slots : ilk[t] = p <=> Locked(p) = t
  BY Before
<1>1. /\ pc[p] = "idle" /\ Quiet /\ ino' = ino /\ disk' = disk /\ ilk' = ilk
  <2>1. calls \in Nat /\ calls' = calls + 1
    BY <1>b DEF Read, Typed
  <2>2. calls' \in Nat
    BY <2>1
  <2> QED  BY <2>2 DEF Read, Quiet
<1> PICK d \in Fds \ FreeFds(p) : Locals(p, [NoLocals EXCEPT !.op = "read", !.fd = d])
  BY DEF Read
<1>2. fds[p][d] # None
  BY DEF FreeFds
<1> PICK l : l = [NoLocals EXCEPT !.op = "read", !.fd = d]
  OBVIOUS
<1>3. /\ l \in LocRec /\ l.op = "read" /\ l.fd = d /\ l.fd1 = None /\ l.ip = None
      /\ l.dp = None /\ l.child = None /\ l.abs = FALSE
  BY DEF NoLocals, LocRec, OpNames, Ops
<1> PICK c \in Slots \cup {None} : c = cwd[p]
  BY <1>b
<1>4. Moves(p, "read", l, c) /\ "read" \in Points
  BY <1>b DEF Read, Goto, Locals, Moves, Points, TablePoints, InodePoints, Typed
<1>5. loc[p].ip = None /\ loc[p].dp = None
  BY <1>1, <1>b DEF LRefs, HasIp, HasDp
<1>6. TableStep
  BY <1>b, <1>1, UntouchedIs
<1>7. Moved(p, "read", l, c) /\ TypeOK' /\ RefsExact' /\ Held'
  <2>1. ilk' \in [Slots -> Procs \cup {None}]
    BY <1>b, <1>1 DEF Typed
  <2>2. RefsMove(p, l, c)
    BY <1>1, <1>3, <1>5 DEF RefsMove
  <2> QED  BY <1>1, <1>3, <1>4, <1>6, <2>1, <2>2, OwnRefs
<1>8. pc'[p] = "read" /\ loc'[p] = l /\ cwd'[p] = c /\ fds' = fds
  BY <1>1, <1>7 DEF Moved, Quiet
<1>9. LocalOK(p)'
  <2>1. LRefs(p)' /\ LPath(p)' /\ LGoal(p)'
    BY <1>3, <1>8 DEF LRefs, LPath, LGoal, HasIp, HasDp, Walking
  <2>2. LFds(p)'
    BY <1>2, <1>3, <1>8, Nones DEF LFds, Reading
  <2>3. LOps(p)'
    BY <1>3, <1>8 DEF LOps, Walking
  <2>4. LCwd(p)'
    BY <1>3, <1>8 DEF LCwd, PathOps
  <2> QED  BY <2>1, <2>2, <2>3, <2>4 DEF LocalOK
<1>10. \A t \in Slots : ilk'[t] = p <=> Locked(p)' = t
  <2>1. Locked(p) = None /\ Locked(p)' = None
    BY <1>1, <1>8 DEF Locked, Reading
  <2> QED  BY <2>1, <1>1, <1>b
<1> QED  BY <1>1, <1>3, <1>6, <1>7, <1>9, <1>10, QuietFrame

(* A quiet step is done when p's locals are right and its lock is k.        *)
LEMMA QuietEnd ==
  ASSUME IInv, NEW p \in Procs, NEW at, NEW l, NEW c, Moved(p, at, l, c), Quiet,
         TypeOK', RefsExact', TableStep,
         pc[p] # "dead", pc[p] # "idup", at = "dead" => NoFds(p), l.child = None,
         LocalOK(p)', NEW k \in Slots \cup {None}, LockMoves(p, k), Locked(p)' = k
  PROVE  IInv'
<1>1. \A t \in Slots : ilk'[t] = p <=> Locked(p)' = t
  BY Nones DEF LockMoves
<1>2. ASSUME NEW t \in Slots
      PROVE  ilk'[t] = ilk[t] \/ {ilk[t], ilk'[t]} \subseteq {None, p}
  <2>1. ilk'[t] = IF t = k THEN p ELSE IF ilk[t] = p THEN None ELSE ilk[t]
    BY DEF LockMoves
  <2>2. k # None => ilk[k] \in {None, p}
    BY DEF LockMoves
  <2>3. t # None
    BY Nones
  <2> QED  BY <2>1, <2>2, <2>3
<1> QED  BY <1>1, <1>2, QuietFrame

(* What p wants to do after the walk stays as it was.                       *)
LEMMA GoalKept ==
  ASSUME IInv, TypeOK', Held', Kept, FilesKept, NEW p \in Procs, fds' = fds,
         NEW l \in LocRec, loc'[p] = l, SameCall(p, l), pc'[p] \notin Walking
  PROVE  LGoal(p)'
<1>1. LGoal(p) /\ LFds(p)
  BY Before
<1>2. l.op = "rename" => {l.goal, l.goal2} \subseteq Paths \ Dirs
  BY <1>1 DEF LGoal, SameCall
<1>3. l.fd1 # None => ino'[InodeOf(p, l.fd1)'].path # Root
  <2> SUFFICES ASSUME l.fd1 # None PROVE ino'[InodeOf(p, l.fd1)'].path # Root
    OBVIOUS
  <2> PICK d : d = l.fd1
    OBVIOUS
  <2>1. d \in Fds /\ fds[p][d] # None /\ ino[InodeOf(p, d)].path # Root
    BY <1>1 DEF LFds, LGoal, SameCall, LocRec
  <2>2. ino'[InodeOf(p, d)'].path = ino[InodeOf(p, d)].path
    BY <2>1, FdKept
  <2> QED  BY <2>1, <2>2
<1> QED  BY <1>2, <1>3 DEF LGoal

(* An open file has an inode that is in use.                                *)
LEMMA OpenInode ==
  ASSUME IInv, NEW p \in Procs, NEW d \in Fds, fds[p][d] # None
  PROVE  /\ InodeOf(p, d) \in Slots /\ Live(InodeOf(p, d)) /\ fds[p][d] \in FileSlots
         /\ file[fds[p][d]].ref > 0
<1>1. Held /\ Typed
  BY Before
<1>2. fds \in [Procs -> [Fds -> FileSlots \cup {None}]]
  BY <1>1 DEF Typed
<1> PICK f \in FileSlots : f = fds[p][d]
  BY <1>2
<1>3. file[f].ref > 0
  BY <1>1 DEF Held
<1>4. file[f].ip \in Slots
  <2>1. file[f].ref # 0
    BY <1>3
  <2> QED  BY <2>1, <1>1 DEF Typed, IInv, InvFile, FileRec
<1> QED  BY <1>1, <1>3, <1>4 DEF Held, InodeOf

(* p moves from one point with an open file to another.                     *)
FilePoints == {"mark", "rename", "close", "close1", "read", "page", "pageadd"}
FileMove(p, at, l) ==
  /\ pc' = [pc EXCEPT ![p] = at] /\ loc' = [loc EXCEPT ![p] = l]
  /\ UNCHANGED <<fds, file, cwd, cached, calls, panicked>>
  /\ SameCall(p, l) /\ l.ip = loc[p].ip /\ l.dp = None
FileAt(at, l) == /\ at \in {"close", "read", "page", "pageadd"} => l.fd # None
                 /\ at \in {"read", "page", "pageadd"} => l.op = "read"
                 /\ at \in {"rename", "close1"} => l.fd1 # None

(* Such a move keeps the invariant when lock and references go with it.     *)
LEMMA FileMoveStep ==
  ASSUME IInv, NEW p \in Procs, NEW at \in FilePoints \ {"mark"}, NEW l \in LocRec,
         FileMove(p, at, l), FileAt(at, l),
         pc[p] \in FilePoints \cup {"evict"}, loc[p].op # "flush",
         TableStep, RefsMove(p, l, cwd[p]),
         NEW k \in Slots \cup {None}, LockMoves(p, k),
         ilk' \in [Slots -> Procs \cup {None}],
         k = IF at \in {"page", "pageadd"} THEN InodeOf(p, l.fd) ELSE None
  PROVE  IInv'
<1>b. /\ Typed /\ loc[p] \in LocRec /\ cwd[p] \in Slots \cup {None}
      /\ LRefs(p) /\ LFds(p) /\ LOps(p) /\ LCwd(p) /\ LGoal(p)
  BY Before
<1>m. /\ SameCall(p, l) /\ l.ip = loc[p].ip /\ l.dp = None
      /\ fds' = fds /\ file' = file /\ cwd' = cwd
  BY DEF FileMove
<1> PICK c \in Slots \cup {None} : c = cwd[p]
  BY <1>b
<1>1. Moves(p, at, l, c) /\ Quiet /\ at \in Points
  BY <1>b DEF FileMove, Moves, Quiet, Typed, Points, TablePoints, InodePoints, FilePoints
<1>2. Moved(p, at, l, c) /\ TypeOK' /\ RefsExact' /\ Held'
  <2>1. RefsMove(p, l, c)
    OBVIOUS
  <2> QED  BY <1>1, <2>1, OwnRefs
<1>3. pc'[p] = at /\ loc'[p] = l /\ cwd'[p] = c
  BY <1>2 DEF Moved
<1>4. Kept /\ FilesKept
  BY <1>m DEF TableStep, FilesKept
<1>5. LGoal(p)'
  <2>1. at \notin Walking
    BY DEF FilePoints, Walking
  <2> QED  BY <1>2, <1>3, <1>4, <1>m, <2>1, GoalKept
<1>6. at \notin {"walkput", "idle", "dead", "evict", "exit", "exitcwd", "chput", "flush",
                 "idup", "cwd", "mark"}
      /\ at \notin HasIp \cup HasDp \cup Walking
  BY DEF FilePoints, HasIp, HasDp, Walking
<1>7. l.ip = None
  <2>1. pc[p] \notin HasIp /\ pc[p] # "walkput"
    BY DEF FilePoints, HasIp
  <2> QED  BY <2>1, <1>m, <1>b DEF LRefs
<1>8. LRefs(p)'
  BY <1>3, <1>6, <1>7, <1>m DEF LRefs
<1>9. LFds(p)'
  BY <1>3, <1>6, <1>m, <1>b DEF LFds, Reading, SameCall, FileAt
<1>10. l.child = None /\ l.op # "exit" /\ l.op # "flush"
  <2>1. pc[p] \notin {"idup", "exit", "exitcwd", "put"}
    BY DEF FilePoints
  <2> QED  BY <2>1, <1>m, <1>b DEF LOps, SameCall
<1>11. LOps(p)'
  BY <1>3, <1>6, <1>10 DEF LOps, FileAt
<1>12. LCwd(p)'
  <2>1. pc[p] # "cwd"
    BY DEF FilePoints
  <2> QED  BY <2>1, <1>3, <1>6, <1>m, <1>b DEF LCwd, SameCall
<1>13. LPath(p)'
  BY <1>3, <1>6 DEF LPath, HasIp, HasDp, Walking
<1>14. LocalOK(p)'
  BY <1>5, <1>8, <1>9, <1>11, <1>12, <1>13 DEF LocalOK
<1>15. Locked(p)' = k
  <2>1. at \notin {"lookup", "clookup", "icreate", "newlock", "newput", "alloc"}
    BY DEF FilePoints
  <2>2. Reading(p)' <=> at \in {"page", "pageadd"}
    BY <1>3, <1>6 DEF Reading
  <2>3. InodeOf(p, l.fd)' = InodeOf(p, l.fd)
    BY <1>m DEF InodeOf
  <2> QED  BY <1>3, <2>1, <2>2, <2>3 DEF Locked
<1>16. pc[p] # "dead" /\ pc[p] # "idup" /\ at # "dead"
  BY <1>6 DEF FilePoints
<1> QED  BY <1>1, <1>2, <1>10, <1>14, <1>15, <1>16, QuietEnd

(* ilock() of the file to read.                                             *)
LEMMA ReadLockStep ==
  ASSUME IInv, NEW p \in Procs, ReadLock(p)
  PROVE  IInv'
<1>b. /\ Typed /\ TableType /\ InvTable /\ loc[p] \in LocRec /\ LRefs(p) /\ LFds(p) /\ LOps(p)
  BY Before
<1>1. /\ pc[p] = "read" /\ ino' = ino /\ disk' = disk
      /\ ilk' = [ilk EXCEPT ![InodeOf(p, loc[p].fd)] = p]
      /\ ilk[InodeOf(p, loc[p].fd)] = None
  BY DEF ReadLock
<1>2. loc[p].fd \in Fds /\ fds[p][loc[p].fd] # None
  BY <1>1, <1>b DEF LFds, LocRec
<1>3. TableStep /\ Same
  BY <1>1, <1>b, UntouchedIs
<1> PICK s : s = InodeOf(p, loc[p].fd)
  OBVIOUS
<1>4. s \in Slots
  BY <1>2, OpenInode
<1> PICK l : l = loc[p]
  OBVIOUS
<1>5. l \in LocRec /\ l.dp = None
  BY <1>1, <1>b DEF LRefs, HasDp
<1>6. FileMove(p, "page", l)
  <2>1. loc' = [loc EXCEPT ![p] = l]
    BY <1>b DEF ReadLock, Typed
  <2> QED  BY <1>5, <2>1 DEF ReadLock, FileMove, SameCall, Goto
<1>7. FileAt("page", l) /\ "page" \in FilePoints \ {"mark"}
  BY <1>1, <1>2, <1>b, Nones DEF FileAt, FilePoints, LOps
<1>8. RefsMove(p, l, cwd[p])
  BY <1>3 DEF RefsMove, Same
<1>9. LockMoves(p, s) /\ ilk' \in [Slots -> Procs \cup {None}]
  <2>1. Locked(p) = None
    BY <1>1 DEF Locked, Reading
  <2>2. s # None
    BY <1>4, Nones
  <2> QED  BY <1>1, <1>4, <2>1, <2>2, LockKinds
<1>10. pc[p] \in FilePoints \cup {"evict"} /\ loc[p].op # "flush"
  BY <1>1, <1>b DEF FilePoints, LOps
<1>11. s = IF "page" \in {"page", "pageadd"} THEN InodeOf(p, l.fd) ELSE None
  OBVIOUS
<1> QED  BY <1>3, <1>4, <1>5, <1>6, <1>7, <1>8, <1>9, <1>10, <1>11, FileMoveStep

(* fileunlink() notes it, *)
LEMMA MarkUnlinkedStep ==
  ASSUME IInv, NEW p \in Procs, MarkUnlinked(p)
  PROVE  IInv'
<1>b. /\ Typed /\ TableType /\ InvTable /\ loc[p] \in LocRec /\ LRefs(p) /\ LFds(p) /\ LOps(p)
  BY Before
<1>1. /\ pc[p] = "mark" /\ ilk' = ilk /\ disk' = disk
      /\ ino' = [ino EXCEPT ![InodeOf(p, loc[p].fd)].unlinked = TRUE]
  BY DEF MarkUnlinked
<1>2. loc[p].fd \in Fds /\ fds[p][loc[p].fd] # None
  BY <1>1, <1>b DEF LFds, LocRec
<1> PICK s : s = InodeOf(p, loc[p].fd)
  OBVIOUS
<1>3. s \in Slots /\ Live(s)
  BY <1>2, OpenInode
<1> PICK q : q = ino[s].newPath
  OBVIOUS
<1>4. q \in Paths \cup {None} /\ (q # None => ino[s].path # Root)
  BY <1>3, <1>b DEF TableType, InoRec, InvTable, EntryOK
<1>5. TableStep /\ Same
  <2>1. ino' = [ino EXCEPT ![s].unlinked = TRUE] /\ q = ino[s].newPath
    BY <1>1
  <2> QED  BY <1>1, <1>3, <1>4, <1>b, <2>1, NotedIs
<1> PICK l : l = [loc[p] EXCEPT !.marked = TRUE]
  OBVIOUS
<1>6. /\ l \in LocRec /\ l.op = loc[p].op /\ l.goal = loc[p].goal /\ l.goal2 = loc[p].goal2
      /\ l.fd = loc[p].fd /\ l.fd1 = loc[p].fd1 /\ l.child = loc[p].child
      /\ l.ip = loc[p].ip /\ l.dp = loc[p].dp /\ loc[p].dp = None
  BY <1>1, <1>b DEF LocRec, LRefs, HasDp
<1>7. FileMove(p, "close", l)
  BY <1>6 DEF MarkUnlinked, FileMove, SameCall, Goto, Locals
<1>8. FileAt("close", l) /\ "close" \in FilePoints \ {"mark"}
  BY <1>2, <1>6, Nones DEF FileAt, FilePoints
<1>9. RefsMove(p, l, cwd[p])
  BY <1>5, <1>6 DEF RefsMove, Same
<1>10. LockMoves(p, None) /\ ilk' \in [Slots -> Procs \cup {None}]
  <2>1. Locked(p) = None
    BY <1>1 DEF Locked, Reading
  <2> QED  BY <1>1, <2>1, LockKinds
<1>11. pc[p] \in FilePoints \cup {"evict"} /\ loc[p].op # "flush"
  BY <1>1, <1>b DEF FilePoints, LOps
<1>12. None = IF "close" \in {"page", "pageadd"} THEN InodeOf(p, l.fd) ELSE None
  OBVIOUS
<1> QED  BY <1>5, <1>6, <1>7, <1>8, <1>9, <1>10, <1>11, <1>12, FileMoveStep

(* ... and filerename() too.                                                *)
LEMMA NoteNewPathStep ==
  ASSUME IInv, NEW p \in Procs, NoteNewPath(p)
  PROVE  IInv'
<1>b. /\ Typed /\ TableType /\ InvTable /\ loc[p] \in LocRec
      /\ LRefs(p) /\ LFds(p) /\ LOps(p) /\ LGoal(p)
  BY Before
<1>1. /\ pc[p] = "rename" /\ ilk' = ilk /\ disk' = disk
      /\ ino' = [ino EXCEPT ![InodeOf(p, loc[p].fd1)].newPath = loc[p].goal2]
  BY DEF NoteNewPath
<1>2. /\ loc[p].fd1 \in Fds /\ fds[p][loc[p].fd1] # None /\ loc[p].fd1 # None
      /\ ino[InodeOf(p, loc[p].fd1)].path # Root
  BY <1>1, <1>b DEF LFds, LocRec, LGoal
<1> PICK s : s = InodeOf(p, loc[p].fd1)
  OBVIOUS
<1>3. s \in Slots /\ Live(s)
  BY <1>2, OpenInode
<1> PICK q : q = loc[p].goal2
  OBVIOUS
<1>4. q \in Paths \cup {None} /\ ino[s].path # Root
  BY <1>2, <1>b DEF LocRec
<1>5. TableStep /\ Same
  <2>1. ino' = [ino EXCEPT ![s].newPath = q]
    BY <1>1
  <2> QED  BY <1>1, <1>3, <1>4, <1>b, <2>1, NotedIs
<1> PICK l : l = loc[p]
  OBVIOUS
<1>6. l \in LocRec /\ l.dp = None
  BY <1>1, <1>b DEF LRefs, HasDp
<1>7. FileMove(p, "close1", l)
  <2>1. loc' = [loc EXCEPT ![p] = l]
    BY <1>b DEF NoteNewPath, Typed
  <2> QED  BY <1>6, <2>1 DEF NoteNewPath, FileMove, SameCall, Goto
<1>8. FileAt("close1", l) /\ "close1" \in FilePoints \ {"mark"}
  BY <1>2 DEF FileAt, FilePoints
<1>9. RefsMove(p, l, cwd[p])
  BY <1>5 DEF RefsMove, Same
<1>10. LockMoves(p, None) /\ ilk' \in [Slots -> Procs \cup {None}]
  <2>1. Locked(p) = None
    BY <1>1 DEF Locked, Reading
  <2> QED  BY <1>1, <2>1, LockKinds
<1>11. pc[p] \in FilePoints \cup {"evict"} /\ loc[p].op # "flush"
  BY <1>1, <1>b DEF FilePoints, LOps
<1>12. None = IF "close1" \in {"page", "pageadd"} THEN InodeOf(p, l.fd) ELSE None
  OBVIOUS
<1> QED  BY <1>5, <1>6, <1>7, <1>8, <1>9, <1>10, <1>11, <1>12, FileMoveStep
-----------------------------------------------------------------------------
(* Steps that move a file or a page.                                       *)

(* In the file f, and in entry e of the page cache, something may change.   *)
LEMMA AllRefs ==
  ASSUME IInv, NEW p \in Procs, NEW at \in Points, NEW l \in LocRec,
         NEW c \in Slots \cup {None}, Moves(p, at, l, c), TableStep,
         NEW f \in FileSlots, NEW e \in Entries,
         \A g \in FileSlots \ {f} : file'[g].ip = file[g].ip,
         \A d \in Entries \ {e} : cached'[d] = cached[d],
         file' \in [FileSlots -> FileRec],
         fds' \in [Procs -> [Fds -> FileSlots \cup {None}]],
         cached' \in [Entries -> Slots \cup {None}],
         ilk' \in [Slots -> Procs \cup {None}],
         calls' = calls, panicked' = panicked,
         \A g \in FileSlots : file'[g].ref = Cardinality(FileHolders(g)'),
         \A s \in Slots : ino'[s].ref + Part(p, p, f, e, s)
                            = ino[s].ref + Part(p, p, f, e, s)'
  PROVE  Moved(p, at, l, c) /\ TypeOK' /\ RefsExact' /\ Held'
<1>1. /\ Moved(p, at, l, c)
      /\ pc' \in [Procs -> Points] /\ loc' \in [Procs -> LocRec]
      /\ cwd' \in [Procs -> Slots \cup {None}]
  BY MovedIs DEF IInv
<1>2. TypeOK'
  <2>1. /\ TableType' /\ calls' \in Nat
        /\ panicked' \in {"no", "iget: no inodes", "ilock", "iput: f_rename failed",
                          "noff"}
    BY Types DEF Typed, IInv, TableStep
  <2> QED  BY <1>1, <2>1, TypesNext DEF Typed
<1>3. RefsExact'
  <2>1. \A q \in Procs \ {p} : loc'[q] = loc[q] /\ cwd'[q] = cwd[q]
    BY <1>1 DEF Moved
  <2>2. RefsExact /\ TableType /\ TableType'
    BY Types, TypesNext, <1>2 DEF IInv, Typed
  <2>3. \A s \in Slots : ino'[s].ref = InodeHolders(s)'
    BY <2>1, <2>2, InodeRefs
  <2> QED  BY <2>3 DEF RefsExact
<1>4. Held'
  BY <1>3, HeldIs, PTL
<1> QED  BY <1>1, <1>2, <1>3, <1>4

(* ... in the page cache only: entry e has then v.                          *)
PageMove(e, v) == /\ cached' = [cached EXCEPT ![e] = v]
                  /\ UNCHANGED <<file, fds, calls, panicked>>
RefsPage(p, l, e, v) ==
  \A s \in Slots :
    ino'[s].ref + (One(loc[p].ip = s) + One(loc[p].dp = s) + One(cached[e] = s))
      = ino[s].ref + (One(l.ip = s) + One(l.dp = s) + One(v = s))

(* The counts stay exact when they follow the page.                         *)
LEMMA PageRefs ==
  ASSUME IInv, NEW p \in Procs, NEW at \in Points, NEW l \in LocRec,
         NEW c, c = cwd[p], Moves(p, at, l, c), TableStep,
         NEW e \in Entries, NEW v \in Slots \cup {None}, PageMove(e, v),
         ilk' \in [Slots -> Procs \cup {None}], RefsPage(p, l, e, v)
  PROVE  /\ Moved(p, at, l, c) /\ TypeOK' /\ RefsExact' /\ Held' /\ FilesKept /\ InvFile'
<1>b. Typed /\ cwd[p] \in Slots \cup {None}
  BY Before
<1>1. c \in Slots \cup {None}
  BY <1>b
<1> PICK f \in FileSlots : TRUE
  <2>1. 0 \in FileSlots
    BY FilesAssumption DEF FileSlots
  <2> QED  BY <2>1
<1>2. /\ file' = file /\ fds' = fds /\ calls' = calls /\ panicked' = panicked
      /\ cached' \in [Entries -> Slots \cup {None}] /\ cached'[e] = v
      /\ \A d \in Entries \ {e} : cached'[d] = cached[d]
  BY <1>b DEF PageMove, Typed
<1>3. \A g \in FileSlots : file'[g].ref = Cardinality(FileHolders(g)')
  BY <1>2 DEF IInv, RefsExact, FileHolders
<1>4. ASSUME NEW s \in Slots
      PROVE  ino'[s].ref + Part(p, p, f, e, s) = ino[s].ref + Part(p, p, f, e, s)'
  <2>1. /\ loc'[p] = l /\ cwd'[p] = c
    BY <1>1, MovedIs DEF IInv, Moved
  <2> PICK i, j, k, x, y, v0, v1, w \in Nat :
        /\ i = One(loc[p].ip = s) /\ j = One(loc[p].dp = s) /\ k = One(cwd[p] = s)
        /\ x = One(l.ip = s) /\ y = One(l.dp = s) /\ v0 = One(cached[e] = s)
        /\ v1 = One(v = s) /\ w = One(file[f].ip = s)
    BY DEF One
  <2>2. Part(p, p, f, e, s) = i + j + k + w + v0
    BY DEF Part
  <2>3. Part(p, p, f, e, s)' = x + y + k + w + v1
    BY <1>2, <2>1 DEF Part
  <2> PICK r0, r1 \in Nat : r0 = ino[s].ref /\ r1 = ino'[s].ref
    BY <1>b DEF Typed, TableStep, TableType, InoRec
  <2>4. r1 + (i + j + v0) = r0 + (x + y + v1)
    BY DEF RefsPage
  <2>5. r1 + (i + j + k + w + v0) = r0 + (x + y + k + w + v1)
    BY <2>4
  <2> QED  BY <2>2, <2>3, <2>5
<1>5. Moved(p, at, l, c) /\ TypeOK' /\ RefsExact' /\ Held'
  <2>1. /\ \A g \in FileSlots \ {f} : file'[g].ip = file[g].ip
        /\ file' \in [FileSlots -> FileRec]
        /\ fds' \in [Procs -> [Fds -> FileSlots \cup {None}]]
    BY <1>2, <1>b DEF Typed
  <2> QED  BY <1>1, <1>2, <1>3, <1>4, <2>1, AllRefs
<1> QED  BY <1>2, <1>5 DEF FilesKept, IInv, InvFile

(* Between calls p relies on nothing, and dead neither.                     *)
LEMMA IdleLocal ==
  ASSUME NEW p \in Procs, NEW at \in {"idle", "dead"}, pc'[p] = at, loc'[p] = NoLocals,
         at = "dead" => cwd'[p] = None
  PROVE  LocalOK(p)' /\ Locked(p)' = None
<1>1. /\ NoLocals.ip = None /\ NoLocals.dp = None /\ NoLocals.child = None
      /\ NoLocals.op = None /\ NoLocals.fd = None /\ NoLocals.fd1 = None
  BY DEF NoLocals
<1>2. None # "flush" /\ None \notin PathOps \cup {"clone", "exit"} /\ None # "rename"
  BY Nones DEF Ops, PathOps
<1>3. ~Reading(p)' /\ Locked(p)' = None
  BY DEF Reading, Locked
<1>4. LRefs(p)' /\ LFds(p)' /\ LOps(p)'
  BY <1>1, <1>2, <1>3 DEF LRefs, LFds, LOps, HasIp, HasDp, Walking
<1>5. LCwd(p)' /\ LGoal(p)' /\ LPath(p)'
  BY <1>1, <1>2 DEF LCwd, LGoal, LPath, Walking
<1> QED  BY <1>3, <1>4, <1>5 DEF LocalOK

(* A page leaves the cache, its inode in the hands of p.                    *)
VictimGoes(p) == /\ pc[p] \in {"page", "flush"} /\ Victim(p) /\ Goto(p, "evict")
                 /\ UNCHANGED <<disk, ino, ilk, file, fds, cwd, calls, panicked>>

(* The reference of the page is then in loc.dp.                             *)
LEMMA VictimStep ==
  ASSUME IInv, NEW p \in Procs, VictimGoes(p)
  PROVE  IInv'
<1>b. /\ Typed /\ TableType /\ InvTable /\ loc[p] \in LocRec /\ cwd[p] \in Slots \cup {None}
      /\ LRefs(p) /\ LFds(p) /\ LOps(p) /\ LCwd(p)
      /\ \A s \in Slots : ilk[s] = p <=> Locked(p) = s
  BY Before
<1>1. /\ pc[p] \in {"page", "flush"} /\ ino' = ino /\ disk' = disk /\ ilk' = ilk
      /\ file' = file /\ fds' = fds /\ cwd' = cwd
  BY DEF VictimGoes
<1> PICK e \in Entries : /\ cached[e] # None /\ cached' = [cached EXCEPT ![e] = None]
                         /\ loc' = [loc EXCEPT ![p] = [loc[p] EXCEPT !.dp = cached[e]]]
  BY DEF VictimGoes, Victim, Locals
<1> PICK v \in Slots : v = cached[e]
  BY <1>b DEF Typed
<1>2. PICK l : l = [loc[p] EXCEPT !.dp = v]
  OBVIOUS
<1>3. loc[p].ip = None /\ loc[p].dp = None
  BY <1>1, <1>b DEF LRefs, HasIp, HasDp
<1>4. /\ l \in LocRec /\ l.op = loc[p].op /\ l.goal = loc[p].goal /\ l.goal2 = loc[p].goal2
      /\ l.fd = loc[p].fd /\ l.fd1 = loc[p].fd1 /\ l.child = loc[p].child
      /\ l.ip = None /\ l.dp = v
  BY <1>2, <1>3, <1>b DEF LocRec
<1>5. TableStep
  BY <1>1, <1>b, UntouchedIs
<1> PICK c : c = cwd[p]
  OBVIOUS
<1>6. Moves(p, "evict", l, c) /\ "evict" \in Points
  BY <1>1, <1>2, <1>b DEF VictimGoes, Goto, Moves, Typed, Points, TablePoints
<1>7. PageMove(e, None)
  BY DEF VictimGoes, PageMove
<1>8. RefsPage(p, l, e, None)
  <2> SUFFICES ASSUME NEW s \in Slots
               PROVE  ino'[s].ref + (One(loc[p].ip = s) + One(loc[p].dp = s) + One(cached[e] = s))
                        = ino[s].ref + (One(l.ip = s) + One(l.dp = s) + One(None = s))
    BY DEF RefsPage
  <2>1. ino[s].ref \in Nat /\ ino'[s].ref = ino[s].ref /\ s # None
    BY <1>1, <1>b, Nones DEF TableType, InoRec
  <2> QED  BY <2>1, <1>3, <1>4 DEF One
<1>9. ilk' \in [Slots -> Procs \cup {None}]
  BY <1>1, <1>b DEF Typed
<1>10. Moved(p, "evict", l, c) /\ TypeOK' /\ RefsExact' /\ Held' /\ FilesKept /\ InvFile'
  BY <1>4, <1>5, <1>6, <1>7, <1>8, <1>9, PageRefs
<1>11. pc'[p] = "evict" /\ loc'[p] = l /\ cwd'[p] = cwd[p]
  BY <1>10 DEF Moved
<1>12. /\ l.child = None /\ l.op \in {"read", "flush"}
       /\ l.op = "read" <=> pc[p] = "page"
  BY <1>1, <1>4, <1>b DEF LOps
<1>13. LRefs(p)' /\ LPath(p)'
  BY <1>4, <1>11, Nones DEF LRefs, LPath, HasIp, HasDp
<1>14. LFds(p)'
  BY <1>1, <1>4, <1>11, <1>12, <1>b DEF LFds, Reading
<1>15. LOps(p)'
  BY <1>1, <1>4, <1>11, <1>12, <1>b DEF LOps, NoFds, Walking
<1>16. LCwd(p)'
  BY <1>11, <1>12 DEF LCwd, PathOps
<1>17. LGoal(p)'
  <2>1. "evict" \notin Walking /\ Kept /\ SameCall(p, l)
    BY <1>4, <1>5 DEF Walking, TableStep, SameCall
  <2> QED  BY <1>1, <1>4, <1>10, <1>11, <2>1, GoalKept
<1>18. Locked(p)' = Locked(p)
  <2>1. Reading(p)' <=> Reading(p)
    BY <1>1, <1>11, <1>12 DEF Reading
  <2>2. InodeOf(p, l.fd)' = InodeOf(p, loc[p].fd)
    BY <1>1, <1>4 DEF InodeOf
  <2> QED  BY <1>1, <1>11, <2>1, <2>2 DEF Locked
<1>19. LocalOK(p)'
  BY <1>13, <1>14, <1>15, <1>16, <1>17 DEF LocalOK
<1>20. \A s \in Slots : ilk'[s] = p <=> Locked(p)' = s
  BY <1>1, <1>18, <1>b
<1>21. /\ \A s \in Slots : ilk'[s] = ilk[s]
       /\ \A q \in Procs \ {p} : fds'[q] = fds[q]
       /\ pc[p] # "dead" /\ pc[p] # "idup"
  BY <1>1
<1> QED  BY <1>5, <1>10, <1>12, <1>19, <1>20, <1>21, Frame

(* A page is there, or an entry for it, or another page has to leave.       *)
LEMMA GetPageStep ==
  ASSUME IInv, NEW p \in Procs, GetPage(p)
  PROVE  IInv'
<1>b. /\ Typed /\ TableType /\ InvTable /\ loc[p] \in LocRec /\ cwd[p] \in Slots \cup {None}
      /\ LRefs(p) /\ LFds(p) /\ LOps(p) /\ LCwd(p)
  BY Before
<1>1. /\ pc[p] = "page" /\ ino' = ino /\ disk' = disk
      /\ file' = file /\ fds' = fds /\ cwd' = cwd /\ calls' = calls /\ panicked' = panicked
  BY DEF GetPage
<1>2. loc[p].fd \in Fds /\ fds[p][loc[p].fd] # None /\ loc[p].ip = None /\ loc[p].dp = None
  BY <1>1, <1>b DEF LFds, LRefs, LocRec, Reading, HasIp, HasDp
<1> PICK s : s = InodeOf(p, loc[p].fd)
  OBVIOUS
<1>3. s \in Slots /\ Locked(p) = s
  BY <1>1, <1>2, OpenInode DEF Locked, Reading
<1>4. TableStep /\ Same
  BY <1>1, <1>b, UntouchedIs
<1>5. CASE ReadEnds(p) /\ UNCHANGED cached
  <2> PICK c \in Slots \cup {None} : c = cwd[p]
    BY <1>b
  <2> PICK l : l = NoLocals
    OBVIOUS
  <2>1. Moves(p, "idle", l, c) /\ Quiet /\ ilk' = [ilk EXCEPT ![s] = None]
    BY <1>1, <1>5, <1>b DEF ReadEnds, Goto, Locals, Moves, Quiet, Typed
  <2>2. l \in LocRec /\ "idle" \in Points /\ l.ip = None /\ l.dp = None /\ l.child = None
    BY DEF NoLocals, LocRec, OpNames, Points
  <2>3. RefsMove(p, l, c)
    BY <1>2, <1>4, <2>2 DEF RefsMove, Same
  <2>4. LockMoves(p, None) /\ ilk' \in [Slots -> Procs \cup {None}]
    BY <1>3, <2>1, LockKinds
  <2>5. Moved(p, "idle", l, c) /\ TypeOK' /\ RefsExact' /\ Held'
    BY <1>4, <2>1, <2>2, <2>3, <2>4, OwnRefs
  <2>6. LocalOK(p)' /\ Locked(p)' = None
    BY <2>5, IdleLocal DEF Moved
  <2> QED  BY <1>1, <1>4, <2>1, <2>2, <2>4, <2>5, <2>6, QuietEnd
<1>6. CASE Goto(p, "pageadd") /\ UNCHANGED <<ilk, cached, loc>>
  <2> PICK l : l = loc[p]
    OBVIOUS
  <2>1. FileMove(p, "pageadd", l)
    BY <1>1, <1>2, <1>6, <1>b DEF FileMove, SameCall, Goto, Typed
  <2>2. FileAt("pageadd", l) /\ "pageadd" \in FilePoints \ {"mark"}
    BY <1>1, <1>2, <1>b, Nones DEF FileAt, FilePoints, LOps
  <2>3. RefsMove(p, l, cwd[p])
    BY <1>4 DEF RefsMove, Same
  <2>4. LockMoves(p, s) /\ ilk' \in [Slots -> Procs \cup {None}]
    BY <1>3, <1>6, LockKinds
  <2>5. pc[p] \in FilePoints \cup {"evict"} /\ loc[p].op # "flush" /\ l \in LocRec
    BY <1>1, <1>b DEF FilePoints, LOps
  <2>6. s = IF "pageadd" \in {"page", "pageadd"} THEN InodeOf(p, l.fd) ELSE None
    OBVIOUS
  <2> QED  BY <1>3, <1>4, <2>1, <2>2, <2>3, <2>4, <2>5, <2>6, FileMoveStep
<1>7. CASE Victim(p) /\ Goto(p, "evict") /\ UNCHANGED ilk
  <2>1. VictimGoes(p)
    BY <1>1, <1>7 DEF VictimGoes
  <2> QED  BY <2>1, VictimStep
<1> QED  BY <1>5, <1>6, <1>7 DEF GetPage

(* What QuietEnd says of locks, for the other steps.                        *)
LEMMA LockEnd ==
  ASSUME NEW p \in Procs, NEW k \in Slots \cup {None}, LockMoves(p, k), Locked(p)' = k
  PROVE  /\ \A t \in Slots : ilk'[t] = ilk[t] \/ {ilk[t], ilk'[t]} \subseteq {None, p}
         /\ \A t \in Slots : ilk'[t] = p <=> Locked(p)' = t
<1>1. \A t \in Slots : ilk'[t] = p <=> Locked(p)' = t
  BY Nones DEF LockMoves
<1>2. ASSUME NEW t \in Slots
      PROVE  ilk'[t] = ilk[t] \/ {ilk[t], ilk'[t]} \subseteq {None, p}
  <2>1. ilk'[t] = IF t = k THEN p ELSE IF ilk[t] = p THEN None ELSE ilk[t]
    BY DEF LockMoves
  <2>2. k # None => ilk[k] \in {None, p}
    BY DEF LockMoves
  <2>3. t # None
    BY Nones
  <2> QED  BY <2>1, <2>2, <2>3
<1> QED  BY <1>1, <1>2

(* The reference of the page that went is given back.                       *)
LEMMA EvictStep ==
  ASSUME IInv, NEW p \in Procs, Evict(p), ~Panics(p)
  PROVE  IInv'
<1>b. /\ Typed /\ TableType /\ InvTable /\ Held /\ loc[p] \in LocRec
      /\ cwd[p] \in Slots \cup {None} /\ LRefs(p) /\ LFds(p) /\ LOps(p) /\ LCwd(p)
  BY Before
<1>1. /\ pc[p] = "evict" /\ ilk' = ilk /\ fds' = fds /\ file' = file /\ cwd' = cwd
      /\ loc' = [loc EXCEPT ![p] = [loc[p] EXCEPT !.dp = None]]
  BY DEF Evict, Locals
<1>2. loc[p].ip = None /\ loc[p].dp # None
  BY <1>1, <1>b DEF LRefs, HasIp, HasDp
<1> PICK d \in Slots : d = loc[p].dp
  BY <1>2, <1>b DEF LocRec
<1>3. TableStep /\ Drops(d)
  <2>1. Live(d)
    BY <1>b DEF Held
  <2>2. PutAt(p) = d /\ PutInode(d)
    BY <1>1 DEF PutAt, Evict
  <2> QED  BY <1>b, <2>1, <2>2, GivesBack
<1> PICK l : l = [loc[p] EXCEPT !.dp = None]
  OBVIOUS
<1>4. /\ l \in LocRec /\ l.op = loc[p].op /\ l.goal = loc[p].goal /\ l.goal2 = loc[p].goal2
      /\ l.fd = loc[p].fd /\ l.fd1 = loc[p].fd1 /\ l.child = loc[p].child
      /\ l.ip = None /\ l.dp = None
  BY <1>2, <1>b DEF LocRec
<1>5. RefsMove(p, l, cwd[p])
  <2>1. Less(p, d, l, cwd[p])
    <3> SUFFICES ASSUME NEW t \in Slots
                 PROVE  One(loc[p].ip = t) + One(loc[p].dp = t) + One(cwd[p] = t)
                          = One(t = d) + (One(l.ip = t) + One(l.dp = t) + One(cwd[p] = t))
      BY DEF Less
    <3> QED  BY <1>2, <1>4, Nones DEF One
  <2> QED  BY <1>3, <1>b, <2>1, RefsLess DEF TableStep
<1>6. CASE loc[p].op = "read"
  <2>1. loc[p].fd \in Fds /\ fds[p][loc[p].fd] # None
    BY <1>1, <1>6, <1>b DEF LFds, LocRec, Reading
  <2> PICK s : s = InodeOf(p, loc[p].fd)
    OBVIOUS
  <2>2. s \in Slots /\ Locked(p) = s
    BY <1>1, <1>6, <2>1, OpenInode DEF Locked, Reading
  <2>3. FileMove(p, "pageadd", l)
    BY <1>1, <1>2, <1>4, <1>6 DEF Evict, FileMove, SameCall, Goto
  <2>4. FileAt("pageadd", l) /\ "pageadd" \in FilePoints \ {"mark"}
    BY <1>4, <1>6, <2>1, Nones DEF FileAt, FilePoints
  <2>5. LockMoves(p, s) /\ ilk' \in [Slots -> Procs \cup {None}]
    BY <1>1, <2>2, LockKinds
  <2>6. pc[p] \in FilePoints \cup {"evict"} /\ loc[p].op # "flush"
    BY <1>1, <1>6
  <2>7. s = IF "pageadd" \in {"page", "pageadd"} THEN InodeOf(p, l.fd) ELSE None
    BY <1>4
  <2> QED  BY <1>3, <1>4, <1>5, <2>2, <2>3, <2>4, <2>5, <2>6, <2>7, FileMoveStep
<1>7. CASE loc[p].op = "flush"
  <2> PICK c \in Slots \cup {None} : c = cwd[p]
    BY <1>b
  <2>1. Moves(p, "flush", l, c) /\ Quiet /\ "flush" \in Points
    BY <1>1, <1>7, <1>b DEF Evict, Goto, Moves, Quiet, Typed, Points
  <2>2. Locked(p) = None
    BY <1>1, <1>7 DEF Locked, Reading
  <2>3. LockMoves(p, None) /\ ilk' \in [Slots -> Procs \cup {None}]
    BY <1>1, <2>2, LockKinds
  <2>4. Moved(p, "flush", l, c) /\ TypeOK' /\ RefsExact' /\ Held'
    <3>1. RefsMove(p, l, c)
      BY <1>5
    <3> QED  BY <1>3, <1>4, <2>1, <2>3, <3>1, OwnRefs
  <2>5. pc'[p] = "flush" /\ loc'[p] = l /\ cwd'[p] = cwd[p]
    BY <2>4 DEF Moved
  <2>6. ~Reading(p)' /\ Locked(p)' = None
    BY <2>5 DEF Reading, Locked
  <2>7. LRefs(p)' /\ LPath(p)' /\ LCwd(p)'
    BY <1>4, <1>7, <2>5 DEF LRefs, LPath, LCwd, HasIp, HasDp, PathOps
  <2>8. LFds(p)'
    BY <1>1, <1>4, <2>5, <2>6, <1>b DEF LFds
  <2>9. LOps(p)' /\ l.child = None
    BY <1>1, <1>4, <1>7, <2>5, <1>b DEF LOps, NoFds, Walking
  <2>10. LGoal(p)'
    <3>1. "flush" \notin Walking /\ Kept /\ FilesKept /\ SameCall(p, l)
      BY <1>1, <1>3, <1>4 DEF Walking, TableStep, SameCall, FilesKept
    <3> QED  BY <1>1, <1>4, <2>4, <2>5, <3>1, GoalKept
  <2>11. LocalOK(p)'
    BY <2>7, <2>8, <2>9, <2>10 DEF LocalOK
  <2>12. pc[p] # "dead" /\ pc[p] # "idup"
    BY <1>1
  <2> PICK at : at = "flush"
    OBVIOUS
  <2>13. Moved(p, at, l, c) /\ at # "dead"
    BY <2>4
  <2>14. Quiet /\ TypeOK' /\ RefsExact' /\ TableStep /\ l.child = None
    BY <1>3, <2>1, <2>4, <2>9
  <2> QED  BY <2>3, <2>6, <2>11, <2>12, <2>13, <2>14, QuietEnd
<1> QED  BY <1>1, <1>6, <1>7, <1>b DEF LOps

(* The new page gets its reference.                                         *)
LEMMA AddPageStep ==
  ASSUME IInv, NEW p \in Procs, AddPage(p)
  PROVE  IInv'
<1>b. /\ Typed /\ TableType /\ InvTable /\ loc[p] \in LocRec
      /\ cwd[p] \in Slots \cup {None} /\ LRefs(p) /\ LFds(p)
  BY Before
<1>1. /\ pc[p] = "pageadd" /\ disk' = disk /\ ReadEnds(p)
      /\ ino' = Referenced(InodeOf(p, loc[p].fd)) /\ fds' = fds
  BY DEF AddPage
<1>2. loc[p].fd \in Fds /\ fds[p][loc[p].fd] # None /\ loc[p].ip = None /\ loc[p].dp = None
  BY <1>1, <1>b DEF LFds, LRefs, LocRec, Reading, HasIp, HasDp
<1> PICK s : s = InodeOf(p, loc[p].fd)
  OBVIOUS
<1>3. s \in Slots /\ Live(s) /\ Locked(p) = s
  BY <1>1, <1>2, OpenInode DEF Locked, Reading
<1>4. TableStep /\ Adds(s)
  BY <1>1, <1>3, <1>b, ReferencedIs
<1> PICK e \in Entries : cached[e] = None /\ cached' = [cached EXCEPT ![e] = s]
  BY DEF AddPage
<1> PICK c : c = cwd[p]
  OBVIOUS
<1> PICK l : l = NoLocals
  OBVIOUS
<1>5. l \in LocRec /\ "idle" \in Points /\ l.ip = None /\ l.dp = None /\ l.child = None
  BY DEF NoLocals, LocRec, OpNames, Points
<1>6. Moves(p, "idle", l, c) /\ ilk' = [ilk EXCEPT ![s] = None]
  BY <1>1, <1>b DEF AddPage, ReadEnds, Goto, Locals, Moves, Typed
<1>7. PageMove(e, s)
  BY DEF AddPage, PageMove
<1>8. RefsPage(p, l, e, s)
  <2> SUFFICES ASSUME NEW t \in Slots
               PROVE  ino'[t].ref + (One(loc[p].ip = t) + One(loc[p].dp = t) + One(cached[e] = t))
                        = ino[t].ref + (One(l.ip = t) + One(l.dp = t) + One(s = t))
    BY DEF RefsPage
  <2>1. ino[t].ref \in Nat /\ ino'[t].ref = ino[t].ref + One(t = s) /\ t # None
    BY <1>4, <1>b, Nones DEF TableType, InoRec, Adds
  <2> QED  BY <2>1, <1>2, <1>5 DEF One
<1>9. LockMoves(p, None) /\ ilk' \in [Slots -> Procs \cup {None}]
  BY <1>3, <1>6, LockKinds
<1>10. Moved(p, "idle", l, c) /\ TypeOK' /\ RefsExact' /\ Held' /\ FilesKept /\ InvFile'
  BY <1>3, <1>4, <1>5, <1>6, <1>7, <1>8, <1>9, PageRefs
<1>11. LocalOK(p)' /\ Locked(p)' = None
  BY <1>10, IdleLocal DEF Moved
<1>12. /\ \A t \in Slots : ilk'[t] = ilk[t] \/ {ilk[t], ilk'[t]} \subseteq {None, p}
       /\ \A t \in Slots : ilk'[t] = p <=> Locked(p)' = t
  BY <1>9, <1>11, LockEnd
<1>13. /\ \A q \in Procs \ {p} : fds'[q] = fds[q]
       /\ pc[p] # "dead" /\ pc[p] # "idup"
  BY <1>1
<1> QED  BY <1>4, <1>5, <1>10, <1>11, <1>12, <1>13, Frame

(* The cache is emptied, page by page.                                      *)
LEMMA FlushStep ==
  ASSUME IInv, NEW p \in Procs, Flush(p)
  PROVE  IInv'
<1>b. /\ Typed /\ TableType /\ InvTable /\ loc[p] \in LocRec
      /\ cwd[p] \in Slots \cup {None} /\ LRefs(p) /\ LOps(p)
  BY Before
<1>1. /\ pc[p] = "flush" /\ ilk' = ilk /\ ino' = ino /\ disk' = disk
  BY DEF Flush
<1>2. CASE Goto(p, "dead") /\ Locals(p, NoLocals) /\ UNCHANGED cached
  <2> PICK c \in Slots \cup {None} : c = cwd[p]
    BY <1>b
  <2> PICK l : l = NoLocals
    OBVIOUS
  <2> PICK at : at = "dead"
    OBVIOUS
  <2>1. Moves(p, at, l, c) /\ Quiet /\ at \in Points
    BY <1>2, <1>b DEF Flush, Goto, Locals, Moves, Quiet, Typed, Points
  <2>2. l \in LocRec /\ l.ip = None /\ l.dp = None /\ l.child = None
    BY DEF NoLocals, LocRec, OpNames
  <2>3. loc[p].ip = None /\ loc[p].dp = None /\ NoFds(p) /\ c = None
    BY <1>1, <1>b DEF LRefs, LOps, HasIp, HasDp
  <2>4. TableStep /\ Same
    BY <1>1, <1>b, UntouchedIs
  <2>5. RefsMove(p, l, c)
    BY <2>2, <2>3, <2>4 DEF RefsMove, Same
  <2>6. LockMoves(p, None) /\ ilk' \in [Slots -> Procs \cup {None}]
    <3>1. Locked(p) = None
      BY <1>1 DEF Locked, Reading
    <3> QED  BY <1>1, <3>1, LockKinds
  <2>7. Moved(p, at, l, c) /\ TypeOK' /\ RefsExact' /\ Held'
    BY <2>1, <2>2, <2>4, <2>5, <2>6, OwnRefs
  <2>8. LocalOK(p)' /\ Locked(p)' = None
    BY <2>3, <2>7, IdleLocal DEF Moved
  <2> QED  BY <1>1, <2>1, <2>2, <2>3, <2>4, <2>6, <2>7, <2>8, QuietEnd
<1>3. CASE Victim(p) /\ Goto(p, "evict")
  <2>1. VictimGoes(p)
    BY <1>1, <1>3 DEF VictimGoes, Flush
  <2> QED  BY <2>1, VictimStep
<1> QED  BY <1>2, <1>3 DEF Flush

(* exit() begins.                                                           *)
LEMMA ExitStep ==
  ASSUME IInv, NEW p \in Procs, Exit(p)
  PROVE  IInv'
<1>b. /\ Typed /\ TableType /\ InvTable /\ loc[p] \in LocRec
      /\ cwd[p] \in Slots \cup {None} /\ LRefs(p) /\ LOps(p)
  BY Before
<1>1. /\ pc[p] = "idle" /\ ilk' = ilk /\ ino' = ino /\ disk' = disk /\ cwd[p] # None
      /\ fds' = fds
  BY DEF Exit
<1> PICK c \in Slots : c = cwd[p]
  BY <1>1, <1>b
<1> PICK l : l = [NoLocals EXCEPT !.op = "exit"]
  OBVIOUS
<1> PICK at : at = IF Fds = FreeFds(p) THEN "exitcwd" ELSE "exit"
  OBVIOUS
<1>2. /\ l \in LocRec /\ l.op = "exit" /\ l.ip = None /\ l.dp = None /\ l.child = None
      /\ l.fd = None /\ l.fd1 = None
  BY DEF NoLocals, LocRec, OpNames, Ops
<1>3. /\ at \in {"exit", "exitcwd"} /\ at \in Points
      /\ at = "exitcwd" <=> NoFds(p)
  BY DEF FreeFds, NoFds, Points, TablePoints
<1>4. Moves(p, at, l, c) /\ Quiet
  BY <1>b DEF Exit, Goto, Locals, Moves, Quiet, Typed
<1>5. TableStep /\ Same
  BY <1>1, <1>b, UntouchedIs
<1>6. RefsMove(p, l, c)
  <2>1. loc[p].ip = None /\ loc[p].dp = None
    BY <1>1, <1>b DEF LRefs, HasIp, HasDp
  <2> QED  BY <1>2, <1>5, <2>1 DEF RefsMove, Same
<1>7. LockMoves(p, None) /\ ilk' \in [Slots -> Procs \cup {None}]
  <2>1. Locked(p) = None
    BY <1>1 DEF Locked, Reading
  <2> QED  BY <1>1, <2>1, LockKinds
<1>8. Moved(p, at, l, c) /\ TypeOK' /\ RefsExact' /\ Held'
  BY <1>2, <1>3, <1>4, <1>5, <1>6, <1>7, OwnRefs
<1>9. pc'[p] = at /\ loc'[p] = l /\ cwd'[p] = c /\ (NoFds(p)' <=> NoFds(p))
  BY <1>1, <1>8 DEF Moved, NoFds
<1>10. ~Reading(p)' /\ Locked(p)' = None
  BY <1>3, <1>9 DEF Reading, Locked
<1>11. LocalOK(p)'
  <2>1. LRefs(p)' /\ LFds(p)' /\ LPath(p)' /\ LGoal(p)'
    BY <1>2, <1>3, <1>9, <1>10 DEF LRefs, LFds, LPath, LGoal, HasIp, HasDp, Walking
  <2>2. LOps(p)'
    BY <1>2, <1>3, <1>9 DEF LOps, Walking
  <2>3. LCwd(p)'
    BY <1>2, <1>3, <1>9, Nones DEF LCwd
  <2> QED  BY <2>1, <2>2, <2>3 DEF LocalOK
<1>12. pc[p] # "dead" /\ pc[p] # "idup" /\ at # "dead"
  BY <1>1, <1>3
<1> QED  BY <1>2, <1>4, <1>5, <1>7, <1>8, <1>10, <1>11, <1>12, QuietEnd

(* iput(p->cwd), and p is gone or empties the cache.                        *)
LEMMA ExitCwdStep ==
  ASSUME IInv, NEW p \in Procs, ExitCwd(p), ~Panics(p)
  PROVE  IInv'
<1>b. /\ Typed /\ TableType /\ InvTable /\ Held /\ loc[p] \in LocRec
      /\ cwd[p] \in Slots \cup {None} /\ LRefs(p) /\ LOps(p) /\ LCwd(p)
  BY Before
<1>1. /\ pc[p] = "exitcwd" /\ ilk' = ilk /\ fds' = fds
      /\ cwd' = [cwd EXCEPT ![p] = None]
  BY DEF ExitCwd
<1>2. /\ loc[p].op = "exit" /\ cwd[p] # None /\ NoFds(p)
      /\ loc[p].ip = None /\ loc[p].dp = None
  BY <1>1, <1>b DEF LOps, LCwd, LRefs, HasIp, HasDp
<1> PICK s \in Slots : s = cwd[p]
  BY <1>2, <1>b
<1>3. TableStep /\ Drops(s)
  <2>1. Live(s)
    BY <1>b DEF Held
  <2>2. PutAt(p) = s /\ PutInode(s)
    BY <1>1 DEF PutAt, ExitCwd
  <2> QED  BY <1>b, <2>1, <2>2, GivesBack
<1>4. ASSUME NEW at \in {"dead", "flush"}, NEW l, Goto(p, at), Locals(p, l),
             \/ at = "dead" /\ l = NoLocals
             \/ at = "flush" /\ l = [NoLocals EXCEPT !.op = "flush"]
      PROVE  IInv'
  <2>1. /\ l \in LocRec /\ l.ip = None /\ l.dp = None /\ l.child = None
        /\ l.fd = None /\ l.fd1 = None /\ (at = "flush" => l.op = "flush")
    <3>1. CASE at = "dead" /\ l = NoLocals
      BY <3>1 DEF NoLocals, LocRec, OpNames
    <3>2. CASE at = "flush" /\ l = [NoLocals EXCEPT !.op = "flush"]
      BY <3>2 DEF NoLocals, LocRec, OpNames, Ops
    <3> QED  BY <1>4, <3>1, <3>2
  <2>2. Moves(p, at, l, None) /\ Quiet /\ at \in Points
    BY <1>1, <1>4, <1>b DEF ExitCwd, Goto, Locals, Moves, Quiet, Points, Typed
  <2>3. RefsMove(p, l, None)
    <3>1. Less(p, s, l, None)
      BY <1>2, <2>1, Nones DEF Less, One
    <3> QED  BY <1>3, <1>b, <3>1, RefsLess DEF TableStep
  <2>4. LockMoves(p, None) /\ ilk' \in [Slots -> Procs \cup {None}]
    <3>1. Locked(p) = None
      BY <1>1 DEF Locked, Reading
    <3> QED  BY <1>1, <3>1, LockKinds
  <2>5. Moved(p, at, l, None) /\ TypeOK' /\ RefsExact' /\ Held'
    BY <1>3, <2>1, <2>2, <2>3, <2>4, OwnRefs
  <2>6. pc'[p] = at /\ loc'[p] = l /\ cwd'[p] = None /\ NoFds(p)'
    BY <1>1, <1>2, <2>5 DEF Moved, NoFds
  <2>7. LocalOK(p)' /\ Locked(p)' = None
    <3>1. CASE at = "dead"
      BY <1>4, <2>6, <3>1, IdleLocal
    <3>2. CASE at = "flush"
      <4>1. ~Reading(p)' /\ Locked(p)' = None
        BY <2>6, <3>2 DEF Reading, Locked
      <4>2. LRefs(p)' /\ LFds(p)' /\ LPath(p)' /\ LGoal(p)' /\ LCwd(p)'
        BY <2>1, <2>6, <3>2, <4>1
           DEF LRefs, LFds, LPath, LGoal, LCwd, HasIp, HasDp, Walking, PathOps
      <4>3. LOps(p)'
        BY <2>1, <2>6, <3>2 DEF LOps, Walking
      <4> QED  BY <4>1, <4>2, <4>3 DEF LocalOK
    <3> QED  BY <3>1, <3>2
  <2>8. pc[p] # "dead" /\ pc[p] # "idup"
    BY <1>1
  <2> QED  BY <1>2, <1>3, <2>1, <2>2, <2>4, <2>5, <2>7, <2>8, QuietEnd
<1> QED  BY <1>4 DEF ExitCwd

(* A descriptor that changes makes that difference to the holders of files. *)
FdMoves(p, d, v) ==
  /\ fds' \in [Procs -> [Fds -> FileSlots \cup {None}]] /\ fds'[p][d] = v
  /\ \A e \in Fds \ {d} : fds'[p][e] = fds[p][e]
  /\ \A q \in Procs \ {p} : fds'[q] = fds[q]
HoldersMove(p, d, v, g) ==
  /\ Cardinality(FileHolders(g)) \in Nat /\ Cardinality(FileHolders(g)') \in Nat
  /\ Cardinality(FileHolders(g)') + One(fds[p][d] = g)
       = Cardinality(FileHolders(g)) + One(v = g)

(* When fds changes so, both hold.                                          *)
LEMMA FdChange ==
  ASSUME Typed, NEW p \in Procs, NEW d \in Fds, NEW v \in FileSlots \cup {None},
         fds' = [fds EXCEPT ![p][d] = v]
  PROVE  FdMoves(p, d, v) /\ \A g \in FileSlots : HoldersMove(p, d, v, g)
<1>0. fds \in [Procs -> [Fds -> FileSlots \cup {None}]]
  BY DEF Typed
<1>1. /\ fds' \in [Procs -> [Fds -> FileSlots \cup {None}]] /\ fds'[p][d] = v
      /\ \A e \in Fds \ {d} : fds'[p][e] = fds[p][e]
      /\ \A q \in Procs \ {p} : fds'[q] = fds[q]
  BY <1>0
<1>2. ASSUME NEW g \in FileSlots
      PROVE  /\ Cardinality(FileHolders(g)) \in Nat /\ Cardinality(FileHolders(g)') \in Nat
             /\ Cardinality(FileHolders(g)') + One(fds[p][d] = g)
                  = Cardinality(FileHolders(g)) + One(v = g)
  <2> PICK S : S = Procs \X Fds
    OBVIOUS
  <2> PICK h0, h1 : /\ h0 = [h \in S |-> fds[h[1]][h[2]]]
                    /\ h1 = [h \in S |-> fds'[h[1]][h[2]]]
    OBVIOUS
  <2> PICK x : x = <<p, d>>
    OBVIOUS
  <2>1. x \in S /\ h0[x] = fds[p][d] /\ h1[x] = v
    BY <1>1
  <2>2. \A h \in S \ {x} : h0[h] = h1[h]
    <3> SUFFICES ASSUME NEW h \in S, h # x PROVE fds[h[1]][h[2]] = fds'[h[1]][h[2]]
      OBVIOUS
    <3> PICK q \in Procs, e \in Fds : h = <<q, e>>
      OBVIOUS
    <3>1. CASE q # p
      BY <1>1, <3>1
    <3>2. CASE q = p /\ e # d
      BY <1>1, <3>2
    <3> QED  BY <3>1, <3>2
  <2>3. IsFiniteSet(S)
    BY Finite
  <2>4. /\ Count(S, h0, g) \in Nat /\ Count(S, h1, g) \in Nat
        /\ Count(S, h1, g) + One(h0[x] = g) = Count(S, h0, g) + One(h1[x] = g)
    BY <2>1, <2>2, <2>3, CountChange
  <2>5. FileHolders(g) = {h \in S : h0[h] = g} /\ FileHolders(g)' = {h \in S : h1[h] = g}
    BY DEF FileHolders
  <2> QED  BY <2>1, <2>4, <2>5 DEF Count
<1> QED  BY <1>1, <1>2 DEF FdMoves, HoldersMove

(* So the counts of files stay exact when they follow it.                   *)
FileRefsMove(p, d, v) ==
  \A g \in FileSlots : file'[g].ref + One(fds[p][d] = g) = file[g].ref + One(v = g)

(* With that file.ref is the number of holders again.                       *)
LEMMA FileCounts ==
  ASSUME IInv, NEW p \in Procs, NEW d \in Fds, NEW v \in FileSlots \cup {None},
         fds' = [fds EXCEPT ![p][d] = v], file' \in [FileSlots -> FileRec],
         FileRefsMove(p, d, v)
  PROVE  \A g \in FileSlots : file'[g].ref = Cardinality(FileHolders(g)')
<1> SUFFICES ASSUME NEW g \in FileSlots PROVE file'[g].ref = Cardinality(FileHolders(g)')
  OBVIOUS
<1>1. Typed /\ file[g].ref = Cardinality(FileHolders(g))
  BY Before DEF RefsExact
<1>2. /\ Cardinality(FileHolders(g)) \in Nat /\ Cardinality(FileHolders(g)') \in Nat
      /\ Cardinality(FileHolders(g)') + One(fds[p][d] = g)
           = Cardinality(FileHolders(g)) + One(v = g)
  <2>1. HoldersMove(p, d, v, g)
    BY <1>1, FdChange
  <2> QED  BY <2>1 DEF HoldersMove
<1>3. file'[g].ref \in Nat
  BY DEF FileRec
<1>4. file'[g].ref + One(fds[p][d] = g) = file[g].ref + One(v = g)
  BY DEF FileRefsMove
<1>5. One(fds[p][d] = g) \in Nat /\ One(v = g) \in Nat
  BY DEF One
<1> QED  BY <1>1, <1>2, <1>3, <1>4, <1>5

(* p's descriptor d becomes v, and file f becomes r.                        *)
FileMoves(p, d, v, f, r) ==
  /\ fds' = [fds EXCEPT ![p][d] = v] /\ file' = [file EXCEPT ![f] = r]
  /\ UNCHANGED <<disk, ino, cached, calls, panicked>>
  /\ FileRefsMove(p, d, v)
  /\ r.ref = 0 <=> r.ip = None
  /\ file[f].ref > 0 /\ r.ref > 0 => r.ip = file[f].ip
(* The reference on the inode goes from p to the file, back, or stays.      *)
RefsFile(p, l, f, r) ==
  \A s \in Slots :
    One(loc[p].ip = s) + One(loc[p].dp = s) + One(file[f].ip = s)
      = One(l.ip = s) + One(l.dp = s) + One(r.ip = s)

(* So a step that moves a file keeps the counts exact.                      *)
LEMMA FileRefs ==
  ASSUME IInv, NEW p \in Procs, NEW at \in Points, NEW l \in LocRec,
         NEW c, c = cwd[p], Moves(p, at, l, c),
         NEW d \in Fds, NEW v \in FileSlots \cup {None}, NEW f \in FileSlots,
         NEW r \in FileRec, FileMoves(p, d, v, f, r), RefsFile(p, l, f, r),
         ilk' \in [Slots -> Procs \cup {None}]
  PROVE  /\ Moved(p, at, l, c) /\ TypeOK' /\ RefsExact' /\ Held' /\ FilesKept /\ InvFile'
         /\ TableStep /\ FdMoves(p, d, v) /\ file'[f] = r
<1>b. /\ Typed /\ TableType /\ InvTable /\ cwd[p] \in Slots \cup {None}
  BY Before
<1>1. c \in Slots \cup {None}
  BY <1>b
<1> PICK e \in Entries : TRUE
  <2>1. 1 \in Entries
    BY FilesAssumption DEF Entries
  <2> QED  BY <2>1
<1>2. /\ ino' = ino /\ disk' = disk /\ cached' = cached /\ calls' = calls
      /\ panicked' = panicked
      /\ fds' = [fds EXCEPT ![p][d] = v] /\ file' = [file EXCEPT ![f] = r]
      /\ FileRefsMove(p, d, v)
  BY DEF FileMoves
<1>3. /\ file' \in [FileSlots -> FileRec] /\ file'[f] = r
      /\ \A g \in FileSlots \ {f} : file'[g] = file[g]
  <2>1. file \in [FileSlots -> FileRec]
    BY <1>b DEF Typed
  <2> QED  BY <1>2, <2>1
<1>4. TableStep
  BY <1>2, <1>b, UntouchedIs
<1>5. FdMoves(p, d, v)
  BY <1>2, <1>b, FdChange
<1>6. \A g \in FileSlots : file'[g].ref = Cardinality(FileHolders(g)')
  BY <1>2, <1>3, FileCounts
<1>7. ASSUME NEW s \in Slots
      PROVE  ino'[s].ref + Part(p, p, f, e, s) = ino[s].ref + Part(p, p, f, e, s)'
  <2>1. /\ loc'[p] = l /\ cwd'[p] = c
    BY <1>1, MovedIs DEF IInv, Moved
  <2> PICK i, j, k, x, y, v0, v1, w \in Nat :
        /\ i = One(loc[p].ip = s) /\ j = One(loc[p].dp = s) /\ k = One(cwd[p] = s)
        /\ x = One(l.ip = s) /\ y = One(l.dp = s) /\ v0 = One(file[f].ip = s)
        /\ v1 = One(r.ip = s) /\ w = One(cached[e] = s)
    BY DEF One
  <2>2. Part(p, p, f, e, s) = i + j + k + v0 + w
    BY DEF Part
  <2>3. Part(p, p, f, e, s)' = x + y + k + v1 + w
    BY <1>2, <1>3, <2>1 DEF Part
  <2>4. i + j + v0 = x + y + v1
    BY DEF RefsFile
  <2>5. i + j + k + v0 + w = x + y + k + v1 + w
    BY <2>4
  <2> QED  BY <1>2, <2>2, <2>3, <2>5
<1>8. Moved(p, at, l, c) /\ TypeOK' /\ RefsExact' /\ Held'
  <2>1. /\ \A g \in FileSlots \ {f} : file'[g].ip = file[g].ip
        /\ \A b \in Entries \ {e} : cached'[b] = cached[b]
        /\ fds' \in [Procs -> [Fds -> FileSlots \cup {None}]]
        /\ cached' \in [Entries -> Slots \cup {None}]
    BY <1>2, <1>3, <1>5, <1>b DEF Typed, FdMoves
  <2> QED  BY <1>1, <1>2, <1>3, <1>4, <1>6, <1>7, <2>1, AllRefs
<1>9. FilesKept /\ InvFile'
  <2>1. /\ r.ref = 0 <=> r.ip = None
        /\ file[f].ref > 0 /\ r.ref > 0 => r.ip = file[f].ip
    BY DEF FileMoves
  <2>2. FilesKept
    BY <1>3, <2>1 DEF FilesKept
  <2>3. InvFile'
    BY <1>3, <2>1 DEF InvFile, IInv
  <2> QED  BY <2>2, <2>3
<1> QED  BY <1>3, <1>4, <1>5, <1>8, <1>9

(* ... and is done when p's locals are right and its lock is k.             *)
LEMMA FileEnd ==
  ASSUME IInv, NEW p \in Procs, NEW at, NEW l, NEW c, Moved(p, at, l, c),
         TypeOK', RefsExact', TableStep, FilesKept, InvFile',
         NEW d, NEW v, FdMoves(p, d, v),
         pc[p] # "dead", pc[p] # "idup", at # "dead", l.child = None,
         LocalOK(p)', NEW k \in Slots \cup {None}, LockMoves(p, k), Locked(p)' = k
  PROVE  IInv'
<1>1. /\ \A t \in Slots : ilk'[t] = ilk[t] \/ {ilk[t], ilk'[t]} \subseteq {None, p}
      /\ \A t \in Slots : ilk'[t] = p <=> Locked(p)' = t
  BY LockEnd
<1>2. \A q \in Procs \ {p} : fds'[q] = fds[q]
  BY DEF FdMoves
<1> QED  BY <1>1, <1>2, Frame

(* fileopen() gives the inode to a new file, and the file to a descriptor.  *)
LEMMA OpenFileStep ==
  ASSUME IInv, NEW p \in Procs, OpenFile(p)
  PROVE  IInv'
<1>b. /\ Typed /\ TableType /\ InvTable /\ loc[p] \in LocRec /\ cwd[p] \in Slots \cup {None}
      /\ LRefs(p) /\ LFds(p) /\ LOps(p) /\ LCwd(p) /\ LGoal(p) /\ LPath(p)
  BY Before
<1>1. /\ pc[p] = "alloc" /\ FreeFiles # {} /\ FreeFds(p) # {}
      /\ UNCHANGED <<disk, ino, cwd, cached, calls, panicked>>
  BY DEF OpenFile
<1>2. /\ loc[p].ip # None /\ loc[p].dp = None /\ loc[p].child = None
      /\ loc[p].op \in PathOps /\ cwd[p] # None
      /\ Locked(p) = loc[p].ip
  BY <1>1, <1>b DEF LRefs, LOps, LCwd, HasIp, HasDp, Walking, Locked
<1> PICK s \in Slots : s = loc[p].ip
  BY <1>2, <1>b DEF LocRec
<1> PICK f \in FileSlots : f = Min(FreeFiles) /\ file[f].ref = 0
  <2>1. FreeFiles \in SUBSET Nat
    BY Nones DEF FreeFiles
  <2>2. Min(FreeFiles) \in FreeFiles
    BY <1>1, <2>1, MinIsIn
  <2> QED  BY <2>2 DEF FreeFiles
<1> PICK d \in Fds : d = Min(FreeFds(p)) /\ fds[p][d] = None
  <2>1. FreeFds(p) \in SUBSET Nat
    BY Nones DEF FreeFds
  <2>2. Min(FreeFds(p)) \in FreeFds(p)
    BY <1>1, <2>1, MinIsIn
  <2> QED  BY <2>2 DEF FreeFds
<1> PICK r : r = [ref |-> 1, ip |-> s]
  OBVIOUS
<1>3. r \in FileRec /\ r.ref = 1 /\ r.ip = s /\ file[f].ip = None
  BY DEF FileRec, IInv, InvFile
<1>4. FileMoves(p, d, f, f, r)
  <2>1. FileRefsMove(p, d, f)
    <3>1. file' = [file EXCEPT ![f] = r] /\ file \in [FileSlots -> FileRec]
      BY <1>b DEF OpenFile, Typed
    <3> SUFFICES ASSUME NEW g \in FileSlots
                 PROVE  file'[g].ref + One(fds[p][d] = g) = file[g].ref + One(f = g)
      BY DEF FileRefsMove
    <3>2. One(fds[p][d] = g) = 0
      BY Nones DEF One
    <3>3. file[g].ref \in Nat
      BY <3>1 DEF FileRec
    <3>4. CASE g = f
      BY <1>3, <3>1, <3>2, <3>4 DEF One
    <3>5. CASE g # f
      BY <3>1, <3>2, <3>3, <3>5 DEF One
    <3> QED  BY <3>4, <3>5
  <2>2. s # None /\ ~(file[f].ref > 0)
    BY Nones
  <2> QED  BY <1>1, <1>3, <2>1, <2>2 DEF OpenFile, FileMoves
<1>5. LockMoves(p, None) /\ ilk' \in [Slots -> Procs \cup {None}]
  <2>1. ilk' = [ilk EXCEPT ![s] = None] /\ Locked(p) = s
    BY <1>2 DEF OpenFile
  <2> QED  BY <2>1, LockKinds
<1> PICK c : c = cwd[p]
  OBVIOUS
<1>6. ASSUME NEW at \in {"mark", "from", "idle"}, NEW l \in LocRec,
             Goto(p, at), Locals(p, l), l.ip = None, l.dp = None, l.child = None
      PROVE  /\ TypeOK' /\ Held' /\ FilesKept /\ Kept /\ FdMoves(p, d, f) /\ file'[f] = r
             /\ pc'[p] = at /\ loc'[p] = l /\ cwd'[p] = cwd[p]
             /\ ~Reading(p)' /\ Locked(p)' = None /\ (LocalOK(p)' => IInv')
  <2>1. Moves(p, at, l, c) /\ at \in Points
    BY <1>1, <1>6, <1>b DEF Goto, Locals, Moves, Typed, Points, TablePoints, InodePoints
  <2>2. RefsFile(p, l, f, r)
    <3> SUFFICES ASSUME NEW t \in Slots
                 PROVE  One(loc[p].ip = t) + One(loc[p].dp = t) + One(file[f].ip = t)
                          = One(l.ip = t) + One(l.dp = t) + One(r.ip = t)
      BY DEF RefsFile
    <3>1. t # None
      BY Nones
    <3> QED  BY <1>2, <1>3, <1>6, <3>1 DEF One
  <2>3. /\ Moved(p, at, l, c) /\ TypeOK' /\ RefsExact' /\ Held' /\ FilesKept /\ InvFile'
        /\ TableStep /\ FdMoves(p, d, f) /\ file'[f] = r
    BY <1>3, <1>4, <1>5, <2>1, <2>2, FileRefs
  <2>4. pc'[p] = at /\ loc'[p] = l /\ cwd'[p] = cwd[p]
    BY <2>3 DEF Moved
  <2>5. ~Reading(p)' /\ Locked(p)' = None
    BY <2>4 DEF Reading, Locked
  <2>6. pc[p] # "dead" /\ pc[p] # "idup" /\ at # "dead"
    BY <1>1
  <2>7. LocalOK(p)' => IInv'
    BY <1>5, <1>6, <2>3, <2>5, <2>6, FileEnd
  <2> QED  BY <2>3, <2>4, <2>5, <2>7 DEF TableStep
<1>7. CASE loc[p].op = "unlink" \/ (loc[p].op = "rename" /\ Creating(p))
  <2> PICK l : l = [[loc[p] EXCEPT !.ip = None] EXCEPT !.fd = d]
    OBVIOUS
  <2>1. /\ l \in LocRec /\ l.op = loc[p].op /\ l.goal = loc[p].goal
        /\ l.goal2 = loc[p].goal2 /\ l.fd1 = loc[p].fd1 /\ l.child = None
        /\ l.fd = d /\ l.ip = None /\ l.dp = None
    BY <1>2, <1>b DEF LocRec
  <2>2. Goto(p, "mark") /\ Locals(p, l)
    BY <1>7 DEF OpenFile
  <2>3. /\ TypeOK' /\ Held' /\ FilesKept /\ Kept /\ FdMoves(p, d, f)
        /\ pc'[p] = "mark" /\ loc'[p] = l /\ cwd'[p] = cwd[p]
        /\ ~Reading(p)' /\ (LocalOK(p)' => IInv')
    BY <2>1, <2>2, <1>6
  <2>4. l.fd1 # None => /\ l.fd1 \in Fds /\ l.fd1 # d /\ fds[p][l.fd1] # None
                        /\ fds'[p][l.fd1] = fds[p][l.fd1] /\ l.op = "rename"
    BY <2>1, <2>3, <1>b DEF LFds, LocRec, FdMoves
  <2>5. fds'[p][d] # None /\ d # None
    BY <2>3, Nones DEF FdMoves
  <2>6. LFds(p)' /\ LRefs(p)' /\ LPath(p)'
    BY <2>1, <2>3, <2>4, <2>5 DEF LFds, LRefs, LPath, HasIp, HasDp
  <2>7. LOps(p)'
    BY <2>1, <2>3, <1>2 DEF LOps, Walking, PathOps
  <2>8. LCwd(p)'
    BY <2>1, <2>3, <1>2 DEF LCwd
  <2>9. LGoal(p)'
    <3>1. l.fd1 # None => ino'[InodeOf(p, l.fd1)'].path # Root
      <4> SUFFICES ASSUME l.fd1 # None PROVE ino'[InodeOf(p, l.fd1)'].path # Root
        OBVIOUS
      <4> PICK d1 \in Fds : d1 = l.fd1
        BY <2>4
      <4>1. ino'[InodeOf(p, d1)'].path = ino[InodeOf(p, d1)].path
        BY <2>3, <2>4, FdKept
      <4>2. ino[InodeOf(p, d1)].path # Root
        BY <2>1, <1>b DEF LGoal
      <4> QED  BY <4>1, <4>2
    <3> QED  BY <2>1, <2>3, <1>b, <3>1 DEF LGoal, Walking
  <2> QED  BY <2>3, <2>6, <2>7, <2>8, <2>9 DEF LocalOK
<1>8. CASE loc[p].op = "rename" /\ ~Creating(p)
  <2> PICK l : l = [[loc[p] EXCEPT !.ip = None] EXCEPT !.fd1 = d, !.goal = loc[p].goal2]
    OBVIOUS
  <2>1. /\ l \in LocRec /\ l.op = "rename" /\ l.goal = loc[p].goal2
        /\ l.goal2 = loc[p].goal2 /\ l.fd1 = d /\ l.child = None /\ l.abs = loc[p].abs
        /\ l.fd = loc[p].fd /\ l.ip = None /\ l.dp = None
    BY <1>2, <1>8, <1>b DEF LocRec
  <2>2. Goto(p, "from") /\ Locals(p, l)
    BY <1>2, <1>8 DEF OpenFile, StartWalk
  <2>3. /\ TypeOK' /\ Held' /\ FilesKept /\ Kept /\ FdMoves(p, d, f) /\ file'[f] = r
        /\ pc'[p] = "from" /\ loc'[p] = l /\ cwd'[p] = cwd[p]
        /\ ~Reading(p)' /\ (LocalOK(p)' => IInv')
    BY <2>1, <2>2, <1>6
  <2>4. l.fd # None => fds'[p][l.fd] # None /\ l.fd # d
    BY <2>1, <2>3, <1>b DEF LFds, LocRec, FdMoves
  <2>5. fds'[p][d] = f /\ f # None
    BY <2>3, Nones DEF FdMoves
  <2>6. LFds(p)' /\ LRefs(p)' /\ LPath(p)'
    BY <2>1, <2>3, <2>4, <2>5 DEF LFds, LRefs, LPath, HasIp, HasDp
  <2>7. {loc[p].goal, loc[p].goal2} \subseteq Paths \ Dirs /\ Root \in Dirs
    BY <1>8, <1>b DEF LGoal, Dirs
  <2>8. LOps(p)'
    BY <2>1, <2>3, <2>7 DEF LOps, Walking, PathOps
  <2>9. LCwd(p)'
    BY <2>1, <2>3, <1>2 DEF LCwd
  <2>10. LGoal(p)'
    <3>1. ino'[InodeOf(p, l.fd1)'].path # Root
      <4>1. InodeOf(p, d)' = s
        BY <1>3, <2>3, <2>5 DEF InodeOf
      <4>2. ino[s].path = loc[p].goal
        BY <1>1, <1>b DEF LPath, IpPath
      <4> QED  BY <1>1, <2>1, <2>7, <4>1, <4>2
    <3>2. CwdPath(p)' = CwdPath(p)
      BY <1>1 DEF CwdPath
    <3>3. ~l.abs => {l.goal, l.goal2} \ {None} \subseteq Below(CwdPath(p))
      BY <1>1, <1>b, <2>1 DEF LGoal, Walking
    <3> QED  BY <2>1, <2>3, <2>7, <3>1, <3>2, <3>3 DEF LGoal
  <2> QED  BY <2>3, <2>6, <2>8, <2>9, <2>10 DEF LocalOK
<1>9. CASE ~(loc[p].op = "unlink" \/ loc[p].op = "rename")
  <2>1. Goto(p, "idle") /\ Locals(p, NoLocals)
    BY <1>9 DEF OpenFile
  <2> PICK l : l = NoLocals
    OBVIOUS
  <2>2. l \in LocRec /\ l.ip = None /\ l.dp = None /\ l.child = None
    BY DEF NoLocals, LocRec, OpNames
  <2>3. pc'[p] = "idle" /\ loc'[p] = NoLocals /\ (LocalOK(p)' => IInv')
    BY <2>1, <2>2, <1>6
  <2>4. LocalOK(p)'
    BY <2>3, IdleLocal
  <2> QED  BY <2>3, <2>4
<1> QED  BY <1>7, <1>8, <1>9

(* fileclose() of descriptor d, with which a call goes on with the locals l. *)
CloseGood(p, d, l) ==
  /\ l.ip = None /\ l.dp = None /\ l.child = None /\ l.op # "flush"
  /\ l.fd # None => fds[p][l.fd] # None /\ l.fd # d /\ l.fd # l.fd1
  /\ l.fd1 # None => /\ fds[p][l.fd1] # None /\ l.fd1 # d /\ l.op = "rename"
                     /\ ino[InodeOf(p, l.fd1)].path # Root
  /\ l.op = "rename" => {l.goal, l.goal2} \subseteq Paths \ Dirs
  /\ l.op \in PathOps \cup {"clone", "exit"} => cwd[p] # None
  /\ l.op = "exit" => l.fd = None

(* What is left of the call's descriptors stays as it was.                  *)
LEMMA CloseLeaves ==
  ASSUME IInv, TypeOK', Held', Kept, FilesKept, NEW p \in Procs, NEW d \in Fds,
         NEW v, NEW l \in LocRec, CloseGood(p, d, l), FdMoves(p, d, v), cwd'[p] = cwd[p]
  PROVE  OnwardOK(p, l)
<1>1. /\ l.fd \in Fds \cup {None} /\ l.fd1 \in Fds \cup {None}
      /\ \A e \in Fds \ {d} : fds'[p][e] = fds[p][e]
  BY DEF LocRec, FdMoves
<1>2. l.fd # None => fds'[p][l.fd] # None /\ l.fd # l.fd1
  BY <1>1 DEF CloseGood
<1>3. l.fd1 # None => /\ fds'[p][l.fd1] # None /\ l.op = "rename"
                      /\ ino'[InodeOf(p, l.fd1)'].path # Root
  <2> SUFFICES ASSUME l.fd1 # None
               PROVE  /\ fds'[p][l.fd1] # None /\ l.op = "rename"
                      /\ ino'[InodeOf(p, l.fd1)'].path # Root
    OBVIOUS
  <2> PICK e \in Fds : e = l.fd1
    BY <1>1
  <2>1. /\ fds[p][e] # None /\ fds'[p][e] = fds[p][e] /\ l.op = "rename"
        /\ ino[InodeOf(p, e)].path # Root
    BY <1>1 DEF CloseGood
  <2>2. ino'[InodeOf(p, e)'].path = ino[InodeOf(p, e)].path
    BY <2>1, FdKept
  <2> QED  BY <2>1, <2>2
<1> QED  BY <1>2, <1>3 DEF CloseGood, OnwardOK

(* The file keeps its inode, or leaves it to the process.                   *)
LeavesTo(m, r, s) == /\ m.dp = None /\ m.child = None
                     /\ \/ m.ip = None /\ r.ip = s
                        \/ m.ip = s /\ r.ip = None

(* fileclose() keeps the invariant.                                         *)
LEMMA CloseFileStep ==
  ASSUME IInv, NEW p \in Procs, NEW d \in Fds, fds[p][d] # None, NEW l \in LocRec,
         CloseFile(p, d, l), pc[p] \in {"close", "close1", "idle", "exit"},
         CloseGood(p, d, l)
  PROVE  IInv'
<1>b. /\ Typed /\ TableType /\ InvTable /\ loc[p] \in LocRec /\ cwd[p] \in Slots \cup {None}
      /\ LRefs(p)
  BY Before
<1>1. UNCHANGED <<disk, ino, ilk, cwd, cached, calls, panicked>>
  BY DEF CloseFile
<1>2. /\ loc[p].ip = None /\ loc[p].dp = None /\ Locked(p) = None
  BY <1>b DEF LRefs, HasIp, HasDp, Locked, Reading
<1> PICK f \in FileSlots : f = fds[p][d]
  BY OpenInode
<1> PICK s \in Slots : s = file[f].ip
  <2>1. InodeOf(p, d) \in Slots
    BY OpenInode
  <2> QED  BY <2>1 DEF InodeOf
<1>3. s # None /\ None \notin FileSlots
  BY Nones
<1> PICK n \in Nat : n = file[f].ref /\ n > 0
  <2>1. file[f].ref > 0
    BY OpenInode
  <2> QED  BY <2>1, <1>b DEF Typed, FileRec
<1>4. LockMoves(p, None) /\ ilk' \in [Slots -> Procs \cup {None}]
  BY <1>1, <1>2, LockKinds
<1> PICK c : c = cwd[p]
  OBVIOUS
<1>5. fds' = [fds EXCEPT ![p][d] = None]
  BY DEF CloseFile
<1>6. FdMoves(p, d, None)
  BY <1>5, <1>b, FdChange
<1>7. ASSUME NEW r \in FileRec, file' = [file EXCEPT ![f] = r], r.ref + 1 = n,
             r.ref = 0 <=> r.ip = None, r.ref > 0 => r.ip = s
      PROVE  FileMoves(p, d, None, f, r)
  <2>1. FileRefsMove(p, d, None)
    <3> SUFFICES ASSUME NEW g \in FileSlots
                 PROVE  file'[g].ref + One(fds[p][d] = g) = file[g].ref + One(None = g)
      BY DEF FileRefsMove
    <3>1. file \in [FileSlots -> FileRec]
      BY <1>b DEF Typed
    <3>2. One(None = g) = 0
      BY <1>3 DEF One
    <3>3. file[g].ref \in Nat
      BY <3>1 DEF FileRec
    <3>4. CASE g = f
      <4>1. file'[g] = r /\ One(fds[p][d] = g) = 1
        BY <1>7, <3>1, <3>4 DEF One
      <4> QED  BY <1>7, <3>2, <3>4, <4>1
    <3>5. CASE g # f
      <4>1. file'[g] = file[g] /\ One(fds[p][d] = g) = 0
        BY <1>7, <3>1, <3>5 DEF One
      <4> QED  BY <3>2, <3>3, <4>1
    <3> QED  BY <3>4, <3>5
  <2> QED  BY <1>1, <1>5, <1>7, <2>1 DEF FileMoves
<1>8. ASSUME NEW at \in Points \ {"dead"}, NEW m \in LocRec, Moves(p, at, m, c),
             NEW r \in FileRec, FileMoves(p, d, None, f, r), LeavesTo(m, r, s)
      PROVE  /\ TypeOK' /\ Held' /\ FilesKept /\ Kept
             /\ pc'[p] = at /\ loc'[p] = m /\ cwd'[p] = cwd[p]
             /\ (LocalOK(p)' /\ Locked(p)' = None => IInv')
  <2>1. RefsFile(p, m, f, r)
    <3> SUFFICES ASSUME NEW t \in Slots
                 PROVE  One(loc[p].ip = t) + One(loc[p].dp = t) + One(file[f].ip = t)
                          = One(m.ip = t) + One(m.dp = t) + One(r.ip = t)
      BY DEF RefsFile
    <3>1. t # None
      BY Nones
    <3> QED  BY <1>2, <1>8, <3>1 DEF One, LeavesTo
  <2>2. /\ Moved(p, at, m, c) /\ TypeOK' /\ RefsExact' /\ Held' /\ FilesKept /\ InvFile'
        /\ TableStep
    BY <1>4, <1>8, <2>1, FileRefs
  <2>3. pc'[p] = at /\ loc'[p] = m /\ cwd'[p] = cwd[p]
    BY <2>2 DEF Moved
  <2>4. pc[p] # "dead" /\ pc[p] # "idup"
    OBVIOUS
  <2>5. LocalOK(p)' /\ Locked(p)' = None => IInv'
    BY <1>4, <1>6, <1>8, <2>2, <2>4, FileEnd DEF LeavesTo
  <2> QED  BY <2>2, <2>3, <2>5 DEF TableStep
<1>9. CASE n > 1
  <2> PICK r : r = [file[f] EXCEPT !.ref = n - 1]
    OBVIOUS
  <2>1. n - 1 \in Nat /\ n - 1 # 0 /\ n - 1 + 1 = n
    BY <1>9
  <2>2. r \in FileRec /\ r.ref = n - 1 /\ r.ip = s
    BY <2>1, <1>b DEF Typed, FileRec
  <2>3. FileMoves(p, d, None, f, r)
    <3>1. file' = [file EXCEPT ![f] = r]
      BY <1>9 DEF CloseFile
    <3> QED  BY <1>3, <1>7, <2>1, <2>2, <3>1
  <2>4. Onward(p, l)
    BY <1>9 DEF CloseFile
  <2> PICK at \in {"exit", "exitcwd", "idle", "rename", "close1"}, m \in LocRec :
         OnwardIs(p, l, at, m)
    BY <2>4, <1>6, OnwardTo DEF FdMoves
  <2>5. LeavesTo(m, r, s)
    <3>1. NoLocals.ip = None /\ NoLocals.dp = None /\ NoLocals.child = None
      BY DEF NoLocals
    <3>2. l.ip = None /\ l.dp = None /\ l.child = None
      BY DEF CloseGood
    <3>3. m = NoLocals \/ m = l
      BY DEF OnwardIs
    <3>4. m.ip = None /\ m.dp = None /\ m.child = None
      BY <3>1, <3>2, <3>3
    <3>5. r.ip = s
      BY <2>2
    <3> QED  BY <3>4, <3>5 DEF LeavesTo
  <2>6. Moves(p, at, m, c) /\ at \in Points \ {"dead"}
    BY <1>1, <1>b DEF OnwardIs, Moves, Typed, Points, TablePoints, InodePoints
  <2>7. /\ TypeOK' /\ Held' /\ FilesKept /\ Kept
        /\ pc'[p] = at /\ loc'[p] = m /\ cwd'[p] = cwd[p]
        /\ (LocalOK(p)' /\ Locked(p)' = None => IInv')
    BY <1>8, <2>2, <2>3, <2>5, <2>6
  <2>8. OnwardOK(p, l)
    BY <1>6, <2>7, CloseLeaves
  <2>9. LocalOK(p)' /\ Locked(p)' = None
    BY <2>7, <2>8, OnwardLocal
  <2> QED  BY <2>7, <2>9
<1>10. CASE n = 1
  <2> PICK r : r = [ref |-> 0, ip |-> None]
    OBVIOUS
  <2>1. r \in FileRec /\ r.ref = 0 /\ r.ip = None
    BY DEF FileRec
  <2> PICK m : m = [l EXCEPT !.ip = s]
    OBVIOUS
  <2>2. /\ m \in LocRec /\ m.ip = s /\ m.dp = None /\ m.child = None /\ m.op = l.op
        /\ m.fd = l.fd /\ m.fd1 = l.fd1 /\ m.goal = l.goal /\ m.goal2 = l.goal2
    BY DEF LocRec, CloseGood
  <2>3. ~(file[f].ref > 1)
    BY <1>10
  <2>4. file' = [file EXCEPT ![f] = r] /\ Goto(p, "put") /\ Locals(p, m)
    BY <2>3 DEF CloseFile
  <2>5. FileMoves(p, d, None, f, r)
    <3>1. r.ref + 1 = n /\ ~(r.ref > 0)
      BY <1>10, <2>1
    <3> QED  BY <1>7, <2>1, <2>4, <3>1
  <2> PICK at : at = "put"
    OBVIOUS
  <2>6. Moves(p, at, m, c) /\ at \in Points \ {"dead"}
    BY <1>1, <1>b, <2>4 DEF Goto, Locals, Moves, Typed, Points, TablePoints
  <2>7. /\ TypeOK' /\ Held' /\ FilesKept /\ Kept
        /\ pc'[p] = at /\ loc'[p] = m /\ cwd'[p] = cwd[p]
        /\ (LocalOK(p)' /\ Locked(p)' = None => IInv')
    <3>1. LeavesTo(m, r, s)
      BY <2>1, <2>2 DEF LeavesTo
    <3> QED  BY <1>8, <2>1, <2>2, <2>5, <2>6, <3>1
  <2>8. OnwardOK(p, l)
    BY <1>6, <2>7, CloseLeaves
  <2>9. ~Reading(p)' /\ Locked(p)' = None
    BY <2>7 DEF Reading, Locked
  <2>10. LRefs(p)' /\ LPath(p)'
    BY <1>3, <2>2, <2>7 DEF LRefs, LPath, HasIp, HasDp
  <2>11. LFds(p)'
    BY <2>2, <2>7, <2>8, <2>9 DEF LFds, OnwardOK
  <2>12. LOps(p)'
    BY <2>2, <2>7, <2>8 DEF LOps, Walking, OnwardOK
  <2>13. LCwd(p)' /\ LGoal(p)'
    BY <2>2, <2>7, <2>8 DEF LCwd, LGoal, Walking, OnwardOK
  <2> QED  BY <2>7, <2>9, <2>10, <2>11, <2>12, <2>13 DEF LocalOK
<1> QED
  <2>1. n = 1 \/ n > 1
    OBVIOUS
  <2> QED  BY <2>1, <1>9, <1>10

(* The three calls of fileclose() by a call with a path, *)
LEMMA CloseAtEndStep ==
  ASSUME IInv, NEW p \in Procs, CloseAtEnd(p)
  PROVE  IInv'
<1>b. /\ loc[p] \in LocRec /\ LRefs(p) /\ LFds(p) /\ LOps(p) /\ LCwd(p) /\ LGoal(p)
  BY Before
<1>1. pc[p] = "close"
  BY DEF CloseAtEnd
<1> PICK l : l = [loc[p] EXCEPT !.fd = None]
  OBVIOUS
<1>2. /\ l \in LocRec /\ l.op = loc[p].op /\ l.goal = loc[p].goal /\ l.goal2 = loc[p].goal2
      /\ l.ip = loc[p].ip /\ l.dp = loc[p].dp /\ l.child = loc[p].child
      /\ l.fd = None /\ l.fd1 = loc[p].fd1
  BY <1>b DEF LocRec
<1>3. loc[p].fd # None /\ fds[p][loc[p].fd] # None /\ loc[p].fd # loc[p].fd1
  BY <1>1, <1>b DEF LFds
<1> PICK d \in Fds : d = loc[p].fd
  BY <1>3, <1>b DEF LocRec
<1>4. CloseFile(p, d, l)
  BY DEF CloseAtEnd
<1>5. /\ l.ip = None /\ l.dp = None /\ l.child = None /\ l.op # "flush" /\ l.op # "exit"
  BY <1>1, <1>2, <1>b DEF LRefs, LOps, HasIp, HasDp
<1>6. l.fd1 # None => /\ fds[p][l.fd1] # None /\ l.fd1 # d /\ l.op = "rename"
                      /\ ino[InodeOf(p, l.fd1)].path # Root
  BY <1>2, <1>3, <1>b DEF LFds, LGoal
<1>7. /\ l.op = "rename" => {l.goal, l.goal2} \subseteq Paths \ Dirs
      /\ l.op \in PathOps \cup {"clone", "exit"} => cwd[p] # None
  BY <1>1, <1>2, <1>b DEF LGoal, LCwd
<1>8. CloseGood(p, d, l)
  BY <1>2, <1>5, <1>6, <1>7 DEF CloseGood
<1> QED  BY <1>1, <1>2, <1>3, <1>4, <1>8, CloseFileStep

(* ... of the old file by rename(), *)
LEMMA CloseOldStep ==
  ASSUME IInv, NEW p \in Procs, CloseOld(p)
  PROVE  IInv'
<1>b. /\ loc[p] \in LocRec /\ LRefs(p) /\ LFds(p) /\ LOps(p) /\ LCwd(p) /\ LGoal(p)
  BY Before
<1>1. pc[p] = "close1"
  BY DEF CloseOld
<1> PICK l : l = [loc[p] EXCEPT !.fd1 = None]
  OBVIOUS
<1>2. /\ l \in LocRec /\ l.op = loc[p].op /\ l.goal = loc[p].goal /\ l.goal2 = loc[p].goal2
      /\ l.ip = loc[p].ip /\ l.dp = loc[p].dp /\ l.child = loc[p].child
      /\ l.fd1 = None /\ l.fd = loc[p].fd
  BY <1>b DEF LocRec
<1>3. loc[p].fd1 # None /\ fds[p][loc[p].fd1] # None
  BY <1>1, <1>b DEF LFds
<1> PICK d \in Fds : d = loc[p].fd1
  BY <1>3, <1>b DEF LocRec
<1>4. CloseFile(p, d, l)
  BY DEF CloseOld
<1>5. /\ l.ip = None /\ l.dp = None /\ l.child = None /\ l.op # "flush" /\ l.op # "exit"
  BY <1>1, <1>2, <1>b DEF LRefs, LOps, HasIp, HasDp
<1>6. l.fd # None => fds[p][l.fd] # None /\ l.fd # d /\ l.fd # l.fd1
  BY <1>2, <1>3, <1>b DEF LFds
<1>7. /\ l.op = "rename" => {l.goal, l.goal2} \subseteq Paths \ Dirs
      /\ l.op \in PathOps \cup {"clone", "exit"} => cwd[p] # None
  BY <1>1, <1>2, <1>b DEF LGoal, LCwd
<1>8. CloseGood(p, d, l)
  BY <1>2, <1>5, <1>6, <1>7 DEF CloseGood
<1> QED  BY <1>1, <1>2, <1>3, <1>4, <1>8, CloseFileStep

(* ... by close(), *)
LEMMA CallCloseStep ==
  ASSUME IInv, NEW p \in Procs, CallClose(p)
  PROVE  IInv'
<1>1. pc[p] = "idle"
  BY DEF CallClose
<1> PICK l : l = [NoLocals EXCEPT !.op = "close"]
  OBVIOUS
<1> PICK d \in Fds : fds[p][d] # None /\ CloseFile(p, d, l)
  BY DEF CallClose, FreeFds
<1>2. /\ l \in LocRec /\ l.op = "close" /\ l.ip = None /\ l.dp = None /\ l.child = None
      /\ l.fd = None /\ l.fd1 = None
  BY DEF NoLocals, LocRec, OpNames, Ops
<1>3. CloseGood(p, d, l)
  BY <1>2 DEF CloseGood, PathOps
<1> QED  BY <1>1, <1>2, <1>3, CloseFileStep

(* ... and by exit(), file by file.                                         *)
LEMMA ExitFileStep ==
  ASSUME IInv, NEW p \in Procs, ExitFile(p)
  PROVE  IInv'
<1>b. /\ loc[p] \in LocRec /\ LRefs(p) /\ LFds(p) /\ LOps(p) /\ LCwd(p)
  BY Before
<1>1. pc[p] = "exit"
  BY DEF ExitFile
<1> PICK l : l = loc[p]
  OBVIOUS
<1> PICK d \in Fds : d = Min(Fds \ FreeFds(p)) /\ fds[p][d] # None
  <2>1. Fds \ FreeFds(p) \in SUBSET Nat
    BY Nones
  <2>2. Fds \ FreeFds(p) # {}
    BY <1>1, <1>b DEF LOps, NoFds, FreeFds
  <2>3. Min(Fds \ FreeFds(p)) \in Fds \ FreeFds(p)
    BY <2>1, <2>2, MinIsIn
  <2> QED  BY <2>3 DEF FreeFds
<1>2. CloseFile(p, d, l)
  BY DEF ExitFile
<1>3. /\ l \in LocRec /\ l.ip = None /\ l.dp = None /\ l.child = None /\ l.op = "exit"
      /\ l.fd = None /\ l.fd1 = None /\ cwd[p] # None
  BY <1>1, <1>b DEF LRefs, LFds, LOps, LCwd, HasIp, HasDp
<1>4. CloseGood(p, d, l)
  BY <1>3 DEF CloseGood
<1> QED  BY <1>1, <1>2, <1>3, <1>4, CloseFileStep

(* dup(): one more descriptor for the file.                                 *)
LEMMA DupStep ==
  ASSUME IInv, NEW p \in Procs, Dup(p)
  PROVE  IInv'
<1>b. /\ Typed /\ TableType /\ InvTable /\ loc[p] \in LocRec /\ cwd[p] \in Slots \cup {None}
      /\ LRefs(p)
  BY Before
<1>1. /\ pc[p] = "idle" /\ FreeFds(p) # {}
      /\ UNCHANGED <<disk, ino, ilk, cwd, cached, pc, loc, calls, panicked>>
  BY DEF Dup
<1> PICK d0 \in Fds : fds[p][d0] # None
                      /\ fds' = [fds EXCEPT ![p][Min(FreeFds(p))] = fds[p][d0]]
                      /\ file' = [file EXCEPT ![fds[p][d0]].ref = @ + 1]
  BY DEF Dup, FreeFds
<1> PICK d \in Fds : d = Min(FreeFds(p)) /\ fds[p][d] = None
  <2>1. FreeFds(p) \in SUBSET Nat
    BY Nones DEF FreeFds
  <2>2. Min(FreeFds(p)) \in FreeFds(p)
    BY <1>1, <2>1, MinIsIn
  <2> QED  BY <2>2 DEF FreeFds
<1> PICK f \in FileSlots : f = fds[p][d0]
  BY OpenInode
<1> PICK n \in Nat : n = file[f].ref /\ n > 0
  <2>1. file[f].ref > 0
    BY OpenInode
  <2> QED  BY <2>1, <1>b DEF Typed, FileRec
<1> PICK s \in Slots : s = file[f].ip
  <2>1. InodeOf(p, d0) \in Slots
    BY OpenInode
  <2> QED  BY <2>1 DEF InodeOf
<1> PICK r : r = [file[f] EXCEPT !.ref = n + 1]
  OBVIOUS
<1>2. r \in FileRec /\ r.ref = n + 1 /\ r.ip = s /\ r.ref # 0 /\ s # None
  <2>1. n + 1 \in Nat /\ n + 1 # 0
    OBVIOUS
  <2> PICK m \in Nat : m = n + 1
    BY <2>1
  <2>2. file[f] \in FileRec /\ r = [file[f] EXCEPT !.ref = m]
    BY <1>b DEF Typed
  <2>3. r \in FileRec /\ r.ref = m /\ r.ip = s
    BY <2>2 DEF FileRec
  <2> QED  BY <2>1, <2>3, Nones
<1>3. file' = [file EXCEPT ![f] = r] /\ fds' = [fds EXCEPT ![p][d] = f]
  OBVIOUS
<1>4. FileMoves(p, d, f, f, r)
  <2>1. FileRefsMove(p, d, f)
    <3>1. file \in [FileSlots -> FileRec]
      BY <1>b DEF Typed
    <3> SUFFICES ASSUME NEW g \in FileSlots
                 PROVE  file'[g].ref + One(fds[p][d] = g) = file[g].ref + One(f = g)
      BY DEF FileRefsMove
    <3>2. One(fds[p][d] = g) = 0
      BY Nones DEF One
    <3>3. file[g].ref \in Nat
      BY <3>1 DEF FileRec
    <3>4. CASE g = f
      <4>1. file'[g] = r /\ One(f = g) = 1
        BY <1>3, <3>1, <3>4 DEF One
      <4>2. file'[g].ref = n + 1 /\ file[g].ref = n
        BY <1>2, <3>4, <4>1
      <4> QED  BY <3>2, <4>1, <4>2
    <3>5. CASE g # f
      <4>1. file'[g] = file[g] /\ One(f = g) = 0
        BY <1>3, <3>1, <3>5 DEF One
      <4> QED  BY <3>2, <3>3, <4>1
    <3> QED  BY <3>4, <3>5
  <2> QED  BY <1>1, <1>2, <1>3, <2>1 DEF FileMoves
<1> PICK c : c = cwd[p]
  OBVIOUS
<1> PICK l : l = NoLocals
  OBVIOUS
<1> PICK at : at = "idle"
  OBVIOUS
<1>5. loc[p] = l /\ l \in LocRec /\ l.child = None /\ at \in Points
  BY <1>1, <1>b DEF LRefs, LocRec, OpNames, NoLocals, Points
<1>6. Moves(p, at, l, c)
  <2>1. /\ pc \in [Procs -> Points] /\ loc \in [Procs -> LocRec]
        /\ cwd \in [Procs -> Slots \cup {None}]
    BY <1>b DEF Typed
  <2> QED  BY <1>1, <1>5, <2>1 DEF Moves
<1>7. RefsFile(p, l, f, r)
  BY <1>2, <1>5 DEF RefsFile
<1>8. LockMoves(p, None) /\ ilk' \in [Slots -> Procs \cup {None}]
  <2>1. Locked(p) = None
    BY <1>1 DEF Locked, Reading
  <2> QED  BY <1>1, <2>1, LockKinds
<1>9. /\ Moved(p, at, l, c) /\ TypeOK' /\ RefsExact' /\ Held' /\ FilesKept /\ InvFile'
      /\ TableStep /\ FdMoves(p, d, f)
  BY <1>2, <1>4, <1>5, <1>6, <1>7, <1>8, FileRefs
<1>10. LocalOK(p)' /\ Locked(p)' = None
  BY <1>9, IdleLocal DEF Moved
<1>11. pc[p] # "dead" /\ pc[p] # "idup" /\ at # "dead"
  BY <1>1
<1> QED  BY <1>5, <1>8, <1>9, <1>10, <1>11, FileEnd
-----------------------------------------------------------------------------
(* clone(): the child is dead until it has all it gets.                    *)

(* It gets the files of its parent, one descriptor for each of theirs.      *)
LEMMA CloneFiles ==
  ASSUME Typed, NEW p \in Procs, NEW q \in Procs \ {p}, NoFds(q),
         fds' = [fds EXCEPT ![q] = fds[p]], NEW g \in FileSlots
  PROVE  /\ Cardinality(FileHolders(g)) \in Nat
         /\ Cardinality({d \in Fds : fds[p][d] = g}) \in Nat
         /\ Cardinality(FileHolders(g)')
              = Cardinality(FileHolders(g)) + Cardinality({d \in Fds : fds[p][d] = g})
<1>1. fds \in [Procs -> [Fds -> FileSlots \cup {None}]]
  BY DEF Typed
<1> PICK D : D = {d \in Fds : fds[p][d] = g}
  OBVIOUS
<1> PICK H : H = FileHolders(g)
  OBVIOUS
<1>2. FileHolders(g)' = H \cup ({q} \X D)
  <2>1. ASSUME NEW r \in Procs, NEW d \in Fds
        PROVE  fds'[r][d] = g <=> <<r, d>> \in H \cup ({q} \X D)
    <3>1. CASE r = q
      <4>1. fds'[r] = fds[p] /\ <<r, d>> \notin H
        BY <1>1, <3>1, Nones DEF NoFds, FileHolders
      <4> QED  BY <3>1, <4>1
    <3>2. CASE r # q
      <4>1. fds'[r] = fds[r]
        BY <1>1, <3>2
      <4> QED  BY <3>2, <4>1 DEF FileHolders
    <3> QED  BY <3>1, <3>2
  <2>2. FileHolders(g)' = {h \in Procs \X Fds : fds'[h[1]][h[2]] = g}
    BY DEF FileHolders
  <2>3. H \cup ({q} \X D) \subseteq Procs \X Fds
    BY DEF FileHolders
  <2> QED  BY <2>1, <2>2, <2>3
<1>3. H \cap ({q} \X D) = {}
  BY Nones DEF NoFds, FileHolders
<1>4. IsFiniteSet(H) /\ IsFiniteSet(D) /\ Cardinality(H) \in Nat /\ Cardinality(D) \in Nat
  <2>1. H \in SUBSET (Procs \X Fds) /\ D \in SUBSET Fds
    BY DEF FileHolders
  <2> QED  BY <2>1, Finite, FS_Subset, FS_CardinalityType
<1>5. IsFiniteSet({q} \X D) /\ Cardinality({q} \X D) = Cardinality(D)
  <2>1. IsFiniteSet({q}) /\ Cardinality({q}) = 1
    BY FS_Singleton
  <2>2. IsFiniteSet({q} \X D) /\ Cardinality({q} \X D) = 1 * Cardinality(D)
    BY <1>4, <2>1, FS_Product
  <2> QED  BY <1>4, <2>2
<1>6. Cardinality(H \cup ({q} \X D)) = Cardinality(H) + Cardinality({q} \X D) - 0
  BY <1>3, <1>4, <1>5, FS_Union, FS_EmptySet
<1> QED  BY <1>2, <1>4, <1>5, <1>6


(* clone() up to the working directory.                                     *)
LEMMA CloneStep ==
  ASSUME IInv, NEW p \in Procs, Clone(p)
  PROVE  IInv'
<1>b. /\ Typed /\ TableType /\ InvTable /\ Held /\ loc[p] \in LocRec
      /\ cwd[p] \in Slots \cup {None} /\ LRefs(p)
  BY Before
<1>1. /\ pc[p] = "idle" /\ cwd[p] # None /\ pc' = [pc EXCEPT ![p] = "idup"]
      /\ UNCHANGED <<disk, ino, ilk, cwd, cached, calls, panicked>>
  BY DEF Clone, Goto
<1>q. PICK q \in Procs :
      /\ pc[q] = "dead" /\ \A r \in Procs : loc[r].child # q
      /\ fds' = [fds EXCEPT ![q] = fds[p]]
      /\ file' = [f \in FileSlots |->
                   [file[f] EXCEPT
                      !.ref = @ + Cardinality({d \in Fds : fds[p][d] = f})]]
      /\ Locals(p, [NoLocals EXCEPT !.op = "clone", !.child = q])
  BY DEF Clone
<1> PICK l : l = [NoLocals EXCEPT !.op = "clone", !.child = q]
  OBVIOUS
<1> PICK c \in Slots : c = cwd[p]
  BY <1>1, <1>b
<1> PICK at : at = "idup"
  OBVIOUS
<1>2. /\ l \in LocRec /\ l.op = "clone" /\ l.child = q /\ l.ip = None /\ l.dp = None
      /\ l.fd = None /\ l.fd1 = None
  BY DEF NoLocals, LocRec, OpNames, Ops
<1>3. /\ q # p /\ NoFds(q) /\ loc[q] = NoLocals /\ loc[p] = NoLocals /\ cwd[q] = None
  <2>1. LRefs(q) /\ LCwd(q)
    BY Before
  <2>2. NoFds(q)
    BY <1>q DEF IInv, InvChild
  <2> QED  BY <1>1, <1>q, <1>b, <2>1, <2>2 DEF LRefs, LCwd
<1>4. Moves(p, at, l, c) /\ at \in Points
  BY <1>1, <1>q, <1>b DEF Locals, Moves, Points, TablePoints, Typed
<1>5. ASSUME NEW g \in FileSlots
      PROVE  /\ file'[g] \in FileRec /\ file'[g].ip = file[g].ip
             /\ file'[g].ref = Cardinality(FileHolders(g)')
             /\ file'[g].ref = 0 <=> file[g].ref = 0
  <2> PICK m : m = Cardinality({d \in Fds : fds[p][d] = g})
    OBVIOUS
  <2>1. /\ Cardinality(FileHolders(g)) \in Nat /\ m \in Nat
        /\ Cardinality(FileHolders(g)') = Cardinality(FileHolders(g)) + m
    BY <1>3, <1>q, <1>b, CloneFiles
  <2> PICK n \in Nat : n = file[g].ref
    BY <1>b DEF Typed, FileRec
  <2>2. n = Cardinality(FileHolders(g))
    BY DEF IInv, RefsExact
  <2>3. n = 0 => m = 0
    <3> SUFFICES ASSUME n = 0 PROVE m = 0
      OBVIOUS
    <3>1. ~(file[g].ref > 0)
      OBVIOUS
    <3>2. {d \in Fds : fds[p][d] = g} = {}
      BY <3>1, <1>b DEF Held
    <3> QED  BY <3>2, FS_EmptySet
  <2>4. n + m \in Nat /\ (n + m = 0 <=> n = 0)
    BY <2>1, <2>3
  <2> PICK k \in Nat : k = n + m
    BY <2>4
  <2>5. file'[g] = [file[g] EXCEPT !.ref = k] /\ file[g] \in FileRec
    BY <1>q, <1>b DEF Typed
  <2>6. file'[g] \in FileRec /\ file'[g].ip = file[g].ip /\ file'[g].ref = k
    BY <2>5 DEF FileRec
  <2> QED  BY <2>1, <2>2, <2>4, <2>6
<1>6. /\ file' \in [FileSlots -> FileRec]
      /\ fds' \in [Procs -> [Fds -> FileSlots \cup {None}]]
      /\ fds'[q] = fds[p] /\ \A r \in Procs \ {q} : fds'[r] = fds[r]
  <2>1. file' \in [FileSlots -> FileRec]
    <3>1. file' = [g \in FileSlots |-> file'[g]]
      BY <1>q
    <3> QED  BY <1>5, <3>1
  <2>2. fds \in [Procs -> [Fds -> FileSlots \cup {None}]]
    BY <1>b DEF Typed
  <2> QED  BY <1>q, <2>1, <2>2
<1>7. TableStep
  BY <1>1, <1>b, UntouchedIs
<1>8. Moved(p, at, l, c) /\ TypeOK' /\ RefsExact' /\ Held'
  <2> PICK f \in FileSlots, e \in Entries : TRUE
    <3>1. 0 \in FileSlots /\ 1 \in Entries
      BY FilesAssumption DEF FileSlots, Entries
    <3> QED  BY <3>1
  <2>1. /\ \A g \in FileSlots \ {f} : file'[g].ip = file[g].ip
        /\ \A b \in Entries \ {e} : cached'[b] = cached[b]
        /\ cached' \in [Entries -> Slots \cup {None}]
        /\ ilk' \in [Slots -> Procs \cup {None}]
        /\ \A g \in FileSlots : file'[g].ref = Cardinality(FileHolders(g)')
    BY <1>1, <1>5, <1>b DEF Typed
  <2>2. ASSUME NEW s \in Slots
        PROVE  ino'[s].ref + Part(p, p, f, e, s) = ino[s].ref + Part(p, p, f, e, s)'
    <3>1. loc'[p] = l /\ loc[p].ip = None /\ loc[p].dp = None
      <4>1. loc'[p] = l
        BY <1>4, <1>b DEF Moves, Typed
      <4>2. NoLocals.ip = None /\ NoLocals.dp = None
        BY DEF NoLocals
      <4> QED  BY <1>3, <4>1, <4>2
    <3>2. Part(p, p, f, e, s)' = Part(p, p, f, e, s)
      BY <1>1, <1>2, <1>5, <3>1 DEF Part
    <3> QED  BY <1>1, <3>2
  <2>3. calls' = calls /\ panicked' = panicked /\ c \in Slots \cup {None}
    BY <1>1
  <2> QED  BY <1>2, <1>4, <1>6, <1>7, <2>1, <2>2, <2>3, AllRefs
<1>9. FilesKept /\ InvFile' /\ Kept
  <2>1. FilesKept
    BY <1>5 DEF FilesKept
  <2>2. InvFile'
    BY <1>5 DEF InvFile, IInv
  <2> QED  BY <1>7, <2>1, <2>2 DEF TableStep
<1>10. /\ pc'[p] = at /\ loc'[p] = l /\ cwd'[p] = c
       /\ \A r \in Procs \ {p} : pc'[r] = pc[r] /\ loc'[r] = loc[r] /\ cwd'[r] = cwd[r]
  BY <1>8 DEF Moved
<1>11. LocalOK(p)' /\ Locked(p)' = None
  <2>1. ~Reading(p)' /\ Locked(p)' = None
    BY <1>10 DEF Reading, Locked
  <2>2. LRefs(p)' /\ LFds(p)' /\ LPath(p)' /\ LGoal(p)'
    BY <1>2, <1>10, <2>1 DEF LRefs, LFds, LPath, LGoal, HasIp, HasDp, Walking
  <2>3. LOps(p)'
    BY <1>2, <1>10, Nones DEF LOps, Walking
  <2>4. LCwd(p)'
    BY <1>2, <1>10, Nones DEF LCwd
  <2> QED  BY <2>1, <2>2, <2>3, <2>4 DEF LocalOK
<1>12. LocalOK(q)' /\ Locked(q)' = None
  BY <1>3, <1>q, <1>10, IdleLocal
<1>13. Locked(p) = None /\ Locked(q) = None
  BY <1>1, <1>q DEF Locked, Reading
<1>14. ASSUME NEW r \in Procs PROVE LocalOK(r)' /\ Locked(r)' = Locked(r)
  <2>1. CASE r # p /\ r # q
    BY <1>6, <1>8, <1>9, <1>10, <2>1, Bystander
  <2> QED  BY <2>1, <1>11, <1>12, <1>13
<1>15. InvLocal' /\ InvLock'
  BY <1>1, <1>14 DEF InvLocal, InvLock, IInv
<1>16. InvChild'
  <2>1. ASSUME NEW r \in Procs, loc'[r].child # None PROVE pc'[loc'[r].child] = "dead"
    <3>1. CASE r = p
      <4>1. loc'[r].child = q
        BY <1>2, <1>10, <3>1
      <4>2. pc'[q] = pc[q]
        BY <1>3, <1>10
      <4> QED  BY <1>q, <4>1, <4>2
    <3>2. CASE r # p
      <4>1. loc'[r] = loc[r] /\ loc \in [Procs -> LocRec]
        BY <1>10, <1>b, <3>2 DEF Typed
      <4>2. loc[r].child \in Procs /\ pc[loc[r].child] = "dead"
        BY <2>1, <4>1 DEF LocRec, IInv, InvChild
      <4> QED  BY <1>1, <1>10, <4>1, <4>2
    <3> QED  BY <3>1, <3>2
  <2>2. ASSUME NEW r \in Procs, NEW t \in Procs,
               loc'[r].child # None, loc'[r].child = loc'[t].child
        PROVE  r = t
    <3>1. loc'[p].child = q
      BY <1>2, <1>10
    <3>2. \A u \in Procs \ {p} : loc'[u].child = loc[u].child /\ loc[u].child # q
      BY <1>q, <1>10
    <3>3. CASE r = p \/ t = p
      BY <2>2, <3>1, <3>2, <3>3
    <3>4. CASE r # p /\ t # p
      <4>1. loc[r].child # None /\ loc[r].child = loc[t].child
        BY <2>2, <3>2, <3>4
      <4> QED  BY <4>1 DEF IInv, InvChild
    <3> QED  BY <3>3, <3>4
  <2>3. ASSUME NEW r \in Procs, pc'[r] = "dead", ~NoFds(r)'
        PROVE  \E t \in Procs : loc'[t].child = r
    <3>1. CASE r = q
      BY <1>2, <1>10, <3>1
    <3>2. CASE r # q
      <4>1. r # p /\ pc[r] = "dead" /\ ~NoFds(r)
        BY <1>6, <1>10, <2>3, <3>2 DEF NoFds
      <4>2. PICK t \in Procs : loc[t].child = r
        BY <4>1 DEF IInv, InvChild
      <4>3. t # p
        BY <1>3, <4>2, Nones DEF NoLocals
      <4> QED  BY <1>10, <4>2, <4>3
    <3> QED  BY <3>1, <3>2
  <2> QED  BY <2>1, <2>2, <2>3 DEF InvChild
<1> QED  BY <1>7, <1>8, <1>9, <1>15, <1>16 DEF IInv, TableStep

(* At last it gets the working directory, and both go on.                   *)
LEMMA CloneCwdStep ==
  ASSUME IInv, NEW p \in Procs, CloneCwd(p)
  PROVE  IInv'
<1>b. /\ Typed /\ TableType /\ InvTable /\ Held /\ RefsExact /\ loc[p] \in LocRec
      /\ cwd[p] \in Slots \cup {None} /\ LRefs(p) /\ LOps(p) /\ LCwd(p)
  BY Before
<1>1. /\ pc[p] = "idup" /\ loc' = [loc EXCEPT ![p] = NoLocals]
      /\ UNCHANGED <<disk, ilk, file, fds, cached, calls, panicked>>
  BY DEF CloneCwd, Locals
<1>2. loc[p].child # None /\ loc[p].op = "clone" /\ cwd[p] # None
  BY <1>1, <1>b DEF LOps, LCwd
<1> PICK q \in Procs : q = loc[p].child
  BY <1>2, <1>b DEF LocRec
<1> PICK s \in Slots : s = cwd[p]
  BY <1>2, <1>b
<1>3. /\ pc[q] = "dead" /\ q # p /\ loc[q] = NoLocals /\ cwd[q] = None
      /\ loc[p].ip = None /\ loc[p].dp = None /\ Live(s)
  <2>1. LRefs(q) /\ LCwd(q)
    BY Before
  <2>2. pc[q] = "dead"
    BY <1>2 DEF IInv, InvChild
  <2> QED  BY <1>1, <1>b, <2>1, <2>2 DEF LRefs, LCwd, HasIp, HasDp, Held
<1>4. /\ pc' = [pc EXCEPT ![p] = "idle", ![q] = "idle"]
      /\ cwd' = [cwd EXCEPT ![q] = s] /\ ino' = Referenced(s)
  BY DEF CloneCwd
<1>5. /\ pc \in [Procs -> Points] /\ loc \in [Procs -> LocRec]
      /\ cwd \in [Procs -> Slots \cup {None}]
  BY <1>b DEF Typed
<1>6. /\ pc'[p] = "idle" /\ pc'[q] = "idle" /\ loc'[p] = NoLocals /\ loc'[q] = NoLocals
      /\ cwd'[q] = s
      /\ \A r \in Procs \ {q} : cwd'[r] = cwd[r]
      /\ \A r \in Procs \ {p} : loc'[r] = loc[r]
      /\ \A r \in Procs \ {p, q} : pc'[r] = pc[r]
  BY <1>1, <1>3, <1>4, <1>5
<1>7. TableStep /\ Adds(s)
  BY <1>1, <1>3, <1>4, <1>b, ReferencedIs
<1>8. TypeOK'
  <2>1. NoLocals \in LocRec /\ "idle" \in Points
    BY DEF NoLocals, LocRec, OpNames, Points
  <2>2. /\ pc' \in [Procs -> Points] /\ loc' \in [Procs -> LocRec]
        /\ cwd' \in [Procs -> Slots \cup {None}]
    BY <1>1, <1>4, <1>5, <2>1
  <2> QED  BY <1>1, <1>7, <1>b, <2>2, TypesNext DEF Typed, TableStep
<1>9. RefsExact'
  <2> PICK f \in FileSlots, e \in Entries : TRUE
    <3>1. 0 \in FileSlots /\ 1 \in Entries
      BY FilesAssumption DEF FileSlots, Entries
    <3> QED  BY <3>1
  <2>1. ASSUME NEW t \in Slots
        PROVE  ino'[t].ref + Part(p, q, f, e, t) = ino[t].ref + Part(p, q, f, e, t)'
    <3>1. /\ loc'[p].ip = None /\ loc'[p].dp = None /\ cwd[q] # t /\ t # None
      BY <1>3, <1>6, Nones DEF NoLocals
    <3> PICK v, w, x \in Nat : /\ v = One(file[f].ip = t) /\ w = One(cached[e] = t)
                               /\ x = One(t = s)
      BY DEF One
    <3>2. Part(p, q, f, e, t) = 0 + 0 + 0 + v + w
      BY <1>3, <3>1 DEF Part, One
    <3>3. Part(p, q, f, e, t)' = 0 + 0 + x + v + w
      BY <1>1, <1>6, <3>1 DEF Part, One
    <3> PICK r0, r1 \in Nat : r0 = ino[t].ref /\ r1 = ino'[t].ref
      BY <1>7, <1>b DEF TableStep, TableType, InoRec
    <3>4. r1 = r0 + x
      BY <1>7 DEF Adds
    <3>5. r1 + (0 + 0 + 0 + v + w) = r0 + (0 + 0 + x + v + w)
      BY <3>4
    <3> QED  BY <3>2, <3>3, <3>5
  <2>2. /\ \A g \in FileSlots \ {f} : file'[g].ip = file[g].ip
        /\ \A d \in Entries \ {e} : cached'[d] = cached[d]
        /\ TableType'
    BY <1>1, <1>7 DEF TableStep
  <2>3. \A t \in Slots : ino'[t].ref = InodeHolders(t)'
    BY <1>6, <1>b, <2>1, <2>2, InodeRefs
  <2>4. \A g \in FileSlots : file'[g].ref = Cardinality(FileHolders(g)')
    BY <1>1, <1>b DEF RefsExact, FileHolders
  <2> QED  BY <2>3, <2>4 DEF RefsExact
<1>10. Held'
  BY <1>9, HeldIs, PTL
<1>11. FilesKept /\ InvFile' /\ Kept
  BY <1>1, <1>7 DEF FilesKept, InvFile, IInv, TableStep
<1>12. LocalOK(p)' /\ Locked(p)' = None /\ LocalOK(q)' /\ Locked(q)' = None
  BY <1>6, IdleLocal
<1>13. Locked(p) = None /\ Locked(q) = None
  BY <1>1, <1>3 DEF Locked, Reading
<1>14. ASSUME NEW r \in Procs PROVE LocalOK(r)' /\ Locked(r)' = Locked(r)
  <2>1. CASE r # p /\ r # q
    <3>1. pc'[r] = pc[r] /\ loc'[r] = loc[r] /\ cwd'[r] = cwd[r] /\ fds'[r] = fds[r]
      BY <1>1, <1>6, <2>1
    <3> QED  BY <1>8, <1>10, <1>11, <3>1, Bystander
  <2> QED  BY <2>1, <1>12, <1>13
<1>15. InvLocal' /\ InvLock'
  BY <1>1, <1>14 DEF InvLocal, InvLock, IInv
<1>16. InvChild'
  <2>1. ASSUME NEW r \in Procs, loc'[r].child # None
        PROVE  /\ r # p /\ loc'[r] = loc[r] /\ pc'[loc'[r].child] = "dead"
    <3>1. r # p
      BY <1>6, <2>1 DEF NoLocals
    <3>2. loc'[r] = loc[r] /\ loc[r] \in LocRec
      BY <1>5, <1>6, <3>1
    <3>3. loc[r].child \in Procs /\ pc[loc[r].child] = "dead"
      BY <2>1, <3>2 DEF LocRec, IInv, InvChild
    <3>4. loc[r].child # q
      BY <1>2, <3>1 DEF IInv, InvChild
    <3>5. loc[r].child # p
      BY <1>1, <3>3
    <3> QED  BY <1>6, <3>1, <3>2, <3>3, <3>4, <3>5
  <2>2. ASSUME NEW r \in Procs, NEW t \in Procs,
               loc'[r].child # None, loc'[r].child = loc'[t].child
        PROVE  r = t
    BY <2>1, <2>2 DEF IInv, InvChild
  <2>3. ASSUME NEW r \in Procs, pc'[r] = "dead", ~NoFds(r)'
        PROVE  \E t \in Procs : loc'[t].child = r
    <3>1. r # p /\ r # q /\ pc[r] = "dead" /\ ~NoFds(r)
      BY <1>1, <1>6, <2>3 DEF NoFds
    <3>2. PICK t \in Procs : loc[t].child = r
      BY <3>1 DEF IInv, InvChild
    <3>3. t # p
      BY <3>1, <3>2
    <3> QED  BY <1>6, <3>2, <3>3
  <2> QED  BY <2>1, <2>2, <2>3 DEF InvChild
<1> QED  BY <1>7, <1>8, <1>9, <1>11, <1>15, <1>16 DEF IInv, TableStep
-----------------------------------------------------------------------------
(* The whole of it.                                                        *)

(* A panic changes no more than panicked, and a stuttering step not even it. *)
LEMMA StillStep ==
  ASSUME IInv, UNCHANGED <<disk, ino, ilk, file, fds, cwd, cached, pc, loc, calls>>,
         panicked' \in {"no", "iget: no inodes", "ilock", "iput: f_rename failed", "noff"}
  PROVE  IInv'
<1>1. TypeOK'
  BY DEF IInv, TypeOK
<1>2. RefsExact'
  BY DEF IInv, RefsExact, FileHolders, InodeHolders
<1>3. InvLock' /\ InvChild' /\ InvFile'
  <2>1. \A p \in Procs : Locked(p)' = Locked(p)
    BY DEF Locked, Reading, InodeOf
  <2>2. InvLock'
    BY <2>1 DEF IInv, InvLock
  <2>3. InvChild' /\ InvFile'
    BY DEF IInv, InvChild, InvFile, NoFds
  <2> QED  BY <2>2, <2>3
<1>4. InvTable'
  BY DEF IInv, InvTable, EntryOK, OneEntryPerFile, Live
<1>5. InvLocal'
  <2> SUFFICES ASSUME NEW p \in Procs PROVE LocalOK(p)'
    BY DEF InvLocal
  <2>1. LocalOK(p)
    BY DEF IInv, InvLocal
  <2>2. LRefs(p)' /\ LFds(p)' /\ LOps(p)' /\ LCwd(p)'
    <3>1. LRefs(p)' /\ LCwd(p)'
      BY <2>1 DEF LocalOK, LRefs, LCwd
    <3>2. LFds(p)'
      BY <2>1 DEF LocalOK, LFds, Reading
    <3>3. LOps(p)'
      BY <2>1 DEF LocalOK, LOps, NoFds
    <3> QED  BY <3>1, <3>2, <3>3
  <2>3. LGoal(p)' /\ LPath(p)'
    BY <2>1 DEF LocalOK, LGoal, LPath, CwdPath, InodeOf, IpPath, DpPath
  <2> QED  BY <2>2, <2>3 DEF LocalOK
<1> QED  BY <1>1, <1>2, <1>3, <1>4, <1>5 DEF IInv

(* What the kernel does keeps the invariant, *)
LEMMA StepKeeps ==
  ASSUME IInv, NEW p \in Procs, Step(p)
  PROVE  IInv'
<1>1. CASE Panic(p)
  <2>1. panicked' \in {"no", "iget: no inodes", "ilock", "iput: f_rename failed", "noff"}
    BY <1>1 DEF Panic
  <2> QED  BY <1>1, <2>1, StillStep DEF Panic
<1>2. CASE ~Panics(p) /\ WalkPath(p)
  BY <1>2, FirstCwdStep, WalkFromStep, WalkStepStep, WalkLookupStep, WalkPutStep
     DEF WalkPath
<1>3. CASE ~Panics(p) /\ Create(p)
  BY <1>3, CreateLookupStep, CreatePutStep, CreateFoundStep, IcreateStep, LockNewStep,
     NewPutStep DEF Create
<1>4. CASE ~Panics(p) /\ OpenFound(p)
  BY <1>4, FoundStep, ChdirPutStep, OpenFileStep, OpenFailsStep DEF OpenFound
<1>5. CASE ~Panics(p) /\ Finish(p)
  BY <1>5, MarkUnlinkedStep, NoteNewPathStep, PutStep, CloseAtEndStep, CloseOldStep
     DEF Finish
<1>6. CASE ~Panics(p) /\ UsePage(p)
  BY <1>6, ReadLockStep, GetPageStep, EvictStep, AddPageStep DEF UsePage
<1>7. CASE ~Panics(p) /\ Leave(p)
  BY <1>7, CloneCwdStep, ExitFileStep, ExitCwdStep, FlushStep DEF Leave
<1> QED  BY <1>1, <1>2, <1>3, <1>4, <1>5, <1>6, <1>7 DEF Step

(* ... and every call that begins.                                          *)
LEMMA CallKeeps ==
  ASSUME IInv, NEW p \in Procs, Call(p)
  PROVE  IInv'
BY PathCallStep, ReadStep, CallCloseStep, DupStep, CloneStep, ExitStep DEF Call

(* It holds at the start: nobody has anything.                              *)
LEMMA InitIInv == Init => IInv
<1> SUFFICES ASSUME Init PROVE IInv
  OBVIOUS
<1> PICK shell \in Procs : pc = [p \in Procs |-> IF p = shell THEN "idle" ELSE "dead"]
  BY DEF Init
<1>1. /\ disk \in [Paths -> {"none", "file", "dir"}] /\ disk[Root] = "dir"
  BY FilesAssumption DEF Init
<1>2. /\ \A s \in Slots : ino[s] = NoInode /\ ilk[s] = None
      /\ \A f \in FileSlots : file[f].ref = 0 /\ file[f].ip = None
      /\ \A p \in Procs : /\ loc[p] = NoLocals /\ cwd[p] = None
                          /\ pc[p] \in {"idle", "dead"}
                          /\ \A d \in Fds : fds[p][d] = None
      /\ \A e \in Entries : cached[e] = None
  BY DEF Init
<1>3. /\ NoLocals.ip = None /\ NoLocals.dp = None /\ NoLocals.child = None
      /\ NoLocals.op = None /\ NoLocals.fd = None /\ NoLocals.fd1 = None
  BY DEF NoLocals
<1>4. TypeOK
  <2>1. NoInode \in InoRec /\ NoLocals \in LocRec
        /\ [ref |-> 0, ip |-> None] \in FileRec /\ {"idle", "dead"} \subseteq Points
    BY DEF NoInode, InoRec, NoLocals, LocRec, OpNames, FileRec, Points
  <2>2. /\ ino \in [Slots -> InoRec] /\ ilk \in [Slots -> Procs \cup {None}]
        /\ file \in [FileSlots -> FileRec]
        /\ fds \in [Procs -> [Fds -> FileSlots \cup {None}]]
    BY <2>1 DEF Init
  <2>3. /\ cwd \in [Procs -> Slots \cup {None}] /\ loc \in [Procs -> LocRec]
        /\ cached \in [Entries -> Slots \cup {None}] /\ pc \in [Procs -> Points]
    BY <2>1 DEF Init
  <2>4. calls \in Nat /\ panicked = "no"
    BY DEF Init
  <2> QED  BY <1>1, <2>2, <2>3, <2>4, Types DEF Typed, TableType, Kinds
<1>5. RefsExact
  <2>1. ASSUME NEW f \in FileSlots PROVE file[f].ref = Cardinality(FileHolders(f))
    <3>1. FileHolders(f) = {}
      BY <1>2, Nones DEF FileHolders
    <3> QED  BY <1>2, <3>1, FS_EmptySet
  <2>2. ASSUME NEW s \in Slots PROVE ino[s].ref = InodeHolders(s)
    <3>1. s # None
      BY Nones
    <3>2. /\ {e \in Entries : cached[e] = s} = {} /\ {f \in FileSlots : file[f].ip = s} = {}
          /\ {p \in Procs : cwd[p] = s} = {} /\ {p \in Procs : loc[p].ip = s} = {}
          /\ {p \in Procs : loc[p].dp = s} = {}
      BY <1>2, <1>3, <3>1
    <3>3. InodeHolders(s) = 0
      <4>1. InodeHolders(s) = Cardinality({}) + Cardinality({}) + Cardinality({})
                                + Cardinality({}) + Cardinality({})
        BY <3>2 DEF InodeHolders
      <4>2. Cardinality({}) = 0
        BY FS_EmptySet
      <4> QED  BY <4>1, <4>2
    <3> QED  BY <1>2, <3>3 DEF NoInode
  <2> QED  BY <2>1, <2>2 DEF RefsExact
<1>6. ASSUME NEW p \in Procs PROVE LocalOK(p) /\ Locked(p) = None
  <2>1. None # "flush" /\ None \notin PathOps \cup {"clone", "exit"} /\ None # "rename"
    BY Nones DEF Ops, PathOps
  <2>2. pc[p] \in {"idle", "dead"} /\ loc[p] = NoLocals /\ cwd[p] = None /\ NoFds(p)
    BY <1>2 DEF NoFds
  <2>3. ~Reading(p) /\ Locked(p) = None
    BY <2>2 DEF Reading, Locked
  <2>4. LRefs(p) /\ LFds(p) /\ LOps(p)
    BY <1>3, <2>1, <2>2, <2>3 DEF LRefs, LFds, LOps, HasIp, HasDp, Walking
  <2>5. LCwd(p) /\ LGoal(p) /\ LPath(p)
    BY <1>3, <2>1, <2>2 DEF LCwd, LGoal, LPath, Walking
  <2> QED  BY <2>3, <2>4, <2>5 DEF LocalOK
<1>7. InvLocal /\ InvLock
  BY <1>2, <1>6, Nones DEF InvLocal, InvLock
<1>8. InvChild /\ InvFile
  BY <1>2, <1>3 DEF InvChild, InvFile, NoFds
<1>9. InvTable
  <2>1. \A s \in Slots : ~Live(s) /\ ino[s] = NoInode
    <3>1. NoInode.ref = 0 /\ ~(0 > 0)
      BY DEF NoInode
    <3> QED  BY <1>2, <3>1 DEF Live
  <2> QED  BY <1>1, <2>1 DEF InvTable, EntryOK, OneEntryPerFile
<1> QED  BY <1>4, <1>5, <1>7, <1>8, <1>9 DEF IInv

(* The inductive invariant: the counts are exact because each process has   *)
(* just the references, locks and descriptors that go with its point.       *)
THEOREM Invariance == Spec => []IInv
<1>1. IInv /\ [Next]_vars => IInv'
  <2> SUFFICES ASSUME IInv, [Next]_vars PROVE IInv'
    OBVIOUS
  <2>1. CASE Next
    BY <2>1, StepKeeps, CallKeeps DEF Next
  <2>2. CASE UNCHANGED vars
    <3>1. panicked' \in {"no", "iget: no inodes", "ilock", "iput: f_rename failed",
                         "noff"}
      BY <2>2, Types DEF vars, IInv, Typed
    <3> QED  BY <2>2, <3>1, StillStep DEF vars
  <2> QED  BY <2>1, <2>2
<1> QED  BY <1>1, InitIInv, PTL DEF Spec

(* Types: for any number of processes, paths, files, inodes and pages.      *)
THEOREM TypeCorrect == Spec => []TypeOK
BY Invariance, PTL DEF IInv

(* iput() and fileclose(): a count is the number of those who refer to the  *)
(* file or the inode, in descriptors, working directories, pages and calls. *)
THEOREM RefsExactHolds == Spec => []RefsExact
BY Invariance, PTL DEF IInv

(* dirlookup() and icreate(): a file has at most one entry in the table.    *)
THEOREM OneEntryPerFileHolds == Spec => []OneEntryPerFile
<1>1. IInv => OneEntryPerFile
  BY DEF IInv, InvTable
<1> QED  BY <1>1, Invariance, PTL

(* iput(): what is open is on the disk, and a locked inode is in use.       *)
THEOREM OpenExistsHolds == Spec => []OpenExists
<1>1. ASSUME IInv PROVE OpenExists
  <2> SUFFICES ASSUME NEW s \in Slots
               PROVE  /\ Live(s) => disk[ino[s].path] = ino[s].kind
                      /\ ilk[s] # None => Live(s)
    BY DEF OpenExists
  <2>1. Live(s) => disk[ino[s].path] = ino[s].kind
    BY <1>1 DEF IInv, InvTable, EntryOK
  <2>2. ASSUME ilk[s] # None PROVE Live(s)
    <3> PICK q \in Procs : q = ilk[s]
      BY <1>1, <2>2, Types DEF IInv, Typed
    <3>1. Locked(q) = s /\ Held /\ LFds(q) /\ loc[q] \in LocRec
      BY <1>1, Before
    <3>2. s # None
      BY Nones
    <3>3. CASE loc[q].ip = s \/ loc[q].dp = s
      BY <3>1, <3>3 DEF Held
    <3>4. CASE ~(loc[q].ip = s \/ loc[q].dp = s)
      <4>1. Reading(q) /\ InodeOf(q, loc[q].fd) = s
        BY <3>1, <3>2, <3>4 DEF Locked
      <4>2. loc[q].fd \in Fds /\ fds[q][loc[q].fd] # None
        BY <3>1, <4>1 DEF LFds, LocRec
      <4> QED  BY <1>1, <4>1, <4>2, OpenInode
    <3> QED  BY <3>3, <3>4
  <2> QED  BY <2>1, <2>2
<1> QED  BY <1>1, Invariance, PTL
-----------------------------------------------------------------------------
(* Waiting.                                                                *)

(* What a process wants to lock is an inode in the table.                   *)
LEMMA WantsInode ==
  ASSUME IInv, NEW p \in Procs, Wants(p) # None
  PROVE  Wants(p) \in Slots
<1>b. loc[p] \in LocRec /\ LFds(p)
  BY Before
<1>1. CASE pc[p] \in {"walk", "cfound", "newlock", "found"}
  <2>1. Wants(p) = loc[p].ip
    BY <1>1 DEF Wants
  <2> QED  BY <1>b, <2>1 DEF LocRec
<1>2. CASE pc[p] \in {"mark", "read"}
  <2>1. Wants(p) = InodeOf(p, loc[p].fd)
    BY <1>2 DEF Wants
  <2>2. loc[p].fd \in Fds /\ fds[p][loc[p].fd] # None
    BY <1>2, <1>b DEF LFds, LocRec
  <2> QED  BY <2>1, <2>2, OpenInode
<1>3. CASE pc[p] = "rename"
  <2>1. Wants(p) = InodeOf(p, loc[p].fd1)
    BY <1>3 DEF Wants
  <2>2. loc[p].fd1 \in Fds /\ fds[p][loc[p].fd1] # None
    BY <1>3, <1>b DEF LFds, LocRec
  <2> QED  BY <2>1, <2>2, OpenInode
<1>4. CASE pc[p] \notin {"walk", "cfound", "newlock", "found", "mark", "read", "rename"}
  BY <1>4 DEF Wants
<1> QED  BY <1>1, <1>2, <1>3, <1>4

(* Only create() waits with a lock in hand, that of the directory, for what *)
(* it has made in it.                                                       *)
Waiting(q, s) == /\ pc[q] = "newlock" /\ loc[q].dp = s /\ loc[q].ip \in Slots
                 /\ ilk[loc[q].ip] # None

(* Who holds the lock of s is in a call, and blocked only that way.         *)
LEMMA HolderIs ==
  ASSUME IInv, \A q \in Procs : pc[q] # "evict", NEW s \in Slots, ilk[s] # None
  PROVE  \E q \in Procs : InCall(q) /\ (Blocked(q) => Waiting(q, s))
<1> PICK q \in Procs : q = ilk[s]
  BY Types DEF IInv, Typed
<1>1. Locked(q) = s /\ s # None
  BY Nones, Before
<1>2. pc[q] \in {"lookup", "clookup", "icreate", "newlock", "newput", "alloc", "page",
                 "pageadd"}
  BY <1>1 DEF Locked, Reading
<1>3. InCall(q)
  BY <1>2 DEF InCall
<1>4. ASSUME Blocked(q) PROVE Waiting(q, s)
  <2>1. Wants(q) # None /\ ilk[Wants(q)] # None
    BY <1>4 DEF Blocked
  <2>2. pc[q] = "newlock" /\ Wants(q) = loc[q].ip
    BY <1>2, <2>1 DEF Wants
  <2>3. Wants(q) \in Slots
    BY <2>1, WantsInode
  <2>4. loc[q].dp = s
    BY <1>1, <2>2 DEF Locked
  <2> QED  BY <2>1, <2>2, <2>3, <2>4 DEF Waiting
<1> QED  BY <1>3, <1>4

(* What a waiting create() has made is a name in its directory, below no    *)
(* other; so nobody waits for it with a directory that is in its hands.     *)
LEMMA WaitsBelow ==
  ASSUME IInv, NEW q \in Procs, NEW s \in Slots, Waiting(q, s)
  PROVE  \E g \in Paths \ {Root} :
           /\ ino[s].path = Parent[g] /\ ino[loc[q].ip].path = g
<1>b. LOps(q) /\ LPath(q)
  BY Before
<1>1. loc[q].goal \in Paths \ {Root} /\ Parent[loc[q].goal] = DpPath(q)
      /\ IpPath(q) = loc[q].goal
  BY <1>b DEF LOps, LPath, Waiting, Walking
<1> QED  BY <1>1 DEF DpPath, IpPath, Waiting

(* create(), inode_or_parent_by_name(), fileopen(): some call is not blocked. *)
THEOREM SomeCallGoesOnHolds == Spec => []SomeCallGoesOn
<1>1. ASSUME IInv, NEW p \in Procs, Blocked(p),
             \A q \in Procs : InCall(q) => Blocked(q)
      PROVE  FALSE
  <2>1. \A q \in Procs : pc[q] # "evict"
    <3> SUFFICES ASSUME NEW q \in Procs, pc[q] = "evict" PROVE FALSE
      OBVIOUS
    <3>1. InCall(q) /\ Wants(q) = None
      BY DEF InCall, Wants
    <3> QED  BY <1>1, <3>1 DEF Blocked
  <2>2. ASSUME NEW s \in Slots, ilk[s] # None
        PROVE  \E q \in Procs : Waiting(q, s)
    BY <1>1, <2>1, <2>2, HolderIs
  <2>3. Wants(p) # None /\ ilk[Wants(p)] # None
    BY <1>1, <2>1 DEF Blocked
  <2> PICK s \in Slots : s = Wants(p)
    BY <1>1, <2>3, WantsInode
  <2> PICK q \in Procs : Waiting(q, s)
    BY <2>2, <2>3
  <2> PICK t \in Slots : t = loc[q].ip /\ ilk[t] # None
    BY DEF Waiting
  <2> PICK r \in Procs : Waiting(r, t)
    BY <2>2
  <2> PICK u \in Slots : u = loc[r].ip /\ ilk[u] # None
    BY DEF Waiting
  <2> PICK w \in Procs : Waiting(w, u)
    BY <2>2
  <2> PICK g \in Paths \ {Root} : ino[t].path = g
    BY <1>1, WaitsBelow
  <2> PICK h \in Paths \ {Root} : ino[t].path = Parent[h] /\ ino[u].path = h
    BY <1>1, WaitsBelow
  <2> PICK k \in Paths \ {Root} : ino[u].path = Parent[k]
    BY <1>1, WaitsBelow
  <2>4. Parent[h] = g /\ Parent[k] = h
    OBVIOUS
  <2>5. Parent[k] = Root \/ Parent[Parent[k]] = Root
    BY FilesAssumption
  <2> QED  BY <2>4, <2>5
<1>2. IInv => SomeCallGoesOn
  BY <1>1 DEF SomeCallGoesOn
<1> QED  BY <1>2, Invariance, PTL
=============================================================================
