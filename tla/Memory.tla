------------------------------- MODULE Memory -------------------------------
(***************************************************************************)
(* Physical pages, address spaces, mappings and shared memory:              *)
(* src/os/mem/{physical,virtual,shared}.c, the mapping table of              *)
(* src/os/proc/proc.c, and what clone(), exit(), exec(), brk(), mmap(),      *)
(* munmap() and sharedmem() do with them.                                    *)
(*                                                                         *)
(* Only pages are counted.  A process touches no page table but its own (or *)
(* its unborn child's), and kmem and the pool of shared memory have spin     *)
(* locks, so a handler is one step; it is split where it lets go of          *)
(* something others may use before it is done (sharedmem, exec).             *)
(*                                                                         *)
(* Virtual pages: 0 stands for the root page table and the trapframe, which  *)
(* come and go together; 1 is USER_TEXT_START, the program and above it the  *)
(* heap; mappings lie between; Stack is the user stack, and shared memory    *)
(* starts one page above it.  Lower page tables are not counted.             *)
(***************************************************************************)
EXTENDS Naturals, FiniteSets, FiniteSetsExt

CONSTANTS Procs, Shell, Names, None,
          NPages,        \* physical pages
          Stack, NVA,    \* the stack's page; bound: the last virtual page
          MAX_MAPPING,   \* mappings of a process
          NSHMEM,        \* MAX_PROC_SHARED_MEM_INSTANCE
          MaxLen,        \* bound: pages asked for in a call of mmap() or munmap()
          MaxShmem,      \* bound: pages asked for in a call of sharedmem()
          MaxCalls       \* bound: calls made in a run

ASSUME MemoryAssumption ==
  /\ Shell \in Procs /\ IsFiniteSet(Procs) /\ None \notin Names
  /\ Stack \in Nat /\ NVA \in Nat /\ 1 < Stack /\ Stack + 2 <= NVA
  /\ {NPages, MAX_MAPPING, NSHMEM, MaxLen, MaxShmem, MaxCalls} \subseteq Nat \ {0}
  /\ NVA < NPages

Pages == 1 .. NPages
VAs == 0 .. NVA
Range1(a, n) == a .. a + n - 1

VARIABLES
  state,    \* unused, live, or loading: exec() has freed the old image
  ref,      \* kmem.pfn_ref
  free,     \* kmem.freelist
  pt,       \* page tables; 0 for an invalid PTE
  brk,      \* pages of program and heap
  maps,     \* p->maps
  shmem,    \* p->shmem, p->shmem_map_start
  next,     \* p->next_shmem_addr
  taken,    \* the object sys_sharedmem() has taken and not mapped yet
  pool,     \* shared_mem_pool, by name: references and pages
  panicked,
  calls     \* calls made, for the bound

vars == <<state, ref, free, pt, brk, maps, shmem, next, taken, pool, panicked, calls>>

NoTable == [v \in VAs |-> 0]
NoShmem == [i \in 1 .. NSHMEM |-> [name |-> None, start |-> 0]]

(* alloc_physical_page() hands out the head of a list, and nobody depends on *)
(* which page that is.  Here each place gets a page of its own when that is   *)
(* free and else one that is nobody's own, so that equal memories tend to be *)
(* equal states however they came about.                                    *)
Home(p, v) == IF p = Shell THEN v + 1 ELSE NPages - v
Rank(S, x) == Cardinality({y \in S : y < x})
Nth(S, k) == CHOOSE x \in S : Rank(S, x) = k
Dist(g, h) == (g + NPages - h) % NPages
Nearest(F, h, n) == {g \in F : Cardinality({k \in F : Dist(k, h) < Dist(g, h)}) < n}

ShellImage == [NoTable EXCEPT ![0] = 1, ![1] = 2, ![Stack] = Stack + 1]
ShellPages == {1, 2, Stack + 1}

(* The loader has put the shell in memory. *)
Init ==
  /\ state = [p \in Procs |-> IF p = Shell THEN "live" ELSE "unused"]
  /\ ref = [g \in Pages |-> IF g \in ShellPages THEN 1 ELSE 0]
  /\ free = Pages \ ShellPages
  /\ pt = [p \in Procs |-> IF p = Shell THEN ShellImage ELSE NoTable]
  /\ brk = [p \in Procs |-> IF p = Shell THEN 1 ELSE 0]
  /\ maps = [p \in Procs |-> {}]
  /\ shmem = [p \in Procs |-> NoShmem]
  /\ next = [p \in Procs |-> IF p = Shell THEN Stack + 2 ELSE 0]
  /\ taken = [p \in Procs |-> None]
  /\ pool = [n \in Names |-> [ref |-> 0, pages |-> {}]]
  /\ panicked = FALSE
  /\ calls = 0
------------------------------------------------------------------------------
(* Memory as one handler sees it: the allocator, one page table with its     *)
(* mapping table, and whether all went well (else panic()).                  *)
View(p) == [who |-> p, ref |-> ref, free |-> free, tab |-> pt[p], maps |-> maps[p], ok |-> TRUE]

Commit(p, m) ==
  /\ panicked' = ~m.ok
  /\ IF m.ok THEN /\ ref' = m.ref /\ free' = m.free
                  /\ pt' = [pt EXCEPT ![p] = m.tab]
                  /\ maps' = [maps EXCEPT ![p] = m.maps]
             ELSE UNCHANGED <<ref, free, pt, maps>>

(* The pages alloc_physical_page() returns, called for each page of V. *)
Fresh(m, V) ==
  LET own == {v \in V : Home(m.who, v) \in m.free}
      spare == m.free \ {Home(m.who, v) : v \in own}
  IN [v \in V |-> IF v \in own THEN Home(m.who, v)
                  ELSE Nth(spare, Rank(V \ own, v))]

(* alloc_physical_page() and mappages(), for every page of V. *)
MapFresh(m, V) ==
  LET page == Fresh(m, V) IN
  [m EXCEPT !.tab = [v \in VAs |-> IF v \in V THEN page[v] ELSE @[v]],
            !.ref = [g \in Pages |-> IF \E v \in V : page[v] = g THEN 1 ELSE @[g]],
            !.free = @ \ {page[v] : v \in V},
            !.ok = @ /\ \A v \in V : m.tab[v] = 0]   \* else "remap"

(* put_physical_page() for the page of every entry in V. *)
PutPages(m, V) ==
  LET left == [g \in Pages |-> m.ref[g] - Cardinality({v \in V : m.tab[v] = g})]
  IN [m EXCEPT !.ref = left, !.free = @ \cup {g \in Pages : m.ref[g] > 0 /\ left[g] = 0}]

(* uvmunmap(), with and without do_free: "not mapped" is a panic. *)
Clear(m, V) == [m EXCEPT !.tab = [v \in VAs |-> IF v \in V THEN 0 ELSE @[v]],
                         !.ok = @ /\ \A v \in V : m.tab[v] # 0]
Unmap(m, V) == Clear(PutPages(m, V), V)

(* recycle_physical_page(), whatever the count is. *)
Recycle(m, G) ==
  [m EXCEPT !.ref = [g \in Pages |-> IF g \in G THEN 0 ELSE @[g]], !.free = @ \cup G]

IsFree(m, a, n) == \A v \in Range1(a, n) : m.tab[v] = 0
MappedBy(R) == UNION {Range1(r.va, r.n) : r \in R}

(* mapping_add()'s assertion. *)
MutHasRoom(R) == Cardinality(R) <= MAX_MAPPING  \* Faulty variant: one too many
HasRoom(R) == Cardinality(R) < MAX_MAPPING

(* What is left of a mapping before page a and from page b on. *)
LeftOf(r, a) == [r EXCEPT !.n = Min({@, a - r.va})]
(* Faulty variant: the length of what is left is not corrected. *)
MutRightOf(r, b) == [r EXCEPT !.va = Max({@, b})]
RightOf(r, b) ==
  [r EXCEPT !.va = Max({@, b}), !.n = r.va + r.n - Max({r.va, b})]

(* mapping_try_remove_page() and uvmunmap() for each page in turn.  The      *)
(* pieces left of a mapping go back in the table; cutting a page out of the  *)
(* middle takes an entry more, and mapping_add() asserts that there is one.  *)
RemoveRange(m, a, n) ==
  LET left == {LeftOf(r, a) : r \in {r \in m.maps : r.va < a}}
      right == {RightOf(r, a + n) : r \in {r \in m.maps : r.va + r.n > a + n}}
      cuts == {r \in m.maps : r.va < a /\ a + 1 < r.va + r.n}
  IN [Unmap(m, MappedBy(m.maps) \cap Range1(a, n)) EXCEPT
        !.maps = left \cup right,
        !.ok = @ /\ (cuts = {} \/ HasRoom(m.maps))]

(* p makes a call. *)
Enters(p) ==
  /\ ~panicked /\ state[p] = "live" /\ taken[p] = None
  /\ calls < MaxCalls /\ calls' = calls + 1
------------------------------------------------------------------------------
(* The pages uvmalloc() asks for before it is done, or finds one mapped and  *)
(* stops the machine.                                                       *)
Asked(p, n) ==
  LET there == {v \in brk[p] + 1 .. n : pt[p][v] # 0} IN
  brk[p] + 1 .. IF there = {} THEN n ELSE Min(there)

(* sys_brk(): when memory runs out uvmalloc() gives back what it got. *)
Brk(p) ==
  /\ Enters(p)
  /\ \E n \in 1 .. Stack :
       /\ brk' = [brk EXCEPT ![p] = n]
       /\ \/ /\ n > brk[p] /\ Cardinality(Asked(p, n)) <= Cardinality(free)
             /\ Commit(p, MapFresh(View(p), Asked(p, n)))
          \/ n < brk[p] /\ Commit(p, Unmap(View(p), n + 1 .. brk[p]))
  /\ UNCHANGED <<state, shmem, next, taken, pool>>

(* The second half of mmap(): pages, PTEs, and the entry of the table. *)
Place(m, a, n, shared) ==
  [MapFresh(m, Range1(a, n)) EXCEPT
          !.maps = @ \cup {[va |-> a, n |-> n, shared |-> shared]},
          !.ok = @ /\ HasRoom(m.maps)]

(* The pages of a range that a mapping has. *)
MappedIn(p, a, n) == MappedBy(maps[p]) \cap Range1(a, n)

(* mmap(), anonymous or of a file (whose pages are copied).  With MAP_FIXED  *)
(* the mappings in the way go first, and a failure afterwards (the range is  *)
(* not free even so, no memory, the file cannot be read) leaves them         *)
(* removed.  Without it get_free_range() picks a free range, where both do   *)
(* the same.                                                                *)
Mmap(p) ==
  /\ Enters(p) /\ Cardinality(maps[p]) < MAX_MAPPING
  /\ \E n \in 1 .. MaxLen : \E a \in 1 .. NVA - n + 1 :
       LET m == RemoveRange(View(p), a, n) IN
       \/ /\ IsFree(m, a, n) /\ n <= Cardinality(m.free)
          /\ \E shared \in BOOLEAN : Commit(p, Place(m, a, n, shared))
       \/ MappedIn(p, a, n) # {} /\ Commit(p, m)
  /\ UNCHANGED <<state, brk, shmem, next, taken, pool>>

Munmap(p) ==
  /\ Enters(p)
  /\ \E n \in 1 .. MaxLen : \E a \in 1 .. NVA - n + 1 :
       MappedIn(p, a, n) # {} /\ Commit(p, RemoveRange(View(p), a, n))
  /\ UNCHANGED <<state, brk, shmem, next, taken, pool>>
------------------------------------------------------------------------------
(* get_shared_mem_by_name(): a reference on the object of that name, or a    *)
(* new object if its pages can be had.                                      *)
SharedGet(p) ==
  /\ Enters(p)
  /\ \E n \in Names, len \in 0 .. MaxShmem :
       \/ /\ pool[n].ref > 0
          /\ pool' = [pool EXCEPT ![n].ref = @ + 1]
          /\ taken' = [taken EXCEPT ![p] = [name |-> n, len |-> len]]
          /\ UNCHANGED <<ref, free>>
       \/ /\ pool[n].ref = 0 /\ len <= Cardinality(free)
          /\ LET G == Nearest(free, Stack + 2, len) IN
             /\ pool' = [pool EXCEPT ![n] = [ref |-> 1, pages |-> G]]
             /\ ref' = [g \in Pages |-> IF g \in G THEN 1 ELSE ref[g]]
             /\ free' = free \ G
          /\ taken' = [taken EXCEPT ![p] = [name |-> n, len |-> len]]
  /\ UNCHANGED <<state, pt, brk, maps, shmem, next, panicked>>

(* drop_shared_mem(), k times on an object. *)
Drop(n, k) ==
  IF pool[n].ref > k THEN [pool[n] EXCEPT !.ref = @ - k] ELSE [ref |-> 0, pages |-> {}]
(* Faulty variant: the pages go at the first reference that is dropped. *)
MutDropFrees(n, k) == IF k > 0 THEN pool[n].pages ELSE {}
DropFrees(n, k) == IF k > 0 /\ pool[n].ref = k THEN pool[n].pages ELSE {}

(* The rest of sys_sharedmem().  Another size: the reference is dropped.  No *)
(* slot left: it is not.                                                    *)
SharedMap(p) ==
  LET n == taken[p].name
      count == Cardinality(pool[n].pages)
      empty == {i \in 1 .. NSHMEM : shmem[p][i].name = None}
      V == Range1(next[p], count)
      page == [v \in V |-> Nth(pool[n].pages, Rank(V, v))]
  IN
  /\ ~panicked /\ taken[p] # None
  /\ \/ /\ taken[p].len > 0 /\ count # taken[p].len
        /\ pool' = [pool EXCEPT ![n] = Drop(n, 1)]
        /\ Commit(p, Recycle(View(p), DropFrees(n, 1)))
        /\ UNCHANGED <<shmem, next>>
     \/ /\ taken[p].len \in {0, count} /\ empty = {}
        /\ UNCHANGED <<ref, free, pt, maps, panicked, shmem, next, pool>>
     \/ /\ taken[p].len \in {0, count} /\ empty # {}
        /\ next[p] + count <= NVA + 1
        /\ pt' = [pt EXCEPT ![p] = [v \in VAs |-> IF v \in V THEN page[v] ELSE @[v]]]
        /\ panicked' = \E v \in V : pt[p][v] # 0
        /\ shmem' = [shmem EXCEPT ![p][Min(empty)] = [name |-> n, start |-> next[p]]]
        /\ next' = [next EXCEPT ![p] = @ + count + 1]
        /\ UNCHANGED <<ref, free, maps, pool>>
  /\ taken' = [taken EXCEPT ![p] = None]
  /\ UNCHANGED <<state, brk, calls>>
------------------------------------------------------------------------------
(* Every page a process owns alone or with a MAP_SHARED relative. *)
Image(p) == {0, Stack} \cup 1 .. brk[p]

(* uvmmap_dup() of a MAP_SHARED mapping: the same pages, one reference more. *)
(* Faulty variant: no dup_physical_page(). *)
MutShare(m, tab, V) == [m EXCEPT !.tab = [v \in VAs |-> IF v \in V THEN tab[v] ELSE @[v]]]
Share(m, tab, V) ==
  [m EXCEPT !.tab = [v \in VAs |-> IF v \in V THEN tab[v] ELSE @[v]],
            !.ref = [g \in Pages |-> @[g] + Cardinality({v \in V : tab[v] = g})]]

(* What uvmcopy() copies, and uvmmap_dup() of what is not MAP_SHARED. *)
Copied(p) == Image(p) \cup MappedBy({r \in maps[p] : ~r.shared})

Holds(p, n) == Cardinality({i \in 1 .. NSHMEM : shmem[p][i].name = n})

(* clone().  When memory runs out every path ends in a panic: in             *)
(* proc_pagetable(), in freeproc(), or unmapping what was not mapped yet.    *)
(* The child has the parent's shared memory in its slots, not in its table.  *)
Clone(p, np) ==
  LET sharedVAs == MappedBy({r \in maps[p] : r.shared})
      m == MapFresh([View(np) EXCEPT !.maps = maps[p]], Copied(p))
  IN
  /\ Enters(p) /\ state[np] = "unused"
  /\ IF Cardinality(Copied(p)) > Cardinality(free)
     THEN /\ panicked' = TRUE
          /\ UNCHANGED <<state, ref, free, pt, brk, maps, shmem, next, pool>>
     ELSE /\ Commit(np, Share(m, pt[p], sharedVAs))
          /\ state' = [state EXCEPT ![np] = "live"]
          /\ brk' = [brk EXCEPT ![np] = brk[p]]
          /\ shmem' = [shmem EXCEPT ![np] = shmem[p]]
          /\ next' = [next EXCEPT ![np] = next[p]]
          /\ pool' = [n \in Names |-> [pool[n] EXCEPT !.ref = @ + Holds(p, n)]]
  /\ UNCHANGED taken

(* free_pagetable_pages() finds no valid page. *)
Empty(m) == m.tab = NoTable

(* proc_free_mem_and_pagetable(): shared memory is unmapped and dropped,     *)
(* then the mappings, the stack and the program go; a page table that is not *)
(* empty then is a panic.                                                   *)
FreeMem(p, then) ==
  LET slots == {i \in 1 .. NSHMEM : shmem[p][i].name # None}
      V == UNION {Range1(shmem[p][i].start, Cardinality(pool[shmem[p][i].name].pages)) :
                    i \in slots}
      dropped == Recycle(Clear(View(p), V), UNION {DropFrees(n, Holds(p, n)) : n \in Names})
      rest == Unmap(dropped, Image(p) \cup MappedBy(maps[p]))
  IN
  /\ Commit(p, [rest EXCEPT !.maps = {}, !.ok = @ /\ Empty(rest)])
  /\ pool' = [n \in Names |-> IF Holds(p, n) > 0 THEN Drop(n, Holds(p, n)) ELSE pool[n]]
  /\ shmem' = [shmem EXCEPT ![p] = NoShmem]
  /\ brk' = [brk EXCEPT ![p] = 0]
  /\ next' = [next EXCEPT ![p] = 0]
  /\ state' = [state EXCEPT ![p] = then]
  /\ UNCHANGED taken

(* exit(): the slot is free for alloc_proc() once the parent has waited. *)
Exit(p) == Enters(p) /\ FreeMem(p, "unused")

(* elf_loader() frees the old image, reads the new one, and has no way back. *)
ExecFree(p) == Enters(p) /\ FreeMem(p, "loading")

ExecLoad(p) ==
  /\ ~panicked /\ state[p] = "loading"
  /\ IF Cardinality(free) < 3
     THEN panicked' = TRUE /\ UNCHANGED <<state, ref, free, pt, brk, maps, next>>
     ELSE /\ Commit(p, MapFresh(View(p), {0, 1, Stack}))
          /\ brk' = [brk EXCEPT ![p] = 1]
          /\ next' = [next EXCEPT ![p] = Stack + 2]
          /\ state' = [state EXCEPT ![p] = "live"]
  /\ UNCHANGED <<shmem, taken, pool, calls>>
------------------------------------------------------------------------------
Next ==
  \E p \in Procs :
    \/ Brk(p) \/ Mmap(p) \/ Munmap(p) \/ SharedGet(p) \/ SharedMap(p)
    \/ Exit(p) \/ ExecFree(p) \/ ExecLoad(p)
    \/ \E np \in Procs \ {p} : Clone(p, np)

Spec == Init /\ [][Next]_vars
------------------------------------------------------------------------------
(* Properties *)

Mapping == [va : VAs, n : 1 .. NVA, shared : BOOLEAN]

(* The variables have their types; a mapping table never outgrows p->maps,   *)
(* whatever mmap(), munmap() and MAP_FIXED cut mappings into.                 *)
TypeOK ==
  /\ state \in [Procs -> {"unused", "live", "loading"}]
  /\ ref \in [Pages -> Nat]
  /\ free \subseteq Pages
  /\ pt \in [Procs -> [VAs -> 0 .. NPages]]
  /\ brk \in [Procs -> 0 .. Stack]
  /\ maps \in [Procs -> SUBSET Mapping] /\ \A p \in Procs : Cardinality(maps[p]) <= MAX_MAPPING
  /\ shmem \in [Procs -> [1 .. NSHMEM -> [name : Names \cup {None}, start : 0 .. NVA + 1]]]
  /\ next \in [Procs -> 0 .. NVA + 2]
  /\ taken \in [Procs -> {None} \cup [name : Names, len : 0 .. MaxShmem]]
  /\ pool \in [Names -> [ref : Nat, pages : SUBSET Pages]]
  /\ panicked \in BOOLEAN

PoolPages == UNION {pool[n].pages : n \in Names}

ShmemVAs(p) ==
  UNION {Range1(shmem[p][i].start, Cardinality(pool[shmem[p][i].name].pages)) :
           i \in {i \in 1 .. NSHMEM : shmem[p][i].name # None}}

There(p) == {v \in VAs : pt[p][v] # 0}

Owners(g) == IF g \in PoolPages THEN {n \in Names : g \in pool[n].pages}
             ELSE {s \in Procs \X VAs : pt[s[1]][s[2]] = g}
Getting(n) == Cardinality({p \in Procs : taken[p] # None /\ taken[p].name = n})
Slots(n) == Cardinality({s \in Procs \X (1 .. NSHMEM) : shmem[s[1]][s[2]].name = n})

(* A page's count is the number of its owners: page table entries, or the    *)
(* shared memory it belongs to; and the pages without an owner are the free  *)
(* ones.  A shared memory counts every slot that names it, an inherited one  *)
(* that was never mapped included, and every sys_sharedmem() under way; it   *)
(* may count more (a full table of slots leaks a reference), never less.     *)
(* This is what clone(), exit(), munmap() and drop_shared_mem() must keep    *)
(* together: one missed increment is a page given out twice.                 *)
PageRefsExact ==
  panicked \/
  /\ \A g \in Pages : ref[g] = Cardinality(Owners(g)) /\ (g \in free <=> ref[g] = 0)
  /\ \A n \in Names : /\ pool[n].ref >= Getting(n) + Slots(n)
                       /\ pool[n].ref = 0 => pool[n].pages = {}

(* What a process is said to have (program, heap, stack, the mapping table)  *)
(* is what its page table has, shared memory apart: no page too many, so     *)
(* exit() and exec() find an empty table in free_pagetable_pages(), and none *)
(* too few, so uvmunmap() and uvmcopy() find every page they ask for.  The   *)
(* parts do not overlap, through splits of mappings, MAP_FIXED and brk().    *)
TablesAgree ==
  panicked \/
  \A p \in Procs : state[p] = "live" =>
    LET image == Image(p)
        mapped == MappedBy(maps[p])
    IN
    /\ image \cup mapped \subseteq There(p)
    /\ There(p) \subseteq image \cup mapped \cup ShmemVAs(p)
    /\ image \cap mapped = {}
    /\ \A r, s \in maps[p] : r # s => Range1(r.va, r.n) \cap Range1(s.va, s.n) = {}

IsShared(p, v) == \E r \in maps[p] : r.shared /\ v \in Range1(r.va, r.n)

(* Nobody sees a page of somebody else: two page table entries have the same *)
(* page only as the same page of a MAP_SHARED mapping, in two processes that *)
(* both have it in their table, or through a shared memory both have a slot  *)
(* for.  An old entry that outlives the page it was made for breaks this     *)
(* when the page is given out again.                                         *)
Isolation ==
  panicked \/
  LET pooled == PoolPages IN
  \A p, q \in Procs : \A v \in There(p), w \in There(q) :
    pt[p][v] = pt[q][w] /\ <<p, v>> # <<q, w>>
    => \/ p # q /\ v = w /\ IsShared(p, v) /\ IsShared(q, w)
       \/ pt[p][v] \in pooled /\ v \in ShmemVAs(p) /\ w \in ShmemVAs(q)
=============================================================================
