----------------------------- MODULE MemoryProof -----------------------------
(***************************************************************************)
(* Proofs about Memory, for any number of processes, shared memories and   *)
(* pages.                                                                  *)
(***************************************************************************)
EXTENDS Memory, FiniteSetTheorems, WellFoundedInduction, TLAPS

(* The constants, in the form in which the proofs use them.                 *)
LEMMA Consts ==
  /\ NPages \in Nat /\ Stack \in Nat /\ NVA \in Nat /\ 1 < Stack /\ Stack + 2 <= NVA
  /\ MAX_MAPPING \in Nat \ {0} /\ NSHMEM \in Nat \ {0} /\ MaxLen \in Nat
  /\ MaxShmem \in Nat /\ NVA < NPages /\ Shell \in Procs /\ None \notin Names
  /\ VAs \subseteq Nat /\ Pages \subseteq Nat /\ 0 \notin Pages /\ 0 \in VAs
  /\ 0 .. NPages = Pages \cup {0}
BY MemoryAssumption DEF VAs, Pages

(* Everything that is counted is finite.                                    *)
LEMMA Finite ==
  /\ IsFiniteSet(Procs) /\ IsFiniteSet(VAs) /\ IsFiniteSet(Pages)
  /\ IsFiniteSet(1 .. NSHMEM) /\ IsFiniteSet(Procs \X VAs)
  /\ IsFiniteSet(Procs \X (1 .. NSHMEM))
<1>1. /\ 0 \in Int /\ 1 \in Int /\ NVA \in Int /\ NPages \in Int /\ NSHMEM \in Int
  BY Consts
<1>2. IsFiniteSet(VAs) /\ IsFiniteSet(Pages) /\ IsFiniteSet(1 .. NSHMEM)
  BY <1>1, FS_Interval DEF VAs, Pages
<1>3. IsFiniteSet(Procs)
  BY MemoryAssumption
<1> QED  BY <1>2, <1>3, FS_Product

(* A set of numbers that is not empty has a least element.                  *)
LEMMA Least ==
  ASSUME NEW S \in SUBSET Nat, S # {}
  PROVE  \E x \in S : \A y \in S : x <= y
<1> DEFINE R == {ss \in Nat \X Nat : ss[1] < ss[2]}
<1>1. IsWellFoundedOn(R, Nat)
  BY NatLessThanWellFounded DEF OpToRel
<1> HIDE DEF R
<1>2. PICK x \in S : \A y \in S : <<y, x>> \notin R
  BY <1>1, WFMin
<1>3. \A y \in S : ~(y < x)
  BY <1>2 DEF R
<1> QED  BY <1>3

(* ... which is its Min.                                                    *)
LEMMA MinIsIn ==
  ASSUME NEW S \in SUBSET Nat, S # {}
  PROVE  Min(S) \in S /\ \A y \in S : Min(S) <= y
BY Least DEF Min

(* The greater and the smaller of two numbers.                              *)
LEMMA MinMax ==
  ASSUME NEW x \in Nat, NEW y \in Nat
  PROVE  /\ Min({x, y}) = IF x <= y THEN x ELSE y
         /\ Max({x, y}) = IF x <= y THEN y ELSE x
<1>1. Min({x, y}) = IF x <= y THEN x ELSE y
  BY DEF Min
<1>2. Max({x, y}) = IF x <= y THEN y ELSE x
  BY DEF Max
<1> QED  BY <1>1, <1>2
-----------------------------------------------------------------------------
(* Counting.                                                               *)

(* The parts of a set that satisfy a condition and that do not.             *)
LEMMA Split ==
  ASSUME NEW S, IsFiniteSet(S), NEW A \in SUBSET S
  PROVE  /\ IsFiniteSet(A) /\ IsFiniteSet(S \ A)
         /\ Cardinality(A) \in Nat /\ Cardinality(S \ A) \in Nat
         /\ Cardinality(S) \in Nat
         /\ Cardinality(S) = Cardinality(A) + Cardinality(S \ A)
<1>1. IsFiniteSet(A) /\ IsFiniteSet(S \ A)
  BY FS_Subset
<1>2. Cardinality(A) \in Nat /\ Cardinality(S \ A) \in Nat
  BY <1>1, FS_CardinalityType
<1>3. A \cup (S \ A) = S /\ A \cap (S \ A) = {}
  OBVIOUS
<1>4. Cardinality(S) = Cardinality(A) + Cardinality(S \ A) - 0
  BY <1>1, <1>3, FS_Union, FS_EmptySet
<1> QED  BY <1>1, <1>2, <1>4

(* A set is empty when it has no members.                                   *)
LEMMA NotEmpty ==
  ASSUME NEW S, IsFiniteSet(S)
  PROVE  Cardinality(S) \in Nat /\ (Cardinality(S) = 0 <=> S = {})
BY FS_EmptySet, FS_CardinalityType

(* Pairs of a process and an index, by process.                             *)
NotOf(A, p) == {s \in A : s[1] # p}
Of(A, p, K) == {k \in K : <<p, k>> \in A}

(* The members of A are those that p has and those that others have.        *)
LEMMA ByProcess ==
  ASSUME NEW K, IsFiniteSet(K), NEW A \in SUBSET (Procs \X K), NEW p \in Procs
  PROVE  /\ Cardinality(NotOf(A, p)) \in Nat /\ Cardinality(Of(A, p, K)) \in Nat
         /\ Cardinality(A) = Cardinality(NotOf(A, p)) + Cardinality(Of(A, p, K))
<1> DEFINE R == {s \in A : s[1] # p}
           M == {k \in K : <<p, k>> \in A}
<1>1. IsFiniteSet(A)
  BY Finite, FS_Product, FS_Subset
<1>2. R \in SUBSET A
  OBVIOUS
<1>3. Cardinality(A) = Cardinality(R) + Cardinality(A \ R) /\ Cardinality(R) \in Nat
  BY <1>1, <1>2, Split
<1>4. Cardinality(A \ R) = Cardinality(M) /\ Cardinality(M) \in Nat
  <2> DEFINE f == [k \in M |-> <<p, k>>]
  <2>1. f \in [M -> A \ R]
    OBVIOUS
  <2>2. \A k, l \in M : f[k] = f[l] => k = l
    OBVIOUS
  <2>3. \A s \in A \ R : \E k \in M : f[k] = s
    <3> SUFFICES ASSUME NEW s \in A \ R PROVE \E k \in M : f[k] = s
      OBVIOUS
    <3>1. s \in Procs \X K /\ s[1] = p
      OBVIOUS
    <3>2. s = <<p, s[2]>> /\ s[2] \in K
      BY <3>1
    <3> QED  BY <3>2
  <2>4. IsFiniteSet(M)
    BY FS_Subset
  <2> HIDE DEF f
  <2>5. f \in Bijection(M, A \ R)
    BY <2>1, <2>2, <2>3 DEF Bijection, Injection, Surjection, IsInjective
  <2>6. ExistsBijection(M, A \ R)
    BY <2>5 DEF ExistsBijection
  <2> QED  BY <2>4, <2>6, FS_Bijection, FS_CardinalityType
<1> QED  BY <1>3, <1>4 DEF NotOf, Of

(* A number of the set S is the Rank-th of S, and there are as many ranks   *)
(* as numbers.                                                              *)
LEMMA RankGrows ==
  ASSUME NEW S \in SUBSET Nat, IsFiniteSet(S)
  PROVE  /\ \A x \in S : Rank(S, x) \in Nat /\ Rank(S, x) < Cardinality(S)
         /\ \A x, y \in S : x < y => Rank(S, x) < Rank(S, y)
<1> DEFINE L(x) == {z \in S : z < x}
<1>1. ASSUME NEW x \in S
      PROVE  Cardinality(L(x)) \in Nat /\ Cardinality(L(x)) < Cardinality(S)
  <2>1. L(x) \in SUBSET S /\ L(x) # S
    OBVIOUS
  <2> HIDE DEF L
  <2>2. Cardinality(L(x)) <= Cardinality(S) /\ Cardinality(L(x)) # Cardinality(S)
        /\ IsFiniteSet(L(x))
    BY <2>1, FS_Subset
  <2> QED  BY <2>2, FS_CardinalityType
<1>2. ASSUME NEW x \in S, NEW y \in S, x < y
      PROVE  Cardinality(L(x)) < Cardinality(L(y))
  <2>1. L(x) \in SUBSET L(y)
    <3>1. ASSUME NEW z \in S, z < x PROVE z < y
      <4>1. x \in Nat /\ y \in Nat /\ z \in Nat
        OBVIOUS
      <4> QED  BY <4>1, <3>1, <1>2
    <3> QED  BY <3>1
  <2>2. x \in L(y) /\ x \notin L(x)
    BY <1>2
  <2>3. IsFiniteSet(L(y))
    BY FS_Subset
  <2>4. Cardinality(L(x)) \in Nat /\ Cardinality(L(y)) \in Nat
    BY <1>1
  <2> HIDE DEF L
  <2>5. Cardinality(L(x)) <= Cardinality(L(y)) /\ Cardinality(L(x)) # Cardinality(L(y))
    BY <2>1, <2>2, <2>3, FS_Subset
  <2> QED  BY <2>4, <2>5
<1> QED  BY <1>1, <1>2 DEF Rank

(* Different numbers have different ranks.                                  *)
LEMMA RankTells ==
  ASSUME NEW S \in SUBSET Nat, IsFiniteSet(S), NEW x \in S, NEW y \in S,
         Rank(S, x) = Rank(S, y)
  PROVE  x = y
<1>1. /\ x < y => Rank(S, x) < Rank(S, y)
      /\ y < x => Rank(S, y) < Rank(S, x)
      /\ Rank(S, x) \in Nat /\ Rank(S, y) \in Nat
  BY RankGrows
<1>2. ~(x < y) /\ ~(y < x)
  BY <1>1
<1> QED  BY <1>2

(* Every rank is that of a number of the set.                               *)
LEMMA NthIs ==
  ASSUME NEW S \in SUBSET Nat, IsFiniteSet(S), NEW k \in Nat, k < Cardinality(S)
  PROVE  Nth(S, k) \in S /\ Rank(S, Nth(S, k)) = k
<1>1. PICK c \in Nat : c = Cardinality(S)
  BY FS_CardinalityType
<1>2. c > 0
  BY <1>1
<1> DEFINE f == [x \in S |-> Rank(S, x)]
           T == 0 .. c - 1
<1>3. IsFiniteSet(T) /\ Cardinality(T) = c
  BY <1>2, FS_Interval
<1>4. f \in [S -> T]
  BY <1>1, RankGrows
<1>5. \A x, y \in S : f[x] = f[y] => x = y
  BY RankTells
<1>6. k \in T
  BY <1>1
<1> HIDE DEF f, T
<1>7. f \in Injection(S, T)
  BY <1>4, <1>5 DEF Injection, IsInjective
<1>8. f \in Surjection(S, T)
  BY <1>1, <1>3, <1>7, FS_Injection
<1>9. PICK x \in S : f[x] = k
  BY <1>6, <1>8 DEF Surjection
<1>10. Rank(S, x) = k
  BY <1>9 DEF f
<1> QED  BY <1>10 DEF Nth
-----------------------------------------------------------------------------
(* The inductive invariant, part by part.  A panic stops the machine: what  *)
(* it leaves is of no interest but for its type.                            *)

InPool(pl, g) == \E n \in Names : g \in pl[n].pages
Rng(r) == Range1(r.va, r.n)
SharedIn(R, v) == \E r \in R : r.shared /\ v \in Rng(r)
ImageOf(b) == {0, Stack} \cup 1 .. b
OwnOf(b, R) == ImageOf(b) \cup MappedBy(R)

(* A mapping table: its mappings are below the bound and do not overlap.    *)
MapsOK(R) ==
  /\ R \subseteq Mapping /\ IsFiniteSet(R)
  /\ \A r \in R : r.va + r.n <= NVA + 1
  /\ \A r, s \in R : r # s => Range1(r.va, r.n) \cap Range1(s.va, s.n) = {}

(* A page table has a page of its own at every place of own; all others are *)
(* shared memories, of a slot that covers the place.                        *)
Covers(slots, pl, v, g) ==
  \E i \in 1 .. NSHMEM, n \in Names :
    /\ slots[i].name = n /\ g \in pl[n].pages
    /\ v \in Range1(slots[i].start, Cardinality(pl[n].pages))
Agree(tab, own, slots, pl) ==
  \A v \in VAs : IF v \in own THEN tab[v] # 0 /\ ~InPool(pl, tab[v])
                ELSE tab[v] # 0 => Covers(slots, pl, v, tab[v])

(* One process: a live one has what it is said to have, and alloc_proc() or *)
(* a loading exec() finds nothing.                                          *)
Live(tab, b, R, slots, pl) ==
  /\ Agree(tab, OwnOf(b, R), slots, pl) /\ MapsOK(R)
  /\ ImageOf(b) \cap MappedBy(R) = {} /\ b < Stack
Gone(tab, R, slots, tk) == tab = NoTable /\ R = {} /\ slots = NoShmem /\ tk = None
ProcOK(st, tab, b, R, slots, tk, pl) ==
  IF st = "live" THEN Live(tab, b, R, slots, pl) ELSE Gone(tab, R, slots, tk)
InvProcs ==
  \A p \in Procs : ProcOK(state[p], pt[p], brk[p], maps[p], shmem[p], taken[p], pool)

(* No page belongs to two shared memories, and every use of one is counted. *)
Gets(tk, n) == Cardinality({p \in Procs : tk[p] # None /\ tk[p].name = n})
Slotted(sh, n) == Cardinality({s \in Procs \X (1 .. NSHMEM) : sh[s[1]][s[2]].name = n})
PoolOK(pl, tk, sh) ==
  /\ \A n, k \in Names : n # k => pl[n].pages \cap pl[k].pages = {}
  /\ \A n \in Names : /\ pl[n].ref >= Gets(tk, n) + Slotted(sh, n)
                      /\ pl[n].ref = 0 => pl[n].pages = {}

(* Pages that are in two page tables, without those of the pool.            *)
ShareOK(T, M, pl) ==
  \A p, q \in Procs : \A v, w \in VAs :
    T[p][v] = T[q][w] /\ T[p][v] # 0 /\ ~InPool(pl, T[p][v]) /\ <<p, v>> # <<q, w>>
    => p # q /\ v = w /\ SharedIn(M[p], v) /\ SharedIn(M[q], v)

(* The counts.                                                              *)
Uses(T, g) == Cardinality({s \in Procs \X VAs : T[s[1]][s[2]] = g})
RefsOK(T, rf, fr, pl) ==
  \A g \in Pages : /\ rf[g] = IF InPool(pl, g) THEN 1 ELSE Uses(T, g)
                   /\ g \in fr <=> rf[g] = 0

Sound == /\ InvProcs /\ PoolOK(pool, taken, shmem)
         /\ ShareOK(pt, maps, pool) /\ RefsOK(pt, ref, free, pool)
IInv == TypeOK /\ (panicked \/ Sound)
-----------------------------------------------------------------------------
(* Reference counts, as one handler keeps them: m is the memory as it sees  *)
(* it, pl the shared memories, o the page table entries of the others.      *)

ViewRec == [who : Procs, ref : [Pages -> Nat], free : SUBSET Pages,
            tab : [VAs -> 0 .. NPages], maps : SUBSET Mapping, ok : BOOLEAN]
Mine(t, g) == Cardinality({v \in VAs : t[v] = g})
Others(T, p) ==
  [g \in Pages |-> Cardinality({s \in Procs \X VAs : s[1] # p /\ T[s[1]][s[2]] = g})]

Books(m, pl, o) ==
  \A g \in Pages : /\ m.ref[g] = IF InPool(pl, g) THEN 1 ELSE o[g] + Mine(m.tab, g)
                   /\ g \in m.free <=> m.ref[g] = 0

(* The entries of all are those of one and those of the others.             *)
LEMMA UsesSplit ==
  ASSUME NEW T, NEW p \in Procs, NEW g \in Pages
  PROVE  /\ Others(T, p)[g] \in Nat /\ Mine(T[p], g) \in Nat /\ Uses(T, g) \in Nat
         /\ Uses(T, g) = Others(T, p)[g] + Mine(T[p], g)
<1> DEFINE A == {s \in Procs \X VAs : T[s[1]][s[2]] = g}
<1>1. A \in SUBSET (Procs \X VAs)
  OBVIOUS
<1>2. NotOf(A, p) = {s \in Procs \X VAs : s[1] # p /\ T[s[1]][s[2]] = g}
  BY DEF NotOf
<1>3. Of(A, p, VAs) = {v \in VAs : T[p][v] = g}
  BY DEF Of
<1>f. IsFiniteSet(VAs)
  BY Finite
<1> HIDE DEF A
<1>4. /\ Cardinality(NotOf(A, p)) \in Nat /\ Cardinality(Of(A, p, VAs)) \in Nat
      /\ Cardinality(A) = Cardinality(NotOf(A, p)) + Cardinality(Of(A, p, VAs))
  BY <1>1, <1>f, ByProcess
<1>5. Others(T, p)[g] = Cardinality(NotOf(A, p))
  BY <1>2 DEF Others
<1>6. Mine(T[p], g) = Cardinality(Of(A, p, VAs))
  BY <1>3 DEF Mine
<1>7. Uses(T, g) = Cardinality(A)
  BY DEF Uses, A
<1> QED  BY <1>4, <1>5, <1>6, <1>7

(* The entries of the others do not depend on the table of p.               *)
LEMMA OthersStay ==
  ASSUME NEW T, NEW U, NEW p \in Procs, \A q \in Procs \ {p} : T[q] = U[q]
  PROVE  Others(T, p) = Others(U, p)
<1> SUFFICES ASSUME NEW g \in Pages
             PROVE  {s \in Procs \X VAs : s[1] # p /\ T[s[1]][s[2]] = g}
                     = {s \in Procs \X VAs : s[1] # p /\ U[s[1]][s[2]] = g}
  BY DEF Others
<1>1. \A s \in Procs \X VAs : s[1] # p => T[s[1]] = U[s[1]]
  OBVIOUS
<1> QED  BY <1>1

(* Whoever uses a page is counted.                                          *)
LEMMA UsedByOthers ==
  ASSUME NEW T, NEW p \in Procs, NEW g \in Pages
  PROVE  /\ Others(T, p)[g] \in Nat
         /\ Others(T, p)[g] = 0 <=> \A q \in Procs \ {p}, v \in VAs : T[q][v] # g
<1> DEFINE A == {s \in Procs \X VAs : s[1] # p /\ T[s[1]][s[2]] = g}
<1>1. IsFiniteSet(A)
  BY Finite, FS_Subset
<1>2. A = {} <=> \A q \in Procs \ {p}, v \in VAs : T[q][v] # g
  <2>1. ASSUME NEW q \in Procs \ {p}, NEW v \in VAs, T[q][v] = g PROVE <<q, v>> \in A
    BY <2>1
  <2>2. ASSUME NEW s \in A PROVE \E q \in Procs \ {p}, v \in VAs : T[q][v] = g
    OBVIOUS
  <2> QED  BY <2>1, <2>2
<1> HIDE DEF A
<1>3. Cardinality(A) \in Nat /\ (Cardinality(A) = 0 <=> A = {})
  BY <1>1, NotEmpty
<1> QED  BY <1>2, <1>3 DEF Others, A

(* ... and so is what one uses oneself.                                     *)
LEMMA UsedByMe ==
  ASSUME NEW t, NEW g
  PROVE  Mine(t, g) \in Nat /\ (Mine(t, g) = 0 <=> \A v \in VAs : t[v] # g)
<1> DEFINE A == {v \in VAs : t[v] = g}
<1>1. IsFiniteSet(A)
  BY Finite, FS_Subset
<1>2. A = {} <=> \A v \in VAs : t[v] # g
  OBVIOUS
<1> HIDE DEF A
<1>3. Cardinality(A) \in Nat /\ (Cardinality(A) = 0 <=> A = {})
  BY <1>1, NotEmpty
<1> QED  BY <1>2, <1>3 DEF Mine, A
-----------------------------------------------------------------------------
(* alloc_physical_page().                                                  *)

(* Places have different pages of their own.                                *)
LEMMA HomeIs ==
  ASSUME NEW p \in Procs
  PROVE  /\ \A v \in VAs : Home(p, v) \in Nat
         /\ \A v, w \in VAs : Home(p, v) = Home(p, w) => v = w
<1>1. ASSUME NEW v \in VAs, NEW w \in VAs
      PROVE  /\ Home(p, v) \in Nat
             /\ Home(p, v) = Home(p, w) => v = w
  <2>1. /\ v \in Nat /\ w \in Nat /\ NPages \in Nat /\ v < NPages /\ w < NPages
    BY Consts DEF VAs
  <2>2. /\ v + 1 \in Nat /\ NPages - v \in Nat
        /\ v + 1 = w + 1 => v = w
        /\ NPages - v = NPages - w => v = w
    BY <2>1
  <2> QED  BY <2>2 DEF Home
<1> QED  BY <1>1

(* Free pages are given out, each once, as long as there are enough.        *)
LEMMA FreshIs ==
  ASSUME NEW m \in ViewRec, NEW V \in SUBSET VAs,
         Cardinality(V) <= Cardinality(m.free)
  PROVE  /\ \A v \in V : Fresh(m, V)[v] \in m.free
         /\ \A v, w \in V : Fresh(m, V)[v] = Fresh(m, V)[w] => v = w
<1> DEFINE own == {v \in V : Home(m.who, v) \in m.free}
           homes == {Home(m.who, v) : v \in own}
           spare == m.free \ homes
           rest == V \ own
<1>1. /\ m.who \in Procs /\ m.free \subseteq Pages /\ IsFiniteSet(m.free)
      /\ IsFiniteSet(V)
  BY Finite, FS_Subset DEF ViewRec
<1>2. Fresh(m, V) = [v \in V |-> IF v \in own THEN Home(m.who, v)
                                 ELSE Nth(spare, Rank(rest, v))]
  BY DEF Fresh
<1>3. /\ rest \in SUBSET Nat /\ spare \in SUBSET Nat /\ own \in SUBSET V
      /\ homes \in SUBSET m.free
  BY <1>1, Consts
<1>4. \A v \in own : Home(m.who, v) \in homes
  OBVIOUS
<1>5. Cardinality(homes) <= Cardinality(own)
  <2> DEFINE h == [v \in own |-> Home(m.who, v)]
  <2>1. h \in Surjection(own, homes)
    BY DEF Surjection
  <2>2. IsFiniteSet(own)
    BY <1>1, <1>3, FS_Subset
  <2> HIDE DEF h, own, homes
  <2> QED  BY <2>1, <2>2, FS_Surjection
<1>6. m.who \in Procs /\ \A v, w \in V : Home(m.who, v) = Home(m.who, w) => v = w
  BY <1>1, HomeIs
<1> HIDE DEF own, homes
<1>7. /\ IsFiniteSet(rest) /\ Cardinality(rest) \in Nat /\ Cardinality(own) \in Nat
      /\ Cardinality(V) = Cardinality(own) + Cardinality(rest)
  BY <1>1, <1>3, Split
<1>8. /\ IsFiniteSet(spare) /\ Cardinality(spare) \in Nat /\ Cardinality(homes) \in Nat
      /\ Cardinality(m.free) = Cardinality(homes) + Cardinality(spare)
  BY <1>1, <1>3, Split
<1>9. Cardinality(rest) <= Cardinality(spare)
  BY <1>5, <1>7, <1>8
<1> HIDE DEF spare, rest
<1>10. ASSUME NEW v \in rest
       PROVE  /\ Nth(spare, Rank(rest, v)) \in spare
              /\ Rank(spare, Nth(spare, Rank(rest, v))) = Rank(rest, v)
  <2>1. Rank(rest, v) \in Nat /\ Rank(rest, v) < Cardinality(rest)
    BY <1>3, <1>7, RankGrows
  <2>2. Rank(rest, v) < Cardinality(spare)
    BY <2>1, <1>7, <1>8, <1>9
  <2> QED  BY <2>1, <2>2, <1>3, <1>8, NthIs
<1>11. ASSUME NEW v \in rest, NEW w \in rest,
              Nth(spare, Rank(rest, v)) = Nth(spare, Rank(rest, w))
       PROVE  v = w
  <2>1. Rank(rest, v) = Rank(rest, w)
    BY <1>10, <1>11
  <2> QED  BY <2>1, <1>3, <1>7, RankTells
<1>12. \A v \in V : \/ v \in own /\ Fresh(m, V)[v] = Home(m.who, v)
                    \/ v \in rest /\ Fresh(m, V)[v] = Nth(spare, Rank(rest, v))
  BY <1>2 DEF rest
<1>13. \A v \in V : Fresh(m, V)[v] \in m.free
  BY <1>3, <1>4, <1>10, <1>12 DEF spare
<1>14. spare \cap homes = {}
  BY DEF spare
<1>15. ASSUME NEW v \in V, NEW w \in V, Fresh(m, V)[v] = Fresh(m, V)[w] PROVE v = w
  <2>1. CASE v \in own /\ w \in own
    BY <2>1, <1>6, <1>12, <1>15 DEF rest
  <2>2. CASE v \in rest /\ w \in rest
    BY <2>2, <1>11, <1>12, <1>15 DEF rest
  <2>3. CASE v \in own /\ w \in rest
    BY <2>3, <1>4, <1>10, <1>12, <1>14, <1>15 DEF rest
  <2>4. CASE v \in rest /\ w \in own
    BY <2>4, <1>4, <1>10, <1>12, <1>14, <1>15 DEF rest
  <2> QED  BY <2>1, <2>2, <2>3, <2>4 DEF rest
<1> QED  BY <1>13, <1>15

(* mappages() of new pages, field by field.                                 *)
LEMMA MapFreshFields ==
  ASSUME NEW m \in ViewRec, NEW V \in SUBSET VAs, NEW r, r = MapFresh(m, V),
         NEW f, f = Fresh(m, V)
  PROVE  /\ r.who = m.who /\ r.maps = m.maps
         /\ r.tab = [v \in VAs |-> IF v \in V THEN f[v] ELSE m.tab[v]]
         /\ r.ref = [g \in Pages |-> IF \E v \in V : f[v] = g THEN 1 ELSE m.ref[g]]
         /\ r.free = m.free \ {f[v] : v \in V}
         /\ r.ok <=> m.ok /\ \A v \in V : m.tab[v] = 0
<1> PICK b : b = (m.ok /\ \A v \in V : m.tab[v] = 0)
  OBVIOUS
<1>1. r = [m EXCEPT !.tab = [v \in VAs |-> IF v \in V THEN f[v] ELSE @[v]],
             !.ref = [g \in Pages |-> IF \E v \in V : f[v] = g THEN 1 ELSE @[g]],
             !.free = @ \ {f[v] : v \in V},
             !.ok = b]
  BY DEF MapFresh
<1>2. r = [who |-> m.who, maps |-> m.maps,
           tab |-> [v \in VAs |-> IF v \in V THEN f[v] ELSE m.tab[v]],
           ref |-> [g \in Pages |-> IF \E v \in V : f[v] = g THEN 1 ELSE m.ref[g]],
           free |-> m.free \ {f[v] : v \in V},
           ok |-> b]
  BY <1>1 DEF ViewRec
<1>3. /\ r.who = m.who /\ r.maps = m.maps
      /\ r.tab = [v \in VAs |-> IF v \in V THEN f[v] ELSE m.tab[v]]
      /\ r.ref = [g \in Pages |-> IF \E v \in V : f[v] = g THEN 1 ELSE m.ref[g]]
      /\ r.free = m.free \ {f[v] : v \in V} /\ r.ok = b
  BY <1>2
<1>4. r.ok <=> m.ok /\ \A v \in V : m.tab[v] = 0
  BY <1>3
<1> QED  BY <1>3, <1>4

(* r has new pages at V.                                                    *)
NewPages(m, r, V, pl, o) ==
  \A v \in V : /\ m.tab[v] = 0 /\ r.tab[v] \in m.free
               /\ ~InPool(pl, r.tab[v]) /\ o[r.tab[v]] = 0
               /\ \A w \in VAs : r.tab[w] = r.tab[v] => w = v

Mapped(m, r, V, pl, o) ==
  /\ r \in ViewRec /\ Books(r, pl, o) /\ m.ok
  /\ r.maps = m.maps /\ r.who = m.who /\ r.free \subseteq m.free
  /\ \A v \in VAs \ V : r.tab[v] = m.tab[v]
  /\ NewPages(m, r, V, pl, o)

(* New pages: the counts stay exact, each new page is used at one place,    *)
(* and by nobody else.                                                      *)
LEMMA MapFreshIs ==
  ASSUME NEW m \in ViewRec, NEW V \in SUBSET VAs, NEW r, r = MapFresh(m, V),
         Cardinality(V) <= Cardinality(m.free),
         NEW pl, NEW T, NEW o, o = Others(T, m.who), Books(m, pl, o), r.ok
  PROVE  Mapped(m, r, V, pl, o)
<1> PICK f : f = Fresh(m, V)
  OBVIOUS
<1>t. /\ m.who \in Procs /\ m.ref \in [Pages -> Nat] /\ m.free \subseteq Pages
      /\ m.tab \in [VAs -> 0 .. NPages] /\ m.maps \subseteq Mapping /\ m.ok \in BOOLEAN
  BY DEF ViewRec
<1>1. /\ \A v \in V : f[v] \in m.free
      /\ \A v, w \in V : f[v] = f[w] => v = w
  BY FreshIs
<1>2. /\ r.who = m.who /\ r.maps = m.maps
      /\ r.tab = [v \in VAs |-> IF v \in V THEN f[v] ELSE m.tab[v]]
      /\ r.ref = [g \in Pages |-> IF \E v \in V : f[v] = g THEN 1 ELSE m.ref[g]]
      /\ r.free = m.free \ {f[v] : v \in V}
      /\ r.ok <=> m.ok /\ \A v \in V : m.tab[v] = 0
  BY MapFreshFields
<1>3. \A v \in V : m.tab[v] = 0
  BY <1>2
<1>4. ASSUME NEW g \in m.free
      PROVE  /\ m.ref[g] = 0 /\ ~InPool(pl, g) /\ o[g] = 0
             /\ \A v \in VAs : m.tab[v] # g
  <2>1. g \in Pages /\ m.ref[g] = 0
    BY <1>t DEF Books
  <2>2. m.ref[g] = IF InPool(pl, g) THEN 1 ELSE o[g] + Mine(m.tab, g)
    BY <2>1 DEF Books
  <2>3. ~InPool(pl, g) /\ o[g] + Mine(m.tab, g) = 0
    BY <2>1, <2>2
  <2>4. o[g] \in Nat /\ Mine(m.tab, g) \in Nat
    BY <2>1, <1>t, UsedByOthers, UsedByMe
  <2>5. o[g] = 0 /\ Mine(m.tab, g) = 0
    BY <2>3, <2>4
  <2> QED  BY <2>1, <2>3, <2>5, UsedByMe
<1>5. \A v \in VAs : r.tab[v] = IF v \in V THEN f[v] ELSE m.tab[v]
  BY <1>2
<1>6. ASSUME NEW v \in V, NEW w \in VAs, r.tab[w] = r.tab[v] PROVE w = v
  <2>1. CASE w \in V
    BY <2>1, <1>1, <1>5, <1>6
  <2>2. CASE w \notin V
    <3>1. m.tab[w] = f[v] /\ f[v] \in m.free
      BY <2>2, <1>1, <1>5, <1>6
    <3> QED  BY <3>1, <1>4
  <2> QED  BY <2>1, <2>2
<1>7. r \in ViewRec
  <2>1. r.tab \in [VAs -> 0 .. NPages]
    <3>1. \A v \in V : f[v] \in 0 .. NPages
      BY <1>1, <1>t, Consts
    <3> QED  BY <3>1, <1>t, <1>2
  <2>2. r.ref \in [Pages -> Nat]
    BY <1>t, <1>2
  <2>3. r.free \subseteq Pages /\ r.maps \subseteq Mapping
    BY <1>t, <1>2
  <2>4. r = [who |-> r.who, ref |-> r.ref, free |-> r.free, tab |-> r.tab,
             maps |-> r.maps, ok |-> r.ok] /\ r.ok \in BOOLEAN
    BY DEF MapFresh, ViewRec
  <2> QED  BY <2>1, <2>2, <2>3, <2>4, <1>2, <1>t DEF ViewRec
<1>8. ASSUME NEW g \in Pages
      PROVE  /\ r.ref[g] = IF InPool(pl, g) THEN 1 ELSE o[g] + Mine(r.tab, g)
             /\ g \in r.free <=> r.ref[g] = 0
  <2>1. CASE \E v \in V : f[v] = g
    <3> PICK v \in V : f[v] = g
      BY <2>1
    <3>1. r.ref[g] = 1 /\ g \notin r.free /\ g \in m.free
      BY <1>1, <1>2
    <3>2. ~InPool(pl, g) /\ o[g] = 0
      BY <1>4, <3>1
    <3>3. {w \in VAs : r.tab[w] = g} = {v}
      BY <1>5, <1>6
    <3>4. Mine(r.tab, g) = 1
      BY <3>3, FS_Singleton DEF Mine
    <3> QED  BY <3>1, <3>2, <3>4
  <2>2. CASE ~\E v \in V : f[v] = g
    <3>1. r.ref[g] = m.ref[g] /\ (g \in r.free <=> g \in m.free)
      BY <2>2, <1>2
    <3>2. {w \in VAs : r.tab[w] = g} = {w \in VAs : m.tab[w] = g}
      <4>1. g # 0
        BY Consts
      <4> QED  BY <4>1, <2>2, <1>3, <1>5
    <3>3. Mine(r.tab, g) = Mine(m.tab, g)
      BY <3>2 DEF Mine
    <3> QED  BY <3>1, <3>3 DEF Books
  <2> QED  BY <2>1, <2>2
<1>9. Books(r, pl, o)
  BY <1>8 DEF Books
<1>10. r.free \subseteq m.free /\ m.ok
  BY <1>2
<1>11. \A v \in V : /\ m.tab[v] = 0 /\ r.tab[v] \in m.free
                    /\ ~InPool(pl, r.tab[v]) /\ o[r.tab[v]] = 0
  BY <1>1, <1>3, <1>4, <1>5
<1>12. NewPages(m, r, V, pl, o)
  BY <1>6, <1>11 DEF NewPages
<1> QED  BY <1>2, <1>5, <1>7, <1>9, <1>10, <1>12 DEF Mapped
-----------------------------------------------------------------------------
(* put_physical_page(), dup_physical_page(), recycle_physical_page().      *)

(* The entries of a page inside V and outside.                              *)
In(t, V, g) == Cardinality({v \in V : t[v] = g})

(* A table without its entries at V, and one with those of another there.   *)
Wiped(t, V) == [v \in VAs |-> IF v \in V THEN 0 ELSE t[v]]
Patched(t, V, u) == [v \in VAs |-> IF v \in V THEN u[v] ELSE t[v]]

(* The entries of a page are those inside V and those outside.              *)
LEMMA MineSplit ==
  ASSUME NEW t, NEW V \in SUBSET VAs, NEW g
  PROVE  /\ In(t, V, g) \in Nat /\ In(t, VAs \ V, g) \in Nat
         /\ Mine(t, g) = In(t, V, g) + In(t, VAs \ V, g)
<1> DEFINE S == {v \in VAs : t[v] = g}
           A == {v \in V : t[v] = g}
           B == {v \in VAs \ V : t[v] = g}
<1>1. A \in SUBSET S /\ S \ A = B /\ S \in SUBSET VAs
  OBVIOUS
<1> HIDE DEF A, B, S
<1>2. IsFiniteSet(S)
  BY <1>1, Finite, FS_Subset
<1>3. /\ Cardinality(A) \in Nat /\ Cardinality(B) \in Nat
      /\ Cardinality(S) = Cardinality(A) + Cardinality(B)
  BY <1>1, <1>2, Split
<1> QED  BY <1>3 DEF Mine, In, A, B, S

(* ... of which there are none if the table does not have the page there.   *)
LEMMA InNone ==
  ASSUME NEW t, NEW V, NEW g, \A v \in V : t[v] # g
  PROVE  In(t, V, g) = 0
<1>1. {v \in V : t[v] = g} = {}
  OBVIOUS
<1> QED  BY <1>1, FS_EmptySet DEF In

(* Tables that agree on V have the same entries there.                      *)
LEMMA InSame ==
  ASSUME NEW t, NEW u, NEW V, NEW g, \A v \in V : t[v] = u[v]
  PROVE  In(t, V, g) = In(u, V, g)
<1>1. {v \in V : t[v] = g} = {v \in V : u[v] = g}
  OBVIOUS
<1> QED  BY <1>1 DEF In

(* uvmunmap() field by field; with do_free it is put_physical_page() too.   *)
LEMMA ClearFields ==
  ASSUME NEW m \in ViewRec, NEW V, NEW r, r = Clear(m, V)
  PROVE  /\ r \in ViewRec
         /\ r.who = m.who /\ r.maps = m.maps /\ r.ref = m.ref /\ r.free = m.free
         /\ r.tab = Wiped(m.tab, V)
         /\ r.ok <=> m.ok /\ \A v \in V : m.tab[v] # 0
<1> PICK b \in BOOLEAN : b = (m.ok /\ \A v \in V : m.tab[v] # 0)
  OBVIOUS
<1>1. r = [m EXCEPT !.tab = [v \in VAs |-> IF v \in V THEN 0 ELSE @[v]], !.ok = b]
  BY DEF Clear
<1>2. r = [who |-> m.who, maps |-> m.maps, ref |-> m.ref, free |-> m.free,
           tab |-> [v \in VAs |-> IF v \in V THEN 0 ELSE m.tab[v]], ok |-> b]
  BY <1>1 DEF ViewRec
<1>3. /\ r.who = m.who /\ r.maps = m.maps /\ r.ref = m.ref /\ r.free = m.free
      /\ r.tab = [v \in VAs |-> IF v \in V THEN 0 ELSE m.tab[v]] /\ r.ok = b
  BY <1>2
<1>4. r.ok <=> m.ok /\ \A v \in V : m.tab[v] # 0
  BY <1>3
<1>5. [v \in VAs |-> IF v \in V THEN 0 ELSE m.tab[v]] \in [VAs -> 0 .. NPages]
  BY Consts DEF ViewRec
<1>6. r \in ViewRec
  BY <1>2, <1>5 DEF ViewRec
<1>7. r.tab = Wiped(m.tab, V)
  BY <1>3 DEF Wiped
<1> QED  BY <1>3, <1>4, <1>6, <1>7

(* put_physical_page() field by field.                                      *)
LEMMA PutFields ==
  ASSUME NEW m \in ViewRec, NEW V \in SUBSET VAs, NEW r, r = PutPages(m, V),
         NEW left, left = [g \in Pages |-> m.ref[g] - In(m.tab, V, g)],
         left \in [Pages -> Nat]
  PROVE  /\ r \in ViewRec
         /\ r.who = m.who /\ r.maps = m.maps /\ r.tab = m.tab /\ r.ok = m.ok
         /\ r.ref = left
         /\ r.free = m.free \cup {g \in Pages : m.ref[g] > 0 /\ left[g] = 0}
<1>1. r = [m EXCEPT !.ref = left,
                    !.free = @ \cup {g \in Pages : m.ref[g] > 0 /\ left[g] = 0}]
  BY DEF PutPages, In
<1>3. m.free \cup {g \in Pages : m.ref[g] > 0 /\ left[g] = 0} \in SUBSET Pages
  BY DEF ViewRec
<1> QED  BY <1>1, <1>3 DEF ViewRec

(* r is m without the entries at V.                                         *)
Unmapped(m, r, V, pl, o) ==
  /\ r \in ViewRec /\ r.maps = m.maps /\ r.who = m.who /\ Books(r, pl, o)
  /\ r.tab = Wiped(m.tab, V)
  /\ r.ok <=> m.ok /\ \A v \in V : m.tab[v] # 0

(* Entries of pages that are counted by entry are removed with their        *)
(* references.                                                              *)
LEMMA UnmapIs ==
  ASSUME NEW m \in ViewRec, NEW V \in SUBSET VAs, NEW r, r = Unmap(m, V),
         NEW pl, NEW T, NEW o, o = Others(T, m.who), Books(m, pl, o),
         \A v \in V : ~InPool(pl, m.tab[v])
  PROVE  Unmapped(m, r, V, pl, o)
<1> PICK u : u = PutPages(m, V)
  OBVIOUS
<1>l. PICK left : left = [g \in Pages |-> m.ref[g] - In(m.tab, V, g)]
  OBVIOUS
<1>d. PICK t : t = [v \in VAs |-> IF v \in V THEN 0 ELSE m.tab[v]]
  OBVIOUS
<1>t. m.who \in Procs /\ m.ref \in [Pages -> Nat] /\ m.free \subseteq Pages
  BY DEF ViewRec
<1>1. ASSUME NEW g \in Pages
      PROVE  /\ left[g] = IF InPool(pl, g) THEN 1 ELSE o[g] + Mine(t, g)
             /\ left[g] \in Nat
             /\ m.ref[g] = 0 => left[g] = 0
  <2>c. PICK c \in Nat : c = In(m.tab, V, g)
    BY MineSplit
  <2>d. PICK d \in Nat : d = In(m.tab, VAs \ V, g)
    BY MineSplit
  <2>n. PICK n \in Nat : n = m.ref[g]
    BY <1>t
  <2>1. left[g] = n - c /\ Mine(m.tab, g) = c + d
    BY <1>l, <2>c, <2>d, <2>n, MineSplit
  <2>b. n = IF InPool(pl, g) THEN 1 ELSE o[g] + Mine(m.tab, g)
    BY <2>n DEF Books
  <2>2. CASE InPool(pl, g)
    <3>1. c = 0
      BY <2>2, <2>c, InNone
    <3>2. n = 1
      BY <2>2, <2>b
    <3> QED  BY <2>1, <2>2, <2>n, <3>1, <3>2
  <2>3. CASE ~InPool(pl, g)
    <3>1. g # 0
      BY Consts
    <3>2. In(t, V, g) = 0 /\ In(t, VAs \ V, g) = d
      BY <1>d, <2>d, <3>1, InNone, InSame
    <3>3. Mine(t, g) = 0 + d
      BY <3>2, MineSplit
    <3>k. PICK k \in Nat : k = o[g]
      BY <1>t, UsedByOthers
    <3>4. n = k + (c + d)
      BY <2>1, <2>3, <2>b, <3>k
    <3>5. left[g] = k + d /\ (n = 0 => k + d = 0)
      BY <2>1, <3>4
    <3> QED  BY <2>3, <2>n, <3>3, <3>5, <3>k
  <2> QED  BY <2>2, <2>3
<1>a. left \in [Pages -> Nat]
  BY <1>1, <1>l
<1>2. /\ u \in ViewRec
      /\ u.who = m.who /\ u.maps = m.maps /\ u.tab = m.tab /\ u.ok = m.ok
      /\ u.ref = left
      /\ u.free = m.free \cup {g \in Pages : m.ref[g] > 0 /\ left[g] = 0}
  BY <1>a, <1>l, PutFields
<1>3. r = Clear(u, V)
  BY DEF Unmap
<1>4. /\ r \in ViewRec
      /\ r.who = u.who /\ r.maps = u.maps /\ r.ref = u.ref /\ r.free = u.free
      /\ r.tab = Wiped(u.tab, V)
      /\ r.ok <=> u.ok /\ \A v \in V : u.tab[v] # 0
  BY <1>2, <1>3, ClearFields
<1>5. r.tab = t
  BY <1>2, <1>4, <1>d DEF Wiped
<1>6. ASSUME NEW g \in Pages
      PROVE  /\ r.ref[g] = IF InPool(pl, g) THEN 1 ELSE o[g] + Mine(r.tab, g)
             /\ g \in r.free <=> r.ref[g] = 0
  <2>1. r.ref[g] = IF InPool(pl, g) THEN 1 ELSE o[g] + Mine(r.tab, g)
    BY <1>1, <1>2, <1>4, <1>5
  <2> PICK n \in Nat : n = m.ref[g]
    BY <1>t
  <2>2. g \in r.free <=> n = 0 \/ (n > 0 /\ left[g] = 0)
    BY <1>2, <1>4 DEF Books
  <2>3. n = 0 => left[g] = 0
    BY <1>1
  <2>4. g \in r.free <=> left[g] = 0
    BY <2>2, <2>3
  <2> QED  BY <2>1, <2>4, <1>2, <1>4
<1>7. Books(r, pl, o)
  BY <1>6 DEF Books
<1>8. r.ok <=> m.ok /\ \A v \in V : m.tab[v] # 0
  BY <1>2, <1>4
<1>9. r.tab = Wiped(m.tab, V)
  BY <1>5, <1>d DEF Wiped
<1> QED  BY <1>2, <1>4, <1>7, <1>8, <1>9 DEF Unmapped

(* uvmunmap() is content only with pages that are mapped.                   *)
LEMMA UnmapFinds ==
  ASSUME NEW m \in ViewRec, NEW V, NEW r, r = Unmap(m, V)
  PROVE  /\ r.ok => m.ok /\ \A v \in V : m.tab[v] # 0
         /\ r = [who |-> r.who, ref |-> r.ref, free |-> r.free, tab |-> r.tab,
                 maps |-> r.maps, ok |-> r.ok]
<1> PICK left : left = [g \in Pages |-> m.ref[g] - Cardinality({v \in V : m.tab[v] = g})]
  OBVIOUS
<1> PICK fr : fr = m.free \cup {g \in Pages : m.ref[g] > 0 /\ left[g] = 0}
  OBVIOUS
<1> PICK u : u = PutPages(m, V)
  OBVIOUS
<1>1. u = [m EXCEPT !.ref = left, !.free = fr]
  BY DEF PutPages
<1>2. u = [who |-> m.who, ref |-> left, free |-> fr, tab |-> m.tab, maps |-> m.maps,
           ok |-> m.ok]
  BY <1>1 DEF ViewRec
<1>u. u.tab = m.tab /\ u.ok = m.ok
  BY <1>2
<1>b. PICK b \in BOOLEAN : b = (u.ok /\ \A v \in V : u.tab[v] # 0)
  OBVIOUS
<1> PICK t : t = [v \in VAs |-> IF v \in V THEN 0 ELSE u.tab[v]]
  OBVIOUS
<1>3. r = [u EXCEPT !.tab = t, !.ok = b]
  BY <1>b DEF Unmap, Clear
<1>4. r = [who |-> m.who, ref |-> left, free |-> fr, tab |-> t, maps |-> m.maps, ok |-> b]
  BY ONLY <1>2, <1>3
<1>5. r.ok = b
  BY <1>4
<1>6. b => m.ok /\ \A v \in V : m.tab[v] # 0
  BY <1>b, <1>u
<1>7. r.ok => m.ok /\ \A v \in V : m.tab[v] # 0
  BY <1>5, <1>6
<1>8. r = [who |-> r.who, ref |-> r.ref, free |-> r.free, tab |-> r.tab,
           maps |-> r.maps, ok |-> r.ok]
  BY <1>4
<1> QED  BY <1>7, <1>8

(* Entries of a shared memory are removed and nothing is counted.           *)
LEMMA ClearIs ==
  ASSUME NEW m \in ViewRec, NEW V, NEW r, r = Clear(m, V),
         NEW pl, NEW o, Books(m, pl, o),
         \A v \in V \cap VAs : InPool(pl, m.tab[v])
  PROVE  Unmapped(m, r, V, pl, o)
<1>1. /\ r.ref = m.ref /\ r.free = m.free
      /\ r.tab = [v \in VAs |-> IF v \in V THEN 0 ELSE m.tab[v]]
  BY ClearFields DEF Wiped
<1>2. ASSUME NEW g \in Pages, ~InPool(pl, g) PROVE Mine(r.tab, g) = Mine(m.tab, g)
  <2>1. {v \in VAs : r.tab[v] = g} = {v \in VAs : m.tab[v] = g}
    BY <1>1, <1>2, Consts
  <2> QED  BY <2>1 DEF Mine
<1>3. Books(r, pl, o)
  BY <1>1, <1>2 DEF Books
<1> QED  BY <1>3, ClearFields DEF Unmapped

(* recycle_physical_page() field by field.                                  *)
LEMMA RecycleFields ==
  ASSUME NEW m \in ViewRec, NEW G \in SUBSET Pages, NEW r, r = Recycle(m, G)
  PROVE  /\ r \in ViewRec /\ r.maps = m.maps /\ r.who = m.who /\ r.tab = m.tab
         /\ r.ok = m.ok /\ r.free = m.free \cup G
         /\ \A g \in Pages : r.ref[g] = IF g \in G THEN 0 ELSE m.ref[g]
<1>1. r = [m EXCEPT !.ref = [g \in Pages |-> IF g \in G THEN 0 ELSE @[g]],
                    !.free = @ \cup G]
  BY DEF Recycle
<1>2. m.free \cup G \in SUBSET Pages
  BY DEF ViewRec
<1>3. [g \in Pages |-> IF g \in G THEN 0 ELSE m.ref[g]] \in [Pages -> Nat]
  BY DEF ViewRec
<1>4. r = [who |-> m.who, maps |-> m.maps, tab |-> m.tab, ok |-> m.ok,
           ref |-> [g \in Pages |-> IF g \in G THEN 0 ELSE m.ref[g]],
           free |-> m.free \cup G]
  BY <1>1 DEF ViewRec
<1> QED  BY <1>2, <1>3, <1>4 DEF ViewRec

(* r is m with other pages free.                                            *)
Recycled(m, r, pl, o) ==
  /\ r \in ViewRec /\ r.maps = m.maps /\ r.who = m.who /\ r.tab = m.tab
  /\ r.ok = m.ok /\ Books(r, pl, o)

(* The pages of a shared memory nobody has any more are free.               *)
LEMMA RecycleIs ==
  ASSUME NEW m \in ViewRec, NEW G \in SUBSET Pages, NEW r, r = Recycle(m, G),
         NEW pl, NEW pl2, NEW T, NEW o, o = Others(T, m.who), Books(m, pl, o),
         \A g \in Pages : InPool(pl2, g) <=> InPool(pl, g) /\ g \notin G,
         \A g \in G, q \in Procs \ {m.who}, v \in VAs : T[q][v] # g,
         \A g \in G, v \in VAs : m.tab[v] # g
  PROVE  Recycled(m, r, pl2, o)
<1>2. /\ r \in ViewRec /\ r.maps = m.maps /\ r.who = m.who /\ r.tab = m.tab
      /\ r.ok = m.ok /\ r.free = m.free \cup G
      /\ \A g \in Pages : r.ref[g] = IF g \in G THEN 0 ELSE m.ref[g]
  BY RecycleFields
<1>3. m.who \in Procs
  BY DEF ViewRec
<1>4. ASSUME NEW g \in G PROVE o[g] + Mine(r.tab, g) = 0
  <2>1. o[g] = 0
    BY <1>3, UsedByOthers
  <2>2. Mine(r.tab, g) = 0
    BY <1>2, UsedByMe
  <2> QED  BY <2>1, <2>2
<1>5. ASSUME NEW g \in Pages
      PROVE  /\ r.ref[g] = IF InPool(pl2, g) THEN 1 ELSE o[g] + Mine(r.tab, g)
             /\ g \in r.free <=> r.ref[g] = 0
  <2>1. CASE g \in G
    BY <2>1, <1>2, <1>4
  <2>2. CASE g \notin G
    BY <2>2, <1>2 DEF Books
  <2> QED  BY <2>1, <2>2
<1>6. Books(r, pl2, o)
  BY <1>5 DEF Books
<1> QED  BY <1>2, <1>6 DEF Recycled

(* r is m with the entries of t at V.                                       *)
Joined(m, r, t, V, pl, o) ==
  /\ r \in ViewRec /\ r.maps = m.maps /\ r.who = m.who /\ Books(r, pl, o)
  /\ r.tab = Patched(m.tab, V, t) /\ r.ok = m.ok

(* Entries are copied from the table of another process.                    *)
LEMMA ShareIs ==
  ASSUME NEW m \in ViewRec, NEW V \in SUBSET VAs, NEW t, NEW r, r = Share(m, t, V),
         NEW pl, NEW T, NEW o, o = Others(T, m.who), Books(m, pl, o),
         \A v \in V : /\ m.tab[v] = 0 /\ t[v] \in Pages /\ ~InPool(pl, t[v])
                      /\ o[t[v]] # 0
  PROVE  Joined(m, r, t, V, pl, o)
<1>f. PICK f : f = [g \in Pages |-> m.ref[g] + In(t, V, g)]
  OBVIOUS
<1>t. /\ m.who \in Procs /\ m.ref \in [Pages -> Nat] /\ m.free \subseteq Pages
      /\ m.tab \in [VAs -> 0 .. NPages]
  BY DEF ViewRec
<1>1. r = [m EXCEPT !.tab = [v \in VAs |-> IF v \in V THEN t[v] ELSE @[v]], !.ref = f]
  BY <1>f DEF Share, ViewRec, In
<1>2. f \in [Pages -> Nat]
  <2>1. ASSUME NEW g \in Pages PROVE f[g] \in Nat
    <3>1. In(t, V, g) \in Nat /\ m.ref[g] \in Nat
      BY <1>t, MineSplit
    <3> QED  BY <3>1, <1>f
  <2> QED  BY <2>1, <1>f
<1>s. PICK s : s = [v \in VAs |-> IF v \in V THEN t[v] ELSE m.tab[v]]
  OBVIOUS
<1>3. s \in [VAs -> 0 .. NPages]
  BY <1>t, <1>s, Consts
<1>4. /\ r \in ViewRec /\ r.maps = m.maps /\ r.who = m.who /\ r.ok = m.ok
      /\ r.tab = s /\ r.ref = f /\ r.free = m.free
  <2>1. r = [who |-> m.who, ref |-> f, free |-> m.free, tab |-> s,
             maps |-> m.maps, ok |-> m.ok]
    BY <1>1, <1>s DEF ViewRec
  <2> QED  BY <2>1, <1>2, <1>3 DEF ViewRec
<1>5. ASSUME NEW g \in Pages
      PROVE  /\ r.ref[g] = IF InPool(pl, g) THEN 1 ELSE o[g] + Mine(r.tab, g)
             /\ g \in r.free <=> r.ref[g] = 0
  <2>c. PICK c \in Nat : c = In(t, V, g)
    BY MineSplit
  <2>d. PICK d \in Nat : d = Mine(m.tab, g)
    BY UsedByMe
  <2>n. PICK n \in Nat : n = m.ref[g]
    BY <1>t
  <2>k. PICK k \in Nat : k = o[g]
    BY <1>t, UsedByOthers
  <2>1. r.ref[g] = n + c
    BY <1>4, <1>f, <2>c, <2>n
  <2>2. Mine(r.tab, g) = c + d
    <3>0. g # 0
      BY Consts
    <3>1. In(r.tab, V, g) = c
      BY <1>4, <1>s, <2>c, InSame
    <3>2. In(r.tab, VAs \ V, g) = In(m.tab, VAs \ V, g) /\ In(m.tab, V, g) = 0
      BY <1>4, <1>s, <3>0, InSame, InNone
    <3>3. /\ Mine(r.tab, g) = In(r.tab, V, g) + In(r.tab, VAs \ V, g)
          /\ Mine(m.tab, g) = In(m.tab, V, g) + In(m.tab, VAs \ V, g)
          /\ In(m.tab, VAs \ V, g) \in Nat
      BY MineSplit
    <3> QED  BY <2>d, <3>1, <3>2, <3>3
  <2>3. c # 0 => ~InPool(pl, g) /\ k # 0
    <3>1. CASE \E v \in V : t[v] = g
      BY <3>1, <2>k
    <3>2. CASE ~\E v \in V : t[v] = g
      BY <3>2, <2>c, InNone
    <3> QED  BY <3>1, <3>2
  <2>4. n = IF InPool(pl, g) THEN 1 ELSE k + d
    BY <2>d, <2>k, <2>n DEF Books
  <2>5. /\ n + c = IF InPool(pl, g) THEN 1 ELSE k + (c + d)
        /\ n = 0 <=> n + c = 0
    BY <2>3, <2>4
  <2>6. g \in r.free <=> n = 0
    BY <1>4, <2>n DEF Books
  <2> QED  BY <2>1, <2>2, <2>5, <2>6, <2>k
<1>6. Books(r, pl, o)
  BY <1>5 DEF Books
<1>7. r.tab = Patched(m.tab, V, t)
  BY <1>4, <1>s DEF Patched
<1> QED  BY <1>4, <1>6, <1>7 DEF Joined
-----------------------------------------------------------------------------
(* The mapping table.                                                      *)

LeftSet(R, a) == {LeftOf(r, a) : r \in {r \in R : r.va < a}}
RightSet(R, b) == {RightOf(r, b) : r \in {r \in R : r.va + r.n > b}}
Cuts(R, a) == {r \in R : r.va < a /\ a + 1 < r.va + r.n}

(* The part of a mapping before page a.                                     *)
LEMMA LeftIs ==
  ASSUME NEW r \in Mapping, NEW a \in Nat, r.va < a, r.va + r.n <= NVA + 1,
         NEW l, l = LeftOf(r, a)
  PROVE  /\ l \in Mapping /\ l.shared = r.shared /\ l.va + l.n <= NVA + 1
         /\ Rng(l) = {v \in Rng(r) : v < a}
<1>c. PICK va \in Nat, n \in Nat : va = r.va /\ n = r.n /\ n > 0 /\ n <= NVA
  BY Consts DEF Mapping, VAs
<1>k. PICK k : k = Min({n, a - va})
  OBVIOUS
<1>1. a - va \in Nat /\ a - va > 0
  BY <1>c
<1>2. k = IF n <= a - va THEN n ELSE a - va
  BY <1>c, <1>k, <1>1, MinMax
<1>3. k \in Nat /\ k > 0 /\ k <= n /\ va + k <= NVA + 1 /\ k <= NVA
  BY <1>c, <1>1, <1>2, Consts
<1>4. l = [r EXCEPT !.n = k]
  BY <1>c, <1>k DEF LeftOf
<1>5. k \in 1 .. NVA
  BY <1>3, Consts
<1>6. l \in Mapping /\ l.shared = r.shared /\ l.va = va /\ l.n = k
  BY <1>4, <1>5, <1>c DEF Mapping
<1>7. ASSUME NEW v PROVE v \in va .. va + k - 1 <=> v \in va .. va + n - 1 /\ v < a
  BY <1>1, <1>2, <1>3, <1>c
<1>8. Rng(l) = va .. va + k - 1 /\ Rng(r) = va .. va + n - 1
  BY <1>6, <1>c DEF Rng, Range1
<1>9. Rng(l) = {v \in Rng(r) : v < a}
  BY <1>7, <1>8
<1> QED  BY <1>3, <1>6, <1>9

(* ... and that from page b on.                                             *)
LEMMA RightIs ==
  ASSUME NEW r \in Mapping, NEW b \in Nat, r.va + r.n > b, r.va + r.n <= NVA + 1,
         NEW l, l = RightOf(r, b)
  PROVE  /\ l \in Mapping /\ l.shared = r.shared /\ l.va + l.n <= NVA + 1
         /\ Rng(l) = {v \in Rng(r) : v >= b}
<1>c. PICK va \in Nat, n \in Nat : va = r.va /\ n = r.n /\ n > 0 /\ n <= NVA
  BY Consts DEF Mapping, VAs
<1>k. PICK k : k = Max({va, b})
  OBVIOUS
<1>2. k = IF va <= b THEN b ELSE va
  BY <1>k, MinMax
<1>h. PICK h : h = va + n - k
  OBVIOUS
<1>3. /\ k \in Nat /\ h \in Nat /\ h > 0 /\ h <= n /\ k + h = va + n /\ k <= NVA
      /\ h <= NVA
  BY <1>c, <1>2, <1>h, Consts
<1>4. l = [r EXCEPT !.va = k, !.n = h]
  BY <1>c, <1>k, <1>h DEF RightOf
<1>5. k \in VAs /\ h \in 1 .. NVA
  BY <1>3, Consts DEF VAs
<1>6. l \in Mapping /\ l.shared = r.shared /\ l.va = k /\ l.n = h
  BY <1>4, <1>5 DEF Mapping
<1>7. ASSUME NEW v PROVE v \in k .. k + h - 1 <=> v \in va .. va + n - 1 /\ v >= b
  BY <1>2, <1>3, <1>c
<1>8. Rng(l) = k .. k + h - 1 /\ Rng(r) = va .. va + n - 1
  BY <1>6, <1>c DEF Rng, Range1
<1>9. Rng(l) = {v \in Rng(r) : v >= b}
  BY <1>7, <1>8
<1>10. l.va + l.n <= NVA + 1
  BY <1>3, <1>6, <1>c
<1> QED  BY <1>6, <1>9, <1>10

(* Pages are numbers, and a mapping has its first.                          *)
LEMMA RngIs ==
  ASSUME NEW r \in Mapping, r.va + r.n <= NVA + 1
  PROVE  /\ Rng(r) \subseteq VAs
         /\ \A v \in Nat : v \in Rng(r) <=> r.va <= v /\ v < r.va + r.n
<1>c. PICK va \in Nat, n \in Nat : va = r.va /\ n = r.n /\ n > 0 /\ n <= NVA
  BY Consts DEF Mapping, VAs
<1>1. Rng(r) = va .. va + n - 1
  BY <1>c DEF Rng, Range1
<1>2. va + n <= NVA + 1
  BY <1>c
<1>3. \A v \in va .. va + n - 1 : v \in 0 .. NVA
  BY <1>c, <1>2, Consts
<1>4. \A v \in Nat : v \in va .. va + n - 1 <=> va <= v /\ v < va + n
  BY <1>c
<1> QED  BY <1>1, <1>3, <1>4, <1>c DEF VAs

(* Where every piece comes from.                                            *)
LEMMA Pieces ==
  ASSUME NEW R, MapsOK(R), NEW a \in Nat, NEW b \in Nat, a <= b
  PROVE  /\ \A l \in LeftSet(R, a) : \E r \in R :
              /\ r.va < a /\ l = LeftOf(r, a) /\ l \in Mapping /\ l.shared = r.shared
              /\ l.va + l.n <= NVA + 1 /\ Rng(l) = {v \in Rng(r) : v < a}
         /\ \A l \in RightSet(R, b) : \E r \in R :
              /\ r.va + r.n > b /\ l = RightOf(r, b) /\ l \in Mapping
              /\ l.shared = r.shared
              /\ l.va + l.n <= NVA + 1 /\ Rng(l) = {v \in Rng(r) : v >= b}
         /\ \A r \in R : /\ r.va < a => LeftOf(r, a) \in LeftSet(R, a)
                         /\ r.va + r.n > b => RightOf(r, b) \in RightSet(R, b)
<1>1. \A r \in R : r \in Mapping /\ r.va + r.n <= NVA + 1
  BY DEF MapsOK
<1>2. ASSUME NEW l \in LeftSet(R, a)
      PROVE  \E r \in R :
              /\ r.va < a /\ l = LeftOf(r, a) /\ l \in Mapping /\ l.shared = r.shared
              /\ l.va + l.n <= NVA + 1 /\ Rng(l) = {v \in Rng(r) : v < a}
  <2> PICK r \in R : r.va < a /\ l = LeftOf(r, a)
    BY DEF LeftSet
  <2> QED  BY <1>1, LeftIs
<1>3. ASSUME NEW l \in RightSet(R, b)
      PROVE  \E r \in R :
              /\ r.va + r.n > b /\ l = RightOf(r, b) /\ l \in Mapping
              /\ l.shared = r.shared
              /\ l.va + l.n <= NVA + 1 /\ Rng(l) = {v \in Rng(r) : v >= b}
  <2> PICK r \in R : r.va + r.n > b /\ l = RightOf(r, b)
    BY DEF RightSet
  <2> QED  BY <1>1, RightIs
<1>4. \A r \in R : /\ r.va < a => LeftOf(r, a) \in LeftSet(R, a)
                   /\ r.va + r.n > b => RightOf(r, b) \in RightSet(R, b)
  BY DEF LeftSet, RightSet
<1> QED  BY <1>2, <1>3, <1>4

(* Cutting a range out of a table leaves a table without it, ...            *)
LEMMA CutTable ==
  ASSUME NEW R, MapsOK(R), NEW a \in Nat, NEW b \in Nat, a < b,
         NEW S, S = LeftSet(R, a) \cup RightSet(R, b)
  PROVE  /\ MapsOK(S)
         /\ MappedBy(S) = MappedBy(R) \ (a .. b - 1)
         /\ \A v \in VAs \ (a .. b - 1) : SharedIn(R, v) => SharedIn(S, v)
<1> a <= b
  OBVIOUS
<1>0. \A r \in R : r \in Mapping /\ r.va + r.n <= NVA + 1
  BY DEF MapsOK
<1>1. S \subseteq Mapping /\ \A l \in S : l.va + l.n <= NVA + 1
  BY Pieces
<1>2. IsFiniteSet(S)
  <2> DEFINE A == {r \in R : r.va < a}
             B == {r \in R : r.va + r.n > b}
             f == [r \in A |-> LeftOf(r, a)]
             g == [r \in B |-> RightOf(r, b)]
  <2>1. IsFiniteSet(A) /\ IsFiniteSet(B)
    BY FS_Subset DEF MapsOK
  <2>2. f \in Surjection(A, LeftSet(R, a)) /\ g \in Surjection(B, RightSet(R, b))
    BY DEF Surjection, LeftSet, RightSet
  <2> HIDE DEF f, g, A, B
  <2>3. IsFiniteSet(LeftSet(R, a)) /\ IsFiniteSet(RightSet(R, b))
    BY <2>1, <2>2, FS_Surjection
  <2> QED  BY <2>3, FS_Union
<1>3. ASSUME NEW l \in S
      PROVE  \E r \in R : /\ l.shared = r.shared
                          /\ \/ /\ l = LeftOf(r, a) /\ l \in LeftSet(R, a)
                                /\ Rng(l) = {v \in Rng(r) : v < a}
                             \/ /\ l = RightOf(r, b) /\ l \in RightSet(R, b)
                                /\ Rng(l) = {v \in Rng(r) : v >= b}
  <2>1. CASE l \in LeftSet(R, a)
    BY <2>1, Pieces
  <2>2. CASE l \in RightSet(R, b)
    BY <2>2, Pieces
  <2> QED  BY <2>1, <2>2
<1>4. \A r \in R : Rng(r) \subseteq Nat
  BY <1>0, RngIs, Consts
<1>5. ASSUME NEW k \in S, NEW l \in S, k # l PROVE Rng(k) \cap Rng(l) = {}
  <2>1. PICK r \in R : \/ k = LeftOf(r, a) /\ Rng(k) = {v \in Rng(r) : v < a}
                       \/ k = RightOf(r, b) /\ Rng(k) = {v \in Rng(r) : v >= b}
    BY <1>3
  <2>2. PICK s \in R : \/ l = LeftOf(s, a) /\ Rng(l) = {v \in Rng(s) : v < a}
                       \/ l = RightOf(s, b) /\ Rng(l) = {v \in Rng(s) : v >= b}
    BY <1>3
  <2>3. CASE r # s
    <3>1. Rng(r) \cap Rng(s) = {}
      BY <2>3 DEF MapsOK, Rng
    <3> QED  BY <3>1, <2>1, <2>2
  <2>4. CASE r = s
    <3>1. \A v \in Rng(r) : ~(v < a /\ v >= b)
      BY <1>4
    <3> QED  BY <3>1, <2>1, <2>2, <2>4, <1>5
  <2> QED  BY <2>3, <2>4
<1>6. MapsOK(S)
  BY <1>1, <1>2, <1>5 DEF MapsOK, Rng
<1>7. ASSUME NEW r \in R, NEW v \in Rng(r), v \notin a .. b - 1
      PROVE  \E l \in S : v \in Rng(l) /\ l.shared = r.shared
  <2>0. r \in Mapping /\ r.va + r.n <= NVA + 1 /\ v \in Nat
    BY <1>0, <1>4
  <2>r. r.va <= v /\ v < r.va + r.n
    BY <2>0, RngIs
  <2>c. PICK x \in Nat, n \in Nat : x = r.va /\ n = r.n
    BY <2>0, Consts DEF Mapping, VAs
  <2>1. CASE v < a
    <3>1. r.va < a
      BY <2>0, <2>1, <2>r, <2>c
    <3>2. LeftOf(r, a) \in S
      BY <3>1, Pieces
    <3>3. v \in Rng(LeftOf(r, a)) /\ LeftOf(r, a).shared = r.shared
      BY <2>0, <2>1, <3>1, LeftIs
    <3> QED  BY <3>2, <3>3
  <2>2. CASE v >= b
    <3>1. r.va + r.n > b
      BY <2>0, <2>2, <2>r, <2>c
    <3>2. RightOf(r, b) \in S
      BY <3>1, Pieces
    <3>3. v \in Rng(RightOf(r, b)) /\ RightOf(r, b).shared = r.shared
      BY <2>0, <2>2, <3>1, RightIs
    <3> QED  BY <3>2, <3>3
  <2> QED  BY <2>0, <2>1, <2>2, <1>7
<1>8. MappedBy(S) = MappedBy(R) \ (a .. b - 1)
  <2>1. ASSUME NEW v \in MappedBy(S) PROVE v \in MappedBy(R) \ (a .. b - 1)
    <3> PICK l \in S : v \in Rng(l)
      BY <2>1 DEF MappedBy, Rng
    <3> PICK r \in R : v \in Rng(r) /\ (v < a \/ v >= b)
      BY <1>3
    <3>1. v \notin a .. b - 1
      BY <1>4
    <3> QED  BY <3>1 DEF MappedBy, Rng
  <2>2. ASSUME NEW v \in MappedBy(R) \ (a .. b - 1) PROVE v \in MappedBy(S)
    <3> PICK r \in R : v \in Rng(r)
      BY <2>2 DEF MappedBy, Rng
    <3> PICK l \in S : v \in Rng(l)
      BY <1>7
    <3> QED  BY DEF MappedBy, Rng
  <2> QED  BY <2>1, <2>2
<1>9. ASSUME NEW v \in VAs \ (a .. b - 1), SharedIn(R, v) PROVE SharedIn(S, v)
  BY <1>7, <1>9 DEF SharedIn
<1> QED  BY <1>6, <1>8, <1>9

(* ... which is not too long for p->maps unless mapping_add() finds out.     *)
LEMMA CutRoom ==
  ASSUME NEW R, MapsOK(R), NEW a \in Nat, NEW b \in Nat, a < b,
         NEW S, S = LeftSet(R, a) \cup RightSet(R, b),
         Cardinality(R) <= MAX_MAPPING, Cuts(R, a) = {} \/ HasRoom(R)
  PROVE  Cardinality(S) <= MAX_MAPPING
<1>0. \A r \in R : r \in Mapping /\ r.va + r.n <= NVA + 1
  BY DEF MapsOK
<1>c. \A r \in R : r.va \in Nat /\ r.n \in Nat
  BY <1>0, Consts DEF Mapping, VAs
<1> DEFINE f == [r \in R |-> IF r.va < a THEN LeftOf(r, a) ELSE RightOf(r, b)]
           T == {f[r] : r \in R}
           Both(r) == r.va < a /\ r.va + r.n > b
<1>1. IsFiniteSet(R)
  BY DEF MapsOK
<1>2. f \in Surjection(R, T)
  BY DEF Surjection
<1>3. \A r \in R : r.va < a => LeftOf(r, a) \in T
  OBVIOUS
<1>4. \A r \in R : ~(r.va < a) => RightOf(r, b) \in T
  OBVIOUS
<1>5. \A l \in S : l \in T \/ \E r \in R : Both(r) /\ l = RightOf(r, b)
  BY <1>3, <1>4 DEF LeftSet, RightSet
<1> HIDE DEF f, T
<1>6. IsFiniteSet(T) /\ Cardinality(T) <= Cardinality(R)
  BY <1>1, <1>2, FS_Surjection
<1>7. PICK h \in Nat, k \in Nat : h = Cardinality(T) /\ k = Cardinality(R)
  BY <1>1, <1>6, FS_CardinalityType
<1>8. CASE \A r \in R : ~Both(r)
  <2>1. S \in SUBSET T
    BY <1>5, <1>8
  <2>2. Cardinality(S) <= Cardinality(T) /\ IsFiniteSet(S)
    BY <2>1, <1>6, FS_Subset
  <2>3. Cardinality(S) \in Nat
    BY <2>2, FS_CardinalityType
  <2> QED  BY <2>2, <2>3, <1>6, <1>7, Consts
<1>9. CASE \E r \in R : Both(r)
  <2>1. PICK r \in R : Both(r)
    BY <1>9
  <2>2. PICK x \in Nat, n \in Nat : x = r.va /\ n = r.n
    BY <1>c
  <2>3. a + 1 < x + n
    BY <2>1, <2>2
  <2>4. r \in Cuts(R, a)
    BY <2>1, <2>2, <2>3 DEF Cuts
  <2>5. k < MAX_MAPPING
    BY <2>4, <1>7 DEF HasRoom
  <2>6. ASSUME NEW s \in R, Both(s) PROVE s = r
    <3>1. PICK y \in Nat, i \in Nat : y = s.va /\ i = s.n
      BY <1>c
    <3>2. a \in x .. x + n - 1 /\ a \in y .. y + i - 1
      BY <2>1, <2>2, <2>6, <3>1
    <3>3. a \in Range1(r.va, r.n) /\ a \in Range1(s.va, s.n)
      BY <2>2, <3>1, <3>2 DEF Range1
    <3> QED  BY <3>3 DEF MapsOK
  <2>7. S \in SUBSET (T \cup {RightOf(r, b)})
    BY <1>5, <2>6
  <2> DEFINE U == T \cup {RightOf(r, b)}
  <2>8. IsFiniteSet(U) /\ Cardinality(U) = IF RightOf(r, b) \in T THEN h ELSE h + 1
    BY <1>6, <1>7, FS_AddElement
  <2>9. S \in SUBSET U
    BY <2>7
  <2> HIDE DEF U
  <2>10. Cardinality(S) <= Cardinality(U) /\ IsFiniteSet(S)
    BY <2>8, <2>9, FS_Subset
  <2>11. Cardinality(S) \in Nat
    BY <2>10, FS_CardinalityType
  <2>12. Cardinality(U) \in Nat /\ Cardinality(U) <= h + 1
    BY <2>8
  <2>13. h <= k
    BY <1>6, <1>7
  <2> QED  BY <2>5, <2>10, <2>11, <2>12, <2>13, <1>7, Consts
<1> QED  BY <1>8, <1>9

(* r is m without the mappings of a range.                                  *)
Removed(m, r, a, n, pl, o) ==
  /\ r \in ViewRec /\ r.who = m.who /\ Books(r, pl, o)
  /\ MapsOK(r.maps) /\ MappedBy(r.maps) = MappedBy(m.maps) \ Range1(a, n)
  /\ \A v \in VAs \ Range1(a, n) : SharedIn(m.maps, v) => SharedIn(r.maps, v)
  /\ r.tab = Wiped(m.tab, MappedBy(m.maps) \cap Range1(a, n))
  /\ r.ok => m.ok /\ (Cardinality(m.maps) <= MAX_MAPPING
                      => Cardinality(r.maps) <= MAX_MAPPING)

(* mapping_try_remove_page() for every page of a range.                     *)
LEMMA RemoveRangeIs ==
  ASSUME NEW m \in ViewRec, NEW a \in Nat, NEW n \in Nat \ {0},
         NEW r, r = RemoveRange(m, a, n),
         NEW pl, NEW T, NEW o, o = Others(T, m.who), Books(m, pl, o),
         MapsOK(m.maps), \A v \in MappedBy(m.maps) : ~InPool(pl, m.tab[v])
  PROVE  Removed(m, r, a, n, pl, o)
<1>b. PICK b \in Nat : b = a + n /\ a < b
  OBVIOUS
<1>S. PICK S : S = LeftSet(m.maps, a) \cup RightSet(m.maps, b)
  OBVIOUS
<1>V. PICK V : V = MappedBy(m.maps) \cap Range1(a, n)
  OBVIOUS
<1>u. PICK u : u = Unmap(m, V)
  OBVIOUS
<1>k. PICK k \in BOOLEAN : k = (u.ok /\ (Cuts(m.maps, a) = {} \/ HasRoom(m.maps)))
  OBVIOUS
<1>1. Range1(a, n) = a .. b - 1
  BY <1>b DEF Range1
<1>2. r = [u EXCEPT !.maps = S, !.ok = k]
  BY <1>b, <1>S, <1>V, <1>u, <1>k DEF RemoveRange, LeftSet, RightSet, Cuts
<1>3. /\ MapsOK(S) /\ MappedBy(S) = MappedBy(m.maps) \ Range1(a, n)
      /\ \A v \in VAs \ Range1(a, n) : SharedIn(m.maps, v) => SharedIn(S, v)
  BY <1>b, <1>S, <1>1, CutTable
<1>4. V \in SUBSET VAs
  <2>1. \A s \in m.maps : Rng(s) \subseteq VAs
    BY RngIs DEF MapsOK
  <2> QED  BY <2>1, <1>V DEF MappedBy, Rng
<1>5. \A v \in V : ~InPool(pl, m.tab[v])
  BY <1>V
<1>a. Unmapped(m, u, V, pl, o)
  BY <1>u, <1>4, <1>5, UnmapIs
<1>6. /\ u \in ViewRec /\ u.maps = m.maps /\ u.who = m.who /\ Books(u, pl, o)
      /\ u.tab = Wiped(m.tab, V)
      /\ u.ok <=> m.ok /\ \A v \in V : m.tab[v] # 0
  BY <1>a DEF Unmapped
<1>7. S \in SUBSET Mapping
  BY <1>3 DEF MapsOK
<1>8. /\ r \in ViewRec /\ r.who = u.who /\ r.ref = u.ref /\ r.free = u.free
      /\ r.tab = u.tab /\ r.maps = S /\ r.ok = k
  <2>1. r = [who |-> u.who, ref |-> u.ref, free |-> u.free, tab |-> u.tab,
             maps |-> S, ok |-> k]
    BY <1>2, <1>6 DEF ViewRec
  <2> QED  BY <2>1, <1>6, <1>7 DEF ViewRec
<1>9. Books(r, pl, o)
  BY <1>6, <1>8 DEF Books
<1>10. ASSUME k, Cardinality(m.maps) <= MAX_MAPPING PROVE Cardinality(S) <= MAX_MAPPING
  <2>1. Cuts(m.maps, a) = {} \/ HasRoom(m.maps)
    BY <1>k, <1>10
  <2> QED  BY <2>1, <1>b, <1>S, <1>10, CutRoom
<1>11. k => m.ok
  BY <1>k, <1>6
<1>12. r.ok => m.ok /\ (Cardinality(m.maps) <= MAX_MAPPING
                        => Cardinality(r.maps) <= MAX_MAPPING)
  BY <1>8, <1>10, <1>11
<1> QED  BY <1>3, <1>6, <1>8, <1>9, <1>12, <1>V DEF Removed

(* An interval of n pages has n pages.                                      *)
LEMMA Range1Is ==
  ASSUME NEW a \in Nat, NEW n \in Nat
  PROVE  /\ IsFiniteSet(Range1(a, n)) /\ Cardinality(Range1(a, n)) = n
         /\ \A v : v \in Range1(a, n) <=> v \in Nat /\ a <= v /\ v < a + n
<1>1. a \in Int /\ a + n - 1 \in Int
  OBVIOUS
<1>2. /\ IsFiniteSet(a .. a + n - 1)
      /\ Cardinality(a .. a + n - 1) = IF a > a + n - 1 THEN 0 ELSE (a + n - 1) - a + 1
  BY <1>1, FS_Interval
<1>3. (IF a > a + n - 1 THEN 0 ELSE (a + n - 1) - a + 1) = n
  OBVIOUS
<1>4. \A v : v \in a .. a + n - 1 <=> v \in Nat /\ a <= v /\ v < a + n
  OBVIOUS
<1> QED  BY <1>2, <1>3, <1>4 DEF Range1

(* r is m with a mapping more.                                              *)
Placed(m, r, a, n, pl, o) ==
  /\ r \in ViewRec /\ r.who = m.who /\ Books(r, pl, o) /\ m.ok
  /\ MapsOK(r.maps) /\ MappedBy(r.maps) = MappedBy(m.maps) \cup Range1(a, n)
  /\ \A v \in VAs : SharedIn(m.maps, v) => SharedIn(r.maps, v)
  /\ Cardinality(r.maps) <= MAX_MAPPING
  /\ \A v \in VAs \ Range1(a, n) : r.tab[v] = m.tab[v]
  /\ NewPages(m, r, Range1(a, n), pl, o)

(* The second half of mmap().                                               *)
LEMMA PlaceIs ==
  ASSUME NEW m \in ViewRec, NEW a \in VAs, NEW n \in 1 .. NVA, a + n <= NVA + 1,
         NEW shared \in BOOLEAN, NEW r, r = Place(m, a, n, shared),
         n <= Cardinality(m.free),
         NEW pl, NEW T, NEW o, o = Others(T, m.who), Books(m, pl, o),
         MapsOK(m.maps), MappedBy(m.maps) \cap Range1(a, n) = {}, r.ok
  PROVE  Placed(m, r, a, n, pl, o)
<1>c. a \in Nat /\ n \in Nat /\ n > 0 /\ NVA \in Nat
  BY Consts
<1>V. PICK V : V = Range1(a, n)
  OBVIOUS
<1>x. PICK x : x = [va |-> a, n |-> n, shared |-> shared]
  OBVIOUS
<1>u. PICK u : u = MapFresh(m, V)
  OBVIOUS
<1>k. PICK k \in BOOLEAN : k = (u.ok /\ HasRoom(m.maps))
  OBVIOUS
<1>0. m.maps \subseteq Mapping /\ m.free \subseteq Pages
  BY DEF ViewRec
<1>1. V \in SUBSET VAs /\ Cardinality(V) = n
  <2>1. \A v \in V : v \in Nat /\ v <= NVA
    BY <1>V, <1>c, Range1Is
  <2> QED  BY <2>1, <1>V, <1>c, Range1Is DEF VAs
<1>2. /\ u.who = m.who /\ u.maps = m.maps
  BY <1>u DEF MapFresh, ViewRec
<1>3. r = [u EXCEPT !.maps = m.maps \cup {x}, !.ok = k]
  BY <1>V, <1>x, <1>u, <1>k, <1>2 DEF Place
<1>4. r.ok = k
  <2>1. u = [who |-> u.who, ref |-> u.ref, free |-> u.free, tab |-> u.tab,
             maps |-> u.maps, ok |-> u.ok]
    BY <1>u DEF MapFresh, ViewRec
  <2> QED  BY <2>1, <1>3
<1>5. u.ok /\ HasRoom(m.maps)
  BY <1>4, <1>k
<1>f. Cardinality(V) <= Cardinality(m.free)
  BY <1>1
<1>a. Mapped(m, u, V, pl, o)
  BY <1>f, <1>1, <1>5, <1>u, MapFreshIs
<1>6. /\ u \in ViewRec /\ Books(u, pl, o) /\ m.ok
      /\ u.maps = m.maps /\ u.who = m.who /\ u.free \subseteq m.free
      /\ \A v \in VAs \ V : u.tab[v] = m.tab[v]
      /\ NewPages(m, u, V, pl, o)
  BY <1>a DEF Mapped
<1>7. x \in Mapping /\ Rng(x) = V /\ x.va + x.n <= NVA + 1
  BY <1>x, <1>V DEF Mapping, Rng
<1>8. m.maps \cup {x} \in SUBSET Mapping
  BY <1>0, <1>7
<1>9. /\ r \in ViewRec /\ r.who = u.who /\ r.ref = u.ref /\ r.free = u.free
      /\ r.tab = u.tab /\ r.maps = m.maps \cup {x}
  <2>1. r = [who |-> u.who, ref |-> u.ref, free |-> u.free, tab |-> u.tab,
             maps |-> m.maps \cup {x}, ok |-> k]
    BY <1>3, <1>6 DEF ViewRec
  <2> QED  BY <2>1, <1>6, <1>8 DEF ViewRec
<1>10. Books(r, pl, o)
  BY <1>6, <1>9 DEF Books
<1>11. MappedBy(r.maps) = MappedBy(m.maps) \cup V
  BY <1>9, <1>7 DEF MappedBy, Rng
<1>12. MapsOK(r.maps) /\ Cardinality(r.maps) <= MAX_MAPPING
  <2>1. IsFiniteSet(m.maps)
    BY DEF MapsOK
  <2>a. PICK c \in Nat : c = Cardinality(m.maps)
    BY <2>1, FS_CardinalityType
  <2>b. /\ IsFiniteSet(m.maps \cup {x})
        /\ Cardinality(m.maps \cup {x})
             = IF x \in m.maps THEN Cardinality(m.maps) ELSE Cardinality(m.maps) + 1
    BY <2>1, FS_AddElement
  <2>2. IsFiniteSet(r.maps) /\ (Cardinality(r.maps) = c \/ Cardinality(r.maps) = c + 1)
    BY <1>9, <2>a, <2>b
  <2>h. c < MAX_MAPPING
    BY <1>5, <2>a DEF HasRoom
  <2>3. Cardinality(r.maps) <= MAX_MAPPING
    BY <2>2, <2>h, Consts
  <2>4. \A s \in m.maps : Rng(s) \cap Rng(x) = {}
    BY <1>7, <1>V DEF MappedBy, Rng
  <2>5. \A s, t \in r.maps : s # t => Range1(s.va, s.n) \cap Range1(t.va, t.n) = {}
    BY <1>9, <2>4 DEF MapsOK, Rng
  <2>6. \A s \in r.maps : s.va + s.n <= NVA + 1
    BY <1>7, <1>9 DEF MapsOK
  <2> QED  BY <1>8, <1>9, <2>2, <2>3, <2>5, <2>6 DEF MapsOK
<1>13. \A v \in VAs : SharedIn(m.maps, v) => SharedIn(r.maps, v)
  BY <1>9 DEF SharedIn
<1>14. (\A v \in VAs \ V : r.tab[v] = m.tab[v]) /\ NewPages(m, r, V, pl, o)
  BY <1>6, <1>9 DEF NewPages
<1>15. r \in ViewRec /\ r.who = m.who /\ m.ok
  BY <1>6, <1>9
<1> QED  BY <1>10, <1>11, <1>12, <1>13, <1>14, <1>15, <1>V DEF Placed
-----------------------------------------------------------------------------
(* One process's step, against what the others have.                       *)

(* An entry of the new table t of p is empty, or in the pool, or an old one *)
(* that is as shared as before, or of a page nobody else has, or the entry  *)
(* of another process at the same place of a MAP_SHARED mapping of both.    *)
EntryOK(T, M, pl, pl2, p, t, R, v) ==
  \/ t[v] = 0 \/ InPool(pl2, t[v])
  \/ /\ t[v] = T[p][v] /\ ~InPool(pl, t[v])
     /\ SharedIn(M[p], v) => SharedIn(R, v)
  \/ /\ \A q \in Procs \ {p}, w \in VAs : T[q][w] # t[v]
     /\ \A w \in VAs : t[w] = t[v] => w = v
  \/ \E q \in Procs \ {p} : t[v] = T[q][v] /\ SharedIn(M[q], v) /\ SharedIn(R, v)

(* Then pages are shared as they may be.                                    *)
LEMMA ShareStep ==
  ASSUME NEW T, NEW M, NEW pl, NEW T2, NEW M2, NEW pl2, NEW p \in Procs,
         ShareOK(T, M, pl),
         \A q \in Procs \ {p} : T2[q] = T[q] /\ M2[q] = M[q],
         \A q \in Procs \ {p}, v \in VAs :
           T[q][v] # 0 /\ InPool(pl, T[q][v]) => InPool(pl2, T[q][v]),
         \A v \in VAs : EntryOK(T, M, pl, pl2, p, T2[p], M2[p], v)
  PROVE  ShareOK(T2, M2, pl2)
<1> DEFINE t == T2[p]
           R == M2[p]
           Old(v) == /\ t[v] = T[p][v] /\ ~InPool(pl, t[v])
                     /\ SharedIn(M[p], v) => SharedIn(R, v)
           New(v) == /\ \A q \in Procs \ {p}, w \in VAs : T[q][w] # t[v]
                     /\ \A w \in VAs : t[w] = t[v] => w = v
           Alike(v) == \E q \in Procs \ {p} :
                         t[v] = T[q][v] /\ SharedIn(M[q], v) /\ SharedIn(R, v)
<1>1. ASSUME NEW v \in VAs, t[v] # 0, ~InPool(pl2, t[v]) PROVE Old(v) \/ New(v) \/ Alike(v)
  BY <1>1 DEF EntryOK
<1>s. ASSUME NEW a \in Procs, NEW b \in Procs, NEW v \in VAs, NEW w \in VAs,
             T[a][v] = T[b][w], T[a][v] # 0, ~InPool(pl, T[a][v]), <<a, v>> # <<b, w>>
      PROVE  a # b /\ v = w /\ SharedIn(M[a], v) /\ SharedIn(M[b], v)
  BY <1>s DEF ShareOK
<1>2. ASSUME NEW v \in VAs, NEW q \in Procs \ {p}, NEW w \in VAs,
             t[v] = T[q][w], t[v] # 0, ~InPool(pl2, t[v])
      PROVE  v = w /\ SharedIn(R, v) /\ SharedIn(M[q], v)
  <2>0. ~InPool(pl, t[v])
    BY <1>2
  <2>1. CASE Old(v)
    <3>0. /\ T[p][v] = T[q][w] /\ T[p][v] # 0 /\ ~InPool(pl, T[p][v])
          /\ <<p, v>> # <<q, w>>
      BY <2>1, <1>2
    <3>1. v = w /\ SharedIn(M[p], v) /\ SharedIn(M[q], v)
      BY <3>0, <1>s
    <3> QED  BY <2>1, <3>1
  <2>2. CASE New(v)
    BY <2>2, <1>2
  <2>3. CASE Alike(v)
    <3> PICK k \in Procs \ {p} : t[v] = T[k][v] /\ SharedIn(M[k], v) /\ SharedIn(R, v)
      BY <2>3
    <3>1. CASE <<k, v>> = <<q, w>>
      BY <3>1
    <3>2. CASE <<k, v>> # <<q, w>>
      <4>1. /\ T[k][v] = T[q][w] /\ T[k][v] # 0 /\ ~InPool(pl, T[k][v])
        BY <2>0, <1>2
      <4> QED  BY <3>2, <4>1, <1>s
    <3> QED  BY <3>1, <3>2
  <2> QED  BY <1>1, <1>2, <2>1, <2>2, <2>3
<1>3. ASSUME NEW v \in VAs, NEW w \in VAs, t[v] = t[w], t[v] # 0, ~InPool(pl2, t[v])
      PROVE  v = w
  <2>1. CASE New(v) \/ New(w)
    BY <2>1, <1>3
  <2>2. CASE Alike(v)
    <3>1. PICK k \in Procs \ {p} : t[v] = T[k][v]
      BY <2>2
    <3>2. t[w] = T[k][v] /\ t[w] # 0 /\ ~InPool(pl2, t[w])
      BY <3>1, <1>3
    <3>3. w = v
      BY ONLY <3>1, <3>2, <1>2
    <3> QED  BY <3>3
  <2>3. CASE Alike(w)
    <3>1. PICK k \in Procs \ {p} : t[w] = T[k][w]
      BY <2>3
    <3>2. t[v] = T[k][w] /\ t[v] # 0 /\ ~InPool(pl2, t[v])
      BY <3>1, <1>3
    <3> QED  BY ONLY <3>1, <3>2, <1>2
  <2>4. CASE Old(v) /\ Old(w)
    <3>1. /\ T[p][v] = T[p][w] /\ T[p][v] # 0 /\ ~InPool(pl, T[p][v])
      BY <2>4, <1>3
    <3>2. CASE v # w
      <4>1. <<p, v>> # <<p, w>>
        BY <3>2
      <4> QED  BY <3>1, <4>1, <1>s
    <3> QED  BY <3>2
  <2> QED  BY <1>1, <1>3, <2>1, <2>2, <2>3, <2>4
<1> HIDE DEF Old, New, Alike
<1>4. ASSUME NEW a \in Procs, NEW b \in Procs, NEW v \in VAs, NEW w \in VAs,
             T2[a][v] = T2[b][w], T2[a][v] # 0, ~InPool(pl2, T2[a][v]),
             <<a, v>> # <<b, w>>
      PROVE  a # b /\ v = w /\ SharedIn(M2[a], v) /\ SharedIn(M2[b], v)
  <2>1. CASE a = p /\ b = p
    BY <2>1, <1>3, <1>4
  <2>2. CASE a = p /\ b # p
    BY <2>2, <1>2, <1>4
  <2>3. CASE a # p /\ b = p
    BY <2>3, <1>2, <1>4
  <2>4. CASE a # p /\ b # p
    <3>1. /\ T[a][v] = T[b][w] /\ T[a][v] # 0 /\ ~InPool(pl, T[a][v])
          /\ M2[a] = M[a] /\ M2[b] = M[b]
      BY <2>4, <1>4
    <3> QED  BY <3>1, <1>4, <1>s
  <2> QED  BY <2>1, <2>2, <2>3, <2>4
<1> QED  BY <1>4 DEF ShareOK

(* The counts of one, with those of the others, are those of all.           *)
LEMMA BooksRefs ==
  ASSUME NEW T, NEW U, NEW p \in Procs, \A q \in Procs \ {p} : T[q] = U[q],
         NEW m, m.tab = U[p], NEW pl
  PROVE  Books(m, pl, Others(T, p)) <=> RefsOK(U, m.ref, m.free, pl)
<1>1. Others(T, p) = Others(U, p)
  BY OthersStay
<1>2. \A g \in Pages : Uses(U, g) = Others(U, p)[g] + Mine(U[p], g)
  BY UsesSplit
<1> QED  BY <1>1, <1>2 DEF Books, RefsOK

(* A table goes on agreeing when the pool keeps what its slots name and its *)
(* entries stay in the pool or out of it.                                   *)
LEMMA AgreeStay ==
  ASSUME NEW tab, NEW own, NEW slots, NEW pl, NEW pl2, Agree(tab, own, slots, pl),
         \A v \in VAs : tab[v] # 0 /\ InPool(pl2, tab[v]) => InPool(pl, tab[v]),
         \A i \in 1 .. NSHMEM, n \in Names :
           slots[i].name = n => pl2[n].pages = pl[n].pages
  PROVE  Agree(tab, own, slots, pl2)
<1>1. \A v \in VAs : Covers(slots, pl, v, tab[v]) => Covers(slots, pl2, v, tab[v])
  BY DEF Covers
<1> QED  BY <1>1 DEF Agree
-----------------------------------------------------------------------------
(* References to shared memories.                                          *)

HoldsIn(slots, n) == Cardinality({i \in 1 .. NSHMEM : slots[i].name = n})

SlotsMove(sh, sh2, p, n) ==
  \E k \in Nat : /\ HoldsIn(sh[p], n) \in Nat /\ HoldsIn(sh2[p], n) \in Nat
                 /\ Slotted(sh, n) = k + HoldsIn(sh[p], n)
                 /\ Slotted(sh2, n) = k + HoldsIn(sh2[p], n)

(* The slots that name a shared memory are those of one and the others'.    *)
LEMMA SlotsSplit ==
  ASSUME NEW sh, NEW sh2, NEW p \in Procs, NEW n,
         \A q \in Procs \ {p} : sh[q] = sh2[q]
  PROVE  SlotsMove(sh, sh2, p, n)
<1> DEFINE I == 1 .. NSHMEM
           A == {s \in Procs \X I : sh[s[1]][s[2]].name = n}
           B == {s \in Procs \X I : sh2[s[1]][s[2]].name = n}
<1>1. A \in SUBSET (Procs \X I) /\ B \in SUBSET (Procs \X I)
  OBVIOUS
<1>2. NotOf(A, p) = NotOf(B, p)
  <2>1. \A s \in Procs \X I : s[1] # p => sh[s[1]] = sh2[s[1]]
    OBVIOUS
  <2> QED  BY <2>1 DEF NotOf
<1>3. Of(A, p, I) = {i \in I : sh[p][i].name = n} /\ Of(B, p, I) = {i \in I : sh2[p][i].name = n}
  BY DEF Of
<1>4. IsFiniteSet(I)
  BY Finite
<1>5. /\ Slotted(sh, n) = Cardinality(A) /\ Slotted(sh2, n) = Cardinality(B)
      /\ HoldsIn(sh[p], n) = Cardinality(Of(A, p, I))
      /\ HoldsIn(sh2[p], n) = Cardinality(Of(B, p, I))
  BY <1>3 DEF Slotted, HoldsIn
<1> HIDE DEF A, B, I
<1>6. /\ Cardinality(NotOf(A, p)) \in Nat /\ Cardinality(Of(A, p, I)) \in Nat
      /\ Cardinality(A) = Cardinality(NotOf(A, p)) + Cardinality(Of(A, p, I))
  BY <1>1, <1>4, ByProcess
<1>7. /\ Cardinality(Of(B, p, I)) \in Nat
      /\ Cardinality(B) = Cardinality(NotOf(A, p)) + Cardinality(Of(B, p, I))
  BY <1>1, <1>2, <1>4, ByProcess
<1> QED  BY <1>5, <1>6, <1>7 DEF SlotsMove

(* A slot is counted.                                                       *)
LEMMA SlotCounts ==
  ASSUME NEW sh, NEW p \in Procs, NEW i \in 1 .. NSHMEM
  PROVE  /\ HoldsIn(sh[p], sh[p][i].name) > 0
         /\ \A q \in Procs \ {p} : Slotted(sh, sh[p][i].name) > HoldsIn(sh[q], sh[p][i].name)
<1>n. PICK n : n = sh[p][i].name
  OBVIOUS
<1>1. HoldsIn(sh[p], n) > 0
  <2> DEFINE A == {k \in 1 .. NSHMEM : sh[p][k].name = n}
  <2>1. A # {} /\ A \in SUBSET (1 .. NSHMEM)
    BY <1>n
  <2> HIDE DEF A
  <2>2. IsFiniteSet(A)
    BY <2>1, Finite, FS_Subset
  <2>3. Cardinality(A) \in Nat /\ Cardinality(A) # 0
    BY <2>1, <2>2, NotEmpty
  <2> QED  BY <2>3 DEF HoldsIn, A
<1>2. ASSUME NEW q \in Procs \ {p} PROVE Slotted(sh, n) > HoldsIn(sh[q], n)
  <2> DEFINE I == 1 .. NSHMEM
             A == {s \in Procs \X I : sh[s[1]][s[2]].name = n}
  <2>1. A \in SUBSET (Procs \X I) /\ <<p, i>> \in NotOf(A, q)
    BY <1>n DEF NotOf
  <2>2. Of(A, q, I) = {k \in I : sh[q][k].name = n}
    BY DEF Of
  <2>3. IsFiniteSet(I) /\ IsFiniteSet(Procs \X I)
    BY Finite
  <2>4. Slotted(sh, n) = Cardinality(A) /\ HoldsIn(sh[q], n) = Cardinality(Of(A, q, I))
    BY <2>2 DEF Slotted, HoldsIn
  <2> HIDE DEF A, I
  <2>5. /\ Cardinality(NotOf(A, q)) \in Nat /\ Cardinality(Of(A, q, I)) \in Nat
        /\ Cardinality(A) = Cardinality(NotOf(A, q)) + Cardinality(Of(A, q, I))
    BY <2>1, <2>3, ByProcess
  <2>6. NotOf(A, q) \in SUBSET (Procs \X I)
    BY <2>1 DEF NotOf
  <2>7. Cardinality(NotOf(A, q)) # 0
    <3>1. IsFiniteSet(NotOf(A, q))
      BY <2>3, <2>6, FS_Subset
    <3> QED  BY <2>1, <3>1, NotEmpty
  <2> QED  BY <2>4, <2>5, <2>7
<1> QED  BY <1>1, <1>2, <1>n

One(x, n) == IF x # None /\ x.name = n THEN 1 ELSE 0

GetsMove(tk, tk2, p, n) ==
  \E k \in Nat : /\ Gets(tk, n) = k + One(tk[p], n)
                 /\ Gets(tk2, n) = k + One(tk2[p], n)

(* ... and so is who is about to map it.                                    *)
LEMMA GetsSplit ==
  ASSUME NEW tk, NEW tk2, NEW p \in Procs, NEW n,
         \A q \in Procs \ {p} : tk[q] = tk2[q]
  PROVE  GetsMove(tk, tk2, p, n)
<1> DEFINE A == {q \in Procs : tk[q] # None /\ tk[q].name = n}
           B == {q \in Procs : tk2[q] # None /\ tk2[q].name = n}
           C == A \ {p}
<1>1. A \in SUBSET Procs /\ B \in SUBSET Procs /\ C = B \ {p}
  OBVIOUS
<1>2. IsFiniteSet(C) /\ p \notin C
  BY <1>1, Finite, FS_Subset
<1>3. (A = IF One(tk[p], n) = 1 THEN C \cup {p} ELSE C) /\ One(tk[p], n) \in {0, 1}
  BY DEF One
<1>4. (B = IF One(tk2[p], n) = 1 THEN C \cup {p} ELSE C) /\ One(tk2[p], n) \in {0, 1}
  BY <1>1 DEF One
<1>5. Gets(tk, n) = Cardinality(A) /\ Gets(tk2, n) = Cardinality(B)
  BY DEF Gets
<1> HIDE DEF A, B, C
<1>6. Cardinality(C) \in Nat /\ Cardinality(C \cup {p}) = Cardinality(C) + 1
  BY <1>2, FS_CardinalityType, FS_AddElement
<1>7. Cardinality(A) = Cardinality(C) + One(tk[p], n)
  BY <1>3, <1>6
<1>8. Cardinality(B) = Cardinality(C) + One(tk2[p], n)
  BY <1>4, <1>6
<1> QED  BY <1>5, <1>6, <1>7, <1>8 DEF GetsMove
-----------------------------------------------------------------------------
(* From a handler's view back to the state.                                *)

Holding == IInv /\ ~panicked

(* What p sees when it enters the kernel.                                   *)
LEMMA ViewIs ==
  ASSUME Holding, NEW p \in Procs
  PROVE  /\ View(p) \in ViewRec /\ View(p).who = p /\ View(p).tab = pt[p]
         /\ View(p).maps = maps[p] /\ View(p).ref = ref /\ View(p).free = free
         /\ View(p).ok = TRUE
         /\ Books(View(p), pool, Others(pt, View(p).who))
<1>1. View(p) = [who |-> p, ref |-> ref, free |-> free, tab |-> pt[p], maps |-> maps[p],
                 ok |-> TRUE]
  BY DEF View
<1>2. /\ ref \in [Pages -> Nat] /\ free \in SUBSET Pages
      /\ pt[p] \in [VAs -> 0 .. NPages] /\ maps[p] \in SUBSET Mapping
  BY DEF Holding, IInv, TypeOK
<1>3. View(p) \in ViewRec
  BY <1>1, <1>2 DEF ViewRec
<1>4. /\ View(p).who = p /\ View(p).tab = pt[p] /\ View(p).maps = maps[p]
      /\ View(p).ref = ref /\ View(p).free = free /\ View(p).ok = TRUE
  BY <1>1
<1>5. RefsOK(pt, ref, free, pool)
  BY DEF Holding, IInv, Sound
<1>6. Books(View(p), pool, Others(pt, p))
  BY <1>4, <1>5, BooksRefs
<1> QED  BY <1>3, <1>4, <1>6

(* The others find in the pool what they had in it.                         *)
Keeps(T, sh, pl, pl2, p) ==
  \A q \in Procs \ {p} :
    /\ \A i \in 1 .. NSHMEM, n \in Names :
         sh[q][i].name = n => pl2[n].pages = pl[n].pages
    /\ \A v \in VAs : T[q][v] # 0 => (InPool(pl2, T[q][v]) <=> InPool(pl, T[q][v]))

(* ... as they do when no shared memory comes or goes.                      *)
LEMMA KeepsSame ==
  ASSUME NEW T, NEW sh, NEW pl, NEW pl2, NEW p,
         \A n \in Names : pl2[n].pages = pl[n].pages
  PROVE  Keeps(T, sh, pl, pl2, p) /\ \A g : InPool(pl2, g) <=> InPool(pl, g)
BY DEF Keeps, InPool

Elsewhere(p) ==
  \A q \in Procs \ {p} :
    /\ state'[q] = state[q] /\ pt'[q] = pt[q] /\ brk'[q] = brk[q] /\ maps'[q] = maps[q]
    /\ shmem'[q] = shmem[q] /\ taken'[q] = taken[q]

(* A step of p keeps the invariant if it leaves p's own part of it right,   *)
(* and the counts.                                                          *)
LEMMA Step ==
  ASSUME Holding, NEW p \in Procs, TypeOK', Elsewhere(p),
         ProcOK(state'[p], pt'[p], brk'[p], maps'[p], shmem'[p], taken'[p], pool'),
         PoolOK(pool', taken', shmem'), Keeps(pt, shmem, pool, pool', p),
         RefsOK(pt', ref', free', pool'),
         \A v \in VAs : EntryOK(pt, maps, pool, pool', p, pt'[p], maps'[p], v)
  PROVE  IInv'
<1>1. ASSUME NEW q \in Procs
      PROVE  ProcOK(state'[q], pt'[q], brk'[q], maps'[q], shmem'[q], taken'[q], pool')
  <2>1. CASE q = p
    BY <2>1
  <2>2. CASE q # p
    <3>1. ProcOK(state[q], pt[q], brk[q], maps[q], shmem[q], taken[q], pool)
      BY DEF Holding, IInv, Sound, InvProcs
    <3>2. Agree(pt[q], OwnOf(brk[q], maps[q]), shmem[q], pool)
          => Agree(pt[q], OwnOf(brk[q], maps[q]), shmem[q], pool')
      BY <2>2, AgreeStay DEF Keeps
    <3>3. ProcOK(state[q], pt[q], brk[q], maps[q], shmem[q], taken[q], pool')
      BY <3>1, <3>2 DEF ProcOK, Live
    <3> QED  BY <2>2, <3>3 DEF Elsewhere
  <2> QED  BY <2>1, <2>2
<1>2. ShareOK(pt', maps', pool')
  <2>1. ShareOK(pt, maps, pool)
    BY DEF Holding, IInv, Sound
  <2>2. \A q \in Procs \ {p} : pt'[q] = pt[q] /\ maps'[q] = maps[q]
    BY DEF Elsewhere
  <2>3. \A q \in Procs \ {p}, v \in VAs :
          pt[q][v] # 0 /\ InPool(pool, pt[q][v]) => InPool(pool', pt[q][v])
    BY DEF Keeps
  <2> QED  BY <2>1, <2>2, <2>3, ShareStep
<1> QED  BY <1>1, <1>2 DEF IInv, Sound, InvProcs

(* The variables that Commit() leaves to the handler.                       *)
Typed ==
  /\ state \in [Procs -> {"unused", "live", "loading"}]
  /\ brk \in [Procs -> 0 .. Stack]
  /\ shmem \in [Procs -> [1 .. NSHMEM -> [name : Names \cup {None}, start : 0 .. NVA + 1]]]
  /\ next \in [Procs -> 0 .. NVA + 2]
  /\ taken \in [Procs -> {None} \cup [name : Names, len : 0 .. MaxShmem]]
  /\ pool \in [Names -> [ref : Nat, pages : SUBSET Pages]]

Besides(p) ==
  \A q \in Procs \ {p} : /\ state'[q] = state[q] /\ brk'[q] = brk[q]
                         /\ shmem'[q] = shmem[q] /\ taken'[q] = taken[q]

(* The view a handler of p ends with fits what the others have.             *)
Fits(p, r) ==
  /\ r \in ViewRec /\ Books(r, pool', Others(pt, p))
  /\ Cardinality(r.maps) <= MAX_MAPPING
  /\ ProcOK(state'[p], r.tab, brk'[p], r.maps, shmem'[p], taken'[p], pool')
  /\ PoolOK(pool', taken', shmem') /\ Keeps(pt, shmem, pool, pool', p)
  /\ \A v \in VAs : EntryOK(pt, maps, pool, pool', p, r.tab, r.maps, v)

(* Such a view may be committed; a panic only has to leave the types.       *)
LEMMA CommitStep ==
  ASSUME Holding, NEW p \in Procs, NEW r, Commit(p, r), Typed', Besides(p),
         r.ok => Fits(p, r)
  PROVE  IInv'
<1>t. TypeOK
  BY DEF Holding, IInv
<1>1. CASE ~r.ok
  <2>1. panicked' = ~r.ok /\ UNCHANGED <<ref, free, pt, maps>>
    BY <1>1 DEF Commit
  <2>2. panicked' \in BOOLEAN /\ panicked'
    BY <1>1, <2>1
  <2>3. TypeOK'
    BY <1>t, <2>1, <2>2 DEF TypeOK, Typed
  <2> QED  BY <2>2, <2>3 DEF IInv
<1>2. CASE r.ok
  <2>1. /\ ref' = r.ref /\ free' = r.free /\ pt' = [pt EXCEPT ![p] = r.tab]
        /\ maps' = [maps EXCEPT ![p] = r.maps] /\ panicked' = ~r.ok
    BY <1>2 DEF Commit
  <2>2. Fits(p, r)
    BY <1>2
  <2>3. /\ pt \in [Procs -> [VAs -> 0 .. NPages]] /\ maps \in [Procs -> SUBSET Mapping]
        /\ \A q \in Procs : Cardinality(maps[q]) <= MAX_MAPPING
    BY <1>t DEF TypeOK
  <2>4. /\ pt'[p] = r.tab /\ maps'[p] = r.maps
        /\ \A q \in Procs \ {p} : pt'[q] = pt[q] /\ maps'[q] = maps[q]
    BY <2>1, <2>3
  <2>5. TypeOK'
    <3>1. r \in ViewRec /\ Cardinality(r.maps) <= MAX_MAPPING
      BY <2>2 DEF Fits
    <3>2. ref' \in [Pages -> Nat] /\ free' \subseteq Pages
      BY <2>1, <3>1 DEF ViewRec
    <3>3. pt' \in [Procs -> [VAs -> 0 .. NPages]]
      <4>1. r.tab \in [VAs -> 0 .. NPages]
        BY <3>1 DEF ViewRec
      <4> QED  BY <2>1, <2>3, <4>1
    <3>4. maps' \in [Procs -> SUBSET Mapping]
      <4>1. r.maps \in SUBSET Mapping
        BY <3>1 DEF ViewRec
      <4> QED  BY <2>1, <2>3, <4>1
    <3>5. \A q \in Procs : Cardinality(maps'[q]) <= MAX_MAPPING
      BY <2>3, <2>4, <3>1
    <3>6. panicked' \in BOOLEAN
      BY <2>1
    <3> QED  BY <3>2, <3>3, <3>4, <3>5, <3>6 DEF TypeOK, Typed
  <2>6. Elsewhere(p)
    BY <2>4 DEF Elsewhere, Besides
  <2>7. RefsOK(pt', ref', free', pool')
    <3>1. \A q \in Procs \ {p} : pt[q] = pt'[q]
      BY <2>4
    <3>2. Books(r, pool', Others(pt, p))
      BY <2>2 DEF Fits
    <3>3. r.tab = pt'[p]
      BY <2>4
    <3>4. RefsOK(pt', r.ref, r.free, pool')
      BY <3>1, <3>2, <3>3, BooksRefs
    <3> QED  BY <2>1, <3>4
  <2>8. /\ ProcOK(state'[p], pt'[p], brk'[p], maps'[p], shmem'[p], taken'[p], pool')
        /\ PoolOK(pool', taken', shmem') /\ Keeps(pt, shmem, pool, pool', p)
        /\ \A v \in VAs : EntryOK(pt, maps, pool, pool', p, pt'[p], maps'[p], v)
    BY <2>2, <2>4 DEF Fits
  <2> QED  BY <2>5, <2>6, <2>7, <2>8, Step
<1> QED  BY <1>1, <1>2
-----------------------------------------------------------------------------
(* The handlers.                                                           *)

(* What is known of a live process.                                         *)
LEMMA LiveIs ==
  ASSUME Holding, NEW p \in Procs, state[p] = "live"
  PROVE  /\ \A v \in OwnOf(brk[p], maps[p]) \cap VAs : pt[p][v] # 0 /\ ~InPool(pool, pt[p][v])
         /\ \A v \in VAs \ OwnOf(brk[p], maps[p]) :
              pt[p][v] # 0 => /\ Covers(shmem[p], pool, v, pt[p][v])
                              /\ InPool(pool, pt[p][v])
         /\ MapsOK(maps[p]) /\ ImageOf(brk[p]) \cap MappedBy(maps[p]) = {}
         /\ brk[p] \in Nat /\ brk[p] < Stack /\ ImageOf(brk[p]) \subseteq VAs
         /\ MappedBy(maps[p]) \subseteq VAs /\ Cardinality(maps[p]) <= MAX_MAPPING
         /\ pt[p] \in [VAs -> 0 .. NPages]
<1>1. Live(pt[p], brk[p], maps[p], shmem[p], pool)
  BY DEF Holding, IInv, Sound, InvProcs, ProcOK
<1>2. /\ brk[p] \in 0 .. Stack /\ pt[p] \in [VAs -> 0 .. NPages]
      /\ Cardinality(maps[p]) <= MAX_MAPPING
  BY DEF Holding, IInv, TypeOK
<1>3. /\ Agree(pt[p], OwnOf(brk[p], maps[p]), shmem[p], pool) /\ MapsOK(maps[p])
      /\ ImageOf(brk[p]) \cap MappedBy(maps[p]) = {} /\ brk[p] < Stack
  BY <1>1 DEF Live
<1>4. /\ \A v \in OwnOf(brk[p], maps[p]) \cap VAs : pt[p][v] # 0 /\ ~InPool(pool, pt[p][v])
      /\ \A v \in VAs \ OwnOf(brk[p], maps[p]) :
           pt[p][v] # 0 => Covers(shmem[p], pool, v, pt[p][v])
  BY <1>3 DEF Agree
<1>5. \A v, g : Covers(shmem[p], pool, v, g) => InPool(pool, g)
  BY DEF Covers, InPool
<1>6. ImageOf(brk[p]) \subseteq VAs
  <2> PICK b \in Nat : b = brk[p] /\ b < Stack
    BY <1>2, <1>3, Consts
  <2>1. 0 \in 0 .. NVA /\ Stack \in 0 .. NVA
    BY Consts
  <2>2. \A v \in 1 .. b : v \in 0 .. NVA
    BY Consts
  <2> QED  BY <2>1, <2>2 DEF ImageOf, VAs
<1>7. MappedBy(maps[p]) \subseteq VAs
  <2>1. \A s \in maps[p] : Rng(s) \subseteq VAs
    BY <1>3, RngIs DEF MapsOK
  <2> QED  BY <2>1 DEF MappedBy, Rng
<1>8. brk[p] \in Nat
  BY <1>2, Consts
<1> QED  BY <1>2, <1>3, <1>4, <1>5, <1>6, <1>7, <1>8

(* A handler of p that leaves the shared memories alone.                    *)
LEMMA OwnStep ==
  ASSUME Holding, NEW p \in Procs, NEW r, Commit(p, r), state[p] = "live",
         UNCHANGED <<state, shmem, taken, pool>>,
         brk' \in [Procs -> 0 .. Stack], next' \in [Procs -> 0 .. NVA + 2],
         \A q \in Procs \ {p} : brk'[q] = brk[q],
         r.ok => /\ r \in ViewRec /\ Books(r, pool, Others(pt, p))
                 /\ Cardinality(r.maps) <= MAX_MAPPING
                 /\ Live(r.tab, brk'[p], r.maps, shmem[p], pool)
                 /\ \A v \in VAs : EntryOK(pt, maps, pool, pool, p, r.tab, r.maps, v)
  PROVE  IInv'
<1>1. Typed' /\ Besides(p)
  BY DEF Holding, IInv, TypeOK, Typed, Besides
<1>2. PoolOK(pool', taken', shmem') /\ Keeps(pt, shmem, pool, pool', p)
  <2>1. PoolOK(pool, taken, shmem)
    BY DEF Holding, IInv, Sound
  <2>2. \A n \in Names : pool'[n].pages = pool[n].pages
    OBVIOUS
  <2> QED  BY <2>1, <2>2, KeepsSame
<1>3. r.ok => Fits(p, r)
  BY <1>2 DEF Fits, ProcOK
<1> QED  BY <1>1, <1>3, CommitStep

(* mapping_try_remove_page() on the table of a live process.                *)
LEMMA RemoveView ==
  ASSUME Holding, NEW p \in Procs, state[p] = "live", NEW a \in Nat, NEW n \in Nat \ {0},
         NEW r, r = RemoveRange(View(p), a, n)
  PROVE  Removed(View(p), r, a, n, pool, Others(pt, p))
<1>m. PICK m : m = View(p)
  OBVIOUS
<1>o. PICK o : o = Others(pt, m.who)
  OBVIOUS
<1>1. /\ m \in ViewRec /\ m.who = p /\ m.maps = maps[p] /\ m.tab = pt[p]
      /\ Books(m, pool, o)
  BY <1>m, <1>o, ViewIs
<1>2. MapsOK(m.maps) /\ \A v \in MappedBy(m.maps) : ~InPool(pool, m.tab[v])
  BY <1>1, LiveIs DEF OwnOf
<1>3. r = RemoveRange(m, a, n)
  BY <1>m
<1>4. Removed(m, r, a, n, pool, o)
  BY <1>1, <1>2, <1>3, <1>o, RemoveRangeIs
<1> QED  BY <1>1, <1>4, <1>m, <1>o

(* What it leaves is the table of a live process.                           *)
LEMMA RemoveLive ==
  ASSUME Holding, NEW p \in Procs, state[p] = "live", NEW a \in Nat, NEW n \in Nat \ {0},
         NEW r, r = RemoveRange(View(p), a, n)
  PROVE  /\ Live(r.tab, brk[p], r.maps, shmem[p], pool)
         /\ \A v \in VAs : EntryOK(pt, maps, pool, pool, p, r.tab, r.maps, v)
<1>V. PICK V : V = MappedBy(maps[p]) \cap Range1(a, n)
  OBVIOUS
<1>1. Removed(View(p), r, a, n, pool, Others(pt, p))
  BY RemoveView
<1>2. View(p).tab = pt[p] /\ View(p).maps = maps[p]
  BY ViewIs
<1>3. /\ MapsOK(r.maps) /\ MappedBy(r.maps) = MappedBy(maps[p]) \ Range1(a, n)
      /\ \A v \in VAs \ Range1(a, n) : SharedIn(maps[p], v) => SharedIn(r.maps, v)
      /\ r.tab = Wiped(pt[p], V)
  BY <1>1, <1>2, <1>V DEF Removed
<1>4. \A v \in VAs : r.tab[v] = IF v \in V THEN 0 ELSE pt[p][v]
  BY <1>3 DEF Wiped
<1>l. /\ \A v \in OwnOf(brk[p], maps[p]) \cap VAs : pt[p][v] # 0 /\ ~InPool(pool, pt[p][v])
      /\ \A v \in VAs \ OwnOf(brk[p], maps[p]) :
           pt[p][v] # 0 => /\ Covers(shmem[p], pool, v, pt[p][v])
                           /\ InPool(pool, pt[p][v])
      /\ ImageOf(brk[p]) \cap MappedBy(maps[p]) = {} /\ brk[p] < Stack
  BY LiveIs
<1>5. OwnOf(brk[p], r.maps) = OwnOf(brk[p], maps[p]) \ V
  BY <1>3, <1>l, <1>V DEF OwnOf
<1>6. V \subseteq OwnOf(brk[p], maps[p])
  BY <1>V DEF OwnOf
<1>7. Agree(r.tab, OwnOf(brk[p], r.maps), shmem[p], pool)
  BY <1>4, <1>5, <1>6, <1>l DEF Agree
<1>8. Live(r.tab, brk[p], r.maps, shmem[p], pool)
  BY <1>3, <1>7, <1>l DEF Live
<1>9. ASSUME NEW v \in VAs
      PROVE  EntryOK(pt, maps, pool, pool, p, r.tab, r.maps, v)
  <2>1. CASE v \in V
    BY <2>1, <1>4 DEF EntryOK
  <2>2. CASE v \notin V
    <3>1. r.tab[v] = pt[p][v]
      BY <2>2, <1>4
    <3>2. SharedIn(maps[p], v) => v \in MappedBy(maps[p])
      BY DEF SharedIn, MappedBy, Rng
    <3>3. SharedIn(maps[p], v) => SharedIn(r.maps, v)
      BY <2>2, <3>2, <1>3, <1>V
    <3> QED  BY <3>1, <3>3 DEF EntryOK
  <2> QED  BY <2>1, <2>2
<1> QED  BY <1>8, <1>9

(* munmap(), and mmap() with MAP_FIXED that fails afterwards.               *)
LEMMA RemoveStep ==
  ASSUME Holding, NEW p \in Procs, state[p] = "live", NEW a \in Nat, NEW n \in Nat \ {0},
         Commit(p, RemoveRange(View(p), a, n)),
         UNCHANGED <<state, brk, shmem, next, taken, pool>>
  PROVE  IInv'
<1>r. PICK r : r = RemoveRange(View(p), a, n)
  OBVIOUS
<1>1. Removed(View(p), r, a, n, pool, Others(pt, p))
  BY <1>r, RemoveView
<1>2. /\ Live(r.tab, brk[p], r.maps, shmem[p], pool)
      /\ \A v \in VAs : EntryOK(pt, maps, pool, pool, p, r.tab, r.maps, v)
  BY <1>r, RemoveLive
<1>3. View(p).maps = maps[p] /\ Cardinality(maps[p]) <= MAX_MAPPING
  BY ViewIs, LiveIs
<1>4. /\ r \in ViewRec /\ Books(r, pool, Others(pt, p))
      /\ r.ok => Cardinality(r.maps) <= MAX_MAPPING
  BY <1>1, <1>3 DEF Removed
<1>5. /\ brk' \in [Procs -> 0 .. Stack] /\ next' \in [Procs -> 0 .. NVA + 2]
      /\ \A q \in Procs \ {p} : brk'[q] = brk[q]
  BY DEF Holding, IInv, TypeOK
<1>6. Commit(p, r) /\ UNCHANGED <<state, shmem, taken, pool>> /\ brk'[p] = brk[p]
  BY <1>r
<1> QED  BY <1>2, <1>4, <1>5, <1>6, OwnStep

(* mmap(): the pages of the new mapping are new, and its own.               *)
LEMMA PlaceStep ==
  ASSUME Holding, NEW p \in Procs, state[p] = "live", NEW a \in VAs, NEW n \in 1 .. NVA,
         a + n <= NVA + 1, NEW m, m = RemoveRange(View(p), a, n), IsFree(m, a, n),
         n <= Cardinality(m.free), NEW shared \in BOOLEAN,
         Commit(p, Place(m, a, n, shared)),
         UNCHANGED <<state, brk, shmem, next, taken, pool>>
  PROVE  IInv'
<1>r. PICK r : r = Place(m, a, n, shared)
  OBVIOUS
<1>o. PICK o : o = Others(pt, p)
  OBVIOUS
<1>R. PICK R : R = Range1(a, n)
  OBVIOUS
<1>a. a \in Nat /\ n \in Nat \ {0}
  BY Consts
<1>1. Removed(View(p), m, a, n, pool, o)
  BY <1>a, <1>o, RemoveView
<1>2. /\ Live(m.tab, brk[p], m.maps, shmem[p], pool)
      /\ \A v \in VAs : EntryOK(pt, maps, pool, pool, p, m.tab, m.maps, v)
  BY <1>a, RemoveLive
<1>3. /\ m \in ViewRec /\ m.who = p /\ Books(m, pool, o) /\ MapsOK(m.maps)
      /\ MappedBy(m.maps) \cap R = {}
  BY <1>1, <1>R, ViewIs DEF Removed
<1>4. ASSUME r.ok PROVE Placed(m, r, a, n, pool, o)
  <2>1. o = Others(pt, m.who)
    BY <1>3, <1>o
  <2>2. MappedBy(m.maps) \cap Range1(a, n) = {}
    BY <1>3, <1>R
  <2> QED  BY <1>3, <1>4, <1>r, <2>1, <2>2, PlaceIs
<1>5. ASSUME r.ok
      PROVE  /\ r \in ViewRec /\ Books(r, pool, o) /\ Cardinality(r.maps) <= MAX_MAPPING
             /\ MapsOK(r.maps) /\ MappedBy(r.maps) = MappedBy(m.maps) \cup R
             /\ \A v \in VAs : SharedIn(m.maps, v) => SharedIn(r.maps, v)
             /\ \A v \in VAs \ R : r.tab[v] = m.tab[v]
             /\ NewPages(m, r, R, pool, o)
  BY <1>4, <1>5, <1>R DEF Placed
<1>6. ASSUME r.ok PROVE Live(r.tab, brk[p], r.maps, shmem[p], pool)
  <2>1. /\ Agree(m.tab, OwnOf(brk[p], m.maps), shmem[p], pool)
        /\ ImageOf(brk[p]) \cap MappedBy(m.maps) = {} /\ brk[p] < Stack
    BY <1>2 DEF Live
  <2>2. OwnOf(brk[p], r.maps) = OwnOf(brk[p], m.maps) \cup R
    BY <1>5, <1>6 DEF OwnOf
  <2>3. \A v \in R : m.tab[v] = 0
    BY <1>R DEF IsFree
  <2>4. \A v \in R \cap VAs : v \notin OwnOf(brk[p], m.maps)
    BY <2>1, <2>3 DEF Agree
  <2>5. ImageOf(brk[p]) \cap MappedBy(r.maps) = {}
    <3>1. ImageOf(brk[p]) \subseteq VAs
      BY LiveIs
    <3> QED  BY <3>1, <2>1, <2>4, <1>5, <1>6 DEF OwnOf
  <2>6. m.free \subseteq Pages
    BY <1>3 DEF ViewRec
  <2>7. ASSUME NEW v \in R \cap VAs PROVE r.tab[v] # 0 /\ ~InPool(pool, r.tab[v])
    BY <2>6, <1>5, <1>6, Consts DEF NewPages
  <2>8. Agree(r.tab, OwnOf(brk[p], r.maps), shmem[p], pool)
    BY <2>1, <2>2, <2>7, <1>5, <1>6 DEF Agree
  <2> QED  BY <2>1, <2>5, <2>8, <1>5, <1>6 DEF Live
<1>7. ASSUME r.ok, NEW v \in VAs
      PROVE  EntryOK(pt, maps, pool, pool, p, r.tab, r.maps, v)
  <2>1. CASE v \in R
    <3>1. /\ r.tab[v] \in m.free /\ o[r.tab[v]] = 0
          /\ \A w \in VAs : r.tab[w] = r.tab[v] => w = v
      BY <2>1, <1>5, <1>7 DEF NewPages
    <3>2. r.tab[v] \in Pages
      BY <3>1, <1>3 DEF ViewRec
    <3>3. \A q \in Procs \ {p}, w \in VAs : pt[q][w] # r.tab[v]
      BY <3>1, <3>2, <1>o, UsedByOthers
    <3> QED  BY <3>1, <3>3 DEF EntryOK
  <2>2. CASE v \notin R
    <3>1. r.tab[v] = m.tab[v] /\ (SharedIn(m.maps, v) => SharedIn(r.maps, v))
      BY <2>2, <1>5, <1>7
    <3>2. EntryOK(pt, maps, pool, pool, p, m.tab, m.maps, v)
      BY <1>2
    <3>3. \A w \in VAs : r.tab[w] = r.tab[v] => w \notin R
      BY <2>2, <1>5, <1>7 DEF NewPages
    <3>4. \A w \in VAs : r.tab[w] = r.tab[v] => m.tab[w] = m.tab[v]
      BY <3>1, <3>3, <1>5, <1>7
    <3> QED  BY <3>1, <3>2, <3>4 DEF EntryOK
  <2> QED  BY <2>1, <2>2
<1>8. /\ brk' \in [Procs -> 0 .. Stack] /\ next' \in [Procs -> 0 .. NVA + 2]
      /\ \A q \in Procs \ {p} : brk'[q] = brk[q]
  BY DEF Holding, IInv, TypeOK
<1>9. Commit(p, r) /\ UNCHANGED <<state, shmem, taken, pool>> /\ brk'[p] = brk[p]
  BY <1>r
<1> QED  BY <1>5, <1>6, <1>7, <1>8, <1>9, <1>o, OwnStep

(* New pages in the table of a live process, at places it gets.             *)
LEMMA GrowLive ==
  ASSUME Holding, NEW p \in Procs, state[p] = "live", NEW V \in SUBSET VAs,
         NEW c \in Nat, c < Stack, ImageOf(c) = ImageOf(brk[p]) \cup V,
         NEW r, Mapped(View(p), r, V, pool, Others(pt, p))
  PROVE  /\ Live(r.tab, c, r.maps, shmem[p], pool)
         /\ \A v \in VAs : EntryOK(pt, maps, pool, pool, p, r.tab, r.maps, v)
<1>o. PICK o : o = Others(pt, p)
  OBVIOUS
<1>1. /\ View(p).maps = maps[p] /\ View(p).tab = pt[p] /\ View(p).free = free
      /\ free \subseteq Pages
  BY ViewIs DEF Holding, IInv, TypeOK
<1>2. /\ r.maps = maps[p] /\ \A v \in VAs \ V : r.tab[v] = pt[p][v]
  BY <1>1 DEF Mapped
<1>3. ASSUME NEW v \in V
      PROVE  /\ pt[p][v] = 0 /\ r.tab[v] \in Pages /\ r.tab[v] # 0
             /\ ~InPool(pool, r.tab[v]) /\ o[r.tab[v]] = 0
             /\ \A w \in VAs : r.tab[w] = r.tab[v] => w = v
  BY <1>1, <1>o, Consts DEF Mapped, NewPages
<1>l. /\ \A v \in OwnOf(brk[p], maps[p]) \cap VAs : pt[p][v] # 0 /\ ~InPool(pool, pt[p][v])
      /\ \A v \in VAs \ OwnOf(brk[p], maps[p]) :
           pt[p][v] # 0 => /\ Covers(shmem[p], pool, v, pt[p][v])
                           /\ InPool(pool, pt[p][v])
      /\ ImageOf(brk[p]) \cap MappedBy(maps[p]) = {} /\ MapsOK(maps[p])
  BY LiveIs
<1>4. OwnOf(c, r.maps) = OwnOf(brk[p], maps[p]) \cup V
  BY <1>2 DEF OwnOf
<1>5. ImageOf(c) \cap MappedBy(r.maps) = {}
  <2>1. \A v \in V : v \notin OwnOf(brk[p], maps[p])
    BY <1>3, <1>l
  <2> QED  BY <2>1, <1>2, <1>l DEF OwnOf
<1>6. Agree(r.tab, OwnOf(c, r.maps), shmem[p], pool)
  BY <1>2, <1>3, <1>4, <1>l DEF Agree
<1>7. Live(r.tab, c, r.maps, shmem[p], pool)
  BY <1>2, <1>5, <1>6, <1>l DEF Live
<1>8. ASSUME NEW v \in VAs
      PROVE  EntryOK(pt, maps, pool, pool, p, r.tab, r.maps, v)
  <2>1. CASE v \in V
    <3>1. r.tab[v] \in Pages /\ o[r.tab[v]] = 0
      BY <2>1, <1>3
    <3>2. \A q \in Procs \ {p}, w \in VAs : pt[q][w] # r.tab[v]
      BY <3>1, <1>o, UsedByOthers
    <3> QED  BY <2>1, <1>3, <3>2 DEF EntryOK
  <2>2. CASE v \notin V
    BY <2>2, <1>2, <1>l DEF EntryOK
  <2> QED  BY <2>1, <2>2
<1> QED  BY <1>7, <1>8

(* What uvmalloc() asks for.                                                *)
LEMMA AskedIs ==
  ASSUME Holding, NEW p \in Procs, state[p] = "live", NEW n \in 1 .. Stack, n > brk[p],
         NEW V, V = Asked(p, n)
  PROVE  /\ V \in SUBSET VAs
         /\ (\A v \in V : pt[p][v] = 0) => n < Stack /\ ImageOf(n) = ImageOf(brk[p]) \cup V
<1>b. PICK b \in Nat : b = brk[p] /\ b < Stack
  BY LiveIs
<1>c. n \in Nat /\ Stack \in Nat /\ n <= Stack /\ b < n /\ Stack <= NVA /\ NVA \in Nat
  BY <1>b, Consts
<1> DEFINE there == {v \in b + 1 .. n : pt[p][v] # 0}
<1>1. V = b + 1 .. IF there = {} THEN n ELSE Min(there)
  BY <1>b DEF Asked
<1>2. there # {} => Min(there) \in there
  <2>1. there \in SUBSET Nat
    BY <1>b, <1>c
  <2> HIDE DEF there
  <2> QED  BY <2>1, MinIsIn
<1>3. PICK e \in Nat : V = b + 1 .. e /\ b < e /\ e <= n /\ (e # n => pt[p][e] # 0)
                       /\ (there # {} => pt[p][e] # 0)
  <2>1. CASE there = {}
    BY <2>1, <1>1, <1>c
  <2>2. CASE there # {}
    <3>1. Min(there) \in b + 1 .. n /\ pt[p][Min(there)] # 0
      BY <2>2, <1>2
    <3>2. V = b + 1 .. Min(there)
      BY <2>2, <1>1
    <3>3. PICK x : x = Min(there)
      OBVIOUS
    <3>4. x \in b + 1 .. n /\ V = b + 1 .. x /\ pt[p][x] # 0
      BY <3>1, <3>2, <3>3
    <3>5. x \in Nat /\ b < x /\ x <= n
      BY <3>4, <1>c
    <3> HIDE DEF there
    <3> QED  BY <3>4, <3>5
  <2> QED  BY <2>1, <2>2
<1>4. V \in SUBSET VAs
  <2>1. \A v \in b + 1 .. e : v \in 0 .. NVA
    BY <1>3, <1>c
  <2> QED  BY <2>1, <1>3 DEF VAs
<1>5. ASSUME \A v \in V : pt[p][v] = 0
      PROVE  n < Stack /\ ImageOf(n) = ImageOf(brk[p]) \cup V
  <2>1. e \in V
    BY <1>3
  <2>2. e = n
    BY <2>1, <1>3, <1>5
  <2>3. pt[p][Stack] # 0
    BY LiveIs, Consts DEF OwnOf, ImageOf
  <2>4. n < Stack
    BY <2>1, <2>2, <2>3, <1>5, <1>c
  <2>5. \A v : v \in 1 .. n <=> v \in 1 .. b \/ v \in b + 1 .. n
    BY <1>b, <1>c
  <2>6. ImageOf(n) = ImageOf(brk[p]) \cup V
    BY <2>2, <2>5, <1>3, <1>b DEF ImageOf
  <2> QED  BY <2>4, <2>6
<1> QED  BY <1>4, <1>5

(* sys_brk() with more.                                                     *)
LEMMA BrkMore ==
  ASSUME Holding, NEW p \in Procs, state[p] = "live", NEW n \in 1 .. Stack, n > brk[p],
         Cardinality(Asked(p, n)) <= Cardinality(free), brk' = [brk EXCEPT ![p] = n],
         Commit(p, MapFresh(View(p), Asked(p, n))),
         UNCHANGED <<state, shmem, next, taken, pool>>
  PROVE  IInv'
<1>V. PICK V : V = Asked(p, n)
  OBVIOUS
<1>m. PICK m : m = View(p)
  OBVIOUS
<1>r. PICK r : r = MapFresh(m, V)
  OBVIOUS
<1>o. PICK o : o = Others(pt, m.who)
  OBVIOUS
<1>1. /\ m \in ViewRec /\ m.who = p /\ m.maps = maps[p] /\ m.tab = pt[p] /\ m.free = free
      /\ Books(m, pool, o)
  BY <1>m, <1>o, ViewIs
<1>2. /\ V \in SUBSET VAs
      /\ (\A v \in V : pt[p][v] = 0) => n < Stack /\ ImageOf(n) = ImageOf(brk[p]) \cup V
  BY <1>V, AskedIs
<1>3. ASSUME r.ok PROVE Mapped(m, r, V, pool, o)
  <2>1. Cardinality(V) <= Cardinality(m.free)
    BY <1>1, <1>V
  <2> QED  BY <2>1, <1>1, <1>2, <1>3, <1>r, <1>o, MapFreshIs
<1>n. n \in Nat /\ n \in 0 .. Stack /\ brk \in [Procs -> 0 .. Stack]
  <2>1. Stack \in Nat
    BY Consts
  <2>2. brk \in [Procs -> 0 .. Stack]
    BY DEF Holding, IInv, TypeOK
  <2> QED  BY <2>1, <2>2
<1>4. ASSUME r.ok
      PROVE  /\ r \in ViewRec /\ Books(r, pool, Others(pt, p))
             /\ Cardinality(r.maps) <= MAX_MAPPING
             /\ Live(r.tab, n, r.maps, shmem[p], pool)
             /\ \A v \in VAs : EntryOK(pt, maps, pool, pool, p, r.tab, r.maps, v)
  <2>1. Mapped(View(p), r, V, pool, Others(pt, p))
    BY <1>1, <1>3, <1>4, <1>m, <1>o
  <2>2. \A v \in V : pt[p][v] = 0
    BY <1>1, <1>3, <1>4 DEF Mapped, NewPages
  <2>3. n < Stack /\ ImageOf(n) = ImageOf(brk[p]) \cup V
    BY <2>2, <1>2
  <2>4. /\ Live(r.tab, n, r.maps, shmem[p], pool)
        /\ \A v \in VAs : EntryOK(pt, maps, pool, pool, p, r.tab, r.maps, v)
    BY <2>1, <2>3, <1>2, <1>n, GrowLive
  <2>5. r \in ViewRec /\ Books(r, pool, Others(pt, p)) /\ r.maps = maps[p]
    BY <2>1, <1>1, <1>m DEF Mapped
  <2>6. Cardinality(r.maps) <= MAX_MAPPING
    BY <2>5, LiveIs
  <2> QED  BY <2>4, <2>5, <2>6
<1>5. /\ brk' \in [Procs -> 0 .. Stack] /\ brk'[p] = n
      /\ \A q \in Procs \ {p} : brk'[q] = brk[q]
  BY <1>n
<1>6. next' \in [Procs -> 0 .. NVA + 2]
  BY DEF Holding, IInv, TypeOK
<1>7. Commit(p, r) /\ UNCHANGED <<state, shmem, taken, pool>>
  BY <1>r, <1>m, <1>V
<1> QED  BY <1>4, <1>5, <1>6, <1>7, OwnStep

(* sys_brk() with less.                                                     *)
LEMMA BrkLess ==
  ASSUME Holding, NEW p \in Procs, state[p] = "live", NEW n \in 1 .. Stack, n < brk[p],
         brk' = [brk EXCEPT ![p] = n], Commit(p, Unmap(View(p), n + 1 .. brk[p])),
         UNCHANGED <<state, shmem, next, taken, pool>>
  PROVE  IInv'
<1>b. PICK b \in Nat : b = brk[p] /\ b < Stack
  BY LiveIs
<1>V. PICK V : V = n + 1 .. b
  OBVIOUS
<1>m. PICK m : m = View(p)
  OBVIOUS
<1>r. PICK r : r = Unmap(m, V)
  OBVIOUS
<1>o. PICK o : o = Others(pt, m.who)
  OBVIOUS
<1>1. /\ m \in ViewRec /\ m.who = p /\ m.maps = maps[p] /\ m.tab = pt[p]
      /\ Books(m, pool, o)
  BY <1>m, <1>o, ViewIs
<1>l. /\ \A v \in OwnOf(b, maps[p]) \cap VAs : pt[p][v] # 0 /\ ~InPool(pool, pt[p][v])
      /\ \A v \in VAs \ OwnOf(b, maps[p]) :
           pt[p][v] # 0 => /\ Covers(shmem[p], pool, v, pt[p][v])
                           /\ InPool(pool, pt[p][v])
      /\ ImageOf(b) \cap MappedBy(maps[p]) = {} /\ ImageOf(b) \subseteq VAs
      /\ MapsOK(maps[p]) /\ Cardinality(maps[p]) <= MAX_MAPPING
  BY <1>b, LiveIs
<1>n. n \in Nat /\ n < b /\ n \in 0 .. Stack /\ brk \in [Procs -> 0 .. Stack]
  BY <1>b, Consts DEF Holding, IInv, TypeOK
<1>2. ImageOf(n) = ImageOf(b) \ V /\ V \subseteq ImageOf(b)
  <2>1. \A v : v \in 1 .. n <=> v \in 1 .. b /\ v \notin n + 1 .. b
    BY <1>n
  <2>2. 0 \notin n + 1 .. b /\ Stack \notin n + 1 .. b
    BY <1>n, <1>b, Consts
  <2>3. \A v \in n + 1 .. b : v \in 1 .. b
    BY <1>n
  <2> QED  BY <2>1, <2>2, <2>3, <1>V DEF ImageOf
<1>3. V \in SUBSET VAs /\ \A v \in V : ~InPool(pool, m.tab[v])
  BY <1>1, <1>2, <1>l DEF OwnOf
<1>4. Unmapped(m, r, V, pool, o)
  BY <1>1, <1>3, <1>r, <1>o, UnmapIs
<1>5. /\ r \in ViewRec /\ r.maps = maps[p] /\ Books(r, pool, Others(pt, p))
      /\ r.tab = Wiped(pt[p], V)
  BY <1>1, <1>4, <1>o DEF Unmapped
<1>6. \A v \in VAs : r.tab[v] = IF v \in V THEN 0 ELSE pt[p][v]
  BY <1>5 DEF Wiped
<1>7. OwnOf(n, r.maps) = OwnOf(b, maps[p]) \ V /\ V \subseteq OwnOf(b, maps[p])
  BY <1>2, <1>5, <1>l DEF OwnOf
<1>8. Agree(r.tab, OwnOf(n, r.maps), shmem[p], pool)
  BY <1>6, <1>7, <1>l DEF Agree
<1>9. ImageOf(n) \cap MappedBy(r.maps) = {} /\ n < Stack
  BY <1>2, <1>5, <1>l, <1>n, <1>b, Consts
<1>10. Live(r.tab, n, r.maps, shmem[p], pool)
  BY <1>5, <1>8, <1>9, <1>l DEF Live
<1>11. ASSUME NEW v \in VAs PROVE EntryOK(pt, maps, pool, pool, p, r.tab, r.maps, v)
  BY <1>5, <1>6, <1>l DEF EntryOK
<1>12. /\ brk' \in [Procs -> 0 .. Stack] /\ brk'[p] = n
       /\ \A q \in Procs \ {p} : brk'[q] = brk[q]
  BY <1>n
<1>13. next' \in [Procs -> 0 .. NVA + 2]
  BY DEF Holding, IInv, TypeOK
<1>14. Commit(p, r) /\ UNCHANGED <<state, shmem, taken, pool>>
  BY <1>r, <1>m, <1>V, <1>b
<1>15. Cardinality(r.maps) <= MAX_MAPPING
  BY <1>5, <1>l
<1> QED  BY <1>5, <1>10, <1>11, <1>12, <1>13, <1>14, <1>15, OwnStep

(* sys_brk() either way.                                                    *)
LEMMA BrkKeeps ==
  ASSUME Holding, NEW p \in Procs, Brk(p)
  PROVE  IInv'
<1>1. state[p] = "live"
  BY DEF Brk, Enters
<1>2. PICK n \in 1 .. Stack :
        /\ brk' = [brk EXCEPT ![p] = n]
        /\ \/ /\ n > brk[p] /\ Cardinality(Asked(p, n)) <= Cardinality(free)
              /\ Commit(p, MapFresh(View(p), Asked(p, n)))
           \/ n < brk[p] /\ Commit(p, Unmap(View(p), n + 1 .. brk[p]))
  BY DEF Brk
<1>3. UNCHANGED <<state, shmem, next, taken, pool>>
  BY DEF Brk
<1>4. CASE n > brk[p] /\ Cardinality(Asked(p, n)) <= Cardinality(free)
           /\ Commit(p, MapFresh(View(p), Asked(p, n)))
  BY <1>1, <1>2, <1>3, <1>4, BrkMore
<1>5. CASE n < brk[p] /\ Commit(p, Unmap(View(p), n + 1 .. brk[p]))
  BY <1>1, <1>2, <1>3, <1>5, BrkLess
<1> QED  BY <1>2, <1>4, <1>5

(* The ranges mmap() and munmap() are asked for.                            *)
LEMMA RangeAsked ==
  ASSUME NEW n \in 1 .. MaxLen, NEW a \in 1 .. NVA - n + 1
  PROVE  /\ a \in Nat /\ a \in VAs /\ n \in Nat \ {0} /\ n \in 1 .. NVA
         /\ a + n <= NVA + 1
<1>1. n \in Nat /\ a \in Nat /\ 1 <= n /\ 1 <= a /\ a <= NVA - n + 1 /\ NVA \in Nat
  BY Consts
<1>2. a <= NVA /\ n <= NVA /\ a + n <= NVA + 1
  BY <1>1
<1> QED  BY <1>1, <1>2 DEF VAs

(* munmap() of a range that has mappings.                                   *)
LEMMA MunmapKeeps ==
  ASSUME Holding, NEW p \in Procs, Munmap(p)
  PROVE  IInv'
<1>1. state[p] = "live" /\ UNCHANGED <<state, brk, shmem, next, taken, pool>>
  BY DEF Munmap, Enters
<1>n. PICK n \in 1 .. MaxLen :
        \E a \in 1 .. NVA - n + 1 : Commit(p, RemoveRange(View(p), a, n))
  BY DEF Munmap
<1>2. PICK a \in 1 .. NVA - n + 1 : Commit(p, RemoveRange(View(p), a, n))
  BY <1>n
<1>3. a \in Nat /\ n \in Nat \ {0}
  BY RangeAsked
<1> QED  BY <1>1, <1>2, <1>3, RemoveStep

(* mmap(), with room made for it or not.                                    *)
LEMMA MmapKeeps ==
  ASSUME Holding, NEW p \in Procs, Mmap(p)
  PROVE  IInv'
<1>1. state[p] = "live" /\ UNCHANGED <<state, brk, shmem, next, taken, pool>>
  BY DEF Mmap, Enters
<1>n. PICK n \in 1 .. MaxLen : \E a \in 1 .. NVA - n + 1 :
        LET m == RemoveRange(View(p), a, n) IN
        \/ /\ IsFree(m, a, n) /\ n <= Cardinality(m.free)
           /\ \E shared \in BOOLEAN : Commit(p, Place(m, a, n, shared))
        \/ MappedIn(p, a, n) # {} /\ Commit(p, m)
  BY DEF Mmap
<1>2. PICK a \in 1 .. NVA - n + 1 :
        LET m == RemoveRange(View(p), a, n) IN
        \/ /\ IsFree(m, a, n) /\ n <= Cardinality(m.free)
           /\ \E shared \in BOOLEAN : Commit(p, Place(m, a, n, shared))
        \/ MappedIn(p, a, n) # {} /\ Commit(p, m)
  BY <1>n
<1>m. PICK m : m = RemoveRange(View(p), a, n)
  OBVIOUS
<1>3. a \in Nat /\ a \in VAs /\ n \in Nat \ {0} /\ n \in 1 .. NVA /\ a + n <= NVA + 1
  BY RangeAsked
<1>4. CASE /\ IsFree(m, a, n) /\ n <= Cardinality(m.free)
           /\ \E shared \in BOOLEAN : Commit(p, Place(m, a, n, shared))
  <2> PICK shared \in BOOLEAN : Commit(p, Place(m, a, n, shared))
    BY <1>4
  <2> QED  BY <1>1, <1>3, <1>4, <1>m, PlaceStep
<1>5. CASE Commit(p, m)
  BY <1>1, <1>3, <1>5, <1>m, RemoveStep
<1> QED  BY <1>2, <1>4, <1>5, <1>m

(* A panic that leaves everything as it is.                                 *)
LEMMA PanicStep ==
  ASSUME Holding, panicked' = TRUE,
         UNCHANGED <<state, ref, free, pt, brk, maps, shmem, next, taken, pool>>
  PROVE  IInv'
BY DEF Holding, IInv, TypeOK

(* elf_loader() gives an empty process its image, or there is no memory.    *)
LEMMA ExecLoadKeeps ==
  ASSUME Holding, NEW p \in Procs, ExecLoad(p)
  PROVE  IInv'
<1>1. state[p] = "loading" /\ UNCHANGED <<shmem, taken, pool>>
  BY DEF ExecLoad
<1>2. CASE Cardinality(free) < 3
  <2>1. panicked' = TRUE /\ UNCHANGED <<state, ref, free, pt, brk, maps, next>>
    BY <1>2 DEF ExecLoad
  <2> QED  BY <1>1, <2>1, PanicStep
<1>3. CASE ~(Cardinality(free) < 3)
  <2>1. /\ Commit(p, MapFresh(View(p), {0, 1, Stack}))
        /\ brk' = [brk EXCEPT ![p] = 1] /\ next' = [next EXCEPT ![p] = Stack + 2]
        /\ state' = [state EXCEPT ![p] = "live"]
    BY <1>3 DEF ExecLoad
  <2>V. PICK V : V = {0, 1, Stack}
    OBVIOUS
  <2>m. PICK m : m = View(p)
    OBVIOUS
  <2>r. PICK r : r = MapFresh(m, V)
    OBVIOUS
  <2>o. PICK o : o = Others(pt, m.who)
    OBVIOUS
  <2>2. /\ m \in ViewRec /\ m.who = p /\ m.maps = maps[p] /\ m.tab = pt[p] /\ m.free = free
        /\ Books(m, pool, o)
    BY <2>m, <2>o, ViewIs
  <2>3. Gone(pt[p], maps[p], shmem[p], taken[p])
    BY <1>1 DEF Holding, IInv, Sound, InvProcs, ProcOK
  <2>4. /\ maps[p] = {} /\ shmem[p] = NoShmem /\ taken[p] = None
        /\ \A v \in VAs : pt[p][v] = 0
    BY <2>3 DEF Gone, NoTable
  <2>5. V \in SUBSET VAs
    <3>1. 0 \in 0 .. NVA /\ 1 \in 0 .. NVA /\ Stack \in 0 .. NVA
      BY Consts
    <3> QED  BY <3>1, <2>V DEF VAs
  <2>6. Cardinality(V) <= Cardinality(m.free)
    <3>1. IsFiniteSet({0}) /\ Cardinality({0}) = 1
      BY FS_Singleton
    <3>2. IsFiniteSet({0} \cup {1}) /\ Cardinality({0} \cup {1}) = 2
      BY <3>1, FS_AddElement
    <3>3. PICK c \in {2, 3} : Cardinality(({0} \cup {1}) \cup {Stack}) = c
      BY <3>2, FS_AddElement
    <3>4. V = ({0} \cup {1}) \cup {Stack}
      BY <2>V
    <3>5. Cardinality(free) \in Nat
      BY Finite, FS_Subset, FS_CardinalityType DEF Holding, IInv, TypeOK
    <3> QED  BY <3>3, <3>4, <3>5, <2>2, <1>3
  <2>7. ASSUME r.ok PROVE Mapped(m, r, V, pool, o)
    BY <2>2, <2>5, <2>6, <2>7, <2>r, <2>o, MapFreshIs
  <2>8. OwnOf(1, {}) = V /\ ImageOf(1) \cap MappedBy({}) = {} /\ 1 < Stack /\ MapsOK({})
    <3>1. 1 .. 1 = {1}
      OBVIOUS
    <3>2. MappedBy({}) = {}
      BY DEF MappedBy
    <3>3. MapsOK({})
      BY FS_EmptySet DEF MapsOK
    <3> QED  BY <3>1, <3>2, <3>3, <2>V, Consts DEF OwnOf, ImageOf
  <2>9. ASSUME r.ok PROVE Fits(p, r)
    <3>1. r \in ViewRec /\ Books(r, pool, o) /\ r.maps = {}
      BY <2>2, <2>4, <2>7, <2>9 DEF Mapped
    <3>2. \A v \in VAs \ V : r.tab[v] = 0
      BY <2>2, <2>4, <2>7, <2>9 DEF Mapped
    <3>3. /\ \A v \in V : /\ r.tab[v] # 0 /\ ~InPool(pool, r.tab[v])
                          /\ \A w \in VAs : r.tab[w] = r.tab[v] => w = v
          /\ \A v \in V, q \in Procs \ {p}, w \in VAs : pt[q][w] # r.tab[v]
      <4>1. m.free \subseteq Pages
        BY <2>2 DEF ViewRec
      <4>2. ASSUME NEW v \in V
            PROVE  /\ r.tab[v] \in Pages /\ ~InPool(pool, r.tab[v]) /\ o[r.tab[v]] = 0
                   /\ \A w \in VAs : r.tab[w] = r.tab[v] => w = v
        BY <4>1, <2>7, <2>9 DEF Mapped, NewPages
      <4>3. ASSUME NEW v \in V PROVE \A q \in Procs \ {p}, w \in VAs : pt[q][w] # r.tab[v]
        BY <4>2, <2>2, <2>o, UsedByOthers
      <4> QED  BY <4>2, <4>3, Consts
    <3>4. Agree(r.tab, OwnOf(1, r.maps), shmem[p], pool)
      BY <3>1, <3>2, <3>3, <2>8 DEF Agree
    <3>5. ProcOK("live", r.tab, 1, r.maps, shmem[p], taken[p], pool)
      BY <3>1, <3>4, <2>8 DEF ProcOK, Live
    <3>6. PoolOK(pool', taken', shmem') /\ Keeps(pt, shmem, pool, pool', p)
      <4>1. PoolOK(pool, taken, shmem)
        BY DEF Holding, IInv, Sound
      <4>2. \A n \in Names : pool'[n].pages = pool[n].pages
        BY <1>1
      <4> QED  BY <4>1, <4>2, <1>1, KeepsSame
    <3>7. \A v \in VAs : EntryOK(pt, maps, pool, pool', p, r.tab, r.maps, v)
      BY <3>2, <3>3 DEF EntryOK
    <3>8. state'[p] = "live" /\ brk'[p] = 1
      BY <2>1 DEF Holding, IInv, TypeOK
    <3>9. Cardinality(r.maps) <= MAX_MAPPING
      BY <3>1, Consts, FS_EmptySet
    <3> QED  BY <3>1, <3>5, <3>6, <3>7, <3>8, <3>9, <1>1, <2>2, <2>o DEF Fits
  <2>10. Typed' /\ Besides(p)
    <3>1. 1 \in 0 .. Stack /\ Stack + 2 \in 0 .. NVA + 2
      BY Consts
    <3> QED  BY <3>1, <1>1, <2>1 DEF Holding, IInv, TypeOK, Typed, Besides
  <2>11. Commit(p, r)
    BY <2>1, <2>r, <2>m, <2>V
  <2> QED  BY <2>9, <2>10, <2>11, CommitStep
<1> QED  BY <1>2, <1>3

(* clone() with memory enough.                                              *)
LEMMA CloneStep ==
  ASSUME Holding, NEW p \in Procs, NEW np \in Procs \ {p}, state[p] = "live",
         state[np] = "unused", Cardinality(Copied(p)) <= Cardinality(free),
         Commit(np, Share(MapFresh([View(np) EXCEPT !.maps = maps[p]], Copied(p)), pt[p],
                          MappedBy({r \in maps[p] : r.shared}))),
         state' = [state EXCEPT ![np] = "live"], brk' = [brk EXCEPT ![np] = brk[p]],
         shmem' = [shmem EXCEPT ![np] = shmem[p]], next' = [next EXCEPT ![np] = next[p]],
         pool' = [n \in Names |-> [pool[n] EXCEPT !.ref = @ + Holds(p, n)]],
         UNCHANGED taken
  PROVE  IInv'
<1>C. PICK C : C = Copied(p)
  OBVIOUS
<1>S. PICK S : S = MappedBy({s \in maps[p] : s.shared})
  OBVIOUS
<1>h. PICK h : h = View(np)
  OBVIOUS
<1>k. PICK k : k = [h EXCEPT !.maps = maps[p]]
  OBVIOUS
<1>m. PICK m : m = MapFresh(k, C)
  OBVIOUS
<1>r. PICK r : r = Share(m, pt[p], S)
  OBVIOUS
<1>o. PICK o : o = Others(pt, np)
  OBVIOUS
<1>T. TypeOK /\ Typed
  BY DEF Holding, IInv, TypeOK, Typed
<1>l. /\ \A v \in OwnOf(brk[p], maps[p]) \cap VAs : pt[p][v] # 0 /\ ~InPool(pool, pt[p][v])
      /\ ImageOf(brk[p]) \cap MappedBy(maps[p]) = {} /\ MapsOK(maps[p])
      /\ ImageOf(brk[p]) \subseteq VAs /\ MappedBy(maps[p]) \subseteq VAs
      /\ brk[p] < Stack /\ Cardinality(maps[p]) <= MAX_MAPPING
      /\ pt[p] \in [VAs -> 0 .. NPages]
  BY LiveIs
<1>g. maps[np] = {} /\ shmem[np] = NoShmem /\ taken[np] = None /\ pt[np] = NoTable
  <2>1. Gone(pt[np], maps[np], shmem[np], taken[np])
    BY DEF Holding, IInv, Sound, InvProcs, ProcOK
  <2> QED  BY <2>1 DEF Gone
(* The places of the image and of the two kinds of mappings.                *)
<1>1. \A v \in S : SharedIn(maps[p], v)
  BY <1>S DEF MappedBy, SharedIn, Rng
<1>2. C \cup S = OwnOf(brk[p], maps[p]) /\ C \subseteq VAs /\ S \subseteq VAs
  <2>1. C = ImageOf(brk[p]) \cup MappedBy({s \in maps[p] : ~s.shared})
    BY <1>C DEF Copied, Image, ImageOf
  <2>2. MappedBy(maps[p]) = MappedBy({s \in maps[p] : ~s.shared}) \cup S
    BY <1>S DEF MappedBy
  <2> QED  BY <2>1, <2>2, <1>l DEF OwnOf
<1>3. C \cap S = {}
  <2>1. \A v \in MappedBy({s \in maps[p] : ~s.shared}) : v \notin S
    <3> SUFFICES ASSUME NEW a \in maps[p], ~a.shared, NEW v \in Range1(a.va, a.n), v \in S
                 PROVE  FALSE
      BY DEF MappedBy
    <3>1. PICK b \in maps[p] : b.shared /\ v \in Range1(b.va, b.n)
      BY <1>S DEF MappedBy
    <3>2. a # b
      BY <3>1
    <3>3. Range1(a.va, a.n) \cap Range1(b.va, b.n) = {}
      BY <3>2, <1>l DEF MapsOK
    <3> QED  BY <3>1, <3>3
  <2>2. \A v \in ImageOf(brk[p]) : v \notin S
    BY <1>S, <1>l DEF MappedBy
  <2> QED  BY <2>1, <2>2, <1>C DEF Copied, Image, ImageOf
<1>4. /\ k \in ViewRec /\ k.who = np /\ k.maps = maps[p] /\ k.tab = NoTable /\ k.free = free
      /\ Books(k, pool, o)
  <2>1. /\ h \in ViewRec /\ h.who = np /\ h.tab = pt[np] /\ h.free = free
        /\ Books(h, pool, o)
    BY <1>h, <1>o, ViewIs
  <2>2. k = [who |-> h.who, ref |-> h.ref, free |-> h.free, tab |-> h.tab,
             maps |-> maps[p], ok |-> h.ok]
    BY <2>1, <1>k DEF ViewRec
  <2>3. maps[p] \in SUBSET Mapping
    BY <1>l DEF MapsOK
  <2>4. k \in ViewRec
    BY <2>1, <2>2, <2>3 DEF ViewRec
  <2>5. Books(k, pool, o)
    BY <2>1, <2>2 DEF Books
  <2> QED  BY <2>1, <2>2, <2>4, <2>5, <1>g
<1>5. ASSUME m.ok PROVE Mapped(k, m, C, pool, o)
  <2>1. Cardinality(C) <= Cardinality(k.free)
    BY <1>4, <1>C
  <2>2. o = Others(pt, k.who)
    BY <1>4, <1>o
  <2> QED  BY <2>1, <2>2, <1>2, <1>4, <1>5, <1>m, MapFreshIs
<1>e. \A v \in VAs : NoTable[v] = 0
  BY DEF NoTable
<1>6. ASSUME m.ok
      PROVE  /\ m \in ViewRec /\ Books(m, pool, o) /\ m.maps = maps[p] /\ m.who = np
             /\ \A v \in VAs \ C : m.tab[v] = 0
             /\ \A v \in C : /\ m.tab[v] \in Pages
                             /\ ~InPool(pool, m.tab[v]) /\ o[m.tab[v]] = 0
                             /\ \A w \in VAs : m.tab[w] = m.tab[v] => w = v
  <2>1. free \subseteq Pages
    BY <1>T DEF TypeOK
  <2> QED  BY <2>1, <1>4, <1>5, <1>6, <1>e DEF Mapped, NewPages
<1>7. \A v \in S : pt[p][v] \in Pages /\ ~InPool(pool, pt[p][v]) /\ o[pt[p][v]] # 0
  <2> SUFFICES ASSUME NEW v \in S
               PROVE  pt[p][v] \in Pages /\ ~InPool(pool, pt[p][v]) /\ o[pt[p][v]] # 0
    OBVIOUS
  <2>1. v \in VAs /\ pt[p][v] # 0 /\ ~InPool(pool, pt[p][v])
    BY <1>2, <1>l
  <2>2. pt[p][v] \in Pages
    BY <2>1, <1>l, Consts
  <2>3. o[pt[p][v]] # 0
    BY <2>1, <2>2, <1>o, UsedByOthers
  <2> QED  BY <2>1, <2>2, <2>3
<1>8. r.ok = m.ok
  BY <1>r, <1>m DEF Share, MapFresh, View
<1>9. ASSUME r.ok PROVE Joined(m, r, pt[p], S, pool, o)
  <2>1. m.ok
    BY <1>8, <1>9
  <2>2. \A v \in S : /\ m.tab[v] = 0 /\ pt[p][v] \in Pages /\ ~InPool(pool, pt[p][v])
                     /\ o[pt[p][v]] # 0
    BY <2>1, <1>2, <1>3, <1>6, <1>7
  <2>3. m \in ViewRec /\ Books(m, pool, o) /\ o = Others(pt, m.who) /\ S \in SUBSET VAs
    BY <2>1, <1>6, <1>o, <1>2
  <2> QED  BY <2>2, <2>3, <1>r, ShareIs
<1>10. ASSUME r.ok
       PROVE  /\ r \in ViewRec /\ r.maps = maps[p] /\ Books(r, pool, o)
              /\ \A v \in VAs : r.tab[v] = IF v \in S THEN pt[p][v] ELSE m.tab[v]
  BY <1>6, <1>8, <1>9, <1>10 DEF Joined, Patched
(* The pool.                                                                *)
<1>11. \A n \in Names : pool'[n].pages = pool[n].pages
                        /\ pool'[n].ref = pool[n].ref + HoldsIn(shmem[p], n)
  BY <1>T DEF Typed, Holds, HoldsIn
<1>12. Keeps(pt, shmem, pool, pool', np) /\ \A g : InPool(pool', g) <=> InPool(pool, g)
  BY <1>11, KeepsSame
<1>13. /\ state'[np] = "live" /\ brk'[np] = brk[p] /\ shmem'[np] = shmem[p]
       /\ \A q \in Procs \ {np} : /\ state'[q] = state[q] /\ brk'[q] = brk[q]
                                  /\ shmem'[q] = shmem[q]
  BY <1>T DEF Typed
<1>14. \A n \in Names : HoldsIn(shmem[np], n) = 0 /\ HoldsIn(shmem[p], n) \in Nat
  <2> SUFFICES ASSUME NEW n \in Names
               PROVE  HoldsIn(shmem[np], n) = 0 /\ HoldsIn(shmem[p], n) \in Nat
    OBVIOUS
  <2>1. {i \in 1 .. NSHMEM : shmem[np][i].name = n} = {}
    BY <1>g, Consts DEF NoShmem
  <2>2. HoldsIn(shmem[p], n) \in Nat
    <3>1. SlotsMove(shmem, shmem, p, n)
      BY SlotsSplit
    <3> QED  BY <3>1 DEF SlotsMove
  <2> QED  BY <2>1, <2>2, FS_EmptySet DEF HoldsIn
<1>15. PoolOK(pool', taken', shmem')
  <2>1. PoolOK(pool, taken, shmem)
    BY DEF Holding, IInv, Sound
  <2>2. \A n, i \in Names : n # i => pool'[n].pages \cap pool'[i].pages = {}
    BY <2>1, <1>11 DEF PoolOK
  <2>3. ASSUME NEW n \in Names
        PROVE  /\ pool'[n].ref >= Gets(taken', n) + Slotted(shmem', n)
               /\ pool'[n].ref = 0 => pool'[n].pages = {}
    <3>1. PICK j \in Nat : /\ Slotted(shmem, n) = j + HoldsIn(shmem[np], n)
                           /\ Slotted(shmem', n) = j + HoldsIn(shmem'[np], n)
      <4>1. \A q \in Procs \ {np} : shmem[q] = shmem'[q]
        BY <1>13
      <4>2. SlotsMove(shmem, shmem', np, n)
        BY <4>1, SlotsSplit
      <4> QED  BY <4>2 DEF SlotsMove
    <3>2. PICK a \in Nat : a = HoldsIn(shmem[p], n)
      BY <1>14
    <3>3. PICK b \in Nat : b = pool[n].ref
      BY <1>T DEF Typed
    <3>4. PICK c \in Nat : c = Gets(taken, n)
      <4>1. GetsMove(taken, taken, p, n)
        BY GetsSplit
      <4> QED  BY <4>1 DEF GetsMove, One
    <3>5. Slotted(shmem, n) = j /\ Slotted(shmem', n) = j + a
      BY <3>1, <3>2, <1>13, <1>14
    <3>6. b >= c + j /\ (b = 0 => pool[n].pages = {})
      BY <2>1, <3>3, <3>4, <3>5 DEF PoolOK
    <3>7. pool'[n].ref = b + a /\ Gets(taken', n) = c
      BY <1>11, <3>2, <3>3, <3>4
    <3> QED  BY <3>5, <3>6, <3>7, <1>11
  <2> QED  BY <2>2, <2>3 DEF PoolOK
(* The child.                                                               *)
<1>16. ASSUME r.ok
       PROVE  ProcOK(state'[np], r.tab, brk'[np], r.maps, shmem'[np], taken'[np], pool')
  <2>1. \A v \in VAs : IF v \in C \cup S THEN r.tab[v] # 0 /\ ~InPool(pool', r.tab[v])
                                         ELSE r.tab[v] = 0
    BY <1>6, <1>7, <1>8, <1>10, <1>12, <1>16, Consts
  <2>2. Agree(r.tab, OwnOf(brk[p], maps[p]), shmem[p], pool')
    BY <2>1, <1>2 DEF Agree
  <2>3. Live(r.tab, brk[p], r.maps, shmem[p], pool')
    BY <2>2, <1>10, <1>16, <1>l DEF Live
  <2> QED  BY <2>3, <1>13 DEF ProcOK
<1>17. ASSUME r.ok, NEW v \in VAs
       PROVE  EntryOK(pt, maps, pool, pool', np, r.tab, r.maps, v)
  <2>1. CASE v \in S
    <3>1. p \in Procs \ {np} /\ r.tab[v] = pt[p][v]
      BY <2>1, <1>10, <1>17
    <3>2. SharedIn(maps[p], v) /\ SharedIn(r.maps, v)
      BY <2>1, <1>1, <1>10, <1>17
    <3> QED  BY <3>1, <3>2 DEF EntryOK
  <2>2. CASE v \in C
    <3>1. r.tab[v] = m.tab[v] /\ v \notin S
      BY <2>2, <1>3, <1>10, <1>17
    <3>2. /\ m.tab[v] \in Pages /\ o[m.tab[v]] = 0
          /\ \A w \in VAs : m.tab[w] = m.tab[v] => w = v
      BY <2>2, <1>6, <1>8, <1>17
    <3>3. \A q \in Procs \ {np}, w \in VAs : pt[q][w] # r.tab[v]
      BY <3>1, <3>2, <1>o, UsedByOthers
    <3>4. \A w \in VAs : r.tab[w] = r.tab[v] => w = v
      BY <3>1, <3>2, <3>3, <1>10, <1>17
    <3> QED  BY <3>3, <3>4 DEF EntryOK
  <2>3. CASE v \notin C \cup S
    <3>1. r.tab[v] = 0
      BY <2>3, <1>6, <1>8, <1>10, <1>17
    <3> QED  BY <3>1 DEF EntryOK
  <2> QED  BY <2>1, <2>2, <2>3
<1>18. ASSUME r.ok PROVE Fits(np, r)
  <2>1. Books(r, pool', o)
    BY <1>10, <1>12, <1>18 DEF Books
  <2> QED  BY <2>1, <1>10, <1>12, <1>15, <1>16, <1>17, <1>18, <1>l, <1>o DEF Fits
<1>19. Typed' /\ Besides(np)
  <2>1. pool' \in [Names -> [ref : Nat, pages : SUBSET Pages]]
    <3>1. \A n \in Names : HoldsIn(shmem[p], n) \in Nat /\ HoldsIn(shmem[p], n) = Holds(p, n)
      BY <1>14 DEF Holds, HoldsIn
    <3>2. ASSUME NEW n \in Names
          PROVE  [pool[n] EXCEPT !.ref = @ + Holds(p, n)] \in [ref : Nat, pages : SUBSET Pages]
      <4>1. PICK a \in Nat, b \in Nat : a = pool[n].ref /\ b = Holds(p, n)
        BY <3>1, <1>T DEF Typed
      <4>2. a + b \in Nat
        OBVIOUS
      <4>3. pool[n] \in [ref : Nat, pages : SUBSET Pages]
        BY <1>T DEF Typed
      <4>4. [pool[n] EXCEPT !.ref = @ + Holds(p, n)] = [ref |-> a + b, pages |-> pool[n].pages]
        BY ONLY <4>1, <4>3
      <4> QED  BY ONLY <4>2, <4>3, <4>4
    <3> QED  BY <3>2
  <2> QED  BY <2>1, <1>T, <1>13 DEF Typed, Besides
<1>20. Commit(np, r)
  BY <1>r, <1>m, <1>k, <1>h, <1>S, <1>C
<1> QED  BY <1>18, <1>19, <1>20, CommitStep

(* clone(), with memory enough or not.                                      *)
LEMMA CloneKeeps ==
  ASSUME Holding, NEW p \in Procs, NEW np \in Procs \ {p}, Clone(p, np)
  PROVE  IInv'
<1>1. state[p] = "live" /\ state[np] = "unused" /\ UNCHANGED taken
  BY DEF Clone, Enters
<1>2. CASE Cardinality(Copied(p)) > Cardinality(free)
  <2>1. /\ panicked' = TRUE
        /\ UNCHANGED <<state, ref, free, pt, brk, maps, shmem, next, pool>>
    BY <1>2 DEF Clone
  <2> QED  BY <1>1, <2>1, PanicStep
<1>3. CASE ~(Cardinality(Copied(p)) > Cardinality(free))
  <2>1. /\ Commit(np, Share(MapFresh([View(np) EXCEPT !.maps = maps[p]], Copied(p)), pt[p],
                            MappedBy({r \in maps[p] : r.shared})))
        /\ state' = [state EXCEPT ![np] = "live"] /\ brk' = [brk EXCEPT ![np] = brk[p]]
        /\ shmem' = [shmem EXCEPT ![np] = shmem[p]]
        /\ next' = [next EXCEPT ![np] = next[p]]
        /\ pool' = [n \in Names |-> [pool[n] EXCEPT !.ref = @ + Holds(p, n)]]
    BY <1>3 DEF Clone
  <2>2. Cardinality(Copied(p)) <= Cardinality(free)
    <3>1. Cardinality(free) \in Nat
      BY Finite, FS_Subset, FS_CardinalityType DEF Holding, IInv, TypeOK
    <3>2. Copied(p) \subseteq VAs
      BY LiveIs, <1>1 DEF Copied, Image, ImageOf, MappedBy
    <3>3. Cardinality(Copied(p)) \in Nat
      BY <3>2, Finite, FS_Subset, FS_CardinalityType
    <3> QED  BY <3>1, <3>3, <1>3
  <2> QED  BY <1>1, <2>1, <2>2, CloneStep
<1> QED  BY <1>2, <1>3

(* Shared memories come, go and are counted; no table or slot changes.      *)
LEMMA PoolStep ==
  ASSUME Holding, NEW p \in Procs, state[p] = "live", TypeOK',
         UNCHANGED <<state, pt, brk, maps, shmem>>,
         \A q \in Procs \ {p} : taken'[q] = taken[q],
         PoolOK(pool', taken', shmem), RefsOK(pt, ref', free', pool'),
         \A q \in Procs, i \in 1 .. NSHMEM, n \in Names :
           shmem[q][i].name = n => pool'[n].pages = pool[n].pages,
         \A q \in Procs, v \in VAs :
           pt[q][v] # 0 => (InPool(pool', pt[q][v]) <=> InPool(pool, pt[q][v]))
  PROVE  IInv'
<1>1. Elsewhere(p)
  BY DEF Elsewhere
<1>2. Live(pt[p], brk[p], maps[p], shmem[p], pool)
  BY DEF Holding, IInv, Sound, InvProcs, ProcOK
<1>3. Agree(pt[p], OwnOf(brk[p], maps[p]), shmem[p], pool)
      => Agree(pt[p], OwnOf(brk[p], maps[p]), shmem[p], pool')
  BY AgreeStay
<1>4. ProcOK(state'[p], pt'[p], brk'[p], maps'[p], shmem'[p], taken'[p], pool')
  BY <1>2, <1>3 DEF Live, ProcOK
<1>5. Keeps(pt, shmem, pool, pool', p)
  BY DEF Keeps
<1>6. \A v \in VAs : EntryOK(pt, maps, pool, pool', p, pt'[p], maps'[p], v)
  BY DEF EntryOK
<1> QED  BY <1>1, <1>4, <1>5, <1>6, Step

(* Without a slot that names it, a process has no page of a shared memory.  *)
LEMMA Unnamed ==
  ASSUME Holding, NEW q \in Procs, NEW n \in Names,
         \A i \in 1 .. NSHMEM : shmem[q][i].name # n
  PROVE  \A v \in VAs : pt[q][v] \notin pool[n].pages
<1> SUFFICES ASSUME NEW v \in VAs, pt[q][v] \in pool[n].pages
             PROVE  FALSE
  OBVIOUS
<1>1. pt[q][v] # 0 /\ InPool(pool, pt[q][v])
  <2>1. pool[n].pages \subseteq Pages
    BY DEF Holding, IInv, TypeOK
  <2> QED  BY <2>1, Consts DEF InPool
<1>2. CASE state[q] = "live"
  <2>1. Covers(shmem[q], pool, v, pt[q][v])
    BY <1>1, <1>2, LiveIs
  <2>2. PICK i \in 1 .. NSHMEM, k \in Names :
               shmem[q][i].name = k /\ pt[q][v] \in pool[k].pages
    BY <2>1 DEF Covers
  <2>3. k # n
    BY <2>2
  <2>4. pool[n].pages \cap pool[k].pages = {}
    BY <2>3 DEF Holding, IInv, Sound, PoolOK
  <2> QED  BY <2>2, <2>4
<1>3. CASE state[q] # "live"
  <2>1. pt[q] = NoTable
    BY <1>3 DEF Holding, IInv, Sound, InvProcs, ProcOK, Gone
  <2> QED  BY <2>1, <1>1 DEF NoTable
<1> QED  BY <1>2, <1>3

(* The counts of a shared memory.                                           *)
LEMMA Counted ==
  ASSUME Holding, NEW n \in Names
  PROVE  /\ Gets(taken, n) \in Nat /\ Slotted(shmem, n) \in Nat /\ pool[n].ref \in Nat
         /\ pool[n].ref >= Gets(taken, n) + Slotted(shmem, n)
         /\ pool[n].ref = 0 => pool[n].pages = {}
         /\ pool[n].pages \subseteq Pages
         /\ \A k \in Names \ {n} : pool[n].pages \cap pool[k].pages = {}
<1>p. Shell \in Procs
  BY Consts
<1>1. GetsMove(taken, taken, Shell, n) /\ SlotsMove(shmem, shmem, Shell, n)
  BY <1>p, GetsSplit, SlotsSplit
<1>2. One(taken[Shell], n) \in Nat
  BY DEF One
<1>3. Gets(taken, n) \in Nat /\ Slotted(shmem, n) \in Nat
  BY <1>1, <1>2 DEF GetsMove, SlotsMove
<1> QED  BY <1>3 DEF Holding, IInv, TypeOK, Sound, PoolOK

(* A shared memory no slot names is in no table.                            *)
LEMMA NotNamed ==
  ASSUME Holding, NEW n \in Names, Slotted(shmem, n) = 0
  PROVE  /\ \A q \in Procs, i \in 1 .. NSHMEM : shmem[q][i].name # n
         /\ \A q \in Procs, v \in VAs : pt[q][v] \notin pool[n].pages
<1>1. ASSUME NEW q \in Procs, NEW i \in 1 .. NSHMEM, shmem[q][i].name = n PROVE FALSE
  <2>1. HoldsIn(shmem[q], n) > 0
    BY <1>1, SlotCounts
  <2>2. SlotsMove(shmem, shmem, q, n)
    BY SlotsSplit
  <2> QED  BY <2>1, <2>2 DEF SlotsMove
<1>2. \A q \in Procs, i \in 1 .. NSHMEM : shmem[q][i].name # n
  BY <1>1
<1> QED  BY <1>2, Unnamed

(* get_shared_mem_by_name() of what is there.                               *)
LEMMA GetOld ==
  ASSUME Holding, NEW p \in Procs, state[p] = "live", taken[p] = None,
         NEW n \in Names, NEW len \in 0 .. MaxShmem,
         pool' = [pool EXCEPT ![n].ref = @ + 1],
         taken' = [taken EXCEPT ![p] = [name |-> n, len |-> len]],
         UNCHANGED <<state, ref, free, pt, brk, maps, shmem, next, panicked>>
  PROVE  IInv'
<1>t. TypeOK /\ RefsOK(pt, ref, free, pool) /\ PoolOK(pool, taken, shmem)
  BY DEF Holding, IInv, Sound
<1>1. /\ \A k \in Names : pool'[k].pages = pool[k].pages
      /\ \A k \in Names \ {n} : pool'[k].ref = pool[k].ref
      /\ pool'[n].ref = pool[n].ref + 1
  BY <1>t DEF TypeOK
<1>2. \A g : InPool(pool', g) <=> InPool(pool, g)
  BY <1>1 DEF InPool
<1>3. /\ \A q \in Procs \ {p} : taken'[q] = taken[q]
      /\ taken'[p] = [name |-> n, len |-> len]
  BY <1>t DEF TypeOK
<1>4. TypeOK'
  <2>1. pool' \in [Names -> [ref : Nat, pages : SUBSET Pages]]
    <3>1. PICK a \in Nat : a = pool[n].ref
      BY <1>t DEF TypeOK
    <3>2. a + 1 \in Nat
      OBVIOUS
    <3> QED  BY <3>1, <3>2, <1>t DEF TypeOK
  <2>2. taken' \in [Procs -> {None} \cup [name : Names, len : 0 .. MaxShmem]]
    BY <1>t DEF TypeOK
  <2> QED  BY <2>1, <2>2, <1>t DEF TypeOK
<1>5. PoolOK(pool', taken', shmem)
  <2>1. ASSUME NEW k \in Names
        PROVE  /\ pool'[k].ref >= Gets(taken', k) + Slotted(shmem, k)
               /\ pool'[k].ref = 0 => pool'[k].pages = {}
    <3>1. GetsMove(taken, taken', p, k)
      <4>1. \A q \in Procs \ {p} : taken[q] = taken'[q]
        BY <1>3
      <4> QED  BY <4>1, GetsSplit
    <3>2. PICK j \in Nat : /\ Gets(taken, k) = j + One(taken[p], k)
                           /\ Gets(taken', k) = j + One(taken'[p], k)
      BY <3>1 DEF GetsMove
    <3>3. One(taken[p], k) = 0
      BY DEF One
    <3>4. One(taken'[p], k) \in {0, 1} /\ (k # n => One(taken'[p], k) = 0)
      BY <1>3 DEF One
    <3>5. PICK a \in Nat, s \in Nat : a = pool[k].ref /\ s = Slotted(shmem, k)
      BY Counted
    <3>6. a >= j + s /\ (a = 0 => pool[k].pages = {})
      BY <3>2, <3>3, <3>5, Counted
    <3>7. CASE k = n
      BY <3>2, <3>4, <3>5, <3>6, <3>7, <1>1
    <3>8. CASE k # n
      BY <3>2, <3>4, <3>5, <3>6, <3>8, <1>1
    <3> QED  BY <3>7, <3>8
  <2>2. \A k, i \in Names : k # i => pool'[k].pages \cap pool'[i].pages = {}
    BY <1>t, <1>1 DEF PoolOK
  <2> QED  BY <2>1, <2>2 DEF PoolOK
<1>6. RefsOK(pt, ref', free', pool')
  BY <1>t, <1>2 DEF RefsOK
<1> QED  BY <1>1, <1>2, <1>3, <1>4, <1>5, <1>6, PoolStep

(* ... and of what is not.                                                  *)
LEMMA GetNew ==
  ASSUME Holding, NEW p \in Procs, state[p] = "live", taken[p] = None,
         NEW n \in Names, NEW len \in 0 .. MaxShmem, pool[n].ref = 0,
         NEW G \in SUBSET free,
         pool' = [pool EXCEPT ![n] = [ref |-> 1, pages |-> G]],
         ref' = [g \in Pages |-> IF g \in G THEN 1 ELSE ref[g]], free' = free \ G,
         taken' = [taken EXCEPT ![p] = [name |-> n, len |-> len]],
         UNCHANGED <<state, pt, brk, maps, shmem, next, panicked>>
  PROVE  IInv'
<1>t. TypeOK /\ RefsOK(pt, ref, free, pool) /\ PoolOK(pool, taken, shmem)
  BY DEF Holding, IInv, Sound
<1>1. /\ \A k \in Names \ {n} : pool'[k] = pool[k]
      /\ pool'[n].ref = 1 /\ pool'[n].pages = G
  BY <1>t DEF TypeOK
<1>2. pool[n].pages = {} /\ Gets(taken, n) = 0 /\ Slotted(shmem, n) = 0
  <2> PICK a \in Nat, b \in Nat : a = Gets(taken, n) /\ b = Slotted(shmem, n)
    BY Counted
  <2> QED  BY Counted
<1>3. \A g : InPool(pool', g) <=> InPool(pool, g) \/ g \in G
  <2>1. ASSUME NEW g, InPool(pool', g) PROVE InPool(pool, g) \/ g \in G
    <3> PICK k \in Names : g \in pool'[k].pages
      BY <2>1 DEF InPool
    <3> QED  BY <1>1 DEF InPool
  <2>2. ASSUME NEW g, InPool(pool, g) PROVE InPool(pool', g)
    <3> PICK k \in Names : g \in pool[k].pages
      BY <2>2 DEF InPool
    <3>1. g \in pool'[k].pages
      BY <1>1, <1>2
    <3> QED  BY <3>1 DEF InPool
  <2>3. ASSUME NEW g \in G PROVE InPool(pool', g)
    BY <1>1 DEF InPool
  <2> QED  BY <2>1, <2>2, <2>3
<1>4. ASSUME NEW g \in G
      PROVE  g \in Pages /\ ~InPool(pool, g) /\ \A q \in Procs, v \in VAs : pt[q][v] # g
  <2>1. g \in Pages /\ g \in free
    BY <1>t DEF TypeOK
  <2>2. ~InPool(pool, g) /\ Uses(pt, g) = 0
    BY <2>1, <1>t DEF RefsOK
  <2>3. ASSUME NEW q \in Procs PROVE \A v \in VAs : pt[q][v] # g
    <3>1. PICK a \in Nat, b \in Nat : a = Others(pt, q)[g] /\ b = Mine(pt[q], g)
      BY <2>1, UsesSplit
    <3>2. a + b = 0
      BY <2>1, <2>2, <3>1, UsesSplit
    <3>3. Mine(pt[q], g) = 0
      BY <3>1, <3>2
    <3> QED  BY <3>3, UsedByMe
  <2> QED  BY <2>1, <2>2, <2>3
<1>5. \A q \in Procs, v \in VAs :
        pt[q][v] # 0 => (InPool(pool', pt[q][v]) <=> InPool(pool, pt[q][v]))
  BY <1>3, <1>4
<1>6. \A q \in Procs, i \in 1 .. NSHMEM, k \in Names :
        shmem[q][i].name = k => pool'[k].pages = pool[k].pages
  BY <1>1, <1>2, NotNamed
<1>7. /\ \A q \in Procs \ {p} : taken'[q] = taken[q]
      /\ taken'[p] = [name |-> n, len |-> len]
  BY <1>t DEF TypeOK
<1>8. TypeOK'
  <2>1. pool' \in [Names -> [ref : Nat, pages : SUBSET Pages]]
    <3>1. [ref |-> 1, pages |-> G] \in [ref : Nat, pages : SUBSET Pages]
      BY <1>4
    <3> QED  BY <3>1, <1>t DEF TypeOK
  <2>2. taken' \in [Procs -> {None} \cup [name : Names, len : 0 .. MaxShmem]]
    BY <1>t DEF TypeOK
  <2>3. ref' \in [Pages -> Nat] /\ free' \subseteq Pages
    BY <1>t DEF TypeOK
  <2> QED  BY <2>1, <2>2, <2>3, <1>t DEF TypeOK
<1>9. PoolOK(pool', taken', shmem)
  <2>1. ASSUME NEW k \in Names
        PROVE  /\ pool'[k].ref >= Gets(taken', k) + Slotted(shmem, k)
               /\ pool'[k].ref = 0 => pool'[k].pages = {}
    <3>1. GetsMove(taken, taken', p, k)
      <4>1. \A q \in Procs \ {p} : taken[q] = taken'[q]
        BY <1>7
      <4> QED  BY <4>1, GetsSplit
    <3>2. PICK j \in Nat : /\ Gets(taken, k) = j + One(taken[p], k)
                           /\ Gets(taken', k) = j + One(taken'[p], k)
      BY <3>1 DEF GetsMove
    <3>3. One(taken[p], k) = 0
      BY DEF One
    <3>4. One(taken'[p], k) \in {0, 1} /\ (k # n => One(taken'[p], k) = 0)
      BY <1>7 DEF One
    <3>5. PICK a \in Nat, s \in Nat : a = pool[k].ref /\ s = Slotted(shmem, k)
      BY Counted
    <3>6. a >= j + s /\ (a = 0 => pool[k].pages = {})
      BY <3>2, <3>3, <3>5, Counted
    <3>7. CASE k = n
      BY <3>2, <3>3, <3>4, <3>5, <3>7, <1>1, <1>2
    <3>8. CASE k # n
      BY <3>2, <3>4, <3>5, <3>6, <3>8, <1>1
    <3> QED  BY <3>7, <3>8
  <2>2. ASSUME NEW k \in Names, NEW i \in Names, k # i
        PROVE  pool'[k].pages \cap pool'[i].pages = {}
    <3>1. \A j \in Names : pool[j].pages \cap G = {}
      BY <1>4 DEF InPool
    <3>2. pool[k].pages \cap pool[i].pages = {}
      BY <1>t, <2>2 DEF PoolOK
    <3> QED  BY <3>1, <3>2, <2>2, <1>1
  <2> QED  BY <2>1, <2>2 DEF PoolOK
<1>10. RefsOK(pt, ref', free', pool')
  <2>1. ASSUME NEW g \in Pages
        PROVE  /\ ref'[g] = IF InPool(pool', g) THEN 1 ELSE Uses(pt, g)
               /\ g \in free' <=> ref'[g] = 0
    <3>1. CASE g \in G
      <4>1. ref'[g] = 1 /\ g \notin free'
        BY <3>1
      <4>2. InPool(pool', g)
        BY <3>1, <1>3
      <4> QED  BY <4>1, <4>2
    <3>2. CASE g \notin G
      <4>1. ref'[g] = ref[g] /\ (g \in free' <=> g \in free)
        BY <3>2
      <4> QED  BY <3>2, <4>1, <1>t, <1>3 DEF RefsOK
    <3> QED  BY <3>1, <3>2
  <2> QED  BY <2>1 DEF RefsOK
<1> QED  BY <1>5, <1>6, <1>7, <1>8, <1>9, <1>10, PoolStep

(* get_shared_mem_by_name(), whether the name is known or not.              *)
LEMMA SharedGetKeeps ==
  ASSUME Holding, NEW p \in Procs, SharedGet(p)
  PROVE  IInv'
<1>1. /\ state[p] = "live" /\ taken[p] = None
      /\ UNCHANGED <<state, pt, brk, maps, shmem, next, panicked>>
  BY DEF SharedGet, Enters
<1>2. PICK n \in Names, len \in 0 .. MaxShmem :
       \/ /\ pool[n].ref > 0
          /\ pool' = [pool EXCEPT ![n].ref = @ + 1]
          /\ taken' = [taken EXCEPT ![p] = [name |-> n, len |-> len]]
          /\ UNCHANGED <<ref, free>>
       \/ /\ pool[n].ref = 0 /\ len <= Cardinality(free)
          /\ LET G == Nearest(free, Stack + 2, len) IN
             /\ pool' = [pool EXCEPT ![n] = [ref |-> 1, pages |-> G]]
             /\ ref' = [g \in Pages |-> IF g \in G THEN 1 ELSE ref[g]]
             /\ free' = free \ G
          /\ taken' = [taken EXCEPT ![p] = [name |-> n, len |-> len]]
  BY DEF SharedGet
<1>G. PICK G : G = Nearest(free, Stack + 2, len)
  OBVIOUS
<1>3. G \in SUBSET free
  BY <1>G DEF Nearest
<1>4. CASE pool[n].ref > 0
  <2>1. pool[n].ref # 0
    BY <1>4, Counted
  <2> QED  BY <1>1, <1>2, <2>1, GetOld
<1>5. CASE pool[n].ref = 0
  BY <1>1, <1>2, <1>3, <1>5, <1>G, GetNew
<1> QED  BY <1>2, <1>4, <1>5

(* sys_sharedmem() that has taken its object.                               *)
LEMMA TakenIs ==
  ASSUME Holding, NEW p \in Procs, taken[p] # None, NEW n, n = taken[p].name
  PROVE  /\ state[p] = "live" /\ n \in Names /\ pool[n].ref > 0
         /\ pool[n].ref >= 1 + Slotted(shmem, n)
<1>1. state[p] = "live"
  BY DEF Holding, IInv, Sound, InvProcs, ProcOK, Gone
<1>2. n \in Names
  BY DEF Holding, IInv, TypeOK
<1>3. One(taken[p], n) = 1
  BY DEF One
<1>4. GetsMove(taken, taken, p, n)
  BY GetsSplit
<1>5. PICK k \in Nat : Gets(taken, n) = k + 1
  BY <1>3, <1>4 DEF GetsMove
<1>6. PICK a \in Nat, s \in Nat : a = pool[n].ref /\ s = Slotted(shmem, n)
  BY <1>2, Counted
<1>7. a >= (k + 1) + s
  BY <1>2, <1>5, <1>6, Counted
<1>8. a > 0 /\ a >= 1 + s
  BY <1>7
<1> QED  BY <1>1, <1>2, <1>6, <1>8

(* ... is done with it, in the counts.                                      *)
LEMMA GivenUp ==
  ASSUME Holding, NEW p \in Procs, taken[p] # None, taken' = [taken EXCEPT ![p] = None],
         NEW k \in Names
  PROVE  /\ Gets(taken', k) \in Nat
         /\ Gets(taken, k) = Gets(taken', k) + IF k = taken[p].name THEN 1 ELSE 0
<1>1. taken'[p] = None /\ \A q \in Procs \ {p} : taken[q] = taken'[q]
  BY DEF Holding, IInv, TypeOK
<1>2. GetsMove(taken, taken', p, k)
  BY <1>1, GetsSplit
<1>3. One(taken'[p], k) = 0 /\ One(taken[p], k) = IF k = taken[p].name THEN 1 ELSE 0
  BY <1>1 DEF One
<1> QED  BY <1>2, <1>3 DEF GetsMove

(* It finds an object of another size and gives it back.                    *)
LEMMA MapDrop ==
  ASSUME Holding, NEW p \in Procs, taken[p] # None, NEW n, n = taken[p].name,
         pool' = [pool EXCEPT ![n] = Drop(n, 1)],
         Commit(p, Recycle(View(p), DropFrees(n, 1))),
         taken' = [taken EXCEPT ![p] = None], UNCHANGED <<state, brk, shmem, next>>
  PROVE  IInv'
<1>m. PICK m : m = View(p)
  OBVIOUS
<1>G. PICK G : G = DropFrees(n, 1)
  OBVIOUS
<1>r. PICK r : r = Recycle(m, G)
  OBVIOUS
<1>o. PICK o : o = Others(pt, m.who)
  OBVIOUS
<1>t. TypeOK /\ RefsOK(pt, ref, free, pool) /\ PoolOK(pool, taken, shmem)
  BY DEF Holding, IInv, Sound
<1>n. n \in Names /\ state[p] = "live"
  BY TakenIs
<1>a. PICK a \in Nat, s \in Nat :
        a = pool[n].ref /\ s = Slotted(shmem, n) /\ a >= 1 + s /\ a > 0
  BY <1>n, Counted, TakenIs
<1>1. /\ G \subseteq pool[n].pages /\ pool'[n].ref = a - 1
      /\ pool'[n].pages = pool[n].pages \ G
      /\ pool'[n] \in [ref : Nat, pages : SUBSET Pages]
      /\ (a - 1 = 0 => pool'[n].pages = {})
      /\ (G # {} => s = 0)
  <2>1. CASE a > 1
    <3>1. G = {}
      BY <2>1, <1>G, <1>a DEF DropFrees
    <3>2. pool'[n] = [pool[n] EXCEPT !.ref = @ - 1]
      BY <2>1, <1>a, <1>n, <1>t DEF Drop, TypeOK
    <3>3. pool[n] \in [ref : Nat, pages : SUBSET Pages] /\ a - 1 \in Nat
      BY <2>1, <1>a, <1>n, <1>t DEF TypeOK
    <3> QED  BY <2>1, <3>1, <3>2, <3>3, <1>a
  <2>2. CASE ~(a > 1)
    <3>1. a = 1 /\ s = 0
      BY <2>2, <1>a
    <3>2. G = pool[n].pages
      BY <3>1, <1>G, <1>a DEF DropFrees
    <3>3. pool'[n] = [ref |-> 0, pages |-> {}]
      BY <2>2, <1>a, <1>n, <1>t DEF Drop, TypeOK
    <3> QED  BY <3>1, <3>2, <3>3
  <2> QED  BY <2>1, <2>2
<1>2. \A k \in Names \ {n} : pool'[k] = pool[k]
  BY <1>n, <1>t DEF TypeOK
<1>3. \A k \in Names : pool'[k].pages = pool[k].pages \ G
  <2>1. \A k \in Names \ {n} : pool[n].pages \cap pool[k].pages = {}
    BY <1>n, Counted
  <2> QED  BY <2>1, <1>1, <1>2
<1>4. \A g : InPool(pool', g) <=> InPool(pool, g) /\ g \notin G
  BY <1>3 DEF InPool
<1>5. /\ \A q \in Procs, v \in VAs : pt[q][v] \notin G
      /\ \A q \in Procs, i \in 1 .. NSHMEM, k \in Names :
           shmem[q][i].name = k => pool'[k].pages = pool[k].pages
  <2>1. CASE G = {}
    BY <2>1, <1>3
  <2>2. CASE G # {}
    <3>1. /\ \A q \in Procs, i \in 1 .. NSHMEM : shmem[q][i].name # n
          /\ \A q \in Procs, v \in VAs : pt[q][v] \notin pool[n].pages
      BY <2>2, <1>1, <1>a, <1>n, NotNamed
    <3> QED  BY <3>1, <1>1, <1>2
  <2> QED  BY <2>1, <2>2
<1>6. /\ m \in ViewRec /\ m.who = p /\ m.maps = maps[p] /\ m.tab = pt[p] /\ m.ok = TRUE
      /\ Books(m, pool, o)
  BY <1>m, <1>o, ViewIs
<1>7. Recycled(m, r, pool', o)
  <2>1. G \in SUBSET Pages
    BY <1>1, <1>n, Counted
  <2>2. \A g \in Pages : InPool(pool', g) <=> InPool(pool, g) /\ g \notin G
    BY <1>4
  <2>3. \A g \in G, q \in Procs \ {m.who}, v \in VAs : pt[q][v] # g
    BY <1>5
  <2>4. \A g \in G, v \in VAs : m.tab[v] # g
    BY <1>5, <1>6
  <2>5. m \in ViewRec /\ Books(m, pool, o)
    BY <1>6
  <2> QED  BY ONLY <2>1, <2>2, <2>3, <2>4, <2>5, <1>r, <1>o, RecycleIs
<1>8. /\ r \in ViewRec /\ r.maps = maps[p] /\ r.tab = pt[p] /\ r.ok = TRUE
      /\ Books(r, pool', Others(pt, p))
  BY <1>6, <1>7, <1>o DEF Recycled
<1>9. /\ ref' = r.ref /\ free' = r.free /\ panicked' = FALSE
      /\ pt' = [pt EXCEPT ![p] = r.tab] /\ maps' = [maps EXCEPT ![p] = r.maps]
  BY <1>8, <1>r, <1>m, <1>G DEF Commit
<1>10. pt' = pt /\ maps' = maps
  BY <1>8, <1>9, <1>t DEF TypeOK
<1>11. RefsOK(pt, ref', free', pool')
  BY <1>8, <1>9, BooksRefs
<1>12. /\ \A q \in Procs \ {p} : taken'[q] = taken[q]
       /\ taken' \in [Procs -> {None} \cup [name : Names, len : 0 .. MaxShmem]]
  BY <1>t DEF TypeOK
<1>13. TypeOK'
  <2>1. ref' \in [Pages -> Nat] /\ free' \subseteq Pages
    BY <1>8, <1>9 DEF ViewRec
  <2>2. pool' \in [Names -> [ref : Nat, pages : SUBSET Pages]]
    BY <1>1, <1>n, <1>t DEF TypeOK
  <2> QED  BY <2>1, <2>2, <1>9, <1>10, <1>12, <1>t DEF TypeOK
<1>14. PoolOK(pool', taken', shmem)
  <2>1. ASSUME NEW k \in Names
        PROVE  /\ pool'[k].ref >= Gets(taken', k) + Slotted(shmem, k)
               /\ pool'[k].ref = 0 => pool'[k].pages = {}
    <3>1. PICK j \in Nat : /\ Gets(taken', k) = j
                           /\ Gets(taken, k) = j + IF k = n THEN 1 ELSE 0
      BY GivenUp
    <3>2. PICK b \in Nat, i \in Nat : b = pool[k].ref /\ i = Slotted(shmem, k)
      BY Counted
    <3>3. b >= (j + IF k = n THEN 1 ELSE 0) + i /\ (b = 0 => pool[k].pages = {})
      BY <3>1, <3>2, Counted
    <3>4. CASE k = n
      <4>1. pool'[k].ref = b - 1 /\ b >= (j + 1) + i
        BY <3>2, <3>3, <3>4, <1>1, <1>a
      <4> QED  BY <3>1, <3>2, <3>4, <4>1, <1>1
    <3>5. CASE k # n
      <4>1. pool'[k] = pool[k] /\ b >= j + i
        BY <3>3, <3>5, <1>2
      <4> QED  BY <3>1, <3>2, <3>3, <4>1
    <3> QED  BY <3>4, <3>5
  <2>2. \A k, i \in Names : k # i => pool'[k].pages \cap pool'[i].pages = {}
    BY <1>t, <1>3 DEF PoolOK
  <2> QED  BY <2>1, <2>2 DEF PoolOK
<1>15. \A q \in Procs, v \in VAs :
         pt[q][v] # 0 => (InPool(pool', pt[q][v]) <=> InPool(pool, pt[q][v]))
  BY <1>4, <1>5
<1> QED  BY <1>5, <1>10, <1>11, <1>12, <1>13, <1>14, <1>15, <1>n, PoolStep

(* It finds no slot left and goes, without giving the object back.          *)
LEMMA MapFull ==
  ASSUME Holding, NEW p \in Procs, taken[p] # None, taken' = [taken EXCEPT ![p] = None],
         UNCHANGED <<state, ref, free, pt, brk, maps, shmem, next, pool, panicked>>
  PROVE  IInv'
<1>t. TypeOK /\ RefsOK(pt, ref, free, pool) /\ PoolOK(pool, taken, shmem)
  BY DEF Holding, IInv, Sound
<1>n. PICK n : n = taken[p].name
  OBVIOUS
<1>1. /\ \A q \in Procs \ {p} : taken'[q] = taken[q]
      /\ taken' \in [Procs -> {None} \cup [name : Names, len : 0 .. MaxShmem]]
  BY <1>t DEF TypeOK
<1>2. TypeOK'
  BY <1>1, <1>t DEF TypeOK
<1>3. PoolOK(pool', taken', shmem)
  <2>1. ASSUME NEW k \in Names PROVE pool[k].ref >= Gets(taken', k) + Slotted(shmem, k)
    <3>1. PICK j \in Nat, i \in {0, 1} : Gets(taken', k) = j /\ Gets(taken, k) = j + i
      BY GivenUp
    <3>2. PICK b \in Nat, s \in Nat : b = pool[k].ref /\ s = Slotted(shmem, k)
      BY Counted
    <3>3. b >= (j + i) + s
      BY <3>1, <3>2, Counted
    <3> QED  BY <3>1, <3>2, <3>3
  <2> QED  BY <2>1, <1>t DEF PoolOK
<1>4. state[p] = "live"
  BY <1>n, TakenIs
<1>5. RefsOK(pt, ref', free', pool')
  BY <1>t
<1> QED  BY <1>1, <1>2, <1>3, <1>4, <1>5, PoolStep

Empties(p) == {i \in 1 .. NSHMEM : shmem[p][i].name = None}
InOrder(S, V) == [v \in V |-> Nth(S, Rank(V, v))]

(* It maps the pages of the object at the next address.                     *)
LEMMA MapPut ==
  ASSUME Holding, NEW p \in Procs, taken[p] # None, NEW n, n = taken[p].name,
         NEW count, count = Cardinality(pool[n].pages),
         NEW empty, empty = Empties(p), empty # {},
         next[p] + count <= NVA + 1, NEW V, V = Range1(next[p], count),
         NEW page, page = InOrder(pool[n].pages, V),
         pt' = [pt EXCEPT ![p] = Patched(pt[p], V, page)],
         panicked' = \E v \in V : pt[p][v] # 0,
         shmem' = [shmem EXCEPT ![p][Min(empty)] = [name |-> n, start |-> next[p]]],
         next' = [next EXCEPT ![p] = @ + count + 1],
         taken' = [taken EXCEPT ![p] = None],
         UNCHANGED <<state, brk, ref, free, maps, pool>>
  PROVE  IInv'
<1>t. TypeOK /\ RefsOK(pt, ref, free, pool) /\ PoolOK(pool, taken, shmem)
  BY DEF Holding, IInv, Sound
<1>n. n \in Names /\ state[p] = "live" /\ n # None
  BY TakenIs, Consts
<1>S. PICK S \in SUBSET Pages : S = pool[n].pages
  BY <1>n, Counted
<1>c. count \in Nat /\ IsFiniteSet(S) /\ count = Cardinality(S)
  BY <1>S, Finite, FS_Subset, FS_CardinalityType
<1>a. PICK a \in Nat : a = next[p]
  BY Consts, <1>t DEF TypeOK
<1>1. /\ V \in SUBSET VAs /\ IsFiniteSet(V) /\ Cardinality(V) = count
      /\ V \in SUBSET Nat /\ a <= NVA + 1 /\ a + count + 1 <= NVA + 2
  <2>1. V = Range1(a, count) /\ a + count <= NVA + 1
    BY <1>a
  <2>2. /\ IsFiniteSet(V) /\ Cardinality(V) = count
        /\ \A v : v \in V <=> v \in Nat /\ a <= v /\ v < a + count
    BY <2>1, <1>c, Range1Is
  <2>3. \A v \in V : v \in 0 .. NVA
    BY <2>1, <2>2, <1>c, Consts
  <2> QED  BY <2>1, <2>2, <2>3, <1>c, Consts DEF VAs
<1>2. ASSUME NEW v \in V PROVE page[v] \in S
  <2>1. Rank(V, v) \in Nat /\ Rank(V, v) < Cardinality(V)
    BY <1>1, RankGrows
  <2>2. Rank(V, v) < Cardinality(S)
    BY <2>1, <1>1, <1>c
  <2>3. S \in SUBSET Nat
    BY Consts
  <2>4. Nth(S, Rank(V, v)) \in S
    BY <2>1, <2>2, <2>3, <1>c, NthIs
  <2> QED  BY <2>4, <1>S DEF InOrder
<1>i. PICK i0 \in 1 .. NSHMEM : i0 = Min(empty) /\ shmem[p][i0].name = None
  <2>1. empty \in SUBSET Nat
    BY DEF Empties
  <2>2. Min(empty) \in empty
    BY <2>1, MinIsIn
  <2> QED  BY <2>2 DEF Empties
<1>x. PICK x : x = [name |-> n, start |-> a]
  OBVIOUS
<1>T. PICK t : t = [v \in VAs |-> IF v \in V THEN page[v] ELSE pt[p][v]]
  OBVIOUS
<1>3. /\ pt' = [pt EXCEPT ![p] = t] /\ pt'[p] = t
      /\ \A q \in Procs \ {p} : pt'[q] = pt[q]
      /\ \A v \in VAs : t[v] = IF v \in V THEN page[v] ELSE pt[p][v]
  BY <1>t, <1>T DEF TypeOK, Patched
<1>s. PICK sl : sl = [shmem[p] EXCEPT ![i0] = x]
  OBVIOUS
<1>4. /\ shmem' = [shmem EXCEPT ![p] = sl] /\ shmem'[p] = sl
      /\ \A q \in Procs \ {p} : shmem'[q] = shmem[q]
      /\ sl[i0] = x /\ \A i \in 1 .. NSHMEM : i # i0 => sl[i] = shmem[p][i]
  BY <1>t, <1>i, <1>a, <1>x, <1>s DEF TypeOK
<1>5. /\ taken'[p] = None /\ \A q \in Procs \ {p} : taken'[q] = taken[q]
      /\ taken' \in [Procs -> {None} \cup [name : Names, len : 0 .. MaxShmem]]
  BY <1>t DEF TypeOK
<1>6. TypeOK'
  <2>1. pt' \in [Procs -> [VAs -> 0 .. NPages]]
    <3>1. t \in [VAs -> 0 .. NPages]
      <4>1. \A v \in V : page[v] \in 0 .. NPages
        BY <1>2, Consts
      <4>2. pt[p] \in [VAs -> 0 .. NPages]
        BY <1>t DEF TypeOK
      <4> QED  BY <4>1, <4>2, <1>T
    <3> QED  BY <3>1, <1>3, <1>t DEF TypeOK
  <2>2. shmem' \in [Procs -> [1 .. NSHMEM ->
                              [name : Names \cup {None}, start : 0 .. NVA + 1]]]
    <3>0. a <= NVA + 1 /\ NVA \in Nat
      BY <1>1, Consts
    <3>1. a \in 0 .. NVA + 1
      BY <3>0
    <3>2. x \in [name : Names \cup {None}, start : 0 .. NVA + 1]
      BY <3>1, <1>n, <1>x
    <3>3. sl \in [1 .. NSHMEM -> [name : Names \cup {None}, start : 0 .. NVA + 1]]
      BY <3>2, <1>s, <1>t DEF TypeOK
    <3> QED  BY <3>3, <1>4, <1>t DEF TypeOK
  <2>3. next' \in [Procs -> 0 .. NVA + 2]
    <3>1. a + count + 1 \in 0 .. NVA + 2
      BY <1>1, <1>c, Consts
    <3> QED  BY <3>1, <1>a, <1>t DEF TypeOK
  <2>4. panicked' \in BOOLEAN
    OBVIOUS
  <2> QED  BY <2>1, <2>2, <2>3, <2>4, <1>5, <1>t DEF TypeOK
<1>7. CASE \E v \in V : pt[p][v] # 0
  BY <1>6, <1>7 DEF IInv
<1>8. CASE \A v \in V : pt[p][v] = 0
  <2>l. /\ \A v \in OwnOf(brk[p], maps[p]) \cap VAs :
             pt[p][v] # 0 /\ ~InPool(pool, pt[p][v])
        /\ \A v \in VAs \ OwnOf(brk[p], maps[p]) :
             pt[p][v] # 0 => /\ Covers(shmem[p], pool, v, pt[p][v])
                             /\ InPool(pool, pt[p][v])
        /\ MapsOK(maps[p]) /\ ImageOf(brk[p]) \cap MappedBy(maps[p]) = {}
        /\ brk[p] < Stack
    BY <1>n, LiveIs
  <2>1. \A v \in V : InPool(pool, t[v]) /\ Covers(sl, pool, v, t[v])
    <3> SUFFICES ASSUME NEW v \in V PROVE InPool(pool, t[v]) /\ Covers(sl, pool, v, t[v])
      OBVIOUS
    <3>1. t[v] \in pool[n].pages
      BY <1>1, <1>2, <1>3, <1>S
    <3>2. v \in Range1(sl[i0].start, Cardinality(pool[n].pages)) /\ sl[i0].name = n
      BY <1>4, <1>x, <1>a
    <3> QED  BY <3>1, <3>2, <1>n DEF InPool, Covers
  <2>2. \A v, g : Covers(shmem[p], pool, v, g) => Covers(sl, pool, v, g)
    <3> SUFFICES ASSUME NEW v, NEW g, Covers(shmem[p], pool, v, g)
                 PROVE  Covers(sl, pool, v, g)
      OBVIOUS
    <3> PICK i \in 1 .. NSHMEM, k \in Names :
               /\ shmem[p][i].name = k /\ g \in pool[k].pages
               /\ v \in Range1(shmem[p][i].start, Cardinality(pool[k].pages))
      BY DEF Covers
    <3>1. i # i0
      BY <1>i, Consts
    <3>2. sl[i] = shmem[p][i]
      BY <3>1, <1>4
    <3> QED  BY <3>2 DEF Covers
  <2>3. Agree(t, OwnOf(brk[p], maps[p]), sl, pool)
    BY <1>3, <1>8, <2>l, <2>1, <2>2 DEF Agree
  <2>4. ProcOK(state'[p], pt'[p], brk'[p], maps'[p], shmem'[p], taken'[p], pool')
    BY <2>3, <2>l, <1>3, <1>4, <1>n DEF ProcOK, Live
  <2>5. ASSUME NEW k \in Names
        PROVE  pool'[k].ref >= Gets(taken', k) + Slotted(shmem', k)
    <3> DEFINE A == {i \in 1 .. NSHMEM : shmem[p][i].name = k}
               B == {i \in 1 .. NSHMEM : sl[i].name = k}
    <3>1. i0 \notin A /\ B = IF k = n THEN A \cup {i0} ELSE A
      <4>1. k # None /\ sl[i0].name = n
        BY <1>4, <1>x, Consts
      <4>2. i0 \notin A
        BY <4>1, <1>i
      <4>3. \A i \in 1 .. NSHMEM : i # i0 => (i \in A <=> i \in B)
        BY <1>4
      <4>4. i0 \in B <=> k = n
        BY <4>1
      <4>5. A \subseteq 1 .. NSHMEM /\ B \subseteq 1 .. NSHMEM
        OBVIOUS
      <4> HIDE DEF A, B
      <4>6. \A i : i \in B <=> i \in A \/ (i = i0 /\ k = n)
        BY <4>2, <4>3, <4>4, <4>5
      <4>7. CASE k = n
        BY <4>2, <4>6, <4>7
      <4>8. CASE k # n
        BY <4>2, <4>6, <4>8
      <4> QED  BY <4>7, <4>8
    <3>2. HoldsIn(shmem[p], k) = Cardinality(A) /\ HoldsIn(shmem'[p], k) = Cardinality(B)
      BY <1>4 DEF HoldsIn
    <3>3. IsFiniteSet(A)
      BY Finite, FS_Subset
    <3> HIDE DEF A, B
    <3>4. Cardinality(A) \in Nat /\ Cardinality(A \cup {i0}) = Cardinality(A) + 1
      BY <3>1, <3>3, FS_AddElement, FS_CardinalityType
    <3>5. PICK d \in {0, 1} : d = IF k = n THEN 1 ELSE 0
      OBVIOUS
    <3>6. HoldsIn(shmem'[p], k) = HoldsIn(shmem[p], k) + d
      <4>1. CASE k = n
        BY <4>1, <3>1, <3>2, <3>4, <3>5
      <4>2. CASE k # n
        BY <4>2, <3>1, <3>2, <3>4, <3>5
      <4> QED  BY <4>1, <4>2
    <3>7. SlotsMove(shmem, shmem', p, k)
      <4>1. \A q \in Procs \ {p} : shmem[q] = shmem'[q]
        BY <1>4
      <4> QED  BY <4>1, SlotsSplit
    <3>8. Slotted(shmem', k) = Slotted(shmem, k) + d
      BY <3>5, <3>6, <3>7 DEF SlotsMove
    <3>9. PICK j \in Nat : Gets(taken', k) = j /\ Gets(taken, k) = j + d
      BY <3>5, GivenUp
    <3>10. PICK b \in Nat, s \in Nat : b = pool[k].ref /\ s = Slotted(shmem, k)
      BY Counted
    <3>11. b >= (j + d) + s
      BY <3>9, <3>10, Counted
    <3>12. pool'[k].ref = b /\ Gets(taken', k) = j /\ Slotted(shmem', k) = s + d
      BY <3>8, <3>9, <3>10
    <3>13. b >= j + (s + d)
      BY <3>5, <3>11
    <3> QED  BY <3>12, <3>13
  <2>6. PoolOK(pool', taken', shmem')
    BY <2>5, <1>t DEF PoolOK
  <2>7. Keeps(pt, shmem, pool, pool', p)
    BY KeepsSame
  <2>8. RefsOK(pt', ref', free', pool')
    <3>1. Books(View(p), pool, Others(pt, p)) /\ View(p).ref = ref /\ View(p).free = free
          /\ View(p).tab = pt[p] /\ View(p).who = p
      BY ViewIs
    <3>2. ASSUME NEW g \in Pages, ~InPool(pool, g) PROVE Mine(t, g) = Mine(pt[p], g)
      <4>1. g # 0
        BY Consts
      <4>2. {v \in VAs : t[v] = g} = {v \in VAs : pt[p][v] = g}
        <5>1. ASSUME NEW v \in V PROVE t[v] # g /\ pt[p][v] # g
          BY <4>1, <3>2, <2>1, <1>8
        <5>2. \A v \in VAs \ V : t[v] = pt[p][v]
          BY <1>3
        <5> QED  BY <5>1, <5>2
      <4> QED  BY <4>2 DEF Mine
    <3>3. PICK m : m = [ref |-> ref, free |-> free, tab |-> t]
      OBVIOUS
    <3>4. m.ref = ref /\ m.free = free /\ m.tab = t
      BY <3>3
    <3>5. Books(m, pool, Others(pt, p))
      BY <3>1, <3>2, <3>4 DEF Books
    <3>6. \A q \in Procs \ {p} : pt[q] = pt'[q]
      BY <1>3
    <3>7. m.tab = pt'[p]
      BY <3>4, <1>3
    <3>8. RefsOK(pt', m.ref, m.free, pool)
      BY <3>5, <3>6, <3>7, BooksRefs
    <3> QED  BY <3>4, <3>8
  <2>9. \A v \in VAs : EntryOK(pt, maps, pool, pool', p, pt'[p], maps'[p], v)
    BY <1>3, <2>1, <2>l DEF EntryOK
  <2>10. Elsewhere(p)
    BY <1>3, <1>4, <1>5 DEF Elsewhere
  <2> QED  BY <1>6, <2>4, <2>6, <2>7, <2>8, <2>9, <2>10, Step
<1> QED  BY <1>7, <1>8

(* sys_sharedmem() after that, whichever way it ends.                       *)
LEMMA SharedMapKeeps ==
  ASSUME Holding, NEW p \in Procs, SharedMap(p)
  PROVE  IInv'
<1>n. PICK n : n = taken[p].name
  OBVIOUS
<1>c. PICK count : count = Cardinality(pool[n].pages)
  OBVIOUS
<1>e. PICK empty : empty = Empties(p)
  OBVIOUS
<1>V. PICK V : V = Range1(next[p], count)
  OBVIOUS
<1>p. PICK page : page = InOrder(pool[n].pages, V)
  OBVIOUS
<1>1. /\ taken[p] # None /\ taken' = [taken EXCEPT ![p] = None]
      /\ UNCHANGED <<state, brk>>
  BY DEF SharedMap
<1>2. \/ /\ pool' = [pool EXCEPT ![n] = Drop(n, 1)]
         /\ Commit(p, Recycle(View(p), DropFrees(n, 1)))
         /\ UNCHANGED <<shmem, next>>
      \/ UNCHANGED <<ref, free, pt, maps, panicked, shmem, next, pool>>
      \/ /\ empty # {} /\ next[p] + count <= NVA + 1
         /\ pt' = [pt EXCEPT ![p] = Patched(pt[p], V, page)]
         /\ panicked' = \E v \in V : pt[p][v] # 0
         /\ shmem' = [shmem EXCEPT ![p][Min(empty)] = [name |-> n, start |-> next[p]]]
         /\ next' = [next EXCEPT ![p] = @ + count + 1]
         /\ UNCHANGED <<ref, free, maps, pool>>
  BY <1>n, <1>c, <1>e, <1>V, <1>p DEF SharedMap, Patched, InOrder, Empties
<1>3. CASE /\ pool' = [pool EXCEPT ![n] = Drop(n, 1)]
           /\ Commit(p, Recycle(View(p), DropFrees(n, 1)))
           /\ UNCHANGED <<shmem, next>>
  BY <1>1, <1>3, <1>n, MapDrop
<1>4. CASE UNCHANGED <<ref, free, pt, maps, panicked, shmem, next, pool>>
  BY <1>1, <1>4, MapFull
<1>5. CASE
      /\ empty # {} /\ next[p] + count <= NVA + 1
      /\ pt' = [pt EXCEPT ![p] = Patched(pt[p], V, page)]
      /\ panicked' = \E v \in V : pt[p][v] # 0
      /\ shmem' = [shmem EXCEPT ![p][Min(empty)] = [name |-> n, start |-> next[p]]]
      /\ next' = [next EXCEPT ![p] = @ + count + 1]
      /\ UNCHANGED <<ref, free, maps, pool>>
  BY <1>1, <1>5, <1>n, <1>c, <1>e, <1>V, <1>p, MapPut
<1> QED  BY <1>2, <1>3, <1>4, <1>5

(* What becomes of a shared memory when p gives up its slots: x is the      *)
(* object afterwards, d the pages that are given back.                      *)
Dropped(p, n, x, d) ==
  /\ x \in [ref : Nat, pages : SUBSET Pages] /\ d \subseteq pool[n].pages
  /\ x.pages = pool[n].pages \ d
  /\ HoldsIn(shmem[p], n) \in Nat /\ pool[n].ref = x.ref + HoldsIn(shmem[p], n)
  /\ x.ref = 0 => x.pages = {}
  /\ d # {} => Slotted(shmem, n) = HoldsIn(shmem[p], n)

(* drop_shared_mem() for every slot of p that has a shared memory.          *)
LEMMA DroppedIs ==
  ASSUME Holding, NEW p \in Procs, NEW n \in Names,
         NEW x, x = IF Holds(p, n) > 0 THEN Drop(n, Holds(p, n)) ELSE pool[n],
         NEW d, d = DropFrees(n, Holds(p, n))
  PROVE  Dropped(p, n, x, d)
<1>1. SlotsMove(shmem, shmem, p, n)
  BY SlotsSplit
<1>2. PICK k \in Nat, h \in Nat : h = HoldsIn(shmem[p], n) /\ Slotted(shmem, n) = k + h
  BY <1>1 DEF SlotsMove
<1>3. Holds(p, n) = h
  BY <1>2 DEF Holds, HoldsIn
<1>4. PICK a \in Nat, g \in Nat : a = pool[n].ref /\ g = Gets(taken, n) /\ a >= g + (k + h)
  BY <1>2, Counted
<1>5. pool[n] \in [ref : Nat, pages : SUBSET Pages] /\ (a = 0 => pool[n].pages = {})
  BY <1>4, Counted DEF Holding, IInv, TypeOK
<1>6. CASE h = 0
  <2>1. x = pool[n] /\ d = {}
    BY <1>3, <1>6 DEF DropFrees
  <2> QED  BY <2>1, <1>2, <1>4, <1>5, <1>6 DEF Dropped
<1>7. CASE h > 0 /\ a > h
  <2>1. d = {}
    BY <1>3, <1>4, <1>7 DEF DropFrees
  <2>2. x = [pool[n] EXCEPT !.ref = a - h]
    BY <1>3, <1>4, <1>5, <1>7 DEF Drop
  <2>3. a - h \in Nat /\ a = (a - h) + h /\ a - h # 0
    BY <1>7
  <2>4. x \in [ref : Nat, pages : SUBSET Pages] /\ x.ref = a - h /\ x.pages = pool[n].pages
    BY <2>2, <2>3, <1>5
  <2> QED  BY <2>1, <2>3, <2>4, <1>2, <1>4 DEF Dropped
<1>8. CASE h > 0 /\ ~(a > h)
  <2>1. a = h /\ k = 0
    BY <1>4, <1>8
  <2>2. d = pool[n].pages
    BY <2>1, <1>3, <1>4, <1>8 DEF DropFrees
  <2>3. x = [ref |-> 0, pages |-> {}]
    BY <1>3, <1>4, <1>8 DEF Drop
  <2>4. x \in [ref : Nat, pages : SUBSET Pages] /\ x.ref = 0 /\ x.pages = {}
    BY <2>3
  <2>5. HoldsIn(shmem[p], n) = h /\ pool[n].ref = 0 + h /\ Slotted(shmem, n) = h
    BY <2>1, <1>2, <1>4
  <2> QED  BY <2>2, <2>4, <2>5 DEF Dropped
<1> QED  BY <1>6, <1>7, <1>8

(* The pool afterwards: pages G are given back.                             *)
PoolLeft(p, G) ==
  /\ G \in SUBSET Pages /\ \A g \in G : InPool(pool, g)
  /\ \A g : InPool(pool', g) <=> InPool(pool, g) /\ g \notin G
  /\ \A q \in Procs \ {p}, v \in VAs : pt[q][v] \notin G
  /\ PoolOK(pool', taken', shmem') /\ Keeps(pt, shmem, pool, pool', p)
  /\ pool' \in [Names -> [ref : Nat, pages : SUBSET Pages]]

(* Nobody else loses a page, and what is left is counted.                   *)
LEMMA PoolLeftIs ==
  ASSUME Holding, NEW p \in Procs,
         pool' = [n \in Names |-> IF Holds(p, n) > 0 THEN Drop(n, Holds(p, n)) ELSE pool[n]],
         shmem' = [shmem EXCEPT ![p] = NoShmem], UNCHANGED taken,
         NEW G, G = UNION {DropFrees(n, Holds(p, n)) : n \in Names}
  PROVE  PoolLeft(p, G)
<1>d. PICK d : d = [n \in Names |-> DropFrees(n, Holds(p, n))]
  OBVIOUS
<1>1. ASSUME NEW n \in Names PROVE Dropped(p, n, pool'[n], d[n])
  BY <1>d, DroppedIs
<1>2. \A n \in Names :
        /\ pool'[n] \in [ref : Nat, pages : SUBSET Pages] /\ d[n] \subseteq pool[n].pages
        /\ pool'[n].pages = pool[n].pages \ d[n]
        /\ d[n] # {} => Slotted(shmem, n) = HoldsIn(shmem[p], n)
  BY <1>1 DEF Dropped
<1>3. \A g : g \in G <=> \E n \in Names : g \in d[n]
  BY <1>d
<1>4. \A n, k \in Names : n # k => pool[n].pages \cap pool[k].pages = {}
  BY DEF Holding, IInv, Sound, PoolOK
<1>5. \A n \in Names : pool'[n].pages = pool[n].pages \ G
  <2> SUFFICES ASSUME NEW n \in Names, NEW g \in pool[n].pages
               PROVE  g \in G <=> g \in d[n]
    BY <1>2, <1>3
  <2>1. ASSUME NEW k \in Names, g \in d[k] PROVE k = n
    BY <2>1, <1>2, <1>4
  <2> QED  BY <2>1, <1>3
<1>6. \A g : InPool(pool', g) <=> InPool(pool, g) /\ g \notin G
  BY <1>5 DEF InPool
<1>7. G \in SUBSET Pages /\ \A g \in G : InPool(pool, g)
  <2>1. \A n \in Names : pool[n].pages \subseteq Pages
    BY DEF Holding, IInv, TypeOK
  <2> QED  BY <2>1, <1>2, <1>3 DEF InPool
<1>8. ASSUME NEW q \in Procs \ {p}, NEW n \in Names, d[n] # {}
      PROVE  \A i \in 1 .. NSHMEM : shmem[q][i].name # n
  <2> SUFFICES ASSUME NEW i \in 1 .. NSHMEM, shmem[q][i].name = n PROVE FALSE
    OBVIOUS
  <2>1. Slotted(shmem, n) > HoldsIn(shmem[p], n)
    BY SlotCounts
  <2>2. Slotted(shmem, n) = HoldsIn(shmem[p], n) /\ HoldsIn(shmem[p], n) \in Nat
    BY <1>1, <1>8 DEF Dropped
  <2> QED  BY <2>1, <2>2
<1>9. ASSUME NEW q \in Procs \ {p}, NEW v \in VAs, NEW n \in Names
      PROVE  pt[q][v] \notin d[n]
  <2>1. CASE d[n] = {}
    BY <2>1
  <2>2. CASE d[n] # {}
    <3>1. pt[q][v] \notin pool[n].pages
      BY <2>2, <1>8, Unnamed
    <3> QED  BY <3>1, <1>2
  <2> QED  BY <2>1, <2>2
<1>10. \A q \in Procs \ {p}, v \in VAs : pt[q][v] \notin G
  BY <1>3, <1>9
<1>11. ASSUME NEW q \in Procs \ {p}, NEW i \in 1 .. NSHMEM, NEW n \in Names,
              shmem[q][i].name = n
       PROVE  pool'[n].pages = pool[n].pages
  <2>1. d[n] = {}
    BY <1>8, <1>11
  <2> QED  BY <2>1, <1>2
<1>12. Keeps(pt, shmem, pool, pool', p)
  BY <1>6, <1>10, <1>11 DEF Keeps
<1>13. ASSUME NEW n \in Names
       PROVE  /\ pool'[n].ref >= Gets(taken', n) + Slotted(shmem', n)
              /\ pool'[n].ref = 0 => pool'[n].pages = {}
  <2>1. shmem'[p] = NoShmem /\ \A q \in Procs \ {p} : shmem[q] = shmem'[q]
    BY DEF Holding, IInv, TypeOK
  <2>2. SlotsMove(shmem, shmem', p, n)
    BY <2>1, SlotsSplit
  <2>3. HoldsIn(NoShmem, n) = 0
    <3>1. {i \in 1 .. NSHMEM : NoShmem[i].name = n} = {}
      BY Consts DEF NoShmem
    <3> QED  BY <3>1, FS_EmptySet DEF HoldsIn
  <2>4. PICK k \in Nat : /\ Slotted(shmem, n) = k + HoldsIn(shmem[p], n)
                         /\ Slotted(shmem', n) = k + 0
    BY <2>1, <2>2, <2>3 DEF SlotsMove
  <2>5. PICK h \in Nat, x \in Nat : /\ h = HoldsIn(shmem[p], n) /\ x = pool'[n].ref
                                    /\ pool[n].ref = x + h
                                    /\ (x = 0 => pool'[n].pages = {})
    BY <1>1 DEF Dropped
  <2>6. PICK g \in Nat : g = Gets(taken, n) /\ x + h >= g + (k + h)
    BY <2>4, <2>5, Counted
  <2>7. x >= g + (k + 0)
    BY <2>6
  <2> QED  BY <2>4, <2>5, <2>6, <2>7
<1>14. PoolOK(pool', taken', shmem')
  <2>1. \A n, k \in Names : n # k => pool'[n].pages \cap pool'[k].pages = {}
    BY <1>4, <1>5
  <2> QED  BY <2>1, <1>13 DEF PoolOK
<1>15. pool' \in [Names -> [ref : Nat, pages : SUBSET Pages]]
  BY <1>2
<1> QED  BY <1>6, <1>7, <1>10, <1>12, <1>14, <1>15 DEF PoolLeft

(* proc_free_mem_and_pagetable(): nothing of the process is left.           *)
LEMMA FreeKeeps ==
  ASSUME Holding, NEW p \in Procs, state[p] = "live", taken[p] = None,
         NEW then \in {"unused", "loading"}, FreeMem(p, then)
  PROVE  IInv'
<1>V. PICK V : V = ShmemVAs(p)
  OBVIOUS
<1>G. PICK G : G = UNION {DropFrees(n, Holds(p, n)) : n \in Names}
  OBVIOUS
<1>W. PICK W : W = Image(p) \cup MappedBy(maps[p])
  OBVIOUS
<1>m. PICK m : m = View(p)
  OBVIOUS
<1>c. PICK c : c = Clear(m, V)
  OBVIOUS
<1>e. PICK e : e = Recycle(c, G)
  OBVIOUS
<1>s. PICK s : s = Unmap(e, W)
  OBVIOUS
<1>b. PICK b \in BOOLEAN : b = (s.ok /\ Empty(s))
  OBVIOUS
<1>r. PICK r : r = [s EXCEPT !.maps = {}, !.ok = b]
  OBVIOUS
<1>o. PICK o : o = Others(pt, p)
  OBVIOUS
<1>t. TypeOK /\ Typed
  BY DEF Holding, IInv, TypeOK, Typed
<1>1. /\ Commit(p, r)
      /\ pool' = [n \in Names |-> IF Holds(p, n) > 0 THEN Drop(n, Holds(p, n)) ELSE pool[n]]
      /\ shmem' = [shmem EXCEPT ![p] = NoShmem] /\ brk' = [brk EXCEPT ![p] = 0]
      /\ next' = [next EXCEPT ![p] = 0] /\ state' = [state EXCEPT ![p] = then]
      /\ UNCHANGED taken
  BY <1>V, <1>G, <1>W, <1>m, <1>c, <1>e, <1>s, <1>b, <1>r DEF FreeMem, ShmemVAs
<1>2. PoolLeft(p, G)
  BY <1>1, <1>G, PoolLeftIs
<1>3. /\ G \in SUBSET Pages /\ \A g \in G : InPool(pool, g)
      /\ \A g : InPool(pool', g) <=> InPool(pool, g) /\ g \notin G
      /\ \A q \in Procs \ {p}, v \in VAs : pt[q][v] \notin G
      /\ PoolOK(pool', taken', shmem') /\ Keeps(pt, shmem, pool, pool', p)
      /\ pool' \in [Names -> [ref : Nat, pages : SUBSET Pages]]
  BY <1>2 DEF PoolLeft
<1>l. /\ W \in SUBSET VAs
      /\ \A v \in W : pt[p][v] # 0 /\ ~InPool(pool, pt[p][v])
      /\ \A v \in VAs \ W :
           pt[p][v] # 0 => Covers(shmem[p], pool, v, pt[p][v]) /\ InPool(pool, pt[p][v])
  <2>1. W = OwnOf(brk[p], maps[p])
    BY <1>W DEF OwnOf, Image, ImageOf
  <2>2. W \in SUBSET VAs
    BY <2>1, LiveIs DEF OwnOf
  <2> QED  BY <2>1, <2>2, LiveIs
<1>4. \A v \in VAs \ W : pt[p][v] # 0 => v \in V
  <2> SUFFICES ASSUME NEW v \in VAs \ W, pt[p][v] # 0 PROVE v \in V
    OBVIOUS
  <2>1. PICK i \in 1 .. NSHMEM, n \in Names :
          /\ shmem[p][i].name = n
          /\ v \in Range1(shmem[p][i].start, Cardinality(pool[n].pages))
    BY <1>l DEF Covers
  <2>2. shmem[p][i].name # None
    BY <2>1, Consts
  <2> QED  BY <2>1, <2>2, <1>V DEF ShmemVAs
<1>5. /\ m \in ViewRec /\ m.who = p /\ m.tab = pt[p] /\ Books(m, pool, o)
  BY <1>m, <1>o, ViewIs
<1>6. /\ c \in ViewRec /\ c.who = p /\ c.tab = Wiped(pt[p], V)
      /\ c.ok => \A v \in V : pt[p][v] # 0
  BY <1>5, <1>c, ClearFields
<1>7. e \in ViewRec /\ e.who = p /\ e.tab = c.tab /\ e.ok = c.ok
  BY <1>3, <1>6, <1>e, RecycleFields
<1>8. /\ s.ok => e.ok /\ \A v \in W : e.tab[v] # 0
      /\ s = [who |-> s.who, ref |-> s.ref, free |-> s.free, tab |-> s.tab,
              maps |-> s.maps, ok |-> s.ok]
  BY <1>7, <1>s, UnmapFinds
<1>9. r = [who |-> s.who, ref |-> s.ref, free |-> s.free, tab |-> s.tab, maps |-> {}, ok |-> b]
  BY ONLY <1>8, <1>r
<1>10. /\ r.who = s.who /\ r.ref = s.ref /\ r.free = s.free /\ r.tab = s.tab /\ r.maps = {}
       /\ r.ok = b
  BY <1>9
<1>w. \A v \in VAs : Wiped(pt[p], V)[v] = IF v \in V THEN 0 ELSE pt[p][v]
  BY DEF Wiped
(* No panic: everything was where it is looked for.                         *)
<1>11. ASSUME r.ok
       PROVE  /\ \A v \in V \cap VAs : InPool(pool, pt[p][v])
              /\ \A v \in VAs : c.tab[v] = IF v \in W THEN pt[p][v] ELSE 0
              /\ s.tab = NoTable
  <2>1. s.ok /\ Empty(s)
    BY <1>10, <1>11, <1>b
  <2>2. (\A v \in V : pt[p][v] # 0) /\ \A v \in W : c.tab[v] # 0
    BY <2>1, <1>6, <1>7, <1>8
  <2>3. \A v \in W : v \notin V
    BY <2>2, <1>6, <1>w, <1>l
  <2>4. \A v \in V \cap VAs : InPool(pool, pt[p][v])
    BY <2>2, <2>3, <1>l
  <2>5. \A v \in VAs : c.tab[v] = IF v \in W THEN pt[p][v] ELSE 0
    BY <2>3, <1>4, <1>6, <1>w
  <2> QED  BY <2>1, <2>4, <2>5 DEF Empty
<1>12. ASSUME r.ok PROVE Books(s, pool', o) /\ s \in ViewRec
  <2>1. Unmapped(m, c, V, pool, o)
    <3>1. \A v \in V \cap VAs : InPool(pool, m.tab[v])
      BY <1>5, <1>11, <1>12
    <3> QED  BY ONLY <3>1, <1>5, <1>c, ClearIs
  <2>2. Books(c, pool, o)
    BY <2>1 DEF Unmapped
  <2>3. \A g \in Pages : InPool(pool', g) <=> InPool(pool, g) /\ g \notin G
    BY <1>3
  <2>4. \A g \in G, q \in Procs \ {c.who}, v \in VAs : pt[q][v] # g
    BY <1>3, <1>6
  <2>5. \A g \in G, v \in VAs : c.tab[v] # g
    BY <1>3, <1>11, <1>12, <1>l, Consts
  <2>6. o = Others(pt, c.who) /\ G \in SUBSET Pages /\ c \in ViewRec
    BY <1>3, <1>6, <1>o
  <2>7. Recycled(c, e, pool', o)
    BY ONLY <2>2, <2>3, <2>4, <2>5, <2>6, <1>e, RecycleIs
  <2>8. Books(e, pool', o)
    BY <2>7 DEF Recycled
  <2>9. \A v \in W : ~InPool(pool', e.tab[v])
    BY <1>3, <1>7, <1>11, <1>12, <1>l
  <2>10. o = Others(pt, e.who) /\ W \in SUBSET VAs /\ e \in ViewRec
    BY <1>7, <1>l, <1>o
  <2>11. Unmapped(e, s, W, pool', o)
    BY ONLY <2>8, <2>9, <2>10, <1>s, UnmapIs
  <2> QED  BY <2>11 DEF Unmapped
<1>13. /\ state'[p] = then /\ brk'[p] = 0 /\ shmem'[p] = NoShmem /\ taken'[p] = None
  BY <1>1, <1>t DEF Typed
<1>14. ASSUME r.ok PROVE Fits(p, r)
  <2>1. r \in ViewRec
    <3>1. {} \in SUBSET Mapping
      OBVIOUS
    <3> QED  BY <3>1, <1>9, <1>12, <1>14 DEF ViewRec
  <2>2. Books(r, pool', o)
    BY <1>10, <1>12, <1>14 DEF Books
  <2>3. Cardinality(r.maps) <= MAX_MAPPING
    BY <1>10, FS_EmptySet, Consts
  <2>4. r.tab = NoTable
    BY <1>10, <1>11, <1>14
  <2>5. ProcOK(state'[p], r.tab, brk'[p], r.maps, shmem'[p], taken'[p], pool')
    BY <2>4, <1>10, <1>13 DEF ProcOK, Gone
  <2>6. \A v \in VAs : EntryOK(pt, maps, pool, pool', p, r.tab, r.maps, v)
    BY <2>4 DEF EntryOK, NoTable
  <2> QED  BY <2>1, <2>2, <2>3, <2>5, <2>6, <1>3, <1>o DEF Fits
<1>15. Typed' /\ Besides(p)
  <2>1. shmem' \in [Procs -> [1 .. NSHMEM -> [name : Names \cup {None}, start : 0 .. NVA + 1]]]
    <3>1. 0 \in 0 .. NVA + 1
      BY Consts
    <3>2. NoShmem \in [1 .. NSHMEM -> [name : Names \cup {None}, start : 0 .. NVA + 1]]
      BY <3>1 DEF NoShmem
    <3> QED  BY <3>2, <1>1, <1>t DEF Typed
  <2>2. 0 \in 0 .. Stack /\ 0 \in 0 .. NVA + 2
    BY Consts
  <2>3. state' \in [Procs -> {"unused", "live", "loading"}]
    BY <1>1, <1>t DEF Typed
  <2>4. brk' \in [Procs -> 0 .. Stack] /\ next' \in [Procs -> 0 .. NVA + 2]
    BY <2>2, <1>1, <1>t DEF Typed
  <2>5. taken' \in [Procs -> {None} \cup [name : Names, len : 0 .. MaxShmem]]
    BY <1>1, <1>t DEF Typed
  <2>6. Besides(p)
    BY <1>1, <1>t DEF Typed, Besides
  <2> QED  BY <2>1, <2>3, <2>4, <2>5, <2>6, <1>3 DEF Typed
<1> QED  BY <1>1, <1>14, <1>15, CommitStep

(* exit(), and exec() up to the point of no return.                         *)
LEMMA ExitKeeps ==
  ASSUME Holding, NEW p \in Procs, Exit(p)
  PROVE  IInv'
<1>1. state[p] = "live" /\ taken[p] = None /\ FreeMem(p, "unused")
  BY DEF Exit, Enters
<1> QED  BY <1>1, FreeKeeps

(* ... of which it makes sure with an empty page table.                     *)
LEMMA ExecFreeKeeps ==
  ASSUME Holding, NEW p \in Procs, ExecFree(p)
  PROVE  IInv'
<1>1. state[p] = "live" /\ taken[p] = None /\ FreeMem(p, "loading")
  BY DEF ExecFree, Enters
<1> QED  BY <1>1, FreeKeeps

(* Every step of the machine.                                               *)
LEMMA NextKeeps ==
  ASSUME IInv, Next
  PROVE  IInv'
<1>1. PICK p \in Procs :
        \/ Brk(p) \/ Mmap(p) \/ Munmap(p) \/ SharedGet(p) \/ SharedMap(p)
        \/ Exit(p) \/ ExecFree(p) \/ ExecLoad(p)
        \/ \E np \in Procs \ {p} : Clone(p, np)
  BY DEF Next
<1>2. ~panicked
  BY <1>1 DEF Brk, Mmap, Munmap, SharedGet, SharedMap, Exit, ExecFree, ExecLoad, Clone, Enters
<1>3. Holding
  BY <1>2 DEF Holding
<1>4. CASE Brk(p)
  BY <1>3, <1>4, BrkKeeps
<1>5. CASE Mmap(p)
  BY <1>3, <1>5, MmapKeeps
<1>6. CASE Munmap(p)
  BY <1>3, <1>6, MunmapKeeps
<1>7. CASE SharedGet(p)
  BY <1>3, <1>7, SharedGetKeeps
<1>8. CASE SharedMap(p)
  BY <1>3, <1>8, SharedMapKeeps
<1>9. CASE Exit(p)
  BY <1>3, <1>9, ExitKeeps
<1>10. CASE ExecFree(p)
  BY <1>3, <1>10, ExecFreeKeeps
<1>11. CASE ExecLoad(p)
  BY <1>3, <1>11, ExecLoadKeeps
<1>12. ASSUME NEW np \in Procs \ {p}, Clone(p, np) PROVE IInv'
  BY <1>3, <1>12, CloneKeeps
<1> QED  BY <1>1, <1>4, <1>5, <1>6, <1>7, <1>8, <1>9, <1>10, <1>11, <1>12
-----------------------------------------------------------------------------
(* The shell's memory, as the loader leaves it.                             *)
LEMMA InitTables ==
  ASSUME Init
  PROVE  /\ pt \in [Procs -> [VAs -> 0 .. NPages]]
         /\ \A q \in Procs, v \in VAs :
              pt[q][v] = IF q = Shell /\ v \in {0, 1, Stack} THEN v + 1 ELSE 0
<1>s. Stack \in Nat /\ 1 < Stack /\ NPages \in Nat /\ Stack < NPages
  BY Consts
<1>0. {0, 1, Stack} \subseteq VAs
  BY Consts DEF VAs
<1>1. ASSUME NEW v \in VAs
      PROVE  ShellImage[v] = IF v \in {0, 1, Stack} THEN v + 1 ELSE 0
  BY <1>s, <1>0 DEF ShellImage, NoTable
<1>2. \A v \in VAs : NoTable[v] = 0
  BY DEF NoTable
<1>3. pt = [p \in Procs |-> IF p = Shell THEN ShellImage ELSE NoTable]
  BY DEF Init
<1>4. 1 \in 0 .. NPages /\ 2 \in 0 .. NPages /\ Stack + 1 \in 0 .. NPages /\ 0 \in 0 .. NPages
  BY <1>s
<1>5. NoTable \in [VAs -> 0 .. NPages]
  BY <1>4 DEF NoTable
<1>6. ShellImage \in [VAs -> 0 .. NPages]
  BY <1>4, <1>5 DEF ShellImage
<1> QED  BY <1>1, <1>2, <1>3, <1>5, <1>6

(* ... has its counts right.                                                *)
LEMMA InitCounts ==
  ASSUME Init
  PROVE  RefsOK(pt, ref, free, pool) /\ \A g : ~InPool(pool, g)
<1>s. Stack \in Nat /\ 1 < Stack /\ Shell \in Procs /\ {0, 1, Stack} \subseteq VAs
  BY Consts DEF VAs
<1>1. \A g : ~InPool(pool, g)
  BY DEF Init, InPool
<1>2. ASSUME NEW g \in Pages
      PROVE  Uses(pt, g) = IF g \in ShellPages THEN 1 ELSE 0
  <2> DEFINE A == {s \in Procs \X VAs : pt[s[1]][s[2]] = g}
  <2>0. g \in Nat /\ g > 0
    BY Consts DEF Pages
  <2>1. CASE g \in ShellPages
    <3>1. PICK h : h = g - 1 /\ h \in {0, 1, Stack} /\ g = h + 1 /\ h \in VAs
      BY <2>1, <1>s DEF ShellPages
    <3>2. \A q \in Procs, v \in VAs : pt[q][v] = g <=> q = Shell /\ v = h
      BY <2>0, <3>1, <1>s, InitTables DEF VAs
    <3>3. A = {<<Shell, h>>}
      <4>1. <<Shell, h>> \in A
        BY <3>1, <3>2, <1>s
      <4>2. ASSUME NEW x \in A PROVE x = <<Shell, h>>
        <5>1. PICK q \in Procs, v \in VAs : x = <<q, v>> /\ pt[q][v] = g
          OBVIOUS
        <5> QED  BY <5>1, <3>2
      <4> QED  BY <4>1, <4>2
    <3> QED  BY <2>1, <3>3, FS_Singleton DEF Uses
  <2>2. CASE g \notin ShellPages
    <3>1. \A q \in Procs, v \in VAs : pt[q][v] # g
      BY <2>0, <2>2, InitTables DEF ShellPages
    <3>2. A = {}
      BY <3>1
    <3> QED  BY <2>2, <3>2, FS_EmptySet DEF Uses
  <2> QED  BY <2>1, <2>2
<1>3. ASSUME NEW g \in Pages
      PROVE  ref[g] = (IF g \in ShellPages THEN 1 ELSE 0) /\ (g \in free <=> g \notin ShellPages)
  BY DEF Init
<1> QED  BY <1>1, <1>2, <1>3 DEF RefsOK

(* The machine starts in the invariant.                                     *)
LEMMA InitHolds ==
  ASSUME Init
  PROVE  IInv
<1>c. /\ Stack \in Nat /\ 1 < Stack /\ Stack + 2 <= NVA /\ NVA \in Nat
      /\ MAX_MAPPING \in Nat \ {0} /\ None \notin Names
  BY Consts
<1>0. MappedBy({}) = {} /\ IsFiniteSet({}) /\ Cardinality({}) = 0
  BY FS_EmptySet DEF MappedBy
<1>1. TypeOK
  <2>1. NoShmem \in [1 .. NSHMEM -> [name : Names \cup {None}, start : 0 .. NVA + 1]]
    BY <1>c DEF NoShmem
  <2>2. shmem \in [Procs -> [1 .. NSHMEM -> [name : Names \cup {None}, start : 0 .. NVA + 1]]]
    BY <2>1 DEF Init
  <2>3. pt \in [Procs -> [VAs -> 0 .. NPages]]
    BY InitTables
  <2>4. /\ maps \in [Procs -> SUBSET Mapping]
        /\ \A p \in Procs : Cardinality(maps[p]) <= MAX_MAPPING
    BY <1>c, <1>0 DEF Init
  <2>5. brk \in [Procs -> 0 .. Stack] /\ next \in [Procs -> 0 .. NVA + 2]
    <3>1. 0 \in 0 .. Stack /\ 1 \in 0 .. Stack /\ 0 \in 0 .. NVA + 2 /\ Stack + 2 \in 0 .. NVA + 2
      BY <1>c
    <3> QED  BY <3>1 DEF Init
  <2>6. /\ state \in [Procs -> {"unused", "live", "loading"}]
        /\ ref \in [Pages -> Nat] /\ free \subseteq Pages
        /\ taken \in [Procs -> {None} \cup [name : Names, len : 0 .. MaxShmem]]
        /\ pool \in [Names -> [ref : Nat, pages : SUBSET Pages]]
        /\ panicked \in BOOLEAN
    BY DEF Init
  <2> QED  BY <2>2, <2>3, <2>4, <2>5, <2>6 DEF TypeOK
<1>t. \A q \in Procs, v \in VAs :
        pt[q][v] = IF q = Shell /\ v \in {0, 1, Stack} THEN v + 1 ELSE 0
  BY InitTables
<1>p. \A g : ~InPool(pool, g)
  BY InitCounts
<1>2. ASSUME NEW p \in Procs
      PROVE  ProcOK(state[p], pt[p], brk[p], maps[p], shmem[p], taken[p], pool)
  <2>1. CASE p = Shell
    <3>1. state[p] = "live" /\ brk[p] = 1 /\ maps[p] = {}
      BY <2>1 DEF Init
    <3>2. 1 .. 1 = {1}
      OBVIOUS
    <3>3. OwnOf(1, {}) = {0, 1, Stack} /\ ImageOf(1) \cap MappedBy({}) = {}
      BY <1>0, <3>2 DEF OwnOf, ImageOf
    <3>4. \A v \in VAs : v + 1 # 0
      BY Consts
    <3>5. Agree(pt[p], OwnOf(1, {}), shmem[p], pool)
      BY <2>1, <3>3, <3>4, <1>t, <1>p DEF Agree
    <3>6. MapsOK({})
      BY <1>0 DEF MapsOK
    <3> QED  BY <3>1, <3>3, <3>5, <3>6, <1>c DEF ProcOK, Live
  <2>2. CASE p # Shell
    <3>1. /\ state[p] = "unused" /\ pt[p] = NoTable /\ maps[p] = {} /\ shmem[p] = NoShmem
          /\ taken[p] = None
      BY <2>2 DEF Init
    <3> QED  BY <3>1 DEF ProcOK, Gone
  <2> QED  BY <2>1, <2>2
<1>3. PoolOK(pool, taken, shmem)
  <2>1. ASSUME NEW n \in Names PROVE Gets(taken, n) = 0 /\ Slotted(shmem, n) = 0
    <3>1. {p \in Procs : taken[p] # None /\ taken[p].name = n} = {}
      BY DEF Init
    <3>2. {s \in Procs \X (1 .. NSHMEM) : shmem[s[1]][s[2]].name = n} = {}
      <4>1. \A p \in Procs, i \in 1 .. NSHMEM : shmem[p][i].name = None
        BY DEF Init, NoShmem
      <4> QED  BY <4>1, <1>c
    <3> QED  BY <3>1, <3>2, <1>0 DEF Gets, Slotted
  <2>2. \A n \in Names : pool[n].ref = 0 /\ pool[n].pages = {}
    BY DEF Init
  <2> QED  BY <2>1, <2>2 DEF PoolOK
<1>4. ShareOK(pt, maps, pool)
  <2> SUFFICES ASSUME NEW p \in Procs, NEW q \in Procs, NEW v \in VAs, NEW w \in VAs,
                      pt[p][v] = pt[q][w], pt[p][v] # 0
               PROVE  <<p, v>> = <<q, w>>
    BY DEF ShareOK
  <2>1. p = Shell /\ q = Shell /\ v + 1 = w + 1
    BY <1>t
  <2>2. v \in Nat /\ w \in Nat
    BY Consts
  <2> QED  BY <2>1, <2>2
<1>5. RefsOK(pt, ref, free, pool)
  BY InitCounts
<1> QED  BY <1>1, <1>2, <1>3, <1>4, <1>5 DEF IInv, Sound, InvProcs
-----------------------------------------------------------------------------
(* The books are right in every reachable state.                            *)
THEOREM Invariance == Spec => []IInv
<1>1. Init => IInv
  BY InitHolds
<1>2. IInv /\ [Next]_vars => IInv'
  <2>1. ASSUME IInv, UNCHANGED vars PROVE IInv'
    BY <2>1 DEF IInv, TypeOK, Sound, InvProcs, vars
  <2> QED  BY <2>1, NextKeeps
<1> QED  BY <1>1, <1>2, PTL DEF Spec

(* The variables have their types, and no table of mappings outgrows        *)
(* p->maps.                                                                 *)
THEOREM TypeCorrect == Spec => []TypeOK
<1>1. IInv => TypeOK
  BY DEF IInv
<1> QED  BY <1>1, Invariance, PTL

(* A page's count is the number of its owners, and the free pages are those *)
(* without one: pfn_ref through fork, exit, exec, munmap and shared memory. *)
THEOREM PageRefsExactHolds == Spec => []PageRefsExact
<1>1. ASSUME IInv, ~panicked PROVE PageRefsExact
  <2>1. RefsOK(pt, ref, free, pool) /\ PoolOK(pool, taken, shmem)
    BY <1>1 DEF IInv, Sound
  <2>2. \A g : g \in PoolPages <=> InPool(pool, g)
    BY DEF PoolPages, InPool
  <2>3. ASSUME NEW g \in Pages PROVE ref[g] = Cardinality(Owners(g))
    <3>1. CASE InPool(pool, g)
      <4>1. PICK n \in Names : g \in pool[n].pages
        BY <3>1 DEF InPool
      <4>2. \A k \in Names : g \in pool[k].pages => k = n
        BY <4>1, <2>1 DEF PoolOK
      <4>3. Owners(g) = {n}
        BY <2>2, <3>1, <4>1, <4>2 DEF Owners
      <4> QED  BY <2>1, <3>1, <4>3, FS_Singleton DEF RefsOK
    <3>2. CASE ~InPool(pool, g)
      <4>1. Cardinality(Owners(g)) = Uses(pt, g)
        BY <2>2, <3>2 DEF Owners, Uses
      <4> QED  BY <2>1, <3>2, <4>1 DEF RefsOK
    <3> QED  BY <3>1, <3>2
  <2>4. \A n \in Names : Getting(n) = Gets(taken, n) /\ Slots(n) = Slotted(shmem, n)
    BY DEF Getting, Gets, Slots, Slotted
  <2> QED  BY <2>1, <2>3, <2>4 DEF PageRefsExact, RefsOK, PoolOK
<1>2. IInv => PageRefsExact
  BY <1>1 DEF PageRefsExact
<1> QED  BY <1>2, Invariance, PTL

(* An entry for a page of a shared memory is where a slot has it.           *)
LEMMA PooledPlace ==
  ASSUME Holding, NEW p \in Procs, NEW v \in VAs, pt[p][v] # 0, InPool(pool, pt[p][v])
  PROVE  v \in ShmemVAs(p)
<1>1. state[p] = "live"
  <2>1. CASE state[p] # "live"
    <3>1. pt[p] = NoTable
      BY <2>1 DEF Holding, IInv, Sound, InvProcs, ProcOK, Gone
    <3> QED  BY <3>1 DEF NoTable
  <2> QED  BY <2>1
<1>2. Covers(shmem[p], pool, v, pt[p][v])
  BY <1>1, LiveIs
<1>3. PICK i \in 1 .. NSHMEM, n \in Names :
        /\ shmem[p][i].name = n
        /\ v \in Range1(shmem[p][i].start, Cardinality(pool[n].pages))
  BY <1>2 DEF Covers
<1>4. shmem[p][i].name # None
  BY <1>3, Consts
<1> QED  BY <1>3, <1>4 DEF ShmemVAs

(* The page table of a live process has what the process is said to have,   *)
(* no page too many and none too few.                                       *)
THEOREM TablesAgreeHolds == Spec => []TablesAgree
<1>1. ASSUME IInv, ~panicked PROVE TablesAgree
  <2>1. Holding
    BY <1>1 DEF Holding
  <2>2. ASSUME NEW p \in Procs, state[p] = "live"
        PROVE  /\ Image(p) \cup MappedBy(maps[p]) \subseteq There(p)
               /\ There(p) \subseteq Image(p) \cup MappedBy(maps[p]) \cup ShmemVAs(p)
               /\ Image(p) \cap MappedBy(maps[p]) = {}
               /\ \A r, s \in maps[p] :
                    r # s => Range1(r.va, r.n) \cap Range1(s.va, s.n) = {}
    <3>1. Image(p) \cup MappedBy(maps[p]) = OwnOf(brk[p], maps[p])
          /\ Image(p) = ImageOf(brk[p])
      BY DEF Image, ImageOf, OwnOf
    <3>2. OwnOf(brk[p], maps[p]) \subseteq There(p)
      BY <2>1, <2>2, LiveIs DEF OwnOf, There
    <3>3. \A v \in There(p) \ OwnOf(brk[p], maps[p]) : v \in ShmemVAs(p)
      BY <2>1, <2>2, LiveIs, PooledPlace DEF There
    <3>4. /\ ImageOf(brk[p]) \cap MappedBy(maps[p]) = {} /\ MapsOK(maps[p])
      BY <2>1, <2>2, LiveIs
    <3> QED  BY <3>1, <3>2, <3>3, <3>4 DEF MapsOK
  <2> QED  BY <2>2 DEF TablesAgree
<1>2. IInv => TablesAgree
  BY <1>1 DEF TablesAgree
<1> QED  BY <1>2, Invariance, PTL

(* Nobody sees a page of somebody else but through a MAP_SHARED mapping or  *)
(* a shared memory that both have.                                          *)
THEOREM IsolationHolds == Spec => []Isolation
<1>1. ASSUME IInv, ~panicked PROVE Isolation
  <2>1. Holding /\ ShareOK(pt, maps, pool)
    BY <1>1 DEF Holding, IInv, Sound
  <2>2. \A g : g \in PoolPages <=> InPool(pool, g)
    BY DEF PoolPages, InPool
  <2>3. ASSUME NEW p \in Procs, NEW q \in Procs, NEW v \in There(p), NEW w \in There(q),
               pt[p][v] = pt[q][w], <<p, v>> # <<q, w>>
        PROVE  \/ p # q /\ v = w /\ IsShared(p, v) /\ IsShared(q, v)
               \/ pt[p][v] \in PoolPages /\ v \in ShmemVAs(p) /\ w \in ShmemVAs(q)
    <3>1. v \in VAs /\ w \in VAs /\ pt[p][v] # 0 /\ pt[q][w] # 0
      BY DEF There
    <3>2. CASE InPool(pool, pt[p][v])
      BY <2>1, <2>2, <2>3, <3>1, <3>2, PooledPlace
    <3>3. CASE ~InPool(pool, pt[p][v])
      <4>1. p # q /\ v = w /\ SharedIn(maps[p], v) /\ SharedIn(maps[q], v)
        BY <2>1, <2>3, <3>1, <3>3 DEF ShareOK
      <4> QED  BY <4>1 DEF IsShared, SharedIn, Rng
    <3> QED  BY <3>2, <3>3
  <2> QED  BY <2>3 DEF Isolation
<1>2. IInv => Isolation
  BY <1>1 DEF Isolation
<1> QED  BY <1>2, Invariance, PTL
=============================================================================
