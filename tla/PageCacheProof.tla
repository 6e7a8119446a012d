--------------------------- MODULE PageCacheProof ---------------------------
(***************************************************************************)
(* Proofs about PageCache, for any number of processes, files, pages and   *)
(* slots, up to the first eviction without ctable.lock (hasty).            *)
(***************************************************************************)
EXTENDS PageCache, FiniteSetTheorems, WellFoundedInduction, TLAPS

(* Where a process is in a call; has the mutex of a page; has ctable.lock;  *)
(* and is in ctable_release().                                              *)
CallPoints == {"trunc", "copy", "unlock", "table", "find", "adjust", "empty", "seek", "load",
               "idup", "add", "evict", "evict_write"}
OwnPoints == {"adjust", "seek", "load", "idup", "add", "copy"}
EvictPoints == {"evict", "evict_write"}
FlushPoints == {"flush", "flushing", "flush_write", "remove"}
TablePoints == {"find", "adjust", "empty", "flushing", "flush_write", "remove"} \cup EvictPoints
Points == CallPoints \cup FlushPoints \cup {"idle", "leave", "exited", "flushed"}

CallRec == [op : Ops \cup {None}, file : Files \cup {None}, off : Pages, last : Pages,
            i : 0 .. NCACHE, e : 0 .. NCACHE, j : 0 .. NCACHE, v : 0 .. NCACHE,
            retried : BOOLEAN]
SlotRec == [valid : BOOLEAN, dirty : BOOLEAN, host : Files \cup {None}, off : Pages,
            data : Val, owner : Procs \cup {None}]

(* TypeOK, apart from the bound on cref, which InvRefs gives.               *)
TypeInv ==
  /\ pc \in [Procs -> Points]
  /\ call \in [Procs -> CallRec]
  /\ ilock \in [Files -> Procs \cup {None}]
  /\ table \in Procs \cup {None}
  /\ cache \in [Slots -> SlotRec]
  /\ lru \in [Slots -> 0 .. NCACHE]
  /\ cref \in [Files -> Nat]
  /\ size \in [Files -> 0 .. NPage + 1]
  /\ disk \in [Files -> [0 .. NPage -> Val]]
  /\ fptr \in [Files -> 0 .. NPage + 1]
  /\ halted \in BOOLEAN
  /\ calls \in 0 .. MaxCalls
  /\ left \in SUBSET Slots

(* A call has the lock of its inode, in ctable_release() too; exit() has no *)
(* file.                                                                    *)
InvCall ==
  \A p \in Procs :
    /\ pc[p] \in CallPoints =>
         /\ call[p].op \in Ops /\ call[p].file \in Files /\ ilock[call[p].file] = p
         /\ call[p].op = "link" => call[p].file \notin Fixed
    /\ pc[p] \in FlushPoints =>
         \/ call[p].file = None
         \/ /\ call[p].op \in Ops /\ call[p].op = "link"
            /\ call[p].file \in Files /\ call[p].file \notin Fixed /\ ilock[call[p].file] = p
    /\ pc[p] \in {"idle", "leave", "exited", "flushed"} => call[p].file = None
    /\ pc[p] = "trunc" => call[p].file \notin Fixed
    /\ pc[p] \notin {"adjust", "add", "remove"} => call[p].j = 0
    /\ pc[p] = "add" => call[p].j \in Slots

InvTable == \A p \in Procs : pc[p] \in TablePoints <=> table = p

(* The mutex of a page is held by who works on the page it asked for, by    *)
(* who writes it back in ctable_release(), or since mmap() left it held.    *)
InvOwner ==
  /\ \A p \in Procs : pc[p] \in OwnPoints =>
       call[p].e \in Slots /\ cache[call[p].e].owner = p /\ Matches(call[p].e, call[p])
  /\ \A p \in Procs : pc[p] = "flush_write" => cache[call[p].i].owner = p
  /\ \A e \in Slots : cache[e].owner # None =>
       \/ pc[cache[e].owner] \in OwnPoints /\ call[cache[e].owner].e = e
       \/ pc[cache[e].owner] = "flush_write" /\ call[cache[e].owner].i = e
       \/ e \in left

Passed(p, d) == cache[d].owner = None /\ ~Matches(d, call[p])

(* What a process that has ctable.lock knows of the slots it has passed.    *)
InvScan ==
  \A p \in Procs :
    /\ pc[p] \in {"find", "empty", "flushing", "flush_write", "remove"} => call[p].i \in Slots
    /\ pc[p] = "find" => \A d \in Slots : d < call[p].i => Passed(p, d)
    /\ pc[p] \in {"empty"} \cup EvictPoints => \A d \in Slots : Passed(p, d)
    /\ pc[p] \in {"flushing", "flush_write"} /\ call[p].file = None =>
         \A d \in Slots : d < call[p].i => ~cache[d].valid
    /\ pc[p] = "remove" /\ call[p].file = None =>
         \A d \in Slots : d <= call[p].i => ~cache[d].valid

(* A page is in one slot, and belongs to a file.                            *)
InvOne ==
  /\ \A e \in Slots : cache[e].valid => cache[e].host \in Files
  /\ \A d, e \in Slots :
       cache[d].valid /\ cache[e].valid /\ cache[d].host = cache[e].host
         /\ cache[d].off = cache[e].off => d = e

(* Slots that have been taken and do not count yet.                         *)
Reading(e) == \E p \in Procs : pc[p] \in {"seek", "load"} /\ call[p].e = e
New(e) == \E p \in Procs : pc[p] \in {"seek", "load", "idup"} /\ call[p].e = e
Unlisted(e) == New(e) \/ \E p \in Procs : pc[p] = "add" /\ call[p].e = e /\ lru[call[p].j] = 0

(* Without linkat(), and until the last process exits, ...                  *)
NoLinks == "link" \notin Ops
Going == NoLinks /\ \E p \in Procs : pc[p] \notin FlushPoints \cup {"exited", "flushed"}

(* ... the list has no holes ...                                            *)
InvList ==
  Going => /\ \A k \in Slots : k > 1 /\ lru[k] # 0 => lru[k - 1] # 0
           /\ \A p \in Procs : pc[p] = "adjust" => call[p].j = 0 \/ lru[call[p].j] # 0

Listed == {k \in Slots : lru[k] # 0}
Full == {e \in Slots : cache[e].valid /\ ~Unlisted(e)}

(* ... and not more entries than there are pages whose insertion has got as *)
(* far as to make it longer.                                                *)
InvCount == Going => Cardinality(Listed) <= Cardinality(Full)

HeldBy(f) == {e \in Slots : cache[e].valid /\ cache[e].host = f /\ ~New(e)}
InvRefs == \A f \in Files : cref[f] = Cardinality(HeldBy(f))

(* Who empties the cache is alone, and leaves nothing.                      *)
InvAlone ==
  \A p \in Procs :
    /\ pc[p] = "flushed" \/ (pc[p] \in FlushPoints /\ call[p].file = None) =>
         \A q \in Procs : q # p => pc[q] = "exited"
    /\ pc[p] = "flushed" => \A e \in Slots : ~cache[e].valid

(* FatFs stands where the page is to be written.                            *)
AtPage(e) ==
  /\ e \in Slots /\ cache[e].valid
  /\ fptr[cache[e].host] <= NPage
  /\ cache[e].host \in Fixed => fptr[cache[e].host] = cache[e].off

LastAtPage == LruLast # 0 /\ AtPage(lru[LruLast])

InvSeek ==
  \A p \in Procs :
    /\ pc[p] = "evict_write" =>
         LastAtPage /\ call[p].i = LruLast /\ call[p].v = lru[LruLast]
    /\ pc[p] = "flush_write" =>
         AtPage(call[p].i) /\ call[p].file \in {None, cache[call[p].i].host}
    /\ pc[p] = "load" /\ call[p].file \in Fixed => fptr[call[p].file] = call[p].off

(* A page of a file that is not resized is on the disk, unless it is dirty. *)
InvClean ==
  /\ \A f \in Fixed : size[f] = NPage
  /\ \A e \in Slots :
       cache[e].valid /\ ~Reading(e) /\ cache[e].host \in Fixed /\ ~cache[e].dirty
         => cache[e].data = disk[cache[e].host][cache[e].off]

(* What holds until an eviction runs without ctable.lock, ...               *)
Sound ==
  /\ TypeInv /\ InvCall /\ InvTable /\ InvOwner /\ InvScan /\ InvOne
  /\ InvList /\ InvCount /\ InvRefs /\ InvAlone /\ InvSeek /\ InvClean

(* ... and the inductive invariant.                                         *)
IInv == hasty \in BOOLEAN /\ (hasty \/ Sound)
-----------------------------------------------------------------------------
(* The least and the greatest of two.                                       *)
LEMMA MinOfTwo ==
  ASSUME NEW a \in Int, NEW b \in Int
  PROVE  Min({a, b}) = IF a <= b THEN a ELSE b
<1> DEFINE m == IF a <= b THEN a ELSE b
<1>1. m \in {a, b} /\ \A y \in {a, b} : m <= y
  OBVIOUS
<1>2. \A x \in {a, b} : (\A y \in {a, b} : x <= y) => x = m
  OBVIOUS
<1> HIDE DEF m
<1> QED  BY <1>1, <1>2 DEF Min, m

LEMMA MaxOfTwo ==
  ASSUME NEW a \in Int, NEW b \in Int
  PROVE  Max({a, b}) = IF a >= b THEN a ELSE b
<1> DEFINE m == IF a >= b THEN a ELSE b
<1>1. m \in {a, b} /\ \A y \in {a, b} : m >= y
  OBVIOUS
<1>2. \A x \in {a, b} : (\A y \in {a, b} : x >= y) => x = m
  OBVIOUS
<1> HIDE DEF m
<1> QED  BY <1>1, <1>2 DEF Max, m

(* A seek within a file, or to its end at most, keeps to the bounds.        *)
LEMMA FSeekTypes ==
  ASSUME fptr \in [Files -> 0 .. NPage + 1], size \in [Files -> 0 .. NPage + 1],
         NEW f \in Files, NEW o \in 0 .. NPage, FSeek(f, o)
  PROVE  /\ UNCHANGED disk
         /\ fptr' \in [Files -> 0 .. NPage + 1] /\ size' \in [Files -> 0 .. NPage + 1]
         /\ \A g \in Files : g # f => fptr'[g] = fptr[g] /\ size'[g] = size[g]
         /\ fptr'[f] = o /\ fptr'[f] <= NPage
         /\ size'[f] = IF size[f] >= o THEN size[f] ELSE o
<1>1. NPage \in Nat
  BY ConstantsAssumption
<1>2. size[f] \in Int /\ o \in Int
  OBVIOUS
<1>3. Max({size[f], o}) = IF size[f] >= o THEN size[f] ELSE o
  BY <1>2, MaxOfTwo
<1> QED  BY <1>1, <1>3 DEF FSeek

(* A set of numbers that is not empty has a least element.                  *)
LEMMA Least ==
  ASSUME NEW S \in SUBSET Nat, S # {}
  PROVE  \E x \in S : \A y \in S : x <= y
<1> DEFINE R == {ss \in Nat \X Nat : ss[1] < ss[2]}
<1>1. IsWellFoundedOn(R, Nat)
  BY NatLessThanWellFounded DEF OpToRel
<1> HIDE DEF R
<1>2. PICK x \in S : \A y \in S : <<y, x>> \notin R
  BY <1>1, WFMin
<1>3. \A y \in S : ~(y < x)
  BY <1>2 DEF R
<1> QED  BY <1>3

(* ... which is its Min; ...                                                *)
LEMMA MinIsIn ==
  ASSUME NEW S \in SUBSET Nat, S # {}
  PROVE  Min(S) \in S /\ \A y \in S : Min(S) <= y
  BY Least DEF Min

(* ... and, when it has a bound, a greatest one.                             *)
LEMMA MaxIsIn ==
  ASSUME NEW n \in Nat, NEW S \in SUBSET (1 .. n), S # {}
  PROVE  Max(S) \in S /\ \A y \in S : Max(S) >= y
<1> DEFINE T == {k \in Nat : n - k \in S}
<1>1. T # {} /\ T \in SUBSET Nat
  <2>1. PICK y \in S : TRUE
    OBVIOUS
  <2>2. n - y \in Nat /\ n - (n - y) = y
    OBVIOUS
  <2> QED  BY <2>1, <2>2
<1>2. PICK x \in T : \A y \in T : x <= y
  <2> HIDE DEF T
  <2> QED  BY <1>1, Least
<1>3. n - x \in S
  OBVIOUS
<1>4. ASSUME NEW y \in S
      PROVE  n - x >= y
  <2>1. n - y \in Nat /\ n - (n - y) = y
    OBVIOUS
  <2>2. n - y \in T
    BY <2>1
  <2>3. x <= n - y
    BY <1>2, <2>2
  <2> QED  BY <2>1, <2>3
<1> QED  BY <1>3, <1>4 DEF Max
-----------------------------------------------------------------------------
(* Only what other processes have in hand tells which slots are new, and    *)
(* which of them have not made the list longer.                             *)
LEMMA Steady ==
  ASSUME Sound, NEW p \in Procs,
         \A q \in Procs : q # p => pc'[q] = pc[q] /\ call'[q] = call[q],
         pc[p] \notin {"seek", "load", "idup", "add"},
         pc'[p] \notin {"seek", "load", "idup", "add"},
         Going' => Going,
         \A e \in Slots : /\ cache'[e].valid = cache[e].valid
                          /\ cache'[e].host = cache[e].host
                          /\ cache'[e].off = cache[e].off,
         Going => \A k \in Slots : lru'[k] = 0 <=> lru[k] = 0,
         UNCHANGED cref
  PROVE  /\ InvOne' /\ InvCount' /\ InvRefs'
         /\ \A e \in Slots : Reading(e)' <=> Reading(e)
<1>1. \A e \in Slots : Reading(e)' <=> Reading(e)
  BY DEF Reading
<1>2. \A e \in Slots : New(e)' <=> New(e)
  BY DEF New
<1>3. Going => \A e \in Slots : Unlisted(e)' <=> Unlisted(e)
  BY <1>2 DEF Unlisted, Sound, InvCall
<1>4. Going => Full' = Full /\ Listed' = Listed
  BY <1>3 DEF Full, Listed
<1>5. \A f \in Files : HeldBy(f)' = HeldBy(f)
  BY <1>2 DEF HeldBy
<1>6. InvOne'
  BY DEF Sound, InvOne
<1>7. InvCount'
  BY <1>4 DEF Sound, InvCount
<1>8. InvRefs'
  BY <1>5 DEF Sound, InvRefs
<1> QED  BY <1>1, <1>6, <1>7, <1>8

(* A seek in another file does not disturb who is about to write a page.    *)
LEMMA LastStays ==
  ASSUME Sound, LastAtPage,
         \A d \in Slots : /\ cache'[d].valid = cache[d].valid
                          /\ cache'[d].host = cache[d].host
                          /\ cache'[d].off = cache[d].off,
         UNCHANGED lru,
         \A f \in Files : fptr'[f] = fptr[f] \/ (fptr'[f] <= NPage /\ f \notin Fixed)
  PROVE  LastAtPage' /\ LruLast' = LruLast
<1>1. LruLast' = LruLast
  BY DEF LruLast
<1> DEFINE e == lru[LruLast]
<1>2. AtPage(e) /\ LruLast # 0 /\ e' = e
  BY <1>1 DEF LastAtPage
<1>3. cache[e].host \in Files /\ e \in Slots
  BY <1>2 DEF Sound, InvOne, AtPage
<1> HIDE DEF e
<1>4. AtPage(e)'
  BY <1>2, <1>3 DEF AtPage
<1> QED  BY <1>1, <1>2, <1>4 DEF LastAtPage, e

LEMMA SeekStays ==
  ASSUME Sound, NEW p \in Procs,
         \A q \in Procs : q # p => pc'[q] = pc[q] /\ call'[q] = call[q],
         pc'[p] \notin {"load", "evict_write", "flush_write"},
         \A e \in Slots : /\ cache'[e].valid = cache[e].valid
                          /\ cache'[e].host = cache[e].host
                          /\ cache'[e].off = cache[e].off,
         UNCHANGED lru,
         \A f \in Files : fptr'[f] = fptr[f] \/ (fptr'[f] <= NPage /\ f \notin Fixed)
  PROVE  InvSeek'
<1> SUFFICES ASSUME NEW q \in Procs
             PROVE  /\ pc'[q] = "evict_write" =>
                         /\ LastAtPage' /\ call'[q].i = LruLast'
                         /\ call'[q].v = lru'[LruLast']
                    /\ pc'[q] = "flush_write" =>
                         /\ AtPage(call[q].i)'
                         /\ call'[q].file \in {None, cache'[call'[q].i].host}
                    /\ pc'[q] = "load" /\ call'[q].file \in Fixed =>
                         fptr'[call'[q].file] = call'[q].off
  BY DEF InvSeek
<1>1. CASE pc'[q] = "evict_write"
  <2>1. LastAtPage /\ call[q].i = LruLast /\ call[q].v = lru[LruLast] /\ call'[q] = call[q]
    BY <1>1 DEF Sound, InvSeek
  <2>2. LastAtPage' /\ LruLast' = LruLast
    BY <2>1, LastStays
  <2> QED  BY <1>1, <2>1, <2>2
<1>2. CASE pc'[q] = "flush_write"
  <2>1. /\ AtPage(call[q].i) /\ call'[q] = call[q]
        /\ call[q].file \in {None, cache[call[q].i].host}
    BY <1>2 DEF Sound, InvSeek
  <2>2. cache[call[q].i].host \in Files
    BY <2>1 DEF Sound, InvOne, AtPage
  <2>3. AtPage(call[q].i)'
    BY <2>1, <2>2 DEF AtPage
  <2>4. cache'[call'[q].i].host = cache[call[q].i].host
    BY <2>1 DEF AtPage
  <2> QED  BY <1>2, <2>1, <2>3, <2>4
<1>3. CASE pc'[q] = "load" /\ call'[q].file \in Fixed
  <2>1. pc[q] = "load" /\ call'[q] = call[q]
    BY <1>3
  <2>2. Fixed \subseteq Files
    BY ConstantsAssumption
  <2> QED  BY <1>3, <2>1, <2>2 DEF Sound, InvSeek
<1> QED  BY <1>1, <1>2, <1>3

(* A step of p that leaves the list and what is in the cache alone.         *)
LEMMA Quietly ==
  ASSUME Sound, NEW p \in Procs,
         \A q \in Procs : q # p => pc'[q] = pc[q] /\ call'[q] = call[q],
         pc[p] \notin {"seek", "load", "idup", "add"},
         pc'[p] \notin {"seek", "load", "idup", "add", "evict_write", "flush_write"},
         Going' => Going,
         \A e \in Slots : /\ cache'[e].valid = cache[e].valid
                          /\ cache'[e].host = cache[e].host
                          /\ cache'[e].off = cache[e].off,
         \A e \in Slots : \/ cache'[e].data = cache[e].data /\ cache'[e].dirty = cache[e].dirty
                          \/ cache'[e].dirty,
         UNCHANGED <<lru, cref, disk>>,
         \A f \in Files : fptr'[f] = fptr[f] \/ (fptr'[f] <= NPage /\ f \notin Fixed),
         \A f \in Fixed : size'[f] = size[f]
  PROVE  InvOne' /\ InvCount' /\ InvRefs' /\ InvSeek' /\ InvClean'
<1>1. InvOne' /\ InvCount' /\ InvRefs' /\ \A e \in Slots : Reading(e)' <=> Reading(e)
  BY Steady
<1>2. InvSeek'
  BY SeekStays
<1>3. InvClean'
  BY <1>1 DEF Sound, InvClean
<1> QED  BY <1>1, <1>2, <1>3

(* A call begins.                                                           *)
LEMMA CallStep ==
  ASSUME Sound, NEW p \in Procs, Call(p)
  PROVE  Sound'
<1>1. PICK c \in Calls :
        /\ ilock[c.file] = None
        /\ ilock' = [ilock EXCEPT ![c.file] = p]
        /\ call' = [call EXCEPT ![p] = [NoCall EXCEPT
                       !.op = c.op, !.file = c.file, !.off = c.off,
                       !.last = IF c.op = "read"
                                THEN Min({c.last, Max({size[c.file], 1}) - 1})
                                ELSE c.last]]
        /\ \/ /\ c.op = "read"
              /\ Goto(p, IF size[c.file] <= c.off THEN "unlock" ELSE "table")
              /\ UNCHANGED fatfs
           \/ /\ c.op # "read" /\ c.op # "trunc"
              /\ IF c.last + 1 > size[c.file] THEN FSeek(c.file, c.last + 1)
                                              ELSE UNCHANGED fatfs
              /\ Goto(p, "table")
           \/ /\ c.op = "write" /\ c.last + 1 > size[c.file]
              /\ Goto(p, "unlock") /\ UNCHANGED fatfs
           \/ /\ c.op = "trunc"
              /\ FSeek(c.file, 0)
              /\ Goto(p, "trunc")
  BY ZenonT(60) DEF Call
<1>2. /\ c.op \in Ops /\ c.file \in Files /\ c.off \in Pages /\ c.last \in Pages
      /\ c.op \in {"trunc", "link"} => c.file \notin Fixed
  BY DEF Calls
<1>3. UNCHANGED <<table, cache, lru, cref, halted, left>> /\ pc[p] = "idle"
  BY DEF Call, At
<1> DEFINE last == IF c.op = "read" THEN Min({c.last, Max({size[c.file], 1}) - 1}) ELSE c.last
<1>4. last \in Pages
  <2>1. size[c.file] \in Nat
    BY <1>2 DEF Sound, TypeInv
  <2>2. Max({size[c.file], 1}) \in Nat /\ Max({size[c.file], 1}) >= 1
    <3>1. Max({size[c.file], 1}) = IF size[c.file] >= 1 THEN size[c.file] ELSE 1
      BY <2>1, MaxOfTwo
    <3> QED  BY <2>1, <3>1
  <2>3. ASSUME NEW a \in Nat, NEW b \in Pages
        PROVE  Min({b, a}) \in Pages
    BY <2>3, MinOfTwo, ConstantsAssumption DEF Pages
  <2>4. Max({size[c.file], 1}) - 1 \in Nat
    BY <2>2
  <2> HIDE DEF last
  <2>5. Min({c.last, Max({size[c.file], 1}) - 1}) \in Pages
    BY <1>2, <2>3, <2>4
  <2> QED  BY <1>2, <2>5 DEF last
<1>5. /\ call' \in [Procs -> CallRec]
      /\ \A q \in Procs : q # p => call'[q] = call[q]
      /\ call'[p].op = c.op /\ call'[p].file = c.file /\ call'[p].j = 0
  <2>1. call' = [call EXCEPT ![p] = [NoCall EXCEPT
                       !.op = c.op, !.file = c.file, !.off = c.off, !.last = last]]
    BY <1>1
  <2> HIDE DEF last
  <2>2. NoCall \in CallRec /\ NoCall.j = 0
    BY ConstantsAssumption DEF NoCall, CallRec, Pages
  <2> DEFINE r == [NoCall EXCEPT !.op = c.op, !.file = c.file, !.off = c.off, !.last = last]
  <2>3. r \in CallRec /\ r.op = c.op /\ r.file = c.file /\ r.j = 0
    BY <1>2, <1>4, <2>2 DEF CallRec
  <2> HIDE DEF r
  <2> QED  BY <2>1, <2>3 DEF Sound, TypeInv, r
<1>6. /\ pc' \in [Procs -> Points]
      /\ \A q \in Procs : q # p => pc'[q] = pc[q]
      /\ pc'[p] \in {"unlock", "table", "trunc"}
      /\ pc'[p] = "trunc" => c.file \notin Fixed
  BY <1>1, <1>2 DEF Sound, TypeInv, Goto, Points, CallPoints
<1>7. /\ UNCHANGED disk
      /\ fptr' \in [Files -> 0 .. NPage + 1] /\ size' \in [Files -> 0 .. NPage + 1]
      /\ \A f \in Files : \/ fptr'[f] = fptr[f]
                          \/ (fptr'[f] <= NPage /\ f = c.file /\ f \notin Fixed)
      /\ \A f \in Fixed : size'[f] = size[f]
  <2>1. ASSUME NEW o \in 0 .. NPage, FSeek(c.file, o)
        PROVE  /\ UNCHANGED disk
               /\ fptr' \in [Files -> 0 .. NPage + 1] /\ size' \in [Files -> 0 .. NPage + 1]
               /\ \A f \in Files : f # c.file => fptr'[f] = fptr[f] /\ size'[f] = size[f]
               /\ fptr'[c.file] <= NPage
    BY <1>2, <2>1, FSeekTypes DEF Sound, TypeInv
  <2>2. CASE UNCHANGED fatfs
    BY <2>2 DEF Sound, TypeInv, fatfs
  <2>3. CASE c.last + 1 > size[c.file] /\ FSeek(c.file, c.last + 1)
    <3>1. c.last + 1 \in 0 .. NPage
      BY <1>2, ConstantsAssumption DEF Pages
    <3>2. c.file \notin Fixed
      <4>1. c.file \in Fixed => size[c.file] = NPage
        BY DEF Sound, InvClean
      <4> QED  BY <2>3, <3>1, <4>1, ConstantsAssumption
    <3>3. Fixed \subseteq Files
      BY ConstantsAssumption
    <3> QED  BY <2>1, <2>3, <3>1, <3>2, <3>3
  <2>4. CASE c.op = "trunc" /\ FSeek(c.file, 0)
    <3>1. 0 \in 0 .. NPage /\ Fixed \subseteq Files
      BY ConstantsAssumption
    <3> QED  BY <1>2, <2>1, <2>4, <3>1
  <2> QED  BY <1>1, <2>2, <2>3, <2>4
<1>8. TypeInv'
  <2>1. ilock' \in [Files -> Procs \cup {None}]
    BY <1>1, <1>2 DEF Sound, TypeInv
  <2>2. calls' \in 0 .. MaxCalls
    BY ConstantsAssumption DEF Sound, TypeInv, Call
  <2> QED  BY <1>3, <1>5, <1>6, <1>7, <2>1, <2>2 DEF Sound, TypeInv
<1>9. \A q \in Procs :
        q # p /\ (pc[q] \in CallPoints \/ (pc[q] \in FlushPoints /\ call[q].file # None))
          => call[q].file # c.file /\ call[q].file \in Files
  BY <1>1, ConstantsAssumption DEF Sound, InvCall
<1>10. InvCall'
  <2>1. \A f \in Files : f # c.file => ilock'[f] = ilock[f]
    BY <1>1, <1>2 DEF Sound, TypeInv
  <2>2. ilock'[c.file] = p
    BY <1>1, <1>2 DEF Sound, TypeInv
  <2> QED  BY <1>2, <1>5, <1>6, <1>9, <2>1, <2>2 DEF Sound, InvCall, CallPoints, FlushPoints
<1>11. InvTable'
  BY <1>3, <1>6 DEF Sound, InvTable, TablePoints, EvictPoints
<1>12. InvOwner'
  <2>1. \A e \in Slots : cache[e].owner = p => e \in left
    BY <1>3, ConstantsAssumption DEF Sound, InvOwner, OwnPoints
  <2>2. \A e \in Slots : cache[e].owner \in Procs \cup {None}
    BY DEF Sound, TypeInv, SlotRec
  <2> QED  BY <1>3, <1>5, <1>6, <2>1, <2>2 DEF Sound, InvOwner, OwnPoints, Matches
<1>13. InvScan'
  BY <1>3, <1>5, <1>6 DEF Sound, InvScan, EvictPoints, Passed, Matches
<1>14. Going' => Going
  BY <1>3 DEF Going, NoLinks, FlushPoints
<1>15. InvOne' /\ InvCount' /\ InvRefs' /\ InvSeek' /\ InvClean'
  BY <1>3, <1>5, <1>6, <1>7, <1>14, Quietly
<1>16. InvList' /\ InvAlone'
  BY <1>3, <1>5, <1>6, <1>14 DEF Sound, InvList, InvAlone, FlushPoints, Going, NoLinks
<1> QED
  BY <1>8, <1>10, <1>11, <1>12, <1>13, <1>15, <1>16 DEF Sound

(* itrunc() cuts the file off where FatFs stands.                           *)
LEMMA TruncateStep ==
  ASSUME Sound, NEW p \in Procs, Truncate(p)
  PROVE  Sound'
<1>1. /\ pc[p] = "trunc" /\ call[p].file \in Files /\ call[p].file \notin Fixed
      /\ UNCHANGED <<call, ilock, table, cache, lru, cref, halted, calls, left, disk, fptr>>
      /\ size' = [size EXCEPT ![call[p].file] = fptr[call[p].file]]
  BY DEF Truncate, At, FTruncate, Sound, InvCall, CallPoints
<1>2. /\ pc' \in [Procs -> Points] /\ pc'[p] = "unlock"
      /\ \A q \in Procs : q # p => pc'[q] = pc[q]
  BY DEF Truncate, Goto, Sound, TypeInv, Points, CallPoints
<1>3. size' \in [Files -> 0 .. NPage + 1] /\ \A f \in Fixed : size'[f] = size[f]
  <2>1. Fixed \subseteq Files
    BY ConstantsAssumption
  <2> QED  BY <1>1, <2>1 DEF Sound, TypeInv
<1>4. TypeInv'
  BY <1>1, <1>2, <1>3 DEF Sound, TypeInv
<1>5. InvCall'
  BY <1>1, <1>2 DEF Sound, InvCall, CallPoints, FlushPoints
<1>6. InvTable'
  BY <1>1, <1>2 DEF Sound, InvTable, TablePoints, EvictPoints
<1>7. InvOwner'
  <2>1. \A e \in Slots : cache[e].owner = p => e \in left
    BY <1>1, ConstantsAssumption DEF Sound, InvOwner, OwnPoints
  <2>2. \A e \in Slots : cache[e].owner \in Procs \cup {None}
    BY DEF Sound, TypeInv, SlotRec
  <2> QED  BY <1>1, <1>2, <2>1, <2>2 DEF Sound, InvOwner, OwnPoints, Matches
<1>8. InvScan'
  BY <1>1, <1>2 DEF Sound, InvScan, EvictPoints, Passed, Matches
<1>9. InvOne' /\ InvCount' /\ InvRefs' /\ InvSeek' /\ InvClean'
  BY <1>1, <1>2, <1>3, Quietly DEF FlushPoints, Going, NoLinks
<1>10. InvList' /\ InvAlone'
  BY <1>1, <1>2 DEF Sound, InvList, InvAlone, FlushPoints, Going, NoLinks
<1> QED  BY <1>4, <1>5, <1>6, <1>7, <1>8, <1>9, <1>10 DEF Sound

(* A page has been copied, or not, and its mutex is free.                   *)
LEMMA CopyStep ==
  ASSUME Sound, NEW p \in Procs, Copy(p)
  PROVE  Sound'
<1> DEFINE e == call[p].e
<1>1. /\ pc[p] = "copy" /\ call[p].file \in Files /\ call[p].op \in Ops
      /\ call[p].op = "link" => call[p].file \notin Fixed
      /\ e \in Slots /\ cache[e].owner = p
      /\ UNCHANGED <<ilock, table, lru, cref, fatfs, halted, calls>>
  BY DEF Copy, At, Sound, InvCall, InvOwner, CallPoints, OwnPoints
<1>2. cache \in [Slots -> SlotRec] /\ call \in [Procs -> CallRec] /\ pc \in [Procs -> Points]
  BY DEF Sound, TypeInv
<1>3. /\ pc' \in [Procs -> Points] /\ pc'[p] \in {"unlock", "table", "flush"}
      /\ pc'[p] = "flush" => call[p].op = "link"
      /\ \A q \in Procs : q # p => pc'[q] = pc[q]
  <2>1. \/ pc' = [pc EXCEPT ![p] = "unlock"] \/ pc' = [pc EXCEPT ![p] = "table"]
        \/ pc' = [pc EXCEPT ![p] = "flush"] /\ call[p].op = "link"
    BY <1>1 DEF Copy, CopyNext, Goto
  <2>2. "unlock" \in Points /\ "table" \in Points /\ "flush" \in Points
    BY DEF Points, CallPoints, FlushPoints
  <2> QED  BY <1>2, <2>1, <2>2
<1>4. /\ call' \in [Procs -> CallRec]
      /\ \A q \in Procs : q # p => call'[q] = call[q]
      /\ call'[p].file = call[p].file /\ call'[p].op = call[p].op /\ call'[p].j = call[p].j
  <2>1. 0 \in 0 .. NCACHE
    BY ConstantsAssumption
  <2>2. CASE CopyNext(p)
    <3>1. call' = [call EXCEPT ![p].off = Min({call[p].off + 1, call[p].last}), ![p].e = 0]
      BY <1>2, <2>2 DEF CopyNext
    <3>2. Min({call[p].off + 1, call[p].last}) \in Pages
      <4>1. call[p].off \in Pages /\ call[p].last \in Pages
        BY <1>2 DEF CallRec
      <4>2. Min({call[p].off + 1, call[p].last})
              = IF call[p].off + 1 <= call[p].last THEN call[p].off + 1 ELSE call[p].last
        BY <4>1, MinOfTwo, ConstantsAssumption DEF Pages
      <4> QED  BY <4>1, <4>2, ConstantsAssumption DEF Pages
    <3>3. call[p] \in CallRec
      BY <1>2
    <3> DEFINE m == Min({call[p].off + 1, call[p].last})
               r == [call[p] EXCEPT !.off = m, !.e = 0]
    <3>4. call' = [call EXCEPT ![p] = r]
      BY <3>1
    <3> HIDE DEF m
    <3>5. r \in CallRec /\ r.file = call[p].file /\ r.op = call[p].op /\ r.j = call[p].j
      BY <2>1, <3>2, <3>3 DEF CallRec, m
    <3> HIDE DEF r
    <3> QED  BY <1>2, <3>4, <3>5
  <2>3. CASE call' = [call EXCEPT ![p].e = 0]
    BY <1>2, <2>1, <2>3 DEF CallRec
  <2> QED  BY <2>2, <2>3 DEF Copy
<1>5. /\ cache' \in [Slots -> SlotRec]
      /\ \A d \in Slots : d # e => cache'[d] = cache[d]
      /\ cache'[e].valid = cache[e].valid /\ cache'[e].host = cache[e].host
      /\ cache'[e].off = cache[e].off
      /\ cache'[e].owner = None \/ (cache'[e].owner = p /\ e \in left')
      /\ left \subseteq left' /\ left' \in SUBSET Slots
      /\ \/ cache'[e].data = cache[e].data /\ cache'[e].dirty = cache[e].dirty
         \/ cache'[e].dirty
  <2> HIDE DEF e
  <2>1. CASE cache' = [cache EXCEPT ![e].owner = None] /\ UNCHANGED left
    BY <1>1, <1>2, <2>1 DEF SlotRec, Sound, TypeInv
  <2>2. ASSUME NEW v \in Val, Store(e, v)
        PROVE  /\ cache' \in [Slots -> SlotRec]
               /\ \A d \in Slots : d # e => cache'[d] = cache[d]
               /\ cache'[e].valid = cache[e].valid /\ cache'[e].host = cache[e].host
               /\ cache'[e].off = cache[e].off /\ cache'[e].owner = None /\ cache'[e].dirty
    <3>1. cache' = [cache EXCEPT ![e].data = v, ![e].dirty = TRUE, ![e].owner = None]
      BY <2>2 DEF Store
    <3> DEFINE r == [cache[e] EXCEPT !.data = v, !.dirty = TRUE, !.owner = None]
    <3>2. cache[e] \in SlotRec
      BY <1>1, <1>2
    <3>3. /\ r \in SlotRec /\ r.valid = cache[e].valid /\ r.host = cache[e].host
          /\ r.off = cache[e].off /\ r.owner = None /\ r.dirty
      BY <2>2, <3>2 DEF SlotRec
    <3>4. cache' = [cache EXCEPT ![e] = r]
      BY <3>1
    <3> HIDE DEF r
    <3> QED  BY <1>1, <1>2, <3>3, <3>4
  <2>3. \A f : Bytes(f) \subseteq Val
    BY ConstantsAssumption DEF Bytes
  <2>4. CASE UNCHANGED cache /\ left' = left \cup {e}
    BY <1>1, <1>2, <2>4 DEF SlotRec, Sound, TypeInv
  <2>5. \/ (\E v \in Bytes(call[p].file) : Store(e, v)) /\ UNCHANGED left
        \/ cache' = [cache EXCEPT ![e].owner = None] /\ UNCHANGED left
        \/ UNCHANGED cache /\ left' = left \cup {e}
    BY DEF Copy, e
  <2>6. UNCHANGED left => left \subseteq left' /\ left' \in SUBSET Slots
    BY DEF Sound, TypeInv
  <2> QED  BY <2>1, <2>2, <2>3, <2>4, <2>5, <2>6
<1> HIDE DEF e
<1>6. TypeInv'
  BY <1>1, <1>3, <1>4, <1>5 DEF Sound, TypeInv, fatfs
<1>7. InvCall'
  BY <1>1, <1>3, <1>4 DEF Sound, InvCall, CallPoints, FlushPoints
<1>8. InvTable'
  BY <1>1, <1>3 DEF Sound, InvTable, TablePoints, EvictPoints
<1>9. \A d \in Slots : /\ cache'[d].valid = cache[d].valid /\ cache'[d].host = cache[d].host
                       /\ cache'[d].off = cache[d].off
                       /\ d # e => cache'[d].owner = cache[d].owner
  BY <1>5
<1>10. InvOwner'
  <2>1. \A d \in Slots : cache[d].owner = p => d = e \/ d \in left
    BY <1>1, ConstantsAssumption DEF Sound, InvOwner, OwnPoints, e
  <2>2. \A d \in Slots : cache[d].owner \in Procs \cup {None}
    BY <1>2 DEF SlotRec
  <2>3. \A q \in Procs : pc[q] = "flush_write" => call[q].i \in Slots
    BY DEF Sound, InvScan
  <2> QED
    BY <1>1, <1>3, <1>4, <1>5, <1>9, <2>1, <2>2, <2>3 DEF Sound, InvOwner, OwnPoints, Matches
<1>11. InvScan'
  BY <1>1, <1>3, <1>4, <1>9, ConstantsAssumption DEF Sound, InvScan, EvictPoints, Passed, Matches
<1>12. InvOne' /\ InvCount' /\ InvRefs' /\ InvSeek' /\ InvClean'
  BY <1>1, <1>3, <1>4, <1>5, Quietly DEF FlushPoints, Going, NoLinks, fatfs
<1>13. InvList' /\ InvAlone'
  BY <1>1, <1>3, <1>4, <1>9, ConstantsAssumption
     DEF Sound, InvList, InvAlone, FlushPoints, Going, NoLinks
<1> QED  BY <1>6, <1>7, <1>8, <1>10, <1>11, <1>12, <1>13 DEF Sound

(* A call is over.                                                          *)
LEMMA UnlockStep ==
  ASSUME Sound, NEW p \in Procs, Unlock(p)
  PROVE  Sound'
<1> DEFINE f == call[p].file
<1>1. /\ pc[p] = "unlock" /\ f \in Files /\ ilock[f] = p
      /\ UNCHANGED <<table, cache, lru, cref, fatfs, halted, calls, left>>
      /\ ilock' = [ilock EXCEPT ![f] = None]
      /\ call' = [call EXCEPT ![p] = NoCall]
  BY DEF Unlock, At, Sound, InvCall, CallPoints
<1>2. /\ pc' \in [Procs -> Points] /\ pc'[p] = "idle"
      /\ \A q \in Procs : q # p => pc'[q] = pc[q]
  BY DEF Unlock, Goto, Sound, TypeInv, Points
<1>3. /\ call' \in [Procs -> CallRec]
      /\ \A q \in Procs : q # p => call'[q] = call[q]
      /\ call'[p].file = None /\ call'[p].j = 0
  <2>1. NoCall \in CallRec /\ NoCall.j = 0 /\ NoCall.file = None
    BY ConstantsAssumption DEF NoCall, CallRec, Pages
  <2> QED  BY <1>1, <2>1 DEF Sound, TypeInv
<1>4. /\ ilock' \in [Files -> Procs \cup {None}]
      /\ \A g \in Files : g # f => ilock'[g] = ilock[g]
  BY <1>1 DEF Sound, TypeInv
<1>5. TypeInv'
  BY <1>1, <1>2, <1>3, <1>4 DEF Sound, TypeInv, fatfs
<1>6. InvCall'
  BY <1>1, <1>2, <1>3, <1>4 DEF Sound, InvCall, CallPoints, FlushPoints
<1>7. InvTable'
  BY <1>1, <1>2 DEF Sound, InvTable, TablePoints, EvictPoints
<1>8. InvOwner'
  <2>1. \A e \in Slots : cache[e].owner = p => e \in left
    BY <1>1, ConstantsAssumption DEF Sound, InvOwner, OwnPoints
  <2>2. \A e \in Slots : cache[e].owner \in Procs \cup {None}
    BY DEF Sound, TypeInv, SlotRec
  <2> QED  BY <1>1, <1>2, <1>3, <2>1, <2>2 DEF Sound, InvOwner, OwnPoints, Matches
<1>9. InvScan'
  BY <1>1, <1>2, <1>3 DEF Sound, InvScan, EvictPoints, Passed, Matches
<1>10. InvOne' /\ InvCount' /\ InvRefs' /\ InvSeek' /\ InvClean'
  BY <1>1, <1>2, <1>3, Quietly DEF FlushPoints, Going, NoLinks, fatfs
<1>11. InvList' /\ InvAlone'
  BY <1>1, <1>2, <1>3 DEF Sound, InvList, InvAlone, FlushPoints, Going, NoLinks
<1> QED  BY <1>5, <1>6, <1>7, <1>8, <1>9, <1>10, <1>11 DEF Sound

(* ctable.lock is taken to look for a page, ...                             *)
LEMMA LockTableStep ==
  ASSUME Sound, NEW p \in Procs, LockTable(p)
  PROVE  Sound'
<1>1. /\ pc[p] = "table" /\ table = None /\ table' = p
      /\ UNCHANGED <<ilock, cache, lru, cref, fatfs, halted, calls, left>>
      /\ call' = [call EXCEPT ![p].i = 1, ![p].retried = FALSE]
  BY DEF LockTable, At
<1>2. /\ pc' \in [Procs -> Points] /\ pc'[p] = "find"
      /\ \A q \in Procs : q # p => pc'[q] = pc[q]
  BY DEF LockTable, Goto, Sound, TypeInv, Points, CallPoints
<1>3. /\ call' \in [Procs -> CallRec]
      /\ \A q \in Procs : q # p => call'[q] = call[q]
      /\ call'[p].file = call[p].file /\ call'[p].op = call[p].op /\ call'[p].j = call[p].j
      /\ call'[p].i = 1
  <2>1. 1 \in 0 .. NCACHE
    BY ConstantsAssumption
  <2> DEFINE r == [call[p] EXCEPT !.i = 1, !.retried = FALSE]
  <2>2. call \in [Procs -> CallRec]
    BY DEF Sound, TypeInv
  <2>3. call[p] \in CallRec
    BY <2>2
  <2>4. /\ r \in CallRec
        /\ r.file = call[p].file /\ r.op = call[p].op /\ r.j = call[p].j /\ r.i = 1
    BY <2>1, <2>3 DEF CallRec
  <2>5. call' = [call EXCEPT ![p] = r]
    BY <1>1
  <2> HIDE DEF r
  <2> QED  BY <2>2, <2>4, <2>5
<1>4. 1 \in Slots /\ \A d \in Slots : ~(d < 1)
  BY ConstantsAssumption DEF Slots
<1>5. TypeInv'
  BY <1>1, <1>2, <1>3 DEF Sound, TypeInv, fatfs
<1>6. InvCall'
  BY <1>1, <1>2, <1>3 DEF Sound, InvCall, CallPoints, FlushPoints
<1>7. InvTable'
  <2>1. None \notin Procs
    BY ConstantsAssumption
  <2> QED  BY <1>1, <1>2, <2>1 DEF Sound, InvTable, TablePoints, EvictPoints
<1>8. InvOwner'
  <2>1. \A e \in Slots : cache[e].owner = p => e \in left
    BY <1>1, ConstantsAssumption DEF Sound, InvOwner, OwnPoints
  <2>2. \A e \in Slots : cache[e].owner \in Procs \cup {None}
    BY DEF Sound, TypeInv, SlotRec
  <2> QED  BY <1>1, <1>2, <1>3, <2>1, <2>2 DEF Sound, InvOwner, OwnPoints, Matches
<1>9. InvScan'
  BY <1>1, <1>2, <1>3, <1>4 DEF Sound, InvScan, EvictPoints, Passed, Matches
<1>10. InvOne' /\ InvCount' /\ InvRefs' /\ InvSeek' /\ InvClean'
  BY <1>1, <1>2, <1>3, Quietly DEF FlushPoints, Going, NoLinks, fatfs
<1>11. InvList' /\ InvAlone'
  BY <1>1, <1>2, <1>3 DEF Sound, InvList, InvAlone, FlushPoints, Going, NoLinks
<1> QED  BY <1>5, <1>6, <1>7, <1>8, <1>9, <1>10, <1>11 DEF Sound

(* The first place of a page in the list, if it has one, is one of the list. *)
LEMMA LruIndexIs ==
  ASSUME TypeInv, NEW e \in Slots
  PROVE  /\ LruIndex(e) \in 0 .. NCACHE
         /\ LruIndex(e) # 0 => LruIndex(e) \in Slots /\ lru[LruIndex(e)] = e
         /\ LruIndex(e) = 0 => \A k \in Slots : lru[k] # e
<1> DEFINE S == {k \in Slots : lru[k] = e}
<1>1. CASE S = {}
  BY <1>1, ConstantsAssumption DEF LruIndex
<1>2. CASE S # {}
  <2>1. Min(S) \in S
    <3>1. S \in SUBSET Nat
      BY ConstantsAssumption DEF Slots
    <3> HIDE DEF S
    <3> QED  BY <1>2, <3>1, MinIsIn
  <2>2. LruIndex(e) = Min(S)
    BY <1>2 DEF LruIndex
  <2>3. \A k \in Slots : k \in 0 .. NCACHE /\ k # 0
    BY ConstantsAssumption DEF Slots
  <2> QED  BY <2>1, <2>2, <2>3
<1> QED  BY <1>1, <1>2

(* ... and to look into the next slot for it.                               *)
LEMMA FindStep ==
  ASSUME Sound, NEW p \in Procs, Find(p)
  PROVE  Sound'
<1> DEFINE i == call[p].i
<1>1. /\ pc[p] = "find" /\ table = p /\ cache[i].owner = None /\ i \in Slots
      /\ call[p].j = 0
      /\ UNCHANGED <<ilock, table, lru, cref, fatfs, halted, calls, left>>
      /\ \A d \in Slots : d < i => Passed(p, d)
  BY DEF Find, At, Unheld, Sound, InvTable, InvScan, InvCall, TablePoints
<1>2. cache \in [Slots -> SlotRec] /\ call \in [Procs -> CallRec] /\ pc \in [Procs -> Points]
  BY DEF Sound, TypeInv
<1>3. /\ 1 \in Slots /\ Slots \subseteq 0 .. NCACHE /\ \A d \in Slots : ~(d < 1)
      /\ 0 \in 0 .. NCACHE
  BY ConstantsAssumption DEF Slots
<1> DEFINE hit == Matches(i, call[p])
<1>4. /\ pc' \in [Procs -> Points]
      /\ pc'[p] = IF hit THEN "adjust" ELSE IF i < NCACHE THEN "find" ELSE "empty"
      /\ \A q \in Procs : q # p => pc'[q] = pc[q]
  <2>1. {"adjust", "empty"} \subseteq Points
    BY DEF Points, CallPoints
  <2>2. i < NCACHE \/ i = NCACHE
    BY <1>1, ConstantsAssumption DEF Slots
  <2> QED  BY <1>1, <1>2, <2>1, <2>2, ConstantsAssumption DEF Find, Goto, Slots
<1>5. /\ cache' \in [Slots -> SlotRec]
      /\ \A d \in Slots : d # i => cache'[d] = cache[d]
      /\ cache'[i].valid = cache[i].valid /\ cache'[i].host = cache[i].host
      /\ cache'[i].off = cache[i].off /\ cache'[i].data = cache[i].data
      /\ cache'[i].dirty = cache[i].dirty
      /\ cache'[i].owner = IF hit THEN p ELSE None
  <2>1. CASE hit
    <3>1. cache' = [cache EXCEPT ![i].owner = p]
      BY <2>1 DEF Find
    <3> HIDE DEF i, hit
    <3> QED  BY <1>1, <1>2, <2>1, <3>1 DEF SlotRec
  <2>2. CASE ~hit
    BY <1>1, <1>2, <2>2 DEF Find
  <2> QED  BY <2>1, <2>2
<1>6. /\ call' \in [Procs -> CallRec]
      /\ \A q \in Procs : q # p => call'[q] = call[q]
      /\ call'[p].file = call[p].file /\ call'[p].op = call[p].op /\ call'[p].off = call[p].off
      /\ hit => call'[p].e = i /\ (call'[p].j = 0 \/ lru[call'[p].j] # 0)
      /\ ~hit => /\ call'[p].j = 0 /\ call'[p].i \in Slots
                 /\ i < NCACHE => call'[p].i = i + 1
  <2>1. CASE hit
    <3>1. call' = [call EXCEPT ![p].i = 0, ![p].e = i, ![p].j = LruIndex(i)]
      BY <2>1 DEF Find
    <3>2. LruIndex(i) \in 0 .. NCACHE /\ (LruIndex(i) = 0 \/ lru[LruIndex(i)] = i)
      BY <1>1, LruIndexIs DEF Sound
    <3>3. i # 0
      BY <1>1, ConstantsAssumption DEF Slots
    <3> DEFINE j == LruIndex(i)
    <3>4. j \in 0 .. NCACHE /\ (j = 0 \/ lru[j] # 0) /\ i \in 0 .. NCACHE
      BY <1>1, <1>3, <3>2, <3>3
    <3> HIDE DEF i, hit, j
    <3>5. call' = [call EXCEPT ![p].i = 0, ![p].e = i, ![p].j = j]
      BY <3>1 DEF j
    <3>6. call[p] \in CallRec
      BY <1>2
    <3> DEFINE r == [call[p] EXCEPT !.i = 0, !.e = i, !.j = j]
    <3>7. /\ r \in CallRec /\ r.file = call[p].file /\ r.op = call[p].op /\ r.off = call[p].off
          /\ r.e = i /\ r.j = j
      BY <1>3, <3>4, <3>6 DEF CallRec
    <3>8. call' = [call EXCEPT ![p] = r]
      BY <1>2, <3>5
    <3> HIDE DEF r
    <3> QED  BY <1>2, <2>1, <3>4, <3>7, <3>8
  <2>2. CASE ~hit /\ i < NCACHE
    <3>1. call' = [call EXCEPT ![p].i = i + 1]
      BY <1>1, <2>2, ConstantsAssumption DEF Find, Slots
    <3>2. i + 1 \in Slots
      BY <1>1, <2>2, ConstantsAssumption DEF Slots
    <3> HIDE DEF i, hit
    <3> QED  BY <1>1, <1>2, <1>3, <2>2, <3>1, <3>2 DEF CallRec
  <2>3. CASE ~hit /\ ~(i < NCACHE)
    <3>1. call' = [call EXCEPT ![p].i = 1]
      BY <1>1, <2>3, ConstantsAssumption DEF Find, Slots
    <3> HIDE DEF i, hit
    <3> QED  BY <1>1, <1>2, <1>3, <2>3, <3>1 DEF CallRec
  <2> QED  BY <2>1, <2>2, <2>3
<1>7. hit => cache[i].valid /\ cache[i].host = call[p].file /\ cache[i].off = call[p].off
  BY DEF Matches
<1>8. \A d \in Slots : d < i + 1 => d < i \/ d = i
  BY <1>1, ConstantsAssumption DEF Slots
<1>9. ~(i < NCACHE) => \A d \in Slots : d < i \/ d = i
  BY <1>1, ConstantsAssumption DEF Slots
<1>10. ~hit => Passed(p, i)
  BY <1>1 DEF Passed
<1> HIDE DEF i, hit
<1>11. TypeInv'
  BY <1>1, <1>4, <1>5, <1>6 DEF Sound, TypeInv, fatfs
<1>12. InvCall'
  BY <1>1, <1>4, <1>6 DEF Sound, InvCall, CallPoints, FlushPoints
<1>13. InvTable'
  BY <1>1, <1>4 DEF Sound, InvTable, TablePoints, EvictPoints
<1>14. \A d \in Slots : /\ cache'[d].valid = cache[d].valid /\ cache'[d].host = cache[d].host
                        /\ cache'[d].off = cache[d].off
                        /\ cache'[d].data = cache[d].data /\ cache'[d].dirty = cache[d].dirty
                        /\ cache'[d].owner = IF d = i /\ hit THEN p ELSE cache[d].owner
  BY <1>1, <1>5
<1>15. InvOwner'
  <2>1. \A e \in Slots : cache[e].owner = p => e \in left
    BY <1>1, ConstantsAssumption DEF Sound, InvOwner, OwnPoints
  <2>2. \A e \in Slots : cache[e].owner \in Procs \cup {None}
    BY <1>2 DEF SlotRec
  <2>3. \A q \in Procs : pc[q] # "flush_write"
    BY <1>1 DEF Sound, InvTable, TablePoints
  <2> QED  BY <1>1, <1>4, <1>6, <1>7, <1>14, <2>1, <2>2, <2>3, ConstantsAssumption
           DEF Sound, InvOwner, OwnPoints, Matches
<1>16. InvScan'
  <2>1. ASSUME NEW q \in Procs, q # p
        PROVE  pc[q] \notin TablePoints
    BY <1>1, <2>1 DEF Sound, InvTable
  <2>2. CASE hit
    BY <1>4, <2>1, <2>2 DEF InvScan, EvictPoints, TablePoints
  <2>3. CASE ~hit
    <3>1. \A d \in Slots : Passed(p, d) => Passed(p, d)'
      BY <1>6, <1>14, <2>3 DEF Passed, Matches
    <3> QED  BY <1>1, <1>4, <1>6, <1>8, <1>9, <1>10, <2>1, <2>3, <3>1
             DEF InvScan, EvictPoints, TablePoints
  <2> QED  BY <2>2, <2>3
<1>17. InvOne' /\ InvCount' /\ InvRefs' /\ InvSeek' /\ InvClean'
  BY <1>1, <1>4, <1>6, <1>14, Quietly DEF FlushPoints, Going, NoLinks, fatfs
<1>18. InvList' /\ InvAlone'
  BY <1>1, <1>4, <1>6, <1>14 DEF Sound, InvList, InvAlone, FlushPoints, Going, NoLinks
<1> QED  BY <1>11, <1>12, <1>13, <1>15, <1>16, <1>17, <1>18 DEF Sound

(* Whoever has ctable.lock has it alone.                                    *)
LEMMA TableAlone ==
  ASSUME Sound, NEW p \in Procs, table = p, NEW q \in Procs, q # p
  PROVE  pc[q] \notin TablePoints
  BY DEF Sound, InvTable

(* The mutex of a page has one owner; and a process works on one page, and  *)
(* may have left others locked.                                             *)
LEMMA OwnerIs ==
  ASSUME Sound, NEW p \in Procs, pc[p] \in OwnPoints, NEW e \in Slots
  PROVE  /\ call[p].e \in Slots /\ cache[call[p].e].owner = p
         /\ cache[e].owner = p => e = call[p].e \/ e \in left
         /\ \A q \in Procs : pc[q] \in OwnPoints /\ call[q].e = call[p].e => q = p
<1>1. None # p /\ p \in Procs
  BY ConstantsAssumption
<1>2. pc[p] # "flush_write"
  BY DEF OwnPoints
<1> QED  BY <1>1, <1>2 DEF Sound, InvOwner

(* Two calls are about different files.                                     *)
LEMMA FilesDiffer ==
  ASSUME Sound, NEW p \in Procs, pc[p] \in CallPoints, NEW q \in Procs, q # p,
         pc[q] \in CallPoints
  PROVE  call[q].file # call[p].file
  BY DEF Sound, InvCall

(* While somebody has a page nobody evicts: who evicts has found every page *)
(* without an owner.  And who flushes is at another page, of another file.  *)
LEMMA NoWriteBack ==
  ASSUME Sound, NEW p \in Procs, pc[p] \in OwnPoints, NEW q \in Procs
  PROVE  /\ pc[q] \notin EvictPoints
         /\ pc[q] = "flush_write" =>
              call[q].i # call[p].e /\ cache[call[q].i].host # call[p].file
<1>1. None # p
  BY ConstantsAssumption
<1>2. call[p].e \in Slots /\ cache[call[p].e].owner = p
  BY DEF Sound, InvOwner
<1>3. pc[q] \notin EvictPoints
  BY <1>1, <1>2 DEF Sound, InvScan, Passed
<1>4. CASE pc[q] = "flush_write"
  <2>1. q # p /\ pc[p] # "exited"
    BY <1>4 DEF OwnPoints
  <2>2. call[q].file # None
    BY <1>4, <2>1 DEF Sound, InvAlone, FlushPoints
  <2>3. call[q].file = cache[call[q].i].host /\ ilock[call[q].file] = q
    BY <1>4, <2>2 DEF Sound, InvSeek, InvCall, FlushPoints
  <2>4. ilock[call[p].file] = p
    BY DEF Sound, InvCall, OwnPoints, CallPoints
  <2>5. cache[call[q].i].owner = q
    BY <1>4 DEF Sound, InvOwner
  <2>6. call[q].i # call[p].e
    BY <1>2, <2>1, <2>5
  <2>7. cache[call[q].i].host # call[p].file
    BY <2>1, <2>3, <2>4
  <2> QED  BY <1>3, <2>6, <2>7
<1> QED  BY <1>3, <1>4

(* So p may do with its page and its file as it likes.                      *)
LEMMA OthersSeek ==
  ASSUME Sound, NEW p \in Procs, pc[p] \in OwnPoints,
         \A q \in Procs : q # p => pc'[q] = pc[q] /\ call'[q] = call[q],
         \A d \in Slots : d # call[p].e => /\ cache'[d].valid = cache[d].valid
                                           /\ cache'[d].host = cache[d].host
                                           /\ cache'[d].off = cache[d].off,
         \A f \in Files : f # call[p].file => fptr'[f] = fptr[f],
         NEW q \in Procs, q # p
  PROVE  /\ pc'[q] # "evict_write"
         /\ pc'[q] = "flush_write" =>
              AtPage(call[q].i)' /\ call'[q].file \in {None, cache'[call'[q].i].host}
         /\ pc'[q] = "load" /\ call'[q].file \in Fixed => fptr'[call'[q].file] = call'[q].off
<1>1. pc'[q] = pc[q] /\ call'[q] = call[q]
  OBVIOUS
<1>2. pc[q] # "evict_write"
  BY NoWriteBack DEF EvictPoints
<1>3. CASE pc[q] = "flush_write"
  <2> PICK i \in Slots : i = call[q].i
    BY <1>3 DEF Sound, InvScan
  <2>1. i # call[p].e /\ cache[i].host # call[p].file
    BY <1>3, NoWriteBack
  <2>2. AtPage(i) /\ call[q].file \in {None, cache[i].host}
    BY <1>3 DEF Sound, InvSeek
  <2>3. i \in Slots /\ cache[i].host \in Files
    BY <2>2 DEF AtPage, Sound, InvOne
  <2>4. call'[q].i = i
    BY <1>1
  <2>5. AtPage(i)'
    BY <2>1, <2>2, <2>3 DEF AtPage
  <2>6. cache'[i].host = cache[i].host
    BY <2>1, <2>3
  <2>7. AtPage(call[q].i)'
    BY <2>4, <2>5 DEF AtPage
  <2> QED  BY <1>1, <1>3, <2>2, <2>4, <2>6, <2>7
<1>4. CASE pc[q] = "load"
  <2>1. call[q].file # call[p].file /\ call[q].file \in Files
    BY <1>4, FilesDiffer DEF OwnPoints, CallPoints, Sound, InvCall
  <2> QED  BY <1>1, <1>4, <2>1 DEF Sound, InvSeek
<1> QED  BY <1>1, <1>2, <1>3, <1>4

(* A step in which p keeps its page, and nobody another one.                *)
LEMMA OwnersStay ==
  ASSUME Sound, NEW p \in Procs,
         \A q \in Procs : q # p => pc'[q] = pc[q] /\ call'[q] = call[q],
         pc'[p] \in OwnPoints <=> pc[p] \in OwnPoints,
         pc[p] # "flush_write", pc'[p] # "flush_write",
         call'[p].e = call[p].e, call'[p].file = call[p].file, call'[p].off = call[p].off,
         UNCHANGED left,
         \A d \in Slots : /\ cache'[d].valid = cache[d].valid
                          /\ cache'[d].host = cache[d].host
                          /\ cache'[d].off = cache[d].off
                          /\ cache'[d].owner = cache[d].owner
  PROVE  InvOwner'
<1>1. \A q \in Procs : pc'[q] \in OwnPoints <=> pc[q] \in OwnPoints
  OBVIOUS
<1>2. \A q \in Procs : pc'[q] = "flush_write" <=> pc[q] = "flush_write"
  OBVIOUS
<1>3. \A q \in Procs : /\ call'[q].e = call[q].e /\ call'[q].file = call[q].file
                       /\ call'[q].off = call[q].off
                       /\ pc[q] = "flush_write" => call'[q].i = call[q].i
  OBVIOUS
<1>4. \A d \in Slots : cache[d].owner \in Procs \cup {None}
  BY DEF Sound, TypeInv, SlotRec
<1>5. \A q \in Procs : pc[q] = "flush_write" => call[q].i \in Slots
  BY DEF Sound, InvScan
<1> QED  BY <1>1, <1>2, <1>3, <1>4, <1>5 DEF Sound, InvOwner, Matches

(* ctable_lru_adjust() writes over entries and leaves none empty.           *)
LEMMA AdjustStep ==
  ASSUME Sound, NEW p \in Procs, Adjust(p)
  PROVE  Sound'
<1> DEFINE e == call[p].e
           j == call[p].j
<1>1. /\ pc[p] = "adjust" /\ table = p /\ e \in Slots
      /\ j \in 0 .. NCACHE /\ (Going => j = 0 \/ lru[j] # 0)
      /\ UNCHANGED <<ilock, cache, cref, fatfs, halted, calls, left>>
  BY DEF Adjust, At, Sound, TypeInv, CallRec, InvTable, InvOwner, InvList, TablePoints, OwnPoints
<1>2. lru \in [Slots -> 0 .. NCACHE] /\ call \in [Procs -> CallRec] /\ pc \in [Procs -> Points]
  BY DEF Sound, TypeInv
<1>3. NCACHE \in Nat \ {0} /\ 1 \in Slots /\ Slots \subseteq 0 .. NCACHE
  BY ConstantsAssumption DEF Slots
<1>4. /\ j > 1 => j \in Slots /\ j - 1 \in Slots /\ j - 1 \in 0 .. NCACHE
      /\ Going /\ j > 1 => lru[j] # 0 /\ lru[j - 1] # 0
      /\ ~(j > 1) => j = 0 \/ j = 1
  <2>1. j > 1 => j \in Slots /\ j - 1 \in Slots /\ j - 1 \in 0 .. NCACHE
    BY <1>1, <1>3 DEF Slots
  <2>2. ~(j > 1) => j = 0 \/ j = 1
    BY <1>1, <1>3
  <2>3. Going /\ j > 1 => lru[j] # 0
    BY <1>1, <1>3
  <2> QED  BY <2>1, <2>2, <2>3 DEF Sound, InvList
<1>5. /\ lru' \in [Slots -> 0 .. NCACHE]
      /\ Going => \A k \in Slots : lru'[k] = 0 <=> lru[k] = 0
  <2>1. CASE j > 1
    <3>1. lru' = [lru EXCEPT ![j] = lru[j - 1]]
      BY <2>1 DEF Adjust
    <3> HIDE DEF e, j
    <3> QED  BY <1>1, <1>2, <1>3, <1>4, <2>1, <3>1
  <2>2. CASE ~(j > 1)
    <3>1. IF j = 1 THEN lru' = [lru EXCEPT ![1] = e] ELSE UNCHANGED lru
      BY <2>2 DEF Adjust
    <3>2. e # 0 /\ e \in 0 .. NCACHE
      BY <1>1, <1>3 DEF Slots
    <3> HIDE DEF e, j
    <3> QED  BY <1>1, <1>2, <1>3, <1>4, <2>2, <3>1, <3>2
  <2> QED  BY <2>1, <2>2
<1>6. /\ call' \in [Procs -> CallRec]
      /\ \A q \in Procs : q # p => call'[q] = call[q]
      /\ call'[p].file = call[p].file /\ call'[p].op = call[p].op /\ call'[p].off = call[p].off
      /\ call'[p].e = call[p].e /\ call'[p].j = IF j > 1 THEN j - 1 ELSE 0
  <2>1. call' = [call EXCEPT ![p].j = IF j > 1 THEN j - 1 ELSE 0]
    BY DEF Adjust
  <2>2. (IF j > 1 THEN j - 1 ELSE 0) \in 0 .. NCACHE
    BY <1>3, <1>4
  <2> DEFINE k == IF j > 1 THEN j - 1 ELSE 0
  <2>3. call' = [call EXCEPT ![p].j = k] /\ k \in 0 .. NCACHE
    BY <2>1, <2>2
  <2> HIDE DEF j, k
  <2>4. call'[p].j = k
    BY <1>2, <2>3 DEF CallRec
  <2> QED  BY <1>2, <2>3, <2>4 DEF CallRec, k
<1>7. /\ pc' \in [Procs -> Points]
      /\ \A q \in Procs : q # p => pc'[q] = pc[q]
      /\ pc'[p] = IF j > 1 THEN "adjust" ELSE "copy"
      /\ table' = IF j > 1 THEN p ELSE None
  <2>1. IF j > 1 THEN UNCHANGED <<pc, table>> ELSE table' = None /\ Goto(p, "copy")
    BY DEF Adjust
  <2>2. "copy" \in Points
    BY DEF Points, CallPoints
  <2> QED  BY <1>1, <1>2, <2>1, <2>2 DEF Goto
<1>8. /\ call'[p].j = 0 \/ pc'[p] = "adjust"
      /\ Going => call'[p].j = 0 \/ lru'[call'[p].j] # 0
  BY <1>4, <1>5, <1>6, <1>7
<1> HIDE DEF e, j
<1>9. pc'[p] \in {"adjust", "copy"} /\ (pc'[p] = "adjust" <=> table' = p) /\ table' \in {p, None}
      /\ None \notin Procs /\ (pc'[p] = "copy" => call'[p].j = 0)
  BY <1>6, <1>7, ConstantsAssumption
<1> HIDE <1>7
<1>10. pc' \in [Procs -> Points] /\ \A q \in Procs : q # p => pc'[q] = pc[q]
  BY <1>7
<1>11. TypeInv'
  BY <1>1, <1>5, <1>6, <1>9, <1>10 DEF Sound, TypeInv, fatfs
<1>12. InvCall'
  BY <1>1, <1>6, <1>9, <1>10 DEF Sound, InvCall, CallPoints, FlushPoints
<1>13. InvTable'
  <2>1. \A q \in Procs : q # p => pc[q] \notin TablePoints
    BY <1>1, TableAlone
  <2> QED  BY <1>9, <1>10, <2>1 DEF InvTable, TablePoints, EvictPoints
<1>14. InvOwner'
  BY <1>1, <1>6, <1>9, <1>10, OwnersStay DEF OwnPoints
<1>15. InvScan'
  BY <1>1, <1>6, <1>9, <1>10 DEF Sound, InvScan, EvictPoints, Passed, Matches
<1>16. InvOne' /\ InvCount' /\ InvRefs' /\ \A d \in Slots : Reading(d)' <=> Reading(d)
  BY <1>1, <1>5, <1>6, <1>9, <1>10, Steady DEF FlushPoints, Going
<1>17. InvSeek'
  <2>1. \A q \in Procs : pc[q] \notin {"evict_write", "flush_write"}
    BY <1>1, TableAlone DEF TablePoints, EvictPoints
  <2> QED  BY <1>1, <1>6, <1>9, <1>10, <2>1 DEF Sound, InvSeek, fatfs
<1>18. InvClean'
  BY <1>1, <1>16 DEF Sound, InvClean, fatfs
<1>19. InvList'
  <2>1. \A q \in Procs : q # p => pc'[q] # "adjust"
    <3>1. \A q \in Procs : q # p => pc[q] # "adjust"
      BY <1>1, TableAlone DEF TablePoints
    <3> QED  BY <1>10, <3>1
  <2>2. \A k \in Slots : k > 1 => k - 1 \in Slots
    BY <1>3 DEF Slots
  <2>3. Going' => Going
    BY <1>1 DEF Going, FlushPoints
  <2> QED  BY <1>5, <1>8, <2>1, <2>2, <2>3 DEF Sound, InvList
<1>20. InvAlone'
  BY <1>1, <1>6, <1>9, <1>10 DEF Sound, InvAlone, FlushPoints
<1> QED
  BY <1>11, <1>12, <1>13, <1>14, <1>15, <1>16, <1>17, <1>18, <1>19, <1>20 DEF Sound

(* A panic stops the machine and changes nothing else.                      *)
LEMMA HaltStep ==
  ASSUME Sound, halted' = TRUE,
         UNCHANGED <<pc, call, ilock, table, cache, lru, cref, fatfs, calls, left>>
  PROVE  Sound'
<1>1. UNCHANGED <<size, disk, fptr>>
  BY DEF fatfs
<1>2. TypeInv' /\ InvCall' /\ InvTable' /\ InvOwner' /\ InvScan' /\ InvOne' /\ InvList'
  BY <1>1 DEF Sound, TypeInv, InvCall, InvTable, InvOwner, InvScan, InvOne, InvList, Passed, Matches, Going
<1>3. InvCount' /\ InvRefs' /\ InvAlone'
  BY DEF Sound, InvCount, InvRefs, InvAlone, Listed, Full, HeldBy, Unlisted, New, Going
<1>4. InvSeek' /\ InvClean'
  BY <1>1 DEF Sound, InvSeek, InvClean, LastAtPage, LruLast, AtPage, Reading
<1> QED  BY <1>2, <1>3, <1>4 DEF Sound

(* A free slot is taken for the page, which no other slot has.              *)
LEMMA FindEmptyTake ==
  ASSUME Sound, NEW p \in Procs, FindEmpty(p), ~cache[call[p].i].valid, pc' # pc
  PROVE  Sound'
<1>0. call[p].i \in Slots
  BY DEF FindEmpty, At, Sound, InvScan
<1> PICK i \in Slots : i = call[p].i
  BY <1>0
<1> DEFINE new == [EmptySlot EXCEPT !.valid = TRUE, !.host = call[p].file, !.off = call[p].off,
                                    !.owner = p]
<1>1. /\ pc[p] = "empty" /\ table = p /\ cache[i].owner = None /\ ~cache[i].valid
      /\ \A d \in Slots : Passed(p, d)
      /\ call[p].j = 0 /\ call[p].file \in Files
      /\ UNCHANGED <<ilock, lru, cref, fatfs, calls, left>>
  BY DEF FindEmpty, At, Unheld, Sound, InvTable, InvScan, InvCall, TablePoints, CallPoints
<1>2. cache \in [Slots -> SlotRec] /\ call \in [Procs -> CallRec] /\ pc \in [Procs -> Points]
  BY DEF Sound, TypeInv
<1>3. NCACHE \in Nat \ {0} /\ Slots \subseteq 0 .. NCACHE /\ 0 \in 0 .. NCACHE /\ None \notin Procs
  BY ConstantsAssumption DEF Slots
<1>4. /\ cache' = [cache EXCEPT ![i] = new]
      /\ call' = [call EXCEPT ![p].i = 0, ![p].e = i]
      /\ table' = None /\ Goto(p, "seek")
  BY <1>1 DEF FindEmpty
<1>41. UNCHANGED halted
  BY <1>1 DEF FindEmpty
<1>5. /\ pc' \in [Procs -> Points] /\ pc'[p] = "seek"
      /\ \A q \in Procs : q # p => pc'[q] = pc[q]
  BY <1>2, <1>4 DEF Goto, Points, CallPoints
<1>6. /\ call' \in [Procs -> CallRec]
      /\ \A q \in Procs : q # p => call'[q] = call[q]
      /\ call'[p].file = call[p].file /\ call'[p].op = call[p].op /\ call'[p].off = call[p].off
      /\ call'[p].j = call[p].j /\ call'[p].e = i
  <2>1. i \in 0 .. NCACHE
    BY <1>3
  <2> DEFINE r == [call[p] EXCEPT !.i = 0, !.e = i]
  <2>2. call[p] \in CallRec /\ call' = [call EXCEPT ![p] = r]
    BY <1>2, <1>4
  <2>3. /\ r \in CallRec /\ r.file = call[p].file /\ r.op = call[p].op /\ r.off = call[p].off
        /\ r.j = call[p].j /\ r.e = i
    BY <1>3, <2>1, <2>2 DEF CallRec
  <2> HIDE DEF r
  <2> QED  BY <1>2, <2>2, <2>3
<1>7. /\ new \in SlotRec /\ new.valid /\ new.host = call[p].file /\ new.off = call[p].off
      /\ new.owner = p
  <2>1. EmptySlot \in SlotRec
    BY ConstantsAssumption DEF EmptySlot, SlotRec, Pages
  <2>2. call[p].file \in Files /\ call[p].off \in Pages
    BY <1>1, <1>2 DEF CallRec
  <2> QED  BY <2>1, <2>2 DEF SlotRec
<1> HIDE DEF new
<1>8. /\ cache' \in [Slots -> SlotRec]
      /\ \A d \in Slots : d # i => cache'[d] = cache[d]
      /\ cache'[i].valid /\ cache'[i].host = call[p].file /\ cache'[i].off = call[p].off
      /\ cache'[i].owner = p
  BY <1>1, <1>2, <1>4, <1>7
<1>9. TypeInv'
  BY <1>1, <1>4, <1>41, <1>5, <1>6, <1>8 DEF Sound, TypeInv, fatfs
<1>10. InvCall'
  BY <1>1, <1>5, <1>6 DEF Sound, InvCall, CallPoints, FlushPoints
<1>11. \A q \in Procs : q # p => pc[q] \notin TablePoints
  BY <1>1, TableAlone
<1>12. InvTable'
  BY <1>3, <1>4, <1>5, <1>11 DEF InvTable, TablePoints, EvictPoints
<1>13. \A q \in Procs : pc[q] \in OwnPoints => call[q].e # i
  BY <1>1, <1>3 DEF Sound, InvOwner
<1>14. \A d \in Slots : ~Passed(p, d)' => d = i
  BY <1>1, <1>6, <1>8 DEF Passed, Matches
<1>15. InvOwner'
  <2>1. \A d \in Slots : cache[d].owner # p
    BY <1>1, <1>3 DEF Passed
  <2>2. \A d \in Slots : cache[d].owner \in Procs \cup {None}
    BY <1>2 DEF SlotRec
  <2>3. \A q \in Procs : pc[q] # "flush_write"
    BY <1>1 DEF Sound, InvTable, TablePoints
  <2> QED  BY <1>1, <1>5, <1>6, <1>8, <1>13, <2>1, <2>2, <2>3
           DEF Sound, InvOwner, OwnPoints, Matches
<1>16. InvScan'
  BY <1>5, <1>11 DEF InvScan, TablePoints, EvictPoints
<1>17. InvOne'
  <2>1. \A d \in Slots : ~(cache[d].valid /\ cache[d].host = call[p].file
                           /\ cache[d].off = call[p].off)
    BY <1>1 DEF Passed, Matches
  <2> QED  BY <1>1, <1>8, <2>1 DEF Sound, InvOne
<1>18. /\ \A d \in Slots : d # i => (Reading(d)' <=> Reading(d)) /\ (New(d)' <=> New(d))
                                    /\ (Unlisted(d)' <=> Unlisted(d))
       /\ Reading(i)' /\ New(i)' /\ Unlisted(i)'
  <2>1. \A d \in Slots : d # i => (Reading(d)' <=> Reading(d)) /\ (New(d)' <=> New(d))
    BY <1>1, <1>5, <1>6 DEF Reading, New
  <2>2. Reading(i)' /\ New(i)'
    BY <1>5, <1>6 DEF Reading, New
  <2> QED  BY <1>1, <1>5, <1>6, <2>1, <2>2 DEF Unlisted
<1>19. InvCount'
  <2>1. Full' = Full /\ Listed' = Listed
    BY <1>1, <1>8, <1>18 DEF Full, Listed
  <2>2. Going' => Going
    BY <1>1 DEF Going, FlushPoints
  <2> QED  BY <2>1, <2>2 DEF Sound, InvCount
<1>20. InvRefs'
  <2>1. \A f \in Files : HeldBy(f)' = HeldBy(f)
    BY <1>1, <1>8, <1>18 DEF HeldBy
  <2> QED  BY <1>1, <2>1 DEF Sound, InvRefs
<1>21. InvSeek'
  <2>1. \A q \in Procs : pc[q] \notin {"evict_write", "flush_write"}
    BY <1>1, <1>11 DEF TablePoints, EvictPoints
  <2> QED  BY <1>1, <1>5, <1>6, <2>1 DEF Sound, InvSeek, fatfs
<1>22. InvClean'
  BY <1>1, <1>8, <1>18 DEF Sound, InvClean, fatfs
<1>23. InvList' /\ InvAlone'
  BY <1>1, <1>5, <1>6 DEF Sound, InvList, InvAlone, FlushPoints, Going, NoLinks
<1> QED
  BY <1>9, <1>10, <1>12, <1>15, <1>16, <1>17, <1>19, <1>20, <1>21, <1>22, <1>23 DEF Sound

(* Or the slot is in use, and the next one is tried, a page evicted, or the *)
(* call given up.                                                           *)
LEMMA FindEmptyStep ==
  ASSUME Sound, NEW p \in Procs, FindEmpty(p)
  PROVE  Sound'
<1> DEFINE i == call[p].i
<1>0. CASE ~cache[i].valid /\ halted' = TRUE /\ UNCHANGED <<pc, call, table, cache>>
  BY <1>0, HaltStep DEF FindEmpty
<1>1. CASE ~cache[i].valid /\ pc' # pc
  BY <1>1, FindEmptyTake
<1>2. CASE cache[i].valid
  <2>1. /\ pc[p] = "empty" /\ table = p /\ i \in Slots
        /\ \A d \in Slots : Passed(p, d)
        /\ call[p].j = 0
        /\ UNCHANGED <<ilock, cache, lru, cref, fatfs, halted, calls, left>>
    BY <1>2 DEF FindEmpty, At, Unheld, Sound, InvTable, InvScan, InvCall, TablePoints, CallPoints
  <2>2. call \in [Procs -> CallRec] /\ pc \in [Procs -> Points]
    BY DEF Sound, TypeInv
  <2>3. /\ NCACHE \in Nat \ {0} /\ Slots \subseteq 0 .. NCACHE
        /\ 0 \in 0 .. NCACHE /\ None \notin Procs
    BY ConstantsAssumption DEF Slots
  <2>4. /\ pc' \in [Procs -> Points] /\ pc'[p] \in {"empty", "evict", "unlock"}
        /\ \A q \in Procs : q # p => pc'[q] = pc[q]
        /\ pc'[p] \in TablePoints <=> table' = p
        /\ table' \in {p, None}
    BY <1>2, <2>1, <2>2, <2>3 DEF FindEmpty, Goto, Points, CallPoints, TablePoints, EvictPoints
  <2>5. /\ call' \in [Procs -> CallRec]
        /\ \A q \in Procs : q # p => call'[q] = call[q]
        /\ call'[p].file = call[p].file /\ call'[p].op = call[p].op /\ call'[p].off = call[p].off
        /\ call'[p].j = call[p].j
        /\ pc'[p] = "empty" => call'[p].i \in Slots
    <3>1. CASE i < NCACHE /\ call' = [call EXCEPT ![p].i = i + 1]
      <4>1. i + 1 \in Slots
        BY <2>1, <2>3, <3>1 DEF Slots
      <4> HIDE DEF i
      <4> QED  BY <2>2, <2>3, <3>1, <4>1 DEF CallRec
    <3>2. CASE pc'[p] # "empty" /\ call' = [call EXCEPT ![p].i = 0, ![p].retried = TRUE]
      <4> DEFINE r == [call[p] EXCEPT !.i = 0, !.retried = TRUE]
      <4>1. call[p] \in CallRec
        BY <2>2
      <4>2. /\ r \in CallRec
            /\ r.file = call[p].file /\ r.op = call[p].op /\ r.off = call[p].off
            /\ r.j = call[p].j
        BY <2>3, <4>1 DEF CallRec
      <4>3. call' = [call EXCEPT ![p] = r]
        BY <3>2
      <4> HIDE DEF r
      <4> QED  BY <2>2, <3>2, <4>2, <4>3
    <3>3. CASE pc'[p] # "empty" /\ call' = [call EXCEPT ![p].i = 0]
      BY <2>2, <2>3, <3>3 DEF CallRec
    <3>4. \/ i < NCACHE /\ call' = [call EXCEPT ![p].i = i + 1]
          \/ pc'[p] # "empty" /\ call' = [call EXCEPT ![p].i = 0, ![p].retried = TRUE]
          \/ pc'[p] # "empty" /\ call' = [call EXCEPT ![p].i = 0]
      BY <1>2, <2>1, <2>2 DEF FindEmpty, Goto
    <3> QED  BY <3>1, <3>2, <3>3, <3>4
  <2> HIDE DEF i
  <2>6. TypeInv'
    BY <2>1, <2>4, <2>5 DEF Sound, TypeInv, fatfs
  <2>7. InvCall'
    BY <2>1, <2>4, <2>5 DEF Sound, InvCall, CallPoints, FlushPoints
  <2>8. InvTable'
    <3>1. \A q \in Procs : q # p => pc[q] \notin TablePoints
      BY <2>1, TableAlone
    <3> QED  BY <2>3, <2>4, <3>1 DEF InvTable
  <2>9. InvOwner'
    <3>1. \A d \in Slots : cache[d].owner # p
      BY <2>1, <2>3 DEF Passed
    <3>2. \A d \in Slots : cache[d].owner \in Procs \cup {None}
      BY DEF Sound, TypeInv, SlotRec
    <3> QED  BY <2>1, <2>4, <2>5, <3>1, <3>2 DEF Sound, InvOwner, OwnPoints, Matches
  <2>10. InvScan'
    BY <2>1, <2>4, <2>5 DEF Sound, InvScan, EvictPoints, Passed, Matches
  <2>11. InvOne' /\ InvCount' /\ InvRefs' /\ InvSeek' /\ InvClean'
    BY <2>1, <2>4, <2>5, Quietly DEF FlushPoints, Going, NoLinks, fatfs
  <2>12. InvList' /\ InvAlone'
    BY <2>1, <2>4, <2>5 DEF Sound, InvList, InvAlone, FlushPoints, Going, NoLinks
  <2> QED  BY <2>6, <2>7, <2>8, <2>9, <2>10, <2>11, <2>12 DEF Sound
<1>3. ~cache[i].valid => \/ halted' = TRUE /\ UNCHANGED <<pc, call, table, cache>>
                         \/ pc' # pc
  <2>1. pc[p] = "empty" /\ pc \in [Procs -> Points]
    BY DEF FindEmpty, At, Sound, TypeInv
  <2> QED  BY <2>1 DEF FindEmpty, Goto
<1> QED  BY <1>0, <1>1, <1>2, <1>3

(* The position for the read is set, with the file's lock and the mutex of  *)
(* the page, so that no other position and no write-back is disturbed.      *)
LEMMA SeekStep ==
  ASSUME Sound, NEW p \in Procs, Seek(p)
  PROVE  Sound'
<1>1. /\ pc[p] = "seek" /\ call[p].file \in Files /\ call[p].off \in Pages
      /\ UNCHANGED <<call, ilock, table, cache, lru, cref, halted, calls, left>>
  BY DEF Seek, At, Sound, TypeInv, CallRec, InvCall, CallPoints
<1>2. /\ pc' \in [Procs -> Points] /\ pc'[p] = "load"
      /\ \A q \in Procs : q # p => pc'[q] = pc[q]
  BY DEF Seek, Goto, Sound, TypeInv, Points, CallPoints
<1>3. NPage \in Nat \ {0} /\ Fixed \subseteq Files /\ Pages \subseteq 0 .. NPage
  BY ConstantsAssumption DEF Pages
<1>4. /\ UNCHANGED disk
      /\ fptr' \in [Files -> 0 .. NPage + 1] /\ size' \in [Files -> 0 .. NPage + 1]
      /\ \A g \in Files : g # call[p].file => fptr'[g] = fptr[g] /\ size'[g] = size[g]
      /\ fptr'[call[p].file] = call[p].off
      /\ size'[call[p].file] = IF size[call[p].file] >= call[p].off THEN size[call[p].file]
                                                                    ELSE call[p].off
  BY <1>1, <1>3, FSeekTypes DEF Seek, Sound, TypeInv
<1>5. \A f \in Fixed : size'[f] = NPage
  <2>1. NPage >= call[p].off
    BY <1>1, <1>3 DEF Pages
  <2> QED  BY <1>3, <1>4, <2>1 DEF Sound, InvClean
<1>6. TypeInv'
  BY <1>1, <1>2, <1>4 DEF Sound, TypeInv
<1>7. InvCall'
  BY <1>1, <1>2 DEF Sound, InvCall, CallPoints, FlushPoints
<1>8. InvTable'
  BY <1>1, <1>2 DEF Sound, InvTable, TablePoints, EvictPoints
<1>9. InvOwner'
  BY <1>1, <1>2, OwnersStay DEF OwnPoints
<1>10. InvScan' /\ InvOne'
  BY <1>1, <1>2 DEF Sound, InvScan, InvOne, EvictPoints, Passed, Matches
<1>11. \A e \in Slots : (Reading(e)' <=> Reading(e)) /\ (New(e)' <=> New(e))
  BY <1>1, <1>2 DEF Reading, New
<1>12. \A e \in Slots : Unlisted(e)' <=> Unlisted(e)
  BY <1>1, <1>2, <1>11 DEF Unlisted
<1>13. InvCount'
  <2>1. Full' = Full /\ Listed' = Listed
    BY <1>1, <1>12 DEF Full, Listed
  <2> QED  BY <1>1, <2>1 DEF Sound, InvCount, FlushPoints, Going
<1>14. InvRefs'
  <2>1. \A f \in Files : HeldBy(f)' = HeldBy(f)
    BY <1>1, <1>11 DEF HeldBy
  <2> QED  BY <1>1, <2>1 DEF Sound, InvRefs
<1>15. InvSeek'
  <2> SUFFICES ASSUME NEW q \in Procs, q # p
               PROVE  /\ pc'[q] # "evict_write"
                      /\ pc'[q] = "flush_write" =>
                           /\ AtPage(call[q].i)'
                           /\ call'[q].file \in {None, cache'[call'[q].i].host}
                      /\ pc'[q] = "load" /\ call'[q].file \in Fixed =>
                           fptr'[call'[q].file] = call'[q].off
    BY <1>1, <1>2, <1>4 DEF InvSeek
  <2> QED  BY <1>1, <1>2, <1>4, OthersSeek DEF OwnPoints
<1>16. InvClean'
  BY <1>1, <1>4, <1>5, <1>11 DEF Sound, InvClean
<1>17. InvList' /\ InvAlone'
  BY <1>1, <1>2 DEF Sound, InvList, InvAlone, FlushPoints, Going, NoLinks
<1> QED
  BY <1>6, <1>7, <1>8, <1>9, <1>10, <1>13, <1>14, <1>15, <1>16, <1>17 DEF Sound

(* The page is read: for a file that is not resized, what is on the disk.   *)
LEMMA LoadStep ==
  ASSUME Sound, NEW p \in Procs, Load(p)
  PROVE  Sound'
<1>1. /\ pc[p] = "load" /\ call[p].file \in Files /\ call[p].off \in Pages
      /\ call[p].e \in Slots /\ cache[call[p].e].owner = p /\ Matches(call[p].e, call[p])
      /\ UNCHANGED <<call, ilock, table, lru, cref, size, disk, halted, calls, left>>
  BY DEF Load, At, Sound, TypeInv, CallRec, InvCall, CallPoints, InvOwner, OwnPoints
<1> PICK e \in Slots : e = call[p].e
  BY <1>1
<1> PICK f \in Files : f = call[p].file
  BY <1>1
<1>2. /\ pc' \in [Procs -> Points] /\ pc'[p] = "idup"
      /\ \A q \in Procs : q # p => pc'[q] = pc[q]
  BY DEF Load, Goto, Sound, TypeInv, Points, CallPoints
<1>3. /\ NPage \in Nat \ {0} /\ Fixed \subseteq Files /\ 0 \in Val
      /\ size[f] \in 0 .. NPage + 1 /\ fptr[f] \in 0 .. NPage + 1
      /\ disk[f] \in [0 .. NPage -> Val]
  BY ConstantsAssumption DEF Sound, TypeInv
<1>4. FReads(f) \in Val /\ (f \in Fixed => FReads(f) = disk[f][call[p].off])
  <2>1. FReads(f) \in Val
    <3>1. fptr[f] < size[f] => fptr[f] \in 0 .. NPage
      BY <1>3
    <3> QED  BY <1>3, <3>1 DEF FReads
  <2>2. f \in Fixed => fptr[f] = call[p].off /\ size[f] = NPage
    BY <1>1 DEF Sound, InvSeek, InvClean
  <2>3. call[p].off < NPage
    BY <1>1, <1>3 DEF Pages
  <2> QED  BY <2>1, <2>2, <2>3 DEF FReads
<1>5. /\ fptr' \in [Files -> 0 .. NPage + 1]
      /\ \A g \in Files : g # f => fptr'[g] = fptr[g]
  <2>1. fptr' = [fptr EXCEPT ![f] = IF fptr[f] < size[f] THEN fptr[f] + 1 ELSE fptr[f]]
    BY DEF Load
  <2>2. (IF fptr[f] < size[f] THEN fptr[f] + 1 ELSE fptr[f]) \in 0 .. NPage + 1
    BY <1>3
  <2> QED  BY <2>1, <2>2 DEF Sound, TypeInv
<1>6. /\ cache' \in [Slots -> SlotRec]
      /\ \A d \in Slots : d # e => cache'[d] = cache[d]
      /\ cache'[e].data = FReads(f)
      /\ \A d \in Slots : /\ cache'[d].valid = cache[d].valid
                          /\ cache'[d].host = cache[d].host
                          /\ cache'[d].off = cache[d].off
                          /\ cache'[d].owner = cache[d].owner
  <2>1. cache' = [cache EXCEPT ![e].data = FReads(f)] /\ cache \in [Slots -> SlotRec]
    BY DEF Load, Sound, TypeInv
  <2> DEFINE v == FReads(f)
  <2>2. cache' = [cache EXCEPT ![e].data = v] /\ v \in Val
    BY <1>4, <2>1
  <2> HIDE DEF v
  <2>3. cache' \in [Slots -> SlotRec] /\ cache'[e].data = v
    BY <2>1, <2>2 DEF SlotRec
  <2>4. \A d \in Slots : /\ cache'[d].valid = cache[d].valid
                         /\ cache'[d].host = cache[d].host
                         /\ cache'[d].off = cache[d].off
                         /\ cache'[d].owner = cache[d].owner
    BY <2>1, <2>2 DEF SlotRec
  <2>5. \A d \in Slots : d # e => cache'[d] = cache[d]
    BY <2>1, <2>2
  <2> QED  BY <2>3, <2>4, <2>5 DEF v
<1>7. TypeInv'
  BY <1>1, <1>2, <1>5, <1>6 DEF Sound, TypeInv
<1>8. InvCall'
  BY <1>1, <1>2 DEF Sound, InvCall, CallPoints, FlushPoints
<1>9. InvTable'
  BY <1>1, <1>2 DEF Sound, InvTable, TablePoints, EvictPoints
<1>10. InvOwner'
  BY <1>1, <1>2, <1>6, OwnersStay DEF OwnPoints
<1>11. InvScan' /\ InvOne'
  BY <1>1, <1>2, <1>6 DEF Sound, InvScan, InvOne, EvictPoints, Passed, Matches
<1>12. \A d \in Slots : (New(d)' <=> New(d)) /\ (d # e => (Reading(d)' <=> Reading(d)))
  BY <1>1, <1>2 DEF Reading, New
<1>13. \A d \in Slots : Unlisted(d)' <=> Unlisted(d)
  BY <1>1, <1>2, <1>12 DEF Unlisted
<1>14. InvCount'
  <2>1. Full' = Full /\ Listed' = Listed
    BY <1>1, <1>6, <1>13 DEF Full, Listed
  <2> QED  BY <1>1, <2>1 DEF Sound, InvCount, FlushPoints, Going
<1>15. InvRefs'
  <2>1. \A g \in Files : HeldBy(g)' = HeldBy(g)
    BY <1>6, <1>12 DEF HeldBy
  <2> QED  BY <1>1, <2>1 DEF Sound, InvRefs
<1>16. InvSeek'
  <2> SUFFICES ASSUME NEW q \in Procs, q # p
               PROVE  /\ pc'[q] # "evict_write"
                      /\ pc'[q] = "flush_write" =>
                           /\ AtPage(call[q].i)'
                           /\ call'[q].file \in {None, cache'[call'[q].i].host}
                      /\ pc'[q] = "load" /\ call'[q].file \in Fixed =>
                           fptr'[call'[q].file] = call'[q].off
    BY <1>1, <1>2 DEF InvSeek
  <2> QED  BY <1>1, <1>2, <1>5, <1>6, OthersSeek DEF OwnPoints
<1>17. InvClean'
  <2>1. cache'[e].host = f /\ cache'[e].off = call[p].off
    BY <1>1, <1>6 DEF Matches
  <2> QED  BY <1>1, <1>4, <1>6, <1>12, <2>1 DEF Sound, InvClean
<1>18. InvList' /\ InvAlone'
  BY <1>1, <1>2, <1>6 DEF Sound, InvList, InvAlone, FlushPoints, Going, NoLinks
<1> QED
  BY <1>7, <1>8, <1>9, <1>10, <1>11, <1>14, <1>15, <1>16, <1>17, <1>18 DEF Sound

(* The read fails, and the slot, which counted nowhere, is given back.      *)
LEMMA ReadFailsStep ==
  ASSUME Sound, NEW p \in Procs, ReadFails(p)
  PROVE  Sound'
<1>1. /\ pc[p] \in {"seek", "load"}
      /\ call[p].e \in Slots /\ cache[call[p].e].owner = p
      /\ cache' = [cache EXCEPT ![call[p].e] = EmptySlot]
      /\ call' = [call EXCEPT ![p].e = 0]
      /\ UNCHANGED <<ilock, table, lru, cref, fatfs, halted, calls, left>>
  BY DEF ReadFails, At, GiveUp, Sound, InvOwner, OwnPoints
<1> PICK e \in Slots : e = call[p].e
  BY <1>1
<1>2. cache \in [Slots -> SlotRec] /\ call \in [Procs -> CallRec] /\ pc \in [Procs -> Points]
  BY DEF Sound, TypeInv
<1>3. 0 \in 0 .. NCACHE /\ None \notin Procs /\ EmptySlot \in SlotRec /\ ~EmptySlot.valid
      /\ EmptySlot.owner = None
  BY ConstantsAssumption DEF EmptySlot, SlotRec, Pages
<1>4. /\ pc' \in [Procs -> Points] /\ pc'[p] = "unlock"
      /\ \A q \in Procs : q # p => pc'[q] = pc[q]
  BY <1>2 DEF ReadFails, Goto, Points, CallPoints
<1>5. /\ call' \in [Procs -> CallRec]
      /\ \A q \in Procs : q # p => call'[q] = call[q]
      /\ call'[p].file = call[p].file /\ call'[p].op = call[p].op /\ call'[p].j = call[p].j
  BY <1>1, <1>2, <1>3 DEF CallRec
<1>6. /\ cache' \in [Slots -> SlotRec]
      /\ \A d \in Slots : d # e => cache'[d] = cache[d]
      /\ ~cache'[e].valid /\ cache'[e].owner = None
  BY <1>1, <1>2, <1>3
<1>7. \A d \in Slots : cache[d].owner = p => d = e \/ d \in left
  BY <1>1, OwnerIs DEF OwnPoints
<1>8. \A q \in Procs : pc[q] \in OwnPoints /\ call[q].e = e => q = p
  BY <1>1, OwnerIs DEF OwnPoints
<1>9. TypeInv'
  BY <1>1, <1>4, <1>5, <1>6 DEF Sound, TypeInv, fatfs
<1>10. InvCall'
  BY <1>1, <1>4, <1>5 DEF Sound, InvCall, CallPoints, FlushPoints
<1>11. InvTable'
  BY <1>1, <1>4 DEF Sound, InvTable, TablePoints, EvictPoints
<1>12. InvOwner'
  <2>1. \A d \in Slots : cache[d].owner \in Procs \cup {None}
    BY <1>2 DEF SlotRec
  <2>2. \A q \in Procs : pc[q] = "flush_write" => call[q].i \in Slots /\ call[q].i # e
    BY <1>1, NoWriteBack DEF OwnPoints, Sound, InvScan
  <2> QED  BY <1>1, <1>3, <1>4, <1>5, <1>6, <1>7, <1>8, <2>1, <2>2
           DEF Sound, InvOwner, OwnPoints, Matches
<1>13. InvScan' /\ InvOne'
  BY <1>1, <1>4, <1>5, <1>6 DEF Sound, InvScan, InvOne, EvictPoints, Passed, Matches
<1>14. /\ \A d \in Slots : d # e => (Reading(d)' <=> Reading(d)) /\ (New(d)' <=> New(d))
                                    /\ (Unlisted(d)' <=> Unlisted(d))
       /\ New(e) /\ Unlisted(e)
  <2>1. \A d \in Slots : d # e => (Reading(d)' <=> Reading(d)) /\ (New(d)' <=> New(d))
    BY <1>1, <1>4, <1>5 DEF Reading, New
  <2>2. New(e)
    BY <1>1 DEF New
  <2> QED  BY <1>1, <1>4, <1>5, <2>1, <2>2 DEF Unlisted
<1>15. InvCount'
  <2>1. Full' = Full /\ Listed' = Listed
    BY <1>1, <1>6, <1>14 DEF Full, Listed
  <2> QED  BY <1>1, <2>1 DEF Sound, InvCount, FlushPoints, Going
<1>16. InvRefs'
  <2>1. \A f \in Files : HeldBy(f)' = HeldBy(f)
    BY <1>6, <1>14 DEF HeldBy
  <2> QED  BY <1>1, <2>1 DEF Sound, InvRefs
<1>17. InvSeek'
  <2> SUFFICES ASSUME NEW q \in Procs, q # p
               PROVE  /\ pc'[q] # "evict_write"
                      /\ pc'[q] = "flush_write" =>
                           /\ AtPage(call[q].i)'
                           /\ call'[q].file \in {None, cache'[call'[q].i].host}
                      /\ pc'[q] = "load" /\ call'[q].file \in Fixed =>
                           fptr'[call'[q].file] = call'[q].off
    BY <1>4 DEF InvSeek
  <2> QED  BY <1>1, <1>4, <1>5, <1>6, OthersSeek DEF OwnPoints, fatfs
<1>18. InvClean'
  BY <1>1, <1>6, <1>14 DEF Sound, InvClean, fatfs
<1>19. InvList' /\ InvAlone'
  BY <1>1, <1>4, <1>5, <1>6 DEF Sound, InvList, InvAlone, FlushPoints, Going, NoLinks
<1> QED
  BY <1>9, <1>10, <1>11, <1>12, <1>13, <1>15, <1>16, <1>17, <1>18, <1>19 DEF Sound

-----------------------------------------------------------------------------
(* How many slots there are in a set of them.                               *)
LEMMA SlotSets ==
  ASSUME NEW T \in SUBSET Slots, NEW e \in Slots
  PROVE  /\ IsFiniteSet(T) /\ Cardinality(T) \in Nat /\ Cardinality(T) <= NCACHE
         /\ e \notin T => Cardinality(T) < NCACHE
         /\ Cardinality(T \cup {e}) = IF e \in T THEN Cardinality(T) ELSE Cardinality(T) + 1
         /\ Cardinality(T \ {e}) = IF e \in T THEN Cardinality(T) - 1 ELSE Cardinality(T)
<1>1. IsFiniteSet(Slots) /\ Cardinality(Slots) = NCACHE /\ NCACHE \in Nat
  BY FS_Interval, ConstantsAssumption DEF Slots
<1>2. IsFiniteSet(T) /\ Cardinality(T) <= NCACHE /\ (Cardinality(T) = NCACHE => T = Slots)
  BY <1>1, FS_Subset
<1>3. Cardinality(T) \in Nat
  BY <1>2, FS_CardinalityType
<1>4. Cardinality(T \cup {e}) = IF e \in T THEN Cardinality(T) ELSE Cardinality(T) + 1
  BY <1>2, FS_AddElement
<1>5. Cardinality(T \ {e}) = IF e \in T THEN Cardinality(T) - 1 ELSE Cardinality(T)
  BY <1>2, FS_RemoveElement
<1>6. e \notin T => Cardinality(T) < NCACHE
  BY <1>1, <1>2, <1>3
<1> QED  BY <1>1, <1>2, <1>3, <1>4, <1>5, <1>6

(* The list gets longer, by one, only when a page comes to count.           *)
LEMMA Longer ==
  ASSUME NEW L \in SUBSET Slots, NEW F \in SUBSET Slots, NEW M \in SUBSET Slots,
         NEW G \in SUBSET Slots,
         Cardinality(L) <= Cardinality(F), F \subseteq G,
         M = L \/ \E k \in Slots, e \in G : M = L \cup {k} /\ e \notin F
  PROVE  Cardinality(M) <= Cardinality(G)
<1>1. ASSUME NEW T \in SUBSET Slots
      PROVE  Cardinality(T) \in Nat /\ IsFiniteSet(T)
  <2>1. 1 \in Slots
    BY ConstantsAssumption DEF Slots
  <2> QED  BY <2>1, SlotSets
<1>2. /\ Cardinality(L) \in Nat /\ Cardinality(F) \in Nat
      /\ Cardinality(M) \in Nat /\ Cardinality(G) \in Nat /\ IsFiniteSet(G)
  BY <1>1
<1>3. CASE M = L
  <2>1. Cardinality(F) <= Cardinality(G)
    BY <1>2, FS_Subset
  <2> QED  BY <1>2, <1>3, <2>1
<1>4. ASSUME NEW k \in Slots, NEW e \in G, M = L \cup {k}, e \notin F
      PROVE  Cardinality(M) <= Cardinality(G)
  <2>1. Cardinality(M) <= Cardinality(L) + 1
    <3>1. Cardinality(L \cup {k}) = IF k \in L THEN Cardinality(L) ELSE Cardinality(L) + 1
      BY SlotSets
    <3> QED  BY <1>2, <1>4, <3>1
  <2>2. Cardinality(F \cup {e}) = Cardinality(F) + 1
    BY <1>4, SlotSets
  <2>3. Cardinality(F \cup {e}) <= Cardinality(G)
    BY <1>2, <1>4, FS_Subset
  <2> QED  BY <1>2, <2>1, <2>2, <2>3
<1> QED  BY <1>3, <1>4

(* A page goes, and with it one entry of the list.                          *)
LEMMA Shorter ==
  ASSUME NEW L \in SUBSET Slots, NEW F \in SUBSET Slots, Cardinality(L) <= Cardinality(F),
         NEW k \in L, NEW e \in Slots
  PROVE  Cardinality(L \ {k}) <= Cardinality(F \ {e})
<1>1. Cardinality(L) \in Nat /\ Cardinality(L \ {k}) = Cardinality(L) - 1
  BY SlotSets
<1>2. Cardinality(F) \in Nat /\ Cardinality(F \ {e}) >= Cardinality(F) - 1
  <2>1. /\ Cardinality(F) \in Nat
        /\ Cardinality(F \ {e}) = IF e \in F THEN Cardinality(F) - 1 ELSE Cardinality(F)
    BY SlotSets
  <2> QED  BY <2>1
<1>3. Cardinality(F \ {e}) \in Nat
  BY <1>2, SlotSets
<1> QED  BY <1>1, <1>2, <1>3

(* Without linkat() the list is never full when a page is to be added:      *)
(* ctable_lru_add() does not have to evict.                                 *)
LEMMA RoomInList ==
  ASSUME Sound, NoLinks, NEW p \in Procs, pc[p] = "idup"
  PROVE  lru[NCACHE] = 0
<1> SUFFICES ASSUME lru[NCACHE] # 0
             PROVE  FALSE
  OBVIOUS
<1>0. Going
  BY DEF Going, FlushPoints
<1>1. NCACHE \in Nat \ {0} /\ NCACHE \in Slots
  BY ConstantsAssumption DEF Slots
<1>2. Listed = Slots
  <2> SUFFICES ASSUME Slots \ Listed # {}
               PROVE  FALSE
    BY DEF Listed
  <2>1. Slots \ Listed \in SUBSET (1 .. NCACHE)
    BY DEF Slots
  <2>2. PICK m \in Slots \ Listed : \A y \in Slots \ Listed : m >= y
    BY <1>1, <2>1, MaxIsIn
  <2>3. m # NCACHE /\ lru[m] = 0
    BY <2>2 DEF Listed
  <2>4. m + 1 \in Slots /\ m + 1 > 1 /\ (m + 1) - 1 = m /\ ~(m >= m + 1)
    BY <1>1, <2>2, <2>3 DEF Slots
  <2>5. lru[m + 1] # 0
    BY <2>2, <2>4 DEF Listed
  <2> QED  BY <1>0, <2>3, <2>4, <2>5 DEF Sound, InvList
<1>3. Cardinality(Listed) = NCACHE
  BY <1>1, <1>2, FS_Interval DEF Slots
<1>4. PICK e \in Slots : e = call[p].e
  BY DEF Sound, InvOwner, OwnPoints
<1>5. e \notin Full /\ Full \in SUBSET Slots
  BY <1>4 DEF Full, Unlisted, New
<1>6. Cardinality(Full) < NCACHE /\ Cardinality(Full) \in Nat
  BY <1>5, SlotSets
<1>7. Cardinality(Listed) <= Cardinality(Full)
  BY <1>0 DEF Sound, InvCount
<1> QED  BY <1>1, <1>3, <1>6, <1>7

(* idup(): from here on the page counts as a reference on its file.         *)
LEMMA IdupStep ==
  ASSUME Sound, NEW p \in Procs, Idup(p), ~hasty'
  PROVE  Sound'
<1>1. /\ pc[p] = "idup" /\ call[p].file \in Files
      /\ call[p].e \in Slots /\ cache[call[p].e].owner = p /\ Matches(call[p].e, call[p])
      /\ UNCHANGED <<ilock, table, cache, lru, fatfs, halted, calls, left>>
  BY DEF Idup, At, Sound, InvCall, CallPoints, InvOwner, OwnPoints
<1> PICK e \in Slots : e = call[p].e
  BY <1>1
<1> PICK f \in Files : f = call[p].file
  BY <1>1
<1>2. lru[NCACHE] = 0
  BY DEF Idup
<1>3. NCACHE \in Slots /\ NCACHE \in 0 .. NCACHE
  BY ConstantsAssumption DEF Slots
<1>4. /\ pc' \in [Procs -> Points] /\ pc'[p] = "add"
      /\ \A q \in Procs : q # p => pc'[q] = pc[q]
  BY <1>2 DEF Idup, Goto, Sound, TypeInv, Points, CallPoints
<1>5. /\ call' \in [Procs -> CallRec]
      /\ \A q \in Procs : q # p => call'[q] = call[q]
      /\ call'[p].file = call[p].file /\ call'[p].op = call[p].op /\ call'[p].off = call[p].off
      /\ call'[p].e = call[p].e /\ call'[p].j = NCACHE
  <2>1. call' = [call EXCEPT ![p].j = NCACHE] /\ call \in [Procs -> CallRec]
    BY DEF Idup, Sound, TypeInv
  <2> QED  BY <1>3, <2>1 DEF CallRec
<1>6. \A q \in Procs : pc[q] \in OwnPoints /\ call[q].e = e => q = p
  BY <1>1, OwnerIs DEF OwnPoints
<1>7. HeldBy(f)' = HeldBy(f) \cup {e} /\ e \notin HeldBy(f)
      /\ \A g \in Files : g # f => HeldBy(g)' = HeldBy(g)
  <2>1. \A d \in Slots : New(d)' <=> New(d) /\ d # e
    BY <1>1, <1>4, <1>5, <1>6 DEF New, OwnPoints
  <2>2. cache[e].valid /\ cache[e].host = f /\ New(e)
    BY <1>1 DEF Matches, New
  <2> QED  BY <1>1, <2>1, <2>2 DEF HeldBy
<1>8. cref' \in [Files -> Nat] /\ InvRefs'
  <2>1. cref' = [cref EXCEPT ![f] = cref[f] + 1] /\ cref \in [Files -> Nat]
    BY DEF Idup, Sound, TypeInv
  <2>2. Cardinality(HeldBy(f) \cup {e}) = Cardinality(HeldBy(f)) + 1
    BY <1>7, SlotSets DEF HeldBy
  <2>3. cref'[f] = Cardinality(HeldBy(f)')
    BY <1>7, <2>1, <2>2 DEF Sound, InvRefs
  <2>4. ASSUME NEW g \in Files, g # f
        PROVE  cref'[g] = Cardinality(HeldBy(g)')
    BY <1>7, <2>1, <2>4 DEF Sound, InvRefs
  <2>5. \A g \in Files : cref'[g] = Cardinality(HeldBy(g)')
    BY <2>3, <2>4
  <2> QED  BY <2>1, <2>5 DEF InvRefs
<1>9. TypeInv'
  BY <1>1, <1>4, <1>5, <1>8 DEF Sound, TypeInv, fatfs
<1>10. InvCall'
  BY <1>1, <1>3, <1>4, <1>5 DEF Sound, InvCall, CallPoints, FlushPoints
<1>11. InvTable'
  BY <1>1, <1>4 DEF Sound, InvTable, TablePoints, EvictPoints
<1>12. InvOwner'
  BY <1>1, <1>4, <1>5, OwnersStay DEF OwnPoints
<1>13. InvScan' /\ InvOne'
  BY <1>1, <1>4, <1>5 DEF Sound, InvScan, InvOne, EvictPoints, Passed, Matches
<1>14. InvCount'
  <2>1. \A d \in Slots : Unlisted(d)' <=> Unlisted(d)
    <3>1. \A d \in Slots : d # e => (Unlisted(d)' <=> Unlisted(d))
      BY <1>1, <1>4, <1>5 DEF Unlisted, New
    <3>2. Unlisted(e)
      BY <1>1 DEF Unlisted, New
    <3>3. Unlisted(e)'
      BY <1>1, <1>2, <1>4, <1>5 DEF Unlisted
    <3> QED  BY <3>1, <3>2, <3>3
  <2>2. Full' = Full /\ Listed' = Listed
    BY <1>1, <2>1 DEF Full, Listed
  <2> QED  BY <1>1, <2>2 DEF Sound, InvCount, FlushPoints, Going
<1>15. InvSeek'
  <2> SUFFICES ASSUME NEW q \in Procs, q # p
               PROVE  /\ pc'[q] # "evict_write"
                      /\ pc'[q] = "flush_write" =>
                           /\ AtPage(call[q].i)'
                           /\ call'[q].file \in {None, cache'[call'[q].i].host}
                      /\ pc'[q] = "load" /\ call'[q].file \in Fixed =>
                           fptr'[call'[q].file] = call'[q].off
    BY <1>4 DEF InvSeek
  <2> QED  BY <1>1, <1>4, <1>5, OthersSeek DEF OwnPoints, fatfs
<1>16. InvClean'
  <2>1. \A d \in Slots : Reading(d)' <=> Reading(d)
    BY <1>1, <1>4, <1>5 DEF Reading
  <2> QED  BY <1>1, <2>1 DEF Sound, InvClean, fatfs
<1>17. InvList' /\ InvAlone'
  BY <1>1, <1>3, <1>4, <1>5 DEF Sound, InvList, InvAlone, FlushPoints, Going, NoLinks
<1> QED
  BY <1>8, <1>9, <1>10, <1>11, <1>12, <1>13, <1>14, <1>15, <1>16, <1>17 DEF Sound

(* One assignment of the shift in ctable_lru_add(), next to other shifts:   *)
(* no entry becomes empty, and the one that becomes used, if any, is the    *)
(* one that p had yet to fill.                                              *)
LEMMA LruAddStep ==
  ASSUME Sound, NEW p \in Procs, LruAdd(p)
  PROVE  Sound'
<1>1. /\ pc[p] = "add" /\ call[p].file \in Files /\ call[p].j \in Slots
      /\ call[p].e \in Slots /\ cache[call[p].e].owner = p /\ Matches(call[p].e, call[p])
      /\ UNCHANGED <<ilock, table, cache, cref, fatfs, halted, calls, left>>
  BY DEF LruAdd, At, Sound, InvCall, CallPoints, InvOwner, OwnPoints
<1> PICK e \in Slots : e = call[p].e
  BY <1>1
<1> PICK j \in Slots : j = call[p].j
  BY <1>1
<1>2. lru \in [Slots -> 0 .. NCACHE] /\ call \in [Procs -> CallRec] /\ pc \in [Procs -> Points]
  BY DEF Sound, TypeInv
<1>3. /\ NCACHE \in Nat \ {0} /\ Slots \subseteq 0 .. NCACHE /\ e # 0
      /\ j > 1 => j - 1 \in Slots /\ j - 1 # j
      /\ ~(j > 1) => j = 1
      /\ j - 1 \in 0 .. NCACHE
  BY ConstantsAssumption DEF Slots
<1>4. /\ j > 1 => lru' = [lru EXCEPT ![j] = lru[j - 1]] /\ UNCHANGED pc
      /\ ~(j > 1) => lru' = [lru EXCEPT ![j] = e] /\ Goto(p, "copy")
      /\ call' = [call EXCEPT ![p].j = j - 1]
  BY <1>2, <1>3 DEF LruAdd
<1>5. /\ lru' \in [Slots -> 0 .. NCACHE]
      /\ \A k \in Slots : k # j => lru'[k] = lru[k]
      /\ j > 1 => lru'[j] = lru[j - 1]
      /\ ~(j > 1) => lru'[j] # 0
  BY <1>2, <1>3, <1>4
<1>6. /\ pc' \in [Procs -> Points] /\ pc'[p] = IF j > 1 THEN "add" ELSE "copy"
      /\ \A q \in Procs : q # p => pc'[q] = pc[q]
  BY <1>1, <1>2, <1>4 DEF Goto, Points, CallPoints
<1>7. /\ call' \in [Procs -> CallRec]
      /\ \A q \in Procs : q # p => call'[q] = call[q]
      /\ call'[p].file = call[p].file /\ call'[p].op = call[p].op /\ call'[p].off = call[p].off
      /\ call'[p].e = call[p].e /\ call'[p].j = j - 1
  <2> PICK k \in 0 .. NCACHE : k = j - 1
    BY <1>3
  <2>1. call' = [call EXCEPT ![p].j = k]
    BY <1>4
  <2>2. call'[p].j = k
    BY <1>2, <2>1 DEF CallRec
  <2> QED  BY <1>2, <2>1, <2>2 DEF CallRec
<1>8. /\ pc'[p] \in {"add", "copy"} /\ (pc'[p] = "copy" => call'[p].j = 0)
      /\ pc'[p] = "add" => call'[p].j \in Slots
  BY <1>3, <1>6, <1>7
<1>9. Going /\ j > 1 /\ lru[j] # 0 => lru[j - 1] # 0
  BY DEF Sound, InvList
<1>10. Going /\ lru[j] # 0 => lru'[j] # 0
  BY <1>5, <1>9
<1>11. \A q \in Procs : pc[q] \in OwnPoints /\ call[q].e = e => q = p
  BY <1>1, OwnerIs DEF OwnPoints
<1>12. TypeInv'
  BY <1>1, <1>5, <1>6, <1>7 DEF Sound, TypeInv, fatfs
<1>13. InvCall'
  BY <1>1, <1>6, <1>7, <1>8 DEF Sound, InvCall, CallPoints, FlushPoints
<1>14. InvTable'
  BY <1>1, <1>6, <1>8 DEF Sound, InvTable, TablePoints, EvictPoints
<1>15. InvOwner'
  BY <1>1, <1>6, <1>7, <1>8, OwnersStay DEF OwnPoints
<1>16. InvScan' /\ InvOne'
  BY <1>1, <1>6, <1>7, <1>8 DEF Sound, InvScan, InvOne, EvictPoints, Passed, Matches
<1>17. \A d \in Slots : (Reading(d)' <=> Reading(d)) /\ (New(d)' <=> New(d))
  BY <1>1, <1>6, <1>7, <1>8 DEF Reading, New
<1>18. \A q \in Procs : pc[q] = "add" => call[q].j \in Slots
  BY DEF Sound, InvCall
<1>19. Going => \A d \in Slots : Unlisted(d)' => Unlisted(d)
  <2> SUFFICES ASSUME Going
               PROVE  \A d \in Slots : Unlisted(d)' => Unlisted(d)
    OBVIOUS
  <2>1. ASSUME NEW d \in Slots, NEW q \in Procs, q # p, pc'[q] = "add", call'[q].e = d,
               lru'[call'[q].j] = 0
        PROVE  Unlisted(d)
    <3>1. pc[q] = "add" /\ call[q].e = d /\ lru[call[q].j] = 0
      BY <1>5, <1>6, <1>7, <1>10, <1>18, <2>1
    <3> QED  BY <3>1 DEF Unlisted
  <2>2. pc'[p] = "add" /\ lru'[call'[p].j] = 0 => Unlisted(e)
    <3>1. pc'[p] = "add" /\ lru'[call'[p].j] = 0 => lru[j] = 0
      BY <1>3, <1>5, <1>6, <1>7, <1>9
    <3> QED  BY <1>1, <3>1 DEF Unlisted
  <2> QED  BY <1>7, <1>17, <2>1, <2>2 DEF Unlisted
<1>20. Going => Full \subseteq Full'
  BY <1>1, <1>19 DEF Full
<1>21. Going => Listed' = Listed \/ (Listed' = Listed \cup {j} /\ e \in Full' /\ e \notin Full)
  <2> SUFFICES ASSUME Going
               PROVE  Listed' = Listed \/ (Listed' = Listed \cup {j} /\ e \in Full' /\ e \notin Full)
    OBVIOUS
  <2>1. CASE lru[j] = 0 /\ lru'[j] # 0
    <3>1. Listed' = Listed \cup {j}
      BY <1>5, <2>1 DEF Listed
    <3>2. e \notin Full
      BY <1>1, <2>1 DEF Full, Unlisted
    <3>3. ~(pc'[p] = "add" /\ lru'[call'[p].j] = 0)
      BY <1>3, <1>5, <1>6, <1>7, <2>1
    <3>4. ~Unlisted(e)'
      BY <1>1, <1>6, <1>7, <1>11, <3>3 DEF Unlisted, New, OwnPoints
    <3> QED  BY <1>1, <3>1, <3>2, <3>4 DEF Full, Matches
  <2>2. CASE ~(lru[j] = 0 /\ lru'[j] # 0)
    BY <1>5, <1>10, <2>2 DEF Listed
  <2> QED  BY <2>1, <2>2
<1>22. InvCount'
  <2> SUFFICES ASSUME Going'
               PROVE  Cardinality(Listed)' <= Cardinality(Full)'
    BY DEF InvCount
  <2>0. Going
    BY <1>1 DEF Going, FlushPoints
  <2>1. Cardinality(Listed) <= Cardinality(Full)
    BY <2>0 DEF Sound, InvCount
  <2>2. Listed \in SUBSET Slots /\ Full \in SUBSET Slots
        /\ Listed' \in SUBSET Slots /\ Full' \in SUBSET Slots
    BY DEF Listed, Full
  <2>3. Cardinality(Listed') <= Cardinality(Full')
    BY <1>20, <1>21, <2>0, <2>1, <2>2, Longer
  <2> QED  BY <2>3
<1>23. InvRefs'
  <2>1. \A f \in Files : HeldBy(f)' = HeldBy(f)
    BY <1>1, <1>17 DEF HeldBy
  <2> QED  BY <1>1, <2>1 DEF Sound, InvRefs
<1>24. InvSeek'
  <2> SUFFICES ASSUME NEW q \in Procs, q # p
               PROVE  /\ pc'[q] # "evict_write"
                      /\ pc'[q] = "flush_write" =>
                           /\ AtPage(call[q].i)'
                           /\ call'[q].file \in {None, cache'[call'[q].i].host}
                      /\ pc'[q] = "load" /\ call'[q].file \in Fixed =>
                           fptr'[call'[q].file] = call'[q].off
    BY <1>8 DEF InvSeek
  <2> QED  BY <1>1, <1>6, <1>7, OthersSeek DEF OwnPoints, fatfs
<1>25. InvClean'
  BY <1>1, <1>17 DEF Sound, InvClean, fatfs
<1>26. InvList'
  <2> SUFFICES ASSUME Going'
               PROVE  /\ \A k \in Slots : k > 1 /\ lru'[k] # 0 => lru'[k - 1] # 0
                      /\ \A q \in Procs : pc'[q] = "adjust" =>
                           call'[q].j = 0 \/ lru'[call'[q].j] # 0
    BY DEF InvList
  <2>0. Going
    BY <1>1 DEF Going, FlushPoints
  <2>1. ASSUME NEW k \in Slots, k > 1, lru'[k] # 0
        PROVE  lru'[k - 1] # 0
    <3>1. k - 1 \in Slots
      BY <1>3, <2>1 DEF Slots
    <3>2. CASE k = j
      BY <1>3, <1>5, <1>9, <2>0, <2>1, <3>2
    <3>3. CASE k # j
      <4>1. lru[k - 1] # 0
        BY <1>5, <2>0, <2>1, <3>3 DEF Sound, InvList
      <4> QED  BY <1>5, <1>10, <2>0, <3>1, <4>1
    <3> QED  BY <3>2, <3>3
  <2>2. ASSUME NEW q \in Procs
        PROVE  pc'[q] = "adjust" => call'[q].j = 0 \/ lru'[call'[q].j] # 0
    <3>1. CASE q = p
      BY <1>3, <1>6, <1>7, <1>8, <3>1
    <3>2. CASE q # p
      <4>1. pc[q] = "adjust" => call[q].j = 0 \/ (call[q].j \in Slots /\ lru[call[q].j] # 0)
        <5>1. call[q].j \in 0 .. NCACHE /\ (call[q].j # 0 => call[q].j \in Slots)
          BY <1>2, <1>3 DEF CallRec, Slots
        <5> QED  BY <2>0, <5>1 DEF Sound, InvList
      <4> QED  BY <1>5, <1>6, <1>7, <1>10, <2>0, <3>2, <4>1
    <3> QED  BY <3>1, <3>2
  <2> QED  BY <2>1, <2>2
<1>27. InvAlone'
  BY <1>1, <1>6, <1>7, <1>8 DEF Sound, InvAlone, FlushPoints
<1> QED
  BY <1>12, <1>13, <1>14, <1>15, <1>16, <1>22, <1>23, <1>24, <1>25, <1>26, <1>27 DEF Sound

-----------------------------------------------------------------------------
(* The last entry of the list that is used, if there is one.                *)
LEMMA LruLastIs ==
  ASSUME TypeInv
  PROVE  /\ LruLast = 0 => \A k \in Slots : lru[k] = 0
         /\ LruLast # 0 => /\ LruLast \in Slots /\ lru[LruLast] \in Slots
                           /\ \A k \in Slots : lru[k] # 0 => LruLast >= k
<1> DEFINE S == {k \in Slots : lru[k] # 0}
<1>1. S \in SUBSET (1 .. NCACHE) /\ NCACHE \in Nat /\ 0 \notin Slots
  BY ConstantsAssumption DEF Slots
<1>2. CASE S = {}
  BY <1>2 DEF LruLast
<1>3. CASE S # {}
  <2>1. LruLast = Max(S)
    BY <1>3 DEF LruLast
  <2> HIDE DEF S
  <2>2. Max(S) \in S /\ \A y \in S : Max(S) >= y
    BY <1>1, <1>3, MaxIsIn
  <2>3. LruLast \in Slots /\ lru[LruLast] # 0 /\ \A k \in Slots : lru[k] # 0 => LruLast >= k
    BY <2>1, <2>2 DEF S
  <2>4. \A k \in Slots : lru[k] # 0 => lru[k] \in Slots
    BY <1>1 DEF TypeInv, Slots
  <2> QED  BY <1>1, <2>3, <2>4
<1> QED  BY <1>2, <1>3

(* An entry is taken out and what is behind it moves up.                    *)
LEMMA LruWithoutIs ==
  ASSUME TypeInv, NEW k \in Slots, lru[k] # 0, lru' = LruWithout(k)
  PROVE  /\ lru' \in [Slots -> 0 .. NCACHE]
         /\ (\A n \in Slots : n > 1 /\ lru[n] # 0 => lru[n - 1] # 0)
              => \A n \in Slots : n > 1 /\ lru'[n] # 0 => lru'[n - 1] # 0
         /\ (\A n \in Slots : lru[n] # 0 => k >= n) => Listed' = Listed \ {k}
<1>1. lru \in [Slots -> 0 .. NCACHE] /\ NCACHE \in Nat \ {0}
  BY ConstantsAssumption DEF TypeInv
<1>2. \A n \in Slots : lru'[n] = IF n < k THEN lru[n] ELSE IF n < NCACHE THEN lru[n + 1] ELSE 0
  BY DEF LruWithout
<1>3. \A n \in Slots : /\ n > 1 => n - 1 \in Slots
                       /\ n < NCACHE => n + 1 \in Slots /\ n + 1 > 1 /\ (n + 1) - 1 = n
  BY <1>1 DEF Slots
<1>4. lru' \in [Slots -> 0 .. NCACHE]
  <2>1. \A n \in Slots : lru'[n] \in 0 .. NCACHE
    BY <1>1, <1>2, <1>3
  <2>2. lru' = [n \in Slots |-> lru'[n]]
    BY DEF LruWithout
  <2> QED  BY <2>1, <2>2
<1>5. ASSUME \A m \in Slots : m > 1 /\ lru[m] # 0 => lru[m - 1] # 0,
             NEW n \in Slots, n > 1, lru'[n] # 0
      PROVE  lru'[n - 1] # 0
  <2>1. n - 1 \in Slots /\ k \in Int /\ n \in Int
    BY <1>3, <1>5 DEF Slots
  <2>2. lru[n] # 0
    <3>1. CASE n < k
      BY <1>2, <1>5, <3>1
    <3>2. CASE ~(n < k)
      <4>1. n < NCACHE /\ lru[n + 1] # 0
        BY <1>2, <1>5, <3>2
      <4> QED  BY <1>3, <1>5, <4>1
    <3> QED  BY <3>1, <3>2
  <2>3. lru[n - 1] # 0
    BY <1>5, <2>2
  <2>4. CASE n - 1 < k
    BY <1>2, <2>1, <2>3, <2>4
  <2>5. CASE ~(n - 1 < k)
    <3>1. n - 1 < NCACHE /\ (n - 1) + 1 = n
      BY <1>1, <2>1 DEF Slots
    <3> QED  BY <1>2, <2>1, <2>2, <2>5, <3>1
  <2> QED  BY <2>4, <2>5
<1>6. ASSUME \A n \in Slots : lru[n] # 0 => k >= n
      PROVE  Listed' = Listed \ {k}
  <2>1. ASSUME NEW n \in Slots
        PROVE  lru'[n] # 0 <=> lru[n] # 0 /\ n # k
    <3>1. n \in Int /\ k \in Int
      BY DEF Slots
    <3>2. CASE n < k
      BY <1>2, <3>1, <3>2
    <3>3. CASE ~(n < k)
      <4>1. lru'[n] = 0
        BY <1>2, <1>3, <1>6, <3>1, <3>3
      <4>2. ~(lru[n] # 0 /\ n # k)
        BY <1>6, <3>1, <3>3
      <4> QED  BY <4>1, <4>2
    <3> QED  BY <3>2, <3>3
  <2> QED  BY <2>1 DEF Listed
<1> QED  BY <1>4, <1>5, <1>6

(* Where FatFs stands, the page is written: of a file that is not resized   *)
(* this page and no other.                                                  *)
LEMMA WriteBackIs ==
  ASSUME Sound, NEW e \in Slots, AtPage(e), WriteBack(e)
  PROVE  /\ size' \in [Files -> 0 .. NPage + 1] /\ fptr' \in [Files -> 0 .. NPage + 1]
         /\ disk' \in [Files -> [0 .. NPage -> Val]]
         /\ \A f \in Fixed : size'[f] = size[f]
         /\ \A f \in Files : f # cache[e].host => fptr'[f] = fptr[f]
         /\ \A f \in Fixed, g \in Pages :
              disk'[f][g] # disk[f][g] => f = cache[e].host /\ g = cache[e].off
         /\ cache[e].host \in Fixed
              => disk'[cache[e].host][cache[e].off] = cache[e].data
<1>1. cache[e].host \in Files /\ cache[e].off \in Pages /\ cache[e].data \in Val
  BY DEF AtPage, Sound, InvOne, TypeInv, SlotRec
<1> PICK h \in Files : h = cache[e].host
  BY <1>1
<1> PICK v \in Val : v = cache[e].data
  BY <1>1
<1> PICK o \in Pages : o = cache[e].off
  BY <1>1
<1>2. /\ NPage \in Nat \ {0} /\ Fixed \subseteq Files /\ Pages \subseteq 0 .. NPage
      /\ size \in [Files -> 0 .. NPage + 1] /\ fptr \in [Files -> 0 .. NPage + 1]
      /\ disk \in [Files -> [0 .. NPage -> Val]]
      /\ fptr[h] \in 0 .. NPage
      /\ h \in Fixed => fptr[h] = o /\ size[h] = NPage
  <2>1. fptr[h] <= NPage /\ (h \in Fixed => fptr[h] = o)
    BY DEF AtPage
  <2> QED  BY <2>1, ConstantsAssumption DEF Sound, TypeInv, InvClean, Pages
<1> DEFINE n == Min({size[h] - o, 1})
<1>3. h \in Fixed => n # 0
  <2>1. ASSUME h \in Fixed
        PROVE  n = 1
    <3>1. size[h] - o \in Int /\ size[h] - o >= 1
      BY <1>2, <2>1 DEF Pages
    <3>2. Min({size[h] - o, 1}) = IF size[h] - o <= 1 THEN size[h] - o ELSE 1
      BY <3>1, MinOfTwo
    <3> QED  BY <3>1, <3>2
  <2> QED  BY <2>1
<1>4. FWrite(h, n, v)
  BY DEF WriteBack
<1> HIDE DEF n
<1>5. CASE n = 0
  BY <1>2, <1>3, <1>4, <1>5 DEF FWrite, fatfs
<1>6. CASE n # 0
  <2>1. /\ disk' = [disk EXCEPT ![h][fptr[h]] = v]
        /\ fptr' = [fptr EXCEPT ![h] = fptr[h] + 1]
        /\ size' = [size EXCEPT ![h] = Max({size[h], fptr[h] + 1})]
    BY <1>2, <1>4, <1>6 DEF FWrite
  <2>2. fptr[h] + 1 \in 0 .. NPage + 1
    BY <1>2
  <2>3. fptr' \in [Files -> 0 .. NPage + 1] /\ \A f \in Files : f # h => fptr'[f] = fptr[f]
    BY <1>2, <2>1, <2>2
  <2> DEFINE m == Max({size[h], fptr[h] + 1})
  <2>4. m = IF size[h] >= fptr[h] + 1 THEN size[h] ELSE fptr[h] + 1
    <3>1. size[h] \in Int /\ fptr[h] + 1 \in Int
      BY <1>2, <2>2
    <3> QED  BY <3>1, MaxOfTwo
  <2>5. m \in 0 .. NPage + 1
    BY <1>2, <2>2, <2>4
  <2>6. h \in Fixed => m = size[h]
    <3>1. h \in Fixed => size[h] >= fptr[h] + 1
      BY <1>2 DEF Pages
    <3> QED  BY <2>4, <3>1
  <2>7. size' = [size EXCEPT ![h] = m]
    BY <2>1
  <2> HIDE DEF m
  <2>8. size' \in [Files -> 0 .. NPage + 1] /\ \A f \in Fixed : size'[f] = size[f]
    BY <1>2, <2>5, <2>6, <2>7
  <2>9. disk' \in [Files -> [0 .. NPage -> Val]]
    BY <1>2, <2>1
  <2>10. /\ \A f \in Files : f # h => disk'[f] = disk[f]
         /\ \A g \in 0 .. NPage : g # fptr[h] => disk'[h][g] = disk[h][g]
         /\ disk'[h][fptr[h]] = v
    BY <1>2, <2>1
  <2>11. \A f \in Fixed, g \in Pages : disk'[f][g] # disk[f][g] => f = h /\ g = o
    BY <1>2, <2>10
  <2>12. h \in Fixed => disk'[h][o] = v
    BY <1>2, <2>10
  <2> QED  BY <2>3, <2>8, <2>9, <2>11, <2>12
<1> QED  BY <1>5, <1>6

(* A page is taken out of the cache: its file has one reference less, and   *)
(* every other page is as it was.                                           *)
LEMMA ClearIs ==
  ASSUME Sound, NEW e \in Slots, cache[e].valid, Clear(e), NEW p \in Procs,
         \A q \in Procs : q # p => pc'[q] = pc[q] /\ call'[q] = call[q],
         pc[p] \notin OwnPoints, pc'[p] \notin OwnPoints,
         \A q \in Procs : pc[q] \in OwnPoints => call[q].e # e
  PROVE  /\ cache' \in [Slots -> SlotRec]
         /\ \A d \in Slots : d # e => cache'[d] = cache[d]
         /\ ~cache'[e].valid /\ cache'[e].owner = None
         /\ cref' \in [Files -> Nat] /\ InvOne' /\ InvRefs'
         /\ (\A q \in Procs : pc[q] \notin OwnPoints) => Full' = Full \ {e}
         /\ \A d \in Slots : Reading(d)' <=> Reading(d)
<1>1. /\ cache \in [Slots -> SlotRec] /\ cref \in [Files -> Nat]
      /\ EmptySlot \in SlotRec /\ ~EmptySlot.valid /\ EmptySlot.owner = None
  BY ConstantsAssumption DEF Sound, TypeInv, EmptySlot, SlotRec, Pages
<1>2. cache[e].host \in Files
  BY DEF Sound, InvOne
<1> PICK h \in Files : h = cache[e].host
  BY <1>2
<1>3. /\ cache' = [cache EXCEPT ![e] = EmptySlot]
      /\ cref' = [cref EXCEPT ![h] = cref[h] - 1]
  BY DEF Clear
<1>4. /\ cache' \in [Slots -> SlotRec]
      /\ \A d \in Slots : d # e => cache'[d] = cache[d]
      /\ ~cache'[e].valid /\ cache'[e].owner = None
  BY <1>1, <1>3
<1>5. InvOne'
  BY <1>4 DEF Sound, InvOne
<1>6. \A d \in Slots : (Reading(d)' <=> Reading(d)) /\ (New(d)' <=> New(d)) /\ ~New(e)
  BY DEF Reading, New, OwnPoints
<1>7. ASSUME \A q \in Procs : pc[q] \notin OwnPoints
      PROVE  Full' = Full \ {e}
  <2>1. \A d \in Slots : ~Unlisted(d) /\ ~Unlisted(d)'
    BY <1>7 DEF New, Unlisted, OwnPoints
  <2> QED  BY <1>4, <2>1 DEF Full
<1>8. /\ HeldBy(h)' = HeldBy(h) \ {e} /\ e \in HeldBy(h)
      /\ \A g \in Files : g # h => HeldBy(g)' = HeldBy(g)
  BY <1>4, <1>6 DEF HeldBy
<1>9. /\ Cardinality(HeldBy(h) \ {e}) = Cardinality(HeldBy(h)) - 1
      /\ Cardinality(HeldBy(h) \ {e}) \in Nat
  <2>1. HeldBy(h) \in SUBSET Slots /\ HeldBy(h) \ {e} \in SUBSET Slots
    BY DEF HeldBy
  <2> QED  BY <1>8, <2>1, SlotSets
<1>10. cref'[h] = Cardinality(HeldBy(h)')
  BY <1>1, <1>3, <1>8, <1>9 DEF Sound, InvRefs
<1>11. cref' \in [Files -> Nat]
  BY <1>1, <1>3, <1>8, <1>9, <1>10
<1>12. ASSUME NEW g \in Files, g # h
       PROVE  cref'[g] = Cardinality(HeldBy(g)')
  BY <1>1, <1>3, <1>8, <1>12 DEF Sound, InvRefs
<1>13. \A g \in Files : cref'[g] = Cardinality(HeldBy(g)')
  BY <1>10, <1>12
<1>14. InvRefs'
  BY <1>13 DEF InvRefs
<1> QED  BY <1>4, <1>5, <1>6, <1>7, <1>11, <1>14

-----------------------------------------------------------------------------
(* While ctable_lru_evict() runs no page is in use.                         *)
LEMMA EvictAlone ==
  ASSUME Sound, NEW p \in Procs, pc[p] \in EvictPoints
  PROVE  /\ table = p /\ call[p].j = 0 /\ call[p].file \in Files
         /\ \A d \in Slots : cache[d].owner = None /\ Passed(p, d)
         /\ \A q \in Procs : pc[q] \notin OwnPoints /\ pc[q] # "flush_write"
         /\ \A q \in Procs : q # p => pc[q] \notin TablePoints
<1>1. table = p /\ call[p].j = 0 /\ call[p].file \in Files
  BY DEF Sound, InvTable, InvCall, TablePoints, CallPoints, EvictPoints
<1>2. \A d \in Slots : cache[d].owner = None /\ Passed(p, d)
  BY DEF Sound, InvScan, Passed
<1>3. \A q \in Procs : pc[q] \notin OwnPoints
  BY <1>2, ConstantsAssumption DEF Sound, InvOwner
<1>4. \A q \in Procs : q # p => pc[q] \notin TablePoints
  BY <1>1, TableAlone
<1> QED  BY <1>1, <1>2, <1>3, <1>4 DEF TablePoints, EvictPoints

(* Back to the search for a free slot.                                      *)
LEMMA EvictedIs ==
  ASSUME TypeInv, NEW p \in Procs, call[p].j = 0, Evicted(p)
  PROVE  /\ pc' \in [Procs -> Points] /\ pc'[p] = "empty"
         /\ \A q \in Procs : q # p => pc'[q] = pc[q]
         /\ call' \in [Procs -> CallRec]
         /\ \A q \in Procs : q # p => call'[q] = call[q]
         /\ call'[p].file = call[p].file /\ call'[p].op = call[p].op /\ call'[p].off = call[p].off
         /\ call'[p].j = call[p].j /\ call'[p].i = 1
<1>1. Goto(p, "empty") /\ call' = [call EXCEPT ![p].i = 1, ![p].v = 0]
  BY DEF Evicted
<1>2. call \in [Procs -> CallRec] /\ 1 \in 0 .. NCACHE /\ 0 \in 0 .. NCACHE
  BY ConstantsAssumption DEF TypeInv
<1>3. /\ call' \in [Procs -> CallRec]
      /\ \A q \in Procs : q # p => call'[q] = call[q]
      /\ call'[p].file = call[p].file /\ call'[p].op = call[p].op /\ call'[p].off = call[p].off
      /\ call'[p].j = call[p].j /\ call'[p].i = 1
  <2> DEFINE r == [call[p] EXCEPT !.i = 1, !.v = 0]
  <2>1. call' = [call EXCEPT ![p] = r] /\ call[p] \in CallRec
    BY <1>1, <1>2
  <2>2. /\ r \in CallRec
        /\ r.file = call[p].file /\ r.op = call[p].op /\ r.off = call[p].off
        /\ r.j = call[p].j /\ r.i = 1
    BY <1>2, <2>1 DEF CallRec
  <2> HIDE DEF r
  <2> QED  BY <1>2, <2>1, <2>2
<1>4. /\ pc' \in [Procs -> Points] /\ pc'[p] = "empty"
      /\ \A q \in Procs : q # p => pc'[q] = pc[q]
  BY <1>1 DEF Goto, TypeInv, Points, CallPoints
<1> QED  BY <1>3, <1>4

(* The last page of the list is cleared, after a write-back if it was       *)
(* dirty, and the search for a free slot starts again.                      *)
LEMMA EvictClear ==
  ASSUME Sound, NEW p \in Procs, pc[p] \in EvictPoints,
         LruLast # 0, cache[lru[LruLast]].valid, Clear(lru[LruLast]),
         lru' = LruWithout(LruLast), Evicted(p),
         UNCHANGED <<ilock, table, halted, calls, left>>,
         size' \in [Files -> 0 .. NPage + 1], fptr' \in [Files -> 0 .. NPage + 1],
         disk' \in [Files -> [0 .. NPage -> Val]],
         \A f \in Fixed : size'[f] = size[f],
         \A f \in Fixed, g \in Pages :
           disk'[f][g] # disk[f][g]
             => f = cache[lru[LruLast]].host /\ g = cache[lru[LruLast]].off
  PROVE  Sound'
<1>1. LruLast \in Slots /\ lru[LruLast] \in Slots /\ \A n \in Slots : lru[n] # 0 => LruLast >= n
  BY LruLastIs DEF Sound
<1> PICK k \in Slots : k = LruLast
  BY <1>1
<1> PICK e \in Slots : e = lru[LruLast]
  BY <1>1
<1>2. /\ table = p /\ call[p].j = 0 /\ call[p].file \in Files
      /\ \A d \in Slots : cache[d].owner = None /\ Passed(p, d)
      /\ \A q \in Procs : pc[q] \notin OwnPoints /\ pc[q] # "flush_write"
      /\ \A q \in Procs : q # p => pc[q] \notin TablePoints
  BY EvictAlone
<1>3. 1 \in Slots /\ 1 \in 0 .. NCACHE /\ lru[k] # 0
  BY <1>1, ConstantsAssumption DEF Slots
<1>4. /\ pc' \in [Procs -> Points] /\ pc'[p] = "empty"
      /\ \A q \in Procs : q # p => pc'[q] = pc[q]
  BY <1>2, EvictedIs DEF Sound
<1>5. /\ call' \in [Procs -> CallRec]
      /\ \A q \in Procs : q # p => call'[q] = call[q]
      /\ call'[p].file = call[p].file /\ call'[p].op = call[p].op /\ call'[p].off = call[p].off
      /\ call'[p].j = call[p].j /\ call'[p].i = 1
  BY <1>2, EvictedIs DEF Sound
<1>6. \A q \in Procs : pc[q] \notin OwnPoints /\ pc'[q] \notin OwnPoints
  BY <1>2, <1>4 DEF OwnPoints
<1>7. /\ cache' \in [Slots -> SlotRec]
      /\ \A d \in Slots : d # e => cache'[d] = cache[d]
      /\ ~cache'[e].valid /\ cache'[e].owner = None
      /\ cref' \in [Files -> Nat] /\ InvOne' /\ InvRefs'
      /\ Full' = Full \ {e} /\ \A d \in Slots : Reading(d)' <=> Reading(d)
  <2>1. pc[p] \notin OwnPoints /\ pc'[p] \notin OwnPoints
    BY <1>6
  <2>2. cache[e].valid /\ Clear(e) /\ \A q \in Procs : pc[q] \in OwnPoints => call[q].e # e
    BY <1>6
  <2>3. \A q \in Procs : pc[q] \notin OwnPoints
    BY <1>6
  <2> QED  BY <1>4, <1>5, <2>1, <2>2, <2>3, ClearIs
<1>8. /\ lru' \in [Slots -> 0 .. NCACHE]
      /\ Going => \A n \in Slots : n > 1 /\ lru'[n] # 0 => lru'[n - 1] # 0
      /\ Listed' = Listed \ {k}
  BY <1>1, <1>3, LruWithoutIs DEF Sound, InvList
<1>9. TypeInv'
  BY <1>4, <1>5, <1>7, <1>8 DEF Sound, TypeInv
<1>10. InvCall'
  <2>1. /\ call[p].op \in Ops /\ (call[p].op = "link" => call[p].file \notin Fixed)
        /\ ilock[call[p].file] = p
    BY DEF Sound, InvCall, CallPoints, EvictPoints
  <2> QED  BY <1>2, <1>4, <1>5, <2>1 DEF Sound, InvCall, CallPoints, FlushPoints
<1>11. InvTable'
  BY <1>2, <1>4 DEF InvTable, TablePoints
<1>12. \A d \in Slots : cache'[d].owner = None
  BY <1>2, <1>7
<1>13. InvOwner'
  <2>1. \A q \in Procs : pc'[q] # "flush_write"
    BY <1>2, <1>4
  <2> QED  BY <1>6, <1>12, <2>1 DEF InvOwner
<1>14. InvScan'
  <2>1. \A d \in Slots : Passed(p, d)'
    <3>1. \A d \in Slots : ~Matches(d, call[p])
      BY <1>2 DEF Passed
    <3>2. \A d \in Slots : d = e \/ cache'[d] = cache[d]
      BY <1>7
    <3>3. ASSUME NEW d \in Slots
          PROVE  ~Matches(d, call[p])'
      <4>1. CASE d = e
        BY <1>7, <4>1 DEF Matches
      <4>2. CASE cache'[d] = cache[d]
        BY <1>5, <3>1, <4>2 DEF Matches
      <4> QED  BY <3>2, <4>1, <4>2
    <3> QED  BY <1>12, <3>3 DEF Passed
  <2> QED  BY <1>2, <1>3, <1>4, <1>5, <2>1 DEF InvScan, TablePoints, EvictPoints
<1>15. InvCount'
  <2> SUFFICES ASSUME Going'
               PROVE  Cardinality(Listed)' <= Cardinality(Full)'
    BY DEF InvCount
  <2>0. Going
    BY DEF Going, FlushPoints, EvictPoints
  <2>1. Cardinality(Listed) <= Cardinality(Full)
    BY <2>0 DEF Sound, InvCount
  <2>2. Listed \in SUBSET Slots /\ Full \in SUBSET Slots /\ k \in Listed
    BY <1>3 DEF Listed, Full
  <2>3. Cardinality(Listed \ {k}) <= Cardinality(Full \ {e})
    BY <2>1, <2>2, Shorter
  <2> QED  BY <1>6, <1>7, <1>8, <2>3
<1>16. InvSeek'
  <2>1. \A q \in Procs : pc'[q] \notin {"evict_write", "flush_write", "load"}
    <3>1. \A q \in Procs : q # p => pc'[q] \notin TablePoints \cup OwnPoints
      BY <1>2, <1>4
    <3> QED  BY <1>4, <3>1 DEF TablePoints, EvictPoints, OwnPoints
  <2> QED  BY <2>1 DEF InvSeek
<1>17. InvClean'
  <2>1. \A f \in Fixed : size'[f] = NPage
    BY DEF Sound, InvClean
  <2>2. ASSUME NEW d \in Slots, cache'[d].valid, ~Reading(d)', cache'[d].host \in Fixed, ~cache'[d].dirty
        PROVE  cache'[d].data = disk'[cache'[d].host][cache'[d].off]
    <3>1. d # e /\ cache'[d] = cache[d]
      BY <1>7, <2>2
    <3>2. cache[d].data = disk[cache[d].host][cache[d].off]
      BY <1>7, <2>2, <3>1 DEF Sound, InvClean
    <3>3. ~(cache[d].host = cache[e].host /\ cache[d].off = cache[e].off)
      BY <2>2, <3>1 DEF Sound, InvOne
    <3>4. cache[d].off \in Pages /\ cache[d].host \in Fixed
      BY <2>2, <3>1 DEF Sound, TypeInv, SlotRec
    <3>5. disk'[cache[d].host][cache[d].off] = disk[cache[d].host][cache[d].off]
      BY <3>3, <3>4
    <3> QED  BY <3>1, <3>2, <3>5
  <2> QED  BY <2>1, <2>2 DEF InvClean
<1>18. InvList'
  <2>1. \A q \in Procs : pc'[q] \notin {"adjust", "add"}
    BY <1>6 DEF OwnPoints
  <2>2. Going' => Going
    BY DEF Going, FlushPoints, EvictPoints
  <2> QED  BY <1>8, <2>1, <2>2 DEF InvList
<1>19. InvAlone'
  <2>1. pc[p] # "exited" /\ pc'[p] # "flushed" /\ pc'[p] \notin FlushPoints
    BY <1>4 DEF EvictPoints, FlushPoints
  <2>2. ASSUME NEW q \in Procs
        PROVE  ~(pc'[q] = "flushed" \/ (pc'[q] \in FlushPoints /\ call'[q].file = None))
    <3>1. CASE q # p
      <4>1. ~(pc[q] = "flushed" \/ (pc[q] \in FlushPoints /\ call[q].file = None))
        BY <2>1, <3>1 DEF Sound, InvAlone
      <4> QED  BY <1>4, <1>5, <3>1, <4>1
    <3> QED  BY <2>1, <3>1
  <2> QED  BY <2>2 DEF InvAlone
<1> QED
  BY <1>7, <1>9, <1>10, <1>11, <1>13, <1>14, <1>15, <1>16, <1>17, <1>18, <1>19 DEF Sound

(* ctable_lru_evict(): nothing is listed; the page is dirty, and FatFs      *)
(* seeks to where it is to be written; or it is cleared.                    *)
LEMMA EvictStep ==
  ASSUME Sound, NEW p \in Procs, Evict(p)
  PROVE  Sound'
<1>1. pc[p] = "evict" /\ UNCHANGED <<ilock, table, calls, left>>
  BY DEF Evict, At
<1>2. /\ table = p /\ call[p].j = 0 /\ call[p].file \in Files
      /\ \A d \in Slots : cache[d].owner = None /\ Passed(p, d)
      /\ \A q \in Procs : pc[q] \notin OwnPoints /\ pc[q] # "flush_write"
      /\ \A q \in Procs : q # p => pc[q] \notin TablePoints
  BY <1>1, EvictAlone DEF EvictPoints
<1>3. NPage \in Nat \ {0} /\ Fixed \subseteq Files /\ 1 \in Slots /\ 1 \in 0 .. NCACHE
  BY ConstantsAssumption DEF Slots
<1>4. CASE LruLast = 0
  <2>1. UNCHANGED <<cache, lru, cref, fatfs, halted>> /\ Evicted(p)
    BY <1>2, <1>4 DEF Evict
  <2>2. /\ pc' \in [Procs -> Points] /\ pc'[p] = "empty"
        /\ \A q \in Procs : q # p => pc'[q] = pc[q]
    BY <1>2, <2>1, EvictedIs DEF Sound
  <2>3. /\ call' \in [Procs -> CallRec]
        /\ \A q \in Procs : q # p => call'[q] = call[q]
        /\ call'[p].file = call[p].file /\ call'[p].op = call[p].op /\ call'[p].off = call[p].off
        /\ call'[p].j = call[p].j /\ call'[p].i = 1
    BY <1>2, <2>1, EvictedIs DEF Sound
  <2>4. TypeInv'
    BY <1>1, <2>1, <2>2, <2>3 DEF Sound, TypeInv, fatfs
  <2>5. InvCall'
    BY <1>1, <1>2, <2>2, <2>3 DEF Sound, InvCall, CallPoints, FlushPoints, EvictPoints
  <2>6. InvTable'
    BY <1>1, <1>2, <2>2 DEF InvTable, TablePoints
  <2>7. InvOwner'
    BY <1>2, <2>1, <2>2 DEF InvOwner, OwnPoints
  <2>8. InvScan'
    <3>1. \A d \in Slots : Passed(p, d)'
      BY <1>2, <2>1, <2>3 DEF Passed, Matches
    <3> QED  BY <1>2, <1>3, <2>2, <2>3, <3>1 DEF InvScan, TablePoints, EvictPoints
  <2>9. InvOne' /\ InvCount' /\ InvRefs' /\ InvSeek' /\ InvClean'
    BY <1>1, <2>1, <2>2, <2>3, Quietly DEF FlushPoints, Going, NoLinks, fatfs
  <2>10. InvList' /\ InvAlone'
    BY <1>1, <2>1, <2>2, <2>3 DEF Sound, InvList, InvAlone, FlushPoints, Going, NoLinks
  <2> QED  BY <2>4, <2>5, <2>6, <2>7, <2>8, <2>9, <2>10 DEF Sound
<1>5. CASE LruLast # 0 /\ ~cache[lru[LruLast]].valid
  BY <1>1, <1>5, HaltStep DEF Evict
<1>6. CASE LruLast # 0 /\ cache[lru[LruLast]].valid /\ ~cache[lru[LruLast]].dirty
  <2>1. /\ Clear(lru[LruLast]) /\ lru' = LruWithout(LruLast) /\ Evicted(p)
        /\ UNCHANGED <<fatfs, halted>>
    BY <1>6 DEF Evict
  <2>2. /\ size' \in [Files -> 0 .. NPage + 1] /\ fptr' \in [Files -> 0 .. NPage + 1]
        /\ disk' \in [Files -> [0 .. NPage -> Val]] /\ disk' = disk /\ size' = size
    BY <2>1 DEF Sound, TypeInv, fatfs
  <2> QED  BY <1>1, <1>6, <2>1, <2>2, EvictClear DEF EvictPoints
<1>7. CASE LruLast # 0 /\ cache[lru[LruLast]].valid /\ cache[lru[LruLast]].dirty
  <2>1. LruLast \in Slots /\ lru[LruLast] \in Slots
    BY <1>7, LruLastIs DEF Sound
  <2> PICK e \in Slots : e = lru[LruLast]
    BY <2>1
  <2>2. cache[e].host \in Files /\ cache[e].off \in 0 .. NPage
    BY <1>3, <1>7 DEF Sound, InvOne, TypeInv, SlotRec, Pages
  <2>3. /\ FSeek(cache[e].host, cache[e].off) /\ Goto(p, "evict_write")
        /\ call' = [call EXCEPT ![p].i = LruLast, ![p].v = e]
        /\ UNCHANGED <<cache, lru, cref, halted>>
    BY <1>7 DEF Evict
  <2> PICK h \in Files : h = cache[e].host
    BY <2>2
  <2> PICK o \in 0 .. NPage : o = cache[e].off
    BY <2>2
  <2>4. /\ UNCHANGED disk
        /\ fptr' \in [Files -> 0 .. NPage + 1] /\ size' \in [Files -> 0 .. NPage + 1]
        /\ \A g \in Files : g # h => fptr'[g] = fptr[g] /\ size'[g] = size[g]
        /\ fptr'[h] = o /\ fptr'[h] <= NPage
        /\ size'[h] = IF size[h] >= o THEN size[h] ELSE o
    BY <2>3, FSeekTypes DEF Sound, TypeInv
  <2>5. \A f \in Fixed : size'[f] = NPage
    <3>1. o <= NPage
      BY <1>3
    <3> QED  BY <1>3, <2>4, <3>1 DEF Sound, InvClean
  <2>6. /\ pc' \in [Procs -> Points] /\ pc'[p] = "evict_write"
        /\ \A q \in Procs : q # p => pc'[q] = pc[q]
    BY <2>3 DEF Goto, Sound, TypeInv, Points, CallPoints, EvictPoints
  <2>16. /\ call' \in [Procs -> CallRec]
         /\ \A q \in Procs : q # p => call'[q] = call[q]
         /\ call'[p].file = call[p].file /\ call'[p].op = call[p].op /\ call'[p].off = call[p].off
         /\ call'[p].j = call[p].j /\ call'[p].i = LruLast /\ call'[p].v = e
    <3>1. call \in [Procs -> CallRec] /\ e \in 0 .. NCACHE /\ LruLast \in 0 .. NCACHE
      BY <2>1, ConstantsAssumption DEF Sound, TypeInv, Slots
    <3> PICK k \in 0 .. NCACHE : k = LruLast
      BY <3>1
    <3> DEFINE r == [call[p] EXCEPT !.i = k, !.v = e]
    <3>2. call' = [call EXCEPT ![p] = r] /\ call[p] \in CallRec
      BY <2>3, <3>1
    <3>3. /\ r \in CallRec
          /\ r.file = call[p].file /\ r.op = call[p].op /\ r.off = call[p].off
          /\ r.j = call[p].j /\ r.i = k /\ r.v = e
      BY <3>1, <3>2 DEF CallRec
    <3> HIDE DEF r
    <3> QED  BY <3>1, <3>2, <3>3
  <2>7. TypeInv'
    BY <1>1, <2>3, <2>4, <2>6, <2>16 DEF Sound, TypeInv
  <2>8. InvCall'
    BY <1>1, <1>2, <2>3, <2>6, <2>16 DEF Sound, InvCall, CallPoints, FlushPoints, EvictPoints
  <2>9. InvTable'
    BY <1>1, <1>2, <2>6 DEF InvTable, TablePoints, EvictPoints
  <2>10. InvOwner'
    BY <1>2, <2>3, <2>6 DEF InvOwner, OwnPoints
  <2>11. InvScan'
    <3>1. \A d \in Slots : Passed(p, d)'
      BY <1>2, <2>3, <2>16 DEF Passed, Matches
    <3> QED  BY <1>2, <2>6, <3>1 DEF InvScan, TablePoints, EvictPoints
  <2>12. InvOne' /\ InvCount' /\ InvRefs' /\ \A d \in Slots : Reading(d)' <=> Reading(d)
    BY <1>1, <2>3, <2>6, <2>16, Steady DEF FlushPoints, Going
  <2>13. InvSeek'
    <3>1. LastAtPage' /\ LruLast' = LruLast /\ lru'[LruLast'] = e
      <4>1. LruLast' = LruLast /\ lru'[LruLast'] = e
        BY <2>3 DEF LruLast
      <4>2. AtPage(e)'
        BY <1>7, <2>3, <2>4 DEF AtPage
      <4> QED  BY <1>7, <4>1, <4>2 DEF LastAtPage, AtPage
    <3>2. \A q \in Procs : pc'[q] \notin {"flush_write", "load"}
      BY <1>2, <2>6 DEF OwnPoints, FlushPoints
    <3>3. \A q \in Procs : q # p => pc'[q] # "evict_write"
      BY <1>2, <2>6 DEF TablePoints, EvictPoints
    <3> QED  BY <2>16, <3>1, <3>2, <3>3 DEF InvSeek
  <2>14. InvClean'
    BY <2>3, <2>4, <2>5, <2>12 DEF Sound, InvClean
  <2>15. InvList' /\ InvAlone'
    BY <1>1, <2>3, <2>6, <2>16 DEF Sound, InvList, InvAlone, FlushPoints, Going, NoLinks
  <2> QED
    BY <2>7, <2>8, <2>9, <2>10, <2>11, <2>12, <2>13, <2>14, <2>15 DEF Sound
<1> QED  BY <1>4, <1>5, <1>6, <1>7

(* ... and is cleared when it has been written.                             *)
LEMMA EvictWriteStep ==
  ASSUME Sound, NEW p \in Procs, EvictWrite(p)
  PROVE  Sound'
<1>1. /\ pc[p] = "evict_write" /\ UNCHANGED <<ilock, table, halted, calls, left>>
      /\ WriteBack(lru[LruLast])
      /\ Clear(lru[LruLast]) /\ lru' = LruWithout(LruLast) /\ Evicted(p)
  BY DEF EvictWrite, At, Sound, InvSeek
<1>2. LruLast # 0 /\ AtPage(lru[LruLast]) /\ lru[LruLast] \in Slots /\ cache[lru[LruLast]].valid
  BY <1>1 DEF Sound, InvSeek, LastAtPage, AtPage
<1>3. /\ size' \in [Files -> 0 .. NPage + 1] /\ fptr' \in [Files -> 0 .. NPage + 1]
      /\ disk' \in [Files -> [0 .. NPage -> Val]]
      /\ \A f \in Fixed : size'[f] = size[f]
      /\ \A f \in Fixed, g \in Pages :
           disk'[f][g] # disk[f][g]
             => f = cache[lru[LruLast]].host /\ g = cache[lru[LruLast]].off
  BY <1>1, <1>2, WriteBackIs
<1> QED  BY <1>1, <1>2, <1>3, EvictClear DEF EvictPoints

-----------------------------------------------------------------------------
(* A process leaves exit(), or finds itself alone and goes on to empty the  *)
(* cache.                                                                   *)
LEMMA ExitStep ==
  ASSUME Sound, NEW p \in Procs, Exit(p)
  PROVE  Sound'
<1>1. /\ pc[p] = "idle"
      /\ UNCHANGED <<call, ilock, table, cache, lru, cref, fatfs, halted, calls, left>>
  BY DEF Exit, At
<1>2. /\ pc' \in [Procs -> Points] /\ pc'[p] \in {"flush", "leave"}
      /\ \A q \in Procs : q # p => pc'[q] = pc[q]
      /\ pc'[p] = "flush" <=> \A q \in Procs : q # p => pc[q] = "exited"
  BY DEF Exit, Goto, Sound, TypeInv, Points, FlushPoints
<1>3. TypeInv'
  BY <1>1, <1>2 DEF Sound, TypeInv, fatfs
<1>4. InvCall'
  BY <1>1, <1>2 DEF Sound, InvCall, CallPoints, FlushPoints
<1>5. InvTable'
  BY <1>1, <1>2 DEF Sound, InvTable, TablePoints, EvictPoints
<1>6. InvOwner'
  BY <1>1, <1>2, OwnersStay DEF OwnPoints
<1>7. InvScan'
  BY <1>1, <1>2 DEF Sound, InvScan, EvictPoints, Passed, Matches
<1>8. Going' => Going
  BY <1>1 DEF Going, FlushPoints
<1>9. InvOne' /\ InvCount' /\ InvRefs' /\ InvSeek' /\ InvClean'
  BY <1>1, <1>2, <1>8, Quietly DEF fatfs
<1>10. InvList'
  BY <1>1, <1>2, <1>8 DEF Sound, InvList
<1>11. InvAlone'
  BY <1>1, <1>2 DEF Sound, InvAlone, FlushPoints
<1> QED  BY <1>3, <1>4, <1>5, <1>6, <1>7, <1>9, <1>10, <1>11 DEF Sound

LEMMA LeaveStep ==
  ASSUME Sound, NEW p \in Procs, Leave(p)
  PROVE  Sound'
<1>1. /\ pc[p] = "leave"
      /\ UNCHANGED <<call, ilock, table, cache, lru, cref, fatfs, halted, calls, left>>
  BY DEF Leave, At
<1>2. /\ pc' \in [Procs -> Points] /\ pc'[p] = "exited"
      /\ \A q \in Procs : q # p => pc'[q] = pc[q]
  BY DEF Leave, Goto, Sound, TypeInv, Points
<1>3. TypeInv'
  BY <1>1, <1>2 DEF Sound, TypeInv, fatfs
<1>4. InvCall'
  BY <1>1, <1>2 DEF Sound, InvCall, CallPoints, FlushPoints
<1>5. InvTable'
  BY <1>1, <1>2 DEF Sound, InvTable, TablePoints, EvictPoints
<1>6. InvOwner'
  BY <1>1, <1>2, OwnersStay DEF OwnPoints
<1>7. InvScan'
  BY <1>1, <1>2 DEF Sound, InvScan, EvictPoints, Passed, Matches
<1>8. Going' => Going
  BY <1>1 DEF Going, FlushPoints
<1>9. InvOne' /\ InvCount' /\ InvRefs' /\ InvSeek' /\ InvClean'
  BY <1>1, <1>2, <1>8, Quietly DEF fatfs
<1>10. InvList'
  BY <1>1, <1>2, <1>8 DEF Sound, InvList
<1>11. InvAlone'
  BY <1>1, <1>2 DEF Sound, InvAlone, FlushPoints
<1> QED  BY <1>3, <1>4, <1>5, <1>6, <1>7, <1>9, <1>10, <1>11 DEF Sound

(* Who empties the cache is alone, and who flushes one file makes a link:   *)
(* the list need no longer be in order.                                     *)
LEMMA FlushAlone ==
  ASSUME Sound, NEW p \in Procs, pc[p] \in FlushPoints,
         \A q \in Procs : q # p => pc'[q] = pc[q],
         pc'[p] \in FlushPoints \cup {"flushed"} \/ call[p].file # None
  PROVE  /\ call[p].file = None => \A q \in Procs : q # p => pc[q] = "exited"
         /\ ~Going /\ ~Going'
<1>1. call[p].file = None => \A q \in Procs : q # p => pc[q] = "exited"
  BY DEF Sound, InvAlone
<1>2. NoLinks => call[p].file = None
  BY DEF Sound, InvCall, NoLinks
<1> QED  BY <1>1, <1>2 DEF Going, NoLinks

(* ctable_release() takes ctable.lock.                                      *)
LEMMA FlushLockStep ==
  ASSUME Sound, NEW p \in Procs, FlushLock(p)
  PROVE  Sound'
<1>1. /\ pc[p] = "flush" /\ table = None /\ table' = p
      /\ call' = [call EXCEPT ![p].i = 1]
      /\ UNCHANGED <<ilock, cache, lru, cref, fatfs, halted, calls, left>>
  BY DEF FlushLock, At
<1>2. /\ pc' \in [Procs -> Points] /\ pc'[p] = "flushing"
      /\ \A q \in Procs : q # p => pc'[q] = pc[q]
  BY DEF FlushLock, Goto, Sound, TypeInv, Points, FlushPoints
<1>3. 1 \in Slots /\ 1 \in 0 .. NCACHE /\ (\A d \in Slots : ~(d < 1)) /\ None \notin Procs
  BY ConstantsAssumption DEF Slots
<1>4. /\ call' \in [Procs -> CallRec]
      /\ \A q \in Procs : q # p => call'[q] = call[q]
      /\ call'[p].file = call[p].file /\ call'[p].j = call[p].j /\ call'[p].i = 1
      /\ call'[p].e = call[p].e /\ call'[p].off = call[p].off /\ call'[p].op = call[p].op
  <2> DEFINE r == [call[p] EXCEPT !.i = 1]
  <2>1. call \in [Procs -> CallRec]
    BY DEF Sound, TypeInv
  <2>2. call[p] \in CallRec
    BY <2>1
  <2>3. /\ r \in CallRec
        /\ r.file = call[p].file /\ r.j = call[p].j /\ r.i = 1
        /\ r.e = call[p].e /\ r.off = call[p].off /\ r.op = call[p].op
    BY <1>3, <2>2 DEF CallRec
  <2>4. call' = [call EXCEPT ![p] = r]
    BY <1>1
  <2> HIDE DEF r
  <2> QED  BY <2>1, <2>3, <2>4
<1>5. \A q \in Procs : pc[q] \notin TablePoints
  BY <1>1, <1>3 DEF Sound, InvTable
<1>6. TypeInv'
  BY <1>1, <1>2, <1>4 DEF Sound, TypeInv, fatfs
<1>7. InvCall'
  BY <1>1, <1>2, <1>4 DEF Sound, InvCall, CallPoints, FlushPoints
<1>8. InvTable'
  BY <1>1, <1>2, <1>3, <1>5 DEF InvTable, TablePoints, EvictPoints
<1>9. InvOwner'
  BY <1>1, <1>2, <1>4, OwnersStay DEF OwnPoints
<1>10. InvScan'
  BY <1>2, <1>3, <1>4, <1>5 DEF InvScan, EvictPoints, TablePoints
<1>11. Going' => Going
  BY <1>1, <1>2, FlushAlone DEF FlushPoints
<1>12. InvOne' /\ InvCount' /\ InvRefs' /\ InvSeek' /\ InvClean'
  BY <1>1, <1>2, <1>4, <1>11, Quietly DEF fatfs
<1>13. InvList'
  BY <1>1, <1>2, FlushAlone DEF InvList, FlushPoints
<1>14. InvAlone'
  BY <1>1, <1>2, <1>4 DEF Sound, InvAlone, FlushPoints
<1> QED  BY <1>6, <1>7, <1>8, <1>9, <1>10, <1>12, <1>13, <1>14 DEF Sound

(* One turn of the loop of ctable_release() ends: the next slot, or all     *)
(* slots have been looked at.                                               *)
LEMMA FlushNextIs ==
  ASSUME Sound, NEW p \in Procs, pc[p] \in {"flushing", "remove"}, FlushNext(p)
  PROVE  /\ pc' \in [Procs -> Points] /\ pc'[p] \in {"flushing", "flushed", "unlock"}
         /\ pc'[p] = "flushed" => call[p].file = None
         /\ pc'[p] = "unlock" => call[p].file # None
         /\ \A q \in Procs : q # p => pc'[q] = pc[q]
         /\ call' \in [Procs -> CallRec]
         /\ \A q \in Procs : q # p => call'[q] = call[q]
         /\ call'[p].file = call[p].file /\ call'[p].op = call[p].op /\ call'[p].off = call[p].off
         /\ call'[p].e = call[p].e /\ call'[p].j = 0
         /\ table' = IF pc'[p] = "flushing" THEN p ELSE None
         /\ pc'[p] = "flushing" => call'[p].i \in Slots
         /\ \A d \in Slots : (pc'[p] = "flushing" => d < call'[p].i) => d <= call[p].i
<1>1. call[p].i \in Slots /\ table = p
  BY DEF Sound, InvScan, InvTable, TablePoints
<1> PICK i \in Slots : i = call[p].i
  BY <1>1
<1>2. pc \in [Procs -> Points] /\ call \in [Procs -> CallRec] /\ call[p] \in CallRec
  BY DEF Sound, TypeInv
<1>3. /\ NCACHE \in Nat \ {0} /\ Slots \subseteq 0 .. NCACHE /\ 0 \in 0 .. NCACHE
      /\ i < NCACHE => i + 1 \in Slots
      /\ \A d \in Slots : /\ d < i + 1 => d <= i
                          /\ ~(i < NCACHE) => d <= i
  BY ConstantsAssumption DEF Slots
<1>4. CASE i < NCACHE
  <2>1. /\ Goto(p, "flushing") /\ table' = p
        /\ call' = [call EXCEPT ![p].i = i + 1, ![p].j = 0]
    BY <1>1, <1>2, <1>4 DEF FlushNext, TurnsLeft
  <2>2. /\ pc' \in [Procs -> Points] /\ pc'[p] = "flushing"
        /\ \A q \in Procs : q # p => pc'[q] = pc[q]
    BY <1>2, <2>1 DEF Goto, Points, FlushPoints
  <2> PICK n \in Slots : n = i + 1
    BY <1>3, <1>4
  <2> DEFINE r == [call[p] EXCEPT !.i = n, !.j = 0]
  <2>3. call' = [call EXCEPT ![p] = r] /\ n \in 0 .. NCACHE
    BY <1>2, <1>3, <2>1
  <2>4. /\ r \in CallRec /\ r.file = call[p].file /\ r.op = call[p].op /\ r.off = call[p].off
        /\ r.e = call[p].e /\ r.j = 0 /\ r.i = n
    BY <1>2, <1>3, <2>3 DEF CallRec
  <2> HIDE DEF r
  <2>5. /\ call' \in [Procs -> CallRec] /\ call'[p] = r
        /\ \A q \in Procs : q # p => call'[q] = call[q]
    BY <1>2, <2>3, <2>4
  <2> QED  BY <1>3, <2>1, <2>2, <2>4, <2>5
<1>5. CASE ~(i < NCACHE)
  <2>1. /\ Goto(p, IF call[p].file = None THEN "flushed" ELSE "unlock") /\ table' = None
        /\ call' = [call EXCEPT ![p].i = 0, ![p].j = 0]
    BY <1>5 DEF FlushNext, TurnsLeft
  <2>2. /\ pc' \in [Procs -> Points]
        /\ pc'[p] = IF call[p].file = None THEN "flushed" ELSE "unlock"
        /\ \A q \in Procs : q # p => pc'[q] = pc[q]
    BY <1>2, <2>1 DEF Goto, Points, CallPoints
  <2> DEFINE r == [call[p] EXCEPT !.i = 0, !.j = 0]
  <2>3. call' = [call EXCEPT ![p] = r]
    BY <1>2, <2>1
  <2>4. /\ r \in CallRec /\ r.file = call[p].file /\ r.op = call[p].op /\ r.off = call[p].off
        /\ r.e = call[p].e /\ r.j = 0
    BY <1>2, <1>3 DEF CallRec
  <2> HIDE DEF r
  <2>5. /\ call' \in [Procs -> CallRec] /\ call'[p] = r
        /\ \A q \in Procs : q # p => call'[q] = call[q]
    BY <1>2, <2>3, <2>4
  <2> QED  BY <1>3, <1>5, <2>1, <2>2, <2>4, <2>5
<1> QED  BY <1>4, <1>5

(* The turn ends with a slot that need not be emptied, or has been.         *)
LEMMA FlushTurn ==
  ASSUME Sound, NEW p \in Procs, pc[p] \in {"flushing", "remove"}, FlushNext(p),
         UNCHANGED <<ilock, cache, cref, fatfs, halted, calls, left>>,
         lru' \in [Slots -> 0 .. NCACHE],
         call[p].file = None => \A d \in Slots : d <= call[p].i => ~cache[d].valid
  PROVE  Sound'
<1>1. /\ pc' \in [Procs -> Points] /\ pc'[p] \in {"flushing", "flushed", "unlock"}
      /\ pc'[p] = "flushed" => call[p].file = None
      /\ pc'[p] = "unlock" => call[p].file # None
      /\ \A q \in Procs : q # p => pc'[q] = pc[q]
  BY FlushNextIs
<1>2. /\ call' \in [Procs -> CallRec]
      /\ \A q \in Procs : q # p => call'[q] = call[q]
      /\ call'[p].file = call[p].file /\ call'[p].op = call[p].op /\ call'[p].off = call[p].off
      /\ call'[p].e = call[p].e /\ call'[p].j = 0
      /\ pc'[p] = "flushing" => call'[p].i \in Slots
  BY FlushNextIs
<1>3. table' = IF pc'[p] = "flushing" THEN p ELSE None
  BY FlushNextIs
<1>4. \A d \in Slots : (pc'[p] = "flushing" => d < call'[p].i) => d <= call[p].i
  BY FlushNextIs
<1>5. table = p /\ \A q \in Procs : q # p => pc[q] \notin TablePoints
  <2>1. table = p
    BY DEF Sound, InvTable, TablePoints
  <2> QED  BY <2>1, TableAlone
<1>6. /\ call[p].file = None => \A q \in Procs : q # p => pc[q] = "exited"
      /\ ~Going /\ ~Going'
  BY <1>1, FlushAlone DEF FlushPoints
<1>7. TypeInv'
  BY <1>1, <1>2, <1>3 DEF Sound, TypeInv, fatfs
<1>8. InvCall'
  <2>1. call[p].file = None \/
          /\ call[p].op \in Ops /\ call[p].op = "link"
          /\ call[p].file \in Files /\ call[p].file \notin Fixed /\ ilock[call[p].file] = p
    BY DEF Sound, InvCall, FlushPoints
  <2> QED  BY <1>1, <1>2, <2>1 DEF Sound, InvCall, CallPoints, FlushPoints
<1>9. InvTable'
  <2>1. None \notin Procs
    BY ConstantsAssumption
  <2> QED  BY <1>1, <1>3, <1>5, <2>1 DEF InvTable, TablePoints, EvictPoints
<1>10. InvOwner'
  BY <1>1, <1>2, OwnersStay DEF OwnPoints
<1>11. InvScan'
  <2>1. pc'[p] = "flushing" /\ call'[p].file = None
          => \A d \in Slots : d < call'[p].i => ~cache'[d].valid
    BY <1>2, <1>4
  <2> QED  BY <1>1, <1>2, <1>5, <2>1 DEF InvScan, TablePoints, EvictPoints
<1>12. InvOne' /\ InvCount' /\ InvRefs' /\ \A e \in Slots : Reading(e)' <=> Reading(e)
  <2>1. /\ pc[p] \notin {"seek", "load", "idup", "add"}
        /\ pc'[p] \notin {"seek", "load", "idup", "add"}
    BY <1>1
  <2> QED  BY <1>1, <1>2, <1>6, <2>1, Steady
<1>13. InvSeek'
  <2>1. \A q \in Procs : pc'[q] \notin {"evict_write", "flush_write"}
    BY <1>1, <1>5 DEF TablePoints, EvictPoints
  <2> QED  BY <1>1, <1>2, <2>1 DEF Sound, InvSeek, fatfs
<1>14. InvClean'
  BY <1>12 DEF Sound, InvClean, fatfs
<1>15. InvList'
  BY <1>6 DEF InvList
<1>16. InvAlone'
  <2>1. pc'[p] = "flushed" => \A d \in Slots : ~cache'[d].valid
    BY <1>1, <1>4
  <2>2. ASSUME NEW q \in Procs, q # p
        PROVE  ~(pc[q] = "flushed" \/ (pc[q] \in FlushPoints /\ call[q].file = None))
    <3>1. pc[p] # "exited"
      OBVIOUS
    <3> QED  BY <2>2, <3>1 DEF Sound, InvAlone
  <2> QED  BY <1>1, <1>2, <1>6, <2>1, <2>2 DEF InvAlone, FlushPoints
<1> QED
  BY <1>7, <1>8, <1>9, <1>10, <1>11, <1>12, <1>13, <1>14, <1>15, <1>16 DEF Sound

(* The page goes, and its place in the list is looked up.                   *)
LEMMA FlushClearStep ==
  ASSUME Sound, NEW p \in Procs, pc[p] \in {"flushing", "flush_write"}, FlushClear(p),
         cache[call[p].i].valid, call[p].file \in {None, cache[call[p].i].host},
         pc[p] = "flushing" => cache[call[p].i].owner = None,
         UNCHANGED <<ilock, table, lru, halted, calls, left>>,
         size' \in [Files -> 0 .. NPage + 1], fptr' \in [Files -> 0 .. NPage + 1],
         disk' \in [Files -> [0 .. NPage -> Val]],
         \A f \in Fixed : size'[f] = size[f],
         \A f \in Files : f # cache[call[p].i].host => fptr'[f] = fptr[f],
         \A f \in Fixed, g \in Pages :
           disk'[f][g] # disk[f][g]
             => f = cache[call[p].i].host /\ g = cache[call[p].i].off
  PROVE  Sound'
<1>1. call[p].i \in Slots /\ table = p
  BY DEF Sound, InvScan, InvTable, TablePoints
<1> PICK i \in Slots : i = call[p].i
  BY <1>1
<1>2. /\ call[p].file = None => \A d \in Slots : d < i => ~cache[d].valid
      /\ cache[i].host \in Files
  BY DEF Sound, InvScan, InvOne
<1>3. /\ pc' \in [Procs -> Points] /\ pc'[p] = "remove"
      /\ \A q \in Procs : q # p => pc'[q] = pc[q]
  BY DEF FlushClear, Goto, Sound, TypeInv, Points, FlushPoints
<1>4. /\ call' \in [Procs -> CallRec]
      /\ \A q \in Procs : q # p => call'[q] = call[q]
      /\ call'[p].file = call[p].file /\ call'[p].op = call[p].op /\ call'[p].i = i
  <2>1. LruIndex(i) \in 0 .. NCACHE /\ call \in [Procs -> CallRec] /\ call[p] \in CallRec
    BY LruIndexIs DEF Sound, TypeInv
  <2> PICK k \in 0 .. NCACHE : k = LruIndex(i)
    BY <2>1
  <2> DEFINE r == [call[p] EXCEPT !.j = k]
  <2>2. call' = [call EXCEPT ![p] = r]
    BY <2>1 DEF FlushClear
  <2>3. r \in CallRec /\ r.file = call[p].file /\ r.op = call[p].op /\ r.i = i
    BY <2>1 DEF CallRec
  <2> HIDE DEF r
  <2> QED  BY <2>1, <2>2, <2>3
<1>5. \A q \in Procs : q # p => pc[q] \notin TablePoints
  BY <1>1, TableAlone
<1>6. /\ call[p].file = None => \A q \in Procs : q # p => pc[q] = "exited"
      /\ ~Going /\ ~Going'
  BY <1>3, FlushAlone DEF FlushPoints
<1>7. \A q \in Procs : pc[q] \in OwnPoints => call[q].e # i
  <2>1. cache[i].owner \in {None, p} /\ pc[p] \notin OwnPoints
    BY DEF Sound, InvOwner, OwnPoints
  <2> QED  BY <2>1, ConstantsAssumption DEF Sound, InvOwner
<1>8. /\ cache' \in [Slots -> SlotRec]
      /\ \A d \in Slots : d # i => cache'[d] = cache[d]
      /\ ~cache'[i].valid /\ cache'[i].owner = None
      /\ cref' \in [Files -> Nat] /\ InvOne' /\ InvRefs'
      /\ \A d \in Slots : Reading(d)' <=> Reading(d)
  <2>1. pc[p] \notin OwnPoints /\ pc'[p] \notin OwnPoints
    BY <1>3 DEF OwnPoints
  <2>2. Clear(i) /\ cache[i].valid
    BY DEF FlushClear
  <2>3. \A q \in Procs : q # p => pc'[q] = pc[q] /\ call'[q] = call[q]
    BY <1>3, <1>4
  <2>4. \A q \in Procs : pc[q] \in OwnPoints => call[q].e # i
    BY <1>7
  <2> QED  BY <2>1, <2>2, <2>3, <2>4, ClearIs
<1>9. TypeInv'
  BY <1>3, <1>4, <1>8 DEF Sound, TypeInv
<1>10. InvCall'
  BY <1>3, <1>4 DEF Sound, InvCall, CallPoints, FlushPoints
<1>11. InvTable'
  BY <1>1, <1>3, <1>5 DEF InvTable, TablePoints, EvictPoints
<1>12. InvOwner'
  <2>1. \A q \in Procs : pc'[q] # "flush_write"
    BY <1>3, <1>5 DEF TablePoints
  <2>2. ASSUME NEW q \in Procs, pc'[q] \in OwnPoints
        PROVE  /\ call'[q].e \in Slots /\ cache'[call'[q].e].owner = q
               /\ Matches(call[q].e, call[q])'
    <3>1. q # p /\ pc[q] \in OwnPoints /\ call'[q] = call[q]
      BY <1>3, <1>4, <2>2 DEF OwnPoints
    <3>2. call[q].e \in Slots /\ cache[call[q].e].owner = q /\ Matches(call[q].e, call[q])
      BY <3>1 DEF Sound, InvOwner
    <3>3. cache'[call[q].e] = cache[call[q].e]
      BY <1>7, <1>8, <3>1, <3>2
    <3> QED  BY <3>1, <3>2, <3>3 DEF Matches
  <2>3. ASSUME NEW d \in Slots, cache'[d].owner # None
        PROVE  (pc'[cache'[d].owner] \in OwnPoints /\ call'[cache'[d].owner].e = d) \/ d \in left'
    <3>1. d # i /\ cache'[d] = cache[d]
      BY <1>8, <2>3
    <3> PICK q \in Procs : q = cache[d].owner
      BY <2>3, <3>1 DEF Sound, TypeInv, SlotRec
    <3>2. \/ pc[q] \in OwnPoints /\ call[q].e = d
          \/ pc[q] = "flush_write" /\ call[q].i = d
          \/ d \in left
      BY <2>3, <3>1 DEF Sound, InvOwner
    <3>3. ~(pc[q] = "flush_write" /\ call[q].i = d)
      BY <1>5, <3>1 DEF TablePoints
    <3>4. pc[q] \in OwnPoints => q # p
      BY DEF OwnPoints
    <3> QED  BY <1>3, <1>4, <3>1, <3>2, <3>3, <3>4
  <2> QED  BY <2>1, <2>2, <2>3 DEF InvOwner
<1>13. InvScan'
  <2>1. call'[p].file = None => \A d \in Slots : d <= i => ~cache'[d].valid
    <3>1. \A d \in Slots : d <= i => d < i \/ d = i
      BY DEF Slots
    <3> QED  BY <1>2, <1>4, <1>8, <3>1
  <2>2. \A q \in Procs : q # p =>
          pc'[q] \notin {"find", "empty", "flushing", "flush_write", "remove"} \cup EvictPoints
    BY <1>3, <1>5 DEF TablePoints
  <2>3. pc'[p] = "remove" /\ call'[p].i = i /\ pc'[p] \notin EvictPoints
    BY <1>3, <1>4 DEF EvictPoints
  <2> QED  BY <2>1, <2>2, <2>3 DEF InvScan
<1>14. InvCount' /\ InvList'
  BY <1>6 DEF InvCount, InvList
<1>15. InvSeek'
  <2>1. \A q \in Procs : pc'[q] \notin {"evict_write", "flush_write"}
    BY <1>3, <1>5 DEF TablePoints, EvictPoints
  <2>2. ASSUME NEW q \in Procs, pc'[q] = "load", call'[q].file \in Fixed
        PROVE  fptr'[call'[q].file] = call'[q].off
    <3>1. q # p /\ pc[q] = "load" /\ call'[q] = call[q]
      BY <1>3, <1>4, <2>2
    <3>2. call[p].file # None
      BY <1>6, <3>1
    <3>3. call[p].file = cache[i].host /\ call[p].file \notin Fixed
      BY <3>2 DEF Sound, InvCall, FlushPoints
    <3>4. call[q].file \in Files /\ fptr[call[q].file] = call[q].off
      BY <2>2, <3>1 DEF Sound, InvSeek, InvCall, CallPoints
    <3> QED  BY <2>2, <3>1, <3>3, <3>4
  <2> QED  BY <2>1, <2>2 DEF InvSeek
<1>16. InvClean'
  <2>1. \A f \in Fixed : size'[f] = NPage
    BY DEF Sound, InvClean
  <2>2. ASSUME NEW d \in Slots, cache'[d].valid, ~Reading(d)', cache'[d].host \in Fixed,
               ~cache'[d].dirty
        PROVE  cache'[d].data = disk'[cache'[d].host][cache'[d].off]
    <3>1. d # i /\ cache'[d] = cache[d]
      BY <1>8, <2>2
    <3>2. cache[d].data = disk[cache[d].host][cache[d].off]
      BY <1>8, <2>2, <3>1 DEF Sound, InvClean
    <3>3. ~(cache[d].host = cache[i].host /\ cache[d].off = cache[i].off)
      BY <2>2, <3>1 DEF Sound, InvOne
    <3>4. cache[d].off \in Pages /\ cache[d].host \in Fixed
      BY <2>2, <3>1 DEF Sound, TypeInv, SlotRec
    <3>5. disk'[cache[d].host][cache[d].off] = disk[cache[d].host][cache[d].off]
      BY <3>3, <3>4
    <3> QED  BY <3>1, <3>2, <3>5
  <2> QED  BY <2>1, <2>2 DEF InvClean
<1>17. InvAlone'
  <2>1. ASSUME NEW q \in Procs, q # p
        PROVE  ~(pc[q] = "flushed" \/ (pc[q] \in FlushPoints /\ call[q].file = None))
    <3>1. pc[p] # "exited"
      OBVIOUS
    <3> QED  BY <2>1, <3>1 DEF Sound, InvAlone
  <2> QED  BY <1>3, <1>4, <1>6, <2>1 DEF InvAlone, FlushPoints
<1> QED
  BY <1>8, <1>9, <1>10, <1>11, <1>12, <1>13, <1>14, <1>15, <1>16, <1>17 DEF Sound

(* The slot is not to be emptied, or dirty and FatFs seeks to the place of  *)
(* the page, or it is cleared.                                              *)
LEMMA FlushStep ==
  ASSUME Sound, NEW p \in Procs, Flush(p)
  PROVE  Sound'
<1>1. /\ pc[p] = "flushing" /\ UNCHANGED <<ilock, lru, halted, calls, left>>
      /\ call[p].i \in Slots /\ cache[call[p].i].owner = None /\ table = p
  BY DEF Flush, At, Unheld, Sound, InvScan, InvTable, TablePoints
<1> PICK i \in Slots : i = call[p].i
  BY <1>1
<1>2. /\ call[p].file = None => \A q \in Procs : q # p => pc[q] = "exited"
      /\ \A q \in Procs : q # p => pc[q] \notin TablePoints
      /\ \A q \in Procs : pc[q] \in OwnPoints => call[q].e # i
  <2>1. call[p].file = None => \A q \in Procs : q # p => pc[q] = "exited"
    BY <1>1 DEF Sound, InvAlone, FlushPoints
  <2> QED  BY <1>1, <2>1, TableAlone, ConstantsAssumption DEF Sound, InvOwner
<1>3. Flushes(i, call[p].file) <=> cache[i].valid /\ call[p].file \in {None, cache[i].host}
  BY DEF Flushes
<1>4. NPage \in Nat \ {0} /\ Fixed \subseteq Files /\ None \notin Procs
  BY ConstantsAssumption
<1>5. /\ cache \in [Slots -> SlotRec] /\ cref \in [Files -> Nat] /\ lru \in [Slots -> 0 .. NCACHE]
      /\ size \in [Files -> 0 .. NPage + 1] /\ fptr \in [Files -> 0 .. NPage + 1]
      /\ disk \in [Files -> [0 .. NPage -> Val]]
  BY DEF Sound, TypeInv
<1>6. CASE ~Flushes(i, call[p].file)
  <2>1. FlushNext(p) /\ UNCHANGED <<cache, cref, fatfs>>
    BY <1>6 DEF Flush
  <2>2. call[p].file = None => \A d \in Slots : d <= i => ~cache[d].valid
    <3>1. call[p].file = None => ~cache[i].valid /\ \A d \in Slots : d < i => ~cache[d].valid
      BY <1>1, <1>3, <1>6 DEF Sound, InvScan
    <3>2. \A d \in Slots : d <= i => d < i \/ d = i
      BY DEF Slots
    <3> QED  BY <3>1, <3>2
  <2> QED  BY <1>1, <1>5, <2>1, <2>2, FlushTurn
<1>7. CASE Flushes(i, call[p].file) /\ ~cache[i].dirty
  <2>1. FlushClear(p) /\ UNCHANGED <<table, fatfs>>
    BY <1>7 DEF Flush
  <2> QED  BY <1>1, <1>3, <1>5, <1>7, <2>1, FlushClearStep DEF fatfs
<1>8. CASE Flushes(i, call[p].file) /\ cache[i].dirty
  <2>1. /\ FSeek(cache[i].host, cache[i].off) /\ Goto(p, "flush_write")
        /\ cache' = [cache EXCEPT ![i].owner = p]
        /\ UNCHANGED <<call, table, cref>>
    BY <1>8 DEF Flush
  <2>2. cache[i].host \in Files /\ cache[i].off \in 0 .. NPage
    BY <1>3, <1>4, <1>5, <1>8 DEF Sound, InvOne, SlotRec, Pages
  <2> PICK h \in Files : h = cache[i].host
    BY <2>2
  <2> PICK o \in 0 .. NPage : o = cache[i].off
    BY <2>2
  <2>3. /\ UNCHANGED disk
        /\ fptr' \in [Files -> 0 .. NPage + 1] /\ size' \in [Files -> 0 .. NPage + 1]
        /\ \A g \in Files : g # h => fptr'[g] = fptr[g] /\ size'[g] = size[g]
        /\ fptr'[h] = o /\ fptr'[h] <= NPage
        /\ size'[h] = IF size[h] >= o THEN size[h] ELSE o
    BY <1>5, <2>1, FSeekTypes
  <2>4. \A f \in Fixed : size'[f] = NPage
    <3>1. o <= NPage
      BY <1>4
    <3> QED  BY <1>4, <2>3, <3>1 DEF Sound, InvClean
  <2>5. /\ pc' \in [Procs -> Points] /\ pc'[p] = "flush_write"
        /\ \A q \in Procs : q # p => pc'[q] = pc[q]
    BY <2>1 DEF Goto, Sound, TypeInv, Points, FlushPoints
  <2>6. /\ cache' \in [Slots -> SlotRec]
        /\ \A d \in Slots : /\ cache'[d].valid = cache[d].valid /\ cache'[d].host = cache[d].host
                            /\ cache'[d].off = cache[d].off
                            /\ cache'[d].data = cache[d].data /\ cache'[d].dirty = cache[d].dirty
                            /\ cache'[d].owner = IF d = i THEN p ELSE cache[d].owner
    <3> DEFINE r == [cache[i] EXCEPT !.owner = p]
    <3>1. cache[i] \in SlotRec
      BY <1>5
    <3>2. /\ r \in SlotRec
          /\ r.valid = cache[i].valid /\ r.host = cache[i].host /\ r.off = cache[i].off
          /\ r.data = cache[i].data /\ r.dirty = cache[i].dirty /\ r.owner = p
      BY <3>1 DEF SlotRec
    <3>3. cache' = [cache EXCEPT ![i] = r]
      BY <2>1
    <3> HIDE DEF r
    <3>4. cache' \in [Slots -> SlotRec] /\ cache'[i] = r
      BY <1>5, <3>2, <3>3
    <3>5. \A d \in Slots : d # i => cache'[d] = cache[d]
      BY <1>5, <3>3
    <3> QED  BY <1>2, <3>2, <3>4, <3>5
  <2>7. TypeInv'
    BY <1>1, <2>1, <2>3, <2>5, <2>6 DEF Sound, TypeInv
  <2>8. InvCall'
    BY <1>1, <2>1, <2>5 DEF Sound, InvCall, CallPoints, FlushPoints
  <2>9. InvTable'
    BY <1>1, <2>1, <2>5 DEF Sound, InvTable, TablePoints, EvictPoints
  <2>10. InvOwner'
    <3>1. \A q \in Procs : q # p => pc[q] # "flush_write"
      BY <1>2 DEF TablePoints
    <3>2. ASSUME NEW d \in Slots, d # i, cache'[d].owner # None
          PROVE  \/ pc[cache[d].owner] \in OwnPoints /\ call[cache[d].owner].e = d
                 \/ d \in left
      <4>1. cache'[d].owner = cache[d].owner
        BY <2>6, <3>2
      <4> PICK q \in Procs : q = cache[d].owner
        BY <1>5, <3>2, <4>1 DEF SlotRec
      <4>2. pc[q] # "flush_write"
        BY <1>1, <3>1
      <4> QED  BY <3>2, <4>1, <4>2 DEF Sound, InvOwner
    <3>3. \A d \in Slots : cache[d].owner \in Procs \cup {None}
      BY <1>5 DEF SlotRec
    <3>4. \A q \in Procs : pc'[q] \in OwnPoints <=> pc[q] \in OwnPoints
      BY <1>1, <2>5 DEF OwnPoints
    <3> QED  BY <1>1, <1>2, <1>4, <2>1, <2>5, <2>6, <3>1, <3>2, <3>3, <3>4
             DEF Sound, InvOwner, Matches
  <2>11. InvScan'
    BY <1>1, <1>2, <2>1, <2>5, <2>6 DEF Sound, InvScan, EvictPoints, TablePoints
  <2>12. ~Going /\ ~Going'
    BY <1>1, <2>5, FlushAlone DEF FlushPoints
  <2>13. InvOne' /\ InvCount' /\ InvRefs' /\ \A d \in Slots : Reading(d)' <=> Reading(d)
    BY <1>1, <2>1, <2>5, <2>6, <2>12, Steady
  <2>14. InvSeek'
    <3>1. AtPage(i)' /\ cache'[i].host = h
      BY <1>3, <1>8, <2>3, <2>6 DEF AtPage
    <3>2. \A q \in Procs : pc'[q] # "evict_write" /\ (pc'[q] = "flush_write" => q = p)
      BY <1>2, <2>5 DEF TablePoints, EvictPoints
    <3>3. ASSUME NEW q \in Procs, pc'[q] = "load", call'[q].file \in Fixed
          PROVE  fptr'[call'[q].file] = call'[q].off
      <4>1. q # p /\ pc[q] = "load" /\ call'[q] = call[q]
        BY <2>1, <2>5, <3>3
      <4>2. call[p].file # None
        BY <1>2, <4>1
      <4>3. call[p].file = h /\ h \notin Fixed
        BY <1>1, <1>3, <1>8, <4>2 DEF Sound, InvCall, FlushPoints
      <4> QED  BY <1>4, <2>3, <3>3, <4>1, <4>3 DEF Sound, InvSeek
    <3>4. call'[p].i = i /\ call'[p].file \in {None, h}
      BY <1>3, <1>8, <2>1
    <3>5. AtPage(call[p].i)'
      BY <3>1, <3>4 DEF AtPage
    <3> QED  BY <3>1, <3>2, <3>3, <3>4, <3>5 DEF InvSeek
  <2>15. InvClean'
    BY <2>3, <2>4, <2>6, <2>13 DEF Sound, InvClean
  <2>16. InvList'
    BY <2>12 DEF InvList
  <2>17. InvAlone'
    BY <1>1, <2>1, <2>5, <2>6 DEF Sound, InvAlone, FlushPoints
  <2> QED
    BY <2>7, <2>8, <2>9, <2>10, <2>11, <2>13, <2>14, <2>15, <2>16, <2>17 DEF Sound
<1> QED  BY <1>6, <1>7, <1>8

(* ... and is cleared when it has been written.                             *)
LEMMA FlushWriteStep ==
  ASSUME Sound, NEW p \in Procs, FlushWrite(p)
  PROVE  Sound'
<1>1. /\ pc[p] = "flush_write" /\ UNCHANGED <<ilock, table, lru, halted, calls, left>>
      /\ call[p].i \in Slots /\ AtPage(call[p].i)
      /\ call[p].file \in {None, cache[call[p].i].host}
  BY DEF FlushWrite, At, Sound, InvScan, InvSeek
<1> PICK i \in Slots : i = call[p].i
  BY <1>1
<1>2. WriteBack(i) /\ FlushClear(p) /\ cache[i].valid
  BY <1>1 DEF FlushWrite, AtPage
<1>3. /\ size' \in [Files -> 0 .. NPage + 1] /\ fptr' \in [Files -> 0 .. NPage + 1]
      /\ disk' \in [Files -> [0 .. NPage -> Val]]
      /\ \A f \in Fixed : size'[f] = size[f]
      /\ \A f \in Files : f # cache[i].host => fptr'[f] = fptr[f]
      /\ \A f \in Fixed, g \in Pages :
           disk'[f][g] # disk[f][g] => f = cache[i].host /\ g = cache[i].off
  BY <1>1, <1>2, WriteBackIs
<1> QED  BY <1>1, <1>2, <1>3, FlushClearStep

(* One assignment of the shift of ctable_lru_remove(), next to the shifts   *)
(* of ctable_lru_add(): whatever it does to the list, nobody relies on it.  *)
LEMMA RemoveStep ==
  ASSUME Sound, NEW p \in Procs, Remove(p)
  PROVE  Sound'
<1> DEFINE j == call[p].j
<1>1. /\ pc[p] = "remove" /\ table = p
      /\ UNCHANGED <<ilock, cache, cref, fatfs, halted, calls, left>>
  BY DEF Remove, At, Sound, InvTable, TablePoints
<1>2. /\ NCACHE \in Nat \ {0} /\ NCACHE \in Slots
      /\ j \in 1 .. NCACHE - 1 => j \in Slots /\ j + 1 \in Slots /\ j + 1 \in 0 .. NCACHE
      /\ 0 \in 0 .. NCACHE
  BY ConstantsAssumption DEF Slots
<1>3. lru \in [Slots -> 0 .. NCACHE] /\ call \in [Procs -> CallRec] /\ call[p] \in CallRec
  BY DEF Sound, TypeInv
<1>4. CASE ~(j \in 1 .. NCACHE - 1)
  <2>1. FlushNext(p) /\ (lru' = lru \/ lru' = [lru EXCEPT ![NCACHE] = 0])
    BY <1>4 DEF Remove
  <2>2. lru' \in [Slots -> 0 .. NCACHE]
    BY <1>2, <1>3, <2>1
  <2>3. call[p].file = None => \A d \in Slots : d <= call[p].i => ~cache[d].valid
    BY <1>1 DEF Sound, InvScan
  <2> QED  BY <1>1, <2>1, <2>2, <2>3, FlushTurn
<1>5. CASE j \in 1 .. NCACHE - 1
  <2>1. /\ lru' = [lru EXCEPT ![j] = lru[j + 1]]
        /\ call' = [call EXCEPT ![p].j = j + 1] /\ UNCHANGED <<pc, table>>
    BY <1>5 DEF Remove
  <2>2. lru' \in [Slots -> 0 .. NCACHE]
    BY <1>2, <1>3, <1>5, <2>1
  <2>3. /\ call' \in [Procs -> CallRec]
        /\ \A q \in Procs : q # p => call'[q] = call[q]
        /\ call'[p].file = call[p].file /\ call'[p].op = call[p].op /\ call'[p].off = call[p].off
        /\ call'[p].e = call[p].e /\ call'[p].i = call[p].i
    <3> PICK k \in 0 .. NCACHE : k = j + 1
      BY <1>2, <1>5
    <3> DEFINE r == [call[p] EXCEPT !.j = k]
    <3>1. call' = [call EXCEPT ![p] = r]
      BY <1>3, <2>1
    <3>2. /\ r \in CallRec /\ r.file = call[p].file /\ r.op = call[p].op /\ r.off = call[p].off
          /\ r.e = call[p].e /\ r.i = call[p].i
      BY <1>3 DEF CallRec
    <3> HIDE DEF r, j
    <3> QED  BY <1>3, <3>1, <3>2
  <2> HIDE DEF j
  <2>4. ~Going /\ ~Going' /\ \A q \in Procs : q # p => pc[q] \notin TablePoints
    BY <1>1, <2>1, FlushAlone, TableAlone DEF FlushPoints
  <2>5. TypeInv'
    BY <1>1, <2>1, <2>2, <2>3 DEF Sound, TypeInv, fatfs
  <2>6. InvCall'
    BY <1>1, <2>1, <2>3 DEF Sound, InvCall, CallPoints, FlushPoints
  <2>7. InvTable' /\ InvScan'
    BY <1>1, <2>1, <2>3, <2>4 DEF Sound, InvTable, InvScan, TablePoints, EvictPoints
  <2>8. InvOwner'
    BY <1>1, <2>1, <2>3, OwnersStay DEF OwnPoints
  <2>9. InvOne' /\ InvCount' /\ InvRefs' /\ \A e \in Slots : Reading(e)' <=> Reading(e)
    BY <1>1, <2>1, <2>3, <2>4, Steady
  <2>10. InvSeek'
    <3>1. \A q \in Procs : pc'[q] \notin {"evict_write", "flush_write"}
      BY <1>1, <2>1, <2>4 DEF TablePoints, EvictPoints
    <3> QED  BY <1>1, <2>1, <2>3, <3>1 DEF Sound, InvSeek, fatfs
  <2>11. InvClean'
    BY <1>1, <2>9 DEF Sound, InvClean, fatfs
  <2>12. InvList'
    BY <2>4 DEF InvList
  <2>13. InvAlone'
    BY <1>1, <2>1, <2>3 DEF Sound, InvAlone, FlushPoints
  <2> QED  BY <2>5, <2>6, <2>7, <2>8, <2>9, <2>10, <2>11, <2>12, <2>13 DEF Sound
<1> QED  BY <1>4, <1>5

-----------------------------------------------------------------------------
(* Nobody is in a call and nothing is in the cache.                         *)
LEMMA InitInv == Init => Sound
<1> SUFFICES ASSUME Init PROVE Sound
  OBVIOUS
<1>1. /\ \A p \in Procs : pc[p] = "idle" /\ call[p] = NoCall
      /\ \A f \in Files : ilock[f] = None /\ cref[f] = 0 /\ fptr[f] = 0
      /\ \A e \in Slots : cache[e] = EmptySlot /\ lru[e] = 0
      /\ table = None /\ left = {}
  BY DEF Init
<1>2. /\ NPage \in Nat \ {0} /\ NCACHE \in Nat \ {0} /\ MaxCalls \in Nat
      /\ 0 \in Val /\ Fixed \subseteq Files /\ None \notin Procs /\ None \notin Files
  BY ConstantsAssumption
<1>3. TypeInv
  <2>1. 0 \in Pages /\ 0 \in 0 .. NCACHE /\ 0 \in 0 .. NPage + 1 /\ NPage \in 0 .. NPage + 1
    BY <1>2 DEF Pages
  <2>2. NoCall \in CallRec
    BY <2>1 DEF NoCall, CallRec
  <2>3. EmptySlot \in SlotRec
    BY <1>2, <2>1 DEF EmptySlot, SlotRec
  <2>4. calls \in 0 .. MaxCalls
    BY <1>2 DEF Init
  <2>5. "idle" \in Points
    BY DEF Points
  <2> QED  BY <1>2, <2>1, <2>2, <2>3, <2>4, <2>5 DEF Init, TypeInv
<1>4. InvCall
  BY <1>1 DEF InvCall, CallPoints, NoCall
<1>5. InvTable
  BY <1>1, <1>2 DEF InvTable, TablePoints, EvictPoints
<1>6. InvOwner
  BY <1>1 DEF InvOwner, OwnPoints, EmptySlot
<1>7. InvScan
  BY <1>1 DEF InvScan, EvictPoints
<1>8. InvOne
  BY <1>1 DEF InvOne, EmptySlot
<1>9. InvList
  <2>1. \A k \in Slots : lru[k] = 0
    BY <1>1
  <2>2. \A p \in Procs : pc[p] \notin {"adjust", "add"}
    BY <1>1
  <2> QED  BY <2>1, <2>2 DEF InvList
<1>10. Cardinality({}) = 0
  BY FS_EmptySet
<1>11. InvCount
  <2>1. Listed = {} /\ Full = {}
    BY <1>1 DEF Listed, Full, EmptySlot
  <2> QED  BY <1>10, <2>1 DEF InvCount
<1>12. InvRefs
  <2>1. \A f \in Files : HeldBy(f) = {}
    BY <1>1 DEF HeldBy, EmptySlot
  <2> QED  BY <1>1, <1>10, <2>1 DEF InvRefs
<1>13. InvAlone
  BY <1>1 DEF InvAlone, FlushPoints, EmptySlot
<1>14. InvSeek
  BY <1>1 DEF InvSeek
<1>15. InvClean
  <2>1. \A f \in Fixed : size[f] = NPage
    BY <1>2 DEF Init
  <2> QED  BY <1>1, <2>1 DEF InvClean, EmptySlot
<1> QED
  BY <1>3, <1>4, <1>5, <1>6, <1>7, <1>8, <1>9, <1>11, <1>12, <1>13, <1>14, <1>15 DEF Sound

(* A step that changes nothing.                                             *)
LEMMA StutterInv ==
  ASSUME Sound, UNCHANGED vars
  PROVE  Sound'
<1>1. UNCHANGED <<pc, call, ilock, table, cache, lru, cref, size, disk, fptr, halted, calls, left>>
  BY DEF vars, fatfs
<1>2. TypeInv' /\ InvCall' /\ InvTable'
  BY <1>1 DEF Sound, TypeInv, InvCall, InvTable
<1>3. InvScan' /\ InvAlone' /\ InvOne'
  BY <1>1 DEF Sound, InvScan, Passed, Matches, InvAlone, InvOne
<1>4. InvSeek'
  BY <1>1 DEF Sound, InvSeek, LastAtPage, LruLast, AtPage
<1>5. InvOwner' /\ InvClean'
  BY <1>1 DEF Sound, InvOwner, Matches, InvClean, Reading
<1>6. Going' <=> Going
  BY <1>1 DEF Going, NoLinks
<1>7. InvList'
  BY <1>1, <1>6 DEF Sound, InvList
<1>8. Listed' = Listed /\ Full' = Full
  BY <1>1 DEF Listed, Full, Unlisted, New
<1>9. InvCount'
  BY <1>6, <1>8 DEF Sound, InvCount
<1>10. \A f \in Files : HeldBy(f)' = HeldBy(f)
  BY <1>1 DEF HeldBy, New
<1>11. InvRefs'
  BY <1>1, <1>10 DEF Sound, InvRefs
<1> QED  BY <1>2, <1>3, <1>4, <1>5, <1>7, <1>9, <1>11 DEF Sound

(* Only idup() makes a run hasty, ...                                       *)
LEMMA OnlyIdup ==
  ASSUME [Next]_vars, \A p \in Procs : ~Idup(p)
  PROVE  hasty' = hasty
<1>1. ASSUME NEW p \in Procs, Call(p) \/ Exit(p) \/ Step(p)
      PROVE  hasty' = hasty
  <2>1. CASE Call(p)
    BY <2>1, ZenonT(60) DEF Call
  <2>2. CASE Exit(p) \/ Truncate(p) \/ Copy(p) \/ Unlock(p) \/ LockTable(p)
    BY <2>2 DEF Exit, Truncate, Copy, Unlock, LockTable
  <2>3. CASE Find(p) \/ Adjust(p) \/ FindEmpty(p) \/ Seek(p) \/ Load(p) \/ ReadFails(p)
    BY <2>3 DEF Find, Adjust, FindEmpty, Seek, Load, ReadFails
  <2>4. CASE LruAdd(p) \/ Evict(p) \/ EvictWrite(p) \/ WriteBackFails(p)
    BY <2>4 DEF LruAdd, Evict, EvictWrite, WriteBackFails
  <2>5. CASE FlushLock(p) \/ Flush(p) \/ FlushWrite(p) \/ Remove(p) \/ Leave(p)
    BY <2>5 DEF FlushLock, Flush, FlushWrite, Remove, Leave
  <2> QED  BY <1>1, <2>1, <2>2, <2>3, <2>4, <2>5 DEF Step
<1>2. CASE UNCHANGED vars
  BY <1>2 DEF vars
<1> QED  BY <1>1, <1>2 DEF Next

(* ... and nothing undoes it.                                               *)
LEMMA HastyStays ==
  ASSUME hasty \in BOOLEAN, [Next]_vars
  PROVE  hasty' \in BOOLEAN /\ (hasty => hasty')
<1>1. ASSUME NEW p \in Procs, Idup(p)
      PROVE  hasty' = (hasty \/ lru[NCACHE] # 0)
  BY <1>1 DEF Idup
<1>2. CASE \A p \in Procs : ~Idup(p)
  BY <1>2, OnlyIdup
<1> QED  BY <1>1, <1>2

LEMMA NextInv ==
  ASSUME Sound, [Next]_vars, ~hasty'
  PROVE  Sound'
<1>1. CASE UNCHANGED vars
  BY <1>1, StutterInv
<1>2. ASSUME NEW p \in Procs, Call(p) \/ Exit(p) \/ Step(p)
      PROVE  Sound'
  <2>1. CASE Call(p)
    BY <2>1, CallStep
  <2>2. CASE Exit(p)
    BY <2>2, ExitStep
  <2>3. CASE Truncate(p)
    BY <2>3, TruncateStep
  <2>4. CASE Copy(p)
    BY <2>4, CopyStep
  <2>5. CASE Unlock(p)
    BY <2>5, UnlockStep
  <2>6. CASE LockTable(p)
    BY <2>6, LockTableStep
  <2>7. CASE Find(p)
    BY <2>7, FindStep
  <2>8. CASE Adjust(p)
    BY <2>8, AdjustStep
  <2>9. CASE FindEmpty(p)
    BY <2>9, FindEmptyStep
  <2>10. CASE Seek(p)
    BY <2>10, SeekStep
  <2>11. CASE Load(p)
    BY <2>11, LoadStep
  <2>12. CASE ReadFails(p)
    BY <2>12, ReadFailsStep
  <2>13. CASE Idup(p)
    BY <2>13, IdupStep
  <2>14. CASE LruAdd(p)
    BY <2>14, LruAddStep
  <2>15. CASE Evict(p)
    BY <2>15, EvictStep
  <2>16. CASE EvictWrite(p)
    BY <2>16, EvictWriteStep
  <2>17. CASE WriteBackFails(p)
    BY <2>17, HaltStep DEF WriteBackFails
  <2>18. CASE FlushLock(p)
    BY <2>18, FlushLockStep
  <2>19. CASE Flush(p)
    BY <2>19, FlushStep
  <2>20. CASE FlushWrite(p)
    BY <2>20, FlushWriteStep
  <2>21. CASE Remove(p)
    BY <2>21, RemoveStep
  <2>22. CASE Leave(p)
    BY <2>22, LeaveStep
  <2> QED
    BY <1>2, <2>1, <2>2, <2>3, <2>4, <2>5, <2>6, <2>7, <2>8, <2>9, <2>10, <2>11, <2>12,
       <2>13, <2>14, <2>15, <2>16, <2>17, <2>18, <2>19, <2>20, <2>21, <2>22 DEF Step
<1> QED  BY <1>1, <1>2 DEF Next

(* The inductive invariant holds in every state: until an eviction runs      *)
(* without ctable.lock everything is Sound.                                 *)
THEOREM Invariance == Spec => []IInv
<1>1. Init => IInv
  BY InitInv DEF IInv, Init
<1>2. IInv /\ [Next]_vars => IInv'
  <2> SUFFICES ASSUME IInv, [Next]_vars
               PROVE  IInv'
    OBVIOUS
  <2>1. hasty' \in BOOLEAN /\ (hasty => hasty')
    BY HastyStays DEF IInv
  <2>2. ~hasty' => Sound'
    BY <2>1, NextInv DEF IInv
  <2> QED  BY <2>1, <2>2 DEF IInv
<1> QED  BY <1>1, <1>2, PTL DEF Spec

(* Without linkat() it never does: the LRU list is not longer than there are *)
(* pages in the cache, and the page of who is about to be listed is not one. *)
THEOREM NeverHasty ==
  ASSUME NoLinks
  PROVE  Spec => []~hasty
<1>1. Init => ~hasty
  BY DEF Init
<1>2. IInv /\ ~hasty /\ [Next]_vars => ~hasty'
  <2> SUFFICES ASSUME IInv, ~hasty, [Next]_vars
               PROVE  ~hasty'
    OBVIOUS
  <2>1. ASSUME NEW p \in Procs, Idup(p)
        PROVE  ~hasty'
    <3>1. lru[NCACHE] = 0
      BY <2>1, RoomInList DEF IInv, Idup, At
    <3> QED  BY <2>1, <3>1 DEF Idup
  <2>2. ASSUME \A p \in Procs : ~Idup(p)
        PROVE  ~hasty'
    BY <2>2, OnlyIdup
  <2> QED  BY <2>1, <2>2
<1> QED  BY <1>1, <1>2, Invariance, PTL DEF Spec

(* TypeOK: besides Sound's, the references on an inode stay within the       *)
(* number of slots.                                                         *)
THEOREM TypeCorrect == Spec => []TypeOK
<1>1. IInv => TypeOK
  <2> SUFFICES ASSUME hasty \in BOOLEAN, Sound PROVE TypeOK
    BY DEF IInv, TypeOK
  <2>1. NCACHE \in Nat \ {0} /\ 1 \in Slots
    BY ConstantsAssumption DEF Slots
  <2>2. ASSUME NEW f \in Files
        PROVE  cref[f] \in 0 .. NCACHE
    <3>1. HeldBy(f) \in SUBSET Slots
      BY DEF HeldBy
    <3>2. Cardinality(HeldBy(f)) \in Nat /\ Cardinality(HeldBy(f)) <= NCACHE
      BY <2>1, <3>1, SlotSets
    <3>3. cref[f] = Cardinality(HeldBy(f))
      BY DEF Sound, InvRefs
    <3> QED  BY <2>1, <3>2, <3>3
  <2>3. cref \in [Files -> 0 .. NCACHE]
    BY <2>2 DEF Sound, TypeInv
  <2>4. pc \in [Procs -> {"idle", "trunc", "copy", "unlock", "table", "find", "adjust",
                          "empty", "seek", "load", "idup", "add", "evict", "evict_write",
                          "flush", "flushing", "flush_write", "remove", "flushed",
                          "leave", "exited"}]
    BY DEF Sound, TypeInv, Points, CallPoints, FlushPoints
  <2> QED  BY <2>3, <2>4 DEF Sound, TypeInv, TypeOK, CallRec, SlotRec
<1> QED  BY <1>1, Invariance, PTL

(* InUseStays: from ctable_acquire() to the release of the page's mutex the *)
(* caller's page is loaded, in its slot and the caller's.  InvOwner ties    *)
(* the mutex to the call, so nobody else is reading into that slot.         *)
THEOREM InUseStaysHolds == Spec => []InUseStays
<1>1. IInv => InUseStays
  <2> SUFFICES ASSUME Sound, NEW p \in Procs, pc[p] = "copy"
               PROVE  /\ Matches(call[p].e, call[p]) /\ Loaded(call[p].e)
                      /\ cache[call[p].e].owner = p
    BY DEF IInv, InUseStays
  <2>1. Matches(call[p].e, call[p]) /\ cache[call[p].e].owner = p /\ call[p].e \in Slots
    BY DEF Sound, InvOwner, OwnPoints
  <2>2. ASSUME NEW q \in Procs, pc[q] \in {"seek", "load"}
        PROVE  call[q].e # call[p].e
    <3>1. pc[p] \in OwnPoints /\ pc[q] \in OwnPoints /\ q # p
      BY <2>2 DEF OwnPoints
    <3>2. pc[q] \in OwnPoints /\ call[q].e = call[p].e => q = p
      BY <2>1, <3>1, OwnerIs
    <3> QED  BY <3>1, <3>2
  <2>3. Loaded(call[p].e)
    BY <2>1, <2>2 DEF Loaded, Matches
  <2> QED  BY <2>1, <2>3
<1> QED  BY <1>1, Invariance, PTL

(* CacheExact: no page is in two slots, an inode is referenced once for     *)
(* each of its pages, and nothing is left when ctable_release(NULL) is      *)
(* through.                                                                 *)
THEOREM CacheExactHolds == Spec => []CacheExact
<1>1. IInv => CacheExact
  <2> SUFFICES ASSUME Sound PROVE CacheExact
    BY DEF IInv, CacheExact
  <2>1. \A d, e \in Slots : d # e /\ cache[d].valid /\ cache[e].valid
          => <<cache[d].host, cache[d].off>> # <<cache[e].host, cache[e].off>>
    BY DEF Sound, InvOne
  <2>2. ASSUME NEW f \in Files
        PROVE  cref[f] = Cardinality({e \in Slots :
                           /\ Loaded(e) /\ cache[e].host = f
                           /\ \A p \in Procs : pc[p] = "idup" => call[p].e # e})
    <3>1. HeldBy(f) = {e \in Slots :
                         /\ Loaded(e) /\ cache[e].host = f
                         /\ \A p \in Procs : pc[p] = "idup" => call[p].e # e}
      BY DEF HeldBy, New, Loaded
    <3> QED  BY <3>1 DEF Sound, InvRefs
  <2>3. (\E p \in Procs : pc[p] = "flushed") => \A e \in Slots : ~cache[e].valid
    BY DEF Sound, InvAlone
  <2> QED  BY <2>1, <2>2, <2>3 DEF CacheExact
<1> QED  BY <1>1, Invariance, PTL

(* SomeCallReturns: who waits for ctable.lock waits for a process in a call *)
(* which, if it waits itself, waits for a page; and the owner of a page     *)
(* waits for nothing, unless it has left it behind in mmap().               *)
THEOREM SomeCallReturnsHolds == Spec => []SomeCallReturns
<1> DEFINE InCall(q) == pc[q] \notin {"idle", "leave", "exited", "flushed"}
           Returns == \/ \E q \in Procs : InCall(q) /\ ~Blocked(q)
                      \/ \E q \in Procs : WaitsForPage(q) /\ call[q].i \in left
<1>1. IInv => SomeCallReturns
  <2> SUFFICES ASSUME Sound, NEW p \in Procs, Blocked(p)
               PROVE  Returns
    BY DEF IInv, SomeCallReturns
  <2>1. ASSUME NEW r \in Procs, WaitsForPage(r)
        PROVE  Returns
    <3>1. call[r].i \in Slots /\ cache[call[r].i].owner # None
      BY <2>1 DEF Sound, InvScan, WaitsForPage
    <3> PICK e \in Slots : e = call[r].i
      BY <3>1
    <3>2. cache[e].owner \in Procs
      BY <3>1 DEF Sound, TypeInv, SlotRec
    <3> PICK q \in Procs : q = cache[e].owner
      BY <3>2
    <3>3. pc[q] \in OwnPoints \cup {"flush_write"} \/ e \in left
      BY <3>1 DEF Sound, InvOwner
    <3>4. CASE e \in left
      BY <2>1, <3>4
    <3>5. CASE pc[q] \in OwnPoints \cup {"flush_write"}
      <4>1. InCall(q) /\ ~Blocked(q)
        BY <3>5 DEF Blocked, WaitsForTable, WaitsForPage, OwnPoints
      <4> QED  BY <4>1
    <3> QED  BY <3>3, <3>4, <3>5
  <2>2. ASSUME WaitsForTable(p)
        PROVE  Returns
    <3>1. table \in Procs
      BY <2>2 DEF Sound, TypeInv, WaitsForTable
    <3> PICK r \in Procs : r = table
      BY <3>1
    <3>2. pc[r] \in TablePoints
      BY DEF Sound, InvTable
    <3>3. ~WaitsForTable(r) /\ InCall(r)
      BY <3>2 DEF WaitsForTable, TablePoints, EvictPoints
    <3> QED  BY <2>1, <3>3 DEF Blocked
  <2> QED  BY <2>1, <2>2 DEF Blocked
<1> QED  BY <1>1, Invariance, PTL

-----------------------------------------------------------------------------
(* The refinement: what FileContent calls content and use.                  *)
Shown(e, f, g) == cache[e].valid /\ ~Reading(e) /\ cache[e].host = f /\ cache[e].off = g

ContentShows ==
  \A f \in Fixed, g \in Pages :
    /\ \A e \in Slots : Shown(e, f, g) => Content[f][g] = cache[e].data
    /\ (\A e \in Slots : ~Shown(e, f, g)) => Content[f][g] = disk[f][g]

(* A page shows the slot it is in, else the disk: CHOOSE has no choice,     *)
(* because a page is in one slot.                                           *)
LEMMA ContentIs == Sound => ContentShows
<1> SUFFICES ASSUME Sound, NEW f \in Fixed, NEW g \in Pages
             PROVE  /\ \A e \in Slots : Shown(e, f, g) => Content[f][g] = cache[e].data
                    /\ (\A e \in Slots : ~Shown(e, f, g)) => Content[f][g] = disk[f][g]
  BY DEF ContentShows
<1>1. SlotOf(f, g) = {e \in Slots : Shown(e, f, g)}
  BY DEF SlotOf, Shown, Loaded, Reading
<1>2. Content[f][g] = IF SlotOf(f, g) # {} THEN cache[CHOOSE e \in SlotOf(f, g) : TRUE].data
                      ELSE disk[f][g]
  BY DEF Content
<1>3. ASSUME NEW e \in Slots, Shown(e, f, g)
      PROVE  Content[f][g] = cache[e].data
  <2>1. SlotOf(f, g) = {e}
    BY <1>1, <1>3 DEF Sound, InvOne, Shown
  <2>2. (CHOOSE d \in SlotOf(f, g) : TRUE) = e
    BY <2>1
  <2> QED  BY <1>2, <2>1, <2>2
<1>4. ASSUME \A e \in Slots : ~Shown(e, f, g)
      PROVE  Content[f][g] = disk[f][g]
  BY <1>1, <1>2, <1>4
<1> QED  BY <1>3, <1>4

(* A step hides nothing when every page shows what it showed.               *)
LEMMA ContentStays ==
  ASSUME Sound, Sound',
         \A f \in Fixed, g \in Pages :
           \/ \E d \in Slots : Shown(d, f, g) /\ Shown(d, f, g)' /\ cache'[d].data = cache[d].data
           \/ /\ \A d \in Slots : ~Shown(d, f, g) /\ ~Shown(d, f, g)'
              /\ disk'[f][g] = disk[f][g]
           \/ /\ \E d \in Slots : Shown(d, f, g)' /\ cache'[d].data = disk[f][g]
              /\ \A d \in Slots : ~Shown(d, f, g)
           \/ /\ \E d \in Slots : Shown(d, f, g) /\ cache[d].data = disk'[f][g]
              /\ \A d \in Slots : ~Shown(d, f, g)'
  PROVE  Content' = Content
<1>1. (Sound => ContentShows)'
  BY ContentIs, PTL
<1>2. ASSUME NEW f \in Fixed, NEW g \in Pages
      PROVE  Content'[f][g] = Content[f][g]
  <2>1. /\ \A e \in Slots : Shown(e, f, g) => Content[f][g] = cache[e].data
        /\ (\A e \in Slots : ~Shown(e, f, g)) => Content[f][g] = disk[f][g]
    BY ContentIs DEF ContentShows
  <2>2. /\ \A e \in Slots : Shown(e, f, g)' => Content'[f][g] = cache'[e].data
        /\ (\A e \in Slots : ~Shown(e, f, g)') => Content'[f][g] = disk'[f][g]
    BY <1>1 DEF ContentShows
  <2> QED  BY <2>1, <2>2
<1>3. /\ Content = [f \in Fixed |-> [g \in Pages |-> Content[f][g]]]
      /\ Content' = [f \in Fixed |-> [g \in Pages |-> Content'[f][g]]]
  BY DEF Content
<1> QED  BY <1>2, <1>3

(* Nobody is reading into the page somebody uses.                           *)
LEMMA InUse ==
  ASSUME Sound, NEW p \in Procs, pc[p] \in OwnPoints \ {"seek", "load"}
  PROVE  call[p].e \in Slots /\ Shown(call[p].e, call[p].file, call[p].off)
<1>1. call[p].e \in Slots /\ Matches(call[p].e, call[p])
  BY DEF Sound, InvOwner
<1>2. ASSUME NEW q \in Procs, pc[q] \in {"seek", "load"}
      PROVE  call[q].e # call[p].e
  <2>1. pc[p] \in OwnPoints /\ pc[q] \in OwnPoints /\ q # p
    BY <1>2 DEF OwnPoints
  <2>2. pc[q] \in OwnPoints /\ call[q].e = call[p].e => q = p
    BY <1>1, <2>1, OwnerIs
  <2> QED  BY <2>1, <2>2
<1> QED  BY <1>1, <1>2 DEF Shown, Matches, Reading

(* Pages that are shown, of files that are not resized.                     *)
Seen(d) == cache[d].valid /\ ~Reading(d) /\ cache[d].host \in Fixed

(* A step of p, neither from nor to the use of a page, that leaves the      *)
(* pages and the disk as they are seen, is hidden.                          *)
LEMMA Unseen ==
  ASSUME Sound, Sound', NEW p \in Procs,
         \A q \in Procs : q # p => pc'[q] = pc[q] /\ call'[q] = call[q],
         pc[p] # "copy", pc'[p] # "copy",
         \A d \in Slots : Seen(d)' <=> Seen(d),
         \A d \in Slots : Seen(d) => /\ cache'[d].host = cache[d].host
                                     /\ cache'[d].off = cache[d].off
                                     /\ cache'[d].data = cache[d].data,
         \A f \in Fixed, g \in Pages : disk'[f][g] = disk[f][g]
  PROVE  UNCHANGED <<Content, Use>>
<1>1. \A d \in Slots, f \in Fixed, g \in Pages :
        /\ Shown(d, f, g)' <=> Shown(d, f, g)
        /\ Shown(d, f, g) => cache'[d].data = cache[d].data
  BY DEF Shown, Seen
<1>2. Content' = Content
  BY <1>1, ContentStays
<1>3. ASSUME NEW q \in Procs
      PROVE  Use'[q] = Use[q]
  <2>1. CASE q = p
    BY <2>1 DEF Use
  <2>2. CASE q # p /\ pc[q] = "copy" /\ call[q].file \in Fixed
    <3>1. call[q].e \in Slots /\ Shown(call[q].e, call[q].file, call[q].off)
      BY <2>2, InUse DEF OwnPoints
    <3>2. Seen(call[q].e)
      BY <2>2, <3>1 DEF Shown, Seen
    <3>3. cache'[call[q].e].data = cache[call[q].e].data
      BY <3>1, <3>2
    <3> QED  BY <2>2, <3>3 DEF Use
  <2>3. CASE q # p /\ ~(pc[q] = "copy" /\ call[q].file \in Fixed)
    BY <2>3 DEF Use
  <2> QED  BY <2>1, <2>2, <2>3
<1>4. Use = [q \in Procs |-> Use[q]] /\ Use' = [q \in Procs |-> Use'[q]]
  BY DEF Use
<1>5. Use' = Use
  BY <1>3, <1>4
<1> QED  BY <1>2, <1>5

(* So is one that keeps to the locks and lists.                             *)
LEMMA Apart ==
  ASSUME Sound, Sound', NEW p \in Procs,
         \A q \in Procs : q # p => pc'[q] = pc[q] /\ call'[q] = call[q],
         pc[p] \notin {"copy", "seek", "load"}, pc'[p] \notin {"copy", "seek", "load"},
         \A d \in Slots : /\ cache'[d].valid = cache[d].valid
                          /\ cache'[d].host = cache[d].host
                          /\ cache'[d].off = cache[d].off
                          /\ cache'[d].data = cache[d].data,
         UNCHANGED disk
  PROVE  UNCHANGED <<Content, Use>>
<1>1. \A d \in Slots : Reading(d)' <=> Reading(d)
  BY DEF Reading
<1> QED  BY <1>1, Unseen DEF Seen

(* The steps that keep to the locks and lists.                              *)
LEMMA LocksApart ==
  ASSUME Sound, Sound', NEW p \in Procs,
         \/ Call(p) \/ Truncate(p) \/ Unlock(p) \/ LockTable(p)
         \/ Idup(p) \/ WriteBackFails(p) \/ Exit(p) \/ Leave(p) \/ FlushLock(p)
  PROVE  UNCHANGED <<Content, Use>>
<1>1. pc \in [Procs -> Points] /\ call \in [Procs -> CallRec]
  BY DEF Sound, TypeInv
<1>2. CASE Call(p)
  <2>1. pc[p] = "idle" /\ UNCHANGED cache
    BY <1>2, ZenonT(60) DEF Call, At
  <2>2. PICK c \in Calls :
          /\ call' = [call EXCEPT ![p] = [NoCall EXCEPT
                         !.op = c.op, !.file = c.file, !.off = c.off,
                         !.last = IF c.op = "read"
                                  THEN Min({c.last, Max({size[c.file], 1}) - 1})
                                  ELSE c.last]]
          /\ UNCHANGED fatfs \/ FSeek(c.file, c.last + 1) \/ FSeek(c.file, 0)
          /\ Goto(p, "unlock") \/ Goto(p, "table") \/ Goto(p, "trunc")
    BY <1>2, ZenonT(60) DEF Call
  <2>3. UNCHANGED disk
    BY <2>2 DEF FSeek, fatfs
  <2>4. \A q \in Procs : q # p => pc'[q] = pc[q] /\ call'[q] = call[q]
    BY <1>1, <2>2 DEF Goto
  <2>5. pc'[p] \in {"unlock", "table", "trunc"}
    BY <1>1, <2>2 DEF Goto
  <2> QED  BY <2>1, <2>3, <2>4, <2>5, Apart
<1>3. CASE Truncate(p)
  <2>1. pc[p] = "trunc" /\ pc' = [pc EXCEPT ![p] = "unlock"] /\ UNCHANGED <<call, cache, disk>>
    BY <1>3 DEF Truncate, At, FTruncate, Goto
  <2> QED  BY <1>1, <2>1, Apart
<1>4. CASE Unlock(p)
  <2>1. /\ pc[p] = "unlock" /\ pc' = [pc EXCEPT ![p] = "idle"]
        /\ call' = [call EXCEPT ![p] = NoCall] /\ UNCHANGED <<cache, disk>>
    BY <1>4 DEF Unlock, At, Goto, fatfs
  <2> QED  BY <1>1, <2>1, Apart
<1>5. CASE LockTable(p)
  <2>1. /\ pc[p] = "table" /\ pc' = [pc EXCEPT ![p] = "find"]
        /\ call' = [call EXCEPT ![p].i = 1, ![p].retried = FALSE] /\ UNCHANGED <<cache, disk>>
    BY <1>5 DEF LockTable, At, Goto, fatfs
  <2>2. \A q \in Procs : q # p => pc'[q] = pc[q] /\ call'[q] = call[q]
    BY <1>1, <2>1
  <2> QED  BY <1>1, <2>1, <2>2, Apart
<1>6. CASE Idup(p)
  <2>1. /\ pc[p] = "idup" /\ UNCHANGED <<cache, disk>>
        /\ pc' = [pc EXCEPT ![p] = "evict"] \/ pc' = [pc EXCEPT ![p] = "add"]
        /\ call' = [call EXCEPT ![p].j = NCACHE]
    BY <1>6 DEF Idup, At, Goto, fatfs
  <2>2. \A q \in Procs : q # p => pc'[q] = pc[q] /\ call'[q] = call[q]
    BY <1>1, <2>1
  <2> QED  BY <1>1, <2>1, <2>2, Apart
<1>7. CASE WriteBackFails(p)
  <2>1. pc[p] \in {"evict_write", "flush_write"} /\ UNCHANGED <<pc, call, cache, disk>>
    BY <1>7 DEF WriteBackFails, At, fatfs
  <2> QED  BY <2>1, Apart
<1>8. CASE Exit(p) \/ Leave(p)
  <2>1. /\ pc[p] \in {"idle", "leave"} /\ UNCHANGED <<call, cache, disk>>
        /\ \E l \in {"flush", "leave", "exited"} : pc' = [pc EXCEPT ![p] = l]
    BY <1>8 DEF Exit, Leave, At, Goto, fatfs
  <2> QED  BY <1>1, <2>1, Apart
<1>9. CASE FlushLock(p)
  <2>1. /\ pc[p] = "flush" /\ pc' = [pc EXCEPT ![p] = "flushing"]
        /\ call' = [call EXCEPT ![p].i = 1] /\ UNCHANGED <<cache, disk>>
    BY <1>9 DEF FlushLock, At, Goto, fatfs
  <2>2. \A q \in Procs : q # p => pc'[q] = pc[q] /\ call'[q] = call[q]
    BY <1>1, <2>1
  <2> QED  BY <1>1, <2>1, <2>2, Apart
<1> QED  BY <1>2, <1>3, <1>4, <1>5, <1>6, <1>7, <1>8, <1>9

(* The search, and taking the mutex of the page.                            *)
LEMMA FindApart ==
  ASSUME Sound, Sound', NEW p \in Procs, Find(p)
  PROVE  UNCHANGED <<Content, Use>>
<1>1. pc[p] = "find" /\ call[p].i \in Slots /\ UNCHANGED disk
  BY DEF Find, At, Sound, InvScan, fatfs
<1> PICK i \in Slots : i = call[p].i
  BY <1>1
<1>2. /\ pc \in [Procs -> Points] /\ call \in [Procs -> CallRec]
      /\ cache \in [Slots -> SlotRec]
  BY DEF Sound, TypeInv
<1>3. cache' = [cache EXCEPT ![i].owner = p] \/ UNCHANGED cache
  BY DEF Find
<1>4. \A d \in Slots : /\ cache'[d].valid = cache[d].valid
                       /\ cache'[d].host = cache[d].host
                       /\ cache'[d].off = cache[d].off
                       /\ cache'[d].data = cache[d].data
  BY <1>2, <1>3 DEF SlotRec
<1>5. UNCHANGED pc \/ Goto(p, "adjust") \/ Goto(p, "empty")
  BY DEF Find
<1>6. \/ call' = [call EXCEPT ![p].i = 0, ![p].e = i, ![p].j = LruIndex(i)]
      \/ call' = [call EXCEPT ![p].i = i + 1]
      \/ call' = [call EXCEPT ![p].i = 1]
  BY DEF Find
<1>7. \A q \in Procs : q # p => pc'[q] = pc[q] /\ call'[q] = call[q]
  BY <1>2, <1>5, <1>6 DEF Goto
<1>8. pc'[p] \in {"find", "adjust", "empty"}
  BY <1>1, <1>2, <1>5 DEF Goto
<1> QED  BY <1>1, <1>4, <1>7, <1>8, Apart

(* A slot that is taken shows nothing before the read.                      *)
LEMMA FindEmptyApart ==
  ASSUME Sound, Sound', NEW p \in Procs, FindEmpty(p)
  PROVE  UNCHANGED <<Content, Use>>
<1>1. pc[p] = "empty" /\ call[p].i \in Slots /\ UNCHANGED disk
  BY DEF FindEmpty, At, Sound, InvScan, fatfs
<1> PICK i \in Slots : i = call[p].i
  BY <1>1
<1>2. /\ pc \in [Procs -> Points] /\ call \in [Procs -> CallRec]
      /\ cache \in [Slots -> SlotRec]
  BY DEF Sound, TypeInv
<1>3. CASE ~cache[i].valid /\ ~UNCHANGED <<pc, call, table, cache>>
  <2>1. /\ cache' = [cache EXCEPT ![i] = [EmptySlot EXCEPT !.valid = TRUE,
                        !.host = call[p].file, !.off = call[p].off, !.owner = p]]
        /\ call' = [call EXCEPT ![p].i = 0, ![p].e = i] /\ Goto(p, "seek")
    BY <1>3 DEF FindEmpty
  <2>2. \A q \in Procs : q # p => pc'[q] = pc[q] /\ call'[q] = call[q]
    BY <1>2, <2>1 DEF Goto
  <2>3. pc'[p] = "seek" /\ call'[p].e = i
    BY <1>2, <2>1 DEF Goto, CallRec
  <2>4. \A d \in Slots : d # i => cache'[d] = cache[d]
    BY <1>2, <2>1
  <2>5. Reading(i)'
    BY <2>3 DEF Reading
  <2>6. \A d \in Slots : d # i => (Reading(d)' <=> Reading(d))
    BY <1>1, <2>2, <2>3 DEF Reading
  <2> QED  BY <1>1, <1>3, <2>2, <2>3, <2>4, <2>5, <2>6, Unseen DEF Seen
<1>4. CASE cache[i].valid
  <2>1. /\ UNCHANGED cache
        /\ call' = [call EXCEPT ![p].i = i + 1] \/ call' = [call EXCEPT ![p].i = 0]
           \/ call' = [call EXCEPT ![p].i = 0, ![p].retried = TRUE]
        /\ UNCHANGED pc \/ Goto(p, "evict") \/ Goto(p, "unlock")
    BY <1>4 DEF FindEmpty
  <2>2. \A q \in Procs : q # p => pc'[q] = pc[q] /\ call'[q] = call[q]
    BY <1>2, <2>1 DEF Goto
  <2>3. pc'[p] \in {"empty", "evict", "unlock"}
    BY <1>1, <1>2, <2>1 DEF Goto
  <2> QED  BY <1>1, <2>1, <2>2, <2>3, Apart
<1>5. CASE UNCHANGED <<pc, call, table, cache>>
  BY <1>1, <1>5, Apart
<1> QED  BY <1>3, <1>4, <1>5

(* The read brings in what the disk has: FatFs stands at the page.          *)
LEMMA LoadApart ==
  ASSUME Sound, Sound', NEW p \in Procs, Seek(p) \/ Load(p) \/ ReadFails(p)
  PROVE  UNCHANGED <<Content, Use>>
<1>1. /\ pc[p] \in {"seek", "load"} /\ call[p].file \in Files
      /\ call[p].e \in Slots /\ Matches(call[p].e, call[p])
  BY DEF Seek, Load, ReadFails, At, Sound, InvCall, CallPoints, InvOwner, OwnPoints
<1> PICK e \in Slots : e = call[p].e
  BY <1>1
<1>2. /\ pc \in [Procs -> Points] /\ call \in [Procs -> CallRec]
      /\ cache \in [Slots -> SlotRec]
  BY DEF Sound, TypeInv
<1>3. Reading(e)
  BY <1>1 DEF Reading
<1>4. CASE Seek(p)
  <2>1. pc' = [pc EXCEPT ![p] = "load"] /\ UNCHANGED <<call, cache, disk>>
    BY <1>4 DEF Seek, Goto, FSeek
  <2>2. \A q \in Procs : pc'[q] \in {"seek", "load"} <=> pc[q] \in {"seek", "load"}
    BY <1>1, <1>2, <2>1
  <2>3. \A d \in Slots : Reading(d)' <=> Reading(d)
    BY <2>1, <2>2 DEF Reading
  <2> QED  BY <1>1, <1>2, <2>1, <2>3, Unseen DEF Seen
<1>5. CASE ReadFails(p)
  <2>1. /\ pc' = [pc EXCEPT ![p] = "unlock"] /\ call' = [call EXCEPT ![p].e = 0]
        /\ cache' = [cache EXCEPT ![e] = EmptySlot] /\ UNCHANGED disk
    BY <1>5 DEF ReadFails, Goto, GiveUp, fatfs
  <2>2. \A q \in Procs : q # p => pc'[q] = pc[q] /\ call'[q] = call[q]
    BY <1>2, <2>1
  <2>3. pc'[p] = "unlock"
    BY <1>2, <2>1
  <2>4. ~cache'[e].valid /\ \A d \in Slots : d # e => cache'[d] = cache[d]
    BY <1>2, <2>1 DEF EmptySlot
  <2>5. \A d \in Slots : d # e => (Reading(d)' <=> Reading(d))
    BY <1>1, <2>2, <2>3 DEF Reading
  <2> QED  BY <1>1, <1>3, <2>1, <2>2, <2>3, <2>4, <2>5, Unseen DEF Seen
<1>6. CASE Load(p)
  <2>1. /\ pc[p] = "load" /\ pc' = [pc EXCEPT ![p] = "idup"]
        /\ cache' = [cache EXCEPT ![e].data = FReads(call[p].file)]
        /\ UNCHANGED <<call, size, disk>>
    BY <1>6 DEF Load, At, Goto
  <2>2. /\ \A d \in Slots : d # e => cache'[d] = cache[d]
        /\ cache'[e].valid = cache[e].valid /\ cache'[e].host = cache[e].host
        /\ cache'[e].off = cache[e].off /\ cache'[e].data = FReads(call[p].file)
    BY <1>2, <2>1 DEF SlotRec
  <2>3. \A q \in Procs : q # p => pc'[q] = pc[q]
    BY <1>2, <2>1
  <2>4. pc'[p] = "idup"
    BY <1>2, <2>1
  <2>5. \A d \in Slots : d # e => (Reading(d)' <=> Reading(d))
    BY <1>1, <2>1, <2>3, <2>4 DEF Reading
  <2>6. call[p].file \notin Fixed => UNCHANGED <<Content, Use>>
    <3> SUFFICES ASSUME call[p].file \notin Fixed PROVE UNCHANGED <<Content, Use>>
      OBVIOUS
    <3>1. ~Seen(e) /\ ~Seen(e)'
      BY <1>1, <2>2 DEF Seen, Matches
    <3> QED  BY <1>1, <2>1, <2>2, <2>3, <2>4, <2>5, <3>1, Unseen DEF Seen
  <2>7. ASSUME call[p].file \in Fixed
        PROVE  UNCHANGED <<Content, Use>>
    <3> PICK f \in Fixed : f = call[p].file
      BY <2>7
    <3>1. call[p].off \in Pages
      BY <1>2 DEF CallRec
    <3> PICK g \in Pages : g = call[p].off
      BY <3>1
    <3>2. FReads(f) = disk[f][g]
      <4>1. fptr[f] = g /\ size[f] = NPage
        BY <2>1 DEF Sound, InvSeek, InvClean
      <4>2. g < NPage
        BY ConstantsAssumption DEF Pages
      <4> QED  BY <4>1, <4>2 DEF FReads
    <3>3. ~Reading(e)'
      <4>1. \A q \in Procs : pc[q] \in OwnPoints /\ call[q].e = e => q = p
        BY <1>1, OwnerIs DEF OwnPoints
      <4> QED  BY <2>1, <2>3, <2>4, <4>1 DEF Reading, OwnPoints
    <3>4. \A d \in Slots : \A ff, gg :
            d # e => (Shown(d, ff, gg)' <=> Shown(d, ff, gg))
      BY <2>2, <2>5 DEF Shown
    <3>5. Shown(e, f, g)' /\ cache'[e].data = disk[f][g]
      BY <1>1, <2>2, <3>2, <3>3 DEF Shown, Matches
    <3>6. \A d \in Slots : ~Shown(d, f, g)
      BY <1>1, <1>3 DEF Shown, Matches, Sound, InvOne
    <3>7. \A ff, gg : ~Shown(e, ff, gg) /\ (Shown(e, ff, gg)' => ff = f /\ gg = g)
      BY <1>1, <1>3, <2>2 DEF Shown, Matches
    <3>8. ASSUME NEW ff \in Fixed, NEW gg \in Pages
          PROVE
           \/ \E d \in Slots : /\ Shown(d, ff, gg) /\ Shown(d, ff, gg)'
                               /\ cache'[d].data = cache[d].data
           \/ /\ \A d \in Slots : ~Shown(d, ff, gg) /\ ~Shown(d, ff, gg)'
              /\ disk'[ff][gg] = disk[ff][gg]
           \/ /\ \E d \in Slots : Shown(d, ff, gg)' /\ cache'[d].data = disk[ff][gg]
              /\ \A d \in Slots : ~Shown(d, ff, gg)
      <4>1. CASE ff = f /\ gg = g
        BY <3>5, <3>6, <4>1
      <4>2. CASE ~(ff = f /\ gg = g)
        BY <2>1, <2>2, <3>4, <3>7, <4>2
      <4> QED  BY <4>1, <4>2
    <3>9. Content' = Content
      BY <3>8, ContentStays
    <3>10. ASSUME NEW q \in Procs
           PROVE  Use'[q] = Use[q]
      <4>1. CASE pc[q] = "copy"
        <5>1. q # p /\ call[q].e \in Slots /\ Shown(call[q].e, call[q].file, call[q].off)
          BY <2>1, <4>1, InUse DEF OwnPoints
        <5>2. call[q].e # e
          BY <1>3, <5>1 DEF Shown
        <5> QED  BY <2>1, <2>2, <2>3, <5>1, <5>2 DEF Use
      <4>2. CASE pc[q] # "copy"
        BY <2>3, <2>4, <4>2 DEF Use
      <4> QED  BY <4>1, <4>2
    <3>11. Use = [q \in Procs |-> Use[q]] /\ Use' = [q \in Procs |-> Use'[q]]
      BY DEF Use
    <3> QED  BY <3>9, <3>10, <3>11
  <2> QED  BY <2>6, <2>7
<1> QED  BY <1>4, <1>5, <1>6

(* A page that leaves the cache is on the disk.                             *)
LEMMA ClearApart ==
  ASSUME Sound, Sound', NEW p \in Procs,
         \A q \in Procs : q # p => pc'[q] = pc[q] /\ call'[q] = call[q],
         pc[p] \notin OwnPoints, pc'[p] \notin OwnPoints,
         NEW e \in Slots, \A q \in Procs : pc[q] \in OwnPoints => call[q].e # e, cache[e].valid, ~cache'[e].valid,
         \A d \in Slots : d # e => cache'[d] = cache[d],
         \A f \in Fixed, g \in Pages :
           disk'[f][g] # disk[f][g] => f = cache[e].host /\ g = cache[e].off,
         cache[e].host \in Fixed => disk'[cache[e].host][cache[e].off] = cache[e].data
  PROVE  UNCHANGED <<Content, Use>>
<1>1. ~Reading(e) /\ \A d \in Slots : Reading(d)' <=> Reading(d)
  BY DEF Reading, OwnPoints
<1>2. ASSUME NEW f \in Fixed, NEW g \in Pages
      PROVE
       \/ \E d \in Slots : Shown(d, f, g) /\ Shown(d, f, g)' /\ cache'[d].data = cache[d].data
       \/ /\ \A d \in Slots : ~Shown(d, f, g) /\ ~Shown(d, f, g)'
          /\ disk'[f][g] = disk[f][g]
       \/ /\ \E d \in Slots : Shown(d, f, g) /\ cache[d].data = disk'[f][g]
          /\ \A d \in Slots : ~Shown(d, f, g)'
  <2>1. CASE Shown(e, f, g)
    <3>1. cache[e].data = disk'[f][g]
      BY <2>1 DEF Shown
    <3>2. \A d \in Slots : ~Shown(d, f, g)'
      BY <2>1 DEF Shown, Sound, InvOne
    <3> QED  BY <2>1, <3>1, <3>2
  <2>2. CASE ~Shown(e, f, g)
    <3>1. disk'[f][g] = disk[f][g]
      BY <1>1, <2>2 DEF Shown
    <3>2. \A d \in Slots : /\ Shown(d, f, g)' <=> Shown(d, f, g)
                           /\ Shown(d, f, g) => cache'[d].data = cache[d].data
      BY <1>1, <2>2 DEF Shown
    <3> QED  BY <3>1, <3>2
  <2> QED  BY <2>1, <2>2
<1>3. Content' = Content
  BY <1>2, ContentStays
<1>4. ASSUME NEW q \in Procs
      PROVE  Use'[q] = Use[q]
  <2>1. CASE pc[q] = "copy"
    <3>1. q # p /\ call[q].e # e /\ call[q].e \in Slots
      BY <2>1 DEF OwnPoints, Sound, InvOwner
    <3> QED  BY <2>1, <3>1 DEF Use
  <2>2. CASE pc[q] # "copy"
    BY <2>2 DEF Use, OwnPoints
  <2> QED  BY <2>1, <2>2
<1>5. Use = [q \in Procs |-> Use[q]] /\ Use' = [q \in Procs |-> Use'[q]]
  BY DEF Use
<1> QED  BY <1>3, <1>4, <1>5

(* ctable_lru_evict(): a clean page is on the disk, a dirty one is written. *)
LEMMA EvictApart ==
  ASSUME Sound, Sound', NEW p \in Procs, Evict(p) \/ EvictWrite(p)
  PROVE  UNCHANGED <<Content, Use>>
<1>1. pc[p] \in EvictPoints
  BY DEF Evict, EvictWrite, At, EvictPoints
<1>2. /\ call[p].j = 0
      /\ \A q \in Procs : pc[q] \notin OwnPoints
  BY <1>1, EvictAlone
<1>3. pc \in [Procs -> Points] /\ call \in [Procs -> CallRec]
  BY DEF Sound, TypeInv
<1>4. ASSUME Evicted(p), LruLast # 0, cache[lru[LruLast]].valid, Clear(lru[LruLast]),
             \A f \in Fixed, g \in Pages :
               disk'[f][g] # disk[f][g]
                 => f = cache[lru[LruLast]].host /\ g = cache[lru[LruLast]].off,
             cache[lru[LruLast]].host \in Fixed
               => disk'[cache[lru[LruLast]].host][cache[lru[LruLast]].off]
                    = cache[lru[LruLast]].data
      PROVE  UNCHANGED <<Content, Use>>
  <2>1. lru[LruLast] \in Slots
    BY <1>4, LruLastIs DEF Sound
  <2> PICK e \in Slots : e = lru[LruLast]
    BY <2>1
  <2>2. /\ pc'[p] = "empty"
        /\ \A q \in Procs : q # p => pc'[q] = pc[q] /\ call'[q] = call[q]
    BY <1>2, <1>4, EvictedIs DEF Sound
  <2>3. /\ pc[p] \notin OwnPoints /\ pc'[p] \notin OwnPoints
        /\ \A q \in Procs : pc[q] \in OwnPoints => call[q].e # e
    BY <1>2, <2>2 DEF OwnPoints
  <2>4. ~cache'[e].valid /\ \A d \in Slots : d # e => cache'[d] = cache[d]
    BY <1>4, <2>2, <2>3, ClearIs
  <2> QED  BY <1>4, <2>2, <2>3, <2>4, ClearApart
<1>5. CASE EvictWrite(p)
  <2>0. pc[p] = "evict_write" /\ call[p].v = lru[LruLast]
    BY <1>5 DEF EvictWrite, At, Sound, InvSeek
  <2>1. WriteBack(lru[LruLast]) /\ Clear(lru[LruLast]) /\ Evicted(p)
    BY <1>5, <2>0 DEF EvictWrite
  <2>2. LruLast # 0 /\ AtPage(lru[LruLast])
    BY <2>0 DEF Sound, InvSeek, LastAtPage
  <2>3. lru[LruLast] \in Slots /\ cache[lru[LruLast]].valid
    BY <2>2 DEF AtPage
  <2>4. /\ \A f \in Fixed, g \in Pages :
             disk'[f][g] # disk[f][g]
               => f = cache[lru[LruLast]].host /\ g = cache[lru[LruLast]].off
        /\ cache[lru[LruLast]].host \in Fixed
             => disk'[cache[lru[LruLast]].host][cache[lru[LruLast]].off]
                  = cache[lru[LruLast]].data
    BY <2>1, <2>2, <2>3, WriteBackIs
  <2> QED  BY <1>4, <2>1, <2>2, <2>3, <2>4
<1>6. CASE Evict(p)
  <2>1. CASE LruLast # 0 /\ cache[lru[LruLast]].valid /\ ~cache[lru[LruLast]].dirty
    <3>1. Clear(lru[LruLast]) /\ Evicted(p) /\ UNCHANGED disk
      BY <1>6, <2>1 DEF Evict, fatfs
    <3>2. lru[LruLast] \in Slots /\ ~Reading(lru[LruLast])
      BY <1>2, <2>1, LruLastIs DEF Sound, Reading, OwnPoints
    <3>3. cache[lru[LruLast]].host \in Fixed
            => disk[cache[lru[LruLast]].host][cache[lru[LruLast]].off] = cache[lru[LruLast]].data
      BY <2>1, <3>2 DEF Sound, InvClean
    <3> QED  BY <1>4, <2>1, <3>1, <3>3
  <2>2. CASE ~(LruLast # 0 /\ cache[lru[LruLast]].valid /\ ~cache[lru[LruLast]].dirty)
    <3>1. CASE LruLast = 0
      <4>1. Evicted(p) /\ UNCHANGED <<cache, disk>>
        BY <1>2, <1>6, <3>1 DEF Evict, fatfs
      <4>2. /\ pc'[p] = "empty"
            /\ \A q \in Procs : q # p => pc'[q] = pc[q] /\ call'[q] = call[q]
        BY <1>2, <4>1, EvictedIs DEF Sound
      <4> QED  BY <1>1, <4>1, <4>2, Apart DEF EvictPoints
    <3>2. CASE LruLast # 0
      <4>1. /\ UNCHANGED <<cache, disk>>
            /\ UNCHANGED pc \/ Goto(p, "evict_write")
            /\ \/ UNCHANGED call
               \/ call' = [call EXCEPT ![p].i = LruLast, ![p].v = lru[LruLast]]
        BY <1>6, <2>2, <3>2 DEF Evict, FSeek, fatfs
      <4>2. /\ pc'[p] \in EvictPoints
            /\ \A q \in Procs : q # p => pc'[q] = pc[q] /\ call'[q] = call[q]
        BY <1>1, <1>3, <4>1 DEF Goto, EvictPoints
      <4> QED  BY <1>1, <4>1, <4>2, Apart DEF EvictPoints
    <3> QED  BY <3>1, <3>2
  <2> QED  BY <2>1, <2>2
<1> QED  BY <1>5, <1>6

(* So does ctable_release() with the pages.                                 *)
LEMMA FlushApart ==
  ASSUME Sound, Sound', NEW p \in Procs, Flush(p) \/ FlushWrite(p) \/ Remove(p)
  PROVE  UNCHANGED <<Content, Use>>
<1>1. pc[p] \in {"flushing", "flush_write", "remove"} /\ call[p].i \in Slots
  BY DEF Flush, FlushWrite, Remove, At, Sound, InvScan
<1> PICK e \in Slots : e = call[p].i
  BY <1>1
<1>2. /\ pc \in [Procs -> Points] /\ call \in [Procs -> CallRec]
      /\ cache \in [Slots -> SlotRec]
  BY DEF Sound, TypeInv
<1>3. pc[p] # "remove" => \A q \in Procs : pc[q] \in OwnPoints => call[q].e # e
  <2>1. pc[p] # "remove" => cache[e].owner \in {None, p} /\ pc[p] \notin OwnPoints
    BY <1>1 DEF Flush, FlushWrite, Remove, At, Unheld, Sound, InvOwner, OwnPoints
  <2> QED  BY <2>1, ConstantsAssumption DEF Sound, InvOwner
<1>4. ASSUME FlushNext(p), pc[p] # "flush_write", UNCHANGED <<cache, disk>>
      PROVE  UNCHANGED <<Content, Use>>
  <2>1. /\ pc'[p] \in {"flushing", "flushed", "unlock"}
        /\ \A q \in Procs : q # p => pc'[q] = pc[q] /\ call'[q] = call[q]
    BY <1>1, <1>4, FlushNextIs
  <2> QED  BY <1>1, <1>4, <2>1, Apart
<1>5. ASSUME FlushClear(p), pc[p] # "remove", cache[e].valid,
             \A f \in Fixed, g \in Pages :
               disk'[f][g] # disk[f][g] => f = cache[e].host /\ g = cache[e].off,
             cache[e].host \in Fixed => disk'[cache[e].host][cache[e].off] = cache[e].data
      PROVE  UNCHANGED <<Content, Use>>
  <2>1. /\ pc'[p] = "remove" /\ Clear(e)
        /\ \A q \in Procs : q # p => pc'[q] = pc[q] /\ call'[q] = call[q]
    BY <1>2, <1>5 DEF FlushClear, Goto
  <2>2. pc[p] \notin OwnPoints /\ pc'[p] \notin OwnPoints
    BY <1>1, <2>1 DEF OwnPoints
  <2>3. \A q \in Procs : pc[q] \in OwnPoints => call[q].e # e
    BY <1>3, <1>5
  <2>4. ~cache'[e].valid /\ \A d \in Slots : d # e => cache'[d] = cache[d]
    BY <1>5, <2>1, <2>2, <2>3, ClearIs
  <2> QED  BY <1>5, <2>1, <2>2, <2>3, <2>4, ClearApart
<1>6. CASE FlushWrite(p)
  <2>1. pc[p] = "flush_write" /\ WriteBack(e) /\ FlushClear(p)
    BY <1>6 DEF FlushWrite, At
  <2>2. AtPage(e) /\ cache[e].valid
    BY <2>1 DEF Sound, InvSeek, AtPage
  <2>3. /\ \A f \in Fixed, g \in Pages :
             disk'[f][g] # disk[f][g] => f = cache[e].host /\ g = cache[e].off
        /\ cache[e].host \in Fixed => disk'[cache[e].host][cache[e].off] = cache[e].data
    BY <2>1, <2>2, WriteBackIs
  <2> QED  BY <1>5, <2>1, <2>2, <2>3
<1>7. CASE Flush(p)
  <2>0. pc[p] = "flushing"
    BY <1>7 DEF Flush, At
  <2>1. CASE ~Flushes(e, call[p].file)
    <3>1. FlushNext(p) /\ UNCHANGED <<cache, disk>>
      BY <1>7, <2>1 DEF Flush, fatfs
    <3> QED  BY <1>4, <2>0, <3>1
  <2>2. CASE Flushes(e, call[p].file) /\ cache[e].dirty
    <3>1. /\ cache' = [cache EXCEPT ![e].owner = p] /\ Goto(p, "flush_write")
          /\ UNCHANGED <<call, disk>>
      BY <1>7, <2>2 DEF Flush, FSeek
    <3>2. \A d \in Slots : /\ cache'[d].valid = cache[d].valid
                           /\ cache'[d].host = cache[d].host
                           /\ cache'[d].off = cache[d].off
                           /\ cache'[d].data = cache[d].data
      BY <1>2, <3>1 DEF SlotRec
    <3>3. /\ pc'[p] = "flush_write"
          /\ \A q \in Procs : q # p => pc'[q] = pc[q]
      BY <1>2, <3>1 DEF Goto
    <3> QED  BY <2>0, <3>1, <3>2, <3>3, Apart
  <2>3. CASE Flushes(e, call[p].file) /\ ~cache[e].dirty
    <3>1. FlushClear(p) /\ UNCHANGED disk
      BY <1>7, <2>3 DEF Flush, fatfs
    <3>2. ~Reading(e)
      BY <1>3, <2>0 DEF Reading, OwnPoints
    <3>3. cache[e].valid /\ (cache[e].host \in Fixed
                               => disk[cache[e].host][cache[e].off] = cache[e].data)
      BY <2>3, <3>2 DEF Sound, InvClean, Flushes
    <3> QED  BY <1>5, <2>0, <3>1, <3>3
  <2> QED  BY <2>1, <2>2, <2>3
<1>8. CASE Remove(p)
  <2>1. pc[p] = "remove" /\ UNCHANGED <<cache, disk>>
    BY <1>8 DEF Remove, At, fatfs
  <2>2. FlushNext(p) \/ (UNCHANGED pc /\ call' = [call EXCEPT ![p].j = call[p].j + 1])
    BY <1>8 DEF Remove
  <2>3. CASE FlushNext(p)
    BY <1>4, <2>1, <2>3
  <2>4. CASE UNCHANGED pc /\ call' = [call EXCEPT ![p].j = call[p].j + 1]
    <3>1. \A q \in Procs : q # p => pc'[q] = pc[q] /\ call'[q] = call[q]
      BY <1>2, <2>4
    <3> QED  BY <2>1, <2>4, <3>1, Apart
  <2> QED  BY <2>2, <2>3, <2>4
<1> QED  BY <1>6, <1>7, <1>8

(* The end of ctable_acquire(), for a page that was there or has been read, *)
(* is where the page is seen.                                               *)
LEMMA GetView ==
  ASSUME Sound, Sound', NEW p \in Procs, Adjust(p) \/ LruAdd(p)
  PROVE  [FC!Next]_FC!vars
<1>1. /\ pc[p] \in {"adjust", "add"} /\ UNCHANGED <<cache, disk>> /\ call[p].e \in Slots
  BY DEF Adjust, LruAdd, At, fatfs, Sound, InvOwner, OwnPoints
<1>2. pc \in [Procs -> Points] /\ call \in [Procs -> CallRec]
  BY DEF Sound, TypeInv
<1>3. /\ UNCHANGED pc \/ Goto(p, "copy")
      /\ \E k : call' = [call EXCEPT ![p].j = k]
  BY DEF Adjust, LruAdd
<1>4. /\ \A q \in Procs : q # p => pc'[q] = pc[q] /\ call'[q] = call[q]
      /\ pc'[p] = "copy" \/ UNCHANGED pc
  BY <1>2, <1>3 DEF Goto
<1>5. /\ call'[p].file = call[p].file /\ call'[p].op = call[p].op /\ call'[p].off = call[p].off
      /\ call'[p].e = call[p].e
  BY <1>2, <1>3 DEF CallRec
<1>6. CASE UNCHANGED pc
  <2>1. UNCHANGED <<Content, Use>>
    BY <1>1, <1>4, <1>6, Apart
  <2> QED  BY <2>1 DEF FC!vars
<1>7. CASE pc'[p] = "copy"
  <2>1. \A d \in Slots : Reading(d)' <=> Reading(d)
    BY <1>1, <1>4, <1>7 DEF Reading
  <2>2. Content' = Content
    BY <1>1, <2>1, ContentStays DEF Shown
  <2>3. \A q \in Procs : q # p => Use'[q] = Use[q]
    BY <1>1, <1>4 DEF Use
  <2>4. Use = [q \in Procs |-> Use[q]] /\ Use' = [q \in Procs |-> Use'[q]] /\ Use[p] = None
    BY <1>1 DEF Use
  <2>5. CASE call[p].file \notin Fixed
    <3>1. Use'[p] = None
      BY <1>5, <2>5 DEF Use
    <3>2. Use' = Use
      BY <2>3, <2>4, <3>1
    <3> QED  BY <2>2, <3>2 DEF FC!vars
  <2>6. CASE call[p].file \in Fixed
    <3> PICK f \in Fixed : f = call[p].file
      BY <2>6
    <3>1. call[p].off \in Pages
      BY <1>2 DEF CallRec
    <3> PICK g \in Pages : g = call[p].off
      BY <3>1
    <3> PICK w \in BOOLEAN : w = (call[p].op = "write")
      OBVIOUS
    <3>2. Content[f][g] = cache[call[p].e].data
      <4>1. Shown(call[p].e, f, g)
        BY <1>1, InUse DEF OwnPoints
      <4> QED  BY <1>1, <4>1, ContentIs DEF ContentShows
    <3>3. Use'[p] = [file |-> f, page |-> g, writes |-> w, seen |-> Content[f][g]]
      BY <1>1, <1>5, <1>7, <3>2 DEF Use
    <3>4. Use' = [Use EXCEPT ![p] = [file |-> f, page |-> g, writes |-> w,
                                     seen |-> Content[f][g]]]
      BY <2>3, <2>4, <3>3
    <3>5. ASSUME NEW q \in Procs, Use[q] # None
          PROVE  Use[q].file # f
      <4>1. pc[q] = "copy" /\ Use[q].file = call[q].file /\ call[q].file \in Fixed
        BY <3>5 DEF Use
      <4>2. ilock[call[q].file] = q /\ ilock[f] = p
        BY <1>1, <4>1 DEF Sound, InvCall, CallPoints
      <4> QED  BY <1>1, <4>1, <4>2
    <3>6. FC!Get(p, f, g, w)
      BY <2>2, <2>4, <3>4, <3>5 DEF FC!Get
    <3>7. FC!Next
      BY <3>6 DEF FC!Next
    <3> QED  BY <3>7
  <2> QED  BY <2>5, <2>6
<1> QED  BY <1>4, <1>6, <1>7

(* The end of the use of a page: a copy in, or not.                         *)
LEMMA CopyView ==
  ASSUME Sound, Sound', NEW p \in Procs, Copy(p)
  PROVE  [FC!Next]_FC!vars
<1>1. /\ pc[p] = "copy" /\ call[p].file \in Files
      /\ call[p].op = "link" => call[p].file \notin Fixed
      /\ call[p].e \in Slots /\ Shown(call[p].e, call[p].file, call[p].off) /\ UNCHANGED disk
  BY InUse DEF Copy, At, fatfs, Sound, InvCall, CallPoints, OwnPoints
<1> PICK e \in Slots : e = call[p].e
  BY <1>1
<1> PICK f \in Files : f = call[p].file
  BY <1>1
<1>2. /\ pc \in [Procs -> Points] /\ call \in [Procs -> CallRec]
      /\ cache \in [Slots -> SlotRec]
  BY DEF Sound, TypeInv
<1>3. call[p].off \in Pages
  BY <1>2 DEF CallRec
<1> PICK g \in Pages : g = call[p].off
  BY <1>3
<1>4. /\ pc'[p] \in {"unlock", "table", "flush"}
      /\ \A q \in Procs : q # p => pc'[q] = pc[q]
  <2>1. Goto(p, "unlock") \/ Goto(p, "table") \/ Goto(p, "flush")
    BY <1>1 DEF Copy, CopyNext
  <2> QED  BY <1>2, <2>1 DEF Goto
<1>5. \A q \in Procs : q # p => call'[q] = call[q]
  <2>1. \/ call' = [call EXCEPT ![p].off = Min({@ + 1, call[p].last}), ![p].e = 0]
        \/ call' = [call EXCEPT ![p].e = 0]
    BY DEF Copy, CopyNext
  <2> QED  BY <1>2, <2>1
<1>6. /\ \A d \in Slots : d # e => cache'[d] = cache[d]
      /\ cache'[e].valid = cache[e].valid /\ cache'[e].host = cache[e].host
      /\ cache'[e].off = cache[e].off
      /\ cache'[e].data = cache[e].data
         \/ (call[p].op \in {"write", "link"} /\ cache'[e].data \in Bytes(f))
  <2>1. CASE cache' = [cache EXCEPT ![e].owner = None] \/ UNCHANGED cache
    BY <1>2, <2>1 DEF SlotRec
  <2>2. ASSUME NEW v \in Bytes(f), Store(e, v)
        PROVE  /\ \A d \in Slots : d # e => cache'[d] = cache[d]
               /\ cache'[e].valid = cache[e].valid /\ cache'[e].host = cache[e].host
               /\ cache'[e].off = cache[e].off /\ cache'[e].data = v
    BY <1>2, <2>2 DEF Store, SlotRec
  <2>3. \/ cache' = [cache EXCEPT ![e].owner = None] \/ UNCHANGED cache
        \/ call[p].op \in {"write", "link"} /\ \E v \in Bytes(f) : Store(e, v)
    BY <1>1 DEF Copy
  <2> QED  BY <2>1, <2>2, <2>3
<1>7. \A d \in Slots : Reading(d)' <=> Reading(d)
  BY <1>1, <1>4, <1>5 DEF Reading
<1>8. \A d \in Slots : \A ff, gg :
        /\ Shown(d, ff, gg)' <=> Shown(d, ff, gg)
        /\ Shown(d, ff, gg) /\ d # e => cache'[d].data = cache[d].data
  BY <1>6, <1>7 DEF Shown
<1>9. \A ff, gg : Shown(e, ff, gg) => ff = f /\ gg = g
  BY <1>1 DEF Shown
<1>10. ASSUME NEW q \in Procs, q # p
       PROVE  Use'[q] = Use[q]
  <2>1. CASE pc[q] = "copy"
    <3>1. call[q].e # e /\ call[q].e \in Slots
      <4>1. pc[q] \in OwnPoints /\ call[q].e = call[p].e => q = p
        BY <1>1, OwnerIs DEF OwnPoints
      <4>2. call[q].e \in Slots
        BY <2>1, InUse DEF OwnPoints
      <4> QED  BY <1>10, <2>1, <4>1, <4>2 DEF OwnPoints
    <3> QED  BY <1>4, <1>5, <1>6, <1>10, <3>1 DEF Use
  <2>2. CASE pc[q] # "copy"
    BY <1>4, <1>10, <2>2 DEF Use
  <2> QED  BY <2>1, <2>2
<1>11. /\ Use = [q \in Procs |-> Use[q]] /\ Use' = [q \in Procs |-> Use'[q]]
       /\ Use'[p] = None
  BY <1>4 DEF Use
<1>12. CASE f \notin Fixed
  <2>1. Content' = Content
    <3>1. ASSUME NEW ff \in Fixed, NEW gg \in Pages
          PROVE
           \/ \E d \in Slots : /\ Shown(d, ff, gg) /\ Shown(d, ff, gg)'
                               /\ cache'[d].data = cache[d].data
           \/ /\ \A d \in Slots : ~Shown(d, ff, gg) /\ ~Shown(d, ff, gg)'
              /\ disk'[ff][gg] = disk[ff][gg]
      BY <1>1, <1>8, <1>9, <1>12
    <3> QED  BY <3>1, ContentStays
  <2>2. Use[p] = None
    BY <1>12 DEF Use
  <2>3. Use' = Use
    BY <1>10, <1>11, <2>2
  <2> QED  BY <2>1, <2>3 DEF FC!vars
<1>13. CASE f \in Fixed
  <2> PICK w \in BOOLEAN : w = (call[p].op = "write")
    OBVIOUS
  <2>1. Use[p] = [file |-> f, page |-> g, writes |-> w, seen |-> cache[e].data]
    BY <1>1, <1>13 DEF Use
  <2>2. Use[p] # None
    <3>1. cache[e].data \in Val
      BY <1>2 DEF SlotRec
    <3> PICK v \in Val : v = cache[e].data
      BY <3>1
    <3>2. [file |-> f, page |-> g, writes |-> w, seen |-> v]
            \in [file : Files, page : Pages, writes : BOOLEAN, seen : Val]
      OBVIOUS
    <3> QED  BY <2>1, <3>2, UseAssumption
  <2>3. Use' = [Use EXCEPT ![p] = None]
    BY <1>10, <1>11
  <2>4. CASE cache'[e].data = cache[e].data
    <3>1. Content' = Content
      <4>1. ASSUME NEW ff \in Fixed, NEW gg \in Pages
            PROVE
             \/ \E d \in Slots : /\ Shown(d, ff, gg) /\ Shown(d, ff, gg)'
                                 /\ cache'[d].data = cache[d].data
             \/ /\ \A d \in Slots : ~Shown(d, ff, gg) /\ ~Shown(d, ff, gg)'
                /\ disk'[ff][gg] = disk[ff][gg]
        BY <1>1, <1>8, <2>4
      <4> QED  BY <4>1, ContentStays
    <3>2. FC!Done(p)
      BY <2>2, <2>3, <3>1 DEF FC!Done
    <3> QED  BY <3>2 DEF FC!Next
  <2>5. CASE call[p].op = "write" /\ cache'[e].data \in Bytes(f)
    <3>1. cache'[e].data \in Val
      BY <1>13, <2>5 DEF Bytes
    <3> PICK v \in Val : v = cache'[e].data
      BY <3>1
    <3>2. ContentShows /\ ContentShows'
      <4>1. (Sound => ContentShows)'
        BY ContentIs, PTL
      <4> QED  BY <4>1, ContentIs
    <3>3. Content'[f][g] = v
      <4>1. Shown(e, f, g)'
        BY <1>1, <1>8
      <4> QED  BY <1>13, <3>2, <4>1 DEF ContentShows
    <3>4. ASSUME NEW ff \in Fixed, NEW gg \in Pages, ~(ff = f /\ gg = g)
          PROVE  Content'[ff][gg] = Content[ff][gg]
      <4>1. /\ \A d \in Slots : Shown(d, ff, gg) => Content[ff][gg] = cache[d].data
            /\ (\A d \in Slots : ~Shown(d, ff, gg)) => Content[ff][gg] = disk[ff][gg]
        BY <3>2 DEF ContentShows
      <4>2. /\ \A d \in Slots : Shown(d, ff, gg)' => Content'[ff][gg] = cache'[d].data
            /\ (\A d \in Slots : ~Shown(d, ff, gg)') => Content'[ff][gg] = disk'[ff][gg]
        BY <3>2 DEF ContentShows
      <4> QED  BY <1>1, <1>8, <1>9, <3>4, <4>1, <4>2
    <3>5. /\ Content = [ff \in Fixed |-> [gg \in Pages |-> Content[ff][gg]]]
          /\ Content' = [ff \in Fixed |-> [gg \in Pages |-> Content'[ff][gg]]]
      BY DEF Content
    <3>6. Content' = [Content EXCEPT ![f][g] = v]
      <4>1. Content' = [ff \in Fixed |-> [gg \in Pages |->
                          IF ff = f /\ gg = g THEN v ELSE Content[ff][gg]]]
        BY <3>3, <3>4, <3>5
      <4>2. [Content EXCEPT ![f][g] = v] = [ff \in Fixed |-> [gg \in Pages |->
                          IF ff = f /\ gg = g THEN v ELSE Content[ff][gg]]]
        <5> HIDE <3>3, <3>4
        <5> QED  BY <1>13, <3>5
      <4> QED  BY <4>1, <4>2
    <3>7. Content' = [Content EXCEPT ![Use[p].file][Use[p].page] = v]
      BY <2>1, <3>6
    <3>8. Use[p].writes
      <4>1. w = TRUE
        BY <2>5
      <4>2. Use[p].writes = TRUE
        BY <2>1, <4>1
      <4> QED  BY <4>2
    <3>9. FC!Done(p)
      BY <2>2, <2>3, <3>7, <3>8 DEF FC!Done
    <3> QED  BY <3>9 DEF FC!Next
  <2> QED  BY <1>1, <1>6, <1>13, <2>4, <2>5
<1> QED  BY <1>12, <1>13

(* Transparent: the cache implements files that have none.                  *)
THEOREM TransparentHolds == Spec => Transparent
<1>1. Init => FC!Init
  <2> SUFFICES ASSUME Init PROVE FC!Init
    OBVIOUS
  <2>1. Sound
    BY InitInv
  <2>2. \A p \in Procs : pc[p] = "idle"
    BY DEF Init
  <2>3. Use = [p \in Procs |-> None]
    BY <2>2 DEF Use
  <2>4. ASSUME NEW f \in Fixed, NEW g \in Pages
        PROVE  Content[f][g] \in Val
    <3>1. \A e \in Slots : Shown(e, f, g) => cache[e].data \in Val
      BY <2>1 DEF Sound, TypeInv, SlotRec
    <3>2. disk[f][g] \in Val
      BY <2>1, ConstantsAssumption DEF Sound, TypeInv, Pages
    <3>3. /\ \A e \in Slots : Shown(e, f, g) => Content[f][g] = cache[e].data
          /\ (\A e \in Slots : ~Shown(e, f, g)) => Content[f][g] = disk[f][g]
      BY <2>1, ContentIs DEF ContentShows
    <3> QED  BY <3>1, <3>2, <3>3
  <2>5. Content = [f \in Fixed |-> [g \in Pages |-> Content[f][g]]]
    BY DEF Content
  <2>6. Content \in [Fixed -> [Pages -> Val]]
    BY <2>4, <2>5
  <2> QED  BY <2>3, <2>6 DEF FC!Init
<1>2. Sound /\ Sound' /\ [Next]_vars => [FC!Next]_FC!vars
  <2> SUFFICES ASSUME Sound, Sound', [Next]_vars PROVE [FC!Next]_FC!vars
    OBVIOUS
  <2>1. CASE UNCHANGED vars
    <3>1. UNCHANGED <<Content, Use>>
      BY <2>1 DEF vars, fatfs, Content, Use, SlotOf, Loaded
    <3> QED  BY <3>1 DEF FC!vars
  <2>2. ASSUME NEW p \in Procs, Call(p) \/ Exit(p) \/ Step(p)
        PROVE  [FC!Next]_FC!vars
    <3>1. CASE Adjust(p) \/ LruAdd(p)
      BY <3>1, GetView
    <3>2. CASE Copy(p)
      BY <3>2, CopyView
    <3>3. CASE \/ Call(p) \/ Truncate(p) \/ Unlock(p) \/ LockTable(p)
               \/ Idup(p) \/ WriteBackFails(p) \/ Exit(p) \/ Leave(p) \/ FlushLock(p)
      <4>1. UNCHANGED <<Content, Use>>
        BY <3>3, LocksApart
      <4> QED  BY <4>1 DEF FC!vars
    <3>4. CASE Find(p) \/ FindEmpty(p)
      <4>1. UNCHANGED <<Content, Use>>
        BY <3>4, FindApart, FindEmptyApart
      <4> QED  BY <4>1 DEF FC!vars
    <3>5. CASE Seek(p) \/ Load(p) \/ ReadFails(p)
      <4>1. UNCHANGED <<Content, Use>>
        BY <3>5, LoadApart
      <4> QED  BY <4>1 DEF FC!vars
    <3>6. CASE Evict(p) \/ EvictWrite(p) \/ Flush(p) \/ FlushWrite(p) \/ Remove(p)
      <4>1. UNCHANGED <<Content, Use>>
        BY <3>6, EvictApart, FlushApart
      <4> QED  BY <4>1 DEF FC!vars
    <3> QED  BY <2>2, <3>1, <3>2, <3>3, <3>4, <3>5, <3>6 DEF Step
  <2> QED  BY <2>1, <2>2 DEF Next
<1>3. IInv /\ IInv' /\ [Next]_vars => [hasty' \/ FC!Next]_FC!vars
  <2> SUFFICES ASSUME IInv, IInv', [Next]_vars, ~hasty'
               PROVE  [FC!Next]_FC!vars
    OBVIOUS
  <2>1. Sound /\ Sound'
    BY HastyStays DEF IInv
  <2> QED  BY <1>2, <2>1
<1> QED  BY <1>1, <1>3, Invariance, PTL DEF Spec, Transparent
=============================================================================
