------------------------------ MODULE DiskProof ------------------------------
(***************************************************************************)
(* Proofs about Disk: the volume is used under a SleepLock, whose theorems *)
(* carry over, and whoever holds it finds the buffers and the disk exact.  *)
(***************************************************************************)
EXTENDS Disk, SleepLockProof

Ats == {"none", "have", "submit", "asleep", "woken", "done"}

Request == [at : Ats, write : BOOLEAN, block : Blocks \cup {0}, val : Val,
            buf : Bufs \cup {0}, out : BOOLEAN]
Buffer == [block : Blocks \cup {0}, valid : BOOLEAN, refcnt : 0 .. 1, data : Val,
           busy : BOOLEAN]

(* Every variable below the mutex has its type.                             *)
TypeDisk ==
  /\ io \in [Procs -> Request]
  /\ buf \in [Bufs -> Buffer]
  /\ sectors \in [Blocks -> Val]
  /\ free \in Nat
  /\ pending \in BOOLEAN

(* The list at bcache.head goes through every buffer.                       *)
InvLru == lru \in [Bufs -> Bufs] /\ \A e \in Bufs : \E i \in Bufs : lru[i] = e

(* Sectors are read and written under the mutex only.                       *)
InvHeld == \A p \in Procs : io[p].at # "none" => pc[p] = "held"

(* The request of p is with the device; done, and the interrupt is to come; *)
(* or over.                                                                 *)
Requested(p) ==
  /\ avail = <<[buf |-> io[p].buf, out |-> io[p].out]>> /\ used = <<>> /\ ~pending
Served(p) ==
  /\ avail = <<>> /\ used = <<io[p].buf>> /\ pending
Quiet == avail = <<>> /\ used = <<>> /\ ~pending

(* What is in the buffer is what is on the disk.                            *)
Same(e) == buf[e].data = sectors[buf[e].block]

(* A buffer that nobody has is clean, and not with the device.              *)
InvIdle ==
  \A e \in Bufs :
    /\ buf[e].valid => buf[e].block # 0
    /\ (\A p \in Procs : io[p].at # "none" => io[p].buf # e)
         => buf[e].refcnt = 0 /\ ~buf[e].busy /\ (buf[e].valid => Same(e))

(* How far p has got with the sector it has asked for.                      *)
Progress(p) ==
  LET e == io[p].buf IN
  /\ e \in Bufs /\ buf[e].block = io[p].block /\ io[p].block # 0 /\ buf[e].refcnt = 1
  /\ io[p].out => io[p].write /\ buf[e].valid /\ buf[e].data = io[p].val
  /\ io[p].at = "submit" => Quiet /\ free = NUM /\ ~buf[e].busy
  /\ io[p].at \in {"have", "done"} =>
       Quiet /\ free = NUM /\ ~buf[e].busy /\ buf[e].valid /\ Same(e)
  /\ io[p].at = "have" => ~io[p].out
  /\ io[p].at = "done" => io[p].out = io[p].write
  /\ io[p].at = "asleep" => buf[e].busy
  /\ io[p].at \in {"asleep", "woken"} =>
       /\ free = NUM - 3
       /\ \/ Requested(p) /\ buf[e].busy
          \/ Served(p) /\ buf[e].busy /\ Same(e)
          \/ Quiet /\ ~buf[e].busy /\ Same(e)

(* Between two sectors the device has nothing to do and all descriptors are *)
(* free.                                                                    *)
InvIo ==
  /\ (\A p \in Procs : io[p].at = "none") => Quiet /\ free = NUM
  /\ \A p \in Procs : io[p].at # "none" => Progress(p)

(* One sector is in one buffer.                                             *)
InvUnique ==
  \A d, e \in Bufs : buf[e].block # 0 /\ buf[d].block = buf[e].block => d = e

DInv == IInv /\ TypeDisk /\ InvLru /\ InvHeld /\ InvIdle /\ InvIo /\ InvUnique

-----------------------------------------------------------------------------
(* Whoever reads or writes a sector is alone.                               *)
LEMMA Alone ==
  ASSUME DInv, NEW p \in Procs, pc[p] = "held" \/ io[p].at # "none",
         NEW q \in Procs, io[q].at # "none"
  PROVE  p = q
  BY DEF DInv, InvHeld, IInv, HolderExact

(* The steps of the mutex do not touch what is below it, and whoever holds  *)
(* it lets go of it between two sectors only.                               *)
LEMMA LockSteps ==
  ASSUME DInv, UNCHANGED diskVars,
         UNCHANGED vars \/ \E p \in Procs : Want(p) \/ Leave(p) \/ Kill(p) \/ Step(p)
  PROVE  DInv'
<1>1. IInv'
  <2>1. [Next]_vars
    BY DEF Next, Leave
  <2> QED  BY <2>1, NextInv DEF DInv
<1>2. ASSUME NEW q \in Procs, io[q].at # "none"
      PROVE  pc'[q] = "held"
  <2>1. pc[q] = "held"
    BY <1>2 DEF DInv, InvHeld
  <2>2. CASE UNCHANGED vars
    BY <2>1, <2>2 DEF vars
  <2>3. ASSUME NEW p \in Procs, Want(p) \/ Leave(p) \/ Kill(p) \/ Step(p)
        PROVE  pc'[q] = "held"
    BY <1>2, <2>1, <2>3
    DEF DInv, IInv, TypeOK, Want, Leave, At, Unlock, Kill, Step, Guard, Take, SleepLock,
        SleepSwitch, Woken, Wake, Unlocked, Goto
  <2> QED  BY <2>2, <2>3
<1>3. InvHeld'
  BY <1>2 DEF InvHeld, diskVars
<1> QED
  BY <1>1, <1>3 DEF DInv, diskVars, TypeDisk, InvLru, InvIdle, InvIo, Progress, InvUnique,
                    Same, Quiet, Requested, Served

(* Below the mutex nothing happens to the mutex.                            *)
LEMMA LockStays == DInv /\ UNCHANGED vars => IInv'
  BY NextInv DEF DInv

(* disk_read() and disk_write() take a buffer: the one of the sector or the *)
(* last in the list, which nobody has.                                      *)
LEMMA AcquireBufStep ==
  ASSUME DInv, NEW p \in Procs, AcquireBuf(p), UNCHANGED vars
  PROVE  DInv'
<1>1. pc[p] = "held" /\ io[p].at = "none" /\ \A q \in Procs : io[q].at = "none"
  BY Alone DEF AcquireBuf, At
<1>2. /\ \A e \in Bufs : buf[e].refcnt = 0 /\ ~buf[e].busy /\ (buf[e].valid => Same(e))
      /\ Quiet /\ free = NUM
  BY <1>1 DEF DInv, InvIdle, InvIo
<1>3. Recycled \in Bufs
  <2>1. {i \in Bufs : buf[lru[i]].refcnt = 0} = Bufs
    BY <1>2 DEF DInv, InvLru
  <2>2. Max(Bufs) \in Bufs
    <3>1. NBUF \in Bufs /\ \A y \in Bufs : NBUF >= y
      BY DiskAssumption DEF Bufs
    <3> QED  BY <3>1 DEF Max
  <2> QED  BY <2>1, <2>2 DEF Recycled, DInv, InvLru
<1>4. PICK b \in Blocks, write \in BOOLEAN, v \in Val :
        /\ buf' = [buf EXCEPT ![Acquired(b)] = Referenced(Acquired(b), b)]
        /\ io' = [io EXCEPT ![p] =
                    [at |-> IF Referenced(Acquired(b), b).valid THEN "have" ELSE "submit",
                     write |-> write, block |-> b, val |-> v, buf |-> Acquired(b),
                     out |-> FALSE]]
  BY DEF AcquireBuf
<1> DEFINE e == Acquired(b)
           r == Referenced(e, b)
<1>5. e \in Bufs /\ (Cached(b) # {} => e \in Cached(b))
  BY <1>3 DEF Cached, Acquired
<1>6. b # 0 /\ buf \in [Bufs -> Buffer] /\ buf[e] \in Buffer /\ buf[e].refcnt + 1 = 1
  BY <1>2, <1>5, DiskAssumption DEF DInv, TypeDisk
<1>7. /\ r \in Buffer
      /\ r.block = b /\ r.refcnt = 1 /\ r.busy = buf[e].busy
      /\ r.data = buf[e].data
      /\ r.valid => buf[e].valid /\ buf[e].block = b
      /\ \A d \in Bufs : d # e => buf[d].block # b
  <2>1. CASE Cached(b) # {}
    <3>1. r = [buf[e] EXCEPT !.refcnt = 1]
      BY <1>6, <2>1 DEF Referenced
    <3>2. buf[e].block = b
      BY <1>5, <2>1 DEF Cached
    <3>3. \A d \in Bufs : d # e => buf[d].block # b
      BY <1>5, <1>6, <3>2 DEF DInv, InvUnique
    <3> HIDE DEF r, e
    <3> QED  BY <1>6, <3>1, <3>2, <3>3 DEF Buffer
  <2>2. CASE Cached(b) = {}
    <3>1. r = [block |-> b, valid |-> FALSE, refcnt |-> 1, data |-> buf[e].data,
               busy |-> buf[e].busy]
      BY <2>2 DEF Referenced
    <3>2. \A d \in Bufs : d # e => buf[d].block # b
      BY <2>2 DEF Cached
    <3> HIDE DEF r, e
    <3> QED  BY <1>6, <3>1, <3>2 DEF Buffer
  <2> QED  BY <2>1, <2>2
<1>8. buf' = [buf EXCEPT ![e] = r]
  BY <1>4
<1>9. io' = [io EXCEPT ![p] =
                    [at |-> IF r.valid THEN "have" ELSE "submit",
                     write |-> write, block |-> b, val |-> v, buf |-> e,
                     out |-> FALSE]]
  BY <1>4
<1>10. UNCHANGED <<lru, sectors, free, avail, used, pending>>
  BY DEF AcquireBuf
<1> HIDE DEF e, r
<1>11. TypeDisk'
  <2>1. buf' \in [Bufs -> Buffer]
    BY <1>5, <1>6, <1>7, <1>8
  <2>2. io' \in [Procs -> Request]
    BY <1>5, <1>9 DEF DInv, TypeDisk, Ats, Request
  <2> QED  BY <1>10, <2>1, <2>2 DEF DInv, TypeDisk
<1>12. /\ \A d \in Bufs : d # e => buf'[d] = buf[d]
       /\ buf'[e] = r
  BY <1>5, <1>6, <1>8
<1>13. /\ \A q \in Procs : q # p => io'[q] = io[q]
       /\ io'[p].at = (IF r.valid THEN "have" ELSE "submit")
       /\ io'[p].block = b /\ io'[p].buf = e /\ ~io'[p].out
  BY <1>9 DEF DInv, TypeDisk
<1> HIDE <1>8, <1>9
<1>14. InvLru' /\ InvHeld'
  BY <1>1, <1>10, <1>13 DEF DInv, InvLru, InvHeld, vars
<1>15. InvUnique'
  BY <1>7, <1>12, <1>5 DEF DInv, InvUnique
<1>16. InvIdle'
  BY <1>1, <1>2, <1>5, <1>6, <1>7, <1>10, <1>12, <1>13 DEF DInv, InvIdle, Same
<1>17. InvIo'
  BY SMTT(20), <1>1, <1>2, <1>5, <1>6, <1>7, <1>10, <1>12, <1>13 DEF InvIo, Progress, Same, Quiet
<1> QED  BY <1>11, <1>14, <1>15, <1>16, <1>17, LockStays DEF DInv

(* A process copies out of its buffer, or into it.                          *)
LEMMA CopyStep ==
  ASSUME DInv, NEW p \in Procs, Copy(p), UNCHANGED vars
  PROVE  DInv'
<1> DEFINE e == io[p].buf
<1>1. /\ pc[p] = "held" /\ io[p].at = "have"
      /\ \A q \in Procs : q # p => io[q].at = "none"
  BY Alone DEF Copy, At, DInv, InvHeld
<1>2. /\ e \in Bufs /\ buf[e].block = io[p].block /\ io[p].block # 0 /\ buf[e].refcnt = 1
      /\ Quiet /\ free = NUM /\ ~buf[e].busy /\ buf[e].valid /\ Same(e) /\ ~io[p].out
  BY <1>1 DEF DInv, InvIo, Progress
<1>3. UNCHANGED <<lru, sectors, free, avail, used, pending>>
  BY DEF Copy
<1>4. io \in [Procs -> Request] /\ buf \in [Bufs -> Buffer] /\ io[p] \in Request
  BY DEF DInv, TypeDisk
<1>5. /\ io' \in [Procs -> Request] /\ buf' \in [Bufs -> Buffer]
      /\ \A q \in Procs : q # p => io'[q] = io[q]
      /\ io'[p].buf = e /\ io'[p].block = io[p].block /\ io'[p].write = io[p].write
      /\ io'[p].val = io[p].val
      /\ \A d \in Bufs : d # e => buf'[d] = buf[d]
      /\ buf'[e].block = buf[e].block /\ buf'[e].valid = buf[e].valid
      /\ buf'[e].refcnt = 1 /\ buf'[e].busy = buf[e].busy
      /\ \/ ~io[p].write /\ io'[p].at = "done" /\ ~io'[p].out /\ buf'[e].data = buf[e].data
         \/ io[p].write /\ io'[p].at = "submit" /\ io'[p].out /\ buf'[e].data = io[p].val
  <2>1. CASE ~io[p].write
    <3>1. io' = [io EXCEPT ![p].at = "done"] /\ UNCHANGED buf
      BY <2>1 DEF Copy, IoGoto
    <3>2. /\ io' \in [Procs -> Request]
          /\ \A q \in Procs : q # p => io'[q] = io[q]
          /\ io'[p].buf = e /\ io'[p].block = io[p].block /\ io'[p].write = io[p].write
          /\ io'[p].val = io[p].val /\ io'[p].at = "done" /\ io'[p].out = io[p].out
      BY <1>4, <3>1 DEF Request, Ats
    <3> QED  BY <1>2, <1>4, <2>1, <3>1, <3>2
  <2>2. CASE io[p].write
    <3>1. /\ buf' = [buf EXCEPT ![e].data = io[p].val]
          /\ io' = [io EXCEPT ![p].at = "submit", ![p].out = TRUE]
      BY <2>2 DEF Copy
    <3>2. /\ io' \in [Procs -> Request]
          /\ \A q \in Procs : q # p => io'[q] = io[q]
          /\ io'[p].buf = e /\ io'[p].block = io[p].block /\ io'[p].write = io[p].write
          /\ io'[p].val = io[p].val /\ io'[p].at = "submit" /\ io'[p].out
      BY <1>4, <3>1 DEF Request, Ats
    <3>3. /\ buf' \in [Bufs -> Buffer]
          /\ \A d \in Bufs : d # e => buf'[d] = buf[d]
          /\ buf'[e].block = buf[e].block /\ buf'[e].valid = buf[e].valid
          /\ buf'[e].refcnt = buf[e].refcnt /\ buf'[e].busy = buf[e].busy
          /\ buf'[e].data = io[p].val
      <4>1. io[p].val \in Val
        BY <1>4 DEF Request
      <4> HIDE DEF e
      <4> QED  BY <1>2, <1>4, <3>1, <4>1 DEF Buffer
    <3> QED  BY <1>2, <2>2, <3>2, <3>3
  <2> QED  BY <2>1, <2>2
<1> HIDE DEF e
<1>6. TypeDisk' /\ InvLru' /\ InvHeld'
  BY <1>1, <1>3, <1>5 DEF DInv, TypeDisk, InvLru, InvHeld, vars
<1>7. InvUnique'
  BY <1>2, <1>5 DEF DInv, InvUnique
<1>8. InvIdle'
  BY <1>1, <1>2, <1>3, <1>5 DEF DInv, InvIdle, Same, e
<1>9. InvIo'
  <2>1. io[p].write \in BOOLEAN /\ io'[p].out \in BOOLEAN /\ io'[p].write \in BOOLEAN
    BY <1>4, <1>5 DEF Request
  <2>2. Quiet' /\ free' = NUM /\ ~buf'[e].busy /\ buf'[e].valid
    BY <1>2, <1>3, <1>5 DEF Quiet
  <2>3. io'[p].at = "done" => buf'[e].data = sectors'[buf'[e].block]
    BY <1>2, <1>3, <1>5 DEF Same
  <2> QED  BY SMTT(20), <1>1, <1>2, <1>5, <2>1, <2>2, <2>3 DEF InvIo, Progress, Same
<1> QED  BY <1>6, <1>7, <1>8, <1>9, LockStays DEF DInv

(* What is moved to the front of the list is still in it, and so is the     *)
(* rest.                                                                    *)
LEMMA MoveKeeps ==
  ASSUME InvLru, NEW e \in Bufs
  PROVE  /\ MovedToFront(e) \in [Bufs -> Bufs]
         /\ \A d \in Bufs : \E i \in Bufs : MovedToFront(e)[i] = d
<1> DEFINE k == CHOOSE i \in Bufs : lru[i] = e
           L == MovedToFront(e)
<1>1. k \in Bufs /\ lru[k] = e
  BY DEF InvLru
<1>2. L = [i \in Bufs |-> IF i = 1 THEN e ELSE IF i <= k THEN lru[i - 1] ELSE lru[i]]
  BY DEF MovedToFront
<1> HIDE DEF k, L
<1>3. \A i \in Bufs : i # 1 => i - 1 \in Bufs
  BY DiskAssumption DEF Bufs
<1>4. L \in [Bufs -> Bufs]
  BY <1>1, <1>2, <1>3 DEF InvLru
<1>5. ASSUME NEW d \in Bufs
      PROVE  \E i \in Bufs : L[i] = d
  <2>1. PICK j \in Bufs : lru[j] = d
    BY DEF InvLru
  <2>2. 1 \in Bufs /\ L[1] = e
    BY <1>2, DiskAssumption DEF Bufs
  <2>3. CASE j = k
    BY <1>1, <2>1, <2>2, <2>3
  <2>4. CASE j # k /\ j <= k
    <3>1. j + 1 \in Bufs /\ j + 1 # 1 /\ j + 1 <= k /\ (j + 1) - 1 = j
      BY <1>1, <2>4, DiskAssumption DEF Bufs
    <3>2. L[j + 1] = lru[j]
      BY <1>2, <3>1
    <3> QED  BY <2>1, <3>1, <3>2
  <2>5. CASE j # k /\ ~(j <= k)
    <3>1. j # 1
      BY <1>1, <2>5, DiskAssumption DEF Bufs
    <3>2. L[j] = lru[j]
      BY <1>2, <2>5, <3>1
    <3> QED  BY <2>1, <3>2
  <2> QED  BY <2>3, <2>4, <2>5
<1> QED  BY <1>4, <1>5 DEF L

(* A process gives its buffer back.                                         *)
LEMMA ReleaseBufStep ==
  ASSUME DInv, NEW p \in Procs, ReleaseBuf(p), UNCHANGED vars
  PROVE  DInv'
<1> DEFINE e == io[p].buf
<1>1. /\ pc[p] = "held" /\ io[p].at = "done"
      /\ \A q \in Procs : q # p => io[q].at = "none"
  BY Alone DEF ReleaseBuf, At, DInv, InvHeld
<1>2. /\ e \in Bufs /\ buf[e].block # 0 /\ buf[e].refcnt = 1
      /\ Quiet /\ free = NUM /\ ~buf[e].busy /\ Same(e)
  BY <1>1 DEF DInv, InvIo, Progress
<1>3. /\ UNCHANGED <<sectors, free, avail, used, pending>>
      /\ lru' = MovedToFront(e)
      /\ buf' = [buf EXCEPT ![e].refcnt = @ - 1]
      /\ io' = [io EXCEPT ![p] = NoIO]
  BY <1>2 DEF ReleaseBuf
<1>4. io \in [Procs -> Request] /\ buf \in [Bufs -> Buffer]
  BY DEF DInv, TypeDisk
<1> HIDE DEF e
<1>5. /\ buf' \in [Bufs -> Buffer]
      /\ \A d \in Bufs : d # e => buf'[d] = buf[d]
      /\ buf'[e].block = buf[e].block /\ buf'[e].valid = buf[e].valid
      /\ buf'[e].refcnt = 0 /\ buf'[e].busy = buf[e].busy /\ buf'[e].data = buf[e].data
  BY <1>2, <1>3, <1>4 DEF Buffer
<1>6. /\ io' \in [Procs -> Request]
      /\ \A q \in Procs : io'[q].at = "none"
  <2>1. NoIO \in Request /\ NoIO.at = "none"
    BY DiskAssumption DEF NoIO, Request, Ats
  <2> QED  BY <1>1, <1>3, <1>4, <2>1
<1>7. InvLru'
  <2>1. /\ MovedToFront(e) \in [Bufs -> Bufs]
        /\ \A d \in Bufs : \E i \in Bufs : MovedToFront(e)[i] = d
    BY <1>2, MoveKeeps DEF DInv
  <2> QED  BY <1>3, <2>1 DEF InvLru
<1>8. TypeDisk' /\ InvHeld'
  BY <1>3, <1>5, <1>6 DEF DInv, TypeDisk, InvHeld
<1>9. InvUnique'
  BY <1>2, <1>5 DEF DInv, InvUnique
<1>10. InvIdle'
  BY <1>1, <1>2, <1>3, <1>5, <1>6 DEF DInv, InvIdle, Same, e
<1>11. InvIo'
  BY SMTT(20), <1>2, <1>3, <1>6 DEF InvIo, Quiet
<1> QED  BY <1>7, <1>8, <1>9, <1>10, <1>11, LockStays DEF DInv

(* A request is put before the device.                                      *)
LEMMA SubmitStep ==
  ASSUME DInv, NEW p \in Procs, Submit(p), UNCHANGED vars
  PROVE  DInv'
<1> DEFINE e == io[p].buf
           o == io[p].out
<1>1. /\ pc[p] = "held" /\ io[p].at = "submit"
      /\ \A q \in Procs : q # p => io[q].at = "none"
  BY Alone DEF Submit, At, DInv, InvHeld
<1>2. /\ e \in Bufs /\ buf[e].block = io[p].block /\ io[p].block # 0 /\ buf[e].refcnt = 1
      /\ avail = <<>> /\ used = <<>> /\ ~pending /\ free = NUM
      /\ o => io[p].write /\ buf[e].valid /\ buf[e].data = io[p].val
  BY <1>1 DEF DInv, InvIo, Progress, Quiet
<1>3. /\ UNCHANGED <<lru, sectors, used, pending>>
      /\ free' = free - 3
      /\ buf' = [buf EXCEPT ![e].busy = TRUE]
      /\ avail' = Append(avail, [buf |-> e, out |-> o])
      /\ io' = [io EXCEPT ![p].at = "asleep"]
  BY DEF Submit, IoGoto
<1>4. io \in [Procs -> Request] /\ buf \in [Bufs -> Buffer]
  BY DEF DInv, TypeDisk
<1>5. avail' = <<[buf |-> e, out |-> o]>>
  BY <1>2, <1>3
<1> HIDE DEF e
<1>6. /\ buf' \in [Bufs -> Buffer]
      /\ \A d \in Bufs : d # e => buf'[d] = buf[d]
      /\ buf'[e].block = buf[e].block /\ buf'[e].valid = buf[e].valid
      /\ buf'[e].refcnt = buf[e].refcnt /\ buf'[e].busy = TRUE /\ buf'[e].data = buf[e].data
  BY <1>2, <1>3, <1>4 DEF Buffer
<1>7. /\ io' \in [Procs -> Request]
      /\ \A q \in Procs : q # p => io'[q] = io[q]
      /\ io'[p].at = "asleep" /\ io'[p].write = io[p].write /\ io'[p].block = io[p].block
      /\ io'[p].val = io[p].val /\ io'[p].buf = e /\ io'[p].out = o
  BY <1>3, <1>4 DEF Request, Ats, e
<1>8. TypeDisk' /\ InvLru' /\ InvHeld'
  <2>1. free' \in Nat
    BY <1>2, <1>3, DiskAssumption
  <2> QED  BY <1>1, <1>3, <1>6, <1>7, <2>1 DEF DInv, TypeDisk, InvLru, InvHeld, vars
<1>9. InvUnique'
  BY <1>2, <1>6 DEF DInv, InvUnique
<1>10. InvIdle'
  BY <1>1, <1>2, <1>3, <1>6, <1>7 DEF DInv, InvIdle, Same, e
<1>11. InvIo'
  <2>1. /\ avail' = <<[buf |-> io'[p].buf, out |-> io'[p].out]>> /\ used' = <<>> /\ ~pending'
        /\ free' = NUM - 3
    BY <1>2, <1>3, <1>5, <1>7
  <2> QED  BY SMTT(20), <1>1, <1>2, <1>6, <1>7, <2>1 DEF InvIo, Progress, Requested
<1> QED  BY <1>8, <1>9, <1>10, <1>11, LockStays DEF DInv

(* While the device or its interrupt has something to do, a process is in   *)
(* the driver.                                                              *)
LEMMA InDriver ==
  ASSUME DInv, ~Quiet
  PROVE  \E p \in Procs :
           /\ io[p].at \in {"asleep", "woken"} /\ io[p].buf \in Bufs
           /\ \A q \in Procs : q # p => io[q].at = "none"
           /\ buf[io[p].buf].busy
           /\ Requested(p) \/ (Served(p) /\ Same(io[p].buf))
<1>1. PICK p \in Procs : io[p].at # "none"
  BY DEF DInv, InvIo
<1>2. \A q \in Procs : q # p => io[q].at = "none"
  BY <1>1, Alone
<1>3. io[p].at \in Ats
  BY DEF DInv, TypeDisk, Request
<1>4. io[p].at \in {"asleep", "woken"} /\ io[p].buf \in Bufs
  BY <1>1, <1>3 DEF DInv, InvIo, Progress, Ats
<1>5. /\ buf[io[p].buf].busy
      /\ Requested(p) \/ (Served(p) /\ Same(io[p].buf))
  <2>1. \/ Requested(p) /\ buf[io[p].buf].busy
        \/ Served(p) /\ buf[io[p].buf].busy /\ Same(io[p].buf)
        \/ Quiet /\ ~buf[io[p].buf].busy /\ Same(io[p].buf)
    BY <1>1, <1>4 DEF DInv, InvIo, Progress
  <2> QED  BY <2>1
<1> QED  BY <1>2, <1>4, <1>5

(* The device transfers the sector, in one direction or the other.          *)
LEMMA DeviceStep ==
  ASSUME DInv, Device, UNCHANGED vars
  PROVE  DInv'
<1>1. ~Quiet /\ avail # <<>>
  BY DEF Device, Quiet
<1>2. PICK p \in Procs :
        /\ io[p].at \in {"asleep", "woken"} /\ io[p].buf \in Bufs
        /\ \A q \in Procs : q # p => io[q].at = "none"
        /\ buf[io[p].buf].busy
        /\ Requested(p) \/ (Served(p) /\ Same(io[p].buf))
  BY <1>1, InDriver
<1> DEFINE e == io[p].buf
           o == io[p].out
           b == buf[e].block
<1>3. avail = <<[buf |-> e, out |-> o]>> /\ used = <<>>
  BY <1>1, <1>2 DEF Requested, Served
<1>4. /\ buf[e].block = io[p].block /\ io[p].block # 0 /\ buf[e].refcnt = 1
      /\ o => io[p].write /\ buf[e].valid /\ buf[e].data = io[p].val
      /\ free = NUM - 3
  BY <1>2 DEF DInv, InvIo, Progress
<1>5. io \in [Procs -> Request] /\ buf \in [Bufs -> Buffer] /\ sectors \in [Blocks -> Val]
  BY DEF DInv, TypeDisk
<1>6. e \in Bufs /\ b \in Blocks /\ o \in BOOLEAN /\ buf[e].data \in Val
  BY <1>2, <1>4, <1>5 DEF Request, Buffer
<1>7. /\ avail' = <<>> /\ used' = <<e>> /\ pending' /\ pending' \in BOOLEAN
      /\ UNCHANGED <<io, lru, free>>
      /\ IF o THEN sectors' = [sectors EXCEPT ![b] = buf[e].data] /\ UNCHANGED buf
              ELSE buf' = [buf EXCEPT ![e].data = sectors[b]] /\ UNCHANGED sectors
  <2>1. Head(avail) = [buf |-> e, out |-> o] /\ Tail(avail) = <<>>
    BY <1>3
  <2>2. Append(used, e) = <<e>>
    BY <1>3
  <2> QED  BY <2>1, <2>2 DEF Device
<1> HIDE DEF e, o, b
<1>8. /\ buf' \in [Bufs -> Buffer] /\ sectors' \in [Blocks -> Val]
      /\ \A d \in Bufs : d # e => buf'[d] = buf[d]
      /\ buf'[e].block = b /\ buf'[e].valid = buf[e].valid
      /\ buf'[e].refcnt = buf[e].refcnt /\ buf'[e].busy = buf[e].busy
      /\ buf'[e].data = sectors'[b]
      /\ o => buf'[e].data = buf[e].data
      /\ \A c \in Blocks : c # b => sectors'[c] = sectors[c]
  <2>1. CASE o
    BY <1>5, <1>6, <1>7, <2>1 DEF b
  <2>2. CASE ~o
    <3>1. buf' = [buf EXCEPT ![e].data = sectors[b]] /\ UNCHANGED sectors /\ sectors[b] \in Val
      BY <1>5, <1>6, <1>7, <2>2
    <3>2. b = buf[e].block
      BY DEF b
    <3> QED  BY <1>5, <1>6, <2>2, <3>1, <3>2 DEF Buffer
  <2> QED  BY <2>1, <2>2
<1>9. TypeDisk' /\ InvLru' /\ InvHeld'
  BY <1>7, <1>8 DEF DInv, TypeDisk, InvLru, InvHeld, vars
<1>10. InvUnique'
  BY <1>6, <1>8 DEF DInv, InvUnique, b
<1>11. InvIdle'
  <2>1. ASSUME NEW d \in Bufs, d # e
        PROVE  /\ buf'[d] = buf[d]
               /\ buf[d].valid => sectors'[buf[d].block] = sectors[buf[d].block]
    <3>1. buf[d].block # b
      BY <1>4, <1>6, <2>1 DEF DInv, InvUnique, b, e
    <3>2. buf[d].valid => buf[d].block \in Blocks
      BY <1>5 DEF DInv, InvIdle, Buffer
    <3> QED  BY <1>8, <2>1, <3>1, <3>2
  <2> QED  BY <1>2, <1>4, <1>7, <1>8, <2>1 DEF DInv, InvIdle, Same, e, b
<1>12. InvIo'
  <2>1. /\ buf'[e].block = io[p].block /\ buf'[e].refcnt = 1 /\ buf'[e].busy
        /\ buf'[e].data = sectors'[buf'[e].block]
        /\ o => io[p].write /\ buf'[e].valid /\ buf'[e].data = io[p].val
        /\ avail' = <<>> /\ used' = <<io[p].buf>> /\ pending' /\ free' = NUM - 3
    BY SMTT(20), <1>2, <1>4, <1>7, <1>8 DEF e, b
  <2>2. e = io[p].buf /\ o = io[p].out /\ UNCHANGED io
    BY <1>7 DEF e, o
  <2> HIDE <1>7, <1>8
  <2>3. Progress(p)'
    BY SMTT(20), <1>2, <1>4, <1>6, <2>1, <2>2 DEF Progress, Served, Same
  <2> QED  BY <1>2, <2>2, <2>3 DEF InvIo
<1> QED  BY <1>9, <1>10, <1>11, <1>12, LockStays DEF DInv

(* The interrupt finds the buffer whose transfer is over.                   *)
LEMMA InterruptStep ==
  ASSUME DInv, Interrupt, UNCHANGED vars
  PROVE  DInv'
<1>1. ~Quiet /\ pending
  BY DEF Interrupt, Quiet
<1>2. PICK p \in Procs :
        /\ io[p].at \in {"asleep", "woken"} /\ io[p].buf \in Bufs
        /\ \A q \in Procs : q # p => io[q].at = "none"
        /\ buf[io[p].buf].busy
        /\ Requested(p) \/ (Served(p) /\ Same(io[p].buf))
  BY <1>1, InDriver
<1> DEFINE e == io[p].buf
<1>3. avail = <<>> /\ used = <<e>> /\ Same(e) /\ e \in Bufs
  BY <1>1, <1>2 DEF Requested, Served
<1>4. /\ buf[e].block = io[p].block /\ io[p].block # 0 /\ buf[e].refcnt = 1
      /\ io[p].out => io[p].write /\ buf[e].valid /\ buf[e].data = io[p].val
      /\ free = NUM - 3
  BY <1>2 DEF DInv, InvIo, Progress
<1>5. io \in [Procs -> Request] /\ buf \in [Bufs -> Buffer]
  BY DEF DInv, TypeDisk
<1>6. Finished = {e}
  BY <1>3 DEF Finished
<1>7. /\ ~pending' /\ pending' \in BOOLEAN /\ used' = <<>>
      /\ UNCHANGED <<lru, sectors, free, avail>>
      /\ buf' = [d \in Bufs |-> [buf[d] EXCEPT !.busy = @ /\ d \notin {e}]]
      /\ io' = [q \in Procs |-> IF WokenUp(q) THEN [io[q] EXCEPT !.at = "woken"] ELSE io[q]]
  BY <1>6 DEF Interrupt
<1> HIDE DEF e
<1>8. /\ buf' \in [Bufs -> Buffer]
      /\ \A d \in Bufs : /\ buf'[d].block = buf[d].block /\ buf'[d].valid = buf[d].valid
                         /\ buf'[d].refcnt = buf[d].refcnt /\ buf'[d].data = buf[d].data
                         /\ buf'[d].busy <=> buf[d].busy /\ d # e
  BY <1>5, <1>7 DEF Buffer
<1>9. /\ io' \in [Procs -> Request]
      /\ \A q \in Procs : /\ io'[q].write = io[q].write /\ io'[q].block = io[q].block
                          /\ io'[q].val = io[q].val /\ io'[q].buf = io[q].buf
                          /\ io'[q].out = io[q].out
                          /\ q # p => io'[q].at = io[q].at
      /\ io'[p].at = "woken"
  <2>1. \A q \in Procs : WokenUp(q) <=> io[q].at = "asleep" /\ io[q].buf = e
    BY <1>6 DEF WokenUp, At
  <2>2. \A q \in Procs : q # p => ~WokenUp(q)
    BY <1>2, <2>1
  <2>3. \A q \in Procs : io[q] \in Request
    BY <1>5
  <2>4. \A q \in Procs : [io[q] EXCEPT !.at = "woken"] \in Request
    BY <2>3 DEF Request, Ats
  <2>5. \A q \in Procs :
          io'[q] = IF WokenUp(q) THEN [io[q] EXCEPT !.at = "woken"] ELSE io[q]
    BY <1>7
  <2>6. io' \in [Procs -> Request]
    BY <1>7, <2>3, <2>4
  <2>7. /\ \A q \in Procs : q # p => io'[q] = io[q]
        /\ \/ io'[p] = [io[p] EXCEPT !.at = "woken"]
           \/ io'[p] = io[p] /\ io[p].at = "woken"
    <3>1. \A q \in Procs : q # p => io'[q] = io[q]
      BY <2>2, <2>5
    <3>2. WokenUp(p) \/ io[p].at = "woken"
      BY <1>2, <2>1 DEF e
    <3>4. io'[p] = IF WokenUp(p) THEN [io[p] EXCEPT !.at = "woken"] ELSE io[p]
      BY <2>5
    <3>5. CASE WokenUp(p)
      BY <3>1, <3>4, <3>5
    <3>6. CASE ~WokenUp(p)
      BY <3>1, <3>2, <3>4, <3>6
    <3> QED  BY <3>5, <3>6
  <2> QED  BY <2>3, <2>6, <2>7 DEF Request
<1>10. TypeDisk' /\ InvLru' /\ InvHeld'
  <2>1. InvHeld'
    BY <1>2, <1>9 DEF DInv, InvHeld, vars
  <2>2. TypeDisk'
    BY <1>7, <1>8, <1>9 DEF DInv, TypeDisk
  <2> QED  BY <1>7, <2>1, <2>2 DEF DInv, InvLru
<1>11. InvUnique'
  BY <1>8 DEF DInv, InvUnique
<1>12. InvIdle'
  <2>1. \A d \in Bufs : d # e =>
          buf[d].refcnt = 0 /\ ~buf[d].busy /\ (buf[d].valid => Same(d))
    BY <1>2 DEF DInv, InvIdle, e
  <2> QED  BY <1>2, <1>7, <1>8, <1>9, <2>1 DEF DInv, InvIdle, Same, e
<1>13. InvIo'
  <2>1. /\ io'[p].buf = e /\ buf'[e].block = io'[p].block /\ io'[p].block # 0
        /\ buf'[e].refcnt = 1 /\ ~buf'[e].busy /\ buf'[e].data = sectors'[buf'[e].block]
        /\ io'[p].out => io'[p].write /\ buf'[e].valid /\ buf'[e].data = io'[p].val
        /\ Quiet' /\ free' = NUM - 3
    <3>1. e = io[p].buf
      BY DEF e
    <3>2. Quiet' /\ free' = NUM - 3
      BY <1>3, <1>4, <1>7 DEF Quiet
    <3>3. /\ io'[p].buf = e /\ io'[p].block = io[p].block /\ io'[p].val = io[p].val
          /\ io'[p].out = io[p].out /\ io'[p].write = io[p].write
      BY <1>9, <3>1
    <3>4. /\ buf'[e].block = buf[e].block /\ buf'[e].valid = buf[e].valid
          /\ buf'[e].refcnt = buf[e].refcnt /\ buf'[e].data = buf[e].data /\ ~buf'[e].busy
      BY <1>3, <1>8
    <3>5. buf[e].data = sectors'[buf[e].block]
      BY <1>3, <1>7 DEF Same
    <3> HIDE <1>1, <1>2, <1>3, <1>7, <1>8, <1>9
    <3> QED  BY <1>4, <3>1, <3>2, <3>3, <3>4, <3>5
  <2>2. Progress(p)'
    BY SMTT(20), <1>3, <1>9, <2>1 DEF Progress, Same
  <2> QED  BY <1>2, <1>9, <2>2 DEF InvIo
<1> QED  BY <1>10, <1>11, <1>12, <1>13, LockStays DEF DInv

(* A process in the driver is woken too early.                              *)
LEMMA KillSleeperStep ==
  ASSUME DInv, NEW p \in Procs, KillSleeper(p), UNCHANGED vars
  PROVE  DInv'
<1>1. /\ io[p].at = "asleep" /\ io' = [io EXCEPT ![p].at = "woken"]
      /\ UNCHANGED <<buf, lru, sectors, free, avail, used, pending>>
  BY DEF KillSleeper, At, IoGoto
<1>2. \A q \in Procs : q # p => io[q].at = "none"
  BY <1>1, Alone
<1>3. /\ io' \in [Procs -> Request]
      /\ \A q \in Procs : /\ q # p => io'[q] = io[q]
                          /\ io'[q].buf = io[q].buf /\ io'[q].block = io[q].block
                          /\ io'[q].write = io[q].write /\ io'[q].val = io[q].val
                          /\ io'[q].out = io[q].out
      /\ io'[p].at = "woken"
  BY <1>1 DEF DInv, TypeDisk, Request, Ats
<1>4. InvHeld'
  BY <1>1, <1>3 DEF DInv, InvHeld, vars
<1>5. InvIdle'
  BY <1>1, <1>3 DEF DInv, InvIdle, Same
<1>6. InvIo'
  <2>1. /\ Quiet' <=> Quiet
        /\ Requested(p)' <=> Requested(p)
        /\ Served(p)' <=> Served(p)
        /\ Same(io[p].buf)' <=> Same(io[p].buf)
    BY <1>1, <1>3 DEF Requested, Served, Quiet, Same
  <2>2. io'[p].buf = io[p].buf /\ UNCHANGED <<buf, free>>
    BY <1>1, <1>3
  <2> QED  BY SMTT(20), <1>1, <1>2, <1>3, <2>1, <2>2 DEF DInv, InvIo, Progress
<1> QED
  BY <1>1, <1>3, <1>4, <1>5, <1>6, LockStays DEF DInv, TypeDisk, InvLru, InvUnique

(* Woken, a process in the driver looks at the flag of its buffer.          *)
LEMMA ReturnStep ==
  ASSUME DInv, NEW p \in Procs, Return(p), UNCHANGED vars
  PROVE  DInv'
<1> DEFINE e == io[p].buf
           o == io[p].out
<1>1. /\ io[p].at = "woken" /\ e \in Bufs
      /\ \A q \in Procs : q # p => io[q].at = "none"
  BY Alone DEF Return, At, DInv, InvIo, Progress
<1>2. /\ buf[e].block = io[p].block /\ io[p].block # 0 /\ buf[e].refcnt = 1
      /\ o => io[p].write /\ buf[e].valid /\ buf[e].data = io[p].val
      /\ free = NUM - 3
      /\ \/ Requested(p) /\ buf[e].busy
         \/ Served(p) /\ buf[e].busy /\ Same(e)
         \/ Quiet /\ ~buf[e].busy /\ Same(e)
  BY <1>1 DEF DInv, InvIo, Progress
<1>3. io \in [Procs -> Request] /\ buf \in [Bufs -> Buffer] /\ io[p] \in Request
  BY DEF DInv, TypeDisk
<1>4. UNCHANGED <<lru, sectors, avail, used, pending>>
  BY DEF Return
<1>5. CASE buf[e].busy
  <2>1. io' = [io EXCEPT ![p].at = "asleep"] /\ UNCHANGED <<buf, free>>
    BY <1>5 DEF Return, Busy, IoGoto
  <2>2. /\ io' \in [Procs -> Request]
        /\ \A q \in Procs : /\ q # p => io'[q] = io[q]
                            /\ io'[q].buf = io[q].buf /\ io'[q].block = io[q].block
                            /\ io'[q].write = io[q].write /\ io'[q].val = io[q].val
                            /\ io'[q].out = io[q].out
        /\ io'[p].at = "asleep"
    BY <1>3, <2>1 DEF Request, Ats
  <2>3. InvHeld'
    BY <1>1, <2>2 DEF DInv, InvHeld, vars
  <2>4. InvIdle'
    BY <1>1, <1>4, <2>1, <2>2 DEF DInv, InvIdle, Same
  <2>5. InvIo'
    <3>1. /\ Requested(p)' <=> Requested(p)
          /\ Served(p)' <=> Served(p)
          /\ Same(io[p].buf)' <=> Same(io[p].buf)
      BY <1>4, <2>1, <2>2 DEF Requested, Served, Same
    <3>2. \/ Requested(p)
          \/ Served(p) /\ Same(io[p].buf)
      BY <1>2, <1>5
    <3> QED  BY SMTT(20), <1>1, <1>2, <1>5, <2>1, <2>2, <3>1, <3>2 DEF InvIo, Progress
  <2> QED
    BY <1>4, <2>1, <2>2, <2>3, <2>4, <2>5, LockStays DEF DInv, TypeDisk, InvLru, InvUnique
<1>6. CASE ~buf[e].busy
  <2>1. /\ free' = free + 3
        /\ buf' = [buf EXCEPT ![e].valid = TRUE]
        /\ io' = [io EXCEPT ![p].at = IF o THEN "done" ELSE "have"]
    BY <1>6 DEF Return, Busy, IoGoto
  <2>2. Quiet /\ Same(e)
    BY <1>2, <1>6
  <2>3. free' = NUM /\ free' \in Nat
    BY <1>2, <2>1, DiskAssumption
  <2>4. /\ io' \in [Procs -> Request]
        /\ \A q \in Procs : q # p => io'[q] = io[q]
        /\ io'[p].buf = e /\ io'[p].block = io[p].block
        /\ io'[p].write = io[p].write /\ io'[p].val = io[p].val /\ io'[p].out = o
        /\ io'[p].at = IF o THEN "done" ELSE "have"
    BY <1>3, <2>1 DEF Request, Ats
  <2> HIDE DEF e, o
  <2>5. /\ buf' \in [Bufs -> Buffer]
        /\ \A d \in Bufs : d # e => buf'[d] = buf[d]
        /\ buf'[e].block = buf[e].block /\ buf'[e].valid
        /\ buf'[e].refcnt = buf[e].refcnt /\ buf'[e].busy = buf[e].busy
        /\ buf'[e].data = buf[e].data
    BY <1>1, <1>3, <2>1 DEF Buffer
  <2>6. TypeDisk' /\ InvLru'
    BY <1>4, <2>3, <2>4, <2>5 DEF DInv, TypeDisk, InvLru
  <2>7. InvHeld'
    BY <1>1, <2>4 DEF DInv, InvHeld, vars
  <2>8. InvUnique'
    BY <1>1, <2>5 DEF DInv, InvUnique
  <2>9. InvIdle'
    BY <1>1, <1>2, <1>4, <2>2, <2>4, <2>5 DEF DInv, InvIdle, Same, e
  <2>10. InvIo'
    <3>1. o \in BOOLEAN /\ io[p].write \in BOOLEAN /\ io'[p].out \in BOOLEAN
      BY <1>3, <2>4 DEF Request, o
    <3>2. /\ Quiet' /\ ~buf'[e].busy /\ buf'[e].valid
          /\ buf'[e].data = sectors'[buf'[e].block]
          /\ buf'[e].block = io'[p].block /\ io'[p].block # 0 /\ buf'[e].refcnt = 1
          /\ o => io'[p].write /\ buf'[e].data = io'[p].val
      BY <1>2, <1>4, <1>6, <2>2, <2>4, <2>5 DEF Quiet, Same
    <3> QED  BY SMTT(20), <1>1, <2>3, <2>4, <3>1, <3>2 DEF InvIo, Progress, Same
  <2> QED  BY <2>6, <2>7, <2>8, <2>9, <2>10, LockStays DEF DInv
<1> QED  BY <1>5, <1>6

-----------------------------------------------------------------------------
(* When nothing has happened yet, the buffers are empty.                    *)
LEMMA DInvInit == DiskInit => DInv
<1> SUFFICES ASSUME DiskInit  PROVE DInv
  OBVIOUS
<1>1. IInv
  BY InitInv DEF DiskInit
<1>2. TypeDisk
  <2>1. NoIO \in Request
    BY DiskAssumption DEF NoIO, Request, Ats
  <2>2. [block |-> 0, valid |-> FALSE, refcnt |-> 0, data |-> 0, busy |-> FALSE] \in Buffer
    BY DiskAssumption DEF Buffer
  <2>3. io \in [Procs -> Request] /\ buf \in [Bufs -> Buffer]
    BY <2>1, <2>2 DEF DiskInit
  <2> QED  BY <2>3, DiskAssumption DEF DiskInit, TypeDisk
<1>3. InvLru
  <2>1. \A i \in Bufs : NBUF + 1 - i \in Bufs /\ NBUF + 1 - (NBUF + 1 - i) = i
    BY DiskAssumption DEF Bufs
  <2> QED  BY <2>1 DEF DiskInit, InvLru
<1>4. InvHeld /\ InvIdle /\ InvIo /\ InvUnique
  BY DEF DiskInit, InvHeld, InvIdle, InvIo, InvUnique, NoIO, Quiet
<1> QED  BY <1>1, <1>2, <1>3, <1>4 DEF DInv

LEMMA DInvNext == DInv /\ [DiskNext]_allVars => DInv'
<1> SUFFICES ASSUME DInv, [DiskNext]_allVars  PROVE DInv'
  OBVIOUS
<1>1. CASE UNCHANGED allVars
  BY <1>1, LockSteps DEF allVars
<1>2. ASSUME NEW p \in Procs, Want(p) \/ Leave(p) \/ Kill(p), UNCHANGED diskVars
      PROVE  DInv'
  BY <1>2, LockSteps
<1>3. ASSUME NEW p \in Procs, LockStep(p)
      PROVE  DInv'
  BY <1>3, LockSteps DEF LockStep
<1>4. ASSUME NEW p \in Procs, SectorStep(p)
      PROVE  DInv'
  BY <1>4, CopyStep, ReleaseBufStep, SubmitStep, ReturnStep DEF SectorStep, IoStep
<1>5. ASSUME NEW p \in Procs, AcquireBuf(p) \/ KillSleeper(p), UNCHANGED vars
      PROVE  DInv'
  BY <1>5, AcquireBufStep, KillSleeperStep
<1>6. CASE (Device \/ Interrupt) /\ UNCHANGED vars
  BY <1>6, DeviceStep, InterruptStep
<1> QED  BY <1>1, <1>2, <1>3, <1>4, <1>5, <1>6 DEF DiskNext

(* The inductive invariant holds in every state.                            *)
THEOREM DiskInvariance == DiskSpec => []DInv
  BY DInvInit, DInvNext, PTL DEF DiskSpec

(* A process copies from and to its buffer while it holds the sector it     *)
(* asked for, as it is on the disk, and one sector is in one buffer.        *)
THEOREM BlocksExactHolds == DiskSpec => []BlocksExact
<1>1. DInv => BlocksExact
  <2> SUFFICES ASSUME DInv  PROVE BlocksExact
    OBVIOUS
  <2>1. ASSUME NEW e \in Bufs
        PROVE  /\ buf[e].valid /\ buf[e].refcnt = 0 => buf[e].data = sectors[buf[e].block]
               /\ \A d \in Bufs \ {e} : buf[e].block # 0 => buf[d].block # buf[e].block
               /\ buf[e].busy <=> e \in InFlight
    <3>1. CASE \A p \in Procs : io[p].at = "none"
      <4>1. InFlight = {}
        BY <3>1 DEF DInv, InvIo, Quiet, InFlight, Finished
      <4> QED  BY <2>1, <3>1, <4>1 DEF DInv, InvIdle, InvUnique, Same
    <3>2. ASSUME NEW p \in Procs, io[p].at # "none"
          PROVE  /\ buf[e].valid /\ buf[e].refcnt = 0 => Same(e)
                 /\ buf[e].busy <=> e \in InFlight
      <4>1. \A q \in Procs : q # p => io[q].at = "none"
        BY <3>2, Alone
      <4>2. e # io[p].buf => buf[e].refcnt = 0 /\ ~buf[e].busy /\ (buf[e].valid => Same(e))
        BY <4>1 DEF DInv, InvIdle
      <4>3. buf[io[p].buf].refcnt = 1
        BY <3>2 DEF DInv, InvIo, Progress
      <4>4. \/ Requested(p) /\ buf[io[p].buf].busy
            \/ Served(p) /\ buf[io[p].buf].busy
            \/ Quiet /\ ~buf[io[p].buf].busy
        <5>1. io[p].at \in Ats
          BY DEF DInv, TypeDisk, Request
        <5> QED  BY SMTT(20), <3>2, <5>1 DEF DInv, InvIo, Progress, Ats
      <4>5. buf[e].busy <=> e \in InFlight
        <5>1. CASE Requested(p) /\ buf[io[p].buf].busy
          <6>1. InFlight = {io[p].buf}
            BY <5>1 DEF Requested, InFlight, Finished
          <6> QED  BY <4>2, <5>1, <6>1
        <5>2. CASE Served(p) /\ buf[io[p].buf].busy
          <6>1. InFlight = {io[p].buf}
            BY <5>2 DEF Served, InFlight, Finished
          <6> QED  BY <4>2, <5>2, <6>1
        <5>3. CASE Quiet /\ ~buf[io[p].buf].busy
          <6>1. InFlight = {}
            BY <5>3 DEF Quiet, InFlight, Finished
          <6> QED  BY <4>2, <5>3, <6>1
        <5> QED  BY <4>4, <5>1, <5>2, <5>3
      <4> QED  BY <4>2, <4>3, <4>5
    <3>3. \A d \in Bufs \ {e} : buf[e].block # 0 => buf[d].block # buf[e].block
      BY DEF DInv, InvUnique
    <3> QED  BY <3>1, <3>2, <3>3 DEF Same
  <2>2. ASSUME NEW p \in Procs, io[p].at \in {"have", "done"}
        PROVE  LET b == buf[io[p].buf] IN
               /\ b.block = io[p].block /\ b.valid /\ ~b.busy /\ b.refcnt = 1
               /\ b.data = sectors[b.block]
               /\ At(p, "done") /\ io[p].write => b.data = io[p].val
    BY <2>2 DEF DInv, InvIo, Progress, Same, At
  <2> QED  BY <2>1, <2>2 DEF BlocksExact
<1> QED  BY <1>1, DiskInvariance, PTL

(* Below a mutex that is in use the mutex works as it does alone: what the  *)
(* theorems about SleepLock say holds for the mutex of the volume.          *)
THEOREM DiskImplementsSleepLock == DiskSpec => Spec
<1>1. DiskInit => Init
  BY DEF DiskInit
<1>2. [DiskNext]_allVars => [Next]_vars
  BY DEF DiskNext, Next, LockStep, SectorStep, Leave, allVars
<1> QED  BY <1>1, <1>2, PTL DEF DiskSpec, Spec

(* The mutex of the volume has one holder, and nobody sleeps on it for ever *)
(* while it is free, whatever goes on in the cache and in the driver.       *)
THEOREM VolumeMutex == DiskSpec => [](TypeOK /\ HolderExact /\ NoLostWakeup)
  BY DiskImplementsSleepLock, TypeCorrect, HolderIsExact, NoWakeupIsLost, PTL

(* To the callers of ff_req_grant() the volume is a mutex.                  *)
THEOREM VolumeImplementsMutex == DiskSpec => ImplementsMutex
  BY DiskImplementsSleepLock, Refinement
=============================================================================
