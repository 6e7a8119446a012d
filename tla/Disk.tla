-------------------------------- MODULE Disk --------------------------------
(***************************************************************************)
(* What lies below FatFs: the mutex of the volume (a SleepLock), the       *)
(* buffer cache, the driver of the virtio disk, the device and its         *)
(* interrupt.  A process that holds the mutex reads and writes sectors,    *)
(* one after the other; for each it takes a buffer, and if need be sleeps  *)
(* in the driver until the interrupt, which any hart may take, wakes it.   *)
(*                                                                         *)
(* vdisk_lock and bcache.lock are held in no more than one step, and both  *)
(* sides of sleep() and wakeup() hold vdisk_lock, which SleepLock shows to *)
(* be enough: to fall asleep is part of the step that submits a request.   *)
(* FatFs uses the disk under the mutex only, so the mutex of a buffer is   *)
(* always free and three of the NUM descriptors can always be had.         *)
(***************************************************************************)
EXTENDS SleepLock, Sequences, FiniteSetsExt

CONSTANTS
  Blocks,   (* the sectors of the disk; 0 is a buffer's none                 *)
  NBUF,     (* buffers                                                      *)
  NUM,      (* descriptors of the queue                                     *)
  Val       (* contents of a sector                                         *)

ASSUME DiskAssumption ==
  /\ NBUF \in Nat \ {0} /\ NUM \in Nat /\ NUM >= 3
  /\ Blocks \subseteq Nat \ {0} /\ 0 \in Val

Bufs == 1 .. NBUF

VARIABLES
  io,       (* the sector a process is reading or writing, and how far      *)
  buf,      (* bcache.buf; block 0 is none, busy is disk_is_reading         *)
  lru,      (* the list at bcache.head, most recently used first            *)
  sectors,  (* what is on the disk                                          *)
  free,     (* descriptors that are free                                    *)
  avail,    (* requests the device has not done                             *)
  used,     (* requests it has done and the driver not looked at            *)
  pending   (* the interrupt is raised                                      *)

diskVars == <<io, buf, lru, sectors, free, avail, used, pending>>
allVars == <<vars, diskVars>>

NoIO == [at |-> "none", write |-> FALSE, block |-> 0, val |-> 0, buf |-> 0,
         out |-> FALSE]

DiskInit ==
  /\ Init
  /\ io = [p \in Procs |-> NoIO]
  /\ buf = [e \in Bufs |-> [block |-> 0, valid |-> FALSE, refcnt |-> 0,
                            data |-> 0, busy |-> FALSE]]
  /\ lru = [i \in Bufs |-> NBUF + 1 - i]
  /\ sectors = [b \in Blocks |-> 0]
  /\ free = NUM
  /\ avail = <<>> /\ used = <<>>
  /\ pending = FALSE

At(p, l) == io[p].at = l
IoGoto(p, l) == io' = [io EXCEPT ![p].at = l]
-----------------------------------------------------------------------------
(* The buffer cache *)

Cached(b) == {e \in Bufs : buf[e].block = b}
(* the buffer that was released first of those not in use *)
Recycled == lru[Max({i \in Bufs : buf[lru[i]].refcnt = 0})]
(* acquire_buf() *)
Acquired(b) == IF Cached(b) # {} THEN CHOOSE e \in Cached(b) : TRUE ELSE Recycled

(* ... as acquire_buf() returns it; release_buf() left its data in it *)
Referenced(e, b) ==
  IF Cached(b) # {} THEN [buf[e] EXCEPT !.refcnt = @ + 1]
  ELSE [block |-> b, valid |-> FALSE, refcnt |-> 1, data |-> buf[e].data,
        busy |-> buf[e].busy]

(* disk_read() and disk_write() of one sector, as far as acquire_buf(). *)
AcquireBuf(p) ==
  /\ pc[p] = "held" /\ At(p, "none")
  /\ \E b \in Blocks, write \in BOOLEAN, v \in Val :
       LET e == Acquired(b) IN
       /\ ~write => v = 0
       /\ buf' = [buf EXCEPT ![e] = Referenced(e, b)]
       /\ io' = [io EXCEPT ![p] =
                   [at |-> IF Referenced(e, b).valid THEN "have" ELSE "submit",
                    write |-> write, block |-> b, val |-> v, buf |-> e, out |-> FALSE]]
  /\ UNCHANGED <<lru, sectors, free, avail, used, pending>>

(* The buffer is valid: copy it out, or fill it and write it to the disk. *)
Copy(p) ==
  /\ At(p, "have")
  /\ \/ ~io[p].write /\ IoGoto(p, "done") /\ UNCHANGED buf
     \/ /\ io[p].write
        /\ buf' = [buf EXCEPT ![io[p].buf].data = io[p].val]
        /\ io' = [io EXCEPT ![p].at = "submit", ![p].out = TRUE]
  /\ UNCHANGED <<lru, sectors, free, avail, used, pending>>

(* e is taken out of the list and put at its head. *)
MovedToFront(e) ==
  LET k == CHOOSE i \in Bufs : lru[i] = e
  IN  [i \in Bufs |-> IF i = 1 THEN e ELSE IF i <= k THEN lru[i - 1] ELSE lru[i]]

(* release_buf() *)
ReleaseBuf(p) ==
  LET e == io[p].buf IN
  /\ At(p, "done")
  /\ buf' = [buf EXCEPT ![e].refcnt = @ - 1]
  /\ lru' = IF buf[e].refcnt = 1 THEN MovedToFront(e) ELSE lru
  /\ io' = [io EXCEPT ![p] = NoIO]
  /\ UNCHANGED <<sectors, free, avail, used, pending>>
-----------------------------------------------------------------------------
(* The driver and the device *)

(* virtio_disk_rw() as far as sleep() *)
Submit(p) ==
  LET e == io[p].buf IN
  /\ At(p, "submit")
  /\ free >= 3
  /\ free' = free - 3
  /\ buf' = [buf EXCEPT ![e].busy = TRUE]
  /\ avail' = Append(avail, [buf |-> e, out |-> io[p].out])
  /\ IoGoto(p, "asleep")
  /\ UNCHANGED <<lru, sectors, used, pending>>

(* The device does the oldest request and raises its interrupt. *)
Device ==
  LET r == Head(avail)
      b == buf[r.buf].block
  IN
  /\ avail # <<>>
  /\ avail' = Tail(avail) /\ used' = Append(used, r.buf)
  /\ IF r.out THEN /\ sectors' = [sectors EXCEPT ![b] = buf[r.buf].data]
                   /\ UNCHANGED buf
              ELSE /\ buf' = [buf EXCEPT ![r.buf].data = sectors[b]]
                   /\ UNCHANGED sectors
  /\ pending' = TRUE
  /\ UNCHANGED <<io, lru, free>>

(* The buffers that the driver finds in the used ring *)
Finished == {used[i] : i \in DOMAIN used}

(* Faulty variant: the sleeper is not woken. *)
MutWokenUp(p) == FALSE
WokenUp(p) == At(p, "asleep") /\ io[p].buf \in Finished

(* virtio_disk_intr(), on whatever hart *)
Interrupt ==
  /\ pending
  /\ pending' = FALSE
  /\ buf' = [e \in Bufs |-> [buf[e] EXCEPT !.busy = @ /\ e \notin Finished]]
  /\ io' = [p \in Procs |-> IF WokenUp(p) THEN [io[p] EXCEPT !.at = "woken"] ELSE io[p]]
  /\ used' = <<>>
  /\ UNCHANGED <<lru, sectors, free, avail>>

(* kill() of a process that sleeps in the driver *)
KillSleeper(p) ==
  /\ Kills /\ At(p, "asleep")
  /\ IoGoto(p, "woken")
  /\ UNCHANGED <<buf, lru, sectors, free, avail, used, pending>>

(* Faulty variant: the request is taken for done. *)
MutBusy(e) == FALSE
Busy(e) == buf[e].busy

(* The end of virtio_disk_rw(), unless the wakeup was for another reason. *)
Return(p) ==
  LET e == io[p].buf IN
  /\ At(p, "woken")
  /\ \/ /\ Busy(e)
        /\ IoGoto(p, "asleep")
        /\ UNCHANGED <<buf, free>>
     \/ /\ ~Busy(e)
        /\ free' = free + 3
        /\ buf' = [buf EXCEPT ![e].valid = TRUE]
        /\ IoGoto(p, IF io[p].out THEN "done" ELSE "have")
  /\ UNCHANGED <<lru, sectors, avail, used, pending>>
-----------------------------------------------------------------------------
(* ff_rel_grant(): FatFs gives the volume back between two sectors. *)
Leave(p) == Unlock(p) /\ At(p, "none")

IoStep(p) == Copy(p) \/ ReleaseBuf(p) \/ Submit(p) \/ Return(p)

LockStep(p) == Step(p) /\ UNCHANGED diskVars
SectorStep(p) == IoStep(p) /\ UNCHANGED vars

DiskNext ==
  \/ \E p \in Procs : \/ (Want(p) \/ Leave(p) \/ Kill(p)) /\ UNCHANGED diskVars
                      \/ LockStep(p) \/ SectorStep(p)
                      \/ (AcquireBuf(p) \/ KillSleeper(p)) /\ UNCHANGED vars
  \/ (Device \/ Interrupt) /\ UNCHANGED vars

DiskSpec == DiskInit /\ [][DiskNext]_allVars

(* A hart that spins wins a lock that is free again and again; a process in  *)
(* the driver goes on, the device works, and its interrupt is taken.         *)
FairDiskSpec ==
  /\ DiskSpec
  /\ \A p \in Procs : SF_allVars(LockStep(p)) /\ WF_allVars(SectorStep(p))
  /\ WF_allVars(Device /\ UNCHANGED vars) /\ WF_allVars(Interrupt /\ UNCHANGED vars)
-----------------------------------------------------------------------------
(* Properties *)

InFlight == {avail[i].buf : i \in DOMAIN avail} \cup Finished

(* A process copies from and to a buffer only while it holds the sector it   *)
(* asked for, as it is on the disk, and no transfer is under way: neither a  *)
(* kill() that wakes it early nor the reuse of buffers may break that; a     *)
(* write is on the disk when it returns; and one sector is in one buffer.    *)
BlocksExact ==
  /\ \A e \in Bufs :
       /\ buf[e].valid /\ buf[e].refcnt = 0 => buf[e].data = sectors[buf[e].block]
       /\ \A d \in Bufs \ {e} : buf[e].block # 0 => buf[d].block # buf[e].block
       /\ buf[e].busy <=> e \in InFlight
  /\ \A p \in Procs : io[p].at \in {"have", "done"} =>
       LET b == buf[io[p].buf] IN
       /\ b.block = io[p].block /\ b.valid /\ ~b.busy /\ b.refcnt = 1
       /\ b.data = sectors[b.block]
       /\ At(p, "done") /\ io[p].write => b.data = io[p].val

(* disk_read() and disk_write() return: the interrupt finds whoever sleeps   *)
(* for it, and the descriptors come back.  (Only the holder of the volume is *)
(* in them, so that all are out whenever one returns.)                       *)
SectorsReturn == (\E p \in Procs : ~At(p, "none")) ~> \A p \in Procs : At(p, "none")

(* The volume is served: a free mutex does not stay free while somebody      *)
(* waits, and its holder does not wait for the disk for ever.                *)
VolumeServed == GrantedWhenFree /\ SectorsReturn
=============================================================================
