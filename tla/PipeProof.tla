----------------------------- MODULE PipeProof -----------------------------
(***************************************************************************)
(* Proofs about Pipe, for any number of readers and writers, any size of   *)
(* the ring and any width of the counters that the size divides.           *)
(***************************************************************************)
EXTENDS Pipe, SequenceTheorems, TLAPS

(* pi->lock is held in the loops of piperead() and pipewrite(), and nowhere *)
(* else between two steps.                                                  *)
InvLock == \A p \in Procs : lock = p <=> pc[p] \in {"w_loop", "r_loop"}

(* Only a process that holds an end is inside the pipe functions.           *)
InvEnds ==
  \A p \in Procs :
    /\ pc[p] \in WritePoints => "w" \in ends[p]
    /\ pc[p] \in ReadPoints => "r" \in ends[p] /\ left[p] > 0
    /\ "w" \in ends[p] => p \in Writers
    /\ "r" \in ends[p] => p \in Readers

(* An end is open as long as somebody holds it or is about to close it, and *)
(* the one who is about to close it is the last that held it.               *)
InvRead ==
  /\ readopen <=> \E p \in Procs : "r" \in ends[p] \/ pc[p] = "close_r"
  /\ \A p, q \in Procs : pc[p] = "close_r" =>
       "r" \notin ends[q] /\ (pc[q] = "close_r" => q = p)

InvWrite ==
  /\ writeopen <=> \E p \in Procs : "w" \in ends[p] \/ pc[p] = "close_w"
  /\ \A p, q \in Procs : pc[p] = "close_w" =>
       "w" \notin ends[q] /\ (pc[q] = "close_w" => q = p)

InvFreed == freed <=> ~readopen /\ ~writeopen

(* SleepersJustified with the lock held as well: a writer in its loop may   *)
(* have filled an empty pipe, and wakes the readers before it lets go.      *)
InvSleep ==
  \A p \in Procs :
    /\ pc[p] = "r_sleep" =>
         /\ writeopen
         /\ \/ nread = nwrite
            \/ \E w \in Writers : killed[w]
            \/ \E w \in Procs : pc[w] = "w_loop"
    /\ pc[p] = "w_sleep" => Full /\ readopen

IInv ==
  TypeOK /\ InvLock /\ InvEnds /\ InvRead /\ InvWrite /\ InvFreed /\ InvSleep

-----------------------------------------------------------------------------
(* The remainder is below the divisor.                                      *)
LEMMA ModRange ==
  ASSUME NEW n \in Nat \ {0}, NEW a \in Int
  PROVE  a % n \in 0 .. n - 1
  OBVIOUS

(* How far b is ahead of a, on counters that wrap at n.                     *)
LEMMA Distance ==
  ASSUME NEW n \in Nat \ {0}, NEW a \in 0 .. n - 1, NEW b \in 0 .. n - 1
  PROVE  (b - a) % n = IF a <= b THEN b - a ELSE b - a + n
  OBVIOUS

(* A counter that wraps at n wraps at most once when less than n is added.  *)
LEMMA AddWrap ==
  ASSUME NEW n \in Nat \ {0}, NEW a \in 0 .. n - 1, NEW k \in 0 .. n - 1
  PROVE  (a + k) % n = IF a + k < n THEN a + k ELSE a + k - n
  OBVIOUS

(* The number of bytes in the pipe, from the two counters: pipe.c subtracts *)
(* them as unsigned numbers.                                                *)
LEMMA UsedIs ==
  ASSUME nread \in 0 .. Mod - 1, nwrite \in 0 .. Mod - 1
  PROVE  Used = IF nread <= nwrite THEN nwrite - nread ELSE nwrite - nread + Mod
  BY PipeAssumption, Distance DEF Used

(* The test of pipewrite() for a full pipe is exact.                        *)
LEMMA FullIs ==
  ASSUME TypeOK
  PROVE  Full <=> Used = PIPESIZE
<1>1. nread \in 0 .. Mod - 1 /\ nwrite \in 0 .. Mod - 1
  BY DEF TypeOK
<1>2. PIPESIZE \in 0 .. Mod - 1 /\ Mod \in Nat \ {0}
  BY PipeAssumption
<1>3. Full <=> nwrite = IF nread + PIPESIZE < Mod THEN nread + PIPESIZE ELSE nread + PIPESIZE - Mod
  BY <1>1, <1>2, AddWrap DEF Full
<1>4. Used = IF nread <= nwrite THEN nwrite - nread ELSE nwrite - nread + Mod
  BY <1>1, UsedIs
<1>5. PIPESIZE > 0
  BY PipeAssumption
<1> QED  BY <1>1, <1>2, <1>3, <1>4, <1>5 

(* Moving nread forward by what is read takes that much out of the pipe.    *)
LEMMA ReadSizeIs ==
  ASSUME TypeOK, NEW size \in 0 .. Used, nread' = (nread + size) % Mod, nwrite' = nwrite
  PROVE  nread' \in 0 .. Mod - 1 /\ Used' = Used - size
<1>1. nread \in 0 .. Mod - 1 /\ nwrite \in 0 .. Mod - 1 /\ Used \in 0 .. PIPESIZE
  BY DEF TypeOK
<1>2. PIPESIZE \in 0 .. Mod - 1 /\ Mod \in Nat \ {0}
  BY PipeAssumption
<1>3. size \in 0 .. Mod - 1
  BY <1>1, <1>2
<1>4. nread' = IF nread + size < Mod THEN nread + size ELSE nread + size - Mod
  BY <1>1, <1>2, <1>3, AddWrap
<1>5. Used = IF nread <= nwrite THEN nwrite - nread ELSE nwrite - nread + Mod
  BY <1>1, UsedIs
<1>6. nread' \in 0 .. Mod - 1
  BY <1>1, <1>2, <1>4
<1>7. Used' = IF nread' <= nwrite' THEN nwrite' - nread' ELSE nwrite' - nread' + Mod
  BY <1>1, <1>2, <1>6, Distance DEF Used
<1> QED  BY <1>1, <1>2, <1>4, <1>5, <1>6, <1>7

(* Moving nwrite forward by what is written puts that much into the pipe.   *)
LEMMA WriteSizeIs ==
  ASSUME TypeOK, NEW size \in 0 .. PIPESIZE - Used, nwrite' = (nwrite + size) % Mod, nread' = nread
  PROVE  nwrite' \in 0 .. Mod - 1 /\ Used' = Used + size
<1>1. nread \in 0 .. Mod - 1 /\ nwrite \in 0 .. Mod - 1 /\ Used \in 0 .. PIPESIZE
  BY DEF TypeOK
<1>2. PIPESIZE \in 0 .. Mod - 1 /\ Mod \in Nat \ {0}
  BY PipeAssumption
<1>3. size \in 0 .. Mod - 1
  BY <1>1, <1>2
<1>4. nwrite' = IF nwrite + size < Mod THEN nwrite + size ELSE nwrite + size - Mod
  BY <1>1, <1>2, <1>3, AddWrap
<1>5. Used = IF nread <= nwrite THEN nwrite - nread ELSE nwrite - nread + Mod
  BY <1>1, UsedIs
<1>6. nwrite' \in 0 .. Mod - 1
  BY <1>1, <1>2, <1>4
<1>7. Used' = IF nread' <= nwrite' THEN nwrite' - nread' ELSE nwrite' - nread' + Mod
  BY <1>1, <1>2, <1>6, Distance DEF Used
<1> QED  BY <1>1, <1>2, <1>4, <1>5, <1>6, <1>7

(* The test of piperead() for an empty pipe is exact.                       *)
LEMMA EmptyIs ==
  ASSUME TypeOK
  PROVE  nread = nwrite <=> Used = 0
<1>1. nread \in 0 .. Mod - 1 /\ nwrite \in 0 .. Mod - 1
  BY DEF TypeOK
<1> QED  BY <1>1, UsedIs, PipeAssumption

-----------------------------------------------------------------------------
(* Every action keeps the inductive invariant: one lemma per action, one    *)
(* step per conjunct.                                                       *)

(* acquire(&pi->lock) in pipewrite(): the lock was free, and the caller     *)
(* holds the write end.                                                     *)
LEMMA CallWriteStep ==
  ASSUME IInv, NEW p \in Procs, CallWrite(p)
  PROVE  IInv'
<1> USE DEF CallWrite, Goto, WakeAll, WakeReaders, WakeWriters, pipeVars
<1>1. TypeOK'
  BY PipeAssumption DEF IInv, TypeOK, Used, Points, WritePoints, ReadPoints, ClosePoints
<1>2. InvLock'
  BY PipeAssumption DEF IInv, TypeOK, InvLock, WritePoints, ReadPoints
<1>3. InvEnds'
  BY PipeAssumption DEF IInv, TypeOK, InvEnds, WritePoints, ReadPoints
<1>4. InvRead'
  BY PipeAssumption DEF IInv, TypeOK, InvRead, WritePoints, ReadPoints
<1>5. InvWrite'
  BY PipeAssumption DEF IInv, TypeOK, InvWrite, WritePoints, ReadPoints
<1>6. InvFreed'
  BY PipeAssumption DEF IInv, TypeOK, InvFreed, WritePoints, ReadPoints
<1>7. InvSleep'
  BY PipeAssumption
     DEF IInv, TypeOK, InvSleep, InvLock, InvEnds, InvRead, InvWrite, Full, MustWait,
         ReadPoints, WritePoints
<1> QED  BY <1>1, <1>2, <1>3, <1>4, <1>5, <1>6, <1>7 DEF IInv

(* A writer that was woken takes the lock again, at the end of sleep().     *)
LEMMA WriteLockStep ==
  ASSUME IInv, NEW p \in Procs, WriteLock(p)
  PROVE  IInv'
<1> USE DEF WriteLock, Goto, WakeAll, WakeReaders, WakeWriters, pipeVars
<1>1. TypeOK'
  BY PipeAssumption DEF IInv, TypeOK, Used, Points, WritePoints, ReadPoints, ClosePoints
<1>2. InvLock'
  BY PipeAssumption DEF IInv, TypeOK, InvLock, WritePoints, ReadPoints
<1>3. InvEnds'
  BY PipeAssumption DEF IInv, TypeOK, InvEnds, WritePoints, ReadPoints
<1>4. InvRead'
  BY PipeAssumption DEF IInv, TypeOK, InvRead, WritePoints, ReadPoints
<1>5. InvWrite'
  BY PipeAssumption DEF IInv, TypeOK, InvWrite, WritePoints, ReadPoints
<1>6. InvFreed'
  BY PipeAssumption DEF IInv, TypeOK, InvFreed, WritePoints, ReadPoints
<1>7. InvSleep'
  BY PipeAssumption
     DEF IInv, TypeOK, InvSleep, InvLock, InvEnds, InvRead, InvWrite, Full, MustWait,
         ReadPoints, WritePoints
<1> QED  BY <1>1, <1>2, <1>3, <1>4, <1>5, <1>6, <1>7 DEF IInv

(* pipewrite() returns -1 without waking anybody: either no reader is left  *)
(* to sleep, or the writer is killed, which excuses the sleepers.           *)
LEMMA WriteFailsStep ==
  ASSUME IInv, NEW p \in Procs, WriteFails(p)
  PROVE  IInv'
<1> USE DEF WriteFails, Goto, WakeAll, WakeReaders, WakeWriters, pipeVars
<1>1. TypeOK'
  BY PipeAssumption DEF IInv, TypeOK, Used, Points, WritePoints, ReadPoints, ClosePoints
<1>2. InvLock'
  BY PipeAssumption DEF IInv, TypeOK, InvLock, WritePoints, ReadPoints
<1>3. InvEnds'
  BY PipeAssumption DEF IInv, TypeOK, InvEnds, WritePoints, ReadPoints
<1>4. InvRead'
  BY PipeAssumption DEF IInv, TypeOK, InvRead, WritePoints, ReadPoints
<1>5. InvWrite'
  BY PipeAssumption DEF IInv, TypeOK, InvWrite, WritePoints, ReadPoints
<1>6. InvFreed'
  BY PipeAssumption DEF IInv, TypeOK, InvFreed, WritePoints, ReadPoints
<1>7. InvSleep'
  BY PipeAssumption
     DEF IInv, TypeOK, InvSleep, InvLock, InvEnds, InvRead, InvWrite, Full, MustWait,
         ReadPoints, WritePoints
<1> QED  BY <1>1, <1>2, <1>3, <1>4, <1>5, <1>6, <1>7 DEF IInv

(* pipewrite() goes to sleep on a full pipe, and wakes every reader first.  *)
LEMMA WriteSleepsStep ==
  ASSUME IInv, NEW p \in Procs, WriteSleeps(p)
  PROVE  IInv'
<1> USE DEF WriteSleeps, Goto, WakeAll, WakeReaders, WakeWriters, pipeVars
<1>1. TypeOK'
  BY PipeAssumption DEF IInv, TypeOK, Used, Points, WritePoints, ReadPoints, ClosePoints
<1>2. InvLock'
  BY PipeAssumption DEF IInv, TypeOK, InvLock, WritePoints, ReadPoints
<1>3. InvEnds'
  BY PipeAssumption DEF IInv, TypeOK, InvEnds, WritePoints, ReadPoints
<1>4. InvRead'
  BY PipeAssumption DEF IInv, TypeOK, InvRead, WritePoints, ReadPoints
<1>5. InvWrite'
  BY PipeAssumption DEF IInv, TypeOK, InvWrite, WritePoints, ReadPoints
<1>6. InvFreed'
  BY PipeAssumption DEF IInv, TypeOK, InvFreed, WritePoints, ReadPoints
<1>7. InvSleep'
  BY PipeAssumption
     DEF IInv, TypeOK, InvSleep, InvLock, InvEnds, InvRead, InvWrite, Full, MustWait,
         ReadPoints, WritePoints
<1> QED  BY <1>1, <1>2, <1>3, <1>4, <1>5, <1>6, <1>7 DEF IInv

(* pipewrite() copies as much as fits: the counter wraps, the ring holds    *)
(* the new bytes, and no writer sleeps on a pipe that is not full.          *)
LEMMA WriteCopiesStep ==
  ASSUME IInv, NEW p \in Procs, WriteCopies(p)
  PROVE  IInv'
<1> USE DEF WriteCopies, Goto, WakeAll, WakeReaders, WakeWriters, pipeVars, Least
<1>1. TypeOK'
  <2> DEFINE size == Least(left[p], PIPESIZE - Used)
  <2>1. size \in 0 .. PIPESIZE - Used /\ size \in 0 .. left[p]
    BY SMTT(20), PipeAssumption DEF IInv, TypeOK
  <2>2. nwrite' = (nwrite + size) % Mod /\ nread' = nread /\ left' = [left EXCEPT ![p] = @ - size]
    OBVIOUS
  <2>3. UNCHANGED <<readopen, writeopen, freed, lock, ends, killed, pc, got>>
    OBVIOUS
  <2>4. data' \in [0 .. PIPESIZE - 1 -> Byte]
    <3>1. PICK chunk \in [0 .. size - 1 -> Byte] :
            data' = [k \in 0 .. PIPESIZE - 1 |->
                       LET j == (k - nwrite) % PIPESIZE IN
                       IF j < size THEN chunk[j] ELSE data[k]]
      OBVIOUS
    <3> HIDE DEF size, WriteCopies
    <3>2. ASSUME NEW k \in 0 .. PIPESIZE - 1
          PROVE  (k - nwrite) % PIPESIZE \in 0 .. PIPESIZE - 1
      <4>1. k - nwrite \in Int /\ PIPESIZE \in Nat \ {0}
        BY PipeAssumption DEF IInv, TypeOK
      <4> QED  BY <4>1, ModRange
    <3>3. /\ data \in [0 .. PIPESIZE - 1 -> Byte]
          /\ size \in Nat /\ PIPESIZE \in Nat
      BY <2>1, PipeAssumption DEF IInv, TypeOK
    <3>4. ASSUME NEW k \in 0 .. PIPESIZE - 1
          PROVE  data'[k] \in Byte
      <4> DEFINE j == (k - nwrite) % PIPESIZE
      <4>1. j \in 0 .. PIPESIZE - 1
        BY <3>2
      <4>2. data'[k] = IF j < size THEN chunk[j] ELSE data[k]
        BY <3>1
      <4> HIDE DEF j
      <4> QED  BY <4>1, <4>2, <3>1, <3>3
    <3> QED  BY <3>1, <3>4
  <2> HIDE DEF size, WriteCopies
  <2>5. nwrite' \in 0 .. Mod - 1 /\ Used' \in 0 .. PIPESIZE
    <3>1. nwrite' \in 0 .. Mod - 1 /\ Used' = Used + size
      BY <2>1, <2>2, WriteSizeIs DEF IInv
    <3>2. Used \in 0 .. PIPESIZE /\ PIPESIZE \in Nat
      BY PipeAssumption DEF IInv, TypeOK
        <3> QED  BY <2>1, <3>1, <3>2
  <2>6. left' \in [Procs -> 0 .. MaxN]
    BY <2>1, <2>2, PipeAssumption DEF IInv, TypeOK
  <2> QED  BY <2>2, <2>3, <2>4, <2>5, <2>6 DEF IInv, TypeOK
<1>2. InvLock'
  BY PipeAssumption DEF IInv, TypeOK, InvLock, WritePoints, ReadPoints
<1>3. InvEnds'
  BY PipeAssumption DEF IInv, TypeOK, InvEnds, WritePoints, ReadPoints
<1>4. InvRead'
  BY PipeAssumption DEF IInv, TypeOK, InvRead, WritePoints, ReadPoints
<1>5. InvWrite'
  BY PipeAssumption DEF IInv, TypeOK, InvWrite, WritePoints, ReadPoints
<1>6. InvFreed'
  BY PipeAssumption DEF IInv, TypeOK, InvFreed, WritePoints, ReadPoints
<1>7. InvSleep'
  BY PipeAssumption
     DEF IInv, TypeOK, InvSleep, InvLock, InvEnds, InvRead, InvWrite, Full, MustWait,
         ReadPoints, WritePoints
<1> QED  BY <1>1, <1>2, <1>3, <1>4, <1>5, <1>6, <1>7 DEF IInv

(* copyin() fails: the loop ends and nothing else changes.                  *)
LEMMA WriteFaultsStep ==
  ASSUME IInv, NEW p \in Procs, WriteFaults(p)
  PROVE  IInv'
<1> USE DEF WriteFaults, Goto, WakeAll, WakeReaders, WakeWriters, pipeVars
<1>1. TypeOK'
  BY PipeAssumption DEF IInv, TypeOK, Used, Points, WritePoints, ReadPoints, ClosePoints
<1>2. InvLock'
  BY PipeAssumption DEF IInv, TypeOK, InvLock, WritePoints, ReadPoints
<1>3. InvEnds'
  BY PipeAssumption DEF IInv, TypeOK, InvEnds, WritePoints, ReadPoints
<1>4. InvRead'
  BY PipeAssumption DEF IInv, TypeOK, InvRead, WritePoints, ReadPoints
<1>5. InvWrite'
  BY PipeAssumption DEF IInv, TypeOK, InvWrite, WritePoints, ReadPoints
<1>6. InvFreed'
  BY PipeAssumption DEF IInv, TypeOK, InvFreed, WritePoints, ReadPoints
<1>7. InvSleep'
  BY PipeAssumption
     DEF IInv, TypeOK, InvSleep, InvLock, InvEnds, InvRead, InvWrite, Full, MustWait,
         ReadPoints, WritePoints
<1> QED  BY <1>1, <1>2, <1>3, <1>4, <1>5, <1>6, <1>7 DEF IInv

(* pipewrite() is done and wakes every reader.                              *)
LEMMA WriteReturnsStep ==
  ASSUME IInv, NEW p \in Procs, WriteReturns(p)
  PROVE  IInv'
<1> USE DEF WriteReturns, Goto, WakeAll, WakeReaders, WakeWriters, pipeVars
<1>1. TypeOK'
  BY PipeAssumption DEF IInv, TypeOK, Used, Points, WritePoints, ReadPoints, ClosePoints
<1>2. InvLock'
  BY PipeAssumption DEF IInv, TypeOK, InvLock, WritePoints, ReadPoints
<1>3. InvEnds'
  BY PipeAssumption DEF IInv, TypeOK, InvEnds, WritePoints, ReadPoints
<1>4. InvRead'
  BY PipeAssumption DEF IInv, TypeOK, InvRead, WritePoints, ReadPoints
<1>5. InvWrite'
  BY PipeAssumption DEF IInv, TypeOK, InvWrite, WritePoints, ReadPoints
<1>6. InvFreed'
  BY PipeAssumption DEF IInv, TypeOK, InvFreed, WritePoints, ReadPoints
<1>7. InvSleep'
  BY PipeAssumption
     DEF IInv, TypeOK, InvSleep, InvLock, InvEnds, InvRead, InvWrite, Full, MustWait,
         ReadPoints, WritePoints
<1> QED  BY <1>1, <1>2, <1>3, <1>4, <1>5, <1>6, <1>7 DEF IInv

(* acquire(&pi->lock) in piperead(): the lock was free, and the caller      *)
(* holds the read end.                                                      *)
LEMMA CallReadStep ==
  ASSUME IInv, NEW p \in Procs, CallRead(p)
  PROVE  IInv'
<1> USE DEF CallRead, Goto, WakeAll, WakeReaders, WakeWriters, pipeVars
<1>1. TypeOK'
  BY PipeAssumption DEF IInv, TypeOK, Used, Points, WritePoints, ReadPoints, ClosePoints
<1>2. InvLock'
  BY PipeAssumption DEF IInv, TypeOK, InvLock, WritePoints, ReadPoints
<1>3. InvEnds'
  BY PipeAssumption DEF IInv, TypeOK, InvEnds, WritePoints, ReadPoints
<1>4. InvRead'
  BY PipeAssumption DEF IInv, TypeOK, InvRead, WritePoints, ReadPoints
<1>5. InvWrite'
  BY PipeAssumption DEF IInv, TypeOK, InvWrite, WritePoints, ReadPoints
<1>6. InvFreed'
  BY PipeAssumption DEF IInv, TypeOK, InvFreed, WritePoints, ReadPoints
<1>7. InvSleep'
  BY PipeAssumption
     DEF IInv, TypeOK, InvSleep, InvLock, InvEnds, InvRead, InvWrite, Full, MustWait,
         ReadPoints, WritePoints
<1> QED  BY <1>1, <1>2, <1>3, <1>4, <1>5, <1>6, <1>7 DEF IInv

(* A reader that was woken takes the lock again, at the end of sleep().     *)
LEMMA ReadLockStep ==
  ASSUME IInv, NEW p \in Procs, ReadLock(p)
  PROVE  IInv'
<1> USE DEF ReadLock, Goto, WakeAll, WakeReaders, WakeWriters, pipeVars
<1>1. TypeOK'
  BY PipeAssumption DEF IInv, TypeOK, Used, Points, WritePoints, ReadPoints, ClosePoints
<1>2. InvLock'
  BY PipeAssumption DEF IInv, TypeOK, InvLock, WritePoints, ReadPoints
<1>3. InvEnds'
  BY PipeAssumption DEF IInv, TypeOK, InvEnds, WritePoints, ReadPoints
<1>4. InvRead'
  BY PipeAssumption DEF IInv, TypeOK, InvRead, WritePoints, ReadPoints
<1>5. InvWrite'
  BY PipeAssumption DEF IInv, TypeOK, InvWrite, WritePoints, ReadPoints
<1>6. InvFreed'
  BY PipeAssumption DEF IInv, TypeOK, InvFreed, WritePoints, ReadPoints
<1>7. InvSleep'
  <2>1. Full' = Full /\ UNCHANGED <<nread, nwrite>>
    BY DEF Full
  <2>2. /\ lock = None /\ pc[p] = "r_woken"
        /\ \A q \in Procs : pc'[q] = IF q = p THEN "r_loop" ELSE pc[q]
    BY DEF IInv, TypeOK
  <2>3. UNCHANGED <<readopen, writeopen, killed>>
    OBVIOUS
  <2> HIDE DEF ReadLock
  <2> QED  BY <2>1, <2>2, <2>3, PipeAssumption DEF IInv, InvSleep
<1> QED  BY <1>1, <1>2, <1>3, <1>4, <1>5, <1>6, <1>7 DEF IInv

(* piperead() returns -1 for a killed reader: the pipe is empty, so nobody  *)
(* sleeps for it to be read.                                                *)
LEMMA ReadKilledStep ==
  ASSUME IInv, NEW p \in Procs, ReadKilled(p)
  PROVE  IInv'
<1> USE DEF ReadKilled, Goto, WakeAll, WakeReaders, WakeWriters, pipeVars
<1>1. TypeOK'
  BY PipeAssumption DEF IInv, TypeOK, Used, Points, WritePoints, ReadPoints, ClosePoints
<1>2. InvLock'
  BY PipeAssumption DEF IInv, TypeOK, InvLock, WritePoints, ReadPoints
<1>3. InvEnds'
  BY PipeAssumption DEF IInv, TypeOK, InvEnds, WritePoints, ReadPoints
<1>4. InvRead'
  BY PipeAssumption DEF IInv, TypeOK, InvRead, WritePoints, ReadPoints
<1>5. InvWrite'
  BY PipeAssumption DEF IInv, TypeOK, InvWrite, WritePoints, ReadPoints
<1>6. InvFreed'
  BY PipeAssumption DEF IInv, TypeOK, InvFreed, WritePoints, ReadPoints
<1>7. InvSleep'
  BY PipeAssumption
     DEF IInv, TypeOK, InvSleep, InvLock, InvEnds, InvRead, InvWrite, Full, MustWait,
         ReadPoints, WritePoints
<1> QED  BY <1>1, <1>2, <1>3, <1>4, <1>5, <1>6, <1>7 DEF IInv

(* piperead() goes to sleep on an empty pipe that somebody can still write. *)
LEMMA ReadSleepsStep ==
  ASSUME IInv, NEW p \in Procs, ReadSleeps(p)
  PROVE  IInv'
<1> USE DEF ReadSleeps, Goto, WakeAll, WakeReaders, WakeWriters, pipeVars
<1>1. TypeOK'
  BY PipeAssumption DEF IInv, TypeOK, Used, Points, WritePoints, ReadPoints, ClosePoints
<1>2. InvLock'
  BY PipeAssumption DEF IInv, TypeOK, InvLock, WritePoints, ReadPoints
<1>3. InvEnds'
  BY PipeAssumption DEF IInv, TypeOK, InvEnds, WritePoints, ReadPoints
<1>4. InvRead'
  BY PipeAssumption DEF IInv, TypeOK, InvRead, WritePoints, ReadPoints
<1>5. InvWrite'
  BY PipeAssumption DEF IInv, TypeOK, InvWrite, WritePoints, ReadPoints
<1>6. InvFreed'
  BY PipeAssumption DEF IInv, TypeOK, InvFreed, WritePoints, ReadPoints
<1>7. InvSleep'
  BY PipeAssumption
     DEF IInv, TypeOK, InvSleep, InvLock, InvEnds, InvRead, InvWrite, Full, MustWait,
         ReadPoints, WritePoints
<1> QED  BY <1>1, <1>2, <1>3, <1>4, <1>5, <1>6, <1>7 DEF IInv

(* piperead() takes what there is, and wakes every writer. It never runs on *)
(* an empty pipe that can be written, so a reader asleep is one behind a    *)
(* killed writer.                                                           *)
LEMMA ReadCopiesStep ==
  ASSUME IInv, NEW p \in Procs, ReadCopies(p)
  PROVE  IInv'
<1> USE DEF ReadCopies, Goto, WakeAll, WakeReaders, WakeWriters, pipeVars, Least
<1>1. TypeOK'
  <2> DEFINE size == Least(left[p], Used)
  <2>1. size \in 0 .. Used
    BY PipeAssumption DEF IInv, TypeOK
  <2>2. nread' = (nread + size) % Mod /\ nwrite' = nwrite
    OBVIOUS
  <2>3. got' \in Seq(Byte) /\ Len(got') <= PIPESIZE
    <3>1. CASE got' = [j \in 1 .. size |-> data[(nread + j - 1) % PIPESIZE]]
      <4> HIDE DEF size, ReadCopies
      <4>1. ASSUME NEW j \in 1 .. size
            PROVE  (nread + j - 1) % PIPESIZE \in 0 .. PIPESIZE - 1
        <5>1. nread + j - 1 \in Int /\ PIPESIZE \in Nat \ {0}
          BY PipeAssumption, <2>1 DEF IInv, TypeOK
        <5> QED  BY <5>1, ModRange
      <4>2. size \in Nat /\ size <= PIPESIZE
        BY <2>1, PipeAssumption DEF IInv, TypeOK
      <4>3. data \in [0 .. PIPESIZE - 1 -> Byte]
        BY DEF IInv, TypeOK
      <4>4. got' \in [1 .. size -> Byte]
        BY <3>1, <4>1, <4>3
      <4> QED  BY <4>2, <4>4
    <3>2. CASE got' = <<>>
      BY <3>2, PipeAssumption
    <3> QED  BY <3>1, <3>2
  <2>4. nread' \in 0 .. Mod - 1 /\ Used' \in 0 .. PIPESIZE
    <3> HIDE DEF size, ReadCopies
    <3>1. nread' \in 0 .. Mod - 1 /\ Used' = Used - size
      BY <2>1, <2>2, ReadSizeIs DEF IInv
    <3>2. Used \in 0 .. PIPESIZE /\ PIPESIZE \in Nat
      BY PipeAssumption DEF IInv, TypeOK
    <3> QED  BY <2>1, <3>1, <3>2
  <2> HIDE DEF size
  <2>5. pc' \in [Procs -> Points] /\ left' \in [Procs -> 0 .. MaxN]
    BY PipeAssumption DEF IInv, TypeOK, Points, ReadPoints, WritePoints
  <2> QED  BY <2>2, <2>3, <2>4, <2>5 DEF IInv, TypeOK
<1>2. InvLock'
  BY PipeAssumption DEF IInv, TypeOK, InvLock, WritePoints, ReadPoints
<1>3. InvEnds'
  BY PipeAssumption DEF IInv, TypeOK, InvEnds, WritePoints, ReadPoints
<1>4. InvRead'
  BY PipeAssumption DEF IInv, TypeOK, InvRead, WritePoints, ReadPoints
<1>5. InvWrite'
  BY PipeAssumption DEF IInv, TypeOK, InvWrite, WritePoints, ReadPoints
<1>6. InvFreed'
  BY PipeAssumption DEF IInv, TypeOK, InvFreed, WritePoints, ReadPoints
<1>7. InvSleep'
  BY PipeAssumption
     DEF IInv, TypeOK, InvSleep, InvLock, InvEnds, InvRead, InvWrite, Full, MustWait,
         ReadPoints, WritePoints
<1> QED  BY <1>1, <1>2, <1>3, <1>4, <1>5, <1>6, <1>7 DEF IInv

(* fileclose() gives up one end; the last holder goes on to pipeclose().    *)
LEMMA CloseStep ==
  ASSUME IInv, NEW p \in Procs, Close(p)
  PROVE  IInv'
<1> USE DEF Close, Goto, WakeAll, WakeReaders, WakeWriters, pipeVars
<1>1. TypeOK'
  BY PipeAssumption DEF IInv, TypeOK, Used, Points, WritePoints, ReadPoints, ClosePoints
<1>2. InvLock'
  BY PipeAssumption DEF IInv, TypeOK, InvLock, WritePoints, ReadPoints
<1>3. InvEnds'
  BY PipeAssumption DEF IInv, TypeOK, InvEnds, WritePoints, ReadPoints
<1>4. InvRead'
  BY PipeAssumption DEF IInv, TypeOK, InvRead, WritePoints, ReadPoints
<1>5. InvWrite'
  BY PipeAssumption DEF IInv, TypeOK, InvWrite, WritePoints, ReadPoints
<1>6. InvFreed'
  BY PipeAssumption DEF IInv, TypeOK, InvFreed, WritePoints, ReadPoints
<1>7. InvSleep'
  BY PipeAssumption
     DEF IInv, TypeOK, InvSleep, InvLock, InvEnds, InvRead, InvWrite, Full, MustWait,
         ReadPoints, WritePoints
<1> QED  BY <1>1, <1>2, <1>3, <1>4, <1>5, <1>6, <1>7 DEF IInv

(* pipeclose() of the write end wakes every reader, and frees the page if   *)
(* the read end is closed.                                                  *)
LEMMA PipeCloseWriteStep ==
  ASSUME IInv, NEW p \in Procs, PipeCloseWrite(p)
  PROVE  IInv'
<1> USE DEF PipeCloseWrite, Goto, WakeAll, WakeReaders, WakeWriters, pipeVars
<1>1. TypeOK'
  BY PipeAssumption DEF IInv, TypeOK, Used, Points, WritePoints, ReadPoints, ClosePoints
<1>2. InvLock'
  BY PipeAssumption DEF IInv, TypeOK, InvLock, WritePoints, ReadPoints
<1>3. InvEnds'
  BY PipeAssumption DEF IInv, TypeOK, InvEnds, WritePoints, ReadPoints
<1>4. InvRead'
  BY PipeAssumption DEF IInv, TypeOK, InvRead, WritePoints, ReadPoints
<1>5. InvWrite'
  BY PipeAssumption DEF IInv, TypeOK, InvWrite, WritePoints, ReadPoints
<1>6. InvFreed'
  BY PipeAssumption DEF IInv, TypeOK, InvFreed, WritePoints, ReadPoints
<1>7. InvSleep'
  BY PipeAssumption
     DEF IInv, TypeOK, InvSleep, InvLock, InvEnds, InvRead, InvWrite, Full, MustWait,
         ReadPoints, WritePoints
<1> QED  BY <1>1, <1>2, <1>3, <1>4, <1>5, <1>6, <1>7 DEF IInv

(* pipeclose() of the read end wakes every writer, and frees the page if    *)
(* the write end is closed.                                                 *)
LEMMA PipeCloseReadStep ==
  ASSUME IInv, NEW p \in Procs, PipeCloseRead(p)
  PROVE  IInv'
<1> USE DEF PipeCloseRead, Goto, WakeAll, WakeReaders, WakeWriters, pipeVars
<1>1. TypeOK'
  BY PipeAssumption DEF IInv, TypeOK, Used, Points, WritePoints, ReadPoints, ClosePoints
<1>2. InvLock'
  BY PipeAssumption DEF IInv, TypeOK, InvLock, WritePoints, ReadPoints
<1>3. InvEnds'
  BY PipeAssumption DEF IInv, TypeOK, InvEnds, WritePoints, ReadPoints
<1>4. InvRead'
  BY PipeAssumption DEF IInv, TypeOK, InvRead, WritePoints, ReadPoints
<1>5. InvWrite'
  BY PipeAssumption DEF IInv, TypeOK, InvWrite, WritePoints, ReadPoints
<1>6. InvFreed'
  BY PipeAssumption DEF IInv, TypeOK, InvFreed, WritePoints, ReadPoints
<1>7. InvSleep'
  BY PipeAssumption
     DEF IInv, TypeOK, InvSleep, InvLock, InvEnds, InvRead, InvWrite, Full, MustWait,
         ReadPoints, WritePoints
<1> QED  BY <1>1, <1>2, <1>3, <1>4, <1>5, <1>6, <1>7 DEF IInv

(* kill() makes a sleeper runnable, and excuses the sleepers if it hits a   *)
(* writer.                                                                  *)
LEMMA KillStep ==
  ASSUME IInv, NEW p \in Procs, Kill(p)
  PROVE  IInv'
<1> USE DEF Kill, Goto, WakeAll, WakeReaders, WakeWriters, pipeVars
<1>1. TypeOK'
  BY PipeAssumption DEF IInv, TypeOK, Used, Points, WritePoints, ReadPoints, ClosePoints
<1>2. InvLock'
  BY PipeAssumption DEF IInv, TypeOK, InvLock, WritePoints, ReadPoints
<1>3. InvEnds'
  BY PipeAssumption DEF IInv, TypeOK, InvEnds, WritePoints, ReadPoints
<1>4. InvRead'
  BY PipeAssumption DEF IInv, TypeOK, InvRead, WritePoints, ReadPoints
<1>5. InvWrite'
  BY PipeAssumption DEF IInv, TypeOK, InvWrite, WritePoints, ReadPoints
<1>6. InvFreed'
  BY PipeAssumption DEF IInv, TypeOK, InvFreed, WritePoints, ReadPoints
<1>7. InvSleep'
  <2>1. Full' = Full /\ UNCHANGED <<nread, nwrite>>
    BY DEF Full
  <2>2. \A q \in Procs : /\ pc'[q] = pc[q] \/ pc'[q] \in {"r_woken", "w_woken"}
                         /\ pc[q] = "w_loop" => pc'[q] = "w_loop"
    BY DEF IInv, TypeOK
  <2>3. UNCHANGED <<readopen, writeopen>> /\ \A q \in Procs : killed[q] => killed'[q]
    BY DEF IInv, TypeOK
  <2> HIDE DEF Kill
  <2> QED  BY <2>1, <2>2, <2>3 DEF IInv, InvSleep, Procs
<1> QED  BY <1>1, <1>2, <1>3, <1>4, <1>5, <1>6, <1>7 DEF IInv

-----------------------------------------------------------------------------
(* The state after pipealloc().                                             *)
LEMMA InitIInv == Init => IInv
<1> SUFFICES ASSUME Init
             PROVE  IInv
  OBVIOUS
<1>1. Used = 0
  BY PipeAssumption, UsedIs DEF Init
<1>2. TypeOK
  BY <1>1, PipeAssumption DEF Init, TypeOK, Points
<1>3. InvLock /\ InvEnds /\ InvFreed /\ InvSleep
  BY PipeAssumption
     DEF Init, InvLock, InvEnds, InvFreed, InvSleep, Procs, WritePoints, ReadPoints
<1>4. InvRead
  <2>1. PICK r \in Readers : TRUE
    BY PipeAssumption
  <2>2. r \in Procs /\ "r" \in ends[r]
    BY <2>1 DEF Init, Procs
  <2> QED  BY <2>2 DEF Init, InvRead
<1>5. InvWrite
  <2>1. PICK w \in Writers : TRUE
    BY PipeAssumption
  <2>2. w \in Procs /\ "w" \in ends[w]
    BY <2>1 DEF Init, Procs
  <2> QED  BY <2>2 DEF Init, InvWrite
<1> QED  BY <1>2, <1>3, <1>4, <1>5 DEF IInv

(* Every step of the system keeps the inductive invariant.                  *)
LEMMA NextIInv == IInv /\ [Next]_vars => IInv'
<1> SUFFICES ASSUME IInv, [Next]_vars
             PROVE  IInv'
  OBVIOUS
<1>1. CASE UNCHANGED vars
  BY <1>1 DEF vars, pipeVars, IInv, TypeOK, Used, InvLock, InvEnds, InvRead, InvWrite, InvFreed,
              InvSleep, Full
<1>2. ASSUME NEW p \in Procs, CallWrite(p) \/ CallRead(p) \/ Close(p) \/ Step(p) \/ Kill(p)
      PROVE  IInv'
  BY <1>2, CallWriteStep, WriteLockStep, WriteFailsStep, WriteSleepsStep, WriteCopiesStep,
     WriteFaultsStep, WriteReturnsStep, CallReadStep, ReadLockStep, ReadKilledStep,
     ReadSleepsStep, ReadCopiesStep, CloseStep, PipeCloseWriteStep, PipeCloseReadStep, KillStep
  DEF Step
<1> QED  BY <1>1, <1>2 DEF Next, Idle

(* The invariants together hold in every reachable state.                   *)
THEOREM Invariance == Spec => []IInv
  BY InitIInv, NextIInv, PTL DEF Spec

(* Every variable has its type, and the ring never holds more than PIPESIZE *)
(* bytes.                                                                   *)
THEOREM TypeCorrect == Spec => []TypeOK
<1>1. IInv => TypeOK
  BY DEF IInv
<1> QED  BY <1>1, Invariance, PTL

(* The page is freed only when nobody is, or can get, inside the pipe       *)
(* functions.                                                               *)
THEOREM NoUseAfterFreeHolds == Spec => []NoUseAfterFree
<1>1. IInv => NoUseAfterFree
  <2> SUFFICES ASSUME IInv, freed, NEW p \in Procs
               PROVE  ends[p] = {} /\ pc[p] = "user"
    BY DEF NoUseAfterFree
  <2>1. "r" \notin ends[p] /\ pc[p] # "close_r"
    BY DEF IInv, InvFreed, InvRead
  <2>2. "w" \notin ends[p] /\ pc[p] # "close_w"
    BY DEF IInv, InvFreed, InvWrite
  <2>3. ends[p] = {}
    BY <2>1, <2>2 DEF IInv, TypeOK
  <2>4. pc[p] = "user"
    BY <2>1, <2>2 DEF IInv, TypeOK, InvEnds, Points, ReadPoints, WritePoints, ClosePoints
  <2> QED  BY <2>3, <2>4
<1> QED  BY <1>1, Invariance, PTL

(* Nobody sleeps in the pipe without a reason, but behind a killed writer.  *)
THEOREM SleepersJustifiedHolds == Spec => []SleepersJustified
<1>1. IInv => SleepersJustified
  <2> SUFFICES ASSUME IInv, lock = None
               PROVE  SleepersJustified
    BY DEF SleepersJustified
  <2>1. \A w \in Procs : pc[w] # "w_loop"
    BY PipeAssumption DEF IInv, InvLock
  <2> QED  BY <2>1 DEF IInv, InvSleep, SleepersJustified
<1> QED  BY <1>1, Invariance, PTL

-----------------------------------------------------------------------------
(* The remainder is the only number below the divisor that leaves a         *)
(* multiple of it.                                                          *)
LEMMA ModUnique ==
  ASSUME NEW n \in Nat \ {0}, NEW a \in Int, NEW d \in Int, NEW r \in 0 .. n - 1, a = n * d + r
  PROVE  a % n = r
  BY SMTT(30)

(* A number is a multiple of the divisor and its remainder.                 *)
LEMMA Quotient ==
  ASSUME NEW n \in Nat \ {0}, NEW a \in Int
  PROVE  \E d \in Int : a = n * d + (a % n)
<1>1. a \div n \in Int /\ a = n * (a \div n) + (a % n)
  BY SMTT(20)
<1> QED  BY Zenon, <1>1

(* A number without remainder is a multiple of the divisor.                 *)
LEMMA Multiple ==
  ASSUME NEW n \in Nat \ {0}, NEW a \in Int, a % n = 0
  PROVE  \E m \in Int : a = n * m
<1>1. PICK m \in Int : a = n * m + (a % n)
  BY Quotient
<1> DEFINE r == a % n
<1>2. r = 0 /\ a = n * m + r
  BY <1>1
<1> HIDE DEF r
<1> QED  BY <1>2

(* The remainder does not see multiples of the divisor.                     *)
LEMMA ModShift ==
  ASSUME NEW n \in Nat \ {0}, NEW a \in Int, NEW k \in Int
  PROVE  (a + n * k) % n = a % n
<1> DEFINE r == a % n
<1>1. PICK d \in Int : a = n * d + r
  BY Quotient
<1>2. r \in 0 .. n - 1 /\ d \in Int /\ a = n * d + r
  BY <1>1, ModRange
<1> HIDE DEF r
<1>3. a + n * k = n * (d + k) + r /\ d + k \in Int /\ a + n * k \in Int
  BY <1>2
<1>4. (a + n * k) % n = r
  BY <1>2, <1>3, ModUnique
<1> QED  BY <1>4 DEF r

(* A counter that wraps at Mod runs through the ring without a jump.        *)
LEMMA RingWraps ==
  ASSUME NEW a \in 0 .. Mod - 1, NEW k \in 0 .. PIPESIZE, NEW c \in Int
  PROVE  (((a + k) % Mod) + c) % PIPESIZE = (a + k + c) % PIPESIZE
<1>1. PIPESIZE \in Nat \ {0} /\ Mod \in Nat \ {0} /\ PIPESIZE \in 0 .. Mod - 1
  BY PipeAssumption
<1>2. PICK m \in Int : Mod = PIPESIZE * m
  <2>1. PIPESIZE \in Nat \ {0} /\ Mod \in Int
    BY <1>1
  <2>2. Mod % PIPESIZE = 0
    BY PipeAssumption
  <2> QED  BY Zenon, <2>1, <2>2, Multiple
<1>3. k \in 0 .. Mod - 1 /\ a + k + c \in Int /\ a + k \in Int
  BY <1>1
<1>4. (a + k) % Mod = IF a + k < Mod THEN a + k ELSE a + k - Mod
  BY <1>1, <1>3, AddWrap
<1>5. CASE a + k < Mod
  BY <1>4, <1>5
<1>6. CASE ~(a + k < Mod)
  <2>1. ((a + k) % Mod) + c = (a + k + c) + PIPESIZE * (0 - m)
    BY <1>1, <1>2, <1>3, <1>4, <1>6
  <2>2. ((a + k + c) + PIPESIZE * (0 - m)) % PIPESIZE = (a + k + c) % PIPESIZE
    <3>1. PIPESIZE \in Nat \ {0} /\ a + k + c \in Int /\ 0 - m \in Int
      BY <1>1, <1>3, <1>2
    <3> QED  BY Zenon, <3>1, ModShift
  <2> QED  BY <2>1, <2>2
<1> QED  BY <1>5, <1>6

(* Where pipewrite() finds the j-th byte of the stream when it counts from  *)
(* nwrite.                                                                  *)
LEMMA Slot ==
  ASSUME TypeOK, NEW j \in 1 .. PIPESIZE
  PROVE  (((nread + j - 1) % PIPESIZE) - nwrite) % PIPESIZE =
           IF j <= Used THEN j - 1 - Used + PIPESIZE ELSE j - 1 - Used
<1> DEFINE P == PIPESIZE
           x == nread + j - 1
           u == Used
           r == x % P
<1>1. P \in Nat \ {0} /\ Mod \in Nat \ {0} /\ x \in Int
  BY PipeAssumption DEF TypeOK
<1>2. PICK m \in Int : Mod = P * m
  <2>1. P \in Nat \ {0} /\ Mod \in Int
    BY <1>1
  <2>2. Mod % P = 0
    BY PipeAssumption
  <2> QED  BY Zenon, <2>1, <2>2, Multiple
<1>3. u \in 0 .. P /\ nread \in Int /\ nwrite \in Int
  BY PipeAssumption DEF TypeOK
<1>4. PICK w \in Int : nwrite = nread + u + P * w
  <2>1. nwrite = nread + u \/ nwrite = nread + u - Mod
    BY UsedIs, PipeAssumption DEF TypeOK
  <2>2. CASE nwrite = nread + u
    BY <1>1, <1>3, <2>2
  <2>3. CASE nwrite = nread + u - Mod
    <3>1. nwrite = nread + u + P * (0 - m) /\ 0 - m \in Int
      BY <1>1, <1>2, <1>3, <2>3
    <3> QED  BY <3>1
  <2> QED  BY <2>1, <2>2, <2>3
<1>5. PICK d \in Int : x = P * d + r
  BY <1>1, Quotient
<1>6. r \in 0 .. P - 1 /\ d \in Int /\ x = P * d + r
  BY <1>1, <1>5, ModRange
<1> HIDE DEF u, r, P
<1>7. r - nwrite = (j - 1 - u) + P * (0 - d - w) /\ j - 1 - u \in Int /\ 0 - d - w \in Int
  BY <1>1, <1>3, <1>4, <1>6
<1>8. (r - nwrite) % P = (j - 1 - u) % P
  <2>1. ((j - 1 - u) + P * (0 - d - w)) % P = (j - 1 - u) % P
    BY <1>1, <1>7, ModShift
  <2> QED  BY <1>7, <2>1
<1>9. CASE j <= u
  <2>1. j - 1 - u = P * (0 - 1) + (j - 1 - u + P) /\ j - 1 - u + P \in 0 .. P - 1 /\ 0 - 1 \in Int
    BY <1>1, <1>3, <1>9 DEF P
  <2>2. (j - 1 - u) % P = j - 1 - u + P
    BY <1>1, <1>7, <2>1, ModUnique
  <2> QED  BY <1>8, <1>9, <2>2 DEF P, u, r
<1>10. CASE ~(j <= u)
  <2>1. j - 1 - u = P * 0 + (j - 1 - u) /\ j - 1 - u \in 0 .. P - 1
    BY <1>1, <1>3, <1>10 DEF P
  <2>2. (j - 1 - u) % P = j - 1 - u
    BY <1>1, <1>7, <2>1, ModUnique
  <2> QED  BY <1>8, <1>10, <2>2 DEF P, u, r
<1> QED  BY <1>9, <1>10

(* The bytes in the pipe, in the order in which they are read.              *)
Stream == [j \in 1 .. Used |-> data[(nread + j - 1) % PIPESIZE]]

(* Whatever the counter, the slot it leads to holds a byte.                 *)
LEMMA RingBytes ==
  ASSUME NEW f \in [0 .. PIPESIZE - 1 -> Byte], NEW a \in Int, NEW j \in Int
  PROVE  f[(a + j - 1) % PIPESIZE] \in Byte
<1>1. PIPESIZE \in Nat \ {0} /\ a + j - 1 \in Int
  BY PipeAssumption
<1>2. (a + j - 1) % PIPESIZE \in 0 .. PIPESIZE - 1
  BY <1>1, ModRange
<1> QED  BY <1>2

(* pipewrite() appends what it copies to the stream.                        *)
LEMMA WriteSends ==
  ASSUME IInv, NEW p \in Procs, WriteCopies(p)
  PROVE  \E n \in 1 .. PIPESIZE - Len(Stream) : \E s \in [1 .. n -> Byte] : Stream' = Stream \o s
<1> DEFINE size == Least(left[p], PIPESIZE - Used)
<1>1. PIPESIZE \in Nat \ {0} /\ Used \in 0 .. PIPESIZE /\ left[p] \in Nat /\ left[p] > 0
  BY PipeAssumption DEF IInv, TypeOK, WriteCopies
<1>2. Used # PIPESIZE
  BY FullIs DEF IInv, WriteCopies
<1>3. size \in 1 .. PIPESIZE - Used
  BY <1>1, <1>2 DEF Least
<1>4. PICK chunk \in [0 .. size - 1 -> Byte] :
        data' = [k \in 0 .. PIPESIZE - 1 |->
                   LET j == (k - nwrite) % PIPESIZE IN
                   IF j < size THEN chunk[j] ELSE data[k]]
  BY DEF WriteCopies
<1>5. nwrite' = (nwrite + size) % Mod /\ nread' = nread
  BY DEF WriteCopies
<1> HIDE DEF size
<1>6. Used' = Used + size
  BY <1>1, <1>3, <1>5, WriteSizeIs DEF IInv
<1>7. nread \in Int /\ data \in [0 .. PIPESIZE - 1 -> Byte] /\ data' \in [0 .. PIPESIZE - 1 -> Byte]
  BY WriteCopiesStep, PipeAssumption DEF IInv, TypeOK
<1> DEFINE s == [j \in 1 .. size |-> chunk[j - 1]]
           At(j) == (nread + j - 1) % PIPESIZE
<1>8. s \in [1 .. size -> Byte] /\ s \in Seq(Byte) /\ Len(s) = size
  BY <1>1, <1>3, <1>4
<1>9. Stream \in Seq(Byte) /\ Len(Stream) = Used /\ \A j \in 1 .. Used : Stream[j] = data[At(j)]
  <2>1. ASSUME NEW j \in 1 .. Used
        PROVE  data[At(j)] \in Byte
    <3>1. j \in Int
      OBVIOUS
    <3> QED  BY Zenon, <1>7, <3>1, RingBytes
  <2>2. Stream = [j \in 1 .. Used |-> data[At(j)]]
    BY DEF Stream
  <2> HIDE DEF At
  <2>3. Stream \in [1 .. Used -> Byte] /\ \A j \in 1 .. Used : Stream[j] = data[At(j)]
    BY <2>1, <2>2
  <2> QED  BY <1>1, <2>3
<1>10. /\ Stream' \in Seq(Byte) /\ Len(Stream') = Used + size
       /\ \A j \in 1 .. Used + size : Stream'[j] = data'[At(j)]
  <2>1. Stream' = [j \in 1 .. Used + size |-> data'[At(j)]]
    BY <1>5, <1>6 DEF Stream
  <2>2. Used + size \in Nat
    BY <1>1, <1>3
  <2>3. ASSUME NEW j \in 1 .. Used + size
        PROVE  data'[At(j)] \in Byte
    <3>1. j \in Int
      OBVIOUS
    <3> QED  BY Zenon, <1>7, <3>1, RingBytes
  <2> HIDE DEF At
  <2>4. /\ Stream' \in [1 .. Used + size -> Byte]
        /\ \A j \in 1 .. Used + size : Stream'[j] = data'[At(j)]
    BY <2>1, <2>3
  <2> QED  BY <2>2, <2>4
<1>11. ASSUME NEW j \in 1 .. Used + size
       PROVE  data'[At(j)] = IF j <= Used THEN data[At(j)] ELSE s[j - Used]
  <2> DEFINE k == At(j)
             i == (k - nwrite) % PIPESIZE
  <2>1. j \in 1 .. PIPESIZE /\ nread + j - 1 \in Int
    BY <1>1, <1>3, <1>7
  <2>2. i = IF j <= Used THEN j - 1 - Used + PIPESIZE ELSE j - 1 - Used
    BY <2>1, Slot DEF IInv
  <2>3. k \in 0 .. PIPESIZE - 1
    BY <1>1, <2>1, ModRange
  <2>4. data'[k] = IF i < size THEN chunk[i] ELSE data[k]
    BY <1>4, <2>3
  <2> HIDE DEF i, k
  <2>5. CASE j <= Used
    <3>1. ~(i < size)
      BY <1>1, <1>3, <2>1, <2>2, <2>5
    <3> QED  BY <2>4, <2>5, <3>1 DEF k
  <2>6. CASE ~(j <= Used)
    <3>1. i = j - Used - 1 /\ i < size /\ j - Used \in 1 .. size
      BY <1>1, <1>3, <2>1, <2>2, <2>6
    <3>2. s[j - Used] = chunk[i]
      BY <3>1
    <3> QED  BY <2>4, <2>6, <3>1, <3>2 DEF k
  <2> QED  BY <2>5, <2>6
<1> HIDE DEF s, At
<1>12. /\ Stream \o s \in Seq(Byte) /\ Len(Stream \o s) = Used + size
       /\ \A j \in 1 .. Used + size :
            (Stream \o s)[j] = IF j <= Used THEN Stream[j] ELSE s[j - Used]
  BY <1>8, <1>9, ConcatProperties
<1>13. \A j \in 1 .. Used + size : Stream'[j] = (Stream \o s)[j]
  <2> SUFFICES ASSUME NEW j \in 1 .. Used + size
               PROVE  Stream'[j] = (Stream \o s)[j]
    OBVIOUS
  <2>1. CASE j <= Used
    <3>1. j \in 1 .. Used
      BY <1>1, <1>3, <2>1
    <3> QED  BY <1>9, <1>10, <1>11, <1>12, <2>1, <3>1
  <2>2. CASE ~(j <= Used)
    BY <1>10, <1>11, <1>12, <2>2
  <2> QED  BY <2>1, <2>2
<1>14. Stream' = Stream \o s
  BY <1>10, <1>12, <1>13, SeqEqual
<1> QED  BY <1>3, <1>8, <1>9, <1>14

(* piperead() takes the bytes from the front of the stream, and gives them  *)
(* to the caller or loses them.                                             *)
LEMMA ReadReceives ==
  ASSUME IInv, NEW p \in Procs, ReadCopies(p)
  PROVE  \/ Stream = <<>> /\ Stream' = <<>> /\ got' = <<>>
         \/ \E n \in 1 .. Len(Stream) :
              /\ Stream' = SubSeq(Stream, n + 1, Len(Stream))
              /\ got' = SubSeq(Stream, 1, n) \/ (Faults /\ got' = <<>>)
<1> DEFINE size == Least(left[p], Used)
           At(j) == (nread + j - 1) % PIPESIZE
<1>1. /\ PIPESIZE \in Nat \ {0} /\ Mod \in Nat \ {0} /\ Used \in 0 .. PIPESIZE
      /\ left[p] \in Nat /\ left[p] > 0
  BY PipeAssumption DEF IInv, TypeOK, InvEnds, ReadPoints, ReadCopies
<1>2. size \in 0 .. Used /\ (size = 0 => Used = 0)
  BY <1>1 DEF Least
<1>3. nread' = (nread + size) % Mod /\ nwrite' = nwrite /\ data' = data
  BY DEF ReadCopies
<1>4. got' = [j \in 1 .. size |-> data[At(j)]] \/ (Faults /\ got' = <<>>)
  BY DEF ReadCopies
<1> HIDE DEF size
<1>5. Used' = Used - size /\ nread' \in 0 .. Mod - 1
  BY <1>1, <1>2, <1>3, ReadSizeIs DEF IInv
<1>6. nread \in 0 .. Mod - 1 /\ data \in [0 .. PIPESIZE - 1 -> Byte]
  BY DEF IInv, TypeOK
<1>7. nread \in Int /\ data \in [0 .. PIPESIZE - 1 -> Byte]
  BY <1>1, <1>6
<1>8. Stream \in Seq(Byte) /\ Len(Stream) = Used /\ \A j \in 1 .. Used : Stream[j] = data[At(j)]
  <2>1. ASSUME NEW j \in 1 .. Used
        PROVE  data[At(j)] \in Byte
    <3>1. j \in Int
      OBVIOUS
    <3> QED  BY Zenon, <1>7, <3>1, RingBytes
  <2>2. Stream = [j \in 1 .. Used |-> data[At(j)]]
    BY DEF Stream
  <2> HIDE DEF At
  <2>3. Stream \in [1 .. Used -> Byte] /\ \A j \in 1 .. Used : Stream[j] = data[At(j)]
    BY <2>1, <2>2
  <2> QED  BY <1>1, <2>3
<1>9. /\ Stream' \in Seq(Byte) /\ Len(Stream') = Used - size
      /\ \A j \in 1 .. Used - size : Stream'[j] = data[(nread' + j - 1) % PIPESIZE]
  <2>1. Stream' = [j \in 1 .. Used - size |-> data[(nread' + j - 1) % PIPESIZE]]
    BY <1>3, <1>5 DEF Stream
  <2>2. Used - size \in Nat /\ nread' \in Int
    BY <1>1, <1>2, <1>5
  <2> DEFINE To(j) == (nread' + j - 1) % PIPESIZE
  <2>3. ASSUME NEW j \in 1 .. Used - size
        PROVE  data[To(j)] \in Byte
    <3>1. j \in Int
      OBVIOUS
    <3> QED  BY Zenon, <1>7, <2>2, <3>1, RingBytes
  <2>4. Stream' = [j \in 1 .. Used - size |-> data[To(j)]]
    BY <2>1
  <2> HIDE DEF To
  <2>5. /\ Stream' \in [1 .. Used - size -> Byte]
        /\ \A j \in 1 .. Used - size : Stream'[j] = data[To(j)]
    BY <2>3, <2>4
  <2> QED  BY <2>2, <2>5 DEF To
<1>10. ASSUME NEW j \in 1 .. Used - size
      PROVE  Stream'[j] = Stream[size + j]
  <2>1. size \in 0 .. PIPESIZE /\ j - 1 \in Int /\ size + j \in 1 .. Used
    BY <1>1, <1>2
  <2>2. (((nread + size) % Mod) + (j - 1)) % PIPESIZE = (nread + size + (j - 1)) % PIPESIZE
    BY <1>6, <2>1, RingWraps
  <2>3. nread' + j - 1 = ((nread + size) % Mod) + (j - 1)
    BY <1>1, <1>3, <1>5, <2>1
  <2>4. nread + size + (j - 1) = nread + (size + j) - 1
    BY <1>1, <1>6, <2>1
  <2> QED  BY <1>8, <1>9, <2>1, <2>2, <2>3, <2>4
<1> HIDE DEF At
<1>11. CASE size = 0
  <2>1. Stream = <<>> /\ Stream' = <<>>
    BY <1>1, <1>2, <1>8, <1>9, <1>11, EmptySeq
  <2>2. got' = <<>>
    BY <1>4, <1>11
  <2> QED  BY <2>1, <2>2
<1>12. CASE size # 0
  <2>1. size \in 1 .. Len(Stream) /\ size + 1 \in Int /\ Len(Stream) \in Int
    BY <1>1, <1>2, <1>8, <1>12
  <2>2. \A j \in 1 .. Len(Stream) : Stream[j] \in Byte
    BY <1>8, ElementOfSeq
  <2>3. /\ SubSeq(Stream, size + 1, Len(Stream)) \in Seq(Byte)
        /\ Len(SubSeq(Stream, size + 1, Len(Stream))) = Used - size
        /\ \A j \in 1 .. Used - size : SubSeq(Stream, size + 1, Len(Stream))[j] = Stream[size + j]
    <3>1. \A j \in size + 1 .. Len(Stream) : Stream[j] \in Byte
      BY <2>1, <2>2
    <3>2. /\ SubSeq(Stream, size + 1, Len(Stream)) \in Seq(Byte)
          /\ Len(SubSeq(Stream, size + 1, Len(Stream)))
               = IF size + 1 <= Len(Stream) THEN Len(Stream) - (size + 1) + 1 ELSE 0
          /\ \A j \in 1 .. Len(Stream) - (size + 1) + 1 :
               SubSeq(Stream, size + 1, Len(Stream))[j] = Stream[size + 1 + j - 1]
      BY <2>1, <3>1, SubSeqProperties
    <3>3. /\ Len(Stream) - (size + 1) + 1 = Used - size
          /\ \A j \in 1 .. Used - size : size + 1 + j - 1 = size + j
          /\ size + 1 <= Len(Stream) \/ Used - size = 0
      BY <1>1, <1>2, <1>8, <2>1
    <3> QED  BY <3>2, <3>3
  <2>4. Stream' = SubSeq(Stream, size + 1, Len(Stream))
    BY <1>9, <1>10, <2>3, SeqEqual
  <2>5. got' = SubSeq(Stream, 1, size) \/ (Faults /\ got' = <<>>)
    <3>1. /\ SubSeq(Stream, 1, size) \in Seq(Byte)
          /\ Len(SubSeq(Stream, 1, size)) = size
          /\ \A j \in 1 .. size : SubSeq(Stream, 1, size)[j] = Stream[j]
      <4>1. \A j \in 1 .. size : Stream[j] \in Byte
        BY <2>1, <2>2
      <4>2. /\ SubSeq(Stream, 1, size) \in Seq(Byte)
            /\ Len(SubSeq(Stream, 1, size)) = IF 1 <= size THEN size - 1 + 1 ELSE 0
            /\ \A j \in 1 .. size - 1 + 1 : SubSeq(Stream, 1, size)[j] = Stream[1 + j - 1]
        BY <2>1, <4>1, SubSeqProperties
      <4> QED  BY <2>1, <4>2
    <3>2. ASSUME got' = [j \in 1 .. size |-> data[At(j)]]
          PROVE  got' = SubSeq(Stream, 1, size)
      <4>1. got' \in Seq(Byte) /\ Len(got') = size /\ \A j \in 1 .. size : got'[j] = data[At(j)]
        <5>1. ASSUME NEW j \in 1 .. size
              PROVE  data[At(j)] \in Byte
          <6>1. j \in Int
            OBVIOUS
          <6> QED  BY Zenon, <1>7, <6>1, RingBytes DEF At
        <5>2. got' \in [1 .. size -> Byte] /\ \A j \in 1 .. size : got'[j] = data[At(j)]
          BY <3>2, <5>1
        <5> QED  BY <1>1, <1>2, <5>2
      <4>2. \A j \in 1 .. size : got'[j] = SubSeq(Stream, 1, size)[j]
        BY <1>1, <1>2, <1>8, <3>1, <4>1
      <4> QED  BY <3>1, <4>1, <4>2, SeqEqual
    <3> QED  BY <1>4, <3>2
  <2> QED  BY <2>1, <2>4, <2>5
<1> QED  BY <1>11, <1>12

(* Every step of the pipe is a step of the stream or leaves it alone.       *)
LEMMA StreamStep ==
  ASSUME IInv, IInv', [Next]_vars
  PROVE  [S!SNext]_(S!svars)
<1> USE DEF S!SNext, S!svars
<1>1. ASSUME UNCHANGED <<nread, nwrite, data>>
      PROVE  Stream' = Stream
  BY <1>1 DEF Stream, Used
<1>2. CASE UNCHANGED <<pipeVars, got>>
  BY <1>1, <1>2 DEF pipeVars, Stream
<1>3. ASSUME NEW p \in Procs, WriteCopies(p)
      PROVE  S!Send
  <2>1. readopen /\ UNCHANGED <<writeopen, readopen, got>>
    BY <1>3 DEF WriteCopies
  <2> QED  BY <1>3, <2>1, WriteSends DEF S!Send, Stream
<1>4. ASSUME NEW p \in Procs, ReadCopies(p)
      PROVE  S!Receive \/ S!ReceiveNothing \/ S!Lose
  <2>1. UNCHANGED <<writeopen, readopen>>
    BY <1>4 DEF ReadCopies
  <2>2. CASE Stream = <<>> /\ Stream' = <<>> /\ got' = <<>>
    BY <2>1, <2>2 DEF S!ReceiveNothing, Stream
  <2>3. ASSUME NEW n \in 1 .. Len(Stream), Stream' = SubSeq(Stream, n + 1, Len(Stream)),
               got' = SubSeq(Stream, 1, n)
        PROVE  S!Receive
    BY <2>1, <2>3 DEF S!Receive, Stream
  <2>4. ASSUME NEW n \in 1 .. Len(Stream), Stream' = SubSeq(Stream, n + 1, Len(Stream)),
               Faults /\ got' = <<>>
        PROVE  S!Lose
    BY <2>1, <2>4 DEF S!Lose, Stream
  <2> QED  BY <1>4, <2>2, <2>3, <2>4, ReadReceives
<1>5. ASSUME NEW p \in Procs, ReadKilled(p)
      PROVE  S!ReceiveNothing
  <2>1. Stream = <<>>
    <3>1. Used = 0
      BY <1>5, EmptyIs DEF IInv, ReadKilled, MustWait
    <3> QED  BY <3>1 DEF Stream
  <2> QED  BY <1>1, <1>5, <2>1 DEF ReadKilled, pipeVars, S!ReceiveNothing, Stream
<1>6. ASSUME NEW p \in Procs, PipeCloseWrite(p)
      PROVE  S!CloseEnd
  <2>1. writeopen /\ writeopen' = FALSE /\ UNCHANGED <<nread, nwrite, data, readopen, got>>
    BY <1>6 DEF PipeCloseWrite, IInv, InvWrite
  <2> QED  BY <1>1, <2>1 DEF S!CloseEnd, Stream
<1>7. ASSUME NEW p \in Procs, PipeCloseRead(p)
      PROVE  S!CloseEnd
  <2>1. readopen /\ readopen' = FALSE /\ UNCHANGED <<nread, nwrite, data, writeopen, got>>
    BY <1>7 DEF PipeCloseRead, IInv, InvRead
  <2> QED  BY <1>1, <2>1 DEF S!CloseEnd, Stream
<1>8. \/ UNCHANGED <<pipeVars, got>>
      \/ \E p \in Procs : \/ WriteCopies(p) \/ ReadCopies(p) \/ ReadKilled(p)
                          \/ PipeCloseWrite(p) \/ PipeCloseRead(p)
  BY DEF Next, Idle, Step, vars, pipeVars, CallWrite, WriteLock, WriteFails, WriteSleeps,
         WriteFaults, WriteReturns, CallRead, ReadLock, ReadSleeps, Close, Kill
<1> QED  BY <1>2, <1>3, <1>4, <1>5, <1>6, <1>7, <1>8

(* The pipe implements the bounded queue of bytes.                          *)
THEOREM Refinement == Spec => ImplementsStream
<1>1. Init => S!SInit
  <2> SUFFICES ASSUME Init
               PROVE  S!SInit
    OBVIOUS
  <2>1. Used = 0
    BY UsedIs, PipeAssumption DEF Init
  <2> QED  BY <2>1 DEF Init, S!SInit
<1> QED  BY <1>1, StreamStep, Invariance, PTL DEF Spec, ImplementsStream, S!SSpec
=============================================================================
