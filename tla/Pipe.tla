-------------------------------- MODULE Pipe --------------------------------
(***************************************************************************)
(* One pipe: piperead(), pipewrite() and pipeclose() on a ring of PIPESIZE *)
(* bytes with two wrapping counters.  pi->lock is kept from acquire() to   *)
(* release() or sleep(); a step is one turn of a loop under it, because    *)
(* p->killed is read in every turn without any lock.  sleep() and wakeup() *)
(* are atomic here: SleepLock shows what they do under a lock that both    *)
(* sides hold.                                                             *)
(***************************************************************************)
EXTENDS Integers, Sequences, FiniteSets

CONSTANTS
  Readers, Writers,   (* the processes that hold the read and the write end *)
  PIPESIZE,
  Mod,                (* the counters are unsigned numbers below Mod        *)
  Byte,               (* the contents of a byte                             *)
  MaxN,               (* bound on the length of a read or write             *)
  Kills,              (* TRUE: processes may be killed                      *)
  Faults              (* TRUE: the user buffer may be a bad address         *)

Procs == Readers \cup Writers
None == "none"

ASSUME PipeAssumption ==
  /\ Readers # {} /\ Writers # {} /\ None \notin Procs
  /\ PIPESIZE \in Nat \ {0}
  /\ Mod \in Nat /\ Mod > PIPESIZE /\ Mod % PIPESIZE = 0
  /\ Byte # {}
  /\ MaxN \in Nat \ {0}
  /\ Kills \in BOOLEAN /\ Faults \in BOOLEAN

VARIABLES
  nread, nwrite, data, readopen, writeopen,   (* struct pipe                *)
  lock,        (* owner of pi->lock                                         *)
  freed,       (* the page of the pipe was given back                       *)
  ends,        (* the ends each process holds                               *)
  killed,      (* p->killed                                                 *)
  pc,          (* control point of each process                             *)
  left,        (* n - i: what pipewrite() or piperead() still has to do     *)
  got          (* what the last piperead() returned                         *)

pipeVars == <<nread, nwrite, data, readopen, writeopen>>
vars == <<pipeVars, lock, freed, ends, killed, pc, left, got>>

WritePoints == {"w_loop", "w_sleep", "w_woken"}
ReadPoints == {"r_loop", "r_sleep", "r_woken"}
ClosePoints == {"close_r", "close_w"}
Points == {"user"} \cup WritePoints \cup ReadPoints \cup ClosePoints

Init ==
  /\ nread = 0 /\ nwrite = 0 /\ readopen = TRUE /\ writeopen = TRUE
  /\ data \in [0 .. PIPESIZE - 1 -> Byte]
  /\ lock = None /\ freed = FALSE
  /\ ends = [p \in Procs |-> (IF p \in Readers THEN {"r"} ELSE {})
                               \cup (IF p \in Writers THEN {"w"} ELSE {})]
  /\ killed = [p \in Procs |-> FALSE]
  /\ pc = [p \in Procs |-> "user"]
  /\ left = [p \in Procs |-> 0]
  /\ got = <<>>

Goto(p, l) == pc' = [pc EXCEPT ![p] = l]
Used == (nwrite - nread) % Mod
Least(a, b) == IF a < b THEN a ELSE b

(* wakeup(&pi->nread) and wakeup(&pi->nwrite), while p goes to l            *)
WakeAll(from, to, p, l) ==
  pc' = [q \in Procs |-> IF q = p THEN l
                         ELSE IF pc[q] = from THEN to ELSE pc[q]]
WakeReaders(p, l) == WakeAll("r_sleep", "r_woken", p, l)
WakeWriters(p, l) == WakeAll("w_sleep", "w_woken", p, l)

-----------------------------------------------------------------------------
(* pipewrite() *)

CallWrite(p) ==
  /\ pc[p] = "user" /\ "w" \in ends[p] /\ lock = None
  /\ \E n \in 1 .. MaxN : left' = [left EXCEPT ![p] = n]
  /\ lock' = p
  /\ Goto(p, "w_loop")
  /\ UNCHANGED <<pipeVars, freed, ends, killed, got>>

(* acquire(&pi->lock) at the end of sleep()                                 *)
WriteLock(p) ==
  /\ pc[p] = "w_woken" /\ lock = None
  /\ lock' = p
  /\ Goto(p, "w_loop")
  /\ UNCHANGED <<pipeVars, freed, ends, killed, left, got>>

(* The read end is closed, or the writer was killed: -1.                    *)
WriteFails(p) ==
  /\ pc[p] = "w_loop" /\ left[p] > 0
  /\ ~readopen \/ killed[p]
  /\ lock' = None
  /\ left' = [left EXCEPT ![p] = 0]
  /\ Goto(p, "user")
  /\ UNCHANGED <<pipeVars, freed, ends, killed, got>>

Full == nwrite = (nread + PIPESIZE) % Mod

WriteSleeps(p) ==
  /\ pc[p] = "w_loop" /\ left[p] > 0
  /\ readopen /\ ~killed[p] /\ Full
  /\ lock' = None
  /\ WakeReaders(p, "w_sleep")
  /\ UNCHANGED <<pipeVars, freed, ends, killed, left, got>>

(* Faulty variant: the size of the chunk ignores what is in the pipe.       *)
MutWriteCopies(p) ==
  LET size == Least(left[p], PIPESIZE) IN
  /\ pc[p] = "w_loop" /\ left[p] > 0
  /\ readopen /\ ~killed[p] /\ ~Full
  /\ \E chunk \in [0 .. size - 1 -> Byte] :
       data' = [k \in 0 .. PIPESIZE - 1 |->
                  LET j == (k - nwrite) % PIPESIZE IN
                  IF j < size THEN chunk[j] ELSE data[k]]
  /\ nwrite' = (nwrite + size) % Mod
  /\ left' = [left EXCEPT ![p] = @ - size]
  /\ UNCHANGED <<nread, readopen, writeopen, lock, freed, ends, killed, pc, got>>

(* As much as fits is copied in one turn.                                   *)
WriteCopies(p) ==
  LET size == Least(left[p], PIPESIZE - Used) IN
  /\ pc[p] = "w_loop" /\ left[p] > 0
  /\ readopen /\ ~killed[p] /\ ~Full
  /\ \E chunk \in [0 .. size - 1 -> Byte] :
       data' = [k \in 0 .. PIPESIZE - 1 |->
                  LET j == (k - nwrite) % PIPESIZE IN
                  IF j < size THEN chunk[j] ELSE data[k]]
  /\ nwrite' = (nwrite + size) % Mod
  /\ left' = [left EXCEPT ![p] = @ - size]
  /\ UNCHANGED <<nread, readopen, writeopen, lock, freed, ends, killed, pc, got>>

WriteFaults(p) ==
  /\ Faults
  /\ pc[p] = "w_loop" /\ left[p] > 0
  /\ readopen /\ ~killed[p] /\ ~Full
  /\ left' = [left EXCEPT ![p] = 0]
  /\ UNCHANGED <<pipeVars, lock, freed, ends, killed, pc, got>>

WriteReturns(p) ==
  /\ pc[p] = "w_loop" /\ left[p] = 0
  /\ lock' = None
  /\ WakeReaders(p, "user")
  /\ UNCHANGED <<pipeVars, freed, ends, killed, left, got>>

-----------------------------------------------------------------------------
(* piperead() *)

CallRead(p) ==
  /\ pc[p] = "user" /\ "r" \in ends[p] /\ lock = None
  /\ \E n \in 1 .. MaxN : left' = [left EXCEPT ![p] = n]
  /\ lock' = p
  /\ Goto(p, "r_loop")
  /\ UNCHANGED <<pipeVars, freed, ends, killed, got>>

ReadLock(p) ==
  /\ pc[p] = "r_woken" /\ lock = None
  /\ lock' = p
  /\ Goto(p, "r_loop")
  /\ UNCHANGED <<pipeVars, freed, ends, killed, left, got>>

MustWait == nread = nwrite /\ writeopen

ReadKilled(p) ==
  /\ pc[p] = "r_loop" /\ MustWait /\ killed[p]
  /\ lock' = None
  /\ left' = [left EXCEPT ![p] = 0]
  /\ got' = <<>>
  /\ Goto(p, "user")
  /\ UNCHANGED <<pipeVars, freed, ends, killed>>

ReadSleeps(p) ==
  /\ pc[p] = "r_loop" /\ MustWait /\ ~killed[p]
  /\ lock' = None
  /\ Goto(p, "r_sleep")
  /\ UNCHANGED <<pipeVars, freed, ends, killed, left, got>>

(* Faulty variant: a read takes what it was asked for, not what is there.   *)
MutReadCopies(p) ==
  LET size == Least(left[p], PIPESIZE) IN
  /\ pc[p] = "r_loop" /\ ~MustWait
  /\ nread' = (nread + size) % Mod
  /\ got' = [j \in 1 .. size |-> data[(nread + j - 1) % PIPESIZE]]
  /\ lock' = None
  /\ left' = [left EXCEPT ![p] = 0]
  /\ WakeWriters(p, "user")
  /\ UNCHANGED <<nwrite, data, readopen, writeopen, freed, ends, killed>>

(* Bytes leave the ring one by one, then the whole buffer is copied out.    *)
(* When that fails they are gone all the same, and the read returns 0.      *)
ReadCopies(p) ==
  LET size == Least(left[p], Used) IN
  /\ pc[p] = "r_loop" /\ ~MustWait
  /\ nread' = (nread + size) % Mod
  /\ \/ got' = [j \in 1 .. size |-> data[(nread + j - 1) % PIPESIZE]]
     \/ Faults /\ got' = <<>>
  /\ lock' = None
  /\ left' = [left EXCEPT ![p] = 0]
  /\ WakeWriters(p, "user")
  /\ UNCHANGED <<nwrite, data, readopen, writeopen, freed, ends, killed>>

-----------------------------------------------------------------------------
(* fileclose() of one end, at will or in exit(), and pipeclose() by the last *)

Close(p) ==
  /\ pc[p] = "user"
  /\ \E e \in ends[p] :
       /\ ends' = [ends EXCEPT ![p] = @ \ {e}]
       /\ Goto(p, IF \E q \in Procs \ {p} : e \in ends[q] THEN "user"
                  ELSE IF e = "r" THEN "close_r" ELSE "close_w")
  /\ UNCHANGED <<pipeVars, lock, freed, killed, left, got>>

(* Faulty variant: the write end is closed without waking the readers.      *)
MutPipeCloseWrite(p) ==
  /\ pc[p] = "close_w" /\ lock = None
  /\ writeopen' = FALSE
  /\ Goto(p, "user")
  /\ freed' = ~readopen
  /\ UNCHANGED <<nread, nwrite, data, readopen, lock, ends, killed, left, got>>

PipeCloseWrite(p) ==
  /\ pc[p] = "close_w" /\ lock = None
  /\ writeopen' = FALSE
  /\ WakeReaders(p, "user")
  /\ freed' = ~readopen
  /\ UNCHANGED <<nread, nwrite, data, readopen, lock, ends, killed, left, got>>

(* Faulty variant: the page is given back when the read end is closed.      *)
MutPipeCloseRead(p) ==
  /\ pc[p] = "close_r" /\ lock = None
  /\ readopen' = FALSE
  /\ WakeWriters(p, "user")
  /\ freed' = TRUE
  /\ UNCHANGED <<nread, nwrite, data, writeopen, lock, ends, killed, left, got>>

PipeCloseRead(p) ==
  /\ pc[p] = "close_r" /\ lock = None
  /\ readopen' = FALSE
  /\ WakeWriters(p, "user")
  /\ freed' = ~writeopen
  /\ UNCHANGED <<nread, nwrite, data, writeopen, lock, ends, killed, left, got>>

(* kill(): the flag, and a sleeper is made runnable.                        *)
Kill(p) ==
  /\ Kills /\ ~killed[p]
  /\ killed' = [killed EXCEPT ![p] = TRUE]
  /\ Goto(p, CASE pc[p] = "r_sleep" -> "r_woken"
               [] pc[p] = "w_sleep" -> "w_woken"
               [] OTHER             -> pc[p])
  /\ UNCHANGED <<pipeVars, lock, freed, ends, left, got>>

-----------------------------------------------------------------------------

(* The steps inside the pipe functions; calling them is up to the process.  *)
Step(p) ==
  \/ WriteLock(p) \/ WriteFails(p) \/ WriteSleeps(p) \/ WriteCopies(p)
  \/ WriteFaults(p) \/ WriteReturns(p)
  \/ ReadLock(p) \/ ReadKilled(p) \/ ReadSleeps(p) \/ ReadCopies(p)
  \/ PipeCloseWrite(p) \/ PipeCloseRead(p)

(* The programs are done with the pipe, or wait for an end that only they   *)
(* hold: a process that reads the pipe it has itself open for writing.      *)
Idle ==
  /\ \A p \in Procs : pc[p] \in {"r_sleep", "w_sleep"} \/ (ends[p] = {} /\ pc[p] = "user")
  /\ UNCHANGED vars

Next ==
  \/ Idle
  \/ \E p \in Procs : CallWrite(p) \/ CallRead(p) \/ Close(p) \/ Step(p) \/ Kill(p)

Spec == Init /\ [][Next]_vars

(* A hart that spins for pi->lock wins it if it is free again and again;    *)
FairSpec == Spec /\ \A p \in Procs : SF_vars(Step(p))

(* and a killed process exits, which closes its ends.                       *)
FairKillSpec == FairSpec /\ \A p \in Procs : SF_vars(killed[p] /\ Close(p))

-----------------------------------------------------------------------------
(* Properties *)

(* Every variable has its type; file.h, struct pipe.  The ring never holds  *)
(* more than PIPESIZE bytes.                                                *)
TypeOK ==
  /\ nread \in 0 .. Mod - 1 /\ nwrite \in 0 .. Mod - 1
  /\ Used \in 0 .. PIPESIZE
  /\ data \in [0 .. PIPESIZE - 1 -> Byte]
  /\ readopen \in BOOLEAN /\ writeopen \in BOOLEAN /\ freed \in BOOLEAN
  /\ lock \in Procs \cup {None}
  /\ ends \in [Procs -> SUBSET {"r", "w"}]
  /\ killed \in [Procs -> BOOLEAN]
  /\ pc \in [Procs -> Points]
  /\ left \in [Procs -> 0 .. MaxN]
  /\ got \in Seq(Byte) /\ Len(got) <= PIPESIZE

(* The page of the pipe is given back only when nobody is, or can get,      *)
(* inside the pipe functions.                                               *)
NoUseAfterFree ==
  freed => \A p \in Procs : ends[p] = {} /\ pc[p] = "user"

(* Whoever sleeps has a reason to: a reader sees an empty pipe that can     *)
(* still be written, a writer a full one that can still be read.  The one   *)
(* exception is a writer killed between two chunks, which leaves the        *)
(* readers asleep before what it has written.                               *)
SleepersJustified ==
  lock = None => \A p \in Procs :
    /\ pc[p] = "r_sleep" =>
         writeopen /\ (nread = nwrite \/ \E w \in Writers : killed[w])
    /\ pc[p] = "w_sleep" => Full /\ readopen

(* The ring with its two counters is a bounded queue of bytes.              *)
S == INSTANCE ByteStream WITH
       Capacity <- PIPESIZE, Lossy <- Faults, wopen <- writeopen, ropen <- readopen,
       stream <- [j \in 1 .. Used |-> data[(nread + j - 1) % PIPESIZE]]

ImplementsStream == S!SSpec

(* Bytes in the pipe reach a reader that waits, or another one.             *)
DataWakesReader ==
  (\E p \in Procs : pc[p] \in ReadPoints) /\ nread # nwrite
    ~> nread = nwrite \/ \A p \in Procs : pc[p] \notin ReadPoints

=============================================================================
