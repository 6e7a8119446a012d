----------------------------- MODULE SchedProof -----------------------------
(* Proofs about Sched, for any number of CPUs and slots. *)
EXTENDS Sched, TLAPS

Saved == {"forkret", "yield", "sleep"}

(* Where each CPU is: on its own stack, or on that of mycpu()->proc. *)
InvPlace == \A c \in Cpus :
  /\ pc[c] \notin {"none", "stale"}
  /\ pc[c] \in {"sched", "scan", "probe", "dispatch", "halt"}
       => proc[c] = None /\ stack[c] = None
  /\ pc[c] \in {"swtch", "back"} => proc[c] \in Procs /\ stack[c] = None
  /\ pc[c] \in {"forkret", "yield", "sleep", "kernel", "switch", "alloc", "init", "fill"}
       => proc[c] \in Procs /\ stack[c] = proc[c]
  /\ pc[c] \in {"dispatch", "swtch"} => next[c] \in Procs
  /\ pc[c] = "swtch" => next[c] = proc[c]
  /\ pc[c] = "sched" => next[c] = None
  /\ pc[c] = "probe" => probed[c] \in Procs

InvPool == \A c \in Cpus : pc[c] \in {"scan", "probe", "alloc"} <=> poolLock = c

(* Which p->lock a CPU holds follows from where it is. *)
InvLocks ==
  /\ \A c \in Cpus :
       /\ pc[c] = "dispatch" => plock[next[c]] = c
       /\ pc[c] \in Saved \cup {"swtch", "switch", "back"} => plock[proc[c]] = c
       /\ pc[c] \in {"init", "fill"} =>
            child[proc[c]] \in Procs /\ plock[child[proc[c]]] = c
       /\ pc[c] = "switch" /\ state[proc[c]] = "SLEEPING" /\ child[proc[c]] # None
            => plock[child[proc[c]]] = c
  /\ \A q \in Procs : plock[q] # None =>
       \/ pc[plock[q]] = "dispatch" /\ q = next[plock[q]]
       \/ pc[plock[q]] \in Saved \cup {"swtch", "switch", "back"} /\ q = proc[plock[q]]
       \/ pc[plock[q]] \in {"init", "fill"} /\ q = child[proc[plock[q]]]
       \/ /\ pc[plock[q]] = "switch" /\ state[proc[plock[q]]] = "SLEEPING"
          /\ q = child[proc[plock[q]]]

(* What the state of the process a CPU deals with can be. *)
InvState == \A c \in Cpus :
  /\ pc[c] = "dispatch" => state[next[c]] = "RUNNABLE"
  /\ pc[c] \in Saved \cup {"swtch", "kernel", "alloc", "init", "fill"} => state[proc[c]] = "RUNNING"
  /\ pc[c] \in {"switch", "back"} => state[proc[c]] \notin {"RUNNING", "USED"}
  /\ pc[c] = "init" => state[child[proc[c]]] = "UNUSED"
  /\ pc[c] = "fill" => state[child[proc[c]]] = "USED"

InvUnique ==
  /\ \A c, d \in Cpus : proc[c] # None /\ proc[c] = proc[d] => c = d
  /\ \A p \in Procs : state[p] = "RUNNING" => \E c \in Cpus : proc[c] = p

(* A process that may be dispatched has a context to resume. *)
InvContext ==
  /\ \A p \in Procs : state[p] \in {"RUNNABLE", "SLEEPING"} =>
       ctx[p] \in Saved \/ \E c \in Cpus : pc[c] = "switch" /\ proc[c] = p
  /\ \A p \in Procs : state[p] = "USED" => ctx[p] = "forkret"
  /\ \A c \in Cpus : pc[c] = "swtch" => ctx[proc[c]] \in Saved

(* The slot clone() is filling belongs to one parent, which is alive, and    *)
(* asleep only if it is about to fail the assertions.                        *)
InvChild ==
  /\ \A p \in Procs : child[p] # None =>
       /\ \/ state[p] \in {"RUNNING", "RUNNABLE"}
          \/ /\ state[p] = "SLEEPING"
             /\ \E c \in Cpus : pc[c] = "switch" /\ proc[c] = p
       /\ \/ state[child[p]] = "USED"
          \/ \E c \in Cpus : pc[c] = "init" /\ proc[c] = p
  /\ \A p, q \in Procs : child[p] # None /\ child[p] = child[q] => p = q
  /\ \A c \in Cpus : pc[c] = "alloc" => child[proc[c]] = None

(* A process that has been counted in exit() creates no more children. *)
InvCount ==
  /\ \A p \in Procs : child[p] # None => p \notin counted
  /\ \A c \in Cpus : pc[c] = "alloc" => proc[c] \notin counted

(* A process that cannot leave the table before the next release of pool_lock. *)
Anchored(r) == state[r] \notin {"UNUSED", "ZOMBIE"} /\ r \notin counted

Candidate(p) == state[p] = "RUNNABLE" /\ plock[p] = None

(* What the scan knows.  Its candidate stays RUNNABLE and unlocked.  While   *)
(* it has seen only UNUSED slots, a slot it has passed can only be that of a *)
(* newborn, and then the parent is still ahead and cannot exit.              *)
InvScanAt(c) ==
  /\ next[c] # None => Candidate(next[c]) /\ any[c]
  /\ pc[c] = "probe" => any[c]
  /\ ~any[c] =>
       /\ \A q \in Procs \ left[c] : state[q] \in {"UNUSED", "USED", "RUNNABLE"}
       /\ \A d \in Cpus : pc[d] = "dispatch" => next[d] \in left[c]
       /\ \/ \A q \in Procs \ left[c] : state[q] = "UNUSED"
          \/ \E r \in left[c] : Anchored(r)

InvScan == \A c \in Cpus : pc[c] \in {"scan", "probe"} => InvScanAt(c)

InvHalt == (\E c \in Cpus : pc[c] = "halt") => \A p \in Procs : state[p] = "UNUSED"

Sound ==
  /\ TypeOK /\ InvPlace /\ InvPool /\ InvLocks /\ InvState /\ InvUnique
  /\ InvContext /\ InvChild /\ InvCount /\ InvScan /\ InvHalt

(* The control flow of each CPU is its own, whatever the others do to the   *)
(* process it runs.                                                         *)
InvOwn == \A c \in Cpus :
  /\ pc[c] \in {"dispatch", "swtch"} => next[c] \in Procs
  /\ pc[c] \in ProcPoints \cup {"swtch", "back"} => proc[c] \in Procs

(* The invariant: everything above, unless a scan was raced. *)
IInv == TypeOK /\ InvOwn /\ (raced \/ Sound)

-----------------------------------------------------------------------------
(* Each lemma below is one action of Next.  The argument is the lock hand-  *)
(* over: the process a CPU is about to run is RUNNABLE and its lock is held *)
(* (InvLocks, InvState), so no other CPU is in any of the places where it   *)
(* could still be using that process (InvUnique).                           *)

(* scheduler() takes pool_lock.                                             *)
LEMMA AcquirePoolStep ==
  ASSUME Sound, NEW c \in Cpus, AcquirePool(c)
  PROVE  Sound'
<1> USE SchedAssumption DEF Sound, Saved, States, Contexts, SchedPoints, ProcPoints,
        scanVars, procVars, AcquirePool, Goto
<1>1. TypeOK'
  BY DEF TypeOK, InvPlace, InvState
<1>2. InvPlace' /\ InvPool' /\ InvLocks'
  BY DEF TypeOK, InvPlace, InvPool, InvLocks, InvState, InvUnique, InvContext, InvChild
<1>3. InvState' /\ InvUnique'
  BY DEF TypeOK, InvPlace, InvPool, InvLocks, InvState, InvUnique, InvChild
<1>4. InvContext' /\ InvChild' /\ InvHalt'
  BY DEF TypeOK, InvPlace, InvPool, InvLocks, InvState, InvUnique, InvContext, InvChild,
         InvHalt
<1>5. InvCount' /\ InvScan'
  BY DEF TypeOK, InvPlace, InvPool, InvLocks, InvState, InvUnique, InvChild, InvCount,
         InvScan, InvScanAt, Candidate, Anchored
<1> QED  BY <1>1, <1>2, <1>3, <1>4, <1>5

(* The scan looks at the state of a slot.                                   *)
LEMMA LoadStateStep ==
  ASSUME Sound, NEW c \in Cpus, NEW p \in Procs, LoadState(c, p)
  PROVE  Sound'
<1> USE SchedAssumption DEF Sound, Saved, States, Contexts, SchedPoints, ProcPoints,
        scanVars, procVars, LoadState, Goto
<1>1. TypeOK'
  BY DEF TypeOK, InvPlace, InvState
<1>2. InvPlace' /\ InvPool' /\ InvLocks'
  BY DEF TypeOK, InvPlace, InvPool, InvLocks, InvState, InvUnique, InvContext, InvChild
<1>3. InvState' /\ InvUnique'
  BY DEF TypeOK, InvPlace, InvPool, InvLocks, InvState, InvUnique, InvChild
<1>4. InvContext' /\ InvChild' /\ InvHalt'
  BY DEF TypeOK, InvPlace, InvPool, InvLocks, InvState, InvUnique, InvContext, InvChild,
         InvHalt
<1>5. InvCount'
  BY DEF TypeOK, InvCount
<1>6. InvScan'
  <2> SUFFICES ASSUME NEW d \in Cpus, pc'[d] \in {"scan", "probe"}
               PROVE  InvScanAt(d)'
    BY DEF InvScan, InvScanAt
  <2>1. d = c /\ pc[c] = "scan" /\ InvScanAt(c)
    <3>1. pc[c] = "scan" /\ InvScanAt(c) /\ poolLock = c
      BY DEF InvScan, InvPool
    <3>2. d = c
      BY <3>1 DEF InvPool, TypeOK
    <3> QED  BY <3>1, <3>2
  <2>2. /\ (next[c] # None => Candidate(next[c]) /\ any[c])'
        /\ pc'[c] = "probe" => any'[c]
    BY <2>1 DEF InvScanAt, TypeOK, Candidate
  <2>3. ASSUME ~any'[c]
        PROVE  ~any[c] /\ state[p] = "UNUSED" /\ left'[c] = left[c] \ {p}
    BY <2>3 DEF TypeOK
  <2>4. ASSUME ~any'[c], NEW e \in Cpus, pc'[e] = "dispatch"
        PROVE  next'[e] \in left'[c]
    BY <2>1, <2>3, <2>4 DEF InvScanAt, InvState, InvPlace, TypeOK
  <2>5. ASSUME ~any'[c]
        PROVE  /\ \A q \in Procs \ left'[c] : state'[q] \in {"UNUSED", "USED", "RUNNABLE"}
               /\ \/ \A q \in Procs \ left'[c] : state'[q] = "UNUSED"
                  \/ \E r \in left'[c] : Anchored(r)'
    BY <2>1, <2>3, <2>5 DEF InvScanAt, Anchored
  <2> QED  BY <2>1, <2>2, <2>4, <2>5 DEF InvScanAt
<1> QED  BY <1>1, <1>2, <1>3, <1>4, <1>5, <1>6

(* It looks at the lock: if this race is not lost, the slot is a candidate. *)
LEMMA LoadLockStep ==
  ASSUME Sound, NEW c \in Cpus, LoadLock(c), ~raced'
  PROVE  Sound'
<1>1. TypeOK'
  <2>1. TypeOK /\ pc[c] = "probe" /\ probed[c] \in Procs
    BY DEF Sound, InvPlace, LoadLock
  <2>2. /\ next' \in [Cpus -> Procs \cup {None}]
        /\ probed' \in [Cpus -> Procs \cup {None}]
    BY <2>1 DEF TypeOK, LoadLock, scanVars
  <2>3. raced' \in BOOLEAN
    BY <2>1 DEF TypeOK, LoadLock
  <2>4. pc' \in [Cpus -> SchedPoints \cup ProcPoints]
    BY <2>1 DEF TypeOK, LoadLock, Goto, SchedPoints
  <2> QED  BY <2>1, <2>2, <2>3, <2>4 DEF TypeOK, LoadLock, procVars
<1> USE SchedAssumption DEF Sound, Saved, States, Contexts, SchedPoints, ProcPoints,
        scanVars, procVars, LoadLock, Unlocked, Goto
<1>2. InvPlace' /\ InvPool' /\ InvLocks'
  BY DEF TypeOK, InvPlace, InvPool, InvLocks, InvState, InvUnique, InvContext, InvChild
<1>3. InvState' /\ InvUnique'
  BY DEF TypeOK, InvPlace, InvPool, InvLocks, InvState, InvUnique, InvChild
<1>4. InvContext' /\ InvChild' /\ InvHalt'
  BY DEF TypeOK, InvPlace, InvPool, InvLocks, InvState, InvUnique, InvContext, InvChild,
         InvHalt
<1>5. InvCount'
  BY DEF InvCount
<1>6. InvScan'
  <2> SUFFICES ASSUME NEW d \in Cpus, pc'[d] \in {"scan", "probe"}
               PROVE  InvScanAt(d)'
    BY DEF InvScan, InvScanAt
  <2>1. d = c /\ InvScanAt(c) /\ any[c] /\ any'[c]
    BY DEF InvScan, InvScanAt, InvPool
  <2>2. (next[c] # None => Candidate(next[c]))'
    BY <2>1 DEF InvScanAt, TypeOK, Candidate
  <2> QED  BY <2>1, <2>2 DEF InvScanAt, TypeOK
<1> QED  BY <1>1, <1>2, <1>3, <1>4, <1>5, <1>6

(* The scan chooses none.                                                   *)
LEMMA PickNothingStep ==
  ASSUME Sound, NEW c \in Cpus, PickNothing(c)
  PROVE  Sound'
<1> USE SchedAssumption DEF Sound, Saved, States, Contexts, SchedPoints, ProcPoints,
        scanVars, procVars, PickNothing, Scanned, Goto
<1>1. TypeOK'
  BY DEF TypeOK, InvPlace, InvState
<1>2. InvPlace' /\ InvPool' /\ InvLocks'
  BY DEF TypeOK, InvPlace, InvPool, InvLocks, InvState, InvUnique, InvContext, InvChild
<1>3. InvState' /\ InvUnique'
  BY DEF TypeOK, InvPlace, InvPool, InvLocks, InvState, InvUnique, InvChild
<1>4. InvContext' /\ InvChild' /\ InvHalt'
  BY DEF TypeOK, InvPlace, InvPool, InvLocks, InvState, InvUnique, InvContext, InvChild,
         InvHalt
<1>5. InvCount' /\ InvScan'
  BY DEF TypeOK, InvPlace, InvPool, InvLocks, InvState, InvUnique, InvChild, InvCount,
         InvScan, InvScanAt, Candidate, Anchored
<1> QED  BY <1>1, <1>2, <1>3, <1>4, <1>5

(* The scan finds the pool empty.                                           *)
LEMMA SchedulerEndsStep ==
  ASSUME Sound, NEW c \in Cpus, SchedulerEnds(c)
  PROVE  Sound'
<1> USE SchedAssumption DEF Sound, Saved, States, Contexts, SchedPoints, ProcPoints,
        scanVars, procVars, SchedulerEnds, Scanned, Goto
<1>1. TypeOK'
  BY DEF TypeOK, InvPlace, InvState
<1>2. InvPlace' /\ InvPool' /\ InvLocks'
  BY DEF TypeOK, InvPlace, InvPool, InvLocks, InvState, InvUnique, InvContext, InvChild
<1>3. InvState' /\ InvUnique'
  BY DEF TypeOK, InvPlace, InvPool, InvLocks, InvState, InvUnique, InvChild
<1>4. InvContext' /\ InvChild' /\ InvHalt'
  BY DEF TypeOK, InvPlace, InvPool, InvLocks, InvState, InvUnique, InvContext, InvChild,
         InvScan, InvScanAt, InvHalt
<1>5. InvCount' /\ InvScan'
  BY DEF TypeOK, InvPlace, InvPool, InvLocks, InvState, InvUnique, InvChild, InvCount,
         InvScan, InvScanAt, Candidate, Anchored
<1> QED  BY <1>1, <1>2, <1>3, <1>4, <1>5

(* The chosen process is locked and pool_lock dropped.                      *)
LEMMA LockNextStep ==
  ASSUME Sound, NEW c \in Cpus, LockNext(c)
  PROVE  Sound'
<1> USE SchedAssumption DEF Sound, Saved, States, Contexts, SchedPoints, ProcPoints,
        scanVars, procVars, LockNext, Scanned, Goto
<1>1. TypeOK'
  BY DEF TypeOK, InvPlace, InvState
<1>2. InvPlace' /\ InvPool' /\ InvLocks'
  BY DEF TypeOK, InvPlace, InvPool, InvLocks, InvState, InvUnique, InvContext, InvChild
<1>3. InvState' /\ InvUnique'
  BY DEF TypeOK, InvPlace, InvPool, InvLocks, InvState, InvUnique, InvChild, InvScan,
         InvScanAt, Candidate
<1>4. InvContext' /\ InvChild' /\ InvHalt'
  BY DEF TypeOK, InvPlace, InvPool, InvLocks, InvState, InvUnique, InvContext, InvChild,
         InvHalt
<1>5. InvCount' /\ InvScan'
  BY DEF TypeOK, InvPlace, InvPool, InvLocks, InvState, InvUnique, InvChild, InvCount,
         InvScan, InvScanAt, Candidate, Anchored
<1> QED  BY <1>1, <1>2, <1>3, <1>4, <1>5

(* The locked process becomes RUNNING.                                      *)
LEMMA DispatchStep ==
  ASSUME Sound, NEW c \in Cpus, Dispatch(c)
  PROVE  Sound'
<1> USE SchedAssumption DEF Sound, Saved, States, Contexts, SchedPoints, ProcPoints,
        scanVars, procVars, Dispatch, Goto
<1>1. TypeOK'
  BY DEF TypeOK, InvPlace, InvState
<1>2. InvPlace' /\ InvPool' /\ InvLocks'
  BY DEF TypeOK, InvPlace, InvPool, InvLocks, InvState, InvUnique, InvContext, InvChild
<1>3. InvState' /\ InvUnique'
  BY DEF TypeOK, InvPlace, InvPool, InvLocks, InvState, InvUnique, InvChild
<1>4. InvContext' /\ InvChild' /\ InvHalt'
  BY DEF TypeOK, InvPlace, InvPool, InvLocks, InvState, InvUnique, InvContext, InvChild,
         InvHalt
<1>5. InvCount' /\ InvScan'
  BY DEF TypeOK, InvPlace, InvPool, InvLocks, InvState, InvUnique, InvChild, InvCount,
         InvScan, InvScanAt, Candidate, Anchored
<1> QED  BY <1>1, <1>2, <1>3, <1>4, <1>5

(* swtch() to the process.                                                  *)
LEMMA SwtchInStep ==
  ASSUME Sound, NEW c \in Cpus, SwtchIn(c)
  PROVE  Sound'
<1> USE SchedAssumption DEF Sound, Saved, States, Contexts, SchedPoints, ProcPoints,
        scanVars, procVars, SwtchIn, Goto
<1>1. TypeOK'
  BY DEF TypeOK, InvPlace, InvState
<1>2. InvPlace' /\ InvPool' /\ InvLocks'
  BY DEF TypeOK, InvPlace, InvPool, InvLocks, InvState, InvUnique, InvContext, InvChild
<1>3. InvState' /\ InvUnique'
  BY DEF TypeOK, InvPlace, InvPool, InvLocks, InvState, InvUnique, InvChild
<1>4. InvContext' /\ InvChild' /\ InvHalt'
  BY DEF TypeOK, InvPlace, InvPool, InvLocks, InvState, InvUnique, InvContext, InvChild,
         InvHalt
<1>5. InvCount'
  BY DEF TypeOK, InvPlace, InvState, InvChild, InvCount
<1>6. InvScan'
  BY SMTT(30) DEF TypeOK, InvPlace, InvPool, InvLocks, InvState, InvUnique, InvChild,
         InvCount, InvScan, InvScanAt, Candidate, Anchored
<1> QED  BY <1>1, <1>2, <1>3, <1>4, <1>5, <1>6

(* Back in scheduler(): the lock is dropped for the process.                *)
LEMMA SwtchedBackStep ==
  ASSUME Sound, NEW c \in Cpus, SwtchedBack(c)
  PROVE  Sound'
<1> USE SchedAssumption DEF Sound, Saved, States, Contexts, SchedPoints, ProcPoints,
        scanVars, procVars, SwtchedBack, Goto
<1>1. TypeOK'
  BY DEF TypeOK, InvPlace, InvState
<1>2. InvPlace' /\ InvPool' /\ InvLocks'
  BY DEF TypeOK, InvPlace, InvPool, InvLocks, InvState, InvUnique, InvContext, InvChild
<1>3. InvState' /\ InvUnique'
  BY DEF TypeOK, InvPlace, InvPool, InvLocks, InvState, InvUnique, InvChild
<1>4. InvContext' /\ InvChild' /\ InvHalt'
  BY DEF TypeOK, InvPlace, InvPool, InvLocks, InvState, InvUnique, InvContext, InvChild,
         InvHalt
<1>5. InvCount' /\ InvScan'
  BY DEF TypeOK, InvPlace, InvPool, InvLocks, InvState, InvUnique, InvChild, InvCount,
         InvScan, InvScanAt, Candidate, Anchored
<1> QED  BY <1>1, <1>2, <1>3, <1>4, <1>5

(* The process drops the lock the scheduler took.                           *)
LEMMA ResumedStep ==
  ASSUME Sound, NEW c \in Cpus, Resumed(c)
  PROVE  Sound'
<1> USE SchedAssumption DEF Sound, Saved, States, Contexts, SchedPoints, ProcPoints,
        scanVars, procVars, Resumed, Goto
<1>1. TypeOK'
  BY DEF TypeOK, InvPlace, InvState
<1>2. InvPlace' /\ InvPool' /\ InvLocks'
  BY DEF TypeOK, InvPlace, InvPool, InvLocks, InvState, InvUnique, InvContext, InvChild
<1>3. InvState' /\ InvUnique'
  BY DEF TypeOK, InvPlace, InvPool, InvLocks, InvState, InvUnique, InvChild
<1>4. InvContext' /\ InvChild' /\ InvHalt'
  BY DEF TypeOK, InvPlace, InvPool, InvLocks, InvState, InvUnique, InvContext, InvChild,
         InvHalt
<1>5. InvCount' /\ InvScan'
  BY DEF TypeOK, InvPlace, InvPool, InvLocks, InvState, InvUnique, InvChild, InvCount,
         InvScan, InvScanAt, Candidate, Anchored
<1> QED  BY <1>1, <1>2, <1>3, <1>4, <1>5

(* yield(), sleep() or exit() changes the state under p->lock; only yield() *)
(* may interrupt a clone().                                                 *)
LEMMA LeaveStep ==
  ASSUME Sound, NEW c \in Cpus, NEW s \in States, s \notin {"RUNNING", "USED"},
         s # "RUNNABLE" => child[proc[c]] = None,
         s \in {"ZOMBIE", "UNUSED"} => proc[c] \in counted, Leave(c, s)
  PROVE  Sound'
<1> USE SchedAssumption DEF Sound, Saved, States, Contexts, SchedPoints, ProcPoints,
        scanVars, procVars, Leave, Goto
<1>1. TypeOK'
  BY DEF TypeOK, InvPlace, InvState
<1>2. InvPlace' /\ InvPool' /\ InvLocks'
  BY DEF TypeOK, InvPlace, InvPool, InvLocks, InvState, InvUnique, InvContext, InvChild
<1>3. InvState' /\ InvUnique'
  BY DEF TypeOK, InvPlace, InvPool, InvLocks, InvState, InvUnique, InvChild
<1>4. InvContext' /\ InvChild' /\ InvHalt'
  BY DEF TypeOK, InvPlace, InvPool, InvLocks, InvState, InvUnique, InvContext, InvChild,
         InvHalt
<1>5. InvCount'
  BY DEF TypeOK, InvPlace, InvState, InvUnique, InvChild, InvCount
<1>6. InvScan'
  <2> SUFFICES ASSUME NEW d \in Cpus, pc'[d] \in {"scan", "probe"}
               PROVE  InvScanAt(d)'
    BY DEF InvScan, InvScanAt
  <2>1. d # c /\ InvScanAt(d) /\ UNCHANGED <<next, any, left, pc[d]>>
    BY DEF InvScan, TypeOK
  <2>2. state[proc[c]] = "RUNNING" /\ proc[c] \in Procs
    BY DEF InvState, InvPlace
  <2>3. ~any[d] => proc[c] \in left[d]
    BY <2>1, <2>2 DEF InvScanAt
  <2>4. \A q \in Procs : q # proc[c] => state'[q] = state[q] /\ plock'[q] = plock[q]
    BY DEF TypeOK
  <2>5. next[d] # None => Candidate(next[d])' /\ any[d]
    BY <2>1, <2>2, <2>4 DEF InvScanAt, Candidate, TypeOK
  <2>6. ASSUME ~any[d] PROVE \A e \in Cpus : pc'[e] = "dispatch" => next[e] \in left[d]
    BY <2>1, <2>6 DEF InvScanAt, TypeOK
  <2>7. ASSUME ~any[d], NEW r \in left[d], Anchored(r)
        PROVE  \E x \in left[d] : Anchored(x)'
    BY <2>1, <2>2, <2>4, <2>7 DEF Anchored, TypeOK
  <2> QED  BY <2>1, <2>2, <2>3, <2>4, <2>5, <2>6, <2>7 DEF InvScanAt
<1> QED  BY <1>1, <1>2, <1>3, <1>4, <1>5, <1>6

(* swtch() back to the scheduler.                                           *)
LEMMA SwitchToSchedulerStep ==
  ASSUME Sound, NEW c \in Cpus, SwitchToScheduler(c)
  PROVE  Sound'
<1> USE SchedAssumption DEF Sound, Saved, States, Contexts, SchedPoints, ProcPoints,
        scanVars, procVars, SwitchToScheduler, SwitchAssertions, Goto, SavedContext
<1>1. TypeOK'
  BY DEF TypeOK, InvPlace, InvState
<1>2. InvPlace' /\ InvPool' /\ InvLocks'
  BY DEF TypeOK, InvPlace, InvPool, InvLocks, InvState, InvUnique, InvContext, InvChild
<1>3. InvState' /\ InvUnique'
  BY DEF TypeOK, InvPlace, InvPool, InvLocks, InvState, InvUnique, InvChild
<1>4. InvContext' /\ InvChild' /\ InvHalt'
  BY DEF TypeOK, InvPlace, InvPool, InvLocks, InvState, InvUnique, InvContext, InvChild,
         InvHalt
<1>5. InvCount' /\ InvScan'
  BY DEF TypeOK, InvPlace, InvPool, InvLocks, InvState, InvUnique, InvChild, InvCount,
         InvScan, InvScanAt, Candidate, Anchored
<1> QED  BY <1>1, <1>2, <1>3, <1>4, <1>5

(* exit() counts the slots in use.                                          *)
LEMMA ExitCountStep ==
  ASSUME Sound, NEW c \in Cpus, ExitCount(c)
  PROVE  Sound'
<1> USE SchedAssumption DEF Sound, Saved, States, Contexts, SchedPoints, ProcPoints,
        scanVars, procVars, ExitCount, InSyscall, Goto, Idle
<1>1. TypeOK'
  BY DEF TypeOK, InvPlace, InvState
<1>2. InvPlace' /\ InvPool' /\ InvLocks'
  BY DEF TypeOK, InvPlace, InvPool, InvLocks, InvState, InvUnique, InvContext, InvChild
<1>3. InvState' /\ InvUnique'
  BY DEF TypeOK, InvPlace, InvPool, InvLocks, InvState, InvUnique, InvChild
<1>4. InvContext' /\ InvChild' /\ InvHalt'
  BY DEF TypeOK, InvPlace, InvPool, InvLocks, InvState, InvUnique, InvContext, InvChild,
         InvHalt
<1>5. InvCount' /\ InvScan'
  BY DEF TypeOK, InvPlace, InvPool, InvLocks, InvState, InvUnique, InvChild, InvCount,
         InvScan, InvScanAt, Candidate, Anchored
<1> QED  BY <1>1, <1>2, <1>3, <1>4, <1>5

(* wakeup() or kill() of one sleeper.                                       *)
LEMMA WakeOneStep ==
  ASSUME Sound, NEW c \in Cpus, NEW q \in Procs, WakeOne(c, q)
  PROVE  Sound'
<1> USE SchedAssumption DEF Sound, Saved, States, Contexts, SchedPoints, ProcPoints,
        scanVars, procVars, WakeOne, Goto, Idle
<1>1. TypeOK'
  BY DEF TypeOK, InvPlace, InvState
<1>2. InvPlace' /\ InvPool' /\ InvLocks'
  BY DEF TypeOK, InvPlace, InvPool, InvLocks, InvState, InvUnique, InvContext, InvChild
<1>3. InvState' /\ InvUnique'
  BY DEF TypeOK, InvPlace, InvPool, InvLocks, InvState, InvUnique, InvChild
<1>4. InvContext' /\ InvChild' /\ InvHalt'
  BY DEF TypeOK, InvPlace, InvPool, InvLocks, InvState, InvUnique, InvContext, InvChild,
         InvHalt
<1>5. InvCount' /\ InvScan'
  BY DEF TypeOK, InvPlace, InvPool, InvLocks, InvState, InvUnique, InvChild, InvCount,
         InvScan, InvScanAt, Candidate, Anchored
<1> QED  BY <1>1, <1>2, <1>3, <1>4, <1>5

(* A zombie is freed.                                                       *)
LEMMA ReapStep ==
  ASSUME Sound, NEW c \in Cpus, NEW q \in Procs, Reap(c, q)
  PROVE  Sound'
<1> USE SchedAssumption DEF Sound, Saved, States, Contexts, SchedPoints, ProcPoints,
        scanVars, procVars, Reap, InSyscall, Goto, Idle
<1>1. TypeOK'
  BY DEF TypeOK, InvPlace, InvState
<1>2. InvPlace' /\ InvPool' /\ InvLocks'
  BY DEF TypeOK, InvPlace, InvPool, InvLocks, InvState, InvUnique, InvContext, InvChild
<1>3. InvState' /\ InvUnique'
  BY DEF TypeOK, InvPlace, InvPool, InvLocks, InvState, InvUnique, InvChild
<1>4. InvContext' /\ InvChild' /\ InvHalt'
  BY DEF TypeOK, InvPlace, InvPool, InvLocks, InvState, InvUnique, InvContext, InvChild,
         InvHalt
<1>5. InvCount' /\ InvScan'
  BY DEF TypeOK, InvPlace, InvPool, InvLocks, InvState, InvUnique, InvChild, InvCount,
         InvScan, InvScanAt, Candidate, Anchored
<1> QED  BY <1>1, <1>2, <1>3, <1>4, <1>5

(* alloc_proc() takes pool_lock,                                            *)
LEMMA AllocPoolStep ==
  ASSUME Sound, NEW c \in Cpus, AllocPool(c)
  PROVE  Sound'
<1> USE SchedAssumption DEF Sound, Saved, States, Contexts, SchedPoints, ProcPoints,
        scanVars, procVars, AllocPool, InSyscall, Goto, Idle
<1>1. TypeOK'
  BY DEF TypeOK, InvPlace, InvState
<1>2. InvPlace' /\ InvPool' /\ InvLocks'
  BY DEF TypeOK, InvPlace, InvPool, InvLocks, InvState, InvUnique, InvContext, InvChild
<1>3. InvState' /\ InvUnique'
  BY DEF TypeOK, InvPlace, InvPool, InvLocks, InvState, InvUnique, InvChild
<1>4. InvContext' /\ InvChild' /\ InvHalt'
  BY DEF TypeOK, InvPlace, InvPool, InvLocks, InvState, InvUnique, InvContext, InvChild,
         InvHalt
<1>5. InvCount' /\ InvScan'
  BY DEF TypeOK, InvPlace, InvPool, InvLocks, InvState, InvUnique, InvChild, InvCount,
         InvScan, InvScanAt, Candidate, Anchored
<1> QED  BY <1>1, <1>2, <1>3, <1>4, <1>5

(* finds no slot,                                                           *)
LEMMA AllocNoneStep ==
  ASSUME Sound, NEW c \in Cpus, AllocNone(c)
  PROVE  Sound'
<1> USE SchedAssumption DEF Sound, Saved, States, Contexts, SchedPoints, ProcPoints,
        scanVars, procVars, AllocNone, Goto
<1>1. TypeOK'
  BY DEF TypeOK, InvPlace, InvState
<1>2. InvPlace' /\ InvPool' /\ InvLocks'
  BY DEF TypeOK, InvPlace, InvPool, InvLocks, InvState, InvUnique, InvContext, InvChild
<1>3. InvState' /\ InvUnique'
  BY DEF TypeOK, InvPlace, InvPool, InvLocks, InvState, InvUnique, InvChild
<1>4. InvContext' /\ InvChild' /\ InvHalt'
  BY DEF TypeOK, InvPlace, InvPool, InvLocks, InvState, InvUnique, InvContext, InvChild,
         InvHalt
<1>5. InvCount' /\ InvScan'
  BY DEF TypeOK, InvPlace, InvPool, InvLocks, InvState, InvUnique, InvChild, InvCount,
         InvScan, InvScanAt, Candidate, Anchored
<1> QED  BY <1>1, <1>2, <1>3, <1>4, <1>5

(* or locks a free one,                                                     *)
LEMMA AllocFoundStep ==
  ASSUME Sound, NEW c \in Cpus, NEW q \in Procs, AllocFound(c, q)
  PROVE  Sound'
<1> USE SchedAssumption DEF Sound, Saved, States, Contexts, SchedPoints, ProcPoints,
        scanVars, procVars, AllocFound, Goto
<1>1. TypeOK'
  BY DEF TypeOK, InvPlace, InvState
<1>2. InvPlace' /\ InvPool' /\ InvLocks'
  BY DEF TypeOK, InvPlace, InvPool, InvLocks, InvState, InvUnique, InvContext, InvChild
<1>3. InvState' /\ InvUnique'
  BY DEF TypeOK, InvPlace, InvPool, InvLocks, InvState, InvUnique, InvChild
<1>4. InvContext' /\ InvChild' /\ InvHalt'
  BY DEF TypeOK, InvPlace, InvPool, InvLocks, InvState, InvUnique, InvContext, InvChild,
         InvHalt
<1>5. InvCount' /\ InvScan'
  BY DEF TypeOK, InvPlace, InvPool, InvLocks, InvState, InvUnique, InvChild, InvCount,
         InvScan, InvScanAt, Candidate, Anchored
<1> QED  BY <1>1, <1>2, <1>3, <1>4, <1>5

(* which it fills in.                                                       *)
LEMMA AllocInitStep ==
  ASSUME Sound, NEW c \in Cpus, AllocInit(c)
  PROVE  Sound'
<1> USE SchedAssumption DEF Sound, Saved, States, Contexts, SchedPoints, ProcPoints,
        scanVars, procVars, AllocInit, Goto
<1>1. TypeOK'
  BY DEF TypeOK, InvPlace, InvState
<1>2. InvPlace' /\ InvPool' /\ InvLocks'
  BY DEF TypeOK, InvPlace, InvPool, InvLocks, InvState, InvUnique, InvContext, InvChild
<1>3. InvState' /\ InvUnique'
  BY DEF TypeOK, InvPlace, InvPool, InvLocks, InvState, InvUnique, InvChild
<1>4. InvContext' /\ InvChild' /\ InvHalt'
  BY DEF TypeOK, InvPlace, InvPool, InvLocks, InvState, InvUnique, InvContext, InvChild,
         InvHalt
<1>5. InvCount' /\ InvScan'
  BY DEF TypeOK, InvPlace, InvPool, InvLocks, InvState, InvUnique, InvChild, InvCount,
         InvScan, InvScanAt, Candidate, Anchored
<1> QED  BY <1>1, <1>2, <1>3, <1>4, <1>5

(* Without memory the slot is given back.                                    *)
LEMMA AllocFailsStep ==
  ASSUME Sound, NEW c \in Cpus, AllocFails(c)
  PROVE  Sound'
<1> USE SchedAssumption DEF Sound, Saved, States, Contexts, SchedPoints, ProcPoints,
        scanVars, procVars, AllocFails, Goto
<1>1. TypeOK'
  BY DEF TypeOK, InvPlace, InvState
<1>2. InvPlace' /\ InvPool' /\ InvLocks'
  BY DEF TypeOK, InvPlace, InvPool, InvLocks, InvState, InvUnique, InvContext, InvChild
<1>3. InvState' /\ InvUnique'
  BY DEF TypeOK, InvPlace, InvPool, InvLocks, InvState, InvUnique, InvChild
<1>4. InvContext' /\ InvChild' /\ InvHalt'
  BY DEF TypeOK, InvPlace, InvPool, InvLocks, InvState, InvUnique, InvContext, InvChild,
         InvHalt
<1>5. InvCount'
  BY DEF TypeOK, InvPlace, InvState, InvChild, InvCount
<1>6. InvScan'
  BY SMTT(30) DEF TypeOK, InvPlace, InvPool, InvLocks, InvState, InvUnique, InvChild,
         InvCount, InvScan, InvScanAt, Candidate, Anchored
<1> QED  BY <1>1, <1>2, <1>3, <1>4, <1>5, <1>6

(* clone() goes to sleep with the lock of the child held,                   *)
LEMMA CloneSleepsStep ==
  ASSUME Sound, NEW c \in Cpus, CloneSleeps(c)
  PROVE  Sound'
<1> USE SchedAssumption DEF Sound, Saved, States, Contexts, SchedPoints, ProcPoints,
        scanVars, procVars, CloneSleeps, Goto
<1>1. TypeOK'
  BY DEF TypeOK, InvPlace, InvState
<1>2. InvPlace' /\ InvPool' /\ InvLocks'
  BY DEF TypeOK, InvPlace, InvPool, InvLocks, InvState, InvUnique, InvContext, InvChild
<1>3. InvState' /\ InvUnique'
  BY DEF TypeOK, InvPlace, InvPool, InvLocks, InvState, InvUnique, InvChild
<1>4. InvContext' /\ InvChild' /\ InvHalt'
  BY DEF TypeOK, InvPlace, InvPool, InvLocks, InvState, InvUnique, InvContext, InvChild,
         InvHalt
<1>5. InvCount' /\ InvScan'
  BY DEF TypeOK, InvPlace, InvPool, InvLocks, InvState, InvUnique, InvChild, InvCount,
         InvScan, InvScanAt, Candidate, Anchored
<1> QED  BY <1>1, <1>2, <1>3, <1>4, <1>5

(* or has copied everything and drops that lock.                            *)
LEMMA CloneFilledStep ==
  ASSUME Sound, NEW c \in Cpus, CloneFilled(c)
  PROVE  Sound'
<1> USE SchedAssumption DEF Sound, Saved, States, Contexts, SchedPoints, ProcPoints,
        scanVars, procVars, CloneFilled, Goto
<1>1. TypeOK'
  BY DEF TypeOK, InvPlace, InvState
<1>2. InvPlace' /\ InvPool' /\ InvLocks'
  BY DEF TypeOK, InvPlace, InvPool, InvLocks, InvState, InvUnique, InvContext, InvChild
<1>3. InvState' /\ InvUnique'
  BY DEF TypeOK, InvPlace, InvPool, InvLocks, InvState, InvUnique, InvChild
<1>4. InvContext' /\ InvChild' /\ InvHalt'
  BY DEF TypeOK, InvPlace, InvPool, InvLocks, InvState, InvUnique, InvContext, InvChild,
         InvHalt
<1>5. InvCount'
  BY DEF TypeOK, InvPlace, InvState, InvChild, InvCount
<1>6. InvScan'
  BY SMTT(30) DEF TypeOK, InvPlace, InvPool, InvLocks, InvState, InvUnique, InvChild,
         InvCount, InvScan, InvScanAt, Candidate, Anchored
<1> QED  BY <1>1, <1>2, <1>3, <1>4, <1>5, <1>6

(* clone() makes it runnable.                                               *)
LEMMA CloneRunnableStep ==
  ASSUME Sound, NEW c \in Cpus, CloneRunnable(c)
  PROVE  Sound'
<1> USE SchedAssumption DEF Sound, Saved, States, Contexts, SchedPoints, ProcPoints,
        scanVars, procVars, CloneRunnable, Goto
<1>1. TypeOK'
  BY DEF TypeOK, InvPlace, InvState
<1>2. InvPlace' /\ InvPool' /\ InvLocks'
  BY DEF TypeOK, InvPlace, InvPool, InvLocks, InvState, InvUnique, InvContext, InvChild
<1>3. InvState' /\ InvUnique'
  BY DEF TypeOK, InvPlace, InvPool, InvLocks, InvState, InvUnique, InvChild
<1>4. InvContext' /\ InvChild' /\ InvHalt'
  BY DEF TypeOK, InvPlace, InvPool, InvLocks, InvState, InvUnique, InvContext, InvChild,
         InvHalt
<1>5. InvCount' /\ InvScan'
  BY DEF TypeOK, InvPlace, InvPool, InvLocks, InvState, InvUnique, InvChild, InvCount,
         InvScan, InvScanAt, Candidate, Anchored
<1> QED  BY <1>1, <1>2, <1>3, <1>4, <1>5

-----------------------------------------------------------------------------

LEMMA InitIInv == Init => IInv
<1> SUFFICES ASSUME Init PROVE IInv
  OBVIOUS
<1> USE SchedAssumption DEF Init
<1>1. TypeOK
  BY DEF TypeOK, States, Contexts, SchedPoints
<1>2. InvPlace /\ InvPool /\ InvLocks /\ InvState /\ InvHalt /\ InvOwn
  BY DEF InvPlace, InvPool, InvLocks, InvState, InvHalt, InvOwn, ProcPoints, Contexts, Saved
<1>3. InvUnique /\ InvContext /\ InvChild /\ InvCount /\ InvScan
  BY DEF InvUnique, InvContext, InvChild, InvCount, InvScan, Saved
<1> QED  BY <1>1, <1>2, <1>3 DEF IInv, Sound

(* What changes nothing but panicked. *)
LEMMA StutterStep ==
  ASSUME Sound, panicked' \in BOOLEAN, UNCHANGED <<child, counted>>,
         UNCHANGED <<state, plock, poolLock, proc, stack, ctx, pc, scanVars>>
  PROVE  Sound'
BY DEF scanVars, Sound, TypeOK, InvPlace, InvPool, InvLocks, InvState, InvUnique,
       InvContext, InvChild, InvCount, InvScan, InvScanAt, Anchored, Candidate, InvHalt

LEMMA CpuStepSound ==
  ASSUME Sound, NEW c \in Cpus, CpuStep(c), ~raced'
  PROVE  Sound'
<1>1. CASE AcquirePool(c)  BY <1>1, AcquirePoolStep
<1>2. CASE PickNothing(c)  BY <1>2, PickNothingStep
<1>3. CASE SchedulerEnds(c)  BY <1>3, SchedulerEndsStep
<1>4. ASSUME NEW p \in Procs, LoadState(c, p) PROVE Sound'
  BY <1>4, LoadStateStep
<1>5. CASE LoadLock(c)  BY <1>5, LoadLockStep
<1>6. CASE LockNext(c)  BY <1>6, LockNextStep
<1>7. CASE Dispatch(c)  BY <1>7, DispatchStep
<1>8. CASE SwtchIn(c)  BY <1>8, SwtchInStep
<1>9. CASE SwtchedBack(c)  BY <1>9, SwtchedBackStep
<1> QED
  BY <1>1, <1>2, <1>3, <1>4, <1>5, <1>6, <1>7, <1>8, <1>9 DEF CpuStep, Sound, TypeOK

LEMMA ProcStepSound ==
  ASSUME Sound, NEW c \in Cpus, ProcStep(c)
  PROVE  Sound'
<1>1. CASE Resumed(c)  BY <1>1, ResumedStep
<1>2. CASE SwitchToScheduler(c)  BY <1>2, SwitchToSchedulerStep
<1>3. CASE Yield(c)  BY <1>3, LeaveStep DEF Yield, States
<1>4. CASE Sleep(c)  BY <1>4, LeaveStep DEF Sleep, Idle, States
<1>5. CASE ExitToParent(c)  BY <1>5, LeaveStep DEF ExitToParent, Counted, Idle, States
<1>6. CASE ExitOrphan(c)  BY <1>6, LeaveStep DEF ExitOrphan, Counted, Idle, States
<1>7. ASSUME NEW q \in Procs, WakeOne(c, q) \/ Reap(c, q) \/ AllocFound(c, q)
      PROVE  Sound'
  BY <1>7, WakeOneStep, ReapStep, AllocFoundStep
<1>8. CASE AllocPool(c)  BY <1>8, AllocPoolStep
<1>9. CASE AllocNone(c)  BY <1>9, AllocNoneStep
<1>10. CASE AllocInit(c)  BY <1>10, AllocInitStep
<1>11. CASE CloneSleeps(c)  BY <1>11, CloneSleepsStep
<1>12. CASE CloneFilled(c)  BY <1>12, CloneFilledStep
<1>13. CASE CloneRunnable(c)  BY <1>13, CloneRunnableStep
<1>14. CASE ExitCount(c)  BY <1>14, ExitCountStep
<1>15. CASE SwitchPanics(c) \/ ExitClosePanics(c) \/ ClonePanics(c)
  BY <1>15, StutterStep DEF SwitchPanics, ExitClosePanics, ClonePanics
<1>16. CASE AllocFails(c)  BY <1>16, AllocFailsStep
<1> QED
  BY <1>1, <1>2, <1>3, <1>4, <1>5, <1>6, <1>7, <1>8, <1>9, <1>10, <1>11, <1>12,
     <1>13, <1>14, <1>15, <1>16 DEF ProcStep

(* Once a scan has been raced, that stays known. *)
LEMMA RacedStays ==
  ASSUME NEW c \in Cpus, CpuStep(c) \/ ProcStep(c), raced
  PROVE  raced'
<1>1. CASE CpuStep(c)
  BY <1>1 DEF CpuStep, AcquirePool, PickNothing, SchedulerEnds, LoadState, LoadLock,
              LockNext, Dispatch, SwtchIn, SwtchedBack, scanVars
<1>2. CASE ProcStep(c)
  BY <1>2 DEF ProcStep, Resumed, SwitchToScheduler, SwitchPanics, ExitClosePanics,
              Yield, Sleep, ExitCount, ExitToParent, ExitOrphan, Leave, WakeOne, Reap,
              AllocFound, AllocPool, AllocNone, AllocInit, AllocFails, CloneSleeps,
              ClonePanics, CloneFilled,
              CloneRunnable, scanVars
<1> QED  BY <1>1, <1>2

(* What holds even then: the types, and that a CPU deals with some process. *)
LEMMA CpuStepOwn ==
  ASSUME TypeOK, InvOwn, NEW c \in Cpus, CpuStep(c)
  PROVE  TypeOK' /\ InvOwn'
<1> USE SchedAssumption DEF TypeOK, InvOwn, States, Contexts, SchedPoints, ProcPoints,
        scanVars, procVars, Goto
<1>1. CASE AcquirePool(c)
  BY <1>1 DEF AcquirePool
<1>7. CASE PickNothing(c) \/ SchedulerEnds(c)
  BY <1>7 DEF PickNothing, SchedulerEnds, Scanned
<1>2. ASSUME NEW p \in Procs, LoadState(c, p) PROVE TypeOK' /\ InvOwn'
  BY <1>2 DEF LoadState
<1>3. CASE LoadLock(c)
  BY <1>3 DEF LoadLock
<1>4. CASE LockNext(c) \/ Dispatch(c)
  BY <1>4 DEF LockNext, Scanned, Dispatch
<1>5. CASE SwtchIn(c)
  BY <1>5 DEF SwtchIn
<1>6. CASE SwtchedBack(c)
  BY <1>6 DEF SwtchedBack
<1> QED  BY <1>1, <1>2, <1>3, <1>4, <1>5, <1>6, <1>7 DEF CpuStep

LEMMA ProcStepOwn ==
  ASSUME TypeOK, InvOwn, NEW c \in Cpus, ProcStep(c)
  PROVE  TypeOK' /\ InvOwn'
<1> USE SchedAssumption DEF TypeOK, InvOwn, States, Contexts, SchedPoints, ProcPoints,
        scanVars, procVars, Goto
<1>1. ASSUME NEW s \in States, Leave(c, s) PROVE TypeOK' /\ InvOwn'
  BY <1>1 DEF Leave
<1>2. CASE Yield(c) \/ Sleep(c) \/ ExitToParent(c) \/ ExitOrphan(c)
  BY <1>1, <1>2 DEF Yield, Sleep, ExitToParent, ExitOrphan
<1>3. CASE Resumed(c)
  BY <1>3 DEF Resumed
<1>8. CASE SwitchToScheduler(c)
  BY <1>8 DEF SwitchToScheduler, SavedContext
<1>9. CASE SwitchPanics(c) \/ ExitClosePanics(c) \/ ClonePanics(c)
  <2>1. CASE SwitchPanics(c)     BY <2>1 DEF SwitchPanics
  <2>2. CASE ExitClosePanics(c)  BY <2>2 DEF ExitClosePanics
  <2>3. CASE ClonePanics(c)      BY <2>3 DEF ClonePanics
  <2> QED  BY <1>9, <2>1, <2>2, <2>3
<1>11. CASE AllocFails(c)
  BY <1>11 DEF AllocFails
<1>4. ASSUME NEW q \in Procs, WakeOne(c, q) \/ Reap(c, q) \/ AllocFound(c, q)
      PROVE  TypeOK' /\ InvOwn'
  BY <1>4 DEF WakeOne, Reap, AllocFound
<1>5. CASE ExitCount(c)
  BY <1>5 DEF ExitCount, InSyscall, Idle
<1>6. CASE AllocPool(c) \/ AllocNone(c)
  BY <1>6 DEF AllocPool, AllocNone, InSyscall, Idle
<1>10. CASE AllocInit(c)
  BY <1>10 DEF AllocInit
<1>7. CASE CloneSleeps(c) \/ CloneFilled(c) \/ CloneRunnable(c)
  BY <1>7 DEF CloneSleeps, CloneFilled, CloneRunnable
<1> QED  BY <1>2, <1>3, <1>4, <1>5, <1>6, <1>7, <1>8, <1>9, <1>10, <1>11 DEF ProcStep

LEMMA NextIInv ==
  ASSUME IInv, [Next]_vars
  PROVE  IInv'
<1>1. CASE UNCHANGED vars
  <2>1. raced' = raced /\ (Sound => Sound')
    BY <1>1, StutterStep DEF IInv, TypeOK, vars, scanVars, procVars
  <2> QED  BY <1>1, <2>1 DEF IInv, TypeOK, InvOwn, vars, scanVars, procVars
<1>2. ASSUME NEW c \in Cpus, CpuStep(c) \/ ProcStep(c)
      PROVE  IInv'
  <2>1. TypeOK' /\ InvOwn'
    BY <1>2, CpuStepOwn, ProcStepOwn DEF IInv
  <2>2. raced' \/ Sound'
    BY <1>2, RacedStays, CpuStepSound, ProcStepSound DEF IInv
  <2> QED  BY <2>1, <2>2 DEF IInv
<1> QED  BY <1>1, <1>2 DEF Next, Halted

(* The inductive invariant holds in every reachable state: the whole of the *)
(* protocol unless a scan was raced, types and control flow in any case.    *)
THEOREM Invariance == Spec => []IInv
<1>1. IInv /\ [Next]_vars => IInv'  BY NextIInv
<1> QED  BY <1>1, InitIInv, PTL DEF Spec

(* Every variable of the dispatch protocol keeps its type, raced or not. *)
THEOREM TypeCorrect == Spec => []TypeOK
<1>1. IInv => TypeOK  BY DEF IInv
<1> QED  BY <1>1, Invariance, PTL

(* A kernel stack is not executed by two CPUs, for any number of CPUs and    *)
(* slots, unless the two loads of some scan were raced: handing p->lock      *)
(* through swtch() is enough.                                                *)
THEOREM StacksAreExclusive == Spec => []StackExclusive
<1>1. IInv => StackExclusive
  <2> SUFFICES ASSUME Sound, NEW c \in Cpus, NEW d \in Cpus, c # d
               PROVE  /\ stack[c] # None => stack[c] # stack[d]
                      /\ proc[c] # None => proc[c] # proc[d]
    BY DEF StackExclusive, IInv
  <2>1. proc[c] # None => proc[c] # proc[d]
    BY DEF Sound, InvUnique
  <2>2. ASSUME NEW e \in Cpus PROVE stack[e] = None \/ stack[e] = proc[e]
    BY DEF Sound, InvPlace, TypeOK, SchedPoints, ProcPoints, Contexts
  <2> QED  BY <2>1, <2>2
<1> QED  BY <1>1, Invariance, PTL

(* swtch() jumps to a context its process has saved, unless the two loads of *)
(* some scan were raced.                                                     *)
THEOREM ContextsAreSaved == Spec => []ContextSaved
<1>1. IInv => ContextSaved
  BY DEF IInv, Sound, InvPlace, InvContext, ContextSaved, Saved
<1> QED  BY <1>1, Invariance, PTL

(* Unless a scan was raced, the only caller with which the assertions of     *)
(* switch_to_scheduler() fail is the sleep inside clone().                   *)
THEOREM SwitchAssertsHold == Spec => []SwitchAsserts
<1>1. IInv => SwitchAsserts
  <2> SUFFICES ASSUME Sound, NEW c \in Cpus, pc[c] = "switch"
               PROVE  \/ SwitchAssertions(c)
                      \/ /\ state[proc[c]] = "SLEEPING" /\ plock[proc[c]] = c /\ poolLock # c
                         /\ child[proc[c]] # None /\ state[child[proc[c]]] = "USED"
                         /\ \A q \in Procs : plock[q] = c => q \in {proc[c], child[proc[c]]}
    BY DEF IInv, SwitchAsserts
  <2>1. state[proc[c]] # "RUNNING" /\ plock[proc[c]] = c /\ poolLock # c
    BY DEF Sound, InvState, InvLocks, InvPool, TypeOK
  <2>2. ASSUME NEW q \in Procs, plock[q] = c, q # proc[c]
        PROVE  q = child[proc[c]] /\ state[proc[c]] = "SLEEPING"
    BY <2>2, SchedAssumption DEF Sound, InvLocks, TypeOK, Saved
  <2>3. child[proc[c]] # None => state[child[proc[c]]] = "USED"
    BY SchedAssumption DEF Sound, InvPlace, InvChild, InvUnique, TypeOK
  <2> QED  BY <2>1, <2>2, <2>3, SchedAssumption DEF SwitchAssertions
<1> QED  BY <1>1, Invariance, PTL

(* alloc_proc() does not reuse a slot whose last process still uses a CPU,   *)
(* unless a scan was raced.                                                  *)
THEOREM FreeSlotsAreQuiescent == Spec => []FreeSlotQuiescent
<1>1. IInv => FreeSlotQuiescent
  BY SchedAssumption
     DEF IInv, Sound, TypeOK, InvPlace, InvState, InvLocks, FreeSlotQuiescent, Saved,
         SchedPoints, ProcPoints, Contexts
<1> QED  BY <1>1, Invariance, PTL

(* Unless a scan was raced, the harts shut down only when the process table  *)
(* has become empty.                                                         *)
THEOREM HaltIsFinal == Spec => []HaltsWhenEmpty
<1>1. IInv => HaltsWhenEmpty  BY DEF IInv, Sound, InvHalt, HaltsWhenEmpty
<1> QED  BY <1>1, Invariance, PTL

(* If no candidate had left RUNNABLE between the two loads of a scan, the    *)
(* tests cannot go stale later: what is dispatched is RUNNABLE.              *)
THEOREM CandidatesStayRunnable == Spec => TestedStaysRunnable
<1> DEFINE A == raced \/ \A p \in Procs : (\E c \in Cpus : pc[c] = "dispatch" /\ next[c] = p
                                                       /\ pc'[c] = "swtch")
                                  => state[p] = "RUNNABLE"
<1>1. IInv /\ [Next]_vars => [A]_vars
  BY DEF IInv, Sound, InvState
<1> QED  BY <1>1, Invariance, PTL DEF Spec, TestedStaysRunnable

=============================================================================
