------------------------------- MODULE Sched -------------------------------
(***************************************************************************)
(* The dispatch protocol of the kernel: how a process table slot travels   *)
(* between the CPUs.  A CPU runs either the loop of scheduler() on its own *)
(* boot stack or a process on that process's kernel stack; swtch() moves   *)
(* it from one to the other, always while p->lock is held.  The lock is    *)
(* taken on one side of swtch() and released on the other.                 *)
(*                                                                         *)
(* The scan of scheduler() loads p->state and then p->lock.locked, without *)
(* the lock and without an order to what other CPUs do: two steps.  When a *)
(* candidate has left RUNNABLE between the two, what follows is undefined: *)
(* swtch() goes to a context that is in use or dead.  The history variable *)
(* raced says that this has happened.                                      *)
(*                                                                         *)
(* Left to other modules: who sleeps on what (SleepLock, ProcTree), the    *)
(* process tree, the choice by stride (any eligible process may be picked) *)
(* and the timer statistics.                                               *)
(***************************************************************************)
EXTENDS Naturals, FiniteSets

CONSTANTS
  Cpus,         (* the harts that entered scheduler()                       *)
  Procs,        (* the slots of pool[NPROC]                                 *)
  Shell,        (* the slot make_shell_proc() filled at boot                *)
  None          (* the null pointer                                         *)

ASSUME SchedAssumption ==
  /\ Shell \in Procs
  /\ None \notin Procs /\ None \notin Cpus

VARIABLES
  state,     (* p->state                                                    *)
  plock,     (* the CPU that holds p->lock, or None                         *)
  poolLock,  (* the CPU that holds pool_lock, or None                       *)
  proc,      (* mycpu()->proc                                               *)
  stack,     (* the process on whose kernel stack the CPU runs, None for    *)
             (* the scheduler's                                             *)
  ctx,       (* where p->context resumes; "stale" while p runs              *)
  pc,        (* the control point of each CPU                               *)
  next,      (* next_proc in scheduler(): the best candidate so far         *)
  probed,    (* p in scheduler(), between the two loads                     *)
  left,      (* the slots the scan has not looked at yet                    *)
  any,       (* any_proc in scheduler()                                     *)
  child,     (* np in clone(), a local of the process that runs it          *)
  counted,   (* processes past the_only_proc_in_pool() in exit()            *)
  panicked,  (* panic() has shut the machine down                           *)
  raced      (* history: a scan has taken a candidate that had left         *)
             (* RUNNABLE between its two loads                              *)

scanVars == <<next, probed, left, any, raced>>
procVars == <<child, counted, panicked>>
vars == <<state, plock, poolLock, proc, stack, ctx, pc, scanVars, procVars>>

States == {"UNUSED", "USED", "SLEEPING", "RUNNABLE", "RUNNING", "ZOMBIE"}
Contexts == {"none", "forkret", "yield", "sleep", "stale"}
SchedPoints == {"sched", "scan", "probe", "dispatch", "swtch", "back", "halt"}
ProcPoints == {"kernel", "switch", "alloc", "init", "fill"} \cup Contexts

Init ==
  /\ state = [p \in Procs |-> IF p = Shell THEN "RUNNABLE" ELSE "UNUSED"]
  /\ plock = [p \in Procs |-> None]
  /\ poolLock = None
  /\ proc = [c \in Cpus |-> None]
  /\ stack = [c \in Cpus |-> None]
  /\ ctx = [p \in Procs |-> IF p = Shell THEN "forkret" ELSE "none"]
  /\ pc = [c \in Cpus |-> "sched"]
  /\ next = [c \in Cpus |-> None]
  /\ probed = [c \in Cpus |-> None]
  /\ left = [c \in Cpus |-> {}]
  /\ any = [c \in Cpus |-> FALSE]
  /\ child = [p \in Procs |-> None]
  /\ counted = {}
  /\ panicked = FALSE /\ raced = FALSE

Goto(c, l) == pc' = [pc EXCEPT ![c] = l]

-----------------------------------------------------------------------------
(* scheduler(), on the CPU's own stack *)

AcquirePool(c) ==
  /\ pc[c] = "sched"
  /\ poolLock = None
  /\ poolLock' = c
  /\ left' = [left EXCEPT ![c] = Procs]
  /\ any' = [any EXCEPT ![c] = FALSE]
  /\ Goto(c, "scan")
  /\ UNCHANGED <<state, plock, proc, stack, ctx, next, probed, raced, procVars>>

(* The first load: a RUNNABLE slot goes on to the second. *)
LoadState(c, p) ==
  /\ pc[c] = "scan"
  /\ p \in left[c]
  /\ left' = [left EXCEPT ![c] = @ \ {p}]
  /\ any' = [any EXCEPT ![c] = @ \/ state[p] # "UNUSED"]
  /\ IF state[p] = "RUNNABLE"
       THEN probed' = [probed EXCEPT ![c] = p] /\ Goto(c, "probe")
       ELSE UNCHANGED <<probed, pc>>
  /\ UNCHANGED <<state, plock, poolLock, proc, stack, ctx, next, raced, procVars>>

(* Faulty variant: the lock word is not tested. *)
MutUnlocked(p) == TRUE
Unlocked(p) == plock[p] = None

(* The second load.  Any slot that is not locked may be the one with the    *)
(* least stride so far, and the first one always is.                        *)
LoadLock(c) ==
  LET p == probed[c] IN
  /\ pc[c] = "probe"
  /\ \/ /\ Unlocked(p)
        /\ next' = [next EXCEPT ![c] = p]
        /\ raced' = (raced \/ (plock[p] = None /\ state[p] # "RUNNABLE"))
     \/ ~(Unlocked(p) /\ next[c] = None) /\ UNCHANGED <<next, raced>>
  /\ probed' = [probed EXCEPT ![c] = None]
  /\ Goto(c, "scan")
  /\ UNCHANGED <<state, plock, poolLock, proc, stack, ctx, left, any, procVars>>

Scanned(c) == pc[c] = "scan" /\ left[c] = {}

(* Nothing eligible was seen: release pool_lock and start over. *)
PickNothing(c) ==
  /\ Scanned(c)
  /\ next[c] = None /\ any[c]
  /\ poolLock' = None
  /\ Goto(c, "sched")
  /\ UNCHANGED <<state, plock, proc, stack, ctx, scanVars, procVars>>

(* Every slot was UNUSED: the hart leaves scheduler() and shuts down. *)
SchedulerEnds(c) ==
  /\ Scanned(c)
  /\ next[c] = None /\ ~any[c]
  /\ poolLock' = None
  /\ Goto(c, "halt")
  /\ UNCHANGED <<state, plock, proc, stack, ctx, scanVars, procVars>>

(* The candidate is locked before pool_lock is released. *)
LockNext(c) ==
  /\ Scanned(c)
  /\ next[c] # None
  /\ plock[next[c]] = None
  /\ plock' = [plock EXCEPT ![next[c]] = c]
  /\ poolLock' = None
  /\ Goto(c, "dispatch")
  /\ UNCHANGED <<state, proc, stack, ctx, scanVars, procVars>>

Dispatch(c) ==
  /\ pc[c] = "dispatch"
  /\ proc' = [proc EXCEPT ![c] = next[c]]
  /\ state' = [state EXCEPT ![next[c]] = "RUNNING"]
  /\ Goto(c, "swtch")
  /\ UNCHANGED <<plock, poolLock, stack, ctx, scanVars, procVars>>

(* swtch(&mycpu()->context, &next_proc->context) *)
SwtchIn(c) ==
  /\ pc[c] = "swtch"
  /\ stack' = [stack EXCEPT ![c] = next[c]]
  /\ Goto(c, ctx[next[c]])
  /\ ctx' = [ctx EXCEPT ![next[c]] = "stale"]
  /\ UNCHANGED <<state, plock, poolLock, proc, scanVars, procVars>>

(* The process switched back: the scheduler drops its lock for it. *)
SwtchedBack(c) ==
  /\ pc[c] = "back"
  /\ proc' = [proc EXCEPT ![c] = None]
  /\ plock' = [plock EXCEPT ![proc[c]] = None]
  /\ next' = [next EXCEPT ![c] = None]
  /\ Goto(c, "sched")
  /\ UNCHANGED <<state, poolLock, stack, ctx, probed, left, any, raced, procVars>>

-----------------------------------------------------------------------------
(* The process side.  "kernel" is kernel or user code that holds none of    *)
(* the locks of this module; a timer interrupt may call yield() there.      *)

(* forkret(), and the ends of yield() and sleep(), release the lock the     *)
(* scheduler took.                                                          *)
Resumed(c) ==
  /\ pc[c] \in {"forkret", "yield", "sleep"}
  /\ plock' = [plock EXCEPT ![proc[c]] = None]
  /\ Goto(c, "kernel")
  /\ UNCHANGED <<state, poolLock, proc, stack, ctx, scanVars, procVars>>

(* Faulty variant: the state changes without p->lock being taken. *)
MutLeaveUnlocked(c, s) ==
  /\ pc[c] = "kernel"
  /\ state' = [state EXCEPT ![proc[c]] = s]
  /\ counted' = IF s \in {"ZOMBIE", "UNUSED"} THEN counted \ {proc[c]} ELSE counted
  /\ Goto(c, "switch")
  /\ UNCHANGED <<plock, poolLock, proc, stack, ctx, scanVars, child, panicked>>

(* Take the own p->lock, leave RUNNING for s and call switch_to_scheduler(). *)
Leave(c, s) ==
  /\ pc[c] = "kernel"
  /\ plock[proc[c]] = None
  /\ plock' = [plock EXCEPT ![proc[c]] = c]
  /\ state' = [state EXCEPT ![proc[c]] = s]
  /\ counted' = IF s \in {"ZOMBIE", "UNUSED"} THEN counted \ {proc[c]} ELSE counted
  /\ Goto(c, "switch")
  /\ UNCHANGED <<poolLock, proc, stack, ctx, scanVars, child, panicked>>

(* Kernel code that is not in the second half of clone() ... *)
Idle(c) == pc[c] = "kernel" /\ child[proc[c]] = None

(* ... and not in the second half of exit() either. *)
InSyscall(c) == Idle(c) /\ proc[c] \notin counted

Yield(c) == Leave(c, "RUNNABLE")
Sleep(c) == Idle(c) /\ Leave(c, "SLEEPING")

(* Faulty variant: exit() does not stop at pool_lock. *)
MutExitCount(c) ==
  /\ InSyscall(c)
  /\ counted' = counted \cup {proc[c]}
  /\ UNCHANGED <<state, plock, poolLock, proc, stack, ctx, pc, scanVars, child, panicked>>

(* exit() closes files and calls iput() under p->lock.  That does nothing   *)
(* here, unless the inode table is taken: then sleep() acquires the p->lock *)
(* that is held already, which is a panic.                                  *)
ExitClosePanics(c) ==
  /\ InSyscall(c)
  /\ plock[proc[c]] = None
  /\ panicked' = TRUE
  /\ UNCHANGED <<state, plock, poolLock, proc, stack, ctx, pc, scanVars, child, counted>>

(* exit() counts the slots in use: a critical section under pool_lock. *)
ExitCount(c) ==
  /\ InSyscall(c)
  /\ poolLock = None
  /\ counted' = counted \cup {proc[c]}
  /\ UNCHANGED <<state, plock, poolLock, proc, stack, ctx, pc, scanVars, child, panicked>>

Counted(c) == Idle(c) /\ proc[c] \in counted

ExitToParent(c) == Counted(c) /\ Leave(c, "ZOMBIE")
ExitOrphan(c) == Counted(c) /\ Leave(c, "UNUSED")

(* Faulty variant: a preempted process is given no context to resume. *)
MutContextLost(s) == IF s = "SLEEPING" THEN "sleep" ELSE "none"

(* Faulty variant: the process state is stored where the context belongs. *)
MutContextIsState(s) == s

SavedContext(s) ==
  CASE s = "RUNNABLE" -> "yield"
    [] s = "SLEEPING" -> "sleep"
    [] OTHER -> "none"

(* Faulty variant: the process drops its own lock instead of leaving that   *)
(* to the scheduler.                                                        *)
MutUnlockEarly(c) ==
  /\ pc[c] = "switch"
  /\ ctx' = [ctx EXCEPT ![proc[c]] = SavedContext(state[proc[c]])]
  /\ stack' = [stack EXCEPT ![c] = None]
  /\ plock' = [plock EXCEPT ![proc[c]] = None]
  /\ Goto(c, "back")
  /\ UNCHANGED <<state, poolLock, proc, scanVars, procVars>>

(* The assertions of switch_to_scheduler(): the state has left RUNNING, and *)
(* of the locks the CPU holds that of the process and no other.             *)
SwitchAssertions(c) ==
  /\ state[proc[c]] # "RUNNING"
  /\ plock[proc[c]] = c
  /\ poolLock # c
  /\ \A q \in Procs : plock[q] = c => q = proc[c]

(* swtch(&p->context, &mycpu()->context) in switch_to_scheduler() *)
SwitchToScheduler(c) ==
  /\ pc[c] = "switch" /\ SwitchAssertions(c)
  /\ ctx' = [ctx EXCEPT ![proc[c]] = SavedContext(state[proc[c]])]
  /\ stack' = [stack EXCEPT ![c] = None]
  /\ Goto(c, "back")
  /\ UNCHANGED <<state, plock, poolLock, proc, scanVars, procVars>>

SwitchPanics(c) ==
  /\ pc[c] = "switch" /\ ~SwitchAssertions(c)
  /\ panicked' = TRUE
  /\ UNCHANGED <<state, plock, poolLock, proc, stack, ctx, pc, scanVars, child, counted>>

(* One slot of the loop of wakeup(): a critical section under q->lock.  The *)
(* "found" part of kill() does the same to a sleeper.                       *)
WakeOne(c, q) ==
  /\ Idle(c)
  /\ plock[q] = None
  /\ state[q] = "SLEEPING"
  /\ state' = [state EXCEPT ![q] = "RUNNABLE"]
  /\ UNCHANGED <<plock, poolLock, proc, stack, ctx, pc, scanVars, procVars>>

(* wait() or reparent() frees a zombie under its lock. *)
Reap(c, q) ==
  /\ InSyscall(c)
  /\ plock[q] = None
  /\ state[q] = "ZOMBIE"
  /\ state' = [state EXCEPT ![q] = "UNUSED"]
  /\ ctx' = [ctx EXCEPT ![q] = "none"]
  /\ UNCHANGED <<plock, poolLock, proc, stack, pc, scanVars, procVars>>

(* clone(): alloc_proc() looks for a slot under pool_lock ...               *)
AllocPool(c) ==
  /\ InSyscall(c)
  /\ poolLock = None
  /\ poolLock' = c
  /\ Goto(c, "alloc")
  /\ UNCHANGED <<state, plock, proc, stack, ctx, scanVars, procVars>>

(* Faulty variant: alloc_proc() fails without releasing pool_lock. *)
MutAllocNoneKeepsPool(c) ==
  /\ pc[c] = "alloc"
  /\ \A q \in Procs : state[q] # "UNUSED"
  /\ Goto(c, "kernel")
  /\ UNCHANGED <<state, plock, poolLock, proc, stack, ctx, scanVars, procVars>>

AllocNone(c) ==
  /\ pc[c] = "alloc"
  /\ \A q \in Procs : state[q] # "UNUSED"
  /\ poolLock' = None
  /\ Goto(c, "kernel")
  /\ UNCHANGED <<state, plock, proc, stack, ctx, scanVars, procVars>>

AllocFound(c, q) ==
  /\ pc[c] = "alloc"
  /\ plock[q] = None
  /\ state[q] = "UNUSED"
  /\ plock' = [plock EXCEPT ![q] = c]
  /\ poolLock' = None
  /\ child' = [child EXCEPT ![proc[c]] = q]
  /\ Goto(c, "init")
  /\ UNCHANGED <<state, proc, stack, ctx, scanVars, counted, panicked>>

(* ... and fills it in, with a context that resumes in forkret().           *)
AllocInit(c) ==
  LET q == child[proc[c]] IN
  /\ pc[c] = "init"
  /\ state' = [state EXCEPT ![q] = "USED"]
  /\ ctx' = [ctx EXCEPT ![q] = "forkret"]
  /\ Goto(c, "fill")
  /\ UNCHANGED <<plock, poolLock, proc, stack, scanVars, procVars>>

(* Without memory for the top of its page table the slot is freed again.    *)
AllocFails(c) ==
  LET q == child[proc[c]] IN
  /\ pc[c] = "init"
  /\ ctx' = [ctx EXCEPT ![q] = "none"]
  /\ plock' = [plock EXCEPT ![q] = None]
  /\ child' = [child EXCEPT ![proc[c]] = None]
  /\ Goto(c, "kernel")
  /\ UNCHANGED <<state, poolLock, proc, stack, scanVars, counted, panicked>>

(* clone() copies what the parent has, with np->lock held.  idup() of the   *)
(* working directory goes to sleep if the inode table is taken.             *)
CloneSleeps(c) ==
  /\ pc[c] = "fill"
  /\ plock[proc[c]] = None
  /\ plock' = [plock EXCEPT ![proc[c]] = c]
  /\ state' = [state EXCEPT ![proc[c]] = "SLEEPING"]
  /\ Goto(c, "switch")
  /\ UNCHANGED <<poolLock, proc, stack, ctx, scanVars, procVars>>

(* Without memory for the copy freeproc() fails its assertions. *)
ClonePanics(c) ==
  /\ pc[c] = "fill"
  /\ panicked' = TRUE
  /\ UNCHANGED <<state, plock, poolLock, proc, stack, ctx, pc, scanVars, child, counted>>

CloneFilled(c) ==
  /\ pc[c] = "fill"
  /\ plock' = [plock EXCEPT ![child[proc[c]]] = None]
  /\ Goto(c, "kernel")
  /\ UNCHANGED <<state, poolLock, proc, stack, ctx, scanVars, procVars>>

(* The last critical section of clone(); the parent may have been preempted *)
(* since it unlocked the child.                                             *)
CloneRunnable(c) ==
  LET q == child[proc[c]] IN
  /\ pc[c] = "kernel" /\ q # None
  /\ plock[q] = None
  /\ state' = [state EXCEPT ![q] = "RUNNABLE"]
  /\ child' = [child EXCEPT ![proc[c]] = None]
  /\ UNCHANGED <<plock, poolLock, proc, stack, ctx, pc, scanVars, counted, panicked>>

-----------------------------------------------------------------------------

CpuStep(c) ==
  \/ AcquirePool(c) \/ PickNothing(c) \/ SchedulerEnds(c)
  \/ \E p \in left[c] : LoadState(c, p)
  \/ LoadLock(c)
  \/ LockNext(c) \/ Dispatch(c) \/ SwtchIn(c) \/ SwtchedBack(c)

ProcStep(c) ==
  \/ Resumed(c) \/ SwitchToScheduler(c) \/ SwitchPanics(c) \/ ExitClosePanics(c)
  \/ Yield(c) \/ Sleep(c) \/ ExitCount(c) \/ ExitToParent(c) \/ ExitOrphan(c)
  \/ \E q \in Procs : WakeOne(c, q) \/ Reap(c, q) \/ AllocFound(c, q)
  \/ AllocPool(c) \/ AllocNone(c) \/ AllocInit(c) \/ AllocFails(c)
  \/ CloneSleeps(c) \/ ClonePanics(c) \/ CloneFilled(c) \/ CloneRunnable(c)

(* All harts have left scheduler(), or panic() has stopped them: the        *)
(* machine is off.                                                          *)
Halted == (panicked \/ \A c \in Cpus : pc[c] = "halt") /\ UNCHANGED vars

Next == Halted \/ (~panicked /\ \E c \in Cpus : CpuStep(c) \/ ProcStep(c))

Spec == Init /\ [][Next]_vars

-----------------------------------------------------------------------------

TypeOK ==
  /\ state \in [Procs -> States]
  /\ plock \in [Procs -> Cpus \cup {None}]
  /\ poolLock \in Cpus \cup {None}
  /\ proc \in [Cpus -> Procs \cup {None}]
  /\ stack \in [Cpus -> Procs \cup {None}]
  /\ ctx \in [Procs -> Contexts]
  /\ pc \in [Cpus -> SchedPoints \cup ProcPoints]
  /\ next \in [Cpus -> Procs \cup {None}]
  /\ probed \in [Cpus -> Procs \cup {None}]
  /\ left \in [Cpus -> SUBSET Procs]
  /\ any \in [Cpus -> BOOLEAN]
  /\ child \in [Procs -> Procs \cup {None}]
  /\ counted \subseteq Procs
  /\ panicked \in BOOLEAN /\ raced \in BOOLEAN

(* What follows holds as long as no scan has been raced, and says that this *)
(* race is all that can go wrong: the rest of the protocol, the lock taken  *)
(* late, handed through swtch() and dropped by somebody else, is sound.     *)

(* No two CPUs execute on the kernel stack of the same process, nor do they *)
(* name the same process as mycpu()->proc, unless a scan was raced: the     *)
(* lock handed through swtch() keeps a process that is still leaving a CPU  *)
(* from being picked.                                                       *)
StackExclusive ==
  raced \/ \A c, d \in Cpus : c # d =>
    /\ stack[c] # None => stack[c] # stack[d]
    /\ proc[c] # None => proc[c] # proc[d]

(* A context is resumed only after the process that owns it has saved it,   *)
(* unless a scan was raced: swtch() never jumps to a context whose process  *)
(* is still running or that belongs to a dead slot.                         *)
ContextSaved ==
  raced \/ \A c \in Cpus :
    pc[c] = "swtch" => ctx[next[c]] \in {"forkret", "yield", "sleep"}

(* The assertions of switch_to_scheduler() fail in one place only: in the   *)
(* sleep of a clone() that waits for the inode table (idup, fork.c:48) and  *)
(* holds the lock of its child.  Every other way to leave a CPU, from any   *)
(* kernel code, arrives with the state changed and the one lock.            *)
SwitchAsserts ==
  raced \/ \A c \in Cpus : pc[c] = "switch" =>
    \/ SwitchAssertions(c)
    \/ /\ state[proc[c]] = "SLEEPING" /\ plock[proc[c]] = c /\ poolLock # c
       /\ child[proc[c]] # None /\ state[child[proc[c]]] = "USED"
       /\ \A q \in Procs : plock[q] = c => q \in {proc[c], child[proc[c]]}

(* A slot alloc_proc() may take (UNUSED and unlocked) is not in use by any  *)
(* CPU, unless a scan was raced: a process that freed its own slot in       *)
(* exit() has left its kernel stack before the slot can be given away.      *)
FreeSlotQuiescent ==
  raced \/ \A p \in Procs : state[p] = "UNUSED" /\ plock[p] = None =>
    \A c \in Cpus : stack[c] # p /\ proc[c] # p

(* A hart shuts down only when no process is left, and none appears later,  *)
(* unless a scan was raced.  The slots are looked at one by one: what keeps *)
(* a process cloned behind the scan from being missed when the parent then  *)
(* exits ahead of it is that exit() has to pass pool_lock once.             *)
HaltsWhenEmpty ==
  raced \/ ((\E c \in Cpus : pc[c] = "halt") => \A p \in Procs : state[p] = "UNUSED")

(* The picked process is the one that was tested: it is RUNNABLE when it is *)
(* made RUNNING.  (scheduler.c:41: "found a process to run, lock down the   *)
(* proc".)  The code does not keep this.                                    *)
DispatchesRunnable ==
  [][\A p \in Procs : state'[p] = "RUNNING" /\ state[p] # "RUNNING"
                         => state[p] = "RUNNABLE"]_vars

(* It is, unless a scan was raced: a process that was RUNNABLE when its     *)
(* lock was seen free stays so until it is dispatched, although the lock is *)
(* taken later and the state not looked at again.                           *)
TestedStaysRunnable ==
  [][raced \/ \A p \in Procs : (\E c \in Cpus : pc[c] = "dispatch" /\ next[c] = p
                                               /\ pc'[c] = "swtch")
                         => state[p] = "RUNNABLE"]_vars

=============================================================================
