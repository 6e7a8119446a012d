------------------------------ MODULE ProcTree ------------------------------
(***************************************************************************)
(* The life cycle of processes: clone(), exit(), wait(), kill(), with the  *)
(* sleep() and wakeup() they rest on, at the granularity of the spin locks *)
(* wait_lock, pool_lock, creating_lock and each p->lock.  A critical       *)
(* section that takes no further lock is one step; wherever a lock is      *)
(* taken while another is held there is a step boundary.                   *)
(*                                                                         *)
(* Every process that is not asleep has a hart of its own: how processes   *)
(* share harts is the subject of Sched.  A lock is therefore owned by the  *)
(* process that runs on the hart that took it.  Open files, memory and     *)
(* exit codes are left out.                                                *)
(***************************************************************************)
EXTENDS Integers, FiniteSets

CONSTANTS
  NPROC,       (* number of slots of pool[]                                 *)
  MaxPid,      (* bound: no clone() is begun once this many pids were used   *)
  Args,        (* the pids that programs name in waitpid() and kill()       *)
  IoWakeups,   (* TRUE: other code (pipes, mutexes, timers, the disk) also  *)
               (* calls wakeup()                                            *)
  Times,       (* TRUE: programs also call times()                          *)
  MayFail      (* TRUE: the page table of a new process may not be had      *)

ASSUME ProcTreeAssumption ==
  /\ NPROC \in Nat \ {0}
  /\ MaxPid \in Nat \ {0}
  /\ Args \subseteq Nat
  /\ IoWakeups \in BOOLEAN /\ Times \in BOOLEAN /\ MayFail \in BOOLEAN

Procs == 1 .. NPROC
None == 0                  (* the null pointer and the owner of a free lock *)
Shell == 1                 (* the slot filled by make_shell_proc()          *)
AnyPid == -1               (* the argument of wait(-1)                      *)

VARIABLES
  state, parent, pid, killed,
  target,        (* p->waiting_target: the process slept on, or None        *)
  plock,         (* owner of each p->lock                                   *)
  waitLock, poolLock, creatingLock,
  creating,      (* creating_proc                                           *)
  nextPid,       (* next_pid                                                *)
  flushed,       (* the page cache was written back at the last exit        *)
  pc,            (* control point of each process                           *)
  idx,           (* loop variable of the scans over pool[]                  *)
  np,            (* np in clone()                                           *)
  arg,           (* pid argument of wait() and kill()                       *)
  nohang,        (* WNOHANG was given to wait()                             *)
  kids,          (* havekids in wait()                                      *)
  count,         (* count in the_only_proc_in_pool()                        *)
  chan           (* the channel passed to wakeup(): a process or None       *)

slotVars == <<state, parent, pid, killed, target>>
lockVars == <<plock, waitLock, poolLock, creatingLock>>
locals == <<np, arg, nohang, kids, count, chan>>
vars == <<slotVars, lockVars, creating, nextPid, flushed, pc, idx, locals>>

States == {"UNUSED", "USED", "SLEEPING", "RUNNABLE", "RUNNING", "ZOMBIE"}
WaitPoints == {"wt_lock", "wt_scan", "wt_sleep", "wt_asleep"}
ExitPoints == {"exit", "ex_lock", "ex_orphan", "ex_pool", "ex_count", "ex_lock2",
               "ex_own", "ex_switch"}
Points == WaitPoints \cup ExitPoints \cup
  {"off", "forkret", "forked", "user", "wk_lock", "wk_scan",
   "cl_pool", "cl_scan", "cl_creating", "cl_copy", "cl_parent", "cl_run",
   "kl_pool", "kl_scan", "tm_own", "tm_pool", "tm_scan"}

AtShell(x, default) == [p \in Procs |-> IF p = Shell THEN x ELSE default]

Init ==
  /\ state = AtShell("RUNNABLE", "UNUSED")
  /\ parent = [p \in Procs |-> None]
  /\ pid = AtShell(1, 0)
  /\ killed = [p \in Procs |-> FALSE]
  /\ target = [p \in Procs |-> None]
  /\ plock = [p \in Procs |-> None]
  /\ waitLock = None /\ poolLock = None /\ creatingLock = None
  /\ creating = Shell
  /\ nextPid = 2
  /\ flushed = FALSE
  /\ pc = AtShell("forkret", "off")
  /\ idx = [p \in Procs |-> 1]
  /\ np = [p \in Procs |-> None]
  /\ arg = [p \in Procs |-> AnyPid]
  /\ nohang = [p \in Procs |-> FALSE]
  /\ kids = [p \in Procs |-> FALSE]
  /\ count = [p \in Procs |-> 0]
  /\ chan = [p \in Procs |-> None]

Goto(p, l) == pc' = [pc EXCEPT ![p] = l]
Set(f, p, x) == [f EXCEPT ![p] = x]
AtEnd(p) == idx[p] > NPROC
Advance(p) == idx' = [idx EXCEPT ![p] = @ + 1]
Rewind(p) == idx' = [idx EXCEPT ![p] = 1]

(* freeproc(q) *)
Free(q) ==
  /\ state' = Set(state, q, "UNUSED")
  /\ pid' = Set(pid, q, 0)
  /\ killed' = Set(killed, q, FALSE)
  /\ parent' = Set(parent, q, None)
  /\ UNCHANGED target

-----------------------------------------------------------------------------
(* First run and return to user mode *)

(* The scheduler takes p->lock and switches to a process that never ran.    *)
FirstRun(p) ==
  /\ pc[p] = "forkret" /\ state[p] = "RUNNABLE"
  /\ plock[p] = None
  /\ plock' = Set(plock, p, p)
  /\ state' = Set(state, p, "RUNNING")
  /\ Goto(p, "forked")
  /\ UNCHANGED <<parent, pid, killed, target, waitLock, poolLock, creatingLock,
                 creating, nextPid, flushed, idx, locals>>

(* forkret(): creating_proc = NULL under creating_lock, then drop p->lock.  *)
Forkret(p) ==
  /\ pc[p] = "forked"
  /\ creatingLock = None
  /\ creating' = None
  /\ plock' = Set(plock, p, None)
  /\ Goto(p, "user")
  /\ UNCHANGED <<slotVars, waitLock, poolLock, creatingLock, nextPid, flushed, idx, locals>>

(* A timer interrupt takes a process in user mode to usertrap(), where one  *)
(* that was killed exits.                                                   *)
Interrupt(p) ==
  /\ pc[p] = "user" /\ killed[p]
  /\ Goto(p, "exit")
  /\ UNCHANGED <<slotVars, lockVars, creating, nextPid, flushed, idx, locals>>

(* The system calls of a user program *)
Syscall(p) ==
  /\ pc[p] = "user"
  /\ \/ /\ nextPid <= MaxPid
        /\ Goto(p, "cl_pool")
        /\ UNCHANGED <<arg, nohang>>
     \/ /\ Goto(p, "exit")
        /\ UNCHANGED <<arg, nohang>>
     \/ /\ \E a \in Args \cup {AnyPid}, w \in BOOLEAN :
             arg' = Set(arg, p, a) /\ nohang' = Set(nohang, p, w)
        /\ Goto(p, "wt_lock")
     \/ /\ \E a \in Args : arg' = Set(arg, p, a)
        /\ Goto(p, "kl_pool")
        /\ UNCHANGED nohang
     \/ /\ IoWakeups
        /\ Goto(p, "wk_lock")
        /\ UNCHANGED <<arg, nohang>>
     \/ /\ Times
        /\ Goto(p, "tm_own")
        /\ UNCHANGED <<arg, nohang>>
  /\ UNCHANGED <<slotVars, lockVars, creating, nextPid, flushed, idx, np, kids, count, chan>>

(* Leave a system call: its locals are dead, and usertrap() makes a process *)
(* that was killed in the meantime exit.                                    *)
Return(p) ==
  /\ Goto(p, IF killed'[p] THEN "exit" ELSE "user")
  /\ Rewind(p)
  /\ np' = Set(np, p, None)
  /\ arg' = Set(arg, p, AnyPid)
  /\ nohang' = Set(nohang, p, FALSE)
  /\ kids' = Set(kids, p, FALSE)
  /\ UNCHANGED <<count, chan>>

-----------------------------------------------------------------------------
(* wakeup(chan): creating_lock, then every other p->lock in turn *)

WakeupLock(p) ==
  /\ pc[p] = "wk_lock"
  /\ creatingLock = None
  /\ creatingLock' = p
  /\ Rewind(p)
  /\ Goto(p, "wk_scan")
  /\ UNCHANGED <<slotVars, plock, waitLock, poolLock, creating, nextPid, flushed, locals>>

WakeupScan(p) ==
  LET q == idx[p] IN
  /\ pc[p] = "wk_scan" /\ ~AtEnd(p)
  /\ q \notin {p, creating} => plock[q] = None
  /\ state' = IF q \notin {p, creating} /\ state[q] = "SLEEPING"
                   /\ chan[p] # None /\ target[q] = chan[p]
                THEN Set(state, q, "RUNNABLE") ELSE state
  /\ Advance(p)
  /\ UNCHANGED <<parent, pid, killed, target, lockVars, creating, nextPid, flushed, pc, locals>>

(* Back in the caller: exit() after it became a zombie, exit() while it     *)
(* closes a pipe under its own lock, or the other code.                     *)
WakeupDone(p) ==
  /\ pc[p] = "wk_scan" /\ AtEnd(p)
  /\ creatingLock' = None
  /\ chan' = Set(chan, p, None)
  /\ Rewind(p)
  /\ IF chan[p] = None
       THEN /\ plock' = IF plock[p] = p THEN Set(plock, p, None) ELSE plock
            /\ Goto(p, IF plock[p] = p THEN "ex_lock" ELSE IF killed[p] THEN "exit" ELSE "user")
       ELSE Goto(p, "ex_switch") /\ UNCHANGED plock
  /\ UNCHANGED <<slotVars, waitLock, poolLock, creating, nextPid, flushed,
                 np, arg, nohang, kids, count>>

-----------------------------------------------------------------------------
(* clone() *)

ClonePool(p) ==
  /\ pc[p] = "cl_pool"
  /\ poolLock = None
  /\ poolLock' = p
  /\ Rewind(p)
  /\ Goto(p, "cl_scan")
  /\ UNCHANGED <<slotVars, plock, waitLock, creatingLock, creating, nextPid, flushed, locals>>

CloneScan(p) ==
  LET q == idx[p] IN
  /\ pc[p] = "cl_scan" /\ ~AtEnd(p)
  /\ plock[q] = None
  /\ IF state[q] = "UNUSED"
       THEN /\ plock' = Set(plock, q, p)
            /\ poolLock' = None
            /\ np' = Set(np, p, q)
            /\ Goto(p, "cl_creating")
            /\ UNCHANGED idx
       ELSE Advance(p) /\ UNCHANGED <<plock, poolLock, np, pc>>
  /\ UNCHANGED <<slotVars, waitLock, creatingLock, creating, nextPid, flushed,
                 arg, nohang, kids, count, chan>>

(* Faulty variant: the pointer left behind by the loop is used as the slot. *)
MutCloneNoSlot(p) ==
  /\ pc[p] = "cl_scan" /\ AtEnd(p)
  /\ poolLock' = None
  /\ np' = Set(np, p, idx[p])
  /\ Goto(p, "cl_creating")
  /\ UNCHANGED <<slotVars, plock, waitLock, creatingLock, creating, nextPid, flushed,
                 idx, arg, nohang, kids, count, chan>>

CloneNoSlot(p) ==
  /\ pc[p] = "cl_scan" /\ AtEnd(p)
  /\ poolLock' = None
  /\ UNCHANGED <<slotVars, plock, waitLock, creatingLock, creating, nextPid, flushed>>
  /\ Return(p)

(* Faulty variant: a creating_proc that has not run yet is overwritten. *)
MutCloneCreating(p) ==
  LET q == np[p] IN
  /\ pc[p] = "cl_creating"
  /\ creatingLock = None
  /\ creating' = q
  /\ pid' = Set(pid, q, nextPid)
  /\ nextPid' = nextPid + 1
  /\ state' = Set(state, q, "USED")
  /\ killed' = Set(killed, q, FALSE)
  /\ target' = Set(target, q, None)
  /\ parent' = Set(parent, q, None)
  /\ pc' = [pc EXCEPT ![p] = "cl_copy", ![q] = "forkret"]
  /\ UNCHANGED <<lockVars, flushed, idx, locals>>

(* alloc_proc() spins until creating_proc is NULL, still holding np->lock,  *)
(* then fills the slot in.                                                  *)
CloneCreating(p) ==
  LET q == np[p] IN
  /\ pc[p] = "cl_creating"
  /\ creatingLock = None /\ creating = None
  /\ creating' = q
  /\ pid' = Set(pid, q, nextPid)
  /\ nextPid' = nextPid + 1
  /\ state' = Set(state, q, "USED")
  /\ killed' = Set(killed, q, FALSE)
  /\ target' = Set(target, q, None)
  /\ parent' = Set(parent, q, None)
  /\ pc' = [pc EXCEPT ![p] = "cl_copy", ![q] = "forkret"]
  /\ UNCHANGED <<lockVars, flushed, idx, locals>>

(* No page table: the slot is freed again, but creating_proc stays set.     *)
CloneNoPageTable(p) ==
  /\ MayFail
  /\ pc[p] = "cl_creating"
  /\ creatingLock = None /\ creating = None
  /\ creating' = np[p]
  /\ nextPid' = nextPid + 1
  /\ plock' = Set(plock, np[p], None)
  /\ UNCHANGED <<slotVars, waitLock, poolLock, creatingLock, flushed>>
  /\ Return(p)

(* Faulty variant: np->lock is kept while wait_lock is taken. *)
MutCloneCopied(p) ==
  /\ pc[p] = "cl_copy"
  /\ Goto(p, "cl_parent")
  /\ UNCHANGED <<slotVars, lockVars, creating, nextPid, flushed, idx, locals>>

(* Memory, files and the working directory are copied; np is unlocked.      *)
CloneCopied(p) ==
  /\ pc[p] = "cl_copy"
  /\ plock' = Set(plock, np[p], None)
  /\ Goto(p, "cl_parent")
  /\ UNCHANGED <<slotVars, waitLock, poolLock, creatingLock, creating, nextPid, flushed,
                 idx, locals>>

CloneParent(p) ==
  /\ pc[p] = "cl_parent"
  /\ waitLock = None
  /\ parent' = Set(parent, np[p], p)
  /\ Goto(p, "cl_run")
  /\ UNCHANGED <<state, pid, killed, target, lockVars, creating, nextPid, flushed, idx, locals>>

CloneRunnable(p) ==
  /\ pc[p] = "cl_run"
  /\ plock[np[p]] = None
  /\ state' = Set(state, np[p], "RUNNABLE")
  /\ UNCHANGED <<parent, pid, killed, target, lockVars, creating, nextPid, flushed>>
  /\ Return(p)

-----------------------------------------------------------------------------
(* wait() *)

WaitLock(p) ==
  /\ pc[p] = "wt_lock"
  /\ waitLock = None
  /\ waitLock' = p
  /\ Rewind(p)
  /\ kids' = Set(kids, p, FALSE)
  /\ Goto(p, "wt_scan")
  /\ UNCHANGED <<slotVars, plock, poolLock, creatingLock, creating, nextPid, flushed,
                 np, arg, nohang, count, chan>>

Wanted(p, q) == arg[p] < 0 \/ pid[q] = arg[p]

(* One slot of the scan: parent is read under wait_lock only, the rest      *)
(* under the child's lock.                                                  *)
WaitScan(p) ==
  LET q == idx[p] IN
  /\ pc[p] = "wt_scan" /\ ~AtEnd(p)
  /\ parent[q] = p => plock[q] = None
  /\ ~(parent[q] = p /\ Wanted(p, q) /\ state[q] = "ZOMBIE")
  /\ kids' = IF parent[q] = p /\ Wanted(p, q) THEN Set(kids, p, TRUE) ELSE kids
  /\ Advance(p)
  /\ UNCHANGED <<slotVars, lockVars, creating, nextPid, flushed, pc, np, arg, nohang, count, chan>>

(* The child is freed and its pid returned. *)
WaitReap(p) ==
  LET q == idx[p] IN
  /\ pc[p] = "wt_scan" /\ ~AtEnd(p)
  /\ parent[q] = p /\ plock[q] = None
  /\ Wanted(p, q) /\ state[q] = "ZOMBIE"
  /\ Free(q)
  /\ waitLock' = None
  /\ UNCHANGED <<plock, poolLock, creatingLock, creating, nextPid, flushed>>
  /\ Return(p)

(* copyout() of the status failed: -1, and the child stays a zombie. *)
WaitBadAddress(p) ==
  LET q == idx[p] IN
  /\ pc[p] = "wt_scan" /\ ~AtEnd(p)
  /\ parent[q] = p /\ plock[q] = None
  /\ Wanted(p, q) /\ state[q] = "ZOMBIE"
  /\ waitLock' = None
  /\ UNCHANGED <<slotVars, plock, poolLock, creatingLock, creating, nextPid, flushed>>
  /\ Return(p)

(* No zombie was found: fail, return for WNOHANG, or go to sleep. *)
WaitGiveUp(p) ==
  /\ pc[p] = "wt_scan" /\ AtEnd(p)
  /\ ~kids[p] \/ killed[p] \/ nohang[p]
  /\ waitLock' = None
  /\ UNCHANGED <<slotVars, plock, poolLock, creatingLock, creating, nextPid, flushed>>
  /\ Return(p)

(* Faulty variant: wait_lock is released before p->lock is taken. *)
MutWaitDecideSleep(p) ==
  /\ pc[p] = "wt_scan" /\ AtEnd(p)
  /\ kids[p] /\ ~killed[p] /\ ~nohang[p]
  /\ waitLock' = None
  /\ Goto(p, "wt_sleep")
  /\ UNCHANGED <<slotVars, plock, poolLock, creatingLock, creating, nextPid, flushed, idx, locals>>

WaitDecideSleep(p) ==
  /\ pc[p] = "wt_scan" /\ AtEnd(p)
  /\ kids[p] /\ ~killed[p] /\ ~nohang[p]
  /\ Goto(p, "wt_sleep")
  /\ UNCHANGED <<slotVars, lockVars, creating, nextPid, flushed, idx, locals>>

(* sleep(p, &wait_lock): take p->lock, release wait_lock, switch away; the  *)
(* scheduler drops p->lock.                                                 *)
WaitSleep(p) ==
  /\ pc[p] = "wt_sleep"
  /\ plock[p] = None
  /\ waitLock' = None
  /\ target' = Set(target, p, p)
  /\ state' = Set(state, p, "SLEEPING")
  /\ Goto(p, "wt_asleep")
  /\ UNCHANGED <<parent, pid, killed, plock, poolLock, creatingLock, creating, nextPid,
                 flushed, idx, locals>>

(* Scheduled again: the rest of sleep() up to acquire(lk). *)
WaitWoken(p) ==
  /\ pc[p] = "wt_asleep" /\ state[p] = "RUNNABLE"
  /\ plock[p] = None
  /\ state' = Set(state, p, "RUNNING")
  /\ target' = Set(target, p, None)
  /\ Goto(p, "wt_lock")
  /\ UNCHANGED <<parent, pid, killed, lockVars, creating, nextPid, flushed, idx, locals>>

-----------------------------------------------------------------------------
(* kill(pid) *)

KillPool(p) ==
  /\ pc[p] = "kl_pool"
  /\ poolLock = None
  /\ poolLock' = p
  /\ Rewind(p)
  /\ Goto(p, "kl_scan")
  /\ UNCHANGED <<slotVars, plock, waitLock, creatingLock, creating, nextPid, flushed, locals>>

KillHit(p, q) == state[q] \notin {"UNUSED", "ZOMBIE"} /\ pid[q] = arg[p]

KillScan(p) ==
  /\ pc[p] = "kl_scan" /\ ~AtEnd(p)
  /\ plock[idx[p]] = None
  /\ ~KillHit(p, idx[p])
  /\ Advance(p)
  /\ UNCHANGED <<slotVars, lockVars, creating, nextPid, flushed, pc, locals>>

KillFound(p) ==
  LET q == idx[p] IN
  /\ pc[p] = "kl_scan" /\ ~AtEnd(p)
  /\ plock[q] = None
  /\ KillHit(p, q)
  /\ killed' = Set(killed, q, TRUE)
  /\ state' = IF state[q] = "SLEEPING" THEN Set(state, q, "RUNNABLE") ELSE state
  /\ poolLock' = None
  /\ UNCHANGED <<parent, pid, target, plock, waitLock, creatingLock, creating, nextPid, flushed>>
  /\ Return(p)

KillNone(p) ==
  /\ pc[p] = "kl_scan" /\ AtEnd(p)
  /\ poolLock' = None
  /\ UNCHANGED <<slotVars, plock, waitLock, creatingLock, creating, nextPid, flushed>>
  /\ Return(p)

-----------------------------------------------------------------------------
(* sys_times() takes the own p->lock and calls get_cpu_time(), which takes  *)
(* pool_lock and every other p->lock in turn.                               *)

TimesOwn(p) ==
  /\ pc[p] = "tm_own"
  /\ plock[p] = None
  /\ plock' = Set(plock, p, p)
  /\ Goto(p, "tm_pool")
  /\ UNCHANGED <<slotVars, waitLock, poolLock, creatingLock, creating, nextPid, flushed,
                 idx, locals>>

TimesPool(p) ==
  /\ pc[p] = "tm_pool"
  /\ poolLock = None
  /\ poolLock' = p
  /\ Rewind(p)
  /\ Goto(p, "tm_scan")
  /\ UNCHANGED <<slotVars, plock, waitLock, creatingLock, creating, nextPid, flushed, locals>>

TimesScan(p) ==
  /\ pc[p] = "tm_scan" /\ ~AtEnd(p)
  /\ idx[p] # p => plock[idx[p]] = None
  /\ Advance(p)
  /\ UNCHANGED <<slotVars, lockVars, creating, nextPid, flushed, pc, locals>>

TimesDone(p) ==
  /\ pc[p] = "tm_scan" /\ AtEnd(p)
  /\ poolLock' = None
  /\ plock' = Set(plock, p, None)
  /\ UNCHANGED <<slotVars, waitLock, creatingLock, creating, nextPid, flushed>>
  /\ Return(p)

-----------------------------------------------------------------------------
(* exit() *)

(* Files and the working directory are closed under the own lock; the last  *)
(* end of a pipe calls wakeup() there.                                      *)
ExitClose(p) ==
  /\ pc[p] = "exit"
  /\ plock[p] = None
  /\ \/ Goto(p, "ex_lock") /\ UNCHANGED plock
     \/ IoWakeups /\ plock' = Set(plock, p, p) /\ Goto(p, "wk_lock")
  /\ UNCHANGED <<slotVars, waitLock, poolLock, creatingLock, creating, nextPid, flushed,
                 idx, locals>>

ExitWaitLock(p) ==
  /\ pc[p] = "ex_lock"
  /\ waitLock = None
  /\ waitLock' = p
  /\ Rewind(p)
  /\ Goto(p, "ex_orphan")
  /\ UNCHANGED <<slotVars, plock, poolLock, creatingLock, creating, nextPid, flushed, locals>>

(* Faulty variant: zombie children are orphaned like living ones. *)
MutExitReparent(p) ==
  LET q == idx[p] IN
  /\ pc[p] = "ex_orphan" /\ ~AtEnd(p)
  /\ q # p => plock[q] = None
  /\ parent' = IF q # p /\ parent[q] = p THEN Set(parent, q, None) ELSE parent
  /\ Advance(p)
  /\ UNCHANGED <<state, pid, killed, target, lockVars, creating, nextPid, flushed, pc, locals>>

(* Faulty variant: every zombie that is met is freed. *)
MutExitReparentAll(p) ==
  LET q == idx[p] IN
  /\ pc[p] = "ex_orphan" /\ ~AtEnd(p)
  /\ q # p => plock[q] = None
  /\ IF q # p /\ state[q] = "ZOMBIE"
       THEN Free(q)
       ELSE /\ parent' = IF parent[q] = p THEN Set(parent, q, None) ELSE parent
            /\ UNCHANGED <<state, pid, killed, target>>
  /\ Advance(p)
  /\ UNCHANGED <<lockVars, creating, nextPid, flushed, pc, locals>>

(* reparent(): a zombie child is freed, a living one loses its parent. *)
ExitReparent(p) ==
  LET q == idx[p] IN
  /\ pc[p] = "ex_orphan" /\ ~AtEnd(p)
  /\ q # p => plock[q] = None
  /\ IF q # p /\ state[q] # "UNUSED" /\ parent[q] = p
       THEN IF state[q] = "ZOMBIE"
              THEN Free(q)
              ELSE parent' = Set(parent, q, None) /\ UNCHANGED <<state, pid, killed, target>>
       ELSE UNCHANGED slotVars
  /\ Advance(p)
  /\ UNCHANGED <<lockVars, creating, nextPid, flushed, pc, locals>>

ExitReparented(p) ==
  /\ pc[p] = "ex_orphan" /\ AtEnd(p)
  /\ waitLock' = None
  /\ Goto(p, "ex_pool")
  /\ UNCHANGED <<slotVars, plock, poolLock, creatingLock, creating, nextPid, flushed, idx, locals>>

(* the_only_proc_in_pool() *)
ExitPool(p) ==
  /\ pc[p] = "ex_pool"
  /\ poolLock = None
  /\ poolLock' = p
  /\ Rewind(p)
  /\ count' = Set(count, p, 0)
  /\ Goto(p, "ex_count")
  /\ UNCHANGED <<slotVars, plock, waitLock, creatingLock, creating, nextPid, flushed,
                 np, arg, nohang, kids, chan>>

(* Faulty variant: only processes that can run are counted. *)
MutExitCount(p) ==
  LET q == idx[p] IN
  /\ pc[p] = "ex_count" /\ ~AtEnd(p)
  /\ plock[q] = None
  /\ count' = IF state[q] \in {"RUNNABLE", "RUNNING"} THEN Set(count, p, count[p] + 1) ELSE count
  /\ Advance(p)
  /\ UNCHANGED <<slotVars, lockVars, creating, nextPid, flushed, pc, np, arg, nohang, kids, chan>>

ExitCount(p) ==
  LET q == idx[p] IN
  /\ pc[p] = "ex_count" /\ ~AtEnd(p)
  /\ plock[q] = None
  /\ count' = IF state[q] # "UNUSED" THEN Set(count, p, count[p] + 1) ELSE count
  /\ Advance(p)
  /\ UNCHANGED <<slotVars, lockVars, creating, nextPid, flushed, pc, np, arg, nohang, kids, chan>>

(* The last process writes the page cache back. *)
ExitCounted(p) ==
  /\ pc[p] = "ex_count" /\ AtEnd(p)
  /\ poolLock' = None
  /\ flushed' = (flushed \/ count[p] = 1)
  /\ count' = Set(count, p, 0)
  /\ Goto(p, "ex_lock2")
  /\ UNCHANGED <<slotVars, plock, waitLock, creatingLock, creating, nextPid, idx,
                 np, arg, nohang, kids, chan>>

ExitWaitLock2(p) ==
  /\ pc[p] = "ex_lock2"
  /\ waitLock = None
  /\ waitLock' = p
  /\ Goto(p, "ex_own")
  /\ UNCHANGED <<slotVars, plock, poolLock, creatingLock, creating, nextPid, flushed, idx, locals>>

(* Faulty variant: the exiting process wakes itself, not its parent. *)
MutExitZombie(p) ==
  /\ pc[p] = "ex_own" /\ parent[p] # None
  /\ plock[p] = None
  /\ plock' = Set(plock, p, p)
  /\ state' = Set(state, p, "ZOMBIE")
  /\ chan' = Set(chan, p, p)
  /\ Goto(p, "wk_lock")
  /\ UNCHANGED <<parent, pid, killed, target, waitLock, poolLock, creatingLock, creating,
                 nextPid, flushed, idx, np, arg, nohang, kids, count>>

(* Faulty variant: the process keeps wait_lock when it leaves the CPU. *)
MutExitSwitch(p) ==
  /\ pc[p] = "ex_switch"
  /\ plock' = Set(plock, p, None)
  /\ Rewind(p)
  /\ Goto(p, "off")
  /\ UNCHANGED <<slotVars, waitLock, poolLock, creatingLock, creating, nextPid, flushed, locals>>

(* With a parent: become a zombie and call wakeup(p->parent), all under     *)
(* p->lock.  Without: free the own slot.                                    *)
ExitZombie(p) ==
  /\ pc[p] = "ex_own" /\ parent[p] # None
  /\ plock[p] = None
  /\ plock' = Set(plock, p, p)
  /\ state' = Set(state, p, "ZOMBIE")
  /\ chan' = Set(chan, p, parent[p])
  /\ Goto(p, "wk_lock")
  /\ UNCHANGED <<parent, pid, killed, target, waitLock, poolLock, creatingLock, creating,
                 nextPid, flushed, idx, np, arg, nohang, kids, count>>

ExitFree(p) ==
  /\ pc[p] = "ex_own" /\ parent[p] = None
  /\ plock[p] = None
  /\ plock' = Set(plock, p, p)
  /\ Free(p)
  /\ Goto(p, "ex_switch")
  /\ UNCHANGED <<waitLock, poolLock, creatingLock, creating, nextPid, flushed, idx, locals>>

(* Release wait_lock and leave the CPU for good; the scheduler drops p->lock. *)
ExitSwitch(p) ==
  /\ pc[p] = "ex_switch"
  /\ waitLock' = None
  /\ plock' = Set(plock, p, None)
  /\ Rewind(p)
  /\ Goto(p, "off")
  /\ UNCHANGED <<slotVars, poolLock, creatingLock, creating, nextPid, flushed, locals>>

-----------------------------------------------------------------------------

(* What the kernel does for a process once it has entered it *)
Step(p) ==
  \/ FirstRun(p) \/ Forkret(p) \/ Interrupt(p)
  \/ WakeupLock(p) \/ WakeupScan(p) \/ WakeupDone(p)
  \/ ClonePool(p) \/ CloneScan(p) \/ CloneNoSlot(p) \/ CloneCreating(p)
  \/ CloneNoPageTable(p) \/ CloneCopied(p) \/ CloneParent(p) \/ CloneRunnable(p)
  \/ WaitLock(p) \/ WaitScan(p) \/ WaitReap(p) \/ WaitBadAddress(p)
  \/ WaitGiveUp(p) \/ WaitDecideSleep(p) \/ WaitSleep(p) \/ WaitWoken(p)
  \/ KillPool(p) \/ KillScan(p) \/ KillFound(p) \/ KillNone(p)
  \/ TimesOwn(p) \/ TimesPool(p) \/ TimesScan(p) \/ TimesDone(p)
  \/ ExitClose(p) \/ ExitWaitLock(p) \/ ExitReparent(p) \/ ExitReparented(p)
  \/ ExitPool(p) \/ ExitCount(p) \/ ExitCounted(p) \/ ExitWaitLock2(p)
  \/ ExitZombie(p) \/ ExitFree(p) \/ ExitSwitch(p)

(* The process table is empty: the harts have shut down. *)
Halted == (\A p \in Procs : state[p] = "UNUSED" /\ pc[p] = "off") /\ UNCHANGED vars

Next == Halted \/ \E p \in Procs : Step(p) \/ Syscall(p)

Spec == Init /\ [][Next]_vars

(* A hart inside the kernel keeps going, and wins a spin lock that is free  *)
(* again and again; user programs owe nothing.                              *)
FairSpec == Spec /\ \A p \in Procs : SF_vars(Step(p))
-----------------------------------------------------------------------------
(* Properties *)

(* Every variable has its type; proc.h, enum procstate and struct proc. *)
TypeOK ==
  /\ state \in [Procs -> States]
  /\ parent \in [Procs -> Procs \cup {None}]
  /\ pid \in [Procs -> Nat]
  /\ killed \in [Procs -> BOOLEAN]
  /\ target \in [Procs -> Procs \cup {None}]
  /\ plock \in [Procs -> Procs \cup {None}]
  /\ {waitLock, poolLock, creatingLock, creating} \subseteq Procs \cup {None}
  /\ nextPid \in Nat \ {0}
  /\ flushed \in BOOLEAN
  /\ pc \in [Procs -> Points]
  /\ idx \in [Procs -> 1 .. NPROC + 1]
  /\ np \in [Procs -> Procs \cup {None}]
  /\ arg \in [Procs -> Args \cup {AnyPid}]
  /\ nohang \in [Procs -> BOOLEAN] /\ kids \in [Procs -> BOOLEAN]
  /\ count \in [Procs -> 0 .. NPROC]
  /\ chan \in [Procs -> Procs \cup {None}]

(* p has been past slot q in the loop of exit() that gives up its children. *)
LetGo(p, q) ==
  \/ pc[p] \in {"off", "forkret", "ex_pool", "ex_count", "ex_lock2", "ex_own", "ex_switch"}
  \/ chan[p] # None
  \/ pc[p] = "ex_orphan" /\ idx[p] > q

(* A parent pointer never dangles: it leads to a process that has not yet   *)
(* given up that child, so that exit() wakes, and wait() is called by, the  *)
(* process that made the clone and not a later user of its slot; and nobody *)
(* stays a zombie without a parent that can still reap it.                  *)
FamilyTree ==
  \A q \in Procs :
    /\ parent[q] # None => /\ state[parent[q]] \notin {"UNUSED", "ZOMBIE"}
                           /\ ~LetGo(parent[q], q)
    /\ state[q] = "ZOMBIE" => parent[q] # None

(* No exit is missed: while a parent sleeps in wait() for a child that is a *)
(* zombie, that child is still on its way to wake it.                       *)
NoLostExitWakeup ==
  \A p, q \in Procs :
    /\ pc[p] = "wt_asleep" /\ state[p] = "SLEEPING"
    /\ parent[q] = p /\ Wanted(p, q) /\ state[q] = "ZOMBIE"
    => pc[q] = "wk_lock" \/ (pc[q] = "wk_scan" /\ idx[q] <= p)

(* wakeup() skips creating_proc without looking at it: that must be the     *)
(* process between alloc_proc() and forkret(), whose lock its parent may    *)
(* hold and which cannot be asleep; after a failed clone() it is a slot out *)
(* of use.                                                                  *)
CreatingExact ==
  \A q \in Procs :
    /\ pc[q] \in {"forkret", "forked"} => creating = q
    /\ creating = q => pc[q] \in {"forkret", "forked", "off"}

(* A zombie is freed by its own parent under wait_lock, and by nobody else. *)
ReapedByParent ==
  [][\A q \in Procs : state[q] = "ZOMBIE" /\ state'[q] # "ZOMBIE"
       => state'[q] = "UNUSED" /\ waitLock = parent[q]]_vars

(* The page cache is written back only by a process that is alone: nobody   *)
(* else can still have file pages to write.                                 *)
FlushedAlone ==
  flushed => Cardinality({q \in Procs : state[q] # "UNUSED"}) <= 1

(* The processes that hold what p spins on *)
AwaitsTable(p) ==
  ( (IF pc[p] \in {"wt_lock", "ex_lock", "ex_lock2", "cl_parent"} THEN {waitLock} ELSE {})
    \cup (IF pc[p] \in {"cl_pool", "kl_pool", "ex_pool", "tm_pool"} THEN {poolLock} ELSE {})
    \cup (IF pc[p] \in {"cl_scan", "kl_scan", "ex_count"} /\ ~AtEnd(p) THEN {plock[idx[p]]} ELSE {})
    \cup (IF pc[p] = "wt_scan" /\ ~AtEnd(p) /\ parent[idx[p]] = p THEN {plock[idx[p]]} ELSE {})
    \cup (IF pc[p] \in {"ex_orphan", "tm_scan"} /\ ~AtEnd(p) /\ idx[p] # p THEN {plock[idx[p]]} ELSE {})
    \cup (IF pc[p] = "wk_scan" /\ ~AtEnd(p) /\ idx[p] \notin {p, creating} THEN {plock[idx[p]]} ELSE {})
    \cup (IF pc[p] = "cl_run" THEN {plock[np[p]]} ELSE {})
    \cup (IF pc[p] \in {"wt_sleep", "exit", "ex_own", "tm_own"} THEN {plock[p]} ELSE {}) ) \ {None}

(* wait_lock, pool_lock and the p->locks are taken in an order that closes  *)
(* no cycle (proc.c:18: wait_lock "must be acquired before any p->lock")    *)
(* but for times(), which wants pool_lock and the other p->locks while it   *)
(* holds its own: every deadlock of the process table has a process in      *)
(* times(), or one that waits for creating_lock or for creating_proc.       *)
LocksOrdered ==
  \A S \in (SUBSET {p \in Procs : pc[p] \notin {"tm_pool", "tm_scan"}}) \ {{}} :
    \E p \in S : AwaitsTable(p) \cap S = {}

(* wait() returns once a child it waits for has terminated.                 *)
WaitReturns ==
  \A p, q \in Procs :
    pc[p] \in WaitPoints /\ parent[q] = p /\ Wanted(p, q) /\ state[q] = "ZOMBIE"
      ~> pc[p] \notin WaitPoints

(* exit() comes to its end and leaves the slot to the parent or to the pool. *)
ExitCompletes == \A p \in Procs : pc[p] \in ExitPoints ~> pc[p] = "off"

=============================================================================
