----------------------------- MODULE SleepLock -----------------------------
(***************************************************************************)
(* One struct mutex: acquire_mutex_sleep() and release_mutex_sleep() over  *)
(* sleep() and wakeup(), at the granularity of the spin locks: the guard   *)
(* lock of the mutex and the lock of each process.  wakeup() visits the    *)
(* processes one by one; sleep() holds p->lock from before it gives the    *)
(* guard up until the process is off its hart.                             *)
(*                                                                         *)
(* creating_lock is left out: with one mutex every wakeup() runs under the *)
(* guard, and the locks around it are the subject of ProcTree.             *)
(***************************************************************************)
EXTENDS Integers

CONSTANTS
  N,        (* number of processes that use the mutex                       *)
  Kills     (* TRUE: kill() may make a sleeping process runnable            *)

ASSUME SleepLockAssumption == N \in Nat \ {0} /\ Kills \in BOOLEAN

Procs == 1 .. N
None == 0

VARIABLES
  locked,   (* mu->locked                                                   *)
  holder,   (* mu->pid                                                      *)
  guard,    (* owner of mu->guard_lock                                      *)
  plock,    (* owner of each p->lock                                        *)
  state,    (* p->state                                                     *)
  onMu,     (* p->waiting_target == mu                                      *)
  pc,       (* control point of each process                                *)
  idx       (* loop variable of wakeup()                                    *)

vars == <<locked, holder, guard, plock, state, onMu, pc, idx>>

States == {"RUNNING", "RUNNABLE", "SLEEPING"}
Acquiring == {"guard", "test", "off", "asleep"}
Points == Acquiring \cup {"idle", "held", "scan"}

Init ==
  /\ locked = FALSE /\ holder = None /\ guard = None
  /\ plock = [p \in Procs |-> None]
  /\ state = [p \in Procs |-> "RUNNING"]
  /\ onMu = [p \in Procs |-> FALSE]
  /\ pc = [p \in Procs |-> "idle"]
  /\ idx = [p \in Procs |-> 1]

Goto(p, l) == pc' = [pc EXCEPT ![p] = l]

-----------------------------------------------------------------------------
(* acquire_mutex_sleep() *)

Want(p) ==
  /\ pc[p] = "idle"
  /\ Goto(p, "guard")
  /\ UNCHANGED <<locked, holder, guard, plock, state, onMu, idx>>

(* acquire(&mu->guard_lock), on entry and at the end of sleep()             *)
Guard(p) ==
  /\ pc[p] = "guard" /\ guard = None
  /\ guard' = p
  /\ Goto(p, "test")
  /\ UNCHANGED <<locked, holder, plock, state, onMu, idx>>

(* Faulty variant: a woken process takes the mutex without testing again.   *)
MutTake(p) ==
  /\ pc[p] = "test"
  /\ locked' = TRUE /\ holder' = p
  /\ guard' = None
  /\ Goto(p, "held")
  /\ UNCHANGED <<plock, state, onMu, idx>>

Take(p) ==
  /\ pc[p] = "test" /\ ~locked
  /\ locked' = TRUE /\ holder' = p
  /\ guard' = None
  /\ Goto(p, "held")
  /\ UNCHANGED <<plock, state, onMu, idx>>

(* Faulty variant: sleep() releases the guard before it takes p->lock.      *)
MutSleepLock(p) ==
  /\ pc[p] = "test" /\ locked
  /\ guard' = None
  /\ Goto(p, "off")
  /\ UNCHANGED <<locked, holder, plock, state, onMu, idx>>

(* sleep(mu, &mu->guard_lock) as far as release(lk)                         *)
SleepLock(p) ==
  /\ pc[p] = "test" /\ locked
  /\ plock[p] = None
  /\ plock' = [plock EXCEPT ![p] = p]
  /\ guard' = None
  /\ Goto(p, "off")
  /\ UNCHANGED <<locked, holder, state, onMu, idx>>

(* ... the switch; the scheduler drops p->lock                              *)
SleepSwitch(p) ==
  /\ pc[p] = "off"
  /\ onMu' = [onMu EXCEPT ![p] = TRUE]
  /\ state' = [state EXCEPT ![p] = "SLEEPING"]
  /\ plock' = [plock EXCEPT ![p] = None]
  /\ Goto(p, "asleep")
  /\ UNCHANGED <<locked, holder, guard, idx>>

(* ... and back, as far as acquire(lk)                                      *)
Woken(p) ==
  /\ pc[p] = "asleep" /\ state[p] = "RUNNABLE"
  /\ plock[p] = None
  /\ state' = [state EXCEPT ![p] = "RUNNING"]
  /\ onMu' = [onMu EXCEPT ![p] = FALSE]
  /\ Goto(p, "guard")
  /\ UNCHANGED <<locked, holder, guard, plock, idx>>

-----------------------------------------------------------------------------
(* release_mutex_sleep() *)

(* Faulty variant: the scan begins one slot before pool[].                  *)
MutUnlock(p) ==
  /\ pc[p] = "held" /\ guard = None
  /\ guard' = p
  /\ locked' = FALSE /\ holder' = None
  /\ idx' = [idx EXCEPT ![p] = 0]
  /\ Goto(p, "scan")
  /\ UNCHANGED <<plock, state, onMu>>

Unlock(p) ==
  /\ pc[p] = "held" /\ guard = None
  /\ guard' = p
  /\ locked' = FALSE /\ holder' = None
  /\ idx' = [idx EXCEPT ![p] = 1]
  /\ Goto(p, "scan")
  /\ UNCHANGED <<plock, state, onMu>>

(* wakeup(mu), one process                                                  *)
Wake(p) ==
  LET q == idx[p] IN
  /\ pc[p] = "scan" /\ q <= N
  /\ q # p => plock[q] = None
  /\ state' = IF q # p /\ state[q] = "SLEEPING" /\ onMu[q]
                THEN [state EXCEPT ![q] = "RUNNABLE"] ELSE state
  /\ idx' = [idx EXCEPT ![p] = q + 1]
  /\ UNCHANGED <<locked, holder, guard, plock, onMu, pc>>

Unlocked(p) ==
  /\ pc[p] = "scan" /\ idx[p] > N
  /\ guard' = None
  /\ Goto(p, "idle")
  /\ UNCHANGED <<locked, holder, plock, state, onMu, idx>>

(* kill() of a process that sleeps; acquire_mutex_sleep() does not look at  *)
(* p->killed.                                                               *)
Kill(p) ==
  /\ Kills
  /\ state[p] = "SLEEPING" /\ plock[p] = None
  /\ state' = [state EXCEPT ![p] = "RUNNABLE"]
  /\ UNCHANGED <<locked, holder, guard, plock, onMu, pc, idx>>

-----------------------------------------------------------------------------

(* The steps inside the two functions; entering them is up to the caller.  *)
Step(p) ==
  \/ Guard(p) \/ Take(p) \/ SleepLock(p) \/ SleepSwitch(p) \/ Woken(p)
  \/ Wake(p) \/ Unlocked(p)

Next == \E p \in Procs : Want(p) \/ Unlock(p) \/ Step(p) \/ Kill(p)

Spec == Init /\ [][Next]_vars

-----------------------------------------------------------------------------
(* Properties *)

(* Every variable has its type; mutex.h and proc.h. *)
TypeOK ==
  /\ locked \in BOOLEAN
  /\ holder \in Procs \cup {None} /\ guard \in Procs \cup {None}
  /\ plock \in [Procs -> Procs \cup {None}]
  /\ state \in [Procs -> States]
  /\ onMu \in [Procs -> BOOLEAN]
  /\ pc \in [Procs -> Points]
  /\ idx \in [Procs -> 1 .. N + 1]

(* Between acquire_mutex_sleep() and release_mutex_sleep() a process is the *)
(* one that holdingsleep() names (release_buf() panics otherwise), hence    *)
(* the only one.                                                            *)
HolderExact == \A p \in Procs : pc[p] = "held" <=> locked /\ holder = p

(* Nobody sleeps on a free mutex, except while the scan that will wake it   *)
(* has not come to it yet.                                                  *)
NoLostWakeup ==
  \A p \in Procs :
    ~locked /\ state[p] = "SLEEPING"
      => \E r \in Procs : pc[r] = "scan" /\ idx[r] <= p

(* The mutex of mutex.c is a mutex.                                         *)
M == INSTANCE Mutex WITH
       NoProc <- None,
       owner <- IF locked THEN holder ELSE None,
       waiting <- {p \in Procs : pc[p] \in Acquiring}

ImplementsMutex == M!MSpec

(* A mutex that processes wait for does not stay free: one of them gets it. *)
GrantedWhenFree ==
  (~locked /\ \E p \in Procs : pc[p] \in Acquiring) ~> locked

=============================================================================
