---------------------------- MODULE ProcTreeProof ----------------------------
(* Proofs about ProcTree, for any number of slots and any bound on pids. *)
EXTENDS ProcTree, FiniteSetTheorems, TLAPS

Cloning == {"cl_creating", "cl_copy", "cl_parent", "cl_run"}
Wakes == {"wk_lock", "wk_scan"}

(* exit() wakes the parent: the process is a zombie and has wait_lock and   *)
(* its own lock.                                                            *)
WakesParent(p) == pc[p] \in Wakes /\ chan[p] # None

(* What p->state and the locals are at each control point. *)
InvState ==
  \A p \in Procs :
    /\ pc[p] = "off" => state[p] \in {"UNUSED", "ZOMBIE"}
    /\ pc[p] = "forkret" => state[p] \in {"USED", "RUNNABLE"}
    /\ pc[p] = "wt_asleep" => state[p] \in {"SLEEPING", "RUNNABLE"} /\ target[p] = p
    /\ pc[p] = "ex_switch" => state[p] \in {"UNUSED", "ZOMBIE"}
    /\ chan[p] # None => pc[p] \in Wakes /\ state[p] = "ZOMBIE" /\ parent[p] = chan[p]
    /\ pc[p] \notin {"off", "forkret", "wt_asleep", "ex_switch"} /\ chan[p] = None
         => state[p] = "RUNNING"

(* The slot that clone() fills in belongs to one process. *)
InvClone ==
  /\ \A p \in Procs :
       /\ pc[p] \in Cloning => np[p] \in Procs \ {p}
       /\ pc[p] = "cl_creating" => state[np[p]] = "UNUSED" /\ pc[np[p]] = "off"
       /\ pc[p] \in Cloning \ {"cl_creating"} => state[np[p]] = "USED"
       /\ pc[p] \in {"cl_copy", "cl_parent"} => parent[np[p]] = None
  /\ \A p, q \in Procs :
       pc[p] \in Cloning /\ pc[q] \in Cloning /\ np[p] = np[q] => p = q

(* Which locks are held follows from where the processes are. *)
InvLocks ==
  /\ \A p \in Procs :
       /\ poolLock = p <=> pc[p] \in {"cl_scan", "kl_scan", "ex_count", "tm_scan"}
       /\ creatingLock = p <=> pc[p] = "wk_scan"
       /\ waitLock = p <=> \/ pc[p] \in {"wt_scan", "wt_sleep", "ex_orphan", "ex_own", "ex_switch"}
                           \/ WakesParent(p)
       /\ pc[p] \in {"forked", "ex_switch", "tm_pool", "tm_scan"} \/ WakesParent(p)
            => plock[p] = p
       /\ pc[p] \in {"cl_creating", "cl_copy"} => plock[np[p]] = p
  /\ \A q \in Procs : plock[q] # None =>
       \/ plock[q] = q /\ pc[q] \in {"forked", "ex_switch", "tm_pool", "tm_scan"} \cup Wakes
       \/ pc[plock[q]] \in {"cl_creating", "cl_copy"} /\ np[plock[q]] = q

(* Nobody is its own parent, and a slot out of use has no parent. *)
InvParent ==
  \A q \in Procs : parent[q] # q /\ (state[q] = "UNUSED" => parent[q] = None)

(* The scan of wait() has passed no child that it should have reaped; exit  *)
(* needs wait_lock to make one.                                             *)
InvWait ==
  \A p, q \in Procs :
    \/ pc[p] = "wt_scan" /\ idx[p] > q
    \/ pc[p] = "wt_sleep"
    => ~(parent[q] = p /\ Wanted(p, q) /\ state[q] = "ZOMBIE")

InUse == {q \in Procs : state[q] # "UNUSED"}

(* What the_only_proc_in_pool() knows of the slots it has passed. While it  *)
(* has pool_lock nobody takes a slot, and one it has passed is not about to *)
(* be filled in, since it was not locked.                                   *)
InvCount ==
  \A p \in Procs : pc[p] = "ex_count" =>
    /\ idx[p] > count[p]
    /\ count[p] = 0 => \A q \in InUse : idx[p] <= q
    /\ count[p] = 1 => \A q, r \in InUse : idx[p] > q /\ idx[p] > r => q = r
    /\ \A r \in Procs : pc[r] = "cl_creating" => idx[p] <= np[r]

(* Whoever was alone in exit() stays alone, and creates nobody. *)
InvFlushed ==
  flushed =>
    /\ \A q, r \in InUse : q = r
    /\ \A q \in InUse : pc[q] \in {"ex_lock2", "ex_own", "ex_switch", "off"} \/ WakesParent(q)

IInv ==
  /\ TypeOK /\ InvState /\ InvClone /\ InvLocks /\ CreatingExact /\ InvParent /\ FamilyTree
  /\ InvWait /\ NoLostExitWakeup /\ InvCount /\ InvFlushed

(* A step of p moves p and nobody else, but for the child in clone().       *)
OthersLocalsStay(p) ==
  \A q \in Procs : q # p =>
    /\ idx'[q] = idx[q] /\ np'[q] = np[q] /\ arg'[q] = arg[q]
    /\ count'[q] = count[q] /\ chan'[q] = chan[q]

OthersStay(p) ==
  OthersLocalsStay(p) /\ \A q \in Procs : q # p => pc'[q] = pc[q]

-----------------------------------------------------------------------------
(* NULL is no process. *)
LEMMA NoneFact == None \notin Procs
  BY DEF Procs, None

(* Whatever p does, the local variables of the other processes stay.        *)
LEMMA OthersLocals ==
  ASSUME TypeOK, NEW p \in Procs, Step(p) \/ Syscall(p)
  PROVE  OthersLocalsStay(p)
<1> SUFFICES ASSUME NEW q \in Procs, q # p
             PROVE  /\ idx'[q] = idx[q] /\ np'[q] = np[q] /\ arg'[q] = arg[q]
                    /\ count'[q] = count[q] /\ chan'[q] = chan[q]
  BY DEF OthersLocalsStay
<1> USE DEF TypeOK, Set, Advance, Rewind,
        Step, Return, Free, slotVars, lockVars, locals, FirstRun, Forkret,
        Interrupt, WakeupLock, WakeupScan, WakeupDone, ClonePool, CloneScan,
        CloneNoSlot, CloneCreating, CloneNoPageTable, CloneCopied,
        CloneParent, CloneRunnable, WaitLock, WaitScan, WaitReap,
        WaitBadAddress, WaitGiveUp, WaitDecideSleep, WaitSleep, WaitWoken,
        KillPool, KillScan, KillFound, KillNone, TimesOwn, TimesPool,
        TimesScan, TimesDone, ExitClose, ExitWaitLock,
        ExitReparent, ExitReparented, ExitPool, ExitCount, ExitCounted,
        ExitWaitLock2, ExitZombie, ExitFree, ExitSwitch, Syscall
<1>1. idx'[q] = idx[q]
  OBVIOUS
<1>2. np'[q] = np[q]
  OBVIOUS
<1>3. arg'[q] = arg[q]
  OBVIOUS
<1>4. count'[q] = count[q]
  OBVIOUS
<1>5. chan'[q] = chan[q]
  OBVIOUS
<1> QED  BY <1>1, <1>2, <1>3, <1>4, <1>5

(* Only alloc_proc() moves another process: it starts the child.            *)
LEMMA OthersControl ==
  ASSUME TypeOK, NEW p \in Procs, Step(p) \/ Syscall(p), ~CloneCreating(p)
  PROVE  OthersStay(p)
<1> SUFFICES ASSUME NEW q \in Procs, q # p
             PROVE  pc'[q] = pc[q]
  BY OthersLocals DEF OthersStay
<1> QED
  BY DEF TypeOK, Goto, Step, Return, slotVars, lockVars, locals,
         FirstRun, Forkret, Interrupt, WakeupLock, WakeupScan, WakeupDone,
         ClonePool, CloneScan, CloneNoSlot, CloneNoPageTable, CloneCopied,
         CloneParent, CloneRunnable, WaitLock, WaitScan, WaitReap,
         WaitBadAddress, WaitGiveUp, WaitDecideSleep, WaitSleep, WaitWoken,
         KillPool, KillScan, KillFound, KillNone, TimesOwn, TimesPool,
        TimesScan, TimesDone, ExitClose, ExitWaitLock,
         ExitReparent, ExitReparented, ExitPool, ExitCount, ExitCounted,
         ExitWaitLock2, ExitZombie, ExitFree, ExitSwitch, Syscall

-----------------------------------------------------------------------------
(* Every action keeps the inductive invariant: one lemma per action, each   *)
(* with the effects of the action first and one step per conjunct after.    *)

(* The scheduler starts a child under its own lock: it is in use already,   *)
(* so no count of exit() and no parent changes, and its lock is one it may  *)
(* hold.                                                                    *)
LEMMA FirstRunStep ==
  ASSUME IInv, NEW p \in Procs, FirstRun(p), OthersStay(p)
  PROVE  IInv'
<1>1. /\ pc[p] = "forkret" /\ pc'[p] = "forked" /\ state[p] = "RUNNABLE" /\
        plock[p] = None
      /\ UNCHANGED <<parent, pid, target, waitLock, poolLock,
                      creatingLock, creating, flushed, np, arg, count,
                      chan, idx>>
  BY DEF IInv, TypeOK, FirstRun, Goto, Set, locals
<1>2. /\ \A q \in Procs : plock'[q] = IF q = p THEN p ELSE plock[q]
      /\ \A q \in Procs : state'[q] = IF q = p THEN "RUNNING" ELSE state[q]
  BY DEF IInv, TypeOK, FirstRun, Goto, Set, locals
<1>3. TypeOK'
  BY ProcTreeAssumption
     DEF IInv, TypeOK, FirstRun, Goto, Set, locals, Points, WaitPoints,
         ExitPoints, States
<1> USE NoneFact, <1>1, <1>2 DEF IInv, OthersStay, OthersLocalsStay
<1>4. InvState' /\ InvClone' /\ CreatingExact' /\ InvParent'
  BY DEF InvState, Wakes, InvClone, Cloning, CreatingExact, InvParent
<1>5. InvLocks'
  BY DEF TypeOK, InvLocks, WakesParent, Wakes, InvClone, Cloning
<1>6. FamilyTree'
  BY DEF TypeOK, FamilyTree, LetGo
<1>7. InvWait'
  BY DEF InvWait, Wanted
<1>8. NoLostExitWakeup'
  BY DEF NoLostExitWakeup, Wanted
<1>9. InvCount' /\ InvFlushed'
  BY DEF InvCount, InUse, InvFlushed, WakesParent, Wakes
<1> QED
  BY <1>3, <1>4, <1>5, <1>6, <1>7, <1>8, <1>9 DEF IInv

(* forkret() clears creating_proc: this is the process it names, so the     *)
(* name and the control points change together.                             *)
LEMMA ForkretStep ==
  ASSUME IInv, NEW p \in Procs, Forkret(p), OthersStay(p)
  PROVE  IInv'
<1>1. /\ pc[p] = "forked" /\ pc'[p] = "user" /\ creatingLock = None /\
        creating' = None
      /\ UNCHANGED <<state, parent, pid, target, waitLock, poolLock,
                      creatingLock, flushed, np, arg, count, chan, idx>>
  BY DEF IInv, TypeOK, Forkret, Goto, Set, slotVars, locals
<1>2. /\ \A q \in Procs : plock'[q] = IF q = p THEN None ELSE plock[q]
  BY DEF IInv, TypeOK, Forkret, Goto, Set, slotVars, locals
<1>3. TypeOK'
  BY ProcTreeAssumption
     DEF IInv, TypeOK, Forkret, Goto, Set, slotVars, locals, Points,
         WaitPoints, ExitPoints
<1> USE NoneFact, <1>1, <1>2 DEF IInv, OthersStay, OthersLocalsStay
<1>4. InvState' /\ InvClone' /\ CreatingExact' /\ InvParent'
  BY DEF InvState, Wakes, InvClone, Cloning, CreatingExact, InvParent
<1>5. InvLocks'
  BY DEF TypeOK, InvLocks, WakesParent, Wakes, InvClone, Cloning
<1>6. FamilyTree' /\ InvWait' /\ NoLostExitWakeup'
  BY DEF TypeOK, FamilyTree, LetGo, InvWait, Wanted, NoLostExitWakeup
<1>7. InvCount' /\ InvFlushed'
  BY DEF InvCount, InUse, InvFlushed, WakesParent, Wakes
<1> QED
  BY <1>3, <1>4, <1>5, <1>6, <1>7 DEF IInv

(* A killed process leaves user mode for exit(): no lock, no state changes. *)
LEMMA InterruptStep ==
  ASSUME IInv, NEW p \in Procs, Interrupt(p), OthersStay(p)
  PROVE  IInv'
<1>1. /\ pc[p] = "user" /\ pc'[p] = "exit"
      /\ UNCHANGED <<state, parent, pid, target, plock, waitLock,
                      poolLock, creatingLock, creating, flushed, np, arg,
                      count, chan, idx>>
  BY DEF IInv, TypeOK, Interrupt, Goto, slotVars, lockVars, locals
<1>2. TypeOK'
  BY ProcTreeAssumption
     DEF IInv, TypeOK, Interrupt, Goto, slotVars, lockVars, locals, Points,
         WaitPoints, ExitPoints
<1> USE NoneFact, <1>1 DEF IInv, OthersStay, OthersLocalsStay
<1>3. InvState' /\ InvClone' /\ CreatingExact' /\ InvParent'
  BY DEF InvState, Wakes, InvClone, Cloning, CreatingExact, InvParent
<1>4. InvLocks'
  BY DEF TypeOK, InvLocks, WakesParent, Wakes
<1>5. FamilyTree' /\ InvWait' /\ NoLostExitWakeup'
  BY DEF TypeOK, FamilyTree, LetGo, InvWait, Wanted, NoLostExitWakeup
<1>6. InvCount' /\ InvFlushed'
  BY DEF InvCount, InUse, InvFlushed, WakesParent, Wakes
<1> QED
  BY <1>2, <1>3, <1>4, <1>5, <1>6 DEF IInv

(* wakeup() takes creating_lock, which is free, and starts at the first     *)
(* slot.                                                                    *)
LEMMA WakeupLockStep ==
  ASSUME IInv, NEW p \in Procs, WakeupLock(p), OthersStay(p)
  PROVE  IInv'
<1>1. /\ pc[p] = "wk_lock" /\ pc'[p] = "wk_scan" /\ creatingLock = None /\
        creatingLock' = p
      /\ UNCHANGED <<state, parent, pid, target, plock, waitLock,
                      poolLock, creating, flushed, np, arg, count, chan>>
  BY DEF IInv, TypeOK, WakeupLock, Goto, slotVars, locals
<1>2. \A q \in Procs : idx'[p] <= q /\ ~(idx'[p] > q)
  BY ProcTreeAssumption DEF IInv, TypeOK, Procs, AtEnd, WakeupLock, Rewind
<1>3. TypeOK'
  BY ProcTreeAssumption
     DEF IInv, TypeOK, WakeupLock, Goto, Rewind, slotVars, locals, Points,
         WaitPoints, ExitPoints
<1> USE NoneFact, <1>1, <1>2 DEF IInv, OthersStay, OthersLocalsStay
<1>4. InvState' /\ InvClone' /\ CreatingExact' /\ InvParent'
  BY DEF InvState, Wakes, InvClone, Cloning, CreatingExact, InvParent
<1>5. InvLocks'
  BY DEF TypeOK, InvLocks, WakesParent, Wakes
<1>6. FamilyTree' /\ InvWait' /\ NoLostExitWakeup'
  BY DEF TypeOK, FamilyTree, LetGo, InvWait, Wanted, NoLostExitWakeup
<1>7. InvCount' /\ InvFlushed'
  BY DEF InvCount, InUse, InvFlushed, WakesParent, Wakes
<1> QED
  BY <1>3, <1>4, <1>5, <1>6, <1>7 DEF IInv

(* wakeup() makes a sleeper on its channel runnable. A parent in wait() is  *)
(* awake from here on; nothing else about its family changes.               *)
LEMMA WakeupScanStep ==
  ASSUME IInv, NEW p \in Procs, WakeupScan(p), OthersStay(p)
  PROVE  IInv'
<1>1. idx[p] \in Procs
  BY ProcTreeAssumption DEF IInv, TypeOK, Procs, AtEnd, WakeupScan
<1>2. /\ pc[p] = "wk_scan" /\ pc' = pc
      /\ UNCHANGED <<parent, pid, target, plock, waitLock, poolLock, creatingLock, creating,
                     flushed, np, arg, count, chan>>
  BY DEF WakeupScan, lockVars, locals
<1>3. idx'[p] = idx[p] + 1
  BY DEF IInv, TypeOK, WakeupScan, Advance
<1>4. \A q \in Procs : /\ idx'[p] > q <=> idx[p] > q \/ q = idx[p]
                       /\ idx'[p] <= q <=> idx[p] <= q /\ q # idx[p]
  BY <1>1, <1>3, ProcTreeAssumption DEF Procs
<1> DEFINE woken == /\ idx[p] \notin {p, creating} /\ state[idx[p]] = "SLEEPING"
                      /\ chan[p] # None /\ target[idx[p]] = chan[p]
<1>5. \A q \in Procs : q # idx[p] \/ ~woken => state'[q] = state[q]
  <2>1. CASE woken
    BY <1>1, <2>1 DEF IInv, TypeOK, WakeupScan, Set
  <2>2. CASE ~woken
    BY <2>2 DEF WakeupScan
  <2> QED  BY <2>1, <2>2
<1>6. woken => state'[idx[p]] = "RUNNABLE"
  BY <1>1 DEF IInv, TypeOK, WakeupScan, Set
<1>7. \A q \in Procs : \/ state'[q] = state[q]
                       \/ state[q] = "SLEEPING" /\ state'[q] = "RUNNABLE"
  <2>1. CASE woken
    BY <1>5, <1>6, <2>1
  <2>2. CASE ~woken
    BY <1>5, <2>2
  <2> QED  BY <2>1, <2>2
<1>8. TypeOK'
  BY <1>1, ProcTreeAssumption
     DEF IInv, TypeOK, WakeupScan, Set, AtEnd, Advance, lockVars, locals,
         States
<1> USE NoneFact, <1>1, <1>2, <1>4
    DEF IInv, TypeOK, Cloning, Wakes, WakesParent, OthersStay, OthersLocalsStay,
        InvState, InvClone, InvLocks
<1> HIDE DEF woken
<1>9. InvState' /\ InvClone'
  BY <1>7
<1>10. CreatingExact' /\ InvParent' /\ InvLocks'
  BY <1>7 DEF CreatingExact, InvParent
<1>11. FamilyTree' /\ InvWait'
  BY <1>7 DEF FamilyTree, LetGo, InvWait, Wanted
<1>12. NoLostExitWakeup'
  BY <1>6, <1>7 DEF woken, CreatingExact, InvParent, NoLostExitWakeup, Wanted
<1>13. InvCount' /\ InvFlushed'
  BY <1>7 DEF InvCount, InvFlushed, InUse
<1> QED  BY <1>8, <1>9, <1>10, <1>11, <1>12, <1>13 DEF IInv

(* wakeup() is over. In exit() the whole table was scanned, so that the     *)
(* parent is no longer asleep on itself when the zombie goes on to the      *)
(* switch.                                                                  *)
LEMMA WakeupDoneStep ==
  ASSUME IInv, NEW p \in Procs, WakeupDone(p), OthersStay(p)
  PROVE  IInv'
<1>1. /\ pc[p] = "wk_scan" /\ creatingLock' = None /\ chan'[p] = None
      /\ UNCHANGED <<state, parent, pid, target, waitLock, poolLock, creating, flushed,
                     np, arg, count>>
  BY DEF IInv, TypeOK, WakeupDone, Set, slotVars
<1>2. /\ chan[p] = None => pc'[p] \in {"ex_lock", "exit", "user"}
      /\ chan[p] # None => pc'[p] = "ex_switch" /\ plock' = plock
  BY DEF IInv, TypeOK, WakeupDone, Goto
<1>3. /\ \A q \in Procs : q # p => plock'[q] = plock[q]
      /\ chan[p] = None => plock'[p] = IF plock[p] = p THEN None ELSE plock[p]
  BY DEF IInv, TypeOK, WakeupDone, Set
<1>4. \A q \in Procs : idx[p] > q /\ ~(idx[p] <= q)
  BY ProcTreeAssumption DEF IInv, TypeOK, Procs, AtEnd, WakeupDone
<1>5. TypeOK'
  BY ProcTreeAssumption
     DEF IInv, TypeOK, WakeupDone, Goto, Set, AtEnd, Rewind, slotVars,
         Points, WaitPoints, ExitPoints
<1> USE NoneFact, <1>1, <1>2, <1>3, <1>4
    DEF IInv, TypeOK, Cloning, Wakes, WakesParent, OthersStay, OthersLocalsStay,
        InvState, InvClone, InvLocks
<1>6. InvState'
  OBVIOUS
<1>7. InvClone'
  OBVIOUS
<1>8. InvLocks'
  OBVIOUS
<1>9. CreatingExact' /\ InvParent'
  BY DEF CreatingExact, InvParent
<1>10. FamilyTree'
  BY DEF FamilyTree, LetGo
<1>11. InvWait' 
  BY DEF InvWait, Wanted
<1>12. NoLostExitWakeup'
  BY DEF NoLostExitWakeup, Wanted
<1>13. InvCount' /\ InvFlushed'
  BY DEF InvCount, InvFlushed, InUse
<1> QED  BY <1>5, <1>6, <1>7, <1>8, <1>9, <1>10, <1>11, <1>12, <1>13 DEF IInv

(* clone() takes pool_lock, which is free.                                  *)
LEMMA ClonePoolStep ==
  ASSUME IInv, NEW p \in Procs, ClonePool(p), OthersStay(p)
  PROVE  IInv'
<1>1. /\ pc[p] = "cl_pool" /\ pc'[p] = "cl_scan" /\ poolLock = None /\
        poolLock' = p
      /\ UNCHANGED <<state, parent, pid, target, plock, waitLock,
                      creatingLock, creating, flushed, np, arg, count, chan>>
  BY DEF IInv, TypeOK, ClonePool, Goto, slotVars, locals
<1>2. \A q \in Procs : idx'[p] <= q /\ ~(idx'[p] > q)
  BY ProcTreeAssumption DEF IInv, TypeOK, Procs, AtEnd, ClonePool, Rewind
<1>3. TypeOK'
  BY ProcTreeAssumption
     DEF IInv, TypeOK, ClonePool, Goto, Rewind, slotVars, locals, Points,
         WaitPoints, ExitPoints
<1> USE NoneFact, <1>1, <1>2 DEF IInv, OthersStay, OthersLocalsStay
<1>4. InvState' /\ InvClone' /\ CreatingExact' /\ InvParent'
  BY DEF InvState, Wakes, InvClone, Cloning, CreatingExact, InvParent
<1>5. InvLocks'
  BY DEF TypeOK, InvLocks, WakesParent, Wakes
<1>6. FamilyTree' /\ InvWait' /\ NoLostExitWakeup'
  BY DEF TypeOK, FamilyTree, LetGo, InvWait, Wanted, NoLostExitWakeup
<1>7. InvCount' /\ InvFlushed'
  BY DEF InvCount, InUse, InvFlushed, WakesParent, Wakes
<1> QED
  BY <1>3, <1>4, <1>5, <1>6, <1>7 DEF IInv

(* alloc_proc() locks the first unused slot and names it np. The slot was   *)
(* not locked, so that no other clone() has it, and whoever counts the      *)
(* slots in exit() has pool_lock: nobody does now.                          *)
LEMMA CloneScanStep ==
  ASSUME IInv, NEW p \in Procs, CloneScan(p), OthersStay(p)
  PROVE  IInv'
<1>1. idx[p] \in Procs
  BY ProcTreeAssumption DEF IInv, TypeOK, Procs, AtEnd, CloneScan
<1>2. /\ pc[p] = "cl_scan" /\ plock[idx[p]] = None
      /\ UNCHANGED <<state, parent, pid, target, waitLock, creatingLock, creating, flushed,
                     arg, count, chan>>
  BY DEF CloneScan, slotVars
<1>3. TypeOK'
  BY <1>1, ProcTreeAssumption
     DEF IInv, TypeOK, CloneScan, Goto, Set, AtEnd, Advance, slotVars,
         Points, WaitPoints, ExitPoints
<1>4. CASE state[idx[p]] # "UNUSED"
  <2>1. UNCHANGED <<plock, poolLock, np, pc>>
    BY <1>4 DEF CloneScan
  <2> USE NoneFact, <1>2, <2>1
      DEF IInv, TypeOK, Cloning, Wakes, WakesParent, OthersStay, OthersLocalsStay,
          InvState, InvClone, InvLocks
  <2>2. InvState' /\ InvClone' /\ InvLocks' /\ CreatingExact' /\ InvParent'
    BY DEF CreatingExact, InvParent
  <2>3. FamilyTree' /\ InvWait' /\ NoLostExitWakeup'
    BY DEF FamilyTree, LetGo, InvWait, NoLostExitWakeup, Wanted
  <2>4. InvCount' /\ InvFlushed'
    BY DEF InvCount, InvFlushed, InUse
  <2> QED  BY <1>3, <2>2, <2>3, <2>4 DEF IInv
<1>5. CASE state[idx[p]] = "UNUSED"
  <2>1. /\ pc'[p] = "cl_creating" /\ np'[p] = idx[p] /\ poolLock' = None
        /\ \A q \in Procs : plock'[q] = IF q = idx[p] THEN p ELSE plock[q]
    BY <1>1, <1>5 DEF IInv, TypeOK, CloneScan, Goto, Set
  <2>2. idx[p] # p /\ pc[idx[p]] = "off"
    BY <1>1, <1>2, <1>5, NoneFact DEF IInv, TypeOK, InvState, InvLocks, Wakes
  <2> USE NoneFact, <1>1, <1>2, <1>5, <2>1, <2>2
      DEF IInv, TypeOK, Cloning, Wakes, WakesParent, OthersStay, OthersLocalsStay,
          InvState, InvClone, InvLocks
  <2>3. InvState' /\ InvClone'
    BY SMTT(20)
  <2>4. InvLocks' /\ CreatingExact' /\ InvParent'
    BY DEF CreatingExact, InvParent
  <2>5. FamilyTree'
    BY DEF FamilyTree, LetGo
  <2>6. InvWait' /\ NoLostExitWakeup'
    BY SMTT(20) DEF InvWait, NoLostExitWakeup, Wanted
  <2>7. InvCount' /\ InvFlushed'
    BY DEF InvCount, InvFlushed, InUse
  <2> QED  BY <1>3, <2>3, <2>4, <2>5, <2>6, <2>7 DEF IInv
<1> QED  BY <1>4, <1>5

(* alloc_proc() found no slot: pool_lock goes, nothing was taken.           *)
LEMMA CloneNoSlotStep ==
  ASSUME IInv, NEW p \in Procs, CloneNoSlot(p), OthersStay(p)
  PROVE  IInv'
<1>1. /\ pc[p] = "cl_scan" /\ pc'[p] \in {"user", "exit"} /\
        poolLock' = None /\ np'[p] = None
      /\ UNCHANGED <<state, parent, pid, target, plock, waitLock,
                      creatingLock, creating, flushed, count, chan>>
  BY DEF IInv, TypeOK, CloneNoSlot, Return, Goto, Set, slotVars
<1>2. \A q \in Procs : idx'[p] <= q /\ ~(idx'[p] > q)
  BY ProcTreeAssumption DEF IInv, TypeOK, Procs, AtEnd, CloneNoSlot, Rewind, Return
<1>3. \A q \in Procs : idx[p] > q /\ ~(idx[p] <= q)
  BY ProcTreeAssumption DEF IInv, TypeOK, Procs, AtEnd, CloneNoSlot
<1>4. TypeOK'
  BY ProcTreeAssumption
     DEF IInv, TypeOK, CloneNoSlot, Return, Goto, Set, AtEnd, Rewind,
         slotVars, Points, WaitPoints, ExitPoints
<1> USE NoneFact, <1>1, <1>2, <1>3 DEF IInv, OthersStay, OthersLocalsStay
<1>5. InvState' /\ InvClone' /\ CreatingExact' /\ InvParent'
  BY DEF InvState, Wakes, InvClone, Cloning, CreatingExact, InvParent
<1>6. InvLocks'
  BY DEF TypeOK, InvLocks, WakesParent, Wakes
<1>7. FamilyTree'
  BY DEF TypeOK, FamilyTree, LetGo
<1>8. InvWait'
  BY DEF InvWait, Wanted
<1>9. NoLostExitWakeup'
  BY DEF NoLostExitWakeup, Wanted
<1>10. InvCount' /\ InvFlushed'
  BY DEF InvCount, InUse, InvFlushed, WakesParent, Wakes
<1> QED
  BY <1>4, <1>5, <1>6, <1>7, <1>8, <1>9, <1>10 DEF IInv

(* alloc_proc() waits for creating_proc, then fills the slot in. It was out *)
(* of use, so that it had no parent and no child of its own, and the        *)
(* process that fills it in is in use besides whoever flushed: there is     *)
(* none.                                                                    *)
LEMMA CloneCreatingStep ==
  ASSUME IInv, NEW p \in Procs, CloneCreating(p), OthersLocalsStay(p)
  PROVE  IInv'
<1>1. /\ pc[p] = "cl_creating" /\ pc'[p] = "cl_copy" /\ creating = None /\ creating' = np[p]
      /\ UNCHANGED <<plock, waitLock, poolLock, creatingLock, flushed, np, arg, count, chan>>
  BY DEF IInv, TypeOK, InvClone, Cloning, CloneCreating, lockVars, locals
<1>2. /\ np[p] \in Procs \ {p} /\ pc[np[p]] = "off" /\ state[np[p]] = "UNUSED"
      /\ plock[np[p]] = p
  BY <1>1 DEF IInv, InvClone, InvLocks, Cloning
<1>3. \A q \in Procs : /\ pc'[q] = IF q = np[p] THEN "forkret"
                                 ELSE IF q = p THEN "cl_copy" ELSE pc[q]
                       /\ state'[q] = IF q = np[p] THEN "USED" ELSE state[q]
                       /\ parent'[q] = IF q = np[p] THEN None ELSE parent[q]
                       /\ target'[q] = IF q = np[p] THEN None ELSE target[q]
                       /\ q # np[p] => pid'[q] = pid[q]
  BY <1>2 DEF IInv, TypeOK, CloneCreating, Set
<1>4. TypeOK'
  BY <1>2, ProcTreeAssumption
     DEF IInv, TypeOK, CloneCreating, Set, lockVars, locals, Points,
         WaitPoints, ExitPoints, States
<1>5. \A q, r \in Procs : idx[r] <= q => ~(idx[r] > q)
  <2>1. idx \in [Procs -> Int] /\ Procs \subseteq Int
    BY ProcTreeAssumption DEF IInv, TypeOK, Procs
  <2> QED  BY <2>1
<1> USE NoneFact, <1>1, <1>2, <1>3
    DEF IInv, TypeOK, Cloning, Wakes, WakesParent, OthersLocalsStay, InvState, InvClone,
        InvLocks
<1>6. InvState'
  OBVIOUS
<1>7. InvClone'
  BY SMTT(20)
<1>8. InvLocks'
  BY SMTT(20)
<1>9. CreatingExact' /\ InvParent'
  BY DEF CreatingExact, InvParent
<1>10. FamilyTree'
  BY DEF InvParent, FamilyTree, LetGo
<1>11. InvWait' /\ NoLostExitWakeup'
  BY SMTT(20) DEF InvWait, NoLostExitWakeup, Wanted
<1>12. InvCount'
  <2>2. \A q \in InUse' : q = np[p] \/ q \in InUse
    BY DEF InUse
  <2>3. ASSUME NEW r \in Procs, pc'[r] = "ex_count"
        PROVE  /\ r # p /\ pc[r] = "ex_count" /\ idx'[r] = idx[r] /\ count'[r] = count[r]
               /\ idx[r] <= np[p] /\ ~(idx[r] > np[p])
    BY <1>5, <2>3 DEF InvCount
  <2>4. \A r \in Procs : pc'[r] = "cl_creating" => r # p /\ pc[r] = "cl_creating"
    OBVIOUS
  <2> QED  BY <2>2, <2>3, <2>4 DEF InvCount
<1>13. InvFlushed'
  BY DEF InvFlushed, InUse
<1> QED  BY <1>4, <1>6, <1>7, <1>8, <1>9, <1>10, <1>11, <1>12, <1>13 DEF IInv

(* Without a page table the slot goes back as it was, unlocked.             *)
LEMMA CloneNoPageTableStep ==
  ASSUME IInv, NEW p \in Procs, CloneNoPageTable(p), OthersStay(p)
  PROVE  IInv'
<1>1. /\ pc[p] = "cl_creating" /\ pc'[p] \in {"user", "exit"} /\
        creatingLock = None /\ creating = None /\ creating' = np[p] /\
        np'[p] = None
      /\ UNCHANGED <<state, parent, pid, target, waitLock, poolLock,
                      creatingLock, flushed, count, chan>>
  BY DEF IInv, TypeOK, InvClone, Cloning, CloneNoPageTable, Return, Goto, Set,
         slotVars
<1>2. /\ \A q \in Procs : plock'[q] = IF q = np[p] THEN None ELSE plock[q]
  BY DEF IInv, TypeOK, InvClone, Cloning, CloneNoPageTable, Return, Goto, Set,
         slotVars
<1>3. \A q \in Procs : idx'[p] <= q /\ ~(idx'[p] > q)
  BY ProcTreeAssumption DEF IInv, TypeOK, Procs, AtEnd, CloneNoPageTable, Rewind, Return
<1>4. np[p] \in Procs
  BY <1>1 DEF IInv, InvClone, Cloning
<1>5. TypeOK'
  BY <1>4, ProcTreeAssumption
     DEF IInv, TypeOK, CloneNoPageTable, Return, Goto, Set, Rewind, slotVars,
         Points, WaitPoints, ExitPoints
<1> USE NoneFact, <1>1, <1>2, <1>3 DEF IInv, OthersStay, OthersLocalsStay
<1>6. InvState' /\ InvClone'
  BY DEF InvState, Wakes, InvClone, Cloning
<1>7. CreatingExact' /\ InvParent'
  BY DEF TypeOK, InvState, InvLocks, InvClone, Cloning, Wakes, CreatingExact,
         InvParent
<1>8. InvLocks'
  BY DEF TypeOK, InvLocks, WakesParent, Wakes, InvClone, Cloning
<1>9. FamilyTree'
  BY DEF TypeOK, FamilyTree, LetGo
<1>10. InvWait'
  BY DEF InvWait, Wanted
<1>11. NoLostExitWakeup'
  BY DEF NoLostExitWakeup, Wanted
<1>12. InvCount' /\ InvFlushed'
  BY DEF InvCount, InUse, InvFlushed, WakesParent, Wakes
<1> QED
  BY <1>5, <1>6, <1>7, <1>8, <1>9, <1>10, <1>11, <1>12 DEF IInv

(* np is unlocked before wait_lock is taken: the order of the two locks.    *)
LEMMA CloneCopiedStep ==
  ASSUME IInv, NEW p \in Procs, CloneCopied(p), OthersStay(p)
  PROVE  IInv'
<1>1. /\ pc[p] = "cl_copy" /\ pc'[p] = "cl_parent"
      /\ UNCHANGED <<state, parent, pid, target, waitLock, poolLock,
                      creatingLock, creating, flushed, np, arg, count,
                      chan, idx>>
  BY DEF IInv, TypeOK, InvClone, Cloning, CloneCopied, Goto, Set, slotVars, locals
<1>2. /\ \A q \in Procs : plock'[q] = IF q = np[p] THEN None ELSE plock[q]
  BY DEF IInv, TypeOK, InvClone, Cloning, CloneCopied, Goto, Set, slotVars, locals
<1>3. np[p] \in Procs
  BY <1>1 DEF IInv, InvClone, Cloning
<1>4. TypeOK'
  BY <1>3, ProcTreeAssumption
     DEF IInv, TypeOK, CloneCopied, Goto, Set, slotVars, locals, Points,
         WaitPoints, ExitPoints
<1> USE NoneFact, <1>1, <1>2 DEF IInv, OthersStay, OthersLocalsStay
<1>5. InvState' /\ InvClone' /\ CreatingExact' /\ InvParent'
  BY DEF InvState, Wakes, InvClone, Cloning, CreatingExact, InvParent
<1>6. InvLocks'
  BY DEF TypeOK, InvLocks, WakesParent, Wakes, InvClone, Cloning
<1>7. FamilyTree' /\ InvWait' /\ NoLostExitWakeup'
  BY DEF TypeOK, FamilyTree, LetGo, InvWait, Wanted, NoLostExitWakeup
<1>8. InvCount' /\ InvFlushed'
  BY DEF InvCount, InUse, InvFlushed, WakesParent, Wakes
<1> QED
  BY <1>4, <1>5, <1>6, <1>7, <1>8 DEF IInv

(* The child gets its parent under wait_lock: it is in use and not a        *)
(* zombie, and the parent is running.                                       *)
LEMMA CloneParentStep ==
  ASSUME IInv, NEW p \in Procs, CloneParent(p), OthersStay(p)
  PROVE  IInv'
<1>1. /\ pc[p] = "cl_parent" /\ pc'[p] = "cl_run" /\ waitLock = None
      /\ UNCHANGED <<state, pid, target, plock, waitLock, poolLock,
                      creatingLock, creating, flushed, np, arg, count,
                      chan, idx>>
  BY DEF IInv, TypeOK, InvClone, Cloning, CloneParent, Goto, Set, lockVars, locals
<1>2. /\ \A q \in Procs : parent'[q] = IF q = np[p] THEN p ELSE parent[q]
  BY DEF IInv, TypeOK, InvClone, Cloning, CloneParent, Goto, Set, lockVars, locals
<1>3. np[p] \in Procs
  BY <1>1 DEF IInv, InvClone, Cloning
<1>4. TypeOK'
  BY <1>3, ProcTreeAssumption
     DEF IInv, TypeOK, CloneParent, Goto, Set, lockVars, locals, Points,
         WaitPoints, ExitPoints
<1> USE NoneFact, <1>1, <1>2 DEF IInv, OthersStay, OthersLocalsStay
<1>5. InvClone'
  BY DEF InvClone, Cloning
<1>6. InvState'
  BY DEF TypeOK, InvState, Wakes, InvClone, Cloning
<1>7. CreatingExact' /\ InvParent'
  BY DEF TypeOK, InvState, InvLocks, InvClone, Cloning, Wakes, CreatingExact,
         InvParent
<1>8. InvLocks'
  BY DEF TypeOK, InvLocks, WakesParent, Wakes
<1>9. InvWait' /\ NoLostExitWakeup'
  BY DEF InvWait, Wanted, NoLostExitWakeup
<1>10. FamilyTree'
  BY DEF TypeOK, InvState, InvParent, FamilyTree, LetGo, Wakes
<1>11. InvCount' /\ InvFlushed'
  BY DEF InvCount, InUse, InvFlushed, WakesParent, Wakes
<1> QED
  BY <1>4, <1>5, <1>6, <1>7, <1>8, <1>9, <1>10, <1>11 DEF IInv

(* The child may be run from here on; it is no longer the one of clone().   *)
LEMMA CloneRunnableStep ==
  ASSUME IInv, NEW p \in Procs, CloneRunnable(p), OthersStay(p)
  PROVE  IInv'
<1>1. /\ pc[p] = "cl_run" /\ pc'[p] \in {"user", "exit"} /\
        plock[np[p]] = None /\ np'[p] = None
      /\ UNCHANGED <<parent, pid, target, plock, waitLock, poolLock,
                      creatingLock, creating, flushed, count, chan>>
  BY DEF IInv, TypeOK, InvClone, Cloning, CloneRunnable, Return, Goto, Set,
         lockVars
<1>2. /\ \A q \in Procs : state'[q] = IF q = np[p] THEN "RUNNABLE" ELSE state[q]
  BY DEF IInv, TypeOK, InvClone, Cloning, CloneRunnable, Return, Goto, Set,
         lockVars
<1>3. \A q \in Procs : idx'[p] <= q /\ ~(idx'[p] > q)
  BY ProcTreeAssumption DEF IInv, TypeOK, Procs, AtEnd, CloneRunnable, Rewind, Return
<1>4. np[p] \in Procs
  BY <1>1 DEF IInv, InvClone, Cloning
<1>5. TypeOK'
  BY <1>4, ProcTreeAssumption
     DEF IInv, TypeOK, CloneRunnable, Return, Goto, Set, Rewind, lockVars,
         Points, WaitPoints, ExitPoints, States
<1> USE NoneFact, <1>1, <1>2, <1>3 DEF IInv, OthersStay, OthersLocalsStay
<1>6. InvClone' /\ CreatingExact' /\ InvParent'
  BY DEF InvClone, Cloning, CreatingExact, InvParent
<1>7. InvState'
  BY DEF TypeOK, InvState, Wakes, InvClone, Cloning
<1>8. InvLocks'
  BY DEF TypeOK, InvLocks, WakesParent, Wakes
<1>9. FamilyTree'
  BY DEF TypeOK, FamilyTree, LetGo
<1>10. InvWait'
  BY DEF InvWait, Wanted
<1>11. NoLostExitWakeup'
  BY DEF NoLostExitWakeup, Wanted
<1>12. InvCount'
  BY DEF TypeOK, InvCount, InUse, InvClone, Cloning
<1>13. InvFlushed'
  BY DEF TypeOK, InvFlushed, InUse, WakesParent, Wakes, InvState
<1> QED
  BY <1>5, <1>6, <1>7, <1>8, <1>9, <1>10, <1>11, <1>12, <1>13 DEF IInv

(* wait() takes wait_lock, which is free, and starts at the first slot.     *)
LEMMA WaitLockStep ==
  ASSUME IInv, NEW p \in Procs, WaitLock(p), OthersStay(p)
  PROVE  IInv'
<1>1. /\ pc[p] = "wt_lock" /\ pc'[p] = "wt_scan" /\ waitLock = None /\
        waitLock' = p
      /\ UNCHANGED <<state, parent, pid, target, plock, poolLock,
                      creatingLock, creating, flushed, np, arg, count, chan>>
  BY DEF IInv, TypeOK, WaitLock, Goto, Set, slotVars
<1>2. \A q \in Procs : idx'[p] <= q /\ ~(idx'[p] > q)
  BY ProcTreeAssumption DEF IInv, TypeOK, Procs, AtEnd, WaitLock, Rewind
<1>3. TypeOK'
  BY ProcTreeAssumption
     DEF IInv, TypeOK, WaitLock, Goto, Set, Rewind, slotVars, Points,
         WaitPoints, ExitPoints
<1> USE NoneFact, <1>1, <1>2 DEF IInv, OthersStay, OthersLocalsStay
<1>4. InvState' /\ InvClone' /\ CreatingExact' /\ InvParent'
  BY DEF InvState, Wakes, InvClone, Cloning, CreatingExact, InvParent
<1>5. InvLocks'
  BY DEF TypeOK, InvLocks, WakesParent, Wakes
<1>6. FamilyTree'
  BY DEF TypeOK, FamilyTree, LetGo
<1>7. InvWait'
  BY DEF InvWait, Wanted
<1>8. NoLostExitWakeup'
  BY DEF NoLostExitWakeup, Wanted
<1>9. InvCount' /\ InvFlushed'
  BY DEF InvCount, InUse, InvFlushed, WakesParent, Wakes
<1> QED
  BY <1>3, <1>4, <1>5, <1>6, <1>7, <1>8, <1>9 DEF IInv

(* wait() passes a slot that is not a zombie it wants: this is what InvWait *)
(* remembers of the slots behind the scan.                                  *)
LEMMA WaitScanStep ==
  ASSUME IInv, NEW p \in Procs, WaitScan(p), OthersStay(p)
  PROVE  IInv'
<1>1. idx[p] \in Procs
  BY ProcTreeAssumption DEF IInv, TypeOK, Procs, AtEnd, WaitScan
<1>2. /\ pc[p] = "wt_scan" /\ pc'[p] = "wt_scan" /\
        ~(parent[idx[p]] = p /\ Wanted(p, idx[p]) /\ state[idx[p]] = "ZOMBIE")
      /\ UNCHANGED <<state, parent, pid, target, plock, waitLock,
                      poolLock, creatingLock, creating, flushed, np, arg,
                      count, chan>>
  BY <1>1 DEF IInv, TypeOK, WaitScan, Set, Wanted, slotVars, lockVars
<1>3. idx'[p] = idx[p] + 1
  BY DEF IInv, TypeOK, WaitScan, Advance
<1>4. \A q \in Procs : /\ idx'[p] > q <=> idx[p] > q \/ q = idx[p]
                       /\ idx'[p] <= q <=> idx[p] <= q /\ q # idx[p]
  BY <1>1, <1>3, ProcTreeAssumption DEF Procs
<1>5. TypeOK'
  BY <1>1, ProcTreeAssumption
     DEF IInv, TypeOK, WaitScan, Set, AtEnd, Advance, slotVars, lockVars
<1> USE NoneFact, <1>1, <1>2, <1>4 DEF IInv, OthersStay, OthersLocalsStay
<1>6. InvState' /\ InvClone' /\ CreatingExact' /\ InvParent'
  BY DEF InvState, Wakes, InvClone, Cloning, CreatingExact, InvParent
<1>7. InvLocks'
  BY DEF TypeOK, InvLocks, WakesParent, Wakes
<1>8. FamilyTree'
  BY DEF TypeOK, FamilyTree, LetGo
<1>9. InvWait'
  BY DEF InvWait, Wanted
<1>10. NoLostExitWakeup'
  BY DEF NoLostExitWakeup, Wanted
<1>11. InvCount' /\ InvFlushed'
  BY DEF InvCount, InUse, InvFlushed, WakesParent, Wakes
<1> QED
  BY <1>5, <1>6, <1>7, <1>8, <1>9, <1>10, <1>11 DEF IInv

(* wait() frees a zombie, which has no children: they were handed on before *)
(* it became one, and it creates no others.                                 *)
LEMMA WaitReapStep ==
  ASSUME IInv, NEW p \in Procs, WaitReap(p), OthersStay(p)
  PROVE  IInv'
<1>1. idx[p] \in Procs
  BY ProcTreeAssumption DEF IInv, TypeOK, Procs, AtEnd, WaitReap
<1>2. pc'[p] \in {"user", "exit"}
  BY <1>1 DEF IInv, TypeOK, WaitReap, Return, Free, Goto, Set
<1>3. /\ idx[p] \in Procs /\ parent[idx[p]] = p /\ plock[idx[p]] = None
      /\ state[idx[p]] = "ZOMBIE" /\ waitLock' = None /\ np'[p] = None
  BY <1>1 DEF IInv, TypeOK, WaitReap, Return, Free, Goto, Set
<1>4. /\ pc[p] = "wt_scan"
      /\ UNCHANGED <<target, plock, poolLock, creatingLock, creating,
                      flushed, count, chan>>
  BY <1>1 DEF IInv, TypeOK, WaitReap, Return, Free, Goto, Set
<1>5. /\ \A q \in Procs : state'[q] = IF q = idx[p] THEN "UNUSED" ELSE state[q]
      /\ \A q \in Procs : parent'[q] = IF q = idx[p] THEN None ELSE parent[q]
      /\ \A q \in Procs : q # idx[p] => pid'[q] = pid[q]
  BY <1>1 DEF IInv, TypeOK, WaitReap, Return, Free, Goto, Set
<1>6. \A q \in Procs : idx'[p] <= q /\ ~(idx'[p] > q)
  BY ProcTreeAssumption DEF IInv, TypeOK, Procs, AtEnd, WaitReap, Rewind, Return
<1>7. TypeOK'
  BY <1>1, ProcTreeAssumption
     DEF IInv, TypeOK, WaitReap, Return, Free, Goto, Set, AtEnd, Rewind,
         Points, WaitPoints, ExitPoints, States
<1> USE NoneFact, <1>1, <1>2, <1>3, <1>4, <1>5, <1>6 DEF IInv, OthersStay, OthersLocalsStay
<1>8. InvClone' /\ CreatingExact' /\ InvParent'
  BY DEF InvClone, Cloning, CreatingExact, InvParent
<1>9. InvState'
  BY DEF TypeOK, InvState, Wakes, InvClone, InvLocks, Cloning, WakesParent
<1>10. InvLocks'
  BY DEF TypeOK, InvLocks, WakesParent, Wakes
<1>11. FamilyTree'
  BY DEF TypeOK, FamilyTree, LetGo
<1>12. InvWait'
  BY DEF InvWait, Wanted
<1>13. NoLostExitWakeup'
  BY DEF NoLostExitWakeup, Wanted
<1>14. InvCount' /\ InvFlushed'
  BY DEF InvCount, InUse, InvFlushed, WakesParent, Wakes
<1> QED
  BY <1>7, <1>8, <1>9, <1>10, <1>11, <1>12, <1>13, <1>14 DEF IInv

(* copyout() failed: wait_lock goes and the zombie stays for the next       *)
(* wait().                                                                  *)
LEMMA WaitBadAddressStep ==
  ASSUME IInv, NEW p \in Procs, WaitBadAddress(p), OthersStay(p)
  PROVE  IInv'
<1>1. /\ pc[p] = "wt_scan" /\ pc'[p] \in {"user", "exit"} /\
        waitLock' = None /\ np'[p] = None
      /\ UNCHANGED <<state, parent, pid, target, plock, poolLock,
                      creatingLock, creating, flushed, count, chan>>
  BY DEF IInv, TypeOK, WaitBadAddress, Return, Goto, Set, slotVars
<1>2. \A q \in Procs : idx'[p] <= q /\ ~(idx'[p] > q)
  BY ProcTreeAssumption DEF IInv, TypeOK, Procs, AtEnd, WaitBadAddress, Rewind, Return
<1>3. TypeOK'
  BY ProcTreeAssumption
     DEF IInv, TypeOK, WaitBadAddress, Return, Goto, Set, AtEnd, Rewind,
         slotVars, Points, WaitPoints, ExitPoints
<1> USE NoneFact, <1>1, <1>2 DEF IInv, OthersStay, OthersLocalsStay
<1>4. InvState' /\ InvClone' /\ CreatingExact' /\ InvParent'
  BY DEF InvState, Wakes, InvClone, Cloning, CreatingExact, InvParent
<1>5. InvLocks'
  BY DEF TypeOK, InvLocks, WakesParent, Wakes
<1>6. FamilyTree' /\ InvWait' /\ NoLostExitWakeup'
  BY DEF TypeOK, FamilyTree, LetGo, InvWait, Wanted, NoLostExitWakeup
<1>7. InvCount' /\ InvFlushed'
  BY DEF InvCount, InUse, InvFlushed, WakesParent, Wakes
<1> QED
  BY <1>3, <1>4, <1>5, <1>6, <1>7 DEF IInv

(* wait() fails or returns for WNOHANG: wait_lock goes.                     *)
LEMMA WaitGiveUpStep ==
  ASSUME IInv, NEW p \in Procs, WaitGiveUp(p), OthersStay(p)
  PROVE  IInv'
<1>1. /\ pc[p] = "wt_scan" /\ pc'[p] \in {"user", "exit"} /\
        waitLock' = None /\ np'[p] = None
      /\ UNCHANGED <<state, parent, pid, target, plock, poolLock,
                      creatingLock, creating, flushed, count, chan>>
  BY DEF IInv, TypeOK, WaitGiveUp, Return, Goto, Set, slotVars
<1>2. \A q \in Procs : idx'[p] <= q /\ ~(idx'[p] > q)
  BY ProcTreeAssumption DEF IInv, TypeOK, Procs, AtEnd, WaitGiveUp, Rewind, Return
<1>3. TypeOK'
  BY ProcTreeAssumption
     DEF IInv, TypeOK, WaitGiveUp, Return, Goto, Set, AtEnd, Rewind,
         slotVars, Points, WaitPoints, ExitPoints
<1> USE NoneFact, <1>1, <1>2 DEF IInv, OthersStay, OthersLocalsStay
<1>4. InvState' /\ InvClone' /\ CreatingExact' /\ InvParent'
  BY DEF InvState, Wakes, InvClone, Cloning, CreatingExact, InvParent
<1>5. InvLocks'
  BY DEF TypeOK, InvLocks, WakesParent, Wakes
<1>6. FamilyTree' /\ InvWait' /\ NoLostExitWakeup'
  BY DEF TypeOK, FamilyTree, LetGo, InvWait, Wanted, NoLostExitWakeup
<1>7. InvCount' /\ InvFlushed'
  BY DEF InvCount, InUse, InvFlushed, WakesParent, Wakes
<1> QED
  BY <1>3, <1>4, <1>5, <1>6, <1>7 DEF IInv

(* The scan passed every slot: none is a zombie that wait() wants.          *)
LEMMA WaitDecideSleepStep ==
  ASSUME IInv, NEW p \in Procs, WaitDecideSleep(p), OthersStay(p)
  PROVE  IInv'
<1>1. /\ pc[p] = "wt_scan" /\ pc'[p] = "wt_sleep"
      /\ UNCHANGED <<state, parent, pid, target, plock, waitLock,
                      poolLock, creatingLock, creating, flushed, np, arg,
                      count, chan, idx>>
  BY DEF IInv, TypeOK, WaitDecideSleep, Goto, slotVars, lockVars, locals
<1>2. \A q \in Procs : idx[p] > q /\ ~(idx[p] <= q)
  BY ProcTreeAssumption DEF IInv, TypeOK, Procs, AtEnd, WaitDecideSleep
<1>3. TypeOK'
  BY ProcTreeAssumption
     DEF IInv, TypeOK, WaitDecideSleep, Goto, AtEnd, slotVars, lockVars,
         locals, Points, WaitPoints, ExitPoints
<1> USE NoneFact, <1>1, <1>2 DEF IInv, OthersStay, OthersLocalsStay
<1>4. InvState' /\ InvClone' /\ CreatingExact' /\ InvParent'
  BY DEF InvState, Wakes, InvClone, Cloning, CreatingExact, InvParent
<1>5. InvLocks'
  BY DEF TypeOK, InvLocks, WakesParent, Wakes
<1>6. FamilyTree'
  BY DEF TypeOK, FamilyTree, LetGo
<1>7. InvWait'
  BY DEF InvWait, Wanted
<1>8. NoLostExitWakeup'
  BY DEF NoLostExitWakeup, Wanted
<1>9. InvCount' /\ InvFlushed'
  BY DEF InvCount, InUse, InvFlushed, WakesParent, Wakes
<1> QED
  BY <1>3, <1>4, <1>5, <1>6, <1>7, <1>8, <1>9 DEF IInv

(* sleep() lets go of wait_lock only when the state is SLEEPING: no child   *)
(* can have become a zombie since the scan.                                 *)
LEMMA WaitSleepStep ==
  ASSUME IInv, NEW p \in Procs, WaitSleep(p), OthersStay(p)
  PROVE  IInv'
<1>1. /\ pc[p] = "wt_sleep" /\ pc'[p] = "wt_asleep" /\ plock[p] = None /\
        waitLock' = None
      /\ UNCHANGED <<parent, pid, plock, poolLock, creatingLock, creating,
                      flushed, np, arg, count, chan, idx>>
  BY DEF IInv, TypeOK, WaitSleep, Goto, Set, locals
<1>2. /\ \A q \in Procs : target'[q] = IF q = p THEN p ELSE target[q]
      /\ \A q \in Procs : state'[q] = IF q = p THEN "SLEEPING" ELSE state[q]
  BY DEF IInv, TypeOK, WaitSleep, Goto, Set, locals
<1>3. TypeOK'
  BY ProcTreeAssumption
     DEF IInv, TypeOK, WaitSleep, Goto, Set, locals, Points, WaitPoints,
         ExitPoints, States
<1> USE NoneFact, <1>1, <1>2 DEF IInv, OthersStay, OthersLocalsStay
<1>4. InvState' /\ CreatingExact' /\ InvParent'
  BY DEF InvState, Wakes, CreatingExact, InvParent
<1>5. InvClone'
  BY DEF TypeOK, InvClone, Cloning, InvState
<1>6. InvLocks'
  BY DEF TypeOK, InvLocks, WakesParent, Wakes
<1>7. FamilyTree' /\ InvWait'
  BY DEF TypeOK, FamilyTree, LetGo, InvWait, Wanted
<1>8. NoLostExitWakeup'
  BY DEF NoLostExitWakeup, InvWait, Wanted
<1>9. InvCount'
  BY DEF TypeOK, InvCount, InUse, InvState, InvClone, InvLocks, Cloning,
         Wakes, WakesParent
<1>10. InvFlushed'
  BY DEF TypeOK, InvFlushed, InUse, WakesParent, Wakes, InvState
<1> QED
  BY <1>3, <1>4, <1>5, <1>6, <1>7, <1>8, <1>9, <1>10 DEF IInv

(* The sleeper runs again and has to take wait_lock anew.                   *)
LEMMA WaitWokenStep ==
  ASSUME IInv, NEW p \in Procs, WaitWoken(p), OthersStay(p)
  PROVE  IInv'
<1>1. /\ pc[p] = "wt_asleep" /\ pc'[p] = "wt_lock" /\ plock[p] = None /\
        state[p] = "RUNNABLE"
      /\ UNCHANGED <<parent, pid, plock, waitLock, poolLock, creatingLock,
                      creating, flushed, np, arg, count, chan, idx>>
  BY DEF IInv, TypeOK, WaitWoken, Goto, Set, lockVars, locals
<1>2. /\ \A q \in Procs : target'[q] = IF q = p THEN None ELSE target[q]
      /\ \A q \in Procs : state'[q] = IF q = p THEN "RUNNING" ELSE state[q]
  BY DEF IInv, TypeOK, WaitWoken, Goto, Set, lockVars, locals
<1>3. TypeOK'
  BY ProcTreeAssumption
     DEF IInv, TypeOK, WaitWoken, Goto, Set, lockVars, locals, Points,
         WaitPoints, ExitPoints, States
<1> USE NoneFact, <1>1, <1>2 DEF IInv, OthersStay, OthersLocalsStay
<1>4. InvState' /\ InvClone' /\ CreatingExact' /\ InvParent'
  BY DEF InvState, Wakes, InvClone, Cloning, CreatingExact, InvParent
<1>5. InvLocks'
  BY DEF TypeOK, InvLocks, WakesParent, Wakes
<1>6. FamilyTree'
  BY DEF TypeOK, FamilyTree, LetGo
<1>7. InvWait'
  BY DEF InvWait, Wanted
<1>8. NoLostExitWakeup'
  BY DEF NoLostExitWakeup, Wanted
<1>9. InvCount' /\ InvFlushed'
  BY DEF InvCount, InUse, InvFlushed, WakesParent, Wakes
<1> QED
  BY <1>3, <1>4, <1>5, <1>6, <1>7, <1>8, <1>9 DEF IInv

(* kill() takes pool_lock, which is free.                                   *)
LEMMA KillPoolStep ==
  ASSUME IInv, NEW p \in Procs, KillPool(p), OthersStay(p)
  PROVE  IInv'
<1>1. /\ pc[p] = "kl_pool" /\ pc'[p] = "kl_scan" /\ poolLock = None /\
        poolLock' = p
      /\ UNCHANGED <<state, parent, pid, target, plock, waitLock,
                      creatingLock, creating, flushed, np, arg, count, chan>>
  BY DEF IInv, TypeOK, KillPool, Goto, slotVars, locals
<1>2. \A q \in Procs : idx'[p] <= q /\ ~(idx'[p] > q)
  BY ProcTreeAssumption DEF IInv, TypeOK, Procs, AtEnd, KillPool, Rewind
<1>3. TypeOK'
  BY ProcTreeAssumption
     DEF IInv, TypeOK, KillPool, Goto, Rewind, slotVars, locals, Points,
         WaitPoints, ExitPoints
<1> USE NoneFact, <1>1, <1>2 DEF IInv, OthersStay, OthersLocalsStay
<1>4. InvState' /\ InvClone' /\ CreatingExact' /\ InvParent'
  BY DEF InvState, Wakes, InvClone, Cloning, CreatingExact, InvParent
<1>5. InvLocks'
  BY DEF TypeOK, InvLocks, WakesParent, Wakes
<1>6. FamilyTree' /\ InvWait' /\ NoLostExitWakeup'
  BY DEF TypeOK, FamilyTree, LetGo, InvWait, Wanted, NoLostExitWakeup
<1>7. InvCount' /\ InvFlushed'
  BY DEF InvCount, InUse, InvFlushed, WakesParent, Wakes
<1> QED
  BY <1>3, <1>4, <1>5, <1>6, <1>7 DEF IInv

(* kill() passes a slot that does not match.                                *)
LEMMA KillScanStep ==
  ASSUME IInv, NEW p \in Procs, KillScan(p), OthersStay(p)
  PROVE  IInv'
<1>1. idx[p] \in Procs
  BY ProcTreeAssumption DEF IInv, TypeOK, Procs, AtEnd, KillScan
<1>2. /\ pc[p] = "kl_scan" /\ pc'[p] = "kl_scan"
      /\ UNCHANGED <<state, parent, pid, target, plock, waitLock,
                      poolLock, creatingLock, creating, flushed, np, arg,
                      count, chan>>
  BY <1>1 DEF IInv, TypeOK, KillScan, slotVars, lockVars, locals
<1>3. idx'[p] = idx[p] + 1
  BY DEF IInv, TypeOK, KillScan, Advance
<1>4. \A q \in Procs : /\ idx'[p] > q <=> idx[p] > q \/ q = idx[p]
                       /\ idx'[p] <= q <=> idx[p] <= q /\ q # idx[p]
  BY <1>1, <1>3, ProcTreeAssumption DEF Procs
<1>5. TypeOK'
  BY <1>1, ProcTreeAssumption
     DEF IInv, TypeOK, KillScan, AtEnd, Advance, slotVars, lockVars, locals
<1> USE NoneFact, <1>1, <1>2, <1>4 DEF IInv, OthersStay, OthersLocalsStay
<1>6. InvState' /\ InvClone' /\ CreatingExact' /\ InvParent'
  BY DEF InvState, Wakes, InvClone, Cloning, CreatingExact, InvParent
<1>7. InvLocks'
  BY DEF TypeOK, InvLocks, WakesParent, Wakes
<1>8. FamilyTree' /\ InvWait' /\ NoLostExitWakeup'
  BY DEF TypeOK, FamilyTree, LetGo, InvWait, Wanted, NoLostExitWakeup
<1>9. InvCount' /\ InvFlushed'
  BY DEF InvCount, InUse, InvFlushed, WakesParent, Wakes
<1> QED
  BY <1>5, <1>6, <1>7, <1>8, <1>9 DEF IInv

(* kill() makes a sleeper runnable, so that it is not asleep over a zombie. *)
LEMMA KillFoundStep ==
  ASSUME IInv, NEW p \in Procs, KillFound(p), OthersStay(p)
  PROVE  IInv'
<1>1. idx[p] \in Procs
  BY ProcTreeAssumption DEF IInv, TypeOK, Procs, AtEnd, KillFound
<1>2. pc'[p] \in {"user", "exit"}
  BY <1>1 DEF IInv, TypeOK, KillFound, Return, KillHit, Goto, Set
<1>3. idx[p] \in Procs /\ plock[idx[p]] = None /\ poolLock' = None /\ np'[p] = None
  BY <1>1 DEF IInv, TypeOK, KillFound, Return, KillHit, Goto, Set
<1>4. /\ pc[p] = "kl_scan"
      /\ UNCHANGED <<parent, pid, target, plock, waitLock, creatingLock,
                      creating, flushed, count, chan>>
  BY <1>1 DEF IInv, TypeOK, KillFound, Return, KillHit, Goto, Set
<1>5. /\ \A q \in Procs : state'[q] =
           IF q = idx[p] /\ state[q] = "SLEEPING" THEN "RUNNABLE" ELSE state[q]
  BY <1>1 DEF IInv, TypeOK, KillFound, Return, KillHit, Goto, Set
<1>6. \A q \in Procs : idx'[p] <= q /\ ~(idx'[p] > q)
  BY ProcTreeAssumption DEF IInv, TypeOK, Procs, AtEnd, KillFound, Rewind, Return
<1>7. TypeOK'
  BY <1>1, ProcTreeAssumption
     DEF IInv, TypeOK, KillFound, Return, Goto, Set, AtEnd, Rewind, Points,
         WaitPoints, ExitPoints, States
<1> USE NoneFact, <1>1, <1>2, <1>3, <1>4, <1>5, <1>6 DEF IInv, OthersStay, OthersLocalsStay
<1>8. InvState' /\ InvClone' /\ CreatingExact' /\ InvParent'
  BY DEF InvState, Wakes, InvClone, Cloning, CreatingExact, InvParent
<1>9. InvLocks'
  BY DEF TypeOK, InvLocks, WakesParent, Wakes
<1>10. FamilyTree'
  BY DEF TypeOK, FamilyTree, LetGo
<1>11. InvWait'
  BY DEF InvWait, Wanted
<1>12. NoLostExitWakeup'
  BY DEF NoLostExitWakeup, Wanted
<1>13. InvCount' /\ InvFlushed'
  BY DEF InvCount, InUse, InvFlushed, WakesParent, Wakes
<1> QED
  BY <1>7, <1>8, <1>9, <1>10, <1>11, <1>12, <1>13 DEF IInv

(* kill() found no such pid: pool_lock goes.                                *)
LEMMA KillNoneStep ==
  ASSUME IInv, NEW p \in Procs, KillNone(p), OthersStay(p)
  PROVE  IInv'
<1>1. /\ pc[p] = "kl_scan" /\ pc'[p] \in {"user", "exit"} /\
        poolLock' = None /\ np'[p] = None
      /\ UNCHANGED <<state, parent, pid, target, plock, waitLock,
                      creatingLock, creating, flushed, count, chan>>
  BY DEF IInv, TypeOK, KillNone, Return, Goto, Set, slotVars
<1>2. \A q \in Procs : idx'[p] <= q /\ ~(idx'[p] > q)
  BY ProcTreeAssumption DEF IInv, TypeOK, Procs, AtEnd, KillNone, Rewind, Return
<1>3. \A q \in Procs : idx[p] > q /\ ~(idx[p] <= q)
  BY ProcTreeAssumption DEF IInv, TypeOK, Procs, AtEnd, KillNone
<1>4. TypeOK'
  BY ProcTreeAssumption
     DEF IInv, TypeOK, KillNone, Return, Goto, Set, AtEnd, Rewind, slotVars,
         Points, WaitPoints, ExitPoints
<1> USE NoneFact, <1>1, <1>2, <1>3 DEF IInv, OthersStay, OthersLocalsStay
<1>5. InvState' /\ InvClone' /\ CreatingExact' /\ InvParent'
  BY DEF InvState, Wakes, InvClone, Cloning, CreatingExact, InvParent
<1>6. InvLocks'
  BY DEF TypeOK, InvLocks, WakesParent, Wakes
<1>7. FamilyTree'
  BY DEF TypeOK, FamilyTree, LetGo
<1>8. InvWait'
  BY DEF InvWait, Wanted
<1>9. NoLostExitWakeup'
  BY DEF NoLostExitWakeup, Wanted
<1>10. InvCount' /\ InvFlushed'
  BY DEF InvCount, InUse, InvFlushed, WakesParent, Wakes
<1> QED
  BY <1>4, <1>5, <1>6, <1>7, <1>8, <1>9, <1>10 DEF IInv

(* times() takes the own lock, which is free,                               *)
LEMMA TimesOwnStep ==
  ASSUME IInv, NEW p \in Procs, TimesOwn(p), OthersStay(p)
  PROVE  IInv'
<1>1. /\ pc[p] = "tm_own" /\ pc'[p] = "tm_pool" /\ plock[p] = None
      /\ UNCHANGED <<state, parent, pid, target, waitLock, poolLock,
                      creatingLock, creating, flushed, np, arg, count,
                      chan, idx>>
  BY DEF IInv, TypeOK, TimesOwn, Goto, Set, slotVars, locals
<1>2. \A q \in Procs : plock'[q] = IF q = p THEN p ELSE plock[q]
  BY DEF IInv, TypeOK, TimesOwn, Goto, Set, slotVars, locals
<1>3. TypeOK'
  BY ProcTreeAssumption
     DEF IInv, TypeOK, TimesOwn, Goto, Set, slotVars, locals, Points,
         WaitPoints, ExitPoints
<1> USE NoneFact, <1>1, <1>2 DEF IInv, OthersStay, OthersLocalsStay
<1>4. InvState' /\ InvClone' /\ CreatingExact' /\ InvParent'
  BY DEF InvState, Wakes, InvClone, Cloning, CreatingExact, InvParent
<1>5. InvLocks'
  BY DEF TypeOK, InvLocks, WakesParent, Wakes, InvClone, Cloning
<1>6. FamilyTree' /\ InvWait' /\ NoLostExitWakeup'
  BY DEF TypeOK, FamilyTree, LetGo, InvWait, Wanted, NoLostExitWakeup
<1>7. InvCount' /\ InvFlushed'
  BY DEF InvCount, InUse, InvFlushed, WakesParent, Wakes
<1> QED
  BY <1>3, <1>4, <1>5, <1>6, <1>7 DEF IInv

(* then pool_lock, which is free,                                          *)
LEMMA TimesPoolStep ==
  ASSUME IInv, NEW p \in Procs, TimesPool(p), OthersStay(p)
  PROVE  IInv'
<1>1. /\ pc[p] = "tm_pool" /\ pc'[p] = "tm_scan" /\ poolLock = None /\
        poolLock' = p
      /\ UNCHANGED <<state, parent, pid, target, plock, waitLock,
                      creatingLock, creating, flushed, np, arg, count, chan>>
  BY DEF IInv, TypeOK, TimesPool, Goto, slotVars, locals
<1>2. \A q \in Procs : idx'[p] <= q /\ ~(idx'[p] > q)
  BY ProcTreeAssumption DEF IInv, TypeOK, Procs, AtEnd, TimesPool, Rewind
<1>3. TypeOK'
  BY ProcTreeAssumption
     DEF IInv, TypeOK, TimesPool, Goto, Rewind, slotVars, locals, Points,
         WaitPoints, ExitPoints
<1> USE NoneFact, <1>1, <1>2 DEF IInv, OthersStay, OthersLocalsStay
<1>4. InvState' /\ InvClone' /\ CreatingExact' /\ InvParent'
  BY DEF InvState, Wakes, InvClone, Cloning, CreatingExact, InvParent
<1>5. InvLocks'
  BY DEF TypeOK, InvLocks, WakesParent, Wakes
<1>6. FamilyTree' /\ InvWait' /\ NoLostExitWakeup'
  BY DEF TypeOK, FamilyTree, LetGo, InvWait, Wanted, NoLostExitWakeup
<1>7. InvCount' /\ InvFlushed'
  BY DEF InvCount, InUse, InvFlushed, WakesParent, Wakes
<1> QED
  BY <1>3, <1>4, <1>5, <1>6, <1>7 DEF IInv

(* looks at the other slots                                                *)
LEMMA TimesScanStep ==
  ASSUME IInv, NEW p \in Procs, TimesScan(p), OthersStay(p)
  PROVE  IInv'
<1>1. idx[p] \in Procs
  BY ProcTreeAssumption DEF IInv, TypeOK, Procs, AtEnd, TimesScan
<1>2. /\ pc[p] = "tm_scan" /\ pc'[p] = "tm_scan"
      /\ UNCHANGED <<state, parent, pid, target, plock, waitLock,
                      poolLock, creatingLock, creating, flushed, np, arg,
                      count, chan>>
  BY <1>1 DEF IInv, TypeOK, TimesScan, slotVars, lockVars, locals
<1>3. idx'[p] = idx[p] + 1
  BY DEF IInv, TypeOK, TimesScan, Advance
<1>4. \A q \in Procs : /\ idx'[p] > q <=> idx[p] > q \/ q = idx[p]
                       /\ idx'[p] <= q <=> idx[p] <= q /\ q # idx[p]
  BY <1>1, <1>3, ProcTreeAssumption DEF Procs
<1>5. TypeOK'
  BY <1>1, ProcTreeAssumption
     DEF IInv, TypeOK, TimesScan, AtEnd, Advance, slotVars, lockVars, locals
<1> USE NoneFact, <1>1, <1>2, <1>4 DEF IInv, OthersStay, OthersLocalsStay
<1>6. InvState' /\ InvClone' /\ CreatingExact' /\ InvParent'
  BY DEF InvState, Wakes, InvClone, Cloning, CreatingExact, InvParent
<1>7. InvLocks'
  BY DEF TypeOK, InvLocks, WakesParent, Wakes
<1>8. FamilyTree' /\ InvWait' /\ NoLostExitWakeup'
  BY DEF TypeOK, FamilyTree, LetGo, InvWait, Wanted, NoLostExitWakeup
<1>9. InvCount' /\ InvFlushed'
  BY DEF InvCount, InUse, InvFlushed, WakesParent, Wakes
<1> QED
  BY <1>5, <1>6, <1>7, <1>8, <1>9 DEF IInv

(* and releases both.                                                      *)
LEMMA TimesDoneStep ==
  ASSUME IInv, NEW p \in Procs, TimesDone(p), OthersStay(p)
  PROVE  IInv'
<1>1. /\ pc[p] = "tm_scan" /\ pc'[p] \in {"user", "exit"} /\
        poolLock' = None /\ np'[p] = None
      /\ UNCHANGED <<state, parent, pid, target, waitLock,
                      creatingLock, creating, flushed, count, chan>>
      /\ \A q \in Procs : plock'[q] = IF q = p THEN None ELSE plock[q]
  BY DEF IInv, TypeOK, TimesDone, Return, Goto, Set, slotVars
<1>2. \A q \in Procs : idx'[p] <= q /\ ~(idx'[p] > q)
  BY ProcTreeAssumption DEF IInv, TypeOK, Procs, AtEnd, TimesDone, Rewind, Return
<1>3. \A q \in Procs : idx[p] > q /\ ~(idx[p] <= q)
  BY ProcTreeAssumption DEF IInv, TypeOK, Procs, AtEnd, TimesDone
<1>4. TypeOK'
  BY ProcTreeAssumption
     DEF IInv, TypeOK, TimesDone, Return, Goto, Set, AtEnd, Rewind, slotVars,
         Points, WaitPoints, ExitPoints
<1> USE NoneFact, <1>1, <1>2, <1>3 DEF IInv, OthersStay, OthersLocalsStay
<1>5. InvState' /\ InvClone' /\ CreatingExact' /\ InvParent'
  BY DEF InvState, Wakes, InvClone, Cloning, CreatingExact, InvParent
<1>6. InvLocks'
  <2>1. chan[p] = None
    BY DEF TypeOK, InvState, Wakes
  <2>2. ~WakesParent(p) /\ \A q \in Procs : WakesParent(q)' <=> WakesParent(q)
    BY <2>1 DEF WakesParent, Wakes
  <2>3. (\A q \in Procs : /\ poolLock = q <=> pc[q] \in {"cl_scan", "kl_scan", "ex_count", "tm_scan"}
                          /\ creatingLock = q <=> pc[q] = "wk_scan")'
    BY DEF InvLocks
  <2>4. \A q \in Procs :
          /\ waitLock' = q <=> \/ pc'[q] \in {"wt_scan", "wt_sleep", "ex_orphan", "ex_own", "ex_switch"}
                              \/ WakesParent(q)'
          /\ pc'[q] \in {"forked", "ex_switch", "tm_pool", "tm_scan"} \/ WakesParent(q)'
               => plock'[q] = q
    BY <2>1, <2>2 DEF TypeOK, InvLocks
  <2>5. \A q \in Procs : pc'[q] \in {"cl_creating", "cl_copy"} => plock'[np'[q]] = q
    BY DEF TypeOK, InvLocks, InvClone, Cloning
  <2>6. \A q \in Procs : plock'[q] # None =>
          \/ plock'[q] = q /\ pc'[q] \in {"forked", "ex_switch", "tm_pool", "tm_scan"} \cup Wakes
          \/ pc'[plock'[q]] \in {"cl_creating", "cl_copy"} /\ np'[plock'[q]] = q
    BY DEF TypeOK, InvLocks, Wakes
  <2> QED  BY <2>3, <2>4, <2>5, <2>6 DEF InvLocks
<1>7. FamilyTree'
  BY DEF TypeOK, FamilyTree, LetGo
<1>8. InvWait'
  BY DEF InvWait, Wanted
<1>9. NoLostExitWakeup'
  BY DEF NoLostExitWakeup, Wanted
<1>10. InvCount' /\ InvFlushed'
  BY DEF InvCount, InUse, InvFlushed, WakesParent, Wakes
<1> QED
  BY <1>4, <1>5, <1>6, <1>7, <1>8, <1>9, <1>10 DEF IInv

(* exit() closes the files under its own lock, which is free; the last end  *)
(* of a pipe calls wakeup() there.                                          *)
LEMMA ExitCloseStep ==
  ASSUME IInv, NEW p \in Procs, ExitClose(p), OthersStay(p)
  PROVE  IInv'
<1>1. /\ pc[p] = "exit" /\ pc'[p] \in {"ex_lock", "wk_lock"} /\
        plock[p] = None
      /\ UNCHANGED <<state, parent, pid, target, waitLock, poolLock,
                      creatingLock, creating, flushed, np, arg, count,
                      chan, idx>>
  BY DEF IInv, TypeOK, ExitClose, Goto, Set, slotVars, locals
<1>2. /\ \A q \in Procs : plock'[q] = IF q = p /\ pc'[p] = "wk_lock" THEN p ELSE plock[q]
  BY DEF IInv, TypeOK, ExitClose, Goto, Set, slotVars, locals
<1>3. TypeOK'
  BY ProcTreeAssumption
     DEF IInv, TypeOK, ExitClose, Goto, Set, slotVars, locals, Points,
         WaitPoints, ExitPoints
<1> USE NoneFact, <1>1, <1>2 DEF IInv, OthersStay, OthersLocalsStay
<1>4. InvState' /\ InvClone' /\ CreatingExact' /\ InvParent'
  BY DEF InvState, Wakes, InvClone, Cloning, CreatingExact, InvParent
<1>5. InvLocks'
  <2>1. chan[p] = None
    BY DEF TypeOK, InvState, Wakes
  <2>2. \A q \in Procs : plock'[q] = plock[q] \/ (q = p /\ plock'[p] = p /\ pc'[p] = "wk_lock")
    OBVIOUS
  <2>3. (\A q \in Procs : /\ poolLock = q <=> pc[q] \in {"cl_scan", "kl_scan", "ex_count", "tm_scan"}
                          /\ creatingLock = q <=> pc[q] = "wk_scan")'
    BY DEF InvLocks
  <2>4. \A q \in Procs : WakesParent(q)' <=> WakesParent(q)
    BY <2>1 DEF WakesParent, Wakes
  <2> QED  BY <2>2, <2>3, <2>4 DEF TypeOK, InvLocks, InvClone, Cloning, Wakes
<1>6. FamilyTree' /\ InvWait' /\ NoLostExitWakeup'
  BY DEF TypeOK, FamilyTree, LetGo, InvWait, Wanted, NoLostExitWakeup
<1>7. InvCount' /\ InvFlushed'
  BY DEF InvCount, InUse, InvFlushed, WakesParent, Wakes
<1> QED
  BY <1>3, <1>4, <1>5, <1>6, <1>7 DEF IInv

(* exit() takes wait_lock, which is free, to hand its children on.          *)
LEMMA ExitWaitLockStep ==
  ASSUME IInv, NEW p \in Procs, ExitWaitLock(p), OthersStay(p)
  PROVE  IInv'
<1>1. /\ pc[p] = "ex_lock" /\ pc'[p] = "ex_orphan" /\ waitLock = None /\
        waitLock' = p
      /\ UNCHANGED <<state, parent, pid, target, plock, poolLock,
                      creatingLock, creating, flushed, np, arg, count, chan>>
  BY DEF IInv, TypeOK, ExitWaitLock, Goto, slotVars, locals
<1>2. \A q \in Procs : idx'[p] <= q /\ ~(idx'[p] > q)
  BY ProcTreeAssumption DEF IInv, TypeOK, Procs, AtEnd, ExitWaitLock, Rewind
<1>3. TypeOK'
  BY ProcTreeAssumption
     DEF IInv, TypeOK, ExitWaitLock, Goto, Rewind, slotVars, locals, Points,
         WaitPoints, ExitPoints
<1> USE NoneFact, <1>1, <1>2 DEF IInv, OthersStay, OthersLocalsStay
<1>4. InvState' /\ InvClone' /\ CreatingExact' /\ InvParent'
  BY DEF InvState, Wakes, InvClone, Cloning, CreatingExact, InvParent
<1>5. InvLocks'
  BY DEF TypeOK, InvLocks, WakesParent, Wakes
<1>6. FamilyTree'
  BY DEF TypeOK, FamilyTree, LetGo
<1>7. InvWait'
  BY DEF InvWait, Wanted
<1>8. NoLostExitWakeup'
  BY DEF NoLostExitWakeup, Wanted
<1>9. InvCount' /\ InvFlushed'
  BY DEF InvCount, InUse, InvFlushed, WakesParent, Wakes
<1> QED
  BY <1>3, <1>4, <1>5, <1>6, <1>7, <1>8, <1>9 DEF IInv

(* reparent() meets one slot: a zombie child is freed, and has no children  *)
(* itself, a living one loses its parent, which is not in wait() but here.  *)
LEMMA ExitReparentStep ==
  ASSUME IInv, NEW p \in Procs, ExitReparent(p), OthersStay(p)
  PROVE  IInv'
<1>1. idx[p] \in Procs
  BY ProcTreeAssumption DEF IInv, TypeOK, Procs, AtEnd, ExitReparent
<1>2. /\ pc[p] = "ex_orphan" /\ pc' = pc /\ (idx[p] # p => plock[idx[p]] = None)
      /\ UNCHANGED <<target, plock, waitLock, poolLock, creatingLock, creating, flushed,
                     np, arg, count, chan>>
  BY DEF ExitReparent, Free, slotVars, lockVars, locals
<1>3. idx'[p] = idx[p] + 1
  BY DEF IInv, TypeOK, ExitReparent, Advance
<1>4. \A q \in Procs : /\ idx'[p] > q <=> idx[p] > q \/ q = idx[p]
                       /\ idx'[p] <= q <=> idx[p] <= q /\ q # idx[p]
  BY <1>1, <1>3, ProcTreeAssumption DEF Procs
<1>5. idx' \in [Procs -> 1 .. NPROC + 1]
  BY SMTT(20), <1>1, ProcTreeAssumption DEF IInv, TypeOK, Procs, ExitReparent, Advance
<1> DEFINE q == idx[p]
           child == q # p /\ state[q] # "UNUSED" /\ parent[q] = p
<1>6. CASE child /\ state[q] = "ZOMBIE"
  <2>1. \A r \in Procs : /\ state'[r] = IF r = q THEN "UNUSED" ELSE state[r]
                         /\ parent'[r] = IF r = q THEN None ELSE parent[r]
                         /\ r # q => pid'[r] = pid[r]
    BY <1>1, <1>6 DEF IInv, TypeOK, ExitReparent, Free, Set
  <2>7. TypeOK'
    <3>1. state' \in [Procs -> States]
      BY <1>1, <1>6 DEF IInv, TypeOK, States, ExitReparent, Free, Set
    <3>2. parent' \in [Procs -> Procs \cup {None}]
      BY <1>1, <1>6 DEF IInv, TypeOK, ExitReparent, Free, Set
    <3>3. pid' \in [Procs -> Nat]
      BY <1>1, <1>6 DEF IInv, TypeOK, ExitReparent, Free, Set
    <3>4. killed' \in [Procs -> BOOLEAN]
      BY <1>1, <1>6 DEF IInv, TypeOK, ExitReparent, Free, Set
    <3> QED
      BY <1>2, <1>5, <3>1, <3>2, <3>3, <3>4 DEF IInv, TypeOK, ExitReparent, lockVars, locals
  <2> USE NoneFact, <1>1, <1>2, <1>4, <1>6, <2>1
      DEF IInv, TypeOK, Cloning, Wakes, WakesParent, OthersStay, OthersLocalsStay,
        InvState, InvClone, InvLocks
  <2>2. InvState' /\ InvClone'
    OBVIOUS
  <2>3. InvLocks' /\ CreatingExact' /\ InvParent'
    BY DEF CreatingExact, InvParent
  <2>4. FamilyTree'
    BY DEF FamilyTree, LetGo, InvParent
  <2>5. InvWait' /\ NoLostExitWakeup'
    BY DEF InvWait, NoLostExitWakeup, Wanted, InvParent
  <2>6. InvCount' /\ InvFlushed'
    BY DEF InvCount, InvFlushed, InUse
  <2> QED  BY <2>7, <2>2, <2>3, <2>4, <2>5, <2>6 DEF IInv
<1>7. CASE child /\ state[q] # "ZOMBIE"
  <2>1. /\ UNCHANGED <<state, pid>>
        /\ \A r \in Procs : parent'[r] = IF r = q THEN None ELSE parent[r]
    BY <1>1, <1>7 DEF IInv, TypeOK, ExitReparent, Free, Set
  <2>7. TypeOK'
    <3>1. parent' \in [Procs -> Procs \cup {None}] /\ UNCHANGED killed
      BY <1>1, <1>7 DEF IInv, TypeOK, ExitReparent, Set
    <3> QED
      BY <1>2, <1>5, <2>1, <3>1 DEF IInv, TypeOK, ExitReparent, lockVars, locals
  <2> USE NoneFact, <1>1, <1>2, <1>4, <1>7, <2>1
      DEF IInv, TypeOK, Cloning, Wakes, WakesParent, OthersStay, OthersLocalsStay,
        InvState, InvClone, InvLocks
  <2>2. InvState' /\ InvClone'
    OBVIOUS
  <2>3. InvLocks' /\ CreatingExact' /\ InvParent'
    BY DEF CreatingExact, InvParent
  <2>4. FamilyTree'
    BY DEF FamilyTree, LetGo, InvParent
  <2>5. InvWait' /\ NoLostExitWakeup'
    BY DEF InvWait, NoLostExitWakeup, Wanted, InvParent
  <2>6. InvCount' /\ InvFlushed'
    BY DEF InvCount, InvFlushed, InUse
  <2> QED  BY <2>7, <2>2, <2>3, <2>4, <2>5, <2>6 DEF IInv
<1>8. CASE ~child
  <2>1. UNCHANGED <<state, parent, pid>>
    BY <1>8 DEF ExitReparent, slotVars
  <2>7. TypeOK'
    BY <1>2, <1>8, <1>5 DEF IInv, TypeOK, ExitReparent, slotVars, lockVars, locals
  <2> USE NoneFact, <1>1, <1>2, <1>4, <1>8, <2>1
      DEF IInv, TypeOK, Cloning, Wakes, WakesParent, OthersStay, OthersLocalsStay,
        InvState, InvClone, InvLocks
  <2>2. InvState' /\ InvClone'
    OBVIOUS
  <2>3. InvLocks' /\ CreatingExact' /\ InvParent'
    BY DEF CreatingExact, InvParent
  <2>4. FamilyTree'
    BY DEF FamilyTree, LetGo, InvParent
  <2>5. InvWait' /\ NoLostExitWakeup'
    BY DEF InvWait, NoLostExitWakeup, Wanted, InvParent
  <2>6. InvCount' /\ InvFlushed'
    BY DEF InvCount, InvFlushed, InUse
  <2> QED  BY <2>7, <2>2, <2>3, <2>4, <2>5, <2>6 DEF IInv
<1> QED  BY <1>6, <1>7, <1>8

(* Every slot was passed: no child of the exiting process is left behind.   *)
LEMMA ExitReparentedStep ==
  ASSUME IInv, NEW p \in Procs, ExitReparented(p), OthersStay(p)
  PROVE  IInv'
<1>1. /\ pc[p] = "ex_orphan" /\ pc'[p] = "ex_pool" /\ waitLock' = None
      /\ UNCHANGED <<state, parent, pid, target, plock, poolLock,
                      creatingLock, creating, flushed, np, arg, count,
                      chan, idx>>
  BY DEF IInv, TypeOK, ExitReparented, Goto, slotVars, locals
<1>2. \A q \in Procs : idx[p] > q /\ ~(idx[p] <= q)
  BY ProcTreeAssumption DEF IInv, TypeOK, Procs, AtEnd, ExitReparented
<1>3. TypeOK'
  BY ProcTreeAssumption
     DEF IInv, TypeOK, ExitReparented, Goto, AtEnd, slotVars, locals, Points,
         WaitPoints, ExitPoints
<1> USE NoneFact, <1>1, <1>2 DEF IInv, OthersStay, OthersLocalsStay
<1>4. InvState' /\ InvClone' /\ CreatingExact' /\ InvParent'
  BY DEF InvState, Wakes, InvClone, Cloning, CreatingExact, InvParent
<1>5. InvLocks'
  BY DEF TypeOK, InvLocks, WakesParent, Wakes
<1>6. FamilyTree' /\ InvWait' /\ NoLostExitWakeup'
  BY DEF TypeOK, FamilyTree, LetGo, InvWait, Wanted, NoLostExitWakeup
<1>7. InvCount' /\ InvFlushed'
  BY DEF InvCount, InUse, InvFlushed, WakesParent, Wakes
<1> QED
  BY <1>3, <1>4, <1>5, <1>6, <1>7 DEF IInv

(* exit() takes pool_lock and begins to count at slot 1, with none passed.  *)
LEMMA ExitPoolStep ==
  ASSUME IInv, NEW p \in Procs, ExitPool(p), OthersStay(p)
  PROVE  IInv'
<1>1. /\ pc[p] = "ex_pool" /\ pc'[p] = "ex_count" /\ poolLock = None /\ poolLock' = p
      /\ UNCHANGED <<state, parent, pid, target, plock, waitLock, creatingLock, creating,
                     flushed, np, arg, chan>>
  BY DEF IInv, TypeOK, ExitPool, Goto, slotVars
<1>2. /\ \A q \in Procs : idx'[p] <= q /\ ~(idx'[p] > q)
      /\ count'[p] = 0 /\ idx'[p] > count'[p]
  BY ProcTreeAssumption DEF IInv, TypeOK, Procs, ExitPool, Rewind, Set
<1>3. TypeOK'
  BY ProcTreeAssumption
     DEF IInv, TypeOK, ExitPool, Goto, Set, Rewind, slotVars, Points,
         WaitPoints, ExitPoints
<1> USE NoneFact, <1>1, <1>2
    DEF IInv, TypeOK, Cloning, Wakes, WakesParent, OthersStay, OthersLocalsStay,
        InvState, InvClone, InvLocks
<1>4. InvState' /\ InvClone' /\ CreatingExact' /\ InvParent'
  BY DEF CreatingExact, InvParent
<1>5. InvLocks'
  <2>1. \A q \in Procs : WakesParent(q)' <=> WakesParent(q)
    OBVIOUS
  <2>2. (\A q \in Procs : /\ poolLock = q <=> pc[q] \in {"cl_scan", "kl_scan", "ex_count", "tm_scan"}
                          /\ creatingLock = q <=> pc[q] = "wk_scan")'
    OBVIOUS
  <2>3. \A q \in Procs :
          /\ waitLock' = q <=> \/ pc'[q] \in {"wt_scan", "wt_sleep", "ex_orphan", "ex_own", "ex_switch"}
                              \/ WakesParent(q)'
          /\ pc'[q] \in {"forked", "ex_switch", "tm_pool", "tm_scan"} \/ WakesParent(q)'
               => plock'[q] = q
    BY <2>1
  <2>4. \A q \in Procs : pc'[q] \in {"cl_creating", "cl_copy"} => plock'[np'[q]] = q
    OBVIOUS
  <2>5. \A q \in Procs : plock'[q] # None =>
          \/ plock'[q] = q /\ pc'[q] \in {"forked", "ex_switch", "tm_pool", "tm_scan"} \cup Wakes
          \/ pc'[plock'[q]] \in {"cl_creating", "cl_copy"} /\ np'[plock'[q]] = q
    OBVIOUS
  <2> QED  BY <2>2, <2>3, <2>4, <2>5
<1>6. FamilyTree' /\ InvWait' /\ NoLostExitWakeup'
  <2>1. FamilyTree'
    BY DEF FamilyTree, LetGo
  <2>2. InvWait'
    BY DEF InvWait, Wanted
  <2>3. NoLostExitWakeup'
    BY DEF NoLostExitWakeup, Wanted
  <2> QED  BY <2>1, <2>2, <2>3
<1>7. InvCount'
  BY DEF InvCount, InUse
<1>8. InvFlushed'
  BY DEF InvFlushed, InUse
<1> QED  BY <1>3, <1>4, <1>5, <1>6, <1>7, <1>8 DEF IInv

(* One slot is counted under its lock. A slot in use raises the count; the  *)
(* count stays what InvCount says of the slots passed.                      *)
LEMMA ExitCountStep ==
  ASSUME IInv, NEW p \in Procs, ExitCount(p), OthersStay(p)
  PROVE  IInv'
<1>1. idx[p] \in Procs
  BY ProcTreeAssumption DEF IInv, TypeOK, Procs, AtEnd, ExitCount
<1>2. /\ pc[p] = "ex_count" /\ pc' = pc /\ plock[idx[p]] = None
      /\ UNCHANGED <<state, parent, pid, target, plock, waitLock, poolLock, creatingLock,
                     creating, flushed, np, arg, chan>>
  BY DEF ExitCount, slotVars, lockVars
<1>3. idx'[p] = idx[p] + 1
  BY DEF IInv, TypeOK, ExitCount, Advance
<1>4. \A q \in Procs : /\ idx'[p] > q <=> idx[p] > q \/ q = idx[p]
                       /\ idx'[p] <= q <=> idx[p] <= q /\ q # idx[p]
  BY <1>1, <1>3, ProcTreeAssumption DEF Procs
<1>5. count'[p] = IF state[idx[p]] # "UNUSED" THEN count[p] + 1 ELSE count[p]
  BY DEF IInv, TypeOK, ExitCount, Set
<1>6. idx[p] > count[p] /\ count[p] \in Nat
  BY <1>2, ProcTreeAssumption DEF IInv, TypeOK, InvCount
<1>7. TypeOK'
  <2>1. idx' \in [Procs -> 1 .. NPROC + 1]
    BY <1>1, ProcTreeAssumption DEF IInv, TypeOK, Procs, ExitCount, Advance
  <2>2. count[p] + 1 \in 0 .. NPROC
    BY <1>1, <1>6, ProcTreeAssumption DEF Procs
  <2>3. count' \in [Procs -> 0 .. NPROC]
    BY <2>2 DEF IInv, TypeOK, ExitCount, Set
  <2> QED
    BY <2>1, <2>3 DEF IInv, TypeOK, ExitCount, slotVars, lockVars
<1>8. InvCount'
  <2>1. idx'[p] > count'[p]
    BY <1>1, <1>3, <1>5, <1>6 DEF Procs
  <2>2. count'[p] = 0 => count[p] = 0 /\ state[idx[p]] = "UNUSED"
    BY <1>5, <1>6
  <2>3. count'[p] = 1 => \/ count[p] = 1 /\ state[idx[p]] = "UNUSED"
                         \/ count[p] = 0 /\ state[idx[p]] # "UNUSED"
    BY <1>5, <1>6
  <2>4. \A r \in Procs : pc[r] = "cl_creating" => np[r] # idx[p]
    BY <1>1, <1>2, NoneFact DEF IInv, InvLocks
  <2>5. (count[p] = 0 => \A q \in InUse : idx[p] <= q)'
    BY <1>1, <1>2, <1>4, <2>2 DEF IInv, InvCount, InUse
  <2>6. (count[p] = 1 => \A q, r \in InUse : idx[p] > q /\ idx[p] > r => q = r)'
    <3>1. CASE count[p] = 1 /\ state[idx[p]] = "UNUSED"
      BY <1>1, <1>2, <1>4, <3>1 DEF IInv, InvCount, InUse
    <3>2. CASE count[p] = 0 /\ state[idx[p]] # "UNUSED"
      <4>1. \A q \in InUse : idx[p] <= q
        BY <1>2, <3>2 DEF IInv, InvCount
      <4>2. \A q \in Procs : idx[p] <= q => ~(idx[p] > q)
        BY <1>1 DEF Procs
      <4> QED  BY <1>1, <1>2, <1>4, <4>1, <4>2 DEF InUse
    <3> QED  BY <2>3, <3>1, <3>2
  <2>7. \A r \in Procs : pc'[r] = "cl_creating" => idx'[p] <= np'[r]
    BY <1>1, <1>2, <1>4, <2>4 DEF IInv, InvCount, InvClone, Cloning
  <2>8. \A q \in Procs \ {p} : pc'[q] # "ex_count"
    BY <1>2, NoneFact DEF IInv, InvLocks
  <2> QED  BY <2>1, <2>5, <2>6, <2>7, <2>8 DEF InvCount
<1> USE NoneFact, <1>1, <1>2, <1>4
    DEF IInv, TypeOK, Cloning, Wakes, WakesParent, OthersStay, OthersLocalsStay,
        InvState, InvClone, InvLocks
<1>9. InvState' /\ InvClone' /\ CreatingExact' /\ InvParent'
  BY DEF CreatingExact, InvParent
<1>10. InvLocks' /\ InvFlushed'
  BY DEF InvFlushed, InUse
<1>11. FamilyTree' /\ InvWait' /\ NoLostExitWakeup'
  BY DEF FamilyTree, LetGo, InvWait, NoLostExitWakeup, Wanted
<1> QED  BY <1>7, <1>8, <1>9, <1>10, <1>11 DEF IInv

(* The count is known. When it is one, the counting process is the one in   *)
(* use, and no clone() is about to fill a slot in: it stays alone.          *)
LEMMA ExitCountedStep ==
  ASSUME IInv, NEW p \in Procs, ExitCounted(p), OthersStay(p)
  PROVE  IInv'
<1>1. /\ pc[p] = "ex_count" /\ pc'[p] = "ex_lock2" /\ poolLock' = None /\
        flushed' = (flushed \/ count[p] = 1) /\ count'[p] = 0
      /\ UNCHANGED <<state, parent, pid, target, plock, waitLock,
                      creatingLock, creating, np, arg, chan, idx>>
  BY DEF IInv, TypeOK, ExitCounted, Goto, Set, slotVars
<1>2. \A q \in Procs : idx[p] > q /\ ~(idx[p] <= q)
  BY ProcTreeAssumption DEF IInv, TypeOK, Procs, AtEnd, ExitCounted
<1>3. TypeOK'
  BY ProcTreeAssumption
     DEF IInv, TypeOK, ExitCounted, Goto, Set, AtEnd, slotVars, Points,
         WaitPoints, ExitPoints
<1> USE NoneFact, <1>1, <1>2 DEF IInv, OthersStay, OthersLocalsStay
<1>4. InvState' /\ InvClone' /\ CreatingExact' /\ InvParent'
  BY DEF InvState, Wakes, InvClone, Cloning, CreatingExact, InvParent
<1>5. InvLocks'
  BY DEF TypeOK, InvLocks, WakesParent, Wakes
<1>6. FamilyTree' /\ InvWait' /\ NoLostExitWakeup'
  BY DEF TypeOK, FamilyTree, LetGo, InvWait, Wanted, NoLostExitWakeup
<1>7. InvCount'
  BY DEF InvCount, InUse
<1>8. InvFlushed'
  BY DEF InvCount, InvFlushed, InUse, InvState, WakesParent
<1> QED
  BY <1>3, <1>4, <1>5, <1>6, <1>7, <1>8 DEF IInv

(* exit() takes wait_lock again, which is free, before its own lock.        *)
LEMMA ExitWaitLock2Step ==
  ASSUME IInv, NEW p \in Procs, ExitWaitLock2(p), OthersStay(p)
  PROVE  IInv'
<1>1. /\ pc[p] = "ex_lock2" /\ pc'[p] = "ex_own" /\ waitLock = None /\
        waitLock' = p
      /\ UNCHANGED <<state, parent, pid, target, plock, poolLock,
                      creatingLock, creating, flushed, np, arg, count,
                      chan, idx>>
  BY DEF IInv, TypeOK, ExitWaitLock2, Goto, slotVars, locals
<1>2. TypeOK'
  BY ProcTreeAssumption
     DEF IInv, TypeOK, ExitWaitLock2, Goto, slotVars, locals, Points,
         WaitPoints, ExitPoints
<1> USE NoneFact, <1>1 DEF IInv, OthersStay, OthersLocalsStay
<1>3. InvState' /\ InvClone' /\ CreatingExact' /\ InvParent'
  BY DEF InvState, Wakes, InvClone, Cloning, CreatingExact, InvParent
<1>4. InvLocks'
  BY DEF TypeOK, InvLocks, WakesParent, Wakes
<1>5. FamilyTree' /\ InvWait' /\ NoLostExitWakeup'
  BY DEF TypeOK, FamilyTree, LetGo, InvWait, Wanted, NoLostExitWakeup
<1>6. InvCount' /\ InvFlushed'
  BY DEF InvCount, InUse, InvFlushed, WakesParent, Wakes
<1> QED
  BY <1>2, <1>3, <1>4, <1>5, <1>6 DEF IInv

(* The process becomes a zombie under wait_lock and its own lock: a parent  *)
(* in wait() cannot have passed it, since the parent needs wait_lock to go  *)
(* on.                                                                      *)
LEMMA ExitZombieStep ==
  ASSUME IInv, NEW p \in Procs, ExitZombie(p), OthersStay(p)
  PROVE  IInv'
<1>1. /\ pc[p] = "ex_own" /\ pc'[p] = "wk_lock" /\ parent[p] # None /\
        plock[p] = None /\ chan'[p] = parent[p]
      /\ UNCHANGED <<parent, pid, target, waitLock, poolLock,
                      creatingLock, creating, flushed, np, arg, count, idx>>
  BY DEF IInv, TypeOK, ExitZombie, Goto, Set
<1>2. /\ \A q \in Procs : plock'[q] = IF q = p THEN p ELSE plock[q]
      /\ \A q \in Procs : state'[q] = IF q = p THEN "ZOMBIE" ELSE state[q]
  BY DEF IInv, TypeOK, ExitZombie, Goto, Set
<1>3. TypeOK'
  BY ProcTreeAssumption
     DEF IInv, TypeOK, ExitZombie, Goto, Set, Points, WaitPoints, ExitPoints,
         States
<1> USE NoneFact, <1>1, <1>2 DEF IInv, OthersStay, OthersLocalsStay
<1>4. InvState' /\ CreatingExact' /\ InvParent'
  BY DEF InvState, Wakes, CreatingExact, InvParent
<1>5. InvClone'
  BY DEF TypeOK, InvClone, Cloning, InvState
<1>6. InvLocks'
  BY DEF TypeOK, InvLocks, WakesParent, Wakes, InvClone, Cloning
<1>7. FamilyTree' /\ NoLostExitWakeup'
  BY DEF TypeOK, FamilyTree, LetGo, NoLostExitWakeup, Wanted
<1>8. InvWait'
  BY DEF TypeOK, InvWait, Wanted, InvState, InvLocks, InvClone, Cloning,
         Wakes, WakesParent
<1>9. InvCount'
  BY DEF TypeOK, InvCount, InUse, InvState, InvClone, InvLocks, Cloning,
         Wakes, WakesParent
<1>10. InvFlushed'
  BY DEF TypeOK, InvFlushed, InUse, WakesParent, Wakes, InvState
<1> QED
  BY <1>3, <1>4, <1>5, <1>6, <1>7, <1>8, <1>9, <1>10 DEF IInv

(* A process without a parent frees its own slot: no child points to it.    *)
LEMMA ExitFreeStep ==
  ASSUME IInv, NEW p \in Procs, ExitFree(p), OthersStay(p)
  PROVE  IInv'
<1>1. /\ pc[p] = "ex_own" /\ pc'[p] = "ex_switch" /\ parent[p] = None /\
        plock[p] = None
      /\ UNCHANGED <<target, waitLock, poolLock, creatingLock, creating,
                      flushed, np, arg, count, chan, idx>>
  BY DEF IInv, TypeOK, ExitFree, Free, Goto, Set, locals
<1>2. /\ \A q \in Procs : plock'[q] = IF q = p THEN p ELSE plock[q]
      /\ \A q \in Procs : state'[q] = IF q = p THEN "UNUSED" ELSE state[q]
      /\ \A q \in Procs : parent'[q] = IF q = p THEN None ELSE parent[q]
      /\ \A q \in Procs : q # p => pid'[q] = pid[q]
  BY DEF IInv, TypeOK, ExitFree, Free, Goto, Set, locals
<1>3. TypeOK'
  BY ProcTreeAssumption
     DEF IInv, TypeOK, ExitFree, Free, Goto, Set, locals, Points, WaitPoints,
         ExitPoints, States
<1> USE NoneFact, <1>1, <1>2 DEF IInv, OthersStay, OthersLocalsStay
<1>4. InvState' /\ CreatingExact' /\ InvParent'
  BY DEF InvState, Wakes, CreatingExact, InvParent
<1>5. InvClone'
  BY DEF TypeOK, InvClone, Cloning, InvState
<1>6. InvLocks'
  BY DEF TypeOK, InvLocks, WakesParent, Wakes, InvClone, Cloning
<1>7. FamilyTree'
  BY DEF TypeOK, FamilyTree, LetGo
<1>8. InvWait'
  BY DEF InvWait, Wanted
<1>9. NoLostExitWakeup'
  BY DEF NoLostExitWakeup, Wanted
<1>10. InvCount' /\ InvFlushed'
  BY DEF InvCount, InUse, InvFlushed, WakesParent, Wakes
<1> QED
  BY <1>3, <1>4, <1>5, <1>6, <1>7, <1>8, <1>9, <1>10 DEF IInv

(* The process leaves the CPU for good and both locks are let go.           *)
LEMMA ExitSwitchStep ==
  ASSUME IInv, NEW p \in Procs, ExitSwitch(p), OthersStay(p)
  PROVE  IInv'
<1>1. /\ pc[p] = "ex_switch" /\ pc'[p] = "off" /\ waitLock' = None
      /\ UNCHANGED <<state, parent, pid, target, poolLock, creatingLock,
                      creating, flushed, np, arg, count, chan>>
  BY DEF IInv, TypeOK, ExitSwitch, Goto, Set, slotVars, locals
<1>2. /\ \A q \in Procs : plock'[q] = IF q = p THEN None ELSE plock[q]
  BY DEF IInv, TypeOK, ExitSwitch, Goto, Set, slotVars, locals
<1>3. \A q \in Procs : idx'[p] <= q /\ ~(idx'[p] > q)
  BY ProcTreeAssumption DEF IInv, TypeOK, Procs, AtEnd, ExitSwitch, Rewind
<1>4. TypeOK'
  BY ProcTreeAssumption
     DEF IInv, TypeOK, ExitSwitch, Goto, Set, Rewind, slotVars, locals,
         Points, WaitPoints, ExitPoints
<1> USE NoneFact, <1>1, <1>2, <1>3 DEF IInv, OthersStay, OthersLocalsStay
<1>5. InvState' /\ InvClone' /\ CreatingExact' /\ InvParent'
  BY DEF InvState, Wakes, InvClone, Cloning, CreatingExact, InvParent
<1>6. InvLocks'
  BY DEF TypeOK, InvLocks, WakesParent, Wakes, InvClone, Cloning
<1>7. FamilyTree'
  BY DEF TypeOK, FamilyTree, LetGo
<1>8. InvWait'
  BY DEF InvWait, Wanted
<1>9. NoLostExitWakeup'
  BY DEF NoLostExitWakeup, Wanted
<1>10. InvCount' /\ InvFlushed'
  BY DEF InvCount, InUse, InvFlushed, WakesParent, Wakes
<1> QED
  BY <1>4, <1>5, <1>6, <1>7, <1>8, <1>9, <1>10 DEF IInv

(* A system call begins in user mode, with no lock.                         *)
LEMMA SyscallStep ==
  ASSUME IInv, NEW p \in Procs, Syscall(p), OthersStay(p)
  PROVE  IInv'
<1>1. /\ pc[p] = "user" /\
        pc'[p] \in {"exit", "cl_pool", "wt_lock", "kl_pool", "wk_lock", "tm_own"}
      /\ UNCHANGED <<state, parent, pid, target, plock, waitLock,
                      poolLock, creatingLock, creating, flushed, np, count,
                      chan, idx>>
  BY DEF IInv, TypeOK, Syscall, Goto, Set, slotVars, lockVars
<1>2. TypeOK'
  BY ProcTreeAssumption
     DEF IInv, TypeOK, Syscall, Goto, Set, slotVars, lockVars, Points,
         WaitPoints, ExitPoints
<1> USE NoneFact, <1>1 DEF IInv, OthersStay, OthersLocalsStay
<1>3. InvState' /\ InvClone' /\ CreatingExact' /\ InvParent'
  BY DEF InvState, Wakes, InvClone, Cloning, CreatingExact, InvParent
<1>4. InvLocks'
  BY DEF TypeOK, InvLocks, InvClone, InvState, Cloning, Wakes, WakesParent
<1>5. FamilyTree' /\ InvWait' /\ NoLostExitWakeup'
  BY DEF TypeOK, FamilyTree, LetGo, InvWait, Wanted, NoLostExitWakeup
<1>6. InvCount' /\ InvFlushed'
  BY DEF InvCount, InUse, InvFlushed, WakesParent, Wakes
<1> QED
  BY <1>2, <1>3, <1>4, <1>5, <1>6 DEF IInv

-----------------------------------------------------------------------------
(* The initial state: the shell, alone and not yet dispatched.              *)
LEMMA InitIInv == Init => IInv
<1> SUFFICES ASSUME Init
             PROVE  IInv
  OBVIOUS
<1> USE NoneFact DEF Init, AtShell
<1>1. Shell \in Procs
  BY ProcTreeAssumption DEF Shell, Procs
<1>2. TypeOK
  <2>1. state \in [Procs -> States]
    BY DEF States
  <2>2. pc \in [Procs -> Points]
    BY DEF Points
  <2>3. pid \in [Procs -> Nat]
    OBVIOUS
  <2>4. /\ idx \in [Procs -> 1 .. NPROC + 1] /\ count \in [Procs -> 0 .. NPROC]
        /\ nextPid \in Nat \ {0}
    BY ProcTreeAssumption
  <2>5. /\ parent \in [Procs -> Procs \cup {None}] /\ target \in [Procs -> Procs \cup {None}]
        /\ plock \in [Procs -> Procs \cup {None}]
        /\ {waitLock, poolLock, creatingLock, creating} \subseteq Procs \cup {None}
    BY <1>1
  <2>6. /\ np \in [Procs -> Procs \cup {None}] /\ chan \in [Procs -> Procs \cup {None}]
        /\ arg \in [Procs -> Args \cup {AnyPid}]
    OBVIOUS
  <2>7. /\ killed \in [Procs -> BOOLEAN] /\ nohang \in [Procs -> BOOLEAN]
        /\ kids \in [Procs -> BOOLEAN] /\ flushed \in BOOLEAN
    OBVIOUS
  <2> QED
    BY <2>1, <2>2, <2>3, <2>4, <2>5, <2>6, <2>7 DEF TypeOK
<1>3. InvState /\ InvClone /\ InvParent
  BY <1>1 DEF InvState, InvClone, InvParent, Cloning, Wakes
<1>4. InvLocks
  BY <1>1 DEF InvLocks, WakesParent, Wakes
<1>5. CreatingExact /\ FamilyTree
  BY <1>1 DEF CreatingExact, FamilyTree
<1>6. InvWait /\ NoLostExitWakeup /\ InvCount /\ InvFlushed
  BY <1>1 DEF InvWait, NoLostExitWakeup, InvCount, InvFlushed
<1> QED  BY <1>2, <1>3, <1>4, <1>5, <1>6 DEF IInv

(* Every step of the system keeps the inductive invariant.                  *)
LEMMA NextIInv == IInv /\ [Next]_vars => IInv'
<1> SUFFICES ASSUME IInv, [Next]_vars
             PROVE  IInv'
  OBVIOUS
<1>1. CASE UNCHANGED vars
  BY <1>1 DEF vars, slotVars, lockVars, locals, IInv, TypeOK, InvState, InvClone, InvLocks,
              CreatingExact, InvParent, FamilyTree, LetGo, InvWait, NoLostExitWakeup, Wanted,
              InvCount, InvFlushed, InUse, WakesParent
<1>2. ASSUME NEW p \in Procs, Step(p) \/ Syscall(p)
      PROVE  IInv'
  <2>1. CASE CloneCreating(p)
    BY <1>2, <2>1, OthersLocals, CloneCreatingStep DEF IInv
  <2>2. CASE ~CloneCreating(p)
    <3>1. OthersStay(p)
      BY <1>2, <2>2, OthersControl DEF IInv
    <3> QED
      BY <1>2, <2>2, <3>1,
         FirstRunStep, ForkretStep, InterruptStep, WakeupLockStep,
         WakeupScanStep, WakeupDoneStep, ClonePoolStep, CloneScanStep,
         CloneNoSlotStep, CloneNoPageTableStep, CloneCopiedStep,
         CloneParentStep, CloneRunnableStep, WaitLockStep, WaitScanStep,
         WaitReapStep, WaitBadAddressStep, WaitGiveUpStep,
         WaitDecideSleepStep, WaitSleepStep, WaitWokenStep, KillPoolStep,
         KillScanStep, KillFoundStep, KillNoneStep, TimesOwnStep,
         TimesPoolStep, TimesScanStep, TimesDoneStep, ExitCloseStep,
         ExitWaitLockStep, ExitReparentStep, ExitReparentedStep,
         ExitPoolStep, ExitCountStep, ExitCountedStep, ExitWaitLock2Step,
         ExitZombieStep, ExitFreeStep, ExitSwitchStep, SyscallStep
      DEF Step
  <2> QED  BY <2>1, <2>2
<1> QED  BY <1>1, <1>2 DEF Next, Halted

(* The invariants together hold in every reachable state.                   *)
THEOREM Invariance == Spec => []IInv
  BY InitIInv, NextIInv, PTL DEF Spec

(* Every variable has its type.                                             *)
THEOREM TypeCorrect == Spec => []TypeOK
<1>1. IInv => TypeOK
  BY DEF IInv
<1> QED  BY <1>1, Invariance, PTL

(* A parent pointer never dangles, and no zombie is left without a parent   *)
(* that can still reap it.                                                  *)
THEOREM FamilyTreeHolds == Spec => []FamilyTree
<1>1. IInv => FamilyTree
  BY DEF IInv
<1> QED  BY <1>1, Invariance, PTL

(* wait() never sleeps through the exit of a child.                         *)
THEOREM NoLostExitWakeupHolds == Spec => []NoLostExitWakeup
<1>1. IInv => NoLostExitWakeup
  BY DEF IInv
<1> QED  BY <1>1, Invariance, PTL

(* creating_proc is the process between alloc_proc() and forkret().         *)
THEOREM CreatingExactHolds == Spec => []CreatingExact
<1>1. IInv => CreatingExact
  BY DEF IInv
<1> QED  BY <1>1, Invariance, PTL

(* Whoever writes the page cache back in exit() is alone from then on.      *)
THEOREM FlushedAloneHolds == Spec => []FlushedAlone
<1>1. IInv => FlushedAlone
  <2> SUFFICES ASSUME IInv, flushed
               PROVE  Cardinality(InUse) <= 1
    BY DEF FlushedAlone, InUse
  <2>1. \A q, r \in InUse : q = r
    BY DEF IInv, InvFlushed
  <2>2. CASE InUse = {}
    BY <2>2, FS_EmptySet
  <2>3. CASE InUse # {}
    <3>1. PICK q \in InUse : TRUE
      BY <2>3
    <3>2. InUse = {q}
      BY <2>1, <3>1
    <3> QED  BY <3>2, FS_Singleton
  <2> QED  BY <2>2, <2>3
<1> QED  BY <1>1, Invariance, PTL

-----------------------------------------------------------------------------
(* In times() with the own lock held *)
InTimes(p) == pc[p] \in {"tm_pool", "tm_scan"}

(* The order of the locks: how far from the end of a chain of lock owners a *)
(* process is, by its control point.                                        *)
Rank(p) ==
  IF pc[p] \in {"wt_lock", "ex_lock", "ex_lock2", "cl_parent", "cl_pool", "kl_pool", "ex_pool"}
    THEN 0
  ELSE IF pc[p] \in {"cl_scan", "kl_scan", "ex_count", "wt_scan", "ex_orphan", "cl_run",
                     "wt_sleep", "exit", "ex_own", "tm_own"}
    THEN 1
  ELSE IF pc[p] = "wk_scan" THEN 2 ELSE 3

(* Whoever p spins on has a higher rank than p: the owner of wait_lock or   *)
(* pool_lock is past the points where those are taken, and the owner of a   *)
(* p->lock waits for no other p->lock unless it is in wakeup() or times().  *)
LEMMA OwnersRankHigher ==
  ASSUME IInv, NEW p \in Procs, NEW o \in AwaitsTable(p) \cap Procs,
         ~InTimes(p), ~InTimes(o)
  PROVE  Rank(p) < Rank(o)
<1> USE NoneFact DEF IInv, TypeOK, InTimes
<1>1. CASE pc[p] \in {"wt_lock", "ex_lock", "ex_lock2", "cl_parent"}
  <2>1. o = waitLock
    BY <1>1 DEF AwaitsTable
  <2> QED  BY <1>1, <2>1 DEF InvLocks, InvState, WakesParent, Wakes, Rank
<1>2. CASE pc[p] \in {"cl_pool", "kl_pool", "ex_pool"}
  <2>1. o = poolLock
    BY <1>2 DEF AwaitsTable
  <2> QED  BY <1>2, <2>1 DEF InvLocks, Rank
<1>3. ASSUME NEW q \in Procs, plock[q] = o
      PROVE  pc[o] \in {"forked", "ex_switch", "wk_lock", "wk_scan", "cl_creating", "cl_copy"}
  BY <1>3 DEF InvLocks, Wakes
<1>4. CASE pc[p] \in {"cl_scan", "kl_scan", "ex_count", "wt_scan", "ex_orphan"}
  <2>1. ~AtEnd(p) /\ plock[idx[p]] = o
    BY <1>4 DEF AwaitsTable
  <2>2. idx[p] \in Procs
    BY <2>1, ProcTreeAssumption DEF AtEnd, Procs
  <2> QED  BY <1>3, <1>4, <2>1, <2>2 DEF Rank
<1>5. CASE pc[p] = "cl_run"
  <2>1. np[p] \in Procs /\ plock[np[p]] = o
    BY <1>5 DEF AwaitsTable, InvClone, Cloning
  <2> QED  BY <1>3, <1>5, <2>1 DEF Rank
<1>6. CASE pc[p] \in {"wt_sleep", "exit", "ex_own", "tm_own"}
  <2>1. plock[p] = o
    BY <1>6 DEF AwaitsTable
  <2> QED  BY <1>3, <1>6, <2>1 DEF Rank
<1>7. CASE pc[p] = "wk_scan"
  <2>1. idx[p] \in Procs /\ plock[idx[p]] = o
    BY SMTT(20), <1>7, ProcTreeAssumption DEF AwaitsTable, AtEnd, Procs
  <2>2. idx[p] # p /\ idx[p] # creating
    BY <1>7 DEF AwaitsTable
  <2>3. o # p
    BY <1>7, <2>1, <2>2 DEF InvLocks
  <2>4. pc[o] # "wk_scan"
    BY <1>7, <2>3 DEF InvLocks
  <2> QED  BY <1>3, <1>7, <2>1, <2>4 DEF Rank
<1>8. pc[p] \in {"wt_lock", "ex_lock", "ex_lock2", "cl_parent", "cl_pool", "kl_pool", "ex_pool",
                "cl_scan", "kl_scan", "ex_count", "wt_scan", "ex_orphan", "cl_run",
                "wt_sleep", "exit", "ex_own", "tm_own", "wk_scan"}
  BY DEF AwaitsTable
<1> QED  BY <1>1, <1>2, <1>4, <1>5, <1>6, <1>7, <1>8

(* wait_lock, pool_lock and the p->locks close no cycle without a process   *)
(* in times(), whatever the number of processes.                            *)
THEOREM LocksOrderedHolds == Spec => []LocksOrdered
<1>1. IInv => LocksOrdered
  <2> SUFFICES ASSUME IInv, NEW S \in SUBSET Procs, S # {}, \A p \in S : ~InTimes(p)
               PROVE  \E p \in S : AwaitsTable(p) \cap S = {}
    BY DEF LocksOrdered, InTimes
  <2>1. \A p \in S : Rank(p) \in 0 .. 3
    BY DEF Rank
  <2>2. PICK p \in S : \A o \in S : ~(Rank(p) < Rank(o))
    <3>1. CASE \E p \in S : Rank(p) = 3
      BY <2>1, <3>1
    <3>2. CASE (\E p \in S : Rank(p) = 2) /\ ~\E p \in S : Rank(p) = 3
      BY <2>1, <3>2
    <3>3. CASE (\E p \in S : Rank(p) = 1) /\ ~\E p \in S : Rank(p) \in {2, 3}
      BY <2>1, <3>3
    <3>4. CASE \A p \in S : Rank(p) = 0
      BY <3>4
    <3> QED  BY <2>1, <3>1, <3>2, <3>3, <3>4
  <2> QED  BY <2>2, OwnersRankHigher
<1> QED  BY <1>1, Invariance, PTL

-----------------------------------------------------------------------------
(* The only steps that end a zombie are the reaping in wait() and in the    *)
(* exit of the parent, both under wait_lock.                                *)
LEMMA ReapStep ==
  ASSUME IInv, NEW p \in Procs, Step(p) \/ Syscall(p),
         NEW q \in Procs, state[q] = "ZOMBIE", state'[q] # "ZOMBIE"
  PROVE  state'[q] = "UNUSED" /\ waitLock = parent[q]
<1> USE NoneFact DEF IInv, TypeOK
<1>1. CASE FirstRun(p)
  BY <1>1 DEF FirstRun, Set
<1>2. CASE WakeupScan(p)
  BY <1>2 DEF WakeupScan, Set
<1>3. CASE CloneCreating(p)
  BY <1>3 DEF CloneCreating, Set, InvClone, Cloning
<1>4. CASE CloneRunnable(p)
  BY <1>4 DEF CloneRunnable, Set, InvClone, Cloning
<1>5. CASE WaitReap(p)
  <2>1. q = idx[p] /\ state'[q] = "UNUSED"
    BY <1>5 DEF WaitReap, Free, Set
  <2> QED  BY <1>5, <2>1 DEF WaitReap, InvLocks
<1>6. CASE WaitSleep(p)
  BY <1>6 DEF WaitSleep, Set, InvState, Wakes
<1>7. CASE WaitWoken(p)
  BY <1>7 DEF WaitWoken, Set
<1>8. CASE KillFound(p)
  BY <1>8 DEF KillFound, Set
<1>9. CASE ExitReparent(p)
  <2>1. q = idx[p] /\ q # p /\ parent[q] = p
    BY <1>9 DEF ExitReparent, Free, Set, slotVars
  <2>2. state'[q] = "UNUSED"
    BY <1>9, <2>1 DEF ExitReparent, Free, Set
  <2> QED  BY <1>9, <2>1, <2>2 DEF ExitReparent, InvLocks
<1>10. CASE ExitZombie(p)
  BY <1>10 DEF ExitZombie, Set
<1>11. CASE ExitFree(p)
  BY <1>11 DEF ExitFree, Free, Set, InvState, Wakes
<1>12. state' = state \/ FirstRun(p) \/ WakeupScan(p) \/ CloneCreating(p) \/ CloneRunnable(p) \/
      WaitReap(p) \/ WaitSleep(p) \/ WaitWoken(p) \/ KillFound(p) \/
      ExitReparent(p) \/ ExitZombie(p) \/ ExitFree(p)
  BY DEF Step, Return, Free, slotVars, lockVars, locals,
         Forkret, Interrupt, WakeupLock, WakeupDone, ClonePool, CloneScan,
         CloneNoSlot, CloneNoPageTable, CloneCopied, CloneParent, WaitLock,
         WaitScan, WaitBadAddress, WaitGiveUp, WaitDecideSleep, KillPool,
         KillScan, KillNone, TimesOwn, TimesPool, TimesScan, TimesDone,
         ExitClose, ExitWaitLock, ExitReparented,
         ExitPool, ExitCount, ExitCounted, ExitWaitLock2, ExitSwitch, Syscall
<1> QED
  BY <1>1, <1>2, <1>3, <1>4, <1>5, <1>6, <1>7, <1>8, <1>9, <1>10, <1>11,
     <1>12

(* A zombie is freed by its own parent under wait_lock, and by nobody else. *)
THEOREM ReapedByParentHolds == Spec => ReapedByParent
<1>1. IInv /\ [Next]_vars =>
        [\A q \in Procs : state[q] = "ZOMBIE" /\ state'[q] # "ZOMBIE"
            => state'[q] = "UNUSED" /\ waitLock = parent[q]]_vars
  BY ReapStep DEF Next, Halted, vars, slotVars
<1> QED  BY <1>1, Invariance, PTL DEF Spec, ReapedByParent
=============================================================================
