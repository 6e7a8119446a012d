--------------------------- MODULE SleepLockProof ---------------------------
(* Proofs about SleepLock, for any number of processes. *)
EXTENDS SleepLock, TLAPS

(* The guard is held exactly where the code is between acquire and release. *)
InvGuard == \A p \in Procs : guard = p <=> pc[p] \in {"test", "scan"}

(* A process that is not running is asleep in sleep(), on this mutex; only  *)
(* there, and on the way in, is its state of interest to others.            *)
InvSleep ==
  \A p \in Procs :
    /\ plock[p] \in {None, p}
    /\ plock[p] = p <=> pc[p] = "off"
    /\ onMu[p] <=> pc[p] = "asleep"
    /\ state[p] # "RUNNING" <=> pc[p] = "asleep"

(* NoLostWakeup, extended to the processes that have released the guard in  *)
(* sleep() but are not marked SLEEPING yet: they hold their own lock, so    *)
(* the scan cannot pass them.                                               *)
InvWakeup ==
  \A p \in Procs :
    ~locked /\ (pc[p] = "off" \/ state[p] = "SLEEPING")
      => \E r \in Procs : pc[r] = "scan" /\ idx[r] <= p

IInv == TypeOK /\ InvGuard /\ InvSleep /\ HolderExact /\ InvWakeup

(* At boot the mutex is free and nobody is near it. *)
LEMMA InitInv == Init => IInv
<1> SUFFICES ASSUME Init PROVE IInv
  OBVIOUS
<1> USE SleepLockAssumption DEF Init, Procs, None, States, Points, Acquiring
<1>1. TypeOK
  <2>1. 1 \in 1 .. N + 1
    OBVIOUS
  <2>2. idx \in [Procs -> 1 .. N + 1]
    BY <2>1
  <2>3. onMu \in [Procs -> BOOLEAN]
    OBVIOUS
  <2> QED  BY <2>2, <2>3 DEF TypeOK
<1>2. InvGuard /\ HolderExact /\ InvWakeup
  BY DEF InvGuard, HolderExact, InvWakeup
<1>3. InvSleep
  BY DEF InvSleep
<1> QED  BY <1>1, <1>2, <1>3 DEF IInv

(* Every step keeps the invariant; in Wake the extension of NoLostWakeup    *)
(* moves from one slot to the next.                                         *)
LEMMA NextInv == IInv /\ [Next]_vars => IInv'
<1> SUFFICES ASSUME IInv, [Next]_vars PROVE IInv'
  OBVIOUS
<1> USE SleepLockAssumption DEF IInv, Procs, None, States, Points, Acquiring, Goto
<1>1. ASSUME NEW p \in Procs, Want(p) PROVE IInv'
  <2>1. TypeOK'
    BY <1>1 DEF Want, TypeOK
  <2>2. InvGuard' /\ HolderExact'
    BY <1>1 DEF Want, TypeOK, InvGuard, HolderExact
  <2>3. InvSleep'
    BY <1>1 DEF Want, TypeOK, InvGuard, InvSleep
  <2>4. InvWakeup'
    BY <1>1 DEF Want, TypeOK, InvGuard, InvSleep, HolderExact, InvWakeup
  <2> QED  BY <2>1, <2>2, <2>3, <2>4
<1>2. ASSUME NEW p \in Procs, Guard(p) PROVE IInv'
  <2>1. TypeOK'
    BY <1>2 DEF Guard, TypeOK
  <2>2. InvGuard' /\ HolderExact'
    BY <1>2 DEF Guard, TypeOK, InvGuard, HolderExact
  <2>3. InvSleep'
    BY <1>2 DEF Guard, TypeOK, InvGuard, InvSleep
  <2>4. InvWakeup'
    BY <1>2 DEF Guard, TypeOK, InvGuard, InvSleep, HolderExact, InvWakeup
  <2> QED  BY <2>1, <2>2, <2>3, <2>4
<1>3. ASSUME NEW p \in Procs, Take(p) PROVE IInv'
  <2>1. TypeOK'
    BY <1>3 DEF Take, TypeOK
  <2>2. InvGuard' /\ HolderExact'
    BY <1>3 DEF Take, TypeOK, InvGuard, HolderExact
  <2>3. InvSleep'
    BY <1>3 DEF Take, TypeOK, InvGuard, InvSleep
  <2>4. InvWakeup'
    BY <1>3 DEF Take, TypeOK, InvGuard, InvSleep, HolderExact, InvWakeup
  <2> QED  BY <2>1, <2>2, <2>3, <2>4
<1>4. ASSUME NEW p \in Procs, SleepLock(p) PROVE IInv'
  <2>1. TypeOK'
    BY <1>4 DEF SleepLock, TypeOK
  <2>2. InvGuard' /\ HolderExact'
    BY <1>4 DEF SleepLock, TypeOK, InvGuard, HolderExact
  <2>3. InvSleep'
    BY <1>4 DEF SleepLock, TypeOK, InvGuard, InvSleep
  <2>4. InvWakeup'
    BY <1>4 DEF SleepLock, TypeOK, InvGuard, InvSleep, HolderExact, InvWakeup
  <2> QED  BY <2>1, <2>2, <2>3, <2>4
<1>5. ASSUME NEW p \in Procs, SleepSwitch(p) PROVE IInv'
  <2>1. TypeOK'
    BY <1>5 DEF SleepSwitch, TypeOK
  <2>2. InvGuard' /\ HolderExact'
    BY <1>5 DEF SleepSwitch, TypeOK, InvGuard, HolderExact
  <2>3. InvSleep'
    BY <1>5 DEF SleepSwitch, TypeOK, InvGuard, InvSleep
  <2>4. InvWakeup'
    BY <1>5 DEF SleepSwitch, TypeOK, InvGuard, InvSleep, HolderExact, InvWakeup
  <2> QED  BY <2>1, <2>2, <2>3, <2>4
<1>6. ASSUME NEW p \in Procs, Woken(p) PROVE IInv'
  <2>1. TypeOK'
    BY <1>6 DEF Woken, TypeOK
  <2>2. InvGuard' /\ HolderExact'
    BY <1>6 DEF Woken, TypeOK, InvGuard, HolderExact
  <2>3. InvSleep'
    BY <1>6 DEF Woken, TypeOK, InvGuard, InvSleep
  <2>4. InvWakeup'
    BY <1>6 DEF Woken, TypeOK, InvGuard, InvSleep, HolderExact, InvWakeup
  <2> QED  BY <2>1, <2>2, <2>3, <2>4
<1>7. ASSUME NEW p \in Procs, Unlock(p) PROVE IInv'
  <2>1. TypeOK'
    <3>1. idx' \in [Procs -> 1 .. N + 1]
      BY <1>7 DEF Unlock, TypeOK
    <3> QED  BY <1>7, <3>1 DEF Unlock, TypeOK
  <2>2. InvGuard' /\ HolderExact'
    BY <1>7 DEF Unlock, TypeOK, InvGuard, HolderExact
  <2>3. InvSleep'
    BY <1>7 DEF Unlock, TypeOK, InvGuard, InvSleep
  <2>4. InvWakeup'
    BY <1>7 DEF Unlock, TypeOK, InvGuard, InvSleep, HolderExact, InvWakeup
  <2> QED  BY <2>1, <2>2, <2>3, <2>4
<1>8. ASSUME NEW p \in Procs, Wake(p) PROVE IInv'
  <2>1. TypeOK'
    BY <1>8 DEF Wake, TypeOK
  <2>2. InvGuard' /\ HolderExact'
    BY <1>8 DEF Wake, TypeOK, InvGuard, HolderExact
  <2>3. InvSleep'
    BY <1>8 DEF Wake, TypeOK, InvGuard, InvSleep
  <2>4. InvWakeup'
    BY <1>8 DEF Wake, TypeOK, InvGuard, InvSleep, HolderExact, InvWakeup
  <2> QED  BY <2>1, <2>2, <2>3, <2>4
<1>9. ASSUME NEW p \in Procs, Unlocked(p) PROVE IInv'
  <2>1. TypeOK'
    BY <1>9 DEF Unlocked, TypeOK
  <2>2. InvGuard' /\ HolderExact'
    BY <1>9 DEF Unlocked, TypeOK, InvGuard, HolderExact
  <2>3. InvSleep'
    BY <1>9 DEF Unlocked, TypeOK, InvGuard, InvSleep
  <2>4. InvWakeup'
    BY <1>9 DEF Unlocked, TypeOK, InvGuard, InvSleep, HolderExact, InvWakeup
  <2> QED  BY <2>1, <2>2, <2>3, <2>4
<1>10. ASSUME NEW p \in Procs, Kill(p) PROVE IInv'
  <2>1. TypeOK'
    BY <1>10 DEF Kill, TypeOK
  <2>2. InvGuard' /\ HolderExact'
    BY <1>10 DEF Kill, TypeOK, InvGuard, HolderExact
  <2>3. InvSleep'
    BY <1>10 DEF Kill, TypeOK, InvGuard, InvSleep
  <2>4. InvWakeup'
    BY <1>10 DEF Kill, TypeOK, InvGuard, InvSleep, HolderExact, InvWakeup
  <2> QED  BY <2>1, <2>2, <2>3, <2>4
<1>11. CASE UNCHANGED vars
  <2>1. TypeOK' /\ InvGuard'
    BY <1>11 DEF vars, TypeOK, InvGuard
  <2>2. InvSleep' /\ HolderExact' /\ InvWakeup'
    BY <1>11 DEF vars, InvSleep, HolderExact, InvWakeup
  <2> QED  BY <2>1, <2>2
<1> QED
  BY <1>1, <1>2, <1>3, <1>4, <1>5, <1>6, <1>7, <1>8, <1>9, <1>10, <1>11 DEF Next, Step

(* The inductive invariant: who holds the guard and the process locks at    *)
(* each control point, and which processes may be asleep.                   *)
THEOREM Invariance == Spec => []IInv
  BY InitInv, NextInv, PTL DEF Spec

(* Type correctness of the sleeping mutex. *)
THEOREM TypeCorrect == Spec => []TypeOK
<1>1. IInv => TypeOK  BY DEF IInv
<1> QED  BY <1>1, Invariance, PTL

(* Only the process named by mu->pid is between acquire and release. *)
THEOREM HolderIsExact == Spec => []HolderExact
<1>1. IInv => HolderExact  BY DEF IInv
<1> QED  BY <1>1, Invariance, PTL

(* No process sleeps on a free mutex behind the back of the wakeup scan. *)
THEOREM NoWakeupIsLost == Spec => []NoLostWakeup
<1>1. IInv => NoLostWakeup  BY DEF IInv, InvWakeup, NoLostWakeup
<1> QED  BY <1>1, Invariance, PTL

(* mutex.c implements the abstract mutex: Want, Take and Unlock are its     *)
(* Request, Grant and Release, every other step is invisible.               *)
THEOREM Refinement == Spec => ImplementsMutex
<1> DEFINE W == {p \in Procs : pc[p] \in Acquiring}
           O == IF locked THEN holder ELSE None
<1> USE SleepLockAssumption DEF Procs, None, Acquiring, Goto
<1>1. Init => M!MInit
  BY DEF Init, M!MInit
<1>2. IInv /\ [Next]_vars => [M!MNext]_(M!mvars)
  <2> SUFFICES ASSUME IInv, [Next]_vars
               PROVE  M!MNext \/ (W' = W /\ O' = O)
    BY DEF M!mvars
  <2> USE DEF IInv, TypeOK, HolderExact, Points
  <2>1. ASSUME NEW p \in Procs, Want(p) PROVE M!MNext
    <3>1. p \notin W /\ O # p /\ O' = O /\ W' = W \cup {p}
      BY <2>1 DEF Want
    <3> QED  BY <3>1 DEF M!MNext, M!Request
  <2>2. ASSUME NEW p \in Procs, Take(p) PROVE M!MNext
    <3>1. p \in W /\ O = None /\ O' = p /\ W' = W \ {p}
      BY <2>2 DEF Take
    <3> QED  BY <3>1 DEF M!MNext, M!Grant
  <2>3. ASSUME NEW p \in Procs, Unlock(p) PROVE M!MNext
    <3>1. O = p /\ O' = None /\ W' = W
      BY <2>3 DEF Unlock
    <3> QED  BY <3>1 DEF M!MNext, M!Release
  <2>4. ASSUME NEW p \in Procs,
               \/ Guard(p) \/ SleepLock(p) \/ SleepSwitch(p) \/ Woken(p)
               \/ Wake(p) \/ Unlocked(p) \/ Kill(p)
        PROVE  W' = W /\ O' = O
    BY <2>4 DEF Guard, SleepLock, SleepSwitch, Woken, Wake, Unlocked, Kill
  <2>5. CASE UNCHANGED vars
    BY <2>5 DEF vars
  <2> QED  BY <2>1, <2>2, <2>3, <2>4, <2>5 DEF Next, Step
<1> QED  BY <1>1, <1>2, Invariance, PTL DEF Spec, ImplementsMutex, M!MSpec

=============================================================================
