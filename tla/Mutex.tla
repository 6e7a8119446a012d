------------------------------- MODULE Mutex -------------------------------
(***************************************************************************)
(* What a sleeping mutex promises: at most one owner, taken only by a      *)
(* process that asked for it and only while nobody owns it, and given back *)
(* by its owner.  Which of the waiting processes gets it is not determined.*)
(***************************************************************************)
CONSTANTS Procs, NoProc

VARIABLES
  owner,     (* the process between acquire_mutex_sleep() and               *)
             (* release_mutex_sleep(), or NoProc                            *)
  waiting    (* the processes inside acquire_mutex_sleep()                  *)

mvars == <<owner, waiting>>

MInit == owner = NoProc /\ waiting = {}

Request(p) ==
  /\ p \notin waiting /\ owner # p
  /\ waiting' = waiting \cup {p}
  /\ UNCHANGED owner

Grant(p) ==
  /\ owner = NoProc /\ p \in waiting
  /\ owner' = p
  /\ waiting' = waiting \ {p}

Release(p) ==
  /\ owner = p
  /\ owner' = NoProc
  /\ UNCHANGED waiting

MNext == \E p \in Procs : Request(p) \/ Grant(p) \/ Release(p)

MSpec == MInit /\ [][MNext]_mvars

=============================================================================
