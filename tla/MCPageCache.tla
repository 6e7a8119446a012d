----------------------------- MODULE MCPageCache -----------------------------
(* Instances of PageCache for TLC. *)
EXTENDS PageCache, TLC

(* The processes are interchangeable. *)
Symmetry == Permutations(Procs)

(* After an eviction without ctable.lock nothing is claimed or explored. *)
Unhurried == ~hasty
=============================================================================
