------------------------------ MODULE MCSched ------------------------------
(* Instances of Sched for TLC. *)
EXTENDS Sched, TLC

(* The CPUs are interchangeable, and so are the slots other than the shell. *)
Symmetry == Permutations(Cpus) \cup Permutations(Procs \ {Shell})

(* After a raced scan nothing is claimed and nothing is explored. *)
Unraced == ~raced

=============================================================================
