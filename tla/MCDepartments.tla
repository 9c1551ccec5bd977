---------------------------- MODULE MCDepartments ----------------------------
(* Instances of Departments for TLC. *)
EXTENDS Departments, TLC

All == Permutations(Dept) \cup Permutations(Admin)

\* A bound: behaviours end with the first commit over a path that had changed.
UntilPathStale == "path" \notin stale
===============================================================================
