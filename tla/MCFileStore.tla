---------------------------- MODULE MCFileStore ----------------------------
(* Small instances of FileStore. *)
EXTENDS FileStore, TLC

Plain == {[expires |-> None, retain |-> None]}
Held  == {[expires |-> None, retain |-> 2]}

Both  == Plain \cup Held

Symmetry == Permutations(Sessions)
=============================================================================
