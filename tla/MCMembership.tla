--------------------------- MODULE MCMembership ---------------------------
(* Small instances of Membership: an owner, an admin, a newcomer. *)
EXTENDS Membership, TLC

CONSTANTS olga, adam, nina, home

Paper == (home :> (olga :> "owner" @@ adam :> "admin" @@ nina :> None))
Newcomers == {<<home, nina>>}

Symmetry == Permutations(Sessions)
=============================================================================
