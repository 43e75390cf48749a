---------------------------- MODULE GrantLedger ----------------------------
(***************************************************************************)
(* What a tree of grants promises, with no transaction, clock, key or      *)
(* counter in it: grants are issued below other grants, revoked, and drawn *)
(* on; a draw needs every grant above to be unrevoked and to have some of  *)
(* its budget left.  SEMANTICS.md, sections 3, 6 and 7.                     *)
(***************************************************************************)
EXTENDS GrantTree

VARIABLES tree,    \* grants issued: parent, budget and whether revoked
          drawn    \* the grant each delivery went through, in order

lvars == <<tree, drawn>>

Spent(g) == Cardinality({i \in DOMAIN drawn : g \in Ancestry(tree, drawn[i])})

Usable(g) ==
  \A h \in Ancestry(tree, g) :
    ~tree[h].revoked /\ (tree[h].max # None => Spent(h) < tree[h].max)

LInit == tree = <<>> /\ drawn = <<>>

(* A new grant hangs below a usable one, or below none, and may promise no
   more than is left where it hangs.                                       *)
Issue ==
  /\ Len(tree') = Len(tree) + 1
  /\ LET new == tree'[Len(tree')]
         p   == new.parent
     IN  /\ tree' = Append(tree, new)
         /\ ~new.revoked
         /\ p # None => /\ p \in DOMAIN tree
                        /\ Usable(p)
                        /\ tree[p].max # None => Within(new.max, tree[p].max - Spent(p))
  /\ UNCHANGED drawn

(* Any number of grants at once; a revocation is never undone. *)
Withdraw ==
  /\ DOMAIN tree' = DOMAIN tree
  /\ \A g \in DOMAIN tree :
        tree'[g] \in {tree[g], [tree[g] EXCEPT !.revoked = TRUE]}
  /\ UNCHANGED drawn

Draw(g) ==
  /\ drawn' = Append(drawn, g)
  /\ Usable(g)
  /\ UNCHANGED tree

LNext == Issue \/ Withdraw \/ \E g \in DOMAIN tree : Draw(g)

Spec == LInit /\ [][LNext]_lvars
=============================================================================
