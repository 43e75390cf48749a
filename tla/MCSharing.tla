----------------------------- MODULE MCSharing -----------------------------
(* Small instances of Sharing: who is there, what they ask for. *)
EXTENDS Listing, TLC

CONSTANTS olive, bob, carol, home, guests

To(a)         == [type |-> "actor", actor |-> a, org |-> None, min |-> None]
AnyLink       == [type |-> "link", actor |-> None, org |-> None, min |-> None]
Everyone      == [type |-> "anonymous", actor |-> None, org |-> None, min |-> None]
InOrg(o)      == [type |-> "org", actor |-> None, org |-> o, min |-> None]
InRole(o, r)  == [type |-> "role", actor |-> None, org |-> o, min |-> r]

Input(subject, caps, ttl, max, key) ==
  [subject |-> subject, caps |-> caps, ttl |-> ttl, max |-> max, key |-> key]

Roles(f) == [o \in Orgs |-> [a \in Actors |->
               IF <<o, a>> \in DOMAIN f THEN f[<<o, a>>] ELSE None]]

Symmetry == Permutations(Sessions)

(* Delegation: olive owns the file, bob and carol may hand on. *)
OwnerOnly == Roles(<<home, olive>> :> "member")
Delegation == {Input(To(bob), {"read", "share"}, None, 1, None),
               Input(To(carol), {"read", "share"}, 1, None, None),
               Input(AnyLink, {"read"}, None, 1, None)}

(* Groups: bob is in the guests' organisation, which may hand on. *)
BobIsGuest == Roles(<<home, olive>> :> "member" @@ <<guests, bob>> :> "member")
GuestChanges == {<<guests, bob, "viewer">>}
Groups == {Input(InRole(guests, "member"), {"read", "share"}, 1, None, None),
           Input(To(carol), {"read"}, None, 1, None),
           Input(To(carol), {"read"}, 1, None, None),
           Input(Everyone, {"read"}, None, None, None)}
CarolsGrants == {To(carol)}

(* Double submission: one share, again and again, with and without a key. *)
Clicks == {Input(To(bob), {"read"}, 3, None, None),
           Input(To(bob), {"read"}, 3, None, "k"),
           Input(To(carol), {"read"}, 3, None, "k")}
=============================================================================
