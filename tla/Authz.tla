------------------------------- MODULE Authz -------------------------------
(***************************************************************************)
(* The pure part of packages/core/src/authz.ts: what a role confers on a   *)
(* file and on an organisation, how roles are ordered, and what a file's   *)
(* lifecycle still permits.  Every module about permission EXTENDS this    *)
(* one, as every query in the code is built from these functions.          *)
(***************************************************************************)
EXTENDS Integers

CONSTANT None     \* SQL NULL: no expiry, no cap, no parent, no membership

ASSUME NoneIsNoNumber == None \notin Int
ASSUME NoneIsNoReason ==
  None \notin {"file_deleted", "file_expired", "file_not_ready", "retention_hold"}

Capability == {"read", "write", "delete", "share"}
OrgRole    == {"viewer", "member", "admin", "owner"}
Visibility == {"private", "org"}
FileState  == {"pending", "ready", "deleted"}

RoleRank(role) == CASE role = "viewer" -> 0
                    [] role = "member" -> 1
                    [] role = "admin"  -> 2
                    [] role = "owner"  -> 3

RoleMeets(actual, min) == RoleRank(actual) >= RoleRank(min)

(* What a member of the file's organisation may do by role alone.  No role
   (not a member, or a suspended one) confers nothing.                     *)
FileCapabilities(role, isOwner, visibility) ==
  LET readable == IF isOwner \/ visibility = "org" THEN {"read"} ELSE {}
  IN  CASE role = "viewer"             -> readable
        [] role = "member"             -> IF isOwner THEN Capability ELSE readable
        [] role \in {"admin", "owner"} -> Capability
        [] OTHER                       -> {}

(* The lifecycle gate, asked only after standing is established.  `file' is
   a record with fields state, expires and retain.                         *)
LifecycleDenial(file, capability, now) ==
  CASE file.state = "deleted" -> "file_deleted"
    [] /\ file.state # "deleted"
       /\ capability # "delete"
       /\ file.expires # None /\ file.expires <= now -> "file_expired"
    [] /\ file.state = "pending"
       /\ capability = "read"
       /\ file.expires = None \/ file.expires > now -> "file_not_ready"
    [] /\ file.state # "deleted"
       /\ capability = "delete"
       /\ file.retain # None /\ file.retain > now -> "retention_hold"
    [] OTHER -> None
=============================================================================
