----------------------------- MODULE Unsharing -----------------------------
(***************************************************************************)
(* shares.unshare and revoke, statement by statement, by owners of a file  *)
(* that has grants to one reader.  Sharing takes the transaction as one    *)
(* step; here it decides again before each grant, on what it reads before  *)
(* it has a lock, takes the organisation's chain, then the grant's row,    *)
(* and asks before it commits whether the reader can read still.  The      *)
(* control plane suspends without any lock.                                *)
(***************************************************************************)
EXTENDS Integers, FiniteSets, Sequences

CONSTANTS None,
          Callers,
          Revokers,        \* callers that revoke single grants
          Reader, Issuers,
          Suspendable,     \* of the reader, issuers and callers
          Lifetimes,       \* None or when a grant expires
          MaxGrants, MaxTime, MaxSwitches   \* bounds for the model checker

UnsharingConstants ==
  /\ Revokers \subseteq Callers /\ Reader \notin Issuers
  /\ None \notin Callers /\ None \notin Nat
  /\ Suspendable \subseteq Issuers \cup Callers \cup {Reader}
  /\ Lifetimes \subseteq Nat \cup {None}

VARIABLES grants,     \* file_grant, in the order of created_at
          able,       \* whose role is enough: the reader's to read, a caller's to share
          away,       \* who is suspended
          chain,      \* who holds the lock of the organisation's chain
          op,         \* the calls under way
          time, switches,
          said        \* history: the answer given, if that was the last event

unsharingVars == <<grants, able, away, chain, op, time, switches, said>>

Idle == [stmt |-> "idle"]

UnsharingInit ==
  /\ grants = <<>>
  /\ able \in {Callers, Callers \cup {Reader}}
  /\ away = {}
  /\ chain = None
  /\ op = [c \in Callers |-> Idle]
  /\ time = 0 /\ switches = 0
  /\ said = None

(* grant_is_live at the time t, for whom the grants in `withdrawn' are revoked. *)
Live(g, t, out, withdrawn) ==
  /\ g \notin withdrawn /\ ~grants[g].revoked
  /\ grants[g].expires = None \/ grants[g].expires > t
  /\ {Reader, grants[g].issuer} \cap out = {}

(* The decision: a suspended reader has no role and no live grant. *)
Readable(t, out, withdrawn) ==
  \/ Reader \in able \ out
  \/ \E g \in DOMAIN grants : Live(g, t, out, withdrawn)

(* share: its row is there once it commits, and it commits with the chain. *)
Share(i, e) ==
  /\ Len(grants) < MaxGrants
  /\ chain = None /\ i \notin away
  /\ grants' = Append(grants, [issuer |-> i, expires |-> IF e = None THEN None ELSE time + e,
                               revoked |-> FALSE, row |-> None])
  /\ said' = None
  /\ UNCHANGED <<able, away, chain, op, time, switches>>

(* addMember and removeMember: they end with the chain, too. *)
ChangeRole(p) ==
  /\ chain = None /\ switches < MaxSwitches
  /\ switches' = switches + 1
  /\ able' = IF p \in able THEN able \ {p} ELSE able \cup {p}
  /\ said' = None
  /\ UNCHANGED <<grants, away, chain, op, time>>

(* #setActorDeleted: one statement on its own. *)
Suspend(a) ==
  /\ switches < MaxSwitches /\ switches' = switches + 1
  /\ away' = IF a \in away THEN away \ {a} ELSE away \cup {a}
  /\ said' = None
  /\ UNCHANGED <<grants, able, chain, op, time>>

Tick ==
  /\ time < MaxTime
  /\ time' = time + 1
  /\ said' = None
  /\ UNCHANGED <<grants, able, away, chain, op, switches>>

(* A transaction.  held (history): its caller's role was still enough when it had
   the chain.                                                               *)
Started(name, todo) ==
  [stmt |-> "decide", name |-> name, at |-> time, todo |-> todo, done |-> {},
   before |-> DOMAIN grants, out |-> away, asked |-> {}, can |-> None, held |-> FALSE]

BeginRevoke(c, g) ==
  /\ op[c] = Idle
  /\ op' = [op EXCEPT ![c] = Started("revoke", <<g>>)]
  /\ said' = None
  /\ UNCHANGED <<grants, able, away, chain, time, switches>>

(* findActor does not know the suspended: they are not heard, and of one there is
   nothing to unshare.                                                      *)
FindActor(c) ==
  /\ op[c] = Idle /\ c \notin away
  /\ IF Reader \in away
     THEN /\ said' = [name |-> "unshare", before |-> DOMAIN grants, out |-> away]
          /\ op' = op
     ELSE /\ op' = [op EXCEPT ![c] = [stmt |-> "ask", before |-> DOMAIN grants]]
          /\ said' = None
  /\ UNCHANGED <<grants, able, away, chain, time, switches>>

(* A suspended caller has no role (getMembership). *)
Entitled(c) == c \in able \ away

(* listGrants: the decision, with an event on the chain that commits by itself. *)
MayList(c) ==
  /\ op[c].stmt = "ask" /\ chain = None
  /\ op' = [op EXCEPT ![c] = IF Entitled(c) THEN [@ EXCEPT !.stmt = "list"] ELSE Idle]
  /\ said' = None
  /\ UNCHANGED <<grants, able, away, chain, time, switches>>

(* Mutant: the one the last share was answered with. *)
InOrder_Last(S) == <<CHOOSE g \in S : \A h \in S : h <= g>>

(* Oldest first. *)
InOrder(S) == CHOOSE s \in [1..Cardinality(S) -> S] :
                /\ \A g \in S : \E i \in DOMAIN s : s[i] = g
                /\ \A i, j \in DOMAIN s : i < j => s[i] < s[j]

(* revokeFor: those that are live are read, without a lock. *)
ListGrants(c) ==
  LET matches == {g \in DOMAIN grants : Live(g, time, away, {})}
  IN  /\ op[c].stmt = "list"
      /\ IF matches = {}
         THEN /\ said' = [name |-> "unshare", before |-> op[c].before, out |-> away]
              /\ op' = [op EXCEPT ![c] = Idle]
         ELSE /\ op' = [op EXCEPT ![c] =
                          [Started("unshare", InOrder(matches)) EXCEPT !.before = op[c].before]]
              /\ said' = None
      /\ UNCHANGED <<grants, able, away, chain, time, switches>>

(* #revokeOne, grant by grant.  authorizeRevoke reads the caller's standing, of
   which it writes an event on the chain: only then does it wait for the lock. *)
Decide(c) ==
  /\ op[c].stmt = "decide"
  /\ op' = [op EXCEPT ![c].stmt = IF Entitled(c) THEN "allow" ELSE "deny", ![c].asked = away]
  /\ said' = None
  /\ UNCHANGED <<grants, able, away, chain, time, switches>>

(* Mutant: the event goes to the engine's store, not the transaction's. *)
Allow_Autocommit(c) ==
  /\ op[c].stmt = "allow"
  /\ chain \in {None, c}
  /\ op' = [op EXCEPT ![c].stmt = "update", ![c].held = c \in able]
  /\ said' = None
  /\ UNCHANGED <<grants, able, away, chain, time, switches>>

Allow(c) ==
  /\ op[c].stmt = "allow"
  /\ chain \in {None, c}
  /\ chain' = c
  /\ op' = [op EXCEPT ![c].stmt = "update", ![c].held = c \in able]
  /\ said' = None
  /\ UNCHANGED <<grants, able, away, time, switches>>

(* The row, with the event grant.revoke on the chain the transaction has by now;
   one that is revoked already is left as it is.                            *)
UpdateRow(c) ==
  LET g == Head(op[c].todo)
  IN  /\ op[c].stmt = "update"
      /\ grants[g].row = None /\ chain \in {None, c}
      /\ grants' = IF grants[g].revoked THEN grants ELSE [grants EXCEPT ![g].row = c]
      /\ chain' = c
      /\ op' = [op EXCEPT ![c].stmt = "probe", ![c].todo = Tail(@), ![c].done = @ \cup {g}]
      /\ said' = None
      /\ UNCHANGED <<able, away, time, switches>>

(* Mutant: on another connection, which does not see the UPDATE yet. *)
Probe_Elsewhere(c) ==
  /\ op[c].stmt = "probe"
  /\ op' = [op EXCEPT ![c].stmt = IF op[c].todo = <<>> THEN "commit" ELSE "decide",
                      ![c].asked = away, ![c].can = Readable(op[c].at, away, {})]
  /\ said' = None
  /\ UNCHANGED <<grants, able, away, chain, time, switches>>

(* subjectCanStillRead, inside the transaction: now() is its beginning. *)
Probe(c) ==
  /\ op[c].stmt = "probe"
  /\ op' = [op EXCEPT ![c].stmt = IF op[c].todo = <<>> THEN "commit" ELSE "decide",
                      ![c].asked = away,
                      ![c].can = Readable(op[c].at, away, op[c].done)]
  /\ said' = None
  /\ UNCHANGED <<grants, able, away, chain, time, switches>>

Released(c) ==
  /\ chain' = IF chain = c THEN None ELSE chain
  /\ op' = [op EXCEPT ![c] = Idle]

(* The rows it has become revoked. *)
Committed(c) ==
  /\ grants' = [g \in DOMAIN grants |->
                  IF grants[g].row = c THEN [grants[g] EXCEPT !.revoked = TRUE, !.row = None]
                  ELSE grants[g]]
  /\ Released(c)

Commit(c) ==
  LET o == op[c]
  IN  /\ o.stmt = "commit"
      /\ Committed(c)
      /\ said' = IF o.name = "unshare" THEN [name |-> "unshare", before |-> o.before, out |-> o.out]
                 ELSE [name |-> "revoke", can |-> o.can, at |-> o.at, asked |-> o.asked]
      /\ UNCHANGED <<able, away, time, switches>>

(* A refusal, with its event on the chain, is thrown and commits all the same. *)
Refuse(c) ==
  /\ op[c].stmt = "deny" /\ chain \in {None, c}
  /\ Committed(c)
  /\ said' = [name |-> "refused", by |-> c, done |-> op[c].done,
               asked |-> op[c].asked, held |-> op[c].held]
  /\ UNCHANGED <<able, away, time, switches>>

UnsharingNext ==
  \/ \E i \in Issuers, e \in Lifetimes : Share(i, e)
  \/ \E p \in Callers \cup {Reader} : ChangeRole(p)
  \/ \E a \in Suspendable : Suspend(a)
  \/ Tick
  \/ \E c \in Callers :
       \/ c \in Revokers /\ \E g \in DOMAIN grants : BeginRevoke(c, g)
       \/ FindActor(c) \/ MayList(c) \/ ListGrants(c)
       \/ Decide(c) \/ Allow(c) \/ Refuse(c) \/ UpdateRow(c) \/ Probe(c) \/ Commit(c)

-----------------------------------------------------------------------------
(* Once unshare has answered, no grant that the reader had when it was called
   is left, but for one that was out of its sight: it had expired, or the
   reader or its issuer was suspended when it looked -- restored, the reader
   reads through it again (simple.ts, unshare; filelayer.ts, revokeFor).    *)
UnshareLasts ==
  said # None /\ said.name = "unshare" =>
    \A g \in said.before :
      \/ grants[g].revoked
      \/ grants[g].expires # None /\ grants[g].expires <= time
      \/ said.out \cap {Reader, grants[g].issuer} # {}

(* What revoke says of the reader is so when it commits: no share, revocation or
   change of role came in between.  Only a suspension takes no lock, and an
   expiry during the transaction is not seen (filelayer.ts, #revokeOne: the
   answer "cannot be raced by a concurrent one").                           *)
AnswerIsTrue ==
  said # None /\ said.name = "revoke" => said.can = Readable(said.at, said.asked, {})

(* An unshare that is refused half way, what it had revoked by then committed, had
   its caller suspended meanwhile; or the caller had lost its role before the
   transaction had the chain, when the first decision was taken already.  From
   then on no role changes under it (filelayer.ts, revokeFor, "ALL-OR-NOTHING";
   #revokeOne, #transaction).                                               *)
HalfWayWithoutStanding ==
  said # None /\ said.name = "refused" /\ said.done # {} => said.by \in said.asked \/ ~said.held

(* No revocation waits for a row: who has one has the chain, for which it waited
   first (filelayer.ts, revoke, "THE AUDIT CHAIN LOCK IS ALWAYS TAKEN BEFORE ANY
   ROW LOCK").                                                              *)
RowsBehindTheChain ==
  \A c \in Callers :
    op[c].stmt = "update" => grants[Head(op[c].todo)].row \in {None, c}
=============================================================================
