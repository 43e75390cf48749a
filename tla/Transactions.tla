---------------------------- MODULE Transactions ----------------------------
(***************************************************************************)
(* withTransaction and the engine's #transaction: a unit of work commits   *)
(* when it returns and when it ends in a decision (a FilelayerError, which *)
(* #transaction wraps in CommitThenThrow), and rolls back otherwise.  How  *)
(* depends on what the connection offers: a hook of the host's, PGlite's   *)
(* own transaction, a pool's client, a client; inside a transaction it is  *)
(* a savepoint.  A statement that fails aborts the transaction until it is *)
(* rolled back to a savepoint.  The connection may be lost at any moment.  *)
(***************************************************************************)
EXTENDS Integers, Sequences, FiniteSets

CONSTANTS None, MaxDepth, MaxWrites   \* bounds for the model checker

Connections == {"hook", "pglite", "pool", "client"}
Errors == {"decided", "wrapped", "other"}

TransactionsConstants ==
  /\ {MaxDepth, MaxWrites} \subseteq Nat \ {0}
  /\ None \notin Errors \cup {"returned", "lost"}

VARIABLES scopes,     \* the open scopes, outermost first
          pending,    \* the writes of the open transaction
          aborted,    \* a statement failed since the last rollback
          flying,     \* the error on its way out
          kept,       \* what the database keeps
          seen,       \* what the caller of the outermost scope saw
          writes,     \* how many rows were written, numbered as they come
          undone,     \* history: the writes a savepoint took back
          denial      \* history: the row of the decision, and how deep it was made

txVars == <<scopes, pending, aborted, flying, kept, seen, writes, undone, denial>>

TransactionsInit ==
  /\ scopes = <<>> /\ pending = {} /\ aborted = FALSE
  /\ flying = None /\ kept = {} /\ seen = None /\ writes = 0
  /\ undone = {} /\ denial = None

Depth == Len(scopes)
Inner == scopes[Depth]
Working == Depth > 0 /\ flying = None

(* `saved' is what there is to go back to, `wraps' whether #transaction is
   around the work.                                                        *)
Scope(kind, wraps) == [kind |-> kind, wraps |-> wraps, saved |-> pending]

Begin(kind) ==
  /\ Depth = 0 /\ seen = None
  /\ scopes' = <<Scope(kind, TRUE)>>
  /\ UNCHANGED <<pending, aborted, flying, kept, seen, writes, undone, denial>>

(* #transaction inside a transaction, or tx.savepoint around one statement. *)
Nest(wraps) ==
  /\ Working /\ ~aborted /\ Depth < MaxDepth
  /\ scopes' = Append(scopes, Scope("savepoint", wraps))
  /\ UNCHANGED <<pending, aborted, flying, kept, seen, writes, undone, denial>>

Write ==
  /\ Working /\ ~aborted /\ writes < MaxWrites
  /\ writes' = writes + 1
  /\ pending' = pending \cup {writes + 1}
  /\ UNCHANGED <<scopes, aborted, flying, kept, seen, undone, denial>>

(* A constraint or a trigger raises. *)
StatementFails ==
  /\ Working /\ ~aborted
  /\ aborted' = TRUE /\ flying' = "other"
  /\ UNCHANGED <<scopes, pending, kept, seen, writes, undone, denial>>

(* A denial: its audit row, then the FilelayerError. *)
Decide ==
  /\ Working /\ ~aborted /\ writes < MaxWrites
  /\ writes' = writes + 1 /\ pending' = pending \cup {writes + 1}
  /\ denial' = [row |-> writes + 1, depth |-> Depth, via |-> scopes[1].kind]
  /\ flying' = "decided"
  /\ UNCHANGED <<scopes, aborted, kept, seen, undone>>

(* The work catches what came out of a savepoint -- share does, to audit the
   refusal -- and goes on.                                                 *)
Catch ==
  /\ Depth > 0 /\ flying = "other" /\ ~aborted
  /\ flying' = None
  /\ UNCHANGED <<scopes, pending, aborted, kept, seen, writes, undone, denial>>

Leaving == IF Inner.wraps /\ flying = "decided" THEN "wrapped" ELSE flying
Outer == SubSeq(scopes, 1, Depth - 1)

TakenBack == undone \cup (pending \ Inner.saved)

(* Mutant: only the lock of the savepoint is released. *)
ThrowFromSavepoint_Release ==
  /\ Depth > 1 /\ flying # None
  /\ scopes' = Outer /\ flying' = Leaving
  /\ undone' = TakenBack /\ aborted' = FALSE
  /\ UNCHANGED <<pending, kept, seen, writes, denial>>

(* Whatever is thrown, a savepoint goes back to where it was. *)
ThrowFromSavepoint ==
  /\ Depth > 1 /\ flying # None
  /\ scopes' = Outer /\ flying' = Leaving
  /\ pending' = Inner.saved /\ undone' = TakenBack /\ aborted' = FALSE
  /\ UNCHANGED <<kept, seen, writes, denial>>

ReturnFromSavepoint ==
  /\ Depth > 1 /\ flying = None /\ ~aborted
  /\ scopes' = Outer
  /\ UNCHANGED <<pending, aborted, flying, kept, seen, writes, undone, denial>>

Ends(outcome, committed) ==
  /\ scopes' = <<>> /\ pending' = {} /\ aborted' = FALSE /\ flying' = None
  /\ seen' = outcome
  /\ kept' = IF committed THEN kept \cup pending ELSE kept
  /\ UNCHANGED <<writes, undone, denial>>

ReturnFromOutermost ==
  /\ Depth = 1 /\ flying = None /\ ~aborted
  /\ Ends("returned", TRUE)

(* Mutant: what is thrown is rolled back. *)
Commits_Never(scope, error) == FALSE

(* COMMIT, then throw what was inside; PGlite is handed a return value
   instead.  A hook is handed the throw, and does as hooks do.             *)
Commits(scope, error) == error = "wrapped" /\ scope.kind # "hook"

ThrowFromOutermost ==
  /\ Depth = 1 /\ flying # None
  /\ Ends(IF Commits(Inner, Leaving) THEN "decided" ELSE Leaving, Commits(Inner, Leaving))

ConnectionLost ==
  /\ Depth > 0
  /\ Ends("lost", FALSE)

TransactionsNext ==
  \/ \E kind \in Connections : Begin(kind)
  \/ \E wraps \in BOOLEAN : Nest(wraps)
  \/ Write \/ StatementFails \/ Decide \/ Catch
  \/ ThrowFromSavepoint \/ ReturnFromSavepoint
  \/ ReturnFromOutermost \/ ThrowFromOutermost \/ ConnectionLost

TransactionsSpec == TransactionsInit /\ [][TransactionsNext]_txVars

-----------------------------------------------------------------------------
(* A unit of work is kept whole or not at all, but for what a savepoint took
   back: whole when it returned or ended in a decision, not at all when
   anything else was thrown or the connection was lost, whatever had been
   written and caught before.                                              *)
AllOrNothing ==
  seen # None =>
    kept = IF seen \in {"returned", "decided"} THEN (1..writes) \ undone ELSE {}

(* The audit row of a denial is kept and the caller sees the denial -- if the
   engine's transaction was the outermost one, and not a hook of the host's
   that rolls back what throws: there the row is lost and the wrapper comes
   out (filelayer.ts, #transaction: "If a throw always rolled back we would
   lose exactly the events P5 exists to keep").                            *)
DenialsAreKept ==
  seen \notin {None, "lost"} /\ denial # None /\ denial.depth = 1 /\ denial.via # "hook" =>
    seen = "decided" /\ denial.row \in kept
=============================================================================
