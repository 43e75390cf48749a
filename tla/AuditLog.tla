------------------------------ MODULE AuditLog ------------------------------
(***************************************************************************)
(* What an audit chain promises, with no lock, transaction or statement in *)
(* it: rows are added behind the last one, cut out on the record, sealed,  *)
(* and lost by accident.  A row's prev is the row whose hash it stores.    *)
(* SEMANTICS.md, section 9; LIMITATIONS.md, 11; schema.sql, audit_append.  *)
(***************************************************************************)
EXTENDS Integers

VARIABLES log,      \* rows: [id, actor, prev]
          gaps,     \* rows after which something was cut out on the record
          seals,    \* rows sealed
          harmed    \* has a row gone without record?

lvars == <<log, gaps, seals, harmed>>

Ids(S) == {e.id : e \in S}

LInit == log = {} /\ gaps = {} /\ seals = {} /\ harmed = FALSE

(* The rows of one transaction, all at once.  No id that is anywhere on record
   is used again; nothing is between a row and its prev, which is there, or
   attested, or 0 for the first row of all.                                 *)
Extend ==
  /\ log \subseteq log'
  /\ \A e \in log' \ log :
       /\ \A i \in Ids(log) \cup gaps \cup seals : i < e.id
       /\ \A f \in log' : /\ f.id = e.id => f = e
                          /\ ~(e.prev < f.id /\ f.id < e.id)
       /\ ~harmed => e.prev \in {0} \cup Ids(log') \cup gaps
  /\ UNCHANGED <<gaps, seals, harmed>>

(* A removal attests rows it removes, and among them each one that a row it
   leaves points at.                                                        *)
Cut ==
  /\ log' \subseteq log
  /\ gaps \subseteq gaps'
  /\ ~harmed' => /\ gaps' \ gaps \subseteq Ids(log \ log')
                 /\ \A e \in log' : e.prev \in Ids(log \ log') => e.prev \in gaps'
  /\ UNCHANGED seals

(* trimAuditChain: everything up to a row that it attests, nothing unrecorded. *)
Trim ==
  /\ Cut
  /\ \E i \in gaps' : log' = {e \in log : i < e.id}
  /\ UNCHANGED harmed

(* eraseActorFromAuditChain: rows of one actor.  It may overrun what it
   attested.                                                                *)
Erase ==
  /\ Cut
  /\ \A e, f \in log \ log' : e.actor = f.actor
  /\ harmed => harmed'

(* What is sealed was the head: rows or the record still reach as far. *)
Seal ==
  /\ \E i \in seals' : /\ seals' = seals \cup {i}
                       /\ ~harmed => \E j \in Ids(log) \cup gaps : i <= j
  /\ UNCHANGED <<log, gaps, harmed>>

Lose ==
  /\ \E e \in log : log' = log \ {e}
  /\ harmed'
  /\ UNCHANGED <<gaps, seals>>

LNext == Extend \/ Trim \/ Erase \/ Seal \/ Lose

Spec == LInit /\ [][LNext]_lvars
=============================================================================
