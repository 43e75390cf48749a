------------------------------ MODULE FileLife ------------------------------
(***************************************************************************)
(* What a file promises, with no call, lock, crash or object store in it:  *)
(* it is reserved or stored, completed, deleted or collected, each in one  *)
(* step, and its bytes are there whenever it says so.  SEMANTICS.md,       *)
(* sections 4 and 10a; upload, completeUpload, delete and the collectors   *)
(* in filelayer.ts.                                                        *)
(***************************************************************************)
EXTENDS Integers

CONSTANTS None, Files

VARIABLES life,    \* of each file: its stage, its hold and its deadline
          bytes,   \* is there an object?
          now

lvars == <<life, bytes, now>>

Blank(stage) == [stage |-> stage, retain |-> None, due |-> None]

LInit ==
  /\ life = [f \in Files |-> Blank("new")]
  /\ bytes = [f \in Files |-> FALSE]
  /\ now = 0

(* One file moves from a stage to another, and no other file does. *)
Moves(f, from, to) ==
  /\ life[f].stage = from
  /\ life' = [life EXCEPT ![f] = life'[f]]
  /\ life'[f].stage = to

Keeps(f) == life'[f].retain = life[f].retain /\ life'[f].due = life[f].due

(* createUpload: a row that waits for its bytes, up to a deadline. *)
Reserve(f) ==
  /\ Moves(f, "new", "pending")
  /\ life'[f].due > now
  /\ UNCHANGED <<bytes, now>>

(* upload *)
Store(f) ==
  /\ Moves(f, "new", "ready")
  /\ bytes[f]
  /\ UNCHANGED <<bytes, now>>

(* An upload that comes to nothing: its key is never used again. *)
GiveUp(f) ==
  /\ Moves(f, "new", "gone")
  /\ bytes' \in {bytes, [bytes EXCEPT ![f] = FALSE]}
  /\ UNCHANGED now

(* completeUpload *)
Complete(f) ==
  /\ Moves(f, "pending", "ready") /\ Keeps(f)
  /\ bytes[f]
  /\ UNCHANGED <<bytes, now>>

(* delete: never under a retention hold. *)
Delete(f) ==
  /\ Moves(f, "pending", "deleted") \/ Moves(f, "ready", "deleted")
  /\ Keeps(f)
  /\ life[f].retain = None \/ life[f].retain <= now
  /\ UNCHANGED <<bytes, now>>

(* collectUploadReservations: a reservation nobody completed in time. *)
Collect(f) ==
  /\ Moves(f, "pending", "gone")
  /\ life[f].due # None /\ life[f].due < now
  /\ UNCHANGED <<bytes, now>>

(* A client may put bytes late, or twice. *)
Arrive(f) ==
  /\ bytes' = [bytes EXCEPT ![f] = TRUE]
  /\ UNCHANGED <<life, now>>

(* Bytes go only after the file has. *)
Remove(f) ==
  /\ life[f].stage \in {"deleted", "gone"}
  /\ bytes' = [bytes EXCEPT ![f] = FALSE]
  /\ UNCHANGED <<life, now>>

Tick == now' = now + 1 /\ UNCHANGED <<life, bytes>>

LNext ==
  \/ Tick
  \/ \E f \in Files : \/ Reserve(f) \/ Store(f) \/ GiveUp(f) \/ Complete(f)
                      \/ Delete(f) \/ Collect(f) \/ Arrive(f) \/ Remove(f)

Spec == LInit /\ [][LNext]_lvars
=============================================================================
