------------------------------ MODULE Migrations ------------------------------
(***************************************************************************)
(* The schema's version: what schemaStatus reads off a database, and an    *)
(* operator who applies the migrations it lists, one file after the other. *)
(* Most files are one transaction; four build an index or a constraint     *)
(* with statements of their own, and a crash between two of them leaves    *)
(* what it leaves.  A version is known by a row in the version table, once *)
(* there is one, and by an object that migration made until then.          *)
(***************************************************************************)
EXTENDS Integers

CONSTANTS Versions,       \* the migrations that have a file
          Unwrapped,      \* those that must not run in a transaction
          Table,          \* the one that makes the version table
          Needs,          \* what a file checks for before it runs
          OldVersions,    \* versions a database may be at when the story begins
          None, MaxCrashes     \* bound for the model checker

MigrationsConstants ==
  /\ Versions \subseteq Nat \ {0, 1} /\ \E newest \in Versions : \A v \in Versions : v <= newest
  /\ OldVersions \subseteq Nat
  /\ \A rows \in SUBSET Versions : rows # None
  /\ \A v \in Versions, step \in {"check", "build", "record"} : [file |-> v, step |-> step] # None
  /\ Table \in Versions /\ Unwrapped \subseteq Versions \ {Table}
  /\ Needs \in [Versions -> SUBSET Versions] /\ \A v \in Versions : \A w \in Needs[v] : w < v

VARIABLES object,     \* per migration, its marker: absent, broken, whole
          recorded,   \* the rows of the version table, None while there is none
          runner,     \* the file that is being applied, and how far
          passed,     \* files that said they were applied already
          crashes

migrationVars == <<object, recorded, runner, passed, crashes>>

Newest == CHOOSE v \in Versions : \A w \in Versions : w <= v
Tabled == {v \in Versions : v > Table}

MigrationsInit ==
  /\ \E s \in OldVersions :
       /\ object = [v \in Versions |-> IF v <= s THEN "whole" ELSE "absent"]
       /\ recorded = IF s < Table THEN None
                     ELSE IF s = Newest THEN {Newest} ELSE {v \in Versions : Table <= v /\ v <= s}
  /\ runner = None /\ passed = {} /\ crashes = 0

Present(v) == object[v] # "absent"

(* The newest marker there is; the version table is not among them. *)
Inferred ==
  LET found == {v \in Versions \ {Table} : Present(v)}
  IN  IF found = {} THEN 1 ELSE CHOOSE v \in found : \A w \in found : w <= v

At == IF recorded = None THEN Inferred ELSE CHOOSE v \in recorded : \A w \in recorded : w <= v

State == IF recorded = None THEN "unversioned" ELSE IF At = Newest THEN "current" ELSE "behind"

(* Mutant: the version the database is at is listed again. *)
Outstanding_Again == {v \in Versions : v >= At}

Outstanding == {v \in Versions : v > At}

(* The operator takes the first file of the list, one that did not say it had
   been applied.                                                           *)
Pick(v) ==
  /\ runner = None
  /\ v \in Outstanding \ passed /\ \A w \in Outstanding \ passed : v <= w
  /\ runner' = [file |-> v, step |-> "check"]
  /\ UNCHANGED <<object, recorded, passed, crashes>>

(* A file refuses a database that has its object, or not what it rests on; the
   stamp of the version table rests on the newest object before it.        *)
Refuses(v) == Present(v) \/ \E w \in Needs[v] : ~Present(w)

Refuse ==
  /\ runner # None /\ runner.step = "check" /\ Refuses(runner.file)
  /\ passed' = passed \cup {runner.file} /\ runner' = None
  /\ UNCHANGED <<object, recorded, crashes>>

(* Mutant: the files after the version table forget their row. *)
RecordOf_Forgotten(v) == IF v = Table THEN {v} ELSE recorded

RecordOf(v) == IF v = Table THEN {v} ELSE IF v \in Tabled THEN recorded \cup {v} ELSE recorded

(* One transaction: the objects and the row. *)
ApplyWhole ==
  LET v == runner.file
  IN  /\ runner # None /\ runner.step = "check" /\ ~Refuses(v) /\ v \notin Unwrapped
      /\ v \in Tabled => recorded # None
      /\ object' = [object EXCEPT ![v] = "whole"]
      /\ recorded' = RecordOf(v)
      /\ runner' = None
      /\ UNCHANGED <<passed, crashes>>

(* CREATE INDEX CONCURRENTLY, or a constraint NOT VALID: there, and not good. *)
StartBuild ==
  LET v == runner.file
  IN  /\ runner # None /\ runner.step = "check" /\ ~Refuses(v) /\ v \in Unwrapped
      /\ object' = [object EXCEPT ![v] = "broken"]
      /\ runner' = [runner EXCEPT !.step = "build"]
      /\ UNCHANGED <<recorded, passed, crashes>>

FinishBuild ==
  /\ runner # None /\ runner.step = "build"
  /\ object' = [object EXCEPT ![runner.file] = "whole"]
  /\ runner' = [runner EXCEPT !.step = "record"]
  /\ UNCHANGED <<recorded, passed, crashes>>

Record ==
  /\ runner # None /\ runner.step = "record"
  /\ runner.file \in Tabled => recorded # None
  /\ recorded' = RecordOf(runner.file)
  /\ runner' = None
  /\ UNCHANGED <<object, passed, crashes>>

Crash ==
  /\ runner # None /\ crashes < MaxCrashes
  /\ crashes' = crashes + 1
  /\ runner' = None
  /\ UNCHANGED <<object, recorded, passed>>

MigrationsNext ==
  \/ \E v \in Versions : Pick(v)
  \/ Refuse \/ ApplyWhole \/ StartBuild \/ FinishBuild \/ Record \/ Crash

MigrationsSpec ==
  /\ MigrationsInit /\ [][MigrationsNext]_migrationVars
  /\ WF_migrationVars(MigrationsNext)

-----------------------------------------------------------------------------
(* What is listed as outstanding, and only that, is to be applied: everything
   else is there -- whole, but for what a crash broke while it was built and
   the file, run again, took for applied ("already applied ... Nothing to do").
   With no crash, a database that reads `current' is whole.                *)
NothingIsForgotten ==
  runner = None =>
    /\ \A v \in Versions : object[v] = "absent" => v \in Outstanding
    /\ \A v \in Versions : object[v] = "broken" => crashes > 0
    /\ crashes = 0 => \A v \in Outstanding : object[v] = "absent"

(* Whoever goes on applying what is listed comes to a current schema, whatever
   crashes happen on the way and however old the database was.             *)
SchemaArrives == <>(State = "current" /\ runner = None)
=============================================================================
