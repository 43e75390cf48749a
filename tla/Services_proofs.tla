--------------------------- MODULE Services_proofs ---------------------------
(***************************************************************************)
(* Proofs about what is put on record, of MCServices: units of work, the   *)
(* provisioning of people and organisations, the audit trail by time, the  *)
(* usage report and its calendar, the background jobs and the schema's     *)
(* version.                                                                *)
(***************************************************************************)
EXTENDS Objects_proofs, FunctionTheorems

-----------------------------------------------------------------------------
(* Units of work. *)

(* A unit of work has begun; its innermost scope. *)
ScopeRecord == [kind : Units!Connections \cup {"savepoint"}, wraps : BOOLEAN, saved : SUBSET Nat]

UnitsType ==
  /\ scopes \in Seq(ScopeRecord)
  /\ writes \in Nat
  /\ pending \subseteq 1..writes
  /\ undone \subseteq 1..writes
  /\ aborted \in BOOLEAN
  /\ flying \in Units!Errors \cup {None}
  /\ denial \in [row : Nat, depth : Nat, via : Units!Connections \cup {"savepoint"}] \cup {None}

(* While the unit is open nothing is kept, what is written and was not taken
   back is pending, and the further out a savepoint the less it goes back to:
   rolling back to it takes back what came after, and only that.           *)
UnitOpen ==
  seen = None =>
    /\ kept = {}
    /\ pending = (1..writes) \ undone
    /\ \A i \in 1..Len(scopes) : scopes[i].saved \subseteq pending
    /\ \A i, j \in 1..Len(scopes) : i <= j => scopes[i].saved \subseteq scopes[j].saved
    /\ Len(scopes) > 0 => scopes[1].wraps = TRUE

(* A denial made by the outermost work is on its way out, and its row is
   pending: there is no savepoint that could take it back.                 *)
DenialOnItsWay ==
  seen = None /\ denial # None /\ denial.depth = 1 =>
    /\ Len(scopes) = 1
    /\ flying = "decided"
    /\ scopes[1].kind = denial.via
    /\ denial.row \in pending

UnitOver ==
  seen # None => scopes = <<>> /\ Units!AllOrNothing /\ Units!DenialsAreKept

UnitsInv == UnitsType /\ UnitOpen /\ DenialOnItsWay /\ UnitOver

LEMMA UnitsBegin == Init => UnitsInv
<1>. SUFFICES ASSUME Init PROVE UnitsInv
  OBVIOUS
<1>1. /\ scopes = <<>> /\ pending = {} /\ aborted = FALSE
      /\ flying = None /\ kept = {} /\ seen = None /\ writes = 0
      /\ undone = {} /\ denial = None
  BY DEF Init, Units!TransactionsInit
<1>2. scopes \in Seq(ScopeRecord) /\ Len(scopes) = 0
  BY <1>1
<1>3. UnitsType
  BY <1>1, <1>2 DEF UnitsType
<1>4. UnitOpen /\ DenialOnItsWay /\ UnitOver
  BY <1>1, <1>2 DEF UnitOpen, DenialOnItsWay, UnitOver
<1>. QED
  BY <1>3, <1>4 DEF UnitsInv

LEMMA UnitsStep ==
  ASSUME UnitsInv, Units!TransactionsNext
  PROVE  UnitsInv'
<1>. USE DEF Units!Depth
<1>1. None \notin {"decided", "wrapped", "other", "returned", "lost"}
  BY ConstantsFit DEF Units!TransactionsConstants, Units!Errors
<1>2. UnitsType /\ UnitOpen /\ DenialOnItsWay /\ UnitOver
  BY DEF UnitsInv
<1>3. Len(scopes) \in Nat /\ (\A i \in 1..Len(scopes) : scopes[i] \in ScopeRecord)
  BY <1>2 DEF UnitsType
<1>4. ASSUME NEW kind \in Units!Connections, Units!Begin(kind) PROVE UnitsInv'
  <2>1. UnitsType'
    BY <1>1, <1>2, <1>3, <1>4 DEF UnitsType, ScopeRecord, Units!Connections, Units!Errors,
       Units!Begin, Units!Scope
  <2>2. UnitOpen'
    BY <1>1, <1>2, <1>3, <1>4 DEF UnitOpen, ScopeRecord, UnitsType, Units!Errors,
       Units!Begin, Units!Scope
  <2>3. DenialOnItsWay'
    BY <1>1, <1>2, <1>3, <1>4 DEF DenialOnItsWay, UnitOpen, UnitsType, UnitOver, Units!Begin,
       Units!Scope
  <2>4. UnitOver'
    BY <1>1, <1>2, <1>3, <1>4 DEF UnitOver, Units!AllOrNothing, Units!DenialsAreKept,
       UnitOpen, DenialOnItsWay, UnitsType, Units!Errors, ScopeRecord, Units!Begin, Units!Scope
  <2>. QED
    BY <2>1, <2>2, <2>3, <2>4 DEF UnitsInv
<1>5. ASSUME NEW wraps \in BOOLEAN, Units!Nest(wraps) PROVE UnitsInv'
  <2>1. UnitsType'
    BY <1>1, <1>2, <1>3, <1>5 DEF UnitsType, ScopeRecord, Units!Connections, Units!Errors,
       Units!Nest, Units!Scope, Units!Working
  <2>2. UnitOpen'
    BY <1>1, <1>2, <1>3, <1>5 DEF UnitOpen, ScopeRecord, UnitsType, Units!Errors, Units!Nest,
       Units!Scope, Units!Working
  <2>3. DenialOnItsWay'
    BY <1>1, <1>2, <1>3, <1>5 DEF DenialOnItsWay, UnitOpen, UnitsType, UnitOver, Units!Nest,
       Units!Scope, Units!Working
  <2>4. UnitOver'
    BY <1>1, <1>2, <1>3, <1>5 DEF UnitOver, Units!AllOrNothing, Units!DenialsAreKept,
       UnitOpen, DenialOnItsWay, UnitsType, Units!Errors, ScopeRecord, Units!Nest,
       Units!Scope, Units!Working
  <2>. QED
    BY <2>1, <2>2, <2>3, <2>4 DEF UnitsInv
<1>6. CASE Units!Write
  <2>1. UnitsType'
    BY <1>1, <1>2, <1>3, <1>6 DEF UnitsType, ScopeRecord, Units!Connections, Units!Errors,
       Units!Write, Units!Working
  <2>2. UnitOpen'
    BY <1>1, <1>2, <1>3, <1>6 DEF UnitOpen, ScopeRecord, UnitsType, Units!Errors,
       Units!Write, Units!Working
  <2>3. DenialOnItsWay'
    BY <1>1, <1>2, <1>3, <1>6 DEF DenialOnItsWay, UnitOpen, UnitsType, UnitOver, Units!Write,
       Units!Working
  <2>4. UnitOver'
    BY <1>1, <1>2, <1>3, <1>6 DEF UnitOver, Units!AllOrNothing, Units!DenialsAreKept,
       UnitOpen, DenialOnItsWay, UnitsType, Units!Errors, ScopeRecord, Units!Write,
       Units!Working
  <2>. QED
    BY <2>1, <2>2, <2>3, <2>4 DEF UnitsInv
<1>7. CASE Units!StatementFails
  <2>1. UnitsType'
    BY <1>1, <1>2, <1>3, <1>7 DEF UnitsType, ScopeRecord, Units!Connections, Units!Errors,
       Units!StatementFails, Units!Working
  <2>2. UnitOpen'
    BY <1>1, <1>2, <1>3, <1>7 DEF UnitOpen, ScopeRecord, UnitsType, Units!Errors,
       Units!StatementFails, Units!Working
  <2>3. DenialOnItsWay'
    BY <1>1, <1>2, <1>3, <1>7 DEF DenialOnItsWay, UnitOpen, UnitsType, UnitOver,
       Units!StatementFails, Units!Working
  <2>4. UnitOver'
    BY <1>1, <1>2, <1>3, <1>7 DEF UnitOver, Units!AllOrNothing, Units!DenialsAreKept,
       UnitOpen, DenialOnItsWay, UnitsType, Units!Errors, ScopeRecord, Units!StatementFails,
       Units!Working
  <2>. QED
    BY <2>1, <2>2, <2>3, <2>4 DEF UnitsInv
<1>8. CASE Units!Decide
  <2>0. scopes[1].kind \in Units!Connections \cup {"savepoint"}
    BY <1>3, <1>8 DEF ScopeRecord, Units!Decide, Units!Working
  <2>1. UnitsType'
    BY <1>2, <1>3, <1>8, <2>0 DEF UnitsType, Units!Errors, Units!Decide, Units!Working
  <2>2. UnitOpen'
    BY <1>1, <1>2, <1>3, <1>8 DEF UnitOpen, ScopeRecord, UnitsType, Units!Errors,
       Units!Decide, Units!Working
  <2>3. DenialOnItsWay'
    BY <1>1, <1>2, <1>3, <1>8 DEF DenialOnItsWay, UnitOpen, UnitsType, UnitOver,
       Units!Decide, Units!Working
  <2>4. UnitOver'
    BY <1>1, <1>2, <1>3, <1>8 DEF UnitOver, Units!AllOrNothing, Units!DenialsAreKept,
       UnitOpen, DenialOnItsWay, UnitsType, Units!Errors, ScopeRecord, Units!Decide,
       Units!Working
  <2>. QED
    BY <2>1, <2>2, <2>3, <2>4 DEF UnitsInv
<1>9. CASE Units!Catch
  <2>1. UnitsType'
    BY <1>1, <1>2, <1>3, <1>9 DEF UnitsType, ScopeRecord, Units!Connections, Units!Errors,
       Units!Catch
  <2>2. UnitOpen'
    BY <1>1, <1>2, <1>3, <1>9 DEF UnitOpen, ScopeRecord, UnitsType, Units!Errors, Units!Catch
  <2>3. DenialOnItsWay'
    BY <1>1, <1>2, <1>3, <1>9 DEF DenialOnItsWay, UnitOpen, UnitsType, UnitOver, Units!Catch
  <2>4. UnitOver'
    BY <1>1, <1>2, <1>3, <1>9 DEF UnitOver, Units!AllOrNothing, Units!DenialsAreKept,
       UnitOpen, DenialOnItsWay, UnitsType, Units!Errors, ScopeRecord, Units!Catch
  <2>. QED
    BY <2>1, <2>2, <2>3, <2>4 DEF UnitsInv
<1>10. CASE Units!ThrowFromSavepoint
  <2>s. /\ seen = None
        /\ Len(scopes') = Len(scopes) - 1
        /\ \A i \in 1..(Len(scopes) - 1) : scopes'[i] = scopes[i]
    BY <1>2, <1>3, <1>10 DEF UnitOver, Units!ThrowFromSavepoint, Units!Outer
  <2>0. scopes' \in Seq(ScopeRecord)
    BY <1>2, <1>3, <1>10, SubSeqProperties DEF UnitsType, Units!ThrowFromSavepoint, Units!Outer
  <2>5. pending' \subseteq 1..writes /\ undone' \subseteq 1..writes
    <3>1. scopes[Len(scopes)].saved \subseteq pending
      BY <1>2, <1>3, <1>10, <2>s DEF UnitOpen, Units!ThrowFromSavepoint
    <3>2. /\ pending' = scopes[Len(scopes)].saved /\ writes' = writes
          /\ undone' = undone \cup (pending \ scopes[Len(scopes)].saved)
      BY <1>10 DEF Units!ThrowFromSavepoint, Units!Inner, Units!TakenBack
    <3>. QED
      BY <1>2, <3>1, <3>2 DEF UnitsType
  <2>1. UnitsType'
    BY <1>2, <1>3, <2>0, <2>5, <1>10 DEF UnitsType, Units!ThrowFromSavepoint, Units!Leaving,
       Units!Errors
  <2>2. UnitOpen'
    <3>1. /\ kept = {} /\ pending = (1..writes) \ undone
          /\ \A i \in 1..Len(scopes) : scopes[i].saved \subseteq pending
          /\ \A i, j \in 1..Len(scopes) : i <= j => scopes[i].saved \subseteq scopes[j].saved
          /\ scopes[1].wraps = TRUE /\ Len(scopes) > 1
      BY <1>2, <1>3, <1>10, <2>s DEF UnitOpen, Units!ThrowFromSavepoint
    <3>2. /\ pending' = scopes[Len(scopes)].saved /\ writes' = writes /\ kept' = kept
          /\ undone' = undone \cup (pending \ scopes[Len(scopes)].saved)
      BY <1>10 DEF Units!ThrowFromSavepoint, Units!Inner, Units!TakenBack
    <3>3. kept' = {} /\ pending' = (1..writes') \ undone'
      BY <1>3, <3>1, <3>2
    <3>4. \A i \in 1..Len(scopes') : scopes'[i].saved \subseteq pending'
      BY <1>3, <2>s, <3>1, <3>2
    <3>5. \A i, j \in 1..Len(scopes') : i <= j => scopes'[i].saved \subseteq scopes'[j].saved
      BY <1>3, <2>s, <3>1
    <3>6. Len(scopes') > 0 => scopes'[1].wraps = TRUE
      BY <1>3, <2>s, <3>1
    <3>. QED
      BY <3>3, <3>4, <3>5, <3>6 DEF UnitOpen
  <2>3. DenialOnItsWay'
    BY <1>1, <1>2, <1>3, <1>10 DEF DenialOnItsWay, UnitOpen, UnitsType, UnitOver,
       Units!ThrowFromSavepoint, Units!Outer, Units!Inner, Units!Leaving, Units!TakenBack
  <2>4. UnitOver'
    BY <1>1, <1>2, <1>3, <1>10 DEF UnitOver, Units!AllOrNothing, Units!DenialsAreKept,
       UnitOpen, DenialOnItsWay, UnitsType, Units!Errors, ScopeRecord,
       Units!ThrowFromSavepoint, Units!Outer, Units!Inner, Units!Leaving, Units!TakenBack
  <2>. QED
    BY <2>1, <2>2, <2>3, <2>4 DEF UnitsInv
<1>11. CASE Units!ReturnFromSavepoint
  <2>s. /\ seen = None
        /\ Len(scopes') = Len(scopes) - 1
        /\ \A i \in 1..(Len(scopes) - 1) : scopes'[i] = scopes[i]
    BY <1>2, <1>3, <1>11 DEF UnitOver, Units!ReturnFromSavepoint, Units!Outer
  <2>1. UnitsType'
    BY <1>1, <1>2, <1>3, <1>11 DEF UnitsType, ScopeRecord, Units!Connections, Units!Errors,
       Units!ReturnFromSavepoint, Units!Outer
  <2>2. UnitOpen'
    BY <1>2, <1>3, <1>11, <2>s DEF UnitOpen, Units!ReturnFromSavepoint
  <2>3. DenialOnItsWay'
    BY <1>1, <1>2, <1>3, <1>11 DEF DenialOnItsWay, UnitOpen, UnitsType, UnitOver,
       Units!ReturnFromSavepoint, Units!Outer
  <2>4. UnitOver'
    BY <1>1, <1>2, <1>3, <1>11 DEF UnitOver, Units!AllOrNothing, Units!DenialsAreKept,
       UnitOpen, DenialOnItsWay, UnitsType, Units!Errors, ScopeRecord,
       Units!ReturnFromSavepoint, Units!Outer
  <2>. QED
    BY <2>1, <2>2, <2>3, <2>4 DEF UnitsInv
<1>12. CASE Units!ReturnFromOutermost
  <2>0. /\ scopes' = <<>> /\ pending' = {} /\ aborted' = FALSE /\ flying' = None
        /\ writes' = writes /\ undone' = undone /\ denial' = denial
    BY <1>12 DEF Units!ReturnFromOutermost, Units!Ends
  <2>a. <<>> \in Seq(ScopeRecord) /\ {} \subseteq 1..writes
    OBVIOUS
  <2>1. UnitsType'
    BY <1>2, <2>0, <2>a DEF UnitsType
  <2>2. UnitOpen'
    BY <1>1, <1>2, <1>3, <1>12 DEF UnitOpen, ScopeRecord, UnitsType, Units!Errors,
       Units!ReturnFromOutermost, Units!Ends
  <2>3. DenialOnItsWay'
    BY <1>1, <1>2, <1>3, <1>12 DEF DenialOnItsWay, UnitOpen, UnitsType, UnitOver,
       Units!ReturnFromOutermost, Units!Ends
  <2>4. UnitOver'
    BY <1>1, <1>2, <1>3, <1>12 DEF UnitOver, Units!AllOrNothing, Units!DenialsAreKept,
       UnitOpen, DenialOnItsWay, UnitsType, Units!Errors, ScopeRecord,
       Units!ReturnFromOutermost, Units!Ends
  <2>. QED
    BY <2>1, <2>2, <2>3, <2>4 DEF UnitsInv
<1>13. CASE Units!ThrowFromOutermost
  <2>0. /\ scopes' = <<>> /\ pending' = {} /\ aborted' = FALSE /\ flying' = None
        /\ writes' = writes /\ undone' = undone /\ denial' = denial
    BY <1>13 DEF Units!ThrowFromOutermost, Units!Ends
  <2>a. <<>> \in Seq(ScopeRecord) /\ {} \subseteq 1..writes
    OBVIOUS
  <2>1. UnitsType'
    BY <1>2, <2>0, <2>a DEF UnitsType
  <2>2. UnitOpen'
    BY <1>1, <1>2, <1>3, <1>13 DEF UnitOpen, ScopeRecord, UnitsType, Units!Errors,
       Units!ThrowFromOutermost, Units!Ends, Units!Commits, Units!Inner, Units!Leaving
  <2>3. DenialOnItsWay'
    BY <1>1, <1>2, <1>3, <1>13 DEF DenialOnItsWay, UnitOpen, UnitsType, UnitOver,
       Units!ThrowFromOutermost, Units!Ends, Units!Commits, Units!Inner, Units!Leaving
  <2>5. Len(scopes) = 1 /\ seen = None /\ scopes[1].wraps = TRUE
    BY <1>2, <1>13 DEF UnitOver, UnitOpen, Units!ThrowFromOutermost
  <2>6. Units!Leaving \in {"wrapped", "other"} /\ (flying = "decided" => Units!Leaving = "wrapped")
    BY <1>2, <1>13, <2>5 DEF UnitsType, Units!Errors, Units!Leaving, Units!Inner,
       Units!ThrowFromOutermost
  <2>7. Units!AllOrNothing'
    BY <1>2, <1>13, <2>5, <2>6 DEF Units!ThrowFromOutermost, Units!Ends, Units!Commits,
       Units!AllOrNothing,
       UnitOpen
  <2>8. Units!DenialsAreKept'
    BY <1>1, <1>2, <1>13, <2>5, <2>6 DEF Units!ThrowFromOutermost, Units!Ends, Units!Commits,
       Units!DenialsAreKept, Units!Inner, UnitOpen, DenialOnItsWay
  <2>4. UnitOver'
    BY <2>0, <2>7, <2>8 DEF UnitOver
  <2>. QED
    BY <2>1, <2>2, <2>3, <2>4 DEF UnitsInv
<1>14. CASE Units!ConnectionLost
  <2>0. /\ scopes' = <<>> /\ pending' = {} /\ aborted' = FALSE /\ flying' = None
        /\ writes' = writes /\ undone' = undone /\ denial' = denial
    BY <1>14 DEF Units!ConnectionLost, Units!Ends
  <2>a. <<>> \in Seq(ScopeRecord) /\ {} \subseteq 1..writes
    OBVIOUS
  <2>1. UnitsType'
    BY <1>2, <2>0, <2>a DEF UnitsType
  <2>2. UnitOpen'
    BY <1>1, <1>2, <1>3, <1>14 DEF UnitOpen, ScopeRecord, UnitsType, Units!Errors,
       Units!ConnectionLost, Units!Ends
  <2>3. DenialOnItsWay'
    BY <1>1, <1>2, <1>3, <1>14 DEF DenialOnItsWay, UnitOpen, UnitsType, UnitOver,
       Units!ConnectionLost, Units!Ends
  <2>4. UnitOver'
    BY <1>1, <1>2, <1>3, <1>14 DEF UnitOver, Units!AllOrNothing, Units!DenialsAreKept,
       UnitOpen, DenialOnItsWay, UnitsType, Units!Errors, ScopeRecord, Units!ConnectionLost,
       Units!Ends
  <2>. QED
    BY <2>1, <2>2, <2>3, <2>4 DEF UnitsInv
<1>. QED
  BY <1>4, <1>5, <1>6, <1>7, <1>8, <1>9, <1>10, <1>11, <1>12, <1>13,
     <1>14 DEF Units!TransactionsNext
LEMMA UnitsStepOrStand ==
  part = "units" /\ [Next]_vars => [Units!TransactionsNext]_units
BY DEF Next, vars, units, services, others

(* A unit of work commits whole or leaves nothing, and a denial made by its
   outermost work is kept with its throw, however deep savepoints nest, however
   much is written, and whatever fails on the way (db.ts, withTransaction;
   filelayer.ts, #transaction).                                             *)
THEOREM UnitsCommitWhole == Spec => []UnitsAreWhole
<1>1. Init => (part = "units" => UnitsInv)
  BY UnitsBegin
<1>2. (part = "units" => UnitsInv) /\ [Next]_vars => (part = "units" => UnitsInv)'
  <2>. SUFFICES ASSUME part = "units", UnitsInv, part' = part, [Units!TransactionsNext]_units
                PROVE  UnitsInv'
    BY UnitsStepOrStand, PartStands
  <2>1. CASE UNCHANGED units
    BY <2>1 DEF units, UnitsInv, UnitsType, UnitOpen, DenialOnItsWay, UnitOver,
       Units!AllOrNothing, Units!DenialsAreKept
  <2>. QED
    BY <2>1, UnitsStep
<1>3. (part = "units" => UnitsInv) => UnitsAreWhole
  <2>1. CASE seen = None
    BY <2>1 DEF UnitsAreWhole, Units!AllOrNothing, Units!DenialsAreKept
  <2>2. CASE seen # None
    BY <2>2 DEF UnitsAreWhole, UnitsInv, UnitOver
  <2>. QED
    BY <2>1, <2>2
<1>. QED
  BY <1>1, <1>2, <1>3, PTL DEF Spec

-----------------------------------------------------------------------------
(* Provisioning. *)

Stmts == {"org", "found", "founded", "check", "owner", "standing", "join", "joined",
          "concerned", "tell"}

CallRecord ==
  [op : {"put", "create", "suspend", "restore"}, org : Provision!Places \cup {None},
   user : People \cup Named \cup {None}, stmt : Stmts, created : BOOLEAN,
   todo : SUBSET (Provision!Places \cup {None})]

Made == [op : {"put", "create", "engine", None}, user : People \cup {None}]

ProvisionType ==
  /\ places \subseteq Provision!Places
  /\ member \in [Provision!Places -> [Provision!Everyone -> Provision!OrgRole \cup {None}]]
  /\ maker \in [Provision!Places -> Made]
  /\ call \in [Calls -> CallRecord \cup {Provision!Unused}]
  /\ answer # None => /\ answer.org \in places
                      /\ answer.user \in People

(* A call at the statement stmt, for the organisation it names. *)
CallMeans(c) ==
  LET k == call[c]
  IN  /\ k.stmt \in {"org", "found", "founded", "check", "owner", "standing", "join", "joined"} =>
           /\ k.op \in {"put", "create"} /\ k.org \in Provision!Places
           /\ k.user \in People \cup {None} /\ (k.op = "create" => k.user \in People)
           /\ k.stmt # "org" => k.org \in places
      /\ k.stmt \in {"found", "founded"} /\ k.op = "put" => k.org = Workspace
      /\ k.stmt \in {"found", "founded"} => maker[k.org] = [op |-> k.op, user |-> k.user]
      /\ k.stmt = "check" => k.op = "create"
      /\ k.stmt \in {"owner", "standing", "join", "joined"} => k.op = "put"
      /\ k.stmt = "owner" /\ k.created => maker[k.org] = [op |-> "put", user |-> k.user]
      /\ k.stmt = "standing" => k.user # None
      /\ k.stmt = "join" =>
           /\ k.org = Workspace => k.user # None
           /\ k.org \in Named /\ k.user # None =>
                /\ maker[k.org].user = k.user
                /\ maker[k.org].op = "put" \/ member[k.org][k.user] # None
      /\ k.stmt \in {"concerned", "tell"} => k.op \in {"suspend", "restore"} /\ k.org = None

CallsMeanIt == \A c \in Calls : CallMeans(c)

(* Nobody stands in an organisation that does not exist; whoever stands in one
   made for an owner is the owner; the facade owns its workspace or is not in
   it.                                                                      *)
RolesAreGiven ==
  /\ \A o \in Provision!Places \ places, u \in Provision!Everyone : member[o][u] = None
  /\ \A o \in places : maker[o].op = "engine" => o \in Named
  /\ \A o \in Named, u \in People :
       member[o][u] # None => maker[o].user = u /\ (maker[o].op # "put" => member[o][u] = "owner")
  /\ member[Workspace][System] \in {None, "owner"}

Founding(o) == Provision!Pending({"found"}, o, {maker[o].user})

FoundersStand ==
  \A o \in places :
    /\ o \in Named /\ maker[o].op # "put" =>
         maker[o].user \in People /\ (member[o][maker[o].user] = "owner" \/ Founding(o))
    /\ o = Workspace /\ maker[o].op # "create" => member[o][System] = "owner" \/ Founding(o)

(* A refusal goes back to a founding that is still under way, or was cut. *)
RefusalIsFounded ==
  answer # None /\ ~answer.ok /\ answer.org \in Named /\ suspended = {}
  /\ maker[answer.org] = [op |-> "create", user |-> answer.user] =>
    \/ \E c \in Calls : /\ call[c].stmt \in {"found", "founded"}
                        /\ call[c].org = answer.org /\ call[c].user = answer.user
    \/ <<"found", answer.org, answer.user>> \in cut

(* The event of a membership is still to be written, or never will be. *)
ToBeTold(o, u) ==
  \/ \E c \in Calls : call[c].stmt = "founded" /\ call[c].org = o /\ Provision!Founder(call[c]) = u
  \/ \E c \in Calls : call[c].stmt = "joined" /\ call[c].org = o /\ Provision!Joiner(call[c]) = u
  \/ \E s \in {"founded", "joined"}, x \in (IF u = System THEN People \cup {None} ELSE {u}) :
       <<s, o, x>> \in cut

JoinsAreTold ==
  \A o \in Provision!Places, u \in Provision!Everyone :
    member[o][u] # None => <<"member", o, u>> \in trail \/ ToBeTold(o, u)

(* The organisation o is told that x is suspended, or will be, or never. *)
SuspensionTold(o, x) ==
  \/ <<"suspend", o, x>> \in trail
  \/ \E c \in Calls : /\ call[c].stmt \in {"concerned", "tell"}
                      /\ call[c].op = "suspend" /\ call[c].user = x
                      /\ call[c].stmt = "tell" => o \in call[c].todo
  \/ \E s \in {"concerned", "tell"} : <<s, None, x>> \in cut

SuspensionsAreTold ==
  \A debt \in owed :
    /\ debt \in Provision!Places \X People
    /\ member[debt[1]][debt[2]] # None
    /\ SuspensionTold(debt[1], debt[2])

ProvisionInv ==
  /\ ProvisionType /\ CallsMeanIt /\ RolesAreGiven /\ FoundersStand
  /\ RefusalIsFounded /\ JoinsAreTold /\ SuspensionsAreTold

LEMMA ProvisionBegin == Init => ProvisionInv
<1>. SUFFICES ASSUME Init PROVE ProvisionInv
  OBVIOUS
<1>1. /\ places = {} /\ trail = {} /\ owed = {} /\ cut = {} /\ answer = None
      /\ member = [o \in Provision!Places |-> [u \in Provision!Everyone |-> None]]
      /\ call = [c \in Calls |-> [stmt |-> "idle"]]
      /\ maker = [o \in Provision!Places |-> [op |-> None, user |-> None]]
  BY DEF Init, Provision!ProvisioningInit, Provision!Unused
<1>2. ProvisionType
  BY <1>1 DEF ProvisionType, Provision!Unused, Made
<1>3. CallsMeanIt
  BY <1>1 DEF CallsMeanIt, CallMeans
<1>4. RolesAreGiven /\ FoundersStand
  BY <1>1 DEF RolesAreGiven, FoundersStand, Provision!Places, Provision!Everyone
<1>5. RefusalIsFounded /\ JoinsAreTold /\ SuspensionsAreTold
  BY <1>1 DEF RefusalIsFounded, JoinsAreTold, SuspensionsAreTold
<1>. QED
  BY <1>2, <1>3, <1>4, <1>5 DEF ProvisionInv

(* A call that goes on is the same call at another statement. *)
LEMMA GoesOn ==
  ASSUME ProvisionType, NEW c \in Calls, call[c].stmt # "idle",
         NEW s \in Stmts \cup {"idle"}, Provision!Goes(c, s)
  PROVE  /\ call[c] \in CallRecord
         /\ call' \in [Calls -> CallRecord \cup {Provision!Unused}]
         /\ \A d \in Calls \ {c} : call'[d] = call[d]
         /\ s = "idle" => call'[c] = Provision!Unused
         /\ s # "idle" => /\ call'[c] \in CallRecord
                         /\ call'[c].stmt = s /\ call'[c].op = call[c].op
                         /\ call'[c].org = call[c].org /\ call'[c].user = call[c].user
                         /\ call'[c].created = call[c].created /\ call'[c].todo = call[c].todo
<1>1. call[c] \in CallRecord
  BY DEF ProvisionType, Provision!Unused
<1>2. call' = [call EXCEPT ![c] = IF s = "idle" THEN Provision!Unused
                                  ELSE [call[c] EXCEPT !.stmt = s]]
  BY DEF Provision!Goes
<1>3. s # "idle" => [call[c] EXCEPT !.stmt = s] \in CallRecord
  BY <1>1 DEF CallRecord
<1>4. call' \in [Calls -> CallRecord \cup {Provision!Unused}]
  BY <1>2, <1>3 DEF ProvisionType
<1>5. /\ \A d \in Calls \ {c} : call'[d] = call[d]
      /\ call'[c] = IF s = "idle" THEN Provision!Unused ELSE [call[c] EXCEPT !.stmt = s]
  BY <1>2 DEF ProvisionType
<1>. QED
  BY <1>1, <1>3, <1>4, <1>5 DEF CallRecord

LEMMA Enrolled ==
  ASSUME ProvisionType, NEW o \in Provision!Places, NEW u \in Provision!Everyone,
         NEW r \in Provision!OrgRole, Provision!Enrol(o, u, r)
  PROVE  /\ member' \in [Provision!Places -> [Provision!Everyone -> Provision!OrgRole \cup {None}]]
         /\ member'[o][u] = IF member[o][u] = None THEN r ELSE member[o][u]
         /\ \A p \in Provision!Places, v \in Provision!Everyone :
              p # o \/ v # u => member'[p][v] = member[p][v]
BY DEF ProvisionType, Provision!Enrol

(* What a step of the call c leaves alone of what others mean, are about to
   found, or have still to tell.                                            *)
LEMMA OthersMean ==
  ASSUME NEW d \in Calls, CallMeans(d), call'[d] = call[d],
         places \subseteq places', maker' = maker,
         \A p \in Provision!Places,
         v \in Provision!Everyone : member[p][v] # None => member'[p][v] # None
  PROVE  CallMeans(d)'
<1>1. call[d].stmt = "join" /\ call[d].org \in Named /\ call[d].user # None
      /\ member[call[d].org][call[d].user] # None => member'[call[d].org][call[d].user] # None
  BY DEF CallMeans, Provision!Places, Provision!Everyone
<1>. QED
  BY <1>1 DEF CallMeans

LEMMA FoundingStays ==
  ASSUME NEW c \in Calls, \A d \in Calls \ {c} : call'[d] = call[d],
         cut \subseteq cut', maker' = maker, NEW o, Founding(o),
         ~(call[c].stmt = "found" /\ call[c].org = o)
  PROVE  Founding(o)'
BY DEF Founding, Provision!Pending

LEMMA StillToBeTold ==
  ASSUME NEW c \in Calls, \A d \in Calls \ {c} : call'[d] = call[d],
         cut \subseteq cut', NEW o, NEW u, ToBeTold(o, u),
         ~(call[c].stmt = "founded" /\ call[c].org = o /\ Provision!Founder(call[c]) = u),
         ~(call[c].stmt = "joined" /\ call[c].org = o /\ Provision!Joiner(call[c]) = u)
  PROVE  ToBeTold(o, u)'
BY DEF ToBeTold, Provision!Founder, Provision!Joiner

LEMMA DebtsStay ==
  ASSUME NEW c \in Calls, \A d \in Calls \ {c} : call'[d] = call[d],
         cut \subseteq cut', trail \subseteq trail', owed' = owed, SuspensionsAreTold,
         call[c].stmt \notin {"concerned", "tell"}, \A p \in Provision!Places,
         v \in Provision!Everyone : member[p][v] # None => member'[p][v] # None
  PROVE  SuspensionsAreTold'
<1>. SUFFICES ASSUME NEW debt \in owed
              PROVE  /\ debt \in Provision!Places \X People /\ member'[debt[1]][debt[2]] # None
                     /\ SuspensionTold(debt[1], debt[2])'
  BY DEF SuspensionsAreTold
<1>1. /\ debt \in Provision!Places \X People /\ member[debt[1]][debt[2]] # None
      /\ SuspensionTold(debt[1], debt[2])
  BY DEF SuspensionsAreTold
<1>2. SuspensionTold(debt[1], debt[2])'
  BY <1>1 DEF SuspensionTold
<1>. QED
  BY <1>1, <1>2 DEF Provision!Everyone

(* What a step of the call c keeps for everyone, when it leaves the
   organisations and their members as they are.                             *)
LEMMA CallsGoOn ==
  ASSUME NEW c \in Calls, \A d \in Calls \ {c} : call'[d] = call[d], CallsMeanIt,
         CallMeans(c)', places' = places, maker' = maker, member' = member
  PROVE  CallsMeanIt'
<1>. SUFFICES ASSUME NEW d \in Calls PROVE CallMeans(d)'
  BY DEF CallsMeanIt
<1>1. CASE d = c
  BY <1>1
<1>2. CASE d # c
  <2>1. CallMeans(d) /\ call'[d] = call[d]
    BY <1>2 DEF CallsMeanIt
  <2>. QED
    BY <2>1, OthersMean
<1>. QED
  BY <1>1, <1>2

LEMMA FoundersGoOn ==
  ASSUME NEW c \in Calls, \A d \in Calls \ {c} : call'[d] = call[d], cut \subseteq cut',
         places' = places, maker' = maker, member' = member, FoundersStand,
         call[c].stmt # "found"
  PROVE  FoundersStand'
<1>1. \A o : Founding(o) => Founding(o)'
  BY FoundingStays
<1>. QED
  BY <1>1 DEF FoundersStand

LEMMA RefusalGoesOn ==
  ASSUME NEW c \in Calls, \A d \in Calls \ {c} : call'[d] = call[d], cut \subseteq cut',
         answer' = answer, suspended' = suspended, maker' = maker, RefusalIsFounded,
         call[c].stmt \notin {"found", "founded"}
  PROVE  RefusalIsFounded'
BY DEF RefusalIsFounded

LEMMA JoinsGoOn ==
  ASSUME NEW c \in Calls, \A d \in Calls \ {c} : call'[d] = call[d], cut \subseteq cut',
         trail \subseteq trail', member' = member, JoinsAreTold,
         call[c].stmt \notin {"founded", "joined"}
  PROVE  JoinsAreTold'
<1>1. \A o, u : ToBeTold(o, u) => ToBeTold(o, u)'
  BY StillToBeTold
<1>. QED
  BY <1>1 DEF JoinsAreTold

LEMMA ProvisionStep ==
  ASSUME ProvisionInv, Provision!ProvisioningNext
  PROVE  ProvisionInv'
<1>1. /\ System \notin People /\ Workspace \notin Named /\ None \notin Provision!OrgRole
      /\ Suspendable \subseteq People \cup Named
  BY ConstantsFit DEF Provision!ProvisioningConstants
<1>2. /\ ProvisionType /\ CallsMeanIt /\ RolesAreGiven /\ FoundersStand
      /\ RefusalIsFounded /\ JoinsAreTold /\ SuspensionsAreTold
  BY DEF ProvisionInv
<1>3. ASSUME NEW c \in Calls, NEW o \in Provision!Places, NEW u \in People \cup {None}, Provision!BeginPut(c, o, u)
     PROVE  ProvisionInv'
  <2>a. /\ call[c].stmt = "idle" /\ answer' = None
        /\ call' = [call EXCEPT ![c] = [op |-> "put", org |-> o, user |-> u, stmt |-> "org",
                                        created |-> FALSE, todo |-> {}]]
        /\ places' = places /\ member' = member /\ maker' = maker
        /\ cut' = cut /\ trail' = trail /\ owed' = owed
    BY <1>3 DEF Provision!BeginPut, Provision!Starts, Provision!At
  <2>b. [op |-> "put", org |-> o, user |-> u, stmt |-> "org", created |-> FALSE, todo |-> {}]
          \in CallRecord
    BY DEF CallRecord, Stmts
  <2>c. /\ call' \in [Calls -> CallRecord \cup {Provision!Unused}]
        /\ \A d \in Calls \ {c} : call'[d] = call[d]
        /\ call'[c].stmt = "org" /\ call'[c].op = "put"
        /\ call'[c].org = o /\ call'[c].user = u
    BY <1>2, <2>a, <2>b DEF ProvisionType
  <2>1. ProvisionType'
    BY <1>2, <2>a, <2>c DEF ProvisionType
  <2>2. CallsMeanIt'
    <3>1. CallMeans(c)'
      BY <2>c DEF CallMeans
    <3>. QED
      BY <1>2, <2>a, <2>c, <3>1, CallsGoOn
  <2>3. RolesAreGiven'
    BY <1>2, <2>a DEF RolesAreGiven
  <2>4. FoundersStand'
    BY <1>2, <2>a, <2>c, FoundersGoOn
  <2>5. RefusalIsFounded'
    BY <2>a DEF RefusalIsFounded
  <2>6. JoinsAreTold'
    BY <1>2, <2>a, <2>c, JoinsGoOn
  <2>7. SuspensionsAreTold'
    BY <1>2, <2>a, <2>c, DebtsStay
  <2>. QED
    BY <2>1, <2>2, <2>3, <2>4, <2>5, <2>6, <2>7 DEF ProvisionInv
<1>4. ASSUME NEW c \in Calls, NEW o \in Provision!Places, NEW u \in People, Provision!BeginCreate(c, o, u)
     PROVE  ProvisionInv'
  <2>a. /\ call[c].stmt = "idle" /\ answer' = None
        /\ call' = [call EXCEPT ![c] = [op |-> "create", org |-> o, user |-> u, stmt |-> "org",
                                        created |-> FALSE, todo |-> {}]]
        /\ places' = places /\ member' = member /\ maker' = maker
        /\ cut' = cut /\ trail' = trail /\ owed' = owed
    BY <1>4 DEF Provision!BeginCreate, Provision!Starts, Provision!At
  <2>b. [op |-> "create", org |-> o, user |-> u, stmt |-> "org", created |-> FALSE, todo |-> {}]
          \in CallRecord
    BY DEF CallRecord, Stmts
  <2>c. /\ call' \in [Calls -> CallRecord \cup {Provision!Unused}]
        /\ \A d \in Calls \ {c} : call'[d] = call[d]
        /\ call'[c].stmt = "org" /\ call'[c].op = "create"
        /\ call'[c].org = o /\ call'[c].user = u
    BY <1>2, <2>a, <2>b DEF ProvisionType
  <2>1. ProvisionType'
    BY <1>2, <2>a, <2>c DEF ProvisionType
  <2>2. CallsMeanIt'
    <3>1. CallMeans(c)'
      BY <2>c DEF CallMeans
    <3>. QED
      BY <1>2, <2>a, <2>c, <3>1, CallsGoOn
  <2>3. RolesAreGiven'
    BY <1>2, <2>a DEF RolesAreGiven
  <2>4. FoundersStand'
    BY <1>2, <2>a, <2>c, FoundersGoOn
  <2>5. RefusalIsFounded'
    BY <2>a DEF RefusalIsFounded
  <2>6. JoinsAreTold'
    BY <1>2, <2>a, <2>c, JoinsGoOn
  <2>7. SuspensionsAreTold'
    BY <1>2, <2>a, <2>c, DebtsStay
  <2>. QED
    BY <2>1, <2>2, <2>3, <2>4, <2>5, <2>6, <2>7 DEF ProvisionInv
<1>5. ASSUME NEW c \in Calls, Provision!UpsertOrg(c)
     PROVE  ProvisionInv'
  <2>a. /\ call[c].stmt = "org" /\ call[c] \in CallRecord
        /\ call[c].op \in {"put", "create"} /\ call[c].org \in Provision!Places
        /\ call[c].user \in People \cup {None} /\ (call[c].op = "create" => call[c].user \in People)
    <3>1. call[c].stmt = "org"
      BY <1>5 DEF Provision!UpsertOrg, Provision!At
    <3>2. call[c] \in CallRecord
      BY <1>2, <3>1 DEF ProvisionType, Provision!Unused
    <3>3. CallMeans(c)
      BY <1>2 DEF CallsMeanIt
    <3>. QED
      BY <3>1, <3>2, <3>3 DEF CallMeans
  <2>b. PICK s \in {"found", "check", "owner"} :
          /\ call' = [call EXCEPT ![c] = [call[c] EXCEPT !.created = call[c].org \notin places,
                                                        !.stmt = s]]
          /\ s = "found" => /\ call[c].org \notin places
                            /\ call[c].op = "create" \/ call[c].org = Workspace
          /\ s = "check" => call[c].op = "create" /\ call[c].org \in places
          /\ s = "owner" => call[c].op = "put" /\ (call[c].org = Workspace => call[c].org \in places)
    <3> DEFINE s0 == CASE call[c].org \notin places /\ (call[c].op = "create" \/ call[c].org = Workspace)
                            -> "found"
                       [] call[c].org \in places /\ call[c].op = "create" -> "check"
                       [] OTHER -> "owner"
    <3>1. call' = [call EXCEPT ![c] = [call[c] EXCEPT !.created = call[c].org \notin places,
                                                     !.stmt = s0]]
      BY <1>5 DEF Provision!UpsertOrg
    <3>2. /\ s0 \in {"found", "check", "owner"}
          /\ s0 = "found" => /\ call[c].org \notin places
                             /\ call[c].op = "create" \/ call[c].org = Workspace
          /\ s0 = "check" => call[c].op = "create" /\ call[c].org \in places
          /\ s0 = "owner" => call[c].op = "put" /\ (call[c].org = Workspace => call[c].org \in places)
      BY <2>a
    <3>. QED
      BY <3>1, <3>2
  <2>c. /\ \A d \in Calls \ {c} : call'[d] = call[d]
        /\ call'[c].stmt = s /\ call'[c].op = call[c].op
        /\ call'[c].org = call[c].org /\ call'[c].user = call[c].user
        /\ call'[c].created = (call[c].org \notin places) /\ call'[c].todo = call[c].todo
    BY <1>2, <2>a, <2>b DEF ProvisionType, CallRecord
  <2>f. /\ places' = places \cup {call[c].org} /\ member' = member /\ cut' = cut
        /\ trail' = trail /\ owed' = owed /\ suspended' = suspended /\ answer' = answer
        /\ \A o \in places : maker'[o] = maker[o]
        /\ call[c].org \notin places =>
             maker'[call[c].org] = [op |-> call[c].op, user |-> call[c].user]
        /\ \A o \in Provision!Places \ {call[c].org} : maker'[o] = maker[o]
    BY <1>2, <1>5, <2>a DEF Provision!UpsertOrg, ProvisionType
  <2>1. ProvisionType'
    <3>1. call' \in [Calls -> CallRecord \cup {Provision!Unused}]
      <4>1. [call[c] EXCEPT !.created = call[c].org \notin places, !.stmt = s] \in CallRecord
        BY <2>a, <2>b DEF CallRecord, Stmts
      <4>. QED
        BY <1>2, <2>b, <4>1 DEF ProvisionType
    <3>2. [op |-> call[c].op, user |-> call[c].user] \in Made
      BY <2>a DEF Made
    <3>3. maker' = [maker EXCEPT ![call[c].org] = IF call[c].org \notin places
                                                 THEN [op |-> call[c].op, user |-> call[c].user]
                                                 ELSE maker[call[c].org]]
      BY <1>5 DEF Provision!UpsertOrg
    <3>4. maker' \in [Provision!Places -> Made]
      BY <1>2, <2>a, <3>2, <3>3 DEF ProvisionType
    <3>. QED
      BY <1>2, <2>a, <2>f, <3>1, <3>4 DEF ProvisionType
  <2>2. CallsMeanIt'
    <3>1. SUFFICES ASSUME NEW d \in Calls PROVE CallMeans(d)'
      BY DEF CallsMeanIt
    <3>2. CallMeans(d)
      BY <1>2 DEF CallsMeanIt
    <3>3. CASE d # c
      BY <2>c, <2>f, <3>2, <3>3 DEF CallMeans
    <3>4. CASE d = c
      <4>1. CASE s = "found"
        BY <2>a, <2>b, <2>c, <2>f, <3>4, <4>1 DEF CallMeans
      <4>2. CASE s = "check"
        BY <2>a, <2>b, <2>c, <2>f, <3>4, <4>2 DEF CallMeans
      <4>3. CASE s = "owner"
        <5>1. call[c].org \notin places =>
                maker'[call[c].org] = [op |-> "put", user |-> call[c].user]
          BY <2>b, <2>f, <4>3
        <5>2. call'[c].created => call[c].org \notin places
          BY <2>c
        <5>3. call'[c].stmt = "owner" /\ call'[c].op = "put" /\ call[c].op = "put"
          BY <2>b, <2>c, <4>3
        <5>. QED
          BY <2>a, <2>c, <2>f, <3>4, <5>1, <5>2, <5>3 DEF CallMeans
      <4>. QED
        BY <4>1, <4>2, <4>3
    <3>. QED
      BY <3>3, <3>4
  <2>3. RolesAreGiven'
    BY <1>1, <1>2, <1>5 DEF RolesAreGiven, ProvisionType, CallsMeanIt, CallMeans, CallRecord,
       Made, Provision!UpsertOrg, Provision!At, Provision!Goes, Provision!CallsBegin,
       Provision!Unused, Provision!Places, Provision!Everyone, Provision!Founder,
       Provision!Joiner, Provision!OrgRole
  <2>4. FoundersStand'
    <3>1. SUFFICES ASSUME NEW o \in places'
                   PROVE  /\ o \in Named /\ maker'[o].op # "put" =>
                               /\ maker'[o].user \in People
                               /\ member[o][maker'[o].user] = "owner" \/ Founding(o)'
                          /\ o = Workspace /\ maker'[o].op # "create" =>
                               member[o][System] = "owner" \/ Founding(o)'
      BY <2>f DEF FoundersStand
    <3>2. CASE o \in places
      <4>1. maker'[o] = maker[o]
        BY <2>f, <3>2
      <4>2. Founding(o) => Founding(o)'
        BY <2>a, <2>c, <2>f, <4>1 DEF Founding, Provision!Pending
      <4>. QED
        BY <1>2, <3>2, <4>1, <4>2 DEF FoundersStand
    <3>3. CASE o \notin places
      <4>1. o = call[c].org /\ maker'[o] = [op |-> call[c].op, user |-> call[c].user]
        BY <2>f, <3>1, <3>3
      <4>2. (o \in Named /\ call[c].op # "put") \/ o = Workspace => s = "found"
        BY <2>a, <2>b, <3>3, <4>1
      <4>3. s = "found" => Founding(o)'
        BY <2>c, <4>1 DEF Founding, Provision!Pending
      <4>. QED
        BY <2>a, <4>1, <4>2, <4>3
    <3>. QED
      BY <3>2, <3>3
  <2>5. RefusalIsFounded'
    BY <1>1, <1>2, <1>5 DEF RefusalIsFounded, FoundersStand, Founding, Provision!Pending,
       ProvisionType, CallsMeanIt, CallMeans, CallRecord, Made, Provision!UpsertOrg,
       Provision!At, Provision!Goes, Provision!CallsBegin, Provision!Unused,
       Provision!Places, Provision!Everyone, Provision!Founder, Provision!Joiner,
       Provision!OrgRole
  <2>6. JoinsAreTold'
    BY <1>2, <2>a, <2>c, <2>f, JoinsGoOn
  <2>7. SuspensionsAreTold'
    BY <1>2, <2>a, <2>c, <2>f, DebtsStay
  <2>. QED
    BY <2>1, <2>2, <2>3, <2>4, <2>5, <2>6, <2>7 DEF ProvisionInv
<1>6. ASSUME NEW c \in Calls, Provision!InsertOwner(c)
     PROVE  ProvisionInv'
  <2>a. /\ call[c].stmt = "found" /\ call[c] \in CallRecord
        /\ call[c].op \in {"put", "create"} /\ call[c].org \in Provision!Places \cap places
        /\ call[c].op = "put" => call[c].org = Workspace /\ Provision!Founder(call[c]) = System
        /\ call[c].op = "create" => /\ call[c].user \in People
                                   /\ Provision!Founder(call[c]) = call[c].user
        /\ call[c].user \in People \cup {None}
        /\ Provision!Founder(call[c]) \in Provision!Everyone
        /\ maker[call[c].org] = [op |-> call[c].op, user |-> call[c].user]
    <3>1. call[c].stmt = "found"
      BY <1>6 DEF Provision!InsertOwner, Provision!At
    <3>2. call[c] \in CallRecord
      BY <1>2, <3>1 DEF ProvisionType, Provision!Unused
    <3>3. CallMeans(c)
      BY <1>2 DEF CallsMeanIt
    <3>. QED
      BY <3>1, <3>2, <3>3 DEF CallMeans, Provision!Founder, Provision!Joiner, Provision!Everyone
  <2>b. PICK s \in {"founded", "owner", "idle"} :
          /\ Provision!Goes(c, s)
          /\ s = "founded" <=> member[call[c].org][Provision!Founder(call[c])] = None
          /\ s = "owner" => call[c].op = "put"
          /\ s = "idle" => call[c].op = "create"
    BY <1>6, <2>a DEF Provision!InsertOwner
  <2>c. /\ call' \in [Calls -> CallRecord \cup {Provision!Unused}]
        /\ \A d \in Calls \ {c} : call'[d] = call[d]
        /\ s = "idle" => call'[c].stmt = "idle"
        /\ s # "idle" => /\ call'[c] \in CallRecord
                        /\ call'[c].stmt = s /\ call'[c].op = call[c].op
                        /\ call'[c].org = call[c].org /\ call'[c].user = call[c].user
                        /\ call'[c].created = call[c].created /\ call'[c].todo = call[c].todo
    BY <1>2, <2>a, <2>b, GoesOn DEF Stmts, Provision!Unused
  <2>d. /\ member' \in [Provision!Places -> [Provision!Everyone -> Provision!OrgRole \cup {None}]]
        /\ member'[call[c].org][Provision!Founder(call[c])]
             = IF member[call[c].org][Provision!Founder(call[c])] = None THEN "owner"
               ELSE member[call[c].org][Provision!Founder(call[c])]
        /\ \A p \in Provision!Places, v \in Provision!Everyone :
             p # call[c].org \/ v # Provision!Founder(call[c]) => member'[p][v] = member[p][v]
    <3>1. Provision!Enrol(call[c].org, Provision!Founder(call[c]), "owner")
      BY <1>6 DEF Provision!InsertOwner
    <3>. QED
      BY <1>2, <2>a, <3>1, Enrolled DEF Provision!OrgRole
  <2>e. call[c].op = "put" \/ call[c].org \in Named =>
          member'[call[c].org][Provision!Founder(call[c])] = "owner"
    BY <1>1, <1>2, <2>a, <2>d DEF RolesAreGiven
  <2>f. \A p \in Provision!Places, v \in Provision!Everyone : member[p][v] # None => member'[p][v] # None
    BY <2>a, <2>d
  <2>1. ProvisionType'
    BY <1>1, <1>2, <1>6, <2>a, <2>b, <2>c, <2>d, <2>e DEF ProvisionType,
       Provision!InsertOwner, Provision!At, Provision!Unused, Provision!Places,
       Provision!Everyone, Provision!Founder, Provision!Joiner
  <2>2. CallsMeanIt'
    <3>1. SUFFICES ASSUME NEW d \in Calls PROVE CallMeans(d)'
      BY DEF CallsMeanIt
    <3>2. CASE d # c
      BY <1>2, <1>6, <2>c, <2>f, <3>2, OthersMean DEF CallsMeanIt, Provision!InsertOwner
    <3>3. CASE d = c
      <4>1. places' = places /\ maker' = maker
        BY <1>6 DEF Provision!InsertOwner
      <4>. QED
        BY <2>a, <2>b, <2>c, <3>3, <4>1 DEF CallMeans
    <3>. QED
      BY <3>2, <3>3
  <2>3. RolesAreGiven'
    <3>1. places' = places /\ maker' = maker
      BY <1>6 DEF Provision!InsertOwner
    <3>2. \A p \in Provision!Places \ places, v \in Provision!Everyone : member'[p][v] = None
      BY <1>2, <2>a, <2>d DEF RolesAreGiven
    <3>3. \A p \in Named, v \in People : member'[p][v] # None =>
             maker[p].user = v /\ (maker[p].op # "put" => member'[p][v] = "owner")
      <4>1. SUFFICES ASSUME NEW p \in Named, NEW v \in People, member'[p][v] # None
                     PROVE  maker[p].user = v /\ (maker[p].op # "put" => member'[p][v] = "owner")
        OBVIOUS
      <4>2. p \in Provision!Places /\ v \in Provision!Everyone
        BY DEF Provision!Places, Provision!Everyone
      <4>3. CASE p = call[c].org /\ v = Provision!Founder(call[c])
        BY <1>1, <2>a, <2>e, <4>3
      <4>4. CASE ~(p = call[c].org /\ v = Provision!Founder(call[c]))
        BY <1>2, <2>d, <4>1, <4>2, <4>4 DEF RolesAreGiven
      <4>. QED
        BY <4>3, <4>4
    <3>4. member'[Workspace][System] \in {None, "owner"}
      BY <1>2, <2>a, <2>d DEF RolesAreGiven, Provision!Places, Provision!Everyone
    <3>. QED
      BY <1>2, <3>1, <3>2, <3>3, <3>4 DEF RolesAreGiven
  <2>4. FoundersStand'
    <3>1. SUFFICES ASSUME NEW o \in places
                   PROVE  /\ o \in Named /\ maker[o].op # "put" =>
                               /\ maker[o].user \in People
                               /\ member'[o][maker[o].user] = "owner" \/ Founding(o)'
                          /\ o = Workspace /\ maker[o].op # "create" =>
                               member'[o][System] = "owner" \/ Founding(o)'
      BY <1>6 DEF FoundersStand, Provision!InsertOwner
    <3>2. o \in Provision!Places
      BY <1>2 DEF ProvisionType
    <3>3. CASE o = call[c].org
      BY <1>1, <2>a, <2>e, <3>3
    <3>4. CASE o # call[c].org
      <4>1. Founding(o) => Founding(o)'
        BY <1>6, <2>c, <3>4, FoundingStays DEF Provision!InsertOwner
      <4>2. \A u \in Provision!Everyone : member'[o][u] = member[o][u]
        BY <2>d, <3>2, <3>4
      <4>. QED
        BY <1>2, <4>1, <4>2 DEF FoundersStand, Provision!Everyone
    <3>. QED
      BY <3>3, <3>4
  <2>5. RefusalIsFounded'
    <3>1. /\ suspended' = suspended /\ maker' = maker /\ cut' = cut
          /\ s # "idle" => answer' = answer
          /\ s = "idle" => answer' = [ok |-> TRUE, org |-> call[c].org, user |-> call[c].user]
      BY <1>6, <2>a, <2>b DEF Provision!InsertOwner
    <3>2. SUFFICES ASSUME answer' = answer, s # "idle", answer # None, ~answer.ok,
    answer.org \in Named,
                          suspended = {},
                          maker[answer.org] = [op |-> "create", user |-> answer.user],
                          NEW d \in Calls, call[d].stmt \in {"found", "founded"},
                          call[d].org = answer.org, call[d].user = answer.user
                   PROVE  /\ call'[d].stmt \in {"found", "founded"}
                          /\ call'[d].org = answer.org /\ call'[d].user = answer.user
      BY <1>2, <3>1 DEF RefusalIsFounded
    <3>. QED
      BY <1>1, <2>a, <2>b, <2>c, <3>2
  <2>6. JoinsAreTold'
    <3>1. SUFFICES ASSUME NEW o \in Provision!Places, NEW u \in Provision!Everyone,
    member'[o][u] # None
                   PROVE  <<"member", o, u>> \in trail \/ ToBeTold(o, u)'
      BY <1>6 DEF JoinsAreTold, Provision!InsertOwner
    <3>2. CASE member[o][u] # None
      BY <1>2, <1>6, <2>a, <2>c, <3>2, StillToBeTold DEF JoinsAreTold, Provision!InsertOwner
    <3>3. CASE member[o][u] = None
      <4>1. o = call[c].org /\ u = Provision!Founder(call[c]) /\ s = "founded"
        BY <2>b, <2>d, <3>1, <3>3
      <4>. QED
        BY <2>c, <4>1 DEF ToBeTold, Provision!Founder
    <3>. QED
      BY <3>2, <3>3
  <2>7. SuspensionsAreTold'
    BY <1>2, <1>6, <2>a, <2>c, <2>f, DebtsStay DEF Provision!InsertOwner
  <2>. QED
    BY <2>1, <2>2, <2>3, <2>4, <2>5, <2>6, <2>7 DEF ProvisionInv
<1>7. ASSUME NEW c \in Calls, Provision!AuditOwner(c)
     PROVE  ProvisionInv'
  <2>a. /\ call[c].stmt = "founded" /\ call[c] \in CallRecord
        /\ call[c].op \in {"put", "create"} /\ call[c].org \in Provision!Places \cap places
        /\ call[c].op = "put" => call[c].org = Workspace
        /\ call[c].op = "create" => call[c].user \in People
        /\ maker[call[c].org] = [op |-> call[c].op, user |-> call[c].user]
        /\ call[c].user \in People \cup {None}
    <3>1. call[c].stmt = "founded"
      BY <1>7 DEF Provision!AuditOwner, Provision!At
    <3>2. call[c] \in CallRecord
      BY <1>2, <3>1 DEF ProvisionType, Provision!Unused
    <3>3. CallMeans(c)
      BY <1>2 DEF CallsMeanIt
    <3>. QED
      BY <3>1, <3>2, <3>3 DEF CallMeans, Provision!Founder, Provision!Joiner, Provision!Everyone
  <2>b. PICK s \in {"owner", "idle"} :
          Provision!Goes(c, s) /\ (s = "owner" <=> call[c].op = "put")
    BY <1>7, <2>a DEF Provision!AuditOwner
  <2>c. /\ call' \in [Calls -> CallRecord \cup {Provision!Unused}]
        /\ \A d \in Calls \ {c} : call'[d] = call[d]
        /\ s = "idle" => call'[c].stmt = "idle"
        /\ s # "idle" => /\ call'[c] \in CallRecord
                        /\ call'[c].stmt = s /\ call'[c].op = call[c].op
                        /\ call'[c].org = call[c].org /\ call'[c].user = call[c].user
                        /\ call'[c].created = call[c].created /\ call'[c].todo = call[c].todo
    BY <1>2, <2>a, <2>b, GoesOn DEF Stmts, Provision!Unused
  <2>f. /\ places' = places /\ member' = member /\ maker' = maker /\ suspended' = suspended
        /\ cut' = cut /\ trail \subseteq trail' /\ owed' = owed
        /\ call[c].op = "put" => answer' = answer
        /\ call[c].op = "create" => answer'.ok = TRUE
    BY <1>7, <2>a DEF Provision!AuditOwner
  <2>1. ProvisionType'
    BY <1>1, <1>2, <1>7, <2>a, <2>b, <2>c DEF ProvisionType, Provision!AuditOwner,
       Provision!At, Provision!Unused, Provision!Places, Provision!Everyone,
       Provision!Founder, Provision!Joiner
  <2>2. CallsMeanIt'
    <3>1. SUFFICES ASSUME NEW d \in Calls PROVE CallMeans(d)'
      BY DEF CallsMeanIt
    <3>2. CASE d # c
      BY <1>2, <1>7, <2>c, <3>2, OthersMean DEF CallsMeanIt, Provision!AuditOwner
    <3>3. CASE d = c
      <4>1. places' = places /\ maker' = maker
        BY <1>7 DEF Provision!AuditOwner
      <4>. QED
        BY <2>a, <2>b, <2>c, <3>3, <4>1 DEF CallMeans
    <3>. QED
      BY <3>2, <3>3
  <2>3. RolesAreGiven'
    BY <1>2, <2>f DEF RolesAreGiven
  <2>4. FoundersStand'
    BY <1>2, <2>a, <2>c, <2>f, FoundersGoOn
  <2>5. RefusalIsFounded'
    <3>1. SUFFICES ASSUME answer' # None, ~answer'.ok, answer'.org \in Named, suspended' = {},
                          maker'[answer'.org] = [op |-> "create", user |-> answer'.user]
                   PROVE  \/ \E d \in Calls : /\ call'[d].stmt \in {"found", "founded"}
                                              /\ call'[d].org = answer'.org
                                              /\ call'[d].user = answer'.user
                          \/ <<"found", answer'.org, answer'.user>> \in cut'
      BY DEF RefusalIsFounded
    <3>2. /\ answer' = answer /\ call[c].org = Workspace
      BY <2>a, <2>f, <3>1
    <3>3. \/ \E d \in Calls : /\ call[d].stmt \in {"found", "founded"}
                              /\ call[d].org = answer.org /\ call[d].user = answer.user
          \/ <<"found", answer.org, answer.user>> \in cut
      BY <1>2, <2>f, <3>1, <3>2 DEF RefusalIsFounded
    <3>. QED
      BY <1>1, <2>c, <2>f, <3>1, <3>2, <3>3
  <2>6. JoinsAreTold'
    <3>1. SUFFICES ASSUME NEW o \in Provision!Places, NEW u \in Provision!Everyone,
    member[o][u] # None,
                          <<"member", o, u>> \notin trail'
                   PROVE  ToBeTold(o, u)'
      BY <1>7 DEF JoinsAreTold, Provision!AuditOwner
    <3>2. /\ <<"member", o, u>> \notin trail
          /\ ~(call[c].org = o /\ Provision!Founder(call[c]) = u)
      BY <1>7, <3>1 DEF Provision!AuditOwner
    <3>. QED
      BY <1>2, <1>7, <2>a, <2>c, <3>1, <3>2, StillToBeTold DEF JoinsAreTold,
         Provision!AuditOwner
  <2>7. SuspensionsAreTold'
    BY <1>2, <2>a, <2>c, <2>f, DebtsStay
  <2>. QED
    BY <2>1, <2>2, <2>3, <2>4, <2>5, <2>6, <2>7 DEF ProvisionInv
<1>8. ASSUME NEW c \in Calls, Provision!CheckOwner(c)
     PROVE  ProvisionInv'
  <2>a. /\ call[c].stmt = "check" /\ call[c] \in CallRecord
    <3>1. call[c].stmt = "check"
      BY <1>8 DEF Provision!CheckOwner, Provision!At
    <3>. QED
      BY <1>2, <3>1 DEF ProvisionType, Provision!Unused
  <2>c. /\ call' \in [Calls -> CallRecord \cup {Provision!Unused}]
        /\ \A d \in Calls \ {c} : call'[d] = call[d]
        /\ call'[c] = Provision!Unused
    <3>1. Provision!Goes(c, "idle")
      BY <1>8 DEF Provision!CheckOwner
    <3>. QED
      BY <1>2, <2>a, <3>1, GoesOn
  <2>f. /\ places' = places /\ member' = member /\ maker' = maker
        /\ cut' = cut /\ trail' = trail /\ owed' = owed
    BY <1>8 DEF Provision!CheckOwner
  <2>1. ProvisionType'
    BY <1>1, <1>2, <1>8 DEF ProvisionType, CallsMeanIt, CallMeans, CallRecord, Stmts, Made,
       Provision!CheckOwner, Provision!StandsAs, Provision!At, Provision!Goes,
       Provision!CallsBegin, Provision!Unused, Provision!Places, Provision!Everyone,
       Provision!Founder, Provision!Joiner, Provision!OrgRole
  <2>2. CallsMeanIt'
    <3>1. CallMeans(c)'
      BY <2>c DEF CallMeans, Provision!Unused
    <3>. QED
      BY <1>2, <2>c, <2>f, <3>1, CallsGoOn
  <2>3. RolesAreGiven'
    BY <1>2, <2>f DEF RolesAreGiven
  <2>4. FoundersStand'
    BY <1>2, <2>a, <2>c, <2>f, FoundersGoOn
  <2>5. RefusalIsFounded'
    <3>1. /\ call[c].stmt = "check" /\ call[c].op = "create"
          /\ call[c].org \in places /\ call[c].user \in People
      BY <1>2, <1>8 DEF CallsMeanIt, CallMeans, Provision!CheckOwner, Provision!At
    <3>2. /\ suspended' = suspended /\ maker' = maker /\ cut' = cut
          /\ answer' = [ok |-> Provision!StandsAs(call[c].org, call[c].user) = "owner",
                        org |-> call[c].org, user |-> call[c].user]
          /\ \A d \in Calls \ {c} : call'[d] = call[d]
      BY <1>2, <1>8 DEF Provision!CheckOwner, Provision!Goes, ProvisionType
    <3>3. SUFFICES ASSUME Provision!StandsAs(call[c].org, call[c].user) # "owner",
    suspended = {},
                          call[c].org \in Named,
                          maker[call[c].org] = [op |-> "create", user |-> call[c].user]
                   PROVE  \/ \E d \in Calls : /\ call'[d].stmt \in {"found", "founded"}
                                              /\ call'[d].org = call[c].org /\ call'[d].user = call[c].user
                          \/ <<"found", call[c].org, call[c].user>> \in cut
      BY <3>2 DEF RefusalIsFounded
    <3>4. Founding(call[c].org)
      BY <1>2, <3>1, <3>3 DEF FoundersStand, Provision!StandsAs
    <3>. QED
      BY <3>1, <3>2, <3>3, <3>4 DEF Founding, Provision!Pending
  <2>6. JoinsAreTold'
    BY <1>2, <2>a, <2>c, <2>f, JoinsGoOn
  <2>7. SuspensionsAreTold'
    BY <1>2, <2>a, <2>c, <2>f, DebtsStay
  <2>. QED
    BY <2>1, <2>2, <2>3, <2>4, <2>5, <2>6, <2>7 DEF ProvisionInv
<1>9. ASSUME NEW c \in Calls, Provision!ResolveOwner(c)
     PROVE  ProvisionInv'
  <2>a. /\ call[c].stmt = "owner" /\ call[c] \in CallRecord
        /\ call[c].op = "put" /\ call[c].org \in Provision!Places \cap places
        /\ call[c].user \in People \cup {None}
    <3>1. call[c].stmt = "owner"
      BY <1>9 DEF Provision!ResolveOwner, Provision!At
    <3>2. call[c] \in CallRecord
      BY <1>2, <3>1 DEF ProvisionType, Provision!Unused
    <3>3. CallMeans(c)
      BY <1>2 DEF CallsMeanIt
    <3>. QED
      BY <3>1, <3>2, <3>3 DEF CallMeans, Provision!Founder, Provision!Joiner, Provision!Everyone
  <2>b. PICK s \in {"idle", "join", "standing"} :
          /\ Provision!Goes(c, s)
          /\ s = "standing" => call[c].user # None
          /\ s = "join" => /\ call[c].org = Workspace => call[c].user # None
                           /\ call[c].org \in Named /\ call[c].user # None => call[c].created
    BY <1>1, <1>9, <2>a DEF Provision!ResolveOwner
  <2>c. /\ call' \in [Calls -> CallRecord \cup {Provision!Unused}]
        /\ \A d \in Calls \ {c} : call'[d] = call[d]
        /\ s = "idle" => call'[c].stmt = "idle"
        /\ s # "idle" => /\ call'[c] \in CallRecord
                        /\ call'[c].stmt = s /\ call'[c].op = call[c].op
                        /\ call'[c].org = call[c].org /\ call'[c].user = call[c].user
                        /\ call'[c].created = call[c].created /\ call'[c].todo = call[c].todo
    BY <1>2, <2>a, <2>b, GoesOn DEF Stmts, Provision!Unused
  <2>f. /\ places' = places /\ member' = member /\ maker' = maker /\ suspended' = suspended
        /\ cut' = cut /\ trail' = trail /\ owed' = owed /\ answer' = answer
    BY <1>9 DEF Provision!ResolveOwner
  <2>1. ProvisionType'
    BY <1>1, <1>2, <1>9, <2>a, <2>b, <2>c DEF ProvisionType, Provision!ResolveOwner,
       Provision!At, Provision!Unused, Provision!Places, Provision!Everyone,
       Provision!Founder, Provision!Joiner
  <2>2. CallsMeanIt'
    <3>1. call[c].created => maker[call[c].org] = [op |-> "put", user |-> call[c].user]
      BY <1>2, <2>a DEF CallsMeanIt, CallMeans
    <3>2. CallMeans(c)'
      BY <2>a, <2>b, <2>c, <2>f, <3>1 DEF CallMeans
    <3>. QED
      BY <1>2, <2>c, <2>f, <3>2, CallsGoOn
  <2>3. RolesAreGiven'
    BY <1>2, <2>f DEF RolesAreGiven
  <2>4. FoundersStand'
    BY <1>2, <2>a, <2>c, <2>f, FoundersGoOn
  <2>5. RefusalIsFounded'
    BY <1>2, <2>a, <2>c, <2>f, RefusalGoesOn
  <2>6. JoinsAreTold'
    BY <1>2, <2>a, <2>c, <2>f, JoinsGoOn
  <2>7. SuspensionsAreTold'
    BY <1>2, <2>a, <2>c, <2>f, DebtsStay
  <2>. QED
    BY <2>1, <2>2, <2>3, <2>4, <2>5, <2>6, <2>7 DEF ProvisionInv
<1>10. ASSUME NEW c \in Calls, Provision!CheckStanding(c)
     PROVE  ProvisionInv'
  <2>a. /\ call[c].stmt = "standing" /\ call[c] \in CallRecord
        /\ call[c].op = "put" /\ call[c].org \in Provision!Places \cap places
        /\ call[c].user \in People
    <3>1. call[c].stmt = "standing"
      BY <1>10 DEF Provision!CheckStanding, Provision!At
    <3>2. call[c] \in CallRecord
      BY <1>2, <3>1 DEF ProvisionType, Provision!Unused
    <3>3. CallMeans(c)
      BY <1>2 DEF CallsMeanIt
    <3>. QED
      BY <3>1, <3>2, <3>3 DEF CallMeans, Provision!Founder, Provision!Joiner, Provision!Everyone
  <2>b. PICK s \in {"idle", "join"} :
          /\ Provision!Goes(c, s)
          /\ s = "join" => member[call[c].org][call[c].user] # None
    BY <1>10, <2>a DEF Provision!CheckStanding, Provision!StandsAs
  <2>c. /\ call' \in [Calls -> CallRecord \cup {Provision!Unused}]
        /\ \A d \in Calls \ {c} : call'[d] = call[d]
        /\ s = "idle" => call'[c].stmt = "idle"
        /\ s # "idle" => /\ call'[c] \in CallRecord
                        /\ call'[c].stmt = s /\ call'[c].op = call[c].op
                        /\ call'[c].org = call[c].org /\ call'[c].user = call[c].user
                        /\ call'[c].created = call[c].created /\ call'[c].todo = call[c].todo
    BY <1>2, <2>a, <2>b, GoesOn DEF Stmts, Provision!Unused
  <2>f. /\ places' = places /\ member' = member /\ maker' = maker /\ suspended' = suspended
        /\ cut' = cut /\ trail' = trail /\ owed' = owed /\ answer' = answer
    BY <1>10 DEF Provision!CheckStanding
  <2>1. ProvisionType'
    BY <1>1, <1>2, <1>10, <2>a, <2>b, <2>c DEF ProvisionType, Provision!CheckStanding,
       Provision!At, Provision!Unused, Provision!Places, Provision!Everyone,
       Provision!Founder, Provision!Joiner
  <2>2. CallsMeanIt'
    <3>1. call[c].org \in Named /\ member[call[c].org][call[c].user] # None =>
            maker[call[c].org].user = call[c].user
      BY <1>2, <2>a DEF RolesAreGiven
    <3>2. call[c].user # None
      BY <1>2, <2>a DEF CallsMeanIt, CallMeans
    <3>3. CallMeans(c)'
      BY <2>a, <2>b, <2>c, <2>f, <3>1, <3>2 DEF CallMeans
    <3>. QED
      BY <1>2, <2>c, <2>f, <3>3, CallsGoOn
  <2>3. RolesAreGiven'
    BY <1>2, <2>f DEF RolesAreGiven
  <2>4. FoundersStand'
    BY <1>2, <2>a, <2>c, <2>f, FoundersGoOn
  <2>5. RefusalIsFounded'
    BY <1>2, <2>a, <2>c, <2>f, RefusalGoesOn
  <2>6. JoinsAreTold'
    BY <1>2, <2>a, <2>c, <2>f, JoinsGoOn
  <2>7. SuspensionsAreTold'
    BY <1>2, <2>a, <2>c, <2>f, DebtsStay
  <2>. QED
    BY <2>1, <2>2, <2>3, <2>4, <2>5, <2>6, <2>7 DEF ProvisionInv
<1>11. ASSUME NEW c \in Calls, Provision!Join(c)
     PROVE  ProvisionInv'
  <2>a. /\ call[c].stmt = "join" /\ call[c] \in CallRecord
        /\ call[c].op = "put" /\ call[c].org \in Provision!Places \cap places
        /\ call[c].user \in People \cup {None}
        /\ Provision!Joiner(call[c]) = (IF call[c].user = None THEN System ELSE call[c].user)
        /\ Provision!Joiner(call[c]) \in Provision!Everyone
        /\ call[c].org = Workspace => call[c].user # None
        /\ call[c].org \in Named /\ call[c].user # None =>
             /\ maker[call[c].org].user = call[c].user
             /\ maker[call[c].org].op = "put" \/ member[call[c].org][call[c].user] # None
    <3>1. call[c].stmt = "join"
      BY <1>11 DEF Provision!Join, Provision!At
    <3>2. call[c] \in CallRecord
      BY <1>2, <3>1 DEF ProvisionType, Provision!Unused
    <3>3. CallMeans(c)
      BY <1>2 DEF CallsMeanIt
    <3>. QED
      BY <3>1, <3>2, <3>3 DEF CallMeans, Provision!Founder, Provision!Joiner, Provision!Everyone
  <2>b. PICK s \in {"joined", "idle"} :
          Provision!Goes(c,
          s) /\ (s = "joined" <=> member[call[c].org][Provision!Joiner(call[c])] = None)
    BY <1>11, <2>a DEF Provision!Join
  <2>c. /\ call' \in [Calls -> CallRecord \cup {Provision!Unused}]
        /\ \A d \in Calls \ {c} : call'[d] = call[d]
        /\ s = "idle" => call'[c].stmt = "idle"
        /\ s # "idle" => /\ call'[c] \in CallRecord
                        /\ call'[c].stmt = s /\ call'[c].op = call[c].op
                        /\ call'[c].org = call[c].org /\ call'[c].user = call[c].user
                        /\ call'[c].created = call[c].created /\ call'[c].todo = call[c].todo
    BY <1>2, <2>a, <2>b, GoesOn DEF Stmts, Provision!Unused
  <2>d. /\ member' \in [Provision!Places -> [Provision!Everyone -> Provision!OrgRole \cup {None}]]
        /\ member'[call[c].org][Provision!Joiner(call[c])]
             = IF member[call[c].org][Provision!Joiner(call[c])] = None THEN "member"
               ELSE member[call[c].org][Provision!Joiner(call[c])]
        /\ \A p \in Provision!Places, v \in Provision!Everyone :
             p # call[c].org \/ v # Provision!Joiner(call[c]) => member'[p][v] = member[p][v]
    <3>1. Provision!Enrol(call[c].org, Provision!Joiner(call[c]), "member")
      BY <1>11 DEF Provision!Join
    <3>. QED
      BY <1>2, <2>a, <3>1, Enrolled DEF Provision!OrgRole
  <2>f. \A p \in Provision!Places, v \in Provision!Everyone : member[p][v] # None => member'[p][v] # None
    BY <2>a, <2>d
  <2>1. ProvisionType'
    BY <1>1, <1>2, <1>11, <2>a, <2>b, <2>c, <2>d DEF ProvisionType, Provision!Join,
       Provision!At, Provision!Unused, Provision!Places, Provision!Everyone,
       Provision!Founder, Provision!Joiner
  <2>2. CallsMeanIt'
    <3>1. places' = places /\ maker' = maker
      BY <1>11 DEF Provision!Join
    <3>2. SUFFICES ASSUME NEW d \in Calls PROVE CallMeans(d)'
      BY DEF CallsMeanIt
    <3>3. CASE d # c
      BY <1>2, <2>c, <2>f, <3>1, <3>3, OthersMean DEF CallsMeanIt
    <3>4. CASE d = c
      BY <2>a, <2>b, <2>c, <3>1, <3>4 DEF CallMeans
    <3>. QED
      BY <3>3, <3>4
  <2>3. RolesAreGiven'
    BY <1>1, <1>2, <1>11, <2>a, <2>b, <2>c, <2>d DEF RolesAreGiven, ProvisionType, Made,
       Provision!Join, Provision!At, Provision!Unused, Provision!Places, Provision!Everyone,
       Provision!Founder, Provision!Joiner
  <2>4. FoundersStand'
    <3>1. /\ places' = places /\ maker' = maker /\ cut' = cut
      BY <1>11 DEF Provision!Join
    <3>2. \A o : Founding(o) => Founding(o)'
      BY <2>a, <2>c, <3>1, FoundingStays
    <3>3. \A p \in Provision!Places, v \in Provision!Everyone :
            member[p][v] = "owner" => member'[p][v] = "owner"
      BY <1>1, <2>a, <2>d DEF Provision!OrgRole
    <3>4. places \subseteq Provision!Places /\ (\A u \in People : u \in Provision!Everyone)
          /\ System \in Provision!Everyone
      BY <1>2 DEF ProvisionType, Provision!Everyone
    <3>. QED
      BY <1>2, <3>1, <3>2, <3>3, <3>4 DEF FoundersStand
  <2>5. RefusalIsFounded'
    <3>1. /\ answer' = answer /\ suspended' = suspended /\ maker' = maker /\ cut' = cut
      BY <1>11 DEF Provision!Join
    <3>. QED
      BY <1>2, <2>a, <2>c, <3>1, RefusalGoesOn
  <2>6. JoinsAreTold'
    <3>1. SUFFICES ASSUME NEW o \in Provision!Places, NEW u \in Provision!Everyone,
    member'[o][u] # None
                   PROVE  <<"member", o, u>> \in trail \/ ToBeTold(o, u)'
      BY <1>11 DEF JoinsAreTold, Provision!Join
    <3>2. CASE member[o][u] # None
      BY <1>2, <1>11, <2>a, <2>c, <3>2, StillToBeTold DEF JoinsAreTold, Provision!Join
    <3>3. CASE member[o][u] = None
      <4>1. o = call[c].org /\ u = Provision!Joiner(call[c]) /\ s = "joined"
        BY <2>b, <2>d, <3>1, <3>3
      <4>. QED
        BY <2>c, <4>1 DEF ToBeTold, Provision!Joiner
    <3>. QED
      BY <3>2, <3>3
  <2>7. SuspensionsAreTold'
    BY <1>2, <1>11, <2>a, <2>c, <2>f, DebtsStay DEF Provision!Join
  <2>. QED
    BY <2>1, <2>2, <2>3, <2>4, <2>5, <2>6, <2>7 DEF ProvisionInv
<1>12. ASSUME NEW c \in Calls, Provision!AuditJoin(c)
     PROVE  ProvisionInv'
  <2>a. /\ call[c].stmt = "joined" /\ call[c] \in CallRecord
        /\ call[c].org \in Provision!Places
    <3>1. call[c].stmt = "joined"
      BY <1>12 DEF Provision!AuditJoin, Provision!At
    <3>2. call[c] \in CallRecord
      BY <1>2, <3>1 DEF ProvisionType, Provision!Unused
    <3>3. CallMeans(c)
      BY <1>2 DEF CallsMeanIt
    <3>. QED
      BY <3>1, <3>2, <3>3 DEF CallMeans, Provision!Founder, Provision!Joiner, Provision!Everyone
  <2>b. PICK s \in {"idle"} :
          Provision!Goes(c, s)
    BY <1>12, <2>a DEF Provision!AuditJoin
  <2>c. /\ call' \in [Calls -> CallRecord \cup {Provision!Unused}]
        /\ \A d \in Calls \ {c} : call'[d] = call[d]
        /\ s = "idle" => call'[c].stmt = "idle"
        /\ s # "idle" => /\ call'[c] \in CallRecord
                        /\ call'[c].stmt = s /\ call'[c].op = call[c].op
                        /\ call'[c].org = call[c].org /\ call'[c].user = call[c].user
                        /\ call'[c].created = call[c].created /\ call'[c].todo = call[c].todo
    BY <1>2, <2>a, <2>b, GoesOn DEF Stmts, Provision!Unused
  <2>f. /\ places' = places /\ member' = member /\ maker' = maker /\ suspended' = suspended
        /\ cut' = cut /\ trail \subseteq trail' /\ owed' = owed /\ answer' = answer
    BY <1>12 DEF Provision!AuditJoin
  <2>1. ProvisionType'
    BY <1>1, <1>2, <1>12 DEF ProvisionType, CallsMeanIt, CallMeans, CallRecord, Stmts, Made,
       Provision!AuditJoin, Provision!At, Provision!Goes, Provision!CallsBegin,
       Provision!Unused, Provision!Places, Provision!Everyone, Provision!Founder,
       Provision!Joiner, Provision!OrgRole
  <2>2. CallsMeanIt'
    <3>1. CallMeans(c)'
      BY <2>b, <2>c DEF CallMeans
    <3>. QED
      BY <1>2, <2>c, <2>f, <3>1, CallsGoOn
  <2>3. RolesAreGiven'
    BY <1>2, <2>f DEF RolesAreGiven
  <2>4. FoundersStand'
    BY <1>2, <2>a, <2>c, <2>f, FoundersGoOn
  <2>5. RefusalIsFounded'
    BY <1>2, <2>a, <2>c, <2>f, RefusalGoesOn
  <2>6. JoinsAreTold'
    <3>1. SUFFICES ASSUME NEW o \in Provision!Places, NEW u \in Provision!Everyone,
    member[o][u] # None,
                          <<"member", o, u>> \notin trail'
                   PROVE  ToBeTold(o, u)'
      BY <1>12 DEF JoinsAreTold, Provision!AuditJoin
    <3>2. /\ <<"member", o, u>> \notin trail
          /\ ~(call[c].org = o /\ Provision!Joiner(call[c]) = u)
      BY <1>12, <3>1 DEF Provision!AuditJoin
    <3>. QED
      BY <1>2, <1>12, <2>a, <2>c, <3>1, <3>2, StillToBeTold DEF JoinsAreTold,
         Provision!AuditJoin
  <2>7. SuspensionsAreTold'
    BY <1>2, <2>a, <2>c, <2>f, DebtsStay
  <2>. QED
    BY <2>1, <2>2, <2>3, <2>4, <2>5, <2>6, <2>7 DEF ProvisionInv
<1>13. ASSUME NEW c \in Calls, NEW x \in Suspendable, NEW op0 \in {"suspend", "restore"}, Provision!Switch(c, x, op0)
     PROVE  ProvisionInv'
  <2>a. /\ call[c].stmt = "idle"
        /\ x \in People \/ x \in places
        /\ call' = [call EXCEPT ![c] =
                       [op |-> op0, org |-> None, user |-> x,
                        stmt |-> IF x \in People THEN "concerned" ELSE "tell",
                        created |-> FALSE, todo |-> IF x \in People THEN {} ELSE {x}]]
    BY <1>13 DEF Provision!Switch, Provision!At
  <2>b. /\ call' \in [Calls -> CallRecord \cup {Provision!Unused}]
        /\ \A d \in Calls \ {c} : call'[d] = call[d]
        /\ call'[c].op = op0 /\ call'[c].user = x /\ call'[c].org = None
        /\ call'[c].stmt \in {"concerned", "tell"}
        /\ x \in People => call'[c].stmt = "concerned"
    <3>1. [op |-> op0, org |-> None, user |-> x,
           stmt |-> IF x \in People THEN "concerned" ELSE "tell",
           created |-> FALSE, todo |-> IF x \in People THEN {} ELSE {x}] \in CallRecord
      BY <1>1, <1>2, <2>a DEF CallRecord, Stmts, ProvisionType
    <3>. QED
      BY <1>2, <2>a, <3>1 DEF ProvisionType
  <2>f. /\ places' = places /\ member' = member /\ maker' = maker
        /\ cut' = cut /\ trail' = trail /\ answer' = None
    BY <1>13 DEF Provision!Switch
  <2>1. ProvisionType'
    BY <1>2, <1>13, <2>a, <2>b DEF ProvisionType, Provision!Switch, CallRecord, Stmts,
       Provision!Places
  <2>2. CallsMeanIt'
    <3>1. CallMeans(c)'
      BY <2>b DEF CallMeans
    <3>. QED
      BY <1>2, <2>b, <2>f, <3>1, CallsGoOn
  <2>3. RolesAreGiven'
    BY <1>2, <2>f DEF RolesAreGiven
  <2>4. FoundersStand'
    BY <1>2, <2>a, <2>b, <2>f, FoundersGoOn
  <2>5. RefusalIsFounded'
    BY <2>f DEF RefusalIsFounded
  <2>6. JoinsAreTold'
    BY <1>2, <2>a, <2>b, <2>f, JoinsGoOn
  <2>7. SuspensionsAreTold'
    <3>1. SUFFICES ASSUME NEW debt \in owed'
                   PROVE  /\ debt \in Provision!Places \X People /\ member[debt[1]][debt[2]] # None
                          /\ SuspensionTold(debt[1], debt[2])'
      BY <1>13 DEF SuspensionsAreTold, Provision!Switch
    <3>2. CASE debt \in owed
      <4>1. /\ debt \in Provision!Places \X People /\ member[debt[1]][debt[2]] # None
            /\ SuspensionTold(debt[1], debt[2])
        BY <1>2, <3>2 DEF SuspensionsAreTold
      <4>2. trail' = trail /\ cut' = cut
        BY <1>13 DEF Provision!Switch
      <4>. QED
        BY <2>a, <2>b, <4>1, <4>2 DEF SuspensionTold
    <3>3. CASE debt \notin owed
      <4>1. op0 = "suspend" /\ x \in People
        BY <1>13, <3>1, <3>3 DEF Provision!Switch
      <4>2. PICK o \in Provision!Places : member[o][x] # None /\ debt = <<o, x>>
        BY <1>13, <3>1, <3>3, <4>1 DEF Provision!Switch
      <4>. QED
        BY <2>b, <4>1, <4>2 DEF SuspensionTold
    <3>. QED
      BY <3>2, <3>3
  <2>. QED
    BY <2>1, <2>2, <2>3, <2>4, <2>5, <2>6, <2>7 DEF ProvisionInv
<1>14. ASSUME NEW c \in Calls, Provision!ReadConcerned(c)
     PROVE  ProvisionInv'
  <2>a. /\ call[c].stmt = "concerned" /\ call[c] \in CallRecord
        /\ \E todo \in SUBSET (Provision!Places \cup {None}) :
             /\ call' = [call EXCEPT ![c] = [call[c] EXCEPT !.stmt = "tell", !.todo = todo]]
             /\ \A o \in Provision!Places : member[o][call[c].user] # None => o \in todo
    <3>1. call[c].stmt = "concerned"
      BY <1>14 DEF Provision!ReadConcerned, Provision!At
    <3>2. call[c] \in CallRecord
      BY <1>2, <3>1 DEF ProvisionType, Provision!Unused
    <3>3. \E todo \in SUBSET (Provision!Places \cup {None}) :
             /\ call' = [call EXCEPT ![c] = [call[c] EXCEPT !.stmt = "tell", !.todo = todo]]
             /\ \A o \in Provision!Places : member[o][call[c].user] # None => o \in todo
      <4> DEFINE theirs == {o \in Provision!Places : member[o][call[c].user] # None}
                 todo == IF theirs = {} THEN {None} ELSE theirs
      <4>1. call' = [call EXCEPT ![c] = [call[c] EXCEPT !.stmt = "tell", !.todo = todo]]
        BY <1>14 DEF Provision!ReadConcerned
      <4>. QED
        BY <4>1
    <3>. QED
      BY <3>1, <3>2, <3>3
  <2>b. /\ call' \in [Calls -> CallRecord \cup {Provision!Unused}]
        /\ \A d \in Calls \ {c} : call'[d] = call[d]
        /\ call'[c].stmt = "tell" /\ call'[c].op = call[c].op /\ call'[c].user = call[c].user
        /\ call'[c].org = call[c].org
        /\ \A o \in Provision!Places : member[o][call[c].user] # None => o \in call'[c].todo
    <3>1. PICK todo \in SUBSET (Provision!Places \cup {None}) :
            /\ call' = [call EXCEPT ![c] = [call[c] EXCEPT !.stmt = "tell", !.todo = todo]]
            /\ \A o \in Provision!Places : member[o][call[c].user] # None => o \in todo
      BY <2>a
    <3>2. [call[c] EXCEPT !.stmt = "tell", !.todo = todo] \in CallRecord
      BY <2>a DEF CallRecord, Stmts
    <3>3. call'[c] = [call[c] EXCEPT !.stmt = "tell", !.todo = todo]
      BY <1>2, <3>1 DEF ProvisionType
    <3>4. /\ call' \in [Calls -> CallRecord \cup {Provision!Unused}]
          /\ \A d \in Calls \ {c} : call'[d] = call[d]
      BY <1>2, <3>1, <3>2 DEF ProvisionType
    <3>. QED
      BY <2>a, <3>1, <3>3, <3>4 DEF CallRecord
  <2>f. /\ places' = places /\ member' = member /\ maker' = maker /\ suspended' = suspended
        /\ cut' = cut /\ trail' = trail /\ owed' = owed /\ answer' = answer
    BY <1>14 DEF Provision!ReadConcerned
  <2>1. ProvisionType'
    BY <1>2, <1>14, <2>b DEF ProvisionType, Provision!ReadConcerned
  <2>2. CallsMeanIt'
    <3>1. call[c].op \in {"suspend", "restore"} /\ call[c].org = None
      BY <1>2, <2>a DEF CallsMeanIt, CallMeans
    <3>2. CallMeans(c)'
      BY <2>b, <3>1 DEF CallMeans
    <3>. QED
      BY <1>2, <2>b, <2>f, <3>2, CallsGoOn
  <2>3. RolesAreGiven'
    BY <1>2, <2>f DEF RolesAreGiven
  <2>4. FoundersStand'
    BY <1>2, <2>a, <2>b, <2>f, FoundersGoOn
  <2>5. RefusalIsFounded'
    BY <1>2, <2>a, <2>b, <2>f, RefusalGoesOn
  <2>6. JoinsAreTold'
    BY <1>2, <2>a, <2>b, <2>f, JoinsGoOn
  <2>7. SuspensionsAreTold'
    <3>1. SUFFICES ASSUME NEW debt \in owed
                   PROVE  /\ debt \in Provision!Places \X People /\ member[debt[1]][debt[2]] # None
                          /\ SuspensionTold(debt[1], debt[2])'
      BY <1>14 DEF SuspensionsAreTold, Provision!ReadConcerned
    <3>2. /\ debt \in Provision!Places \X People /\ member[debt[1]][debt[2]] # None
          /\ SuspensionTold(debt[1], debt[2])
      BY <1>2, <3>1 DEF SuspensionsAreTold
    <3>3. trail' = trail /\ cut' = cut
      BY <1>14 DEF Provision!ReadConcerned
    <3>. QED
      BY <2>a, <2>b, <3>2, <3>3 DEF SuspensionTold
  <2>. QED
    BY <2>1, <2>2, <2>3, <2>4, <2>5, <2>6, <2>7 DEF ProvisionInv
<1>15. ASSUME NEW c \in Calls, NEW o \in Provision!Places \cup {None}, Provision!Tell(c, o)
     PROVE  ProvisionInv'
  <2>a. /\ call[c].stmt = "tell" /\ call[c] \in CallRecord /\ o \in call[c].todo
        /\ call' = [call EXCEPT ![c] = IF call[c].todo = {o} THEN Provision!Unused
                                       ELSE [call[c] EXCEPT !.todo = call[c].todo \ {o}]]
        /\ trail' = trail \cup {<<call[c].op, o, call[c].user>>}
    <3>1. call[c].stmt = "tell"
      BY <1>15 DEF Provision!Tell, Provision!At
    <3>2. call[c] \in CallRecord
      BY <1>2, <3>1 DEF ProvisionType, Provision!Unused
    <3>3. /\ o \in call[c].todo
          /\ trail' = trail \cup {<<call[c].op, o, call[c].user>>}
      BY <1>15 DEF Provision!Tell
    <3>4. call' = [call EXCEPT ![c] = IF call[c].todo = {o} THEN Provision!Unused
                                     ELSE [call[c] EXCEPT !.todo = call[c].todo \ {o}]]
      BY <1>15 DEF Provision!Tell
    <3>. QED
      BY <3>1, <3>2, <3>3, <3>4
  <2>b. /\ call' \in [Calls -> CallRecord \cup {Provision!Unused}]
        /\ \A d \in Calls \ {c} : call'[d] = call[d]
        /\ \A p \in call[c].todo \ {o} :
             /\ call'[c].stmt = "tell" /\ call'[c].op = call[c].op /\ call'[c].user = call[c].user
             /\ p \in call'[c].todo
    BY <1>2, <2>a DEF ProvisionType, CallRecord
  <2>f. /\ places' = places /\ member' = member /\ maker' = maker /\ suspended' = suspended
        /\ cut' = cut /\ trail \subseteq trail' /\ owed' = owed /\ answer' = answer
    BY <1>15 DEF Provision!Tell
  <2>g. call[c].op \in {"suspend", "restore"} /\ call[c].org = None
    BY <1>2, <2>a DEF CallsMeanIt, CallMeans
  <2>1. ProvisionType'
    BY <1>2, <1>15, <2>b DEF ProvisionType, Provision!Tell
  <2>2. CallsMeanIt'
    <3>1. \/ call'[c] = Provision!Unused
          \/ call'[c].stmt = "tell" /\ call'[c].op = call[c].op /\ call'[c].org = call[c].org
      BY <1>2, <2>a DEF ProvisionType, CallRecord
    <3>2. CallMeans(c)'
      BY <2>g, <3>1 DEF CallMeans, Provision!Unused
    <3>. QED
      BY <1>2, <2>b, <2>f, <3>2, CallsGoOn
  <2>3. RolesAreGiven'
    BY <1>2, <2>f DEF RolesAreGiven
  <2>4. FoundersStand'
    BY <1>2, <2>a, <2>b, <2>f, FoundersGoOn
  <2>5. RefusalIsFounded'
    BY <1>2, <2>a, <2>b, <2>f, RefusalGoesOn
  <2>6. JoinsAreTold'
    BY <1>2, <2>a, <2>b, <2>f, JoinsGoOn
  <2>7. SuspensionsAreTold'
    <3>1. SUFFICES ASSUME NEW debt \in owed
                   PROVE  /\ debt \in Provision!Places \X People /\ member[debt[1]][debt[2]] # None
                          /\ SuspensionTold(debt[1], debt[2])'
      BY <1>15 DEF SuspensionsAreTold, Provision!Tell
    <3>2. /\ debt \in Provision!Places \X People /\ member[debt[1]][debt[2]] # None
          /\ SuspensionTold(debt[1], debt[2])
      BY <1>2, <3>1 DEF SuspensionsAreTold
    <3>3. cut' = cut
      BY <1>15 DEF Provision!Tell
    <3>. QED
      BY <2>a, <2>b, <3>2, <3>3 DEF SuspensionTold
  <2>. QED
    BY <2>1, <2>2, <2>3, <2>4, <2>5, <2>6, <2>7 DEF ProvisionInv
<1>16. ASSUME NEW c \in Calls, Provision!CutShort(c)
     PROVE  ProvisionInv'
  <2>a. /\ call[c].stmt # "idle" /\ call[c] \in CallRecord
        /\ call[c].stmt \in {"found", "founded", "joined"} =>
             call[c].user \in People \cup {None} /\ call[c].org \in Provision!Places
    <3>1. call[c].stmt # "idle"
      BY <1>16 DEF Provision!CutShort, Provision!At
    <3>2. call[c] \in CallRecord
      BY <1>2, <3>1 DEF ProvisionType, Provision!Unused
    <3>3. CallMeans(c)
      BY <1>2 DEF CallsMeanIt
    <3>. QED
      BY <3>1, <3>2, <3>3 DEF CallMeans, Provision!Founder, Provision!Joiner, Provision!Everyone
  <2>b. PICK s \in {"idle"} :
          Provision!Goes(c, s)
    BY <1>16, <2>a DEF Provision!CutShort
  <2>c. /\ call' \in [Calls -> CallRecord \cup {Provision!Unused}]
        /\ \A d \in Calls \ {c} : call'[d] = call[d]
        /\ s = "idle" => call'[c].stmt = "idle"
        /\ s # "idle" => /\ call'[c] \in CallRecord
                        /\ call'[c].stmt = s /\ call'[c].op = call[c].op
                        /\ call'[c].org = call[c].org /\ call'[c].user = call[c].user
                        /\ call'[c].created = call[c].created /\ call'[c].todo = call[c].todo
    BY <1>2, <2>a, <2>b, GoesOn DEF Stmts, Provision!Unused
  <2>f. /\ places' = places /\ member' = member /\ maker' = maker /\ answer' = None
        /\ cut' = cut \cup {<<call[c].stmt, call[c].org, call[c].user>>}
        /\ trail' = trail /\ owed' = owed
    BY <1>16 DEF Provision!CutShort
  <2>1. ProvisionType'
    BY <1>1, <1>2, <1>16 DEF ProvisionType, CallsMeanIt, CallMeans, CallRecord, Stmts, Made,
       Provision!CutShort, Provision!At, Provision!Goes, Provision!CallsBegin,
       Provision!Unused, Provision!Places, Provision!Everyone, Provision!Founder,
       Provision!Joiner, Provision!OrgRole
  <2>2. CallsMeanIt'
    <3>1. CallMeans(c)'
      BY <2>b, <2>c DEF CallMeans
    <3>. QED
      BY <1>2, <2>c, <2>f, <3>1, CallsGoOn
  <2>3. RolesAreGiven'
    BY <1>2, <2>f DEF RolesAreGiven
  <2>4. FoundersStand'
    BY <1>1, <1>2, <1>16 DEF FoundersStand, Founding, Provision!Pending, RolesAreGiven,
       ProvisionType, CallsMeanIt, CallMeans, CallRecord, Made, Provision!CutShort,
       Provision!At, Provision!Goes, Provision!CallsBegin, Provision!Unused,
       Provision!Places, Provision!Everyone, Provision!Founder, Provision!Joiner,
       Provision!OrgRole
  <2>5. RefusalIsFounded'
    BY <2>f DEF RefusalIsFounded
  <2>6. JoinsAreTold'
    <3>1. SUFFICES ASSUME NEW o \in Provision!Places, NEW u \in Provision!Everyone,
    member[o][u] # None,
                          <<"member", o, u>> \notin trail
                   PROVE  ToBeTold(o, u)'
      BY <1>16 DEF JoinsAreTold, Provision!CutShort
    <3>2. /\ cut' = cut \cup {<<call[c].stmt, call[c].org, call[c].user>>}
          /\ ToBeTold(o, u)
      BY <1>2, <1>16, <3>1 DEF JoinsAreTold, Provision!CutShort
    <3>3. CASE \/ call[c].org = o /\ call[c].stmt = "founded" /\ Provision!Founder(call[c]) = u
               \/ call[c].org = o /\ call[c].stmt = "joined" /\ Provision!Joiner(call[c]) = u
      <4>1. call[c].user \in (IF u = System THEN People \cup {None} ELSE {u})
        BY <2>a, <3>3 DEF Provision!Founder, Provision!Joiner
      <4>. QED
        BY <3>2, <3>3, <4>1 DEF ToBeTold
    <3>4. CASE /\ ~(call[c].stmt = "founded" /\ call[c].org = o /\ Provision!Founder(call[c]) = u)
               /\ ~(call[c].stmt = "joined" /\ call[c].org = o /\ Provision!Joiner(call[c]) = u)
      <4>1. cut \subseteq cut'
        BY <3>2
      <4>2. /\ ~(call[c].stmt = "founded" /\ call[c].org = o /\ Provision!Founder(call[c]) = u)
            /\ ~(call[c].stmt = "joined" /\ call[c].org = o /\ Provision!Joiner(call[c]) = u)
        BY <3>4
      <4>3. \A d \in Calls \ {c} : call'[d] = call[d]
        BY <2>c
      <4>. QED
        BY <3>2, <4>1, <4>2, <4>3, StillToBeTold
    <3>. QED
      BY <3>3, <3>4
  <2>7. SuspensionsAreTold'
    <3>1. SUFFICES ASSUME NEW debt \in owed
                   PROVE  /\ debt \in Provision!Places \X People /\ member[debt[1]][debt[2]] # None
                          /\ SuspensionTold(debt[1], debt[2])'
      BY <2>f DEF SuspensionsAreTold
    <3>2. /\ debt \in Provision!Places \X People /\ member[debt[1]][debt[2]] # None
          /\ SuspensionTold(debt[1], debt[2])
      BY <1>2, <3>1 DEF SuspensionsAreTold
    <3>3. call[c].stmt \in {"concerned", "tell"} => call[c].org = None
      BY <1>2 DEF CallsMeanIt, CallMeans
    <3>. QED
      BY <2>c, <2>f, <3>2, <3>3 DEF SuspensionTold
  <2>. QED
    BY <2>1, <2>2, <2>3, <2>4, <2>5, <2>6, <2>7 DEF ProvisionInv
<1>17. ASSUME NEW o \in Named, NEW u \in People, Provision!CreateOrg(o, u)
     PROVE  ProvisionInv'
  <2>a. /\ o \in Provision!Places \ places /\ u \in Provision!Everyone
        /\ call' = call /\ cut' = cut /\ owed' = owed /\ places' = places \cup {o}
        /\ trail' = trail \cup {<<"member", o, u>>}
    BY <1>17 DEF Provision!CreateOrg, Provision!Places, Provision!Everyone
  <2>b. /\ \A p \in Provision!Places, v \in Provision!Everyone :
             p # o \/ v # u => member'[p][v] = member[p][v]
        /\ member'[o][u] = "owner"
        /\ maker'[o] = [op |-> "engine", user |-> u]
        /\ \A p \in Provision!Places \ {o} : maker'[p] = maker[p]
    BY <1>2, <1>17, <2>a DEF Provision!CreateOrg, ProvisionType
  <2>c. \A v \in Provision!Everyone : member[o][v] = None
    BY <1>2, <2>a DEF RolesAreGiven
  <2>1. ProvisionType'
    BY <1>1, <1>2, <1>17 DEF ProvisionType, CallsMeanIt, CallMeans, CallRecord, Stmts, Made,
       Provision!CreateOrg, Provision!At, Provision!Goes, Provision!CallsBegin,
       Provision!Unused, Provision!Places, Provision!Everyone, Provision!Founder,
       Provision!Joiner, Provision!OrgRole
  <2>2. CallsMeanIt'
    BY <1>1, <1>2, <1>17 DEF CallsMeanIt, CallMeans, ProvisionType, CallRecord,
       RolesAreGiven, Made, Provision!CreateOrg, Provision!At, Provision!Goes,
       Provision!CallsBegin, Provision!Unused, Provision!Places, Provision!Everyone,
       Provision!Founder, Provision!Joiner, Provision!OrgRole
  <2>3. RolesAreGiven'
    <3>1. \A p \in Provision!Places \ places', v \in Provision!Everyone : member'[p][v] = None
      BY <1>2, <2>a, <2>b DEF RolesAreGiven
    <3>2. \A p \in places' : maker'[p].op = "engine" => p \in Named
      BY <1>2, <1>17, <2>a, <2>b DEF RolesAreGiven, ProvisionType
    <3>3. \A p \in Named, v \in People : member'[p][v] # None =>
             maker'[p].user = v /\ (maker'[p].op # "put" => member'[p][v] = "owner")
      BY <1>2, <2>a, <2>b, <2>c DEF RolesAreGiven, Provision!Places, Provision!Everyone
    <3>4. member'[Workspace][System] = member[Workspace][System]
      BY <1>1, <1>17, <2>b DEF Provision!Places, Provision!Everyone
    <3>. QED
      BY <1>2, <3>1, <3>2, <3>3, <3>4 DEF RolesAreGiven
  <2>4. FoundersStand'
    BY <1>1, <1>2, <1>17 DEF FoundersStand, Founding, Provision!Pending, RolesAreGiven,
       ProvisionType, CallsMeanIt, CallMeans, CallRecord, Made, Provision!CreateOrg,
       Provision!At, Provision!Goes, Provision!CallsBegin, Provision!Unused,
       Provision!Places, Provision!Everyone, Provision!Founder, Provision!Joiner,
       Provision!OrgRole
  <2>5. RefusalIsFounded'
    BY <1>1, <1>2, <1>17 DEF RefusalIsFounded, FoundersStand, Founding, Provision!Pending,
       ProvisionType, CallsMeanIt, CallMeans, CallRecord, Made, Provision!CreateOrg,
       Provision!At, Provision!Goes, Provision!CallsBegin, Provision!Unused,
       Provision!Places, Provision!Everyone, Provision!Founder, Provision!Joiner,
       Provision!OrgRole
  <2>6. JoinsAreTold'
    <3>1. SUFFICES ASSUME NEW p \in Provision!Places, NEW v \in Provision!Everyone,
    member'[p][v] # None,
                          <<"member", p, v>> \notin trail'
                   PROVE  ToBeTold(p, v)'
      BY DEF JoinsAreTold
    <3>2. (p # o \/ v # u) /\ <<"member", p, v>> \notin trail
      BY <2>a, <3>1
    <3>3. ToBeTold(p, v)
      BY <1>2, <2>b, <3>1, <3>2 DEF JoinsAreTold
    <3>. QED
      BY <2>a, <3>3 DEF ToBeTold, Provision!Founder, Provision!Joiner
  <2>7. SuspensionsAreTold'
    <3>1. SUFFICES ASSUME NEW debt \in owed
                   PROVE  /\ debt \in Provision!Places \X People /\ member'[debt[1]][debt[2]] # None
                          /\ SuspensionTold(debt[1], debt[2])'
      BY <2>a DEF SuspensionsAreTold
    <3>2. /\ debt \in Provision!Places \X People /\ member[debt[1]][debt[2]] # None
          /\ SuspensionTold(debt[1], debt[2])
      BY <1>2, <3>1 DEF SuspensionsAreTold
    <3>3. member'[debt[1]][debt[2]] # None
      BY <2>a, <2>b, <2>c, <3>2 DEF Provision!Everyone
    <3>. QED
      BY <2>a, <3>2, <3>3 DEF SuspensionTold
  <2>. QED
    BY <2>1, <2>2, <2>3, <2>4, <2>5, <2>6, <2>7 DEF ProvisionInv
<1>. QED
  BY <1>3, <1>4, <1>5, <1>6, <1>7, <1>8, <1>9, <1>10, <1>11, <1>12, <1>13, <1>14, <1>15,
     <1>16, <1>17 DEF Provision!ProvisioningNext

LEMMA ProvisionStepOrStand ==
  part = "provision" /\ [Next]_vars => [Provision!ProvisioningNext]_provision
BY DEF Next, vars, provision, services, others

LEMMA ProvisionInvariant == Spec => [](part = "provision" => ProvisionInv)
<1>1. Init => (part = "provision" => ProvisionInv)
  BY ProvisionBegin
<1>2. (part = "provision" => ProvisionInv) /\ [Next]_vars => (part = "provision" => ProvisionInv)'
  <2>. SUFFICES ASSUME part = "provision", ProvisionInv, part' = part,
                       [Provision!ProvisioningNext]_provision
                PROVE  ProvisionInv'
    BY ProvisionStepOrStand, PartStands
  <2>1. CASE UNCHANGED provision
    <3>1. ProvisionType' /\ CallsMeanIt' /\ RolesAreGiven'
      BY <2>1 DEF provision, ProvisionInv, ProvisionType, CallsMeanIt, CallMeans, RolesAreGiven
    <3>2. FoundersStand' /\ RefusalIsFounded'
      BY <2>1 DEF provision, ProvisionInv, FoundersStand, Founding, Provision!Pending, RefusalIsFounded
    <3>3. JoinsAreTold' /\ SuspensionsAreTold'
      BY <2>1 DEF provision, ProvisionInv, JoinsAreTold, ToBeTold, Provision!Founder, Provision!Joiner,
         SuspensionsAreTold, SuspensionTold
    <3>. QED
      BY <3>1, <3>2, <3>3 DEF ProvisionInv
  <2>. QED
    BY <2>1, ProvisionStep
<1>. QED
  BY <1>1, <1>2, PTL DEF Spec

(* Whatever puts, orgs.creates and createOrgs race, suspensions and crashes
   included: nobody comes to stand in a named organisation that somebody else
   had made; one made for an owner has it, unless the process died between its
   two rows; and the owner who asks again is not refused (simple.ts,
   Identities.org, FilesApi.put and OrgsApi.create).                        *)
THEOREM OwnersAreKept == Spec => []OwnersAreSafe
<1>1. (part = "provision" => ProvisionInv) => OwnersAreSafe
  <2>. SUFFICES ASSUME ProvisionInv
                PROVE  /\ Provision!NobodyWalksIn /\ Provision!OwnerlessOnlyByCrash
                       /\ Provision!RetryIsSafe
    BY DEF OwnersAreSafe
  <2>. USE DEF ProvisionInv
  <2>1. Provision!NobodyWalksIn
    BY DEF Provision!NobodyWalksIn, RolesAreGiven
  <2>2. Provision!OwnerlessOnlyByCrash
    BY ConstantsFit DEF Provision!OwnerlessOnlyByCrash, FoundersStand, Founding, ProvisionType,
       Provision!ProvisioningConstants, Provision!Places, Provision!Everyone
  <2>3. Provision!RetryIsSafe
    BY DEF Provision!RetryIsSafe, Provision!Pending, Provision!At, RefusalIsFounded
  <2>. QED
    BY <2>1, <2>2, <2>3
<1>. QED
  BY <1>1, ProvisionInvariant, PTL

(* Who came to stand in an organisation is on its chain, and so is who lost it
   by a suspension, unless the statement that writes it is still to come or a
   crash fell just before it (simple.ts, Identities.membership; filelayer.ts,
   #setActorDeleted).                                                       *)
THEOREM ChangesAreTold == Spec => []ChangesAreOnRecord
<1>1. (part = "provision" => ProvisionInv) => ChangesAreOnRecord
  <2>. SUFFICES ASSUME ProvisionInv
                PROVE  Provision!StandingIsOnRecord /\ Provision!SuspensionIsOnRecord
    BY DEF ChangesAreOnRecord
  <2>. USE DEF ProvisionInv
  <2>1. Provision!StandingIsOnRecord
    <3>. SUFFICES ASSUME NEW o \in Provision!Places, NEW u \in Provision!Everyone, ToBeTold(o, u)
                  PROVE  Provision!Pending({"founded", "joined"}, o,
                                           IF u = System THEN People \cup {None} ELSE {u})
      BY DEF Provision!StandingIsOnRecord, JoinsAreTold
    <3>1. \A c \in Calls : call[c].stmt \in {"founded", "joined"} =>
             /\ call[c].user \in People \cup {None}
             /\ Provision!Founder(call[c]) = u => call[c].user = u \/ u = System
             /\ Provision!Joiner(call[c]) = u => call[c].user = u \/ u = System
      BY DEF CallsMeanIt, CallMeans, Provision!Founder, Provision!Joiner
    <3>. QED
      BY <3>1 DEF ToBeTold, Provision!Pending
  <2>2. Provision!SuspensionIsOnRecord
    BY DEF Provision!SuspensionIsOnRecord, SuspensionsAreTold, SuspensionTold, Provision!Pending,
       CallsMeanIt, CallMeans
  <2>. QED
    BY <2>1, <2>2
<1>. QED
  BY <1>1, ProvisionInvariant, PTL

-----------------------------------------------------------------------------
(* The audit trail by time. *)

(* Every row there is or was has a number of its own. *)
Numbered ==
  /\ nextId \in Nat \ {0}
  /\ \A r \in rows \cup gone : r.id \in 1..MaxEvents /\ r.id < nextId /\ r.at \in Nat
  /\ \A r, x \in rows \cup gone : r.id = x.id => r = x

TrailType ==
  /\ day \in Nat
  /\ DOMAIN stamped = Auditors
  /\ \A w \in Auditors : stamped[w] = None \/ stamped[w].at \in Nat
  /\ DOMAIN export = {"upTo", "seen", "trimmed"}
  /\ export.upTo \in Nat /\ DOMAIN export.seen = 1..MaxEvents

(* The windows have shown, once, what lies before their end, and nothing else. *)
ShownOnce ==
  /\ \A n \in 1..MaxEvents :
       \/ export.seen[n] = 0
       \/ export.seen[n] = 1 /\ \E r \in rows \cup gone : r.id = n /\ r.at < export.upTo
  /\ \A r \in rows : r.at < export.upTo => export.seen[r.id] = 1 \/ r \in late

TrimmedRows == {t.row : t \in export.trimmed}

TrailInv ==
  /\ Numbered /\ TrailType /\ ShownOnce
  /\ TrimmedRows \subseteq rows \cup gone
  /\ Trail!NothingGoesUnread

LEMMA TrailFits == MaxEvents \in Nat /\ MaxDay \in Nat
BY ConstantsFit DEF Trail!AuditTrailConstants

LEMMA TrailBegins == Init /\ part = "trail" => TrailInv
<1>. SUFFICES ASSUME Init, part = "trail" PROVE TrailInv
  OBVIOUS
<1>1. /\ day = 0 /\ rows = {} /\ gone = {} /\ nextId = 1
      /\ stamped = [w \in Auditors |-> None]
      /\ export = [upTo |-> 0, seen |-> [n \in 1..MaxEvents |-> 0], trimmed |-> {}]
  BY DEF Init, Trail!AuditTrailInit
<1>2. /\ export.upTo = 0 /\ export.seen = [n \in 1..MaxEvents |-> 0] /\ export.trimmed = {}
      /\ DOMAIN export = {"upTo", "seen", "trimmed"}
  BY <1>1
<1>3. Numbered
  BY <1>1 DEF Numbered
<1>4. TrailType
  BY <1>1, <1>2 DEF TrailType
<1>5. ShownOnce
  BY <1>1, <1>2 DEF ShownOnce
<1>6. TrimmedRows \subseteq rows \cup gone /\ Trail!NothingGoesUnread
  BY <1>2 DEF TrimmedRows, Trail!NothingGoesUnread
<1>. QED
  BY <1>3, <1>4, <1>5, <1>6 DEF TrailInv

(* What was said of a row that was trimmed stays true. *)
LEMMA SaidOfTrimmed ==
  ASSUME Trail!NothingGoesUnread, TrimmedRows \subseteq rows \cup gone,
         rows \cup gone \subseteq rows' \cup gone', late \subseteq late',
         \A r \in rows \cup gone : r.id \in 1..MaxEvents,
         \A n \in 1..MaxEvents : export.seen[n] > 0 => export'.seen[n] > 0,
         NEW t \in export.trimmed
  PROVE  /\ t.row \in rows' \cup gone'
         /\ \/ export'.seen[t.row.id] > 0
            \/ t.row \in late'
            \/ t.row.at >= t.before /\ Trail!Overtook(t.row)'
<1>1. t.row \in rows \cup gone
  BY DEF TrimmedRows
<1>2. \/ export.seen[t.row.id] > 0
      \/ t.row \in late
      \/ t.row.at >= t.before /\ Trail!Overtook(t.row)
  BY DEF Trail!NothingGoesUnread
<1>3. Trail!Overtook(t.row) => \E x \in rows' \cup gone' : x.id > t.row.id /\ x.at < t.row.at
  BY DEF Trail!Overtook
<1>4. ASSUME NEW r PROVE Trail!Overtook(r)' = \E x \in rows' \cup gone' : x.id > r.id /\ x.at < r.at
  BY DEF Trail!Overtook
<1>. QED
  BY <1>1, <1>2, <1>3 DEF Trail!Overtook

(* Rows that go are still known to have been. *)
LEMMA RowsOnlyGo ==
  ASSUME TrailInv, rows' \subseteq rows, rows' \cup gone' = rows \cup gone,
         export' = export, late' = late, nextId' = nextId, TrailType'
  PROVE  TrailInv'
<1>1. Numbered'
  BY DEF TrailInv, Numbered
<1>2. ShownOnce'
  BY DEF TrailInv, ShownOnce
<1>3. Trail!NothingGoesUnread'
  <2>1. \A r : Trail!Overtook(r)' <=> Trail!Overtook(r)
    BY DEF Trail!Overtook
  <2>. QED
    BY <2>1 DEF TrailInv, Trail!NothingGoesUnread
<1>. QED
  BY <1>1, <1>2, <1>3 DEF TrailInv, TrimmedRows

LEMMA RowIsCommitted ==
  ASSUME TrailInv, NEW w \in Auditors, Trail!CommitRow(w)
  PROVE  TrailInv'
<1>. DEFINE row == [id |-> nextId, at |-> stamped[w].at, actor |-> stamped[w].actor]
<1>1. /\ stamped[w] # None /\ nextId <= MaxEvents
      /\ rows' = rows \cup {row} /\ gone' = gone /\ nextId' = nextId + 1
      /\ stamped' = [stamped EXCEPT ![w] = None]
      /\ late' = IF row.at < export.upTo THEN late \cup {row} ELSE late
      /\ export' = export /\ day' = day
  BY DEF Trail!CommitRow
<1>2. row.id = nextId /\ row.at = stamped[w].at /\ row.at \in Nat
  BY <1>1 DEF TrailInv, TrailType
<1>. HIDE DEF row
<1>3. nextId \in Nat \ {0} /\ \A r \in rows \cup gone : r.id # nextId
  BY DEF TrailInv, Numbered
<1>4. \A r \in rows \cup gone : r.id \in 1..MaxEvents /\ r.id < nextId /\ r.at \in Nat
  BY DEF TrailInv, Numbered
<1>5. nextId \in 1..MaxEvents
  BY <1>1, <1>3, TrailFits DEF TrailInv, Numbered
<1>6. Numbered'
  <2>1. \A r \in rows' \cup gone' : r = row \/ r \in rows \cup gone
    BY <1>1
  <2>2. \A r \in rows' \cup gone' : r.id \in 1..MaxEvents /\ r.id < nextId' /\ r.at \in Nat
    BY <1>1, <1>2, <1>3, <1>4, <1>5, <2>1
  <2>3. \A r, x \in rows' \cup gone' : r.id = x.id => r = x
    BY <1>2, <1>3, <2>1 DEF TrailInv, Numbered
  <2>. QED
    BY <1>1, <1>3, <2>2, <2>3 DEF Numbered
<1>7. TrailType'
  BY <1>1 DEF TrailInv, TrailType
<1>8. ShownOnce'
  <2>1. \A n \in 1..MaxEvents :
          \/ export'.seen[n] = 0
          \/ export'.seen[n] = 1 /\ \E r \in rows' \cup gone' : r.id = n /\ r.at < export'.upTo
    BY <1>1 DEF TrailInv, ShownOnce
  <2>2. \A r \in rows' : r.at < export'.upTo => export'.seen[r.id] = 1 \/ r \in late'
    BY <1>1 DEF TrailInv, ShownOnce
  <2>. QED
    BY <2>1, <2>2 DEF ShownOnce
<1>9. \A t \in export'.trimmed :
        /\ t.row \in rows' \cup gone'
        /\ \/ export'.seen[t.row.id] > 0
           \/ t.row \in late'
           \/ t.row.at >= t.before /\ Trail!Overtook(t.row)'
  BY <1>1, <1>4, SaidOfTrimmed DEF TrailInv
<1>. QED
  BY <1>6, <1>7, <1>8, <1>9 DEF TrailInv, TrimmedRows, Trail!NothingGoesUnread

LEMMA WindowIsRead ==
  ASSUME TrailInv, NEW until \in 1..MaxDay, Trail!ReadWindow(until)
  PROVE  TrailInv'
<1>. DEFINE W == Trail!Window(export.upTo, until)
            old == export.seen
            new == export'.seen
<1>1. /\ export.upTo < until
      /\ rows' = rows /\ gone' = gone /\ nextId' = nextId /\ late' = late
      /\ stamped' = stamped /\ day' = day
  BY DEF Trail!ReadWindow
<1>2. until \in Nat
  BY TrailFits
<1>3. /\ export'.upTo = until /\ export'.trimmed = export.trimmed
      /\ DOMAIN export' = {"upTo", "seen", "trimmed"}
      /\ DOMAIN new = 1..MaxEvents
      /\ \A n \in 1..MaxEvents : new[n] = old[n] + (IF \E r \in W : r.id = n THEN 1 ELSE 0)
  <2>1. DOMAIN export = {"upTo", "seen", "trimmed"}
    BY DEF TrailInv, TrailType
  <2>. QED
    BY <2>1 DEF Trail!ReadWindow
<1>4. Numbered /\ TrailType /\ ShownOnce
  BY DEF TrailInv
<1>5. W = {r \in rows : export.upTo <= r.at /\ r.at < until}
  BY DEF Trail!Window
<1>. HIDE DEF W, old, new
<1>6. Numbered' /\ TrailType'
  BY <1>1, <1>2, <1>3, <1>4 DEF Numbered, TrailType, new
<1>7. \A n \in 1..MaxEvents : old[n] \in {0, 1} /\ (old[n] > 0 => new[n] > 0)
  <2>1. \A n \in 1..MaxEvents : old[n] \in {0, 1}
    BY <1>4 DEF ShownOnce, old
  <2>. QED
    BY <1>3, <2>1
<1>8. ASSUME NEW n \in 1..MaxEvents
      PROVE  \/ new[n] = 0
             \/ new[n] = 1 /\ \E r \in rows' \cup gone' : r.id = n /\ r.at < until
  <2>1. CASE old[n] = 0 /\ ~(\E r \in W : r.id = n)
    BY <1>3, <2>1
  <2>2. CASE old[n] = 0 /\ \E r \in W : r.id = n
    BY <1>1, <1>3, <1>5, <2>2
  <2>3. CASE old[n] = 1
    <3>1. PICK r \in rows \cup gone : r.id = n /\ r.at < export.upTo
      BY <1>4, <2>3 DEF ShownOnce, old
    <3>2. \A x \in W : x.id # n
      <4>. SUFFICES ASSUME NEW x \in W, x.id = n PROVE FALSE
        OBVIOUS
      <4>1. x = r
        BY <1>4, <1>5, <3>1 DEF Numbered
      <4>2. r.at \in Nat /\ export.upTo \in Nat
        BY <1>4 DEF Numbered, TrailType
      <4>. QED
        BY <1>5, <3>1, <4>1, <4>2
    <3>3. new[n] = 1
      BY <1>3, <2>3, <3>2
    <3>4. r.at < until
      <4>1. r.at \in Nat /\ export.upTo \in Nat
        BY <1>4 DEF Numbered, TrailType
      <4>. QED
        BY <1>1, <1>2, <3>1, <4>1
    <3>. QED
      BY <1>1, <3>1, <3>3, <3>4
  <2>. QED
    BY <1>7, <2>1, <2>2, <2>3
<1>9. ASSUME NEW r \in rows, r.at < until PROVE new[r.id] = 1 \/ r \in late
  <2>1. r.id \in 1..MaxEvents /\ r.at \in Nat /\ export.upTo \in Nat
    BY <1>4 DEF Numbered, TrailType
  <2>2. CASE r.at < export.upTo
    <3>1. old[r.id] = 1 \/ r \in late
      BY <1>4, <2>2 DEF ShownOnce, old
    <3>2. old[r.id] = 1 => new[r.id] > 0
      BY <1>7, <2>1
    <3>. QED
      BY <1>8, <2>1, <3>1, <3>2
  <2>3. CASE ~(r.at < export.upTo)
    <3>1. r \in W
      BY <1>5, <1>9, <2>1, <2>3
    <3>2. new[r.id] > 0
      BY <1>3, <1>7, <2>1, <3>1
    <3>. QED
      BY <1>8, <2>1, <3>2
  <2>. QED
    BY <2>2, <2>3
<1>10. ShownOnce'
  BY <1>1, <1>3, <1>8, <1>9 DEF ShownOnce, new
<1>11. \A t \in export'.trimmed :
        /\ t.row \in rows' \cup gone'
        /\ \/ export'.seen[t.row.id] > 0
           \/ t.row \in late'
           \/ t.row.at >= t.before /\ Trail!Overtook(t.row)'
  <2>1. \A n \in 1..MaxEvents : export.seen[n] > 0 => export'.seen[n] > 0
    BY <1>7 DEF old, new
  <2>2. \A r \in rows \cup gone : r.id \in 1..MaxEvents
    BY <1>4 DEF Numbered
  <2>. QED
    BY <1>1, <1>3, <2>1, <2>2, SaidOfTrimmed DEF TrailInv
<1>. QED
  BY <1>6, <1>10, <1>11 DEF TrailInv, TrimmedRows, Trail!NothingGoesUnread

LEMMA ExportedIsTrimmed ==
  ASSUME TrailInv, Trail!TrimExported
  PROVE  TrailInv'
<1>. DEFINE R == Trail!OlderThan(export.upTo)
<1>1. /\ rows' = rows \ R /\ gone' = gone \cup R /\ nextId' = nextId /\ late' = late
      /\ stamped' = stamped /\ day' = day
  BY DEF Trail!TrimExported, Trail!Trims
<1>2. /\ export'.upTo = export.upTo /\ export'.seen = export.seen
      /\ export'.trimmed = export.trimmed \cup {[row |-> r, before |-> export.upTo] : r \in R}
      /\ DOMAIN export' = {"upTo", "seen", "trimmed"}
  <2>1. DOMAIN export = {"upTo", "seen", "trimmed"}
    BY DEF TrailInv, TrailType
  <2>. QED
    BY <2>1 DEF Trail!TrimExported
<1>3. Numbered /\ TrailType /\ ShownOnce
  BY DEF TrailInv
<1>4. R = {r \in rows : \E o \in rows : o.at < export.upTo /\ r.id <= o.id}
  BY DEF Trail!OlderThan
<1>. HIDE DEF R
<1>5. rows' \cup gone' = rows \cup gone /\ rows' \subseteq rows
  BY <1>1, <1>4
<1>6. Numbered' /\ TrailType'
  BY <1>1, <1>2, <1>3, <1>5 DEF Numbered, TrailType
<1>7. ShownOnce'
  BY <1>1, <1>2, <1>3, <1>5 DEF ShownOnce
<1>8. ASSUME NEW r \in R
      PROVE  \/ export.seen[r.id] > 0
             \/ r \in late
             \/ r.at >= export.upTo /\ Trail!Overtook(r)
  <2>1. r \in rows /\ r.at \in Nat /\ r.id \in Nat /\ export.upTo \in Nat
    BY <1>3, <1>4 DEF Numbered, TrailType
  <2>2. CASE r.at < export.upTo
    BY <1>3, <2>1, <2>2 DEF ShownOnce
  <2>3. CASE r.at >= export.upTo
    <3>1. PICK o \in rows : o.at < export.upTo /\ r.id <= o.id
      BY <1>4
    <3>2. o.at \in Nat /\ o.id \in Nat
      BY <1>3 DEF Numbered
    <3>3. o # r
      BY <2>1, <2>3, <3>1
    <3>4. o.id # r.id
      BY <1>3, <2>1, <3>3 DEF Numbered
    <3>. QED
      BY <2>1, <2>3, <3>1, <3>2, <3>4 DEF Trail!Overtook
  <2>. QED
    BY <2>1, <2>2, <2>3
<1>9. ASSUME NEW t \in export'.trimmed
      PROVE  /\ t.row \in rows' \cup gone'
             /\ \/ export'.seen[t.row.id] > 0
                \/ t.row \in late'
                \/ t.row.at >= t.before /\ Trail!Overtook(t.row)'
  <2>1. CASE t \in export.trimmed
    <3>1. \A r \in rows \cup gone : r.id \in 1..MaxEvents
      BY <1>3 DEF Numbered
    <3>. QED
      BY <1>1, <1>2, <1>5, <2>1, <3>1, SaidOfTrimmed DEF TrailInv
  <2>2. CASE \E r \in R : t = [row |-> r, before |-> export.upTo]
    <3>1. PICK r \in R : t = [row |-> r, before |-> export.upTo]
      BY <2>2
    <3>2. t.row = r /\ t.before = export.upTo
      BY <3>1
    <3>3. \A x : Trail!Overtook(x) => Trail!Overtook(x)'
      BY <1>5 DEF Trail!Overtook
    <3>4. r \in gone' /\ late' = late
      BY <1>1
    <3>. QED
      BY <1>2, <1>8, <3>2, <3>3, <3>4
  <2>. QED
    BY <1>2, <2>1, <2>2
<1>. QED
  BY <1>6, <1>7, <1>9 DEF TrailInv, TrimmedRows, Trail!NothingGoesUnread

LEMMA TrailStep == TrailInv /\ Trail!AuditTrailNext => TrailInv'
<1>. SUFFICES ASSUME TrailInv, Trail!AuditTrailNext PROVE TrailInv'
  OBVIOUS
<1>1. TrailType
  BY DEF TrailInv
<1>2. CASE Trail!PassTime
  <2>1. /\ rows' = rows /\ gone' = gone /\ nextId' = nextId /\ late' = late /\ export' = export
        /\ stamped' = stamped /\ day' = day + 1
    BY <1>2 DEF Trail!PassTime
  <2>2. TrailType'
    BY <1>1, <2>1 DEF TrailType
  <2>. QED
    BY <2>1, <2>2, RowsOnlyGo
<1>3. ASSUME NEW w \in Auditors, (\E a \in Audited : Trail!Stamp(w, a)) \/ Trail!LosesRow(w)
      PROVE  TrailInv'
  <2>1. /\ rows' = rows /\ gone' = gone /\ nextId' = nextId /\ late' = late /\ export' = export
        /\ day' = day
        /\ \/ \E a \in Audited : stamped' = [stamped EXCEPT ![w] = [at |-> day, actor |-> a]]
           \/ stamped' = [stamped EXCEPT ![w] = None]
    BY <1>3 DEF Trail!Stamp, Trail!LosesRow
  <2>2. TrailType'
    BY <1>1, <2>1 DEF TrailType
  <2>. QED
    BY <2>1, <2>2, RowsOnlyGo
<1>4. ASSUME NEW w \in Auditors, Trail!CommitRow(w) PROVE TrailInv'
  BY <1>4, RowIsCommitted
<1>5. CASE Trail!Remove
  <2>1. /\ rows' \subseteq rows /\ rows' \cup gone' = rows \cup gone
        /\ nextId' = nextId /\ late' = late /\ export' = export
        /\ stamped' = stamped /\ day' = day
    <3>1. CASE \E a \in Audited : Trail!EraseReads(a)
      BY <3>1 DEF Trail!EraseReads
    <3>2. CASE Trail!EraseDeletes
      BY <3>2 DEF Trail!EraseDeletes
    <3>3. CASE Trail!EraseFails
      BY <3>3 DEF Trail!EraseFails
    <3>4. CASE \E n \in Kept : Trail!TrimByCount(n)
      BY <3>4 DEF Trail!TrimByCount, Trail!Trims, Trail!AllButLast
    <3>. QED
      BY <1>5, <3>1, <3>2, <3>3, <3>4 DEF Trail!Remove
  <2>2. TrailType'
    BY <1>1, <2>1 DEF TrailType
  <2>. QED
    BY <2>1, <2>2, RowsOnlyGo
<1>6. CASE \E t \in 1..MaxDay : Trail!ReadWindow(t)
  BY <1>6, WindowIsRead
<1>7. CASE Trail!TrimExported
  BY <1>7, ExportedIsTrimmed
<1>. QED
  BY <1>2, <1>3, <1>4, <1>5, <1>6, <1>7 DEF Trail!AuditTrailNext, Trail!Record

LEMMA TrailStands ==
  ASSUME TrailInv, UNCHANGED usage PROVE TrailInv'
<1>1. /\ rows' = rows /\ gone' = gone /\ nextId' = nextId /\ late' = late /\ export' = export
      /\ stamped' = stamped /\ day' = day
  BY DEF usage
<1>2. TrailType'
  BY <1>1 DEF TrailInv, TrailType
<1>. QED
  BY <1>1, <1>2, RowsOnlyGo

(* Windows of the trail show each row once, and trimming what they have shown
   takes nothing they did not show but rows that came late or were overtaken,
   whatever is written, trimmed and erased meanwhile (store.ts,
   auditFilterClauses, trimAuditChain and eraseActorFromAuditChain).        *)
THEOREM ExportsStayComplete == Spec => []ExportsAreComplete
<1>. DEFINE I == part = "trail" => TrailInv
<1>1. Init => I
  BY TrailBegins
<1>2. I /\ [Next]_vars => I'
  <2>. SUFFICES ASSUME I, [Next]_vars, part' = "trail" PROVE TrailInv'
    OBVIOUS
  <2>1. part = "trail" /\ TrailInv
    BY PartStands
  <2>2. CASE Trail!AuditTrailNext
    BY <2>1, <2>2, TrailStep
  <2>3. CASE UNCHANGED usage
    BY <2>1, <2>3, TrailStands
  <2>. QED
    BY <2>1, <2>2, <2>3 DEF Next, vars, services, others, usage
<1>3. I => ExportsAreComplete
  <2>. SUFFICES ASSUME TrailInv PROVE Trail!WindowsTile /\ Trail!NothingGoesUnread
    BY DEF ExportsAreComplete
  <2>. QED
    BY DEF TrailInv, ShownOnce, Trail!WindowsTile
<1>. QED
  BY <1>1, <1>2, <1>3, PTL DEF Spec

-----------------------------------------------------------------------------
(* The usage report. *)

Spans(c, r) == c.from <= r.at /\ r.at <= c.to

IsSpan(c) == c.from \in Nat /\ c.to \in Nat

RowsHaveTimes ==
  /\ day \in Nat
  /\ DOMAIN stamped = Readers
  /\ \A w \in Readers : stamped[w] = None \/ (stamped[w].at \in Nat /\ stamped[w].at <= day)
  /\ \A r \in rows \cup gone : r.at \in Nat /\ r.at <= day

(* Whatever is gone, but for an erasure's overrun, lies in what a checkpoint
   covers; so will what the erasure under way has counted.                  *)
GoneIsAttested ==
  /\ \A c \in checkpoints : IsSpan(c)
  /\ \A r \in gone \ overrun : \E c \in checkpoints : Spans(c, r)
  /\ gone # {} => checkpoints # {}
  /\ erasing # None =>
       /\ erasing.attest # {} /\ \A c \in erasing.attest : IsSpan(c)
       /\ \A r \in erasing.counted : \E c \in erasing.attest : Spans(c, r)

Fields_Report == {"step", "week", "trimmed", "reads", "days", "first", "note", "before", "counted", "found"}

(* What the report has found out and what is left of it. *)
ReportHolds ==
  /\ DOMAIN report = Fields_Report
  /\ report.step \in {"none", "count", "days", "first", "why", "done"}
  /\ report.step # "none" /\ ~report.trimmed => Usage!In(report.before, report.week) \subseteq overrun
  /\ report.step = "count" => report.week \in Weeks
  /\ report.step \in {"none", "count"} => report.reads = None
  /\ report.reads # None => ~report.trimmed
  /\ report.step \in {"none", "count", "days"} => report.days = None
  /\ report.step \in {"none", "count"} \/ report.counted.here \subseteq rows \cup gone
  /\ report.days # None =>
       Usage!Times(Usage!In(report.counted.here \ gone, report.week)) \subseteq report.days
  /\ report.step # "done" => report.note = None
  /\ report.note = "no_successful_read" => report.found = {}
  /\ report.step = "why" => report.found \subseteq gone

UsageInv == RowsHaveTimes /\ GoneIsAttested /\ ReportHolds

LEMMA UsageFits ==
  /\ \A w \in Weeks : w.start \in Nat /\ w.end \in Nat
  /\ None # "no_successful_read"
BY ConstantsFit DEF Usage!UsageReportConstants

LEMMA UsageBegins == Init /\ part = "usage" => UsageInv
<1>. SUFFICES ASSUME Init, part = "usage" PROVE UsageInv
  OBVIOUS
<1>1. /\ day = 0 /\ rows = {} /\ gone = {} /\ checkpoints = {} /\ erasing = None
      /\ stamped = [w \in Readers |-> None] /\ report = Usage!Blank
  BY DEF Init, Usage!UsageReportInit, Usage!AuditTrailInit
<1>2. /\ DOMAIN report = Fields_Report /\ report.step = "none" /\ report.reads = None
      /\ report.days = None /\ report.note = None
  BY <1>1 DEF Usage!Blank, Fields_Report
<1>3. ReportHolds
  BY <1>2, UsageFits DEF ReportHolds
<1>4. RowsHaveTimes
  BY <1>1 DEF RowsHaveTimes
<1>5. GoneIsAttested
  BY <1>1 DEF GoneIsAttested
<1>. QED
  BY <1>3, <1>4, <1>5 DEF UsageInv

(* A checkpoint of some rows spans each of them. *)
LEMMA AttestsSpan ==
  ASSUME NEW R, R # {}, NEW d \in Nat, \A r \in R : r.at \in Nat /\ r.at <= d
  PROVE  IsSpan(Usage!Attests(R)) /\ \A r \in R : Spans(Usage!Attests(R), r)
<1>. DEFINE T == Usage!Times(R)
<1>1. T \subseteq Nat /\ T # {} /\ (\A t \in T : t <= d) /\ \A r \in R : r.at \in T
  BY DEF Usage!Times
<1>. HIDE DEF T
<1>2. \E x \in T : \A y \in T : x <= y
  BY <1>1, LeastOf
<1>3. \E x \in T : \A y \in T : x >= y
  <2>1. \E x \in T : \A y \in T : y <= x
    BY <1>1, GreatestOf
  <2>. QED
    BY <1>1, <2>1
<1>4. Usage!Min(T) \in T /\ \A y \in T : Usage!Min(T) <= y
  BY <1>2 DEF Usage!Min
<1>5. Usage!Max(T) \in T /\ \A y \in T : Usage!Max(T) >= y
  BY <1>3 DEF Usage!Max
<1>6. Usage!Attests(R).from = Usage!Min(T) /\ Usage!Attests(R).to = Usage!Max(T)
  BY DEF Usage!Attests, T
<1>7. IsSpan(Usage!Attests(R))
  BY <1>1, <1>4, <1>5, <1>6 DEF IsSpan
<1>8. ASSUME NEW r \in R PROVE Spans(Usage!Attests(R), r)
  <2>1. r.at \in T /\ r.at \in Nat /\ Usage!Max(T) \in Nat
    BY <1>1, <1>5
  <2>2. Usage!Min(T) <= r.at /\ Usage!Max(T) >= r.at
    BY <1>4, <1>5, <2>1
  <2>. QED
    BY <1>6, <2>1, <2>2 DEF Spans
<1>. QED
  BY <1>7, <1>8

LEMMA RowsAreTrimmed ==
  ASSUME RowsHaveTimes, GoneIsAttested, NEW R \in SUBSET rows, Usage!Trims(R)
  PROVE  RowsHaveTimes' /\ GoneIsAttested'
<1>1. /\ R # {} /\ rows' = rows \ R /\ gone' = gone \cup R /\ overrun' = overrun
      /\ checkpoints' = checkpoints \cup {Usage!Attests(R)}
      /\ stamped' = stamped /\ erasing' = erasing
  BY DEF Usage!Trims
<1>2. day' = day
  BY DEF Usage!Trims
<1>3. RowsHaveTimes'
  BY <1>1, <1>2 DEF RowsHaveTimes
<1>4. IsSpan(Usage!Attests(R)) /\ \A r \in R : Spans(Usage!Attests(R), r)
  <2>1. day \in Nat /\ \A r \in R : r.at \in Nat /\ r.at <= day
    BY DEF RowsHaveTimes
  <2>. QED
    BY <1>1, <2>1, AttestsSpan
<1>5. GoneIsAttested'
  BY <1>1, <1>4 DEF GoneIsAttested
<1>. QED
  BY <1>3, <1>5

LEMMA ErasureCounts ==
  ASSUME RowsHaveTimes, GoneIsAttested, NEW a, Usage!EraseReads(a)
  PROVE  RowsHaveTimes' /\ GoneIsAttested'
<1>. DEFINE D == {r \in rows : r.actor = a}
            attest == {Usage!Attests(Usage!RunOf(D, r)) : r \in D}
<1>1. /\ D # {} /\ erasing' = [actor |-> a, counted |-> D, attest |-> attest]
      /\ rows' = rows /\ gone' = gone /\ overrun' = overrun /\ checkpoints' = checkpoints
      /\ stamped' = stamped /\ day' = day
  BY DEF Usage!EraseReads
<1>2. erasing'.counted = D /\ erasing'.attest = attest /\ attest # {}
  BY <1>1
<1>3. ASSUME NEW r \in D
      PROVE  /\ IsSpan(Usage!Attests(Usage!RunOf(D, r)))
             /\ Spans(Usage!Attests(Usage!RunOf(D, r)), r)
  <2>1. r \in Usage!RunOf(D, r) /\ Usage!RunOf(D, r) \subseteq D
    BY DEF Usage!RunOf
  <2>2. day \in Nat /\ \A x \in D : x.at \in Nat /\ x.at <= day
    BY DEF RowsHaveTimes
  <2>. HIDE DEF D
  <2>3. \A x \in Usage!RunOf(D, r) : x.at \in Nat /\ x.at <= day
    BY <2>1, <2>2
  <2>4. /\ IsSpan(Usage!Attests(Usage!RunOf(D, r)))
        /\ \A x \in Usage!RunOf(D, r) : Spans(Usage!Attests(Usage!RunOf(D, r)), x)
    BY <2>1, <2>2, <2>3, AttestsSpan
  <2>. QED
    BY <2>1, <2>4
<1>4. RowsHaveTimes'
  BY <1>1 DEF RowsHaveTimes
<1>5. /\ \A c \in attest : IsSpan(c)
      /\ \A r \in D : \E c \in attest : Spans(c, r)
  BY <1>3
<1>. HIDE DEF D, attest
<1>6. GoneIsAttested'
  BY <1>1, <1>2, <1>5 DEF GoneIsAttested
<1>. QED
  BY <1>4, <1>6

LEMMA ErasureDeletes ==
  ASSUME RowsHaveTimes, GoneIsAttested, Usage!EraseDeletes
  PROVE  RowsHaveTimes' /\ GoneIsAttested'
<1>. DEFINE D == {r \in rows : r.actor = erasing.actor}
<1>1. /\ erasing # None /\ rows' = rows \ D /\ gone' = gone \cup D /\ erasing' = None
      /\ checkpoints' = checkpoints \cup erasing.attest
      /\ overrun' = overrun \cup (D \ erasing.counted)
      /\ stamped' = stamped /\ day' = day
  BY DEF Usage!EraseDeletes
<1>2. D \subseteq rows
  OBVIOUS
<1>. HIDE DEF D
<1>3. RowsHaveTimes'
  BY <1>1, <1>2 DEF RowsHaveTimes
<1>4. /\ erasing.attest # {} /\ \A c \in erasing.attest : IsSpan(c)
      /\ \A r \in erasing.counted : \E c \in erasing.attest : Spans(c, r)
  BY <1>1 DEF GoneIsAttested
<1>5. \A r \in gone' \ overrun' : \E c \in checkpoints' : Spans(c, r)
  <2>. SUFFICES ASSUME NEW r \in gone' \ overrun' PROVE \E c \in checkpoints' : Spans(c, r)
    OBVIOUS
  <2>1. r \in gone \ overrun \/ r \in erasing.counted
    BY <1>1
  <2>. QED
    BY <1>1, <1>4, <2>1 DEF GoneIsAttested
<1>6. GoneIsAttested'
  BY <1>1, <1>4, <1>5 DEF GoneIsAttested
<1>. QED
  BY <1>3, <1>6

(* What happens to the trail while a report is built. *)
LEMMA TrailMovesOn ==
  ASSUME RowsHaveTimes, GoneIsAttested, Usage!Happens
  PROVE  /\ RowsHaveTimes' /\ GoneIsAttested'
         /\ rows \cup gone \subseteq rows' \cup gone'
         /\ gone \subseteq gone' /\ overrun \subseteq overrun'
<1>1. CASE Usage!PassTime
  <2>1. /\ day' = day + 1 /\ stamped' = stamped /\ rows' = rows /\ gone' = gone
        /\ overrun' = overrun /\ checkpoints' = checkpoints /\ erasing' = erasing
    BY <1>1 DEF Usage!PassTime
  <2>2. RowsHaveTimes'
    <3>1. day \in Nat /\ \A t \in Nat : t <= day => t <= day'
      BY <2>1 DEF RowsHaveTimes
    <3>. QED
      BY <2>1, <3>1 DEF RowsHaveTimes
  <2>. QED
    BY <2>1, <2>2 DEF GoneIsAttested
<1>2. ASSUME NEW w \in Readers, (\E a \in Metered : Usage!Stamp(w, a)) \/ Usage!LosesRow(w)
      PROVE  /\ RowsHaveTimes' /\ GoneIsAttested'
             /\ rows' = rows /\ gone' = gone /\ overrun' = overrun
  <2>1. /\ day' = day /\ rows' = rows /\ gone' = gone
        /\ overrun' = overrun /\ checkpoints' = checkpoints /\ erasing' = erasing
        /\ \/ \E a \in Metered : stamped' = [stamped EXCEPT ![w] = [at |-> day, actor |-> a]]
           \/ stamped' = [stamped EXCEPT ![w] = None]
    BY <1>2 DEF Usage!Stamp, Usage!LosesRow
  <2>2. RowsHaveTimes'
    BY <2>1 DEF RowsHaveTimes
  <2>. QED
    BY <2>1, <2>2 DEF GoneIsAttested
<1>3. ASSUME NEW w \in Readers, Usage!CommitRow(w)
      PROVE  /\ RowsHaveTimes' /\ GoneIsAttested'
             /\ rows \subseteq rows' /\ gone' = gone /\ overrun' = overrun
  <2>. DEFINE row == [id |-> nextId, at |-> stamped[w].at, actor |-> stamped[w].actor]
  <2>1. /\ day' = day /\ rows' = rows \cup {row} /\ gone' = gone /\ stamped[w] # None
        /\ overrun' = overrun /\ checkpoints' = checkpoints /\ erasing' = erasing
        /\ stamped' = [stamped EXCEPT ![w] = None]
    BY <1>3 DEF Usage!CommitRow
  <2>2. row.at \in Nat /\ row.at <= day
    BY <2>1 DEF RowsHaveTimes
  <2>. HIDE DEF row
  <2>3. RowsHaveTimes'
    BY <2>1, <2>2 DEF RowsHaveTimes
  <2>. QED
    BY <2>1, <2>3 DEF GoneIsAttested
<1>4. CASE \E a \in Metered : Usage!EraseReads(a)
  BY <1>4, ErasureCounts DEF Usage!EraseReads
<1>5. CASE Usage!EraseDeletes
  BY <1>5, ErasureDeletes DEF Usage!EraseDeletes
<1>6. CASE Usage!EraseFails
  BY <1>6 DEF Usage!EraseFails, RowsHaveTimes, GoneIsAttested
<1>7. ASSUME NEW R \in SUBSET rows, Usage!Trims(R)
      PROVE  /\ RowsHaveTimes' /\ GoneIsAttested'
             /\ rows \cup gone \subseteq rows' \cup gone'
             /\ gone \subseteq gone' /\ overrun \subseteq overrun'
  BY <1>7, RowsAreTrimmed DEF Usage!Trims
<1>8. CASE \E n \in Kept : Usage!TrimByCount(n)
  <2>1. \A n : Usage!AllButLast(n) \in SUBSET rows
    BY DEF Usage!AllButLast
  <2>. QED
    BY <1>7, <1>8, <2>1 DEF Usage!TrimByCount
<1>9. CASE \E t \in 1..MaxDay : Usage!TrimByDate(t)
  <2>1. \A t : Usage!OlderThan(t) \in SUBSET rows
    BY DEF Usage!OlderThan
  <2>. QED
    BY <1>7, <1>9, <2>1 DEF Usage!TrimByDate
<1>. QED
  BY <1>1, <1>2, <1>3, <1>4, <1>5, <1>6, <1>8, <1>9 DEF Usage!Happens, Usage!Record, Usage!Remove

LEMMA ReportWaits ==
  ASSUME ReportHolds, report' = report, rows \cup gone \subseteq rows' \cup gone',
         gone \subseteq gone', overrun \subseteq overrun'
  PROVE  ReportHolds'
<1>1. report.days # None =>
        Usage!Times(Usage!In(report.counted.here \ gone', report.week)) \subseteq report.days
  BY DEF ReportHolds, Usage!Times, Usage!In
<1>2. (Usage!Times(Usage!In(report.counted.here \ gone, report.week)))'
        = Usage!Times(Usage!In(report.counted.here \ gone', report.week))
  BY DEF Usage!Times, Usage!In
<1>3. Usage!In(report.before, report.week)' = Usage!In(report.before, report.week)
  BY DEF Usage!In
<1>. QED
  BY <1>1, <1>2, <1>3 DEF ReportHolds

LEMMA ReportMovesOn ==
  ASSUME UsageInv,
         \/ \E w \in Weeks : Usage!CheckTrims(w)
         \/ Usage!CountReads \/ Usage!CountDays \/ Usage!FindFirst \/ Usage!AskWhy
  PROVE  ReportHolds'
<1>1. /\ rows' = rows /\ gone' = gone /\ overrun' = overrun /\ checkpoints' = checkpoints
  BY DEF Usage!CheckTrims, Usage!CountReads, Usage!CountDays, Usage!FindFirst, Usage!AskWhy,
         Usage!trailVars
<1>2. ReportHolds /\ RowsHaveTimes /\ GoneIsAttested /\ DOMAIN report = Fields_Report
  BY DEF UsageInv, ReportHolds
<1>3. ASSUME NEW w \in Weeks, Usage!CheckTrims(w) PROVE ReportHolds'
  <2>. DEFINE reached == \E c \in checkpoints : Usage!Reaches(c, w)
  <2>1. /\ report.step = "none"
        /\ report' = [report EXCEPT !.step = "count", !.week = w, !.before = gone, !.trimmed = reached]
    BY <1>3 DEF Usage!CheckTrims
  <2>2. ~reached => Usage!In(gone, w) \subseteq overrun
    <3>. SUFFICES ASSUME ~reached, NEW r \in Usage!In(gone, w), r \notin overrun PROVE FALSE
      OBVIOUS
    <3>1. r \in gone /\ w.start <= r.at /\ r.at < w.end
      BY DEF Usage!In
    <3>2. PICK c \in checkpoints : Spans(c, r)
      BY <1>2, <3>1 DEF GoneIsAttested
    <3>3. c.from \in Nat /\ c.to \in Nat /\ r.at \in Nat /\ w.start \in Nat /\ w.end \in Nat
      BY <1>2, <3>1, UsageFits DEF GoneIsAttested, IsSpan, RowsHaveTimes
    <3>4. Usage!Reaches(c, w)
      BY <3>1, <3>2, <3>3 DEF Usage!Reaches, Spans
    <3>. QED
      BY <3>4
  <2>. HIDE DEF reached
  <2>3. /\ DOMAIN report' = Fields_Report /\ report'.step = "count" /\ report'.week = w
        /\ report'.before = gone /\ report'.trimmed = reached
        /\ report'.reads = report.reads /\ report'.days = report.days
        /\ report'.note = report.note
    BY <1>2, <2>1 DEF Fields_Report
  <2>4. report.reads = None /\ report.days = None /\ report.note = None
    BY <1>2, <2>1 DEF ReportHolds
  <2>5. Usage!In(report.before, report.week)' = Usage!In(gone, w)
    BY <2>3 DEF Usage!In
  <2>. QED
    BY <1>1, <2>2, <2>3, <2>4, <2>5, UsageFits DEF ReportHolds
<1>4. CASE Usage!CountReads
  <2>. DEFINE n == Cardinality(Usage!In(rows, report.week))
  <2>1. /\ report.step = "count" /\ DOMAIN report' = Fields_Report /\ report'.step = "days"
        /\ report'.week = report.week /\ report'.before = report.before
        /\ report'.trimmed = report.trimmed /\ report'.counted.here = rows
        /\ report'.days = report.days /\ report'.note = report.note
    BY <1>2, <1>4 DEF Usage!CountReads, Fields_Report
  <2>2. report'.reads # None => ~report.trimmed
    BY <1>2, <1>4 DEF Usage!CountReads, Fields_Report
  <2>3. report.days = None /\ report.note = None
    BY <1>2, <2>1 DEF ReportHolds
  <2>4. Usage!In(report.before, report.week)' = Usage!In(report.before, report.week)
    BY <2>1 DEF Usage!In
  <2>5. ~report.trimmed => Usage!In(report.before, report.week) \subseteq overrun
    BY <1>2, <2>1 DEF ReportHolds
  <2>. QED
    BY <1>1, <2>1, <2>2, <2>3, <2>4, <2>5, UsageFits DEF ReportHolds
<1>5. CASE Usage!CountDays
  <2>. DEFINE D == Usage!Times(Usage!In(rows, report.week))
                     \cup {d \in metered : report.week.start <= d /\ d < report.week.end}
  <2>1. /\ report.step = "days" /\ DOMAIN report' = Fields_Report /\ report'.step = "first"
        /\ report'.week = report.week /\ report'.before = report.before
        /\ report'.trimmed = report.trimmed /\ report'.counted = report.counted
        /\ report'.reads = report.reads /\ report'.note = report.note
        /\ report'.days = IF report.trimmed \/ Usage!BeforeInstall THEN None ELSE D
    BY <1>2, <1>5 DEF Usage!CountDays, Fields_Report
  <2>2. report.counted.here \subseteq rows \cup gone
    BY <1>2, <2>1 DEF ReportHolds
  <2>3. (Usage!Times(Usage!In(report.counted.here \ gone, report.week)))'
          = Usage!Times(Usage!In(report.counted.here \ gone, report.week))
    BY <1>1, <2>1 DEF Usage!Times, Usage!In
  <2>4. Usage!Times(Usage!In(report.counted.here \ gone, report.week)) \subseteq D
    BY <2>2 DEF Usage!Times, Usage!In
  <2>5. Usage!In(report.before, report.week)' = Usage!In(report.before, report.week)
    BY <2>1 DEF Usage!In
  <2>6. /\ ~report.trimmed => Usage!In(report.before, report.week) \subseteq overrun
        /\ report.reads # None => ~report.trimmed
        /\ report.note = None
    BY <1>2, <2>1 DEF ReportHolds
  <2>. HIDE DEF D
  <2>. QED
    BY <1>1, <2>1, <2>2, <2>3, <2>4, <2>5, <2>6, UsageFits DEF ReportHolds
<1>6. CASE Usage!FindFirst
  <2>1. /\ report.step = "first" /\ DOMAIN report' = Fields_Report
        /\ report'.week = report.week /\ report'.before = report.before
        /\ report'.trimmed = report.trimmed /\ report'.counted = report.counted
        /\ report'.reads = report.reads /\ report'.days = report.days
    BY <1>2, <1>6 DEF Usage!FindFirst, Fields_Report
  <2>2. \/ report'.step = "done" /\ report'.note \in {report.note, "before_install"}
        \/ /\ report'.step = "why" /\ report'.note = report.note
           /\ report'.found = rows \cup gone /\ rows = {}
    BY <1>2, <1>6 DEF Usage!FindFirst, Fields_Report
  <2>3. (Usage!Times(Usage!In(report.counted.here \ gone, report.week)))'
          = Usage!Times(Usage!In(report.counted.here \ gone, report.week))
    BY <1>1, <2>1 DEF Usage!Times, Usage!In
  <2>4. Usage!In(report.before, report.week)' = Usage!In(report.before, report.week)
    BY <2>1 DEF Usage!In
  <2>5. /\ ~report.trimmed => Usage!In(report.before, report.week) \subseteq overrun
        /\ report.reads # None => ~report.trimmed
        /\ report.note = None
        /\ report.counted.here \subseteq rows \cup gone
        /\ report.days # None =>
             Usage!Times(Usage!In(report.counted.here \ gone, report.week)) \subseteq report.days
    BY <1>2, <2>1 DEF ReportHolds
  <2>. QED
    BY <1>1, <2>1, <2>2, <2>3, <2>4, <2>5, UsageFits DEF ReportHolds
<1>7. CASE Usage!AskWhy
  <2>1. /\ report.step = "why" /\ DOMAIN report' = Fields_Report /\ report'.step = "done"
        /\ report'.week = report.week /\ report'.before = report.before
        /\ report'.trimmed = report.trimmed /\ report'.counted = report.counted
        /\ report'.reads = report.reads /\ report'.days = report.days
        /\ report'.found = report.found
        /\ report'.note = IF checkpoints # {} THEN "audit_trimmed" ELSE "no_successful_read"
    BY <1>2, <1>7 DEF Usage!AskWhy, Fields_Report
  <2>2. report'.note = "no_successful_read" => report'.found = {}
    <3>1. report.found \subseteq gone
      BY <1>2, <2>1 DEF ReportHolds
    <3>2. gone # {} => checkpoints # {}
      BY <1>2 DEF GoneIsAttested
    <3>. QED
      BY <2>1, <3>1, <3>2
  <2>3. (Usage!Times(Usage!In(report.counted.here \ gone, report.week)))'
          = Usage!Times(Usage!In(report.counted.here \ gone, report.week))
    BY <1>1, <2>1 DEF Usage!Times, Usage!In
  <2>4. Usage!In(report.before, report.week)' = Usage!In(report.before, report.week)
    BY <2>1 DEF Usage!In
  <2>5. /\ ~report.trimmed => Usage!In(report.before, report.week) \subseteq overrun
        /\ report.reads # None => ~report.trimmed
        /\ report.counted.here \subseteq rows \cup gone
        /\ report.days # None =>
             Usage!Times(Usage!In(report.counted.here \ gone, report.week)) \subseteq report.days
    BY <1>2, <2>1 DEF ReportHolds
  <2>. QED
    BY <1>1, <2>1, <2>2, <2>3, <2>4, <2>5 DEF ReportHolds
<1>. QED
  BY <1>3, <1>4, <1>5, <1>6, <1>7

LEMMA UsageStep == UsageInv /\ Usage!UsageReportNext => UsageInv'
<1>. SUFFICES ASSUME UsageInv, Usage!UsageReportNext PROVE UsageInv'
  OBVIOUS
<1>1. CASE Usage!Happens
  <2>1. report' = report
    BY <1>1 DEF Usage!Happens
  <2>. QED
    BY <1>1, <2>1, TrailMovesOn, ReportWaits DEF UsageInv
<1>2. CASE Usage!Meter
  <2>1. /\ report' = report /\ rows' = rows /\ gone' = gone /\ overrun' = overrun
        /\ checkpoints' = checkpoints /\ erasing' = erasing /\ stamped' = stamped /\ day' = day
    BY <1>2 DEF Usage!Meter, Usage!trailVars
  <2>2. RowsHaveTimes' /\ GoneIsAttested'
    BY <2>1 DEF UsageInv, RowsHaveTimes, GoneIsAttested
  <2>3. ReportHolds'
    BY <2>1, ReportWaits DEF UsageInv
  <2>. QED
    BY <2>2, <2>3 DEF UsageInv
<1>3. CASE \/ \E w \in Weeks : Usage!CheckTrims(w)
           \/ Usage!CountReads \/ Usage!CountDays \/ Usage!FindFirst \/ Usage!AskWhy
  <2>1. /\ rows' = rows /\ gone' = gone /\ overrun' = overrun
        /\ checkpoints' = checkpoints /\ erasing' = erasing /\ stamped' = stamped /\ day' = day
    BY <1>3 DEF Usage!CheckTrims, Usage!CountReads, Usage!CountDays, Usage!FindFirst, Usage!AskWhy,
         Usage!trailVars
  <2>2. RowsHaveTimes' /\ GoneIsAttested'
    BY <2>1 DEF UsageInv, RowsHaveTimes, GoneIsAttested
  <2>3. ReportHolds'
    BY <1>3, ReportMovesOn
  <2>. QED
    BY <2>2, <2>3 DEF UsageInv
<1>. QED
  BY <1>1, <1>2, <1>3 DEF Usage!UsageReportNext

LEMMA UsageStands ==
  ASSUME UsageInv, UNCHANGED usage PROVE UsageInv'
<1>1. /\ report' = report /\ rows' = rows /\ gone' = gone /\ overrun' = overrun
      /\ checkpoints' = checkpoints /\ erasing' = erasing /\ stamped' = stamped /\ day' = day
  BY DEF usage
<1>2. RowsHaveTimes' /\ GoneIsAttested'
  BY <1>1 DEF UsageInv, RowsHaveTimes, GoneIsAttested
<1>3. ReportHolds'
  BY <1>1, ReportWaits DEF UsageInv
<1>. QED
  BY <1>2, <1>3 DEF UsageInv

-----------------------------------------------------------------------------
(* The calendar.  A year is 365 or 366 days long, so years follow each other
   and every day is in one of them.                                        *)

LEMMA YearsFollow ==
  ASSUME NEW y \in Nat, NEW z \in Nat, y < z
  PROVE  Days!NewYear(y + 1) \in Int /\ Days!NewYear(z) \in Int /\ Days!NewYear(y + 1) <= Days!NewYear(z)
BY DEF Days!NewYear, Days!LeapDaysBefore

LEMMA YearsAreLong ==
  ASSUME NEW y \in Nat, y >= 1970
  PROVE  /\ Days!NewYear(y) \in Int
         /\ 365 * (y - 1970) <= Days!NewYear(y) /\ Days!NewYear(y) <= 366 * (y - 1970)
BY DEF Days!NewYear, Days!LeapDaysBefore

InYear(d, y) == Days!NewYear(y) <= d /\ d < Days!NewYear(y + 1)

LEMMA OneYear ==
  ASSUME NEW d \in Nat, NEW y \in Nat, NEW z \in Nat, InYear(d, y), InYear(d, z)
  PROVE  y = z
<1>1. CASE y < z
  BY <1>1, YearsFollow DEF InYear
<1>2. CASE z < y
  <2>1. Days!NewYear(z + 1) \in Int /\ Days!NewYear(y) \in Int /\ Days!NewYear(z + 1) <= Days!NewYear(y)
    BY <1>2, YearsFollow
  <2>. QED
    BY <2>1 DEF InYear
<1>. QED
  BY <1>1, <1>2

LEMMA EveryDayHasAYear ==
  ASSUME NEW d \in Nat
  PROVE  \E y \in Nat : /\ y >= 1970 /\ InYear(d, y)
                        /\ 1969 + d \div 366 <= y /\ y <= 1971 + d \div 365
<1>. DEFINE EndsAfter(z) == z >= 1970 /\ d < Days!NewYear(z + 1)
            Ends == {z \in Nat : EndsAfter(z)}
<1>1. \E z \in Nat : EndsAfter(z)
  <2>1. PICK z \in Nat, w \in Nat : z = 1970 + d /\ w = z + 1
    OBVIOUS
  <2>2. Days!NewYear(w) \in Int /\ Days!NewYear(w) >= 365 * (w - 1970)
    BY <2>1, YearsAreLong
  <2>3. d < Days!NewYear(w)
    BY <2>1, <2>2
  <2>4. EndsAfter(z)
    BY <2>1, <2>3
  <2>. QED
    BY <2>4
<1>2. PICK y \in Nat : EndsAfter(y) /\ \A z \in Nat : EndsAfter(z) => y <= z
  <2>. HIDE DEF EndsAfter
  <2>1. Ends \subseteq Nat /\ Ends # {}
    BY <1>1
  <2>2. PICK y \in Ends : \A z \in Ends : y <= z
    <3>. HIDE DEF Ends
    <3>. QED
      BY <2>1, LeastOf
  <2>. QED
    BY <2>2
<1>3. Days!NewYear(y) \in Int /\ 365 * (y - 1970) <= Days!NewYear(y) /\ Days!NewYear(y) <= 366 * (y - 1970)
  BY <1>2, YearsAreLong
<1>4. Days!NewYear(y) <= d
  <2>1. CASE y = 1970
    BY <1>3, <2>1
  <2>2. CASE y > 1970
    <3>1. y - 1 \in Nat /\ y - 1 >= 1970 /\ ~EndsAfter(y - 1) /\ (y - 1) + 1 = y
      BY <1>2, <2>2
    <3>. QED
      BY <1>3, <3>1
  <2>. QED
    BY <1>2, <2>1, <2>2
<1>5. Days!NewYear(y + 1) \in Int /\ Days!NewYear(y + 1) <= 366 * (y + 1 - 1970)
  <2>1. PICK w \in Nat : w = y + 1
    OBVIOUS
  <2>2. Days!NewYear(w) \in Int /\ Days!NewYear(w) <= 366 * (w - 1970)
    BY <1>2, <2>1, YearsAreLong
  <2>. QED
    BY <2>1, <2>2
<1>6. 1969 + d \div 366 <= y
  BY <1>2, <1>5
<1>7. y <= 1971 + d \div 365
  BY <1>2, <1>3, <1>4
<1>. QED
  BY <1>2, <1>4, <1>6, <1>7 DEF InYear

LEMMA YearOfDay ==
  ASSUME NEW d \in Nat
  PROVE  /\ Days!YearOf(d) \in Nat /\ Days!YearOf(d) >= 1970 /\ InYear(d, Days!YearOf(d))
         /\ \A y \in Nat : InYear(d, y) => y = Days!YearOf(d)
<1>1. PICK y \in Nat : /\ y >= 1970 /\ InYear(d, y)
                       /\ 1969 + d \div 366 <= y /\ y <= 1971 + d \div 365
  BY EveryDayHasAYear
<1>2. y \in (1969 + d \div 366)..(1971 + d \div 365)
  BY <1>1
<1>3. /\ Days!YearOf(d) \in (1969 + d \div 366)..(1971 + d \div 365)
      /\ InYear(d, Days!YearOf(d))
  BY <1>1, <1>2 DEF Days!YearOf, InYear
<1>4. Days!YearOf(d) \in Nat
  BY <1>3
<1>. QED
  BY <1>1, <1>3, <1>4, OneYear

(* The Thursday of a day's week, and what it fixes. *)
Thursday(d) == d + 4 - Days!Weekday(d)

LEMMA ThursdayOfDay ==
  ASSUME NEW d \in Nat
  PROVE  /\ Thursday(d) \in Int /\ Thursday(d) % 7 = 0
         /\ d - 3 <= Thursday(d) /\ Thursday(d) <= d + 3
         /\ \A t \in Int : t % 7 = 0 /\ d - 3 <= t /\ t <= d + 3 => t = Thursday(d)
BY DEF Thursday, Days!Weekday

(* How many Thursdays there are from a day to a Thursday. *)
LEMMA ThursdaysCounted ==
  ASSUME NEW a \in Int, NEW b \in Int, a <= b, b % 7 = 0
  PROVE  Cardinality({t \in a..b : t % 7 = 0}) = (b - a + 7) \div 7
<1>. DEFINE n == (b - a + 7) \div 7
            T == {t \in a..b : t % 7 = 0}
            f == [k \in 1..n |-> b - 7 * (n - k)]
<1>1. n \in Nat /\ n >= 1 /\ 7 * (n - 1) <= b - a /\ b - a < 7 * n
  OBVIOUS
<1>2. \A k \in 1..n : f[k] \in T
  BY <1>1
<1>3. \A t \in T : \E k \in 1..n : f[k] = t
  <2>. TAKE t \in T
  <2>1. PICK m \in Int : b - t = 7 * m
    <3>1. b - t = 7 * ((b - t) \div 7) /\ (b - t) \div 7 \in Int
      OBVIOUS
    <3>. QED
      BY <3>1
  <2>2. n - m \in 1..n
    BY <1>1, <2>1
  <2>3. f[n - m] = t
    BY <1>1, <2>1, <2>2
  <2>. QED
    BY <2>2, <2>3
<1>4. \A j, k \in 1..n : f[j] = f[k] => j = k
  BY <1>1
<1>. HIDE DEF n, T, f
<1>5. f \in Bijection(1..n, T)
  BY <1>2, <1>3, <1>4, Fun_IsBij DEF f
<1>6. Cardinality(T) = Cardinality(1..n) /\ Cardinality(1..n) = n
  BY <1>1, <1>5, FS_Interval, FS_Bijection DEF ExistsBijection
<1>. QED
  BY <1>6 DEF n, T

(* A day is in the week that is counted for its Thursday, which is the one
   ISO 8601 puts it in.                                                    *)
LEMMA WeekOfDay ==
  ASSUME NEW d \in Nat, Thursday(d) \in Nat
  PROVE  \E y \in Nat, n \in Nat \ {0} :
           /\ Days!IsoWeekOf(d) = <<y, n>> /\ Days!Reference(d) = <<y, n>>
           /\ y >= 1970 /\ InYear(Thursday(d), y)
           /\ n = (Thursday(d) - Days!NewYear(y) + 7) \div 7
<1>1. Thursday(d) % 7 = 0 /\ d - 3 <= Thursday(d) /\ Thursday(d) <= d + 3
  BY ThursdayOfDay
<1>. DEFINE th == Thursday(d)
            y  == Days!YearOf(th)
            n  == (th - Days!NewYear(y) + 7) \div 7
<1>2. /\ y \in Nat /\ y >= 1970 /\ InYear(th, y) /\ Days!NewYear(y) \in Int
      /\ \A z \in Nat : InYear(th, z) => z = y
  BY YearOfDay, YearsAreLong
<1>3. n \in Nat \ {0}
  BY <1>2 DEF InYear
<1>4. Days!IsoWeekOf(d) = <<y, n>>
  <2>1. th - Days!NewYear(y) + 1 + 6 = th - Days!NewYear(y) + 7
    BY <1>2
  <2>. QED
    BY <2>1 DEF Days!IsoWeekOf, Thursday
<1>5. Days!Reference(d) = <<y, n>>
  <2>. DEFINE m == CHOOSE m \in (d - 6)..d : m % 7 = 4
              Y(k) == CHOOSE z \in 1969..(1971 + d) : Days!NewYear(z) <= k /\ k < Days!NewYear(z + 1)
  <2>1. m + 3 = th
    <3>1. th - 3 \in (d - 6)..d /\ (th - 3) % 7 = 4
      BY <1>1
    <3>2. m \in (d - 6)..d /\ m % 7 = 4
      BY <3>1
    <3>. HIDE DEF m
    <3>3. m + 3 \in Int /\ (m + 3) % 7 = 0 /\ d - 3 <= m + 3 /\ m + 3 <= d + 3
      BY <3>2
    <3>. QED
      BY <3>3, ThursdayOfDay
  <2>2. Y(th) = y
    <3>1. y \in 1969..(1971 + d)
      BY <1>1, <1>2, YearsAreLong DEF InYear
    <3>2. Y(th) \in 1969..(1971 + d) /\ InYear(th, Y(th))
      BY <1>2, <3>1 DEF InYear
    <3>. HIDE DEF Y
    <3>. QED
      BY <1>2, <3>2
  <2>3. Cardinality({t \in Days!NewYear(y)..th : t % 7 = 0}) = n
    BY <1>1, <1>2, ThursdaysCounted DEF InYear
  <2>4. \A S : Days!Cardinality(S) = Cardinality(S)
    BY Zenon DEF Cardinality, Days!Cardinality
  <2>5. Days!Reference(d) =
          <<Y(m + 3), Days!Cardinality({t \in Days!NewYear(Y(m + 3))..(m + 3) : t % 7 = 0})>>
    BY Zenon DEF Days!Reference
  <2>. HIDE DEF m, Y
  <2>. QED
    BY <2>1, <2>2, <2>3, <2>4, <2>5
<1>. QED
  BY <1>2, <1>3, <1>4, <1>5

(* The days of a week are those whose Thursday is its Thursday. *)
LEMMA RangeOfWeek ==
  ASSUME NEW d \in Nat, Thursday(d) \in Nat, Thursday(d) >= 3
  PROVE  Days!IsoWeekRange(Days!IsoWeekOf(d)) = [start |-> Thursday(d) - 3, end |-> Thursday(d) + 4]
<1>1. PICK y \in Nat, n \in Nat \ {0} :
        /\ Days!IsoWeekOf(d) = <<y, n>>
        /\ y >= 1970 /\ InYear(Thursday(d), y)
        /\ n = (Thursday(d) - Days!NewYear(y) + 7) \div 7
  BY WeekOfDay
<1>2. Thursday(d) % 7 = 0 /\ Days!NewYear(y) \in Nat
  BY <1>1, ThursdayOfDay, YearsAreLong
<1>. DEFINE th    == Thursday(d)
            jan4  == Days!NewYear(y) + 3
            start == jan4 - (Days!Weekday(jan4) - 1) + (n - 1) * 7
<1>3. start = th - 3
  <2>1. /\ Thursday(jan4) \in Int /\ Thursday(jan4) % 7 = 0
        /\ jan4 - 3 <= Thursday(jan4) /\ Thursday(jan4) <= jan4 + 3
        /\ start = Thursday(jan4) - 3 + (n - 1) * 7
    <3>1. jan4 \in Nat
      BY <1>2
    <3>2. Thursday(jan4) = jan4 + 4 - Days!Weekday(jan4) /\ Days!Weekday(jan4) \in Int
      BY <3>1 DEF Thursday, Days!Weekday
    <3>. HIDE DEF jan4
    <3>. QED
      BY <3>1, <3>2, ThursdayOfDay
  <2>2. Thursday(jan4) + (n - 1) * 7 = th
    BY <1>1, <1>2, <2>1 DEF InYear
  <2>. QED
    BY <1>1, <2>1, <2>2
<1>4. Days!IsoWeekOf(th - 3) = <<y, n>>
  <2>1. th - 3 \in Nat /\ Thursday(th - 3) = th
    BY <1>2 DEF Thursday, Days!Weekday
  <2>. QED
    BY <1>1, <2>1 DEF Days!IsoWeekOf, Thursday
<1>. HIDE DEF start
<1>5. Days!IsoWeekRange(<<y, n>>) = [start |-> start, end |-> start + 7]
  <2>1. <<y, n>>[1] = y /\ <<y, n>>[2] = n /\ ~(n < 1)
    BY <1>1
  <2>. QED
    BY <1>3, <1>4, <2>1, Zenon DEF Days!IsoWeekRange, start
<1>. QED
  BY <1>1, <1>3, <1>5

(* A week that is not refused is one that a year has. *)
LEMMA WeekIsThere ==
  ASSUME NEW y \in Nat, y >= 1970, NEW n \in Nat, n # 1,
         Days!IsoWeekRange(<<y, n>>) # Days!NoSuchWeek
  PROVE  Days!Reference(Days!IsoWeekRange(<<y, n>>).start) = <<y, n>>
<1>. DEFINE jan4  == Days!NewYear(y) + 3
            start == jan4 - (Days!Weekday(jan4) - 1) + (n - 1) * 7
<1>1. /\ n >= 1 /\ Days!IsoWeekOf(start) = <<y, n>>
      /\ Days!IsoWeekRange(<<y, n>>) = [start |-> start, end |-> start + 7]
  <2>. HIDE DEF start
  <2>1. <<y, n>>[1] = y /\ <<y, n>>[2] = n
    OBVIOUS
  <2>2. Days!IsoWeekRange(<<y, n>>) =
          IF n < 1 \/ Days!IsoWeekOf(start) # <<y, n>> THEN Days!NoSuchWeek
          ELSE [start |-> start, end |-> start + 7]
    BY <2>1 DEF Days!IsoWeekRange, start
  <2>. QED
    BY <2>2
<1>2. start \in Nat /\ start >= 4
  <2>1. jan4 \in Nat /\ jan4 >= 3
    BY YearsAreLong
  <2>2. Days!Weekday(jan4) \in 1..7
    BY <2>1 DEF Days!Weekday
  <2>. HIDE DEF jan4
  <2>. QED
    BY <1>1, <2>1, <2>2
<1>. HIDE DEF start
<1>3. Thursday(start) \in Nat
  <2>1. Thursday(start) \in Int /\ start - 3 <= Thursday(start)
    BY <1>2 DEF Thursday, Days!Weekday
  <2>. QED
    BY <1>2, <2>1
<1>4. Days!Reference(start) = Days!IsoWeekOf(start)
  BY <1>2, <1>3, WeekOfDay
<1>. QED
  BY <1>1, <1>4

LEMMA WeeksOfADay ==
  ASSUME today \in Nat, today >= 14 PROVE Days!WeeksAreIso
<1>1. PICK d \in Nat : d = today - 7
  OBVIOUS
<1>2. /\ Thursday(today) \in Nat /\ Thursday(today) % 7 = 0
      /\ today - 3 <= Thursday(today) /\ Thursday(today) <= today + 3
      /\ Thursday(d) \in Nat /\ Thursday(d) = Thursday(today) - 7
  BY <1>1, ThursdayOfDay DEF Thursday, Days!Weekday
<1>3. PICK y \in Nat, n \in Nat \ {0} :
        y >= 1970 /\ Days!IsoWeekOf(today) = <<y, n>> /\ Days!Reference(today) = <<y, n>>
  BY <1>2, WeekOfDay
<1>4. /\ Days!IsoWeekRange(Days!IsoWeekOf(today)) = [start |-> Thursday(today) - 3, end |-> Thursday(today) + 4]
      /\ Days!IsoWeekRange(Days!IsoWeekOf(d)) = [start |-> Thursday(d) - 3, end |-> Thursday(d) + 4]
  BY <1>1, <1>2, RangeOfWeek
<1>5. Days!DefaultWeek(today) = Days!IsoWeekOf(d)
  BY <1>1 DEF Days!DefaultWeek
<1>6. \A m \in {0, 53, 54} :
        Days!IsoWeekRange(<<y, m>>) # Days!NoSuchWeek =>
          Days!Reference(Days!IsoWeekRange(<<y, m>>).start) = <<y, m>>
  BY <1>3, WeekIsThere
<1>7. <<y, n>>[1] = y
  OBVIOUS
<1>8. /\ Thursday(today) - 3 <= today /\ today < Thursday(today) + 4
      /\ Thursday(d) + 4 = Thursday(today) - 3
  BY <1>2
<1>. QED
  BY <1>3, <1>4, <1>5, <1>6, <1>7, <1>8 DEF Days!WeeksAreIso

CalendarInv == today \in Nat /\ today >= 14

(* A usage report that gives a number has missed nothing that was gone when it
   looked for removals, but for an erasure's overrun; it says that nothing was
   ever read only if nothing was, although each of its queries sees the trail
   of another moment; and on every day from the first weeks of 1970 on it is
   about the ISO week it names (usage-report.ts, buildUsageReport, isoWeekOf
   and isoWeekRange).                                                       *)
THEOREM ReportsStayHonest == Spec => []ReportIsHonest
<1>. DEFINE I == (part = "usage" => UsageInv) /\ (part = "calendar" => CalendarInv)
<1>1. Init => I
  <2>1. Init => CalendarInv
    BY ConstantsFit DEF Init, Days!CalendarInit, Days!CalendarConstants, CalendarInv
  <2>. QED
    BY <2>1, UsageBegins
<1>2. I /\ [Next]_vars => I'
  <2>1. ASSUME I, [Next]_vars, part' = "usage" PROVE UsageInv'
    <3>1. part = "usage" /\ UsageInv
      BY <2>1, PartStands
    <3>2. CASE Usage!UsageReportNext
      BY <3>1, <3>2, UsageStep
    <3>3. CASE UNCHANGED usage
      BY <3>1, <3>3, UsageStands
    <3>. QED
      BY <2>1, <3>1, <3>2, <3>3 DEF Next, vars, services, others, usage
  <2>2. ASSUME I, [Next]_vars, part' = "calendar" PROVE CalendarInv'
    <3>1. part = "calendar" /\ CalendarInv
      BY <2>2, PartStands
    <3>2. today' = today \/ today' = today + 1
      BY <2>2, <3>1 DEF Next, vars, others, Days!CalendarNext
    <3>. QED
      BY <3>1, <3>2 DEF CalendarInv
  <2>. QED
    BY <2>1, <2>2
<1>3. I => ReportIsHonest
  <2>1. ASSUME UsageInv PROVE Usage!ReportIsHonest
    <3>1. Usage!In(report.counted.gone, report.week) \cap report.before
            \subseteq Usage!In(report.before, report.week)
      BY DEF Usage!In
    <3>. QED
      BY <2>1, <3>1 DEF UsageInv, ReportHolds, Usage!ReportIsHonest
  <2>2. CalendarInv => Days!WeeksAreIso
    BY WeeksOfADay DEF CalendarInv
  <2>. QED
    BY <2>1, <2>2 DEF ReportIsHonest
<1>. QED
  BY <1>1, <1>2, <1>3, PTL DEF Spec

-----------------------------------------------------------------------------
(* The background jobs. *)

RoundRecord ==
  [stage : {"work", "record", "returned", "threw", "cut"}, job : 1..4, whole : BOOLEAN,
   dry : BOOLEAN, policy : BOOLEAN, outcome : {"ok", "failed"},
   failed : SUBSET (1..4), tried : SUBSET (1..4)]

RoundsType ==
  /\ run \in [Runs -> RoundRecord \cup {[stage |-> "new"]}]
  /\ jobRun \subseteq [run : Runs, job : 1..4, outcome : {"ok", "failed"}, mode : {"dry", "live"}]
  /\ changed \subseteq Runs \X (1..4)

(* How far along its plan a call is. *)
OnPlan(k) ==
  /\ k.job \in Rounds!Plan(k) /\ k.tried \subseteq Rounds!Plan(k)
  /\ k.stage = "work" => k.tried = {j \in Rounds!Plan(k) : j < k.job}
  /\ k.stage = "record" => k.tried = {j \in Rounds!Plan(k) : j <= k.job}
  /\ k.stage \in {"returned", "threw"} => k.tried = Rounds!Plan(k)
  /\ k.stage = "returned" => k.failed = {}

(* A call that has not begun has left no trace.  What another tried is on record
   or in its errors, but for the job it is about to record, or was cut off at;
   what it has recorded or changed it has tried, and a dry record is of a job that
   changed nothing.                                                         *)
RoundHolds(r) ==
  LET k == run[r]
  IN  IF k.stage = "new"
      THEN (\A row \in jobRun : row.run # r) /\ (\A c \in changed : c[1] # r)
      ELSE /\ k \in RoundRecord /\ OnPlan(k)
           /\ \A j \in k.tried : \/ Rounds!Recorded(r, j) \/ j \in k.failed
                                 \/ k.stage \in {"record", "cut"} /\ j = k.job
           /\ \A row \in jobRun : row.run = r =>
                /\ row.job \in k.tried /\ (k.stage = "record" => row.job # k.job)
                /\ row.mode = "dry" => <<r, row.job>> \notin changed
           /\ \A c \in changed : c[1] = r => c[2] \in k.tried /\ (k.dry => c[2] \in {1, 4})

RoundsInv == RoundsType /\ \A r \in Runs : RoundHolds(r)

LEMMA RoundsBegin == Init => RoundsInv
<1>. SUFFICES ASSUME Init PROVE RoundsInv
  OBVIOUS
<1>1. run = [r \in Runs |-> [stage |-> "new"]] /\ jobRun = {} /\ changed = {}
  BY DEF Init, Rounds!JobsInit
<1>. QED
  BY <1>1 DEF RoundsInv, RoundsType, RoundHolds

(* A step of one call is nothing to another. *)
LEMMA OneCallAtATime ==
  ASSUME RoundsInv, NEW r \in Runs, NEW k, run' = [run EXCEPT ![r] = k], RoundsType',
         jobRun \subseteq jobRun', \A row \in jobRun' \ jobRun : row.run = r,
         changed \subseteq changed', \A c \in changed' \ changed : c[1] = r,
         RoundHolds(r)'
  PROVE  RoundsInv'
<1>. SUFFICES ASSUME NEW s \in Runs, s # r PROVE RoundHolds(s)'
  BY DEF RoundsInv
<1>1. run'[s] = run[s] /\ RoundHolds(s)
  BY DEF RoundsInv, RoundsType
<1>2. \A j : Rounds!Recorded(s, j) => Rounds!Recorded(s, j)'
  BY DEF Rounds!Recorded
<1>3. \A j : <<s, j>> \in changed' => <<s, j>> \in changed
  OBVIOUS
<1>4. CASE run[s].stage = "new"
  BY <1>1, <1>4 DEF RoundHolds
<1>5. CASE run[s].stage # "new"
  BY <1>1, <1>2, <1>3, <1>5 DEF RoundHolds
<1>. QED
  BY <1>4, <1>5

(* The turn of the next job, or the end. *)
LEMMA NextTurn ==
  ASSUME NEW k \in RoundRecord, OnPlan(k), k.stage = "record", NEW outcome \in {"ok", "failed"}
  PROVE  LET n == Rounds!AfterJob(k, outcome)
         IN  /\ n \in RoundRecord /\ OnPlan(n) /\ n.stage \in {"work", "returned", "threw"}
             /\ n.tried = k.tried /\ n.dry = k.dry
             /\ n.failed = IF outcome = "ok" THEN k.failed ELSE k.failed \cup {k.job}
<1>. DEFINE failed == IF outcome = "ok" THEN k.failed ELSE k.failed \cup {k.job}
            rest == {j \in Rounds!Plan(k) : j > k.job}
            next == CHOOSE j \in rest : \A i \in rest : j <= i
<1>1. failed \subseteq 1..4 /\ Rounds!Plan(k) \subseteq 1..4 /\ k.job \in 1..4
  BY DEF RoundRecord, Rounds!Plan
<1>2. CASE rest # {}
  <2>1. \E j \in rest : \A i \in rest : j <= i
    BY <1>1, <1>2, LeastOf
  <2>2. next \in rest /\ \A i \in rest : next <= i
    BY <2>1
  <2>. DEFINE n == [k EXCEPT !.stage = "work", !.failed = failed, !.job = next]
  <2>3. Rounds!AfterJob(k, outcome) = n
    BY <1>2 DEF Rounds!AfterJob
  <2>. HIDE DEF next, failed
  <2>4. /\ n \in RoundRecord /\ n.stage = "work" /\ n.tried = k.tried /\ n.dry = k.dry
        /\ n.failed = failed /\ n.job = next /\ n.whole = k.whole /\ n.policy = k.policy
    BY <1>1, <2>2 DEF RoundRecord
  <2>. HIDE DEF n
  <2>5. Rounds!Plan(n) = Rounds!Plan(k)
    <3>1. CASE k.whole
      BY <2>4, <3>1 DEF Rounds!Plan
    <3>2. CASE ~k.whole
      BY <1>2, <3>2 DEF Rounds!Plan, RoundRecord
    <3>. QED
      BY <3>1, <3>2
  <2>6. {j \in Rounds!Plan(k) : j <= k.job} = {j \in Rounds!Plan(k) : j < next}
    BY <1>1, <2>2
  <2>7. OnPlan(n)
    BY <2>2, <2>4, <2>5, <2>6 DEF OnPlan
  <2>. QED
    BY <2>3, <2>4, <2>7 DEF failed
<1>3. CASE rest = {}
  <2>. DEFINE n == [k EXCEPT !.stage = IF failed = {} THEN "returned" ELSE "threw", !.failed = failed]
  <2>1. Rounds!AfterJob(k, outcome) = n
    BY <1>3 DEF Rounds!AfterJob
  <2>. HIDE DEF failed
  <2>2. /\ n \in RoundRecord /\ n.tried = k.tried /\ n.dry = k.dry /\ n.failed = failed
        /\ n.stage = (IF failed = {} THEN "returned" ELSE "threw")
        /\ n.job = k.job /\ n.whole = k.whole /\ n.policy = k.policy
    BY <1>1 DEF RoundRecord
  <2>. HIDE DEF n
  <2>3. Rounds!Plan(n) = Rounds!Plan(k)
    BY <2>2 DEF Rounds!Plan
  <2>4. k.tried = Rounds!Plan(k)
    BY <1>1, <1>3 DEF OnPlan
  <2>5. OnPlan(n)
    BY <2>2, <2>3, <2>4 DEF OnPlan
  <2>. QED
    BY <2>1, <2>2, <2>5 DEF failed
<1>. QED
  BY <1>2, <1>3

LEMMA RoundsStep == RoundsInv /\ Rounds!JobsNext => RoundsInv'
<1>. SUFFICES ASSUME RoundsInv, NEW r \in Runs,
       \/ \E dry, policy \in BOOLEAN : Rounds!BeginMaintenance(r, dry, policy)
       \/ \E job \in 1..4, dry \in BOOLEAN : Rounds!BeginJob(r, job, dry)
       \/ Rounds!FindsNothing(r) \/ Rounds!ChangesSomething(r) \/ Rounds!Throws(r)
       \/ Rounds!Record(r) \/ Rounds!RecordRefused(r) \/ Rounds!IsCutOff(r)
     PROVE RoundsInv'
  BY DEF Rounds!JobsNext
<1>. DEFINE k == run[r]
<1>1. /\ RoundsType /\ RoundHolds(r)
      /\ k.stage # "new" => k \in RoundRecord /\ OnPlan(k)
      /\ k.stage = "new" => k = [stage |-> "new"]
  BY DEF RoundsInv, RoundsType, RoundHolds, RoundRecord
<1>2. ASSUME NEW n \in RoundRecord, n.stage = "work", n.tried = {}, n.job \in Rounds!Plan(n),
             \A j \in Rounds!Plan(n) : ~(j < n.job),
             k.stage = "new", run' = [run EXCEPT ![r] = n], UNCHANGED <<jobRun, changed>>
      PROVE  RoundsInv'
  <2>1. {} = {j \in Rounds!Plan(n) : j < n.job}
    BY <1>2
  <2>2. OnPlan(n)
    BY <1>2, <2>1 DEF OnPlan
  <2>3. run'[r] = n
    BY <1>1, <1>2 DEF RoundsType
  <2>4. RoundsType'
    BY <1>1, <1>2 DEF RoundsType
  <2>5. RoundHolds(r)'
    BY <1>1, <1>2, <2>2, <2>3 DEF RoundHolds
  <2>. QED
    BY <1>2, <2>4, <2>5, OneCallAtATime
<1>3. CASE \E dry, policy \in BOOLEAN : Rounds!BeginMaintenance(r, dry, policy)
  <2>1. PICK dry, policy \in BOOLEAN : Rounds!BeginMaintenance(r, dry, policy)
    BY <1>3
  <2>. DEFINE n == Rounds!Started(1, TRUE, dry, policy)
  <2>2. n \in RoundRecord /\ n.stage = "work" /\ n.tried = {} /\ n.job = 1 /\ n.whole
    BY <2>1 DEF Rounds!Started, RoundRecord
  <2>3. k.stage = "new" /\ run' = [run EXCEPT ![r] = n] /\ UNCHANGED <<jobRun, changed>>
    BY <2>1 DEF Rounds!BeginMaintenance
  <2>. HIDE DEF n
  <2>4. n.job \in Rounds!Plan(n) /\ \A j \in Rounds!Plan(n) : ~(j < n.job)
    BY <2>2 DEF Rounds!Plan
  <2>. QED
    BY <1>2, <2>2, <2>3, <2>4
<1>4. CASE \E job \in 1..4, dry \in BOOLEAN : Rounds!BeginJob(r, job, dry)
  <2>1. PICK job \in 1..4, dry \in BOOLEAN : Rounds!BeginJob(r, job, dry)
    BY <1>4
  <2>. DEFINE n == Rounds!Started(job, FALSE, dry, TRUE)
  <2>2. n \in RoundRecord /\ n.stage = "work" /\ n.tried = {} /\ n.job = job /\ n.whole = FALSE
    BY <2>1 DEF Rounds!Started, RoundRecord
  <2>3. k.stage = "new" /\ run' = [run EXCEPT ![r] = n] /\ UNCHANGED <<jobRun, changed>>
    BY <2>1 DEF Rounds!BeginJob
  <2>. HIDE DEF n
  <2>4. n.job \in Rounds!Plan(n) /\ \A j \in Rounds!Plan(n) : ~(j < n.job)
    BY <2>1, <2>2 DEF Rounds!Plan
  <2>. QED
    BY <1>2, <2>2, <2>3, <2>4
<1>5. ASSUME NEW outcome \in {"ok", "failed"}, k.stage = "work", jobRun' = jobRun,
             run' = [run EXCEPT ![r].stage = "record", ![r].outcome = outcome,
                                ![r].tried = @ \cup {run[r].job}],
             \/ changed' = changed
             \/ Rounds!Live(k) /\ changed' = changed \cup {<<r, k.job>>}
      PROVE  RoundsInv'
  <2>. DEFINE n == [k EXCEPT !.stage = "record", !.outcome = outcome, !.tried = k.tried \cup {k.job}]
  <2>0. k \in RoundRecord /\ OnPlan(k)
    BY <1>1, <1>5
  <2>1. /\ n \in RoundRecord /\ n.stage = "record" /\ n.tried = k.tried \cup {k.job}
        /\ n.job = k.job /\ n.failed = k.failed /\ n.whole = k.whole /\ n.policy = k.policy
        /\ n.dry = k.dry
    BY <2>0 DEF RoundRecord
  <2>2. run' = [run EXCEPT ![r] = n] /\ run'[r] = n
    BY <1>1, <1>5, <2>0 DEF RoundsType, RoundRecord
  <2>. HIDE DEF n
  <2>3. Rounds!Plan(n) = Rounds!Plan(k) /\ Rounds!Plan(k) \subseteq 1..4 /\ k.job \in 1..4
    BY <2>0, <2>1 DEF Rounds!Plan, RoundRecord
  <2>4. k.tried = {j \in Rounds!Plan(k) : j < k.job} /\ k.job \in Rounds!Plan(k)
    BY <1>5, <2>0 DEF OnPlan
  <2>5. k.tried \cup {k.job} = {j \in Rounds!Plan(k) : j <= k.job} /\ k.job \notin k.tried
    BY <2>3, <2>4
  <2>6. OnPlan(n)
    BY <2>1, <2>3, <2>4, <2>5 DEF OnPlan
  <2>7. RoundsType'
    BY <1>1, <1>5, <2>1, <2>2, <2>3 DEF RoundsType
  <2>8. k.dry /\ Rounds!Live(k) => k.job \in {1, 4}
    BY DEF Rounds!Live
  <2>9. \A j \in n.tried : \/ Rounds!Recorded(r, j)' \/ j \in n.failed \/ j = n.job
    BY <1>1, <1>5, <2>1 DEF RoundHolds, Rounds!Recorded
  <2>10. \A row \in jobRun : row.run = r => /\ row.job \in k.tried /\ row.job # k.job
                                            /\ row.mode = "dry" => <<r, row.job>> \notin changed'
    BY <1>1, <1>5, <2>5 DEF RoundHolds
  <2>11. \A c \in changed' : c[1] = r => c[2] \in n.tried /\ (n.dry => c[2] \in {1, 4})
    BY <1>1, <1>5, <2>1, <2>8 DEF RoundHolds
  <2>12. RoundHolds(r)'
    BY <1>5, <2>1, <2>2, <2>6, <2>9, <2>10, <2>11 DEF RoundHolds
  <2>13. changed \subseteq changed' /\ \A c \in changed' \ changed : c[1] = r
    BY <1>5
  <2>. QED
    BY <1>5, <2>2, <2>7, <2>12, <2>13, OneCallAtATime
<1>6. CASE Rounds!FindsNothing(r)
  BY <1>5, <1>6 DEF Rounds!FindsNothing, Rounds!Works
<1>7. CASE Rounds!ChangesSomething(r)
  BY <1>5, <1>7 DEF Rounds!ChangesSomething, Rounds!Acts
<1>8. CASE Rounds!Throws(r)
  BY <1>5, <1>8 DEF Rounds!Throws, Rounds!Acts, Rounds!Works
<1>9. ASSUME NEW outcome \in {"ok", "failed"}, k.stage = "record", changed' = changed,
             run' = [run EXCEPT ![r] = Rounds!AfterJob(k, outcome)],
             \/ jobRun' = jobRun /\ outcome = "failed"
             \/ \E mode \in {"dry", "live"} :
                  /\ jobRun' = jobRun \cup {[run |-> r, job |-> k.job, outcome |-> outcome, mode |-> mode]}
                  /\ mode = "dry" => ~Rounds!Live(k)
      PROVE  RoundsInv'
  <2>. DEFINE n == Rounds!AfterJob(k, outcome)
  <2>0. k \in RoundRecord /\ OnPlan(k) /\ k.job \in 1..4
    BY <1>1, <1>9 DEF RoundRecord
  <2>1. /\ n \in RoundRecord /\ OnPlan(n) /\ n.stage \in {"work", "returned", "threw"}
        /\ n.tried = k.tried /\ n.dry = k.dry
        /\ n.failed = IF outcome = "ok" THEN k.failed ELSE k.failed \cup {k.job}
    BY <1>9, <2>0, NextTurn
  <2>. HIDE DEF n
  <2>2. run' = [run EXCEPT ![r] = n] /\ run'[r] = n
    BY <1>1, <1>9 DEF n, RoundsType
  <2>3. RoundsType'
    BY <1>1, <1>9, <2>0, <2>1, <2>2 DEF RoundsType
  <2>4. k.job \in k.tried
    BY <1>9, <2>0 DEF OnPlan
  <2>5. /\ jobRun \subseteq jobRun'
        /\ \A row \in jobRun' \ jobRun : /\ row.run = r /\ row.job = k.job
                                         /\ row.mode = "dry" => ~Rounds!Live(k)
    BY <1>9
  <2>11. ASSUME outcome = "ok", NEW j, j = k.job PROVE Rounds!Recorded(r, j)'
    <3>1. PICK mode \in {"dry", "live"} :
            jobRun' = jobRun \cup {[run |-> r, job |-> k.job, outcome |-> outcome, mode |-> mode]}
      BY <1>9, <2>11
    <3>. DEFINE row == [run |-> r, job |-> k.job, outcome |-> outcome, mode |-> mode]
    <3>2. row \in jobRun' /\ row.run = r /\ row.job = j
      BY <2>11, <3>1
    <3>. HIDE DEF row
    <3>. QED
      BY <3>2 DEF Rounds!Recorded
  <2>6. \A j \in n.tried : Rounds!Recorded(r, j)' \/ j \in n.failed
    <3>. SUFFICES ASSUME NEW j \in k.tried PROVE Rounds!Recorded(r, j)' \/ j \in n.failed
      BY <2>1
    <3>1. CASE j = k.job
      BY <1>9, <2>1, <2>11, <3>1
    <3>2. CASE j # k.job
      <4>1. Rounds!Recorded(r, j) \/ j \in k.failed
        BY <1>1, <1>9, <3>2 DEF RoundHolds
      <4>2. Rounds!Recorded(r, j) => Rounds!Recorded(r, j)'
        BY <2>5 DEF Rounds!Recorded
      <4>. QED
        BY <2>1, <4>1, <4>2
    <3>. QED
      BY <3>1, <3>2
  <2>7. ~Rounds!Live(k) => <<r, k.job>> \notin changed
    BY <1>1, <1>9 DEF RoundHolds, Rounds!Live
  <2>8. \A row \in jobRun' : row.run = r => /\ row.job \in n.tried
                                            /\ row.mode = "dry" => <<r, row.job>> \notin changed'
    BY <1>1, <1>9, <2>1, <2>4, <2>5, <2>7 DEF RoundHolds
  <2>9. \A c \in changed' : c[1] = r => c[2] \in n.tried /\ (n.dry => c[2] \in {1, 4})
    BY <1>1, <1>9, <2>1 DEF RoundHolds
  <2>10. RoundHolds(r)'
    BY <2>1, <2>2, <2>6, <2>8, <2>9 DEF RoundHolds
  <2>. QED
    BY <1>9, <2>2, <2>3, <2>5, <2>10, OneCallAtATime
<1>10. CASE Rounds!Record(r)
  <2>1. k.stage = "record" /\ k.outcome \in {"ok", "failed"}
    BY <1>1, <1>10 DEF Rounds!Record, RoundRecord
  <2>. QED
    BY <1>9, <1>10, <2>1 DEF Rounds!Record
<1>11. CASE Rounds!RecordRefused(r)
  BY <1>9, <1>11 DEF Rounds!RecordRefused
<1>12. CASE Rounds!IsCutOff(r)
  <2>. DEFINE n == [k EXCEPT !.stage = "cut"]
  <2>0. /\ k.stage \in {"work", "record"} /\ UNCHANGED <<jobRun, changed>>
        /\ run' = [run EXCEPT ![r].stage = "cut"]
    BY <1>12 DEF Rounds!IsCutOff
  <2>1. k \in RoundRecord /\ OnPlan(k)
    BY <1>1, <2>0
  <2>2. /\ n \in RoundRecord /\ n.stage = "cut" /\ n.tried = k.tried /\ n.job = k.job
        /\ n.failed = k.failed /\ n.whole = k.whole /\ n.policy = k.policy /\ n.dry = k.dry
    BY <2>1 DEF RoundRecord
  <2>3. run' = [run EXCEPT ![r] = n] /\ run'[r] = n
    BY <1>1, <2>0, <2>1 DEF RoundsType
  <2>. HIDE DEF n
  <2>4. Rounds!Plan(n) = Rounds!Plan(k)
    BY <2>2 DEF Rounds!Plan
  <2>5. OnPlan(n)
    BY <2>1, <2>2, <2>4 DEF OnPlan
  <2>6. RoundsType'
    BY <1>1, <2>0, <2>2, <2>3 DEF RoundsType
  <2>7. \A j \in n.tried : Rounds!Recorded(r, j)' \/ j \in n.failed \/ j = n.job
    BY <1>1, <2>0, <2>2 DEF RoundHolds, Rounds!Recorded
  <2>8. RoundHolds(r)'
    BY <1>1, <2>0, <2>2, <2>3, <2>5, <2>7 DEF RoundHolds
  <2>. QED
    BY <2>0, <2>3, <2>6, <2>8, OneCallAtATime
<1>. QED
  BY <1>3, <1>4, <1>6, <1>7, <1>8, <1>10, <1>11, <1>12

(* The jobs of a round do not stand in each other's way: a call that came to its
   end has tried them all, and returned only if each is on record; what was
   changed is on record, or its caller knows; and a dry run has changed nothing
   (filelayer.ts, runMaintenance and #recordedJob).                         *)
THEOREM RoundsStayHonest == Spec => []RoundsAreHonest
<1>1. (part = "jobs" => RoundsInv) /\ [Next]_vars => (part = "jobs" => RoundsInv)'
  <2>1. ASSUME RoundsInv, UNCHANGED rounds PROVE RoundsInv'
    <3>1. run' = run /\ jobRun' = jobRun /\ changed' = changed
      BY <2>1 DEF rounds
    <3>. QED
      BY <2>1, <3>1 DEF RoundsInv, RoundsType, RoundHolds, Rounds!Recorded
  <2>2. [Next]_vars /\ part = "jobs" => Rounds!JobsNext \/ UNCHANGED rounds
    BY DEF Next, vars, services, others, rounds
  <2>. QED
    BY <2>1, <2>2, RoundsStep, PartStands
<1>2. RoundsInv => /\ Rounds!NoJobMasksAnother
                   /\ Rounds!ActsAreReported
                   /\ Rounds!DryRunsChangeNothing
  <2>. SUFFICES ASSUME RoundsInv
                PROVE  Rounds!NoJobMasksAnother /\ Rounds!ActsAreReported /\ Rounds!DryRunsChangeNothing
    OBVIOUS
  <2>1. Rounds!NoJobMasksAnother
    BY DEF RoundsInv, RoundHolds, OnPlan, Rounds!NoJobMasksAnother
  <2>2. Rounds!ActsAreReported
    <3>. SUFFICES ASSUME NEW c \in changed
                  PROVE  \/ Rounds!Recorded(c[1], c[2])
                         \/ run[c[1]].stage = "record" /\ run[c[1]].job = c[2]
                         \/ run[c[1]].stage = "cut" /\ run[c[1]].job = c[2]
                         \/ c[2] \in run[c[1]].failed
      BY DEF Rounds!ActsAreReported
    <3>1. c[1] \in Runs
      BY DEF RoundsInv, RoundsType
    <3>. QED
      BY <3>1 DEF RoundsInv, RoundHolds
  <2>3. Rounds!DryRunsChangeNothing
    <3>1. \A c \in changed : c[1] \in Runs
      BY DEF RoundsInv, RoundsType
    <3>2. \A row \in jobRun : row.run \in Runs
      BY DEF RoundsInv, RoundsType
    <3>3. \A row \in jobRun : row.mode = "dry" => <<row.run, row.job>> \notin changed
      BY <3>2 DEF RoundsInv, RoundHolds
    <3>4. \A c \in changed : run[c[1]].dry => c[2] \in {1, 4}
      BY <3>1 DEF RoundsInv, RoundHolds
    <3>. QED
      BY <3>3, <3>4 DEF Rounds!DryRunsChangeNothing
  <2>. QED
    BY <2>1, <2>2, <2>3
<1>3. (part = "jobs" => RoundsInv) => RoundsAreHonest
  BY <1>2 DEF RoundsAreHonest
<1>. QED
  BY <1>1, <1>3, RoundsBegin, PTL DEF Spec

-----------------------------------------------------------------------------
(* The migrations. *)

LEMMA SchemaFits ==
  /\ Versions \subseteq Nat \ {0, 1} /\ OldVersions \subseteq Nat /\ Table \in Versions
  /\ \E newest \in Versions : \A v \in Versions : v <= newest
  /\ \A vs \in SUBSET Versions : vs # None
  /\ \A v \in Versions, step \in {"check", "build", "record"} : [file |-> v, step |-> step] # None
  /\ Unwrapped \subseteq Versions \ {Table}
  /\ Needs \in [Versions -> SUBSET Versions] /\ \A v \in Versions : \A w \in Needs[v] : w < v
BY ConstantsFit DEF Schema!MigrationsConstants

Markers == [Versions -> {"absent", "broken", "whole"}]

(* The version that markers and rows tell. *)
AtOf(marks, table) ==
  IF table # None THEN CHOOSE v \in table : \A w \in table : w <= v
  ELSE LET found == {v \in Versions \ {Table} : marks[v] # "absent"}
       IN  IF found = {} THEN 1 ELSE CHOOSE v \in found : \A w \in found : w <= v

LEMMA NewestThereIs ==
  ASSUME NEW S \in SUBSET Versions, S # {}
  PROVE  LET n == CHOOSE v \in S : \A w \in S : w <= v
         IN  n \in S /\ n \in Nat /\ n > 1 /\ \A w \in S : w <= n
<1>1. PICK newest \in Versions : \A v \in Versions : v <= newest
  BY SchemaFits
<1>2. \E n \in S : \A w \in S : w <= n
  BY <1>1, SchemaFits, GreatestOf
<1>. DEFINE n == CHOOSE v \in S : \A w \in S : w <= v
<1>3. n \in S /\ \A w \in S : w <= n
  BY <1>2
<1>. HIDE DEF n
<1>4. n \in Nat /\ n > 1
  BY <1>3, SchemaFits
<1>. QED
  BY <1>3, <1>4 DEF n

LEMMA AtIs ==
  ASSUME NEW marks, NEW table, table = None \/ (table \in SUBSET Versions /\ table # {})
  PROVE  /\ AtOf(marks, table) \in Nat
         /\ table # None => /\ AtOf(marks, table) \in table
                            /\ \A w \in table : w <= AtOf(marks, table)
         /\ table = None => /\ \A w \in Versions \ {Table} : marks[w] # "absent" => w <= AtOf(marks, table)
                            /\ \/ \A w \in Versions : ~(w <= AtOf(marks, table))
                               \/ /\ AtOf(marks, table) \in Versions \ {Table}
                                  /\ marks[AtOf(marks, table)] # "absent"
<1>1. CASE table # None
  BY <1>1, NewestThereIs DEF AtOf
<1>2. CASE table = None
  <2>. DEFINE found == {v \in Versions \ {Table} : marks[v] # "absent"}
  <2>1. CASE found = {}
    <3>1. AtOf(marks, table) = 1
      BY <1>2, <2>1 DEF AtOf
    <3>. QED
      BY <1>2, <2>1, <3>1, SchemaFits
  <2>2. CASE found # {}
    <3>1. AtOf(marks, table) = CHOOSE v \in found : \A w \in found : w <= v
      BY <1>2, <2>2 DEF AtOf
    <3>2. /\ AtOf(marks, table) \in found /\ AtOf(marks, table) \in Nat
          /\ \A w \in found : w <= AtOf(marks, table)
      BY <2>2, <3>1, NewestThereIs
    <3>. QED
      BY <1>2, <3>2
  <2>. QED
    BY <2>1, <2>2
<1>. QED
  BY <1>1, <1>2

SchemaType ==
  /\ version \in Markers
  /\ recorded = None \/ (recorded \in SUBSET Versions /\ recorded # {})
  /\ runner \in [file : Versions, step : {"check", "build", "record"}] \cup {None}
  /\ passed \subseteq Versions /\ crashes \in Nat

(* Everything up to the version is there, and everything that a file was passed
   over for; the version table keeps the version from there on.            *)
NothingIsMissing ==
  /\ \A v \in Versions : v <= AtOf(version, recorded) => version[v] # "absent"
  /\ \A v \in passed : version[v] # "absent"
  /\ recorded = None <=> version[Table] = "absent"
  /\ recorded # None => Table <= AtOf(version, recorded)

(* Whatever comes before a file is there. *)
AllBefore(v) == \A w \in Versions : w < v => version[w] # "absent"

(* A file is taken up when all before it is there, and it is listed itself. *)
FileInHand ==
  runner # None =>
    /\ AllBefore(runner.file)
    /\ runner.step = "check" => ~(runner.file <= AtOf(version, recorded))
    /\ runner.step # "check" => runner.file \in Unwrapped /\ version[runner.file] # "absent"

InHand(v, step) == runner # None /\ runner.file = v /\ runner.step = step

(* Only a crash leaves something broken, or there and not told of. *)
OnlyCrashesLeave ==
  /\ \A v \in Versions : version[v] = "broken" => crashes > 0 \/ InHand(v, "build")
  /\ \A v \in Versions : version[v] # "absent" /\ ~(v <= AtOf(version, recorded)) =>
       crashes > 0 \/ InHand(v, "build") \/ InHand(v, "record")

SchemaInv == SchemaType /\ NothingIsMissing /\ FileInHand /\ OnlyCrashesLeave

LEMMA SchemaAt == Schema!At = AtOf(version, recorded)
BY DEF Schema!At, Schema!Inferred, Schema!Present, AtOf

LEMMA SchemaBegins == Init /\ part = "schema" => SchemaInv
<1>. SUFFICES ASSUME Init, part = "schema" PROVE SchemaInv
  OBVIOUS
<1>1. Schema!MigrationsInit
  BY DEF Init
<1>2. PICK s \in OldVersions :
        /\ version = [v \in Versions |-> IF v <= s THEN "whole" ELSE "absent"]
        /\ recorded = IF s < Table THEN None
                      ELSE IF s = Schema!Newest THEN {Schema!Newest}
                      ELSE {v \in Versions : Table <= v /\ v <= s}
        /\ runner = None /\ passed = {} /\ crashes = 0
  BY <1>1 DEF Schema!MigrationsInit
<1>3. s \in Nat /\ Table \in Nat /\ \A v \in Versions : v \in Nat
  BY SchemaFits
<1>4. Schema!Newest \in Versions /\ \A w \in Versions : w <= Schema!Newest
  BY NewestThereIs, SchemaFits DEF Schema!Newest
<1>5. recorded # None => recorded \in SUBSET Versions /\ Table <= s /\ recorded # {}
  BY <1>2, <1>3, <1>4, SchemaFits
<1>6. SchemaType
  BY <1>2, <1>5 DEF SchemaType, Markers
<1>7. recorded = None <=> s < Table
  BY <1>2, <1>3, <1>4, SchemaFits
<1>8. AtOf(version, recorded) \in Nat
  BY <1>6, AtIs DEF SchemaType
<1>9. \A v \in Versions : v <= AtOf(version, recorded) <=> v <= s
  <2>1. CASE recorded = None
    BY <1>2, <1>3, <1>6, <1>7, <1>8, <2>1, AtIs DEF SchemaType
  <2>2. CASE recorded # None
    <3>1. AtOf(version, recorded) \in recorded /\ \A w \in recorded : w <= AtOf(version, recorded)
      BY <1>6, <2>2, AtIs DEF SchemaType
    <3>. QED
      BY <1>2, <1>3, <1>4, <1>7, <1>8, <2>2, <3>1, SchemaFits
  <2>. QED
    BY <2>1, <2>2
<1>. QED
  BY <1>2, <1>3, <1>5, <1>6, <1>7, <1>9, SchemaFits
     DEF SchemaInv, NothingIsMissing, FileInHand, OnlyCrashesLeave

(* The version after a file's object has come, or become whole. *)
LEMMA MarkerComes ==
  ASSUME SchemaType, NothingIsMissing, NEW v \in Versions, NEW x \in {"broken", "whole"},
         version' = [version EXCEPT ![v] = x], recorded' = recorded,
         passed' = passed, v # Table, AllBefore(v)
  PROVE  /\ NothingIsMissing' /\ AtOf(version', recorded') \in Nat
         /\ \A w \in Versions : w <= AtOf(version', recorded') <=>
              w <= AtOf(version, recorded) \/ (recorded = None /\ w <= v)
<1>. DEFINE a == AtOf(version, recorded)
            b == AtOf(version', recorded')
<1>1. /\ version' \in Markers /\ \A w \in Versions : version'[w] = IF w = v THEN x ELSE version[w]
      /\ \A w \in Versions : version[w] # "absent" => version'[w] # "absent"
  BY DEF SchemaType, Markers
<1>2. /\ v \in Nat /\ Table \in Nat /\ Table \in Versions /\ \A w \in Versions : w \in Nat
      /\ \A w \in Versions : w < v => version[w] # "absent"
  BY SchemaFits DEF AllBefore
<1>3. /\ a \in Nat
      /\ recorded = None => /\ \A w \in Versions \ {Table} : version[w] # "absent" => w <= a
                            /\ \/ \A w \in Versions : ~(w <= a)
                               \/ a \in Versions \ {Table} /\ version[a] # "absent"
  BY AtIs DEF SchemaType
<1>4. /\ b \in Nat
      /\ recorded = None => /\ \A w \in Versions \ {Table} : version'[w] # "absent" => w <= b
                            /\ \/ \A w \in Versions : ~(w <= b)
                               \/ b \in Versions \ {Table} /\ version'[b] # "absent"
  BY AtIs DEF SchemaType
<1>5. CASE recorded # None
  <2>1. a = b
    BY <1>5 DEF AtOf
  <2>. HIDE DEF a, b
  <2>. QED
    BY <1>1, <1>2, <1>3, <1>4, <1>5, <2>1 DEF NothingIsMissing, SchemaType, a, b
<1>6. CASE recorded = None
  <2>. HIDE DEF a, b
  <2>1. b \in Versions \ {Table} /\ version'[b] # "absent" /\ v <= b
    BY <1>1, <1>2, <1>4, <1>6
  <2>2. \A w \in Versions \ {Table} : version[w] # "absent" => w <= b
    BY <1>1, <1>4, <1>6
  <2>3. b = v \/ b <= a
    BY <1>1, <1>3, <1>6, <2>1
  <2>4. a <= b \/ \A w \in Versions : ~(w <= a)
    BY <1>3, <1>6, <2>2
  <2>5. \A w \in Versions : w <= b <=> w <= a \/ w <= v
    BY <1>2, <1>3, <1>4, <2>1, <2>3, <2>4
  <2>6. \A w \in Versions : w <= b => version'[w] # "absent"
    BY <1>1, <1>2, <1>6, <2>5 DEF NothingIsMissing, a
  <2>7. NothingIsMissing'
    BY <1>1, <1>2, <1>6, <2>6 DEF NothingIsMissing, SchemaType, b
  <2>. QED
    BY <1>4, <1>6, <2>5, <2>7 DEF a, b
<1>. QED
  BY <1>5, <1>6

(* The version after a file has written its row. *)
LEMMA RowIsWritten ==
  ASSUME SchemaType, NothingIsMissing, NEW v \in Versions, recorded # None,
         recorded' = recorded \cup {v}
  PROVE  /\ recorded' # None /\ recorded' \in SUBSET Versions /\ recorded' # {}
         /\ AtOf(version', recorded') \in Nat
         /\ \A w \in Versions : w <= AtOf(version', recorded') <=>
              w <= AtOf(version, recorded) \/ w <= v
<1>1. recorded \in SUBSET Versions /\ recorded # {}
  BY DEF SchemaType
<1>2. recorded' \in SUBSET Versions /\ recorded' # {} /\ recorded' # None
  BY <1>1, SchemaFits
<1>. DEFINE a == AtOf(version, recorded)
            b == AtOf(version', recorded')
<1>3. a \in Nat /\ a \in recorded /\ \A w \in recorded : w <= a
  BY <1>1, AtIs
<1>4. b \in Nat /\ b \in recorded' /\ \A w \in recorded' : w <= b
  BY <1>2, AtIs
<1>5. \A w \in Versions : w \in Nat
  BY SchemaFits
<1>. HIDE DEF a, b
<1>6. \A w \in Versions : w <= b <=> w <= a \/ w <= v
  BY <1>3, <1>4, <1>5
<1>. QED
  BY <1>2, <1>4, <1>6 DEF a, b

LEMMA SchemaStep == SchemaInv /\ Schema!MigrationsNext => SchemaInv'
<1>. SUFFICES ASSUME SchemaInv, Schema!MigrationsNext PROVE SchemaInv'
  OBVIOUS
<1>. DEFINE a == AtOf(version, recorded)
<1>1. SchemaType /\ NothingIsMissing /\ FileInHand /\ OnlyCrashesLeave
  BY DEF SchemaInv
<1>2. /\ Table \in Versions /\ Table \in Nat /\ \A w \in Versions : w \in Nat
      /\ Unwrapped \subseteq Versions \ {Table} /\ crashes \in Nat /\ a \in Nat
      /\ \A v \in Versions, step \in {"check", "build", "record"} : [file |-> v, step |-> step] # None
  BY <1>1, SchemaFits, AtIs DEF SchemaType
<1>3. runner # None => /\ runner \in [file : Versions, step : {"check", "build", "record"}]
                       /\ runner.file \in Versions /\ runner.file \in Nat
  BY <1>1, <1>2 DEF SchemaType
<1>. HIDE DEF a
<1>4. ASSUME NEW v \in Versions, Schema!Pick(v) PROVE SchemaInv'
  <2>1. /\ runner = None /\ ~(v <= a)
        /\ \A w \in Versions : ~(w <= a) /\ w \notin passed => v <= w
        /\ runner' = [file |-> v, step |-> "check"] /\ runner' # None
        /\ UNCHANGED <<version, recorded, passed, crashes>>
    BY <1>2, <1>4, SchemaAt DEF Schema!Pick, Schema!Outstanding, a
  <2>2. AllBefore(v)
    BY <1>1, <1>2, <1>4, <2>1 DEF NothingIsMissing, a, AllBefore
  <2>3. FileInHand'
    BY <1>4, <2>1, <2>2 DEF FileInHand, a, AllBefore
  <2>4. SchemaType'
    BY <1>1, <1>4, <2>1 DEF SchemaType
  <2>. QED
    BY <1>1, <2>1, <2>3, <2>4 DEF SchemaInv, NothingIsMissing, OnlyCrashesLeave, InHand
<1>5. CASE Schema!Refuse
  <2>1. /\ runner # None /\ runner.step = "check" /\ passed' = passed \cup {runner.file}
        /\ runner' = None /\ UNCHANGED <<version, recorded, crashes>>
        /\ Schema!Refuses(runner.file)
    BY <1>5 DEF Schema!Refuse
  <2>2. version[runner.file] # "absent"
    BY <1>1, <1>3, <2>1, SchemaFits DEF FileInHand, Schema!Refuses, Schema!Present, AllBefore
  <2>. QED
    BY <1>1, <1>3, <2>1, <2>2
       DEF SchemaInv, SchemaType, NothingIsMissing, FileInHand, OnlyCrashesLeave, InHand
<1>6. CASE Schema!ApplyWhole
  <2>. DEFINE v == runner.file
  <2>1. /\ runner # None /\ runner.step = "check" /\ v \in Versions /\ v \notin Unwrapped
        /\ v > Table => recorded # None
        /\ runner' = None /\ passed' = passed /\ crashes' = crashes /\ v \in Nat
    BY <1>3, <1>6 DEF Schema!ApplyWhole, Schema!Tabled
  <2>11. /\ version' = [version EXCEPT ![v] = "whole"]
         /\ recorded' = IF v = Table THEN {v} ELSE IF v > Table THEN recorded \cup {v} ELSE recorded
    BY <1>3, <1>6 DEF Schema!ApplyWhole, Schema!RecordOf, Schema!Tabled
  <2>2. ~(v <= a) /\ AllBefore(v)
    BY <1>1, <1>3, <2>1 DEF FileInHand, a
  <2>3. /\ \A w \in Versions : version'[w] = IF w = v THEN "whole" ELSE version[w]
        /\ version' \in Markers
    BY <1>1, <2>11 DEF SchemaType, Markers
  <2>. HIDE DEF v
  <2>4. v < Table => recorded = None
    BY <1>1, <1>2, <2>1, <2>2 DEF NothingIsMissing, a
  <2>5. v = Table => recorded = None
    BY <1>1, <1>2, <2>1, <2>2 DEF NothingIsMissing, a
  <2>6. /\ recorded' = None \/ (recorded' \in SUBSET Versions /\ recorded' # {})
        /\ recorded' = None <=> v < Table
        /\ AtOf(version', recorded') \in Nat
        /\ \A w \in Versions : w <= AtOf(version', recorded') <=> w <= a \/ w <= v
    <3>1. CASE v < Table
      <4>1. recorded = None /\ recorded' = recorded /\ v # Table
        BY <1>2, <2>1, <2>4, <2>11, <3>1
      <4>. QED
        BY <1>1, <1>2, <2>1, <2>2, <2>11, <3>1, <4>1, MarkerComes DEF a
    <3>2. CASE v = Table
      <4>1. recorded' = {v} /\ recorded' \in SUBSET Versions /\ recorded' # None
        BY <2>1, <2>11, <3>2, SchemaFits
      <4>2. AtOf(version', recorded') = v
        BY <4>1, AtIs
      <4>3. \A w \in Versions : w <= a => w <= v
        BY <1>2, <2>1, <2>2
      <4>. QED
        <5>1. recorded' # {} /\ ~(v < Table) /\ v \in Nat
          BY <1>2, <2>1, <3>2, <4>1
        <5>2. \A w \in Versions : w <= AtOf(version', recorded') <=> w <= a \/ w <= v
          BY <4>2, <4>3
        <5>. QED
          BY <4>1, <4>2, <5>1, <5>2
    <3>3. CASE v > Table
      <4>1. recorded # None /\ recorded' = recorded \cup {v}
        BY <1>2, <2>1, <2>11, <3>3
      <4>2. /\ recorded' # None /\ recorded' \in SUBSET Versions /\ recorded' # {}
            /\ AtOf(version', recorded') \in Nat
            /\ \A w \in Versions : w <= AtOf(version', recorded') <=> w <= a \/ w <= v
        BY <1>1, <2>1, <4>1, RowIsWritten DEF a
      <4>. QED
        BY <1>2, <2>1, <3>3, <4>2
    <3>. QED
      BY <1>2, <2>1, <3>1, <3>2, <3>3
  <2>7. version[Table] = "absent" <=> recorded = None
    BY <1>1 DEF NothingIsMissing
  <2>8. SchemaType'
    BY <1>1, <2>1, <2>3, <2>6 DEF SchemaType
  <2>9. NothingIsMissing'
    <3>1. \A w \in Versions : w <= AtOf(version', recorded') => version'[w] # "absent"
      BY <1>1, <1>2, <2>1, <2>2, <2>3, <2>6 DEF NothingIsMissing, a, AllBefore
    <3>2. \A w \in passed' : version'[w] # "absent"
      BY <1>1, <2>1, <2>3 DEF NothingIsMissing, SchemaType
    <3>3. recorded' = None <=> version'[Table] = "absent"
      BY <1>2, <2>1, <2>3, <2>4, <2>5, <2>6, <2>7
    <3>4. recorded' # None => Table <= AtOf(version', recorded')
      <4>1. recorded' # None => Table <= v
        BY <1>2, <2>1, <2>6
      <4>2. Table <= v => Table <= AtOf(version', recorded')
        BY <1>2, <2>6
      <4>. QED
        BY <4>1, <4>2
    <3>. QED
      BY <3>1, <3>2, <3>3, <3>4 DEF NothingIsMissing
  <2>10. OnlyCrashesLeave'
    <3>. SUFFICES ASSUME NEW w \in Versions
                  PROVE  /\ version'[w] = "broken" => crashes > 0
                         /\ version'[w] # "absent" /\ ~(w <= AtOf(version', recorded')) => crashes > 0
      BY <2>1 DEF OnlyCrashesLeave
    <3>. QED
      BY <1>1, <1>2, <2>1, <2>3, <2>6 DEF OnlyCrashesLeave, InHand, a
  <2>. QED
    BY <2>1, <2>8, <2>9, <2>10 DEF SchemaInv, FileInHand
<1>7. CASE Schema!StartBuild
  <2>. DEFINE v == runner.file
  <2>1. /\ runner # None /\ runner.step = "check" /\ v \in Unwrapped /\ v \in Versions /\ v \in Nat
        /\ version' = [version EXCEPT ![v] = "broken"]
        /\ runner' = [runner EXCEPT !.step = "build"]
        /\ UNCHANGED <<recorded, passed, crashes>>
    BY <1>3, <1>7 DEF Schema!StartBuild
  <2>2. ~(v <= a) /\ v # Table /\ AllBefore(v)
    BY <1>1, <1>2, <1>3, <2>1 DEF FileInHand, a
  <2>3. /\ runner' \in [file : Versions, step : {"check", "build", "record"}] /\ runner' # None
        /\ runner'.file = v /\ runner'.step = "build"
    BY <1>2, <1>3, <2>1
  <2>4. /\ \A w \in Versions : version'[w] = IF w = v THEN "broken" ELSE version[w]
        /\ version' \in Markers
    BY <1>1, <2>1 DEF SchemaType, Markers
  <2>. HIDE DEF v
  <2>5. /\ NothingIsMissing' /\ AtOf(version', recorded') \in Nat
        /\ \A w \in Versions : w <= AtOf(version', recorded') <=>
             w <= AtOf(version, recorded) \/ (recorded = None /\ w <= v)
    BY <1>1, <2>1, <2>2, MarkerComes
  <2>6. SchemaType'
    BY <1>1, <2>1, <2>3, <2>4 DEF SchemaType
  <2>7. FileInHand'
    BY <2>1, <2>2, <2>3, <2>4 DEF FileInHand, AllBefore
  <2>8. OnlyCrashesLeave'
    BY <1>1, <1>2, <2>1, <2>3, <2>4, <2>5 DEF OnlyCrashesLeave, InHand
  <2>. QED
    BY <2>5, <2>6, <2>7, <2>8 DEF SchemaInv
<1>8. CASE Schema!FinishBuild
  <2>. DEFINE v == runner.file
  <2>1. /\ runner # None /\ runner.step = "build" /\ v \in Versions /\ v \in Nat
        /\ version' = [version EXCEPT ![v] = "whole"]
        /\ runner' = [runner EXCEPT !.step = "record"]
        /\ UNCHANGED <<recorded, passed, crashes>>
    BY <1>3, <1>8 DEF Schema!FinishBuild
  <2>2. /\ v \in Unwrapped /\ v # Table /\ version[v] # "absent"
        /\ AllBefore(v)
    BY <1>1, <1>2, <1>3, <2>1 DEF FileInHand
  <2>3. /\ runner' \in [file : Versions, step : {"check", "build", "record"}] /\ runner' # None
        /\ runner'.file = v /\ runner'.step = "record"
    BY <1>2, <1>3, <2>1
  <2>4. /\ \A w \in Versions : version'[w] = IF w = v THEN "whole" ELSE version[w]
        /\ version' \in Markers
    BY <1>1, <2>1 DEF SchemaType, Markers
  <2>. HIDE DEF v
  <2>5. /\ NothingIsMissing' /\ AtOf(version', recorded') \in Nat
        /\ \A w \in Versions : w <= AtOf(version', recorded') <=>
             w <= AtOf(version, recorded) \/ (recorded = None /\ w <= v)
    BY <1>1, <2>1, <2>2, MarkerComes
  <2>6. SchemaType'
    BY <1>1, <2>1, <2>3, <2>4 DEF SchemaType
  <2>7. FileInHand'
    BY <2>1, <2>2, <2>3, <2>4 DEF FileInHand, AllBefore
  <2>8. OnlyCrashesLeave'
    <3>1. ASSUME NEW w \in Versions, version'[w] = "broken" PROVE crashes > 0
      BY <1>1, <2>1, <2>4, <3>1 DEF OnlyCrashesLeave, InHand, v
    <3>2. ASSUME NEW w \in Versions, version'[w] # "absent", ~(w <= AtOf(version', recorded')), w # v
          PROVE  crashes > 0
      BY <1>1, <2>1, <2>4, <2>5, <3>2 DEF OnlyCrashesLeave, InHand, v
    <3>. QED
      BY <2>1, <2>3, <3>1, <3>2 DEF OnlyCrashesLeave, InHand
  <2>. QED
    BY <2>5, <2>6, <2>7, <2>8 DEF SchemaInv
<1>9. CASE Schema!Record
  <2>. DEFINE v == runner.file
  <2>1. /\ runner # None /\ runner.step = "record" /\ v \in Versions /\ v \in Nat
        /\ v > Table => recorded # None
        /\ recorded' = IF v = Table THEN {v} ELSE IF v > Table THEN recorded \cup {v} ELSE recorded
        /\ runner' = None /\ UNCHANGED <<version, passed, crashes>>
    BY <1>3, <1>9 DEF Schema!Record, Schema!RecordOf, Schema!Tabled
  <2>2. /\ v # Table /\ version[v] # "absent"
        /\ AllBefore(v)
    BY <1>1, <1>2, <1>3, <2>1 DEF FileInHand
  <2>. HIDE DEF v
  <2>3. CASE v < Table
    <3>1. recorded' = recorded
      BY <1>2, <2>1, <2>3
    <3>2. v <= a
      <4>1. CASE recorded = None
        BY <1>1, <2>1, <2>2, <4>1, AtIs DEF SchemaType, a
      <4>2. CASE recorded # None
        BY <1>1, <1>2, <2>1, <2>3, <4>2 DEF NothingIsMissing, a
      <4>. QED
        BY <4>1, <4>2
    <3>. QED
      BY <1>1, <1>2, <2>1, <3>1, <3>2
         DEF SchemaInv, SchemaType, NothingIsMissing, FileInHand, OnlyCrashesLeave, InHand, a, v
  <2>4. CASE v > Table
    <3>1. recorded # None /\ recorded' = recorded \cup {v}
      BY <1>2, <2>1, <2>4
    <3>2. /\ recorded' # None /\ recorded' \in SUBSET Versions /\ recorded' # {}
          /\ AtOf(version', recorded') \in Nat
          /\ \A w \in Versions : w <= AtOf(version', recorded') <=> w <= a \/ w <= v
      BY <1>1, <2>1, <3>1, RowIsWritten DEF a
    <3>3. SchemaType'
      BY <1>1, <2>1, <3>2 DEF SchemaType
    <3>4. NothingIsMissing'
      BY <1>1, <1>2, <2>1, <2>2, <3>1, <3>2 DEF NothingIsMissing, a, AllBefore
    <3>5. OnlyCrashesLeave'
      BY <1>1, <1>2, <2>1, <3>2 DEF OnlyCrashesLeave, InHand, a, v
    <3>. QED
      BY <2>1, <3>3, <3>4, <3>5 DEF SchemaInv, FileInHand
  <2>. QED
    BY <1>2, <2>1, <2>2, <2>3, <2>4
<1>10. CASE Schema!Crash
  <2>1. /\ crashes' = crashes + 1 /\ runner' = None /\ UNCHANGED <<version, recorded, passed>>
        /\ crashes' \in Nat /\ crashes' > 0
    BY <1>2, <1>10 DEF Schema!Crash
  <2>. QED
    BY <1>1, <2>1 DEF SchemaInv, SchemaType, NothingIsMissing, FileInHand, OnlyCrashesLeave
<1>. QED
  BY <1>4, <1>5, <1>6, <1>7, <1>8, <1>9, <1>10 DEF Schema!MigrationsNext

(* What a database lacks is listed, whatever crashed on the way: what is not
   listed is there; and with no crash nothing is broken, and nothing listed is
   there already (db.ts, schemaStatus; the files of migrations/).           *)
THEOREM SchemaStaysKnown == Spec => []SchemaIsKnown
<1>. DEFINE I == part = "schema" => SchemaInv
<1>1. Init => I
  BY SchemaBegins
<1>2. I /\ [Next]_vars => I'
  <2>1. ASSUME SchemaInv, UNCHANGED schema PROVE SchemaInv'
    <3>1. UNCHANGED <<version, recorded, runner, passed, crashes>>
      BY <2>1 DEF schema
    <3>. QED
      BY <2>1, <3>1
         DEF SchemaInv, SchemaType, NothingIsMissing, FileInHand, OnlyCrashesLeave, InHand, AllBefore
  <2>2. [Next]_vars /\ part = "schema" => Schema!MigrationsNext \/ UNCHANGED schema
    BY DEF Next, vars, services, others, schema
  <2>. QED
    BY <2>1, <2>2, SchemaStep, PartStands
<1>3. I => SchemaIsKnown
  <2>. SUFFICES ASSUME SchemaInv, runner = None
                PROVE  /\ \A v \in Versions : version[v] = "absent" => v \in Schema!Outstanding
                       /\ \A v \in Versions : version[v] = "broken" => crashes > 0
                       /\ crashes = 0 => \A v \in Schema!Outstanding : version[v] = "absent"
    BY DEF SchemaIsKnown, Schema!NothingIsForgotten
  <2>1. AtOf(version, recorded) \in Nat /\ crashes \in Nat /\ \A w \in Versions : w \in Nat
    BY AtIs, SchemaFits DEF SchemaInv, SchemaType
  <2>2. \A v \in Versions : v \in Schema!Outstanding <=> ~(v <= AtOf(version, recorded))
    BY <2>1, SchemaAt DEF Schema!Outstanding
  <2>3. Schema!Outstanding \subseteq Versions
    BY DEF Schema!Outstanding
  <2>. QED
    BY <2>1, <2>2, <2>3 DEF SchemaInv, NothingIsMissing, OnlyCrashesLeave, InHand
<1>. QED
  BY <1>1, <1>2, <1>3, PTL DEF Spec
=============================================================================
