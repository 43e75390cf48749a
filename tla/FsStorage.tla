------------------------------ MODULE FsStorage ------------------------------
(***************************************************************************)
(* The file system adapter: put writes a file of its own and renames it    *)
(* over the object, stream keeps what it opened, list walks the directory  *)
(* while objects come and go, and an upload token lets a client put one    *)
(* object by itself until it expires.  Calls run together; any of them may *)
(* fail, or die with its process.                                          *)
(***************************************************************************)
EXTENDS Integers, FiniteSets

CONSTANTS Keys,        \* object keys, numbered in their order
          Calls, None,
          Bytes,       \* length of every body
          Limit,       \* page length of a listing
          Ttl, Second, \* expiresInSeconds of a token; clock ticks in a second
          Uploads,     \* whether the adapter was given an upload secret
          MaxPuts, MaxTime, MaxFaults   \* bounds for the model checker

FsStorageConstants ==
  /\ Keys \subseteq Nat /\ None \notin Nat
  /\ {Bytes, Limit, Ttl, Second} \subseteq Nat \ {0} /\ MaxPuts \in Nat /\ Uploads \in BOOLEAN

VARIABLES now,
          files,      \* the files written: bytes on disk, by the number of the put
          path,       \* per key: the file at the object's path
          tmp,        \* the files that still have their temporary name
          call,       \* the calls under way
          token,      \* an upload token; when puts with it began, or were refused
          puts, faults,
          died,       \* history: how often a call was cut off before its rm
          stayed, appeared   \* history: keys there all along, or at all, since
                             \* the listing began

fsVars == <<now, files, path, tmp, call, token, puts, faults, died, stayed, appeared>>

Unused == [stage |-> "idle"]
NoKey  == -1

FsInit ==
  /\ now = 0
  /\ files = [v \in 1..MaxPuts |-> 0]
  /\ path = [k \in Keys |-> None]
  /\ tmp = {}
  /\ call = [c \in Calls |-> Unused]
  /\ token = None
  /\ puts = 0 /\ faults = 0 /\ died = 0
  /\ stayed = {} /\ appeared = {}

At(c, stage) == call[c].stage = stage
Goes(c, stage) == call' = [call EXCEPT ![c] = IF stage = "idle" THEN Unused
                                             ELSE [@ EXCEPT !.stage = stage]]
Fault == faults < MaxFaults /\ faults' = faults + 1
There == {k \in Keys : path[k] # None}

-----------------------------------------------------------------------------
(* put *)

StartsPut(c, k) ==
  /\ puts < MaxPuts
  /\ puts' = puts + 1
  /\ call' = [call EXCEPT ![c] = [stage |-> "create", key |-> k, file |-> puts + 1]]

BeginPut(c, k) ==
  /\ At(c, "idle") /\ StartsPut(c, k)
  /\ UNCHANGED <<now, files, path, tmp, token, faults, died, stayed, appeared>>

(* Mutant: the object's own path is opened for writing. *)
CreateTmp_InPlace(c) ==
  /\ At(c, "create")
  /\ tmp' = tmp
  /\ path' = [path EXCEPT ![call[c].key] = call[c].file]
  /\ Goes(c, "write")
  /\ UNCHANGED <<now, files, token, puts, faults, died, stayed, appeared>>

CreateTmp(c) ==
  /\ At(c, "create")
  /\ tmp' = tmp \cup {call[c].file}
  /\ Goes(c, "write")
  /\ UNCHANGED <<now, files, path, token, puts, faults, died, stayed, appeared>>

WriteTmp(c) ==
  /\ At(c, "write")
  /\ files' = [files EXCEPT ![call[c].file] = @ + 1]
  /\ Goes(c, IF files[call[c].file] + 1 = Bytes THEN "rename" ELSE "write")
  /\ UNCHANGED <<now, path, tmp, token, puts, faults, died, stayed, appeared>>

(* Mutant: the old object is removed before the new one takes its place. *)
Rename_RemoveFirst(c) ==
  /\ At(c, "rename")
  /\ IF path[call[c].key] # None
     THEN /\ path' = [path EXCEPT ![call[c].key] = None]
          /\ tmp' = tmp /\ appeared' = appeared /\ call' = call
     ELSE /\ path' = [path EXCEPT ![call[c].key] = call[c].file]
          /\ tmp' = tmp \ {call[c].file}
          /\ appeared' = appeared \cup {call[c].key}
          /\ Goes(c, "idle")
  /\ UNCHANGED <<now, files, token, puts, faults, died, stayed>>

(* From one instant to the next the object is the new one. *)
Rename(c) ==
  /\ At(c, "rename")
  /\ path' = [path EXCEPT ![call[c].key] = call[c].file]
  /\ tmp' = tmp \ {call[c].file}
  /\ appeared' = appeared \cup {call[c].key}
  /\ Goes(c, "idle")
  /\ UNCHANGED <<now, files, token, puts, faults, died, stayed>>

(* Mutant: a failed write leaves the file where it is. *)
AfterFailure_Leave == "idle"

(* The finally clears the temporary file away. *)
AfterFailure == "rm"

PutFails(c) ==
  /\ call[c].stage \in {"create", "write", "rename"} /\ Fault
  /\ Goes(c, AfterFailure)
  /\ UNCHANGED <<now, files, path, tmp, token, puts, died, stayed, appeared>>

RemoveTmp(c) ==
  /\ At(c, "rm")
  /\ tmp' = tmp \ {call[c].file}
  /\ Goes(c, "idle")
  /\ UNCHANGED <<now, files, path, token, puts, faults, died, stayed, appeared>>

(* The process dies, or the removal fails and nobody is told. *)
Dies(c) ==
  /\ ~At(c, "idle") /\ Fault
  /\ died' = died + 1
  /\ Goes(c, "idle")
  /\ UNCHANGED <<now, files, path, tmp, token, puts, stayed, appeared>>

-----------------------------------------------------------------------------
(* stream and delete *)

OpenStream(c, k) ==
  /\ At(c, "idle") /\ k \in There
  /\ call' = [call EXCEPT ![c] = [stage |-> "read", file |-> path[k], got |-> 0]]
  /\ UNCHANGED <<now, files, path, tmp, token, puts, faults, died, stayed, appeared>>

(* The next byte of what was opened, whatever is at the path by now. *)
ReadOn(c) ==
  /\ At(c, "read")
  /\ call' = IF call[c].got < files[call[c].file]
             THEN [call EXCEPT ![c].got = @ + 1]
             ELSE [call EXCEPT ![c] = Unused]
  /\ UNCHANGED <<now, files, path, tmp, token, puts, faults, died, stayed, appeared>>

Delete(k) ==
  /\ k \in There
  /\ path' = [path EXCEPT ![k] = None]
  /\ stayed' = stayed \ {k}
  /\ UNCHANGED <<now, files, tmp, call, token, puts, faults, died, appeared>>

-----------------------------------------------------------------------------
(* list: every page walks the directory again, sorts what it found, and goes
   on after the last key of the page before.                               *)

BeginList(c) ==
  /\ At(c, "idle") /\ \A d \in Calls : ~(call[d].stage \in {"walk", "listed"})
  /\ call' = [call EXCEPT ![c] = [stage |-> "walk", todo |-> Keys, found |-> {},
                                  after |-> NoKey, seen |-> [k \in Keys |-> 0]]]
  /\ stayed' = There /\ appeared' = There
  /\ UNCHANGED <<now, files, path, tmp, token, puts, faults, died>>

Visit(c, k) ==
  /\ At(c, "walk") /\ k \in call[c].todo
  /\ call' = [call EXCEPT ![c].todo = @ \ {k},
                          ![c].found = IF k \in There THEN @ \cup {k} ELSE @]
  /\ UNCHANGED <<now, files, path, tmp, token, puts, faults, died, stayed, appeared>>

FirstOf(S) == {k \in S : Cardinality({j \in S : j < k}) < Limit}

Remaining(l) == {k \in l.found : k > l.after}

AnswerPage(c) ==
  LET l    == call[c]
      rest == Remaining(l)
      page == FirstOf(rest)
      seen == [k \in Keys |-> l.seen[k] + (IF k \in page THEN 1 ELSE 0)]
  IN  /\ At(c, "walk") /\ l.todo = {}
      /\ call' = IF page = rest
                 THEN [call EXCEPT ![c].stage = "listed", ![c].seen = seen]
                 ELSE [call EXCEPT ![c].todo = Keys, ![c].found = {}, ![c].seen = seen,
                                   ![c].after = CHOOSE k \in page : \A j \in page : j <= k]
      /\ UNCHANGED <<now, files, path, tmp, token, puts, faults, died, stayed, appeared>>

EndList(c) ==
  /\ At(c, "listed") /\ Goes(c, "idle")
  /\ UNCHANGED <<now, files, path, tmp, token, puts, faults, died, stayed, appeared>>

-----------------------------------------------------------------------------
(* Direct uploads: whole seconds in the token, ticks on the clock. *)

Presign(k) ==
  /\ Uploads /\ token = None
  /\ token' = [key |-> k, signed |-> now, exp |-> now \div Second + Ttl,
               accepted |-> {}, refused |-> {}]
  /\ UNCHANGED <<now, files, path, tmp, call, puts, faults, died, stayed, appeared>>

(* verifyUploadToken *)
TokenLives == token.exp * Second > now

BeginAccept(c) ==
  /\ At(c, "idle") /\ token # None /\ puts < MaxPuts
  /\ IF TokenLives
     THEN call' = [call EXCEPT ![c] = [stage |-> "body"]] /\ token' = token
     ELSE call' = call /\ token' = [token EXCEPT !.refused = @ \cup {now}]
  /\ UNCHANGED <<now, files, path, tmp, puts, faults, died, stayed, appeared>>

(* Mutant: the route's verification is enough. *)
TakeBody_Trusting(c) ==
  /\ At(c, "body")
  /\ StartsPut(c, token.key) /\ token' = [token EXCEPT !.accepted = @ \cup {now}]
  /\ UNCHANGED <<now, files, path, tmp, faults, died, stayed, appeared>>

(* The body is there, as long as it was said to be: acceptDirectUpload
   verifies the token again, the body having taken its time.               *)
TakeBody(c) ==
  /\ At(c, "body")
  /\ IF TokenLives
     THEN StartsPut(c, token.key) /\ token' = [token EXCEPT !.accepted = @ \cup {now}]
     ELSE Goes(c, "idle") /\ token' = [token EXCEPT !.refused = @ \cup {now}] /\ puts' = puts
  /\ UNCHANGED <<now, files, path, tmp, faults, died, stayed, appeared>>

(* Too long, too short, another type, or the client gave up. *)
BodyRefused(c) ==
  /\ At(c, "body") /\ Goes(c, "idle")
  /\ UNCHANGED <<now, files, path, tmp, token, puts, faults, died, stayed, appeared>>

Tick ==
  /\ now < MaxTime /\ now' = now + 1
  /\ UNCHANGED <<files, path, tmp, call, token, puts, faults, died, stayed, appeared>>

FsNext ==
  \/ \E c \in Calls :
       \/ \E k \in Keys : BeginPut(c, k) \/ OpenStream(c, k) \/ Visit(c, k)
       \/ CreateTmp(c) \/ WriteTmp(c) \/ Rename(c) \/ PutFails(c) \/ RemoveTmp(c)
       \/ Dies(c) \/ ReadOn(c)
       \/ BeginList(c) \/ AnswerPage(c) \/ EndList(c)
       \/ BeginAccept(c) \/ TakeBody(c) \/ BodyRefused(c)
  \/ \E k \in Keys : Delete(k) \/ Presign(k)
  \/ Tick

FsSpec == FsInit /\ [][FsNext]_fsVars

-----------------------------------------------------------------------------
(* Nobody sees half an object: what is at a path is whole, and what a reader
   opened was whole and stays so, whatever is put or deleted under the same
   key, and wherever a writer dies (storage.ts, put: a temporary file and a
   rename).                                                                *)
OnlyWholeObjectsAreSeen ==
  /\ \A k \in There : files[path[k]] = Bytes
  /\ \A c \in Calls : At(c, "read") => files[call[c].file] = Bytes

(* A temporary file nobody is at work on was left by a death; list never shows
   it and nothing collects it.                                             *)
LitterIsFromDeaths ==
  Cardinality(tmp \ {call[c].file : c \in {d \in Calls :
                       call[d].stage \in {"create", "write", "rename", "rm"}}}) <= died

(* A listing of several pages shows each object that was there all along just
   once, whatever is replaced, and nothing that was never there.           *)
ListingIsExact ==
  \A c \in Calls : At(c, "listed") =>
    \A k \in Keys :
      /\ call[c].seen[k] <= 1
      /\ k \in stayed => call[c].seen[k] = 1
      /\ call[c].seen[k] = 1 => k \in appeared

(* No put begins on a token's word after its time to live, and none is refused
   before the last second of it, however long the body took.               *)
TokensKeepTime ==
  token # None =>
    /\ \A t \in token.accepted : t < token.signed + Ttl * Second
    /\ \A t \in token.refused  : t > token.signed + (Ttl - 1) * Second
=============================================================================
