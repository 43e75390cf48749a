----------------------------- MODULE MCServices -----------------------------
(***************************************************************************)
(* Small instances of the components that share no state with each other:  *)
(* listing by pages, provisioning, the background jobs, a streamed upload, *)
(* delivery (requests that compete, one request copied), the file-system   *)
(* adapter (objects, upload tokens), units of work in one transaction, the *)
(* migrations, unsharing, the audit trail by time, the usage report and its*)
(* calendar.  `part' says which of them this behaviour is about; the others*)
(* stand still in their initial state.                                     *)
(***************************************************************************)
EXTENDS TLC, Integers, Sequences, FiniteSets

CONSTANTS None, alice, bob, c1, c2, q1, q2, Parts,
          Ids, PageSize, ListMax, Millisecond,    \* Paging
          MaxPages, PageTime,
          Runs, MaxFailures,                      \* Jobs
          Versions, Unwrapped, Table, Needs, OldVersions, MaxCrashes,  \* Migrations
          Calls,                                  \* calls under way together
          People, System, Named, Workspace,       \* Provisioning
          Suspendable, MaxCalls, MaxCuts,
          MaxDepth, MaxWrites,                    \* Transactions
          Requests, WireAsks, WireNumbers, WireSizes, WireTime,   \* Delivery
          Caps, MaxSafe, TtlsAskedFor, MaxTtl,
          Keys, Bytes, Limit, MaxPuts, MaxFaults, Ttl, Second, TokenTime,   \* FsStorage
          PartSize, Cap, MaxChunk, MaxStream,     \* S3Upload
          Revokers, Issuers, Switched, Lifetimes, \* Unsharing
          MaxGrants, MaxHour, MaxSwitches,
          Auditors, Audited, Kept,                \* AuditTrail
          MaxEvents, MaxDay,
          Readers, Metered, Weeks, Installs,      \* UsageReport
          FirstDay, LastDay                       \* Calendar

VARIABLES part, time, upload, walk,
          places, member, suspended, trail, call, begun, maker, owed, cut, answer,
          run, jobRun, changed, faults,
          source, put, bucket, lost,
          clock, grant, object, config, req, urls,
          now, files, path, tmp, fsCall, token, puts, fsFaults, died, stayed, appeared,
          scopes, pending, aborted, flying, kept, seen, writes, undone, denial,
          version, recorded, runner, passed, crashes,
          grants, able, away, chain, op, hour, switches, said,
          day, stamped, rows, nextId, checkpoints, erasing, gone, overrun, export, late,
          metered, created, report, today

Pages == INSTANCE Paging WITH MaxTime <- PageTime

Provision == INSTANCE Provisioning WITH Callers <- Calls

Rounds == INSTANCE Jobs WITH MaxFaults <- MaxFailures

Stream == INSTANCE S3Upload

Ask(pull, head, byGrant) == [pull |-> pull, head |-> head, byGrant |-> byGrant, mode |-> "auto"]
TwoWeeks == {[start |-> 0, end |-> 1], [start |-> 1, end |-> 2]}
FetchByGrant == {Ask("fetch", FALSE, TRUE)}

(* Requests that compete: the grant, its revocation, redirects. *)
Wire == INSTANCE Delivery WITH
  Asks <- WireAsks, Numbers <- WireNumbers, Sizes <- WireSizes, MaxTime <- WireTime

(* One request with any Range header, copied in any way. *)
Copy == INSTANCE Delivery WITH
  Requests <- {q1}, Numbers <- {0, 2, 5}, Sizes <- {0, 1, 3}, TtlsAskedFor <- {}, MaxTime <- 0,
  Asks <- {Ask("node", FALSE, TRUE), Ask("node", FALSE, FALSE), Ask("node", TRUE, TRUE),
           Ask("fetch", FALSE, FALSE), Ask("fetch", TRUE, TRUE)}

(* Objects replaced, deleted, read and listed at once. *)
Files == INSTANCE FsStorage WITH
  Uploads <- FALSE, MaxTime <- 0, call <- fsCall, faults <- fsFaults

(* Two clients with one upload token. *)
Direct == INSTANCE FsStorage WITH
  Keys <- {1}, Bytes <- 1, Limit <- 1, MaxFaults <- 0, Uploads <- TRUE, MaxTime <- TokenTime,
  call <- fsCall, faults <- fsFaults

Units == INSTANCE Transactions

(* What the migrations of the repository check for. *)
FilesNeed ==
  [v \in Versions |-> CASE v = 10 -> {8} [] v = 15 -> {6, 11} [] v = 16 -> {15} [] OTHER -> {}]

Schema == INSTANCE Migrations WITH object <- version

(* Callers of whom some revoke single grants too, a reader, a colleague who shares. *)
Shares == INSTANCE Unsharing WITH
  Callers <- Calls, Reader <- bob, Suspendable <- Switched, MaxTime <- MaxHour,
  time <- hour

Trail == INSTANCE AuditTrail WITH
  Writers <- Auditors, Actors <- Audited, MaxRows <- MaxEvents, MaxTime <- MaxDay, clock <- day

Usage == INSTANCE UsageReport WITH
  Writers <- Readers, Actors <- Metered, MaxRows <- MaxEvents, MaxTime <- MaxDay, clock <- day

Days == INSTANCE Calendar

ASSUME ConstantsFit ==
  /\ Pages!PagingConstants /\ Provision!ProvisioningConstants
  /\ Stream!S3UploadConstants /\ Wire!DeliveryConstants /\ Copy!DeliveryConstants
  /\ Files!FsStorageConstants /\ Direct!FsStorageConstants
  /\ Units!TransactionsConstants /\ Schema!MigrationsConstants
  /\ Shares!UnsharingConstants /\ Trail!AuditTrailConstants /\ Usage!UsageReportConstants
  /\ Days!CalendarConstants

pages     == <<time, upload, walk>>
provision == <<places, member, suspended, trail, call, begun, maker, owed, cut, answer>>
rounds    == <<run, jobRun, changed, faults>>
stream    == <<source, put, bucket, lost>>
fs        == <<now, files, path, tmp, fsCall, token, puts, fsFaults, died, stayed, appeared>>
units     == <<scopes, pending, aborted, flying, kept, seen, writes, undone, denial>>
schema    == <<version, recorded, runner, passed, crashes>>
wire      == <<clock, grant, object, config, req, urls>>
shares    == <<grants, able, away, chain, op, hour, switches, said>>
usage     == <<day, stamped, rows, nextId, checkpoints, erasing, gone, overrun, export, late,
               metered, created, report>>
services  == <<pages, provision, rounds, stream, wire, fs, units, schema>>
others    == <<shares, usage, today>>

Init ==
  /\ part \in Parts
  /\ Pages!PagingInit /\ Provision!ProvisioningInit
  /\ Rounds!JobsInit /\ Stream!S3UploadInit
  /\ IF part = "direct" THEN Direct!FsInit ELSE Files!FsInit
  /\ Units!TransactionsInit
  /\ IF part = "schema" THEN Schema!MigrationsInit
     ELSE version = None /\ recorded = {16} /\ runner = None /\ passed = {} /\ crashes = 0
  /\ IF part = "unshare" THEN Shares!UnsharingInit
     ELSE /\ grants = <<>> /\ able = {} /\ away = {} /\ chain = None
          /\ op = None /\ hour = 0 /\ switches = 0 /\ said = None
  /\ IF part = "usage" THEN Usage!UsageReportInit
     ELSE Trail!AuditTrailInit /\ metered = {} /\ created = 0 /\ report = Usage!Blank
  /\ Days!CalendarInit
  /\ CASE part = "wire" -> Wire!DeliveryInit
       [] part = "copy" -> Copy!DeliveryInit
       [] OTHER -> /\ clock = 0 /\ grant = None /\ object = None
                   /\ config = None /\ urls = {}
                   /\ req = [q \in {q1} |-> [stage |-> "new"]]

Next ==
  /\ part' = part
  /\ \/ part = "pages" /\ Pages!PagingNext /\ UNCHANGED <<others, provision, rounds, stream, wire, fs, units, schema>>
     \/ part = "provision" /\ Provision!ProvisioningNext /\ UNCHANGED <<others, pages, rounds, stream, wire, fs, units, schema>>
     \/ part = "jobs" /\ Rounds!JobsNext /\ UNCHANGED <<others, pages, provision, stream, wire, fs, units, schema>>
     \/ part = "stream" /\ Stream!S3UploadNext /\ UNCHANGED <<others, pages, provision, rounds, wire, fs, units, schema>>
     \/ part = "wire" /\ Wire!DeliveryNext /\ UNCHANGED <<others, pages, provision, rounds, stream, fs, units, schema>>
     \/ part = "copy" /\ Copy!DeliveryNext /\ UNCHANGED <<others, pages, provision, rounds, stream, fs, units, schema>>
     \/ part = "fs" /\ Files!FsNext /\ UNCHANGED <<others, pages, provision, rounds, stream, wire, units, schema>>
     \/ part = "direct" /\ Direct!FsNext /\ UNCHANGED <<others, pages, provision, rounds, stream, wire, units, schema>>
     \/ part = "units" /\ Units!TransactionsNext /\ UNCHANGED <<others, pages, provision, rounds, stream, wire, fs, schema>>
     \/ part = "schema" /\ Schema!MigrationsNext /\ UNCHANGED <<others, pages, provision, rounds, stream, wire, fs, units>>
     \/ part = "unshare" /\ Shares!UnsharingNext /\ UNCHANGED <<services, usage, today>>
     \/ part = "trail" /\ Trail!AuditTrailNext /\ UNCHANGED <<services, shares, metered, created, report, today>>
     \/ part = "usage" /\ Usage!UsageReportNext /\ UNCHANGED <<services, shares, today>>
     \/ part = "calendar" /\ Days!CalendarNext /\ UNCHANGED <<services, shares, usage>>

vars == <<part, services, others>>

(* Jobs and deliveries go on while they can; nothing else is promised to. *)
Spec ==
  /\ Init /\ [][Next]_vars
  /\ \A r \in Runs :
       /\ WF_vars(/\ part = "jobs"
                  /\ Rounds!FindsNothing(r) \/ Rounds!ChangesSomething(r) \/ Rounds!Throws(r)
                  /\ UNCHANGED <<part, others, pages, provision, stream, wire, fs, units, schema>>)
       /\ WF_vars(/\ part = "jobs" /\ (Rounds!Record(r) \/ Rounds!RecordRefused(r))
                  /\ UNCHANGED <<part, others, pages, provision, stream, wire, fs, units, schema>>)
  /\ WF_vars(part = "copy" /\ Copy!Handle(q1) /\ UNCHANGED <<part, others, pages, provision, rounds, stream, fs, units, schema>>)
  /\ WF_vars(part = "schema" /\ Schema!MigrationsNext
             /\ UNCHANGED <<part, others, pages, provision, rounds, stream, wire, fs, units>>)

(* Turning the pages shows every file that was there all along, and shows one
   twice only within the millisecond the page before ended in (filelayer.ts,
   listFiles).                                                              *)
PagesAreComplete ==
  /\ [](part = "pages" => Pages!NothingIsSkipped)
  /\ Pages!OnlyTheLastMillisecondRepeats

(* A page without a cursor is the last one, also when the caller asks for the
   longest pages there are (docs/QUICKSTART.md, page.nextCursor).           *)
NullOnTheLastPage == Pages!NullOnTheLastPage

(* No put and no orgs.create lets anybody into an organisation that somebody
   else had made; one made for an owner has an owner, and gets back to the owner
   who asks again: only a crash between its two rows takes it from both
   (simple.ts, Identities.org, FilesApi.put and OrgsApi.create).            *)
OwnersAreSafe ==
  part = "provision" => /\ Provision!NobodyWalksIn
                        /\ Provision!OwnerlessOnlyByCrash
                        /\ Provision!RetryIsSafe

(* Who came to stand in an organisation, and who lost it by a suspension, is
   on its chain, but for what a crash fell before (simple.ts,
   Identities.membership; filelayer.ts, #setActorDeleted).                  *)
ChangesAreOnRecord ==
  part = "provision" => Provision!StandingIsOnRecord /\ Provision!SuspensionIsOnRecord

(* Every job of a round has its turn; what it changed is on record or its caller
   knows; and a dry run changes nothing (filelayer.ts, runMaintenance and
   #recordedJob).                                                           *)
RoundsAreHonest ==
  part = "jobs" => /\ Rounds!NoJobMasksAnother
                   /\ Rounds!ActsAreReported
                   /\ Rounds!DryRunsChangeNothing

(* A download carries what its Range header names, and a capped grant gives away
   no more copies than its cap, each whole, by any path; and at the end of a
   request the object is let go of (delivery.ts, parseRangeHeader and
   sendNodeStream; filelayer.ts, #reserve and #fetchDelivery).              *)
DownloadsAreHonest ==
  /\ part = "copy" => Copy!RangeIsHonest /\ Copy!CopiesWithinCap /\ Copy!StreamsAreReleased
  /\ part = "wire" => Wire!CopiesWithinCap /\ Wire!StreamsAreReleased

(* A redirect outlives a revocation by its ttl at most, and no cache serves one
   whose URL is dead (delivery.ts, redirectHeaders).                        *)
RedirectsExpire == part = "wire" => Wire!RevocationWindow /\ Wire!CachedRedirectsLive

(* A handler whose client is gone returns (delivery.ts, sendNodeStream). *)
HandlersReturn == part = "copy" => Copy!HandlersReturn

(* Readers and listings see whole objects, each once, and a temporary file
   stays only where a process died; a streamed upload is there whole, in parts
   the store takes, or leaves nothing that the adapter could have cleared away
   (storage.ts, FsStorage and S3Storage.putStream).                         *)
ObjectsAreWhole ==
  /\ part = "fs" => /\ Files!OnlyWholeObjectsAreSeen
                    /\ Files!LitterIsFromDeaths
                    /\ Files!ListingIsExact
  /\ part = "stream" => /\ Stream!ObjectIsTheStream
                        /\ Stream!PartsAreFull
                        /\ Stream!FailureLeavesNothing

(* An upload token is good until its time is over, and then for nothing
   (storage.ts, acceptDirectUpload).                                        *)
TokensKeepTime == part = "direct" => Direct!TokensKeepTime

(* A unit of work is kept whole or not at all, and a denial's audit row is kept
   with its throw (db.ts, withTransaction).                                 *)
UnitsAreWhole == part = "units" => Units!AllOrNothing /\ Units!DenialsAreKept

(* What a database lacks is listed, whatever crashes left it with (db.ts,
   schemaStatus).                                                           *)
SchemaIsKnown == part = "schema" => Schema!NothingIsForgotten

(* A round comes to its end whatever fails in it; a request to its end or to a
   client who does not read on; and whoever goes on applying what is listed to
   the current schema (filelayer.ts, runMaintenance; delivery.ts, sendNodeStream;
   db.ts, schemaStatus).                                                    *)
ServicesGoOn ==
  /\ Rounds!RoundsEnd
  /\ part = "copy" => Copy!HandlersGoOn
  /\ part = "schema" => Schema!SchemaArrives

(* Unsharing ends every access the reader had and the caller could see, and stops
   half way for nobody whose standing lasts; what revoke says of the reader is
   so; and the chain comes before the row (simple.ts, unshare; filelayer.ts,
   revokeFor and #revokeOne).                                               *)
UnsharingIsFinal ==
  part = "unshare" => /\ Shares!UnshareLasts /\ Shares!AnswerIsTrue
                       /\ Shares!HalfWayWithoutStanding /\ Shares!RowsBehindTheChain

(* Windows of the trail tile, and trimming what they have shown takes away
   nothing they did not show, but for rows that overtook or were overtaken
   (store.ts, auditFilterClauses and trimAuditChain).                       *)
ExportsAreComplete == part = "trail" => Trail!WindowsTile /\ Trail!NothingGoesUnread

(* A usage report is about the ISO week it names, counts no less than what was
   there unless something was removed under its eyes, and says that nothing was
   ever read only when nothing was (usage-report.ts, buildUsageReport).     *)
ReportIsHonest ==
  /\ part = "usage" => Usage!ReportIsHonest
  /\ part = "calendar" => Days!WeeksAreIso
=============================================================================
