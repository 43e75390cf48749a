# Filelayer, specified

Filelayer (`packages/core`) is a library that puts files, permissions and an
audit trail on top of a PostgreSQL database and an object store. Several
processes run it at once against one database; they share nothing else. What is
hard about it is therefore not any single function but what happens between two
statements, between two transactions, and between the database and the store.
This directory specifies that part in TLA+, checks it with TLC on small
instances and proves the most important results with TLAPS for all instances.

Paths below are relative to `packages/core` unless they start with another
directory. Contents: [inventory](#1-inventory), [plan](#2-plan),
[modules](#3-modules-and-the-code-they-model), [runs](#4-runs),
[bounds and fairness](#5-bounds-and-fairness), [proofs](#6-proofs),
[disagreements](#7-disagreements-between-code-and-documentation),
[not modelled](#8-what-is-not-modelled).

## 1. Inventory

### How the parts interact

A caller (an HTTP handler, the CLI, the MCP server, the facade in `simple.ts`)
calls an operation of `Filelayer` (`src/filelayer.ts`). The operation asks
`src/authz.ts` for a decision, which `authz.ts` composes of reads from
`src/store.ts` and pure functions; it then writes rows inside `withTransaction`
(`src/db.ts`), appends an audit event with the SQL function `audit_append`
(`schema.sql`), and puts, reads or deletes objects through a storage adapter
(`src/storage.ts`). Two things serialise concurrent operations:

- `audit_append` takes the **advisory lock of the organisation's audit chain**
  and keeps it to the end of the transaction. Whatever an operation does after
  its first audit row, it does alone in that organisation; whatever it read
  before may be stale by then.
- Row locks, where an UPDATE, a DELETE or `consume_download` touches a row.

A `FilelayerError` thrown inside a transaction **commits** it (a refusal is
audited); any other error rolls it back. `now()` is the time at which the
transaction started, not the time of the statement.

### Components

| Component | State it keeps | Operations | What makes it correct |
|---|---|---|---|
| Decision functions (`src/authz.ts`) | none | `roleMeets`, `fileCapabilities`, `lifecycleDenial`, `authorize`, `authorizeShare`, `authorizeRevoke`, `authorizeOrg`, `authorizeMembershipChange`, list decisions | standing before lifecycle; an outsider hands on, and takes back, only below what it was handed |
| Grants (`schema.sql`, `src/filelayer.ts`) | table `file_grant`: parent, subject, capabilities, expiry, cap, count, revocation, idempotency key | `share`, `revoke`, `revokeFor`, reads that draw on a grant; trigger `file_grant_attenuate`, functions `grant_is_live`, `consume_download` | attenuation against every ancestor, a shared download budget, bounded chains, final revocation, one live grant for a double submission |
| Audit chain (`schema.sql`, `src/store.ts`) | `audit_event`, `audit_checkpoint`, the advisory lock | `audit_append`, `trimAuditChain`, `eraseActorFromAuditChain`, `sealAuditChain`, `verifyAuditChain` | no fork; trims and erasures leave only attested holes; losses are noticed, and nothing else raises an alarm |
| Files and their bytes (`src/filelayer.ts`, `src/storage.ts`) | table `file` (state, deadline, expiry, retention) and the bucket | `upload`, `createUpload`, the client's PUT, `completeUpload`, `delete`, `collectUploadReservations`, `collectStorageOrphans` | a ready file has bytes; deleted is final; bytes are removed only when nothing wants them, and in the end always |
| Membership (`src/filelayer.ts`, `src/authz.ts`, `src/store.ts`) | `membership`, soft deletion of actors and organisations | `addMember`, `removeMember`, suspend/restore, auto-provisioning | an organisation keeps an owner; nobody lifts or touches above its own rank |
| Delivery (`src/delivery.ts`) | none of its own; a URL, and the caches that keep its 302, live on | proxy, redirect, ranges, the copy to the client, headers | the bytes leave only under a decision and within the cap; a redirect outlives a revocation by its ttl and no more; a handler comes to its end and lets go of the object |
| Storage adapters (`src/storage.ts`) | objects; the file-system adapter's temporary files; direct-upload tokens | put, get, head, delete, list, presign, direct uploads | no object is visible half-written; a listing pages completely; a stream arrives whole or leaves nothing; a token keeps its time |
| Transactions and schema versions (`src/db.ts`) | schema version | `withTransaction`, savepoints, `schemaStatus`, the migrations | commit on a refusal, roll back on a failure, whatever is nested; what is not applied is listed |
| Listing (`src/authz.ts`, `src/store.ts`) | a cursor, in the caller's hands | `authorizeList`, list queries, `listFiles` by pages | agrees with `authorize`, file by file; skips nothing between two pages |
| Jobs and maintenance (`src/filelayer.ts`) | record of job runs | `runMaintenance`, the four recorded jobs, `jobStatus` | a failing job hides no other; what a job did is recorded or its caller knows; a dry run changes nothing |
| Facade and identities (`src/simple.ts`) | the application's identifiers for actors, organisations, files | files, orgs, ids, shares | unsharing lasts; the same identifier names the same row however many calls race; an organisation has an owner; nobody walks into somebody else's |
| Metering (`src/store.ts`) | `usage_daily`, `file_owning_user_daily` | `recordUsage`, `recordFileOwner` | atomic upserts; no decision reads them |
| Audit reading (`src/audit-read.ts`, `src/store.ts`) | none | `log` with its windows, `verify`, `checkpoints` | authorised, and itself audited; windows tile, and what is trimmed by time has been shown |
| Usage report (`src/usage-report.ts`) | none | `buildUsageReport`, `isoWeekOf`, `isoWeekRange` | the week it names; a number it gives is not too low, a number it cannot give is a `null` with the reason |
| Integration self-audit, CLI, MCP server, errors | none | reports, argument handling, a catalogue of codes | formatting and I/O |

### Hard behaviours

`PROJECT.json` lists each hazard at its line, with the properties that would
catch it. In groups:

- **Stale decisions.** Every handler decides, waits for the chain lock, then
  acts: sharing below a grant revoked meanwhile, reading through it, removing
  bytes that were orphans when they were listed, changing a member whose role
  was read while somebody was suspended.
- **Two systems, no common transaction.** The row and the object: a crash, a
  failed store call or a late PUT falls between them.
- **Work in several statements.** Erasure, trimming, sealing, verifying and
  `revokeFor` each read first and write later; a usage report is a dozen queries
  with a snapshot each; the facade registers an
  organisation, a person and a membership one by one; a job acts and is recorded
  afterwards; four migrations cannot be one transaction.
- **Clients who go.** A download is abandoned between two events; a stream to the
  store breaks; an answer is lost.
- **Counters and limits.** Caps shared along a chain, the depth bound, the
  bounded stepping around dead grants, the limit of a sweep, page edges, ranges,
  parts of an upload, times cut to milliseconds or seconds.
- **Lock order.** The chain lock against row locks.
- **Two orders of one trail.** Events have a time, taken by a process's clock, and
  an id, given at the insert; removals go by the one, readers by the other.

## 2. Plan

Done, in this order, the behaviour a user would miss most first:

1. `Authz`, `GrantTree`, `Standing`, `Sharing`, with the abstract `GrantLedger`
   it implements: the permission core.
2. `AuditChain`: the chain and the verifier that must be able to rely on it.
3. `FileStore`: rows and bytes under crashes, with liveness of the collectors.
4. `Membership`: the owner invariant under concurrent changes.
5. Proofs: type correctness of `Sharing`, `AuditChain` and `Membership`, and
   the safety properties of section 6.
6. `Listing`: the list query against the decision; `Paging`: its pages.
7. `Delivery`: ranges, redirects and revocation, clients who leave.
8. `FsStorage`, `S3Upload`: what the adapters promise the rest.
9. `Provisioning`, `Jobs`, `Transactions`, `Migrations`.
10. `Unsharing`: revoking statement by statement; `AuditTrail`, `UsageReport` and
    `Calendar`: the trail read by time.

11. Proofs of every safety property of `FileStore`, of the resubmission and the
    listing of grants, of the alarms of `AuditChain`.
12. Proofs of the safety properties of `FsStorage`, `S3Upload`, `Delivery`,
    `Unsharing`, `Transactions`, `Provisioning`, `AuditTrail`, `UsageReport`,
    `Calendar`, `Paging`, `Jobs` and `Migrations`.
13. `FileLife`, the life of a *file*, and `AuditLog`, an *append-only log with
    attested gaps*; that `FileStore` implements the one and `AuditChain` the other.

Left:

14. More of the facade and of the storage adapters.

## 3. Modules and the code they model

```
Authz <-- GrantTree <-- Standing <-- Sharing <-- Listing <-- MCSharing
  ^           ^                        |  INSTANCE GrantLedger (refinement)
  |           +-- GrantLedger <--------+
  |                                    |      ^              ^
  |                                    |  Sharing_proofs <-- Listing_proofs
  +-- FileStore  <-- MCFileStore, FileStore_proofs;    INSTANCE FileLife (refinement)
  +-- Membership <-- MCMembership, Membership_proofs
  +-- Provisioning --+
Paging, Delivery,    |
FsStorage, S3Upload, +-- INSTANCEd by MCServices <-- Objects_proofs
Jobs, Transactions,  |       Objects_proofs <-- Access_proofs, Services_proofs
Migrations, Calendar,|
Unsharing, AuditTrail|
  <-- UsageReport ---+
AuditChain <-- MCAuditChain, AuditChain_proofs;       INSTANCE AuditLog (refinement)
```

Operators whose comment calls them mutants are the broken variants against
which each property was tried (`PROJECT.json`, "mutants"): replaced for the
correct definition, they make TLC report the property violated.

### Authz: what roles confer and lifecycle permits

The pure functions of `src/authz.ts`: `RoleMeets`, `FileCapabilities`,
`LifecycleDenial`. `None` is SQL `NULL`. The order of the cases in
`LifecycleDenial` is the order in the code.

### GrantTree: the table of grants

`rows` is `file_grant` in creation order, so an index is an id. `Ancestry` is
the recursive CTE of `grant_is_live`, written as the least set closed under
`parent` so that it can be reasoned about without recursion. `SelfLive` and
`ScopeLive` are the conditions on each row of the walk; `AttenuationRefused` and
`Attenuate` are the two halves of the trigger `file_grant_attenuate` (what it
raises on, what it tightens); `Consume` is `consume_download`. The walk stops at
64 rows in the code, twice the depth the trigger admits; `ChainsAreBounded`
says why that never matters.

### Standing: decisions

`Standing` is `authorize`, `authorizeShare` and `authorizeRevoke` over a record
`w` that holds the database as one statement sees it. The four `Rungs` are the
order in which the code tries grants: the principal's own, its groups', its
link's, everybody's. `Paths` returns the way a capability is supplied, which
matters, because `share` hangs the new row below that grant. A link secret
whose grant is dead ends the search (`DeadLink`).

### Sharing: requests in flight

State: the table `rows`, the set `dead` of what is soft-deleted (actors,
organisations, the project, the file), memberships `role`, a `clock`, the
requests in flight `session`, and two histories: `deliveries`, the grant each
delivery went through, and `reply`, the last answer. One file, and the
organisations that matter to it, are modelled.

A handler is two actions. `Begin...` starts the transaction: it fixes `now()`,
reads and decides. The others run under the chain lock to the commit, against
the state as it is *then*, with the clock of the *start*. That split is what the
code's locking amounts to, and every race between a decision and its execution
is one between these two steps. Concretely:

| Actions | Code |
|---|---|
| `BeginRead`, `Reserve`, `RefuseRead` | `read`/`readStream`/`redeem` up to the reservation (`#reserve`); `consume_download` |
| `BeginShare`, `AnswerPrevious`, `InsertShare`, `ReplayShare`, `RefuseShare` | `share`: authorisation; the previous bucket; INSERT with trigger; conflict on the key; refusals |
| `BeginRevoke`, `SettleRevoke` | `revoke` |
| `BeginUnshare`, `SettleUnshare` | `revokeFor`: the list in one transaction, the loop in another |
| `DeleteFile`, `Suspend`, `Restore`, `ChangeRole`, `Tick` | everything beside a request that decides whether a grant works |

Derived idempotency keys are records (share input, time bucket, the trail of
dead grants stepped around) instead of digests of the same data.

`GrantLedger` is what a tree of grants promises, with no lock, clock, key or
counter: grants are issued below usable ones, withdrawn for good, and drawn on
while every grant above has budget. `Sharing` implements it (`ImplementsLedger`)
under the mapping that keeps parent, cap and revocation of each row and reads
`drawn` off `deliveries`; in particular the stored counters mean what they
should.

### AuditChain: one organisation's chain

An event stands for its row *and* its hash: the digest commits to the event and
to everything before it, so the id identifies it, and an event's `prev` is the
id of the event whose hash it stores. Hash arithmetic is left out; the rows
cannot be updated (rules on the table), so a wrong digest cannot occur.
`Append`, `Commit`, `Abort` are a transaction around `audit_append`; the keeper
actions (`StartTrim`/`StartErase`, `Delete`, `ReadBack`, `CommitRemoval`) are
`trimAuditChain` and `eraseActorFromAuditChain`, statement by statement under
READ COMMITTED; their advisory lock is not the one the appenders take, which is
why `Delete` may see more than `ReadBoundary` did. `SealRead`/`SealWrite` and
`VerifyHead`/`VerifyCheckpoints`/`VerifyPage` are statements without a
transaction. `Lose` is a row that vanishes outside the library. `overrun`,
`lost` and `verify.at` are history variables.

`AuditLog` is what the chain promises those who read it, with no lock,
transaction or statement: it is extended behind everything that ever was on
record, by the rows of a transaction all at once; a removal attests what it cuts
out wherever a row is left that points at it, a trim up to its edge, an erasure
only rows of one actor; what is sealed has been reached. `AuditChain` implements
it (`ImplementsLog`) under the mapping that takes the committed events for the
log, the two kinds of checkpoints for gaps and seals, and remembers with `harmed`
that an erasure overran its record or a row was lost; from then on the promises
about what is attested fall away, and those about order stay.

### FileStore: rows and objects

Each session runs one call, one step at a time: a transaction, a store call, or
the part of a transaction between two locks. `chain` and `rowLock` are the two
locks, modelled where an operation holds one and waits for another.

| Actions | Code |
|---|---|
| `BeginUpload`, `Put`, `PutFails`, `Discard`, `Insert` | `upload`: object first, then the row |
| `Reserve`, `Presign`, `StartPut`, `FinishPut` | `createUpload`, and the client with its URL |
| `BeginComplete`, `HeadObject`, `RefuseClaim`, `Claim`, `Update`, `Confirm` | `completeUpload` |
| `BeginDelete`, `AuditDelete`, `Mark`, `RemoveBytes` | `delete`: row first, then the object |
| `BeginReap`, `ReapRow`, `CommitReap`, `Unlink` | `collectUploadReservations` |
| `BeginSweep`, `Examine`, `Destroy`, `DestroyFails` | `collectStorageOrphans` |
| `Crash`, `Victim`, `Tick` | a process dies; PostgreSQL breaks a deadlock; time |

Abstractions: the caller may do what it asks (`Sharing` is about who that is),
but what the lifecycle refuses is refused; keys are never reused (random UUIDs);
an object is its time of writing and whether its size is as declared; `list` is
one page, and the sweep takes its keys in the listing's order (`First`); the
reservation collector's LIMIT and order are left open, so it takes rows in any order.

One assumption on the environment: `Stall < OrphanGrace`, that is, `upload`'s
transaction ends within the orphan grace period of its put. The code states the
same of the grace period (`src/filelayer.ts:2408-2421`): it is what keeps the
sweep from bytes whose row is about to be committed. No such assumption is made
for anything else.

`FileLife` is what is left when calls, locks, crashes and the store are taken
away: a file is new, pending, ready, deleted or gone; it becomes ready only with
its bytes there, is deleted only without a hold, is collected only past its
deadline, and its bytes go only when it is deleted or gone. `FileStore` implements
it (`ImplementsLife`): a file's stage is what its row says, and without a row it is
new until the upload that has its key ends (`Stage`). Every call, however many
steps it takes, moves a file in one of them or in none.

### Membership: owners and ranks

`addMember`/`removeMember` with `authorizeMembershipChange`, one action for each
statement: `Lock` (with the target's role on paper), `AuthorizeOrg`, `Rank`,
`CountOwnerMemberships`, `CountOwners`, `ProtectTarget`, `Write`. Removal is a
change to `None`. `SoftDelete`, `Restore` and `Provision` take no lock and fall
between any two of them. `GetMembership` (who may act) and `OnPaper` (the row)
differ exactly as the two queries do.

### Listing: the decision, written a second time

`listAuthorizedFiles` selects the files an actor may use with one SQL query,
while `authorize` decides about one file. `listPredicate` probes the pure
functions of `Authz` and hands the query tables of tuples; the union of the ways
to a file (role, grant, group, everybody) is written again in SQL. `Listing`
extends `Sharing` with that query, over the same database record `w`:
`RoleCells`, `LifecycleCells`, `MembershipCells` are the tables,
`SeenByRole`, `SeenByGrant`, `SeenByGroup`, `SeenByAnyone` the branches of the
UNION, `Sits` its join. `ListAgrees` compares `Listed` with
`Standing!Authorize` for every actor and capability, in every reachable state.

### Paging: listFiles page by page

Files with a `created_at` in ticks of which several make a millisecond; inserts
that become visible when their transaction commits, with the time at which it
began; deletions; and one caller who turns pages. `NextCursor` is `encodeCursor`
(an ISO string keeps milliseconds), `Beyond` the cursor clause, `RowsFor` the
clamp in `listAuthorizedFiles`, `TurnPage` the row that is fetched in addition.

### Provisioning: how identities come to be

The facade's `put` and `orgs.create` (`src/simple.ts`), the engine's `createOrg`,
and suspension with its audit loop. Every statement commits by itself, so each is
an action, and `CutShort` is a crash before any of them:

| Actions | Code |
|---|---|
| `BeginPut`, `UpsertOrg`, `InsertOwner`, `AuditOwner` | `put`, `Identities.org`, `Identities.membership` |
| `ResolveOwner`, `CheckStanding`, `Join`, `AuditJoin` | the rest of `put`, `mayJoin` |
| `BeginCreate`, `CheckOwner` | `orgs.create` |
| `CreateOrg` | `Filelayer.createOrg`, one transaction |
| `Switch`, `ReadConcerned`, `Tell` | `#setActorDeleted`, `#setOrgDeleted` |

### Jobs: the record of runs

A job does its work and `#recordedJob` records it afterwards, in another
statement; `runMaintenance` attempts four in turn. What a job does to rows and
objects is in `FileStore` and `AuditChain`; here it changes something or not.
Failures: the job throws (before or after it changed something), the record is
refused, the caller is cut off.

### Delivery: from the request to the last byte

`ParseRange` is `parseRangeHeader` over the forms a header can have, with numbers
beyond the last safe integer. `Decide` and `Reserve`/`RefuseReservation` are the
transaction: the grant is read, then charged under its lock. `Reserve` either
signs a URL (`Presigned`, when `RedirectEligible`) or goes on to the object:
`ResolveSuffix`, `OpenObject`, `NothingToOpen`, `HeadAgain`. `ReadChunk`,
`WriteTakes`, `WriteIsFull`, `Drain`, `ClientLeaves` are the loop of
`sendNodeStream`; `RuntimeCancels` is the Fetch runtime that pulls a body by
itself. `Revoke`, `RemoveObject` and the caches of a 302 (`Cache`) go on beside
it. A chunk is one byte; that the issuer, the subject and the scope are alive is
in `Sharing`.

### FsStorage and S3Upload: what the adapters promise

`FsStorage`: `put` as create, write, rename, with the `finally` that removes the
temporary file; a reader that keeps the file it opened; `list`, which walks the
directory anew for every page while objects come and go; a direct-upload token,
verified when the request begins and again when its body is there. `Dies` cuts
any call off anywhere. `S3Upload`: a stream whose chunks have any length, cut into
parts (`CutPart` is `readAtLeast` with its carry), and multipart requests that
fail with or without the store having done what they asked (`AnswerLost`).

### Transactions and Migrations

`Transactions` is `withTransaction` with `#transaction` around the work: nested
scopes are savepoints, a failed statement aborts the transaction until a savepoint
is rolled back to, a decision is thrown through `CommitThenThrow`. The four kinds
of connection differ in `Commits`: a host's hook sees a throw and does what it
does with throws.

`Migrations` is `schemaStatus` (`Inferred` from marker objects before the version
table exists, the highest row afterwards) and an operator who applies the first
file that is listed, the files being those of `migrations/` with their own checks
(`Refuses`). Four of them build an index or a constraint in statements of their
own; a crash leaves the object there, but `broken`.

### Unsharing: revoking, statement by statement

`Sharing` takes the loop of `revokeFor` as one step, with one decision for all of it.
In the code every grant is decided on again, and the decision is read before there is
a lock: `authorizeRevoke` reads the caller's standing, its event waits for the chain,
and only then comes the UPDATE, which is the order the comment in `revoke` asks for.
`Unsharing` models these statements: the chain is a lock (`chain`), the row of each
grant another (`row`), and both are held to the commit.

| Actions | Code |
|---|---|
| `FindActor`, `MayList`, `ListGrants` | `unshare`: `findActor`, then `revokeFor` with `listGrants`, its decision and the list it filters and sorts, all outside the transaction |
| `BeginRevoke` | `revoke`: the transaction begins, and with it `now()` |
| `Decide`, `Allow`, `UpdateRow`, `Probe` | `#revokeOne` for each grant: what `authorizeRevoke` reads, without a lock; its allow event, which takes the chain; the UPDATE and the event `grant.revoke`; `subjectCanStillRead` |
| `Refuse` | the deny event and the throw, on which the transaction commits what it has done |
| `Commit` | the end of the loop |
| `Share`, `ChangeRole` | others, who commit under the chain lock; a role is the reader's or a caller's |
| `Suspend`, `Tick` | the control plane, which takes no lock; time |

Authority that comes from a grant is in `Sharing`; the callers here have a role or
have lost it (`able`), or are suspended (`away`). One reader, whose role reads the
file or does not, and grants to it by colleagues. `said` is the answer just given,
with what the caller could know when it looked; `held` remembers that the caller's
role was still enough when its transaction got the chain.

### AuditTrail, UsageReport, Calendar: the trail by time

`AuditChain` is about hashes. `AuditTrail` keeps of each event its id, its actor
and `occurred_at`, which `store.audit` takes from its process's clock before the
insert (`Stamp`, then `CommitRow`, in any order among writers). `OlderThan` is the
prefix `trimAuditChain({before})` removes, `AllButLast` the one of `{keepLast}`,
`EraseReads`/`EraseDeletes` an erasure with its runs, all with checkpoints that say
from when to when (`Attests`). `ReadWindow` is `log({since, until})` by somebody who exports
the trail window after window, `TrimExported` the removal up to where they are.

`UsageReport` extends it with `buildUsageReport`, one action per query: the
checkpoints that reach into the week (`CheckTrims`), the counts (`CountReads`), the
days with activity (`CountDays`, over the trail and the metering that `Meter` writes
after a read), the first read (`FindFirst`), and why there is none (`AskWhy`). Every
event is an allowed read; the other counts differ in their filter only.

`Calendar` is `isoWeekOf` and `isoWeekRange` over days since 1970, against the
definition of ISO 8601 (`Reference`).

### MCServices: components that share no state

The components above, from `Paging` on, need an instance each and nothing of each
other. `MCServices` instantiates them all; the variable `part` says which of them a
behaviour is about, and the others stand still. Two components have two
instances: `Wire` (two requests, a grant, redirects, time) and `Copy` (one
request, any range, the copy byte by byte); `Files` (objects) and `Direct` (upload
tokens). A property of a part is stated under the guard that the part is being
run. The states of the parts are disjoint, so the run is the sum of theirs. Their
constants are constants of `MCServices`, with values in the configuration, so that
what is proved about the instances holds for all values.

## 4. Runs

Pass runs. Every property has a mutant of the code's definitions that breaks it
in the same run. Some are conjunctions of named parts, given in parentheses; each
part is defined, with its comment, in the component's module, and nearly each has
a mutant of its own.

| Run | Checks | Shows |
|---|---|---|
| `delegation` | `TypeOK`, `Attenuated`, `BudgetIsShared`, `ChainsAreBounded`, `RevocationIsFinal`, `RetriesShareOneCap`, `ImplementsLedger` | two requests at a time grant, delegate, revoke and read, with a cap of one and chains of two: bounds hold along the whole chain, although every request acts on a decision that may be stale; a spent share submitted again is not refilled |
| `groups` | `OutsidersStayBelow` (`OutsidersIssueBelow`, `OutsidersRevokeBelow`), `ListAgrees`, `RolesUnshareAll` | a group of another organisation is granted access; its member is demoted, removed and suspended while it delegates and revokes: it never issues a root grant and never revokes somebody else's; lists and decisions agree in all those states; `revokeFor` stops half-way only for a caller who lives off the grants it revokes |
| `resubmit` | `OneGrantPerShare` (`OneLivePerBucket`, `TwiceOnlyAroundADeadGrant`), `AnswersAreTrue` (`NeverAnswersRevoked`, `AnswersTheRequest`) | a share is submitted over and over, across bucket edges, with revocations and expiry in between, with and without a key of the caller's |
| `removal` | `TypeOK`, `OneChain` (`NoFork`, `Linked`), `OnlyOverrunsBreakTheChain`, `ImplementsLog`, `AlarmIsReal`, `UnrecordedLossIsSeen` | writers, a trim or an erasure, a seal, a verification and a loss, interleaved statement by statement; all of it implements the log |
| `bytes` | `TypeOK`, `ReadyHasBytes`, `ImplementsLife`, `OnlyGarbageIsRemoved` | three calls, of any kinds, on one file, with a crash, failing store calls and late PUTs; all of it implements the life of a file |
| `sweep` | `OrphansAreCollected` | whatever is left behind by a crash or a late PUT is collected in the end, although the sweep takes one object at a time and the store may refuse |
| `owners` | `TypeOK`, `OwnerOnPaper`, `RanksHold` | two changes of memberships race, with the owner and the admin suspended and restored and a newcomer provisioned between any two statements. The rule about the last owner does not lean on the comparison of ranks, which a suspended changer slips past |
| `services` | 14 properties of the parts below | see there |

What `services` shows, part by part:

| Part | Properties | Shows |
|---|---|---|
| `pages` | `PagesAreComplete` (`NothingIsSkipped`, `OnlyTheLastMillisecondRepeats`) | with uploads and deletions between two pages, no file that was there all along is left out; one is shown twice only within the millisecond the page before ended in |
| `provision` | `OwnersAreSafe` (`NobodyWalksIn`, `OwnerlessOnlyByCrash`, `RetryIsSafe`), `ChangesAreOnRecord` (`StandingIsOnRecord`, `SuspensionIsOnRecord`) | two racing calls, with a crash and suspensions: no call lets anybody into an organisation somebody else made; exactly which crash leaves an organisation without owner, a membership or a suspension off the record, or a retry refused |
| `jobs` | `RoundsAreHonest` (`NoJobMasksAnother`, `ActsAreReported`, `DryRunsChangeNothing`), `ServicesGoOn` (`RoundsEnd`) | jobs and records fail, callers are cut off: every job of a round gets its turn, and what changed is on record or reported |
| `stream` | `ObjectsAreWhole` (`ObjectIsTheStream`, `PartsAreFull`, `FailureLeavesNothing`) | any division into chunks, any failing request: the object is the stream or nothing is left that the caller could have cleared away |
| `wire` | `DownloadsAreHonest` (`CopiesWithinCap`, `StreamsAreReleased`), `RedirectsExpire` (`RevocationWindow`, `CachedRedirectsLive`) | two requests compete for a cap while the grant is revoked: no copy beyond the cap, no URL beyond the ttl after a revocation, no cached 302 to a dead URL |
| `copy` | `DownloadsAreHonest` (`RangeIsHonest`, `CopiesWithinCap`, `StreamsAreReleased`), `ServicesGoOn` (`HandlersGoOn`) | every form of a Range header against objects of no, one and three bytes, the object deleted meanwhile, the client leaving at every point |
| `fs`, `direct` | `ObjectsAreWhole` (`OnlyWholeObjectsAreSeen`, `LitterIsFromDeaths`, `ListingIsExact`), `TokensKeepTime` | two calls of any kind with one fault; two clients with one token |
| `units` | `UnitsAreWhole` (`AllOrNothing`, `DenialsAreKept`) | three nested scopes, failing statements, denials, lost connections |
| `schema` | `SchemaIsKnown` (`NothingIsForgotten`), `ServicesGoOn` (`SchemaArrives`) | from every version a database may be at, with two crashes, to the current one |
| `unshare` | `UnsharingIsFinal` (`UnshareLasts`, `AnswerIsTrue`, `HalfWayWithoutStanding`, `RowsBehindTheChain`) | an unshare and a revocation, with a share, a change of the reader's or a caller's role, a suspension and an expiry between any two statements: what the reader had is gone for good, unless it was out of sight because somebody was suspended; what `revoke` says of the reader is so at its commit; an unshare stops half-way only for a caller who was suspended meanwhile, or had lost its role before the transaction had the chain; nobody waits for a row |
| `trail` | `ExportsAreComplete` (`WindowsTile`, `NothingGoesUnread`) | windows read one after the other show no row twice; trimming up to the end of the last window removes unread exactly those rows that came too late for it, or that are younger than the instant and overtook an older one |
| `usage` | `ReportIsHonest` (`UsageReport!ReportIsHonest`) | rows are added, trimmed and erased between the queries of a report: a removal that was over when it began is not hidden by a number, and "no read" is not said of a trail that lost its reads |
| `calendar` | `ReportIsHonest` (`WeeksAreIso`) | every day lies in the week it is given, weeks 0, 53 and 54 are refused where there are none, and the default is the last complete week |

Violation runs, one for each of the disagreements of section 7 that has one:
`erase`, `lockorder`, `lastpage`, `hang`.

`CHECK_DEADLOCK FALSE` in every configuration: the bounds on the clock, the ids,
the grants and the deliveries, and calls that are over, end each run in states
with no step left. That calls do not wait for each other for ever is not lost by
it: the cycle of locks there can be is the action `Victim` of `FileStore`, its
absence is what `ChainBeforeRow` claims there; in `Unsharing` there is none, for
nobody waits for a row (`RowsBehindTheChain`); and in `sweep` the calls have to
finish for orphans to go; `RoundsEnd`, `HandlersGoOn` and `SchemaArrives` say that the others do.

## 5. Bounds and fairness

| Run | Instance | Why it is enough |
|---|---|---|
| `delegation` | 3 actors, 1 organisation, 2 sessions, `MaxDepth` 2, 3 grants, 2 deliveries, the clock stands | a grant, one below it, and one too many (the depth bound bites), or two siblings that compete for a cap of 1; two sessions are one decision overtaken by one commit |
| `groups` | 2 organisations, 1 session, 3 grants, 1 delivery, clock to 1 | a group grant, what a member delegates from it, and one more; the group grant expires at 1, the member is demoted, removed, or its organisation is suspended |
| `resubmit` | 1 actor, 2 sessions, window of 2, clock to 4, 4 grants, `StepAround` 2 (4 in the code) | two bucket edges, an expiry of 3 that falls on either side of one, more dead grants than live ones; as many as it takes to come to the end of the walk |
| `removal` | 2 writers, 2 people of whom 1 is erasable, 4 ids, pages of 2, one removal, 1 seal, 1 loss | two full pages and the empty one after; an erasure with two holes and an event on each side of the first; an event committed in any gap between two statements. Removals in sequence are left to the proof of `ChainVerifies`, which bounds nothing |
| `erase` | the same without a loss, with 2 trim checkpoints | the smallest in which the disagreement shows |
| `bytes`, `lockorder` | 3 sessions (2), 1 key, inputs with and without retention, sizes that fit or not, 1 crash, clock to 6 | a completion, a deletion and a collector on one file; two grace periods and the URL's life fit in the clock |
| `sweep` | 1 session, 2 keys, limit 1, 1 crash, clock to 4 | two orphans and a limit of one: the second must get its turn |
| `owners` | 2 sessions, an owner, an admin, a newcomer who may be made admin, 1 organisation; owner and admin suspended and restored freely | the smallest table in which somebody can be outranked, by somebody whose rank is not to be read, and somebody is the last owner |
| `services`: `pages` | 3 files, pages of 1 (of at most 2), 2 ticks to a millisecond, clock to 2, 4 pages | a page that ends in the middle of a millisecond, with files of it before and behind |
| `lastpage` | the same with pages of 2, the maximum | the smallest in which the disagreement shows |
| `provision` | 2 calls at a time of 3 in all, 2 people, a named and the default organisation, 1 crash, a person and an organisation that may be suspended | a race for one name, then a retry, with a crash in any of them |
| `jobs` | 1 call, 2 faults | calls share only the table of runs; a job that throws and whose record is refused as well |
| `stream` | parts of 3, chunks to 7, a stream to 9, a cap of 8 | an empty stream, one chunk of two parts and a bit, an exact multiple, one byte over the cap |
| `wire` | 2 requests, caps of none and 1, a ttl of 9 clamped to 3, clock to 3 | the whole life of a URL after a revocation |
| `copy`, `hang` | 1 request, objects of 0, 1 and 3 bytes, header numbers 0, 2, 5 with 4 the last safe integer | before, on and behind the end, reversed, and not a number; requests share only the grant, which is in `wire` |
| `fs` | 2 keys, 2 calls, 2 puts of 2 bytes, pages of 1, 1 fault | a reader, a writer and a lister in any pair, two pages, a death |
| `direct` | 1 token of 1 second, 2 ticks to a second, 2 puts, clock to 4 | a token signed in the middle of a second; a body that arrives before, in and after its last one |
| `units` | 3 scopes, 4 writes | the engine's transaction, a savepoint, a savepoint in it |
| `unshare` | 2 callers, of whom one also revokes; 2 grants that live for 1, clock to 1, 1 suspension or change of role | two grants are the least an unshare can be refused between; a suspension of the reader before the list, of either between two statements, a demotion between the first decision and the chain |
| `trail` | 2 writers, 2 actors, 2 rows, clock to 2, `keepLast` of 1 | one row that overtakes another, an erasure between the two, an edge of a window on a row |
| `usage` | 1 writer, 1 actor, 2 rows, the weeks [0,1) and [1,2), an install on day 0 or 1 | a week before the install, one with it, a removal that lies in another week, across the edge, or between two queries |
| `calendar` | days 17500 to 21300, the end of 2017 to 2028 | years of 52 and 53 weeks, leap years, years that begin on each day of the week |
| `schema` | the 11 migration files of the repository, 2 crashes, from all 12 versions | the second crash falls on the file the first one broke, or on another |

Every bound is a CONSTANT with a `Max` name, a size of a set, or a number in the
list above. `InTime` (`FileStore`) admits no new object so late that the clock
would end before it is old enough to be collected; without it a liveness
property would be violated by the bound alone. Sessions (and writers) are
symmetric; no symmetry is used in `sweep`, where it would be unsound, nor in
`services`.

`FileStore` has a specification with fairness, `FairSpec`:

- `WF(Tick)`: time passes.
- `WF(Work(s))`: a call that can take its next step takes it, or dies.
- `SF(BeginSweep(s))`: the sweep is started again and again (SEMANTICS.md tells
  the operator to run it on a schedule). Strong, since other calls may keep the
  session busy in between.
- `SF(Destroy(s))`: an object the store may refuse to delete is deleted if it is
  tried infinitely often. Without it nothing could be promised: the loop stops
  at the first object that is refused, and the next sweep begins with the same
  one, so an object that can *never* be deleted keeps those listed after it.

`MCServices!Spec` assumes of its parts, all of them weak fairness of what the
process does by itself:

- a job that has begun ends, one way or another, and its record is written or
  refused;
- a handler of a download takes its next step: reading from storage ends, a write
  returns. Nothing is assumed of `Drain` or `ClientLeaves`: a client may stand
  still for ever, which is why `HandlersGoOn` ends in "returned or waiting";
- the operator goes on with the next listed migration.

Nothing is assumed fair of the clients, of crashes, or of the other operations
being called.

## 6. Proofs

`tlapm` checks eight modules, and every theorem holds for all values of the
constants that satisfy the named assumptions:

| Module | About | Assumptions |
|---|---|---|
| `Sharing_proofs` | chains of grants, `Sharing`, its refinement of `GrantLedger` | `NoneIsNoNumber`, `MaxDepthIsNat`, `SharingAssumption` |
| `Listing_proofs` | who issues and unshares; the list query | these and `SubjectsAreWellFormed` (what may be named in a grant is an actor, a group, a link or everybody) |
| `AuditChain_proofs` | chain, removals, alarms, losses; its refinement of `AuditLog` | `AuditAssumption` |
| `FileStore_proofs` | rows and objects; their refinement of `FileLife` | `FileStoreAssumption`, `NoneIsNoNumber`, `NoneIsNoReason` |
| `Membership_proofs` | owners and ranks | `MembershipAssumption` |
| `Objects_proofs` | `FsStorage`, `S3Upload`, `Paging` | `ConstantsFit` |
| `Access_proofs` | `Delivery`, `Unsharing` | `ConstantsFit` |
| `Services_proofs` | `Transactions`, `Provisioning`, `AuditTrail`, `UsageReport`, `Calendar`, `Jobs`, `Migrations` | `ConstantsFit` |

The assumptions say of which type a parameter is and that `None` is no number, no
capability, no role, no session. Two say more: `FileStoreAssumption` has `Stall <
OrphanGrace` (section 3), and `ConstantsFit` collects what the components under
`MCServices` ask of their constants. These come from the configuration, not from
definitions, so the theorems of the last three modules are about any number of
calls, requests, grants, rows and keys, any sizes and any times to live. Finiteness
of the sets of actors, sessions or writers is never assumed.

**Sharing.** `TypeCorrect` is inductive as `TypeOK` stands, because it says that
a parent is an *earlier* grant; that keeps ancestries finite.
- `DelegationAttenuates` (`Attenuated`). The trigger compares a row with its
  *parent* only; the property is about all ancestors. The invariant is
  `Tightened`, the comparison with the parent; `Attenuated` follows as
  `Ancestry` is the *least* closed set (`AncestryLeast`): the ancestors that g is
  within form a closed set that contains g (`WithinTransitive`). No induction
  over the chain is needed.
- `ChainsStayBounded` (`ChainsAreBounded`): a new row's ancestry is its parent's
  and itself.
- `BudgetHolds` (`BudgetIsShared`). The property is about deliveries, the code
  counts in a column. `Counted` ties them: each row's `count` is the number of
  deliveries drawn through it or below it, and does not exceed its cap.
- `RevocationHolds` (`RevocationIsFinal`): a delivery needs the whole ancestry
  live when it is charged, not when it was authorised.
- `LedgerIsImplemented` (`ImplementsLedger`): every step is an `Issue`, a
  `Withdraw`, a `Draw` or a stutter of the ledger under the mapping.
- `OneGrantPerShareHolds`, `RetriesAreWithinTheCap`, `AnswersHold`: a share that is
  submitted again. The derived key of a share depends on the walk around dead
  grants, a function defined over the naturals whose existence is proved by a least
  counterexample (`LeastNat`, `WalkExists`). The invariant is that keys are unique
  and each derived key belongs to a share as it was asked and to a walk around
  grants that are dead (`KeysAreUniqueStep`, `KeysAreDerivedStep`). The dead stay dead,
  so two walks within one window agree as far as both go (`TrailsAgree`), and two
  live grants of one share would have one key.

**Listing.**
- `OutsidersStayBelowHolds` (`OutsidersStayBelow`): an actor of another organisation
  has no role at home (`OutsidersHaveNoRole`), and whatever its request in flight
  hangs from is, or lies below, a grant handed to it (`RequestsHangBelow`).
- `RolesUnshareAllHolds` (`RolesUnshareAll`): a role is not lost by revoking, so the
  decision that let the first grant go lets every other go.
- `ListsAgree` (`ListAgrees`): a statement about two ways of writing one decision. The
  query's tables are compared with the pure functions cell by cell, its branches with
  the rungs one by one; the invariant adds that rows are `Plain`. It fails for a
  subject that is neither an actor, a group, a link nor everybody, which is what
  `SubjectsAreWellFormed` rules out, as `subject_kind` does in the schema.

**AuditChain.** Invariant `Ordered`: ids are numbered below the sequence, the
holder of the lock sees every row there is, and each row's `prev` is below its
id with nothing in between. From it `ChainNeverForks`
(`OneChain`: `NoFork` and `Linked`).
`TrimBound` (what a running trim has doomed lies at or below its edge, and so
was there when it counted) gives `TrimsAreAttested`, the action property that no trim
overruns. `Recorded` (unless a
removal overran its record or a row was lost, every row points at the row before
it or at an attested one, and seals are behind the head or a trim) is inductive
with them and gives `ChainVerifies` (`OnlyOverrunsBreakTheChain`): trimming,
erasing and appending never break the chain unless an erasure overran.
`AlarmsAreReal` (`AlarmIsReal`) is about a verification that reads its pages while
events are appended: whatever it has not read yet is there unless a removal was
committed meanwhile, which changes the checkpoints (`Departed`), and what it has
read carries no alarm (`Unalarmed`), since a page leaves out no row between its
first and its last (`PagesAreTight`) and is replayed soundly (`PageIsSound`).
`LossesAreSeen` (`UnrecordedLossIsSeen`) is the converse, an action property.
`LogIsImplemented` (`ImplementsLog`) needs two invariants more. `Fresh`: an event
that is not committed yet is younger than all that is on record, or about to be put
there by a seal or a removal under way. `Reach`: a removal attests rows it saw, a trim
its edge, and takes exactly what is behind it; an erasure takes rows of its actor. Then a commit is an `Extend` (`CommitExtends`), the commit of a removal a
`Trim` or an `Erase` (`RemovalCuts`), and every other step a stutter (`LogStep`).

**FileStore.** One invariant, `IInv`, serves all five theorems. A key is `Settled`
when it has been used and no upload is on its way to insert a row for it; `Doomed`
when nothing wants it besides. Both last, which is why a collector may act on a
decision that is old. Uploads have a key to themselves and an object younger than the
grace period (`UploadsAreAlone`, where `Stall < OrphanGrace` is used), and each call
in flight keeps what its locks protect (`Established`, `LocksOK`): a row that is
locked while pending stays pending. `BytesAreThere` is about states,
`NoWantedByteIsLost` and `RowsEndOnceHolds` (`RowsEndOnce`: a deleted row stays as
it is, and the only row to disappear is a reservation past its deadline) about steps.
`LivesAreImplemented` (`ImplementsLife`): one step is a
step of one call (`OneCallMoves`) and moves no other file than the call's
(`OtherLivesStand`); a file whose row stands moves only when the upload it waits for
ends (`LifeMoves`). So a step that writes a row is one of the abstract file's moves
(`RowsAreLives`), one that writes an object lets bytes arrive or go (`ObjectsAreLives`). What the move asks for is what the call has established earlier and its
locks have kept: the bytes of a completion, the deadline of a collection, the hold of a
deletion.

**Membership.** `OwnersRemain` and `RanksAreKept` assume `Suspendable \cap Orgs =
{}` and prove that membership changes keep an owner and respect rank under any
concurrency, with actors suspended and restored and newcomers provisioned at any
point. The invariant is `TypeOK /\ OwnerOnPaper /\ Decided`, where `Decided` says
what a change in flight has established and nobody can have changed since, as it
holds the lock: the role it read of its target is the row's (or the target is a
newcomer), its changer may manage, its ranks are in order, and an owner is to
spare. `src/filelayer.ts` says of this check "NOT PROVEN UNDER CONTENTION"; this
is that proof. Without the assumption the property fails (section 7, `restoreOrg`).

**Objects.** `PartStands`: the part a behaviour of `MCServices` is about never
changes, so an invariant of one part is enough for a theorem about it.
- `TokensExpire` (`TokensKeepTime`): a token holds a time cut to seconds; the work is
  the arithmetic of that cut, for every resolution of the clock.
- `ObjectsStayWhole` (`ObjectsAreWhole`). For the stream: the parts and what is held
  tile what was taken, and all but the last are full (`PartsFollow`), whatever the
  length of the chunks. For the files: a file has one writer and comes to a path
  only when it is whole (`FilesType`, `FilesGrow`), a temporary file without a writer
  is one death (`LitterCounted`), and the pages of a listing are the front of
  what it has still to show (`ListingsHold`).
- `PagesStayComplete` (`PagesAreComplete`). A page is the front of what lies beyond
  the cursor (`FirstFiles`, `PageIsTheFront`), and the next cursor is its last file,
  cut to the milliseconds a cursor carries (`WalksOn`); so whatever was there from
  the beginning has been shown or is still beyond the cursor.

**Access.**
- `DownloadsStayHonest`, `RevokedRedirectsExpire`: every download on a grant was
  charged before the revocation (`Counted`), the range in hand is what the header
  names of the object that is open (`RangeInHand`, `IsHonest`), URLs are signed no
  later than the revocation (`UrlsHold`). Each step is proved once, for any set of
  requests; a step of `Copy` is one of `Wire` with another set (`CopyIsWire`). For
  the streams: a request that has not come to its object holds none, and one that is
  over holds none but the one that is dropped (`LetsGo`).
- `UnsharingLasts` (`UnsharingIsFinal`). A call has done some rows and has others
  ahead (`RowsAhead`); it holds what it has done, and the chain from before the first
  of them (`LocksOf`). Nobody else can take a step that needs the chain, so what it
  found out about the reader is still so at its commit, and a role that was enough
  when it got the chain is enough to the end: what refuses it later can only be its
  own suspension. Who has a row has the chain, and so has who is about to take one:
  they are the same (`RowsAreFree`). That a set of grants can be put in order at all
  (`Ascending`, `InOrderAscends`) is a least counterexample again.

**Services.**
- `UnitsCommitWhole` (`UnitsAreWhole`): what each savepoint has saved lies within what
  is pending (`UnitOpen`), to any depth, and a denial on its way out has its row
  pending (`DenialOnItsWay`).
- `OwnersAreKept`, `ChangesAreTold`: an organisation that was made for an owner has
  one, is being founded, or was cut off (`FoundersStand`); a standing or a suspension
  is on the chain, is still to be told by a call under way, or was cut off
  (`JoinsAreTold`, `SuspensionsAreTold`).
- `ExportsStayComplete` (`ExportsAreComplete`): the windows read so far have shown
  exactly once each row before their end that had come by then (`ShownOnce`), and
  what was said of a row when it was trimmed stays so.
- `ReportsStayHonest` (`ReportIsHonest`). For `UsageReport`: what is gone without
  having overrun lies within a checkpoint's span (`GoneIsAttested`), so a report that
  found none over its week has missed nothing (`ReportHolds`). For `Calendar`: the
  weeks are those of the standard on every day from the middle of January 1970 on,
  where TLC looks at eleven years. Every day lies in just one year (`OneYear`,
  `EveryDayHasAYear`, a least counterexample); a week is fixed by its Thursday, and has
  its year (`ThursdayOfDay`); the Thursdays of a year up to a day correspond one to
  one to the numbers of weeks (`ThursdaysCounted`), so the number the reference counts
  is the quotient the code computes (`WeekOfDay`); a number is refused just when its
  Thursday lies in another year (`RangeOfWeek`, `WeekIsThere`).
- `RoundsStayHonest` (`RoundsAreHonest`): what a call has tried is
  its plan up to the job in hand (`OnPlan`), and each job tried is on record, among
  the errors, or the one in hand (`RoundHolds`), whatever other calls do.
- `SchemaStaysKnown` (`SchemaIsKnown`), for any set of migrations:
  everything up to the recorded version is there (`NothingIsMissing`), a file is
  taken up when all before it is (`FileInHand`), and only a crash leaves a part
  broken or unrecorded (`OnlyCrashesLeave`).

**Only model-checked.** Liveness under fairness: `OrphansAreCollected` and
`ServicesGoOn` (`RoundsEnd`, `HandlersGoOn`, `SchemaArrives`). Every other property of
a passing run is a theorem.

## 7. Disagreements between code and documentation

Each of these has a run whose counterexample shows it.

1. **`erase`**: LIMITATIONS.md 11 says every hole an erasure makes is attested.
   The erasure works out its runs in one statement and deletes in the next, under
   a lock the appenders do not take; an event of the actor committed in between
   is removed without record, and the chain stops verifying.
2. **`lockorder`**: SEMANTICS.md:505-507 says the chain lock is always taken
   before a row lock. `completeUpload` and `collectUploadReservations` take the
   row first, `delete` the chain first; they can deadlock, and the victim is not
   retried.
3. **`lastpage`**: docs/QUICKSTART.md:499 calls `nextCursor` "opaque keyset
   cursor, or null on the last page". With the largest limit, 200, the row that
   shows that there is more is cut off by a second clamp
   (`src/store.ts:838`), so the cursor is null after 200 files however many
   follow, and those cannot be listed. `NothingIsSkipped` holds for every smaller
   limit.
4. **`hang`**: the comment in `sendNodeStream` says the handler waits for `drain`
   "OR FOR THE CLIENT TO GO AWAY". It listens for `close` only once a write has
   returned false. A client that leaves while the handler awaits storage has
   emitted `close` already; the write that follows returns false, nothing more is
   emitted, and the handler and the object's stream stay for good.

Seen while reading and modelling, without a run of their own. In the permission
core:

- `revokeFor` is documented as all-or-nothing (`src/filelayer.ts:3106-3108`). A
  refusal half-way is a `FilelayerError`, on which the transaction commits: what
  was revoked before stays revoked. It happens to an actor that loses its right to
  share by its own revocations, and `RolesUnshareAll` says to nobody else whose
  standing stays as it is; to one that is suspended between two grants; and to one
  whose role goes between the first decision and the lock it waits for, which are
  the only ways for a role (`HalfWayWithoutStanding`). A file that is deleted, or an
  organisation that is suspended, at those moments would have the same effect;
  `Unsharing` has neither.
- A repeated share may be answered with a grant that has no downloads left or
  whose parent is dead: `#grantStateForKey` (`src/filelayer.ts:2938-2951`) looks
  at revocation and expiry only. That is what keeps a cap from being refilled
  (`RetriesShareOneCap`). The previous bucket is looked up under the base key only
  (`:2723`), so a live grant under a stepped-around key is not found just after
  the edge (`TwiceOnlyAroundADeadGrant` says that this is the only case).
- Stepping around dead grants stops after four of them. "Past the bound the share
  simply inserts, which is the old behaviour and is safe"
  (`src/filelayer.ts:2711-2716`): it inserts under a key that a dead grant already
  has, so after five rounds of sharing and revoking within one window the sixth
  share meets a conflict, and is answered with the revoked grant.
  `NeverAnswersRevoked` excepts exactly that.

Membership and provisioning:

- `src/store.ts:498-499`: an organisation always keeps an owner row. The target's
  role reads as `null` while the organisation is soft-deleted
  (`src/authz.ts:1307`), and `restoreOrg` takes no lock; if it is restored before
  the next statement, the last owner can be removed. `owners` therefore suspends
  actors only.
- A changer who is suspended between the statement that authorises it and the one
  that reads its rank (`src/authz.ts:1317`) is compared as `null`, which no rank
  check refuses. `RanksHold` leaves such changers out; `OwnerOnPaper` does not.
- The facade creates an organisation and its owner in two statements
  (`src/simple.ts:289`); a crash in between leaves an organisation without owner,
  and the retry of the same call is refused as somebody else's: the name is lost to
  its owner. The comment at `:850-851` says there is never a memberless
  organisation, the one at `:853-854` that a retry is safe. `OwnerlessOnlyByCrash`
  and `RetryIsSafe` say that a crash there is the only way.

Revoking:

- `unshare` for a user who is suspended answers `{revoked: 0}`, as `findActor` knows
  no suspended actors, and `revokeFor` passes over grants whose issuer is suspended
  (`g.live`). When they are restored the access is back. `src/simple.ts:1128-1129`
  says that "make sure this person cannot read it" "is satisfied by their not
  existing"; `UnshareLasts` excepts both.
- `subjectCanStillRead` "cannot be raced by a concurrent" revocation
  (`src/filelayer.ts:3232`), which `AnswerIsTrue` confirms, for shares and roles too;
  it can be overtaken by a suspension, which takes no lock, and by an expiry during
  the transaction, since `now()` is its beginning.

The audit trail by time:

- `trimAuditChain({before})` "trims everything that happened before an instant"
  (`src/store.ts:1381`). It takes the *last* such row by id and removes all up to it,
  younger rows that overtook it included. `NothingGoesUnread` excepts them, and the
  rows that get their id after their window was read.
- A removal committed between `buildUsageReport`'s look at the checkpoints
  (`src/usage-report.ts:373`) and its counts makes an undercount a number, which the
  comment there calls "the error this report exists to avoid"; an event an erasure
  removes without having counted it does the same. `ReportIsHonest` excepts both.
- docs/USAGE-REPORT.md:179 has `first_success_day` `null` with `audit_trimmed` "when
  the first allowed read is no longer in the log". The code gives the first of those
  that are left (`src/usage-report.ts:424-431`), and `null` only when none is.

The audit chain:

- The comment on `AuditChainResult` (`src/store.ts:1976-1979`) says
  `truncated_past_seal` means the chain is shorter than a seal says. The verifier
  reads the head first and the checkpoints afterwards (`:1208`), so an append and a
  seal in between make an intact chain look truncated.
- It reads the checkpoints once and the rows page by page (`:1261`): a trim or an
  erasure committed while it pages can raise an alarm. `AlarmIsReal` is stated for
  checkpoints that stay as they are. A gap attested once also excuses a later loss
  of exactly the row it attests (`:1279`).

Files and listing:

- SEMANTICS.md (near line 540) says soft-deleted files are never collected; the
  sweep collects bytes of a deleted row once its retention is over
  (`src/filelayer.ts:2467-2471`), which is what `Shielded` models.
- `completeUpload` can answer successfully with a record that is deleted
  (`src/filelayer.ts:1482-1486`): whatever row is there after the UPDATE matched
  nothing is the answer.
- The cursor keeps milliseconds, `created_at` microseconds: the next page begins
  again at the start of the millisecond the last one ended in, so files are
  repeated (test/listing.test.ts:324, 328 expect each once), and a caller whose
  pages are shorter than the number of files of one millisecond never gets past
  it. `OnlyTheLastMillisecondRepeats` bounds the first; `NothingIsSkipped` is about
  walks that end.

Delivery:

- `deliveryFetch` answers HEAD by dropping a body it does not cancel
  (`src/delivery.ts:1258`); `StreamsAreReleased` excepts it.
- A cached 302 has at least half of its URL's life before it
  (`redirectHeaders`) only if it was delivered without delay, and with a ttl of
  one second `max-age` is the whole of it. `CachedRedirectsLive` states what holds.
- A redirect under a cap counts as one download, and its URL can be fetched any
  number of times until it expires; `#reserve` says of a cap of 3 that the bytes
  leave at most 3 times through any path. `CopiesWithinCap` counts redirects, not
  fetches of one. A read that fails at the store has been counted all the same.

Jobs, transactions, migrations:

- `runMaintenance` with `dryRun` trims if it is given a trim policy
  (`src/filelayer.ts:3646`); `DryRunsChangeNothing` excepts it.
- With a host's `withTransaction` hook that rolls back what throws, the audit row of
  a denial is lost and the caller gets the wrapper `CommitThenThrow`; the same when
  a denial falls in a transaction of the host's. `DenialsAreKept` excepts both.
- A migration that builds an index in its own statements (5, 8, 12, 13) and is
  stopped there leaves it invalid. Run again the file finds it and says "already
  applied"; once a later migration is in, `schemaStatus` reads `current`. In the
  case of 13 the unique index that makes a share idempotent then enforces nothing.
  The block in 005 that drops invalid indexes is not reached once its marker is
  there. `NothingIsForgotten` says that an object is broken only after a crash.
- `SchemaStatus.outstanding` lists the versions above the highest recorded one, not
  the versions that are missing.

## 8. What is not modelled

- **S3's `get`, `head`, `delete`, `list`** and the **memory adapter**: one signed
  request each, and a Map. `FileStore` takes a store to write an object whole, to
  delete it or refuse, and to list what is there.
- **Headers of a delivery**: file names, content types, dispositions.
- **The rest of the facade**: translates identifiers and calls the engine.
- **Integration self-audit, CLI, MCP, errors**: formatting, argument handling, no
  protocol state. That a `FilelayerError` commits is in `Transactions`.
- **Of the usage report**: the counts of files, organisations and job runs, the
  install id, the check against the schema; **of metering**: the sums themselves,
  which no decision reads; **of audit reading**: the limit, and the other filters.
- Inside the modelled parts: contents and digests, names and metadata, the
  refusals for malformed input (they change nothing), the wording of errors, and
  the audit rows a handler writes beyond the lock they take (`AuditChain` models
  the rows themselves, `Provisioning` which of them there are).
- **Documentation, benchmarks, examples, site, tools**: no part of the library.

The map names the lines that definitions translate. Of everything in the
repository that counts as implementation (scripts of the documentation, the site,
benchmarks, examples and release tools included, and the comments, which make up
half of the library) that is a small share; of `packages/core` itself, `src` with
`schema.sql`, it is more than a third. The remainder of the library is types, its
comments, SQL that only selects columns, HTTP and XML formatting, the command
line and the reports listed above.
