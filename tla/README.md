# Verification of Admitto

Admitto keeps an event's guest list, mails each guest a ticket, checks them in
at the door, and forgets them when it must. The hard part of that is not any one
request. It is that web requests, background workers, scanners at the door, operators at a shell and the
mail provider all write to the same rows and files, each with a copy that may be
out of date, and that a person may be erased in the middle of any of it.

This directory models those parts in TLA+, checks them with TLC on small
instances and proves, with TLAPS, what matters most for instances of any size.

| module | what it is |
|---|---|
| `MailDelivery` | the mail outbox: requests, drain, retry, Stop, bounces, erasure, retention |
| `MCMailDelivery` | its instances for TLC |
| `MailDeliveryProofs` | its theorems |
| `CheckIn`, `MCCheckIn` | admission, undo, revoke, edit, badge, erasure |
| `CheckInProofs` | its theorems |
| `AdminJobs`, `MCAdminJobs` | exports and imports, their files, erasure, retention, downloads |
| `AdminJobsProofs` | its theorems |
| `SignIn`, `MCSignIn` | sessions, one-time proofs, remembered devices, sign-outs and resets of an account |
| `AccountPromise` | what `SignIn` promises, in single steps; `SignIn` implements it |
| `SignInProofs` | proofs of every property of `SignIn`, the implementation of `AccountPromise` among them |
| `Enrollment`, `MCEnrollment` | adding authenticator, passkeys and backup codes |
| `EnrollmentProofs` | its theorems |
| `EventWrites`, `MCEventWrites` | every transaction that writes into an event, statement by statement, with its locks |
| `EventWritesProofs` | proofs of every property of `EventWrites` that `EventRaces` checks |
| `WalletPasses`, `MCWalletPasses` | how a wallet pass is made at the provider, and how an erasure finds all of them |
| `WalletPassesProofs` | its theorems |
| `WalletLifecycle`, `MCWalletLifecycle` | whether a wallet pass is valid: commands, reads of the provider, removal, expiry |
| `WalletLifecycleProofs` | its theorems |

Run a configuration with `tlc -config <cfg> <module>`, e.g.
`tlc -config MailRaces.cfg MCMailDelivery.tla`; check the proofs of a module with
`tlapm MailDeliveryProofs.tla`. `PROJECT.json` names, for every definition that
models code, the lines it models; for every property of a passing run, a mutant
of the code that breaks it; and every hazard with the properties that guard it.

## 1. Inventory

Processes: the web server (`apps/web`, any number of requests at once), workers
(`apps/cli/src/commands/worker.ts`, one or more), operators' commands
(`apps/cli`), and a provider behind each of mail and wallet. They share a
PostgreSQL database, a file store and, if configured, Redis. There is no message
bus: a process acts on rows it reads, under row locks, advisory locks and
conditional updates (`updateMany` with the expected state in its `where`).

**Mail outbox** (`packages/mail-delivery`: `claim`, `send`, `drain`,
`drain-retry`, `retry`, `cancel`, `sendable`). State: the `EmailDelivery` rows.
Operations: `sendTicketEmails` claims a row per guest (new, or a finished or
failed one again), `drainPendingDeliveries` picks due rows up and sends them,
`retryDelivery` is the operator's command, `cancelBulkSendBatch` is Stop.
Interactions: erasure empties rows, bounce ingest and retention write to them.
Hard: copies read minutes before they are used, answers of the provider that
come after the row was stopped, claimed again or emptied, a database session
(and the lock in it) that drops while its process runs on, crashes between the
answer and its record. Correct if nobody is mailed twice without a fault or a
request for it, a recorded success is real and stays, an erased person's rows
stay empty, and every waiting row is settled. **Modelled**, but for
`deliverImmediately`, which no caller in `apps/` uses, and the override
recipient of a resend.

**Bounce ingest** (`mail-delivery/src/bounceIngest`). Matches a bounce to a row
by message id and applies it if revision and attempts are still those matched.
Hard: the bounce overtakes the record of the answer it belongs to. **Modelled**
but for the mailbox.

**Check-in, undo and items** (`packages/tickets`: `admit`, `undo`,
`attendee-lock`, `checkin-device-lock`, `item-states`; the attendee routes of
`apps/web`). State: `Attendee` (status, `admitted_at`, `updated_at`), `CheckIn`
rows, item states, the activity log. Hard: the time of a check-in doubles as
the name of an admission, two devices may share a millisecond, an erasure cuts
times to the hour, edit forms are saved long after they were loaded. Correct if
an admission stands on exactly one check-in, nobody is inside on a blocked pass,
an undo takes back the last check-in of its device, the log adds up, and an
erased guest leaves no exact time. **Modelled**, but for items other than the
badge and the audit rows of refused scans.

**Exports and imports** (`packages/tickets`: `drain-export-jobs`,
`reclaim-stale-export-jobs`, `stop-open-jobs`, `erase-job-results`;
`packages/import`: `drainImportJobs`, `executeImportCommit`,
`reclaimStaleImportJobs`).
State: `AdminJob` rows, a file per job. Hard: a file is written before its row
names it and deleted before the row forgets it; a job is taken for abandoned by
its age alone; an erasure must stop open jobs, keep a running import from
writing people back and get rid of files that hold them. **Modelled**, but for
the deletion of a whole event and the blanking of import results.

**GDPR erasure and removal** (`tickets/src/erase-attendees.ts`,
`remove-attendees.ts`, `attendee-traces.ts`). One transaction over all tables,
then provider calls and file deletes. Each module has its share as an action.
**Modelled** but for shared addresses, audit traces and the blanking of import
results, further rows of the same transaction.

**Event capacity, ticket types, attendees in the panel, event deletion**
(`event-capacity.ts` of `tickets`, `import` and `apps/web`, `ticket-types.ts`,
`ticket-types-routes.ts`, `attendees-api-routes.ts`, `optimistic-update.ts`,
`event-deletion.ts`, `stop-open-jobs.ts`, `importer.ts`). State: the event and its capacity, the catalog
of types, attendee rows, job rows. Every operation is one transaction that takes
several advisory and row locks. Hard: the last seats, a type deleted under a
request that just found it, an erased row written by a PATCH that read it before,
an event deleted under all of them, and locks taken in an order that lets two
transactions wait for each other. Correct if the limit holds, a checked type
stays, an erased attendee is not written to, a deleted event leaves nothing
behind, and no cycle of waits arises but through the order of a file. **Modelled** in
`EventWrites`, but for the images and files removed after a deletion.

**Import parsing and planning** (`packages/import`). Pure: file to rows, rows to
create/update/skip. *Not modelled*; a bounded check of the decision is possible.

**Ticket issue and resolve** (`tickets/src/issue.ts`, `resolve.ts`, `token.ts`).
State: a token per guest. Two issues at once meet the unique key of one upsert.
*Not modelled.*

**Wallet jobs** (`tickets/src/drain-wallet-*-jobs.ts`). The same job table; the
outcome is written by id, without asking whether the job is still running, so a
reclaimed job may change its outcome. What such a job does to a pass is an action
of `WalletLifecycle`; the jobs themselves are *not modelled*.

**Wallet passes** (`packages/wallet`, `tickets/src/erase-wallet-passes.ts`,
`tickets/src/void-wallet-passes.ts`, the wallet routes of `apps/web`). State: the
`WalletPass` row (status, ids, the stamps of the last command and the last read,
two marks of removal) and the pass at the provider. Hard: the provider is in no
transaction, so every operation reads the row, calls out, and writes a row that
others have written meanwhile; calls are carried out after their caller gave up;
the provider's search shows what is over; a second pass may exist under the same
id; the event's account may change. Correct if the row always leads an erasure to
every pass there is, an active pass is at the provider, and a read of the provider
never undoes a command. **Modelled** in `WalletPasses` and `WalletLifecycle`, in
the limits of sections 9 and 10.

**PassCreator client** and its pace gate; **rate limiting**. I/O and fixed windows
that only delay or refuse a call. *Not modelled*; a call's outcomes and its deadline are
inputs of `WalletPasses`.

**Mailer adapters, mail configuration, templates.** Network I/O and text. Their
outcomes are inputs of `MailDelivery`. *Not modelled.*

**Sessions, login and revocation; second factors** (`packages/auth`, the login
and account routes of `apps/web`). State: sessions and their stages,
authenticator, passkeys, backup codes, remembered devices. Hard: one code presented
by two requests, a promotion that waits for the row a sign-out has written, a
device inserted while devices are being forgotten, an enrolment started again
while it is confirmed. Correct if a proof counts once, an ended session stays
ended, no device outlives what it rests on, and only the first method is added
without the proof of another. **Modelled** in `SignIn` and `Enrollment`, in the
limits of sections 6 and 7. **OIDC, Cloudflare Access:** redirects and token
checks around one single-use row. *Not modelled.*

**Notifications** (`packages/notifications`). Fan-out by preference; nothing depends
on it. *Not modelled.*

**Storage and upload sweep** (`packages/storage`). Files and keys; the sweep
deletes files no setting names. Hard: a setting is saved between check and
delete. *Not modelled*; the sweep of job files, which has the same shape and more
to lose, is part of `AdminJobs`.

**Worker loop and locks** (`apps/cli/src/commands/worker*.ts`). Ticks all jobs
in parallel, each under a session advisory lock on a connection of its own whose
loss the job does not notice. Taken here as fairness; no model relies on the
locks. *Not modelled* by itself.

**Database helpers; web routes and settings; admin UI; crypto, addresses, shared
helpers, UI kit.** Schema and glue, request handling around the packages,
stateless code, a client. *Not modelled*; handlers that change modelled state
are part of their modules.

## 2. Plan

In the order of what would hurt a guest or a member of staff most: the outbox, the
door, exports and imports, sign-in and enrolment, the writes into an event, the
wallet. Each is a module, an instance and its runs; the theorems of section 11
follow the same order. `AccountPromise` is the abstract specification of sign-in.
What is worth adding next:

1. The life of a wallet job as in `AdminJobs`, whose outcome is written by id alone.
2. An abstract outbox (per guest: waiting, mailed, given up, erased) that
   `MailDelivery` is shown to implement.
3. The sweep of uploads; the shutdown of a worker.

## 3. The mail outbox: `MailDelivery`

### State and actions

| model | code |
|---|---|
| `row[d]` | the `EmailDelivery` row: `status`, `retryable`, `revision` (`queued_at`), `attempts`, `batch`, `purpose`, whether it holds a `recipient` and a `snapshot` (address and rendered text), whether it is `aged` past retention |
| `request[r]` | one `sendTicketEmails` call: who already had a ticket when it began, who is left, the row it has found for the guest at hand |
| `phase`, `job`, `todo`, `outcome` | what a worker or a retry command holds in memory: where it stands, its copy of the row, the rest of its tick, what the attempt came to |
| `lock[d]` | the session advisory lock `admitto:delivery:<id>` |
| `ndr`, `sweep` | a bounce matched but not applied; the ids retention has read |
| `accepts`, `excused` | histories: mails the provider took, per row and revision; faults that struck while such a mail was out |

A row carries its own version: `queued_at` moves with every claim, `attempts`
with every recorded attempt. A sender copies both when it picks the row up and
writes only while both still match (`SameAttempt`). The advisory lock only
serialises senders; it goes when the database session goes, while the process
runs on (`LoseSession`), which is why it is not enough.

| action | code |
|---|---|
| `BeginSend`, `CreateInitial`, `CreateResend`, `ClassifyExisting`, `RetryExisting`, `ReclaimCancelled` | `sendTicketEmails` and `claim.ts`: one guest at a time, read and claim apart |
| `DrainClaim`, `DrainOwn` | `claimDrainCandidates`, and the turn of each copy |
| `RetryStart`, `Obstructed`, `RetryGivesUp` | `retryDelivery` and its lock |
| `CheckBeforeSend`, `HandOver`, `ProviderAnswers`, `ProviderThrows`, `ConfirmOwned`, `Abort`, `Record` | one attempt, from the last look at the row to the write of the outcome |
| `LoseSession`, `Crash`, `AnswerLost`, `RecordFails` | faults, at most `MaxFaults` |
| `StopBatch`, `Erase`, `MatchBounce`, `ApplyBounce`, `Age`, `SweepRead`, `SweepClear` | everybody else who writes to a row |

Left out: the worker's own job lock (so several workers drain at once, which is
more than the code allows), rendering (one outcome), the content of messages,
`viewed_at`, the wait between attempts (any time may pass).

### What is checked

| run | instance | shows |
|---|---|---|
| `MailRaces` | one guest; a request and two workers, two overlapping requests and a worker, or a request, a worker and the retry command; a fault, fairness | `MailedOncePerClaim`: whoever sends and whatever interleaves, one claim means one mail, plus one per fault that struck while the mail was out. `NoUnaskedMail`: two sends to the same people at once mail nobody twice. `SuccessWasMailed`: an answer to an earlier claim's mail is never written to the present one. `OutcomeIsKept`: no other attempt overwrites a success, and a row taken out of a send by Stop changes only by the answer to a mail that was already out. `ErasedStaysEmptied`: nothing comes back into an erased person's rows. `WaitingHasMessage`: a row that waits has a message to send. `SettledWithoutCommand`: every waiting row is settled, through outages, a crash and contention. |

All actors at once are more than TLC finishes. `cast` (in `MCMailDelivery`) is who
takes part in a behaviour, one of three casts (`Casts`); whoever is not in it never
starts. Everybody else who writes to a row - Stop, erasure, bounces, retention -
belongs to every cast.

Bounds. Rows of different people share nothing but a sender's `todo`, and with
two requests one guest already has up to three rows, so several rows are in a
tick. Two workers are two senders of a kind, a worker and the command two of different kinds. Three
attempts (`MaxAttempts`, 8 in the code) are a first, a middle and a last one.
Two revisions are an earlier and a present claim. One fault may strike on either side
of a handover; there is none in the cast with two requests. The safety properties are
proved for any actors and any number of faults (section 11), so the casts bound only
`SettledWithoutCommand`.

Fairness: a worker takes a step when it can, as `runWorkerTick` comes back to the drain
for as long as the process lives and `drainPendingDeliveries` works its list to the end,
and a retry command that has picked a row up runs on. The provider, requests and
operators owe nothing. `WaitingIsSettled` is asked of the casts without the retry
command (`SettledWithoutCommand`), since someone who retries forever prevents any end.
The attempt limit is what makes an outage end. A tick takes all rows that are due; the
code takes at most 50 (`drain.ts`), and leaves the others for the next tick.

### Findings

Three are stated in the module and found violated when they are added to a
configuration:

* `QueuedIsDrainable` (`claim.ts:154`, as an INVARIANT in `MailRaces.cfg`, with
  `[actors |-> {r1, r2, w1, c1}, faults |-> 0]` among the `Casts`): the
  retry command counts attempts past the drain's limit and leaves the row
  retryable; a later request queues it without resetting the count, and no drain
  takes it again, while every further request skips the guest as in flight.
* `StoppedNotPutBack` (`drain.ts:224`, as a PROPERTY in `MailRaces.cfg`): the comment at `drain.ts:96` says a
  write over a cancelled row must not put it back in the retry pool. A
  transient refusal that arrives after Stop does just that.
* `BouncedIsTerminal` (`drain.ts:224`, likewise): a hard bounce that is applied while the
  provider's answer is being recorded is overwritten by that record.

## 4. Check-in: `CheckIn`

### State and actions

`guest[g]` is the attendee (status, `admitted`, `version` for `updated_at`,
`erased`); "registered" stands for both admittable statuses. `scans` are the
VALID check-in rows in commit order, each with the time stored, its device and,
as history, the time it was really made. `reversed` and `autoIssue` are what the
activity log says of them. `badge[g]` is an item state. `task[s]` is the request
a station has open, with what it has read. `taken`, `ledger` and `issuer` are
histories.

`AdmitBegin`/`AdmitCommit` are `admitAttendee` before and from its conditional
update; `UndoBegin`/`UndoCommit` are `undoLastCheckIn` up to its choice and from
the guest's row lock; `EditOpen`/`EditSave`/`EditDrop` the attendee form and its
PATCH; `ItemBegin`/`ItemCommit` `transitionItemState`; `RevokeCheckIn`,
`RevokePass`, `RevokeItem` and `Erase` transactions that hold the row
throughout. `LockedAgainstErasure` is the guest's row FOR KEY SHARE. The clock
is in ticks, `HourLen` of them an hour, so an erasure that cuts times to the
hour makes them equal or reorders them.

Assumed: the check-ins of one device have distinct times (they follow one
another under the device's lock). Those of two devices may be equal. `version` is new
with every write, where the code compares `updated_at` in milliseconds: two writes of a
row in one millisecond are told apart here. Left out:
items other than the badge (the same code), notes, previews, refused scans,
edits that leave the status alone; a full event is `EditDrop`.

### What is checked

| run | instance | shows |
|---|---|---|
| `CheckIn` | two guests, a device, a clerk; two check-ins, an hour and a half | `AdmissionHolds`: a guest is inside because of exactly one check-in that nobody took back, none is taken back twice, although a time is all that names an admission, and nobody is inside on a blocked pass. `BadgeLedger`: the badge is out exactly if the log's issues exceed its returns. `ErasedLeavesNoTrace`. `UndoTakesBackOwnLast`: after an erasure has cut the time of one of them, undo still takes back the last check-in of its device or none. |

Two check-ins are needed for an undo to be overtaken by a revocation and a
second admission, which the clerk makes at the same tick; an hour and a half for a
cut time to fall before and after another. There is no liveness property: a station may leave its request open forever.

Found violated when it is added to `CheckIn.cfg` as a PROPERTY:
`UndoRollsBackOwnBadge` (`item-states.ts:415`): an undo takes the badge
back if the log says the check-in issued it once, also when it has since been
reset and handed out by hand.

## 5. Exports and imports: `AdminJobs`

### State and actions

`job[j]` is the `AdminJob` row: status, whether it names a file
(`storage_key`), whether its result is marked invalidated. A file has the name
of its job, since an export writes once and an import has one staged file.
`file[j]` is what storage holds, who is in it, and whether it is a day old.
`list` are the people of the event not erased, `landed` the imports with an
`attendees_imported` log row, `worker[w]` what a worker has in hand. `purge[e]`
are the files an erasure has still to delete after its commit, `keeper` the
retention run, `reader` a download. `gone[j]` (history) is who was erased since
j's rows were read (export) or since j was created (import); `spared` (history)
the files a fault kept.

`Claim` … `MarkFailed` are `drainExportJobs` and `drainImportJobs`;
`FindStale`, `ReadAudit`, `Reclaim` the reclaims; `Erase` the transaction of
`eraseAttendees` or `removeAttendees`, `PurgeFile`, `PurgeKey` what follows it;
`KeepOrDelete`, `ClearKey` `purgeJobFiles`; `SweepLook`, `SweepDelete`
`sweepOrphanedJobFiles`; `OpenDownload`, `ReadFile`, `Answer` the route that
serves an export. An erasure holds the queue lock and the open jobs FOR UPDATE
to its commit, an import transaction its job's row from its start, so each is
one step. `Age` assumes, as the comment of `sweepOrphanedJobFiles` does, that
nobody who is still going to name a file is a day behind.

Left out: event deletion, the blanking of addresses in import results, capacity,
file formats. Reclaim by `heal` is there, but since people and outcome commit
together its update never finds the job still running.

### What is checked

| run | instance | shows |
|---|---|---|
| `AdminJobs` | an export, an import, two workers, one person, one eraser, one fault, fairness | `TaintedIsCaught`: a file that holds an erased person is always about to be deleted by somebody, or a fault kept it. `NobodyWrittenBack`: an import overtaken by an erasure writes nobody back. `ServedIsCurrent`: nor does a download hand them out. `LandedAsShown`, `OutcomeIsFinal`: a job's outcome is what happened, and stays. `FilesAreTemporary`: every file goes in the end. |

Two workers are the slow one and the one that takes its job for abandoned; the
fault is any one of a crash, a failed delete, a lost or failed write. People do
not interact: a file holds a set of them, and the properties speak of one at a time.

Fairness: workers claim, reclaim and go on with what they
hold (`runWorkerTick`), the retention run comes back every day, time passes and
uploads end. Erasures and readers may stop anywhere, which is why the sweep is
needed.

`TakesBackUnnamedOnly` (`drain-export-jobs.ts:199`) is stated in the module and found
violated when it is added as a PROPERTY to `AdminJobs.cfg`: when the update
that records a file commits and its answer is lost, the worker deletes a file
that a succeeded job names.

## 6. Signing in: `SignIn` and `AccountPromise`

### State and actions

One account whose role demands a second factor. `session[s]` is a `Session` row:
its stage, whether it is alive, the proof that made its second factor fresh
(`mark`, for `mfa_verified_at`) and whether it still is (`recent`).
`totp`, `key`, `code`, `mustChange`, `device` are the other rows. `request[r]` is
a transaction: its kind, the statement it is at, what it found (`want`) and what it
has written (`did`).

Transactions are READ COMMITTED, and the model says what that means. `Look` is the
snapshot of a statement; `Run` happens once nobody else has a written, uncommitted
version of the rows found, and writes those that still match the statement's
`where` in what is committed by then (`Rematched`); `Commit` makes the writes
visible; `Abort` undoes them at any point. A `where` that forgets a column, or a
check done before the statement instead of in it, shows as a race.

`Plan` lists the statements of each kind: `Verify` is `completeMfa`,
`RememberDevice` the insert behind a fresh proof, `CompleteCodes` the
acknowledgment of backup codes, `NewPassword` the forced change of password,
`PatchPassword`, `MfaReset`, `DeleteTotp`, `ForgetDevices` the account page,
`Logout`, `SignOutAll`, `ResetPassword`, `ResetUserMfa` an administrator's.
`LoginCheck` and `LoginCreate` are `login` before and from `createSession`, the reads and
checks before it in one step.
`Expire` and `ProofAges` are time. A code of the authenticator may be typed at any
time, not only within a step of its own, which adds behaviours and takes none away.

`AccountPromise` is what all of this is for, with three variables: the proofs
accepted and from whom, what remembered devices rest on, and what has been
forgotten. A proof is accepted once, and a step never leaves a device on
something forgotten. `KeepsPromise` is the refinement: `spent` are the committed
requests that used a proof, `forgotten` what committed revocations had found,
`trusted` the live devices with their session and proof.

### What is checked

`SignInRaces`: two sessions (one of an earlier login), two requests of any kind,
one recovery code, two steps of an authenticator.

* `NoProofBurnt`: a recovery code is spent only on a login that was completed.
* `SignedOutIsOut`: a session that a sign-out found is ended, whatever advanced it
  meanwhile.
* `KeepsPromise`: the refinement. It says that a code or a time step is accepted from
  one request, and that no remembered device rests on a session or a proof that a
  finished sign-out, reset or forget-all had found.

Two requests are enough for every pair of kinds, which is where each of these
would break; the second session is one that a request does not come from. There is
no fairness and no liveness: a request may stop anywhere.

Left out: accounts without a second factor, the first enrolment (section 7),
deactivation, the lengths of life, the audit trail. Removing one passkey has the
shape of `DeleteTotp`. A statement's rows are locked all at once: PostgreSQL takes
them one by one and may break a deadlock, which is an `Abort` here. A device
inserted by a transaction that is not committed when a reset looks at the devices
counts as a later one; so does a session whose login is still on its way.

## 7. Enrolment: `Enrollment`

### State and actions

`totp` is the authenticator row (whose secret, confirmed, with a proof of another
method or without, whether its codes are owed an acknowledgment), `keys` the
passkeys, `codes` the batches of backup codes, `stage` the sessions, `stash` the
plaintext codes that the web process keeps for a session. `request[r]` goes
through `Plan` as in `SignIn`; a request may consist of several transactions.
`Start`, `Confirm`, `Passkey`, `Complete`, `Ensure` are the login pages, `AddTotp`,
`AddPasskey`, `Regenerate`, `Cancel` (and `Start`) the account page. `Lock` is
`acquireMfaEnrollmentLock`, `StillNone` the check under it, `AskProof` the choice
`addMfaMethodWithStepUp` makes before.

### What is checked

`EnrollRaces`: two sessions, three requests, an account with an old passkey or
without.

* `OnlyFirstUnproven`: however enrolments overlap, at most one method was added
  without the proof of another.
* `OneConfirmation`: one pending secret is not confirmed twice.

Finding (`EnrollLostFactor`): `ConfirmedStays`: starting an enrolment checks for a
confirmed authenticator and then deletes every authenticator row, in two statements;
a confirmation that commits between them is deleted, and its owner was told that
it succeeded (`enrollment.ts:44`).

`MethodHasCodes` (`enrollment.ts:117`) is found violated when it is added to
`EnrollRaces.cfg` as an INVARIANT: a cancelled enrolment finds no confirmed method,
then deletes codes that by then belong to a passkey.

Left out: a secret that does not decrypt, removals and resets (in `SignIn`), the
same passkey twice. A wrong proof changes nothing.

## 8. Writes into an event: `EventWrites`

### State and actions

`event`, `capacity`, `settings`, `types` (the catalog), `person[p]` (an attendee's
row: there, erased, whether it takes a seat, its type, who wrote it last),
`newcomers[r]` (rows that r created), `job[r]` (r's import job). `request[r]` is a
transaction or a short list of them: where it is in `Plan`, what it has read, the
locks it holds, the rows it will write. Locks are those of the code: the advisory
locks of mail settings (`scoped`), of the job queue, of the types and of the capacity, rows
FOR UPDATE and the FOR KEY SHARE of foreign keys, each with its mode. One
action per statement; `Commit` makes the writes visible and releases the locks;
`Retry` is the replay of preparation by `runEventCapacityTransaction`; `Abort` a
timeout, a lost connection, a crash, or PostgreSQL breaking a deadlock.

### What is checked

`EventRaces`: two requests of any kind but the command-line import, two attendees,
two types, a capacity of at most two; files list nobody, or both in either order.

* `NoOverfill`: from the count on, nobody else takes the seats counted.
* `CheckedTypeStays`: a type found in the catalog is there when the row is written.
* `ErasedUntouched`: nothing writes into an erased attendee's row but its removal.
* `NothingOrphaned`: a deleted event leaves no mail settings and no job.
* `OnlyFilesMakeCycles`: in every set of transactions in which each waits for another, an
  import on its way through its file waits for a person that another request has locked by
  id, itself waiting for the next. If the import is a job, that is a bulk change: an
  erasure or a removal has the row of the job before it locks anybody.

Two requests show every pair of kinds. A cycle of waits that goes through three
transactions, and through no two of them, is beyond this run, but not beyond the
theorem `OnlyFileOrderDeadlocks` (section 11).

Finding (`ImportOrder`): `NoWaitCycle`: no set of transactions in which each waits for
another. `attendee-erasure.md:438` says "Every transaction takes these locks in the same
order (the queue, the job rows, then the attendees), so the waits cannot end in a cycle",
and the comment at `stop-open-jobs.ts:53` that the order is the same everywhere. Among
the attendees it is not: an import updates its people in the order of its file
(`importer.ts:383`, in one transaction), a bulk change locks them by id, and each of the two can
hold the row that the other waits for. PostgreSQL ends that by aborting one of them.

Another one is found violated when the configuration is widened:

* `ErasedUntouched` with `Kinds <- EraseAndCli`: the import from the command line runs
  as no job, so nothing stops it when somebody is erased, and it writes the name back.

Left out: waits behind somebody who is waiting himself (PostgreSQL resolves those),
the type rows' own locks, which are taken under the catalog's lock - but for the
deletion of an event, which may meet the rename of its standard type there; PostgreSQL
aborts one of the two. An import's dry pass is one step, and its failure leaves its job
running here (`AdminJobs` has the marking). Rows of jobs are locked in any order, which
allows more than the order of ids does.

## 9. Wallet passes made and erased: `WalletPasses`

### State and actions

One attendee. `row` is the `WalletPass` row: its status, the recorded id
(`provider_pass_id`), whether an id of Admitto's own choosing is reserved on it
(`user_provided_id`), the two marks (`left_behind_pass_id`, `provider_removed_at`)
and when the recorded pass was issued. `pass[p]` is a call that makes a pass, then
the pass. `account` counts the credentials the event has had. `creation[i]` is a web
process in `handleWalletRedirect`, `followup[f]` a run of `deleteErasedWalletPasses`,
`deletion` an administrator's "Delete wallet pass".

The provider takes part in no transaction. A call is carried out within `Lag` of
being sent (`Land`), whether or not its caller still listens (`GivesUp`, `Crash`); it
may be refused and retried; a pass may be made although there is one under that id
already, or the earlier one be looked up instead (`Refused`). `Save` is `markActive`
with what it finds under the locks: an erased attendee (`orphan`), an event that has
moved to another account (`dropping`). The follow-up deletes the recorded pass and
then every pass under the reserved id, one after the other, and marks the row only
if the search found none and the window for calls still under way is over
(`Settled`); `SecondLook` is the daily sweep over rows already marked.

### What is checked

| run | instance | shows |
|---|---|---|
| `WalletErasure` | two processes, a follow-up, two passes, two accounts | `ErasedPassIsPursued`: whatever process died, whichever of two taps was recorded, the row of an erased attendee keeps the sweep asking as long as a pass or a call that may make one is left. `ActivePassIsHere`: nobody else's request takes away the pass a live attendee was given. |
| `WalletLive` | one process, a follow-up, fairness | `ErasedPassGoes`: in the end there is none. |
| `WalletDeleted` | as `WalletErasure` | the finding below |

Bounds. A tick stands for some minutes. `Deadline` and `Lag` of one tick each and a
`Window` of three keep the relation the code's constants have (`Deadline + Lag <
Window`, an assumption), with an instant before, on and after each. Two processes
make two passes under one id, which is where the search has to go on after the
first. An erasure starts early enough for its window to end before the clock does.

Fairness (`WalletLive`): time goes on, a process works its request to the end or
dies, the sweep comes again (SF: it is only possible at times, and each run may be
cut short) and the provider answers it now and then. An erased attendee's pass in an
account that the event has left is not promised to go, nor in the code.

Finding (`WalletDeleted`): `NoneWithoutTrace`: "Delete wallet pass" deletes the
recorded pass and then the row, and with it the reserved id; a second pass under that id
is then found by nobody. The same deletion may also take away a pass that a request
has just looked up and goes on to save as active, which is why `ActivePassIsHere`
speaks of the time before.

Left out: a pass in an account the event left, made by a request that died before it
could say so; a change of the API key alone; a failure to write a mark; "Remove from
event", which deletes the attendee's row with the pass's; a process that sleeps
longer than its deadline between two steps; the clearing of install links; the seven
days after which a marked row is no longer looked at again.

## 10. Valid or not: `WalletLifecycle`

### State and actions

The same row, with what matters to a pass that exists: `status`, `stamp`
(`provider_commanded_at`), `removed`, `observed` (`lifecycle_observed_at`); and the
pass at the provider: there or not, voided or not. `was[t]` is what the provider
could show at time t. An actor is a request or one step of a job: *void* and
*restore* of a staff member, *revoke* and *register*, the void and restore that
follow a ticket (`Patch` commits first), *sweep*, the job behind "Void active passes",
*remove*, "Remove from provider", and *look*, any read of the provider. `Watcher` is
the worker's `wallet_sync`, which looks again and again.

| action | code |
|---|---|
| `Load`, `Call`, `Write` | a command: the row is read, the provider told, the row written unless it is removed (`updateWalletPassUnlessRemoved`) |
| `WriteSweep`, `Realign`, `Recall`, `Restamp` | `voidOneWalletPassAtProvider`: a Restore that came in between gets its way |
| `Ask`, `Answer`, `Missing`, `Apply` | a read: the time it is dated to, an answer as old as the search may lag, one conditional write (`applyProviderSnapshotToWalletPass`) |
| `Again`, `DeletePass`, `WriteRemoved` | `removeOneWalletPassFromProvider` after its own read |
| `Expire`, `VoidOutside`, `Fail` | the expiry of an ended event, a void in the provider's own pages, a request that dies anywhere |

Two commands never get the same stamp: a stamp is a time in milliseconds, and a call
to the provider lies between any two.

### What is checked

`WalletLifecycle`: two actors of any kind and the worker.

* `ActiveIsAtProvider`: an active pass is not marked as removed, and is at the
  provider, unless a removal that has just deleted it has yet to say so (or died).
* `ObservedVoidIsReal`: a read takes a pass out of use only if the provider showed it
  as void after the last command, and not before what an earlier read showed: an
  answer from a lagging search or one that comes late undoes no Restore.

`Lag` and `Window` of one, an event that ends at 3 and two times after it
put an answer on each side of a stamp, a window and the end. `DriftIsNoticed` (a
pass that is active here and void there does not stay so) is a liveness property of
`LiveSpec`, where the worker looks again and again and is answered at times; it
holds with one actor beside the worker and is stated for that, but part of no run.

What the model shows and the code accepts: a Void and a Restore at the same moment can
leave the row voided while the pass is valid, which nothing notices (reads only take
a pass out of use); a ticket restored while the void of its revocation is on its way
keeps a voided pass; a Restore on its way across the end of the event brings an
expired row back until the next sweep.

Left out: an erased attendee (section 9), the provider's date as a source of expiry
(it has no time zone), archived events, an end time that is moved, registration
counts, the content pushed to a pass.

## 11. What is proved

`MailDeliveryProofs` proves every safety property of `MailDelivery` that a passing
run checks, for any number of people, requests, workers and retry commands and all
values of the bounds, from `MailAssumption` alone: names are distinct, at least two
attempts and one revision, and at any time finitely many requests, workers and retry
commands, which the counts need.

* `TypeCorrect`: `Spec => []TypeOK`. `TypeOK` is inductive as it stands because
  it also states the shape of a sender's memory: it holds a row exactly while
  it is at one. One lemma per group of actions; every record a row can become
  has a lemma that it is a row.
* `ErasureIsFinal`: `Spec => []ErasedStaysEmptied`. The argument is
  `StepRowChange`, which says all a step may do to one row: nothing, fill it
  for a person not erased, record an outcome while the row still holds its
  message, or take something away. An emptied row is out of the reach of each.
* `SuccessIsReal`: `Spec => []SuccessWasMailed`. Needs a strengthening: a sender
  that is about to record a success for revision v has had a mail of that
  revision accepted. The history only grows, and a record is made only while
  the row is still at the revision the sender copied.
* `NeverWaitsEmptied`: `Spec => []WaitingHasMessage`, inductive beside `TypeOK`.
* `OutcomeStands`: `Spec => OutcomeIsKept`, by `Versions`: the pair of revision and
  attempts of a row only moves forward, and every copy a sender has trails its row
  (`Trails`): it is behind, or it is current and the row has only been stopped,
  bounced or emptied since. `Versions` also says that a resend's row is unused until
  its request comes to it, without which making it could reset a row.
* `NoSecondMail`: `Spec => []MailedOncePerClaim`, by `Counted`. A mail is in the count
  of its claim from its sender's last look at the row (`MayAdd`), first as one that may
  be taken, then as taken. The count is at most the faults, and one more once the claim
  is `Spent`: it is over, so that no copy of the row can send or write any more, or the
  owner of the row has its mail in hand. Each step of a sender does one of three
  things to the count (`Tally`), with a lemma for each group of steps.
* `NobodyMailedUnasked`: `Spec => []NoUnaskedMail`, by the same count over all rows and
  claims of a person at once (`CountedFor`). `Elsewhere` says that a step counts nothing
  where its sender does not work, `Tally` what it does where it works. A spent claim
  belongs to the initial row, or is the only claim of the row of a request that asked
  for one more mail (`ResendsAreAsked`). Mails, faults and claims are counted as members
  of sets, since a sum over rows would need an induction over them.

TLC checked `Versions`, `Counted`, `CountedFor` and `ResendsAreAsked` on small instances
with a retry command, two workers and faults before they were proved.

`AdminJobsProofs` proves every safety property of `AdminJobs` that a run checks,
for all sets of people, jobs, workers and erasures and any number of faults, from
`JobsAssumption` alone (exports are no imports, `Nothing` is no job). The workers
share no lock in the model, so none of this rests on the worker's job lock.

* `TypeCorrect`: `Spec => []TypeOK`, by `Base`, which adds which kind of job a
  worker may have at which step (`WorkerShape`) and that an upload in progress has
  no row (`UploadingIsNew`).
* `OutcomesStand`: `Spec => OutcomeIsFinal`. `StepJobChange` says all a step may do
  to one row: keep its status, create it, start it, end it if it is open.
* `LandedShown`: `Spec => []LandedAsShown`. The one write that could break it is
  the reclaim that heals: it has read that the import landed, so by the invariant
  the row is no longer running, and its `where` finds nothing.
* `NobodyComesBack`: `Spec => NobodyWrittenBack`, by `OpenIsClean`: nobody has been
  erased since a job that is not finished was created, because an erasure closes
  every open one.
* `DownloadsAreCurrent`: `Spec => ServedIsCurrent`. Needs that a job is claimed once,
  so that no second worker replaces the file of an export that has succeeded
  (`RunnersApart`), and that an export that has succeeded and is not marked holds
  nobody erased (`FreshIsClean`).
* `NoTaintedFileIsForgotten`: `Spec => []TaintedIsCaught`. An erasure takes the files
  that rows name, so a file that no row names must be in the hands of the worker
  that wrote it (`Named`), also while somebody is between deleting a file and
  forgetting its key (`Cleared`). `CoveredStep` is the heart: such a worker lets go
  by deleting the file, by naming it while its job still runs, or by a fault.

Each of these invariants was checked by TLC on the instance of `AdminJobs` before
it was proved.

`WalletLifecycleProofs` proves every property of `WalletLifecycle` that a run checks,
for any number of actors, any lag within the window and any bounds
(`LifecycleAssumption`).

* `TypeCorrect`: `Spec => []TypeOK`. `Follows` says what a step may make of the one
  who takes it, `AllKept` what it may make of the row, the clock and the pass.
* `ActiveIsThere`: `Spec => []ActiveIsAtProvider`, by `RemovalIsMarked`: once the pass
  has gone, the removal that deleted it is at work until it has marked the row, and a
  marked row is never active.
* `ObservedVoidIsRealHolds`: `Spec => ObservedVoidIsReal`, by `ReadsAreShown`: what an
  actor has read as void was shown as void at a time no older than the lag allows. With
  `Lag <= Window` that is after the stamp which the conditional write compares.

`CheckInProofs` proves every property of `CheckIn` that a run checks, for any number of
guests, devices, clerks, check-ins and changes and any length of the hour, from
`CheckInAssumption` alone.

* `TypeCorrect`, `AdmissionsHold`, `LedgerAddsUp`, `NoTraceIsLeft`. All a step may do to
  the book of check-ins is `Comes` (a guest comes in by a new row), `Goes` (a guest is
  outside, the row that let them in is taken back) or `Clears` (an erasure); each keeps
  `Book`. What it needs beside the properties: until a guest is erased, the log names
  exactly the check-ins that were taken back (`Marked`); an open form that carries the
  row's version carries the row, and whoever writes a row of a guest knows the guest is
  not erased (`TaskOk`).
* `UndoIsOwnLast`: `Spec => UndoTakesBackOwnLast`. A time that an erasure has cut is less
  than an hour older than the true one (`Cut`), so the undo that refuses when an erased
  row lies within the last hour cannot pass over a later check-in.

`EnrollmentProofs` proves the two state properties of `Enrollment` that a run checks, for
any number of sessions and requests, from `NamesAssumption` alone (names are distinct).

* `TypeCorrect`: `Spec => []TypeOK`, with `Working`: an open request is at a statement of
  its plan, or just past the last. `PlanPlaces` says where in the plans the statements
  are that the proofs speak of.
* `OnlyFirst`: `Spec => []OnlyFirstUnproven`. A request on its way to add a method
  unproven holds the lock (`Locked`), and past the check under it no method of the
  account was added unproven (`Checked` implies `Clean`). Two open requests never both
  hold the lock, nor both the authenticator's row (`Apart`), so no commit of another
  comes between the check and the commit (`CommitFirst`, `CommitLocal`).
* `OneConfirmationHolds`: `Spec => []OneConfirmation`. A request that has made a secret
  never makes another (`Spent`), a confirm that has matched holds the row of an
  unconfirmed secret (`OnTotp`), and a confirmed secret is one that somebody was told of
  (`Wins`).

`Turn` says what a step other than a commit may make of the request that takes it, with
one lemma per action; `MoveKeeps` and `CommitKeeps` show once each that the invariant
`IInv` survives. TLC checked `IInv` on the instance of `EnrollRaces.cfg`.

`WalletPassesProofs` proves the three invariants of `WalletPasses` that `WalletErasure.cfg`
checks, for any number of web processes, overlapping runs of the follow-up, passes and
accounts, from the assumptions of the module: what matters is `Deadline + Lag < Window`.

* `TypeCorrect`: `Spec => []TypeOK`. What a step makes of one row, request, pass or run
  of the follow-up is stated once each (`RowIs`, `RequestIs`, `PassIs`, `RunIs`).
* `ErasedPassIsFollowed`: `Spec => []ErasedPassIsPursued`. An erasure ends the time in
  which a request can reserve an id, and so does a row that turns active: `Lasts` bounds
  every request under way and every call by that moment. A window later things are
  `Quiet`: no call is on its way and none will be sent (`QuietFacts`). A run that marks
  a row with an id as removed has waited for that (`Backed`, `FollowUpDecidesKeeps`),
  and has asked the account in which every pass of the attendee is; so what it found
  empty stays empty (`HeldShrinks`).
* `ActivePassHeld`: `Spec => []ActivePassIsHere`. A request that is about to save has a
  pass of the account it has read (`Owned`), and the save looks at the account again;
  a request that drops its pass has read another one, so the row's pass stays.

`StepKeeps` shows once that a step within `RowStep`, `PassStep`, `RequestStep` and
`RunsStep` keeps the invariant `IInv`; sending a call, settling a row and the
administrators' steps have lemmas of their own. TLC checked `IInv` on the instance of
`WalletErasure.cfg`.

`SignInProofs` proves the three invariants of `SignIn` that `SignInRaces` checks, and that
`SignIn` implements `AccountPromise`, for any number of sessions, requests, codes and
time steps, from the assumptions of the module alone (distinct names, at least one step).

* `TypeCorrect`, `CodesAreEarned`, `SignOutEnds`: `Spec => []TypeOK`, `[]NoProofBurnt`,
  `[]SignedOutIsOut`, by the invariant `IInv`. Its parts say what an open request knows:
  where it is in its plan (`Working`), that the rows it has written are as it found them
  because they are locked (`Writing`), that each session it found is ended, by it or by
  another, or is in the rows it waits for (`Ending`), and of a revocation of devices that
  what it speaks for is locked when it comes to them (`Covering`, `Revoking`). `OkGood`
  is what remains of a request that has succeeded.
* `TransactionsImplementPromise`: `Spec => KeepsPromise`. Only a commit takes a step of
  `AccountPromise` (`QuietSteps`); it spends a proof that nobody has spent, since its row
  is locked from the check to the commit (`CommitSpends`), and a device it makes rests on
  a session that it holds, which no revocation can have passed (`CommitTrusting`).

`LocalKeeps` covers the steps inside a transaction, `SessionsMoveKeeps` logins and time,
`CommitKeeps` the commits. TLC checked `IInv` on the instance of `SignInRaces.cfg`.

`EventWritesProofs` proves every property of `EventWrites` that `EventRaces` checks, for
any number of requests of any kind, people, labels and files, from
`EventAssumption` (distinct names; at any time finitely many people and requests, which
the count of seats needs) and `KindsAssumption`.

* `TypeCorrect`, `CheckedTypesStay`, `NothingLeftBehind`: `Spec => []TypeOK`,
  `[]CheckedTypeStays`, `[]NothingOrphaned`, by the invariant `IInv`. Its parts say of an
  open request where it is in its plan (`Placed`), which locks it has taken on its way
  (`Locked`), what it found under them that still holds (`Found`, `Typed`), and that the
  rows it will write are there, locked, and not erased (`Writing`); and of any two, that
  their locks do not conflict (`Apart`). `Onward`, `Waiting` and `Jumping` are the ways a
  request moves within its transaction; `OthersStay` and `CommitKeeps` are the argument
  that a commit disturbs nobody: what others found is under locks that it cannot hold.
* `NobodyErasedWritten`: `Spec => ErasedUntouched` if no import runs from the command
  line, which does write such rows (section 8).
* `NeverOverfilled`: `Spec => []NoOverfill`, by a second invariant, `SInv`. A request that
  wants seats has the capacity locked from the count on (`Seating`, `Counted`), so a
  commit of another request takes none (`NoSeatTaken`). A restore that wants none skips
  the lock: it read that its attendee has a seat, and writes only if nobody has written
  the row since (`Reading`), which the name of the last writer shows because a request
  that has not committed has written nothing anybody has read (`Unseen`).
* `OnlyFileOrderDeadlocks`: `Spec => []OnlyFilesMakeCycles`, for circles of any length and
  any files. A third invariant, `Climbing`, says that all the kinds lock in one
  order: settings, queue, jobs, types, capacity, the event's row, people by id (`Rank`),
  but for the people of a file. A
  request at a statement holds nothing above its `Reach` there, and a statement waits for
  something higher (`PlanClimb`, decided statement by statement). Jobs do not climb among
  themselves: an erasure, a removal and the deletion of the event lock several, in any
  order, but all hold the queue alone (`QueueHeld`), so they never meet; an import waits
  for its own job only before it holds anything. Hence whoever is waited for waits for
  something higher, unless on its way through a file (`Rises`), and a finite circle has a
  highest wait (`Highest`), so there is a file in it (`NoCircle`). Whoever keeps a file
  waiting holds a person, so it can only wait for another person: not by a file of its
  own, as both would hold the capacity lock, and not as an erasure against an import job,
  as both would hold its row (`FileWaits`).

TLC checked the three invariants, with all kinds of requests, before they were proved.

Only model-checked: the properties of the three runs that expect a
violation, and liveness under fairness (`SettledWithoutCommand`, `FilesAreTemporary`,
`ErasedPassGoes`), which is out of the prover's reach, as are `ENABLED` and induction
over data. There are no RECURSIVE operators here.

## 12. What is not modelled

Network and mailbox I/O, rendering and parsing, wording, HTTP around the handlers,
the client, metrics and logs. Two thirds of the repository's lines are the admin
panel, route handlers that read and validate, reports, and text; what they change
goes through the operations above. Of the parts with state of their own, these have no
model: wallet jobs as jobs, the token of a ticket, OIDC's single-use rows, rate
limits, notifications and the sweep of uploads, each for the reason given in
section 1.
