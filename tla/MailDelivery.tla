---------------------------- MODULE MailDelivery ----------------------------
(***************************************************************************)
(* The mail outbox of packages/mail-delivery: the EmailDelivery rows, the  *)
(* requests that queue them, the workers that drain them, the operators    *)
(* that retry failed ones, and everybody else who writes to a row while a  *)
(* mail is in flight (Stop, erasure, bounce ingest, snapshot retention).   *)
(*                                                                         *)
(* A row carries its own optimistic version: queued_at (here revision,     *)
(* moved on by every claim) and attempts (moved on by every recorded       *)
(* attempt).  A sender copies both when it picks a row up and writes only  *)
(* while both still match.  On top of that, sending is serialised per row  *)
(* by a session advisory lock, which the database drops as soon as the     *)
(* session is gone, while the process that took it may still be running.   *)
(*                                                                         *)
(* The worker's own mail_delivery job lock is left out: several workers    *)
(* may drain at once here, so nothing below depends on that lock.          *)
(***************************************************************************)
EXTENDS Naturals, FiniteSets

CONSTANTS Attendees,    \* people of one event
          Requests,     \* send requests; a request's id is its batch_id
          Workers,      \* worker processes running drainPendingDeliveries
          Retriers,     \* runs of `admitto mail retry-failed` (retryDelivery)
          Initial,      \* the batch slot of an initial delivery's identity
          NoOne,        \* no owner, no batch, no job
          MaxAttempts,  \* MAX_MAIL_DRAIN_ATTEMPTS (8 in the code)
          MaxRevision,  \* bound: how often one row may be claimed again
          MaxFaults     \* bound: crashes, lost sessions and lost answers

ASSUME MailAssumption ==
  /\ Initial \notin Requests
  /\ NoOne \notin Requests \cup Workers \cup Retriers
  /\ Workers \cap Retriers = {}
  /\ IsFiniteSet(Requests) /\ IsFiniteSet(Workers) /\ IsFiniteSet(Retriers)
  /\ MaxAttempts \in Nat /\ MaxAttempts >= 2
  /\ MaxRevision \in Nat /\ MaxRevision >= 1
  /\ MaxFaults \in Nat

Senders == Workers \cup Retriers

\* The partial unique index gives an attendee one initial delivery; a resend
\* is one more row per request and attendee.
Deliveries == (Requests \cup {Initial}) \X Attendees
InitialOf(a) == <<Initial, a>>
ResendOf(r, a) == <<r, a>>
Owner(d) == d[2]

Success == {"accepted", "sent"}
NonTerminal == {"queued", "accepted", "sent"}
Statuses == {"none", "queued", "accepted", "sent", "failed", "bounced",
             "rejected", "cancelled"}
ProviderResults == {"accepted", "sent", "transient", "permanent", "rejected"}
Outcomes == ProviderResults \cup
            {"none", "threw", "unprepared", "unrenderable", "misconfigured"}
Phases == {"idle", "draining", "owned", "checked", "sending", "answered",
           "recording"}

VARIABLES
  row,       \* row[d]: the EmailDelivery row
  erased,    \* attendees with erased_at set
  request,   \* request[r]: where one sendTicketEmails call stands
  phase,     \* phase[s]: where a sender stands
  job,       \* job[s]: the sender's in-memory copy of the row it works on
  todo,      \* todo[w]: the copies this tick has still to work through
  outcome,   \* outcome[s]: what the attempt came to, before it is written
  lock,      \* lock[d]: the session holding admitto:delivery:<id>
  ndr,       \* the row a bounce message was matched to, before it is applied
  sweep,     \* ids retention has read, before it clears them
  faults,    \* faults so far, bounded by MaxFaults
  accepts,   \* history: mails the provider took, per row and revision
  excused    \* history: faults that hit a row whose mail was being sent

rowVars == <<row, erased, request>>
senderVars == <<phase, job, todo, outcome, lock>>
vars == <<row, erased, request, phase, job, todo, outcome, lock, ndr, sweep,
          faults, accepts, excused>>

(***************************************************************************)
(* Rows and copies of rows                                                 *)
(***************************************************************************)
NoRow == [status |-> "none", retryable |-> FALSE, revision |-> 0,
          attempts |-> 0, batch |-> NoOne, recipient |-> FALSE,
          snapshot |-> FALSE, aged |-> FALSE]

Rows == [status : Statuses, retryable : BOOLEAN, revision : 0..MaxRevision,
         attempts : Nat, batch : Requests \cup {NoOne}, recipient : BOOLEAN,
         snapshot : BOOLEAN, aged : BOOLEAN]

Queued(r, revision) ==
  [status |-> "queued", retryable |-> FALSE, revision |-> revision,
   attempts |-> 1, batch |-> r, recipient |-> TRUE, snapshot |-> TRUE,
   aged |-> FALSE]

NoJob == [id |-> NoOne, status |-> "none", revision |-> 0, attempts |-> 0]
Copy(d) == [id |-> d, status |-> row[d].status, revision |-> row[d].revision,
            attempts |-> row[d].attempts]
Copies == [id : Deliveries, status : Statuses, revision : 1..MaxRevision,
           attempts : Nat]

HasSnapshot(d) == row[d].recipient /\ row[d].snapshot
Retryable(d) == row[d].status = "failed" /\ row[d].retryable

\* A broken guard on the revision, on the attempt count, on the message.
SameAttemptAnyRevision(j) == /\ row[j.id].attempts = j.attempts
                             /\ HasSnapshot(j.id)
SameAttemptAnyCount(j) == /\ row[j.id].revision = j.revision
                          /\ HasSnapshot(j.id)
SameAttemptNoMessage(j) == /\ row[j.id].revision = j.revision
                           /\ row[j.id].attempts = j.attempts

\* The `where` every recorded outcome carries: same revision, same attempt
\* count, message still there.
SameAttempt(j) == /\ row[j.id].revision = j.revision
                  /\ row[j.id].attempts = j.attempts
                  /\ HasSnapshot(j.id)

\* A sender that trusts the copy it made when it picked the row up.
StillSendableByCopy(j) == Owner(j.id) \notin erased

\* readDeliveriesBeforeSend, under the owner's row lock: the last look before
\* the mail is out.
StillSendable(j) == /\ Owner(j.id) \notin erased
                    /\ row[j.id].status = j.status
                    /\ SameAttempt(j)

Init ==
  /\ row = [d \in Deliveries |-> NoRow]
  /\ erased = {}
  /\ request = [r \in Requests |-> [phase |-> "new", purpose |-> "initial",
                  completed |-> {}, left |-> {}, found |-> NoJob]]
  /\ phase = [s \in Senders |-> "idle"]
  /\ job = [s \in Senders |-> NoJob]
  /\ todo = [s \in Senders |-> {}]
  /\ outcome = [s \in Senders |-> "none"]
  /\ lock = [d \in Deliveries |-> NoOne]
  /\ ndr = NoJob
  /\ sweep = {}
  /\ faults = 0
  /\ accepts = [d \in Deliveries |-> [v \in 1..MaxRevision |-> 0]]
  /\ excused = [d \in Deliveries |-> 0]

(***************************************************************************)
(* sendTicketEmails: one request, its attendees worked through in turn     *)
(***************************************************************************)
RequestPurposes == {"initial", "resend"}

CompletedInitial(S) == {a \in S : row[InitialOf(a)].status \in Success}

\* The first await is the snapshot of who already had their ticket mail.
BeginSend(r) ==
  /\ request[r].phase = "new"
  /\ \E S \in SUBSET Attendees \ {{}}, p \in RequestPurposes :
       request' = [request EXCEPT ![r] =
         [phase |-> "working", purpose |-> p, left |-> S, found |-> NoJob,
          completed |-> IF p = "initial" THEN CompletedInitial(S) ELSE {}]]
  /\ UNCHANGED <<row, erased, senderVars, ndr, sweep, faults, accepts, excused>>

\* The request is finished with attendee a; its batch id is known to the
\* caller once nobody is left.
Advanced(q, a) ==
  [q EXCEPT !.left = @ \ {a}, !.found = NoJob,
            !.phase = IF q.left = {a} THEN "done" ELSE "working"]

NextAttendee(r, a) == request' = [request EXCEPT ![r] = Advanced(@, a)]

\* "Already had their mail" asked when the turn comes, not at the start.
TreatedAsResendNow(r, a) ==
  request[r].purpose = "resend" \/ row[InitialOf(a)].status \in Success

\* claimOrResendPending: an explicit resend, or a send to somebody whose
\* initial mail was already out when the request began.
TreatedAsResend(r, a) ==
  request[r].purpose = "resend" \/ a \in request[r].completed

Claiming(r, a) == /\ request[r].phase = "working"
                  /\ a \in request[r].left
                  /\ request[r].found = NoJob

SenderSideUnchanged ==
  UNCHANGED <<erased, senderVars, ndr, sweep, faults, accepts, excused>>

\* createResendDelivery: under the attendee's row lock, nothing for an erased one.
CreateResend(r, a) ==
  /\ Claiming(r, a)
  /\ TreatedAsResend(r, a)
  /\ row' = IF a \in erased THEN row
            ELSE [row EXCEPT ![ResendOf(r, a)] = Queued(r, 1)]
  /\ NextAttendee(r, a)
  /\ SenderSideUnchanged

\* claimInitialDelivery when the slot is empty, or when the attendee is gone.
CreateInitial(r, a) ==
  /\ Claiming(r, a)
  /\ ~TreatedAsResend(r, a)
  /\ a \in erased \/ row[InitialOf(a)].status = "none"
  /\ row' = IF a \in erased THEN row
            ELSE [row EXCEPT ![InitialOf(a)] = Queued(r, 1)]
  /\ NextAttendee(r, a)
  /\ SenderSideUnchanged

\* The slot is taken: classifyExisting.  A failed or a cancelled row is taken
\* over in a later step; anything else is skipped.
ClassifyExisting(r, a) ==
  LET d == InitialOf(a) IN
  /\ Claiming(r, a)
  /\ ~TreatedAsResend(r, a)
  /\ a \notin erased
  /\ row[d].status # "none"
  /\ IF Retryable(d) \/ row[d].status = "cancelled"
     THEN request' = [request EXCEPT ![r].found = Copy(d)]
     ELSE NextAttendee(r, a)
  /\ UNCHANGED row
  /\ SenderSideUnchanged

Requeued(x, r) ==
  [x EXCEPT !.status = "queued", !.revision = @ + 1, !.batch = r]

\* claimRetryExisting: needs the delivery's lock for a moment, keeps the frozen
\* message and the attempt count, and joins the row to this batch.
RetryExisting(r, a) ==
  LET d == InitialOf(a) IN
  /\ request[r].found.id = d /\ request[r].found.status = "failed"
  /\ row' = IF /\ lock[d] = NoOne
               /\ Retryable(d)
               /\ row[d].revision = request[r].found.revision
            THEN [row EXCEPT ![d] = Requeued(@, r)]
            ELSE row
  /\ row[d].revision < MaxRevision
  /\ NextAttendee(r, a)
  /\ SenderSideUnchanged

\* claimReclaimCancelled: fresh content, attempts from 1, without the
\* delivery's lock; an erased attendee's row stays cancelled.
ReclaimCancelled(r, a) ==
  LET d == InitialOf(a) IN
  /\ request[r].found.id = d /\ request[r].found.status = "cancelled"
  /\ row' = IF /\ a \notin erased
               /\ row[d].status = "cancelled"
               /\ row[d].revision = request[r].found.revision
            THEN [row EXCEPT ![d] = Queued(r, row[d].revision + 1)]
            ELSE row
  /\ row[d].revision < MaxRevision
  /\ NextAttendee(r, a)
  /\ SenderSideUnchanged

RequestStep(r) ==
  \/ BeginSend(r)
  \/ \E a \in Attendees :
       \/ CreateResend(r, a)
       \/ CreateInitial(r, a)
       \/ ClassifyExisting(r, a)
       \/ RetryExisting(r, a)
       \/ ReclaimCancelled(r, a)

(***************************************************************************)
(* Picking a row up                                                        *)
(***************************************************************************)
Drainable(d) == row[d].attempts < MaxAttempts /\ HasSnapshot(d)

\* claimDrainCandidates: a plain SELECT, so the copies go stale while the tick
\* works through them.  Every queued row is taken; a failed one only when its
\* backoff has passed, which is any subset here.
DrainClaim(w) ==
  LET queued == {d \in Deliveries : row[d].status = "queued" /\ Drainable(d)}
      failed == {d \in Deliveries : Retryable(d) /\ Drainable(d)}
  IN /\ phase[w] = "idle"
     /\ \E due \in SUBSET failed :
          /\ queued \cup due # {}
          /\ todo' = [todo EXCEPT ![w] = {Copy(d) : d \in queued \cup due}]
     /\ phase' = [phase EXCEPT ![w] = "draining"]
     /\ UNCHANGED <<rowVars, job, outcome, lock, ndr, sweep, faults, accepts,
                    excused>>

\* A drain that relies on the worker's job lock and sends without the row's own.
DrainOwnAnyway(w, c) ==
  /\ phase[w] = "draining"
  /\ c \in todo[w]
  /\ todo' = [todo EXCEPT ![w] = @ \ {c}]
  /\ lock' = [lock EXCEPT ![c.id] = w]
  /\ job' = [job EXCEPT ![w] = c]
  /\ phase' = [phase EXCEPT ![w] = "owned"]
  /\ UNCHANGED <<rowVars, outcome, ndr, sweep, faults, accepts, excused>>

\* withDeliveryOwnership: a try-lock, a busy row is skipped for this tick.
DrainOwn(w, c) ==
  /\ phase[w] = "draining"
  /\ c \in todo[w]
  /\ todo' = [todo EXCEPT ![w] = @ \ {c}]
  /\ IF lock[c.id] = NoOne
     THEN /\ lock' = [lock EXCEPT ![c.id] = w]
          /\ job' = [job EXCEPT ![w] = c]
          /\ phase' = [phase EXCEPT ![w] = "owned"]
     ELSE /\ phase' = [phase EXCEPT ![w] = IF todo[w] = {c} THEN "idle"
                                           ELSE "draining"]
          /\ UNCHANGED <<lock, job>>
  /\ UNCHANGED <<rowVars, outcome, ndr, sweep, faults, accepts, excused>>

\* retryDelivery: lock, then read, then refuse what is not failed+retryable.
\* The command has no attempt limit; MaxAttempts only bounds the model.
RetryStart(s, d) ==
  /\ phase[s] = "idle"
  /\ lock[d] = NoOne
  /\ Retryable(d) /\ HasSnapshot(d)
  /\ row[d].attempts <= MaxAttempts
  /\ lock' = [lock EXCEPT ![d] = s]
  /\ job' = [job EXCEPT ![s] = Copy(d)]
  /\ phase' = [phase EXCEPT ![s] = "owned"]
  /\ UNCHANGED <<rowVars, todo, outcome, ndr, sweep, faults, accepts, excused>>

(***************************************************************************)
(* One attempt                                                             *)
(***************************************************************************)
Owns(s) == lock[job[s].id] = s

\* A sender that goes on to the next row with the last one still in hand.
FinishKeepsJob(s) ==
  /\ lock' = [lock EXCEPT ![job[s].id] = IF @ = s THEN NoOne ELSE @]
  /\ outcome' = [outcome EXCEPT ![s] = "none"]
  /\ phase' = [phase EXCEPT ![s] = IF todo[s] = {} THEN "idle" ELSE "draining"]
  /\ UNCHANGED job

\* client.end() in withSessionAdvisoryLock, then the next row of the tick.
Finish(s) ==
  /\ lock' = [lock EXCEPT ![job[s].id] = IF @ = s THEN NoOne ELSE @]
  /\ job' = [job EXCEPT ![s] = NoJob]
  /\ outcome' = [outcome EXCEPT ![s] = "none"]
  /\ phase' = [phase EXCEPT ![s] = IF todo[s] = {} THEN "idle" ELSE "draining"]

\* What stops an attempt before its mail is handed over: the links or the
\* mailer cannot be had, the frozen text no longer renders, the stored mail
\* secret cannot be read (only the retry command records that one).
Obstacles(s) == IF s \in Workers THEN {"unprepared", "unrenderable"}
                ELSE {"unrenderable", "misconfigured"}

Obstructed(s) ==
  /\ phase[s] = "owned"
  /\ Owns(s)
  /\ \E o \in Obstacles(s) : outcome' = [outcome EXCEPT ![s] = o]
  /\ phase' = [phase EXCEPT ![s] = "recording"]
  /\ UNCHANGED <<rowVars, job, todo, lock, ndr, sweep, faults, accepts, excused>>

\* retryDelivery without links, or with a mailer that fails to set up: nothing
\* is written.
RetryGivesUp(s) ==
  /\ s \in Retriers
  /\ phase[s] = "owned"
  /\ Finish(s)
  /\ UNCHANGED <<rowVars, todo, ndr, sweep, faults, accepts, excused>>

CheckBeforeSend(s) ==
  /\ phase[s] = "owned"
  /\ IF StillSendable(job[s])
     THEN /\ phase' = [phase EXCEPT ![s] = "checked"]
          /\ UNCHANGED <<job, outcome, lock>>
     ELSE Finish(s)
  /\ UNCHANGED <<rowVars, todo, ndr, sweep, faults, accepts, excused>>

\* assertOwned, then sendBatch: from here the mail cannot be recalled.
HandOver(s) ==
  /\ phase[s] = "checked"
  /\ Owns(s)
  /\ phase' = [phase EXCEPT ![s] = "sending"]
  /\ UNCHANGED <<rowVars, job, todo, outcome, lock, ndr, sweep, faults,
                 accepts, excused>>

Taken(j) == [accepts EXCEPT ![j.id][j.revision] = @ + 1]

\* A definite answer: sent, or refused with or without hope.
ProviderAnswers(s) ==
  /\ phase[s] = "sending"
  /\ \E o \in ProviderResults :
       /\ outcome' = [outcome EXCEPT ![s] = o]
       /\ accepts' = IF o \in Success THEN Taken(job[s]) ELSE accepts
  /\ phase' = [phase EXCEPT ![s] = "answered"]
  /\ UNCHANGED <<rowVars, job, todo, lock, ndr, sweep, faults, excused>>

\* The call throws (a transport timeout) and the message did not leave.
ProviderThrows(s) ==
  /\ phase[s] = "sending"
  /\ outcome' = [outcome EXCEPT ![s] = "threw"]
  /\ phase' = [phase EXCEPT ![s] = "answered"]
  /\ UNCHANGED <<rowVars, job, todo, lock, ndr, sweep, faults, accepts, excused>>

\* assertOwned after the answer.  The retry command has no catch block: what
\* the mailer throws ends the run with the row as it was.
ConfirmOwned(s) ==
  /\ phase[s] = "answered"
  /\ Owns(s)
  /\ IF s \in Retriers /\ outcome[s] = "threw"
     THEN Finish(s)
     ELSE /\ phase' = [phase EXCEPT ![s] = "recording"]
          /\ UNCHANGED <<job, outcome, lock>>
  /\ UNCHANGED <<rowVars, todo, ndr, sweep, faults, accepts, excused>>

\* assertOwned throws: the row is left alone, the rest of the tick is dropped.
Abort(s) ==
  /\ phase[s] \in {"owned", "checked", "answered"}
  /\ ~Owns(s)
  /\ phase' = [phase EXCEPT ![s] = "idle"]
  /\ job' = [job EXCEPT ![s] = NoJob]
  /\ todo' = [todo EXCEPT ![s] = {}]
  /\ outcome' = [outcome EXCEPT ![s] = "none"]
  /\ UNCHANGED <<rowVars, lock, ndr, sweep, faults, accepts, excused>>

(***************************************************************************)
(* Recording the outcome                                                   *)
(***************************************************************************)
\* A drain that never gives up.
TriedAgainAlways(s, attempts) == TRUE

\* Whether a transient failure leaves the row to be tried again: a drain stops
\* at MaxAttempts, the retry command never does.
TriedAgain(s, attempts) == s \in Retriers \/ attempts < MaxAttempts

\* mapSendResultToDelivery, deliveryUpdateFromBatchError, snapshotUnusableUpdate:
\* a success leaves retryable as it was.
Recorded(s, r, o) ==
  CASE o = "misconfigured" -> [r EXCEPT !.attempts = @ + 1]
    [] o \in Success ->
         [r EXCEPT !.status = o, !.attempts = @ + 1, !.aged = FALSE]
    [] o = "rejected" ->
         [r EXCEPT !.status = "rejected", !.retryable = FALSE,
                   !.attempts = @ + 1, !.aged = FALSE]
    [] o \in {"permanent", "unrenderable"} ->
         [r EXCEPT !.status = "failed", !.retryable = FALSE,
                   !.attempts = @ + 1, !.aged = FALSE]
    [] OTHER ->
         [r EXCEPT !.status = "failed",
                   !.retryable = TriedAgain(s, r.attempts + 1),
                   !.attempts = @ + 1, !.aged = FALSE]

\* An ambiguous failure written over a cancelled row.
MayRecordOverCancel(s, j, o) == SameAttempt(j)

\* markRowFailed leaves a cancelled row alone; recordSendOutcome, which has a
\* definite answer, and the retry command do not ask.
MayRecord(s, j, o) ==
  /\ SameAttempt(j)
  /\ s \in Workers /\ o \notin ProviderResults => row[j.id].status # "cancelled"

Record(s) ==
  LET j == job[s] IN
  /\ phase[s] = "recording"
  /\ row' = IF MayRecord(s, j, outcome[s])
            THEN [row EXCEPT ![j.id] = Recorded(s, @, outcome[s])]
            ELSE row
  /\ Finish(s)
  /\ UNCHANGED <<erased, request, todo, ndr, sweep, faults, accepts, excused>>

(***************************************************************************)
(* Faults                                                                  *)
(***************************************************************************)
\* From the hand-over to the write, a fault may hide that the mail went out.
InFlight(s) == phase[s] \in {"sending", "answered", "recording"}

Fault(s) ==
  /\ faults < MaxFaults
  /\ faults' = faults + 1
  /\ excused' = IF InFlight(s) THEN [excused EXCEPT ![job[s].id] = @ + 1]
                ELSE excused

\* The connection holding the lock drops: the database frees the lock, the
\* process finds out at its next assertOwned.
LoseSession(s) ==
  /\ phase[s] \notin {"idle", "draining"}
  /\ Owns(s)
  /\ Fault(s)
  /\ lock' = [lock EXCEPT ![job[s].id] = NoOne]
  /\ UNCHANGED <<rowVars, phase, job, todo, outcome, ndr, sweep, accepts>>

\* The process dies; the worker starts again with nothing in memory.
Crash(s) ==
  /\ phase[s] # "idle"
  /\ Fault(s)
  /\ lock' = [d \in Deliveries |-> IF lock[d] = s THEN NoOne ELSE lock[d]]
  /\ phase' = [phase EXCEPT ![s] = "idle"]
  /\ job' = [job EXCEPT ![s] = NoJob]
  /\ todo' = [todo EXCEPT ![s] = {}]
  /\ outcome' = [outcome EXCEPT ![s] = "none"]
  /\ UNCHANGED <<rowVars, ndr, sweep, accepts>>

\* The call throws although the provider took the message.
AnswerLost(s) ==
  /\ phase[s] = "sending"
  /\ Fault(s)
  /\ accepts' = Taken(job[s])
  /\ outcome' = [outcome EXCEPT ![s] = "threw"]
  /\ phase' = [phase EXCEPT ![s] = "answered"]
  /\ UNCHANGED <<rowVars, job, todo, lock, ndr, sweep>>

\* The write of a provider's answer itself fails: the drain's catch block then
\* treats the attempt as one that threw, the retry command just ends.
RecordFails(s) ==
  /\ phase[s] = "recording"
  /\ outcome[s] \in ProviderResults
  /\ Fault(s)
  /\ IF s \in Retriers
     THEN Finish(s)
     ELSE /\ outcome' = [outcome EXCEPT ![s] = "threw"]
          /\ phase' = [phase EXCEPT ![s] = "answered"]
          /\ UNCHANGED <<job, lock>>
  /\ UNCHANGED <<rowVars, todo, ndr, sweep, accepts>>

(***************************************************************************)
(* Everybody else who writes to a row                                      *)
(***************************************************************************)
OthersUnchanged == UNCHANGED <<request, senderVars, faults, accepts, excused>>

Stopped(x) == [x EXCEPT !.status = "cancelled", !.aged = FALSE]

\* cancelBulkSendBatch: no lock, only what is still queued under this batch.
StopBatch(r) ==
  LET stopped == {d \in Deliveries : row[d].status = "queued" /\ row[d].batch = r}
  IN /\ request[r].phase = "done"
     /\ stopped # {}
     /\ row' = [d \in Deliveries |->
                  IF d \in stopped
                  THEN Stopped(row[d])
                  ELSE row[d]]
     /\ UNCHANGED <<erased, ndr, sweep>>
     /\ OthersUnchanged

Emptied(x) ==
  IF x.status = "queued" \/ (x.status = "failed" /\ x.retryable)
  THEN [x EXCEPT !.status = "cancelled", !.retryable = FALSE,
                 !.recipient = FALSE, !.snapshot = FALSE, !.aged = FALSE]
  ELSE [x EXCEPT !.recipient = FALSE, !.snapshot = FALSE]

\* eraseAttendees: waiting mail is cancelled, then every row is emptied, in the
\* transaction that stamps erased_at.
Erase(a) ==
  /\ a \notin erased
  /\ erased' = erased \cup {a}
  /\ row' = [d \in Deliveries |->
               IF Owner(d) = a /\ row[d].status # "none"
               THEN Emptied(row[d]) ELSE row[d]]
  /\ UNCHANGED <<ndr, sweep>>
  /\ OthersUnchanged

\* An NDR can only answer a mail that reached the recipient's side.
MailReached(a) == \E d \in Deliveries, v \in 1..MaxRevision :
                    Owner(d) = a /\ accepts[d][v] > 0

\* findDeliveriesForBounceBatch and selectBounceDeliveryIndex, for a transport
\* whose bounces are matched by recipient alone.
MatchBounce(d) ==
  /\ ndr = NoJob
  /\ MailReached(Owner(d))
  /\ row[d].status \in NonTerminal /\ row[d].recipient
  /\ ndr' = Copy(d)
  /\ UNCHANGED <<row, erased, sweep>>
  /\ OthersUnchanged

Bounced(x) == [x EXCEPT !.status = "bounced", !.retryable = FALSE, !.aged = FALSE]

\* applyBounceResult for a 5xx.
ApplyBounce ==
  LET d == ndr.id IN
  /\ ndr # NoJob
  /\ row' = IF /\ row[d].revision = ndr.revision
               /\ row[d].attempts = ndr.attempts
               /\ row[d].status \in NonTerminal
               /\ row[d].recipient
            THEN [row EXCEPT ![d] = Bounced(@)]
            ELSE row
  /\ ndr' = NoJob
  /\ UNCHANGED <<erased, sweep>>
  /\ OthersUnchanged

\* staleSnapshotWhere: finished, past the retention window, not yet cleared.
Stale(d) == row[d].status \notin {"none", "queued"} /\ row[d].aged /\ row[d].snapshot

\* The retention window of a finished row passes.
Age(d) ==
  /\ row[d].status \notin {"none", "queued"}
  /\ row[d].snapshot /\ ~row[d].aged
  /\ row' = [row EXCEPT ![d].aged = TRUE]
  /\ UNCHANGED <<erased, ndr, sweep>>
  /\ OthersUnchanged

SweepRead ==
  /\ sweep = {}
  /\ \E d \in Deliveries : Stale(d)
  /\ sweep' = {d \in Deliveries : Stale(d)}
  /\ UNCHANGED <<row, erased, ndr>>
  /\ OthersUnchanged

Cleared(x) == [x EXCEPT !.snapshot = FALSE, !.retryable = FALSE]

\* Clearing what was read as stale, without looking again.
SweepClearAsRead ==
  /\ sweep # {}
  /\ row' = [d \in Deliveries |->
               IF d \in sweep /\ lock[d] = NoOne
               THEN Cleared(row[d])
               ELSE row[d]]
  /\ sweep' = {}
  /\ UNCHANGED <<erased, ndr>>
  /\ OthersUnchanged

\* nullifyDeliverySnapshotBatch: what is locked by a sender is left for the
\* next run, what is no longer stale is not touched.
SweepClear ==
  /\ sweep # {}
  /\ row' = [d \in Deliveries |->
               IF d \in sweep /\ lock[d] = NoOne /\ Stale(d)
               THEN Cleared(row[d])
               ELSE row[d]]
  /\ sweep' = {}
  /\ UNCHANGED <<erased, ndr>>
  /\ OthersUnchanged

-----------------------------------------------------------------------------
\* Steps a running sender takes without anybody's help.
AttemptStep(s) ==
  \/ Obstructed(s) \/ RetryGivesUp(s) \/ CheckBeforeSend(s) \/ HandOver(s)
  \/ ProviderAnswers(s) \/ ProviderThrows(s) \/ ConfirmOwned(s) \/ Abort(s)
  \/ Record(s)

WorkerStep(w) == DrainClaim(w) \/ (\E c \in todo[w] : DrainOwn(w, c)) \/ AttemptStep(w)

FaultStep(s) == LoseSession(s) \/ Crash(s) \/ AnswerLost(s) \/ RecordFails(s)

Next ==
  \/ \E r \in Requests : RequestStep(r)
  \/ \E w \in Workers : WorkerStep(w)
  \/ \E s \in Retriers : AttemptStep(s) \/ \E d \in Deliveries : RetryStart(s, d)
  \/ \E s \in Senders : FaultStep(s)
  \/ \E r \in Requests : StopBatch(r)
  \/ \E a \in Attendees : Erase(a)
  \/ \E d \in Deliveries : MatchBounce(d) \/ Age(d)
  \/ ApplyBounce \/ SweepRead \/ SweepClear

Spec == Init /\ [][Next]_vars

\* runWorkerTick comes back to mail_delivery for as long as the process lives,
\* and a sender that has picked a row up runs on to the end.
Fairness == /\ \A w \in Workers : WF_vars(WorkerStep(w))
            /\ \A s \in Retriers : WF_vars(AttemptStep(s))
FairSpec == Spec /\ Fairness
-----------------------------------------------------------------------------
(***************************************************************************)
(* What the outbox promises                                                *)
(***************************************************************************)
RowType ==
  /\ row \in [Deliveries -> Rows]
  /\ \A d \in Deliveries : row[d].status # "none" => row[d].revision > 0

RequestType ==
  request \in [Requests ->
    [phase : {"new", "working", "done"}, purpose : RequestPurposes,
     completed : SUBSET Attendees, left : SUBSET Attendees,
     found : Copies \cup {NoJob}]]

SenderType ==
  /\ phase \in [Senders -> Phases]
  /\ job \in [Senders -> Copies \cup {NoJob}]
  /\ todo \in [Senders -> SUBSET Copies]
  /\ outcome \in [Senders -> Outcomes]
  /\ lock \in [Deliveries -> Senders \cup {NoOne}]
  /\ \A s \in Senders :
       /\ job[s] = NoJob <=> phase[s] \in {"idle", "draining"}
       /\ phase[s] = "idle" => todo[s] = {}

OtherType ==
  /\ erased \in SUBSET Attendees
  /\ ndr \in Copies \cup {NoJob}
  /\ sweep \in SUBSET Deliveries
  /\ faults \in 0..MaxFaults

HistoryType ==
  /\ accepts \in [Deliveries -> [1..MaxRevision -> Nat]]
  /\ excused \in [Deliveries -> Nat]

\* Types, and the shape of a sender's memory: it holds a row exactly from the
\* moment it owns it to the moment it is done with it, and an idle one has
\* nothing left of its tick.
TypeOK == RowType /\ RequestType /\ SenderType /\ OtherType /\ HistoryType

\* Nobody is mailed twice under one claim of a row, whoever sends it (workers,
\* the retry command) and whatever interleaves, beyond one extra mail for each
\* fault that struck while that row's mail was out.
MailedOncePerClaim ==
  \A d \in Deliveries, v \in 1..MaxRevision : accepts[d][v] <= 1 + excused[d]

\* The rows of a person; one member for each mail the provider took for one of
\* them, by row, claim and number, and for each fault that may have hidden one.
RowsOf(a) == {d \in Deliveries : Owner(d) = a}
MailsTo(a) == UNION {{c} \X (1..accepts[c[1]][c[2]]) : c \in RowsOf(a) \X (1..MaxRevision)}
FaultsOf(a) == UNION {{d} \X (1..excused[d]) : d \in RowsOf(a)}

\* Requests that ask for one more mail on purpose: an explicit resend, or a
\* send to somebody who had their ticket when the request began.
AskedAgain(a) ==
  {r \in Requests : \/ request[r].purpose = "resend"
                    \/ a \in request[r].completed}

\* Two sends to the same people at once mail nobody twice: a person gets one
\* mail, one more for each request made after theirs had arrived or asking for
\* a resend, one for each time their row was claimed anew, one for each fault.
NoUnaskedMail ==
  \A a \in Attendees :
    Cardinality(MailsTo(a)) <=
      row[InitialOf(a)].revision + Cardinality(AskedAgain(a)) + Cardinality(FaultsOf(a))

\* A row shown as accepted or sent was taken by the provider under the claim
\* the row now stands for: the answer to an earlier claim's mail, still under
\* way when the row was cancelled and claimed again, is never written to it.
SuccessWasMailed ==
  \A d \in Deliveries :
    row[d].status \in Success => accepts[d][row[d].revision] > 0

\* Once somebody is erased, none of their rows holds an address or a text again
\* or is waiting to be sent, whatever was rendered, claimed or in flight before.
ErasedStaysEmptied ==
  \A d \in Deliveries : Owner(d) \in erased =>
    /\ ~row[d].recipient /\ ~row[d].snapshot
    /\ row[d].status # "queued" /\ ~Retryable(d)

\* A row that waits to be sent, first time or again, still has its message:
\* neither retention nor a lost race leaves one queued that no drain can take.
WaitingHasMessage ==
  \A d \in Deliveries :
    row[d].status = "queued" \/ Retryable(d) => HasSnapshot(d)

\* A queued row is one the drain still takes: it has attempts left.
QueuedIsDrainable ==
  \A d \in Deliveries : row[d].status = "queued" => Drainable(d)

\* What a row has come to is not undone by a late outcome of another attempt: a success
\* yields only to a bounce, and a stopped row moves again only because it is claimed anew
\* or because the provider's answer to a mail that was already out arrives.
OutcomeIsKept ==
  [][\A d \in Deliveries :
       /\ row[d].status \in Success => row'[d].status \in {row[d].status, "bounced"}
       /\ row[d].status = "cancelled" /\ row'[d].status # "cancelled" =>
            \/ row'[d].revision > row[d].revision
            \/ \E s \in Senders : /\ job[s].id = d
                                   /\ phase[s] = "recording"
                                   /\ outcome[s] \in ProviderResults]_vars

Waiting(d) == row[d].status = "queued" \/ Retryable(d)

\* Without the retry command, every row that waits to be sent is settled in the
\* end: the attempt limit makes an outage of the provider end, too.
WaitingIsSettled == \A d \in Deliveries : Waiting(d) ~> ~Waiting(d)

-----------------------------------------------------------------------------
(***************************************************************************)
(* What a comment or a page of the documentation says, and the code breaks *)
(***************************************************************************)
\* drain.ts: a cancel must not be undone by putting the row back in the retry
\* pool, where a later tick would send a mail the operator stopped.
StoppedNotPutBack ==
  [][\A d \in Deliveries :
       row[d].status = "cancelled" /\ row'[d].revision = row[d].revision
         => ~Retryable(d)']_vars

\* applyBounceResult: "5xx -> bounced (terminal)".
BouncedIsTerminal ==
  [][\A d \in Deliveries :
       row[d].status = "bounced" => row'[d].status = "bounced"]_vars
=============================================================================
