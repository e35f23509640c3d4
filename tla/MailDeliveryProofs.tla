------------------------- MODULE MailDeliveryProofs -------------------------
(***************************************************************************)
(* What TLAPS proves of MailDelivery for every set of people, requests,    *)
(* workers and retry commands, and every value of the bounds.              *)
(***************************************************************************)
EXTENDS MailDelivery, FiniteSetTheorems, TLAPS

-----------------------------------------------------------------------------
\* A copy of a row that exists is well typed.
LEMMA CopyType ==
  ASSUME RowType, NEW d \in Deliveries, row[d].status # "none"
  PROVE  Copy(d) \in Copies /\ Copy(d) # NoJob
PROOF
  <1>1. row[d] \in Rows
    BY DEF RowType
  <1>2. row[d].revision \in 1..MaxRevision
    BY <1>1, MailAssumption DEF RowType, Rows, MailAssumption
  <1>3. Copy(d) \in Copies
    BY <1>1, <1>2 DEF Copy, Copies, Rows
  <1>4. Copy(d) # NoJob
    BY <1>2 DEF Copy, NoJob
  <1> QED BY <1>3, <1>4

\* A job in hand is a copy of some row.
LEMMA JobType ==
  ASSUME SenderType, NEW s \in Senders, phase[s] \notin {"idle", "draining"}
  PROVE  /\ job[s] \in Copies
         /\ job[s].id \in Deliveries
         /\ job[s].revision \in 1..MaxRevision
PROOF
  <1>1. job[s] \in Copies
    BY DEF SenderType
  <1> QED BY <1>1 DEF Copies

\* Being done with a row keeps the sender's memory in shape.
LEMMA FinishType ==
  ASSUME SenderType, NEW s \in Senders, phase[s] \notin {"idle", "draining"},
         Finish(s), UNCHANGED todo
  PROVE  SenderType'
PROOF
  <1>1. job[s].id \in Deliveries
    BY JobType
  <1>2. NoJob \notin Copies
    BY DEF NoJob, Copies
  <1> QED BY <1>1, <1>2 DEF SenderType, Finish, Phases, Outcomes, ProviderResults

\* A row that exists has been claimed at least once and at most MaxRevision times.
LEMMA RevisionRange ==
  ASSUME RowType, NEW d \in Deliveries, row[d].status # "none"
  PROVE  row[d].revision \in 1..MaxRevision
PROOF
  BY MailAssumption DEF RowType, Rows, MailAssumption

\* A freshly queued row is a well typed row.
LEMMA QueuedType ==
  ASSUME NEW r \in Requests, NEW v \in 1..MaxRevision
  PROVE  Queued(r, v) \in Rows
PROOF
  BY MailAssumption DEF Queued, Rows, Statuses, MailAssumption

\* Whatever an attempt came to, writing it leaves a well typed row of the same
\* claim, with its message.
LEMMA RecordedType ==
  ASSUME NEW s \in Senders, NEW x \in Rows, NEW o \in Outcomes
  PROVE  /\ Recorded(s, x, o) \in Rows
         /\ Recorded(s, x, o).revision = x.revision
         /\ Recorded(s, x, o).recipient = x.recipient
         /\ Recorded(s, x, o).snapshot = x.snapshot
         /\ Recorded(s, x, o).status \in
              {x.status, "accepted", "sent", "failed", "rejected"}
         /\ Recorded(s, x, o).status \in Success =>
              o \in Success \/ x.status \in Success
PROOF
  <1> DEFINE more == TriedAgain(s, x.attempts + 1)
  <1>1. x.attempts + 1 \in Nat /\ x.status \in Statuses
    BY DEF Rows
  <1>2. more \in BOOLEAN
    BY DEF TriedAgain
  <1>3. CASE Recorded(s, x, o) = [x EXCEPT !.attempts = @ + 1]
    BY <1>1, <1>3, Zenon DEF Rows
  <1>4. CASE /\ o \in Success
             /\ Recorded(s, x, o) =
                  [x EXCEPT !.status = o, !.attempts = @ + 1, !.aged = FALSE]
    <2>1. o \in Statuses /\ o \in {"accepted", "sent"}
      BY <1>4 DEF Success, Statuses
    <2>2. /\ Recorded(s, x, o) \in Rows
          /\ Recorded(s, x, o).revision = x.revision
          /\ Recorded(s, x, o).recipient = x.recipient
          /\ Recorded(s, x, o).snapshot = x.snapshot
          /\ Recorded(s, x, o).status = o
      BY <1>1, <1>4, <2>1, Zenon DEF Rows
    <2> QED BY <1>4, <2>1, <2>2
  <1>5. ASSUME NEW y \in {"rejected", "failed"}, NEW b \in BOOLEAN,
               Recorded(s, x, o) = [x EXCEPT !.status = y, !.retryable = b,
                                             !.attempts = @ + 1, !.aged = FALSE]
        PROVE  /\ Recorded(s, x, o) \in Rows
               /\ Recorded(s, x, o).revision = x.revision
               /\ Recorded(s, x, o).recipient = x.recipient
               /\ Recorded(s, x, o).snapshot = x.snapshot
               /\ Recorded(s, x, o).status = y
    <2>1. y \in Statuses
      BY DEF Statuses
    <2> QED BY <1>1, <1>5, <2>1, Zenon DEF Rows
  <1>6. \/ Recorded(s, x, o) = [x EXCEPT !.attempts = @ + 1]
        \/ /\ o \in Success
           /\ Recorded(s, x, o) =
                [x EXCEPT !.status = o, !.attempts = @ + 1, !.aged = FALSE]
        \/ \E y \in {"rejected", "failed"}, b \in {FALSE, more} :
             Recorded(s, x, o) = [x EXCEPT !.status = y, !.retryable = b,
                                           !.attempts = @ + 1, !.aged = FALSE]
    BY DEF Recorded, Success
  <1> HIDE DEF more
  <1>7. CASE \E y \in {"rejected", "failed"}, b \in {FALSE, more} :
               Recorded(s, x, o) = [x EXCEPT !.status = y, !.retryable = b,
                                             !.attempts = @ + 1, !.aged = FALSE]
    <2>1. PICK y \in {"rejected", "failed"}, b \in {FALSE, more} :
               Recorded(s, x, o) = [x EXCEPT !.status = y, !.retryable = b,
                                             !.attempts = @ + 1, !.aged = FALSE]
      BY <1>7
    <2>2. b \in BOOLEAN
      BY <1>2
    <2>3. /\ Recorded(s, x, o) \in Rows
          /\ Recorded(s, x, o).revision = x.revision
          /\ Recorded(s, x, o).recipient = x.recipient
          /\ Recorded(s, x, o).snapshot = x.snapshot
          /\ Recorded(s, x, o).status = y
      BY <1>5, <2>1, <2>2
    <2> QED BY <2>3 DEF Success
  <1> QED BY <1>3, <1>4, <1>6, <1>7

\* Queueing a row again keeps it well typed while the bound leaves room.
LEMMA RequeuedType ==
  ASSUME NEW x \in Rows, x.revision < MaxRevision, NEW r \in Requests
  PROVE  /\ x.revision + 1 \in 1..MaxRevision
         /\ Requeued(x, r) \in Rows
         /\ Requeued(x, r).revision = x.revision + 1
         /\ Requeued(x, r).status = "queued"
PROOF
  <1>1. x.revision \in Nat /\ x.revision + 1 \in 1..MaxRevision
    BY MailAssumption DEF Rows, MailAssumption
  <1>2. x.revision + 1 \in 0..MaxRevision
    BY <1>1
  <1>3. "queued" \in Statuses
    BY DEF Statuses
  <1>4. /\ Requeued(x, r) \in Rows
        /\ Requeued(x, r).revision = x.revision + 1
        /\ Requeued(x, r).status = "queued"
    BY <1>2, <1>3, Zenon DEF Rows, Requeued
  <1> QED BY <1>1, <1>4

\* What the others write to a row is well typed and leaves its claim alone.
LEMMA OthersRowType ==
  ASSUME NEW x \in Rows
  PROVE  /\ Stopped(x) \in Rows /\ Stopped(x).revision = x.revision
         /\ Emptied(x) \in Rows /\ Emptied(x).revision = x.revision
         /\ Bounced(x) \in Rows /\ Bounced(x).revision = x.revision
         /\ Cleared(x) \in Rows /\ Cleared(x).revision = x.revision
PROOF
  <1>1. "cancelled" \in Statuses /\ "bounced" \in Statuses
    BY DEF Statuses
  <1>2. Stopped(x) \in Rows /\ Stopped(x).revision = x.revision
    BY <1>1, Zenon DEF Rows, Stopped
  <1>3. Bounced(x) \in Rows /\ Bounced(x).revision = x.revision
    BY <1>1, Zenon DEF Rows, Bounced
  <1>4. Cleared(x) \in Rows /\ Cleared(x).revision = x.revision
    BY Zenon DEF Rows, Cleared
  <1>5. CASE x.status = "queued" \/ (x.status = "failed" /\ x.retryable)
    <2>1. Emptied(x) = [x EXCEPT !.status = "cancelled", !.retryable = FALSE,
                          !.recipient = FALSE, !.snapshot = FALSE, !.aged = FALSE]
      BY <1>5 DEF Emptied
    <2> QED BY <1>1, <1>2, <1>3, <1>4, <2>1, Zenon DEF Rows
  <1>6. CASE ~(x.status = "queued" \/ (x.status = "failed" /\ x.retryable))
    <2>1. Emptied(x) = [x EXCEPT !.recipient = FALSE, !.snapshot = FALSE]
      BY <1>6 DEF Emptied
    <2> QED BY <1>2, <1>3, <1>4, <2>1, Zenon DEF Rows
  <1> QED BY <1>5, <1>6

\* An initial delivery and a resend are deliveries of the person they are for.
LEMMA IdentityType ==
  ASSUME NEW a \in Attendees, NEW r \in Requests
  PROVE  /\ InitialOf(a) \in Deliveries /\ Owner(InitialOf(a)) = a
         /\ ResendOf(r, a) \in Deliveries /\ Owner(ResendOf(r, a)) = a
PROOF
  BY DEF InitialOf, ResendOf, Deliveries, Owner

-----------------------------------------------------------------------------
\* One attendee less to do keeps a request well typed.
LEMMA NextAttendeeType ==
  ASSUME RequestType, NEW r \in Requests, NEW a \in Attendees,
         NextAttendee(r, a)
  PROVE  RequestType'
PROOF
  <1> DEFINE R == [phase : {"new", "working", "done"},
                        purpose : RequestPurposes,
                        completed : SUBSET Attendees, left : SUBSET Attendees,
                        found : Copies \cup {NoJob}]
  <1>1. request[r] \in R
    BY DEF RequestType
  <1>2. ASSUME NEW x \in R, NEW l \in SUBSET Attendees,
               NEW p \in {"new", "working", "done"}
        PROVE  [x EXCEPT !.left = l, !.found = NoJob, !.phase = p] \in R
    BY Zenon
  <1>3. Advanced(request[r], a) \in R
    BY <1>1, <1>2 DEF Advanced
  <1> QED BY <1>3 DEF RequestType, NextAttendee

\* The steps of a request keep the types.
LEMMA RequestKeepsType ==
  ASSUME TypeOK, NEW r \in Requests, RequestStep(r)
  PROVE  TypeOK'
PROOF
  <1> USE DEF TypeOK, SenderSideUnchanged, senderVars
  <1>0. (SenderType' /\ OtherType' /\ HistoryType') \/ BeginSend(r)
    BY DEF RequestStep, CreateResend, CreateInitial, ClassifyExisting,
           RetryExisting, ReclaimCancelled, SenderType, OtherType, HistoryType
  <1>1. CASE BeginSend(r)
    <2>1. RequestType'
      BY <1>1 DEF BeginSend, RequestType, CompletedInitial, RequestPurposes
    <2> QED BY <1>1, <2>1 DEF BeginSend, RowType, SenderType, OtherType, HistoryType
  <1>2. ASSUME NEW a \in Attendees,
               CreateResend(r, a) \/ CreateInitial(r, a)
        PROVE  RowType' /\ RequestType'
    <2>1. RequestType'
      BY <1>2, NextAttendeeType DEF CreateResend, CreateInitial
    <2>2. Queued(r, 1) \in Rows
      BY QueuedType, MailAssumption DEF MailAssumption
    <2>3. \A d \in Deliveries : row'[d] = row[d] \/ row'[d] = Queued(r, 1)
      BY <1>2 DEF CreateResend, CreateInitial, RowType
    <2>4. row' \in [Deliveries -> Rows]
      BY <1>2, <2>2, IdentityType DEF CreateResend, CreateInitial, RowType
    <2> QED BY <2>1, <2>3, <2>4 DEF RowType, Queued
  <1>3. ASSUME NEW a \in Attendees, ClassifyExisting(r, a)
        PROVE  RowType' /\ RequestType'
    <2>1. RowType'
      BY <1>3 DEF ClassifyExisting, RowType
    <2>2. Copy(InitialOf(a)) \in Copies
      BY <1>3, CopyType, IdentityType DEF ClassifyExisting
    <2>3. RequestType'
      BY <1>3, <2>2, NextAttendeeType DEF ClassifyExisting, RequestType
    <2> QED BY <2>1, <2>3
  <1>4. ASSUME NEW a \in Attendees, RetryExisting(r, a)
        PROVE  RowType' /\ RequestType'
    <2>1. RequestType'
      BY <1>4, NextAttendeeType DEF RetryExisting
    <2> DEFINE d == InitialOf(a)
    <2>2. row[d] \in Rows /\ d \in Deliveries
      BY IdentityType DEF RowType
    <2>3. row[d].revision < MaxRevision
      BY <1>4 DEF RetryExisting
    <2>4. /\ row[d].revision + 1 \in 1..MaxRevision
          /\ Requeued(row[d], r) \in Rows
          /\ Requeued(row[d], r).revision = row[d].revision + 1
      BY <2>2, <2>3, RequeuedType
    <2>5. RowType'
      BY <1>4, <2>2, <2>4 DEF RetryExisting, RowType, Rows
    <2> QED BY <2>1, <2>5
  <1>5. ASSUME NEW a \in Attendees, ReclaimCancelled(r, a)
        PROVE  RowType' /\ RequestType'
    <2>1. RequestType'
      BY <1>5, NextAttendeeType DEF ReclaimCancelled
    <2> DEFINE d == InitialOf(a)
    <2>2. row[d] \in Rows /\ d \in Deliveries
      BY IdentityType DEF RowType
    <2>3. row[d].revision + 1 \in 1..MaxRevision
      BY <1>5, <2>2, MailAssumption DEF ReclaimCancelled, Rows, MailAssumption
    <2>4. Queued(r, row[d].revision + 1) \in Rows
      BY <2>3, QueuedType
    <2>5. RowType'
      BY <1>5, <2>2, <2>3, <2>4 DEF ReclaimCancelled, RowType, Queued
    <2> QED BY <2>1, <2>5
  <1> QED BY <1>0, <1>1, <1>2, <1>3, <1>4, <1>5 DEF RequestStep

\* The steps with which a sender picks a row up keep the types.
LEMMA PickUpKeepsType ==
  ASSUME TypeOK, NEW s \in Senders,
         \/ s \in Workers /\ DrainClaim(s)
         \/ \E c \in todo[s] : DrainOwn(s, c)
         \/ \E d \in Deliveries : RetryStart(s, d)
  PROVE  TypeOK'
PROOF
  <1> USE DEF TypeOK, rowVars
  <1>0. RowType' /\ RequestType' /\ OtherType' /\ HistoryType'
    BY DEF DrainClaim, DrainOwn, RetryStart, RowType, RequestType, OtherType,
           HistoryType
  <1>1. ASSUME DrainClaim(s)
        PROVE  SenderType'
    <2> DEFINE taken == {d \in Deliveries :
                 (row[d].status = "queued" \/ Retryable(d)) /\ Drainable(d)}
    <2>1. PICK S \in SUBSET taken : todo' = [todo EXCEPT ![s] = {Copy(d) : d \in S}]
      BY <1>1 DEF DrainClaim
    <2>2. \A d \in taken : Copy(d) \in Copies
      BY CopyType DEF Retryable
    <2>3. {Copy(d) : d \in S} \in SUBSET Copies
      BY <2>1, <2>2
    <2> HIDE DEF taken
    <2> QED BY <1>1, <2>1, <2>3 DEF DrainClaim, SenderType, Phases
  <1>2. ASSUME NEW c \in todo[s], DrainOwn(s, c)
        PROVE  SenderType'
    <2>1. c \in Copies /\ c # NoJob /\ c.id \in Deliveries
      BY DEF SenderType, Copies, NoJob
    <2> QED BY <1>2, <2>1 DEF DrainOwn, SenderType, Phases
  <1>3. ASSUME NEW d \in Deliveries, RetryStart(s, d)
        PROVE  SenderType'
    <2>1. Copy(d) \in Copies /\ Copy(d) # NoJob
      BY <1>3, CopyType DEF RetryStart, Retryable
    <2> QED BY <1>3, <2>1 DEF RetryStart, SenderType, Phases
  <1> QED BY <1>0, <1>1, <1>2, <1>3

\* One more mail taken keeps the history well typed.
LEMMA TakenType ==
  ASSUME HistoryType, NEW j, j.id \in Deliveries, j.revision \in 1..MaxRevision
  PROVE  Taken(j) \in [Deliveries -> [1..MaxRevision -> Nat]]
PROOF
  <1>1. accepts[j.id] \in [1..MaxRevision -> Nat]
    BY DEF HistoryType
  <1>2. [accepts[j.id] EXCEPT ![j.revision] = @ + 1] \in [1..MaxRevision -> Nat]
    <2> DEFINE n == accepts[j.id][j.revision] + 1
    <2>1. n \in Nat
      <3> DEFINE old == accepts[j.id][j.revision]
      <3>1. old \in Nat
        BY <1>1, Zenon
      <3> HIDE DEF old
      <3>2. old + 1 \in Nat
        BY <3>1
      <3> QED BY <3>2 DEF old
    <2> HIDE DEF n
    <2>2. [accepts[j.id] EXCEPT ![j.revision] = n] \in [1..MaxRevision -> Nat]
      BY <1>1, <2>1, Zenon
    <2> QED BY <2>2 DEF n
  <1>3. Taken(j) =
          [accepts EXCEPT ![j.id] = [accepts[j.id] EXCEPT ![j.revision] = @ + 1]]
    BY Zenon DEF Taken
  <1> QED BY <1>2, <1>3 DEF HistoryType

\* The steps of an attempt keep the types.
LEMMA AttemptKeepsType ==
  ASSUME TypeOK, NEW s \in Senders, AttemptStep(s)
  PROVE  TypeOK'
PROOF
  <1> USE DEF TypeOK, rowVars
  <1>0. RequestType' /\ OtherType'
    BY DEF AttemptStep, Obstructed, RetryGivesUp, CheckBeforeSend, HandOver,
           ProviderAnswers, ProviderThrows, ConfirmOwned, Abort, Record,
           RequestType, OtherType
  <1>1. CASE Obstructed(s)
    BY <1>0, <1>1 DEF Obstructed, Obstacles, RowType, SenderType, HistoryType,
                      Phases, Outcomes
  <1>2. CASE RetryGivesUp(s)
    <2>1. SenderType'
      BY <1>2, FinishType DEF RetryGivesUp
    <2> QED BY <1>0, <1>2, <2>1 DEF RetryGivesUp, RowType, HistoryType
  <1>3. CASE CheckBeforeSend(s)
    <2>1. SenderType'
      BY <1>3, FinishType DEF CheckBeforeSend, SenderType, Phases
    <2> QED BY <1>0, <1>3, <2>1 DEF CheckBeforeSend, RowType, HistoryType
  <1>4. CASE HandOver(s)
    BY <1>0, <1>4 DEF HandOver, RowType, SenderType, HistoryType, Phases
  <1>5. CASE ProviderAnswers(s)
    <2>1. Taken(job[s]) \in [Deliveries -> [1..MaxRevision -> Nat]]
      BY <1>5, JobType, TakenType DEF ProviderAnswers
    <2>2. HistoryType'
      BY <1>5, <2>1 DEF ProviderAnswers, HistoryType
    <2>3. SenderType'
      BY <1>5 DEF ProviderAnswers, SenderType, Phases, Outcomes
    <2> QED BY <1>0, <1>5, <2>2, <2>3 DEF ProviderAnswers, RowType
  <1>6. CASE ProviderThrows(s)
    BY <1>0, <1>6 DEF ProviderThrows, RowType, SenderType, HistoryType, Phases,
                      Outcomes
  <1>7. CASE ConfirmOwned(s)
    <2>1. SenderType'
      BY <1>7, FinishType DEF ConfirmOwned, SenderType, Phases
    <2> QED BY <1>0, <1>7, <2>1 DEF ConfirmOwned, RowType, HistoryType
  <1>8. CASE Abort(s)
    BY <1>0, <1>8 DEF Abort, RowType, SenderType, HistoryType, Phases, Outcomes
  <1>9. CASE Record(s)
    <2>1. SenderType'
      BY <1>9, FinishType DEF Record
    <2> DEFINE d == job[s].id
               new == Recorded(s, row[d], outcome[s])
    <2>2. d \in Deliveries /\ row[d] \in Rows /\ outcome[s] \in Outcomes
      BY <1>9, JobType DEF Record, RowType, SenderType
    <2>3. /\ new \in Rows
          /\ new.revision = row[d].revision
          /\ job[s].revision \in 1..MaxRevision
      BY <1>9, <2>2, RecordedType, JobType DEF Record
    <2>4. \/ row' = row
          \/ row' = [row EXCEPT ![d] = new] /\ SameAttempt(job[s])
      <3> HIDE DEF new
      <3>1. row' = IF MayRecord(s, job[s], outcome[s])
                   THEN [row EXCEPT ![d] = new] ELSE row
        BY <1>9 DEF Record, new
      <3> QED BY <3>1 DEF MayRecord
    <2>5. RowType'
      <3> HIDE DEF new
      <3> QED BY <2>2, <2>3, <2>4 DEF RowType, SameAttempt
    <2> QED BY <1>0, <1>9, <2>1, <2>5 DEF Record, HistoryType
  <1> QED BY <1>1, <1>2, <1>3, <1>4, <1>5, <1>6, <1>7, <1>8, <1>9 DEF AttemptStep

\* Faults keep the types.
LEMMA FaultKeepsType ==
  ASSUME TypeOK, NEW s \in Senders, FaultStep(s)
  PROVE  TypeOK'
PROOF
  <1> USE DEF TypeOK, rowVars
  <1>0. RowType' /\ RequestType' /\ OtherType'
    BY MailAssumption DEF FaultStep, LoseSession, Crash, AnswerLost, RecordFails,
           Fault, RowType, RequestType, OtherType, MailAssumption
  <1>1. InFlight(s) => job[s].id \in Deliveries /\ job[s].revision \in 1..MaxRevision
    BY JobType DEF InFlight
  <1>2. excused' \in [Deliveries -> Nat]
    <2>1. Fault(s)
      BY DEF FaultStep, LoseSession, Crash, AnswerLost, RecordFails
    <2> QED BY <1>1, <2>1, SMTT(30) DEF Fault, HistoryType
  <1>3. CASE LoseSession(s)
    BY <1>0, <1>2, <1>3 DEF LoseSession, SenderType, HistoryType
  <1>4. CASE Crash(s)
    BY <1>0, <1>2, <1>4 DEF Crash, SenderType, HistoryType, Phases, Outcomes
  <1>5. CASE AnswerLost(s)
    <2>1. Taken(job[s]) \in [Deliveries -> [1..MaxRevision -> Nat]]
      BY <1>1, <1>5, TakenType DEF AnswerLost, InFlight
    <2>2. SenderType'
      BY <1>5 DEF AnswerLost, SenderType, Phases, Outcomes
    <2> QED BY <1>0, <1>2, <1>5, <2>1, <2>2 DEF AnswerLost, HistoryType
  <1>6. CASE RecordFails(s)
    <2>1. SenderType'
      BY <1>6, FinishType DEF RecordFails, SenderType, Phases, Outcomes
    <2> QED BY <1>0, <1>2, <1>6, <2>1 DEF RecordFails, HistoryType
  <1> QED BY <1>3, <1>4, <1>5, <1>6 DEF FaultStep

\* The steps of everybody who is no sender and no request at work.
OtherStep ==
  \/ \E r \in Requests : StopBatch(r)
  \/ \E a \in Attendees : Erase(a)
  \/ \E d \in Deliveries : MatchBounce(d) \/ Age(d)
  \/ ApplyBounce \/ SweepRead \/ SweepClear

\* They keep the types.
LEMMA OthersKeepType ==
  ASSUME TypeOK, OtherStep
  PROVE  TypeOK'
PROOF
  <1> USE DEF TypeOK, OthersUnchanged, senderVars
  <1>0. RequestType' /\ SenderType' /\ HistoryType'
    BY DEF OtherStep, StopBatch, Erase, MatchBounce, Age, ApplyBounce, SweepRead,
           SweepClear, RequestType, SenderType, HistoryType
  <1>1. ASSUME NEW r \in Requests, StopBatch(r)
        PROVE  RowType' /\ OtherType'
    <2>1. \A d \in Deliveries :
            \/ row'[d] = row[d]
            \/ row'[d] = Stopped(row[d]) /\ row[d].status = "queued"
      BY <1>1 DEF StopBatch
    <2>2. DOMAIN row' = Deliveries /\ row' = [d \in Deliveries |-> row'[d]]
      BY <1>1 DEF StopBatch
    <2> QED BY <1>1, <2>1, <2>2, OthersRowType DEF StopBatch, RowType, OtherType
  <1>2. ASSUME NEW a \in Attendees, Erase(a)
        PROVE  RowType' /\ OtherType'
    <2>1. \A d \in Deliveries :
            \/ row'[d] = row[d]
            \/ row'[d] = Emptied(row[d]) /\ row[d].status # "none"
      BY <1>2 DEF Erase
    <2>2. row' = [d \in Deliveries |-> row'[d]]
      BY <1>2 DEF Erase
    <2> QED BY <1>2, <2>1, <2>2, OthersRowType DEF Erase, RowType, OtherType
  <1>3. ASSUME NEW d \in Deliveries, MatchBounce(d)
        PROVE  RowType' /\ OtherType'
    <2>1. Copy(d) \in Copies
      BY <1>3, CopyType DEF MatchBounce, NonTerminal
    <2>2. row' = row /\ erased' = erased /\ sweep' = sweep /\ faults' = faults /\ ndr' = Copy(d)
      BY <1>3, Zenon DEF MatchBounce, OthersUnchanged
    <2> QED BY <2>1, <2>2, Zenon DEF RowType, OtherType
  <1>4. ASSUME NEW d \in Deliveries, Age(d)
        PROVE  RowType' /\ OtherType'
    <2> DEFINE x == [row[d] EXCEPT !.aged = TRUE]
    <2>1. row' = [row EXCEPT ![d] = x] /\ UNCHANGED <<erased, ndr, sweep, faults>>
      BY <1>4 DEF Age, OthersUnchanged
    <2>2. x \in Rows /\ x.status = row[d].status /\ x.revision = row[d].revision
      BY Zenon DEF RowType, Rows
    <2> HIDE DEF x
    <2> QED BY <2>1, <2>2 DEF RowType, OtherType
  <1>5. ASSUME ApplyBounce
        PROVE  RowType' /\ OtherType'
    <2>1. ndr \in Copies /\ ndr.id \in Deliveries
      BY <1>5 DEF ApplyBounce, OtherType, Copies
    <2>2. row[ndr.id] \in Rows
      BY <2>1 DEF RowType
    <2>3. \/ row' = row
          \/ /\ row' = [row EXCEPT ![ndr.id] = Bounced(row[ndr.id])]
             /\ row[ndr.id].status # "none"
      BY <1>5 DEF ApplyBounce, NonTerminal
    <2> QED BY <1>5, <2>1, <2>2, <2>3, OthersRowType DEF ApplyBounce, RowType,
                                                         OtherType
  <1>6. ASSUME SweepRead
        PROVE  RowType' /\ OtherType'
    BY <1>6 DEF SweepRead, RowType, OtherType
  <1>7. ASSUME SweepClear
        PROVE  RowType' /\ OtherType'
    <2>1. \A d \in Deliveries :
            \/ row'[d] = row[d]
            \/ row'[d] = Cleared(row[d]) /\ row[d].status # "none"
      BY <1>7 DEF SweepClear, Stale
    <2>2. row' = [d \in Deliveries |-> row'[d]]
      BY <1>7 DEF SweepClear
    <2> QED BY <1>7, <2>1, <2>2, OthersRowType DEF SweepClear, RowType, OtherType
  <1> QED BY <1>0, <1>1, <1>2, <1>3, <1>4, <1>5, <1>6, <1>7 DEF OtherStep

-----------------------------------------------------------------------------
\* Types, and the shape of a sender's memory, hold in every reachable state:
\* whatever interleaves, a sender holds a row in memory exactly while it is
\* between taking it and being done with it.
THEOREM TypeCorrect == Spec => []TypeOK
PROOF
  <1>1. Init => TypeOK
    <2> SUFFICES ASSUME Init
                 PROVE  TypeOK
      OBVIOUS
    <2>1. NoRow \in Rows
      BY MailAssumption DEF NoRow, Rows, Statuses, MailAssumption
    <2>2. RowType
      BY <2>1 DEF Init, RowType, NoRow
    <2> QED BY <2>2, MailAssumption DEF Init, TypeOK, RequestType, RequestPurposes,
                 SenderType, OtherType, HistoryType, Phases, Outcomes,
                 MailAssumption
  <1>2. TypeOK /\ [Next]_vars => TypeOK'
    <2> SUFFICES ASSUME TypeOK, [Next]_vars
                 PROVE  TypeOK'
      OBVIOUS
    <2>1. CASE UNCHANGED vars
      BY <2>1 DEF vars, rowVars, senderVars, TypeOK, RowType, RequestType,
                  SenderType, OtherType, HistoryType
    <2>2. ASSUME NEW r \in Requests, RequestStep(r)
          PROVE  TypeOK'
      BY <2>2, RequestKeepsType
    <2>3. ASSUME NEW w \in Workers, WorkerStep(w)
          PROVE  TypeOK'
      BY <2>3, PickUpKeepsType, AttemptKeepsType DEF WorkerStep, Senders
    <2>4. ASSUME NEW s \in Retriers,
                 AttemptStep(s) \/ \E d \in Deliveries : RetryStart(s, d)
          PROVE  TypeOK'
      BY <2>4, PickUpKeepsType, AttemptKeepsType DEF Senders
    <2>5. ASSUME NEW s \in Senders, FaultStep(s)
          PROVE  TypeOK'
      BY <2>5, FaultKeepsType
    <2>6. CASE OtherStep
      BY <2>6, OthersKeepType
    <2> QED BY <2>1, <2>2, <2>3, <2>4, <2>5, <2>6 DEF Next, OtherStep
  <1> QED BY <1>1, <1>2, PTL DEF Spec

-----------------------------------------------------------------------------
\* Everything one step may do to one row: the cases the invariants below are
\* proved from.
RowUnchanged(d) == row'[d] = row[d]
RowClaimed(d) ==
  /\ Owner(d) \notin erased
  /\ \E r \in Requests, v \in 1..MaxRevision : row'[d] = Queued(r, v)
RowRequeued(d) ==
  /\ Retryable(d) /\ row[d].revision < MaxRevision
  /\ \E r \in Requests : row'[d] = Requeued(row[d], r)
RowRecorded(d) ==
  \E s \in Senders :
    /\ phase[s] = "recording" /\ job[s].id = d
    /\ SameAttempt(job[s]) /\ MayRecord(s, job[s], outcome[s])
    /\ row'[d] = Recorded(s, row[d], outcome[s])
RowStopped(d) == row[d].status = "queued" /\ row'[d] = Stopped(row[d])
RowEmptied(d) == row[d].status # "none" /\ row'[d] = Emptied(row[d])
RowBounced(d) == row[d].status \in NonTerminal /\ row'[d] = Bounced(row[d])
RowAged(d) ==
  row[d].status \notin {"none", "queued"} /\ row'[d] = [row[d] EXCEPT !.aged = TRUE]
RowCleared(d) == row[d].status \notin {"none", "queued"} /\ row'[d] = Cleared(row[d])

\* What those do to a row who neither claim it nor send it; and with a sender's
\* recorded outcome, what everybody does but a request at work.
RowTouched(d) ==
  \/ RowUnchanged(d) \/ RowStopped(d) \/ RowEmptied(d)
  \/ RowBounced(d) \/ RowAged(d) \/ RowCleared(d)

RowWritten(d) == RowTouched(d) \/ RowRecorded(d)

RowChange(d) == RowWritten(d) \/ RowClaimed(d) \/ RowRequeued(d)

\* A request changes rows only by claiming them, for people not erased.
LEMMA RequestRowChange ==
  ASSUME TypeOK, NEW r \in Requests, RequestStep(r), NEW d \in Deliveries
  PROVE  RowUnchanged(d) \/ RowClaimed(d) \/ RowRequeued(d)
PROOF
  <1> USE DEF TypeOK, RowType
  <1>1. CASE BeginSend(r)
    BY <1>1 DEF BeginSend, RowUnchanged
  <1>2. ASSUME NEW a \in Attendees,
               CreateResend(r, a) \/ CreateInitial(r, a)
        PROVE  RowUnchanged(d) \/ RowClaimed(d)
    <2>1. \E e \in {InitialOf(a), ResendOf(r, a)} :
            \/ row' = row
            \/ a \notin erased /\ row' = [row EXCEPT ![e] = Queued(r, 1)]
      BY <1>2 DEF CreateResend, CreateInitial
    <2>2. 1 \in 1..MaxRevision
      BY MailAssumption DEF MailAssumption
    <2> QED BY <2>1, <2>2, IdentityType DEF RowUnchanged, RowClaimed
  <1>3. ASSUME NEW a \in Attendees, ClassifyExisting(r, a)
        PROVE  RowUnchanged(d)
    BY <1>3 DEF ClassifyExisting, RowUnchanged
  <1>4. ASSUME NEW a \in Attendees, RetryExisting(r, a)
        PROVE  RowUnchanged(d) \/ RowRequeued(d)
    BY <1>4, IdentityType DEF RetryExisting, RowUnchanged, RowRequeued
  <1>5. ASSUME NEW a \in Attendees, ReclaimCancelled(r, a)
        PROVE  RowUnchanged(d) \/ RowClaimed(d)
    <2> DEFINE e == InitialOf(a)
    <2>1. row[e] \in Rows /\ Owner(e) = a
      BY IdentityType
    <2>2. row[e].revision + 1 \in 1..MaxRevision
      BY <1>5, <2>1, RequeuedType DEF ReclaimCancelled
    <2> QED BY <1>5, <2>1, <2>2, IdentityType
            DEF ReclaimCancelled, RowUnchanged, RowClaimed
  <1> QED BY <1>1, <1>2, <1>3, <1>4, <1>5 DEF RequestStep

\* Of the steps of an attempt, only the last changes a row, and then only the
\* one the copy was made of, in the version it was made of.
LEMMA AttemptRowChange ==
  ASSUME TypeOK, NEW s \in Senders, AttemptStep(s), NEW d \in Deliveries
  PROVE  RowUnchanged(d) \/ RowRecorded(d)
PROOF
  <1> USE DEF TypeOK, RowType, rowVars
  <1>1. CASE ~Record(s)
    BY <1>1 DEF AttemptStep, Obstructed, RetryGivesUp, CheckBeforeSend, HandOver,
                ProviderAnswers, ProviderThrows, ConfirmOwned, Abort, RowUnchanged
  <1>2. CASE Record(s)
    <2> DEFINE new == Recorded(s, row[job[s].id], outcome[s])
    <2>1. row' = IF MayRecord(s, job[s], outcome[s])
                 THEN [row EXCEPT ![job[s].id] = new] ELSE row
      BY <1>2 DEF Record, new
    <2> HIDE DEF new
    <2>2. phase[s] = "recording" /\ job[s].id \in Deliveries
      BY <1>2, JobType DEF Record
    <2>3. CASE /\ d = job[s].id /\ MayRecord(s, job[s], outcome[s])
               /\ SameAttempt(job[s]) /\ row'[d] = new
      BY <2>2, <2>3 DEF RowRecorded, new
    <2>4. CASE row'[d] = row[d]
      BY <2>4 DEF RowUnchanged
    <2> QED BY <2>1, <2>2, <2>3, <2>4 DEF MayRecord
  <1> QED BY <1>1, <1>2

\* What those who neither claim nor send do to a row.
LEMMA OthersRowChange ==
  ASSUME TypeOK, OtherStep, NEW d \in Deliveries
  PROVE  RowTouched(d)
PROOF
  <1> USE DEF TypeOK, RowType
  <1>1. ASSUME NEW r \in Requests, StopBatch(r)
        PROVE  RowTouched(d)
    BY <1>1 DEF StopBatch, RowTouched, RowUnchanged, RowStopped
  <1>2. ASSUME NEW a \in Attendees, Erase(a)
        PROVE  RowTouched(d)
    BY <1>2 DEF Erase, RowTouched, RowUnchanged, RowEmptied
  <1>3. ASSUME NEW e \in Deliveries, MatchBounce(e)
        PROVE  RowTouched(d)
    BY <1>3 DEF MatchBounce, RowTouched, RowUnchanged
  <1>4. ASSUME NEW e \in Deliveries, Age(e)
        PROVE  RowTouched(d)
    BY <1>4 DEF Age, RowTouched, RowUnchanged, RowAged
  <1>5. CASE ApplyBounce
    BY <1>5 DEF ApplyBounce, RowTouched, RowUnchanged, RowBounced
  <1>6. CASE SweepRead
    BY <1>6 DEF SweepRead, RowTouched, RowUnchanged
  <1>7. CASE SweepClear
    BY <1>7 DEF SweepClear, Stale, RowTouched, RowUnchanged, RowCleared
  <1> QED BY <1>1, <1>2, <1>3, <1>4, <1>5, <1>6, <1>7 DEF OtherStep

\* A step of anybody but a request, one row.
LEMMA WrittenStep ==
  ASSUME TypeOK, [Next]_vars, ~\E r \in Requests : RequestStep(r),
         NEW d \in Deliveries
  PROVE  RowWritten(d)
PROOF
  <1> USE DEF TypeOK, RowType
  <1>1. CASE UNCHANGED vars
    BY <1>1 DEF vars, rowVars, RowWritten, RowTouched, RowUnchanged
  <1>2. ASSUME NEW s \in Senders, AttemptStep(s)
        PROVE  RowWritten(d)
    BY <1>2, AttemptRowChange DEF RowWritten, RowTouched
  <1>3. ASSUME NEW s \in Senders,
               \/ DrainClaim(s) \/ (\E c \in todo[s] : DrainOwn(s, c))
               \/ \E e \in Deliveries : RetryStart(s, e)
               \/ FaultStep(s)
        PROVE  RowWritten(d)
    BY <1>3 DEF DrainClaim, DrainOwn, RetryStart, FaultStep, LoseSession, Crash,
                AnswerLost, RecordFails, rowVars, RowWritten, RowTouched, RowUnchanged
  <1>4. CASE OtherStep
    BY <1>4, OthersRowChange DEF RowWritten
  <1> QED BY <1>1, <1>2, <1>3, <1>4 DEF Next, WorkerStep, OtherStep, Senders

\* One step, one row.
LEMMA StepRowChange ==
  ASSUME TypeOK, [Next]_vars, NEW d \in Deliveries
  PROVE  RowChange(d)
PROOF
  BY RequestRowChange, WrittenStep DEF RowChange, RowWritten, RowTouched

-----------------------------------------------------------------------------
\* What the others write never brings a message back, never makes a row wait
\* that did not wait, and never reports a success.
LEMMA OthersRowFields ==
  ASSUME NEW x \in Rows
  PROVE  /\ Stopped(x).recipient = x.recipient /\ Stopped(x).snapshot = x.snapshot
         /\ Stopped(x).status = "cancelled"
         /\ Bounced(x).recipient = x.recipient /\ Bounced(x).snapshot = x.snapshot
         /\ Bounced(x).status = "bounced"
         /\ Cleared(x).recipient = x.recipient /\ ~Cleared(x).snapshot
         /\ Cleared(x).status = x.status /\ ~Cleared(x).retryable
         /\ ~Emptied(x).recipient /\ ~Emptied(x).snapshot
         /\ Emptied(x).status # "queued"
         /\ ~(Emptied(x).status = "failed" /\ Emptied(x).retryable)
         /\ Emptied(x).status \in {x.status, "cancelled"}
PROOF
  <1>1. /\ Stopped(x).recipient = x.recipient /\ Stopped(x).snapshot = x.snapshot
        /\ Stopped(x).status = "cancelled"
    BY Zenon DEF Rows, Stopped
  <1>2. /\ Bounced(x).recipient = x.recipient /\ Bounced(x).snapshot = x.snapshot
        /\ Bounced(x).status = "bounced"
    BY Zenon DEF Rows, Bounced
  <1>3. /\ Cleared(x).recipient = x.recipient /\ ~Cleared(x).snapshot
        /\ Cleared(x).status = x.status /\ ~Cleared(x).retryable
    BY DEF Rows, Cleared
  <1>4. CASE x.status = "queued" \/ (x.status = "failed" /\ x.retryable)
    <2>1. Emptied(x) = [x EXCEPT !.status = "cancelled", !.retryable = FALSE,
                          !.recipient = FALSE, !.snapshot = FALSE, !.aged = FALSE]
      BY <1>4 DEF Emptied
    <2>2. /\ Emptied(x).status = "cancelled"
          /\ Emptied(x).recipient = FALSE /\ Emptied(x).snapshot = FALSE
      BY <2>1, Zenon DEF Rows
    <2> QED BY <1>1, <1>2, <1>3, <2>2
  <1>5. CASE ~(x.status = "queued" \/ (x.status = "failed" /\ x.retryable))
    <2>1. Emptied(x) = [x EXCEPT !.recipient = FALSE, !.snapshot = FALSE]
      BY <1>5 DEF Emptied
    <2>2. /\ Emptied(x).status = x.status /\ Emptied(x).retryable = x.retryable
          /\ Emptied(x).recipient = FALSE /\ Emptied(x).snapshot = FALSE
      BY <2>1, Zenon DEF Rows
    <2> QED BY <1>1, <1>2, <1>3, <1>5, <2>2
  <1> QED BY <1>4, <1>5

\* A row never used holds nothing.
UnusedIsBlank == \A d \in Deliveries : row[d].status = "none" => row[d] = NoRow

\* No step but an erasure stamps anybody; an erasure empties every used row of
\* the person.
LEMMA ErasureStep ==
  ASSUME TypeOK, [Next]_vars, NEW d \in Deliveries
  PROVE  \/ Owner(d) \in erased' <=> Owner(d) \in erased
         \/ RowEmptied(d) \/ (row[d].status = "none" /\ RowUnchanged(d))
PROOF
  <1>1. CASE erased' = erased
    BY <1>1
  <1>2. ASSUME NEW a \in Attendees, Erase(a)
        PROVE  \/ Owner(d) \in erased' <=> Owner(d) \in erased
               \/ RowEmptied(d) \/ (row[d].status = "none" /\ RowUnchanged(d))
    BY <1>2 DEF Erase, RowEmptied, RowUnchanged
  <1>3. erased' = erased \/ \E a \in Attendees : Erase(a)
    <2>1. ASSUME NEW r \in Requests, RequestStep(r)  PROVE erased' = erased
      BY <2>1 DEF RequestStep, BeginSend, CreateResend, CreateInitial, ClassifyExisting,
                  RetryExisting, ReclaimCancelled, SenderSideUnchanged
    <2>2. ASSUME NEW s \in Senders, AttemptStep(s)  PROVE erased' = erased
      BY <2>2 DEF AttemptStep, Obstructed, RetryGivesUp, CheckBeforeSend, HandOver,
                  ProviderAnswers, ProviderThrows, ConfirmOwned, Abort, Record, rowVars
    <2>3. ASSUME NEW w \in Workers, WorkerStep(w)  PROVE erased' = erased
      <3>1. CASE AttemptStep(w)
        BY <2>2, <3>1 DEF Senders
      <3> QED BY <2>3, <3>1 DEF WorkerStep, DrainClaim, DrainOwn, rowVars
    <2>4. ASSUME NEW s \in Retriers, NEW x \in Deliveries, RetryStart(s, x)  PROVE erased' = erased
      BY <2>4 DEF RetryStart, rowVars
    <2>5. ASSUME NEW s \in Senders, FaultStep(s)  PROVE erased' = erased
      BY <2>5 DEF FaultStep, LoseSession, Crash, AnswerLost, RecordFails, rowVars
    <2>6. ASSUME NEW r \in Requests, StopBatch(r)  PROVE erased' = erased
      BY <2>6 DEF StopBatch
    <2>7. ASSUME NEW x \in Deliveries, MatchBounce(x) \/ Age(x)  PROVE erased' = erased
      BY <2>7 DEF MatchBounce, Age
    <2>8. ASSUME ApplyBounce \/ SweepRead \/ SweepClear  PROVE erased' = erased
      BY <2>8 DEF ApplyBounce, SweepRead, SweepClear
    <2>9. CASE UNCHANGED vars
      BY <2>9 DEF vars
    <2> QED BY <2>1, <2>2, <2>3, <2>4, <2>5, <2>6, <2>7, <2>8, <2>9 DEF Next, Senders
  <1> QED BY <1>1, <1>2, <1>3

\* Erasure is final: whatever was rendered, claimed or in flight before it, no
\* row of an erased person gets a message back or waits to be sent.
THEOREM ErasureIsFinal == Spec => []ErasedStaysEmptied
PROOF
  <1> DEFINE IInv == UnusedIsBlank /\ ErasedStaysEmptied
  <1>1. Init => IInv
    BY DEF Init, UnusedIsBlank, ErasedStaysEmptied
  <1>2. TypeOK /\ IInv /\ [Next]_vars => IInv'
    <2> SUFFICES ASSUME TypeOK, UnusedIsBlank, ErasedStaysEmptied, [Next]_vars,
                        NEW d \in Deliveries
                 PROVE  /\ row'[d].status = "none" => row'[d] = NoRow
                        /\ Owner(d) \in erased' =>
                             /\ ~row'[d].recipient /\ ~row'[d].snapshot
                             /\ row'[d].status # "queued" /\ ~Retryable(d)'
      BY DEF UnusedIsBlank, ErasedStaysEmptied
    <2>0. row[d] \in Rows
      BY DEF TypeOK, RowType
    <2>1. RowChange(d)
      BY StepRowChange
    <2>2. \/ Owner(d) \in erased' <=> Owner(d) \in erased
          \/ RowEmptied(d) \/ (row[d].status = "none" /\ RowUnchanged(d))
      BY ErasureStep
    <2>3. CASE RowUnchanged(d) /\ ~RowEmptied(d)
      <3>1. row'[d] = row[d] /\ (row[d].status = "none" => row[d] = NoRow)
        BY <2>3 DEF RowUnchanged, UnusedIsBlank
      <3>2. CASE row[d].status = "none"
        BY <3>1, <3>2 DEF NoRow, Retryable
      <3>3. CASE row[d].status # "none"
        <4>1. Owner(d) \in erased' <=> Owner(d) \in erased
          BY <2>2, <2>3, <3>3
        <4> QED BY <3>1, <3>3, <4>1 DEF ErasedStaysEmptied, Retryable
      <3> QED BY <3>2, <3>3
    <2>4. CASE RowClaimed(d)
      BY <2>2, <2>4, <2>0, OthersRowFields
         DEF RowClaimed, RowEmptied, RowUnchanged, Queued, Retryable
    <2>5. CASE RowRequeued(d)
      <3>1. Owner(d) \notin erased /\ row[d].status = "failed"
        BY <2>5 DEF RowRequeued, Retryable, ErasedStaysEmptied
      <3>2. row'[d].status = "queued"
        BY <2>0, <2>5, RequeuedType DEF RowRequeued
      <3> QED BY <2>0, <2>2, <3>1, <3>2, OthersRowFields DEF RowEmptied
    <2>6. CASE RowRecorded(d)
      <3>1. PICK s \in Senders :
              /\ phase[s] = "recording" /\ job[s].id = d
              /\ SameAttempt(job[s])
              /\ row'[d] = Recorded(s, row[d], outcome[s])
        BY <2>6 DEF RowRecorded
      <3>2. Owner(d) \notin erased /\ row[d].status # "none"
        BY <3>1 DEF SameAttempt, HasSnapshot, ErasedStaysEmptied, UnusedIsBlank, NoRow
      <3>3. row'[d].status # "none"
        <4>1. outcome[s] \in Outcomes
          BY DEF TypeOK, SenderType
        <4> QED BY <2>0, <3>1, <3>2, <4>1, RecordedType
      <3> QED BY <2>0, <2>2, <3>2, <3>3, OthersRowFields
              DEF RowEmptied, RowUnchanged, Retryable
    <2>7. CASE RowStopped(d) \/ RowBounced(d) \/ RowCleared(d)
      BY <2>0, <2>2, <2>7, OthersRowFields
         DEF RowStopped, RowBounced, RowCleared, RowEmptied, RowUnchanged,
             NonTerminal, Retryable, ErasedStaysEmptied
    <2>8. CASE RowEmptied(d)
      BY <2>0, <2>8, OthersRowFields DEF RowEmptied, Retryable
    <2>9. CASE RowAged(d)
      BY <2>0, <2>2, <2>9, OthersRowFields
         DEF RowAged, RowEmptied, RowUnchanged, Rows, Retryable, ErasedStaysEmptied
    <2> QED BY <2>1, <2>3, <2>4, <2>5, <2>6, <2>7, <2>8, <2>9
            DEF RowChange, RowWritten, RowTouched
  <1>3. IInv => ErasedStaysEmptied
    OBVIOUS
  <1> QED BY <1>1, <1>2, <1>3, TypeCorrect, PTL DEF Spec

-----------------------------------------------------------------------------
\* A mail taken is one more for its claim and none for the others.
LEMMA TakenCounts ==
  ASSUME HistoryType, NEW j, j.id \in Deliveries, j.revision \in 1..MaxRevision,
         accepts' = Taken(j), NEW d \in Deliveries, NEW v \in 1..MaxRevision
  PROVE  accepts'[d][v] =
           accepts[d][v] + (IF j.id = d /\ j.revision = v THEN 1 ELSE 0)
PROOF
  <1>1. /\ accepts[j.id] \in [1..MaxRevision -> Nat]
        /\ accepts[d] \in [1..MaxRevision -> Nat]
    BY DEF HistoryType
  <1> DEFINE old == accepts[j.id][j.revision]
             mails == [accepts[j.id] EXCEPT ![j.revision] = old + 1]
  <1>2. accepts[d][v] \in Nat
    BY <1>1, Zenon
  <1>3. accepts' = [accepts EXCEPT ![j.id] = mails]
    BY Zenon DEF Taken
  <1>4. mails[j.revision] = old + 1
    BY <1>1, Zenon
  <1>5. v # j.revision => mails[v] = accepts[j.id][v]
    BY <1>1, Zenon
  <1>6. accepts'[j.id] = mails /\ (d # j.id => accepts'[d] = accepts[d])
    <2> HIDE DEF mails
    <2> QED BY <1>3 DEF HistoryType
  <1>7. CASE d # j.id
    <2>1. accepts'[d][v] = accepts[d][v]
      BY <1>6, <1>7
    <2> QED BY <1>2, <1>7, <2>1
  <1>8. CASE d = j.id /\ v # j.revision
    <2>1. accepts'[d][v] = accepts[d][v]
      BY <1>5, <1>6, <1>8
    <2> QED BY <1>2, <1>8, <2>1
  <1>9. CASE d = j.id /\ v = j.revision
    <2>1. accepts'[d][v] = accepts[d][v] + 1
      BY <1>4, <1>6, <1>9
    <2> QED BY <1>9, <2>1
  <1> QED BY <1>7, <1>8, <1>9

\* So it raises the count of that mail's claim and lowers no other.
LEMMA TakenGrows ==
  ASSUME HistoryType, NEW j, j.id \in Deliveries, j.revision \in 1..MaxRevision,
         accepts' = Taken(j), NEW d \in Deliveries, NEW v \in 1..MaxRevision
  PROVE  /\ accepts'[j.id][j.revision] > 0
         /\ accepts'[d][v] >= accepts[d][v]
PROOF
  <1>1. /\ accepts[j.id] \in [1..MaxRevision -> Nat]
        /\ accepts[d] \in [1..MaxRevision -> Nat]
    BY DEF HistoryType
  <1>2. accepts[j.id][j.revision] \in Nat /\ accepts[d][v] \in Nat
    BY <1>1, Zenon
  <1>3. accepts'[j.id][j.revision] = accepts[j.id][j.revision] + 1
    BY TakenCounts
  <1>4. accepts'[d][v] \in {accepts[d][v], accepts[d][v] + 1}
    BY <1>2, TakenCounts
  <1> QED BY <1>2, <1>3, <1>4

\* The counts of taken mails change only with a mail being taken.
LEMMA AcceptsStep ==
  ASSUME TypeOK, [Next]_vars
  PROVE  \/ UNCHANGED accepts
         \/ \E s \in Senders : /\ phase[s] = "sending"
                               /\ accepts' = Taken(job[s])
PROOF
  <1>1. CASE UNCHANGED vars
    BY <1>1 DEF vars
  <1>2. ASSUME NEW r \in Requests, RequestStep(r)
        PROVE  UNCHANGED accepts
    BY <1>2 DEF RequestStep, BeginSend, CreateResend, CreateInitial,
                ClassifyExisting, RetryExisting, ReclaimCancelled,
                SenderSideUnchanged
  <1>3. ASSUME NEW s \in Senders,
               \/ DrainClaim(s) \/ (\E c \in todo[s] : DrainOwn(s, c))
               \/ \E e \in Deliveries : RetryStart(s, e)
        PROVE  UNCHANGED accepts
    BY <1>3 DEF DrainClaim, DrainOwn, RetryStart
  <1>4. ASSUME NEW s \in Senders, AttemptStep(s)
        PROVE  UNCHANGED accepts \/ (phase[s] = "sending" /\ accepts' = Taken(job[s]))
    BY <1>4 DEF AttemptStep, Obstructed, RetryGivesUp, CheckBeforeSend, HandOver,
                ProviderAnswers, ProviderThrows, ConfirmOwned, Abort, Record
  <1>5. ASSUME NEW s \in Senders, FaultStep(s)
        PROVE  UNCHANGED accepts \/ (phase[s] = "sending" /\ accepts' = Taken(job[s]))
    BY <1>5 DEF FaultStep, LoseSession, Crash, AnswerLost, RecordFails
  <1>6. CASE OtherStep
    BY <1>6 DEF OtherStep, StopBatch, Erase, MatchBounce, Age, ApplyBounce,
                SweepRead, SweepClear, OthersUnchanged
  <1> QED BY <1>1, <1>2, <1>3, <1>4, <1>5, <1>6
          DEF Next, WorkerStep, OtherStep, Senders

\* A sender that comes back with a success has mailed the row it holds.
AnswerWasTaken ==
  \A s \in Senders :
    phase[s] \in {"answered", "recording"} /\ outcome[s] \in Success =>
      accepts[job[s].id][job[s].revision] > 0

\* A sender holds a success only if it had it before, for the same row, or the
\* provider has just given it.
LEMMA SuccessStep ==
  ASSUME TypeOK, [Next]_vars, NEW s \in Senders,
         phase'[s] \in {"answered", "recording"}, outcome'[s] \in Success
  PROVE  /\ job'[s] = job[s]
         /\ \/ phase[s] \in {"answered", "recording"} /\ outcome[s] \in Success
            \/ phase[s] = "sending" /\ accepts' = Taken(job[s])
PROOF
  <1> USE DEF TypeOK, SenderType
  <1>1. CASE UNCHANGED senderVars
    BY <1>1 DEF senderVars
  <1>2. ASSUME NEW r \in Requests, RequestStep(r)
        PROVE  UNCHANGED senderVars
    BY <1>2 DEF RequestStep, BeginSend, CreateResend, CreateInitial,
                ClassifyExisting, RetryExisting, ReclaimCancelled,
                SenderSideUnchanged, senderVars
  <1>3. ASSUME NEW q \in Senders,
               \/ DrainClaim(q) \/ (\E c \in todo[q] : DrainOwn(q, c))
               \/ \E e \in Deliveries : RetryStart(q, e)
        PROVE  /\ job'[s] = job[s]
               /\ phase[s] \in {"answered", "recording"} /\ outcome[s] \in Success
    BY <1>3 DEF DrainClaim, DrainOwn, RetryStart
  <1>4. ASSUME NEW q \in Senders, AttemptStep(q)
        PROVE  /\ job'[s] = job[s]
               /\ \/ phase[s] \in {"answered", "recording"} /\ outcome[s] \in Success
                  \/ phase[s] = "sending" /\ accepts' = Taken(job[s])
    BY <1>4 DEF AttemptStep, Obstructed, Obstacles, RetryGivesUp, CheckBeforeSend,
                HandOver, ProviderAnswers, ProviderThrows, ConfirmOwned, Abort,
                Record, Finish, Success
  <1>5. ASSUME NEW q \in Senders, FaultStep(q)
        PROVE  /\ job'[s] = job[s]
               /\ phase[s] \in {"answered", "recording"} /\ outcome[s] \in Success
    BY <1>5 DEF FaultStep, LoseSession, Crash, AnswerLost, RecordFails, Finish,
                Success
  <1>6. CASE OtherStep
    BY <1>6 DEF OtherStep, StopBatch, Erase, MatchBounce, Age, ApplyBounce,
                SweepRead, SweepClear, OthersUnchanged, senderVars
  <1>7. CASE UNCHANGED vars
    BY <1>7 DEF vars, senderVars
  <1> QED BY <1>1, <1>2, <1>3, <1>4, <1>5, <1>6, <1>7
          DEF Next, WorkerStep, OtherStep, Senders

\* A recorded success always stands for a mail the provider took under the
\* row's present claim, however late the answer and whoever recorded it.
THEOREM SuccessIsReal == Spec => []SuccessWasMailed
PROOF
  <1> DEFINE IInv == SuccessWasMailed /\ AnswerWasTaken
  <1>1. Init => IInv
    BY DEF Init, SuccessWasMailed, AnswerWasTaken, NoRow, Success
  <1>2. TypeOK /\ IInv /\ [Next]_vars => IInv'
    <2> SUFFICES ASSUME TypeOK, SuccessWasMailed, AnswerWasTaken, [Next]_vars
                 PROVE  SuccessWasMailed' /\ AnswerWasTaken'
      OBVIOUS
    <2>0. RowType /\ SenderType /\ HistoryType
      BY DEF TypeOK
    <2>1. ASSUME NEW d \in Deliveries, NEW v \in 1..MaxRevision, accepts[d][v] > 0
          PROVE  accepts'[d][v] > 0
      <3>1. CASE UNCHANGED accepts
        BY <2>1, <3>1
      <3>2. ASSUME NEW s \in Senders, phase[s] = "sending", accepts' = Taken(job[s])
            PROVE  accepts'[d][v] > 0
        <4>1. accepts'[d][v] >= accepts[d][v]
          BY <2>0, <3>2, JobType, TakenGrows
        <4>2. accepts[d][v] \in Nat
          BY <2>0, Zenon DEF HistoryType
        <4>3. accepts'[d][v] \in Nat
          <5>1. accepts' \in [Deliveries -> [1..MaxRevision -> Nat]]
            BY <2>0, <3>2, JobType, TakenType
          <5> QED BY <5>1, Zenon
        <4> QED BY <2>1, <4>1, <4>2, <4>3
      <3> QED BY <3>1, <3>2, AcceptsStep
    <2>2. ASSUME NEW s \in Senders, phase'[s] \in {"answered", "recording"},
                 outcome'[s] \in Success
          PROVE  accepts'[job'[s].id][job'[s].revision] > 0
      <3>1. /\ job'[s] = job[s]
            /\ \/ phase[s] \in {"answered", "recording"} /\ outcome[s] \in Success
               \/ phase[s] = "sending" /\ accepts' = Taken(job[s])
        BY <2>2, SuccessStep
      <3>2. job[s].id \in Deliveries /\ job[s].revision \in 1..MaxRevision
        BY <2>0, <3>1, JobType
      <3>3. CASE phase[s] \in {"answered", "recording"} /\ outcome[s] \in Success
        BY <2>1, <3>1, <3>2, <3>3 DEF AnswerWasTaken
      <3>4. CASE phase[s] = "sending" /\ accepts' = Taken(job[s])
        BY <2>0, <3>1, <3>2, <3>4, TakenGrows
      <3> QED BY <3>1, <3>3, <3>4
    <2>3. ASSUME NEW d \in Deliveries, row'[d].status \in Success
          PROVE  accepts'[d][row'[d].revision] > 0
      <3>0. row[d] \in Rows
        BY <2>0 DEF RowType
      <3>1. RowChange(d)
        BY StepRowChange
      <3>2. ASSUME row'[d].revision = row[d].revision, row[d].status \in Success
            PROVE  accepts'[d][row'[d].revision] > 0
        <4>1. row[d].revision \in 1..MaxRevision
          BY <2>0, <3>2, RevisionRange DEF Success
        <4> QED BY <2>1, <3>2, <4>1 DEF SuccessWasMailed
      <3>3. CASE RowUnchanged(d)
        BY <2>3, <3>2, <3>3 DEF RowUnchanged
      <3>4. CASE RowClaimed(d) \/ RowRequeued(d)
        <4>1. row'[d].status = "queued"
          <5>1. CASE RowClaimed(d)
            BY <5>1 DEF RowClaimed, Queued
          <5>2. CASE RowRequeued(d)
            <6>1. PICK r \in Requests : row'[d] = Requeued(row[d], r)
              BY <5>2 DEF RowRequeued
            <6>2. Requeued(row[d], r).status = "queued"
              BY <3>0, <5>2, RequeuedType DEF RowRequeued
            <6> QED BY <6>1, <6>2
          <5> QED BY <3>4, <5>1, <5>2
        <4> QED BY <2>3, <4>1 DEF Success
      <3>5. CASE RowRecorded(d)
        <4>1. PICK s \in Senders :
                /\ phase[s] = "recording" /\ job[s].id = d
                /\ SameAttempt(job[s])
                /\ row'[d] = Recorded(s, row[d], outcome[s])
          BY <3>5 DEF RowRecorded
        <4>2. outcome[s] \in Outcomes
          BY <2>0 DEF SenderType
        <4>3. /\ row'[d].revision = row[d].revision
              /\ outcome[s] \in Success \/ row[d].status \in Success
          BY <2>3, <3>0, <4>1, <4>2, RecordedType
        <4>4. CASE outcome[s] \in Success
          <5>1. accepts[d][job[s].revision] > 0
            BY <4>1, <4>4 DEF AnswerWasTaken
          <5>2. job[s].revision \in 1..MaxRevision
            BY <2>0, <4>1, JobType
          <5> QED BY <2>1, <4>1, <4>3, <5>1, <5>2 DEF SameAttempt
        <4>5. CASE row[d].status \in Success
          BY <3>2, <4>3, <4>5
        <4> QED BY <4>3, <4>4, <4>5
      <3>6. CASE RowStopped(d) \/ RowBounced(d)
        BY <2>3, <3>0, <3>6, OthersRowFields DEF RowStopped, RowBounced, Success
      <3>7. CASE RowEmptied(d)
        <4>1. /\ Emptied(row[d]).revision = row[d].revision
              /\ Emptied(row[d]).status \in {row[d].status, "cancelled"}
          BY <3>0, OthersRowFields, OthersRowType
        <4>2. row'[d] = Emptied(row[d])
          BY <3>7 DEF RowEmptied
        <4> QED BY <2>3, <3>2, <4>1, <4>2 DEF Success
      <3>8. CASE RowCleared(d) \/ RowAged(d)
        <4>1. /\ row'[d].revision = row[d].revision
              /\ row'[d].status = row[d].status
          <5>1. CASE RowCleared(d)
            <6>1. /\ Cleared(row[d]).revision = row[d].revision
                  /\ Cleared(row[d]).status = row[d].status
              BY <3>0, OthersRowFields, OthersRowType
            <6> QED BY <5>1, <6>1 DEF RowCleared
          <5>2. CASE RowAged(d)
            BY <3>0, <5>2 DEF RowAged, Rows
          <5> QED BY <3>8, <5>1, <5>2
        <4> QED BY <2>3, <3>2, <4>1
      <3> QED BY <3>1, <3>3, <3>4, <3>5, <3>6, <3>7, <3>8
              DEF RowChange, RowWritten, RowTouched
    <2> QED BY <2>2, <2>3 DEF SuccessWasMailed, AnswerWasTaken
  <1>3. IInv => SuccessWasMailed
    OBVIOUS
  <1> QED BY <1>1, <1>2, <1>3, TypeCorrect, PTL DEF Spec

-----------------------------------------------------------------------------
\* Queueing a row again and letting it age keep its message.
LEMMA WaitingRowFields ==
  ASSUME NEW x \in Rows
  PROVE  /\ \A r : /\ Requeued(x, r).status = "queued"
                   /\ Requeued(x, r).revision = x.revision + 1
                   /\ Requeued(x, r).attempts = x.attempts
                   /\ Requeued(x, r).recipient = x.recipient
                   /\ Requeued(x, r).snapshot = x.snapshot
         /\ \A y : y = [x EXCEPT !.aged = TRUE] =>
                     /\ y.status = x.status /\ y.retryable = x.retryable
                     /\ y.revision = x.revision /\ y.attempts = x.attempts
                     /\ y.recipient = x.recipient /\ y.snapshot = x.snapshot
PROOF
  BY Zenon DEF Rows, Requeued

\* A row that waits to be sent, first time or again, still has its message:
\* neither retention, nor an erasure, nor a lost race leaves one queued that no
\* drain can take.
THEOREM NeverWaitsEmptied == Spec => []WaitingHasMessage
PROOF
  <1>1. Init => WaitingHasMessage
    BY DEF Init, WaitingHasMessage, NoRow, Retryable
  <1>2. TypeOK /\ WaitingHasMessage /\ [Next]_vars => WaitingHasMessage'
    <2> SUFFICES ASSUME TypeOK, WaitingHasMessage, [Next]_vars, NEW d \in Deliveries,
                        \/ row'[d].status = "queued"
                        \/ row'[d].status = "failed" /\ row'[d].retryable
                 PROVE  row'[d].recipient /\ row'[d].snapshot
      BY DEF WaitingHasMessage, Retryable, HasSnapshot
    <2>0. row[d] \in Rows
      BY DEF TypeOK, RowType
    <2>1. RowChange(d)
      BY StepRowChange
    <2>2. \/ row[d].status = "queued"
          \/ row[d].status = "failed" /\ row[d].retryable
          => row[d].recipient /\ row[d].snapshot
      BY DEF WaitingHasMessage, Retryable, HasSnapshot
    <2>3. CASE RowUnchanged(d)
      BY <2>2, <2>3 DEF RowUnchanged
    <2>4. CASE RowClaimed(d)
      BY <2>4 DEF RowClaimed, Queued
    <2>5. CASE RowRequeued(d)
      BY <2>0, <2>2, <2>5, WaitingRowFields DEF RowRequeued, Retryable
    <2>6. CASE RowRecorded(d)
      <3>1. PICK s \in Senders : /\ job[s].id = d /\ SameAttempt(job[s])
                                 /\ row'[d] = Recorded(s, row[d], outcome[s])
        BY <2>6 DEF RowRecorded
      <3>2. outcome[s] \in Outcomes
        BY DEF TypeOK, SenderType
      <3>3. /\ row'[d].recipient = row[d].recipient
            /\ row'[d].snapshot = row[d].snapshot
        BY <2>0, <3>1, <3>2, RecordedType
      <3> QED BY <3>1, <3>3 DEF SameAttempt, HasSnapshot
    <2>7. CASE RowStopped(d) \/ RowBounced(d) \/ RowEmptied(d)
      BY <2>0, <2>7, OthersRowFields DEF RowStopped, RowBounced, RowEmptied
    <2>8. CASE RowAged(d)
      BY <2>0, <2>2, <2>8, WaitingRowFields DEF RowAged
    <2>9. CASE RowCleared(d)
      BY <2>0, <2>9, OthersRowFields DEF RowCleared
    <2> QED BY <2>1, <2>3, <2>4, <2>5, <2>6, <2>7, <2>8, <2>9
            DEF RowChange, RowWritten, RowTouched
  <1> QED BY <1>1, <1>2, TypeCorrect, PTL DEF Spec

-----------------------------------------------------------------------------
(***************************************************************************)
(* The version of a row: queued_at (revision) and attempts together only   *)
(* move forward, so a copy of a row never runs ahead of it, and one that   *)
(* is behind stays behind.                                                 *)
(***************************************************************************)
\* The row is still in the version the copy was made of, or past it.
Current(j) == /\ row[j.id].revision = j.revision
              /\ row[j.id].attempts = j.attempts
Passed(j) == \/ row[j.id].revision > j.revision
             \/ /\ row[j.id].revision = j.revision
                /\ row[j.id].attempts > j.attempts

\* What may have become of a row since a sender copied it while it waited.
Trails(j) ==
  /\ j.status \in {"queued", "failed"}
  /\ \/ Passed(j)
     \/ /\ Current(j)
        /\ j.status = "queued" =>
             row[j.id].status \in {"queued", "cancelled", "bounced"}
        /\ j.status = "failed" =>
             \/ row[j.id].status = "failed"
             \/ row[j.id].status = "cancelled" /\ ~HasSnapshot(j.id)

\* Every copy a sender has trails its row; the retry command works on one
\* failed row and has nothing else in hand.
CopiesTrail ==
  \A s \in Senders :
    /\ \A c \in todo[s] : Trails(c)
    /\ job[s] # NoJob => Trails(job[s])
    /\ s \in Retriers =>
         todo[s] = {} /\ (job[s] # NoJob => job[s].status = "failed")

\* The request has not come to attendee a yet.
Pending(r, a) == \/ request[r].phase = "new"
                 \/ request[r].phase = "working" /\ a \in request[r].left

\* A resend has a row of its own, used by no one before its request comes to it.
ResendsUnused ==
  \A r \in Requests, a \in Attendees :
    Pending(r, a) => row[ResendOf(r, a)].status = "none"

\* A request that has found a taken slot is at work.
FoundAtWork ==
  \A r \in Requests : request[r].found # NoJob => request[r].phase = "working"

Versions == UnusedIsBlank /\ ResendsUnused /\ FoundAtWork /\ CopiesTrail

\* A new claim of a row that is free or was stopped.
RowNew(d) ==
  /\ row[d].status \in {"none", "cancelled"}
  /\ Owner(d) \notin erased
  /\ \E r \in Requests, v \in 1..MaxRevision :
       v > row[d].revision /\ row'[d] = Queued(r, v)

RowStep(d) == RowWritten(d) \/ RowNew(d) \/ RowRequeued(d)

\* An initial delivery is no resend, and no two resends share a row.
LEMMA IdentitiesDiffer ==
  ASSUME NEW r \in Requests, NEW a \in Attendees
  PROVE  /\ \A b \in Attendees : InitialOf(b) # ResendOf(r, a)
         /\ \A q \in Requests, b \in Attendees :
              ResendOf(q, b) = ResendOf(r, a) => q = r /\ b = a
PROOF
  BY MailAssumption DEF InitialOf, ResendOf, MailAssumption

\* With an attendee done, the request has nothing new to come to.
LEMMA NextAttendeePending ==
  ASSUME RequestType, NEW r \in Requests, NEW a \in Attendees,
         request[r].phase = "working", NextAttendee(r, a)
  PROVE  /\ ~Pending(r, a)'
         /\ request'[r].found = NoJob
         /\ \A q \in Requests : q # r => request'[q] = request[q]
         /\ \A b \in Attendees : Pending(r, b)' => Pending(r, b)
PROOF
  <1> DEFINE y == Advanced(request[r], a)
  <1>0. request[r] \in [phase : {"new", "working", "done"}, purpose : RequestPurposes,
                        completed : SUBSET Attendees, left : SUBSET Attendees,
                        found : Copies \cup {NoJob}]
    BY DEF RequestType
  <1>1. /\ y.left = request[r].left \ {a} /\ y.found = NoJob
        /\ y.phase = IF request[r].left = {a} THEN "done" ELSE "working"
    BY <1>0, Zenon DEF Advanced
  <1> HIDE DEF y
  <1>2. request' = [request EXCEPT ![r] = y]
    BY DEF NextAttendee, y
  <1>3. request'[r] = y /\ \A q \in Requests : q # r => request'[q] = request[q]
    BY <1>2 DEF RequestType
  <1> QED BY <1>1, <1>3 DEF Pending

\* What a request's step does to the rows, and to what it has still to come to.
LEMMA RequestClaims ==
  ASSUME TypeOK, UnusedIsBlank, ResendsUnused, FoundAtWork,
         NEW r \in Requests, RequestStep(r)
  PROVE  /\ \A d \in Deliveries : RowUnchanged(d) \/ RowNew(d) \/ RowRequeued(d)
         /\ \A q \in Requests, a \in Attendees :
              Pending(q, a)' => /\ Pending(q, a)
                                /\ row'[ResendOf(q, a)] = row[ResendOf(q, a)]
         /\ FoundAtWork'
PROOF
  <1> USE DEF TypeOK, RowType
  <1>0. 1 \in 1..MaxRevision
    BY MailAssumption DEF MailAssumption
  <1>1. CASE BeginSend(r)
    <2>0. PICK S \in SUBSET Attendees, p \in RequestPurposes :
               request' = [request EXCEPT ![r] =
                 [phase |-> "working", purpose |-> p, left |-> S, found |-> NoJob,
                  completed |-> IF p = "initial" THEN CompletedInitial(S) ELSE {}]]
      BY <1>1 DEF BeginSend
    <2>1. PICK C : request' = [request EXCEPT ![r] =
                     [phase |-> "working", purpose |-> p, left |-> S,
                      found |-> NoJob, completed |-> C]]
      BY <2>0
    <2>2. request[r].phase = "new" /\ row' = row
      BY <1>1 DEF BeginSend
    <2>3. FoundAtWork'
      BY <2>1 DEF FoundAtWork, RequestType
    <2>4. \A q \in Requests, a \in Attendees : Pending(q, a)' => Pending(q, a)
      BY <2>1, <2>2 DEF Pending, RequestType
    <2> QED BY <2>2, <2>3, <2>4 DEF RowUnchanged
  <1>2. ASSUME NEW a \in Attendees, NextAttendee(r, a),
               request[r].phase = "working",
               \A d \in Deliveries : RowUnchanged(d) \/ RowNew(d) \/ RowRequeued(d),
               \A e \in Deliveries : e \notin {InitialOf(a), ResendOf(r, a)} =>
                                       row'[e] = row[e]
        PROVE  /\ \A q \in Requests, b \in Attendees :
                    Pending(q, b)' => /\ Pending(q, b)
                                      /\ row'[ResendOf(q, b)] = row[ResendOf(q, b)]
               /\ FoundAtWork'
    <2>1. /\ ~Pending(r, a)' /\ request'[r].found = NoJob
          /\ \A q \in Requests : q # r => request'[q] = request[q]
          /\ \A b \in Attendees : Pending(r, b)' => Pending(r, b)
      BY <1>2, NextAttendeePending
    <2>2. FoundAtWork'
      BY <2>1 DEF FoundAtWork
    <2>3. ASSUME NEW q \in Requests, NEW b \in Attendees, Pending(q, b)'
          PROVE  Pending(q, b) /\ row'[ResendOf(q, b)] = row[ResendOf(q, b)]
      <3>1. Pending(q, b) /\ (q # r \/ b # a)
        BY <2>1, <2>3 DEF Pending
      <3>2. /\ ResendOf(q, b) \in Deliveries
            /\ ResendOf(q, b) \notin {InitialOf(a), ResendOf(r, a)}
        BY <3>1, IdentityType, IdentitiesDiffer
      <3> QED BY <1>2, <3>1, <3>2
    <2> QED BY <2>2, <2>3
  <1>3. ASSUME NEW a \in Attendees,
               CreateResend(r, a) \/ CreateInitial(r, a)
        PROVE  /\ \A d \in Deliveries :
                    RowUnchanged(d) \/ RowNew(d) \/ RowRequeued(d)
               /\ \A e \in Deliveries : e \notin {InitialOf(a), ResendOf(r, a)} =>
                                          row'[e] = row[e]
    <2>1. \E e \in {InitialOf(a), ResendOf(r, a)} :
            \/ row' = row
            \/ /\ row[e].status = "none" /\ a \notin erased
               /\ row' = [row EXCEPT ![e] = Queued(r, 1)]
      <3>1. CASE CreateInitial(r, a)
        BY <3>1 DEF CreateInitial
      <3>2. CASE CreateResend(r, a)
        <4>1. row[ResendOf(r, a)].status = "none"
          BY <3>2 DEF CreateResend, Claiming, ResendsUnused, Pending
        <4> QED BY <3>2, <4>1 DEF CreateResend
      <3> QED BY <1>3, <3>1, <3>2
    <2>2. PICK e \in {InitialOf(a), ResendOf(r, a)} :
            \/ row' = row
            \/ /\ row[e].status = "none" /\ a \notin erased
               /\ row' = [row EXCEPT ![e] = Queued(r, 1)]
      BY <2>1
    <2>3. e \in Deliveries /\ Owner(e) = a
      BY <2>2, IdentityType
    <2>4. CASE row' = row
      BY <2>4 DEF RowUnchanged
    <2>5. CASE /\ row[e].status = "none" /\ a \notin erased
               /\ row' = [row EXCEPT ![e] = Queued(r, 1)]
      <3>1. row[e] = NoRow
        BY <2>3, <2>5 DEF UnusedIsBlank
      <3>2. row[e].revision = 0
        BY <3>1 DEF NoRow
      <3>3. RowNew(e)
        BY <1>0, <2>3, <2>5, <3>2 DEF RowNew
      <3>4. \A d \in Deliveries : d # e => row'[d] = row[d]
        BY <2>5
      <3> QED BY <3>3, <3>4 DEF RowUnchanged
    <2> QED BY <2>2, <2>4, <2>5
  <1>4. ASSUME NEW a \in Attendees, ClassifyExisting(r, a)
        PROVE  /\ row' = row /\ FoundAtWork'
               /\ \A q \in Requests, b \in Attendees : Pending(q, b)' => Pending(q, b)
    <2>1. row' = row /\ request[r].phase = "working"
      BY <1>4 DEF ClassifyExisting, Claiming
    <2>2. CASE NextAttendee(r, a)
      <3>1. /\ request'[r].found = NoJob
            /\ \A q \in Requests : q # r => request'[q] = request[q]
            /\ \A b \in Attendees : Pending(r, b)' => Pending(r, b)
        BY <2>1, <2>2, NextAttendeePending
      <3> QED BY <2>1, <3>1 DEF FoundAtWork, Pending
    <2>3. CASE request' = [request EXCEPT ![r].found = Copy(InitialOf(a))]
      <3> DEFINE y == [request[r] EXCEPT !.found = Copy(InitialOf(a))]
      <3>1. request[r] \in [phase : {"new", "working", "done"},
                            purpose : RequestPurposes,
                            completed : SUBSET Attendees, left : SUBSET Attendees,
                            found : Copies \cup {NoJob}]
        BY DEF RequestType
      <3>2. y.phase = request[r].phase /\ y.left = request[r].left
        BY <3>1, Zenon
      <3>3. request' = [request EXCEPT ![r] = y]
        BY <2>3
      <3> HIDE DEF y
      <3>4. request'[r] = y /\ \A q \in Requests : q # r => request'[q] = request[q]
        BY <3>3 DEF RequestType
      <3> QED BY <2>1, <3>2, <3>4 DEF FoundAtWork, Pending
    <2> QED BY <1>4, <2>1, <2>2, <2>3 DEF ClassifyExisting
  <1>5. ASSUME NEW a \in Attendees,
               RetryExisting(r, a) \/ ReclaimCancelled(r, a)
        PROVE  /\ request[r].phase = "working"
               /\ \A d \in Deliveries :
                    RowUnchanged(d) \/ RowNew(d) \/ RowRequeued(d)
               /\ \A e \in Deliveries : e \notin {InitialOf(a), ResendOf(r, a)} =>
                                          row'[e] = row[e]
    <2> DEFINE e == InitialOf(a)
    <2>1. e \in Deliveries /\ row[e] \in Rows /\ Owner(e) = a
      BY IdentityType
    <2>2. request[r].phase = "working"
      <3>1. request[r].found # NoJob
        BY <1>5 DEF RetryExisting, ReclaimCancelled, NoJob
      <3> QED BY <3>1 DEF FoundAtWork
    <2>3. CASE RetryExisting(r, a)
      BY <2>1, <2>2, <2>3 DEF RetryExisting, RowUnchanged, RowRequeued
    <2>4. CASE ReclaimCancelled(r, a)
      <3>1. /\ row[e].revision + 1 \in 1..MaxRevision
            /\ row[e].revision + 1 > row[e].revision
        BY <2>1, <2>4, MailAssumption DEF ReclaimCancelled, Rows, MailAssumption
      <3>2. \/ row' = row
            \/ /\ a \notin erased /\ row[e].status = "cancelled"
               /\ row' = [row EXCEPT ![e] = Queued(r, row[e].revision + 1)]
        BY <2>4 DEF ReclaimCancelled
      <3> HIDE DEF e
      <3>3. CASE row' = row
        BY <2>2, <3>3 DEF RowUnchanged
      <3>4. CASE /\ a \notin erased /\ row[e].status = "cancelled"
                 /\ row' = [row EXCEPT ![e] = Queued(r, row[e].revision + 1)]
        <4>1. RowNew(e)
          BY <2>1, <3>1, <3>4 DEF RowNew
        <4>2. \A d \in Deliveries : d # e => row'[d] = row[d]
          BY <3>4
        <4> QED BY <2>2, <4>1, <4>2 DEF RowUnchanged, e
      <3> QED BY <3>2, <3>3, <3>4
    <2> QED BY <1>5, <2>3, <2>4
  <1>6. ASSUME NEW a \in Attendees,
               \/ CreateResend(r, a) \/ CreateInitial(r, a)
               \/ RetryExisting(r, a) \/ ReclaimCancelled(r, a)
        PROVE  NextAttendee(r, a) /\ request[r].phase = "working"
    BY <1>5, <1>6 DEF CreateResend, CreateInitial, RetryExisting, ReclaimCancelled,
                      Claiming
  <1>7. ASSUME NEW a \in Attendees, ClassifyExisting(r, a)
        PROVE  /\ \A d \in Deliveries : RowUnchanged(d)
               /\ \A q \in Requests, b \in Attendees :
                    Pending(q, b)' => /\ Pending(q, b)
                                      /\ row'[ResendOf(q, b)] = row[ResendOf(q, b)]
               /\ FoundAtWork'
    BY <1>4, <1>7 DEF RowUnchanged
  <1>8. ASSUME NEW a \in Attendees,
               \/ CreateResend(r, a) \/ CreateInitial(r, a)
               \/ RetryExisting(r, a) \/ ReclaimCancelled(r, a)
        PROVE  /\ \A d \in Deliveries :
                    RowUnchanged(d) \/ RowNew(d) \/ RowRequeued(d)
               /\ \A q \in Requests, b \in Attendees :
                    Pending(q, b)' => /\ Pending(q, b)
                                      /\ row'[ResendOf(q, b)] = row[ResendOf(q, b)]
               /\ FoundAtWork'
    BY <1>2, <1>3, <1>5, <1>6, <1>8
  <1> QED BY <1>1, <1>7, <1>8 DEF RequestStep

\* Only a request's own step changes a request.
LEMMA RequestUnchanged ==
  ASSUME [Next]_vars, ~\E r \in Requests : RequestStep(r)
  PROVE  request' = request
PROOF
  <1>1. ASSUME NEW s, AttemptStep(s)
        PROVE  request' = request
    BY <1>1 DEF AttemptStep, Obstructed, RetryGivesUp, CheckBeforeSend, HandOver,
                ProviderAnswers, ProviderThrows, ConfirmOwned, Abort, Record, rowVars
  <1>2. ASSUME NEW s,
               \/ DrainClaim(s) \/ (\E c \in todo[s] : DrainOwn(s, c))
               \/ \E e \in Deliveries : RetryStart(s, e)
               \/ FaultStep(s)
        PROVE  request' = request
    BY <1>2 DEF DrainClaim, DrainOwn, RetryStart, FaultStep, LoseSession, Crash,
                AnswerLost, RecordFails, rowVars
  <1>3. CASE OtherStep
    BY <1>3 DEF OtherStep, StopBatch, Erase, MatchBounce, Age, ApplyBounce,
                SweepRead, SweepClear, OthersUnchanged
  <1>4. CASE UNCHANGED vars
    BY <1>4 DEF vars
  <1> QED BY <1>1, <1>2, <1>3, <1>4 DEF Next, WorkerStep, OtherStep

\* What is written to a row by others leaves a row never used as it was, and
\* uses no new one.
LEMMA WrittenKeepsUnused ==
  ASSUME TypeOK, UnusedIsBlank, NEW d \in Deliveries, RowWritten(d)
  PROVE  /\ row[d].status = "none" => row'[d] = row[d]
         /\ row'[d].status = "none" => row'[d] = NoRow
PROOF
  <1>0. row[d] \in Rows /\ (row[d].status = "none" => row[d] = NoRow)
    BY DEF TypeOK, RowType, UnusedIsBlank
  <1>1. CASE RowUnchanged(d)
    BY <1>0, <1>1 DEF RowUnchanged
  <1>2. CASE RowRecorded(d)
    <2>1. PICK s \in Senders : /\ job[s].id = d /\ SameAttempt(job[s])
                               /\ row'[d] = Recorded(s, row[d], outcome[s])
      BY <1>2 DEF RowRecorded
    <2>2. row[d].status # "none"
      BY <1>0, <2>1 DEF SameAttempt, HasSnapshot, NoRow
    <2>3. outcome[s] \in Outcomes
      BY DEF TypeOK, SenderType
    <2> QED BY <1>0, <2>1, <2>2, <2>3, RecordedType
  <1>3. CASE RowStopped(d) \/ RowEmptied(d) \/ RowBounced(d) \/ RowCleared(d)
    BY <1>0, <1>3, OthersRowFields DEF RowStopped, RowEmptied, RowBounced,
                                       RowCleared, NonTerminal
  <1>4. CASE RowAged(d)
    BY <1>0, <1>4, WaitingRowFields DEF RowAged
  <1> QED BY <1>1, <1>2, <1>3, <1>4 DEF RowWritten, RowTouched

\* One step, one row, and the order in which requests come to their people.
LEMMA VersionStep ==
  ASSUME TypeOK, UnusedIsBlank, ResendsUnused, FoundAtWork, [Next]_vars
  PROVE  /\ \A d \in Deliveries : RowStep(d)
         /\ UnusedIsBlank' /\ ResendsUnused' /\ FoundAtWork'
PROOF
  <1>1. ASSUME \A d \in Deliveries : RowStep(d)
        PROVE  UnusedIsBlank'
    <2> SUFFICES ASSUME NEW d \in Deliveries, row'[d].status = "none"
                 PROVE  row'[d] = NoRow
      BY DEF UnusedIsBlank
    <2>0. row[d] \in Rows
      BY DEF TypeOK, RowType
    <2>1. CASE RowWritten(d)
      BY <2>1, WrittenKeepsUnused
    <2>2. CASE RowNew(d)
      BY <2>2 DEF RowNew, Queued
    <2>3. CASE RowRequeued(d)
      BY <2>0, <2>3, WaitingRowFields DEF RowRequeued
    <2> QED BY <1>1, <2>1, <2>2, <2>3 DEF RowStep
  <1>2. ASSUME NEW r \in Requests, RequestStep(r)
        PROVE  /\ \A d \in Deliveries : RowStep(d)
               /\ ResendsUnused' /\ FoundAtWork'
    BY <1>2, RequestClaims DEF RowStep, RowWritten, RowTouched, ResendsUnused
  <1>3. ASSUME ~\E r \in Requests : RequestStep(r)
        PROVE  /\ \A d \in Deliveries : RowStep(d)
               /\ ResendsUnused' /\ FoundAtWork'
    <2>1. \A d \in Deliveries : RowWritten(d)
      BY <1>3, WrittenStep
    <2>2. request' = request
      BY <1>3, RequestUnchanged
    <2>3. ASSUME NEW r \in Requests, NEW a \in Attendees, Pending(r, a)'
          PROVE  row'[ResendOf(r, a)].status = "none"
      <3>1. row[ResendOf(r, a)].status = "none"
        BY <2>2, <2>3 DEF Pending, ResendsUnused
      <3>2. row'[ResendOf(r, a)] = row[ResendOf(r, a)]
        BY <2>1, <3>1, WrittenKeepsUnused, IdentityType
      <3> QED BY <3>1, <3>2
    <2> QED BY <2>1, <2>2, <2>3 DEF RowStep, ResendsUnused, FoundAtWork
  <1> QED BY <1>1, <1>2, <1>3

-----------------------------------------------------------------------------
\* What others write to a row leaves the number of attempts alone.
LEMMA OthersRowVersion ==
  ASSUME NEW x \in Rows
  PROVE  /\ Stopped(x).attempts = x.attempts /\ Bounced(x).attempts = x.attempts
         /\ Cleared(x).attempts = x.attempts /\ Emptied(x).attempts = x.attempts
         /\ Emptied(x).status # x.status =>
              /\ x.status = "queued" \/ (x.status = "failed" /\ x.retryable)
              /\ Emptied(x).status = "cancelled"
PROOF
  <1>1. /\ Stopped(x).attempts = x.attempts /\ Bounced(x).attempts = x.attempts
        /\ Cleared(x).attempts = x.attempts
    BY Zenon DEF Rows, Stopped, Bounced, Cleared
  <1>2. CASE x.status = "queued" \/ (x.status = "failed" /\ x.retryable)
    <2>1. Emptied(x) = [x EXCEPT !.status = "cancelled", !.retryable = FALSE,
                          !.recipient = FALSE, !.snapshot = FALSE, !.aged = FALSE]
      BY <1>2 DEF Emptied
    <2>2. Emptied(x).attempts = x.attempts /\ Emptied(x).status = "cancelled"
      BY <2>1, Zenon DEF Rows
    <2> QED BY <1>1, <1>2, <2>2
  <1>3. CASE ~(x.status = "queued" \/ (x.status = "failed" /\ x.retryable))
    <2>1. Emptied(x) = [x EXCEPT !.recipient = FALSE, !.snapshot = FALSE]
      BY <1>3 DEF Emptied
    <2>2. Emptied(x).attempts = x.attempts /\ Emptied(x).status = x.status
      BY <2>1, Zenon DEF Rows
    <2> QED BY <1>1, <2>2
  <1> QED BY <1>2, <1>3

\* Recording an outcome counts the attempt.
LEMMA RecordedVersion ==
  ASSUME NEW s \in Senders, NEW x \in Rows, NEW o \in Outcomes
  PROVE  Recorded(s, x, o).attempts = x.attempts + 1
PROOF
  <1> DEFINE more == TriedAgain(s, x.attempts + 1)
             n == x.attempts + 1
  <1>1. \/ Recorded(s, x, o) = [x EXCEPT !.attempts = n]
        \/ Recorded(s, x, o) =
             [x EXCEPT !.status = o, !.attempts = n, !.aged = FALSE]
        \/ \E y \in {"rejected", "failed"}, b \in {FALSE, more} :
             Recorded(s, x, o) = [x EXCEPT !.status = y, !.retryable = b,
                                           !.attempts = n, !.aged = FALSE]
    BY DEF Recorded, Success
  <1> HIDE DEF more, n
  <1>2. Recorded(s, x, o).attempts = n
    BY <1>1, Zenon DEF Rows
  <1> QED BY <1>2 DEF n

\* A row's version only moves forward, and a step that leaves it where it is
\* leaves a copy of it as close to the truth as it was.
LEMMA TrailsKept ==
  ASSUME TypeOK, NEW j \in Copies, Trails(j), RowStep(j.id)
  PROVE  Trails(j)'
PROOF
  <1> DEFINE d == j.id
  <1>0. /\ d \in Deliveries /\ row[d] \in Rows
        /\ row[d].revision \in Nat /\ row[d].attempts \in Nat
        /\ j.revision \in Nat /\ j.attempts \in Nat
    BY MailAssumption DEF TypeOK, RowType, Copies, Rows, MailAssumption
  <1> DEFINE x == row[d]
  <1>a. /\ Stopped(x).status = "cancelled" /\ Bounced(x).status = "bounced"
        /\ Stopped(x).recipient = x.recipient /\ Stopped(x).snapshot = x.snapshot
        /\ Cleared(x).status = x.status /\ ~Cleared(x).snapshot
        /\ ~Emptied(x).snapshot
        /\ Emptied(x).status \in {x.status, "cancelled"}
    BY <1>0, OthersRowFields
  <1>b. /\ Stopped(x).revision = x.revision /\ Emptied(x).revision = x.revision
        /\ Bounced(x).revision = x.revision /\ Cleared(x).revision = x.revision
    BY <1>0, OthersRowType
  <1>c. /\ Stopped(x).attempts = x.attempts /\ Bounced(x).attempts = x.attempts
        /\ Cleared(x).attempts = x.attempts /\ Emptied(x).attempts = x.attempts
    BY <1>0, OthersRowVersion
  <1> HIDE DEF d
  <1>1. ASSUME row'[d].revision = row[d].revision,
               row'[d].attempts = row[d].attempts,
               \/ row'[d].status = row[d].status
               \/ /\ row[d].status = "queued"
                  /\ row'[d].status \in {"cancelled", "bounced"}
               \/ /\ row'[d].status = "cancelled"
                  /\ ~(row'[d].recipient /\ row'[d].snapshot)
               \/ row[d].status \in {"accepted", "sent"},
               \/ row'[d].status # "cancelled"
               \/ row'[d].recipient = row[d].recipient /\
                  (row'[d].snapshot => row[d].snapshot)
               \/ ~row'[d].snapshot
        PROVE  Trails(j)'
    BY <1>1, Zenon DEF Trails, Passed, Current, HasSnapshot, d
  <1>2. ASSUME row'[d].revision \in Nat, row'[d].revision > row[d].revision
        PROVE  Trails(j)'
    BY <1>0, <1>2 DEF Trails, Passed, Current, d
  <1>3. CASE RowUnchanged(d)
    BY <1>1, <1>3 DEF RowUnchanged
  <1>4. CASE RowRecorded(d)
    <2>1. PICK s \in Senders : row'[d] = Recorded(s, row[d], outcome[s])
      BY <1>4 DEF RowRecorded
    <2>2. outcome[s] \in Outcomes
      BY DEF TypeOK, SenderType
    <2>3. /\ row'[d].revision = row[d].revision
          /\ row'[d].attempts = row[d].attempts + 1
      BY <1>0, <2>1, <2>2, RecordedType, RecordedVersion
    <2> QED BY <1>0, <2>3 DEF Trails, Passed, Current, d
  <1>5. CASE RowStopped(d)
    BY <1>1, <1>5, <1>a, <1>b, <1>c DEF RowStopped
  <1>6. CASE RowEmptied(d)
    <2>1. /\ row'[d].revision = row[d].revision
          /\ row'[d].attempts = row[d].attempts
          /\ ~row'[d].snapshot
          /\ row'[d].status # row[d].status => row'[d].status = "cancelled"
      BY <1>6, <1>a, <1>b, <1>c DEF RowEmptied
    <2> QED BY <1>1, <2>1
  <1>7. CASE RowBounced(d)
    <2>1. /\ row'[d].revision = row[d].revision
          /\ row'[d].attempts = row[d].attempts
          /\ row'[d].status = "bounced"
          /\ row[d].status \in {"queued", "accepted", "sent"}
      BY <1>7, <1>a, <1>b, <1>c DEF RowBounced, NonTerminal
    <2> QED BY <1>1, <2>1
  <1>8. CASE RowAged(d)
    <2>1. /\ row'[d].revision = row[d].revision
          /\ row'[d].attempts = row[d].attempts
          /\ row'[d].status = row[d].status
          /\ row'[d].recipient = row[d].recipient
          /\ row'[d].snapshot = row[d].snapshot
      BY <1>0, <1>8, WaitingRowFields DEF RowAged
    <2> QED BY <1>1, <2>1
  <1>9. CASE RowCleared(d)
    <2>1. /\ row'[d].revision = row[d].revision
          /\ row'[d].attempts = row[d].attempts
          /\ row'[d].status = row[d].status
          /\ ~row'[d].snapshot
      BY <1>9, <1>a, <1>b, <1>c DEF RowCleared
    <2> QED BY <1>1, <2>1
  <1>10. CASE RowNew(d)
    <2>1. PICK r \in Requests, v \in 1..MaxRevision :
            v > row[d].revision /\ row'[d] = Queued(r, v)
      BY <1>10 DEF RowNew
    <2>2. row'[d].revision = v /\ v \in Nat
      BY <2>1, MailAssumption DEF Queued, MailAssumption
    <2> QED BY <1>2, <2>1, <2>2
  <1>11. CASE RowRequeued(d)
    <2>1. row'[d].revision = row[d].revision + 1
      BY <1>0, <1>11, WaitingRowFields DEF RowRequeued
    <2> QED BY <1>0, <1>2, <2>1
  <1> QED BY <1>3, <1>4, <1>5, <1>6, <1>7, <1>8, <1>9, <1>10, <1>11
          DEF RowStep, RowWritten, RowTouched, d

\* A copy just made of a waiting row trails it.
LEMMA FreshTrails ==
  ASSUME NEW d \in Deliveries, row[d].status = "queued" \/ Retryable(d)
  PROVE  Trails(Copy(d))
PROOF
  BY DEF Trails, Current, Copy, Retryable

\* Where a sender's copies come from: it had them, or it has just made them of
\* rows that wait; the retry command takes one failed row.
LEMMA CopiesStep ==
  ASSUME TypeOK, CopiesTrail, [Next]_vars, NEW s \in Senders
  PROVE  /\ \A c \in todo'[s] :
              \/ c \in todo[s]
              \/ /\ s \in Workers /\ row' = row
                 /\ \E d \in Deliveries :
                      c = Copy(d) /\ (row[d].status = "queued" \/ Retryable(d))
         /\ \/ job'[s] \in {job[s], NoJob}
            \/ s \in Workers /\ job'[s] \in todo[s]
            \/ /\ row' = row
               /\ \E d \in Deliveries : job'[s] = Copy(d) /\ Retryable(d)
PROOF
  <1> USE DEF TypeOK, SenderType, rowVars
  <1>1. CASE UNCHANGED senderVars
    BY <1>1 DEF senderVars
  <1>2. ASSUME NEW r \in Requests, RequestStep(r)
        PROVE  UNCHANGED senderVars
    BY <1>2 DEF RequestStep, BeginSend, CreateResend, CreateInitial,
                ClassifyExisting, RetryExisting, ReclaimCancelled,
                SenderSideUnchanged, senderVars
  <1>3. ASSUME NEW w \in Workers, DrainClaim(w)
        PROVE  /\ \A c \in todo'[s] :
                    \/ c \in todo[s]
                    \/ /\ s \in Workers /\ row' = row
                       /\ \E d \in Deliveries :
                            c = Copy(d) /\ (row[d].status = "queued" \/ Retryable(d))
               /\ job'[s] = job[s]
    <2> DEFINE taken == {d \in Deliveries :
                 (row[d].status = "queued" \/ Retryable(d)) /\ Drainable(d)}
    <2>1. PICK S \in SUBSET taken : todo' = [todo EXCEPT ![w] = {Copy(d) : d \in S}]
      BY <1>3 DEF DrainClaim
    <2>2. row' = row /\ job' = job
      BY <1>3 DEF DrainClaim
    <2> QED BY <2>1, <2>2
  <1>4. ASSUME NEW w \in Workers, NEW c \in todo[w], DrainOwn(w, c)
        PROVE  /\ todo'[s] \subseteq todo[s]
               /\ \/ job'[s] = job[s]
                  \/ s \in Workers /\ job'[s] \in todo[s]
    BY <1>4 DEF DrainOwn
  <1>5. ASSUME NEW q \in Retriers, NEW d \in Deliveries, RetryStart(q, d)
        PROVE  /\ todo'[s] = todo[s]
               /\ \/ job'[s] = job[s]
                  \/ row' = row /\ job'[s] = Copy(d) /\ Retryable(d)
    BY <1>5 DEF RetryStart
  <1>6. ASSUME NEW q \in Senders, AttemptStep(q)
        PROVE  todo'[s] \subseteq todo[s] /\ job'[s] \in {job[s], NoJob}
    BY <1>6 DEF AttemptStep, Obstructed, RetryGivesUp, CheckBeforeSend, HandOver,
                ProviderAnswers, ProviderThrows, ConfirmOwned, Abort, Record, Finish
  <1>7. ASSUME NEW q \in Senders, FaultStep(q)
        PROVE  todo'[s] \subseteq todo[s] /\ job'[s] \in {job[s], NoJob}
    BY <1>7 DEF FaultStep, LoseSession, Crash, AnswerLost, RecordFails, Finish
  <1>8. CASE OtherStep
    BY <1>8 DEF OtherStep, StopBatch, Erase, MatchBounce, Age, ApplyBounce,
                SweepRead, SweepClear, OthersUnchanged, senderVars
  <1>9. CASE UNCHANGED vars
    BY <1>9 DEF vars, senderVars
  <1>10. ASSUME NEW w \in Workers, WorkerStep(w)
         PROVE  \/ DrainClaim(w) \/ (\E c \in todo[w] : DrainOwn(w, c))
                \/ AttemptStep(w)
    BY <1>10 DEF WorkerStep
  <1> QED BY <1>1, <1>2, <1>3, <1>4, <1>5, <1>6, <1>7, <1>8, <1>9, <1>10
          DEF Next, OtherStep, Senders

\* Versions only move forward, and no copy runs ahead of its row.
LEMMA VersionsKept == Spec => []Versions
PROOF
  <1>1. Init => Versions
    <2>1. ASSUME Init
          PROVE  UnusedIsBlank /\ ResendsUnused /\ FoundAtWork
      <3>1. \A d \in Deliveries : row[d] = NoRow
        BY <2>1 DEF Init
      <3>2. \A r \in Requests : request[r].found = NoJob
        BY <2>1 DEF Init
      <3>3. \A r \in Requests, a \in Attendees : row[ResendOf(r, a)].status = "none"
        BY <3>1, IdentityType DEF NoRow
      <3> QED BY <3>1, <3>2, <3>3 DEF UnusedIsBlank, ResendsUnused, FoundAtWork
    <2>2. Init => CopiesTrail
      BY DEF Init, CopiesTrail
    <2> QED BY <2>1, <2>2 DEF Versions
  <1>2. TypeOK /\ Versions /\ [Next]_vars => Versions'
    <2> SUFFICES ASSUME TypeOK, Versions, [Next]_vars
                 PROVE  Versions'
      OBVIOUS
    <2>0. /\ UnusedIsBlank /\ ResendsUnused /\ FoundAtWork /\ CopiesTrail
          /\ SenderType
      BY DEF Versions, TypeOK
    <2>1. /\ \A d \in Deliveries : RowStep(d)
          /\ UnusedIsBlank' /\ ResendsUnused' /\ FoundAtWork'
      BY <2>0, VersionStep
    <2>2. \A j \in Copies : Trails(j) => Trails(j)'
      BY <2>1, TrailsKept DEF Copies
    <2>3. ASSUME NEW d \in Deliveries, row[d].status = "queued" \/ Retryable(d),
                 row' = row, NEW j, j = Copy(d)
          PROVE  Trails(j)'
      <3>1. Trails(j)
        BY <2>3, FreshTrails
      <3> QED BY <2>3, <3>1 DEF Trails, Passed, Current, HasSnapshot
    <2>4. ASSUME NEW s \in Senders, NEW c \in todo'[s]
          PROVE  Trails(c)'
      <3>1. \/ c \in todo[s]
            \/ \E d \in Deliveries : /\ c = Copy(d) /\ row' = row
                                     /\ row[d].status = "queued" \/ Retryable(d)
        BY <2>0, <2>4, CopiesStep
      <3>2. c \in todo[s] => c \in Copies /\ Trails(c)
        BY <2>0 DEF CopiesTrail, SenderType
      <3> QED BY <2>2, <2>3, <3>1, <3>2
    <2>5. ASSUME NEW s \in Senders, job'[s] # NoJob
          PROVE  Trails(job[s])'
      <3>1. \/ job'[s] \in {job[s], NoJob}
            \/ s \in Workers /\ job'[s] \in todo[s]
            \/ /\ row' = row
               /\ \E d \in Deliveries : job'[s] = Copy(d) /\ Retryable(d)
        BY <2>0, CopiesStep
      <3>2. PICK j : j = job'[s]
        OBVIOUS
      <3>3. Trails(j)'
        <4>1. CASE job'[s] \in {job[s], NoJob} \/ job'[s] \in todo[s]
          <5>1. j \in Copies /\ Trails(j)
            BY <2>0, <2>5, <3>2, <4>1 DEF CopiesTrail, SenderType
          <5> QED BY <2>2, <5>1
        <4>2. CASE /\ row' = row
                   /\ \E d \in Deliveries : job'[s] = Copy(d) /\ Retryable(d)
          BY <2>3, <3>2, <4>2
        <4> QED BY <3>1, <4>1, <4>2
      <3> QED BY <3>2, <3>3 DEF Trails, Passed, Current, HasSnapshot, Copies
    <2>6. ASSUME NEW s \in Retriers
          PROVE  todo'[s] = {} /\ (job'[s] # NoJob => job'[s].status = "failed")
      <3>1. s \in Senders /\ s \notin Workers
        BY MailAssumption DEF Senders, MailAssumption
      <3>2. todo[s] = {} /\ (job[s] # NoJob => job[s].status = "failed")
        BY <2>0, <3>1 DEF CopiesTrail
      <3>3. \A c \in todo'[s] : FALSE
        BY <2>0, <3>1, <3>2, CopiesStep
      <3>4. \/ job'[s] \in {job[s], NoJob}
            \/ \E d \in Deliveries : job'[s] = Copy(d) /\ Retryable(d)
        BY <2>0, <3>1, CopiesStep
      <3>5. \A d \in Deliveries : Retryable(d) => Copy(d).status = "failed"
        BY DEF Copy, Retryable
      <3>6. job'[s] # NoJob => job'[s].status = "failed"
        BY <3>2, <3>4, <3>5
      <3> QED BY <3>3, <3>6
    <2>7. CopiesTrail'
      BY <2>4, <2>5, <2>6 DEF CopiesTrail
    <2> QED BY <2>1, <2>7 DEF Versions
  <1> QED BY <1>1, <1>2, TypeCorrect, PTL DEF Spec

\* What a row has come to is not undone by a late outcome of another attempt: a
\* success yields only to a bounce, and a stopped row moves again only because it
\* is claimed anew, or because the provider's answer to a mail already out arrives.
THEOREM OutcomeStands == Spec => OutcomeIsKept
PROOF
  <1> DEFINE Kept(d) ==
         /\ row[d].status \in Success => row'[d].status \in {row[d].status, "bounced"}
         /\ row[d].status = "cancelled" /\ row'[d].status # "cancelled" =>
              \/ row'[d].revision > row[d].revision
              \/ \E s \in Senders : /\ job[s].id = d
                                     /\ phase[s] = "recording"
                                     /\ outcome[s] \in ProviderResults
  <1>1. TypeOK /\ Versions /\ [Next]_vars => \A d \in Deliveries : Kept(d)
    <2> SUFFICES ASSUME TypeOK, Versions, [Next]_vars, NEW d \in Deliveries
                 PROVE  Kept(d)
      OBVIOUS
    <2>0. row[d] \in Rows
      BY DEF TypeOK, RowType
    <2>1. RowStep(d)
      BY VersionStep DEF Versions
    <2>2. CASE RowUnchanged(d)
      BY <2>2 DEF RowUnchanged
    <2>3. CASE RowRecorded(d)
      <3>1. PICK s \in Senders :
              /\ phase[s] = "recording" /\ job[s].id = d
              /\ SameAttempt(job[s]) /\ MayRecord(s, job[s], outcome[s])
        BY <2>3 DEF RowRecorded
      <3>2. job[s] # NoJob /\ job[s] \in Copies
        BY <3>1 DEF TypeOK, SenderType
      <3>3. Trails(job[s]) /\ (s \in Retriers => job[s].status = "failed")
        BY <3>2 DEF Versions, CopiesTrail
      <3>4. Current(job[s]) /\ ~Passed(job[s]) /\ HasSnapshot(d)
        <4>1. /\ row[d].revision \in Nat /\ row[d].attempts \in Nat
          BY <2>0, MailAssumption DEF Rows, MailAssumption
        <4> QED BY <3>1, <4>1 DEF SameAttempt, Current, Passed
      <3>5. row[d].status \notin Success
        BY <3>1, <3>3, <3>4 DEF Trails, Success
      <3>6. CASE row[d].status = "cancelled"
        <4>1. s \in Workers
          BY <3>1, <3>3, <3>4, <3>6 DEF Trails, Senders
        <4>2. outcome[s] \in ProviderResults
          BY <3>1, <3>6, <4>1 DEF MayRecord
        <4> QED BY <3>1, <3>5, <4>2
      <3> QED BY <3>5, <3>6
    <2>4. CASE RowStopped(d)
      BY <2>4 DEF RowStopped, Success
    <2>5. CASE RowEmptied(d)
      BY <2>0, <2>5, OthersRowVersion DEF RowEmptied, Success
    <2>6. CASE RowBounced(d)
      BY <2>0, <2>6, OthersRowFields DEF RowBounced, NonTerminal
    <2>7. CASE RowAged(d)
      BY <2>0, <2>7, WaitingRowFields DEF RowAged
    <2>8. CASE RowCleared(d)
      BY <2>0, <2>8, OthersRowFields DEF RowCleared
    <2>9. CASE RowNew(d)
      <3>1. PICK r \in Requests, v \in 1..MaxRevision :
              v > row[d].revision /\ row'[d] = Queued(r, v)
        BY <2>9 DEF RowNew
      <3> QED BY <2>9, <3>1 DEF RowNew, Queued, Success
    <2>10. CASE RowRequeued(d)
      BY <2>10 DEF RowRequeued, Retryable, Success
    <2> QED BY <2>1, <2>2, <2>3, <2>4, <2>5, <2>6, <2>7, <2>8, <2>9, <2>10
            DEF RowStep, RowWritten, RowTouched
  <1>2. TypeOK /\ Versions /\ [Next]_vars =>
          [\A d \in Deliveries :
             /\ row[d].status \in Success => row'[d].status \in {row[d].status, "bounced"}
             /\ row[d].status = "cancelled" /\ row'[d].status # "cancelled" =>
                  \/ row'[d].revision > row[d].revision
                  \/ \E s \in Senders : /\ job[s].id = d
                                         /\ phase[s] = "recording"
                                         /\ outcome[s] \in ProviderResults]_vars
    BY <1>1
  <1> QED BY <1>2, TypeCorrect, VersionsKept, PTL DEF Spec, OutcomeIsKept

-----------------------------------------------------------------------------
(***************************************************************************)
(* Counting the mails of one claim.  A mail is in the count from the       *)
(* moment its sender has looked at the row for the last time: first as a   *)
(* sender that may still get it taken, then as taken.  A sender that has   *)
(* lost its session and is about to write what it came to is in the count, *)
(* too, because that write may open the row to one more mail.              *)
(***************************************************************************)
\* Sender s works on claim v of row d.
WorksOn(s, d, v) == job[s].id = d /\ job[s].revision = v

MayAdd(s, d, v) ==
  /\ WorksOn(s, d, v)
  /\ IF lock[d] = s
     THEN phase[s] \in {"checked", "sending"}
     ELSE \/ phase[s] = "sending"
          \/ phase[s] = "recording" /\ outcome[s] \notin Success

Adding(d, v) == {s \in Senders : MayAdd(s, d, v)}
Total(d, v) == accepts[d][v] + Cardinality(Adding(d, v))

\* The owner has a mail of the claim in hand: not taken yet, or taken and the
\* row not told.
InHand(s, d, v) ==
  /\ lock[d] = s /\ WorksOn(s, d, v)
  /\ \/ phase[s] \in {"checked", "sending"}
     \/ phase[s] \in {"answered", "recording"} /\ outcome[s] \in Success

\* The claim is over: there has been another one, or the row no longer waits
\* and no sender has a copy with which it could still send or write.
Over(d, v) ==
  \/ row[d].revision > v
  \/ /\ row[d].revision = v
     /\ ~Waiting(d)
     /\ \A s \in Senders, j \in Copies :
          (j \in todo[s] \/ j = job[s]) /\ j.id = d =>
            ~(Current(j) /\ HasSnapshot(d))

\* The mail the count allows without a fault has been spent.
Spent(d, v) ==
  \/ Over(d, v)
  \/ \E s \in Senders : /\ InHand(s, d, v)
                         /\ \/ row[d].revision # v
                            \/ job[s].attempts = row[d].attempts

CountedAt(d, v) == /\ Total(d, v) <= 1 + excused[d]
                   /\ Spent(d, v) \/ Total(d, v) <= excused[d]
Counted == \A d \in Deliveries, v \in 1..MaxRevision : CountedAt(d, v)

\* One member more or less is one more or less in the count.
LEMMA OneMember ==
  ASSUME NEW S, NEW T, IsFiniteSet(S), IsFiniteSet(T), NEW s,
         \A q : q # s => (q \in S <=> q \in T)
  PROVE  /\ Cardinality(S) \in Nat /\ Cardinality(T) \in Nat
         /\ s \in S /\ s \in T => Cardinality(T) = Cardinality(S)
         /\ s \notin S /\ s \notin T => Cardinality(T) = Cardinality(S)
         /\ s \in S /\ s \notin T => Cardinality(S) = Cardinality(T) + 1
         /\ s \notin S /\ s \in T => Cardinality(T) = Cardinality(S) + 1
PROOF
  <1>1. Cardinality(S) \in Nat /\ Cardinality(T) \in Nat
    BY FS_CardinalityType
  <1>2. (s \in S <=> s \in T) => S = T
    OBVIOUS
  <1>3. ASSUME s \in S, s \notin T
        PROVE  Cardinality(S) = Cardinality(T) + 1
    <2>1. S = T \cup {s}
      BY <1>3
    <2> QED BY <1>3, <2>1, FS_AddElement
  <1>4. ASSUME s \notin S, s \in T
        PROVE  Cardinality(T) = Cardinality(S) + 1
    <2>1. T = S \cup {s}
      BY <1>4
    <2> QED BY <1>4, <2>1, FS_AddElement
  <1> QED BY <1>1, <1>2, <1>3, <1>4

\* The senders are finitely many, so those that may add a mail are.
LEMMA AddingFinite ==
  ASSUME NEW d, NEW v
  PROVE  IsFiniteSet(Adding(d, v)) /\ Cardinality(Adding(d, v)) \in Nat
PROOF
  <1>1. IsFiniteSet(Senders)
    BY MailAssumption, FS_Union DEF Senders, MailAssumption
  <1>2. IsFiniteSet(Adding(d, v))
    BY <1>1, FS_Subset DEF Adding
  <1> QED BY <1>2, FS_CardinalityType

\* One sender moves, the others stay where they are and keep their locks.
OnlyMoves(s) ==
  /\ \A q \in Senders : q # s =>
       /\ job'[q] = job[q] /\ phase'[q] = phase[q] /\ outcome'[q] = outcome[q]
       /\ \A d \in Deliveries : lock'[d] = q <=> lock[d] = q

\* 1 for a sender that may add a mail of the claim.
Adds(s, d, v) == IF MayAdd(s, d, v) THEN 1 ELSE 0

\* What one step may do to the count of a claim: leave it within what it was
\* and the claim as spent as it was; make room; or spend the mail that was free.
Tally(s, d, v) ==
  \/ /\ accepts'[d][v] + Adds(s, d, v)' + excused[d]
          <= accepts[d][v] + Adds(s, d, v) + excused'[d]
     /\ Spent(d, v) => Spent(d, v)'
  \/ accepts'[d][v] + Adds(s, d, v)' + excused[d] + 1
       <= accepts[d][v] + Adds(s, d, v) + excused'[d]
  \/ /\ accepts'[d][v] + Adds(s, d, v)' + excused[d]
          <= accepts[d][v] + Adds(s, d, v) + excused'[d] + 1
     /\ ~Spent(d, v) /\ Spent(d, v)'

\* Any of the three keeps the count.
LEMMA TallyKeepsCount ==
  ASSUME HistoryType, HistoryType', NEW s \in Senders, OnlyMoves(s),
         NEW d \in Deliveries, NEW v \in 1..MaxRevision,
         Tally(s, d, v), CountedAt(d, v)
  PROVE  CountedAt(d, v)'
PROOF
  <1> DEFINE m == Cardinality(Adding(d, v))
  <1>0. PICK S, T : S = Adding(d, v) /\ T = Adding(d, v)'
    OBVIOUS
  <1>1. IsFiniteSet(S) /\ IsFiniteSet(T)
    <2>1. IsFiniteSet(Adding(d, v))'
      <3>1. IsFiniteSet(Senders)
        BY MailAssumption, FS_Union DEF Senders, MailAssumption
      <3> QED BY <3>1, FS_Subset DEF Adding
    <2> QED BY <1>0, <2>1, AddingFinite
  <1>2. \A q : q # s => (q \in S <=> q \in T)
    <2>1. ASSUME NEW q \in Senders, q # s
          PROVE  MayAdd(q, d, v)' <=> MayAdd(q, d, v)
      BY <2>1 DEF OnlyMoves, MayAdd, WorksOn
    <2> QED BY <1>0, <2>1 DEF Adding
  <1>3. /\ s \in S <=> MayAdd(s, d, v)
        /\ s \in T <=> MayAdd(s, d, v)'
    BY <1>0 DEF Adding
  <1>4. PICK n, k : n = Cardinality(S) /\ k = Cardinality(T)
    OBVIOUS
  <1>5. /\ n \in Nat /\ k \in Nat
        /\ k + Adds(s, d, v) = n + Adds(s, d, v)'
    <2>1. /\ n \in Nat /\ k \in Nat
          /\ s \in S /\ s \in T => k = n
          /\ s \notin S /\ s \notin T => k = n
          /\ s \in S /\ s \notin T => n = k + 1
          /\ s \notin S /\ s \in T => k = n + 1
      BY <1>1, <1>2, <1>4, OneMember
    <2>2. /\ Adds(s, d, v) = IF s \in S THEN 1 ELSE 0
          /\ Adds(s, d, v)' = IF s \in T THEN 1 ELSE 0
      BY <1>3 DEF Adds
    <2> QED BY <2>1, <2>2
  <1>6. PICK a, a1, e, e1, w, w1 :
          /\ a = accepts[d][v] /\ a1 = accepts'[d][v]
          /\ e = excused[d] /\ e1 = excused'[d]
          /\ w = Adds(s, d, v) /\ w1 = Adds(s, d, v)'
    OBVIOUS
  <1>7. a \in Nat /\ a1 \in Nat /\ e \in Nat /\ e1 \in Nat /\ w \in Nat /\ w1 \in Nat
    <2>1. /\ accepts[d] \in [1..MaxRevision -> Nat]
          /\ accepts'[d] \in [1..MaxRevision -> Nat]
          /\ excused[d] \in Nat /\ excused'[d] \in Nat
      BY DEF HistoryType
    <2>2. accepts[d][v] \in Nat /\ accepts'[d][v] \in Nat
      BY <2>1, Zenon
    <2>3. w \in Nat /\ w1 \in Nat
      BY <1>6 DEF Adds
    <2> QED BY <1>6, <2>1, <2>2, <2>3
  <1>8. Total(d, v) = a + n /\ Total(d, v)' = a1 + k
    BY <1>0, <1>4, <1>6 DEF Total
  <1>9. k + w = n + w1
    BY <1>5, <1>6
  <1>10. /\ a + n <= 1 + e
         /\ Spent(d, v) \/ a + n <= e
    BY <1>6, <1>8 DEF CountedAt
  <1>11. \/ a1 + w1 + e <= a + w + e1 /\ (Spent(d, v) => Spent(d, v)')
         \/ a1 + w1 + e + 1 <= a + w + e1
         \/ a1 + w1 + e <= a + w + e1 + 1 /\ ~Spent(d, v) /\ Spent(d, v)'
    BY <1>6 DEF Tally
  <1>12. a1 + k <= 1 + e1 /\ (Spent(d, v)' \/ a1 + k <= e1)
    BY <1>5, <1>7, <1>9, <1>10, <1>11
  <1> QED BY <1>6, <1>8, <1>12 DEF CountedAt

-----------------------------------------------------------------------------
\* Those who neither claim nor send leave the version where it is, make no row
\* wait and give none its message back.
LEMMA TouchedFields ==
  ASSUME TypeOK, NEW d \in Deliveries, RowTouched(d)
  PROVE  /\ row'[d].revision = row[d].revision
         /\ row'[d].attempts = row[d].attempts
         /\ Waiting(d)' => Waiting(d)
         /\ HasSnapshot(d)' => HasSnapshot(d)
PROOF
  <1> DEFINE x == row[d]
  <1>0. x \in Rows
    BY DEF TypeOK, RowType
  <1>a. /\ Stopped(x).status = "cancelled" /\ Bounced(x).status = "bounced"
        /\ Stopped(x).recipient = x.recipient /\ Stopped(x).snapshot = x.snapshot
        /\ Bounced(x).recipient = x.recipient /\ Bounced(x).snapshot = x.snapshot
        /\ Cleared(x).status = x.status /\ ~Cleared(x).retryable
        /\ ~Cleared(x).snapshot /\ ~Emptied(x).snapshot
        /\ Emptied(x).status # "queued"
        /\ ~(Emptied(x).status = "failed" /\ Emptied(x).retryable)
    BY <1>0, OthersRowFields
  <1>b. /\ Stopped(x).revision = x.revision /\ Emptied(x).revision = x.revision
        /\ Bounced(x).revision = x.revision /\ Cleared(x).revision = x.revision
    BY <1>0, OthersRowType
  <1>c. /\ Stopped(x).attempts = x.attempts /\ Bounced(x).attempts = x.attempts
        /\ Cleared(x).attempts = x.attempts /\ Emptied(x).attempts = x.attempts
    BY <1>0, OthersRowVersion
  <1> USE DEF Waiting, Retryable, HasSnapshot
  <1>1. CASE RowUnchanged(d)
    BY <1>1 DEF RowUnchanged
  <1>2. CASE RowStopped(d)
    BY <1>2, <1>a, <1>b, <1>c DEF RowStopped
  <1>3. CASE RowEmptied(d)
    BY <1>3, <1>a, <1>b, <1>c DEF RowEmptied
  <1>4. CASE RowBounced(d)
    BY <1>4, <1>a, <1>b, <1>c DEF RowBounced
  <1>5. CASE RowCleared(d)
    BY <1>5, <1>a, <1>b, <1>c DEF RowCleared
  <1>6. CASE RowAged(d)
    BY <1>0, <1>6, WaitingRowFields DEF RowAged
  <1> QED BY <1>1, <1>2, <1>3, <1>4, <1>5, <1>6 DEF RowTouched

\* A claim raises the revision.
LEMMA ClaimRaises ==
  ASSUME TypeOK, NEW d \in Deliveries, RowNew(d) \/ RowRequeued(d)
  PROVE  /\ row[d].revision \in Nat /\ row'[d].revision \in Nat
         /\ row'[d].revision > row[d].revision
PROOF
  <1>0. row[d] \in Rows /\ row[d].revision \in Nat
    BY MailAssumption DEF TypeOK, RowType, Rows, MailAssumption
  <1>1. CASE RowNew(d)
    <2>1. PICK r \in Requests, u \in 1..MaxRevision :
            u > row[d].revision /\ row'[d] = Queued(r, u)
      BY <1>1 DEF RowNew
    <2>2. row'[d].revision = u /\ u \in Nat
      BY <2>1, MailAssumption DEF Queued, MailAssumption
    <2> QED BY <1>0, <2>1, <2>2
  <1>2. CASE RowRequeued(d)
    <2>1. row'[d].revision = row[d].revision + 1
      BY <1>0, <1>2, WaitingRowFields DEF RowRequeued
    <2> QED BY <1>0, <2>1
  <1> QED BY <1>1, <1>2

\* A claim that is over stays over.
LEMMA OverStays ==
  ASSUME TypeOK, Versions, [Next]_vars, NEW d \in Deliveries,
         NEW v \in 1..MaxRevision, Over(d, v)
  PROVE  Over(d, v)'
PROOF
  <1>0. /\ row[d].revision \in Nat /\ v \in Nat /\ row[d] \in Rows
        /\ RowStep(d)
    BY VersionStep, MailAssumption
       DEF TypeOK, RowType, Rows, Versions, MailAssumption
  <1>1. CASE RowNew(d) \/ RowRequeued(d)
    <2>1. row'[d].revision \in Nat /\ row'[d].revision > row[d].revision
      BY <1>1, ClaimRaises
    <2> QED BY <1>0, <2>1 DEF Over
  <1>2. CASE RowRecorded(d) /\ row[d].revision > v
    <2>1. PICK s \in Senders : row'[d] = Recorded(s, row[d], outcome[s])
      BY <1>2 DEF RowRecorded
    <2>2. outcome[s] \in Outcomes
      BY DEF TypeOK, SenderType
    <2>3. row'[d].revision = row[d].revision
      BY <1>0, <2>1, <2>2, RecordedType
    <2> QED BY <1>2, <2>3 DEF Over
  <1>3. ASSUME RowRecorded(d), ~(row[d].revision > v)
        PROVE  FALSE
    <2>1. PICK s \in Senders : /\ phase[s] = "recording" /\ job[s].id = d
                               /\ SameAttempt(job[s])
      BY <1>3 DEF RowRecorded
    <2>2. job[s] \in Copies
      BY <2>1, JobType DEF TypeOK
    <2> QED BY <1>3, <2>1, <2>2 DEF Over, SameAttempt, Current
  <1>4. CASE RowTouched(d)
    <2>0. /\ row'[d].revision = row[d].revision
          /\ row'[d].attempts = row[d].attempts
          /\ Waiting(d)' => Waiting(d)
          /\ HasSnapshot(d)' => HasSnapshot(d)
      BY <1>4, TouchedFields
    <2>1. CASE row[d].revision > v
      BY <2>0, <2>1 DEF Over
    <2>2. CASE ~(row[d].revision > v)
      <3>1. row[d].revision = v /\ ~Waiting(d)
        BY <2>2 DEF Over
      <3>2. ASSUME NEW s \in Senders, NEW j \in Copies,
                   j \in todo'[s] \/ j = job'[s], j.id = d
            PROVE  ~(Current(j)' /\ HasSnapshot(d)')
        <4>1. \/ j \in todo[s] \/ j = job[s] \/ j = NoJob
              \/ \E e \in Deliveries : j = Copy(e) /\ Waiting(e)
          BY <3>2, CopiesStep DEF Versions, Waiting
        <4>2. j # NoJob
          BY DEF Copies, NoJob
        <4>3. ~\E e \in Deliveries : j = Copy(e) /\ Waiting(e)
          BY <3>1, <3>2 DEF Copy
        <4>4. ~(Current(j) /\ HasSnapshot(d))
          BY <2>2, <3>2, <4>1, <4>2, <4>3 DEF Over
        <4> QED BY <2>0, <3>2, <4>4 DEF Current
      <3> QED BY <2>0, <3>1, <3>2 DEF Over
    <2> QED BY <2>1, <2>2
  <1> QED BY <1>0, <1>1, <1>2, <1>3, <1>4 DEF RowStep, RowWritten

\* A spent mail stays spent while its owner keeps it in hand, in every step that
\* records no outcome on the row.
LEMMA SpentStays ==
  ASSUME TypeOK, Versions, [Next]_vars, NEW d \in Deliveries,
         NEW v \in 1..MaxRevision, Spent(d, v),
         \A q \in Senders : InHand(q, d, v) => InHand(q, d, v)' /\ job'[q] = job[q],
         RowTouched(d) \/ RowNew(d) \/ RowRequeued(d)
  PROVE  Spent(d, v)'
PROOF
  <1>1. CASE Over(d, v)
    BY <1>1, OverStays DEF Spent
  <1>2. CASE ~Over(d, v)
    <2>1. PICK q \in Senders :
            /\ InHand(q, d, v)
            /\ row[d].revision # v \/ job[q].attempts = row[d].attempts
      BY <1>2 DEF Spent
    <2>2. InHand(q, d, v)' /\ job'[q] = job[q]
      BY <2>1
    <2>3. CASE RowTouched(d)
      <3>1. row'[d].revision = row[d].revision /\ row'[d].attempts = row[d].attempts
        BY <2>3, TouchedFields
      <3> QED BY <2>1, <2>2, <3>1 DEF Spent
    <2>4. CASE RowNew(d) \/ RowRequeued(d)
      <3>1. /\ row[d].revision \in Nat /\ row'[d].revision \in Nat
            /\ row'[d].revision > row[d].revision
        BY <2>4, ClaimRaises
      <3>2. job[q] \in Copies /\ job[q].id = d /\ job[q].revision = v
        BY <2>1, JobType DEF InHand, WorksOn, TypeOK
      <3>3. Trails(job[q])
        BY <3>2 DEF Versions, CopiesTrail, Copies, NoJob
      <3>4. v \in Nat /\ v <= row[d].revision
        BY <3>1, <3>2, <3>3, MailAssumption DEF Trails, Passed, Current, MailAssumption
      <3>5. row'[d].revision # v
        BY <3>1, <3>4
      <3> QED BY <2>2, <3>5 DEF Spent
    <2> QED BY <2>3, <2>4
  <1> QED BY <1>1, <1>2

-----------------------------------------------------------------------------
\* A fault is counted for the row whose mail it may have hidden.
LEMMA FaultCounts ==
  ASSUME TypeOK, NEW s \in Senders, Fault(s), NEW d \in Deliveries
  PROVE  excused'[d] =
           excused[d] + (IF InFlight(s) /\ job[s].id = d THEN 1 ELSE 0)
PROOF
  <1>1. excused[d] \in Nat /\ excused \in [Deliveries -> Nat]
    BY DEF TypeOK, HistoryType
  <1>2. InFlight(s) => job[s].id \in Deliveries
    BY JobType DEF TypeOK, InFlight
  <1> QED BY <1>1, <1>2 DEF Fault

\* The steps with which a sender picks a row up.
PickUp(s) ==
  \/ s \in Workers /\ DrainClaim(s)
  \/ s \in Workers /\ \E c \in todo[s] : DrainOwn(s, c)
  \/ s \in Retriers /\ \E d \in Deliveries : RetryStart(s, d)

\* A sender's own steps leave the other senders and their locks alone.
LEMMA SenderAlone ==
  ASSUME TypeOK, NEW s \in Senders, PickUp(s) \/ AttemptStep(s) \/ FaultStep(s)
  PROVE  OnlyMoves(s)
PROOF
  <1>0. NoOne \notin Senders
    BY MailAssumption DEF Senders, MailAssumption
  <1>1. SenderType
    BY DEF TypeOK
  <1>2. CASE PickUp(s)
    BY <1>0, <1>1, <1>2 DEF PickUp, DrainClaim, DrainOwn, RetryStart, OnlyMoves,
                            SenderType
  <1>3. ASSUME \/ UNCHANGED lock
               \/ Owns(s) /\ lock' = [lock EXCEPT ![job[s].id] = NoOne]
               \/ lock' = [lock EXCEPT ![job[s].id] = IF @ = s THEN NoOne ELSE @],
               NEW q \in Senders, q # s, NEW d \in Deliveries
        PROVE  lock'[d] = q <=> lock[d] = q
    BY <1>0, <1>1, <1>3 DEF SenderType, Owns
  <1>4. ASSUME \/ UNCHANGED lock
               \/ Owns(s) /\ lock' = [lock EXCEPT ![job[s].id] = NoOne]
               \/ lock' = [lock EXCEPT ![job[s].id] = IF @ = s THEN NoOne ELSE @],
               job' = job \/ job' = [job EXCEPT ![s] = NoJob],
               phase' = phase \/ \E p : phase' = [phase EXCEPT ![s] = p],
               outcome' = outcome \/ \E o : outcome' = [outcome EXCEPT ![s] = o]
        PROVE  OnlyMoves(s)
    BY <1>1, <1>3, <1>4 DEF OnlyMoves, SenderType
  <1>5. CASE AttemptStep(s)
    <2>1. CASE Obstructed(s)
      BY <1>4, <2>1 DEF Obstructed
    <2>2. CASE RetryGivesUp(s)
      BY <1>4, <2>2 DEF RetryGivesUp, Finish
    <2>3. CASE CheckBeforeSend(s)
      BY <1>4, <2>3 DEF CheckBeforeSend, Finish
    <2>4. CASE HandOver(s)
      BY <1>4, <2>4 DEF HandOver
    <2>5. CASE ProviderAnswers(s)
      BY <1>4, <2>5 DEF ProviderAnswers
    <2>6. CASE ProviderThrows(s)
      BY <1>4, <2>6 DEF ProviderThrows
    <2>7. CASE ConfirmOwned(s)
      BY <1>4, <2>7 DEF ConfirmOwned, Finish
    <2>8. CASE Abort(s)
      BY <1>4, <2>8 DEF Abort
    <2>9. CASE Record(s)
      BY <1>4, <2>9 DEF Record, Finish
    <2> QED BY <1>5, <2>1, <2>2, <2>3, <2>4, <2>5, <2>6, <2>7, <2>8, <2>9
            DEF AttemptStep
  <1>6. CASE FaultStep(s)
    <2>1. CASE LoseSession(s)
      BY <1>4, <2>1 DEF LoseSession
    <2>2. CASE Crash(s)
      BY <1>0, <1>1, <2>2 DEF Crash, OnlyMoves, SenderType
    <2>3. CASE AnswerLost(s)
      BY <1>4, <2>3 DEF AnswerLost
    <2>4. CASE RecordFails(s)
      BY <1>4, <2>4 DEF RecordFails, Finish
    <2> QED BY <1>6, <2>1, <2>2, <2>3, <2>4 DEF FaultStep
  <1> QED BY <1>2, <1>5, <1>6

\* A step that adds nothing to the count and takes no mail out of its owner's
\* hand leaves the count as it was.
LEMMA QuietTally ==
  ASSUME TypeOK, Versions, [Next]_vars, NEW s \in Senders, OnlyMoves(s),
         NEW d \in Deliveries, NEW v \in 1..MaxRevision,
         RowTouched(d) \/ RowNew(d) \/ RowRequeued(d),
         accepts'[d][v] + Adds(s, d, v)' + excused[d]
           <= accepts[d][v] + Adds(s, d, v) + excused'[d],
         InHand(s, d, v) => InHand(s, d, v)' /\ job'[s] = job[s]
  PROVE  Tally(s, d, v)
PROOF
  <1>1. ASSUME NEW q \in Senders, InHand(q, d, v)
        PROVE  InHand(q, d, v)' /\ job'[q] = job[q]
    <2>1. CASE q = s
      BY <1>1, <2>1
    <2>2. CASE q # s
      BY <1>1, <2>2 DEF OnlyMoves, InHand, WorksOn
    <2> QED BY <2>1, <2>2
  <1>2. Spent(d, v) => Spent(d, v)'
    BY <1>1, SpentStays
  <1> QED BY <1>2 DEF Tally

\* The numbers of the count are natural.
LEMMA CountsType ==
  ASSUME HistoryType, NEW d \in Deliveries, NEW v \in 1..MaxRevision, NEW s
  PROVE  /\ accepts[d][v] \in Nat /\ excused[d] \in Nat
         /\ Adds(s, d, v) \in {0, 1} /\ Adds(s, d, v)' \in {0, 1}
PROOF
  <1>1. accepts[d] \in [1..MaxRevision -> Nat] /\ excused[d] \in Nat
    BY DEF HistoryType
  <1>2. accepts[d][v] \in Nat
    BY <1>1, Zenon
  <1> QED BY <1>1, <1>2 DEF Adds

\* Picking a row up counts for nothing.
LEMMA PickUpTally ==
  ASSUME TypeOK, Versions, [Next]_vars, NEW s \in Senders, PickUp(s),
         NEW d \in Deliveries, NEW v \in 1..MaxRevision
  PROVE  Tally(s, d, v)
PROOF
  <1>1. /\ phase[s] \in {"idle", "draining"}
        /\ phase'[s] \in {"idle", "draining", "owned"}
        /\ UNCHANGED <<row, accepts, excused>>
    BY DEF PickUp, DrainClaim, DrainOwn, RetryStart, TypeOK, SenderType, rowVars
  <1>2. ~MayAdd(s, d, v) /\ ~MayAdd(s, d, v)' /\ ~InHand(s, d, v)
    BY <1>1 DEF MayAdd, InHand
  <1>3. Adds(s, d, v) = 0 /\ Adds(s, d, v)' = 0
    BY <1>2 DEF Adds
  <1>4. accepts'[d][v] + Adds(s, d, v)' + excused[d]
          <= accepts[d][v] + Adds(s, d, v) + excused'[d]
    <2>1. accepts[d][v] \in Nat /\ excused[d] \in Nat
      BY CountsType DEF TypeOK
    <2> QED BY <1>1, <1>3, <2>1
  <1>5. RowTouched(d)
    BY <1>1 DEF RowTouched, RowUnchanged
  <1> QED BY <1>2, <1>4, <1>5, SenderAlone, QuietTally

\* The last look: the one step that spends the mail that was free, taken only
\* for a claim that is not over, and only by its owner.
LEMMA CheckTally ==
  ASSUME TypeOK, Versions, WaitingHasMessage, [Next]_vars, NEW s \in Senders,
         CheckBeforeSend(s), NEW d \in Deliveries, NEW v \in 1..MaxRevision
  PROVE  Tally(s, d, v)
PROOF
  <1>0. /\ phase[s] = "owned" /\ UNCHANGED <<row, accepts, excused>>
        /\ accepts[d][v] \in Nat /\ excused[d] \in Nat
        /\ OnlyMoves(s) /\ RowTouched(d) /\ SenderType
    BY CountsType, SenderAlone
       DEF CheckBeforeSend, AttemptStep, RowTouched, RowUnchanged, TypeOK, rowVars
  <1>1. ~MayAdd(s, d, v) /\ ~InHand(s, d, v) /\ Adds(s, d, v) = 0
    BY <1>0 DEF MayAdd, InHand, Adds
  <1>2. CASE ~MayAdd(s, d, v)'
    <2>1. Adds(s, d, v)' = 0
      BY <1>2 DEF Adds
    <2>2. accepts'[d][v] + Adds(s, d, v)' + excused[d]
            <= accepts[d][v] + Adds(s, d, v) + excused'[d]
      BY <1>0, <1>1, <2>1
    <2> QED BY <1>0, <1>1, <2>2, QuietTally
  <1>3. CASE MayAdd(s, d, v)'
    <2>1. /\ StillSendable(job[s])
          /\ phase' = [phase EXCEPT ![s] = "checked"]
          /\ UNCHANGED <<job, outcome, lock>>
      <3>1. CASE StillSendable(job[s])
        BY <3>1 DEF CheckBeforeSend
      <3>2. CASE ~StillSendable(job[s])
        <4>1. phase'[s] \in {"idle", "draining"}
          BY <1>0, <3>2 DEF CheckBeforeSend, Finish, SenderType
        <4> QED BY <1>3, <4>1 DEF MayAdd
      <3> QED BY <3>1, <3>2
    <2>2. phase'[s] = "checked"
      BY <1>0, <2>1 DEF SenderType
    <2>3. WorksOn(s, d, v) /\ lock[d] = s
      BY <1>3, <2>1, <2>2 DEF MayAdd, WorksOn
    <2>4. /\ row[d].revision = v /\ row[d].attempts = job[s].attempts
          /\ HasSnapshot(d) /\ row[d].status = job[s].status
      BY <2>1, <2>3 DEF StillSendable, SameAttempt, WorksOn
    <2>5. ~Over(d, v)
      <3>1. job[s] \in Copies /\ job[s].id = d
        BY <1>0, <2>3, JobType DEF WorksOn
      <3>2. Current(job[s])
        BY <2>3, <2>4, <3>1 DEF Current, WorksOn
      <3>3. row[d].revision \in Nat
        BY <1>0, MailAssumption DEF TypeOK, RowType, Rows, MailAssumption
      <3> QED BY <2>4, <3>1, <3>2, <3>3 DEF Over
    <2>6. ~Spent(d, v)
      BY <1>1, <2>3, <2>5 DEF Spent, InHand
    <2>7. Spent(d, v)'
      <3>1. InHand(s, d, v)'
        BY <2>1, <2>2, <2>3 DEF InHand, WorksOn
      <3>2. job'[s].attempts = row'[d].attempts
        BY <1>0, <2>1, <2>4
      <3> QED BY <3>1, <3>2 DEF Spent
    <2>8. Adds(s, d, v)' = 1
      BY <1>3 DEF Adds
    <2> QED BY <1>0, <1>1, <2>6, <2>7, <2>8 DEF Tally
  <1> QED BY <1>2, <1>3

\* The provider's answer: a mail taken was in the count before it was taken.
LEMMA AnswerTally ==
  ASSUME TypeOK, Versions, [Next]_vars, NEW s \in Senders,
         ProviderAnswers(s) \/ ProviderThrows(s) \/ AnswerLost(s),
         NEW d \in Deliveries, NEW v \in 1..MaxRevision
  PROVE  Tally(s, d, v)
PROOF
  <1>0. /\ phase[s] = "sending" /\ phase'[s] = "answered"
        /\ row' = row /\ job' = job /\ lock' = lock
        /\ accepts[d][v] \in Nat /\ excused[d] \in Nat
        /\ OnlyMoves(s) /\ RowTouched(d) /\ HistoryType
    BY CountsType, SenderAlone
       DEF ProviderAnswers, ProviderThrows, AnswerLost, AttemptStep, FaultStep,
           RowTouched, RowUnchanged, TypeOK, SenderType, rowVars
  <1>1. /\ Adds(s, d, v) = IF WorksOn(s, d, v) THEN 1 ELSE 0
        /\ Adds(s, d, v)' = 0
    BY <1>0 DEF Adds, MayAdd
  <1>2. job[s].id \in Deliveries /\ job[s].revision \in 1..MaxRevision
    BY <1>0, JobType DEF TypeOK
  <1>3. ASSUME accepts' = Taken(job[s])
        PROVE  accepts'[d][v] =
                 accepts[d][v] + (IF WorksOn(s, d, v) THEN 1 ELSE 0)
    BY <1>0, <1>2, <1>3, TakenCounts DEF WorksOn
  <1>4. ASSUME UNCHANGED accepts, UNCHANGED excused
        PROVE  Tally(s, d, v)
    <2>1. CASE WorksOn(s, d, v)
      BY <1>0, <1>1, <1>4, <2>1 DEF Tally
    <2>2. CASE ~WorksOn(s, d, v)
      <3>1. accepts'[d][v] + Adds(s, d, v)' + excused[d]
              <= accepts[d][v] + Adds(s, d, v) + excused'[d]
        BY <1>0, <1>1, <1>4, <2>2
      <3> QED BY <1>0, <2>2, <3>1, QuietTally DEF InHand
    <2> QED BY <2>1, <2>2
  <1>5. CASE ProviderAnswers(s)
    <2>1. PICK o \in ProviderResults :
            /\ outcome'[s] = o
            /\ accepts' = IF o \in Success THEN Taken(job[s]) ELSE accepts
      BY <1>5 DEF ProviderAnswers, TypeOK, SenderType
    <2>2. CASE o \notin Success
      BY <1>4, <1>5, <2>1, <2>2 DEF ProviderAnswers
    <2>3. CASE o \in Success
      <3>1. accepts'[d][v] + Adds(s, d, v)' + excused[d]
              <= accepts[d][v] + Adds(s, d, v) + excused'[d]
        BY <1>0, <1>1, <1>3, <1>5, <2>1, <2>3 DEF ProviderAnswers
      <3>2. InHand(s, d, v) => InHand(s, d, v)' /\ job'[s] = job[s]
        BY <1>0, <2>1, <2>3 DEF InHand, WorksOn
      <3> QED BY <1>0, <3>1, <3>2, QuietTally
    <2> QED BY <2>2, <2>3
  <1>6. CASE ProviderThrows(s)
    BY <1>4, <1>6 DEF ProviderThrows
  <1>7. CASE AnswerLost(s)
    <2>1. /\ accepts'[d][v] =
               accepts[d][v] + (IF WorksOn(s, d, v) THEN 1 ELSE 0)
          /\ excused'[d] = excused[d] + (IF job[s].id = d THEN 1 ELSE 0)
      <3>1. Fault(s) /\ accepts' = Taken(job[s])
        BY <1>7 DEF AnswerLost
      <3>2. InFlight(s)
        BY <1>0 DEF InFlight
      <3> QED BY <1>3, <3>1, <3>2, FaultCounts
    <2>2. CASE WorksOn(s, d, v)
      <3>1. job[s].id = d
        BY <2>2 DEF WorksOn
      <3> QED BY <1>0, <1>1, <2>1, <2>2, <3>1 DEF Tally
    <2>3. CASE ~WorksOn(s, d, v)
      <3>1. accepts'[d][v] + Adds(s, d, v)' + excused[d]
              <= accepts[d][v] + Adds(s, d, v) + excused'[d]
        BY <1>0, <1>1, <2>1, <2>3
      <3> QED BY <1>0, <2>3, <3>1, QuietTally DEF InHand
    <2> QED BY <2>2, <2>3
  <1> QED BY <1>5, <1>6, <1>7

\* The other steps of an attempt but the last leave the count as it was.
LEMMA CarryTally ==
  ASSUME TypeOK, Versions, [Next]_vars, NEW s \in Senders,
         \/ Obstructed(s) \/ RetryGivesUp(s) \/ HandOver(s) \/ ConfirmOwned(s)
         \/ Abort(s),
         NEW d \in Deliveries, NEW v \in 1..MaxRevision
  PROVE  Tally(s, d, v)
PROOF
  <1>0. /\ UNCHANGED <<row, accepts, excused>>
        /\ accepts[d][v] \in Nat /\ excused[d] \in Nat
        /\ OnlyMoves(s) /\ RowTouched(d) /\ SenderType
    BY CountsType, SenderAlone
       DEF Obstructed, RetryGivesUp, HandOver, ConfirmOwned, Abort, AttemptStep,
           RowTouched, RowUnchanged, TypeOK, rowVars
  <1>1. ASSUME MayAdd(s, d, v)' => MayAdd(s, d, v),
               InHand(s, d, v) => InHand(s, d, v)' /\ job'[s] = job[s]
        PROVE  Tally(s, d, v)
    <2>1. accepts'[d][v] + Adds(s, d, v)' + excused[d]
            <= accepts[d][v] + Adds(s, d, v) + excused'[d]
      BY <1>0, <1>1 DEF Adds
    <2> QED BY <1>0, <1>1, <2>1, QuietTally
  <1>2. CASE Obstructed(s)
    <2>1. /\ phase[s] = "owned" /\ phase'[s] = "recording"
          /\ lock' = lock /\ job' = job /\ lock[job[s].id] = s
      BY <1>0, <1>2 DEF Obstructed, Owns, SenderType
    <2> QED BY <1>1, <2>1 DEF MayAdd, InHand, WorksOn
  <1>3. CASE RetryGivesUp(s)
    <2>1. phase[s] = "owned" /\ phase'[s] \in {"idle", "draining"}
      BY <1>0, <1>3 DEF RetryGivesUp, Finish, SenderType
    <2> QED BY <1>1, <2>1 DEF MayAdd, InHand
  <1>4. CASE HandOver(s)
    <2>1. /\ phase[s] = "checked" /\ phase'[s] = "sending"
          /\ lock' = lock /\ job' = job /\ lock[job[s].id] = s
      BY <1>0, <1>4 DEF HandOver, Owns, SenderType
    <2> QED BY <1>1, <2>1 DEF MayAdd, InHand, WorksOn
  <1>5. CASE ConfirmOwned(s)
    <2>0. phase[s] = "answered" /\ lock[job[s].id] = s
      BY <1>5 DEF ConfirmOwned, Owns
    <2>1. CASE s \in Retriers /\ outcome[s] = "threw"
      <3>1. phase'[s] \in {"idle", "draining"}
        BY <1>0, <1>5, <2>1 DEF ConfirmOwned, Finish, SenderType
      <3> QED BY <1>1, <2>0, <2>1, <3>1 DEF MayAdd, InHand, Success
    <2>2. CASE ~(s \in Retriers /\ outcome[s] = "threw")
      <3>1. /\ phase'[s] = "recording" /\ job' = job /\ lock' = lock
            /\ outcome' = outcome
        BY <1>0, <1>5, <2>2 DEF ConfirmOwned, SenderType
      <3> QED BY <1>1, <2>0, <3>1 DEF MayAdd, InHand, WorksOn
    <2> QED BY <2>1, <2>2
  <1>6. CASE Abort(s)
    <2>1. /\ lock[job[s].id] # s /\ phase'[s] = "idle"
      BY <1>0, <1>6 DEF Abort, Owns, SenderType
    <2> QED BY <1>1, <2>1 DEF MayAdd, InHand, WorksOn
  <1> QED BY <1>2, <1>3, <1>4, <1>5, <1>6

\* A fault that hides what became of a mail makes room for one more.
LEMMA FaultTally ==
  ASSUME TypeOK, Versions, [Next]_vars, NEW s \in Senders,
         LoseSession(s) \/ Crash(s) \/ RecordFails(s),
         NEW d \in Deliveries, NEW v \in 1..MaxRevision
  PROVE  Tally(s, d, v)
PROOF
  <1>0. /\ UNCHANGED <<row, accepts>> /\ Fault(s)
        /\ accepts[d][v] \in Nat /\ excused[d] \in Nat
        /\ Adds(s, d, v) \in {0, 1} /\ Adds(s, d, v)' \in {0, 1}
        /\ OnlyMoves(s) /\ RowTouched(d) /\ SenderType
    BY CountsType, SenderAlone
       DEF LoseSession, Crash, RecordFails, FaultStep, RowTouched, RowUnchanged,
           TypeOK, rowVars
  <1>1. excused'[d] = excused[d] + (IF InFlight(s) /\ job[s].id = d THEN 1 ELSE 0)
    BY <1>0, FaultCounts
  <1>2. ASSUME MayAdd(s, d, v)' => MayAdd(s, d, v), ~InHand(s, d, v)
        PROVE  Tally(s, d, v)
    <2>1. accepts'[d][v] + Adds(s, d, v)' + excused[d]
            <= accepts[d][v] + Adds(s, d, v) + excused'[d]
      BY <1>0, <1>1, <1>2 DEF Adds
    <2> QED BY <1>0, <1>2, <2>1, QuietTally
  <1>3. ASSUME InFlight(s), WorksOn(s, d, v), MayAdd(s, d, v)' => MayAdd(s, d, v)
        PROVE  Tally(s, d, v)
    <2>1. excused'[d] = excused[d] + 1
      BY <1>1, <1>3 DEF WorksOn
    <2>2. Adds(s, d, v)' <= Adds(s, d, v)
      BY <1>3 DEF Adds
    <2> QED BY <1>0, <2>1, <2>2 DEF Tally
  <1>4. ASSUME MayAdd(s, d, v), ~MayAdd(s, d, v)'
        PROVE  Tally(s, d, v)
    <2>1. Adds(s, d, v) = 1 /\ Adds(s, d, v)' = 0
      BY <1>4 DEF Adds
    <2> QED BY <1>0, <1>1, <2>1 DEF Tally
  <1>5. CASE ~WorksOn(s, d, v)
    <2>1. ~WorksOn(s, d, v)' \/ phase'[s] \in {"idle", "draining"}
      BY <1>0, <1>5 DEF LoseSession, Crash, RecordFails, Finish, WorksOn, SenderType
    <2> QED BY <1>2, <1>5, <2>1 DEF MayAdd, InHand
  <1>6. CASE WorksOn(s, d, v) /\ (Crash(s) \/ RecordFails(s))
    <2>1. phase'[s] \in {"idle", "draining", "answered"}
      BY <1>0, <1>6 DEF Crash, RecordFails, Finish, SenderType
    <2>2. ~MayAdd(s, d, v)'
      BY <2>1 DEF MayAdd
    <2>3. CASE InFlight(s)
      BY <1>3, <1>6, <2>2, <2>3
    <2>4. CASE ~InFlight(s) /\ MayAdd(s, d, v)
      BY <1>4, <2>2, <2>4
    <2>5. CASE ~InFlight(s) /\ ~MayAdd(s, d, v)
      <3>1. ~InHand(s, d, v)
        BY <2>5 DEF InHand, InFlight, MayAdd, WorksOn
      <3> QED BY <1>2, <2>2, <3>1
    <2> QED BY <2>3, <2>4, <2>5
  <1>7. CASE WorksOn(s, d, v) /\ LoseSession(s)
    <2>1. /\ lock[d] = s /\ lock'[d] = NoOne /\ NoOne # s
          /\ UNCHANGED <<phase, job, outcome>>
      BY <1>0, <1>7, MailAssumption
         DEF LoseSession, Owns, WorksOn, SenderType, Senders, MailAssumption
    <2>2. CASE phase[s] = "recording" /\ outcome[s] \notin Success
      <3>1. /\ InFlight(s) /\ ~InHand(s, d, v)
            /\ MayAdd(s, d, v)' /\ ~MayAdd(s, d, v)
        BY <1>7, <2>1, <2>2 DEF InFlight, InHand, MayAdd, WorksOn
      <3>2. excused'[d] = excused[d] + 1
        BY <1>1, <1>7, <3>1 DEF WorksOn
      <3>3. Adds(s, d, v)' = 1 /\ Adds(s, d, v) = 0
        BY <3>1 DEF Adds
      <3>4. accepts'[d][v] + Adds(s, d, v)' + excused[d]
              <= accepts[d][v] + Adds(s, d, v) + excused'[d]
        BY <1>0, <3>2, <3>3
      <3> QED BY <1>0, <3>1, <3>4, QuietTally
    <2>3. CASE InFlight(s) /\ ~(phase[s] = "recording" /\ outcome[s] \notin Success)
      <3>1. MayAdd(s, d, v)' => MayAdd(s, d, v)
        BY <1>7, <2>1, <2>3 DEF MayAdd, WorksOn
      <3> QED BY <1>3, <1>7, <2>3, <3>1
    <2>4. CASE phase[s] = "checked"
      <3>1. MayAdd(s, d, v) /\ ~MayAdd(s, d, v)'
        BY <1>7, <2>1, <2>4 DEF MayAdd
      <3> QED BY <1>4, <3>1
    <2>5. CASE ~InFlight(s) /\ phase[s] # "checked"
      <3>1. ~MayAdd(s, d, v)' /\ ~InHand(s, d, v)
        BY <2>1, <2>5 DEF MayAdd, InHand, InFlight
      <3> QED BY <1>2, <3>1
    <2> QED BY <2>2, <2>3, <2>4, <2>5 DEF InFlight
  <1> QED BY <1>5, <1>6, <1>7

\* A success written to the row ends its claim: the row no longer waits, and
\* every other copy of it is behind.
LEMMA SuccessEndsClaim ==
  ASSUME TypeOK, Versions, [Next]_vars, NEW s \in Senders, Record(s),
         outcome[s] \in Success, NEW d \in Deliveries, NEW v \in 1..MaxRevision,
         WorksOn(s, d, v), MayRecord(s, job[s], outcome[s])
  PROVE  Over(d, v)'
PROOF
  <1>0. /\ row[d] \in Rows /\ outcome[s] \in Outcomes
        /\ row[d].revision \in Nat /\ row[d].attempts \in Nat
    BY MailAssumption DEF TypeOK, RowType, SenderType, Rows, MailAssumption
  <1>1. row'[d] = Recorded(s, row[d], outcome[s])
    BY DEF Record, WorksOn, TypeOK, RowType
  <1>2. row[d].revision = v
    BY DEF MayRecord, SameAttempt, WorksOn
  <1>3. /\ row'[d].revision = v /\ row'[d].attempts = row[d].attempts + 1
    BY <1>0, <1>1, <1>2, RecordedType, RecordedVersion
  <1>4. row'[d].status = outcome[s]
    <2> DEFINE o == outcome[s]
               n == row[d].attempts + 1
    <2>1. Recorded(s, row[d], o) =
            [row[d] EXCEPT !.status = o, !.attempts = n, !.aged = FALSE]
      BY DEF Recorded, Success
    <2> HIDE DEF o, n
    <2>2. Recorded(s, row[d], o).status = o
      BY <1>0, <2>1, Zenon DEF Rows
    <2> QED BY <1>1, <2>2 DEF o
  <1>5. ~Waiting(d)'
    BY <1>4 DEF Waiting, Retryable, Success
  <1>6. ASSUME NEW q \in Senders, NEW j \in Copies, j \in todo'[q] \/ j = job'[q],
               j.id = d
        PROVE  ~Current(j)'
    <2>1. \/ j \in todo[q] \/ j = job[q] \/ j = NoJob
          \/ row' = row
      BY <1>6, CopiesStep DEF Versions
    <2>2. row' # row
      BY <1>0, <1>3
    <2>3. j # NoJob
      BY DEF Copies, NoJob
    <2>4. Trails(j)
      BY <2>1, <2>2, <2>3 DEF Versions, CopiesTrail
    <2>5. j.revision \in Nat /\ j.attempts \in Nat
      BY MailAssumption DEF Copies, MailAssumption
    <2> QED BY <1>0, <1>2, <1>3, <1>6, <2>4, <2>5 DEF Trails, Passed, Current
  <1> QED BY <1>3, <1>5, <1>6 DEF Over

\* Writing the outcome: the owner's success ends the claim, or finds it over; a
\* late one that is no success gives up its place in the count.
LEMMA RecordTally ==
  ASSUME TypeOK, Versions, WaitingHasMessage, [Next]_vars, NEW s \in Senders,
         Record(s), NEW d \in Deliveries, NEW v \in 1..MaxRevision
  PROVE  Tally(s, d, v)
PROOF
  <1>0. /\ phase[s] = "recording" /\ phase'[s] \in {"idle", "draining"}
        /\ UNCHANGED <<accepts, excused>>
        /\ accepts[d][v] \in Nat /\ excused[d] \in Nat
        /\ OnlyMoves(s) /\ SenderType
    BY CountsType, SenderAlone DEF Record, Finish, AttemptStep, TypeOK, SenderType
  <1>1. Adds(s, d, v)' = 0
    BY <1>0 DEF Adds, MayAdd
  <1>2. CASE MayAdd(s, d, v)
    <2>1. Adds(s, d, v) = 1
      BY <1>2 DEF Adds
    <2> QED BY <1>0, <1>1, <2>1 DEF Tally
  <1>3. CASE ~MayAdd(s, d, v)
    <2>1. Adds(s, d, v) = 0
      BY <1>3 DEF Adds
    <2>2. SUFFICES ASSUME Spent(d, v), ~Over(d, v)
                   PROVE  Spent(d, v)'
      <3>1. Over(d, v) => Spent(d, v)'
        BY OverStays DEF Spent
      <3> QED BY <1>0, <1>1, <2>1, <2>2, <3>1 DEF Tally
    <2>3. PICK q \in Senders :
            /\ InHand(q, d, v)
            /\ row[d].revision # v \/ job[q].attempts = row[d].attempts
      BY <2>2 DEF Spent
    <2>4. /\ row[d] \in Rows /\ outcome[s] \in Outcomes
          /\ job[s] \in Copies /\ job[s].id \in Deliveries
      <3>1. job[s] \in Copies /\ job[s].id \in Deliveries
        BY <1>0, JobType
      <3> QED BY <1>0, <3>1 DEF TypeOK, RowType, SenderType
    <2>5. \/ row'[d] = row[d]
          \/ /\ job[s].id = d /\ MayRecord(s, job[s], outcome[s])
             /\ row'[d] = Recorded(s, row[d], outcome[s])
      <3> DEFINE new == Recorded(s, row[job[s].id], outcome[s])
      <3>1. row' = IF MayRecord(s, job[s], outcome[s])
                   THEN [row EXCEPT ![job[s].id] = new] ELSE row
        BY DEF Record
      <3>2. new = Recorded(s, row[job[s].id], outcome[s])
        OBVIOUS
      <3> HIDE DEF new
      <3> QED BY <3>1, <3>2 DEF TypeOK, RowType
    <2>6. CASE q # s
      <3>1. InHand(q, d, v)' /\ job'[q] = job[q]
        BY <1>0, <2>3, <2>6 DEF OnlyMoves, InHand, WorksOn
      <3>2. CASE row'[d] = row[d]
        BY <2>3, <3>1, <3>2 DEF Spent
      <3>3. CASE /\ job[s].id = d /\ MayRecord(s, job[s], outcome[s])
                 /\ row'[d] = Recorded(s, row[d], outcome[s])
        <4>1. CASE row[d].revision # v
          <5>1. row'[d].revision = row[d].revision
            BY <2>4, <3>3, RecordedType
          <5> QED BY <3>1, <4>1, <5>1 DEF Spent
        <4>2. CASE row[d].revision = v
          <5>1. WorksOn(s, d, v)
            BY <3>3, <4>2 DEF WorksOn, MayRecord, SameAttempt
          <5>2. outcome[s] \in Success
            BY <1>0, <1>3, <2>3, <2>6, <5>1 DEF MayAdd, InHand
          <5> QED BY <3>3, <5>1, <5>2, SuccessEndsClaim DEF Spent
        <4> QED BY <4>1, <4>2
      <3> QED BY <2>5, <3>2, <3>3
    <2>7. CASE q = s
      <3>1. WorksOn(s, d, v) /\ outcome[s] \in Success
        BY <1>0, <2>3, <2>7 DEF InHand
      <3>2. CASE MayRecord(s, job[s], outcome[s])
        BY <3>1, <3>2, SuccessEndsClaim DEF Spent
      <3>3. CASE ~MayRecord(s, job[s], outcome[s])
        <4>1. ~SameAttempt(job[s])
          BY <3>1, <3>3 DEF MayRecord, Success, ProviderResults
        <4>2. Trails(job[s])
          BY <2>4 DEF Versions, CopiesTrail, Copies, NoJob
        <4>3. row[d].revision \in Nat /\ row[d].attempts \in Nat
          BY <2>4, MailAssumption DEF Rows, MailAssumption
        <4>4. row[d].revision = v
          BY <2>2, <3>1, <4>2, <4>3 DEF Trails, Passed, Current, WorksOn, Over
        <4>5. job[s].attempts = row[d].attempts
          BY <2>3, <2>7, <4>4
        <4>6. ~HasSnapshot(d)
          BY <3>1, <4>1, <4>4, <4>5 DEF SameAttempt, WorksOn
        <4>7. ~Waiting(d)
          BY <4>6 DEF WaitingHasMessage, Waiting
        <4> QED BY <2>2, <4>4, <4>6, <4>7 DEF Over
      <3> QED BY <3>2, <3>3
    <2> QED BY <2>6, <2>7
  <1> QED BY <1>2, <1>3

\* A step of nobody who sends leaves the count as it was.
LEMMA NoSenderCount ==
  ASSUME TypeOK, Versions, [Next]_vars, UNCHANGED <<senderVars, accepts, excused>>,
         NEW d \in Deliveries, NEW v \in 1..MaxRevision,
         RowTouched(d) \/ RowNew(d) \/ RowRequeued(d), CountedAt(d, v)
  PROVE  CountedAt(d, v)'
PROOF
  <1>1. \A q \in Senders : /\ MayAdd(q, d, v)' <=> MayAdd(q, d, v)
                           /\ InHand(q, d, v) => InHand(q, d, v)' /\ job'[q] = job[q]
    BY DEF senderVars, MayAdd, InHand, WorksOn
  <1>2. Spent(d, v) => Spent(d, v)'
    BY <1>1, SpentStays
  <1>3. Adding(d, v)' = Adding(d, v)
    BY <1>1 DEF Adding
  <1>4. Total(d, v)' = Total(d, v)
    BY <1>3 DEF Total
  <1> QED BY <1>2, <1>4 DEF CountedAt

\* Nobody is mailed twice under one claim of a row, whoever sends it and
\* whatever interleaves, beyond one extra mail for each fault that struck while
\* that row's mail was out.
THEOREM NoSecondMail == Spec => []MailedOncePerClaim
PROOF
  <1>1. Init => Counted
    <2> SUFFICES ASSUME Init, NEW d \in Deliveries, NEW v \in 1..MaxRevision
                 PROVE  CountedAt(d, v)
      BY DEF Counted
    <2>1. accepts[d][v] = 0 /\ excused[d] = 0
      BY DEF Init
    <2>2. Adding(d, v) = {}
      BY DEF Init, Adding, MayAdd
    <2>3. Total(d, v) = 0
      BY <2>1, <2>2, FS_EmptySet DEF Total
    <2> QED BY <2>1, <2>3 DEF CountedAt
  <1>2. TypeOK /\ TypeOK' /\ Versions /\ WaitingHasMessage /\ Counted /\ [Next]_vars
          => Counted'
    <2> SUFFICES ASSUME TypeOK, TypeOK', Versions, WaitingHasMessage, Counted,
                        [Next]_vars, NEW d \in Deliveries, NEW v \in 1..MaxRevision
                 PROVE  CountedAt(d, v)'
      BY DEF Counted
    <2>0. CountedAt(d, v) /\ HistoryType /\ HistoryType'
      BY DEF Counted, TypeOK
    <2>1. ASSUME NEW s \in Senders, PickUp(s) \/ AttemptStep(s) \/ FaultStep(s)
          PROVE  CountedAt(d, v)'
      <3>1. Tally(s, d, v)
        BY <2>1, PickUpTally, CheckTally, AnswerTally, CarryTally, FaultTally,
           RecordTally DEF AttemptStep, FaultStep
      <3> QED BY <2>0, <2>1, <3>1, SenderAlone, TallyKeepsCount
    <2>2. ASSUME NEW r \in Requests, RequestStep(r)
          PROVE  CountedAt(d, v)'
      <3>1. RowTouched(d) \/ RowNew(d) \/ RowRequeued(d)
        BY <2>2, RequestClaims DEF Versions, RowTouched
      <3>2. UNCHANGED <<senderVars, accepts, excused>>
        BY <2>2 DEF RequestStep, BeginSend, CreateResend, CreateInitial,
                    ClassifyExisting, RetryExisting, ReclaimCancelled,
                    SenderSideUnchanged
      <3> QED BY <2>0, <3>1, <3>2, NoSenderCount
    <2>3. CASE OtherStep
      <3>1. RowTouched(d)
        BY <2>3, OthersRowChange
      <3>2. UNCHANGED <<senderVars, accepts, excused>>
        BY <2>3 DEF OtherStep, StopBatch, Erase, MatchBounce, Age, ApplyBounce,
                    SweepRead, SweepClear, OthersUnchanged
      <3> QED BY <2>0, <3>1, <3>2, NoSenderCount
    <2>4. CASE UNCHANGED vars
      <3>1. RowTouched(d)
        BY <2>4 DEF vars, RowTouched, RowUnchanged
      <3>2. UNCHANGED <<senderVars, accepts, excused>>
        BY <2>4 DEF vars, senderVars
      <3> QED BY <2>0, <3>1, <3>2, NoSenderCount
    <2> QED BY <2>1, <2>2, <2>3, <2>4
            DEF Next, WorkerStep, PickUp, OtherStep, Senders
  <1>3. TypeOK /\ Counted => MailedOncePerClaim
    <2> SUFFICES ASSUME TypeOK, Counted, NEW d \in Deliveries, NEW v \in 1..MaxRevision
                 PROVE  accepts[d][v] <= 1 + excused[d]
      BY DEF MailedOncePerClaim
    <2>1. accepts[d][v] \in Nat /\ excused[d] \in Nat
      BY CountsType DEF TypeOK
    <2>2. Cardinality(Adding(d, v)) \in Nat
      BY AddingFinite
    <2>3. Total(d, v) <= 1 + excused[d]
      BY DEF Counted, CountedAt
    <2> QED BY <2>1, <2>2, <2>3 DEF Total
  <1> QED BY <1>1, <1>2, <1>3, TypeCorrect, VersionsKept, NeverWaitsEmptied,
             PTL DEF Spec

-----------------------------------------------------------------------------
(***************************************************************************)
(* Counting the mails of one person.  The count of NoSecondMail, over all  *)
(* rows and claims of the person at once: a step moves one sender, which   *)
(* works on one claim, and leaves what is counted elsewhere as it was.     *)
(***************************************************************************)
Claims(a) == RowsOf(a) \X (1..MaxRevision)
AddingFor(a) == {s \in Senders : \E c \in Claims(a) : MayAdd(s, c[1], c[2])}
SpentFor(a) == {c \in Claims(a) : Spent(c[1], c[2])}

CountedFor(a) == Cardinality(MailsTo(a)) + Cardinality(AddingFor(a))
                   <= Cardinality(FaultsOf(a)) + Cardinality(SpentFor(a))

\* What is counted is finite.
LEMMA ClaimsFinite ==
  ASSUME NEW a
  PROVE  IsFiniteSet(RowsOf(a)) /\ IsFiniteSet(Claims(a))
PROOF
  <1>1. IsFiniteSet(Requests \cup {Initial})
    BY MailAssumption, FS_AddElement DEF MailAssumption
  <1>2. IsFiniteSet({a})
    BY FS_Singleton
  <1>3. IsFiniteSet((Requests \cup {Initial}) \X {a})
    BY <1>1, <1>2, FS_Product
  <1>4. RowsOf(a) \subseteq (Requests \cup {Initial}) \X {a}
    BY DEF RowsOf, Owner, Deliveries
  <1>5. IsFiniteSet(RowsOf(a))
    BY <1>3, <1>4, FS_Subset
  <1>6. IsFiniteSet(1..MaxRevision)
    BY FS_Interval, MailAssumption DEF MailAssumption
  <1> QED BY <1>5, <1>6, FS_Product DEF Claims

LEMMA SendersFinite == IsFiniteSet(Senders)
PROOF
  BY MailAssumption, FS_Union DEF Senders, MailAssumption

\* Sets of numbered members, finitely many for each of finitely many keys.
LEMMA NumbersFinite ==
  ASSUME NEW K, IsFiniteSet(K), NEW h \in [K -> Nat]
  PROVE  IsFiniteSet(UNION {{q} \X (1..h[q]) : q \in K})
PROOF
  <1> DEFINE Part(q) == {q} \X (1..h[q])
  <1>1. \A q \in K : IsFiniteSet(Part(q))
    <2> SUFFICES ASSUME NEW q \in K
                 PROVE  IsFiniteSet({q} \X (1..h[q]))
      OBVIOUS
    <2>1. h[q] \in Int /\ 1 \in Int
      OBVIOUS
    <2>2. IsFiniteSet(1..h[q]) /\ IsFiniteSet({q})
      BY <2>1, FS_Interval, FS_Singleton
    <2> QED BY <2>2, FS_Product
  <1>2. IsFiniteSet({Part(q) : q \in K})
    <2> DEFINE parts == [q \in K |-> Part(q)]
    <2>1. parts \in Surjection(K, {Part(q) : q \in K})
      BY DEF Surjection
    <2> QED BY <2>1, FS_Surjection
  <1> QED BY <1>1, <1>2, FS_UNION

\* A set with n numbered members for each key: one more for one key is one more
\* member.
LEMMA OneMoreNumber ==
  ASSUME NEW K, IsFiniteSet(K), NEW f \in [K -> Nat], NEW g \in [K -> Nat], NEW k \in K,
         g[k] \in {f[k], f[k] + 1}, \A q \in K : q # k => g[q] = f[q],
         NEW S, S = UNION {{q} \X (1..f[q]) : q \in K},
         NEW T, T = UNION {{q} \X (1..g[q]) : q \in K}
  PROVE  /\ Cardinality(S) \in Nat /\ Cardinality(T) \in Nat
         /\ Cardinality(T) + f[k] = Cardinality(S) + g[k]
PROOF
  <1>2. IsFiniteSet(S) /\ IsFiniteSet(T)
    BY NumbersFinite
  <1>3. Cardinality(S) \in Nat /\ Cardinality(T) \in Nat
    BY <1>2, FS_CardinalityType
  <1>4. f[k] \in Nat /\ g[k] \in Nat
    OBVIOUS
  <1>5. CASE g[k] = f[k]
    <2>1. \A q \in K : g[q] = f[q]
      BY <1>5
    <2>2. S = T
      BY <2>1
    <2> QED BY <1>3, <1>4, <1>5, <2>2
  <1>6. CASE g[k] = f[k] + 1
    <2> DEFINE n == <<k, f[k] + 1>>
    <2>1. n \notin S
      BY <1>4
    <2>2. T = S \cup {n}
      <3>1. ASSUME NEW x \in T
            PROVE  x \in S \cup {n}
        <4>1. PICK q \in K, i \in Nat : i \in 1..g[q] /\ x = <<q, i>>
          BY <3>1
        <4>2. CASE q # k
          BY <4>1, <4>2
        <4>3. CASE q = k
          <5>1. i \in 1..f[k] \/ i = f[k] + 1
            BY <1>4, <1>6, <4>1, <4>3
          <5> QED BY <4>1, <4>3, <5>1
        <4> QED BY <4>2, <4>3
      <3>2. ASSUME NEW x \in S
            PROVE  x \in T
        <4>1. PICK q \in K, i \in Nat : i \in 1..f[q] /\ x = <<q, i>>
          BY <3>2
        <4>2. f[q] \in Nat /\ g[q] \in Nat /\ f[q] <= g[q]
          BY <1>4, <1>6
        <4>3. i \in 1..g[q]
          BY <4>1, <4>2
        <4> QED BY <4>1, <4>3
      <3>3. n \in T
        <4>1. f[k] + 1 \in 1..g[k]
          BY <1>4, <1>6
        <4> QED BY <4>1
      <3> QED BY <3>1, <3>2, <3>3
    <2> HIDE DEF n
    <2>3. Cardinality(T) = Cardinality(S) + 1
      BY <1>2, <2>1, <2>2, FS_AddElement
    <2> QED BY <1>3, <1>4, <1>6, <2>3
  <1> QED BY <1>5, <1>6

\* A sender's step adds at most one mail and one fault, where the sender works.
LEMMA SenderHistory ==
  ASSUME TypeOK, NEW s \in Senders, PickUp(s) \/ AttemptStep(s) \/ FaultStep(s),
         NEW d \in Deliveries, NEW v \in 1..MaxRevision
  PROVE  /\ accepts'[d][v] \in {accepts[d][v], accepts[d][v] + 1}
         /\ excused'[d] \in {excused[d], excused[d] + 1}
         /\ ~WorksOn(s, d, v) => accepts'[d][v] = accepts[d][v]
         /\ job[s].id # d \/ job[s] = NoJob => excused'[d] = excused[d]
PROOF
  <1>0. accepts[d][v] \in Nat /\ excused[d] \in Nat /\ HistoryType
    BY CountsType DEF TypeOK
  <1>1. CASE \/ PickUp(s) \/ Obstructed(s) \/ RetryGivesUp(s) \/ CheckBeforeSend(s)
             \/ HandOver(s) \/ ProviderThrows(s) \/ ConfirmOwned(s) \/ Abort(s)
             \/ Record(s)
    BY <1>1 DEF PickUp, DrainClaim, DrainOwn, RetryStart, Obstructed, RetryGivesUp,
                CheckBeforeSend, HandOver, ProviderThrows, ConfirmOwned, Abort, Record
  <1>2. ASSUME accepts' = Taken(job[s]), phase[s] = "sending"
        PROVE  /\ accepts'[d][v] \in {accepts[d][v], accepts[d][v] + 1}
               /\ ~WorksOn(s, d, v) => accepts'[d][v] = accepts[d][v]
    <2>1. job[s].id \in Deliveries /\ job[s].revision \in 1..MaxRevision
      BY <1>2, JobType DEF TypeOK
    <2>2. accepts'[d][v] =
            accepts[d][v] + (IF job[s].id = d /\ job[s].revision = v THEN 1 ELSE 0)
      BY <1>0, <1>2, <2>1, TakenCounts
    <2> QED BY <1>0, <2>2 DEF WorksOn
  <1>3. CASE ProviderAnswers(s)
    BY <1>2, <1>3 DEF ProviderAnswers
  <1>4. ASSUME Fault(s)
        PROVE  /\ excused'[d] \in {excused[d], excused[d] + 1}
               /\ job[s].id # d \/ job[s] = NoJob => excused'[d] = excused[d]
    <2>1. InFlight(s) => job[s] # NoJob
      BY DEF TypeOK, SenderType, InFlight
    <2> QED BY <1>0, <1>4, <2>1, FaultCounts
  <1>5. CASE LoseSession(s) \/ Crash(s) \/ RecordFails(s)
    BY <1>4, <1>5 DEF LoseSession, Crash, RecordFails
  <1>6. CASE AnswerLost(s)
    BY <1>2, <1>4, <1>6 DEF AnswerLost
  <1> QED BY <1>1, <1>3, <1>5, <1>6 DEF AttemptStep, FaultStep

\* A sender's step leaves a claim alone on which the sender does not work.
LEMMA Elsewhere ==
  ASSUME TypeOK, Versions, WaitingHasMessage, [Next]_vars, NEW s \in Senders,
         PickUp(s) \/ AttemptStep(s) \/ FaultStep(s),
         NEW d \in Deliveries, NEW v \in 1..MaxRevision, ~WorksOn(s, d, v)
  PROVE  /\ ~MayAdd(s, d, v) /\ ~MayAdd(s, d, v)'
         /\ Spent(d, v) => Spent(d, v)'
PROOF
  <1>0. OnlyMoves(s) /\ SenderType
    BY SenderAlone DEF TypeOK
  <1>1. ~MayAdd(s, d, v) /\ ~InHand(s, d, v)
    BY DEF MayAdd, InHand
  <1>2. ~MayAdd(s, d, v)'
    <2>1. ASSUME job'[s] # job[s]
          PROVE  phase'[s] \in {"idle", "draining", "owned"}
      BY <1>0, <2>1 DEF PickUp, DrainClaim, DrainOwn, RetryStart, AttemptStep, FaultStep,
         Obstructed, RetryGivesUp, CheckBeforeSend, HandOver, ProviderAnswers,
         ProviderThrows, ConfirmOwned, Abort, Record, LoseSession, Crash, AnswerLost,
         RecordFails, Finish, SenderType
    <2> QED BY <2>1 DEF MayAdd, WorksOn
  <1>3. ASSUME RowTouched(d) \/ RowNew(d) \/ RowRequeued(d)
        PROVE  Spent(d, v) => Spent(d, v)'
    <2>1. ASSUME NEW q \in Senders, InHand(q, d, v)
          PROVE  InHand(q, d, v)' /\ job'[q] = job[q]
      BY <1>0, <1>1, <2>1 DEF OnlyMoves, InHand, WorksOn
    <2> QED BY <1>3, <2>1, SpentStays
  <1>4. CASE ~Record(s)
    <2>1. row' = row
      BY <1>4 DEF PickUp, DrainClaim, DrainOwn, RetryStart, AttemptStep, FaultStep,
         Obstructed, RetryGivesUp, CheckBeforeSend, HandOver, ProviderAnswers,
         ProviderThrows, ConfirmOwned, Abort, LoseSession, Crash, AnswerLost,
         RecordFails, rowVars
    <2>2. RowTouched(d)
      BY <2>1 DEF RowTouched, RowUnchanged
    <2> QED BY <1>1, <1>2, <1>3, <2>2
  <1>5. CASE Record(s)
    <2>1. Tally(s, d, v)
      BY <1>5, RecordTally
    <2>2. /\ accepts[d][v] \in Nat /\ excused[d] \in Nat
          /\ accepts'[d][v] = accepts[d][v] /\ excused'[d] = excused[d]
      BY <1>5, CountsType DEF Record, TypeOK
    <2>3. Adds(s, d, v) = 0 /\ Adds(s, d, v)' = 0
      BY <1>1, <1>2 DEF Adds
    <2>4. Spent(d, v) => Spent(d, v)'
      BY <2>1, <2>2, <2>3 DEF Tally
    <2> QED BY <1>1, <1>2, <2>4
  <1> QED BY <1>4, <1>5

\* A set in which at most one member was lost.
LEMMA OneLost ==
  ASSUME NEW S, NEW T, IsFiniteSet(S), IsFiniteSet(T), NEW c, S \ {c} \subseteq T
  PROVE  /\ Cardinality(S) \in Nat /\ Cardinality(T) \in Nat
         /\ Cardinality(S) <= Cardinality(T) + 1
         /\ (c \in S => c \in T) => Cardinality(S) <= Cardinality(T)
         /\ c \notin S /\ c \in T => Cardinality(S) + 1 <= Cardinality(T)
PROOF
  <1>1. Cardinality(S) \in Nat /\ Cardinality(T) \in Nat
    BY FS_CardinalityType
  <1>2. /\ Cardinality(S \ {c}) <= Cardinality(T)
        /\ Cardinality(S \ {c}) = IF c \in S THEN Cardinality(S) - 1 ELSE Cardinality(S)
    BY FS_Subset, FS_RemoveElement
  <1>3. Cardinality(S) <= Cardinality(T) + 1
    BY <1>1, <1>2
  <1>4. ASSUME c \in S => c \in T
        PROVE  Cardinality(S) <= Cardinality(T)
    <2>1. S \in SUBSET T
      BY <1>4
    <2> QED BY <2>1, FS_Subset
  <1>5. ASSUME c \notin S, c \in T
        PROVE  Cardinality(S) + 1 <= Cardinality(T)
    <2>1. S \cup {c} \in SUBSET T
      BY <1>5
    <2>2. Cardinality(S \cup {c}) = Cardinality(S) + 1
      BY <1>5, FS_AddElement
    <2> QED BY <2>1, <2>2, FS_Subset
  <1> QED BY <1>1, <1>3, <1>4, <1>5

\* Mails and faults of a person, counted by claim and by row.
LEMMA MailsCount ==
  ASSUME HistoryType, HistoryType', NEW a, NEW d \in RowsOf(a), NEW v \in 1..MaxRevision,
         accepts'[d][v] \in {accepts[d][v], accepts[d][v] + 1},
         \A e \in RowsOf(a), u \in 1..MaxRevision :
           <<e, u>> # <<d, v>> => accepts'[e][u] = accepts[e][u]
  PROVE  /\ Cardinality(MailsTo(a)) \in Nat /\ Cardinality(MailsTo(a))' \in Nat
         /\ Cardinality(MailsTo(a))' + accepts[d][v]
              = Cardinality(MailsTo(a)) + accepts'[d][v]
PROOF
  <1> DEFINE K == RowsOf(a) \X (1..MaxRevision)
             f == [c \in K |-> accepts[c[1]][c[2]]]
             g == [c \in K |-> accepts'[c[1]][c[2]]]
             k == <<d, v>>
  <1>1. IsFiniteSet(K)
    BY ClaimsFinite DEF Claims
  <1>2. \A e \in RowsOf(a), u \in 1..MaxRevision :
          accepts[e][u] \in Nat /\ accepts'[e][u] \in Nat
    <2> SUFFICES ASSUME NEW e \in RowsOf(a), NEW u \in 1..MaxRevision
                 PROVE  accepts[e][u] \in Nat /\ accepts'[e][u] \in Nat
      OBVIOUS
    <2>1. /\ accepts[e] \in [1..MaxRevision -> Nat]
          /\ accepts'[e] \in [1..MaxRevision -> Nat]
      BY DEF HistoryType, RowsOf
    <2> QED BY <2>1, Zenon
  <1>3. f \in [K -> Nat] /\ g \in [K -> Nat] /\ k \in K
    BY <1>2
  <1>4. g[k] \in {f[k], f[k] + 1} /\ \A q \in K : q # k => g[q] = f[q]
    OBVIOUS
  <1>5. f[k] = accepts[d][v] /\ g[k] = accepts'[d][v]
    OBVIOUS
  <1>6. MailsTo(a) = UNION {{q} \X (1..f[q]) : q \in K}
    BY DEF MailsTo
  <1>7. MailsTo(a)' = UNION {{q} \X (1..g[q]) : q \in K}
    BY DEF MailsTo, RowsOf
  <1> HIDE DEF K, f, g, k
  <1> QED BY <1>1, <1>3, <1>4, <1>5, <1>6, <1>7, OneMoreNumber

LEMMA FaultsCount ==
  ASSUME HistoryType, HistoryType', NEW a, NEW d \in RowsOf(a),
         excused'[d] \in {excused[d], excused[d] + 1},
         \A e \in RowsOf(a) : e # d => excused'[e] = excused[e]
  PROVE  /\ Cardinality(FaultsOf(a)) \in Nat /\ Cardinality(FaultsOf(a))' \in Nat
         /\ Cardinality(FaultsOf(a))' + excused[d]
              = Cardinality(FaultsOf(a)) + excused'[d]
PROOF
  <1> DEFINE K == RowsOf(a)
             f == [e \in K |-> excused[e]]
             g == [e \in K |-> excused'[e]]
  <1>1. IsFiniteSet(K)
    BY ClaimsFinite
  <1>2. f \in [K -> Nat] /\ g \in [K -> Nat] /\ d \in K
    BY DEF HistoryType, RowsOf
  <1>3. /\ g[d] \in {f[d], f[d] + 1} /\ \A q \in K : q # d => g[q] = f[q]
        /\ f[d] = excused[d] /\ g[d] = excused'[d]
    OBVIOUS
  <1>4. FaultsOf(a) = UNION {{q} \X (1..f[q]) : q \in K}
    BY DEF FaultsOf
  <1>5. FaultsOf(a)' = UNION {{q} \X (1..g[q]) : q \in K}
    BY DEF FaultsOf, RowsOf
  <1> HIDE DEF K, f, g
  <1> QED BY <1>1, <1>2, <1>3, <1>4, <1>5, OneMoreNumber

\* The numbers of a person's count are natural.
LEMMA CountedType ==
  ASSUME HistoryType, NEW a
  PROVE  /\ Cardinality(MailsTo(a)) \in Nat /\ Cardinality(FaultsOf(a)) \in Nat
         /\ Cardinality(AddingFor(a)) \in Nat /\ Cardinality(SpentFor(a)) \in Nat
PROOF
  <1>1. IsFiniteSet(MailsTo(a))
    <2> DEFINE f == [c \in Claims(a) |-> accepts[c[1]][c[2]]]
    <2>1. f \in [Claims(a) -> Nat]
      <3> SUFFICES ASSUME NEW e \in RowsOf(a), NEW u \in 1..MaxRevision
                   PROVE  accepts[e][u] \in Nat
        BY DEF Claims
      <3>1. accepts[e] \in [1..MaxRevision -> Nat]
        BY DEF HistoryType, RowsOf
      <3> QED BY <3>1, Zenon
    <2>2. MailsTo(a) = UNION {{q} \X (1..f[q]) : q \in Claims(a)}
      BY DEF MailsTo, Claims
    <2> HIDE DEF f
    <2> QED BY <2>1, <2>2, NumbersFinite, ClaimsFinite
  <1>2. IsFiniteSet(FaultsOf(a))
    <2> DEFINE f == [d \in RowsOf(a) |-> excused[d]]
    <2>1. f \in [RowsOf(a) -> Nat]
      BY DEF HistoryType, RowsOf
    <2>2. FaultsOf(a) = UNION {{q} \X (1..f[q]) : q \in RowsOf(a)}
      BY DEF FaultsOf
    <2> HIDE DEF f
    <2> QED BY <2>1, <2>2, NumbersFinite, ClaimsFinite
  <1>3. IsFiniteSet(AddingFor(a))
    BY SendersFinite, FS_Subset DEF AddingFor
  <1>4. IsFiniteSet(SpentFor(a))
    BY ClaimsFinite, FS_Subset DEF SpentFor
  <1> QED BY <1>1, <1>2, <1>3, <1>4, FS_CardinalityType

\* What is counted for a person are finite sets, before a step and after.
LEMMA CountsFor ==
  ASSUME HistoryType, HistoryType', NEW a
  PROVE  /\ IsFiniteSet(AddingFor(a)) /\ IsFiniteSet(AddingFor(a)')
         /\ IsFiniteSet(SpentFor(a)) /\ IsFiniteSet(SpentFor(a)')
PROOF
  <1>1. AddingFor(a) \subseteq Senders /\ AddingFor(a)' \subseteq Senders
    BY DEF AddingFor
  <1>2. SpentFor(a) \subseteq Claims(a) /\ SpentFor(a)' \subseteq Claims(a)
    BY DEF SpentFor, Claims, RowsOf
  <1> QED BY <1>1, <1>2, SendersFinite, ClaimsFinite, FS_Subset

\* A step of a sender keeps the count of the person whose claim the sender
\* works on: there it is one of the three of Tally, elsewhere nothing is lost.
LEMMA WorkingCounted ==
  ASSUME TypeOK, TypeOK', Versions, WaitingHasMessage, [Next]_vars, NEW s \in Senders,
         PickUp(s) \/ AttemptStep(s) \/ FaultStep(s), NEW a \in Attendees,
         CountedFor(a), NEW d \in RowsOf(a), NEW v \in 1..MaxRevision,
         WorksOn(s, d, v), Tally(s, d, v)
  PROVE  CountedFor(a)'
PROOF
  <1>0. /\ d \in Deliveries /\ <<d, v>> \in Claims(a) /\ OnlyMoves(s)
        /\ HistoryType /\ HistoryType' /\ job[s].id = d /\ job[s].revision = v
    BY SenderAlone DEF RowsOf, Claims, TypeOK, WorksOn
  <1>1. \A e \in RowsOf(a), u \in 1..MaxRevision : <<e, u>> # <<d, v>> =>
          /\ accepts'[e][u] = accepts[e][u]
          /\ ~MayAdd(s, e, u) /\ ~MayAdd(s, e, u)'
          /\ Spent(e, u) => Spent(e, u)'
    <2> SUFFICES ASSUME NEW e \in RowsOf(a), NEW u \in 1..MaxRevision,
                        <<e, u>> # <<d, v>>
                 PROVE  /\ accepts'[e][u] = accepts[e][u]
                        /\ ~MayAdd(s, e, u) /\ ~MayAdd(s, e, u)'
                        /\ Spent(e, u) => Spent(e, u)'
      OBVIOUS
    <2>1. ~WorksOn(s, e, u) /\ e \in Deliveries
      BY <1>0 DEF WorksOn, RowsOf
    <2> QED BY <2>1, Elsewhere, SenderHistory
  <1>2. /\ accepts'[d][v] \in {accepts[d][v], accepts[d][v] + 1}
        /\ excused'[d] \in {excused[d], excused[d] + 1}
        /\ \A e \in RowsOf(a) : e # d => excused'[e] = excused[e]
    <2>1. ASSUME NEW e \in RowsOf(a), e # d
          PROVE  excused'[e] = excused[e]
      BY <1>0, <2>1, SenderHistory DEF RowsOf
    <2> QED BY <1>0, <2>1, SenderHistory
  <1>3. PICK m, m1, e, e1, n, n1, p, p1 :
          /\ m = Cardinality(MailsTo(a)) /\ m1 = Cardinality(MailsTo(a))'
          /\ e = Cardinality(FaultsOf(a)) /\ e1 = Cardinality(FaultsOf(a))'
          /\ n = Cardinality(AddingFor(a)) /\ n1 = Cardinality(AddingFor(a))'
          /\ p = Cardinality(SpentFor(a)) /\ p1 = Cardinality(SpentFor(a))'
    OBVIOUS
  <1>4. PICK x, x1, y, y1, w, w1 :
          /\ x = accepts[d][v] /\ x1 = accepts'[d][v]
          /\ y = excused[d] /\ y1 = excused'[d]
          /\ w = Adds(s, d, v) /\ w1 = Adds(s, d, v)'
    OBVIOUS
  <1>5. /\ x \in Nat /\ y \in Nat /\ x1 \in {x, x + 1} /\ y1 \in {y, y + 1}
        /\ w \in {0, 1} /\ w1 \in {0, 1}
    BY <1>0, <1>2, <1>4, CountsType
  <1>6. m \in Nat /\ m1 \in Nat /\ m1 + x = m + x1
    BY <1>0, <1>1, <1>2, <1>3, <1>4, MailsCount
  <1>7. e \in Nat /\ e1 \in Nat /\ e1 + y = e + y1
    BY <1>0, <1>2, <1>3, <1>4, FaultsCount
  <1>8. n \in Nat /\ n1 \in Nat /\ n1 + w = n + w1
    <2>1. PICK S, T : S = AddingFor(a) /\ T = AddingFor(a)'
      OBVIOUS
    <2>2. \A q : q # s => (q \in S <=> q \in T)
      <3>1. ASSUME NEW q \in Senders, q # s, NEW c \in Claims(a)
            PROVE  MayAdd(q, c[1], c[2])' <=> MayAdd(q, c[1], c[2])
        <4>1. c[1] \in Deliveries
          BY DEF Claims, RowsOf
        <4> QED BY <1>0, <3>1, <4>1 DEF OnlyMoves, MayAdd, WorksOn
      <3> QED BY <2>1, <3>1 DEF AddingFor, Claims, RowsOf
    <2>3. /\ s \in S <=> MayAdd(s, d, v)
          /\ s \in T <=> MayAdd(s, d, v)'
      BY <1>0, <1>1, <2>1 DEF AddingFor, Claims, RowsOf
    <2>4. IsFiniteSet(S) /\ IsFiniteSet(T)
      BY <1>0, <2>1, CountsFor
    <2>5. /\ n \in Nat /\ n1 \in Nat
          /\ s \in S /\ s \in T => n1 = n
          /\ s \notin S /\ s \notin T => n1 = n
          /\ s \in S /\ s \notin T => n = n1 + 1
          /\ s \notin S /\ s \in T => n1 = n + 1
      BY <1>3, <2>1, <2>2, <2>4, OneMember
    <2>6. /\ w = IF s \in S THEN 1 ELSE 0
          /\ w1 = IF s \in T THEN 1 ELSE 0
      BY <1>4, <2>3 DEF Adds
    <2> QED BY <2>5, <2>6
  <1>9. /\ p \in Nat /\ p1 \in Nat /\ p <= p1 + 1
        /\ (Spent(d, v) => Spent(d, v)') => p <= p1
        /\ ~Spent(d, v) /\ Spent(d, v)' => p + 1 <= p1
    <2>1. PICK S, T : S = SpentFor(a) /\ T = SpentFor(a)'
      OBVIOUS
    <2>2. IsFiniteSet(S) /\ IsFiniteSet(T)
      BY <1>0, <2>1, CountsFor
    <2>3. /\ <<d, v>> \in S <=> Spent(d, v)
          /\ <<d, v>> \in T <=> Spent(d, v)'
      BY <1>0, <2>1 DEF SpentFor, Claims, RowsOf
    <2>4. S \ {<<d, v>>} \subseteq T
      <3>1. ASSUME NEW c \in Claims(a), c # <<d, v>>, Spent(c[1], c[2])
            PROVE  Spent(c[1], c[2])'
        <4>1. PICK q \in RowsOf(a), u \in 1..MaxRevision : c = <<q, u>>
          BY DEF Claims
        <4>2. <<q, u>> # <<d, v>> /\ Spent(q, u)
          BY <3>1, <4>1
        <4>3. Spent(q, u)'
          BY <1>1, <4>2
        <4> QED BY <4>1, <4>3
      <3> QED BY <2>1, <3>1 DEF SpentFor, Claims, RowsOf
    <2> QED BY <1>3, <2>1, <2>2, <2>3, <2>4, OneLost
  <1>10. m + n <= e + p
    BY <1>3 DEF CountedFor
  <1>11. \/ x1 + w1 + y <= x + w + y1 /\ (Spent(d, v) => Spent(d, v)')
         \/ x1 + w1 + y + 1 <= x + w + y1
         \/ x1 + w1 + y <= x + w + y1 + 1 /\ ~Spent(d, v) /\ Spent(d, v)'
    BY <1>4 DEF Tally
  <1>12. m1 + n1 <= e1 + p1
    BY <1>5, <1>6, <1>7, <1>8, <1>9, <1>10, <1>11
  <1> QED BY <1>3, <1>12 DEF CountedFor

\* Anybody else's step, and a step of a sender that works on none of the
\* person's claims, changes nothing that is counted and un-spends nothing.
LEMMA AsideCounted ==
  ASSUME HistoryType, HistoryType', NEW a \in Attendees, CountedFor(a),
         \A d \in RowsOf(a) :
           /\ excused'[d] = excused[d]
           /\ \A v \in 1..MaxRevision :
                /\ accepts'[d][v] = accepts[d][v]
                /\ \A q \in Senders : MayAdd(q, d, v)' <=> MayAdd(q, d, v)
                /\ Spent(d, v) => Spent(d, v)'
  PROVE  CountedFor(a)'
PROOF
  <1>1. MailsTo(a)' = MailsTo(a)
    <2>1. \A c \in RowsOf(a) \X (1..MaxRevision) :
            accepts'[c[1]][c[2]] = accepts[c[1]][c[2]]
      OBVIOUS
    <2> QED BY <2>1 DEF MailsTo, RowsOf
  <1>2. FaultsOf(a)' = FaultsOf(a)
    BY DEF FaultsOf, RowsOf
  <1>3. AddingFor(a)' = AddingFor(a)
    <2>1. \A c \in Claims(a), q \in Senders :
            MayAdd(q, c[1], c[2])' <=> MayAdd(q, c[1], c[2])
      BY DEF Claims
    <2> QED BY <2>1 DEF AddingFor, Claims, RowsOf
  <1>4. SpentFor(a) \subseteq SpentFor(a)'
    <2>1. ASSUME NEW c \in Claims(a), Spent(c[1], c[2])
          PROVE  Spent(c[1], c[2])'
      <3>1. PICK q \in RowsOf(a), u \in 1..MaxRevision : c = <<q, u>>
        BY DEF Claims
      <3>2. Spent(q, u) /\ Spent(q, u)'
        BY <2>1, <3>1
      <3> QED BY <3>1, <3>2
    <2> QED BY <2>1 DEF SpentFor, Claims, RowsOf
  <1>5. PICK m, m1, e, e1, n, n1, S, T :
          /\ m = Cardinality(MailsTo(a)) /\ m1 = Cardinality(MailsTo(a))'
          /\ e = Cardinality(FaultsOf(a)) /\ e1 = Cardinality(FaultsOf(a))'
          /\ n = Cardinality(AddingFor(a)) /\ n1 = Cardinality(AddingFor(a))'
          /\ S = SpentFor(a) /\ T = SpentFor(a)'
    OBVIOUS
  <1>6. m1 = m /\ e1 = e /\ n1 = n
    BY <1>1, <1>2, <1>3, <1>5
  <1>7. Cardinality(S) \in Nat /\ Cardinality(T) \in Nat /\ Cardinality(S) <= Cardinality(T)
    <2>1. IsFiniteSet(S) /\ IsFiniteSet(T) /\ S \in SUBSET T
      BY <1>4, <1>5, CountsFor
    <2> QED BY <2>1, FS_Subset, FS_CardinalityType
  <1>8. m \in Nat /\ n \in Nat /\ e \in Nat
    BY <1>5, CountedType
  <1>9. m1 + n1 <= e1 + Cardinality(T)
    BY <1>5, <1>6, <1>7, <1>8 DEF CountedFor
  <1> QED BY <1>5, <1>9 DEF CountedFor

\* Every step keeps the count of every person.
LEMMA StepCountedFor ==
  ASSUME TypeOK, TypeOK', Versions, WaitingHasMessage, [Next]_vars,
         NEW a \in Attendees, CountedFor(a)
  PROVE  CountedFor(a)'
PROOF
  <1>0. HistoryType /\ HistoryType' /\ SenderType
    BY DEF TypeOK
  <1>1. ASSUME NEW s \in Senders, PickUp(s) \/ AttemptStep(s) \/ FaultStep(s)
        PROVE  CountedFor(a)'
    <2>1. CASE \E d \in RowsOf(a), v \in 1..MaxRevision : WorksOn(s, d, v)
      <3>1. PICK d \in RowsOf(a), v \in 1..MaxRevision : WorksOn(s, d, v)
        BY <2>1
      <3>2. d \in Deliveries
        BY DEF RowsOf
      <3>3. Tally(s, d, v)
        BY <1>1, <3>2, PickUpTally, CheckTally, AnswerTally, CarryTally, FaultTally,
           RecordTally DEF AttemptStep, FaultStep
      <3> QED BY <1>1, <3>1, <3>3, WorkingCounted
    <2>2. CASE ~\E d \in RowsOf(a), v \in 1..MaxRevision : WorksOn(s, d, v)
      <3>1. OnlyMoves(s)
        BY <1>1, SenderAlone
      <3>2. ASSUME NEW d \in RowsOf(a)
            PROVE  excused'[d] = excused[d]
        <4>1. job[s].id # d \/ job[s] = NoJob
          BY <1>0, <2>2 DEF SenderType, Copies, WorksOn
        <4>2. d \in Deliveries
          BY DEF RowsOf
        <4>3. 1 \in 1..MaxRevision
          BY MailAssumption DEF MailAssumption
        <4> QED BY <1>1, <4>1, <4>2, <4>3, SenderHistory
      <3>3. ASSUME NEW d \in RowsOf(a), NEW v \in 1..MaxRevision
            PROVE  /\ accepts'[d][v] = accepts[d][v]
                   /\ \A q \in Senders : MayAdd(q, d, v)' <=> MayAdd(q, d, v)
                   /\ Spent(d, v) => Spent(d, v)'
        <4>1. d \in Deliveries /\ ~WorksOn(s, d, v)
          BY <2>2 DEF RowsOf
        <4>2. /\ accepts'[d][v] = accepts[d][v]
              /\ ~MayAdd(s, d, v) /\ ~MayAdd(s, d, v)'
              /\ Spent(d, v) => Spent(d, v)'
          BY <1>1, <4>1, Elsewhere, SenderHistory
        <4>3. ASSUME NEW q \in Senders
              PROVE  MayAdd(q, d, v)' <=> MayAdd(q, d, v)
          <5>1. CASE q = s
            BY <4>2, <5>1
          <5>2. CASE q # s
            BY <3>1, <4>1, <5>2 DEF OnlyMoves, MayAdd, WorksOn
          <5> QED BY <5>1, <5>2
        <4> QED BY <4>2, <4>3
      <3> QED BY <1>0, <3>2, <3>3, AsideCounted
    <2> QED BY <2>1, <2>2
  <1>2. ASSUME UNCHANGED <<senderVars, accepts, excused>>,
               \A d \in Deliveries : RowTouched(d) \/ RowNew(d) \/ RowRequeued(d)
        PROVE  CountedFor(a)'
    <2>1. ASSUME NEW d \in RowsOf(a), NEW v \in 1..MaxRevision
          PROVE  /\ \A q \in Senders : MayAdd(q, d, v)' <=> MayAdd(q, d, v)
                 /\ Spent(d, v) => Spent(d, v)'
      <3>1. d \in Deliveries
        BY DEF RowsOf
      <3>2. \A q \in Senders : /\ MayAdd(q, d, v)' <=> MayAdd(q, d, v)
                               /\ InHand(q, d, v) => InHand(q, d, v)' /\ job'[q] = job[q]
        BY <1>2 DEF senderVars, MayAdd, InHand, WorksOn
      <3> QED BY <1>2, <3>1, <3>2, SpentStays
    <2> QED BY <1>0, <1>2, <2>1, AsideCounted
  <1>3. ASSUME NEW r \in Requests, RequestStep(r)
        PROVE  CountedFor(a)'
    <2>1. \A d \in Deliveries : RowTouched(d) \/ RowNew(d) \/ RowRequeued(d)
      BY <1>3, RequestClaims DEF Versions, RowTouched
    <2>2. UNCHANGED <<senderVars, accepts, excused>>
      BY <1>3 DEF RequestStep, BeginSend, CreateResend, CreateInitial,
                  ClassifyExisting, RetryExisting, ReclaimCancelled,
                  SenderSideUnchanged
    <2> QED BY <1>2, <2>1, <2>2
  <1>4. CASE OtherStep
    <2>1. \A d \in Deliveries : RowTouched(d)
      BY <1>4, OthersRowChange
    <2>2. UNCHANGED <<senderVars, accepts, excused>>
      BY <1>4 DEF OtherStep, StopBatch, Erase, MatchBounce, Age, ApplyBounce,
                  SweepRead, SweepClear, OthersUnchanged
    <2> QED BY <1>2, <2>1, <2>2
  <1>5. CASE UNCHANGED vars
    <2>1. \A d \in Deliveries : RowTouched(d)
      BY <1>5 DEF vars, RowTouched, RowUnchanged
    <2>2. UNCHANGED <<senderVars, accepts, excused>>
      BY <1>5 DEF vars, senderVars
    <2> QED BY <1>2, <2>1, <2>2
  <1> QED BY <1>1, <1>3, <1>4, <1>5
          DEF Next, WorkerStep, PickUp, OtherStep, Senders

-----------------------------------------------------------------------------
\* A resend's row has one claim, and somebody who asked for one more mail.
ResendsAreAsked ==
  \A r \in Requests, a \in Attendees :
    LET d == ResendOf(r, a) IN
    row[d].revision > 0 =>
      row[d].revision = 1 /\ request[r].phase # "new" /\ r \in AskedAgain(a)

\* What a request was asked stays once it is at work.
LEMMA RequestKeepsPurpose ==
  ASSUME TypeOK, NEW q \in Requests, RequestStep(q), NEW r \in Requests,
         request[r].phase # "new" \/ r # q
  PROVE  /\ request[r].phase # "new" => request'[r].phase # "new"
         /\ request'[r].purpose = request[r].purpose
         /\ request'[r].completed = request[r].completed
PROOF
  <1>0. request[r] \in [phase : {"new", "working", "done"}, purpose : RequestPurposes,
                        completed : SUBSET Attendees, left : SUBSET Attendees,
                        found : Copies \cup {NoJob}]
    BY DEF TypeOK, RequestType
  <1>1. \A a : LET y == Advanced(request[r], a)
               IN  y.purpose = request[r].purpose /\ y.completed = request[r].completed
                   /\ y.phase \in {"working", "done"}
    BY <1>0, Zenon DEF Advanced
  <1>2. \A c : LET y == [request[r] EXCEPT !.found = c]
               IN  y.purpose = request[r].purpose /\ y.completed = request[r].completed
                   /\ y.phase = request[r].phase
    BY <1>0, Zenon
  <1>3. CASE BeginSend(q)
    <2>1. r # q
      BY <1>3 DEF BeginSend
    <2>2. request'[r] = request[r]
      BY <1>3, <2>1 DEF BeginSend, TypeOK, RequestType
    <2> QED BY <2>2
  <1>4. ASSUME NEW a \in Attendees, NextAttendee(q, a)
        PROVE  request'[r] \in {request[r], Advanced(request[r], a)}
    <2> DEFINE y == Advanced(request[q], a)
    <2>1. request' = [request EXCEPT ![q] = y]
      BY <1>4 DEF NextAttendee
    <2> HIDE DEF y
    <2>2. request'[r] \in {request[r], y} /\ (r # q => request'[r] = request[r])
      BY <2>1 DEF TypeOK, RequestType
    <2> QED BY <2>2 DEF y
  <1>5. ASSUME NEW a \in Attendees, ClassifyExisting(q, a), ~NextAttendee(q, a)
        PROVE  \E c : request'[r] \in {request[r], [request[r] EXCEPT !.found = c]}
    <2> DEFINE c == Copy(InitialOf(a))
               y == [request[q] EXCEPT !.found = c]
    <2>1. request' = [request EXCEPT ![q] = y]
      BY <1>5 DEF ClassifyExisting
    <2> HIDE DEF y
    <2>2. request'[r] \in {request[r], y} /\ (r # q => request'[r] = request[r])
      BY <2>1 DEF TypeOK, RequestType
    <2> QED BY <2>2 DEF y
  <1>6. ASSUME NEW a \in Attendees,
               \/ CreateResend(q, a) \/ CreateInitial(q, a) \/ ClassifyExisting(q, a)
               \/ RetryExisting(q, a) \/ ReclaimCancelled(q, a)
        PROVE  \/ request'[r] \in {request[r], Advanced(request[r], a)}
               \/ \E c : request'[r] \in {request[r], [request[r] EXCEPT !.found = c]}
    BY <1>4, <1>5, <1>6 DEF CreateResend, CreateInitial, RetryExisting, ReclaimCancelled
  <1>7. ASSUME NEW a \in Attendees,
               \/ CreateResend(q, a) \/ CreateInitial(q, a) \/ ClassifyExisting(q, a)
               \/ RetryExisting(q, a) \/ ReclaimCancelled(q, a)
        PROVE  /\ request[r].phase # "new" => request'[r].phase # "new"
               /\ request'[r].purpose = request[r].purpose
               /\ request'[r].completed = request[r].completed
    <2>1. CASE request'[r] = request[r]
      BY <2>1
    <2>2. CASE request'[r] = Advanced(request[r], a)
      BY <1>1, <2>2
    <2>3. CASE \E c : request'[r] = [request[r] EXCEPT !.found = c]
      BY <1>2, <2>3
    <2> QED BY <1>6, <1>7, <2>1, <2>2, <2>3
  <1> QED BY <1>3, <1>7 DEF RequestStep

\* The one step that touches a resend's row on behalf of a request makes it.
LEMMA RequestMakesResend ==
  ASSUME TypeOK, NEW q \in Requests, RequestStep(q),
         NEW r \in Requests, NEW a \in Attendees
  PROVE  \/ row'[ResendOf(r, a)] = row[ResendOf(r, a)]
         \/ /\ r = q /\ request[r].phase = "working" /\ r \in AskedAgain(a)
            /\ row'[ResendOf(r, a)].revision = 1
PROOF
  <1> DEFINE d == ResendOf(r, a)
  <1>0. d \in Deliveries /\ row \in [Deliveries -> Rows]
    BY IdentityType DEF TypeOK, RowType
  <1>1. CASE BeginSend(q)
    BY <1>1 DEF BeginSend
  <1>2. ASSUME NEW b \in Attendees,
               \/ CreateInitial(q, b) \/ ClassifyExisting(q, b)
               \/ RetryExisting(q, b) \/ ReclaimCancelled(q, b)
        PROVE  row'[d] = row[d]
    <2>1. InitialOf(b) # d /\ InitialOf(b) \in Deliveries
      BY IdentitiesDiffer, IdentityType
    <2>2. row' = row \/ \E x : row' = [row EXCEPT ![InitialOf(b)] = x]
      BY <1>2 DEF CreateInitial, ClassifyExisting, RetryExisting, ReclaimCancelled
    <2> QED BY <1>0, <2>1, <2>2
  <1>3. ASSUME NEW b \in Attendees, CreateResend(q, b)
        PROVE  \/ row'[d] = row[d]
               \/ /\ r = q /\ request[r].phase = "working" /\ r \in AskedAgain(a)
                  /\ row'[d].revision = 1
    <2>1. row' = row \/ row' = [row EXCEPT ![ResendOf(q, b)] = Queued(q, 1)]
      BY <1>3 DEF CreateResend
    <2>2. CASE ResendOf(q, b) # d
      BY <1>0, <2>1, <2>2
    <2>3. CASE ResendOf(q, b) = d
      <3>1. r = q /\ b = a
        BY <2>3, IdentitiesDiffer
      <3>2. request[r].phase = "working" /\ r \in AskedAgain(a)
        BY <1>3, <3>1 DEF CreateResend, Claiming, TreatedAsResend, AskedAgain
      <3>3. row'[d] = row[d] \/ row'[d] = Queued(q, 1)
        BY <1>0, <2>1, <2>3
      <3> QED BY <3>1, <3>2, <3>3 DEF Queued
    <2> QED BY <2>2, <2>3
  <1> QED BY <1>1, <1>2, <1>3 DEF RequestStep

LEMMA ResendsAreAskedKept == Spec => []ResendsAreAsked
PROOF
  <1>1. Init => ResendsAreAsked
    BY IdentityType DEF Init, ResendsAreAsked, NoRow
  <1>2. TypeOK /\ Versions /\ ResendsAreAsked /\ [Next]_vars => ResendsAreAsked'
    <2> SUFFICES ASSUME TypeOK, Versions, ResendsAreAsked, [Next]_vars
                 PROVE  ResendsAreAsked'
      OBVIOUS
    <2>1. ASSUME NEW q \in Requests, RequestStep(q)
          PROVE  ResendsAreAsked'
      <3> SUFFICES ASSUME NEW r \in Requests, NEW a \in Attendees,
                          row'[ResendOf(r, a)].revision > 0
                   PROVE  /\ row'[ResendOf(r, a)].revision = 1
                          /\ request'[r].phase # "new" /\ r \in AskedAgain(a)'
        BY DEF ResendsAreAsked
      <3>1. CASE row'[ResendOf(r, a)] = row[ResendOf(r, a)]
        <4>1. /\ row[ResendOf(r, a)].revision = 1
              /\ request[r].phase # "new" /\ r \in AskedAgain(a)
          BY <3>1 DEF ResendsAreAsked
        <4> QED BY <2>1, <3>1, <4>1, RequestKeepsPurpose DEF AskedAgain
      <3>2. CASE /\ r = q /\ request[r].phase = "working" /\ r \in AskedAgain(a)
                 /\ row'[ResendOf(r, a)].revision = 1
        <4>1. request[r].phase # "new"
          BY <3>2
        <4> QED BY <2>1, <3>2, <4>1, RequestKeepsPurpose DEF AskedAgain
      <3> QED BY <2>1, <3>1, <3>2, RequestMakesResend
    <2>2. ASSUME request' = request,
                 \A d \in Deliveries : row'[d].revision = row[d].revision
          PROVE  ResendsAreAsked'
      BY <2>2, IdentityType DEF ResendsAreAsked, AskedAgain
    <2>3. ASSUME NEW s \in Senders, PickUp(s) \/ AttemptStep(s) \/ FaultStep(s)
          PROVE  ResendsAreAsked'
      <3>1. request' = request
        BY <2>3 DEF PickUp, DrainClaim, DrainOwn, RetryStart, AttemptStep, FaultStep,
           Obstructed, RetryGivesUp, CheckBeforeSend, HandOver, ProviderAnswers,
           ProviderThrows, ConfirmOwned, Abort, Record, LoseSession, Crash, AnswerLost,
           RecordFails, rowVars
      <3>2. ASSUME NEW d \in Deliveries
            PROVE  row'[d].revision = row[d].revision
        <4>1. CASE Record(s)
          <5> DEFINE e == job[s].id
                     x == Recorded(s, row[e], outcome[s])
          <5>1. e \in Deliveries /\ row[e] \in Rows /\ outcome[s] \in Outcomes
            BY <4>1, JobType DEF Record, TypeOK, RowType, SenderType
          <5>2. x.revision = row[e].revision
            BY <5>1, RecordedType
          <5>3. row' = row \/ row' = [row EXCEPT ![e] = x]
            BY <4>1 DEF Record
          <5> HIDE DEF x, e
          <5> QED BY <5>1, <5>2, <5>3 DEF TypeOK, RowType
        <4>2. CASE ~Record(s)
          BY <2>3, <4>2 DEF PickUp, DrainClaim, DrainOwn, RetryStart, AttemptStep,
             FaultStep, Obstructed, RetryGivesUp, CheckBeforeSend, HandOver,
             ProviderAnswers, ProviderThrows, ConfirmOwned, Abort, LoseSession, Crash,
             AnswerLost, RecordFails, rowVars
        <4> QED BY <4>1, <4>2
      <3> QED BY <2>2, <3>1, <3>2
    <2>4. CASE OtherStep
      <3>1. request' = request
        BY <2>4 DEF OtherStep, StopBatch, Erase, MatchBounce, Age, ApplyBounce,
                    SweepRead, SweepClear, OthersUnchanged
      <3>2. \A d \in Deliveries : row'[d].revision = row[d].revision
        BY <2>4, OthersRowChange, TouchedFields
      <3> QED BY <2>2, <3>1, <3>2
    <2>5. CASE UNCHANGED vars
      BY <2>2, <2>5 DEF vars
    <2> QED BY <2>1, <2>3, <2>4, <2>5
            DEF Next, WorkerStep, PickUp, OtherStep, Senders
  <1> QED BY <1>1, <1>2, TypeCorrect, VersionsKept, PTL DEF Spec

\* A claim that is spent has been made: the initial row's, or the one of a
\* request that asked for one more mail.
LEMMA SpentIsClaimed ==
  ASSUME TypeOK, Versions, ResendsAreAsked, NEW a \in Attendees
  PROVE  /\ Cardinality(SpentFor(a))
              <= row[InitialOf(a)].revision + Cardinality(AskedAgain(a))
         /\ row[InitialOf(a)].revision \in Nat /\ Cardinality(AskedAgain(a)) \in Nat
PROOF
  <1> DEFINE n == row[InitialOf(a)].revision
             First == {InitialOf(a)} \X (1..n)
             pair == [r \in AskedAgain(a) |-> <<ResendOf(r, a), 1>>]
             Again == {pair[r] : r \in AskedAgain(a)}
  <1>1. n \in Nat
    <2>1. InitialOf(a) \in Deliveries
      BY DEF InitialOf, Deliveries
    <2> QED BY <2>1, MailAssumption DEF TypeOK, RowType, Rows, MailAssumption
  <1>2. IsFiniteSet(AskedAgain(a)) /\ Cardinality(AskedAgain(a)) \in Nat
    BY FS_Subset, FS_CardinalityType, MailAssumption DEF AskedAgain, MailAssumption
  <1>3. IsFiniteSet(First) /\ Cardinality(First) = n
    <2>1. PICK k : k = n
      OBVIOUS
    <2>2. k \in Int /\ 1 \in Int
      BY <1>1, <2>1
    <2>3. IsFiniteSet(1..k) /\ Cardinality(1..k) = k
      <3>1. /\ IsFiniteSet(1..k)
            /\ Cardinality(1..k) = IF 1 > k THEN 0 ELSE k - 1 + 1
        BY <2>2, FS_Interval, Zenon
      <3> QED BY <1>1, <2>1, <3>1
    <2>4. PICK S, T : S = {InitialOf(a)} /\ T = 1..k
      OBVIOUS
    <2>5. IsFiniteSet(S) /\ Cardinality(S) = 1 /\ IsFiniteSet(T) /\ Cardinality(T) = k
      BY <2>3, <2>4, FS_Singleton
    <2>6. IsFiniteSet(S \X T) /\ Cardinality(S \X T) = Cardinality(S) * Cardinality(T)
      BY <2>5, FS_Product, Zenon
    <2>7. Cardinality(S) * Cardinality(T) = k
      BY <2>2, <2>5
    <2> QED BY <2>1, <2>4, <2>6, <2>7
  <1>4. IsFiniteSet(Again) /\ Cardinality(Again) <= Cardinality(AskedAgain(a))
    <2>1. pair \in Surjection(AskedAgain(a), Again)
      BY DEF Surjection
    <2> QED BY <1>2, <2>1, FS_Surjection
  <1>5. SpentFor(a) \subseteq First \cup Again
    <2> SUFFICES ASSUME NEW d \in RowsOf(a), NEW v \in 1..MaxRevision, Spent(d, v)
                 PROVE  <<d, v>> \in First \cup Again
      BY DEF SpentFor, Claims
    <2>1. d \in Deliveries /\ row[d].revision \in Nat /\ v \in Nat
      BY MailAssumption DEF RowsOf, TypeOK, RowType, Rows, MailAssumption
    <2>2. v <= row[d].revision
      <3>1. CASE Over(d, v)
        BY <2>1, <3>1 DEF Over
      <3>2. ASSUME NEW q \in Senders, InHand(q, d, v)
            PROVE  v <= row[d].revision
        <4>1. job[q] \in Copies /\ job[q].id = d /\ job[q].revision = v
          BY <3>2, JobType DEF InHand, WorksOn, TypeOK
        <4>2. Trails(job[q])
          BY <4>1 DEF Versions, CopiesTrail, Copies, NoJob
        <4> QED BY <2>1, <4>1, <4>2 DEF Trails, Passed, Current
      <3> QED BY <3>1, <3>2 DEF Spent
    <2>3. CASE d = InitialOf(a)
      BY <2>1, <2>2, <2>3, <1>1
    <2>4. CASE \E r \in Requests : d = ResendOf(r, a)
      <3>1. PICK r \in Requests : d = ResendOf(r, a)
        BY <2>4
      <3>2. row[d].revision = 1 /\ r \in AskedAgain(a)
        <4>1. row[d].revision > 0
          BY <2>1, <2>2
        <4> QED BY <3>1, <4>1 DEF ResendsAreAsked
      <3>3. v = 1
        BY <2>1, <2>2, <3>2
      <3> QED BY <3>1, <3>2, <3>3
    <2>5. d = InitialOf(a) \/ \E r \in Requests : d = ResendOf(r, a)
      BY DEF RowsOf, Owner, Deliveries, InitialOf, ResendOf
    <2> QED BY <2>3, <2>4, <2>5
  <1> HIDE DEF First, Again, n
  <1>6. IsFiniteSet(First \cup Again) /\ Cardinality(First \cup Again)
            <= Cardinality(First) + Cardinality(Again)
    <2>1. /\ IsFiniteSet(First \cap Again)
          /\ Cardinality(First) \in Nat /\ Cardinality(Again) \in Nat
      BY <1>3, <1>4, FS_Intersection, FS_CardinalityType
    <2>2. Cardinality(First \cap Again) \in Nat
      BY <2>1, FS_CardinalityType
    <2>3. /\ IsFiniteSet(First \cup Again)
          /\ Cardinality(First \cup Again) = Cardinality(First) + Cardinality(Again)
                                                - Cardinality(First \cap Again)
      BY <1>3, <1>4, FS_Union, Zenon
    <2> QED BY <2>1, <2>2, <2>3
  <1>7. Cardinality(SpentFor(a)) <= Cardinality(First \cup Again)
    BY <1>5, <1>6, FS_Subset
  <1>8. /\ Cardinality(SpentFor(a)) \in Nat /\ Cardinality(First \cup Again) \in Nat
        /\ Cardinality(Again) \in Nat
    BY <1>4, <1>6, FS_CardinalityType, CountedType DEF TypeOK
  <1>9. Cardinality(SpentFor(a)) <= n + Cardinality(AskedAgain(a))
    BY <1>1, <1>2, <1>3, <1>4, <1>6, <1>7, <1>8
  <1> QED BY <1>1, <1>2, <1>9 DEF n

\* Two sends to the same people at once mail nobody twice, over all rows of a
\* person: whichever requests, workers and retry commands interleave, a mail
\* stands for a claim of the initial row, a request that asked for one more, or
\* a fault.
THEOREM NobodyMailedUnasked == Spec => []NoUnaskedMail
PROOF
  <1> DEFINE AllCounted == \A a \in Attendees : CountedFor(a)
  <1>1. Init => AllCounted
    <2> SUFFICES ASSUME Init, NEW a \in Attendees
                 PROVE  CountedFor(a)
      OBVIOUS
    <2>1. MailsTo(a) = {}
      BY DEF Init, MailsTo, RowsOf
    <2>2. FaultsOf(a) = {}
      BY DEF Init, FaultsOf, RowsOf
    <2>3. AddingFor(a) = {}
      BY DEF Init, AddingFor, MayAdd
    <2>4. Cardinality(SpentFor(a)) \in Nat
      BY ClaimsFinite, FS_Subset, FS_CardinalityType DEF SpentFor
    <2> QED BY <2>1, <2>2, <2>3, <2>4, FS_EmptySet DEF CountedFor
  <1>2. TypeOK /\ TypeOK' /\ Versions /\ WaitingHasMessage /\ AllCounted /\ [Next]_vars
          => AllCounted'
    BY StepCountedFor
  <1>3. TypeOK /\ Versions /\ ResendsAreAsked /\ AllCounted => NoUnaskedMail
    <2> SUFFICES ASSUME TypeOK, Versions, ResendsAreAsked, AllCounted, NEW a \in Attendees
                 PROVE  Cardinality(MailsTo(a)) <=
                          row[InitialOf(a)].revision + Cardinality(AskedAgain(a))
                            + Cardinality(FaultsOf(a))
      BY DEF NoUnaskedMail
    <2>1. CountedFor(a)
      OBVIOUS
    <2>2. /\ Cardinality(SpentFor(a))
               <= row[InitialOf(a)].revision + Cardinality(AskedAgain(a))
          /\ row[InitialOf(a)].revision \in Nat /\ Cardinality(AskedAgain(a)) \in Nat
      BY SpentIsClaimed
    <2>3. /\ Cardinality(MailsTo(a)) \in Nat /\ Cardinality(FaultsOf(a)) \in Nat
          /\ Cardinality(AddingFor(a)) \in Nat /\ Cardinality(SpentFor(a)) \in Nat
      BY CountedType DEF TypeOK
    <2> QED BY <2>1, <2>2, <2>3 DEF CountedFor
  <1> QED BY <1>1, <1>2, <1>3, TypeCorrect, VersionsKept, NeverWaitsEmptied,
             ResendsAreAskedKept, PTL DEF Spec
=============================================================================
