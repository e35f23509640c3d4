----------------------------- MODULE Enrollment -----------------------------
(***************************************************************************)
(* Adding a second factor to one account: the authenticator that is first  *)
(* pending and then confirmed, passkeys, and the batch of backup codes     *)
(* that goes with the first of them (packages/auth/src/mfa, the login-time *)
(* pages and the account page).                                            *)
(*                                                                         *)
(* A request is a list of statements; "commit" ends a transaction of it.   *)
(* Transactions are READ COMMITTED, as in SignIn: a write takes a snapshot *)
(* (Look), waits for the rows it matched and writes those that still match *)
(* (Run).  The plaintext of a batch is kept in the process that made it.   *)
(***************************************************************************)
EXTENDS Naturals, Sequences, FiniteSets

CONSTANTS Sessions,  \* sessions of the account
          Requests   \* HTTP requests; a secret, a passkey and a batch of codes are
                     \* named by the request that made them

ASSUME NamesAssumption ==
  /\ {"none", "before"} \cap (Sessions \cup Requests) = {}
  /\ Sessions \cap Requests = {}

Enroll == "enrollment_required"
Backup == "backup_codes_required"
Full == "full"

\* The statements of each kind of request, in the order of the code.
Start      == <<"resume", "noTotp", "clear", "create", "fresh", "wipe", "batch", "commit", "stash">>
Confirm    == <<"lock", "none", "find", "confirm", "commit",
                "unstashed", "wipe", "batch", "commit", "stash", "promote">>
Passkey    == <<"lock", "none", "wipe", "batch", "insert", "commit", "stash", "promote">>
AddTotp    == <<"any", "lock", "none", "find", "confirm", "ack", "commit">>
AddPasskey == <<"any", "lock", "none", "fresh", "wipe", "batch", "insert", "ack", "commit">>
Complete   == <<"stashed", "ack", "finish", "commit">>
Ensure     == <<"unstashed", "wipe", "batch", "commit", "stash">>
Regenerate == <<"wipe", "batch", "commit">>
Cancel     == <<"clearPending", "fresh", "wipe", "commit">>

Plan == [start |-> Start, confirm |-> Confirm, passkey |-> Passkey, addTotp |-> AddTotp,
         addPasskey |-> AddPasskey, complete |-> Complete, ensure |-> Ensure,
         regenerate |-> Regenerate, cancel |-> Cancel]
Kinds == DOMAIN Plan

\* The stages of the session a route serves.
Serves == [start |-> {Enroll, Full}, confirm |-> {Enroll}, passkey |-> {Enroll},
           addTotp |-> {Full}, addPasskey |-> {Full}, complete |-> {Backup}, ensure |-> {Backup},
           regenerate |-> {Full}, cancel |-> {Full}]

\* Who made a passkey or a batch: a request, or one long before.
Makers == Requests \cup {"before"}

VARIABLES
  totp,     \* the authenticator row: whose secret, confirmed, with a proof, codes owed
  keys,     \* Makers -> passkey: there, with a proof, codes owed
  codes,    \* the batches of backup codes the database holds
  stage,    \* Sessions -> stage
  stash,    \* Sessions -> the batch whose plaintext the process keeps
  request,  \* Requests -> what it is, where it is, what its transaction wrote
  won       \* history: Requests -> the secret whose confirmation it was told of

vars == <<totp, keys, codes, stage, stash, request, won>>

\* A row is known by its table and by the request that inserted it.
Rows == {"totp", "key", "codes", "lock"} \X Makers
WriteOps == {"clear", "clearPending", "confirm", "wipe", "ack"}
DidOps == WriteOps \cup {"lock", "create", "batch", "insert"}

NoTotp == [by |-> "none", confirmed |-> FALSE, proved |-> FALSE, owes |-> FALSE]
NoKey == [there |-> FALSE, proved |-> FALSE, owes |-> FALSE]
NoRequest == [kind |-> "none", s |-> "none", at |-> 0, looked |-> FALSE, want |-> {}, did |-> {},
              seen |-> "none", first |-> FALSE, proved |-> FALSE, made |-> FALSE, finish |-> FALSE,
              state |-> "idle"]

TypeOK ==
  /\ totp \in [by : Requests \cup {"none"}, confirmed : BOOLEAN, proved : BOOLEAN, owes : BOOLEAN]
  /\ totp.confirmed => totp.by # "none"
  /\ totp.owes => totp.confirmed
  /\ keys \in [Makers -> [there : BOOLEAN, proved : BOOLEAN, owes : BOOLEAN]]
  /\ codes \subseteq Makers
  /\ stage \in [Sessions -> {Enroll, Backup, Full}]
  /\ stash \in [Sessions -> Requests \cup {"none"}]
  /\ request \in [Requests ->
       [kind : Kinds \cup {"none"}, s : Sessions \cup {"none"}, at : 0..12, looked : BOOLEAN,
        want : SUBSET Rows, did : SUBSET (DidOps \X Rows), seen : Requests \cup {"none"},
        first : BOOLEAN, proved : BOOLEAN, made : BOOLEAN, finish : BOOLEAN,
        state : {"idle", "open", "ok", "refused"}]]
  /\ won \in [Requests -> Requests \cup {"none"}]

Init ==
  /\ totp = NoTotp
  /\ \E had \in BOOLEAN :
       /\ keys = [k \in Makers |-> [NoKey EXCEPT !.there = k = "before" /\ had]]
       /\ codes = IF had THEN {"before"} ELSE {}
  /\ stage \in [Sessions -> {Enroll, Full}]
  /\ stash = [s \in Sessions |-> "none"]
  /\ request = [r \in Requests |-> NoRequest]
  /\ won = [r \in Requests |-> "none"]

----------------------------------------------------------------------------
(* What a statement reads.                                                 *)

Open(r) == request[r].state = "open"
Op(r) == Plan[request[r].kind][request[r].at]
Done(r) == request[r].at > Len(Plan[request[r].kind])
Wrote(r, op) == {row \in Rows : <<op, row>> \in request[r].did}
Holds(r) == IF Open(r) THEN {w[2] : w \in request[r].did} ELSE {}
Free(rows, r) == \A q \in Requests \ {r} : Holds(q) \cap rows = {}

\* Any confirmed method, of those committed and its own.
HasMethod(r) ==
  \/ totp.confirmed /\ Wrote(r, "clear") = {}
  \/ Wrote(r, "confirm") # {}
  \/ \E k \in Makers : keys[k].there
Pending == totp.by # "none" /\ ~totp.confirmed

ConfirmableAgain(r) == totp.by = request[r].seen

\* The row that was verified, if nobody confirmed it meanwhile.
Confirmable(r) == Pending /\ totp.by = request[r].seen

\* The rows a write matches in the committed state.
Matches(r) ==
  LET totpIf(cond) == IF totp.by # "none" /\ cond THEN {<<"totp", totp.by>>} ELSE {} IN
  CASE Op(r) = "clear"        -> totpIf(TRUE)
    [] Op(r) = "clearPending" -> totpIf(Pending)
    [] Op(r) = "confirm"      -> totpIf(Confirmable(r))
    [] Op(r) = "wipe"         -> {"codes"} \X codes
    [] Op(r) = "ack"          -> totpIf(totp.confirmed /\ totp.owes)
                                 \cup ({"key"} \X {k \in Makers : keys[k].there /\ keys[k].owes})

----------------------------------------------------------------------------
(* The steps of a request.                                                 *)

Goto(r, at) == request' = [request EXCEPT ![r].at = at]
Next1(r) == Goto(r, request[r].at + 1)
Refuse(r) == request' = [request EXCEPT ![r] = [NoRequest EXCEPT !.state = "refused"]]
Finish(r) == Goto(r, Len(Plan[request[r].kind]) + 1)
RowsSame == UNCHANGED <<totp, keys, codes, stage, stash, won>>

Begin(r) ==
  /\ request[r].state = "idle"
  /\ \E kind \in Kinds, s \in Sessions :
       /\ stage[s] \in Serves[kind]
       /\ request' = [request EXCEPT ![r] =
            [NoRequest EXCEPT !.kind = kind, !.s = s, !.at = 1, !.state = "open"]]
  /\ RowsSame

\* getOrStartTotpEnrollment: a pending enrolment is resumed, a confirmed one refused.
Resume(r) ==
  /\ Op(r) = "resume"
  /\ \/ totp.confirmed /\ Refuse(r)
     \/ Pending /\ Finish(r)
     \/ totp.by = "none" /\ Next1(r)
  /\ RowsSame

\* startTotpEnrollment asks again inside its transaction.
StillNoTotp(r) ==
  /\ Op(r) = "noTotp"
  /\ IF totp.confirmed THEN Refuse(r) ELSE Next1(r)
  /\ RowsSame

LockNot(r) == Op(r) = "lock" /\ Next1(r) /\ RowsSame

\* acquireMfaEnrollmentLock, held to the end of the transaction.
Lock(r) ==
  /\ Op(r) = "lock"
  /\ \A q \in Requests : Open(q) => Wrote(q, "lock") = {}
  /\ request' = [request EXCEPT ![r].at = @ + 1, ![r].did = @ \cup {<<"lock", <<"lock", r>>>>}]
  /\ RowsSame

\* Under the lock: refused once the account has a method.
StillNone(r) ==
  /\ Op(r) = "none"
  /\ IF HasMethod(r) THEN Refuse(r)
     ELSE request' = [request EXCEPT ![r].at = @ + 1, ![r].first = TRUE]
  /\ RowsSame

\* addMfaMethodWithStepUp: with a method the gate asks for a proof (a right one
\* here; a wrong one changes nothing), without one it goes the way of the lock.
AskProof(r) ==
  /\ Op(r) = "any"
  /\ IF HasMethod(r)
     THEN request' = [request EXCEPT ![r].at = @ + 3, ![r].proved = TRUE]
     ELSE Next1(r)
  /\ RowsSame

\* confirmTotpEnrollment reads the pending row and verifies the code against it.
Find(r) ==
  /\ Op(r) = "find"
  /\ \/ /\ Pending
        /\ request' = [request EXCEPT ![r].at = @ + 1, ![r].seen = totp.by, ![r].first = ~HasMethod(r)]
     \/ Refuse(r)
  /\ RowsSame

\* ensureFreshEnrollmentBackupCodes, and what follows a cancelled enrolment: codes
\* are touched only while the account has no confirmed method.
AfterCodes == [start |-> 8, addPasskey |-> 7, cancel |-> 4]
FreshCodes(r) ==
  /\ Op(r) = "fresh"
  /\ IF HasMethod(r) THEN Goto(r, AfterCodes[request[r].kind])
     ELSE request' = [request EXCEPT ![r].at = @ + 1, ![r].first = TRUE]
  /\ RowsSame

\* The page of codes and the confirmed enrolment make codes only if none are stashed.
Unstashed(r) ==
  /\ Op(r) = "unstashed"
  /\ \/ stash[request[r].s] = "none" /\ Next1(r)
     \/ stash[request[r].s] # "none" /\ request[r].kind = "ensure" /\ Finish(r)
     \/ stash[request[r].s] # "none" /\ request[r].kind = "confirm" /\ Goto(r, Len(Confirm))
  /\ RowsSame

\* Completion is refused without stashed codes.
Stashed(r) ==
  /\ Op(r) = "stashed"
  /\ IF stash[request[r].s] = "none" THEN Refuse(r) ELSE Next1(r)
  /\ RowsSame

\* A write begins: its snapshot.
Look(r) ==
  /\ Op(r) \in WriteOps /\ ~request[r].looked
  /\ request' = [request EXCEPT ![r].looked = TRUE, ![r].want = Matches(r)]
  /\ RowsSame

\* The write runs, once the rows it waits for are released.
Run(r) ==
  /\ Op(r) \in WriteOps /\ request[r].looked
  /\ Free(request[r].want, r)
  /\ LET rows == request[r].want \cap Matches(r) IN
     IF Op(r) = "confirm" /\ rows = {} THEN Refuse(r)
     ELSE request' = [request EXCEPT ![r].looked = FALSE, ![r].want = {},
            ![r].did = @ \cup ({Op(r)} \X rows),
            ![r].at = IF Op(r) = "clearPending" /\ rows = {} THEN Len(Cancel) + 1 ELSE @ + 1]
  /\ RowsSame

\* Inserts.  One authenticator row per account (a unique index): the insert waits
\* for another's and fails on one that is there.
Create(r) ==
  /\ Op(r) = "create"
  /\ \A q \in Requests \ {r} : Open(q) => Wrote(q, "create") \cup Wrote(q, "clear") \cup Wrote(q, "clearPending") = {}
  /\ IF totp.by # "none" /\ Wrote(r, "clear") = {} THEN Refuse(r)
     ELSE request' = [request EXCEPT ![r].at = @ + 1, ![r].did = @ \cup {<<"create", <<"totp", r>>>>}]
  /\ RowsSame

Insert(r) ==
  /\ Op(r) \in {"batch", "insert"}
  /\ request' = [request EXCEPT ![r].at = @ + 1, ![r].did = @ \cup {<<Op(r), <<IF Op(r) = "batch" THEN "codes" ELSE "key", r>>>>},
                                ![r].made = @ \/ Op(r) = "batch"]
  /\ RowsSame

\* promoteSessionToFull after the acknowledgment, unless codes of another method are owed.
FinishStage(r) ==
  /\ Op(r) = "finish"
  /\ LET owed == \/ totp.confirmed /\ totp.owes /\ <<"totp", totp.by>> \notin Wrote(r, "ack")
                 \/ \E k \in Makers : /\ keys[k].there /\ keys[k].owes
                                        /\ <<"key", k>> \notin Wrote(r, "ack")
     IN request' = [request EXCEPT ![r].at = @ + 1,
                                   ![r].finish = ~owed /\ stage[request[r].s] = Backup]
  /\ RowsSame

TotpAfterReused(r) ==
  IF Wrote(r, "create") # {} THEN [totp EXCEPT !.by = r, !.confirmed = FALSE, !.proved = FALSE]
  ELSE IF Wrote(r, "clear") \cup Wrote(r, "clearPending") # {} THEN NoTotp
  ELSE IF Wrote(r, "confirm") # {}
  THEN [totp EXCEPT !.confirmed = TRUE, !.proved = request[r].proved,
                    !.owes = request[r].first /\ request[r].kind = "confirm"]
  ELSE [totp EXCEPT !.owes = @ /\ <<"totp", totp.by>> \notin Wrote(r, "ack")]

\* A method added at login owes the acknowledgment of its codes; the account page
\* hands them out and acknowledges them in the same transaction.
TotpAfter(r) ==
  IF Wrote(r, "create") # {} THEN [NoTotp EXCEPT !.by = r]
  ELSE IF Wrote(r, "clear") \cup Wrote(r, "clearPending") # {} THEN NoTotp
  ELSE IF Wrote(r, "confirm") # {}
  THEN [totp EXCEPT !.confirmed = TRUE, !.proved = request[r].proved,
                    !.owes = request[r].first /\ request[r].kind = "confirm"]
  ELSE [totp EXCEPT !.owes = @ /\ <<"totp", totp.by>> \notin Wrote(r, "ack")]

KeyAfter(r, k) ==
  IF k = r /\ Wrote(r, "insert") # {}
  THEN [there |-> TRUE, proved |-> request[r].proved,
        owes |-> request[r].first /\ request[r].kind = "passkey"]
  ELSE [keys[k] EXCEPT !.owes = @ /\ <<"key", k>> \notin Wrote(r, "ack")]

\* A transaction of the request commits: its writes are seen, its locks released.
Commit(r) ==
  /\ Op(r) = "commit"
  /\ totp' = TotpAfter(r)
  /\ keys' = [k \in Makers |-> KeyAfter(r, k)]
  /\ codes' = {b \in codes : <<"codes", b>> \notin Wrote(r, "wipe")}
               \cup (IF Wrote(r, "batch") # {} THEN {r} ELSE {})
  /\ stage' = [stage EXCEPT ![request[r].s] = IF request[r].finish THEN Full ELSE @]
  /\ won' = [won EXCEPT ![r] = IF Wrote(r, "confirm") # {} THEN request[r].seen ELSE @]
  /\ request' = [request EXCEPT ![r].at = @ + 1, ![r].did = {}]
  /\ UNCHANGED stash

\* stashEnrollmentBackupCodes; the account page hands the codes out instead.
Stash(r) ==
  /\ Op(r) = "stash" /\ Next1(r)
  /\ stash' = [stash EXCEPT ![request[r].s] =
       IF request[r].made /\ stage[request[r].s] # Full THEN r ELSE @]
  /\ UNCHANGED <<totp, keys, codes, stage, won>>

\* promoteSessionToBackupCodesStep.
Promote(r) ==
  /\ Op(r) = "promote" /\ Next1(r)
  /\ stage' = [stage EXCEPT ![request[r].s] = IF @ = Enroll THEN Backup ELSE @]
  /\ UNCHANGED <<totp, keys, codes, stash, won>>

End(r) ==
  /\ Open(r) /\ Done(r)
  /\ request' = [request EXCEPT ![r].state = "ok"]
  /\ RowsSame

\* A lost connection or a crash: the open transaction is rolled back.
Abort(r) == Open(r) /\ Refuse(r) /\ RowsSame

Step(r) ==
  /\ Open(r) /\ ~Done(r)
  /\ \/ Resume(r) \/ StillNoTotp(r) \/ Lock(r) \/ StillNone(r) \/ AskProof(r) \/ Find(r)
     \/ FreshCodes(r) \/ Unstashed(r) \/ Stashed(r) \/ Look(r) \/ Run(r) \/ Create(r)
     \/ Insert(r) \/ FinishStage(r) \/ Commit(r) \/ Stash(r) \/ Promote(r)

\* The stash runs out, or the process restarts.
StashLost(s) ==
  /\ stash[s] # "none"
  /\ stash' = [stash EXCEPT ![s] = "none"]
  /\ UNCHANGED <<totp, keys, codes, stage, request, won>>

Next ==
  \/ \E r \in Requests : Begin(r) \/ Step(r) \/ End(r) \/ Abort(r)
  \/ \E s \in Sessions : StashLost(s)

Spec == Init /\ [][Next]_vars

----------------------------------------------------------------------------
(* What the code promises.                                                 *)

UnprovenKeys == {k \in Makers : keys[k].there /\ ~keys[k].proved}

\* However enrolments overlap, at most one method of the account was added without
\* the proof of another (enrollment-lock.ts, addMfaMethodWithStepUp).
OnlyFirstUnproven ==
  /\ Cardinality(UnprovenKeys) <= 1
  /\ totp.confirmed /\ ~totp.proved => UnprovenKeys = {}

\* Two confirmations of one pending authenticator are not both told that they
\* succeeded, and the secret that is confirmed is the one a code was verified against,
\* though the enrolment may be restarted in between (confirmTotpEnrollment).
OneConfirmation ==
  /\ \A x \in Requests : Cardinality({r \in Requests : won[r] = x}) <= 1
  /\ totp.confirmed => \E r \in Requests : won[r] = totp.by

\* startTotpEnrollment "refuses when user already has confirmed TOTP": nothing here
\* removes a confirmed authenticator.
ConfirmedStays == [][totp.confirmed => totp'.confirmed]_vars

\* cancelPendingTotpEnrollment leaves the codes of a confirmed method untouched: an
\* account with a method has codes.
MethodHasCodes == totp.confirmed \/ (\E k \in Makers : keys[k].there) => codes # {}
=============================================================================
