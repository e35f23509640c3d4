---------------------------- MODULE WalletPasses ----------------------------
(***************************************************************************)
(* The wallet pass of one attendee: how it is made at the provider, and    *)
(* how an erasure makes sure that no pass with the person's data stays     *)
(* there (handleWalletRedirect in apps/web/src/app.ts,                     *)
(* tickets/src/erase-wallet-passes.ts).                                    *)
(*                                                                         *)
(* The provider is not part of any transaction.  A call that makes a pass  *)
(* may be refused, may be carried out after its caller has given up or     *)
(* died, and may be carried out although there is a pass under that id     *)
(* already.  Time passes in ticks of some minutes.                         *)
(***************************************************************************)
EXTENDS Naturals, FiniteSets

CONSTANTS Instances,   \* processes of the web app, each making one pass at a time
          Followups,    \* runs of the erasure's follow-up that may overlap
          Passes,      \* BOUND: the calls under way and the passes kept, at one time
          Nothing,
          Deadline,    \* CREATE_PASS_DEADLINE_MS
          Lag,         \* how long a call that was sent can take to be carried out
          Window,      \* CREATION_SETTLE_WINDOW_MS
          MaxTime,     \* BOUND on the clock
          MaxAccount   \* BOUND on the provider accounts the event goes through

ASSUME NothingAssumption == Nothing \notin Passes
ASSUME TimesAssumption == Deadline \in Nat /\ Lag \in Nat /\ Window \in Nat
\* The window covers what a creation can take; a test of the repository adds it up.
ASSUME WindowAssumption == Deadline + Lag < Window
ASSUME BoundsAssumption == MaxTime \in Nat \ {0} /\ MaxAccount \in Nat \ {0}

Times == 1..MaxTime
Never == 0
Accounts == 1..MaxAccount   \* Template ID and key of the event, in the order it had them

VARIABLES
  now,
  erased,    \* when the attendee was erased, or Never
  account,   \* whose credentials the event has
  row,       \* the WalletPass row
  pass,      \* Passes -> the call that makes it, then the pass at the provider
  creation,  \* Instances -> where its handleWalletRedirect is
  followup,  \* Followups -> where its deleteErasedWalletPasses is
  deletion   \* how far the one "Delete wallet pass" is (BOUND: one)

vars == <<now, erased, account, row, pass, creation, followup, deletion>>

\* id is provider_pass_id, reserved says that user_provided_id is set, left that
\* left_behind_pass_id is, removed that provider_removed_at is.
NoRow == [there |-> FALSE, status |-> "none", id |-> Nothing, reserved |-> FALSE,
          left |-> FALSE, removed |-> FALSE, issued |-> Never]

\* lost: "Delete wallet pass" took the row away that would have led to it.
NoPass == [state |-> "none", account |-> 1, at |-> Never, lost |-> FALSE]
NoCreation == [at |-> "idle", account |-> 1, checked |-> Never, pass |-> Nothing]
NoFollowup == [at |-> "idle", account |-> 1, id |-> Nothing, left |-> FALSE,
               issued |-> Never, found |-> FALSE]

TypeOK ==
  /\ now \in Times
  /\ erased \in Times \cup {Never}
  /\ account \in Accounts
  /\ row \in [there : BOOLEAN, status : {"none", "pending", "active", "failed"},
              id : Passes \cup {Nothing}, reserved : BOOLEAN, left : BOOLEAN,
              removed : BOOLEAN, issued : Times \cup {Never}]
  /\ row.there <=> row.status # "none"
  /\ ~row.there => row = NoRow
  /\ pass \in [Passes -> [state : {"none", "calling", "kept", "left"},
                          account : Accounts, at : Times \cup {Never}, lost : BOOLEAN]]
  /\ creation \in [Instances -> [at : {"idle", "looked", "checked", "reserved", "sent", "made",
                                       "dropping", "failing", "orphan", "orphaned"},
                                 account : Accounts, checked : Times \cup {Never},
                                 pass : Passes \cup {Nothing}]]
  /\ followup \in [Followups -> [at : {"idle", "recorded", "reserved", "settling"}, account : Accounts,
                                 id : Passes \cup {Nothing}, left : BOOLEAN,
                                 issued : Times \cup {Never}, found : BOOLEAN]]
  /\ deletion \in {"none", "provider", "done"}

Init ==
  /\ now = 1
  /\ erased = Never
  /\ account = 1
  /\ row = NoRow
  /\ pass = [p \in Passes |-> NoPass]
  /\ creation = [i \in Instances |-> NoCreation]
  /\ followup = [f \in Followups |-> NoFollowup]
  /\ deletion = "none"

IsErased == erased # Never

\* What the provider holds under the id reserved for the attendee in account a, the
\* passes a request knows that it could not delete there included.
Held(a) == {p \in Passes : pass[p].state \in {"kept", "left"} /\ pass[p].account = a}

-----------------------------------------------------------------------------
(* Making a pass.                                                          *)

Deleted(p) == pass' = [pass EXCEPT ![p] = NoPass]
Goes(i, step) == creation' = [creation EXCEPT ![i].at = step]
Ends(i) == creation' = [creation EXCEPT ![i] = NoCreation]

\* The ticket and the event are read, then the row.  A creation under way in this
\* process is joined (walletCreateLocks), so a process makes one pass at a time.
Tap(i) ==
  /\ creation[i].at = "idle" /\ ~IsErased
  /\ row.status # "active" /\ ~row.removed
  /\ creation' = [creation EXCEPT ![i] = [NoCreation EXCEPT !.at = "looked", !.account = account]]
  /\ UNCHANGED <<now, erased, account, row, pass, followup, deletion>>

\* Row and attendee are read again before anything is made.
Recheck(i) ==
  /\ creation[i].at = "looked"
  /\ IF IsErased \/ row.status = "active" \/ row.removed THEN Ends(i) ELSE Goes(i, "checked")
  /\ UNCHANGED <<now, erased, account, row, pass, followup, deletion>>

\* An update where an upsert is needed.
ReservedInPlace == [row EXCEPT !.reserved = TRUE]

ReservedRow ==
  [row EXCEPT !.there = TRUE, !.reserved = TRUE,
              !.status = IF row.there THEN row.status ELSE "pending"]

\* reservePassId, under the attendee's row lock; the row may fail to be written.
Reserve(i) ==
  /\ creation[i].at = "checked"
  /\ \/ /\ ~IsErased
        /\ row' = ReservedRow
        /\ creation' = [creation EXCEPT ![i].at = "reserved", ![i].checked = now]
     \/ Ends(i) /\ UNCHANGED row
  /\ UNCHANGED <<now, erased, account, pass, followup, deletion>>

\* A call that is sent whenever its turn comes.
InTimeAlways(checked) == TRUE

\* requestRaw sends nothing after the deadline, whatever the call has waited for.
InTime(checked) == now <= checked + Deadline

\* Nobody knows of a pass by that name.
Fresh(p) ==
  /\ pass[p].state = "none" /\ row.id # p
  /\ \A i \in Instances : creation[i].pass # p
  /\ \A f \in Followups : followup[f].id # p

Send(i) ==
  /\ creation[i].at = "reserved"
  /\ \/ /\ InTime(creation[i].checked)
        /\ \E p \in Passes :
             /\ Fresh(p)
             /\ pass' = [pass EXCEPT ![p] = [state |-> "calling", account |-> creation[i].account,
                                             at |-> now, lost |-> ~row.reserved]]
             /\ creation' = [creation EXCEPT ![i].at = "sent", ![i].pass = p]
     \/ Goes(i, "failing") /\ UNCHANGED pass
  /\ UNCHANGED <<now, erased, account, row, followup, deletion>>

\* The provider carries out a call, heard by its caller or not.
Land(p) ==
  /\ pass[p].state = "calling"
  /\ pass' = [pass EXCEPT ![p].state = "kept", ![p].at = Never]
  /\ UNCHANGED <<now, erased, account, row, creation, followup, deletion>>

Answered(i) ==
  /\ creation[i].at = "sent" /\ pass[creation[i].pass].state = "kept"
  /\ Goes(i, "made")
  /\ UNCHANGED <<now, erased, account, row, pass, followup, deletion>>

\* The call is refused, or lost.  A caller told to slow down tries again (requestRaw).
\* When there is a pass under the id already, that one is looked up and updated
\* instead (recoverDuplicatePass), with the same deadline.
Refused(i) ==
  LET p == creation[i].pass IN
  /\ creation[i].at = "sent" /\ pass[p].state = "calling"
  /\ Deleted(p)
  /\ \/ creation' = [creation EXCEPT ![i].at = "failing", ![i].pass = Nothing]
     \/ creation' = [creation EXCEPT ![i].at = "reserved", ![i].pass = Nothing]
     \/ \E q \in Held(creation[i].account) :
          /\ InTime(creation[i].checked)
          /\ creation' = [creation EXCEPT ![i].at = "made", ![i].pass = q]
  /\ UNCHANGED <<now, erased, account, row, followup, deletion>>

\* The client's timeout: the call may still be carried out.
GivesUp(i) ==
  /\ creation[i].at = "sent"
  /\ creation' = [creation EXCEPT ![i].at = "failing", ![i].pass = Nothing]
  /\ UNCHANGED <<now, erased, account, row, pass, followup, deletion>>

NeverArrives(p) ==
  /\ pass[p].state = "calling" /\ \A i \in Instances : creation[i].pass # p
  /\ Deleted(p)
  /\ UNCHANGED <<now, erased, account, row, creation, followup, deletion>>

ActiveRow(p) ==
  [row EXCEPT !.there = TRUE, !.status = "active", !.id = p, !.reserved = TRUE,
              !.issued = now]

\* A save that does not look at the event's account again.
SaveUnderAnyAccount(i) == IF IsErased THEN "orphan" ELSE "idle"

\* What markActive finds under the attendee's row lock and the event's template lock.
SaveStep(i) ==
  CASE IsErased                       -> "orphan"
    [] creation[i].account # account  -> "dropping"
    [] OTHER                          -> "idle"

Save(i) ==
  /\ creation[i].at = "made"
  /\ IF SaveStep(i) = "idle"
     THEN \/ row' = ActiveRow(creation[i].pass) /\ Ends(i)
          \/ Goes(i, "failing") /\ UNCHANGED row   \* the event was rescheduled meanwhile
     ELSE Goes(i, SaveStep(i)) /\ UNCHANGED row
  /\ UNCHANGED <<now, erased, account, pass, followup, deletion>>

\* The transaction fails; the attendee is looked at once more (isAttendeeGoneNow), and
\* when that fails too they count as still there.
SaveFails(i) ==
  /\ creation[i].at = "made"
  /\ \/ IsErased /\ Goes(i, "orphan")
     \/ Ends(i)
  /\ UNCHANGED <<now, erased, account, row, pass, followup, deletion>>

\* The row of the erased attendee gets the pass's id, and is to be looked at again.
OrphanRow(p) ==
  CASE ~row.there        -> [NoRow EXCEPT !.there = TRUE, !.status = "active", !.id = p,
                                          !.reserved = TRUE, !.issued = now]
    [] row.there /\ row.id = Nothing -> [row EXCEPT !.id = p, !.reserved = TRUE, !.removed = FALSE]
    [] OTHER             -> row

OrphanIsRecorded(i) ==
  /\ creation[i].at = "orphan"
  /\ row' = OrphanRow(creation[i].pass)
  /\ Goes(i, "orphaned")
  /\ UNCHANGED <<now, erased, account, pass, followup, deletion>>

\* A request that could not delete its pass in an account the event has left says so on
\* the row, if there is one and it can be written (rememberLeftBehindPass).
LeavesBehind(p) ==
  \/ /\ row.there
     /\ row' = [row EXCEPT !.left = TRUE]
     /\ pass' = [pass EXCEPT ![p].state = "left"]
  \/ UNCHANGED <<row, pass>>

OrphanIsDeleted(i) ==
  /\ creation[i].at = "orphaned"
  /\ Deleted(creation[i].pass)
  /\ Ends(i)
  /\ UNCHANGED <<now, erased, account, row, followup, deletion>>

\* The ids cannot be written, or the pass not deleted.
OrphanFails(i) ==
  LET p == creation[i].pass IN
  /\ creation[i].at \in {"orphan", "orphaned"}
  /\ IF creation[i].account # account /\ pass[p].state \in {"kept", "left"}
     THEN LeavesBehind(p)
     ELSE UNCHANGED <<row, pass>>
  /\ Ends(i)
  /\ UNCHANGED <<now, erased, account, followup, deletion>>

\* dropPassMadeUnderChangedCredentials.
Drop(i) ==
  LET p == creation[i].pass IN
  /\ creation[i].at = "dropping"
  /\ \/ Deleted(p) /\ Ends(i) /\ UNCHANGED row
     \/ /\ pass[p].state \in {"kept", "left"}
        /\ LeavesBehind(p)
        /\ Goes(i, "failing")
  /\ UNCHANGED <<now, erased, account, followup, deletion>>

FailedRow ==
  IF row.there
  THEN IF row.status = "active" THEN row ELSE [row EXCEPT !.status = "failed"]
  ELSE [NoRow EXCEPT !.there = TRUE, !.status = "failed"]

\* markFailed, under the attendee's row lock; it may fail too.
MarkFailed(i) ==
  /\ creation[i].at = "failing"
  /\ \/ ~IsErased /\ row' = FailedRow
     \/ UNCHANGED row
  /\ Ends(i)
  /\ UNCHANGED <<now, erased, account, pass, followup, deletion>>

\* The process dies, or is restarted.
Crash(i) ==
  /\ creation[i].at # "idle"
  /\ Ends(i)
  /\ UNCHANGED <<now, erased, account, row, pass, followup, deletion>>

-----------------------------------------------------------------------------
(* The attendee is erased, and what the erasure does about the passes.     *)

Erase ==
  /\ ~IsErased
  /\ now + Window <= MaxTime   \* BOUND: late enough erasures are left out
  /\ erased' = now
  /\ UNCHANGED <<now, account, row, pass, creation, followup, deletion>>

\* Only a recorded or failed pass is asked for.
RecordedOrFailed ==
  /\ row.there
  /\ \/ row.left
     \/ ~row.removed /\ (row.id # Nothing \/ row.status = "failed")

\* passIsStillToDelete.
StillToDelete ==
  /\ row.there
  /\ \/ row.left
     \/ ~row.removed /\ (row.id # Nothing \/ row.reserved \/ row.status = "failed")

FollowUpReads(f) ==
  /\ followup[f].at = "idle" /\ IsErased /\ StillToDelete
  /\ followup' = [followup EXCEPT ![f] =
       [at |-> IF row.id = Nothing THEN "reserved" ELSE "recorded", account |-> account,
        id |-> row.id, left |-> row.left, issued |-> row.issued, found |-> FALSE]]
  /\ UNCHANGED <<now, erased, account, row, pass, creation, deletion>>

\* A pass of another account is not found there, which counts as deleted.
FollowUpDeletesRecorded(f) ==
  LET q == followup[f] IN
  /\ q.at = "recorded"
  /\ IF q.id \in Held(q.account) THEN Deleted(q.id) ELSE UNCHANGED pass
  /\ followup' = [followup EXCEPT ![f].at = "reserved"]
  /\ UNCHANGED <<now, erased, account, row, creation, deletion>>

\* deletePassesUnder: one after the other, until there is none.
FollowUpDeletesReserved(f, p) ==
  /\ followup[f].at = "reserved" /\ p \in Held(followup[f].account)
  /\ Deleted(p)
  /\ followup' = [followup EXCEPT ![f].found = TRUE]
  /\ UNCHANGED <<now, erased, account, row, creation, deletion>>

\* creationsAreSettled.
Settled(q) ==
  \/ now >= erased + Window
  \/ q.id # Nothing /\ q.issued # Never /\ now >= q.issued + Window

\* "There is none" taken for final at once.
GoneAtOnce(q) == ~q.left

\* verdictOf: whether the row can be marked removed.
Gone(q) == ~q.left /\ ((q.found /\ q.id = Nothing) \/ Settled(q))

FollowUpDecides(f) ==
  /\ followup[f].at = "reserved" /\ Held(followup[f].account) = {}
  /\ followup' = [followup EXCEPT ![f] =
       IF Gone(followup[f]) THEN [followup[f] EXCEPT !.at = "settling"] ELSE NoFollowup]
  /\ UNCHANGED <<now, erased, account, row, pass, creation, deletion>>

\* The row is still the one that was read.
Unchanged(q) == row.there /\ row.id = q.id /\ ~row.removed /\ ~row.left

FollowUpSettles(f) ==
  /\ followup[f].at = "settling"
  /\ row' = IF Unchanged(followup[f]) THEN [row EXCEPT !.removed = TRUE] ELSE row
  /\ followup' = [followup EXCEPT ![f] = NoFollowup]
  /\ UNCHANGED <<now, erased, account, pass, creation, deletion>>

\* The provider fails, the time is up or the process dies: the next run tries again.
FollowUpStops(f) ==
  /\ followup[f].at # "idle"
  /\ followup' = [followup EXCEPT ![f] = NoFollowup]
  /\ UNCHANGED <<now, erased, account, row, pass, creation, deletion>>

\* settledUntrackedPassRow.
AskedAgain == row.there /\ row.removed /\ row.id = Nothing /\ (row.reserved \/ row.status = "failed")

\* recheckSettledWalletPasses, of the daily sweep.
SecondLook(p) ==
  /\ IsErased /\ AskedAgain /\ p \in Held(account)
  /\ Deleted(p)
  /\ UNCHANGED <<now, erased, account, row, creation, followup, deletion>>

-----------------------------------------------------------------------------
(* Administrators, and time.                                               *)

\* guardWalletTemplateChangeInTx: not once a pass has been issued.
ChangeAccount ==
  /\ account < MaxAccount /\ row.issued = Never
  /\ account' = account + 1
  /\ UNCHANGED <<now, erased, row, pass, creation, followup, deletion>>

\* handleDeleteAttendeeWalletPass: at the provider first, then the row.
DeleteAtProvider ==
  /\ deletion = "none" /\ ~IsErased /\ row.id # Nothing
  /\ IF row.id \in Held(account) THEN Deleted(row.id) ELSE UNCHANGED pass
  /\ deletion' = "provider"
  /\ UNCHANGED <<now, erased, account, row, creation, followup>>

\* deleteWalletPassRow: a row with the left-behind mark is replaced by one with only that.
RowAfterDelete ==
  IF row.left THEN [NoRow EXCEPT !.there = TRUE, !.status = "pending", !.left = TRUE] ELSE NoRow

DeleteRow ==
  /\ deletion = "provider"
  /\ deletion' = "done"
  /\ IF IsErased
     THEN UNCHANGED <<row, pass>>
     ELSE /\ row' = RowAfterDelete
          /\ pass' = [p \in Passes |->
                        IF pass[p].state = "none" THEN NoPass ELSE [pass[p] EXCEPT !.lost = TRUE]]
  /\ UNCHANGED <<now, erased, account, creation, followup>>

\* A call is carried out within Lag or never, and a request that has rechecked goes on
\* to its reservation within a tick.
Tick ==
  /\ now < MaxTime
  /\ \A p \in Passes : pass[p].state = "calling" => now < pass[p].at + Lag
  /\ \A i \in Instances : creation[i].at # "checked"
  /\ now' = now + 1
  /\ UNCHANGED <<erased, account, row, pass, creation, followup, deletion>>

CreationStep(i) ==
  \/ Recheck(i) \/ Reserve(i) \/ Send(i) \/ Answered(i) \/ Refused(i) \/ GivesUp(i)
  \/ Save(i) \/ SaveFails(i) \/ OrphanIsRecorded(i) \/ OrphanIsDeleted(i) \/ OrphanFails(i)
  \/ Drop(i) \/ MarkFailed(i) \/ Crash(i)

FollowUpStep(f) ==
  \/ FollowUpDeletesRecorded(f) \/ FollowUpDecides(f) \/ FollowUpSettles(f) \/ FollowUpStops(f)
  \/ \E p \in Passes : FollowUpDeletesReserved(f, p)

Next ==
  \/ \E i \in Instances : Tap(i) \/ CreationStep(i)
  \/ \E p \in Passes : Land(p) \/ NeverArrives(p) \/ SecondLook(p)
  \/ \E f \in Followups : FollowUpReads(f) \/ FollowUpStep(f)
  \/ Erase \/ ChangeAccount \/ DeleteAtProvider \/ DeleteRow \/ Tick

Spec == Init /\ [][Next]_vars

\* The daily sweep asks again until the row is settled, and at times the provider
\* answers it all the way; calls end and time goes on.
LiveSpec ==
  /\ Spec
  /\ WF_vars(Tick)
  /\ \A p \in Passes : WF_vars(Land(p) \/ NeverArrives(p)) /\ SF_vars(SecondLook(p))
  /\ \A i \in Instances : WF_vars(CreationStep(i))
  /\ \A f \in Followups :
       /\ WF_vars(FollowUpStep(f))
       /\ SF_vars(FollowUpReads(f)) /\ SF_vars(FollowUpDeletesRecorded(f))
       /\ SF_vars(\E p \in Passes : FollowUpDeletesReserved(f, p))

-----------------------------------------------------------------------------
(* What must be true.                                                      *)

\* A pass of an erased attendee in the event's account, or a call that may still make
\* one, is never out of sight: the row keeps the sweep asking, whatever request died,
\* whatever was marked removed and whichever of two taps was recorded.  (All but what
\* an administrator's deletion of the row made it forget: see NoneWithoutTrace.)  A
\* pass known to be left in an account the event has moved away from is never settled.
ErasedPassIsPursued ==
  IsErased =>
    /\ (\E p \in Passes : pass[p].state # "none" /\ pass[p].account = account /\ ~pass[p].lost)
         => StillToDelete \/ AskedAgain
    /\ (\E p \in Passes : pass[p].state = "left") => StillToDelete

\* The pass a live attendee is handed is one that the provider holds in the event's
\* account: no request that drops or replaces its own takes that one away.  (An
\* administrator's deletion may: a request that has just looked the pass up saves it as
\* active after it is gone.)
ActivePassIsHere ==
  ~IsErased /\ deletion = "none" /\ row.status = "active" => row.id \in Held(account)

\* docs/dev/attendee-erasure.md:787: of the passes of the erased, only one that a
\* request made before ids were reserved can be without a trace on the row.  Every
\* request here reserves its id, and none is under way.
NoneWithoutTrace ==
  /\ IsErased /\ Held(account) # {}
  /\ \A i \in Instances : creation[i].at = "idle"
  => row.there /\ (row.id # Nothing \/ row.reserved \/ row.left \/ row.status = "failed")

\* In the end the provider holds no pass of an erased attendee in the event's account.
ErasedPassGoes == IsErased ~> [](\A p \in Held(account) : pass[p].lost)
=============================================================================
