------------------------------ MODULE CheckIn ------------------------------
(***************************************************************************)
(* Admission at the door (packages/tickets): admitting a guest by scan or  *)
(* by hand, undoing the last scan of a device, revoking a check-in or a    *)
(* pass, the badge that goes out with a check-in, and the erasure of a     *)
(* guest's data while all of that goes on.                                 *)
(*                                                                         *)
(* What holds it together is a handful of locks.  Admissions and undos of  *)
(* one device follow one another (lockDeviceAdmissions).  Whatever writes  *)
(* a row of a guest holds the guest FOR KEY SHARE, which an erasure (FOR   *)
(* UPDATE) waits for and nothing else does.  The guest row itself is       *)
(* written under conditions checked by the update.                         *)
(*                                                                         *)
(* A check-in's time doubles as the name of the admission it began         *)
(* (admitted_at = checked_in_at), although two devices may check in at the *)
(* same moment, and an erasure cuts every time to the hour.                *)
(***************************************************************************)
EXTENDS Integers, Sequences

CONSTANTS Guests,      \* attendees of one event
          Devices,     \* labelled devices at the door
          Clerks,      \* staff requests without a device (admin app, CLI)
          NoDevice,    \* the device of a clerk's check-in
          HourLen,     \* one hour, in ticks of the clock
          MaxTime,     \* bound: the clock
          MaxScans,    \* bound: VALID check-in rows
          MaxVersion   \* bound: how often staff change the status of a guest

\* The clock starts in the second hour, so that no time is NotAdmitted.
ASSUME CheckInAssumption ==
  /\ Devices \cap Clerks = {}
  /\ NoDevice \notin Devices
  /\ HourLen \in Nat \ {0}
  /\ MaxTime \in Nat /\ MaxTime >= HourLen
  /\ MaxScans \in Nat
  /\ MaxVersion \in Nat

Stations == Devices \cup Clerks
NotAdmitted == 0
Times == HourLen..MaxTime

\* "registered" stands for registered and confirmed, the admittable statuses.
Statuses == {"registered", "revoked", "cancelled"}
Admittable(status) == status = "registered"

BadgeStates == {"pending", "issued", "returned"}
HandedOut == {"issued", "returned"}

\* An erasure that rounds a time up.
HourRoundedUp(t) == (t - (t % HourLen)) + HourLen

\* truncatedToLocalHour
Hour(t) == t - (t % HourLen)

VARIABLES
  guest,     \* guest[g]: status, admitted_at, version (updated_at), erased
  scans,     \* the VALID check-in rows of scans and manual check-ins, in the
             \* order they were committed; the id of a row is its place
  reversed,  \* ids named by a check_in_undo or check_in_revoked log row
  badge,     \* badge[g]: the badge's AttendeeItemState
  autoIssue, \* ids named by an item_issued log row
  clock,     \* the servers' time
  task,      \* task[s]: the request a station has open
  taken,     \* history: how often each check-in was taken back
  ledger,    \* history: item_issued minus item_revoked and undo rows of g
  issuer     \* history: the check-in that issued the badge g holds, or 0

badgeVars == <<badge, autoIssue, ledger, issuer>>
vars == <<guest, scans, reversed, badge, autoIssue, clock, task, taken, ledger,
          issuer>>

Idle == [kind |-> "idle"]
Free(s) == task[s] = Idle
Done(s) == task' = [task EXCEPT ![s] = Idle]

ScanIds == DOMAIN scans
ScansOf(g) == {i \in ScanIds : scans[i].guest = g}
ScansOn(d) == {i \in ScanIds : scans[i].device = d}

Init ==
  /\ guest = [g \in Guests |-> [status |-> "registered", erased |-> FALSE,
                                admitted |-> NotAdmitted, version |-> 0]]
  /\ scans = <<>>
  /\ reversed = {}
  /\ badge = [g \in Guests |-> "pending"]
  /\ autoIssue = {}
  /\ clock = HourLen
  /\ task = [s \in Stations |-> Idle]
  /\ taken = <<>>
  /\ ledger = [g \in Guests |-> 0]
  /\ issuer = [g \in Guests |-> 0]

(***************************************************************************)
(* admitAttendee                                                           *)
(***************************************************************************)
\* Device lock, guest lock, the read, and the time of the check-in.  The other
\* outcomes (INVALID, REVOKED, ALREADY_CHECKED_IN) change no admission.  A
\* device's own check-ins, one after the other under its lock, have distinct
\* times; those of two devices may be equal.
AdmitBegin(s, g) ==
  /\ Free(s)
  /\ ~guest[g].erased
  /\ Admittable(guest[g].status)
  /\ guest[g].admitted = NotAdmitted
  /\ s \in Devices => \A i \in ScansOn(s) : scans[i].made < clock
  /\ task' = [task EXCEPT ![s] = [kind |-> "admit", guest |-> g, at |-> clock]]
  /\ UNCHANGED <<guest, scans, reversed, badgeVars, clock, taken>>

\* The `where` of the admitting update.
StillOutside(g) == /\ guest[g].admitted = NotAdmitted
                   /\ Admittable(guest[g].status)

Admitted(x, at) == [x EXCEPT !.admitted = at, !.version = @ + 1]

\* issueBadgeOnCheckIn, if the event's settings ask for it.
IssueBadge(g, i) ==
  \/ UNCHANGED badgeVars
  \/ /\ badge[g] = "pending"
     /\ badge' = [badge EXCEPT ![g] = "issued"]
     /\ autoIssue' = autoIssue \cup {i}
     /\ ledger' = [ledger EXCEPT ![g] = @ + 1]
     /\ issuer' = [issuer EXCEPT ![g] = i]

\* From the update to the commit the transaction holds the guest's row.
AdmitCommit(s) ==
  LET t == task[s]
      g == t.guest
  IN
  /\ t.kind = "admit"
  /\ IF StillOutside(g)
     THEN /\ Len(scans) < MaxScans
          /\ guest' = [guest EXCEPT ![g] = Admitted(@, t.at)]
          /\ scans' = Append(scans,
               [guest |-> g, at |-> t.at, made |-> t.at,
                device |-> IF s \in Devices THEN s ELSE NoDevice])
          /\ taken' = Append(taken, 0)
          /\ IssueBadge(g, Len(scans) + 1)
     ELSE UNCHANGED <<guest, scans, taken, badgeVars>>
  /\ Done(s)
  /\ UNCHANGED <<reversed, clock>>

(***************************************************************************)
(* Taking an admission back                                                *)
(***************************************************************************)
Outside(x) == [x EXCEPT !.admitted = NotAdmitted, !.version = @ + 1]

\* The log row that names the check-in which was taken back.
Reverse(i) == /\ reversed' = reversed \cup {i}
              /\ taken' = [taken EXCEPT ![i] = @ + 1]

\* Device lock, then the newest VALID row of the device; the ids decide among
\* equal times, in no order that says anything.
UndoBegin(d) ==
  /\ Free(d)
  /\ \E i \in ScansOn(d) :
       /\ \A j \in ScansOn(d) : scans[j].at <= scans[i].at
       /\ task' = [task EXCEPT ![d] = [kind |-> "undo", scan |-> i,
                                       at |-> scans[i].at]]
  /\ UNCHANGED <<guest, scans, reversed, badgeVars, clock, taken>>

\* An undo that compares the times as they are stored.
MaybeLaterAsStored(d, at) ==
  \E j \in ScansOn(d) : guest[scans[j].guest].erased /\ scans[j].at > at

\* An erased row of the device that may have been made after `at`.
MaybeLater(d, at) ==
  \E j \in ScansOn(d) : guest[scans[j].guest].erased /\ scans[j].at > at - HourLen

\* An undo that tells admissions apart by their time alone.
MayUndoByTime(d, i, at) ==
  LET g == scans[i].guest IN
  /\ ~guest[g].erased
  /\ ~MaybeLater(d, at)
  /\ guest[g].admitted = at
  /\ \A j \in ScansOf(g) : scans[j].at <= at

\* What undoLastCheckIn asks under the guest's row lock.
MayUndo(d, i, at) ==
  LET g == scans[i].guest IN
  /\ ~guest[g].erased
  /\ ~MaybeLater(d, at)
  /\ guest[g].admitted # NotAdmitted
  /\ i \notin reversed
  /\ guest[g].admitted = at
  /\ \A j \in ScansOf(g) : scans[j].at <= at

\* rollbackBadgeForCheckIn
RollbackBadge(g, i) ==
  IF i \in autoIssue /\ badge[g] = "issued"
  THEN /\ badge' = [badge EXCEPT ![g] = "pending"]
       /\ ledger' = [ledger EXCEPT ![g] = @ - 1]
       /\ issuer' = [issuer EXCEPT ![g] = 0]
       /\ UNCHANGED autoIssue
  ELSE UNCHANGED badgeVars

UndoCommit(d) ==
  LET t == task[d]
      g == scans[t.scan].guest
  IN
  /\ t.kind = "undo"
  /\ IF MayUndo(d, t.scan, t.at)
     THEN /\ guest' = [guest EXCEPT ![g] = Outside(@)]
          /\ Reverse(t.scan)
          /\ RollbackBadge(g, t.scan)
     ELSE UNCHANGED <<guest, reversed, taken, badgeVars>>
  /\ Done(d)
  /\ UNCHANGED <<scans, clock>>

\* The rows revokeCheckInMutation takes for the current admission.
CurrentCheckIns(g) ==
  {i \in ScansOf(g) : scans[i].at = guest[g].admitted /\ i \notin reversed}

ReverseCurrent(g) ==
  IF CurrentCheckIns(g) = {} THEN UNCHANGED <<reversed, taken>>
  ELSE \E i \in CurrentCheckIns(g) : Reverse(i)

\* resetAllItemStatesForRevoke and revokeItemState, for the badge.
ResetBadge(g) ==
  IF badge[g] \in HandedOut
  THEN /\ badge' = [badge EXCEPT ![g] = "pending"]
       /\ ledger' = [ledger EXCEPT ![g] = @ - 1]
       /\ issuer' = [issuer EXCEPT ![g] = 0]
       /\ UNCHANGED autoIssue
  ELSE UNCHANGED badgeVars

\* revokeCheckIn, and one guest's turn of revokeAllCheckInsForEvent.  The reset
\* of the items refuses a blocked pass, and then nothing is written.
RevokeCheckIn(g) ==
  /\ ~guest[g].erased
  /\ guest[g].admitted # NotAdmitted
  /\ Admittable(guest[g].status)
  /\ guest' = [guest EXCEPT ![g] = Outside(@)]
  /\ ReverseCurrent(g)
  /\ ResetBadge(g)
  /\ UNCHANGED <<scans, clock, task>>

(***************************************************************************)
(* Changing the status of a pass                                           *)
(***************************************************************************)
WithStatus(x, status) == [x EXCEPT !.status = status, !.version = @ + 1]

\* revokeOneAttendeePass: the items stay where they are.
RevokePass(g) ==
  /\ ~guest[g].erased
  /\ Admittable(guest[g].status)
  /\ guest[g].version < MaxVersion
  /\ guest' = [guest EXCEPT ![g] = WithStatus(Outside(@), "revoked")]
  /\ IF guest[g].admitted # NotAdmitted THEN ReverseCurrent(g)
     ELSE UNCHANGED <<reversed, taken>>
  /\ UNCHANGED <<scans, badgeVars, clock, task>>

\* The attendee form is loaded, with the row's updated_at in it.
EditOpen(c, g) ==
  /\ Free(c)
  /\ ~guest[g].erased
  /\ task' = [task EXCEPT ![c] = [kind |-> "edit", guest |-> g,
                                  read |-> guest[g]]]
  /\ UNCHANGED <<guest, scans, reversed, badgeVars, clock, taken>>

\* A save that does not ask whether the row has changed.
CurrentAnyVersion(g, x) == ~guest[g].erased

\* optimisticAttendeeUpdate
Current(g, x) == ~guest[g].erased /\ guest[g].version = x.version

\* runPatchAttendeeTransaction with another status than the one read: a pass
\* that is blocked loses the admission it was read with.
EditSave(c) ==
  LET t == task[c]
      g == t.guest
  IN
  /\ t.kind = "edit"
  /\ \E status \in {"registered", "revoked"} :
       /\ status # t.read.status
       /\ guest[g].version < MaxVersion
       /\ IF ~Current(g, t.read)
          THEN UNCHANGED <<guest, reversed, taken>>
          ELSE IF ~Admittable(status) /\ t.read.admitted # NotAdmitted
          THEN /\ guest' = [guest EXCEPT ![g] = WithStatus(Outside(@), status)]
               /\ ReverseCurrent(g)
          ELSE /\ guest' = [guest EXCEPT ![g] = WithStatus(@, status)]
               /\ UNCHANGED <<reversed, taken>>
  /\ Done(c)
  /\ UNCHANGED <<scans, badgeVars, clock>>

\* The form is closed, or the event turns out to be full.
EditDrop(c) ==
  /\ task[c].kind = "edit"
  /\ Done(c)
  /\ UNCHANGED <<guest, scans, reversed, badgeVars, clock, taken>>

(***************************************************************************)
(* Items                                                                   *)
(***************************************************************************)
\* transitionItemState: guest lock and read, then an update that asks for the
\* state that was read.
ItemBegin(s, g) ==
  /\ Free(s)
  /\ ~guest[g].erased
  /\ badge[g] \in {"pending", "issued"}
  /\ task' = [task EXCEPT ![s] = [kind |-> "item", guest |-> g,
                                  from |-> badge[g]]]
  /\ UNCHANGED <<guest, scans, reversed, badgeVars, clock, taken>>

\* An item update that trusts the read.
ItemUnchangedAssumed(g, from) == TRUE

ItemUnchanged(g, from) == badge[g] = from

ItemCommit(s) ==
  LET t == task[s]
      g == t.guest
  IN
  /\ t.kind = "item"
  /\ IF ~ItemUnchanged(g, t.from) THEN UNCHANGED <<badge, ledger, issuer>>
     ELSE IF t.from = "pending"
     THEN /\ badge' = [badge EXCEPT ![g] = "issued"]
          /\ ledger' = [ledger EXCEPT ![g] = @ + 1]
          /\ issuer' = [issuer EXCEPT ![g] = 0]
     ELSE /\ badge' = [badge EXCEPT ![g] = "returned"]
          /\ UNCHANGED <<ledger, issuer>>
  /\ Done(s)
  /\ UNCHANGED <<guest, scans, reversed, autoIssue, clock, taken>>

\* revokeItemState, and one guest's turn of the two bulk resets.
RevokeItem(g) ==
  /\ ~guest[g].erased
  /\ Admittable(guest[g].status)
  /\ badge[g] \in HandedOut
  /\ ResetBadge(g)
  /\ UNCHANGED <<guest, scans, reversed, clock, task, taken>>

(***************************************************************************)
(* Erasure                                                                 *)
(***************************************************************************)
\* An erasure that does not wait.
LockedAgainstNothing(g) == FALSE

\* Requests that hold the guest FOR KEY SHARE from one step to the next.
LockedAgainstErasure(g) ==
  \E s \in Stations : task[s].kind \in {"admit", "item"} /\ task[s].guest = g

ErasedGuest(x, archived) ==
  [x EXCEPT !.erased = TRUE,
            !.version = @ + 1,
            !.admitted = Hour(@),
            !.status = IF x.admitted = NotAdmitted /\ ~archived /\ Admittable(@)
                       THEN "cancelled" ELSE @]

\* eraseAttendees: the times of the check-ins are cut to the hour, the activity
\* log of the guest goes.
Erase(g) ==
  /\ ~guest[g].erased
  /\ ~LockedAgainstErasure(g)
  /\ \E archived \in BOOLEAN :
       guest' = [guest EXCEPT ![g] = ErasedGuest(@, archived)]
  /\ scans' = [i \in ScanIds |->
                 IF scans[i].guest = g THEN [scans[i] EXCEPT !.at = Hour(@)]
                 ELSE scans[i]]
  /\ reversed' = reversed \ ScansOf(g)
  /\ autoIssue' = autoIssue \ ScansOf(g)
  /\ ledger' = [ledger EXCEPT ![g] = 0]
  /\ UNCHANGED <<badge, clock, task, taken, issuer>>

Tick == /\ clock < MaxTime
        /\ clock' = clock + 1
        /\ UNCHANGED <<guest, scans, reversed, badgeVars, task, taken>>

-----------------------------------------------------------------------------
Next ==
  \/ \E s \in Stations, g \in Guests : AdmitBegin(s, g) \/ ItemBegin(s, g)
  \/ \E s \in Stations : AdmitCommit(s) \/ ItemCommit(s)
  \/ \E d \in Devices : UndoBegin(d) \/ UndoCommit(d)
  \/ \E c \in Clerks : EditSave(c) \/ EditDrop(c) \/ \E g \in Guests : EditOpen(c, g)
  \/ \E g \in Guests :
       RevokeCheckIn(g) \/ RevokePass(g) \/ RevokeItem(g) \/ Erase(g)
  \/ Tick

Spec == Init /\ [][Next]_vars
-----------------------------------------------------------------------------
(***************************************************************************)
(* What the door promises                                                  *)
(***************************************************************************)
GuestRecords == [status : Statuses, erased : BOOLEAN,
                 admitted : Times \cup {NotAdmitted}, version : Nat]
ScanRecords == [guest : Guests, at : Times, made : Times,
                device : Devices \cup {NoDevice}]
Tasks == {Idle}
         \cup [kind : {"admit"}, guest : Guests, at : Times]
         \cup [kind : {"undo"}, scan : Nat, at : Times]
         \cup [kind : {"edit"}, guest : Guests, read : GuestRecords]
         \cup [kind : {"item"}, guest : Guests, from : BadgeStates]

\* Types; an open undo names a check-in that exists.
TypeOK ==
  /\ guest \in [Guests -> GuestRecords]
  /\ scans \in Seq(ScanRecords)
  /\ reversed \in SUBSET ScanIds
  /\ badge \in [Guests -> BadgeStates]
  /\ autoIssue \in SUBSET ScanIds
  /\ clock \in Times
  /\ task \in [Stations -> Tasks]
  /\ \A s \in Stations : task[s].kind = "undo" => task[s].scan \in ScanIds
  /\ taken \in [ScanIds -> Nat]
  /\ ledger \in [Guests -> Int]
  /\ issuer \in [Guests -> Nat]

\* A guest is inside exactly because of one check-in that nobody has taken
\* back, the one whose time the guest's row carries, and no check-in is taken
\* back twice: undo on a device, revoke and re-admission elsewhere at the very
\* same moment included.
StandingAdmission ==
  /\ \A i \in ScanIds : taken[i] <= 1
  /\ \A g \in Guests :
       LET open == {i \in ScansOf(g) : taken[i] = 0} IN
       IF guest[g].admitted = NotAdmitted THEN open = {}
       ELSE \E i \in open : open = {i} /\ scans[i].at = guest[g].admitted

\* Nobody is inside on a pass that has been revoked or cancelled, whatever was
\* scanned, edited or revoked at the same time.
NoBlockedAdmission ==
  \A g \in Guests :
    ~Admittable(guest[g].status) => guest[g].admitted = NotAdmitted

\* A guest shown as inside came in by one check-in that stands, and on a pass that is
\* good (check-in, undo, revoke, the edit form).
AdmissionHolds == StandingAdmission /\ NoBlockedAdmission

\* The activity log adds up: it shows one hand-out more than take-backs for a
\* badge that is out, and as many for one that is not.
BadgeLedger ==
  \A g \in Guests : ~guest[g].erased =>
    ledger[g] = IF badge[g] \in HandedOut THEN 1 ELSE 0

\* Once a guest is erased, no time of theirs is more exact than the hour and no
\* row of their activity log is left, whichever requests were open before.
ErasedLeavesNoTrace ==
  \A g \in Guests : guest[g].erased =>
    /\ guest[g].admitted = Hour(guest[g].admitted)
    /\ \A i \in ScansOf(g) : scans[i].at = Hour(scans[i].at)
    /\ ScansOf(g) \cap (reversed \cup autoIssue) = {}
    /\ ledger[g] = 0

\* Undo takes back the last check-in of the device it was asked on and no other,
\* by the true times, also when some of them have been cut to the hour.
UndoTakesBackOwnLast ==
  [][\A d \in Devices :
       UndoCommit(d) /\ reversed' # reversed =>
         LET i == task[d].scan IN
         /\ i \in ScansOn(d)
         /\ \A j \in ScansOn(d) : scans[j].made <= scans[i].made]_vars

(***************************************************************************)
(* What a comment says, and the code breaks                                *)
(***************************************************************************)
\* "Roll back badge issued during a specific check-in": an undo takes a badge
\* back only when that check-in is what handed it out.
UndoRollsBackOwnBadge ==
  [][\A d \in Devices :
       UndoCommit(d) =>
         \A g \in Guests :
           badge'[g] # badge[g] => issuer[g] = task[d].scan]_vars
=============================================================================
