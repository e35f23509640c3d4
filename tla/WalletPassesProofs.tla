--------------------------- MODULE WalletPassesProofs ---------------------------
(***************************************************************************)
(* What TLAPS proves of WalletPasses for any number of processes, runs of  *)
(* the follow-up, passes and accounts, and any deadline, lag and window    *)
(* that satisfy the module's assumptions.                                  *)
(***************************************************************************)
EXTENDS WalletPasses, TLAPS

Steps == {"idle", "looked", "checked", "reserved", "sent", "made", "dropping", "failing",
          "orphan", "orphaned"}
Statuses == {"none", "pending", "active", "failed"}
States == {"none", "calling", "kept", "left"}
Stages == {"idle", "recorded", "reserved", "settling"}
MaybePasses == Passes \cup {Nothing}
Moments == Times \cup {Never}

Rows == [there : BOOLEAN, status : Statuses, id : MaybePasses, reserved : BOOLEAN,
         left : BOOLEAN, removed : BOOLEAN, issued : Moments]
PassRecords == [state : States, account : Accounts, at : Moments, lost : BOOLEAN]
Creations == [at : Steps, account : Accounts, checked : Moments, pass : MaybePasses]
FollowRecords == [at : Stages, account : Accounts, id : MaybePasses, left : BOOLEAN,
                  issued : Moments, found : BOOLEAN]

RowOK(r) ==
  /\ r \in Rows
  /\ r.there <=> r.status # "none"
  /\ ~r.there => r = NoRow

LEMMA TypeParts ==
  TypeOK <=> /\ now \in Times /\ erased \in Moments /\ account \in Accounts
             /\ RowOK(row)
             /\ pass \in [Passes -> PassRecords]
             /\ creation \in [Instances -> Creations]
             /\ followup \in [Followups -> FollowRecords]
             /\ deletion \in {"none", "provider", "done"}
PROOF BY DEF TypeOK, RowOK, Rows, PassRecords, Creations, FollowRecords, Steps, Statuses,
             States, Stages, MaybePasses, Moments

LEMMA TypePartsNext ==
  TypeOK' <=> /\ now' \in Times /\ erased' \in Moments /\ account' \in Accounts
              /\ RowOK(row')
              /\ pass' \in [Passes -> PassRecords]
              /\ creation' \in [Instances -> Creations]
              /\ followup' \in [Followups -> FollowRecords]
              /\ deletion' \in {"none", "provider", "done"}
PROOF BY DEF TypeOK, RowOK, Rows, PassRecords, Creations, FollowRecords, Steps, Statuses,
             States, Stages, MaybePasses, Moments

LEMMA TimeFacts ==
  /\ MaxTime \in Nat /\ Deadline \in Nat /\ Lag \in Nat /\ Window \in Nat /\ Deadline + Lag < Window
  /\ \A t \in Moments : t \in Nat
  /\ \A t \in Times : t # Never /\ t \in Moments
  /\ Never \in Moments /\ Never = 0
  /\ \A a \in Accounts : a \in Nat /\ 1 <= a
  /\ 1 \in Accounts /\ 1 \in Times
PROOF BY TimesAssumption, WindowAssumption, BoundsAssumption DEF Times, Moments, Never, Accounts

-----------------------------------------------------------------------------
(* The invariant.                                                          *)

\* Only an issued pass is active, and it has an id; only an erasure settles a row.
RowFits ==
  /\ row.issued # Never <=> row.status = "active"
  /\ row.status = "active" => row.id # Nothing
  /\ row.removed => IsErased

\* What the row says of the passes there are, and where these can be.
Marked ==
  \A p \in Passes :
    /\ pass[p].state # "none" /\ ~pass[p].lost => row.reserved
    /\ pass[p].state = "left" => row.left
    /\ pass[p].state # "none" => pass[p].account <= account

\* The steps at which a request knows the name of a pass.
Keeping == {"sent", "made", "dropping", "orphan", "orphaned"}

\* A request's pass is of the account it has read, and a call is one request's only.
Owned ==
  \A i \in Instances : LET c == creation[i] IN
    /\ c.account <= account
    /\ c.at \in Keeping => c.pass # Nothing
    /\ c.at \in {"orphan", "orphaned"} => IsErased
    /\ c.at = "dropping" => c.account # account
    /\ c.pass # Nothing =>
         /\ pass[c.pass].state # "none" => pass[c.pass].account = c.account
         /\ pass[c.pass].state = "calling" =>
              c.at = "sent" /\ \A j \in Instances \ {i} : creation[j].pass # c.pass

\* The steps at which a request may still send.
UnderWay == {"reserved", "sent"}

\* Every request under way had its turn by t, and every call was sent in time for that.
Lasts(t) ==
  /\ \A i \in Instances : creation[i].at \in UnderWay => creation[i].checked <= t
  /\ \A p \in Passes : pass[p].state = "calling" => pass[p].at <= t + Deadline

\* An erasure ends the time in which a request can reserve, and so does an active row.
Timely ==
  /\ \A i \in Instances : creation[i].at \in UnderWay => creation[i].checked <= now
  /\ \A p \in Passes : pass[p].state = "calling" => pass[p].at <= now /\ now <= pass[p].at + Lag
  /\ IsErased => Lasts(erased)
  /\ row.status = "active" =>
      /\ Lasts(row.issued)
      /\ \A i \in Instances : creation[i].at = "checked" => now = row.issued

\* So long after either that no call can still be on its way (see QuietFacts).
Quiet ==
  \/ IsErased /\ now >= erased + Window
  \/ row.status = "active" /\ now >= row.issued + Window

\* What a run of the follow-up can rely on, from what it has read in q.
Backed(q) ==
  /\ IsErased /\ row.there /\ q.account <= account /\ q.issued = row.issued
  /\ \A i \in Instances : creation[i].account <= q.account
  /\ \A p \in Passes : pass[p].state # "none" => pass[p].account <= q.account
  /\ q.at = "settling" /\ q.id # Nothing => Quiet /\ Held(q.account) = {}

\* A row with an id is settled only when nothing is held and nothing can come.
Followed ==
  /\ \A f \in Followups : followup[f].at # "idle" => Backed(followup[f])
  /\ row.removed /\ row.id # Nothing => Quiet /\ Held(account) = {}

\* What a live attendee's row and requests name is at the provider.
Here ==
  ~IsErased /\ deletion = "none" =>
    /\ row.status = "active" => row.id \in Held(account)
    /\ \A i \in Instances : creation[i].at = "made" /\ creation[i].account = account
                              => creation[i].pass \in Held(account)

IInv == RowFits /\ Marked /\ Owned /\ Timely /\ Followed /\ Here

-----------------------------------------------------------------------------
(* Records.                                                                *)

LEMMA RowFields ==
  ASSUME NEW r, RowOK(r)
  PROVE  /\ r.there \in BOOLEAN /\ r.status \in Statuses /\ r.id \in MaybePasses
         /\ r.reserved \in BOOLEAN /\ r.left \in BOOLEAN /\ r.removed \in BOOLEAN
         /\ r.issued \in Moments
         /\ r.there <=> r.status # "none"
         /\ ~r.there => ~r.reserved /\ ~r.left /\ ~r.removed /\ r.id = Nothing /\ r.issued = Never
PROOF
  <1>1. /\ r.there \in BOOLEAN /\ r.status \in Statuses /\ r.id \in MaybePasses
        /\ r.reserved \in BOOLEAN /\ r.left \in BOOLEAN /\ r.removed \in BOOLEAN
        /\ r.issued \in Moments
    BY DEF RowOK, Rows
  <1>2. ASSUME ~r.there
        PROVE  ~r.reserved /\ ~r.left /\ ~r.removed /\ r.id = Nothing /\ r.issued = Never
    <2>1. r = NoRow
      BY <1>2 DEF RowOK
    <2> QED BY <2>1 DEF NoRow
  <1> QED BY <1>1, <1>2 DEF RowOK

LEMMA NoRowIs ==
  /\ RowOK(NoRow) /\ ~NoRow.there /\ NoRow.status = "none" /\ NoRow.id = Nothing
  /\ ~NoRow.reserved /\ ~NoRow.left /\ ~NoRow.removed /\ NoRow.issued = Never
PROOF
  <1>1. "none" \in Statuses /\ Nothing \in MaybePasses /\ Never \in Moments
    BY TimeFacts DEF Statuses, MaybePasses
  <1>2. NoRow \in Rows
    BY <1>1, Zenon DEF NoRow, Rows
  <1> QED BY <1>2 DEF RowOK, NoRow

\* A row that is there, and its fields.
RowIs(y, status, id, reserved, left, removed, issued) ==
  /\ RowOK(y) /\ y.there /\ y.status = status /\ y.id = id
  /\ y.reserved <=> reserved
  /\ y.left <=> left
  /\ y.removed <=> removed
  /\ y.issued = issued

LEMMA ReservedRowIs ==
  ASSUME RowOK(row)
  PROVE  RowIs(ReservedRow, IF row.there THEN row.status ELSE "pending", row.id, TRUE,
               row.left, row.removed, row.issued)
PROOF
  <1> DEFINE s == IF row.there THEN row.status ELSE "pending"
  <1> DEFINE y == [row EXCEPT !.there = TRUE, !.reserved = TRUE, !.status = s]
  <1>1. /\ row \in Rows /\ row.status \in Statuses /\ row.id \in MaybePasses /\ row.issued \in Moments
        /\ row.reserved \in BOOLEAN /\ row.left \in BOOLEAN /\ row.removed \in BOOLEAN
        /\ row.there \in BOOLEAN
    BY RowFields DEF RowOK
  <1>2. s \in Statuses /\ s # "none"
    BY RowFields, TimeFacts DEF Statuses
  <1> HIDE DEF s
  <1>3. /\ y \in Rows /\ y.there = TRUE /\ y.status = s /\ y.id = row.id
        /\ y.reserved = TRUE /\ y.left = row.left /\ y.removed = row.removed /\ y.issued = row.issued
    BY <1>1, <1>2, Zenon DEF Rows
  <1> HIDE DEF y
  <1>4. RowIs(y, s, row.id, TRUE, row.left, row.removed, row.issued)
    BY <1>2, <1>3, Zenon DEF RowIs, RowOK
  <1> QED BY <1>4, Zenon DEF y, s, ReservedRow

LEMMA ActiveRowIs ==
  ASSUME RowOK(row), NEW p \in MaybePasses, now \in Times
  PROVE  RowIs(ActiveRow(p), "active", p, TRUE,
               row.left, row.removed, now)
PROOF
  <1> DEFINE y == [row EXCEPT !.there = TRUE, !.status = "active", !.id = p, !.reserved = TRUE, !.issued = now]
  <1>1. /\ row \in Rows /\ row.status \in Statuses /\ row.id \in MaybePasses /\ row.issued \in Moments
        /\ row.reserved \in BOOLEAN /\ row.left \in BOOLEAN /\ row.removed \in BOOLEAN
        /\ row.there \in BOOLEAN
    BY RowFields DEF RowOK
  <1>2. "active" \in Statuses /\ "active" # "none" /\ now \in Moments
    BY RowFields, TimeFacts DEF Statuses
  <1>3. /\ y \in Rows /\ y.there = TRUE /\ y.status = "active" /\ y.id = p
        /\ y.reserved = TRUE /\ y.left = row.left /\ y.removed = row.removed /\ y.issued = now
    BY <1>1, <1>2, Zenon DEF Rows
  <1> HIDE DEF y
  <1>4. RowIs(y, "active", p, TRUE, row.left, row.removed, now)
    BY <1>2, <1>3, Zenon DEF RowIs, RowOK
  <1> QED BY <1>4, Zenon DEF y, ActiveRow

LEMMA LeftRowIs ==
  ASSUME RowOK(row), row.there
  PROVE  RowIs([row EXCEPT !.left = TRUE], row.status, row.id, row.reserved,
               TRUE, row.removed, row.issued)
PROOF
  <1> DEFINE y == [row EXCEPT !.left = TRUE]
  <1>1. /\ row \in Rows /\ row.status \in Statuses /\ row.id \in MaybePasses /\ row.issued \in Moments
        /\ row.reserved \in BOOLEAN /\ row.left \in BOOLEAN /\ row.removed \in BOOLEAN
        /\ row.there \in BOOLEAN
    BY RowFields DEF RowOK
  <1>2. row.status \in Statuses /\ row.status # "none"
    BY RowFields, TimeFacts DEF Statuses
  <1>3. /\ y \in Rows /\ y.there = row.there /\ y.status = row.status /\ y.id = row.id
        /\ y.reserved = row.reserved /\ y.left = TRUE /\ y.removed = row.removed /\ y.issued = row.issued
    BY <1>1, <1>2, Zenon DEF Rows
  <1> HIDE DEF y
  <1>4. RowIs(y, row.status, row.id, row.reserved, TRUE, row.removed, row.issued)
    BY <1>2, <1>3, Zenon DEF RowIs, RowOK
  <1> QED BY <1>4, Zenon DEF y

LEMMA RemovedRowIs ==
  ASSUME RowOK(row), row.there
  PROVE  RowIs([row EXCEPT !.removed = TRUE], row.status, row.id, row.reserved,
               row.left, TRUE, row.issued)
PROOF
  <1> DEFINE y == [row EXCEPT !.removed = TRUE]
  <1>1. /\ row \in Rows /\ row.status \in Statuses /\ row.id \in MaybePasses /\ row.issued \in Moments
        /\ row.reserved \in BOOLEAN /\ row.left \in BOOLEAN /\ row.removed \in BOOLEAN
        /\ row.there \in BOOLEAN
    BY RowFields DEF RowOK
  <1>2. row.status \in Statuses /\ row.status # "none"
    BY RowFields, TimeFacts DEF Statuses
  <1>3. /\ y \in Rows /\ y.there = row.there /\ y.status = row.status /\ y.id = row.id
        /\ y.reserved = row.reserved /\ y.left = row.left /\ y.removed = TRUE /\ y.issued = row.issued
    BY <1>1, <1>2, Zenon DEF Rows
  <1> HIDE DEF y
  <1>4. RowIs(y, row.status, row.id, row.reserved, row.left, TRUE, row.issued)
    BY <1>2, <1>3, Zenon DEF RowIs, RowOK
  <1> QED BY <1>4, Zenon DEF y

LEMMA FailedRowIs ==
  ASSUME RowOK(row)
  PROVE  RowIs(FailedRow, IF row.status = "active" THEN "active" ELSE "failed", row.id,
               row.reserved, row.left, row.removed, row.issued)
PROOF
  <1>1. CASE ~row.there
    <2> DEFINE y == [NoRow EXCEPT !.there = TRUE, !.status = "failed"]
    <2>1. /\ NoRow \in Rows /\ NoRow.there = FALSE /\ NoRow.id = Nothing /\ NoRow.reserved = FALSE
          /\ NoRow.left = FALSE /\ NoRow.removed = FALSE /\ NoRow.issued = Never
      BY NoRowIs DEF RowOK, NoRow
    <2>2. "failed" \in Statuses /\ "failed" # "none" /\ Never \in Moments
      BY TimeFacts DEF Statuses
    <2>3. /\ y \in Rows /\ y.there = TRUE /\ y.status = "failed" /\ y.id = Nothing
          /\ y.reserved = FALSE /\ y.left = FALSE /\ y.removed = FALSE /\ y.issued = Never
      BY <2>1, <2>2, Zenon DEF Rows
    <2>4. FailedRow = y
      BY <1>1 DEF FailedRow
    <2> HIDE DEF y
    <2>5. RowIs(FailedRow, "failed", Nothing, FALSE, FALSE, FALSE, Never)
      BY <2>2, <2>3, <2>4, Zenon DEF RowIs, RowOK
    <2>6. row.id = Nothing /\ row.issued = Never /\ row.status # "active"
          /\ row.reserved = FALSE /\ row.left = FALSE /\ row.removed = FALSE
      BY <1>1 DEF RowOK, NoRow
    <2> QED BY <2>5, <2>6
  <1>2. CASE row.there /\ row.status = "active"
    BY <1>2, RowFields DEF FailedRow, RowIs
  <1>3. CASE row.there /\ row.status # "active"
    <2> DEFINE y == [row EXCEPT !.status = "failed"]
    <2>1. /\ row \in Rows /\ row.there = TRUE /\ "failed" \in Statuses /\ "failed" # "none"
      BY <1>3, RowFields DEF RowOK, Statuses
    <2>2. /\ y \in Rows /\ y.there = TRUE /\ y.status = "failed" /\ y.id = row.id
          /\ y.reserved = row.reserved /\ y.left = row.left /\ y.removed = row.removed
          /\ y.issued = row.issued
      BY <2>1, Zenon DEF Rows
    <2>3. FailedRow = y
      BY <1>3 DEF FailedRow
    <2> HIDE DEF y
    <2>4. RowIs(FailedRow, "failed", row.id, row.reserved, row.left, row.removed, row.issued)
      BY <2>1, <2>2, <2>3, Zenon DEF RowIs, RowOK
    <2> QED BY <1>3, <2>4
  <1> QED BY <1>1, <1>2, <1>3, RowFields

\* An orphan's row: made for it, given its id, or already another's.
LEMMA OrphanRowIs ==
  ASSUME RowOK(row), NEW p \in MaybePasses, now \in Times
  PROVE  \/ ~row.there /\ RowIs(OrphanRow(p), "active", p, TRUE, FALSE, FALSE, now)
         \/ /\ row.there /\ row.id = Nothing
            /\ RowIs(OrphanRow(p), row.status, p, TRUE, row.left, FALSE, row.issued)
         \/ row.there /\ row.id # Nothing /\ OrphanRow(p) = row
PROOF
  <1>1. CASE ~row.there
    <2> DEFINE y == [NoRow EXCEPT !.there = TRUE, !.status = "active", !.id = p,
                                !.reserved = TRUE, !.issued = now]
    <2>1. /\ NoRow \in Rows /\ NoRow.there = FALSE /\ NoRow.id = Nothing /\ NoRow.reserved = FALSE
          /\ NoRow.left = FALSE /\ NoRow.removed = FALSE /\ NoRow.issued = Never
      BY NoRowIs DEF RowOK, NoRow
    <2>2. "active" \in Statuses /\ "active" # "none" /\ now \in Moments
      BY TimeFacts DEF Statuses
    <2>3. /\ y \in Rows /\ y.there = TRUE /\ y.status = "active" /\ y.id = p
          /\ y.reserved = TRUE /\ y.left = FALSE /\ y.removed = FALSE /\ y.issued = now
      BY <2>1, <2>2, Zenon DEF Rows
    <2>4. OrphanRow(p) = y
      BY <1>1 DEF OrphanRow
    <2> HIDE DEF y
    <2>5. RowIs(OrphanRow(p), "active", p, TRUE, FALSE, FALSE, now)
      BY <2>2, <2>3, <2>4, Zenon DEF RowIs, RowOK
    <2> QED BY <1>1, <2>5
  <1>2. CASE row.there /\ row.id = Nothing
    <2> DEFINE y == [row EXCEPT !.id = p, !.reserved = TRUE, !.removed = FALSE]
    <2>1. row \in Rows /\ row.there = TRUE /\ row.status \in Statuses /\ row.status # "none"
      BY <1>2, RowFields DEF RowOK
    <2>2. /\ y \in Rows /\ y.there = TRUE /\ y.status = row.status /\ y.id = p
          /\ y.reserved = TRUE /\ y.left = row.left /\ y.removed = FALSE
          /\ y.issued = row.issued
      BY <2>1, Zenon DEF Rows
    <2>3. OrphanRow(p) = y
      BY <1>2 DEF OrphanRow
    <2> HIDE DEF y
    <2>4. RowIs(OrphanRow(p), row.status, p, TRUE, row.left, FALSE, row.issued)
      BY <2>1, <2>2, <2>3, Zenon DEF RowIs, RowOK
    <2> QED BY <1>2, <2>4
  <1>3. CASE row.there /\ row.id # Nothing
    BY <1>3 DEF OrphanRow
  <1> QED BY <1>1, <1>2, <1>3

LEMMA RowAfterDeleteIs ==
  \/ ~row.left /\ RowAfterDelete = NoRow
  \/ row.left /\ RowIs(RowAfterDelete, "pending", Nothing, FALSE, TRUE, FALSE, Never)
PROOF
  <1>1. CASE row.left
    <2> DEFINE y == [NoRow EXCEPT !.there = TRUE, !.status = "pending", !.left = TRUE]
    <2>1. /\ NoRow \in Rows /\ NoRow.there = FALSE /\ NoRow.id = Nothing /\ NoRow.reserved = FALSE
          /\ NoRow.left = FALSE /\ NoRow.removed = FALSE /\ NoRow.issued = Never
      BY NoRowIs DEF RowOK, NoRow
    <2>2. "pending" \in Statuses /\ "pending" # "none" /\ Never \in Moments
      BY TimeFacts DEF Statuses
    <2>3. /\ y \in Rows /\ y.there = TRUE /\ y.status = "pending" /\ y.id = Nothing
          /\ y.reserved = FALSE /\ y.left = TRUE /\ y.removed = FALSE /\ y.issued = Never
      BY <2>1, <2>2, Zenon DEF Rows
    <2>4. RowAfterDelete = y
      BY <1>1 DEF RowAfterDelete
    <2> HIDE DEF y
    <2>5. RowIs(RowAfterDelete, "pending", Nothing, FALSE, TRUE, FALSE, Never)
      BY <2>2, <2>3, <2>4, Zenon DEF RowIs, RowOK
    <2> QED BY <1>1, <2>5
  <1>2. CASE ~row.left
    BY <1>2 DEF RowAfterDelete
  <1> QED BY <1>1, <1>2

-----------------------------------------------------------------------------
(* What the steps do to one request, one pass and one run of the follow-up. *)

\* Request i is at a step, with an account, a time and a pass; the others stay.
RequestIs(i, at, acc, checked, p) ==
  /\ creation' \in [Instances -> Creations]
  /\ \A j \in Instances \ {i} : creation'[j] = creation[j]
  /\ creation'[i].at = at /\ creation'[i].account = acc
  /\ creation'[i].checked = checked /\ creation'[i].pass = p

LEMMA CreationFields ==
  ASSUME NEW c \in Creations
  PROVE  c.at \in Steps /\ c.account \in Accounts /\ c.checked \in Moments /\ c.pass \in MaybePasses
PROOF BY DEF Creations

LEMMA RequestGoes ==
  ASSUME creation \in [Instances -> Creations], NEW i \in Instances, NEW step \in Steps, Goes(i, step)
  PROVE  RequestIs(i, step, creation[i].account, creation[i].checked, creation[i].pass)
PROOF
  <1> DEFINE y == [creation[i] EXCEPT !.at = step]
  <1>1. creation[i] \in Creations
    OBVIOUS
  <1>2. y \in Creations /\ y.at = step /\ y.account = creation[i].account
        /\ y.checked = creation[i].checked /\ y.pass = creation[i].pass
    BY <1>1, Zenon DEF Creations
  <1>3. creation' = [creation EXCEPT ![i] = y]
    BY DEF Goes
  <1> HIDE DEF y
  <1> QED BY <1>2, <1>3 DEF RequestIs

LEMMA RequestEnds ==
  ASSUME creation \in [Instances -> Creations], NEW i \in Instances, Ends(i)
  PROVE  RequestIs(i, "idle", 1, Never, Nothing)
PROOF
  <1>1. NoCreation \in Creations
    BY TimeFacts DEF NoCreation, Creations, Steps, MaybePasses
  <1> QED BY <1>1 DEF Ends, NoCreation, RequestIs

LEMMA RequestLooks ==
  ASSUME creation \in [Instances -> Creations], NEW i \in Instances, account \in Accounts,
         creation' = [creation EXCEPT ![i] = [NoCreation EXCEPT !.at = "looked", !.account = account]]
  PROVE  RequestIs(i, "looked", account, Never, Nothing)
PROOF
  <1> DEFINE y == [NoCreation EXCEPT !.at = "looked", !.account = account]
  <1>1. NoCreation \in Creations /\ NoCreation.checked = Never /\ NoCreation.pass = Nothing
        /\ "looked" \in Steps
    BY TimeFacts DEF NoCreation, Creations, Steps, MaybePasses
  <1>2. y \in Creations /\ y.at = "looked" /\ y.account = account /\ y.checked = Never
        /\ y.pass = Nothing
    BY <1>1, Zenon DEF Creations
  <1>3. creation' = [creation EXCEPT ![i] = y]
    OBVIOUS
  <1> HIDE DEF y
  <1> QED BY <1>2, <1>3 DEF RequestIs

LEMMA RequestReserves ==
  ASSUME creation \in [Instances -> Creations], NEW i \in Instances, now \in Times,
         creation' = [creation EXCEPT ![i].at = "reserved", ![i].checked = now]
  PROVE  RequestIs(i, "reserved", creation[i].account, now, creation[i].pass)
PROOF
  <1> DEFINE y == [creation[i] EXCEPT !.at = "reserved", !.checked = now]
  <1>1. creation[i] \in Creations /\ now \in Moments /\ "reserved" \in Steps
    BY TimeFacts DEF Steps
  <1>2. y \in Creations /\ y.at = "reserved" /\ y.account = creation[i].account
        /\ y.checked = now /\ y.pass = creation[i].pass
    BY <1>1, Zenon DEF Creations
  <1>3. creation' = [creation EXCEPT ![i] = y]
    OBVIOUS
  <1> HIDE DEF y
  <1> QED BY <1>2, <1>3 DEF RequestIs

LEMMA RequestTakes ==
  ASSUME creation \in [Instances -> Creations], NEW i \in Instances, NEW step \in Steps,
         NEW p \in MaybePasses,
         creation' = [creation EXCEPT ![i].at = step, ![i].pass = p]
  PROVE  RequestIs(i, step, creation[i].account, creation[i].checked, p)
PROOF
  <1> DEFINE y == [creation[i] EXCEPT !.at = step, !.pass = p]
  <1>1. creation[i] \in Creations
    OBVIOUS
  <1>2. y \in Creations /\ y.at = step /\ y.account = creation[i].account
        /\ y.checked = creation[i].checked /\ y.pass = p
    BY <1>1, Zenon DEF Creations
  <1>3. creation' = [creation EXCEPT ![i] = y]
    OBVIOUS
  <1> HIDE DEF y
  <1> QED BY <1>2, <1>3 DEF RequestIs

\* Pass p is in a state, of an account, sent at a time, lost or not; the others stay.
PassIs(p, state, acc, at, lost) ==
  /\ pass' \in [Passes -> PassRecords]
  /\ \A q \in Passes \ {p} : pass'[q] = pass[q]
  /\ pass'[p].state = state /\ pass'[p].account = acc /\ pass'[p].at = at
  /\ pass'[p].lost <=> lost

LEMMA PassFields ==
  ASSUME NEW x \in PassRecords
  PROVE  x.state \in States /\ x.account \in Accounts /\ x.at \in Moments /\ x.lost \in BOOLEAN
PROOF BY DEF PassRecords

LEMMA NoPassIs ==
  /\ NoPass \in PassRecords /\ NoPass.state = "none" /\ NoPass.account = 1 /\ NoPass.at = Never
  /\ ~NoPass.lost
PROOF BY TimeFacts DEF NoPass, PassRecords, States

LEMMA PassGoes ==
  ASSUME pass \in [Passes -> PassRecords], NEW p \in Passes, Deleted(p)
  PROVE  PassIs(p, "none", 1, Never, FALSE)
PROOF BY NoPassIs DEF Deleted, PassIs

LEMMA PassIsSent ==
  ASSUME pass \in [Passes -> PassRecords], NEW p \in Passes, NEW acc \in Accounts, now \in Times,
         NEW lost \in BOOLEAN,
         pass' = [pass EXCEPT ![p] = [state |-> "calling", account |-> acc, at |-> now, lost |-> lost]]
  PROVE  PassIs(p, "calling", acc, now, lost)
PROOF
  <1> DEFINE y == [state |-> "calling", account |-> acc, at |-> now, lost |-> lost]
  <1>1. y \in PassRecords
    BY TimeFacts DEF PassRecords, States
  <1>2. pass' = [pass EXCEPT ![p] = y]
    OBVIOUS
  <1>3. y.state = "calling" /\ y.account = acc /\ y.at = now /\ (y.lost <=> lost)
    OBVIOUS
  <1> HIDE DEF y
  <1> QED BY <1>1, <1>2, <1>3 DEF PassIs

LEMMA PassLands ==
  ASSUME pass \in [Passes -> PassRecords], NEW p \in Passes,
         pass' = [pass EXCEPT ![p].state = "kept", ![p].at = Never]
  PROVE  PassIs(p, "kept", pass[p].account, Never, pass[p].lost)
PROOF
  <1> DEFINE y == [pass[p] EXCEPT !.state = "kept", !.at = Never]
  <1>1. pass[p] \in PassRecords /\ "kept" \in States /\ Never \in Moments
    BY TimeFacts DEF States
  <1>2. y \in PassRecords /\ y.state = "kept" /\ y.account = pass[p].account /\ y.at = Never
        /\ y.lost = pass[p].lost
    BY <1>1, Zenon DEF PassRecords
  <1>3. pass' = [pass EXCEPT ![p] = y]
    OBVIOUS
  <1> HIDE DEF y
  <1> QED BY <1>2, <1>3 DEF PassIs

LEMMA PassIsLeft ==
  ASSUME pass \in [Passes -> PassRecords], NEW p \in Passes,
         pass' = [pass EXCEPT ![p].state = "left"]
  PROVE  PassIs(p, "left", pass[p].account, pass[p].at, pass[p].lost)
PROOF
  <1> DEFINE y == [pass[p] EXCEPT !.state = "left"]
  <1>1. pass[p] \in PassRecords /\ "left" \in States
    BY DEF States
  <1>2. y \in PassRecords /\ y.state = "left" /\ y.account = pass[p].account /\ y.at = pass[p].at
        /\ y.lost = pass[p].lost
    BY <1>1, Zenon DEF PassRecords
  <1>3. pass' = [pass EXCEPT ![p] = y]
    OBVIOUS
  <1> HIDE DEF y
  <1> QED BY <1>2, <1>3 DEF PassIs

LEMMA PassesAreLost ==
  ASSUME pass \in [Passes -> PassRecords],
         pass' = [p \in Passes |->
                    IF pass[p].state = "none" THEN NoPass ELSE [pass[p] EXCEPT !.lost = TRUE]]
  PROVE  /\ pass' \in [Passes -> PassRecords]
         /\ \A p \in Passes :
              /\ pass'[p].state = pass[p].state
              /\ pass[p].state # "none" => /\ pass'[p].account = pass[p].account
                                           /\ pass'[p].at = pass[p].at /\ pass'[p].lost
PROOF
  <1>1. ASSUME NEW p \in Passes, pass[p].state # "none"
        PROVE  /\ pass'[p] \in PassRecords /\ pass'[p].state = pass[p].state
               /\ pass'[p].account = pass[p].account /\ pass'[p].at = pass[p].at /\ pass'[p].lost
    <2> DEFINE y == [pass[p] EXCEPT !.lost = TRUE]
    <2>1. pass[p] \in PassRecords
      OBVIOUS
    <2>2. y \in PassRecords /\ y.state = pass[p].state /\ y.account = pass[p].account
          /\ y.at = pass[p].at /\ y.lost = TRUE
      BY <2>1, Zenon DEF PassRecords
    <2>3. pass'[p] = y
      BY <1>1
    <2> HIDE DEF y
    <2> QED BY <2>2, <2>3
  <1>2. ASSUME NEW p \in Passes, pass[p].state = "none"
        PROVE  pass'[p] \in PassRecords /\ pass'[p].state = "none"
    BY <1>2, NoPassIs
  <1>3. pass' \in [Passes -> PassRecords]
    BY <1>1, <1>2
  <1> QED BY <1>1, <1>2, <1>3

\* Run f of the follow-up is at a stage, with what it has read; the others stay.
RunIs(f, at, acc, id, issued) ==
  /\ followup' \in [Followups -> FollowRecords]
  /\ \A g \in Followups \ {f} : followup'[g] = followup[g]
  /\ followup'[f].at = at /\ followup'[f].account = acc
  /\ followup'[f].id = id /\ followup'[f].issued = issued

LEMMA RunFields ==
  ASSUME NEW q \in FollowRecords
  PROVE  /\ q.at \in Stages /\ q.account \in Accounts /\ q.id \in MaybePasses
         /\ q.left \in BOOLEAN /\ q.issued \in Moments /\ q.found \in BOOLEAN
PROOF BY DEF FollowRecords

LEMMA RunGoes ==
  ASSUME followup \in [Followups -> FollowRecords], NEW f \in Followups, NEW at \in Stages,
         followup' = [followup EXCEPT ![f].at = at]
  PROVE  RunIs(f, at, followup[f].account, followup[f].id, followup[f].issued)
PROOF
  <1> DEFINE y == [followup[f] EXCEPT !.at = at]
  <1>1. followup[f] \in FollowRecords
    OBVIOUS
  <1>2. y \in FollowRecords /\ y.at = at /\ y.account = followup[f].account
        /\ y.id = followup[f].id /\ y.issued = followup[f].issued
    BY <1>1, Zenon DEF FollowRecords
  <1>3. followup' = [followup EXCEPT ![f] = y]
    OBVIOUS
  <1> HIDE DEF y
  <1> QED BY <1>2, <1>3 DEF RunIs

LEMMA RunFinds ==
  ASSUME followup \in [Followups -> FollowRecords], NEW f \in Followups,
         followup' = [followup EXCEPT ![f].found = TRUE]
  PROVE  RunIs(f, followup[f].at, followup[f].account, followup[f].id, followup[f].issued)
PROOF
  <1> DEFINE y == [followup[f] EXCEPT !.found = TRUE]
  <1>1. followup[f] \in FollowRecords
    OBVIOUS
  <1>2. y \in FollowRecords /\ y.at = followup[f].at /\ y.account = followup[f].account
        /\ y.id = followup[f].id /\ y.issued = followup[f].issued
    BY <1>1, Zenon DEF FollowRecords
  <1>3. followup' = [followup EXCEPT ![f] = y]
    OBVIOUS
  <1> HIDE DEF y
  <1> QED BY <1>2, <1>3 DEF RunIs

LEMMA RunEnds ==
  ASSUME followup \in [Followups -> FollowRecords], NEW f \in Followups,
         followup' = [followup EXCEPT ![f] = NoFollowup]
  PROVE  RunIs(f, "idle", 1, Nothing, Never)
PROOF
  <1>1. NoFollowup \in FollowRecords
    BY TimeFacts DEF NoFollowup, FollowRecords, Stages, MaybePasses
  <1>2. NoFollowup.at = "idle" /\ NoFollowup.account = 1 /\ NoFollowup.id = Nothing
        /\ NoFollowup.issued = Never
    BY DEF NoFollowup
  <1> QED BY <1>1, <1>2 DEF RunIs

LEMMA RunReads ==
  ASSUME followup \in [Followups -> FollowRecords], NEW f \in Followups, NEW at \in Stages,
         account \in Accounts, RowOK(row),
         followup' = [followup EXCEPT ![f] = [at |-> at, account |-> account, id |-> row.id,
                        left |-> row.left, issued |-> row.issued, found |-> FALSE]]
  PROVE  RunIs(f, at, account, row.id, row.issued)
PROOF
  <1> DEFINE y == [at |-> at, account |-> account, id |-> row.id, left |-> row.left,
                   issued |-> row.issued, found |-> FALSE]
  <1>1. y \in FollowRecords
    BY RowFields DEF FollowRecords
  <1>2. y.at = at /\ y.account = account /\ y.id = row.id /\ y.issued = row.issued
    OBVIOUS
  <1>3. followup' = [followup EXCEPT ![f] = y]
    OBVIOUS
  <1> HIDE DEF y
  <1> QED BY <1>1, <1>2, <1>3 DEF RunIs

-----------------------------------------------------------------------------
(* What the invariant says of time.                                        *)

LEMMA Fields ==
  ASSUME TypeOK
  PROVE  /\ now \in Nat /\ erased \in Nat /\ account \in Nat
         /\ RowOK(row) /\ row.status \in Statuses /\ row.id \in MaybePasses /\ row.issued \in Nat
         /\ \A i \in Instances : /\ creation[i].at \in Steps /\ creation[i].account \in Accounts
                                 /\ creation[i].account \in Nat /\ creation[i].account >= 1
                                 /\ creation[i].checked \in Moments /\ creation[i].checked \in Nat
                                 /\ creation[i].pass \in MaybePasses
         /\ \A p \in Passes : /\ pass[p].state \in States /\ pass[p].account \in Nat
                              /\ pass[p].at \in Nat /\ pass[p].lost \in BOOLEAN
                              /\ pass[p].account \in Accounts
         /\ \A f \in Followups : /\ followup[f].at \in Stages /\ followup[f].account \in Nat
                                 /\ followup[f].account >= 1
                                 /\ followup[f].id \in MaybePasses /\ followup[f].issued \in Nat
PROOF BY TypeParts, TimeFacts, RowFields, CreationFields, PassFields, RunFields

\* Once things are quiet no call is on its way and none is sent.
LEMMA QuietFacts ==
  ASSUME TypeOK, Timely, Quiet
  PROVE  /\ \A p \in Passes : pass[p].state # "calling"
         /\ \A i \in Instances : creation[i].at \in UnderWay => ~InTime(creation[i].checked)
PROOF
  <1>1. PICK t \in Nat : Lasts(t) /\ now >= t + Window
    BY Fields DEF Quiet, Timely
  <1>2. ASSUME NEW p \in Passes, pass[p].state = "calling"
        PROVE  FALSE
    <2>1. pass[p].at <= t + Deadline /\ now <= pass[p].at + Lag /\ pass[p].at \in Nat /\ now \in Nat
      BY <1>1, <1>2, Fields DEF Lasts, Timely
    <2> QED BY <1>1, <2>1, TimeFacts
  <1>3. ASSUME NEW i \in Instances, creation[i].at \in UnderWay
        PROVE  ~InTime(creation[i].checked)
    <2>1. creation[i].checked <= t /\ creation[i].checked \in Nat /\ now \in Nat
      BY <1>1, <1>3, Fields DEF Lasts
    <2> QED BY <1>1, <2>1, TimeFacts DEF InTime
  <1> QED BY <1>2, <1>3

-----------------------------------------------------------------------------
(* All that most steps may do to the row, the passes and the requests.     *)

RowStep ==
  /\ RowOK(row')
  /\ row.there => row'.there
  /\ row.reserved => row'.reserved
  /\ row.left => row'.left
  /\ row'.status = "active" => row'.id # Nothing
  /\ row'.issued # Never <=> row'.status = "active"
  /\ row'.issued = row.issued \/ (row'.issued = now /\ (IsErased => ~row.there))
  /\ row'.removed => IsErased

\* Nothing is settled that was not.
StaysOpen == row'.removed /\ row'.id # Nothing => row.removed /\ row.id # Nothing

\* No pass is made.
PassStep ==
  /\ pass' \in [Passes -> PassRecords]
  /\ \A p \in Passes : pass'[p].state # "none" =>
       /\ pass[p].state # "none" /\ pass'[p].account = pass[p].account
       /\ pass[p].lost => pass'[p].lost
       /\ pass'[p].state = "calling" => pass[p].state = "calling" /\ pass'[p].at = pass[p].at
       /\ pass'[p].state = "left" => pass[p].state = "left" \/ row'.left

\* Only an erasure or a deletion takes a pass away from its account.
KeepsHeld == ~IsErased /\ deletion = "none" => Held(account) \subseteq Held(account)'

RequestStep(i) ==
  LET c == creation[i]
      d == creation'[i] IN
  /\ creation' \in [Instances -> Creations]
  /\ \A j \in Instances \ {i} : creation'[j] = creation[j]
  /\ d.account = c.account \/ d.account = 1 \/ (d.account = account /\ ~IsErased)
  /\ d.at \in Keeping => d.pass # Nothing
  /\ d.at \in {"orphan", "orphaned"} => IsErased
  /\ d.at = "dropping" => d.account # account
  /\ d.at \in UnderWay => \/ c.at \in UnderWay /\ d.checked = c.checked
                          \/ c.at = "checked" /\ d.checked = now /\ ~IsErased
  /\ d.at = "checked" => row'.status # "active"
  /\ d.pass # Nothing =>
       /\ \/ d.pass = c.pass /\ d.account = c.account
          \/ d.pass \in Held(d.account)
       /\ pass'[d.pass].state # "calling"
  /\ d.at = "made" /\ d.account = account /\ ~IsErased /\ deletion = "none" => d.pass \in Held(account)'

RequestsStep == creation' = creation \/ \E i \in Instances : RequestStep(i)

LEMMA RowStays ==
  ASSUME TypeOK, IInv, row' = row
  PROVE  RowStep /\ StaysOpen
PROOF BY Fields DEF IInv, RowFits, RowStep, StaysOpen

LEMMA PassesStay ==
  ASSUME TypeOK, pass' = pass
  PROVE  PassStep /\ (account' = account => KeepsHeld)
PROOF BY TypeParts DEF PassStep, KeepsHeld, Held

LEMMA MarkedKept ==
  ASSUME TypeOK, IInv, RowStep, PassStep, account' = account
  PROVE  Marked'
PROOF BY Fields DEF IInv, Marked, RowStep, PassStep, PassRecords

LEMMA RowFitsKept ==
  ASSUME RowStep, erased' = erased
  PROVE  RowFits'
PROOF BY DEF RowFits, RowStep, IsErased

LEMMA OwnedKept ==
  ASSUME TypeOK, IInv, PassStep, RequestsStep, account' = account, erased' = erased
  PROVE  Owned'
PROOF
  <1>1. ASSUME NEW j \in Instances, creation'[j] = creation[j]
        PROVE  /\ creation'[j].account <= account'
               /\ creation'[j].at \in Keeping => creation'[j].pass # Nothing
               /\ creation'[j].at \in {"orphan", "orphaned"} => IsErased'
               /\ creation'[j].at = "dropping" => creation'[j].account # account'
               /\ creation'[j].pass # Nothing /\ pass'[creation'[j].pass].state # "none"
                    => pass'[creation'[j].pass].account = creation'[j].account
    BY <1>1, Fields DEF IInv, Owned, PassStep, MaybePasses, IsErased
  <1>2. ASSUME NEW i \in Instances, RequestStep(i)
        PROVE  /\ creation'[i].account <= account'
               /\ creation'[i].at \in Keeping => creation'[i].pass # Nothing
               /\ creation'[i].at \in {"orphan", "orphaned"} => IsErased'
               /\ creation'[i].at = "dropping" => creation'[i].account # account'
               /\ creation'[i].pass # Nothing =>
                    /\ pass'[creation'[i].pass].state # "none"
                         => pass'[creation'[i].pass].account = creation'[i].account
                    /\ pass'[creation'[i].pass].state # "calling"
    <2>1. creation'[i].account <= account'
      BY <1>2, Fields, TimeFacts DEF IInv, Owned, RequestStep
    <2>2. creation'[i].pass \in MaybePasses
      BY <1>2, CreationFields DEF RequestStep
    <2>3. ASSUME creation'[i].pass # Nothing, pass'[creation'[i].pass].state # "none"
          PROVE  pass'[creation'[i].pass].account = creation'[i].account
      BY <1>2, <2>2, <2>3, Fields DEF IInv, Owned, RequestStep, PassStep, Held, MaybePasses
    <2> QED BY <1>2, <2>1, <2>3 DEF RequestStep, IsErased
  <1>3. ASSUME NEW j \in Instances, creation'[j] = creation[j], creation'[j].pass # Nothing,
               pass'[creation'[j].pass].state = "calling"
        PROVE  creation'[j].at = "sent"
               /\ \A k \in Instances \ {j} : creation'[k].pass # creation'[j].pass
    <2>1. creation[j].pass \in Passes /\ pass[creation[j].pass].state = "calling"
      BY <1>3, Fields DEF PassStep, MaybePasses
    <2>2. creation[j].at = "sent" /\ \A k \in Instances \ {j} : creation[k].pass # creation[j].pass
      BY <1>3, <2>1 DEF IInv, Owned
    <2> QED BY <1>2, <1>3, <2>1, <2>2 DEF RequestsStep, RequestStep
  <1>4. ASSUME NEW j \in Instances
        PROVE  creation'[j] = creation[j] \/ RequestStep(j)
    BY DEF RequestsStep, RequestStep
  <1> QED BY <1>1, <1>2, <1>3, <1>4 DEF Owned

LEMMA LastsKept ==
  ASSUME TypeOK, PassStep, RequestsStep, NEW t \in Nat, Lasts(t),
         \A i \in Instances : creation[i].at = "checked" => IsErased \/ now <= t
  PROVE  Lasts(t)'
PROOF
  <1>1. ASSUME NEW i \in Instances, creation'[i].at \in UnderWay
        PROVE  creation'[i].checked <= t
    BY <1>1 DEF RequestsStep, RequestStep, Lasts
  <1>2. ASSUME NEW p \in Passes, pass'[p].state = "calling"
        PROVE  pass'[p].at <= t + Deadline
    BY <1>2 DEF PassStep, Lasts
  <1> QED BY <1>1, <1>2 DEF Lasts

LEMMA TimelyKept ==
  ASSUME TypeOK, IInv, RowStep, PassStep, RequestsStep, now' = now, erased' = erased
  PROVE  Timely'
PROOF
  <1>1. Lasts(now)
    BY Fields, TimeFacts DEF IInv, Timely, Lasts
  <1>2. \A i \in Instances : creation'[i].at \in UnderWay => creation'[i].checked <= now'
    BY Fields DEF IInv, Timely, RequestsStep, RequestStep
  <1>3. \A p \in Passes : pass'[p].state = "calling" => pass'[p].at <= now' /\ now' <= pass'[p].at + Lag
    BY Fields DEF IInv, Timely, PassStep
  <1>4. IsErased' => Lasts(erased)'
    <2>1. ASSUME IsErased  PROVE Lasts(erased)'
      <3>1. Lasts(erased) /\ erased \in Nat
        BY <2>1, Fields DEF IInv, Timely
      <3>2. PICK t \in Nat : t = erased
        BY <3>1
      <3> QED BY <2>1, <3>1, <3>2, LastsKept
    <2> QED BY <2>1 DEF IsErased
  <1>5. ASSUME row'.status = "active"  PROVE Lasts(row.issued)'
    <2>1. PICK t \in Nat : t = row'.issued
      BY <1>5, RowFields, TimeFacts DEF RowStep
    <2>2. CASE row'.issued = now
      <3>1. Lasts(t) /\ \A i \in Instances : now <= t
        BY <1>1, <2>1, <2>2
      <3>2. Lasts(t)'
        BY <3>1, LastsKept
      <3> QED BY <2>1, <3>2 DEF Lasts
    <2>3. CASE row'.issued = row.issued
      <3>1. row.status = "active"
        BY <1>5, <2>3 DEF IInv, RowFits, RowStep
      <3>2. Lasts(t) /\ \A i \in Instances : creation[i].at = "checked" => now <= t
        BY <2>1, <2>3, <3>1, Fields DEF IInv, Timely
      <3>3. Lasts(t)'
        BY <3>2, LastsKept
      <3> QED BY <2>1, <3>3 DEF Lasts
    <2> QED BY <2>2, <2>3 DEF RowStep
  <1>6. ASSUME row'.status = "active", NEW i \in Instances, creation'[i].at = "checked"
        PROVE  now' = row'.issued
    <2>1. creation[i].at = "checked"
      BY <1>6 DEF RequestsStep, RequestStep
    <2> QED BY <1>6, <2>1 DEF IInv, RowFits, RowStep, Timely
  <1> QED BY <1>2, <1>3, <1>4, <1>5, <1>6 DEF Timely

LEMMA HereKept ==
  ASSUME TypeOK, IInv, RequestsStep, KeepsHeld, account' = account, erased' = erased,
         deletion' = deletion,
         ~IsErased /\ deletion = "none" /\ row'.status = "active"
           => (row.status = "active" /\ row'.id = row.id) \/ row'.id \in Held(account)
  PROVE  Here'
PROOF
  <1>1. SUFFICES ASSUME ~IsErased, deletion = "none"
        PROVE  /\ row'.status = "active" => row'.id \in Held(account)'
               /\ \A i \in Instances : creation'[i].at = "made" /\ creation'[i].account = account
                                         => creation'[i].pass \in Held(account)'
    BY DEF Here, IsErased
  <1>2. row'.status = "active" => row'.id \in Held(account)'
    BY <1>1 DEF IInv, Here, KeepsHeld
  <1>3. ASSUME NEW i \in Instances, creation'[i].at = "made", creation'[i].account = account
        PROVE  creation'[i].pass \in Held(account)'
    BY <1>1, <1>3 DEF IInv, Here, KeepsHeld, RequestsStep, RequestStep
  <1> QED BY <1>2, <1>3

LEMMA QuietKept ==
  ASSUME TypeOK, IInv, Quiet, IsErased, row.there, RowStep, now' \in Nat, now' >= now, erased' = erased
  PROVE  Quiet'
PROOF
  <1>1. row'.issued = row.issued
    BY DEF RowStep
  <1>2. row.status = "active" => row'.status = "active"
    BY <1>1 DEF IInv, RowFits, RowStep
  <1>3. now \in Nat /\ erased \in Nat /\ row.issued \in Nat
    BY Fields
  <1> QED BY <1>1, <1>2, <1>3, TimeFacts DEF Quiet, IsErased

LEMMA HeldShrinks ==
  ASSUME TypeOK, IInv, Quiet, PassStep, NEW a
  PROVE  Held(a)' \subseteq Held(a)
PROOF
  <1>1. ASSUME NEW p \in Passes, pass'[p].state \in {"kept", "left"}, pass'[p].account = a
        PROVE  pass[p].state \in {"kept", "left"} /\ pass[p].account = a
    <2>1. pass[p].state \in States /\ pass[p].state # "none" /\ pass[p].account = a
      BY <1>1, Fields DEF PassStep
    <2>2. pass[p].state # "calling"
      BY QuietFacts DEF IInv
    <2> QED BY <2>1, <2>2 DEF States
  <1> QED BY <1>1 DEF Held

\* The runs of the follow-up know nothing that was not true when the step began.
RunsStep == \A f \in Followups : followup'[f].at # "idle" => Backed(followup'[f])

LEMMA RunsStay ==
  ASSUME IInv, followup' = followup
  PROVE  RunsStep
PROOF BY DEF IInv, Followed, RunsStep

LEMMA FollowedKept ==
  ASSUME TypeOK, IInv, RowStep, StaysOpen, PassStep, RequestsStep, RunsStep,
         followup' \in [Followups -> FollowRecords], now' = now, erased' = erased, account' = account
  PROVE  Followed'
PROOF
  <1>1. ASSUME NEW f \in Followups, followup'[f].at # "idle"
        PROVE  Backed(followup[f])'
    <2>1. Backed(followup'[f])
      BY <1>1 DEF RunsStep
    <2>2. PICK q : q = followup'[f]
      OBVIOUS
    <2>3. IsErased' /\ row'.there /\ q.account <= account' /\ q.issued = row'.issued
      BY <2>1, <2>2 DEF Backed, RowStep, IsErased
    <2>4. q.account \in Nat /\ q.account >= 1
      BY <2>2, RunFields, TimeFacts
    <2>5. \A i \in Instances : creation'[i].account <= q.account
      <3>1. ASSUME NEW i \in Instances
            PROVE  creation'[i].account = creation[i].account \/ creation'[i].account = 1
        BY <2>1 DEF RequestsStep, RequestStep, Backed
      <3>2. \A i \in Instances : creation[i].account <= q.account /\ creation[i].account \in Nat
                                 /\ creation[i].account >= 1
        BY <2>1, <2>2, Fields DEF Backed
      <3> QED BY <3>1, <3>2, <2>4
    <2>6. \A p \in Passes : pass'[p].state # "none" => pass'[p].account <= q.account
      BY <2>1, <2>2 DEF Backed, PassStep
    <2>7. ASSUME q.at = "settling", q.id # Nothing
          PROVE  Quiet' /\ Held(q.account)' = {}
      <3>1. Quiet /\ Held(q.account) = {} /\ IsErased /\ row.there
        BY <2>1, <2>2, <2>7 DEF Backed
      <3>2. Quiet'
        BY <3>1, QuietKept, Fields
      <3>3. PICK a : a = q.account
        OBVIOUS
      <3>4. Held(a)' = {}
        BY <3>1, <3>3, HeldShrinks
      <3> QED BY <3>2, <3>3, <3>4 DEF Held
    <2> QED BY <2>2, <2>3, <2>5, <2>6, <2>7 DEF Backed
  <1>2. ASSUME row'.removed, row'.id # Nothing
        PROVE  Quiet' /\ Held(account)' = {}
    <2>1. Quiet /\ Held(account) = {} /\ IsErased /\ row.there
      BY <1>2, Fields, RowFields DEF StaysOpen, IInv, Followed, RowFits
    <2>2. Quiet'
      BY <2>1, QuietKept, Fields
    <2>3. PICK a : a = account
      OBVIOUS
    <2>4. Held(a)' = {}
      BY <2>1, <2>3, HeldShrinks
    <2> QED BY <2>2, <2>3, <2>4 DEF Held
  <1> QED BY <1>1, <1>2 DEF Followed

LEMMA StepKeeps ==
  ASSUME TypeOK, IInv, RowStep, StaysOpen, PassStep, KeepsHeld, RequestsStep, RunsStep,
         creation' \in [Instances -> Creations], followup' \in [Followups -> FollowRecords],
         UNCHANGED <<now, erased, account, deletion>>,
         ~IsErased /\ deletion = "none" /\ row'.status = "active"
           => (row.status = "active" /\ row'.id = row.id) \/ row'.id \in Held(account)
  PROVE  TypeOK' /\ IInv'
PROOF
  <1>1. TypeOK'
    BY TypeParts, TypePartsNext DEF RowStep, PassStep
  <1>2. RowFits' /\ Marked' /\ Owned' /\ Timely' /\ Followed' /\ Here'
    BY RowFitsKept, MarkedKept, OwnedKept, TimelyKept, FollowedKept, HereKept
  <1> QED BY <1>1, <1>2 DEF IInv

-----------------------------------------------------------------------------
(* The steps of a request.                                                 *)

\* A step that moves a request on, and does nothing else.
LEMMA RequestOnly ==
  ASSUME TypeOK, IInv, NEW i \in Instances, RequestStep(i),
         UNCHANGED <<now, erased, account, row, pass, followup, deletion>>
  PROVE  TypeOK' /\ IInv'
PROOF
  <1>1. RowStep /\ StaysOpen /\ PassStep /\ KeepsHeld /\ RunsStep /\ RequestsStep
    BY RowStays, PassesStay, RunsStay DEF RequestsStep
  <1>2. creation' \in [Instances -> Creations] /\ followup' \in [Followups -> FollowRecords]
    BY TypeParts DEF RequestStep
  <1>3. ~IsErased /\ deletion = "none" /\ row'.status = "active"
          => (row.status = "active" /\ row'.id = row.id) \/ row'.id \in Held(account)
    OBVIOUS
  <1> QED BY <1>1, <1>2, <1>3, StepKeeps

\* A request that ends needs nothing.
LEMMA EndIsStep ==
  ASSUME TypeOK, NEW i \in Instances, Ends(i)
  PROVE  RequestStep(i)
PROOF
  <1>1. RequestIs(i, "idle", 1, Never, Nothing)
    BY TypeParts, RequestEnds
  <1> QED BY <1>1 DEF RequestIs, RequestStep, Keeping, UnderWay

\* Nor does one that has failed, or that never sent anything.
LEMMA GoIsStep ==
  ASSUME TypeOK, IInv, NEW i \in Instances, NEW step \in Steps \ UnderWay, Goes(i, step),
         step \in Keeping => creation[i].pass # Nothing,
         step \in {"orphan", "orphaned"} => IsErased,
         step = "dropping" => creation[i].account # account,
         step = "checked" => row'.status # "active",
         creation[i].pass # Nothing => pass'[creation[i].pass].state # "calling",
         step = "made" /\ creation[i].account = account /\ ~IsErased /\ deletion = "none"
           => creation[i].pass \in Held(account)'
  PROVE  RequestStep(i)
PROOF
  <1>1. RequestIs(i, step, creation[i].account, creation[i].checked, creation[i].pass)
    BY TypeParts, RequestGoes
  <1> QED BY <1>1 DEF RequestIs, RequestStep

LEMMA TapKeeps ==
  ASSUME TypeOK, IInv, NEW i \in Instances, Tap(i)
  PROVE  TypeOK' /\ IInv'
PROOF
  <1>1. RequestIs(i, "looked", account, Never, Nothing)
    BY TypeParts, RequestLooks DEF Tap
  <1>2. RequestStep(i)
    BY <1>1 DEF RequestIs, RequestStep, Keeping, UnderWay, Tap
  <1> QED BY <1>2, RequestOnly DEF Tap

LEMMA RecheckKeeps ==
  ASSUME TypeOK, IInv, NEW i \in Instances, Recheck(i)
  PROVE  TypeOK' /\ IInv'
PROOF
  <1>1. CASE Ends(i)
    BY <1>1, EndIsStep, RequestOnly DEF Recheck
  <1>2. CASE Goes(i, "checked") /\ row.status # "active"
    <2>1. creation[i].pass # Nothing => pass[creation[i].pass].state # "calling"
      BY DEF IInv, Owned, Recheck
    <2>2. RequestStep(i)
      BY <1>2, <2>1, GoIsStep DEF Recheck, Steps, UnderWay, Keeping
    <2> QED BY <2>2, RequestOnly DEF Recheck
  <1> QED BY <1>1, <1>2 DEF Recheck

LEMMA ReserveKeeps ==
  ASSUME TypeOK, IInv, NEW i \in Instances, Reserve(i)
  PROVE  TypeOK' /\ IInv'
PROOF
  <1>1. CASE Ends(i) /\ row' = row
    BY <1>1, EndIsStep, RequestOnly DEF Reserve
  <1>2. CASE /\ ~IsErased /\ row' = ReservedRow
             /\ creation' = [creation EXCEPT ![i].at = "reserved", ![i].checked = now]
    <2>1. RequestIs(i, "reserved", creation[i].account, now, creation[i].pass)
      BY <1>2, TypeParts, RequestReserves
    <2>2. creation[i].pass # Nothing => pass[creation[i].pass].state # "calling"
      BY DEF IInv, Owned, Reserve
    <2>3. RequestStep(i)
      BY <1>2, <2>1, <2>2 DEF RequestIs, RequestStep, Reserve, Keeping, UnderWay
    <2>4. RowIs(row', IF row.there THEN row.status ELSE "pending", row.id, TRUE,
                row.left, row.removed, row.issued)
      BY <1>2, Fields, ReservedRowIs
    <2>5. RowStep /\ StaysOpen
      BY <2>4, Fields, RowFields DEF RowIs, RowStep, StaysOpen, IInv, RowFits
    <2>6. row'.status = "active" => row.status = "active" /\ row'.id = row.id
      BY <2>4 DEF RowIs
    <2>7. PassStep /\ KeepsHeld /\ RunsStep /\ RequestsStep
      BY <2>3, PassesStay, RunsStay DEF RequestsStep, Reserve
    <2>8. creation' \in [Instances -> Creations] /\ followup' \in [Followups -> FollowRecords]
      BY <2>3, TypeParts DEF RequestStep, Reserve
    <2> QED BY <2>5, <2>6, <2>7, <2>8, StepKeeps DEF Reserve
  <1> QED BY <1>1, <1>2 DEF Reserve

LEMMA AnsweredKeeps ==
  ASSUME TypeOK, IInv, NEW i \in Instances, Answered(i)
  PROVE  TypeOK' /\ IInv'
PROOF
  <1>1. creation[i].pass \in Passes /\ pass[creation[i].pass].state = "kept"
        /\ pass[creation[i].pass].account = creation[i].account
    BY Fields DEF Answered, IInv, Owned, Keeping, MaybePasses
  <1>2. creation[i].account = account => creation[i].pass \in Held(account)'
    BY <1>1 DEF Answered, Held
  <1>3. creation[i].pass # Nothing /\ pass'[creation[i].pass].state # "calling"
        /\ Goes(i, "made") /\ "made" \in Steps \ UnderWay
    BY <1>1, NothingAssumption DEF Answered, Steps, UnderWay
  <1>4. RequestStep(i)
    BY <1>2, <1>3, GoIsStep
  <1> QED BY <1>4, RequestOnly DEF Answered

\* A call is sent: nobody held a pass of that name.
LEMMA SendKeeps ==
  ASSUME TypeOK, IInv, NEW i \in Instances, Send(i)
  PROVE  TypeOK' /\ IInv'
PROOF
  <1>1. creation[i].at = "reserved" /\ UNCHANGED <<now, erased, account, row, followup, deletion>>
    BY DEF Send
  <1>2. CASE Goes(i, "failing") /\ pass' = pass
    <2>1. creation[i].pass # Nothing => pass[creation[i].pass].state # "calling"
      BY <1>1 DEF IInv, Owned
    <2>2. "failing" \in Steps \ UnderWay /\ "failing" \notin Keeping
      BY DEF Steps, UnderWay, Keeping
    <2>3. RequestStep(i)
      BY <1>2, <2>1, <2>2, GoIsStep
    <2> QED BY <1>1, <1>2, <2>3, RequestOnly
  <1>3. ASSUME InTime(creation[i].checked), NEW p \in Passes, Fresh(p),
               pass' = [pass EXCEPT ![p] = [state |-> "calling", account |-> creation[i].account,
                                            at |-> now, lost |-> ~row.reserved]],
               creation' = [creation EXCEPT ![i].at = "sent", ![i].pass = p]
        PROVE  TypeOK' /\ IInv'
    <2>1. PassIs(p, "calling", creation[i].account, now, ~row.reserved)
      <3>1. creation[i].account \in Accounts /\ now \in Times /\ (~row.reserved) \in BOOLEAN
        BY Fields, TypeParts
      <3> QED BY <1>3, <3>1, TypeParts, PassIsSent
    <2>2. RequestIs(i, "sent", creation[i].account, creation[i].checked, p)
      BY <1>3, TypeParts, RequestTakes DEF Steps, MaybePasses
    <2>3. pass[p].state = "none" /\ \A j \in Instances : creation[j].pass # p
      BY <1>3 DEF Fresh
    <2>4. TypeOK'
      BY <1>1, <2>1, <2>2, TypeParts, TypePartsNext DEF PassIs, RequestIs
    <2>5. RowFits'
      BY <1>1 DEF IInv, RowFits, IsErased
    <2>6. Marked'
      BY <1>1, <2>1, Fields DEF IInv, Marked, Owned, PassIs
    <2>7. Owned'
      <3>1. ASSUME NEW j \in Instances \ {i}
            PROVE  creation'[j] = creation[j] /\ creation[j].pass # p
        BY <2>2, <2>3 DEF RequestIs
      <3>2. ASSUME NEW j \in Instances \ {i}, creation[j].pass # Nothing
            PROVE  creation[j].pass \in Passes /\ pass'[creation[j].pass] = pass[creation[j].pass]
        BY <2>1, <3>1, <3>2, Fields DEF PassIs, MaybePasses
      <3>3. p # Nothing
        BY NothingAssumption
      <3> QED BY <1>1, <2>1, <2>2, <3>1, <3>2, <3>3
              DEF IInv, Owned, RequestIs, PassIs, IsErased, Keeping
    <2>8. ASSUME NEW t \in Nat, Lasts(t)
          PROVE  Lasts(t)'
      <3>1. creation[i].checked <= t /\ creation[i].checked \in Nat /\ now \in Nat
        BY <1>1, <2>8, Fields DEF Lasts, UnderWay
      <3>2. now <= t + Deadline
        BY <1>3, <3>1, TimeFacts DEF InTime
      <3> QED BY <2>1, <2>2, <2>8, <3>1, <3>2 DEF Lasts, RequestIs, PassIs
    <2>9. Timely'
      <3>1. \A j \in Instances : creation'[j].at \in UnderWay => creation'[j].checked <= now
        BY <1>1, <2>2 DEF IInv, Timely, RequestIs, UnderWay
      <3>2. \A q \in Passes : pass'[q].state = "calling" => pass'[q].at <= now /\ now <= pass'[q].at + Lag
        BY <2>1, Fields, TimeFacts DEF IInv, Timely, PassIs
      <3>3. IsErased => Lasts(erased)'
        <4>1. PICK t \in Nat : t = erased
          BY Fields
        <4> QED BY <1>1, <2>8, <4>1 DEF IInv, Timely
      <3>4. row.status = "active" => Lasts(row.issued)'
        <4>1. PICK t \in Nat : t = row.issued
          BY Fields
        <4> QED BY <1>1, <2>8, <4>1 DEF IInv, Timely
      <3>5. row.status = "active" => \A j \in Instances : creation'[j].at = "checked" => now = row.issued
        BY <2>2 DEF IInv, Timely, RequestIs
      <3> QED BY <1>1, <3>1, <3>2, <3>3, <3>4, <3>5 DEF Timely, IsErased
    <2>10. ~Quiet
      BY <1>1, <1>3, QuietFacts DEF IInv, UnderWay
    <2>11. Followed'
      <3>1. ASSUME NEW f \in Followups, followup[f].at # "idle"
            PROVE  Backed(followup[f])'
        <4>1. Backed(followup[f])
          BY <3>1 DEF IInv, Followed
        <4>2. \A j \in Instances : creation'[j].account <= followup[f].account
          BY <2>2, <4>1 DEF Backed, RequestIs
        <4>3. \A q \in Passes : pass'[q].state # "none" => pass'[q].account <= followup[f].account
          BY <2>1, <4>1 DEF Backed, PassIs
        <4> QED BY <1>1, <2>10, <4>1, <4>2, <4>3 DEF Backed, IsErased
      <3> QED BY <1>1, <2>10, <3>1 DEF IInv, Followed
    <2>12. Here'
      BY <1>1, <2>1, <2>2, <2>3 DEF IInv, Here, Held, IsErased, PassIs, RequestIs
    <2> QED BY <2>4, <2>5, <2>6, <2>7, <2>9, <2>11, <2>12 DEF IInv
  <1> QED BY <1>2, <1>3 DEF Send

\* A call that ends: its pass was nobody else's.
LEMMA CallGoes ==
  ASSUME TypeOK, NEW p \in Passes, pass[p].state = "calling", Deleted(p), account' = account
  PROVE  PassStep /\ KeepsHeld /\ \A q \in Passes \ {p} : pass'[q] = pass[q]
PROOF
  <1>1. PassIs(p, "none", 1, Never, FALSE)
    BY TypeParts, PassGoes
  <1> QED BY <1>1 DEF PassIs, PassStep, KeepsHeld, Held

LEMMA RefusedKeeps ==
  ASSUME TypeOK, IInv, NEW i \in Instances, Refused(i)
  PROVE  TypeOK' /\ IInv'
PROOF
  <1> DEFINE p == creation[i].pass
  <1>1. /\ creation[i].at = "sent" /\ pass[p].state = "calling" /\ Deleted(p)
        /\ UNCHANGED <<now, erased, account, row, followup, deletion>>
    BY DEF Refused
  <1>2. p \in Passes
    BY <1>1, Fields DEF IInv, Owned, Keeping, MaybePasses
  <1>3. PassStep /\ KeepsHeld /\ \A q \in Passes \ {p} : pass'[q] = pass[q]
    BY <1>1, <1>2, CallGoes
  <1>4. RequestStep(i)
    <2>1. ASSUME NEW step \in {"failing", "reserved"},
                 creation' = [creation EXCEPT ![i].at = step, ![i].pass = Nothing]
          PROVE  RequestStep(i)
      <3>1. RequestIs(i, step, creation[i].account, creation[i].checked, Nothing)
        BY <2>1, TypeParts, RequestTakes DEF Steps, MaybePasses
      <3> QED BY <1>1, <3>1 DEF RequestIs, RequestStep, UnderWay, Keeping
    <2>2. ASSUME NEW q \in Held(creation[i].account),
                 creation' = [creation EXCEPT ![i].at = "made", ![i].pass = q]
          PROVE  RequestStep(i)
      <3>1. q \in Passes /\ q # p /\ q # Nothing /\ pass[q].state \in {"kept", "left"}
            /\ pass[q].account = creation[i].account
        BY <1>1, <2>2, NothingAssumption DEF Held
      <3>2. RequestIs(i, "made", creation[i].account, creation[i].checked, q)
        BY <2>2, <3>1, TypeParts, RequestTakes DEF Steps, MaybePasses
      <3>3. pass'[q] = pass[q] /\ pass'[q].state # "calling"
        BY <1>3, <3>1
      <3>4. creation[i].account = account => q \in Held(account)'
        BY <1>1, <3>1, <3>3 DEF Held
      <3> QED BY <1>1, <2>2, <3>1, <3>2, <3>3, <3>4 DEF RequestIs, RequestStep, UnderWay, Keeping
    <2> QED BY <2>1, <2>2 DEF Refused
  <1>5. RowStep /\ StaysOpen /\ RunsStep /\ RequestsStep
    BY <1>1, <1>4, RowStays, RunsStay DEF RequestsStep
  <1>6. creation' \in [Instances -> Creations] /\ followup' \in [Followups -> FollowRecords]
    BY <1>1, <1>4, TypeParts DEF RequestStep
  <1> QED BY <1>1, <1>3, <1>5, <1>6, StepKeeps

LEMMA GivesUpKeeps ==
  ASSUME TypeOK, IInv, NEW i \in Instances, GivesUp(i)
  PROVE  TypeOK' /\ IInv'
PROOF
  <1>1. RequestIs(i, "failing", creation[i].account, creation[i].checked, Nothing)
    BY TypeParts, RequestTakes DEF GivesUp, Steps, MaybePasses
  <1>2. RequestStep(i)
    BY <1>1 DEF RequestIs, RequestStep, UnderWay, Keeping
  <1> QED BY <1>2, RequestOnly DEF GivesUp

\* What a request finds of the pass it has heard of.
LEMMA KnownPass ==
  ASSUME TypeOK, IInv, NEW i \in Instances,
         creation[i].at \in {"made", "dropping", "orphan", "orphaned"}
  PROVE  /\ creation[i].pass \in Passes /\ creation[i].pass # Nothing
         /\ pass[creation[i].pass].state # "calling"
         /\ pass[creation[i].pass].state # "none"
              => pass[creation[i].pass].account = creation[i].account
PROOF
  <1>1. creation[i].pass \in MaybePasses /\ creation[i].pass # Nothing
    BY Fields DEF IInv, Owned, Keeping
  <1> QED BY <1>1 DEF MaybePasses, IInv, Owned

\* Steps that change the row and move the request on, and touch no pass.
LEMMA RowAndRequest ==
  ASSUME TypeOK, IInv, NEW i \in Instances, RequestStep(i), RowStep, StaysOpen,
         UNCHANGED <<now, erased, account, pass, followup, deletion>>,
         ~IsErased /\ deletion = "none" /\ row'.status = "active"
           => (row.status = "active" /\ row'.id = row.id) \/ row'.id \in Held(account)
  PROVE  TypeOK' /\ IInv'
PROOF
  <1>1. PassStep /\ KeepsHeld /\ RunsStep /\ RequestsStep
    BY PassesStay, RunsStay DEF RequestsStep
  <1>2. creation' \in [Instances -> Creations] /\ followup' \in [Followups -> FollowRecords]
    BY TypeParts DEF RequestStep
  <1> QED BY <1>1, <1>2, StepKeeps

LEMMA SaveKeeps ==
  ASSUME TypeOK, IInv, NEW i \in Instances, Save(i)
  PROVE  TypeOK' /\ IInv'
PROOF
  <1> DEFINE p == creation[i].pass
  <1>1. creation[i].at = "made" /\ UNCHANGED <<now, erased, account, pass, followup, deletion>>
    BY DEF Save
  <1>2. p \in Passes /\ p # Nothing /\ pass[p].state # "calling"
    BY <1>1, KnownPass
  <1>3. ASSUME SaveStep(i) = "idle", row' = ActiveRow(p), Ends(i)
        PROVE  TypeOK' /\ IInv'
    <2>1. ~IsErased /\ creation[i].account = account
      BY <1>3 DEF SaveStep
    <2>2. RowIs(row', "active", p, TRUE, row.left, row.removed, now)
      <3>1. RowOK(row) /\ p \in MaybePasses /\ now \in Times
        BY <1>2, TypeParts DEF MaybePasses
      <3> QED BY <1>3, <3>1, ActiveRowIs
    <2>3. ~row.removed /\ now # Never
      BY <2>1, TypeParts, TimeFacts DEF IInv, RowFits
    <2>4. RowStep /\ StaysOpen
      BY <1>2, <2>1, <2>2, <2>3 DEF RowIs, RowStep, StaysOpen
    <2>5. deletion = "none" => row'.id \in Held(account)
      BY <1>1, <2>1, <2>2 DEF IInv, Here, RowIs
    <2>6. RequestStep(i)
      BY <1>3, EndIsStep
    <2> QED BY <1>1, <2>4, <2>5, <2>6, RowAndRequest
  <1>4. ASSUME NEW step \in {"failing", "orphan", "dropping"}, Goes(i, step), row' = row,
               step = "orphan" => IsErased, step = "dropping" => creation[i].account # account
        PROVE  TypeOK' /\ IInv'
    <2>1. step \in Steps \ UnderWay /\ step # "made" /\ step # "checked" /\ step # "orphaned"
      BY DEF Steps, UnderWay
    <2>2. pass'[p].state # "calling"
      BY <1>1, <1>2
    <2>3. RequestStep(i)
      BY <1>2, <1>4, <2>1, <2>2, GoIsStep
    <2> QED BY <1>1, <1>4, <2>3, RequestOnly
  <1>5. SaveStep(i) # "idle" => /\ SaveStep(i) \in {"orphan", "dropping"}
                                /\ SaveStep(i) = "orphan" => IsErased
                                /\ SaveStep(i) = "dropping" => creation[i].account # account
    BY DEF SaveStep
  <1> QED BY <1>3, <1>4, <1>5 DEF Save

LEMMA SaveFailsKeeps ==
  ASSUME TypeOK, IInv, NEW i \in Instances, SaveFails(i)
  PROVE  TypeOK' /\ IInv'
PROOF
  <1>1. creation[i].at = "made" /\ UNCHANGED <<now, erased, account, row, pass, followup, deletion>>
    BY DEF SaveFails
  <1>2. CASE Ends(i)
    BY <1>1, <1>2, EndIsStep, RequestOnly
  <1>3. CASE IsErased /\ Goes(i, "orphan")
    <2>1. creation[i].pass # Nothing /\ pass'[creation[i].pass].state # "calling"
      BY <1>1, KnownPass
    <2>2. "orphan" \in Steps \ UnderWay
      BY DEF Steps, UnderWay
    <2>3. RequestStep(i)
      BY <1>3, <2>1, <2>2, GoIsStep
    <2> QED BY <1>1, <2>3, RequestOnly
  <1> QED BY <1>2, <1>3 DEF SaveFails

LEMMA OrphanIsRecordedKeeps ==
  ASSUME TypeOK, IInv, NEW i \in Instances, OrphanIsRecorded(i)
  PROVE  TypeOK' /\ IInv'
PROOF
  <1> DEFINE p == creation[i].pass
  <1>1. /\ creation[i].at = "orphan" /\ row' = OrphanRow(p) /\ Goes(i, "orphaned")
        /\ UNCHANGED <<now, erased, account, pass, followup, deletion>>
    BY DEF OrphanIsRecorded
  <1>2. p \in Passes /\ p # Nothing /\ pass[p].state # "calling" /\ IsErased
    BY <1>1, KnownPass DEF IInv, Owned
  <1>3. RowStep /\ StaysOpen
    <2>1. RowOK(row) /\ now \in Times /\ now # Never /\ p \in MaybePasses
      BY <1>2, TypeParts, TimeFacts DEF MaybePasses
    <2>2. CASE ~row.there /\ RowIs(row', "active", p, TRUE, FALSE, FALSE, now)
      BY <1>2, <2>1, <2>2, RowFields DEF RowIs, RowStep, StaysOpen
    <2>3. CASE /\ row.there /\ row.id = Nothing
               /\ RowIs(row', row.status, p, TRUE, row.left, FALSE, row.issued)
      BY <1>2, <2>1, <2>3, RowFields DEF RowIs, RowStep, StaysOpen, IInv, RowFits
    <2>4. CASE row' = row
      BY <2>4, RowStays
    <2> QED BY <1>1, <2>1, <2>2, <2>3, <2>4, OrphanRowIs
  <1>4. RequestStep(i)
    <2>1. "orphaned" \in Steps \ UnderWay
      BY DEF Steps, UnderWay
    <2>2. pass'[p].state # "calling"
      BY <1>1, <1>2
    <2> QED BY <1>1, <1>2, <2>1, <2>2, GoIsStep
  <1> QED BY <1>1, <1>2, <1>3, <1>4, RowAndRequest

\* A request leaves its pass behind.
LEMMA LeavesBehindIsStep ==
  ASSUME TypeOK, IInv, NEW p \in Passes, pass[p].state \in {"kept", "left"}, LeavesBehind(p),
         account' = account
  PROVE  /\ RowStep /\ StaysOpen /\ PassStep /\ KeepsHeld
         /\ row'.status = row.status /\ row'.id = row.id
         /\ pass'[p].state # "calling"
PROOF
  <1>1. CASE row' = row /\ pass' = pass
    BY <1>1, RowStays, PassesStay
  <1>2. CASE row.there /\ row' = [row EXCEPT !.left = TRUE] /\ pass' = [pass EXCEPT ![p].state = "left"]
    <2>1. RowIs(row', row.status, row.id, row.reserved, TRUE, row.removed, row.issued)
      BY <1>2, TypeParts, LeftRowIs
    <2>2. RowStep /\ StaysOpen /\ row'.status = row.status /\ row'.id = row.id /\ row'.left
      BY <2>1 DEF RowIs, RowStep, StaysOpen, IInv, RowFits
    <2>3. PassIs(p, "left", pass[p].account, pass[p].at, pass[p].lost)
      BY <1>2, TypeParts, PassIsLeft
    <2>4. PassStep /\ KeepsHeld /\ pass'[p].state # "calling"
      BY <2>2, <2>3 DEF PassIs, PassStep, KeepsHeld, Held
    <2> QED BY <2>2, <2>4
  <1> QED BY <1>1, <1>2 DEF LeavesBehind

LEMMA OrphanIsDeletedKeeps ==
  ASSUME TypeOK, IInv, NEW i \in Instances, OrphanIsDeleted(i)
  PROVE  TypeOK' /\ IInv'
PROOF
  <1>1. /\ creation[i].at = "orphaned" /\ Deleted(creation[i].pass) /\ Ends(i)
        /\ UNCHANGED <<now, erased, account, row, followup, deletion>>
    BY DEF OrphanIsDeleted
  <1>2. creation[i].pass \in Passes /\ IsErased
    BY <1>1, KnownPass DEF IInv, Owned
  <1>3. PassStep /\ KeepsHeld
    <2>1. PassIs(creation[i].pass, "none", 1, Never, FALSE)
      BY <1>1, <1>2, TypeParts, PassGoes
    <2> QED BY <1>2, <2>1 DEF PassIs, PassStep, KeepsHeld
  <1>4. RowStep /\ StaysOpen /\ RunsStep /\ RequestStep(i) /\ RequestsStep
    BY <1>1, RowStays, RunsStay, EndIsStep DEF RequestsStep
  <1>5. creation' \in [Instances -> Creations] /\ followup' \in [Followups -> FollowRecords]
    BY <1>1, <1>4, TypeParts DEF RequestStep
  <1> QED BY <1>1, <1>3, <1>4, <1>5, StepKeeps

LEMMA OrphanFailsKeeps ==
  ASSUME TypeOK, IInv, NEW i \in Instances, OrphanFails(i)
  PROVE  TypeOK' /\ IInv'
PROOF
  <1> DEFINE p == creation[i].pass
  <1>1. /\ creation[i].at \in {"orphan", "orphaned"} /\ Ends(i)
        /\ UNCHANGED <<now, erased, account, followup, deletion>>
    BY DEF OrphanFails
  <1>2. p \in Passes
    BY <1>1, KnownPass
  <1>3. RowStep /\ StaysOpen /\ PassStep /\ KeepsHeld /\ row'.status = row.status /\ row'.id = row.id
    <2>1. CASE LeavesBehind(p) /\ pass[p].state \in {"kept", "left"}
      BY <1>1, <1>2, <2>1, LeavesBehindIsStep
    <2>2. CASE row' = row /\ pass' = pass
      BY <1>1, <2>2, RowStays, PassesStay
    <2> QED BY <2>1, <2>2 DEF OrphanFails
  <1>4. RunsStep /\ RequestStep(i) /\ RequestsStep
    BY <1>1, RunsStay, EndIsStep DEF RequestsStep
  <1>5. creation' \in [Instances -> Creations] /\ followup' \in [Followups -> FollowRecords]
    BY <1>1, <1>4, TypeParts DEF RequestStep
  <1> QED BY <1>1, <1>3, <1>4, <1>5, StepKeeps

LEMMA DropKeeps ==
  ASSUME TypeOK, IInv, NEW i \in Instances, Drop(i)
  PROVE  TypeOK' /\ IInv'
PROOF
  <1> DEFINE p == creation[i].pass
  <1>1. creation[i].at = "dropping" /\ UNCHANGED <<now, erased, account, followup, deletion>>
    BY DEF Drop
  <1>2. p \in Passes /\ p # Nothing /\ pass[p].state # "calling" /\ creation[i].account # account
        /\ (pass[p].state # "none" => pass[p].account = creation[i].account)
    BY <1>1, KnownPass DEF IInv, Owned
  <1>3. CASE Deleted(p) /\ Ends(i) /\ row' = row
    <2>1. PassIs(p, "none", 1, Never, FALSE)
      BY <1>2, <1>3, TypeParts, PassGoes
    <2>2. PassStep /\ KeepsHeld
      BY <1>1, <1>2, <2>1 DEF PassIs, PassStep, KeepsHeld, Held
    <2>3. RowStep /\ StaysOpen /\ RunsStep /\ RequestStep(i) /\ RequestsStep
      BY <1>1, <1>3, RowStays, RunsStay, EndIsStep DEF RequestsStep
    <2>4. creation' \in [Instances -> Creations] /\ followup' \in [Followups -> FollowRecords]
      BY <1>1, <2>3, TypeParts DEF RequestStep
    <2> QED BY <1>1, <1>3, <2>2, <2>3, <2>4, StepKeeps
  <1>4. CASE pass[p].state \in {"kept", "left"} /\ LeavesBehind(p) /\ Goes(i, "failing")
    <2>1. /\ RowStep /\ StaysOpen /\ PassStep /\ KeepsHeld /\ row'.status = row.status
          /\ row'.id = row.id /\ pass'[p].state # "calling"
      BY <1>1, <1>2, <1>4, LeavesBehindIsStep
    <2>2. "failing" \in Steps \ UnderWay /\ "failing" \notin Keeping
      BY DEF Steps, UnderWay, Keeping
    <2>3. RequestStep(i)
      BY <1>4, <2>1, <2>2, GoIsStep
    <2>4. RunsStep /\ RequestsStep
      BY <1>1, <2>3, RunsStay DEF RequestsStep
    <2>5. creation' \in [Instances -> Creations] /\ followup' \in [Followups -> FollowRecords]
      BY <1>1, <2>3, TypeParts DEF RequestStep
    <2> QED BY <1>1, <2>1, <2>4, <2>5, StepKeeps
  <1> QED BY <1>3, <1>4 DEF Drop

LEMMA MarkFailedKeeps ==
  ASSUME TypeOK, IInv, NEW i \in Instances, MarkFailed(i)
  PROVE  TypeOK' /\ IInv'
PROOF
  <1>1. Ends(i) /\ UNCHANGED <<now, erased, account, pass, followup, deletion>>
    BY DEF MarkFailed
  <1>2. RequestStep(i)
    BY <1>1, EndIsStep
  <1>3. CASE row' = row
    BY <1>1, <1>2, <1>3, RequestOnly
  <1>4. CASE row' = FailedRow
    <2>1. RowIs(row', IF row.status = "active" THEN "active" ELSE "failed", row.id,
                row.reserved, row.left, row.removed, row.issued)
      BY <1>4, Fields, FailedRowIs
    <2>2. RowStep /\ StaysOpen /\ (row'.status = "active" => row.status = "active" /\ row'.id = row.id)
      BY <2>1 DEF RowIs, RowStep, StaysOpen, IInv, RowFits
    <2> QED BY <1>1, <1>2, <2>2, RowAndRequest
  <1> QED BY <1>3, <1>4 DEF MarkFailed

LEMMA CrashKeeps ==
  ASSUME TypeOK, IInv, NEW i \in Instances, Crash(i)
  PROVE  TypeOK' /\ IInv'
PROOF BY EndIsStep, RequestOnly DEF Crash

-----------------------------------------------------------------------------
(* The provider and the follow-up.                                         *)

\* Steps that change passes, and runs of the follow-up, only.
LEMMA PassAndRun ==
  ASSUME TypeOK, IInv, PassStep, KeepsHeld, RunsStep,
         followup' \in [Followups -> FollowRecords],
         UNCHANGED <<now, erased, account, row, creation, deletion>>
  PROVE  TypeOK' /\ IInv'
PROOF
  <1>1. RowStep /\ StaysOpen /\ RequestsStep
    BY RowStays DEF RequestsStep
  <1>2. creation' \in [Instances -> Creations]
    BY TypeParts
  <1> QED BY <1>1, <1>2, StepKeeps

LEMMA LandKeeps ==
  ASSUME TypeOK, IInv, NEW p \in Passes, Land(p)
  PROVE  TypeOK' /\ IInv'
PROOF
  <1>1. PassIs(p, "kept", pass[p].account, Never, pass[p].lost)
    BY TypeParts, PassLands DEF Land
  <1>2. PassStep /\ KeepsHeld
    BY <1>1 DEF Land, PassIs, PassStep, KeepsHeld, Held
  <1>3. RunsStep /\ followup' \in [Followups -> FollowRecords]
    BY RunsStay, TypeParts DEF Land
  <1> QED BY <1>2, <1>3, PassAndRun DEF Land

LEMMA NeverArrivesKeeps ==
  ASSUME TypeOK, IInv, NEW p \in Passes, NeverArrives(p)
  PROVE  TypeOK' /\ IInv'
PROOF
  <1>1. PassStep /\ KeepsHeld
    BY CallGoes DEF NeverArrives
  <1>2. RunsStep /\ followup' \in [Followups -> FollowRecords]
    BY RunsStay, TypeParts DEF NeverArrives
  <1> QED BY <1>1, <1>2, PassAndRun DEF NeverArrives

\* After the erasure any pass may go.
LEMMA ErasedPassDeleted ==
  ASSUME TypeOK, IsErased, NEW p \in Passes, Deleted(p)
  PROVE  PassStep /\ KeepsHeld
PROOF
  <1>1. PassIs(p, "none", 1, Never, FALSE)
    BY TypeParts, PassGoes
  <1> QED BY <1>1 DEF PassIs, PassStep, KeepsHeld

LEMMA SecondLookKeeps ==
  ASSUME TypeOK, IInv, NEW p \in Passes, SecondLook(p)
  PROVE  TypeOK' /\ IInv'
PROOF
  <1>1. PassStep /\ KeepsHeld
    BY ErasedPassDeleted DEF SecondLook
  <1>2. RunsStep /\ followup' \in [Followups -> FollowRecords]
    BY RunsStay, TypeParts DEF SecondLook
  <1> QED BY <1>1, <1>2, PassAndRun DEF SecondLook

\* A run goes on with what it has read.
LEMMA RunGoesOn ==
  ASSUME TypeOK, IInv, NEW f \in Followups, NEW at \in Stages, followup[f].at # "idle",
         RunIs(f, at, followup[f].account, followup[f].id, followup[f].issued),
         at = "settling" /\ followup[f].id # Nothing
           => Quiet /\ Held(followup[f].account) = {}
  PROVE  RunsStep /\ followup' \in [Followups -> FollowRecords]
PROOF
  <1>1. Backed(followup'[f])
    BY DEF IInv, Followed, Backed, RunIs
  <1>2. ASSUME NEW g \in Followups \ {f}, followup'[g].at # "idle"
        PROVE  Backed(followup'[g])
    BY <1>2 DEF IInv, Followed, RunIs
  <1> QED BY <1>1, <1>2 DEF RunsStep, RunIs

LEMMA RunEnded ==
  ASSUME TypeOK, IInv, NEW f \in Followups, followup' = [followup EXCEPT ![f] = NoFollowup]
  PROVE  RunsStep /\ followup' \in [Followups -> FollowRecords]
PROOF
  <1>1. RunIs(f, "idle", 1, Nothing, Never)
    BY TypeParts, RunEnds
  <1>2. ASSUME NEW g \in Followups \ {f}, followup'[g].at # "idle"
        PROVE  Backed(followup'[g])
    BY <1>1, <1>2 DEF IInv, Followed, RunIs
  <1> QED BY <1>1, <1>2 DEF RunsStep, RunIs

LEMMA FollowUpReadsKeeps ==
  ASSUME TypeOK, IInv, NEW f \in Followups, FollowUpReads(f)
  PROVE  TypeOK' /\ IInv'
PROOF
  <1>1. IsErased /\ row.there /\ UNCHANGED <<now, erased, account, row, pass, creation, deletion>>
    BY DEF FollowUpReads, StillToDelete
  <1> DEFINE at == IF row.id = Nothing THEN "reserved" ELSE "recorded"
  <1>2. at \in Stages /\ at # "settling"
    BY DEF Stages
  <1>3. followup' = [followup EXCEPT ![f] = [at |-> at, account |-> account, id |-> row.id,
                       left |-> row.left, issued |-> row.issued, found |-> FALSE]]
    BY DEF FollowUpReads
  <1> HIDE DEF at
  <1>4. RunIs(f, at, account, row.id, row.issued)
    BY <1>2, <1>3, TypeParts, RunReads
  <1>5. Backed(followup'[f])
    <2>1. /\ \A i \in Instances : creation[i].account <= account
          /\ \A p \in Passes : pass[p].state # "none" => pass[p].account <= account
      BY DEF IInv, Owned, Marked
    <2> QED BY <1>1, <1>2, <1>4, <2>1, Fields DEF RunIs, Backed
  <1>6. ASSUME NEW g \in Followups \ {f}, followup'[g].at # "idle"
        PROVE  Backed(followup'[g])
    BY <1>4, <1>6 DEF IInv, Followed, RunIs
  <1>7. RunsStep /\ followup' \in [Followups -> FollowRecords]
    BY <1>4, <1>5, <1>6 DEF RunsStep, RunIs
  <1>8. PassStep /\ KeepsHeld
    BY <1>1, PassesStay
  <1> QED BY <1>1, <1>7, <1>8, PassAndRun

LEMMA FollowUpDeletesRecordedKeeps ==
  ASSUME TypeOK, IInv, NEW f \in Followups, FollowUpDeletesRecorded(f)
  PROVE  TypeOK' /\ IInv'
PROOF
  <1>1. /\ followup[f].at = "recorded" /\ UNCHANGED <<now, erased, account, row, creation, deletion>>
        /\ followup' = [followup EXCEPT ![f].at = "reserved"]
    BY DEF FollowUpDeletesRecorded
  <1>2. IsErased
    BY <1>1 DEF IInv, Followed, Backed
  <1>3. PassStep /\ KeepsHeld
    <2>1. CASE Deleted(followup[f].id) /\ followup[f].id \in Passes
      BY <1>2, <2>1, ErasedPassDeleted
    <2>2. CASE pass' = pass
      BY <1>1, <2>2, PassesStay
    <2> QED BY <2>1, <2>2 DEF FollowUpDeletesRecorded, Held
  <1>4. RunIs(f, "reserved", followup[f].account, followup[f].id, followup[f].issued)
    BY <1>1, TypeParts, RunGoes DEF Stages
  <1>5. RunsStep /\ followup' \in [Followups -> FollowRecords]
    BY <1>1, <1>4, RunGoesOn DEF Stages
  <1> QED BY <1>1, <1>3, <1>5, PassAndRun

LEMMA FollowUpDeletesReservedKeeps ==
  ASSUME TypeOK, IInv, NEW f \in Followups, NEW p \in Passes, FollowUpDeletesReserved(f, p)
  PROVE  TypeOK' /\ IInv'
PROOF
  <1>1. /\ followup[f].at = "reserved" /\ Deleted(p)
        /\ followup' = [followup EXCEPT ![f].found = TRUE]
        /\ UNCHANGED <<now, erased, account, row, creation, deletion>>
    BY DEF FollowUpDeletesReserved
  <1>2. IsErased
    BY <1>1 DEF IInv, Followed, Backed
  <1>3. PassStep /\ KeepsHeld
    BY <1>1, <1>2, ErasedPassDeleted
  <1>4. RunIs(f, "reserved", followup[f].account, followup[f].id, followup[f].issued)
    BY <1>1, TypeParts, RunFinds
  <1>5. RunsStep /\ followup' \in [Followups -> FollowRecords]
    BY <1>1, <1>4, RunGoesOn DEF Stages
  <1> QED BY <1>1, <1>3, <1>5, PassAndRun

\* "There is none" is final only when no call can still be on its way.
LEMMA FollowUpDecidesKeeps ==
  ASSUME TypeOK, IInv, NEW f \in Followups, FollowUpDecides(f)
  PROVE  TypeOK' /\ IInv'
PROOF
  <1>1. /\ followup[f].at = "reserved" /\ Held(followup[f].account) = {}
        /\ UNCHANGED <<now, erased, account, row, pass, creation, deletion>>
    BY DEF FollowUpDecides
  <1>2. RunsStep /\ followup' \in [Followups -> FollowRecords]
    <2>1. CASE followup' = [followup EXCEPT ![f] = NoFollowup]
      BY <2>1, RunEnded
    <2>2. CASE Gone(followup[f]) /\ followup' = [followup EXCEPT ![f] = [followup[f] EXCEPT !.at = "settling"]]
      <3>1. followup' = [followup EXCEPT ![f].at = "settling"]
        BY <2>2
      <3>2. RunIs(f, "settling", followup[f].account, followup[f].id, followup[f].issued)
        BY <3>1, TypeParts, RunGoes DEF Stages
      <3>3. Backed(followup[f])
        BY <1>1 DEF IInv, Followed
      <3>4. followup[f].id # Nothing => Quiet
        <4>1. followup[f].id # Nothing => Settled(followup[f])
          BY <2>2 DEF Gone
        <4> QED BY <3>3, <4>1 DEF Backed, Settled, Quiet, IInv, RowFits
      <3> QED BY <1>1, <3>2, <3>4, RunGoesOn DEF Stages
    <2> QED BY <2>1, <2>2 DEF FollowUpDecides
  <1>3. PassStep /\ KeepsHeld
    BY <1>1, PassesStay
  <1> QED BY <1>1, <1>2, <1>3, PassAndRun

LEMMA FollowUpStopsKeeps ==
  ASSUME TypeOK, IInv, NEW f \in Followups, FollowUpStops(f)
  PROVE  TypeOK' /\ IInv'
PROOF
  <1>1. UNCHANGED <<now, erased, account, row, pass, creation, deletion>>
        /\ followup' = [followup EXCEPT ![f] = NoFollowup]
    BY DEF FollowUpStops
  <1>2. RunsStep /\ followup' \in [Followups -> FollowRecords] /\ PassStep /\ KeepsHeld
    BY <1>1, RunEnded, PassesStay
  <1> QED BY <1>1, <1>2, PassAndRun

\* A row with an id is marked removed only when things are quiet, and no pass is held
\* in the account that was asked, which is then still the event's.
LEMMA FollowUpSettlesKeeps ==
  ASSUME TypeOK, IInv, NEW f \in Followups, FollowUpSettles(f)
  PROVE  TypeOK' /\ IInv'
PROOF
  <1>1. /\ followup[f].at = "settling" /\ UNCHANGED <<now, erased, account, pass, creation, deletion>>
        /\ followup' = [followup EXCEPT ![f] = NoFollowup]
    BY DEF FollowUpSettles
  <1>2. Backed(followup[f])
    BY <1>1 DEF IInv, Followed
  <1>3. RunsStep /\ followup' \in [Followups -> FollowRecords] /\ PassStep /\ KeepsHeld
    BY <1>1, RunEnded, PassesStay
  <1>4. CASE row' = row
    BY <1>1, <1>3, <1>4, PassAndRun
  <1>5. CASE Unchanged(followup[f]) /\ row' = [row EXCEPT !.removed = TRUE]
    <2>1. RowIs(row', row.status, row.id, row.reserved, row.left, TRUE, row.issued)
      BY <1>2, <1>5, Fields, RemovedRowIs DEF Backed
    <2>2. RowStep
      BY <1>2, <2>1 DEF RowIs, RowStep, Backed, IInv, RowFits
    <2>3. RequestsStep
      BY <1>1 DEF RequestsStep
    <2>4. TypeOK'
      BY <1>1, <1>3, <2>2, TypeParts, TypePartsNext DEF RowStep, PassStep
    <2>5. RowFits' /\ Marked' /\ Owned' /\ Timely'
      BY <1>1, <1>3, <2>2, <2>3, RowFitsKept, MarkedKept, OwnedKept, TimelyKept
    <2>6. Here'
      BY <1>1, <1>2, <1>3, <2>3 DEF Here, Backed, IsErased
    <2>7. Quiet' <=> Quiet
      BY <1>1, <2>1 DEF RowIs, Quiet, IsErased
    <2>8. row.id # Nothing => Quiet /\ Held(account) = {}
      <3>1. row.id # Nothing => Quiet /\ Held(followup[f].account) = {}
        BY <1>1, <1>2, <1>5 DEF Backed, Unchanged
      <3>2. ASSUME row.id # Nothing, NEW p \in Held(account)  PROVE FALSE
        <4>1. p \in Passes /\ pass[p].state # "none" /\ pass[p].account = account
          BY <3>2 DEF Held
        <4>2. pass[p].account <= followup[f].account /\ followup[f].account <= account
          BY <1>2, <4>1 DEF Backed
        <4>3. followup[f].account = account
          BY <4>1, <4>2, Fields
        <4> QED BY <3>1, <3>2, <4>3
      <3> QED BY <3>1, <3>2
    <2>9. Followed'
      <3>1. ASSUME NEW g \in Followups, followup'[g].at # "idle"
            PROVE  Backed(followup[g])'
        <4>1. Backed(followup'[g])
          BY <1>3, <3>1 DEF RunsStep
        <4> QED BY <1>1, <2>1, <2>7, <4>1 DEF Backed, RowIs, IsErased, Held
      <3>2. row'.removed /\ row'.id # Nothing => Quiet' /\ Held(account)' = {}
        BY <1>1, <2>1, <2>7, <2>8 DEF RowIs, Held
      <3> QED BY <3>1, <3>2 DEF Followed
    <2> QED BY <2>4, <2>5, <2>6, <2>9 DEF IInv
  <1> QED BY <1>4, <1>5 DEF FollowUpSettles

-----------------------------------------------------------------------------
(* Administrators, and time.                                               *)

LEMMA EraseKeeps ==
  ASSUME TypeOK, IInv, Erase
  PROVE  TypeOK' /\ IInv'
PROOF
  <1>1. /\ ~IsErased /\ erased' = now /\ UNCHANGED <<now, account, row, pass, creation, followup, deletion>>
    BY DEF Erase
  <1>2. TypeOK' /\ IsErased'
    BY <1>1, TypeParts, TypePartsNext, TimeFacts DEF IsErased
  <1>3. RowFits' /\ Marked' /\ Owned' /\ Here'
    BY <1>1, <1>2 DEF IInv, RowFits, Marked, Owned, Here
  <1>4. Timely'
    <2>1. Lasts(now)
      BY Fields, TimeFacts DEF IInv, Timely, Lasts
    <2>2. Lasts(erased)'
      BY <1>1, <2>1 DEF Lasts
    <2>3. row.status = "active" => Lasts(row.issued)'
      BY <1>1 DEF IInv, Timely, Lasts
    <2> QED BY <1>1, <2>2, <2>3 DEF IInv, Timely
  <1>5. Followed'
    BY <1>1 DEF IInv, Followed, Backed, RowFits
  <1> QED BY <1>2, <1>3, <1>4, <1>5 DEF IInv

\* No pass can be in an account the event has not had yet.
LEMMA ChangeAccountKeeps ==
  ASSUME TypeOK, IInv, ChangeAccount
  PROVE  TypeOK' /\ IInv'
PROOF
  <1>1. /\ account < MaxAccount /\ row.issued = Never /\ account' = account + 1
        /\ UNCHANGED <<now, erased, row, pass, creation, followup, deletion>>
    BY DEF ChangeAccount
  <1>2. TypeOK'
    <2>1. account' \in Accounts
      BY <1>1, TypeParts, BoundsAssumption DEF Accounts
    <2> QED BY <1>1, <2>1, TypeParts, TypePartsNext
  <1>3. row.status # "active" /\ account \in Nat /\ account' > account
    BY <1>1, Fields DEF IInv, RowFits
  <1>4. RowFits'
    BY <1>1 DEF IInv, RowFits, IsErased
  <1>5. Marked'
    BY <1>1, <1>3, Fields DEF IInv, Marked
  <1>6. Owned'
    BY <1>1, <1>3, Fields DEF IInv, Owned, IsErased
  <1>7. Timely'
    BY <1>1 DEF IInv, Timely, Lasts, IsErased
  <1>8. Quiet' <=> Quiet
    BY <1>1 DEF Quiet, IsErased
  <1>9. Held(account') = {}
    BY <1>3, Fields DEF IInv, Marked, Held
  <1>10. Followed'
    <2>1. ASSUME NEW f \in Followups, followup'[f].at # "idle"
          PROVE  Backed(followup[f])'
      <3>1. Backed(followup[f]) /\ followup[f].account \in Nat
        BY <1>1, <2>1, Fields DEF IInv, Followed
      <3>2. followup[f].account <= account'
        BY <1>1, <1>3, <3>1 DEF Backed
      <3> QED BY <1>1, <1>8, <3>1, <3>2 DEF Backed, IsErased, Held
    <2>2. row'.removed /\ row'.id # Nothing => Quiet' /\ Held(account)' = {}
      BY <1>1, <1>8, <1>9 DEF IInv, Followed, Held
    <2> QED BY <2>1, <2>2 DEF Followed
  <1>11. Here'
    <2>1. ASSUME NEW i \in Instances, creation[i].account = account'  PROVE FALSE
      BY <1>3, <2>1, Fields DEF IInv, Owned
    <2> QED BY <1>1, <1>3, <2>1 DEF Here
  <1> QED BY <1>2, <1>4, <1>5, <1>6, <1>7, <1>10, <1>11 DEF IInv

LEMMA DeleteAtProviderKeeps ==
  ASSUME TypeOK, IInv, DeleteAtProvider
  PROVE  TypeOK' /\ IInv'
PROOF
  <1>1. deletion' = "provider" /\ UNCHANGED <<now, erased, account, row, creation, followup>>
    BY DEF DeleteAtProvider
  <1>2. PassStep
    <2>1. ASSUME row.id \in Passes, Deleted(row.id)
          PROVE  PassStep
      <3>1. PassIs(row.id, "none", 1, Never, FALSE)
        BY <2>1, TypeParts, PassGoes
      <3> QED BY <3>1 DEF PassIs, PassStep
    <2>2. CASE pass' = pass
      BY <2>2, PassesStay
    <2> QED BY <2>1, <2>2 DEF DeleteAtProvider, Held
  <1>3. RowStep /\ StaysOpen /\ RequestsStep /\ RunsStep
    BY <1>1, RowStays, RunsStay DEF RequestsStep
  <1>4. TypeOK'
    BY <1>1, <1>2, TypeParts, TypePartsNext DEF PassStep
  <1>5. RowFits' /\ Marked' /\ Owned' /\ Timely' /\ Followed'
    <2>1. followup' \in [Followups -> FollowRecords]
      BY <1>1, TypeParts
    <2> QED BY <1>1, <1>2, <1>3, <2>1, RowFitsKept, MarkedKept, OwnedKept, TimelyKept, FollowedKept
  <1>6. Here'
    BY <1>1 DEF Here
  <1> QED BY <1>4, <1>5, <1>6 DEF IInv

LEMMA DeleteRowKeeps ==
  ASSUME TypeOK, IInv, DeleteRow
  PROVE  TypeOK' /\ IInv'
PROOF
  <1>1. deletion' = "done" /\ UNCHANGED <<now, erased, account, creation, followup>>
    BY DEF DeleteRow
  <1>2. Here'
    BY <1>1 DEF Here
  <1>3. CASE row' = row /\ pass' = pass
    <2>1. RowStep /\ StaysOpen /\ PassStep /\ RequestsStep /\ RunsStep
      BY <1>1, <1>3, RowStays, PassesStay, RunsStay DEF RequestsStep
    <2>2. TypeOK' /\ followup' \in [Followups -> FollowRecords]
      BY <1>1, <1>3, TypeParts, TypePartsNext
    <2>3. RowFits' /\ Marked' /\ Owned' /\ Timely' /\ Followed'
      BY <1>1, <2>1, <2>2, RowFitsKept, MarkedKept, OwnedKept, TimelyKept, FollowedKept
    <2> QED BY <1>2, <2>2, <2>3 DEF IInv
  <1>4. CASE /\ ~IsErased /\ row' = RowAfterDelete
             /\ pass' = [p \in Passes |->
                           IF pass[p].state = "none" THEN NoPass ELSE [pass[p] EXCEPT !.lost = TRUE]]
    <2>1. /\ pass' \in [Passes -> PassRecords]
          /\ \A p \in Passes :
               /\ pass'[p].state = pass[p].state
               /\ pass[p].state # "none" => /\ pass'[p].account = pass[p].account
                                            /\ pass'[p].at = pass[p].at /\ pass'[p].lost
      BY <1>4, TypeParts, PassesAreLost
    <2>2. /\ RowOK(row') /\ row'.status # "active" /\ row'.issued = Never /\ ~row'.removed
          /\ row.left => row'.left
      <3>1. CASE ~row.left /\ row' = NoRow
        BY <3>1, NoRowIs
      <3>2. CASE row.left /\ RowIs(row', "pending", Nothing, FALSE, TRUE, FALSE, Never)
        BY <3>2 DEF RowIs
      <3> QED BY <1>4, <3>1, <3>2, RowAfterDeleteIs
    <2>3. TypeOK'
      BY <1>1, <2>1, <2>2, TypeParts, TypePartsNext
    <2>4. RowFits' /\ ~IsErased'
      BY <1>1, <1>4, <2>2 DEF RowFits, IsErased
    <2>5. Marked'
      BY <1>1, <2>1, <2>2 DEF IInv, Marked
    <2>6. Owned'
      BY <1>1, <1>4, <2>1, <2>4, Fields DEF IInv, Owned, MaybePasses
    <2>7. Timely'
      BY <1>1, <2>1, <2>2, <2>4 DEF IInv, Timely
    <2>8. Followed'
      BY <1>1, <1>4, <2>2 DEF IInv, Followed, Backed
    <2> QED BY <1>2, <2>3, <2>4, <2>5, <2>6, <2>7, <2>8 DEF IInv
  <1> QED BY <1>3, <1>4 DEF DeleteRow

LEMMA TickKeeps ==
  ASSUME TypeOK, IInv, Tick
  PROVE  TypeOK' /\ IInv'
PROOF
  <1>1. /\ now < MaxTime /\ now' = now + 1
        /\ \A p \in Passes : pass[p].state = "calling" => now < pass[p].at + Lag
        /\ \A i \in Instances : creation[i].at # "checked"
        /\ UNCHANGED <<erased, account, row, pass, creation, followup, deletion>>
    BY DEF Tick
  <1>2. now \in Nat
    BY Fields
  <1>3. TypeOK'
    <2>1. now' \in Times
      BY <1>1, <1>2, BoundsAssumption DEF Times
    <2> QED BY <1>1, <2>1, TypeParts, TypePartsNext
  <1>4. RowFits' /\ Marked' /\ Owned' /\ Here'
    BY <1>1 DEF IInv, RowFits, Marked, Owned, Here, Held, IsErased
  <1>5. Timely'
    <2>1. \A i \in Instances : creation[i].at \in UnderWay => creation[i].checked <= now'
      BY <1>1, <1>2, Fields DEF IInv, Timely
    <2>2. \A p \in Passes : pass[p].state = "calling" => pass[p].at <= now' /\ now' <= pass[p].at + Lag
      BY <1>1, <1>2, Fields, TimeFacts DEF IInv, Timely
    <2>3. (IsErased => Lasts(erased)') /\ (row.status = "active" => Lasts(row.issued)')
      BY <1>1 DEF IInv, Timely, Lasts
    <2> QED BY <1>1, <2>1, <2>2, <2>3 DEF IInv, Timely, IsErased
  <1>6. Quiet => Quiet'
    <2>1. erased \in Nat /\ row.issued \in Nat /\ Window \in Nat
      BY Fields, TimeFacts
    <2> QED BY <1>1, <1>2, <2>1 DEF Quiet, IsErased
  <1>7. Followed'
    <2>1. ASSUME NEW f \in Followups, followup'[f].at # "idle"
          PROVE  Backed(followup[f])'
      BY <1>1, <1>6, <2>1 DEF IInv, Followed, Backed, IsErased, Held
    <2>2. row'.removed /\ row'.id # Nothing => Quiet' /\ Held(account)' = {}
      BY <1>1, <1>6 DEF IInv, Followed, Held
    <2> QED BY <2>1, <2>2 DEF Followed
  <1> QED BY <1>3, <1>4, <1>5, <1>7 DEF IInv

-----------------------------------------------------------------------------
(* The theorems.                                                           *)

LEMMA InitHolds ==
  ASSUME Init
  PROVE  TypeOK /\ IInv
PROOF
  <1>1. TypeOK
    <2>1. NoCreation \in Creations
      BY TimeFacts DEF NoCreation, Creations, Steps, MaybePasses
    <2>2. NoFollowup \in FollowRecords
      BY TimeFacts DEF NoFollowup, FollowRecords, Stages, MaybePasses
    <2> QED BY <2>1, <2>2, TypeParts, TimeFacts, NoRowIs, NoPassIs DEF Init
  <1>2. RowFits /\ Marked
    BY NoRowIs, NoPassIs DEF Init, RowFits, Marked, IsErased
  <1>3. Owned /\ Timely
    BY NoRowIs, NoPassIs DEF Init, Owned, Timely, NoCreation, Keeping, UnderWay, IsErased
  <1>4. Followed /\ Here
    BY NoRowIs DEF Init, Followed, Here, NoFollowup, NoCreation
  <1> QED BY <1>1, <1>2, <1>3, <1>4 DEF IInv

LEMMA NextHolds ==
  ASSUME TypeOK, IInv, [Next]_vars
  PROVE  TypeOK' /\ IInv'
PROOF
  <1>1. ASSUME NEW i \in Instances, Tap(i) \/ CreationStep(i)
        PROVE  TypeOK' /\ IInv'
    BY <1>1, TapKeeps, RecheckKeeps, ReserveKeeps, SendKeeps, AnsweredKeeps, RefusedKeeps,
       GivesUpKeeps, SaveKeeps, SaveFailsKeeps, OrphanIsRecordedKeeps, OrphanIsDeletedKeeps,
       OrphanFailsKeeps, DropKeeps, MarkFailedKeeps, CrashKeeps DEF CreationStep
  <1>2. ASSUME NEW p \in Passes, Land(p) \/ NeverArrives(p) \/ SecondLook(p)
        PROVE  TypeOK' /\ IInv'
    BY <1>2, LandKeeps, NeverArrivesKeeps, SecondLookKeeps
  <1>3. ASSUME NEW f \in Followups, FollowUpReads(f) \/ FollowUpStep(f)
        PROVE  TypeOK' /\ IInv'
    BY <1>3, FollowUpReadsKeeps, FollowUpDeletesRecordedKeeps, FollowUpDeletesReservedKeeps,
       FollowUpDecidesKeeps, FollowUpSettlesKeeps, FollowUpStopsKeeps DEF FollowUpStep
  <1>4. CASE Erase \/ ChangeAccount \/ DeleteAtProvider \/ DeleteRow \/ Tick
    BY <1>4, EraseKeeps, ChangeAccountKeeps, DeleteAtProviderKeeps, DeleteRowKeeps, TickKeeps
  <1>5. CASE UNCHANGED vars
    <2>1. UNCHANGED <<now, erased, account, row, pass, creation, followup, deletion>>
      BY <1>5 DEF vars
    <2>2. RunsStep /\ followup' \in [Followups -> FollowRecords] /\ PassStep /\ KeepsHeld
      BY <2>1, RunsStay, PassesStay, TypeParts
    <2> QED BY <2>1, <2>2, PassAndRun
  <1> QED BY <1>1, <1>2, <1>3, <1>4, <1>5 DEF Next

THEOREM InvariantHolds == Spec => [](TypeOK /\ IInv)
PROOF
  <1>1. Init => TypeOK /\ IInv
    BY InitHolds
  <1>2. (TypeOK /\ IInv) /\ [Next]_vars => (TypeOK /\ IInv)'
    BY NextHolds
  <1> QED BY <1>1, <1>2, PTL DEF Spec

\* Rows, passes, requests and runs of the follow-up stay what their types say.
THEOREM TypeCorrect == Spec => []TypeOK
PROOF BY InvariantHolds, PTL

\* The row of an erased attendee keeps the sweep asking as long as there may be a pass
\* in the event's account (deleteErasedWalletPasses, recheckSettledWalletPasses): it is
\* settled with an id only when things are quiet.
THEOREM ErasedPassIsFollowed == Spec => []ErasedPassIsPursued
PROOF
  <1>1. ASSUME TypeOK, IInv  PROVE ErasedPassIsPursued
    <2>1. SUFFICES ASSUME IsErased
          PROVE  /\ (\E p \in Passes : pass[p].state # "none" /\ pass[p].account = account /\ ~pass[p].lost)
                      => StillToDelete \/ AskedAgain
                 /\ (\E p \in Passes : pass[p].state = "left") => StillToDelete
      BY DEF ErasedPassIsPursued
    <2>2. RowOK(row)
      BY <1>1, Fields
    <2>3. ASSUME NEW p \in Passes, pass[p].state # "none", pass[p].account = account, ~pass[p].lost
          PROVE  StillToDelete \/ AskedAgain
      <3>1. row.there /\ row.reserved
        BY <1>1, <2>2, <2>3, RowFields DEF IInv, Marked
      <3>2. ~(row.removed /\ row.id # Nothing)
        <4>1. ASSUME row.removed, row.id # Nothing  PROVE FALSE
          <5>1. Quiet /\ p \notin Held(account)
            BY <1>1, <4>1 DEF IInv, Followed
          <5>2. pass[p].state = "calling"
            BY <1>1, <2>3, <5>1, Fields DEF Held, States
          <5> QED BY <1>1, <5>1, <5>2, QuietFacts DEF IInv
        <4> QED BY <4>1
      <3> QED BY <3>1, <3>2 DEF StillToDelete, AskedAgain
    <2>4. ASSUME NEW p \in Passes, pass[p].state = "left"
          PROVE  StillToDelete
      BY <1>1, <2>2, <2>4, RowFields DEF IInv, Marked, StillToDelete
    <2> QED BY <2>3, <2>4
  <1> QED BY <1>1, InvariantHolds, PTL

\* The pass that a live attendee's row calls active is held in the event's account: the
\* locks of markActive, and the account a request remembers, see to it.
THEOREM ActivePassHeld == Spec => []ActivePassIsHere
PROOF
  <1>1. TypeOK /\ IInv => ActivePassIsHere
    BY DEF IInv, Here, ActivePassIsHere
  <1> QED BY <1>1, InvariantHolds, PTL
=============================================================================
