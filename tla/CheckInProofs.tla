---------------------------- MODULE CheckInProofs ----------------------------
(***************************************************************************)
(* What TLAPS proves of CheckIn for any number of guests, devices, clerks, *)
(* check-ins and changes, and any length of the hour.                      *)
(***************************************************************************)
EXTENDS CheckIn, SequenceTheorems, TLAPS

----------------------------------------------------------------------------
(* Hours.                                                                  *)

LEMMA HourFacts ==
  ASSUME NEW t \in Nat
  PROVE  /\ Hour(t) \in Nat /\ Hour(t) <= t /\ t < Hour(t) + HourLen /\ Hour(Hour(t)) = Hour(t)
         /\ t >= HourLen => Hour(t) >= HourLen
PROOF
  <1>1. HourLen \in Nat /\ HourLen > 0
    BY CheckInAssumption
  <1>2. t % HourLen \in 0..(HourLen - 1) /\ t % HourLen <= t
    BY <1>1
  <1>3. Hour(t) \in Nat /\ Hour(t) <= t /\ t < Hour(t) + HourLen
    BY <1>1, <1>2 DEF Hour
  <1>4. Hour(Hour(t)) = Hour(t)
    BY <1>1 DEF Hour
  <1>5. t >= HourLen => Hour(t) >= HourLen
    BY <1>1 DEF Hour
  <1> QED BY <1>3, <1>4, <1>5

LEMMA TimeFacts ==
  /\ NotAdmitted \notin Times /\ NotAdmitted \in Nat /\ Hour(NotAdmitted) = NotAdmitted
  /\ \A t \in Times : t \in Nat /\ Hour(t) \in Times
  /\ HourLen \in Times /\ HourLen \in Nat
PROOF
  <1>1. HourLen \in Nat /\ HourLen > 0 /\ MaxTime \in Nat /\ MaxTime >= HourLen
    BY CheckInAssumption
  <1>2. ASSUME NEW t \in Times  PROVE t \in Nat /\ Hour(t) \in Times
    <2>1. t \in Nat /\ t >= HourLen /\ t <= MaxTime
      BY <1>1 DEF Times
    <2>2. Hour(t) \in Nat /\ Hour(t) <= t /\ Hour(t) >= HourLen
      BY <2>1, HourFacts
    <2> QED BY <1>1, <2>1, <2>2 DEF Times
  <1>3. Hour(NotAdmitted) = NotAdmitted
    BY <1>1 DEF Hour, NotAdmitted
  <1> QED BY <1>1, <1>2, <1>3 DEF Times, NotAdmitted

----------------------------------------------------------------------------
(* Guests and check-ins.                                                   *)

LEMMA GuestFields ==
  ASSUME NEW x \in GuestRecords
  PROVE  /\ x.status \in Statuses /\ x.erased \in BOOLEAN /\ x.version \in Nat
         /\ x.admitted \in Times \cup {NotAdmitted} /\ x.admitted \in Nat
PROOF
  <1>1. /\ x.status \in Statuses /\ x.erased \in BOOLEAN /\ x.version \in Nat
        /\ x.admitted \in Times \cup {NotAdmitted}
    BY DEF GuestRecords
  <1> QED BY <1>1, TimeFacts

\* Every way of changing a guest's row.
LEMMA AdmittedGuest ==
  ASSUME NEW x \in GuestRecords, NEW at \in Times
  PROVE  /\ Admitted(x, at) \in GuestRecords /\ Admitted(x, at).admitted = at
         /\ Admitted(x, at).version = x.version + 1 /\ Admitted(x, at).status = x.status
         /\ Admitted(x, at).erased = x.erased
PROOF
  <1> DEFINE n == x.version + 1
  <1>1. n \in Nat /\ x.status \in Statuses /\ at \in Times \cup {NotAdmitted}
    BY GuestFields
  <1> DEFINE y == [x EXCEPT !.admitted = at, !.version = n]
  <1>2. Admitted(x, at) = y
    BY DEF Admitted
  <1> HIDE DEF n
  <1>3. /\ y \in GuestRecords /\ y.admitted = at
        /\ y.version = n /\ y.status = x.status
        /\ y.erased = x.erased
    BY <1>1, Zenon DEF GuestRecords
  <1> HIDE DEF y
  <1> QED BY <1>2, <1>3 DEF n

LEMMA OutsideGuest ==
  ASSUME NEW x \in GuestRecords
  PROVE  /\ Outside(x) \in GuestRecords /\ Outside(x).admitted = NotAdmitted
         /\ Outside(x).version = x.version + 1 /\ Outside(x).status = x.status
         /\ Outside(x).erased = x.erased
PROOF
  <1> DEFINE n == x.version + 1
  <1>1. n \in Nat /\ x.status \in Statuses
    BY GuestFields
  <1> DEFINE y == [x EXCEPT !.admitted = NotAdmitted, !.version = n]
  <1>2. Outside(x) = y
    BY DEF Outside
  <1> HIDE DEF n
  <1>3. /\ y \in GuestRecords /\ y.admitted = NotAdmitted
        /\ y.version = n /\ y.status = x.status
        /\ y.erased = x.erased
    BY <1>1, Zenon DEF GuestRecords
  <1> HIDE DEF y
  <1> QED BY <1>2, <1>3 DEF n

LEMMA StatusGuest ==
  ASSUME NEW x \in GuestRecords, NEW status \in Statuses
  PROVE  /\ WithStatus(x, status) \in GuestRecords /\ WithStatus(x, status).admitted = x.admitted
         /\ WithStatus(x, status).version = x.version + 1 /\ WithStatus(x, status).status = status
         /\ WithStatus(x, status).erased = x.erased
PROOF
  <1> DEFINE n == x.version + 1
  <1>1. n \in Nat /\ NotAdmitted \in Times \cup {NotAdmitted}
    BY GuestFields
  <1> DEFINE y == [x EXCEPT !.status = status, !.version = n]
  <1>2. WithStatus(x, status) = y
    BY DEF WithStatus
  <1> HIDE DEF n
  <1>3. /\ y \in GuestRecords /\ y.admitted = x.admitted
        /\ y.version = n /\ y.status = status
        /\ y.erased = x.erased
    BY <1>1, Zenon DEF GuestRecords
  <1> HIDE DEF y
  <1> QED BY <1>2, <1>3 DEF n

LEMMA ErasedGuestIs ==
  ASSUME NEW x \in GuestRecords, NEW archived \in BOOLEAN
  PROVE  LET y == ErasedGuest(x, archived) IN
         /\ y \in GuestRecords /\ y.admitted = Hour(x.admitted) /\ y.version = x.version + 1
         /\ y.erased = TRUE
         /\ Admittable(x.status) \/ y.status = x.status
         /\ x.admitted = NotAdmitted \/ y.status = x.status
PROOF
  <1> DEFINE n == x.version + 1
             at == Hour(x.admitted)
             status == IF x.admitted = NotAdmitted /\ ~archived /\ Admittable(x.status)
                       THEN "cancelled" ELSE x.status
             y == [x EXCEPT !.erased = TRUE, !.version = n, !.admitted = at, !.status = status]
  <1>1. n \in Nat /\ at \in Times \cup {NotAdmitted} /\ status \in Statuses
    BY GuestFields, TimeFacts DEF Statuses
  <1>2. (Admittable(x.status) \/ status = x.status) /\ (x.admitted = NotAdmitted \/ status = x.status)
    OBVIOUS
  <1>3. ErasedGuest(x, archived) = y
    BY DEF ErasedGuest
  <1>4. n = x.version + 1 /\ at = Hour(x.admitted)
    OBVIOUS
  <1> HIDE DEF n, at, status
  <1>5. /\ y \in GuestRecords /\ y.admitted = at /\ y.version = n /\ y.erased = TRUE
        /\ y.status = status
    BY <1>1, Zenon DEF GuestRecords
  <1> HIDE DEF y
  <1> QED BY <1>2, <1>3, <1>4, <1>5

\* The book of check-ins.
ScansType == scans \in Seq(ScanRecords) /\ taken \in [ScanIds -> Nat]

LEMMA BookFacts ==
  ASSUME ScansType
  PROVE  /\ Len(scans) \in Nat /\ ScanIds = 1..Len(scans) /\ scans \in [1..Len(scans) -> ScanRecords]
         /\ \A i \in ScanIds : /\ scans[i] \in ScanRecords /\ scans[i].guest \in Guests
                               /\ scans[i].at \in Times /\ scans[i].made \in Times
                               /\ i \in Nat
         /\ \A g : ScansOf(g) \subseteq ScanIds
         /\ \A d : ScansOn(d) \subseteq ScanIds
PROOF
  <1>1. /\ Len(scans) \in Nat /\ ScanIds = 1..Len(scans) /\ scans \in [1..Len(scans) -> ScanRecords]
    BY LenProperties DEF ScansType, ScanIds
  <1>2. \A i \in ScanIds : scans[i] \in ScanRecords
    BY <1>1
  <1> QED BY <1>1, <1>2 DEF ScanRecords, ScansOf, ScansOn

LEMMA AppendBook ==
  ASSUME ScansType, NEW x \in ScanRecords, scans' = Append(scans, x), taken' = Append(taken, 0)
  PROVE  LET n == Len(scans) + 1 IN
         /\ ScansType' /\ ScanIds' = ScanIds \cup {n} /\ n \notin ScanIds
         /\ scans'[n] = x /\ taken'[n] = 0
         /\ \A i \in ScanIds : scans'[i] = scans[i] /\ taken'[i] = taken[i]
PROOF
  <1> DEFINE n == Len(scans) + 1
  <1>1. Len(scans) \in Nat /\ ScanIds = 1..Len(scans)
    BY BookFacts
  <1>2. taken \in Seq(Nat) /\ Len(taken) = Len(scans)
    <2>1. taken \in [1..Len(scans) -> Nat]
      BY <1>1 DEF ScansType
    <2> QED BY <1>1, <2>1
  <1>3. /\ scans' \in Seq(ScanRecords) /\ Len(scans') = n /\ scans'[n] = x
        /\ \A i \in ScanIds : scans'[i] = scans[i]
    BY <1>1, AppendProperties DEF ScansType
  <1>4. /\ taken' \in Seq(Nat) /\ Len(taken') = n /\ taken'[n] = 0
        /\ \A i \in ScanIds : taken'[i] = taken[i]
    BY <1>1, <1>2, AppendProperties
  <1>5. DOMAIN scans' = 1..n /\ taken' \in [1..n -> Nat]
    BY <1>3, <1>4, LenProperties
  <1> QED BY <1>1, <1>3, <1>4, <1>5 DEF ScansType, ScanIds

LEMMA CutBook ==
  ASSUME ScansType, NEW g,
         scans' = [i \in ScanIds |-> IF scans[i].guest = g THEN [scans[i] EXCEPT !.at = Hour(@)]
                                     ELSE scans[i]],
         UNCHANGED taken
  PROVE  /\ ScansType' /\ ScanIds' = ScanIds
         /\ \A i \in ScanIds :
              /\ scans'[i].guest = scans[i].guest /\ scans'[i].made = scans[i].made
              /\ scans'[i].device = scans[i].device
              /\ scans'[i].at = IF scans[i].guest = g THEN Hour(scans[i].at) ELSE scans[i].at
PROOF
  <1>1. Len(scans) \in Nat /\ ScanIds = 1..Len(scans) /\ DOMAIN scans' = ScanIds
    BY BookFacts
  <1>2. ASSUME NEW i \in ScanIds
        PROVE  /\ scans'[i] \in ScanRecords
               /\ scans'[i].guest = scans[i].guest /\ scans'[i].made = scans[i].made
               /\ scans'[i].device = scans[i].device
               /\ scans'[i].at = IF scans[i].guest = g THEN Hour(scans[i].at) ELSE scans[i].at
    <2>1. scans[i] \in ScanRecords /\ scans[i].at \in Times
      BY BookFacts
    <2>2. CASE scans[i].guest = g
      <3> DEFINE at == Hour(scans[i].at)
                 y == [scans[i] EXCEPT !.at = at]
      <3>1. scans'[i] = y /\ at \in Times
        BY <2>1, <2>2, TimeFacts
      <3>2. at = Hour(scans[i].at)
        OBVIOUS
      <3> HIDE DEF at
      <3>3. /\ y \in ScanRecords /\ y.guest = scans[i].guest /\ y.made = scans[i].made
            /\ y.device = scans[i].device /\ y.at = at
        BY <2>1, <3>1, Zenon DEF ScanRecords
      <3> HIDE DEF y
      <3> QED BY <2>2, <3>1, <3>2, <3>3
    <2>3. CASE scans[i].guest # g
      BY <2>1, <2>3
    <2> QED BY <2>2, <2>3
  <1>3. scans' \in [1..Len(scans) -> ScanRecords]
    BY <1>1, <1>2
  <1>4. scans' \in Seq(ScanRecords)
    BY <1>1, <1>3, SeqDef
  <1> QED BY <1>1, <1>2, <1>4 DEF ScansType, ScanIds

----------------------------------------------------------------------------
(* The invariant.                                                          *)

\* Until a guest is erased, the check-ins taken back are those the log names.
Marked == \A i \in ScanIds : ~guest[scans[i].guest].erased => (i \in reversed <=> taken[i] > 0)
\* A check-in's time is the true one until its guest is erased, then its hour.
Cut == \A i \in ScanIds :
  /\ scans[i].at = scans[i].made \/ scans[i].at = Hour(scans[i].made)
  /\ ~guest[scans[i].guest].erased => scans[i].at = scans[i].made
Blurred == \A g \in Guests : guest[g].erased =>
  /\ guest[g].admitted = Hour(guest[g].admitted)
  /\ \A i \in ScansOf(g) : scans[i].at = Hour(scans[i].at) /\ i \notin reversed
BadgeOk == \A g \in Guests :
  /\ ~guest[g].erased => ledger[g] = IF badge[g] \in HandedOut THEN 1 ELSE 0
  /\ guest[g].erased => ledger[g] = 0 /\ \A i \in ScansOf(g) : i \notin autoIssue
\* What a request in progress knows.
TaskOk(s, x) ==
  /\ x.kind = "undo" =>
       /\ s \in Devices /\ x.scan \in ScansOn(s)
       /\ \A j \in ScansOn(s) : scans[j].at <= x.at
       /\ ~guest[scans[x.scan].guest].erased => scans[x.scan].at = x.at
  /\ x.kind = "edit" =>
       /\ x.read.version <= guest[x.guest].version
       /\ x.read.version = guest[x.guest].version => x.read = guest[x.guest]
  /\ x.kind \in {"admit", "item"} => ~guest[x.guest].erased

GuestType == guest \in [Guests -> GuestRecords]
BadgeType == /\ badge \in [Guests -> BadgeStates] /\ ledger \in [Guests -> Int]
             /\ issuer \in [Guests -> Nat]
Book == /\ GuestType /\ ScansType /\ reversed \subseteq ScanIds
        /\ AdmissionHolds /\ Marked /\ Cut /\ Blurred
Badges == BadgeType /\ autoIssue \subseteq ScanIds /\ BadgeOk
TasksOk == task \in [Stations -> Tasks] /\ \A s \in Stations : TaskOk(s, task[s])

IInv == Book /\ Badges /\ TasksOk /\ clock \in Times

----------------------------------------------------------------------------
(* All a step may do to the book.                                          *)

SameBook == UNCHANGED <<guest, scans, reversed, taken>>

\* A guest comes in by a new check-in.
Comes(g, at, d) ==
  /\ ~guest[g].erased /\ StillOutside(g)
  /\ guest' = [guest EXCEPT ![g] = Admitted(guest[g], at)]
  /\ scans' = Append(scans, [guest |-> g, at |-> at, made |-> at, device |-> d])
  /\ taken' = Append(taken, 0) /\ UNCHANGED reversed

\* A guest is outside, the check-in that let them in is taken back.
Goes(g, x) ==
  /\ ~guest[g].erased /\ UNCHANGED scans
  /\ x \in GuestRecords /\ ~x.erased /\ x.admitted = NotAdmitted
  /\ x.version > guest[g].version
  /\ guest' = [guest EXCEPT ![g] = x]
  /\ \/ guest[g].admitted = NotAdmitted /\ UNCHANGED <<reversed, taken>>
     \/ \E i \in ScansOf(g) : taken[i] = 0 /\ Reverse(i)

\* A guest is erased.
Clears(g, archived) ==
  /\ guest' = [guest EXCEPT ![g] = ErasedGuest(guest[g], archived)]
  /\ scans' = [i \in ScanIds |->
                 IF scans[i].guest = g THEN [scans[i] EXCEPT !.at = Hour(@)] ELSE scans[i]]
  /\ reversed' = reversed \ ScansOf(g)
  /\ UNCHANGED taken

\* Guests and check-ins, as the invariant speaks of them, in the next state.
LEMMA BookPrimed ==
  ASSUME NEW ids, ScanIds' = ids,
         \A g \in Guests :
           LET open == {i \in ids : scans'[i].guest = g /\ taken'[i] = 0} IN
           /\ IF guest'[g].admitted = NotAdmitted THEN open = {}
              ELSE \E i \in open : open = {i} /\ scans'[i].at = guest'[g].admitted
           /\ ~Admittable(guest'[g].status) => guest'[g].admitted = NotAdmitted
           /\ guest'[g].erased => guest'[g].admitted = Hour(guest'[g].admitted),
         \A i \in ids :
           /\ taken'[i] <= 1
           /\ ~guest'[scans'[i].guest].erased =>
                /\ i \in reversed' <=> taken'[i] > 0
                /\ scans'[i].at = scans'[i].made
           /\ scans'[i].at = scans'[i].made \/ scans'[i].at = Hour(scans'[i].made)
           /\ guest'[scans'[i].guest].erased => scans'[i].at = Hour(scans'[i].at) /\ i \notin reversed'
  PROVE  (AdmissionHolds /\ Marked /\ Cut /\ Blurred)'
PROOF
  <1>1. StandingAdmission'
    <2>1. ASSUME NEW g \in Guests
          PROVE  LET open == {i \in ScanIds' : scans'[i].guest = g /\ taken'[i] = 0} IN
                 {i \in ScansOf(g)' : taken'[i] = 0} = open
      BY DEF ScansOf, ScanIds
    <2> QED BY <2>1 DEF StandingAdmission, ScansOf, ScanIds
  <1>2. NoBlockedAdmission'
    BY DEF NoBlockedAdmission, Admittable
  <1>3. Marked' /\ Cut'
    BY DEF Marked, Cut, Hour
  <1>4. Blurred'
    BY DEF Blurred, ScansOf, ScanIds, Hour
  <1> QED BY <1>1, <1>2, <1>3, <1>4 DEF AdmissionHolds

\* What it says of one guest, and of one check-in.
LEMMA BookOf ==
  ASSUME Book, NEW g \in Guests
  PROVE  LET open == {i \in ScanIds : scans[i].guest = g /\ taken[i] = 0} IN
         /\ guest[g] \in GuestRecords
         /\ IF guest[g].admitted = NotAdmitted THEN open = {}
            ELSE \E i \in open : open = {i} /\ scans[i].at = guest[g].admitted
         /\ ~Admittable(guest[g].status) => guest[g].admitted = NotAdmitted
         /\ guest[g].erased => guest[g].admitted = Hour(guest[g].admitted)
PROOF
  <1>1. {i \in ScansOf(g) : taken[i] = 0} = {i \in ScanIds : scans[i].guest = g /\ taken[i] = 0}
    BY DEF ScansOf
  <1> QED BY <1>1 DEF Book, GuestType, AdmissionHolds, StandingAdmission, NoBlockedAdmission, Blurred

LEMMA BookAt ==
  ASSUME Book, NEW i \in ScanIds
  PROVE  /\ taken[i] \in Nat /\ taken[i] <= 1
         /\ scans[i].guest \in Guests /\ scans[i].at \in Times /\ scans[i].made \in Times
         /\ ~guest[scans[i].guest].erased =>
              /\ i \in reversed <=> taken[i] > 0
              /\ scans[i].at = scans[i].made
         /\ scans[i].at = scans[i].made \/ scans[i].at = Hour(scans[i].made)
         /\ guest[scans[i].guest].erased => scans[i].at = Hour(scans[i].at) /\ i \notin reversed
PROOF
  <1>1. ScansType
    BY DEF Book
  <1>2. scans[i].guest \in Guests /\ scans[i].at \in Times /\ scans[i].made \in Times
    BY <1>1, BookFacts
  <1>3. taken[i] \in Nat /\ taken[i] <= 1
    BY <1>1 DEF ScansType, Book, AdmissionHolds, StandingAdmission
  <1>4. i \in ScansOf(scans[i].guest)
    BY DEF ScansOf
  <1> QED BY <1>2, <1>3, <1>4 DEF Book, Marked, Cut, Blurred

LEMMA SameKeeps == ASSUME Book, SameBook  PROVE Book'
PROOF
  BY DEF Book, SameBook, GuestType, ScansType, ScanIds, AdmissionHolds, StandingAdmission,
         NoBlockedAdmission, Admittable, Marked, Cut, Blurred, ScansOf, Hour

LEMMA ComesKeeps ==
  ASSUME Book, NEW g \in Guests, NEW at \in Times, NEW d \in Devices \cup {NoDevice}, Comes(g, at, d)
  PROVE  Book'
PROOF
  <1> DEFINE n == Len(scans) + 1
             x == [guest |-> g, at |-> at, made |-> at, device |-> d]
             y == Admitted(guest[g], at)
             ids == ScanIds \cup {n}
  <1>1. guest[g] \in GuestRecords /\ guest[g].admitted = NotAdmitted /\ Admittable(guest[g].status)
        /\ ~guest[g].erased
    BY DEF Comes, StillOutside, Book, GuestType
  <1>2. /\ y \in GuestRecords /\ y.admitted = at /\ y.status = guest[g].status /\ ~y.erased
    BY <1>1, AdmittedGuest
  <1>3. /\ x \in ScanRecords /\ x.guest = g /\ x.at = at /\ x.made = at
    BY DEF ScanRecords
  <1>4. scans' = Append(scans, x) /\ taken' = Append(taken, 0) /\ reversed' = reversed
        /\ guest' = [guest EXCEPT ![g] = y]
    BY DEF Comes
  <1>5. ScansType /\ reversed \subseteq ScanIds
    BY DEF Book
  <1> HIDE DEF x, y
  <1>6. /\ ScansType' /\ ScanIds' = ids /\ n \notin ScanIds
        /\ scans'[n] = x /\ taken'[n] = 0
        /\ \A i \in ScanIds : scans'[i] = scans[i] /\ taken'[i] = taken[i]
    BY <1>3, <1>4, <1>5, AppendBook
  <1>7. /\ GuestType' /\ \A h \in Guests : guest'[h] = IF h = g THEN y ELSE guest[h]
    BY <1>2, <1>4 DEF Book, GuestType
  <1> HIDE DEF n
  <1>8. ASSUME NEW h \in Guests
        PROVE  LET open == {i \in ids : scans'[i].guest = h /\ taken'[i] = 0} IN
               /\ IF guest'[h].admitted = NotAdmitted THEN open = {}
                  ELSE \E i \in open : open = {i} /\ scans'[i].at = guest'[h].admitted
               /\ ~Admittable(guest'[h].status) => guest'[h].admitted = NotAdmitted
               /\ guest'[h].erased => guest'[h].admitted = Hour(guest'[h].admitted)
    <2> DEFINE open == {i \in ids : scans'[i].guest = h /\ taken'[i] = 0}
               was == {i \in ScanIds : scans[i].guest = h /\ taken[i] = 0}
    <2>1. /\ IF guest[h].admitted = NotAdmitted THEN was = {}
             ELSE \E i \in was : was = {i} /\ scans[i].at = guest[h].admitted
          /\ ~Admittable(guest[h].status) => guest[h].admitted = NotAdmitted
          /\ guest[h].erased => guest[h].admitted = Hour(guest[h].admitted)
      BY BookOf
    <2>2. CASE h = g
      <3>1. was = {} /\ open = {n}
        BY <1>1, <1>3, <1>6, <2>1, <2>2
      <3> QED BY <1>1, <1>2, <1>3, <1>6, <1>7, <2>2, <3>1, TimeFacts
    <2>3. CASE h # g
      <3>1. open = was
        BY <1>3, <1>6, <2>3
      <3>2. guest'[h] = guest[h] /\ \A i \in was : scans'[i] = scans[i]
        BY <1>6, <1>7, <2>3
      <3> HIDE DEF open, was
      <3>3. IF guest'[h].admitted = NotAdmitted THEN open = {}
            ELSE \E i \in open : open = {i} /\ scans'[i].at = guest'[h].admitted
        BY <2>1, <3>1, <3>2
      <3> QED BY <2>1, <3>2, <3>3 DEF open
    <2> QED BY <2>2, <2>3
  <1>9. ASSUME NEW i \in ids
        PROVE  /\ taken'[i] <= 1
               /\ ~guest'[scans'[i].guest].erased =>
                    /\ i \in reversed' <=> taken'[i] > 0
                    /\ scans'[i].at = scans'[i].made
               /\ scans'[i].at = scans'[i].made \/ scans'[i].at = Hour(scans'[i].made)
               /\ guest'[scans'[i].guest].erased =>
                    scans'[i].at = Hour(scans'[i].at) /\ i \notin reversed'
    <2>1. CASE i = n
      <3>1. scans'[i].guest = g /\ scans'[i].at = scans'[i].made /\ taken'[i] = 0
        BY <1>3, <1>6, <2>1
      <3>2. ~guest'[g].erased /\ i \notin reversed'
        BY <1>2, <1>4, <1>5, <1>6, <1>7, <2>1
      <3> QED BY <3>1, <3>2
    <2>2. CASE i \in ScanIds
      <3>1. scans'[i] = scans[i] /\ taken'[i] = taken[i] /\ scans[i].guest \in Guests
        BY <1>6, <2>2, BookAt
      <3>2. guest'[scans[i].guest].erased <=> guest[scans[i].guest].erased
        BY <1>1, <1>2, <1>7, <3>1
      <3> QED BY <1>4, <2>2, <3>1, <3>2, BookAt
    <2> QED BY <2>1, <2>2
  <1>10. (AdmissionHolds /\ Marked /\ Cut /\ Blurred)'
    <2> HIDE DEF ids
    <2> QED BY <1>6, <1>8, <1>9, BookPrimed
  <1> QED BY <1>4, <1>5, <1>6, <1>7, <1>10 DEF Book

LEMMA GoesKeeps ==
  ASSUME Book, NEW g \in Guests, NEW x, Goes(g, x)
  PROVE  Book'
PROOF
  <1>1. /\ x \in GuestRecords /\ ~x.erased /\ x.admitted = NotAdmitted
        /\ scans' = scans /\ ~guest[g].erased
    BY DEF Goes
  <1>2. GuestType' /\ \A h \in Guests : guest'[h] = IF h = g THEN x ELSE guest[h]
    BY DEF Goes, Book, GuestType
  <1>3. ScanIds' = ScanIds /\ ScansType /\ reversed \subseteq ScanIds
    BY <1>1 DEF ScanIds, Book
  \* What is left standing of the guest's check-ins.
  <1>4. /\ ScansType' /\ reversed' \subseteq ScanIds
        /\ \A i \in ScanIds :
             /\ scans[i].guest = g => i \in reversed' /\ taken'[i] = 1
             /\ scans[i].guest # g => (i \in reversed' <=> i \in reversed) /\ taken'[i] = taken[i]
    <2>1. CASE guest[g].admitted = NotAdmitted /\ UNCHANGED <<reversed, taken>>
      <3>1. {i \in ScanIds : scans[i].guest = g /\ taken[i] = 0} = {}
        BY <2>1, BookOf
      <3>2. ASSUME NEW i \in ScanIds, scans[i].guest = g  PROVE i \in reversed /\ taken[i] = 1
        BY <1>1, <3>1, <3>2, BookAt
      <3> QED BY <1>1, <1>3, <2>1, <3>2 DEF ScansType, ScanIds
    <2>2. CASE \E i \in ScansOf(g) : taken[i] = 0 /\ Reverse(i)
      <3>1. PICK k \in ScanIds : scans[k].guest = g /\ taken[k] = 0 /\ Reverse(k)
        BY <2>2 DEF ScansOf
      <3>2. \A i \in ScanIds : scans[i].guest = g /\ taken[i] = 0 => i = k
        BY <3>1, BookOf
      <3>3. taken' \in [ScanIds -> Nat] /\ \A i \in ScanIds : taken'[i] = IF i = k THEN 1 ELSE taken[i]
        BY <1>3, <3>1 DEF Reverse, ScansType
      <3>4. reversed' = reversed \cup {k}
        BY <3>1 DEF Reverse
      <3>5. ASSUME NEW i \in ScanIds, scans[i].guest = g, i # k  PROVE i \in reversed /\ taken[i] = 1
        BY <1>1, <3>2, <3>5, BookAt
      <3> QED BY <1>1, <1>3, <3>1, <3>3, <3>4, <3>5 DEF ScansType, ScanIds
    <2> QED BY <2>1, <2>2 DEF Goes
  <1>5. ASSUME NEW h \in Guests
        PROVE  LET open == {i \in ScanIds : scans'[i].guest = h /\ taken'[i] = 0} IN
               /\ IF guest'[h].admitted = NotAdmitted THEN open = {}
                  ELSE \E i \in open : open = {i} /\ scans'[i].at = guest'[h].admitted
               /\ ~Admittable(guest'[h].status) => guest'[h].admitted = NotAdmitted
               /\ guest'[h].erased => guest'[h].admitted = Hour(guest'[h].admitted)
    <2> DEFINE open == {i \in ScanIds : scans'[i].guest = h /\ taken'[i] = 0}
               was == {i \in ScanIds : scans[i].guest = h /\ taken[i] = 0}
    <2>1. /\ IF guest[h].admitted = NotAdmitted THEN was = {}
             ELSE \E i \in was : was = {i} /\ scans[i].at = guest[h].admitted
          /\ ~Admittable(guest[h].status) => guest[h].admitted = NotAdmitted
          /\ guest[h].erased => guest[h].admitted = Hour(guest[h].admitted)
      BY BookOf
    <2>2. CASE h = g
      <3>1. open = {}
        BY <1>1, <1>4, <2>2
      <3> QED BY <1>1, <1>2, <2>2, <3>1
    <2>3. CASE h # g
      <3>1. open = was
        BY <1>1, <1>4, <2>3
      <3>2. guest'[h] = guest[h] /\ scans' = scans
        BY <1>1, <1>2, <2>3
      <3> HIDE DEF open, was
      <3>3. IF guest'[h].admitted = NotAdmitted THEN open = {}
            ELSE \E i \in open : open = {i} /\ scans'[i].at = guest'[h].admitted
        BY <2>1, <3>1, <3>2
      <3> QED BY <2>1, <3>2, <3>3 DEF open
    <2> QED BY <2>2, <2>3
  <1>6. ASSUME NEW i \in ScanIds
        PROVE  /\ taken'[i] <= 1
               /\ ~guest'[scans'[i].guest].erased =>
                    /\ i \in reversed' <=> taken'[i] > 0
                    /\ scans'[i].at = scans'[i].made
               /\ scans'[i].at = scans'[i].made \/ scans'[i].at = Hour(scans'[i].made)
               /\ guest'[scans'[i].guest].erased =>
                    scans'[i].at = Hour(scans'[i].at) /\ i \notin reversed'
    <2>1. scans[i].guest \in Guests /\ scans' = scans
      BY <1>1, BookAt
    <2>2. guest'[scans[i].guest].erased <=> guest[scans[i].guest].erased
      BY <1>1, <1>2, <2>1
    <2>3. CASE scans[i].guest = g
      BY <1>1, <1>4, <2>1, <2>2, <2>3, BookAt
    <2>4. CASE scans[i].guest # g
      BY <1>4, <2>1, <2>2, <2>4, BookAt
    <2> QED BY <2>3, <2>4
  <1>7. (AdmissionHolds /\ Marked /\ Cut /\ Blurred)'
    BY <1>3, <1>5, <1>6, BookPrimed
  <1> QED BY <1>2, <1>3, <1>4, <1>7 DEF Book

LEMMA ClearsKeeps ==
  ASSUME Book, NEW g \in Guests, NEW archived \in BOOLEAN, Clears(g, archived)
  PROVE  Book'
PROOF
  <1> DEFINE y == ErasedGuest(guest[g], archived)
  <1>1. guest[g] \in GuestRecords /\ ScansType /\ reversed \subseteq ScanIds
    BY DEF Book, GuestType
  <1>2. /\ y \in GuestRecords /\ y.admitted = Hour(guest[g].admitted) /\ y.erased
        /\ Admittable(guest[g].status) \/ y.status = guest[g].status
        /\ guest[g].admitted = NotAdmitted \/ y.status = guest[g].status
    BY <1>1, ErasedGuestIs
  <1>3. guest' = [guest EXCEPT ![g] = y] /\ taken' = taken
    BY DEF Clears
  <1>4. reversed' = {i \in reversed : scans[i].guest # g}
    BY <1>1 DEF Clears, ScansOf
  <1> HIDE DEF y
  <1>5. GuestType' /\ \A h \in Guests : guest'[h] = IF h = g THEN y ELSE guest[h]
    BY <1>2, <1>3, SMTT(30) DEF Book, GuestType
  <1>6. /\ ScansType' /\ ScanIds' = ScanIds
        /\ \A i \in ScanIds :
             /\ scans'[i].guest = scans[i].guest /\ scans'[i].made = scans[i].made
             /\ scans'[i].at = IF scans[i].guest = g THEN Hour(scans[i].at) ELSE scans[i].at
    <2>1. scans' = [i \in ScanIds |-> IF scans[i].guest = g THEN [scans[i] EXCEPT !.at = Hour(@)]
                                      ELSE scans[i]]
      BY Zenon DEF Clears
    <2>2. ScansType /\ UNCHANGED taken
      BY <1>1, <1>3
    <2>3. /\ ScansType' /\ ScanIds' = ScanIds
          /\ \A i \in ScanIds :
               /\ scans'[i].guest = scans[i].guest /\ scans'[i].made = scans[i].made
               /\ scans'[i].device = scans[i].device
               /\ scans'[i].at = IF scans[i].guest = g THEN Hour(scans[i].at) ELSE scans[i].at
      BY <2>1, <2>2, CutBook, Zenon
    <2> QED BY <2>3
  <1>7. ASSUME NEW h \in Guests
        PROVE  LET open == {i \in ScanIds : scans'[i].guest = h /\ taken'[i] = 0} IN
               /\ IF guest'[h].admitted = NotAdmitted THEN open = {}
                  ELSE \E i \in open : open = {i} /\ scans'[i].at = guest'[h].admitted
               /\ ~Admittable(guest'[h].status) => guest'[h].admitted = NotAdmitted
               /\ guest'[h].erased => guest'[h].admitted = Hour(guest'[h].admitted)
    <2> DEFINE open == {i \in ScanIds : scans'[i].guest = h /\ taken'[i] = 0}
               was == {i \in ScanIds : scans[i].guest = h /\ taken[i] = 0}
    <2>1. /\ IF guest[h].admitted = NotAdmitted THEN was = {}
             ELSE \E i \in was : was = {i} /\ scans[i].at = guest[h].admitted
          /\ ~Admittable(guest[h].status) => guest[h].admitted = NotAdmitted
          /\ guest[h].erased => guest[h].admitted = Hour(guest[h].admitted)
      BY BookOf
    <2>2. open = was
      BY <1>3, <1>6
    <2>3. \A i \in was : scans'[i].at = IF h = g THEN Hour(scans[i].at) ELSE scans[i].at
      BY <1>6
    <2> HIDE DEF open, was
    <2>4. CASE h = g
      <3>1. /\ guest[g].admitted = NotAdmitted => y.admitted = NotAdmitted
            /\ guest[g].admitted # NotAdmitted => y.admitted # NotAdmitted
            /\ y.admitted = Hour(y.admitted)
        BY <1>1, <1>2, GuestFields, TimeFacts, HourFacts
      <3>2. IF guest'[h].admitted = NotAdmitted THEN open = {}
            ELSE \E i \in open : open = {i} /\ scans'[i].at = guest'[h].admitted
        BY <1>2, <1>5, <2>1, <2>2, <2>3, <2>4, <3>1
      <3>3. ~Admittable(y.status) => y.admitted = NotAdmitted
        BY <1>2, <2>1, <2>4, <3>1
      <3> QED BY <1>5, <2>4, <3>1, <3>2, <3>3 DEF open
    <2>5. CASE h # g
      <3>1. IF guest'[h].admitted = NotAdmitted THEN open = {}
            ELSE \E i \in open : open = {i} /\ scans'[i].at = guest'[h].admitted
        BY <1>5, <2>1, <2>2, <2>3, <2>5
      <3> QED BY <1>5, <2>1, <2>5, <3>1 DEF open
    <2> QED BY <2>4, <2>5
  <1>8. ASSUME NEW i \in ScanIds
        PROVE  /\ taken'[i] <= 1
               /\ ~guest'[scans'[i].guest].erased =>
                    /\ i \in reversed' <=> taken'[i] > 0
                    /\ scans'[i].at = scans'[i].made
               /\ scans'[i].at = scans'[i].made \/ scans'[i].at = Hour(scans'[i].made)
               /\ guest'[scans'[i].guest].erased =>
                    scans'[i].at = Hour(scans'[i].at) /\ i \notin reversed'
    <2>1. /\ scans[i].guest \in Guests /\ scans'[i].guest = scans[i].guest
          /\ scans[i].at \in Nat /\ scans[i].made \in Nat
      BY <1>6, BookAt, TimeFacts
    <2>2. CASE scans[i].guest = g
      <3>1. guest'[scans'[i].guest].erased /\ i \notin reversed'
        BY <1>2, <1>4, <1>5, <2>1, <2>2
      <3>2. scans'[i].at = Hour(scans[i].made) /\ scans'[i].at = Hour(scans'[i].at)
        BY <1>6, <2>1, <2>2, BookAt, HourFacts
      <3> QED BY <1>3, <1>6, <3>1, <3>2, BookAt
    <2>3. CASE scans[i].guest # g
      <3>1. guest'[scans'[i].guest] = guest[scans[i].guest] /\ (i \in reversed' <=> i \in reversed)
        BY <1>4, <1>5, <2>1, <2>3
      <3> QED BY <1>3, <1>6, <2>3, <3>1, BookAt
    <2> QED BY <2>2, <2>3
  <1>9. (AdmissionHolds /\ Marked /\ Cut /\ Blurred)'
    BY <1>6, <1>7, <1>8, BookPrimed
  <1> QED BY <1>1, <1>4, <1>5, <1>6, <1>9 DEF Book

----------------------------------------------------------------------------
(* What a request in progress knows stays true.                            *)

LEMMA TaskFields ==
  ASSUME NEW x \in Tasks
  PROVE  /\ x.kind = "admit" => x.guest \in Guests /\ x.at \in Times
         /\ x.kind = "undo" => x.scan \in Nat /\ x.at \in Times
         /\ x.kind = "edit" => x.guest \in Guests /\ x.read \in GuestRecords
         /\ x.kind = "item" => x.guest \in Guests /\ x.from \in BadgeStates
PROOF
  <1>1. CASE x = Idle
    BY <1>1 DEF Idle
  <1>2. CASE x \in [kind : {"admit"}, guest : Guests, at : Times]
    BY <1>2
  <1>3. CASE x \in [kind : {"undo"}, scan : Nat, at : Times]
    BY <1>3
  <1>4. CASE x \in [kind : {"edit"}, guest : Guests, read : GuestRecords]
    BY <1>4
  <1>5. CASE x \in [kind : {"item"}, guest : Guests, from : BadgeStates]
    BY <1>5
  <1> QED BY <1>1, <1>2, <1>3, <1>4, <1>5 DEF Tasks

GuestMoves == \A g \in Guests :
  /\ guest[g].version <= guest'[g].version
  /\ guest[g].version = guest'[g].version => guest'[g] = guest[g]
ScansMove(s) ==
  /\ ScansOn(s)' = ScansOn(s)
  /\ \A i \in ScansOn(s) :
       /\ scans'[i].guest = scans[i].guest /\ scans'[i].at <= scans[i].at
       /\ ~guest'[scans[i].guest].erased =>
            scans'[i].at = scans[i].at /\ ~guest[scans[i].guest].erased
Spared(x) == x.kind \in {"admit", "item"} => (guest'[x.guest].erased => guest[x.guest].erased)

LEMMA TaskMoves ==
  ASSUME Book, Book', NEW s \in Stations, NEW x \in Tasks, task'[s] = x, TaskOk(s, x),
         GuestMoves, x.kind = "undo" => ScansMove(s), Spared(x)
  PROVE  TaskOk(s, task[s])'
PROOF
  <1>0. ScansType /\ ScansType'
    BY DEF Book
  <1>1. x.kind = "undo" => /\ s \in Devices /\ x.scan \in ScansOn(s)'
                           /\ \A j \in ScansOn(s)' : scans'[j].at <= x.at
                           /\ ~guest'[scans'[x.scan].guest].erased => scans'[x.scan].at = x.at
    <2> SUFFICES ASSUME x.kind = "undo"
                 PROVE  /\ s \in Devices /\ x.scan \in ScansOn(s)'
                        /\ \A j \in ScansOn(s)' : scans'[j].at <= x.at
                        /\ ~guest'[scans'[x.scan].guest].erased => scans'[x.scan].at = x.at
      OBVIOUS
    <2>1. /\ s \in Devices /\ x.scan \in ScansOn(s) /\ x.at \in Nat
          /\ \A j \in ScansOn(s) : scans[j].at <= x.at
          /\ ~guest[scans[x.scan].guest].erased => scans[x.scan].at = x.at
      BY TaskFields, TimeFacts DEF TaskOk
    <2>2. ASSUME NEW j \in ScansOn(s)  PROVE scans'[j].at <= x.at
      <3>1. scans[j].at \in Nat /\ j \in ScanIds
        BY <1>0, BookFacts, TimeFacts
      <3>2. scans'[j].at \in Nat
        <4>1. j \in ScanIds'
          BY <2>2 DEF ScansMove, ScansOn, ScanIds
        <4>2. scans' \in Seq(ScanRecords)
          BY <1>0 DEF ScansType
        <4>3. scans'[j] \in ScanRecords
          BY <4>1, <4>2, LenProperties DEF ScanIds
        <4> QED BY <4>3, TimeFacts DEF ScanRecords
      <3> QED BY <2>1, <3>1, <3>2 DEF ScansMove
    <2> QED BY <2>1, <2>2 DEF ScansMove
  <1>2. x.kind = "edit" => /\ x.read.version <= guest'[x.guest].version
                           /\ x.read.version = guest'[x.guest].version => x.read = guest'[x.guest]
    <2> SUFFICES ASSUME x.kind = "edit"
                 PROVE  /\ x.read.version <= guest'[x.guest].version
                        /\ x.read.version = guest'[x.guest].version => x.read = guest'[x.guest]
      OBVIOUS
    <2>1. x.guest \in Guests /\ x.read.version \in Nat
      BY TaskFields, GuestFields
    <2>2. guest[x.guest].version \in Nat /\ guest'[x.guest].version \in Nat
      BY <2>1, GuestFields DEF Book, GuestType
    <2> QED BY <2>1, <2>2 DEF TaskOk, GuestMoves
  <1>3. x.kind \in {"admit", "item"} => ~guest'[x.guest].erased
    BY DEF TaskOk, Spared
  <1> QED BY <1>1, <1>2, <1>3 DEF TaskOk

LEMMA SameTask ==
  ASSUME Book, Book', SameBook, NEW s \in Stations, NEW x \in Tasks, task'[s] = x, TaskOk(s, x)
  PROVE  TaskOk(s, task[s])'
PROOF
  <1>1. GuestMoves
    <2>1. \A g \in Guests : guest[g].version \in Nat
      BY GuestFields DEF Book, GuestType
    <2> QED BY <2>1 DEF GuestMoves, SameBook
  <1>2. ScansMove(s)
    <2>1. ScansOn(s)' = ScansOn(s)
      BY DEF SameBook, ScansOn, ScanIds
    <2>2. \A i \in ScansOn(s) : scans[i].at \in Nat
      BY BookFacts, TimeFacts DEF Book
    <2> QED BY <2>1, <2>2 DEF ScansMove, SameBook
  <1>3. Spared(x)
    BY DEF Spared, SameBook
  <1> QED BY <1>1, <1>2, <1>3, TaskMoves

LEMMA ComesTask ==
  ASSUME Book, Book', NEW g \in Guests, NEW at \in Times, NEW d \in Devices \cup {NoDevice},
         Comes(g, at, d), NEW s \in Stations, s \in Devices => s # d,
         NEW x \in Tasks, task'[s] = x, TaskOk(s, x)
  PROVE  TaskOk(s, task[s])'
PROOF
  <1> DEFINE row == [guest |-> g, at |-> at, made |-> at, device |-> d]
  <1>0. GuestType /\ ScansType /\ guest[g] \in GuestRecords
    BY DEF Book, GuestType
  <1>1. /\ Admitted(guest[g], at).version = guest[g].version + 1
        /\ Admitted(guest[g], at).erased = guest[g].erased
    BY <1>0, AdmittedGuest
  <1>2. \A h \in Guests : guest'[h] = IF h = g THEN Admitted(guest[g], at) ELSE guest[h]
    BY <1>0 DEF Comes, GuestType
  <1>3. GuestMoves
    <2>1. \A h \in Guests : guest[h].version \in Nat
      BY <1>0, GuestFields DEF GuestType
    <2> QED BY <1>1, <1>2, <2>1 DEF GuestMoves
  <1>4. Spared(x)
    BY <1>1, <1>2, TaskFields DEF Spared
  <1>5. /\ ScanIds' = ScanIds \cup {Len(scans) + 1}
        /\ scans'[Len(scans) + 1].device = d
        /\ \A i \in ScanIds : scans'[i] = scans[i]
    <2>1. row \in ScanRecords /\ row.device = d
      BY DEF ScanRecords
    <2>2. scans' = Append(scans, row) /\ taken' = Append(taken, 0)
      BY DEF Comes
    <2> HIDE DEF row
    <2> QED BY <1>0, <2>1, <2>2, AppendBook
  <1>6. x.kind = "undo" => ScansMove(s)
    <2> SUFFICES ASSUME s # d  PROVE ScansMove(s)
      BY DEF TaskOk
    <2>1. ScansOn(s)' = ScansOn(s)
      BY <1>5 DEF ScansOn, ScanIds
    <2>2. \A i \in ScansOn(s) : scans[i].at \in Nat /\ scans'[i] = scans[i] /\ scans[i].guest \in Guests
      BY <1>0, <1>5, BookFacts, TimeFacts DEF ScansOn
    <2>3. \A h \in Guests : guest'[h].erased <=> guest[h].erased
      BY <1>1, <1>2
    <2> QED BY <2>1, <2>2, <2>3 DEF ScansMove
  <1> QED BY <1>3, <1>4, <1>6, TaskMoves

LEMMA GoesTask ==
  ASSUME Book, Book', NEW g \in Guests, NEW y, Goes(g, y),
         NEW s \in Stations, NEW x \in Tasks, task'[s] = x, TaskOk(s, x)
  PROVE  TaskOk(s, task[s])'
PROOF
  <1>0. GuestType /\ ScansType /\ ~y.erased /\ y.version > guest[g].version /\ y.version \in Nat
    BY GuestFields DEF Book, Goes
  <1>1. \A h \in Guests : guest'[h] = IF h = g THEN y ELSE guest[h]
    BY <1>0 DEF Goes, GuestType
  <1>2. GuestMoves
    <2>1. \A h \in Guests : guest[h].version \in Nat
      BY <1>0, GuestFields DEF GuestType
    <2> QED BY <1>0, <1>1, <2>1 DEF GuestMoves
  <1>3. Spared(x)
    BY <1>0, <1>1, TaskFields DEF Spared
  <1>4. ScansMove(s)
    <2>1. ScansOn(s)' = ScansOn(s) /\ scans' = scans
      BY DEF ScansOn, ScanIds, Goes
    <2>2. \A i \in ScansOn(s) : scans[i].at \in Nat /\ scans[i].guest \in Guests
      BY <1>0, BookFacts, TimeFacts DEF ScansOn
    <2>3. \A h \in Guests : ~guest'[h].erased => ~guest[h].erased
      BY <1>1 DEF Goes
    <2> QED BY <2>1, <2>2, <2>3 DEF ScansMove
  <1> QED BY <1>2, <1>3, <1>4, TaskMoves

LEMMA ClearsTask ==
  ASSUME Book, Book', NEW g \in Guests, NEW archived \in BOOLEAN, Clears(g, archived),
         NEW s \in Stations, NEW x \in Tasks, task'[s] = x, TaskOk(s, x),
         x.kind \in {"admit", "item"} => x.guest # g
  PROVE  TaskOk(s, task[s])'
PROOF
  <1> DEFINE y == ErasedGuest(guest[g], archived)
  <1>0. GuestType /\ ScansType /\ guest[g] \in GuestRecords
    BY DEF Book, GuestType
  <1>1. y.version = guest[g].version + 1 /\ y.erased
    BY <1>0, ErasedGuestIs
  <1>2. guest' = [guest EXCEPT ![g] = y]
    BY DEF Clears
  <1> HIDE DEF y
  <1>3. \A h \in Guests : guest'[h] = IF h = g THEN y ELSE guest[h]
    BY <1>0, <1>2 DEF GuestType
  <1>4. GuestMoves
    <2>1. \A h \in Guests : guest[h].version \in Nat
      BY <1>0, GuestFields DEF GuestType
    <2> QED BY <1>1, <1>3, <2>1 DEF GuestMoves
  <1>5. Spared(x)
    BY <1>3, TaskFields DEF Spared
  <1>6. /\ ScanIds' = ScanIds
        /\ \A i \in ScanIds :
             /\ scans'[i].guest = scans[i].guest /\ scans'[i].device = scans[i].device
             /\ scans'[i].at = IF scans[i].guest = g THEN Hour(scans[i].at) ELSE scans[i].at
    BY <1>0, CutBook DEF Clears
  <1>7. ScansMove(s)
    <2>1. ScansOn(s)' = ScansOn(s)
      BY <1>6 DEF ScansOn, ScanIds
    <2>2. \A i \in ScansOn(s) :
            /\ scans[i].at \in Nat /\ scans[i].guest \in Guests /\ i \in ScanIds
            /\ Hour(scans[i].at) <= scans[i].at
      BY <1>0, BookFacts, TimeFacts, HourFacts DEF ScansOn
    <2> QED BY <1>1, <1>3, <1>6, <2>1, <2>2 DEF ScansMove
  <1> QED BY <1>4, <1>5, <1>7, TaskMoves

LEMMA TaskDone ==
  ASSUME TasksOk, NEW s \in Stations, Done(s),
         \A q \in Stations : q # s => TaskOk(q, task[q])'
  PROVE  TasksOk'
PROOF
  <1>1. task' \in [Stations -> Tasks] /\ task'[s] = Idle
    BY DEF Done, TasksOk, Tasks
  <1>2. TaskOk(s, task[s])'
    BY <1>1 DEF TaskOk, Idle
  <1> QED BY <1>1, <1>2 DEF TasksOk

----------------------------------------------------------------------------
(* Badges.                                                                 *)

\* Nobody is erased, and the check-ins of the erased stay theirs.
Calm == /\ \A g \in Guests : guest'[g].erased <=> guest[g].erased
        /\ \A g \in Guests : guest[g].erased => ScansOf(g)' = ScansOf(g)
        /\ ScanIds \subseteq ScanIds'

LEMMA SameCalm == ASSUME Book, SameBook  PROVE Calm
PROOF
  BY DEF SameBook, Calm, ScansOf, ScanIds

LEMMA GoesCalm ==
  ASSUME Book, NEW g \in Guests, NEW x, Goes(g, x)
  PROVE  Calm
PROOF
  <1>1. \A h \in Guests : guest'[h] = IF h = g THEN x ELSE guest[h]
    BY DEF Goes, Book, GuestType
  <1> QED BY <1>1 DEF Goes, Calm, ScansOf, ScanIds

LEMMA ComesCalm ==
  ASSUME Book, NEW g \in Guests, NEW at \in Times, NEW d \in Devices \cup {NoDevice}, Comes(g, at, d)
  PROVE  Calm /\ Len(scans) + 1 \in ScansOf(g)'
PROOF
  <1> DEFINE row == [guest |-> g, at |-> at, made |-> at, device |-> d]
             n == Len(scans) + 1
  <1>1. row \in ScanRecords /\ row.guest = g
    BY DEF ScanRecords
  <1>2. scans' = Append(scans, row) /\ taken' = Append(taken, 0) /\ ScansType
    BY DEF Comes, Book
  <1> HIDE DEF row
  <1>3. /\ ScanIds' = ScanIds \cup {n} /\ scans'[n] = row
        /\ \A i \in ScanIds : scans'[i] = scans[i]
    BY <1>1, <1>2, AppendBook
  <1>4. guest[g] \in GuestRecords /\ ~guest[g].erased
    BY DEF Comes, Book, GuestType
  <1>5. \A h \in Guests : guest'[h].erased <=> guest[h].erased
    BY <1>4, AdmittedGuest DEF Comes, Book, GuestType
  <1> HIDE DEF n
  <1>6. \A h : ScansOf(h)' = {i \in ScanIds \cup {n} : scans'[i].guest = h}
    BY <1>3 DEF ScansOf
  <1>7. \A h \in Guests : guest[h].erased => ScansOf(h)' = ScansOf(h)
    BY <1>1, <1>3, <1>4, <1>6 DEF ScansOf
  <1> QED BY <1>1, <1>3, <1>5, <1>6, <1>7 DEF Calm, n

LEMMA SameBadges == ASSUME Badges, Calm, UNCHANGED badgeVars  PROVE Badges'
PROOF
  BY DEF Badges, BadgeType, BadgeOk, Calm, badgeVars

\* The badge of one guest.
OneBadge(g) ==
  /\ BadgeType'
  /\ ledger'[g] = IF badge'[g] \in HandedOut THEN 1 ELSE 0
  /\ \A h \in Guests \ {g} : badge'[h] = badge[h] /\ ledger'[h] = ledger[h]
  /\ autoIssue' \subseteq autoIssue \cup ScansOf(g)'

LEMMA BadgeMoves ==
  ASSUME Book', Badges, Calm, NEW g \in Guests, ~guest[g].erased, OneBadge(g)
  PROVE  Badges'
PROOF
  <1>1. \A h : ScansOf(h)' \subseteq ScanIds'
    BY DEF ScansOf
  <1>2. \A h \in Guests : \A i \in ScansOf(h)' : i \in ScansOf(g)' => h = g
    BY DEF ScansOf
  <1>3. (autoIssue \subseteq ScanIds)'
    BY <1>1 DEF Badges, Calm, OneBadge
  <1>4. ASSUME NEW h \in Guests
        PROVE  /\ ~guest'[h].erased => ledger'[h] = IF badge'[h] \in HandedOut THEN 1 ELSE 0
               /\ guest'[h].erased => ledger'[h] = 0 /\ \A i \in ScansOf(h)' : i \notin autoIssue'
    BY <1>2 DEF Badges, BadgeOk, Calm, OneBadge
  <1>5. BadgeOk'
    BY <1>4 DEF BadgeOk, HandedOut
  <1> QED BY <1>3, <1>5 DEF Badges, OneBadge

LEMMA HandOut ==
  ASSUME Book, Badges, NEW g \in Guests, NEW i \in Nat, ~guest[g].erased, i \in ScansOf(g)',
         IssueBadge(g, i)
  PROVE  UNCHANGED badgeVars \/ OneBadge(g)
PROOF
  <1>1. CASE UNCHANGED badgeVars
    BY <1>1
  <1>2. CASE ~UNCHANGED badgeVars
    <2>1. ledger[g] = 0 /\ badge[g] = "pending"
      BY <1>2 DEF IssueBadge, Badges, BadgeOk, HandedOut
    <2>2. BadgeType'
      BY <1>2 DEF IssueBadge, Badges, BadgeType, BadgeStates
    <2> QED BY <1>2, <2>1, <2>2 DEF IssueBadge, OneBadge, Badges, BadgeType, HandedOut
  <1> QED BY <1>1, <1>2

LEMMA TakeBack ==
  ASSUME Book, Badges, NEW g \in Guests, NEW i, ~guest[g].erased,
         RollbackBadge(g, i) \/ ResetBadge(g)
  PROVE  UNCHANGED badgeVars \/ OneBadge(g)
PROOF
  <1>1. CASE UNCHANGED badgeVars
    BY <1>1
  <1>2. CASE ~UNCHANGED badgeVars
    <2>1. /\ badge[g] \in HandedOut /\ badge' = [badge EXCEPT ![g] = "pending"]
          /\ ledger' = [ledger EXCEPT ![g] = @ - 1] /\ issuer' = [issuer EXCEPT ![g] = 0]
          /\ UNCHANGED autoIssue
      BY <1>2 DEF RollbackBadge, ResetBadge, HandedOut
    <2>2. ledger[g] = 1
      BY <2>1 DEF Badges, BadgeOk
    <2>3. BadgeType'
      BY <2>1 DEF Badges, BadgeType, BadgeStates
    <2> QED BY <2>1, <2>2, <2>3 DEF OneBadge, Badges, BadgeType, HandedOut
  <1> QED BY <1>1, <1>2

----------------------------------------------------------------------------
(* The actions.                                                            *)

\* A request begins or is given up.
LEMMA StartsKeeps ==
  ASSUME IInv, NEW s \in Stations, NEW x \in Tasks, task' = [task EXCEPT ![s] = x],
         SameBook, UNCHANGED badgeVars, UNCHANGED clock, TaskOk(s, x)
  PROVE  IInv'
PROOF
  <1>1. Book' /\ Badges'
    BY SameKeeps, SameCalm, SameBadges DEF IInv
  <1>2. task' \in [Stations -> Tasks]
    BY DEF IInv, TasksOk
  <1>3. ASSUME NEW q \in Stations  PROVE TaskOk(q, task[q])'
    <2>1. task'[q] \in Tasks /\ TaskOk(q, task'[q])
      BY DEF IInv, TasksOk
    <2> QED BY <1>1, <2>1, SameTask DEF IInv
  <1> QED BY <1>1, <1>2, <1>3 DEF IInv, TasksOk

LEMMA AdmitBeginKeeps ==
  ASSUME IInv, NEW s \in Stations, NEW g \in Guests, AdmitBegin(s, g)
  PROVE  IInv'
PROOF
  <1> DEFINE x == [kind |-> "admit", guest |-> g, at |-> clock]
  <1>1. x \in Tasks
    BY DEF IInv, Tasks
  <1>2. TaskOk(s, x)
    BY DEF AdmitBegin, TaskOk
  <1>3. task' = [task EXCEPT ![s] = x]
    BY DEF AdmitBegin
  <1> HIDE DEF x
  <1> QED BY <1>1, <1>2, <1>3, StartsKeeps DEF AdmitBegin, SameBook

LEMMA ItemBeginKeeps ==
  ASSUME IInv, NEW s \in Stations, NEW g \in Guests, ItemBegin(s, g)
  PROVE  IInv'
PROOF
  <1> DEFINE x == [kind |-> "item", guest |-> g, from |-> badge[g]]
  <1>1. x \in Tasks
    BY DEF IInv, Badges, BadgeType, Tasks
  <1>2. TaskOk(s, x)
    BY DEF ItemBegin, TaskOk
  <1>3. task' = [task EXCEPT ![s] = x]
    BY DEF ItemBegin
  <1> HIDE DEF x
  <1> QED BY <1>1, <1>2, <1>3, StartsKeeps DEF ItemBegin, SameBook

LEMMA UndoBeginKeeps ==
  ASSUME IInv, NEW d \in Devices, UndoBegin(d)
  PROVE  IInv'
PROOF
  <1>1. PICK i \in ScansOn(d) :
          /\ \A j \in ScansOn(d) : scans[j].at <= scans[i].at
          /\ task' = [task EXCEPT ![d] = [kind |-> "undo", scan |-> i, at |-> scans[i].at]]
    BY DEF UndoBegin
  <1> DEFINE x == [kind |-> "undo", scan |-> i, at |-> scans[i].at]
  <1>2. i \in Nat /\ scans[i].at \in Times /\ d \in Stations
    BY BookFacts DEF IInv, Book, Stations
  <1>3. x \in Tasks /\ x.scan = i /\ x.at = scans[i].at /\ x.kind = "undo"
    BY <1>2 DEF Tasks
  <1>4. TaskOk(d, x)
    BY <1>1, <1>3 DEF TaskOk
  <1>5. task' = [task EXCEPT ![d] = x]
    BY <1>1
  <1> HIDE DEF x
  <1> QED BY <1>2, <1>3, <1>4, <1>5, StartsKeeps DEF UndoBegin, SameBook

LEMMA EditOpenKeeps ==
  ASSUME IInv, NEW c \in Clerks, NEW g \in Guests, EditOpen(c, g)
  PROVE  IInv'
PROOF
  <1> DEFINE x == [kind |-> "edit", guest |-> g, read |-> guest[g]]
  <1>1. x \in Tasks /\ c \in Stations /\ guest[g] \in GuestRecords
    BY DEF IInv, Book, GuestType, Tasks, Stations
  <1>2. TaskOk(c, x)
    BY <1>1, GuestFields DEF TaskOk
  <1>3. task' = [task EXCEPT ![c] = x]
    BY DEF EditOpen
  <1> HIDE DEF x
  <1> QED BY <1>1, <1>2, <1>3, StartsKeeps DEF EditOpen, SameBook

LEMMA EditDropKeeps ==
  ASSUME IInv, NEW c \in Clerks, EditDrop(c)
  PROVE  IInv'
PROOF
  <1>1. Idle \in Tasks /\ c \in Stations
    BY DEF Tasks, Stations
  <1>2. TaskOk(c, Idle)
    BY DEF TaskOk, Idle
  <1> QED BY <1>1, <1>2, StartsKeeps DEF EditDrop, Done, SameBook

LEMMA TickKeeps == ASSUME IInv, Tick  PROVE IInv'
PROOF
  <1>1. SameBook /\ UNCHANGED badgeVars /\ UNCHANGED task
    BY DEF Tick, SameBook
  <1>2. Book' /\ Badges'
    BY <1>1, SameKeeps, SameCalm, SameBadges DEF IInv
  <1>3. \A q \in Stations : TaskOk(q, task[q])'
    BY <1>1, <1>2, SameTask DEF IInv, TasksOk
  <1>4. clock' \in Times
    <2>1. HourLen \in Nat /\ MaxTime \in Nat
      BY CheckInAssumption
    <2> QED BY <2>1 DEF Tick, IInv, Times
  <1> QED BY <1>1, <1>2, <1>3, <1>4 DEF IInv, TasksOk

LEMMA SameDone ==
  ASSUME IInv, SameBook, NEW s \in Stations, Done(s), Badges', UNCHANGED clock
  PROVE  IInv'
PROOF
  <1>1. Book'
    BY SameKeeps DEF IInv
  <1>2. ASSUME NEW q \in Stations, q # s  PROVE TaskOk(q, task[q])'
    <2>1. task'[q] \in Tasks /\ TaskOk(q, task'[q])
      BY <1>2 DEF IInv, TasksOk, Done
    <2> QED BY <1>1, <2>1, SameTask DEF IInv
  <1> QED BY <1>1, <1>2, TaskDone DEF IInv

LEMMA GoesAll ==
  ASSUME IInv, NEW g \in Guests, NEW x, Goes(g, x), UNCHANGED badgeVars \/ OneBadge(g),
         UNCHANGED task \/ \E s \in Stations : Done(s), UNCHANGED clock
  PROVE  IInv'
PROOF
  <1>1. Book'
    BY GoesKeeps DEF IInv
  <1>2. Badges'
    BY <1>1, GoesCalm, SameBadges, BadgeMoves DEF IInv, Goes
  <1>3. ASSUME NEW q \in Stations, task'[q] = task[q]  PROVE TaskOk(q, task[q])'
    <2>1. task'[q] \in Tasks /\ TaskOk(q, task'[q])
      BY <1>3 DEF IInv, TasksOk
    <2> QED BY <1>1, <2>1, GoesTask DEF IInv
  <1>4. TasksOk'
    <2>1. CASE UNCHANGED task
      BY <1>3, <2>1 DEF IInv, TasksOk
    <2>2. ASSUME NEW s \in Stations, Done(s)  PROVE TasksOk'
      <3>1. \A q \in Stations : q # s => task'[q] = task[q]
        BY <2>2 DEF Done, IInv, TasksOk
      <3> QED BY <1>3, <2>2, <3>1, TaskDone DEF IInv
    <2> QED BY <2>1, <2>2
  <1> QED BY <1>1, <1>2, <1>4 DEF IInv

\* Whoever takes the current admission back finds the check-in it began with.
LEMMA CurrentIs ==
  ASSUME Book, NEW g \in Guests, ~guest[g].erased, guest[g].admitted # NotAdmitted,
         ReverseCurrent(g)
  PROVE  \E i \in ScansOf(g) : taken[i] = 0 /\ Reverse(i)
PROOF
  <1>1. PICK k \in ScanIds : scans[k].guest = g /\ taken[k] = 0 /\ scans[k].at = guest[g].admitted
    BY BookOf
  <1>2. k \in CurrentCheckIns(g)
    BY <1>1, BookAt DEF CurrentCheckIns, ScansOf
  <1>3. PICK i \in CurrentCheckIns(g) : Reverse(i)
    BY <1>2 DEF ReverseCurrent
  <1>4. i \in ScanIds /\ scans[i].guest = g /\ i \notin reversed /\ i \in ScansOf(g)
    BY DEF CurrentCheckIns, ScansOf
  <1>5. taken[i] = 0
    BY <1>4, BookAt
  <1> QED BY <1>3, <1>4, <1>5

LEMMA AdmitCommitKeeps ==
  ASSUME IInv, NEW s \in Stations, AdmitCommit(s)
  PROVE  IInv'
PROOF
  <1>a. task[s].kind = "admit" /\ task[s].guest \in Guests /\ task[s].at \in Times
    BY TaskFields DEF AdmitCommit, IInv, TasksOk
  <1>b. PICK g \in Guests, at \in Times : g = task[s].guest /\ at = task[s].at
    BY <1>a
  <1>c. PICK d \in Devices \cup {NoDevice} : d = IF s \in Devices THEN s ELSE NoDevice
    OBVIOUS
  <1>1. ~guest[g].erased
    BY <1>a, <1>b DEF IInv, TasksOk, TaskOk
  <1>2. CASE ~StillOutside(g)
    <2>1. SameBook /\ UNCHANGED badgeVars /\ Done(s) /\ UNCHANGED clock
      BY <1>2, <1>b DEF AdmitCommit, SameBook
    <2>2. Badges'
      BY <2>1, SameCalm, SameBadges DEF IInv
    <2> QED BY <2>1, <2>2, SameDone
  <1>3. CASE StillOutside(g)
    <2>1. /\ Comes(g, at, d) /\ IssueBadge(g, Len(scans) + 1) /\ Done(s) /\ UNCHANGED clock
      BY <1>1, <1>3, <1>b, <1>c DEF AdmitCommit, Comes
    <2>2. Len(scans) + 1 \in Nat
      BY BookFacts DEF IInv, Book
    <2>3. Book' /\ Calm /\ Len(scans) + 1 \in ScansOf(g)'
      BY <1>1, <2>1, ComesKeeps, ComesCalm DEF IInv
    <2>4. UNCHANGED badgeVars \/ OneBadge(g)
      BY <1>1, <2>1, <2>2, <2>3, HandOut DEF IInv
    <2>5. Badges'
      BY <1>1, <2>3, <2>4, SameBadges, BadgeMoves DEF IInv
    <2>6. ASSUME NEW q \in Stations, q # s  PROVE TaskOk(q, task[q])'
      <3>1. task'[q] \in Tasks /\ TaskOk(q, task'[q])
        BY <2>1, <2>6 DEF IInv, TasksOk, Done
      <3>2. q \in Devices => q # d
        BY <2>6, <1>c, CheckInAssumption
      <3> QED BY <1>1, <2>1, <2>3, <3>1, <3>2, ComesTask DEF IInv
    <2>7. TasksOk'
      BY <2>1, <2>6, TaskDone DEF IInv
    <2> QED BY <2>1, <2>3, <2>5, <2>7 DEF IInv
  <1> QED BY <1>2, <1>3

LEMMA ItemCommitKeeps ==
  ASSUME IInv, NEW s \in Stations, ItemCommit(s)
  PROVE  IInv'
PROOF
  <1> DEFINE t == task[s]
  <1>a. t.kind = "item" /\ t.guest \in Guests /\ t.from \in BadgeStates
    BY TaskFields DEF ItemCommit, IInv, TasksOk
  <1>b. PICK g \in Guests : g = t.guest
    BY <1>a
  <1>1. ~guest[g].erased
    BY <1>a, <1>b DEF IInv, TasksOk, TaskOk
  <1>2. SameBook /\ Done(s) /\ UNCHANGED clock /\ UNCHANGED autoIssue
    BY DEF ItemCommit, SameBook
  <1>3. BadgeType /\ ledger[g] = IF badge[g] \in HandedOut THEN 1 ELSE 0
    BY <1>1 DEF IInv, Badges, BadgeOk
  <1>4. UNCHANGED badgeVars \/ OneBadge(g)
    <2>1. CASE ~ItemUnchanged(g, t.from)
      BY <1>2, <1>b, <2>1 DEF ItemCommit, badgeVars
    <2>2. CASE ItemUnchanged(g, t.from) /\ t.from = "pending"
      <3>1. /\ badge[g] = "pending" /\ badge' = [badge EXCEPT ![g] = "issued"]
            /\ ledger' = [ledger EXCEPT ![g] = @ + 1] /\ issuer' = [issuer EXCEPT ![g] = 0]
        BY <1>b, <2>2 DEF ItemCommit, ItemUnchanged
      <3>2. ledger[g] = 0
        BY <1>3, <3>1 DEF HandedOut
      <3>3. BadgeType'
        BY <1>3, <3>1 DEF BadgeType, BadgeStates
      <3> QED BY <1>1, <1>2, <1>3, <3>1, <3>2, <3>3 DEF OneBadge, BadgeType, HandedOut
    <2>3. CASE ItemUnchanged(g, t.from) /\ t.from # "pending"
      <3>1. /\ badge[g] # "pending" /\ badge' = [badge EXCEPT ![g] = "returned"]
            /\ UNCHANGED <<ledger, issuer>>
        BY <1>b, <2>3 DEF ItemCommit, ItemUnchanged
      <3>2. ledger[g] = 1
        BY <1>1, <1>3, <3>1 DEF HandedOut, BadgeType, BadgeStates
      <3>3. BadgeType'
        BY <1>3, <3>1 DEF BadgeType, BadgeStates
      <3> QED BY <1>1, <1>2, <1>3, <3>1, <3>2, <3>3 DEF OneBadge, BadgeType, HandedOut
    <2> QED BY <2>1, <2>2, <2>3
  <1>5. Badges'
    <2>1. Book'
      BY <1>2, SameKeeps DEF IInv
    <2> QED BY <1>1, <1>2, <1>4, <2>1, SameCalm, SameBadges, BadgeMoves DEF IInv
  <1> QED BY <1>2, <1>5, SameDone

LEMMA UndoCommitKeeps ==
  ASSUME IInv, NEW d \in Devices, UndoCommit(d)
  PROVE  IInv'
PROOF
  <1> DEFINE t == task[d]
  <1>a. d \in Stations /\ t.kind = "undo" /\ t.scan \in ScanIds
    BY DEF UndoCommit, Stations, IInv, TasksOk, TaskOk, ScansOn
  <1>b. PICK k \in ScanIds : k = t.scan
    BY <1>a
  <1>c. PICK g \in Guests : g = scans[k].guest
    BY BookAt DEF IInv
  <1>2. guest[g] \in GuestRecords
    BY DEF IInv, Book, GuestType
  <1>3. CASE ~MayUndo(d, t.scan, t.at)
    <2>1. SameBook /\ UNCHANGED badgeVars /\ Done(d) /\ UNCHANGED clock
      BY <1>3, <1>b, <1>c DEF UndoCommit, SameBook
    <2>2. Badges'
      BY <2>1, SameCalm, SameBadges DEF IInv
    <2> QED BY <1>a, <2>1, <2>2, SameDone
  <1>4. CASE MayUndo(d, t.scan, t.at)
    <2> DEFINE x == Outside(guest[g])
    <2>1. /\ ~guest[g].erased /\ k \notin reversed
          /\ guest' = [guest EXCEPT ![g] = x] /\ Reverse(k) /\ RollbackBadge(g, k)
          /\ Done(d) /\ UNCHANGED <<scans, clock>>
      BY <1>4, <1>b, <1>c DEF UndoCommit, MayUndo
    <2>2. taken[k] = 0 /\ k \in ScansOf(g)
      BY <1>c, <2>1, BookAt DEF ScansOf, IInv
    <2>3. /\ x \in GuestRecords /\ x.admitted = NotAdmitted /\ ~x.erased
          /\ x.version > guest[g].version
      BY <1>2, <2>1, OutsideGuest, GuestFields
    <2> HIDE DEF x
    <2>4. Goes(g, x)
      BY <2>1, <2>2, <2>3 DEF Goes
    <2>5. UNCHANGED badgeVars \/ OneBadge(g)
      BY <2>1, TakeBack DEF IInv
    <2> QED BY <1>a, <2>1, <2>4, <2>5, GoesAll
  <1> QED BY <1>3, <1>4

LEMMA EditSaveKeeps ==
  ASSUME IInv, NEW c \in Clerks, EditSave(c)
  PROVE  IInv'
PROOF
  <1> DEFINE t == task[c]
  <1>1. c \in Stations /\ t.kind = "edit" /\ t.guest \in Guests /\ t.read \in GuestRecords
    BY TaskFields DEF EditSave, IInv, TasksOk, Stations
  <1>b. PICK g \in Guests : g = t.guest
    BY <1>1
  <1>2. guest[g] \in GuestRecords
    BY <1>1 DEF IInv, Book, GuestType
  <1>3. UNCHANGED badgeVars /\ Done(c) /\ UNCHANGED <<scans, clock>>
    BY DEF EditSave
  <1>4. CASE ~Current(g, t.read)
    <2>1. SameBook
      BY <1>3, <1>4, <1>b DEF EditSave, SameBook
    <2>2. Badges'
      BY <1>3, <2>1, SameCalm, SameBadges DEF IInv
    <2> QED BY <1>1, <1>3, <2>1, <2>2, SameDone
  <1>5. CASE Current(g, t.read)
    <2>1. t.read = guest[g] /\ ~guest[g].erased
      BY <1>1, <1>5, <1>b DEF Current, IInv, TasksOk, TaskOk
    <2>2. PICK status \in {"registered", "revoked"} :
            /\ status # guest[g].status
            /\ IF ~Admittable(status) /\ guest[g].admitted # NotAdmitted
               THEN /\ guest' = [guest EXCEPT ![g] = WithStatus(Outside(guest[g]), status)]
                    /\ ReverseCurrent(g)
               ELSE /\ guest' = [guest EXCEPT ![g] = WithStatus(guest[g], status)]
                    /\ UNCHANGED <<reversed, taken>>
      BY <1>5, <1>b, <2>1 DEF EditSave
    <2>3. status \in Statuses
      BY DEF Statuses
    <2>4. CASE ~Admittable(status) /\ guest[g].admitted # NotAdmitted
      <3> DEFINE o == Outside(guest[g])
                 x == WithStatus(o, status)
      <3>1. /\ o \in GuestRecords /\ o.admitted = NotAdmitted /\ o.version = guest[g].version + 1
            /\ o.erased = guest[g].erased
        BY <1>2, OutsideGuest
      <3>2. guest' = [guest EXCEPT ![g] = x] /\ ReverseCurrent(g)
        BY <2>2, <2>4
      <3> HIDE DEF o
      <3>3. /\ x \in GuestRecords /\ x.admitted = o.admitted /\ x.version = o.version + 1
            /\ x.erased = o.erased
        BY <2>3, <3>1, StatusGuest
      <3> HIDE DEF x
      <3>4. x.version > guest[g].version /\ ~x.erased
        BY <1>2, <2>1, <3>1, <3>3, GuestFields
      <3>5. \E i \in ScansOf(g) : taken[i] = 0 /\ Reverse(i)
        BY <1>1, <2>1, <2>4, <3>2, CurrentIs DEF IInv
      <3>6. Goes(g, x)
        BY <1>3, <2>1, <3>1, <3>2, <3>3, <3>4, <3>5 DEF Goes
      <3> QED BY <1>1, <1>3, <3>6, GoesAll
    <2>5. CASE ~(~Admittable(status) /\ guest[g].admitted # NotAdmitted)
      <3> DEFINE x == WithStatus(guest[g], status)
      <3>1. guest' = [guest EXCEPT ![g] = x] /\ UNCHANGED <<reversed, taken>>
        BY <2>2, <2>5
      <3>2. /\ x \in GuestRecords /\ x.admitted = guest[g].admitted
            /\ x.version = guest[g].version + 1 /\ x.erased = guest[g].erased
        BY <1>2, <2>3, StatusGuest
      <3> HIDE DEF x
      <3>3. guest[g].admitted = NotAdmitted
        <4>1. ~Admittable(guest[g].status) => guest[g].admitted = NotAdmitted
          BY <1>1, BookOf DEF IInv
        <4> QED BY <2>2, <2>5, <4>1 DEF Admittable
      <3>4. x.version > guest[g].version /\ ~x.erased
        BY <1>2, <2>1, <3>2, GuestFields
      <3>5. Goes(g, x)
        BY <1>3, <2>1, <3>1, <3>2, <3>3, <3>4 DEF Goes
      <3> QED BY <1>1, <1>3, <3>5, GoesAll
    <2> QED BY <2>4, <2>5
  <1> QED BY <1>4, <1>5

LEMMA RevokeCheckInKeeps ==
  ASSUME IInv, NEW g \in Guests, RevokeCheckIn(g)
  PROVE  IInv'
PROOF
  <1> DEFINE x == Outside(guest[g])
  <1>1. guest[g] \in GuestRecords /\ ~guest[g].erased /\ guest[g].admitted # NotAdmitted
    BY DEF IInv, Book, GuestType, RevokeCheckIn
  <1>2. /\ x \in GuestRecords /\ x.admitted = NotAdmitted /\ ~x.erased
        /\ x.version > guest[g].version
    BY <1>1, OutsideGuest, GuestFields
  <1>3. guest' = [guest EXCEPT ![g] = x] /\ ReverseCurrent(g) /\ ResetBadge(g)
        /\ UNCHANGED <<scans, clock, task>>
    BY DEF RevokeCheckIn
  <1> HIDE DEF x
  <1>4. Goes(g, x)
    BY <1>1, <1>2, <1>3, CurrentIs DEF Goes, IInv
  <1>5. UNCHANGED badgeVars \/ OneBadge(g)
    BY <1>1, <1>3, TakeBack DEF IInv
  <1> QED BY <1>3, <1>4, <1>5, GoesAll

LEMMA RevokePassKeeps ==
  ASSUME IInv, NEW g \in Guests, RevokePass(g)
  PROVE  IInv'
PROOF
  <1> DEFINE o == Outside(guest[g])
             x == WithStatus(o, "revoked")
  <1>1. guest[g] \in GuestRecords /\ ~guest[g].erased /\ "revoked" \in Statuses
    BY DEF IInv, Book, GuestType, RevokePass, Statuses
  <1>2. /\ o \in GuestRecords /\ o.admitted = NotAdmitted /\ o.erased = guest[g].erased
        /\ o.version = guest[g].version + 1
    BY <1>1, OutsideGuest
  <1>3. /\ guest' = [guest EXCEPT ![g] = x]
        /\ IF guest[g].admitted # NotAdmitted THEN ReverseCurrent(g) ELSE UNCHANGED <<reversed, taken>>
        /\ UNCHANGED <<scans, badgeVars, clock, task>>
    BY DEF RevokePass
  <1> HIDE DEF o
  <1>4. /\ x \in GuestRecords /\ x.admitted = o.admitted /\ x.erased = o.erased
        /\ x.version = o.version + 1
    BY <1>1, <1>2, StatusGuest
  <1> HIDE DEF x
  <1>5. ~x.erased /\ x.version > guest[g].version
    BY <1>1, <1>2, <1>4, GuestFields
  <1>6. Goes(g, x)
    BY <1>1, <1>2, <1>3, <1>4, <1>5, CurrentIs DEF Goes, IInv
  <1> QED BY <1>3, <1>6, GoesAll

LEMMA RevokeItemKeeps ==
  ASSUME IInv, NEW g \in Guests, RevokeItem(g)
  PROVE  IInv'
PROOF
  <1>1. SameBook /\ UNCHANGED task /\ UNCHANGED clock /\ ~guest[g].erased /\ ResetBadge(g)
    BY DEF RevokeItem, SameBook
  <1>2. Book'
    BY <1>1, SameKeeps DEF IInv
  <1>3. Badges'
    BY <1>1, <1>2, TakeBack, SameCalm, SameBadges, BadgeMoves DEF IInv
  <1>4. \A q \in Stations : TaskOk(q, task[q])'
    BY <1>1, <1>2, SameTask DEF IInv, TasksOk
  <1> QED BY <1>1, <1>2, <1>3, <1>4 DEF IInv, TasksOk

LEMMA EraseKeeps ==
  ASSUME IInv, NEW g \in Guests, Erase(g)
  PROVE  IInv'
PROOF
  <1>1. PICK archived \in BOOLEAN : Clears(g, archived)
    BY DEF Erase, Clears
  <1>2. Book'
    BY <1>1, ClearsKeeps DEF IInv
  <1>3. UNCHANGED <<clock, task>>
    BY DEF Erase
  <1>4. Badges'
    <2>1. /\ autoIssue' = autoIssue \ ScansOf(g) /\ ledger' = [ledger EXCEPT ![g] = 0]
          /\ UNCHANGED <<badge, issuer>>
      BY DEF Erase
    <2>2. \A h : ScansOf(h)' = ScansOf(h)
      BY <1>1, CutBook DEF IInv, Book, Clears, ScansOf, ScanIds
    <2>3. \A h \in Guests : h # g => guest'[h] = guest[h]
      BY <1>1 DEF Clears, IInv, Book, GuestType
    <2>4. guest'[g].erased
      BY <1>1, ErasedGuestIs DEF Clears, IInv, Book, GuestType
    <2>5. BadgeType'
      BY <2>1 DEF IInv, Badges, BadgeType
    <2>6. (autoIssue \subseteq ScanIds)'
      BY <1>1, <2>1, CutBook DEF IInv, Badges, Book, Clears
    <2>7. BadgeOk'
      BY <2>1, <2>2, <2>3, <2>4 DEF BadgeOk, IInv, Badges, BadgeType, HandedOut
    <2> QED BY <2>5, <2>6, <2>7 DEF Badges
  <1>5. ASSUME NEW q \in Stations  PROVE TaskOk(q, task[q])'
    <2>1. task'[q] \in Tasks /\ TaskOk(q, task'[q])
      BY <1>3 DEF IInv, TasksOk
    <2>2. task'[q].kind \in {"admit", "item"} => task'[q].guest # g
      BY <1>3 DEF Erase, LockedAgainstErasure
    <2> QED BY <1>1, <1>2, <2>1, <2>2, ClearsTask DEF IInv
  <1> QED BY <1>2, <1>3, <1>4, <1>5 DEF IInv, TasksOk

----------------------------------------------------------------------------
(* The theorems.                                                           *)

LEMMA InitHolds == Init => IInv
PROOF
  <1> SUFFICES ASSUME Init  PROVE IInv
    OBVIOUS
  <1>1. scans = <<>> /\ taken = <<>> /\ ScanIds = {} /\ ScansType
    <2>1. scans = <<>> /\ taken = <<>>
      BY DEF Init
    <2>2. ScanIds = {}
      BY <2>1 DEF ScanIds
    <2> QED BY <2>1, <2>2 DEF ScansType
  <1>2. GuestType /\ \A g \in Guests : /\ guest[g].admitted = NotAdmitted /\ ~guest[g].erased
                                       /\ guest[g].status = "registered"
    BY DEF Init, GuestType, GuestRecords, Statuses
  <1>3. \A g : ScansOf(g) = {}
    BY <1>1 DEF ScansOf
  <1>4. Book
    <2>1. reversed \subseteq ScanIds
      BY DEF Init
    <2>2. AdmissionHolds
      BY <1>1, <1>2, <1>3 DEF AdmissionHolds, StandingAdmission, NoBlockedAdmission, Admittable
    <2>3. Marked /\ Cut /\ Blurred
      BY <1>1, <1>2 DEF Marked, Cut, Blurred
    <2> QED BY <1>1, <1>2, <2>1, <2>2, <2>3 DEF Book
  <1>5. Badges
    BY <1>2 DEF Init, Badges, BadgeType, BadgeStates, BadgeOk, HandedOut
  <1>6. TasksOk
    BY DEF Init, TasksOk, TaskOk, Tasks, Idle
  <1>7. clock \in Times
    BY TimeFacts DEF Init
  <1> QED BY <1>4, <1>5, <1>6, <1>7 DEF IInv

LEMMA NextHolds == IInv /\ [Next]_vars => IInv'
PROOF
  <1> SUFFICES ASSUME IInv, [Next]_vars  PROVE IInv'
    OBVIOUS
  <1>1. CASE UNCHANGED vars
    <2>1. SameBook /\ UNCHANGED badgeVars /\ UNCHANGED task /\ UNCHANGED clock
      BY <1>1 DEF vars, SameBook, badgeVars
    <2>2. Book' /\ Badges'
      BY <2>1, SameKeeps, SameCalm, SameBadges DEF IInv
    <2>3. \A q \in Stations : TaskOk(q, task[q])'
      BY <2>1, <2>2, SameTask DEF IInv, TasksOk
    <2> QED BY <2>1, <2>2, <2>3 DEF IInv, TasksOk
  <1>2. CASE \E s \in Stations, g \in Guests : AdmitBegin(s, g) \/ ItemBegin(s, g)
    BY <1>2, AdmitBeginKeeps, ItemBeginKeeps
  <1>3. CASE \E s \in Stations : AdmitCommit(s) \/ ItemCommit(s)
    BY <1>3, AdmitCommitKeeps, ItemCommitKeeps
  <1>4. CASE \E d \in Devices : UndoBegin(d) \/ UndoCommit(d)
    BY <1>4, UndoBeginKeeps, UndoCommitKeeps
  <1>5. CASE \E c \in Clerks : EditSave(c) \/ EditDrop(c) \/ \E g \in Guests : EditOpen(c, g)
    BY <1>5, EditSaveKeeps, EditDropKeeps, EditOpenKeeps
  <1>6. CASE \E g \in Guests : RevokeCheckIn(g) \/ RevokePass(g) \/ RevokeItem(g) \/ Erase(g)
    BY <1>6, RevokeCheckInKeeps, RevokePassKeeps, RevokeItemKeeps, EraseKeeps
  <1> QED BY <1>1, <1>2, <1>3, <1>4, <1>5, <1>6, TickKeeps DEF Next

THEOREM InvariantHolds == Spec => []IInv
PROOF
  BY InitHolds, NextHolds, PTL DEF Spec

\* Guests, check-ins, badges and open requests keep their types, and an open undo names a
\* check-in that exists.
THEOREM TypeCorrect == Spec => []TypeOK
PROOF
  <1>1. IInv => TypeOK
    <2> SUFFICES ASSUME IInv  PROVE TypeOK
      OBVIOUS
    <2>1. \A s \in Stations : task[s].kind = "undo" => task[s].scan \in ScanIds
      BY DEF IInv, TasksOk, TaskOk, ScansOn
    <2> QED BY <2>1 DEF IInv, Book, GuestType, ScansType, Badges, BadgeType, TasksOk, TypeOK
  <1> QED BY <1>1, InvariantHolds, PTL

\* For any number of stations, a guest is shown as inside exactly because of one check-in
\* that nobody has taken back, and never on a blocked pass (undoLastCheckIn,
\* revokeCheckInMutation, the conditions of the admitting update).
THEOREM AdmissionsHold == Spec => []AdmissionHolds
PROOF
  <1>1. IInv => AdmissionHolds
    BY DEF IInv, Book
  <1> QED BY <1>1, InvariantHolds, PTL

\* The activity log shows one hand-out more than take-backs for a badge that is out
\* (issueBadgeOnCheckIn, rollbackBadgeForCheckIn, the item transitions).
THEOREM LedgerAddsUp == Spec => []BadgeLedger
PROOF
  <1>1. IInv => BadgeLedger
    BY DEF IInv, Badges, BadgeOk, BadgeLedger
  <1> QED BY <1>1, InvariantHolds, PTL

\* Once a guest is erased no time of theirs is more exact than the hour and no row of the
\* activity log is left, because every request that writes one holds the guest meanwhile
\* (eraseAttendees and the FOR KEY SHARE of admissions and items).
THEOREM NoTraceIsLeft == Spec => []ErasedLeavesNoTrace
PROOF
  <1>1. IInv => ErasedLeavesNoTrace
    BY DEF IInv, Book, Blurred, Badges, BadgeOk, ErasedLeavesNoTrace
  <1> QED BY <1>1, InvariantHolds, PTL

\* Undo takes back the last check-in of the device by the true times, also when an erasure
\* has cut some of them to the hour: what is left of such a row is at most an hour older
\* than the true time (undoLastCheckIn).
THEOREM UndoIsOwnLast == Spec => UndoTakesBackOwnLast
PROOF
  <1>1. ASSUME IInv, NEW d \in Devices, UndoCommit(d), reversed' # reversed
        PROVE  /\ task[d].scan \in ScansOn(d)
               /\ \A j \in ScansOn(d) : scans[j].made <= scans[task[d].scan].made
    <2> DEFINE t == task[d]
               i == t.scan
    <2>1. /\ d \in Stations /\ t.kind = "undo" /\ i \in ScansOn(d) /\ i \in ScanIds
          /\ \A j \in ScansOn(d) : scans[j].at <= t.at
      BY <1>1 DEF UndoCommit, Stations, IInv, TasksOk, TaskOk, ScansOn
    <2>2. MayUndo(d, i, t.at)
      BY <1>1 DEF UndoCommit
    <2>3. scans[i].made = t.at /\ t.at \in Nat /\ HourLen \in Nat
      <3>1. scans[i].at = t.at
        BY <1>1, <2>1, <2>2 DEF MayUndo, IInv, TasksOk, TaskOk
      <3>2. scans[i].at = scans[i].made
        BY <1>1, <2>1, <2>2, BookAt DEF MayUndo, IInv
      <3> QED BY <1>1, <2>1, <3>1, <3>2, BookAt, TimeFacts DEF IInv
    <2>4. ASSUME NEW j \in ScansOn(d)  PROVE scans[j].made <= t.at
      <3>1. j \in ScanIds /\ scans[j].at <= t.at
        BY <2>1 DEF ScansOn
      <3>2. /\ scans[j].made \in Nat /\ scans[j].at \in Nat
            /\ ~guest[scans[j].guest].erased => scans[j].at = scans[j].made
            /\ scans[j].at = scans[j].made \/ scans[j].at = Hour(scans[j].made)
        BY <1>1, <3>1, BookAt, TimeFacts DEF IInv
      <3>3. CASE ~guest[scans[j].guest].erased
        BY <3>1, <3>2, <3>3
      <3>4. CASE guest[scans[j].guest].erased
        <4>1. ~(scans[j].at > t.at - HourLen)
          BY <2>2, <3>4 DEF MayUndo, MaybeLater
        <4>2. scans[j].made < Hour(scans[j].made) + HourLen /\ Hour(scans[j].made) \in Nat
          BY <3>2, HourFacts
        <4> QED BY <2>3, <3>2, <4>1, <4>2
      <3> QED BY <3>3, <3>4
    <2> QED BY <2>1, <2>3, <2>4
  <1>2. IInv => [\A d \in Devices :
                  UndoCommit(d) /\ reversed' # reversed =>
                    LET i == task[d].scan IN
                    /\ i \in ScansOn(d)
                    /\ \A j \in ScansOn(d) : scans[j].made <= scans[i].made]_vars
    BY <1>1
  <1> QED BY <1>2, InvariantHolds, PTL DEF UndoTakesBackOwnLast
=============================================================================
