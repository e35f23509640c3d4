-------------------------- MODULE EnrollmentProofs --------------------------
(***************************************************************************)
(* What TLAPS proves of Enrollment for any number of sessions and requests.*)
(***************************************************************************)
EXTENDS Enrollment, FiniteSetTheorems, TLAPS

----------------------------------------------------------------------------
(* Where a request is in its plan.                                         *)

LEMMA PlanLengths ==
  ASSUME NEW kind \in Kinds
  PROVE  1 <= Len(Plan[kind]) /\ Len(Plan[kind]) \in Nat /\ Len(Plan[kind]) <= 11
PROOF
  <1>1. CASE kind = "start"
    <2>1. Plan[kind] = Start /\ Len(Start) = 9
      BY <1>1 DEF Plan, Start
    <2> QED BY <2>1
  <1>2. CASE kind = "confirm"
    <2>1. Plan[kind] = Confirm /\ Len(Confirm) = 11
      BY <1>2 DEF Plan, Confirm
    <2> QED BY <2>1
  <1>3. CASE kind = "passkey"
    <2>1. Plan[kind] = Passkey /\ Len(Passkey) = 8
      BY <1>3 DEF Plan, Passkey
    <2> QED BY <2>1
  <1>4. CASE kind = "addTotp"
    <2>1. Plan[kind] = AddTotp /\ Len(AddTotp) = 7
      BY <1>4 DEF Plan, AddTotp
    <2> QED BY <2>1
  <1>5. CASE kind = "addPasskey"
    <2>1. Plan[kind] = AddPasskey /\ Len(AddPasskey) = 9
      BY <1>5 DEF Plan, AddPasskey
    <2> QED BY <2>1
  <1>6. CASE kind = "complete"
    <2>1. Plan[kind] = Complete /\ Len(Complete) = 4
      BY <1>6 DEF Plan, Complete
    <2> QED BY <2>1
  <1>7. CASE kind = "ensure"
    <2>1. Plan[kind] = Ensure /\ Len(Ensure) = 5
      BY <1>7 DEF Plan, Ensure
    <2> QED BY <2>1
  <1>8. CASE kind = "regenerate"
    <2>1. Plan[kind] = Regenerate /\ Len(Regenerate) = 3
      BY <1>8 DEF Plan, Regenerate
    <2> QED BY <2>1
  <1>9. CASE kind = "cancel"
    <2>1. Plan[kind] = Cancel /\ Len(Cancel) = 4
      BY <1>9 DEF Plan, Cancel
    <2> QED BY <2>1
  <1> QED BY <1>1, <1>2, <1>3, <1>4, <1>5, <1>6, <1>7, <1>8, <1>9 DEF Kinds, Plan

\* The statements the proofs speak of, at their places.
PlanPlace(kind, at, op) ==
  /\ op = "any" => at = 1 /\ kind \in {"addTotp", "addPasskey"}
  /\ op = "find" => (at = 3 /\ kind = "confirm") \/ (at = 4 /\ kind = "addTotp")
  /\ op = "confirm" => (at = 4 /\ kind = "confirm") \/ (at = 5 /\ kind = "addTotp")
  /\ op = "insert" => (at = 5 /\ kind = "passkey") \/ (at = 7 /\ kind = "addPasskey")
  /\ op = "create" => at = 4 /\ kind = "start"
  /\ op = "clearPending" => at = 1 /\ kind = "cancel"
  /\ op = "clear" => at = 3 /\ kind = "start"
  /\ op = "resume" => at = 1 /\ kind = "start"
  /\ op = "fresh" => \/ at = 5 /\ kind = "start"
                     \/ at = 4 /\ kind = "addPasskey"
                     \/ at = 2 /\ kind = "cancel"
  /\ op = "unstashed" => \/ at = 6 /\ kind = "confirm"
                         \/ at = 1 /\ kind = "ensure"
  /\ kind = "confirm" /\ at = 5 => op = "commit"
  /\ kind = "passkey" /\ at = 6 => op = "commit"
  /\ kind = "addTotp" /\ at = 7 => op = "commit"
  /\ kind = "addPasskey" /\ at = 9 => op = "commit"
  /\ kind = "start" /\ at = 8 => op = "commit"
  /\ kind = "cancel" /\ at = 4 => op = "commit"
  /\ op = "lock" <=> \/ at = 1 /\ kind \in {"confirm", "passkey"}
                     \/ at = 2 /\ kind \in {"addTotp", "addPasskey"}
  /\ op = "none" <=> \/ at = 2 /\ kind \in {"confirm", "passkey"}
                     \/ at = 3 /\ kind \in {"addTotp", "addPasskey"}

LEMMA PlanPlaces ==
  ASSUME NEW kind \in Kinds, NEW at \in Nat, at >= 1, at <= Len(Plan[kind])
  PROVE  /\ Len(Plan[kind]) <= 11 /\ Len(Plan[kind]) \in Nat /\ at <= 11
         /\ PlanPlace(kind, at, Plan[kind][at])
PROOF
  <1> USE DEF PlanPlace
  <1>1. CASE kind = "start"
    <2>1. Plan[kind] = Start /\ Len(Start) = 9
      BY <1>1 DEF Start, Plan, Kinds
    <2> QED BY <2>1, <1>1, SMTT(60) DEF Start
  <1>2. CASE kind = "confirm"
    <2>1. Plan[kind] = Confirm /\ Len(Confirm) = 11
      BY <1>2 DEF Confirm, Plan, Kinds
    <2> QED BY <2>1, <1>2, SMTT(60) DEF Confirm
  <1>3. CASE kind = "passkey"
    <2>1. Plan[kind] = Passkey /\ Len(Passkey) = 8
      BY <1>3 DEF Passkey, Plan, Kinds
    <2> QED BY <2>1, <1>3, SMTT(60) DEF Passkey
  <1>4. CASE kind = "addTotp"
    <2>1. Plan[kind] = AddTotp /\ Len(AddTotp) = 7
      BY <1>4 DEF AddTotp, Plan, Kinds
    <2> QED BY <2>1, <1>4, SMTT(60) DEF AddTotp
  <1>5. CASE kind = "addPasskey"
    <2>1. Plan[kind] = AddPasskey /\ Len(AddPasskey) = 9
      BY <1>5 DEF AddPasskey, Plan, Kinds
    <2> QED BY <2>1, <1>5, SMTT(60) DEF AddPasskey
  <1>6. CASE kind = "complete"
    <2>1. Plan[kind] = Complete /\ Len(Complete) = 4
      BY <1>6 DEF Complete, Plan, Kinds
    <2> QED BY <2>1, <1>6, SMTT(60) DEF Complete
  <1>7. CASE kind = "ensure"
    <2>1. Plan[kind] = Ensure /\ Len(Ensure) = 5
      BY <1>7 DEF Ensure, Plan, Kinds
    <2> QED BY <2>1, <1>7, SMTT(60) DEF Ensure
  <1>8. CASE kind = "regenerate"
    <2>1. Plan[kind] = Regenerate /\ Len(Regenerate) = 3
      BY <1>8 DEF Regenerate, Plan, Kinds
    <2> QED BY <2>1, <1>8, SMTT(60) DEF Regenerate
  <1>9. CASE kind = "cancel"
    <2>1. Plan[kind] = Cancel /\ Len(Cancel) = 4
      BY <1>9 DEF Cancel, Plan, Kinds
    <2> QED BY <2>1, <1>9, SMTT(60) DEF Cancel
  <1> HIDE DEF PlanPlace
  <1>10. kind \in {"start", "confirm", "passkey", "addTotp", "addPasskey", "complete", "ensure",
                   "regenerate", "cancel"}
    BY DEF Kinds, Plan
  <1> QED BY <1>10, <1>1, <1>2, <1>3, <1>4, <1>5, <1>6, <1>7, <1>8, <1>9

\* Where its transactions end.
LEMMA CommitPlaces ==
  ASSUME NEW kind \in Kinds, NEW at \in Nat, at >= 1, at <= Len(Plan[kind]),
         Plan[kind][at] = "commit"
  PROVE  /\ kind = "start" => at = 8
         /\ kind = "confirm" => at \in {5, 9}
         /\ kind = "passkey" => at = 6
         /\ kind = "addTotp" => at = 7
         /\ kind = "addPasskey" => at = 9
PROOF
  <1>1. CASE kind = "start"
    <2>1. Plan[kind] = Start /\ Len(Start) = 9
      BY <1>1 DEF Plan, Start
    <2> QED BY <2>1, <1>1 DEF Start
  <1>2. CASE kind = "confirm"
    <2>1. Plan[kind] = Confirm /\ Len(Confirm) = 11
      BY <1>2 DEF Plan, Confirm
    <2> QED BY <2>1, <1>2 DEF Confirm
  <1>3. CASE kind = "passkey"
    <2>1. Plan[kind] = Passkey /\ Len(Passkey) = 8
      BY <1>3 DEF Plan, Passkey
    <2> QED BY <2>1, <1>3 DEF Passkey
  <1>4. CASE kind = "addTotp"
    <2>1. Plan[kind] = AddTotp /\ Len(AddTotp) = 7
      BY <1>4 DEF Plan, AddTotp
    <2> QED BY <2>1, <1>4 DEF AddTotp
  <1>5. CASE kind = "addPasskey"
    <2>1. Plan[kind] = AddPasskey /\ Len(AddPasskey) = 9
      BY <1>5 DEF Plan, AddPasskey
    <2> QED BY <2>1, <1>5 DEF AddPasskey
  <1> QED BY <1>1, <1>2, <1>3, <1>4, <1>5

----------------------------------------------------------------------------
(* Types.                                                                  *)

Totp == [by : Requests \cup {"none"}, confirmed : BOOLEAN, proved : BOOLEAN, owes : BOOLEAN]
Key == [there : BOOLEAN, proved : BOOLEAN, owes : BOOLEAN]
Request == [kind : Kinds \cup {"none"}, s : Sessions \cup {"none"}, at : 0..12, looked : BOOLEAN,
            want : SUBSET Rows, did : SUBSET (DidOps \X Rows), seen : Requests \cup {"none"},
            first : BOOLEAN, proved : BOOLEAN, made : BOOLEAN, finish : BOOLEAN,
            state : {"idle", "open", "ok", "refused"}]

TotpType == totp \in Totp /\ (totp.confirmed => totp.by # "none") /\ (totp.owes => totp.confirmed)
KeysType == keys \in [Makers -> Key] /\ codes \subseteq Makers
RestType == /\ stage \in [Sessions -> {Enroll, Backup, Full}]
            /\ stash \in [Sessions -> Requests \cup {"none"}]
            /\ won \in [Requests -> Requests \cup {"none"}]
RequestType == request \in [Requests -> Request]
\* An open request is at a statement of its plan, or past the last.
Working == \A r \in Requests : Open(r) =>
  request[r].kind \in Kinds /\ request[r].s \in Sessions /\ request[r].at >= 1

Types == TotpType /\ KeysType /\ RestType /\ RequestType /\ Working

LEMMA TypeParts == Types => TypeOK
PROOF
  BY DEF Types, TotpType, KeysType, RestType, RequestType, Request, Totp, Key, TypeOK

LEMMA NoRequestType ==
  NoRequest \in Request /\ [NoRequest EXCEPT !.state = "refused"] \in Request
PROOF
  <1>1. 0 \in 0..12
    OBVIOUS
  <1>2. NoRequest \in Request
    BY <1>1, Zenon DEF NoRequest, Request
  <1> QED BY <1>2, Zenon DEF Request

\* Every way of changing one request.
LEMMA RequestFields ==
  ASSUME NEW q \in Request, NEW at \in 0..12, NEW b \in BOOLEAN
  PROVE  /\ [q EXCEPT !.at = at] \in Request
         /\ [q EXCEPT !.at = at, !.first = TRUE] \in Request
         /\ [q EXCEPT !.at = at, !.proved = TRUE] \in Request
         /\ [q EXCEPT !.at = at, !.finish = b] \in Request
         /\ [q EXCEPT !.at = at, !.did = {}] \in Request
         /\ [q EXCEPT !.state = "ok"] \in Request
PROOF
  <1>1. [q EXCEPT !.at = at] \in Request /\ [q EXCEPT !.state = "ok"] \in Request
    BY Zenon DEF Request
  <1>2. [q EXCEPT !.at = at, !.first = TRUE] \in Request
    BY Zenon DEF Request
  <1>3. [q EXCEPT !.at = at, !.proved = TRUE] \in Request
    BY Zenon DEF Request
  <1>4. [q EXCEPT !.at = at, !.finish = b] \in Request
    BY Zenon DEF Request
  <1>5. [q EXCEPT !.at = at, !.did = {}] \in Request
    BY Zenon DEF Request
  <1> QED BY <1>1, <1>2, <1>3, <1>4, <1>5, Zenon

----------------------------------------------------------------------------
(* What a step makes of the request that takes it.                         *)

Keeps(x, y) == /\ y.kind = x.kind /\ y.s = x.s /\ y.seen = x.seen /\ y.proved = x.proved
               /\ y.state = x.state
Moved(r, y) == y \in Request /\ request' = [request EXCEPT ![r] = y]
Moves(r, y) == Moved(r, y) /\ Keeps(request[r], y) /\ y.did = request[r].did

LEMMA RequestSet ==
  ASSUME RequestType, NEW r \in Requests, NEW y, Moved(r, y)
  PROVE  RequestType' /\ \A q \in Requests : request'[q] = IF q = r THEN y ELSE request[q]
PROOF
  BY DEF RequestType, Moved

LEMMA GotoMoves ==
  ASSUME RequestType, NEW r \in Requests, NEW at \in 0..12, Goto(r, at)
  PROVE  \E y : Moves(r, y) /\ y.at = at
PROOF
  <1> DEFINE y == [request[r] EXCEPT !.at = at]
  <1>1. request[r] \in Request
    BY DEF RequestType
  <1>2. y \in Request
    BY <1>1, RequestFields
  <1>3. Keeps(request[r], y) /\ y.did = request[r].did /\ y.at = at
    BY <1>1, Zenon DEF Request, Keeps
  <1>4. request' = [request EXCEPT ![r] = y]
    BY DEF Goto
  <1> HIDE DEF y
  <1> QED BY <1>2, <1>3, <1>4 DEF Moves, Moved

\* A request that is refused holds nothing.
LEMMA RefuseStops ==
  ASSUME RequestType, NEW r \in Requests, Refuse(r)
  PROVE  \E y : Moved(r, y) /\ y.state = "refused"
PROOF
  <1> DEFINE y == [NoRequest EXCEPT !.state = "refused"]
  <1>1. y \in Request
    BY NoRequestType
  <1>2. y.state = "refused"
    BY NoRequestType, Zenon DEF Request
  <1>3. request' = [request EXCEPT ![r] = y]
    BY DEF Refuse
  <1> HIDE DEF y
  <1> QED BY <1>1, <1>2, <1>3 DEF Moved

LEMMA StepPlace ==
  ASSUME RequestType, Working, NEW r \in Requests, Open(r), ~Done(r)
  PROVE  /\ request[r] \in Request /\ request[r].kind \in Kinds /\ request[r].at \in 1..11
         /\ request[r].at <= Len(Plan[request[r].kind])
         /\ Len(Plan[request[r].kind]) \in Nat /\ Len(Plan[request[r].kind]) <= 11
PROOF
  <1>1. request[r] \in Request
    BY DEF RequestType
  <1>2. request[r].kind \in Kinds /\ request[r].at >= 1 /\ request[r].at \in 0..12
    BY <1>1, Zenon DEF Working, Request
  <1>3. 1 <= Len(Plan[request[r].kind]) /\ Len(Plan[request[r].kind]) \in Nat
        /\ Len(Plan[request[r].kind]) <= 11
    BY <1>2, PlanLengths
  <1>4. request[r].at <= Len(Plan[request[r].kind])
    BY <1>2, <1>3, SMTT(30) DEF Done
  <1>5. request[r].at \in 1..11
    BY <1>2, <1>3, <1>4
  <1> QED BY <1>1, <1>2, <1>3, <1>4, <1>5

\* The statement a request is at, by its place in the plan.
LEMMA OpPlaces ==
  ASSUME RequestType, Working, NEW r \in Requests, Open(r), ~Done(r)
  PROVE  PlanPlace(request[r].kind, request[r].at, Op(r))
PROOF
  <1>1. /\ request[r].kind \in Kinds /\ request[r].at \in Nat /\ request[r].at >= 1
        /\ request[r].at <= Len(Plan[request[r].kind])
    BY StepPlace
  <1>2. PlanPlace(request[r].kind, request[r].at, Plan[request[r].kind][request[r].at])
    BY <1>1, PlanPlaces
  <1> QED BY <1>2 DEF Op

\* Where a write looks for its rows.
LEMMA MatchesRows ==
  ASSUME TotpType, KeysType, NEW r \in Requests, Op(r) \in WriteOps
  PROVE  Matches(r) \subseteq Rows
PROOF
  <1>1. totp.by # "none" => <<"totp", totp.by>> \in Rows
    BY DEF TotpType, Totp, Rows, Makers
  <1>2. {"codes"} \X codes \subseteq Rows
    BY DEF KeysType, Rows
  <1>3. ({"key"} \X {k \in Makers : keys[k].there /\ keys[k].owes}) \subseteq Rows
    BY DEF Rows
  <1> QED BY <1>1, <1>2, <1>3 DEF Matches, WriteOps

----------------------------------------------------------------------------
(* The invariant.                                                          *)

LockRow(r) == <<"lock", <<"lock", r>>>>
CreateRow(r) == <<"create", <<"totp", r>>>>
\* Past the lock, and past the check under it, on the way to add a method unproven.
Locked(x) ==
  \/ x.kind = "confirm" /\ x.at \in 2..5
  \/ x.kind = "passkey" /\ x.at \in 2..6
  \/ x.kind = "addTotp" /\ x.at \in 3..7 /\ ~x.proved
  \/ x.kind = "addPasskey" /\ x.at \in 3..9 /\ ~x.proved
Checked(x) ==
  \/ x.kind = "confirm" /\ x.at \in 3..5
  \/ x.kind = "passkey" /\ x.at \in 3..6
  \/ x.kind = "addTotp" /\ x.at \in 4..7 /\ ~x.proved
  \/ x.kind = "addPasskey" /\ x.at \in 4..9 /\ ~x.proved
\* Where the writes of a transaction that has yet to commit may be.
Did(x, op) == \E row \in Rows : <<op, row>> \in x.did
Shape(r, x) ==
  /\ Did(x, "confirm") => \/ x.kind = "confirm" /\ x.at = 5
                          \/ x.kind = "addTotp" /\ x.at \in 6..7
  /\ Did(x, "insert") => \/ x.kind = "passkey" /\ x.at = 6
                         \/ x.kind = "addPasskey" /\ x.at \in 8..9
  /\ Did(x, "create") => x.kind = "start" /\ x.at \in 5..8
  /\ Did(x, "clear") => x.kind = "start" /\ x.at \in 4..8
  /\ Did(x, "clearPending") => x.kind = "cancel" /\ x.at \in 2..4
\* The writes to the authenticator's row.
TotpOps == {"clear", "clearPending", "confirm"}
TakesTotp(x) == \E op \in TotpOps : Did(x, op)
OnTotp(x) ==
  /\ \A op \in TotpOps, row \in Rows : <<op, row>> \in x.did => totp.by # "none" /\ row = <<"totp", totp.by>>
  /\ Did(x, "confirm") => x.seen = totp.by /\ ~totp.confirmed
  /\ Did(x, "create") => totp.by = "none" \/ Did(x, "clear")
\* No method of the account was added unproven.
Clean == UnprovenKeys = {} /\ ~(totp.confirmed /\ ~totp.proved)

Local(r, x) == x.state = "open" =>
  /\ Locked(x) => LockRow(r) \in x.did
  /\ Shape(r, x) /\ OnTotp(x)
  /\ Checked(x) => Clean
Apart(x, y) == x.state = "open" /\ y.state = "open" =>
  /\ ~(Did(x, "lock") /\ Did(y, "lock"))
  /\ ~(TakesTotp(x) /\ TakesTotp(y))
  /\ ~(Did(x, "create") /\ Did(y, "create"))
AllLocal == \A r \in Requests : Local(r, request[r])
AllApart == \A r, q \in Requests : r # q => Apart(request[r], request[q])

\* A request that has made an authenticator makes no other.
Spent(x) == x.state # "idle" /\ (x.state = "open" => x.kind # "start" \/ x.at > 8)
OneUnproven ==
  /\ \A k, l \in UnprovenKeys : k = l
  /\ totp.confirmed /\ ~totp.proved => UnprovenKeys = {}
Wins ==
  /\ totp.by # "none" => Spent(request[totp.by])
  /\ \A r \in Requests : won[r] # "none" => Spent(request[won[r]])
  /\ \A r \in Requests : totp.by # "none" /\ won[r] = totp.by => totp.confirmed
  /\ \A r, q \in Requests : r # q /\ won[r] = won[q] => won[r] = "none"
  /\ totp.confirmed => \E r \in Requests : won[r] = totp.by

IInv == Types /\ AllLocal /\ AllApart /\ OneUnproven /\ Wins

----------------------------------------------------------------------------
(* What a step other than a commit makes of the request that takes it.     *)

Stops(r, y) == y.state \in {"ok", "refused"}
Jumps(x, y) ==
  \/ x.kind = "start" /\ x.at = 1 /\ y.at = 10
  \/ x.kind = "confirm" /\ x.at = 6 /\ y.at = 11
  \/ x.kind = "ensure" /\ x.at = 1 /\ y.at = 6
  \/ x.kind = "start" /\ x.at = 5 /\ y.at = 8
  \/ x.kind = "addPasskey" /\ x.at = 4 /\ y.at = 7
  \/ x.kind = "cancel" /\ x.at = 2 /\ y.at = 4
Passes(r, y) ==
  /\ Keeps(request[r], y) /\ y.did = request[r].did
  /\ \/ y.at = request[r].at
     \/ y.at = request[r].at + 1 /\ Op(r) \notin {"lock", "none", "commit"}
     \/ Jumps(request[r], y)
Proves(r, y) ==
  /\ Op(r) = "any" /\ y.did = request[r].did /\ y.at = request[r].at + 3 /\ y.proved
  /\ y.kind = request[r].kind /\ y.s = request[r].s /\ y.state = "open"
Finds(r, y) ==
  /\ Op(r) = "find" /\ y.did = request[r].did /\ y.at = request[r].at + 1
  /\ y.kind = request[r].kind /\ y.s = request[r].s /\ y.state = "open"
  /\ y.proved = request[r].proved
SeesNone(r, y) ==
  /\ Op(r) = "none" /\ ~HasMethod(r) /\ Keeps(request[r], y)
  /\ y.did = request[r].did /\ y.at = request[r].at + 1
Locks(r, y) ==
  /\ Op(r) = "lock" /\ Keeps(request[r], y) /\ y.at = request[r].at + 1
  /\ \A q \in Requests : Open(q) => Wrote(q, "lock") = {}
  /\ y.did = request[r].did \cup {LockRow(r)}
Runs(r, y) ==
  /\ Op(r) \in WriteOps /\ Keeps(request[r], y)
  /\ \E rows \in SUBSET Matches(r) :
       /\ Free(rows, r) /\ y.did = request[r].did \cup ({Op(r)} \X rows)
       /\ \/ y.at = request[r].at + 1
          \/ Op(r) = "clearPending" /\ rows = {} /\ y.at = 5
Creates(r, y) ==
  /\ Op(r) = "create" /\ Keeps(request[r], y) /\ y.at = request[r].at + 1
  /\ \A q \in Requests \ {r} :
       Open(q) => Wrote(q, "create") \cup Wrote(q, "clear") \cup Wrote(q, "clearPending") = {}
  /\ totp.by = "none" \/ Wrote(r, "clear") # {}
  /\ y.did = request[r].did \cup {CreateRow(r)}
Inserts(r, y) ==
  /\ Op(r) \in {"batch", "insert"} /\ Keeps(request[r], y) /\ y.at = request[r].at + 1
  /\ \E row \in Rows : y.did = request[r].did \cup {<<Op(r), row>>}

Turn(r, y) ==
  \/ Stops(r, y) \/ Passes(r, y) \/ Proves(r, y) \/ Finds(r, y) \/ SeesNone(r, y) \/ Locks(r, y)
  \/ Runs(r, y) \/ Creates(r, y) \/ Inserts(r, y)
Turns(r) == \E y : Moved(r, y) /\ Turn(r, y)

LEMMA RefuseTurns == ASSUME RequestType, NEW r \in Requests, Refuse(r)  PROVE Turns(r)
PROOF
  BY RefuseStops DEF Turns, Turn, Stops

LEMMA NextTurns ==
  ASSUME RequestType, Working, NEW r \in Requests, Open(r), ~Done(r),
         Op(r) \notin {"lock", "none", "commit"}, Next1(r)
  PROVE  Turns(r)
PROOF
  <1>1. request[r].at + 1 \in 0..12
    BY StepPlace, SMTT(30)
  <1>2. PICK y : Moves(r, y) /\ y.at = request[r].at + 1
    BY <1>1, GotoMoves DEF Next1
  <1> QED BY <1>2 DEF Turns, Turn, Passes, Moves

LEMMA ResumeTurns ==
  ASSUME RequestType, Working, NEW r \in Requests, Open(r), ~Done(r), Resume(r)
  PROVE  Turns(r)
PROOF
  <1>1. CASE Finish(r)
    <2>a. request[r].kind = "start" /\ request[r].at = 1
      BY OpPlaces DEF Resume, PlanPlace
    <2>1. request[r].kind = "start" /\ request[r].at = 1 /\ Len(Plan["start"]) = 9
      BY <2>a DEF Plan, Start
    <2>2. PICK y : Moves(r, y) /\ y.at = 10
      BY <1>1, <2>1, GotoMoves DEF Finish
    <2> QED BY <2>1, <2>2 DEF Turns, Turn, Passes, Jumps, Moves
  <1> QED BY <1>1, RefuseTurns, NextTurns DEF Resume

LEMMA UnstashedTurns ==
  ASSUME RequestType, Working, NEW r \in Requests, Open(r), ~Done(r), Unstashed(r)
  PROVE  Turns(r)
PROOF
  <1>0. \/ request[r].at = 6 /\ request[r].kind = "confirm"
        \/ request[r].at = 1 /\ request[r].kind = "ensure"
    BY OpPlaces DEF Unstashed, PlanPlace
  <1>1. CASE request[r].kind = "ensure" /\ Finish(r)
    <2>1. request[r].at = 1 /\ Len(Plan["ensure"]) = 5
      BY <1>0, <1>1 DEF Plan, Ensure
    <2>2. PICK y : Moves(r, y) /\ y.at = 6
      BY <1>1, <2>1, GotoMoves DEF Finish
    <2> QED BY <1>1, <2>1, <2>2 DEF Turns, Turn, Passes, Jumps, Moves
  <1>2. CASE request[r].kind = "confirm" /\ Goto(r, Len(Confirm))
    <2>1. request[r].at = 6 /\ Len(Confirm) = 11
      BY <1>0, <1>2 DEF Confirm
    <2>2. PICK y : Moves(r, y) /\ y.at = 11
      BY <1>2, <2>1, GotoMoves
    <2> QED BY <1>2, <2>1, <2>2 DEF Turns, Turn, Passes, Jumps, Moves
  <1> QED BY <1>1, <1>2, NextTurns DEF Unstashed

LEMMA SimpleTurns ==
  ASSUME RequestType, Working, NEW r \in Requests, Open(r), ~Done(r),
         StillNoTotp(r) \/ Stashed(r) \/ Stash(r) \/ Promote(r)
  PROVE  Turns(r)
PROOF
  BY NextTurns, RefuseTurns DEF StillNoTotp, Stashed, Stash, Promote

LEMMA LockTurns ==
  ASSUME RequestType, Working, NEW r \in Requests, Open(r), ~Done(r), Lock(r)
  PROVE  Turns(r)
PROOF
  <1> DEFINE y == [request[r] EXCEPT !.at = request[r].at + 1, !.did = request[r].did \cup {LockRow(r)}]
  <1>1. request[r] \in Request /\ request[r].at + 1 \in 0..12
    BY StepPlace, SMTT(30)
  <1>2. request[r].did \cup {LockRow(r)} \in SUBSET (DidOps \X Rows)
    BY <1>1 DEF Request, LockRow, DidOps, Rows, Makers
  <1>3. y \in Request
    BY <1>1, <1>2, Zenon DEF Request
  <1>4. Keeps(request[r], y) /\ y.at = request[r].at + 1 /\ y.did = request[r].did \cup {LockRow(r)}
    BY <1>1, Zenon DEF Request, Keeps
  <1>5. request' = [request EXCEPT ![r] = y]
    BY DEF Lock, LockRow
  <1> HIDE DEF y
  <1> QED BY <1>3, <1>4, <1>5 DEF Turns, Turn, Locks, Moved, Lock

LEMMA StillNoneTurns ==
  ASSUME RequestType, Working, NEW r \in Requests, Open(r), ~Done(r), StillNone(r)
  PROVE  Turns(r)
PROOF
  <1>1. CASE HasMethod(r)
    BY <1>1, RefuseTurns DEF StillNone
  <1>2. CASE ~HasMethod(r)
    <2> DEFINE at == request[r].at + 1
               y == [request[r] EXCEPT !.at = at, !.first = TRUE]
    <2>1. request[r] \in Request /\ at \in 0..12
      BY StepPlace, SMTT(30)
    <2>2. request' = [request EXCEPT ![r] = y]
      BY <1>2 DEF StillNone
    <2> HIDE DEF at
    <2>3. y \in Request
      BY <2>1, RequestFields
    <2>4. Keeps(request[r], y) /\ y.at = at /\ y.did = request[r].did
      BY <2>1, Zenon DEF Request, Keeps
    <2> HIDE DEF y
    <2> QED BY <1>2, <2>2, <2>3, <2>4 DEF Turns, Turn, SeesNone, Moved, StillNone, at
  <1> QED BY <1>1, <1>2

LEMMA AskProofTurns ==
  ASSUME RequestType, Working, NEW r \in Requests, Open(r), ~Done(r), AskProof(r)
  PROVE  Turns(r)
PROOF
  <1>0. Op(r) = "any" /\ request[r].at = 1
    BY OpPlaces DEF AskProof, PlanPlace
  <1>1. CASE HasMethod(r)
    <2> DEFINE at == request[r].at + 3
               y == [request[r] EXCEPT !.at = at, !.proved = TRUE]
    <2>1. request[r] \in Request /\ at \in 0..12
      BY <1>0, StepPlace
    <2>2. request' = [request EXCEPT ![r] = y]
      BY <1>1 DEF AskProof
    <2> HIDE DEF at
    <2>3. y \in Request
      BY <2>1, RequestFields
    <2>4. /\ y.kind = request[r].kind /\ y.s = request[r].s /\ y.state = request[r].state
          /\ y.at = at /\ y.did = request[r].did /\ y.proved = TRUE
      BY <2>1, Zenon DEF Request
    <2> HIDE DEF y
    <2> QED BY <1>0, <2>2, <2>3, <2>4 DEF Turns, Turn, Proves, Moved, Open, at
  <1>2. CASE ~HasMethod(r)
    BY <1>0, <1>2, NextTurns DEF AskProof
  <1> QED BY <1>1, <1>2

LEMMA FindTurns ==
  ASSUME RequestType, Working, TotpType, NEW r \in Requests, Open(r), ~Done(r), Find(r)
  PROVE  Turns(r)
PROOF
  <1>1. CASE Refuse(r)
    BY <1>1, RefuseTurns
  <1>2. CASE request' = [request EXCEPT ![r].at = @ + 1, ![r].seen = totp.by, ![r].first = ~HasMethod(r)]
    <2> DEFINE at == request[r].at + 1  seen == totp.by  first == ~HasMethod(r)
               y == [request[r] EXCEPT !.at = at, !.seen = seen, !.first = first]
    <2>1. request[r] \in Request /\ at \in 0..12 /\ seen \in Requests \cup {"none"} /\ first \in BOOLEAN
      BY StepPlace DEF TotpType, Totp
    <2>2. request' = [request EXCEPT ![r] = y]
      BY <1>2
    <2> HIDE DEF at, seen, first
    <2>3. y \in Request
      BY <2>1, Zenon DEF Request
    <2>4. /\ y.kind = request[r].kind /\ y.s = request[r].s /\ y.state = request[r].state
          /\ y.at = at /\ y.did = request[r].did /\ y.proved = request[r].proved
      BY <2>1, Zenon DEF Request
    <2> HIDE DEF y
    <2> QED BY <2>2, <2>3, <2>4 DEF Turns, Turn, Finds, Find, Moved, Open, at
  <1> QED BY <1>1, <1>2 DEF Find

LEMMA FreshTurns ==
  ASSUME RequestType, Working, NEW r \in Requests, Open(r), ~Done(r), FreshCodes(r)
  PROVE  Turns(r)
PROOF
  <1>0. /\ Op(r) = "fresh"
        /\ \/ request[r].at = 5 /\ request[r].kind = "start"
           \/ request[r].at = 4 /\ request[r].kind = "addPasskey"
           \/ request[r].at = 2 /\ request[r].kind = "cancel"
    BY OpPlaces DEF FreshCodes, PlanPlace
  <1>1. CASE HasMethod(r)
    <2>1. \/ request[r].at = 5 /\ request[r].kind = "start" /\ AfterCodes[request[r].kind] = 8
          \/ request[r].at = 4 /\ request[r].kind = "addPasskey" /\ AfterCodes[request[r].kind] = 7
          \/ request[r].at = 2 /\ request[r].kind = "cancel" /\ AfterCodes[request[r].kind] = 4
      BY <1>0 DEF AfterCodes
    <2>2. PICK y : Moves(r, y) /\ y.at = AfterCodes[request[r].kind]
      BY <1>1, <2>1, GotoMoves DEF FreshCodes
    <2> QED BY <2>1, <2>2 DEF Turns, Turn, Passes, Jumps, Moves
  <1>2. CASE ~HasMethod(r)
    <2> DEFINE at == request[r].at + 1
               y == [request[r] EXCEPT !.at = at, !.first = TRUE]
    <2>1. request[r] \in Request /\ at \in 0..12
      BY StepPlace, SMTT(30)
    <2>2. request' = [request EXCEPT ![r] = y]
      BY <1>2 DEF FreshCodes
    <2> HIDE DEF at
    <2>3. y \in Request
      BY <2>1, RequestFields
    <2>4. Keeps(request[r], y) /\ y.at = at /\ y.did = request[r].did
      BY <2>1, Zenon DEF Request, Keeps
    <2> HIDE DEF y
    <2> QED BY <1>0, <2>2, <2>3, <2>4 DEF Turns, Turn, Passes, Moved, at
  <1> QED BY <1>1, <1>2

LEMMA FinishTurns ==
  ASSUME RequestType, Working, NEW r \in Requests, Open(r), ~Done(r), FinishStage(r)
  PROVE  Turns(r)
PROOF
  <1>0. PICK b \in BOOLEAN :
          request' = [request EXCEPT ![r].at = @ + 1, ![r].finish = b]
    BY DEF FinishStage
  <1> DEFINE at == request[r].at + 1
             y == [request[r] EXCEPT !.at = at, !.finish = b]
  <1>1. request[r] \in Request /\ at \in 0..12
    BY StepPlace
  <1>2. request' = [request EXCEPT ![r] = y]
    BY <1>0
  <1> HIDE DEF at
  <1>3. y \in Request
    BY <1>1, RequestFields
  <1>4. Keeps(request[r], y) /\ y.at = at /\ y.did = request[r].did
    BY <1>1, Zenon DEF Request, Keeps
  <1> HIDE DEF y
  <1> QED BY <1>2, <1>3, <1>4 DEF Turns, Turn, Passes, Moved, FinishStage, at

LEMMA LookTurns ==
  ASSUME RequestType, Working, TotpType, KeysType, NEW r \in Requests, Open(r), ~Done(r), Look(r)
  PROVE  Turns(r)
PROOF
  <1> DEFINE want == Matches(r)
             y == [request[r] EXCEPT !.looked = TRUE, !.want = want]
  <1>1. request[r] \in Request /\ want \in SUBSET Rows
    BY StepPlace, MatchesRows DEF Look
  <1>2. request' = [request EXCEPT ![r] = y]
    BY DEF Look
  <1> HIDE DEF want
  <1>3. y \in Request
    BY <1>1, Zenon DEF Request
  <1>4. Keeps(request[r], y) /\ y.at = request[r].at /\ y.did = request[r].did
    BY <1>1, Zenon DEF Request, Keeps
  <1> HIDE DEF y
  <1> QED BY <1>2, <1>3, <1>4 DEF Turns, Turn, Passes, Moved

LEMMA RunTurns ==
  ASSUME RequestType, Working, TotpType, KeysType, NEW r \in Requests, Open(r), ~Done(r), Run(r)
  PROVE  Turns(r)
PROOF
  <1> DEFINE rows == request[r].want \cap Matches(r)
             at == IF Op(r) = "clearPending" /\ rows = {} THEN Len(Cancel) + 1 ELSE request[r].at + 1
             did == request[r].did \cup ({Op(r)} \X rows)
             y == [request[r] EXCEPT !.looked = FALSE, !.want = {}, !.did = did, !.at = at]
  <1>1. CASE Refuse(r)
    BY <1>1, RefuseTurns
  <1>2. CASE ~Refuse(r)
    <2>1. request' = [request EXCEPT ![r] = y]
      BY <1>2 DEF Run
    <2>2. request[r] \in Request /\ request[r].at + 1 \in 0..12 /\ Len(Cancel) = 4
      BY StepPlace DEF Cancel
    <2>3. at \in 0..12 /\ (at = request[r].at + 1 \/ (Op(r) = "clearPending" /\ rows = {} /\ at = 5))
      BY <2>2
    <2>4. rows \subseteq Rows /\ rows \in SUBSET Matches(r) /\ Op(r) \in WriteOps
      BY MatchesRows DEF Run
    <2>5. did \in SUBSET (DidOps \X Rows)
      BY <2>2, <2>4 DEF Request, DidOps
    <2>6. Free(rows, r)
      BY DEF Run, Free
    <2>7. did = request[r].did \cup ({Op(r)} \X rows)
      OBVIOUS
    <2> HIDE DEF at, did, rows
    <2>8. y \in Request
      BY <2>2, <2>3, <2>5, Zenon DEF Request
    <2>9. Keeps(request[r], y) /\ y.at = at /\ y.did = did
      BY <2>2, Zenon DEF Request, Keeps
    <2> HIDE DEF y
    <2>10. Runs(r, y)
      BY <2>3, <2>4, <2>6, <2>7, <2>9 DEF Runs
    <2> QED BY <2>1, <2>8, <2>10 DEF Turns, Turn, Moved
  <1> QED BY <1>1, <1>2

LEMMA CreateTurns ==
  ASSUME RequestType, Working, NEW r \in Requests, Open(r), ~Done(r), Create(r)
  PROVE  Turns(r)
PROOF
  <1>1. CASE totp.by # "none" /\ Wrote(r, "clear") = {}
    BY <1>1, RefuseTurns DEF Create
  <1>2. CASE ~(totp.by # "none" /\ Wrote(r, "clear") = {})
    <2> DEFINE at == request[r].at + 1
               did == request[r].did \cup {CreateRow(r)}
               y == [request[r] EXCEPT !.at = at, !.did = did]
    <2>1. request[r] \in Request /\ at \in 0..12
      BY StepPlace, SMTT(30)
    <2>2. did \in SUBSET (DidOps \X Rows)
      BY <2>1 DEF Request, CreateRow, DidOps, Rows, Makers
    <2>3. request' = [request EXCEPT ![r] = y]
      BY <1>2 DEF Create, CreateRow
    <2> HIDE DEF at, did
    <2>4. y \in Request
      BY <2>1, <2>2, Zenon DEF Request
    <2>5. Keeps(request[r], y) /\ y.at = at /\ y.did = did
      BY <2>1, Zenon DEF Request, Keeps
    <2> HIDE DEF y
    <2>6. Creates(r, y)
      BY <1>2, <2>5 DEF Creates, Create, at, did
    <2> QED BY <2>3, <2>4, <2>6 DEF Turns, Turn, Moved
  <1> QED BY <1>1, <1>2

LEMMA InsertTurns ==
  ASSUME RequestType, Working, NEW r \in Requests, Open(r), ~Done(r), Insert(r)
  PROVE  Turns(r)
PROOF
  <1> DEFINE at == request[r].at + 1
             row == <<IF Op(r) = "batch" THEN "codes" ELSE "key", r>>
             did == request[r].did \cup {<<Op(r), row>>}
             made == request[r].made \/ Op(r) = "batch"
             y == [request[r] EXCEPT !.at = at, !.did = did, !.made = made]
  <1>1. request[r] \in Request /\ at \in 0..12 /\ Op(r) \in {"batch", "insert"}
    BY StepPlace, SMTT(30) DEF Insert
  <1>2. row \in Rows /\ made \in BOOLEAN
    BY <1>1 DEF Rows, Makers, Request
  <1>3. did \in SUBSET (DidOps \X Rows)
    BY <1>1, <1>2 DEF Request, DidOps
  <1>4. request' = [request EXCEPT ![r] = y]
    BY DEF Insert
  <1>5. did = request[r].did \cup {<<Op(r), row>>}
    OBVIOUS
  <1> HIDE DEF at, did, made, row
  <1>6. y \in Request
    BY <1>1, <1>2, <1>3, Zenon DEF Request
  <1>7. Keeps(request[r], y) /\ y.at = at /\ y.did = did
    BY <1>1, Zenon DEF Request, Keeps
  <1> HIDE DEF y
  <1>8. Inserts(r, y)
    BY <1>1, <1>2, <1>5, <1>7 DEF Inserts, at
  <1> QED BY <1>4, <1>6, <1>8 DEF Turns, Turn, Moved

\* Steps that are no commit leave the account's rows alone.
RowsAlone == UNCHANGED <<totp, keys, codes, won>>

LEMMA StepTurns ==
  ASSUME Types, NEW r \in Requests, Step(r), ~Commit(r)
  PROVE  Turns(r) /\ RowsAlone
PROOF
  <1> USE DEF Types, Step
  <1>1. CASE Resume(r) \/ StillNoTotp(r) \/ Lock(r) \/ StillNone(r) \/ AskProof(r) \/ Find(r)
    BY <1>1, ResumeTurns, SimpleTurns, LockTurns, StillNoneTurns, AskProofTurns, FindTurns
       DEF RowsAlone, RowsSame, Resume, StillNoTotp, Lock, StillNone, AskProof, Find
  <1>2. CASE FreshCodes(r) \/ Unstashed(r) \/ Stashed(r) \/ Look(r) \/ Run(r)
    BY <1>2, FreshTurns, UnstashedTurns, SimpleTurns, LookTurns, RunTurns
       DEF RowsAlone, RowsSame, FreshCodes, Unstashed, Stashed, Look, Run
  <1>3. CASE Create(r) \/ Insert(r) \/ FinishStage(r) \/ Stash(r) \/ Promote(r)
    BY <1>3, CreateTurns, InsertTurns, FinishTurns, SimpleTurns
       DEF RowsAlone, RowsSame, Create, Insert, FinishStage, Stash, Promote
  <1> QED BY <1>1, <1>2, <1>3

----------------------------------------------------------------------------
(* What such a step does to the parts of the invariant.                    *)

\* Where it goes ...
Onward(r, y) ==
  /\ y.kind = request[r].kind /\ y.s = request[r].s /\ y.state = "open"
  /\ \/ Op(r) = "any" /\ y.at = request[r].at + 3 /\ y.proved
     \/ /\ y.proved = request[r].proved
        /\ \/ y.at = request[r].at
           \/ /\ y.at = request[r].at + 1 /\ Op(r) # "commit"
              /\ Op(r) = "lock" => LockRow(r) \in y.did
              /\ Op(r) = "none" => ~HasMethod(r)
           \/ Jumps(request[r], y)
           \/ Op(r) = "clearPending" /\ y.at = 5
\* ... and what it writes.
Added(r, y, op, row) ==
  /\ op = Op(r) /\ y.at = request[r].at + 1
  /\ op \in TotpOps => row \in Matches(r) /\ Free({row}, r)
  /\ op = "lock" => \A q \in Requests : Open(q) => Wrote(q, "lock") = {}
  /\ op = "create" =>
       /\ \A q \in Requests \ {r} :
            Open(q) => Wrote(q, "create") \cup Wrote(q, "clear") \cup Wrote(q, "clearPending") = {}
       /\ totp.by = "none" \/ Wrote(r, "clear") # {}
Adds(r, y) ==
  /\ request[r].did \subseteq y.did
  /\ \A op \in DidOps, row \in Rows :
       <<op, row>> \in y.did => <<op, row>> \in request[r].did \/ Added(r, y, op, row)
  /\ y.seen = request[r].seen \/ Op(r) \in {"any", "find"}

LEMMA TurnOnward ==
  ASSUME NEW r \in Requests, NEW y, Open(r), Turn(r, y)
  PROVE  Stops(r, y) \/ Onward(r, y)
PROOF
  <1>1. CASE Stops(r, y)
    BY <1>1
  <1>2. CASE Passes(r, y) \/ Proves(r, y) \/ Finds(r, y)
    BY <1>2 DEF Passes, Proves, Finds, Keeps, Onward, Open
  <1>3. CASE SeesNone(r, y) \/ Locks(r, y)
    BY <1>3 DEF SeesNone, Locks, Keeps, Onward, Open
  <1>4. CASE Runs(r, y) \/ Creates(r, y) \/ Inserts(r, y)
    BY <1>4 DEF Runs, Creates, Inserts, Keeps, Onward, Open, WriteOps
  <1> QED BY <1>1, <1>2, <1>3, <1>4 DEF Turn

LEMMA TurnAdds ==
  ASSUME NEW r \in Requests, NEW y, Open(r), Turn(r, y)
  PROVE  Stops(r, y) \/ Adds(r, y)
PROOF
  <1>1. CASE Passes(r, y) \/ Proves(r, y) \/ Finds(r, y) \/ SeesNone(r, y)
    BY <1>1 DEF Passes, Proves, Finds, SeesNone, Keeps, Adds
  <1>2. CASE Locks(r, y)
    BY <1>2 DEF Locks, Keeps, Adds, Added, LockRow, TotpOps
  <1>3. CASE Runs(r, y)
    <2>1. PICK rows \in SUBSET Matches(r) :
            /\ Free(rows, r) /\ y.did = request[r].did \cup ({Op(r)} \X rows)
            /\ \/ y.at = request[r].at + 1
               \/ Op(r) = "clearPending" /\ rows = {} /\ y.at = 5
      BY <1>3 DEF Runs
    <2>2. ASSUME NEW op \in DidOps, NEW row \in Rows, <<op, row>> \in y.did,
                 <<op, row>> \notin request[r].did
          PROVE  Added(r, y, op, row)
      <3>1. op = Op(r) /\ row \in rows
        BY <2>1, <2>2
      <3>2. Free({row}, r)
        BY <2>1, <3>1 DEF Free
      <3> QED BY <1>3, <2>1, <3>1, <3>2 DEF Added, Runs, WriteOps
    <2> QED BY <1>3, <2>1, <2>2 DEF Runs, Adds, Keeps
  <1>4. CASE Creates(r, y)
    BY <1>4 DEF Creates, Keeps, Adds, Added, CreateRow, TotpOps
  <1>5. CASE Inserts(r, y)
    BY <1>5 DEF Inserts, Keeps, Adds, Added, TotpOps
  <1> QED BY <1>1, <1>2, <1>3, <1>4, <1>5 DEF Turn

LEMMA OnwardLocal ==
  ASSUME Types, NEW r \in Requests, NEW y \in Request, Open(r), ~Done(r), Local(r, request[r]),
         Onward(r, y), Adds(r, y)
  PROVE  /\ Locked(y) => LockRow(r) \in y.did
         /\ Checked(y) => Clean
PROOF
  <1> DEFINE x == request[r]
  <1>1. /\ x \in Request /\ x.kind \in Kinds /\ x.at \in 1..11 /\ x.at <= Len(Plan[x.kind])
    BY StepPlace DEF Types
  <1>2. /\ Op(r) = "any" => x.at = 1 /\ x.kind \in {"addTotp", "addPasskey"}
        /\ Op(r) = "clearPending" => x.kind = "cancel"
        /\ Op(r) = "lock" <=> \/ x.at = 1 /\ x.kind \in {"confirm", "passkey"}
                              \/ x.at = 2 /\ x.kind \in {"addTotp", "addPasskey"}
        /\ Op(r) = "none" <=> \/ x.at = 2 /\ x.kind \in {"confirm", "passkey"}
                              \/ x.at = 3 /\ x.kind \in {"addTotp", "addPasskey"}
    <2>1. PlanPlace(x.kind, x.at, Op(r))
      BY OpPlaces DEF Types
    <2> QED BY <2>1, SMTT(30) DEF PlanPlace
  <1>3. /\ Locked(x) => LockRow(r) \in x.did
        /\ Shape(r, x)
        /\ Checked(x) => Clean
    BY DEF Local, Open
  <1>4. x.did \subseteq y.did
    BY DEF Adds
  <1>5. Locked(y) => Locked(x) \/ LockRow(r) \in y.did
    BY <1>1, <1>2, SMTT(30) DEF Onward, Locked, Jumps
  <1>6. ~HasMethod(r) /\ Op(r) = "none" => Clean
    <2>1. Op(r) = "none" => Wrote(r, "clear") = {}
      BY <1>2, <1>3 DEF Shape, Did, Wrote
    <2> QED BY <2>1 DEF HasMethod, Clean, UnprovenKeys
  <1>7. Checked(y) => Checked(x) \/ (Op(r) = "none" /\ ~HasMethod(r))
    BY <1>1, <1>2, SMTT(30) DEF Onward, Checked, Jumps
  <1> QED BY <1>3, <1>4, <1>5, <1>6, <1>7

LEMMA OnwardShape ==
  ASSUME Types, NEW r \in Requests, NEW y \in Request, Open(r), ~Done(r), Local(r, request[r]),
         Onward(r, y), Adds(r, y)
  PROVE  Shape(r, y)
PROOF
  <1> DEFINE x == request[r]
  <1>1. /\ x \in Request /\ x.kind \in Kinds /\ x.at \in 1..11 /\ x.at <= Len(Plan[x.kind])
    BY StepPlace DEF Types
  <1>2. /\ Op(r) = "any" => x.at = 1 /\ x.kind \in {"addTotp", "addPasskey"}
        /\ Op(r) = "clearPending" => x.at = 1 /\ x.kind = "cancel"
        /\ Op(r) = "confirm" => (x.at = 4 /\ x.kind = "confirm") \/ (x.at = 5 /\ x.kind = "addTotp")
        /\ Op(r) = "insert" => (x.at = 5 /\ x.kind = "passkey") \/ (x.at = 7 /\ x.kind = "addPasskey")
        /\ Op(r) = "create" => x.at = 4 /\ x.kind = "start"
        /\ Op(r) = "clear" => x.at = 3 /\ x.kind = "start"
        /\ x.kind = "confirm" /\ x.at = 5 => Op(r) = "commit"
        /\ x.kind = "passkey" /\ x.at = 6 => Op(r) = "commit"
        /\ x.kind = "addTotp" /\ x.at = 7 => Op(r) = "commit"
        /\ x.kind = "addPasskey" /\ x.at = 9 => Op(r) = "commit"
        /\ x.kind = "start" /\ x.at = 8 => Op(r) = "commit"
        /\ x.kind = "cancel" /\ x.at = 4 => Op(r) = "commit"
    <2>1. PlanPlace(x.kind, x.at, Op(r))
      BY OpPlaces DEF Types
    <2> QED BY <2>1, SMTT(30) DEF PlanPlace
  <1>3. Shape(r, x)
    BY DEF Local, Open
  <1>4. ASSUME NEW op \in DidOps, Did(y, op)  PROVE Did(x, op) \/ (op = Op(r) /\ y.at = x.at + 1)
    BY <1>4 DEF Adds, Added, Did
  <1>5. Did(y, "confirm") => \/ y.kind = "confirm" /\ y.at = 5
                             \/ y.kind = "addTotp" /\ y.at \in 6..7
    <2>1. Did(y, "confirm") => Did(x, "confirm") \/ ("confirm" = Op(r) /\ y.at = x.at + 1)
      BY <1>4 DEF DidOps, WriteOps
    <2> QED BY <2>1, <1>1, <1>2, <1>3 DEF Shape, Onward, Jumps
  <1>6. Did(y, "insert") => \/ y.kind = "passkey" /\ y.at = 6
                            \/ y.kind = "addPasskey" /\ y.at \in 8..9
    <2>1. Did(y, "insert") => Did(x, "insert") \/ ("insert" = Op(r) /\ y.at = x.at + 1)
      BY <1>4 DEF DidOps
    <2> QED BY <2>1, <1>1, <1>2, <1>3 DEF Shape, Onward, Jumps
  <1>7. Did(y, "create") => y.kind = "start" /\ y.at \in 5..8
    <2>1. Did(y, "create") => Did(x, "create") \/ ("create" = Op(r) /\ y.at = x.at + 1)
      BY <1>4 DEF DidOps
    <2> QED BY <2>1, <1>1, <1>2, <1>3 DEF Shape, Onward, Jumps
  <1>8. Did(y, "clear") => y.kind = "start" /\ y.at \in 4..8
    <2>1. Did(y, "clear") => Did(x, "clear") \/ ("clear" = Op(r) /\ y.at = x.at + 1)
      BY <1>4 DEF DidOps, WriteOps
    <2> QED BY <2>1, <1>1, <1>2, <1>3 DEF Shape, Onward, Jumps
  <1>9. Did(y, "clearPending") => y.kind = "cancel" /\ y.at \in 2..4
    <2>1. Did(y, "clearPending") => Did(x, "clearPending") \/ ("clearPending" = Op(r) /\ y.at = x.at + 1)
      BY <1>4 DEF DidOps, WriteOps
    <2> QED BY <2>1, <1>1, <1>2, <1>3 DEF Shape, Onward, Jumps
  <1> QED BY <1>5, <1>6, <1>7, <1>8, <1>9 DEF Shape

\* The rows of the authenticator a write matches.
LEMMA TotpMatches ==
  ASSUME NEW r \in Requests, Op(r) \in TotpOps, NEW row \in Matches(r)
  PROVE  /\ totp.by # "none" /\ row = <<"totp", totp.by>>
         /\ Op(r) = "confirm" => request[r].seen = totp.by /\ ~totp.confirmed
PROOF
  <1>1. CASE Op(r) = "clear"
    BY <1>1 DEF Matches
  <1>2. CASE Op(r) = "clearPending"
    BY <1>2 DEF Matches
  <1>3. CASE Op(r) = "confirm"
    BY <1>3 DEF Matches, Confirmable, Pending
  <1> QED BY <1>1, <1>2, <1>3 DEF TotpOps

LEMMA OnwardTotp ==
  ASSUME Types, NEW r \in Requests, NEW y \in Request, Open(r), ~Done(r), Local(r, request[r]),
         Onward(r, y), Adds(r, y)
  PROVE  OnTotp(y)
PROOF
  <1> DEFINE x == request[r]
  <1>1. /\ x \in Request /\ x.kind \in Kinds /\ x.at \in 1..11 /\ x.at <= Len(Plan[x.kind])
    BY StepPlace DEF Types
  <1>2. Shape(r, x) /\ OnTotp(x)
    BY DEF Local, Open
  <1>3. TotpOps \subseteq DidOps /\ "create" \in DidOps /\ "confirm" \in TotpOps
    BY DEF TotpOps, DidOps, WriteOps
  <1>4. ASSUME NEW op \in TotpOps, NEW row \in Rows, <<op, row>> \in y.did
        PROVE  totp.by # "none" /\ row = <<"totp", totp.by>>
    <2>1. <<op, row>> \in x.did \/ Added(r, y, op, row)
      BY <1>3, <1>4 DEF Adds
    <2> QED BY <1>2, <2>1, TotpMatches DEF Added, OnTotp
  <1>5. Did(y, "confirm") => y.seen = totp.by /\ ~totp.confirmed
    <2>0. SUFFICES ASSUME NEW row \in Rows, <<"confirm", row>> \in y.did
                   PROVE  y.seen = totp.by /\ ~totp.confirmed
      BY DEF Did
    <2>1. <<"confirm", row>> \in x.did \/ Added(r, y, "confirm", row)
      BY <1>3, <2>0 DEF Adds
    <2>2. CASE <<"confirm", row>> \in x.did
      <3>1. Did(x, "confirm")
        BY <2>2 DEF Did
      <3>2. Op(r) \notin {"any", "find"}
        BY <1>2, <3>1, OpPlaces DEF PlanPlace, Shape, Types
      <3> QED BY <1>2, <3>1, <3>2 DEF OnTotp, Adds
    <2>3. CASE Added(r, y, "confirm", row)
      BY <1>3, <2>3, TotpMatches DEF Added, Adds
    <2> QED BY <2>1, <2>2, <2>3
  <1>6. Did(y, "create") => totp.by = "none" \/ Did(y, "clear")
    <2>1. Did(y, "create") => Did(x, "create") \/ totp.by = "none" \/ Wrote(r, "clear") # {}
      BY <1>3 DEF Adds, Added, Did
    <2> QED BY <1>2, <2>1 DEF OnTotp, Adds, Did, Wrote
  <1> QED BY <1>4, <1>5, <1>6 DEF OnTotp

LEMMA OnwardApart ==
  ASSUME Types, NEW r \in Requests, NEW y \in Request, Open(r), ~Done(r), AllLocal, AllApart,
         Onward(r, y), Adds(r, y), OnTotp(y), NEW q \in Requests, q # r
  PROVE  Apart(y, request[q]) /\ Apart(request[q], y)
PROOF
  <1> DEFINE x == request[r]  z == request[q]
  <1> SUFFICES ASSUME z.state = "open"
               PROVE  /\ ~(Did(y, "lock") /\ Did(z, "lock"))
                      /\ ~(TakesTotp(y) /\ TakesTotp(z))
                      /\ ~(Did(y, "create") /\ Did(z, "create"))
    BY DEF Apart
  <1>1. /\ ~(Did(x, "lock") /\ Did(z, "lock"))
        /\ ~(TakesTotp(x) /\ TakesTotp(z))
        /\ ~(Did(x, "create") /\ Did(z, "create"))
    BY DEF AllApart, Apart, Open
  <1>2. TotpOps \subseteq DidOps /\ {"create", "lock"} \subseteq DidOps
    BY DEF TotpOps, DidOps, WriteOps
  <1>3. ~(Did(y, "lock") /\ Did(z, "lock"))
    BY <1>1, <1>2 DEF Adds, Added, Did, Wrote, Open
  <1>4. ~(Did(y, "create") /\ Did(z, "create"))
    BY <1>1, <1>2 DEF Adds, Added, Did, Wrote, Open
  <1>5. ~(TakesTotp(y) /\ TakesTotp(z))
    <2>0. SUFFICES ASSUME NEW op \in TotpOps, NEW row \in Rows, <<op, row>> \in y.did,
                          NEW p \in TotpOps, NEW other \in Rows, <<p, other>> \in z.did
                   PROVE  FALSE
      BY DEF TakesTotp, Did
    <2>1. row = <<"totp", totp.by>>
      BY <2>0 DEF OnTotp
    <2>2. other = <<"totp", totp.by>>
      BY <2>0 DEF AllLocal, Local, OnTotp
    <2>3. <<op, row>> \in x.did \/ Free({row}, r)
      BY <1>2, <2>0 DEF Adds, Added
    <2>4. <<op, row>> \notin x.did
      BY <1>1, <2>0 DEF TakesTotp, Did
    <2>5. other \in Holds(q)
      BY <2>0 DEF Holds, Open
    <2> QED BY <2>1, <2>2, <2>3, <2>4, <2>5 DEF Free
  <1> QED BY <1>3, <1>4, <1>5

----------------------------------------------------------------------------
(* Every such step keeps the invariant.                                    *)

\* Rows alone, the parts that speak of one request are read off that request.
LEMMA AloneLocal ==
  ASSUME RowsAlone, NEW r \in Requests, NEW y, request'[r] = y, Local(r, y)
  PROVE  Local(r, request[r])'
PROOF
  BY DEF RowsAlone, Local, OnTotp, Clean, UnprovenKeys, Locked, Checked, Shape, Did, LockRow

LEMMA SpentOnward ==
  ASSUME Types, NEW r \in Requests, NEW y \in Request, Open(r), ~Done(r), Spent(request[r]),
         Stops(r, y) \/ Onward(r, y)
  PROVE  Spent(y)
PROOF
  <1>1. /\ request[r].kind \in Kinds /\ request[r].at \in 1..11
        /\ request[r].at <= Len(Plan[request[r].kind])
    BY StepPlace DEF Types
  <1>2. /\ Op(r) = "any" => request[r].kind \in {"addTotp", "addPasskey"}
        /\ Op(r) = "clearPending" => request[r].kind = "cancel"
    <2>1. PlanPlace(request[r].kind, request[r].at, Op(r))
      BY OpPlaces DEF Types
    <2> QED BY <2>1, SMTT(30) DEF PlanPlace
  <1>3. CASE Stops(r, y)
    BY <1>3 DEF Stops, Spent
  <1>4. CASE Onward(r, y)
    <2>1. request[r].kind # "start" \/ request[r].at > 8
      BY DEF Spent, Open
    <2>2. y.kind # "start" \/ y.at > 8
      BY <1>1, <1>2, <1>4, <2>1 DEF Onward, Jumps
    <2> QED BY <1>4, <2>2 DEF Onward, Spent
  <1> QED BY <1>3, <1>4

LEMMA WinsKept ==
  ASSUME Types, Wins, UNCHANGED <<totp, won>>,
         \A r \in Requests : Spent(request[r]) => Spent(request'[r])
  PROVE  Wins'
PROOF
  <1>1. totp.by # "none" => totp.by \in Requests
    BY DEF Types, TotpType, Totp
  <1>2. \A r \in Requests : won[r] # "none" => won[r] \in Requests
    BY DEF Types, RestType
  <1>3. \A r \in Requests : Spent(request'[r]) = Spent(request[r])'
    BY DEF Spent
  <1>4. (totp.by # "none" => Spent(request[totp.by]))'
    BY <1>1, <1>3 DEF Wins
  <1>5. (\A r \in Requests : won[r] # "none" => Spent(request[won[r]]))'
    BY <1>2, <1>3 DEF Wins
  <1> QED BY <1>4, <1>5 DEF Wins

\* A request moves, the rows stay.
LEMMA MoveKeeps ==
  ASSUME IInv, NEW r \in Requests, NEW y, Moved(r, y), RowsAlone, RestType', Local(r, y),
         \A q \in Requests \ {r} : Apart(y, request[q]) /\ Apart(request[q], y),
         y.state = "open" => y.kind \in Kinds /\ y.s \in Sessions /\ y.at >= 1,
         Spent(request[r]) => Spent(y)
  PROVE  IInv'
PROOF
  <1> USE DEF IInv
  <1>1. RequestType' /\ \A q \in Requests : request'[q] = IF q = r THEN y ELSE request[q]
    BY RequestSet DEF Types
  <1>2. Types'
    <2>1. TotpType' /\ KeysType'
      BY DEF RowsAlone, Types, TotpType, KeysType, Totp, Key
    <2>2. Working'
      BY <1>1 DEF Types, Working, Open
    <2> QED BY <1>1, <2>1, <2>2 DEF Types
  <1>3. AllLocal'
    <2>1. ASSUME NEW q \in Requests  PROVE Local(q, request[q])'
      <3>1. Local(q, request'[q])
        BY <1>1 DEF AllLocal
      <3> QED BY <3>1, AloneLocal
    <2> QED BY <2>1 DEF AllLocal
  <1>4. AllApart'
    <2>1. ASSUME NEW p \in Requests, NEW q \in Requests, p # q  PROVE Apart(request[p], request[q])'
      <3>1. Apart(request'[p], request'[q])
        BY <1>1, <2>1 DEF AllApart
      <3> QED BY <3>1 DEF Apart, Did, TakesTotp
    <2> QED BY <2>1 DEF AllApart
  <1>5. OneUnproven'
    BY DEF OneUnproven, UnprovenKeys, RowsAlone
  <1>6. Wins'
    BY <1>1, WinsKept DEF RowsAlone
  <1> QED BY <1>2, <1>3, <1>4, <1>5, <1>6

LEMMA TurnKeeps ==
  ASSUME IInv, NEW r \in Requests, NEW y, Open(r), ~Done(r), Moved(r, y), Turn(r, y),
         RowsAlone, RestType'
  PROVE  IInv'
PROOF
  <1> USE DEF IInv
  <1>1. y \in Request
    BY DEF Moved
  <1>2. Stops(r, y) \/ (Onward(r, y) /\ Adds(r, y))
    BY TurnOnward, TurnAdds
  <1>3. Local(r, request[r])
    BY DEF AllLocal
  <1>4. Local(r, y) /\ \A q \in Requests \ {r} : Apart(y, request[q]) /\ Apart(request[q], y)
    <2>1. CASE Stops(r, y)
      BY <2>1 DEF Stops, Local, Apart
    <2>2. CASE Onward(r, y) /\ Adds(r, y)
      <3>1. OnTotp(y)
        BY <1>1, <1>3, <2>2, OnwardTotp
      <3>2. Shape(r, y) /\ (Locked(y) => LockRow(r) \in y.did) /\ (Checked(y) => Clean)
        BY <1>1, <1>3, <2>2, OnwardShape, OnwardLocal
      <3>3. ASSUME NEW q \in Requests, q # r  PROVE Apart(y, request[q]) /\ Apart(request[q], y)
        BY <1>1, <2>2, <3>1, <3>3, OnwardApart
      <3> QED BY <3>1, <3>2, <3>3 DEF Local
    <2> QED BY <1>2, <2>1, <2>2
  <1>5. y.state = "open" => y.kind \in Kinds /\ y.s \in Sessions /\ y.at >= 1
    <2>1. request[r].kind \in Kinds /\ request[r].s \in Sessions /\ request[r].at \in 1..11
      BY StepPlace DEF Types, Working
    <2> QED BY <1>2, <2>1 DEF Stops, Onward, Jumps
  <1>6. Spent(request[r]) => Spent(y)
    BY <1>1, <1>2, SpentOnward
  <1> QED BY <1>4, <1>5, <1>6, MoveKeeps

----------------------------------------------------------------------------
(* A commit.                                                               *)

LEMMA CommitPlace ==
  ASSUME Types, NEW r \in Requests, Open(r), ~Done(r), Op(r) = "commit"
  PROVE  /\ request[r] \in Request /\ request[r].at \in 1..11 /\ request[r].kind \in Kinds
         /\ request[r].kind = "start" => request[r].at = 8
         /\ request[r].kind = "confirm" => request[r].at \in {5, 9}
         /\ request[r].kind = "passkey" => request[r].at = 6
         /\ request[r].kind = "addTotp" => request[r].at = 7
         /\ request[r].kind = "addPasskey" => request[r].at = 9
PROOF
  <1>1. /\ request[r] \in Request /\ request[r].at \in 1..11 /\ request[r].kind \in Kinds
        /\ request[r].at <= Len(Plan[request[r].kind])
    BY StepPlace DEF Types
  <1> QED BY <1>1, CommitPlaces DEF Op

LEMMA CommitMoves ==
  ASSUME Types, NEW r \in Requests, Open(r), ~Done(r), Commit(r)
  PROVE  \E y : /\ Moved(r, y) /\ Keeps(request[r], y)
                /\ y.at = request[r].at + 1 /\ y.did = {}
PROOF
  <1> DEFINE at == request[r].at + 1
             y == [request[r] EXCEPT !.at = at, !.did = {}]
  <1>1. request[r] \in Request /\ at \in 0..12
    BY CommitPlace DEF Commit
  <1>2. request' = [request EXCEPT ![r] = y]
    BY DEF Commit
  <1> HIDE DEF at
  <1>3. y \in Request
    BY <1>1, RequestFields
  <1>4. Keeps(request[r], y) /\ y.at = at /\ y.did = {}
    BY <1>1, Zenon DEF Request, Keeps
  <1> HIDE DEF y
  <1> QED BY <1>2, <1>3, <1>4 DEF Moved, at

LEMMA Unwritten ==
  ASSUME NEW r \in Requests, NEW op
  PROVE  Did(request[r], op) <=> Wrote(r, op) # {}
PROOF
  BY DEF Did, Wrote

\* What becomes of the authenticator.
MadeNew(r) == /\ Did(request[r], "create") /\ totp'.by = r /\ ~totp'.confirmed /\ won' = won
Removed(r) == /\ Did(request[r], "clear") \/ Did(request[r], "clearPending")
              /\ totp'.by = "none" /\ ~totp'.confirmed /\ won' = won
Confirmed(r) == /\ Did(request[r], "confirm") /\ totp'.by = totp.by /\ totp'.confirmed
                /\ totp'.proved = request[r].proved /\ won' = [won EXCEPT ![r] = totp.by]
Left(r) == /\ \A op \in {"create", "clear", "clearPending", "confirm"} : ~Did(request[r], op)
           /\ totp'.by = totp.by /\ totp'.confirmed = totp.confirmed
           /\ totp'.proved = totp.proved /\ won' = won

LEMMA CommitTotp ==
  ASSUME Types, NEW r \in Requests, Open(r), ~Done(r), Commit(r), Local(r, request[r])
  PROVE  TotpType' /\ (MadeNew(r) \/ Removed(r) \/ Confirmed(r) \/ Left(r))
PROOF
  <1> DEFINE x == request[r]
  <1>1. /\ totp \in Totp /\ (totp.confirmed => totp.by # "none") /\ (totp.owes => totp.confirmed)
        /\ won \in [Requests -> Requests \cup {"none"}]
    BY DEF Types, TotpType, RestType
  <1>2. Shape(r, x) /\ OnTotp(x) /\ x \in Request
    BY CommitPlace DEF Local, Open, Commit
  <1>3. totp' = TotpAfter(r) /\ won' = [won EXCEPT ![r] = IF Wrote(r, "confirm") # {} THEN x.seen ELSE @]
    BY DEF Commit
  <1>4. Did(x, "create") \/ Did(x, "clear") \/ Did(x, "clearPending") => ~Did(x, "confirm")
    BY <1>2 DEF Shape
  <1>5. ~Did(x, "confirm") => won' = won
    BY <1>1, <1>3, Unwritten
  <1>6. r # "none" /\ NoTotp \in Totp /\ NoTotp.by = "none" /\ ~NoTotp.confirmed /\ ~NoTotp.owes
    BY NamesAssumption DEF NoTotp, Totp
  <1>7. CASE Did(x, "create")
    <2> DEFINE new == [NoTotp EXCEPT !.by = r]
    <2>1. totp' = new
      BY <1>3, <1>7, Unwritten DEF TotpAfter
    <2>2. new \in Totp /\ new.by = r /\ ~new.confirmed /\ ~new.owes
      BY <1>6 DEF NoTotp, Totp
    <2> QED BY <1>4, <1>5, <1>7, <2>1, <2>2 DEF MadeNew, TotpType, Totp
  <1>8. CASE ~Did(x, "create") /\ (Did(x, "clear") \/ Did(x, "clearPending"))
    <2>1. totp' = NoTotp
      BY <1>3, <1>8, Unwritten DEF TotpAfter
    <2> QED BY <1>4, <1>5, <1>6, <1>8, <2>1 DEF Removed, TotpType, Totp
  <1>9. CASE /\ ~Did(x, "create") /\ ~Did(x, "clear") /\ ~Did(x, "clearPending")
             /\ Did(x, "confirm")
    <2> DEFINE owes == x.first /\ x.kind = "confirm"
               new == [totp EXCEPT !.confirmed = TRUE, !.proved = x.proved, !.owes = owes]
    <2>1. totp' = new
      BY <1>3, <1>9, Unwritten DEF TotpAfter
    <2>2. owes \in BOOLEAN /\ x.proved \in BOOLEAN
      BY <1>2, Zenon DEF Request
    <2> HIDE DEF owes
    <2>3. new \in Totp /\ new.by = totp.by /\ new.confirmed /\ new.proved = x.proved
      BY <1>1, <2>2, Zenon DEF Totp
    <2>4. totp.by # "none" /\ x.seen = totp.by
      BY <1>2, <1>9 DEF OnTotp, Did, TotpOps
    <2>5. won' = [won EXCEPT ![r] = totp.by]
      BY <1>1, <1>3, <1>9, <2>4, Unwritten
    <2> HIDE DEF new
    <2> QED BY <1>9, <2>1, <2>3, <2>4, <2>5 DEF Confirmed, TotpType, Totp
  <1>10. CASE /\ ~Did(x, "create") /\ ~Did(x, "clear") /\ ~Did(x, "clearPending")
              /\ ~Did(x, "confirm")
    <2> DEFINE owes == totp.owes /\ <<"totp", totp.by>> \notin Wrote(r, "ack")
               new == [totp EXCEPT !.owes = owes]
    <2>1. totp' = new
      BY <1>3, <1>10, Unwritten DEF TotpAfter
    <2>2. owes \in BOOLEAN /\ (owes => totp.owes)
      BY <1>1
    <2> HIDE DEF owes
    <2>3. /\ new \in Totp /\ new.by = totp.by /\ new.confirmed = totp.confirmed
          /\ new.proved = totp.proved /\ new.owes = owes
      BY <1>1, <2>2, Zenon DEF Totp
    <2> HIDE DEF new
    <2> QED BY <1>1, <1>5, <1>10, <2>1, <2>2, <2>3 DEF Left, TotpType, Totp
  <1> QED BY <1>7, <1>8, <1>9, <1>10

\* What becomes of the passkeys.
LEMMA CommitKeys ==
  ASSUME Types, NEW r \in Requests, Open(r), ~Done(r), Commit(r)
  PROVE  /\ KeysType'
         /\ \A k \in UnprovenKeys' :
              k \in UnprovenKeys \/ (k = r /\ Did(request[r], "insert") /\ ~request[r].proved)
PROOF
  <1>1. keys \in [Makers -> Key] /\ codes \subseteq Makers /\ r \in Makers /\ request[r] \in Request
    BY CommitPlace DEF Types, KeysType, Makers, Commit
  <1>2. keys' = [k \in Makers |-> KeyAfter(r, k)] /\ codes' \subseteq codes \cup {r}
    BY DEF Commit
  <1>3. ASSUME NEW k \in Makers
        PROVE  /\ KeyAfter(r, k) \in Key
               /\ KeyAfter(r, k).there /\ ~KeyAfter(r, k).proved =>
                    \/ keys[k].there /\ ~keys[k].proved
                    \/ k = r /\ Did(request[r], "insert") /\ ~request[r].proved
    <2>1. CASE k = r /\ Wrote(r, "insert") # {}
      <3> DEFINE proved == request[r].proved  owes == request[r].first /\ request[r].kind = "passkey"
                 new == [there |-> TRUE, proved |-> proved, owes |-> owes]
      <3>1. KeyAfter(r, k) = new
        BY <2>1 DEF KeyAfter
      <3>2. proved \in BOOLEAN /\ owes \in BOOLEAN
        BY <1>1, Zenon DEF Request
      <3>3. proved = request[r].proved
        OBVIOUS
      <3> HIDE DEF proved, owes
      <3>4. new \in Key /\ new.proved = proved
        BY <3>2, Zenon DEF Key
      <3> HIDE DEF new
      <3> QED BY <2>1, <3>1, <3>3, <3>4, Unwritten
    <2>2. CASE ~(k = r /\ Wrote(r, "insert") # {})
      <3> DEFINE owes == keys[k].owes /\ <<"key", k>> \notin Wrote(r, "ack")
                 new == [keys[k] EXCEPT !.owes = owes]
      <3>1. KeyAfter(r, k) = new
        BY <2>2 DEF KeyAfter
      <3>2. keys[k] \in Key /\ owes \in BOOLEAN
        BY <1>1
      <3> HIDE DEF owes
      <3>3. new \in Key /\ new.there = keys[k].there /\ new.proved = keys[k].proved
        BY <3>2, Zenon DEF Key
      <3> HIDE DEF new
      <3> QED BY <3>1, <3>3
    <2> QED BY <2>1, <2>2
  <1>4. KeysType'
    BY <1>1, <1>2, <1>3 DEF KeysType
  <1>5. ASSUME NEW k \in UnprovenKeys'
        PROVE  k \in UnprovenKeys \/ (k = r /\ Did(request[r], "insert") /\ ~request[r].proved)
    <2>1. k \in Makers /\ keys'[k] = KeyAfter(r, k) /\ keys'[k].there /\ ~keys'[k].proved
      BY <1>2, <1>5 DEF UnprovenKeys, Makers
    <2> QED BY <1>3, <2>1 DEF UnprovenKeys
  <1> QED BY <1>4, <1>5

\* Only a request that holds the lock, and checked under it, adds a method unproven.
LEMMA CommitFirst ==
  ASSUME Types, NEW r \in Requests, Open(r), ~Done(r), Commit(r), Local(r, request[r]),
         Did(request[r], "confirm") \/ Did(request[r], "insert"), ~request[r].proved
  PROVE  Did(request[r], "lock") /\ Clean
PROOF
  <1> DEFINE x == request[r]
  <1>1. Shape(r, x) /\ (Locked(x) => LockRow(r) \in x.did) /\ (Checked(x) => Clean)
    BY DEF Local, Open
  <1>2. Locked(x) /\ Checked(x)
    BY <1>1, CommitPlace DEF Commit, Shape, Locked, Checked
  <1> QED BY <1>1, <1>2 DEF LockRow, Did, Rows, Makers

LEMMA CommitLocal ==
  ASSUME IInv, NEW r \in Requests, Open(r), ~Done(r), Commit(r), NEW q \in Requests, q # r
  PROVE  Local(q, request[q])'
PROOF
  <1> DEFINE x == request[r]  z == request[q]
  <1> USE DEF IInv
  <1>1. /\ TotpType' /\ (MadeNew(r) \/ Removed(r) \/ Confirmed(r) \/ Left(r))
        /\ \A k \in UnprovenKeys' : k \in UnprovenKeys \/ (Did(x, "insert") /\ ~x.proved)
    BY CommitTotp, CommitKeys DEF AllLocal
  <1>2. request'[q] = z
    BY DEF Commit, Types, RequestType
  <1> SUFFICES ASSUME z.state = "open"
               PROVE  /\ Locked(z) => LockRow(q) \in z.did
                      /\ Shape(q, z) /\ OnTotp(z)'
                      /\ Checked(z) => Clean'
    BY <1>2 DEF Local, Locked, Checked, Shape, LockRow, Did, OnTotp, Clean, UnprovenKeys
  <1>3. /\ Locked(z) => LockRow(q) \in z.did
        /\ Shape(q, z) /\ OnTotp(z)
        /\ Checked(z) => Clean
    BY DEF AllLocal, Local
  <1>4. Shape(r, x) /\ OnTotp(x) /\ Apart(x, z) /\ x.state = "open"
    BY DEF AllLocal, Local, AllApart, Open
  <1>5. TakesTotp(z) => ~TakesTotp(x) /\ totp.by # "none"
    BY <1>3, <1>4 DEF Apart, TakesTotp, Did, OnTotp
  <1>6. TakesTotp(z) => Left(r)
    BY <1>1, <1>4, <1>5 DEF MadeNew, Removed, Confirmed, TakesTotp, TotpOps, OnTotp
  <1>7. OnTotp(z)'
    <2>1. \A op \in TotpOps, row \in Rows :
            <<op, row>> \in z.did => totp'.by # "none" /\ row = <<"totp", totp'.by>>
      BY <1>3, <1>6 DEF OnTotp, Left, TakesTotp, Did
    <2>2. Did(z, "confirm") => z.seen = totp'.by /\ ~totp'.confirmed
      BY <1>3, <1>6 DEF OnTotp, Left, TakesTotp, TotpOps
    <2>3. Did(z, "create") => totp'.by = "none" \/ Did(z, "clear")
      <3>1. Did(z, "create") => ~Did(x, "create") /\ (totp.by = "none" \/ Did(z, "clear"))
        BY <1>3, <1>4 DEF Apart, OnTotp
      <3>2. Did(x, "confirm") => totp.by # "none"
        BY <1>4 DEF OnTotp, Did, TotpOps
      <3> QED BY <1>1, <3>1, <3>2 DEF MadeNew, Removed, Confirmed, Left
    <2> QED BY <1>2, <2>1, <2>2, <2>3 DEF OnTotp, Did
  <1>8. Checked(z) => Clean'
    <2>1. SUFFICES ASSUME Checked(z)  PROVE Clean'
      OBVIOUS
    <2>2. Did(z, "lock") /\ Clean
      BY <1>3, <2>1 DEF Checked, Locked, Did, LockRow, Rows, Makers
    <2>3. ~Did(x, "lock")
      BY <1>4, <2>2 DEF Apart
    <2>4. x.proved \/ ~(Did(x, "confirm") \/ Did(x, "insert"))
      BY <2>3, CommitFirst DEF AllLocal
    <2>5. UnprovenKeys' = {}
      BY <1>1, <2>2, <2>4 DEF Clean
    <2>6. ~(totp'.confirmed /\ ~totp'.proved)
      BY <1>1, <2>2, <2>4 DEF Clean, MadeNew, Removed, Confirmed, Left
    <2> QED BY <2>5, <2>6 DEF Clean
  <1> QED BY <1>3, <1>7, <1>8

LEMMA CommitWins ==
  ASSUME IInv, NEW r \in Requests, Open(r), ~Done(r), Commit(r),
         NEW y, Moved(r, y), Keeps(request[r], y), y.at = request[r].at + 1
  PROVE  Wins'
PROOF
  <1> DEFINE x == request[r]
  <1> USE DEF IInv
  <1>1. MadeNew(r) \/ Removed(r) \/ Confirmed(r) \/ Left(r)
    BY CommitTotp DEF AllLocal
  <1>2. \A q \in Requests : request'[q] = IF q = r THEN y ELSE request[q]
    BY RequestSet DEF Types
  <1>3. /\ x.at \in 1..11 /\ (x.kind = "start" => x.at = 8)
        /\ Shape(r, x) /\ OnTotp(x) /\ x.state = "open"
    BY CommitPlace DEF Commit, AllLocal, Local, Open
  <1>4. totp.by \in Requests \cup {"none"} /\ won \in [Requests -> Requests \cup {"none"}]
    BY DEF Types, TotpType, Totp, RestType
  <1>5. Spent(y)
    BY <1>3 DEF Keeps, Spent
  <1>6. \A q \in Requests : Spent(request[q]) => Spent(request'[q])
    BY <1>2, <1>5
  <1>7. \A q \in Requests : Spent(request'[q]) = Spent(request[q])'
    BY DEF Spent
  <1>8. CASE MadeNew(r)
    <2>1. x.kind = "start" /\ ~Spent(x)
      BY <1>3, <1>8 DEF MadeNew, Shape, Spent
    <2>2. \A q \in Requests : won[q] # r
      BY <2>1, NamesAssumption DEF Wins
    <2>3. (totp.by # "none" => Spent(request[totp.by]))'
      BY <1>2, <1>5, <1>7, <1>8 DEF MadeNew
    <2>4. (\A p \in Requests : won[p] # "none" => Spent(request[won[p]]))'
      BY <1>4, <1>6, <1>7, <1>8 DEF MadeNew, Wins
    <2> QED BY <1>8, <2>2, <2>3, <2>4 DEF MadeNew, Wins
  <1>9. CASE Removed(r)
    <2>1. (\A p \in Requests : won[p] # "none" => Spent(request[won[p]]))'
      BY <1>4, <1>6, <1>7, <1>9 DEF Removed, Wins
    <2> QED BY <1>9, <2>1 DEF Removed, Wins
  <1>10. CASE Confirmed(r)
    <2>1. totp.by # "none" /\ ~totp.confirmed /\ totp'.confirmed /\ totp'.by = totp.by
      BY <1>3, <1>10 DEF Confirmed, OnTotp, Did, TotpOps
    <2>2. \A q \in Requests : won[q] # totp.by
      BY <2>1 DEF Wins
    <2>3. \A q \in Requests : won'[q] = IF q = r THEN totp.by ELSE won[q]
      BY <1>4, <1>10 DEF Confirmed
    <2>4. (totp.by # "none" => Spent(request[totp.by]))'
      BY <1>4, <1>6, <1>7, <2>1 DEF Wins
    <2>5. ASSUME NEW q \in Requests, won'[q] # "none"  PROVE Spent(request'[won'[q]])
      <3>1. CASE q = r
        BY <1>4, <1>6, <2>1, <2>3, <3>1 DEF Wins
      <3>2. CASE q # r
        BY <1>4, <1>6, <2>3, <2>5, <3>2 DEF Wins
      <3> QED BY <3>1, <3>2
    <2>6. (\A p \in Requests : won[p] # "none" => Spent(request[won[p]]))'
      BY <2>5 DEF Spent
    <2>7. \A p, q \in Requests : p # q /\ won'[p] = won'[q] => won'[p] = "none"
      BY <2>2, <2>3 DEF Wins
    <2> QED BY <2>1, <2>3, <2>4, <2>6, <2>7 DEF Wins
  <1>11. CASE Left(r)
    <2>1. (totp.by # "none" => Spent(request[totp.by]))'
      BY <1>4, <1>6, <1>7, <1>11 DEF Left, Wins
    <2>2. (\A p \in Requests : won[p] # "none" => Spent(request[won[p]]))'
      BY <1>4, <1>6, <1>7, <1>11 DEF Left, Wins
    <2> QED BY <1>11, <2>1, <2>2 DEF Left, Wins
  <1> QED BY <1>1, <1>8, <1>9, <1>10, <1>11

LEMMA CommitKeeps ==
  ASSUME IInv, NEW r \in Requests, Open(r), ~Done(r), Commit(r)
  PROVE  IInv'
PROOF
  <1> DEFINE x == request[r]
  <1> USE DEF IInv
  <1>1. PICK y : Moved(r, y) /\ Keeps(x, y) /\ y.at = x.at + 1 /\ y.did = {}
    BY CommitMoves
  <1>2. RequestType' /\ \A q \in Requests : request'[q] = IF q = r THEN y ELSE request[q]
    BY <1>1, RequestSet DEF Types
  <1>3. /\ TotpType' /\ (MadeNew(r) \/ Removed(r) \/ Confirmed(r) \/ Left(r))
        /\ KeysType'
        /\ \A k \in UnprovenKeys' : k \in UnprovenKeys \/ (k = r /\ Did(x, "insert") /\ ~x.proved)
    BY CommitTotp, CommitKeys DEF AllLocal
  <1>4. RestType'
    <2>1. x.seen \in Requests \cup {"none"} /\ x.s \in Sessions
      BY CommitPlace DEF Commit, Request, Types, Working
    <2> QED BY <2>1 DEF Commit, Types, RestType, Enroll, Backup, Full
  <1>5. x.at \in 1..11 /\ x.kind \in Kinds /\ x.s \in Sessions
    BY CommitPlace DEF Commit, Types, Working
  <1>6. Types'
    <2>1. Working'
      BY <1>1, <1>2, <1>5 DEF Types, Working, Open, Keeps
    <2> QED BY <1>2, <1>3, <1>4, <2>1 DEF Types
  <1>7. AllLocal'
    <2>1. ~Locked(y) /\ ~Checked(y)
      BY <1>1, CommitPlace DEF Commit, Keeps, Locked, Checked
    <2>2. Local(r, request[r])'
      BY <1>1, <1>2, <2>1 DEF Local, Shape, OnTotp, Did, Locked, Checked, TotpOps
    <2> QED BY <2>2, CommitLocal DEF AllLocal
  <1>8. AllApart'
    <2>1. ASSUME NEW p \in Requests, NEW q \in Requests, p # q  PROVE Apart(request[p], request[q])'
      <3>1. Apart(request'[p], request'[q])
        BY <1>1, <1>2, <2>1 DEF AllApart, Apart, Did, TakesTotp
      <3> QED BY <3>1 DEF Apart, Did, TakesTotp
    <2> QED BY <2>1 DEF AllApart
  <1>9. OneUnproven'
    <2>1. Did(x, "insert") /\ ~x.proved => Clean /\ ~Did(x, "confirm")
      BY CommitFirst DEF AllLocal, Local, Open, Shape
    <2>2. Did(x, "confirm") /\ ~x.proved => Clean
      BY CommitFirst DEF AllLocal
    <2>3. \A k, l \in UnprovenKeys' : k = l
      BY <1>3, <2>1 DEF OneUnproven, Clean
    <2>4. totp'.confirmed /\ ~totp'.proved => UnprovenKeys' = {}
      BY <1>3, <2>1, <2>2 DEF OneUnproven, Clean, MadeNew, Removed, Confirmed, Left
    <2> QED BY <2>3, <2>4 DEF OneUnproven
  <1> QED BY <1>1, <1>6, <1>7, <1>8, <1>9, CommitWins

----------------------------------------------------------------------------
(* The theorems.                                                           *)

LEMMA InitHolds == Init => IInv
PROOF
  <1> SUFFICES ASSUME Init  PROVE IInv
    OBVIOUS
  <1>1. \A r \in Requests : request[r] = NoRequest /\ request[r].state = "idle" /\ won[r] = "none"
    BY DEF Init, NoRequest
  <1>2. TotpType /\ totp.by = "none" /\ ~totp.confirmed
    BY DEF Init, NoTotp, TotpType, Totp
  <1>3. KeysType /\ UnprovenKeys \subseteq {"before"}
    <2>1. PICK had \in BOOLEAN :
            /\ keys = [k \in Makers |-> [NoKey EXCEPT !.there = k = "before" /\ had]]
            /\ codes = IF had THEN {"before"} ELSE {}
      BY DEF Init
    <2>2. \A b \in BOOLEAN : [NoKey EXCEPT !.there = b] \in Key /\ [NoKey EXCEPT !.there = b].there = b
      BY Zenon DEF NoKey, Key
    <2>3. ASSUME NEW k \in Makers  PROVE keys[k] \in Key /\ (keys[k].there => k = "before")
      <3> DEFINE b == k = "before" /\ had
      <3>1. keys[k] = [NoKey EXCEPT !.there = b] /\ b \in BOOLEAN /\ (b => k = "before")
        BY <2>1
      <3> HIDE DEF b
      <3> QED BY <2>2, <3>1
    <2> QED BY <2>1, <2>3 DEF KeysType, Makers, UnprovenKeys
  <1>4. RestType
    BY DEF Init, RestType, Enroll, Backup, Full
  <1>5. RequestType /\ Working
    BY <1>1, NoRequestType DEF Init, RequestType, Working, Open
  <1>6. AllLocal /\ AllApart
    BY <1>1 DEF AllLocal, AllApart, Local, Apart
  <1>7. OneUnproven
    BY <1>2, <1>3 DEF OneUnproven
  <1>8. Wins
    BY <1>1, <1>2 DEF Wins
  <1> QED BY <1>2, <1>3, <1>4, <1>5, <1>6, <1>7, <1>8 DEF IInv, Types

LEMMA BeginKeeps ==
  ASSUME IInv, NEW r \in Requests, Begin(r)
  PROVE  IInv'
PROOF
  <1>1. PICK kind \in Kinds, s \in Sessions :
          request' = [request EXCEPT ![r] =
            [NoRequest EXCEPT !.kind = kind, !.s = s, !.at = 1, !.state = "open"]]
    BY DEF Begin
  <1> DEFINE y == [NoRequest EXCEPT !.kind = kind, !.s = s, !.at = 1, !.state = "open"]
  <1>2. 1 \in 0..12
    OBVIOUS
  <1>3. y \in Request
    BY <1>2, NoRequestType, Zenon DEF Request
  <1>4. y.kind = kind /\ y.s = s /\ y.at = 1 /\ y.did = {} /\ y.state = "open"
    BY NoRequestType, Zenon DEF Request, NoRequest
  <1>5. request' = [request EXCEPT ![r] = y]
    BY <1>1
  <1> HIDE DEF y
  <1>6. Local(r, y)
    BY <1>4 DEF Local, Locked, Checked, Shape, OnTotp, Did
  <1>7. \A q \in Requests \ {r} : Apart(y, request[q]) /\ Apart(request[q], y)
    BY <1>4 DEF Apart, Did, TakesTotp
  <1>8. ~Spent(request[r])
    BY DEF Begin, Spent
  <1>9. RowsAlone /\ RestType'
    BY DEF Begin, RowsSame, RowsAlone, IInv, Types, RestType
  <1>10. Moved(r, y)
    BY <1>3, <1>5 DEF Moved
  <1>11. y.kind \in Kinds /\ y.s \in Sessions /\ y.at >= 1
    BY <1>4
  <1> QED BY <1>6, <1>7, <1>8, <1>9, <1>10, <1>11, MoveKeeps

LEMMA StopKeeps ==
  ASSUME IInv, NEW r \in Requests, End(r) \/ Abort(r)
  PROVE  IInv'
PROOF
  <1>1. PICK y : Moved(r, y) /\ y.state \in {"ok", "refused"}
    <2>1. CASE Abort(r)
      BY <2>1, RefuseStops DEF Abort, IInv, Types
    <2>2. CASE End(r)
      <3> DEFINE y == [request[r] EXCEPT !.state = "ok"]
      <3>1. request[r] \in Request /\ 1 \in 0..12
        BY DEF IInv, Types, RequestType
      <3>2. y \in Request /\ y.state = "ok"
        BY <3>1, Zenon DEF Request
      <3>3. request' = [request EXCEPT ![r] = y]
        BY <2>2 DEF End
      <3> HIDE DEF y
      <3> QED BY <3>2, <3>3 DEF Moved
    <2> QED BY <2>1, <2>2
  <1>2. Local(r, y) /\ Spent(y) /\ \A q \in Requests \ {r} : Apart(y, request[q]) /\ Apart(request[q], y)
    BY <1>1 DEF Local, Apart, Spent
  <1>3. RowsAlone /\ RestType'
    BY DEF End, Abort, RowsSame, RowsAlone, IInv, Types, RestType
  <1> QED BY <1>1, <1>2, <1>3, MoveKeeps

LEMMA StepKeeps ==
  ASSUME IInv, NEW r \in Requests, Step(r)
  PROVE  IInv'
PROOF
  <1>1. CASE Commit(r)
    BY <1>1, CommitKeeps DEF Step
  <1>2. CASE ~Commit(r)
    <2>1. Turns(r) /\ RowsAlone
      BY <1>2, StepTurns DEF IInv
    <2>2. request[r].s \in Sessions
      BY DEF Step, IInv, Types, Working
    <2>3. RestType'
      <3>1. CASE Stash(r)
        BY <2>2, <3>1 DEF Stash, IInv, Types, RestType
      <3>2. CASE Promote(r)
        BY <2>2, <3>2 DEF Promote, IInv, Types, RestType, Enroll, Backup, Full
      <3>3. CASE ~Stash(r) /\ ~Promote(r)
        <4>1. RowsSame
          BY <1>2, <3>3 DEF Step, Resume, StillNoTotp, Lock, StillNone, AskProof, Find, FreshCodes,
                            Unstashed, Stashed, Look, Run, Create, Insert, FinishStage
        <4> QED BY <4>1 DEF RowsSame, IInv, Types, RestType
      <3> QED BY <3>1, <3>2, <3>3
    <2>4. PICK y : Moved(r, y) /\ Turn(r, y)
      BY <2>1 DEF Turns
    <2> QED BY <2>1, <2>3, <2>4, TurnKeeps DEF Step
  <1> QED BY <1>1, <1>2

LEMMA SameLocal ==
  ASSUME AllLocal, AllApart, RowsAlone, UNCHANGED request
  PROVE  AllLocal' /\ AllApart'
PROOF
  <1>1. ASSUME NEW r \in Requests  PROVE Local(r, request[r])'
    BY AloneLocal DEF AllLocal
  <1>2. ASSUME NEW r \in Requests, NEW q \in Requests, r # q  PROVE Apart(request[r], request[q])'
    <2>1. Apart(request'[r], request'[q])
      BY <1>2 DEF AllApart
    <2> QED BY <2>1 DEF Apart, Did, TakesTotp
  <1> QED BY <1>1, <1>2 DEF AllLocal, AllApart

LEMMA LostKeeps ==
  ASSUME IInv, NEW s \in Sessions, StashLost(s)
  PROVE  IInv'
PROOF
  <1> USE DEF IInv, StashLost
  <1>1. Types'
    BY DEF Types, TotpType, KeysType, RestType, RequestType, Working, Open
  <1>2. AllLocal' /\ AllApart'
    BY SameLocal DEF RowsAlone
  <1>3. OneUnproven' /\ Wins'
    BY DEF OneUnproven, UnprovenKeys, Wins, Spent
  <1> QED BY <1>1, <1>2, <1>3

LEMMA NextHolds == IInv /\ [Next]_vars => IInv'
PROOF
  <1> SUFFICES ASSUME IInv, [Next]_vars  PROVE IInv'
    OBVIOUS
  <1>1. CASE UNCHANGED vars
    <2> USE <1>1 DEF vars, IInv
    <2>1. Types'
      BY DEF Types, TotpType, KeysType, RestType, RequestType, Working, Open
    <2>2. AllLocal' /\ AllApart'
      BY SameLocal DEF RowsAlone
    <2>3. OneUnproven' /\ Wins'
      BY DEF OneUnproven, UnprovenKeys, Wins, Spent
    <2> QED BY <2>1, <2>2, <2>3
  <1>2. CASE \E r \in Requests : Begin(r) \/ Step(r) \/ End(r) \/ Abort(r)
    BY <1>2, BeginKeeps, StepKeeps, StopKeeps
  <1>3. CASE \E s \in Sessions : StashLost(s)
    BY <1>3, LostKeeps
  <1> QED BY <1>1, <1>2, <1>3 DEF Next

THEOREM InvariantHolds == Spec => []IInv
PROOF
  BY InitHolds, NextHolds, PTL DEF Spec

\* The account's rows, its sessions and its requests keep their types.
THEOREM TypeCorrect == Spec => []TypeOK
PROOF
  <1>1. IInv => TypeOK
    BY TypeParts DEF IInv
  <1> QED BY <1>1, InvariantHolds, PTL

\* However the enrolments of one account overlap, at most one of its methods was added
\* without the proof of another: the lock and the check under it (enrollment-lock.ts,
\* addMfaMethodWithStepUp) leave no second request between its check and its commit.
THEOREM OnlyFirst == Spec => []OnlyFirstUnproven
PROOF
  <1>1. IInv => OnlyFirstUnproven
    <2> SUFFICES ASSUME IInv  PROVE Cardinality(UnprovenKeys) <= 1
      BY DEF IInv, OneUnproven, OnlyFirstUnproven
    <2>1. CASE UnprovenKeys = {}
      BY <2>1, FS_EmptySet
    <2>2. CASE UnprovenKeys # {}
      <3>1. PICK k : UnprovenKeys = {k}
        BY <2>2 DEF IInv, OneUnproven
      <3> QED BY <3>1, FS_Singleton
    <2> QED BY <2>1, <2>2
  <1> QED BY <1>1, InvariantHolds, PTL

\* Two confirmations of one pending authenticator are not both told that they succeeded,
\* and the secret that is confirmed is one a request was told of (confirmTotpEnrollment).
THEOREM OneConfirmationHolds == Spec => []OneConfirmation
PROOF
  <1>1. IInv => OneConfirmation
    <2> SUFFICES ASSUME IInv, NEW x \in Requests
                 PROVE  Cardinality({r \in Requests : won[r] = x}) <= 1
      BY DEF IInv, Wins, OneConfirmation
    <2> DEFINE told == {r \in Requests : won[r] = x}
    <2>0. x # "none"
      BY NamesAssumption
    <2>1. CASE told = {}
      BY <2>1, FS_EmptySet
    <2>2. CASE told # {}
      <3>1. PICK r : told = {r}
        BY <2>0, <2>2 DEF IInv, Wins
      <3> QED BY <3>1, FS_Singleton
    <2> QED BY <2>1, <2>2
  <1> QED BY <1>1, InvariantHolds, PTL
=============================================================================
