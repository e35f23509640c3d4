----------------------------- MODULE SignInProofs -----------------------------
(***************************************************************************)
(* What TLAPS proves of SignIn for any number of sessions, requests, codes *)
(* and time steps: its safety properties, and that its transactions        *)
(* implement the single steps of AccountPromise.                           *)
(***************************************************************************)
EXTENDS SignIn, TLAPS

Statements == {"proof", "resolve", "promote", "select", "ack", "user", "others", "own", "revoke",
               "unmark", "devices", "methods", "totp"}
States == {"idle", "open", "ok", "refused"}

TotpRecords == [there : BOOLEAN, last : Steps, acked : BOOLEAN]
SessionRecords == [stage : Stages \cup {"none", "arriving"}, next : Stages \cup {"none"},
                   alive : BOOLEAN, mark : Grounds \cup {"none"}, recent : BOOLEAN]
RequestRecords ==
  [kind : Kinds \cup {"none"}, s : Sessions \cup {"none"}, proof : Proofs, remember : BOOLEAN,
   at : 0..6, looked : BOOLEAN, want : SUBSET Rows, did : SUBSET (Ops \X Rows),
   target : Stages \cup {"none"}, ground : Grounds \cup {"none"}, ends : SUBSET Sessions,
   covers : SUBSET Sources, state : States]

SessionType ==
  /\ session \in [Sessions -> SessionRecords]
  /\ \A s \in Sessions : /\ session[s].alive => session[s].stage \in Stages
                         /\ session[s].stage = "arriving" => session[s].next \in Stages

LEMMA TypeParts ==
  /\ TypeOK <=> /\ totp \in TotpRecords /\ key \in BOOLEAN
                /\ code \in [Codes -> {"unused", "used", "gone"}] /\ mustChange \in BOOLEAN
                /\ SessionType
                /\ device \in [Requests -> {"none", "live", "revoked"}]
                /\ request \in [Requests -> RequestRecords]
  /\ TypeOK' <=> /\ totp' \in TotpRecords /\ key' \in BOOLEAN
                 /\ code' \in [Codes -> {"unused", "used", "gone"}] /\ mustChange' \in BOOLEAN
                 /\ SessionType'
                 /\ device' \in [Requests -> {"none", "live", "revoked"}]
                 /\ request' \in [Requests -> RequestRecords]
PROOF BY DEF TypeOK, SessionType, TotpRecords, SessionRecords, RequestRecords, States

-----------------------------------------------------------------------------
(* Where the statements stand in the plans.                                *)

\* The kinds of request that advance a session or rest on its fresh proof.
Advancing == {"verify", "ack", "newPassword", "rememberDevice"}

LEMMA PlanLengths ==
  ASSUME NEW kind \in Kinds
  PROVE  /\ Len(Plan[kind]) \in 1..5
         /\ kind \in WithCode => Len(Plan[kind]) >= 2
         /\ kind = "verify" => Len(Plan[kind]) = 3
         /\ kind = "removeTotp" => Len(Plan[kind]) = 4
PROOF BY SMTT(60) DEF Plan, Kinds, WithCode, Verify, RememberDevice, CompleteCodes, NewPassword,
             PatchPassword, MfaReset, DeleteTotp, ForgetDevices, Logout, SignOutAll, ResetPassword, ResetUserMfa

PlanPlace(kind, at) ==
  /\ Plan[kind][at] \in Statements
  /\ Plan[kind][at] = "promote" => kind \in Advancing /\ at > 1 /\ Plan[kind][at - 1] = "resolve"
  /\ Plan[kind][at] = "select" => kind \in Advancing /\ kind # "verify"
  /\ Plan[kind][at] = "devices" => kind \notin Advancing
  /\ Plan[kind][at] = "proof" => at = 1 /\ kind \in WithCode
  /\ kind \in WithCode /\ at = 1 => Plan[kind][at] = "proof"
  /\ kind \in WithCode /\ at = 2 => Plan[kind][at] # "promote"
  /\ at = 1 => Plan[kind][at] # "promote"
  /\ Plan[kind][at] = "totp" => at = 2 /\ kind = "removeTotp"
  /\ kind = "removeTotp" /\ at = 2 => Plan[kind][at] = "totp"
  /\ kind = "verify" /\ at = 3 => Plan[kind][at] = "promote"
  /\ Plan[kind][at] \in {"promote", "select", "own", "others"} => kind \notin ByOthers

LEMMA PlanPlaces ==
  ASSUME NEW kind \in Kinds, NEW at \in Nat, at >= 1, at <= Len(Plan[kind])
  PROVE  PlanPlace(kind, at)
PROOF
  <1> USE DEF Plan, Kinds, PlanPlace, Statements, Advancing, WithCode, ByOthers
  <1>1. CASE kind = "verify"
    <2>1. Plan[kind] = Verify /\ Len(Verify) = 3
      BY <1>1 DEF Verify
    <2> QED BY <2>1, <1>1 DEF Verify
  <1>2. CASE kind = "rememberDevice"
    <2>1. Plan[kind] = RememberDevice /\ Len(RememberDevice) = 1
      BY <1>2 DEF RememberDevice
    <2> QED BY <2>1, <1>2 DEF RememberDevice
  <1>3. CASE kind = "ack"
    <2>1. Plan[kind] = CompleteCodes /\ Len(CompleteCodes) = 3
      BY <1>3 DEF CompleteCodes
    <2> QED BY <2>1, <1>3 DEF CompleteCodes
  <1>4. CASE kind = "newPassword"
    <2>1. Plan[kind] = NewPassword /\ Len(NewPassword) = 4
      BY <1>4 DEF NewPassword
    <2> QED BY <2>1, <1>4 DEF NewPassword
  <1>5. CASE kind = "password"
    <2>1. Plan[kind] = PatchPassword /\ Len(PatchPassword) = 5
      BY <1>5 DEF PatchPassword
    <2> QED BY <2>1, <1>5 DEF PatchPassword
  <1>6. CASE kind = "mfaReset"
    <2>1. Plan[kind] = MfaReset /\ Len(MfaReset) = 5
      BY <1>6 DEF MfaReset
    <2> QED BY <2>1, <1>6 DEF MfaReset
  <1>7. CASE kind = "removeTotp"
    <2>1. Plan[kind] = DeleteTotp /\ Len(DeleteTotp) = 4
      BY <1>7 DEF DeleteTotp
    <2> QED BY <2>1, <1>7 DEF DeleteTotp
  <1>8. CASE kind = "forget"
    <2>1. Plan[kind] = ForgetDevices /\ Len(ForgetDevices) = 2
      BY <1>8 DEF ForgetDevices
    <2> QED BY <2>1, <1>8 DEF ForgetDevices
  <1>9. CASE kind = "logout"
    <2>1. Plan[kind] = Logout /\ Len(Logout) = 1
      BY <1>9 DEF Logout
    <2> QED BY <2>1, <1>9 DEF Logout
  <1>10. CASE kind = "signOut"
    <2>1. Plan[kind] = SignOutAll /\ Len(SignOutAll) = 3
      BY <1>10 DEF SignOutAll
    <2> QED BY <2>1, <1>10 DEF SignOutAll
  <1>11. CASE kind = "adminPassword"
    <2>1. Plan[kind] = ResetPassword /\ Len(ResetPassword) = 4
      BY <1>11 DEF ResetPassword
    <2> QED BY <2>1, <1>11 DEF ResetPassword
  <1>12. CASE kind = "adminReset"
    <2>1. Plan[kind] = ResetUserMfa /\ Len(ResetUserMfa) = 3
      BY <1>12 DEF ResetUserMfa
    <2> QED BY <2>1, <1>12 DEF ResetUserMfa
  <1> QED BY <1>1, <1>2, <1>3, <1>4, <1>5, <1>6, <1>7, <1>8, <1>9, <1>10, <1>11, <1>12

-----------------------------------------------------------------------------
(* The invariant.                                                          *)

Ok(r) == request[r].state = "ok"
SignOuts == {"revoke", "others", "own"}

\* Request q is at a statement, has no revocation of devices ahead, has ended session s.
StepAt(q, op) == q.at <= Len(Plan[q.kind]) /\ Plan[q.kind][q.at] = op
PastDevices(q) == \A i \in q.at..Len(Plan[q.kind]) : Plan[q.kind][i] # "devices"
HasEnded(q, s) == \E op \in SignOuts : <<op, s>> \in q.did
IsEnding(q, s) == q.looked /\ s \in q.want /\ \E op \in SignOuts : StepAt(q, op)

\* Where an open request r can be, and what it knows there.
Working(r, q) ==
  /\ q.kind \in Kinds
  /\ q.at \in 1..(Len(Plan[q.kind]) + 1)
  /\ q.kind \notin ByOthers => q.s \in Sessions
  /\ q.looked => q.at <= Len(Plan[q.kind]) /\ ~StepAt(q, "resolve")
  /\ StepAt(q, "promote") => q.target \in Stages
  /\ q.looked /\ StepAt(q, "proof") => q.want \subseteq {RowOf(q.proof)}
  /\ q.looked /\ StepAt(q, "others") => q.s \notin q.want
  /\ q.looked /\ StepAt(q, "own") => q.want \subseteq {q.s}
  /\ q.kind = "verify" => q.ground = r
  /\ q.kind = "verify" /\ q.at > 3 => \E x \in Rows : <<"promote", x>> \in q.did
  /\ q.remember => q.kind = "verify"
  /\ q.kind = "removeTotp" /\ q.at <= 2 => q.covers = {}
  /\ q.covers # {} => q.kind \notin Advancing

\* What it has written is as it found it, for the rows are locked.
Writing(q) ==
  \A w \in q.did :
    /\ w[1] = "use" => w[2] = RowOf(q.proof) /\ StillUnused(q.proof)
    /\ w[1] \in {"promote", "select"} =>
         w[2] = q.s /\ q.s \in Sessions /\ session[q.s].alive /\ q.kind \in Advancing
    /\ w[1] = "promote" => q.target \in Stages
    /\ w[1] = "select" => session[q.s].mark = q.ground /\ q.ground # "none"

\* A proof is known by a request that has succeeded, before anyone can take it away.
Proved(q) == \A c \in q.covers : c[1] = "proof" /\ c[2] \in Requests => Ok(c[2])

\* The sessions it found have begun, and what it speaks for is among them.
Found(q) ==
  /\ \A s \in q.ends : session[s].stage \in Stages
  /\ \A s \in Sessions : <<"session", s>> \in q.covers => s \in q.ends

\* A session it found is ended, by it or by another, or is waited for.
Ending(q) == \A s \in q.ends : ~session[s].alive \/ HasEnded(q, s) \/ IsEnding(q, s)

\* What it speaks for is locked once it comes to the devices.
Covering(q) ==
  \A s \in Sessions :
    /\ <<"session", s>> \in q.covers =>
         ~session[s].alive \/ HasEnded(q, s) \/ (IsEnding(q, s) /\ ~PastDevices(q))
    /\ <<"proof", session[s].mark>> \in q.covers =>
         \/ <<"unmark", s>> \in q.did
         \/ q.looked /\ s \in q.want /\ StepAt(q, "unmark") /\ ~PastDevices(q)

\* No device that rests on it escapes.
Revoking(q) ==
  \A d \in Requests : device[d] = "live" /\ RestsOn(d) \cap q.covers # {} =>
    /\ PastDevices(q) => <<"devices", d>> \in q.did
    /\ q.looked /\ StepAt(q, "devices") => d \in q.want

OpenGood(r, q) ==
  /\ Working(r, q) /\ Writing(q) /\ Proved(q) /\ Found(q) /\ Ending(q) /\ Covering(q)
  /\ Revoking(q)

\* What stays true of a request that has succeeded.
OkGood(q) ==
  /\ (\E x \in Rows : <<"use", x>> \in q.did) =>
       IF q.proof \in Codes THEN code[q.proof] # "unused" ELSE totp.last >= q.proof
  /\ Proved(q) /\ Found(q)
  /\ \A s \in q.ends : ~session[s].alive
  /\ \A s \in Sessions : <<"proof", session[s].mark>> \notin q.covers

OpenAreGood == \A r \in Requests : Open(r) => OpenGood(r, request[r])
OkAreGood == \A r \in Requests : Ok(r) => OkGood(request[r])

\* No two open requests have written the same row.
Apart == \A r, q \in Requests : r # q => Holds(r) \cap Holds(q) = {}

\* A fresh proof was given by a request that has succeeded, or before.
MarksAreProved == \A s \in Sessions : session[s].mark \in Requests => Ok(session[s].mark)

\* A remembered device rests on nothing that was forgotten.
Trusting ==
  \A d \in Requests : device[d] = "live" =>
    Ok(d) /\ \A q \in Requests : Ok(q) => RestsOn(d) \cap request[q].covers = {}

IInv ==
  /\ OpenAreGood /\ OkAreGood /\ Apart /\ MarksAreProved /\ Trusting /\ NoProofBurnt

-----------------------------------------------------------------------------
(* Requests.                                                               *)

LEMMA NameFacts ==
  /\ "none" \notin Sessions /\ "none" \notin Requests /\ "none" \notin Codes
  /\ "totp" \notin Sessions /\ "totp" \notin Requests /\ "totp" \notin Codes
  /\ "key" \notin Codes /\ "user" \notin Sessions
  /\ \A c \in Codes : c \notin Nat /\ c \notin Sessions /\ c \notin Requests
  /\ \A r \in Requests : r \notin Sessions
  /\ MaxStep \in Nat /\ \A n \in Steps : n \in Nat /\ n \notin Codes
  /\ NoCode \in Steps /\ NoCode = 0
PROOF
  <1>1. MaxStep \in Nat
    BY MaxStepAssumption
  <1>2. \A n \in Steps : n \in Nat
    BY <1>1 DEF Steps
  <1>3. NoCode \in Steps /\ NoCode = 0
    BY <1>1 DEF Steps, NoCode
  <1> QED BY <1>1, <1>2, <1>3, NamesAssumption

LEMMA RequestFields ==
  ASSUME NEW q \in RequestRecords
  PROVE  /\ q.kind \in Kinds \cup {"none"} /\ q.s \in Sessions \cup {"none"} /\ q.proof \in Proofs
         /\ q.remember \in BOOLEAN /\ q.at \in 0..6 /\ q.looked \in BOOLEAN
         /\ q.want \subseteq Rows /\ q.did \subseteq (Ops \X Rows)
         /\ q.target \in Stages \cup {"none"} /\ q.ground \in Grounds \cup {"none"}
         /\ q.ends \subseteq Sessions /\ q.covers \subseteq Sources /\ q.state \in States
PROOF
  <1>1. /\ q.kind \in Kinds \cup {"none"} /\ q.s \in Sessions \cup {"none"} /\ q.proof \in Proofs
        /\ q.remember \in BOOLEAN /\ q.at \in 0..6 /\ q.looked \in BOOLEAN
        /\ q.want \in SUBSET Rows /\ q.did \in SUBSET (Ops \X Rows)
        /\ q.target \in Stages \cup {"none"} /\ q.ground \in Grounds \cup {"none"}
        /\ q.ends \in SUBSET Sessions /\ q.covers \in SUBSET Sources /\ q.state \in States
    BY Zenon DEF RequestRecords
  <1> QED BY <1>1

LEMMA SessionFields ==
  ASSUME NEW x \in SessionRecords
  PROVE  /\ x.stage \in Stages \cup {"none", "arriving"} /\ x.next \in Stages \cup {"none"}
         /\ x.alive \in BOOLEAN /\ x.mark \in Grounds \cup {"none"} /\ x.recent \in BOOLEAN
PROOF BY DEF SessionRecords

LEMMA NoRequestIs ==
  /\ NoRequest \in RequestRecords /\ NoRequest.state = "idle" /\ NoRequest.did = {}
  /\ NoRequest.looked = FALSE /\ NoRequest.ends = {} /\ NoRequest.covers = {}
  /\ NoRequest.want = {}
PROOF
  <1>1. 0 \in Proofs /\ 0 \in 0..6 /\ "idle" \in States
    BY NameFacts DEF Proofs, States, NoCode
  <1>2. NoRequest \in RequestRecords
    BY <1>1, Zenon DEF NoRequest, RequestRecords
  <1> QED BY <1>2 DEF NoRequest

\* The rows a request has written.
LEMMA HoldsFacts ==
  ASSUME TypeOK, NEW r \in Requests
  PROVE  /\ request[r] \in RequestRecords
         /\ \A op, x : <<op, x>> \in request[r].did =>
              /\ op \in Ops /\ x \in Rows /\ x \in Wrote(r, op)
              /\ Open(r) => x \in Holds(r)
         /\ \A op, x : x \in Wrote(r, op) => x \in Rows /\ <<op, x>> \in request[r].did
         /\ \A x : x \in Holds(r) => Open(r) /\ x \in Rows /\ \E op \in Ops : <<op, x>> \in request[r].did
PROOF
  <1>1. request[r] \in RequestRecords
    BY TypeParts
  <1>2. request[r].did \subseteq (Ops \X Rows)
    BY <1>1, RequestFields
  <1>3. ASSUME NEW op, NEW x, <<op, x>> \in request[r].did
        PROVE  /\ op \in Ops /\ x \in Rows /\ x \in Wrote(r, op)
               /\ Open(r) => x \in Holds(r)
    <2>1. <<op, x>> \in (Ops \X Rows)
      BY <1>2, <1>3
    <2>2. Open(r) => <<op, x>>[2] \in Holds(r)
      BY <1>3 DEF Holds
    <2>3. <<op, x>>[2] = x
      OBVIOUS
    <2> QED BY <1>3, <2>1, <2>2, <2>3 DEF Wrote
  <1>4. \A op, x : x \in Wrote(r, op) => x \in Rows /\ <<op, x>> \in request[r].did
    BY DEF Wrote
  <1>5. ASSUME NEW x, x \in Holds(r)
        PROVE  Open(r) /\ x \in Rows /\ \E op \in Ops : <<op, x>> \in request[r].did
    <2>1. Open(r) /\ \E w \in request[r].did : w[2] = x
      BY <1>5 DEF Holds
    <2>2. PICK w \in request[r].did : w[2] = x
      BY <2>1
    <2>3. w \in Ops \X Rows
      BY <1>2
    <2>4. w = <<w[1], w[2]>> /\ w[1] \in Ops /\ w[2] \in Rows
      BY <2>3
    <2> QED BY <2>1, <2>2, <2>4
  <1> QED BY <1>1, <1>3, <1>4, <1>5

-----------------------------------------------------------------------------
(* Steps within one request's transaction.                                 *)

\* What the others see: the rows, and the requests that have succeeded.
SameRows == UNCHANGED <<totp, key, code, mustChange, session, device>>

LEMMA GoodStays ==
  ASSUME SameRows, NEW r, NEW q, OpenGood(r, q),
         \A x \in Requests : Ok(x) => request'[x] = request[x],
         \A d \in Requests : device[d] = "live" => Ok(d)
  PROVE  OpenGood(r, q)'
PROOF
  <1>1. SameRows /\ \A x \in Requests : Ok(x) => Ok(x)'
    BY DEF Ok
  <1>2. Working(r, q)' /\ Found(q)' /\ Ending(q)' /\ Covering(q)'
    BY <1>1 DEF OpenGood, SameRows, Working, Found, Ending, Covering, StepAt, IsEnding, HasEnded,
       PastDevices, RowOf
  <1>3. Writing(q)'
    BY <1>1 DEF OpenGood, SameRows, Writing, StillUnused, RowOf
  <1>4. Proved(q)'
    BY <1>1 DEF OpenGood, Proved
  <1>5. Revoking(q)'
    <2>1. ASSUME NEW d \in Requests, device'[d] = "live"
          PROVE  device[d] = "live" /\ RestsOn(d)' = RestsOn(d)
      BY <2>1 DEF SameRows, RestsOn
    <2> QED BY <2>1 DEF OpenGood, Revoking, PastDevices, StepAt
  <1> QED BY <1>2, <1>3, <1>4, <1>5 DEF OpenGood

LEMMA OkStays ==
  ASSUME SameRows, NEW q, OkGood(q), \A x \in Requests : Ok(x) => request'[x] = request[x]
  PROVE  OkGood(q)'
PROOF
  <1>1. SameRows /\ \A x \in Requests : Ok(x) => Ok(x)'
    BY DEF Ok
  <1> QED BY <1>1 DEF OkGood, SameRows, Proved, Found

\* What is known of a request known by its value is known of its name.
LEMMA OpenByName ==
  ASSUME NEW x, NEW q, q = request'[x], OpenGood(x, q)'
  PROVE  OpenGood(x, request[x])'
PROOF
  <1>1. Writing(request[x])'
    BY DEF OpenGood, Writing, RowOf, StillUnused
  <1>2. Working(x, q)
    BY DEF OpenGood, Working, StepAt, RowOf
  <1>3. Working(x, request'[x])
    BY <1>2
  <1>4. Working(x, request[x])'
    BY <1>3, SMTT(40) DEF Working, StepAt
  <1>5. /\ Proved(request[x])' /\ Found(request[x])' /\ Ending(request[x])'
        /\ Covering(request[x])' /\ Revoking(request[x])'
    BY DEF OpenGood, Proved, Found, Ending, Covering, Revoking, StepAt, IsEnding, HasEnded, PastDevices
  <1> QED BY <1>1, <1>4, <1>5 DEF OpenGood

LEMMA OkByName ==
  ASSUME NEW x, NEW q, q = request'[x], OkGood(q)'
  PROVE  OkGood(request[x])'
PROOF BY DEF OkGood, Proved, Found

\* A step that leaves request r open or ends it without effect.
LEMMA LocalKeeps ==
  ASSUME TypeOK, IInv, NEW r \in Requests, request[r].state \in {"idle", "open"}, SameRows,
         NEW y \in RequestRecords, request' = [request EXCEPT ![r] = y],
         y.state \in {"open", "refused"}, y.state = "open" => OpenGood(r, y),
         \A w \in y.did : \/ Open(r) /\ w \in request[r].did
                          \/ \A q \in Requests \ {r} : w[2] \notin Holds(q)
  PROVE  TypeOK' /\ IInv'
PROOF
  <1>1. /\ request'[r] = y /\ \A x \in Requests \ {r} : request'[x] = request[x]
        /\ request' \in [Requests -> RequestRecords]
    BY TypeParts
  <1>2. TypeOK'
    BY <1>1, TypeParts DEF SameRows, SessionType
  <1>3. /\ \A x \in Requests : Ok(x) <=> Ok(x)'
        /\ \A x \in Requests : Ok(x) => request'[x] = request[x]
        /\ \A d \in Requests : device[d] = "live" => Ok(d)
    BY <1>1 DEF Ok, IInv, Trusting
  <1>4. OpenAreGood'
    <2>1. ASSUME NEW x \in Requests, Open(x)'
          PROVE  OpenGood(x, request[x])'
      <3>1. PICK q : q = request'[x]
        OBVIOUS
      <3>2. OpenGood(x, q)
        BY <1>1, <2>1, <3>1 DEF Open, IInv, OpenAreGood
      <3>3. OpenGood(x, q)'
        BY <1>3, <3>2, GoodStays
      <3> QED BY <3>1, <3>3, OpenByName
    <2> QED BY <2>1 DEF OpenAreGood
  <1>5. OkAreGood'
    <2>1. ASSUME NEW x \in Requests, Ok(x)'
          PROVE  OkGood(request[x])'
      <3>1. PICK q : q = request'[x]
        OBVIOUS
      <3>2. OkGood(q)
        BY <1>3, <2>1, <3>1 DEF IInv, OkAreGood
      <3>3. OkGood(q)'
        BY <1>3, <3>2, OkStays
      <3> QED BY <3>1, <3>3, OkByName
    <2> QED BY <2>1 DEF OkAreGood
  <1>6. Apart'
    <2>1. ASSUME NEW x \in Requests \ {r}
          PROVE  Holds(x)' = Holds(x)
      BY <1>1 DEF Holds, Open
    <2>2. ASSUME NEW x \in Requests \ {r}, NEW row, row \in Holds(r)', row \in Holds(x)
          PROVE  FALSE
      <3>1. PICK w \in y.did : w[2] = row
        BY <1>1, <2>2 DEF Holds
      <3>2. Open(r) /\ w \in request[r].did
        BY <2>2, <3>1
      <3>3. row \in Holds(r)
        BY <3>1, <3>2 DEF Holds
      <3> QED BY <2>2, <3>3 DEF IInv, Apart
    <2> QED BY <2>1, <2>2 DEF IInv, Apart
  <1>7. MarksAreProved' /\ Trusting'
    BY <1>3 DEF SameRows, IInv, MarksAreProved, Trusting, RestsOn
  <1>8. NoProofBurnt'
    <2>1. \A p \in Proofs : UsedBy(p)' = UsedBy(p)
      BY <1>1, <1>3 DEF UsedBy, Wrote, Ok
    <2>2. ASSUME NEW x \in Requests, Ok(x)
          PROVE  request'[x] = request[x] /\ Wrote(x, "promote")' = Wrote(x, "promote")
      BY <1>3, <2>2 DEF Wrote
    <2>3. \A c \in Codes : c \in Proofs
      BY DEF Proofs
    <2> QED BY <2>1, <2>2, <2>3 DEF SameRows, IInv, NoProofBurnt, UsedBy, Ok
  <1> QED BY <1>2, <1>4, <1>5, <1>6, <1>7, <1>8 DEF IInv

LEMMA RefusedIs ==
  Refused \in RequestRecords /\ Refused.state = "refused" /\ Refused.did = {}
PROOF
  <1>1. NoRequest \in RequestRecords /\ "refused" \in States
    BY NoRequestIs DEF States
  <1>2. Refused \in RequestRecords /\ Refused.state = "refused"
    BY <1>1, Zenon DEF Refused, RequestRecords
  <1>3. Refused.did = NoRequest.did
    BY DEF Refused, NoRequest
  <1> QED BY <1>2, <1>3, NoRequestIs

LEMMA AbortKeeps ==
  ASSUME TypeOK, IInv, NEW r \in Requests, Abort(r)
  PROVE  TypeOK' /\ IInv'
PROOF BY RefusedIs, LocalKeeps DEF Abort, Open, SameRows

LEMMA BeginKeeps ==
  ASSUME TypeOK, IInv, NEW r \in Requests, Begin(r)
  PROVE  TypeOK' /\ IInv'
PROOF
  <1>1. PICK kind \in Kinds, s \in Sessions \cup {"none"}, proof \in Proofs, remember \in BOOLEAN :
          /\ IF kind \in ByOthers THEN s = "none" ELSE s \in Sessions /\ MayBegin(kind, s)
          /\ kind \notin WithCode => proof = NoCode
          /\ kind \in WithCode /\ proof = NoCode => key
          /\ kind # "verify" => ~remember
          /\ request' = [request EXCEPT ![r] = [NoRequest EXCEPT
               !.kind = kind, !.s = s, !.proof = proof, !.remember = remember,
               !.ground = IF kind = "verify" THEN r ELSE "none",
               !.at = IF kind \in WithCode /\ proof = NoCode THEN 2 ELSE 1,
               !.state = "open"]]
    BY Zenon DEF Begin
  <1> DEFINE ground == IF kind = "verify" THEN r ELSE "none"
             at == IF kind \in WithCode /\ proof = NoCode THEN 2 ELSE 1
             y == [NoRequest EXCEPT !.kind = kind, !.s = s, !.proof = proof, !.remember = remember,
                                    !.ground = ground, !.at = at, !.state = "open"]
  <1>2. request' = [request EXCEPT ![r] = y]
    BY <1>1
  <1>3. /\ ground \in Grounds \cup {"none"} /\ (kind = "verify" => ground = r)
        /\ at \in 0..6 /\ at \in {1, 2} /\ (at = 2 => kind \in WithCode)
    BY DEF Grounds
  <1> HIDE DEF ground, at
  <1>4. /\ y \in RequestRecords /\ y.kind = kind /\ y.s = s /\ y.proof = proof
        /\ y.remember = remember /\ y.ground = ground /\ y.at = at /\ y.state = "open"
        /\ y.did = NoRequest.did /\ y.looked = NoRequest.looked /\ y.ends = NoRequest.ends
        /\ y.covers = NoRequest.covers
    <2>1. NoRequest \in RequestRecords /\ "open" \in States /\ kind \in Kinds \cup {"none"}
      BY NoRequestIs DEF States
    <2> QED BY <1>3, <2>1, ZenonT(60) DEF RequestRecords
  <1> HIDE DEF y
  <1>5. y.did = {} /\ y.looked = FALSE /\ y.ends = {} /\ y.covers = {}
    BY <1>4, NoRequestIs
  <1>6. Working(r, y)
    <2>1. /\ at \in 1..(Len(Plan[kind]) + 1)
          /\ ~(at <= Len(Plan[kind]) /\ Plan[kind][at] = "promote")
          /\ kind = "verify" => at <= 3
      <3>1. Len(Plan[kind]) \in 1..5 /\ (kind \in WithCode => Len(Plan[kind]) >= 2)
        BY PlanLengths
      <3>2. at \in Nat /\ at >= 1 /\ at <= 3 /\ at <= Len(Plan[kind])
        BY <1>3, <3>1, SMTT(30)
      <3>3. PlanPlace(kind, at)
        BY <3>2, PlanPlaces
      <3> QED BY <1>3, <3>1, <3>2, <3>3 DEF PlanPlace
    <2> QED BY <1>1, <1>3, <1>4, <1>5, <2>1 DEF Working, StepAt
  <1>7. Writing(y) /\ Proved(y) /\ Found(y) /\ Ending(y) /\ Covering(y) /\ Revoking(y)
    BY <1>5 DEF Writing, Proved, Found, Ending, Covering, Revoking
  <1>8. request[r].state = "idle" /\ SameRows
    BY DEF Begin, SameRows
  <1> QED BY <1>2, <1>4, <1>5, <1>6, <1>7, <1>8, LocalKeeps DEF OpenGood

\* Where an open request is.
LEMMA OpenPlace ==
  ASSUME TypeOK, IInv, NEW r \in Requests, Open(r)
  PROVE  LET q == request[r] IN
         /\ q \in RequestRecords /\ OpenGood(r, q) /\ q.kind \in Kinds
         /\ Len(Plan[q.kind]) \in 1..5 /\ q.at \in Nat /\ q.at >= 1 /\ q.at <= Len(Plan[q.kind]) + 1
         /\ Done(r) <=> q.at = Len(Plan[q.kind]) + 1
         /\ ~Done(r) => /\ q.at <= Len(Plan[q.kind]) /\ PlanPlace(q.kind, q.at)
                        /\ Op(r) = Plan[q.kind][q.at] /\ Op(r) \in Statements
                        /\ \A op : StepAt(q, op) <=> Op(r) = op
                        /\ PastDevices(q) => Op(r) # "devices"
PROOF
  <1> DEFINE q == request[r]
  <1>1. q \in RequestRecords /\ OpenGood(r, q)
    BY TypeParts DEF IInv, OpenAreGood
  <1>2. q.kind \in Kinds /\ q.at \in 1..(Len(Plan[q.kind]) + 1)
    BY <1>1 DEF OpenGood, Working
  <1>3. Len(Plan[q.kind]) \in 1..5
    BY <1>2, PlanLengths
  <1>4. q.at \in Nat /\ q.at >= 1 /\ q.at <= Len(Plan[q.kind]) + 1
    BY <1>2, <1>3
  <1>5. Done(r) <=> q.at = Len(Plan[q.kind]) + 1
    BY <1>3, <1>4 DEF Done
  <1>6. ASSUME ~Done(r)
        PROVE  /\ q.at <= Len(Plan[q.kind]) /\ PlanPlace(q.kind, q.at)
               /\ Op(r) = Plan[q.kind][q.at] /\ Op(r) \in Statements
               /\ \A op : StepAt(q, op) <=> Op(r) = op
               /\ PastDevices(q) => Op(r) # "devices"
    <2>1. q.at <= Len(Plan[q.kind])
      BY <1>3, <1>4, <1>6 DEF Done
    <2>2. PlanPlace(q.kind, q.at)
      BY <1>2, <1>4, <2>1, PlanPlaces
    <2>3. Op(r) = Plan[q.kind][q.at]
      BY DEF Op
    <2>4. q.at \in q.at..Len(Plan[q.kind])
      BY <1>3, <1>4, <2>1
    <2> QED BY <2>1, <2>2, <2>3, <2>4 DEF PlanPlace, StepAt, PastDevices
  <1> QED BY <1>1, <1>2, <1>3, <1>4, <1>5, <1>6

\* The next statement is a promotion only after what is owed was read.
LEMMA NextPlace ==
  ASSUME NEW kind \in Kinds, NEW at \in Nat, at >= 1, at <= Len(Plan[kind])
  PROVE  /\ at + 1 \in 1..(Len(Plan[kind]) + 1) /\ at + 1 \in 0..6
         /\ at + 1 <= Len(Plan[kind]) /\ Plan[kind][at + 1] = "promote" => Plan[kind][at] = "resolve"
PROOF
  <1>1. Len(Plan[kind]) \in 1..5
    BY PlanLengths
  <1> DEFINE n == Len(Plan[kind])
  <1>2. n \in 1..5 /\ at <= n
    BY <1>1
  <1> HIDE DEF n
  <1>3. /\ at + 1 \in Nat /\ at + 1 >= 1 /\ at + 1 \in 1..(n + 1) /\ at + 1 \in 0..6
        /\ (at + 1) - 1 = at
    BY <1>2
  <1>4. /\ at + 1 \in Nat /\ at + 1 >= 1 /\ at + 1 \in 1..(Len(Plan[kind]) + 1) /\ at + 1 \in 0..6
        /\ (at + 1) - 1 = at
    BY <1>3 DEF n
  <1>5. at + 1 <= Len(Plan[kind]) => PlanPlace(kind, at + 1)
    BY <1>4, PlanPlaces
  <1> QED BY <1>4, <1>5 DEF PlanPlace

LEMMA ResolveKeeps ==
  ASSUME TypeOK, IInv, NEW r \in Requests, Resolve(r)
  PROVE  TypeOK' /\ IInv'
PROOF
  <1> DEFINE q == request[r]
             n == q.at + 1
             target == PostMfaStage(r)
             y == [q EXCEPT !.target = target, !.at = n]
  <1>1. Open(r) /\ ~Done(r) /\ Op(r) = "resolve" /\ SameRows
    BY DEF Resolve, SameRows
  <1>2. /\ q \in RequestRecords /\ OpenGood(r, q) /\ q.kind \in Kinds /\ q.at \in Nat /\ q.at >= 1
        /\ q.at <= Len(Plan[q.kind]) /\ PlanPlace(q.kind, q.at) /\ Len(Plan[q.kind]) \in 1..5
        /\ \A op : StepAt(q, op) <=> op = "resolve"
    BY <1>1, OpenPlace
  <1>3. n \in 1..(Len(Plan[q.kind]) + 1) /\ n \in 0..6 /\ target \in Stages
        /\ target \in Stages \cup {"none"}
    BY <1>2, NextPlace DEF PostMfaStage, Stages
  <1>4. request' = [request EXCEPT ![r] = y]
    BY DEF Resolve
  <1>5. n = q.at + 1
    OBVIOUS
  <1> HIDE DEF n, target
  <1>6. /\ y \in RequestRecords /\ y.kind = q.kind /\ y.s = q.s /\ y.proof = q.proof
        /\ y.remember = q.remember /\ y.ground = q.ground /\ y.at = n /\ y.state = q.state
        /\ y.did = q.did /\ y.looked = q.looked /\ y.ends = q.ends /\ y.covers = q.covers
        /\ y.want = q.want /\ y.target = target
    BY <1>2, <1>3, Zenon DEF RequestRecords
  <1> HIDE DEF y
  <1>7. ~q.looked
    BY <1>2 DEF OpenGood, Working
  <1>8. PastDevices(y) => PastDevices(q)
    <2>1. ASSUME PastDevices(y), NEW i \in q.at..Len(Plan[q.kind])
          PROVE  Plan[q.kind][i] # "devices"
      <3>1. i = q.at \/ i \in n..Len(Plan[q.kind])
        BY <1>2, <1>5
      <3> QED BY <1>1, <1>2, <1>6, <2>1, <3>1 DEF PastDevices, StepAt
    <2> QED BY <2>1 DEF PastDevices
  <1>9. Working(r, y)
    <2>1. q.kind = "verify" => q.at <= 2
      BY <1>2, PlanLengths DEF PlanPlace, StepAt
    <2> QED BY <1>2, <1>3, <1>5, <1>6, <1>7, <2>1 DEF OpenGood, Working
  <1>10. Writing(y) /\ Proved(y) /\ Found(y) /\ Ending(y) /\ Covering(y) /\ Revoking(y)
    BY <1>2, <1>3, <1>6, <1>7, <1>8
       DEF OpenGood, Writing, Proved, Found, Ending, Covering, Revoking, IsEnding, HasEnded
  <1>11. request[r].state = "open" /\ OpenGood(r, y)
    BY <1>1, <1>9, <1>10 DEF Open, OpenGood
  <1> QED BY <1>1, <1>4, <1>6, <1>11, LocalKeeps

\* What a snapshot finds.
LEMMA MatchFacts ==
  ASSUME TypeOK, IInv, NEW r \in Requests, Open(r), ~Done(r), Op(r) # "resolve"
  PROVE  /\ Matches(r) \subseteq Rows
         /\ SignedOut(r) \subseteq Sessions
         /\ Op(r) = "proof" => Matches(r) \subseteq {RowOf(request[r].proof)}
                               /\ (Matches(r) # {} => StillUnused(request[r].proof))
         /\ Op(r) \in SignOuts => Matches(r) = SignedOut(r)
         /\ Op(r) \notin SignOuts => SignedOut(r) = {}
         /\ Op(r) = "unmark" => Matches(r) = {s \in Sessions : session[s].mark # "none"}
         /\ Op(r) = "devices" => Matches(r) = {d \in Requests : device[d] = "live"}
         /\ Op(r) \in {"promote", "select"} =>
              \A x \in Matches(r) : x = request[r].s /\ x \in Sessions /\ session[x].alive
         /\ Op(r) = "select" => \A x \in Matches(r) : session[x].mark # "none"
PROOF
  <1>0. /\ request[r] \in RequestRecords /\ OpenGood(r, request[r])
        /\ request[r].proof \in Proofs /\ Op(r) \in Statements
        /\ PlanPlace(request[r].kind, request[r].at) /\ Op(r) = Plan[request[r].kind][request[r].at]
    BY OpenPlace, RequestFields
  <1>1. Op(r) \in {"promote", "select", "own", "others"} => request[r].s \in Sessions
    BY <1>0 DEF PlanPlace, OpenGood, Working
  <1>2. RowOf(request[r].proof) \in Rows
    BY DEF RowOf, Rows
  <1>3. CASE Op(r) \in SignOuts
    BY <1>1, <1>3 DEF Matches, SignedOut, SignOuts, Rows
  <1>4. CASE Op(r) \in {"proof", "unmark", "devices", "promote", "select"}
    BY <1>1, <1>2, <1>4 DEF Matches, SignedOut, SignOuts, Rows, Promotable
  <1>5. CASE Op(r) \in {"ack", "user", "totp", "methods"}
    BY <1>5 DEF Matches, SignedOut, SignOuts, Rows
  <1> QED BY <1>0, <1>3, <1>4, <1>5 DEF Statements, SignOuts

\* What a sign-out speaks for.
LEMMA CoveredFacts ==
  ASSUME TypeOK, IInv, NEW r \in Requests, Open(r), ~Done(r), Op(r) # "resolve"
  PROVE  LET q == request[r] IN
         /\ Covered(r) \subseteq Sources
         /\ Covered(r) # {} => /\ ~PastDevices(q) /\ q.kind \notin Advancing
                               /\ Op(r) \in SignOuts \cup {"unmark"}
                               /\ ~(q.kind = "removeTotp" /\ q.at <= 2)
         /\ \A s : <<"session", s>> \in Covered(r) => s \in SignedOut(r)
         /\ \A g : <<"proof", g>> \in Covered(r) =>
              Op(r) = "unmark" /\ g # "none" /\ \E s \in Sessions : session[s].mark = g
         /\ \A c \in Covered(r) : c[1] = "proof" =>
              Op(r) = "unmark" /\ \E s \in Sessions : session[s].mark = c[2]
PROOF
  <1> DEFINE q == request[r]
  <1>1. /\ q \in RequestRecords /\ q.kind \in Kinds /\ Len(Plan[q.kind]) \in 1..5 /\ q.at \in Nat /\ q.at >= 1
        /\ q.at <= Len(Plan[q.kind]) /\ PlanPlace(q.kind, q.at)
        /\ Op(r) = Plan[q.kind][q.at] /\ Op(r) \in Statements
    BY OpenPlace
  <1>2. CASE PastDevices(q)
    <2>1. Covered(r) = {}
      BY <1>2 DEF Covered, PastDevices
    <2> QED BY <2>1
  <1>3. CASE ~PastDevices(q)
    <2>1. q.kind \notin Advancing
      <3>1. PICK i \in q.at..Len(Plan[q.kind]) : Plan[q.kind][i] = "devices"
        BY <1>3 DEF PastDevices
      <3>2. i \in Nat /\ i >= 1 /\ i <= Len(Plan[q.kind])
        BY <1>1, <3>1
      <3> QED BY <1>1, <3>1, <3>2, PlanPlaces DEF PlanPlace
    <2>2. CASE Op(r) = "unmark"
      <3>1. Covered(r) = {<<"proof", session[s].mark>> : s \in Matches(r)}
        BY <1>3, <2>2 DEF Covered, PastDevices
      <3>2. Matches(r) = {s \in Sessions : session[s].mark # "none"}
        BY <2>2, MatchFacts
      <3>3. ASSUME NEW c \in Covered(r)
            PROVE  /\ c \in Sources /\ c[1] = "proof"
                   /\ \E s \in Sessions : session[s].mark = c[2] /\ c[2] # "none"
        <4>1. PICK s \in Sessions : session[s].mark # "none" /\ c = <<"proof", session[s].mark>>
          BY <3>1, <3>2
        <4>2. session[s].mark \in Grounds
          BY <4>1, SessionFields, TypeParts DEF SessionType
        <4> QED BY <4>1, <4>2 DEF Sources
      <3>4. \A s : <<"session", s>> \notin Covered(r)
        <4>1. ASSUME NEW s, <<"session", s>> \in Covered(r)  PROVE FALSE
          <5>1. <<"session", s>>[1] = "proof"
            BY <3>3, <4>1
          <5> QED BY <5>1
        <4> QED BY <4>1
      <3>5. ASSUME NEW g, <<"proof", g>> \in Covered(r)
            PROVE  g # "none" /\ \E s \in Sessions : session[s].mark = g
        BY <3>1, <3>2, <3>5
      <3>6. ~(q.kind = "removeTotp" /\ q.at <= 2)
        BY <1>1, <2>2 DEF PlanPlace, WithCode
      <3> QED BY <1>3, <2>1, <2>2, <3>3, <3>4, <3>5, <3>6
    <2>3. CASE Op(r) # "unmark"
      <3>1. Covered(r) = {<<"session", s>> : s \in SignedOut(r)}
        BY <1>3, <2>3 DEF Covered, PastDevices
      <3>2. SignedOut(r) \subseteq Sessions /\ (SignedOut(r) # {} => Op(r) \in SignOuts)
        BY MatchFacts
      <3>3. ASSUME NEW c \in Covered(r)
            PROVE  c \in Sources /\ c[1] = "session"
        <4>1. PICK s \in Sessions : c = <<"session", s>>
          BY <3>1, <3>2
        <4> QED BY <4>1 DEF Sources
      <3>4. ASSUME NEW s, <<"session", s>> \in Covered(r)  PROVE s \in SignedOut(r)
        BY <3>1, <3>4
      <3>5. \A g : <<"proof", g>> \notin Covered(r)
        <4>1. ASSUME NEW g, <<"proof", g>> \in Covered(r)  PROVE FALSE
          <5>1. <<"proof", g>>[1] = "session"
            BY <3>3, <4>1
          <5> QED BY <5>1
        <4> QED BY <4>1
      <3>6. Covered(r) # {} => Op(r) \in SignOuts
        BY <3>1, <3>2
      <3>7. q.kind = "removeTotp" /\ q.at <= 2 => Op(r) \in {"proof", "totp"}
        BY <1>1 DEF PlanPlace, WithCode
      <3> QED BY <1>3, <2>1, <3>3, <3>4, <3>5, <3>6, <3>7 DEF SignOuts
    <2> QED BY <2>2, <2>3
  <1> QED BY <1>2, <1>3

LEMMA LookKeeps ==
  ASSUME TypeOK, IInv, NEW r \in Requests, Look(r)
  PROVE  TypeOK' /\ IInv'
PROOF
  <1> DEFINE q == request[r]
             want == Matches(r)
             ends == q.ends \cup SignedOut(r)
             covers == q.covers \cup Covered(r)
             y == [q EXCEPT !.looked = TRUE, !.want = want, !.ends = ends, !.covers = covers]
  <1>1. Open(r) /\ ~Done(r) /\ Op(r) # "resolve" /\ ~q.looked /\ SameRows
    BY DEF Look, SameRows
  <1>2. /\ q \in RequestRecords /\ OpenGood(r, q) /\ q.kind \in Kinds /\ q.at \in Nat /\ q.at >= 1
        /\ q.at <= Len(Plan[q.kind]) /\ PlanPlace(q.kind, q.at)
        /\ \A op : StepAt(q, op) <=> Op(r) = op
        /\ PastDevices(q) => Op(r) # "devices"
    BY <1>1, OpenPlace
  <1>3. want \in SUBSET Rows /\ ends \in SUBSET Sessions /\ covers \in SUBSET Sources
    BY <1>1, <1>2, MatchFacts, CoveredFacts, RequestFields
  <1>4. request' = [request EXCEPT ![r] = y]
    BY DEF Look
  <1>5. want = Matches(r) /\ ends = q.ends \cup SignedOut(r) /\ covers = q.covers \cup Covered(r)
    OBVIOUS
  <1> HIDE DEF want, ends, covers
  <1>6. /\ y \in RequestRecords /\ y.kind = q.kind /\ y.s = q.s /\ y.proof = q.proof
        /\ y.remember = q.remember /\ y.ground = q.ground /\ y.at = q.at /\ y.state = q.state
        /\ y.did = q.did /\ y.looked = TRUE /\ y.ends = ends /\ y.covers = covers
        /\ y.want = want /\ y.target = q.target
    BY <1>2, <1>3, Zenon DEF RequestRecords
  <1> HIDE DEF y
  <1>7. /\ \A op : StepAt(y, op) <=> Op(r) = op
        /\ PastDevices(y) <=> PastDevices(q)
        /\ \A s : HasEnded(y, s) <=> HasEnded(q, s)
    BY <1>2, <1>6 DEF StepAt, PastDevices, HasEnded
  <1>8. Working(r, y)
    <2>1. Op(r) = "proof" => want \subseteq {RowOf(q.proof)}
      BY <1>1, <1>5, MatchFacts
    <2>2. (Op(r) = "others" => q.s \notin want) /\ (Op(r) = "own" => want \subseteq {q.s})
      BY <1>1, <1>5, MatchFacts DEF SignedOut, SignOuts
    <2>3. /\ q.kind = "removeTotp" /\ q.at <= 2 => covers = {}
          /\ covers # {} => q.kind \notin Advancing
      BY <1>1, <1>2, <1>5, CoveredFacts DEF OpenGood, Working
    <2> QED BY <1>1, <1>2, <1>6, <1>7, <2>1, <2>2, <2>3 DEF OpenGood, Working
  <1>9. Writing(y)
    BY <1>2, <1>6 DEF OpenGood, Writing
  <1>10. Proved(y)
    BY <1>1, <1>2, <1>5, <1>6, CoveredFacts DEF OpenGood, Proved, IInv, MarksAreProved
  <1>11. Found(y)
    <2>1. \A s \in SignedOut(r) : s \in Sessions /\ session[s].stage \in Stages
      BY TypeParts DEF SignedOut, SessionType
    <2> QED BY <1>1, <1>2, <1>5, <1>6, <2>1, CoveredFacts DEF OpenGood, Found
  <1>12. ASSUME NEW s \in SignedOut(r)  PROVE IsEnding(y, s)
    BY <1>1, <1>5, <1>6, <1>7, <1>12, MatchFacts DEF IsEnding
  <1>13. Ending(y)
    BY <1>1, <1>2, <1>5, <1>6, <1>7, <1>12 DEF OpenGood, Ending, IsEnding
  <1>14. Covering(y)
    <2>1. ASSUME NEW s \in Sessions, <<"session", s>> \in covers
          PROVE  ~session[s].alive \/ HasEnded(y, s) \/ (IsEnding(y, s) /\ ~PastDevices(y))
      <3>1. CASE <<"session", s>> \in q.covers
        BY <1>1, <1>2, <1>7, <3>1 DEF OpenGood, Covering, IsEnding
      <3>2. CASE <<"session", s>> \in Covered(r)
        BY <1>1, <1>7, <1>12, <3>2, CoveredFacts
      <3> QED BY <1>5, <2>1, <3>1, <3>2
    <2>2. ASSUME NEW s \in Sessions, <<"proof", session[s].mark>> \in covers
          PROVE  \/ <<"unmark", s>> \in y.did
                 \/ y.looked /\ s \in y.want /\ StepAt(y, "unmark") /\ ~PastDevices(y)
      <3>1. CASE <<"proof", session[s].mark>> \in q.covers
        BY <1>1, <1>2, <1>6, <3>1 DEF OpenGood, Covering
      <3>2. CASE <<"proof", session[s].mark>> \in Covered(r)
        <4>1. Op(r) = "unmark" /\ session[s].mark # "none" /\ ~PastDevices(q)
          BY <1>1, <3>2, CoveredFacts
        <4>2. s \in want
          BY <1>1, <1>5, <4>1, MatchFacts
        <4> QED BY <1>6, <1>7, <4>1, <4>2
      <3> QED BY <1>5, <2>2, <3>1, <3>2
    <2> QED BY <1>6, <2>1, <2>2 DEF Covering
  <1>15. Revoking(y)
    <2>1. ASSUME NEW d \in Requests, device[d] = "live", RestsOn(d) \cap covers # {}
          PROVE  /\ PastDevices(y) => <<"devices", d>> \in y.did
                 /\ StepAt(y, "devices") => d \in y.want
      <3>1. PastDevices(q) => covers = q.covers
        BY <1>1, <1>5, CoveredFacts
      <3>2. Op(r) = "devices" => d \in want
        BY <1>1, <1>5, <2>1, MatchFacts
      <3> QED BY <1>2, <1>6, <1>7, <2>1, <3>1, <3>2 DEF OpenGood, Revoking
    <2> QED BY <1>6, <2>1 DEF Revoking
  <1>16. request[r].state = "open" /\ OpenGood(r, y)
    BY <1>1, <1>8, <1>9, <1>10, <1>11, <1>13, <1>14, <1>15 DEF Open, OpenGood
  <1> QED BY <1>1, <1>4, <1>6, <1>16, LocalKeeps

\* What a statement writes once the rows it waited for are released.
LEMMA RunFacts ==
  ASSUME TypeOK, IInv, NEW r \in Requests, Open(r), ~Done(r), request[r].looked,
         Free(request[r].want, r)
  PROVE  LET q == request[r]
             rows == Rematched(r)
         IN  /\ Op(r) # "resolve" /\ rows \subseteq q.want /\ rows \subseteq Rows
             /\ \A x \in rows, p \in Requests \ {r} : x \notin Holds(p)
             /\ Op(r) = "proof" => rows \subseteq {RowOf(q.proof)}
                                   /\ (rows # {} => StillUnused(q.proof))
             /\ Op(r) # "proof" => rows = q.want \cap Matches(r)
             /\ Op(r) \in SignOuts =>
                  \A s \in Sessions : s \in q.want /\ session[s].alive => s \in rows
             /\ Op(r) = "unmark" =>
                  \A s \in Sessions : s \in q.want /\ session[s].mark # "none" => s \in rows
             /\ Op(r) = "devices" =>
                  \A d \in Requests : d \in q.want /\ device[d] = "live" => d \in rows
PROOF
  <1> DEFINE q == request[r]
             rows == Rematched(r)
  <1>1. /\ q \in RequestRecords /\ OpenGood(r, q) /\ Op(r) \in Statements
        /\ \A op : StepAt(q, op) <=> Op(r) = op
    BY OpenPlace
  <1>2. /\ Op(r) # "resolve"
        /\ Op(r) = "proof" => q.want \subseteq {RowOf(q.proof)}
        /\ Op(r) = "others" => q.s \notin q.want
        /\ Op(r) = "own" => q.want \subseteq {q.s}
    BY <1>1 DEF OpenGood, Working
  <1>3. rows \subseteq q.want /\ q.want \subseteq Rows
    BY <1>1, RequestFields DEF Rematched
  <1>4. \A x \in rows, p \in Requests \ {r} : x \notin Holds(p)
    BY <1>3 DEF Free
  <1>5. /\ Op(r) = "proof" => rows = {row \in q.want : StillUnused(q.proof)}
        /\ Op(r) # "proof" => rows = q.want \cap Matches(r)
    BY DEF Rematched
  <1>6. ASSUME Op(r) \in SignOuts, NEW s \in Sessions, s \in q.want, session[s].alive
        PROVE  s \in rows
    <2>1. Matches(r) = SignedOut(r)
      BY <1>2, <1>6, MatchFacts
    <2>2. s \in SignedOut(r)
      BY <1>2, <1>6 DEF SignedOut, SignOuts
    <2> QED BY <1>5, <1>6, <2>1, <2>2 DEF SignOuts
  <1>7. Op(r) = "unmark" => Matches(r) = {s \in Sessions : session[s].mark # "none"}
    BY <1>2, MatchFacts
  <1>8. Op(r) = "devices" => Matches(r) = {d \in Requests : device[d] = "live"}
    BY <1>2, MatchFacts
  <1> QED BY <1>2, <1>3, <1>4, <1>5, <1>6, <1>7, <1>8

LEMMA RunKeeps ==
  ASSUME TypeOK, IInv, NEW r \in Requests, Run(r)
  PROVE  TypeOK' /\ IInv'
PROOF
  <1> DEFINE q == request[r]
             rows == Rematched(r)
             op == IF Op(r) = "proof" THEN "use" ELSE Op(r)
             did == q.did \cup ({op} \X rows)
             ground == IF Op(r) = "select" /\ rows # {} THEN session[q.s].mark ELSE q.ground
             n == IF SkipsRest(r, rows) THEN Len(Plan[q.kind]) + 1 ELSE q.at + 1
             y == [q EXCEPT !.looked = FALSE, !.want = {}, !.did = did, !.ground = ground, !.at = n]
  <1>1. Open(r) /\ ~Done(r) /\ q.looked /\ Free(q.want, r) /\ SameRows
    BY DEF Run, SameRows
  <1>2. /\ q \in RequestRecords /\ OpenGood(r, q) /\ q.kind \in Kinds /\ q.at \in Nat /\ q.at >= 1
        /\ q.at <= Len(Plan[q.kind]) /\ PlanPlace(q.kind, q.at) /\ Len(Plan[q.kind]) \in 1..5
        /\ Op(r) = Plan[q.kind][q.at] /\ Op(r) \in Statements
        /\ \A o : StepAt(q, o) <=> Op(r) = o
        /\ PastDevices(q) => Op(r) # "devices"
    BY <1>1, OpenPlace
  <1>3. request' = [request EXCEPT ![r] = IF Refuses(r, rows) THEN Refused ELSE y]
    BY Zenon DEF Run
  <1>4. CASE Refuses(r, rows)
    BY <1>1, <1>3, <1>4, RefusedIs, LocalKeeps DEF Open
  <1>5. CASE ~Refuses(r, rows)
    <2>1. request' = [request EXCEPT ![r] = y]
      BY <1>3, <1>5
    <2>2. /\ Op(r) # "resolve" /\ rows \subseteq q.want /\ rows \subseteq Rows
          /\ \A x \in rows, p \in Requests \ {r} : x \notin Holds(p)
          /\ Op(r) = "proof" => rows \subseteq {RowOf(q.proof)}
                                /\ (rows # {} => StillUnused(q.proof))
          /\ Op(r) # "proof" => rows = q.want \cap Matches(r)
          /\ Op(r) \in SignOuts =>
               \A s \in Sessions : s \in q.want /\ session[s].alive => s \in rows
          /\ Op(r) = "unmark" =>
               \A s \in Sessions : s \in q.want /\ session[s].mark # "none" => s \in rows
          /\ Op(r) = "devices" =>
               \A d \in Requests : d \in q.want /\ device[d] = "live" => d \in rows
      BY <1>1, RunFacts
    <2>3. op \in Ops
      BY <1>2, <2>2 DEF Statements, Ops
    <2>4. /\ Op(r) = "proof" => op = "use"
          /\ Op(r) # "proof" => op = Op(r)
          /\ op = "use" => Op(r) = "proof"
      BY <1>2 DEF Statements
    <2>5. /\ q.did \subseteq did
          /\ \A x \in rows : <<op, x>> \in did
          /\ \A w \in did : w \in q.did \/ \E x \in rows : w[1] = op /\ w[2] = x
      OBVIOUS
    <2>6. did \in SUBSET (Ops \X Rows)
      BY <1>2, <2>2, <2>3, RequestFields
    <2>7. /\ ground \in Grounds \cup {"none"}
          /\ Op(r) = "select" /\ rows # {} => ground = session[q.s].mark /\ ground # "none"
          /\ ~(Op(r) = "select" /\ rows # {}) => ground = q.ground
      <3>1. ASSUME Op(r) = "select", rows # {}
            PROVE  session[q.s].mark \in Grounds /\ session[q.s].mark # "none"
        <4>1. PICK x \in rows : x \in Matches(r)
          BY <2>2, <3>1
        <4>2. x = q.s /\ x \in Sessions /\ session[x].mark # "none"
          BY <1>1, <2>2, <3>1, <4>1, MatchFacts
        <4> QED BY <4>2, TypeParts, SessionFields DEF SessionType
      <3> QED BY <1>2, <3>1, RequestFields
    <2>8. /\ ~SkipsRest(r, rows) => n = q.at + 1
          /\ SkipsRest(r, rows) => n = Len(Plan[q.kind]) + 1 /\ q.kind = "removeTotp" /\ q.at = 2
          /\ n \in 1..(Len(Plan[q.kind]) + 1) /\ n \in 0..6
      <3>1. SkipsRest(r, rows) => Op(r) = "totp"
        BY DEF SkipsRest
      <3>2. SkipsRest(r, rows) => q.kind = "removeTotp" /\ q.at = 2
        BY <1>2, <3>1 DEF PlanPlace
      <3>3. q.at + 1 \in 1..(Len(Plan[q.kind]) + 1) /\ q.at + 1 \in 0..6
        BY <1>2, NextPlace
      <3>4. Len(Plan[q.kind]) + 1 \in 1..(Len(Plan[q.kind]) + 1) /\ Len(Plan[q.kind]) + 1 \in 0..6
        <4>1. \A m \in 1..5 : m + 1 \in 1..(m + 1) /\ m + 1 \in 0..6
          OBVIOUS
        <4> QED BY <1>2, <4>1
      <3> QED BY <3>2, <3>3, <3>4
    <2> HIDE DEF did, ground, n, op
    <2>9. /\ y \in RequestRecords /\ y.kind = q.kind /\ y.s = q.s /\ y.proof = q.proof
          /\ y.remember = q.remember /\ y.ground = ground /\ y.at = n /\ y.state = q.state
          /\ y.did = did /\ y.looked = FALSE /\ y.ends = q.ends /\ y.covers = q.covers
          /\ y.want = {} /\ y.target = q.target
      <3>1. {} \in SUBSET Rows
        OBVIOUS
      <3> QED BY <1>2, <2>6, <2>7, <2>8, <3>1, Zenon DEF RequestRecords
    <2> HIDE DEF y
    <2>10. Working(r, y)
      <3>1. ~StepAt(y, "promote")
        <4>1. ASSUME StepAt(y, "promote")  PROVE FALSE
          <5>1. n <= Len(Plan[q.kind]) /\ Plan[q.kind][n] = "promote"
            BY <2>9, <4>1 DEF StepAt
          <5>2. n = q.at + 1
            BY <1>2, <2>8, <5>1
          <5> QED BY <1>2, <2>2, <5>1, <5>2, NextPlace
        <4> QED BY <4>1
      <3>2. q.kind = "verify" => ground = r
        BY <1>2, <2>7 DEF PlanPlace, OpenGood, Working
      <3>3. ASSUME q.kind = "verify", n > 3
            PROVE  \E x \in Rows : <<"promote", x>> \in did
        <4>1. Len(Plan[q.kind]) = 3 /\ n = q.at + 1
          BY <1>2, <2>8, <3>3, PlanLengths
        <4>2. q.at = 3
          BY <1>2, <3>3, <4>1
        <4>3. Op(r) = "promote"
          BY <1>2, <3>3, <4>2 DEF PlanPlace
        <4>4. rows # {}
          BY <1>5, <3>3, <4>3 DEF Refuses
        <4>5. op = "promote"
          BY <2>4, <4>3
        <4> QED BY <2>2, <2>5, <4>4, <4>5
      <3>4. q.kind = "removeTotp" /\ n <= 2 => q.covers = {}
        <4>1. ASSUME q.kind = "removeTotp", n <= 2  PROVE q.at <= 2
          <5>1. Len(Plan[q.kind]) = 4
            BY <1>2, <4>1, PlanLengths
          <5> QED BY <1>2, <2>8, <4>1, <5>1
        <4> QED BY <1>2, <4>1 DEF OpenGood, Working
      <3> QED BY <1>2, <2>8, <2>9, <3>1, <3>2, <3>3, <3>4 DEF OpenGood, Working
    <2>11. Writing(y)
      <3>1. ASSUME NEW w \in did
            PROVE  /\ w[1] = "use" => w[2] = RowOf(q.proof) /\ StillUnused(q.proof)
                   /\ w[1] \in {"promote", "select"} =>
                        w[2] = q.s /\ q.s \in Sessions /\ session[q.s].alive /\ q.kind \in Advancing
                   /\ w[1] = "promote" => q.target \in Stages
                   /\ w[1] = "select" => session[q.s].mark = ground /\ ground # "none"
        <4>1. CASE w \in q.did
          BY <1>2, <2>7, <4>1 DEF OpenGood, Writing
        <4>2. ASSUME NEW x \in rows, w[1] = op, w[2] = x
              PROVE  /\ w[1] = "use" => w[2] = RowOf(q.proof) /\ StillUnused(q.proof)
                     /\ w[1] \in {"promote", "select"} =>
                          w[2] = q.s /\ q.s \in Sessions /\ session[q.s].alive /\ q.kind \in Advancing
                     /\ w[1] = "promote" => q.target \in Stages
                     /\ w[1] = "select" => session[q.s].mark = ground /\ ground # "none"
          <5>1. op = "use" => x = RowOf(q.proof) /\ StillUnused(q.proof)
            BY <2>2, <2>4
          <5>2. op \in {"promote", "select"} => Op(r) = op
            BY <2>4
          <5>3. op \in {"promote", "select"} =>
                  x = q.s /\ q.s \in Sessions /\ session[q.s].alive /\ q.kind \in Advancing
            BY <1>1, <1>2, <2>2, <5>2, MatchFacts DEF PlanPlace
          <5>4. op = "promote" => q.target \in Stages
            BY <1>2, <5>2 DEF OpenGood, Working
          <5>5. op = "select" => session[q.s].mark = ground /\ ground # "none"
            BY <2>7, <5>2
          <5> QED BY <4>2, <5>1, <5>3, <5>4, <5>5
        <4> QED BY <2>5, <4>1, <4>2
      <3> QED BY <2>9, <3>1 DEF Writing
    <2>12. Proved(y) /\ Found(y)
      BY <1>2, <2>9 DEF OpenGood, Proved, Found
    <2>13. \A s \in Sessions : session[s].alive /\ (HasEnded(q, s) \/ IsEnding(q, s)) => HasEnded(y, s)
      <3>1. ASSUME NEW s \in Sessions, session[s].alive, IsEnding(q, s)
            PROVE  op \in SignOuts /\ <<op, s>> \in did
        <4>1. Op(r) \in SignOuts /\ s \in q.want
          BY <1>2, <3>1 DEF IsEnding
        <4>2. op = Op(r)
          BY <2>4, <4>1 DEF SignOuts
        <4> QED BY <2>2, <2>5, <3>1, <4>1, <4>2
      <3> QED BY <2>5, <2>9, <3>1 DEF HasEnded
    <2>14. Ending(y)
      BY <1>2, <2>9, <2>13, RequestFields DEF OpenGood, Ending
    <2>15. Covering(y)
      <3>1. ASSUME NEW s \in Sessions, <<"proof", session[s].mark>> \in q.covers
            PROVE  <<"unmark", s>> \in did
        <4>1. CASE <<"unmark", s>> \in q.did
          BY <2>5, <4>1
        <4>2. CASE s \in q.want /\ StepAt(q, "unmark")
          <5>1. <<"proof", session[s].mark>> \in Sources
            BY <1>2, <3>1, RequestFields
          <5>2. session[s].mark \in Grounds
            BY <5>1 DEF Sources
          <5>3. session[s].mark # "none"
            BY <5>2, NameFacts DEF Grounds
          <5>4. Op(r) = "unmark" /\ op = "unmark"
            BY <1>2, <2>4, <4>2
          <5> QED BY <2>2, <2>5, <4>2, <5>3, <5>4
        <4> QED BY <1>2, <3>1, <4>1, <4>2 DEF OpenGood, Covering
      <3>2. \A s \in Sessions : <<"session", s>> \in q.covers => ~session[s].alive \/ HasEnded(y, s)
        BY <1>2, <2>13 DEF OpenGood, Covering
      <3> QED BY <2>9, <3>1, <3>2 DEF Covering
    <2>16. Revoking(y)
      <3>1. ASSUME NEW d \in Requests, device[d] = "live", RestsOn(d) \cap q.covers # {}, PastDevices(y)
            PROVE  <<"devices", d>> \in did
        <4>1. /\ PastDevices(q) => <<"devices", d>> \in q.did
              /\ Op(r) = "devices" => d \in q.want
          BY <1>1, <1>2, <3>1 DEF OpenGood, Revoking
        <4>2. CASE PastDevices(q)
          BY <2>5, <4>1, <4>2
        <4>3. CASE Op(r) = "devices"
          BY <2>2, <2>4, <2>5, <3>1, <4>1, <4>3
        <4>4. CASE ~PastDevices(q) /\ Op(r) # "devices"
          <5>1. PICK i \in q.at..Len(Plan[q.kind]) : Plan[q.kind][i] = "devices"
            BY <4>4 DEF PastDevices
          <5>2. i # q.at
            BY <1>2, <4>4, <5>1
          <5>3. ~SkipsRest(r, rows)
            BY <1>2, <2>8, <3>1 DEF OpenGood, Working
          <5>4. i \in n..Len(Plan[q.kind])
            BY <1>2, <2>8, <5>1, <5>2, <5>3, SMTT(30)
          <5> QED BY <2>9, <3>1, <5>1, <5>4 DEF PastDevices
        <4> QED BY <4>2, <4>3, <4>4
      <3>2. ASSUME NEW d \in Requests, device[d] = "live", RestsOn(d) \cap y.covers # {}
            PROVE  /\ PastDevices(y) => <<"devices", d>> \in y.did
                   /\ ~y.looked
        BY <2>9, <3>1, <3>2
      <3> QED BY <3>2 DEF Revoking
    <2>17. request[r].state = "open" /\ OpenGood(r, y)
      BY <1>1, <2>10, <2>11, <2>12, <2>14, <2>15, <2>16 DEF Open, OpenGood
    <2>18. \A w \in did : w \in q.did \/ \A p \in Requests \ {r} : w[2] \notin Holds(p)
      BY <2>2, <2>5
    <2>19. /\ y \in RequestRecords /\ y.state \in {"open", "refused"}
           /\ request[r].state \in {"idle", "open"} /\ SameRows
      BY <1>1, <2>1, <2>9, <2>17
    <2>20. \A w \in y.did : \/ Open(r) /\ w \in request[r].did
                            \/ \A p \in Requests \ {r} : w[2] \notin Holds(p)
      BY <1>1, <2>9, <2>18
    <2>21. request' = [request EXCEPT ![r] = y]
      BY <2>1
    <2> HIDE DEF q, rows
    <2> QED BY <2>17, <2>19, <2>20, <2>21, LocalKeeps
  <1> QED BY <1>4, <1>5

-----------------------------------------------------------------------------
(* Logins and time.                                                        *)

\* All that they may do to the sessions.
SessionsMove ==
  /\ UNCHANGED <<totp, key, code, mustChange, device, request>>
  /\ SessionType'
  /\ \A s \in Sessions :
       /\ session'[s].mark = session[s].mark
       /\ session[s].stage \in Stages => session'[s].stage \in Stages
       /\ session'[s].alive => session[s].alive \/ session[s].stage \notin Stages
       /\ \A r \in Requests : s \in Holds(r) /\ session[s].alive => session'[s].alive

LEMMA SessionsMoveKeeps ==
  ASSUME TypeOK, IInv, SessionsMove
  PROVE  TypeOK' /\ IInv'
PROOF
  <1>1. TypeOK'
    BY TypeParts DEF SessionsMove
  <1>2. ASSUME NEW x \in Requests, Open(x)
        PROVE  OpenGood(x, request[x])'
    <2>1. PICK q : q = request[x]
      OBVIOUS
    <2>2. OpenGood(x, q) /\ q \in RequestRecords
      BY <1>2, <2>1, TypeParts DEF IInv, OpenAreGood
    <2>3. q.ends \subseteq Sessions
      BY <2>2, RequestFields
    <2>4. Working(x, q)'
      BY <2>2 DEF OpenGood, Working, StepAt, RowOf
    <2>5. Writing(q)'
      <3>1. ASSUME NEW w \in q.did, w[1] \in {"promote", "select"}
            PROVE  q.s \in Sessions /\ session'[q.s].alive
        <4>1. w[2] = q.s /\ q.s \in Sessions /\ session[q.s].alive
          BY <2>2, <3>1 DEF OpenGood, Writing
        <4>2. q.s \in Holds(x)
          BY <1>2, <2>1, <3>1, <4>1 DEF Holds
        <4> QED BY <4>1, <4>2 DEF SessionsMove
      <3> QED BY <2>2, <3>1 DEF OpenGood, Writing, SessionsMove, StillUnused, RowOf
    <2>6. Proved(q)' /\ Found(q)'
      BY <2>2, <2>3 DEF OpenGood, Proved, Found, SessionsMove, Ok
    <2>7. \A s \in q.ends : session'[s].alive => session[s].alive
      BY <2>2, <2>3 DEF OpenGood, Found, SessionsMove
    <2>8. Ending(q)'
      BY <2>2, <2>7 DEF OpenGood, Ending, HasEnded, IsEnding, StepAt
    <2>9. Covering(q)'
      <3>1. ASSUME NEW s \in Sessions, <<"session", s>> \in q.covers
            PROVE  ~session'[s].alive \/ HasEnded(q, s) \/ (IsEnding(q, s) /\ ~PastDevices(q))
        BY <2>2, <2>7, <3>1 DEF OpenGood, Covering, Found
      <3>2. ASSUME NEW s \in Sessions, <<"proof", session'[s].mark>> \in q.covers
            PROVE  \/ <<"unmark", s>> \in q.did
                   \/ q.looked /\ s \in q.want /\ StepAt(q, "unmark") /\ ~PastDevices(q)
        BY <2>2, <3>2 DEF OpenGood, Covering, SessionsMove
      <3> QED BY <3>1, <3>2 DEF Covering, HasEnded, IsEnding, StepAt, PastDevices
    <2>10. Revoking(q)'
      BY <2>2 DEF OpenGood, Revoking, RestsOn, SessionsMove, PastDevices, StepAt
    <2>11. OpenGood(x, q)'
      BY <2>4, <2>5, <2>6, <2>8, <2>9, <2>10 DEF OpenGood
    <2>12. q = request'[x]
      BY <2>1 DEF SessionsMove
    <2> QED BY <2>11, <2>12, OpenByName
  <1>3. ASSUME NEW x \in Requests, Ok(x)
        PROVE  OkGood(request[x])'
    <2>1. PICK q : q = request[x]
      OBVIOUS
    <2>2. OkGood(q) /\ q.ends \subseteq Sessions
      BY <1>3, <2>1, TypeParts, RequestFields DEF IInv, OkAreGood
    <2>3. OkGood(q)'
      BY <2>2 DEF OkGood, Proved, Found, SessionsMove, Ok
    <2>4. q = request'[x]
      BY <2>1 DEF SessionsMove
    <2> QED BY <2>3, <2>4, OkByName
  <1>4. OpenAreGood' /\ OkAreGood'
    BY <1>2, <1>3 DEF SessionsMove, OpenAreGood, OkAreGood, Open, Ok
  <1>5. Apart'
    BY DEF IInv, Apart, SessionsMove, Holds, Open
  <1>6. MarksAreProved' /\ Trusting'
    BY DEF IInv, MarksAreProved, Trusting, RestsOn, SessionsMove, Ok
  <1>7. NoProofBurnt'
    BY DEF IInv, NoProofBurnt, UsedBy, Wrote, SessionsMove
  <1> QED BY <1>1, <1>4, <1>5, <1>6, <1>7 DEF IInv

\* A step that changes one session.
LEMMA OneSessionKeeps ==
  ASSUME TypeOK, IInv, UNCHANGED <<totp, key, code, mustChange, device, request>>,
         NEW s \in Sessions, NEW x \in SessionRecords, session' = [session EXCEPT ![s] = x],
         x.alive => x.stage \in Stages, x.stage = "arriving" => x.next \in Stages,
         x.mark = session[s].mark, session[s].stage \in Stages => x.stage \in Stages,
         x.alive => session[s].alive \/ session[s].stage \notin Stages,
         session[s].alive /\ ~x.alive => \A r \in Requests : s \notin Holds(r)
  PROVE  TypeOK' /\ IInv'
PROOF
  <1>1. session \in [Sessions -> SessionRecords]
    BY TypeParts DEF SessionType
  <1>2. /\ session' \in [Sessions -> SessionRecords] /\ session'[s] = x
        /\ \A z \in Sessions \ {s} : session'[z] = session[z]
    BY <1>1
  <1>3. SessionType'
    BY <1>2, TypeParts DEF SessionType
  <1>4. SessionsMove
    BY <1>2, <1>3 DEF SessionsMove
  <1> QED BY <1>4, SessionsMoveKeeps

LEMMA LoginCheckKeeps ==
  ASSUME TypeOK, IInv, NEW s \in Sessions, LoginCheck(s)
  PROVE  TypeOK' /\ IInv'
PROOF
  <1>1. PICK next \in Stages :
          /\ session' = [session EXCEPT ![s].stage = "arriving", ![s].next = next]
    BY DEF LoginCheck, Stages
  <1> DEFINE x == [session[s] EXCEPT !.stage = "arriving", !.next = next]
  <1>2. session[s] \in SessionRecords /\ session[s].stage = "none"
    BY TypeParts DEF LoginCheck, SessionType
  <1>3. session' = [session EXCEPT ![s] = x]
    BY <1>1
  <1>4. "arriving" \in Stages \cup {"none", "arriving"} /\ next \in Stages \cup {"none"}
    OBVIOUS
  <1>5. /\ x \in SessionRecords /\ x.stage = "arriving" /\ x.next = next
        /\ x.alive = session[s].alive /\ x.mark = session[s].mark
    BY <1>2, <1>4, Zenon DEF SessionRecords
  <1> HIDE DEF x
  <1>6. ~session[s].alive /\ "none" \notin Stages
    BY <1>2, TypeParts DEF SessionType, Stages, MfaPending, BackupCodes, ChangePassword, Full
  <1> QED BY <1>2, <1>3, <1>5, <1>6, OneSessionKeeps DEF LoginCheck

LEMMA LoginCreateKeeps ==
  ASSUME TypeOK, IInv, NEW s \in Sessions, LoginCreate(s)
  PROVE  TypeOK' /\ IInv'
PROOF
  <1> DEFINE next == session[s].next
             x == [session[s] EXCEPT !.stage = next, !.next = "none", !.alive = TRUE]
  <1>1. session[s] \in SessionRecords /\ session[s].stage = "arriving" /\ next \in Stages
    BY TypeParts DEF LoginCreate, SessionType
  <1>2. session' = [session EXCEPT ![s] = x]
    BY DEF LoginCreate
  <1> HIDE DEF next
  <1>3. "none" \in Stages \cup {"none"} /\ next \in Stages \cup {"none", "arriving"} /\ TRUE \in BOOLEAN
    BY <1>1
  <1>4. x \in SessionRecords /\ x.stage = next /\ x.next = "none" /\ x.alive /\ x.mark = session[s].mark
    BY <1>1, <1>3, Zenon DEF SessionRecords
  <1> HIDE DEF x
  <1>5. "arriving" \notin Stages
    BY DEF Stages, MfaPending, BackupCodes, ChangePassword, Full
  <1> QED BY <1>1, <1>2, <1>4, <1>5, OneSessionKeeps DEF LoginCreate

LEMMA ExpireKeeps ==
  ASSUME TypeOK, IInv, NEW s \in Sessions, Expire(s)
  PROVE  TypeOK' /\ IInv'
PROOF
  <1> DEFINE x == [session[s] EXCEPT !.alive = FALSE]
  <1>1. /\ session[s] \in SessionRecords
        /\ session[s].stage = "arriving" => session[s].next \in Stages
    BY TypeParts DEF SessionType
  <1>2. session' = [session EXCEPT ![s] = x]
    BY DEF Expire
  <1>3. /\ x \in SessionRecords /\ x.stage = session[s].stage /\ x.next = session[s].next
        /\ ~x.alive /\ x.mark = session[s].mark
    BY <1>1, Zenon DEF SessionRecords
  <1> HIDE DEF x
  <1> QED BY <1>1, <1>2, <1>3, OneSessionKeeps DEF Expire

LEMMA ProofAgesKeeps ==
  ASSUME TypeOK, IInv, NEW s \in Sessions, ProofAges(s)
  PROVE  TypeOK' /\ IInv'
PROOF
  <1> DEFINE x == [session[s] EXCEPT !.recent = FALSE]
  <1>1. /\ session[s] \in SessionRecords
        /\ session[s].alive => session[s].stage \in Stages
        /\ session[s].stage = "arriving" => session[s].next \in Stages
    BY TypeParts DEF SessionType
  <1>2. session' = [session EXCEPT ![s] = x]
    BY DEF ProofAges
  <1>3. /\ x \in SessionRecords /\ x.stage = session[s].stage /\ x.next = session[s].next
        /\ x.alive <=> session[s].alive
        /\ x.mark = session[s].mark
    BY <1>1, Zenon DEF SessionRecords
  <1> HIDE DEF x
  <1> QED BY <1>1, <1>2, <1>3, OneSessionKeeps DEF ProofAges

-----------------------------------------------------------------------------
(* Commits.                                                                *)

\* What the committing request has become, and what it knew.
LEMMA CommitFacts ==
  ASSUME TypeOK, IInv, NEW r \in Requests, Commit(r)
  PROVE  LET q == request[r] IN
         /\ q \in RequestRecords /\ OpenGood(r, q) /\ PastDevices(q) /\ ~q.looked
         /\ q.kind = "verify" => \E x \in Rows : <<"promote", x>> \in q.did
         /\ Open(r) /\ ~Ok(r) /\ Ok(r)' /\ ~Open(r)'
         /\ request' \in [Requests -> RequestRecords]
         /\ request'[r].did = q.did /\ request'[r].proof = q.proof /\ request'[r].s = q.s
         /\ request'[r].ground = q.ground /\ request'[r].ends = q.ends
         /\ request'[r].covers = q.covers /\ request'[r].kind = q.kind
         /\ \A x \in Requests \ {r} : request'[x] = request[x]
         /\ \A x \in Requests : Ok(x) => x # r /\ Ok(x)' /\ request'[x] = request[x]
         /\ \A x \in Requests : Open(x)' => x # r /\ Open(x)
PROOF
  <1> DEFINE q == request[r]
             y == [q EXCEPT !.state = "ok"]
  <1>1. Open(r) /\ Done(r)
    BY DEF Commit
  <1>2. /\ q \in RequestRecords /\ OpenGood(r, q) /\ q.kind \in Kinds
        /\ Len(Plan[q.kind]) \in 1..5 /\ q.at = Len(Plan[q.kind]) + 1
    BY <1>1, OpenPlace
  <1>3. ~(q.at <= Len(Plan[q.kind])) /\ q.at..Len(Plan[q.kind]) = {}
    <2>1. \A m \in 1..5 : ~(m + 1 <= m) /\ (m + 1)..m = {}
      OBVIOUS
    <2> QED BY <1>2, <2>1
  <1>4. PastDevices(q) /\ ~q.looked
    BY <1>2, <1>3 DEF PastDevices, OpenGood, Working
  <1>5. q.kind = "verify" => \E x \in Rows : <<"promote", x>> \in q.did
    <2>1. q.kind = "verify" => q.at > 3
      <3>1. q.kind = "verify" => Len(Plan[q.kind]) = 3
        BY <1>2, PlanLengths
      <3>2. 3 + 1 > 3
        OBVIOUS
      <3> QED BY <1>2, <3>1, <3>2
    <2> QED BY <1>2, <2>1 DEF OpenGood, Working
  <1>6. request' = [request EXCEPT ![r] = y]
    BY DEF Commit
  <1>7. /\ y \in RequestRecords /\ y.kind = q.kind /\ y.s = q.s /\ y.proof = q.proof
        /\ y.ground = q.ground /\ y.state = "ok" /\ y.did = q.did /\ y.ends = q.ends
        /\ y.covers = q.covers
    <2>1. "ok" \in States
      BY DEF States
    <2> QED BY <1>2, <2>1, Zenon DEF RequestRecords
  <1> HIDE DEF y
  <1>8. /\ request' \in [Requests -> RequestRecords] /\ request'[r] = y
        /\ \A x \in Requests \ {r} : request'[x] = request[x]
    BY <1>6, <1>7, TypeParts
  <1>9. ~Ok(r) /\ Ok(r)' /\ ~Open(r)'
    BY <1>1, <1>7, <1>8 DEF Open, Ok
  <1>10. \A x \in Requests : Ok(x) => x # r /\ Ok(x)' /\ request'[x] = request[x]
    BY <1>8, <1>9 DEF Ok
  <1>11. \A x \in Requests : Open(x)' => x # r /\ Open(x)
    BY <1>8, <1>9 DEF Open
  <1> QED BY <1>1, <1>2, <1>4, <1>5, <1>7, <1>8, <1>9, <1>10, <1>11

\* The sessions after it.
LEMMA CommitSessions ==
  ASSUME TypeOK, IInv, NEW r \in Requests, Commit(r)
  PROVE  LET q == request[r] IN
         /\ SessionType'
         /\ \A s \in Sessions :
              /\ session[s].stage \in Stages => session'[s].stage \in Stages
              /\ session'[s].alive <=> session[s].alive /\ ~HasEnded(q, s)
              /\ <<"unmark", s>> \in q.did => session'[s].mark = "none"
              /\ session'[s].mark \in {"none", r, session[s].mark}
              /\ <<"unmark", s>> \notin q.did /\ <<"promote", s>> \notin q.did =>
                   session'[s].mark = session[s].mark
PROOF
  <1> DEFINE q == request[r]
  <1>1. q \in RequestRecords /\ OpenGood(r, q)
    BY CommitFacts
  <1>2. ASSUME NEW s \in Sessions
        PROVE  /\ session'[s] \in SessionRecords
               /\ session'[s].alive => session'[s].stage \in Stages
               /\ session'[s].stage = "arriving" => session'[s].next \in Stages
               /\ session[s].stage \in Stages => session'[s].stage \in Stages
               /\ session'[s].alive <=> session[s].alive /\ ~HasEnded(q, s)
               /\ <<"unmark", s>> \in q.did => session'[s].mark = "none"
               /\ session'[s].mark \in {"none", r, session[s].mark}
               /\ <<"unmark", s>> \notin q.did /\ <<"promote", s>> \notin q.did =>
                    session'[s].mark = session[s].mark
    <2> DEFINE promoted == s \in Wrote(r, "promote")
               proved == promoted /\ q.kind = "verify"
               unmarked == s \in Wrote(r, "unmark")
               stage == IF promoted THEN q.target ELSE session[s].stage
               mark == IF unmarked THEN "none" ELSE IF proved THEN r ELSE session[s].mark
               recent == ~unmarked /\ (session[s].recent \/ proved)
               alive == session[s].alive
                        /\ s \notin Wrote(r, "revoke") \cup Wrote(r, "others") \cup Wrote(r, "own")
               x == [session[s] EXCEPT !.stage = stage, !.mark = mark, !.recent = recent,
                                       !.alive = alive]
    <2>1. session'[s] = x
      <3>1. session'[s] = SessionAfter(r, s)
        BY DEF Commit
      <3> QED BY <3>1, Zenon DEF SessionAfter
    <2>2. s \in Rows
      BY DEF Rows
    <2>3. /\ promoted <=> <<"promote", s>> \in q.did
          /\ unmarked <=> <<"unmark", s>> \in q.did
          /\ s \in Wrote(r, "revoke") \cup Wrote(r, "others") \cup Wrote(r, "own") <=> HasEnded(q, s)
      BY <2>2 DEF Wrote, HasEnded, SignOuts
    <2>4. /\ session[s] \in SessionRecords
          /\ session[s].alive => session[s].stage \in Stages
          /\ session[s].stage = "arriving" => session[s].next \in Stages
      BY TypeParts DEF SessionType
    <2>5. promoted => q.target \in Stages
      BY <1>1, <2>3 DEF OpenGood, Writing
    <2>6. session[s].stage \in Stages \cup {"none", "arriving"} /\ session[s].mark \in Grounds \cup {"none"}
      BY <2>4, SessionFields
    <2>7. /\ stage \in Stages \cup {"none", "arriving"}
          /\ stage = session[s].stage \/ stage \in Stages
          /\ session[s].stage \in Stages => stage \in Stages
      BY <2>5, <2>6
    <2>8. /\ mark \in Grounds \cup {"none"} /\ mark \in {"none", r, session[s].mark}
          /\ <<"unmark", s>> \in q.did => mark = "none"
          /\ <<"unmark", s>> \notin q.did /\ <<"promote", s>> \notin q.did => mark = session[s].mark
      BY <2>3, <2>6 DEF Grounds
    <2>9. /\ recent \in BOOLEAN /\ alive \in BOOLEAN
          /\ alive <=> session[s].alive /\ ~HasEnded(q, s)
      BY <2>3
    <2> HIDE DEF stage, mark, recent, alive
    <2>10. /\ x \in SessionRecords /\ x.stage = stage /\ x.mark = mark /\ x.next = session[s].next
           /\ x.alive <=> alive
      BY <2>4, <2>7, <2>8, <2>9, Zenon DEF SessionRecords
    <2> HIDE DEF x
    <2>11. "arriving" \notin Stages
      BY DEF Stages, MfaPending, BackupCodes, ChangePassword, Full
    <2> QED BY <2>1, <2>4, <2>7, <2>8, <2>9, <2>10, <2>11
  <1>3. session' \in [Sessions -> SessionRecords]
    BY <1>2 DEF Commit
  <1> QED BY <1>2, <1>3 DEF SessionType

\* The proofs after it: none comes back, and those of others stay.
LEMMA CommitProofs ==
  ASSUME TypeOK, IInv, NEW r \in Requests, Commit(r)
  PROVE  LET q == request[r] IN
         /\ totp' \in TotpRecords /\ key' \in BOOLEAN /\ mustChange' \in BOOLEAN
         /\ code' \in [Codes -> {"unused", "used", "gone"}]
         /\ \A c \in Codes : code[c] # "unused" => code'[c] # "unused"
         /\ totp'.last >= totp.last
         /\ \A p \in Proofs : StillUnused(p) /\ RowOf(p) \notin Holds(r) => StillUnused(p)'
         /\ \A x \in Rows : <<"use", x>> \in q.did =>
              /\ StillUnused(q.proof)
              /\ IF q.proof \in Codes THEN code'[q.proof] # "unused" ELSE totp'.last >= q.proof
         /\ \A c \in Codes : code'[c] = "used" => code[c] = "used" \/ (<<"use", c>> \in q.did /\ q.proof = c)
PROOF
  <1> DEFINE q == request[r]
  <1>1. q \in RequestRecords /\ Writing(q) /\ Open(r)
    BY CommitFacts DEF OpenGood
  <1>2. q.proof \in Proofs
    BY <1>1, RequestFields
  <1>3. \A n \in Steps : n \in Nat /\ n \notin Codes
    BY NameFacts
  <1>4. totp \in TotpRecords /\ totp.last \in Steps /\ totp.there \in BOOLEAN /\ totp.acked \in BOOLEAN
    BY TypeParts DEF TotpRecords
  <1>5. ASSUME "totp" \in Wrote(r, "use")
        PROVE  q.proof \in Steps /\ totp.last < q.proof
    <2>1. <<"use", "totp">> \in q.did
      BY <1>5 DEF Wrote
    <2>2. "totp" = RowOf(q.proof) /\ StillUnused(q.proof)
      BY <1>1, <2>1 DEF Writing
    <2>3. q.proof \notin Codes
      BY <2>2, NameFacts DEF RowOf
    <2> QED BY <1>2, <2>2, <2>3 DEF Proofs, StillUnused
  <1>6. /\ totp'.last = IF "totp" \in Wrote(r, "use") THEN q.proof ELSE totp.last
        /\ totp'.there <=> totp.there /\ "totp" \notin Wrote(r, "methods") \cup Wrote(r, "totp")
    BY DEF Commit
  <1>7. totp' \in TotpRecords /\ totp'.last >= totp.last
    <2> DEFINE there == totp.there /\ "totp" \notin Wrote(r, "methods") \cup Wrote(r, "totp")
               last == IF "totp" \in Wrote(r, "use") THEN q.proof ELSE totp.last
               acked == totp.acked \/ "totp" \in Wrote(r, "ack")
    <2>1. totp' = [there |-> there, last |-> last, acked |-> acked]
      BY Zenon DEF Commit
    <2>2. there \in BOOLEAN /\ last \in Steps /\ acked \in BOOLEAN
      BY <1>4, <1>5
    <2>3. last >= totp.last
      BY <1>3, <1>4, <1>5
    <2> HIDE DEF there, last, acked
    <2>4. totp' \in TotpRecords
      BY <2>1, <2>2, Zenon DEF TotpRecords
    <2>5. totp'.last = last
      BY <2>1
    <2> QED BY <2>3, <2>4, <2>5
  <1>8. \A c \in Codes : code'[c] = CodeAfter(r, c)
    BY DEF Commit
  <1>9. code' \in [Codes -> {"unused", "used", "gone"}]
    BY TypeParts DEF Commit, CodeAfter
  <1>10. \A c \in Codes : code[c] # "unused" => code'[c] # "unused"
    BY <1>8 DEF CodeAfter
  <1>11. \A op : \A x \in Rows : x \notin Holds(r) => x \notin Wrote(r, op)
    BY <1>1, HoldsFacts
  <1>12. ASSUME NEW p \in Proofs, StillUnused(p), RowOf(p) \notin Holds(r)
         PROVE  StillUnused(p)'
    <2>1. RowOf(p) \in Rows
      BY DEF RowOf, Rows
    <2>2. \A op : RowOf(p) \notin Wrote(r, op)
      BY <1>11, <1>12, <2>1
    <2>3. CASE p \in Codes
      BY <1>8, <1>12, <2>2, <2>3 DEF RowOf, StillUnused, CodeAfter
    <2>4. CASE p \notin Codes
      BY <1>6, <1>12, <2>2, <2>4 DEF RowOf, StillUnused
    <2> QED BY <2>3, <2>4
  <1>13. ASSUME NEW x \in Rows, <<"use", x>> \in q.did
         PROVE  /\ StillUnused(q.proof)
                /\ IF q.proof \in Codes THEN code'[q.proof] # "unused" ELSE totp'.last >= q.proof
    <2>1. x = RowOf(q.proof) /\ StillUnused(q.proof) /\ x \in Wrote(r, "use")
      BY <1>1, <1>13 DEF Writing, Wrote
    <2>2. CASE q.proof \in Codes
      BY <1>8, <2>1, <2>2 DEF RowOf, CodeAfter
    <2>3. CASE q.proof \notin Codes
      <3>1. totp'.last = q.proof /\ q.proof \in Steps
        BY <1>5, <1>6, <2>1, <2>3 DEF RowOf
      <3> QED BY <1>3, <2>1, <2>3, <3>1
    <2> QED BY <2>1, <2>2, <2>3
  <1>14. ASSUME NEW c \in Codes, code'[c] = "used", code[c] # "used"
         PROVE  <<"use", c>> \in q.did /\ q.proof = c
    <2>1. c \in Wrote(r, "use")
      BY <1>8, <1>14 DEF CodeAfter
    <2>2. <<"use", c>> \in q.did
      BY <2>1 DEF Wrote
    <2>3. c = RowOf(q.proof)
      BY <1>1, <2>2 DEF Writing
    <2> QED BY <2>2, <2>3, NameFacts DEF RowOf
  <1>15. key' \in BOOLEAN /\ mustChange' \in BOOLEAN
    BY TypeParts DEF Commit
  <1> QED BY <1>7, <1>9, <1>10, <1>12, <1>13, <1>14, <1>15

\* A device that it makes rests on a session it holds.
LEMMA CommitDevices ==
  ASSUME TypeOK, IInv, NEW r \in Requests, Commit(r)
  PROVE  LET q == request[r] IN
         /\ device' \in [Requests -> {"none", "live", "revoked"}]
         /\ \A d \in Requests : device'[d] = "live" =>
              \/ d # r /\ device[d] = "live" /\ <<"devices", d>> \notin q.did /\ RestsOn(d)' = RestsOn(d)
              \/ /\ d = r /\ q.kind \in Advancing /\ q.s \in Sessions /\ session[q.s].alive
                 /\ q.s \in Holds(r) /\ RestsOn(r)' = {<<"session", q.s>>, <<"proof", q.ground>>}
                 /\ q.ground = r \/ session[q.s].mark = q.ground
PROOF
  <1> DEFINE q == request[r]
  <1>1. /\ q \in RequestRecords /\ OpenGood(r, q) /\ Open(r) /\ ~Ok(r)
        /\ request'[r].s = q.s /\ request'[r].ground = q.ground
        /\ \A x \in Requests \ {r} : request'[x] = request[x]
    BY CommitFacts
  <1>2. \A d \in Requests : device'[d] = DeviceAfter(r, d)
    BY DEF Commit
  <1>3. device' \in [Requests -> {"none", "live", "revoked"}]
    BY TypeParts DEF Commit, DeviceAfter
  <1>4. ASSUME NEW d \in Requests, device'[d] = "live"
        PROVE  \/ d # r /\ device[d] = "live" /\ <<"devices", d>> \notin q.did /\ RestsOn(d)' = RestsOn(d)
               \/ /\ d = r /\ q.kind \in Advancing /\ q.s \in Sessions /\ session[q.s].alive
                  /\ q.s \in Holds(r) /\ RestsOn(r)' = {<<"session", q.s>>, <<"proof", q.ground>>}
                  /\ q.ground = r \/ session[q.s].mark = q.ground
    <2>1. device[d] = "live" => d # r
      BY <1>1 DEF IInv, Trusting
    <2>2. CASE d = r /\ Remembers(r)
      <3>1. PICK op \in {"promote", "select"}, x \in Rows :
              <<op, x>> \in q.did /\ (op = "promote" => q.remember)
        BY <2>2 DEF Remembers, Wrote
      <3>2. x = q.s /\ q.s \in Sessions /\ session[q.s].alive /\ q.kind \in Advancing
        BY <1>1, <3>1 DEF OpenGood, Writing
      <3>3. q.s \in Holds(r)
        BY <1>1, <3>1, <3>2, HoldsFacts
      <3>4. op = "select" => session[q.s].mark = q.ground
        BY <1>1, <3>1 DEF OpenGood, Writing
      <3>5. op = "promote" => q.ground = r
        BY <1>1, <3>1 DEF OpenGood, Working
      <3> QED BY <1>1, <2>2, <3>1, <3>2, <3>3, <3>4, <3>5 DEF RestsOn
    <2>3. CASE ~(d = r /\ Remembers(r))
      <3>1. device[d] = "live" /\ d \notin Wrote(r, "devices")
        BY <1>2, <1>4, <2>3 DEF DeviceAfter
      <3>2. <<"devices", d>> \notin q.did
        BY <3>1 DEF Wrote, Rows
      <3> QED BY <1>1, <2>1, <3>1, <3>2 DEF RestsOn
    <2> QED BY <2>2, <2>3
  <1> QED BY <1>3, <1>4

\* What another open request knows, it still knows.
LEMMA CommitOpen ==
  ASSUME TypeOK, IInv, NEW r \in Requests, Commit(r), NEW p \in Requests, Open(p), p # r
  PROVE  OpenGood(p, request[p])'
PROOF
  <1>1. PICK qp : qp = request[p]
    OBVIOUS
  <1> DEFINE q == request[r]
  <1>2. OpenGood(p, qp) /\ qp \in RequestRecords
    BY <1>1, TypeParts DEF IInv, OpenAreGood
  <1>3. /\ qp.ends \subseteq Sessions /\ qp.covers \subseteq Sources /\ qp.proof \in Proofs
    BY <1>2, RequestFields
  <1>4. OpenGood(r, q) /\ q \in RequestRecords /\ ~Ok(r) /\ \A x \in Requests : Ok(x) => Ok(x)'
    BY CommitFacts
  <1>5. \A op, x : <<op, x>> \in qp.did => x \in Holds(p) /\ x \notin Holds(r)
    <2>1. \A op, x : <<op, x>> \in qp.did => x \in Holds(p)
      BY <1>1, HoldsFacts
    <2> QED BY <2>1 DEF IInv, Apart
  <1>6. \A op, x : <<op, x>> \in q.did => x \in Holds(r) /\ x \notin Holds(p)
    <2>1. \A op, x : <<op, x>> \in q.did => x \in Holds(r)
      BY HoldsFacts, CommitFacts
    <2> QED BY <2>1 DEF IInv, Apart
  <1>7. \A s \in Sessions : s \in Holds(p) =>
          /\ session'[s].alive <=> session[s].alive
          /\ session'[s].mark = session[s].mark
    <2>1. \A s \in Sessions : s \in Holds(p) => ~HasEnded(q, s)
      BY <1>6 DEF HasEnded
    <2> QED BY <1>6, <2>1, CommitSessions
  <1>8. \A s \in Sessions : session'[s].alive => session[s].alive
    BY CommitSessions
  <1>9. \A g : <<"proof", g>> \in qp.covers => g # "none" /\ g # r
    <2>1. ASSUME NEW g, <<"proof", g>> \in qp.covers  PROVE g # "none" /\ g # r
      <3>1. <<"proof", g>> \in Sources
        BY <1>3, <2>1
      <3>2. g \in Grounds
        BY <3>1 DEF Sources
      <3>3. <<"proof", g>>[1] = "proof" /\ <<"proof", g>>[2] = g
        OBVIOUS
      <3>4. g \in Requests => Ok(g)
        BY <1>2, <2>1, <3>3 DEF OpenGood, Proved
      <3> QED BY <1>4, <3>2, <3>4, NameFacts DEF Grounds
    <2> QED BY <2>1
  <1>10. Working(p, qp)'
    BY <1>2 DEF OpenGood, Working, StepAt, RowOf
  <1>11. Writing(qp)'
    <2>1. ASSUME NEW w \in qp.did
          PROVE  /\ w[1] = "use" => w[2] = RowOf(qp.proof) /\ StillUnused(qp.proof)'
                 /\ w[1] \in {"promote", "select"} =>
                      /\ w[2] = qp.s /\ qp.s \in Sessions /\ session'[qp.s].alive
                      /\ qp.kind \in Advancing
                 /\ w[1] = "promote" => qp.target \in Stages
                 /\ w[1] = "select" => session'[qp.s].mark = qp.ground /\ qp.ground # "none"
      <3>1. w = <<w[1], w[2]>>
        BY <1>2, RequestFields
      <3>2. w[2] \in Holds(p) /\ w[2] \notin Holds(r)
        BY <1>5, <2>1, <3>1
      <3>3. w[1] = "use" => w[2] = RowOf(qp.proof) /\ StillUnused(qp.proof)'
        BY <1>2, <1>3, <2>1, <3>2, CommitProofs DEF OpenGood, Writing
      <3>4. w[1] \in {"promote", "select"} =>
              w[2] = qp.s /\ qp.s \in Sessions /\ session'[qp.s].alive /\ qp.kind \in Advancing
        BY <1>2, <1>7, <2>1, <3>2 DEF OpenGood, Writing
      <3>5. w[1] = "select" => session'[qp.s].mark = qp.ground /\ qp.ground # "none"
        BY <1>2, <1>7, <2>1, <3>2 DEF OpenGood, Writing
      <3> QED BY <1>2, <2>1, <3>3, <3>4, <3>5 DEF OpenGood, Writing
    <2>2. RowOf(qp.proof)' = RowOf(qp.proof)
      BY DEF RowOf
    <2> QED BY <2>1, <2>2 DEF Writing
  <1>12. Proved(qp)'
    BY <1>2, <1>4 DEF OpenGood, Proved
  <1>13. Found(qp)'
    BY <1>2, <1>3, CommitSessions DEF OpenGood, Found
  <1>14. Ending(qp)'
    BY <1>2, <1>3, <1>8 DEF OpenGood, Ending, HasEnded, IsEnding, StepAt
  <1>15. Covering(qp)'
    <2>1. ASSUME NEW s \in Sessions, <<"session", s>> \in qp.covers
          PROVE  ~session'[s].alive \/ HasEnded(qp, s) \/ (IsEnding(qp, s) /\ ~PastDevices(qp))
      BY <1>2, <1>8, <2>1 DEF OpenGood, Covering
    <2>2. ASSUME NEW s \in Sessions, <<"proof", session'[s].mark>> \in qp.covers
          PROVE  \/ <<"unmark", s>> \in qp.did
                 \/ qp.looked /\ s \in qp.want /\ StepAt(qp, "unmark") /\ ~PastDevices(qp)
      <3>1. session'[s].mark = session[s].mark
        BY <1>9, <2>2, CommitSessions
      <3> QED BY <1>2, <2>2, <3>1 DEF OpenGood, Covering
    <2> QED BY <2>1, <2>2 DEF Covering, HasEnded, IsEnding, StepAt, PastDevices
  <1>16. Revoking(qp)'
    <2>1. ASSUME NEW d \in Requests, device'[d] = "live", RestsOn(d)' \cap qp.covers # {}
          PROVE  /\ PastDevices(qp) => <<"devices", d>> \in qp.did
                 /\ qp.looked /\ StepAt(qp, "devices") => d \in qp.want
      <3>1. CASE device[d] = "live" /\ RestsOn(d)' = RestsOn(d)
        BY <1>2, <2>1, <3>1 DEF OpenGood, Revoking
      <3>2. CASE /\ d = r /\ q.s \in Sessions /\ session[q.s].alive /\ q.s \in Holds(r)
                 /\ RestsOn(r)' = {<<"session", q.s>>, <<"proof", q.ground>>}
                 /\ q.ground = r \/ session[q.s].mark = q.ground
        <4>1. q.s \notin Holds(p)
          BY <3>2 DEF IInv, Apart
        <4>2. \A op : <<op, q.s>> \notin qp.did
          BY <1>5, <4>1
        <4>3. ~HasEnded(qp, q.s)
          BY <4>2 DEF HasEnded
        <4>4. CASE <<"session", q.s>> \in qp.covers
          <5>1. IsEnding(qp, q.s) /\ ~PastDevices(qp)
            BY <1>2, <3>2, <4>3, <4>4 DEF OpenGood, Covering
          <5>2. ~StepAt(qp, "devices")
            BY <5>1 DEF IsEnding, StepAt, SignOuts
          <5> QED BY <5>1, <5>2
        <4>5. CASE <<"proof", q.ground>> \in qp.covers
          <5>1. session[q.s].mark = q.ground
            BY <1>9, <3>2, <4>5
          <5>2. StepAt(qp, "unmark") /\ ~PastDevices(qp)
            BY <1>2, <3>2, <4>2, <4>5, <5>1 DEF OpenGood, Covering
          <5>3. ~StepAt(qp, "devices")
            BY <5>2 DEF StepAt
          <5> QED BY <5>2, <5>3
        <4> QED BY <2>1, <3>2, <4>4, <4>5
      <3> QED BY <2>1, <3>1, <3>2, CommitDevices
    <2> QED BY <2>1 DEF Revoking, PastDevices, StepAt
  <1>17. OpenGood(p, qp)'
    BY <1>10, <1>11, <1>12, <1>13, <1>14, <1>15, <1>16 DEF OpenGood
  <1>18. qp = request'[p]
    BY <1>1, CommitFacts
  <1> QED BY <1>17, <1>18, OpenByName

\* What is known of the requests that have succeeded, this one now among them.
LEMMA CommitOk ==
  ASSUME TypeOK, IInv, NEW r \in Requests, Commit(r), NEW p \in Requests, Ok(p)'
  PROVE  OkGood(request[p])'
PROOF
  <1> DEFINE q == request[r]
  <1>1. /\ OpenGood(r, q) /\ q \in RequestRecords /\ ~q.looked /\ Open(r) /\ ~Ok(r)
        /\ \A x \in Requests : Ok(x) => Ok(x)'
    BY CommitFacts
  <1>2. CASE p # r
    <2>1. PICK qp : qp = request[p]
      OBVIOUS
    <2>2. Ok(p) /\ qp = request'[p]
      BY <1>2, <2>1, CommitFacts DEF Ok
    <2>3. OkGood(qp) /\ qp \in RequestRecords
      BY <2>1, <2>2, TypeParts DEF IInv, OkAreGood
    <2>4. qp.ends \subseteq Sessions /\ qp.covers \subseteq Sources /\ qp.proof \in Proofs
      BY <2>3, RequestFields
    <2>5. (\E x \in Rows : <<"use", x>> \in qp.did) =>
            IF qp.proof \in Codes THEN code'[qp.proof] # "unused" ELSE totp'.last >= qp.proof
      <3>1. /\ \A c \in Codes : code[c] # "unused" => code'[c] # "unused"
            /\ totp'.last >= totp.last /\ totp' \in TotpRecords
        BY CommitProofs
      <3>2. totp.last \in Nat /\ totp'.last \in Nat
        BY <3>1, TypeParts, NameFacts DEF TotpRecords
      <3>3. qp.proof \notin Codes => qp.proof \in Nat
        BY <2>4, NameFacts DEF Proofs
      <3> QED BY <2>3, <3>1, <3>2, <3>3 DEF OkGood
    <2>6. Proved(qp)' /\ Found(qp)'
      BY <1>1, <2>3, <2>4, CommitSessions DEF OkGood, Proved, Found
    <2>7. \A s \in qp.ends : ~session'[s].alive
      BY <2>3, <2>4, CommitSessions DEF OkGood
    <2>8. ASSUME NEW s \in Sessions, <<"proof", session'[s].mark>> \in qp.covers
          PROVE  FALSE
      <3>1. <<"proof", session'[s].mark>> \in Sources
        BY <2>4, <2>8
      <3>2. session'[s].mark \in Grounds
        BY <3>1 DEF Sources
      <3>3. session'[s].mark # "none"
        BY <3>2, NameFacts DEF Grounds
      <3>4. session'[s].mark # r
        <4>1. <<"proof", r>>[1] = "proof" /\ <<"proof", r>>[2] = r
          OBVIOUS
        <4> QED BY <1>1, <2>3, <2>8, <4>1 DEF OkGood, Proved
      <3>5. session'[s].mark = session[s].mark
        BY <3>3, <3>4, CommitSessions
      <3> QED BY <2>3, <2>8, <3>5 DEF OkGood
    <2>9. OkGood(qp)'
      BY <2>5, <2>6, <2>7, <2>8 DEF OkGood
    <2> QED BY <2>2, <2>9, OkByName
  <1>3. CASE p = r
    <2>1. PICK qr : qr = request'[r]
      OBVIOUS
    <2>2. qr.did = q.did /\ qr.proof = q.proof /\ qr.ends = q.ends /\ qr.covers = q.covers
      BY <2>1, CommitFacts
    <2>3. q.ends \subseteq Sessions /\ q.covers \subseteq Sources
      BY <1>1, RequestFields
    <2>4. (\E x \in Rows : <<"use", x>> \in qr.did) =>
            IF qr.proof \in Codes THEN code'[qr.proof] # "unused" ELSE totp'.last >= qr.proof
      BY <2>2, CommitProofs
    <2>5. Proved(qr)' /\ Found(qr)'
      BY <1>1, <2>2, <2>3, CommitSessions DEF OpenGood, Proved, Found
    <2>6. \A s \in qr.ends : ~session'[s].alive
      BY <1>1, <2>2, <2>3, CommitSessions DEF OpenGood, Ending, IsEnding
    <2>7. ASSUME NEW s \in Sessions, <<"proof", session'[s].mark>> \in qr.covers
          PROVE  FALSE
      <3>1. <<"proof", session'[s].mark>> \in Sources
        BY <2>2, <2>3, <2>7
      <3>2. session'[s].mark \in Grounds
        BY <3>1 DEF Sources
      <3>3. session'[s].mark # "none"
        BY <3>2, NameFacts DEF Grounds
      <3>4. session'[s].mark # r
        <4>1. <<"proof", r>>[1] = "proof" /\ <<"proof", r>>[2] = r
          OBVIOUS
        <4> QED BY <1>1, <2>2, <2>7, <4>1 DEF OpenGood, Proved
      <3>5. session'[s].mark = session[s].mark /\ <<"unmark", s>> \notin q.did
        BY <3>3, <3>4, CommitSessions
      <3> QED BY <1>1, <2>2, <2>7, <3>5 DEF OpenGood, Covering
    <2>8. OkGood(qr)'
      BY <2>4, <2>5, <2>6, <2>7 DEF OkGood
    <2> QED BY <1>3, <2>1, <2>8, OkByName
  <1> QED BY <1>2, <1>3

\* A device remembered by the commit, or left by it, rests on nothing forgotten.
LEMMA CommitTrusting ==
  ASSUME TypeOK, IInv, NEW r \in Requests, Commit(r)
  PROVE  Trusting'
PROOF
  <1> DEFINE q == request[r]
  <1>1. /\ OpenGood(r, q) /\ PastDevices(q) /\ Ok(r)' /\ ~Ok(r)
        /\ request'[r].covers = q.covers
        /\ \A x \in Requests \ {r} : request'[x] = request[x]
        /\ \A x \in Requests : Ok(x) => x # r /\ Ok(x)' /\ request'[x] = request[x]
    BY CommitFacts
  <1>2. \A x \in Requests : Ok(x)' /\ x # r => Ok(x)
    BY <1>1 DEF Ok
  <1>3. ASSUME NEW d \in Requests, d # r, device[d] = "live", <<"devices", d>> \notin q.did,
               RestsOn(d)' = RestsOn(d), NEW p \in Requests, Ok(p)'
        PROVE  Ok(d)' /\ RestsOn(d)' \cap request'[p].covers = {}
    <2>1. Ok(d)'
      BY <1>1, <1>3 DEF IInv, Trusting
    <2>2. CASE p # r
      BY <1>1, <1>2, <1>3, <2>2 DEF IInv, Trusting
    <2>3. CASE p = r
      <3>1. Revoking(q)
        BY <1>1 DEF OpenGood
      <3>2. RestsOn(d) \cap q.covers = {}
        BY <1>1, <1>3, <3>1 DEF Revoking
      <3> QED BY <1>1, <1>3, <2>1, <2>3, <3>2
    <2> QED BY <2>1, <2>2, <2>3
  <1>4. ASSUME q.kind \in Advancing, q.s \in Sessions, session[q.s].alive,
               RestsOn(r)' = {<<"session", q.s>>, <<"proof", q.ground>>},
               q.ground = r \/ session[q.s].mark = q.ground, NEW p \in Requests, Ok(p)'
        PROVE  Ok(r)' /\ RestsOn(r)' \cap request'[p].covers = {}
    <2>1. CASE p = r
      BY <1>1, <1>4, <2>1 DEF OpenGood, Working
    <2>2. CASE p # r
      <3>1. OkGood(request[p]) /\ request'[p] = request[p]
        BY <1>1, <1>2, <1>4, <2>2 DEF IInv, OkAreGood
      <3>2. <<"session", q.s>> \notin request[p].covers
        BY <1>4, <3>1 DEF OkGood, Found
      <3>3. <<"proof", q.ground>> \notin request[p].covers
        <4>1. CASE q.ground = r
          <5>1. <<"proof", r>>[1] = "proof" /\ <<"proof", r>>[2] = r
            OBVIOUS
          <5> QED BY <1>1, <3>1, <4>1, <5>1 DEF OkGood, Proved
        <4>2. CASE session[q.s].mark = q.ground
          BY <1>4, <3>1, <4>2 DEF OkGood
        <4> QED BY <1>4, <4>1, <4>2
      <3> QED BY <1>1, <1>4, <3>1, <3>2, <3>3
    <2> QED BY <2>1, <2>2
  <1>5. ASSUME NEW d \in Requests, device'[d] = "live"
        PROVE  Ok(d)' /\ \A p \in Requests : Ok(p)' => RestsOn(d)' \cap request'[p].covers = {}
    <2>1. CASE d # r /\ device[d] = "live" /\ <<"devices", d>> \notin q.did /\ RestsOn(d)' = RestsOn(d)
      BY <1>1, <1>3, <2>1
    <2>2. CASE /\ d = r /\ q.kind \in Advancing /\ q.s \in Sessions /\ session[q.s].alive
               /\ q.s \in Holds(r) /\ RestsOn(r)' = {<<"session", q.s>>, <<"proof", q.ground>>}
               /\ q.ground = r \/ session[q.s].mark = q.ground
      BY <1>1, <1>4, <2>2
    <2> QED BY <1>5, <2>1, <2>2, CommitDevices
  <1> QED BY <1>5 DEF Trusting

LEMMA CommitKeeps ==
  ASSUME TypeOK, IInv, NEW r \in Requests, Commit(r)
  PROVE  TypeOK' /\ IInv'
PROOF
  <1> DEFINE q == request[r]
  <1>1. TypeOK'
    BY CommitFacts, CommitSessions, CommitProofs, CommitDevices, TypeParts
  <1>2. /\ Ok(r)' /\ ~Ok(r) /\ ~Open(r)'
        /\ request'[r].did = q.did /\ request'[r].proof = q.proof /\ request'[r].kind = q.kind
        /\ q.kind = "verify" => \E x \in Rows : <<"promote", x>> \in q.did
        /\ \A x \in Requests \ {r} : request'[x] = request[x]
        /\ \A x \in Requests : Ok(x) => x # r /\ Ok(x)' /\ request'[x] = request[x]
        /\ \A x \in Requests : Open(x)' => x # r /\ Open(x)
    BY CommitFacts
  <1>3. OpenAreGood'
    BY <1>2, CommitOpen DEF OpenAreGood
  <1>4. OkAreGood'
    BY CommitOk DEF OkAreGood
  <1>5. Apart'
    <2>1. \A x \in Requests \ {r} : Holds(x)' = Holds(x)
      BY <1>2 DEF Holds, Open
    <2>2. Holds(r)' = {}
      BY <1>2 DEF Holds
    <2> QED BY <2>1, <2>2 DEF IInv, Apart
  <1>6. MarksAreProved'
    <2>1. ASSUME NEW s \in Sessions, session'[s].mark \in Requests
          PROVE  request'[session'[s].mark].state = "ok"
      <3>1. session'[s].mark \in {r, session[s].mark}
        BY <2>1, CommitSessions, NameFacts
      <3> QED BY <1>2, <2>1, <3>1 DEF IInv, MarksAreProved, Ok
    <2> QED BY <2>1 DEF MarksAreProved, Ok
  <1>7. Trusting'
    BY CommitTrusting
  <1>8. NoProofBurnt'
    <2>1. ASSUME NEW c \in Codes, code'[c] = "used"
          PROVE  \E x \in UsedBy(c)' :
                   request'[x].kind = "verify" => Wrote(x, "promote")' # {}
      <3>1. CASE code[c] = "used"
        <4>1. PICK x \in UsedBy(c) : request[x].kind = "verify" => Wrote(x, "promote") # {}
          BY <3>1 DEF IInv, NoProofBurnt
        <4>2. x \in Requests /\ Ok(x) /\ request'[x] = request[x] /\ Ok(x)'
          BY <1>2 DEF UsedBy, Ok
        <4>3. \A op : Wrote(x, op)' = Wrote(x, op)
          BY <4>2 DEF Wrote
        <4>4. x \in UsedBy(c)'
          BY <4>2, <4>3 DEF UsedBy, Ok
        <4> QED BY <4>1, <4>2, <4>3, <4>4
      <3>2. CASE <<"use", c>> \in q.did /\ q.proof = c
        <4>1. c \in Wrote(r, "use")'
          BY <1>2, <3>2 DEF Wrote, Rows
        <4>2. r \in UsedBy(c)'
          BY <1>2, <3>2, <4>1 DEF UsedBy, Ok
        <4>3. q.kind = "verify" => Wrote(r, "promote")' # {}
          BY <1>2 DEF Wrote
        <4> QED BY <1>2, <4>2, <4>3
      <3> QED BY <2>1, <3>1, <3>2, CommitProofs
    <2> QED BY <2>1 DEF NoProofBurnt
  <1> QED BY <1>1, <1>3, <1>4, <1>5, <1>6, <1>7, <1>8 DEF IInv

-----------------------------------------------------------------------------
(* The theorems.                                                           *)

LEMMA InitGood ==
  ASSUME Init
  PROVE  TypeOK /\ IInv
PROOF
  <1>1. \A r \in Requests : request[r] = NoRequest
    BY DEF Init
  <1>2. \A r \in Requests : ~Open(r) /\ ~Ok(r) /\ Holds(r) = {}
    BY <1>1, NoRequestIs DEF Open, Ok, Holds
  <1>3. request \in [Requests -> RequestRecords]
    BY NoRequestIs DEF Init
  <1>4. totp \in TotpRecords
    BY NameFacts DEF Init, TotpRecords, NoCode
  <1>5. /\ code \in [Codes -> {"unused", "used", "gone"}] /\ key \in BOOLEAN /\ mustChange \in BOOLEAN
        /\ device \in [Requests -> {"none", "live", "revoked"}]
        /\ \A d \in Requests : device[d] # "live"
        /\ \A c \in Codes : code[c] # "used"
    BY DEF Init
  <1>6. ASSUME NEW s \in Sessions
        PROVE  /\ session[s] \in SessionRecords /\ session[s].mark \in {s, "none"}
               /\ session[s].alive => session[s].stage \in Stages
               /\ session[s].stage # "arriving"
    <2>1. session[s] \in {ProvedSession(s), NoSession}
      BY DEF Init
    <2>2. /\ Full \in Stages \cup {"none", "arriving"} /\ Full \in Stages /\ Full # "arriving"
          /\ s \in Grounds \cup {"none"} /\ "none" \in Grounds \cup {"none"}
      BY DEF Stages, Full, Grounds
    <2>3. ProvedSession(s) \in SessionRecords /\ NoSession \in SessionRecords
      BY <2>2, Zenon DEF ProvedSession, NoSession, SessionRecords
    <2>4. CASE session[s] = ProvedSession(s)
      <3>1. ProvedSession(s).mark = s /\ ProvedSession(s).stage = Full
        BY DEF ProvedSession
      <3> QED BY <2>2, <2>3, <2>4, <3>1
    <2>5. CASE session[s] = NoSession
      <3>1. NoSession.mark = "none" /\ ~NoSession.alive /\ NoSession.stage = "none"
        BY DEF NoSession
      <3> QED BY <2>3, <2>5, <3>1
    <2> QED BY <2>1, <2>4, <2>5
  <1>7. SessionType
    BY <1>6 DEF SessionType, Init
  <1>8. TypeOK
    BY <1>3, <1>4, <1>5, <1>7, TypeParts
  <1>9. OpenAreGood /\ OkAreGood /\ Apart
    BY <1>2 DEF OpenAreGood, OkAreGood, Apart
  <1>10. MarksAreProved /\ Trusting /\ NoProofBurnt
    BY <1>5, <1>6, NameFacts DEF MarksAreProved, Trusting, NoProofBurnt
  <1> QED BY <1>8, <1>9, <1>10 DEF IInv

LEMMA NextKeeps ==
  ASSUME TypeOK, IInv, [Next]_vars
  PROVE  TypeOK' /\ IInv'
PROOF
  <1>1. CASE UNCHANGED vars
    <2>1. SessionsMove
      BY <1>1, TypeParts DEF vars, SessionsMove, SessionType
    <2> QED BY <2>1, SessionsMoveKeeps
  <1>2. CASE Next
    BY <1>2, LoginCheckKeeps, LoginCreateKeeps, ExpireKeeps, ProofAgesKeeps, BeginKeeps, ResolveKeeps,
       LookKeeps, RunKeeps, CommitKeeps, AbortKeeps DEF Next
  <1> QED BY <1>1, <1>2

\* No reachable state breaks the invariant that carries the proofs.
THEOREM InvariantHolds == Spec => [](TypeOK /\ IInv)
PROOF
  <1>1. Init => TypeOK /\ IInv
    BY InitGood
  <1>2. TypeOK /\ IInv /\ [Next]_vars => TypeOK' /\ IInv'
    BY NextKeeps
  <1> QED BY <1>1, <1>2, PTL DEF Spec

\* The variables keep their types: a session that counts has begun, whatever has
\* advanced, ended or unmarked it (session.ts, promote.ts).
THEOREM TypeCorrect == Spec => []TypeOK
PROOF BY InvariantHolds, PTL

\* A recovery code that was taken let its user do what the code was for: a login
\* whose session ended while it was being verified gives the code back (login.ts).
THEOREM CodesAreEarned == Spec => []NoProofBurnt
PROOF
  <1>1. IInv => NoProofBurnt
    BY DEF IInv
  <1> QED BY <1>1, InvariantHolds, PTL

\* A session found by a sign-out that has finished is ended, however the statements
\* of the two transactions fell (revocation.ts).
THEOREM SignOutEnds == Spec => []SignedOutIsOut
PROOF
  <1>1. IInv => SignedOutIsOut
    BY DEF IInv, OkAreGood, OkGood, SignedOutIsOut, Ok
  <1> QED BY <1>1, InvariantHolds, PTL

-----------------------------------------------------------------------------
(* The account's single steps.                                             *)

Spent == {u \in Requests \X Proofs : u[1] \in UsedBy(u[2])}
Trusted == {t \in Requests \X Sources : device[t[1]] = "live" /\ t[2] \in RestsOn(t[1])}

LEMMA SpentIs ==
  /\ \A x \in Requests, p \in Proofs :
       <<x, p>> \in Spent <=> Ok(x) /\ request[x].proof = p /\ Wrote(x, "use") # {}
  /\ \A u \in Spent : u = <<u[1], u[2]>> /\ u[1] \in Requests /\ u[2] \in Proofs
PROOF BY DEF Spent, UsedBy, Ok

\* A step that ends no request in success changes nothing of this.
Quiet ==
  /\ \A x \in Requests : Ok(x)' <=> Ok(x)
  /\ \A x \in Requests : Ok(x) => request'[x] = request[x]
  /\ device' = device

LEMMA QuietStutters ==
  ASSUME IInv, Quiet
  PROVE  UNCHANGED <<Spent, Forgotten, Trusted>>
PROOF
  <1>1. \A x \in Requests : Ok(x)' => Wrote(x, "use")' = Wrote(x, "use") /\ request'[x] = request[x]
    BY DEF Quiet, Wrote
  <1>2. \A p \in Proofs : UsedBy(p)' = UsedBy(p)
    BY <1>1 DEF Quiet, UsedBy, Ok
  <1>3. Spent' = Spent
    BY <1>2 DEF Spent
  <1>4. {r \in Requests : request[r].state = "ok"}' = {r \in Requests : request[r].state = "ok"}
    BY DEF Quiet, Ok
  <1>5. Forgotten' = Forgotten
    BY <1>4 DEF Quiet, Forgotten, Ok
  <1>6. \A d \in Requests : device[d] = "live" => RestsOn(d)' = RestsOn(d)
    BY DEF Quiet, RestsOn, IInv, Trusting
  <1>7. Trusted' = Trusted
    BY <1>6 DEF Quiet, Trusted
  <1> QED BY <1>3, <1>5, <1>7

LEMMA QuietSteps ==
  ASSUME TypeOK, IInv, [Next]_vars, \A r \in Requests : ~Commit(r)
  PROVE  Quiet
PROOF
  <1>1. ASSUME UNCHANGED <<device, request>>  PROVE Quiet
    BY <1>1 DEF Quiet, Ok
  <1>2. ASSUME NEW r \in Requests, request[r].state # "ok", NEW y,
               request' = [request EXCEPT ![r] = y], y.state # "ok", UNCHANGED device
        PROVE  Quiet
    BY <1>2, TypeParts DEF Quiet, Ok
  <1>3. ASSUME NEW r \in Requests, Begin(r)  PROVE Quiet
    <2>1. PICK kind \in Kinds, s \in Sessions \cup {"none"}, proof \in Proofs, remember \in BOOLEAN :
            /\ IF kind \in ByOthers THEN s = "none" ELSE s \in Sessions /\ MayBegin(kind, s)
            /\ kind \notin WithCode => proof = NoCode
            /\ kind \in WithCode /\ proof = NoCode => key
            /\ kind # "verify" => ~remember
            /\ request' = [request EXCEPT ![r] = [NoRequest EXCEPT
                 !.kind = kind, !.s = s, !.proof = proof, !.remember = remember,
                 !.ground = IF kind = "verify" THEN r ELSE "none",
                 !.at = IF kind \in WithCode /\ proof = NoCode THEN 2 ELSE 1,
                 !.state = "open"]]
      BY <1>3, Zenon DEF Begin
    <2> DEFINE y == [NoRequest EXCEPT
                 !.kind = kind, !.s = s, !.proof = proof, !.remember = remember,
                 !.ground = IF kind = "verify" THEN r ELSE "none",
                 !.at = IF kind \in WithCode /\ proof = NoCode THEN 2 ELSE 1,
                 !.state = "open"]
    <2>2. request' = [request EXCEPT ![r] = y]
      BY <2>1
    <2>3. y.state = "open"
      BY DEF NoRequest
    <2> HIDE DEF y
    <2> QED BY <1>2, <1>3, <2>2, <2>3 DEF Begin
  <1>4. ASSUME NEW r \in Requests, Resolve(r)  PROVE Quiet
    <2> DEFINE y == [request[r] EXCEPT !.target = PostMfaStage(r), !.at = request[r].at + 1]
    <2>1. request' = [request EXCEPT ![r] = y]
      BY <1>4 DEF Resolve
    <2>2. y.state = request[r].state
      BY TypeParts DEF RequestRecords
    <2> HIDE DEF y
    <2> QED BY <1>2, <1>4, <2>1, <2>2 DEF Resolve, Open
  <1>5. ASSUME NEW r \in Requests, Look(r)  PROVE Quiet
    <2> DEFINE y == [request[r] EXCEPT !.looked = TRUE, !.want = Matches(r),
                       !.ends = request[r].ends \cup SignedOut(r),
                       !.covers = request[r].covers \cup Covered(r)]
    <2>1. request' = [request EXCEPT ![r] = y]
      BY <1>5 DEF Look
    <2>2. y.state = request[r].state
      BY TypeParts DEF RequestRecords
    <2> HIDE DEF y
    <2> QED BY <1>2, <1>5, <2>1, <2>2 DEF Look, Open
  <1>6. ASSUME NEW r \in Requests, Run(r)  PROVE Quiet
    <2>1. PICK did, ground, at :
            request' = [request EXCEPT ![r] =
              IF Refuses(r, Rematched(r)) THEN Refused
              ELSE [request[r] EXCEPT !.looked = FALSE, !.want = {}, !.did = did,
                                      !.ground = ground, !.at = at]]
      BY <1>6 DEF Run
    <2> DEFINE z == [request[r] EXCEPT !.looked = FALSE, !.want = {}, !.did = did,
                                      !.ground = ground, !.at = at]
               y == IF Refuses(r, Rematched(r)) THEN Refused ELSE z
    <2>2. request' = [request EXCEPT ![r] = y]
      BY <2>1
    <2>3. z.state = request[r].state
      BY TypeParts DEF RequestRecords
    <2> HIDE DEF z
    <2>4. y.state \in {"refused", request[r].state}
      BY <2>3, RefusedIs
    <2> HIDE DEF y
    <2> QED BY <1>2, <1>6, <2>2, <2>4 DEF Run, Open
  <1>7. ASSUME NEW r \in Requests, Abort(r)  PROVE Quiet
    BY <1>2, <1>7, RefusedIs DEF Abort, Open
  <1>8. ASSUME NEW s \in Sessions, LoginCheck(s) \/ LoginCreate(s) \/ Expire(s) \/ ProofAges(s)
        PROVE  Quiet
    BY <1>1, <1>8 DEF LoginCheck, LoginCreate, Expire, ProofAges
  <1>9. CASE UNCHANGED vars
    BY <1>1, <1>9 DEF vars
  <1> QED BY <1>3, <1>4, <1>5, <1>6, <1>7, <1>8, <1>9 DEF Next

LEMMA CommitSpends ==
  ASSUME TypeOK, IInv, NEW r \in Requests, Commit(r)
  PROVE  \/ Spent' = Spent
         \/ \E p \in Proofs : (\A u \in Spent : u[2] # p) /\ Spent' = Spent \cup {<<r, p>>}
PROOF
  <1> DEFINE q == request[r]
  <1>1. /\ q \in RequestRecords /\ ~Ok(r) /\ Ok(r)'
        /\ request'[r].did = q.did /\ request'[r].proof = q.proof
        /\ \A x \in Requests \ {r} : request'[x] = request[x]
    BY CommitFacts
  <1>2. q.proof \in Proofs
    BY <1>1, RequestFields
  <1>3. ASSUME NEW x \in Requests \ {r}, NEW p \in Proofs
        PROVE  <<x, p>> \in Spent' <=> <<x, p>> \in Spent
    <2>1. /\ Ok(x)' <=> Ok(x)
          /\ Wrote(x, "use")' = Wrote(x, "use")
      BY <1>1 DEF Ok, Wrote
    <2>2. <<x, p>> \in Spent' <=> Ok(x)' /\ request'[x].proof = p /\ Wrote(x, "use")' # {}
      BY DEF Spent, UsedBy, Ok
    <2> QED BY <1>1, <2>1, <2>2, SpentIs
  <1>4. /\ Wrote(r, "use")' = Wrote(r, "use")
        /\ \A p \in Proofs : <<r, p>> \notin Spent
        /\ \A p \in Proofs : <<r, p>> \in Spent' <=> q.proof = p /\ Wrote(r, "use") # {}
    <2>1. Wrote(r, "use")' = Wrote(r, "use")
      BY <1>1 DEF Wrote
    <2>2. \A p \in Proofs : <<r, p>> \in Spent' <=> Ok(r)' /\ request'[r].proof = p /\ Wrote(r, "use")' # {}
      BY DEF Spent, UsedBy, Ok
    <2> QED BY <1>1, <2>1, <2>2, SpentIs
  <1>5. Spent \subseteq Requests \X Proofs /\ Spent' \subseteq Requests \X Proofs
    BY DEF Spent
  <1>6. CASE Wrote(r, "use") = {}
    <2>1. \A x \in Requests, p \in Proofs : <<x, p>> \in Spent' <=> <<x, p>> \in Spent
      BY <1>3, <1>4, <1>6
    <2>2. Spent' = Spent
      BY <1>5, <2>1
    <2> QED BY <2>2
  <1>7. CASE Wrote(r, "use") # {}
    <2>1. \A x \in Requests, p \in Proofs :
            <<x, p>> \in Spent' <=> <<x, p>> \in Spent \/ (x = r /\ p = q.proof)
      BY <1>3, <1>4, <1>7
    <2>2. Spent' = Spent \cup {<<r, q.proof>>}
      BY <1>2, <1>5, <2>1
    <2>3. ASSUME NEW u \in Spent, u[2] = q.proof
          PROVE  FALSE
      <3>1. u[1] \in Requests /\ Ok(u[1]) /\ request[u[1]].proof = q.proof /\ Wrote(u[1], "use") # {}
        BY <1>2, <2>3, SpentIs
      <3>2. PICK x \in Requests : x = u[1]
        BY <3>1
      <3>3. OkGood(request[x]) /\ \E row \in Rows : <<"use", row>> \in request[x].did
        BY <3>1, <3>2 DEF IInv, OkAreGood, Wrote
      <3>4. IF q.proof \in Codes THEN code[q.proof] # "unused" ELSE totp.last >= q.proof
        BY <3>1, <3>2, <3>3 DEF OkGood
      <3>5. StillUnused(q.proof)
        BY <1>7, CommitProofs DEF Wrote
      <3>6. q.proof \notin Codes => q.proof \in Nat /\ totp.last \in Nat
        BY <1>2, TypeParts, NameFacts DEF Proofs, TotpRecords
      <3> QED BY <3>4, <3>5, <3>6 DEF StillUnused
    <2> QED BY <1>2, <2>2, <2>3
  <1> QED BY <1>6, <1>7

LEMMA CommitForgets ==
  ASSUME TypeOK, IInv, IInv', TypeOK', NEW r \in Requests, Commit(r)
  PROVE  /\ Forgotten \subseteq Forgotten' /\ Forgotten' \subseteq Sources
         /\ Trusted' \subseteq Trusted \cup (Requests \X (Sources \ Forgotten))
         /\ \A t \in Trusted' : t[2] \notin Forgotten'
PROOF
  <1>1. /\ \A c : c \in Forgotten <=> \E x \in Requests : Ok(x) /\ c \in request[x].covers
        /\ \A c : c \in Forgotten' <=> \E x \in Requests : Ok(x)' /\ c \in request'[x].covers
    BY DEF Forgotten, Ok
  <1>2. Forgotten \subseteq Forgotten'
    BY <1>1, CommitFacts
  <1>3. Forgotten' \subseteq Sources
    <2>1. \A x \in Requests : request'[x].covers \subseteq Sources
      BY TypeParts, RequestFields
    <2> QED BY <1>1, <2>1
  <1>4. \A t \in Trusted' : /\ t \in Requests \X Sources /\ device'[t[1]] = "live"
                            /\ t[2] \in RestsOn(t[1])'
    BY DEF Trusted, RestsOn
  <1>5. ASSUME NEW t \in Trusted'
        PROVE  t[2] \notin Forgotten'
    <2>1. PICK d \in Requests : d = t[1] /\ device'[d] = "live" /\ t[2] \in RestsOn(d)'
      BY <1>4 DEF RestsOn
    <2>2. \A x \in Requests : Ok(x)' => RestsOn(d)' \cap request'[x].covers = {}
      BY <2>1 DEF IInv, Trusting
    <2> QED BY <1>1, <2>1, <2>2
  <1>6. Trusted' \subseteq Requests \X (Sources \ Forgotten)
    BY <1>2, <1>4, <1>5
  <1> QED BY <1>2, <1>3, <1>5, <1>6

LEMMA StepsAreSingle ==
  ASSUME TypeOK, IInv, [Next]_vars
  PROVE  [Promise!Step]_(Promise!vars)
PROOF
  <1>1. CASE \A r \in Requests : ~Commit(r)
    <2>1. UNCHANGED <<Spent, Forgotten, Trusted>>
      BY <1>1, QuietSteps, QuietStutters
    <2> QED BY <2>1 DEF Promise!vars, Spent, Trusted
  <1>2. ASSUME NEW r \in Requests, Commit(r)
        PROVE  Promise!Step
    <2>1. TypeOK' /\ IInv'
      BY NextKeeps
    <2>2. \/ Spent' = Spent
          \/ \E p \in Proofs : (\A u \in Spent : u[2] # p) /\ Spent' = Spent \cup {<<r, p>>}
      BY <1>2, CommitSpends
    <2>3. Promise!Spend
      BY <2>2 DEF Promise!Spend, Spent
    <2>4. /\ Forgotten \subseteq Forgotten' /\ Forgotten' \subseteq Sources
          /\ Trusted' \subseteq Trusted \cup (Requests \X (Sources \ Forgotten))
          /\ \A t \in Trusted' : t[2] \notin Forgotten'
      BY <1>2, <2>1, CommitForgets
    <2> QED BY <2>3, <2>4 DEF Promise!Step, Trusted
  <1> QED BY <1>1, <1>2

LEMMA StartsEmpty ==
  ASSUME Init
  PROVE  Promise!Init
PROOF
  <1>1. \A r \in Requests : request[r].state = "idle" /\ device[r] = "none"
    BY NoRequestIs DEF Init
  <1>2. Spent = {} /\ Forgotten = {} /\ Trusted = {}
    BY <1>1 DEF Spent, UsedBy, Forgotten, Trusted
  <1> QED BY <1>2 DEF Promise!Init, Spent, Trusted

\* The transactions of sign-in, statement by statement, with the races and failures
\* between them, do no more than the account's single steps: a one-time proof is
\* accepted once, and no remembered device rests on what was forgotten.
THEOREM TransactionsImplementPromise == Spec => KeepsPromise
PROOF
  <1>1. Init => Promise!Init
    BY StartsEmpty
  <1>2. TypeOK /\ IInv /\ [Next]_vars => [Promise!Step]_(Promise!vars)
    BY StepsAreSingle
  <1> QED BY <1>1, <1>2, InvariantHolds, PTL DEF Spec, KeepsPromise, Promise!Spec
=============================================================================
