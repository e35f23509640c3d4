------------------------------- MODULE SignIn -------------------------------
(***************************************************************************)
(* Signing in to one account: its sessions and their stages, the one-time  *)
(* proofs of the second factor, the remembered devices, and everything     *)
(* that takes them back (packages/auth and the routes that call it).       *)
(*                                                                         *)
(* A request that changes anything is a READ COMMITTED transaction of      *)
(* PostgreSQL, a sequence of statements.  A statement takes a snapshot     *)
(* (Look), waits until no other open transaction has written the rows it   *)
(* matched, and writes those that still match (Run).  Nothing is seen by   *)
(* others before Commit, and an open transaction may fail at any point.    *)
(* The account's role demands a second factor (userRequiresMfa).           *)
(***************************************************************************)
EXTENDS Naturals, Sequences, FiniteSets

CONSTANTS Sessions,  \* rows of Session; each is made by one login
          Earlier,   \* those whose login is over when the run begins
          Requests,  \* transactions; a device is named by the one that made it
          Codes,     \* recovery codes of the account (backup or emergency)
          MaxStep    \* BOUND on the authenticator's steps, 1..MaxStep

ASSUME EarlierAssumption == Earlier \subseteq Sessions
ASSUME MaxStepAssumption == MaxStep \in Nat \ {0}
\* The rows of the four tables are different things, and none is a number.
ASSUME NamesAssumption ==
  /\ \A x \in Sessions \cup Requests \cup Codes : x \notin Nat \cup {"none", "user", "totp", "key"}
  /\ Sessions \cap Requests = {} /\ Sessions \cap Codes = {} /\ Requests \cap Codes = {}

Steps == 0..MaxStep
NoCode == 0   \* no step: the authenticator counts from 1
Proofs == Codes \cup Steps

MfaPending == "mfa_pending"
BackupCodes == "backup_codes_required"
ChangePassword == "change_password_required"
Full == "full"
Stages == {MfaPending, BackupCodes, ChangePassword, Full}

\* The statements of each kind of request, in the order of the code.  "proof" spends
\* the code, "resolve" reads what is still owed, "promote" advances the session,
\* "select" locks it if its proof is fresh, "user" writes the password, "own",
\* "others" and "revoke" end sessions, "unmark" takes the fresh proofs away,
\* "devices", "methods" and "totp" revoke or delete those rows.
Verify         == <<"proof", "resolve", "promote">>
RememberDevice == <<"select">>
CompleteCodes  == <<"ack", "resolve", "promote">>
NewPassword    == <<"user", "others", "resolve", "promote">>
PatchPassword  == <<"proof", "user", "others", "unmark", "devices">>
MfaReset       == <<"proof", "methods", "unmark", "devices", "others">>
DeleteTotp     == <<"proof", "totp", "unmark", "devices">>
ForgetDevices  == <<"unmark", "devices">>
Logout         == <<"own">>
SignOutAll     == <<"revoke", "unmark", "devices">>
ResetPassword  == <<"user", "revoke", "unmark", "devices">>
ResetUserMfa   == <<"methods", "revoke", "devices">>

Plan == [verify |-> Verify, rememberDevice |-> RememberDevice, ack |-> CompleteCodes,
         newPassword |-> NewPassword, password |-> PatchPassword, mfaReset |-> MfaReset,
         removeTotp |-> DeleteTotp, forget |-> ForgetDevices, logout |-> Logout,
         signOut |-> SignOutAll, adminPassword |-> ResetPassword, adminReset |-> ResetUserMfa]

Kinds == DOMAIN Plan
WithCode == {"verify", "password", "mfaReset", "removeTotp"}
ByFullSession == {"rememberDevice", "password", "mfaReset", "removeTotp", "forget"}
ByOthers == {"signOut", "adminPassword", "adminReset"}

VARIABLES
  totp,        \* the confirmed authenticator row: there, last accepted step, acknowledged codes
  key,         \* the account has a confirmed passkey
  code,        \* Codes -> "unused", "used" or "gone"
  mustChange,  \* User.must_change_password
  session,     \* Sessions -> stage ("none": no row; "arriving": login has decided, next holds it)
  device,      \* Requests -> "none", "live" or "revoked"
  request      \* Requests -> what the transaction is, where it is, what it wrote

vars == <<totp, key, code, mustChange, session, device, request>>

\* What a fresh second factor is known by: the request that proved it, or the
\* session itself when that was before the run began.
Grounds == Requests \cup Sessions
Sources == ({"session"} \X Sessions) \cup ({"proof"} \X Grounds)

Rows == {"user", "totp", "key"} \cup Codes \cup Sessions \cup Requests
Ops == {"use", "ack", "promote", "select", "user", "others", "own", "revoke",
        "unmark", "devices", "methods", "totp"}

NoRequest == [kind |-> "none", s |-> "none", proof |-> 0, remember |-> FALSE, at |-> 0,
              looked |-> FALSE, want |-> {}, did |-> {}, target |-> "none", ground |-> "none",
              ends |-> {}, covers |-> {}, state |-> "idle"]

NoSession == [stage |-> "none", next |-> "none", alive |-> FALSE, mark |-> "none",
              recent |-> FALSE]

\* A session of an earlier login that has just completed the second factor.
ProvedSession(s) == [stage |-> Full, next |-> "none", alive |-> TRUE, mark |-> s,
                     recent |-> TRUE]

TypeOK ==
  /\ totp \in [there : BOOLEAN, last : Steps, acked : BOOLEAN]
  /\ key \in BOOLEAN
  /\ code \in [Codes -> {"unused", "used", "gone"}]
  /\ mustChange \in BOOLEAN
  /\ session \in [Sessions -> [stage : Stages \cup {"none", "arriving"}, next : Stages \cup {"none"},
                               alive : BOOLEAN, mark : Grounds \cup {"none"},
                               recent : BOOLEAN]]
  /\ \A s \in Sessions : /\ session[s].alive => session[s].stage \in Stages
                         /\ session[s].stage = "arriving" => session[s].next \in Stages
  /\ device \in [Requests -> {"none", "live", "revoked"}]
  /\ request \in [Requests ->
       [kind : Kinds \cup {"none"}, s : Sessions \cup {"none"}, proof : Proofs,
        remember : BOOLEAN, at : 0..6, looked : BOOLEAN, want : SUBSET Rows,
        did : SUBSET (Ops \X Rows), target : Stages \cup {"none"}, ground : Grounds \cup {"none"},
        ends : SUBSET Sessions, covers : SUBSET Sources, state : {"idle", "open", "ok", "refused"}]]

Init ==
  /\ totp \in [there : {TRUE}, last : {0}, acked : BOOLEAN]
  /\ key = TRUE
  /\ code = [c \in Codes |-> "unused"]
  /\ mustChange \in BOOLEAN
  /\ session = [s \in Sessions |-> IF s \in Earlier THEN ProvedSession(s) ELSE NoSession]
  /\ device = [r \in Requests |-> "none"]
  /\ request = [r \in Requests |-> NoRequest]

----------------------------------------------------------------------------
(* Reading the rows.                                                       *)

HasMethod == totp.there \/ key
OwesCodes == totp.there /\ ~totp.acked

\* validateSession: what makes a cookie of a full session count.
Honoured(s) == session[s].alive /\ session[s].stage = Full /\ ~OwesCodes /\ HasMethod

Open(r) == request[r].state = "open"
Op(r) == Plan[request[r].kind][request[r].at]
Done(r) == request[r].at > Len(Plan[request[r].kind])
Wrote(r, op) == {row \in Rows : <<op, row>> \in request[r].did}

\* The rows a transaction has written, locked until it ends.
Holds(r) == IF Open(r) THEN {w[2] : w \in request[r].did} ELSE {}
Free(rows, r) == \A q \in Requests \ {r} : Holds(q) \cap rows = {}

\* resolvePostMfaStage, which sees what its own transaction has written.
PostMfaStage(r) ==
  IF OwesCodes /\ Wrote(r, "ack") = {} THEN BackupCodes
  ELSE IF mustChange /\ Wrote(r, "user") = {} THEN ChangePassword
  ELSE Full

\* promoteSessionToFull leaves a session alone that is at the target already.
Promotable(s, target) ==
  session[s].alive /\ session[s].stage \in (Stages \ {Full}) \ {target}

RowOf(proof) == IF proof \in Codes THEN proof ELSE "totp"

\* A recovery code not used, an authenticator's code of a step past the last accepted
\* one.  A code may be typed at any time here, not only within a step of its own,
\* which adds behaviours and takes none away.
StillUnused(proof) ==
  IF proof \in Codes THEN code[proof] = "unused"
  ELSE totp.there /\ totp.last < proof

\* The rows the statement of r matches in the committed state.
Matches(r) ==
  LET q == request[r] IN
  CASE Op(r) = "proof"   -> IF StillUnused(q.proof) THEN {RowOf(q.proof)} ELSE {}
    [] Op(r) = "promote" -> {s \in {q.s} : Promotable(s, q.target)}
    [] Op(r) = "select"  -> {s \in {q.s} : session[s].alive /\ session[s].mark # "none" /\ session[s].recent}
    [] Op(r) = "ack"     -> IF OwesCodes THEN {"totp"} ELSE {}
    [] Op(r) = "user"    -> {"user"}
    [] Op(r) = "own"     -> {s \in {q.s} : session[s].alive}
    [] Op(r) = "others"  -> {s \in Sessions \ {q.s} : session[s].alive}
    [] Op(r) = "revoke"  -> {s \in Sessions : session[s].alive}
    [] Op(r) = "unmark"  -> {s \in Sessions : session[s].mark # "none"}
    [] Op(r) = "devices" -> {d \in Requests : device[d] = "live"}
    [] Op(r) = "totp"    -> IF totp.there THEN {"totp"} ELSE {}
    [] Op(r) = "methods" -> (IF totp.there THEN {"totp"} ELSE {})
                            \cup (IF key THEN {"key"} ELSE {})
                            \cup {c \in Codes : code[c] # "gone"}

RematchedAsRead(r) == request[r].want
RematchedUnlessChanged(r) ==
  {row \in request[r].want \cap Matches(r) : row \in Sessions => session[row].stage = Full}

\* Of the rows waited for, those the statement still writes.
Rematched(r) ==
  LET q == request[r] IN
  IF Op(r) = "proof" THEN {row \in q.want : StillUnused(q.proof)}
  ELSE q.want \cap Matches(r)

----------------------------------------------------------------------------
(* Logins.                                                                 *)

\* login and loginWithPasskey up to createSession: a remembered device that is
\* still valid, or a passkey, skips the second factor.
LoginCheck(s) ==
  /\ session[s].stage = "none" /\ HasMethod
  /\ \E skips \in {FALSE, key \/ \E d \in Requests : device[d] = "live"} :
       session' = [session EXCEPT ![s].stage = "arriving",
         ![s].next = IF ~skips THEN MfaPending
                     ELSE IF OwesCodes THEN BackupCodes
                     ELSE IF mustChange THEN ChangePassword ELSE Full]
  /\ UNCHANGED <<totp, key, code, mustChange, device, request>>

\* createSession.
LoginCreate(s) ==
  /\ session[s].stage = "arriving"
  /\ session' = [session EXCEPT ![s].stage = session[s].next, ![s].next = "none",
                                ![s].alive = TRUE]
  /\ UNCHANGED <<totp, key, code, mustChange, device, request>>

----------------------------------------------------------------------------
(* Requests.                                                               *)

\* The guard a route passes before its transaction: the session's stage.
MayBegin(kind, s) ==
  CASE kind = "verify"       -> session[s].alive /\ session[s].stage = MfaPending
    [] kind = "ack"          -> session[s].alive /\ session[s].stage = BackupCodes
    [] kind = "newPassword"  -> session[s].alive /\ session[s].stage = ChangePassword /\ mustChange
    [] kind = "logout"       -> session[s].alive
    [] kind \in ByFullSession -> Honoured(s)

\* A passkey assertion is verified before the transaction, which then has no
\* code to check (completeMfaWithWebauthn, withStepUpGate).
Begin(r) ==
  /\ request[r].state = "idle"
  /\ \E kind \in Kinds, s \in Sessions \cup {"none"}, proof \in Proofs, remember \in BOOLEAN :
       /\ IF kind \in ByOthers THEN s = "none" ELSE s \in Sessions /\ MayBegin(kind, s)
       /\ kind \notin WithCode => proof = NoCode
       /\ kind \in WithCode /\ proof = NoCode => key
       /\ kind # "verify" => ~remember
       /\ request' = [request EXCEPT ![r] = [NoRequest EXCEPT
            !.kind = kind, !.s = s, !.proof = proof, !.remember = remember,
            !.ground = IF kind = "verify" THEN r ELSE "none",
            !.at = IF kind \in WithCode /\ proof = NoCode THEN 2 ELSE 1,
            !.state = "open"]]
  /\ UNCHANGED <<totp, key, code, mustChange, session, device>>

\* The sessions a sign-out finds: all, all but the one it comes from, or that one.
SignedOut(r) ==
  {s \in Sessions : /\ session[s].alive
                    /\ \/ Op(r) = "revoke"
                       \/ Op(r) = "others" /\ s # request[r].s
                       \/ Op(r) = "own" /\ s = request[r].s}

\* What a revocation of devices speaks for, found before it comes to the devices:
\* the sessions it signs out, and the fresh proofs it takes away.
Covered(r) ==
  LET plan == Plan[request[r].kind] IN
  IF ~\E i \in request[r].at..Len(plan) : plan[i] = "devices" THEN {}
  ELSE IF Op(r) = "unmark" THEN {<<"proof", session[s].mark>> : s \in Matches(r)}
  ELSE {<<"session", s>> : s \in SignedOut(r)}

\* promoteSessionToFull first reads what the user still owes.
Resolve(r) ==
  /\ Open(r) /\ ~Done(r) /\ Op(r) = "resolve"
  /\ request' = [request EXCEPT ![r].target = PostMfaStage(r), ![r].at = @ + 1]
  /\ UNCHANGED <<totp, key, code, mustChange, session, device>>

\* A statement begins: its snapshot.
Look(r) ==
  /\ Open(r) /\ ~Done(r) /\ Op(r) # "resolve" /\ ~request[r].looked
  /\ request' = [request EXCEPT
       ![r].looked = TRUE,
       ![r].want = Matches(r),
       ![r].ends = @ \cup SignedOut(r),
       ![r].covers = @ \cup Covered(r)]
  /\ UNCHANGED <<totp, key, code, mustChange, session, device>>

RefusesProofOnly(r, rows) == rows = {} /\ Op(r) = "proof"

\* completeMfa and the step-up gate refuse a proof that is not accepted, and a
\* promotion that matches nothing throws - except after an acknowledgment.
Refuses(r, rows) ==
  /\ rows = {}
  /\ \/ Op(r) = "proof"
     \/ Op(r) = "promote" /\ request[r].kind # "ack"

\* Nothing removed: the rest of the request is skipped.
SkipsRest(r, rows) == Op(r) = "totp" /\ rows = {}

\* A transaction that ends without writing.
Refused == [NoRequest EXCEPT !.state = "refused"]

\* The statement runs, once the rows it waits for are released.
Run(r) ==
  /\ Open(r) /\ ~Done(r) /\ request[r].looked
  /\ Free(request[r].want, r)
  /\ LET q == request[r]
         rows == Rematched(r)
         op == IF Op(r) = "proof" THEN "use" ELSE Op(r)
     IN  request' = [request EXCEPT ![r] =
           IF Refuses(r, rows) THEN Refused
           ELSE [q EXCEPT !.looked = FALSE, !.want = {},
                          !.did = q.did \cup ({op} \X rows),
                          !.ground = IF Op(r) = "select" /\ rows # {}
                                     THEN session[q.s].mark ELSE q.ground,
                          !.at = IF SkipsRest(r, rows) THEN Len(Plan[q.kind]) + 1
                                 ELSE q.at + 1]]
  /\ UNCHANGED <<totp, key, code, mustChange, session, device>>

SessionAfterMarkKept(r, s) ==
  LET promoted == s \in Wrote(r, "promote")
      proved == promoted /\ request[r].kind = "verify"
  IN  [session[s] EXCEPT
     !.stage = IF promoted THEN request[r].target ELSE @,
     !.mark = IF proved THEN r ELSE @,
     !.recent = @ \/ proved,
     !.alive = @ /\ s \notin Wrote(r, "revoke") \cup Wrote(r, "others") \cup Wrote(r, "own")]
SessionAfterAlways(r, s) ==
  [session[s] EXCEPT
     !.stage = IF s = request[r].s THEN request[r].target ELSE @,
     !.alive = @ /\ s \notin Wrote(r, "revoke") \cup Wrote(r, "others") \cup Wrote(r, "own")]

\* The session as r's writes leave it.
SessionAfter(r, s) ==
  LET promoted == s \in Wrote(r, "promote")
      proved == promoted /\ request[r].kind = "verify"
      unmarked == s \in Wrote(r, "unmark")
  IN  [session[s] EXCEPT
         !.stage = IF promoted THEN request[r].target ELSE @,
         !.mark = IF unmarked THEN "none" ELSE IF proved THEN r ELSE @,
         !.recent = ~unmarked /\ (@ \/ proved),
         !.alive = @ /\ s \notin Wrote(r, "revoke") \cup Wrote(r, "others") \cup Wrote(r, "own")]

\* A device is remembered with the completed second factor or on a fresh proof.
Remembers(r) ==
  \/ request[r].remember /\ Wrote(r, "promote") # {}
  \/ Wrote(r, "select") # {}

\* What each row is once r's writes are seen.
DeviceAfter(r, d) ==
  IF d = r /\ Remembers(r) THEN "live"
  ELSE IF d \in Wrote(r, "devices") THEN "revoked"
  ELSE device[d]

CodeAfter(r, c) ==
  IF c \in Wrote(r, "methods") THEN "gone"
  ELSE IF c \in Wrote(r, "use") THEN "used"
  ELSE code[c]

Commit(r) ==
  /\ Open(r) /\ Done(r)
  /\ code' = [c \in Codes |-> CodeAfter(r, c)]
  /\ totp' = [there |-> totp.there /\ "totp" \notin Wrote(r, "methods") \cup Wrote(r, "totp"),
              last  |-> IF "totp" \in Wrote(r, "use") THEN request[r].proof ELSE totp.last,
              acked |-> totp.acked \/ "totp" \in Wrote(r, "ack")]
  /\ key' = (key /\ "key" \notin Wrote(r, "methods"))
  /\ mustChange' = IF Wrote(r, "user") = {} THEN mustChange
                   ELSE request[r].kind = "adminPassword"
  /\ session' = [s \in Sessions |-> SessionAfter(r, s)]
  /\ device' = [d \in Requests |-> DeviceAfter(r, d)]
  /\ request' = [request EXCEPT ![r].state = "ok"]

\* A lost connection, a timeout, a crash of the process: all of it rolled back.
Abort(r) ==
  /\ Open(r)
  /\ request' = [request EXCEPT ![r] = Refused]
  /\ UNCHANGED <<totp, key, code, mustChange, session, device>>

----------------------------------------------------------------------------
(* Time.                                                                   *)

\* expires_at, or the idle window of a full session, goes by: for good.
Expire(s) ==
  /\ session[s].alive
  /\ \A r \in Requests : s \notin Holds(r)
  /\ session' = [session EXCEPT ![s].alive = FALSE]
  /\ UNCHANGED <<totp, key, code, mustChange, device, request>>

\* MFA_RECENT_WINDOW_MS after the proof.
ProofAges(s) ==
  /\ session[s].recent
  /\ session' = [session EXCEPT ![s].recent = FALSE]
  /\ UNCHANGED <<totp, key, code, mustChange, device, request>>

Next ==
  \/ \E s \in Sessions : LoginCheck(s) \/ LoginCreate(s) \/ Expire(s) \/ ProofAges(s)
  \/ \E r \in Requests : Begin(r) \/ Resolve(r) \/ Look(r) \/ Run(r) \/ Commit(r) \/ Abort(r)

Spec == Init /\ [][Next]_vars

----------------------------------------------------------------------------
(* What the code promises.                                                 *)

UsedBy(proof) == {r \in Requests : request[r].state = "ok" /\ request[r].proof = proof
                                    /\ Wrote(r, "use") # {}}

\* A recovery code or an authenticator code is accepted once, however many
\* requests present it at the same moment (recovery-consume.ts, enrollment.ts).
ProofAcceptedOnce == \A p \in Proofs : Cardinality(UsedBy(p)) <= 1

\* A code is spent only on a request that did what it was asked for: a login
\* whose session ended meanwhile gives it back (login.ts).
NoProofBurnt ==
  \A c \in Codes : code[c] = "used" =>
    \E r \in UsedBy(c) : request[r].kind = "verify" => Wrote(r, "promote") # {}

\* What a remembered device rests on, and what finished revocations have covered.
RestsOn(d) == {<<"session", request[d].s>>, <<"proof", request[d].ground>>}
Forgotten == UNION {request[r].covers : r \in {r \in Requests : request[r].state = "ok"}}

\* A session that a finished sign-out found is ended, whatever advanced it while
\* the sign-out waited for its row (revocation.ts).
SignedOutIsOut ==
  \A r \in Requests :
    request[r].state = "ok" => \A s \in request[r].ends : ~session[s].alive

Promise ==
  INSTANCE AccountPromise WITH
    spent <- {u \in Requests \X Proofs : u[1] \in UsedBy(u[2])},
    forgotten <- Forgotten,
    trusted <- {t \in Requests \X Sources : device[t[1]] = "live" /\ t[2] \in RestsOn(t[1])}

\* Every behaviour of the transactions is one of the account's single steps.
KeepsPromise == Promise!Spec
=============================================================================
