--------------------------- MODULE WalletLifecycle ---------------------------
(***************************************************************************)
(* Whether a wallet pass is valid: the status Admitto keeps on the row     *)
(* (WalletPass), and the pass at the provider.  Void and Restore, the void *)
(* and restore that follow the ticket, "Void active passes", "Remove from  *)
(* provider" and every read of the provider (packages/wallet,              *)
(* packages/tickets, apps/web/src/admin) all work on one row, each calling *)
(* the provider between reading it and writing it.                         *)
(*                                                                         *)
(* One pass of one attendee who is not erased (WalletPasses has erasure).  *)
(* A unit of time holds any number of steps, but one stamp of a command:   *)
(* stamps are milliseconds, and a call to the provider lies between two.   *)
(***************************************************************************)
EXTENDS Naturals

CONSTANTS Actors,      \* requests and steps of a job, each at work once
          Watcher,     \* the worker's wallet_sync, at work again and again
          Lag,         \* how long the provider's search may show what is over
          Window,      \* observationStalenessWindowMs
          EndsAt,      \* when the event ends, and passes that expire do
          LastChange,  \* bound: nobody commands anything after it
          MaxTime      \* bound on the clock

\* The window is there because the search lags (capabilities.ts); the bounds leave the
\* worker the time to notice the last change.
ASSUME LifecycleAssumption ==
  /\ Lag \in Nat /\ Window \in Nat /\ Lag <= Window
  /\ LastChange \in Nat \ {0} /\ MaxTime \in Nat /\ EndsAt \in Nat
  /\ LastChange + Lag < MaxTime /\ LastChange + Window <= MaxTime
  /\ Watcher \notin Actors

VARIABLES
  now,      \* the clock
  expires,  \* the event's passes expire when it ends
  ticket,   \* the attendee's status
  row,      \* the WalletPass row
  pass,     \* the pass at the provider: is it there, has it been voided
  was,      \* time -> whether the pass was invalid then, or both
  actor     \* what everybody is doing

vars == <<now, expires, ticket, row, pass, was, actor>>

Everybody == Actors \cup {Watcher}
Times == 0..MaxTime
Inactive == {"voided", "expired"}
\* stamp: provider_commanded_at; observed: lifecycle_observed_at; 0 for none.
Row == [status : Inactive \cup {"active"}, stamp : Times, removed : BOOLEAN, observed : Times]

Voiding == {"void", "revoke", "sweep"}
Restoring == {"restore", "register"}
Kinds == Voiding \cup Restoring \cup {"remove", "look"}
\* saw: the row as it was read, not removed; voided, asked: what the provider said, and when
\* it was asked.
Actor == [kind : Kinds \cup {"none"}, saw : [status : Inactive \cup {"active"}, stamp : Times],
          asked : Times, voided : BOOLEAN,
          at : {"idle", "patch", "load", "call", "ask", "answer", "apply", "again", "delete",
                "write", "realign", "recall", "restamp", "done", "lost"}]

TypeOK ==
  /\ now \in Times /\ expires \in BOOLEAN
  /\ ticket \in {"registered", "revoked"}
  /\ row \in Row
  /\ pass \in [here : BOOLEAN, voided : BOOLEAN]
  /\ was \in [Times -> SUBSET BOOLEAN]
  /\ actor \in [Everybody -> Actor]

NewRow == [status |-> "active", stamp |-> 0, removed |-> FALSE, observed |-> 0]
Nothing == [status |-> "active", stamp |-> 0]
NoActor == [kind |-> "none", saw |-> Nothing, asked |-> 0, voided |-> FALSE, at |-> "idle"]

Init ==
  /\ now = 1 /\ expires \in BOOLEAN /\ ticket = "registered"
  /\ row = NewRow
  /\ pass = [here |-> TRUE, voided |-> FALSE]
  /\ was = [t \in Times |-> IF t <= 1 THEN {FALSE} ELSE {}]
  /\ actor = [a \in Everybody |-> NoActor]

----------------------------------------------------------------------------
(* The clock and the provider.                                             *)

Over == now >= EndsAt
\* The provider shows a pass whose date is past as voided, too.
Shown(voided, t) == voided \/ (expires /\ t >= EndsAt)

\* The clock goes on; the pass at the provider is as it was.
Later == /\ now < MaxTime
         /\ now' = now + 1
         /\ was' = [was EXCEPT ![now + 1] = {Shown(pass.voided, now + 1)}]
Tick == Later /\ UNCHANGED <<expires, ticket, row, pass, actor>>

\* The provider carries out a void or a restore.
Becomes(voided) ==
  /\ pass' = [pass EXCEPT !.voided = voided]
  /\ was' = [was EXCEPT ![now] = @ \cup {Shown(voided, now)}]
  /\ UNCHANGED now

\* Somebody voids the pass in the provider's own pages.
VoidOutside ==
  /\ pass.here /\ now <= LastChange
  /\ Becomes(TRUE)
  /\ UNCHANGED <<expires, ticket, row, actor>>

\* What a search may show that was sent at a time and is answered now.
Answers(asked) == UNION {was[t] : t \in {t \in 1..now : t + Lag >= asked}}

\* runWalletExpiry: the passes that are due, once the event has ended.
Expire ==
  /\ expires /\ Over /\ row.status # "expired"
  /\ row' = [row EXCEPT !.status = "expired"]
  /\ UNCHANGED <<now, expires, ticket, pass, was, actor>>

----------------------------------------------------------------------------
(* Everybody's steps.                                                      *)

At(a, place) == actor[a].at = place
Goes(a, place) == actor' = [actor EXCEPT ![a].at = place]
\* The worker comes again; a request is over.
Ends(a) == actor' = [actor EXCEPT ![a] = IF a = Watcher THEN NoActor ELSE [NoActor EXCEPT !.at = "done"]]
WorldSame == UNCHANGED <<now, expires, ticket, row, pass, was>>

Start(a) ==
  /\ actor[a].at = "idle"
  /\ \E kind \in IF a = Watcher THEN {"look"} ELSE Kinds :
       actor' = [actor EXCEPT ![a].kind = kind,
                              ![a].at = IF kind \in {"revoke", "register"} THEN "patch" ELSE "load"]
  /\ WorldSame

\* The PATCH of the attendee commits; the wallet pass follows after it.
Patch(a) ==
  /\ At(a, "patch")
  /\ IF ticket = IF actor[a].kind = "revoke" THEN "registered" ELSE "revoked"
     THEN /\ ticket' = IF actor[a].kind = "revoke" THEN "revoked" ELSE "registered"
          /\ Goes(a, "load")
     ELSE Ends(a) /\ UNCHANGED ticket
  /\ UNCHANGED <<now, expires, row, pass, was>>

\* Which rows each goes on with.
Wanted(kind) ==
  /\ ~row.removed
  /\ kind \in {"revoke", "sweep", "look"} => row.status = "active"
  /\ kind = "register" => row.status = "voided"
  /\ kind = "remove" => row.status \in Inactive
  /\ kind \in Restoring => ~Over

Load(a) ==
  /\ At(a, "load")
  /\ IF Wanted(actor[a].kind)
     THEN actor' = [actor EXCEPT ![a].saw = [status |-> row.status, stamp |-> row.stamp],
                                 ![a].at = IF actor[a].kind \in {"remove", "look"} THEN "ask" ELSE "call"]
     ELSE Ends(a)
  /\ WorldSame

\* voidPass, restorePass; a pass that is not there is an error.
Call(a) ==
  /\ At(a, "call") /\ now <= LastChange
  /\ IF pass.here
     THEN /\ actor' = [actor EXCEPT ![a].at = "write",
                                    ![a].saw = IF actor[a].kind = "sweep" THEN @ ELSE Nothing]
          /\ Becomes(actor[a].kind \in Voiding)
     ELSE Ends(a) /\ UNCHANGED <<now, pass, was>>
  /\ UNCHANGED <<expires, ticket, row>>

\* A command is written with the time as its stamp.
Stamped(status) ==
  /\ now < LastChange
  /\ row' = [row EXCEPT !.status = status, !.stamp = now + 1]
  /\ Later

\* updateWalletPassUnlessRemoved.
Write(a) ==
  /\ At(a, "write") /\ actor[a].kind \in (Voiding \cup Restoring) \ {"sweep"}
  /\ IF row.removed THEN UNCHANGED <<now, row, was>>
     ELSE Stamped(IF actor[a].kind \in Voiding THEN "voided" ELSE "active")
  /\ Ends(a)
  /\ UNCHANGED <<expires, ticket, pass>>

Unchanged(saw) == row.status = saw.status /\ row.stamp = saw.stamp /\ ~row.removed

\* voidOneWalletPassAtProvider: only the row that was read; if it has changed, a Restore
\* in between gets its way (realignRestoredPass).
WriteSweep(a) ==
  /\ At(a, "write") /\ actor[a].kind = "sweep"
  /\ IF Unchanged(actor[a].saw) THEN Stamped("voided") /\ Ends(a)
     ELSE /\ actor' = [actor EXCEPT ![a].saw = Nothing, ![a].at = "realign"]
          /\ UNCHANGED <<now, row, was>>
  /\ UNCHANGED <<expires, ticket, pass>>
Realign(a) ==
  /\ At(a, "realign")
  /\ IF row.status = "active" /\ ~row.removed THEN Goes(a, "recall") ELSE Ends(a)
  /\ WorldSame
Recall(a) ==
  /\ At(a, "recall") /\ now <= LastChange
  /\ IF pass.here THEN Goes(a, "restamp") /\ Becomes(FALSE)
     ELSE Ends(a) /\ UNCHANGED <<now, pass, was>>
  /\ UNCHANGED <<expires, ticket, row>>
Restamp(a) ==
  /\ At(a, "restamp")
  /\ IF row.status = "active" /\ ~row.removed THEN Stamped("active") ELSE UNCHANGED <<now, row, was>>
  /\ Ends(a)
  /\ UNCHANGED <<expires, ticket, pass>>

----------------------------------------------------------------------------
(* Reading the provider.                                                   *)

\* getPassSnapshot: the time of a snapshot is when it was asked for.
Ask(a) ==
  /\ At(a, "ask")
  /\ actor' = [actor EXCEPT ![a].asked = now, ![a].at = "answer"]
  /\ WorldSame
Answer(a) ==
  /\ At(a, "answer")
  /\ \E voided \in Answers(actor[a].asked) :
       actor' = [actor EXCEPT ![a].voided = voided, ![a].at = "apply"]
  /\ WorldSame
\* Nothing is found, which proves nothing.
Missing(a) ==
  /\ At(a, "answer")
  /\ IF actor[a].kind = "remove"
     THEN actor' = [actor EXCEPT ![a].asked = 0, ![a].at = "again"] ELSE Ends(a)
  /\ WorldSame

ReconcileAnyTime(saw, voided, asked) == IF saw.status = "active" /\ voided THEN "voided" ELSE saw.status
\* reconcileWalletPassLifecycle: an active pass that is shown as voided, unless the read
\* is too close to a command of Admitto's own.  (The date the provider shows has no time
\* zone, so what has expired is taken as voided.)
Reconcile(saw, voided, asked) ==
  IF saw.status = "active" /\ voided /\ (saw.stamp = 0 \/ asked >= saw.stamp + Window)
  THEN "voided" ELSE saw.status

\* applyProviderSnapshotToWalletPass: one write, conditioned on what was read before, and
\* on no later read having been written.
Apply(a) ==
  /\ At(a, "apply")
  /\ row' = IF Unchanged(actor[a].saw) /\ row.observed < actor[a].asked
            THEN [row EXCEPT !.observed = actor[a].asked,
                             !.status = Reconcile(actor[a].saw, actor[a].voided, actor[a].asked)]
            ELSE row
  /\ IF actor[a].kind = "remove"
     THEN actor' = [actor EXCEPT ![a].asked = 0, ![a].voided = FALSE, ![a].at = "again"] ELSE Ends(a)
  /\ UNCHANGED <<now, expires, ticket, pass, was>>

----------------------------------------------------------------------------
(* removeOneWalletPassFromProvider.                                        *)

Again(a) ==
  /\ At(a, "again")
  /\ IF ~row.removed /\ row.status \in Inactive /\ row.stamp = actor[a].saw.stamp
     THEN Goes(a, "delete") ELSE Ends(a)
  /\ WorldSame
DeletePass(a) ==
  /\ At(a, "delete")
  /\ pass' = [pass EXCEPT !.here = FALSE]
  /\ actor' = [actor EXCEPT ![a].saw = Nothing, ![a].at = "write"]
  /\ UNCHANGED <<now, expires, ticket, row, was>>

RemovedAsItIs == [row EXCEPT !.removed = TRUE]
RemovedAsStatus == [row EXCEPT !.removed = TRUE, !.status = "removed"]
\* A removed pass is never active: a Restore that came in between is taken back.
Removed == [row EXCEPT !.removed = TRUE, !.status = IF @ \in Inactive THEN @ ELSE "voided"]
WriteRemoved(a) ==
  /\ At(a, "write") /\ actor[a].kind = "remove"
  /\ row' = Removed
  /\ Ends(a)
  /\ UNCHANGED <<now, expires, ticket, pass, was>>

\* The process dies, the provider does not answer, or the database does not.
Fail(a) ==
  /\ a # Watcher /\ actor[a].at \notin {"idle", "done", "lost"}
  /\ IF At(a, "write") /\ actor[a].kind = "remove" THEN Goes(a, "lost") ELSE Ends(a)
  /\ WorldSame

Step(a) ==
  \/ Start(a) \/ Patch(a) \/ Load(a) \/ Call(a) \/ Write(a) \/ WriteSweep(a) \/ Realign(a) \/ Recall(a)
  \/ Restamp(a) \/ Ask(a) \/ Answer(a) \/ Missing(a) \/ Apply(a) \/ Again(a) \/ DeletePass(a)
  \/ WriteRemoved(a) \/ Fail(a)

Next == Tick \/ VoidOutside \/ Expire \/ \E a \in Everybody : Step(a)

Spec == Init /\ [][Next]_vars

\* The worker looks at the pass again and again, and the provider answers it in the end.
LiveSpec ==
  /\ Spec
  /\ WF_vars(Tick)
  /\ WF_vars(Start(Watcher) \/ Load(Watcher) \/ Ask(Watcher) \/ Apply(Watcher))
  /\ SF_vars(Answer(Watcher))

----------------------------------------------------------------------------
(* What the code promises.                                                 *)

\* A pass that is active is at the provider, and not marked as removed from there; the
\* row may only lag behind a deletion whose answer is awaited (or was, by a request that
\* died): a Restore during that call is taken back (remove-wallet-pass-from-provider.ts).
ActiveIsAtProvider ==
  row.status = "active" =>
    /\ ~row.removed
    /\ pass.here \/ \E a \in Actors : actor[a].kind = "remove" /\ actor[a].at \in {"write", "lost"}

\* A read of the provider takes a pass out of use only if the pass was invalid there
\* after the last command that is recorded, and not before what an earlier read has
\* shown: neither an answer from a stale index nor one that arrives late undoes a
\* Restore (reconcile-lifecycle.ts, apply-provider-snapshot.ts).
ObservedVoidIsReal ==
  [][\A a \in Everybody :
       Apply(a) /\ row.status = "active" /\ row'.status # "active" =>
         \E t \in row.stamp..now : TRUE \in was[t] /\ t + Lag > row.observed]_vars

\* A pass that Admitto shows as active while the provider shows it as void does not stay
\* so, whatever left the two apart: the periodic check notices.
Drift == row.status = "active" /\ pass.here /\ Shown(pass.voided, now)
DriftIsNoticed == Drift ~> ~Drift
=============================================================================
