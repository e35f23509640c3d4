--------------------------- MODULE MCMailDelivery ---------------------------
(***************************************************************************)
(* A small instance of MailDelivery for TLC.  All actors at once are too   *)
(* many, so each behaviour has a cast of them, and a number of faults.     *)
(***************************************************************************)
EXTENDS MailDelivery, TLC

CONSTANTS r1, r2, w1, w2, c1

VARIABLE cast  \* who takes part, and how often something breaks

\* Two workers after the same rows; two overlapping requests; the retry command.
Casts == {[actors |-> {r1, w1, w2}, faults |-> 1],
          [actors |-> {r1, r2, w1}, faults |-> 0],
          [actors |-> {r1, w1, c1}, faults |-> 1]}

CastInit == Init /\ cast \in Casts

CastNext ==
  /\ Next /\ UNCHANGED cast
  /\ \A r \in Requests \ cast.actors : request'[r].phase = "new"
  /\ \A s \in Senders \ cast.actors : phase'[s] = "idle"
  /\ faults' <= cast.faults

\* The fairness of MailDelivery, for those who take part.
CastSpec ==
  /\ CastInit /\ [][CastNext]_<<vars, cast>>
  /\ \A w \in Workers : WF_vars(w \in cast.actors /\ WorkerStep(w))
  /\ \A s \in Retriers : WF_vars(s \in cast.actors /\ AttemptStep(s))

\* WaitingIsSettled: where nobody runs the retry command, every row that waits to be sent
\* is settled in the end (MAX_MAIL_DRAIN_ATTEMPTS).
SettledWithoutCommand == cast.actors \cap Retriers = {} => WaitingIsSettled
=============================================================================
