--------------------------- MODULE AccountPromise ---------------------------
(***************************************************************************)
(* What the sign-in code promises an account, in single steps: a one-time  *)
(* proof (a recovery code, the authenticator code of a time step) is spent *)
(* once; a remembered device rests on a session and on its second factor;  *)
(* once one of the two is forgotten, no device rests on it.                *)
(***************************************************************************)
CONSTANTS Proofs,    \* recovery codes and time steps of the authenticator
          Sources,   \* what a device may rest on: sessions, completed second factors
          Requests   \* requests; a device is named by the one that remembered it

VARIABLES spent,     \* <<request, proof>>: the proofs accepted and from whom
          forgotten, \* the sources that no longer make a device
          trusted    \* <<device, source>>: remembered devices and their grounds

vars == <<spent, forgotten, trusted>>

Init == spent = {} /\ forgotten = {} /\ trusted = {}

\* A proof is accepted from one request only.
Spend ==
  \/ spent' = spent
  \/ \E r \in Requests, p \in Proofs :
       /\ \A u \in spent : u[2] # p
       /\ spent' = spent \cup {<<r, p>>}

\* One request ends: it may spend a proof, remember a device on sources that
\* count, and forget sources together with every device that rests on them.
Step ==
  /\ Spend
  /\ forgotten \subseteq forgotten' /\ forgotten' \subseteq Sources
  /\ trusted' \subseteq trusted \cup (Requests \X (Sources \ forgotten))
  /\ \A t \in trusted' : t[2] \notin forgotten'

Spec == Init /\ [][Step]_vars
=============================================================================
