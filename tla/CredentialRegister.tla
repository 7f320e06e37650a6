------------------------- MODULE CredentialRegister -------------------------
(***************************************************************************)
(* What the credential reloader promises: one register that holds the TLS  *)
(* generation in force.  It is replaced in one step, by a generation that  *)
(* is acceptable and not older, and a handshake reads it once.             *)
(***************************************************************************)

CONSTANTS
  Users,            \* handshakes
  Values,           \* generations
  Acceptable(_),    \* what may be published
  NotOlderThan(_, _),
  None

VARIABLES
  current,  \* the generation in force
  used      \* used[u]: the generation the handshake read

Init ==
  /\ current \in Values
  /\ Acceptable(current)
  /\ used = [u \in Users |-> None]

Publish ==
  /\ current' \in Values
  /\ Acceptable(current')
  /\ NotOlderThan(current', current)
  /\ UNCHANGED used

Read(u) ==
  /\ used[u] = None
  /\ used' = [used EXCEPT ![u] = current]
  /\ UNCHANGED current

Next == Publish \/ \E u \in Users : Read(u)

Spec == Init /\ [][Next]_<<current, used>>
=============================================================================
