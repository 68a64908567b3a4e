----------------------------- MODULE MCGateway -----------------------------
(* Instances of Gateway for TLC. *)
EXTENDS Gateway

\* A RESUME of a session the server does not keep is answered with op 9 and a
\* close.
InvalidThenClose == {"op9_close"}
==============================================================================
