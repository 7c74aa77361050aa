----------------------------- MODULE MCGossip ------------------------------
(* Instances of Gossip for TLC. *)
EXTENDS Gossip, TLC

CONSTANTS p, q, r, a, b

\* r is known to q only; p and q know each other, and each answers one search.
Lists == (p :> {q}) @@ (q :> {p, r}) @@ (r :> {q})
Names == (a :> {q}) @@ (b :> {p, r})
=============================================================================
