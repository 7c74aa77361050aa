---------------------------- MODULE MCDiscovery ----------------------------
(* Instances of Discovery for TLC. *)
EXTENDS Discovery

\* Two nodes find each other from nothing; a node joins two, of which only
\* one answers discovery requests, and learns of the other from it.
ColdAndWarm ==
    {[settled |-> {}, deaf |-> {}, joining |-> {1, 2}],
     [settled |-> {1}, deaf |-> {3}, joining |-> {2}]}
=============================================================================
