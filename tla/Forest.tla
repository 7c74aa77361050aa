------------------------------- MODULE Forest -------------------------------
(***************************************************************************)
(* What the palm tree protocol promises, without its messages: the tree    *)
(* grows from the root by attaching a free relay to one that is settled.   *)
(* A relay settles once: it becomes a member under one parent for good, or *)
(* an orphan that never gets one.                                          *)
(***************************************************************************)
CONSTANTS Relays, Root

VARIABLES status, parent

Init ==
  /\ status = [n \in Relays |-> "free"]
  /\ parent = [n \in Relays |-> n]

Settled(n) == status[n] # "free"

Plant ==
  /\ ~Settled(Root)
  /\ status' = [status EXCEPT ![Root] = "member"]
  /\ UNCHANGED parent

Attach(n, p) ==
  /\ n # Root /\ ~Settled(n) /\ Settled(p)
  /\ status' = [status EXCEPT ![n] = "member"]
  /\ parent' = [parent EXCEPT ![n] = p]

Abandon(n) ==
  /\ n # Root /\ ~Settled(n)
  /\ status' = [status EXCEPT ![n] = "orphan"]
  /\ UNCHANGED parent

Next == Plant \/ \E n \in Relays : Abandon(n) \/ \E p \in Relays : Attach(n, p)

Spec == Init /\ [][Next]_<<status, parent>>
=============================================================================
