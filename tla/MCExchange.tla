----------------------------- MODULE MCExchange -----------------------------
(* Instances of Exchange for TLC. *)
EXTENDS Exchange

CONSTANTS A, B      \* the two nodes

MCNode == {A, B}

(* One exchange that A opens.                                              *)
OneExchange == {[initiator |-> A, id |-> 1]}

(* One exchange in each direction.                                         *)
CrossExchanges == {[initiator |-> A, id |-> 1], [initiator |-> B, id |-> 1]}

(* Context pools: enough for every exchange; or node B takes only one.     *)
AmplePool == [n \in MCNode |-> 2]
SmallPool == [n \in MCNode |-> IF n = A THEN 2 ELSE 1]

=============================================================================
