------------------------ MODULE MCSecureSessionTable ------------------------
(* Instances of SecureSessionTable for TLC. *)
EXTENDS SecureSessionTable, TLC

(* One peer; and, for larger instances, a second one on the same fabric or *)
(* on another.                                                             *)
OnePeer == {[fabric |-> 1, node |-> "n"]}
TwoPeers == {[fabric |-> 1, node |-> "n"], [fabric |-> 1, node |-> "m"]}
TwoFabrics == {[fabric |-> 1, node |-> "n"], [fabric |-> 2, node |-> "n"]}

Symmetry == Permutations(Slots)
=============================================================================
