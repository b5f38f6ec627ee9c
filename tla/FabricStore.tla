---------------------------- MODULE FabricStore ----------------------------
(***************************************************************************)
(* What the persistent fabric table promises: a device that loses power at *)
(* any moment comes back with, for every fabric index, either nothing or   *)
(* one complete set of credentials (operational key, NOC, ICAC and root    *)
(* that belong together) and a label.  A set of credentials appears and    *)
(* disappears as a whole, one fabric at a time; replacing one (UpdateNOC)  *)
(* passes through "nothing", which is what CommitPendingFabricData's       *)
(* comment calls blowing away everything when an update goes wrong.        *)
(***************************************************************************)
EXTENDS Naturals

CONSTANTS
    Index,          \* fabric indices
    Versions,       \* generations of credentials
    Labels          \* fabric labels

VARIABLE committed  \* what a device that starts now would find

Nothing == [ver |-> 0, whole |-> TRUE, label |-> 0]

Whole == [ver : Versions, whole : {TRUE}, label : Labels]

SomeOrNothing == Whole \cup {Nothing}

Init == committed = [i \in Index |-> Nothing]

Install(i) ==
    /\ committed[i] = Nothing
    /\ \E credentials \in Whole : committed' = [committed EXCEPT ![i] = credentials]

Withdraw(i) ==
    /\ committed[i] # Nothing
    /\ committed' = [committed EXCEPT ![i] = Nothing]

Relabel(i) ==
    /\ committed[i] # Nothing
    /\ \E label \in Labels : committed' = [committed EXCEPT ![i].label = label]

Next == \E i \in Index : Install(i) \/ Withdraw(i) \/ Relabel(i)

Spec == Init /\ [][Next]_committed

=============================================================================
