--------------------------- MODULE MCUpdateCycle ---------------------------
(* Instances of UpdateCycle for TLC: one container, three images: 1.0.0, a *)
(* harmless 1.1.0 and a 1.2.0 whose notes ask for manual work; liveness is *)
(* checked with the first two.                                             *)
EXTENDS UpdateCycle

V(minor) == [major |-> 1, minor |-> minor, patch |-> 0, rev |-> 0, build |-> 0, pre |-> 0]

Web     == {"web"}
NoOne   == {}
Images  == {"old", "minor", "manual"}
Two     == {"old", "minor"}
Labels  == [d \in Images |-> CASE d = "old" -> V(0) [] d = "minor" -> V(1) [] OTHER -> V(2)]
TwoLabels == [d \in Two |-> Labels[d]]
Notes   == {[tag |-> V(1), prerelease |-> FALSE, keyword |-> FALSE],
            [tag |-> V(2), prerelease |-> FALSE, keyword |-> TRUE]}
=============================================================================
