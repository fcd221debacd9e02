---------------------------- MODULE MCWorkMerge ----------------------------
(* Three duplicate works.  Three merges meet the user's reading statuses, or two *)
(* of them the wishlist and a new translation.                                   *)
EXTENDS WorkMerge, TLC

CONSTANTS m1, m2, m3, r1, r2, w1, w2, b1

ASSUME WorkAssumption

VARIABLE part

WInit == MInit /\ part \in {"STATUSES", "WISHES"}

TakesPart ==
  /\ part = "STATUSES" => \A p \in Wishers \cup Translators : pc[p] = "idle"
  /\ part = "WISHES" => /\ \A p \in Readers : pc[p] = "idle"
                        /\ \E p \in Merges : pc[p] = "idle"

WNext == MNext /\ UNCHANGED part /\ TakesPart'

WSpec == WInit /\ [][WNext]_<<part, mvars>>

Symmetry == Permutations(Merges) \cup Permutations(Readers) \cup Permutations(Wishers)
=============================================================================
