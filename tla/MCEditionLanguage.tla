------------------------- MODULE MCEditionLanguage -------------------------
(* Two duplicate works, a translation and an edition; two editors, who may edit  *)
(* any of them, and an operator who merges.                                      *)
EXTENDS EditionLanguage, TLC

CONSTANTS e1, t1, p1, p2, mg, uk, en

ASSUME LanguageAssumption

\* The translation is first a translation of work 1.
EInit == Init /\ tr[t1].work = 1

ESpec == EInit /\ [][Next]_lvars

Symmetry == Permutations(Editors) \cup Permutations(Langs)
=============================================================================
