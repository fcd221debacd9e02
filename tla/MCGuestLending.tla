--------------------------- MODULE MCGuestLending ---------------------------
(* GuestLending on small sets for TLC. *)

EXTENDS GuestLending, Naturals, FiniteSets, TLC

CONSTANTS ann, gus, kim, c1, c2

AnnOwnsAll == [c \in Copies |-> ann]

AnnKnowsAll == [k \in Contacts |-> ann]

VARIABLE part

\* Three loans of one book to Bob and Gus with status edits, or two loans to Gus and Kim
\* of one or two books.
TakesPart ==
  \/ part = "BOOK" /\ kim \notin known /\ ~copy[c2].listed
  \/ /\ part = "CONTACTS" /\ edits = {}
     /\ Cardinality({l \in LoanIds : loan[l].status # "NONE"}) <= 2
     /\ \A l \in LoanIds : loan[l].borrower = NULL

MGInit == GInit /\ part \in {"BOOK", "CONTACTS"}
MGNext == GNext /\ UNCHANGED part /\ TakesPart'
MGSpec == MGInit /\ [][MGNext]_<<gvars, part>>

LoanSymmetry == Permutations(LoanIds)

=============================================================================
