------------------------------ MODULE MCLending ------------------------------
(* For TLC: Lending on small sets, with and without the owner's status edits, or the *)
(* daily reminders of books that are due.                                             *)

EXTENDS LendingHistory, Digest, TLC

CONSTANTS ann, bob, eve, c1, c2, l1, l2, l3, n1, n2, w1, w2

\* Ann owns every copy; Bob and Eve borrow.
AnnOwnsAll == [c \in Copies |-> ann]

\* Two processes remind of a book that a user has and of one that a guest has, on two days.
OneGuest == n1 :> "reader" @@ n2 :> Nobody

ASSUME DigestAssumption

VARIABLE part       \* "LENDING", or "DIGEST": the reminders

LInit ==
  /\ HInit /\ DInit
  /\ part \in {"LENDING", "DIGEST"} /\ (part # "DIGEST" => remind)

LNext ==
  /\ UNCHANGED part
  /\ \/ part = "LENDING" /\ HNext /\ UNCHANGED dvars
     \/ part = "DIGEST" /\ DNext /\ UNCHANGED hvars

LSpec == LInit /\ [][LNext]_<<hvars, part, dvars>>

\* The borrowers, and the loan ids, are interchangeable.
Symmetry == Permutations({bob, eve}) \cup Permutations(LoanIds)

=============================================================================
