--------------------------- MODULE LendingHistory ---------------------------
(* Lending, with a memory of whether the owner has ever edited a status.  What    *)
(* the owner's edit form does to a copy is the one thing that can leave a loan     *)
(* without a way on: until then nobody is locked out.                              *)
EXTENDS Lending

VARIABLE edited     \* ghost: a status edit has been past its snapshot

hvars == <<vars, edited>>

HInit == Init /\ edited = FALSE

HNext == Next /\ edited' = (edited \/ edits' # {})

HSpec == HInit /\ [][HNext]_hvars

\* The rejected are told; without edits nobody is locked out, and a copy offered as
\* available can be lent.
Undisturbed == RejectedAreTold /\ (~edited => NobodyIsLockedOut /\ PromisedIsReserved)
=============================================================================
