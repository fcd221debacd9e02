----------------------------- MODULE MCLibrary -----------------------------
(* How books get into a library, for TLC: in two tabs, an import of two rows in one *)
(* instant, of one row while the catalog changes, or of one row whose draft expires *)
(* while the catalog is at rest; or one book added in one go, by three requests with *)
(* an ISBN or for a work, or by two for a volume without one.                        *)
EXTENDS LibraryImport, QuickAdd, TLC

CONSTANTS t1, t2, k3, ann, bob, o1, o2, book, work, volume

VARIABLE part

OneRow == INSTANCE LibraryImport WITH RowNos <- {1}, MaxTime <- 1, MaxVersion <- 4

KindsOfRecords == book :> "ISBN" @@ work :> "WORK" @@ volume :> "VOLUME"

ASSUME QuickAddAssumption

MInit ==
  /\ IInit /\ Init
  /\ part \in {"IMPORT", "CATALOG", "EXPIRY", "BOOKS", "VOLUMES"}

\* Of books and works, one operation; of a volume, which is found by its reference alone,
\* two operations of a user.
TakesPart ==
  \A k \in Calls : call[k] # Idle =>
     IF part = "VOLUMES" THEN call[k].record = volume /\ k # k3
     ELSE call[k].record # volume /\ call[k].op = o1

MNext ==
  /\ UNCHANGED part
  /\ \/ part = "IMPORT" /\ INext /\ clock' = 0 /\ UNCHANGED vars
     \/ part = "CATALOG" /\ OneRow!INext /\ clock' = 0 /\ UNCHANGED vars
     \/ part = "EXPIRY" /\ OneRow!INext /\ ~merged' /\ edition' # "theirs" /\ UNCHANGED vars
     \/ part \in {"BOOKS", "VOLUMES"} /\ Next /\ TakesPart' /\ UNCHANGED ivars

MSpec == MInit /\ [][MNext]_<<part, ivars, vars>>

-----------------------------------------------------------------------------

\* Tabs and requests may be swapped, and users.
Symmetry == Permutations({t1, t2}) \cup Permutations({ann, bob})
=============================================================================
