----------------------------- MODULE MCGuestLink -----------------------------
(* GuestLink for TLC: two links and two codes with mails that fail at any time,   *)
(* or four codes under one link, sent to one address within a window's limit.     *)

EXTENDS GuestLink, TLC

CONSTANTS e1, e2

VARIABLE part

LkInit == Init /\ part \in {"SECRETS", "LIMITS"}

TakesPart ==
  /\ part = "SECRETS" => Len(log) <= 2
  /\ part = "LIMITS" => linksIssued <= 1 /\ now <= 2 /\ challenge.mac # e2

LkNext == Next /\ UNCHANGED part /\ TakesPart'

LkSpec == LkInit /\ [][LkNext]_<<vars, part>>

CodeSymmetry == Permutations(Codes)

=============================================================================
