--------------------------- MODULE MCSupportPayments ---------------------------
(* Support payments with a few sessions and sponsor rows.                      *)
EXTENDS SupportPayments, TLC
Alike == Permutations(Sessions) \cup Permutations(SponsorRows)
=============================================================================
