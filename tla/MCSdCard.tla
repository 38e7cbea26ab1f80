------------------------------ MODULE MCSdCard ------------------------------
(* SdCard for TLC: names are alike, and so are handles. *)
EXTENDS SdCard, TLC

Alike == Permutations(Name) \cup Permutations(Handle)
=============================================================================
