--------------------------- MODULE MCSeedAgreement ---------------------------
(***************************************************************************)
(* SeedAgreement for TLC, with the pick of MCSeedResolution.               *)
(***************************************************************************)
EXTENDS SeedAgreement, MCSeedResolution
=============================================================================
