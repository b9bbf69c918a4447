------------------------- MODULE MCAdmissionServing -------------------------
(***************************************************************************)
(* The valid name and one other.                                           *)
(***************************************************************************)
EXTENDS AdmissionServing

TwoNames == {"whatap", "other"}
=============================================================================
