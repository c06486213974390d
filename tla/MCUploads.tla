----------------------------- MODULE MCUploads -----------------------------
(* Uploads with one completion and one analysis. *)
EXTENDS Uploads

CONSTANTS c1, a1
=============================================================================
