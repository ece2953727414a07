--------------------------- MODULE MCConfiguration ---------------------------
(* Module Configuration on the instance of Configuration.cfg. *)
EXTENDS Configuration

=============================================================================
