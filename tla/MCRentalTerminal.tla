---------------------------- MODULE MCRentalTerminal ----------------------------
(* RentalTerminal for TLC. *)
EXTENDS RentalTerminal

================================================================================
