---------------------- MODULE MCApiHandoffProxy ----------------------
(* Instances of ApiHandoffProxy for TLC. *)
EXTENDS ApiHandoffProxy

CONSTANTS w1, g1, blue

=======================================================================
