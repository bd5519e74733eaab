------------------------ MODULE MCPlayerAuthority ------------------------
(* Instances of PlayerAuthority for TLC. *)
EXTENDS PlayerAuthority

CONSTANTS c1, c2

=======================================================================
