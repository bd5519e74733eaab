----------------------- MODULE MCReleaseSwitch -----------------------
(* Instances of ReleaseSwitch for TLC. *)
EXTENDS ReleaseSwitch

CONSTANTS w1, g1

\* The first release runs on the legacy unit, or it was installed by a switch.
OnLegacy == [web |-> "w1", api |-> "a1", port |-> "legacy", unit |-> "legacy"]
OnActive == [web |-> "w1", api |-> "a1", port |-> "blue", unit |-> "active"]

\* A new web and API release together, and a new web release alone.
BothTargets == {[web |-> "w2", api |-> "a2"]}
AllTargets  == BothTargets \union {[web |-> "w2", api |-> "a1"]}

=======================================================================
