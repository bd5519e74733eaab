-------------------------- MODULE MCNativeSaveStore --------------------------
(* Instances of NativeSaveStore for TLC. *)
EXTENDS NativeSaveStore, TLC

\* Values carry no order and no property names one.
Symmetry == Permutations(Values) \union Permutations(TxIds)
              \union Permutations(Commands)

=============================================================================
