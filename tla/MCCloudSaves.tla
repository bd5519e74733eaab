--------------------------- MODULE MCCloudSaves ----------------------------
(* Operations and contents are interchangeable. *)
EXTENDS CloudSaves, TLC

Symmetry == Permutations(Ops) \union Permutations(Contents)

\* generation only serves comparisons with the base of a mutation that runs.
View == <<asked, tries, sent, queued, reply, server, saves, rows, blobs, refs, faults,
          landed, {<<m.call, m.draft, generation - m.base>> : m \in mutation}>>
=============================================================================
