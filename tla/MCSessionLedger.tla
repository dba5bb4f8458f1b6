--------------------------- MODULE MCSessionLedger ---------------------------
(* SessionLedger on small instances. *)
EXTENDS SessionLedger, TLC

\* Keys are interchangeable, and so are targets and stamps.
Symmetry == Permutations(Keys) \cup Permutations(Metas) \cup Permutations(Stamps)

=============================================================================
