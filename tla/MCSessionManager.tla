-------------------------- MODULE MCSessionManager --------------------------
(* Small instances of SessionManager for TLC.                              *)
EXTENDS SessionManager, TLC

\* Session ids, folders and clients are only compared with each other.
Symmetry == Permutations(Sessions) \cup Permutations(Folders) \cup Permutations(Clients)

=============================================================================
