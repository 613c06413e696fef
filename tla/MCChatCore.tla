----------------------------- MODULE MCChatCore -----------------------------
(* Small instances of ChatCore for TLC.                                    *)
EXTENDS ChatCore, TLC

\* Session ids and requests are only compared with each other.
Symmetry == Permutations(Sessions) \cup Permutations(Requests)

=============================================================================
