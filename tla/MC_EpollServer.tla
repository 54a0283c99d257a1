--------------------------- MODULE MC_EpollServer ---------------------------
(* Small instances of EpollServer for TLC: two connections and as many       *)
(* descriptors as the cfg gives them.                                        *)
EXTENDS EpollServerInv, TLC

\* Sessions are interchangeable, and so are descriptors (safety runs only).
Symmetry == Permutations(Session) \cup Permutations(Socket)
=============================================================================
