------------------------------- MODULE MCLive -------------------------------
(* Symmetry for the runs of Live.                                          *)
EXTENDS Live, TLC

Symmetric == Permutations(Rtmp) \cup Permutations(Http)
             \cup Permutations(Names) \cup Permutations(Streams)

=============================================================================
