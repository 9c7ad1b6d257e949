--------------------------- MODULE MCUrlShortner ---------------------------
(* TLC instance of UrlShortner.                                            *)
EXTENDS UrlShortner, TLC

Symmetry == Permutations(Clients) \cup Permutations(Sites)
=============================================================================
