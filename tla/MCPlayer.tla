------------------------------ MODULE MCPlayer ------------------------------
(* Two tracks, one of them explicit, of two positions each; three requests.  *)
EXTENDS Player

CONSTANTS t1, t2

MCTracks == {t1, t2}
MCExplicit == {t2}
=============================================================================
