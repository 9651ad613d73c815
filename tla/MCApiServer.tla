---------------------------- MODULE MCApiServer ----------------------------
(* Small instances of ApiServer for TLC. *)
EXTENDS ApiServer, TLC

CONSTANTS t1, t2, u1, u2, a1, a2

\* Each item has a cover of its own.
MCCoverUrl == (t1 :> u1) @@ (t2 :> u2)

\* One item, with a cover.
OneCoverUrl == t1 :> u1

\* The items with their covers are alike, and so are the AirPlay connections.
Symmetry ==
  {p \in Permutations({t1, t2, u1, u2, a1, a2}) :
     /\ \A a \in {a1, a2} : p[a] \in {a1, a2}
     /\ \A t \in {t1, t2} : /\ p[t] \in {t1, t2}
                          /\ MCCoverUrl[p[t]] = p[MCCoverUrl[t]]}

=============================================================================
