---------------------------- MODULE MCCollections ----------------------------
(* Two collections and an entity of one learning package.                  *)
EXTENDS Collections, TLC

CONSTANTS e1, k1, k2, lp1, a1, a2

Table == e1 :> lp1 @@ k1 :> lp1 @@ k2 :> lp1
MCPackageOf == [x \in Entities \cup Codes |-> Table[x]]

\* Bounds: two unfinished calls, no transaction in the middle of another
\* process's call, at most one object that calls overlapped on, and neither a
\* transaction nor a queued task after that.
WithinBounds ==
    /\ Cardinality(Busy) <= 2
    /\ InTransaction => \A s \in DOMAIN calls : open.calls[s] = None
    /\ Cardinality(mixed) <= 1
    /\ InTransaction \/ tasks # << >> => mixed = {}

MCSymmetry == Permutations({k1, k2}) \cup Permutations({a1, a2})
==============================================================================
