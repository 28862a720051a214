-------------------------- MODULE MCSideEffectWalk --------------------------
(* Small instances of SideEffectWalk. *)
EXTENDS SideEffectWalk

CONSTANTS C, U, SS, S

\* Every way a component, a unit, a subsection and a section can be nested.
Nestings ==
    {g \in [Entities -> SUBSET Entities] :
        /\ g[C] = {} /\ g[U] \subseteq {C}
        /\ g[SS] \subseteq {C, U} /\ g[S] \subseteq {C, U, SS}}

\* Every relation of three entities, cyclic ones included.
Cycles ==
    {g \in [Entities -> SUBSET {C, U, SS}] : g[S] = {}}

NestingsAndCycles == Nestings \cup Cycles
=============================================================================
