---------------------------- MODULE GroupValidation ----------------------------
(***************************************************************************)
(* What a group passes before it is saved: voya-core groups.rs.             *)
(***************************************************************************)
EXTENDS ConfigContext

\* effective_child_ids: the selected children that exist, then the profiles of
\* the subscription; reported apart from the ones that are missing.
EffectiveChildren(g) ==
    LET simple == {n \in Leaves : Leaf[n].type # "custom"}
    IN  Distinct(RowsIn(catalog[g].selected, NodeIds) \o
                 (IF catalog[g].source THEN RowsIn(SubLeaves, simple) ELSE <<>>))

Mut_FindsCycle(n, visiting) ==
    \/ n \in visiting
    \/ /\ n \in Groups
       /\ \E i \in DOMAIN EffectiveChildren(n) :
             EffectiveChildren(n)[i] \in visiting \cup {n}

\* detect_cycle: whether the walk below n comes back to a group it is in.
FindsCycle(n, visiting) ==
    LET finds[path \in SUBSET Groups] == [m \in NodeIds |->
            \/ m \in path
            \/ /\ m \in Groups
               /\ \E i \in DOMAIN EffectiveChildren(m) :
                     finds[path \cup {m}][EffectiveChildren(m)[i]]]
    IN  finds[visiting][n]

\* validate_group_profile.
GroupIsValid(g) ==
    /\ ToSet(catalog[g].selected) \subseteq NodeIds
    /\ EffectiveChildren(g) # <<>>
    /\ ~FindsCycle(g, {})

-----------------------------------------------------------------------------
(* Properties.                                                              *)

\* The groups below g, however deep: no more than contain those of each.
GroupsUnder(n) == IF n \in Groups THEN ToSet(EffectiveChildren(n)) \cap Groups ELSE {}
BelowWith(under, g) ==
    {h \in Groups : \A found \in SUBSET Groups :
        (under[g] \subseteq found /\ \A k \in found : under[k] \subseteq found)
            => h \in found}
Below(g) == BelowWith([k \in NodeIds |-> GroupsUnder(k)], g)

\* A group is refused for a cycle exactly when one is reachable from it: groups
\* saved one by one have none (groups.rs, detect_cycle).
ValidationFindsCycles ==
    epoch = 0 => \A g \in Groups :
        FindsCycle(g, {}) <=> \E h \in {g} \cup Below(g) : h \in Below(h)

\* Whatever groups are stored: those that may be saved have no cycle, those that
\* are resolved all the same are in a map without one, and no usable server is
\* missing in it (context.rs, groups.rs).
GroupsAreResolved ==
    ProxiesAreClosedAndAcyclic /\ NoServerIsMissing /\ ValidationFindsCycles
=============================================================================
