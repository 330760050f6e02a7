------------------------------- MODULE Routings -------------------------------
(***************************************************************************)
(* Routings, their rules and the import of templates: voya-app             *)
(* routing/manager.rs and presets.rs, and the repository they use.          *)
(*                                                                         *)
(* A command works on a copy of the configuration and one transaction under *)
(* the mutation lock; committing writes the configuration's active routing   *)
(* to the database, where a foreign key refuses one that is not there.       *)
(* Only an import has two steps: the template is downloaded and checked       *)
(* without the lock.                                                       *)
(***************************************************************************)
EXTENDS Naturals, FiniteSets, SequencesExt, Rows

CONSTANTS
    RoutingIds,     \* generated ids; NoRouting is the empty string
    NoRouting,
    RuleIds,
    BuiltinItems,   \* routings of the built-in template
    Templates,      \* external bundles: sequences of [url, rules, derived]
    MaxRoutings     \* bound: routings in the database

\* Generated ids are never empty and there are enough of them, the built-in
\* template has a routing, and a template is a list.
ASSUME RoutingsBounds ==
    /\ NoRouting \notin RoutingIds /\ IsFiniteSet(RoutingIds)
    /\ BuiltinItems \in Nat \ {0} /\ MaxRoutings \in 0 .. Cardinality(RoutingIds)
    /\ \A template \in Templates : template \in Seq(ToSet(template))

VARIABLES
    routings,       \* routing_items by sort and id: [id, builtin, rules]
    stored,         \* app_state.active_routing_id
    chosen,         \* config.routing_index_id
    imports         \* PreparedRoutingTemplate values not applied yet

routingsVars == <<routings, stored, chosen, imports>>

RoutingsInit ==
    /\ routings = <<>>
    /\ stored = NoRouting
    /\ chosen = NoRouting
    /\ imports = {}

-----------------------------------------------------------------------------
(* Operators on a transaction [rows, stored, chosen].                       *)

RoutingSet(rows) == {rows[i].id : i \in DOMAIN rows}
RoutingAt(rows, id) == CHOOSE i \in DOMAIN rows : rows[i].id = id
NewRoutingIds == RoutingIds \ RoutingSet(routings)

Current == [rows |-> routings, stored |-> stored, chosen |-> chosen]

\* RoutingRepository::set_active with the configuration's field.
Activated(tx, id) == [tx EXCEPT !.stored = id, !.chosen = id]

\* ensure_active_routing: the stored one, else the configured one when it is
\* there, else the first, else none.
EnsureActiveRouting(tx) ==
    IF tx.stored # NoRouting THEN Activated(tx, tx.stored)
    ELSE IF tx.chosen \in RoutingSet(tx.rows) THEN Activated(tx, tx.chosen)
    ELSE IF tx.rows # <<>> THEN Activated(tx, tx.rows[1].id)
    ELSE Activated(tx, NoRouting)

\* delete_many; the foreign key clears an active routing that goes.
Mut_DeleteRows(tx, ids) ==
    EnsureActiveRouting([tx EXCEPT
        !.rows = RowsIn(tx.rows, {r \in ToSet(tx.rows) : r.id \notin ids})])

DeleteRows(tx, ids) ==
    LET left == [tx EXCEPT
            !.rows = RowsIn(tx.rows, {r \in ToSet(tx.rows) : r.id \notin ids}),
            !.stored = IF tx.stored \in ids THEN NoRouting ELSE tx.stored]
    IN  EnsureActiveRouting(left)

\* ConfigMutation::commit; what the foreign key refuses is rolled back.
Committable(tx) == tx.chosen \in RoutingSet(tx.rows) \cup {NoRouting}
CommitRoutings(tx) ==
    IF Committable(tx)
    THEN routings' = tx.rows /\ stored' = tx.chosen /\ chosen' = tx.chosen
    ELSE UNCHANGED <<routings, stored, chosen>>

-----------------------------------------------------------------------------
(* Commands.                                                                *)

\* save_routing: a row takes the place its sort gives it, a new one without a
\* sort the last; it becomes active when it was, or when none is.
SaveRouting(item, place) ==
    LET others == RowsIn(routings, {r \in ToSet(routings) : r.id # item.id})
        saved == [Current EXCEPT !.rows = InsertAt(others, place, item)]
    IN  /\ item.id \in RoutingSet(routings) \/ Len(routings) < MaxRoutings
        /\ CommitRoutings(EnsureActiveRouting(
              IF stored \in {item.id, NoRouting} THEN Activated(saved, item.id) ELSE saved))
        /\ UNCHANGED imports

DeleteRoutings(ids) ==
    /\ CommitRoutings(DeleteRows(Current, ids))
    /\ UNCHANGED imports

\* set_active_routing fails when the routing is not there.
SetActiveRouting(id) ==
    /\ id \in RoutingSet(routings)
    /\ CommitRoutings(Activated(Current, id))
    /\ UNCHANGED imports

WithRules(id, rules) ==
    /\ CommitRoutings([Current EXCEPT !.rows[RoutingAt(routings, id)].rules = rules])
    /\ UNCHANGED imports
RulesOf(id) == routings[RoutingAt(routings, id)].rules

\* save_rule replaces the rule with its id or appends it: the list of ids
\* changes only for a new rule.
SaveRule(id, rule) ==
    LET rules == RulesOf(id)
    IN  WithRules(id, IF rule \in ToSet(rules) THEN rules ELSE Append(rules, rule))

\* delete_rules fails when it finds none of the rules.
DeleteRules(id, ids) ==
    /\ ids \cap ToSet(RulesOf(id)) # {}
    /\ WithRules(id, SelectSeq(RulesOf(id), LAMBDA r : r \notin ids))

\* moved_index, counting from 0: before which rule the moved one goes.
MovedIndex(index, count, action, position) ==
    CASE action = "Top"      -> 0
      [] action = "Up"       -> IF index = 0 THEN 0 ELSE index - 1
      [] action = "Down"     -> IF index + 2 < count THEN index + 2 ELSE count
      [] action = "Bottom"   -> count
      [] action = "Position" -> IF position < count THEN position ELSE count

\* move_rule takes the rule out and inserts it: what follows it has moved up.
Mut_Moved(rules, index, action, position) ==
    LET next == MovedIndex(index, Len(rules), action, position)
        place == IF next > Len(rules) - 1 THEN Len(rules) - 1 ELSE next
    IN  IF next = index THEN rules
        ELSE InsertAt(RemoveAt(rules, index + 1), place + 1, rules[index + 1])

Moved(rules, index, action, position) ==
    LET next == MovedIndex(index, Len(rules), action, position)
        place == IF next > index THEN next - 1 ELSE next
    IN  IF next = index THEN rules
        ELSE InsertAt(RemoveAt(rules, index + 1), place + 1, rules[index + 1])

MoveActions == {"Top", "Up", "Down", "Bottom", "Position"}

MoveRule(id, index, action, position) ==
    /\ index < Len(RulesOf(id))
    /\ WithRules(id, Moved(RulesOf(id), index, action, position))

-----------------------------------------------------------------------------
(* Templates.                                                               *)

\* parse_routing_template and prepare_external_config_template: every routing
\* has rules of its own, no address to fetch them from and no derived state;
\* otherwise there is nothing to apply.
TemplateIsValid(template) ==
    /\ template # <<>>
    /\ \A i \in DOMAIN template :
          template[i].rules # <<>> /\ ~template[i].url /\ ~template[i].derived

PrepareImport(template) ==
    /\ TemplateIsValid(template)
    /\ imports' = imports \cup {[builtin |-> FALSE, items |-> [i \in DOMAIN template |->
                                   [builtin |-> FALSE, rules |-> template[i].rules]]]}
    /\ UNCHANGED <<routings, stored, chosen>>

\* prepare_builtin_config_template.
PrepareBuiltin ==
    /\ imports' = imports \cup {[builtin |-> TRUE, items |-> [i \in 1 .. BuiltinItems |->
                                   [builtin |-> TRUE, rules |-> <<>>]]]}
    /\ UNCHANGED <<routings, stored, chosen>>

Mut_AppliedTemplate(prepared, ids) ==
    LET items == [i \in DOMAIN prepared.items |->
                    [id |-> ids[i], builtin |-> prepared.items[i].builtin,
                     rules |-> prepared.items[i].rules]]
    IN  Activated([Current EXCEPT !.rows = routings \o items], ids[1])

\* apply_prepared_config_template: of the built-in template the routing that is
\* there is used again; other routings are appended, the first made active.
AppliedTemplate(prepared, ids) ==
    LET known == RowsIn(routings, {r \in ToSet(routings) : r.builtin})
        items == [i \in DOMAIN prepared.items |->
                    [id |-> ids[i], builtin |-> prepared.items[i].builtin,
                     rules |-> prepared.items[i].rules]]
    IN  IF prepared.builtin /\ known # <<>> THEN Activated(Current, known[1].id)
        ELSE Activated([Current EXCEPT !.rows = routings \o items], ids[1])

ApplyImport(prepared) ==
    /\ Len(routings) + Len(prepared.items) <= MaxRoutings
    /\ \E ids \in SetToSeqs(NewRoutingIds) :
          CommitRoutings(AppliedTemplate(prepared, ids))
    /\ imports' = imports \ {prepared}

RoutingsNext ==
    \/ \E id \in RoutingSet(routings) \cup NewRoutingIds, builtin \in BOOLEAN,
          rules \in {<<>>} \cup {<<r>> : r \in RuleIds} :
          /\ id \in NewRoutingIds => ~builtin
          /\ id \in RoutingSet(routings) =>
                /\ rules = <<>>
                /\ builtin => routings[RoutingAt(routings, id)].builtin
          /\ \E place \in 1 .. Cardinality(RoutingSet(routings) \ {id}) + 1 :
                SaveRouting([id |-> id, builtin |-> builtin, rules |-> rules], place)
    \/ \E ids \in SUBSET RoutingSet(routings) : DeleteRoutings(ids)
    \/ \E id \in RoutingSet(routings) : SetActiveRouting(id)
    \/ \E id \in RoutingSet(routings), rule \in RuleIds : SaveRule(id, rule)
    \/ \E id \in RoutingSet(routings), ids \in SUBSET RuleIds : DeleteRules(id, ids)
    \/ \E id \in RoutingSet(routings) : \E index \in 0 .. Len(RulesOf(id)) - 1 :
          \/ \E action \in MoveActions \ {"Position"} : MoveRule(id, index, action, 0)
          \/ \E position \in 0 .. Cardinality(RuleIds) :
                MoveRule(id, index, "Position", position)
    \/ \E template \in Templates : PrepareImport(template)
    \/ PrepareBuiltin
    \/ \E prepared \in imports : ApplyImport(prepared)

RoutingsSpec == RoutingsInit /\ [][RoutingsNext]_routingsVars

-----------------------------------------------------------------------------
(* Properties.                                                              *)

\* One routing is active whenever there is any, and the configuration and the
\* database agree on it: a core is never generated with the rules of a routing
\* that is gone, and no deletion is refused for one.
OneRoutingIsActive ==
    /\ stored = chosen
    /\ IF routings = <<>> THEN chosen = NoRouting
       ELSE chosen \in RoutingSet(routings)
    /\ \A ids \in SUBSET RoutingSet(routings) : Committable(DeleteRows(Current, ids))

\* Importing the built-in template again, even when two imports were prepared
\* before either was applied, adds it no second time.
BuiltinTemplateOnce ==
    Cardinality({i \in DOMAIN routings : routings[i].builtin}) <= BuiltinItems

\* A moved rule lands between the rules it was moved between, and the others
\* keep their order: rules are tried in order, so a wrong place is a wrong route.
MovesOneRule(rules) ==
    \A i \in DOMAIN rules, action \in MoveActions, position \in 0 .. Len(rules) + 1 :
        LET moved == Moved(rules, i - 1, action, position)
            landed == CHOOSE j \in DOMAIN rules : moved[j] = rules[i]
            others == RemoveAt(rules, i)
        IN  /\ RemoveAt(moved, landed) = others
            /\ CASE action = "Top"    -> landed = 1
                 [] action = "Bottom" -> landed = Len(rules)
                 [] action = "Up"     -> landed = IF i = 1 THEN 1 ELSE i - 1
                 [] action = "Down"   -> landed = IF i = Len(rules) THEN i ELSE i + 1
                 [] action = "Position" ->
                        position < Len(rules) /\ position # i - 1 =>
                            landed < Len(rules) /\ moved[landed + 1] = rules[position + 1]
=============================================================================
