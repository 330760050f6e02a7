------------------------------- MODULE Profiles -------------------------------
(***************************************************************************)
(* Profiles and subscriptions: voya-app profiles/manager.rs,               *)
(* subscriptions/manager.rs and the repositories they use.                  *)
(*                                                                         *)
(* A command changes the rows and the configuration in one transaction      *)
(* under the mutation lock, so it is one step; a failure rolls all of it    *)
(* back.  Only an update of subscriptions has two: it reads the list and    *)
(* downloads without the lock, and imports what it got under it.            *)
(* A key stands for what profile_items_match compares.                      *)
(***************************************************************************)
EXTENDS Naturals, FiniteSets, SequencesExt, Rows

CONSTANTS
    ProfileIds,     \* generated ids; NoId is the empty string
    NoId,
    Keys,
    ComplexKeys,    \* groups and chains: no port, never duplicates
    Subs,
    NoSub,
    MaxRows,        \* bound: profiles in the database
    ListIds         \* bound: profiles of the lists that are moved and sorted

\* Generated ids are never empty, and what is imported is finite.
ASSUME ProfilesBounds ==
    /\ NoId \notin ProfileIds /\ IsFiniteSet(ProfileIds)
    /\ NoSub \notin Subs /\ IsFiniteSet(Subs) /\ IsFiniteSet(Keys)

\* A subscription's row: absent, enabled or disabled.
SubItems == {"absent", "on", "off"}

VARIABLES
    rows,           \* profile_items by sort and id: [id, key, sub]
    indexId,        \* config.index_id
    subItem,        \* [Subs -> SubItems]
    subIndexId,     \* config.sub_index_id: the subscription that is shown
    prepared        \* PreparedSubscriptionUpdate: [sub, item, content]

profilesVars == <<rows, indexId, subItem, subIndexId, prepared>>

ProfilesInit ==
    /\ rows = <<>>
    /\ indexId = NoId
    /\ subItem = [s \in Subs |-> "absent"]
    /\ subIndexId = NoSub
    /\ prepared = {}

-----------------------------------------------------------------------------
(* Operators on a catalogue [rows, active].                                 *)

RowIds(table) == {table[i].id : i \in DOMAIN table}
RowOf(table, id) == table[CHOOSE i \in DOMAIN table : table[i].id = id]
SubscriptionRows(sub) == RowsIn(rows, {r \in ToSet(rows) : sub \in {NoSub, r.sub}})
Without(table, ids) == RowsIn(table, {r \in ToSet(table) : r.id \notin ids})
FreshIds(table) == ProfileIds \ RowIds(table)

\* ensure_active_profile must not keep one that is gone.
Mut_EnsureActive(table, active) ==
    IF active # NoId THEN active ELSE IF table = <<>> THEN NoId ELSE table[1].id

\* ensure_active_profile: an active profile that exists stays; otherwise the
\* first with a port, or the first of all.
EnsureActive(table, active) ==
    IF active \in RowIds(table) THEN active
    ELSE IF table = <<>> THEN NoId
    ELSE LET ported == RowsIn(table, {r \in ToSet(table) : r.key \notin ComplexKeys})
         IN  IF ported # <<>> THEN ported[1].id ELSE table[1].id

Catalogue(table, active) == [rows |-> table, active |-> EnsureActive(table, active)]

\* save_profile: a new profile is sorted last, a known one keeps its place.
SaveProfile(cat, row) ==
    LET table == IF row.id \in RowIds(cat.rows)
                 THEN [i \in DOMAIN cat.rows |->
                         IF cat.rows[i].id = row.id THEN row ELSE cat.rows[i]]
                 ELSE Append(cat.rows, row)
    IN  Catalogue(table, cat.active)

\* choose_canonical_match_index: the active profile, then one of the target
\* subscription, then the first.
CanonicalMatch(table, matches, active, sub) ==
    LET rank(r) == (IF r.id = active THEN 0 ELSE 2)
                   + (IF sub # NoSub /\ r.sub = sub THEN 0 ELSE 1)
        best == {i \in DOMAIN table : table[i].id \in matches
                    /\ \A j \in DOMAIN table : table[j].id \in matches =>
                          rank(table[i]) <= rank(table[j])}
    IN  table[CHOOSE i \in best : \A j \in best : i <= j].id

\* One profile of an import: it takes the place of its canonical match, and
\* the other matches are to be removed.
ImportProfile(acc, key) ==
    LET cached == Without(acc.cat.rows, acc.duplicates)
        matches == {r.id : r \in {x \in ToSet(cached) : x.key = key}}
    IN  IF matches = {}
        THEN LET id == CHOOSE i \in FreshIds(acc.cat.rows) : TRUE
             IN  [acc EXCEPT
                    !.cat = SaveProfile(@, [id |-> id, key |-> key, sub |-> acc.sub]),
                    !.imported = @ \cup {id}]
        ELSE LET id == CanonicalMatch(cached, matches, acc.cat.active, acc.sub)
             IN  [acc EXCEPT
                    !.cat = SaveProfile(@, [id |-> id, key |-> key, sub |-> acc.sub]),
                    !.imported = @ \cup {id},
                    !.duplicates = @ \cup (matches \ {id})]

\* The end of import_profiles_from_text: the duplicates go, and what the
\* subscription had and the import did not bring.
Mut_FinishImport(acc, old) ==
    LET stale == {r.id : r \in {x \in ToSet(old) : acc.sub # NoSub}} \ acc.imported
    IN  Catalogue(Without(acc.cat.rows, stale), acc.cat.active)

FinishImport(acc, old) ==
    LET stale == {r.id : r \in {x \in ToSet(old) : acc.sub # NoSub
                                                  /\ x.sub = acc.sub}}
                 \ acc.imported
    IN  Catalogue(Without(acc.cat.rows, acc.duplicates \cup stale), acc.cat.active)

\* import_profiles_from_text with the profiles left by the filter and by
\* dedupe_profiles; nothing left changes nothing.
ImportText(cat, content, sub) ==
    IF content = {} THEN Catalogue(cat.rows, cat.active)
    ELSE LET old == RowsIn(cat.rows, {r \in ToSet(cat.rows) : sub # NoSub /\ r.sub = sub})
             list == SetToSeq(content)
             acc[i \in 0 .. Len(list)] ==
                 IF i = 0
                 THEN [cat |-> cat, sub |-> sub, imported |-> {}, duplicates |-> {}]
                 ELSE ImportProfile(acc[i - 1], list[i])
         IN  FinishImport(acc[Len(list)], old)

\* dedupe_profiles: of equal profiles the first is kept, or the last.
Duplicates(table, keepOlder) ==
    {table[i].id : i \in {x \in DOMAIN table :
        /\ table[x].key \notin ComplexKeys
        /\ \E y \in DOMAIN table : table[y].key = table[x].key
                                  /\ IF keepOlder THEN y < x ELSE x < y}}

-----------------------------------------------------------------------------
(* Commands.                                                                *)

Now == [rows |-> rows, active |-> indexId]
Becomes(cat) ==
    /\ Len(cat.rows) <= MaxRows
    /\ rows' = cat.rows
    /\ indexId' = cat.active
NoSubscriptionChange == UNCHANGED <<subItem, subIndexId, prepared>>

NewProfile ==
    /\ FreshIds(rows) # {}
    /\ \E key \in Keys :
          Becomes(SaveProfile(Now, [id |-> CHOOSE i \in FreshIds(rows) : TRUE,
                                    key |-> key, sub |-> NoSub]))
    /\ NoSubscriptionChange

EditProfile ==
    /\ \E i \in DOMAIN rows, key \in Keys :
          Becomes(SaveProfile(Now, [rows[i] EXCEPT !.key = key]))
    /\ NoSubscriptionChange

CopyProfile ==
    /\ FreshIds(rows) # {}
    /\ \E i \in DOMAIN rows :
          Becomes(SaveProfile(Now, [rows[i] EXCEPT
                                      !.id = CHOOSE j \in FreshIds(rows) : TRUE]))
    /\ NoSubscriptionChange

DeleteProfiles ==
    /\ \E ids \in SUBSET RowIds(rows) : Becomes(Catalogue(Without(rows, ids), indexId))
    /\ NoSubscriptionChange

SetActiveProfile ==
    /\ \E id \in RowIds(rows) : indexId' = id
    /\ UNCHANGED rows
    /\ NoSubscriptionChange

DedupeProfiles ==
    /\ \E sub \in Subs \cup {NoSub}, keepOlder \in BOOLEAN :
          Becomes(Catalogue(
              Without(rows, Duplicates(SubscriptionRows(sub), keepOlder)), indexId))
    /\ NoSubscriptionChange

\* add_subscription_from_url too: an import may name a new subscription.  The
\* first to be saved is shown.
SaveSubscription ==
    /\ \E s \in Subs, item \in SubItems \ {"absent"} :
          /\ subItem' = [subItem EXCEPT ![s] = item]
          /\ subIndexId' = IF subIndexId = NoSub THEN s ELSE subIndexId
    /\ UNCHANGED <<rows, indexId, prepared>>

\* The profiles of a subscription are removed with it; when it was shown,
\* the last that is left is, whichever that is in the user's order.
DeleteSubscription ==
    /\ \E s \in Subs :
          /\ subItem[s] # "absent"
          /\ subItem' = [subItem EXCEPT ![s] = "absent"]
          /\ LET left == {t \in Subs \ {s} : subItem[t] # "absent"}
             IN  subIndexId' \in IF subIndexId # s THEN {subIndexId}
                                ELSE IF left = {} THEN {NoSub} ELSE left
          /\ Becomes(Catalogue(RowsIn(rows, {r \in ToSet(rows) : r.sub # s}), indexId))
    /\ UNCHANGED prepared

\* Bound: what is new finds an id.
HasIdsFor(content) ==
    Cardinality(content \ {r.key : r \in ToSet(rows)}) + Len(rows) <= Cardinality(ProfileIds)

\* The text of a window: of a subscription that is there, or of none.
ImportFromText ==
    /\ \E sub \in {s \in Subs : subItem[s] # "absent"} \cup {NoSub},
          content \in SUBSET Keys :
          /\ HasIdsFor(content)
          /\ Becomes(ImportText(Now, content, sub))
    /\ NoSubscriptionChange

\* prepare_subscription_snapshot: the list as it is now, and what was fetched
\* for each that is enabled; a fetch that fails or is empty is left out.
PrepareUpdate ==
    /\ prepared = {}
    /\ \E fetched \in SUBSET {s \in Subs : subItem[s] = "on"} :
          \E content \in [fetched -> (SUBSET Keys) \ {{}}] :
             prepared' = {[sub |-> s, item |-> "on", content |-> content[s]] :
                             s \in fetched}
    /\ UNCHANGED <<rows, indexId, subItem, subIndexId>>

Mut_IsCurrent(p) == subItem[p.sub] # "absent"

\* Content for a subscription that changed meanwhile is discarded.
IsCurrent(p) == subItem[p.sub] = p.item

ApplyUpdate ==
    /\ prepared # {}
    /\ LET current == SetToSeq({p \in prepared : IsCurrent(p)})
           cat[i \in 0 .. Len(current)] ==
               IF i = 0 THEN Now
               ELSE ImportText(cat[i - 1], current[i].content, current[i].sub)
       IN  /\ HasIdsFor(UNION {p.content : p \in prepared})
           /\ Becomes(cat[Len(current)])
    /\ prepared' = {}
    /\ UNCHANGED <<subItem, subIndexId>>

\* An import that fails rolls back those before it.
UpdateFails ==
    /\ prepared # {}
    /\ prepared' = {}
    /\ UNCHANGED <<rows, indexId, subItem, subIndexId>>

\* A save of the settings and a start of the application make the configuration
\* anew, without the subscription that is shown.
SettingsLoaded ==
    /\ subIndexId' = NoSub
    /\ UNCHANGED <<rows, indexId, subItem, prepared>>

-----------------------------------------------------------------------------
(* The order of a list of profiles.  sort is profile_ex.sort of every        *)
(* profile, a list is what a window shows: all, or those of a subscription.  *)

SortStep == 10
ListedBy(ids, sort) ==
    SetToSortSeq(ids, LAMBDA a, b : \/ sort[a] < sort[b]
                                    \/ sort[a] = sort[b] /\ a < b)
PlaceIn(list, id) == CHOOSE i \in DOMAIN list : list[i] = id
Renumbered(list, sort) ==
    [id \in DOMAIN sort |-> IF id \in ToSet(list) THEN SortStep * PlaceIn(list, id)
                            ELSE sort[id]]

\* The sort of the moved profile; none when it is there already.
Mut_MovedSort(action, i, count, position) ==
    CASE action = "top" /\ i > 1         -> {SortStep - 1}
      [] action = "up" /\ i > 1          -> {SortStep * (i - 1) - 1}
      [] action = "down" /\ i < count    -> {SortStep * i + 1}
      [] action = "bottom" /\ i < count  -> {SortStep * count + 1}
      [] action = "position"             -> {SortStep * position + 1}
      [] OTHER                           -> {}

MovedSort(action, i, count, position) ==
    CASE action = "top" /\ i > 1         -> {SortStep - 1}
      [] action = "up" /\ i > 1          -> {SortStep * (i - 1) - 1}
      [] action = "down" /\ i < count    -> {SortStep * (i + 1) + 1}
      [] action = "bottom" /\ i < count  -> {SortStep * count + 1}
      [] action = "position"             -> {SortStep * position + 1}
      [] OTHER                           -> {}

MoveProfile(list, sort, id, action, position) ==
    LET numbered == Renumbered(list, sort)
        target == MovedSort(action, PlaceIn(list, id), Len(list), position)
    IN  IF target = {} THEN numbered
        ELSE [numbered EXCEPT ![id] = CHOOSE n \in target : TRUE]

\* sort_profile_pairs: a stable sort, reversed when it descends; a delay or
\* speed that was not measured (0) is last either way.
SortProfiles(list, key, ascending, measured) ==
    LET before(i, j) == \/ key[list[i]] < key[list[j]]
                        \/ key[list[i]] = key[list[j]] /\ i < j
        order == SetToSortSeq(DOMAIN list, before)
        up == [i \in DOMAIN list |-> list[order[i]]]
        way == IF ascending THEN up ELSE Reverse(up)
    IN  IF measured
        THEN SelectSeq(way, LAMBDA p : key[p] > 0) \o
             SelectSeq(way, LAMBDA p : key[p] = 0)
        ELSE way

ProfilesNext ==
    \/ NewProfile \/ EditProfile \/ CopyProfile \/ DeleteProfiles
    \/ SetActiveProfile \/ DedupeProfiles
    \/ SaveSubscription \/ DeleteSubscription
    \/ ImportFromText \/ PrepareUpdate \/ ApplyUpdate \/ UpdateFails
    \/ SettingsLoaded

ProfilesSpec == ProfilesInit /\ [][ProfilesNext]_profilesVars

-----------------------------------------------------------------------------
(* Properties.                                                              *)

KeysOf(table, sub) == {r.key : r \in {x \in ToSet(table) : x.sub = sub}}

\* Foreign keys of the configuration: an active profile whenever there is a
\* profile, and nothing that names what is gone, the subscription that is shown
\* included.
NothingDangles ==
    /\ indexId = NoId <=> rows = <<>>
    /\ indexId # NoId => indexId \in RowIds(rows)
    /\ \A i, j \in DOMAIN rows : rows[i].id = rows[j].id => i = j
    /\ \A i \in DOMAIN rows : rows[i].sub # NoSub => subItem[rows[i].sub] # "absent"
    /\ subIndexId # NoSub => subItem[subIndexId] # "absent"

\* An update of one subscription leaves it with exactly the profiles it
\* brought, once each; a subscription that changed while it was downloaded
\* keeps its own; profiles nothing was brought for stay; and the active
\* profile stays active when its like was brought or it was not touched.
UpdateReplaces ==
    (prepared' = {} /\ ApplyUpdate) =>
        \A p \in prepared :
            prepared = {p} =>
                IF subItem[p.sub] = p.item
                THEN /\ KeysOf(rows', p.sub) = p.content
                     /\ \A k \in p.content :
                          Cardinality({r \in ToSet(rows') : r.key = k}) = 1
                     /\ \A r \in ToSet(rows) :
                          (r.sub # p.sub /\ r.key \notin p.content) =>
                              r \in ToSet(rows')
                     /\ (rows # <<>> /\ (RowOf(rows, indexId).key \in p.content
                           \/ RowOf(rows, indexId).sub # p.sub)) =>
                              indexId' = indexId
                ELSE UNCHANGED <<rows, indexId>>

\* In whatever list a profile is moved, and whatever numbers the profiles
\* have, the others stay in their order, those of other lists among
\* themselves too, and the profile is where the action says.
MovesOneProfile ==
    \A sort \in [ListIds -> {0, 11, 20}], ids \in SUBSET ListIds :
        LET list == ListedBy(ids, sort)
        IN  \A id \in ids, position \in 0 .. Len(list),
               action \in {"top", "up", "down", "bottom", "position"} :
               LET moved == MoveProfile(list, sort, id, action, position)
                   new == ListedBy(ids, moved)
                   i == PlaceIn(list, id)
                   rest == ListIds \ ids
               IN  /\ SelectSeq(new, LAMBDA x : x # id)
                         = SelectSeq(list, LAMBDA x : x # id)
                   /\ ListedBy(rest, moved) = ListedBy(rest, sort)
                   /\ PlaceIn(new, id) =
                        CASE action = "top"    -> 1
                          [] action = "up"     -> IF i = 1 THEN 1 ELSE i - 1
                          [] action = "down"   -> IF i = Len(list) THEN i ELSE i + 1
                          [] action = "bottom" -> Len(list)
                          [] OTHER -> IF i <= position THEN position ELSE position + 1

\* A sorted list has the same profiles, in order, the unmeasured ones last.
SortsAllProfiles ==
    \A key \in [ListIds -> 0 .. 2], ascending, measured \in BOOLEAN :
        LET list == SetToSeq(ListIds)
            sorted == SortProfiles(list, key, ascending, measured)
        IN  /\ ToSet(sorted) = ListIds
            /\ Len(sorted) = Len(list)
            /\ \A i, j \in DOMAIN sorted : i < j =>
                  LET a == key[sorted[i]]
                      b == key[sorted[j]]
                  IN  IF measured /\ (a = 0 \/ b = 0) THEN b = 0
                      ELSE IF ascending THEN a <= b ELSE a >= b

\* The order of a window's list is what the user makes it.
OrdersAreKept == MovesOneProfile /\ SortsAllProfiles
=============================================================================
