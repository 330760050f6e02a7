---------------------------- MODULE ConfigContext ----------------------------
(***************************************************************************)
(* The context a sing-box configuration is generated from: voya-core        *)
(* context.rs, context/node_registration.rs and context/validation.rs.      *)
(*                                                                         *)
(* The builder registers the active profile, then the profile of each rule  *)
(* outbound, in one map of proxies.  A group is registered by a depth-first *)
(* walk over its children; each step of the machine is one child.           *)
(***************************************************************************)
EXTENDS Naturals, Sequences, FiniteSets, SequencesExt, Rows

CONSTANTS
    Groups,         \* ids of policy groups and proxy chains
    Leaf,           \* [ids of the other profiles -> the profile]
    SubLeaves,      \* the profiles of the subscription, in order
    Catalogs,       \* stored groups: [Groups -> [chain, source, selected]]
    RootLists       \* the active profile and those the rules name

Leaves == DOMAIN Leaf
NodeIds == Groups \cup Leaves

\* There are finitely many groups, an id is that of one profile, and what is stored in
\* order is a list.
ASSUME ContextBounds ==
    /\ Groups \cap Leaves = {} /\ IsFiniteSet(Groups)
    /\ SubLeaves \in Seq(Leaves)
    /\ \A saved \in Catalogs : \A g \in Groups :
          saved[g].selected \in Seq(ToSet(saved[g].selected))

-----------------------------------------------------------------------------
(* Profiles.                                                                *)

\* validate_node: what sing-box cannot run is an error.  A leaf is
\* [type, address, port, network, credential, method].
SingboxTypes == {"vmess", "vless", "shadowsocks", "trojan", "hysteria2", "tuic",
                 "anytls", "naive", "wireguard", "socks", "http"}
TransportTypes == {"vmess", "vless", "trojan", "shadowsocks"}

ValidNode(leaf) ==
    \/ leaf.type = "custom"
    \/ /\ leaf.address # "none"
       /\ leaf.port \in 1 .. 65535
       /\ leaf.network \notin {"kcp", "xhttp"}
       /\ leaf.type \in SingboxTypes
       /\ leaf.network # "raw" => leaf.type \in TransportTypes
       /\ leaf.type = "shadowsocks" => leaf.network \in {"raw", "ws"}
       /\ leaf.type \in {"vmess", "vless", "shadowsocks"} => leaf.credential
       /\ leaf.method     \* flow, cipher, reality key and final mask

\* singbox_can_build_leaf: a WireGuard profile is buildable with a public key.
Buildable(leaf) ==
    /\ leaf.type \in SingboxTypes
    /\ leaf.type = "wireguard" => leaf.credential

\* is_domain and push_domain_if_needed: an address, not a file name.
IsDomain(address) == address \notin {"none", "ip", "file"}

\* pre_socks_item: a TUN that needs a second core, or a custom profile whose
\* subscription names a port.
PreSocksItem(custom, tun, windows, port) ==
    \/ ~custom /\ tun /\ ~windows
    \/ custom /\ port \in 1 .. 65535

VARIABLES
    catalog,    \* [Groups -> [chain, source, selected]]
    roots,      \* what is registered: the active profile, then those of the rules
    epoch,      \* registrations begun
    clock,      \* insertions into the map
    stack,      \* frames [node, left, kept, error], innermost last
    visited,    \* global_visited
    proxies,    \* all_proxies_map: [NodeIds -> [epoch, at, kids]]
    protect,    \* protect_domain_list
    outcome     \* "building", "error", "built"

contextVars == <<catalog, roots, epoch, clock, stack, visited, proxies, protect,
                 outcome>>

Unregistered == [epoch |-> 0, at |-> 0, kids |-> <<>>]
Registered == {n \in NodeIds : proxies[n].epoch > 0}

ContextInit ==
    /\ catalog \in Catalogs
    /\ roots \in RootLists
    /\ epoch = 0
    /\ clock = 0
    /\ stack = <<>>
    /\ visited = {}
    /\ proxies = [n \in NodeIds |-> Unregistered]
    /\ protect = {}
    /\ outcome = "building"

\* group_child_profile_items: the subscription's simple and valid profiles
\* first, then the selected ones that exist.
GroupChildren(g) ==
    LET fits == {n \in Leaves : Leaf[n].type # "custom" /\ ValidNode(Leaf[n])}
    IN  (IF catalog[g].source THEN RowsIn(SubLeaves, fits) ELSE <<>>)
        \o RowsIn(catalog[g].selected, NodeIds)

-----------------------------------------------------------------------------
(* The walk.                                                                *)

Frame(g) == [node |-> g, left |-> GroupChildren(g), kept |-> <<>>, error |-> FALSE]
Ancestors == {stack[i].node : i \in DOMAIN stack}
Top == stack[Len(stack)]
Child == Head(Top.left)

Insert(n, kids) ==
    /\ clock' = clock + 1
    /\ proxies' = [proxies EXCEPT ![n] =
                      [epoch |-> epoch', at |-> clock', kids |-> kids]]

\* register_single_node.
RegisterLeaf(n) ==
    /\ Insert(n, <<>>)
    /\ protect' = IF IsDomain(Leaf[n].address) THEN protect \cup {Leaf[n].address}
                  ELSE protect

Keep(kept, n) == IF Contains(kept, n) THEN kept ELSE Append(kept, n)

\* A list without what it has before.
Distinct(list) ==
    LET kept[i \in 0 .. Len(list)] == IF i = 0 THEN <<>> ELSE Keep(kept[i - 1], list[i])
    IN  kept[Len(list)]

\* build: the active profile decides the result, the profile of a rule that
\* cannot be registered is only a warning.
Finished(ok) ==
    outcome' = IF ~ok /\ epoch' = 1 THEN "error"
               ELSE IF epoch' = Len(roots) THEN "built" ELSE "building"

\* resolve_node of a profile that is no group.
RegisterRootLeaf ==
    LET n == roots[epoch + 1]
    IN  /\ outcome = "building" /\ stack = <<>> /\ n \in Leaves
        /\ epoch' = epoch + 1
        /\ IF ValidNode(Leaf[n]) THEN RegisterLeaf(n)
           ELSE UNCHANGED <<clock, proxies, protect>>
        /\ Finished(ValidNode(Leaf[n]))
        /\ UNCHANGED <<catalog, roots, stack, visited>>

\* register_group_node.
BeginGroup ==
    LET n == roots[epoch + 1]
    IN  /\ outcome = "building" /\ stack = <<>> /\ n \in Groups
        /\ epoch' = epoch + 1
        /\ stack' = <<Frame(n)>>
        /\ visited' = {n}
        /\ UNCHANGED <<catalog, roots, clock, proxies, protect, outcome>>

Walking == stack # <<>> /\ Top.left # <<>>
ReplaceTop(frame) == stack' = [stack EXCEPT ![Len(stack)] = frame]

\* A child that is an ancestor is an error of its parent.
Mut_CutCycle ==
    /\ Walking /\ Child \in Ancestors
    /\ ReplaceTop([Top EXCEPT !.left = Tail(@), !.kept = Keep(@, Child)])
    /\ UNCHANGED <<catalog, roots, epoch, clock, visited, proxies, protect, outcome>>

CutCycle ==
    /\ Walking /\ Child \in Ancestors
    /\ ReplaceTop([Top EXCEPT !.left = Tail(@), !.error = TRUE])
    /\ UNCHANGED <<catalog, roots, epoch, clock, visited, proxies, protect, outcome>>

\* A child met before is kept, and not walked again.
KeepVisited ==
    /\ Walking /\ Child \notin Ancestors /\ Child \in visited
    /\ ReplaceTop([Top EXCEPT !.left = Tail(@), !.kept = Keep(@, Child)])
    /\ UNCHANGED <<catalog, roots, epoch, clock, visited, proxies, protect, outcome>>

WalkLeaf ==
    /\ Walking /\ Child \notin Ancestors \cup visited /\ Child \in Leaves
    /\ epoch' = epoch
    /\ IF ValidNode(Leaf[Child])
       THEN /\ RegisterLeaf(Child)
            /\ visited' = visited \cup {Child}
            /\ ReplaceTop([Top EXCEPT !.left = Tail(@), !.kept = Keep(@, Child)])
       ELSE /\ ReplaceTop([Top EXCEPT !.left = Tail(@), !.error = TRUE])
            /\ UNCHANGED <<clock, visited, proxies, protect>>
    /\ UNCHANGED <<catalog, roots, outcome>>

EnterGroup ==
    /\ Walking /\ Child \notin Ancestors \cup visited /\ Child \in Groups
    /\ stack' = Append(stack, Frame(Child))
    /\ UNCHANGED <<catalog, roots, epoch, clock, visited, proxies, protect, outcome>>

\* A group with a child that could be kept goes into the map, its errors are
\* warnings from then on; one with none is an error of its parent.
Mut_LeaveGroup ==
    LET n == Top.node
        ok == Top.kept # <<>> /\ ~Top.error
        parent == stack[Len(stack) - 1]
    IN  /\ stack # <<>> /\ Top.left = <<>>
        /\ epoch' = epoch
        /\ IF ok THEN Insert(n, Top.kept) ELSE UNCHANGED <<clock, proxies>>
        /\ IF Len(stack) = 1
           THEN /\ stack' = <<>> /\ UNCHANGED visited
                /\ Finished(ok)
           ELSE /\ stack' = Append(SubSeq(stack, 1, Len(stack) - 2),
                               IF ok THEN [parent EXCEPT !.left = Tail(@),
                                              !.kept = Keep(@, n)]
                               ELSE [parent EXCEPT !.left = Tail(@), !.error = TRUE])
                /\ visited' = IF ok THEN visited \cup {n} ELSE visited
                /\ UNCHANGED outcome
        /\ UNCHANGED <<catalog, roots, protect>>

LeaveGroup ==
    LET n == Top.node
        ok == Top.kept # <<>>
        parent == stack[Len(stack) - 1]
    IN  /\ stack # <<>> /\ Top.left = <<>>
        /\ epoch' = epoch
        /\ IF ok THEN Insert(n, Top.kept) ELSE UNCHANGED <<clock, proxies>>
        /\ IF Len(stack) = 1
           THEN /\ stack' = <<>> /\ UNCHANGED visited
                /\ Finished(ok)
           ELSE /\ stack' = Append(SubSeq(stack, 1, Len(stack) - 2),
                               IF ok THEN [parent EXCEPT !.left = Tail(@),
                                              !.kept = Keep(@, n)]
                               ELSE [parent EXCEPT !.left = Tail(@), !.error = TRUE])
                /\ visited' = IF ok THEN visited \cup {n} ELSE visited
                /\ UNCHANGED outcome
        /\ UNCHANGED <<catalog, roots, protect>>

ContextNext ==
    \/ RegisterRootLeaf
    \/ BeginGroup
    \/ CutCycle
    \/ KeepVisited
    \/ WalkLeaf
    \/ EnterGroup
    \/ LeaveGroup

ContextSpec == ContextInit /\ [][ContextNext]_contextVars

-----------------------------------------------------------------------------
(* Properties.                                                              *)

\* Every child of a registered group is registered itself, and was so in a
\* later registration or earlier in the same one: whatever cycles the stored
\* groups have, across all the rules the map of proxies has none.
ProxiesAreClosedAndAcyclic ==
    \A n \in Registered : \A i \in DOMAIN proxies[n].kids :
        LET c == proxies[proxies[n].kids[i]]
        IN  /\ c.epoch > 0
            /\ \/ c.epoch > proxies[n].epoch
               \/ c.epoch = proxies[n].epoch /\ c.at < proxies[n].at

\* The profiles traffic can leave through when those of without are left out: the
\* valid leaves and, no more than it takes, every group with such a child.
ValidLeaves(without) == {n \in Leaves \ without : ValidNode(Leaf[n])}
HasUsableChildren(children, without, usable) ==
    \A g \in Groups \ without :
        children[g] \cap (ValidLeaves(without) \cup usable) # {} => g \in usable
UsableWith(children, without) ==
    ValidLeaves(without) \cup
    {g \in Groups \ without : \A usable \in SUBSET Groups :
        HasUsableChildren(children, without, usable) => g \in usable}
ChildSets == [g \in Groups |-> ToSet(GroupChildren(g))]
Usable(without) == UsableWith(ChildSets, without)

\* After a registration the group it was for keeps exactly the children that
\* are usable without passing through it, and a registration puts nothing in
\* the map for a group without one: a cycle below costs no server.
GroupsKeepUsableChildren ==
    \A n \in Groups :
        (stack = <<>> /\ epoch > 0 /\ roots[epoch] = n) =>
            IF n \in Usable({})
            THEN ToSet(proxies[n].kids) = ToSet(GroupChildren(n)) \cap Usable({n})
            ELSE proxies[n].epoch = 0

\* A build fails exactly when the active profile is not usable.
BuildFailsForUnusable ==
    outcome # "building" => (outcome = "error" <=> roots[1] \notin Usable({}))

\* The map of proxies has all the outbounds are generated from (context.rs,
\* traverse_group_node): no usable server is missing, whatever cycles are stored.
NoServerIsMissing == GroupsKeepUsableChildren /\ BuildFailsForUnusable
=============================================================================
