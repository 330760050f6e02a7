--------------------------- MODULE MCConfigContext ---------------------------
(* A group with a subscription as the active profile.                       *)
EXTENDS GroupOutbounds, TLC

LeafDef == [n \in {"a", "b"} |->
               [type |-> "vmess", address |-> n, port |-> 443, network |-> "raw",
                credential |-> TRUE, method |-> TRUE]]
SubLeavesDef == <<"b">>
Policy(source, list) == [chain |-> FALSE, source |-> source, selected |-> list]
CatalogsDef ==
    {"g" :> Policy(s, l) @@ "h" :> Policy(FALSE, <<"a", "b">>) :
        s \in BOOLEAN, l \in {<<>>, <<"a">>, <<"h", "a">>}}
RootListsDef == {<<"g">>, <<"g", "h">>}
=============================================================================
