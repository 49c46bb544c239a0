-------------------------- MODULE MCOpenClashPages --------------------------
(* Editor: a card with a backdrop filter inside a layered column inside a    *)
(* layered page that has a filter too.  Checker: two listed backends, one    *)
(* with a path and so with two candidates; the custom field may repeat a     *)
(* listed one without its scheme, be unusable or be empty.                   *)
EXTENDS OpenClashPages

MCAncestors == <<[filter |-> TRUE, layered |-> FALSE],
                 [filter |-> FALSE, layered |-> TRUE],
                 [filter |-> TRUE, layered |-> TRUE]>>
MCListed == {Address("https", "a", <<"x", "sub">>), Address("https", "b", <<"sub">>)}
MCTyped == {Empty, Broken, Address("none", "b", <<>>), Address("ftp", "a", <<>>)}
MCProxyURLs == BOOLEAN
=============================================================================
