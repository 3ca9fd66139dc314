------------------------------ MODULE MCFunction ------------------------------
(* An instance of FunctionReconcile for TLC: a build with a pinned image   *)
(* and one without a tag, and a webhook that may have a list of registries *)
(* and ban the latter.                                                     *)
EXTENDS FunctionReconcile

Api == [head |-> <<"ghcr.io/acme", "/api">>, tail |-> << >>]
AcmeOnly == <<"ghcr.io/acme">>
OneName == {Api}
OneEntry == {AcmeOnly}

Pinned == [source |-> "s1", image |-> [form |-> "string", name |-> Api, tag |-> "pinned"]]
Untagged == [source |-> "s2", image |-> [form |-> "string", name |-> Api, tag |-> ""]]
TwoBuilds == {Pinned, Untagged}
OneBuild == {Pinned}

Open == [registries |-> {}, ban_latest |-> FALSE, require_requests |-> FALSE]
Strict == [Open EXCEPT !.registries = {AcmeOnly}, !.ban_latest = TRUE]
TwoPolicies == {Open, Strict}
OpenOnly == {Open}
=============================================================================
