----------------------------- MODULE MCRouteStore -----------------------------
EXTENDS RouteStore

MCDevice == <<[id |-> "p1", name |-> "Berlin"], [id |-> "p2", name |-> ""],
              [id |-> "p3", name |-> "Berlin"], [id |-> "p4", name |-> "direct"]>>

Custom(f) == [NewRule EXCEPT !.name = "mine", !.f = f]
Simple(kind, target, f) == [CleanRule(<<kind, target>>) EXCEPT !.f = f]
ValueFor(k) == IF k \in Lists THEN <<k \o " a", k \o " b">> ELSE IF k \in RuleFlags THEN "true" ELSE k \o " a"
ToMarket == Custom("domain" :> <<"example.org">>)

\* One rule per attribute, per action and attribute, per outbound, per simple type,
\* and pairs that one editor box shows together.
OfAttribute == {<<Custom(k :> ValueFor(k))>> : k \in Attributes}
OfActions ==
  {<<[Custom(k :> ValueFor(k)) EXCEPT !.action = a]>> :
     a \in {"reject", "hijack-dns", "route-options", "sniff", "resolve"}, k \in {"port", "method", "override_address", "strategy", "domain"}}
OfOutbounds ==
  {<<[ToMarket EXCEPT !.outbound = o]>> :
     o \in {"proxy", "block", "hijack", "warp-bypass", "p1", "p2", "p3", "p4", "gone"}}
OfSimple ==
  {<<Simple(kind, t, k :> ValueFor(k))>> :
     t \in Targets, kind \in {"address", "processName", "processPath"}, k \in {"domain", "ip_cidr", "rule_set", "process_name", "process_path", "port"}}
Pairs ==
  {<<ToMarket, Simple("address", "Block", "domain" :> <<"a", "b">>),
     Simple("address", "Proxy", [domain |-> <<"c">>, ip_cidr |-> <<"d">>]), [ToMarket EXCEPT !.name = ""]>>,
   <<Simple("address", "Block", "domain" :> <<"a">>), Simple("address", "Block", "domain" :> <<"b">>)>>,
   <<ToMarket, ToMarket, Custom(Nothing)>>,
   <<Simple("address", "Block", [domain |-> <<"a">>, port |-> <<"25">>])>>,
   <<Simple("address", "Block", "domain" :> <<"a", "b", "a">>)>>,
   <<[Simple("address", "Block", "domain" :> <<"a">>) EXCEPT !.outbound = "proxy"]>>}
Rich == OfAttribute \cup OfActions \cup OfOutbounds \cup OfSimple \cup Pairs

Profile(id, rules) == [NewProfile EXCEPT !.id = id, !.name = "profile " \o ToString(id), !.rules = rules]
Remote(id, url, auto) == [Profile(id, <<ToMarket>>) EXCEPT !.remote = TRUE, !.url = url, !.auto = auto]
Store(list, steps) == [rows |-> list, budget |-> steps]
MCStores ==
  {Store(<<Profile(1, rules)>>, 0) : rules \in Rich}
  \cup {Store(<<Profile(1, <<ToMarket>>), Remote(2, "u1", TRUE)>>, 2)}

Doc(name, rules) == ToShareObject(MCDevice, [NewProfile EXCEPT !.name = name, !.rules = rules])
RawDoc == [kind |-> "profile", raw |-> TRUE, name |-> "raw", prevent |-> TRUE, route |-> <<"direct">>, names |-> Nothing]
MCUrls == {"u1", "u2"}
MCRemoteLinks == {[name |-> "host of u1", url |-> "u1", auto |-> FALSE]}
MCServed == [u1 |-> {Doc("served", <<[ToMarket EXCEPT !.outbound = "p1"]>>), RawDoc}, u2 |-> {}]
MCLines == {"ads.example"}
MCLinks == {Doc("", <<ToMarket>>), RawDoc,
            [kind |-> "array", rules |-> <<to_share_json(MCDevice, [ToMarket EXCEPT !.name = ""])>>]}
===============================================================================
