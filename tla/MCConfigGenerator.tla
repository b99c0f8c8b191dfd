--------------------------- MODULE MCConfigGenerator ---------------------------
EXTENDS ConfigGenerator

P(kind, domain) == [kind |-> kind, domain |-> domain, list |-> << >>]
Chain(list) == [kind |-> "chain", domain |-> "", list |-> list]

\* Every kind, chains for each order of the cores, one too many changes of core,
\* an empty one and one with the program at its end.
MCProfile ==
  [s1 |-> P("sing", "s1.example"), s2 |-> P("sing", ""), x1 |-> P("xray", "x1.example"),
   x2 |-> P("xray", ""), x3 |-> P("xray", "x3.example"), x4 |-> P("xray", "ts.net"), wg |-> P("endpoint", "wg.example"),
   ts |-> P("tailscale", ""), xc |-> P("extracore", ""), xf |-> P("xrayfull", ""),
   cf |-> P("full", ""),
   c1 |-> Chain(<<"s1", "s2">>), c2 |-> Chain(<<"x1", "x2">>), c3 |-> Chain(<<"s2", "x1", "s1">>),
   c4 |-> Chain(<<"x1", "s1", "x2">>), c5 |-> Chain(<< >>), c6 |-> Chain(<<"xc", "s1">>),
   c7 |-> Chain(<<"x2", "s2">>)]
MCMain == {"s1", "x1", "ts", "xc", "xf", "cf", "c1", "c2", "c3", "c4", "c5", "c6", "c7"}
MCHelpers == {"s2", "x3", "wg", "xc", "xf"}
MCDeletable == {"x1"}
MCBatches == {<<"s1", "x1", "c7">>, <<"c3", "s1">>, <<"x1", "xf", "c2">>, <<"c1", "c4">>, <<"c6", "cf", "c5", "x1">>}

R(action, outbound, sets, domains) ==
  [action |-> action, outbound |-> outbound, sets |-> sets, domains |-> domains]
Route(rules, final) == [rules |-> rules, final |-> final, raw |-> FALSE, prevent |-> FALSE, own |-> {}]
Raw(rules, final, prevent) ==
  [rules |-> rules, final |-> final, raw |-> TRUE, prevent |-> prevent, own |-> {"mine"}]
To1(o) == R("route", o, {}, {})

MCRoutes ==
  {Route(<< >>, "proxy"),
   Route(<<R("hijack-dns", "direct", {}, {}), R("route", "direct", {"geosite-cn"}, {"home.example"}),
           R("reject", "direct", {}, {}), R("route", "proxy", {}, {"x1.example"})>>, "direct"),
   Route(<<To1("x2"), To1("x3"), To1("x4")>>, "block"),
   Route(<<To1("c3"), To1("x1"), To1("s1")>>, "warp-bypass"),
   Route(<<To1("s1"), To1("c7"), To1("s1")>>, "proxy"),
   Route(<<R("route", "direct", {"nowhere"}, {})>>, "proxy"),
   Route(<<To1("c6")>>, "proxy"), Route(<<To1("block")>>, "proxy"),
   Raw(<<R("route", "x2", {"mine"}, {}), To1("c1")>>, "", FALSE),
   Raw(<<To1("x1")>>, "x1", TRUE)}

S(tun, interface, warp, fake, direct, hijack) ==
  [tun |-> tun, interface |-> interface, warp |-> warp, fake |-> fake, direct |-> direct,
   hijack |-> hijack, routing |-> TRUE, adblock |-> direct]
MCSettings ==
  {S(FALSE, "", FALSE, FALSE, FALSE, {}), S(TRUE, "", FALSE, FALSE, TRUE, {}),
   S(TRUE, "eth0", FALSE, TRUE, FALSE, {}), S(TRUE, "", TRUE, FALSE, FALSE, {"x3.example"}),
   S(FALSE, "eth0", TRUE, FALSE, TRUE, {})}
MCKnownSets == {"geosite-cn"}
===============================================================================
