---------------------------- MODULE ConfigGenerator ----------------------------
(* What a click on a profile or on "URL test" hands to the cores               *)
(* (generate.cpp): the hops of the profile, of its group and of the routing    *)
(* profile become outbounds of sing-box and of Xray, joined by tags inside a   *)
(* core and by SOCKS bridges between them.                                     *)
EXTENDS Integers, SequencesExt

CONSTANTS
  Profile,     \* id -> [kind, domain, list]: what the generator asks a profile
  Main,        \* the profiles the user starts and tests
  Helpers,     \* the profiles the user makes front or landing proxy
  Deletable,   \* the profiles the user may delete
  Routes,      \* routing profiles: [rules, final, raw, prevent, own]
  Settings,    \* [tun, interface, warp, fake, direct, hijack, routing, adblock]
  KnownSets,   \* names of ruleSetList
  Batches,     \* lists of profiles tested together
  WalkLimit,   \* bound: outbounds a connection is followed through
  None

Kinds == {"sing", "endpoint", "tailscale", "xray", "extracore", "xrayfull", "full", "chain"}
Predefined == {"proxy", "direct", "warp-bypass", "block"}

Empty == ""  \* a field left empty: no name, no interface, no outbound

Outbounds == DOMAIN Profile \cup Predefined \cup {Empty}
RoutingRule ==
  [action : STRING, outbound : Outbounds, sets : SUBSET STRING, domains : SUBSET STRING]

ASSUME ProfileAssumption ==
  /\ \A p \in DOMAIN Profile : Profile[p] \in [kind : Kinds, domain : STRING, list : Seq(DOMAIN Profile)]
  /\ Main \cup Helpers \cup Deletable \subseteq DOMAIN Profile
  /\ DOMAIN Profile \cap (Predefined \cup {"warp", "bridge", Empty, None}) = {}

ASSUME RoutesAssumption ==
  \A r \in Routes :
    /\ r \in [rules : Seq(RoutingRule), final : Outbounds, raw : BOOLEAN, prevent : BOOLEAN, own : SUBSET STRING]
    /\ ~r.raw => r.final \in Predefined
    /\ \A i \in DOMAIN r.rules : r.rules[i].action = "route" => r.rules[i].outbound # Empty

ASSUME SettingsAssumption ==
  /\ \A s \in Settings :
       /\ s \in [tun : BOOLEAN, interface : STRING, warp : BOOLEAN, fake : BOOLEAN, direct : BOOLEAN,
                 hijack : SUBSET STRING, routing : BOOLEAN, adblock : BOOLEAN]
       /\ "*" \notin s.hijack   \* "*" stands for every name
  /\ KnownSets \subseteq STRING /\ WalkLimit \in Nat

VARIABLES
  gone,        \* deleted profiles
  front, landing,   \* of the group all profiles belong to
  route,       \* the current routing profile
  settings,
  built,       \* what was last handed to the cores
  clicked      \* history: the profile started, or the batch tested

vars == <<gone, front, landing, route, settings, built, clicked>>

(* A tag is the list of the words and numbers its text is put together from;   *)
(* the empty list stands for no tag.                                           *)
Tag(prefix, n) == Append(prefix, n)
NoTag == << >>
Kind(id) == IF id = "warp" THEN "endpoint" ELSE Profile[id].kind
IsXray(id) == Kind(id) = "xray"
Opt(id) == IF id = None THEN << >> ELSE <<id>>
Whenever(guard, seq) == IF guard THEN seq ELSE << >>
Where(ids, P(_)) == {i \in DOMAIN ids : P(ids[i])}

(***************************************************************************)
(* Which lists of hops are accepted                                        *)
(***************************************************************************)
Transitions(ids) ==
  {i \in DOMAIN ids : IsXray(ids[i]) # (i > 1 /\ IsXray(ids[i - 1]))}

\* ids, in the order traffic passes them.
entIDListtoEntList(live, ids) ==
  LET of(kind) == Where(ids, LAMBDA id : Kind(id) = kind)
      terminal == of("extracore") \cup of("xrayfull")
  IN  /\ \A i \in DOMAIN ids : ids[i] \in live \cup {"warp"}
      /\ of("chain") = {} /\ of("full") = {}
      /\ terminal \subseteq {Len(ids)}
      /\ of("xrayfull") = {} \/ of("xray") = {}
      /\ Cardinality(Transitions(ids)) <= 2

(***************************************************************************)
(* One chain.  c is [ids, prefix, start, main, link, warp]; g, the context, *)
(* collects the outbounds of both cores and their bridges.  A bridge is     *)
(* known by its port.                                                       *)
(***************************************************************************)
(* Slip: the tail starts over where the hops before Xray did. *)
TailFromStart(c, initial) == c.start

TailStart(c, initial) == c.start + Len(initial)

buildSingboxChain(c, hops, start, first) ==
  [i \in DOMAIN hops |->
    LET next == IF i < Len(hops) /\ c.link THEN Tag(c.prefix, start + i) ELSE NoTag
        warpHop == first /\ c.warp
    IN  [tag |-> CASE warpHop /\ i = 2 -> <<"warp-bypass">>
                   [] first /\ c.main /\ i = 1 -> <<"proxy">>
                   [] OTHER -> Tag(c.prefix, start + i - 1),
         hop |-> hops[i].hop, port |-> hops[i].port,
         detour |-> IF warpHop /\ i = 1 THEN <<"warp-bypass">> ELSE next]]

(* Slip: the first hop is bound; it opens no socket of its own.                *)
BindsFirst(i, n) == i = 1

BindsHop(i, n) == i = n

(* leave is how the last hop leaves Xray: [by, port].                          *)
buildXrayChain(c, xs, leave, interface) ==
  LET bridge == leave.by \in {"bridge", "loopback"}
      hop(i) ==
        [tag |-> IF c.main /\ i = 1 THEN <<"proxy">> ELSE Tag(c.prefix, c.start + i - 1),
         hop |-> xs[i], port |-> 0,
         via |-> IF (i < Len(xs) /\ c.link) \/ bridge THEN Tag(c.prefix, c.start + i) ELSE NoTag,
         bind |-> IF leave.by = "interface" /\ BindsHop(i, Len(xs)) THEN interface ELSE Empty]
      socks == [tag |-> Tag(c.prefix, c.start + Len(xs)), hop |-> "bridge", port |-> leave.port,
                via |-> NoTag, bind |-> Empty]
  IN  [i \in DOMAIN xs |-> hop(i)] \o (IF bridge THEN <<socks>> ELSE << >>)

(* Slip: the start of the main way is not named "proxy".                       *)
watchNumber(c, tail) == IF tail # << >> THEN tail[1].tag ELSE Tag(c.prefix, c.start)

\* tail: the outbounds after Xray.
watchTag(c, tail) ==
  CASE tail # << >> -> tail[1].tag
    [] tail = << >> /\ c.main -> <<"proxy">>
    [] OTHER -> Tag(c.prefix, c.start)

Refuse(g) == [g EXCEPT !.error = TRUE]

(* A user's whole Xray configuration, with a bridge as its first inbound.      *)
UserXray(port) ==
  [inbounds |-> <<[tag |-> <<"freelink-bridge">>, port |-> port]>>,
   outbounds |-> <<[tag |-> <<"user">>, hop |-> "bridge", port |-> 0, via |-> NoTag, bind |-> Empty]>>,
   rules |-> << >>]

(* The hops before, in and behind Xray: an accepted list enters it once.       *)
xrayAt(ids) == Where(ids, IsXray)
initialSingEnts(ids) == IF xrayAt(ids) = {} THEN ids ELSE SubSeq(ids, 1, Min(xrayAt(ids)) - 1)
xrayEnts(ids) == IF xrayAt(ids) = {} THEN << >> ELSE SubSeq(ids, Min(xrayAt(ids)), Max(xrayAt(ids)))
tailingSingEnts(ids) == IF xrayAt(ids) = {} THEN << >> ELSE SubSeq(ids, Max(xrayAt(ids)) + 1, Len(ids))

singToXrayPort(g) == g.ports + 1
xrayToSingPort(g) == g.ports + 2
userPort(g) == g.ports + 3

xrayToSingBridge(g, ids) ==
  CASE xrayAt(ids) # {} /\ tailingSingEnts(ids) # << >> -> [by |-> "bridge", port |-> xrayToSingPort(g)]
    [] xrayAt(ids) # {} /\ tailingSingEnts(ids) = << >> /\ g.interface # Empty -> [by |-> "interface", port |-> 0]
    [] xrayAt(ids) # {} /\ tailingSingEnts(ids) = << >> /\ g.interface = Empty /\ g.tun ->
         [by |-> "loopback", port |-> xrayToSingPort(g)]
    [] OTHER -> [by |-> "none", port |-> 0]

Dialled(g, ids) ==
  [i \in DOMAIN ids |-> [hop |-> ids[i], port |-> IF Kind(ids[i]) = "xrayfull" THEN userPort(g) ELSE 0]]
entryHops(g, ids) ==
  Dialled(g, initialSingEnts(ids))
  \o (IF xrayAt(ids) = {} THEN << >> ELSE <<[hop |-> "bridge", port |-> singToXrayPort(g)]>>)

firstSing(g, c) == buildSingboxChain(c, entryHops(g, c.ids), c.start, TRUE)
lastSing(g, c) ==
  buildSingboxChain(c, Dialled(g, tailingSingEnts(c.ids)), TailStart(c, entryHops(g, c.ids)), FALSE)
xrayHops(g, c) ==
  IF xrayAt(c.ids) = {} THEN << >> ELSE buildXrayChain(c, xrayEnts(c.ids), xrayToSingBridge(g, c.ids), g.interface)

\* The outbound of sing-box that what comes back from Xray goes to.
backFromXray(g, c) ==
  CASE xrayToSingBridge(g, c.ids).by = "bridge" ->
         <<[port |-> xrayToSingPort(g), outbound |-> lastSing(g, c)[1].tag]>>
    [] xrayToSingBridge(g, c.ids).by = "loopback" ->
         <<[port |-> xrayToSingPort(g), outbound |-> <<"xray-direct">>]>>
    [] OTHER -> << >>

buildOutboundChain(live, g, c) ==
  IF g.error \/ ~entIDListtoEntList(live, c.ids) THEN Refuse(g)
  ELSE [g EXCEPT
         !.ports = userPort(g),
         !.sing = @ \o firstSing(g, c) \o lastSing(g, c),
         !.xray = @ \o xrayHops(g, c),
         !.toXray = @ \o (IF xrayAt(c.ids) = {} THEN << >>
                          ELSE <<[port |-> singToXrayPort(g), outbound |-> xrayHops(g, c)[1].tag]>>),
         !.toSing = @ \o backFromXray(g, c),
         !.user = IF c.ids # << >> /\ Kind(Last(c.ids)) = "xrayfull" THEN UserXray(userPort(g)) ELSE @,
         !.groups = @ \o (IF c.ids = << >> THEN << >>
                          ELSE <<[watch |-> watchTag(c, lastSing(g, c)), profiles |-> ToSet(c.ids) \ {"warp"}]>>)]

NoXray == [inbounds |-> << >>, outbounds |-> << >>, rules |-> << >>]
NewContext(tun, interface) ==
  [ports |-> 0, sing |-> << >>, xray |-> << >>, toXray |-> << >>, toSing |-> << >>, user |-> NoXray,
   groups |-> << >>, error |-> FALSE, tun |-> tun, interface |-> interface]

Hops(id) == IF Kind(id) = "chain" THEN Reverse(Profile[id].list) ELSE <<id>>
\* The wrapper of a chain is credited with the bytes of its hops.
Wrapped(g, id) ==
  IF g.error \/ g.groups = << >> \/ Kind(id) # "chain" THEN g
  ELSE [g EXCEPT !.groups[Len(g.groups)].profiles = @ \cup {id}]

(***************************************************************************)
(* What routing needs (CalculatePrerequisities)                            *)
(***************************************************************************)
(* A raw profile names each outbound once, also in "final"; the rules of the   *)
(* others name them whatever their action is.                                  *)
UsedOutbounds(r) ==
  LET named == Whenever(r.raw, <<r.final>>) \o [i \in DOMAIN r.rules |-> r.rules[i].outbound]
      f[i \in 0 .. Len(named)] ==
        IF i = 0 THEN << >>
        ELSE IF named[i] \in Predefined \cup {Empty} \/ (r.raw /\ Contains(f[i - 1], named[i])) THEN f[i - 1]
        ELSE Append(f[i - 1], named[i])
  IN  f[Len(named)]

Domains(ids) == {Profile[i].domain : i \in {i \in ids : Kind(i) # "extracore"}} \ {Empty}
getEntDomains(live, ids) ==
  Domains((UNION {IF Kind(i) = "chain" THEN ToSet(Profile[i].list) ELSE {i} : i \in ids \cap live}) \cap live)

RouteOutboundsAllowed(live, r) ==
  \A i \in DOMAIN UsedOutbounds(r) :
    LET id == UsedOutbounds(r)[i]
        mayServe(p) == p \in live /\ Kind(p) \notin {"extracore", "full", "xrayfull"}
    IN  /\ mayServe(id)
        /\ Kind(id) = "chain" =>
             /\ Profile[id].list # << >>
             /\ \A p \in ToSet(Profile[id].list) : mayServe(p) /\ Kind(p) # "chain"

(* The first tag of the group of the i-th outbound.                            *)
RouteStart(r, i) ==
  LET used == UsedOutbounds(r)
      f[j \in 0 .. Len(used)] == IF j = 0 THEN 0 ELSE f[j - 1] + Len(Hops(used[j]))
  IN  f[i - 1]

\* A profile two rules use is built twice; the map keeps the last.  "block" is
\* not in the map: a raw profile reads it as "proxy", a rule names no outbound.
OutboundTag(s, r, o) ==
  LET uses == Where(UsedOutbounds(r), LAMBDA u : u = o)
  IN  CASE o = "warp-bypass" -> IF s.warp THEN <<"warp-bypass">> ELSE <<"proxy">>
        [] o = "block" -> IF r.raw THEN <<"proxy">> ELSE <<"block">>
        [] o \in {"proxy", "direct"} -> <<o>>
        [] OTHER -> Tag(<<"route">>, RouteStart(r, Max(uses)))

RulesTo(r, o) == {i \in DOMAIN r.rules : r.rules[i].outbound = o /\ r.rules[i].action = "route"}
SitesOf(s, r, o) ==
  IF r.raw \/ ~s.routing THEN {} ELSE UNION {r.rules[i].domains : i \in RulesTo(r, o)}

(* The front and landing proxies add their names without asking for the rule.  *)
DirectDomains(live, s, r, id) ==
  LET asked == getEntDomains(live, ToSet(UsedOutbounds(r)) \cup {id}) \cup SitesOf(s, r, "direct")
      ofGroup == getEntDomains(live, {front, landing} \ {None})
  IN  IF asked = {} THEN {} ELSE asked \cup ofGroup

\* The program that is started beside the core.
ExtraCore(live, id) ==
  LET hops == IF Kind(id) = "chain" THEN Profile[id].list ELSE <<id>>
  IN  IF hops # << >> /\ hops[1] \in live /\ Kind(hops[1]) = "extracore" THEN hops[1] ELSE None

(***************************************************************************)
(* DNS: rules in order, each for the names it matches ("*" for all)        *)
(***************************************************************************)
DnsRule(names, server) == [names |-> names, server |-> server]

buildDNSSection(s, r, id, direct) ==
  LET final == IF s.direct THEN "dns-direct" ELSE "dns-remote"
      tailscale == id # None /\ Kind(id) = "tailscale"
      proxySites == SitesOf(s, r, "proxy")
  IN  [servers |-> Whenever(id # None, <<[tag |-> "dns-remote", via |-> <<"proxy">>]>>)
                   \o Whenever(tailscale, <<[tag |-> "dns-tailscale", via |-> <<"proxy">>]>>)
                   \o <<[tag |-> "dns-direct", via |-> NoTag]>>
                   \o Whenever(s.fake, <<[tag |-> "dns-fake", via |-> NoTag]>>)
                   \o <<[tag |-> "dns-local", via |-> NoTag]>>,
       rules |-> Whenever(tailscale, <<DnsRule({"tailscale.com"}, "dns-direct"),
                                       DnsRule({"ts.net"}, "dns-tailscale")>>)
                 \o Whenever(s.hijack # {} /\ id # None, <<DnsRule(s.hijack, "predefined")>>)
                 \o Whenever(s.fake, <<DnsRule({"*"}, "dns-fake")>>)
                 \o Whenever(direct # {}, <<DnsRule(direct, "dns-direct")>>)
                 \o Whenever(proxySites # {} /\ s.direct, <<DnsRule(proxySites, "dns-remote")>>)
                 \o <<DnsRule({"*"}, final)>>]

Answers(rule, name) == name \in rule.names \/ "*" \in rule.names
ServerFor(dns, name) ==
  LET matching == Where(dns.rules, LAMBDA rule : Answers(rule, name))
  IN  dns.rules[Min(matching)].server

(***************************************************************************)
(* Inbounds and routes                                                     *)
(***************************************************************************)
BridgeTag(b) ==
  IF b.outbound = <<"xray-direct">> THEN Tag(<<"bridge-loopback">>, b.port) ELSE <<"bridge">> \o b.outbound

buildInboundSection(s) ==
  <<[tag |-> <<"dns-in">>, port |-> 0], [tag |-> <<"mixed-in">>, port |-> 0]>>
  \o Whenever(s.tun, <<[tag |-> <<"tun-in">>, port |-> 0]>>)
  \o Whenever(s.hijack # {}, <<[tag |-> <<"hijack-dns">>, port |-> 0]>>)
Bridges(g) == [i \in DOMAIN g.toSing |-> [tag |-> BridgeTag(g.toSing[i]), port |-> g.toSing[i].port]]

Rule(does, inbound, outbound, sets) ==
  [does |-> does, inbound |-> inbound, outbound |-> outbound, sets |-> sets]
Adblock == Rule("reject", NoTag, NoTag, {"freelink-adblocksingbox"})

(* The adblock rule stands before the first rule that routes.                  *)
get_route_rules(s, r) ==
  LET rule(i) == Rule(r.rules[i].action, NoTag,
                      IF r.rules[i].action = "route" THEN OutboundTag(s, r, r.rules[i].outbound) ELSE NoTag,
                      r.rules[i].sets)
      routing == {i \in DOMAIN r.rules : r.rules[i].action = "route"}
      at == IF routing = {} THEN Len(r.rules) ELSE Min(routing) - 1
      all == [i \in DOMAIN r.rules |-> rule(i)]
  IN  IF s.adblock /\ ~r.raw THEN SubSeq(all, 1, at) \o <<Adblock>> \o SubSeq(all, at + 1, Len(all))
      ELSE all

\* A set that is neither in the list nor a URL is passed over.
NeededSets(s, r) ==
  LET used == IF r.raw THEN {} ELSE UNION {r.rules[i].sets : i \in DOMAIN r.rules}
  IN  {set \in used : set \in KnownSets} \cup (IF s.adblock THEN {"freelink-adblocksingbox"} ELSE {})
      \cup (IF r.raw THEN r.own ELSE {})

buildRouteSection(s, r, g, extra) ==
  LET verbatim == r.raw /\ r.prevent
      bridge(b) == Rule("route", BridgeTag(b), b.outbound, {})
      plumbing == [i \in DOMAIN g.toSing |-> bridge(g.toSing[i])]
                  \o Whenever(extra # None, <<Rule("route", <<"process">>, <<"direct">>, {})>>)
                  \o Whenever(~r.raw, <<Rule("sniff", NoTag, NoTag, {}), Rule("hijack-dns", NoTag, NoTag, {})>>)
                  \o <<Rule("reject", <<"dns-in">>, NoTag, {})>>
      catchAll == Whenever(~r.raw /\ r.final = "block", <<Rule("reject", NoTag, NoTag, {})>>)
  IN  [rules |-> (IF verbatim THEN << >> ELSE plumbing) \o get_route_rules(s, r) \o catchAll,
       final |-> CASE r.final = "block" /\ ~r.raw -> <<"direct">>
                   [] r.final = Empty -> IF verbatim THEN NoTag ELSE <<"proxy">>
                   [] OTHER -> OutboundTag(s, r, r.final),
       sets |-> IF verbatim THEN r.own ELSE NeededSets(s, r)]

(***************************************************************************)
(* Xray                                                                    *)
(***************************************************************************)
buildXrayConfig(g, live) ==
  LET inbound(b) == [tag |-> Append(b.outbound, "inbound"), port |-> b.port]
      direct == [tag |-> <<"direct">>, hop |-> "direct", port |-> 0, via |-> NoTag, bind |-> Empty]
  IN  IF g.xray = << >> THEN g.user
      ELSE [inbounds |-> [i \in DOMAIN g.toXray |-> inbound(g.toXray[i])],
            outbounds |-> g.xray \o Whenever(live, <<direct>>),
            rules |-> [i \in DOMAIN g.toXray |-> [inbound |-> inbound(g.toXray[i]).tag,
                                                  outbound |-> g.toXray[i].outbound]]]

(***************************************************************************)
(* The configuration of a start                                            *)
(***************************************************************************)
Plain(tag) == [tag |-> tag, hop |-> "direct", port |-> 0, detour |-> NoTag]
Error == [error |-> TRUE]

(* Slip: the front proxy before the profile, the landing proxy behind it.      *)
MainChainTurned(s, id) ==
  [ids |-> Whenever(s.warp, <<"warp">>) \o Opt(front) \o Hops(id) \o Opt(landing),
   prefix |-> <<"config">>, start |-> 0, main |-> TRUE, link |-> TRUE, warp |-> s.warp]

MainChain(s, id) ==
  [ids |-> Whenever(s.warp, <<"warp">>) \o Opt(landing) \o Hops(id) \o Opt(front),
   prefix |-> <<"config">>, start |-> 0, main |-> TRUE, link |-> TRUE, warp |-> s.warp]
RouteChain(r, i) ==
  LET hops == Hops(UsedOutbounds(r)[i])
  IN  [ids |-> hops, prefix |-> <<"route">>, start |-> RouteStart(r, i), main |-> FALSE,
       link |-> Len(hops) > 1, warp |-> FALSE]

MainBuilt(live, s, id) ==
  Wrapped(buildOutboundChain(live, NewContext(s.tun, IF s.tun THEN s.interface ELSE Empty), MainChain(s, id)), id)
RouteBuilt(live, r, g, i) == Wrapped(buildOutboundChain(live, g, RouteChain(r, i)), UsedOutbounds(r)[i])
buildOutboundsSection(live, s, r, id) ==
  LET f[i \in 0 .. Len(UsedOutbounds(r))] ==
        IF i = 0 THEN MainBuilt(live, s, id) ELSE RouteBuilt(live, r, f[i - 1], i)
  IN  f[Len(UsedOutbounds(r))]

BuildSingBoxConfig(live, s, r, id) ==
  LET g == buildOutboundsSection(live, s, r, id)
      loopback == \E i \in DOMAIN g.toSing : g.toSing[i].outbound = <<"xray-direct">>
      extra == ExtraCore(live, id)
  IN  CASE Kind(id) = "full" -> [error |-> FALSE, full |-> id]
        [] Kind(id) # "full" /\ (~RouteOutboundsAllowed(live, r) \/ g.error) -> Error
        [] OTHER ->
             [error |-> FALSE,
              outbounds |-> g.sing \o Whenever(loopback, <<Plain(<<"xray-direct">>)>>) \o <<Plain(<<"direct">>)>>,
              inbounds |-> buildInboundSection(s) \o Bridges(g),
              route |-> buildRouteSection(s, r, g, extra),
              dns |-> buildDNSSection(s, r, id, DirectDomains(live, s, r, id)),
              xray |-> buildXrayConfig(g, TRUE),
              extraCore |-> extra, chainGroups |-> g.groups]

(***************************************************************************)
(* The configuration of a batch of tests                                   *)
(***************************************************************************)
IsValid(live, id) == id \in live /\ (Kind(id) = "chain" => ToSet(Profile[id].list) \subseteq live)
CanTest(live, id) ==
  /\ Kind(id) \notin {"extracore", "xrayfull", "tailscale"}
  /\ Kind(id) = "chain" =>
       \A p \in ToSet(Profile[id].list) \cap live : Kind(p) \notin {"extracore", "xrayfull"}
  /\ IsValid(live, id)

(* Slip: the hops in the order of the chain editor. *)
unwrapAsListed(id) == IF Kind(id) = "chain" THEN Profile[id].list ELSE <<id>>
unwrapChain(id) == Hops(id)

TestChain(id, k) ==
  [ids |-> Opt(landing) \o unwrapChain(id) \o Opt(front), prefix |-> Tag(<<"proxy">>, k), start |-> 0,
   main |-> FALSE, link |-> TRUE, warp |-> FALSE]

BuildTestConfig(live, s, batch) ==
  LET tested == SelectSeq(batch, LAMBDA id : CanTest(live, id) /\ Kind(id) # "full")
      f[k \in 0 .. Len(tested)] ==
        IF k = 0 THEN NewContext(FALSE, s.interface)
        ELSE buildOutboundChain(live, f[k - 1], TestChain(tested[k], k))
      g == f[Len(tested)]
      inbound(b) == [tag |-> Tag(<<"bridge">>, b.port), port |-> b.port]
  IN  IF g.error THEN Error
      ELSE [error |-> FALSE,
            outbounds |-> g.sing \o <<Plain(<<"direct">>)>>,
            inbounds |-> [i \in DOMAIN g.toSing |-> inbound(g.toSing[i])],
            route |-> [rules |-> << >>, final |-> NoTag, sets |-> {}],
            xray |-> buildXrayConfig(g, FALSE),
            extraCore |-> None,
            tags |-> [k \in DOMAIN tested |-> [tag |-> Tag(Tag(<<"proxy">>, k), 0), of |-> tested[k]]]]

(***************************************************************************)
(* The user                                                                *)
(***************************************************************************)
Live == DOMAIN Profile \ gone

Init ==
  /\ gone = {} /\ front = None /\ landing = None
  /\ route \in Routes /\ settings \in Settings
  /\ built = None /\ clicked = << >>

\* Edits made while a configuration runs count at the next start: they are
\* taken while nothing runs.
SetFront(p) ==
  /\ built = None /\ front' = p
  /\ UNCHANGED <<gone, landing, route, settings, built, clicked>>
SetLanding(p) ==
  /\ built = None /\ landing' = p
  /\ UNCHANGED <<gone, front, route, settings, built, clicked>>

\* Deleting a profile leaves the chains, rules and groups that name it alone.
\* One deletion.
Delete(p) ==
  /\ built = None /\ gone = {} /\ gone' = {p}
  /\ UNCHANGED <<front, landing, route, settings, built, clicked>>

Start(id) ==
  /\ built = None /\ id \in Live
  /\ built' = BuildSingBoxConfig(Live, settings, route, id)
  /\ clicked' = <<id>>
  /\ UNCHANGED <<gone, front, landing, route, settings>>

Test(batch) ==
  /\ built = None /\ ToSet(batch) \subseteq Live
  /\ built' = BuildTestConfig(Live, settings, batch)
  /\ clicked' = batch
  /\ UNCHANGED <<gone, front, landing, route, settings>>

Stop ==
  /\ built # None /\ built' = None /\ clicked' = << >>
  /\ UNCHANGED <<gone, front, landing, route, settings>>

Next ==
  \/ \E p \in Helpers \cup {None} : SetFront(p) \/ SetLanding(p)
  \/ \E p \in Deletable : Delete(p)
  \/ \E id \in Main : Start(id)
  \/ \E batch \in Batches : Test(batch)
  \/ Stop

Spec == Init /\ [][Next]_vars

(***************************************************************************)
(* The way of a connection                                                 *)
(***************************************************************************)
Started == built # None /\ ~built.error /\ {"tags", "full"} \cap DOMAIN built = {}
Tested == built # None /\ ~built.error /\ "tags" \in DOMAIN built

Tagged(seq, tag) == {i \in DOMAIN seq : seq[i].tag = tag}
End(how) == [core |-> "end", tag |-> <<how>>]
To(core, tag) == [core |-> core, tag |-> tag]

(* Past an inbound: the outbound of its rule, or the default one.              *)
Past(core, inbounds, port, rules, default) ==
  LET tags == {inbounds[i].tag : i \in {i \in DOMAIN inbounds : inbounds[i].port = port}}
      ruled == {i \in DOMAIN rules : rules[i].inbound \in tags}
  IN  CASE tags = {} -> End("refused")
        [] ruled # {} -> To(core, rules[Min(ruled)].outbound)
        [] OTHER -> To(core, default)

IntoXray(b, port) ==
  Past("xray", b.xray.inbounds, port, b.xray.rules, b.xray.outbounds[1].tag)
IntoSing(b, port) ==
  Past("sing", b.inbounds, port, b.route.rules,
       IF b.route.final = NoTag THEN b.outbounds[1].tag ELSE b.route.final)

Leaving(b, core, o) ==
  CASE core = "sing" /\ o.detour # NoTag -> To("sing", o.detour)
    [] core = "sing" /\ o.detour = NoTag /\ o.port # 0 -> IntoXray(b, o.port)
    [] core = "sing" /\ o.detour = NoTag /\ o.port = 0 ->
         End(IF o.hop \in DOMAIN Profile /\ Kind(o.hop) = "extracore" /\ o.hop # b.extraCore
             THEN "refused" ELSE "direct")
    [] core = "xray" /\ o.via # NoTag -> To("xray", o.via)
    [] core = "xray" /\ o.via = NoTag /\ o.port # 0 -> IntoSing(b, o.port)
    [] OTHER -> End(IF o.tag = <<"user">> THEN "user" ELSE IF o.bind # Empty THEN "bound" ELSE "os")

(* Where a connection is one outbound further.                                 *)
Pass(b, w) ==
  LET outbounds == IF w.at.core = "sing" THEN b.outbounds ELSE b.xray.outbounds
      hits == Tagged(outbounds, w.at.tag)
      o == outbounds[Min(hits)]
  IN  CASE w.at.core = "end" -> w
        [] w.at.core # "end" /\ Cardinality(hits) # 1 -> [w EXCEPT !.at = End("lost")]
        [] OTHER -> [at |-> Leaving(b, w.at.core, o),
                     hops |-> IF o.hop \in {"bridge", "direct"} THEN w.hops ELSE Append(w.hops, o.hop),
                     tags |-> IF w.at.core = "sing" THEN w.tags \cup {o.tag} ELSE w.tags]

(* Where a connection handed to an outbound of sing-box passes and ends.       *)
Walk(b, tag) ==
  LET f[n \in 0 .. WalkLimit] ==
        IF n = 0 THEN [at |-> To("sing", tag), hops |-> << >>, tags |-> {}] ELSE Pass(b, f[n - 1])
  IN  f[WalkLimit]

(***************************************************************************)
(* What the generator does not get right                                   *)
(***************************************************************************)
Id == clicked[1]
MainHops == Whenever(settings.warp, <<"warp">>) \o Opt(landing) \o Hops(Id) \o Opt(front)
RouteHops == [i \in DOMAIN UsedOutbounds(route) |-> Hops(UsedOutbounds(route)[i])]
Has(ids, kind) == \E i \in DOMAIN ids : Kind(ids[i]) = kind

\* A chain without hops is accepted and gives no outbound "proxy".
EmptyChain == Hops(Id) = << >>
\* The bridge that ends one route group has the tag the next group begins with.
BridgeTagTwice ==
  settings.tun /\ settings.interface = Empty /\ \E i \in DOMAIN RouteHops :
    /\ i + 1 \in DOMAIN RouteHops /\ Has(RouteHops[i + 1], "xray")
    /\ \A h \in ToSet(RouteHops[i]) : IsXray(h)
\* The generated Xray configuration replaces the user's whole one.
TwoXrayConfigs == Has(MainHops, "xrayfull") /\ built.xray.outbounds[1].tag # <<"user">>
\* A program as front proxy is dialled and not started.
FrontProgram == front # None /\ Kind(front) = "extracore" /\ front # built.extraCore
\* A raw profile taken verbatim has no rules for the bridges.
Verbatim == route.raw /\ route.prevent
\* A rule may name a set that is in no list, a raw profile one it does not define.
UnknownSets ==
  \E i \in DOMAIN route.rules : ~(route.rules[i].sets \subseteq IF route.raw THEN route.own ELSE KnownSets)
\* The editor offers no rule that routes to "block"; a shared profile may have one.
RoutesToBlock ==
  ~route.raw /\ \E i \in DOMAIN route.rules : route.rules[i].action = "route" /\ route.rules[i].outbound = "block"
Mislaid == EmptyChain \/ BridgeTagTwice \/ TwoXrayConfigs \/ FrontProgram

Unique(seq) == \A i, j \in DOMAIN seq : seq[i].tag = seq[j].tag => i = j
Tags(seq) == {seq[i].tag : i \in DOMAIN seq}
Values(seq, f) == {seq[i][f] : i \in DOMAIN seq}
Named(seq, f) == Values(seq, f) \ {NoTag}

(* No tag of a configuration is used twice, and every detour, proxy setting,   *)
(* rule, DNS server and default names an outbound, an inbound, a server or a   *)
(* rule set that the configuration defines: the core would refuse it, or worse *)
(* send the traffic elsewhere.                                                 *)
IsClosed(b) ==
  LET used == UNION {b.route.rules[i].sets : i \in DOMAIN b.route.rules}
  IN  /\ Unique(b.outbounds) /\ Unique(b.inbounds)
      /\ Named(b.outbounds, "detour") \cup Named(b.route.rules, "outbound")
           \cup Named(b.dns.servers, "via") \cup ({b.route.final} \ {NoTag}) \subseteq Tags(b.outbounds)
      /\ Named(b.route.rules, "inbound") \ {<<"process">>} \subseteq Tags(b.inbounds)
      /\ Values(b.dns.rules, "server") \subseteq Tags(b.dns.servers) \cup {"predefined"}
      /\ used \subseteq b.route.sets
      /\ Unique(b.xray.outbounds) /\ Unique(b.xray.inbounds)
      /\ Named(b.xray.outbounds, "via") \cup Named(b.xray.rules, "outbound")
           \subseteq Tags(b.xray.outbounds)
      /\ Named(b.xray.rules, "inbound") \subseteq Tags(b.xray.inbounds)
ConfigIsClosed ==
  Started /\ ~EmptyChain /\ ~BridgeTagTwice /\ ~UnknownSets /\ ~RoutesToBlock => IsClosed(built)

Ends(w) == w.at.core = "end" /\ w.at.tag \notin {<<"lost">>, <<"refused">>}

(* A connection sent to "proxy" passes the landing proxy, the hops of the      *)
(* profile from the bottom of its list to the top and the front proxy, through *)
(* both cores and their bridges, once each; one sent to "warp-bypass" the same *)
(* without Warp, and one a rule sends to a profile that profile's hops.        *)
PathIsChain ==
  Started /\ ~Mislaid /\ ~Verbatim =>
    /\ Walk(built, <<"proxy">>).hops = MainHops /\ Ends(Walk(built, <<"proxy">>))
    /\ settings.warp => Walk(built, <<"warp-bypass">>).hops = Tail(MainHops)
    /\ \A i \in DOMAIN RouteHops :
         LET w == Walk(built, OutboundTag(settings, route, UsedOutbounds(route)[i]))
         IN  w.hops = RouteHops[i] /\ Ends(w)

(* While the TUN device carries all traffic, no connection of Xray leaves by   *)
(* the system's default route, which would be the TUN again: it is bound to    *)
(* the physical interface or handed back to sing-box.                          *)
XrayAvoidsTun ==
  Started /\ settings.tun =>
    \A o \in Tags(built.outbounds) : Walk(built, o).at # End("os")

(* Xray asks sing-box for the address of its server, and sing-box asks the     *)
(* direct DNS server, never the one behind the proxy that is being dialled.    *)
(* Exceptions: fake DNS answers first, names of the front and landing proxy    *)
(* count only if another name does, a hijacked name, one in the tailnet of the *)
(* profile that runs, and raw profiles, where the DNS inbound is rejected      *)
(* before the user's rules.                                                    *)
HijacksFirst(rules) ==
  LET hijack == {i \in DOMAIN rules : rules[i].does = "hijack-dns"}
      reject == {i \in DOMAIN rules : rules[i].inbound = <<"dns-in">>}
  IN  hijack # {} /\ Min(hijack) < Min(reject)
Resolved(b, name) == HijacksFirst(b.route.rules) /\ ServerFor(b.dns, name) = "dns-direct"
XrayNamesDirect ==
  Started /\ ~settings.fake /\ ~route.raw =>
    \A h \in Values(built.xray.outbounds, "hop") \cap DOMAIN Profile :
      \/ Kind(h) # "xray" \/ Profile[h].domain \in {Empty, "ts.net"} \cup settings.hijack
      \/ h \in {front, landing} /\ h \notin ToSet(Hops(Id)) \cup UNION {ToSet(RouteHops[i]) : i \in DOMAIN RouteHops}
      \/ Resolved(built, Profile[h].domain)

(* What Xray sends on its own behalf does not come back to it: not by the TUN  *)
(* device, and not as a DNS question that has to be asked through Xray.        *)
XrayStaysOutside == XrayAvoidsTun /\ XrayNamesDirect

(* The traffic of a connection is credited to the profiles it passes: exactly  *)
(* one watched outbound lies on its way, and the profiles of that group are    *)
(* the hops, with the chain they belong to.  What goes to "warp-bypass" past   *)
(* the watched Warp outbound is credited to nobody unless the chain re-enters. *)
TrafficIsCredited ==
  Started /\ ~Mislaid /\ ~Verbatim =>
    LET entries == {<<"proxy">>} \cup {OutboundTag(settings, route, UsedOutbounds(route)[i]) : i \in DOMAIN RouteHops}
        groups == built.chainGroups
        seen(tag) == {i \in DOMAIN groups : groups[i].watch \in Walk(built, tag).tags}
    IN  \A tag \in entries :
          /\ Cardinality(seen(tag)) = 1
          /\ \A i \in seen(tag) :
               {p \in groups[i].profiles : Kind(p) # "chain"} = ToSet(Walk(built, tag).hops) \ {"warp"}

(* The latency measured for a profile is that of the way its traffic takes     *)
(* when it is started, Warp aside (unwrapChain, generate.cpp).                 *)
TestedHops(id) == Opt(landing) \o Hops(id) \o Opt(front)

(* ... but for chains that come back from Xray to sing-box, whose bridge no    *)
(* rule leads on, terminals as front proxy and chains without hops.            *)
TestTakesTheWay ==
  Tested => \A k \in DOMAIN built.tags :
    LET w == Walk(built, built.tags[k].tag)
        ids == TestedHops(built.tags[k].of)
        returns == \E i, j \in DOMAIN ids : i < j /\ IsXray(ids[i]) /\ ~IsXray(ids[j])
    IN  \/ returns \/ Hops(built.tags[k].of) = << >>
        \/ Has(ids, "extracore") \/ Has(ids, "xrayfull")
        \/ /\ w.hops = ids
           /\ w.at \in {End("direct"), End(IF settings.interface = Empty THEN "os" ELSE "bound")}
===============================================================================
