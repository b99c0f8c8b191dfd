------------------------------ MODULE RouteRules ------------------------------
(* Routing profiles: what a rule is, its JSON for the core and for sharing,    *)
(* its row in the database, and the lines of the simple editor                 *)
(* (RouteRule.cpp, RouteProfile.cpp, RoutesRepo.cpp).                          *)
(*                                                                             *)
(* A rule is [name, type, outbound, action, f]: f maps the attributes that are *)
(* set to a text, to a list of texts or, for a flag, to "true".  An outbound   *)
(* is "proxy", "direct", "block", "hijack", "warp-bypass" or the id of a       *)
(* profile; a device is the list of its profiles, each with id and name.  A    *)
(* JSON value carries its type, as the reader does not take every type.  The   *)
(* type of a rule is CustomType or one of the simple types: what the rule      *)
(* names, and the target it is for.                                            *)
EXTENDS SequencesExt

(***************************************************************************)
(* Functions and sequences                                                 *)
(***************************************************************************)
Put(f, k, v) == [x \in DOMAIN f \cup {k} |-> IF x = k THEN v ELSE f[x]]

\* The members of a finite set of numbers, from the lowest up.
InOrder(set) ==
  [n \in 1..Cardinality(set) |-> CHOOSE i \in set : Cardinality({j \in set : j <= i}) = n]

\* What seq has at the places chosen, in order.
Chosen(seq, places) ==
  LET place == InOrder(places) IN [n \in 1..Cardinality(places) |-> seq[place[n]]]
Distinct(seq) == Chosen(seq, {i \in DOMAIN seq : \A j \in 1..i - 1 : seq[j] # seq[i]})

Lists ==
  {"inbound", "domain", "domain_suffix", "domain_keyword", "domain_regex", "source_ip_cidr",
   "ip_cidr", "source_port", "source_port_range", "port", "port_range", "process_name",
   "process_path", "process_path_regex", "wifi_ssid", "wifi_bssid", "rule_set"}
RuleFlags == {"source_ip_is_private", "ip_is_private", "invert", "no_drop", "override_destination"}
RuleTexts == {"ip_version", "network", "protocol", "method", "override_address",
              "override_port", "strategy"}
Attributes == Lists \cup RuleFlags \cup RuleTexts

Nothing == [k \in {} |-> ""]
IsSet(r, k) == k \in DOMAIN r.f
ValueOf(r, k) == IF IsSet(r, k) THEN r.f[k] ELSE IF k \in Lists THEN << >> ELSE ""
Text(v) == [t |-> "string", v |-> v]

(***************************************************************************)
(* Outbounds                                                               *)
(***************************************************************************)
Shown(d) == IF d.name = "" THEN "address of " \o d.id ELSE d.name
Known(device, id) == \E i \in DOMAIN device : device[i].id = id
ProfileNamed(device, name) == SelectInSeq(device, LAMBDA d : d.name = name)

isOutboundIDValid(device, o) == o \in {"proxy", "direct"} \/ Known(device, o)
getOutboundID(device, name) ==
  LET i == ProfileNamed(device, name)
  IN  IF name \in {"proxy", "direct"} THEN name ELSE IF i > 0 THEN device[i].id ELSE "invalid"

outboundIDToString(o) == IF o \in {"proxy", "direct", "block", "warp-bypass"} THEN o ELSE "unknown"
stringToOutboundID(s) == IF s \in {"proxy", "direct", "block", "warp-bypass"} THEN s ELSE "proxy"

(***************************************************************************)
(* JSON                                                                    *)
(***************************************************************************)
Always == Lists \cup {"ip_version", "network", "protocol", "source_ip_is_private",
                      "ip_is_private", "invert"}
OfAction(action) ==
  CASE action = "reject" -> {"method", "no_drop"}
    [] action \in {"route", "route-options", "bypass"} -> {"override_address", "override_port"}
    [] action = "sniff" -> {"override_destination"}
    [] action = "resolve" -> {"strategy"}
    [] OTHER -> {}

\* Ids of older versions stand for an action.
ActionOf(r) ==
  CASE r.action = "route" /\ r.outbound = "block" -> "reject"
    [] r.action = "route" /\ r.outbound = "hijack" -> "hijack-dns"
    [] OTHER -> r.action

KeyOf(k) == IF k = "method" THEN "reject_method" ELSE k
TypeOfKey(k) ==
  CASE k \in {"port", "source_port"} -> "numbers"
    [] k \in Lists \ {"port", "source_port"} -> "strings"
    [] k \in RuleFlags -> "bool"
    [] k \in {"ip_version", "override_port"} -> "number"
    [] OTHER -> "string"

\* The outbound by name, for the preview and for sharing.
ViewOf(device, o) ==
  IF o \in {"proxy", "direct"} THEN o ELSE Shown(device[SelectInSeq(device, LAMBDA d : d.id = o)])

Routes(r) == ActionOf(r) \in {"route", "bypass"}
get_rule_json(r, outbound) ==
  LET fields == {k \in Always \cup OfAction(ActionOf(r)) : IsSet(r, k)}
      field(key) == CHOOSE k \in fields : KeyOf(k) = key
      acting == Put([key \in {KeyOf(k) : k \in fields} |-> [t |-> TypeOfKey(field(key)), v |-> r.f[field(key)]]],
                    "action", Text(ActionOf(r)))
  IN  IF Routes(r) THEN Put(acting, "outbound", Text(outbound)) ELSE acting

\* Nothing is said of a rule that routes to a profile that is gone.
Missing(device, r) == Routes(r) /\ ~isOutboundIDValid(device, r.outbound)

(* Slip: the preview serves as the share, without the type.                    *)
to_view_json(device, r) ==
  IF Missing(device, r) THEN Nothing
  ELSE Put(get_rule_json(r, ViewOf(device, r.outbound)), "name", Text(r.name))

to_share_json(device, r) ==
  IF Missing(device, r) THEN Nothing
  ELSE Put(Put(get_rule_json(r, ViewOf(device, r.outbound)), "name", Text(r.name)), "type", Text(r.type))

filterEmpty(list) == Chosen(list, {i \in DOMAIN list : list[i] # ""})

\* A number in an array of JSON reads as an empty text.
TextsOf(json) ==
  CASE json.t = "numbers" -> [i \in DOMAIN json.v |-> ""]
    [] json.t = "strings" -> json.v
    [] OTHER -> <<json.v>>

\* Does a list of texts set the attribute, and to what?
SetsField(k, list) ==
  IF k \in Lists THEN filterEmpty(list) # << >>
  ELSE IF k \in RuleFlags THEN list[1] = "true" ELSE list[1] # ""
set_field_value(k, list) == IF k \in Lists THEN filterEmpty(list) ELSE list[1]

CustomType == <<"custom", "">>
NewRule == [name |-> "", type |-> CustomType, outbound |-> "direct", action |-> "route", f |-> Nothing]

OutboundFrom(device, json) ==
  LET id == IF json.t = "number" THEN json.v ELSE getOutboundID(device, json.v)
  IN  IF json.t \notin {"number", "string"} THEN NewRule.outbound
      ELSE IF isOutboundIDValid(device, id) THEN id ELSE "proxy"
parse_rule_object(device, json) ==
  LET read == {k \in DOMAIN json \ {"name", "type", "outbound"} : json[k].t # "number"}
      set == {k \in read \cap Attributes : SetsField(k, TextsOf(json[k]))}
  IN  [NewRule EXCEPT !.action = IF "action" \in read THEN TextsOf(json.action)[1] ELSE @,
                      !.outbound = IF "outbound" \in DOMAIN json THEN OutboundFrom(device, json.outbound) ELSE @,
                      !.f = [k \in set |-> set_field_value(k, TextsOf(json[k]))]]

Ordinal(what, n) == what \o ToString(n)
NameIn(json) == IF "name" \in DOMAIN json THEN json.name.v ELSE ""
parseJsonArray(device, array) ==
  LET unnamed(i) == Cardinality({j \in 1..i : NameIn(array[j]) = ""})
  IN  [i \in DOMAIN array |->
         [parse_rule_object(device, array[i]) EXCEPT
            !.name = IF NameIn(array[i]) = "" THEN Ordinal("imported rule #", unnamed(i)) ELSE NameIn(array[i])]]

(***************************************************************************)
(* Rules that say nothing                                                  *)
(***************************************************************************)
Targets == {"Bypass", "Block", "Proxy", "WarpBypass"}
SimpleTypes == {"address", "processName", "processPath"} \X Targets
AddressLists == {"domain", "domain_suffix", "domain_keyword", "domain_regex", "rule_set", "ip_cidr"}
ProcessLists == {"process_name", "process_path"}
IsSimple(r) == r.type \in SimpleTypes

isEmpty(r) ==
  IF IsSimple(r)
  THEN DOMAIN r.f \cap (IF r.type[1] = "address" THEN AddressLists ELSE ProcessLists) = {}
  ELSE /\ ActionOf(r) \in {"route", "route-options", "hijack-dns"}
       /\ Cardinality(DOMAIN get_rule_json(r, r.outbound)) <= 1
FilterEmptyRules(rules) == Chosen(rules, {i \in DOMAIN rules : ~isEmpty(rules[i])})

(***************************************************************************)
(* The lines of the simple editor                                          *)
(***************************************************************************)
\* The lines of a type name one attribute, or one of the address lists.
LinesOf(type) ==
  CASE type[1] = "processName" -> {"process_name"} [] type[1] = "processPath" -> {"process_path"}
    [] OTHER -> AddressLists

FirstOf(rules, type) == SelectInSeq(rules, LAMBDA r : r.type = type)
CleanRule(type) ==
  [NewRule EXCEPT !.name = type[1] \o type[2], !.type = type,
     !.action = IF type[2] = "Block" THEN "reject" ELSE "route",
     !.outbound = CASE type[2] = "Proxy" -> "proxy" [] type[2] = "WarpBypass" -> "warp-bypass" [] OTHER -> "direct"]

\* A box, one per target, is what its lines say of each attribute, in order.
GetSimpleRules(rules, target) ==
  LET of == Chosen(rules, {i \in DOMAIN rules : IsSimple(rules[i]) /\ rules[i].type[2] = target})
  IN  [k \in AddressLists \cup ProcessLists |-> FlattenSeq([i \in DOMAIN of |-> ValueOf(of[i], k)])]

(* Slip: the clean rules are appended, the old ones filtered out.              *)
ResetAtEnd(rules, type) ==
  Append(Chosen(rules, {i \in DOMAIN rules : rules[i].type # type}), CleanRule(type))

ResetSimpleRule(rules, type) ==
  IF FirstOf(rules, type) > 0 THEN [rules EXCEPT ![FirstOf(rules, type)] = CleanRule(type)]
  ELSE Append(rules, CleanRule(type))

\* A rule takes each value of its lines once.
add_simple_rule(rules, box, type) ==
  LET named == {k \in LinesOf(type) : box[k] # << >>}
  IN  [rules EXCEPT ![FirstOf(rules, type)].f = [k \in named |-> Distinct(box[k])]]

UpdateSimpleRules(rules, box, target) ==
  LET address == <<"address", target>>
      name == <<"processName", target>>
      path == <<"processPath", target>>
      clean == ResetSimpleRule(ResetSimpleRule(ResetSimpleRule(rules, address), name), path)
  IN  FilterEmptyRules(add_simple_rule(add_simple_rule(add_simple_rule(clean, box, address), box, name), box, path))

(***************************************************************************)
(* Profiles and their shares                                               *)
(***************************************************************************)
NewProfile ==
  [id |-> -1, name |-> "", default |-> "proxy", rules |-> << >>, raw |-> FALSE, prevent |-> FALSE,
   route |-> << >>, remote |-> FALSE, url |-> "", auto |-> FALSE]
IsEmptyProfile(p) == IF p.raw THEN p.route = << >> ELSE \A i \in DOMAIN p.rules : isEmpty(p.rules[i])

\* A raw route is the list of the numbers at its "outbound" and "final" keys.
CollectRawOutboundIds(route) == ToSet(route)
remapRawOutboundsByName(device, route, names) ==
  LET local(o) == IF o \in DOMAIN names /\ names[o] # "" THEN ProfileNamed(device, names[o]) ELSE 0
      remap(o) == IF o \in {"proxy", "direct", "block", "hijack", "warp-bypass"} THEN o
                  ELSE IF local(o) > 0 THEN device[local(o)].id ELSE "proxy"
  IN  [i \in DOMAIN route |-> remap(route[i])]

ToShareObject(device, p) ==
  LET shared == Chosen(p.rules, {i \in DOMAIN p.rules : p.rules[i].type = CustomType \/ ~isEmpty(p.rules[i])})
      json == [i \in DOMAIN shared |-> to_share_json(device, shared[i])]
      named == {i \in DOMAIN device : device[i].id \in CollectRawOutboundIds(p.route)}
  IN  IF p.raw
      THEN [kind |-> "profile", raw |-> TRUE, name |-> p.name, prevent |-> p.prevent, route |-> p.route,
            names |-> [o \in {device[i].id : i \in named} |->
                         device[CHOOSE i \in named : device[i].id = o].name]]
      ELSE [kind |-> "profile", raw |-> FALSE, name |-> p.name,
            default_outbound |-> outboundIDToString(p.default),
            rules |-> Chosen(json, {i \in DOMAIN json : json[i] # Nothing})]

\* What cannot be read gives no profile but a message.
Refused == [NewProfile EXCEPT !.id = -2]
FromShareInput(device, doc) ==
  LET unnamed(i) == Cardinality({j \in 1..i : NameIn(doc.rules[j]) = ""})
      rule(i) ==
        LET json == doc.rules[i]
        IN  [parse_rule_object(device, json) EXCEPT
               !.type = IF "type" \in DOMAIN json THEN json.type.v ELSE CustomType,
               !.name = IF NameIn(json) = "" THEN Ordinal("rule_", unnamed(i)) ELSE NameIn(json)]
  IN  CASE doc.kind = "profile" /\ doc.raw ->
             [NewProfile EXCEPT !.raw = TRUE, !.name = doc.name, !.prevent = doc.prevent,
                                !.route = remapRawOutboundsByName(device, doc.route, doc.names)]
        [] doc.kind = "profile" /\ ~doc.raw ->
             [NewProfile EXCEPT !.name = doc.name, !.default = stringToOutboundID(doc.default_outbound),
                                !.rules = [i \in DOMAIN doc.rules |-> rule(i)]]
        [] doc.kind = "array" /\ doc.rules # << >> ->
             [NewProfile EXCEPT !.rules = parseJsonArray(device, doc.rules)]
        [] OTHER -> Refused

(***************************************************************************)
(* What the operators above are about                                      *)
(***************************************************************************)
\* A set attribute says something: no list is empty or has an empty text.
Words == STRING \ {""}
IsField(k, v) ==
  IF k \in Lists THEN v \in Seq(Words) /\ v # << >>
  ELSE IF k \in RuleFlags THEN v = "true" ELSE v # ""
IsRule(r) ==
  /\ r \in [name : {r.name}, type : {r.type}, outbound : {r.outbound}, action : {r.action}, f : {r.f}]
  /\ DOMAIN r.f \subseteq Attributes /\ r.f = [k \in DOMAIN r.f |-> r.f[k]]
  /\ \A k \in DOMAIN r.f : IsField(k, r.f[k])
IsRules(rules) == rules \in Seq(ToSet(rules)) /\ \A i \in DOMAIN rules : IsRule(rules[i])

IsProfile(p) ==
  /\ p \in [id : Int, name : {p.name}, default : {p.default}, rules : {p.rules}, raw : BOOLEAN, prevent : {p.prevent},
             route : {p.route}, remote : BOOLEAN, url : {p.url}, auto : {p.auto}]
  /\ IsRules(p.rules)

IsText(json) == IF json.t \in {"strings", "numbers"} THEN json.v \in Seq(STRING) ELSE json.v \in STRING
IsDocument(doc) ==
  doc.kind = "array" \/ ~doc.raw =>
    /\ doc.rules \in Seq(ToSet(doc.rules))
    /\ \A i \in DOMAIN doc.rules : \A k \in DOMAIN doc.rules[i] \ {"type"} : IsText(doc.rules[i][k])

(***************************************************************************)
(* Rows                                                                    *)
(***************************************************************************)
\* The columns as INSERT and SELECT list them, and as the reader numbers them.
Columns ==
  <<"name", "type", "ip_version", "network", "protocol", "inbound", "domain", "domain_suffix",
    "domain_keyword", "domain_regex", "source_ip_cidr", "source_ip_is_private", "ip_cidr",
    "ip_is_private", "source_port", "source_port_range", "port", "port_range", "process_name",
    "process_path", "process_path_regex", "rule_set", "invert", "outbound", "action", "method",
    "no_drop", "override_address", "override_port", "sniffers", "override_destination", "strategy",
    "wifi_ssid", "wifi_bssid">>
Position(column) == SelectInSeq(Columns, LAMBDA c : c = column)

ruleJsonFromRow(row, column) == row[Position(column)]

RowOfRule(r) ==
  [i \in DOMAIN Columns |->
     LET c == Columns[i]
     IN  CASE c \in {"name", "type", "outbound", "action"} -> r[c] [] OTHER -> ValueOf(r, c)]
routeRuleFromJson(row) ==
  LET at(c) == ruleJsonFromRow(row, c)
      set == {k \in Attributes : IF k \in Lists THEN at(k) # << >> ELSE at(k) # ""}
  IN  [name |-> at("name"), type |-> at("type"), outbound |-> at("outbound"), action |-> at("action"),
       f |-> [k \in set |-> at(k)]]
saveToDatabase(p) == [p EXCEPT !.rules = [i \in DOMAIN @ |-> RowOfRule(@[i])]]
loadFromDatabase(row) == [row EXCEPT !.rules = [i \in DOMAIN @ |-> routeRuleFromJson(@[i])]]
===============================================================================
