----------------------------- MODULE Subscriptions -----------------------------
(* Which class a text becomes: the profiles of a subscription or a clipboard   *)
(* (GroupUpdater.cpp, clash.cpp) and the class of a stored row                 *)
(* (ProfilesRepo.cpp).  A profile is [type, o].  A text is a record: a base64  *)
(* word, a JSON value, a Clash file, a WireGuard file, lines, a comment or one *)
(* link.                                                                       *)
EXTENDS XrayCodecs

ProfileOf(type, o) == [type |-> type, o |-> o]

\* What a failed parse contributes to the list.
Accepted(p) == IF Has(p.o, "invalid") THEN << >> ELSE <<p>>

(***************************************************************************)
(* Profiles that keep a document, a list or a program                      *)
(***************************************************************************)
Plain(type, table, o) == ("type" :> type) @@ Put("name", Str(o, "name")) @@ Write(o, table)

CustomKeys == [type |-> "subtype", config |-> "config"]
ExtraCoreKeys == [socksAddress |-> "socks_address", socksPort |-> "socks_port",
                  extraCorePath |-> "extra_core_path", extraCoreArgs |-> "extra_core_args",
                  extraCoreConf |-> "extra_core_conf", noLogs |-> "no_logs"]
NewExtraCore == [socksAddress |-> "127.0.0.1"]

Custom_ParseFromJson(d) == Read(d, [name |-> "name"], Empty) @@ When(Has(d, "config"),
  [config |-> d.config]) @@ Put("type", Str(d, "subtype"))
Custom_ExportToJson(o) == Plain("custom", Without(CustomKeys, {"config"}), o)
                          @@ When(Has(o, "config"), [config |-> o.config])
Custom_Build(o) == Obj(o, "config")

extracore_ParseFromJson(d) == Read(d, ("name" :> "name") @@ ExtraCoreKeys, NewExtraCore)
extracore_ExportToJson(o) == Plain("extracore", ExtraCoreKeys, o)
extracore_Build(o) ==
  [type |-> "socks", server |-> Str(o, "socksAddress"), server_port |-> Str(o, "socksPort")]

chain_ParseFromJson(d) == Read(d, [name |-> "name"], Empty) @@ PutList("list", List(d, "list"))
chain_ExportToJson(o) == Plain("chain", Empty, o) @@ PutList("list", List(o, "list"))

direct_ParseFromJson(d) ==
  Read(d, [name |-> "tag"], Empty) @@ PutObj("dialFields", DialFields_ParseFromJson(d))
direct_ExportToJson(o) ==
  ("type" :> "direct") @@ Put("tag", Str(o, "name")) @@ DialFields_Export(Obj(o, "dialFields"))
direct_Build(o) == Without(direct_ExportToJson(o), {"tag"})

(***************************************************************************)
(* One class per type, chosen when a row is loaded and for json:// links   *)
(***************************************************************************)
ParseFromJson(type, d) ==
  CASE type = "socks" -> socks_ParseFromJson(d)
    [] type = "http" -> http_ParseFromJson(d)
    [] type = "shadowsocks" -> shadowsocks_ParseFromJson(d)
    [] type = "chain" -> chain_ParseFromJson(d)
    [] type = "vmess" -> vmess_ParseFromJson(d)
    [] type = "trojan" -> Trojan_ParseFromJson(d)
    [] type = "vless" -> vless_ParseFromJson(d)
    [] type = "xrayvless" -> xrayVless_ParseFromJson(d)
    [] type \in {"hysteria", "hysteria2"} -> hysteria_ParseFromJson(d)
    [] type = "tuic" -> tuic_ParseFromJson(d)
    [] type = "juicity" -> juicity_ParseFromJson(d)
    [] type = "trusttunnel" -> trusttunnel_ParseFromJson(d)
    [] type = "anytls" -> anyTLS_ParseFromJson(d)
    [] type = "mieru" -> mieru_ParseFromJson(d)
    [] type = "shadowtls" -> shadowtls_ParseFromJson(d)
    [] type = "wireguard" -> wireguard_ParseFromJson(d)
    [] type = "tailscale" -> tailscale_ParseFromJson(d)
    [] type = "ssh" -> ssh_ParseFromJson(d)
    [] type = "custom" -> Custom_ParseFromJson(d)
    [] type = "extracore" -> extracore_ParseFromJson(d)
    [] type = "naive" -> naive_ParseFromJson(d)
    [] type = "direct" -> direct_ParseFromJson(d)
    [] OTHER -> Rejected

ExportToJson(p) ==
  LET o == p.o
  IN  CASE p.type = "socks" -> socks_ExportToJson(o)
        [] p.type = "http" -> http_ExportToJson(o)
        [] p.type = "shadowsocks" -> shadowsocks_ExportToJson(o)
        [] p.type = "chain" -> chain_ExportToJson(o)
        [] p.type = "vmess" -> vmess_ExportToJson(o)
        [] p.type = "trojan" -> Trojan_ExportToJson(o)
        [] p.type = "vless" -> vless_ExportToJson(o)
        [] p.type = "xrayvless" -> xrayVless_ExportToJson(o)
        [] p.type = "hysteria" -> hysteria_ExportToJson(o)
        [] p.type = "tuic" -> tuic_ExportToJson(o)
        [] p.type = "juicity" -> juicity_ExportToJson(o)
        [] p.type = "trusttunnel" -> trusttunnel_ExportToJson(o)
        [] p.type = "anytls" -> anyTLS_ExportToJson(o)
        [] p.type = "mieru" -> mieru_ExportToJson(o)
        [] p.type = "shadowtls" -> shadowtls_ExportToJson(o)
        [] p.type = "wireguard" -> wireguard_ExportToJson(o)
        [] p.type = "tailscale" -> tailscale_ExportToJson(o)
        [] p.type = "ssh" -> ssh_ExportToJson(o)
        [] p.type = "custom" -> Custom_ExportToJson(o)
        [] p.type = "extracore" -> extracore_ExportToJson(o)
        [] p.type = "naive" -> naive_ExportToJson(o)
        [] p.type = "direct" -> direct_ExportToJson(o)
        [] OTHER -> Empty

\* Types without a link of their own give the empty text.
ExportToLink(p) ==
  LET o == p.o
  IN  CASE p.type = "socks" -> socks_ExportToLink(o)
        [] p.type = "http" -> http_ExportToLink(o)
        [] p.type = "shadowsocks" -> shadowsocks_ExportToLink(o)
        [] p.type = "vmess" -> vmess_ExportToLink(o)
        [] p.type = "trojan" -> Trojan_ExportToLink(o)
        [] p.type = "vless" -> vless_ExportToLink(o)
        [] p.type = "xrayvless" -> xrayVless_ExportToLink(o)
        [] p.type = "hysteria" -> hysteria_ExportToLink(o)
        [] p.type = "tuic" -> tuic_ExportToLink(o)
        [] p.type = "juicity" -> juicity_ExportToLink(o)
        [] p.type = "trusttunnel" -> trusttunnel_ExportToLink(o)
        [] p.type = "anytls" -> anyTLS_ExportToLink(o)
        [] p.type = "mieru" -> mieru_ExportToLink(o)
        [] p.type = "shadowtls" -> shadowtls_ExportToLink(o)
        [] p.type = "wireguard" -> wireguard_ExportToLink(o)
        [] p.type = "tailscale" -> tailscale_ExportToLink(o)
        [] p.type = "ssh" -> ssh_ExportToLink(o)
        [] p.type = "naive" -> naive_ExportToLink(o)
        [] OTHER -> Empty

\* What the core that carries the profile gets: Xray's for xrayvless.
BuildOf(s, p) ==
  LET o == p.o
  IN  CASE p.type = "socks" -> socks_Build(s, o)
        [] p.type = "http" -> http_Build(s, o)
        [] p.type = "shadowsocks" -> shadowsocks_Build(s, o)
        [] p.type = "vmess" -> vmess_Build(s, o)
        [] p.type = "trojan" -> Trojan_Build(s, o)
        [] p.type = "vless" -> vless_Build(s, o)
        [] p.type = "xrayvless" -> xrayVless_BuildXray(s, o)
        [] p.type = "hysteria" -> hysteria_Build(s, o)
        [] p.type = "tuic" -> tuic_Build(s, o)
        [] p.type = "juicity" -> juicity_Build(s, o)
        [] p.type = "trusttunnel" -> trusttunnel_Build(s, o)
        [] p.type = "anytls" -> anyTLS_Build(s, o)
        [] p.type = "mieru" -> mieru_Build(s, o)
        [] p.type = "shadowtls" -> shadowtls_Build(s, o)
        [] p.type = "wireguard" -> wireguard_Build(o)
        [] p.type = "tailscale" -> tailscale_Build(o)
        [] p.type = "ssh" -> ssh_Build(s, o)
        [] p.type = "custom" -> Custom_Build(o)
        [] p.type = "extracore" -> extracore_Build(o)
        [] p.type = "naive" -> naive_Build(s, o)
        [] p.type = "direct" -> direct_Build(o)
        [] OTHER -> Empty

(* ExportJsonLink: the text is the base64 of the object, so two links are      *)
(* equal when the objects are.  Subscription updates compare this text.        *)
ExportJsonLink(p) == [scheme |-> "json", data |-> ExportToJson(p)]
ProfileFilter_ent_key(p) == ExportJsonLink(p)

(***************************************************************************)
(* Clash: known keys only; flags and numbers are read leniently            *)
(***************************************************************************)
MyBool(v) == IF v \in {"true", "1"} THEN "true" ELSE "false"
MyInt(v) == IF v = "text" THEN "0" ELSE v

Lenient(d, known, flags, numbers) ==
  [k \in DOMAIN d \cap known |-> IF k \in flags THEN MyBool(d[k])
                                ELSE IF k \in numbers THEN MyInt(d[k]) ELSE d[k]]

SmuxFlags == {"enabled", "padding"}
SmuxNumbers == {"max-connections", "max-streams", "min-streams"}
smuxOpts(d) == Lenient(d, SmuxFlags \cup SmuxNumbers \cup {"protocol"}, SmuxFlags, SmuxNumbers)
wsOpts(d) ==
  Lenient(d, {"early-data-header-name", "headers", "max-early-data", "path", "v2ray-http-upgrade"},
          {"v2ray-http-upgrade"}, {"max-early-data"})

XhttpFlags == {"x-padding-obfs-mode", "tls"}
Reuse == {ReuseClash[f] : f \in DOMAIN ReuseClash}
Paddings == {PaddingClash[f] : f \in DOMAIN PaddingClash}
xhttpReuseSettings(d) == Lenient(Obj(d, "reuse-settings"), Reuse, {}, {})
xhttpCommon(d, more) ==
  Lenient(d, DOMAIN XHTTPPlain \cup Paddings \cup more, XhttpFlags, {"port"})
  @@ PutObj("reuse-settings", xhttpReuseSettings(d))
realityOpts(d) == Lenient(Obj(d, "reality-opts"), {"public-key", "short-id"}, {}, {})
xhttpDownloadSettings(d) ==
  xhttpCommon(d, {"server", "port", "tls", "alpn", "servername", "client-fingerprint"})
  @@ PutObj("reality-opts", realityOpts(d))
xhttpOpts(d) ==
  xhttpCommon(d, {"sc-min-posts-interval-ms"})
  @@ When(Has(d, "download-settings"),
          "download-settings" :> xhttpDownloadSettings(d["download-settings"]))

ProxyFlags == {"tls", "skip-cert-verify", "disable_mtu_discovery", "udp-over-tcp", "reduce-rtt"}
ProxyNumbers == {"port", "alterId", "recv-window", "recv-window-conn", "recv_window",
                 "recv_window_conn", "heartbeat-interval", "idle-session-check-interval",
                 "idle-session-timeout", "min-idle-session"}
ProxyTexts == {"name", "type", "server", "cipher", "uuid", "servername", "network", "h2-opts",
               "http-opts", "grpc-opts", "username", "password", "sni", "alpn", "plugin",
               "plugin-opts", "obfs", "client-fingerprint", "flow", "packet-encoding", "auth-str",
               "auth_str", "down", "up", "ports", "ip", "private-key", "private-key-passphrase",
               "host-key", "host-key-algorithms", "congestion-controller", "udp-relay-mode",
               "obfs-password", "encryption"}

Proxies(c) ==
  Lenient(c, ProxyFlags \cup ProxyNumbers \cup ProxyTexts, ProxyFlags, ProxyNumbers)
  @@ PutObj("smux", smuxOpts(Obj(c, "smux"))) @@ PutObj("ws-opts", wsOpts(Obj(c, "ws-opts")))
  @@ PutObj("xhttp-opts", xhttpOpts(Obj(c, "xhttp-opts")))
  @@ PutObj("reality-opts", realityOpts(c))

(* A list written as a text: the exception reaches past the whole file.        *)
IllTyped(c) == Str(Obj(c, "http-opts"), "path") = "text"

InXray(c) == Str(c, "network") = "xhttp" \/ Str(c, "encryption") \notin {"", "none"}

FromClash(given) ==
  LET c == Proxies(given)
      type == Str(c, "type")
  IN  CASE type = "socks5" -> Accepted(ProfileOf("socks", socks_ParseFromClash(c)))
        [] type = "http" -> Accepted(ProfileOf("http", http_ParseFromClash(c)))
        [] type = "ss" -> Accepted(ProfileOf("shadowsocks", shadowsocks_ParseFromClash(c)))
        [] type = "vmess" -> Accepted(ProfileOf("vmess", vmess_ParseFromClash(c)))
        [] type = "vless" /\ InXray(c) -> Accepted(ProfileOf("xrayvless", xrayVless_ParseFromClash(c)))
        [] type = "vless" /\ ~InXray(c) -> Accepted(ProfileOf("vless", vless_ParseFromClash(c)))
        [] type = "trojan" -> Accepted(ProfileOf("trojan", Trojan_ParseFromClash(c)))
        [] type = "anytls" -> Accepted(ProfileOf("anytls", anyTLS_ParseFromClash(c)))
        [] type \in {"hysteria", "hysteria2"} -> Accepted(ProfileOf("hysteria", hysteria_ParseFromClash(c)))
        [] type = "tuic" -> Accepted(ProfileOf("tuic", tuic_ParseFromClash(c)))
        [] type = "ssh" -> Accepted(ProfileOf("ssh", ssh_ParseFromClash(c)))
        [] OTHER -> << >>

Concat(parse(_), l) ==
  LET f[i \in 0 .. Len(l)] == IF i = 0 THEN << >> ELSE f[i - 1] \o parse(l[i]) IN f[Len(l)]

updateClash(proxies) ==
  IF \E i \in DOMAIN proxies : IllTyped(proxies[i]) THEN << >> ELSE Concat(FromClash, proxies)

(***************************************************************************)
(* JSON: outbounds of Xray carry "protocol", those of sing-box "type"      *)
(***************************************************************************)
SystemProtocols == {"freedom", "blackhole", "dns", "loopback"}

normalizeXrayVlessForParse(d) ==
  LET settings == Obj(d, "settings")
      server == Obj(settings, "vnext")
      user == Obj(server, "users")
  IN  CASE Has(settings, "address") /\ ~Has(settings, "vnext") -> d
        [] DOMAIN user # {} ->
             ("settings" :> [address |-> Str(server, "address"), port |-> Str(server, "port"),
                             id |-> Str(user, "id"), flow |-> Str(user, "flow"),
                             encryption |-> IF Has(user, "encryption") THEN user.encryption
                                            ELSE "none"]) @@ d
        [] OTHER -> Empty

makeProfileForXrayOutbound(d) ==
  LET normal == normalizeXrayVlessForParse(d)
      custom == ProfileOf("custom", [type |-> "xrayoutbound", config |-> d] @@ Put("name", Str(d, "tag")))
  IN  CASE DOMAIN d = {} \/ Str(d, "protocol") \in SystemProtocols -> << >>
        [] Str(d, "protocol") = "vless" /\ DOMAIN normal # {} ->
             <<ProfileOf("xrayvless", xrayVless_ParseFromJson(normal))>>
        [] OTHER -> <<custom>>

updateXray(l) == Concat(makeProfileForXrayOutbound, l)

\* A Tailscale endpoint is not among them.
SingBoxTypes == {"socks", "http", "shadowsocks", "vmess", "vless", "trojan", "anytls", "mieru",
                 "hysteria", "hysteria2", "tuic", "juicity", "trusttunnel", "shadowtls",
                 "wireguard", "ssh", "naive"}
ClassOf(type) == IF type = "hysteria2" THEN "hysteria" ELSE type
FromSingBox(d) ==
  IF Str(d, "type") \notin SingBoxTypes THEN << >>
  ELSE Accepted(ProfileOf(ClassOf(d.type), ParseFromJson(d.type, d)))
updateSingBox(l) == Concat(FromSingBox, l)

FromSIP008(d) == Accepted(ProfileOf("shadowsocks", shadowsocks_ParseFromSIP008(d)))
updateSIP008(l) == Concat(FromSIP008, l)

\* A JSON value is an object [object |-> d] or an array [array |-> l].
getXraySubType(v) ==
  LET d == Obj(v, "object")
      outbounds == List(d, "outbounds")
  IN  CASE \E i \in DOMAIN outbounds : Has(outbounds[i], "protocol") -> "outboundInJson"
        [] Has(d, "protocol") -> "outboundObject"
        [] List(v, "array") # << >> /\ Has(v.array[1], "protocol") -> "outboundJsonArray"
        [] OTHER -> "invalid"
getSingBoxSubType(v) ==
  LET d == Obj(v, "object")
  IN  CASE Has(d, "outbounds") \/ Has(d, "endpoints") -> "outboundInJson"
        [] Has(d, "type") -> "outboundObject"
        [] List(v, "array") # << >> /\ Has(v.array[1], "type") -> "outboundJsonArray"
        [] OTHER -> "invalid"

updateJson(v) ==
  LET d == Obj(v, "object")
      xray == getXraySubType(v)
      sing == getSingBoxSubType(v)
  IN  CASE xray = "outboundObject" -> makeProfileForXrayOutbound(d)
        [] xray = "outboundInJson" -> updateXray(d.outbounds)
        [] xray = "outboundJsonArray" -> updateXray(v.array)
        [] xray = "invalid" /\ sing = "outboundInJson" ->
             updateSingBox(List(d, "outbounds") \o List(d, "endpoints"))
        [] xray = "invalid" /\ sing = "outboundJsonArray" -> updateSingBox(v.array)
        [] xray = "invalid" /\ sing = "outboundObject" ->
             <<ProfileOf("custom", [type |-> "outbound", config |-> d])>>
        [] OTHER -> IF Has(d, "version") THEN updateSIP008(List(d, "servers")) ELSE << >>

(***************************************************************************)
(* One link                                                                *)
(***************************************************************************)
useXrayVless(s, q) ==
  LET preference == Str(s, "xray_vless_preference")
  IN  \/ preference = "AllVLESS" \/ Str(q, "type") = "xhttp"
      \/ Str(q, "security") = "reality" /\ preference = "XhttpAndReality"
      \/ Str(q, "encryption") \notin {"", "none"}
      \/ Has(q, "extra")

FromJsonLink(d) ==
  LET type == IF Has(d, "protocol") THEN "xray" \o d.protocol ELSE ClassOf(Str(d, "type"))
      o == ParseFromJson(type, d)
  IN  Accepted(ProfileOf(type, o))

FromLink(s, link) ==
  LET is(schemes) == link.scheme \in schemes
      xray == useXrayVless(s, Query(link))
  IN  CASE is({"json"}) -> FromJsonLink(link.data)
        [] is({"socks5", "socks4", "socks4a", "socks"}) ->
             Accepted(ProfileOf("socks", socks_ParseFromLink(link)))
        [] is({"http", "https"}) -> Accepted(ProfileOf("http", http_ParseFromLink(link)))
        [] is({"ss"}) -> Accepted(ProfileOf("shadowsocks", shadowsocks_ParseFromLink(link)))
        [] is({"vmess"}) -> Accepted(ProfileOf("vmess", vmess_ParseFromLink(link)))
        [] is({"vless"}) /\ xray -> Accepted(ProfileOf("xrayvless", xrayVless_ParseFromLink(link)))
        [] is({"vless"}) /\ ~xray -> Accepted(ProfileOf("vless", vless_ParseFromLink(link)))
        [] is({"trojan"}) -> Accepted(ProfileOf("trojan", Trojan_ParseFromLink(link)))
        [] is({"anytls"}) -> Accepted(ProfileOf("anytls", anyTLS_ParseFromLink(link)))
        [] is({"mierus"}) -> Accepted(ProfileOf("mieru", mieru_ParseFromLink(link)))
        [] is({"hysteria", "hysteria2", "hy2"}) ->
             Accepted(ProfileOf("hysteria", hysteria_ParseFromLink(link)))
        [] is({"tuic"}) -> Accepted(ProfileOf("tuic", tuic_ParseFromLink(link)))
        [] is({"juicity"}) -> Accepted(ProfileOf("juicity", juicity_ParseFromLink(link)))
        [] is({"tt"}) -> Accepted(ProfileOf("trusttunnel", trusttunnel_ParseFromLink(link)))
        [] is({"shadowtls"}) -> Accepted(ProfileOf("shadowtls", shadowtls_ParseFromLink(link)))
        [] is({"wg"}) -> Accepted(ProfileOf("wireguard", wireguard_ParseFromLink(link)))
        [] is({"ssh"}) -> Accepted(ProfileOf("ssh", ssh_ParseFromLink(link)))
        [] is({"naive+https", "naive+quic"}) -> Accepted(ProfileOf("naive", naive_ParseFromLink(link)))
        [] OTHER -> << >>

(***************************************************************************)
(* The whole text.  Lines are dissected once; a line may be base64 of more *)
(* text, and an object whose braces do not balance ends the dissection.    *)
(***************************************************************************)
Disect(lines) ==
  LET open == {i \in DOMAIN lines : Has(lines[i], "open")}
      end == IF open = {} THEN Len(lines) ELSE (CHOOSE i \in open : \A j \in open : i <= j) - 1
  IN  SubSeq(lines, 1, end)

RECURSIVE update(_, _)
update(s, text) ==
  LET line(t) == update(s, t)
  IN  CASE Has(text, "base64") -> update(s, text.base64)
        [] Has(text, "json") -> updateJson(text.json)
        [] Has(text, "proxies") -> updateClash(text.proxies)
        [] Has(text, "conf") -> Accepted(ProfileOf("wireguard", wireguard_ParseFromConf(text.conf)))
        [] Has(text, "lines") -> Concat(line, Disect(text.lines))
        [] Has(text, "link") -> FromLink(s, text.link)
        [] OTHER -> << >>
===============================================================================
