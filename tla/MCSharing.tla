------------------------------- MODULE MCSharing -------------------------------
(* Profiles, texts and settings for TLC.  A profile is a base with one feature *)
(* or with two of the chosen ones; every field of every class occurs.          *)
EXTENDS Sharing

\* A value per field; flags are true.
MCFlags == {"enabled", "insecure", "disable_sni", "record_fragment", "padding", "uot", "quic",
            "global_padding", "authenticated_length", "health_check", "udp_over_stream",
            "zero_rtt_handshake", "disable_mtu_discovery", "ephemeral", "accept_routes",
            "exit_node_allow_lan_access", "advertise_exit_node", "globalDNS", "system",
            "enable_amnezia", "multiMode", "noGRPCHeader", "noSSEHeader", "xPaddingObfsMode",
            "reuse_addr", "tcp_fast_open", "tcp_multi_path", "udp_fragment", "noLogs",
            "fragment", "tls_tricks"}
MCField(f) == f :> (IF f \in MCFlags THEN "true" ELSE "v " \o f)
MCEach(F) == {MCField(f) : f \in F}
MCIn(k, D) == {k :> d : d \in D}
MCOn == "enabled" :> "true"

MCUtls == [enabled |-> "true", fingerPrint |-> "chrome"]
MCReality == [enabled |-> "true", public_key |-> "key"]
MCTls ==
  {MCOn} \cup {MCOn @@ d : d \in MCEach(TLSPlain \cup TLSMore \cup TLSTri)
                 \cup {[fragment |-> "false"], [tls_tricks |-> "false"], [utls |-> MCUtls],
                       [reality |-> MCReality], [reality |-> MCReality, utls |-> MCUtls],
                       [reality |-> MCReality @@ [short_id |-> "id"]],
                       [reality |-> [public_key |-> "key"]],
                       [utls |-> [fingerPrint |-> "chrome"]],
                       [ech |-> MCOn @@ [config |-> "c"]],
                       [ech |-> MCOn @@ [config_path |-> "p", serverName |-> "n"]]}}
  \cup {"server_name" :> "name"}
MCTransport ==
  {"type" :> t : t \in {"http", "ws", "grpc", "httpupgrade", "tcp"}}
  \cup {("type" :> "ws") @@ d : d \in
          {[path |-> "/p"], [path |-> PathWithEd], [host |-> "h"], [headers |-> <<"K", "v">>],
           [headers |-> <<"K", "v", "odd">>], [host |-> "h", headers |-> <<"K", "v">>],
           [path |-> "/p", max_early_data |-> "2048", early_data_header_name |-> "E"]}}
  \cup {("type" :> "http") @@ d : d \in
          {[method |-> "GET", host |-> "h"], [idle_timeout |-> "1s"], [ping_timeout |-> "1s"]}}
  \cup {[type |-> "grpc", service_name |-> "s"], [type |-> "httpupgrade", host |-> "h"],
        [type |-> "grpc", host |-> "h"], [path |-> "/p"]}
MCBrutal == MCOn @@ [up_mbps |-> "10", down_mbps |-> "20"]
MCMux ==
  {MCOn, [enabled |-> "false"], [protocol |-> "smux"], [brutal |-> MCBrutal]}
  \cup {MCOn @@ d : d \in MCEach(MuxFields) \cup {[brutal |-> MCBrutal]}}
MCDial == {"bind_interface" :> "eth0", MCField("tcp_fast_open"), MCField("connect_timeout")}
MCAddress == {[name |-> "name"], [server_port |-> "-1"]}

MCLayers == MCIn("tls", MCTls) \cup MCIn("transport", MCTransport) \cup MCIn("multiplex", MCMux)
MCForced == MCIn("tls", {t \in MCTls : Has(t, "enabled")})
MCHeaders == MCIn("headers", {<<"K", "v">>, <<"odd">>})

\* Features of a class, and its base.
MCFeatures(type) ==
  CASE type = "socks" -> MCEach({"username", "password", "uot"}) \cup
                         {[version |-> "4"], [username |-> "b64pair"]}
    [] type = "http" -> MCEach({"username", "password", "path"}) \cup MCHeaders
                        \cup MCIn("tls", MCTls) \cup {[username |-> "b64word"]}
    [] type = "shadowsocks" -> {[plugin |-> "p"], [plugin |-> "p", plugin_opts |-> "o"],
                                [plugin |-> PluginWithOpts], [method |-> "2022-blake3-aes-128-gcm"]}
                               \cup MCEach({"uot"}) \cup MCIn("multiplex", MCMux)
    [] type = "vmess" -> MCLayers \cup MCEach({"alter_id", "global_padding", "authenticated_length"})
                         \cup {[security |-> "zero"], [packet_encoding |-> "packetaddr"]}
    [] type = "vless" -> MCLayers \cup MCEach({"flow"}) \cup {[packet_encoding |-> "packetaddr"]}
    [] type = "trojan" -> MCLayers
    [] type = "anytls" -> MCForced \cup MCEach(DOMAIN NewAnyTLS)
    [] type = "shadowtls" -> MCForced \cup {[version |-> v, password |-> "p"] : v \in {"1", "2", "3"}}
    [] type = "juicity" -> MCForced
    [] type = "tuic" -> MCForced \cup MCEach(DOMAIN tuicKeys)
                        \cup {[udp_over_stream |-> "true", udp_relay_mode |-> "native"]}
    [] type = "naive" -> MCForced \cup MCEach({"username", "password", "uot", "quic"})
                         \cup {[quic |-> "true", congestion_control |-> "bbr"]}
    [] type = "trusttunnel" -> MCForced \cup MCEach({"health_check", "quic"})
                               \cup {[quic |-> "true", congestion_control |-> "bbr"]}
    [] type = "hysteria" -> MCForced \cup MCEach(DOMAIN HysteriaCommon \cup {"obfs"})
         \cup {[server_ports |-> PortRange], [server_ports |-> "1000-2000"]}
         \cup {[protocol_version |-> "2", password |-> p] : p \in {"word", Pair}}
         \cup {[protocol_version |-> "2", obfs |-> "o"]}
         \cup {("protocol_version" :> "1") @@ d : d \in MCEach(DOMAIN HysteriaV1)
                 \cup {[auth |-> "a", auth_type |-> t] : t \in {"STRING", "BASE64"}}}
    [] type = "ssh" -> MCEach(DOMAIN sshKeys)
    [] type = "mieru" -> MCEach({"multiplexing", "traffic_pattern"})
                         \cup {[server_ports |-> "9000-9010"], [transport |-> "UDP"]}
    [] type = "tailscale" -> MCEach(DOMAIN tailscaleKeys \cup {"globalDNS"})
    [] type = "wireguard" -> MCEach(DOMAIN wireguardLink \ {"private_key"})
         \cup {[address |-> "10.0.0.2"]}
         \cup {MCField("enable_amnezia") @@ d : d \in MCEach(AmneziaFields) \cup {Empty}}
         \cup MCIn("peer", {[public_key |-> "k", address |-> "a", port |-> "1"] @@ d :
                              d \in MCEach(DOMAIN PeerLink)})
    [] OTHER -> {}

MCBase(type) ==
  LET at == [server |-> "a", server_port |-> "1"]
      user == [username |-> "u", password |-> "p"]
      uuid == [uuid |-> "i", password |-> "p"]
      tls == "tls" :> MCOn
  IN  CASE type = "socks" -> at @@ NewSocks
        [] type = "shadowsocks" -> at @@ [method |-> "m", password |-> "p"]
        [] type = "vmess" -> at @@ NewVMess @@ [uuid |-> "i"]
        [] type = "vless" -> at @@ NewVLESS @@ [uuid |-> "i"]
        [] type = "trojan" -> at @@ [password |-> "p"] @@ tls
        [] type = "anytls" -> at @@ [password |-> "p"] @@ tls @@ NewAnyTLS
        [] type = "shadowtls" -> at @@ tls @@ [version |-> "1"]
        [] type \in {"juicity", "tuic"} -> at @@ uuid @@ tls
        [] type = "naive" -> at @@ tls
        [] type = "trusttunnel" -> at @@ user @@ tls
        [] type = "hysteria" -> at @@ tls @@ NewHysteria
        [] type = "mieru" -> at @@ user @@ NewMieru
        [] type = "tailscale" -> NewTailscale
        [] type = "wireguard" -> at @@ NewWireguard
             @@ [private_key |-> "s", peer |-> [public_key |-> "k", address |-> "a", port |-> "1"]]
        [] OTHER -> at

MCTypes == {"socks", "http", "shadowsocks", "vmess", "vless", "trojan", "anytls", "shadowtls",
            "juicity", "tuic", "naive", "trusttunnel", "hysteria", "ssh", "mieru", "tailscale",
            "wireguard"}
MCCommon(type) ==
  IF type = "tailscale" THEN {Empty, [name |-> "name"]} ELSE MCIn("dialFields", MCDial) \cup MCAddress \cup {Empty}

MCSingBox ==
  UNION {{ProfileOf(t, d @@ MCBase(t)) : d \in MCFeatures(t) \cup MCCommon(t)}
         \cup {ProfileOf(t, Without(MCBase(t), {f})) :
                  f \in {"server_port", "idle_session_timeout", "mtu", "control_url", "version"}} : t \in MCTypes}

\* Xray
MCXSecurity ==
  {[security |-> "none"]}
  \cup {[security |-> "tls", security_settings |-> d] : d \in MCEach({"serverName"} \cup DOMAIN xrayTLSKeys)}
  \cup {[security |-> "reality", security_settings |-> d] : d \in MCEach({"serverName"} \cup DOMAIN xrayRealityKeys)}
MCXhttp ==
  {NewXHTTP} \cup {d @@ NewXHTTP : d \in MCEach(DOMAIN ExtraKeys \cup DOMAIN XmuxKeys \cup {"host", "path"})
     \cup MCHeaders \cup {[xPaddingKey |-> Apostrophe], [rawExtra |-> [custom |-> "c"]],
                          [rawXmux |-> [custom |-> "c"]], [mode |-> "stream-one"],
                          [downloadSettings |-> [address |-> "b"]],
                          [mode |-> "stream-one", downloadSettings |-> [address |-> "b"]]}}
MCWs == MCEach({"host", "heartbeatPeriod"}) \cup MCHeaders
        \cup {[path |-> "/p"], [path |-> "/p", ed |-> "2048"], [ed |-> "2048"], [path |-> "/"], Empty}
MCXSettings ==
  {[network |-> "raw"], [network |-> "kcp", security |-> "none"]}
  \cup {[network |-> "xhttp", settings |-> d] : d \in MCXhttp}
  \cup {[network |-> "ws", settings |-> d] : d \in MCWs}
  \cup {[network |-> "httpupgrade", settings |-> Without(d, {"heartbeatPeriod"})] : d \in MCWs}
  \cup {[network |-> "grpc", settings |-> d] : d \in MCEach(DOMAIN xrayGRPCKeys) \cup {Empty}}
MCTidy(d) == IF DOMAIN Obj(d, "settings") = {} THEN Without(d, {"settings"}) ELSE d
MCStream == {d @@ [network |-> "raw"] : d \in MCXSecurity} \cup {MCTidy(d) @@ [security |-> "none"] : d \in MCXSettings}
            \cup {MCTidy(d) @@ [security |-> "tls", security_settings |-> [serverName |-> "n"]] :
                    d \in {e \in MCXSettings : e.network # "kcp"}}
MCXMux == {NewXrayMux, NewXrayMux @@ MCOn, NewXrayMux @@ [enabled |-> "false"],
           [xudpConcurrency |-> "8"] @@ MCOn, NewXrayMux @@ MCOn @@ [concurrency |-> "4"],
           NewXrayMux @@ [concurrency |-> "4"], MCOn}
MCXray ==
  {ProfileOf("xrayvless", d @@ NewXrayVless @@ [server |-> "a", server_port |-> "1", uuid |-> "i"]) :
     d \in {[streamSetting |-> t] : t \in MCStream} \cup {[multiplex |-> m] : m \in MCXMux}
           \cup {[flow |-> "f"], [encryption |-> "e"], [name |-> "name"], [server_port |-> "-1"]}
           \cup {[dialFields |-> d] : d \in MCDial}}

MCOther ==
  {ProfileOf("custom", [type |-> t, config |-> [type |-> "x"], name |-> "name"]) : t \in {"outbound", "xrayoutbound"}}
  \cup {ProfileOf("extracore", NewExtraCore @@ MCField(f)) : f \in DOMAIN ExtraCoreKeys \ {"socksAddress"}}
  \cup {ProfileOf("chain", [list |-> <<"1", "2">>])}
  \cup {ProfileOf("direct", [dialFields |-> d]) : d \in MCDial}

MCEdited == MCSingBox \cup MCXray \cup MCOther
MCSettings == {Empty, [utlsFingerprint |-> "firefox", fragment_default_on |-> "true", mux_default_on |-> "true",
                       mux_protocol |-> "h2mux", mux_concurrency |-> "8", xray_mux_default_on |-> "true",
                       tls_tricks_default_on |-> "true", xray_vless_preference |-> "XhttpAndReality"]}

\* Clash proxies: what every type has, and one feature each.
MCProxy(t) == [type |-> t, name |-> "n", server |-> "a", port |-> "1", uuid |-> "i",
               username |-> "u", password |-> "p", cipher |-> "auto"]
MCRealityOpts == "reality-opts" :> (("public-key" :> "k") @@ ("short-id" :> "s"))
MCClashTls ==
  {"tls" :> "1", [tls |-> "true", sni |-> "x", alpn |-> "h2"], [tls |-> "true", servername |-> "x"],
   "skip-cert-verify" :> "true", "client-fingerprint" :> "chrome", MCRealityOpts @@ [tls |-> "true"]}
MCClashTransport ==
  {[network |-> "ws"], [network |-> "tcp"], [network |-> "h2"],
   [network |-> "ws", servername |-> "x"] @@ ("ws-opts" :> ("path" :> "/p")),
   [network |-> "ws"] @@ ("ws-opts" :> (("path" :> PathWithEd) @@ ("headers" :> ("Host" :> "h")))),
   [network |-> "ws"] @@ ("ws-opts" :> (("v2ray-http-upgrade" :> "true") @@ ("path" :> "/p"))),
   [network |-> "ws"] @@ ("ws-opts" :> (("early-data-header-name" :> "E") @@ ("max-early-data" :> "2048"))),
   [network |-> "grpc"] @@ ("grpc-opts" :> ("grpc-service-name" :> "s")),
   "h2-opts" :> (("path" :> "/p") @@ ("host" :> "h")),
   "http-opts" :> (("method" :> "GET") @@ ("path" :> "/p")),
   "http-opts" :> (("method" :> "GET") @@ ("path" :> "text"))}
MCClashMux ==
  {"smux" :> d : d \in {[enabled |-> "true", protocol |-> "smux"],
                        ("enabled" :> "true") @@ ("max-streams" :> "8"),
                        ("enabled" :> "true") @@ ("max-connections" :> "4") @@ ("padding" :> "1")}}
MCXhttpOpts ==
  {Empty, [path |-> "/p", host |-> "h", mode |-> "stream-one"], "sc-min-posts-interval-ms" :> "9",
   "x-padding-key" :> "k", "reuse-settings" :> ("max-concurrency" :> "2")}
MCDownload == {[server |-> "b", port |-> "2", tls |-> "true", alpn |-> "h3"],
               MCRealityOpts @@ [server |-> "b", port |-> "2", servername |-> "x"],
               ("reuse-settings" :> ("max-connections" :> "2")) @@ [server |-> "b", port |-> "2"]}
MCClashXray ==
  {[network |-> "xhttp"] @@ ("xhttp-opts" :> x) :
     x \in MCXhttpOpts \cup {"download-settings" :> x : x \in MCDownload}}
  \cup {[encryption |-> "e", tls |-> "true"] @@ x : x \in MCClashTransport \cup {MCRealityOpts, Empty}}
MCClashOwn(t) ==
  CASE t = "ss" -> {"plugin" :> "obfs", ("plugin" :> "obfs") @@ ("plugin-opts" :> ("mode" :> "tls")),
                    "udp-over-tcp" :> "true"} \cup MCClashMux
    [] t = "vmess" -> {"alterId" :> "1", "alterId" :> "text", "packet-encoding" :> "xudp"}
                      \cup MCClashTls \cup MCClashTransport \cup MCClashMux
    [] t = "vless" -> {"flow" :> "f"} \cup MCClashTls \cup MCClashTransport \cup MCClashMux \cup MCClashXray
    [] t = "trojan" -> MCClashTls \cup MCClashTransport \cup MCClashMux
    [] t = "anytls" -> {"idle-session-timeout" :> "9", "idle-session-check-interval" :> "9", "min-idle-session" :> "1"}
    [] t = "hysteria" -> {"recv-window-conn" :> "1", "recv_window" :> "1", "auth-str" :> "a",
                          "obfs" :> "o", "ports" :> "1000-2000", [up |-> "1", down |-> "2"]}
    [] t = "hysteria2" -> {"obfs-password" :> "o", "ports" :> "1000-2000"}
    [] t = "tuic" -> {"ip" :> "b", "heartbeat-interval" :> "9", "reduce-rtt" :> "true",
                      "congestion-controller" :> "bbr", "udp-relay-mode" :> "native"}
    [] t = "ssh" -> {"private-key" :> "k", "host-key" :> "h"}
    [] OTHER -> MCClashTls
MCClashTypes == {"socks5", "http", "ss", "vmess", "vless", "trojan", "anytls", "hysteria",
                 "hysteria2", "tuic", "ssh", "snell"}
MCProxies == UNION {{d @@ MCProxy(t) : d \in MCClashOwn(t) \cup {Empty}} : t \in MCClashTypes}

\* Links: of the bases, without a port, and those only other programs write.
MCPlain == {ProfileOf(t, MCBase(t)) : t \in MCTypes}
MCXPlain == ProfileOf("xrayvless", NewXrayVless @@ [server |-> "a", server_port |-> "1", uuid |-> "i"])
MCVless == [scheme |-> "vless", user |-> "i", host |-> "a", port |-> "1"]
MCSecret == [method |-> "m", password |-> "p"]
MCConf == [PrivateKey |-> "s", Address |-> "10.0.0.2", PublicKey |-> "k", EndpointHost |-> "a",
           EndpointPort |-> "1", jc |-> "3"]
MCLinks ==
  {ExportToLink(p) : p \in MCSingBox \cup MCXray}
  \cup {Without(ExportToLink(p), {"port"}) : p \in MCPlain}
  \cup {MCVless @@ [query |-> q] : q \in
         {[type |-> "h2", security |-> "tls"], [type |-> "xhttp", security |-> "tls", sni |-> "x"],
          [type |-> "tcp", headerType |-> "http"], [type |-> "xhttp", extra |-> [xPaddingKey |-> "k", mode |-> "m"]],
          [type |-> "xhttp", max_concurrency |-> "2", no_grpc_header |-> "1"],
          [encryption |-> "e", type |-> "kcp", security |-> "tls"],
          [encryption |-> "e", security |-> "reality", pbk |-> "k", fp |-> "chrome"],
          [type |-> "grpc", mode |-> "multi", encryption |-> "e"], [mux |-> "1", encryption |-> "e"]}}
  \cup {[scheme |-> "socks4", user |-> "u", host |-> "a", port |-> "1"],
        [scheme |-> "socks", user |-> "b64pair", host |-> "a", port |-> "1"],
        [scheme |-> "vmess", v2rayn |-> [id |-> "i", add |-> "a", port |-> "1", ps |-> "n", aid |-> "1",
                                         net |-> "ws", path |-> "/p", tls |-> "tls", sni |-> "x"]],
        [scheme |-> "ss", whole |-> [b64user |-> MCSecret, host |-> "a", port |-> "1"], fragment |-> "n"],
        [scheme |-> "ss", b64user |-> MCSecret, host |-> "a", port |-> "1",
         query |-> [plugin |-> <<"simple-obfs", "o">>]],
        [scheme |-> "hysteria2", user |-> "left", password |-> "right", host |-> "a", ports |-> "1000-2000"],
        [scheme |-> "hysteria", host |-> "a", port |-> "1", query |-> [mport |-> "1000-2000", auth |-> "a"]],
        [scheme |-> "ts", host |-> "tailscale"], [scheme |-> "wg", conf |-> MCConf], [scheme |-> "gopher"],
        [scheme |-> "json", data |-> [type |-> "chain", list |-> <<"7", "8">>]],
        ExportJsonLink(MCXPlain)}

\* JSON of the two cores.
MCVnext == [protocol |-> "vless", tag |-> "n",
            settings |-> [vnext |-> [address |-> "a", port |-> "1", users |-> [id |-> "i"]]]]
MCSip == [server |-> "a", server_port |-> "1", method |-> "m", password |-> "p", remarks |-> "n"]
MCRows == {ExportToJson(p) : p \in MCPlain}
MCJson ==
  {[array |-> <<d>>] : d \in MCRows} \cup {[object |-> [outbounds |-> <<d, [type |-> "urltest"]>>]] : d \in MCRows}
  \cup {[object |-> [endpoints |-> <<d>>]] : d \in {e \in MCRows : e.type = "wireguard"}}
  \cup {[object |-> d] : d \in {e \in MCRows : e.type = "http"}}
  \cup {[array |-> <<ExportToJson(MCXPlain)>>], [object |-> MCVnext], [object |-> [outbounds |-> <<>>]],
        [object |-> [outbounds |-> <<MCVnext, [protocol |-> "freedom"], [protocol |-> "trojan", tag |-> "t"]>>]],
        [object |-> [version |-> "1", servers |-> <<MCSip, [plugin |-> "simple-obfs"] @@ MCSip, [server |-> "a"]>>]]}
  \cup {[array |-> <<d @@ ExportToJson(ProfileOf("http", MCBase("http")))>>] : d \in
          {[tls |-> [enabled |-> "true", reality |-> [public_key |-> "key"]]],
           [tls |-> [enabled |-> "true", utls |-> [fingerprint |-> "chrome"]]]}}
  \cup {[array |-> <<[plugin |-> PluginWithOpts] @@ ExportToJson(ProfileOf("shadowsocks", MCBase("shadowsocks")))>>]}

MCAsLine(link) == [link |-> link]
MCTexts ==
  {[link |-> l] : l \in MCLinks} \cup {[json |-> v] : v \in MCJson} \cup {[proxies |-> <<c>>] : c \in MCProxies}
  \cup {[conf |-> MCConf], [comment |-> "#"],
        [proxies |-> <<MCProxy("ss"), "http-opts" :> ("path" :> "text")>>],
        [base64 |-> [lines |-> <<MCAsLine(MCVless), [comment |-> "#"], [base64 |-> [lines |-> <<MCAsLine(MCVless)>>]],
                                 [open |-> "{"], MCAsLine(MCVless)>>]]}
===============================================================================
