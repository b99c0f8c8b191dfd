------------------------------ MODULE XrayCodecs ------------------------------
(* The Xray outbound, VLESS, and its stream settings: TLS, Reality and the     *)
(* transports XHTTP, WebSocket, HTTPUpgrade and gRPC, in links, JSON and       *)
(* Clash.  o, s, d, q and c as in CommonCodecs.                                *)
EXTENDS PacketOutbounds

XrayNetworks == {"raw", "xhttp", "ws", "httpupgrade", "grpc"}

(***************************************************************************)
(* TLS and Reality: the name is always written, the fingerprint of the     *)
(* settings is only used by a Build that the stream settings do not call   *)
(***************************************************************************)
NameIn(c) == Put("serverName", IF Has(c, "servername") THEN c.servername
                               ELSE IF Has(c, "sni") THEN c.sni ELSE Str(c, "server"))
AlwaysNamed(o) == "serverName" :> Str(o, "serverName")

xrayTLSKeys == Same({"pinnedPeerCertSha256", "verifyPeerCertByName", "alpn", "fingerprint"})
xrayTLSLink == [pinnedPeerCertSha256 |-> "pcs", verifyPeerCertByName |-> "vcn",
                alpn |-> "alpn", fingerprint |-> "fp"]

xrayTLS_ParseFromLink(q) ==
  Put("serverName", LastOf(q, <<"sni", "peer", "server_name">>)) @@ Read(q, xrayTLSLink, Empty)
xrayTLS_ParseFromJson(d) == Read(d, Same({"serverName"}) @@ xrayTLSKeys, Empty)
xrayTLS_ParseFromClash(c) ==
  NameIn(c) @@ Read(c, [alpn |-> "alpn", fingerprint |-> "client-fingerprint"], Empty)
xrayTLS_ExportToLink(o) == ("sni" :> Str(o, "serverName")) @@ Write(o, xrayTLSLink)
xrayTLS_ExportToJson(o) == AlwaysNamed(o) @@ Write(o, xrayTLSKeys)

xrayRealityKeys == Same({"fingerprint", "password", "shortId", "spiderX"})
xrayRealityLink == [fingerprint |-> "fp", password |-> "pbk", shortId |-> "sid", spiderX |-> "spx"]

xrayReality_ParseFromLink(q) ==
  Put("serverName", LastOf(q, <<"sni", "peer">>)) @@ Read(q, xrayRealityLink, Empty)
xrayReality_ParseFromJson(d) == Read(d, Same({"serverName"}) @@ xrayRealityKeys, Empty)
xrayReality_ParseFromClash(c) ==
  LET r == Obj(c, "reality-opts")
  IN  NameIn(c) @@ Read(c, [fingerprint |-> "client-fingerprint"], Empty)
      @@ Read(r, [password |-> "public-key", shortId |-> "short-id"], Empty)
xrayReality_ExportToLink(o) == ("sni" :> Str(o, "serverName")) @@ Write(o, xrayRealityLink)
xrayReality_ExportToJson(o) == AlwaysNamed(o) @@ Write(o, xrayRealityKeys)

(***************************************************************************)
(* XHTTP: known extra fields, unknown ones kept as they came (rawExtra,    *)
(* rawXmux), headers, and the download settings as a document              *)
(***************************************************************************)
NewXHTTP == [mode |-> "auto"]
XHTTPPlain == Same({"host", "path", "mode"})
XmuxKeys == Same({"maxConcurrency", "maxConnections", "cMaxReuseTimes", "hMaxRequestTimes",
                  "hMaxReusableSecs", "hKeepAlivePeriod"})
XPadding == {"xPaddingObfsMode", "xPaddingKey", "xPaddingHeader", "xPaddingPlacement",
             "xPaddingMethod"}
XSession == {"sessionIDPlacement", "sessionIDKey"}
ExtraKeys == Same(XPadding \cup XSession \cup
  {"xPaddingBytes", "uplinkHTTPMethod", "sessionIDTable", "sessionIDLength", "seqPlacement",
   "seqKey", "uplinkDataPlacement", "uplinkDataKey", "uplinkChunkSize", "noGRPCHeader",
   "noSSEHeader", "scMaxEachPostBytes", "scMinPostsIntervalMs", "scMaxBufferedPosts",
   "scStreamUpServerSecs", "serverMaxHeaderBytes"})
LegacySession == [sessionIDPlacement |-> "sessionPlacement", sessionIDKey |-> "sessionKey"]
ExtraObjects == {"headers", "xmux", "downloadSettings"}
knownXHTTPExtraKeys ==
  DOMAIN ExtraKeys \cup ExtraObjects \cup {LegacySession[f] : f \in DOMAIN LegacySession}

\* Unknown keys join the ones the object holds already.
Unknown(o, f, d, known) == PutObj(f, Without(d, known) @@ Obj(o, f))

parseXHTTPXmuxObject(o, d) ==
  Unknown(o, "rawXmux", d, DOMAIN XmuxKeys) @@ Read(d, XmuxKeys, o)

parseXHTTPExtraObject(o, d) ==
  LET fields == Read(d, ExtraKeys, Read(d, LegacySession, o))
      objects == When(Has(d, "headers"), "headers" :> jsonObjectToQStringList(Obj(d, "headers")))
                 @@ When(Has(d, "downloadSettings"), "downloadSettings" :> Obj(d, "downloadSettings"))
                 @@ Unknown(o, "rawExtra", d, knownXHTTPExtraKeys) @@ fields
  IN  IF Has(d, "xmux") THEN parseXHTTPXmuxObject(objects, d.xmux) ELSE objects

(* The text of "extra" gets its apostrophes replaced by quotation marks: one   *)
(* inside a value breaks the text, and nothing of it is taken.                 *)
Apostrophe == "it's"
ParseExtraJson(o, d) ==
  IF \E k \in DOMAIN d \ ExtraObjects : d[k] = Apostrophe THEN o ELSE parseXHTTPExtraObject(o, d)

XHTTPLink == [xPaddingBytes |-> "x_padding_bytes", scMaxEachPostBytes |-> "sc_max_each_post_bytes",
              scMinPostsIntervalMs |-> "sc_min_posts_interval_ms",
              maxConcurrency |-> "max_concurrency", maxConnections |-> "max_connections",
              cMaxReuseTimes |-> "max_reuse_times", hMaxRequestTimes |-> "max_request_times",
              hMaxReusableSecs |-> "max_reusable_secs", hKeepAlivePeriod |-> "keep_alive_period"]

EvenHeaders(q) ==
  "headers" :> (IF Len(List(q, "headers")) % 2 = 1 THEN << >> ELSE List(q, "headers"))

xrayXHTTP_ParseFromLink(q) ==
  LET plain == Read(q, XHTTPPlain, NewXHTTP)
      extra == IF Has(q, "extra") THEN ParseExtraJson(plain, q.extra) ELSE plain
      flag == Str(q, "no_grpc_header")
  IN  When(Has(q, "headers"), EvenHeaders(q))
      @@ When(Has(q, "no_grpc_header"),
              "noGRPCHeader" :> (IF IsTrueOrCount(flag) THEN "true" ELSE "false"))
      @@ Read(q, XHTTPLink, extra)

xrayXHTTP_ParseFromJson(d) ==
  LET top == parseXHTTPExtraObject(Read(d, XHTTPPlain, NewXHTTP),
                                   Without(d, DOMAIN XHTTPPlain \cup {"extra"}))
  IN  IF DOMAIN Obj(d, "extra") = {} THEN top ELSE parseXHTTPExtraObject(top, d.extra)

(* Clash *)
PaddingClash == [xPaddingObfsMode |-> "x-padding-obfs-mode", xPaddingKey |-> "x-padding-key",
                 xPaddingHeader |-> "x-padding-header",
                 xPaddingPlacement |-> "x-padding-placement",
                 xPaddingMethod |-> "x-padding-method"]
ReuseClash == [maxConcurrency |-> "max-concurrency", maxConnections |-> "max-connections",
               cMaxReuseTimes |-> "c-max-reuse-times", hMaxRequestTimes |-> "h-max-request-times",
               hMaxReusableSecs |-> "h-max-reusable-secs",
               hKeepAlivePeriod |-> "h-keep-alive-period"]

buildDownloadSettingsObject(c) ==
  LET reality == Obj(c, "reality-opts")
      named == [serverName |-> "servername", fingerprint |-> "client-fingerprint"]
      security ==
        IF Has(reality, "public-key")
        THEN [security |-> "reality",
              realitySettings |->
                Read(c, named, Empty)
                @@ Read(reality, [publicKey |-> "public-key", shortId |-> "short-id"], Empty)]
        ELSE When(IsOn(c, "tls"),
                  [security |-> "tls", tlsSettings |-> Read(c, named @@ Same({"alpn"}), Empty)])
      extra == Read(c, PaddingClash, Empty)
               @@ PutObj("xmux", Read(Obj(c, "reuse-settings"), ReuseClash, Empty))
  IN  Put("address", Str(c, "server")) @@ [port |-> Str(c, "port"), network |-> "xhttp"]
      @@ security
      @@ ("xhttpSettings" :> (Read(c, XHTTPPlain, NewXHTTP) @@ PutObj("extra", extra)))

xrayXHTTP_ParseFromClash(c) ==
  LET x == Obj(c, "xhttp-opts")
  IN  Read(x, XHTTPPlain @@ PaddingClash @@ [scMinPostsIntervalMs |-> "sc-min-posts-interval-ms"],
           NewXHTTP)
      @@ Read(Obj(x, "reuse-settings"), ReuseClash, Empty)
      @@ When(Has(x, "download-settings"),
              "downloadSettings" :> buildDownloadSettingsObject(x["download-settings"]))

(* stream-one has no second connection: its download settings are dropped. *)
xrayXHTTP_ExportToJson(o) ==
  LET extra == PutObj("headers", qStringListToJsonObject(List(o, "headers")))
               @@ Write(o, ExtraKeys)
               @@ When(Str(o, "mode") # "stream-one",
                       PutObj("downloadSettings", Obj(o, "downloadSettings")))
               @@ PutObj("xmux", Write(o, XmuxKeys) @@ Obj(o, "rawXmux"))
               @@ Obj(o, "rawExtra")
  IN  Write(o, XHTTPPlain) @@ PutObj("extra", extra)

xrayXHTTP_ExportToLink(o) ==
  xrayXHTTP_ExportToJson(o) @@ PutList("headers", List(o, "headers"))

(***************************************************************************)
(* WebSocket and HTTPUpgrade: the early data is part of the path in JSON   *)
(* and Clash, a key of its own in a link                                   *)
(***************************************************************************)
Beat == [heartbeatPeriod |-> "heartbeat_period"]
SplitPath(p) == IF p = PathWithEd THEN [path |-> "/p", ed |-> "2048"] ELSE Put("path", p)

xrayWS_ParseFromLink(q) ==
  Read(q, Same({"host", "path", "ed"}) @@ Beat, Empty) @@ PutList("headers", EvenHeaders(q).headers)
xrayWS_ParseFromJson(d) ==
  SplitPath(Str(d, "path")) @@ Read(d, Same({"host", "heartbeatPeriod"}), Empty)
  @@ PutList("headers", jsonObjectToQStringList(Obj(d, "headers")))
xrayWS_ParseFromClash(c) ==
  LET ws == Obj(c, "ws-opts")
      given == jsonObjectToQStringList(Obj(ws, "headers"))
  IN  SplitPath(Str(ws, "path"))
      @@ Put("host", IF Has(c, "servername") THEN c.servername ELSE Str(Obj(ws, "headers"), "Host"))
      @@ PutList("headers", [i \in 1..(Len(given) \div 2) |-> given[2 * i - 1] \o "=" \o given[2 * i]])
xrayWS_ExportToLink(o) ==
  Write(IF Str(o, "path") = "/" THEN Without(o, {"path"}) ELSE o, Same({"host", "path", "ed"}) @@ Beat)
  @@ PutList("headers", List(o, "headers"))
xrayWS_ExportToJson(o) ==
  When(Has(o, "path"), "path" :> (IF Has(o, "ed") THEN o.path \o "?ed=" \o o.ed ELSE o.path))
  @@ Write(o, Same({"host", "heartbeatPeriod"}))
  @@ PutObj("headers", qStringListToJsonObject(List(o, "headers")))

NoBeat(o) == Without(o, {"heartbeatPeriod"})
xrayHttpUpgrade_ParseFromLink(q) == NoBeat(xrayWS_ParseFromLink(q))
xrayHttpUpgrade_ParseFromJson(d) == NoBeat(xrayWS_ParseFromJson(d))
xrayHttpUpgrade_ParseFromClash(c) == xrayWS_ParseFromClash(c)
xrayHttpUpgrade_ExportToLink(o) == xrayWS_ExportToLink(NoBeat(o))
xrayHttpUpgrade_ExportToJson(o) == xrayWS_ExportToJson(NoBeat(o))

xrayGRPCKeys == Same({"authority", "serviceName", "multiMode"})
xrayGRPC_ParseFromLink(q) ==
  Read(q, Same({"authority", "serviceName"}), Empty)
  @@ When(Str(q, "mode") = "multi", "multiMode" :> "true")
xrayGRPC_ParseFromJson(d) == Read(d, xrayGRPCKeys, Empty)
xrayGRPC_ParseFromClash(c) == Put("serviceName", Str(Obj(c, "grpc-opts"), "grpc-service-name"))
xrayGRPC_ExportToLink(o) ==
  Write(o, Same({"authority", "serviceName"})) @@ When(IsOn(o, "multiMode"), "mode" :> "multi")
xrayGRPC_ExportToJson(o) == Write(o, xrayGRPCKeys)

(***************************************************************************)
(* Stream settings: of an unknown network only its name is kept            *)
(***************************************************************************)
NewStream == [network |-> "raw", security |-> "none"]

\* The part of the profile the network names, if it has one.
OfNetwork(n, xhttp, ws, upgrade, grpc) ==
  CASE n = "xhttp" -> xhttp [] n = "ws" -> ws [] n = "httpupgrade" -> upgrade
    [] n = "grpc" -> grpc [] OTHER -> Empty
OfSecurity(v, tls, reality) ==
  CASE v = "tls" -> tls [] v = "reality" -> reality [] OTHER -> Empty
Parts(security, settings) == PutObj("security_settings", security) @@ PutObj("settings", settings)

xrayStreamSetting_ParseFromLink(q) ==
  LET given == IF Str(q, "type") = "tcp" THEN "raw" ELSE Str(q, "type")
      network == IF Has(q, "type") THEN given ELSE "raw"
      security == IF Has(q, "security") THEN q.security ELSE "none"
  IN  ("network" :> network)
      @@ (IF network \notin XrayNetworks THEN "security" :> "none"
          ELSE ("security" :> security)
               @@ Parts(OfSecurity(security, xrayTLS_ParseFromLink(q), xrayReality_ParseFromLink(q)),
                        OfNetwork(network, xrayXHTTP_ParseFromLink(q), xrayWS_ParseFromLink(q),
                                  xrayHttpUpgrade_ParseFromLink(q), xrayGRPC_ParseFromLink(q))))

xrayStreamSetting_ParseFromJson(d) ==
  LET o == Read(d, Same({"network", "security"}), NewStream)
      tls == OfSecurity(Str(o, "security"), xrayTLS_ParseFromJson(Obj(d, "tlsSettings")),
                        xrayReality_ParseFromJson(Obj(d, "realitySettings")))
      net == OfNetwork(Str(o, "network"), xrayXHTTP_ParseFromJson(Obj(d, "xhttpSettings")),
                       xrayWS_ParseFromJson(Obj(d, "wsSettings")),
                       xrayHttpUpgrade_ParseFromJson(Obj(d, "httpupgradeSettings")),
                       xrayGRPC_ParseFromJson(Obj(d, "grpcSettings")))
  IN  IF Str(o, "network") \notin XrayNetworks THEN [network |-> Str(o, "network"), security |-> "none"]
      ELSE o @@ Parts(tls, net)

xrayStreamSetting_ParseFromClash(c) ==
  LET network == IF Has(c, "network") THEN c.network ELSE "raw"
      upgrade == network = "ws" /\ IsOn(Obj(c, "ws-opts"), "v2ray-http-upgrade")
      security == IF ~IsOn(c, "tls") THEN "none"
                  ELSE IF Has(Obj(c, "reality-opts"), "public-key") THEN "reality" ELSE "tls"
  IN  IF network \notin XrayNetworks \ {"httpupgrade"}
      THEN [network |-> network, security |-> "none"]
      ELSE [network |-> IF upgrade THEN "httpupgrade" ELSE network, security |-> security]
           @@ Parts(OfSecurity(security, xrayTLS_ParseFromClash(c), xrayReality_ParseFromClash(c)),
                    OfNetwork(IF upgrade THEN "httpupgrade" ELSE network,
                              xrayXHTTP_ParseFromClash(c), xrayWS_ParseFromClash(c),
                              xrayHttpUpgrade_ParseFromClash(c), xrayGRPC_ParseFromClash(c)))

xrayStreamSetting_ExportToLink(o) ==
  LET tls == Obj(o, "security_settings")
      net == Obj(o, "settings")
  IN  Put("type", Str(o, "network")) @@ Put("security", Str(o, "security"))
      @@ OfSecurity(Str(o, "security"), xrayTLS_ExportToLink(tls), xrayReality_ExportToLink(tls))
      @@ OfNetwork(Str(o, "network"), xrayXHTTP_ExportToLink(net), xrayWS_ExportToLink(net),
                   xrayHttpUpgrade_ExportToLink(net), xrayGRPC_ExportToLink(net))

xrayStreamSetting_ExportToJson(o) ==
  LET tls == Obj(o, "security_settings")
      net == Obj(o, "settings")
  IN  [network |-> Str(o, "network"), security |-> Str(o, "security")]
      @@ OfSecurity(Str(o, "security"), "tlsSettings" :> xrayTLS_ExportToJson(tls),
                    "realitySettings" :> xrayReality_ExportToJson(tls))
      @@ OfNetwork(Str(o, "network"), "xhttpSettings" :> xrayXHTTP_ExportToJson(net),
                   "wsSettings" :> xrayWS_ExportToJson(net),
                   "httpupgradeSettings" :> xrayHttpUpgrade_ExportToJson(net),
                   "grpcSettings" :> xrayGRPC_ExportToJson(net))

getXrayOutboundDomainStrategy(s) ==
  CASE Str(s, "direct_dns_strategy") = "prefer_ipv4" -> "UseIPv4v6"
    [] Str(s, "direct_dns_strategy") = "prefer_ipv6" -> "UseIPv6v4"
    [] Str(s, "direct_dns_strategy") = "ipv4_only" -> "ForceIPv4"
    [] Str(s, "direct_dns_strategy") = "ipv6_only" -> "ForceIPv6"
    [] OTHER -> "UseIP"

xrayStreamSetting_Build(s, o) ==
  ("sockopt" :> [domainStrategy |-> getXrayOutboundDomainStrategy(s)])
  @@ xrayStreamSetting_ExportToJson(o)

(***************************************************************************)
(* VLESS in the Xray core; sing-box reaches it through a local SOCKS port  *)
(***************************************************************************)
NewXrayVless == [encryption |-> "none", streamSetting |-> NewStream, multiplex |-> NewXrayMux]

xrayVless_ParseFromLink(link) ==
  LET q == Query(link)
      o == Put("uuid", Str(link, "user")) @@ Put("flow", Str(q, "flow"))
           @@ ("encryption" :> (IF Str(q, "encryption") = "" THEN "none" ELSE q.encryption))
           @@ outbound_ParseFromLink(link)
           @@ [streamSetting |-> xrayStreamSetting_ParseFromLink(q),
               multiplex |-> xrayMultiplex_ParseFromLink(q)]
  IN  Accept(Has(o, "uuid") /\ Has(o, "server"), o)

xrayVless_ParseFromJson(d) ==
  LET part(k, parse(_)) == When(DOMAIN Obj(d, k) # {}, parse(Obj(d, k)))
  IN  Accept(Str(d, "protocol") = "vless",
        Put("name", Str(d, "tag"))
        @@ PutObj("streamSetting", part("streamSettings", xrayStreamSetting_ParseFromJson))
        @@ PutObj("multiplex", part("mux", xrayMultiplex_ParseFromJson))
        @@ Read(Obj(d, "settings"),
                [server |-> "address", server_port |-> "port", flow |-> "flow", uuid |-> "id",
                 encryption |-> "encryption"], NewXrayVless))

xrayVless_ParseFromClash(c) ==
  Accept(Str(c, "type") = "vless",
         Read(c, Same({"uuid", "flow"}), Empty) @@ Put("encryption", Str(c, "encryption"))
         @@ outbound_ParseFromClash(c)
         @@ [streamSetting |-> xrayStreamSetting_ParseFromClash(c),
             multiplex |-> xrayMultiplex_ParseFromClash(c), encryption |-> "none"])

xrayVless_ExportToLink(o) ==
  ("scheme" :> "vless") @@ Put("user", Str(o, "uuid")) @@ LinkTo(o)
  @@ ("query" :> (("encryption" :> Str(o, "encryption")) @@ Put("flow", Str(o, "flow"))
                 @@ xrayStreamSetting_ExportToLink(o.streamSetting)
                 @@ xrayMultiplex_ExportToLink(o.multiplex)))

xrayVlessBody(o) ==
  [protocol |-> "vless",
   settings |-> [address |-> Str(o, "server"), id |-> Str(o, "uuid"),
                 port |-> IF Has(o, "server_port") THEN o.server_port ELSE "0",
                 encryption |-> Str(o, "encryption")]
                @@ When(Str(o, "flow") # "none", Put("flow", Str(o, "flow")))]

xrayVless_ExportToJson(o) ==
  Put("tag", Str(o, "name")) @@ xrayVlessBody(o)
  @@ [streamSettings |-> xrayStreamSetting_ExportToJson(o.streamSetting)]
  @@ PutObj("mux", xrayMultiplex_ExportToJson(o.multiplex))

xrayVless_BuildXray(s, o) ==
  xrayVlessBody(o) @@ [streamSettings |-> xrayStreamSetting_Build(s, o.streamSetting)]
  @@ PutObj("mux", xrayMultiplex_Build(s, o.multiplex))

===============================================================================
