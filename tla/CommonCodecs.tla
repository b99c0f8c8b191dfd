----------------------------- MODULE CommonCodecs -----------------------------
(* The parts profiles of several protocols share: the address, the dial        *)
(* fields, TLS with ECH, uTLS and Reality, the V2Ray transport and the         *)
(* multiplexers, each with its way into and out of links, JSON and Clash, and  *)
(* into the core's configuration.  q: a link's query; d: a JSON object; c: a   *)
(* Clash mapping; o: the object in memory; s: the global settings.             *)
EXTENDS Documents

Rejected == "invalid" :> "true"

(***************************************************************************)
(* Dial fields and the base class outbound                                 *)
(***************************************************************************)
DialFields == Same({"reuse_addr", "connect_timeout", "tcp_fast_open", "tcp_multi_path",
                    "udp_fragment", "bind_interface", "inet4_bind_address",
                    "inet6_bind_address"})

DialFields_ParseFromLink(link) ==
  When(~Has(link, "ports"), Read(Obj(link, "query"), DialFields, Empty))
DialFields_ParseFromJson(d) == Read(d, DialFields, Empty)
DialFields_Export(o) == Write(o, DialFields)

OutboundKeys == [name |-> "tag", server |-> "server", server_port |-> "server_port"]

(* A link without a port gives -1; an unparsable port (a list) gives 0. *)
outbound_ParseFromLink(link) ==
  Put("name", Str(link, "fragment")) @@ Put("server", Str(link, "host"))
  @@ When(~Has(link, "ports"),
          Put("server_port", IF Has(link, "port") THEN link.port ELSE "-1"))
  @@ PutObj("dialFields", DialFields_ParseFromLink(link))

outbound_ParseFromJson(d) ==
  Read(d, OutboundKeys, Empty) @@ PutObj("dialFields", DialFields_ParseFromJson(d))

outbound_ParseFromClash(c) ==
  Read(c, [name |-> "name", server |-> "server", server_port |-> "port"], Empty)

Positive(o, f) == Put(f, IF Str(o, f) = "-1" THEN "" ELSE Str(o, f))

outbound_ExportToLink(o) == DialFields_Export(Obj(o, "dialFields"))

outbound_ExportToJson(o) ==
  DialFields_Export(Obj(o, "dialFields"))
  @@ Put("tag", Str(o, "name")) @@ Put("server", Str(o, "server")) @@ Positive(o, "server_port")

\* The link every exporter starts from.
LinkTo(o) ==
  Put("host", Str(o, "server")) @@ Put("fragment", Str(o, "name"))
  @@ When(Str(o, "server_port") # "-1",
          "port" :> (IF Has(o, "server_port") THEN o.server_port ELSE "0"))

Accept(ok, o) == IF ok THEN o ELSE Rejected

\* "if (server_port == 0) server_port = ..."
DefaultPort(o, p) == IF Has(o, "server_port") THEN o ELSE ("server_port" :> p) @@ o

(***************************************************************************)
(* uTLS, ECH, Reality                                                      *)
(***************************************************************************)
uTLS_ParseFromLink(q) == When(Str(q, "fp") # "", [enabled |-> "true", fingerPrint |-> q.fp])
uTLSKeys == [enabled |-> "enabled", fingerPrint |-> "fingerprint"]
uTLS_ParseFromJson(d) == Read(d, uTLSKeys, Empty)
uTLS_ParseFromClash(c) ==
  When(Has(c, "client-fingerprint"),
       [enabled |-> "true", fingerPrint |-> c["client-fingerprint"]])
uTLS_ExportToLink(o) == When(IsOn(o, "enabled"), Put("fp", Str(o, "fingerPrint")))
uTLS_ExportToJson(o) == When(IsOn(o, "enabled"), Write(o, uTLSKeys))
uTLS_Build(s, o, supported) ==
  LET global == Str(s, "utlsFingerprint")
  IN  IF ~supported THEN Empty
      ELSE IF (~IsOn(o, "enabled") \/ ~Has(o, "fingerPrint")) /\ global # ""
           THEN [enabled |-> "true", fingerprint |-> global]
           ELSE uTLS_ExportToJson(o)

ECHLink == [enabled |-> "ech_enabled", config |-> "ech_config",
            config_path |-> "ech_config_path", serverName |-> "ech_server_name"]
ECHKeys == [enabled |-> "enabled", config |-> "config",
            config_path |-> "config_path", serverName |-> "query_server_name"]
ECH_ParseFromLink(q) == Read(q, ECHLink, Empty)
ECH_ParseFromJson(d) == Read(d, ECHKeys, Empty)
ECH_ExportToLink(o) == When(IsOn(o, "enabled"), Write(o, ECHLink))
ECH_ExportToJson(o) == When(IsOn(o, "enabled"), Write(o, ECHKeys))

RealityKeys == Same({"enabled", "public_key", "short_id"})
Reality_ParseFromLink(q) ==
  When(Has(q, "pbk"),
       ("enabled" :> "true") @@ Put("public_key", q.pbk) @@ Put("short_id", Str(q, "sid")))
Reality_ParseFromJson(d) == Read(d, RealityKeys, Empty)
Reality_ParseFromClash(c) ==
  LET r == Obj(c, "reality-opts")
  IN  When(Str(r, "public-key") # "",
           [enabled |-> "true", public_key |-> r["public-key"]]
           @@ Put("short_id", Str(r, "short-id")))
Reality_ExportToLink(o) ==
  When(IsOn(o, "enabled"), [pbk |-> Str(o, "public_key"), sid |-> Str(o, "short_id")])
(* Slip: the short id is not written. *)
RealityWithoutId(o) == When(IsOn(o, "enabled"), Without(o, {"short_id"}))
Reality_ExportToJson(o) == When(IsOn(o, "enabled"), Write(o, RealityKeys))
Reality_Build(o) ==
  When(Has(o, "public_key") \/ IsOn(o, "enabled"),
       [enabled |-> "true", public_key |-> Str(o, "public_key")]
       @@ Put("short_id", Str(o, "short_id")))

(***************************************************************************)
(* TLS                                                                     *)
(***************************************************************************)
TLSPlain == {"disable_sni", "server_name", "insecure", "alpn", "min_version", "max_version",
             "cipher_suites", "curve_preferences", "certificate", "certificate_path",
             "certificate_public_key_sha256", "client_certificate", "client_certificate_path",
             "client_key", "client_key_path"}
TLSMore == {"fragment_fallback_delay", "record_fragment"}
TLSTri == {"fragment", "tls_tricks"}
TLSKeys == Same(TLSPlain \cup TLSMore)
TLSLink == [disable_sni |-> "disable_sni", server_name |-> "sni", insecure |-> "allowInsecure",
            alpn |-> "alpn", tls_tricks |-> "tls_tricks"]
           @@ [f \in TLSPlain \cup TLSMore \cup TLSTri |-> "tls_" \o f]

(* Slip: Reality is not known to be TLS. *)
SaysPlainTLS(v) == v \in {"tls", "1", "true"}

\* What the chain of replacements in the parser makes of "security".
SaysTLS(v) == v \in {"tls", "reality", "false", "1", "true"}

TLS_ParseFromLink(q) ==
  LET sni == LastOf(q, <<"sni", "peer">>)
  IN  Read(Without(q, {"sni", "allowInsecure"}), Without(TLSLink, TLSTri), Empty)
      @@ ReadTri(q, "tls_fragment", "fragment") @@ ReadTri(q, "tls_tricks", "tls_tricks")
      @@ Put("server_name", sni)
      @@ When(LastOf(q, <<"allowInsecure", "allow_insecure", "insecure">>) \in {"1", "true"},
              "insecure" :> "true")
      @@ When(SaysTLS(Str(q, "security")) \/ sni # "", "enabled" :> "true")
      @@ PutObj("ech", ECH_ParseFromLink(q))
      @@ PutObj("utls", uTLS_ParseFromLink(q))
      @@ PutObj("reality", Reality_ParseFromLink(q))

TLS_ParseFromJson(d) ==
  Read(d, ("enabled" :> "enabled") @@ TLSKeys, Empty)
  @@ ReadTri(d, "fragment", "fragment") @@ ReadTri(d, "tls_tricks", "tls_tricks")
  @@ PutObj("ech", ECH_ParseFromJson(Obj(d, "ech")))
  @@ PutObj("utls", uTLS_ParseFromJson(Obj(d, "utls")))
  @@ PutObj("reality", Reality_ParseFromJson(Obj(d, "reality")))

TLS_ParseFromClash(c) ==
  Put("enabled", Str(c, "tls"))
  @@ Put("server_name", IF Has(c, "servername") THEN c.servername
                        ELSE IF Has(c, "sni") THEN c.sni ELSE Str(c, "server"))
  @@ Put("insecure", Str(c, "skip-cert-verify")) @@ Put("alpn", Str(c, "alpn"))
  @@ PutObj("utls", uTLS_ParseFromClash(c)) @@ PutObj("reality", Reality_ParseFromClash(c))

TLS_ExportToLink(o) ==
  When(IsOn(o, "enabled"),
       ("security" :> (IF IsOn(Obj(o, "reality"), "enabled") THEN "reality" ELSE "tls"))
       @@ Write(o, TLSLink)
       @@ ECH_ExportToLink(Obj(o, "ech")) @@ uTLS_ExportToLink(Obj(o, "utls"))
       @@ Reality_ExportToLink(Obj(o, "reality")))

TLS_ExportToJson(o) ==
  When(IsOn(o, "enabled"),
       ("enabled" :> "true") @@ Write(o, TLSKeys @@ Same(TLSTri))
       @@ PutObj("ech", ECH_ExportToJson(Obj(o, "ech")))
       @@ PutObj("utls", uTLS_ExportToJson(Obj(o, "utls")))
       @@ PutObj("reality", Reality_ExportToJson(Obj(o, "reality"))))

FragmentEffectivelyOn(s, o) ==
  IF Has(o, "fragment") THEN IsOn(o, "fragment") ELSE IsOn(s, "fragment_default_on")
TlsTricksEffectivelyOn(s, o) ==
  IF Has(o, "tls_tricks") THEN IsOn(o, "tls_tricks") ELSE IsOn(s, "tls_tricks_default_on")

TLS_Build(s, o, supported) ==
  LET utls == uTLS_Build(s, Obj(o, "utls"), supported)
      reality == Obj(o, "reality")
  IN  When(IsOn(o, "enabled"),
        ("enabled" :> "true") @@ Write(o, Same(TLSPlain \cup {"record_fragment"}))
        @@ When(FragmentEffectivelyOn(s, o) /\ Str(s, "fragment_implementation") # "custom",
                ("fragment" :> "true")
                @@ Put("fragment_fallback_delay", Str(o, "fragment_fallback_delay")))
        @@ When(TlsTricksEffectivelyOn(s, o), "tls_tricks" :> "true")
        @@ PutObj("ech", ECH_ExportToJson(Obj(o, "ech")))
        @@ PutObj("utls", IF DOMAIN utls = {} /\ IsOn(reality, "enabled")
                          THEN [enabled |-> "true", fingerprint |-> "random"] ELSE utls)
        @@ PutObj("reality", Reality_Build(reality)))

(* The address and the dial fields as the core gets them; the custom fragment  *)
(* implementation replaces tcp_fast_open.                                      *)
outbound_Build(s, o) ==
  LET tls == Obj(o, "tls")
      plain == Without(outbound_ExportToJson(o), {"tag"})
  IN  IF /\ IsOn(tls, "enabled") /\ FragmentEffectivelyOn(s, tls)
         /\ Str(s, "fragment_implementation") = "custom"
      THEN Without(plain, {"tcp_fast_open"}) @@ ("tls_fragment" :> "true")
      ELSE plain

(***************************************************************************)
(* V2Ray transport                                                         *)
(***************************************************************************)
TransportKeys == Same({"type", "path", "method", "idle_timeout", "ping_timeout",
                       "max_early_data", "early_data_header_name", "service_name"})
TransportLink == ("service_name" :> "serviceName") @@ ("host" :> "host") @@ TransportKeys
PathWithEd == "/p?ed=2048"

Transport_ParseFromLink(q) ==
  LET isHttp == Str(q, "type") = "h2" \/ (Str(q, "type") = "tcp" /\ Str(q, "headerType") = "http")
      headers == List(q, "headers")
      read == Read(q, TransportLink, Empty)
  IN  When(isHttp, "type" :> "http") @@ read
      @@ When(isHttp /\ ~Has(q, "method"), "method" :> "GET")
      @@ PutList("headers", IF Len(headers) % 2 = 1 THEN << >> ELSE headers)

Transport_ParseFromJson(d) ==
  LET headers == Obj(d, "headers")
      isWs == Str(d, "type") = "ws" /\ Has(headers, "Host")
  IN  Read(d, TransportKeys, Empty)
      @@ Put("host", IF isWs THEN headers["Host"] ELSE Str(d, "host"))
      @@ PutList("headers", jsonObjectToQStringList(
                   IF isWs THEN Without(headers, {"Host"}) ELSE headers))

Transport_ParseFromClash(c) ==
  LET ws == Obj(c, "ws-opts")
      h2 == Obj(c, "h2-opts")
      http == Obj(c, "http-opts")
      given == jsonObjectToQStringList(Obj(ws, "headers"))
  IN  CASE Has(ws, "path") \/ Str(c, "network") = "ws" ->
             (IF IsOn(ws, "v2ray-http-upgrade") THEN "type" :> "httpupgrade"
              ELSE ("type" :> "ws")
                   @@ Put("early_data_header_name", Str(ws, "early-data-header-name"))
                   @@ Put("max_early_data", Str(ws, "max-early-data")))
             @@ Put("host", IF Has(c, "servername") THEN c.servername
                            ELSE Str(Obj(ws, "headers"), "Host"))
             @@ PutList("headers", [i \in 1..(Len(given) \div 2) |->
                                      given[2 * i - 1] \o "=" \o given[2 * i]])
             @@ Put("path", Str(ws, "path"))
        [] Has(Obj(c, "grpc-opts"), "grpc-service-name") ->
             [type |-> "grpc", service_name |-> c["grpc-opts"]["grpc-service-name"]]
        [] Has(h2, "path") \/ Str(c, "network") = "h2" ->
             ("type" :> "http") @@ Put("host", Str(h2, "host")) @@ Put("path", Str(h2, "path"))
        [] Has(http, "method") ->
             [type |-> "http", method |-> http.method]
             @@ Put("host", Str(Obj(http, "headers"), "Host")) @@ Put("path", Str(http, "path"))
        [] OTHER -> Empty

HasType(o) == Str(o, "type") \notin {"", "tcp"}

Transport_ExportToLink(o) ==
  When(HasType(o), Write(o, TransportLink) @@ PutList("headers", List(o, "headers")))

Transport_ExportToJson(o) ==
  LET listed == qStringListToJsonObject(List(o, "headers"))
      host == Str(o, "host")
      headers == When(o.type = "ws", Put("Host", host)) @@ listed
  IN  When(HasType(o),
        (IF Str(o, "path") = PathWithEd
         THEN [path |-> "/p", max_early_data |-> "2048",
               early_data_header_name |-> "Sec-WebSocket-Protocol"]
         ELSE Write(o, Same({"path", "max_early_data", "early_data_header_name"})))
        @@ Write(o, Same({"type", "method", "idle_timeout", "ping_timeout", "service_name"}))
        @@ PutObj("headers", headers)
        @@ When(o.type \in {"http", "httpupgrade"}, Put("host", host)))

(***************************************************************************)
(* Multiplexing                                                            *)
(***************************************************************************)
BrutalLink == [enabled |-> "brutal_enabled", up_mbps |-> "brutal_up_mbps",
               down_mbps |-> "brutal_down_mbps"]
BrutalKeys == Same(DOMAIN BrutalLink)
TcpBrutal_ParseFromLink(q) == Read(q, BrutalLink, Empty)
TcpBrutal_ParseFromJson(d) == Read(d, BrutalKeys, Empty)
TcpBrutal_ExportToLink(o) == When(IsOn(o, "enabled"), Write(o, BrutalLink))
TcpBrutal_ExportToJson(o) ==
  When(IsOn(o, "enabled"), Write(o, BrutalKeys) @@ [up_mbps |-> "1", down_mbps |-> "1"])

MuxFields == {"protocol", "max_connections", "min_streams", "max_streams", "padding"}
MuxLink == [f \in MuxFields |-> "mux_" \o f]

Multiplex_ParseFromLink(q) ==
  Read(q, MuxLink, Empty) @@ ReadTri(q, "mux", "enabled")
  @@ PutObj("brutal", TcpBrutal_ParseFromLink(q))

(* Slip: the congestion control of the multiplexer is not read. *)
MultiplexWithoutBrutal(d) == Read(d, Same(MuxFields), Empty) @@ ReadTri(d, "enabled", "enabled")

Multiplex_ParseFromJson(d) ==
  Read(d, Same(MuxFields), Empty) @@ ReadTri(d, "enabled", "enabled")
  @@ PutObj("brutal", TcpBrutal_ParseFromJson(Obj(d, "brutal")))

Multiplex_ParseFromClash(c) ==
  LET smux == Obj(c, "smux")
      many == Has(smux, "max-streams")
  IN  ("enabled" :> (IF IsOn(smux, "enabled") THEN "true" ELSE "false"))
      @@ Put("protocol", Str(smux, "protocol")) @@ Put("padding", Str(smux, "padding"))
      @@ When(many, Put("max_streams", Str(smux, "max-streams")))
      @@ When(~many, Put("max_connections", Str(smux, "max-connections"))
                     @@ Put("min_streams", Str(smux, "min-streams")))

Multiplex_ExportToLink(o) ==
  Put("mux", Str(o, "enabled")) @@ When(Str(o, "enabled") = "false", "mux" :> "false")
  @@ When(IsOn(o, "enabled"),
          Write(o, MuxLink) @@ TcpBrutal_ExportToLink(Obj(o, "brutal")))

Multiplex_ExportToJson(o) ==
  When(Has(o, "enabled"), "enabled" :> o.enabled)
  @@ When(IsOn(o, "enabled"),
          Write(o, Same(MuxFields))
          @@ PutObj("brutal", TcpBrutal_ExportToJson(Obj(o, "brutal"))))

Multiplex_Build(s, o) ==
  LET on == IF Has(o, "enabled") THEN IsOn(o, "enabled") ELSE IsOn(s, "mux_default_on")
      sized == DOMAIN o \cap {"max_streams", "max_connections", "min_streams"} # {}
  IN  When(on, ("enabled" :> "true")
               @@ When(IsOn(s, "mux_padding"), "padding" :> "true")
               @@ Multiplex_ExportToJson(o)
               @@ When(~Has(o, "protocol"), "protocol" :> Str(s, "mux_protocol"))
               @@ When(~sized, "max_streams" :> Str(s, "mux_concurrency")))

(* The multiplexer of the Xray core; the default of xudpConcurrency is 16. *)
NewXrayMux == [xudpConcurrency |-> "16"]
XrayMuxLink == [concurrency |-> "mux_concurrency", xudpConcurrency |-> "mux_xudp_concurrency"]
XrayMuxKeys == Same({"concurrency", "xudpConcurrency"})

xrayMultiplex_ParseFromLink(q) ==
  Read(q, XrayMuxLink, NewXrayMux)
  @@ When(Has(q, "mux"), "enabled" :> (IF q.mux \in {"1", "true"} THEN "true" ELSE "false"))

xrayMultiplex_ParseFromJson(d) ==
  Read(d, XrayMuxKeys, NewXrayMux) @@ ReadTri(d, "enabled", "enabled")

xrayMultiplex_ParseFromClash(c) ==
  LET smux == Obj(c, "smux")
  IN  ("enabled" :> (IF IsOn(smux, "enabled") THEN "true" ELSE "false"))
      @@ Put("concurrency", Str(smux, "max-streams")) @@ NewXrayMux

xrayMultiplex_ExportToLink(o) ==
  When(Has(o, "enabled"), "mux" :> o.enabled)
  @@ When(IsOn(o, "enabled"), Write(o, XrayMuxLink))

xrayMultiplex_ExportToJson(o) ==
  When(Has(o, "enabled"), "enabled" :> o.enabled)
  @@ When(IsOn(o, "enabled"), Write(o, XrayMuxKeys))

xrayMultiplex_Build(s, o) ==
  LET on == IF Has(o, "enabled") THEN IsOn(o, "enabled") ELSE IsOn(s, "xray_mux_default_on")
  IN  When(on, ("enabled" :> "true") @@ xrayMultiplex_ExportToJson(o)
               @@ When(Str(s, "xray_mux_concurrency") # "" /\ ~Has(o, "concurrency"),
                       "concurrency" :> "0")
               @@ Put("xudpConcurrency", Str(o, "xudpConcurrency")))
===============================================================================
