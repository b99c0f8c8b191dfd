---------------------------- MODULE StreamOutbounds ----------------------------
(* The outbounds that run over TLS or plain TCP and QUIC: HTTP, SOCKS, AnyTLS, *)
(* Trojan, ShadowTLS, Juicity, TUIC, Naive, TrustTunnel and Hysteria.  A link  *)
(* is a document with scheme, user, password, host, port (or "ports", a list   *)
(* no URL parser accepts), fragment and query.                                 *)
EXTENDS CommonCodecs

Query(link) == Obj(link, "query")
Tls(o) == Obj(o, "tls")
ForcedTLS(t) == "tls" :> (("enabled" :> "true") @@ t)
Credentials(link) == Put("username", Str(link, "user")) @@ Put("password", Str(link, "password"))
IsTrueOrCount(v) == v \in {"true", "1"}

\* mergeUrlQuery: the address part adds its dial fields to every link.
LinkOf(o, scheme, rest, query) ==
  ("scheme" :> scheme) @@ rest @@ LinkTo(o) @@ ("query" :> (query @@ outbound_ExportToLink(o)))

(***************************************************************************)
(* HTTP                                                                    *)
(***************************************************************************)
httpKeys == Same({"username", "password", "path"})

http_ParseFromLink(link) ==
  LET q == Query(link)
      user == Str(link, "user")
      given == Str(link, "password")
      decoded == IF given = "" THEN DecodeB64IfValid(user) ELSE ""
      password == IF decoded # "" THEN SubStrAfter(decoded) ELSE given
      username == IF decoded # "" THEN SubStrBefore(decoded)
                  ELSE IF user = "" THEN password ELSE user
  IN  Put("username", username) @@ Put("password", password)
      @@ Put("path", Str(q, "path")) @@ PutList("headers", List(q, "headers"))
      @@ When(link.scheme = "https" \/ Str(q, "security") = "tls", ForcedTLS(TLS_ParseFromLink(q)))
      @@ DefaultPort(outbound_ParseFromLink(link), "443")

http_ParseFromJson(d) ==
  Accept(Str(d, "type") = "http",
         Read(d, httpKeys, Empty) @@ outbound_ParseFromJson(d)
         @@ PutList("headers", jsonObjectToQStringList(Obj(d, "headers")))
         @@ PutObj("tls", TLS_ParseFromJson(Obj(d, "tls"))))

http_ParseFromClash(c) ==
  Accept(Str(c, "type") = "http",
         outbound_ParseFromClash(c) @@ PutObj("tls", TLS_ParseFromClash(c))
         @@ Read(c, Same({"username", "password"}), Empty))

http_ExportToLink(o) ==
  LinkOf(o, IF IsOn(Tls(o), "enabled") THEN "https" ELSE "http",
         Put("user", Str(o, "username")) @@ Put("password", Str(o, "password")),
         Put("path", Str(o, "path")) @@ PutList("headers", List(o, "headers"))
         @@ TLS_ExportToLink(Tls(o)))

httpBody(o) ==
  ("type" :> "http") @@ Write(o, httpKeys)
  @@ PutObj("headers", qStringListToJsonObject(List(o, "headers")))
http_ExportToJson(o) ==
  httpBody(o) @@ outbound_ExportToJson(o) @@ PutObj("tls", TLS_ExportToJson(Tls(o)))
http_Build(s, o) ==
  httpBody(o) @@ outbound_Build(s, o) @@ PutObj("tls", TLS_Build(s, Tls(o), TRUE))

(***************************************************************************)
(* SOCKS: the version is written as a JSON string and read as a number     *)
(***************************************************************************)
NewSocks == [version |-> "5"]
TextFour == "'4'"

socks_ParseFromLink(link) ==
  LET q == Query(link)
      user == Str(link, "user")
      password == Str(link, "password")
      decoded == IF password = "" THEN DecodeB64IfValid(user) ELSE ""
      o == Put("username", IF decoded # "" THEN SubStrBefore(decoded) ELSE user)
           @@ Put("password", IF decoded # "" THEN SubStrAfter(decoded) ELSE password)
           @@ (IF Has(q, "version") THEN Put("version", q.version)
               ELSE "version" :> (IF link.scheme = "socks4" THEN "4" ELSE "5"))
           @@ When(IsTrueOrCount(Str(q, "uot")), "uot" :> "true")
           @@ DefaultPort(outbound_ParseFromLink(link), "1080")
  IN  Accept(Has(o, "server"), o)

socks_ParseFromJson(d) ==
  Accept(Str(d, "type") = "socks",
         Read(d, Same({"username", "password", "uot"}), Empty) @@ outbound_ParseFromJson(d)
         @@ (IF Has(d, "version") THEN When(d.version # TextFour, Put("version", d.version))
             ELSE NewSocks))

socks_ParseFromClash(c) ==
  Accept(Str(c, "type") = "socks5",
         outbound_ParseFromClash(c) @@ Read(c, Same({"username", "password"}), Empty) @@ NewSocks)

socks_ExportToLink(o) ==
  LinkOf(o, IF Str(o, "version") = "4" THEN "socks4" ELSE "socks5",
         Put("user", Str(o, "username")) @@ Put("password", Str(o, "password")),
         When(IsOn(o, "uot"), "uot" :> "1"))

socksBody(o) ==
  ("type" :> "socks") @@ Write(o, Same({"username", "password", "uot"}))
  @@ When(Str(o, "version") = "4", "version" :> TextFour)
socks_ExportToJson(o) == socksBody(o) @@ outbound_ExportToJson(o)
socks_Build(s, o) == socksBody(o) @@ outbound_Build(s, o)

(***************************************************************************)
(* AnyTLS: always TLS, three fields with initial values                    *)
(***************************************************************************)
NewAnyTLS == [idle_session_check_interval |-> "30s", idle_session_timeout |-> "30s",
              min_idle_session |-> "5"]
anyTLSIdle == Same(DOMAIN NewAnyTLS)

anyTLS_ParseFromLink(link) ==
  Read(Query(link), anyTLSIdle, NewAnyTLS) @@ Put("password", Str(link, "user"))
  @@ ForcedTLS(TLS_ParseFromLink(Query(link)))
  @@ DefaultPort(outbound_ParseFromLink(link), "443")

anyTLS_ParseFromJson(d) ==
  Accept(Str(d, "type") = "anytls",
         Read(d, anyTLSIdle @@ Same({"password"}), NewAnyTLS) @@ outbound_ParseFromJson(d)
         @@ PutObj("tls", TLS_ParseFromJson(Obj(d, "tls"))))

anyTLS_ParseFromClash(c) ==
  LET seconds(k, f) == When(Has(c, k), f :> c[k] \o "s")
  IN  Accept(Str(c, "type") = "anytls",
             seconds("idle-session-check-interval", "idle_session_check_interval")
             @@ seconds("idle-session-timeout", "idle_session_timeout")
             @@ Put("min_idle_session", Str(c, "min-idle-session"))
             @@ Put("password", Str(c, "password"))
             @@ outbound_ParseFromClash(c) @@ ForcedTLS(TLS_ParseFromClash(c)) @@ NewAnyTLS)

anyTLS_ExportToLink(o) ==
  LinkOf(o, "anytls", Put("user", Str(o, "password")),
         Write(o, anyTLSIdle) @@ TLS_ExportToLink(Tls(o)))

anyTLSBody(o) == ("type" :> "anytls") @@ Write(o, anyTLSIdle @@ Same({"password"}))
anyTLS_ExportToJson(o) ==
  anyTLSBody(o) @@ outbound_ExportToJson(o) @@ ("tls" :> TLS_ExportToJson(Tls(o)))
anyTLS_Build(s, o) ==
  anyTLSBody(o) @@ outbound_Build(s, o) @@ ("tls" :> TLS_Build(s, Tls(o), TRUE))

(***************************************************************************)
(* The layers trojan, vmess and vless share                                *)
(***************************************************************************)
LayersFromLink(q) ==
  PutObj("tls", TLS_ParseFromLink(q)) @@ PutObj("transport", Transport_ParseFromLink(q))
  @@ PutObj("multiplex", Multiplex_ParseFromLink(q))
LayersFromJson(d) ==
  PutObj("tls", TLS_ParseFromJson(Obj(d, "tls")))
  @@ PutObj("transport", Transport_ParseFromJson(Obj(d, "transport")))
  @@ PutObj("multiplex", Multiplex_ParseFromJson(Obj(d, "multiplex")))
LayersFromClash(c) ==
  PutObj("tls", TLS_ParseFromClash(c)) @@ PutObj("transport", Transport_ParseFromClash(c))
  @@ PutObj("multiplex", Multiplex_ParseFromClash(c))
LayersToLink(o) ==
  TLS_ExportToLink(Tls(o)) @@ Transport_ExportToLink(Obj(o, "transport"))
  @@ Multiplex_ExportToLink(Obj(o, "multiplex"))
LayersToJson(o) ==
  PutObj("tls", TLS_ExportToJson(Tls(o)))
  @@ PutObj("transport", Transport_ExportToJson(Obj(o, "transport")))
  @@ PutObj("multiplex", Multiplex_ExportToJson(Obj(o, "multiplex")))
LayersBuilt(s, o) ==
  PutObj("tls", TLS_Build(s, Tls(o), TRUE))
  @@ PutObj("transport", Transport_ExportToJson(Obj(o, "transport")))
  @@ PutObj("multiplex", Multiplex_Build(s, Obj(o, "multiplex")))

(***************************************************************************)
(* Trojan: its links carry neither dial fields nor a disabled multiplexer  *)
(***************************************************************************)
Trojan_ParseFromLink(link) ==
  Put("password", Str(link, "user")) @@ outbound_ParseFromLink(link)
  @@ LayersFromLink(Query(link))

Trojan_ParseFromJson(d) ==
  Accept(Str(d, "type") = "trojan",
         Put("password", Str(d, "password")) @@ outbound_ParseFromJson(d) @@ LayersFromJson(d))

Trojan_ParseFromClash(c) ==
  Accept(Str(c, "type") = "trojan",
         Put("password", Str(c, "password")) @@ outbound_ParseFromClash(c)
         @@ ForcedTLS(TLS_ParseFromClash(c)) @@ LayersFromClash(c))

Trojan_ExportToLink(o) ==
  ("scheme" :> "trojan") @@ Put("user", Str(o, "password")) @@ LinkTo(o)
  @@ ("query" :> LayersToLink(IF IsOn(Obj(o, "multiplex"), "enabled") THEN o
                              ELSE Without(o, {"multiplex"})))

TrojanBody(o) == ("type" :> "trojan") @@ Put("password", Str(o, "password"))
Trojan_ExportToJson(o) == TrojanBody(o) @@ outbound_ExportToJson(o) @@ LayersToJson(o)
Trojan_Build(s, o) == TrojanBody(o) @@ outbound_Build(s, o) @@ LayersBuilt(s, o)

(***************************************************************************)
(* Outbounds that drop their TLS object when it is disabled                *)
(***************************************************************************)
TlsJson(o) == When(IsOn(Tls(o), "enabled"), "tls" :> TLS_ExportToJson(Tls(o)))
TlsBuilt(s, o, utls) == When(IsOn(Tls(o), "enabled"), "tls" :> TLS_Build(s, Tls(o), utls))
TlsFromJson(d) == PutObj("tls", TLS_ParseFromJson(Obj(d, "tls")))

(* ShadowTLS: the password is only kept for versions 2 and 3. *)
shadowtls_ParseFromLink(link) ==
  LET o == (IF Has(Query(link), "version") THEN Put("version", Query(link).version)
            ELSE "version" :> "1")
           @@ Put("password", Str(link, "password"))
           @@ ForcedTLS(TLS_ParseFromLink(Query(link)))
           @@ DefaultPort(outbound_ParseFromLink(link), "443")
  IN  Accept(Has(o, "server"), o)

shadowtls_ParseFromJson(d) ==
  Accept(Str(d, "type") = "shadowtls",
         Read(d, Same({"version", "password"}), [version |-> "1"])
         @@ outbound_ParseFromJson(d) @@ TlsFromJson(d))

WithPassword(o) == When(Str(o, "version") \in {"2", "3"}, Put("password", Str(o, "password")))
VersionOf(o) == IF Has(o, "version") THEN o.version ELSE "0"

shadowtls_ExportToLink(o) ==
  LinkOf(o, "shadowtls", WithPassword(o), ("version" :> VersionOf(o)) @@ TLS_ExportToLink(Tls(o)))

shadowtlsBody(o) == [type |-> "shadowtls", version |-> VersionOf(o)] @@ WithPassword(o)
shadowtls_ExportToJson(o) == shadowtlsBody(o) @@ outbound_ExportToJson(o) @@ TlsJson(o)
shadowtls_Build(s, o) == shadowtlsBody(o) @@ outbound_Build(s, o) @@ TlsBuilt(s, o, TRUE)

(* Juicity *)
UuidAndPassword(link) == Put("uuid", Str(link, "user")) @@ Put("password", Str(link, "password"))
UuidUser(o) == Put("user", Str(o, "uuid")) @@ Put("password", Str(o, "password"))
juicityKeys == Same({"uuid", "password"})

juicity_ParseFromLink(link) ==
  LET o == UuidAndPassword(link) @@ ForcedTLS(TLS_ParseFromLink(Query(link)))
           @@ DefaultPort(outbound_ParseFromLink(link), "443")
  IN  Accept(Has(o, "uuid") /\ Has(o, "server"), o)

juicity_ParseFromJson(d) ==
  Accept(Str(d, "type") = "juicity",
         Read(d, juicityKeys, Empty) @@ outbound_ParseFromJson(d) @@ TlsFromJson(d))

juicity_ExportToLink(o) == LinkOf(o, "juicity", UuidUser(o), TLS_ExportToLink(Tls(o)))

juicityBody(o) == ("type" :> "juicity") @@ Write(o, juicityKeys)
juicity_ExportToJson(o) == juicityBody(o) @@ outbound_ExportToJson(o) @@ TlsJson(o)
juicity_Build(s, o) == juicityBody(o) @@ outbound_Build(s, o) @@ TlsBuilt(s, o, FALSE)

(* TUIC: udp_relay_mode is dropped next to udp_over_stream. *)
tuicKeys == Same({"congestion_control", "udp_relay_mode", "udp_over_stream",
                  "zero_rtt_handshake", "heartbeat"})

tuic_ParseFromLink(link) ==
  LET o == UuidAndPassword(link) @@ Read(Query(link), tuicKeys, Empty)
           @@ ForcedTLS(TLS_ParseFromLink(Query(link)))
           @@ DefaultPort(outbound_ParseFromLink(link), "443")
  IN  Accept(Has(o, "uuid") /\ Has(o, "server"), o)

tuic_ParseFromJson(d) ==
  Accept(Str(d, "type") = "tuic",
         Read(d, tuicKeys @@ Same({"uuid", "password"}), Empty)
         @@ outbound_ParseFromJson(d) @@ TlsFromJson(d))

tuic_ParseFromClash(c) ==
  Accept(Str(c, "type") = "tuic",
         Read(c, [uuid |-> "uuid", password |-> "password",
                  congestion_control |-> "congestion-controller",
                  udp_relay_mode |-> "udp-relay-mode", zero_rtt_handshake |-> "reduce-rtt"], Empty)
         @@ When(Has(c, "heartbeat-interval"), "heartbeat" :> c["heartbeat-interval"] \o "ms")
         @@ Put("server", Str(c, "ip"))
         @@ outbound_ParseFromClash(c) @@ ForcedTLS(TLS_ParseFromClash(c)))

tuicFields(o) == Write(IF IsOn(o, "udp_over_stream") THEN Without(o, {"udp_relay_mode"}) ELSE o,
                       tuicKeys)
tuic_ExportToLink(o) ==
  LinkOf(o, "tuic", UuidUser(o), tuicFields(o) @@ TLS_ExportToLink(Tls(o)))

tuicBody(o) == ("type" :> "tuic") @@ Write(o, Same({"uuid", "password"})) @@ tuicFields(o)
tuic_ExportToJson(o) == tuicBody(o) @@ outbound_ExportToJson(o) @@ TlsJson(o)
tuic_Build(s, o) == tuicBody(o) @@ outbound_Build(s, o) @@ TlsBuilt(s, o, FALSE)

(* Naive and TrustTunnel write quic_congestion_control and read congestion_control. *)
Quic(o) ==
  When(IsOn(o, "quic"),
       ("quic" :> "true") @@ Put("quic_congestion_control", Str(o, "congestion_control")))
UserAndPassword(o) == Put("user", Str(o, "username")) @@ Put("password", Str(o, "password"))

naive_ParseFromLink(link) ==
  LET q == Query(link)
      o == Credentials(link)
           @@ When(IsTrueOrCount(Str(q, "uot")), "uot" :> "true")
           @@ When(link.scheme = "naive+quic",
                   ("quic" :> "true") @@ Put("congestion_control", Str(q, "congestion_control")))
           @@ ForcedTLS(TLS_ParseFromLink(q)) @@ DefaultPort(outbound_ParseFromLink(link), "443")
  IN  Accept(Has(o, "server"), o)

naive_ParseFromJson(d) ==
  Accept(Str(d, "type") = "naive",
         Read(d, ("uot" :> "udp_over_tcp")
                 @@ Same({"username", "password", "quic", "congestion_control"}), Empty)
         @@ outbound_ParseFromJson(d) @@ TlsFromJson(d))

naive_ExportToLink(o) ==
  LinkOf(o, IF IsOn(o, "quic") THEN "naive+quic" ELSE "naive+https", UserAndPassword(o),
         When(IsOn(o, "uot"), "uot" :> "1")
         @@ When(IsOn(o, "quic"), Put("congestion_control", Str(o, "congestion_control")))
         @@ TLS_ExportToLink(Tls(o)))

naiveBody(o) ==
  ("type" :> "naive") @@ Write(o, Same({"username", "password"}) @@ [uot |-> "udp_over_tcp"])
  @@ Quic(o)
naive_ExportToJson(o) == naiveBody(o) @@ outbound_ExportToJson(o) @@ TlsJson(o)
naive_Build(s, o) == naiveBody(o) @@ outbound_Build(s, o) @@ TlsBuilt(s, o, FALSE)

trusttunnel_ParseFromLink(link) ==
  LET q == Query(link)
      o == Credentials(link) @@ Put("health_check", Str(q, "health_check"))
           @@ When(Has(q, "congestion_control"),
                   ("quic" :> "true") @@ Put("congestion_control", q.congestion_control))
           @@ ForcedTLS(TLS_ParseFromLink(q)) @@ DefaultPort(outbound_ParseFromLink(link), "443")
  IN  Accept({"username", "password", "server"} \subseteq DOMAIN o, o)

trusttunnelKeys == Same({"username", "password", "health_check"})

trusttunnel_ParseFromJson(d) ==
  Accept(Str(d, "type") = "trusttunnel",
         Read(d, trusttunnelKeys @@ Same({"quic", "congestion_control"}), Empty)
         @@ outbound_ParseFromJson(d) @@ TlsFromJson(d))

trusttunnel_ExportToLink(o) ==
  LinkOf(o, "tt", UserAndPassword(o),
         Put("health_check", Str(o, "health_check"))
         @@ When(IsOn(o, "quic"), Put("congestion_control", Str(o, "congestion_control")))
         @@ TLS_ExportToLink(Tls(o)))

trusttunnelBody(o) == ("type" :> "trusttunnel") @@ Write(o, trusttunnelKeys) @@ Quic(o)
trusttunnel_ExportToJson(o) == trusttunnelBody(o) @@ outbound_ExportToJson(o) @@ TlsJson(o)
trusttunnel_Build(s, o) == trusttunnelBody(o) @@ outbound_Build(s, o) @@ TlsBuilt(s, o, TRUE)

(***************************************************************************)
(* Hysteria 1 and 2: several ports, which make the link an invalid URL     *)
(***************************************************************************)
NewHysteria == [protocol_version |-> "1"]
PortRange == "1000:2000"
portsToPorts(v) == IF v = "1000-2000" THEN PortRange ELSE v
HysteriaCommon == Same({"hop_interval", "up_mbps", "down_mbps"})
HysteriaV1 == Same({"recv_window_conn", "recv_window", "disable_mtu_discovery"})
hysteriaAuth(v, type) == When(v # "", [auth |-> v, auth_type |-> type])

hysteria_ParseFromLink(link) ==
  LET q == Query(link)
      ports == IF Has(q, "mport") THEN portsToPorts(q.mport) ELSE portsToPorts(Str(link, "ports"))
      base == outbound_ParseFromLink(link)
      own == IF link.scheme = "hysteria"
             THEN [protocol_version |-> "1"] @@ Put("obfs", Str(q, "obfsParam"))
                  @@ hysteriaAuth(Str(q, "auth"), "STRING") @@ Read(q, HysteriaV1, Empty)
             ELSE [protocol_version |-> "2"] @@ Put("obfs", Str(q, "obfs-password"))
                  @@ Put("password", IF Has(link, "password") THEN Join(link.user, link.password)
                                     ELSE Str(link, "user"))
  IN  own @@ Read(q, [hop_interval |-> "hop_interval", up_mbps |-> "upmbps",
                      down_mbps |-> "downmbps"], Empty)
      @@ Put("server_ports", ports) @@ ForcedTLS(TLS_ParseFromLink(q))
      @@ (IF ports = "" THEN DefaultPort(base, "443") ELSE base)

hysteria_ParseFromJson(d) ==
  LET v1 == Str(d, "type") = "hysteria"
      obfs == Obj(d, "obfs")
  IN  Accept(Str(d, "type") \in {"hysteria", "hysteria2"},
        ("protocol_version" :> (IF v1 THEN "1" ELSE "2")) @@ outbound_ParseFromJson(d)
        @@ Read(d, HysteriaCommon @@ Same({"server_ports"}), Empty) @@ TlsFromJson(d)
        @@ When(v1, Read(d, HysteriaV1 @@ Same({"obfs"}), Empty)
                    @@ hysteriaAuth(Str(d, "auth_str"), "STRING")
                    @@ hysteriaAuth(Str(d, "auth"), "BASE64"))
        @@ When(~v1, Put("password", Str(d, "password"))
                     @@ Put("obfs", IF Has(d, "obfsPassword") THEN d.obfsPassword
                                    ELSE Str(obfs, "password"))))

(* Both windows of a Clash mapping end up in recv_window. *)
hysteria_ParseFromClash(c) ==
  LET v1 == Str(c, "type") = "hysteria"
      first(keys) == LET given == {i \in DOMAIN keys : Has(c, keys[i])}
                     IN  IF given = {} THEN ""
                         ELSE c[keys[CHOOSE i \in given : \A j \in given : i <= j]]
      conn == first(<<"recv-window-conn", "recv_window_conn">>)
  IN  Accept(Str(c, "type") \in {"hysteria", "hysteria2"},
        ("protocol_version" :> (IF v1 THEN "1" ELSE "2")) @@ outbound_ParseFromClash(c)
        @@ Put("server_ports", portsToPorts(Str(c, "ports")))
        @@ Put("up_mbps", Str(c, "up")) @@ Put("down_mbps", Str(c, "down"))
        @@ ForcedTLS(TLS_ParseFromClash(c))
        @@ When(v1, hysteriaAuth(first(<<"auth-str", "auth_str">>), "STRING")
                    @@ Put("obfs", Str(c, "obfs"))
                    @@ Put("recv_window", IF conn # "" THEN conn
                                          ELSE first(<<"recv-window", "recv_window">>))
                    @@ Put("disable_mtu_discovery", Str(c, "disable_mtu_discovery")))
        @@ When(~v1, Put("password", Str(c, "password")) @@ Put("obfs", Str(c, "obfs-password"))))

hysteria_ExportToLink(o) ==
  LET v1 == Str(o, "protocol_version") = "1"
      password == Str(o, "password")
      query == (IF v1 THEN Put("obfsParam", Str(o, "obfs"))
                           @@ When(Str(o, "auth_type") = "STRING", Put("auth", Str(o, "auth")))
                           @@ Write(o, HysteriaV1)
                ELSE Put("obfs-password", Str(o, "obfs")))
               @@ Write(o, [up_mbps |-> "upmbps", down_mbps |-> "downmbps",
                            hop_interval |-> "hop_interval"])
               @@ TLS_ExportToLink(Tls(o))
      link == LinkOf(o, IF v1 THEN "hysteria" ELSE "hysteria2",
                     When(~v1, Put("user", SubStrBefore(password))
                               @@ When(password = Pair, "password" :> SubStrAfter(password))),
                     query)
  IN  IF Has(o, "server_ports") THEN Without(link, {"port"}) @@ ("ports" :> o.server_ports)
      ELSE link

hysteriaBody(o) ==
  LET v1 == Str(o, "protocol_version") = "1"
  IN  ("type" :> (IF v1 THEN "hysteria" ELSE "hysteria2"))
      @@ Put("server_ports", portsToPorts(Str(o, "server_ports"))) @@ Write(o, HysteriaCommon)
      @@ When(v1, Put("obfs", Str(o, "obfs")) @@ Write(o, HysteriaV1)
                  @@ When(Str(o, "auth_type") = "BASE64", Put("auth", Str(o, "auth")))
                  @@ When(Str(o, "auth_type") = "STRING", Put("auth_str", Str(o, "auth"))))
      @@ When(~v1, Put("password", Str(o, "password"))
                   @@ PutObj("obfs", When(Has(o, "obfs"),
                                          [type |-> "salamander", password |-> Str(o, "obfs")])))
hysteria_ExportToJson(o) ==
  hysteriaBody(o) @@ outbound_ExportToJson(o) @@ ("tls" :> TLS_ExportToJson(Tls(o)))
hysteria_Build(s, o) ==
  hysteriaBody(o) @@ outbound_Build(s, o) @@ ("tls" :> TLS_Build(s, Tls(o), FALSE))
================================================================================
