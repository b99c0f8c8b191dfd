---------------------------- MODULE PacketOutbounds ----------------------------
(* The remaining outbounds of sing-box: Shadowsocks, VMess, VLESS, SSH, Mieru, *)
(* Tailscale and WireGuard (with AmneziaWG).                                   *)
EXTENDS StreamOutbounds

(***************************************************************************)
(* Shadowsocks.  A link carries method and password in plain text (2022),  *)
(* as one base64 word, or is base64 as a whole; "plugin" is the list of    *)
(* the parts its value has around the first semicolon.                     *)
(***************************************************************************)
PluginWithOpts == "obfs-local;opts"
PluginParts(v) == IF v = PluginWithOpts THEN <<"obfs-local", "opts">> ELSE <<v>>
Last(l) == l[Len(l)]
ssKeys == Same({"method", "password", "plugin", "plugin_opts"})
IsComplete(o) == {"server", "method", "password"} \subseteq DOMAIN o

shadowsocks_ParseFromLink(link) ==
  LET url == IF Has(link, "whole") THEN Put("fragment", Str(link, "fragment")) @@ link.whole
             ELSE link
      q == Query(url)
      secret == IF Has(url, "password") THEN [method |-> url.user, password |-> url.password]
                ELSE Obj(url, "b64user")
      plugin == List(q, "plugin")
      o == secret @@ outbound_ParseFromLink(url)
           @@ When(plugin # << >>, Put("plugin", IF plugin[1] = "simple-obfs" THEN "obfs-local"
                                                 ELSE plugin[1]))
           @@ (IF Has(q, "plugin-opts") THEN Put("plugin_opts", q["plugin-opts"])
               ELSE When(plugin # << >>, Put("plugin_opts", Last(plugin))))
           @@ When(IsTrueOrCount(Str(q, "uot")), "uot" :> "true")
           @@ PutObj("multiplex", Multiplex_ParseFromLink(Query(link)))
  IN  Accept(IsComplete(o), o)

shadowsocks_ParseFromJson(d) ==
  Accept(Str(d, "type") = "shadowsocks",
         Read(d, ssKeys @@ [uot |-> "udp_over_tcp"], Empty) @@ outbound_ParseFromJson(d)
         @@ PutObj("multiplex", Multiplex_ParseFromJson(Obj(d, "multiplex"))))

shadowsocks_ParseFromClash(c) ==
  LET opts == IF DOMAIN Obj(c, "plugin-opts") = {} THEN "" ELSE "opts"
      plugin == CASE Str(c, "plugin") = "v2ray-plugin" -> "v2ray-plugin"
                  [] Str(c, "plugin") = "obfs" -> "obfs-local"
                  [] OTHER -> ""
  IN  Accept(Str(c, "type") = "ss",
             outbound_ParseFromClash(c)
             @@ Read(c, [method |-> "cipher", password |-> "password", uot |-> "udp-over-tcp"], Empty)
             @@ Put("plugin", plugin) @@ When(plugin # "", Put("plugin_opts", opts))
             @@ PutObj("multiplex", Multiplex_ParseFromClash(c)))

shadowsocks_ParseFromSIP008(d) ==
  LET o == Put("name", Str(d, "remarks"))
           @@ When(Str(d, "plugin") = "simple-obfs", "plugin" :> "obfs-local")
           @@ Read(d, ssKeys @@ Same({"uot"}), Empty) @@ outbound_ParseFromJson(d)
           @@ PutObj("multiplex", Multiplex_ParseFromJson(Obj(d, "multiplex")))
  IN  Accept(IsComplete(o), o)

Methods2022 == {"2022-blake3-aes-128-gcm"}

shadowsocks_ExportToLink(o) ==
  LET secret == Put("method", Str(o, "method")) @@ Put("password", Str(o, "password"))
      plugin == PluginParts(Str(o, "plugin")) \o
                (IF Has(o, "plugin_opts") THEN <<o.plugin_opts>> ELSE << >>)
  IN  LinkOf(o, "ss",
             IF Str(o, "method") \in Methods2022
             THEN Put("user", o.method) @@ Put("password", Str(o, "password"))
             ELSE "b64user" :> secret,
             When(Has(o, "plugin"), "plugin" :> plugin)
             @@ When(IsOn(o, "uot"), "uot" :> "1")
             @@ Multiplex_ExportToLink(Obj(o, "multiplex")))

ssBody(o) == ("type" :> "shadowsocks") @@ Write(o, ssKeys @@ [uot |-> "udp_over_tcp"])
shadowsocks_ExportToJson(o) ==
  ssBody(o) @@ outbound_ExportToJson(o)
  @@ PutObj("multiplex", Multiplex_ExportToJson(Obj(o, "multiplex")))

(* Building splits a plugin that carries its options, in the profile itself. *)
shadowsocks_Split(o) ==
  When(Str(o, "plugin") = PluginWithOpts, [plugin |-> "obfs-local", plugin_opts |-> "opts"]) @@ o
shadowsocks_Build(s, o) ==
  ssBody(shadowsocks_Split(o)) @@ outbound_Build(s, o)
  @@ PutObj("multiplex", Multiplex_Build(s, Obj(o, "multiplex")))

(***************************************************************************)
(* VMess and VLESS                                                         *)
(***************************************************************************)
vPacketEncoding == {"", "packetaddr", "xudp"}
PacketEncodingOf(v) == Put("packet_encoding", IF v \in vPacketEncoding THEN v ELSE "")
(* Slip: no packet encoding is left out, and read as the initial one. *)
PacketEncodingLeftOut(o) == Put("packetEncoding", Str(o, "packet_encoding"))
PacketEncodingLink(o) ==
  "packetEncoding" :> (IF Has(o, "packet_encoding") THEN o.packet_encoding ELSE "none")
NewVMess == [security |-> "auto", packet_encoding |-> "xudp"]

\* V2RayN: the link is one base64 JSON object.
vmess_ParseFromV2RayN(n) ==
  LET o == NewVMess
           @@ Read(n, [uuid |-> "id", server |-> "add", server_port |-> "port", name |-> "ps",
                       alter_id |-> "aid"], Empty)
           @@ PutObj("transport",
                Put("type", IF Str(n, "net") = "h2" \/ Str(n, "type") = "http" THEN "http"
                            ELSE Str(n, "net"))
                @@ Read(n, Same({"host", "path"}), Empty))
           @@ When(Str(n, "tls") = "tls",
                   "tls" :> (("enabled" :> "true") @@ Put("server_name", Str(n, "sni"))))
  IN  Accept(Has(o, "uuid") /\ Has(o, "server"), Put("security", Str(n, "scy")) @@ o)

vmess_ParseFromLink(link) ==
  LET q == Query(link)
      o == Put("uuid", Str(link, "user"))
           @@ ("security" :> (IF Str(q, "encryption") = "" THEN "auto" ELSE q.encryption))
           @@ Read(q, [alter_id |-> "alterId", global_padding |-> "globalPadding",
                       authenticated_length |-> "authenticatedLength"], Empty)
           @@ (IF Has(q, "packetEncoding") THEN PacketEncodingOf(q.packetEncoding)
               ELSE PacketEncodingOf(NewVMess.packet_encoding))
           @@ LayersFromLink(q) @@ DefaultPort(outbound_ParseFromLink(link), "443")
  IN  IF Has(link, "v2rayn") THEN vmess_ParseFromV2RayN(link.v2rayn)
      ELSE Accept(Has(o, "uuid") /\ Has(o, "server"), o)

vmessFlags == Same({"uuid", "alter_id", "global_padding", "authenticated_length"})

vmess_ParseFromJson(d) ==
  Accept(Str(d, "type") = "vmess",
         Put("alter_id", Str(d, "alter-id")) @@ Put("global_padding", Str(d, "global-padding"))
         @@ Read(d, vmessFlags @@ Same(DOMAIN NewVMess), NewVMess)
         @@ outbound_ParseFromJson(d) @@ LayersFromJson(d))

vmess_ParseFromClash(c) ==
  Accept(Str(c, "type") = "vmess",
         Put("security", Str(c, "cipher")) @@ Put("uuid", Str(c, "uuid"))
         @@ Put("alter_id", Str(c, "alterId"))
         @@ Put("packet_encoding", Str(c, "packet-encoding"))
         @@ outbound_ParseFromClash(c) @@ LayersFromClash(c) @@ [security |-> "auto"])

(* No dial fields: the base exporter is not called. *)
vmess_ExportToLink(o) ==
  ("scheme" :> "vmess") @@ Put("user", Str(o, "uuid")) @@ LinkTo(o)
  @@ ("query" :> (When(Str(o, "security") # "auto", "encryption" :> Str(o, "security"))
                 @@ LayersToLink(o)
                 @@ Write(o, [alter_id |-> "alterId", global_padding |-> "globalPadding",
                              authenticated_length |-> "authenticatedLength"])
                 @@ PacketEncodingLink(o)))

vmessBody(o) ==
  [type |-> "vmess", packet_encoding |-> Str(o, "packet_encoding")] @@ Write(o, vmessFlags)
  @@ When(Str(o, "security") # "auto", "security" :> Str(o, "security"))
vmess_ExportToJson(o) == vmessBody(o) @@ outbound_ExportToJson(o) @@ LayersToJson(o)
vmess_Build(s, o) == vmessBody(o) @@ outbound_Build(s, o) @@ LayersBuilt(s, o)

NewVLESS == [packet_encoding |-> "xudp"]

vless_ParseFromLink(link) ==
  LET q == Query(link)
      o == Put("uuid", Str(link, "user")) @@ Put("flow", Str(q, "flow"))
           @@ PacketEncodingOf(IF Str(q, "packetEncoding") = "" THEN "xudp" ELSE q.packetEncoding)
           @@ LayersFromLink(q) @@ DefaultPort(outbound_ParseFromLink(link), "443")
  IN  Accept(Has(o, "uuid") /\ Has(o, "server"), o)

vless_ParseFromJson(d) ==
  Accept(Str(d, "type") = "vless",
         Read(d, Same({"uuid", "flow", "packet_encoding"}), NewVLESS)
         @@ outbound_ParseFromJson(d) @@ LayersFromJson(d))

vless_ParseFromClash(c) ==
  Accept(Str(c, "type") = "vless",
         Read(c, Same({"uuid", "flow"}), Empty)
         @@ Put("packet_encoding", Str(c, "packet-encoding"))
         @@ outbound_ParseFromClash(c) @@ LayersFromClash(c))

vless_ExportToLink(o) ==
  ("scheme" :> "vless") @@ Put("user", Str(o, "uuid")) @@ LinkTo(o)
  @@ ("query" :> (("encryption" :> "none") @@ Put("flow", Str(o, "flow")) @@ LayersToLink(o)
                 @@ PacketEncodingLink(o)))

vlessBody(o) ==
  [type |-> "vless", packet_encoding |-> Str(o, "packet_encoding")]
  @@ Write(o, Same({"uuid", "flow"}))
vless_ExportToJson(o) == vlessBody(o) @@ outbound_ExportToJson(o) @@ LayersToJson(o)
vless_Build(s, o) == vlessBody(o) @@ outbound_Build(s, o) @@ LayersBuilt(s, o)

(***************************************************************************)
(* SSH: the lists and the key are base64 words in a link                   *)
(***************************************************************************)
sshKeys == Same({"user", "password", "private_key", "private_key_path",
                 "private_key_passphrase", "host_key", "host_key_algorithms", "client_version"})

ssh_ParseFromLink(link) ==
  LET o == Read(Query(link), sshKeys, Empty) @@ outbound_ParseFromLink(link)
  IN  Accept(Has(o, "server"), o)
ssh_ParseFromJson(d) ==
  Accept(Str(d, "type") = "ssh", Read(d, sshKeys, Empty) @@ outbound_ParseFromJson(d))
ssh_ParseFromClash(c) ==
  Accept(Str(c, "type") = "ssh",
         Read(c, [user |-> "username", password |-> "password", private_key |-> "private-key",
                  private_key_passphrase |-> "private-key-passphrase", host_key |-> "host-key",
                  host_key_algorithms |-> "host-key-algorithms"], Empty)
         @@ outbound_ParseFromClash(c))
ssh_ExportToLink(o) == LinkOf(o, "ssh", Empty, Write(o, sshKeys))
ssh_ExportToJson(o) == ("type" :> "ssh") @@ Write(o, sshKeys) @@ outbound_ExportToJson(o)
ssh_Build(s, o) == ("type" :> "ssh") @@ Write(o, sshKeys) @@ outbound_Build(s, o)

(***************************************************************************)
(* Mieru: every port is a "port" item of the query, ranges carry a dash    *)
(***************************************************************************)
NewMieru == [transport |-> "TCP"]
Ranges == {"9000-9010"}
mieruKeys == Same({"username", "password", "multiplexing", "traffic_pattern"})

mieru_ParseFromLink(link) ==
  LET q == Query(link)
      ports == List(q, "port")
      singles == {i \in DOMAIN ports : ports[i] \notin Ranges}
      ranges == {i \in DOMAIN ports : ports[i] \in Ranges}
  IN  Accept(Has(link, "host") /\ DOMAIN q # {},
        Credentials(link) @@ ("transport" :> (IF Has(q, "protocol") THEN q.protocol ELSE "TCP"))
        @@ When(singles # {}, "server_port" :> ports[CHOOSE i \in singles : TRUE])
        @@ When(ranges # {}, "server_ports" :> ports[CHOOSE i \in ranges : TRUE])
        @@ Read(q, [multiplexing |-> "multiplexing", traffic_pattern |-> "traffic-pattern"], Empty)
        @@ Without(outbound_ParseFromLink(link), {"server_port"}))

mieru_ParseFromJson(d) ==
  Accept(Str(d, "type") = "mieru",
         Read(d, mieruKeys @@ Same({"transport", "server_ports"}), NewMieru)
         @@ outbound_ParseFromJson(d))

TransportOf(o) == "transport" :> (IF Has(o, "transport") THEN o.transport ELSE "TCP")

mieru_ExportToLink(o) ==
  LET port(f) == IF Has(o, f) /\ o[f] # "-1" THEN <<o[f]>> ELSE << >>
      ports == port("server_port") \o port("server_ports")
      link == LinkOf(o, "mierus", UserAndPassword(o),
                ("profile" :> "default") @@ PutList("port", ports)
                @@ When(ports # << >>, "protocol" :> TransportOf(o).transport)
                @@ Write(o, [multiplexing |-> "multiplexing",
                             traffic_pattern |-> "traffic-pattern"]))
  IN  Without(link, {"port"})

mieruBody(o) ==
  ("type" :> "mieru") @@ TransportOf(o) @@ Write(o, mieruKeys @@ Same({"server_ports"}))
mieru_ExportToJson(o) == mieruBody(o) @@ outbound_ExportToJson(o)
mieru_Build(s, o) == mieruBody(o) @@ outbound_Build(s, o)

(***************************************************************************)
(* Tailscale: an endpoint without an address; globalDNS stays in the GUI   *)
(***************************************************************************)
NewTailscale == [state_directory |-> "$HOME/.tailscale",
                 control_url |-> "https://controlplane.tailscale.com"]
tailscaleKeys == Same({"state_directory", "auth_key", "control_url", "ephemeral", "hostname",
                       "accept_routes", "exit_node", "exit_node_allow_lan_access",
                       "advertise_routes", "advertise_exit_node"})

tailscale_ParseFromJson(d) ==
  Accept(Str(d, "type") = "tailscale",
         Read(d, tailscaleKeys @@ Same({"globalDNS"}), NewTailscale) @@ outbound_ParseFromJson(d))
tailscale_ExportToLink(o) ==
  [scheme |-> "ts", host |-> "tailscale",
   query |-> Write(o, tailscaleKeys @@ [globalDNS |-> "global_dns"])]
  @@ Put("fragment", Str(o, "name"))
tailscale_ExportToJson(o) ==
  [type |-> "tailscale", tag |-> Str(o, "name")] @@ Write(o, tailscaleKeys @@ Same({"globalDNS"}))
tailscale_Build(o) == ("type" :> "tailscale") @@ Write(o, tailscaleKeys)

(***************************************************************************)
(* WireGuard and AmneziaWG: one peer, whose address is the one that counts *)
(***************************************************************************)
PeerLink == [public_key |-> "public_key", pre_shared_key |-> "pre_shared_key",
             reserved |-> "reserved", persistent_keepalive |-> "persistent_keepalive_interval"]
PeerKeys == PeerLink @@ Same({"address", "port"})
Peer_ParseFromLink(link) ==
  Put("public_key", Str(Query(link), "peer_public_key")) @@ Read(Query(link), PeerLink, Empty)
  @@ Put("address", Str(link, "host"))
  @@ Put("port", IF Has(link, "port") THEN link.port ELSE "-1")
Peer_ParseFromJson(d) == Read(d, PeerKeys, Empty)
Peer_ExportToJson(o) == Write(o, Without(PeerKeys, {"port"})) @@ Positive(o, "port")
Peer_Build(o) == ("allowed_ips" :> "all") @@ Peer_ExportToJson(o)

AmneziaFields == {"jc", "jmin", "jmax", "s1", "s2", "s3", "s4", "h1", "h2", "h3", "h4",
                  "i1", "i2", "i3", "i4", "i5"}
AmneziaFromJson(d) ==
  When(DOMAIN d # {}, ("enable_amnezia" :> "true") @@ Read(d, Same(AmneziaFields), Empty))
AmneziaToJson(o) == When(IsOn(o, "enable_amnezia"), Write(o, Same(AmneziaFields)))
AmneziaFromLink(q) ==
  When(IsOn(q, "enable_amnezia") \/ DOMAIN q \cap AmneziaFields # {},
       ("enable_amnezia" :> "true") @@ Read(q, Same(AmneziaFields), Empty))

NewWireguard == [mtu |-> "1420"]
FixAddress(o) == IF Str(o, "address") = "10.0.0.2" THEN [address |-> "10.0.0.2/32"] @@ o ELSE o
wireguardLink == [private_key |-> "private_key", mtu |-> "mtu", system |-> "use_system_interface",
                  worker_count |-> "workers", udp_timeout |-> "udp_timeout",
                  address |-> "local_address"]
wireguardKeys == Same(DOMAIN wireguardLink)

\* The text of a .conf file; its addresses are taken as they are.
wireguard_ParseFromConf(conf) ==
  LET o == Read(conf, [private_key |-> "PrivateKey", address |-> "Address", mtu |-> "MTU",
                       server |-> "EndpointHost", server_port |-> "EndpointPort"], NewWireguard)
           @@ AmneziaFromLink(conf)
           @@ PutObj("peer", Read(conf, [public_key |-> "PublicKey",
                pre_shared_key |-> "PresharedKey", persistent_keepalive |-> "PersistentKeepalive",
                address |-> "EndpointHost", port |-> "EndpointPort"], Empty))
  IN  Accept(Has(o, "private_key") /\ Has(Obj(o, "peer"), "public_key"), o)

wireguard_ParseFromLink(link) ==
  LET o == Read(Query(link), wireguardLink, NewWireguard) @@ AmneziaFromLink(Query(link))
           @@ PutObj("peer", Peer_ParseFromLink(link)) @@ outbound_ParseFromLink(link)
  IN  IF Has(link, "conf") THEN wireguard_ParseFromConf(link.conf)
      ELSE Accept(/\ {"private_key", "server"} \subseteq DOMAIN o
                  /\ Has(Obj(o, "peer"), "public_key"), FixAddress(o))

wireguard_ParseFromJson(d) ==
  Accept(Str(d, "type") = "wireguard",
         FixAddress(Read(d, wireguardKeys, NewWireguard) @@ outbound_ParseFromJson(d)
                    @@ PutObj("peer", Peer_ParseFromJson(Obj(d, "peers")))
                    @@ AmneziaFromJson(Obj(d, "amnezia_wg"))))

(* An mtu of 1420 is not written: it is the initial value of the class. *)
wireguard_ExportToLink(o) ==
  LET peer == Obj(o, "peer")
  IN  LinkOf(Put("server", Str(peer, "address")) @@ Put("server_port", Str(peer, "port"))
             @@ Without(o, {"server", "server_port"}), "wg", Empty,
             Write(IF Str(o, "mtu") = "1420" THEN Without(o, {"mtu"}) ELSE o, wireguardLink)
             @@ When(IsOn(o, "enable_amnezia"), ("enable_amnezia" :> "true") @@ AmneziaToJson(o))
             @@ Write(peer, PeerLink))

wireguardBody(o) ==
  ("type" :> "wireguard") @@ Put("tag", Str(o, "name")) @@ DialFields_Export(Obj(o, "dialFields"))
  @@ Write(o, wireguardKeys) @@ PutObj("amnezia_wg", AmneziaToJson(o))
wireguard_ExportToJson(o) ==
  wireguardBody(o) @@ PutObj("peers", Peer_ExportToJson(Obj(o, "peer")))
wireguard_Build(o) == wireguardBody(o) @@ ("peers" :> Peer_Build(Obj(o, "peer")))
================================================================================
