-------------------------------- MODULE Sharing --------------------------------
(* The way of a profile through its forms.  It is entered in the editor or     *)
(* taken from a subscription, written to a row, built for the core, read back  *)
(* from the row after a restart, copied as a link or as JSON and received on   *)
(* another device.                                                             *)
EXTENDS Subscriptions

CONSTANTS Edited,      \* profiles as the editor leaves them
          Texts,       \* subscriptions and clipboard texts
          Settings,    \* the settings a configuration is built under
          None

VARIABLES
  profile,     \* the profile in memory
  row,         \* its row: the type and the JSON object
  origin,      \* history: the profile as it was entered or imported
  source,      \* history: the text it came from, and under which settings
  clip,        \* what was copied last, and the profile it was copied from
  received     \* what the other device, under its settings, made of it

vars == <<profile, row, origin, source, clip, received>>

TypeOK ==
  /\ profile = None <=> row = None
  /\ profile = None <=> origin = None
  /\ source # None => source.text \in Texts /\ source.under \in Settings
  /\ profile # None => /\ row.type = profile.type /\ origin.type = profile.type
                       /\ ~Has(profile.o, "invalid")
  /\ clip = None => received = None

Init ==
  /\ profile = None /\ row = None /\ origin = None /\ source = None
  /\ clip = None /\ received = None

RowOf(p) == [type |-> p.type, d |-> ExportToJson(p)]
Store(p) == profile' = p /\ row' = RowOf(p) /\ origin' = p

Edit(p) ==
  /\ profile = None
  /\ Store(p)
  /\ UNCHANGED <<source, clip, received>>

Import(text) ==
  /\ profile = None
  /\ \E s \in Settings : \E i \in DOMAIN update(s, text) :
       Store(update(s, text)[i]) /\ source' = [text |-> text, under |-> s]
  /\ UNCHANGED <<clip, received>>

(* Building works on the profile in memory, which may outlive the core.        *)
Start ==
  /\ profile # None
  /\ profile' = IF profile.type = "shadowsocks"
                THEN [profile EXCEPT !.o = shadowsocks_Split(@)] ELSE profile
  /\ UNCHANGED <<row, origin, source, clip, received>>

Restart ==
  /\ profile # None
  /\ profile' = ProfileOf(row.type, ParseFromJson(row.type, row.d))
  /\ UNCHANGED <<row, origin, source, clip, received>>

(* on_menu_copy_links_triggered; a type without a link is copied as JSON.      *)
LinkOrJson(p) == IF DOMAIN ExportToLink(p) = {} THEN ExportJsonLink(p) ELSE ExportToLink(p)

Copy ==
  /\ profile # None /\ clip = None
  /\ \E link \in {LinkOrJson(profile), ExportJsonLink(profile)} :
       clip' = [link |-> link, of |-> profile]
  /\ UNCHANGED <<profile, row, origin, source, received>>

Receive ==
  /\ clip # None /\ received = None
  /\ \E s \in Settings : received' = [under |-> s, list |-> update(s, [link |-> clip.link])]
  /\ UNCHANGED <<profile, row, origin, source, clip>>

Next ==
  \/ \E p \in Edited : Edit(p)
  \/ \E text \in Texts : Import(text)
  \/ Start \/ Restart \/ Copy \/ Receive

Spec == Init /\ [][Next]_vars

(***************************************************************************)
(* What the code does not keep                                             *)
(***************************************************************************)
Cleared(o, fresh) == \E f \in DOMAIN fresh : ~Has(o, f)

\* Fields that are empty come back with their initial values, and those of a
\* multiplexer or of Reality are dropped while it is not enabled explicitly.
BothLose(p) ==
  LET o == p.o
      unsaid(part, f) == f \in DOMAIN part /\ ~Has(part, "enabled")
  IN  \/ p.type = "anytls" /\ Cleared(o, NewAnyTLS)
      \/ p.type = "tailscale" /\ Cleared(o, NewTailscale)
      \/ p.type = "wireguard" /\ (Cleared(o, NewWireguard) \/ FixAddress(o) # o)
      \/ unsaid(Obj(Obj(o, "tls"), "reality"), "public_key")
      \/ p.type # "xrayvless" /\ \E f \in MuxFields : unsaid(Obj(o, "multiplex"), f)

RowLoses(p) ==
  \/ BothLose(p)
  \/ p.type = "socks" /\ Str(p.o, "version") # "5"
  \/ p.type \in {"naive", "trusttunnel"} /\ Has(p.o, "congestion_control") /\ IsOn(p.o, "quic")
  \/ p.type = "xrayvless" /\ Cleared(p.o.multiplex, NewXrayMux)

LinkLoses(p) ==
  LET o == p.o
      secret == {"username", "password"} \cap DOMAIN o
  IN  \/ BothLose(p)
      \/ p.type = "tailscale"
      \/ p.type # "mieru" /\ ~Has(o, "server_port")
      \/ p.type \in {"http", "socks"} /\ secret = {"username"} /\ DecodeB64IfValid(o.username) # ""
      \/ p.type = "http" /\ secret = {"password"}
      \/ p.type \in {"trojan", "vmess", "vless"} /\ Has(o, "dialFields")
      \/ p.type = "trojan" /\ Str(Obj(o, "multiplex"), "enabled") = "false"
      \/ p.type = "hysteria" /\ (Has(o, "server_ports") \/ Str(o, "auth_type") = "BASE64")
      \/ p.type = "trusttunnel" /\ IsOn(o, "quic") /\ ~Has(o, "congestion_control")
      \/ p.type = "shadowsocks" /\ Has(o, "plugin") /\ ~Has(o, "plugin_opts")
      \/ p.type = "xrayvless" /\ Str(o.streamSetting, "network") \notin XrayNetworks \cup {"kcp"}
      \/ p.type = "xrayvless" /\ Str(Obj(o.streamSetting, "settings"), "xPaddingKey") = Apostrophe

SameConfig(p, q) == p.type = q.type /\ \A s \in Settings : BuildOf(s, p) = BuildOf(s, q)

(* A profile read back from its row after a restart builds what it built when  *)
(* it was entered or imported, under every settings; the fields RowLoses names *)
(* are the ones ExportToJson and ParseFromJson of a class disagree on.         *)
RestartKeepsConfig ==
  profile # None /\ ~RowLoses(origin) => SameConfig(profile, origin)

(* An update with the same text finds a profile again, whatever happened to it *)
(* since: were its key another one, the update would delete the profile with   *)
(* its statistics and add a new one (the filter of GroupUpdater).              *)
UpdateRecognises ==
  source # None /\ ~RowLoses(origin) /\ shadowsocks_Split(origin.o) = origin.o =>
    LET list == update(source.under, source.text)
    IN  \E i \in DOMAIN list : ProfileFilter_ent_key(profile) = ProfileFilter_ent_key(list[i])

(* Another device that receives a copied link makes one profile of it, which   *)
(* builds what the copied one builds, unless its preference hands the link to  *)
(* the other core.  The row's losses hold for a link of JSON.                  *)
SameCore(p, link, s) ==
  p.type \in {"vless", "xrayvless"} => (p.type = "xrayvless" <=> useXrayVless(s, Query(link)))

ReceiverGetsConfig ==
  /\ received # None
  /\ IF clip.link.scheme = "json" THEN ~RowLoses(clip.of)
     ELSE ~LinkLoses(clip.of) /\ SameCore(clip.of, clip.link, received.under)
  => Len(received.list) = 1 /\ SameConfig(received.list[1], clip.of)

(* A profile whose text asks for TLS is never built in the clear, also not     *)
(* after a restart.  SOCKS has no TLS here, and of an unknown Xray network only *)
(* the name is kept, the security dropped.                                     *)
AsksForTLS(text) ==
  \/ Has(text, "link") /\ Str(Query(text.link), "security") \in {"tls", "reality"}
  \/ Has(text, "link") /\ Str(Obj(text.link, "v2rayn"), "tls") = "tls"
  \/ Has(text, "proxies") /\ Str(text.proxies[1], "tls") \in {"true", "1"}
BuiltWithTLS(s, p) ==
  LET built == BuildOf(s, p)
  IN  IF p.type = "xrayvless" THEN built.streamSettings.security # "none"
      ELSE IsOn(Obj(built, "tls"), "enabled")

AskedTLSIsBuilt ==
  /\ source # None /\ AsksForTLS(source.text) /\ profile.type # "socks"
  /\ profile.type = "xrayvless" => profile.o.streamSetting.network \in XrayNetworks
  => \A s \in Settings : BuiltWithTLS(s, profile)
===============================================================================
