-------------------------- MODULE OfferRulesProofs --------------------------
(***************************************************************************)
(* What OfferRules says of every option an operator may give: of any mode, *)
(* kind of host, port and TLS mode, where the runs try a few.              *)
(***************************************************************************)
EXTENDS OfferRules, TLAPS

\* What `init outside` gets past its checks with.
Acceptable(o) == Screened(o) /\ Prepared(ConfigFor(o))

Fields == {"mode", "host", "port", "net", "gateway", "edge", "wgPort", "relay", "mtu",
           "table", "tls", "verify", "sshPort", "socks"}

Addressed(d, m, n) ==
  /\ DOMAIN d = Fields /\ d.mode = m
  /\ d.net = n /\ d.gateway = <<n, 1>> /\ d.edge = <<n, 2>>

----------------------------------------------------------------------------
(***************************************************************************)
(* The default configurations.                                             *)
(***************************************************************************)

LEMMA UnsetFields == DOMAIN Unset = Fields
  BY DEF Unset, Fields

LEMMA NetworkFields ==
  ASSUME NEW m, NEW n
  PROVE  Addressed(Network([Unset EXCEPT !.mode = m], n), m, n)
<1>1. PICK b : b = [Unset EXCEPT !.mode = m]
  OBVIOUS
<1>2. DOMAIN b = Fields /\ b.mode = m
  BY <1>1, UnsetFields DEF Fields
<1>3. PICK d : d = [b EXCEPT !.net = n, !.gateway = <<n, 1>>, !.edge = <<n, 2>>]
  OBVIOUS
<1>4. d = Network([Unset EXCEPT !.mode = m], n)
  BY <1>1, <1>3 DEF Network
<1>5. Addressed(d, m, n)
  BY <1>2, <1>3 DEF Addressed, Fields
<1> QED
  BY <1>4, <1>5

LEMMA ARADefaults ==
  /\ Addressed(Defaults("ara"), "ara", 73)
  /\ Defaults("ara").wgPort = 51820 /\ Defaults("ara").relay = 51821
  /\ Defaults("ara").mtu = 1280 /\ Defaults("ara").table = 52730
<1>1. PICK d : d = Network([Unset EXCEPT !.mode = "ara"], 73)
  OBVIOUS
<1>2. PICK c : c = [d EXCEPT !.wgPort = 51820, !.relay = 51821, !.mtu = 1280, !.table = 52730]
  OBVIOUS
<1>3. c = Defaults("ara")
  BY <1>1, <1>2 DEF Defaults
<1>4. Addressed(d, "ara", 73)
  BY <1>1, NetworkFields
<1>5. /\ Addressed(c, "ara", 73)
      /\ c.wgPort = 51820 /\ c.relay = 51821 /\ c.mtu = 1280 /\ c.table = 52730
  BY <1>2, <1>4 DEF Addressed, Fields
<1> QED
  BY <1>3, <1>5

LEMMA WireGuardDefaults ==
  /\ Addressed(Defaults("wireguard"), "wireguard", 74)
  /\ Defaults("wireguard").mtu = 1380 /\ Defaults("wireguard").table = 52740
<1>1. PICK d : d = Network([Unset EXCEPT !.mode = "wireguard"], 74)
  OBVIOUS
<1>2. PICK c : c = [d EXCEPT !.wgPort = 51820, !.mtu = 1380, !.table = 52740]
  OBVIOUS
<1>3. c = Defaults("wireguard")
  BY <1>1, <1>2 DEF Defaults
<1>4. Addressed(d, "wireguard", 74)
  BY <1>1, NetworkFields
<1>5. Addressed(c, "wireguard", 74) /\ c.mtu = 1380 /\ c.table = 52740
  BY <1>2, <1>4 DEF Addressed, Fields
<1> QED
  BY <1>3, <1>5

LEMMA IPIPDefaults ==
  /\ Addressed(Defaults("ipip"), "ipip", 75)
  /\ Defaults("ipip").mtu = 1400 /\ Defaults("ipip").table = 52750
<1>1. PICK d : d = Network([Unset EXCEPT !.mode = "ipip"], 75)
  OBVIOUS
<1>2. PICK c : c = [d EXCEPT !.mtu = 1400, !.table = 52750]
  OBVIOUS
<1>3. c = Defaults("ipip")
  BY <1>1, <1>2 DEF Defaults
<1>4. Addressed(d, "ipip", 75)
  BY <1>1, NetworkFields
<1>5. Addressed(c, "ipip", 75) /\ c.mtu = 1400 /\ c.table = 52750
  BY <1>2, <1>4 DEF Addressed, Fields
<1> QED
  BY <1>3, <1>5

LEMMA SSHDefaults ==
  LET c == Defaults("ssh") IN DOMAIN c = Fields /\ c.mode = "ssh" /\ c.socks = 10808
<1>1. PICK d : d = [Unset EXCEPT !.mode = "ssh"]
  OBVIOUS
<1>2. PICK c : c = Defaults("ssh")
  OBVIOUS
<1>3. c = [d EXCEPT !.socks = 10808]
  BY <1>1, <1>2 DEF Defaults
<1>4. DOMAIN d = Fields /\ d.mode = "ssh"
  BY <1>1, UnsetFields DEF Fields
<1>5. DOMAIN c = Fields /\ c.mode = "ssh" /\ c.socks = 10808
  BY <1>3, <1>4 DEF Fields
<1> QED
  BY <1>2, <1>5

----------------------------------------------------------------------------
(***************************************************************************)
(* The configuration of an instance, and the copy of it that an edge makes *)
(* of the offer.                                                           *)
(***************************************************************************)

Kept == {"mode", "net", "gateway", "edge", "relay", "mtu", "table", "socks"}

LEMMA ConfigFields ==
  ASSUME NEW o, DOMAIN Defaults(o.mode) = Fields
  PROVE  LET c == ConfigFor(o) IN
         /\ DOMAIN c = Fields
         /\ c.host = o.host /\ c.port = PortOf(o) /\ c.tls = TLSOf(o)
         /\ c.verify <=> TLSOf(o) \in {"acme", "existing"}
         /\ c.wgPort = IF o.mode = "wireguard" THEN PortOf(o) ELSE Defaults(o.mode).wgPort
         /\ o.mode = "ssh" => c.sshPort = PortOf(o)
         /\ \A k \in Kept : c[k] = Defaults(o.mode)[k]
<1>1. PICK d : d = Defaults(o.mode)
  OBVIOUS
<1>2. PICK v : v = (TLSOf(o) \in {"acme", "existing"})
  OBVIOUS
<1>3. PICK c : c = [d EXCEPT
                      !.host = o.host, !.port = PortOf(o), !.tls = TLSOf(o), !.verify = v,
                      !.wgPort  = IF o.mode = "wireguard" THEN PortOf(o) ELSE @,
                      !.sshPort = IF o.mode = "ssh" THEN PortOf(o) ELSE @]
  OBVIOUS
<1>4. c = ConfigFor(o)
  BY <1>1, <1>2, <1>3 DEF ConfigFor
<1>5. DOMAIN d = Fields
  BY <1>1
<1>6. /\ DOMAIN c = Fields
      /\ c.host = o.host /\ c.port = PortOf(o) /\ c.tls = TLSOf(o) /\ c.verify = v
      /\ c.wgPort = IF o.mode = "wireguard" THEN PortOf(o) ELSE d.wgPort
      /\ o.mode = "ssh" => c.sshPort = PortOf(o)
      /\ \A k \in Kept : c[k] = d[k]
  BY <1>3, <1>5 DEF Fields, Kept
<1>7. c.verify <=> TLSOf(o) \in {"acme", "existing"}
  BY <1>2, <1>6, Zenon
<1> QED
  BY <1>1, <1>4, <1>6, <1>7

LEMMA OfferFields ==
  ASSUME NEW c, DOMAIN c = Fields
  PROVE  /\ \A k \in Fields : MakeOffer(c)[k] = c[k]
         /\ c.mode = "ipip" => MakeOffer(c).ipipHost = c.host
  BY UnsetFields DEF MakeOffer, Fields

LEMMA EdgeCopies ==
  ASSUME NEW c, DOMAIN c = Fields
  PROVE  \A k \in Fields : JoinConfig(MakeOffer(c))[k] = c[k]
  BY UnsetFields, OfferFields DEF JoinConfig

----------------------------------------------------------------------------
(***************************************************************************)
(* The theorems, a mode at a time.                                         *)
(***************************************************************************)

LEMMA ARALink ==
  ASSUME NEW o \in OptionSet, Acceptable(o), o.mode = "ara"
  PROVE  /\ ValidateOffer(MakeOffer(ConfigFor(o)))
         /\ EndsAgree(ConfigFor(o), JoinConfig(MakeOffer(ConfigFor(o))))
<1>1. PICK c : c = ConfigFor(o)
  OBVIOUS
<1>2. PICK f : f = MakeOffer(c)
  OBVIOUS
<1>3. PICK e : e = JoinConfig(f)
  OBVIOUS
<1>4. DOMAIN Defaults(o.mode) = Fields
  BY ARADefaults DEF Addressed
<1>5. /\ DOMAIN c = Fields
      /\ c.host = o.host /\ c.port = PortOf(o) /\ c.tls = TLSOf(o)
      /\ c.verify <=> TLSOf(o) \in {"acme", "existing"}
      /\ c.wgPort = 51820 /\ c.relay = 51821 /\ c.mtu = 1280 /\ c.table = 52730
      /\ c.mode = "ara" /\ c.net = 73 /\ c.gateway = <<73, 1>> /\ c.edge = <<73, 2>>
  BY <1>1, <1>4, ConfigFields, ARADefaults DEF Addressed, Kept
<1>6. /\ c.port \in Ports /\ ValidEndpointHost(c.host)
      /\ c.tls \in {"acme", "existing", "self-signed"}
  BY <1>1, <1>5 DEF Acceptable, Screened, Prepared
<1>7. \A k \in Fields : f[k] = c[k] /\ e[k] = c[k]
  BY <1>2, <1>3, <1>5, OfferFields, EdgeCopies
<1>8. ValidateOffer(f)
  <2>1. /\ f.host = c.host /\ f.port = c.port /\ f.tls = c.tls /\ f.verify = c.verify
        /\ f.wgPort = 51820 /\ f.relay = 51821 /\ f.mtu = 1280 /\ f.table = 52730
        /\ f.mode = "ara" /\ f.net = 73 /\ f.gateway = <<73, 1>> /\ f.edge = <<73, 2>>
    BY <1>5, <1>7 DEF Fields
  <2>2. f.tls = "self-signed" <=> ~f.verify
    <3>1. f.verify <=> c.verify
      BY <2>1
    <3> QED
      BY <2>1, <3>1, <1>5, <1>6
  <2>3. \A a \in {f.gateway, f.edge} : a[1] = f.net /\ a[2] \in 0 .. 3
    BY <2>1
  <2>4. f.gateway # f.edge
    BY <2>1
  <2>5. f.wgPort \in Ports /\ f.relay \in Ports
    BY <2>1 DEF Ports
  <2>6. f.mtu >= 576 /\ f.mtu <= 1500 /\ f.table >= 1 /\ f.table <= 2147483647
    BY <2>1
  <2>7. f.mode \in ModeNames /\ ValidEndpointHost(f.host) /\ f.port \in Ports
    BY <1>6, <2>1 DEF ModeNames
  <2>8. f.mode = "ara" /\ f.tls \in {"acme", "existing", "self-signed"}
    BY <1>6, <2>1
  <2> QED
    BY <2>2, <2>3, <2>4, <2>5, <2>6, <2>7, <2>8 DEF ValidateOffer
<1>9. EndsAgree(c, e)
  <2>1. /\ e.host = c.host /\ e.port = c.port /\ e.tls = c.tls /\ e.verify = c.verify
        /\ e.wgPort = 51820 /\ e.relay = 51821 /\ e.mtu = 1280
        /\ e.mode = "ara" /\ e.gateway = <<73, 1>> /\ e.edge = <<73, 2>>
    BY <1>5, <1>7 DEF Fields
  <2>2. e.verify => c.tls # "self-signed"
    <3>1. e.verify <=> c.verify
      BY <2>1
    <3> QED
      BY <3>1, <1>5, <1>6
  <2>3. Reaches(e, c)
    BY <1>5, <2>1, <2>2 DEF Reaches, EdgeLink, GatewayLink, ARAClient, ARAServer
  <2> QED
    BY <1>5, <2>1, <2>3 DEF EndsAgree, EdgeLink, GatewayLink, XrayOutbound, GuardMatches
<1> QED
  BY <1>1, <1>2, <1>3, <1>8, <1>9

LEMMA WireGuardLink ==
  ASSUME NEW o \in OptionSet, Acceptable(o), o.mode = "wireguard"
  PROVE  /\ ValidateOffer(MakeOffer(ConfigFor(o)))
         /\ EndsAgree(ConfigFor(o), JoinConfig(MakeOffer(ConfigFor(o))))
<1>1. PICK c : c = ConfigFor(o)
  OBVIOUS
<1>2. PICK f : f = MakeOffer(c)
  OBVIOUS
<1>3. PICK e : e = JoinConfig(f)
  OBVIOUS
<1>4. DOMAIN Defaults(o.mode) = Fields
  BY WireGuardDefaults DEF Addressed
<1>5. /\ DOMAIN c = Fields
      /\ c.host = o.host /\ c.port = PortOf(o) /\ c.wgPort = PortOf(o)
      /\ c.mtu = 1380 /\ c.table = 52740
      /\ c.mode = "wireguard" /\ c.net = 74 /\ c.gateway = <<74, 1>> /\ c.edge = <<74, 2>>
  BY <1>1, <1>4, ConfigFields, WireGuardDefaults DEF Addressed, Kept
<1>6. c.port \in Ports /\ ValidEndpointHost(c.host)
  BY <1>5 DEF Acceptable, Screened
<1>7. \A k \in Fields : f[k] = c[k] /\ e[k] = c[k]
  BY <1>2, <1>3, <1>5, OfferFields, EdgeCopies
<1>8. ValidateOffer(f)
  <2>1. /\ f.host = c.host /\ f.port = c.port /\ f.wgPort = c.port
        /\ f.mtu = 1380 /\ f.table = 52740
        /\ f.mode = "wireguard" /\ f.net = 74 /\ f.gateway = <<74, 1>> /\ f.edge = <<74, 2>>
    BY <1>5, <1>7 DEF Fields
  <2>2. \A a \in {f.gateway, f.edge} : a[1] = f.net /\ a[2] \in 0 .. 3
    BY <2>1
  <2>3. f.gateway # f.edge
    BY <2>1
  <2>4. f.mtu >= 576 /\ f.mtu <= 1500 /\ f.table >= 1 /\ f.table <= 2147483647
    BY <2>1
  <2>5. f.mode \in ModeNames /\ ValidEndpointHost(f.host) /\ f.port \in Ports
    BY <1>6, <2>1 DEF ModeNames
  <2>6. f.mode = "wireguard" /\ f.wgPort = f.port
    BY <2>1
  <2> QED
    BY <2>2, <2>3, <2>4, <2>5, <2>6 DEF ValidateOffer
<1>9. EndsAgree(c, e)
  <2>1. /\ e.host = c.host /\ e.port = c.port /\ e.mtu = 1380
        /\ e.mode = "wireguard" /\ e.gateway = <<74, 1>> /\ e.edge = <<74, 2>>
    BY <1>5, <1>7 DEF Fields
  <2>2. Reaches(e, c)
    BY <1>5, <2>1 DEF Reaches, EdgeLink, GatewayLink
  <2> QED
    BY <1>5, <2>1, <2>2 DEF EndsAgree, EdgeLink, GatewayLink, XrayOutbound, GuardMatches
<1> QED
  BY <1>1, <1>2, <1>3, <1>8, <1>9

LEMMA IPIPLink ==
  ASSUME NEW o \in OptionSet, Acceptable(o), o.mode = "ipip"
  PROVE  /\ ValidateOffer(MakeOffer(ConfigFor(o)))
         /\ EndsAgree(ConfigFor(o), JoinConfig(MakeOffer(ConfigFor(o))))
<1>1. PICK c : c = ConfigFor(o)
  OBVIOUS
<1>2. PICK f : f = MakeOffer(c)
  OBVIOUS
<1>3. PICK e : e = JoinConfig(f)
  OBVIOUS
<1>4. DOMAIN Defaults(o.mode) = Fields
  BY IPIPDefaults DEF Addressed
<1>5. /\ DOMAIN c = Fields
      /\ c.host = o.host /\ c.port = PortOf(o) /\ c.mtu = 1400 /\ c.table = 52750
      /\ c.mode = "ipip" /\ c.net = 75 /\ c.gateway = <<75, 1>> /\ c.edge = <<75, 2>>
  BY <1>1, <1>4, ConfigFields, IPIPDefaults DEF Addressed, Kept
<1>6. c.port \in Ports /\ ValidEndpointHost(c.host) /\ c.host = "local"
  BY <1>1, <1>5 DEF Acceptable, Screened, Prepared
<1>7. \A k \in Fields : f[k] = c[k] /\ e[k] = c[k]
  BY <1>2, <1>3, <1>5, OfferFields, EdgeCopies
<1>8. ValidateOffer(f)
  <2>1. /\ f.host = c.host /\ f.port = c.port /\ f.mtu = 1400 /\ f.table = 52750
        /\ f.mode = "ipip" /\ f.net = 75 /\ f.gateway = <<75, 1>> /\ f.edge = <<75, 2>>
    BY <1>5, <1>7 DEF Fields
  <2>2. \A a \in {f.gateway, f.edge} : a[1] = f.net /\ a[2] \in 0 .. 3
    BY <2>1
  <2>3. f.gateway # f.edge
    BY <2>1
  <2>4. f.mtu >= 576 /\ f.mtu <= 1500 /\ f.table >= 1 /\ f.table <= 2147483647
    BY <2>1
  <2>5. f.mode \in ModeNames /\ ValidEndpointHost(f.host) /\ f.port \in Ports
    BY <1>6, <2>1 DEF ModeNames
  <2>6. f.mode = "ipip" /\ IsIPv4(f.ipipHost) /\ f.ipipHost = f.host
    BY <1>2, <1>5, <1>6, <2>1, OfferFields DEF IsIPv4
  <2> QED
    BY <2>2, <2>3, <2>4, <2>5, <2>6 DEF ValidateOffer
<1>9. EndsAgree(c, e)
  <2>1. /\ e.host = "local" /\ e.mtu = 1400
        /\ e.mode = "ipip" /\ e.gateway = <<75, 1>> /\ e.edge = <<75, 2>>
    BY <1>5, <1>6, <1>7 DEF Fields
  <2>2. Reaches(e, c)
    BY <2>1 DEF Reaches, EdgeLink
  <2> QED
    BY <1>5, <2>1, <2>2 DEF EndsAgree, EdgeLink, GatewayLink, XrayOutbound, GuardMatches
<1> QED
  BY <1>1, <1>2, <1>3, <1>8, <1>9

LEMMA SSHLink ==
  ASSUME NEW o \in OptionSet, Acceptable(o), o.mode = "ssh"
  PROVE  /\ ValidateOffer(MakeOffer(ConfigFor(o)))
         /\ EndsAgree(ConfigFor(o), JoinConfig(MakeOffer(ConfigFor(o))))
<1>1. PICK c : c = ConfigFor(o)
  OBVIOUS
<1>2. PICK f : f = MakeOffer(c)
  OBVIOUS
<1>3. PICK e : e = JoinConfig(f)
  OBVIOUS
<1>4. DOMAIN Defaults(o.mode) = Fields
  BY SSHDefaults
<1>5. /\ DOMAIN c = Fields /\ c.mode = "ssh"
      /\ c.host = o.host /\ c.port = PortOf(o) /\ c.sshPort = PortOf(o) /\ c.socks = 10808
  BY <1>1, <1>4, ConfigFields, SSHDefaults DEF Kept
<1>6. c.port \in Ports /\ ValidEndpointHost(c.host)
  BY <1>5 DEF Acceptable, Screened
<1>7. \A k \in Fields : f[k] = c[k] /\ e[k] = c[k]
  BY <1>2, <1>3, <1>5, OfferFields, EdgeCopies
<1>8. ValidateOffer(f)
  <2>1. /\ f.mode = "ssh" /\ f.host = c.host /\ f.port = c.port
        /\ f.sshPort = c.port /\ f.socks = 10808
    BY <1>5, <1>7 DEF Fields
  <2>2. f.socks >= 1024 /\ f.socks <= 65535
    BY <2>1
  <2>3. f.mode \in ModeNames /\ ~Routed(f.mode)
    BY <2>1 DEF ModeNames, Routed
  <2> QED
    BY <1>6, <2>1, <2>2, <2>3 DEF ValidateOffer
<1>9. EndsAgree(c, e)
  <2>1. e.mode = "ssh" /\ e.host = c.host /\ e.sshPort = c.port
    BY <1>5, <1>7 DEF Fields
  <2>2. Reaches(e, c)
    BY <2>1 DEF Reaches, SSHClient
  <2> QED
    BY <2>1, <2>2 DEF EndsAgree, Routed
<1> QED
  BY <1>1, <1>2, <1>3, <1>8, <1>9

\* Whatever options get past the checks of InitOutside, prepareTLS and the IPIP
\* endpoint, the offer built from them passes ValidateOffer: init does not come
\* to refuse its own offer after it has configured and started the gateway.
THEOREM OfferIsValid ==
  \A o \in OptionSet : Acceptable(o) => ValidateOffer(MakeOffer(ConfigFor(o)))
<1> SUFFICES ASSUME NEW o \in OptionSet, Acceptable(o)
             PROVE  ValidateOffer(MakeOffer(ConfigFor(o)))
  OBVIOUS
<1>1. o.mode \in ModeNames
  BY DEF Acceptable, Screened
<1> QED
  BY <1>1, ARALink, WireGuardLink, IPIPLink, SSHLink DEF ModeNames

\* And what an edge makes of that offer is the other end of what the gateway
\* runs: address, port, MTU, certificate check, and Xray's source and mark.
THEOREM EndsAlwaysAgree ==
  \A o \in OptionSet :
    Acceptable(o) => EndsAgree(ConfigFor(o), JoinConfig(MakeOffer(ConfigFor(o))))
<1> SUFFICES ASSUME NEW o \in OptionSet, Acceptable(o)
             PROVE  EndsAgree(ConfigFor(o), JoinConfig(MakeOffer(ConfigFor(o))))
  OBVIOUS
<1>1. o.mode \in ModeNames
  BY DEF Acceptable, Screened
<1> QED
  BY <1>1, ARALink, WireGuardLink, IPIPLink, SSHLink DEF ModeNames

=============================================================================
