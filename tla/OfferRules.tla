----------------------------- MODULE OfferRules -----------------------------
(***************************************************************************)
(* From the options of `hamara init outside` to the two ends of a link:    *)
(* how options are screened and completed, what the offer carries, what an *)
(* edge checks in it and makes of it, and what is rendered from either     *)
(* configuration.  Operators only.                                         *)
(*                                                                         *)
(* A host is one of the kinds that some check tells apart.  An address of  *)
(* a tunnel is a pair: its network, and the last number in it.  Keys and   *)
(* identities are made by other programs and are left out.                 *)
(***************************************************************************)
EXTENDS Naturals

HostKinds ==
  { "local",     \* the IPv4 address of the gateway's WAN interface
    "nat",       \* a public IPv4 address that a router maps to the gateway
    "mapped",    \* an IPv4 address written as ::ffff:a.b.c.d
    "ipv6", "dns", "malformed" }

IsIPv4(h) == h \in {"local", "nat", "mapped"}
IsIP(h)   == IsIPv4(h) \/ h = "ipv6"

ModeNames == {"ara", "wireguard", "ipip", "ssh"}
Routed(mode) == mode \in {"ara", "wireguard", "ipip"}

Ports == 1 .. 65535

ValidEndpointHost(h) == IsIPv4(h) \/ h = "dns"

----------------------------------------------------------------------------
(***************************************************************************)
(* The gateway.                                                            *)
(***************************************************************************)

\* What an operator may give `init outside`; a port of 0 is the mode's own.
OptionSet == [mode : STRING, host : HostKinds, port : Nat, tls : STRING]

\* 0 stands for a field that a mode does not use.
Unset ==
  [mode |-> "none", host |-> "malformed", port |-> 0, net |-> 0, gateway |-> <<0, 0>>,
   edge |-> <<0, 0>>, wgPort |-> 0, relay |-> 0, mtu |-> 0, table |-> 0,
   tls |-> "", verify |-> FALSE, sshPort |-> 0, socks |-> 0]

Network(c, n) == [c EXCEPT !.net = n, !.gateway = <<n, 1>>, !.edge = <<n, 2>>]

Defaults(mode) ==
  LET c == [Unset EXCEPT !.mode = mode] IN
  CASE mode = "ara"       -> [Network(c, 73) EXCEPT !.wgPort = 51820, !.relay = 51821,
                                                    !.mtu = 1280, !.table = 52730]
    [] mode = "wireguard" -> [Network(c, 74) EXCEPT !.wgPort = 51820,
                                                    !.mtu = 1380, !.table = 52740]
    [] mode = "ipip"      -> [Network(c, 75) EXCEPT !.mtu = 1400, !.table = 52750]
    [] mode = "ssh"       -> [c EXCEPT !.socks = 10808]

DefaultPort(mode) ==
  CASE mode = "ara" -> 443 [] mode = "wireguard" -> 51820
    [] mode = "ssh" -> 22  [] mode = "ipip"      -> 4

PortOf(o) == IF o.port = 0 THEN DefaultPort(o.mode) ELSE o.port

TLSOf(o) ==
  CASE o.mode # "ara" -> "" [] o.tls = "" -> "self-signed" [] OTHER -> o.tls

\* What InitOutside rejects before it changes anything on the host.
Screened(o) ==
  /\ o.mode \in ModeNames
  /\ ValidEndpointHost(o.host)
  /\ PortOf(o) \in Ports
  /\ o.mode = "ipip" => IsIPv4(o.host)

\* prepareTLS, and the check of the IPIP endpoint against the WAN interface.
Prepared(c) ==
  /\ c.mode = "ara" => c.tls \in {"acme", "existing", "self-signed"}
  /\ c.tls = "acme" => ~IsIP(c.host)
  /\ c.mode = "ipip" => c.host = "local"

\* A fault: a direct WireGuard gateway listens on the default port.
ConfigForDefaultListener(o) ==
  [Defaults(o.mode) EXCEPT
     !.host = o.host, !.port = PortOf(o), !.tls = TLSOf(o),
     !.verify = (TLSOf(o) \in {"acme", "existing"}),
     !.sshPort = IF o.mode = "ssh" THEN PortOf(o) ELSE @]

ConfigFor(o) ==
  [Defaults(o.mode) EXCEPT
     !.host = o.host, !.port = PortOf(o), !.tls = TLSOf(o),
     !.verify = (TLSOf(o) \in {"acme", "existing"}),
     !.wgPort  = IF o.mode = "wireguard" THEN PortOf(o) ELSE @,
     !.sshPort = IF o.mode = "ssh" THEN PortOf(o) ELSE @]

----------------------------------------------------------------------------
(***************************************************************************)
(* The offer and the edge.  The offer carries every field of the           *)
(* configuration above; the edge copies them.                              *)
(***************************************************************************)

MakeOffer(c) ==
  [k \in DOMAIN Unset \cup {"ipipHost"} |->
     IF k # "ipipHost" THEN c[k] ELSE IF c.mode = "ipip" THEN c.host ELSE "malformed"]

ValidateOffer(f) ==
  /\ f.mode \in ModeNames
  /\ ValidEndpointHost(f.host) /\ f.port \in Ports
  /\ Routed(f.mode) =>
       /\ \A a \in {f.gateway, f.edge} : a[1] = f.net /\ a[2] \in 0 .. 3
       /\ f.gateway # f.edge
       /\ f.mtu >= 576 /\ f.mtu <= 1500 /\ f.table >= 1 /\ f.table <= 2147483647
  /\ f.mode \in {"ara", "wireguard"} => f.wgPort \in Ports
  /\ f.mode = "ara" =>
       /\ f.relay \in Ports
       /\ f.tls \in {"acme", "existing", "self-signed"}
       /\ f.tls = "self-signed" <=> ~f.verify
  /\ f.mode = "wireguard" => f.wgPort = f.port
  /\ f.mode = "ssh" => f.sshPort \in Ports /\ f.sshPort = f.port /\ f.socks >= 1024 /\ f.socks <= 65535
  /\ f.mode = "ipip" => IsIPv4(f.ipipHost) /\ f.ipipHost = f.host

\* Join
JoinConfig(f) == [k \in DOMAIN Unset |-> f[k]]

----------------------------------------------------------------------------
(***************************************************************************)
(* What is rendered.  An endpoint is a pair of a host and a port.          *)
(***************************************************************************)

\* hamara0.conf, or the arguments of the IPIP script.
GatewayLink(c) == [own |-> c.gateway, peer |-> c.edge, mtu |-> c.mtu, listen |-> c.wgPort]

EdgeLink(c) ==
  [own |-> c.edge, peer |-> c.gateway, mtu |-> c.mtu,
   endpoint |-> IF c.mode = "ara" THEN <<"loopback", c.relay>>
                ELSE IF c.mode = "wireguard" THEN <<c.host, c.port>> ELSE <<c.host, 0>>]

ARAServer(c) == [listen |-> c.port, to |-> <<"loopback", c.wgPort>>, cert |-> c.tls]
ARAClient(c) == [listen |-> c.relay, connect |-> <<c.host, c.port>>,
                 to |-> <<"loopback", c.wgPort>>, verify |-> c.verify]

SSHClient(c) == [socks |-> c.socks, connect |-> <<c.host, c.sshPort>>, known |-> <<c.host, c.sshPort>>]

\* A fault: Xray's outbound is bound to the gateway's end of the tunnel.
XrayOutboundFromGateway(c) ==
  IF c.mode = "ssh" THEN [from |-> "loopback", mark |-> 0, proxy |-> c.socks]
  ELSE [from |-> c.gateway, mark |-> 72, proxy |-> 0]

\* What `hamara xray` prints.
XrayOutbound(c) ==
  IF c.mode = "ssh" THEN [from |-> "loopback", mark |-> 0, proxy |-> c.socks]
  ELSE [from |-> c.edge, mark |-> 72, proxy |-> 0]

\* What the guard's policy rules and packet filter match.
GuardMatches(c) == [from |-> c.edge, mark |-> 72]

----------------------------------------------------------------------------
(***************************************************************************)
(* What both ends must agree on.                                           *)
(***************************************************************************)

\* The edge's packets for the gateway arrive at a port it listens on.
Reaches(e, g) ==
  CASE e.mode = "wireguard" -> EdgeLink(e).endpoint = <<g.host, GatewayLink(g).listen>>
    [] e.mode = "ara" ->
         /\ EdgeLink(e).endpoint = <<"loopback", ARAClient(e).listen>>
         /\ ARAClient(e).connect = <<g.host, ARAServer(g).listen>>
         /\ ARAClient(e).to = ARAServer(g).to
         /\ ARAServer(g).to = <<"loopback", GatewayLink(g).listen>>
         /\ ARAClient(e).verify => ARAServer(g).cert # "self-signed"
    [] e.mode = "ipip" -> EdgeLink(e).endpoint[1] = "local"
    [] e.mode = "ssh" ->
         /\ SSHClient(e).connect = <<g.host, g.port>>
         /\ SSHClient(e).known = SSHClient(e).connect

EndsAgree(g, e) ==
  /\ Reaches(e, g)
  /\ Routed(e.mode) =>
       /\ GatewayLink(g).peer = EdgeLink(e).own /\ EdgeLink(e).peer = GatewayLink(g).own
       /\ GatewayLink(g).mtu = EdgeLink(e).mtu
       /\ XrayOutbound(e).from = GuardMatches(e).from
       /\ XrayOutbound(e).mark = GuardMatches(e).mark

=============================================================================
