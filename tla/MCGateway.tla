----------------------------- MODULE MCGateway -----------------------------
(* Instances of Gateway for TLC.                                           *)
EXTENDS Gateway

Option(mode, host, port, tls) == [mode |-> mode, host |-> host, port |-> port, tls |-> tls]

SomeOptions ==
  { Option("ara", "dns", 0, "acme"), Option("wireguard", "nat", 443, ""),
    Option("ipip", "local", 0, ""), Option("ssh", "dns", 2222, ""),
    Option("ipip", "nat", 0, ""), Option("ipip", "dns", 0, ""),   \* refused, late and early
    Option("ara", "nat", 8443, "acme"), Option("ara", "ipv6", 0, "") }

\* One sysctl that is off, one that is stricter, one that is as Hamara wants it.
OneOriginal ==
  {[k \in Keys |-> CASE k = "ip_forward" -> 0 [] k = "rp_all" -> 1 [] k = "rp_default" -> 2]}
=============================================================================
