------------------------------- MODULE Access -------------------------------
(***************************************************************************)
(* Who may read GET /metrics (server/src/observability/metrics.ts): the    *)
(* callers on the private network, known by the address of their           *)
(* connection.                                                             *)
(*                                                                         *)
(* An address is what the comparisons look at: of IPv4 the first two of    *)
(* the four numbers, of IPv6 the first of the eight groups and whether     *)
(* the others are 0...01.  A socket that is closed has no address.         *)
(***************************************************************************)
EXTENDS Integers

Octet == 0..255
Group == 0..65535

NoAddress == [version |-> 0]
IPv4(a, b) == [version |-> 4, mapped |-> FALSE, a |-> a, b |-> b]
\* The address of an IPv4 caller on an IPv6 socket: ::ffff:a.b.c.d
Mapped(a, b) == [IPv4(a, b) EXCEPT !.mapped = TRUE]
IPv6(group, zone) == [version |-> 6, group |-> group, one |-> FALSE, zone |-> zone]
Loopback6 == [IPv6(0, FALSE) EXCEPT !.one = TRUE]

Address ==
  {NoAddress}
    \union [version : {4}, mapped : BOOLEAN, a : Octet, b : Octet]
    \union [version : {6}, group : Group, one : BOOLEAN, zone : BOOLEAN]

NormalizeIp(ip) ==
  CASE ip.version = 4 -> [ip EXCEPT !.mapped = FALSE]
    [] ip.version = 6 -> [ip EXCEPT !.zone = FALSE]
    [] OTHER -> ip

\* The first n hexadecimal digits of the group, which is written without leading zeros.
StartsWith(group, n, digits) ==
  \E rest \in 0..4 - n : group \div 16^rest = digits

Second172_ShortByOne(b) == b >= 16 /\ b < 31

Second172(b) == b >= 16 /\ b <= 31

IsInternalAddress(rawIp) ==
  LET ip == NormalizeIp(rawIp)
  IN
  \/ /\ ip.version = 4 /\ ~ip.mapped
     /\ \/ ip.a = 127
        \/ ip.a = 10
        \/ ip.a = 172 /\ Second172(ip.b)
        \/ ip.a = 192 /\ ip.b = 168
        \/ ip.a = 169 /\ ip.b = 254
  \/ /\ ip.version = 6
     /\ \/ ip.group = 0 /\ ip.one
        \/ \E prefix \in {252, 253} : StartsWith(ip.group, 2, prefix)           \* fc, fd
        \/ \E prefix \in 4072..4075 : StartsWith(ip.group, 3, prefix)           \* fe8 .. feb

\* The server configures no token and no other credentials.
IsMetricsAccessAllowed(remoteAddress) == IsInternalAddress(remoteAddress)

-----------------------------------------------------------------------------
(* The blocks of the address registries *)

\* The block of the addresses whose first bits, of so many, have the given value.
InBlock(value, width, bits, prefix) == value \div 2^(width - bits) = prefix \div 2^(width - bits)

\* 127.0.0.0/8, 10.0.0.0/8, 172.16.0.0/12, 192.168.0.0/16 and 169.254.0.0/16
Private4(a, b) ==
  LET address == a * 256 + b
  IN  \/ InBlock(address, 16, 8, 127 * 256)
      \/ InBlock(address, 16, 8, 10 * 256)
      \/ InBlock(address, 16, 12, 172 * 256 + 16)
      \/ InBlock(address, 16, 16, 192 * 256 + 168)
      \/ InBlock(address, 16, 16, 169 * 256 + 254)

\* ::1, fc00::/7 and fe80::/10
Private6(ip) ==
  \/ ip.group = 0 /\ ip.one
  \/ InBlock(ip.group, 16, 7, 64512)
  \/ InBlock(ip.group, 16, 10, 65152)

FromInside(ip) ==
  CASE ip.version = 4 -> Private4(ip.a, ip.b)
    [] ip.version = 6 -> Private6(ip)
    [] OTHER -> FALSE

\* The addresses a connection may come from: 2000::/3, fc00::/7, fe80::/10 and ::1.
MayConnect(ip) ==
  ip.version = 6 =>
    Private6(ip) \/ InBlock(ip.group, 16, 3, 8192)

=============================================================================
