----------------------------- MODULE MCHttpApp -----------------------------
(* Callers at, and just outside, the edges of every private block. *)
EXTENDS HttpApp

Edges4 == {<<9, 255>>, <<10, 0>>, <<11, 0>>, <<127, 0>>, <<128, 0>>, <<169, 254>>,
           <<172, 15>>, <<172, 16>>, <<172, 31>>, <<172, 32>>, <<192, 167>>, <<192, 168>>}
Edges6 == {8192, 16383, 64512, 65023}

Edges ==
  {Mapped(e[1], e[2]) : e \in Edges4} \union {IPv4(10, 255), IPv4(169, 253)}
    \union {IPv6(g, FALSE) : g \in Edges6} \union {IPv6(g, TRUE) : g \in {65152, 65215}}
    \union {Loopback6, NoAddress}

=============================================================================
