----------------------------- MODULE MCEndpoint -----------------------------
EXTENDS Endpoint, TLC

Nd(on, protocol, port, hop, sni, key) ==
    [enabled |-> on, protocol |-> protocol, port |-> port, hop |-> hop,
     sni |-> sni, key |-> key, sid |-> "ab"]

\* A Hysteria2 node with the default range beside a Reality node with the
\* default name, the same with both parameters set, one node switched off, a
\* port that is no port, and the other protocols.
MCNodeFiles == {
    "a" :> Nd(TRUE, "hysteria2", 443, "", "", "") @@
    "b" :> Nd(TRUE, "vless-reality", 8443, "", "", "k1"),
    "a" :> Nd(TRUE, "hysteria2", 443, "3000:4000", "", "") @@
    "b" :> Nd(FALSE, "vless-reality", 8443, "", "a.example", "k2"),
    "a" :> Nd(TRUE, "hysteria2", 0, "", "", "")}

MCCredentials == {
    "a" :> [protocol |-> "hysteria2", uuid |-> "", password |-> "pa"] @@
    "b" :> [protocol |-> "vless-reality", uuid |-> "ub", password |-> ""],
    "a" :> [protocol |-> "hysteria2", uuid |-> "", password |-> ""] @@
    "b" :> [protocol |-> "vless-reality", uuid |-> "ub", password |-> ""]}

\* The three formats, one of them asked for by name, and a request for the
\* headers alone.
MCAgents == {
    [method |-> "GET", asked |-> "", markers |-> {"sing-box"}],
    [method |-> "GET", asked |-> "mihomo", markers |-> {"sing-box"}],
    [method |-> "GET", asked |-> "", markers |-> {}],
    [method |-> "HEAD", asked |-> "", markers |-> {"clash", "sfa/"}]}

Symmetry == Permutations(Requests) \cup Permutations(Tokens)
=============================================================================
