------------------------------ MODULE Endpoint ------------------------------
(***************************************************************************)
(* The subscription endpoint (internal/subd), the client documents it      *)
(* renders (internal/subscribe) and the core document they have to agree   *)
(* with (internal/config).  A request is a process: it takes the stamp of  *)
(* the account file, asks the cache, reads the settings, reads the nodes   *)
(* and answers, while the panels, the accounting loop and the operator's   *)
(* editor replace those files.  One account stands for the account file:   *)
(* requests for different accounts share nothing but the cache.            *)
(***************************************************************************)
EXTENDS Naturals, FiniteSets

CONSTANTS Requests,    \* requests in flight at the same time
          Tokens,      \* subscription tokens the account can be given
          Credentials, \* credential files: partial functions from node ids
          NodeFiles,   \* node files: partial functions from node ids
          Hosts,       \* public hosts; "" when none is known
          Agents,      \* requests by what they ask: method, ?client= and the
                       \* markers their User-Agent contains
          MaxSaves,    \* bound on saves of the account file
          MaxChanges   \* bound on changes of the other files and of the clock

Clients == {"singbox", "mihomo", "v2ray"}
Protocols == {"anytls", "hysteria2", "tuic", "vmess-ws-tls", "vless-reality"}
Node == [enabled : BOOLEAN, protocol : Protocols, port : 0..65535,
         hop : STRING, sni : STRING, key : STRING, sid : STRING]
Credential == [protocol : Protocols, uuid : STRING, password : STRING]

ASSUME EndpointAssumption ==
    /\ \A f \in NodeFiles : \A n \in DOMAIN f : f[n] \in Node
    /\ \A c \in Credentials : \A n \in DOMAIN c : c[n] \in Credential
    /\ Hosts \subseteq STRING
    /\ Agents \subseteq [method : STRING, asked : STRING, markers : SUBSET STRING]
    /\ {MaxSaves, MaxChanges} \subseteq Nat

VARIABLES
    account,     \* easysb-users.json: the account, NoAccount or Damaged
    stamp,       \* its modification time and its size
    nodes,       \* easysb-nodes.json
    host,        \* what state.Host answers
    broken,      \* the node file cannot be parsed at the moment
    late,        \* the clock has passed the expiry date of the account
    cache,       \* storeCache: the stamp and the account it holds
    req,         \* per request: where it is and what it has read
    core         \* what the running core was rendered from

(* History, for stating properties. *)
VARIABLES
    seen,        \* per undecided request: the contents of the account file
                 \* since it came, each with the clock it was there under
    sizes,       \* the sizes of the versions saved in this tick of the clock
    twins,       \* two versions of one tick had the same size
    saves, changes

inputs == <<account, stamp, nodes, host, broken, late>>
endpointVars == <<inputs, cache, req, core, seen, sizes, twins, saves, changes>>

-----------------------------------------------------------------------------
(* Accounts and nodes.                                                     *)

NodeIDs == UNION {DOMAIN f : f \in NodeFiles}
NoAccount == [token |-> "none"]
Damaged == [token |-> "damaged"]     \* a file edited by hand that does not parse
Account == [token : Tokens, enabled : BOOLEAN, expires : BOOLEAN, spent : BOOLEAN,
            nodes : SUBSET NodeIDs, cred : Credentials]

\* The secret fields a protocol authenticates with.
Fields(protocol) ==
    CASE protocol \in {"anytls", "hysteria2"} -> {"password"}
      [] protocol = "tuic" -> {"uuid", "password"}
      [] OTHER -> {"uuid"}

CredentialReady(acc, n) ==
    /\ n \in DOMAIN acc.cred
    /\ \A field \in Fields(acc.cred[n].protocol) : acc.cred[n][field] # ""

CredentialsReady(acc) ==
    acc.nodes # {} /\ \A n \in acc.nodes : CredentialReady(acc, n)

Status(acc, past) ==
    IF ~acc.enabled THEN "disabled"
    ELSE IF acc.expires /\ past THEN "expired"
    ELSE IF acc.spent THEN "over-quota"
    ELSE "active"

\* Mutant: the documents list the selected nodes that are switched off.
SelectedNodes(ns, acc) ==
    {n \in DOMAIN ns : n \in acc.nodes /\ CredentialReady(acc, n)}

\* The one predicate behind the documents, the links and the node names.
ActiveNodes(ns, acc) ==
    {n \in DOMAIN ns : ns[n].enabled /\ n \in acc.nodes /\ CredentialReady(acc, n)}

-----------------------------------------------------------------------------
(* The core document.  A member of it is an account that may be live: its  *)
(* inbounds are the enabled nodes, the users of an inbound the members     *)
(* that select the node.                                                   *)

DefaultHop == "2080:3000"
DefaultSNI == "apple.com"
Hop(nd) == IF nd.hop = "" THEN DefaultHop ELSE nd.hop
SNI(nd) == IF nd.sni = "" THEN DefaultSNI ELSE nd.sni
ValidPort(nd) == nd.port \in 1..65535

\* The user of an inbound: every field of the credential, and the flow.
User(acc, n, nd) ==
    [uuid |-> acc.cred[n].uuid, password |-> acc.cred[n].password,
     flow |-> nd.protocol = "vless-reality"]

\* The range a Hysteria2 node is redirected from belongs to the host's
\* firewall; it is listed beside the listener it leads to.
Inbound(users, nd) ==
    [protocol |-> nd.protocol, port |-> nd.port, hop |-> Hop(nd), users |-> users,
     reality |-> IF nd.protocol = "vless-reality" THEN <<SNI(nd), nd.key, nd.sid>>
                 ELSE <<>>]

Routable(acc, past) ==
    /\ acc # NoAccount
    /\ Status(acc, past) = "active" /\ CredentialsReady(acc)

\* No document is rendered without an enabled node, with an invalid port or
\* for a Reality node without a key.
Renders(ns) ==
    LET on == {n \in DOMAIN ns : ns[n].enabled}
    IN /\ on # {}
       /\ \A n \in on : /\ ValidPort(ns[n])
                        /\ ns[n].protocol = "vless-reality" => ns[n].key # ""

\* The users of every inbound: the accounts that may be live on that node.
Bindings(n, ns, acc, past) ==
    IF Routable(acc, past) /\ n \in acc.nodes THEN {User(acc, n, ns[n])} ELSE {}

ServerConfig(ns, acc, past) ==
    {Inbound(Bindings(n, ns, acc, past), ns[n]) :
        n \in {m \in DOMAIN ns : ns[m].enabled}}

-----------------------------------------------------------------------------
(* The client documents.                                                   *)

\* An entry for a node: the address and what the client dials there, written
\* <<"port", p>> or <<"range", r>>, and what it authenticates with.
Entry(server, dials, acc, n, nd) ==
    LET secret(field) == IF field \in Fields(nd.protocol) THEN acc.cred[n][field] ELSE ""
    IN [protocol |-> nd.protocol, server |-> server, dials |-> dials,
        uuid |-> secret("uuid"), password |-> secret("password"),
        flow |-> nd.protocol = "vless-reality",
        reality |-> IF nd.protocol = "vless-reality" THEN <<SNI(nd), nd.key, nd.sid>>
                    ELSE <<>>]

HopRange(r) == {<<"range", r>>}
Port(nd) == {<<"port", nd.port>>}

\* An outbound of the sing-box profile: a Hysteria2 node by its range alone.
Outbound(server, acc, n, nd) ==
    Entry(server, IF nd.protocol = "hysteria2" THEN HopRange(Hop(nd)) ELSE Port(nd),
          acc, n, nd)

\* A proxy of the mihomo profile: the port and the range.
Proxy(server, acc, n, nd) ==
    Entry(server, Port(nd) \cup (IF nd.protocol = "hysteria2" THEN HopRange(Hop(nd)) ELSE {}),
          acc, n, nd)

\* A share link: the range only when the node has one.
Link(server, acc, n, nd) ==
    Entry(server, Port(nd) \cup (IF nd.protocol = "hysteria2" /\ nd.hop # ""
                                THEN HopRange(nd.hop) ELSE {}),
          acc, n, nd)

\* The two profiles refuse a document without a server address or with an
\* invalid port; the link document asks for neither.
Renderable(client, server, ns, acc) ==
    \/ client = "v2ray"
    \/ server # "" /\ \A n \in ActiveNodes(ns, acc) : ValidPort(ns[n])

Generate(server, ns, acc) ==
    {Outbound(server, acc, n, ns[n]) : n \in ActiveNodes(ns, acc)}

GenerateMihomo(server, ns, acc) ==
    {Proxy(server, acc, n, ns[n]) : n \in ActiveNodes(ns, acc)}

\* A link is left out when a field its protocol needs is missing.
ShareLinks(server, ns, acc) ==
    {Link(server, acc, n, ns[n]) : n \in {m \in ActiveNodes(ns, acc) :
        \A field \in Fields(ns[m].protocol) : acc.cred[m][field] # ""}}

Document(client, server, ns, acc) ==
    CASE client = "mihomo" -> GenerateMihomo(server, ns, acc)
      [] client = "v2ray" -> ShareLinks(server, ns, acc)
      [] OTHER -> Generate(server, ns, acc)

\* The format a client reads: what it asks for by name, or what its
\* User-Agent says; the sing-box markers are looked for first.
SingBoxMarkers == {"sing-box", "sfi/", "sfa/", "sfm/"}
ClashMarkers == {"clash", "mihomo", "stash", "meta"}
ClientOf(agent) ==
    IF agent.asked \in Clients THEN agent.asked
    ELSE IF agent.markers \cap SingBoxMarkers # {} THEN "singbox"
    ELSE IF agent.markers \cap ClashMarkers # {} THEN "mihomo"
    ELSE "v2ray"

ContentType(client) ==
    CASE client = "mihomo" -> "text/yaml"
      [] client = "v2ray" -> "text/plain"
      [] OTHER -> "application/json"

-----------------------------------------------------------------------------
(* The handler.                                                            *)

Idle == [at |-> "idle"]
NoCache == [stamp |-> <<0, 0>>]
Verdicts == {"unavailable", "unknown", "disabled", "expired", "over-quota", "active"}

\* What the account file says about a token.
Verdict(acc, token, past) ==
    IF acc = Damaged THEN "unavailable"
    ELSE IF acc.token # token THEN "unknown"
    ELSE Status(acc, past)

EndpointInit ==
    /\ \E c \in Credentials, t \in Tokens :
          account = [token |-> t, enabled |-> TRUE, expires |-> TRUE,
                     spent |-> FALSE, nodes |-> NodeIDs, cred |-> c]
    /\ stamp = <<1, 1>>
    /\ nodes \in NodeFiles
    /\ host \in Hosts
    /\ broken = FALSE /\ late = FALSE
    /\ cache = NoCache
    /\ req = [r \in Requests |-> Idle]
    /\ core = [inbounds |-> {}, live |-> FALSE]
    /\ seen = [r \in Requests |-> {}]
    /\ sizes = {1} /\ twins = FALSE
    /\ saves = 0 /\ changes = 0

Answer(r, status, what) ==
    req' = [req EXCEPT ![r] = [at |-> "done", status |-> status, verdict |-> what,
                               body |-> {}, from |-> {}]]

\* A GET or HEAD for the path of a token; any other request is answered
\* without reading a file.
Arrive(r) ==
    /\ req[r] = Idle
    /\ \E t \in Tokens :
          /\ req' = [req EXCEPT ![r] = [at |-> "stat", token |-> t]]
          /\ seen' = [seen EXCEPT ![r] = {<<account, late>>}]
    /\ UNCHANGED <<inputs, cache, core, sizes, twins, saves, changes>>

\* The stamp is taken before the lock of the cache.
Stat(r) ==
    /\ req[r].at = "stat"
    /\ req' = [req EXCEPT ![r] = [at |-> "load", token |-> @.token,
                                  stamp |-> stamp]]
    /\ UNCHANGED <<inputs, cache, core, seen, sizes, twins, saves, changes>>

\* Mutant: the cache is asked by the size alone.
HitBySize(c, s) == c # NoCache /\ c.stamp[2] = s[2]

Hit(c, s) == c # NoCache /\ c.stamp = s

\* The cached account, or the file as it is now, stored under the stamp taken
\* before; then the decision about the account.
Load(r) ==
    LET hit == Hit(cache, req[r].stamp)
        acc == IF hit THEN cache.account ELSE account
        verdict == Verdict(acc, req[r].token, late)
        code == CASE verdict = "unavailable" -> 500
                  [] verdict = "unknown" -> 404
                  [] OTHER -> 403
    IN /\ req[r].at = "load"
       /\ cache' = IF hit \/ acc = Damaged THEN cache
                   ELSE [stamp |-> req[r].stamp, account |-> acc]
       /\ IF verdict = "active"
          THEN req' = [req EXCEPT ![r] = [at |-> "settings", account |-> acc]]
          ELSE Answer(r, code, verdict)
       /\ seen' = [seen EXCEPT ![r] = {}]
       /\ UNCHANGED <<inputs, core, sizes, twins, saves, changes>>

ReadSettings(r) ==
    /\ req[r].at = "settings"
    /\ req' = [req EXCEPT ![r] = [at |-> "nodes", account |-> @.account,
                                  host |-> host]]
    /\ UNCHANGED <<inputs, cache, core, seen, sizes, twins, saves, changes>>

\* The node file is read, the document rendered and the answer written.  What
\* the client asks for plays no part before this step and is chosen in it.
ReadNodes(r) ==
    LET acc == req[r].account
    IN /\ req[r].at = "nodes"
       /\ \E a \in Agents :
            LET client == ClientOf(a)
                served == [at |-> "done", status |-> 200, verdict |-> "active",
                           type |-> ContentType(client), from |-> {<<acc, nodes>>},
                           body |-> IF a.method = "HEAD" THEN {}
                                    ELSE Document(client, req[r].host, nodes, acc)]
            IN IF broken THEN Answer(r, 500, "nodes")
               ELSE IF ActiveNodes(nodes, acc) = {} THEN Answer(r, 403, "no node")
               ELSE IF ~Renderable(client, req[r].host, nodes, acc)
                    THEN Answer(r, 500, "render")
               ELSE req' = [req EXCEPT ![r] = served]
       /\ UNCHANGED <<inputs, cache, core, seen, sizes, twins, saves, changes>>

Finish(r) ==
    /\ req[r].at = "done"
    /\ req' = [req EXCEPT ![r] = Idle]
    /\ UNCHANGED <<inputs, cache, core, seen, sizes, twins, saves, changes>>

\* A new process has an empty cache and no requests.
Restart ==
    /\ cache' = NoCache
    /\ req' = [r \in Requests |-> Idle]
    /\ seen' = [r \in Requests |-> {}]
    /\ UNCHANGED <<inputs, core, sizes, twins, saves, changes>>

-----------------------------------------------------------------------------
(* The other programs.                                                     *)

\* A request that is not decided yet may be answered by what the file says
\* from now on, and what it said may be judged by the clock from now on.
Witness ==
    seen' = [r \in Requests |->
        IF req[r].at \in {"stat", "load"}
        THEN seen[r] \cup {<<account', late'>>} \cup {<<v[1], late'>> : v \in seen[r]}
        ELSE seen[r]]

\* The panel and the loop replace the file: they edit, rotate or remove the
\* account, and an editor can damage it.  A save within the tick of the one
\* before leaves the time as it is.
SaveAccount ==
    /\ saves < MaxSaves /\ saves' = saves + 1
    /\ \E tick \in {0, 1}, size \in {1, 2} :
          /\ stamp' = <<stamp[1] + tick, size>>
          /\ sizes' = (IF tick = 1 THEN {} ELSE sizes) \cup {size}
          /\ twins' = (twins \/ (tick = 0 /\ size \in sizes))
    /\ \/ \E t \in Tokens : account' = [account EXCEPT !.token = t]
       \/ account' = [account EXCEPT !.enabled = ~@]
       \/ \E n \in NodeIDs : account' = [account EXCEPT !.nodes = @ \ {n}]
       \/ account' = [account EXCEPT !.spent = ~@]
       \/ account' \in {NoAccount, Damaged}
    /\ account \notin {NoAccount, Damaged} /\ account' # account
    /\ UNCHANGED <<nodes, host, broken, late, cache, req, core, changes>>
    /\ Witness

Change ==
    /\ changes < MaxChanges /\ changes' = changes + 1
    /\ \/ nodes' \in NodeFiles /\ UNCHANGED <<host, broken, late>>
       \/ host' \in Hosts /\ UNCHANGED <<nodes, broken, late>>
       \/ late' = TRUE /\ UNCHANGED <<nodes, host, broken>>
       \/ broken' = ~broken /\ UNCHANGED <<nodes, host, late>>
    /\ UNCHANGED <<account, stamp, cache, req, core, sizes, twins, saves>>
    /\ Witness

\* A deployment or a cycle of the loop puts the document of the files before
\* the core; the redirects of the firewall follow the same nodes.
Apply ==
    /\ account # Damaged /\ ~broken /\ Renders(nodes)
    /\ core' = [inbounds |-> ServerConfig(nodes, account, late),
                from |-> <<account, nodes>>,
                live |-> Routable(account, late)]
    /\ UNCHANGED <<inputs, cache, req, seen, sizes, twins, saves, changes>>

Handle(r) == Arrive(r) \/ Stat(r) \/ Load(r) \/ ReadSettings(r) \/ ReadNodes(r)
                 \/ Finish(r)

EndpointNext == (\E r \in Requests : Handle(r)) \/ Restart \/ SaveAccount \/ Change \/ Apply
EndpointSpec == EndpointInit /\ [][EndpointNext]_endpointVars

-----------------------------------------------------------------------------
(* Properties.                                                             *)

\* The answer about the account, the document or the reason of a refusal, was
\* true of the account file at some moment between the request's arrival and
\* its answer, whatever was cached: a revoked token, a disabled or an expired
\* account is refused by the next request after the change was saved.  Two
\* versions of the same size in one tick of the clock are the exception: the
\* cache cannot tell them apart.
AnswersAreCurrent ==
    [][\A r \in Requests :
          req[r].at = "load" /\ req'[r].at \in {"settings", "done"} =>
              \/ twins
              \/ \E v \in seen[r] :
                    Verdict(v[1], req[r].token, v[2]) =
                        IF req'[r].at = "settings" THEN "active"
                        ELSE req'[r].verdict]_endpointVars

\* Whether an inbound takes what an entry sends.
Takes(in, e) ==
    /\ in.protocol = e.protocol /\ in.reality = e.reality
    /\ e.dials \subseteq {<<"port", in.port>>}
           \cup (IF in.protocol = "hysteria2" THEN {<<"range", in.hop>>} ELSE {})
    /\ \E u \in in.users : /\ u.flow = e.flow
                           /\ \A f \in Fields(e.protocol) : u[f] = e[f]

\* No client is handed an entry the core refuses: when the core was rendered
\* from the account and the nodes a document was rendered from, while the
\* account was usable, every entry of the document, in each of the three
\* formats, reaches a listener of its protocol that knows its credential and
\* its Reality parameters.  An account with an incomplete credential is the
\* exception: the core leaves out the whole account, the document one node.
EntriesAreAccepted ==
    \A r \in Requests :
        req[r].at = "done" /\ req[r].status = 200 /\ core.live =>
            (core.from \in req[r].from =>
                \A e \in req[r].body : \E in \in core.inbounds : Takes(in, e))
=============================================================================
