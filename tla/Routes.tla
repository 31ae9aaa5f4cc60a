------------------------------- MODULE Routes -------------------------------
(***************************************************************************)
(* What a transport leads to: the plan shown to the user                   *)
(* (irodori-proxy/src/plan.rs) and the route dialled (db/transport.rs,     *)
(* irodori-proxy/src/resolved.rs).  Two pieces of code, written apart,     *)
(* that walk the same transport.                                           *)
(***************************************************************************)
EXTENDS Profiles

EmptyRegistry == <<>>

(* HopRegistry::insert refuses an invalid hop and replaces a known one.    *)
InsertHop(registry, hop) ==
  IF ValidHop(hop) THEN (hop.name :> hop) @@ registry ELSE registry

(* HopRegistry::resolve_chain                                              *)
ResolveChain(registry, names, target, tls) ==
  LET chain == [kind |-> "chain", target |-> target, tls |-> tls,
                hops |-> [i \in DOMAIN names |-> registry[names[i]]]]
  IN IF Range(names) \subseteq DOMAIN registry /\ ValidChain(chain) THEN chain ELSE Absent

-----------------------------------------------------------------------------
Step(name, kind, endpoint) == [name |-> name, kind |-> kind, endpoint |-> endpoint]
Endpoint(s) == [host |-> s.host, port |-> s.port]
If(condition, steps) == IF condition THEN steps ELSE <<>>

TargetSteps(target, tls) ==
  <<Step("forward target", "directTcp", target)>>
    \o If(tls, <<Step("tls handshake", "tls", Absent)>>)

PlanDirect(t) ==
  IF t.target.port = Absent THEN Absent
  ELSE [target |-> t.target, tls |-> t.tls,
        steps |-> <<Step("resolve target", "resolve", t.target),
                    Step("direct tcp", "directTcp", t.target)>>
                  \o If(t.tls, <<Step("tls handshake", "tls", Absent)>>)]

PlanLocalFile(t) ==
  [target |-> t.path, tls |-> FALSE,
   steps |-> <<Step("open local file", "localFile", t.path)>>]

PlanSshTunnel(t) ==
  [target |-> t.target, tls |-> FALSE,
   steps |-> <<Step("resolve ssh host", "resolve", Endpoint(t.server)),
               Step("ssh auth", "auth", Absent),
               Step(IF t.name = Absent THEN "ssh tunnel" ELSE t.name,
                    "ssh", Endpoint(t.server)),
               Step("forward target", "directTcp", t.target)>>
             \o If(t.server.strict, <<Step("ssh host key", "auth", Absent)>>)]

PlanSingleProxy(t) ==
  IF Absent \in {t.target.host, t.target.port} THEN Absent
  ELSE [target |-> t.target, tls |-> t.tls,
        steps |-> <<Step("resolve proxy", "resolve", Endpoint(t.server))>>
                  \o If(t.server.login.kind # "none", <<Step("proxy auth", "auth", Absent)>>)
                  \o <<Step(IF t.name = Absent THEN "proxy" ELSE t.name,
                            t.server.via, Endpoint(t.server))>>
                  \o TargetSteps(t.target, t.tls)]

(* A mutant: an ssh agent counts as no login. *)
HopStepsAgentless(hop) ==
  <<Step(<<"resolve", hop.name>>, "resolve", Endpoint(hop.server))>>
    \o If(hop.server.login.secrets # <<>>, <<Step(<<"auth", hop.name>>, "auth", Absent)>>)
    \o <<Step(hop.name, hop.server.via, Endpoint(hop.server))>>

HopSteps(hop) ==
  <<Step(<<"resolve", hop.name>>, "resolve", Endpoint(hop.server))>>
    \o If(hop.server.login.kind # "none", <<Step(<<"auth", hop.name>>, "auth", Absent)>>)
    \o <<Step(hop.name, hop.server.via, Endpoint(hop.server))>>

PlanChain(t) ==
  [target |-> t.target, tls |-> t.tls,
   steps |-> FlattenSeq([i \in DOMAIN t.hops |-> HopSteps(t.hops[i])])
             \o TargetSteps(t.target, t.tls)]

(* TransportPlan::from_config; Absent is its error. *)
Plan(t) ==
  CASE ~ValidTransport(t) -> Absent
    [] ValidTransport(t) /\ t.kind = "direct" -> PlanDirect(t)
    [] ValidTransport(t) /\ t.kind = "localFile" -> PlanLocalFile(t)
    [] ValidTransport(t) /\ t.kind = "sshTunnel" -> PlanSshTunnel(t)
    [] ValidTransport(t) /\ t.kind \in {"socks5Proxy", "httpConnectProxy"} -> PlanSingleProxy(t)
    [] ValidTransport(t) /\ t.kind = "chain" -> PlanChain(t)

-----------------------------------------------------------------------------
(* resolve_transport: the servers of a transport in the order of its loop, *)
(* and the secrets it reads, in order: for each its hop and its place in   *)
(* the login.                                                              *)

NeedsNoResolution(t) == t.kind \in {"direct", "localFile"}
Servers(t) ==
  IF t.kind = "chain" THEN [i \in DOMAIN t.hops |-> t.hops[i].server] ELSE <<t.server>>

(* A mutant: the passphrase is read under the key's handle. *)
LoginReadsKeyTwice(server, hop) ==
  LET place(i) == CASE server.login.kind = "password" -> "sshPassword"
                    [] server.login.kind = "privateKey" -> <<"privateKey", "passphrase">>[i]
                    [] server.login.kind = "userPassword" -> "proxyPassword"
  IN [i \in DOMAIN server.login.secrets |->
       [hop |-> hop, place |-> place(i), ref |-> server.login.secrets[1]]]

(* resolve_ssh_auth, resolve_proxy_auth                                    *)
LoginReads(server, hop) ==
  LET place(i) == CASE server.login.kind = "password" -> "sshPassword"
                    [] server.login.kind = "privateKey" -> <<"privateKey", "passphrase">>[i]
                    [] server.login.kind = "userPassword" -> "proxyPassword"
  IN [i \in DOMAIN server.login.secrets |->
       [hop |-> hop, place |-> place(i), ref |-> server.login.secrets[i]]]

Reads(t) ==
  LET s == Servers(t) IN FlattenSeq([i \in DOMAIN s |-> LoginReads(s[i], i)])

(* proxy_target, once the proxy's password has been read. *)
LacksTarget(t) ==
  t.kind \in {"socks5Proxy", "httpConnectProxy"} /\ Absent \in {t.target.host, t.target.port}

(* A resolved hop: its server, with the values read in place of handles.   *)
ResolvedHop(server, login) ==
  [via |-> server.via, host |-> server.host, port |-> server.port,
   username |-> server.username, kind |-> server.login.kind, login |-> login,
   strict |-> server.strict, hostKey |-> server.hostKey]

(* values[i] was read for Reads(t)[i]. *)
ResolvedTransport(t, values) ==
  LET s == Servers(t)
      own(hop) == {i \in DOMAIN values : Reads(t)[i].hop = hop}
  IN [hops |-> [hop \in DOMAIN s |->
                 ResolvedHop(s[hop], [place \in {Reads(t)[i].place : i \in own(hop)} |->
                   values[CHOOSE i \in own(hop) : Reads(t)[i].place = place]])],
      target |-> t.target, tls |-> t.kind # "sshTunnel" /\ t.tls]
=============================================================================
