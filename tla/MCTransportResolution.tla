----------------------- MODULE MCTransportResolution ------------------------
(* The profiles, handles and secrets of the run of TransportResolution.    *)
EXTENDS TransportResolution

MCBadIds == {<<"bad id">>}

Ref(handle, service) == [handle |-> handle, service |-> service]
(* r1 with and without the default service are one key; r2 is an account   *)
(* with two services; "c" stands for a handle with a control character.    *)
r1 == Ref("r1", None)
MCRefs == {r1, Ref("r1", "default"), Ref("r2", None), Ref("r2", "other"), Ref("r3", "other")}
MCSecrets == {[text |-> "x", breaks |-> FALSE], [text |-> "y", breaks |-> TRUE]}

Login(kind, secrets) == [kind |-> kind, secrets |-> secrets]
SshLogins == {Login("agent", <<>>), Login("password", <<Ref("r2", "other")>>),
              Login("privateKey", <<r1>>),
              Login("privateKey", <<Ref("r2", None), Ref("r1", "default")>>)}
ProxyLogins == {Login("none", <<>>), Login("userPassword", <<Ref("r3", "other")>>)}
BadLogins == {Login("password", <<Ref("", None)>>), Login("password", <<Ref("c", None)>>)}

Server(via, login) ==
  [via |-> via, host |-> "server", port |-> 1, username |-> "user", login |-> login,
   hostKey |-> None, strict |-> FALSE]
Broken(s) == {[s EXCEPT !.host = ""], [s EXCEPT !.port = 0], [s EXCEPT !.username = ""],
              [s EXCEPT !.hostKey = ""]}
SshServers == {Server("ssh", login) : login \in SshLogins}
ProxyServers(via) == {Server(via, login) : login \in ProxyLogins}

Target(host, port) == [host |-> host, port |-> port]
db == Target("db", 2)
Targets == {db, Target("", 2), Target("db", 0)}
RouteTargets == Targets \cup {Target(None, 2), Target("db", None)}

Single(kind, name, server, target, tls) ==
  [kind |-> kind, name |-> name, server |-> server, target |-> target, tls |-> tls]
Tunnels ==
  {Single("sshTunnel", None, s, t, FALSE) : s \in SshServers, t \in Targets}
  \cup {Single("sshTunnel", n, [s EXCEPT !.strict = TRUE], db, FALSE) :
          n \in {<<"a">>, <<"bad id">>}, s \in SshServers}
  \cup {Single("sshTunnel", None, s, db, FALSE) :
          s \in Broken(Server("ssh", Login("agent", <<>>)))}
  \cup {Single("sshTunnel", None, Server("ssh", login), db, FALSE) : login \in BadLogins}
Proxies ==
  UNION {{Single(w[1], None, s, t, tls) : s \in ProxyServers(w[2]), t \in RouteTargets, tls \in BOOLEAN}
         : w \in {<<"socks5Proxy", "socks5">>, <<"httpConnectProxy", "httpConnect">>}}
Plain ==
  {[kind |-> "direct", target |-> t, tls |-> tls] :
     t \in Targets \cup {Target("db", None)}, tls \in BOOLEAN}
  \cup {[kind |-> "localFile", path |-> path] : path \in {"", "file"}}

(* Hop names of which one continues the other; an invalid hop is refused.  *)
Hop(name, server) == [name |-> name, server |-> server, proxyName |-> None]
Hops == <<Hop(<<"a">>, Server("ssh", Login("password", <<Ref("r2", "other")>>))),
          Hop(<<"a", "ssh">>, Server("socks5", Login("userPassword", <<Ref("r3", "other")>>))),
          Hop(<<"b">>, Server("ssh", Login("privateKey", <<Ref("r2", None), r1>>))),
          Hop(<<"c">>, Server("httpConnect", Login("none", <<>>))),
          Hop(<<"d">>, Server("ssh", Login("agent", <<>>))),
          Hop(<<"e">>, Server("ssh", Login("password", <<r1>>))),
          Hop(<<"bad id">>, Server("ssh", Login("agent", <<>>)))>>
Registry == FoldLeft(InsertHop, EmptyRegistry, Hops)
Chains ==
  {ResolveChain(Registry, names, t, tls) :
     names \in UNION {[1..k -> {Hops[i].name : i \in DOMAIN Hops}] : k \in 1..2}
              \cup {<<<<"a">>, <<"b">>, <<"a", "ssh">>>>, <<<<"d">>, <<"a">>, <<"c">>>>,
                    <<<<"c">>, <<"e">>, <<"c">>>>},
     t \in {db, Target("db", 0)}, tls \in {TRUE}} \ {Absent}
LooseChains ==
  {[kind |-> "chain", hops |-> hops, target |-> t, tls |-> FALSE] :
     hops \in {<<Hops[1]>>, <<Hops[1], Hops[1]>>, <<Hops[4], Hops[7]>>, <<Hops[3], Hops[4]>>},
     t \in Targets}

Profile(via, auth) ==
  [id |-> <<"p">>, displayName |-> "p", source |-> <<"sqlserver">>, transport |-> via,
   auth |-> auth, database |-> None, user |-> None, options |-> {}]
Auths == {Login("none", <<>>), Login("secret", <<r1>>), Login("token", <<r1>>),
          Login("keyPair", <<r1, Ref("r2", None)>>)}
MCProfiles ==
  {Profile(t, Login("none", <<>>)) : t \in Tunnels \cup Proxies \cup Plain \cup Chains \cup LooseChains}
  \cup {Profile(t, auth) : t \in {c \in Chains : Len(c.hops) = 2}, auth \in Auths}
  \cup {[Profile([kind |-> "localFile", path |-> "file"], auth) EXCEPT !.options = keys] :
          auth \in Auths, keys \in {{}, {"encrypt"}, {"token"}, {""}}}
=============================================================================
