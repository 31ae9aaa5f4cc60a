------------------------------ MODULE Profiles ------------------------------
(***************************************************************************)
(* Connection profiles of the desktop application's kit: what a profile    *)
(* may hold (irodori-connection/src/lib.rs) and what of it is exported     *)
(* (portable.rs).  Both crates serve every engine.                         *)
(*                                                                         *)
(* A text is "" when nothing is left of it after trimming.  An id or name  *)
(* is the sequence of its parts between dots, since slot paths are put     *)
(* together with dots.  An ssh hop and a proxy hop are both a server: the  *)
(* way it is reached, its address, and how one logs in to it.              *)
(***************************************************************************)
EXTENDS Naturals, FiniteSets, Sequences, SequencesExt

CONSTANTS
  BadIds,     \* ids that are blank, hold white space or are over 128 long
  Sensitive,  \* option keys that name a secret, whatever their case and dashes
  Absent

-----------------------------------------------------------------------------
(* Validation.                                                             *)

ValidId(id) == id \notin BadIds
ValidOptionalId(id) == id = Absent \/ ValidId(id)
ValidRequired(text) == text \notin {"", Absent}
ValidOptional(text) == text # ""
ValidPort(port) == port \notin {0, Absent}

ValidSecretRef(ref) == ValidRequired(ref.handle) /\ ValidOptional(ref.service)

(* A login is [kind, secrets]: an ssh agent, password or key (with or      *)
(* without passphrase), no proxy login, or a proxy's user and password.    *)
ValidLogin(login) == \A i \in DOMAIN login.secrets : ValidSecretRef(login.secrets[i])

ValidProxyServer(s) ==
  /\ ValidRequired(s.host) /\ ValidPort(s.port)
  /\ s.login.kind = "none" \/ (ValidRequired(s.username) /\ ValidLogin(s.login))

ValidSshServer(s) ==
  /\ ValidRequired(s.host) /\ ValidPort(s.port)
  /\ ValidRequired(s.username)
  /\ ValidLogin(s.login)
  /\ ValidOptional(s.hostKey)

(* A mutant: the port is not looked at. *)
ValidTargetHost(target) == ValidRequired(target.host)

ValidTarget(target) == ValidRequired(target.host) /\ ValidPort(target.port)

ValidDirect(t) == ValidRequired(t.target.host) /\ t.target.port # 0
ValidLocalFile(t) == ValidRequired(t.path)
ValidSshTunnel(t) == ValidOptionalId(t.name) /\ ValidSshServer(t.server) /\ ValidTarget(t.target)
ValidRoute(t) == ValidOptionalId(t.name) /\ ValidProxyServer(t.server) /\ ValidTarget(t.target)

ValidHop(hop) ==
  /\ ValidId(hop.name)
  /\ IF hop.server.via = "ssh" THEN ValidSshServer(hop.server)
     ELSE ValidOptionalId(hop.proxyName) /\ ValidProxyServer(hop.server)

ValidChain(t) ==
  /\ ValidTarget(t.target)
  /\ Len(t.hops) >= 2
  /\ \A i \in DOMAIN t.hops : ValidHop(t.hops[i])
  /\ \A i, k \in DOMAIN t.hops : i # k => t.hops[i].name # t.hops[k].name

ValidTransport(t) ==
  CASE t.kind = "direct" -> ValidDirect(t)
    [] t.kind = "localFile" -> ValidLocalFile(t)
    [] t.kind = "sshTunnel" -> ValidSshTunnel(t)
    [] t.kind \in {"socks5Proxy", "httpConnectProxy"} -> ValidRoute(t)
    [] t.kind = "chain" -> ValidChain(t)

ValidOptions(keys) == \A key \in keys : ValidRequired(key) /\ key \notin Sensitive

ValidProfile(p) ==
  /\ ValidId(p.id) /\ ValidRequired(p.displayName) /\ ValidId(p.source)
  /\ ValidTransport(p.transport)
  /\ ValidLogin(p.auth)
  /\ ValidOptional(p.database) /\ ValidOptional(p.user)
  /\ ValidOptions(p.options)

-----------------------------------------------------------------------------
(* Export.  The portable form keeps of a login its kind and whether there  *)
(* is a passphrase, and everything else as it is.                          *)

PortableLogin(login) == [kind |-> login.kind, passphrase |-> Len(login.secrets) = 2]
PortableServer(s) == [s EXCEPT !.login = PortableLogin(@)]
PortableHop(hop) == [hop EXCEPT !.server = PortableServer(@)]

PortableTransport(t) ==
  CASE t.kind \in {"direct", "localFile"} -> t
    [] t.kind = "chain" -> [t EXCEPT !.hops = [i \in DOMAIN @ |-> PortableHop(@[i])]]
    [] OTHER -> [t EXCEPT !.server = PortableServer(@)]

PortableProfile(p) ==
  [p EXCEPT !.auth = PortableLogin(@), !.transport = PortableTransport(@)]

(* ConnectionProfileExport::from_profiles: all of them or none.            *)
Export(profiles) ==
  IF \A i \in DOMAIN profiles : ValidProfile(profiles[i])
    THEN [i \in DOMAIN profiles |-> PortableProfile(profiles[i])]
    ELSE Absent

-----------------------------------------------------------------------------
(* The secrets an importer is asked for.                                   *)

Slot(path, leaf, purpose) == [path |-> Append(path, leaf), purpose |-> purpose]

KeySlots(path, passphrase) ==
  <<Slot(path, "privateKey", "privateKey")>>
    \o (IF passphrase THEN <<Slot(path, "passphrase", "passphrase")>> ELSE <<>>)

AuthSlots(login, path) ==
  CASE login.kind = "none" -> <<>>
    [] login.kind = "secret" -> <<Slot(path, "secret", "password")>>
    [] login.kind = "token" -> <<Slot(path, "token", "token")>>
    [] login.kind = "keyPair" -> KeySlots(path, login.passphrase)

SshSlots(login, path) ==
  CASE login.kind = "agent" -> <<>>
    [] login.kind = "password" -> <<Slot(path, "password", "sshPassword")>>
    [] login.kind = "privateKey" -> KeySlots(path, login.passphrase)

ProxySlots(login, path) ==
  IF login.kind = "none" THEN <<>> ELSE <<Slot(path, "password", "proxyPassword")>>

HopSlots(hop) ==
  LET path == <<"transport", "chain">> \o hop.name IN
    IF hop.server.via = "ssh" THEN SshSlots(hop.server.login, Append(path, "ssh"))
    ELSE ProxySlots(hop.server.login, path)

(* A mutant: the path of a hop tells how it is reached, not its name. *)
TransportSlotsByKind(t) ==
  CASE t.kind \in {"direct", "localFile"} -> <<>>
    [] t.kind = "sshTunnel" -> SshSlots(t.server.login, <<"transport", "ssh">>)
    [] t.kind = "chain" -> FlattenSeq([i \in DOMAIN t.hops |->
                             HopSlots([t.hops[i] EXCEPT !.name = <<t.hops[i].server.via>>])])
    [] OTHER -> ProxySlots(t.server.login, <<"transport", "proxy">>)

TransportSlots(t) ==
  CASE t.kind \in {"direct", "localFile"} -> <<>>
    [] t.kind = "sshTunnel" -> SshSlots(t.server.login, <<"transport", "ssh">>)
    [] t.kind = "chain" -> FlattenSeq([i \in DOMAIN t.hops |-> HopSlots(t.hops[i])])
    [] OTHER -> ProxySlots(t.server.login, <<"transport", "proxy">>)

(* PortableConnectionProfile::required_secret_slots *)
RequiredSlots(portable) ==
  AuthSlots(portable.auth, <<"auth">>) \o TransportSlots(portable.transport)
=============================================================================
