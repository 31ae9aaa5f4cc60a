------------------------ MODULE TransportResolution -------------------------
(***************************************************************************)
(* resolve_transport (db/transport.rs) at work: it reads the secrets of a  *)
(* transport one by one, each with a command of its own, while the user    *)
(* stores and deletes secrets.  The map in memory is given the same calls  *)
(* as the keychain, to compare the two.                                    *)
(***************************************************************************)
EXTENDS Routes, SecretStores

CONSTANTS
  Profiles,    \* the profiles that may be resolved
  Refs,        \* the handles the user stores secrets under
  Secrets,     \* the secrets that are stored
  MaxChanges   \* bound: changes to the stores during one resolution

Kinds ==
  {"direct", "localFile", "sshTunnel", "socks5Proxy", "httpConnectProxy", "chain"}

IsSequence(s) == Len(s) \in Nat /\ s = [i \in 1..Len(s) |-> s[i]]

(* The secrets each way to log in takes; those of a profile's own login    *)
(* are not read here.                                                      *)
LoginForm(login) ==
  /\ IsSequence(login.secrets)
  /\ CASE login.kind \in {"agent", "none"} -> Len(login.secrets) = 0
       [] login.kind \in {"password", "userPassword", "secret", "token"} ->
            Len(login.secrets) = 1
       [] login.kind \in {"privateKey", "keyPair"} -> Len(login.secrets) \in {1, 2}
       [] OTHER -> FALSE
  /\ \A i \in 1..Len(login.secrets) :
       ValidSecretHandle(login.secrets[i]) => login.secrets[i] \in Refs

ServerForm(s) ==
  /\ s = [via |-> s.via, host |-> s.host, port |-> s.port, username |-> s.username,
          login |-> s.login, hostKey |-> s.hostKey, strict |-> s.strict]
  /\ s.strict \in BOOLEAN
  /\ s.via \in {"ssh", "socks5", "httpConnect"}
  /\ LoginForm(s.login)
  /\ s.login.kind \in IF s.via = "ssh" THEN {"agent", "password", "privateKey"}
                       ELSE {"none", "userPassword"}

TransportForm(t) ==
  /\ t.kind \in Kinds
  /\ ~NeedsNoResolution(t) => t.tls \in BOOLEAN
  /\ t.kind \in {"sshTunnel", "socks5Proxy", "httpConnectProxy"} =>
       /\ t = [kind |-> t.kind, name |-> t.name, server |-> t.server,
               target |-> t.target, tls |-> t.tls]
       /\ ServerForm(t.server)
       /\ t.kind = "sshTunnel" <=> t.server.via = "ssh"
  /\ t.kind = "chain" =>
       /\ t = [kind |-> t.kind, hops |-> t.hops, target |-> t.target, tls |-> t.tls]
       /\ IsSequence(t.hops)
       /\ \A i \in 1..Len(t.hops) :
            LET hop == t.hops[i] IN
            /\ hop = [name |-> hop.name, server |-> hop.server, proxyName |-> hop.proxyName]
            /\ IsSequence(hop.name) /\ ServerForm(hop.server)

ProfileForm(p) ==
  /\ p = [id |-> p.id, displayName |-> p.displayName, source |-> p.source,
          transport |-> p.transport, auth |-> p.auth, database |-> p.database,
          user |-> p.user, options |-> p.options]
  /\ TransportForm(p.transport)
  /\ LoginForm(p.auth) /\ p.auth.kind \in {"none", "secret", "token", "keyPair"}

(* Profiles, handles and secrets are what their types in the code allow,   *)
(* and whatever handle a profile names, a user may store a secret under it *)
(* if the stores take it.                                                  *)
ASSUME TransportAssumption ==
  /\ \A p \in Profiles : ProfileForm(p)
  /\ \A value \in Secrets :
       /\ value = [text |-> value.text, breaks |-> value.breaks] /\ value.breaks \in BOOLEAN
       /\ None \notin {value, Trimmed(value)}
  /\ \E value \in Secrets : value.breaks
  /\ MaxChanges \in Nat

VARIABLES
  profile,
  keychain,   \* service and account -> secret or None
  memory,     \* account -> secret or None
  phase,      \* "idle", "reading", "done", "failed"
  values,     \* the secrets read so far
  held,       \* service and account -> what it has held since the first read
  unsure,     \* keys whose last change failed
  broken,     \* has a lookup failed?
  changes

vars == <<profile, keychain, memory, phase, values, held, unsure, broken, changes>>
stores == <<keychain, memory, held, unsure, changes>>

transport == profile.transport
Keys == {Key(ref) : ref \in Refs}
Accounts == {AccountName(ref) : ref \in Refs}

TypeOK ==
  /\ ProfileForm(profile)
  /\ keychain \in [Keys -> Secrets \cup {None}]
  /\ memory \in [Accounts -> Secrets \cup {None}]
  /\ phase \in {"idle", "reading", "done", "failed"}
  /\ values \in Seq({Trimmed(value) : value \in Secrets})
  /\ held \in [Keys -> SUBSET (Secrets \cup {None})]
  /\ unsure \subseteq Keys /\ broken \in BOOLEAN /\ changes \in 0..MaxChanges

(* The stores are empty, or hold one secret everywhere. *)
Init ==
  /\ profile \in Profiles
  /\ \E content \in {None, CHOOSE secret \in Secrets : secret.breaks} :
       /\ keychain = [key \in Keys |-> content]
       /\ memory = [account \in Accounts |-> content]
  /\ phase = "idle"
  /\ values = <<>>
  /\ held = [key \in Keys |-> {keychain[key]}]
  /\ unsure = {} /\ broken = FALSE /\ changes = 0

-----------------------------------------------------------------------------

Begin ==
  /\ phase = "idle"
  /\ phase' = IF NeedsNoResolution(transport) THEN "failed" ELSE "reading"
  /\ UNCHANGED <<profile, values, broken, stores>>

Reading == phase = "reading" /\ Len(values) < Len(Reads(transport))
NextRef == Reads(transport)[Len(values) + 1].ref

(* A mutant: an absent secret is not an error. *)
ReadSecretUnchecked ==
  /\ Reading
  /\ values' = Append(values, KeychainGet(keychain, NextRef))
  /\ UNCHANGED <<profile, phase, broken, stores>>

(* resolve_secret_ref *)
ReadSecret ==
  /\ Reading
  /\ IF ValidSecretHandle(NextRef) /\ KeychainGet(keychain, NextRef) # None
       THEN /\ values' = Append(values, KeychainGet(keychain, NextRef))
            /\ UNCHANGED phase
       ELSE /\ phase' = "failed"
            /\ UNCHANGED values
  /\ UNCHANGED <<profile, broken, stores>>

(* The command cannot be started, or ends with a failure of its own, which *)
(* reads as an absent secret.                                              *)
ReadFails ==
  /\ Reading /\ ValidSecretHandle(NextRef)
  /\ phase' = "failed"
  /\ broken' = TRUE
  /\ UNCHANGED <<profile, values, stores>>

(* All secrets are there. *)
Resolve ==
  /\ phase = "reading" /\ Len(values) = Len(Reads(transport))
  /\ phase' = IF LacksTarget(transport) THEN "failed" ELSE "done"
  /\ UNCHANGED <<profile, values, broken, stores>>

-----------------------------------------------------------------------------
(* The user's changes, while a resolution has secrets left to read.        *)

Change(ref) ==
  /\ ValidSecretHandle(ref)
  /\ changes' = changes + 1
  /\ held' = [held EXCEPT ![Key(ref)] = @ \cup {keychain'[Key(ref)]}]
  /\ UNCHANGED <<profile, phase, values, broken>>

Put(ref, value) ==
  /\ ValidSecret(value)
  /\ keychain' = [keychain EXCEPT ![Key(ref)] = value]
  /\ memory' = [memory EXCEPT ![AccountName(ref)] = value]
  /\ unsure' = unsure \ {Key(ref)}
  /\ Change(ref)

(* The command fails, before or after it has stored the secret.            *)
PutFails(ref, value) ==
  /\ ValidSecret(value)
  /\ \/ UNCHANGED keychain
     \/ keychain' = [keychain EXCEPT ![Key(ref)] = value]
  /\ memory' = [memory EXCEPT ![AccountName(ref)] = value]
  /\ unsure' = unsure \cup {Key(ref)}
  /\ Change(ref)

(* A mutant: deletes under the store's own service. *)
DeleteOwn(ref) ==
  /\ keychain' = [keychain EXCEPT ![Key([ref EXCEPT !.service = None])] = None]
  /\ memory' = [memory EXCEPT ![AccountName(ref)] = None]
  /\ unsure' = unsure \ {Key(ref)}
  /\ ValidSecretHandle(ref)
  /\ changes' = changes + 1
  /\ held' = [key \in Keys |-> held[key] \cup {keychain'[key]}]
  /\ UNCHANGED <<profile, phase, values, broken>>

Delete(ref) ==
  /\ keychain' = [keychain EXCEPT ![Key(ref)] = None]
  /\ memory' = [memory EXCEPT ![AccountName(ref)] = None]
  /\ unsure' = unsure \ {Key(ref)}
  /\ Change(ref)

(* The command fails and the keychain still has the secret; the answer is  *)
(* Ok all the same.                                                        *)
DeleteFails(ref) ==
  /\ UNCHANGED keychain
  /\ memory' = [memory EXCEPT ![AccountName(ref)] = None]
  /\ unsure' = unsure \cup {Key(ref)}
  /\ Change(ref)

UserChanges ==
  /\ Reading /\ changes < MaxChanges
  /\ \E ref \in Refs : \/ \E value \in Secrets : Put(ref, value) \/ PutFails(ref, value)
                       \/ Delete(ref) \/ DeleteFails(ref)

Next == Begin \/ ReadSecret \/ ReadFails \/ Resolve \/ UserChanges

Spec == Init /\ [][Next]_vars

-----------------------------------------------------------------------------

Places == [agent |-> {}, none |-> {}, password |-> {"sshPassword"},
           userPassword |-> {"proxyPassword"}]

(* However secrets change meanwhile, each hop of a resolved transport      *)
(* logs in with what its own handle held at some time during the           *)
(* resolution, line breaks at the end left out (resolve_transport).  A key *)
(* and its passphrase may be of different times.                           *)
HopsHaveTheirSecrets ==
  phase = "done" =>
    \A h \in DOMAIN Servers(transport) :
      LET hop == ResolvedTransport(transport, values).hops[h]
          handles == Servers(transport)[h].login.secrets IN
      /\ Cardinality(DOMAIN hop.login) = Len(handles)
      /\ hop.kind \in DOMAIN Places => DOMAIN hop.login = Places[hop.kind]
      /\ \A place \in DOMAIN hop.login :
           LET ref == handles[IF place = "passphrase" THEN 2 ELSE 1] IN
           \E value \in held[<<IF ref.service = None THEN DefaultService ELSE ref.service,
                               ref.handle>>] \ {None} :
             hop.login[place].text = value.text /\ ~hop.login[place].breaks

(* A transport that passes validation fails to resolve only for the sake   *)
(* of a secret: its handle has control characters, which validation lets   *)
(* through and the store does not; it is not in the keychain; or the       *)
(* keychain's command fails, which the code cannot tell from that.         *)
FailsOnlyForSecrets ==
  phase = "failed" /\ ValidTransport(transport) /\ ~NeedsNoResolution(transport) =>
    \/ broken
    \/ /\ Len(values) < Len(Reads(transport))
       /\ ~ValidSecretHandle(NextRef) \/ None \in held[Key(NextRef)]

(* The map that stands in for the keychain in tests answers what the       *)
(* keychain answers, but for line breaks at a secret's end, as long as no  *)
(* account is used with two services and no change has failed.             *)
StoresAgree == \A ref \in Refs :
  LET others == {r \in Refs : r.handle = ref.handle /\ Key(r) # Key(ref)}
      stored == MemoryGet(memory, ref)
      answer == KeychainGet(keychain, ref)
  IN others = {} /\ Key(ref) \notin unsure =>
       IF stored = None THEN answer = None
       ELSE answer # None /\ answer.text = stored.text /\ ~answer.breaks

(* What the plan shows is what will be dialled: the same servers in the    *)
(* same order, each found, logged in to if it asks for it, and then used;  *)
(* then the target, with TLS if and only if it is asked for.  A tunnel     *)
(* that checks its host key says so at the end, a chain never does.        *)
PlanShowsRoute ==
  phase = "idle" /\ Plan(transport) # Absent /\ ~NeedsNoResolution(transport) =>
    LET plan == Plan(transport)
        route == ResolvedTransport(transport, <<>>)
        shown == FlattenSeq([h \in DOMAIN route.hops |->
          LET hop == route.hops[h]
              at == [host |-> hop.host, port |-> hop.port] IN
          <<<<"resolve", at>>>>
            \o (IF hop.kind = "none" THEN <<>> ELSE <<<<"auth", Absent>>>>)
            \o <<<<hop.via, at>>>>])
        steps == [i \in DOMAIN plan.steps |-> <<plan.steps[i].kind, plan.steps[i].endpoint>>]
        tail == SubSeq(steps, Len(shown) + 1, Len(steps))
    IN /\ plan.target = route.target /\ plan.tls = route.tls
       /\ IsPrefix(shown, steps)
       /\ tail[1] = <<"directTcp", route.target>>
       /\ (\E i \in DOMAIN tail : tail[i][1] = "tls") <=> route.tls
       /\ transport.kind = "sshTunnel" =>
            (Len(tail) = 2 <=> route.hops[1].strict)
       /\ Len(tail) = 2 => tail[2][1] = IF transport.kind = "sshTunnel" THEN "auth" ELSE "tls"

(* An importer is asked for the secrets that resolve_transport will read,  *)
(* each once and in that order, and for no two under the same path and     *)
(* purpose.                                                                *)
SlotsAreRead ==
  phase = "idle" /\ Export(<<profile>>) # Absent =>
    LET portable == Export(<<profile>>)[1]
        slots == RequiredSlots(portable)
        ofAuth == Len(AuthSlots(portable.auth, <<"auth">>))
    IN /\ Len(slots) = Len(profile.auth.secrets)
                       + (IF NeedsNoResolution(transport) THEN 0 ELSE Len(Reads(transport)))
       /\ \A i \in (ofAuth + 1)..Len(slots) :
            slots[i].purpose = Reads(transport)[i - ofAuth].place
       /\ IsInjective(slots)

-----------------------------------------------------------------------------
(* What the first three rest on.                                           *)

(* Each value read so far was held under its own handle at some time.      *)
ReadFromHeld ==
  /\ \A key \in Keys : keychain[key] \in held[key]
  /\ phase = "idle" => values = <<>>
  /\ phase \in {"reading", "done"} => ~NeedsNoResolution(transport)
  /\ phase # "idle" /\ ~NeedsNoResolution(transport) =>
       LET reads == Reads(transport) IN
       /\ Len(values) <= Len(reads)
       /\ phase = "done" => Len(values) = Len(reads)
       /\ \A i \in 1..Len(values) :
            /\ ValidSecretHandle(reads[i].ref)
            /\ \E value \in held[Key(reads[i].ref)] \ {None} : values[i] = Trimmed(value)

(* Where no account has two services and no change has failed, both stores *)
(* hold the same.                                                          *)
StoresMatch == \A ref \in Refs :
  Key(ref) \notin unsure /\ (\A r \in Refs : r.handle = ref.handle => Key(r) = Key(ref)) =>
    keychain[Key(ref)] = memory[AccountName(ref)]

IInv == TypeOK /\ ReadFromHeld /\ StoresMatch
=============================================================================
