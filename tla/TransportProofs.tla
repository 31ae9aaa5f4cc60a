--------------------------- MODULE TransportProofs ---------------------------
(***************************************************************************)
(* What TLAPS proves of TransportResolution, for any profiles, handles and *)
(* secrets and any length of chain: first what a resolution reads, where   *)
(* the secrets go and what it fails for; then what a transport promises    *)
(* before it is resolved: its plan shows its route, and an importer is     *)
(* asked for the secrets it reads.  The latter follow from the form of a   *)
(* profile alone, hop by hop: what FlattenSeq puts together may be mapped  *)
(* and told apart sequence by sequence (FlattenMapped, FlattenInjective of *)
(* SequenceLemmas).                                                        *)
(***************************************************************************)
EXTENDS TransportResolution, SequenceLemmas

-----------------------------------------------------------------------------
(* The secrets a transport reads.                                          *)

(* A login has no secret, one, or a key with its passphrase.               *)
LEMMA LoginSecrets ==
  ASSUME NEW login, LoginForm(login)
  PROVE  /\ Len(login.secrets) \in 0..2
         /\ DOMAIN login.secrets = 1..Len(login.secrets)
         /\ Len(login.secrets) = 2 => login.kind \in {"privateKey", "keyPair"}
         /\ login.kind \in {"privateKey", "keyPair"} => Len(login.secrets) \in {1, 2}
         /\ login.kind \in {"agent", "none"} => Len(login.secrets) = 0
         /\ login.kind \in {"password", "userPassword", "secret", "token"} =>
              Len(login.secrets) = 1
BY DEF LoginForm, IsSequence

(* What a server may be logged in to with.                                 *)
LEMMA ServerLogins ==
  ASSUME NEW s, ServerForm(s)
  PROVE  /\ LoginForm(s.login)
         /\ s.login.kind \in {"agent", "password", "privateKey", "none", "userPassword"}
         /\ s.login.kind = "none" \/ s.login.kind = "userPassword" <=> s.via # "ssh"
BY DEF ServerForm

(* The servers of a transport that is resolved.                            *)
LEMMA ServersForm ==
  ASSUME NEW t, TransportForm(t), ~NeedsNoResolution(t)
  PROVE  /\ Len(Servers(t)) \in Nat /\ DOMAIN Servers(t) = 1..Len(Servers(t))
         /\ \A h \in 1..Len(Servers(t)) : ServerForm(Servers(t)[h])
<1>1. CASE t.kind = "chain"
  <2>1. /\ Len(t.hops) \in Nat /\ DOMAIN t.hops = 1..Len(t.hops)
        /\ \A i \in 1..Len(t.hops) : ServerForm(t.hops[i].server)
    BY <1>1, Zenon DEF TransportForm, IsSequence
  <2>2. Servers(t) = [i \in 1..Len(t.hops) |-> t.hops[i].server]
    BY <1>1, <2>1, Zenon DEF Servers
  <2>3. QED BY <2>1, <2>2
<1>2. CASE t.kind # "chain"
  <2>1. ServerForm(t.server)
    BY <1>2 DEF TransportForm, NeedsNoResolution, Kinds
  <2>2. Servers(t) = <<t.server>>
    BY <1>2, Zenon DEF Servers
  <2>3. QED BY <2>1, <2>2
<1>3. QED BY <1>1, <1>2

(* What is read for the i-th secret of a login.                            *)
ReadOf(server, h, i) ==
  [hop |-> h,
   place |-> CASE server.login.kind = "password" -> "sshPassword"
               [] server.login.kind = "privateKey" -> <<"privateKey", "passphrase">>[i]
               [] server.login.kind = "userPassword" -> "proxyPassword",
   ref |-> server.login.secrets[i]]

LEMMA LoginReadsForm ==
  ASSUME NEW server, NEW h, LoginForm(server.login)
  PROVE  LoginReads(server, h) = [i \in 1..Len(server.login.secrets) |-> ReadOf(server, h, i)]
BY LoginSecrets, Zenon DEF LoginReads, ReadOf

(* The secrets read are those of the logins, each for its hop.             *)
LEMMA ReadsForm ==
  ASSUME NEW t, TransportForm(t), ~NeedsNoResolution(t)
  PROVE  /\ Len(Servers(t)) \in Nat /\ DOMAIN Servers(t) = 1..Len(Servers(t))
         /\ Len(Reads(t)) \in Nat /\ DOMAIN Reads(t) = 1..Len(Reads(t))
         /\ \A j \in 1..Len(Reads(t)) :
              \E h \in 1..Len(Servers(t)) : \E i \in 1..Len(Servers(t)[h].login.secrets) :
                Reads(t)[j] = ReadOf(Servers(t)[h], h, i)
         /\ \A h \in 1..Len(Servers(t)) : \A i \in 1..Len(Servers(t)[h].login.secrets) :
              \E j \in 1..Len(Reads(t)) : Reads(t)[j] = ReadOf(Servers(t)[h], h, i)
<1> DEFINE s == Servers(t)
           seqs == [h \in 1..Len(s) |-> LoginReads(s[h], h)]
           lens(h) == Len(s[h].login.secrets)
           T == UNION {{ReadOf(s[h], h, i) : i \in 1..lens(h)} : h \in 1..Len(s)}
<1>1. /\ DOMAIN s = 1..Len(s) /\ Len(s) \in Nat
      /\ \A h \in 1..Len(s) : LoginForm(s[h].login)
  BY ServersForm, ServerLogins
<1>2. Reads(t) = FlattenSeq(seqs)
  BY <1>1, Zenon DEF Reads
<1>3. ASSUME NEW h \in 1..Len(s)
      PROVE  /\ seqs[h] = [i \in 1..lens(h) |-> ReadOf(s[h], h, i)]
             /\ lens(h) \in Nat
             /\ seqs[h] \in Seq(T) /\ Len(seqs[h]) = lens(h)
  <2>1. seqs[h] = LoginReads(s[h], h)
    OBVIOUS
  <2>2. seqs[h] = [i \in 1..lens(h) |-> ReadOf(s[h], h, i)]
    BY <1>1, <2>1, LoginReadsForm
  <2>3. lens(h) \in Nat
    BY <1>1, LoginSecrets
  <2>4. ASSUME NEW i \in 1..lens(h) PROVE ReadOf(s[h], h, i) \in T
    <3>1. ReadOf(s[h], h, i) \in {ReadOf(s[h], h, k) : k \in 1..lens(h)}
      OBVIOUS
    <3>2. QED BY <3>1
  <2> HIDE DEF T, seqs, lens
  <2>5. seqs[h] \in Seq(T) /\ Len(seqs[h]) = lens(h)
    BY <2>2, <2>3, <2>4
  <2>6. QED BY <2>2, <2>3, <2>5
<1>4. seqs \in Seq(Seq(T)) /\ Len(seqs) = Len(s)
  <2> HIDE DEF T, lens
  <2>1. \A h \in 1..Len(s) : LoginReads(s[h], h) \in Seq(T)
    BY <1>3
  <2>2. QED BY <1>1, <2>1
<1>5. Reads(t) \in Seq(T) /\ Elements(seqs, Len(s), Reads(t))
  <2> HIDE DEF T, seqs
  <2>1. QED BY <1>2, <1>4, FlattenElements
<1>6. Len(Reads(t)) \in Nat /\ DOMAIN Reads(t) = 1..Len(Reads(t))
  <2> HIDE DEF T
  <2>1. QED BY <1>5
<1>7. ASSUME NEW j \in 1..Len(Reads(t))
      PROVE  \E h \in 1..Len(s) : \E i \in 1..lens(h) : Reads(t)[j] = ReadOf(s[h], h, i)
  <2> HIDE DEF T, seqs, lens
  <2>1. PICK h \in 1..Len(s) : \E i \in 1..Len(seqs[h]) : Reads(t)[j] = seqs[h][i]
    BY <1>5 DEF Elements
  <2>2. PICK i \in 1..Len(seqs[h]) : Reads(t)[j] = seqs[h][i]
    BY <2>1
  <2>3. i \in 1..lens(h) /\ seqs[h][i] = ReadOf(s[h], h, i)
    BY <1>3
  <2>4. QED BY <2>2, <2>3
<1>8. ASSUME NEW h \in 1..Len(s), NEW i \in 1..lens(h)
      PROVE  \E j \in 1..Len(Reads(t)) : Reads(t)[j] = ReadOf(s[h], h, i)
  <2> HIDE DEF T, seqs, lens
  <2>1. i \in 1..Len(seqs[h]) /\ seqs[h][i] = ReadOf(s[h], h, i)
    BY <1>3
  <2>2. QED BY <1>5, <2>1 DEF Elements
<1>9. QED BY <1>1, <1>6, <1>7, <1>8

(* Reads give each read a hop of the transport and one of its secrets.     *)
LEMMA ReadRefs ==
  ASSUME NEW t, TransportForm(t), ~NeedsNoResolution(t),
         NEW j \in 1..Len(Reads(t)), ValidSecretHandle(Reads(t)[j].ref)
  PROVE  Reads(t)[j].ref \in Refs
<1>1. PICK h \in 1..Len(Servers(t)) : \E i \in 1..Len(Servers(t)[h].login.secrets) :
             Reads(t)[j] = ReadOf(Servers(t)[h], h, i)
  BY ReadsForm
<1>2. PICK i \in 1..Len(Servers(t)[h].login.secrets) :
             Reads(t)[j] = ReadOf(Servers(t)[h], h, i)
  BY <1>1
<1>3. Reads(t)[j].ref = Servers(t)[h].login.secrets[i]
  BY <1>2 DEF ReadOf
<1>4. LoginForm(Servers(t)[h].login)
  BY ServersForm, ServerLogins
<1>5. QED BY <1>3, <1>4, Zenon DEF LoginForm
-----------------------------------------------------------------------------
(* The stores.                                                             *)

(* A secret that has been trimmed.                                         *)
LEMMA TrimmedSecret ==
  ASSUME NEW value \in Secrets
  PROVE  /\ Trimmed(value) = [text |-> value.text, breaks |-> FALSE]
         /\ value # None /\ Trimmed(value) # None
<1>1. value = [text |-> value.text, breaks |-> value.breaks]
  BY TransportAssumption, Zenon
<1>2. Trimmed(value) = [[text |-> value.text, breaks |-> value.breaks] EXCEPT !.breaks = FALSE]
  BY <1>1, Zenon DEF Trimmed
<1>3. Trimmed(value) = [text |-> value.text, breaks |-> FALSE]
  BY <1>2
<1>4. value # None /\ Trimmed(value) # None
  BY TransportAssumption, Zenon
<1>5. QED BY <1>3, <1>4

LEMMA TransportIsFormed ==
  ASSUME TypeOK
  PROVE  TransportForm(transport)
BY DEF TypeOK, ProfileForm, transport

(* What is read comes from the key of the handle it is read for.           *)
LEMMA NextRefKnown ==
  ASSUME TypeOK, ReadFromHeld, Reading
  PROVE  /\ ~NeedsNoResolution(transport)
         /\ Len(values) \in Nat /\ Len(values) + 1 \in 1..Len(Reads(transport))
         /\ ValidSecretHandle(NextRef) =>
              NextRef \in Refs /\ Key(NextRef) \in Keys
                /\ keychain[Key(NextRef)] \in Secrets \cup {None}
<1>1. ~NeedsNoResolution(transport)
  BY DEF ReadFromHeld, Reading
<1>2. Len(values) \in Nat /\ Len(Reads(transport)) \in Nat
  BY <1>1, ReadsForm, TransportIsFormed DEF TypeOK
<1>3. Len(values) + 1 \in 1..Len(Reads(transport))
  BY <1>2 DEF Reading
<1>4. ASSUME ValidSecretHandle(NextRef) PROVE NextRef \in Refs
  BY <1>1, <1>3, <1>4, ReadRefs, TransportIsFormed DEF NextRef
<1>5. ASSUME NextRef \in Refs
      PROVE  Key(NextRef) \in Keys /\ keychain[Key(NextRef)] \in Secrets \cup {None}
  BY <1>5, Zenon DEF Keys, TypeOK
<1>6. QED BY <1>1, <1>2, <1>3, <1>4, <1>5

(* A change of the user's puts x into the keychain and y into the map; if  *)
(* they differ, the key is unsure.                                         *)
Changed(ref, x, y) ==
  /\ ValidSecretHandle(ref)
  /\ keychain' = [keychain EXCEPT ![Key(ref)] = x]
  /\ memory' = [memory EXCEPT ![AccountName(ref)] = y]
  /\ held' = [held EXCEPT ![Key(ref)] = @ \cup {x}]
  /\ \/ x = y /\ unsure' = unsure \ {Key(ref)}
     \/ unsure' = unsure \cup {Key(ref)}
  /\ changes' = changes + 1
  /\ UNCHANGED <<profile, phase, values, broken>>

LEMMA ChangesChange ==
  ASSUME TypeOK, UserChanges
  PROVE  \E ref \in Refs : \E x \in Secrets \cup {None} : \E y \in Secrets \cup {None} :
           Changed(ref, x, y)
<1>1. PICK ref \in Refs : \/ \E value \in Secrets : Put(ref, value) \/ PutFails(ref, value)
                          \/ Delete(ref) \/ DeleteFails(ref)
  BY DEF UserChanges
<1> DEFINE k == Key(ref)
<1>2. /\ k \in Keys /\ keychain \in [Keys -> Secrets \cup {None}]
      /\ keychain[k] \in Secrets \cup {None}
      /\ keychain = [keychain EXCEPT ![k] = keychain[k]]
  BY DEF TypeOK, Keys
<1>3. ASSUME NEW x, keychain' = [keychain EXCEPT ![k] = x] PROVE keychain'[k] = x
  BY <1>2, <1>3
<1> HIDE DEF k
<1>4. CASE \E value \in Secrets : Put(ref, value)
  <2>1. PICK value \in Secrets : Put(ref, value)
    BY <1>4
  <2>2. keychain'[k] = value
    BY <1>3, <2>1 DEF Put, k
  <2>3. Changed(ref, value, value)
    BY <2>1, <2>2, Zenon DEF Put, Change, Changed, k
  <2>4. QED BY <2>3
<1>5. CASE \E value \in Secrets : PutFails(ref, value)
  <2>1. PICK value \in Secrets : PutFails(ref, value)
    BY <1>5
  <2>2. PICK x \in Secrets \cup {None} : keychain' = [keychain EXCEPT ![k] = x]
    BY <1>2, <2>1 DEF PutFails, k
  <2>3. keychain'[k] = x
    BY <1>3, <2>2
  <2>4. Changed(ref, x, value)
    BY <2>1, <2>2, <2>3, Zenon DEF PutFails, Change, Changed, k
  <2>5. QED BY <2>4
<1>6. CASE Delete(ref)
  <2>1. keychain'[k] = None
    BY <1>3, <1>6 DEF Delete, k
  <2>2. Changed(ref, None, None)
    BY <1>6, <2>1, Zenon DEF Delete, Change, Changed, k
  <2>3. QED BY <2>2
<1>7. CASE DeleteFails(ref)
  <2>1. keychain' = [keychain EXCEPT ![k] = keychain[k]] /\ keychain'[k] = keychain[k]
    BY <1>2, <1>7 DEF DeleteFails
  <2>2. Changed(ref, keychain[k], None)
    BY <1>7, <2>1, Zenon DEF DeleteFails, Change, Changed, k
  <2>3. QED BY <1>2, <2>2
<1>8. QED BY <1>1, <1>4, <1>5, <1>6, <1>7
-----------------------------------------------------------------------------
(* IInv is inductive.                                                      *)

LEMMA Starts ==
  ASSUME Init
  PROVE  IInv
<1>1. PICK content \in {None, CHOOSE secret \in Secrets : secret.breaks} :
        /\ keychain = [key \in Keys |-> content]
        /\ memory = [account \in Accounts |-> content]
  BY DEF Init
<1>2. content \in Secrets \cup {None}
  BY <1>1, TransportAssumption
<1>3. TypeOK
  <2>1. ProfileForm(profile)
    BY TransportAssumption DEF Init
  <2>2. held \in [Keys -> SUBSET (Secrets \cup {None})]
    BY <1>1, <1>2 DEF Init
  <2>3. values \in Seq({Trimmed(value) : value \in Secrets})
    BY EmptySeq DEF Init
  <2>4. keychain \in [Keys -> Secrets \cup {None}] /\ memory \in [Accounts -> Secrets \cup {None}]
    BY <1>1, <1>2
  <2>5. /\ phase = "idle" /\ unsure = {} /\ broken = FALSE /\ changes = 0
    BY DEF Init
  <2>6. /\ phase \in {"idle", "reading", "done", "failed"}
        /\ unsure \subseteq Keys /\ broken \in BOOLEAN
    BY <2>5
  <2>7. changes \in 0..MaxChanges
    <3>1. MaxChanges \in Nat
      BY TransportAssumption
    <3>2. QED BY <2>5, <3>1
  <2>8. QED BY <2>1, <2>2, <2>3, <2>4, <2>6, <2>7, Zenon DEF TypeOK
<1>4. ReadFromHeld
  BY DEF Init, ReadFromHeld
<1>5. StoresMatch
  <2>1. \A ref \in Refs : Key(ref) \in Keys /\ AccountName(ref) \in Accounts
    BY DEF Keys, Accounts
  <2>2. QED BY <1>1, <2>1 DEF StoresMatch
<1>6. QED BY <1>3, <1>4, <1>5 DEF IInv

(* Steps that leave the stores alone keep what is said of the stores.      *)
LEMMA StoresStay ==
  ASSUME IInv, UNCHANGED <<profile, stores>>
  PROVE  /\ StoresMatch'
         /\ \A key \in Keys : keychain'[key] \in held'[key]
BY DEF IInv, ReadFromHeld, StoresMatch, stores

LEMMA BeginKeeps ==
  ASSUME IInv, Begin
  PROVE  IInv'
<1>1. TypeOK'
  BY DEF IInv, TypeOK, Begin, stores, transport
<1>2. ReadFromHeld'
  <2>1. values' = <<>> /\ UNCHANGED <<profile, stores, values>> /\ phase' # "idle"
        /\ (phase' = "reading" => ~NeedsNoResolution(transport)) /\ phase' # "done"
    BY DEF IInv, ReadFromHeld, Begin
  <2>2. ~NeedsNoResolution(transport) => Len(Reads(transport)) \in Nat
    BY ReadsForm, TransportIsFormed DEF IInv
  <2>3. QED BY <2>1, <2>2, StoresStay DEF ReadFromHeld, stores, transport
<1>3. QED BY <1>1, <1>2, StoresStay DEF IInv, Begin

LEMMA ReadSecretKeeps ==
  ASSUME IInv, ReadSecret
  PROVE  IInv'
<1>1. /\ Reading /\ ~NeedsNoResolution(transport)
      /\ Len(values) \in Nat /\ Len(values) + 1 \in 1..Len(Reads(transport))
      /\ UNCHANGED <<profile, broken, stores>>
  BY NextRefKnown DEF IInv, ReadSecret
<1>2. \/ phase' = "failed" /\ UNCHANGED values
      \/ /\ ValidSecretHandle(NextRef) /\ keychain[Key(NextRef)] \in Secrets
         /\ keychain[Key(NextRef)] # None
         /\ values' = Append(values, Trimmed(keychain[Key(NextRef)])) /\ UNCHANGED phase
  <2>1. CASE ValidSecretHandle(NextRef) /\ KeychainGet(keychain, NextRef) # None
    <3>1. keychain[Key(NextRef)] # None
          /\ KeychainGet(keychain, NextRef) = Trimmed(keychain[Key(NextRef)])
      BY <2>1 DEF KeychainGet
    <3>2. QED BY <2>1, <3>1, NextRefKnown DEF IInv, ReadSecret
  <2>2. CASE ~(ValidSecretHandle(NextRef) /\ KeychainGet(keychain, NextRef) # None)
    BY <2>2, Zenon DEF ReadSecret
  <2>3. QED BY <2>1, <2>2
<1> DEFINE n == Len(values)
           v == Trimmed(keychain[Key(NextRef)])
<1>3. TypeOK'
  <2>1. values' \in Seq({Trimmed(value) : value \in Secrets})
    <3>1. CASE values' = values
      BY <3>1 DEF IInv, TypeOK
    <3>2. CASE keychain[Key(NextRef)] \in Secrets /\ values' = Append(values, v)
      <4>1. v \in {Trimmed(value) : value \in Secrets}
        BY <3>2
      <4> HIDE DEF v
      <4>2. QED BY <3>2, <4>1, AppendProperties DEF IInv, TypeOK
    <3>3. QED BY <1>2, <3>1, <3>2
  <2>2. phase' \in {"idle", "reading", "done", "failed"}
    BY <1>2 DEF IInv, TypeOK
  <2>3. QED BY <1>1, <2>1, <2>2 DEF IInv, TypeOK, stores, transport
<1>4. ReadFromHeld'
  <2> DEFINE reads == Reads(transport)
             Good(vs) == \A i \in 1..Len(vs) :
               /\ ValidSecretHandle(reads[i].ref)
               /\ \E value \in held[Key(reads[i].ref)] \ {None} : vs[i] = Trimmed(value)
  <2>1. Good(values) /\ n <= Len(reads) /\ phase = "reading"
    BY <1>1 DEF IInv, ReadFromHeld, Reading
  <2>2. Len(reads) \in Nat
    BY <1>1, ReadsForm, TransportIsFormed DEF IInv
  <2>3. CASE phase' = "failed" /\ UNCHANGED values
    BY <1>1, <2>1, <2>3, StoresStay DEF ReadFromHeld, stores, transport
  <2>4. CASE /\ ValidSecretHandle(NextRef) /\ keychain[Key(NextRef)] \in Secrets
             /\ keychain[Key(NextRef)] # None
             /\ values' = Append(values, v) /\ UNCHANGED phase
    <3>1. Len(values') = n + 1 /\ values'[n + 1] = v
          /\ \A i \in 1..n : values'[i] = values[i]
      <4> HIDE DEF v
      <4>1. QED BY <2>4, AppendProperties DEF IInv, TypeOK
    <3>2. ValidSecretHandle(reads[n + 1].ref)
          /\ \E value \in held[Key(reads[n + 1].ref)] \ {None} : v = Trimmed(value)
      <4>1. NextRef = reads[n + 1].ref
        BY DEF NextRef
      <4>2. keychain[Key(NextRef)] \in held[Key(NextRef)]
        BY <2>4, NextRefKnown, <1>1 DEF IInv, ReadFromHeld
      <4>3. QED BY <2>4, <4>1, <4>2
    <3>3. Good(values')
      <4> SUFFICES ASSUME NEW i \in 1..(n + 1)
                   PROVE  /\ ValidSecretHandle(reads[i].ref)
                          /\ \E value \in held[Key(reads[i].ref)] \ {None} :
                               values'[i] = Trimmed(value)
        BY <3>1
      <4>1. CASE i = n + 1
        BY <3>1, <3>2, <4>1
      <4>2. CASE i \in 1..n
        BY <2>1, <3>1, <4>2
      <4>3. QED BY <1>1, <4>1, <4>2
    <3>4. Len(values') <= Len(reads)
      BY <1>1, <2>2, <3>1
    <3>5. QED BY <1>1, <2>1, <2>4, <3>3, <3>4, StoresStay
              DEF ReadFromHeld, stores, transport
  <2>5. QED BY <1>2, <2>3, <2>4
<1>5. QED BY <1>1, <1>3, <1>4, StoresStay DEF IInv

LEMMA ReadFailsKeeps ==
  ASSUME IInv, ReadFails
  PROVE  IInv'
<1>1. ~NeedsNoResolution(transport) /\ phase = "reading"
  BY NextRefKnown DEF IInv, ReadFails, Reading
<1>2. TypeOK'
  BY DEF IInv, TypeOK, ReadFails, stores, transport
<1>3. ReadFromHeld'
  BY <1>1, StoresStay DEF IInv, ReadFromHeld, ReadFails, stores, transport
<1>4. QED BY <1>2, <1>3, StoresStay DEF IInv, ReadFails

LEMMA ResolveKeeps ==
  ASSUME IInv, Resolve
  PROVE  IInv'
<1>1. TypeOK'
  BY DEF IInv, TypeOK, Resolve, stores, transport
<1>2. ReadFromHeld'
  BY StoresStay DEF IInv, ReadFromHeld, Resolve, stores, transport
<1>3. QED BY <1>1, <1>2, StoresStay DEF IInv, Resolve

LEMMA UserChangesKeeps ==
  ASSUME IInv, UserChanges
  PROVE  IInv'
<1>1. PICK ref \in Refs : \E x \in Secrets \cup {None} : \E y \in Secrets \cup {None} :
             Changed(ref, x, y)
  BY ChangesChange DEF IInv
<1>2. PICK x \in Secrets \cup {None} : \E y \in Secrets \cup {None} : Changed(ref, x, y)
  BY <1>1
<1>3. PICK y \in Secrets \cup {None} : Changed(ref, x, y)
  BY <1>2
<1>4. Key(ref) \in Keys /\ AccountName(ref) \in Accounts
  BY DEF Keys, Accounts
<1>5. changes + 1 \in 0..MaxChanges
  BY TransportAssumption DEF IInv, TypeOK, UserChanges
<1>6. TypeOK'
  <2>1. keychain' \in [Keys -> Secrets \cup {None}] /\ memory' \in [Accounts -> Secrets \cup {None}]
    BY <1>3, <1>4 DEF IInv, TypeOK, Changed
  <2>2. held' \in [Keys -> SUBSET (Secrets \cup {None})]
    BY <1>3, <1>4 DEF IInv, TypeOK, Changed
  <2>3. unsure' \subseteq Keys
    BY <1>3, <1>4 DEF IInv, TypeOK, Changed
  <2>4. QED BY <1>3, <1>5, <2>1, <2>2, <2>3 DEF IInv, TypeOK, Changed, transport
<1>7. ReadFromHeld'
  <2>1. \A key \in Keys : held[key] \subseteq held'[key]
    BY <1>3, <1>4 DEF IInv, TypeOK, Changed
  <2>2. \A key \in Keys : keychain'[key] \in held'[key]
    BY <1>3, <1>4 DEF IInv, TypeOK, ReadFromHeld, Changed
  <2>3. UNCHANGED <<profile, phase, values>> /\ phase = "reading"
    BY <1>3 DEF Changed, UserChanges, Reading
  <2>4. ~NeedsNoResolution(transport)
    BY <2>3 DEF IInv, ReadFromHeld
  <2> DEFINE reads == Reads(transport)
  <2>5. Len(values) <= Len(reads)
    BY <2>3, <2>4 DEF IInv, ReadFromHeld
  <2>6. ASSUME NEW i \in 1..Len(values)
        PROVE  /\ ValidSecretHandle(reads[i].ref)
               /\ \E value \in held'[Key(reads[i].ref)] \ {None} : values[i] = Trimmed(value)
    <3>1. /\ ValidSecretHandle(reads[i].ref)
          /\ \E value \in held[Key(reads[i].ref)] \ {None} : values[i] = Trimmed(value)
      BY <2>3, <2>4 DEF IInv, ReadFromHeld
    <3>2. i \in 1..Len(reads)
      <4>1. Len(reads) \in Nat /\ Len(values) \in Nat
        BY <2>4, ReadsForm, TransportIsFormed DEF IInv, TypeOK
      <4>2. QED BY <2>5, <4>1
    <3>3. Key(reads[i].ref) \in Keys
      BY <2>4, <3>1, <3>2, ReadRefs, TransportIsFormed DEF IInv, Keys
    <3>4. QED BY <2>1, <3>1, <3>3
  <2>7. QED BY <2>2, <2>3, <2>4, <2>5, <2>6 DEF ReadFromHeld, transport
<1>8. StoresMatch'
  <2> SUFFICES ASSUME NEW r \in Refs, Key(r) \notin unsure',
                      \A q \in Refs : q.handle = r.handle => Key(q) = Key(r)
               PROVE  keychain'[Key(r)] = memory'[AccountName(r)]
    BY DEF StoresMatch
  <2>1. /\ Key(r) \in Keys /\ AccountName(r) \in Accounts
        /\ keychain \in [Keys -> Secrets \cup {None}]
        /\ memory \in [Accounts -> Secrets \cup {None}]
    BY DEF Keys, Accounts, IInv, TypeOK
  <2>2. Key(ref) = Key(r) <=> AccountName(ref) = AccountName(r)
    BY DEF Key, AccountName
  <2>3. CASE Key(ref) = Key(r)
    <3>1. x = y
      BY <1>3, <2>3 DEF Changed
    <3>2. QED BY <1>3, <2>1, <2>2, <2>3, <3>1 DEF Changed
  <2>4. CASE Key(ref) # Key(r)
    <3>1. keychain'[Key(r)] = keychain[Key(r)]
          /\ memory'[AccountName(r)] = memory[AccountName(r)]
      BY <1>3, <2>1, <2>2, <2>4 DEF Changed
    <3>2. Key(r) \notin unsure
      BY <1>3, <2>4 DEF Changed
    <3>3. keychain[Key(r)] = memory[AccountName(r)]
      BY <3>2 DEF IInv, StoresMatch
    <3>4. QED BY <3>1, <3>3
  <2>5. QED BY <2>3, <2>4
<1>9. QED BY <1>6, <1>7, <1>8 DEF IInv

(* Whatever the user changes meanwhile, each value read was held by the    *)
(* keychain under its own handle, and where no account has two services    *)
(* and no change has failed, both stores hold the same.                    *)
THEOREM ResolutionsAreSound == Spec => []IInv
<1>1. IInv /\ [Next]_vars => IInv'
  <2> SUFFICES ASSUME IInv, [Next]_vars PROVE IInv'
    OBVIOUS
  <2>1. CASE UNCHANGED vars
    BY <2>1 DEF IInv, TypeOK, ReadFromHeld, StoresMatch, vars, transport
  <2>2. QED BY <2>1, BeginKeeps, ReadSecretKeeps, ReadFailsKeeps, ResolveKeeps,
               UserChangesKeeps, Zenon DEF Next
<1>2. QED BY <1>1, Starts, PTL DEF Spec
-----------------------------------------------------------------------------
(* What it gives.                                                          *)

(* The keychain and the map in memory answer alike, but for line breaks at *)
(* a secret's end, for an account with one service and no failed change.   *)
LEMMA MatchAgrees ==
  ASSUME IInv
  PROVE  StoresAgree
<1> SUFFICES ASSUME NEW ref \in Refs,
                    {r \in Refs : r.handle = ref.handle /\ Key(r) # Key(ref)} = {},
                    Key(ref) \notin unsure
             PROVE  IF MemoryGet(memory, ref) = None THEN KeychainGet(keychain, ref) = None
                    ELSE /\ KeychainGet(keychain, ref) # None
                         /\ KeychainGet(keychain, ref).text = MemoryGet(memory, ref).text
                         /\ ~KeychainGet(keychain, ref).breaks
  BY Zenon DEF StoresAgree
<1> DEFINE stored == keychain[Key(ref)]
<1>1. \A r \in Refs : r.handle = ref.handle => Key(r) = Key(ref)
  OBVIOUS
<1>2. stored = MemoryGet(memory, ref)
  BY <1>1 DEF IInv, StoresMatch, MemoryGet
<1>3. stored \in Secrets \cup {None}
  BY DEF IInv, TypeOK, Keys
<1>4. KeychainGet(keychain, ref) = IF stored = None THEN None ELSE Trimmed(stored)
  BY DEF KeychainGet
<1> HIDE DEF stored
<1>5. CASE stored = None
  BY <1>2, <1>4, <1>5
<1>6. CASE stored # None
  BY <1>2, <1>3, <1>4, <1>6, TrimmedSecret
<1>7. QED BY <1>5, <1>6

(* The store in memory, which the tests use, answers what the keychain     *)
(* answers, but for line breaks at the end (irodori-secure-store).         *)
THEOREM StoresAnswerAlike == Spec => []StoresAgree
BY ResolutionsAreSound, MatchAgrees, PTL

(* A transport that passes validation has its target.                      *)
LEMMA ValidHasTarget ==
  ASSUME NEW t, ValidTransport(t)
  PROVE  ~LacksTarget(t)
BY DEF ValidTransport, LacksTarget, ValidRoute, ValidTarget, ValidRequired, ValidPort

LEMMA FailsStep ==
  ASSUME IInv, FailsOnlyForSecrets, [Next]_vars
  PROVE  FailsOnlyForSecrets'
<1> SUFFICES ASSUME phase' = "failed", ValidTransport(transport'),
                    ~NeedsNoResolution(transport'), ~broken'
             PROVE  /\ Len(values') < Len(Reads(transport'))
                    /\ ~ValidSecretHandle(NextRef') \/ None \in held'[Key(NextRef')]
  BY DEF FailsOnlyForSecrets
<1>1. UNCHANGED transport /\ ValidTransport(transport) /\ ~NeedsNoResolution(transport)
  BY DEF Next, Begin, ReadSecret, ReadFails, Resolve, UserChanges, Put, PutFails, Delete,
         DeleteFails, Change, vars, transport
<1>2. CASE UNCHANGED vars
  BY <1>1, <1>2 DEF FailsOnlyForSecrets, NextRef, vars
<1>3. CASE Begin
  BY <1>1, <1>3 DEF Begin
<1>4. CASE ReadSecret
  <2>1. Reading /\ UNCHANGED held
    BY <1>4 DEF ReadSecret, stores
  <2>2. ~(ValidSecretHandle(NextRef) /\ KeychainGet(keychain, NextRef) # None) /\ UNCHANGED values
    BY <1>4, <2>1 DEF ReadSecret, Reading
  <2>3. UNCHANGED NextRef
    BY <1>1, <2>2 DEF NextRef
  <2>4. ASSUME ValidSecretHandle(NextRef) PROVE None \in held[Key(NextRef)]
    <3>1. keychain[Key(NextRef)] \in Secrets \cup {None} /\ Key(NextRef) \in Keys
      BY <2>1, <2>4, NextRefKnown DEF IInv
    <3>2. keychain[Key(NextRef)] = None
      BY <2>2, <2>4, <3>1, TrimmedSecret DEF KeychainGet
    <3>3. QED BY <3>1, <3>2 DEF IInv, ReadFromHeld
  <2>5. QED BY <1>1, <2>1, <2>2, <2>3, <2>4 DEF Reading
<1>5. CASE ReadFails
  BY <1>5 DEF ReadFails
<1>6. CASE Resolve
  BY <1>1, <1>6, ValidHasTarget DEF Resolve
<1>7. CASE UserChanges
  BY <1>7 DEF UserChanges, Reading, Put, PutFails, Delete, DeleteFails, Change
<1>8. QED BY <1>2, <1>3, <1>4, <1>5, <1>6, <1>7 DEF Next

(* A transport that passes validation fails to resolve only over a handle  *)
(* with control characters, an absent secret, or a failing keychain.       *)
THEOREM OnlySecretsFail == Spec => []FailsOnlyForSecrets
<1>1. Init => FailsOnlyForSecrets
  BY DEF Init, FailsOnlyForSecrets
<1>2. QED BY <1>1, FailsStep, ResolutionsAreSound, PTL DEF Spec

-----------------------------------------------------------------------------
(* Each place of a login belongs to one of its secrets.                    *)
LEMMA LoginPlaces ==
  ASSUME NEW server, NEW h, ServerForm(server)
  PROVE  LET n == Len(server.login.secrets)
             places == {ReadOf(server, h, k).place : k \in 1..n}
         IN /\ Cardinality(places) = n
            /\ server.login.kind \in DOMAIN Places => places = Places[server.login.kind]
            /\ \A k \in 1..n : k = IF ReadOf(server, h, k).place = "passphrase" THEN 2 ELSE 1
<1> DEFINE n == Len(server.login.secrets)
           kind == server.login.kind
           P(k) == ReadOf(server, h, k).place
           places == {P(k) : k \in 1..n}
<1>1. /\ n \in 0..2 /\ (n = 2 => kind = "privateKey")
      /\ (n > 0 => kind \in {"password", "privateKey", "userPassword"})
      /\ (kind \in {"agent", "none"} => n = 0)
      /\ (kind \in {"password", "userPassword"} => n = 1)
  BY ServerLogins, LoginSecrets
<1>2. \A k : /\ kind = "password" => P(k) = "sshPassword"
             /\ kind = "privateKey" => P(k) = <<"privateKey", "passphrase">>[k]
             /\ kind = "userPassword" => P(k) = "proxyPassword"
  BY DEF ReadOf
<1>3. DOMAIN Places = {"agent", "none", "password", "userPassword"}
      /\ Places["agent"] = {} /\ Places["none"] = {}
      /\ Places["password"] = {"sshPassword"} /\ Places["userPassword"] = {"proxyPassword"}
  BY DEF Places
<1> HIDE DEF P, n, kind
<1>4. CASE n = 0
  <2>1. places = {} /\ Cardinality({}) = 0
    BY <1>4, FS_EmptySet
  <2>2. kind \in DOMAIN Places => Places[kind] = {}
    BY <1>1, <1>3, <1>4
  <2>3. QED BY <1>4, <2>1, <2>2 DEF n, kind, P
<1>5. CASE n = 1
  <2>1. places = {P(1)} /\ Cardinality({P(1)}) = 1
    <3>1. places = {P(1)}
      BY <1>5
    <3>2. QED BY <3>1, FS_Singleton, Zenon
  <2>2. P(1) # "passphrase"
    BY <1>1, <1>2, <1>5
  <2>3. kind \in DOMAIN Places => Places[kind] = {P(1)}
    BY <1>1, <1>2, <1>3, <1>5
  <2>4. \A k \in 1..n : k = IF P(k) = "passphrase" THEN 2 ELSE 1
    BY <1>5, <2>2
  <2>5. Cardinality(places) = n /\ (kind \in DOMAIN Places => places = Places[kind])
    BY <1>5, <2>1, <2>3
  <2>6. QED BY <2>4, <2>5, Zenon DEF n, kind, P
<1>6. CASE n = 2
  <2>1. P(1) = "privateKey" /\ P(2) = "passphrase"
    BY <1>1, <1>2, <1>6
  <2>2. places = {"privateKey"} \cup {"passphrase"}
    <3>1. places = {P(1), P(2)}
      BY <1>6
    <3>2. QED BY <2>1, <3>1
  <2>3. Cardinality(places) = 2
    <3>1. IsFiniteSet({"privateKey"}) /\ Cardinality({"privateKey"}) = 1
      BY FS_Singleton
    <3>2. Cardinality({"privateKey"} \cup {"passphrase"}) = Cardinality({"privateKey"}) + 1
      <4>1. "passphrase" \notin {"privateKey"}
        OBVIOUS
      <4>2. QED BY <3>1, <4>1, FS_AddElement
    <3>3. QED BY ONLY <2>2, <3>1, <3>2
  <2>4. kind \notin DOMAIN Places
    BY <1>1, <1>3, <1>6
  <2>5. \A k \in 1..n : k = IF P(k) = "passphrase" THEN 2 ELSE 1
    BY <1>6, <2>1
  <2>6. QED BY <1>6, <2>3, <2>4, <2>5 DEF n, kind, P
<1>7. n = 0 \/ n = 1 \/ n = 2
  BY <1>1
<1>8. QED BY <1>4, <1>5, <1>6, <1>7

(* A hop of a resolved transport, and the values that were read for it.    *)
LEMMA HopLogin ==
  ASSUME IInv, phase = "done", NEW h \in DOMAIN Servers(transport)
  PROVE  LET login == ResolvedTransport(transport, values).hops[h].login
             server == Servers(transport)[h]
             n == Len(server.login.secrets)
         IN /\ DOMAIN login = {ReadOf(server, h, k).place : k \in 1..n}
            /\ \A place \in DOMAIN login :
                 \E k \in 1..n :
                   /\ ReadOf(server, h, k).place = place
                   /\ \E value \in held[Key(server.login.secrets[k])] \ {None} :
                        login[place] = Trimmed(value)
<1> DEFINE s == Servers(transport)
           reads == Reads(transport)
           n == Len(s[h].login.secrets)
           own == {i \in DOMAIN values : reads[i].hop = h}
           login == ResolvedTransport(transport, values).hops[h].login
<1>1. /\ TransportForm(transport) /\ ~NeedsNoResolution(transport)
      /\ Len(values) = Len(reads)
      /\ \A i \in 1..Len(values) :
           \E value \in held[Key(reads[i].ref)] \ {None} : values[i] = Trimmed(value)
  BY TransportIsFormed DEF IInv, ReadFromHeld
<1>2. DOMAIN values = 1..Len(reads) /\ h \in 1..Len(s)
  BY <1>1, ReadsForm DEF IInv, TypeOK
<1>3. login = [place \in {reads[i].place : i \in own} |->
                values[CHOOSE i \in own : reads[i].place = place]]
  BY Zenon DEF ResolvedTransport, ResolvedHop
<1> HIDE DEF login
<1>4. ASSUME NEW i \in own
      PROVE  \E k \in 1..n : reads[i] = ReadOf(s[h], h, k)
  <2>1. PICK g \in 1..Len(s) : \E k \in 1..Len(s[g].login.secrets) : reads[i] = ReadOf(s[g], g, k)
    BY <1>1, <1>2, ReadsForm
  <2>2. PICK k \in 1..Len(s[g].login.secrets) : reads[i] = ReadOf(s[g], g, k)
    BY <2>1
  <2>3. g = h
    BY <2>2 DEF ReadOf
  <2>4. QED BY <2>2, <2>3
<1>5. ASSUME NEW k \in 1..n
      PROVE  \E i \in own : reads[i] = ReadOf(s[h], h, k)
  <2>1. PICK i \in 1..Len(reads) : reads[i] = ReadOf(s[h], h, k)
    BY <1>1, <1>2, ReadsForm
  <2>2. i \in own
    BY <1>2, <2>1 DEF ReadOf
  <2>3. QED BY <2>1, <2>2
<1>6. DOMAIN login = {ReadOf(s[h], h, k).place : k \in 1..n}
  <2> HIDE DEF own, n
  <2>1. DOMAIN login = {reads[i].place : i \in own}
    BY <1>3
  <2>2. QED BY <1>4, <1>5, <2>1
<1>7. ASSUME NEW place \in DOMAIN login
      PROVE  \E k \in 1..n :
               /\ ReadOf(s[h], h, k).place = place
               /\ \E value \in held[Key(s[h].login.secrets[k])] \ {None} :
                    login[place] = Trimmed(value)
  <2> DEFINE i == CHOOSE i \in own : reads[i].place = place
  <2>1. i \in own /\ reads[i].place = place
    <3> HIDE DEF own
    <3>1. \E j \in own : reads[j].place = place
      BY <1>3
    <3>2. QED BY <3>1
  <2>2. login[place] = values[i]
    BY <1>3
  <2> HIDE DEF i
  <2>3. PICK k \in 1..n : reads[i] = ReadOf(s[h], h, k)
    BY <1>4, <2>1
  <2>4. reads[i].ref = s[h].login.secrets[k] /\ ReadOf(s[h], h, k).place = place
    <3>1. ReadOf(s[h], h, k).ref = s[h].login.secrets[k]
      BY DEF ReadOf
    <3>2. QED BY <2>1, <2>3, <3>1, Zenon
  <2>5. i \in 1..Len(values)
    BY <1>1, <1>2, <2>1
  <2>6. QED BY <1>1, <2>2, <2>4, <2>5
<1>8. QED BY <1>6, <1>7 DEF login

LEMMA DoneHasSecrets ==
  ASSUME IInv
  PROVE  HopsHaveTheirSecrets
<1> SUFFICES ASSUME phase = "done", NEW h \in DOMAIN Servers(transport)
             PROVE  LET hop == ResolvedTransport(transport, values).hops[h]
                        handles == Servers(transport)[h].login.secrets IN
                    /\ Cardinality(DOMAIN hop.login) = Len(handles)
                    /\ hop.kind \in DOMAIN Places => DOMAIN hop.login = Places[hop.kind]
                    /\ \A place \in DOMAIN hop.login :
                         LET ref == handles[IF place = "passphrase" THEN 2 ELSE 1] IN
                         \E value \in held[<<IF ref.service = None THEN DefaultService
                                             ELSE ref.service, ref.handle>>] \ {None} :
                           hop.login[place].text = value.text /\ ~hop.login[place].breaks
  BY Zenon DEF HopsHaveTheirSecrets
<1> DEFINE hop == ResolvedTransport(transport, values).hops[h]
           server == Servers(transport)[h]
           n == Len(server.login.secrets)
<1>1. /\ TransportForm(transport) /\ ~NeedsNoResolution(transport)
      /\ Len(values) = Len(Reads(transport))
      /\ \A i \in 1..Len(values) : ValidSecretHandle(Reads(transport)[i].ref)
  BY TransportIsFormed DEF IInv, ReadFromHeld
<1>2. h \in 1..Len(Servers(transport))
  BY <1>1, ReadsForm
<1>3. ServerForm(server)
  BY <1>1, <1>2, ServersForm
<1>4. hop.kind = server.login.kind
  BY DEF ResolvedTransport, ResolvedHop
<1>5. /\ DOMAIN hop.login = {ReadOf(server, h, k).place : k \in 1..n}
      /\ \A place \in DOMAIN hop.login :
           \E k \in 1..n :
             /\ ReadOf(server, h, k).place = place
             /\ \E value \in held[Key(server.login.secrets[k])] \ {None} :
                  hop.login[place] = Trimmed(value)
  BY HopLogin
<1>6. LET places == {ReadOf(server, h, k).place : k \in 1..n} IN
      /\ Cardinality(places) = n
      /\ server.login.kind \in DOMAIN Places => places = Places[server.login.kind]
      /\ \A k \in 1..n : k = IF ReadOf(server, h, k).place = "passphrase" THEN 2 ELSE 1
  BY <1>3, LoginPlaces
<1>7. ASSUME NEW k \in 1..n
      PROVE  held[Key(server.login.secrets[k])] \subseteq Secrets \cup {None}
  <2>1. PICK j \in 1..Len(Reads(transport)) : Reads(transport)[j] = ReadOf(server, h, k)
    BY <1>1, <1>2, ReadsForm
  <2>2. Reads(transport)[j].ref = server.login.secrets[k]
    BY <2>1 DEF ReadOf
  <2>3. server.login.secrets[k] \in Refs
    BY <1>1, <2>2, ReadRefs
  <2>4. QED BY <2>3 DEF IInv, TypeOK, Keys
<1> HIDE DEF hop, server
<1>8. ASSUME NEW place \in DOMAIN hop.login
      PROVE  LET ref == server.login.secrets[IF place = "passphrase" THEN 2 ELSE 1] IN
             \E value \in held[<<IF ref.service = None THEN DefaultService
                                 ELSE ref.service, ref.handle>>] \ {None} :
               hop.login[place].text = value.text /\ ~hop.login[place].breaks
  <2>1. PICK k \in 1..n : /\ ReadOf(server, h, k).place = place
                          /\ \E value \in held[Key(server.login.secrets[k])] \ {None} :
                               hop.login[place] = Trimmed(value)
    BY <1>5
  <2>2. k = IF place = "passphrase" THEN 2 ELSE 1
    BY <1>6, <2>1
  <2> DEFINE ref == server.login.secrets[k]
  <2>3. Key(ref) = <<IF ref.service = None THEN DefaultService ELSE ref.service, ref.handle>>
    BY DEF Key, ServiceName, AccountName
  <2>4. PICK value \in held[Key(ref)] \ {None} : hop.login[place] = Trimmed(value)
    BY <2>1
  <2>5. value \in Secrets
    BY <1>7
  <2>6. hop.login[place].text = value.text /\ ~hop.login[place].breaks
    BY <2>4, <2>5, TrimmedSecret
  <2>7. QED BY <2>2, <2>3, <2>4, <2>6
<1>9. QED BY <1>4, <1>5, <1>6, <1>8 DEF hop, server

(* Each hop of a resolved transport logs in with what its own handles held *)
(* at some time during the resolution.                                     *)
THEOREM SecretsReachTheirHops == Spec => []HopsHaveTheirSecrets
BY ResolutionsAreSound, DoneHasSecrets, PTL

-----------------------------------------------------------------------------
(* Short sequences, and what is shown of one server.                       *)

(* One element and none, mapped.                                           *)
LEMMA MappedShort ==
  ASSUME NEW F, NEW x
  PROVE  Mapped(F, <<x>>) = <<F[x]>> /\ Mapped(F, <<>>) = <<>>
BY DEF Mapped

(* A sequence that is there or not, mapped.                                *)
LEMMA IfForm ==
  ASSUME NEW T, NEW F, NEW x \in T, NEW c
  PROVE  If(c, <<x>>) \in Seq(T) /\ Mapped(F, If(c, <<x>>)) = If(c, <<F[x]>>)
<1>1. CASE c
  BY <1>1, MappedShort DEF If
<1>2. CASE ~c
  <2>1. If(c, <<x>>) = <<>> /\ If(c, <<F[x]>>) = <<>>
    BY <1>2, Zenon DEF If
  <2>2. <<>> \in Seq(T) /\ Mapped(F, <<>>) = <<>>
    BY MappedShort, EmptySeq
  <2>3. QED BY <2>1, <2>2
<1>3. QED BY <1>1, <1>2

(* What is shown of a server: found, logged in to if it asks for it, and   *)
(* used.                                                                   *)
Shown(s) ==
  <<<<"resolve", Endpoint(s)>>>> \o If(s.login.kind # "none", <<<<"auth", Absent>>>>)
    \o <<<<s.via, Endpoint(s)>>>>

(* MappedConcat for every two sequences at once.                           *)
LEMMA MapsConcats ==
  ASSUME NEW T, NEW F
  PROVE  \A x, y \in Seq(T) : Mapped(F, x \o y) = Mapped(F, x) \o Mapped(F, y)
<1> SUFFICES ASSUME NEW x \in Seq(T), NEW y \in Seq(T)
             PROVE  Mapped(F, x \o y) = Mapped(F, x) \o Mapped(F, y)
  OBVIOUS
<1>1. QED BY ONLY MappedConcat, x \in Seq(T), y \in Seq(T)

(* Three steps whose kinds and endpoints are those of a server show it.    *)
LEMMA ServerSteps ==
  ASSUME NEW T, NEW F, NEW s, NEW a \in T, NEW b \in T, NEW c \in T,
         F[a] = <<"resolve", Endpoint(s)>>, F[b] = <<"auth", Absent>>,
         F[c] = <<s.via, Endpoint(s)>>
  PROVE  LET steps == <<a>> \o If(s.login.kind # "none", <<b>>) \o <<c>>
         IN steps \in Seq(T) /\ Mapped(F, steps) = Shown(s)
<1> DEFINE x == <<a>>
           y == If(s.login.kind # "none", <<b>>)
           z == <<c>>
<1>1. x \in Seq(T) /\ z \in Seq(T)
  OBVIOUS
<1>2. y \in Seq(T) /\ Mapped(F, y) = If(s.login.kind # "none", <<F[b]>>)
  BY IfForm
<1>3. Mapped(F, x) = <<F[a]>> /\ Mapped(F, z) = <<F[c]>>
  BY MappedShort
<1>4. Shown(s) = (Mapped(F, x) \o Mapped(F, y)) \o Mapped(F, z)
  <2> HIDE DEF x, y, z
  <2>1. QED BY <1>2, <1>3, Zenon DEF Shown
<1>5. x \o y \in Seq(T) /\ (x \o y) \o z \in Seq(T)
  <2> HIDE DEF x, y, z
  <2>1. QED BY <1>1, <1>2, ConcatProperties
<1>6. Mapped(F, (x \o y) \o z) = (Mapped(F, x) \o Mapped(F, y)) \o Mapped(F, z)
  <2> HIDE DEF x, y, z
  <2>1. \A p, q \in Seq(T) : Mapped(F, p \o q) = Mapped(F, p) \o Mapped(F, q)
    BY MapsConcats
  <2>2. QED BY ONLY <1>1, <1>2, <1>5, <2>1, Zenon
<1>7. QED BY <1>4, <1>5, <1>6

(* steps is what is shown of the servers, then p, and then q if c.         *)
Shows(steps, shown, p, q, c) ==
  \E S : /\ shown \in Seq(S) /\ p \in S /\ q \in S
         /\ steps = shown \o (<<p>> \o If(c, <<q>>))

(* What follows what is shown of the servers.                              *)
LEMMA TailOf ==
  ASSUME NEW steps, NEW shown, NEW p, NEW q, NEW c, Shows(steps, shown, p, q, c)
  PROVE  LET tail == SubSeq(steps, Len(shown) + 1, Len(steps)) IN
         /\ IsPrefix(shown, steps)
         /\ Len(tail) = IF c THEN 2 ELSE 1
         /\ DOMAIN tail = IF c THEN {1, 2} ELSE {1}
         /\ tail[1] = p
         /\ c => tail[2] = q
<1> DEFINE n == Len(shown)
           m == IF c THEN 2 ELSE 1
           u == <<p>> \o If(c, <<q>>)
           tail == SubSeq(steps, Len(shown) + 1, Len(steps))
<1>0. PICK S : /\ shown \in Seq(S) /\ p \in S /\ q \in S
               /\ steps = shown \o u
  BY Zenon DEF Shows
<1>1. u \in Seq(S) /\ Len(u) = m /\ u[1] = p /\ (c => u[2] = q)
  <2>1. CASE c
    <3>1. <<p>> \in Seq(S) /\ <<q>> \in Seq(S) /\ Len(<<p>>) = 1 /\ Len(<<q>>) = 1
      BY <1>0
    <3>2. <<p>> \o <<q>> \in Seq(S) /\ Len(<<p>> \o <<q>>) = 2
          /\ (<<p>> \o <<q>>)[1] = p /\ (<<p>> \o <<q>>)[2] = q
      BY <3>1, ConcatProperties
    <3>3. u = <<p>> \o <<q>>
      BY <2>1 DEF If
    <3>4. QED BY <2>1, <3>2, <3>3
  <2>2. CASE ~c
    <3>1. u = <<p>> \o <<>>
      BY <2>2, Zenon DEF If
    <3>2. <<p>> \in Seq(S) /\ <<p>> \o <<>> = <<p>>
      BY <1>0, ConcatEmptySeq
    <3>3. u = <<p>>
      BY <3>1, <3>2, Zenon
    <3>5. u \in Seq(S) /\ Len(u) = 1 /\ u[1] = p
      <4> HIDE DEF u
      <4>1. QED BY <1>0, <3>3
    <3>4. QED BY <2>2, <3>5
  <2>3. QED BY <2>1, <2>2
<1> HIDE DEF u
<1>2. /\ steps \in Seq(S) /\ Len(steps) = n + m /\ n \in Nat
      /\ \A i \in 1..(n + m) : steps[i] = IF i <= n THEN shown[i] ELSE u[i - n]
  <2>1. shown \o u = steps /\ u \in Seq(S) /\ Len(u) = m /\ m \in Nat
    BY <1>0, <1>1 DEF u
  <2>2. /\ shown \o u \in Seq(S) /\ Len(shown \o u) = Len(shown) + Len(u)
        /\ \A i \in 1..(Len(shown) + Len(u)) :
             (shown \o u)[i] = IF i <= Len(shown) THEN shown[i] ELSE u[i - Len(shown)]
    BY <1>0, <2>1, ConcatProperties
  <2>3. Len(shown) \in Nat
    BY <1>0, LenProperties
  <2>4. QED BY <2>1, <2>2, <2>3
<1>3. /\ tail \in Seq(S) /\ Len(tail) = m /\ \A i \in 1..m : tail[i] = steps[n + i]
  <2>1. n + 1 \in Int /\ n + m \in Int /\ \A i \in (n + 1)..(n + m) : steps[i] \in S
    BY <1>2, ElementOfSeq
  <2>2. /\ tail \in Seq(S)
        /\ Len(tail) = IF n + 1 <= n + m THEN (n + m) - (n + 1) + 1 ELSE 0
        /\ \A i \in 1..((n + m) - (n + 1) + 1) : tail[i] = steps[(n + 1) + i - 1]
    <3>1. tail = SubSeq(steps, n + 1, n + m)
      BY <1>2
    <3> HIDE DEF tail, n, m
    <3>2. QED BY ONLY <2>1, <3>1, SubSeqProperties
  <2> HIDE DEF tail, m
  <2>3. m \in {1, 2} /\ n \in Nat
    BY <1>2 DEF m
  <2>4. Len(tail) = m
    BY ONLY <2>2, <2>3
  <2>5. ASSUME NEW i \in 1..m PROVE tail[i] = steps[n + i]
    <3>1. i \in 1..((n + m) - (n + 1) + 1) /\ (n + 1) + i - 1 = n + i
      BY ONLY <2>3, i \in 1..m
    <3>2. QED BY <2>2, <3>1
  <2>6. QED BY <2>2, <2>4, <2>5
<1>4. DOMAIN tail = 1..m
  BY <1>3
<1>5. tail[1] = p /\ (c => tail[2] = q)
  <2> HIDE DEF tail, n
  <2>1. 1 \in 1..m /\ n + 1 \in 1..(n + m) /\ ~(n + 1 <= n) /\ (n + 1) - n = 1
    BY <1>2
  <2>2. c => 2 \in 1..m /\ n + 2 \in 1..(n + m) /\ ~(n + 2 <= n) /\ (n + 2) - n = 2
    BY <1>2
  <2> HIDE DEF m
  <2>4. tail[1] = steps[n + 1] /\ steps[n + 1] = u[(n + 1) - n]
    BY ONLY <1>2, <1>3, <2>1
  <2>5. c => tail[2] = steps[n + 2] /\ steps[n + 2] = u[(n + 2) - n]
    BY ONLY <1>2, <1>3, <2>2
  <2>3. QED BY ONLY <1>1, <2>1, <2>2, <2>4, <2>5
<1>6. SubSeq(steps, 1, n) = shown
  <2>1. \A i \in 1..n : steps[i] \in S /\ steps[i] = shown[i]
    BY <1>2, ElementOfSeq
  <2>2. /\ SubSeq(steps, 1, n) \in Seq(S)
        /\ Len(SubSeq(steps, 1, n)) = IF 1 <= n THEN n - 1 + 1 ELSE 0
        /\ \A i \in 1..(n - 1 + 1) : SubSeq(steps, 1, n)[i] = steps[1 + i - 1]
    <3> HIDE DEF n
    <3>1. 1 \in Int /\ n \in Int
      BY <1>2
    <3>2. QED BY ONLY <2>1, <3>1, SubSeqProperties
  <2>3. /\ Len(SubSeq(steps, 1, n)) = Len(shown)
        /\ \A i \in 1..Len(SubSeq(steps, 1, n)) : SubSeq(steps, 1, n)[i] = shown[i]
    BY <1>2, <2>1, <2>2
  <2>4. QED BY <1>0, <2>2, <2>3, SeqEqual
<1>7. SubSeq(shown, 1, n) = shown
  BY <1>0, SubSeqFull
<1>8. IsPrefix(shown, steps)
  BY <1>2, <1>6, <1>7 DEF IsPrefix
<1>9. Len(tail) = (IF c THEN 2 ELSE 1) /\ DOMAIN tail = IF c THEN {1, 2} ELSE {1}
  <2> HIDE DEF tail
  <2>1. m = (IF c THEN 2 ELSE 1) /\ 1..2 = {1, 2} /\ 1..1 = {1}
    OBVIOUS
  <2> HIDE DEF m
  <2>2. QED BY <1>3, <1>4, <2>1
<1>10. QED BY <1>5, <1>8, <1>9, Zenon

(* Appending with \o.                                                      *)
LEMMA PutLast ==
  ASSUME NEW T, NEW s \in Seq(T), NEW e \in T
  PROVE  LET r == s \o <<e>> IN
         /\ r \in Seq(T) /\ Len(r) = Len(s) + 1 /\ r[Len(s) + 1] = e
         /\ \A i \in 1..Len(s) : r[i] = s[i]
<1>1. Append(s, e) = s \o <<e>>
  BY AppendIsConcat
<1>2. /\ Append(s, e) \in Seq(T) /\ Len(Append(s, e)) = Len(s) + 1
      /\ Append(s, e)[Len(s) + 1] = e
      /\ \A i \in 1..Len(s) : Append(s, e)[i] = s[i]
  BY AppendProperties
<1>3. QED BY <1>1, <1>2, Zenon

(* Four steps are each put after the other.                                *)
LEMMA FourSteps ==
  ASSUME NEW a, NEW b, NEW c, NEW d
  PROVE  <<a, b, c, d>> = ((<<a>> \o <<b>>) \o <<c>>) \o <<d>>
<1> DEFINE T == {a, b, c, d}
           ta == <<a>>
           tb == <<b>>
           tc == <<c>>
           td == <<d>>
           l == ta \o tb
           m == l \o tc
           v == m \o td
           w == <<a, b, c, d>>
<1>1. /\ ta \in Seq(T) /\ tb \in Seq(T) /\ tc \in Seq(T) /\ td \in Seq(T)
      /\ Len(ta) = 1 /\ Len(tb) = 1 /\ Len(tc) = 1 /\ Len(td) = 1
      /\ ta[1] = a /\ tb[1] = b /\ tc[1] = c /\ td[1] = d
  OBVIOUS
<1>2. w \in Seq(T) /\ Len(w) = 4 /\ w[1] = a /\ w[2] = b /\ w[3] = c /\ w[4] = d
  OBVIOUS
<1>0. a \in T /\ b \in T /\ c \in T /\ d \in T
  OBVIOUS
<1> HIDE DEF ta, tb, tc, td, w, T
<1>3. l \in Seq(T) /\ Len(l) = 2 /\ l[1] = a /\ l[2] = b
  <2>1. ta \in Seq(T) /\ b \in T /\ l = ta \o <<b>>
    BY <1>0, <1>1 DEF tb
  <2>2. /\ l \in Seq(T) /\ Len(l) = Len(ta) + 1 /\ l[Len(ta) + 1] = b
        /\ \A i \in 1..Len(ta) : l[i] = ta[i]
    <3> HIDE DEF l
    <3>1. QED BY ONLY <2>1, PutLast, Zenon
  <2> HIDE DEF l
  <2>3. QED BY ONLY <2>2, <1>1
<1> HIDE DEF l
<1>4. m \in Seq(T) /\ Len(m) = 3 /\ m[1] = a /\ m[2] = b /\ m[3] = c
  <2>1. l \in Seq(T) /\ c \in T /\ m = l \o <<c>>
    BY <1>0, <1>3 DEF tc
  <2>2. /\ m \in Seq(T) /\ Len(m) = Len(l) + 1 /\ m[Len(l) + 1] = c
        /\ \A i \in 1..Len(l) : m[i] = l[i]
    <3> HIDE DEF m
    <3>1. QED BY ONLY <2>1, PutLast, Zenon
  <2> HIDE DEF m
  <2>3. QED BY ONLY <2>2, <1>3
<1> HIDE DEF m
<1>5. v \in Seq(T) /\ Len(v) = 4 /\ v[1] = a /\ v[2] = b /\ v[3] = c /\ v[4] = d
  <2>1. m \in Seq(T) /\ d \in T /\ v = m \o <<d>>
    BY <1>0, <1>4 DEF td
  <2>2. /\ v \in Seq(T) /\ Len(v) = Len(m) + 1 /\ v[Len(m) + 1] = d
        /\ \A i \in 1..Len(m) : v[i] = m[i]
    <3> HIDE DEF v
    <3>1. QED BY ONLY <2>1, PutLast, Zenon
  <2> HIDE DEF v
  <2>3. QED BY ONLY <2>2, <1>4
<1>6. v = w
  <2> HIDE DEF v
  <2>1. \A i \in 1..4 : i = 1 \/ i = 2 \/ i = 3 \/ i = 4
    OBVIOUS
  <2>2. \A i \in 1..Len(v) : v[i] = w[i]
    BY <1>2, <1>5, <2>1
  <2>3. QED BY <1>2, <1>5, <2>2, SeqEqual
<1>7. QED BY <1>6, Zenon DEF w, v, m, l, ta, tb, tc, td

-----------------------------------------------------------------------------
(* The plans.                                                              *)

(* What PlanShowsRoute looks at in a plan.                                 *)
Pairs(steps) == [i \in DOMAIN steps |-> <<steps[i].kind, steps[i].endpoint>>]

(* The pairs of some steps are the steps mapped.                           *)
LEMMA PairsAreMapped ==
  ASSUME NEW T, NEW r \in Seq(T)
  PROVE  Pairs(r) = Mapped([x \in T |-> <<x.kind, x.endpoint>>], r)
<1>1. \A i \in DOMAIN r : r[i] \in T
  BY LenProperties, ElementOfSeq
<1>2. QED BY <1>1 DEF Pairs, Mapped

(* What is shown of all servers of a transport.                            *)
ShownOf(t) == FlattenSeq([h \in DOMAIN Servers(t) |-> Shown(Servers(t)[h])])

(* A plan that shows its servers first shows its route.                    *)
LEMMA ShowsFrom ==
  ASSUME NEW t, NEW T, NEW x \in T, NEW y \in T, NEW c,
         NEW servers \in Seq(T),
         ShownOf(t) = Mapped([z \in T |-> <<z.kind, z.endpoint>>], servers)
  PROVE  Shows(Pairs(servers \o (<<x>> \o If(c, <<y>>))), ShownOf(t),
               <<x.kind, x.endpoint>>, <<y.kind, y.endpoint>>, c)
<1> DEFINE F == [z \in T |-> <<z.kind, z.endpoint>>]
           S == {F[z] : z \in T}
           a == <<x>>
           b == If(c, <<y>>)
<1>1. F[x] = <<x.kind, x.endpoint>> /\ F[y] = <<y.kind, y.endpoint>> /\ F[x] \in S /\ F[y] \in S
  OBVIOUS
<1>2. ShownOf(t) = Mapped(F, servers)
  OBVIOUS
<1>3. \A r \in Seq(T) : Pairs(r) = Mapped(F, r)
  BY PairsAreMapped
<1> HIDE DEF F
<1>4. ShownOf(t) \in Seq(S)
  BY <1>2, MappedForm
<1> HIDE DEF S
<1>5. a \in Seq(T) /\ Mapped(F, a) = <<F[x]>>
  BY MappedShort
<1>6. b \in Seq(T) /\ Mapped(F, b) = If(c, <<F[y]>>)
  BY IfForm
<1> HIDE DEF a, b
<1>7. Pairs(servers \o (a \o b)) = Mapped(F, servers) \o (Mapped(F, a) \o Mapped(F, b))
  <2>1. a \o b \in Seq(T) /\ servers \o (a \o b) \in Seq(T)
    BY <1>5, <1>6, ConcatProperties
  <2>2. \A p, q \in Seq(T) : Mapped(F, p \o q) = Mapped(F, p) \o Mapped(F, q)
    BY MapsConcats
  <2>3. QED BY <1>3, <1>5, <1>6, <2>1, <2>2
<1>8. Pairs(servers \o (a \o b)) = ShownOf(t) \o (<<F[x]>> \o If(c, <<F[y]>>))
  BY <1>2, <1>5, <1>6, <1>7, Zenon
<1>9. Shows(Pairs(servers \o (a \o b)), ShownOf(t), F[x], F[y], c)
  BY <1>1, <1>4, <1>8, Zenon DEF Shows
<1>10. QED BY <1>1, <1>9, Zenon DEF a, b

(* plan_chain                                                              *)
LEMMA ChainShows ==
  ASSUME NEW t, TransportForm(t), t.kind = "chain", ValidChain(t)
  PROVE  Shows(Pairs(PlanChain(t).steps), ShownOf(t),
               <<"directTcp", t.target>>, <<"tls", Absent>>, t.tls)
<1> DEFINE hs == t.hops
           n == Len(hs)
           R(i) == Step(<<"resolve", hs[i].name>>, "resolve", Endpoint(hs[i].server))
           A(i) == Step(<<"auth", hs[i].name>>, "auth", Absent)
           U(i) == Step(hs[i].name, hs[i].server.via, Endpoint(hs[i].server))
           X == Step("forward target", "directTcp", t.target)
           Y == Step("tls handshake", "tls", Absent)
           V == UNION {{R(i), A(i), U(i)} : i \in 1..n}
           T == V \cup {X, Y}
           F == [z \in T |-> <<z.kind, z.endpoint>>]
           seqs == [i \in 1..n |-> HopSteps(hs[i])]
           images == [i \in 1..n |-> Shown(hs[i].server)]
<1>1. /\ n \in Nat /\ n > 0 /\ DOMAIN hs = 1..n
      /\ Servers(t) = [i \in 1..n |-> hs[i].server]
  <2>1. n \in Nat /\ DOMAIN hs = 1..n
    BY Zenon DEF TransportForm, IsSequence
  <2>2. n >= 2
    BY Zenon DEF ValidChain
  <2>3. Servers(t) = [i \in 1..n |-> hs[i].server]
    BY <2>1, Zenon DEF Servers
  <2> HIDE DEF n
  <2>4. QED BY <2>1, <2>2, <2>3
<1>2. ASSUME NEW i \in 1..n
      PROVE  HopSteps(hs[i]) \in Seq(T) /\ Mapped(F, HopSteps(hs[i])) = Shown(hs[i].server)
  <2>1. R(i) \in T /\ A(i) \in T /\ U(i) \in T
    <3>1. {R(i), A(i), U(i)} \in {{R(k), A(k), U(k)} : k \in 1..n}
      OBVIOUS
    <3>2. QED BY <3>1
  <2>2. /\ R(i).kind = "resolve" /\ R(i).endpoint = Endpoint(hs[i].server)
        /\ A(i).kind = "auth" /\ A(i).endpoint = Absent
        /\ U(i).kind = hs[i].server.via /\ U(i).endpoint = Endpoint(hs[i].server)
    BY DEF Step
  <2>3. HopSteps(hs[i]) = <<R(i)>> \o If(hs[i].server.login.kind # "none", <<A(i)>>) \o <<U(i)>>
    BY Zenon DEF HopSteps
  <2> HIDE DEF R, A, U, T, V
  <2>4. /\ F[R(i)] = <<"resolve", Endpoint(hs[i].server)>>
        /\ F[A(i)] = <<"auth", Absent>>
        /\ F[U(i)] = <<hs[i].server.via, Endpoint(hs[i].server)>>
    BY <2>1, <2>2
  <2> HIDE DEF F
  <2>5. LET steps == <<R(i)>> \o If(hs[i].server.login.kind # "none", <<A(i)>>) \o <<U(i)>>
        IN steps \in Seq(T) /\ Mapped(F, steps) = Shown(hs[i].server)
    BY <2>1, <2>4, ServerSteps
  <2>6. QED BY <2>3, <2>5, Zenon
<1> HIDE DEF T, F, V
<1>3. seqs \in Seq(Seq(T)) /\ Len(seqs) = n /\ Len(images) = n
  BY <1>1, <1>2
<1>4. \A i \in 1..n : images[i] = Mapped(F, seqs[i])
  BY <1>2
<1>5. FlattenSeq(seqs) \in Seq(T) /\ Mapped(F, FlattenSeq(seqs)) = FlattenSeq(images)
  <2> HIDE DEF seqs, images
  <2>1. FlattenSeq(seqs) \in Seq(T)
    BY <1>3, FlattenElements
  <2>2. Mapped(F, FlattenSeq(seqs)) = FlattenSeq(images)
    BY <1>1, <1>3, <1>4, FlattenMapped
  <2>3. QED BY <2>1, <2>2
<1>6. ShownOf(t) = FlattenSeq(images)
  <2>1. DOMAIN Servers(t) = 1..n /\ \A i \in 1..n : Servers(t)[i] = hs[i].server
    BY <1>1
  <2>2. [h \in DOMAIN Servers(t) |-> Shown(Servers(t)[h])] = images
    BY <2>1
  <2>3. QED BY <2>2 DEF ShownOf
<1>7. PlanChain(t).steps = FlattenSeq(seqs) \o (<<X>> \o If(t.tls, <<Y>>))
  <2>1. FlattenSeq([i \in DOMAIN hs |-> HopSteps(hs[i])]) = FlattenSeq(seqs)
    BY <1>1
  <2>2. PlanChain(t).steps
          = FlattenSeq([i \in DOMAIN hs |-> HopSteps(hs[i])]) \o TargetSteps(t.target, t.tls)
    BY DEF PlanChain
  <2>3. QED BY <2>1, <2>2, Zenon DEF TargetSteps
<1>8. X \in T /\ Y \in T
  <2> HIDE DEF V, X, Y
  <2>1. QED BY DEF T
<1>9. X.kind = "directTcp" /\ X.endpoint = t.target /\ Y.kind = "tls" /\ Y.endpoint = Absent
  BY DEF Step
<1> HIDE DEF X, Y, seqs, images
<1>10. Shows(Pairs(FlattenSeq(seqs) \o (<<X>> \o If(t.tls, <<Y>>))), ShownOf(t),
             <<X.kind, X.endpoint>>, <<Y.kind, Y.endpoint>>, t.tls)
  BY <1>5, <1>6, <1>8, ShowsFrom DEF F
<1>11. QED BY <1>7, <1>9, <1>10, Zenon

(* One server is shown alone.                                              *)
LEMMA ShownAlone ==
  ASSUME NEW t, t.kind # "chain"
  PROVE  ShownOf(t) = Shown(t.server)
<1> DEFINE images == [h \in DOMAIN Servers(t) |-> Shown(Servers(t)[h])]
<1>1. Servers(t) = <<t.server>>
  BY Zenon DEF Servers
<1>2. Len(images) = 1 /\ images[1] = Shown(t.server)
  BY <1>1
<1>3. FlattenSeq(images) = images[1]
  <2> HIDE DEF images
  <2>1. QED BY <1>2, FlattenOne
<1>4. QED BY <1>2, <1>3 DEF ShownOf

(* plan_single_proxy                                                       *)
LEMMA ProxyShows ==
  ASSUME NEW t, t.kind # "chain", PlanSingleProxy(t) # Absent
  PROVE  Shows(Pairs(PlanSingleProxy(t).steps), ShownOf(t),
               <<"directTcp", t.target>>, <<"tls", Absent>>, t.tls)
<1> DEFINE s == t.server
           R == Step("resolve proxy", "resolve", Endpoint(s))
           A == Step("proxy auth", "auth", Absent)
           U == Step(IF t.name = Absent THEN "proxy" ELSE t.name, s.via, Endpoint(s))
           X == Step("forward target", "directTcp", t.target)
           Y == Step("tls handshake", "tls", Absent)
           T == {R, A, U, X, Y}
           F == [z \in T |-> <<z.kind, z.endpoint>>]
           steps == <<R>> \o If(s.login.kind # "none", <<A>>) \o <<U>>
<1>1. PlanSingleProxy(t).steps = steps \o (<<X>> \o If(t.tls, <<Y>>))
  <2>1. PlanSingleProxy(t)
          = [target |-> t.target, tls |-> t.tls, steps |-> steps \o TargetSteps(t.target, t.tls)]
    BY Zenon DEF PlanSingleProxy
  <2>2. PlanSingleProxy(t).steps = steps \o TargetSteps(t.target, t.tls)
    <3> HIDE DEF steps
    <3>1. QED BY <2>1
  <2>3. QED BY <2>2, Zenon DEF TargetSteps
<1>2. R \in T /\ A \in T /\ U \in T /\ X \in T /\ Y \in T
  OBVIOUS
<1>3. /\ R.kind = "resolve" /\ R.endpoint = Endpoint(s)
      /\ A.kind = "auth" /\ A.endpoint = Absent
      /\ U.kind = s.via /\ U.endpoint = Endpoint(s)
      /\ X.kind = "directTcp" /\ X.endpoint = t.target
      /\ Y.kind = "tls" /\ Y.endpoint = Absent
  BY DEF Step
<1> HIDE DEF R, A, U, X, Y, T
<1>4. /\ F[R] = <<"resolve", Endpoint(s)>> /\ F[A] = <<"auth", Absent>>
      /\ F[U] = <<s.via, Endpoint(s)>>
  BY <1>2, <1>3
<1> HIDE DEF F
<1>5. steps \in Seq(T) /\ Mapped(F, steps) = Shown(s)
  <2>1. R \in T /\ A \in T /\ U \in T
    BY <1>2
  <2>2. LET all == <<R>> \o If(s.login.kind # "none", <<A>>) \o <<U>>
        IN all \in Seq(T) /\ Mapped(F, all) = Shown(s)
    BY ONLY <2>1, <1>4, ServerSteps
  <2>3. QED BY <2>2, Zenon
<1> HIDE DEF steps, s
<1>6. Shows(Pairs(steps \o (<<X>> \o If(t.tls, <<Y>>))), ShownOf(t),
            <<X.kind, X.endpoint>>, <<Y.kind, Y.endpoint>>, t.tls)
  BY <1>2, <1>5, ShownAlone, ShowsFrom DEF F, s
<1>7. QED BY <1>1, <1>3, <1>6, Zenon

(* plan_ssh_tunnel                                                         *)
LEMMA TunnelShows ==
  ASSUME NEW t, t.kind = "sshTunnel", t.server.login.kind # "none", t.server.via = "ssh"
  PROVE  Shows(Pairs(PlanSshTunnel(t).steps), ShownOf(t),
               <<"directTcp", t.target>>, <<"auth", Absent>>, t.server.strict)
<1> DEFINE s == t.server
           R == Step("resolve ssh host", "resolve", Endpoint(s))
           A == Step("ssh auth", "auth", Absent)
           U == Step(IF t.name = Absent THEN "ssh tunnel" ELSE t.name, "ssh", Endpoint(s))
           X == Step("forward target", "directTcp", t.target)
           Y == Step("ssh host key", "auth", Absent)
           T == {R, A, U, X, Y}
           F == [z \in T |-> <<z.kind, z.endpoint>>]
           steps == <<R>> \o <<A>> \o <<U>>
           more == If(s.strict, <<Y>>)
<1>1. PlanSshTunnel(t).steps = <<R, A, U, X>> \o more
  BY DEF PlanSshTunnel
<1>2. R \in T /\ A \in T /\ U \in T /\ X \in T /\ Y \in T
  OBVIOUS
<1>3. /\ R.kind = "resolve" /\ R.endpoint = Endpoint(s)
      /\ A.kind = "auth" /\ A.endpoint = Absent
      /\ U.kind = s.via /\ U.endpoint = Endpoint(s)
      /\ X.kind = "directTcp" /\ X.endpoint = t.target
      /\ Y.kind = "auth" /\ Y.endpoint = Absent
  BY DEF Step
<1> HIDE DEF R, A, U, X, Y, T
<1>4. /\ F[R] = <<"resolve", Endpoint(s)>> /\ F[A] = <<"auth", Absent>>
      /\ F[U] = <<s.via, Endpoint(s)>>
  BY <1>2, <1>3
<1> HIDE DEF F
<1>5. steps \in Seq(T) /\ Mapped(F, steps) = Shown(s)
  <2>1. If(s.login.kind # "none", <<A>>) = <<A>>
    BY Zenon DEF If
  <2>2. LET all == <<R>> \o If(s.login.kind # "none", <<A>>) \o <<U>>
        IN all \in Seq(T) /\ Mapped(F, all) = Shown(s)
    BY <1>2, <1>4, ServerSteps
  <2>3. QED BY <2>1, <2>2, Zenon
<1>6. <<R, A, U, X>> \o more = steps \o (<<X>> \o more)
  <2>1. more \in Seq(T)
    BY <1>2, IfForm
  <2> DEFINE one == <<X>>
  <2>2. steps \in Seq(T) /\ one \in Seq(T)
    BY <1>2, <1>5
  <2>3. <<R, A, U, X>> = steps \o one
    BY FourSteps
  <2> HIDE DEF one, steps, more
  <2>4. (steps \o one) \o more = steps \o (one \o more)
    BY ONLY <2>1, <2>2, ConcatAssociative
  <2>5. QED BY <2>3, <2>4, Zenon DEF one
<1> HIDE DEF steps
<1>7. Shows(Pairs(steps \o (<<X>> \o If(s.strict, <<Y>>))), ShownOf(t),
            <<X.kind, X.endpoint>>, <<Y.kind, Y.endpoint>>, s.strict)
  <2>1. ShownOf(t) = Mapped(F, steps)
    BY <1>5, ShownAlone
  <2> HIDE DEF s, more
  <2>2. QED BY <1>2, <1>5, <2>1, ShowsFrom DEF F
<1>8. QED BY <1>1, <1>3, <1>6, <1>7, Zenon

(* Whichever of the three it is.                                           *)
LEMMA PlanForm ==
  ASSUME NEW t, TransportForm(t), ~NeedsNoResolution(t), Plan(t) # Absent
  PROVE  LET tls == t.kind # "sshTunnel" /\ t.tls IN
         /\ Plan(t).target = t.target /\ Plan(t).tls = tls
         /\ Shows(Pairs(Plan(t).steps), ShownOf(t), <<"directTcp", t.target>>,
                  <<IF t.kind = "sshTunnel" THEN "auth" ELSE "tls", Absent>>,
                  IF t.kind = "sshTunnel" THEN t.server.strict ELSE t.tls)
<1>1. t.kind \in {"sshTunnel", "socks5Proxy", "httpConnectProxy", "chain"}
      /\ (t.tls <=> TRUE) = t.tls /\ ValidTransport(t)
  BY DEF TransportForm, NeedsNoResolution, Kinds, Plan
<1>2. CASE t.kind = "sshTunnel"
  <2>1. Plan(t) = PlanSshTunnel(t)
    BY <1>1, <1>2 DEF Plan
  <2>2. t.server.login.kind # "none" /\ t.server.via = "ssh"
    BY <1>2 DEF TransportForm, ServerForm
  <2>3. Plan(t).target = t.target /\ Plan(t).tls = FALSE
    <3>1. \A steps : LET p == [target |-> t.target, tls |-> FALSE, steps |-> steps]
                      IN p.target = t.target /\ p.tls = FALSE
      OBVIOUS
    <3>2. QED BY <2>1, <3>1, Zenon DEF PlanSshTunnel
  <2>4. Shows(Pairs(Plan(t).steps), ShownOf(t), <<"directTcp", t.target>>, <<"auth", Absent>>,
              t.server.strict)
    BY <1>2, <2>1, <2>2, TunnelShows
  <2>5. QED BY <1>2, <2>3, <2>4
<1>3. CASE t.kind \in {"socks5Proxy", "httpConnectProxy"}
  <2>1. Plan(t) = PlanSingleProxy(t)
    BY <1>1, <1>3 DEF Plan
  <2>2. Plan(t).target = t.target /\ Plan(t).tls = t.tls
    <3>1. ~(Absent \in {t.target.host, t.target.port})
      BY <2>1 DEF PlanSingleProxy
    <3>2. \A steps : LET p == [target |-> t.target, tls |-> t.tls, steps |-> steps]
                      IN p.target = t.target /\ p.tls = t.tls
      OBVIOUS
    <3>3. QED BY <2>1, <3>1, <3>2, Zenon DEF PlanSingleProxy
  <2>3. Shows(Pairs(Plan(t).steps), ShownOf(t), <<"directTcp", t.target>>, <<"tls", Absent>>, t.tls)
    BY <1>3, <2>1, ProxyShows
  <2>4. QED BY <1>1, <1>3, <2>2, <2>3
<1>4. CASE t.kind = "chain"
  <2>1. Plan(t) = PlanChain(t) /\ ValidChain(t)
    BY <1>1, <1>4 DEF Plan, ValidTransport
  <2>2. Plan(t).target = t.target /\ Plan(t).tls = t.tls
    BY <2>1 DEF PlanChain
  <2>3. Shows(Pairs(Plan(t).steps), ShownOf(t), <<"directTcp", t.target>>, <<"tls", Absent>>, t.tls)
    BY <1>4, <2>1, ChainShows
  <2>4. QED BY <1>1, <1>4, <2>2, <2>3
<1>5. QED BY <1>1, <1>2, <1>3, <1>4

(* The property, of a transport as its type allows it.                     *)
LEMMA RouteIsShown ==
  ASSUME TransportForm(transport)
  PROVE  PlanShowsRoute
<1> SUFFICES ASSUME Plan(transport) # Absent, ~NeedsNoResolution(transport)
             PROVE  LET plan == Plan(transport)
                        route == ResolvedTransport(transport, <<>>)
                        shown == FlattenSeq([h \in DOMAIN route.hops |->
                          LET hop == route.hops[h]
                              at == [host |-> hop.host, port |-> hop.port] IN
                          <<<<"resolve", at>>>>
                            \o (IF hop.kind = "none" THEN <<>> ELSE <<<<"auth", Absent>>>>)
                            \o <<<<hop.via, at>>>>])
                        steps == [i \in DOMAIN plan.steps |->
                                   <<plan.steps[i].kind, plan.steps[i].endpoint>>]
                        tail == SubSeq(steps, Len(shown) + 1, Len(steps))
                    IN /\ plan.target = route.target /\ plan.tls = route.tls
                       /\ IsPrefix(shown, steps)
                       /\ tail[1] = <<"directTcp", route.target>>
                       /\ (\E i \in DOMAIN tail : tail[i][1] = "tls") <=> route.tls
                       /\ transport.kind = "sshTunnel" =>
                            (Len(tail) = 2 <=> route.hops[1].strict)
                       /\ Len(tail) = 2 => tail[2][1] = IF transport.kind = "sshTunnel"
                                                          THEN "auth" ELSE "tls"
  BY Zenon DEF PlanShowsRoute
<1> DEFINE t == transport
           plan == Plan(t)
           route == ResolvedTransport(t, <<>>)
           shown == FlattenSeq([h \in DOMAIN route.hops |->
                      LET hop == route.hops[h]
                          at == [host |-> hop.host, port |-> hop.port] IN
                      <<<<"resolve", at>>>>
                        \o (IF hop.kind = "none" THEN <<>> ELSE <<<<"auth", Absent>>>>)
                        \o <<<<hop.via, at>>>>])
           steps == Pairs(plan.steps)
           tail == SubSeq(steps, Len(shown) + 1, Len(steps))
           ssh == t.kind = "sshTunnel"
           q == <<IF ssh THEN "auth" ELSE "tls", Absent>>
           c == IF ssh THEN t.server.strict ELSE t.tls
<1>1. route.target = t.target /\ route.tls = (~ssh /\ t.tls)
  BY DEF ResolvedTransport
<1>2. /\ DOMAIN route.hops = DOMAIN Servers(t)
      /\ \A h \in DOMAIN Servers(t) :
           /\ route.hops[h].host = Servers(t)[h].host /\ route.hops[h].port = Servers(t)[h].port
           /\ route.hops[h].kind = Servers(t)[h].login.kind
           /\ route.hops[h].via = Servers(t)[h].via
           /\ route.hops[h].strict = Servers(t)[h].strict
  BY DEF ResolvedTransport, ResolvedHop
<1>3. shown = ShownOf(t)
  <2>1. ASSUME NEW h \in DOMAIN Servers(t)
        PROVE  LET hop == route.hops[h]
                   at == [host |-> hop.host, port |-> hop.port] IN
               Shown(Servers(t)[h])
                 = <<<<"resolve", at>>>>
                     \o (IF hop.kind = "none" THEN <<>> ELSE <<<<"auth", Absent>>>>)
                     \o <<<<hop.via, at>>>>
    <3> HIDE DEF route
    <3>1. QED BY <1>2, Zenon DEF Shown, Endpoint, If
  <2> HIDE DEF route
  <2>2. QED BY <1>2, <2>1 DEF ShownOf
<1>4. /\ plan.target = t.target /\ plan.tls = (~ssh /\ t.tls)
      /\ Shows(steps, ShownOf(t), <<"directTcp", t.target>>, q, c)
  BY PlanForm
<1>5. ssh => route.hops[1].strict = t.server.strict
  <2>1. ssh => Servers(t) = <<t.server>>
    BY DEF Servers
  <2>2. QED BY <1>2, <2>1
<1> HIDE DEF route, shown, steps, plan, c, q
<1>6. /\ IsPrefix(shown, steps)
      /\ Len(tail) = IF c THEN 2 ELSE 1
      /\ DOMAIN tail = IF c THEN {1, 2} ELSE {1}
      /\ tail[1] = <<"directTcp", t.target>>
      /\ c => tail[2] = q
  <2> DEFINE p == <<"directTcp", t.target>>
  <2>1. Shows(steps, shown, p, q, c)
    BY <1>3, <1>4
  <2> HIDE DEF p, tail
  <2>3. LET rest == SubSeq(steps, Len(shown) + 1, Len(steps)) IN
        /\ IsPrefix(shown, steps)
        /\ Len(rest) = IF c THEN 2 ELSE 1
        /\ DOMAIN rest = IF c THEN {1, 2} ELSE {1}
        /\ rest[1] = p
        /\ c => rest[2] = q
    BY ONLY <2>1, TailOf
  <2>4. QED BY <2>3, Zenon DEF tail, p
<1> HIDE DEF tail
<1>7. q[1] = IF ssh THEN "auth" ELSE "tls"
  BY DEF q
<1>8. (\E i \in DOMAIN tail : tail[i][1] = "tls") <=> route.tls
  <2>0. tail[1][1] = "directTcp"
    BY <1>6
  <2>1. CASE c
    <3>1. (\E i \in DOMAIN tail : tail[i][1] = "tls") <=> tail[2][1] = "tls"
      BY <1>6, <2>0, <2>1
    <3>2. tail[2][1] = "tls" <=> ~ssh
      BY <1>6, <1>7, <2>1
    <3>3. QED BY <1>1, <2>1, <3>1, <3>2 DEF c
  <2>2. CASE ~c
    <3>1. ~ \E i \in DOMAIN tail : tail[i][1] = "tls"
      BY <1>6, <2>0, <2>2
    <3>2. QED BY <1>1, <2>2, <3>1 DEF c
  <2>3. QED BY <2>1, <2>2
<1>9. ssh => (Len(tail) = 2 <=> route.hops[1].strict)
  BY <1>5, <1>6 DEF c
<1>10. Len(tail) = 2 => tail[2][1] = IF ssh THEN "auth" ELSE "tls"
  BY <1>6, <1>7
<1>11. QED BY <1>1, <1>4, <1>6, <1>8, <1>9, <1>10, Zenon DEF plan, route, shown, steps, tail, Pairs

(* The plan of a valid transport (TransportPlan::from_config) is the route *)
(* that resolve_transport dials: the same servers in the same order, each  *)
(* found, logged in to if it asks for it, and used; then the target, with  *)
(* TLS and the check of a host key just where the route has them.          *)
THEOREM PlansAreFaithful == Spec => []PlanShowsRoute
<1>1. IInv => PlanShowsRoute
  BY TransportIsFormed, RouteIsShown DEF IInv
<1>2. QED BY <1>1, ResolutionsAreSound, PTL

-----------------------------------------------------------------------------
(* The slots.                                                              *)

(* Two elements, one after the other.                                      *)
LEMMA TwoSteps ==
  ASSUME NEW a, NEW b
  PROVE  <<a>> \o <<b>> = <<a, b>>
<1> DEFINE T == {a, b}
           ta == <<a>>
           l == ta \o <<b>>
           w == <<a, b>>
<1>1. b \in T /\ ta \in Seq(T) /\ Len(ta) = 1 /\ ta[1] = a
  OBVIOUS
<1>2. w \in Seq(T) /\ Len(w) = 2 /\ w[1] = a /\ w[2] = b
  OBVIOUS
<1> HIDE DEF ta, w, T
<1>3. /\ l \in Seq(T) /\ Len(l) = Len(ta) + 1 /\ l[Len(ta) + 1] = b
      /\ \A i \in 1..Len(ta) : l[i] = ta[i]
  <2>1. b \in T /\ ta \in Seq(T) /\ l = ta \o <<b>>
    BY <1>1
  <2> HIDE DEF l
  <2>2. QED BY ONLY <2>1, PutLast, Zenon
<1> HIDE DEF l
<1>4. l \in Seq(T) /\ Len(l) = 2 /\ l[1] = a /\ l[2] = b
  BY ONLY <1>1, <1>3
<1>5. \A i \in 1..Len(l) : l[i] = w[i]
  <2>1. \A i \in 1..2 : i = 1 \/ i = 2
    OBVIOUS
  <2>2. QED BY <1>2, <1>4, <2>1
<1>6. l = w
  BY <1>2, <1>4, <1>5, SeqEqual
<1>7. QED BY <1>6, Zenon DEF l, w, ta

(* The slot for the i-th secret of a login.                                *)
Leaf(purpose) == IF purpose \in {"sshPassword", "proxyPassword"} THEN "password" ELSE purpose
SlotOf(s, path, i) ==
  LET place == ReadOf(s, 0, i).place IN Slot(path, Leaf(place), place)
SlotsAt(s, path) ==
  IF s.via = "ssh" THEN SshSlots(PortableLogin(s.login), path)
  ELSE ProxySlots(PortableLogin(s.login), path)

(* A key is asked for, and its passphrase if it has one.                   *)
LEMMA KeySlotsForm ==
  ASSUME NEW path, NEW passphrase
  PROVE  KeySlots(path, passphrase) =
           [i \in 1..(IF passphrase THEN 2 ELSE 1) |->
             Slot(path, <<"privateKey", "passphrase">>[i], <<"privateKey", "passphrase">>[i])]
<1> DEFINE a == Slot(path, "privateKey", "privateKey")
           b == Slot(path, "passphrase", "passphrase")
           all(n) == [i \in 1..n |->
             Slot(path, <<"privateKey", "passphrase">>[i], <<"privateKey", "passphrase">>[i])]
<1>1. all(1) = <<a>> /\ all(2) = <<a, b>>
  OBVIOUS
<1>2. KeySlots(path, passphrase) = <<a>> \o (IF passphrase THEN <<b>> ELSE <<>>)
  BY Zenon DEF KeySlots
<1>3. <<a>> \o <<>> = <<a>> /\ <<a>> \o <<b>> = <<a, b>>
  BY TwoSteps
<1> HIDE DEF a, b
<1>4. CASE passphrase
  BY <1>1, <1>2, <1>3, <1>4, Zenon
<1>5. CASE ~passphrase
  BY <1>1, <1>2, <1>3, <1>5, Zenon
<1>6. QED BY <1>4, <1>5

(* A login's slots are for its secrets, in order.                          *)
LEMMA LoginSlots ==
  ASSUME NEW s, ServerForm(s), NEW path
  PROVE  SlotsAt(s, path) = [i \in 1..Len(s.login.secrets) |-> SlotOf(s, path, i)]
<1> DEFINE n == Len(s.login.secrets)
           kind == s.login.kind
           pl == PortableLogin(s.login)
           L == <<"privateKey", "passphrase">>
<1>1. /\ kind \in {"agent", "password", "privateKey", "none", "userPassword"}
      /\ kind \in {"none", "userPassword"} <=> s.via # "ssh"
      /\ kind = "privateKey" => n \in {1, 2}
      /\ kind \in {"agent", "none"} => n = 0
      /\ kind \in {"password", "userPassword"} => n = 1
  BY ServerLogins, LoginSecrets
<1>2. pl.kind = kind /\ pl.passphrase = (n = 2)
  BY DEF PortableLogin
<1>3. \A i : /\ kind = "password" => ReadOf(s, 0, i).place = "sshPassword"
             /\ kind = "privateKey" => ReadOf(s, 0, i).place = L[i]
             /\ kind = "userPassword" => ReadOf(s, 0, i).place = "proxyPassword"
  BY DEF ReadOf
<1>4. CASE kind \in {"agent", "none"}
  <2>1. SlotsAt(s, path) = <<>>
    BY <1>1, <1>2, <1>4 DEF SlotsAt, SshSlots, ProxySlots
  <2>2. [i \in 1..n |-> SlotOf(s, path, i)] = <<>>
    BY <1>1, <1>4
  <2>3. QED BY <2>1, <2>2
<1>5. CASE kind = "password"
  <2>1. SlotsAt(s, path) = <<Slot(path, "password", "sshPassword")>>
    BY <1>1, <1>2, <1>5 DEF SlotsAt, SshSlots
  <2>2. SlotOf(s, path, 1) = Slot(path, "password", "sshPassword")
    BY <1>3, <1>5 DEF SlotOf, Leaf
  <2>3. n = 1
    BY <1>1, <1>5
  <2>4. QED BY <2>1, <2>2, <2>3
<1>6. CASE kind = "userPassword"
  <2>1. SlotsAt(s, path) = <<Slot(path, "password", "proxyPassword")>>
    BY <1>1, <1>2, <1>6 DEF SlotsAt, ProxySlots
  <2>2. SlotOf(s, path, 1) = Slot(path, "password", "proxyPassword")
    BY <1>3, <1>6 DEF SlotOf, Leaf
  <2>3. n = 1
    BY <1>1, <1>6
  <2>4. QED BY <2>1, <2>2, <2>3
<1>7. CASE kind = "privateKey"
  <2>1. SlotsAt(s, path) = KeySlots(path, n = 2)
    BY <1>1, <1>2, <1>7 DEF SlotsAt, SshSlots
  <2>2. n = (IF n = 2 THEN 2 ELSE 1)
    BY <1>1, <1>7
  <2>3. KeySlots(path, n = 2) = [i \in 1..n |-> Slot(path, L[i], L[i])]
    BY <2>2, KeySlotsForm
  <2>4. ASSUME NEW i \in 1..n PROVE SlotOf(s, path, i) = Slot(path, L[i], L[i])
    <3>1. L[i] \in {"privateKey", "passphrase"}
      <4>1. i = 1 \/ i = 2
        <5>1. n = 1 \/ n = 2
          BY <1>1, <1>7
        <5> HIDE DEF n
        <5>2. QED BY <5>1
      <4>2. QED BY <4>1
    <3>2. Leaf(L[i]) = L[i]
      BY <3>1 DEF Leaf
    <3>3. QED BY <1>3, <1>7, <3>2, Zenon DEF SlotOf
  <2>5. QED BY <2>1, <2>3, <2>4
<1>8. QED BY <1>1, <1>4, <1>5, <1>6, <1>7

(* The path of the slots of a transport's h-th server.                     *)
HopPath(hop) ==
  LET path == <<"transport", "chain">> \o hop.name IN
  IF hop.server.via = "ssh" THEN Append(path, "ssh") ELSE path
SlotPath(t, h) ==
  CASE t.kind = "chain" -> HopPath(t.hops[h])
    [] t.kind = "sshTunnel" -> <<"transport", "ssh">>
    [] OTHER -> <<"transport", "proxy">>

(* The slots of a transport are those of its servers' logins.              *)
LEMMA TransportSlotsForm ==
  ASSUME NEW t, TransportForm(t), ~NeedsNoResolution(t)
  PROVE  TransportSlots(PortableTransport(t)) =
           FlattenSeq([h \in 1..Len(Servers(t)) |-> SlotsAt(Servers(t)[h], SlotPath(t, h))])
<1> DEFINE s == Servers(t)
           seqs == [h \in 1..Len(s) |-> SlotsAt(s[h], SlotPath(t, h))]
           pt == PortableTransport(t)
<1>1. \A x : ServerForm(x) =>
        /\ PortableServer(x).via = x.via
        /\ PortableServer(x).login = PortableLogin(x.login)
  BY DEF ServerForm, PortableServer
<1>2. CASE t.kind = "chain"
  <2> DEFINE hs == t.hops
             n == Len(hs)
  <2>1. /\ t = [kind |-> t.kind, hops |-> hs, target |-> t.target, tls |-> t.tls]
        /\ n \in Nat /\ DOMAIN hs = 1..n
        /\ \A i \in 1..n :
             /\ hs[i] = [name |-> hs[i].name, server |-> hs[i].server,
                         proxyName |-> hs[i].proxyName]
             /\ ServerForm(hs[i].server)
    BY <1>2, Zenon DEF TransportForm, IsSequence
  <2>2. s = [i \in 1..n |-> hs[i].server]
    BY <1>2, <2>1, Zenon DEF Servers
  <2>3. pt.kind = "chain" /\ pt.hops = [i \in 1..n |-> PortableHop(hs[i])]
    <3>1. pt = [t EXCEPT !.hops = [i \in DOMAIN hs |-> PortableHop(hs[i])]]
      BY <1>2, Zenon DEF PortableTransport
    <3> DEFINE new == [i \in DOMAIN hs |-> PortableHop(hs[i])]
    <3>2. new = [i \in 1..n |-> PortableHop(hs[i])]
      BY <2>1
    <3> HIDE DEF new
    <3>3. pt.kind = t.kind /\ pt.hops = new
      <4>1. \A x : [t EXCEPT !.hops = x].kind = t.kind /\ [t EXCEPT !.hops = x].hops = x
        <5>1. t = [kind |-> t.kind, hops |-> hs, target |-> t.target, tls |-> t.tls]
          BY <2>1
        <5>2. QED BY ONLY <5>1
      <4>2. pt = [t EXCEPT !.hops = new]
        BY <3>1 DEF new
      <4> HIDE DEF pt
      <4>3. QED BY <4>1, <4>2, Zenon
    <3>4. QED BY <1>2, <3>2, <3>3
  <2>4. ASSUME NEW i \in 1..n
        PROVE  HopSlots(pt.hops[i]) = seqs[i]
    <3> DEFINE hop == PortableHop(hs[i])
    <3>1. hop.name = hs[i].name /\ hop.server = PortableServer(hs[i].server)
      BY <2>1 DEF PortableHop
    <3>2. /\ hop.server.via = hs[i].server.via
          /\ hop.server.login = PortableLogin(hs[i].server.login)
      BY <1>1, <2>1, <3>1
    <3>3. HopSlots(hop) = SlotsAt(hs[i].server, HopPath(hs[i]))
      <4> HIDE DEF hop
      <4>1. QED BY <3>1, <3>2 DEF HopSlots, SlotsAt, HopPath
    <3>4. SlotPath(t, i) = HopPath(hs[i])
      BY <1>2 DEF SlotPath
    <3>5. s[i] = hs[i].server /\ Len(s) = n
      BY <2>1, <2>2
    <3>6. QED BY <2>3, <3>3, <3>4, <3>5
  <2>5. [i \in DOMAIN pt.hops |-> HopSlots(pt.hops[i])] = seqs
    <3>1. DOMAIN pt.hops = 1..Len(s)
      BY <2>1, <2>2, <2>3
    <3>2. \A i \in 1..Len(s) : HopSlots(pt.hops[i]) = SlotsAt(s[i], SlotPath(t, i))
      BY <2>1, <2>2, <2>4
    <3> HIDE DEF pt, s
    <3>3. QED BY <3>1, <3>2
  <2>6. TransportSlots(pt) = FlattenSeq([i \in DOMAIN pt.hops |-> HopSlots(pt.hops[i])])
    BY <2>3 DEF TransportSlots
  <2>7. QED BY <2>5, <2>6
<1>3. CASE t.kind # "chain"
  <2>1. /\ t.kind \in {"sshTunnel", "socks5Proxy", "httpConnectProxy"}
        /\ t = [kind |-> t.kind, name |-> t.name, server |-> t.server,
                target |-> t.target, tls |-> t.tls]
        /\ ServerForm(t.server)
        /\ t.kind = "sshTunnel" <=> t.server.via = "ssh"
    BY <1>3 DEF TransportForm, NeedsNoResolution, Kinds
  <2>2. s = <<t.server>>
    BY <1>3, Zenon DEF Servers
  <2>3. pt.kind = t.kind /\ pt.server = PortableServer(t.server)
    <3>1. pt = [t EXCEPT !.server = PortableServer(t.server)]
      BY <1>3, <2>1 DEF PortableTransport
    <3>2. QED BY <2>1, <3>1
  <2>4. pt.server.login = PortableLogin(t.server.login)
    BY <1>1, <2>1, <2>3
  <2>5. TransportSlots(pt) = SlotsAt(t.server, SlotPath(t, 1))
    <3> HIDE DEF pt
    <3>1. CASE t.kind = "sshTunnel"
      BY <2>1, <2>3, <2>4, <3>1 DEF TransportSlots, SlotsAt, SlotPath
    <3>2. CASE t.kind \in {"socks5Proxy", "httpConnectProxy"}
      BY <2>1, <2>3, <2>4, <3>2 DEF TransportSlots, SlotsAt, SlotPath
    <3>3. QED BY <2>1, <3>1, <3>2
  <2>6. Len(seqs) = 1 /\ seqs[1] = SlotsAt(t.server, SlotPath(t, 1))
    BY <2>2
  <2>7. FlattenSeq(seqs) = seqs[1]
    <3> HIDE DEF seqs
    <3>1. QED BY <2>6, FlattenOne
  <2>8. QED BY <2>5, <2>6, <2>7
<1>4. QED BY <1>2, <1>3

(* Where a secret goes does not depend on the place of its server.         *)
LEMMA PlaceOfAny ==
  ASSUME NEW s, NEW g, NEW h, NEW i
  PROVE  ReadOf(s, g, i).place = ReadOf(s, h, i).place
<1>1. \A a, p, r : [hop |-> a, place |-> p, ref |-> r].place = p
  OBVIOUS
<1>2. QED BY <1>1, Zenon DEF ReadOf

(* Slots are asked for as the secrets are read, one for one.               *)
LEMMA SlotsFollowReads ==
  ASSUME NEW t, TransportForm(t), ~NeedsNoResolution(t)
  PROVE  LET slots == TransportSlots(PortableTransport(t))
             reads == Reads(t)
         IN /\ Len(slots) = Len(reads)
            /\ \A j \in 1..Len(slots) : slots[j].purpose = reads[j].place
<1> DEFINE s == Servers(t)
           n == Len(s)
           lens(h) == Len(s[h].login.secrets)
           SL(h, i) == SlotOf(s[h], SlotPath(t, h), i)
           RD(h, i) == ReadOf(s[h], h, i)
           A == UNION {{SL(h, i) : i \in 1..lens(h)} : h \in 1..n}
           B == UNION {{RD(h, i) : i \in 1..lens(h)} : h \in 1..n}
           F == [x \in A |-> x.purpose]
           G == [x \in B |-> x.place]
           slotSeqs == [h \in 1..n |-> SlotsAt(s[h], SlotPath(t, h))]
           readSeqs == [h \in 1..n |-> LoginReads(s[h], h)]
           images == [h \in 1..n |-> Mapped(F, slotSeqs[h])]
           slots == TransportSlots(PortableTransport(t))
           reads == Reads(t)
<1>1. /\ n \in Nat /\ DOMAIN s = 1..n
      /\ \A h \in 1..n : ServerForm(s[h]) /\ LoginForm(s[h].login) /\ lens(h) \in Nat
  <2>1. n \in Nat /\ DOMAIN s = 1..n /\ \A h \in 1..n : ServerForm(s[h])
    BY ServersForm
  <2>2. ASSUME NEW h \in 1..n PROVE LoginForm(s[h].login) /\ lens(h) \in Nat
    <3>1. LoginForm(s[h].login)
      BY <2>1, ServerLogins
    <3>2. QED BY <3>1, LoginSecrets
  <2>3. QED BY <2>1, <2>2
<1>2. slots = FlattenSeq(slotSeqs) /\ reads = FlattenSeq(readSeqs)
  <2>1. slots = FlattenSeq(slotSeqs)
    BY TransportSlotsForm
  <2>2. reads = FlattenSeq(readSeqs)
    BY <1>1, Zenon DEF Reads
  <2>3. QED BY <2>1, <2>2
<1>3. ASSUME NEW h \in 1..n
      PROVE  /\ slotSeqs[h] = [i \in 1..lens(h) |-> SL(h, i)]
             /\ readSeqs[h] = [i \in 1..lens(h) |-> RD(h, i)]
             /\ \A i \in 1..lens(h) : SL(h, i) \in A /\ RD(h, i) \in B
             /\ \A i : SL(h, i).purpose = RD(h, i).place
  <2>1. slotSeqs[h] = [i \in 1..lens(h) |-> SL(h, i)]
    <3>1. SlotsAt(s[h], SlotPath(t, h)) = [i \in 1..lens(h) |-> SL(h, i)]
      BY <1>1, LoginSlots
    <3>2. QED BY <3>1
  <2>2. readSeqs[h] = [i \in 1..lens(h) |-> RD(h, i)]
    <3>1. LoginReads(s[h], h) = [i \in 1..lens(h) |-> RD(h, i)]
      BY <1>1, LoginReadsForm
    <3>2. QED BY <3>1
  <2>3. ASSUME NEW i \in 1..lens(h) PROVE SL(h, i) \in A /\ RD(h, i) \in B
    <3>1. SL(h, i) \in {SL(h, k) : k \in 1..lens(h)} /\ RD(h, i) \in {RD(h, k) : k \in 1..lens(h)}
      OBVIOUS
    <3> HIDE DEF SL, RD
    <3>2. QED BY <3>1
  <2>4. ASSUME NEW i PROVE SL(h, i).purpose = RD(h, i).place
    <3>1. SL(h, i).purpose = ReadOf(s[h], 0, i).place
      BY DEF SlotOf, Slot
    <3>2. ReadOf(s[h], 0, i).place = ReadOf(s[h], h, i).place
      BY PlaceOfAny
    <3>3. QED BY <3>1, <3>2
  <2> HIDE DEF SL, RD, A, B, slotSeqs, readSeqs
  <2>5. QED BY <2>1, <2>2, <2>3, <2>4
<1> HIDE DEF SL, RD, A, B
<1>4. ASSUME NEW h \in 1..n
      PROVE  /\ slotSeqs[h] \in Seq(A) /\ readSeqs[h] \in Seq(B)
             /\ images[h] = Mapped(G, readSeqs[h])
  <2>1. slotSeqs[h] \in Seq(A) /\ readSeqs[h] \in Seq(B)
    <3> HIDE DEF slotSeqs, readSeqs, lens
    <3>1. lens(h) \in Nat
      BY <1>1 DEF lens
    <3>2. /\ slotSeqs[h] = [i \in 1..lens(h) |-> SL(h, i)]
          /\ readSeqs[h] = [i \in 1..lens(h) |-> RD(h, i)]
          /\ \A i \in 1..lens(h) : SL(h, i) \in A /\ RD(h, i) \in B
      BY <1>3
    <3>3. QED BY ONLY <3>1, <3>2
  <2>2. images[h] = Mapped(F, slotSeqs[h])
    BY DEF images
  <2>3. Mapped(F, slotSeqs[h]) = [i \in 1..lens(h) |-> RD(h, i).place]
    <3> HIDE DEF slotSeqs, lens, images
    <3>0. slotSeqs[h] = [i \in 1..lens(h) |-> SL(h, i)]
      BY <1>3
    <3>1. Mapped(F, slotSeqs[h]) = [i \in 1..lens(h) |-> F[SL(h, i)]]
      BY ONLY <3>0 DEF Mapped
    <3>2. \A i \in 1..lens(h) : F[SL(h, i)] = RD(h, i).place
      BY <1>3
    <3>3. QED BY <3>1, <3>2
  <2>4. Mapped(G, readSeqs[h]) = [i \in 1..lens(h) |-> RD(h, i).place]
    <3> HIDE DEF readSeqs, lens
    <3>0. readSeqs[h] = [i \in 1..lens(h) |-> RD(h, i)]
      BY <1>3
    <3>1. Mapped(G, readSeqs[h]) = [i \in 1..lens(h) |-> G[RD(h, i)]]
      BY ONLY <3>0 DEF Mapped
    <3>2. \A i \in 1..lens(h) : G[RD(h, i)] = RD(h, i).place
      BY <1>3
    <3>3. QED BY <3>1, <3>2
  <2>5. QED BY <2>1, <2>2, <2>3, <2>4, Zenon
<1>5. /\ slotSeqs \in Seq(Seq(A)) /\ Len(slotSeqs) = n
      /\ readSeqs \in Seq(Seq(B)) /\ Len(readSeqs) = n
      /\ Len(images) = n /\ (n = 0 => images = <<>>)
      /\ \A h \in 1..n : images[h] = Mapped(F, slotSeqs[h])
      /\ \A h \in 1..n : images[h] = Mapped(G, readSeqs[h])
  <2> DEFINE S1 == Seq(A)
             S2 == Seq(B)
  <2>1. \A h \in 1..n : SlotsAt(s[h], SlotPath(t, h)) \in S1 /\ LoginReads(s[h], h) \in S2
    BY <1>4
  <2>2. n = 0 => images = <<>>
    BY <1>1
  <2>3. \A h \in 1..n : images[h] = Mapped(F, slotSeqs[h]) /\ images[h] = Mapped(G, readSeqs[h])
    BY <1>4
  <2> HIDE DEF S1, S2, F, G
  <2>4. n \in Nat
    BY <1>1
  <2>5. slotSeqs \in Seq(S1) /\ Len(slotSeqs) = n /\ readSeqs \in Seq(S2) /\ Len(readSeqs) = n
        /\ Len(images) = n
    <3> HIDE DEF n, s
    <3>1. QED BY <2>1, <2>4
  <2>6. QED BY <2>2, <2>3, <2>5 DEF S1, S2
<1> HIDE DEF F, G, slotSeqs, readSeqs, images, n
<1>6. slots \in Seq(A) /\ Mapped(F, slots) = FlattenSeq(images)
  <2>1. FlattenSeq(slotSeqs) \in Seq(A)
    BY <1>5, FlattenElements
  <2>2. Mapped(F, FlattenSeq(slotSeqs)) = FlattenSeq(images)
    BY <1>5, FlattenMapped
  <2>3. QED BY <1>2, <2>1, <2>2
<1>7. reads \in Seq(B) /\ Mapped(G, reads) = FlattenSeq(images)
  <2>1. FlattenSeq(readSeqs) \in Seq(B)
    BY <1>5, FlattenElements
  <2>2. Mapped(G, FlattenSeq(readSeqs)) = FlattenSeq(images)
    BY <1>5, FlattenMapped
  <2>3. QED BY <1>2, <2>1, <2>2
<1> HIDE DEF slots, reads
<1>8. /\ Len(Mapped(F, slots)) = Len(slots)
      /\ \A j \in 1..Len(slots) : Mapped(F, slots)[j] = F[slots[j]] /\ slots[j] \in A
  <2>1. \A j \in 1..Len(slots) : slots[j] \in A
    BY <1>6, ElementOfSeq
  <2>2. /\ Len(Mapped(F, slots)) = Len(slots)
        /\ \A j \in 1..Len(slots) : Mapped(F, slots)[j] = F[slots[j]]
    <3>1. DOMAIN slots = 1..Len(slots) /\ Len(slots) \in Nat
      BY <1>6
    <3>2. QED BY ONLY <3>1 DEF Mapped
  <2>3. QED BY <2>1, <2>2
<1>9. /\ Len(Mapped(G, reads)) = Len(reads)
      /\ \A j \in 1..Len(reads) : Mapped(G, reads)[j] = G[reads[j]] /\ reads[j] \in B
  <2>1. \A j \in 1..Len(reads) : reads[j] \in B
    BY <1>7, ElementOfSeq
  <2>2. /\ Len(Mapped(G, reads)) = Len(reads)
        /\ \A j \in 1..Len(reads) : Mapped(G, reads)[j] = G[reads[j]]
    <3>1. DOMAIN reads = 1..Len(reads) /\ Len(reads) \in Nat
      BY <1>7
    <3>2. QED BY ONLY <3>1 DEF Mapped
  <2>3. QED BY <2>1, <2>2
<1>10. Len(slots) = Len(reads)
  BY <1>6, <1>7, <1>8, <1>9
<1>11. ASSUME NEW j \in 1..Len(slots) PROVE slots[j].purpose = reads[j].place
  <2>1. F[slots[j]] = slots[j].purpose
    BY <1>8 DEF F
  <2>2. G[reads[j]] = reads[j].place
    BY <1>9, <1>10 DEF G
  <2>3. QED BY <1>6, <1>7, <1>8, <1>9, <1>10, <2>1, <2>2
<1>12. QED BY <1>10, <1>11 DEF slots, reads

(* What the secrets of a server are asked for as.                          *)
LEMMA PlacesOf ==
  ASSUME NEW s, ServerForm(s), NEW h, NEW i \in 1..Len(s.login.secrets)
  PROVE  LET place == ReadOf(s, h, i).place IN
         /\ place \in {"sshPassword", "privateKey", "passphrase", "proxyPassword"}
         /\ place = "proxyPassword" <=> s.via # "ssh"
         /\ i = IF place = "passphrase" THEN 2 ELSE 1
<1> DEFINE n == Len(s.login.secrets)
           kind == s.login.kind
           P == ReadOf(s, h, i).place
<1>1. /\ n \in 0..2 /\ (n = 2 => kind = "privateKey")
      /\ (n > 0 => kind \in {"password", "privateKey", "userPassword"})
      /\ (kind = "userPassword" \/ kind = "none" <=> s.via # "ssh")
  BY ServerLogins, LoginSecrets
<1>2. /\ kind = "password" => P = "sshPassword"
      /\ kind = "privateKey" => P = <<"privateKey", "passphrase">>[i]
      /\ kind = "userPassword" => P = "proxyPassword"
  <2>1. \A a, p, r : [hop |-> a, place |-> p, ref |-> r].place = p
    OBVIOUS
  <2>2. P = CASE kind = "password" -> "sshPassword"
              [] kind = "privateKey" -> <<"privateKey", "passphrase">>[i]
              [] kind = "userPassword" -> "proxyPassword"
    BY <2>1, Zenon DEF ReadOf
  <2> HIDE DEF P, kind
  <2>3. QED BY <2>2
<1>3. (i = 1 \/ (i = 2 /\ n = 2)) /\ n > 0
  <2> HIDE DEF kind
  <2>1. i \in 1..n /\ n \in 0..2
    BY <1>1
  <2> HIDE DEF n
  <2>2. QED BY <2>1
<1> HIDE DEF P, kind, n
<1>4. CASE i = 1
  <2>1. P \in {"sshPassword", "privateKey", "proxyPassword"}
        /\ (P = "proxyPassword" <=> kind = "userPassword")
    BY <1>1, <1>2, <1>3, <1>4
  <2>2. kind # "none"
    BY <1>1, <1>3
  <2>3. QED BY <1>1, <1>4, <2>1, <2>2 DEF P
<1>5. CASE i = 2 /\ n = 2
  <2>1. P = "passphrase" /\ kind = "privateKey"
    BY <1>1, <1>2, <1>5
  <2>2. QED BY <1>1, <1>5, <2>1 DEF P
<1>6. QED BY <1>3, <1>4, <1>5

(* The names the code itself puts into a path.                             *)
Words == {"transport", "chain", "ssh", "proxy", "auth", "password", "privateKey", "passphrase",
          "secret", "token"}
(* The parts of a chain's names.                                           *)
Parts(t) ==
  Words \cup (IF t.kind = "chain"
                THEN UNION {{t.hops[h].name[i] : i \in 1..Len(t.hops[h].name)} :
                              h \in 1..Len(t.hops)}
                ELSE {})

(* A chain's names are made of its parts.                                  *)
LEMMA NamesOf ==
  ASSUME NEW t, TransportForm(t), t.kind = "chain", NEW h \in 1..Len(t.hops)
  PROVE  t.hops[h].name \in Seq(Parts(t))
<1> DEFINE name == t.hops[h].name
           own == {name[i] : i \in 1..Len(name)}
           all == {{t.hops[k].name[i] : i \in 1..Len(t.hops[k].name)} : k \in 1..Len(t.hops)}
<1>1. Len(name) \in Nat /\ name = [i \in 1..Len(name) |-> name[i]]
  BY Zenon DEF TransportForm, IsSequence
<1>2. own \in all
  OBVIOUS
<1>3. own \subseteq Parts(t)
  <2> HIDE DEF own, all
  <2>1. Parts(t) = Words \cup UNION all
    BY Zenon DEF Parts, all
  <2>2. QED BY <1>2, <2>1
<1>4. \A i \in 1..Len(name) : name[i] \in Parts(t)
  BY <1>3
<1> HIDE DEF name
<1>5. QED BY <1>1, <1>4 DEF name

(* Every path begins alike.                                                *)
LEMMA PathForm ==
  ASSUME NEW t, TransportForm(t), ~NeedsNoResolution(t), NEW h \in 1..Len(Servers(t))
  PROVE  /\ SlotPath(t, h) \in Seq(Parts(t))
         /\ Len(SlotPath(t, h)) \in Nat /\ Len(SlotPath(t, h)) > 0
         /\ SlotPath(t, h)[1] = "transport"
<1> DEFINE N == Parts(t)
           base == <<"transport", "chain">>
<1>1. Words \subseteq N
  BY DEF Parts
<1>2. base \in Seq(N) /\ Len(base) = 2 /\ base[1] = "transport"
  BY <1>1 DEF Words
<1>3. CASE t.kind = "chain"
  <2> DEFINE hop == t.hops[h]
             path == base \o hop.name
  <2>1. h \in 1..Len(t.hops)
    BY <1>3 DEF Servers, TransportForm, IsSequence
  <2>2. hop.name \in Seq(N)
    BY <1>3, <2>1, NamesOf
  <2> HIDE DEF hop, base, N
  <2>3. path \in Seq(N) /\ Len(path) \in Nat /\ Len(path) > 0 /\ path[1] = "transport"
    <3>1. /\ path \in Seq(N) /\ Len(path) = Len(base) + Len(hop.name)
          /\ Len(hop.name) \in Nat
          /\ \A i \in 1..(Len(base) + Len(hop.name)) :
               path[i] = IF i <= Len(base) THEN base[i] ELSE hop.name[i - Len(base)]
      BY <1>2, <2>2, ConcatProperties, LenProperties
    <3> HIDE DEF path
    <3>2. QED BY <1>2, <3>1
  <2> HIDE DEF path
  <2>4. "ssh" \in N
    BY <1>1 DEF Words
  <2>5. /\ Append(path, "ssh") \in Seq(N) /\ Len(Append(path, "ssh")) = Len(path) + 1
        /\ Append(path, "ssh")[1] = path[1]
    BY <2>3, <2>4, AppendProperties
  <2>6. SlotPath(t, h) = IF hop.server.via = "ssh" THEN Append(path, "ssh") ELSE path
    BY <1>3, Zenon DEF SlotPath, HopPath, hop, path, base
  <2>7. QED BY <2>3, <2>5, <2>6 DEF N
<1>4. CASE t.kind # "chain"
  <2>1. SlotPath(t, h) = <<"transport", "ssh">> \/ SlotPath(t, h) = <<"transport", "proxy">>
    BY <1>4 DEF SlotPath
  <2>2. "transport" \in N /\ "ssh" \in N /\ "proxy" \in N
    BY <1>1 DEF Words
  <2> HIDE DEF N
  <2>3. \A x \in N : LET r == <<"transport", x>> IN
          r \in Seq(N) /\ Len(r) \in Nat /\ Len(r) > 0 /\ r[1] = "transport"
    BY <2>2
  <2>4. QED BY <2>1, <2>2, <2>3, Zenon DEF N
<1>5. QED BY <1>3, <1>4

(* No two hops reached alike have the same path.                           *)
LEMMA PathsDiffer ==
  ASSUME NEW t, TransportForm(t), t.kind = "chain", ValidChain(t),
         NEW h \in 1..Len(t.hops), NEW k \in 1..Len(t.hops), h # k,
         t.hops[h].server.via = "ssh" <=> t.hops[k].server.via = "ssh"
  PROVE  SlotPath(t, h) # SlotPath(t, k)
<1> DEFINE N == Parts(t)
           a == t.hops[h].name
           b == t.hops[k].name
           base == <<"transport", "chain">>
<1>1. a \in Seq(N) /\ b \in Seq(N)
  BY NamesOf
<1>2. a # b
  BY DEF ValidChain, TransportForm, IsSequence
<1>3. "ssh" \in N /\ base \in Seq(N)
  <2>1. "ssh" \in N /\ "transport" \in N /\ "chain" \in N
    BY DEF Parts, Words
  <2> HIDE DEF N
  <2>2. QED BY <2>1
<1> DEFINE p == base \o a
           q == base \o b
<1>4. SlotPath(t, h) = (IF t.hops[h].server.via = "ssh" THEN Append(p, "ssh") ELSE p)
      /\ SlotPath(t, k) = (IF t.hops[k].server.via = "ssh" THEN Append(q, "ssh") ELSE q)
  BY Zenon DEF SlotPath, HopPath
<1> HIDE DEF a, b, base, N
<1>5. p # q /\ p \in Seq(N) /\ q \in Seq(N)
  <2>1. p = q => a = b
    <3>1. \A u, v, w \in Seq(N) : w \o u = w \o v => u = v
      BY ConcatSimplifications, Zenon
    <3>2. QED BY <1>1, <1>3, <3>1 DEF p, q
  <2>2. p \in Seq(N) /\ q \in Seq(N)
    BY <1>1, <1>3, ConcatProperties
  <2>3. QED BY <1>2, <2>1, <2>2
<1> HIDE DEF p, q
<1>6. Append(p, "ssh") # Append(q, "ssh")
  BY <1>3, <1>5, AppendInjective
<1>7. QED BY <1>4, <1>5, <1>6

(* A slot tells its purpose, and its path tells where it is asked for.     *)
LEMMA SlotForm ==
  ASSUME NEW s, ServerForm(s), NEW i \in 1..Len(s.login.secrets),
         NEW path, NEW N, Words \subseteq N, path \in Seq(N), Len(path) > 0
  PROVE  LET slot == SlotOf(s, path, i)
             place == ReadOf(s, 0, i).place
         IN /\ slot.purpose = place /\ Leaf(place) \in N
            /\ slot.path = Append(path, Leaf(place)) /\ slot.path[1] = path[1]
<1> DEFINE place == ReadOf(s, 0, i).place
<1>1. place \in {"sshPassword", "privateKey", "passphrase", "proxyPassword"}
  BY PlacesOf
<1> HIDE DEF place
<1>2. Leaf(place) \in N
  BY <1>1 DEF Leaf, Words
<1>3. SlotOf(s, path, i).path = Append(path, Leaf(place)) /\ SlotOf(s, path, i).purpose = place
  <2>1. \A a, b : [path |-> a, purpose |-> b].path = a /\ [path |-> a, purpose |-> b].purpose = b
    OBVIOUS
  <2>2. QED BY <2>1, Zenon DEF SlotOf, Slot, place
<1>4. Append(path, Leaf(place))[1] = path[1]
  <2>1. Len(path) \in Nat
    BY LenProperties
  <2>2. 1 \in 1..Len(path)
    BY <2>1
  <2>3. \A j \in 1..Len(path) : Append(path, Leaf(place))[j] = path[j]
    BY <1>2, AppendProperties
  <2>4. QED BY <2>2, <2>3
<1>5. QED BY <1>2, <1>3, <1>4 DEF place

(* A transport's slots differ from each other, and from all others by      *)
(* where their path begins.                                                *)
LEMMA SlotsAreApart ==
  ASSUME NEW t, TransportForm(t), ~NeedsNoResolution(t), ValidTransport(t)
  PROVE  LET slots == TransportSlots(PortableTransport(t)) IN
         /\ \A i, j \in 1..Len(slots) : slots[i] = slots[j] => i = j
         /\ \A i \in 1..Len(slots) : slots[i].path[1] = "transport"
         /\ \E A : slots \in Seq(A)
<1> DEFINE s == Servers(t)
           n == Len(s)
           N == Parts(t)
           P(h) == SlotPath(t, h)
           lens(h) == Len(s[h].login.secrets)
           PL(h, i) == ReadOf(s[h], 0, i).place
           SL(h, i) == SlotOf(s[h], P(h), i)
           A == UNION {{SL(h, i) : i \in 1..lens(h)} : h \in 1..n}
           seqs == [h \in 1..n |-> SlotsAt(s[h], P(h))]
           slots == TransportSlots(PortableTransport(t))
<1>1. /\ n \in Nat
      /\ \A h \in 1..n : ServerForm(s[h]) /\ lens(h) \in Nat
  <2>1. n \in Nat /\ DOMAIN s = 1..n /\ \A h \in 1..n : ServerForm(s[h])
    BY ServersForm
  <2>2. ASSUME NEW h \in 1..n PROVE lens(h) \in Nat
    BY <2>1, ServerLogins, LoginSecrets
  <2>3. QED BY <2>1, <2>2
<1>2. slots = FlattenSeq(seqs)
  BY TransportSlotsForm
<1>3. ASSUME NEW h \in 1..n
      PROVE  seqs[h] = [i \in 1..lens(h) |-> SL(h, i)]
  <2>1. SlotsAt(s[h], P(h)) = [i \in 1..lens(h) |-> SL(h, i)]
    BY <1>1, LoginSlots
  <2>2. QED BY <2>1
<1>4. ASSUME NEW h \in 1..n, NEW i \in 1..lens(h)
      PROVE  /\ SL(h, i) \in A
             /\ SL(h, i).purpose = PL(h, i) /\ Leaf(PL(h, i)) \in N
             /\ SL(h, i).path = Append(P(h), Leaf(PL(h, i)))
             /\ SL(h, i).path[1] = "transport"
             /\ P(h) \in Seq(N)
             /\ PL(h, i) = "proxyPassword" <=> s[h].via # "ssh"
             /\ i = IF PL(h, i) = "passphrase" THEN 2 ELSE 1
  <2>1. SL(h, i) \in A
    <3>1. SL(h, i) \in {SL(h, k) : k \in 1..lens(h)}
      OBVIOUS
    <3> HIDE DEF SL
    <3>2. QED BY <3>1
  <2>2. P(h) \in Seq(N) /\ Len(P(h)) > 0 /\ P(h)[1] = "transport"
    BY PathForm
  <2>3. Words \subseteq N
    BY DEF Parts
  <2>4. ServerForm(s[h])
    BY <1>1
  <2> HIDE DEF P, N, A, n
  <2>5. /\ SL(h, i).purpose = PL(h, i) /\ Leaf(PL(h, i)) \in N
        /\ SL(h, i).path = Append(P(h), Leaf(PL(h, i))) /\ SL(h, i).path[1] = P(h)[1]
    BY <2>2, <2>3, <2>4, SlotForm
  <2>6. /\ PL(h, i) = "proxyPassword" <=> s[h].via # "ssh"
        /\ i = IF PL(h, i) = "passphrase" THEN 2 ELSE 1
    BY <2>4, PlacesOf
  <2> HIDE DEF SL, PL
  <2>7. QED BY <2>1, <2>2, <2>5, <2>6
<1>5. ASSUME NEW h \in 1..n, NEW k \in 1..n, h # k,
             s[h].via = "ssh" <=> s[k].via = "ssh"
      PROVE  P(h) # P(k)
  <2>1. t.kind = "chain"
    <3>1. t.kind # "chain" => n = 1
      BY DEF Servers
    <3>2. QED BY <1>5, <3>1
  <2>2. ValidChain(t)
    BY <2>1 DEF ValidTransport
  <2>3. s = [i \in 1..Len(t.hops) |-> t.hops[i].server] /\ Len(t.hops) \in Nat
    BY <2>1, Zenon DEF Servers, TransportForm, IsSequence
  <2>4. /\ h \in 1..Len(t.hops) /\ k \in 1..Len(t.hops)
        /\ s[h] = t.hops[h].server /\ s[k] = t.hops[k].server
    BY <2>3
  <2>5. QED BY <1>5, <2>1, <2>2, <2>4, PathsDiffer
<1> HIDE DEF SL, PL, A, P, N, s
<1>6. ASSUME NEW h \in 1..n, NEW i \in 1..lens(h), NEW k \in 1..n, NEW j \in 1..lens(k),
             SL(h, i) = SL(k, j)
      PROVE  h = k /\ i = j
  <2>0. /\ SL(h, i).purpose = PL(h, i) /\ SL(h, i).path = Append(P(h), Leaf(PL(h, i)))
        /\ SL(k, j).purpose = PL(k, j) /\ SL(k, j).path = Append(P(k), Leaf(PL(k, j)))
    BY <1>4
  <2>1. PL(h, i) = PL(k, j)
    BY ONLY <1>6, <2>0
  <2>2. i = j
    BY <1>4, <2>1
  <2>3. s[h].via = "ssh" <=> s[k].via = "ssh"
    BY <1>4, <2>1
  <2>4. P(h) = P(k)
    <3>1. Append(P(h), Leaf(PL(h, i))) = Append(P(k), Leaf(PL(k, j)))
      BY ONLY <1>6, <2>0
    <3>2. /\ P(h) \in Seq(N) /\ P(k) \in Seq(N)
          /\ Leaf(PL(h, i)) \in N /\ Leaf(PL(k, j)) \in N
      BY <1>4
    <3>3. QED BY ONLY <3>1, <3>2, AppendInjective
  <2>5. QED BY <1>5, <2>2, <2>3, <2>4
<1>7. ASSUME NEW h \in 1..n
      PROVE  seqs[h] \in Seq(A) /\ Len(seqs[h]) = lens(h)
             /\ \A i \in 1..lens(h) : seqs[h][i] = SL(h, i)
  <2> HIDE DEF seqs, lens
  <2>1. /\ seqs[h] = [i \in 1..lens(h) |-> SL(h, i)] /\ lens(h) \in Nat
        /\ \A i \in 1..lens(h) : SL(h, i) \in A
    BY <1>1, <1>3, <1>4
  <2>2. QED BY ONLY <2>1
<1>8. seqs \in Seq(Seq(A)) /\ Len(seqs) = n
  <2> DEFINE S1 == Seq(A)
  <2>1. \A h \in 1..n : SlotsAt(s[h], P(h)) \in S1
    BY <1>7
  <2>2. n \in Nat
    BY <1>1
  <2> HIDE DEF S1, n
  <2>3. seqs \in Seq(S1) /\ Len(seqs) = n
    BY <2>1, <2>2
  <2>4. QED BY <2>3 DEF S1
<1> HIDE DEF seqs, lens, n
<1>9. slots \in Seq(A) /\ Elements(seqs, n, slots)
  BY <1>2, <1>8, FlattenElements
<1>10. \A i, j \in 1..Len(slots) : slots[i] = slots[j] => i = j
  <2>1. /\ \A h \in 1..Len(seqs) : \A i, j \in 1..Len(seqs[h]) : seqs[h][i] = seqs[h][j] => i = j
        /\ \A h, k \in 1..Len(seqs) : h # k =>
             \A i \in 1..Len(seqs[h]) : \A j \in 1..Len(seqs[k]) : seqs[h][i] # seqs[k][j]
    <3>1. Len(seqs) = n
      BY <1>8
    <3>2. ASSUME NEW h \in 1..n, NEW k \in 1..n, NEW i \in 1..Len(seqs[h]),
                 NEW j \in 1..Len(seqs[k]), seqs[h][i] = seqs[k][j]
          PROVE  h = k /\ i = j
      <4>1. i \in 1..lens(h) /\ j \in 1..lens(k) /\ SL(h, i) = SL(k, j)
        BY <1>7, <3>2
      <4>2. QED BY <1>6, <4>1
    <3>3. QED BY <3>1, <3>2
  <2>2. \A i, j \in 1..Len(FlattenSeq(seqs)) : FlattenSeq(seqs)[i] = FlattenSeq(seqs)[j] => i = j
    BY <1>8, <2>1, FlattenInjective
  <2>3. QED BY <1>2, <2>2
<1> HIDE DEF slots
<1>11. ASSUME NEW j \in 1..Len(slots) PROVE slots[j].path[1] = "transport"
  <2>1. PICK h \in 1..n : \E i \in 1..Len(seqs[h]) : slots[j] = seqs[h][i]
    BY <1>9 DEF Elements
  <2>2. QED BY <1>4, <1>7, <2>1
<1>12. QED BY <1>9, <1>10, <1>11 DEF slots

(* What a profile's own login is asked for as.                             *)
Asked(slots, n, leaf, purpose) ==
  /\ slots = [i \in 1..n |-> Slot(<<"auth">>, leaf[i], purpose[i])]
  /\ \A i, j \in 1..n : purpose[i] = purpose[j] => i = j

(* A profile's own login is asked for so.                                  *)
LEMMA AuthSlotsForm ==
  ASSUME NEW login, LoginForm(login), login.kind \in {"none", "secret", "token", "keyPair"}
  PROVE  \E leaf, purpose :
           Asked(AuthSlots(PortableLogin(login), <<"auth">>), Len(login.secrets), leaf, purpose)
<1> DEFINE n == Len(login.secrets)
           pl == PortableLogin(login)
           slots == AuthSlots(pl, <<"auth">>)
<1>1. /\ login.kind = "none" => n = 0
      /\ login.kind \in {"secret", "token"} => n = 1
      /\ login.kind = "keyPair" => n \in {1, 2}
  BY LoginSecrets
<1>2. pl.kind = login.kind /\ pl.passphrase = (n = 2)
  BY DEF PortableLogin
<1> HIDE DEF pl, n
<1>3. CASE login.kind = "none"
  <2>1. slots = <<>>
    BY <1>2, <1>3 DEF AuthSlots
  <2>2. n = 0
    BY <1>1, <1>3
  <2>3. \A leaf, purpose : Asked(<<>>, 0, leaf, purpose)
    BY DEF Asked
  <2>4. QED BY <2>1, <2>2, <2>3 DEF n, pl
<1>4. CASE login.kind = "secret"
  <2> DEFINE leaf == [i \in 1..1 |-> "secret"]
             purpose == [i \in 1..1 |-> "password"]
  <2>1. slots = <<Slot(<<"auth">>, "secret", "password")>>
    BY <1>2, <1>4 DEF AuthSlots
  <2>2. slots = [i \in 1..1 |-> Slot(<<"auth">>, leaf[i], purpose[i])]
    BY <2>1
  <2>3. n = 1 /\ \A i, j \in 1..1 : i = j
    BY <1>1, <1>4
  <2> HIDE DEF leaf, purpose, slots
  <2>4. Asked(slots, n, leaf, purpose)
    BY <2>2, <2>3 DEF Asked
  <2>5. QED BY <2>4, Zenon DEF n, pl, slots
<1>5. CASE login.kind = "token"
  <2> DEFINE leaf == [i \in 1..1 |-> "token"]
             purpose == [i \in 1..1 |-> "token"]
  <2>1. slots = <<Slot(<<"auth">>, "token", "token")>>
    BY <1>2, <1>5 DEF AuthSlots
  <2>2. slots = [i \in 1..1 |-> Slot(<<"auth">>, leaf[i], purpose[i])]
    BY <2>1
  <2>3. n = 1 /\ \A i, j \in 1..1 : i = j
    BY <1>1, <1>5
  <2> HIDE DEF leaf, purpose, slots
  <2>4. Asked(slots, n, leaf, purpose)
    BY <2>2, <2>3 DEF Asked
  <2>5. QED BY <2>4, Zenon DEF n, pl, slots
<1>6. CASE login.kind = "keyPair"
  <2> DEFINE leaf == <<"privateKey", "passphrase">>
  <2>1. slots = KeySlots(<<"auth">>, n = 2)
    BY <1>2, <1>6 DEF AuthSlots
  <2>2. n = 1 \/ n = 2
    BY <1>1, <1>6
  <2>3. n = (IF n = 2 THEN 2 ELSE 1)
    BY <2>2
  <2>4. slots = [i \in 1..n |-> Slot(<<"auth">>, leaf[i], leaf[i])]
    BY <2>1, <2>3, KeySlotsForm
  <2>5. \A i, j \in 1..n : leaf[i] = leaf[j] => i = j
    <3>1. \A i \in 1..n : i = 1 \/ i = 2
      BY <2>2
    <3>2. leaf[1] # leaf[2]
      OBVIOUS
    <3> HIDE DEF leaf
    <3>3. QED BY <3>1, <3>2
  <2> HIDE DEF leaf, slots
  <2>6. Asked(slots, n, leaf, leaf)
    BY <2>4, <2>5, Zenon DEF Asked
  <2>7. QED BY <2>6, Zenon DEF n, pl, slots
<1>7. QED BY <1>3, <1>4, <1>5, <1>6

(* No two of its slots are the same.                                       *)
LEMMA AuthSlotsApart ==
  ASSUME NEW login, LoginForm(login), login.kind \in {"none", "secret", "token", "keyPair"}
  PROVE  LET slots == AuthSlots(PortableLogin(login), <<"auth">>) IN
         /\ Len(slots) = Len(login.secrets)
         /\ \A i, j \in 1..Len(slots) : slots[i] = slots[j] => i = j
         /\ \A i \in 1..Len(slots) : slots[i].path[1] = "auth"
         /\ \E A : slots \in Seq(A)
<1> DEFINE n == Len(login.secrets)
           slots == AuthSlots(PortableLogin(login), <<"auth">>)
<1>1. n \in Nat
  BY LoginSecrets
<1>2. PICK leaf, purpose : Asked(slots, n, leaf, purpose)
  BY AuthSlotsForm
<1>9. /\ slots = [i \in 1..n |-> Slot(<<"auth">>, leaf[i], purpose[i])]
      /\ \A i, j \in 1..n : purpose[i] = purpose[j] => i = j
  BY <1>2, Zenon DEF Asked
<1> HIDE DEF slots, n
<1> DEFINE SL(i) == Slot(<<"auth">>, leaf[i], purpose[i])
           A == {SL(i) : i \in 1..n}
<1>3. ASSUME NEW i PROVE SL(i).purpose = purpose[i] /\ SL(i).path[1] = "auth"
  <2>1. SL(i).purpose = purpose[i] /\ SL(i).path = Append(<<"auth">>, leaf[i])
    BY DEF Slot
  <2>2. Append(<<"auth">>, leaf[i])[1] = "auth"
    <3> DEFINE a == <<"auth">>
               e == leaf[i]
               S == {"auth", e}
    <3>1. a \in Seq(S) /\ Len(a) = 1 /\ a[1] = "auth" /\ e \in S
      OBVIOUS
    <3> HIDE DEF a, e, S
    <3>2. \A k \in 1..Len(a) : Append(a, e)[k] = a[k]
      BY ONLY <3>1, AppendProperties
    <3>3. Append(a, e)[1] = "auth"
      BY <3>1, <3>2
    <3>4. QED BY <3>3 DEF a, e
  <2> HIDE DEF SL
  <2>3. QED BY <2>1, <2>2
<1>4. slots = [i \in 1..n |-> SL(i)] /\ \A i \in 1..n : SL(i) \in A
  BY <1>9
<1> HIDE DEF SL, A
<1>5. slots \in Seq(A) /\ Len(slots) = n
  BY <1>1, <1>4
<1>6. \A i, j \in 1..n : slots[i] = slots[j] => i = j
  BY <1>3, <1>4, <1>9
<1>7. \A i \in 1..n : slots[i].path[1] = "auth"
  BY <1>3, <1>4
<1>8. QED BY <1>5, <1>6, <1>7 DEF n, slots

(* The property, of a profile as its type allows it.                       *)
LEMMA SlotsFitReads ==
  ASSUME ProfileForm(profile)
  PROVE  SlotsAreRead
<1> SUFFICES ASSUME Export(<<profile>>) # Absent
             PROVE  LET portable == Export(<<profile>>)[1]
                        slots == RequiredSlots(portable)
                        ofAuth == Len(AuthSlots(portable.auth, <<"auth">>))
                    IN /\ Len(slots) = Len(profile.auth.secrets)
                            + (IF NeedsNoResolution(transport) THEN 0 ELSE Len(Reads(transport)))
                       /\ \A i \in (ofAuth + 1)..Len(slots) :
                            slots[i].purpose = Reads(transport)[i - ofAuth].place
                       /\ IsInjective(slots)
  BY Zenon DEF SlotsAreRead
<1> DEFINE portable == Export(<<profile>>)[1]
           a == AuthSlots(PortableLogin(profile.auth), <<"auth">>)
           b == TransportSlots(PortableTransport(transport))
           slots == RequiredSlots(portable)
           n == IF NeedsNoResolution(transport) THEN 0 ELSE Len(Reads(transport))
<1>1. ValidProfile(profile) /\ portable = PortableProfile(profile)
  BY DEF Export
<1>2. portable.auth = PortableLogin(profile.auth)
      /\ portable.transport = PortableTransport(transport)
  <2>1. profile = [id |-> profile.id, displayName |-> profile.displayName,
                   source |-> profile.source, transport |-> profile.transport,
                   auth |-> profile.auth, database |-> profile.database,
                   user |-> profile.user, options |-> profile.options]
    BY DEF ProfileForm
  <2>2. \A x, y : LET p == [profile EXCEPT !.auth = x, !.transport = y]
                  IN p.auth = x /\ p.transport = y
    BY ONLY <2>1
  <2>3. PortableProfile(profile)
          = [profile EXCEPT !.auth = PortableLogin(profile.auth),
                            !.transport = PortableTransport(profile.transport)]
    BY <2>1 DEF PortableProfile
  <2> HIDE DEF portable
  <2>4. QED BY <1>1, <2>2, <2>3 DEF transport
<1>3. slots = a \o b
  BY <1>2, Zenon DEF RequiredSlots
<1>4. /\ Len(a) = Len(profile.auth.secrets)
      /\ \A i, j \in 1..Len(a) : a[i] = a[j] => i = j
      /\ \A i \in 1..Len(a) : a[i].path[1] = "auth"
      /\ \E A : a \in Seq(A)
  <2>1. LoginForm(profile.auth) /\ profile.auth.kind \in {"none", "secret", "token", "keyPair"}
    BY DEF ProfileForm
  <2>2. QED BY <2>1, AuthSlotsApart
<1>5. /\ Len(b) = n
      /\ \A j \in 1..Len(b) : b[j].purpose = Reads(transport)[j].place
      /\ \A i, j \in 1..Len(b) : b[i] = b[j] => i = j
      /\ \A i \in 1..Len(b) : b[i].path[1] = "transport"
      /\ \E A : b \in Seq(A)
  <2>1. TransportForm(transport) /\ ValidTransport(transport)
    BY <1>1 DEF ProfileForm, ValidProfile, transport
  <2>2. CASE NeedsNoResolution(transport)
    <3>1. PortableTransport(transport) = transport
      BY <2>2 DEF NeedsNoResolution, PortableTransport
    <3>2. b = <<>> /\ n = 0
      BY <2>2, <3>1 DEF NeedsNoResolution, TransportSlots
    <3>3. <<>> \in Seq({}) /\ Len(<<>>) = 0
      OBVIOUS
    <3> HIDE DEF b, n
    <3>4. QED BY <3>2, <3>3
  <2>3. CASE ~NeedsNoResolution(transport)
    <3>1. n = Len(Reads(transport))
      BY <2>3
    <3>2. Len(b) = Len(Reads(transport))
          /\ \A j \in 1..Len(b) : b[j].purpose = Reads(transport)[j].place
      BY <2>1, <2>3, SlotsFollowReads
    <3>3. /\ \A i, j \in 1..Len(b) : b[i] = b[j] => i = j
          /\ \A i \in 1..Len(b) : b[i].path[1] = "transport"
          /\ \E A : b \in Seq(A)
      BY <2>1, <2>3, SlotsAreApart
    <3> HIDE DEF b, n
    <3>4. QED BY <3>1, <3>2, <3>3
  <2>4. QED BY <2>2, <2>3
<1> HIDE DEF a, b, slots, n
<1>6. PICK T : a \in Seq(T) /\ b \in Seq(T)
  <2>1. PICK A : a \in Seq(A)
    BY <1>4
  <2>2. PICK B : b \in Seq(B)
    BY <1>5
  <2>3. a \in Seq(A \cup B) /\ b \in Seq(A \cup B)
    <3>1. A \subseteq A \cup B /\ B \subseteq A \cup B
      OBVIOUS
    <3>2. QED BY <2>1, <2>2, <3>1, SeqMonotonic
  <2>4. QED BY <2>3
<1>7. /\ slots \in Seq(T) /\ Len(slots) = Len(a) + Len(b)
      /\ Len(a) \in Nat /\ Len(b) \in Nat /\ DOMAIN slots = 1..(Len(a) + Len(b))
      /\ \A i \in 1..(Len(a) + Len(b)) : slots[i] = IF i <= Len(a) THEN a[i] ELSE b[i - Len(a)]
  <2>1. /\ a \o b \in Seq(T) /\ Len(a \o b) = Len(a) + Len(b)
        /\ \A i \in 1..(Len(a) + Len(b)) : (a \o b)[i] = IF i <= Len(a) THEN a[i] ELSE b[i - Len(a)]
    BY <1>6, ConcatProperties
  <2>2. Len(a) \in Nat /\ Len(b) \in Nat
    BY <1>6, LenProperties
  <2>3. QED BY <1>3, <2>1, <2>2
<1>8. ASSUME NEW i \in (Len(a) + 1)..Len(slots)
      PROVE  slots[i].purpose = Reads(transport)[i - Len(a)].place
  <2>1. i \in 1..(Len(a) + Len(b)) /\ ~(i <= Len(a)) /\ i - Len(a) \in 1..Len(b)
    BY <1>7
  <2>2. slots[i] = b[i - Len(a)]
    BY <1>7, <2>1
  <2>3. QED BY <1>5, <2>1, <2>2
<1>9. ASSUME NEW i \in 1..(Len(a) + Len(b)), NEW j \in 1..(Len(a) + Len(b)), slots[i] = slots[j]
      PROVE  i = j
  <2>1. \A k \in 1..(Len(a) + Len(b)) :
          \/ k \in 1..Len(a) /\ slots[k] = a[k] /\ slots[k].path[1] = "auth"
          \/ /\ k - Len(a) \in 1..Len(b) /\ slots[k] = b[k - Len(a)]
             /\ slots[k].path[1] = "transport"
    <3> SUFFICES ASSUME NEW k \in 1..(Len(a) + Len(b))
                 PROVE  \/ k \in 1..Len(a) /\ slots[k] = a[k] /\ slots[k].path[1] = "auth"
                        \/ /\ k - Len(a) \in 1..Len(b) /\ slots[k] = b[k - Len(a)]
                           /\ slots[k].path[1] = "transport"
      OBVIOUS
    <3>1. CASE k <= Len(a)
      <4>1. k \in 1..Len(a) /\ slots[k] = a[k]
        BY ONLY <1>7, <3>1, k \in 1..(Len(a) + Len(b))
      <4>2. QED BY <1>4, <4>1
    <3>2. CASE ~(k <= Len(a))
      <4>1. k - Len(a) \in 1..Len(b) /\ slots[k] = b[k - Len(a)]
        BY ONLY <1>7, <3>2, k \in 1..(Len(a) + Len(b))
      <4>2. QED BY <1>5, <4>1
    <3>3. QED BY <3>1, <3>2
  <2>2. CASE i \in 1..Len(a) /\ slots[i].path[1] = "auth"
    <3>1. j \in 1..Len(a) /\ slots[j] = a[j] /\ slots[i] = a[i]
      BY <1>7, <1>9, <2>1, <2>2
    <3>2. QED BY <1>4, <1>9, <2>2, <3>1
  <2>3. CASE slots[i].path[1] # "auth"
    <3>1. /\ i - Len(a) \in 1..Len(b) /\ slots[i] = b[i - Len(a)]
          /\ j - Len(a) \in 1..Len(b) /\ slots[j] = b[j - Len(a)]
      BY <1>9, <2>1, <2>3
    <3>2. i - Len(a) = j - Len(a)
      BY <1>5, <1>9, <3>1
    <3>3. QED BY <1>7, <3>2
  <2>4. QED BY <2>1, <2>2, <2>3
<1>10. IsInjective(slots)
  BY <1>7, <1>9 DEF IsInjective
<1>11. Len(slots) = Len(profile.auth.secrets) + n
  BY <1>4, <1>5, <1>7
<1>12. Len(AuthSlots(portable.auth, <<"auth">>)) = Len(a)
  BY <1>2 DEF a
<1>13. QED BY <1>8, <1>10, <1>11, <1>12, Zenon DEF slots, n

(* required_secret_slots asks an importer for as many secrets as the       *)
(* profile refers to, in the order in which resolve_transport will read    *)
(* them, and for no two under the same path and purpose: what an importer  *)
(* puts in is what its own resolution finds.                               *)
THEOREM ImportersAreAsked == Spec => []SlotsAreRead
<1>1. IInv => SlotsAreRead
  BY SlotsFitReads DEF IInv, TypeOK
<1>2. QED BY <1>1, ResolutionsAreSound, PTL
=============================================================================
