---------------------------- MODULE ProfileProofs ----------------------------
(***************************************************************************)
(* What TLAPS proves of ConnectProfile: login, certificates, encryption    *)
(* and token requests are what the profile asks for, whatever follows      *)
(* whatever.  None stands for what is absent and is none of the values it  *)
(* stands beside.  At the end, what is proved of RuntimeOnce: every        *)
(* connection, and every call on it, waits on the one Runtime.             *)
(***************************************************************************)
EXTENDS ConnectProfile, RuntimeOnce, TLAPS

(* What the profile's own fields can say.                                  *)
LEMMA ProfileFields ==
  ASSUME NEW p \in Profiles
  PROVE  /\ p.ado \in AdoStrings
         /\ p.secrets \in SUBSET {"accessToken", "token"}
         /\ p.authMethod \in Entra \cup {None, "customDriverOptions", "sqlPassword"}
         /\ p.msi \in BOOLEAN /\ p.userAssigned \in BOOLEAN
         /\ p.principal \in SUBSET Principal
         /\ p.ca \in {"none", "file", "missing"} /\ p.insecure \in BOOLEAN
         /\ p.encrypt \in {None, "required", "prefer", "loginOnly", "off", "nonsense"}
BY DEF Profiles

(* And a connection string: one that is refused says nothing.              *)
LEMMA StringFields ==
  ASSUME NEW ado \in AdoStrings
  PROVE  /\ ado.form \in {"none", "malformed", "good"}
         /\ ado.trusting \in BOOLEAN /\ ado.ca \in {"none", "empty", "named"}
         /\ ado.encrypt \in {None, "true", "false", "plaintext"}
         /\ ado.form # "good" => ~ado.trusting /\ ado.ca = "none" /\ ado.encrypt = None
BY DEF AdoStrings

(* A credential is found exactly in a profile that means an Entra identity. *)
LEMMA CredentialMeansEntra ==
  ASSUME NEW p \in Profiles
  PROVE  /\ Credential(p) \in {None, "managedIdentity", "clientSecret", "incomplete"}
         /\ Credential(p) # None <=> MeansEntra(p)
         /\ Credential(p) = "managedIdentity" =>
              /\ IdentityMeant(p) = IF p.userAssigned THEN "userAssigned" ELSE "system"
              /\ p.authMethod = "managedIdentity" \/ p.msi
         /\ Credential(p) = "clientSecret" =>
              IdentityMeant(p) = "principal" /\ p.principal = Principal
<1> USE ProfileAssumption
<1>1. ClientSecret(p) \in {"clientSecret", "incomplete"}
      /\ (ClientSecret(p) = "clientSecret" => p.principal = Principal)
  BY DEF ClientSecret
<1>2. None \notin {"managedIdentity", "clientSecret", "incomplete"} \cup Entra
                  \cup {"customDriverOptions", "sqlPassword"}
  BY DEF Entra
<1>3. CASE p.authMethod = "managedIdentity"
  BY <1>2, <1>3 DEF Credential, MeansEntra, IdentityMeant, Entra
<1>4. CASE p.authMethod \in {"servicePrincipal", "azureAd"}
  BY <1>1, <1>2, <1>4 DEF Credential, MeansEntra, IdentityMeant, Entra
<1>5. CASE p.authMethod \in {None, "customDriverOptions"}
  <2>1. Credential(p) = FromValues(p) /\ p.authMethod \notin Entra
    BY <1>2, <1>5 DEF Credential, Entra
  <2>2. MeansEntra(p) <=> p.msi \/ p.principal # {}
    BY <1>5, <2>1 DEF MeansEntra
  <2>3. CASE p.msi
    BY <1>2, <1>5, <2>1, <2>2, <2>3 DEF FromValues, IdentityMeant
  <2>4. CASE ~p.msi
    <3>1. IdentityMeant(p) = "principal"
      BY <1>2, <1>5, <2>4 DEF IdentityMeant
    <3>2. FromValues(p) = IF p.principal # {} THEN ClientSecret(p) ELSE None
      BY <2>4 DEF FromValues
    <3>3. QED BY <1>1, <1>2, <2>1, <2>2, <2>4, <3>1, <3>2
  <2>5. QED BY <2>3, <2>4
<1>6. CASE p.authMethod = "sqlPassword"
  BY <1>2, <1>6 DEF Credential, MeansEntra, Entra
<1>7. QED BY <1>3, <1>4, <1>5, <1>6, ProfileFields DEF Entra

LEMMA SuppliedIsAToken ==
  ASSUME NEW p \in Profiles
  PROVE  /\ SuppliedToken(p) \in {"accessToken", "token"} \cup {None}
         /\ SuppliedToken(p) = None <=> p.secrets = {}
<1>1. None \notin {"accessToken", "token"}
  BY ProfileAssumption
<1>2. QED BY <1>1, ProfileFields DEF SuppliedToken

LEMMA IdentityIsOne ==
  ASSUME NEW p
  PROVE  IdentityMeant(p) \in Identities
BY DEF IdentityMeant, Identities

LEMMA Absence == None \notin Tokens \cup Profiles \cup Requests \cup Configs
                             \cup {"managedIdentity", "clientSecret", "incomplete"}
BY ProfileAssumption DEF Tokens, Identities

-----------------------------------------------------------------------------
(* One lemma per step.                                                     *)

LEMMA FromRequestKeeps ==
  ASSUME IInv, stage = "idle", NEW p \in Profiles, FromRequest(p)
  PROVE  IInv'
<1> DEFINE credential == IF SuppliedToken(p) = None THEN Credential(p) ELSE None
<1>1. /\ SuppliedToken(p) \in Tokens \cup {None} /\ p # None
      /\ credential \in {None, "managedIdentity", "clientSecret", "incomplete"}
  BY SuppliedIsAToken, CredentialMeansEntra, Absence DEF Tokens
<1>2. /\ profile' = p /\ token' = SuppliedToken(p) /\ request' = request /\ tds' = tds
      /\ \/ credential = "incomplete" /\ stage' = "invalidRequest" /\ entra' = None
         \/ credential # "incomplete" /\ stage' = "token" /\ entra' = credential
  BY DEF FromRequest
<1>3. request = None /\ tds = None /\ TypeOK
  BY DEF IInv, Handed
<1>4. TypeOK'
  BY <1>1, <1>2, <1>3 DEF TypeOK, Ends
<1>5. Handed'
  BY <1>1, <1>2, <1>3 DEF Handed
<1>6. QED BY <1>4, <1>5 DEF IInv

LEMMA NoCredentialKeeps ==
  ASSUME IInv, NoCredential
  PROVE  IInv'
<1>1. /\ stage = "token" /\ entra = None /\ stage' = "config"
      /\ UNCHANGED <<profile, entra, request, token, tds>> /\ TypeOK /\ Handed
  BY DEF IInv, NoCredential
<1>2. profile \in Profiles
  BY <1>1 DEF TypeOK, Handed
<1>3. token = TokenMeant(profile)
  <2>1. token = SuppliedToken(profile) /\ (token = None => ~MeansEntra(profile))
    BY <1>1, <1>2, CredentialMeansEntra DEF Handed
  <2>2. QED BY <2>1 DEF TokenMeant
<1>4. QED
  BY <1>1, <1>2, <1>3, Absence DEF IInv, TypeOK, Handed, TokenMeant

(* A request goes out for the identity the profile means.                  *)
LEMMA RequestMeant ==
  ASSUME IInv, SendTokenRequest
  PROVE  /\ profile \in Profiles /\ token = None /\ profile.secrets = {} /\ MeansEntra(profile)
         /\ request' \in Requests /\ request'.identity = TokenMeant(profile)
         /\ request'.to = "entra" => profile.principal = Principal
         /\ request'.to # "entra" => profile.authMethod = "managedIdentity" \/ profile.msi
         /\ (request'.to = "imds") = (request'.secret = "none")
<1>1. stage = "token" /\ entra # None /\ TypeOK /\ Handed
  BY DEF IInv, SendTokenRequest
<1>2. profile \in Profiles
  BY <1>1 DEF TypeOK, Handed
<1>3. /\ token = None /\ SuppliedToken(profile) = None /\ entra = Credential(profile)
      /\ entra \in {"managedIdentity", "clientSecret"}
  BY <1>1 DEF TypeOK, Handed
<1>4. profile.secrets = {} /\ MeansEntra(profile) /\ TokenMeant(profile) = IdentityMeant(profile)
  BY <1>1, <1>2, <1>3, SuppliedIsAToken, CredentialMeansEntra DEF TokenMeant
<1>5. CASE entra = "clientSecret"
  <2>1. request' = ClientCredentials
    BY <1>5 DEF SendTokenRequest
  <2>2. IdentityMeant(profile) = "principal" /\ profile.principal = Principal
    BY <1>2, <1>3, <1>5, CredentialMeansEntra
  <2>3. QED BY <1>2, <1>3, <1>4, <2>1, <2>2 DEF ClientCredentials, Requests, Identities
<1>6. CASE entra = "managedIdentity"
  <2>1. PICK endpoint \in BOOLEAN, header \in BOOLEAN :
          request' = ManagedIdentityEndpoint(profile, endpoint, header)
    BY <1>6 DEF SendTokenRequest
  <2>2. /\ IdentityMeant(profile) = IF profile.userAssigned THEN "userAssigned" ELSE "system"
        /\ profile.authMethod = "managedIdentity" \/ profile.msi
    BY <1>2, <1>3, <1>6, CredentialMeansEntra
  <2>3. QED BY <1>2, <1>3, <1>4, <2>1, <2>2 DEF ManagedIdentityEndpoint, Requests, Identities
<1>7. QED BY <1>3, <1>5, <1>6

LEMMA SendTokenRequestKeeps ==
  ASSUME IInv, SendTokenRequest
  PROVE  IInv'
<1>1. /\ stage = "token" /\ stage' = "answer" /\ entra' = None
      /\ UNCHANGED <<profile, token, tds>> /\ TypeOK /\ Handed
  BY DEF IInv, SendTokenRequest
<1>2. profile \in Profiles /\ request' \in Requests /\ request'.identity = TokenMeant(profile)
  BY RequestMeant
<1>3. TypeOK'
  BY <1>1, <1>2 DEF TypeOK
<1>4. Handed'
  BY <1>1, <1>2, Absence DEF Handed, TokenMeant
<1>5. QED BY <1>1, <1>3, <1>4 DEF IInv

LEMMA EndTokenRequestKeeps ==
  ASSUME IInv, EndTokenRequest
  PROVE  IInv'
<1>1. /\ stage = "answer" /\ request' = None /\ UNCHANGED <<profile, entra, tds>>
      /\ \/ token' = request.identity /\ stage' = "config"
         \/ stage' = "connectFailed" /\ token' = token
      /\ TypeOK /\ Handed
  BY DEF IInv, EndTokenRequest
<1>2. /\ request \in Requests /\ request.identity = TokenMeant(profile) /\ profile # None
      /\ tds = None
  BY <1>1 DEF TypeOK, Handed
<1>3. request.identity \in Tokens
  BY <1>2 DEF Requests, Tokens
<1>4. TypeOK'
  BY <1>1, <1>3 DEF TypeOK, Ends
<1>5. Handed'
  BY <1>1, <1>2 DEF Handed, TokenMeant
<1>6. QED BY <1>1, <1>4, <1>5 DEF IInv

LEMMA ConfigFailsKeeps ==
  ASSUME IInv, ConfigFails
  PROVE  IInv'
<1>1. /\ stage = "config" /\ stage' = "connectFailed"
      /\ UNCHANGED <<profile, entra, request, token, tds>> /\ TypeOK /\ Handed
  BY DEF IInv, ConfigFails
<1>2. QED BY <1>1 DEF IInv, TypeOK, Handed, Ends

LEMMA ConfigPanicsKeeps ==
  ASSUME IInv, ConfigPanics
  PROVE  IInv'
<1>1. /\ stage = "config" /\ stage' = "aborted"
      /\ StringPanics(profile) \/ (~Refused(profile) /\ ApplyPanics(profile))
      /\ UNCHANGED <<profile, entra, request, token, tds>> /\ TypeOK /\ Handed
  BY DEF IInv, ConfigPanics
<1>2. profile \in Profiles /\ profile.ado \in AdoStrings
  BY <1>1, ProfileFields DEF TypeOK, Handed
<1>3. SetsCa(profile.ado) => profile.ado.ca \in {"empty", "named"}
  BY DEF SetsCa
<1>4. CASE StringPanics(profile)
  BY <1>1, <1>3, <1>4 DEF IInv, TypeOK, Handed, Ends, StringPanics
<1>5. CASE ~Refused(profile) /\ profile.ca = "file" /\ Base(profile).trust = "all"
  <2>1. profile.ado.trusting
    BY <1>5 DEF Base
  <2>2. ~profile.insecure
    BY <1>2, <1>5, ProfileFields DEF Refused, Contradictory
  <2>3. QED BY <1>1, <1>5, <2>1, <2>2 DEF IInv, TypeOK, Handed, Ends
<1>6. CASE TrustsAll(profile) /\ Base(profile).trust = "adoCa"
  <2>1. profile.ado.ca = "empty"
    BY <1>3, <1>6 DEF Base, TrustsAll, AdoNamesCa
  <2>2. QED BY <1>1, <1>6, <2>1 DEF IInv, TypeOK, Handed, Ends, TrustsAll
<1>7. QED BY <1>1, <1>4, <1>5, <1>6 DEF ApplyPanics

(* The configuration, field by field.                                      *)
LEMMA ConfiguredFields ==
  ASSUME NEW p \in Profiles, token \in Tokens \cup {None}
  PROVE  /\ Configured(p) \in Configs
         /\ Configured(p).login = IF token # None THEN token
                                  ELSE IF p.ado.form # "none" THEN "ado" ELSE "sql"
         /\ Configured(p).trust = IF p.ca = "file" THEN "ca" ELSE IF TrustsAll(p) THEN "all"
                                  ELSE Base(p).trust
         /\ Configured(p).encryption = IF EncryptionOf(p.encrypt) = None THEN Base(p).encryption
                                       ELSE EncryptionOf(p.encrypt)
<1> DEFINE base == Base(p)
           word == EncryptionOf(p.encrypt)
<1>1. /\ base \in Configs
      /\ base.login = IF p.ado.form = "none" THEN "sql" ELSE "ado"
      /\ base.trust \in {"system", "adoCa", "all"} /\ base.encryption \in Levels
  <2>1. StringLevel(p.ado) \in Levels
    BY ProfileAssumption DEF StringLevel, Levels
  <2>2. QED BY <2>1 DEF Base, Configs, Levels
<1>2. word \in Levels \cup {None}
  BY DEF EncryptionOf, Levels
<1> HIDE DEF base, word
<1>3. Chosen(p) = [base EXCEPT !.login = IF token = None THEN @ ELSE token,
                               !.encryption = IF word = None THEN @ ELSE word]
  BY DEF Chosen, base, word
<1>4. Configured(p) =
        [login |-> IF token = None THEN base.login ELSE token,
         trust |-> IF p.ca = "file" THEN "ca" ELSE IF TrustsAll(p) THEN "all" ELSE base.trust,
         encryption |-> IF word = None THEN base.encryption ELSE word]
  <2>1. base = [login |-> base.login, trust |-> base.trust, encryption |-> base.encryption]
    BY <1>1 DEF Configs
  <2>2. Chosen(p) = [login |-> IF token = None THEN base.login ELSE token,
                     trust |-> base.trust,
                     encryption |-> IF word = None THEN base.encryption ELSE word]
    BY <1>3, <2>1
  <2>3. QED BY <2>2 DEF Configured, base
<1>5. /\ (IF token = None THEN base.login ELSE token) \in {"ado", "sql"} \cup Tokens
      /\ (IF p.ca = "file" THEN "ca" ELSE IF TrustsAll(p) THEN "all" ELSE base.trust)
           \in {"system", "adoCa", "ca", "all"}
      /\ (IF word = None THEN base.encryption ELSE word) \in Levels
  BY <1>1, <1>2
<1>6. Configured(p) \in Configs
  BY ONLY <1>4, <1>5 DEF Configs
<1>7. QED BY <1>1, <1>4, <1>6 DEF base, word

LEMMA TdsConfigKeeps ==
  ASSUME IInv, TdsConfig
  PROVE  IInv'
<1>1. /\ stage = "config" /\ UNCHANGED <<profile, entra, request, token>>
      /\ ~StringPanics(profile) /\ ~Refused(profile) /\ ~ApplyPanics(profile)
      /\ stage' = "dialled" /\ tds' = Configured(profile) /\ TypeOK /\ Handed
  BY DEF IInv, TdsConfig
<1>2. /\ profile \in Profiles /\ profile # None /\ token = TokenMeant(profile)
      /\ token \in Tokens \cup {None} /\ request = None
  BY <1>1 DEF TypeOK, Handed
<1>3. tds' \in Configs
  BY <1>1, <1>2, ConfiguredFields
<1>4. TypeOK'
  BY <1>1, <1>3 DEF TypeOK, Ends
<1>5. (Configured(profile))' = Configured(profile)
  BY <1>1 DEF Configured, Chosen
<1>6. Handed'
  BY <1>1, <1>2, <1>5 DEF Handed, TokenMeant
<1>7. QED BY <1>4, <1>6 DEF IInv

LEMMA ReturnKeeps ==
  ASSUME Return
  PROVE  IInv'
BY DEF Return, IInv, TypeOK, Handed

LEMMA NextKeeps == IInv /\ [Next]_vars => IInv'
<1> SUFFICES ASSUME IInv, [Next]_vars PROVE IInv'
  OBVIOUS
<1>1. CASE UNCHANGED vars
  <2>1. UNCHANGED <<stage, profile, entra, request, token, tds>>
    BY <1>1 DEF vars
  <2>2. (Configured(profile))' = Configured(profile)
    BY <2>1 DEF Configured, Chosen
  <2>3. QED BY <2>1, <2>2 DEF IInv, TypeOK, Handed
<1>2. QED
  BY <1>1, FromRequestKeeps, NoCredentialKeeps, SendTokenRequestKeeps, EndTokenRequestKeeps,
     ConfigFailsKeeps, ConfigPanicsKeeps, TdsConfigKeeps, ReturnKeeps DEF Next

-----------------------------------------------------------------------------

(* Each step of an attempt hands the next what the profile asks for, and   *)
(* tiberius panics only on a connection string that asks for a CA and for  *)
(* blanket trust itself, on a trusting one with an option's CA, and on one *)
(* that names an empty CA with an option to trust (from_request,           *)
(* with_entra_token, tds_config, TlsTrust::apply).                         *)
THEOREM AttemptsAreSound == Spec => []IInv
<1>1. Init => IInv
  BY DEF Init, IInv, TypeOK, Handed
<1>2. QED
  BY <1>1, NextKeeps, PTL DEF Spec

(* What is dialled is the configuration of a profile that is not refused.  *)
LEMMA Dialled ==
  ASSUME IInv, stage = "dialled"
  PROVE  /\ profile \in Profiles /\ token = TokenMeant(profile) /\ token \in Tokens \cup {None}
         /\ ~StringPanics(profile) /\ ~Refused(profile) /\ ~ApplyPanics(profile)
         /\ tds = Configured(profile)
BY DEF IInv, TypeOK, Handed

(* The login that reaches the server is the most specific the profile asks *)
(* for (from_request, with_entra_token, tds_config).                       *)
THEOREM LoginIsAsAsked == Spec => []LoginAsAsked
<1>1. IInv => LoginAsAsked
  <2> SUFFICES ASSUME IInv, stage = "dialled"
               PROVE  tds.login = IF SuppliedToken(profile) # None THEN SuppliedToken(profile)
                                  ELSE IF MeansEntra(profile) THEN IdentityMeant(profile)
                                  ELSE IF profile.ado.form # "none" THEN "ado"
                                  ELSE "sql"
    BY DEF LoginAsAsked
  <2>1. tds.login = IF token # None THEN token ELSE IF profile.ado.form # "none" THEN "ado" ELSE "sql"
    BY Dialled, ConfiguredFields
  <2>2. token # None <=> SuppliedToken(profile) # None \/ MeansEntra(profile)
    BY Dialled, IdentityIsOne, Absence DEF TokenMeant, Tokens
  <2>3. QED BY <2>1, <2>2, Dialled DEF TokenMeant
<1>2. QED BY <1>1, AttemptsAreSound, PTL

(* Certificates go unverified exactly where the profile says so and names  *)
(* no CA, and the encryption is the one its words mean, the option's       *)
(* before the connection string's; without a string, all of it             *)
(* (TlsTrust::from_request and apply).                                     *)
THEOREM TlsIsAsAsked == Spec => []TlsAsAsked
<1>1. IInv => TlsAsAsked
  <2> SUFFICES ASSUME IInv, stage = "dialled" PROVE TlsAsAsked
    BY DEF TlsAsAsked
  <2> DEFINE p == profile
             base == Base(p)
             word == EncryptionOf(p.encrypt)
  <2>1. /\ p \in Profiles /\ p.ado \in AdoStrings
        /\ ~StringPanics(p) /\ ~Refused(p) /\ ~ApplyPanics(p)
        /\ tds.trust = IF p.ca = "file" THEN "ca" ELSE IF TrustsAll(p) THEN "all" ELSE base.trust
        /\ tds.encryption = IF word = None THEN base.encryption ELSE word
    BY Dialled, ConfiguredFields, ProfileFields
  <2>2. /\ p.ca \in {"none", "file"} /\ p.ado.form \in {"none", "good"} /\ p.ado.trusting \in BOOLEAN
        /\ p.insecure \in BOOLEAN /\ p.insecure => p.ca = "none" /\ p.ado.ca # "named"
    BY <2>1, ProfileFields, StringFields DEF Refused, Malformed, Contradictory, NamesNoFile, AdoNamesCa
  <2>3. /\ base.trust = IF p.ado.trusting THEN "all" ELSE IF SetsCa(p.ado) THEN "adoCa" ELSE "system"
        /\ base.encryption = IF p.ado.form = "none" THEN "required" ELSE StringLevel(p.ado)
    BY <2>1, <2>2, StringFields DEF Base, SetsCa
  <2>4. p.ado.ca = "named" => SetsCa(p.ado)
    BY DEF SetsCa
  <2>5. /\ p.ca = "file" => base.trust # "all"
        /\ TrustsAll(p) => base.trust # "adoCa"
        /\ p.ado.trusting => ~SetsCa(p.ado)
    BY <2>1 DEF ApplyPanics, StringPanics
  <2>6. /\ tds.trust = "all" <=>
             (p.insecure \/ p.ado.trusting) /\ p.ca = "none" /\ p.ado.ca # "named"
        /\ p.ca # "none" => tds.trust = "ca"
        /\ p.ca = "none" /\ p.ado.ca = "named" => tds.trust = "adoCa"
    BY <2>1, <2>2, <2>3, <2>4, <2>5 DEF TrustsAll, AdoNamesCa
  <2>7. None \notin {"required", "prefer", "loginOnly", "off", "nonsense", "on", "none", "true",
                     "false", "plaintext"}
    BY ProfileAssumption
  <2>8. /\ p.encrypt \notin {None, "nonsense"} => <<p.encrypt, tds.encryption>> \in
             {<<"required", "required">>, <<"prefer", "on">>, <<"loginOnly", "loginOnly">>,
              <<"off", "none">>}
        /\ p.encrypt \in {None, "nonsense"} => word = None
    BY <2>1, <2>7, ProfileFields DEF EncryptionOf
  <2>9. p.ado.form = "good" => <<p.ado.encrypt, base.encryption>> \in
          {<<"true", "required">>, <<"false", "loginOnly">>, <<"plaintext", "none">>,
           <<None, StringDefault>>}
    BY <2>1, <2>3, <2>7, StringFields DEF StringLevel
  <2> HIDE DEF base, word
  <2>10. QED BY <2>1, <2>3, <2>6, <2>8, <2>9 DEF TlsAsAsked
<1>2. QED BY <1>1, AttemptsAreSound, PTL

(* A token is requested only for a profile that means Entra and brings     *)
(* none, with a complete credential, of the endpoint that is asked with    *)
(* the secret it wants (with_entra_token, managed_identity_endpoint_from). *)
THEOREM FetchesAreMeant == Spec => FetchOnlyIfMeant
<1>1. IInv /\ [Next]_vars => [request = None /\ request' # None =>
        /\ MeansEntra(profile) /\ profile.secrets = {}
        /\ request'.to = "entra" => profile.principal = Principal
        /\ request'.to # "entra" => profile.authMethod = "managedIdentity" \/ profile.msi
        /\ (request'.to = "imds") = (request'.secret = "none")]_vars
  <2>1. ASSUME IInv, Next, request = None, request' # None
        PROVE  SendTokenRequest
    BY <2>1 DEF Next, FromRequest, NoCredential, EndTokenRequest, ConfigFails, ConfigPanics, TdsConfig,
       Return
  <2>2. QED BY <2>1, RequestMeant
<1>2. QED
  BY <1>1, AttemptsAreSound, PTL DEF Spec, FetchOnlyIfMeant

-----------------------------------------------------------------------------
(* However many threads race to make the Runtime, the calls all run on the *)
(* one that stays: OneRuntime, from RuntimeInv.                            *)

LEMMA InitInv == RuntimeInit => RuntimeInv
BY RuntimeAssumption DEF RuntimeInit, RuntimeInv, RuntimeTypeOK, Ownership, NoneLeaks, SetThenFound

LEMMA LookInv ==
  ASSUME RuntimeInv, NEW t \in Threads, Look(t)
  PROVE  RuntimeInv'
<1> USE DEF RuntimeInv, Look, Goto
<1>1. RuntimeTypeOK'
  BY DEF RuntimeTypeOK
<1>2. Ownership'
  BY DEF RuntimeTypeOK, Ownership
<1>3. NoneLeaks' /\ SetThenFound'
  BY DEF RuntimeTypeOK, NoneLeaks, SetThenFound
<1>4. QED BY <1>1, <1>2, <1>3

LEMMA BuildInv ==
  ASSUME RuntimeInv, NEW t \in Threads, NEW r \in Runtimes, Build(t, r)
  PROVE  RuntimeInv'
<1> USE RuntimeAssumption DEF RuntimeInv, Build, Goto
<1>1. RuntimeTypeOK'
  BY DEF RuntimeTypeOK
<1>2. r \notin alive /\ r # cell /\ \A u \in Threads : own[u] # r
  BY DEF RuntimeTypeOK, Ownership
<1>3. own[t] = NoRuntime /\ own' = [own EXCEPT ![t] = r]
  BY DEF Ownership
<1>4. Ownership'
  BY <1>2, <1>3 DEF RuntimeTypeOK, Ownership
<1>5. NoneLeaks' /\ SetThenFound'
  BY <1>3 DEF RuntimeTypeOK, NoneLeaks, SetThenFound
<1>6. QED BY <1>1, <1>4, <1>5

LEMMA SetInv ==
  ASSUME RuntimeInv, NEW t \in Threads, Set(t)
  PROVE  RuntimeInv'
<1> USE RuntimeAssumption DEF RuntimeInv, Set, Goto
<1>1. own[t] \in Runtimes /\ own[t] \in alive /\ own[t] # cell
  BY DEF RuntimeTypeOK, Ownership
<1>2. RuntimeTypeOK'
  BY <1>1 DEF RuntimeTypeOK
<1>3. \A u \in Threads \ {t} : own[u] # NoRuntime => own[u] # own[t]
  BY DEF RuntimeTypeOK, Ownership
<1>4. CASE cell = NoRuntime
  <2>1. Ownership'
    BY <1>1, <1>3, <1>4 DEF RuntimeTypeOK, Ownership
  <2>2. NoneLeaks' /\ SetThenFound'
    BY <1>1, <1>4 DEF RuntimeTypeOK, NoneLeaks, SetThenFound
  <2>3. QED BY <1>2, <2>1, <2>2
<1>5. CASE cell # NoRuntime
  <2>1. Ownership'
    BY <1>1, <1>3, <1>5 DEF RuntimeTypeOK, Ownership
  <2>2. NoneLeaks' /\ SetThenFound'
    BY <1>1, <1>5 DEF RuntimeTypeOK, NoneLeaks, SetThenFound
  <2>3. QED BY <1>2, <2>1, <2>2
<1>6. QED BY <1>4, <1>5

LEMMA OtherInv ==
  ASSUME RuntimeInv, NEW t \in Threads, BuildFails(t) \/ Get(t) \/ Done(t)
  PROVE  RuntimeInv'
<1> USE DEF RuntimeInv, BuildFails, Get, Done, Goto
<1>1. RuntimeTypeOK'
  BY DEF RuntimeTypeOK
<1>2. Ownership'
  BY RuntimeAssumption DEF RuntimeTypeOK, Ownership
<1>3. NoneLeaks' /\ SetThenFound'
  BY DEF RuntimeTypeOK, NoneLeaks, SetThenFound
<1>4. QED BY <1>1, <1>2, <1>3

LEMMA NextInv == RuntimeInv /\ [RuntimeNext]_runtimeVars => RuntimeInv'
<1>1. ASSUME RuntimeInv, RuntimeNext
      PROVE  RuntimeInv'
  BY <1>1, LookInv, BuildInv, SetInv, OtherInv DEF RuntimeNext
<1>2. ASSUME RuntimeInv, UNCHANGED runtimeVars
      PROVE  RuntimeInv'
  BY <1>2 DEF runtimeVars, RuntimeInv, RuntimeTypeOK, Ownership, NoneLeaks, SetThenFound
<1>3. QED BY <1>1, <1>2

(* The calls in block_on all run on the Runtime in the cell, and it is     *)
(* never dropped under them (runtime() of driver.rs).                      *)
THEOREM EveryCallSharesTheRuntime == RuntimeSpec => []OneRuntime
<1>1. RuntimeInv => OneRuntime
  BY DEF RuntimeInv, Ownership, OneRuntime
<1>2. QED
  BY <1>1, InitInv, NextInv, PTL DEF RuntimeSpec

(* No Runtime but the one in the cell outlives the call that built it, and *)
(* the look after the set always finds one (runtime() of driver.rs).       *)
THEOREM NoRuntimeLeaks == RuntimeSpec => [](NoneLeaks /\ SetThenFound)
<1>1. RuntimeInv => NoneLeaks /\ SetThenFound
  BY DEF RuntimeInv
<1>2. QED
  BY <1>1, InitInv, NextInv, PTL DEF RuntimeSpec
=============================================================================
