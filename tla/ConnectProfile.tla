--------------------------- MODULE ConnectProfile ---------------------------
(***************************************************************************)
(* How a profile becomes a TDS configuration, or why it does not: the      *)
(* steps of connect in src/driver.rs before the socket is opened.          *)
(* from_request reads the profile, with_entra_token exchanges a credential *)
(* for a token, tds_config chooses login, trust and encryption from the    *)
(* ADO string, the fields and the token.  Each can end the attempt.        *)
(*                                                                         *)
(* A profile is what these steps can tell apart: which options it holds,   *)
(* not their text.  tiberius and its reading of a connection string are    *)
(* external; the two constants about it are what this code cannot know.    *)
(***************************************************************************)
CONSTANTS
  None,
  StringDefault,  \* the encryption of a connection string that says nothing of it
  EmptyIsCa       \* whether an empty TrustServerCertificateCA= sets a CA

Principal == {"tenantId", "clientId", "clientSecret"}
Entra == {"managedIdentity", "servicePrincipal", "azureAd"}

(* A connection string: none, one that is refused, or what a good one says *)
(* of certificates (TrustServerCertificate=true, TrustServerCertificateCA) *)
(* and of encryption.                                                      *)
AdoStrings ==
  [form : {"none", "malformed"}, trusting : {FALSE}, ca : {"none"}, encrypt : {None}]
    \cup [form : {"good"}, trusting : BOOLEAN, ca : {"none", "empty", "named"},
          encrypt : {None, "true", "false", "plaintext"}]

Profiles ==
  [ado : AdoStrings,
   secrets : SUBSET {"accessToken", "token"},
   authMethod : Entra \cup {None, "customDriverOptions", "sqlPassword"},
   msi : BOOLEAN,              \* managedIdentity, useManagedIdentity or msi
   userAssigned : BOOLEAN,     \* managedIdentityClientId and its other names
   principal : SUBSET Principal,
   ca : {"none", "file", "missing"},
   insecure : BOOLEAN,
   encrypt : {None, "required", "prefer", "loginOnly", "off", "nonsense"}]

(* Whom a fetched token identifies. *)
Identities == {"principal", "system", "userAssigned"}
Tokens == {"accessToken", "token"} \cup Identities

Requests ==
  [to : {"entra", "injected", "imds"},
   secret : {"clientSecret", "identityHeader", "none"},
   identity : Identities]

Levels == {"required", "on", "loginOnly", "none"}

Configs ==
  [login : {"ado", "sql"} \cup Tokens,
   trust : {"system", "adoCa", "ca", "all"},
   encryption : Levels]

ASSUME ProfileAssumption ==
  /\ StringDefault \in Levels
  /\ EmptyIsCa \in BOOLEAN
  /\ None \notin {"managedIdentity", "servicePrincipal", "azureAd", "customDriverOptions",
                "sqlPassword", "accessToken", "token", "principal", "system", "userAssigned",
                "clientSecret", "incomplete", "required", "prefer", "loginOnly", "off", "nonsense",
                "on", "none", "true", "false", "plaintext"} \cup Profiles \cup Requests \cup Configs

VARIABLES
  stage,     \* where the attempt stands, or how it ended
  profile,   \* the request of connect
  entra,     \* config.entra: the credential still to exchange, or None
  request,   \* the token request on its way, or None
  token,     \* config.access_token: where it came from, or None
  tds        \* the tiberius Config: login, trust, encryption

vars == <<stage, profile, entra, request, token, tds>>

Ends == {"invalidRequest", "connectFailed", "dialled", "aborted"}

TypeOK ==
  /\ stage \in {"idle", "token", "answer", "config"} \cup Ends
  /\ profile \in Profiles \cup {None}
  /\ entra \in {None, "managedIdentity", "clientSecret"}
  /\ request \in Requests \cup {None}
  /\ token \in Tokens \cup {None}
  /\ tds \in Configs \cup {None}

Init ==
  /\ stage = "idle"
  /\ profile = None /\ entra = None /\ request = None /\ token = None /\ tds = None

-----------------------------------------------------------------------------
(* EntraCredential::from_request: the method the form chose decides; hand- *)
(* written options are judged by their values.                             *)

ClientSecret(p) == IF p.principal = Principal THEN "clientSecret" ELSE "incomplete"

FromValues(p) ==
  IF p.msi THEN "managedIdentity"
  ELSE IF p.principal # {} THEN ClientSecret(p)
  ELSE None

(* A mutant: the values decide under every method but an Entra one.        *)
CredentialByValues(p) ==
  CASE p.authMethod = "managedIdentity" -> "managedIdentity"
    [] p.authMethod \in {"servicePrincipal", "azureAd"} -> ClientSecret(p)
    [] OTHER -> FromValues(p)

Credential(p) ==
  CASE p.authMethod = "managedIdentity" -> "managedIdentity"
    [] p.authMethod \in {"servicePrincipal", "azureAd"} -> ClientSecret(p)
    [] p.authMethod \in {None, "customDriverOptions"} -> FromValues(p)
    [] OTHER -> None

(* option_string takes the first name that is there. *)
SuppliedToken(p) ==
  IF "accessToken" \in p.secrets THEN "accessToken"
  ELSE IF "token" \in p.secrets THEN "token"
  ELSE None

(* A mutant: what is missing is left for the token request to find out.    *)
FromRequestUnchecked(p) ==
  /\ profile' = p
  /\ token' = SuppliedToken(p)
  /\ stage' = "token"
  /\ entra' = IF SuppliedToken(p) = None THEN Credential(p) ELSE None
  /\ UNCHANGED <<request, tds>>

(* connect is called: SqlServerConfig::from_request.                       *)
FromRequest(p) ==
  LET credential == IF SuppliedToken(p) = None THEN Credential(p) ELSE None IN
  /\ profile' = p
  /\ token' = SuppliedToken(p)
  /\ IF credential = "incomplete"
       THEN stage' = "invalidRequest" /\ entra' = None
       ELSE stage' = "token" /\ entra' = credential
  /\ UNCHANGED <<request, tds>>

-----------------------------------------------------------------------------
(* SqlServerConfig::with_entra_token and the exchange under it.            *)

NoCredential ==
  /\ stage = "token" /\ entra = None
  /\ stage' = "config"
  /\ UNCHANGED <<profile, entra, request, token, tds>>

(* managed_identity_endpoint_from, by whether IDENTITY_ENDPOINT and        *)
(* IDENTITY_HEADER are in the environment.                                 *)
ManagedIdentityEndpoint(p, endpoint, header) ==
  [to |-> IF endpoint /\ header THEN "injected" ELSE "imds",
   secret |-> IF endpoint /\ header THEN "identityHeader" ELSE "none",
   identity |-> IF p.userAssigned THEN "userAssigned" ELSE "system"]

ClientCredentials == [to |-> "entra", secret |-> "clientSecret", identity |-> "principal"]

SendTokenRequest ==
  /\ stage = "token" /\ entra # None
  /\ entra' = None
  /\ IF entra = "clientSecret" THEN request' = ClientCredentials
     ELSE \E endpoint, header \in BOOLEAN :
            request' = ManagedIdentityEndpoint(profile, endpoint, header)
  /\ stage' = "answer"
  /\ UNCHANGED <<profile, token, tds>>

(* What comes back; a redirect is not followed and is no success.          *)
Responses == [answered : BOOLEAN, success : BOOLEAN, accessToken : {"absent", "empty", "text"}]

(* read_token: does the response hold a token?                             *)
ReadToken(r) == r.answered /\ r.success /\ r.accessToken = "text"

(* The token is for the identity the request asked for: the provider's     *)
(* doing.  Without one the attempt is over: the provider cannot be         *)
(* reached, refuses, or does not answer within TOKEN_REQUEST_TIMEOUT.      *)
EndTokenRequest ==
  /\ stage = "answer"
  /\ request' = None
  /\ \E r \in Responses :
       IF ReadToken(r)
         THEN token' = request.identity /\ stage' = "config"
         ELSE stage' = "connectFailed" /\ UNCHANGED token
  /\ UNCHANGED <<profile, entra, tds>>

-----------------------------------------------------------------------------
(* SqlServerConfig::tds_config.                                            *)

(* A mutant: tiberius' "Off", which encrypts the login, taken for off.     *)
EncryptionOffIsLoginOnly(word) ==
  CASE word = "required" -> "required"
    [] word = "prefer" -> "on"
    [] word \in {"loginOnly", "off"} -> "loginOnly"
    [] OTHER -> None

EncryptionOf(word) ==
  CASE word = "required" -> "required"
    [] word = "prefer" -> "on"
    [] word = "loginOnly" -> "loginOnly"
    [] word = "off" -> "none"
    [] OTHER -> None

(* What tiberius reads off the string.                                     *)
SetsCa(ado) == ado.ca = "named" \/ (ado.ca = "empty" /\ EmptyIsCa)
StringLevel(ado) ==
  CASE ado.encrypt = "true" -> "required"
    [] ado.encrypt = "false" -> "loginOnly"
    [] ado.encrypt = "plaintext" -> "none"
    [] OTHER -> StringDefault

(* What the connector reads off it: ado_names_ca.                          *)
AdoNamesCa(ado) == ado.ca = "named"

(* Config::from_ado_string, or the fields one by one.                      *)
Base(p) ==
  IF p.ado.form = "none"
    THEN [login |-> "sql", trust |-> "system", encryption |-> "required"]
    ELSE [login |-> "ado",
          trust |-> IF p.ado.trusting THEN "all" ELSE IF SetsCa(p.ado) THEN "adoCa" ELSE "system",
          encryption |-> StringLevel(p.ado)]

(* A mutant: the connection string's login outranks the token.             *)
ChosenAdoFirst(p) ==
  [Base(p) EXCEPT !.login = IF token = None \/ p.ado.form # "none" THEN @ ELSE token,
                  !.encryption = IF EncryptionOf(p.encrypt) = None
                                   THEN @ ELSE EncryptionOf(p.encrypt)]

(* The same with the token in place of any other login, and the encryption *)
(* the options ask for in place of the string's.                           *)
Chosen(p) ==
  [Base(p) EXCEPT !.login = IF token = None THEN @ ELSE token,
                  !.encryption = IF EncryptionOf(p.encrypt) = None
                                   THEN @ ELSE EncryptionOf(p.encrypt)]

(* TlsTrust::apply refuses the last two.                                   *)
Malformed(p) == p.ado.form = "malformed"
Contradictory(p) == p.insecure /\ (p.ca # "none" \/ AdoNamesCa(p.ado))
NamesNoFile(p) == p.ca = "missing"
Refused(p) == Malformed(p) \/ Contradictory(p) \/ NamesNoFile(p)

(* TlsTrust::apply calls trust_cert; it calls trust_cert_ca when an option *)
(* names a CA.                                                             *)
TrustsAll(p) == p.insecure /\ p.ca = "none" /\ ~AdoNamesCa(p.ado)

(* tiberius panics where the one is called after the other: in reading the *)
(* string, and in apply.                                                   *)
StringPanics(p) == p.ado.trusting /\ SetsCa(p.ado)
ApplyPanics(p) ==
  \/ p.ca = "file" /\ Base(p).trust = "all"
  \/ TrustsAll(p) /\ Base(p).trust = "adoCa"

Configured(p) ==
  [Chosen(p) EXCEPT !.trust = IF p.ca = "file" THEN "ca" ELSE IF TrustsAll(p) THEN "all" ELSE @]

ConfigFails ==
  /\ stage = "config"
  /\ ~StringPanics(profile) /\ Refused(profile)
  /\ stage' = "connectFailed"
  /\ UNCHANGED <<profile, entra, request, token, tds>>

ConfigPanics ==
  /\ stage = "config"
  /\ StringPanics(profile) \/ (~Refused(profile) /\ ApplyPanics(profile))
  /\ stage' = "aborted"
  /\ UNCHANGED <<profile, entra, request, token, tds>>

(* What is left is dialled.                                                *)
TdsConfig ==
  /\ stage = "config"
  /\ ~StringPanics(profile) /\ ~Refused(profile) /\ ~ApplyPanics(profile)
  /\ stage' = "dialled"
  /\ tds' = Configured(profile)
  /\ UNCHANGED <<profile, entra, request, token>>

(* The call returns; the next connect starts from its own profile.         *)
Return ==
  /\ stage \in Ends \ {"aborted"}
  /\ stage' = "idle"
  /\ profile' = None /\ entra' = None /\ request' = None /\ token' = None /\ tds' = None

Next ==
  \/ stage = "idle" /\ \E p \in Profiles : FromRequest(p)
  \/ NoCredential \/ SendTokenRequest \/ EndTokenRequest
  \/ ConfigFails \/ ConfigPanics \/ TdsConfig \/ Return

Spec == Init /\ [][Next]_vars

-----------------------------------------------------------------------------

(* The profile means an Entra identity: its form method says so, or it has *)
(* no form method and holds a value only an Entra login uses.              *)
MeansEntra(p) ==
  \/ p.authMethod \in Entra
  \/ p.authMethod \in {None, "customDriverOptions"} /\ (p.msi \/ p.principal # {})

(* The identity it means: a service principal's, or the host's own, which  *)
(* is the system's unless the profile names one that a user has assigned.  *)
IdentityMeant(p) ==
  IF p.authMethod = "managedIdentity" \/ (p.authMethod \in {None, "customDriverOptions"} /\ p.msi)
    THEN IF p.userAssigned THEN "userAssigned" ELSE "system"
    ELSE "principal"

(* The login that reaches the server is the most specific the profile      *)
(* asks for: its own token before one fetched with its credential before   *)
(* the connection string's or the fields' login; an Entra profile never    *)
(* ends up as a SQL login, whatever else it holds (from_request,           *)
(* with_entra_token, tds_config).                                          *)
LoginAsAsked == stage = "dialled" =>
  tds.login = IF SuppliedToken(profile) # None THEN SuppliedToken(profile)
              ELSE IF MeansEntra(profile) THEN IdentityMeant(profile)
              ELSE IF profile.ado.form # "none" THEN "ado"
              ELSE "sql"

(* An identity provider is asked only for a profile that means Entra and   *)
(* brings no token, with a complete credential; and the endpoint that      *)
(* wants a secret is asked with one (EntraCredential,                      *)
(* managed_identity_endpoint_from: "Both or neither").                     *)
FetchOnlyIfMeant == [][request = None /\ request' # None =>
  /\ MeansEntra(profile) /\ profile.secrets = {}
  /\ request'.to = "entra" => profile.principal = Principal
  /\ request'.to # "entra" => profile.authMethod = "managedIdentity" \/ profile.msi
  /\ (request'.to = "imds") = (request'.secret = "none")]_vars

(* Certificates go unverified exactly if an option or the connection string*)
(* says so and nothing names a CA; a named CA is the one verified against, *)
(* the option's before the string's.  The encryption is the one that the   *)
(* option's word means, and without a word that means one the string's,    *)
(* and without a string all of it: nothing else leaves traffic, or all but *)
(* the login, in the clear (TlsTrust, and the test                         *)
(* encryption_levels_map_from_the_words_a_user_would_write).               *)
TlsAsAsked == stage = "dialled" =>
  LET named == profile.ado.ca = "named"
      silent == profile.encrypt \in {None, "nonsense"}
  IN
  /\ tds.trust = "all" <=>
       (profile.insecure \/ profile.ado.trusting) /\ profile.ca = "none" /\ ~named
  /\ profile.ca # "none" => tds.trust = "ca"
  /\ profile.ca = "none" /\ named => tds.trust = "adoCa"
  /\ ~silent => <<profile.encrypt, tds.encryption>> \in
       {<<"required", "required">>, <<"prefer", "on">>, <<"loginOnly", "loginOnly">>,
        <<"off", "none">>}
  /\ silent /\ profile.ado.form = "none" => tds.encryption = "required"
  /\ silent /\ profile.ado.form = "good" => <<profile.ado.encrypt, tds.encryption>> \in
       {<<"true", "required">>, <<"false", "loginOnly">>, <<"plaintext", "none">>,
        <<None, StringDefault>>}

(* The comment on TlsTrust::apply: "`Err` rather than a panic when the     *)
(* profile asks for both a CA and blanket trust".  A string that asks for  *)
(* both by itself never gets there.                                        *)
NeverPanics == stage = "aborted" => StringPanics(profile)

-----------------------------------------------------------------------------
(* What makes these inductive.                                             *)

(* The token an attempt goes on with once nothing is left to exchange.     *)
TokenMeant(p) ==
  IF SuppliedToken(p) # None THEN SuppliedToken(p)
  ELSE IF MeansEntra(p) THEN IdentityMeant(p)
  ELSE None

(* Each step hands the next what the profile asks for: a credential only   *)
(* without a token, a request only for the identity meant, a token only if *)
(* one is meant.  What is dialled asks for no CA beside blanket trust; and *)
(* a panic needs the string to do so itself, the string to trust and an    *)
(* option to name a CA, or an option to trust and an empty CA in the       *)
(* string.                                                                 *)
Handed ==
  /\ stage = "idle" <=> profile = None
  /\ request # None <=> stage = "answer"
  /\ stage = "token" =>
       /\ token = SuppliedToken(profile)
       /\ entra = IF token = None THEN Credential(profile) ELSE None
  /\ stage = "answer" => request.identity = TokenMeant(profile)
  /\ stage \in {"config", "dialled"} => token = TokenMeant(profile)
  /\ stage # "dialled" => tds = None
  /\ stage = "dialled" =>
       /\ ~StringPanics(profile) /\ ~Refused(profile) /\ ~ApplyPanics(profile)
       /\ tds = Configured(profile)
  /\ stage = "aborted" =>
       \/ profile.ado.trusting /\ profile.ado.ca # "none"
       \/ profile.ado.trusting /\ profile.ca = "file" /\ ~profile.insecure
       \/ profile.ado.ca = "empty" /\ profile.ca = "none" /\ profile.insecure

IInv == TypeOK /\ Handed
=============================================================================
