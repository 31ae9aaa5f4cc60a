---------------------------- MODULE SecretStores ----------------------------
(***************************************************************************)
(* The two implementations of SecureStore (irodori-secure-store): the      *)
(* desktop's keychain, reached by a command for each operation, and the    *)
(* map in memory that tests use.  The keychain files a secret under        *)
(* service and account, the map under the account alone.                   *)
(*                                                                         *)
(* A secret is [text, breaks]: its text and whether line breaks follow.    *)
(***************************************************************************)
EXTENDS Naturals, Sequences

CONSTANTS
  DefaultService,
  Control,   \* handles and services with control characters
  None       \* no secret, no service given

ValidPart(text) == text # "" /\ text \notin Control
ValidSecretHandle(ref) ==
  ValidPart(ref.handle) /\ (ref.service = None \/ ValidPart(ref.service))

(* SecretValue::new *)
ValidSecret(value) == value.text # "" \/ value.breaks

ServiceName(ref) == IF ref.service = None THEN DefaultService ELSE ref.service
AccountName(ref) == ref.handle
Key(ref) == <<ServiceName(ref), AccountName(ref)>>

(* trim_trailing_newline *)
Trimmed(value) == [value EXCEPT !.breaks = FALSE]

(* OsKeychainStore::get and MemorySecureStore::get.                        *)
KeychainGet(keychain, ref) ==
  IF keychain[Key(ref)] = None THEN None ELSE Trimmed(keychain[Key(ref)])
MemoryGet(memory, ref) == memory[AccountName(ref)]
=============================================================================
