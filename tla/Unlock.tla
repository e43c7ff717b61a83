-------------------------------- MODULE Unlock --------------------------------
(***************************************************************************)
(* Unlocking the vault: from the token response of the server and the      *)
(* master password to the user key (unlock_session in api.rs, keys.rs,     *)
(* crypto.rs).  Cryptography is a term algebra: a derived key is the       *)
(* record of what went into it, a MAC that of key and text, and a          *)
(* ciphertext opens under the key it names.  Texts are sequences of        *)
(* pieces; "sp" and "nl" are white space.                                  *)
(*                                                                         *)
(* A result is [ok, value], the value of an error its kind.  A definition  *)
(* marked "Mutant" is wrong on purpose and used by mutation tests only.    *)
(***************************************************************************)
EXTENDS Naturals, Sequences, FiniteSetsExt

CONSTANT None

Ok(v) == [ok |-> TRUE, value |-> v]
Err(kind) == [ok |-> FALSE, value |-> kind]

-----------------------------------------------------------------------------
(* Texts *)

Between(text, keep) ==
    IF keep = {} THEN <<>> ELSE SubSeq(text, Min(keep), Max(keep))

Trim(text) == Between(text, {i \in DOMAIN text : text[i] \notin {"sp", "nl"}})

(* to_lowercase, on the letters that occur *)
Lower(text) == [i \in DOMAIN text |-> IF text[i] = "A" THEN "a" ELSE text[i]]

(* Mutant: only the case is normalised. *)
NormalizeCase(salt) == Lower(salt)

(* normalize_master_password_salt *)
NormalizeSalt(salt) == Lower(Trim(salt))

-----------------------------------------------------------------------------
(* Key derivation parameters *)

(* kdf_from_parts, for the KDF fields of a token response *)
KdfFromParts(parts) ==
    CASE parts.kdf_type = 0 ->
            Ok([type |-> "pbkdf2", iterations |-> parts.iterations])
      [] parts.kdf_type = 1 /\ parts.memory # None /\ parts.parallelism # None ->
            Ok([type |-> "argon2id", iterations |-> parts.iterations,
                memory |-> parts.memory, parallelism |-> parts.parallelism])
      [] parts.kdf_type = 1 /\ (parts.memory = None \/ parts.parallelism = None) ->
            Err("missing_kdf_parameter")
      [] parts.kdf_type \notin {0, 1} -> Err("unsupported_kdf_type")

(* The PRELOGIN limits: what is below is a downgrade, what is above too    *)
(* expensive.  Memory is in MiB.                                           *)
PBKDF2_PRELOGIN_ITERATIONS_MAX == 2000000

KdfBounds ==
    [pbkdf2   |-> [iterations |-> 5000..PBKDF2_PRELOGIN_ITERATIONS_MAX],
     argon2id |-> [iterations |-> 2..10, memory |-> 16..1024, parallelism |-> 1..16]]

ValidateForPrelogin(kdf) ==
    \A p \in DOMAIN KdfBounds[kdf.type] : kdf[p] \in KdfBounds[kdf.type][p]

(* derive_master_key: Argon2id takes a digest of the salt, PBKDF2 the salt *)
(* itself.  Within the bounds memory * 1024 does not overflow and Argon2   *)
(* accepts the parameters.                                                 *)
DeriveMasterKey(password, salt, kdf) ==
    CASE password = <<>> -> Err("empty_password")
      [] password # <<>> /\ ~ValidateForPrelogin(kdf) -> Err("kdf_out_of_bounds")
      [] password # <<>> /\ ValidateForPrelogin(kdf) ->
            Ok([password |-> password, kdf |-> kdf,
                salt |-> [sha256 |-> kdf.type = "argon2id", text |-> NormalizeSalt(salt)]])

(* stretch_master_key: HKDF-Expand with two labels *)
StretchMasterKey(masterKey) ==
    [encryption     |-> [label |-> "enc", prk |-> masterKey],
     authentication |-> [label |-> "mac", prk |-> masterKey]]

-----------------------------------------------------------------------------
(* Encrypted strings *)

(* EncryptedString::from_str.  A raw string has a header ("none" without a *)
(* dot, "text" when it is no number) and parts; a part has the length it   *)
(* decodes to (None if it is no base64) and its meaning.                   *)
ParseEncrypted(raw) ==
    CASE raw.header \in {"none", "0"} -> Err("legacy_no_mac_disabled")
      [] raw.header = "text" -> Err("invalid_encryption_type_header")
      [] raw.header \notin {"none", "0", "text", "2"} -> Err("unsupported_encryption_type")
      [] raw.header = "2" ->
            IF /\ Len(raw.parts) = 3
               /\ \A i \in 1..3 : raw.parts[i].length # None
               /\ raw.parts[1].length = 16
               /\ raw.parts[3].length = 32
               /\ raw.parts[2].length > 0 /\ raw.parts[2].length % 16 = 0
            THEN Ok([iv |-> raw.parts[1], data |-> raw.parts[2], mac |-> raw.parts[3]])
            ELSE Err("malformed")

(* External: HMAC-SHA256 over IV and ciphertext *)
Hmac(key, iv, data) == [key |-> key, iv |-> iv, data |-> data]

(* decrypt_bytes: the MAC first, the padding only then. *)
DecryptBytes(encrypted, key) ==
    CASE encrypted.mac.is # Hmac(key.authentication, encrypted.iv, encrypted.data) ->
            Err("mac_verification_failed")
      [] encrypted.mac.is = Hmac(key.authentication, encrypted.iv, encrypted.data) ->
            IF encrypted.data.is.under = key.encryption /\ encrypted.data.is.padded
            THEN Ok(encrypted.data.is.plain)
            ELSE Err("decrypt_failed")

(* AuthenticatedSymmetricKey::try_from *)
AuthenticatedKey(bytes) ==
    IF bytes.length = 64 THEN Ok(bytes) ELSE Err("invalid_key_length")

UnwrapUserKey(masterKey, raw) ==
    LET encrypted == ParseEncrypted(raw)
        plain == DecryptBytes(encrypted.value, StretchMasterKey(masterKey))
    IN  CASE ~encrypted.ok -> encrypted
          [] encrypted.ok /\ ~plain.ok -> plain
          [] encrypted.ok /\ plain.ok -> AuthenticatedKey(plain.value)

-----------------------------------------------------------------------------
(* unlock_session *)

(* The unlock fails before any key is derived. *)
Refused(kind) == [key |-> Err(kind), ran |-> None]

(* A key is derived, with these parameters. *)
Derived(unlock, raw, kdf, password) ==
    LET masterKey == DeriveMasterKey(password, unlock.salt, kdf)
    IN  IF ~masterKey.ok THEN Refused(masterKey.value)
        ELSE [key |-> UnwrapUserKey(masterKey.value, raw), ran |-> kdf]

(* Mutant: the operator's budget is forgotten. *)
NeverOverBudget(kdf, limit) == FALSE

(* The operator's memory budget, tested before derivation. *)
OverBudget(kdf, limit) == kdf.type = "argon2id" /\ kdf.memory > limit

(* The user key is in one of two fields, depending on the server. *)
WrappedUserKey(unlock) ==
    IF unlock.wrapped # None THEN unlock.wrapped ELSE unlock.encrypted

UnlockSession(unlock, password, limit) ==
    LET kdf == KdfFromParts(unlock.kdf)
    IN  CASE unlock = None -> Refused("missing_master_password_unlock")
          [] unlock # None /\ WrappedUserKey(unlock) = None ->
                Refused("missing_master_key_wrapped_user_key")
          [] unlock # None /\ WrappedUserKey(unlock) # None ->
                CASE ~kdf.ok -> Refused(kdf.value)
                  [] kdf.ok /\ OverBudget(kdf.value, limit) -> Refused("kdf_too_expensive")
                  [] kdf.ok /\ ~OverBudget(kdf.value, limit) ->
                        Derived(unlock, WrappedUserKey(unlock), kdf.value, password)

-----------------------------------------------------------------------------
(* External: the account, as a client of the server set it up.  Its key is *)
(* derived from the e-mail address in lower case.                          *)

AccountKey(account) ==
    [password |-> account.password, kdf |-> account.kdf,
     salt |-> [sha256 |-> account.kdf.type = "argon2id", text |-> account.email]]

(* The account's user key sealed under a key, as a client does. *)
Seal(key, userKey) ==
    LET iv == [length |-> 16, is |-> [iv |-> "random"]]
        data == [length |-> 80,
                 is |-> [under |-> key.encryption, plain |-> userKey, padded |-> TRUE]]
        mac == [length |-> 32, is |-> Hmac(key.authentication, iv, data)]
    IN  [header |-> "2", parts |-> <<iv, data, mac>>]

Sealed(account) == Seal(StretchMasterKey(AccountKey(account)), account.userKey)

(* The parameters this provider supports, under a budget. *)
Supported(kdf, limit) ==
    \/ /\ kdf.type = "pbkdf2"
       /\ kdf.iterations >= 5000 /\ kdf.iterations <= PBKDF2_PRELOGIN_ITERATIONS_MAX
    \/ /\ kdf.type = "argon2id"
       /\ kdf.iterations >= 2 /\ kdf.iterations <= 10
       /\ kdf.memory >= 16 /\ kdf.memory <= 1024 /\ kdf.memory <= limit
       /\ kdf.parallelism >= 1 /\ kdf.parallelism <= 16

=============================================================================
