----------------------------- MODULE CipherResolve -----------------------------
(***************************************************************************)
(* From a remoteRef and a synced vault to an HTTP answer: validation of    *)
(* the selector (lib.rs), lookup by id or name (api.rs), decryption and    *)
(* extraction of an item (cipher.rs) and the status an error is given      *)
(* (main.rs).  External Secrets deletes what is answered with 404, so what *)
(* matters most is which of the ways to fail a vault leads to.             *)
(*                                                                         *)
(* A string is a sequence of the pieces the code tells apart: "sp" (white  *)
(* space), "id:", "field.", and opaque ones.  An encrypted string is a     *)
(* record of the key it was made with and its plain text; it decrypts      *)
(* under that key only, and one made with no key stands for malformed or   *)
(* corrupted data.                                                         *)
(*                                                                         *)
(* The call runs on an immutable snapshot (VaultCache), so it is one step. *)
(* A definition marked "Mutant" is wrong on purpose and used by mutation   *)
(* tests only.                                                             *)
(***************************************************************************)
EXTENDS Naturals, Sequences, FiniteSets, SequencesExt

CONSTANTS
    None,       \* an absent value
    Bad,        \* a failed decryption
    UserKey,    \* the key of the unlocked session
    Cases       \* what is asked of what: [vault, ref], a vault being the
                \* sequence of ciphers of a sync response

VARIABLES vault, ref, result

vars == <<vault, ref, result>>

Ok(document) == [kind |-> "none", document |-> document]
Err(kind) == [kind |-> kind, document |-> None]

(* Mutant: a missing property is answered like a missing item. *)
MissingPropertyIs404(kind) ==
    CASE kind = "none" -> 200
      [] kind \in {"item_not_found", "property_not_found"} -> 404
      [] OTHER -> 500

(* provider_status_and_kind *)
HttpStatus(kind) ==
    CASE kind = "none" -> 200
      [] kind \in {"validation", "unsupported_version"} -> 400
      [] kind = "item_not_found" -> 404
      [] kind \in {"ambiguous_document", "ambiguous_selector"} -> 409
      [] kind \in {"property_not_found", "unsupported_attachment",
                   "unsupported_shared_item"} -> 422
      [] kind \in {"crypto", "key_derivation", "kdf_parameters", "sync_payload",
                   "endpoint"} -> 500
      [] kind \in {"upstream_http", "upstream_status", "upstream_payload"} -> 502
      [] kind = "upstream_backoff" -> 503

-----------------------------------------------------------------------------
(* Strings *)

(* str::trim *)
Trim(s) ==
    LET solid == {i \in DOMAIN s : s[i] # "sp"}
    IN  IF solid = {} THEN <<>> ELSE SubSeq(s, Min(solid), Max(solid))

StartsWith(s, pieces) == s # <<>> /\ Head(s) \in pieces

(* Mutant: trim_start_matches in place of strip_prefix. *)
StripAll(s, pieces) ==
    LET rest == {i \in DOMAIN s : s[i] \notin pieces}
    IN  IF rest = {} THEN <<>> ELSE SubSeq(s, Min(rest), Len(s))

(* strip_prefix(..).unwrap_or(..) *)
Strip(s, pieces) == IF StartsWith(s, pieces) THEN Tail(s) ELSE s

-----------------------------------------------------------------------------
(* The selector *)

ValidKey(key) == StartsWith(key, {"id:", "name:"}) /\ Trim(Tail(key)) # <<>>

(* TryFrom<RemoteRef>: the error, or "none" *)
SelectorError(q) ==
    IF Trim(q.key) = <<>> THEN "validation"
    ELSE IF q.version # None /\ Trim(q.version) # <<>> THEN "unsupported_version"
    ELSE IF q.property # None /\ Trim(q.property) = <<>> THEN "validation"
    ELSE IF ~ValidKey(Trim(q.key)) THEN "validation"
    ELSE "none"

Property(q) == IF q.property = None THEN None ELSE Trim(q.property)

-----------------------------------------------------------------------------
(* Decryption *)

(* decrypt_optional *)
Plain(enc, key) ==
    IF enc = None THEN None ELSE IF enc.key = key THEN enc.text ELSE Bad

PlainRecord(rec, key) ==
    IF rec = None THEN None ELSE [f \in DOMAIN rec |-> Plain(rec[f], key)]

(* The wrapped key of the item if it has one, else the user key. *)
ItemKey(c) == IF c.key = None THEN UserKey ELSE Plain(c.key, UserKey)

HasBad(rec) == rec # None /\ \E f \in DOMAIN rec : rec[f] = Bad

(* EncryptedCipher::decrypt: everything decrypts or nothing does. *)
Decrypt(c) ==
    LET key == ItemKey(c)
        plain == [id |-> c.id, org |-> c.org,
                  name    |-> Plain(c.name, key),
                  notes   |-> Plain(c.notes, key),
                  fields  |-> [i \in DOMAIN c.fields |-> PlainRecord(c.fields[i], key)],
                  login   |-> PlainRecord(c.login, key),
                  ssh_key |-> PlainRecord(c.ssh_key, key)]
    IN  IF \/ key = Bad \/ HasBad(plain)
           \/ HasBad(plain.login) \/ HasBad(plain.ssh_key)
           \/ \E i \in DOMAIN plain.fields : HasBad(plain.fields[i])
        THEN Bad
        ELSE plain

-----------------------------------------------------------------------------
(* Lookup: [error, item] *)

Found(item) == [error |-> "none", item |-> item]
Failed(kind) == [error |-> kind, item |-> None]

(* resolve_synced_cipher_by_id: the first live cipher with the id *)
ResolveById(v, id) ==
    LET hits == {i \in DOMAIN v : v[i].id = id /\ ~v[i].deleted}
        c    == v[Min(hits)]
    IN  CASE hits = {} -> Failed("item_not_found")
          [] hits # {} /\ c.org -> Failed("unsupported_shared_item")
          [] hits # {} /\ ~c.org /\ Decrypt(c) = Bad -> Failed("crypto")
          [] OTHER -> Found(Decrypt(c))

(* The item a turn of the loop looks at: neither trashed nor shared, and   *)
(* no earlier turn returned.                                               *)
Considered(acc, c) == acc.error = "none" /\ ~c.deleted /\ ~c.org

NoteShared(acc, c) ==
    [acc EXCEPT !.shared = @ \/ (acc.error = "none" /\ ~c.deleted /\ c.org)]

(* Mutant: a cipher that does not decrypt is passed over. *)
ScanPassesOver(name, acc, c) ==
    LET d == Decrypt(c) IN
    IF ~Considered(acc, c) THEN NoteShared(acc, c)
    ELSE IF d = Bad THEN acc
    ELSE IF d.name # name THEN acc
    ELSE IF acc.item # None THEN [acc EXCEPT !.error = "ambiguous_selector"]
    ELSE [acc EXCEPT !.item = d]

(* Mutant: the first match is taken. *)
ScanTakesFirst(name, acc, c) ==
    LET d == Decrypt(c) IN
    IF ~Considered(acc, c) \/ acc.item # None THEN NoteShared(acc, c)
    ELSE IF d = Bad THEN [acc EXCEPT !.error = "crypto"]
    ELSE IF d.name # name THEN acc
    ELSE [acc EXCEPT !.item = d]

(* One turn of the loop of resolve_synced_cipher_by_name *)
Scan(name, acc, c) ==
    LET d == Decrypt(c) IN
    IF ~Considered(acc, c) THEN NoteShared(acc, c)
    ELSE IF d = Bad THEN [acc EXCEPT !.error = "crypto"]
    ELSE IF d.name # name THEN acc
    ELSE IF acc.item # None THEN [acc EXCEPT !.error = "ambiguous_selector"]
    ELSE [acc EXCEPT !.item = d]

NothingSeen == [error |-> "none", item |-> None, shared |-> FALSE]

(* acc[n] is what the loop has after n ciphers. *)
ResolveByName(v, name) ==
    LET acc[n \in 0..Len(v)] ==
            IF n = 0 THEN NothingSeen ELSE Scan(name, acc[n - 1], v[n])
        end == acc[Len(v)]
    IN  CASE end.error # "none" -> Failed(end.error)
          [] end.error = "none" /\ end.item # None -> Found(end.item)
          [] OTHER -> Failed(IF end.shared THEN "unsupported_shared_item"
                             ELSE "item_not_found")

(* CipherLookup::from_key and resolve_synced_cipher *)
Lookup(v, key) ==
    CASE StartsWith(key, {"id:"}) -> ResolveById(v, Tail(key))
      [] StartsWith(key, {"name:"}) -> ResolveByName(v, Tail(key))
      [] OTHER -> Failed("validation")

-----------------------------------------------------------------------------
(* Extraction from a decrypted item *)

Member(rec, f) == IF rec = None THEN None ELSE rec[f]

(* The properties with a meaning of their own, and what they select. *)
Username == {<<"username">>, <<"login.username">>}
Password == {<<"password">>, <<"login.password">>}
Totp == {<<"totp">>, <<"login.totp">>}
PrivateKey == {<<"privateKey">>, <<"sshPrivateKey">>, <<"sshKey.privateKey">>}
PublicKey == {<<"publicKey">>, <<"sshPublicKey">>, <<"sshKey.publicKey">>}
Fingerprint == {<<"keyFingerprint">>, <<"sshKey.keyFingerprint">>}

ConventionalNames ==
    {<<"name">>, <<"notes">>} \cup Username \cup Password \cup Totp
        \cup PrivateKey \cup PublicKey \cup Fingerprint

Conventional(d) ==
    [p \in ConventionalNames |->
        CASE p = <<"name">> -> d.name
          [] p = <<"notes">> -> d.notes
          [] p \in Username -> Member(d.login, "username")
          [] p \in Password -> Member(d.login, "password")
          [] p \in Totp -> Member(d.login, "totp")
          [] p \in PrivateKey -> Member(d.ssh_key, "private_key")
          [] p \in PublicKey -> Member(d.ssh_key, "public_key")
          [] p \in Fingerprint -> Member(d.ssh_key, "key_fingerprint")]

FieldsNamed(d, name) == {i \in DOMAIN d.fields : d.fields[i].name = name}

(* existing(..) *)
Existing(value) == IF value = None THEN Err("property_not_found") ELSE Ok(value)

(* Mutant: the first of several fields with the name is taken. *)
ExtractFirstCustom(d, name) ==
    LET hits == FieldsNamed(d, name)
    IN  IF hits = {} THEN Err("property_not_found")
        ELSE Existing(d.fields[Min(hits)].value)

ExtractCustom(d, name) ==
    LET hits == FieldsNamed(d, name)
    IN  CASE hits = {} -> Err("property_not_found")
          [] Cardinality(hits) > 1 -> Err("ambiguous_document")
          [] OTHER -> Existing(d.fields[Min(hits)].value)

(* extract_property; its result is a value in place of a document *)
Extract(d, property) ==
    LET p == Trim(property)
    IN  CASE p = <<>> -> Err("validation")
          [] StartsWith(p, {"attachment.", "attachments."}) -> Err("unsupported_attachment")
          [] p \in DOMAIN Conventional(d) -> Existing(Conventional(d)[p])
          [] OTHER -> ExtractCustom(d, Strip(p, {"field.", "custom."}))

(* The conventional members a whole document starts with: insert_optional. *)
BaseDocument(d) ==
    LET names == {<<"notes">>, <<"username">>, <<"password">>, <<"totp">>,
                  <<"privateKey">>, <<"publicKey">>, <<"keyFingerprint">>}
    IN  [k \in {n \in names : Conventional(d)[n] # None} |-> Conventional(d)[k]]

(* A custom field that makes it into a document *)
HasOutput(f) == f.name # None /\ f.value # None /\ Trim(f.name) # <<>>

Put(document, name, value) ==
    [k \in DOMAIN document \cup {name} |-> IF k = name THEN value ELSE document[k]]

(* Mutant: a later field of the same name wins. *)
InsertOver(acc, f) ==
    IF acc.kind # "none" \/ ~HasOutput(f) THEN acc
    ELSE Ok(Put(acc.document, f.name, f.value))

(* One turn of the loop over the custom fields *)
InsertField(acc, f) ==
    IF acc.kind # "none" \/ ~HasOutput(f) THEN acc
    ELSE IF f.name \in DOMAIN acc.document THEN Err("ambiguous_document")
    ELSE Ok(Put(acc.document, f.name, f.value))

(* acc[n] is what the loop has after n fields. *)
ToSecretDocument(d) ==
    LET acc[n \in 0..Len(d.fields)] ==
            IF n = 0 THEN Ok(BaseDocument(d)) ELSE InsertField(acc[n - 1], d.fields[n])
        end == acc[Len(d.fields)]
    IN  IF end.kind = "none" /\ DOMAIN end.document = {} THEN Err("crypto") ELSE end

(* The rest of resolve_with_cached_sync once an item is found *)
Answer(d, property) ==
    IF property = None THEN ToSecretDocument(d)
    ELSE LET value == Extract(d, property)
         IN  IF value.kind # "none" THEN value
             ELSE Ok([k \in {<<"value">>, property} |-> value.document])

Resolve(v, q) ==
    LET hit == Lookup(v, Trim(q.key))
    IN  CASE SelectorError(q) # "none" -> Err(SelectorError(q))
          [] SelectorError(q) = "none" /\ hit.error # "none" -> Err(hit.error)
          [] SelectorError(q) = "none" /\ hit.error = "none" /\ hit.item.org ->
                Err("unsupported_shared_item")
          [] OTHER -> Answer(hit.item, Property(q))

-----------------------------------------------------------------------------

IsSequence(s) == s \in Seq(Range(s))

(* What a sync response and a request are made of; ids are the primary     *)
(* keys of the server, and neither an item, a field nor a text is None.    *)
ASSUME CasesAssumption ==
    \A case \in Cases :
        /\ IsSequence(case.vault)
        /\ case.ref.property # None =>
              IsSequence(case.ref.property) /\ Trim(case.ref.property) # None
        /\ \A i, j \in DOMAIN case.vault : case.vault[i].id = case.vault[j].id => i = j
        /\ \A i \in DOMAIN case.vault :
              LET c == case.vault[i] IN
              /\ c.deleted \in BOOLEAN /\ c.org \in BOOLEAN
              /\ Decrypt(c) # None
              /\ IsSequence(c.fields)
              /\ \A f \in Range(c.fields) :
                    /\ f # None /\ PlainRecord(f, ItemKey(c)) # None
                    /\ DOMAIN f = {"name", "value"}
                    /\ f.name # None => IsSequence(f.name.text)

Init ==
    /\ \E c \in Cases : vault = c.vault /\ ref = c.ref
    /\ result = None

Call ==
    /\ result = None
    /\ result' = Resolve(vault, ref)
    /\ UNCHANGED <<vault, ref>>

Next == Call
Spec == Init /\ [][Next]_vars

-----------------------------------------------------------------------------
(* Properties of an answer *)

Answered == result # None
Succeeded == Answered /\ result.kind = "none"

Live == {i \in DOMAIN vault : ~vault[i].deleted}
Personal == {i \in Live : ~vault[i].org}
Readable == {i \in Personal : Decrypt(vault[i]) # Bad}

Key == Trim(ref.key)
ById == StartsWith(Key, {"id:"})

(* The live personal items the selector names. *)
Named ==
    {i \in Readable : IF ById THEN vault[i].id = Tail(Key)
                      ELSE Decrypt(vault[i]).name = Tail(Key)}

(* 404 is answered only if the vault shows that the item is absent: no     *)
(* live item has the id, or every live item is readable and has another    *)
(* name.  A shared item, a failed decryption, a missing property and a     *)
(* wrong selector are never taken for a deletion.                          *)
NotFoundMeansAbsent ==
    Answered /\ HttpStatus(result.kind) = 404 =>
        /\ ValidKey(Key)
        /\ IF ById THEN \A i \in Live : vault[i].id # Tail(Key)
           ELSE Readable = Live /\ Named = {}

(* A document comes from the one live personal item that the selector      *)
(* names; a name selects only when every other item could be ruled out.    *)
DocumentFromTheItem ==
    Succeeded =>
        \E i \in Named :
            /\ result = Answer(Decrypt(vault[i]), Property(ref))
            /\ Named = {i}
            /\ ~ById => Readable = Personal

(* Where the answer is a document it does not depend on the order of the   *)
(* ciphers in the sync response, and where it is 404 neither.              *)
OrderIrrelevant ==
    Answered /\ HttpStatus(result.kind) \in {200, 404} =>
        Resolve(Reverse(vault), ref) = result

(* The outputs of an item: a conventional member or a custom field with a  *)
(* name and a value.                                                       *)
Outputs(d) ==
    {<<k, BaseDocument(d)[k], 0>> : k \in DOMAIN BaseDocument(d)}
    \cup {<<d.fields[i].name, d.fields[i].value, i>> :
             i \in {j \in DOMAIN d.fields : HasOutput(d.fields[j])}}

(* A whole-item document has every output of the item under its name, and  *)
(* there is none if two outputs have one name.                             *)
WholeDocument ==
    Succeeded /\ ref.property = None =>
        \A i \in Named :
            LET outputs == Outputs(Decrypt(vault[i])) IN
            /\ DOMAIN result.document = {o[1] : o \in outputs}
            /\ Cardinality(outputs) = Cardinality(DOMAIN result.document)
            /\ \A o \in outputs : result.document[o[1]] = o[2]

(* Whole-item and single-property extraction agree: each custom field of a *)
(* document is what "field.<name>" and "custom.<name>" select, whatever    *)
(* the field is called, and each conventional member what its name does.   *)
(* Names with white space around are left out, because a selector is       *)
(* trimmed, and names that a field without a value has too.                *)
PropertyAgreesWithDocument ==
    Succeeded /\ ref.property = None =>
        \A i \in Named :
            LET d == Decrypt(vault[i]) IN
            \A o \in Outputs(d) :
                IF o[3] = 0 THEN Extract(d, o[1]) = Ok(o[2])
                ELSE Trim(o[1]) = o[1] /\ Cardinality(FieldsNamed(d, o[1])) = 1 =>
                        \A prefix \in {"field.", "custom."} :
                            Extract(d, <<prefix>> \o o[1]) = Ok(o[2])

(* A property that several custom fields could be is refused, never        *)
(* guessed: a single-property answer is the value of the only candidate.   *)
PropertyUnambiguous ==
    Succeeded /\ ref.property # None =>
        \A i \in Named :
            LET d    == Decrypt(vault[i])
                p    == Trim(ref.property)
                hits == FieldsNamed(d, Strip(p, {"field.", "custom."}))
            IN  p \notin DOMAIN Conventional(d) =>
                    /\ Cardinality(hits) = 1
                    /\ \A h \in hits : d.fields[h].value = result.document[<<"value">>]

=============================================================================
