----------------------------- MODULE Keystore -----------------------------
(***************************************************************************)
(* KeyStore (src/beenet/crypto/keystore.py) and its clients StaticKeyManager *)
(* (src/beenet/crypto/keys.py) and Identity (src/beenet/crypto/identity.py): *)
(* the in-memory map, keystore.json, its .tmp *)
(* sibling and the salt file, across process crashes and failed writes.    *)
(*                                                                         *)
(* One process at a time owns the store and makes one call at a time (as   *)
(* BeenetPeer does).  Each call runs without yielding to another caller up *)
(* to _save_keystore, whose two executor calls (write the temp file,       *)
(* rename it) are separate steps: the process may die, or the write fail,  *)
(* between them.  There is one passphrase; an object is constructed with   *)
(* it or with none.  Record metadata (created_at, the encrypted flag) is   *)
(* never read back and is left out.                                        *)
(***************************************************************************)
EXTENDS Integers, FiniteSets

CONSTANTS KeyIds,       \* key identifiers used by callers
          StaticKeyId,  \* "static_<peer_id>", the key of StaticKeyManager
          Values,       \* key material
          Passphrases,  \* subset of BOOLEAN: constructed with the passphrase or not
          Faults,       \* subset of {"crash", "ioerror"}
          NoFile,       \* model value: no such file
          Torn,         \* model value: a file cut short by a crash while written
          Absent,       \* model value: no entry in _keys
          IdentityKeyId, \* "identity_<peer_id>", the key of Identity
          NoKey         \* model value: StaticKeyManager holds no current key

ASSUME {StaticKeyId, IdentityKeyId} \subseteq KeyIds /\ StaticKeyId # IdentityKeyId
ASSUME Passphrases \subseteq BOOLEAN /\ Passphrases # {}
ASSUME Faults \subseteq {"crash", "ioerror"}

VARIABLES
    file,        \* keystore.json: NoFile or [enc, keys]
    tmp,         \* keystore.tmp: NoFile, Torn or [enc, keys]
    saltExists,  \* the salt file exists
    up,          \* a process with a KeyStore object is running
    loaded,      \* _loaded
    mem,         \* _keys: KeyIds -> Values \cup {Absent}
    pass,        \* _passphrase is set
    fernet,      \* _fernet is set
    pc,          \* "idle", or a _save_keystore in progress and what the call
                 \* does once it returns
    current,     \* StaticKeyManager's current static key, or NoKey
    signing,     \* Identity._signing_key, or NoKey
    lastOpen,    \* ghost: outcome of the last open(): "none", "ok", "failed"
    deleted      \* ghost: keys whose delete_key returned True, not stored since

clients == <<current, signing>>
vars == <<file, tmp, saltExists, up, loaded, mem, pass, fernet, pc, clients,
          lastOpen, deleted>>

NoKeys == [k \in KeyIds |-> Absent]
KeyMaps == [KeyIds -> Values \cup {Absent}]
Contents == [enc : {"plain", "fernet"}, keys : KeyMaps]
\* What a call does after its save returns.
Continuations ==
    [kind : {"none", "close"}] \cup [kind : {"delete"}, key : KeyIds]
    \cup [kind : {"static", "identity"}, val : Values]
NoCont == [kind |-> "none"]
\* No _save_keystore in progress.
IdlePc == [stage |-> "idle"]

TypeOK ==
    /\ file \in {NoFile} \cup Contents
    /\ tmp \in {NoFile, Torn} \cup Contents
    /\ saltExists \in BOOLEAN
    /\ up \in BOOLEAN /\ loaded \in BOOLEAN /\ pass \in BOOLEAN /\ fernet \in BOOLEAN
    /\ mem \in KeyMaps
    /\ pc \in {IdlePc} \cup [stage : {"write", "replace"}, content : Contents,
                             cont : Continuations]
    /\ current \in Values \cup {NoKey}
    /\ signing \in Values \cup {NoKey}
    /\ lastOpen \in {"none", "ok", "failed"}
    /\ deleted \subseteq KeyIds

Init ==
    /\ file = NoFile
    /\ tmp = NoFile
    /\ saltExists = FALSE
    /\ up = FALSE
    /\ loaded = FALSE
    /\ mem = NoKeys
    /\ pass = FALSE
    /\ fernet = FALSE
    /\ pc = IdlePc
    /\ current = NoKey
    /\ signing = NoKey
    /\ lastOpen = "none"
    /\ deleted = {}

Idle == up /\ pc = IdlePc

-----------------------------------------------------------------------------
(* _load_keystore and _ensure_initialized                                 *)

\* _derive_fernet_key: the salt file is read, or created when missing.
\* With one passphrase and one salt file there is one Fernet key.
DeriveFernetKey == saltExists' = TRUE

\* _load_keystore of an object with passphrase p, _fernet f and _keys keys,
\* as a record: whether it raised, the _keys it leaves and whether _fernet
\* is set.  A missing file gives an empty map and derives no key,
\* passphrase or not; an existing one is decrypted with the passphrase's
\* key or parsed as plain JSON, and either fails on the other format.
ReadableFormat(p) == IF p THEN "fernet" ELSE "plain"

\* Mutant of LoadKeystore: the Fernet key is never derived on load.
LoadKeystoreNoDerive(p, f, keys) ==
    IF file = NoFile
    THEN [ok |-> TRUE, keys |-> NoKeys, fernet |-> f]
    ELSE [ok |-> file.enc = ReadableFormat(p),
          keys |-> IF file.enc = ReadableFormat(p) THEN file.keys ELSE keys,
          fernet |-> f]

\* Mutant of LoadKeystore: a file that fails to parse is kept as _keys.
LoadKeystoreRawKeys(p, f, keys) ==
    IF file = NoFile
    THEN [ok |-> TRUE, keys |-> NoKeys, fernet |-> f]
    ELSE [ok |-> file.enc = ReadableFormat(p),
          keys |-> IF file.enc = ReadableFormat(p) THEN file.keys ELSE file,
          fernet |-> p \/ f]

LoadKeystore(p, f, keys) ==
    IF file = NoFile
    THEN [ok |-> TRUE, keys |-> NoKeys, fernet |-> f]
    ELSE [ok |-> file.enc = ReadableFormat(p),
          keys |-> IF file.enc = ReadableFormat(p) THEN file.keys ELSE keys,
          fernet |-> p \/ f]

\* The salt file after _load_keystore: created if the passphrase derives a key.
LoadSalt(p) == IF file # NoFile /\ p THEN DeriveFernetKey ELSE UNCHANGED saltExists

\* _ensure_initialized: nothing if loaded; else _load_keystore, and
\* _loaded := True unless it raised.
EnsureInitialized ==
    IF loaded THEN [ok |-> TRUE, keys |-> mem, fernet |-> fernet]
    ELSE LoadKeystore(pass, fernet, mem)

ApplyInit(r) ==
    /\ loaded' = r.ok
    /\ fernet' = r.fernet
    /\ IF loaded THEN UNCHANGED saltExists ELSE LoadSalt(pass)

-----------------------------------------------------------------------------
(* _save_keystore                                                         *)

\* The bytes written: Fernet-encrypted only if both _passphrase and _fernet
\* are set.
Serialize(keys, p, f) == [enc |-> IF p /\ f THEN "fernet" ELSE "plain", keys |-> keys]

StartSave(keys, p, f, cont) ==
    pc' = [stage |-> "write", content |-> Serialize(keys, p, f), cont |-> cont]

\* `temp_file.write_bytes(...)` in the executor completes.
WriteTemp ==
    /\ up /\ pc.stage = "write"
    /\ tmp' = pc.content
    /\ pc' = [pc EXCEPT !.stage = "replace"]
    /\ UNCHANGED <<file, saltExists, up, loaded, mem, pass, fernet, clients,
                   lastOpen, deleted>>

\* The write raises OSError: the temp file is unlinked and KeyStoreError
\* propagates out of the call; _keys keeps whatever the call changed.
WriteFails ==
    /\ "ioerror" \in Faults
    /\ up /\ pc.stage = "write"
    /\ tmp' = NoFile
    /\ pc' = IdlePc
    /\ UNCHANGED <<file, saltExists, up, loaded, mem, pass, fernet, clients,
                   lastOpen, deleted>>

\* `temp_file.replace(keystore_file)` completes and the call returns.
ReplaceFile ==
    LET c == pc.cont IN
    /\ up /\ pc.stage = "replace"
    /\ file' = tmp
    /\ tmp' = NoFile
    /\ pc' = IdlePc
    /\ loaded' = IF c.kind = "close" THEN FALSE ELSE loaded
    /\ current' = IF c.kind = "static" THEN c.val ELSE current
    /\ signing' = IF c.kind = "identity" THEN c.val ELSE signing
    /\ deleted' = IF c.kind = "delete" THEN deleted \cup {c.key} ELSE deleted
    /\ UNCHANGED <<saltExists, up, mem, pass, fernet, lastOpen>>

-----------------------------------------------------------------------------
(* KeyStore calls                                                          *)

\* _store_key_unlocked: the record is put in _keys, then saved.
StoreKeyUnlocked(k, v, cont) ==
    /\ mem' = [mem EXCEPT ![k] = v]
    /\ StartSave([mem EXCEPT ![k] = v], pass, fernet, cont)
    /\ deleted' = deleted \ {k}

\* store_key: refused unless open; _ensure_initialized is then a no-op.
StoreKey(k, v) ==
    /\ Idle /\ loaded
    /\ StoreKeyUnlocked(k, v, NoCont)
    /\ UNCHANGED <<file, tmp, saltExists, up, loaded, pass, fernet, clients, lastOpen>>

\* Mutant of DeleteKey: the map saved is the one read before the del.
DeleteKeySavesBeforeDel(k) ==
    LET r == EnsureInitialized IN
    /\ Idle
    /\ ApplyInit(r)
    /\ IF r.ok /\ r.keys[k] # Absent
       THEN /\ mem' = [r.keys EXCEPT ![k] = Absent]
            /\ StartSave(r.keys, pass, r.fernet, [kind |-> "delete", key |-> k])
       ELSE /\ mem' = r.keys
            /\ UNCHANGED pc
    /\ UNCHANGED <<file, tmp, up, pass, clients, lastOpen, deleted>>

\* delete_key: no open check; a closed store is loaded first.  An absent
\* key returns False; otherwise the slot is overwritten, removed, and saved.
DeleteKey(k) ==
    LET r == EnsureInitialized IN
    /\ Idle
    /\ ApplyInit(r)
    /\ IF r.ok /\ r.keys[k] # Absent
       THEN /\ mem' = [r.keys EXCEPT ![k] = Absent]
            /\ StartSave([r.keys EXCEPT ![k] = Absent], pass, r.fernet,
                         [kind |-> "delete", key |-> k])
       ELSE /\ mem' = r.keys
            /\ UNCHANGED pc
    /\ UNCHANGED <<file, tmp, up, pass, clients, lastOpen, deleted>>

\* rotate_key: an absent key raises; otherwise _store_key_unlocked.
RotateKey(k, v) ==
    LET r == EnsureInitialized IN
    /\ Idle
    /\ ApplyInit(r)
    /\ IF r.ok /\ r.keys[k] # Absent
       THEN /\ mem' = [r.keys EXCEPT ![k] = v]
            /\ StartSave([r.keys EXCEPT ![k] = v], pass, r.fernet, NoCont)
            /\ deleted' = deleted \ {k}
       ELSE /\ mem' = r.keys
            /\ UNCHANGED <<pc, deleted>>
    /\ UNCHANGED <<file, tmp, up, pass, clients, lastOpen>>

\* list_keys (and get_key's twin without the open check): only its
\* _ensure_initialized changes state, on a closed store.
ListKeys ==
    LET r == EnsureInitialized IN
    /\ Idle /\ ~loaded
    /\ ApplyInit(r)
    /\ mem' = r.keys
    /\ UNCHANGED <<file, tmp, up, pass, pc, clients, lastOpen, deleted>>

\* flush: a save if loaded.  close: flush, then _loaded := False.
Flush ==
    /\ Idle /\ loaded
    /\ StartSave(mem, pass, fernet, NoCont)
    /\ UNCHANGED <<file, tmp, saltExists, up, loaded, mem, pass, fernet, clients,
                   lastOpen, deleted>>

Close ==
    /\ Idle /\ loaded
    /\ StartSave(mem, pass, fernet, [kind |-> "close"])
    /\ UNCHANGED <<file, tmp, saltExists, up, loaded, mem, pass, fernet, clients,
                   lastOpen, deleted>>

\* set_passphrase: _passphrase set, the Fernet key derived (salt file read
\* or created), then a save.
SetPassphrase ==
    LET r == EnsureInitialized IN
    /\ Idle
    /\ IF r.ok
       THEN /\ loaded' = TRUE
            /\ mem' = r.keys
            /\ pass' = TRUE
            /\ fernet' = TRUE
            /\ DeriveFernetKey
            /\ StartSave(r.keys, TRUE, TRUE, NoCont)
       ELSE /\ ApplyInit(r)
            /\ UNCHANGED <<mem, pass, pc>>
    /\ UNCHANGED <<file, tmp, up, clients, lastOpen, deleted>>

-----------------------------------------------------------------------------
(* StaticKeyManager                                                        *)

\* load_or_generate_static_key: get_key (which raises unless open); a
\* stored key becomes current, else generate_static_key stores a fresh one
\* and makes it current once store_key returns.
LoadOrGenerateStaticKey ==
    /\ Idle /\ loaded /\ current = NoKey
    /\ IF mem[StaticKeyId] # Absent
       THEN /\ current' = mem[StaticKeyId]
            /\ UNCHANGED <<mem, pc, deleted>>
       ELSE \E v \in Values :
               StoreKeyUnlocked(StaticKeyId, v, [kind |-> "static", val |-> v])
            /\ UNCHANGED current
    /\ UNCHANGED <<file, tmp, saltExists, up, loaded, pass, fernet, signing, lastOpen>>

\* rotate_static_key with a current key: generate_static_key stores a
\* fresh key and makes it current once store_key returns.
RotateStaticKey ==
    /\ Idle /\ loaded /\ current # NoKey
    /\ \E v \in Values \ {current} :
          StoreKeyUnlocked(StaticKeyId, v, [kind |-> "static", val |-> v])
    /\ UNCHANGED <<file, tmp, saltExists, up, loaded, pass, fernet, clients, lastOpen>>

-----------------------------------------------------------------------------
(* Identity                                                                *)

\* load_or_generate_identity: get_key (which raises unless open); a stored
\* key becomes _signing_key, else a fresh one becomes _signing_key BEFORE
\* store_key is awaited, so it is in use even when the save then fails.
LoadOrGenerateIdentity ==
    /\ Idle /\ loaded
    /\ IF mem[IdentityKeyId] # Absent
       THEN /\ signing' = mem[IdentityKeyId]
            /\ UNCHANGED <<mem, pc, deleted>>
       ELSE \E v \in Values :
               /\ signing' = v
               /\ StoreKeyUnlocked(IdentityKeyId, v, NoCont)
    /\ UNCHANGED <<file, tmp, saltExists, up, loaded, pass, fernet, current, lastOpen>>

\* rotate_identity: export_public_key raises unless a key is loaded; a
\* fresh key is stored and becomes _signing_key once store_key returns.
RotateIdentity ==
    /\ Idle /\ loaded /\ signing # NoKey
    /\ \E v \in Values \ {signing} :
          StoreKeyUnlocked(IdentityKeyId, v, [kind |-> "identity", val |-> v])
    /\ UNCHANGED <<file, tmp, saltExists, up, loaded, pass, fernet, clients, lastOpen>>

-----------------------------------------------------------------------------
(* Processes                                                               *)

\* A process constructs KeyStore(path, passphrase or None) and calls
\* open(), which is _ensure_initialized.
Open ==
    /\ ~up
    /\ \E p \in Passphrases :
          LET r == LoadKeystore(p, FALSE, NoKeys) IN
          /\ up' = TRUE
          /\ pass' = p
          /\ loaded' = r.ok
          /\ mem' = r.keys
          /\ fernet' = r.fernet
          /\ LoadSalt(p)
          /\ lastOpen' = IF r.ok THEN "ok" ELSE "failed"
    /\ UNCHANGED <<file, tmp, pc, clients, deleted>>

\* The process ends: when idle, or mid-save if it may crash.  A crash during
\* the temp-file write leaves it torn.  Memory is lost, the disk survives.
ProcessEnds ==
    /\ up
    /\ pc = IdlePc \/ "crash" \in Faults
    /\ up' = FALSE
    /\ loaded' = FALSE /\ mem' = NoKeys /\ pass' = FALSE /\ fernet' = FALSE
    /\ pc' = IdlePc
    /\ current' = NoKey /\ signing' = NoKey
    /\ \/ UNCHANGED tmp
       \/ pc.stage = "write" /\ tmp' = Torn
    /\ UNCHANGED <<file, saltExists, lastOpen, deleted>>

Next ==
    \/ Open \/ ProcessEnds
    \/ \E k \in KeyIds, v \in Values : StoreKey(k, v) \/ RotateKey(k, v)
    \/ \E k \in KeyIds : DeleteKey(k)
    \/ ListKeys \/ Flush \/ Close \/ SetPassphrase
    \/ LoadOrGenerateStaticKey \/ RotateStaticKey
    \/ LoadOrGenerateIdentity \/ RotateIdentity
    \/ WriteTemp \/ WriteFails \/ ReplaceFile

Spec == Init /\ [][Next]_vars

-----------------------------------------------------------------------------
(* Properties                                                              *)

\* Once delete_key has returned True for a key, and no store has put it
\* back, the key is in neither keystore.json nor a loaded _keys: through
\* failed and torn writes, crashes between write and replace, reopens with
\* and without the passphrase, and set_passphrase re-encrypting the file.
AcknowledgedDeleteIsDurable ==
    \A k \in deleted :
        /\ file # NoFile /\ file.keys[k] = Absent
        /\ up /\ loaded => mem[k] = Absent

\* A keystore.json once written Fernet-encrypted is never replaced by a
\* plaintext one: every process that saves over it has derived _fernet
\* (in _load_keystore or set_passphrase).
NoPlaintextDowngrade ==
    [][file # NoFile /\ file.enc = "fernet" => file'.enc = "fernet"]_vars

\* Spec S1: a keystore created with a passphrase can be opened again with
\* that passphrase; open() never raises on a file its own process wrote.
OpenSucceeds == lastOpen # "failed"

=============================================================================
