------------------------------ MODULE ConfigStore ------------------------------
(***************************************************************************)
(* DatabaseConfigService with CredentialCipher and MasterKeyProvider: the  *)
(* table of monitored databases, the one-time import of databases.json,    *)
(* the re-encryption of every stored password at each start, the master    *)
(* key file and its rotation, and crashes at every step of the start.      *)
(*                                                                         *)
(* A row keeps its two encrypted columns, the password and one additional  *)
(* account; what is stored is abstracted to its form, the password it      *)
(* stands for and the key it was made with.                                *)
(***************************************************************************)
EXTENDS Naturals, FiniteSets

CONSTANTS
  Id,          \* instance ids
  Secret,      \* passwords in clear
  KeyId,       \* ids of master keys; Generated is the id of a generated key
  KeyValue,    \* key material: bounds how many keys are ever made
  Generated,   \* "k1"
  LegacyFile,  \* databases.json: a function from the ids listed to their rows
  MaxBoots,    \* bound on the number of starts
  MaxEdits,    \* bound on the number of changes made by the administrator
  None

ASSUME GeneratedAssumption == Generated \in KeyId
ASSUME NoneAssumption == None \notin Secret \cup KeyId \cup KeyValue

VARIABLES
  phase,     \* how far the start of the application is
  todo,      \* the rows the import or the scan has still to visit
  loaded,    \* MasterKeyProvider: activeKeyId and keysById
  keyFile,   \* dbagent.key
  rows,      \* db_instances
  migrated,  \* db_config_meta.migrated_from_json
  reported,  \* instances this start logged as not decryptable
  entered,   \* the row the administrator last meant, in clear (history variable)
  opened,    \* has any start been completed? (history variable)
  spare,     \* key material nobody has used
  boots, edits

vars == <<phase, todo, loaded, keyFile, rows, migrated, reported, entered, opened,
          spare, boots, edits>>

-----------------------------------------------------------------------------
(* Stored values                                                           *)

Blank == [form |-> "blank", secret |-> None, keyId |-> None, key |-> None]
\* Clear text and B64(...) are both readable without a key.
Legacy(s) == [form |-> "legacy", secret |-> s, keyId |-> None, key |-> None]
\* Broken base64: decrypt throws whatever the key.
Damaged == [form |-> "damaged", secret |-> None, keyId |-> None, key |-> None]
Enc(s, id, k) == [form |-> "enc", secret |-> s, keyId |-> id, key |-> k]

Stored == {Blank, Damaged} \cup {Legacy(s) : s \in Secret}
          \cup {Enc(s, i, k) : s \in Secret, i \in KeyId, k \in KeyValue}
Row == [password : Stored, account : Stored]
ClearRow == [password : Secret \cup {None}, account : Secret \cup {None}]
ASSUME RowAssumption == None \notin Row \cup ClearRow
\* databases.json is older than the master key: clear text, B64(...), or broken base64.
FileValue == {Blank, Damaged} \cup {Legacy(s) : s \in Secret}
ASSUME FileAssumption ==
  /\ DOMAIN LegacyFile \subseteq Id
  /\ \A d \in DOMAIN LegacyFile : LegacyFile[d] \in [password : FileValue, account : FileValue]
ASSUME BoundAssumption == MaxBoots \in Nat /\ MaxEdits \in Nat
Present == {d \in Id : rows[d] # None}

KeyRing == [state : {"absent", "torn", "written"}, active : KeyId \cup {None},
            keys : [KeyId -> KeyValue \cup {None}]]
NoKeys == [state |-> "absent", active |-> None, keys |-> [i \in KeyId |-> None]]
Running == {"import", "scan", "ready", "up"}

\* CredentialCipher.decrypt succeeds: a key of the right id but of other
\* material fails on the authentication tag.
Readable(v, ring) ==
  v.form \in {"blank", "legacy"} \/ (v.form = "enc" /\ ring.keys[v.keyId] = v.key)
RowReadable(r, ring) == Readable(r.password, ring) /\ Readable(r.account, ring)

NeedsReencrypt(v, ring) ==
  v.form # "blank" /\ ~(v.form = "enc" /\ v.keyId = ring.active)

\* CredentialCipher.encrypt with the active key; an empty password stays empty.
Encrypt(s, ring) == Enc(s, ring.active, ring.keys[ring.active])
Reencrypted(v, ring) == IF NeedsReencrypt(v, ring) THEN Encrypt(v.secret, ring) ELSE v

\* A value that must be re-encrypted and cannot be read throws, and the
\* exception skips the whole row.
Stuck(v, ring) == NeedsReencrypt(v, ring) /\ ~Readable(v, ring)
RowStuck(r, ring) == Stuck(r.password, ring) \/ Stuck(r.account, ring)
\* Mutant: the accounts of a row are not re-encrypted.
PasswordReencrypted(r, ring) ==
  IF RowStuck(r, ring) THEN r ELSE [r EXCEPT !.password = Reencrypted(@, ring)]

RowReencrypted(r, ring) ==
  IF RowStuck(r, ring) THEN r
  ELSE [password |-> Reencrypted(r.password, ring), account |-> Reencrypted(r.account, ring)]

Clear(r) == [password |-> r.password.secret, account |-> r.account.secret]

TypeOK ==
  /\ phase \in {"down", "savingKey", "failed"} \cup Running
  /\ todo \subseteq Id
  /\ loaded \in KeyRing /\ keyFile \in KeyRing
  /\ rows \in [Id -> Row \cup {None}]
  /\ migrated \in BOOLEAN
  /\ reported \subseteq Id
  /\ entered \in [Id -> ClearRow \cup {None}]
  /\ opened \in BOOLEAN
  /\ spare \subseteq KeyValue
  /\ boots \in 0..MaxBoots /\ edits \in 0..MaxEdits

Init ==
  /\ phase = "down"
  /\ todo = {}
  /\ loaded = NoKeys /\ keyFile = NoKeys
  /\ rows = [d \in Id |-> None]
  /\ migrated = FALSE
  /\ reported = {}
  /\ entered = [d \in Id |-> None]
  /\ opened = FALSE
  /\ spare = KeyValue
  /\ boots = 0 /\ edits = 0

-----------------------------------------------------------------------------
(* A start: MasterKeyProvider.init, DatabaseConfigService.init, and the    *)
(* ApplicationReadyEvent                                                   *)

\* The keys are known: init imports databases.json unless it is flagged as done.
InitStore(ring) ==
  /\ loaded' = ring
  /\ phase' = IF migrated THEN "scan" ELSE "import"
  /\ todo' = IF migrated THEN Present ELSE DOMAIN LegacyFile
  /\ reported' = {}

StartWithKey ==
  /\ phase \in {"down", "failed"} /\ boots < MaxBoots
  /\ keyFile.state = "written"
  /\ boots' = boots + 1
  /\ InitStore(keyFile)
  /\ UNCHANGED <<keyFile, rows, migrated, entered, opened, spare, edits>>

\* A file without an active key: every start is refused.
StartRefused ==
  /\ phase \in {"down", "failed"} /\ boots < MaxBoots
  /\ keyFile.state = "torn"
  /\ boots' = boots + 1
  /\ phase' = "down"
  /\ UNCHANGED <<todo, loaded, keyFile, rows, migrated, reported, entered, opened, spare, edits>>

\* No file: one is created in place, empty until it is written.
StartWithoutKey ==
  /\ phase \in {"down", "failed"} /\ boots < MaxBoots
  /\ keyFile.state = "absent"
  /\ boots' = boots + 1
  /\ phase' = "savingKey"
  /\ keyFile' = [NoKeys EXCEPT !.state = "torn"]
  /\ UNCHANGED <<todo, loaded, rows, migrated, reported, entered, opened, spare, edits>>

SaveKey(m) ==
  /\ phase = "savingKey"
  /\ m \in spare
  /\ keyFile' = [state |-> "written", active |-> Generated, keys |-> [NoKeys.keys EXCEPT ![Generated] = m]]
  /\ spare' = spare \ {m}
  /\ InitStore(keyFile')
  /\ UNCHANGED <<rows, migrated, entered, opened, boots, edits>>

\* databases.json is missing or cannot be parsed: nothing is imported.
ImportNothing ==
  /\ phase = "import" /\ todo = DOMAIN LegacyFile
  /\ todo' = {}
  /\ UNCHANGED <<phase, loaded, keyFile, rows, migrated, reported, entered, opened, spare, boots, edits>>

\* MERGE of one instance; what cannot be encrypted is stored as it is in the file.
ImportRow(d) ==
  /\ phase = "import" /\ d \in todo
  /\ rows' = [rows EXCEPT ![d] = RowReencrypted(LegacyFile[d], loaded)]
  /\ entered' = IF opened THEN entered ELSE [entered EXCEPT ![d] = Clear(LegacyFile[d])]
  /\ todo' = todo \ {d}
  /\ UNCHANGED <<phase, loaded, keyFile, migrated, reported, opened, spare, boots, edits>>

EndImport ==
  /\ phase = "import" /\ todo = {}
  /\ migrated' = TRUE
  /\ phase' = "scan"
  /\ todo' = Present
  /\ UNCHANGED <<loaded, keyFile, rows, reported, entered, opened, spare, boots, edits>>

\* reencryptAllPasswords, one row: an UPDATE of its own, or an ERROR line.
ScanRow(d) ==
  /\ phase = "scan" /\ d \in todo
  /\ rows' = [rows EXCEPT ![d] = RowReencrypted(@, loaded)]
  /\ reported' = IF RowStuck(rows[d], loaded) THEN reported \cup {d} ELSE reported
  /\ todo' = todo \ {d}
  /\ UNCHANGED <<phase, loaded, keyFile, migrated, entered, opened, spare, boots, edits>>

EndScan ==
  /\ phase = "scan" /\ todo = {}
  /\ phase' = "ready"
  /\ opened' = TRUE
  /\ UNCHANGED <<todo, loaded, keyFile, rows, migrated, reported, entered, spare, boots, edits>>

\* backfillOnStartup calls listAllInstances, which decrypts the password of
\* every row; an exception from a listener of ApplicationReadyEvent ends the start.
Ready ==
  /\ phase = "ready"
  /\ phase' = IF \A d \in Present : Readable(rows[d].password, loaded) THEN "up" ELSE "failed"
  /\ UNCHANGED <<todo, loaded, keyFile, rows, migrated, reported, entered, opened, spare, boots, edits>>

\* A crash or a stop, between any two steps.
Crash ==
  /\ phase \in {"savingKey"} \cup Running
  /\ phase' = "down"
  /\ todo' = {} /\ reported' = {}
  /\ loaded' = NoKeys
  /\ UNCHANGED <<keyFile, rows, migrated, entered, opened, spare, boots, edits>>

-----------------------------------------------------------------------------
(* The administration page: each call reads and writes under writeLock     *)

Edit ==
  /\ phase \in {"ready", "up"} /\ edits < MaxEdits
  /\ edits' = edits + 1
  /\ UNCHANGED <<phase, todo, loaded, keyFile, migrated, reported, opened, spare, boots>>

\* Mutants: a field left blank clears the password, or is encrypted as it is.
GivenOrBlank(s, kept) == IF s = None THEN Blank ELSE Encrypt(s, loaded)
GivenEncrypted(s, kept) == Encrypt(s, loaded)
\* What is stored for a password field of the form: None stands for a field left blank.
Given(s, kept) == IF s = None THEN kept ELSE Encrypt(s, loaded)

CreateInstance(d, password, account) ==
  /\ Edit
  /\ rows[d] = None
  /\ rows' = [rows EXCEPT ![d] = [password |-> Given(password, Blank), account |-> Given(account, Blank)]]
  /\ entered' = [entered EXCEPT ![d] = [password |-> password, account |-> account]]

\* A blank password keeps the stored one; so does a blank password of an
\* account that is stored.  keep is FALSE when the account is not in the form.
UpdateInstance(d, password, account, keep) ==
  /\ Edit
  /\ rows[d] # None
  /\ keep => rows[d].account # Blank
  /\ rows' = [rows EXCEPT ![d] =
       [password |-> Given(password, @.password),
        account |-> Given(account, IF keep THEN @.account ELSE Blank)]]
  /\ entered' = [entered EXCEPT ![d] =
       [password |-> IF password = None THEN @.password ELSE password,
        account |-> IF account = None /\ keep THEN @.account ELSE account]]

DeleteInstance(d) ==
  /\ Edit
  /\ rows[d] # None
  /\ rows' = [rows EXCEPT ![d] = None]
  /\ entered' = [entered EXCEPT ![d] = None]

-----------------------------------------------------------------------------
(* The operator: the key file, and a roll-back to the previous version     *)

\* A new active key is added and the old ones are kept.
RotateKey(i, m) ==
  /\ keyFile.state = "written"
  /\ keyFile.keys[i] = None /\ m \in spare
  /\ keyFile' = [keyFile EXCEPT !.active = i, !.keys[i] = m]
  /\ spare' = spare \ {m}
  /\ UNCHANGED <<phase, todo, loaded, rows, migrated, reported, entered, opened, boots, edits>>

\* Old keys are dropped once a start with the new key has reported no row.
DropOldKeys ==
  /\ phase = "up" /\ loaded.active = keyFile.active /\ reported = {}
  /\ keyFile' = [keyFile EXCEPT !.keys = [i \in KeyId |-> IF i = keyFile.active THEN @[i] ELSE None]]
  /\ UNCHANGED <<phase, todo, loaded, rows, migrated, reported, entered, opened, spare, boots, edits>>

\* "Delete the key file and restart" (message of checkKeyLengthAllowed).
LoseKeyFile ==
  /\ phase \in {"down", "failed"} /\ keyFile.state # "absent"
  /\ keyFile' = NoKeys
  /\ UNCHANGED <<phase, todo, loaded, rows, migrated, reported, entered, opened, spare, boots, edits>>

\* The previous version, run on the same table, makes the import itself when none is
\* flagged as done: what is in the file is stored as it is.
RollBackImport ==
  /\ phase \in {"down", "failed"} /\ ~migrated
  /\ \E listed \in {{}, DOMAIN LegacyFile} :
       /\ rows' = [d \in Id |-> IF d \in listed THEN LegacyFile[d] ELSE rows[d]]
       /\ entered' = [d \in Id |-> IF d \in listed THEN Clear(LegacyFile[d]) ELSE entered[d]]
  /\ migrated' = TRUE
  /\ UNCHANGED <<phase, todo, loaded, keyFile, reported, opened, spare, boots, edits>>

\* Then it stores B64(...).
RollBack(d, s) ==
  /\ phase \in {"down", "failed"} /\ edits < MaxEdits
  /\ migrated
  /\ rows[d] # None
  /\ rows' = [rows EXCEPT ![d].password = Legacy(s)]
  /\ entered' = [entered EXCEPT ![d].password = s]
  /\ edits' = edits + 1
  /\ UNCHANGED <<phase, todo, loaded, keyFile, migrated, reported, opened, spare, boots>>

Start == StartWithKey \/ StartRefused \/ StartWithoutKey \/ \E m \in KeyValue : SaveKey(m)
Store == ImportNothing \/ EndImport \/ EndScan \/ Ready \/ \E d \in Id : ImportRow(d) \/ ScanRow(d)
Administration ==
  \E d \in Id :
    \/ \E p \in Secret, a \in Secret \cup {None} : CreateInstance(d, p, a)
    \/ \E p, a \in Secret \cup {None}, keep \in BOOLEAN : UpdateInstance(d, p, a, keep)
    \/ DeleteInstance(d)
Environment ==
  \/ Crash
  \/ \E i \in KeyId, m \in KeyValue : RotateKey(i, m)
  \/ DropOldKeys
  \/ LoseKeyFile
  \/ RollBackImport
  \/ \E d \in Id, s \in Secret : RollBack(d, s)

Next == Start \/ Store \/ Administration \/ Environment
Spec == Init /\ [][Next]_vars

-----------------------------------------------------------------------------
(* Properties                                                              *)

\* What is stored for an instance stands for what the administrator last meant,
\* and an instance exists exactly when he last meant it to: no crash of a start,
\* repeated import, re-encryption or blank form field changes or revives it.
SecretsKept ==
  \A d \in Id :
    /\ rows[d] = None <=> entered[d] = None
    /\ rows[d] # None => Clear(rows[d]) = entered[d]

\* Self-healing scan: after a start no password, of the instance or of its
\* account, is in clear or under an old key unless its instance was reported,
\* whatever crashes, rotations or roll-backs came before.
Healed ==
  phase \in {"ready", "up"} =>
    \A d \in Present \ reported, f \in {"password", "account"} :
      rows[d][f].form = "blank" \/ (rows[d][f].form = "enc" /\ rows[d][f].keyId = loaded.active)

\* A password that the keys of the key file can read stays readable as long as
\* nobody deletes the file: dropping the old keys after a clean start loses nothing.
RotationLosesNothing ==
  [][\A d \in Present, f \in {"password", "account"} :
       Readable(rows[d][f], keyFile) /\ rows'[d] # None /\ keyFile'.state = "written"
         => Readable(rows'[d][f], keyFile')]_vars

\* "One instance does not keep the whole application from starting" (comment
\* on reencryptAllPasswords).
BadRowDoesNotStopStartup == phase # "failed"

\* An instance whose passwords cannot be read is named in the log of the start
\* (comments on reencryptAllPasswords and migrateFromJsonFile).
UnreadableIsReported ==
  phase = "ready" => \A d \in Present : RowReadable(rows[d], loaded) \/ d \in reported
=============================================================================
