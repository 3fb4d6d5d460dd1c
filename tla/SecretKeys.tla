----------------------------- MODULE SecretKeys -----------------------------
(***************************************************************************)
(* The encryption of stored secrets (src/src/crypto-store.ts, the routes   *)
(* in routes/security-routes.ts): switching it on and off, the upgrade of  *)
(* an old key, configuration snapshots and the restoration of a database.  *)
(* What a secret is encrypted with is in the database; which key that is,  *)
(* in the security settings, another file; the key itself in memory only.  *)
(*                                                                         *)
(* The routes are synchronous: nothing else happens in one (step # "idle") *)
(* but Terma may exit between two of its writes, or a write may throw.     *)
(* Only the restoration has an await in the middle (stopAllForwards).      *)
(* A key stands for a salt with its password, which the user knows.        *)
(***************************************************************************)
EXTENDS Integers, FiniteSets

CONSTANTS
  Secrets,    \* secret columns of connections, remote profiles and tunnels
  MaxKeys,    \* bound on the keys ever made or brought by a bundle
  MaxSnaps,   \* MAX_SNAPSHOTS, 20 in the code
  Failing     \* the writes that may throw

Sites == {"enable", "upgrade", "begin", "rewrite", "complete", "end", "clear", "restore", "rollback"}
ASSUME SecretAssumption == MaxKeys \in Nat \ {0} /\ MaxSnaps \in Nat \ {0} /\ Failing \subseteq Sites

Keys   == 1..MaxKeys
Plain  == 0       \* a secret as the user typed it
Erased == -1      \* the empty text in the place of one
Bad    == -2      \* no value: an error is thrown
Forms  == {"old", "new"}   \* versions 1 and 2, version 3

VARIABLES
  secret,     \* what a secret is encrypted with
  settings,   \* encryption_state, the key of salt and check, that of the legacy salt and check
  active,     \* activeKey, 0 for null
  activeOld,  \* activeLegacyKey
  form,       \* the version of a key
  keyCount,   \* number of keys made so far
  step,       \* what the running route does next
  restore,    \* a restoration that awaits the stop of the forwards, or is copying
  snaps,      \* configuration snapshots
  mixed       \* history: one of the four accidents named at its assignments has happened

kvars == <<secret, settings, active, activeOld, form, keyCount, step, restore, snaps, mixed>>
memory == <<active, activeOld>>
rest == <<form, keyCount, restore, snaps, mixed>>

States == {"disabled", "enabling", "enabled", "disabling"}
Off == [state |-> "disabled", key |-> 0, legacy |-> 0]
NoRestore == [pc |-> "none", before |-> Off, to |-> Off, bundle |-> FALSE,
              vals |-> [s \in Secrets |-> Plain], backup |-> [s \in Secrets |-> Plain]]

(* A new installation, or one of an older Terma with encryption on. *)
KInit ==
  /\ keyCount \in {0, 1}
  /\ form = [k \in Keys |-> "old"]
  /\ settings = IF keyCount = 1 THEN [Off EXCEPT !.state = "enabled", !.key = 1] ELSE Off
  /\ secret = [s \in Secrets |-> keyCount]
  /\ active = 0 /\ activeOld = 0
  /\ step = "idle" /\ restore = NoRestore /\ snaps = {} /\ mixed = FALSE

Enabled == settings.state # "disabled"
(* encryptionReady, and requireEncryptionUnlocked *)
Ready == ~Enabled \/ (settings.state = "enabled" /\ (active # 0 \/ activeOld # 0))
Fails(site) == site \in Failing
Goes(s) == step' = s

-----------------------------------------------------------------------------
(* The key in memory and those of the settings. *)
OldKey == IF form[settings.key] = "new" THEN settings.legacy ELSE settings.key
NewOne == IF form[settings.key] = "new" THEN settings.key ELSE 0
(* activeKey is one that the settings were never told of: the write in      *)
(* prepareEncryptionUpgrade threw, and nobody has unlocked since.           *)
Stray == Enabled /\ active \notin {0, NewOne}

(* Texts.  decryptText of what is encrypted: without a key it returns the   *)
(* empty text, with another one it throws.                                  *)
Holder(v) == IF form[v] = "new" THEN active ELSE activeOld
Decrypt(v) ==
  IF v \notin Keys THEN v ELSE IF Holder(v) = 0 THEN Erased ELSE IF Holder(v) = v THEN Plain ELSE Bad
(* encryptText *)
Encrypt(v) ==
  IF v # Plain \/ ~Enabled THEN v ELSE IF active = 0 THEN Bad ELSE active

(* Mutant: what is encrypted at all is left as it is. *)
RewrittenIfPlain(v) == IF v \in Keys THEN v ELSE Encrypt(v)
(* encryptStoredConnectionSecrets, on one value. *)
Rewritten(v) == IF v \in Keys /\ form[v] = "new" THEN v ELSE Encrypt(Decrypt(v))

(* normalizeSnapshotSecret *)
FromSnapshot(v) == IF ~Enabled THEN (IF v \in Keys THEN Bad ELSE v) ELSE Encrypt(Decrypt(v))
(* encryptRestoredSecrets and assertNoEncryptedRestoredSecrets, for a       *)
(* database that comes without security settings.                           *)
FromDatabase(v) ==
  IF ~Enabled THEN (IF v \in Keys THEN Bad ELSE v)
  ELSE IF v \in Keys /\ Decrypt(v) = Erased THEN Bad ELSE Encrypt(Decrypt(v))

All(Op(_), vals) == [s \in Secrets |-> Op(vals[s])]
AnyBad(vals) == \E s \in Secrets : vals[s] = Bad

-----------------------------------------------------------------------------
(* Switching encryption on: three writes, then the snapshots are removed.   *)

NewKey(f, k) == /\ k = keyCount + 1 /\ k \in Keys /\ keyCount' = k
                /\ form' = [form EXCEPT ![k] = f]

Enable ==
  /\ step = "idle" /\ ~Enabled
  /\ \E k \in Keys :
       /\ NewKey("new", k)
       /\ active' = k /\ activeOld' = 0
       /\ \/ settings' = [state |-> "enabling", key |-> k, legacy |-> 0] /\ Goes("encrypt")
          \/ Fails("enable") /\ UNCHANGED <<settings, step>>
  /\ UNCHANGED <<secret, restore, snaps, mixed>>

EncryptStored ==
  /\ step \in {"encrypt", "reencrypt"}
  /\ LET vals == All(Rewritten, secret) IN
     \/ /\ ~AnyBad(vals)
        /\ secret' = vals
        /\ Goes(IF step = "encrypt" THEN "complete" ELSE IF vals # secret THEN "clear" ELSE "idle")
     \/ (AnyBad(vals) \/ Fails("rewrite")) /\ Goes("idle") /\ UNCHANGED secret
  /\ UNCHANGED <<settings, memory, rest>>

Complete ==
  /\ step = "complete"
  /\ \/ /\ settings' = [settings EXCEPT !.state = "enabled", !.legacy = 0]
        /\ activeOld' = 0 /\ Goes("clear")
     \/ Fails("complete") /\ Goes("idle") /\ UNCHANGED <<settings, activeOld>>
  /\ UNCHANGED <<secret, active, rest>>

(* clearConfigSnapshots; a file that cannot be removed stays. *)
ClearSnapshots ==
  /\ step = "clear" /\ Goes("idle")
  /\ \/ snaps' = {}
     \/ Fails("clear") /\ UNCHANGED snaps
  /\ UNCHANGED <<secret, settings, memory, form, keyCount, restore, mixed>>

-----------------------------------------------------------------------------
(* Unlocking, which finishes what was interrupted. *)

(* Mutant: the upgrade forgets the key it replaces. *)
UpgradeForgets(k) == [state |-> "enabling", key |-> k, legacy |-> 0]
(* prepareEncryptionUpgrade *)
Upgrade(k) == [state |-> "enabling", key |-> k, legacy |-> settings.key]

(* unlockEncryption; the upgrade replaces what it leaves in activeKey.      *)
(* What is left to do, by the state the settings are in. *)
Resumes(state) ==
  CASE state = "enabling" -> "encrypt" [] state = "disabling" -> "decrypt" [] state = "enabled" -> "reencrypt"

Unlock ==
  /\ step = "idle" /\ Enabled
  /\ activeOld' = OldKey
  /\ IF form[settings.key] = "old" /\ settings.state = "enabled"
     THEN \E k \in Keys :
            /\ NewKey("new", k)
            /\ active' = k
            /\ \/ settings' = Upgrade(k) /\ Goes("encrypt")
               \/ Fails("upgrade") /\ UNCHANGED <<settings, step>>
     ELSE /\ active' = NewOne
          /\ Goes(Resumes(settings.state))
          /\ UNCHANGED <<settings, form, keyCount>>
  /\ UNCHANGED <<secret, restore, snaps, mixed>>

-----------------------------------------------------------------------------
(* Switching it off. *)

Disable ==
  /\ step = "idle"
  /\ IF ~Enabled THEN active' = 0 /\ activeOld' = 0 /\ Goes("clear") /\ UNCHANGED settings
     ELSE /\ active' = NewOne /\ activeOld' = OldKey
          /\ \/ settings' = [settings EXCEPT !.state = "disabling"] /\ Goes("decrypt")
             \/ Fails("begin") /\ UNCHANGED <<settings, step>>
  /\ UNCHANGED <<secret, rest>>

DecryptStored ==
  /\ step = "decrypt"
  /\ LET vals == All(Decrypt, secret) IN
     \/ ~AnyBad(vals) /\ secret' = vals /\ Goes("end")
     \/ (AnyBad(vals) \/ Fails("rewrite")) /\ Goes("idle") /\ UNCHANGED secret
  /\ UNCHANGED <<settings, memory, rest>>

(* disableEncryption *)
EndDisable ==
  /\ step = "end"
  /\ active' = 0 /\ activeOld' = 0
  /\ \/ settings' = Off /\ Goes("clear")
     \/ Fails("end") /\ Goes("idle") /\ UNCHANGED settings
  /\ UNCHANGED <<secret, rest>>

-----------------------------------------------------------------------------
(* Use: a secret is saved; encryptText may throw while an upgrade is due.   *)
(* What is saved under a stray key is under no key the settings know.       *)

SaveSecret(s) ==
  /\ step = "idle" /\ Ready /\ Encrypt(Plain) # Bad
  /\ secret' = [secret EXCEPT ![s] = Encrypt(Plain)]
  /\ mixed' = (mixed \/ Stray)
  /\ UNCHANGED <<settings, memory, step, form, keyCount, restore, snaps>>

ConfigSnapshot == [enabled |-> Enabled, form |-> IF Enabled THEN form[settings.key] ELSE "new", vals |-> secret]
Compatible(p) == p.enabled = Enabled /\ (Enabled => p.form = form[settings.key])

(* createConfigSnapshot; the oldest goes. *)
Adds(p) == \E kept \in SUBSET snaps :
             /\ Cardinality(kept) < MaxSnaps
             /\ Cardinality(kept) < MaxSnaps - 1 => kept = snaps
             /\ snaps' = kept \cup {p}

TakeSnapshot ==
  /\ step = "idle" /\ settings.state \in {"disabled", "enabled"}
  /\ Adds(ConfigSnapshot)
  /\ UNCHANGED <<secret, settings, memory, step, form, keyCount, restore, mixed>>

(* restoreConfigSnapshotById; the route has checked Ready and awaited the   *)
(* stop of the forwards before it.                                          *)
RestoreSnapshot(p) ==
  /\ step = "idle"
  /\ IF ~Compatible(p) THEN snaps' = snaps \ {p} /\ UNCHANGED <<secret, mixed>>
     ELSE /\ Ready /\ ~AnyBad(All(FromSnapshot, p.vals))
          /\ secret' = All(FromSnapshot, p.vals)
          /\ mixed' = (mixed \/ Stray)
          /\ UNCHANGED snaps
  /\ UNCHANGED <<settings, memory, step, form, keyCount, restore>>

-----------------------------------------------------------------------------
(* The restoration of a database, alone or in a bundle with the settings of *)
(* the installation it was taken from.                                      *)

Begins(vals, to, bundle) ==
  /\ ~AnyBad(vals)
  /\ restore' = [pc |-> "stopping", before |-> settings, to |-> to, bundle |-> bundle,
                 vals |-> vals, backup |-> NoRestore.backup]
  /\ Adds(ConfigSnapshot)

BeginRestoration ==
  /\ step = "idle" /\ restore.pc = "none" /\ Ready
  /\ \/ \E v \in {Plain} \cup 1..keyCount :                     \* a database alone
          /\ Begins(All(FromDatabase, [s \in Secrets |-> v]), Off, FALSE)
          /\ mixed' = (mixed \/ Stray) /\ UNCHANGED <<form, keyCount>>
     \/ Begins([s \in Secrets |-> Plain], Off, TRUE) /\ UNCHANGED <<form, keyCount, mixed>>
     \/ \E k \in Keys, f \in Forms :                          \* of this installation, or another one
          /\ IF k <= keyCount THEN UNCHANGED <<form, keyCount>> ELSE NewKey(f, k)
          /\ Begins([s \in Secrets |-> k], [state |-> "enabled", key |-> k, legacy |-> 0], TRUE)
          /\ UNCHANGED mixed
  /\ UNCHANGED <<secret, settings, memory, step>>

StopThrows ==
  /\ step = "idle" /\ restore.pc = "stopping"
  /\ restore' = NoRestore
  /\ UNCHANGED <<secret, settings, memory, step, form, keyCount, snaps, mixed>>

(* The forwards are stopped: the file is copied over. *)
CopyDatabase ==
  /\ step = "idle" /\ restore.pc = "stopping"
  /\ restore' = [restore EXCEPT !.pc = "copied", !.backup = secret]
  /\ secret' = restore.vals
  /\ mixed' = (mixed \/ settings # restore.before)
  /\ Goes("restore")
  /\ UNCHANGED <<settings, memory, form, keyCount, snaps>>

Locks == active' = 0 /\ activeOld' = 0

Brought == IF restore.bundle THEN restore.to ELSE settings
RestoreSettings ==
  /\ step = "restore" /\ Goes("idle")
  /\ settings' = Brought
  /\ restore' = NoRestore /\ Locks
  /\ UNCHANGED <<secret, form, keyCount, snaps, mixed>>

(* The settings cannot be written, or the database not be opened after it:  *)
(* both are put back, unless that throws too, which may leave one half.     *)
RolledBack == restore.backup
RollBack ==
  /\ step = "restore" /\ Fails("restore") /\ Goes("idle")
  /\ \/ secret' = RolledBack /\ settings' = restore.before /\ Locks
     \/ /\ Fails("rollback") /\ secret' \in {secret, RolledBack}
        /\ UNCHANGED <<settings, memory>> \/ (restore.bundle /\ settings' = restore.to /\ Locks)
  /\ mixed' = (mixed \/ <<secret', settings'>> \notin {<<RolledBack, restore.before>>, <<secret, Brought>>})
  /\ restore' = NoRestore
  /\ UNCHANGED <<form, keyCount, snaps>>

-----------------------------------------------------------------------------
(* Terma exits at any moment and starts again: the keys are gone, snapshots *)
(* of another state of the encryption are removed.                          *)
Restart ==
  /\ Locks /\ Goes("idle") /\ restore' = NoRestore
  /\ snaps' = {p \in snaps : Compatible(p)}
  /\ mixed' = (mixed \/ restore.pc = "copied")
  /\ UNCHANGED <<secret, settings, form, keyCount>>

RouteStep == EncryptStored \/ Complete \/ ClearSnapshots \/ DecryptStored \/ EndDisable \/ RestoreSettings \/ RollBack

KNext ==
  \/ Enable \/ Unlock \/ Disable \/ RouteStep
  \/ TakeSnapshot \/ (\E s \in Secrets : SaveSecret(s)) \/ (\E p \in snaps : RestoreSnapshot(p))
  \/ BeginRestoration \/ StopThrows \/ CopyDatabase
  \/ Restart
KSafety == KInit /\ [][KNext]_kvars

-----------------------------------------------------------------------------
KTypeOK ==
  /\ secret \in [Secrets -> Keys \cup {Plain, Erased}]
  /\ settings \in [state : States, key : 0..keyCount, legacy : 0..keyCount]
  /\ active \in 0..keyCount /\ activeOld \in 0..keyCount
  /\ form \in [Keys -> Forms] /\ keyCount \in 0..MaxKeys
  /\ step \in {"idle", "encrypt", "reencrypt", "complete", "clear", "decrypt", "end", "restore"}
  /\ mixed \in BOOLEAN

(* Every secret can be read again with a key the settings describe: however *)
(* switching the encryption on and off, upgrading it and restoring is cut   *)
(* short by an exit or an error, at any of the writes, and continued.  Four *)
(* accidents are set apart: a secret saved under a stray key, settings that *)
(* changed under a restoration, an exit between its database and its        *)
(* settings, and a roll back that stopped half way.                         *)
SecretsReadable == \A s \in Secrets : secret[s] \in {Plain, settings.key, settings.legacy}
SecretsReadableUnlessMixed == ~mixed /\ restore.pc # "copied" => SecretsReadable

(* What the program calls ready it can read: no plain secret while the      *)
(* encryption is on, none under a key that is not in memory.                *)
ReadyReads ==
  Ready /\ ~mixed /\ step = "idle" =>
    \A s \in Secrets : IF Enabled THEN secret[s] \in Keys /\ Decrypt(secret[s]) = Plain ELSE secret[s] = Plain
=============================================================================
