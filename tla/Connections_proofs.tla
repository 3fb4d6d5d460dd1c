-------------------------- MODULE Connections_proofs ------------------------
(***************************************************************************)
(* Proofs about what every connection rests on: the stored secrets and the *)
(* shared SFTP session.                                                    *)
(***************************************************************************)
EXTENDS SecretKeys, SftpSessions, FiniteSetTheorems, TLAPS

-----------------------------------------------------------------------------
(***************************************************************************)
(* Proofs about the stored secrets, for any secrets and any bound on keys  *)
(* and snapshots: however the encryption is switched on and off, upgraded, *)
(* cut short by an exit or a failing write, and taken up again, no secret  *)
(* is left under a key that the settings do not describe.                  *)
(***************************************************************************)

Vals == Keys \cup {Plain, Erased}
Made == 0..keyCount
SettingsType == [state : States, key : Made, legacy : Made]

Typed ==
  /\ secret \in [Secrets -> Vals]
  /\ keyCount \in 0..MaxKeys /\ form \in [Keys -> Forms]
  /\ active \in Made /\ activeOld \in Made
  /\ settings \in SettingsType
  /\ step \in {"idle", "encrypt", "reencrypt", "complete", "clear", "decrypt", "end", "restore"}
  /\ restore \in [pc : {"none", "stopping", "copied"}, before : SettingsType, to : SettingsType,
                  bundle : BOOLEAN, vals : [Secrets -> Vals], backup : [Secrets -> Vals]]
  /\ \A p \in snaps : p \in [enabled : BOOLEAN, form : Forms, vals : [Secrets -> Vals]]
  /\ mixed \in BOOLEAN

(* Settings x make sense: off means without keys, and the legacy key is an  *)
(* old one that waits for the switch to a new one to end.                   *)
Sane(x) ==
  /\ x.state = "disabled" => x = Off
  /\ x.state # "disabled" => x.key \in 1..keyCount
  /\ x.state = "enabled" => x.legacy = 0
  /\ x.state = "enabling" => form[x.key] = "new"
  /\ x.legacy # 0 => form[x.key] = "new" /\ form[x.legacy] = "old"

(* The secrets vals are as settings x say. *)
Fits(vals, x) ==
  \A s \in Secrets :
    /\ x.state = "disabled" => vals[s] = Plain
    /\ x.state = "enabled" => vals[s] = x.key
    /\ vals[s] \in {Plain, x.key, x.legacy}

(* The keys in memory are those of the settings, if they are there at all,  *)
(* and they are there while secrets are rewritten.  Only beside an old key  *)
(* that has been unlocked may there be a stray one.                         *)
KeysFit ==
  Enabled => /\ activeOld \in {0, OldKey}
             /\ Stray => settings.state = "enabled" /\ form[settings.key] = "old" /\ activeOld = OldKey
Loaded == active = NewOne /\ activeOld = OldKey

Steps ==
  /\ step \in {"encrypt", "complete"} => settings.state = "enabling" /\ Loaded
  /\ step = "reencrypt" => settings.state = "enabled" /\ form[settings.key] = "new" /\ Loaded
  /\ step = "decrypt" => settings.state = "disabling" /\ Loaded
  /\ step = "end" => settings.state = "disabling"
  /\ step = "restore" <=> restore.pc = "copied"

Whole ==
  /\ restore.pc # "copied" => Fits(secret, settings)
  /\ step = "complete" => \A s \in Secrets : secret[s] = settings.key
  /\ step = "end" => \A s \in Secrets : secret[s] = Plain

Target(before) == IF restore.bundle THEN restore.to ELSE before
Restoring ==
  /\ restore.pc = "stopping" => Fits(restore.vals, Target(restore.before))
  /\ restore.pc = "copied" => /\ settings = restore.before
                              /\ Fits(secret, Target(settings))
                              /\ Fits(restore.backup, settings)

(* What a snapshot holds is plain, or under a key made, of its version. *)
SnapFits(p) ==
  \A s \in Secrets : IF p.enabled THEN p.vals[s] \in 1..keyCount /\ form[p.vals[s]] = p.form
                                  ELSE p.vals[s] = Plain

KInv ==
  /\ Typed
  /\ Sane(settings) /\ Sane(restore.before) /\ Sane(restore.to)
  /\ restore.to.state \in {"disabled", "enabled"}
  /\ restore.before.state \in {"disabled", "enabled"}
  /\ KeysFit /\ Steps
  /\ ~mixed => Whole /\ Restoring /\ \A p \in snaps : SnapFits(p)

-----------------------------------------------------------------------------
(* Single values. *)

LEMMA Numbers ==
  /\ MaxKeys \in Nat /\ MaxKeys >= 1 /\ Plain = 0 /\ Erased = -1 /\ Bad = -2
  /\ \A v \in Keys : v \in Int /\ v >= 1
BY SecretAssumption DEF Keys, Plain, Erased, Bad

LEMMA Readable ==
  ASSUME Typed, Sane(settings), Loaded, Enabled, NEW v \in {Plain, settings.key, settings.legacy}
  PROVE  Decrypt(v) = Plain
<1> USE Numbers
<1>1. settings.key \in 1..keyCount /\ settings.legacy \in 0..keyCount /\ keyCount <= MaxKeys /\ keyCount \in Int
  BY DEF Typed, Sane, SettingsType, Made, Enabled
<1>2. CASE v = Plain
  BY <1>2 DEF Decrypt
<1>3. CASE v = settings.key
  <2>1. form[v] \in Forms
    BY <1>1, <1>3 DEF Typed, Keys
  <2>2. Holder(v) = v
    BY <2>1, <1>3, <1>1 DEF Holder, Loaded, NewOne, OldKey, Forms, Sane
  <2> QED BY <2>2, <1>1, <1>3 DEF Decrypt, Keys
<1>4. CASE v = settings.legacy /\ v # Plain
  <2>1. form[v] = "old" /\ form[settings.key] = "new"
    BY <1>4 DEF Sane
  <2>2. Holder(v) = v
    BY <2>1, <1>4 DEF Holder, Loaded, OldKey
  <2> QED BY <2>2, <1>1, <1>4 DEF Decrypt, Keys
<1> QED BY <1>2, <1>3, <1>4

LEMMA RewrittenValue ==
  ASSUME Typed, Sane(settings), Loaded, settings.state \in {"enabling", "enabled"},
         form[settings.key] = "new", NEW v \in {Plain, settings.key, settings.legacy}
  PROVE  Rewritten(v) = settings.key
<1> USE Numbers
<1>1. settings.key \in 1..keyCount /\ settings.legacy \in 0..keyCount /\ keyCount <= MaxKeys /\ keyCount \in Int
  BY DEF Typed, Sane, SettingsType, Made
<1>2. Enabled
  BY DEF Enabled
<1>3. Decrypt(v) = Plain
  BY <1>2, Readable
<1>4. Encrypt(Plain) = settings.key
  BY <1>1, <1>2 DEF Encrypt, Loaded, NewOne
<1>5. CASE v \in Keys /\ form[v] = "new"
  <2>1. v = settings.key
    BY <1>5 DEF Sane
  <2> QED BY <2>1, <1>5 DEF Rewritten
<1>6. CASE ~(v \in Keys /\ form[v] = "new")
  BY <1>6, <1>3, <1>4 DEF Rewritten
<1> QED BY <1>5, <1>6

LEMMA ValueTypes ==
  ASSUME Typed, NEW v \in Vals
  PROVE  /\ Decrypt(v) \in Vals \cup {Bad} /\ Encrypt(v) \in Vals \cup {Bad}
         /\ Rewritten(v) \in Vals \cup {Bad}
         /\ FromSnapshot(v) \in Vals \cup {Bad} /\ FromDatabase(v) \in Vals \cup {Bad}
<1> USE Numbers
<1>1. active \in 0..keyCount /\ keyCount \in 0..MaxKeys
  BY DEF Typed, Made
<1>2. \A w \in Vals \cup {Bad} : Encrypt(w) \in Vals \cup {Bad}
  BY <1>1 DEF Encrypt, Vals, Keys
<1>3. Decrypt(v) \in Vals \cup {Bad}
  BY DEF Decrypt, Vals
<1> QED BY <1>2, <1>3 DEF Rewritten, FromSnapshot, FromDatabase

LEMMA EncryptedPlain ==
  ASSUME Typed, Sane(settings), ~Stray, Encrypt(Plain) # Bad,
         settings.state \in {"disabled", "enabled"}
  PROVE  /\ settings.state = "disabled" => Encrypt(Plain) = Plain
         /\ settings.state = "enabled" => Encrypt(Plain) = settings.key
<1> USE Numbers
<1>1. CASE settings.state = "disabled"
  BY <1>1 DEF Encrypt, Enabled
<1>2. CASE settings.state = "enabled"
  BY <1>2 DEF Encrypt, Enabled, Stray, NewOne
<1> QED BY <1>1, <1>2

LEMMA SnapshotValue ==
  ASSUME KInv, ~mixed, ~Stray, Ready, NEW p \in snaps, Compatible(p), NEW s \in Secrets,
         FromSnapshot(p.vals[s]) # Bad
  PROVE  /\ settings.state = "disabled" => FromSnapshot(p.vals[s]) = Plain
         /\ settings.state = "enabled" => FromSnapshot(p.vals[s]) = settings.key
<1> USE Numbers DEF KInv
<1> DEFINE v == p.vals[s]
<1>1. p \in [enabled : BOOLEAN, form : Forms, vals : [Secrets -> Vals]] /\ v \in Vals /\ SnapFits(p)
  BY DEF Typed
<1>2. CASE settings.state = "disabled"
  <2>1. v = Plain
    BY <1>1, <1>2 DEF SnapFits, Compatible, Enabled
  <2> QED BY <2>1, <1>2 DEF FromSnapshot, Enabled
<1>3. CASE settings.state = "enabled"
  <2>1. Enabled /\ settings.key \in Keys /\ form[settings.key] \in Forms /\ settings.legacy = 0
    BY <1>3 DEF Typed, Enabled, Sane, SettingsType, Made, Keys
  <2>2. v \in Keys /\ form[v] = form[settings.key]
    BY <1>1, <2>1 DEF SnapFits, Compatible, Typed, Keys
  <2>3. FromSnapshot(v) = Encrypt(Decrypt(v))
    BY <2>1 DEF FromSnapshot
  <2>4. CASE form[settings.key] = "new"
    <3>1. active = settings.key
      BY <2>1, <2>4 DEF Ready, Stray, KeysFit, NewOne, OldKey
    <3>2. Decrypt(v) = Plain
      BY <3>1, <2>1, <2>2, <2>3, <2>4 DEF Decrypt, Holder, Encrypt
    <3> QED BY <3>1, <3>2, <2>1, <2>3, <1>3 DEF Encrypt
  <2>5. CASE form[settings.key] = "old"
    <3>1. active = 0 /\ activeOld = settings.key
      BY <2>1, <2>5 DEF Ready, Stray, KeysFit, NewOne, OldKey
    <3>2. Encrypt(Decrypt(v)) = Bad
      BY <3>1, <2>1, <2>2, <2>5 DEF Decrypt, Holder, Encrypt
    <3> QED BY <3>2, <2>3
  <2> QED BY <2>1, <2>4, <2>5, <1>3 DEF Forms
<1> QED BY <1>2, <1>3

LEMMA DatabaseValue ==
  ASSUME KInv, ~Stray, Ready, NEW v \in Vals, v # Erased, FromDatabase(v) # Bad
  PROVE  /\ settings.state = "disabled" => FromDatabase(v) = Plain
         /\ settings.state = "enabled" => FromDatabase(v) = settings.key
<1> USE Numbers DEF KInv
<1>1. CASE settings.state = "disabled"
  BY <1>1 DEF FromDatabase, Enabled, Vals
<1>2. CASE settings.state = "enabled"
  <2>1. Enabled /\ settings.key \in Keys
    BY <1>2 DEF Typed, Enabled, Sane, SettingsType, Made, Keys
  <2>2. FromDatabase(v) = Encrypt(Decrypt(v)) /\ ~(v \in Keys /\ Decrypt(v) = Erased)
    BY <2>1 DEF FromDatabase
  <2>3. Decrypt(v) \in {Plain, Bad}
    BY <2>2 DEF Decrypt, Vals
  <2>4. Decrypt(v) # Bad
    BY <2>2 DEF Encrypt
  <2> QED BY <2>2, <2>3, <2>4, <1>2, EncryptedPlain
<1> QED BY <1>1, <1>2

-----------------------------------------------------------------------------
(* The invariant holds at first, and every action keeps it. *)

LEMMA KInitInv == KInit => KInv
<1> SUFFICES ASSUME KInit PROVE KInv
  OBVIOUS
<1> USE Numbers
<1>1. Typed
  <2>1. settings \in SettingsType /\ Off \in SettingsType
    <3>1. keyCount \in {0, 1} /\ {0, 1} \subseteq Int
      BY DEF KInit
    <3>2. CASE keyCount = 0
      BY <3>2 DEF KInit, SettingsType, States, Made, Off
    <3>3. CASE keyCount = 1
      <4>1. settings = [state |-> "enabled", key |-> 1, legacy |-> 0]
        BY <3>3 DEF KInit, Off
      <4> QED BY <4>1, <3>3 DEF SettingsType, States, Made, Off
    <3> QED BY <3>1, <3>2, <3>3
  <2>2. keyCount \in Vals /\ Plain \in Vals /\ keyCount \in 0..MaxKeys
    BY DEF KInit, Vals, Keys
  <2>3. restore = [pc |-> "none", before |-> Off, to |-> Off, bundle |-> FALSE,
                   vals |-> [s \in Secrets |-> Plain], backup |-> [s \in Secrets |-> Plain]]
    BY DEF KInit, NoRestore
  <2>4. secret \in [Secrets -> Vals] /\ form \in [Keys -> Forms]
    BY <2>2 DEF KInit, Forms
  <2>5. /\ restore.pc = "none" /\ restore.bundle = FALSE
        /\ restore \in [pc : {"none", "stopping", "copied"}, before : SettingsType, to : SettingsType,
                        bundle : BOOLEAN, vals : [Secrets -> Vals], backup : [Secrets -> Vals]]
    BY <2>1, <2>2, <2>3
  <2>6. keyCount \in {0, 1} /\ active = 0 /\ activeOld = 0 /\ step = "idle" /\ snaps = {} /\ mixed = FALSE
    BY DEF KInit
  <2>7. active \in Made /\ activeOld \in Made
    BY <2>6 DEF Made
  <2>8. mixed \in BOOLEAN /\ \A p \in snaps : p \in [enabled : BOOLEAN, form : Forms, vals : [Secrets -> Vals]]
    BY <2>6
  <2> QED BY <2>1, <2>2, <2>4, <2>5, <2>6, <2>7, <2>8 DEF Typed
<1>2. Sane(settings) /\ Sane(restore.before) /\ Sane(restore.to)
  BY DEF KInit, Sane, Off, NoRestore
<1>3. KeysFit /\ Steps /\ restore.to.state = "disabled" /\ restore.before.state = "disabled"
  BY DEF KInit, KeysFit, Stray, Steps, Off, NoRestore
<1>4. Whole /\ Restoring /\ \A p \in snaps : SnapFits(p)
  BY DEF KInit, Whole, Restoring, Fits, Off, NoRestore
<1> QED BY <1>1, <1>2, <1>3, <1>4 DEF KInv

LEMMA EnableInv == KInv /\ Enable => KInv'
<1> SUFFICES ASSUME KInv, Enable PROVE KInv'
  OBVIOUS
<1> USE Numbers DEF KInv
<1>1. PICK k \in Keys :
        /\ NewKey("new", k) /\ active' = k /\ activeOld' = 0
        /\ \/ settings' = [state |-> "enabling", key |-> k, legacy |-> 0] /\ Goes("encrypt")
           \/ Fails("enable") /\ UNCHANGED <<settings, step>>
  BY DEF Enable
<1>2. /\ step = "idle" /\ settings.state = "disabled" /\ settings = Off
      /\ UNCHANGED <<secret, restore, snaps, mixed>>
  BY DEF Enable, Enabled, Sane
<1>3. /\ keyCount' = keyCount + 1 /\ k = keyCount + 1 /\ keyCount' \in 0..MaxKeys /\ keyCount \in Nat
      /\ form' \in [Keys -> Forms] /\ form'[k] = "new"
      /\ \A i \in 1..keyCount : form'[i] = form[i]
  BY <1>1 DEF NewKey, Typed, Keys, Forms
<1>4. Typed'
  BY <1>1, <1>2, <1>3 DEF Typed, Made, SettingsType, States, Goes, Keys
<1>5. (Sane(settings) /\ Sane(restore.before) /\ Sane(restore.to))'
  BY <1>1, <1>2, <1>3 DEF Sane, Typed, SettingsType, Made, Off, Keys
<1>6. KeysFit' /\ Steps'
  BY <1>1, <1>2, <1>3 DEF KeysFit, Stray, Steps, Enabled, NewOne, OldKey, Off, Loaded, Goes, Typed
<1>7. ~mixed' => Whole' /\ Restoring' /\ \A p \in snaps' : SnapFits(p)'
  <2>1. ~mixed => Whole' /\ Restoring'
    BY <1>1, <1>2, <1>3 DEF Whole, Restoring, Fits, Target, Off, Goes, Steps
  <2>2. ~mixed => \A p \in snaps : SnapFits(p)'
    BY <1>2, <1>3 DEF SnapFits, Typed
  <2> QED BY <2>1, <2>2, <1>2
<1>8. restore'.to.state \in {"disabled", "enabled"} /\ restore'.before.state \in {"disabled", "enabled"}
  BY <1>2
<1> QED BY <1>4, <1>5, <1>6, <1>7, <1>8

(* What rewriting the stored secrets makes of them. *)
LEMMA AllRewritten ==
  ASSUME KInv, ~mixed, step \in {"encrypt", "reencrypt"}
  PROVE  \A s \in Secrets : All(Rewritten, secret)[s] = settings.key
<1> USE Numbers DEF KInv
<1>1. settings.state \in {"enabling", "enabled"} /\ form[settings.key] = "new" /\ Loaded
  BY DEF Steps, Sane
<1>2. Fits(secret, settings)
  BY DEF Whole, Steps
<1>3. \A s \in Secrets : Rewritten(secret[s]) = settings.key
  BY <1>1, <1>2, RewrittenValue DEF Fits
<1> QED BY <1>3 DEF All

LEMMA AllDecrypted ==
  ASSUME KInv, ~mixed, step = "decrypt"
  PROVE  \A s \in Secrets : All(Decrypt, secret)[s] = Plain
<1> USE Numbers DEF KInv
<1>1. Enabled /\ Loaded /\ Fits(secret, settings)
  BY DEF Steps, Enabled, Whole
<1>2. \A s \in Secrets : Decrypt(secret[s]) = Plain
  BY <1>1, Readable DEF Fits
<1> QED BY <1>2 DEF All

LEMMA AllTypes ==
  ASSUME Typed, NEW vals \in [Secrets -> Vals]
  PROVE  /\ ~AnyBad(All(Rewritten, vals)) => All(Rewritten, vals) \in [Secrets -> Vals]
         /\ ~AnyBad(All(Decrypt, vals)) => All(Decrypt, vals) \in [Secrets -> Vals]
         /\ ~AnyBad(All(FromSnapshot, vals)) => All(FromSnapshot, vals) \in [Secrets -> Vals]
         /\ ~AnyBad(All(FromDatabase, vals)) => All(FromDatabase, vals) \in [Secrets -> Vals]
BY ValueTypes DEF All, AnyBad

LEMMA EncryptStoredInv == KInv /\ EncryptStored => KInv'
<1> SUFFICES ASSUME KInv, EncryptStored PROVE KInv'
  OBVIOUS
<1> USE Numbers DEF KInv
<1>1. step \in {"encrypt", "reencrypt"} /\ UNCHANGED <<settings, memory, rest>>
  BY DEF EncryptStored
<1>2. UNCHANGED <<settings, active, activeOld, form, keyCount, restore, snaps, mixed>>
  BY <1>1 DEF memory, rest
<1>3. CASE secret' = secret /\ step' = "idle"
  <2>1. Typed' /\ (Sane(settings) /\ Sane(restore.before) /\ Sane(restore.to))'
    BY <1>2, <1>3 DEF Typed, Made, SettingsType, Sane
  <2>2. KeysFit' /\ Steps'
    BY <1>1, <1>2, <1>3 DEF KeysFit, Stray, Steps, Enabled, NewOne, OldKey
  <2>3. ~mixed => Whole' /\ Restoring' /\ \A p \in snaps : SnapFits(p)'
    BY <1>1, <1>2, <1>3 DEF Whole, Restoring, Fits, Target, SnapFits, Steps
  <2> QED BY <2>1, <2>2, <2>3, <1>2
<1>4. CASE /\ ~AnyBad(All(Rewritten, secret)) /\ secret' = All(Rewritten, secret)
           /\ step' = (IF step = "encrypt" THEN "complete"
                       ELSE IF All(Rewritten, secret) # secret THEN "clear" ELSE "idle")
  <2>1. Typed' /\ (Sane(settings) /\ Sane(restore.before) /\ Sane(restore.to))'
    <3>1. secret' \in [Secrets -> Vals]
      BY <1>4, AllTypes DEF Typed
    <3> QED BY <1>2, <1>4, <3>1 DEF Typed, Made, SettingsType, Sane
  <2>2. KeysFit' /\ Steps'
    BY <1>1, <1>2, <1>4 DEF KeysFit, Stray, Steps, Enabled, NewOne, OldKey, Loaded
  <2>3. ~mixed => Whole'
    <3> SUFFICES ASSUME ~mixed PROVE Whole'
      OBVIOUS
    <3>1. \A s \in Secrets : secret'[s] = settings.key
      BY <1>1, <1>4, AllRewritten
    <3>2. settings.state \in {"enabling", "enabled"}
      BY <1>1 DEF Steps
    <3> QED BY <3>1, <3>2, <1>2, <1>4, <1>1 DEF Whole, Fits
  <2>4. ~mixed => Restoring' /\ \A p \in snaps : SnapFits(p)'
    BY <1>1, <1>2 DEF Restoring, Fits, Target, SnapFits, Steps
  <2> QED BY <2>1, <2>2, <2>3, <2>4, <1>2
<1> QED BY <1>3, <1>4 DEF EncryptStored, Goes

LEMMA DecryptStoredInv == KInv /\ DecryptStored => KInv'
<1> SUFFICES ASSUME KInv, DecryptStored PROVE KInv'
  OBVIOUS
<1> USE Numbers DEF KInv
<1>1. step = "decrypt" /\ UNCHANGED <<settings, memory, rest>>
  BY DEF DecryptStored
<1>2. UNCHANGED <<settings, active, activeOld, form, keyCount, restore, snaps, mixed>>
  BY <1>1 DEF memory, rest
<1>3. CASE secret' = secret /\ step' = "idle"
  <2>1. Typed' /\ (Sane(settings) /\ Sane(restore.before) /\ Sane(restore.to))'
    BY <1>2, <1>3 DEF Typed, Made, SettingsType, Sane
  <2>2. KeysFit' /\ Steps'
    BY <1>1, <1>2, <1>3 DEF KeysFit, Stray, Steps, Enabled, NewOne, OldKey
  <2>3. ~mixed => Whole' /\ Restoring' /\ \A p \in snaps : SnapFits(p)'
    BY <1>1, <1>2, <1>3 DEF Whole, Restoring, Fits, Target, SnapFits, Steps
  <2> QED BY <2>1, <2>2, <2>3, <1>2
<1>4. CASE ~AnyBad(All(Decrypt, secret)) /\ secret' = All(Decrypt, secret) /\ step' = "end"
  <2>1. Typed' /\ (Sane(settings) /\ Sane(restore.before) /\ Sane(restore.to))'
    <3>1. secret' \in [Secrets -> Vals]
      BY <1>4, AllTypes DEF Typed
    <3> QED BY <1>2, <1>4, <3>1 DEF Typed, Made, SettingsType, Sane
  <2>2. KeysFit' /\ Steps'
    BY <1>1, <1>2, <1>4 DEF KeysFit, Stray, Steps, Enabled, NewOne, OldKey, Loaded
  <2>3. ~mixed => Whole'
    <3> SUFFICES ASSUME ~mixed PROVE Whole'
      OBVIOUS
    <3>1. \A s \in Secrets : secret'[s] = Plain
      BY <1>1, <1>4, AllDecrypted
    <3> QED BY <3>1, <1>2, <1>4, <1>1 DEF Whole, Fits, Steps
  <2>4. ~mixed => Restoring' /\ \A p \in snaps : SnapFits(p)'
    BY <1>1, <1>2 DEF Restoring, Fits, Target, SnapFits, Steps
  <2> QED BY <2>1, <2>2, <2>3, <2>4, <1>2
<1> QED BY <1>3, <1>4 DEF DecryptStored, Goes

LEMMA CompleteInv == KInv /\ Complete => KInv'
<1> SUFFICES ASSUME KInv, Complete PROVE KInv'
  OBVIOUS
<1> USE Numbers DEF KInv
<1>1. /\ step = "complete" /\ settings.state = "enabling" /\ Loaded
      /\ UNCHANGED <<secret, active, form, keyCount, restore, snaps, mixed>>
  BY DEF Complete, Steps, rest
<1>2. CASE settings' = settings /\ activeOld' = activeOld /\ step' = "idle"
  <2>1. Typed' /\ (Sane(settings) /\ Sane(restore.before) /\ Sane(restore.to))'
    BY <1>1, <1>2 DEF Typed, Made, SettingsType, Sane
  <2>2. KeysFit' /\ Steps'
    BY <1>1, <1>2 DEF KeysFit, Stray, Steps, Enabled, NewOne, OldKey
  <2>3. ~mixed => Whole' /\ Restoring' /\ \A p \in snaps : SnapFits(p)'
    BY <1>1, <1>2 DEF Whole, Restoring, Fits, Target, SnapFits, Steps
  <2> QED BY <2>1, <2>2, <2>3, <1>1
<1>3. CASE /\ settings' = [settings EXCEPT !.state = "enabled", !.legacy = 0]
           /\ activeOld' = 0 /\ step' = "clear"
  <2>1. settings' = [state |-> "enabled", key |-> settings.key, legacy |-> 0]
    <3>1. settings \in SettingsType
      BY DEF Typed
    <3> QED BY <1>3, <3>1, Zenon DEF SettingsType
  <2>2. Typed' /\ (Sane(settings) /\ Sane(restore.before) /\ Sane(restore.to))'
    BY <1>1, <1>3, <2>1 DEF Typed, Made, SettingsType, Sane, States
  <2>3. KeysFit' /\ Steps'
    BY <1>1, <1>3, <2>1 DEF KeysFit, Stray, Steps, Enabled, NewOne, OldKey, Sane, Loaded
  <2>4. ~mixed => Whole' /\ Restoring' /\ \A p \in snaps : SnapFits(p)'
    BY <1>1, <1>3, <2>1 DEF Whole, Restoring, Fits, Target, SnapFits, Steps
  <2> QED BY <2>2, <2>3, <2>4, <1>1
<1> QED BY <1>2, <1>3 DEF Complete, Goes

LEMMA ClearSnapshotsInv == KInv /\ ClearSnapshots => KInv'
<1> SUFFICES ASSUME KInv, ClearSnapshots PROVE KInv'
  OBVIOUS
<1> USE Numbers DEF KInv
<1>1. /\ step = "clear" /\ step' = "idle" /\ snaps' \subseteq snaps
      /\ UNCHANGED <<secret, settings, active, activeOld, form, keyCount, restore, mixed>>
  BY DEF ClearSnapshots, Goes, memory
<1>2. Typed' /\ (Sane(settings) /\ Sane(restore.before) /\ Sane(restore.to))'
  BY <1>1 DEF Typed, Made, SettingsType, Sane
<1>3. KeysFit' /\ Steps'
  BY <1>1 DEF KeysFit, Stray, Steps, Enabled, NewOne, OldKey
<1>4. ~mixed => Whole' /\ Restoring' /\ \A p \in snaps' : SnapFits(p)'
  BY <1>1 DEF Whole, Restoring, Fits, Target, SnapFits, Steps
<1> QED BY <1>1, <1>2, <1>3, <1>4

LEMMA UnlockInv == KInv /\ Unlock => KInv'
<1> SUFFICES ASSUME KInv, Unlock PROVE KInv'
  OBVIOUS
<1> USE Numbers DEF KInv
<1>1. /\ step = "idle" /\ Enabled /\ activeOld' = OldKey
      /\ UNCHANGED <<secret, restore, snaps, mixed>>
  BY DEF Unlock
<1>2. /\ settings.key \in 1..keyCount /\ settings.legacy \in 0..keyCount /\ keyCount \in Int
      /\ settings.state \in {"enabling", "enabled", "disabling"} /\ restore.pc # "copied"
      /\ form[settings.key] \in Forms /\ settings.key \in Keys
  BY <1>1 DEF Typed, Sane, SettingsType, Made, Enabled, States, Steps, Keys
<1>3. ASSUME form[settings.key] = "old", settings.state = "enabled",
             NEW k \in Keys, NewKey("new", k), active' = k, settings' = Upgrade(k), step' = "encrypt"
      PROVE  KInv'
  <2>1. NewKey("new", k) /\ active' = k /\ settings' = Upgrade(k) /\ step' = "encrypt"
    BY <1>3
  <2>2. settings' = [state |-> "enabling", key |-> k, legacy |-> settings.key] /\ activeOld' = settings.key
    BY <2>1, <1>1, <1>3 DEF Upgrade, OldKey
  <2>3. /\ keyCount' = keyCount + 1 /\ k = keyCount + 1 /\ keyCount' \in 0..MaxKeys
        /\ form' \in [Keys -> Forms] /\ form'[k] = "new"
        /\ \A i \in 1..keyCount : form'[i] = form[i]
    BY <2>1, <1>2 DEF NewKey, Typed, Keys, Forms
  <2>4. Typed'
    BY <1>1, <1>2, <2>1, <2>2, <2>3 DEF Typed, Made, SettingsType, States
  <2>5. Sane(settings)' /\ Sane(restore.before)' /\ Sane(restore.to)'
    <3>1. Sane(settings)'
      BY <1>2, <1>3, <2>2, <2>3 DEF Sane
    <3>2. Sane(restore.before)'
      <4>1. restore.before \in SettingsType
        BY DEF Typed
      <4> QED BY <1>1, <1>2, <2>3, <4>1 DEF Sane, SettingsType, Made, Off
    <3>3. Sane(restore.to)'
      <4>1. restore.to \in SettingsType
        BY DEF Typed
      <4> QED BY <1>1, <1>2, <2>3, <4>1 DEF Sane, SettingsType, Made, Off
    <3> QED BY <3>1, <3>2, <3>3
  <2>6. KeysFit' /\ Steps'
    BY <1>1, <1>2, <2>1, <2>2, <2>3 DEF KeysFit, Stray, Steps, Enabled, NewOne, OldKey, Loaded
  <2>7. ~mixed => Whole'
    BY <1>1, <1>2, <1>3, <2>1, <2>2 DEF Whole, Fits
  <2>8. ~mixed => Restoring'
    BY <1>1, <1>2 DEF Restoring, Fits, Target
  <2>9. ~mixed => \A p \in snaps : SnapFits(p)'
    BY <1>1, <1>2, <2>3 DEF SnapFits, Typed
  <2> QED BY <1>1, <2>4, <2>5, <2>6, <2>7, <2>8, <2>9
<1>4. CASE ~(form[settings.key] = "old" /\ settings.state = "enabled")
  <2>1. active' = NewOne /\ step' = Resumes(settings.state) /\ UNCHANGED <<settings, form, keyCount>>
    BY <1>4, Zenon DEF Unlock, Goes
  <2>2. step' = (IF settings.state = "enabling" THEN "encrypt"
                 ELSE IF settings.state = "disabling" THEN "decrypt" ELSE "reencrypt")
    BY <1>2, <2>1 DEF Resumes
  <2>3. Typed' /\ Sane(settings)' /\ Sane(restore.before)' /\ Sane(restore.to)'
    BY <1>1, <1>2, <2>1, <2>2 DEF Typed, Made, SettingsType, Sane, NewOne, OldKey
  <2>4. KeysFit' /\ Steps'
    BY <1>1, <1>2, <1>4, <2>1, <2>2 DEF KeysFit, Stray, Steps, Enabled, NewOne, OldKey, Loaded, Forms
  <2>5. ~mixed => Whole' /\ Restoring' /\ \A p \in snaps : SnapFits(p)'
    BY <1>1, <1>2, <2>1, <2>2 DEF Whole, Restoring, Fits, Target, SnapFits
  <2> QED BY <1>1, <2>3, <2>4, <2>5
<1>5. ASSUME form[settings.key] = "old", settings.state = "enabled",
             NEW k \in Keys, NewKey("new", k), active' = k, UNCHANGED <<settings, step>>
      PROVE  KInv'
  <2>1. /\ keyCount' = keyCount + 1 /\ k = keyCount + 1 /\ keyCount' \in 0..MaxKeys
        /\ form' \in [Keys -> Forms] /\ \A i \in 1..keyCount : form'[i] = form[i]
    BY <1>5, <1>2 DEF NewKey, Typed, Keys, Forms
  <2>2. /\ activeOld' = settings.key /\ settings' = settings /\ form'[settings.key] = "old"
        /\ step' = step /\ active' \in 1..keyCount'
    BY <1>1, <1>2, <1>5, <2>1 DEF OldKey
  <2>3. settings \in SettingsType /\ restore.before \in SettingsType /\ restore.to \in SettingsType
    BY DEF Typed
  <2>4. Made \subseteq Made' /\ SettingsType \subseteq SettingsType'
    BY <1>2, <2>1 DEF Made, SettingsType
  <2>5. Typed'
    BY <1>1, <1>2, <2>1, <2>2, <2>3, <2>4 DEF Typed, Made
  <2>6. ASSUME NEW x \in SettingsType, Sane(x) PROVE Sane(x)'
    <3>1. x.key \in 0..keyCount /\ x.legacy \in 0..keyCount
      BY <2>6 DEF SettingsType, Made
    <3> QED BY <1>2, <2>1, <2>6, <3>1 DEF Sane, Off
  <2>7. Sane(settings)' /\ Sane(restore.before)' /\ Sane(restore.to)'
    BY <1>1, <2>2, <2>3, <2>6 DEF Sane
  <2>8. KeysFit' /\ Steps'
    BY <1>1, <1>2, <1>5, <2>2 DEF KeysFit, Stray, Steps, Enabled, OldKey
  <2>9. ~mixed => Whole' /\ Restoring'
    BY <1>1, <1>2, <2>2 DEF Whole, Restoring, Fits, Target
  <2>10. ~mixed => \A p \in snaps : SnapFits(p)'
    BY <1>1, <1>2, <2>1 DEF SnapFits, Typed
  <2> QED BY <1>1, <2>2, <2>5, <2>7, <2>8, <2>9, <2>10
<1>6. CASE form[settings.key] = "old" /\ settings.state = "enabled"
  <2>1. PICK k \in Keys :
          /\ NewKey("new", k) /\ active' = k
          /\ (settings' = Upgrade(k) /\ step' = "encrypt") \/ UNCHANGED <<settings, step>>
    BY <1>6 DEF Unlock, Goes
  <2> QED BY <1>3, <1>5, <1>6, <2>1
<1> QED BY <1>4, <1>6

LEMMA DisableInv == KInv /\ Disable => KInv'
<1> SUFFICES ASSUME KInv, Disable PROVE KInv'
  OBVIOUS
<1> USE Numbers DEF KInv
<1>1. step = "idle" /\ UNCHANGED <<secret, form, keyCount, restore, snaps, mixed>>
  BY DEF Disable, rest
<1>2. settings \in SettingsType /\ NewOne \in Made /\ OldKey \in Made /\ 0 \in Made
  BY DEF Typed, SettingsType, NewOne, OldKey, Made
<1>3. restore.pc # "copied"
  BY <1>1 DEF Steps
<1>4. CASE ~Enabled /\ active' = 0 /\ activeOld' = 0 /\ step' = "clear" /\ settings' = settings
  <2>1. Typed' /\ Sane(settings)' /\ Sane(restore.before)' /\ Sane(restore.to)'
    BY <1>1, <1>2, <1>4 DEF Typed, Made, SettingsType, Sane
  <2>2. KeysFit' /\ Steps'
    BY <1>1, <1>3, <1>4 DEF KeysFit, Stray, Steps, Enabled
  <2>3. ~mixed => Whole' /\ Restoring' /\ \A p \in snaps : SnapFits(p)'
    BY <1>1, <1>3, <1>4 DEF Whole, Restoring, Fits, Target, SnapFits
  <2> QED BY <1>1, <2>1, <2>2, <2>3
<1>5. CASE /\ Enabled /\ active' = NewOne /\ activeOld' = OldKey
           /\ settings' = [settings EXCEPT !.state = "disabling"] /\ step' = "decrypt"
  <2>1. settings' = [state |-> "disabling", key |-> settings.key, legacy |-> settings.legacy]
    BY <1>2, <1>5 DEF SettingsType
  <2>2. Typed' /\ Sane(settings)' /\ Sane(restore.before)' /\ Sane(restore.to)'
    BY <1>1, <1>2, <1>5, <2>1 DEF Typed, Made, SettingsType, Sane, States, Enabled
  <2>3. KeysFit' /\ Steps'
    BY <1>1, <1>3, <1>5, <2>1 DEF KeysFit, Stray, Steps, Enabled, NewOne, OldKey, Loaded
  <2>4. ~mixed => Whole' /\ Restoring' /\ \A p \in snaps : SnapFits(p)'
    BY <1>1, <1>3, <1>5, <2>1 DEF Whole, Restoring, Fits, Target, SnapFits
  <2> QED BY <1>1, <2>2, <2>3, <2>4
<1>6. CASE Enabled /\ active' = NewOne /\ activeOld' = OldKey /\ UNCHANGED <<settings, step>>
  <2>1. Typed' /\ Sane(settings)' /\ Sane(restore.before)' /\ Sane(restore.to)'
    BY <1>1, <1>2, <1>6 DEF Typed, Made, SettingsType, Sane
  <2>2. KeysFit' /\ Steps'
    BY <1>1, <1>3, <1>6 DEF KeysFit, Stray, Steps, Enabled, NewOne, OldKey
  <2>3. ~mixed => Whole' /\ Restoring' /\ \A p \in snaps : SnapFits(p)'
    BY <1>1, <1>3, <1>6 DEF Whole, Restoring, Fits, Target, SnapFits
  <2> QED BY <1>1, <2>1, <2>2, <2>3
<1> QED BY <1>4, <1>5, <1>6 DEF Disable, Goes

LEMMA EndDisableInv == KInv /\ EndDisable => KInv'
<1> SUFFICES ASSUME KInv, EndDisable PROVE KInv'
  OBVIOUS
<1> USE Numbers DEF KInv
<1>1. /\ step = "end" /\ active' = 0 /\ activeOld' = 0 /\ restore.pc # "copied"
      /\ UNCHANGED <<secret, form, keyCount, restore, snaps, mixed>>
      /\ step' \in {"clear", "idle"} /\ settings' \in {Off, settings}
  BY DEF EndDisable, rest, Goes, Steps
<1>2. Off \in SettingsType /\ 0 \in Made /\ Off.state = "disabled" /\ Off.legacy = 0
  BY DEF Typed, SettingsType, Off, States, Made
<1>3. Typed' /\ Sane(settings)' /\ Sane(restore.before)' /\ Sane(restore.to)'
  BY <1>1, <1>2 DEF Typed, Made, SettingsType, Sane
<1>4. KeysFit' /\ Steps'
  BY <1>1 DEF KeysFit, Stray, Steps
<1>5. ~mixed => Whole' /\ Restoring' /\ \A p \in snaps : SnapFits(p)'
  BY <1>1, <1>2 DEF Whole, Restoring, Fits, Target, SnapFits
<1> QED BY <1>1, <1>3, <1>4, <1>5

LEMMA SaveSecretInv == KInv /\ (\E s \in Secrets : SaveSecret(s)) => KInv'
<1> SUFFICES ASSUME KInv, NEW t \in Secrets, SaveSecret(t) PROVE KInv'
  OBVIOUS
<1> USE Numbers DEF KInv
<1>1. /\ step = "idle" /\ Ready /\ Encrypt(Plain) # Bad
      /\ secret' = [secret EXCEPT ![t] = Encrypt(Plain)]
      /\ mixed' = (mixed \/ Stray)
      /\ UNCHANGED <<settings, active, activeOld, step, form, keyCount, restore, snaps>>
  BY DEF SaveSecret, memory
<1>2. settings.state \in {"disabled", "enabled"} /\ restore.pc # "copied"
  BY <1>1 DEF Ready, Enabled, Steps
<1>3. ~Stray => /\ settings.state = "disabled" => Encrypt(Plain) = Plain
                /\ settings.state = "enabled" => Encrypt(Plain) = settings.key
  BY <1>1, <1>2, EncryptedPlain
<1>4. Encrypt(Plain) \in Vals /\ secret \in [Secrets -> Vals]
  <2>1. Encrypt(Plain) \in Vals \cup {Bad}
    BY ValueTypes DEF Vals
  <2> QED BY <1>1, <2>1 DEF Typed
<1>5. secret' \in [Secrets -> Vals] /\ \A s \in Secrets : secret'[s] = IF s = t THEN Encrypt(Plain) ELSE secret[s]
  BY <1>1, <1>4
<1>6. Typed' /\ Sane(settings)' /\ Sane(restore.before)' /\ Sane(restore.to)'
  <2>1. mixed' \in BOOLEAN
    BY <1>1
  <2> QED BY <1>1, <1>5, <2>1 DEF Typed, Made, SettingsType, Sane
<1>7. KeysFit' /\ Steps'
  BY <1>1 DEF KeysFit, Stray, Steps, Enabled, NewOne, OldKey
<1>8. ~mixed' => Whole' /\ Restoring' /\ \A p \in snaps : SnapFits(p)'
  <2>1. ~mixed' => ~mixed /\ ~Stray
    BY <1>1
  <2> QED BY <2>1, <1>1, <1>2, <1>3, <1>5 DEF Whole, Restoring, Fits, Target, SnapFits
<1> QED BY <1>1, <1>6, <1>7, <1>8

(* What createConfigSnapshot stores. *)
LEMMA SnapshotFits ==
  ASSUME KInv, settings.state \in {"disabled", "enabled"}, restore.pc # "copied"
  PROVE  /\ ConfigSnapshot \in [enabled : BOOLEAN, form : Forms, vals : [Secrets -> Vals]]
         /\ ~mixed => SnapFits(ConfigSnapshot)
<1> USE Numbers DEF KInv
<1> DEFINE f == IF Enabled THEN form[settings.key] ELSE "new"
<1>1. ConfigSnapshot = [enabled |-> Enabled, form |-> f, vals |-> secret]
  BY DEF ConfigSnapshot
<1>2. Enabled \in BOOLEAN
  BY DEF Enabled
<1>3. Enabled => settings.state = "enabled" /\ settings.key \in 1..keyCount /\ settings.key \in Keys
  BY DEF Enabled, Sane, Typed, Keys
<1>4. f \in Forms
  BY <1>3 DEF Typed, Forms
<1>5. ConfigSnapshot \in [enabled : BOOLEAN, form : Forms, vals : [Secrets -> Vals]]
  BY <1>1, <1>2, <1>4 DEF Typed
<1>6. ConfigSnapshot.enabled = Enabled /\ ConfigSnapshot.form = f /\ ConfigSnapshot.vals = secret
  BY <1>1
<1>7. ASSUME ~mixed PROVE SnapFits(ConfigSnapshot)
  <2>1. Fits(secret, settings)
    BY <1>7 DEF Whole
  <2> QED BY <1>3, <1>6, <2>1 DEF SnapFits, Fits, Enabled
<1> QED BY <1>5, <1>7

LEMMA TakeSnapshotInv == KInv /\ TakeSnapshot => KInv'
<1> SUFFICES ASSUME KInv, TakeSnapshot PROVE KInv'
  OBVIOUS
<1> USE Numbers DEF KInv
<1>1. /\ step = "idle" /\ settings.state \in {"disabled", "enabled"}
      /\ UNCHANGED <<secret, settings, active, activeOld, step, form, keyCount, restore, mixed>>
      /\ snaps' \subseteq snaps \cup {ConfigSnapshot}
  BY DEF TakeSnapshot, memory, Adds
<1>2. restore.pc # "copied"
  BY <1>1 DEF Steps
<1>3. /\ ConfigSnapshot \in [enabled : BOOLEAN, form : Forms, vals : [Secrets -> Vals]]
      /\ ~mixed => SnapFits(ConfigSnapshot)
  BY <1>1, <1>2, SnapshotFits
<1>4. Typed' /\ Sane(settings)' /\ Sane(restore.before)' /\ Sane(restore.to)'
  BY <1>1, <1>3 DEF Typed, Made, SettingsType, Sane
<1>5. KeysFit' /\ Steps'
  BY <1>1 DEF KeysFit, Stray, Steps, Enabled, NewOne, OldKey
<1>6. ~mixed => Whole' /\ Restoring'
  BY <1>1 DEF Whole, Restoring, Fits, Target
<1>7. ~mixed => \A p \in snaps' : SnapFits(p)'
  <2> SUFFICES ASSUME ~mixed, NEW p \in snaps' PROVE SnapFits(p)'
    OBVIOUS
  <2>1. SnapFits(p)
    BY <1>1, <1>3
  <2> QED BY <1>1, <2>1 DEF SnapFits
<1> QED BY <1>1, <1>4, <1>5, <1>6, <1>7

LEMMA RestoreSnapshotInv == KInv /\ (\E p \in snaps : RestoreSnapshot(p)) => KInv'
<1> SUFFICES ASSUME KInv, NEW q \in snaps, RestoreSnapshot(q) PROVE KInv'
  OBVIOUS
<1> USE Numbers DEF KInv
<1>1. /\ step = "idle"
      /\ UNCHANGED <<settings, active, activeOld, step, form, keyCount, restore>>
      /\ snaps' \subseteq snaps /\ mixed' \in BOOLEAN /\ (~mixed' => ~mixed)
  BY DEF RestoreSnapshot, memory, Typed
<1>2. restore.pc # "copied"
  BY <1>1 DEF Steps
<1>3. KeysFit' /\ Steps'
  BY <1>1 DEF KeysFit, Stray, Steps, Enabled, NewOne, OldKey
<1>4. ~mixed => Restoring' /\ \A p \in snaps' : SnapFits(p)'
  BY <1>1, <1>2 DEF Restoring, Fits, Target, SnapFits
<1>5. CASE secret' = secret
  <2>1. Typed' /\ Sane(settings)' /\ Sane(restore.before)' /\ Sane(restore.to)'
    BY <1>1, <1>5 DEF Typed, Made, SettingsType, Sane
  <2>2. ~mixed => Whole'
    BY <1>1, <1>2, <1>5 DEF Whole, Fits
  <2> QED BY <1>1, <1>3, <1>4, <2>1, <2>2
<1>6. CASE /\ Compatible(q) /\ Ready /\ ~AnyBad(All(FromSnapshot, q.vals))
           /\ secret' = All(FromSnapshot, q.vals) /\ mixed' = (mixed \/ Stray)
  <2>1. secret' \in [Secrets -> Vals]
    <3>1. q.vals \in [Secrets -> Vals]
      BY DEF Typed
    <3> QED BY <1>6, <3>1, AllTypes
  <2>2. Typed' /\ Sane(settings)' /\ Sane(restore.before)' /\ Sane(restore.to)'
    BY <1>1, <2>1 DEF Typed, Made, SettingsType, Sane
  <2>3. ~mixed' => Whole'
    <3> SUFFICES ASSUME ~mixed, ~Stray PROVE Whole'
      BY <1>6
    <3>1. \A s \in Secrets : secret'[s] = FromSnapshot(q.vals[s]) /\ FromSnapshot(q.vals[s]) # Bad
      BY <1>6 DEF All, AnyBad
    <3>2. \A s \in Secrets : /\ settings.state = "disabled" => secret'[s] = Plain
                             /\ settings.state = "enabled" => secret'[s] = settings.key
      BY <3>1, <1>6, SnapshotValue
    <3>3. settings.state \in {"disabled", "enabled"}
      BY <1>6 DEF Ready, Enabled
    <3> QED BY <3>2, <3>3, <1>1, <1>2 DEF Whole, Fits
  <2> QED BY <1>1, <1>3, <1>4, <2>2, <2>3
<1> QED BY <1>5, <1>6 DEF RestoreSnapshot

(* What BeginRestoration does to the keys, and what it is about to restore. *)
KeysGrow ==
  /\ keyCount' \in 0..MaxKeys /\ keyCount' >= keyCount
  /\ form' \in [Keys -> Forms]
  /\ \A i \in 1..keyCount : form'[i] = form[i]

Brings ==
  /\ restore'.pc = "stopping" /\ restore'.before = settings
  /\ restore' \in [pc : {"none", "stopping", "copied"}, before : SettingsType, to : SettingsType',
                   bundle : BOOLEAN, vals : [Secrets -> Vals], backup : [Secrets -> Vals]]
  /\ Sane(restore.to)' /\ restore'.to.state \in {"disabled", "enabled"}
  /\ Fits(restore.vals, restore.to)' \/ ~restore'.bundle
  /\ Fits(restore'.vals, settings) \/ restore'.bundle \/ mixed'
  /\ mixed' \in BOOLEAN /\ (~mixed' => ~mixed)

LEMMA BringsWhat == KInv /\ BeginRestoration => KeysGrow /\ Brings /\ snaps' \subseteq snaps \cup {ConfigSnapshot}
<1> SUFFICES ASSUME KInv, BeginRestoration
             PROVE  KeysGrow /\ Brings /\ snaps' \subseteq snaps \cup {ConfigSnapshot}
  OBVIOUS
<1> USE Numbers DEF KInv
<1>1. step = "idle" /\ restore.pc = "none" /\ Ready
  BY DEF BeginRestoration
<1>2. settings \in SettingsType /\ settings.state \in {"disabled", "enabled"}
  BY <1>1 DEF Ready, Enabled, Typed
<1>3. keyCount \in 0..MaxKeys /\ form \in [Keys -> Forms]
  BY DEF Typed
<1>4. NoRestore.backup \in [Secrets -> Vals]
  BY DEF NoRestore, Vals
<1>5. /\ Off \in SettingsType /\ Off.state = "disabled" /\ Off.legacy = 0 /\ Off.key = 0
  BY <1>3 DEF Off, SettingsType, States, Made
<1>6. CASE \E v \in {Plain} \cup 1..keyCount :
             /\ Begins(All(FromDatabase, [s \in Secrets |-> v]), Off, FALSE)
             /\ mixed' = (mixed \/ Stray) /\ UNCHANGED <<form, keyCount>>
  <2>1. PICK v \in {Plain} \cup 1..keyCount :
             /\ Begins(All(FromDatabase, [s \in Secrets |-> v]), Off, FALSE)
             /\ mixed' = (mixed \/ Stray) /\ UNCHANGED <<form, keyCount>>
    BY <1>6
  <2>2. v \in Vals /\ v # Erased /\ [s \in Secrets |-> v] \in [Secrets -> Vals]
    BY <1>3 DEF Vals, Keys
  <2>3. /\ ~AnyBad(All(FromDatabase, [s \in Secrets |-> v])) /\ snaps' \subseteq snaps \cup {ConfigSnapshot}
        /\ restore' = [pc |-> "stopping", before |-> settings, to |-> Off, bundle |-> FALSE,
                       vals |-> All(FromDatabase, [s \in Secrets |-> v]), backup |-> NoRestore.backup]
    BY <2>1 DEF Begins, Adds
  <2>4. All(FromDatabase, [s \in Secrets |-> v]) \in [Secrets -> Vals]
    BY <2>2, <2>3, AllTypes
  <2>5. \A s \in Secrets : restore'.vals[s] = FromDatabase(v) /\ FromDatabase(v) # Bad
    BY <2>3 DEF All, AnyBad
  <2>6. Fits(restore'.vals, settings) \/ mixed'
    <3>1. CASE Stray
      BY <2>1, <3>1
    <3>2. CASE ~Stray
      BY <3>2, <2>2, <2>5, <1>1, <1>2, DatabaseValue DEF Fits
    <3> QED BY <3>1, <3>2
  <2>7. KeysGrow
    BY <2>1, <1>3 DEF KeysGrow
  <2>8. Sane(restore.to)' /\ SettingsType' = SettingsType
    BY <2>1, <2>3, <1>5 DEF Sane, SettingsType, Made
  <2>9. mixed' \in BOOLEAN /\ (~mixed' => ~mixed)
    BY <2>1
  <2> QED BY <2>3, <2>4, <2>6, <2>7, <2>8, <2>9, <1>2, <1>4, <1>5 DEF Brings
<1>7. CASE Begins([s \in Secrets |-> Plain], Off, TRUE) /\ UNCHANGED <<form, keyCount, mixed>>
  <2>1. /\ snaps' \subseteq snaps \cup {ConfigSnapshot}
        /\ restore' = [pc |-> "stopping", before |-> settings, to |-> Off, bundle |-> TRUE,
                       vals |-> [s \in Secrets |-> Plain], backup |-> NoRestore.backup]
    BY <1>7 DEF Begins, Adds
  <2>2. KeysGrow
    BY <1>7, <1>3 DEF KeysGrow
  <2>3. Sane(restore.to)' /\ SettingsType' = SettingsType
    BY <1>7, <2>1, <1>5 DEF Sane, SettingsType, Made
  <2>4. Fits(restore.vals, restore.to)'
    BY <2>1, <1>5 DEF Fits
  <2>5. [s \in Secrets |-> Plain] \in [Secrets -> Vals]
    BY DEF Vals
  <2>6. mixed' \in BOOLEAN /\ (~mixed' => ~mixed)
    BY <1>7 DEF Typed
  <2> QED BY <2>1, <2>2, <2>3, <2>4, <2>5, <2>6, <1>2, <1>4, <1>5 DEF Brings
<1>8. CASE \E k \in Keys, f \in Forms :
             /\ IF k <= keyCount THEN UNCHANGED <<form, keyCount>> ELSE NewKey(f, k)
             /\ Begins([s \in Secrets |-> k], [state |-> "enabled", key |-> k, legacy |-> 0], TRUE)
             /\ UNCHANGED mixed
  <2>1. PICK k \in Keys, f \in Forms :
             /\ IF k <= keyCount THEN UNCHANGED <<form, keyCount>> ELSE NewKey(f, k)
             /\ Begins([s \in Secrets |-> k], [state |-> "enabled", key |-> k, legacy |-> 0], TRUE)
             /\ UNCHANGED mixed
    BY <1>8
  <2>2. /\ snaps' \subseteq snaps \cup {ConfigSnapshot}
        /\ restore' = [pc |-> "stopping", before |-> settings,
                       to |-> [state |-> "enabled", key |-> k, legacy |-> 0], bundle |-> TRUE,
                       vals |-> [s \in Secrets |-> k], backup |-> NoRestore.backup]
    BY <2>1 DEF Begins, Adds
  <2>3. KeysGrow /\ k \in 1..keyCount'
    <3>1. CASE k <= keyCount
      BY <3>1, <2>1, <1>3 DEF KeysGrow, Keys
    <3>2. CASE ~(k <= keyCount)
      BY <3>2, <2>1, <1>3 DEF KeysGrow, Keys, NewKey
    <3> QED BY <3>1, <3>2
  <2>4. [state |-> "enabled", key |-> k, legacy |-> 0] \in SettingsType'
    BY <2>3, <1>3 DEF SettingsType, Made, States, KeysGrow
  <2>5. Sane(restore.to)'
    BY <2>2, <2>3 DEF Sane
  <2>6. Fits(restore.vals, restore.to)'
    BY <2>2 DEF Fits
  <2>7. [s \in Secrets |-> k] \in [Secrets -> Vals]
    BY DEF Vals
  <2>8. mixed' \in BOOLEAN /\ (~mixed' => ~mixed)
    BY <2>1 DEF Typed
  <2> QED BY <2>2, <2>3, <2>4, <2>5, <2>6, <2>7, <2>8, <1>2, <1>4 DEF Brings
<1> QED BY <1>6, <1>7, <1>8 DEF BeginRestoration

LEMMA BeginRestorationInv == KInv /\ BeginRestoration => KInv'
<1> SUFFICES ASSUME KInv, BeginRestoration PROVE KInv'
  OBVIOUS
<1> USE Numbers DEF KInv
<1>1. /\ step = "idle" /\ restore.pc = "none" /\ Ready
      /\ UNCHANGED <<secret, settings, active, activeOld, step>>
  BY DEF BeginRestoration, memory
<1>2. KeysGrow /\ Brings /\ snaps' \subseteq snaps \cup {ConfigSnapshot}
  BY BringsWhat
<1>3. settings.state \in {"disabled", "enabled"}
  BY <1>1 DEF Ready, Enabled
<1>4. /\ ConfigSnapshot \in [enabled : BOOLEAN, form : Forms, vals : [Secrets -> Vals]]
      /\ ~mixed => SnapFits(ConfigSnapshot)
  BY <1>1, <1>3, SnapshotFits
<1>5. keyCount \in 0..MaxKeys /\ Made \subseteq Made' /\ SettingsType \subseteq SettingsType'
  BY <1>2 DEF KeysGrow, Typed, Made, SettingsType
<1>6. restore' \in [pc : {"none", "stopping", "copied"}, before : SettingsType', to : SettingsType',
                    bundle : BOOLEAN, vals : [Secrets -> Vals], backup : [Secrets -> Vals]]
  BY <1>2, <1>5 DEF Brings
<1>7. Typed'
  <2>1. /\ secret' \in [Secrets -> Vals] /\ settings' \in SettingsType' /\ active' \in Made' /\ activeOld' \in Made'
    BY <1>1, <1>5 DEF Typed
  <2>2. \A p \in snaps' : p \in [enabled : BOOLEAN, form : Forms, vals : [Secrets -> Vals]]
    BY <1>2, <1>4 DEF Typed
  <2>3. step' \in {"idle"} /\ mixed' \in BOOLEAN /\ keyCount' \in 0..MaxKeys /\ form' \in [Keys -> Forms]
    BY <1>1, <1>2 DEF KeysGrow, Typed, Brings
  <2> QED BY <1>6, <2>1, <2>2, <2>3 DEF Typed
<1>8. Sane(settings)' /\ Sane(restore.before)' /\ Sane(restore.to)'
  <2>1. settings \in SettingsType
    BY DEF Typed
  <2>2. Sane(settings)'
    BY <2>1, <1>1, <1>2, <1>5 DEF Sane, SettingsType, Made, Off, KeysGrow
  <2> QED BY <2>2, <1>1, <1>2 DEF Brings, Sane
<1>9. KeysFit' /\ Steps'
  <2>1. Enabled => settings.key \in 1..keyCount
    BY DEF Enabled, Sane
  <2> QED BY <2>1, <1>1, <1>2 DEF KeysFit, Stray, Steps, Enabled, NewOne, OldKey, KeysGrow, Brings
<1>10. ~mixed' => Whole' /\ Restoring'
  BY <1>1, <1>2 DEF Whole, Restoring, Fits, Target, Brings
<1>11. ~mixed => \A p \in snaps' : SnapFits(p)'
  <2> SUFFICES ASSUME ~mixed, NEW p \in snaps' PROVE SnapFits(p)'
    OBVIOUS
  <2>1. SnapFits(p)
    BY <1>2, <1>4
  <2> QED BY <2>1, <1>2, <1>5 DEF SnapFits, KeysGrow
<1>12. restore'.to.state \in {"disabled", "enabled"} /\ restore'.before.state \in {"disabled", "enabled"}
  BY <1>2, <1>3 DEF Brings
<1> QED BY <1>1, <1>2, <1>7, <1>8, <1>9, <1>10, <1>11, <1>12 DEF Brings

LEMMA NoRestoreType ==
  ASSUME Typed
  PROVE  /\ NoRestore \in [pc : {"none", "stopping", "copied"}, before : SettingsType, to : SettingsType,
                           bundle : BOOLEAN, vals : [Secrets -> Vals], backup : [Secrets -> Vals]]
         /\ NoRestore.pc = "none" /\ NoRestore.before = Off /\ NoRestore.to = Off
         /\ Off.state = "disabled" /\ Off.legacy = 0
<1>1. Off \in SettingsType
  BY DEF Typed, Off, SettingsType, States, Made
<1>2. [s \in Secrets |-> Plain] \in [Secrets -> Vals]
  BY DEF Vals
<1> QED BY <1>1, <1>2 DEF NoRestore, Off

LEMMA StopThrowsInv == KInv /\ StopThrows => KInv'
<1> SUFFICES ASSUME KInv, StopThrows PROVE KInv'
  OBVIOUS
<1> USE Numbers DEF KInv
<1>1. /\ step = "idle" /\ restore.pc = "stopping" /\ restore' = NoRestore
      /\ UNCHANGED <<secret, settings, active, activeOld, step, form, keyCount, snaps, mixed>>
  BY DEF StopThrows, memory
<1>2. Typed' /\ Sane(settings)' /\ Sane(restore.before)' /\ Sane(restore.to)'
  BY <1>1, NoRestoreType DEF Typed, Made, SettingsType, Sane
<1>3. KeysFit' /\ Steps'
  BY <1>1, NoRestoreType DEF KeysFit, Stray, Steps, Enabled, NewOne, OldKey
<1>4. ~mixed => Whole' /\ Restoring' /\ \A p \in snaps' : SnapFits(p)'
  BY <1>1, NoRestoreType DEF Whole, Restoring, Fits, SnapFits
<1> QED BY <1>1, <1>2, <1>3, <1>4, NoRestoreType

LEMMA CopyDatabaseInv == KInv /\ CopyDatabase => KInv'
<1> SUFFICES ASSUME KInv, CopyDatabase PROVE KInv'
  OBVIOUS
<1> USE Numbers DEF KInv
<1>1. /\ step = "idle" /\ restore.pc = "stopping" /\ step' = "restore"
      /\ secret' = restore.vals /\ mixed' = (mixed \/ settings # restore.before)
      /\ restore' = [restore EXCEPT !.pc = "copied", !.backup = secret]
      /\ UNCHANGED <<settings, active, activeOld, form, keyCount, snaps>>
  BY DEF CopyDatabase, Goes, memory
<1>2. restore \in [pc : {"none", "stopping", "copied"}, before : SettingsType, to : SettingsType,
                   bundle : BOOLEAN, vals : [Secrets -> Vals], backup : [Secrets -> Vals]]
  BY DEF Typed
<1> DEFINE r == [restore EXCEPT !.pc = "copied"]
<1>3. /\ r \in [pc : {"none", "stopping", "copied"}, before : SettingsType, to : SettingsType,
                bundle : BOOLEAN, vals : [Secrets -> Vals], backup : [Secrets -> Vals]]
      /\ r.pc = "copied" /\ r.before = restore.before /\ r.to = restore.to /\ r.bundle = restore.bundle
      /\ r.vals = restore.vals
  BY <1>2
<1>4. restore' = [r EXCEPT !.backup = secret]
  BY <1>1
<1>5. /\ restore' \in [pc : {"none", "stopping", "copied"}, before : SettingsType, to : SettingsType,
                       bundle : BOOLEAN, vals : [Secrets -> Vals], backup : [Secrets -> Vals]]
      /\ restore'.pc = "copied" /\ restore'.before = restore.before /\ restore'.to = restore.to
      /\ restore'.bundle = restore.bundle /\ restore'.backup = secret
  <2> HIDE DEF r
  <2>1. secret \in [Secrets -> Vals]
    BY DEF Typed
  <2> QED BY <1>3, <1>4, <2>1
<1>6. Typed' /\ Sane(settings)' /\ Sane(restore.before)' /\ Sane(restore.to)'
  <2>1. restore.vals \in [Secrets -> Vals]
    BY <1>2
  <2>2. mixed' \in BOOLEAN
    BY <1>1
  <2> QED BY <1>1, <1>5, <2>1, <2>2 DEF Typed, Made, SettingsType, Sane
<1>7. KeysFit' /\ Steps'
  BY <1>1, <1>5 DEF KeysFit, Stray, Steps, Enabled, NewOne, OldKey
<1>8. ~mixed' => Whole' /\ Restoring' /\ \A p \in snaps' : SnapFits(p)'
  BY <1>1, <1>5, ZenonT(40) DEF Whole, Restoring, Fits, Target, SnapFits
<1> QED BY <1>5, <1>6, <1>7, <1>8

LEMMA RestoreSettingsInv == KInv /\ RestoreSettings => KInv'
<1> SUFFICES ASSUME KInv, RestoreSettings PROVE KInv'
  OBVIOUS
<1> USE Numbers DEF KInv
<1>1. /\ step = "restore" /\ step' = "idle" /\ active' = 0 /\ activeOld' = 0 /\ restore' = NoRestore
      /\ settings' = (IF restore.bundle THEN restore.to ELSE settings)
      /\ UNCHANGED <<secret, form, keyCount, snaps, mixed>>
  BY DEF RestoreSettings, Goes, Locks, Brought
<1>2. restore.pc = "copied"
  BY <1>1 DEF Steps
<1>3. settings' \in SettingsType /\ Sane(settings)'
  <2>1. restore.to \in SettingsType /\ settings \in SettingsType
    BY DEF Typed
  <2> QED BY <1>1, <2>1 DEF Sane
<1>4. Typed'
  BY <1>1, <1>3, NoRestoreType DEF Typed, Made, SettingsType
<1>5. Sane(restore.before)' /\ Sane(restore.to)'
  BY <1>1, NoRestoreType DEF Sane
<1>6. KeysFit' /\ Steps'
  BY <1>1, NoRestoreType DEF KeysFit, Stray, Steps
<1>7. ~mixed => Whole' /\ Restoring' /\ \A p \in snaps' : SnapFits(p)'
  <2> SUFFICES ASSUME ~mixed PROVE Whole' /\ Restoring' /\ \A p \in snaps' : SnapFits(p)'
    OBVIOUS
  <2>1. Fits(secret, IF restore.bundle THEN restore.to ELSE settings)
    BY <1>2 DEF Restoring, Target
  <2>2. Fits(secret, settings)'
    BY <1>1, <2>1 DEF Fits
  <2> QED BY <1>1, <2>2, NoRestoreType DEF Whole, Restoring, SnapFits
<1> QED BY <1>1, <1>3, <1>4, <1>5, <1>6, <1>7, NoRestoreType

LEMMA RollBackInv == KInv /\ RollBack => KInv'
<1> SUFFICES ASSUME KInv, RollBack PROVE KInv'
  OBVIOUS
<1> USE Numbers DEF KInv
<1>1. /\ step = "restore" /\ step' = "idle" /\ restore' = NoRestore
      /\ secret' \in {secret, restore.backup}
      /\ \/ settings' \in {restore.before, restore.to} /\ active' = 0 /\ activeOld' = 0
         \/ settings' = settings /\ active' = active /\ activeOld' = activeOld
      /\ mixed' \in BOOLEAN
      /\ ~mixed' => /\ ~mixed
                    /\ \/ secret' = restore.backup /\ settings' = restore.before
                       \/ secret' = secret /\ settings' = Brought
      /\ UNCHANGED <<form, keyCount, snaps>>
  BY DEF RollBack, Goes, Locks, RolledBack, memory
<1>2. restore.pc = "copied"
  BY <1>1 DEF Steps
<1>3. settings' \in SettingsType /\ Sane(settings)' /\ secret' \in [Secrets -> Vals]
  <2>1. /\ restore.before \in SettingsType /\ restore.to \in SettingsType /\ settings \in SettingsType
        /\ restore.backup \in [Secrets -> Vals] /\ secret \in [Secrets -> Vals]
    BY DEF Typed
  <2> QED BY <1>1, <2>1 DEF Sane
<1>4. Typed'
  BY <1>1, <1>3, NoRestoreType DEF Typed, Made, SettingsType
<1>5. Sane(restore.before)' /\ Sane(restore.to)'
  BY <1>1, NoRestoreType DEF Sane
<1>6. KeysFit' /\ Steps'
  BY <1>1, NoRestoreType DEF KeysFit, Stray, Steps, Enabled, NewOne, OldKey
<1>7. ~mixed' => Whole' /\ Restoring' /\ \A p \in snaps' : SnapFits(p)'
  <2> SUFFICES ASSUME ~mixed' PROVE Whole' /\ Restoring' /\ \A p \in snaps' : SnapFits(p)'
    OBVIOUS
  <2>1. ~mixed /\ Restoring /\ \A p \in snaps : SnapFits(p)
    BY <1>1
  <2>2. Fits(secret', settings')
    <3>1. Fits(restore.backup, restore.before) /\ Fits(secret, Brought)
      BY <1>2, <2>1 DEF Restoring, Target, Brought
    <3> QED BY <1>1, <3>1
  <2>3. Fits(secret, settings)'
    BY <2>2 DEF Fits
  <2> QED BY <1>1, <2>1, <2>3, NoRestoreType DEF Whole, Restoring, SnapFits
<1> QED BY <1>1, <1>3, <1>4, <1>5, <1>6, <1>7, NoRestoreType

LEMMA RestartInv == KInv /\ Restart => KInv'
<1> SUFFICES ASSUME KInv, Restart PROVE KInv'
  OBVIOUS
<1> USE Numbers DEF KInv
<1>1. /\ step' = "idle" /\ active' = 0 /\ activeOld' = 0 /\ restore' = NoRestore
      /\ snaps' \subseteq snaps /\ mixed' = (mixed \/ restore.pc = "copied")
      /\ UNCHANGED <<secret, settings, form, keyCount>>
  BY DEF Restart, Goes, Locks
<1>2. Typed' /\ Sane(settings)' /\ Sane(restore.before)' /\ Sane(restore.to)'
  BY <1>1, NoRestoreType DEF Typed, Made, SettingsType, Sane
<1>3. KeysFit' /\ Steps'
  BY <1>1, NoRestoreType DEF KeysFit, Stray, Steps
<1>4. ~mixed' => Whole' /\ Restoring' /\ \A p \in snaps' : SnapFits(p)'
  BY <1>1, NoRestoreType DEF Whole, Restoring, Fits, SnapFits
<1> QED BY <1>1, <1>2, <1>3, <1>4, NoRestoreType

LEMMA KStutter == KInv /\ UNCHANGED kvars => KInv'
BY DEF KInv, kvars, Typed, Vals, Made, SettingsType, Sane, KeysFit, Stray, Steps, Whole, Restoring, Fits, Target,
       SnapFits, Enabled, NewOne, OldKey, Loaded

(* The settings always make sense, and the keys in memory and the secrets   *)
(* in the database are the ones they describe, whatever writes throw, but   *)
(* for what happens after one of the accidents that mixed records:          *)
(* crypto-store.ts, secret-rewriter.ts, backup-restore-routes.ts.           *)
THEOREM SecretsInvariant == KSafety => []KInv
<1>1. KInv /\ [KNext]_kvars => KInv'
  <2> SUFFICES ASSUME KInv, [KNext]_kvars PROVE KInv'
    OBVIOUS
  <2>1. CASE RouteStep
    BY <2>1, EncryptStoredInv, CompleteInv, ClearSnapshotsInv, DecryptStoredInv, EndDisableInv,
       RestoreSettingsInv, RollBackInv DEF RouteStep
  <2>2. CASE Enable \/ Unlock \/ Disable
    BY <2>2, EnableInv, UnlockInv, DisableInv
  <2>3. CASE TakeSnapshot \/ (\E s \in Secrets : SaveSecret(s)) \/ (\E p \in snaps : RestoreSnapshot(p))
    BY <2>3, TakeSnapshotInv, SaveSecretInv, RestoreSnapshotInv
  <2>4. CASE BeginRestoration \/ StopThrows \/ CopyDatabase \/ Restart
    BY <2>4, BeginRestorationInv, StopThrowsInv, CopyDatabaseInv, RestartInv
  <2> QED BY <2>1, <2>2, <2>3, <2>4, KStutter DEF KNext
<1> QED BY <1>1, KInitInv, PTL DEF KSafety

(* However switching the encryption, upgrading it, taking and restoring     *)
(* snapshots and databases are interleaved, fail and are cut short, every   *)
(* secret in the database is plain or under a key of the settings, unless   *)
(* one of the accidents that mixed records has happened: nothing else loses *)
(* a secret.                                                                *)
THEOREM SecretsStayReadable == KSafety => []SecretsReadableUnlessMixed
<1>1. KInv => SecretsReadableUnlessMixed
  BY DEF KInv, Whole, Fits, SecretsReadableUnlessMixed, SecretsReadable
<1> QED BY <1>1, SecretsInvariant, PTL

(* What encryptionReady calls ready can be read with the keys in memory,    *)
(* and nothing is stored in plain text while the encryption is on.          *)
THEOREM ReadyMeansReadable == KSafety => []ReadyReads
<1>1. KInv => ReadyReads
  <2> SUFFICES ASSUME KInv, Ready, ~mixed, step = "idle", NEW s \in Secrets
               PROVE  IF Enabled THEN secret[s] \in Keys /\ Decrypt(secret[s]) = Plain ELSE secret[s] = Plain
    BY DEF ReadyReads
  <2> USE Numbers DEF KInv
  <2>1. Fits(secret, settings)
    BY DEF Whole, Steps
  <2>2. CASE ~Enabled
    BY <2>1, <2>2 DEF Fits, Enabled
  <2>3. CASE Enabled
    <3>1. /\ settings.state = "enabled" /\ secret[s] = settings.key /\ settings.legacy = 0
          /\ settings.key \in Keys /\ form[settings.key] \in Forms
      BY <2>1, <2>3 DEF Fits, Ready, Sane, Typed, Keys, Enabled
    <3>2. Holder(settings.key) = settings.key
      BY <3>1, <2>3 DEF Holder, Ready, KeysFit, Stray, NewOne, OldKey, Forms
    <3> QED BY <3>1, <3>2, <2>3 DEF Decrypt
  <2> QED BY <2>2, <2>3
<1> QED BY <1>1, SecretsInvariant, PTL

-----------------------------------------------------------------------------
(***************************************************************************)
(* Proofs about the shared SFTP session, for any number of requests,       *)
(* reconnections and channels: one client stays open, and no channel is    *)
(* lost.                                                                   *)
(***************************************************************************)

Links == {"none", "dialing", "open", "closing", "dead"}
Records == [status : {"none", "connecting", "connected", "disconnected"}, client : BOOLEAN,
            ended : BOOLEAN, outdated : BOOLEAN, link : Links]
Tables == [Sessions -> Records]

(* OneClient of the records ss, when the map leads to c. *)
OneOf(ss, c) == \A s \in Sessions : ss[s].link = "open" => s = c /\ ss[s].client /\ ~ss[s].ended

PInv ==
  /\ made \in 0..MaxSessions /\ current \in 0..made
  /\ session \in Tables
  /\ OneOf(session, current)

LEMMA CurrentIs == PInv => current = 0 \/ current \in Sessions
BY PoolAssumption DEF PInv, Sessions

-----------------------------------------------------------------------------
(* What becomes of a record. *)

LEMMA EndedIs ==
  ASSUME NEW ss \in Tables, NEW c \in Sessions \cup {0}, OneOf(ss, c), 0 \notin Sessions
  PROVE  /\ Ended(ss, c) \in Tables
         /\ \A s \in Sessions : Ended(ss, c)[s].link # "open"
<1>1. CASE c = 0
  BY <1>1 DEF Ended, OneOf
<1>2. CASE c \in Sessions
  <2> DEFINE x == [ss[c] EXCEPT !.ended = TRUE, !.client = FALSE,
                                !.link = IF ss[c].client THEN "closing" ELSE ss[c].link]
  <2>1. Ended(ss, c) = [ss EXCEPT ![c] = x]
    <3>1. c # 0
      BY <1>2
    <3>2. Ended(ss, c) = IF c = 0 THEN ss ELSE [ss EXCEPT ![c] = x]
      BY DEF Ended
    <3> QED BY <3>1, <3>2
  <2>2. ss[c] \in Records
    BY <1>2 DEF Tables
  <2>3. x \in Records /\ x.link # "open"
    <3>1. (IF ss[c].client THEN "closing" ELSE ss[c].link) \in Links \ {"open"}
      BY <1>2, <2>2 DEF OneOf, Records, Links
    <3> QED BY <2>2, <3>1 DEF Records
  <2> HIDE DEF x
  <2> QED BY <1>2, <2>1, <2>3 DEF Tables, OneOf
<1> QED BY <1>1, <1>2

LEMMA LinkedIs ==
  ASSUME NEW ss \in Tables, NEW s \in Sessions, NEW l \in Links
  PROVE  /\ [ss EXCEPT ![s].link = l] \in Tables
         /\ [ss EXCEPT ![s].link = l][s].link = l
         /\ \A t \in Sessions \ {s} : [ss EXCEPT ![s].link = l][t] = ss[t]
<1> DEFINE x == [ss[s] EXCEPT !.link = l]
<1>1. x \in Records /\ x.link = l
  BY DEF Tables, Records
<1>2. [ss EXCEPT ![s].link = l] = [ss EXCEPT ![s] = x]
  OBVIOUS
<1> HIDE DEF x
<1> QED BY <1>1, <1>2 DEF Tables

LEMMA DisconnectedIs ==
  ASSUME NEW ss \in Tables, NEW s \in Sessions
  PROVE  /\ Disconnected(ss, s) \in Tables
         /\ \A t \in Sessions \ {s} : Disconnected(ss, s)[t] = ss[t]
<1> DEFINE x == [ss[s] EXCEPT !.status = "disconnected", !.client = FALSE]
<1>1. x \in Records
  BY DEF Tables, Records
<1>2. Disconnected(ss, s) = [ss EXCEPT ![s] = x]
  BY DEF Disconnected
<1> HIDE DEF x
<1> QED BY <1>1, <1>2 DEF Tables

-----------------------------------------------------------------------------
LEMMA PInitInv == PInit => PInv
<1>1. NoSession \in Records /\ NoSession.link # "open"
  BY DEF NoSession, Records, Links
<1> QED BY <1>1, PoolAssumption DEF PInit, PInv, Tables, OneOf

(* connectSftpSession with the records as they are, or with the current one *)
(* just reset.                                                              *)
LEMMA ConnectsInv ==
  ASSUME PInv, NEW q, NEW r, NEW ss \in Tables, NEW cs, OneOf(ss, current), Connects(q, r, ss, cs)
  PROVE  PInv'
<1>1. CASE session' = ss /\ UNCHANGED <<current, made>>
  BY <1>1 DEF PInv
<1>2. CASE /\ made + 1 \in Sessions /\ made' = made + 1 /\ current' = made + 1
           /\ session' = [Ended(ss, current) EXCEPT
                ![made + 1] = [NoSession EXCEPT !.status = "connecting", !.link = "dialing"]]
  <2> DEFINE x == [NoSession EXCEPT !.status = "connecting", !.link = "dialing"]
  <2>1. x \in Records /\ x.link # "open"
    BY DEF NoSession, Records, Links
  <2>2. Ended(ss, current) \in Tables /\ \A s \in Sessions : Ended(ss, current)[s].link # "open"
    <3>1. current \in Sessions \cup {0} /\ 0 \notin Sessions
      BY CurrentIs DEF Sessions
    <3> QED BY <3>1, EndedIs
  <2>3. session' = [Ended(ss, current) EXCEPT ![made + 1] = x]
    BY <1>2
  <2> HIDE DEF x
  <2>4. session' \in Tables /\ \A s \in Sessions : session'[s].link # "open"
    BY <1>2, <2>1, <2>2, <2>3 DEF Tables
  <2>5. made' \in 0..MaxSessions /\ current' \in 0..made'
    BY <1>2, PoolAssumption DEF PInv, Sessions
  <2> QED BY <2>4, <2>5 DEF PInv, OneOf
<1> QED BY <1>1, <1>2 DEF Connects

(* The catch block, disconnectSftpSession and closeAllSftpSessions. *)
LEMMA EndedCurrent ==
  ASSUME PInv, current # 0
  PROVE  /\ Ended(session, current) \in Tables
         /\ [Ended(session, current) EXCEPT ![current].status = "disconnected"] \in Tables
         /\ \A c : OneOf(Ended(session, current), c)
         /\ \A c : OneOf([Ended(session, current) EXCEPT ![current].status = "disconnected"], c)
<1> DEFINE ss == Ended(session, current)
<1>1. current \in Sessions /\ 0 \notin Sessions
  BY CurrentIs DEF Sessions
<1>2. ss \in Tables /\ \A s \in Sessions : ss[s].link # "open"
  BY <1>1, EndedIs DEF PInv
<1> HIDE DEF ss
<1> DEFINE x == [ss[current] EXCEPT !.status = "disconnected"]
<1>3. x \in Records /\ x.link # "open"
  BY <1>1, <1>2 DEF Tables, Records
<1>4. [ss EXCEPT ![current].status = "disconnected"] = [ss EXCEPT ![current] = x]
  OBVIOUS
<1> HIDE DEF x
<1>5. /\ [ss EXCEPT ![current].status = "disconnected"] \in Tables
      /\ \A s \in Sessions : [ss EXCEPT ![current].status = "disconnected"][s].link # "open"
  BY <1>1, <1>2, <1>3, <1>4 DEF Tables
<1>6. /\ ss \in Tables /\ [ss EXCEPT ![current].status = "disconnected"] \in Tables
      /\ \A c : OneOf(ss, c)
      /\ \A c : OneOf([ss EXCEPT ![current].status = "disconnected"], c)
  BY <1>2, <1>5 DEF OneOf
<1> QED BY <1>6 DEF ss

LEMMA RequestInv ==
  ASSUME PInv, NEW q \in Requests, Ask(q) \/ RequestStep(q) \/ Abort(q)
  PROVE  PInv'
<1>1. CASE Ask(q)
  <2>1. \E r : Connects(q, r, session, channel)
    BY <1>1 DEF Ask
  <2> QED BY <2>1, ConnectsInv DEF PInv
<1>2. CASE Refused(q)
  <2> DEFINE reset == [Ended(session, current) EXCEPT ![current].status = "disconnected"]
  <2>1. CASE Resets
    <3>1. current # 0
      BY <2>1 DEF Resets
    <3>2. reset \in Tables /\ OneOf(reset, current)
      BY <3>1, EndedCurrent
    <3>3. \/ Connects(q, [NoRequest EXCEPT !.kind = request[q].kind, !.try = 2], reset, WithoutPool(channel, current))
          \/ session' = reset /\ UNCHANGED <<current, made>>
          \/ UNCHANGED <<session, current, made>>
      BY <1>2, <2>1 DEF Refused
    <3> HIDE DEF reset
    <3>4. CASE session' = reset /\ UNCHANGED <<current, made>>
      BY <3>2, <3>4 DEF PInv
    <3>5. CASE UNCHANGED <<session, current, made>>
      BY <3>5 DEF PInv
    <3> QED BY <3>2, <3>3, <3>4, <3>5, ConnectsInv
  <2>2. CASE ~Resets
    <3>1. \/ Connects(q, [NoRequest EXCEPT !.kind = request[q].kind, !.try = 2], session, channel)
          \/ UNCHANGED <<session, current, made>>
      BY <1>2, <2>2 DEF Refused
    <3>2. CASE UNCHANGED <<session, current, made>>
      BY <3>2 DEF PInv
    <3> QED BY <3>1, <3>2, ConnectsInv DEF PInv
  <2> QED BY <2>1, <2>2
<1>3. CASE UNCHANGED <<session, current, made>>
  BY <1>3 DEF PInv
<1>4. Ask(q) \/ Refused(q) \/ UNCHANGED <<session, current, made>>
  BY DEF RequestStep, LeaseIdle, OpenChannel, ToldTooLate, ToldEnough, ChannelOpened, ChannelRefused, Finish, Abort
<1> QED BY <1>1, <1>2, <1>3, <1>4

(* The SSH client of record s dials, ends or closes. *)
LEMMA ClientInv ==
  ASSUME PInv, NEW s \in Sessions, ClientStep(s) \/ ClientDrops(s)
  PROVE  PInv'
<1> DEFINE d == Disconnected(session, s)
<1>1. session \in Tables /\ d \in Tables /\ \A t \in Sessions \ {s} : d[t] = session[t]
  BY DisconnectedIs DEF PInv
<1> HIDE DEF d
<1>2. UNCHANGED <<current, made>>
  BY DEF ClientStep, Dialled, DialFails, ClientCloses, ClientDrops
<1>3. CASE \E ss \in {session, d}, l \in Links \ {"open"} : session' = [ss EXCEPT ![s].link = l]
  <2>1. PICK ss \in {session, d}, l \in Links \ {"open"} : session' = [ss EXCEPT ![s].link = l]
    BY <1>3
  <2>2. /\ session' \in Tables /\ session'[s].link # "open"
        /\ \A t \in Sessions \ {s} : session'[t] = session[t]
    <3>1. /\ ss \in Tables /\ l \in Links /\ l # "open"
          /\ \A t \in Sessions \ {s} : ss[t] = session[t]
      BY <1>1
    <3>2. /\ [ss EXCEPT ![s].link = l] \in Tables
          /\ [ss EXCEPT ![s].link = l][s].link = l
          /\ \A t \in Sessions \ {s} : [ss EXCEPT ![s].link = l][t] = ss[t]
      BY <3>1, LinkedIs
    <3> QED BY <2>1, <3>1, <3>2, Zenon
  <2> QED BY <1>2, <2>2 DEF PInv, OneOf
<1>4. CASE /\ ~Overtaken(s)
           /\ session' = [session EXCEPT ![s] = [@ EXCEPT !.status = "connected", !.client = TRUE, !.link = "open"]]
  <2> DEFINE x == [session[s] EXCEPT !.status = "connected", !.client = TRUE, !.link = "open"]
  <2>1. session[s].ended = FALSE /\ s = current
    BY <1>1, <1>4 DEF Overtaken, Tables, Records
  <2>2. x \in Records /\ x.client = TRUE /\ x.ended = FALSE
    <3>1. session[s] \in Records /\ "open" \in Links
      BY <1>1 DEF Tables, Links
    <3> QED BY <2>1, <3>1 DEF Records
  <2>3. session' = [session EXCEPT ![s] = x]
    BY <1>4
  <2> HIDE DEF x
  <2> QED BY <1>1, <1>2, <2>1, <2>2, <2>3 DEF PInv, OneOf, Tables
<1>5. CASE Dialled(s)
  <2>1. "closing" \in Links \ {"open"}
    BY DEF Links
  <2> QED BY <1>3, <1>4, <1>5, <2>1 DEF Dialled, d
<1>6. CASE DialFails(s)
  <2>1. "dead" \in Links \ {"open"}
    BY DEF Links
  <2> QED BY <1>3, <1>6, <2>1 DEF DialFails, d
<1>7. CASE ClientCloses(s)
  <2>1. "dead" \in Links \ {"open"}
    BY DEF Links
  <2> QED BY <1>3, <1>7, <2>1 DEF ClientCloses, d
<1>8. CASE ClientDrops(s)
  <2>1. "closing" \in Links \ {"open"}
    BY DEF Links
  <2> QED BY <1>3, <1>8, <2>1 DEF ClientDrops, d
<1> QED BY <1>5, <1>6, <1>7, <1>8 DEF ClientStep

LEMMA UserInv == PInv /\ (Disconnect \/ CloseAll \/ EditConnection) => PInv'
<1> SUFFICES ASSUME PInv, Disconnect \/ CloseAll \/ EditConnection PROVE PInv'
  OBVIOUS
<1>1. made' = made /\ current # 0
  BY DEF Disconnect, CloseAll, EditConnection
<1>2. CASE Disconnect
  <2>1. session' = [Ended(session, current) EXCEPT ![current].status = "disconnected"] /\ current' = current
    BY <1>2 DEF Disconnect
  <2>2. session' \in Tables /\ \A c : OneOf(session', c)
    BY <1>1, <2>1, EndedCurrent
  <2> QED BY <1>1, <2>1, <2>2 DEF PInv
<1>3. CASE CloseAll
  <2>1. session' = Ended(session, current) /\ current' = 0
    BY <1>3 DEF CloseAll
  <2>2. session' \in Tables /\ \A c : OneOf(session', c)
    BY <1>1, <2>1, EndedCurrent
  <2> QED BY <1>1, <2>1, <2>2 DEF PInv
<1>4. CASE EditConnection
  <2> DEFINE x == [session[current] EXCEPT !.outdated = TRUE]
  <2>1. current \in Sessions /\ current' = current
    BY <1>1, <1>4, CurrentIs DEF EditConnection
  <2>2. /\ x \in Records /\ x.link = session[current].link
        /\ x.client = session[current].client /\ x.ended = session[current].ended
    BY <2>1 DEF PInv, Tables, Records
  <2>3. session' = [session EXCEPT ![current] = x]
    BY <1>4 DEF EditConnection
  <2> HIDE DEF x
  <2> QED BY <1>1, <2>1, <2>2, <2>3 DEF PInv, OneOf, Tables
<1> QED BY <1>2, <1>3, <1>4

LEMMA PNextInv == PInv /\ [PNext]_pvars => PInv'
<1> SUFFICES ASSUME PInv, [PNext]_pvars PROVE PInv'
  OBVIOUS
<1>1. ASSUME NEW c \in Channels, LateChannel(c) \/ IdleTimeout(c) \/ ChannelCloses(c)
      PROVE  PInv'
  BY <1>1 DEF LateChannel, IdleTimeout, ChannelCloses, PInv
<1>2. CASE UNCHANGED pvars
  BY <1>2 DEF pvars, PInv
<1> QED BY <1>1, <1>2, RequestInv, ClientInv, UserInv DEF PNext

(* However requests, disconnections, edits and slow connects interleave, at *)
(* most one SSH client stays open for a connection, and the map leads to it *)
(* (connectSftpSession, endSessionRecord).                                  *)
THEOREM OneClientStaysOpen == PSafety => []OneClient
<1>1. PInv => OneClient
  BY DEF PInv, OneOf, OneClient
<1> QED BY <1>1, PInitInv, PNextInv, PTL DEF PSafety

-----------------------------------------------------------------------------
(* The pool.  A client is kept while, and only while, its socket is open;   *)
(* a current record that is connected has one.                              *)
ClientIsOpen(ss) == \A s \in Sessions : ss[s].client => ss[s].link = "open"
LiveHasClient(ss, c) == c # 0 /\ ss[c].status = "connected" => ss[c].client
Sound(ss, c) == ss \in Tables /\ OneOf(ss, c) /\ ClientIsOpen(ss) /\ LiveHasClient(ss, c)

Held == {"leased", "given", "closed"}
Entries == {"none", "opening", "late", "idle"} \cup Held
ChannelRecords == [entry : Entries, open : BOOLEAN, of : Sessions \cup {0}]
ChannelTable == [Channels -> ChannelRecords]
RequestRecords == [kind : Kinds, pc : {"none", "waiting", "told", "refused", "opening", "holding"}, of : Nat,
                   ch : Channels \cup {0}, try : Nat, killed : BOOLEAN]
RequestTable == [Requests -> RequestRecords]

(* What is idle in the pool can be used. *)
PoolIsUsable(ss, cs) == \A c \in Channels : cs[c].entry = "idle" => Usable(ss, cs[c].of)
PoolIsEmpty(cs) == \A c \in Channels : cs[c].entry # "idle"

OpenIsInHand == \A c \in Channels : channel[c].open => channel[c].entry \in {"leased", "given", "idle"}
ChannelHasSession == \A c \in Channels : channel[c].entry # "none" => channel[c].of \in Sessions
PoolIsBounded == \A s \in Sessions : Cardinality(Idlers(s)) <= MaxIdle

(* A request and the channel it opens or uses belong to each other.         *)
Active(q) == request[q].pc \in {"opening", "holding"}
ActiveHasChannel ==
  \A q \in Requests :
    /\ Active(q) => request[q].ch \in Channels
    /\ request[q].pc = "opening" => channel[request[q].ch].entry = "opening"
    /\ request[q].pc = "holding" => channel[request[q].ch].entry \in Held
ChannelsAreApart == \A q, r \in Requests : q # r /\ Active(q) /\ Active(r) => request[q].ch # request[r].ch
HeldHasHolder ==
  \A c \in Channels : channel[c].entry \in Held =>
    \E q \in Requests : request[q].pc = "holding" /\ request[q].ch = c
Owned == ActiveHasChannel /\ ChannelsAreApart /\ HeldHasHolder

LInv ==
  /\ PInv /\ ClientIsOpen(session) /\ LiveHasClient(session, current)
  /\ channel \in ChannelTable /\ request \in RequestTable
  /\ PoolIsUsable(session, channel) /\ OpenIsInHand /\ ChannelHasSession /\ PoolIsBounded
  /\ Owned

LEMMA NoZero == 0 \notin Sessions /\ 0 \notin Channels /\ MaxIdle \in Nat
BY PoolAssumption DEF Sessions, Channels

-----------------------------------------------------------------------------
(* Ending, disconnecting and linking a record, field by field. *)

LEMMA EndedFields ==
  ASSUME NEW ss \in Tables, NEW c \in Sessions
  PROVE  /\ ~Ended(ss, c)[c].client /\ Ended(ss, c)[c].status = ss[c].status
         /\ \A s \in Sessions : s # c => Ended(ss, c)[s] = ss[s]
<1> DEFINE l == IF ss[c].client THEN "closing" ELSE ss[c].link
<1> DEFINE x == [ss[c] EXCEPT !.ended = TRUE, !.client = FALSE, !.link = l]
<1>1. Ended(ss, c) = [ss EXCEPT ![c] = x]
  <2>1. c # 0
    BY NoZero
  <2>2. Ended(ss, c) = IF c = 0 THEN ss ELSE [ss EXCEPT ![c] = x]
    BY DEF Ended
  <2> QED BY <2>1, <2>2
<1> HIDE DEF l
<1>2. ~x.client /\ x.status = ss[c].status
  BY DEF Tables, Records
<1> HIDE DEF x
<1> QED BY <1>1, <1>2 DEF Tables

LEMMA LinkedFields ==
  ASSUME NEW ss \in Tables, NEW s \in Sessions, NEW l
  PROVE  /\ [ss EXCEPT ![s].link = l][s].client = ss[s].client
         /\ [ss EXCEPT ![s].link = l][s].status = ss[s].status
<1> DEFINE x == [ss[s] EXCEPT !.link = l]
<1>1. x.client = ss[s].client /\ x.status = ss[s].status
  BY DEF Tables, Records
<1>2. [ss EXCEPT ![s].link = l] = [ss EXCEPT ![s] = x]
  OBVIOUS
<1> HIDE DEF x
<1> QED BY <1>1, <1>2 DEF Tables

LEMMA DisconnectedFields ==
  ASSUME NEW ss \in Tables, NEW s \in Sessions
  PROVE  ~Disconnected(ss, s)[s].client /\ Disconnected(ss, s)[s].status = "disconnected"
<1> DEFINE x == [ss[s] EXCEPT !.status = "disconnected", !.client = FALSE]
<1>1. ~x.client /\ x.status = "disconnected"
  BY DEF Tables, Records
<1>2. Disconnected(ss, s) = [ss EXCEPT ![s] = x]
  BY DEF Disconnected
<1> HIDE DEF x
<1> QED BY <1>1, <1>2 DEF Tables

LEMMA OnlyCurrentIsUsable ==
  ASSUME NEW ss, NEW c, Sound(ss, c), NEW s \in Sessions, ss[s].client
  PROVE  s = c
BY DEF Sound, OneOf, ClientIsOpen

(* Once the current record is ended, no record has a client. *)
LEMMA EndedLeavesNone ==
  ASSUME NEW ss, NEW c \in Sessions \cup {0}, Sound(ss, c)
  PROVE  /\ Ended(ss, c) \in Tables
         /\ \A s \in Sessions : ~Ended(ss, c)[s].client /\ Ended(ss, c)[s].link # "open"
<1>1. ss \in Tables /\ OneOf(ss, c)
  BY DEF Sound
<1>2. Ended(ss, c) \in Tables /\ \A s \in Sessions : Ended(ss, c)[s].link # "open"
  BY <1>1, NoZero, EndedIs
<1>3. CASE c = 0
  <2>1. Ended(ss, c) = ss
    BY <1>3 DEF Ended
  <2>2. \A s \in Sessions : ~ss[s].client
    BY <1>3, NoZero, OnlyCurrentIsUsable
  <2> QED BY <1>2, <2>1, <2>2
<1>4. CASE c \in Sessions
  <2>1. ~Ended(ss, c)[c].client /\ \A s \in Sessions : s # c => Ended(ss, c)[s] = ss[s]
    BY <1>1, <1>4, EndedFields
  <2>2. \A s \in Sessions : s # c => ~ss[s].client
    BY OnlyCurrentIsUsable
  <2>3. \A s \in Sessions : ~Ended(ss, c)[s].client
    BY <2>1, <2>2
  <2> QED BY <1>2, <2>3
<1> QED BY <1>3, <1>4

(* disconnectSftpSession, and the reset of the catch block. *)
Reset == [Ended(session, current) EXCEPT ![current].status = "disconnected"]

LEMMA ResetLeavesNone ==
  ASSUME Sound(session, current), current \in Sessions
  PROVE  /\ Reset \in Tables /\ Reset[current].status = "disconnected"
         /\ \A s \in Sessions : ~Reset[s].client /\ Reset[s].link # "open"
<1> DEFINE ss == Ended(session, current)
<1>1. ss \in Tables /\ \A s \in Sessions : ~ss[s].client /\ ss[s].link # "open"
  BY EndedLeavesNone
<1> DEFINE x == [ss[current] EXCEPT !.status = "disconnected"]
<1>2. Reset = [ss EXCEPT ![current] = x]
  BY DEF Reset
<1> HIDE DEF ss
<1>3. x \in Records /\ ~x.client /\ x.link # "open" /\ x.status = "disconnected"
  BY <1>1 DEF Tables, Records
<1> HIDE DEF x
<1> QED BY <1>1, <1>2, <1>3 DEF Tables

LEMMA NoneIsSound ==
  ASSUME NEW ss \in Tables, NEW c, \A s \in Sessions : ~ss[s].client /\ ss[s].link # "open",
         c \in Sessions => ss[c].status # "connected", c \in Sessions \cup {0}
  PROVE  Sound(ss, c)
BY DEF Sound, OneOf, ClientIsOpen, LiveHasClient

-----------------------------------------------------------------------------
(* Closing the pool and closing channels. *)

LEMMA ClosedIs ==
  ASSUME NEW r \in ChannelRecords
  PROVE  /\ [r EXCEPT !.entry = "closed", !.open = FALSE] \in ChannelRecords
         /\ [r EXCEPT !.entry = "closed", !.open = FALSE].entry = "closed"
         /\ ~[r EXCEPT !.entry = "closed", !.open = FALSE].open
         /\ [r EXCEPT !.entry = "closed", !.open = FALSE].of = r.of
BY DEF ChannelRecords, Entries, Held

LEMMA NoChannelIs == NoChannel \in ChannelRecords /\ NoChannel.entry = "none" /\ ~NoChannel.open /\ NoChannel.of = 0
BY DEF NoChannel, ChannelRecords, Entries

(* Channels that go away and channels that close under their holders; those *)
(* that may go away have an entry in `gone`.                                *)
Shrinks(gone, cs, cs2) ==
  /\ cs2 \in ChannelTable
  /\ \A c \in Channels :
       \/ cs2[c] = cs[c]
       \/ cs2[c] = NoChannel /\ cs[c].entry \in gone
       \/ cs2[c].entry = "closed" /\ ~cs2[c].open /\ cs2[c].of = cs[c].of /\ cs[c].entry \in Held

Loose == {"idle", "late"}

LEMMA ShrinksSelf == \A cs \in ChannelTable : Shrinks(Loose, cs, cs)
BY DEF Shrinks

LEMMA WithoutPoolShrinks ==
  ASSUME NEW cs0, NEW cs \in ChannelTable, NEW s, Shrinks(Loose, cs0, cs)
  PROVE  /\ Shrinks(Loose, cs0, WithoutPool(cs, s))
         /\ \A c \in Channels : WithoutPool(cs, s)[c].entry = "idle" => cs[c].entry = "idle" /\ cs[c].of # s
<1> DEFINE w == WithoutPool(cs, s)
<1> DEFINE closed(c) == [cs[c] EXCEPT !.entry = "closed", !.open = FALSE]
<1>1. /\ w = [c \in Channels |-> IF cs[c].of = s /\ cs[c].entry = "leased" THEN closed(c)
                                 ELSE IF cs[c].of = s /\ cs[c].entry = "idle" THEN NoChannel ELSE cs[c]]
  BY DEF WithoutPool
<1>2. \A c \in Channels : /\ closed(c) \in ChannelRecords /\ closed(c).entry = "closed"
                          /\ ~closed(c).open /\ closed(c).of = cs[c].of
  BY ClosedIs DEF ChannelTable
<1> HIDE DEF w, closed
<1>3. w \in ChannelTable
  BY <1>1, <1>2, NoChannelIs DEF ChannelTable
<1>4. \A c \in Channels :
        \/ w[c] = cs[c] /\ ~(cs[c].of = s /\ cs[c].entry = "idle")
        \/ w[c] = NoChannel /\ cs[c].entry = "idle"
        \/ w[c] = closed(c) /\ cs[c].entry = "leased"
  BY <1>1
<1>5. Shrinks(Loose, cs0, w)
  <2> SUFFICES ASSUME NEW c \in Channels
               PROVE  \/ w[c] = cs0[c]
                      \/ w[c] = NoChannel /\ cs0[c].entry \in Loose
                      \/ w[c].entry = "closed" /\ ~w[c].open /\ w[c].of = cs0[c].of /\ cs0[c].entry \in Held
    BY <1>3 DEF Shrinks
  <2>1. \/ cs[c] = cs0[c]
        \/ cs[c] = NoChannel /\ cs0[c].entry \in Loose
        \/ cs[c].entry = "closed" /\ ~cs[c].open /\ cs[c].of = cs0[c].of /\ cs0[c].entry \in Held
    BY DEF Shrinks
  <2> QED BY <2>1, <1>2, <1>4, NoChannelIs DEF Loose, Held
<1>6. \A c \in Channels : w[c].entry = "idle" => cs[c].entry = "idle" /\ cs[c].of # s
  BY <1>2, <1>4, NoChannelIs
<1> QED BY <1>5, <1>6 DEF w

(* The pool of a sound table is the current record's. *)
LEMMA PoolEmptied ==
  ASSUME NEW ss, NEW c \in Sessions \cup {0}, Sound(ss, c), NEW cs \in ChannelTable, PoolIsUsable(ss, cs)
  PROVE  PoolIsEmpty(WithoutPool(cs, c))
<1> SUFFICES ASSUME NEW k \in Channels, WithoutPool(cs, c)[k].entry = "idle" PROVE FALSE
  BY DEF PoolIsEmpty
<1>1. cs[k].entry = "idle" /\ cs[k].of # c
  BY WithoutPoolShrinks, ShrinksSelf
<1>2. cs[k].of \in Sessions /\ ss[cs[k].of].client
  BY <1>1 DEF PoolIsUsable, Usable, ChannelTable, ChannelRecords
<1> QED BY <1>1, <1>2, OnlyCurrentIsUsable

-----------------------------------------------------------------------------
(* The steps of sessions. *)

SoundSession == Sound(session, current) /\ current \in Sessions \cup {0} /\ PoolIsUsable(session, channel)

LEMMA LInvSound == LInv => SoundSession /\ channel \in ChannelTable
BY CurrentIs DEF LInv, SoundSession, Sound, PInv

(* connectSftpSession *)
LEMMA ConnectsSound ==
  ASSUME PInv, NEW q, NEW r, NEW ss, NEW cs, Sound(ss, current), PoolIsUsable(ss, cs), Shrinks(Loose, channel, cs),
         Connects(q, r, ss, cs)
  PROVE  Sound(session', current') /\ PoolIsUsable(session', channel') /\ Shrinks(Loose, channel, channel')
<1>1. current \in Sessions \cup {0} /\ cs \in ChannelTable
  BY CurrentIs DEF Shrinks
<1>2. CASE session' = ss /\ channel' = cs /\ UNCHANGED <<current, made>>
  BY <1>1, <1>2
<1>3. CASE /\ made + 1 \in Sessions /\ made' = made + 1 /\ current' = made + 1
           /\ session' = [Ended(ss, current) EXCEPT
                ![made + 1] = [NoSession EXCEPT !.status = "connecting", !.link = "dialing"]]
           /\ channel' = WithoutPool(cs, current)
  <2> DEFINE x == [NoSession EXCEPT !.status = "connecting", !.link = "dialing"]
  <2>1. x \in Records /\ x.link # "open" /\ ~x.client /\ x.status = "connecting"
    BY DEF NoSession, Records, Links
  <2>2. Ended(ss, current) \in Tables /\ \A s \in Sessions : ~Ended(ss, current)[s].client /\ Ended(ss, current)[s].link # "open"
    BY <1>1, EndedLeavesNone
  <2>3. session' = [Ended(ss, current) EXCEPT ![made + 1] = x]
    BY <1>3
  <2> HIDE DEF x
  <2>4. /\ session' \in Tables /\ session'[made + 1].status = "connecting"
        /\ \A s \in Sessions : ~session'[s].client /\ session'[s].link # "open"
    BY <1>3, <2>1, <2>2, <2>3 DEF Tables
  <2>5. Sound(session', current')
    BY <1>3, <2>4, NoneIsSound
  <2>6. Shrinks(Loose, channel, channel') /\ PoolIsEmpty(channel')
    BY <1>1, <1>3, WithoutPoolShrinks, PoolEmptied
  <2>7. PoolIsUsable(session', channel')
    BY <2>6 DEF PoolIsEmpty, PoolIsUsable
  <2> QED BY <1>3, <2>5, <2>6, <2>7
<1> QED BY <1>2, <1>3 DEF Connects

Awaits(q, r) ==
  \/ request' = [request EXCEPT ![q] = [r EXCEPT !.pc = "told"]]
  \/ \E s \in Sessions : request' = [request EXCEPT ![q] = [r EXCEPT !.pc = "waiting", !.of = s]]

LEMMA ConnectsAwaits ==
  ASSUME PInv, NEW q, NEW r, NEW ss, NEW cs, Connects(q, r, ss, cs)
  PROVE  Awaits(q, r)
BY CurrentIs DEF Connects, Awaits

(* The catch block. *)
SecondTry(q) == [NoRequest EXCEPT !.kind = request[q].kind, !.try = 2]

LEMMA RefusedSound ==
  ASSUME PInv, SoundSession, channel \in ChannelTable, NEW q, Refused(q)
  PROVE  /\ Sound(session', current') /\ PoolIsUsable(session', channel') /\ Shrinks(Loose, channel, channel')
         /\ Ends(q) \/ Awaits(q, SecondTry(q))
<1> DEFINE ss == IF Resets THEN Reset ELSE session
<1> DEFINE cs == IF Resets THEN WithoutPool(channel, current) ELSE channel
<1>1. \/ Ends(q) /\ UNCHANGED <<current, session, channel, made>>
      \/ Connects(q, SecondTry(q), ss, cs)
      \/ Ends(q) /\ session' = ss /\ channel' = cs /\ UNCHANGED <<current, made>>
  BY DEF Refused, Reset, SecondTry
<1>2. Sound(ss, current) /\ PoolIsUsable(ss, cs) /\ Shrinks(Loose, channel, cs)
  <2>1. CASE Resets
    <3>1. current \in Sessions
      BY <2>1 DEF Resets, SoundSession
    <3>2. Sound(Reset, current)
      BY <3>1, ResetLeavesNone, NoneIsSound DEF SoundSession
    <3>3. Shrinks(Loose, channel, WithoutPool(channel, current)) /\ PoolIsEmpty(WithoutPool(channel, current))
      BY WithoutPoolShrinks, ShrinksSelf, PoolEmptied DEF SoundSession
    <3> QED BY <2>1, <3>2, <3>3 DEF PoolIsEmpty, PoolIsUsable
  <2>2. CASE ~Resets
    BY <2>2, ShrinksSelf DEF SoundSession
  <2> QED BY <2>1, <2>2
<1> HIDE DEF ss, cs
<1>3. CASE Ends(q) /\ UNCHANGED <<current, session, channel, made>>
  BY <1>3, ShrinksSelf DEF SoundSession
<1>4. CASE Ends(q) /\ session' = ss /\ channel' = cs /\ UNCHANGED <<current, made>>
  BY <1>2, <1>4
<1>5. CASE Connects(q, SecondTry(q), ss, cs)
  BY <1>2, <1>5, ConnectsSound, ConnectsAwaits
<1> QED BY <1>1, <1>3, <1>4, <1>5

(* The client of s is gone, or never came: no other record notices.         *)
Unlinks(s, ss, l) == session' = [ss EXCEPT ![s].link = l]

LEMMA UnlinkSound ==
  ASSUME SoundSession, NEW s \in Sessions, NEW ss \in {session, Disconnected(session, s)}, NEW l \in Links \ {"open"},
         Unlinks(s, ss, l), UNCHANGED current,
         ss = session => ~session[s].client /\ (s = current => session[s].status # "connected")
  PROVE  /\ Sound(session', current') /\ \A t \in Sessions : t # s => session'[t] = session[t]
<1>1. session \in Tables /\ l \in Links /\ l # "open" /\ current \in Sessions \cup {0}
  BY DEF SoundSession, Sound
<1>2. /\ ss \in Tables /\ ~ss[s].client /\ (s = current => ss[s].status # "connected")
      /\ \A t \in Sessions \ {s} : ss[t] = session[t]
  <2>1. CASE ss = session
    BY <1>1, <2>1
  <2>2. CASE ss = Disconnected(session, s)
    BY <1>1, <2>2, DisconnectedIs, DisconnectedFields
  <2> QED BY <2>1, <2>2
<1>3. /\ session' \in Tables /\ session'[s].link = l /\ session'[s].client = ss[s].client /\ session'[s].status = ss[s].status
      /\ \A t \in Sessions \ {s} : session'[t] = ss[t]
  <2>1. ss \in Tables /\ l \in Links
    BY <1>1, <1>2
  <2>2. /\ [ss EXCEPT ![s].link = l] \in Tables
        /\ [ss EXCEPT ![s].link = l][s].link = l
        /\ \A t \in Sessions \ {s} : [ss EXCEPT ![s].link = l][t] = ss[t]
    BY <2>1, LinkedIs
  <2>3. /\ [ss EXCEPT ![s].link = l][s].client = ss[s].client
        /\ [ss EXCEPT ![s].link = l][s].status = ss[s].status
    BY <2>1, LinkedFields
  <2>4. session' = [ss EXCEPT ![s].link = l]
    BY DEF Unlinks
  <2> QED BY <2>2, <2>3, <2>4, Zenon
<1>4. Sound(session', current')
  BY <1>1, <1>2, <1>3 DEF SoundSession, Sound, OneOf, ClientIsOpen, LiveHasClient
<1>5. \A t \in Sessions : t # s => session'[t] = session[t]
  BY <1>2, <1>3
<1> QED BY <1>4, <1>5

(* A record without a client has no idle channel. *)
LEMMA NoClientNoIdle ==
  ASSUME SoundSession, NEW s \in Sessions, ~session[s].client, \A t \in Sessions : t # s => session'[t] = session[t],
         NEW cs \in ChannelTable, \A c \in Channels : cs[c].entry = "idle" => cs[c] = channel[c], channel \in ChannelTable
  PROVE  PoolIsUsable(session', cs)
<1> SUFFICES ASSUME NEW c \in Channels, cs[c].entry = "idle" PROVE Usable(session', cs[c].of)
  BY DEF PoolIsUsable
<1>1. channel[c].entry = "idle" /\ channel[c].of \in Sessions \cup {0} /\ cs[c].of = channel[c].of
  BY DEF ChannelTable, ChannelRecords
<1>2. Usable(session, channel[c].of)
  BY <1>1 DEF SoundSession, PoolIsUsable
<1> QED BY <1>1, <1>2 DEF Usable

LEMMA DialSound ==
  ASSUME SoundSession, channel \in ChannelTable, NEW s \in Sessions, Dialled(s) \/ DialFails(s)
  PROVE  Sound(session', current') /\ PoolIsUsable(session', channel') /\ channel' = channel
<1>1. /\ session[s].link = "dialing" /\ UNCHANGED <<current, channel>> /\ ~session[s].client
  BY DEF Dialled, DialFails, SoundSession, Sound, ClientIsOpen
<1>2. session \in Tables /\ current \in Sessions \cup {0}
  BY DEF SoundSession, Sound
<1> DEFINE ss == IF current = s THEN Disconnected(session, s) ELSE session
<1>3. CASE \E l \in Links \ {"open"} : session' = [ss EXCEPT ![s].link = l]
  <2>1. PICK l \in Links \ {"open"} : session' = [ss EXCEPT ![s].link = l]
    BY <1>3
  <2>2. ss \in {session, Disconnected(session, s)} /\ (ss = session => ~session[s].client /\ (s = current => session[s].status # "connected"))
    <3>1. CASE current = s
      <4>1. Disconnected(session, s)[s].status = "disconnected"
        BY <1>2, DisconnectedFields
      <4> QED BY <1>1, <3>1, <4>1
    <3>2. CASE current # s
      BY <1>1, <3>2
    <3> QED BY <3>1, <3>2
  <2> HIDE DEF ss
  <2>3. Sound(session', current') /\ \A t \in Sessions : t # s => session'[t] = session[t]
    BY <1>1, <2>1, <2>2, UnlinkSound DEF Unlinks
  <2>4. PoolIsUsable(session', channel)
    BY <1>1, <2>3, NoClientNoIdle
  <2> QED BY <1>1, <2>3, <2>4
<1>4. CASE /\ ~Overtaken(s)
           /\ session' = [session EXCEPT ![s] = [@ EXCEPT !.status = "connected", !.client = TRUE, !.link = "open"]]
  <2> DEFINE x == [session[s] EXCEPT !.status = "connected", !.client = TRUE, !.link = "open"]
  <2>1. s = current /\ session[s].ended = FALSE /\ session[s] \in Records
    BY <1>2, <1>4 DEF Overtaken, Tables, Records
  <2>2. x \in Records /\ x.client = TRUE /\ x.link = "open" /\ x.ended = FALSE
    <3>1. "open" \in Links
      BY DEF Links
    <3> QED BY <2>1, <3>1 DEF Records
  <2>3. session' = [session EXCEPT ![s] = x]
    BY <1>4
  <2> HIDE DEF x
  <2>4. session' \in Tables /\ session'[s] = x /\ \A t \in Sessions : t # s => session'[t] = session[t]
    BY <1>2, <2>2, <2>3 DEF Tables
  <2>5. Sound(session', current')
    BY <1>1, <2>1, <2>2, <2>4 DEF SoundSession, Sound, OneOf, ClientIsOpen, LiveHasClient
  <2>6. PoolIsUsable(session', channel)
    BY <1>1, <2>4, NoClientNoIdle
  <2> QED BY <1>1, <2>5, <2>6
<1>5. {"closing", "dead"} \subseteq Links \ {"open"}
  BY DEF Links
<1> QED BY <1>3, <1>4, <1>5 DEF Dialled, DialFails

(* The socket ends, and closes. *)
LEMMA DropSound ==
  ASSUME SoundSession, channel \in ChannelTable, NEW s \in Sessions, ClientDrops(s)
  PROVE  /\ Sound(session', current') /\ PoolIsUsable(session', channel') /\ Shrinks(Loose, channel, channel')
<1>1. /\ session[s].link = "open" /\ session' = [Disconnected(session, s) EXCEPT ![s].link = "closing"]
      /\ channel' = WithoutPool(channel, s) /\ UNCHANGED current
  BY DEF ClientDrops
<1>2. s = current /\ session[s].client /\ session \in Tables
  BY <1>1 DEF SoundSession, Sound, OneOf
<1>3. Sound(session', current')
  <2>1. ~Disconnected(session, s)[s].client
    BY <1>2, DisconnectedFields
  <2>2. Disconnected(session, s) # session /\ "closing" \in Links \ {"open"}
    BY <1>2, <2>1 DEF Links
  <2> QED BY <1>1, <2>2, UnlinkSound DEF Unlinks
<1>4. Shrinks(Loose, channel, channel') /\ PoolIsEmpty(channel')
  BY <1>1, <1>2, WithoutPoolShrinks, ShrinksSelf, PoolEmptied DEF SoundSession
<1> QED BY <1>3, <1>4 DEF PoolIsUsable, PoolIsEmpty

LEMMA CloseSound ==
  ASSUME SoundSession, channel \in ChannelTable, NEW s \in Sessions, ClientCloses(s)
  PROVE  /\ Sound(session', current') /\ PoolIsUsable(session', channel')
         /\ Shrinks(Loose \cup {"opening", "none"}, channel, channel')
         /\ \A c \in Channels : channel[c].of # s => channel'[c] = channel[c]
<1> DEFINE closed(c) == [channel[c] EXCEPT !.entry = "closed", !.open = FALSE]
<1>1. /\ session[s].link = "closing" /\ UNCHANGED current
      /\ session' = [(IF session[s].status = "connecting" THEN session ELSE Disconnected(session, s)) EXCEPT ![s].link = "dead"]
      /\ channel' = [c \in Channels |-> IF channel[c].of # s THEN channel[c]
                                        ELSE IF channel[c].entry \in Held THEN closed(c) ELSE NoChannel]
  BY DEF ClientCloses, Held
<1>2. ~session[s].client /\ session \in Tables
  BY <1>1 DEF SoundSession, Sound, ClientIsOpen
<1>3. Sound(session', current') /\ \A t \in Sessions : t # s => session'[t] = session[t]
  <2> DEFINE ss == IF session[s].status = "connecting" THEN session ELSE Disconnected(session, s)
  <2>1. ss = session => session[s].status # "connected"
    BY <1>2, DisconnectedFields
  <2>2. ss \in {session, Disconnected(session, s)} /\ "dead" \in Links \ {"open"}
    BY DEF Links
  <2>3. session' = [ss EXCEPT ![s].link = "dead"]
    BY <1>1
  <2> HIDE DEF ss
  <2> QED BY <1>1, <1>2, <2>1, <2>2, <2>3, UnlinkSound DEF Unlinks
<1>4. \A c \in Channels : /\ closed(c) \in ChannelRecords /\ closed(c).entry = "closed"
                          /\ ~closed(c).open /\ closed(c).of = channel[c].of
  BY ClosedIs DEF ChannelTable
<1> HIDE DEF closed
<1>5. /\ channel' \in ChannelTable
      /\ \A c \in Channels :
           \/ channel'[c] = channel[c]
           \/ channel'[c] = NoChannel /\ channel[c].of = s /\ channel[c].entry \notin Held
           \/ channel'[c] = closed(c) /\ channel[c].of = s /\ channel[c].entry \in Held
  <2>1. channel' \in ChannelTable
    BY <1>1, <1>4, NoChannelIs DEF ChannelTable
  <2> QED BY <1>1, <2>1
<1>6. Shrinks(Loose \cup {"opening", "none"}, channel, channel')
  <2>1. \A c \in Channels : channel[c].entry \notin Held => channel[c].entry \in Loose \cup {"opening", "none"}
    BY DEF ChannelTable, ChannelRecords, Entries, Loose
  <2> QED BY <1>4, <1>5, <2>1 DEF Shrinks
<1>7. \A c \in Channels : channel'[c].entry = "idle" => channel'[c] = channel[c]
  BY <1>4, <1>5, NoChannelIs
<1>8. PoolIsUsable(session', channel')
  BY <1>2, <1>3, <1>5, <1>7, NoClientNoIdle
<1>9. \A c \in Channels : channel[c].of # s => channel'[c] = channel[c]
  BY <1>5
<1> QED BY <1>3, <1>6, <1>8, <1>9

(* disconnectSftpSession, closeAllSftpSessions, and an edit. *)
LEMMA UserSound ==
  ASSUME SoundSession, channel \in ChannelTable, Disconnect \/ CloseAll \/ EditConnection
  PROVE  /\ Sound(session', current') /\ PoolIsUsable(session', channel') /\ Shrinks(Loose, channel, channel')
<1>1. current \in Sessions
  BY DEF Disconnect, CloseAll, EditConnection, SoundSession
<1>2. CASE Disconnect \/ CloseAll
  <2>1. \/ session' = Reset /\ current' = current
        \/ session' = Ended(session, current) /\ current' = 0
    BY <1>2 DEF Disconnect, CloseAll, Reset
  <2>2. channel' = WithoutPool(channel, current)
    BY <1>2 DEF Disconnect, CloseAll
  <2>3. Sound(session', current')
    <3>1. Sound(Reset, current)
      BY <1>1, ResetLeavesNone, NoneIsSound DEF SoundSession
    <3>2. Sound(Ended(session, current), 0)
      BY <1>1, EndedLeavesNone, NoneIsSound, NoZero DEF SoundSession
    <3> QED BY <2>1, <3>1, <3>2
  <2>4. Shrinks(Loose, channel, channel') /\ PoolIsEmpty(channel')
    BY <1>1, <2>2, WithoutPoolShrinks, ShrinksSelf, PoolEmptied DEF SoundSession
  <2> QED BY <2>3, <2>4 DEF PoolIsUsable, PoolIsEmpty
<1>3. CASE EditConnection
  <2> DEFINE x == [session[current] EXCEPT !.outdated = TRUE]
  <2>1. /\ x \in Records /\ x.link = session[current].link /\ x.status = session[current].status
        /\ x.client = session[current].client /\ x.ended = session[current].ended
    BY <1>1 DEF SoundSession, Sound, Tables, Records
  <2>2. session' = [session EXCEPT ![current] = x] /\ UNCHANGED <<current, channel>>
    BY <1>3 DEF EditConnection
  <2> HIDE DEF x
  <2>3. session' \in Tables /\ session'[current] = x /\ \A t \in Sessions : t # current => session'[t] = session[t]
    BY <1>1, <2>1, <2>2 DEF SoundSession, Sound, Tables
  <2>4. /\ \A t \in Sessions : /\ session'[t].link = session[t].link /\ session'[t].status = session[t].status
                               /\ session'[t].client = session[t].client /\ session'[t].ended = session[t].ended
    BY <2>1, <2>3
  <2>5. Sound(session', current')
    BY <1>1, <2>2, <2>3, <2>4 DEF SoundSession, Sound, OneOf, ClientIsOpen, LiveHasClient
  <2>6. PoolIsUsable(session', channel')
    BY <2>2, <2>4 DEF SoundSession, PoolIsUsable, Usable, ChannelTable, ChannelRecords
  <2> QED BY <2>2, <2>5, <2>6, ShrinksSelf
<1> QED BY <1>2, <1>3

-----------------------------------------------------------------------------
(* The steps that let channels go. *)

ChannelsInHand == OpenIsInHand /\ ChannelHasSession /\ PoolIsBounded

LEMMA IdlersFinite == \A cs, s : IsFiniteSet({c \in Channels : cs[c].of = s /\ cs[c].entry = "idle"})
<1> TAKE cs, s
<1>1. IsFiniteSet(Channels)
  BY PoolAssumption, FS_Interval DEF Channels
<1> QED BY <1>1, FS_Subset

(* Fewer idle channels are not more than the pool holds.                    *)
LEMMA FewerIdle ==
  ASSUME NEW s \in Sessions, Cardinality(Idlers(s)) <= MaxIdle, Idlers(s)' \subseteq Idlers(s)
  PROVE  Cardinality(Idlers(s)') <= MaxIdle
<1> DEFINE A == Idlers(s)
<1> DEFINE B == Idlers(s)'
<1>1. IsFiniteSet(A)
  BY IdlersFinite DEF Idlers
<1> HIDE DEF A, B
<1>2. IsFiniteSet(B) /\ Cardinality(B) <= Cardinality(A)
  BY <1>1, FS_Subset DEF A, B
<1>3. Cardinality(A) \in Nat /\ Cardinality(B) \in Nat
  BY <1>1, <1>2, FS_CardinalityType
<1>4. Cardinality(A) <= MaxIdle
  BY DEF A
<1>5. Cardinality(B) <= MaxIdle
  BY <1>2, <1>3, <1>4, NoZero
<1> QED BY <1>5 DEF B

LEMMA ShrinksInHand ==
  ASSUME ChannelsInHand, NEW gone, "idle" \in gone, Shrinks(gone, channel, channel')
  PROVE  /\ ChannelsInHand'
         /\ \A c \in Channels : channel'[c].entry = "idle" => channel'[c] = channel[c]
         /\ \A c \in Channels : channel'[c].entry \in Held => channel[c].entry \in Held \/ channel'[c] = channel[c]
<1>1. \A c \in Channels :
        \/ channel'[c] = channel[c]
        \/ channel'[c] = NoChannel /\ channel[c].entry \in gone
        \/ channel'[c].entry = "closed" /\ ~channel'[c].open /\ channel'[c].of = channel[c].of /\ channel[c].entry \in Held
  BY DEF Shrinks
<1>2. OpenIsInHand'
  BY <1>1, NoChannelIs DEF ChannelsInHand, OpenIsInHand
<1>3. ChannelHasSession'
  BY <1>1, NoChannelIs DEF ChannelsInHand, ChannelHasSession, Held
<1>4. \A c \in Channels : channel'[c].entry = "idle" => channel'[c] = channel[c]
  BY <1>1, NoChannelIs
<1>5. PoolIsBounded'
  <2> SUFFICES ASSUME NEW s \in Sessions PROVE Cardinality(Idlers(s)') <= MaxIdle
    BY DEF PoolIsBounded
  <2>1. Idlers(s)' \subseteq Idlers(s)
    BY <1>4 DEF Idlers
  <2> QED BY <2>1, FewerIdle DEF ChannelsInHand, PoolIsBounded
<1>6. \A c \in Channels : channel'[c].entry \in Held => channel[c].entry \in Held \/ channel'[c] = channel[c]
  BY <1>1, NoChannelIs DEF Held
<1> QED BY <1>2, <1>3, <1>4, <1>5, <1>6 DEF ChannelsInHand

(* The requests that hold a channel go on holding it; the ones that open    *)
(* one go on, or stop, and the channel is let go of.                        *)
Continues ==
  \A q \in Requests :
    /\ request[q].pc = "holding" => request'[q].pc = "holding" /\ request'[q].ch = request[q].ch
    /\ Active(q)' => request'[q].pc = request[q].pc /\ request'[q].ch = request[q].ch
    /\ request'[q].pc = "opening" => channel'[request[q].ch] = channel[request[q].ch]

LEMMA ShrinksOwned ==
  ASSUME Owned, NEW gone, Shrinks(gone, channel, channel'), gone \cap Held = {}, Continues
  PROVE  Owned'
<1>1. \A c \in Channels : /\ channel'[c].entry \in Held => channel[c].entry \in Held
                          /\ channel[c].entry \in Held => channel'[c].entry \in Held
  <2> TAKE c \in Channels
  <2>1. \/ channel'[c] = channel[c]
        \/ channel'[c] = NoChannel /\ channel[c].entry \in gone
        \/ channel'[c].entry = "closed" /\ channel[c].entry \in Held
    BY DEF Shrinks
  <2>2. NoChannel.entry \notin Held /\ "closed" \in Held
    BY NoChannelIs DEF Held
  <2> QED BY <2>1, <2>2
<1>2. \A q \in Requests : Active(q)' => Active(q) /\ request'[q].pc = request[q].pc /\ request'[q].ch = request[q].ch
  BY DEF Continues, Active
<1>3. ActiveHasChannel'
  <2> SUFFICES ASSUME NEW q \in Requests, Active(q)'
               PROVE  /\ request'[q].ch \in Channels
                      /\ request'[q].pc = "opening" => channel'[request'[q].ch].entry = "opening"
                      /\ request'[q].pc = "holding" => channel'[request'[q].ch].entry \in Held
    BY DEF ActiveHasChannel, Active
  <2>1. /\ request'[q].ch = request[q].ch /\ request'[q].pc = request[q].pc /\ request[q].ch \in Channels
    BY <1>2 DEF Owned, ActiveHasChannel
  <2>2. request'[q].pc = "opening" => channel'[request[q].ch].entry = "opening"
    BY <2>1 DEF Owned, ActiveHasChannel, Continues
  <2>3. request'[q].pc = "holding" => channel'[request[q].ch].entry \in Held
    BY <1>1, <2>1 DEF Owned, ActiveHasChannel
  <2> QED BY <2>1, <2>2, <2>3
<1>4. ChannelsAreApart'
  BY <1>2 DEF Owned, ChannelsAreApart
<1>5. HeldHasHolder'
  BY <1>1 DEF Owned, HeldHasHolder, Continues
<1> QED BY <1>3, <1>4, <1>5 DEF Owned

(* Requests that resume, and requests that start or wait again: none of     *)
(* them has a channel.                                                      *)
Passive == {"none", "waiting", "told", "refused"}

LEMMA WaitingContinues ==
  ASSUME ActiveHasChannel, Shrinks(Loose, channel, channel'),
         \A q \in Requests : request'[q] = request[q] \/ (request[q].pc \in Passive /\ request'[q].pc \in Passive)
  PROVE  Continues
<1> SUFFICES ASSUME NEW q \in Requests
             PROVE  /\ request[q].pc = "holding" => request'[q].pc = "holding" /\ request'[q].ch = request[q].ch
                    /\ Active(q)' => request'[q].pc = request[q].pc /\ request'[q].ch = request[q].ch
                    /\ request'[q].pc = "opening" => channel'[request[q].ch] = channel[request[q].ch]
  BY DEF Continues
<1>1. CASE request[q].pc \in Passive /\ request'[q].pc \in Passive
  BY <1>1 DEF Passive, Active
<1>2. CASE request'[q] = request[q]
  <2>1. request[q].pc = "opening" => request[q].ch \in Channels /\ channel[request[q].ch].entry = "opening"
    BY DEF ActiveHasChannel, Active
  <2>2. \A c \in Channels : channel[c].entry = "opening" => channel'[c] = channel[c]
    BY DEF Shrinks, Loose, Held
  <2> QED BY <1>2, <2>1, <2>2 DEF Active
<1> QED BY <1>1, <1>2

(* The session changes, or channels close by themselves.                    *)
LEMMA SettledInv ==
  ASSUME LInv, PInv', Sound(session', current'), PoolIsUsable(session', channel'), Shrinks(Loose, channel, channel'),
         request' \in RequestTable,
         \A q \in Requests : request'[q] = request[q] \/ (request[q].pc \in Passive /\ request'[q].pc \in Passive)
  PROVE  LInv'
<1>1. ChannelsInHand'
  BY ShrinksInHand DEF LInv, ChannelsInHand, Loose
<1>2. Owned'
  <2>1. Continues
    BY WaitingContinues DEF LInv, Owned
  <2>2. Loose \cap Held = {}
    BY DEF Loose, Held
  <2> QED BY <2>1, <2>2, ShrinksOwned DEF LInv
<1>3. channel' \in ChannelTable
  BY DEF Shrinks
<1> QED BY <1>1, <1>2, <1>3 DEF LInv, ChannelsInHand, Sound

-----------------------------------------------------------------------------
(* Requests, field by field. *)

LEMMA NoRequestIs ==
  /\ NoRequest \in RequestRecords /\ NoRequest.pc = "none"
  /\ \A k \in Kinds, n \in Nat :
       /\ [NoRequest EXCEPT !.kind = k, !.try = n] \in RequestRecords
       /\ [NoRequest EXCEPT !.kind = k, !.try = n].pc = "none"
<1>1. NoRequest = [kind |-> "connect", pc |-> "none", of |-> 0, ch |-> 0, try |-> 0, killed |-> FALSE] /\ "connect" \in Kinds
  BY DEF NoRequest, Kinds
<1> QED BY <1>1 DEF RequestRecords

LEMMA PutRequest ==
  ASSUME NEW q \in Requests, NEW r \in RequestRecords, request \in RequestTable, request' = [request EXCEPT ![q] = r]
  PROVE  request' \in RequestTable /\ request'[q] = r /\ \A t \in Requests : t # q => request'[t] = request[t]
BY DEF RequestTable

LEMMA AwaitsPassive ==
  ASSUME NEW q \in Requests, NEW r \in RequestRecords, request \in RequestTable, Awaits(q, r), request[q].pc \in Passive
  PROVE  /\ request' \in RequestTable
         /\ \A t \in Requests : request'[t] = request[t] \/ (request[t].pc \in Passive /\ request'[t].pc \in Passive)
<1>1. [r EXCEPT !.pc = "told"] \in RequestRecords /\ [r EXCEPT !.pc = "told"].pc = "told"
  BY DEF RequestRecords
<1>2. \A s \in Sessions : /\ [r EXCEPT !.pc = "waiting", !.of = s] \in RequestRecords
                          /\ [r EXCEPT !.pc = "waiting", !.of = s].pc = "waiting"
  <2>1. \A s \in Sessions : s \in Nat
    BY PoolAssumption DEF Sessions
  <2> QED BY <2>1 DEF RequestRecords
<1>3. PICK x \in RequestRecords : request' = [request EXCEPT ![q] = x] /\ x.pc \in {"told", "waiting"}
  BY <1>1, <1>2 DEF Awaits
<1> QED BY <1>3, PutRequest DEF Passive

LEMMA EndsPassive ==
  ASSUME NEW q \in Requests, request \in RequestTable, Ends(q), request[q].pc \in Passive
  PROVE  /\ request' \in RequestTable
         /\ \A t \in Requests : request'[t] = request[t] \/ (request[t].pc \in Passive /\ request'[t].pc \in Passive)
<1>1. /\ request' \in RequestTable /\ request'[q] = NoRequest /\ \A t \in Requests : t # q => request'[t] = request[t]
  BY NoRequestIs, PutRequest DEF Ends
<1> QED BY <1>1, NoRequestIs DEF Passive

LEMMA TellPassive ==
  ASSUME NEW s, NEW pc \in {"told", "refused"}, request \in RequestTable, Tell(s, pc)
  PROVE  /\ request' \in RequestTable
         /\ \A t \in Requests : request'[t] = request[t] \/ (request[t].pc \in Passive /\ request'[t].pc \in Passive)
<1> DEFINE told(q) == [request[q] EXCEPT !.pc = pc]
<1>1. \A q \in Requests : told(q) \in RequestRecords /\ told(q).pc = pc
  BY DEF RequestTable, RequestRecords
<1>2. request' = [q \in Requests |-> IF request[q].pc = "waiting" /\ request[q].of = s THEN told(q) ELSE request[q]]
  BY DEF Tell
<1> HIDE DEF told
<1>3. request' \in RequestTable
  BY <1>1, <1>2 DEF RequestTable
<1>4. \A q \in Requests : request'[q] = request[q] \/ (request[q].pc = "waiting" /\ request'[q] = told(q))
  BY <1>2
<1> QED BY <1>1, <1>3, <1>4 DEF Passive

-----------------------------------------------------------------------------
(* One request and its channel. *)

LEMMA OneOwned ==
  ASSUME Owned, NEW q \in Requests, NEW k \in Channels,
         \A r \in Requests : r # q => request'[r] = request[r] /\ (Active(r) => request[r].ch # k),
         Active(q) => request[q].ch = k,
         \A c \in Channels : c # k =>
           \/ channel'[c] = channel[c]
           \/ channel[c].entry \notin Held \cup {"opening"} /\ channel'[c].entry \notin Held,
         Active(q)' => request'[q].ch = k,
         request'[q].pc = "opening" => channel'[k].entry = "opening",
         request'[q].pc = "holding" <=> channel'[k].entry \in Held
  PROVE  Owned'
<1>1. \A r \in Requests : r # q /\ Active(r) => request[r].ch \in Channels /\ channel'[request[r].ch] = channel[request[r].ch]
  BY DEF Owned, ActiveHasChannel, Active
<1>2. ActiveHasChannel'
  <2> SUFFICES ASSUME NEW r \in Requests, Active(r)'
               PROVE  /\ request'[r].ch \in Channels
                      /\ request'[r].pc = "opening" => channel'[request'[r].ch].entry = "opening"
                      /\ request'[r].pc = "holding" => channel'[request'[r].ch].entry \in Held
    BY DEF ActiveHasChannel, Active
  <2>1. CASE r = q
    BY <2>1
  <2>2. CASE r # q
    <3>1. request'[r] = request[r] /\ Active(r)
      BY <2>2 DEF Active
    <3> QED BY <1>1, <2>2, <3>1 DEF Owned, ActiveHasChannel
  <2> QED BY <2>1, <2>2
<1>3. ChannelsAreApart'
  <2> SUFFICES ASSUME NEW r \in Requests, NEW t \in Requests, r # t, Active(r)', Active(t)'
               PROVE  request'[r].ch # request'[t].ch
    BY DEF ChannelsAreApart
  <2>1. \A u \in Requests : u # q /\ Active(u)' => Active(u) /\ request'[u] = request[u] /\ request'[u].ch # k
    BY DEF Active
  <2>2. CASE r = q \/ t = q
    BY <2>1, <2>2
  <2>3. CASE r # q /\ t # q
    BY <2>1, <2>3 DEF Owned, ChannelsAreApart
  <2> QED BY <2>2, <2>3
<1>4. HeldHasHolder'
  <2> SUFFICES ASSUME NEW c \in Channels, channel'[c].entry \in Held
               PROVE  \E r \in Requests : request'[r].pc = "holding" /\ request'[r].ch = c
    BY DEF HeldHasHolder
  <2>1. CASE c = k
    BY <2>1 DEF Active
  <2>2. CASE c # k
    <3>1. PICK r \in Requests : request[r].pc = "holding" /\ request[r].ch = c
      BY <2>2 DEF Owned, HeldHasHolder
    <3>2. r # q
      BY <2>2, <3>1 DEF Active
    <3> QED BY <3>1, <3>2
  <2> QED BY <2>1, <2>2
<1> QED BY <1>2, <1>3, <1>4 DEF Owned

LEMMA FreeChannel ==
  ASSUME Owned, NEW c \in Channels, channel[c].entry \notin Held \cup {"opening"}
  PROVE  \A r \in Requests : Active(r) => request[r].ch # c
BY DEF Owned, ActiveHasChannel, Active

LEMMA OwnChannel ==
  ASSUME Owned, NEW q \in Requests, Active(q)
  PROVE  /\ request[q].ch \in Channels
         /\ \A r \in Requests : r # q /\ Active(r) => request[r].ch # request[q].ch
BY DEF Owned, ActiveHasChannel, ChannelsAreApart

(* A channel that does not become idle. *)
LEMMA OneInHand ==
  ASSUME ChannelsInHand, PoolIsUsable(session, channel), channel \in ChannelTable, NEW k \in Channels, NEW x \in ChannelRecords,
         channel' = [channel EXCEPT ![k] = x],
         x.open => x.entry \in {"leased", "given"}, x.entry # "none" => x.of \in Sessions, x.entry # "idle"
  PROVE  /\ channel' \in ChannelTable /\ channel'[k] = x /\ \A c \in Channels : c # k => channel'[c] = channel[c]
         /\ ChannelsInHand' /\ PoolIsUsable(session, channel')
<1>1. /\ channel' \in ChannelTable /\ channel'[k] = x /\ \A c \in Channels : c # k => channel'[c] = channel[c]
  BY DEF ChannelTable
<1>2. OpenIsInHand' /\ ChannelHasSession'
  BY <1>1 DEF ChannelsInHand, OpenIsInHand, ChannelHasSession
<1>3. PoolIsUsable(session, channel')
  BY <1>1 DEF PoolIsUsable
<1>4. PoolIsBounded'
  <2> SUFFICES ASSUME NEW s \in Sessions PROVE Cardinality(Idlers(s)') <= MaxIdle
    BY DEF PoolIsBounded
  <2>1. Idlers(s)' \subseteq Idlers(s)
    BY <1>1 DEF Idlers
  <2> QED BY <2>1, FewerIdle DEF ChannelsInHand, PoolIsBounded
<1> QED BY <1>1, <1>2, <1>3, <1>4 DEF ChannelsInHand

(* The channel that comes back is the newest of the pool; when the pool is  *)
(* full, another one goes.                                                  *)
LEMMA OneMoreIdle ==
  ASSUME NEW s \in Sessions, Cardinality(Idlers(s)) <= MaxIdle, NEW D \in SUBSET Idlers(s), NEW c, c \notin Idlers(s),
         Idlers(s)' = (Idlers(s) \ D) \cup {c},
         \/ Cardinality(Idlers(s)) < MaxIdle
         \/ \E d : D = {d}
  PROVE  Cardinality(Idlers(s)') <= MaxIdle
<1> DEFINE A == Idlers(s)
<1> DEFINE B == A \ D
<1>1. IsFiniteSet(A) /\ c \notin A /\ D \subseteq A
  <2>1. \A t : IsFiniteSet(Idlers(t))
    BY IdlersFinite DEF Idlers
  <2> QED BY <2>1, Zenon
<1>2. Cardinality(A) <= MaxIdle /\ (Cardinality(A) < MaxIdle \/ \E d : D = {d})
  OBVIOUS
<1>3. Idlers(s)' = B \cup {c}
  OBVIOUS
<1> HIDE DEF A
<1>4. IsFiniteSet(B) /\ Cardinality(B) <= Cardinality(A) /\ c \notin B
  BY <1>1, FS_Subset
<1>5. Cardinality(A) \in Nat /\ Cardinality(B) \in Nat
  BY <1>1, <1>4, FS_CardinalityType
<1>6. Cardinality(B \cup {c}) = Cardinality(B) + 1
  BY <1>4, FS_AddElement
<1>7. CASE Cardinality(A) < MaxIdle
  BY <1>3, <1>4, <1>5, <1>6, <1>7, NoZero
<1>8. CASE \E d : D = {d}
  <2>1. PICK d : D = {d}
    BY <1>8
  <2>2. Cardinality(A \ {d}) = Cardinality(A) - 1
    BY <1>1, <2>1, FS_RemoveElement
  <2>3. Cardinality(B) = Cardinality(A) - 1
    BY <2>1, <2>2
  <2> HIDE DEF B
  <2>4. Cardinality(B \cup {c}) <= MaxIdle
    BY <1>2, <1>5, <1>6, <2>3, NoZero
  <2> QED BY <1>3, <2>4
<1> QED BY <1>2, <1>7, <1>8, Zenon

(* releaseSftpDirectoryChannel *)
LEMMA GivenBackInHand ==
  ASSUME LInv, NEW c \in Channels, channel[c].entry \in Held, NEW reusable, GivenBack(c, reusable)
  PROVE  /\ channel' \in ChannelTable /\ ChannelsInHand' /\ PoolIsUsable(session, channel')
         /\ channel'[c].entry \notin Held
         /\ \A k \in Channels : k # c =>
              channel'[k] = channel[k] \/ (channel[k].entry = "idle" /\ channel'[k].entry = "none")
<1>0. PICK s \in Sessions : s = channel[c].of
  BY DEF LInv, ChannelHasSession, Held
<1> DEFINE x == [channel[c] EXCEPT !.entry = "idle"]
<1>1. /\ channel \in ChannelTable /\ ChannelsInHand /\ PoolIsUsable(session, channel)
      /\ channel[c] \in ChannelRecords
  BY DEF LInv, ChannelsInHand, ChannelTable
<1>2. CASE channel' = [channel EXCEPT ![c] = NoChannel]
  BY <1>1, <1>2, OneInHand, NoChannelIs DEF Held
<1>3. x \in ChannelRecords /\ x.entry = "idle" /\ x.of = s /\ "idle" \notin Held
  BY <1>0, <1>1 DEF ChannelRecords, Entries, Held
<1>4. ASSUME current = s, session[s].status = "connected", NEW D \in SUBSET Idlers(s), channel' \in ChannelTable, channel'[c] = x,
             \A k \in D : channel'[k] = NoChannel, \A k \in Channels \ (D \cup {c}) : channel'[k] = channel[k],
             HasRoom(s) \/ \E d : D = {d}
      PROVE  /\ ChannelsInHand' /\ PoolIsUsable(session, channel')
             /\ channel'[c].entry \notin Held
             /\ \A k \in Channels : k # c =>
                  channel'[k] = channel[k] \/ (channel[k].entry = "idle" /\ channel'[k].entry = "none")
  <2> HIDE DEF x
  <2>1. Usable(session, s)
    BY <1>1, <1>4, NoZero DEF LInv, LiveHasClient, Usable
  <2>2. c \notin Idlers(s) /\ c \notin D /\ D \subseteq Channels
    BY DEF Idlers, Held
  <2>3. OpenIsInHand' /\ ChannelHasSession'
    BY <1>1, <1>3, <1>4, NoChannelIs DEF ChannelsInHand, OpenIsInHand, ChannelHasSession
  <2>4. PoolIsUsable(session, channel')
    <3> SUFFICES ASSUME NEW k \in Channels, channel'[k].entry = "idle" PROVE Usable(session, channel'[k].of)
      BY DEF PoolIsUsable
    <3>1. CASE k = c
      BY <1>3, <1>4, <2>1, <3>1
    <3>2. CASE k # c
      <4>1. channel'[k] = channel[k]
        BY <1>4, <3>2, NoChannelIs
      <4> QED BY <1>1, <4>1 DEF PoolIsUsable
    <3> QED BY <3>1, <3>2
  <2>5. \A k \in Channels : k # c => channel'[k] = channel[k] \/ (channel[k].entry = "idle" /\ channel'[k].entry = "none")
    BY <1>4, NoChannelIs DEF Idlers
  <2>6. PoolIsBounded'
    <3> SUFFICES ASSUME NEW t \in Sessions PROVE Cardinality(Idlers(t)') <= MaxIdle
      BY DEF PoolIsBounded
    <3>1. Cardinality(Idlers(t)) <= MaxIdle
      BY <1>1 DEF ChannelsInHand, PoolIsBounded
    <3>2. CASE t = s
      <4>1. Idlers(s)' = (Idlers(s) \ D) \cup {c}
        <5>1. Idlers(s)' = {k \in Channels : channel'[k].of = s /\ channel'[k].entry = "idle"}
          BY DEF Idlers
        <5>2. \A k \in Channels : channel'[k].of = s /\ channel'[k].entry = "idle" <=> k \in (Idlers(s) \ D) \cup {c}
          <6> TAKE k \in Channels
          <6>1. CASE k = c
            BY <1>3, <1>4, <6>1
          <6>2. CASE k \in D
            BY <1>4, <2>2, <6>2, NoChannelIs
          <6>3. CASE k # c /\ k \notin D
            BY <1>4, <6>3 DEF Idlers
          <6> QED BY <6>1, <6>2, <6>3
        <5>3. Idlers(s) \subseteq Channels
          BY DEF Idlers
        <5> QED BY <5>1, <5>2, <5>3
      <4>2. Cardinality(Idlers(s)) < MaxIdle \/ \E d : D = {d}
        BY <1>4 DEF HasRoom
      <4> QED BY <1>4, <2>2, <3>1, <3>2, <4>1, <4>2, OneMoreIdle
    <3>3. CASE t # s
      <4>1. Idlers(t)' \subseteq Idlers(t)
        BY <1>3, <1>4, <2>5, <3>3 DEF Idlers
      <4> QED BY <3>1, <4>1, FewerIdle
    <3> QED BY <3>2, <3>3
  <2> QED BY <1>3, <1>4, <2>3, <2>4, <2>5, <2>6 DEF ChannelsInHand
<1>5. CASE /\ current = s /\ session[s].status = "connected" /\ HasRoom(s)
           /\ channel' = [channel EXCEPT ![c] = [@ EXCEPT !.entry = "idle"]]
  <2>1. channel' = [channel EXCEPT ![c] = x]
    BY <1>5
  <2> HIDE DEF x
  <2>2. channel' \in ChannelTable /\ channel'[c] = x /\ \A k \in Channels \ ({} \cup {c}) : channel'[k] = channel[k]
    BY <1>1, <1>3, <2>1 DEF ChannelTable
  <2>3. {} \in SUBSET Idlers(s) /\ \A k \in {} : channel'[k] = NoChannel
    OBVIOUS
  <2> HIDE DEF x
  <2> QED BY <1>4, <1>5, <2>2, <2>3, Zenon
<1>6. CASE /\ current = s /\ session[s].status = "connected"
           /\ \E d \in Idlers(s) : channel' = [channel EXCEPT ![c].entry = "idle", ![d] = NoChannel]
  <2>1. PICK d \in Idlers(s) : channel' = [channel EXCEPT ![c].entry = "idle", ![d] = NoChannel]
    BY <1>6
  <2>2. channel' = [channel EXCEPT ![c] = x, ![d] = NoChannel]
    BY <2>1
  <2> HIDE DEF x
  <2>3. d \in Channels /\ d # c
    BY DEF Idlers, Held
  <2>4. /\ channel' \in ChannelTable /\ channel'[c] = x /\ channel'[d] = NoChannel
        /\ \A k \in Channels \ ({d} \cup {c}) : channel'[k] = channel[k]
    BY <1>1, <1>3, <2>2, <2>3, NoChannelIs DEF ChannelTable
  <2>5. {d} \in SUBSET Idlers(s)
    OBVIOUS
  <2> QED BY <1>4, <1>6, <2>4, <2>5
<1>7. \/ channel' = [channel EXCEPT ![c] = NoChannel]
      \/ /\ current = s /\ session[s].status = "connected" /\ HasRoom(s)
         /\ channel' = [channel EXCEPT ![c] = [@ EXCEPT !.entry = "idle"]]
      \/ /\ current = s /\ session[s].status = "connected"
         /\ \E d \in Idlers(s) : channel' = [channel EXCEPT ![c].entry = "idle", ![d] = NoChannel]
  BY <1>0 DEF GivenBack
<1> QED BY <1>2, <1>5, <1>6, <1>7

-----------------------------------------------------------------------------
(* The steps of a request that has, takes or leaves a channel. *)

(* The session stays as it is. *)
LEMMA SameSessionInv ==
  ASSUME LInv, UNCHANGED <<current, session, made>>, request' \in RequestTable, channel' \in ChannelTable,
         ChannelsInHand', PoolIsUsable(session, channel'), Owned'
  PROVE  LInv'
<1>1. PInv'
  BY DEF LInv, PInv
<1>2. ClientIsOpen(session)' /\ LiveHasClient(session, current)' /\ PoolIsUsable(session, channel)'
  BY DEF LInv
<1> QED BY <1>1, <1>2 DEF LInv, ChannelsInHand

(* Request q and the channel k become r and x. *)
LEMMA OneStepInv ==
  ASSUME LInv, UNCHANGED <<current, session, made>>, NEW q \in Requests, NEW r \in RequestRecords,
         NEW k \in Channels, NEW x \in ChannelRecords,
         request' = [request EXCEPT ![q] = r], channel' = [channel EXCEPT ![k] = x],
         \A t \in Requests : t # q /\ Active(t) => request[t].ch # k,
         Active(q) => request[q].ch = k,
         x.open => x.entry \in {"leased", "given"}, x.entry # "none" => x.of \in Sessions, x.entry # "idle",
         r.pc \in {"opening", "holding"} => r.ch = k,
         r.pc = "opening" => x.entry = "opening",
         r.pc = "holding" <=> x.entry \in Held
  PROVE  LInv'
<1>1. request' \in RequestTable /\ request'[q] = r /\ \A t \in Requests : t # q => request'[t] = request[t]
  BY PutRequest DEF LInv
<1>2. /\ channel' \in ChannelTable /\ channel'[k] = x /\ \A c \in Channels : c # k => channel'[c] = channel[c]
      /\ ChannelsInHand' /\ PoolIsUsable(session, channel')
  BY OneInHand DEF LInv, ChannelsInHand
<1>3. Owned'
  <2>1. Active(q)' => request'[q].ch = k
    BY <1>1 DEF Active
  <2> QED BY <1>1, <1>2, <2>1, OneOwned DEF LInv
<1> QED BY <1>1, <1>2, <1>3, SameSessionInv

LEMMA LeaseIdleInv ==
  ASSUME LInv, NEW q \in Requests, LeaseIdle(q)
  PROVE  LInv'
<1>1. PICK c \in Channels :
        /\ channel[c].of = current /\ channel[c].entry = "idle"
        /\ channel' = [channel EXCEPT ![c].entry = "leased"]
        /\ request' = [request EXCEPT ![q].pc = "holding", ![q].ch = c]
  BY DEF LeaseIdle
<1> DEFINE x == [channel[c] EXCEPT !.entry = "leased"]
<1> DEFINE r == [request[q] EXCEPT !.pc = "holding", !.ch = c]
<1>2. channel[c] \in ChannelRecords /\ request[q] \in RequestRecords /\ channel[c].of \in Sessions /\ request[q].pc = "told"
  BY <1>1 DEF LInv, ChannelTable, RequestTable, ChannelHasSession, LeaseIdle
<1>3. x \in ChannelRecords /\ x.entry = "leased" /\ x.of = channel[c].of
  BY <1>2 DEF ChannelRecords, Entries, Held
<1>4. r \in RequestRecords /\ r.pc = "holding" /\ r.ch = c
  BY <1>2 DEF RequestRecords
<1>5. channel' = [channel EXCEPT ![c] = x] /\ request' = [request EXCEPT ![q] = r]
  BY <1>1
<1>6. \A t \in Requests : Active(t) => request[t].ch # c
  BY <1>1, FreeChannel DEF LInv, Held
<1>7. ~Active(q) /\ UNCHANGED <<current, session, made>>
  BY <1>2 DEF Active, LeaseIdle
<1> HIDE DEF x, r
<1> QED BY <1>2, <1>3, <1>4, <1>5, <1>6, <1>7, OneStepInv, ZenonT(40) DEF Held

LEMMA OpenChannelInv ==
  ASSUME LInv, NEW q \in Requests, OpenChannel(q)
  PROVE  LInv'
<1>1. PICK c \in Channels :
        /\ Fresh(c)
        /\ channel' = [channel EXCEPT ![c] = [entry |-> "opening", open |-> FALSE, of |-> current]]
        /\ request' = [request EXCEPT ![q].pc = "opening", ![q].ch = c]
  BY DEF OpenChannel
<1> DEFINE x == [entry |-> "opening", open |-> FALSE, of |-> current]
<1> DEFINE r == [request[q] EXCEPT !.pc = "opening", !.ch = c]
<1>2. request[q] \in RequestRecords /\ current \in Sessions /\ request[q].pc = "told" /\ channel[c].entry = "none"
  BY <1>1, CurrentIs, NoChannelIs DEF LInv, RequestTable, OpenChannel, Usable, Fresh
<1>3. x \in ChannelRecords /\ x.entry = "opening" /\ ~x.open /\ x.of = current
  BY <1>2 DEF ChannelRecords, Entries
<1>4. r \in RequestRecords /\ r.pc = "opening" /\ r.ch = c
  BY <1>2 DEF RequestRecords
<1>5. channel' = [channel EXCEPT ![c] = x] /\ request' = [request EXCEPT ![q] = r]
  BY <1>1
<1>6. \A t \in Requests : Active(t) => request[t].ch # c
  BY <1>2, FreeChannel DEF LInv, Held
<1>7. ~Active(q) /\ UNCHANGED <<current, session, made>>
  BY <1>2 DEF Active, OpenChannel
<1> HIDE DEF x, r
<1>8. /\ x.open => x.entry \in {"leased", "given"}
      /\ x.entry # "none" => x.of \in Sessions
      /\ x.entry # "idle"
      /\ r.pc \in {"opening", "holding"} => r.ch = c
      /\ r.pc = "opening" => x.entry = "opening"
      /\ r.pc = "holding" <=> x.entry \in Held
  BY <1>2, <1>3, <1>4 DEF Held
<1> QED BY <1>3, <1>4, <1>5, <1>6, <1>7, <1>8, OneStepInv, ZenonT(40)

(* The channel a request has is let go, and the request ends, or goes on as *)
(* one that has none.                                                       *)
LEMMA LetGoInv ==
  ASSUME LInv, UNCHANGED <<current, session, made>>, NEW q \in Requests, request[q].pc = "opening",
         NEW x \in ChannelRecords, channel' = [channel EXCEPT ![request[q].ch] = x],
         x.entry \in {"none", "late"}, ~x.open, x.entry # "none" => x.of \in Sessions,
         NEW r \in RequestRecords, request' = [request EXCEPT ![q] = r], r.pc \in Passive
  PROVE  LInv'
<1>1. /\ request[q].ch \in Channels /\ Active(q)
      /\ \A t \in Requests : t # q /\ Active(t) => request[t].ch # request[q].ch
  BY OwnChannel DEF LInv, Active
<1>2. PICK k \in Channels : k = request[q].ch
  BY <1>1
<1>3. /\ r.pc \notin {"opening", "holding"} /\ x.entry \notin Held /\ x.entry # "idle"
      /\ channel' = [channel EXCEPT ![k] = x]
  BY <1>2 DEF Passive, Held
<1>4. /\ \A t \in Requests : t # q /\ Active(t) => request[t].ch # k
      /\ Active(q) => request[q].ch = k
  BY <1>1, <1>2
<1>5. /\ x.open => x.entry \in {"leased", "given"}
      /\ x.entry # "none" => x.of \in Sessions
      /\ x.entry # "idle"
      /\ r.pc \in {"opening", "holding"} => r.ch = k
      /\ r.pc = "opening" => x.entry = "opening"
      /\ r.pc = "holding" <=> x.entry \in Held
  BY <1>3
<1> QED BY <1>3, <1>4, <1>5, OneStepInv, Zenon

LEMMA ChannelOpenedInv ==
  ASSUME LInv, NEW q \in Requests, ChannelOpened(q)
  PROVE  LInv'
<1> DEFINE c == request[q].ch
<1>1. /\ request[q].pc = "opening" /\ UNCHANGED <<current, session, made>>
      /\ \/ channel' = [channel EXCEPT ![c] = NoChannel] /\ Ends(q)
         \/ \E e \in {"given", "leased"} :
              /\ channel' = [channel EXCEPT ![c] = [@ EXCEPT !.entry = e, !.open = TRUE]]
              /\ request' = [request EXCEPT ![q].pc = "holding"]
  BY DEF ChannelOpened, LateEnded
<1>2. /\ c \in Channels /\ Active(q) /\ channel[c].entry = "opening"
      /\ \A t \in Requests : t # q /\ Active(t) => request[t].ch # c
  BY <1>1, OwnChannel DEF LInv, Active, Owned, ActiveHasChannel
<1>3. CASE channel' = [channel EXCEPT ![c] = NoChannel] /\ Ends(q)
  BY <1>1, <1>3, LetGoInv, NoRequestIs, NoChannelIs DEF Ends, Passive
<1>4. CASE \E e \in {"given", "leased"} :
             /\ channel' = [channel EXCEPT ![c] = [@ EXCEPT !.entry = e, !.open = TRUE]]
             /\ request' = [request EXCEPT ![q].pc = "holding"]
  <2>1. PICK e \in {"given", "leased"} :
             /\ channel' = [channel EXCEPT ![c] = [@ EXCEPT !.entry = e, !.open = TRUE]]
             /\ request' = [request EXCEPT ![q].pc = "holding"]
    BY <1>4
  <2>2. PICK k \in Channels : k = c
    BY <1>2
  <2> DEFINE x == [channel[k] EXCEPT !.entry = e, !.open = TRUE]
  <2> DEFINE r == [request[q] EXCEPT !.pc = "holding"]
  <2>3. channel[k] \in ChannelRecords /\ request[q] \in RequestRecords /\ channel[k].of \in Sessions
    BY <1>2, <2>2 DEF LInv, ChannelTable, RequestTable, ChannelHasSession
  <2>4. x \in ChannelRecords /\ x.entry = e /\ x.of = channel[k].of
    BY <2>3 DEF ChannelRecords, Entries, Held
  <2>5. r \in RequestRecords /\ r.pc = "holding" /\ r.ch = k
    BY <2>2, <2>3 DEF RequestRecords
  <2>6. channel' = [channel EXCEPT ![k] = x] /\ request' = [request EXCEPT ![q] = r]
    BY <2>1, <2>2
  <2>7. \A t \in Requests : t # q /\ Active(t) => request[t].ch # k
    BY <1>2, <2>2
  <2>8. x.entry \in {"given", "leased"} /\ Active(q) /\ request[q].ch = k
    BY <1>2, <2>2, <2>4
  <2> HIDE DEF x, r, c
  <2>9. /\ x.open => x.entry \in {"leased", "given"}
        /\ x.entry # "none" => x.of \in Sessions
        /\ x.entry # "idle"
        /\ r.pc \in {"opening", "holding"} => r.ch = k
        /\ r.pc = "opening" => x.entry = "opening"
        /\ r.pc = "holding" <=> x.entry \in Held
    BY <2>3, <2>4, <2>5, <2>8 DEF Held
  <2>10. Active(q) => request[q].ch = k
    BY <2>8
  <2> QED BY <1>1, <2>4, <2>5, <2>6, <2>7, <2>9, <2>10, OneStepInv, Zenon
<1> QED BY <1>1, <1>3, <1>4

LEMMA ChannelRefusedInv ==
  ASSUME LInv, NEW q \in Requests, ChannelRefused(q)
  PROVE  LInv'
<1> DEFINE r == [request[q] EXCEPT !.pc = "refused", !.ch = 0]
<1>1. /\ request[q].pc = "opening" /\ UNCHANGED <<current, session, made>>
      /\ channel' = [channel EXCEPT ![request[q].ch] = NoChannel]
      /\ request' = [request EXCEPT ![q] = r]
  BY DEF ChannelRefused
<1>2. r \in RequestRecords /\ r.pc \in Passive
  BY DEF LInv, RequestTable, RequestRecords, Passive
<1> HIDE DEF r
<1> QED BY <1>1, <1>2, LetGoInv, NoChannelIs

(* The end of a request that has its channel. *)
LEMMA GiveBackInv ==
  ASSUME LInv, UNCHANGED <<current, session, made>>, NEW q \in Requests, request[q].pc = "holding",
         NEW ok, GivenBack(request[q].ch, ok), Ends(q)
  PROVE  LInv'
<1>1. /\ request[q].ch \in Channels /\ Active(q) /\ channel[request[q].ch].entry \in Held
      /\ \A t \in Requests : t # q /\ Active(t) => request[t].ch # request[q].ch
  BY OwnChannel DEF LInv, Active, Owned, ActiveHasChannel
<1>2. PICK k \in Channels : k = request[q].ch
  BY <1>1
<1>3. /\ channel' \in ChannelTable /\ ChannelsInHand' /\ PoolIsUsable(session, channel')
      /\ channel'[k].entry \notin Held
      /\ \A c \in Channels : c # k => channel'[c] = channel[c] \/ (channel[c].entry = "idle" /\ channel'[c].entry = "none")
  BY <1>1, <1>2, GivenBackInHand
<1>4. /\ request' \in RequestTable /\ request'[q].pc = "none" /\ \A t \in Requests : t # q => request'[t] = request[t]
  BY NoRequestIs, PutRequest DEF Ends, LInv
<1>5. Owned'
  <2>1. \A c \in Channels : c # k =>
           \/ channel'[c] = channel[c]
           \/ channel[c].entry \notin Held \cup {"opening"} /\ channel'[c].entry \notin Held
    BY <1>3 DEF Held
  <2>2. ~Active(q)'
    BY <1>4 DEF Active
  <2> QED BY <1>1, <1>2, <1>3, <1>4, <2>1, <2>2, OneOwned DEF LInv
<1> QED BY <1>3, <1>4, <1>5, SameSessionInv

LEMMA AbortInv ==
  ASSUME LInv, NEW q \in Requests, Abort(q)
  PROVE  LInv'
<1>1. UNCHANGED <<current, session, made>> /\ request[q] \in RequestRecords
  BY DEF Abort, LInv, RequestTable
<1>2. CASE request[q].pc = "opening" /\ request' = [request EXCEPT ![q].killed = TRUE] /\ UNCHANGED channel
  <2> DEFINE r == [request[q] EXCEPT !.killed = TRUE]
  <2>1. r \in RequestRecords /\ r.pc = "opening" /\ r.ch = request[q].ch
    BY <1>1, <1>2 DEF RequestRecords
  <2>2. request' = [request EXCEPT ![q] = r]
    BY <1>2
  <2> HIDE DEF r
  <2>3. /\ request' \in RequestTable
        /\ \A t \in Requests : request'[t].pc = request[t].pc /\ request'[t].ch = request[t].ch
    BY <1>2, <2>1, <2>2, PutRequest, ZenonT(40) DEF LInv
  <2>4. ActiveHasChannel' /\ ChannelsAreApart' /\ HeldHasHolder'
    BY <1>2, <2>3 DEF LInv, Owned, ActiveHasChannel, ChannelsAreApart, HeldHasHolder, Active
  <2>5. ChannelsInHand' /\ PoolIsUsable(session, channel') /\ channel' \in ChannelTable
    BY <1>2 DEF LInv, ChannelsInHand, OpenIsInHand, ChannelHasSession, PoolIsBounded, Idlers
  <2> QED BY <1>1, <2>3, <2>4, <2>5, SameSessionInv DEF Owned
<1>3. CASE request[q].pc = "waiting" /\ (request' = [request EXCEPT ![q].killed = TRUE] \/ Ends(q)) /\ UNCHANGED channel
  <2> DEFINE r == [request[q] EXCEPT !.killed = TRUE]
  <2>1. r \in RequestRecords /\ r.pc = "waiting"
    BY <1>1, <1>3 DEF RequestRecords
  <2>2. request' = [request EXCEPT ![q] = r] \/ request' = [request EXCEPT ![q] = NoRequest]
    BY <1>3 DEF Ends
  <2> HIDE DEF r
  <2>3. /\ request' \in RequestTable
        /\ \A t \in Requests : request'[t] = request[t] \/ (request[t].pc \in Passive /\ request'[t].pc \in Passive)
    <3>1. "waiting" \in Passive /\ "none" \in Passive /\ request[q].pc \in Passive
      BY <1>3 DEF Passive
    <3>2. CASE request' = [request EXCEPT ![q] = r]
      BY <2>1, <3>1, <3>2, PutRequest DEF LInv
    <3>3. CASE request' = [request EXCEPT ![q] = NoRequest]
      BY <3>1, <3>3, PutRequest, NoRequestIs DEF LInv
    <3> QED BY <2>2, <3>2, <3>3
  <2>4. PInv' /\ Sound(session', current') /\ PoolIsUsable(session', channel') /\ Shrinks(Loose, channel, channel')
    BY <1>1, <1>3, ShrinksSelf DEF LInv, PInv, Sound
  <2> QED BY <2>3, <2>4, SettledInv
<1>4. CASE request[q].pc = "opening" /\ channel' = [channel EXCEPT ![request[q].ch].entry = "late"] /\ Ends(q)
  <2> DEFINE x == [channel[request[q].ch] EXCEPT !.entry = "late"]
  <2>1. /\ request[q].ch \in Channels /\ channel[request[q].ch].entry = "opening"
    BY <1>4 DEF LInv, Owned, ActiveHasChannel, Active
  <2>2. /\ channel[request[q].ch] \in ChannelRecords /\ ~channel[request[q].ch].open /\ channel[request[q].ch].of \in Sessions
    BY <2>1 DEF LInv, ChannelTable, OpenIsInHand, ChannelHasSession
  <2>3. x \in ChannelRecords /\ x.entry = "late" /\ ~x.open /\ x.of \in Sessions
    BY <2>2 DEF ChannelRecords, Entries
  <2>4. channel' = [channel EXCEPT ![request[q].ch] = x]
    BY <1>4
  <2> HIDE DEF x
  <2> QED BY <1>1, <1>4, <2>3, <2>4, LetGoInv, NoRequestIs DEF Ends, Passive
<1>5. CASE request[q].pc = "holding" /\ GivenBack(request[q].ch, FALSE) /\ Ends(q)
  BY <1>1, <1>5, GiveBackInv
<1>6. \/ request[q].pc \in {"waiting", "opening"} /\ request' = [request EXCEPT ![q].killed = TRUE] /\ UNCHANGED channel
      \/ request[q].pc = "waiting" /\ Ends(q) /\ UNCHANGED channel
      \/ request[q].pc = "opening" /\ channel' = [channel EXCEPT ![request[q].ch].entry = "late"] /\ Ends(q)
      \/ request[q].pc = "holding" /\ GivenBack(request[q].ch, FALSE) /\ Ends(q)
  BY DEF Abort
<1> QED BY <1>2, <1>3, <1>4, <1>5, <1>6

-----------------------------------------------------------------------------
(* The other steps. *)

LEMMA LInit == PInit => LInv
<1> SUFFICES ASSUME PInit PROVE LInv
  OBVIOUS
<1>1. /\ channel = [c \in Channels |-> NoChannel] /\ request = [q \in Requests |-> NoRequest] /\ current = 0
      /\ session = [s \in Sessions |-> NoSession] /\ ~NoSession.client
  BY DEF PInit, NoSession
<1>2. channel \in ChannelTable /\ request \in RequestTable
  BY <1>1, NoChannelIs, NoRequestIs DEF ChannelTable, RequestTable
<1>3. \A c \in Channels : channel[c].entry = "none" /\ ~channel[c].open
  BY <1>1, NoChannelIs
<1>4. PoolIsUsable(session, channel) /\ OpenIsInHand /\ ChannelHasSession
  BY <1>3 DEF PoolIsUsable, OpenIsInHand, ChannelHasSession
<1>5. PoolIsBounded
  <2> SUFFICES ASSUME NEW s \in Sessions PROVE Cardinality(Idlers(s)) <= MaxIdle
    BY DEF PoolIsBounded
  <2>1. Idlers(s) = {}
    BY <1>3 DEF Idlers
  <2>2. Cardinality({}) = 0
    BY FS_EmptySet
  <2> QED BY <2>1, <2>2, NoZero
<1>6. Owned
  BY <1>1, <1>3, NoRequestIs DEF Owned, ActiveHasChannel, ChannelsAreApart, HeldHasHolder, Active, Held
<1>7. ClientIsOpen(session) /\ LiveHasClient(session, current)
  BY <1>1 DEF ClientIsOpen, LiveHasClient
<1> QED BY <1>2, <1>4, <1>5, <1>6, <1>7, PInitInv DEF LInv

LEMMA AskInv ==
  ASSUME LInv, PInv', NEW q \in Requests, Ask(q) \/ Refused(q) \/ ToldTooLate(q) \/ ToldEnough(q)
  PROVE  LInv'
<1>0. SoundSession /\ channel \in ChannelTable /\ PInv /\ request \in RequestTable /\ request[q] \in RequestRecords
  BY LInvSound DEF LInv, RequestTable
<1> DEFINE Other == \A t \in Requests : request'[t] = request[t] \/ (request[t].pc \in Passive /\ request'[t].pc \in Passive)
<1>1. CASE Ask(q)
  <2>1. PICK k \in Kinds : Connects(q, [NoRequest EXCEPT !.kind = k, !.try = 1], session, channel)
    BY <1>1 DEF Ask
  <2> DEFINE r == [NoRequest EXCEPT !.kind = k, !.try = 1]
  <2>2. r \in RequestRecords
    BY NoRequestIs
  <2>3. Connects(q, r, session, channel)
    BY <2>1
  <2> HIDE DEF r
  <2>4. Sound(session', current') /\ PoolIsUsable(session', channel') /\ Shrinks(Loose, channel, channel')
    BY <1>0, <2>3, ConnectsSound, ShrinksSelf DEF SoundSession
  <2>5. Awaits(q, r)
    BY <1>0, <2>3, ConnectsAwaits
  <2>6. request' \in RequestTable /\ Other
    BY <1>0, <1>1, <2>2, <2>5, AwaitsPassive DEF Ask, Passive
  <2> QED BY <2>4, <2>6, SettledInv
<1>2. CASE Refused(q)
  <2>1. /\ Sound(session', current') /\ PoolIsUsable(session', channel') /\ Shrinks(Loose, channel, channel')
        /\ Ends(q) \/ Awaits(q, SecondTry(q))
    BY <1>0, <1>2, RefusedSound
  <2>2. request[q].pc \in Passive
    BY <1>2 DEF Refused, Passive
  <2>3. SecondTry(q) \in RequestRecords
    <3>1. request[q].kind \in Kinds
      BY <1>0 DEF RequestRecords
    <3> QED BY <3>1, NoRequestIs DEF SecondTry
  <2>4. request' \in RequestTable /\ Other
    BY <1>0, <2>1, <2>2, <2>3, EndsPassive, AwaitsPassive
  <2> QED BY <2>1, <2>4, SettledInv
<1>3. CASE ToldTooLate(q) \/ ToldEnough(q)
  <2>1. UNCHANGED <<current, session, channel>> /\ request[q].pc \in Passive
    BY <1>3 DEF ToldTooLate, ToldEnough, Passive
  <2>2. PoolIsUsable(session', channel') /\ Sound(session', current') /\ Shrinks(Loose, channel, channel')
    BY <1>0, <2>1, ShrinksSelf DEF SoundSession
  <2>3. request' \in RequestTable /\ Other
    <3>1. CASE Ends(q)
      BY <1>0, <2>1, <3>1, EndsPassive
    <3>2. CASE request' = [request EXCEPT ![q].pc = "refused"]
      <4> DEFINE r == [request[q] EXCEPT !.pc = "refused"]
      <4>1. r \in RequestRecords /\ r.pc \in Passive
        BY <1>0 DEF RequestRecords, Passive
      <4>2. request' = [request EXCEPT ![q] = r]
        BY <3>2
      <4> HIDE DEF r
      <4> QED BY <1>0, <2>1, <4>1, <4>2, PutRequest
    <3> QED BY <1>3, <3>1, <3>2 DEF ToldTooLate, ToldEnough
  <2> QED BY <2>2, <2>3, SettledInv
<1> QED BY <1>1, <1>2, <1>3

LEMMA SessionInv ==
  ASSUME LInv, PInv', \/ \E s \in Sessions : Dialled(s) \/ DialFails(s) \/ ClientDrops(s)
                      \/ Disconnect \/ CloseAll \/ EditConnection
  PROVE  LInv'
<1>0. SoundSession /\ channel \in ChannelTable /\ request \in RequestTable
  BY LInvSound DEF LInv
<1> DEFINE Other == \A t \in Requests : request'[t] = request[t] \/ (request[t].pc \in Passive /\ request'[t].pc \in Passive)
<1>1. ASSUME NEW s \in Sessions, Dialled(s) \/ DialFails(s)
      PROVE  LInv'
  <2>1. Sound(session', current') /\ PoolIsUsable(session', channel') /\ channel' = channel
    BY <1>0, <1>1, DialSound
  <2>2. Tell(s, "told") \/ Tell(s, "refused")
    BY <1>1 DEF Dialled, DialFails
  <2>3. request' \in RequestTable /\ Other
    BY <1>0, <2>2, TellPassive
  <2> QED BY <1>0, <2>1, <2>3, ShrinksSelf, SettledInv
<1>2. ASSUME (\E s \in Sessions : ClientDrops(s)) \/ Disconnect \/ CloseAll \/ EditConnection
      PROVE  LInv'
  <2>1. Sound(session', current') /\ PoolIsUsable(session', channel') /\ Shrinks(Loose, channel, channel')
    BY <1>0, <1>2, DropSound, UserSound
  <2>2. request' = request
    BY <1>2 DEF ClientDrops, Disconnect, CloseAll, EditConnection
  <2> QED BY <1>0, <2>1, <2>2, SettledInv
<1> QED BY <1>1, <1>2

LEMMA ClientClosesInv ==
  ASSUME LInv, PInv', NEW s \in Sessions, ClientCloses(s)
  PROVE  LInv'
<1> DEFINE refused(q) == [request[q] EXCEPT !.pc = "refused", !.ch = 0]
<1> DEFINE hit(q) == request[q].pc = "opening" /\ channel[request[q].ch].of = s
<1>0. SoundSession /\ channel \in ChannelTable /\ request \in RequestTable
  BY LInvSound DEF LInv
<1>1. /\ Sound(session', current') /\ PoolIsUsable(session', channel')
      /\ Shrinks(Loose \cup {"opening", "none"}, channel, channel')
      /\ \A c \in Channels : channel[c].of # s => channel'[c] = channel[c]
  BY <1>0, CloseSound
<1>2. request' = [q \in Requests |-> IF hit(q) THEN refused(q) ELSE request[q]]
  BY DEF ClientCloses
<1>3. \A q \in Requests : refused(q) \in RequestRecords /\ refused(q).pc = "refused"
  BY <1>0 DEF RequestTable, RequestRecords
<1> HIDE DEF refused
<1>4. request' \in RequestTable
  BY <1>0, <1>2, <1>3 DEF RequestTable
<1>5. Continues
  <2> SUFFICES ASSUME NEW q \in Requests
               PROVE  /\ request[q].pc = "holding" => request'[q].pc = "holding" /\ request'[q].ch = request[q].ch
                      /\ Active(q)' => request'[q].pc = request[q].pc /\ request'[q].ch = request[q].ch
                      /\ request'[q].pc = "opening" => channel'[request[q].ch] = channel[request[q].ch]
    BY DEF Continues
  <2>1. CASE hit(q)
    <3>1. request'[q].pc = "refused" /\ request[q].pc = "opening"
      BY <1>2, <1>3, <2>1
    <3> QED BY <3>1 DEF Active
  <2>2. CASE ~hit(q)
    <3>1. request'[q] = request[q]
      BY <1>2, <2>2
    <3>2. request[q].pc = "opening" => request[q].ch \in Channels /\ channel[request[q].ch].of # s
      BY <2>2 DEF LInv, Owned, ActiveHasChannel, Active
    <3> QED BY <1>1, <3>1, <3>2
  <2> QED BY <2>1, <2>2
<1>6. Owned'
  <2>1. (Loose \cup {"opening", "none"}) \cap Held = {}
    BY DEF Loose, Held
  <2> QED BY <1>1, <1>5, <2>1, ShrinksOwned DEF LInv
<1>7. ChannelsInHand'
  <2>1. "idle" \in Loose \cup {"opening", "none"}
    BY DEF Loose
  <2> QED BY <1>1, <2>1, ShrinksInHand DEF LInv, ChannelsInHand
<1>8. channel' \in ChannelTable
  BY <1>1 DEF Shrinks
<1> QED BY <1>1, <1>4, <1>6, <1>7, <1>8 DEF LInv, ChannelsInHand, Sound

LEMMA ChannelStepInv ==
  ASSUME LInv, PInv', NEW c \in Channels, LateChannel(c) \/ IdleTimeout(c) \/ ChannelCloses(c)
  PROVE  LInv'
<1>0. SoundSession /\ channel \in ChannelTable /\ UNCHANGED <<current, session, request>> /\ channel[c] \in ChannelRecords
  BY LInvSound DEF LInv, LateChannel, IdleTimeout, ChannelCloses, ChannelTable
<1> DEFINE closed == [channel[c] EXCEPT !.entry = "closed", !.open = FALSE]
<1>1. \/ channel' = [channel EXCEPT ![c] = NoChannel] /\ channel[c].entry \in Loose
      \/ channel' = [channel EXCEPT ![c] = closed] /\ channel[c].entry \in Held
  <2>1. channel[c].open => channel[c].entry \in {"leased", "given", "idle"}
    BY DEF LInv, OpenIsInHand
  <2> QED BY <2>1 DEF LateChannel, LateEnded, IdleTimeout, ChannelCloses, Loose, Held
<1>2. closed \in ChannelRecords /\ closed.entry = "closed" /\ ~closed.open /\ closed.of = channel[c].of
  BY <1>0, ClosedIs
<1> HIDE DEF closed
<1>3. Shrinks(Loose, channel, channel')
  BY <1>0, <1>1, <1>2, NoChannelIs DEF Shrinks, ChannelTable
<1>4. \A k \in Channels : channel'[k].entry = "idle" => channel'[k] = channel[k]
  BY <1>3, ShrinksInHand DEF LInv, ChannelsInHand, Loose
<1>5. PoolIsUsable(session', channel')
  BY <1>0, <1>4 DEF SoundSession, PoolIsUsable
<1>6. Sound(session', current') /\ request' \in RequestTable /\ \A t \in Requests : request'[t] = request[t]
  BY <1>0 DEF SoundSession, LInv
<1> QED BY <1>3, <1>5, <1>6, SettledInv

LEMMA LNext == LInv /\ [PNext]_pvars => LInv'
<1> SUFFICES ASSUME LInv, [PNext]_pvars PROVE LInv'
  OBVIOUS
<1>1. PInv'
  BY PNextInv DEF LInv
<1>2. ASSUME NEW q \in Requests, Ask(q) \/ RequestStep(q) \/ Abort(q)
      PROVE  LInv'
  <2>1. CASE Finish(q)
    <3>1. PICK ok \in BOOLEAN : GivenBack(request[q].ch, ok)
      BY <2>1 DEF Finish
    <3> QED BY <2>1, <3>1, GiveBackInv DEF Finish
  <2> QED BY <1>1, <1>2, <2>1, AskInv, LeaseIdleInv, OpenChannelInv, ChannelOpenedInv, ChannelRefusedInv, AbortInv DEF RequestStep
<1>3. CASE UNCHANGED pvars
  <2>1. /\ UNCHANGED <<current, session, channel, request, made>>
    BY <1>3 DEF pvars
  <2>2. Sound(session', current') /\ PoolIsUsable(session', channel') /\ Shrinks(Loose, channel, channel')
        /\ request' \in RequestTable
    BY <2>1, ShrinksSelf DEF LInv, PInv, Sound
  <2> QED BY <1>1, <2>1, <2>2, SettledInv
<1> QED BY <1>1, <1>2, <1>3, SessionInv, ClientClosesInv, ChannelStepInv DEF PNext, ClientStep

(* However listings, transfers and commands, aborts, reconnections and      *)
(* disconnections interleave, no channel is lost: one that is open at the   *)
(* server is in the hands of exactly one request, or idle in the pool of    *)
(* the connected session, which never holds more than MaxIdle               *)
(* (releaseSftpDirectoryChannel, closeSftpDirectoryChannels).               *)
THEOREM NoChannelIsLost == PSafety => []NoLostChannel
<1>1. LInv => NoLostChannel
  <2> SUFFICES ASSUME LInv, NEW c \in Channels
               PROVE  /\ channel[c].open => channel[c].entry \in {"leased", "given", "idle"}
                      /\ channel[c].entry = "idle" => Usable(session, channel[c].of) /\ channel[c].of = current
                      /\ channel[c].entry \in {"leased", "given", "closed"} =>
                           Cardinality({q \in Requests : request[q].pc \in {"opening", "holding"} /\ request[q].ch = c}) = 1
                      /\ Cardinality(Idlers(channel[c].of)) <= MaxIdle
    BY DEF NoLostChannel
  <2>1. channel[c].of \in Sessions \cup {0}
    BY DEF LInv, ChannelTable, ChannelRecords
  <2>2. channel[c].entry = "idle" => Usable(session, channel[c].of) /\ channel[c].of = current
    <3>1. SUFFICES ASSUME channel[c].entry = "idle" PROVE Usable(session, channel[c].of) /\ channel[c].of = current
      OBVIOUS
    <3>2. Usable(session, channel[c].of)
      BY <3>1 DEF LInv, PoolIsUsable
    <3>3. channel[c].of \in Sessions /\ session[channel[c].of].client
      BY <2>1, <3>2 DEF Usable
    <3> QED BY <3>2, <3>3, LInvSound, OnlyCurrentIsUsable DEF SoundSession
  <2>3. ASSUME channel[c].entry \in Held
        PROVE  Cardinality({q \in Requests : request[q].pc \in {"opening", "holding"} /\ request[q].ch = c}) = 1
    <3>1. PICK h \in Requests : request[h].pc = "holding" /\ request[h].ch = c
      BY <2>3 DEF LInv, Owned, HeldHasHolder
    <3>2. {q \in Requests : request[q].pc \in {"opening", "holding"} /\ request[q].ch = c} = {h}
      BY <3>1 DEF LInv, Owned, ChannelsAreApart, Active
    <3>3. Cardinality({h}) = 1
      BY FS_Singleton
    <3> QED BY <3>2, <3>3
  <2>4. Cardinality(Idlers(channel[c].of)) <= MaxIdle
    <3>1. CASE channel[c].of \in Sessions
      BY <3>1 DEF LInv, PoolIsBounded
    <3>2. CASE channel[c].of = 0
      <4>1. Idlers(0) = {}
        BY NoZero DEF LInv, ChannelHasSession, Idlers
      <4>2. Cardinality({}) = 0
        BY FS_EmptySet
      <4> QED BY <3>2, <4>1, <4>2, NoZero
    <3> QED BY <2>1, <3>1, <3>2
  <2> QED BY <2>2, <2>3, <2>4 DEF LInv, OpenIsInHand, Held
<1> QED BY <1>1, LInit, LNext, PTL DEF PSafety
=============================================================================
