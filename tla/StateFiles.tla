----------------------------- MODULE StateFiles -----------------------------
(***************************************************************************)
(* The files behind services/order_management_state_store.py and the       *)
(* account activation that reads them.  A save first copies the primary    *)
(* file to the backup, then writes the primary, each through a temporary   *)
(* file and os.replace; a load falls back to the backup and moves corrupt  *)
(* files out of the way.  Reading, moving and writing a file may each fail.*)
(* The process may die between any two steps, and while it is down a file  *)
(* may be damaged, deleted or replaced.                                    *)
(*                                                                         *)
(* The store's lock makes one save or load run at a time, so one sequence  *)
(* of steps is enough.  Other threads' saves while the account is being    *)
(* activated are in ManagedPosition.  Each account has one open position,  *)
(* which stays open; a document or the memory holds its state or nothing.  *)
(***************************************************************************)
EXTENDS Naturals

CONSTANTS
    Accounts,   \* broker accounts the terminal may be logged in to
    Nobody,     \* no account, no position
    MaxSaves    \* bound: saves the process may begin

ASSUME FilesAssumption == Nobody \notin Accounts /\ MaxSaves \in Nat

VARIABLES
    primary,    \* be_trailing_state.json
    backup,     \* be_trailing_state.json.bak
    account,    \* the account the terminal is logged in to
    active,     \* _active_account, and _loaded_account_fingerprint
    memory,     \* _states: whose position is tracked
    step,       \* where the process is; "down" when it does not run
    payload,    \* the document being saved, or Absent
    generation, \* the last saved_at_utc handed out
    acked,      \* the last document reported as SAVED
    ackedBefore,\* the generation reported as SAVED before that one
    harm,       \* damage since both files were good: none, one file, more
    stuck       \* a load left a damaged primary where it was, and nothing has
                \* been restored from a file or saved since

vars == <<primary, backup, account, active, memory, step, payload, generation,
          acked, ackedBefore, harm, stuck>>

Owners == Accounts \cup {Nobody}

Files == [kind : {"absent", "corrupt", "unsupported", "document"},
          account : Owners, positions : Owners, generation : Nat]

Unusable(kind) == [kind |-> kind, account |-> Nobody, positions |-> Nobody,
                   generation |-> 0]

Absent == Unusable("absent")

Document(a, positions, n) == [kind |-> "document", account |-> a,
                              positions |-> positions, generation |-> n]

Saving == {"saveBackup", "savePrimary"}

Steps == {"down", "idle", "load", "loadBackup"} \cup Saving

Init ==
    /\ primary = Absent /\ backup = Absent
    /\ account \in Accounts
    /\ active = Nobody /\ memory = Nobody
    /\ step = "down" /\ payload = Absent /\ generation = 0
    /\ acked = Absent /\ ackedBefore = 0
    /\ harm = 0 /\ stuck = FALSE

-----------------------------------------------------------------------------
(* Saving *)

(* _persist_state and save_sync up to the first write. *)
BeginSave ==
    /\ step = "idle" /\ active # Nobody
    /\ generation < MaxSaves
    /\ generation' = generation + 1
    /\ payload' = Document(active, memory, generation + 1)
    /\ step' = "saveBackup"
    /\ UNCHANGED <<primary, backup, account, active, memory, acked,
                   ackedBefore, harm, stuck>>

KeepBackup == IF primary = Absent THEN backup ELSE primary  \* mutant of NextBackup

(* The previous generation, or the first one twice. *)
NextBackup == IF primary = Absent THEN payload ELSE primary

WriteBackup ==
    /\ step = "saveBackup"
    /\ backup' = NextBackup
    /\ step' = "savePrimary"
    /\ UNCHANGED <<primary, account, active, memory, payload, generation,
                   acked, ackedBefore, harm, stuck>>

WritePrimary ==
    /\ step = "savePrimary"
    /\ primary' = payload
    /\ acked' = payload /\ ackedBefore' = acked.generation
    /\ harm' = IF backup.kind = "document" THEN 0 ELSE harm
    /\ step' = "idle" /\ payload' = Absent /\ stuck' = FALSE
    /\ UNCHANGED <<backup, account, active, memory, generation>>

InPlace(old, new) == {old, new, Unusable("corrupt")}  \* mutant of AtomicWrite

(* A write that fails or is cut off: os.replace has been done, or not. *)
AtomicWrite(old, new) == {old, new}

CutOff ==
    /\ backup' \in IF step = "saveBackup" THEN AtomicWrite(backup, NextBackup)
                   ELSE {backup}
    /\ primary' \in IF step = "savePrimary" THEN AtomicWrite(primary, payload)
                    ELSE {primary}
    /\ payload' = Absent
    /\ UNCHANGED <<account, generation, acked, ackedBefore, harm, stuck>>

(* OSError: IO_ERROR is reported, the service keeps what it has in memory. *)
SaveFails ==
    /\ step \in Saving
    /\ CutOff
    /\ step' = "idle"
    /\ UNCHANGED <<active, memory>>

-----------------------------------------------------------------------------
(* Activating an account: loading *)

(* _activate_account, for an account other than the loaded one. *)
Activate ==
    /\ step = "idle" /\ active # account
    /\ active' = account /\ memory' = Nobody
    /\ step' = "load"
    /\ UNCHANGED <<primary, backup, account, payload, generation, acked,
                   ackedBefore, harm, stuck>>

AnyAccount(file) == TRUE  \* mutant of OwnAccount

OwnAccount(file) == file.account = active

WholeDocument(file) == file  \* mutant of Restored

(* What the snapshot of a document of this account brings back. *)
Restored(file) == IF OwnAccount(file) THEN file.positions ELSE Nobody

(* _states.update: nothing restored leaves what was registered meanwhile. *)
Restore(restored) ==
    /\ memory' = IF restored = Nobody THEN memory ELSE restored
    /\ step' = "idle"
    /\ UNCHANGED <<primary, backup>>

Loading(at) ==
    /\ step = at
    /\ UNCHANGED <<account, active, payload, generation, acked, ackedBefore, harm>>

LoadDocument ==
    /\ Loading("load") /\ primary.kind = "document"
    /\ Restore(Restored(primary))
    /\ stuck' = FALSE

(* UNSUPPORTED_VERSION, or IO_ERROR: the file cannot be read, or is corrupt *)
(* and cannot be moved away.  It stays, and the service goes on without it. *)
LoadRefused ==
    /\ Loading("load") /\ primary.kind # "absent"
    /\ Restore(Nobody)
    /\ stuck' = (stuck \/ primary.kind = "corrupt")

LoadMissing ==
    /\ Loading("load") /\ primary.kind = "absent"
    /\ step' = IF backup.kind = "absent" THEN "idle" ELSE "loadBackup"
    /\ UNCHANGED <<primary, backup, memory, stuck>>

(* The file is moved; then the directory's fsync may fail, and the load ends *)
(* with IO_ERROR before it has looked at the backup.                        *)
QuarantinePrimary ==
    /\ Loading("load") /\ primary.kind = "corrupt"
    /\ primary' = Absent
    /\ step' \in {"loadBackup", "idle"}
    /\ UNCHANGED <<backup, memory, stuck>>

LoadBackup ==
    /\ Loading("loadBackup") /\ backup.kind = "document"
    /\ Restore(Restored(backup))
    /\ stuck' = FALSE

(* No backup, one of another version, one that cannot be read, or a corrupt *)
(* one that cannot be moved away.                                           *)
BackupRefused ==
    /\ Loading("loadBackup")
    /\ Restore(Nobody)
    /\ UNCHANGED stuck

QuarantineBackup ==
    /\ Loading("loadBackup") /\ backup.kind = "corrupt"
    /\ backup' = Absent
    /\ step' = "idle"
    /\ UNCHANGED <<primary, memory, stuck>>

-----------------------------------------------------------------------------
(* Commands, the terminal, the process and its files *)

(* register_position or unregister_position for the active account. *)
ChangeStates ==
    /\ step # "down" /\ active # Nobody
    /\ memory' \in {active, Nobody} \ {memory}
    /\ UNCHANGED <<primary, backup, account, active, step, payload, generation,
                   acked, ackedBefore, harm, stuck>>

SwitchAccount ==
    /\ account' \in Accounts \ {account}
    /\ UNCHANGED <<primary, backup, active, memory, step, payload, generation,
                   acked, ackedBefore, harm, stuck>>

Crash ==
    /\ step # "down"
    /\ CutOff
    /\ step' = "down" /\ active' = Nobody /\ memory' = Nobody

Start ==
    /\ step = "down" /\ step' = "idle"
    /\ UNCHANGED <<primary, backup, account, active, memory, payload,
                   generation, acked, ackedBefore, harm, stuck>>

(* One file is lost, garbled, or written by another version of the program. *)
Damage ==
    /\ step = "down"
    /\ \E kind \in {"absent", "corrupt", "unsupported"} :
         /\ \/ primary' = Unusable(kind) /\ UNCHANGED backup
            \/ backup' = Unusable(kind) /\ UNCHANGED primary
         /\ harm' = IF /\ harm = 0 /\ kind # "unsupported"
                       /\ primary.kind = "document" /\ backup.kind = "document"
                    THEN 1 ELSE 2
    /\ UNCHANGED <<account, active, memory, step, payload, generation, acked,
                   ackedBefore, stuck>>

-----------------------------------------------------------------------------

Load ==
    \/ LoadDocument \/ LoadRefused \/ LoadMissing \/ QuarantinePrimary
    \/ LoadBackup \/ BackupRefused \/ QuarantineBackup

Save == BeginSave \/ WriteBackup \/ WritePrimary \/ SaveFails

Next ==
    \/ Save \/ Activate \/ Load \/ ChangeStates
    \/ SwitchAccount \/ Crash \/ Start \/ Damage

Spec == Init /\ [][Next]_vars

-----------------------------------------------------------------------------
(* Properties *)

TypeOK ==
    /\ primary \in Files /\ backup \in Files /\ payload \in Files /\ acked \in Files
    /\ account \in Accounts /\ active \in Owners /\ memory \in Owners
    /\ step \in Steps
    /\ generation \in Nat /\ ackedBefore \in Nat
    /\ harm \in 0..2 /\ stuck \in BOOLEAN

(* What a load would find: a corrupt file counts as missing, a missing      *)
(* primary gives way to the backup.                                        *)
Found ==
    IF primary.kind \notin {"absent", "corrupt"} THEN primary
    ELSE IF backup.kind = "corrupt" THEN Absent
    ELSE backup

Register == INSTANCE StateRegister WITH
    Values <- Files, Nothing <- Absent,
    value <- Found, pending <- payload, acked <- acked, up <- step # "down",
    exposed <- stuck

(* The two files together are one durable register: backup, quarantine and  *)
(* recovery never show, whichever write fails and wherever the process dies,*)
(* and only a save after a load that left a damaged primary behind puts the *)
(* value at risk.                                                           *)
IsRegister == Register!Spec

(* Losing one of two good files costs one acknowledged save at most, unless *)
(* a load leaves the damaged primary where it is: the backup is never older *)
(* than the save acknowledged before the last.                              *)
LosesAtMostOneSave ==
    harm < 2 /\ ~stuck /\ acked # Absent =>
        Found.kind = "document" /\ Found.generation >= ackedBefore

(* The previous generation is kept in the backup file, and a corrupt file   *)
(* is never treated as an empty position set (order-management-contract.md, *)
(* section 7; the store's docstring): one damaged file costs one save.     *)
OneDamageOneSave ==
    harm < 2 /\ acked # Absent =>
        Found.kind = "document" /\ Found.generation >= ackedBefore

(* Only the active account's state is ever in memory, whichever file of     *)
(* whichever account lies on the disk and however often accounts change.    *)
StateIsOwn == memory \in {Nobody, active}

SavedFor(a) == \E file \in {primary, backup} :
                   file.kind = "document" /\ file.account = a /\ file.positions = a

(* The saved state of an account that is not the active one is kept.        *)
OtherAccountsKept ==
    [][\A a \in Accounts \ {active} :
         step # "down" /\ SavedFor(a) => SavedFor(a)']_vars

=============================================================================
