-------------------------- MODULE StateFilesProofs --------------------------
(***************************************************************************)
(* The two state files are one durable register and lose one save at most  *)
(* to one damaged file, unless a load leaves the damage behind; and they   *)
(* never hand one account's state to another: for every set of accounts    *)
(* and every number of saves.                                              *)
(***************************************************************************)
EXTENDS StateFiles, TLAPS

(* A file is a document of one account, holding nothing or its position,   *)
(* or carries no data at all.                                              *)
WellFormed(file) ==
    /\ file.kind # "document" => file = Unusable(file.kind)
    /\ file.positions \in {Nobody, file.account}

FilesWellFormed ==
    /\ WellFormed(primary) /\ WellFormed(backup)
    /\ WellFormed(payload) /\ WellFormed(acked)
    /\ acked.kind \in {"absent", "document"}

(* A payload exists exactly while a save is under way, and is the newest.  *)
PayloadIsNewest ==
    /\ payload.kind = IF step \in Saving THEN "document" ELSE "absent"
    /\ step \in Saving => payload.generation = generation

(* A file that can be read is not older than what was acknowledged when it *)
(* was written.                                                            *)
Recent(file, bound) ==
    file.kind = "document" => bound <= file.generation /\ file.generation <= generation

GenerationsGrow ==
    /\ ackedBefore <= acked.generation /\ acked.generation <= generation
    /\ Recent(primary, acked.generation)
    /\ Recent(backup, ackedBefore)
    /\ step = "savePrimary" => Recent(backup, acked.generation)

(* A load comes before any save, and leaves a corrupt primary behind only  *)
(* when it is stuck: otherwise no save overwrites the backup with garbage. *)
LoadedBeforeSaved ==
    /\ step = "down" => active = Nobody /\ memory = Nobody
    /\ step \in Saving \cup {"load", "loadBackup"} => active # Nobody
    /\ step \in Saving /\ ~stuck => primary.kind # "corrupt"
    /\ step = "idle" /\ active # Nobody /\ ~stuck => primary.kind # "corrupt"
    /\ step = "loadBackup" => primary.kind = "absent"
    /\ step = "savePrimary" /\ ~stuck => backup.kind \in {"document", "unsupported"}

(* What is left after no damage, or damage to one of two good files that   *)
(* is not stuck.                                                           *)
HarmIsBounded ==
    /\ primary.kind = "unsupported" \/ backup.kind = "unsupported" => harm = 2
    /\ harm < 2 /\ ~stuck /\ acked # Absent =>
          \/ primary.kind = "document"
          \/ primary.kind \in {"absent", "corrupt"} /\ backup.kind = "document"

IInv ==
    /\ TypeOK /\ FilesWellFormed /\ PayloadIsNewest /\ GenerationsGrow
    /\ LoadedBeforeSaved /\ HarmIsBounded /\ StateIsOwn

USE FilesAssumption

-----------------------------------------------------------------------------

(* At the start there is no file and nothing acknowledged.                 *)
LEMMA InitIInv == Init => IInv
<1> SUFFICES ASSUME Init PROVE IInv
  OBVIOUS
<1> USE DEF Init, Files, Owners, Absent, Unusable, Saving, Steps
<1>1. TypeOK
  <2>1. stuck = FALSE
    OBVIOUS
  <2>2. stuck \in BOOLEAN
    BY ONLY <2>1, Zenon
  <2> QED
    BY <2>2 DEF TypeOK
<1>2. FilesWellFormed /\ PayloadIsNewest /\ GenerationsGrow
  BY DEF FilesWellFormed, WellFormed, PayloadIsNewest, GenerationsGrow, Recent
<1>3. LoadedBeforeSaved /\ StateIsOwn
  <2>1. step = "down" /\ active = Nobody /\ memory = Nobody
    OBVIOUS
  <2>2. QED
    BY ONLY <2>1 DEF LoadedBeforeSaved, StateIsOwn, Saving
<1>4. HarmIsBounded
  BY DEF HarmIsBounded
<1>5. QED
  BY <1>1, <1>2, <1>3, <1>4 DEF IInv

(* A save keeps the order of the documents at each of its steps.           *)
LEMMA SaveIInv == IInv /\ Save => IInv'
<1> SUFFICES ASSUME IInv, Save PROVE IInv'
  OBVIOUS
<1> USE DEF IInv, TypeOK, FilesWellFormed, WellFormed, PayloadIsNewest,
            GenerationsGrow, Recent, LoadedBeforeSaved, HarmIsBounded,
            StateIsOwn, Files, Owners, Absent, Unusable, Saving, Steps
<1>1. CASE BeginSave
  BY <1>1 DEF BeginSave, Document
<1>2. CASE WriteBackup
  BY <1>2 DEF WriteBackup, NextBackup
<1>3. CASE WritePrimary
  <2>1. TypeOK' /\ FilesWellFormed' /\ PayloadIsNewest' /\ StateIsOwn'
    <3>1. stuck' = FALSE
      BY <1>3 DEF WritePrimary
    <3>2. stuck' \in BOOLEAN
      BY ONLY <3>1, Zenon
    <3> QED
      BY <1>3, <3>2 DEF WritePrimary
  <2>2. GenerationsGrow'
    BY <1>3 DEF WritePrimary
  <2>3. LoadedBeforeSaved'
    <3>1. /\ step' = "idle" /\ active' = active /\ active # Nobody
          /\ primary'.kind = "document"
      BY <1>3 DEF WritePrimary
    <3>2. QED
      BY ONLY <3>1 DEF LoadedBeforeSaved, Saving
  <2>4. HarmIsBounded'
    BY <1>3 DEF WritePrimary
  <2>5. QED
    BY <2>1, <2>2, <2>3, <2>4
<1>4. CASE SaveFails
  <2>1. CASE step = "saveBackup"
    BY <1>4, <2>1 DEF SaveFails, CutOff, AtomicWrite, NextBackup
  <2>2. CASE step = "savePrimary"
    BY <1>4, <2>2 DEF SaveFails, CutOff, AtomicWrite
  <2>3. QED
    BY <1>4, <2>1, <2>2 DEF SaveFails
<1>5. QED
  BY <1>1, <1>2, <1>3, <1>4 DEF Save

(* A load and the activation before it read documents and make none.       *)
LEMMA LoadIInv == IInv /\ (Activate \/ Load) => IInv'
<1> SUFFICES ASSUME IInv, Activate \/ Load PROVE IInv'
  OBVIOUS
<1> USE DEF IInv, TypeOK, FilesWellFormed, WellFormed, PayloadIsNewest,
            GenerationsGrow, Recent, LoadedBeforeSaved, HarmIsBounded,
            StateIsOwn, Files, Owners, Absent, Unusable, Saving, Steps
<1>1. CASE Activate
  BY <1>1 DEF Activate
<1>2. CASE LoadDocument \/ LoadRefused
  BY <1>2 DEF LoadDocument, LoadRefused, Loading, Restore, Restored, OwnAccount
<1>3. CASE LoadMissing \/ QuarantinePrimary
  BY <1>3 DEF LoadMissing, QuarantinePrimary, Loading
<1>4. CASE LoadBackup \/ BackupRefused \/ QuarantineBackup
  BY <1>4 DEF LoadBackup, BackupRefused, QuarantineBackup, Loading, Restore,
              Restored, OwnAccount
<1>5. QED
  BY <1>1, <1>2, <1>3, <1>4 DEF Load

(* Of what happens outside saves and loads only damage touches a file, and *)
(* it is counted as harm.                                                  *)
LEMMA OutsideIInv ==
    IInv /\ (ChangeStates \/ SwitchAccount \/ Crash \/ Start \/ Damage) => IInv'
<1> SUFFICES ASSUME IInv, ChangeStates \/ SwitchAccount \/ Crash \/ Start \/ Damage
             PROVE  IInv'
  OBVIOUS
<1> USE DEF IInv, TypeOK, FilesWellFormed, WellFormed, PayloadIsNewest,
            GenerationsGrow, Recent, LoadedBeforeSaved, HarmIsBounded,
            StateIsOwn, Files, Owners, Absent, Unusable, Saving, Steps
<1>1. CASE ChangeStates
  BY <1>1 DEF ChangeStates
<1>2. CASE SwitchAccount
  BY <1>2 DEF SwitchAccount
<1>3. CASE Crash
  BY <1>3 DEF Crash, CutOff, AtomicWrite, NextBackup
<1>4. CASE Start
  BY <1>4 DEF Start
<1>5. CASE Damage
  BY <1>5 DEF Damage
<1>6. QED
  BY <1>1, <1>2, <1>3, <1>4, <1>5

(* The inductive invariant of saving, loading, crashing and being damaged. *)
THEOREM Invariance == Spec => []IInv
<1>1. IInv /\ [Next]_vars => IInv'
  <2> SUFFICES ASSUME IInv, [Next]_vars PROVE IInv'
    OBVIOUS
  <2>1. CASE Next
    BY <2>1, SaveIInv, LoadIInv, OutsideIInv DEF Next
  <2>2. CASE UNCHANGED vars
    BY <2>2 DEF vars, IInv, TypeOK, FilesWellFormed, WellFormed,
       PayloadIsNewest, GenerationsGrow, Recent, LoadedBeforeSaved,
       HarmIsBounded, StateIsOwn
  <2>3. QED
    BY <2>1, <2>2
<1>2. QED
  BY InitIInv, <1>1, PTL DEF Spec

(* Every variable keeps its type: the files only ever hold documents of    *)
(* known accounts, or nothing that can be read.                            *)
THEOREM TypeCorrect == Spec => []TypeOK
<1>1. IInv => TypeOK
  BY DEF IInv
<1>2. QED
  BY Invariance, <1>1, PTL

(* Account switches, backups and recovered files never bring the state of  *)
(* one account into the memory of another (load's fingerprint comparison). *)
THEOREM OwnState == Spec => []StateIsOwn
<1>1. IInv => StateIsOwn
  BY DEF IInv
<1>2. QED
  BY Invariance, <1>1, PTL

(* One damaged file out of two good ones costs one acknowledged save at    *)
(* most, whatever is cut off, retried, quarantined or restored afterwards: *)
(* as long as no load leaves it where it is (stuck).                       *)
THEOREM OneSaveAtMost == Spec => []LosesAtMostOneSave
<1>1. IInv => LosesAtMostOneSave
  BY DEF IInv, TypeOK, GenerationsGrow, Recent, HarmIsBounded,
         LosesAtMostOneSave, Found, Files
<1>2. QED
  BY Invariance, <1>1, PTL

-----------------------------------------------------------------------------
(* Refinement *)

(* A backup written next to a good primary does not show; written for want *)
(* of one, it is the save taking effect; written from a damaged one, it    *)
(* loses the value.                                                        *)
LEMMA SaveRefines == IInv /\ Save => [Register!Next]_(Register!vars)
<1> SUFFICES ASSUME IInv, Save PROVE [Register!Next]_(Register!vars)
  OBVIOUS
<1> USE DEF IInv, TypeOK, FilesWellFormed, WellFormed, PayloadIsNewest,
            LoadedBeforeSaved, Files, Absent, Unusable, Saving, Found
<1>1. CASE BeginSave
  <2>1. Register!Submit
    BY <1>1 DEF BeginSave, Document, Register!Submit, Owners
  <2>2. QED
    BY <2>1 DEF Register!Next
<1>2. CASE WriteBackup
  <2>1. CASE primary = Absent
    <3>1. Register!TakeEffect
      BY <1>2, <2>1 DEF WriteBackup, NextBackup, Register!TakeEffect
    <3>2. QED
      BY <3>1 DEF Register!Next
  <2>2. CASE primary # Absent /\ primary.kind # "corrupt"
    BY <1>2, <2>2 DEF WriteBackup, NextBackup, Register!vars
  <2>3. CASE primary.kind = "corrupt"
    <3>1. Register!LoseValue
      BY <1>2, <2>3 DEF WriteBackup, NextBackup, Register!LoseValue, Register!Lost
    <3>2. QED
      BY <3>1 DEF Register!Next
  <2>4. QED
    BY <2>1, <2>2, <2>3
<1>3. CASE WritePrimary
  <2>1. Register!Acknowledge
    BY <1>3 DEF WritePrimary, Register!Acknowledge
  <2>2. QED
    BY <2>1 DEF Register!Next
<1>4. CASE SaveFails
  <2>1. Register!Fail
    BY <1>4 DEF SaveFails, CutOff, AtomicWrite, NextBackup, Register!Fail,
                Register!Lost
  <2>2. QED
    BY <2>1 DEF Register!Next
<1>5. QED
  BY <1>1, <1>2, <1>3, <1>4 DEF Save

(* A load, with its quarantines, finds what is there and changes none of   *)
(* it; all it changes is whether damage was left behind.                   *)
LEMMA LoadRefines ==
    IInv /\ (Activate \/ Load \/ ChangeStates \/ SwitchAccount)
      => [Register!Next]_(Register!vars)
<1> SUFFICES ASSUME IInv, Activate \/ Load \/ ChangeStates \/ SwitchAccount
             PROVE  [Register!Next]_(Register!vars)
  OBVIOUS
<1> USE DEF IInv, TypeOK, FilesWellFormed, WellFormed, PayloadIsNewest,
            LoadedBeforeSaved, Absent, Unusable, Found, Saving
<1>1. UNCHANGED <<Found, payload, acked>> /\ (step' = "down" <=> step = "down")
  <2>1. CASE Activate
    BY <2>1 DEF Activate
  <2>2. CASE LoadDocument \/ LoadRefused
    BY <2>2 DEF LoadDocument, LoadRefused, Loading, Restore
  <2>3. CASE LoadMissing \/ QuarantinePrimary
    BY <2>3 DEF LoadMissing, QuarantinePrimary, Loading
  <2>4. CASE LoadBackup \/ BackupRefused \/ QuarantineBackup
    BY <2>4 DEF LoadBackup, BackupRefused, QuarantineBackup, Loading, Restore
  <2>5. CASE ChangeStates \/ SwitchAccount
    BY <2>5 DEF ChangeStates, SwitchAccount
  <2>6. QED
    BY <2>1, <2>2, <2>3, <2>4, <2>5 DEF Load
<1>2. stuck' = stuck \/ (/\ step # "down" /\ payload = Absent /\ stuck' \in BOOLEAN)
  BY DEF Activate, ChangeStates, SwitchAccount, Load, LoadDocument, LoadRefused,
         LoadMissing, QuarantinePrimary, LoadBackup, BackupRefused,
         QuarantineBackup, Loading
<1>3. CASE stuck' = stuck
  BY <1>1, <1>3 DEF Register!vars
<1>4. CASE step # "down" /\ payload = Absent /\ stuck' \in BOOLEAN
  <2>1. Register!Load
    BY <1>1, <1>4 DEF Register!Load
  <2>2. QED
    BY <2>1 DEF Register!Next
<1>5. QED
  BY <1>2, <1>3, <1>4

(* A crash, a start or damage of the files is a step of the register.      *)
LEMMA ProcessRefines == IInv /\ (Crash \/ Start \/ Damage) => Register!Next
<1> SUFFICES ASSUME IInv, Crash \/ Start \/ Damage PROVE Register!Next
  OBVIOUS
<1> USE DEF IInv, TypeOK, FilesWellFormed, WellFormed, PayloadIsNewest,
            LoadedBeforeSaved, Files, Absent, Unusable, Saving, Found
<1>1. CASE Crash
  <2>1. Register!Crash
    BY <1>1 DEF Crash, CutOff, AtomicWrite, NextBackup, Register!Crash,
                Register!Lost
  <2>2. QED
    BY <2>1 DEF Register!Next
<1>2. CASE Start
  <2>1. Register!Start
    BY <1>2 DEF Start, Register!Start
  <2>2. QED
    BY <2>1 DEF Register!Next
<1>3. CASE Damage
  <2>1. Register!Damage
    BY <1>3 DEF Damage, Register!Damage, Owners
  <2>2. QED
    BY <2>1 DEF Register!Next
<1>4. QED
  BY <1>1, <1>2, <1>3

(* Backup, quarantine and recovery implement one durable register: a save  *)
(* is all or nothing, acknowledged only when done, and nothing else that   *)
(* the running process does changes what a load finds; the value is at     *)
(* risk only in a save after a load that left a damaged file behind.       *)
THEOREM Refinement == Spec => IsRegister
<1>1. Init => Register!Init
  BY DEF Init, Register!Init, Found, Absent, Unusable
<1>2. IInv /\ [Next]_vars => [Register!Next]_(Register!vars)
  <2> SUFFICES ASSUME IInv, [Next]_vars PROVE [Register!Next]_(Register!vars)
    OBVIOUS
  <2>1. CASE Next
    BY <2>1, SaveRefines, LoadRefines, ProcessRefines DEF Next
  <2>2. CASE UNCHANGED vars
    BY <2>2 DEF vars, Register!vars, Found
  <2>3. QED
    BY <2>1, <2>2
<1>3. QED
  BY Invariance, <1>1, <1>2, PTL DEF Spec, IsRegister, Register!Spec

=============================================================================
