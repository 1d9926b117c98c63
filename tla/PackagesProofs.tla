--------------------------- MODULE PackagesProofs ---------------------------
(***************************************************************************)
(* Five results about the package manager.                                 *)
(*                                                                         *)
(* Whatever the directories do, a package is only Healthy once its payload *)
(* was verified and its activation approved: a handler leaves in RAM and   *)
(* in the file either a record that was there, an empty one, or the one    *)
(* its operation made (SaveEffect, TransactEffect), and each operation     *)
(* keeps a record sound.                                                   *)
(*                                                                         *)
(* A start-up resolves an interrupted activation, and the sequence floor   *)
(* rises: a record stays coherent, that is, its state and its transaction  *)
(* name one release until a roll-back parts them.                          *)
(*                                                                         *)
(* Directories keep their types, and the active one only ever holds what   *)
(* was verified: of the calls of all storage operations, only those of an  *)
(* undo take anything out of quarantine (PlanSeq, RepairSeq, RecoverySeq), *)
(* and a plan ends in the set of disks its calls do not leave (RunStays).  *)
(***************************************************************************)
EXTENDS Packages, TLAPS, WellFoundedInduction

\* A record of the right type whose claims are covered by what was verified
\* (V) and confirmed (C).
Sound(r, V, C) ==
    /\ r \in Records
    /\ r.content \in {"Verified", "Activating", "Healthy"} => r.cand \in V
    /\ r.content \in {"Activating", "Healthy"} => r.cand \in C

Inv == Sound(rec, verified, confirmed) /\ Sound(file, verified, confirmed)

------------------------------------------------------------------------------
(* What each operation of the manager makes of a sound record *)

\* An empty record claims nothing.
LEMMA NoRecordSound == \A V, C: Sound(NoRecord, V, C)
  BY PackagesAssumption DEF Sound, NoRecord, Records, PackageStates, ContentStates, Digests

\* Claims once covered stay covered: the history only grows.
LEMMA SoundMonotone ==
  ASSUME NEW r, NEW V, NEW C, NEW W, NEW D, V \subseteq W, C \subseteq D,
         Sound(r, V, C)
  PROVE  Sound(r, W, D)
  BY DEF Sound

\* IMPORT starts a transaction that claims nothing.
LEMMA ImportSound ==
  ASSUME NEW r, NEW V, NEW C, Sound(r, V, C), NEW c \in Releases
  PROVE  Sound(Imported(r, c), V, C)
  BY PackagesAssumption
  DEF Sound, Imported, Updating, Records, PackageStates, ContentStates, Digests

\* STAGE only fills the transfer.
LEMMA ReceiveSound ==
  ASSUME NEW r, NEW V, NEW C, Sound(r, V, C), NEW n \in Nat, CanReceive(r, n)
  PROVE  Sound(Received(r, n), V, C)
<1>1. r \in Records /\ r.received \in 0..ContentBytes
  BY DEF Sound, Records
<1>2. r.received + n \in 0..ContentBytes
  BY <1>1, PackagesAssumption DEF CanReceive
<1>3. CASE r.received + n = ContentBytes
  BY <1>1, <1>2, <1>3
  DEF Sound, Received, Records, PackageStates, ContentStates
<1>4. CASE r.received + n # ContentBytes
  <2>1. Received(r, n) =
          [r EXCEPT !.content = "Receiving", !.received = r.received + n]
    BY <1>1, <1>4 DEF Received, Records
  <2> QED BY <1>1, <1>2, <2>1 DEF Sound, Records, ContentStates
<1> QED BY <1>3, <1>4

\* A refused chunk may open the transfer.
LEMMA OpenSound ==
  ASSUME NEW r, NEW V, NEW C, Sound(r, V, C)
  PROVE  Sound(Opened(r), V, C)
  BY DEF Sound, Opened, Records, ContentStates

\* A spoiled record claims nothing.
LEMMA SpoilSound ==
  ASSUME NEW r, NEW V, NEW C, Sound(r, V, C)
  PROVE  Sound(Spoiled(r), V, C)
  BY DEF Sound, Spoiled, Records, PackageStates, ContentStates

\* VERIFY adds the candidate to what was verified when it accepts it.
LEMMA VerifySound ==
  ASSUME NEW r, NEW V, NEW W, NEW C, Sound(r, V, C), NEW c, V \subseteq W,
         r.state = "Staged" /\ c = r.cand => c \in W
  PROVE  Sound(PayloadVerified(r, c), W, C)
<1>1. Sound(r, W, C)
  BY SoundMonotone
<1>2. CASE r.state # "Staged"
  BY <1>1, <1>2 DEF PayloadVerified
<1>3. CASE r.state = "Staged" /\ c = r.cand
  BY <1>1, <1>3 DEF PayloadVerified, Sound, Records, PackageStates, ContentStates
<1>4. CASE r.state = "Staged" /\ c # r.cand
  BY <1>1, <1>4, SpoilSound DEF PayloadVerified
<1> QED BY <1>2, <1>3, <1>4

\* ACTIVATE adds the candidate to what was confirmed.
LEMMA ActivateSound ==
  ASSUME NEW r, NEW V, NEW C, NEW D, Sound(r, V, C), CanActivate(r),
         r.cand \in D
  PROVE  Sound(Activating(r), V, D)
  BY DEF Sound, CanActivate, Activating, Records, ContentStates

\* HEALTH: a healthy report rests on the claims of the activation.
LEMMA HealthSound ==
  ASSUME NEW r, NEW V, NEW C, Sound(r, V, C), NEW healthy \in BOOLEAN,
         CanReportHealth(r)
  PROVE  Sound(HealthReported(r, healthy), V, C)
  BY DEF Sound, HealthReported, CanReportHealth, Records, PackageStates, ContentStates, Digests

\* ENABLE, DISABLE and REMOVE leave the transaction alone.
LEMMA TransitionSound ==
  ASSUME NEW r, NEW V, NEW C, Sound(r, V, C), NEW state \in PackageStates
  PROVE  Sound(Transitioned(r, state), V, C)
  BY DEF Sound, Transitioned, Records

\* ROLLBACK claims nothing.
LEMMA RollbackSound ==
  ASSUME NEW r, NEW V, NEW C, Sound(r, V, C)
  PROVE  Sound(RolledBack(r), V, C)
<1>1. r \in Records /\ r.digest \in Digests /\ r.prev \in Digests
  BY DEF Sound, Records
<1>2. "Active" \in PackageStates /\ "RolledBack" \in ContentStates
  BY DEF PackageStates, ContentStates
<1> QED BY <1>1, <1>2 DEF Sound, RolledBack, Records

\* QUARANTINE leaves the transaction alone.
LEMMA QuarantineSound ==
  ASSUME NEW r, NEW V, NEW C, Sound(r, V, C)
  PROVE  Sound(Quarantined(r), V, C)
  BY DEF Sound, Quarantined, Records, PackageStates

------------------------------------------------------------------------------
(* What a handler leaves *)

\* A save ends with the new record, the old one, or none.
LEMMA SaveEffect ==
  ASSUME NEW r, NEW d, NEW undone, Save(r, d, undone)
  PROVE  rec' \in {r, rec, NoRecord} /\ file' \in {r, file, NoRecord}
  BY DEF Save, Refuse, PowerCut, Fault

\* An operation on directories saves only what the manager agreed to.
LEMMA TransactEffect ==
  ASSUME NEW op, NEW can, NEW r, NEW refused, NEW undo,
         Transact(op, can, r, refused, undo)
  PROVE  \/ rec' \in {rec, NoRecord} /\ file' = file
         \/ can /\ rec' \in {r, rec, NoRecord} /\ file' \in {r, file, NoRecord}
<1>1. CASE \E d, undone: can /\ Save(r, d, undone)
  BY <1>1, SaveEffect
<1>2. CASE \E d: Refuse(d)
  BY <1>2 DEF Refuse
<1>3. CASE PowerCut /\ UNCHANGED file
  BY <1>3 DEF PowerCut
<1> QED BY <1>1, <1>2, <1>3 DEF Transact, StorageFails

\* A save of a sound record keeps the invariant.
LEMMA SaveKeeps ==
  ASSUME Inv, NEW r, NEW d, NEW undone, Save(r, d, undone),
         verified \subseteq verified', confirmed \subseteq confirmed',
         Sound(r, verified', confirmed')
  PROVE  Inv'
<1>1. /\ Sound(rec, verified', confirmed') /\ Sound(file, verified', confirmed')
      /\ Sound(NoRecord, verified', confirmed')
  BY SoundMonotone, NoRecordSound DEF Inv
<1> QED BY <1>1, SaveEffect DEF Inv


\* An operation on directories that saves a sound record keeps the invariant.
LEMMA TransactKeeps ==
  ASSUME Inv, NEW op, NEW can, NEW r, NEW refused, NEW undo,
         Transact(op, can, r, refused, undo),
         verified \subseteq verified', confirmed \subseteq confirmed',
         can => Sound(r, verified', confirmed')
  PROVE  Inv'
<1>1. /\ Sound(rec, verified', confirmed') /\ Sound(file, verified', confirmed')
      /\ Sound(NoRecord, verified', confirmed')
  BY SoundMonotone, NoRecordSound DEF Inv
<1> QED BY <1>1, TransactEffect DEF Inv

------------------------------------------------------------------------------
(* The invariant *)

\* A device without the package claims nothing.
LEMMA InitInv == Init => Inv
  BY NoRecordSound DEF Init, Inv

\* The requests that need no confirmation.
LEMMA PlainRequestInv ==
  ASSUME Inv, PlainRequest
  PROVE  Inv'
<1> USE DEF history
<1>0. Sound(rec, verified, confirmed) /\ Sound(file, verified, confirmed)
  BY DEF Inv
<1>1. ASSUME NEW c \in Releases, Import(c)
      PROVE  Inv'
  <2>1. Save(Imported(rec, c), disk, disk)
    BY <1>1 DEF Import, Update
  <2>2. verified' = verified /\ confirmed' = confirmed
    BY <1>1 DEF Import
  <2>3. Sound(Imported(rec, c), verified', confirmed')
    BY <1>0, <2>2, ImportSound
  <2> QED BY <2>1, <2>2, <2>3, SaveKeeps
<1>2. ASSUME NEW n \in 0..ContentBytes + 1, Stage(n)
      PROVE  Inv'
  <2>1. Save(Received(rec, n), disk, disk) /\ CanReceive(rec, n)
    BY <1>2 DEF Stage, Update
  <2>2. verified' = verified /\ confirmed' = confirmed
    BY <1>2 DEF Stage
  <2>3. n \in Nat
    BY <1>2, PackagesAssumption
  <2>4. Sound(Received(rec, n), verified', confirmed')
    BY <1>0, <2>1, <2>2, <2>3, ReceiveSound
  <2> QED BY <2>1, <2>2, <2>4, SaveKeeps
<1>3. ASSUME NEW n \in 0..ContentBytes + 1, StageRefused(n)
      PROVE  Inv'
  <2>1. /\ rec' = Opened(rec) /\ file' = file
        /\ verified' = verified /\ confirmed' = confirmed
    BY <1>3 DEF StageRefused
  <2> QED BY <1>0, <2>1, OpenSound DEF Inv
<1>4. ASSUME NEW s \in Sessions, NEW c \in Releases, Verify(s, c)
      PROVE  Inv'
  <2>1. /\ verified \subseteq verified' /\ confirmed' = confirmed
        /\ Accepts(c) => c \in verified'
    BY <1>4 DEF Verify
  <2>2. \E d, undone: Save(PayloadVerified(rec, c), d, undone)
    BY <1>4 DEF Verify
  <2>3. Sound(PayloadVerified(rec, c), verified', confirmed')
    BY <1>0, <2>1, VerifySound DEF Accepts
  <2> QED BY <2>1, <2>2, <2>3, SaveKeeps
<1>5. ASSUME NEW c \in Releases, VerifyQuarantineFails(c)
      PROVE  Inv'
  <2>1. /\ ~Accepts(c) /\ verified' = verified /\ confirmed' = confirmed
        /\ rec' \in {PayloadVerified(rec, c), rec, NoRecord}
        /\ file' \in {PayloadVerified(rec, c), file}
    BY <1>5 DEF VerifyQuarantineFails, SavedOrKept, PowerCut
  <2>2. Sound(PayloadVerified(rec, c), verified, confirmed)
    BY <1>0, <2>1, VerifySound DEF Accepts
  <2> QED BY <1>0, <2>1, <2>2, NoRecordSound DEF Inv
<1>6. CASE VerifyNoArchive
  <2>1. Save(Spoiled(rec), disk, disk)
    BY <1>6 DEF VerifyNoArchive, Update
  <2>2. verified' = verified /\ confirmed' = confirmed
    BY <1>6 DEF VerifyNoArchive
  <2>3. Sound(Spoiled(rec), verified', confirmed')
    BY <1>0, <2>2, SpoilSound
  <2> QED BY <2>1, <2>2, <2>3, SaveKeeps
<1>7. CASE VerifyExtractFails
  <2>1. /\ verified' = verified /\ confirmed' = confirmed
        /\ rec' \in {Spoiled(rec), rec, NoRecord}
        /\ file' \in {Spoiled(rec), file}
    BY <1>7 DEF VerifyExtractFails, SavedOrKept, PowerCut
  <2> QED BY <1>0, <2>1, SpoilSound, NoRecordSound DEF Inv
<1>8. ASSUME NEW healthy \in BOOLEAN, Health(healthy)
      PROVE  Inv'
  <2>1. verified' = verified /\ confirmed' = confirmed
    BY <1>8 DEF Health
  <2>2. \E op, refused, undo:
          Transact(op, CanReportHealth(rec), HealthReported(rec, healthy),
                   refused, undo)
    BY <1>8 DEF Health
  <2>3. CanReportHealth(rec)
          => Sound(HealthReported(rec, healthy), verified', confirmed')
    BY <1>0, <2>1, HealthSound
  <2> QED BY <2>1, <2>2, <2>3, TransactKeeps
<1>9. CASE Disable
  <2>1. Save(Transitioned(rec, "Disabled"), disk, disk)
    BY <1>9 DEF Disable, Update
  <2>2. verified' = verified /\ confirmed' = confirmed
    BY <1>9 DEF Disable
  <2>3. Sound(Transitioned(rec, "Disabled"), verified', confirmed')
    BY <1>0, <2>2, TransitionSound DEF PackageStates
  <2> QED BY <2>1, <2>2, <2>3, SaveKeeps
<1>10. CASE Quarantine
  <2>1. verified' = verified /\ confirmed' = confirmed
    BY <1>10 DEF Quarantine
  <2>2. \E op, refused, undo:
          Transact(op, CanQuarantine(rec), Quarantined(rec), refused, undo)
    BY <1>10 DEF Quarantine
  <2>3. Sound(Quarantined(rec), verified', confirmed')
    BY <1>0, <2>1, QuarantineSound
  <2> QED BY <2>1, <2>2, <2>3, TransactKeeps
<1> QED
  BY <1>1, <1>2, <1>3, <1>4, <1>5, <1>6, <1>7, <1>8, <1>9, <1>10
  DEF PlainRequest

\* The requests that need one.
LEMMA ConfirmedRequestInv ==
  ASSUME Inv, ConfirmedRequest
  PROVE  Inv'
<1> USE DEF history
<1>0. Sound(rec, verified, confirmed) /\ Sound(file, verified, confirmed)
  BY DEF Inv
<1> PICK s \in Sessions:
        \/ \E c \in Releases: Ask(s, "ACTIVATE", c)
        \/ \E op \in {"ENABLE", "REMOVE", "ROLLBACK"}: Ask(s, op, None)
        \/ Expire(s)
        \/ \E answer \in BOOLEAN:
             \/ \E c \in Releases: Activate(s, c, answer)
             \/ Enable(s, answer) \/ Remove(s, answer) \/ Rollback(s, answer)
  BY DEF ConfirmedRequest
<1>1. ASSUME NEW op, NEW c, Ask(s, op, c)
      PROVE  Inv'
  BY <1>1 DEF Ask, Inv
<1>2. CASE Expire(s)
  BY <1>2 DEF Expire, Inv
<1>3. ASSUME NEW c \in Releases, NEW answer \in BOOLEAN, Activate(s, c, answer)
      PROVE  Inv'
  <2>1. answer
    BY <1>3 DEF Activate, Granted, Approve
  <2>2. /\ verified' = verified /\ confirmed \subseteq confirmed'
        /\ CanActivate(rec) => rec.cand \in confirmed'
    BY <1>3, <2>1 DEF Activate
  <2>3. \E op, refused, undo:
          Transact(op, CanActivate(rec), Activating(rec), refused, undo)
    BY <1>3 DEF Activate
  <2>4. CanActivate(rec) => Sound(Activating(rec), verified', confirmed')
    BY <1>0, <2>2, ActivateSound
  <2> QED BY <2>2, <2>3, <2>4, TransactKeeps
<1>4. ASSUME NEW answer \in BOOLEAN, Enable(s, answer)
      PROVE  Inv'
  <2>1. verified' = verified /\ confirmed' = confirmed
    BY <1>4 DEF Enable
  <2>2. Sound(Transitioned(rec, "Active"), verified', confirmed')
    BY <1>0, <2>1, TransitionSound DEF PackageStates
  <2>3. CASE Save(Transitioned(rec, "Active"), disk, disk)
    BY <2>1, <2>2, <2>3, SaveKeeps
  <2>4. CASE UNCHANGED <<up, rec, file, disk, faults>>
    BY <2>1, <2>4 DEF Inv
  <2> QED BY <1>4, <2>3, <2>4 DEF Enable, Update
<1>5. ASSUME NEW answer \in BOOLEAN, Remove(s, answer)
      PROVE  Inv'
  <2>1. verified' = verified /\ confirmed' = confirmed
    BY <1>5 DEF Remove
  <2>2. \E op, refused, undo:
          Transact(op, CanRemove(rec), Transitioned(rec, "Removed"), refused,
                   undo)
    BY <1>5 DEF Remove
  <2>3. Sound(Transitioned(rec, "Removed"), verified', confirmed')
    BY <1>0, <2>1, TransitionSound DEF PackageStates
  <2> QED BY <2>1, <2>2, <2>3, TransactKeeps
<1>6. ASSUME NEW answer \in BOOLEAN, Rollback(s, answer)
      PROVE  Inv'
  <2>1. verified' = verified /\ confirmed' = confirmed
    BY <1>6 DEF Rollback
  <2>2. \E op, refused, undo:
          Transact(op, CanRollback(rec), RolledBack(rec), refused, undo)
    BY <1>6 DEF Rollback
  <2>3. Sound(RolledBack(rec), verified', confirmed')
    BY <1>0, <2>1, RollbackSound
  <2> QED BY <2>1, <2>2, <2>3, TransactKeeps
<1> QED BY <1>1, <1>2, <1>3, <1>4, <1>5, <1>6

\* A start-up ends with the record of the file, spoiled or rolled back.
LEMMA BootInv ==
  ASSUME Inv, Boot
  PROVE  Inv'
<1> DEFINE Results ==
        {file, Spoiled(file)}
        \cup {r \in {HealthReported(file, FALSE)}: CanReportHealth(file)}
<1>1. ASSUME NEW r, NEW d, BootSave(r, d)
      PROVE  rec' \in {r, NoRecord} /\ file' \in {r, file, NoRecord}
  BY <1>1 DEF BootSave, PowerCut
<1>2. /\ rec' \in Results \cup {NoRecord} /\ file' \in Results \cup {NoRecord}
      /\ verified' = verified /\ confirmed' = confirmed
  <2>1. verified' = verified /\ confirmed' = confirmed
    BY DEF Boot, history
  <2>2. CASE \E r \in Results: \E d: BootSave(r, d)
    BY <1>1, <2>1, <2>2
  <2>3. CASE rec' = Spoiled(file) /\ file' \in {rec', file}
    BY <2>1, <2>3
  <2>4. CASE PowerCut /\ UNCHANGED file
    BY <2>1, <2>4 DEF PowerCut
  <2> QED BY <2>2, <2>3, <2>4 DEF Boot
<1>3. \A r \in Results: Sound(r, verified, confirmed)
  BY SpoilSound, HealthSound DEF Inv
<1> QED BY <1>2, <1>3, NoRecordSound DEF Inv

\* Every step keeps the invariant.
LEMMA NextInv ==
  ASSUME Inv, [Next]_vars
  PROVE  Inv'
<1>1. CASE Reset
  BY <1>1, NoRecordSound DEF Reset, PowerCut, Inv, history
<1>2. CASE UNCHANGED vars
  BY <1>2 DEF vars, Inv
<1> QED BY <1>1, <1>2, PlainRequestInv, ConfirmedRequestInv, BootInv DEF Next

\* The records in RAM and on disk never claim more than was verified and
\* confirmed, for any number of releases, sessions, chunks and faults.
THEOREM Invariance == Spec => []Inv
<1> QED BY InitInv, NextInv, PTL DEF Spec

\* A package is only ever Healthy, in RAM or in the state file, once its
\* payload passed VERIFY and its activation was approved on the device, for
\* every interleaving of requests, failing calls and power cuts.
THEOREM HealthyIsVerified == Spec => []HealthyWasVerified
<1>1. Inv => HealthyWasVerified
  BY DEF Inv, Sound, HealthyWasVerified, WasVerified
<1> QED BY <1>1, Invariance, PTL

------------------------------------------------------------------------------
(* The record and its transaction name one release *)

\* A record whose state and transaction belong together. While a transaction
\* goes on, the record has its two digests; only a roll-back and a spoiled
\* record part them. A record that names no release is an empty one.
Coherent(r) ==
    /\ r \in Records
    /\ r.state = "Staged" => r.content = "Staged"
    /\ r.state = "Verified" => r.content \in {"Verified", "Activating"}
    /\ r.back \notin {"Staged", "Verified"}
    /\ r.content \notin {"RolledBack", "Quarantined"}
           => r.digest = r.cand /\ r.prev = r.contentPrev
    /\ r.cand = None
           => ~r.present /\ r.state = "Removed" /\ r.content = "Discovered"

\* What the manager's operations make of record r.
Makes(r, q) ==
    \/ \E c \in Releases: CanImport(r, c) /\ q = Imported(r, c)
    \/ \E n \in Nat: r.present /\ CanReceive(r, n) /\ q = Received(r, n)
    \/ r.present /\ q = Spoiled(r)
    \/ \E c \in Releases: r.present /\ q = PayloadVerified(r, c)
    \/ CanActivate(r) /\ q = Activating(r)
    \/ \E healthy \in BOOLEAN:
         CanReportHealth(r) /\ q = HealthReported(r, healthy)
    \/ CanDisable(r) /\ q = Transitioned(r, "Disabled")
    \/ CanEnable(r) /\ q = Transitioned(r, "Active")
    \/ CanRemove(r) /\ q = Transitioned(r, "Removed")
    \/ CanRollback(r) /\ q = RolledBack(r)
    \/ CanQuarantine(r) /\ q = Quarantined(r)

\* An operation keeps the transaction's release, or is an import.
SameRelease(r, q) ==
    \/ q.cand = r.cand
    \/ /\ q.cand \in Releases /\ CanImport(r, q.cand)
       /\ q.content = "Discovered"

\* An empty record is coherent.
LEMMA NoRecordCoherent == Coherent(NoRecord)
  BY PackagesAssumption
  DEF Coherent, NoRecord, Records, PackageStates, ContentStates, Digests

\* A spoiled record parts the two digests and may.
LEMMA SpoilCoherent ==
  ASSUME NEW r, Coherent(r), r.cand # None
  PROVE  Coherent(Spoiled(r)) /\ Spoiled(r).cand = r.cand
<1>1. PICK q: q = Spoiled(r)
  OBVIOUS
<1>2. /\ q \in Records /\ q.state = "Quarantined" /\ q.content = "Quarantined"
      /\ q.cand = r.cand /\ q.back = r.back
  BY <1>1 DEF Coherent, Spoiled, Records, PackageStates, ContentStates
<1> QED BY <1>1, <1>2 DEF Coherent

\* Every operation of the manager makes a coherent record of a coherent one,
\* and changes its release only by an import.
LEMMA MakesCoherent ==
  ASSUME NEW r, Coherent(r), NEW q, Makes(r, q)
  PROVE  Coherent(q) /\ SameRelease(r, q)
<1>0. /\ r \in Records /\ r.state \in PackageStates /\ r.content \in ContentStates
      /\ r.digest \in Digests /\ r.prev \in Digests /\ r.cand \in Digests
      /\ r.contentPrev \in Digests /\ r.back \in PackageStates
      /\ r.present \in BOOLEAN /\ r.received \in 0..ContentBytes
  BY DEF Coherent, Records
<1>1. ASSUME NEW c \in Releases, CanImport(r, c), q = Imported(r, c)
      PROVE  Coherent(q) /\ SameRelease(r, q)
  <2>1. /\ q \in Records /\ q.cand = c /\ q.digest = c /\ q.content = "Discovered"
        /\ q.prev = q.contentPrev /\ q.state = r.state /\ q.back = r.state
    BY <1>0, <1>1, PackagesAssumption
    DEF Imported, Updating, Records, ContentStates, Digests
  <2>2. r.state \in {"Active", "Disabled", "Removed"}
    BY <1>1 DEF CanImport, Updating
  <2> QED BY <1>1, <2>1, <2>2, PackagesAssumption DEF Coherent, SameRelease
<1>2. ASSUME NEW n \in Nat, r.present, CanReceive(r, n), q = Received(r, n)
      PROVE  Coherent(q) /\ SameRelease(r, q)
  <2>1. r.content \in {"Discovered", "Receiving"}
    BY <1>0, <1>2 DEF CanReceive, Opened, Records
  <2>2. Sound(r, Releases, Releases)
    BY <1>0, <2>1 DEF Sound
  <2>3. q \in Records
    BY <1>2, <2>2, ReceiveSound DEF Sound
  <2>4. /\ q.cand = r.cand /\ q.digest = r.digest /\ q.prev = r.prev
        /\ q.contentPrev = r.contentPrev /\ q.back = r.back
        /\ \/ q.content = "Staged" /\ q.state = "Staged"
           \/ q.content = "Receiving" /\ q.state = r.state
    BY <1>0, <1>2 DEF Received, Records
  <2> QED BY <1>2, <2>1, <2>3, <2>4 DEF Coherent, SameRelease
<1>3. CASE r.present /\ q = Spoiled(r)
  BY <1>3, SpoilCoherent DEF Coherent, SameRelease
<1>4. ASSUME NEW c \in Releases, r.present, q = PayloadVerified(r, c)
      PROVE  Coherent(q) /\ SameRelease(r, q)
  <2>1. CASE r.state # "Staged"
    BY <1>4, <2>1 DEF PayloadVerified, SameRelease
  <2>2. CASE r.state = "Staged" /\ c = r.cand
    <3>1. q = [r EXCEPT !.state = "Verified", !.content = "Verified"]
      BY <1>4, <2>2 DEF PayloadVerified
    <3>2. /\ q \in Records /\ q.state = "Verified" /\ q.content = "Verified"
          /\ q.cand = r.cand /\ q.back = r.back /\ q.digest = r.digest
          /\ q.prev = r.prev /\ q.contentPrev = r.contentPrev
      BY <1>0, <3>1 DEF Records, PackageStates, ContentStates
    <3> QED BY <1>4, <2>2, <3>2 DEF Coherent, SameRelease
  <2>3. CASE r.state = "Staged" /\ c # r.cand
    BY <1>3, <1>4, <2>3 DEF PayloadVerified
  <2> QED BY <2>1, <2>2, <2>3
<1>5. CASE CanActivate(r) /\ q = Activating(r)
  <2>1. /\ q \in Records /\ q.state = r.state /\ q.content = "Activating"
        /\ q.cand = r.cand /\ q.back = r.back /\ q.digest = r.digest
        /\ q.prev = r.prev /\ q.contentPrev = r.contentPrev
    BY <1>0, <1>5 DEF Activating, Records, ContentStates
  <2> QED BY <1>5, <2>1 DEF Coherent, SameRelease, CanActivate
<1>6. ASSUME NEW healthy \in BOOLEAN, CanReportHealth(r),
             q = HealthReported(r, healthy)
      PROVE  Coherent(q) /\ SameRelease(r, q)
  <2>1. /\ q \in Records /\ q.cand = r.cand /\ q.back = r.back
        /\ q.prev = r.prev /\ q.contentPrev = r.contentPrev
        /\ \/ /\ q.content = "Healthy" /\ q.state = "Active"
              /\ q.digest = r.digest
           \/ q.content = "RolledBack" /\ q.state = r.back
    BY <1>0, <1>6
    DEF HealthReported, Records, PackageStates, ContentStates
  <2> QED BY <1>6, <2>1 DEF Coherent, SameRelease, CanReportHealth
<1>7. ASSUME NEW state \in {"Disabled", "Active", "Removed"},
             r.state \in {"Active", "Disabled", "Quarantined"},
             q = Transitioned(r, state)
      PROVE  Coherent(q) /\ SameRelease(r, q)
  <2>1. /\ q \in Records /\ q.cand = r.cand /\ q.back = r.state
        /\ q.prev = r.prev /\ q.contentPrev = r.contentPrev
        /\ q.content = r.content /\ q.state = state /\ q.digest = r.digest
    BY <1>0, <1>7 DEF Transitioned, Records, PackageStates
  <2> QED BY <1>7, <2>1 DEF Coherent, SameRelease
<1>8. CASE CanRollback(r) /\ q = RolledBack(r)
  <2>1. /\ q \in Records /\ q.cand = r.cand /\ q.back = r.back
        /\ q.content = "RolledBack" /\ q.state = "Active"
    BY <1>0, <1>8 DEF RolledBack, Records, PackageStates, ContentStates
  <2> QED BY <1>8, <2>1 DEF Coherent, SameRelease, CanRollback
<1>9. CASE CanQuarantine(r) /\ q = Quarantined(r)
  <2>1. /\ q \in Records /\ q.cand = r.cand /\ q.back = r.back
        /\ q.prev = r.prev /\ q.contentPrev = r.contentPrev
        /\ q.content = r.content /\ q.state = "Quarantined"
        /\ q.digest = r.digest
    BY <1>0, <1>9 DEF Quarantined, Records, PackageStates
  <2> QED BY <1>9, <2>1 DEF Coherent, SameRelease, CanQuarantine
<1> QED
  BY <1>1, <1>2, <1>3, <1>4, <1>5, <1>6, <1>7, <1>8, <1>9
  DEF Makes, CanDisable, CanEnable, CanRemove

\* A refused chunk leaves the record coherent.
LEMMA OpenCoherent ==
  ASSUME NEW r, Coherent(r), r.present
  PROVE  Coherent(Opened(r)) /\ Opened(r).cand = r.cand
         /\ Opened(r).state = r.state
<1>1. CASE r.content = "Discovered"
  <2>1. PICK q: q = Opened(r)
    OBVIOUS
  <2>2. /\ q \in Records /\ q.cand = r.cand /\ q.back = r.back
        /\ q.prev = r.prev /\ q.contentPrev = r.contentPrev
        /\ q.content = "Receiving" /\ q.state = r.state
        /\ q.digest = r.digest /\ q.present = r.present
    BY <1>1, <2>1 DEF Opened, Coherent, Records, ContentStates
  <2> QED BY <1>1, <2>1, <2>2 DEF Coherent
<1>2. CASE r.content # "Discovered"
  BY <1>2 DEF Opened
<1> QED BY <1>1, <1>2

------------------------------------------------------------------------------
(* What every step does to the two records *)

\* A request ends with both records as they were, with a chunk refused, with
\* the power cut, with what its operation made in both, or with a fault.
RecordsEffect ==
    \/ rec' = rec /\ file' = file /\ up' = up
    \/ rec.present /\ rec' = Opened(rec) /\ file' = file /\ up' = up
    \/ rec' = NoRecord /\ file' = file /\ up' = FALSE
    \/ \E q: Makes(rec, q) /\ rec' = q /\ file' = q /\ up' = up
    \/ /\ Fault
       /\ \E q: Makes(rec, q) /\ file' \in {q, file, NoRecord}
       /\ \/ rec' = rec /\ up' = up
          \/ rec' = NoRecord /\ up' = FALSE

\* A save of what an operation makes leaves the records as RecordsEffect says.
LEMMA SaveRecords ==
  ASSUME NEW r, NEW d, NEW undone, Save(r, d, undone), Makes(rec, r)
  PROVE  RecordsEffect
  BY DEF Save, Refuse, PowerCut, RecordsEffect

\* So does an operation that moves directories first,
LEMMA TransactRecords ==
  ASSUME NEW op, NEW can, NEW r, NEW refused, NEW undo,
         Transact(op, can, r, refused, undo), can => Makes(rec, r)
  PROVE  RecordsEffect
<1>1. CASE \E d, undone: can /\ Save(r, d, undone)
  BY <1>1, SaveRecords
<1>2. CASE \E d: Refuse(d)
  BY <1>2 DEF Refuse, RecordsEffect
<1>3. CASE PowerCut /\ UNCHANGED file
  BY <1>3 DEF PowerCut, RecordsEffect
<1> QED BY <1>1, <1>2, <1>3 DEF Transact, StorageFails

\* every request without a confirmation,
LEMMA PlainRecords ==
  ASSUME PlainRequest
  PROVE  RecordsEffect /\ up
<1>1. ASSUME NEW c \in Releases, Import(c)
      PROVE  RecordsEffect /\ up
  <2>1. Makes(rec, Imported(rec, c))
    BY <1>1 DEF Import, Update, Makes
  <2> QED BY <1>1, <2>1, SaveRecords DEF Import, Update
<1>2. ASSUME NEW n \in 0..ContentBytes + 1, Stage(n)
      PROVE  RecordsEffect /\ up
  <2>1. n \in Nat /\ rec.present /\ CanReceive(rec, n)
    BY <1>2, PackagesAssumption DEF Stage, Update
  <2>2. Makes(rec, Received(rec, n))
    BY <2>1 DEF Makes
  <2> QED BY <1>2, <2>2, SaveRecords DEF Stage, Update
<1>3. ASSUME NEW n \in 0..ContentBytes + 1, StageRefused(n)
      PROVE  RecordsEffect /\ up
  BY <1>3 DEF StageRefused, RecordsEffect
<1>4. ASSUME NEW s \in Sessions, NEW c \in Releases, Verify(s, c)
      PROVE  RecordsEffect /\ up
  <2>1. Makes(rec, PayloadVerified(rec, c)) /\ up
    BY <1>4 DEF Verify, Makes
  <2>2. \E d, undone: Save(PayloadVerified(rec, c), d, undone)
    BY <1>4 DEF Verify
  <2> QED BY <2>1, <2>2, SaveRecords
<1>5. ASSUME NEW c \in Releases, VerifyQuarantineFails(c)
      PROVE  RecordsEffect /\ up
  <2>1. Makes(rec, PayloadVerified(rec, c)) /\ up
    BY <1>5 DEF VerifyQuarantineFails, Makes
  <2>2. \/ SavedOrKept(PayloadVerified(rec, c)) /\ UNCHANGED up
        \/ PowerCut /\ UNCHANGED file
    BY <1>5 DEF VerifyQuarantineFails
  <2> QED BY <2>1, <2>2 DEF SavedOrKept, PowerCut, RecordsEffect
<1>6. CASE VerifyNoArchive
  <2>1. Makes(rec, Spoiled(rec))
    BY <1>6 DEF VerifyNoArchive, Update, Makes
  <2> QED BY <1>6, <2>1, SaveRecords DEF VerifyNoArchive, Update
<1>7. CASE VerifyExtractFails
  <2>1. Makes(rec, Spoiled(rec)) /\ up
    BY <1>7 DEF VerifyExtractFails, Makes
  <2>2. \/ SavedOrKept(Spoiled(rec)) /\ UNCHANGED up
        \/ PowerCut /\ UNCHANGED file
    BY <1>7 DEF VerifyExtractFails
  <2> QED BY <2>1, <2>2 DEF SavedOrKept, PowerCut, RecordsEffect
<1>8. ASSUME NEW healthy \in BOOLEAN, Health(healthy)
      PROVE  RecordsEffect /\ up
  <2>1. \E op, refused, undo:
          Transact(op, CanReportHealth(rec), HealthReported(rec, healthy),
                   refused, undo)
    BY <1>8 DEF Health
  <2>2. CanReportHealth(rec) => Makes(rec, HealthReported(rec, healthy))
    BY DEF Makes
  <2> QED BY <1>8, <2>1, <2>2, TransactRecords DEF Health
<1>9. CASE Disable
  <2>1. Makes(rec, Transitioned(rec, "Disabled"))
    BY <1>9 DEF Disable, Update, Makes
  <2> QED BY <1>9, <2>1, SaveRecords DEF Disable, Update
<1>10. CASE Quarantine
  <2>1. \E op, refused, undo:
          Transact(op, CanQuarantine(rec), Quarantined(rec), refused, undo)
    BY <1>10 DEF Quarantine
  <2>2. CanQuarantine(rec) => Makes(rec, Quarantined(rec))
    BY DEF Makes
  <2> QED BY <1>10, <2>1, <2>2, TransactRecords DEF Quarantine
<1> QED
  BY <1>1, <1>2, <1>3, <1>4, <1>5, <1>6, <1>7, <1>8, <1>9, <1>10
  DEF PlainRequest

\* and every request with one.
LEMMA ConfirmedRecords ==
  ASSUME ConfirmedRequest
  PROVE  RecordsEffect /\ up
<1> PICK s \in Sessions:
        \/ \E c \in Releases: Ask(s, "ACTIVATE", c)
        \/ \E op \in {"ENABLE", "REMOVE", "ROLLBACK"}: Ask(s, op, None)
        \/ Expire(s)
        \/ \E answer \in BOOLEAN:
             \/ \E c \in Releases: Activate(s, c, answer)
             \/ Enable(s, answer) \/ Remove(s, answer) \/ Rollback(s, answer)
  BY DEF ConfirmedRequest
<1>1. ASSUME NEW op, NEW c, Ask(s, op, c)
      PROVE  RecordsEffect /\ up
  BY <1>1 DEF Ask, RecordsEffect
<1>2. CASE Expire(s)
  BY <1>2 DEF Expire, RecordsEffect
<1>3. ASSUME NEW c \in Releases, NEW answer \in BOOLEAN, Activate(s, c, answer)
      PROVE  RecordsEffect /\ up
  <2>1. \E op, refused, undo:
          Transact(op, CanActivate(rec), Activating(rec), refused, undo)
    BY <1>3 DEF Activate
  <2>2. CanActivate(rec) => Makes(rec, Activating(rec))
    BY DEF Makes
  <2> QED BY <1>3, <2>1, <2>2, TransactRecords DEF Activate, Granted
<1>4. ASSUME NEW answer \in BOOLEAN, Enable(s, answer)
      PROVE  RecordsEffect /\ up
  <2>1. CASE Update(CanEnable(rec), Transitioned(rec, "Active"))
    <3>1. Makes(rec, Transitioned(rec, "Active"))
      BY <2>1 DEF Update, Makes
    <3> QED BY <2>1, <3>1, SaveRecords DEF Update
  <2>2. CASE UNCHANGED <<up, rec, file, disk, faults>>
    BY <1>4, <2>2 DEF Enable, Granted, RecordsEffect
  <2> QED BY <1>4, <2>1, <2>2 DEF Enable
<1>5. ASSUME NEW answer \in BOOLEAN, Remove(s, answer)
      PROVE  RecordsEffect /\ up
  <2>1. \E op, refused, undo:
          Transact(op, CanRemove(rec), Transitioned(rec, "Removed"), refused,
                   undo)
    BY <1>5 DEF Remove
  <2>2. CanRemove(rec) => Makes(rec, Transitioned(rec, "Removed"))
    BY DEF Makes
  <2> QED BY <1>5, <2>1, <2>2, TransactRecords DEF Remove, Granted
<1>6. ASSUME NEW answer \in BOOLEAN, Rollback(s, answer)
      PROVE  RecordsEffect /\ up
  <2>1. \E op, refused, undo:
          Transact(op, CanRollback(rec), RolledBack(rec), refused, undo)
    BY <1>6 DEF Rollback
  <2>2. CanRollback(rec) => Makes(rec, RolledBack(rec))
    BY DEF Makes
  <2> QED BY <1>6, <2>1, <2>2, TransactRecords DEF Rollback, Granted
<1> QED BY <1>1, <1>2, <1>3, <1>4, <1>5, <1>6

\* Nothing but a fault counts as one.
LEMMA FaultsStep ==
  ASSUME Next
  PROVE  faults' = faults \/ Fault
<1>1. \A r, d, undone: Save(r, d, undone) => faults' = faults \/ Fault
  BY DEF Save
<1>2. \A op, can, r, refused, undo:
        Transact(op, can, r, refused, undo) => faults' = faults \/ Fault
  BY <1>1 DEF Transact, StorageFails
<1>3. CASE PlainRequest
  BY <1>1, <1>2, <1>3
  DEF PlainRequest, Import, Stage, StageRefused, Verify, VerifyQuarantineFails,
      VerifyNoArchive, VerifyExtractFails, Health, Disable, Quarantine, Update
<1>4. CASE ConfirmedRequest
  BY <1>1, <1>2, <1>4
  DEF ConfirmedRequest, Ask, Expire, Activate, Enable, Remove, Rollback, Update
<1>5. CASE Reset
  BY <1>5 DEF Reset
<1>6. CASE Boot
  BY <1>6 DEF Boot, BootSave
<1> QED BY <1>3, <1>4, <1>5, <1>6 DEF Next

\* The record a start-up ends with.
BootResult(r) ==
    \/ r = file /\ (file.state = "Removed" \/ ~CanReportHealth(file))
    \/ r = Spoiled(file) /\ file.state # "Removed"
    \/ r = HealthReported(file, FALSE) /\ CanReportHealth(file)

\* A start-up without a fault saves it if it checks; a fault may lose the file.
LEMMA BootRecords ==
  ASSUME Boot
  PROVE  /\ ~up
         /\ \/ \E r: /\ BootResult(r) /\ up' = TRUE /\ rec' = r
                     /\ file' = IF PersistedValid(r) THEN r ELSE file
            \/ /\ Fault
               /\ \/ up' = TRUE /\ BootResult(rec')
                  \/ up' = FALSE /\ rec' = NoRecord
               /\ \/ file' \in {file, NoRecord}
                  \/ up' = TRUE /\ file' = rec'
<1> DEFINE Goal ==
         \/ \E r: /\ BootResult(r) /\ up' = TRUE /\ rec' = r
                  /\ file' = IF PersistedValid(r) THEN r ELSE file
         \/ /\ Fault
            /\ \/ up' = TRUE /\ BootResult(rec')
               \/ up' = FALSE /\ rec' = NoRecord
            /\ \/ file' \in {file, NoRecord}
               \/ up' = TRUE /\ file' = rec'
<1>1. ASSUME NEW r, NEW d, BootSave(r, d), BootResult(r)
      PROVE  Goal
  BY <1>1 DEF BootSave, PowerCut
<1>2. CASE file.state = "Removed"
  <2>1. BootSave(file, disk) /\ BootResult(file)
    BY <1>2 DEF Boot, BootResult
  <2> QED BY <1>1, <2>1 DEF Boot
<1>3. CASE file.state # "Removed"
  <2>1. CASE \E x: BootSave(IF ~x.ok THEN Spoiled(file)
                            ELSE IF CanReportHealth(file)
                            THEN HealthReported(file, FALSE) ELSE file, x.disk)
    <3>1. PICK x: BootSave(IF ~x.ok THEN Spoiled(file)
                           ELSE IF CanReportHealth(file)
                           THEN HealthReported(file, FALSE) ELSE file, x.disk)
      BY <2>1
    <3>2. BootResult(IF ~x.ok THEN Spoiled(file)
                     ELSE IF CanReportHealth(file)
                     THEN HealthReported(file, FALSE) ELSE file)
      BY <1>3 DEF BootResult
    <3>3. Goal
      <4> HIDE DEF Goal
      <4> QED BY <1>1, <3>1, <3>2
    <3> QED BY <3>3 DEF Boot
  <2>2. CASE /\ Fault
             /\ \/ /\ up' = TRUE /\ rec' = Spoiled(file)
                   /\ file' = IF PersistedValid(rec') THEN rec' ELSE file
                \/ PowerCut /\ UNCHANGED file
    <3>1. Goal
      BY <1>3, <2>2 DEF BootResult, PowerCut
    <3> QED BY <3>1 DEF Boot
  <2> QED BY <1>3, <2>1, <2>2 DEF Boot
<1> QED BY <1>2, <1>3

\* A start-up ends with a coherent record of the release that was there.
LEMMA BootCoherent ==
  ASSUME Coherent(file), NEW r, BootResult(r)
  PROVE  Coherent(r) /\ r.cand = file.cand
<1>1. CASE r = file
  BY <1>1
<1>2. CASE r = Spoiled(file) /\ file.state # "Removed"
  BY <1>2, SpoilCoherent DEF Coherent
<1>3. CASE r = HealthReported(file, FALSE) /\ CanReportHealth(file)
  <2>1. Makes(file, r)
    BY <1>3 DEF Makes
  <2>2. Coherent(r)
    BY <2>1, MakesCoherent
  <2>3. r.cand = file.cand
    BY <1>3 DEF HealthReported, Coherent, Records
  <2> QED BY <2>2, <2>3
<1> QED BY <1>1, <1>2, <1>3 DEF BootResult

\* Both records are coherent, and the faults are counted.
RecordsInv == Coherent(rec) /\ Coherent(file) /\ faults \in 0..MaxFaults

\* A device without the package has empty records.
LEMMA RecordsInit == Init => RecordsInv
  BY NoRecordCoherent, PackagesAssumption DEF Init, RecordsInv

\* Every step keeps the records coherent and the faults within the bound.
LEMMA RecordsNext ==
  ASSUME RecordsInv, [Next]_vars
  PROVE  RecordsInv'
<1>1. CASE UNCHANGED vars
  BY <1>1 DEF vars, RecordsInv
<1>2. CASE Next
  <2>1. faults' \in 0..MaxFaults
    BY <1>2, FaultsStep, PackagesAssumption DEF RecordsInv, Fault
  <2>2. Coherent(rec) /\ Coherent(file)
    BY DEF RecordsInv
  <2>3. CASE RecordsEffect
    BY <2>1, <2>2, <2>3, NoRecordCoherent, MakesCoherent, OpenCoherent
    DEF RecordsEffect, RecordsInv
  <2>4. CASE Reset
    BY <2>1, <2>2, <2>4, NoRecordCoherent DEF Reset, PowerCut, RecordsInv
  <2>5. CASE Boot
    BY <2>1, <2>2, <2>5, BootRecords, BootCoherent, NoRecordCoherent
    DEF RecordsInv
  <2> QED BY <1>2, <2>3, <2>4, <2>5, PlainRecords, ConfirmedRecords DEF Next
<1> QED BY <1>1, <1>2

\* The records stay coherent.
LEMMA RecordsInvariance == Spec => []RecordsInv
<1>1. RecordsInv /\ [Next]_vars => RecordsInv'
  BY RecordsNext
<1> QED BY RecordsInit, <1>1, PTL DEF Spec

\* poison_packages_on_system_start: a start-up that meets no fault resolves an
\* interrupted activation in the state file too, for every number of releases
\* and faults before it: the spoiled or rolled-back record always passes
\* poison_package_record_persisted_valid, because an activating record still
\* names the transaction's two digests.
THEOREM StartupAlwaysResolves == Spec => StartupResolves
<1>1. ASSUME RecordsInv, Next, ~up, up', faults' = faults
      PROVE  file'.content # "Activating" \/ file'.state = "Removed"
  <2>1. Boot
    BY <1>1, PlainRecords, ConfirmedRecords DEF Next, Reset
  <2>2. Coherent(file) /\ faults \in Nat
    BY <1>1, PackagesAssumption DEF RecordsInv
  <2>3. ~Fault
    BY <1>1, <2>2 DEF Fault
  <2>4. PICK r: /\ BootResult(r)
                /\ file' = IF PersistedValid(r) THEN r ELSE file
    BY <2>1, <2>3, BootRecords
  <2>5. CASE file.content # "Activating" \/ file.state = "Removed"
    <3>1. CASE r = file
      BY <2>4, <2>5, <3>1
    <3>2. CASE r = Spoiled(file)
      BY <2>2, <2>4, <2>5, <3>2 DEF Spoiled, Coherent, Records
    <3>3. CASE r = HealthReported(file, FALSE) /\ CanReportHealth(file)
      BY <2>2, <2>4, <2>5, <3>3 DEF HealthReported, Coherent, Records
    <3> QED BY <2>4, <3>1, <3>2, <3>3 DEF BootResult
  <2>6. CASE file.content = "Activating" /\ file.state # "Removed"
    <3>1. file.digest = file.cand /\ file.prev = file.contentPrev
      BY <2>2, <2>6 DEF Coherent
    <3>2. CASE r = Spoiled(file)
      BY <2>2, <2>4, <3>1, <3>2 DEF Spoiled, PersistedValid, Coherent, Records
    <3>3. CASE r = HealthReported(file, FALSE)
      BY <2>2, <2>4, <3>1, <3>3
      DEF HealthReported, PersistedValid, Coherent, Records
    <3> QED BY <2>4, <2>6, <3>2, <3>3 DEF BootResult, CanReportHealth
  <2> QED BY <2>5, <2>6
<1>2. RecordsInv /\ [Next]_vars =>
        [~up /\ up' /\ faults' = faults
           => file'.content # "Activating" \/ file'.state = "Removed"]_vars
  BY <1>1
<1> QED BY RecordsInvariance, <1>2, PTL DEF Spec, StartupResolves

------------------------------------------------------------------------------
(* The sequence floor, without faults inside handlers *)

\* While the device runs, an installed package in the file is the transaction
\* in RAM, which is then not a removed one: imports compare with its sequence.
\* Faults break this: a HEALTH that is accepted for a Removed record and whose
\* save fails leaves the two apart.
FloorInv ==
    up /\ Installed(file) => rec.cand = file.cand /\ rec.state # "Removed"

\* What a step without a fault does to the file of an installed package.
FloorStep ==
    Installed(file) /\ file'.present
        => Sequence[file'.cand] >= Sequence[file.cand]

\* An installed record names a release.
LEMMA InstalledRelease ==
  ASSUME NEW r, Coherent(r), Installed(r)
  PROVE  r.cand \in Releases /\ Sequence[r.cand] \in Nat
  BY PackagesAssumption DEF Coherent, Installed, Records, Digests

\* Without faults, every step keeps the floor and the records together.
LEMMA FloorKept ==
  ASSUME MaxFaults = 0, RecordsInv, FloorInv, [Next]_vars
  PROVE  FloorInv' /\ FloorStep
<1>0. /\ ~Fault /\ Coherent(rec) /\ Coherent(file)
      /\ Installed(file) => file.cand \in Releases /\ Sequence[file.cand] \in Nat
  BY InstalledRelease DEF RecordsInv, Fault
<1>1. CASE UNCHANGED vars \/ Reset
  BY <1>0, <1>1 DEF vars, Reset, PowerCut, FloorInv, FloorStep, Installed
<1>2. CASE RecordsEffect /\ up
  <2>1. CASE rec' = rec /\ file' = file /\ up' = up
    BY <1>0, <2>1 DEF FloorInv, FloorStep, Installed
  <2>2. CASE rec.present /\ rec' = Opened(rec) /\ file' = file /\ up' = up
    BY <1>0, <2>2, OpenCoherent DEF FloorInv, FloorStep, Installed
  <2>3. CASE rec' = NoRecord /\ file' = file /\ up' = FALSE
    BY <1>0, <2>3 DEF FloorInv, FloorStep, Installed
  <2>4. CASE \E q: Makes(rec, q) /\ rec' = q /\ file' = q /\ up' = up
    <3>1. PICK q: Makes(rec, q) /\ rec' = q /\ file' = q /\ up' = up
      BY <2>4
    <3>2. FloorInv'
      BY <3>1 DEF FloorInv, Installed
    <3>3. SameRelease(rec, q)
      BY <1>0, <3>1, MakesCoherent
    <3>4. ASSUME Installed(file), q.present
          PROVE  Sequence[q.cand] >= Sequence[file.cand]
      <4>1. rec.cand = file.cand /\ rec.state # "Removed"
        BY <1>2, <3>4 DEF FloorInv
      <4>2. CASE q.cand = rec.cand
        BY <1>0, <3>4, <4>1, <4>2
      <4>3. CASE q.cand \in Releases /\ CanImport(rec, q.cand)
        <5>1. Sequence[q.cand] > Sequence[file.cand]
          BY <4>1, <4>3 DEF CanImport, Updating
        <5>2. Sequence[q.cand] \in Nat
          BY <4>3, PackagesAssumption
        <5> QED BY <1>0, <3>4, <5>1, <5>2
      <4> QED BY <3>3, <4>2, <4>3 DEF SameRelease
    <3> QED BY <3>1, <3>2, <3>4 DEF FloorStep
  <2> QED BY <1>0, <1>2, <2>1, <2>2, <2>3, <2>4 DEF RecordsEffect
<1>3. CASE Boot
  <2>1. PICK r: /\ BootResult(r) /\ up' = TRUE /\ rec' = r
                /\ file' = IF PersistedValid(r) THEN r ELSE file
    BY <1>0, <1>3, BootRecords
  <2>2. Coherent(r) /\ r.cand = file.cand
    BY <1>0, <2>1, BootCoherent
  <2>3. FloorStep
    BY <1>0, <2>1, <2>2 DEF FloorStep
  <2>4. CASE file' = r
    BY <2>1, <2>3, <2>4 DEF FloorInv, Installed
  <2>5. CASE file' = file
    <3>1. Installed(file) => r.state # "Removed"
      <4>1. CASE r = file
        BY <4>1 DEF Installed
      <4>2. CASE r = Spoiled(file)
        BY <1>0, <4>2 DEF Spoiled, Coherent, Records
      <4>3. CASE CanReportHealth(file)
        BY <4>3 DEF Installed, CanReportHealth
      <4> QED BY <2>1, <4>1, <4>2, <4>3 DEF BootResult
    <3> QED BY <2>1, <2>2, <2>3, <2>5, <3>1 DEF FloorInv, Installed
  <2> QED BY <2>1, <2>4, <2>5
<1> QED BY <1>1, <1>2, <1>3, PlainRecords, ConfirmedRecords DEF Next

\* poison_package_manager_import: as long as no call fails and the power is
\* only cut between handlers, the floor of an installed package never sinks,
\* through any number of updates, rollbacks, refusals and restarts.
THEOREM FloorRises ==
  ASSUME MaxFaults = 0
  PROVE  Spec => FloorOnlyRises
<1>1. Init => FloorInv
  BY DEF Init, FloorInv, NoRecord, Installed
<1>2. RecordsInv /\ FloorInv /\ [Next]_vars => FloorInv'
  BY FloorKept
<1>3. RecordsInv /\ FloorInv /\ [Next]_vars =>
        [Installed(file) /\ file'.present
           => Sequence[file'.cand] >= Sequence[file.cand]]_vars
  BY FloorKept DEF FloorStep
<1> QED BY RecordsInvariance, <1>1, <1>2, <1>3, PTL DEF Spec, FloorOnlyRises

------------------------------------------------------------------------------
(* The directories. Trail is a recursive function over the calls of a plan;
   what it does is shown by the least call at which it would not. *)

\* Every set of numbers has a least one.
LEMMA Least ==
  ASSUME NEW S, S \subseteq Nat, S # {}
  PROVE  \E x \in S: \A y \in S: x <= y
<1> DEFINE less == {ss \in Nat \X Nat: ss[1] < ss[2]}
<1>1. less = OpToRel(<, Nat)
  BY Zenon DEF OpToRel
<1>2. IsWellFoundedOn(less, Nat)
  BY <1>1, NatLessThanWellFounded, Zenon
<1>3. PICK x \in S: \A y \in S: ~(<<y, x>> \in less)
  <2> HIDE DEF less
  <2> QED BY <1>2, WFMin
<1>4. ASSUME NEW y \in S PROVE x <= y
  <2>1. <<y, x>> \in Nat \X Nat /\ y \in Nat /\ x \in Nat
    BY <1>3
  <2>2. <<y, x>> \notin less
    BY <1>3
  <2>3. ~(<<y, x>>[1] < <<y, x>>[2])
    BY <2>1, <2>2
  <2> QED BY <2>1, <2>3
<1> QED BY <1>3, <1>4

\* The recursive definition of Trail, as an equation, has a solution.
Solves(x, d, plan, n) ==
    x = [i \in 0..n |-> IF i = 0 THEN [ok |-> TRUE, disk |-> d]
                        ELSE Step(x[i - 1], plan[i])]

\* By the least number of calls for which there would be none.
LEMMA TrailExists ==
  ASSUME NEW d, NEW plan, NEW n \in Nat
  PROVE  \E x: Solves(x, d, plan, n)
<1> DEFINE start == [ok |-> TRUE, disk |-> d]
           bad == {m \in Nat: ~(\E x: Solves(x, d, plan, m))}
<1> HIDE DEF start
<1>1. ASSUME bad # {}
      PROVE  FALSE
  <2>0. bad \subseteq Nat
    OBVIOUS
  <2>1. PICK m \in bad: \A y \in bad: m <= y
    <3> HIDE DEF bad
    <3> QED BY <1>1, <2>0, Least
  <2>2. CASE m = 0
    <3>1. Solves([i \in 0..0 |-> start], d, plan, 0)
      BY DEF Solves, start
    <3> QED BY <2>1, <2>2, <3>1
  <2>3. CASE m # 0
    <3>1. m \in Nat /\ m - 1 \in Nat /\ m - 1 \notin bad
      <4> HIDE DEF bad
      <4> QED BY <2>0, <2>1, <2>3
    <3>2. PICK x: Solves(x, d, plan, m - 1)
      BY <3>1
    <3> DEFINE y == [i \in 0..m |-> IF i = m THEN Step(x[m - 1], plan[m])
                                    ELSE x[i]]
    <3>3. ASSUME NEW i \in 0..m
          PROVE  y[i] = IF i = 0 THEN start ELSE Step(y[i - 1], plan[i])
      <4>1. CASE i = m
        BY <2>3, <3>1, <4>1
      <4>2. CASE i # m
        <5>1. i \in 0..(m - 1)
          BY <3>1, <4>2
        <5>2. x[i] = IF i = 0 THEN start ELSE Step(x[i - 1], plan[i])
          BY <3>2, <5>1 DEF Solves, start
        <5>3. y[i] = x[i] /\ (i # 0 => y[i - 1] = x[i - 1])
          BY <3>1, <4>2, <5>1
        <5> QED BY <5>2, <5>3
      <4> QED BY <4>1, <4>2
    <3>4. Solves(y, d, plan, m)
      BY <3>3 DEF Solves, start
    <3> QED BY <2>1, <3>4
  <2> QED BY <2>2, <2>3
<1> QED BY <1>1

\* Hence Trail is one: it starts at d and each call makes the next disk.
LEMMA TrailIs ==
  ASSUME NEW d, NEW plan, Len(plan) \in Nat
  PROVE  /\ Trail(d, plan)[0].ok /\ Trail(d, plan)[0].disk = d
         /\ \A i \in 1..Len(plan):
              Trail(d, plan)[i] = Step(Trail(d, plan)[i - 1], plan[i])
<1>1. \E x: Solves(x, d, plan, Len(plan))
  BY TrailExists
<1>2. Solves(Trail(d, plan), d, plan, Len(plan))
  BY <1>1 DEF Trail, Solves
<1>3. PICK x, n: x = Trail(d, plan) /\ n = Len(plan)
  OBVIOUS
<1>4. Solves(x, d, plan, n) /\ n \in Nat
  BY <1>2, <1>3
<1>5. ASSUME NEW i \in 0..n
      PROVE  x[i] = IF i = 0 THEN [ok |-> TRUE, disk |-> d]
                    ELSE Step(x[i - 1], plan[i])
  BY <1>4 DEF Solves
<1>6. x[0].ok /\ x[0].disk = d
  <2>1. 0 \in 0..n
    BY <1>4
  <2>2. x[0] = IF 0 = 0 THEN [ok |-> TRUE, disk |-> d]
               ELSE Step(x[0 - 1], plan[0])
    BY <1>5, <2>1, Zenon
  <2>3. x[0] = [ok |-> TRUE, disk |-> d]
    BY <2>2, Zenon
  <2> QED BY <2>3
<1>7. \A i \in 1..n: x[i] = Step(x[i - 1], plan[i])
  BY <1>4, <1>5
<1> QED BY <1>3, <1>6, <1>7

Closed(G, C) ==
    \A e \in G, call \in C: CallOk(e, call) => Called(e, call) \in G

\* Disks that the calls of a plan do not leave are not left by it, from any
\* of its calls on.
LEMMA TrailStays ==
  ASSUME NEW G, NEW C, Closed(G, C), NEW d, NEW plan \in Seq(C),
         NEW k \in 0..Len(plan),
         Trail(d, plan)[k].disk \in G
  PROVE  \A i \in k..Len(plan): Trail(d, plan)[i].disk \in G
<1> DEFINE n == Len(plan)
           T == Trail(d, plan)
           bad == {i \in k..n: T[i].disk \notin G}
<1>0. n \in Nat /\ k \in Nat /\ \A i \in 1..n: plan[i] \in C
  OBVIOUS
<1>1. \A i \in 1..Len(plan):
        Trail(d, plan)[i] = Step(Trail(d, plan)[i - 1], plan[i])
  BY <1>0, TrailIs
<1> HIDE DEF n, T
<1>2. ASSUME bad # {}
      PROVE  FALSE
  <2>1. PICK i \in bad: \A y \in bad: i <= y
    <3>1. bad \subseteq Nat
      BY <1>0
    <3> HIDE DEF bad
    <3> QED BY <1>2, <3>1, Least
  <2>2. i # k
    BY <2>1 DEF T
  <2>3. i - 1 \in k..n /\ i \in 1..n
    BY <1>0, <2>1, <2>2
  <2>4. T[i - 1].disk \in G
    BY <1>0, <2>1, <2>3
  <2>5. T[i] = Step(T[i - 1], plan[i]) /\ plan[i] \in C
    BY <1>0, <1>1, <2>3 DEF n, T
  <2>6. T[i].disk \in G
    <3>1. CASE T[i - 1].ok /\ CallOk(T[i - 1].disk, plan[i])
      BY <2>4, <2>5, <3>1 DEF Step, Closed
    <3>2. CASE ~(T[i - 1].ok /\ CallOk(T[i - 1].disk, plan[i]))
      BY <2>4, <2>5, <3>2 DEF Step
    <3> QED BY <3>1, <3>2
  <2> QED BY <2>1, <2>6
<1>3. bad = {}
  BY <1>2
<1> QED BY <1>3 DEF n, T

\* The same of the disk a plan ends with.
LEMMA RunStays ==
  ASSUME NEW G, NEW C, Closed(G, C), NEW d \in G, NEW plan \in Seq(C)
  PROVE  Run(d, plan).disk \in G
<1>1. Len(plan) \in Nat /\ 0 \in 0..Len(plan) /\ Len(plan) \in 0..Len(plan)
  OBVIOUS
<1>2. Trail(d, plan)[0].disk \in G
  BY <1>1, TrailIs
<1>3. \A i \in 0..Len(plan): Trail(d, plan)[i].disk \in G
  BY <1>1, <1>2, TrailStays
<1> QED BY <1>1, <1>3 DEF Run

------------------------------------------------------------------------------
(* What the calls of the storage operations keep *)

Calls == Slots \X (Slots \cup {"none"})

\* The calls that take nothing out of the quarantine directory.
Forward == {call \in Calls: call[1] = "quarantine" => IsDrop(call)}

\* Disks that hold values of W, and of V outside the quarantine directory.
Kept(V, W) ==
    {d \in [Slots -> W]: \A slot \in Slots \ {"quarantine"}: d[slot] \in V}

\* A call leaves a typed disk typed; one that takes nothing out of quarantine
\* leaves the other directories with what they may hold.
LEMMA KeptClosed ==
  ASSUME NEW V, NEW W, V \subseteq W, None \in V
  PROVE  Closed(Kept(V, V), Calls) /\ Closed(Kept(V, W), Forward)
<1>1. ASSUME NEW X, NEW d \in [Slots -> X], None \in X, NEW call \in Calls
      PROVE  /\ Called(d, call) \in [Slots -> X]
             /\ call[1] \in Slots
             /\ IsDrop(call) => Called(d, call) = [d EXCEPT ![call[1]] = None]
             /\ ~IsDrop(call) =>
                  /\ call[2] \in Slots
                  /\ \A slot \in Slots: Called(d, call)[slot] =
                       IF slot = call[1] THEN None
                       ELSE IF slot = call[2] THEN d[call[1]] ELSE d[slot]
  BY <1>1 DEF Calls, Called, IsDrop
<1>2. Closed(Kept(V, V), Calls)
  <2>1. Kept(V, V) = [Slots -> V]
    BY DEF Kept
  <2> QED BY <1>1, <2>1 DEF Closed
<1>3. ASSUME NEW d \in Kept(V, W), NEW call \in Forward
      PROVE  Called(d, call) \in Kept(V, W)
  <2>1. d \in [Slots -> W] /\ call \in Calls /\ None \in W
    BY DEF Kept, Forward
  <2>2. PICK e: e = Called(d, call)
    OBVIOUS
  <2>3. CASE IsDrop(call)
    BY <1>1, <2>1, <2>2, <2>3 DEF Kept
  <2>4. CASE ~IsDrop(call)
    <3>1. call[1] \in Slots \ {"quarantine"} /\ d[call[1]] \in V
      BY <1>1, <2>1, <2>4 DEF Forward, Kept
    <3>2. \A slot \in Slots \ {"quarantine"}: e[slot] \in V
      BY <1>1, <2>1, <2>2, <2>4, <3>1 DEF Kept
    <3> QED BY <1>1, <2>1, <2>2, <3>2 DEF Kept
  <2> QED BY <2>3, <2>4
<1> QED BY <1>2, <1>3 DEF Closed

\* The storage operations, and those of them that undo one.
Operations ==
    {"none", "activate", "healthy", "unhealthy", "revert_health", "rollback",
     "remove", "restore_removed", "quarantine", "to_candidate", "to_active"}
Undoing == {"revert_health", "to_candidate", "to_active"}

\* A conditional part of a plan is a sequence of calls.
LEMMA WhenSeq ==
  ASSUME NEW C, NEW plan \in Seq(C), NEW condition
  PROVE  When(condition, plan) \in Seq(C)
  BY DEF When

\* A drop of any directory, and a move between two, out of quarantine or not.
LEMMA DropMove ==
  ASSUME NEW slot \in Slots, NEW from \in Slots, NEW to \in Slots
  PROVE  /\ Drop(slot) \in Forward /\ Move(from, to) \in Calls
         /\ from # "quarantine" => Move(from, to) \in Forward
  BY DEF Drop, Move, Forward, Calls, IsDrop

\* Every operation is a sequence of calls, which takes nothing out of
\* quarantine unless the operation undoes another.
LEMMA PlanSeq ==
  ASSUME NEW op \in Operations, NEW d
  PROVE  /\ StorageOp(op, d).plan \in Seq(Calls)
         /\ op \notin Undoing => StorageOp(op, d).plan \in Seq(Forward)
<1>0. /\ \A slot \in Slots: Drop(slot) \in Forward
      /\ \A from \in Slots, to \in Slots: Move(from, to) \in Calls
      /\ \A from \in Slots \ {"quarantine"}, to \in Slots:
           Move(from, to) \in Forward
      /\ Forward \subseteq Calls
  BY DropMove DEF Forward
<1>1. Seq(Forward) \subseteq Seq(Calls)
  BY <1>0
<1>2. \A C: \A x \in C: <<x>> \in Seq(C)
  OBVIOUS
<1>3. \A C: \A x \in C, y \in C: <<x, y>> \in Seq(C)
  OBVIOUS
<1>4. \A C: \A p \in Seq(C), q \in Seq(C): p \o q \in Seq(C)
  OBVIOUS
<1>5. \A C: \A condition: \A p \in Seq(C): When(condition, p) \in Seq(C)
  BY WhenSeq
<1>6. \A guard, plan: Operation(guard, plan).plan = plan
  BY DEF Operation
<1>7. {"active", "candidate", "rollback", "swap", "quarantine"} = Slots
  BY DEF Slots
<1> HIDE DEF Slots, Forward, Calls, Drop, Move, Operation, When
<1>8. CASE op \in {"none", "healthy"}
  <2>1. StorageOp(op, d).plan = <<>>
    BY <1>6, <1>8 DEF StorageOp, StorageHealthy
  <2> QED BY <2>1
<1>9. CASE op = "activate"
  <2>1. StorageOp(op, d).plan =
          <<Drop("rollback")>>
          \o When(Has(d, "active"), <<Move("active", "rollback")>>)
          \o <<Move("candidate", "active")>>
    BY <1>6, <1>9 DEF StorageOp, StorageActivate
  <2>2. /\ <<Drop("rollback")>> \in Seq(Forward)
        /\ <<Move("active", "rollback")>> \in Seq(Forward)
        /\ <<Move("candidate", "active")>> \in Seq(Forward)
    BY <1>0, <1>2, <1>7
  <2> QED BY <1>1, <1>4, <1>5, <2>1, <2>2
<1>10. CASE op = "unhealthy"
  <2>1. StorageOp(op, d).plan =
          <<Drop("quarantine"), Move("active", "quarantine")>>
          \o When(Has(d, "rollback"), <<Move("rollback", "active")>>)
    BY <1>6, <1>10 DEF StorageOp, StorageUnhealthy
  <2>2. /\ <<Drop("quarantine"), Move("active", "quarantine")>> \in Seq(Forward)
        /\ <<Move("rollback", "active")>> \in Seq(Forward)
    BY <1>0, <1>2, <1>3, <1>7
  <2> QED BY <1>1, <1>4, <1>5, <2>1, <2>2
<1>11. CASE op = "revert_health"
  <2>1. StorageOp(op, d).plan =
          When(Has(d, "active"), <<Move("active", "rollback")>>)
          \o <<Move("quarantine", "active")>>
    BY <1>6, <1>11 DEF StorageOp, StorageRevertHealth
  <2>2. /\ <<Move("active", "rollback")>> \in Seq(Calls)
        /\ <<Move("quarantine", "active")>> \in Seq(Calls)
    BY <1>0, <1>2, <1>7
  <2> QED BY <1>4, <1>5, <1>11, <2>1, <2>2 DEF Undoing
<1>12. CASE op = "rollback"
  <2>1. StorageOp(op, d).plan =
          <<Drop("swap"), Move("active", "swap"), Move("rollback", "active"),
            Move("swap", "rollback")>>
    BY <1>6, <1>12 DEF StorageOp, StorageRollback
  <2>2. /\ Drop("swap") \in Forward /\ Move("active", "swap") \in Forward
        /\ Move("rollback", "active") \in Forward
        /\ Move("swap", "rollback") \in Forward
    BY <1>0, <1>7
  <2>3. \A w \in Forward, x \in Forward, y \in Forward, z \in Forward:
          <<w, x, y, z>> \in Seq(Forward)
    OBVIOUS
  <2> QED BY <1>1, <2>1, <2>2, <2>3
<1>13. CASE op = "remove"
  <2>1. StorageOp(op, d).plan =
          <<Drop("rollback"), Move("active", "rollback")>>
    BY <1>6, <1>13 DEF StorageOp, StorageRemove
  <2> QED BY <1>0, <1>1, <1>3, <1>7, <2>1
<1>14. CASE op = "restore_removed"
  <2>1. StorageOp(op, d).plan = <<Move("rollback", "active")>>
    BY <1>6, <1>14 DEF StorageOp, StorageRestoreRemoved
  <2> QED BY <1>0, <1>1, <1>2, <1>7, <2>1
<1>15. CASE op = "quarantine"
  <2>1. PICK source \in {"candidate", "active"}:
          StorageOp(op, d).plan =
            <<Drop("quarantine"), Move(source, "quarantine")>>
    BY <1>6, <1>15 DEF StorageOp, StorageQuarantine
  <2> QED BY <1>0, <1>1, <1>3, <1>7, <2>1
<1>16. CASE op \in {"to_candidate", "to_active"}
  <2>1. PICK to \in {"candidate", "active"}:
          StorageOp(op, d).plan = <<Move("quarantine", to)>>
    BY <1>6, <1>16 DEF StorageOp, StorageRestoreQuarantine
  <2> QED BY <1>0, <1>2, <1>7, <1>16, <2>1 DEF Undoing
<1> QED
  BY <1>8, <1>9, <1>10, <1>11, <1>12, <1>13, <1>14, <1>15, <1>16 DEF Operations

\* So is the repair of one that failed; only an unhealthy activation is put
\* back from quarantine.
LEMMA RepairSeq ==
  ASSUME NEW op \in Operations, NEW d, NEW y
  PROVE  /\ Repair(op, d, y) \in Seq(Calls)
         /\ op # "unhealthy" => Repair(op, d, y) \in Seq(Forward)
<1>0. /\ Move("rollback", "active") \in Forward
      /\ Move("active", "rollback") \in Forward
      /\ Move("swap", "active") \in Forward
      /\ Move("quarantine", "active") \in Calls
      /\ Forward \subseteq Calls
  BY DropMove DEF Slots, Forward
<1>1. Seq(Forward) \subseteq Seq(Calls)
  BY <1>0
<1>2. \A C: \A x \in C: <<x>> \in Seq(C)
  OBVIOUS
<1>4. \A C: \A p \in Seq(C), q \in Seq(C): p \o q \in Seq(C)
  OBVIOUS
<1>5. \A C: \A condition: \A p \in Seq(C): When(condition, p) \in Seq(C)
  BY WhenSeq
<1> HIDE DEF Slots, Forward, Calls, Drop, Move, When
<1>6. CASE op \in {"activate", "revert_health"}
  <2>1. PICK condition:
          Repair(op, d, y) = When(condition, <<Move("rollback", "active")>>)
    BY <1>6 DEF Repair
  <2> QED BY <1>0, <1>1, <1>2, <1>5, <2>1
<1>7. CASE op = "unhealthy"
  <2>1. PICK condition:
          Repair(op, d, y) = When(condition, <<Move("quarantine", "active")>>)
    BY <1>7 DEF Repair
  <2> QED BY <1>0, <1>1, <1>2, <1>5, <1>7, <2>1
<1>8. CASE op = "rollback"
  <2>1. PICK first, second:
          Repair(op, d, y) = When(first, <<Move("active", "rollback")>>)
                             \o When(second, <<Move("swap", "active")>>)
    BY <1>8 DEF Repair
  <2> QED BY <1>0, <1>1, <1>2, <1>4, <1>5, <2>1
<1>9. CASE op \notin {"activate", "revert_health", "unhealthy", "rollback"}
  <2>1. Repair(op, d, y) = <<>>
    BY <1>9 DEF Repair
  <2> QED BY <2>1
<1> QED BY <1>6, <1>7, <1>8, <1>9

\* And the recovery at start-up, which takes nothing out of quarantine.
LEMMA RecoverySeq ==
  ASSUME NEW r, NEW d
  PROVE  /\ RecoveryPlan(r, d) \in Seq(Forward)
         /\ RecoveryPlan(r, d) \in Seq(Calls)
<1>0. /\ Move("rollback", "active") \in Forward
      /\ Move("active", "rollback") \in Forward
      /\ Move("swap", "active") \in Forward
      /\ Move("active", "quarantine") \in Forward
      /\ Move("candidate", "quarantine") \in Forward
      /\ Drop("quarantine") \in Forward
      /\ Forward \subseteq Calls
  BY DropMove DEF Slots, Forward
<1>1. Seq(Forward) \subseteq Seq(Calls)
  BY <1>0
<1>2. \A x \in Forward: <<x>> \in Seq(Forward)
  OBVIOUS
<1>3. <<Drop("quarantine"), Move("active", "quarantine")>> \in Seq(Forward)
  BY <1>0
<1>4. \A p \in Seq(Forward), q \in Seq(Forward): p \o q \in Seq(Forward)
  OBVIOUS
<1>5. \A condition: \A p \in Seq(Forward): When(condition, p) \in Seq(Forward)
  BY WhenSeq
<1> HIDE DEF Slots, Forward, Calls, Drop, Move, When
<1>6. UndoSwap(d) \in Seq(Forward)
  BY <1>0, <1>2, <1>4, <1>5 DEF UndoSwap
<1>7. ASSUME NEW e, NEW committed, NEW hadPrevious, NEW discard
      PROVE  Settle(e, committed, hadPrevious, discard) \in Seq(Forward)
  <2>1. PICK restored, unseat, older, discarded:
          Settle(e, committed, hadPrevious, discard) =
            When(restored, <<Move("rollback", "active")>>)
            \o When(unseat,
                    <<Drop("quarantine"), Move("active", "quarantine")>>
                    \o When(older, <<Move("rollback", "active")>>))
            \o When(discarded, <<Move("candidate", "quarantine")>>)
    BY DEF Settle
  <2> QED BY <1>0, <1>2, <1>3, <1>4, <1>5, <2>1, ZenonT(30)
<1> QED BY <1>1, <1>4, <1>6, <1>7 DEF RecoveryPlan

\* A plan that begins by emptying quarantine leaves nothing there but what the
\* other directories held.
LEMMA FirstDrop ==
  ASSUME NEW V, NEW W, V \subseteq W, None \in V, NEW d \in Kept(V, W),
         NEW plan \in Seq(Calls), Len(plan) # 0, plan[1] = Drop("quarantine")
  PROVE  Run(d, plan).disk \in Kept(V, V)
<1>1. Len(plan) \in Nat /\ 1 \in 1..Len(plan) /\ 1 \in 0..Len(plan)
      /\ Len(plan) \in 1..Len(plan)
  OBVIOUS
<1>2. PICK x: x = Trail(d, plan)
  OBVIOUS
<1>3. x[0].ok /\ x[0].disk = d /\ x[1] = Step(x[0], plan[1])
  <2>1. \A i \in 1..Len(plan): x[i] = Step(x[i - 1], plan[i])
    BY <1>1, <1>2, TrailIs
  <2>2. x[1] = Step(x[1 - 1], plan[1])
    BY <1>1, <2>1
  <2>3. x[0].ok /\ x[0].disk = d
    BY <1>1, <1>2, TrailIs
  <2> QED BY <2>2, <2>3
<1>4. /\ CallOk(d, plan[1])
      /\ Called(d, plan[1]) = [d EXCEPT !["quarantine"] = None]
  BY DEF CallOk, Called, IsDrop, Drop
<1>5. x[1].disk = [d EXCEPT !["quarantine"] = None]
  BY <1>3, <1>4 DEF Step
<1>6. x[1].disk \in Kept(V, V)
  BY <1>5 DEF Kept, Slots
<1>7. Closed(Kept(V, V), Calls)
  BY KeptClosed
<1>8. \A i \in 1..Len(plan): Trail(d, plan)[i].disk \in Kept(V, V)
  BY <1>1, <1>2, <1>6, <1>7, TrailStays
<1> QED BY <1>1, <1>8 DEF Run

\* What an operation that meets no fault leaves, its own repair included.
LEMMA StorageKept ==
  ASSUME NEW V, NEW W, V \subseteq W, None \in V, NEW op \in Operations, NEW d
  PROVE  /\ d \in Kept(V, V) => Storage(op, d).disk \in Kept(V, V)
         /\ op \notin Undoing /\ d \in Kept(V, W)
              => Storage(op, d).disk \in Kept(V, W)
         /\ (/\ op \in {"unhealthy", "quarantine"} /\ d \in Kept(V, W)
             /\ Storage(op, d).ok)
              => Storage(op, d).disk \in Kept(V, V)
<1> DEFINE plan == StorageOp(op, d).plan
           x == Run(d, plan)
           repair == Repair(op, d, x.disk)
<1>0. Kept(V, V) \subseteq Kept(V, W)
  BY DEF Kept
<1>1. Closed(Kept(V, V), Calls) /\ Closed(Kept(V, W), Forward)
  BY KeptClosed
<1>2. /\ plan \in Seq(Calls)
      /\ op \notin Undoing => plan \in Seq(Forward)
  BY PlanSeq
<1>3. /\ repair \in Seq(Calls)
      /\ op # "unhealthy" => repair \in Seq(Forward)
  BY RepairSeq
<1>4. /\ ~StorageOp(op, d).guard =>
           Storage(op, d).disk = d /\ ~Storage(op, d).ok
      /\ StorageOp(op, d).guard =>
           Storage(op, d).disk \in {x.disk, Run(x.disk, repair).disk}
  BY DEF Storage, Repaired
<1> HIDE DEF plan, x, repair
<1>5. ASSUME d \in Kept(V, V)
      PROVE  Storage(op, d).disk \in Kept(V, V)
  <2>1. x.disk \in Kept(V, V)
    BY <1>1, <1>2, <1>5, RunStays DEF x
  <2>2. Run(x.disk, repair).disk \in Kept(V, V)
    BY <1>1, <1>3, <2>1, RunStays
  <2> QED BY <1>4, <1>5, <2>1, <2>2
<1>6. ASSUME op \in {"unhealthy", "quarantine"}, d \in Kept(V, W),
             StorageOp(op, d).guard
      PROVE  Storage(op, d).disk \in Kept(V, V)
  <2>1. Len(plan) # 0 /\ plan[1] = Drop("quarantine")
    <3>1. CASE op = "unhealthy"
      BY <3>1 DEF plan, StorageOp, StorageUnhealthy, Operation, When, Drop, Move
    <3>2. CASE op = "quarantine"
      BY <3>2 DEF plan, StorageOp, StorageQuarantine, Operation, Drop, Move
    <3> QED BY <1>6, <3>1, <3>2
  <2>2. x.disk \in Kept(V, V)
    BY <1>2, <1>6, <2>1, FirstDrop DEF x
  <2>3. Run(x.disk, repair).disk \in Kept(V, V)
    BY <1>1, <1>3, <2>2, RunStays
  <2> QED BY <1>4, <1>6, <2>2, <2>3
<1>7. ASSUME op \notin Undoing, op \notin {"unhealthy", "quarantine"},
             d \in Kept(V, W)
      PROVE  Storage(op, d).disk \in Kept(V, W)
  <2>1. x.disk \in Kept(V, W)
    BY <1>1, <1>2, <1>7, RunStays DEF x
  <2>2. Run(x.disk, repair).disk \in Kept(V, W)
    BY <1>1, <1>3, <1>7, <2>1, RunStays
  <2> QED BY <1>4, <1>7, <2>1, <2>2
<1> QED BY <1>0, <1>4, <1>5, <1>6, <1>7

\* Nor does a fault put anything on a disk that was not there, but for a torn
\* directory.
LEMMA BreaksKept ==
  ASSUME NEW V, None \in V, Torn \in V, NEW d \in Kept(V, V),
         NEW plan \in Seq(Calls)
  PROVE  Breaks(d, plan) \subseteq Kept(V, V)
<1>0. Kept(V, V) = [Slots -> V]
  BY DEF Kept
<1>1. Len(plan) \in Nat /\ 0 \in 0..Len(plan)
      /\ DOMAIN plan = 1..Len(plan) /\ \A i \in 1..Len(plan): plan[i] \in Calls
  OBVIOUS
<1>2. Closed(Kept(V, V), Calls)
  BY KeptClosed
<1>3. Trail(d, plan)[0].disk \in Kept(V, V)
  BY <1>1, TrailIs
<1>4. \A i \in 0..Len(plan): Trail(d, plan)[i].disk \in Kept(V, V)
  BY <1>1, <1>2, <1>3, TrailStays
<1>5. ASSUME NEW e \in [Slots -> V], NEW call \in Calls
      PROVE  Interrupted(e, call) \subseteq [Slots -> V]
  <2>1. CASE IsDrop(call)
    BY <2>1 DEF Interrupted, Calls, IsDrop
  <2>2. CASE ~IsDrop(call)
    BY <2>2 DEF Interrupted, Calls, IsDrop
  <2> QED BY <2>1, <2>2
<1>6. ASSUME NEW i \in DOMAIN plan
      PROVE  Interrupted(Trail(d, plan)[i - 1].disk, plan[i]) \subseteq Kept(V, V)
  <2>1. i - 1 \in 0..Len(plan) /\ plan[i] \in Calls
    BY <1>1
  <2> QED BY <1>0, <1>4, <1>5, <2>1
<1> QED BY <1>6 DEF Breaks

\* The quarantine of a candidate directory, when no call fails.
LEMMA QuarantineTakes ==
  ASSUME NEW W, NEW d \in [Slots -> W], Has(d, "candidate")
  PROVE  QuarantinedDisk(d) =
           [d EXCEPT !["quarantine"] = d["candidate"], !["candidate"] = None]
<1> DEFINE plan == <<Drop("quarantine"), Move("candidate", "quarantine")>>
<1>1. /\ StorageOp("quarantine", d).plan = plan
      /\ StorageOp("quarantine", d).guard
  BY DEF StorageOp, StorageQuarantine, Operation
<1>2. Len(plan) = 2 /\ plan[1] = Drop("quarantine")
      /\ plan[2] = Move("candidate", "quarantine")
  OBVIOUS
<1>3. PICK x: x = Trail(d, plan)
  OBVIOUS
<1> HIDE DEF plan
<1>4. /\ x[0].ok /\ x[0].disk = d
      /\ x[1] = Step(x[0], plan[1]) /\ x[2] = Step(x[1], plan[2])
  <2>0. Len(plan) \in Nat
    BY <1>2
  <2>1. \A i \in 1..Len(plan): x[i] = Step(x[i - 1], plan[i])
    BY <1>3, <2>0, TrailIs
  <2>2. x[1] = Step(x[1 - 1], plan[1]) /\ x[2] = Step(x[2 - 1], plan[2])
    BY <1>2, <2>1
  <2>3. x[0].ok /\ x[0].disk = d
    BY <1>3, <2>0, TrailIs
  <2> QED BY <2>2, <2>3
<1>5. x[1].ok /\ x[1].disk = [d EXCEPT !["quarantine"] = None]
  BY <1>2, <1>4 DEF Step, CallOk, Called, IsDrop, Drop
<1>6. PICK e: e = [d EXCEPT !["quarantine"] = None]
  OBVIOUS
<1>7. /\ e["quarantine"] = None /\ e["candidate"] = d["candidate"]
      /\ CallOk(e, plan[2])
      /\ Called(e, plan[2]) =
           [d EXCEPT !["quarantine"] = d["candidate"], !["candidate"] = None]
  BY <1>2, <1>6 DEF CallOk, Called, IsDrop, Move, Has, Slots
<1>8. /\ x[2].ok
      /\ x[2].disk =
           [d EXCEPT !["quarantine"] = d["candidate"], !["candidate"] = None]
  BY <1>4, <1>5, <1>6, <1>7 DEF Step
<1> QED BY <1>1, <1>2, <1>3, <1>8 DEF QuarantinedDisk, Storage, Run

------------------------------------------------------------------------------
(* The type invariant *)

Values == Digests \cup {Torn}
Disks  == Kept(Values, Values)

\* An operation on directories leaves a disk of the right type, whatever
\* fails, is repaired, undone or cut short.
LEMMA TransactDisk ==
  ASSUME disk \in Disks, NEW op \in Operations, NEW refused \in Operations,
         NEW undo \in Operations, NEW can, NEW r,
         Transact(op, can, r, refused, undo)
  PROVE  disk' \in Disks
<1>0. None \in Values /\ Torn \in Values
  BY DEF Values, Digests
<1>1. \A o \in Operations: \A d \in Disks: Storage(o, d).disk \in Disks
  BY <1>0, StorageKept DEF Disks
<1>2. ASSUME NEW o \in Operations, NEW d \in Disks, StorageFails(o, d)
      PROVE  disk' \in Disks
  <2>1. Broken(o, d) \subseteq Disks
    <3>1. StorageOp(o, d).plan \in Seq(Calls)
      BY PlanSeq
    <3>2. Breaks(d, StorageOp(o, d).plan) \subseteq Disks
      BY <1>0, <3>1, BreaksKept DEF Disks
    <3> QED BY <3>2 DEF Broken
  <2>2. ASSUME NEW y \in Disks
        PROVE  Repaired(o, d, y) \in Disks
    <3>1. Repair(o, d, y) \in Seq(Calls)
      BY RepairSeq
    <3>2. Closed(Disks, Calls)
      BY <1>0, KeptClosed DEF Disks
    <3> QED BY <3>1, <3>2, RunStays DEF Repaired
  <2> QED BY <1>2, <2>1, <2>2 DEF StorageFails, Refuse
<1>4. PICK x: x = Storage(op, disk)
  OBVIOUS
<1>5. x.disk \in Disks
  BY <1>1, <1>4
<1>6. CASE Save(r, x.disk, Storage(undo, x.disk).disk)
  BY <1>1, <1>5, <1>6 DEF Save, Refuse
<1>7. CASE Refuse(Storage(refused, x.disk).disk) \/ Refuse(x.disk)
  BY <1>1, <1>5, <1>7 DEF Refuse
<1>8. CASE \/ StorageFails(op, disk) \/ StorageFails(refused, x.disk)
           \/ StorageFails(undo, x.disk)
  BY <1>2, <1>5, <1>8
<1> QED BY <1>4, <1>6, <1>7, <1>8 DEF Transact

\* The disk VERIFY extracts to, and the one the quarantine makes of it.
LEMMA ExtractedDisk ==
  ASSUME disk \in Disks, NEW c \in Values
  PROVE  /\ Extracted(c) \in Disks
         /\ QuarantinedDisk(Extracted(c)) \in Disks
         /\ Broken("quarantine", Extracted(c)) \subseteq Disks
<1>0. None \in Values /\ Torn \in Values
  BY DEF Values, Digests
<1>1. Extracted(c) \in Disks
  BY DEF Extracted, Disks, Kept
<1>2. PICK e \in Disks: e = Extracted(c)
  BY <1>1
<1>3. "quarantine" \in Operations
  BY DEF Operations
<1>4. QuarantinedDisk(e) \in Disks
  BY <1>0, <1>3, StorageKept DEF QuarantinedDisk, Disks
<1>5. Broken("quarantine", e) \subseteq Disks
  <2>1. StorageOp("quarantine", e).plan \in Seq(Calls)
    BY <1>3, PlanSeq
  <2>2. Breaks(e, StorageOp("quarantine", e).plan) \subseteq Disks
    BY <1>0, <2>1, BreaksKept DEF Disks
  <2> QED BY <2>2 DEF Broken
<1> QED BY <1>2, <1>4, <1>5

\* The recovery at start-up.
LEMMA RecoveryDisk ==
  ASSUME NEW G, Closed(G, Forward), NEW d \in G, NEW r
  PROVE  Recovery(r, d).disk \in G
<1>1. RecoveryPlan(r, d) \in Seq(Forward)
  BY RecoverySeq
<1>2. Run(d, RecoveryPlan(r, d)).disk \in G
  BY <1>1, RunStays
<1> QED BY <1>2 DEF Recovery

\* The directories keep their type.
LEMMA DiskTyped ==
  ASSUME disk \in Disks, [Next]_vars
  PROVE  disk' \in Disks
<1>0. \A r, d, undone: Save(r, d, undone) => disk' \in {d, undone}
  BY DEF Save, Refuse
<1>1. \A c \in Values: /\ Extracted(c) \in Disks
                       /\ QuarantinedDisk(Extracted(c)) \in Disks
                       /\ Broken("quarantine", Extracted(c)) \subseteq Disks
  BY ExtractedDisk
<1>2. None \in Values /\ Torn \in Values /\ Releases \subseteq Values
  BY DEF Values, Digests
<1>3. CASE UNCHANGED vars \/ Reset
  BY <1>3 DEF vars, Reset
<1>4. CASE \E c \in Releases: Import(c)
  BY <1>0, <1>4 DEF Import, Update
<1>5. CASE \E n \in 0..ContentBytes + 1: Stage(n) \/ StageRefused(n)
  BY <1>0, <1>5 DEF Stage, StageRefused, Update
<1>6. CASE VerifyNoArchive \/ Disable
  BY <1>0, <1>6 DEF VerifyNoArchive, Disable, Update
<1>7. ASSUME NEW s \in Sessions, NEW c \in Releases, Verify(s, c)
      PROVE  disk' \in Disks
  <2>1. disk' \in {Extracted(c), QuarantinedDisk(Extracted(c))}
    BY <1>0, <1>7 DEF Verify
  <2> QED BY <1>1, <1>2, <2>1
<1>8. ASSUME NEW c \in Releases, VerifyQuarantineFails(c)
      PROVE  disk' \in Disks
  BY <1>1, <1>2, <1>8 DEF VerifyQuarantineFails
<1>9. CASE VerifyExtractFails
  <2>1. disk' \in {QuarantinedDisk(Extracted(None)), Extracted(Torn)}
    BY <1>9 DEF VerifyExtractFails, Extracted
  <2> QED BY <1>1, <1>2, <2>1
<1>10. ASSUME NEW healthy \in BOOLEAN, Health(healthy)
       PROVE  disk' \in Disks
  <2>1. PICK op \in Operations, undo \in Operations:
          Transact(op, CanReportHealth(rec), HealthReported(rec, healthy),
                   "none", undo)
    BY <1>10 DEF Health, Operations
  <2> QED BY <2>1, TransactDisk DEF Operations
<1>11. CASE Quarantine
  <2>1. PICK undo \in Operations:
          Transact("quarantine", CanQuarantine(rec), Quarantined(rec), "none",
                   undo)
    BY <1>11 DEF Quarantine, Operations
  <2> QED BY <2>1, TransactDisk DEF Operations
<1>12. ASSUME NEW s \in Sessions, NEW op, NEW c, Ask(s, op, c) \/ Expire(s)
       PROVE  disk' \in Disks
  BY <1>12 DEF Ask, Expire
<1>13. ASSUME NEW s \in Sessions, NEW answer \in BOOLEAN,
              \/ \E c \in Releases: Activate(s, c, answer)
              \/ Remove(s, answer) \/ Rollback(s, answer)
       PROVE  disk' \in Disks
  <2>1. PICK op \in Operations, refused \in Operations:
          \E can, r: Transact(op, can, r, refused, refused)
    BY <1>13 DEF Activate, Remove, Rollback, Operations
  <2> QED BY <2>1, TransactDisk
<1>14. ASSUME NEW s \in Sessions, NEW answer \in BOOLEAN, Enable(s, answer)
       PROVE  disk' \in Disks
  BY <1>0, <1>14 DEF Enable, Update
<1>15. CASE Boot
  <2>1. \A r, d: BootSave(r, d) => disk' = d
    BY DEF BootSave
  <2>2. Closed(Disks, Forward) /\ Closed(Disks, Calls)
    BY <1>2, KeptClosed DEF Disks
  <2>3. Recovery(file, disk).disk \in Disks
    BY <2>2, RecoveryDisk
  <2>4. Breaks(disk, RecoveryPlan(file, disk)) \subseteq Disks
    BY <1>2, RecoverySeq, BreaksKept DEF Disks
  <2>5. \/ disk' = disk \/ disk' = Recovery(file, disk).disk
        \/ disk' \in Breaks(disk, RecoveryPlan(file, disk))
    BY <1>15, <2>1 DEF Boot
  <2> QED BY <2>3, <2>4, <2>5
<1>16. CASE PlainRequest
  BY <1>4, <1>5, <1>6, <1>7, <1>8, <1>9, <1>10, <1>11, <1>16 DEF PlainRequest
<1>17. CASE ConfirmedRequest
  BY <1>12, <1>13, <1>14, <1>17 DEF ConfirmedRequest
<1> QED BY <1>3, <1>15, <1>16, <1>17 DEF Next

\* A token of session s.
Tokens(s) ==
    {NoConfirmation}
    \cup {Issue(s, target):
            target \in {"ACTIVATE", "ENABLE", "REMOVE", "ROLLBACK"} \X Digests}

TokensInv ==
    /\ confirmation = [s \in Sessions |-> confirmation[s]]
    /\ \A s \in Sessions: confirmation[s] \in Tokens(s)

\* Tokens keep their type and the histories hold releases only.
LEMMA TokensTyped ==
  ASSUME TokensInv, RecordsInv, [Next]_vars,
         verified \subseteq Releases, confirmed \subseteq Releases
  PROVE  /\ TokensInv'
         /\ verified' \subseteq Releases /\ confirmed' \subseteq Releases
<1> DEFINE Kinds == {"ACTIVATE", "ENABLE", "REMOVE", "ROLLBACK"}
           Issues(s) == \E op \in Kinds, c \in Digests:
                  confirmation' = [confirmation EXCEPT ![s] = Issue(s, <<op, c>>)]
           Clears(s) == confirmation' = [confirmation EXCEPT ![s] = NoConfirmation]
           Effect == \/ confirmation' = confirmation
                     \/ confirmation' = [s \in Sessions |-> NoConfirmation]
                     \/ \E s \in Sessions: Issues(s) \/ Clears(s)
           Histories == verified' \subseteq Releases /\ confirmed' \subseteq Releases
<1> USE DEF history
<1>0. None \in Digests /\ Releases \subseteq Digests
  BY DEF Digests
<1>1. ASSUME Effect
      PROVE  TokensInv'
  <2>1. \A s \in Sessions, op \in Kinds, c \in Digests:
          Issue(s, <<op, c>>) \in Tokens(s)
    BY DEF Tokens
  <2>2. \A s: NoConfirmation \in Tokens(s)
    BY DEF Tokens
  <2>3. CASE confirmation' = confirmation
    BY <2>3 DEF TokensInv
  <2>4. CASE confirmation' = [s \in Sessions |-> NoConfirmation]
    BY <2>2, <2>4 DEF TokensInv
  <2>5. ASSUME NEW s \in Sessions, Issues(s) \/ Clears(s)
        PROVE  TokensInv'
    <3>1. PICK token \in Tokens(s):
            confirmation' = [confirmation EXCEPT ![s] = token]
      BY <2>1, <2>2, <2>5
    <3>2. \A t \in Sessions:
            confirmation'[t] = IF t = s THEN token ELSE confirmation[t]
      BY <3>1 DEF TokensInv
    <3>3. confirmation' = [t \in Sessions |-> confirmation'[t]]
      BY <3>1 DEF TokensInv
    <3> QED BY <3>2, <3>3 DEF TokensInv
  <2> QED BY <1>1, <2>3, <2>4, <2>5
<1>2. CASE UNCHANGED vars \/ Reset
  <2>1. Effect /\ Histories
    BY <1>2 DEF vars, Reset
  <2> QED BY <1>1, <2>1
<1>3. CASE PlainRequest
  <2>1. ASSUME NEW s \in Sessions, NEW c \in Releases, Verify(s, c)
        PROVE  Effect /\ Histories
    <3>1. CASE Accepts(c)
      <4>1. confirmation' =
              [confirmation EXCEPT ![s] = Issue(s, <<"ACTIVATE", c>>)]
        BY <2>1, <3>1 DEF Verify
      <4>2. Effect
        BY <1>0, <4>1
      <4> QED BY <2>1, <4>2 DEF Verify
    <3>2. CASE ~Accepts(c)
      BY <2>1, <3>2 DEF Verify
    <3> QED BY <3>1, <3>2
  <2>2. ASSUME UNCHANGED <<confirmation, history>>
        PROVE  Effect /\ Histories
    BY <2>2
  <2>3. Effect /\ Histories
    <3> HIDE DEF Effect, Histories
    <3> QED
      BY <1>3, <2>1, <2>2
      DEF PlainRequest, Import, Stage, StageRefused, VerifyQuarantineFails,
          VerifyNoArchive, VerifyExtractFails, Health, Disable, Quarantine
  <2> QED BY <1>1, <2>3
<1>4. CASE ConfirmedRequest
  <2>1. ASSUME NEW s \in Sessions, NEW op \in Kinds, NEW c \in Digests,
               Ask(s, op, c) \/ Expire(s)
        PROVE  Effect /\ Histories
    BY <2>1 DEF Ask, Expire
  <2>2. ASSUME NEW s \in Sessions, NEW answer \in BOOLEAN,
               Enable(s, answer) \/ Remove(s, answer) \/ Rollback(s, answer)
        PROVE  Effect /\ Histories
    BY <2>2 DEF Enable, Remove, Rollback, Granted
  <2>3. ASSUME NEW s \in Sessions, NEW answer \in BOOLEAN, NEW c \in Releases,
               Activate(s, c, answer)
        PROVE  Effect /\ Histories
    <3>1. CanActivate(rec) => rec.cand \in Releases
      BY DEF CanActivate, RecordsInv, Coherent, Records, Digests
    <3> QED BY <2>3, <3>1 DEF Activate, Granted
  <2>4. Effect /\ Histories
    <3> HIDE DEF Effect, Histories
    <3> QED BY <1>0, <1>4, <2>1, <2>2, <2>3 DEF ConfirmedRequest
  <2> QED BY <1>1, <2>4
<1>5. CASE Boot
  <2>1. Effect /\ Histories
    BY <1>5 DEF Boot
  <2> QED BY <1>1, <2>1
<1> QED BY <1>1, <1>2, <1>3, <1>4, <1>5 DEF Next

PackagesInv ==
    /\ RecordsInv /\ TokensInv /\ disk \in Disks /\ up \in BOOLEAN
    /\ verified \subseteq Releases /\ confirmed \subseteq Releases

\* The type invariant is inductive together with the coherence of the records.
LEMMA PackagesInvariance == Spec => []PackagesInv
<1>1. Init => PackagesInv
  <2>1. ASSUME Init PROVE PackagesInv
    <3>1. [slot \in Slots |-> None] \in Disks
      BY DEF Disks, Kept, Values, Digests
    <3> QED BY <2>1, <3>1, RecordsInit DEF Init, PackagesInv, TokensInv, Tokens
  <2> QED BY <2>1
<1>2. PackagesInv /\ [Next]_vars => PackagesInv'
  <2>1. ASSUME PackagesInv, [Next]_vars PROVE PackagesInv'
    <3>1. RecordsInv'
      BY <2>1, RecordsNext DEF PackagesInv
    <3>2. /\ TokensInv'
          /\ verified' \subseteq Releases /\ confirmed' \subseteq Releases
      BY <2>1, TokensTyped DEF PackagesInv
    <3>3. disk' \in Disks
      BY <2>1, DiskTyped DEF PackagesInv
    <3>4. up' \in BOOLEAN
      <4>1. CASE UNCHANGED vars \/ Reset
        BY <2>1, <4>1 DEF vars, Reset, PowerCut, PackagesInv
      <4>2. CASE RecordsEffect
        BY <2>1, <4>2 DEF RecordsEffect, PackagesInv
      <4>3. CASE Boot
        BY <4>3, BootRecords
      <4> QED BY <2>1, <4>1, <4>2, <4>3, PlainRecords, ConfirmedRecords DEF Next
    <3> QED BY <3>1, <3>2, <3>3, <3>4 DEF PackagesInv
  <2> QED BY <2>1
<1> QED BY <1>1, <1>2, PTL DEF Spec

\* Records, directories, tokens and histories keep their types under every
\* request, failure, repair, undo, power cut and start-up: no sequence of
\* storage calls puts anything in a directory but a release or a torn copy.
THEOREM PackagesTyped == Spec => []TypeOK
<1>1. ASSUME PackagesInv
      PROVE  TypeOK
  <2>1. rec \in Records /\ file \in Records /\ faults \in 0..MaxFaults
    BY <1>1 DEF PackagesInv, RecordsInv, Coherent
  <2>2. disk \in [Slots -> Digests \cup {Torn}]
    BY <1>1 DEF PackagesInv, Disks, Kept, Values
  <2>3. ASSUME NEW s \in Sessions
        PROVE  confirmation[s] = NoConfirmation
               \/ \E op \in {"ACTIVATE", "ENABLE", "REMOVE", "ROLLBACK"},
                    c \in Digests: confirmation[s] = Issue(s, <<op, c>>)
    <3>1. confirmation[s] \in Tokens(s)
      BY <1>1 DEF PackagesInv, TokensInv
    <3>2. CASE confirmation[s] # NoConfirmation
      <4>1. PICK target \in {"ACTIVATE", "ENABLE", "REMOVE", "ROLLBACK"}
                            \X Digests: confirmation[s] = Issue(s, target)
        BY <3>1, <3>2 DEF Tokens
      <4>2. target = <<target[1], target[2]>>
        OBVIOUS
      <4> QED BY <4>1, <4>2
    <3> QED BY <3>2
  <2> QED BY <1>1, <2>1, <2>2, <2>3 DEF TypeOK, PackagesInv
<1>2. PackagesInv => TypeOK
  BY <1>1
<1> QED BY <1>2, PackagesInvariance, PTL

------------------------------------------------------------------------------
(* The active directory, without faults inside handlers *)

\* Only quarantine holds what VERIFY has refused.  What VERIFY extracts for a
\* refused release goes from candidate to quarantine within the handler, and
\* only an undo takes anything out of it, from a quarantine that its own
\* operation had emptied first.
Allowed == verified \cup {None, Torn}
CleanInv == disk \in Kept(Allowed, Values)

\* An operation that meets no fault keeps it: what it undoes, it has done.
LEMMA TransactClean ==
  ASSUME NEW V, NEW W, V \subseteq W, None \in V, disk \in Kept(V, W), ~Fault,
         NEW op \in Operations \ Undoing, NEW refused \in Operations \ Undoing,
         NEW undo \in Operations,
         undo \in Undoing => op \in {"unhealthy", "quarantine"},
         NEW can, NEW r, Transact(op, can, r, refused, undo)
  PROVE  disk' \in Kept(V, W)
<1>0. Kept(V, V) \subseteq Kept(V, W)
  BY DEF Kept
<1>1. PICK x: x = Storage(op, disk)
  OBVIOUS
<1>2. /\ x.disk \in Kept(V, W)
      /\ x.ok /\ op \in {"unhealthy", "quarantine"} => x.disk \in Kept(V, V)
  BY <1>1, StorageKept
<1>3. CASE x.ok /\ Save(r, x.disk, Storage(undo, x.disk).disk)
  <2>1. Storage(undo, x.disk).disk \in Kept(V, W)
    <3>1. CASE undo \in Undoing
      BY <1>0, <1>2, <1>3, <3>1, StorageKept
    <3>2. CASE undo \notin Undoing
      BY <1>2, <3>2, StorageKept
    <3> QED BY <3>1, <3>2
  <2>2. disk' \in {x.disk, Storage(undo, x.disk).disk}
    BY <1>3 DEF Save, Refuse
  <2> QED BY <1>2, <2>1, <2>2
<1>4. CASE Refuse(Storage(refused, x.disk).disk) \/ Refuse(x.disk)
  <2>1. Storage(refused, x.disk).disk \in Kept(V, W)
    BY <1>2, StorageKept
  <2> QED BY <1>2, <1>4, <2>1 DEF Refuse
<1> QED BY <1>1, <1>3, <1>4 DEF Transact, StorageFails

\* Without faults, every step keeps the unverified in quarantine.
LEMMA CleanKept ==
  ASSUME MaxFaults = 0, PackagesInv, CleanInv, [Next]_vars
  PROVE  CleanInv'
<1>0. /\ Allowed \subseteq Values /\ None \in Allowed /\ ~Fault
      /\ Releases \subseteq Values
  BY DEF PackagesInv, RecordsInv, Allowed, Values, Digests, Fault
<1>1. PICK V, W: V = Allowed /\ W = Values
  OBVIOUS
<1>2. V \subseteq W /\ None \in V /\ disk \in Kept(V, W)
  BY <1>0, <1>1 DEF CleanInv
<1> USE DEF history
<1>3. ASSUME disk' \in Kept(V, W), verified' = verified
      PROVE  CleanInv'
  BY <1>1, <1>3 DEF CleanInv, Allowed, Values, Digests
<1>4. \A r, d: Save(r, d, d) => disk' = d
  BY DEF Save, Refuse
<1>5. CASE UNCHANGED vars \/ Reset
  BY <1>2, <1>3, <1>5 DEF vars, Reset
<1>6. ASSUME NEW s \in Sessions, NEW c \in Releases, Verify(s, c)
      PROVE  CleanInv'
  <2>1. c \in W /\ c # None
    BY <1>0, <1>1, PackagesAssumption
  <2>2. PICK e: e = Extracted(c)
    OBVIOUS
  <2>3. /\ e \in [Slots -> W] /\ e["candidate"] = c
        /\ \A slot \in Slots \ {"quarantine", "candidate"}: e[slot] \in V
    BY <1>2, <2>1, <2>2 DEF Extracted, Kept, Slots
  <2>4. QuarantinedDisk(e) =
          [e EXCEPT !["quarantine"] = e["candidate"], !["candidate"] = None]
    BY <2>1, <2>3, QuarantineTakes DEF Has
  <2>5. QuarantinedDisk(e) \in Kept(V, W)
    BY <1>2, <2>1, <2>3, <2>4 DEF Kept, Slots
  <2>6. CASE Accepts(c)
    <3>1. verified' = verified \cup {c}
      BY <1>6, <2>6 DEF Verify
    <3>2. disk' \in {e, QuarantinedDisk(e)}
      BY <1>6, <2>2, <2>6 DEF Verify, Save, Refuse
    <3>3. V \subseteq Allowed' /\ c \in Allowed' /\ Values' = W
      BY <1>1, <3>1 DEF Allowed, Values, Digests
    <3>4. e \in Kept(Allowed', W)
      BY <2>3, <3>3 DEF Kept
    <3>5. QuarantinedDisk(e) \in Kept(Allowed', W)
      BY <2>5, <3>3 DEF Kept
    <3> QED BY <3>2, <3>3, <3>4, <3>5 DEF CleanInv
  <2>7. CASE ~Accepts(c)
    <3>1. verified' = verified
      BY <1>6, <2>7 DEF Verify
    <3>2. disk' = QuarantinedDisk(e)
      BY <1>4, <1>6, <2>2, <2>7 DEF Verify
    <3> QED BY <1>3, <2>5, <3>1, <3>2
  <2> QED BY <2>6, <2>7
<1>7. CASE PlainRequest /\ ~(\E s \in Sessions, c \in Releases: Verify(s, c))
  <2>1. verified' = verified
    BY <1>7
    DEF PlainRequest, Import, Stage, StageRefused, VerifyQuarantineFails,
        VerifyNoArchive, VerifyExtractFails, Health, Disable, Quarantine
  <2>2. ASSUME NEW healthy \in BOOLEAN, Health(healthy)
        PROVE  disk' \in Kept(V, W)
    <3>1. CASE healthy
      <4>1. Transact("healthy", CanReportHealth(rec),
                     HealthReported(rec, healthy), "none", "none")
        BY <2>2, <3>1 DEF Health
      <4>2. "healthy" \in Operations \ Undoing /\ "none" \in Operations \ Undoing
            /\ "none" \in Operations
        BY DEF Operations, Undoing
      <4> QED BY <1>0, <1>2, <4>1, <4>2, TransactClean
    <3>2. CASE ~healthy
      <4>1. Transact("unhealthy", CanReportHealth(rec),
                     HealthReported(rec, healthy), "none", "revert_health")
        BY <2>2, <3>2 DEF Health
      <4>2. "unhealthy" \in Operations \ Undoing
            /\ "none" \in Operations \ Undoing /\ "revert_health" \in Operations
        BY DEF Operations, Undoing
      <4> QED BY <1>0, <1>2, <4>1, <4>2, TransactClean
    <3> QED BY <3>1, <3>2
  <2>3. ASSUME Quarantine
        PROVE  disk' \in Kept(V, W)
    <3>1. PICK undo \in {"to_candidate", "to_active"}:
            Transact("quarantine", CanQuarantine(rec), Quarantined(rec),
                     "none", undo)
      BY <2>3 DEF Quarantine
    <3>2. "quarantine" \in Operations \ Undoing
          /\ "none" \in Operations \ Undoing /\ undo \in Operations
      BY DEF Operations, Undoing
    <3> QED BY <1>0, <1>2, <3>1, <3>2, TransactClean
  <2>4. ASSUME UNCHANGED disk
        PROVE  disk' \in Kept(V, W)
    BY <1>2, <2>4
  <2>5. disk' \in Kept(V, W)
    BY <1>0, <1>4, <1>7, <2>2, <2>3, <2>4
    DEF PlainRequest, Import, Stage, StageRefused, VerifyQuarantineFails,
        VerifyNoArchive, VerifyExtractFails, Disable, Update
  <2> QED BY <1>3, <2>1, <2>5
<1>8. CASE ConfirmedRequest
  <2>1. verified' = verified
    BY <1>8
    DEF ConfirmedRequest, Ask, Expire, Activate, Enable, Remove, Rollback
  <2>2. ASSUME NEW s \in Sessions, NEW answer \in BOOLEAN,
               \/ \E c \in Releases: Activate(s, c, answer)
               \/ Remove(s, answer) \/ Rollback(s, answer)
        PROVE  disk' \in Kept(V, W)
    <3>1. PICK op \in Operations \ Undoing, refused \in Operations \ Undoing:
            \E can, r: Transact(op, can, r, refused, refused)
      BY <2>2 DEF Activate, Remove, Rollback, Operations, Undoing
    <3> QED BY <1>0, <1>2, <3>1, TransactClean
  <2>3. ASSUME UNCHANGED disk
        PROVE  disk' \in Kept(V, W)
    BY <1>2, <2>3
  <2>4. disk' \in Kept(V, W)
    BY <1>4, <1>8, <2>2, <2>3 DEF ConfirmedRequest, Ask, Expire, Enable, Update
  <2> QED BY <1>3, <2>1, <2>4
<1>9. CASE Boot
  <2>1. \A r, d: BootSave(r, d) => disk' = d
    BY DEF BootSave
  <2>2. Closed(Kept(V, W), Forward)
    BY <1>2, KeptClosed
  <2>3. Recovery(file, disk).disk \in Kept(V, W)
    BY <1>2, <2>2, RecoveryDisk
  <2>4. disk' = disk \/ disk' = Recovery(file, disk).disk
    BY <1>0, <1>9, <2>1 DEF Boot
  <2> QED BY <1>2, <1>3, <1>9, <2>3, <2>4 DEF Boot
<1> QED BY <1>5, <1>6, <1>7, <1>8, <1>9 DEF Next

\* poison_package_storage_*: as long as no storage call fails and the power is
\* only cut between handlers, only a release that passed VERIFY for its own
\* transaction is ever in the active directory, for every number of releases,
\* updates, rollbacks, refusals, undone saves and restarts.
THEOREM ActiveIsVerified ==
  ASSUME MaxFaults = 0
  PROVE  Spec => []ActiveWasVerified
<1>1. Init => CleanInv
  BY DEF Init, CleanInv, Kept, Allowed, Values, Digests
<1>2. PackagesInv /\ CleanInv /\ [Next]_vars => CleanInv'
  BY CleanKept
<1>3. CleanInv => ActiveWasVerified
  BY DEF CleanInv, Kept, Allowed, Slots, ActiveWasVerified
<1> QED BY PackagesInvariance, <1>1, <1>2, <1>3, PTL DEF Spec
=============================================================================
