------------------------------ MODULE Packages ------------------------------
(***************************************************************************)
(* The package manager: poison_packages.c, poison_package_transaction.c    *)
(* and their request handler rpc_poison_packages.c.                        *)
(*                                                                         *)
(* A handler runs to its end under rpc->busy_mutex, so it is one action.   *)
(* What can strike inside it is a failing storage call or a power cut: the *)
(* action then leaves any disk that one of its calls can leave half done.  *)
(* At most one fault strikes in a handler.                                 *)
(*                                                                         *)
(* Abstractions. One package id: records are looked up by id and share     *)
(* nothing but the slot table. A release is its archive digest; versions   *)
(* are left out, the verifier's gate accepting equal ones and those it     *)
(* cannot parse. A request whose previous_state, previous_version or       *)
(* previous_digest is not the record's is refused without a change, as is  *)
(* one refused on the screen. Free space and API checks only refuse. An    *)
(* absent record and a Removed one are imported over alike, so the reuse   *)
(* of a Removed slot by another id is left out. The staging path may hold  *)
(* any signed release by the time VERIFY reads it. The digest of an        *)
(* ENABLE, REMOVE or ROLLBACK request is only echoed, so it is None. A     *)
(* state file that does not check is a missing one. INSPECT, the audit     *)
(* event and the diagnostics only report.                                  *)
(***************************************************************************)
EXTENDS Confirmation, Naturals, Sequences

CONSTANTS
    Releases,     \* digests of the signed archives of the package
    Sequence,     \* release_sequence of each release
    ContentBytes, \* content_bytes of every archive, in chunks
    Protected,    \* the package id is a recovery or core one
    Torn,         \* a directory copied or removed in part
    MaxFaults     \* bound on power cuts inside handlers and failing calls

ASSUME PackagesAssumption ==
    /\ None \notin Releases /\ None \notin Sessions
    /\ Torn \notin Releases /\ Torn # None
    /\ Sequence \in [Releases -> Nat \ {0}]
    /\ ContentBytes \in Nat \ {0}
    /\ Protected \in BOOLEAN
    /\ MaxFaults \in Nat

VARIABLES
    up,            \* the device runs and serves requests
    rec,           \* the PoisonPackageRecord in RAM
    file,          \* the record in /int/.poison/package_state.bin
    disk,          \* what the package's five directories hold
    confirmation,  \* RpcPoisonPackages.confirmation of each session
    faults,        \* failing calls and power cuts inside handlers so far
    verified,      \* history: releases whose payload passed VERIFY
    confirmed      \* history: releases activated on an approval

vars == <<up, rec, file, disk, confirmation, faults, verified, confirmed>>
history == <<verified, confirmed>>

------------------------------------------------------------------------------
(* The record *)

\* PoisonPackageState and PoisonContentUpdateState.  Installed is never
\* entered.
PackageStates ==
    {"Staged", "Verified", "Active", "Disabled", "Quarantined", "Removed"}
ContentStates ==
    {"Discovered", "Receiving", "Staged", "Verified", "Activating", "Healthy",
     "RolledBack", "Quarantined"}

Digests == Releases \cup {None}

\* cand and contentPrev are the transaction's own copy of the digests; back is
\* rollback_state.  previous_version is empty exactly when prev is None.
Records ==
    [present: BOOLEAN, state: PackageStates, content: ContentStates,
     digest: Digests, prev: Digests, cand: Digests, contentPrev: Digests,
     back: PackageStates, received: 0..ContentBytes]

NoRecord ==
    [present |-> FALSE, state |-> "Removed", content |-> "Discovered",
     digest |-> None, prev |-> None, cand |-> None, contentPrev |-> None,
     back |-> "Removed", received |-> 0]

\* Mutants: there is no floor; it is the installed release's; any digest passes
\* the payload check; a failed activation leaves the record's digest; the chunk
\* bound is off by one.
CanImportNoFloor(r, c) ==
    r.state # "Removed" => r.state \in {"Active", "Disabled"} /\ c # r.digest
CanImportAboveInstalled(r, c) ==
    r.state # "Removed" => /\ r.state \in {"Active", "Disabled"}
                           /\ c # r.digest
                           /\ r.digest # None => Sequence[c] > Sequence[r.digest]
PayloadVerifiedAnyDigest(r, c) ==
    IF r.state # "Staged" THEN r
    ELSE [r EXCEPT !.state = "Verified", !.content = "Verified"]
HealthReportedKeepsDigest(r, healthy) ==
    IF healthy
    THEN [r EXCEPT !.content = "Healthy", !.state = "Active"]
    ELSE [r EXCEPT !.content = "RolledBack", !.state = r.back]
CanReceiveOneTooMany(r, n) ==
    /\ r.content \in {"Discovered", "Receiving"}
    /\ n > 0 /\ n <= ContentBytes - r.received + 1

\* poison_package_manager_import: an installed release is replaced by one with
\* a higher sequence than the last transaction's, a removed one by any.
Updating(r) == r.state # "Removed"
CanImport(r, c) ==
    Updating(r) => /\ r.state \in {"Active", "Disabled"}
                   /\ c # r.digest
                   /\ Sequence[c] > Sequence[r.cand]
Imported(r, c) ==
    LET previous == IF Updating(r) THEN r.digest ELSE None
    IN [present |-> TRUE, state |-> r.state, content |-> "Discovered",
        digest |-> c, prev |-> previous, cand |-> c,
        contentPrev |-> previous, back |-> r.state, received |-> 0]

\* poison_package_receive.  A refused chunk has already opened the transfer.
Opened(r) ==
    IF r.content = "Discovered" THEN [r EXCEPT !.content = "Receiving"] ELSE r
CanReceive(r, n) ==
    Opened(r).content = "Receiving" /\ n > 0 /\ n <= ContentBytes - r.received
Received(r, n) ==
    IF r.received + n = ContentBytes
    THEN [r EXCEPT !.content = "Staged", !.state = "Staged",
                   !.received = ContentBytes]
    ELSE [r EXCEPT !.content = "Receiving", !.received = @ + n]

\* The record and its transaction are both set to Quarantined.
Spoiled(r) == [r EXCEPT !.state = "Quarantined", !.content = "Quarantined"]

\* poison_package_verify_payload on the digest of the request.
PayloadVerified(r, c) ==
    IF r.state # "Staged" THEN r
    ELSE IF c = r.cand
         THEN [r EXCEPT !.state = "Verified", !.content = "Verified"]
         ELSE Spoiled(r)

\* poison_package_activate: AwaitingConfirmation is passed through.
CanActivate(r) == r.state = "Verified" /\ r.content = "Verified"
Activating(r)  == [r EXCEPT !.content = "Activating"]

\* poison_package_manager_report_health.
CanReportHealth(r) == r.content = "Activating"
HealthReported(r, healthy) ==
    IF healthy
    THEN [r EXCEPT !.content = "Healthy", !.state = "Active"]
    ELSE [r EXCEPT !.content = "RolledBack", !.state = r.back,
                   !.digest = r.prev]

\* poison_package_transition, as set_enabled and remove use it.
Transitioned(r, state) == [r EXCEPT !.back = r.state, !.state = state]
CanDisable(r) == r.state = "Active"
CanEnable(r)  == r.state = "Disabled" /\ r.content = "Healthy"
CanRemove(r)  ==
    ~Protected /\ r.state \in {"Active", "Disabled", "Quarantined"}

\* poison_package_manager_rollback exchanges the two digests of the record.
CanRollback(r) ==
    /\ r.prev # None /\ r.state \in {"Active", "Disabled"}
    /\ r.content \in {"Activating", "Healthy"}
RolledBack(r) ==
    [r EXCEPT !.digest = r.prev, !.prev = r.digest, !.state = "Active",
              !.content = "RolledBack"]

\* poison_package_manager_quarantine leaves the transaction alone.
CanQuarantine(r) == r.present /\ r.state # "Removed"
Quarantined(r)   == [r EXCEPT !.state = "Quarantined"]

\* poison_package_record_persisted_valid: the record and its transaction name
\* the same release.  Checked before a save and after a load.
PersistedValid(r) ==
    r.digest = IF r.content = "RolledBack" THEN r.contentPrev ELSE r.cand

------------------------------------------------------------------------------
(* The directories *)

\* <active_root>/<id> and <managed_root>/<id>/<slot>.
Slots == {"active", "candidate", "rollback", "quarantine", "swap"}

Has(d, slot) == d[slot] # None

\* Calls: storage_common_rename copies and then removes, and fails on an
\* existing destination; poison_package_storage_remove_if_present.
Move(from, to) == <<from, to>>
Drop(slot)     == <<slot, "none">>

IsDrop(call) == call[2] = "none"

CallOk(d, call) == IsDrop(call) \/ (Has(d, call[1]) /\ ~Has(d, call[2]))
Called(d, call) ==
    IF IsDrop(call) THEN [d EXCEPT ![call[1]] = None]
    ELSE [d EXCEPT ![call[2]] = d[call[1]], ![call[1]] = None]

\* What a call that fails or is cut short can leave.
Interrupted(d, call) ==
    {d} \cup
    IF ~CallOk(d, call) THEN {}
    ELSE IF IsDrop(call)
         THEN IF Has(d, call[1]) THEN {[d EXCEPT ![call[1]] = Torn]} ELSE {}
         ELSE {[d EXCEPT ![call[2]] = Torn],
               [d EXCEPT ![call[2]] = d[call[1]]],
               [d EXCEPT ![call[2]] = d[call[1]], ![call[1]] = Torn]}

\* The calls of a plan are made in turn until one fails.
Step(x, call) ==
    IF x.ok /\ CallOk(x.disk, call)
    THEN [ok |-> TRUE, disk |-> Called(x.disk, call)]
    ELSE [x EXCEPT !.ok = FALSE]
Trail(d, plan) ==
    LET x[i \in 0..Len(plan)] == IF i = 0 THEN [ok |-> TRUE, disk |-> d]
                                 ELSE Step(x[i - 1], plan[i])
    IN x
Run(d, plan) == Trail(d, plan)[Len(plan)]

\* Every disk a fault in one of the calls can leave.
Breaks(d, plan) ==
    LET x == Trail(d, plan)
    IN UNION {IF x[i - 1].ok THEN Interrupted(x[i - 1].disk, plan[i]) ELSE {} :
              i \in DOMAIN plan}

\* Each poison_package_storage operation: its early returns and its calls.
Operation(guard, plan) == [guard |-> guard, plan |-> plan]
When(condition, plan)  == IF condition THEN plan ELSE <<>>

StorageActivate(d) ==
    Operation(Has(d, "candidate"),
        <<Drop("rollback")>>
        \o When(Has(d, "active"), <<Move("active", "rollback")>>)
        \o <<Move("candidate", "active")>>)

StorageHealthy(d) == Operation(Has(d, "active"), <<>>)

StorageUnhealthy(d) ==
    Operation(Has(d, "active"),
        <<Drop("quarantine"), Move("active", "quarantine")>>
        \o When(Has(d, "rollback"), <<Move("rollback", "active")>>))

StorageRevertHealth(d) ==
    Operation(Has(d, "quarantine") /\ ~Has(d, "rollback"),
        When(Has(d, "active"), <<Move("active", "rollback")>>)
        \o <<Move("quarantine", "active")>>)

StorageRollback(d) ==
    Operation(Has(d, "active") /\ Has(d, "rollback"),
        <<Drop("swap"), Move("active", "swap"), Move("rollback", "active"),
          Move("swap", "rollback")>>)

StorageRemove(d) ==
    Operation(Has(d, "active"), <<Drop("rollback"), Move("active", "rollback")>>)

StorageRestoreRemoved(d) ==
    Operation(~Has(d, "active") /\ Has(d, "rollback"),
        <<Move("rollback", "active")>>)

\* The candidate directory if there is one, else the active one.
StorageQuarantine(d) ==
    LET source == IF Has(d, "candidate") THEN "candidate" ELSE "active"
    IN Operation(Has(d, source),
           <<Drop("quarantine"), Move(source, "quarantine")>>)

StorageRestoreQuarantine(d, to) ==
    Operation(Has(d, "quarantine") /\ ~Has(d, to), <<Move("quarantine", to)>>)

StorageOp(op, d) ==
    CASE op = "none"             -> Operation(TRUE, <<>>)
      [] op = "activate"         -> StorageActivate(d)
      [] op = "healthy"          -> StorageHealthy(d)
      [] op = "unhealthy"        -> StorageUnhealthy(d)
      [] op = "revert_health"    -> StorageRevertHealth(d)
      [] op = "rollback"         -> StorageRollback(d)
      [] op = "remove"           -> StorageRemove(d)
      [] op = "restore_removed"  -> StorageRestoreRemoved(d)
      [] op = "quarantine"       -> StorageQuarantine(d)
      [] op = "to_candidate"     -> StorageRestoreQuarantine(d, "candidate")
      [] op = "to_active"        -> StorageRestoreQuarantine(d, "active")

\* The calls an operation makes to repair a failure that has left disk y.
Repair(op, d, y) ==
    CASE op \in {"activate", "revert_health"} ->
            When(Has(d, "active") /\ ~Has(y, "active") /\ Has(y, "rollback"),
                 <<Move("rollback", "active")>>)
      [] op = "unhealthy" ->
            When(~Has(y, "active") /\ Has(y, "quarantine"),
                 <<Move("quarantine", "active")>>)
      [] op = "rollback" ->
            LET first == When(Has(y, "active") /\ Has(y, "swap")
                                  /\ ~Has(y, "rollback"),
                              <<Move("active", "rollback")>>)
            IN first \o When(Has(y, "swap")
                                 /\ ~Has(Run(y, first).disk, "active"),
                             <<Move("swap", "active")>>)
      [] OTHER -> <<>>

Repaired(op, d, y) == Run(y, Repair(op, d, y)).disk

\* An operation that meets no fault.
Storage(op, d) ==
    LET x == Run(d, StorageOp(op, d).plan)
    IN IF ~StorageOp(op, d).guard THEN [ok |-> FALSE, disk |-> d]
       ELSE IF x.ok THEN x
       ELSE [ok |-> FALSE, disk |-> Repaired(op, d, x.disk)]

\* The disks one fault in an operation can leave.
Broken(op, d) ==
    IF StorageOp(op, d).guard THEN Breaks(d, StorageOp(op, d).plan) ELSE {}

\* poison_package_storage_recover_record: first a half-made exchange is undone,
\* then the directories are brought in line with the record.
UndoSwap(d) ==
    When(Has(d, "swap"),
         When(Has(d, "active"), <<Move("active", "rollback")>>)
         \o <<Move("swap", "active")>>)

Settle(d, committed, hadPrevious, discard) ==
    LET restored == ~Has(d, "active") /\ Has(d, "rollback")
        isActive == Has(d, "active") \/ Has(d, "rollback")
        older    == Has(d, "rollback") /\ ~restored
        unseat   == /\ ~committed /\ ~Has(d, "candidate") /\ isActive
                    /\ ~hadPrevious \/ older
    IN When(restored, <<Move("rollback", "active")>>)
       \o When(unseat,
               <<Drop("quarantine"), Move("active", "quarantine")>>
               \o When(older, <<Move("rollback", "active")>>))
       \o When(~committed /\ discard /\ Has(d, "candidate")
                   /\ ~Has(d, "quarantine"),
               <<Move("candidate", "quarantine")>>)

RecoveryPlan(r, d) ==
    LET activating == r.content = "Activating"
        committed  == r.state \in {"Active", "Disabled"} /\ ~activating
    IN UndoSwap(d) \o Settle(Run(d, UndoSwap(d)).disk, committed,
                             r.back # "Removed", activating)

\* A committed package must end with an active directory.
Recovery(r, d) ==
    LET x == Run(d, RecoveryPlan(r, d))
    IN [x EXCEPT !.ok = /\ x.ok
                        /\ \/ r.state \notin {"Active", "Disabled"}
                           \/ r.content = "Activating"
                           \/ Has(x.disk, "active")]

------------------------------------------------------------------------------
(* The request handler *)

Fault == faults < MaxFaults /\ faults' = faults + 1

PowerCut == up' = FALSE /\ rec' = NoRecord

\* The handler answers with an error and leaves the directories at d.
Refuse(d) == disk' = d /\ UNCHANGED <<up, rec, file>>

\* poison_packages_save_state, called when the generation has changed.  A save
\* that fails puts the old record back and the directories at undone; the
\* state file then is the old one, the new one, or lost between the two.
Save(r, d, undone) ==
    \/ /\ PersistedValid(r)
       /\ rec' = r /\ file' = r /\ disk' = d
       /\ UNCHANGED <<up, faults>>
    \/ /\ ~PersistedValid(r)
       /\ Refuse(undone)
       /\ UNCHANGED faults
    \/ /\ PersistedValid(r)
       /\ Fault
       /\ file' \in {file, r, NoRecord}
       /\ \/ disk' = undone /\ UNCHANGED <<up, rec>>
          \/ disk' = d /\ PowerCut

\* The same save when it meets no fault and has nothing to undo.
SavedOrKept(r) ==
    IF PersistedValid(r) THEN rec' = r /\ file' = r ELSE UNCHANGED <<rec, file>>

\* One call of an operation on the directories d fails, or the power goes
\* during it; the request is refused.
StorageFails(op, d) ==
    /\ Fault
    /\ \E y \in Broken(op, d):
         \/ Refuse(y) \/ Refuse(Repaired(op, d, y))
         \/ disk' = y /\ PowerCut /\ UNCHANGED file

\* The shape of every operation that moves directories: the storage operation,
\* then the manager's, then the save.  refused undoes the first when the
\* manager does not agree, undo when the save fails or would not be valid.
Transact(op, can, r, refused, undo) ==
    \/ LET x == Storage(op, disk)
       IN \/ x.ok /\ can /\ Save(r, x.disk, Storage(undo, x.disk).disk)
          \/ x.ok /\ ~can /\ Refuse(Storage(refused, x.disk).disk)
                          /\ UNCHANGED faults
          \/ x.ok /\ ~can /\ StorageFails(refused, x.disk)
          \/ x.ok /\ can /\ ~PersistedValid(r) /\ StorageFails(undo, x.disk)
          \/ ~x.ok /\ Refuse(x.disk) /\ UNCHANGED faults
    \/ StorageFails(op, disk)

\* A request that changes only the record.
Update(can, r) == up /\ can /\ Save(r, disk, disk)

------------------------------------------------------------------------------
(* Operations without a confirmation *)

Import(c) ==
    /\ Update(CanImport(rec, c), Imported(rec, c))
    /\ UNCHANGED <<confirmation, history>>

Stage(n) ==
    /\ rec.present
    /\ Update(CanReceive(rec, n), Received(rec, n))
    /\ UNCHANGED <<confirmation, history>>

\* A refused chunk does not bump the generation: the record is not saved.
StageRefused(n) ==
    /\ up /\ rec.present /\ ~CanReceive(rec, n)
    /\ rec' = Opened(rec)
    /\ UNCHANGED <<up, file, disk, confirmation, faults, history>>

Disable ==
    /\ Update(CanDisable(rec), Transitioned(rec, "Disabled"))
    /\ UNCHANGED <<confirmation, history>>

\* VERIFY when the archive at the record's path does not verify: no directory
\* is touched.
VerifyNoArchive ==
    /\ Update(rec.present, Spoiled(rec))
    /\ UNCHANGED <<confirmation, history>>

\* Mutant: a refused candidate directory is left where it is.
QuarantinedDiskNot(d) == d

\* VERIFY of a request for digest c when the path holds the archive of c: it
\* is extracted to the candidate directory, which is quarantined again unless
\* the manager accepts it.
Extracted(c)       == [disk EXCEPT !["candidate"] = c]
QuarantinedDisk(d) == Storage("quarantine", d).disk
Accepts(c)         == rec.state = "Staged" /\ c = rec.cand

Verify(s, c) ==
    /\ up /\ rec.present
    /\ Save(PayloadVerified(rec, c),
            IF Accepts(c) THEN Extracted(c) ELSE QuarantinedDisk(Extracted(c)),
            QuarantinedDisk(Extracted(c)))
    /\ verified' = IF Accepts(c) THEN verified \cup {c} ELSE verified
    /\ confirmation' =
            IF Accepts(c)
            THEN [confirmation EXCEPT ![s] = Issue(s, <<"ACTIVATE", c>>)]
            ELSE confirmation
    /\ UNCHANGED confirmed

\* A fault between the extraction and the end of that quarantine.  A failing
\* call is ignored and the record saved; its save meets no second fault.
VerifyQuarantineFails(c) ==
    /\ up /\ rec.present /\ ~Accepts(c)
    /\ Fault
    /\ disk' \in Broken("quarantine", Extracted(c))
    /\ \/ /\ SavedOrKept(PayloadVerified(rec, c))
          /\ UNCHANGED up
       \/ PowerCut /\ UNCHANGED file
    /\ UNCHANGED <<confirmation, history>>

\* An extraction that fails removes the candidate directory; the quarantine
\* that follows then takes the active one.
VerifyExtractFails ==
    /\ up /\ rec.present
    /\ Fault
    /\ \/ /\ disk' = QuarantinedDisk([disk EXCEPT !["candidate"] = None])
          /\ SavedOrKept(Spoiled(rec))
          /\ UNCHANGED up
       \/ /\ disk' = [disk EXCEPT !["candidate"] = Torn]
          /\ PowerCut
          /\ UNCHANGED file
    /\ UNCHANGED <<confirmation, history>>

\* HEALTH: the directories move before the manager is asked, and stay moved
\* when it refuses.
Health(healthy) ==
    /\ up
    /\ Transact(IF healthy THEN "healthy" ELSE "unhealthy",
                CanReportHealth(rec), HealthReported(rec, healthy), "none",
                IF healthy THEN "none" ELSE "revert_health")
    /\ UNCHANGED <<confirmation, history>>

Quarantine ==
    /\ up /\ rec.present
    /\ Transact("quarantine", CanQuarantine(rec), Quarantined(rec), "none",
                IF rec.state \in {"Staged", "Verified"}
                THEN "to_candidate" ELSE "to_active")
    /\ UNCHANGED <<confirmation, history>>

------------------------------------------------------------------------------
(* Operations that need a confirmation *)

\* rpc_poison_packages_require_confirmation: a request without the token for
\* exactly this operation and digest is answered with a new one.  The digest
\* is the request's; it is not compared with the record.
Ask(s, op, c) ==
    /\ up
    /\ confirmation' = [confirmation EXCEPT ![s] = Issue(s, <<op, c>>)]
    /\ UNCHANGED <<up, rec, file, disk, faults, history>>

\* The deadline passes, or the session ends and another begins.
Expire(s) ==
    /\ up /\ confirmation[s].active
    /\ confirmation' = [confirmation EXCEPT ![s] = NoConfirmation]
    /\ UNCHANGED <<up, rec, file, disk, faults, history>>

\* The request carries its token and is answered on the device's screen.
Granted(s, op, c, answer) ==
    /\ up
    /\ Approve(confirmation[s], s, answer)
    /\ confirmation[s].target = <<op, c>>
    /\ confirmation' = [confirmation EXCEPT ![s] = NoConfirmation]

Activate(s, c, answer) ==
    /\ Granted(s, "ACTIVATE", c, answer)
    /\ Transact("activate", CanActivate(rec), Activating(rec), "unhealthy",
                "unhealthy")
    /\ confirmed' = IF answer /\ CanActivate(rec)
                    THEN confirmed \cup {rec.cand} ELSE confirmed
    /\ UNCHANGED verified

Enable(s, answer) ==
    /\ Granted(s, "ENABLE", None, answer)
    /\ \/ Update(CanEnable(rec), Transitioned(rec, "Active"))
       \/ ~CanEnable(rec) /\ UNCHANGED <<up, rec, file, disk, faults>>
    /\ UNCHANGED history

Remove(s, answer) ==
    /\ Granted(s, "REMOVE", None, answer)
    /\ Transact("remove", CanRemove(rec), Transitioned(rec, "Removed"),
                "restore_removed", "restore_removed")
    /\ UNCHANGED history

Rollback(s, answer) ==
    /\ Granted(s, "ROLLBACK", None, answer)
    /\ Transact("rollback", CanRollback(rec), RolledBack(rec), "rollback",
                "rollback")
    /\ UNCHANGED history

------------------------------------------------------------------------------
(* Reset and start-up *)

Reset ==
    /\ up
    /\ PowerCut
    /\ UNCHANGED <<file, disk, confirmation, faults, history>>

\* The record the start-up ends with is saved if it has changed; the result
\* of that save is not looked at.
BootSave(r, d) ==
    /\ disk' = d
    /\ \/ /\ up' = TRUE /\ rec' = r
          /\ file' = IF PersistedValid(r) THEN r ELSE file
          /\ UNCHANGED faults
       \/ /\ r # file /\ PersistedValid(r) /\ Fault
          /\ file' \in {file, NoRecord}
          /\ \/ up' = TRUE /\ rec' = r
             \/ PowerCut

\* poison_packages_on_system_start, poison_packages_recover_storage_state.
Boot ==
    /\ ~up
    /\ IF file.state = "Removed" THEN BootSave(file, disk)
       ELSE \/ LET x == Recovery(file, disk)
                   r == IF ~x.ok THEN Spoiled(file)
                        ELSE IF CanReportHealth(file)
                        THEN HealthReported(file, FALSE) ELSE file
               IN BootSave(r, x.disk)
            \/ /\ Fault
               /\ \E y \in Breaks(disk, RecoveryPlan(file, disk)):
                    /\ disk' = y
                    /\ \/ /\ up' = TRUE /\ rec' = Spoiled(file)
                          /\ file' = IF PersistedValid(rec') THEN rec' ELSE file
                       \/ PowerCut /\ UNCHANGED file
    /\ confirmation' = [s \in Sessions |-> NoConfirmation]
    /\ UNCHANGED history

------------------------------------------------------------------------------

\* A device on which the package was never installed.
Init ==
    /\ up = TRUE /\ rec = NoRecord /\ file = NoRecord
    /\ disk = [slot \in Slots |-> None]
    /\ confirmation = [s \in Sessions |-> NoConfirmation]
    /\ faults = 0
    /\ verified = {} /\ confirmed = {}

PlainRequest ==
    \/ \E c \in Releases: Import(c)
    \/ \E n \in 0..ContentBytes + 1: Stage(n) \/ StageRefused(n)
    \/ \E s \in Sessions, c \in Releases: Verify(s, c)
    \/ \E c \in Releases: VerifyQuarantineFails(c)
    \/ VerifyNoArchive \/ VerifyExtractFails
    \/ \E healthy \in BOOLEAN: Health(healthy)
    \/ Disable \/ Quarantine

ConfirmedRequest ==
    \E s \in Sessions:
        \/ \E c \in Releases: Ask(s, "ACTIVATE", c)
        \/ \E op \in {"ENABLE", "REMOVE", "ROLLBACK"}: Ask(s, op, None)
        \/ Expire(s)
        \/ \E answer \in BOOLEAN:
             \/ \E c \in Releases: Activate(s, c, answer)
             \/ Enable(s, answer) \/ Remove(s, answer) \/ Rollback(s, answer)

Next == PlainRequest \/ ConfirmedRequest \/ Reset \/ Boot

Spec == Init /\ [][Next]_vars

------------------------------------------------------------------------------
(* Properties *)

\* Records, directories and tokens keep their types.
TypeOK ==
    /\ up \in BOOLEAN
    /\ rec \in Records /\ file \in Records
    /\ disk \in [Slots -> Digests \cup {Torn}]
    /\ \A s \in Sessions:
         confirmation[s] = NoConfirmation
         \/ \E op \in {"ACTIVATE", "ENABLE", "REMOVE", "ROLLBACK"},
               c \in Digests: confirmation[s] = Issue(s, <<op, c>>)
    /\ faults \in 0..MaxFaults
    /\ verified \subseteq Releases /\ confirmed \subseteq Releases

\* A package is only ever Healthy, in RAM or in the state file, when the
\* payload of its candidate was verified and its activation approved on the
\* device, whatever failed, was cut short or was put back in between.
WasVerified(r) ==
    /\ r.content \in {"Verified", "Activating", "Healthy"}
           => r.cand \in verified
    /\ r.content \in {"Activating", "Healthy"} => r.cand \in confirmed
HealthyWasVerified == WasVerified(rec) /\ WasVerified(file)

\* The sequence floor of an installed package in the state file never sinks,
\* through rollbacks, failed updates and restarts: the floor is the sequence
\* of the last transaction, not of the release that is installed. (Three faults
\* in a row can part record and file so that it sinks; see the README.)
Installed(r) ==
    r.state \in {"Active", "Disabled"} /\ r.content \in {"Healthy", "RolledBack"}
FloorOnlyRises ==
    [][Installed(file) /\ file'.present
           => Sequence[file'.cand] >= Sequence[file.cand]]_vars

\* Without faults, only a release that passed VERIFY for its own transaction is
\* ever in the active directory, though VERIFY extracts before it decides and
\* every refused request moves directories to and fro.
ActiveWasVerified == disk["active"] \in verified \cup {None, Torn}

\* A start-up that meets no fault resolves an interrupted activation in the
\* state file too, unless the package was removed: whatever the interruption
\* left, the record the recovery makes of it passes the check before the save.
StartupResolves ==
    [][~up /\ up' /\ faults' = faults
           => file'.content # "Activating" \/ file'.state = "Removed"]_vars
=============================================================================
