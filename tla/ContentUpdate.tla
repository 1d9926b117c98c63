---------------------------- MODULE ContentUpdate ---------------------------
(***************************************************************************)
(* The firmware content-update engine: the transaction of                  *)
(* poison_content_update.c, the request engine of                          *)
(* rpc_poison_content_update.c, its handler in rpc_poison_session.c, the   *)
(* boot reconciliation of rpc.c, and the parts of the updater it relies on *)
(* (update_operation.c, update_task_worker_*.c, targets/f7/src/main.c).    *)
(*                                                                         *)
(* Handlers run under rpc->busy_mutex, so two requests never interleave.   *)
(* What does interleave with a handler is a reset or a power cut, a        *)
(* failing storage call, the expiry of the token and the reset timer: a    *)
(* handler is therefore split at its durable writes (pc).                  *)
(*                                                                         *)
(* Abstractions. An archive is its digest. The verification callback only  *)
(* lets firmware through, so confirmation_required is TRUE and the content *)
(* type is left out; admit refuses an update without rollback artifact, so *)
(* rollback_available is TRUE; every release of the firmware carries the   *)
(* same package id, so ids are left out and a request with another id is a *)
(* refused one. The version gate of the archive verifier accepts equal     *)
(* versions and versions it cannot parse, and is left out. INSPECT and     *)
(* HEALTH only report. A flash write is atomic: a half-written image does  *)
(* not boot and needs the DFU recovery. A state file whose size, layout or *)
(* SHA-256 does not check is a missing one.                                *)
(***************************************************************************)
EXTENDS Confirmation, Naturals

CONSTANTS
    Candidates,   \* digests of the signed firmware archives
    Bootstrap,    \* the firmware shipped; its accepted digest is all zeroes
    Dirs,         \* update directories on the SD card
    BootDir,      \* POISON_CONTENT_UPDATE_BOOTSTRAP_LKG_PATH
    Dir,          \* .poison-verified/<id>/<version> of each candidate
    Seq,          \* release_sequence of each candidate
    ContentBytes, \* content_bytes of every archive, in chunks
    Torn,         \* content of a marker cut in the middle of its write
    MaxFaults     \* bound on crashes and failing storage calls

ASSUME ContentUpdateAssumption ==
    /\ Bootstrap \notin Candidates
    /\ None \notin Candidates /\ None # Bootstrap /\ None \notin Dirs
    /\ None \notin Sessions
    /\ Torn \notin Candidates /\ Torn # None
    /\ BootDir \in Dirs
    /\ Dir \in [Candidates -> Dirs \ {BootDir}]
    /\ Seq \in [Candidates -> Nat \ {0}]
    /\ ContentBytes \in Nat \ {0}
    /\ MaxFaults \in Nat

VARIABLES
    pc,        \* what the device is doing, see TypeOK
    op,        \* what the running handler does once its save has returned
    engine,    \* RpcPoisonContentUpdate, in RAM
    previous,  \* the handler's copy of the engine, to restore
    file,      \* /int/.poison/content_update_state.bin
    pending,   \* /int/.poison/content_update.pending
    complete,  \* /int/.poison/content_update.complete
    bootMode,  \* RTC boot mode
    pointer,   \* /ext/.fupdate: the directory the updater would install
    store,     \* what each update directory on the SD card holds
    running,   \* the firmware in flash
    resetDue,  \* a reset callback is queued on the timer thread
    faults,    \* crashes and failing calls so far
    approved,  \* history: candidates whose activation was approved on-device
    healthy,   \* history: candidates whose boot health was accepted
    lost       \* history: the state file was lost

vars == <<pc, op, engine, previous, file, pending, complete, bootMode,
          pointer, store, running, resetDue, faults, approved, healthy, lost>>

\* What survives a reset, and the three groups most actions leave alone.
flashVars   == <<running, store>>
updaterVars == <<bootMode, pointer>>
markerVars  == <<pending, complete>>
history     == <<approved, healthy, lost>>

------------------------------------------------------------------------------

\* PoisonContentUpdateState.
BeforeActivation ==
    {"Discovered", "Receiving", "Staged", "Verified", "AwaitingConfirmation"}
Terminal == {"Healthy", "RolledBack", "Quarantined"}
States   == BeforeActivation \cup {"Activating"} \cup Terminal

Firmware == Candidates \cup {Bootstrap}

\* RpcPoisonContentUpdate with its PoisonContentUpdate inlined.
Engines ==
    [active: BOOLEAN, state: States, cand: Candidates \cup {None},
     prevDigest: Firmware \cup {None}, received: 0..ContentBytes,
     verified: BOOLEAN, authorized: BOOLEAN, actDir: Dirs \cup {None},
     lkg: Dirs \cup {None}, prevKg: Dirs \cup {None}, accepted: Firmware,
     floor: Nat,
     confirmation: [active: BOOLEAN, session: Sessions \cup {None},
                    target: Candidates \cup {None}]]

\* rpc_poison_content_update_init: zeroed, the accepted digest all '0'.
InitEngine ==
    [active |-> FALSE, state |-> "Discovered", cand |-> None,
     prevDigest |-> None, received |-> 0, verified |-> FALSE,
     authorized |-> FALSE, actDir |-> None, lkg |-> None, prevKg |-> None,
     accepted |-> Bootstrap, floor |-> 0, confirmation |-> NoConfirmation]

\* What rpc_poison_content_update_save writes: everything but the token.
Persisted(e) ==
    [present |-> TRUE, eng |-> [e EXCEPT !.confirmation = NoConfirmation]]
NoFile == [present |-> FALSE, eng |-> InitEngine]

\* Mutant: the floor is not read back.
LoadedForgetsFloor ==
    IF file.present THEN [file.eng EXCEPT !.floor = 0] ELSE InitEngine

\* rpc_poison_content_update_load.
Loaded == IF file.present THEN file.eng ELSE InitEngine

Fault == faults < MaxFaults /\ faults' = faults + 1

------------------------------------------------------------------------------
(* The transaction: what an operation makes of the engine e *)

\* Mutants: a release with the accepted sequence is admitted; the token of the
\* replaced transaction is kept; the chunk bound is off by one; the two
\* known-good paths are not exchanged.
AdmitSameSequence(e, c) == c # e.accepted /\ Seq[c] >= e.floor
ImportedKeepsToken(e, c) ==
    [e EXCEPT !.active = TRUE, !.state = "Discovered", !.cand = c,
              !.prevDigest = e.accepted, !.received = 0, !.verified = FALSE,
              !.authorized = FALSE, !.actDir = None]
CanReceiveOneTooMany(e, n) ==
    /\ e.state \in {"Discovered", "Receiving"}
    /\ n > 0 /\ n <= ContentBytes - e.received + 1
RolledBackKeepsPaths(e) ==
    [e EXCEPT !.state = "RolledBack", !.accepted = e.prevDigest]

\* poison_content_update_admit: a new candidate above the accepted floor.
Admit(e, c) == c # e.accepted /\ Seq[c] > e.floor

\* rpc_poison_content_update_import replaces whatever transaction e holds.
Imported(e, c) ==
    [e EXCEPT !.active = TRUE, !.state = "Discovered", !.cand = c,
              !.prevDigest = e.accepted, !.received = 0, !.verified = FALSE,
              !.authorized = FALSE, !.actDir = None,
              !.confirmation = NoConfirmation]

\* poison_content_update_receive, and the staging of the last chunk.
CanReceive(e, n) ==
    /\ e.state \in {"Discovered", "Receiving"}
    /\ n > 0 /\ n <= ContentBytes - e.received
Received(e, n) ==
    [e EXCEPT !.received = e.received + n,
              !.state = IF e.received + n = ContentBytes THEN "Staged"
                                                         ELSE "Receiving"]

\* poison_content_update_verify_payload, the transitions it allows and the
\* token rpc_poison_content_update_verify issues.
PayloadVerified(e, s) ==
    [e EXCEPT !.state = "AwaitingConfirmation", !.verified = TRUE,
              !.actDir = Dir[e.cand], !.confirmation = Issue(s, e.cand)]

\* The deadline of the token has passed.
Expired(e) == [e EXCEPT !.confirmation = [@ EXCEPT !.active = FALSE]]

\* poison_content_update_confirm, then the transition to Activating.
Authorized(e) == [e EXCEPT !.authorized = TRUE]
Activating(e) ==
    [e EXCEPT !.state = "Activating", !.confirmation = NoConfirmation]

\* poison_content_update_cancel, _quarantine and _report_health(false).
Closed(e, terminal) == [e EXCEPT !.state = terminal]

\* ROLLBACK: back to the previous image from Healthy, to the last known good
\* one from Activating.
RollbackDir(e) == IF e.state = "Healthy" THEN e.prevKg ELSE e.lkg
RolledBack(e) ==
    [e EXCEPT !.state = "RolledBack", !.accepted = e.prevDigest,
              !.lkg = RollbackDir(e),
              !.prevKg = IF e.state = "Healthy" THEN e.lkg ELSE e.prevKg]

\* rpc_poison_content_update_promote_last_known_good, with the health report
\* and the new floor.
Promoted(e) ==
    [e EXCEPT !.state = "Healthy", !.accepted = e.cand, !.floor = Seq[e.cand],
              !.prevKg = e.lkg, !.lkg = e.actDir]

------------------------------------------------------------------------------
(* update_operation.c *)

\* update_operation_prepare succeeds.
Prepare(dir) ==
    /\ dir # None
    /\ store[dir] # None
    /\ pointer' = dir
    /\ bootMode' = "PreUpdate"

Disarm ==
    /\ bootMode' = "Normal"
    /\ pointer' = None

------------------------------------------------------------------------------
(* Handler plumbing of rpc_poison_content_update_request_process *)

\* The new engine is in RAM; rpc_poison_content_update_save comes next.
StartSave(e, kind) ==
    /\ pc' = "save"
    /\ op' = kind
    /\ engine' = e
    /\ previous' = engine

\* A processed request of an operation that arms nothing.
Request(e) ==
    /\ pc = "up"
    /\ StartSave(e, "request")
    /\ UNCHANGED <<file, markerVars, updaterVars, flashVars, resetDue, faults,
                   history>>

\* ACTIVATE, ROLLBACK or an unhealthy HEALTH that is refused (another id, no
\* matching token, a state that forbids it, a prepare that fails): the engine
\* is unchanged or restored and the updater is disarmed, whoever armed it.
RefusedRequest ==
    /\ pc = "up"
    /\ Disarm
    /\ UNCHANGED <<pc, op, engine, previous, file, markerVars, flashVars,
                   resetDue, faults, history>>

------------------------------------------------------------------------------
(* Requests: rpc_poison_content_update_process *)

Import(c) ==
    /\ Admit(engine, c)
    /\ engine.lkg # None /\ store[engine.lkg] # None
    /\ Request(Imported(engine, c))

\* STAGE reports n more chunks; the last one stages the candidate.
Stage(n) ==
    /\ engine.active /\ CanReceive(engine, n)
    /\ Request(Received(engine, n))

\* VERIFY of the archive now at manifest_path, whose digest c the client sent.
\* In Staged the callback first replaces the directory of that archive.
Verify(s, c) ==
    /\ pc = "up"
    /\ engine.active /\ engine.state = "Staged"
    /\ store' = [store EXCEPT ![Dir[c]] = c]
    /\ IF c = engine.cand
       THEN StartSave(PayloadVerified(engine, s), "request")
       ELSE UNCHANGED <<pc, op, engine, previous>>
    /\ UNCHANGED <<file, markerVars, updaterVars, running, resetDue, faults,
                   history>>

\* The same with an extraction that fails after the directory was removed.
VerifyFails(c) ==
    /\ pc = "up"
    /\ engine.active /\ engine.state = "Staged"
    /\ Fault
    /\ store' = [store EXCEPT ![Dir[c]] = None]
    /\ UNCHANGED <<pc, op, engine, previous, file, markerVars, updaterVars,
                   running, resetDue, history>>

Cancel ==
    /\ engine.active /\ engine.state \in BeforeActivation
    /\ Request(Closed(engine, "RolledBack"))

Quarantine ==
    /\ engine.active /\ engine.state \notin Terminal
    /\ Request(Closed(engine, "Quarantined"))

\* ROLLBACK arms the known-good image, then saves.
Rollback ==
    /\ pc = "up"
    /\ engine.active /\ engine.state \in {"Activating", "Healthy"}
    /\ Prepare(RollbackDir(engine))
    /\ StartSave(RolledBack(engine), "rollback")
    /\ UNCHANGED <<file, markerVars, flashVars, resetDue, faults, history>>

\* ACTIVATE, first half: the token matches, so the dialog is shown.
Prompt(s) ==
    /\ pc = "up"
    /\ engine.active
    /\ ConfirmationMatches(engine.confirmation, s)
    /\ pc' = "prompt"
    /\ UNCHANGED <<op, engine, previous, file, markerVars, updaterVars, flashVars,
                   resetDue, faults, history>>

\* The deadline of the token passes, with or without the dialog open.
Expire ==
    /\ pc \in {"up", "prompt"}
    /\ engine.confirmation.active
    /\ engine' = Expired(engine)
    /\ UNCHANGED <<pc, op, previous, file, markerVars, updaterVars, flashVars,
                   resetDue, faults, history>>

\* The user rejects, or answers too late, or the state forbids activation, or
\* the updater cannot be armed: the request is refused.
PromptRefused ==
    /\ pc = "prompt"
    /\ pc' = "up"
    /\ Disarm
    /\ UNCHANGED <<op, engine, previous, file, markerVars, flashVars,
                   resetDue, faults, history>>

\* The answer is approved in time.  The activation callback arms the updater
\* first; the marker, the transition and the save follow.
PromptApproved(s, physicalConfirmed) ==
    /\ pc = "prompt"
    /\ Approve(engine.confirmation, s, physicalConfirmed)
    /\ engine.state = "AwaitingConfirmation"
    /\ Prepare(engine.actDir)
    /\ pc' = "arm"
    /\ previous' = engine
    /\ engine' = Authorized(engine)
    /\ approved' = IF physicalConfirmed THEN approved \cup {engine.cand}
                                       ELSE approved
    /\ UNCHANGED <<op, file, markerVars, flashVars, resetDue,
                   faults, healthy, lost>>

\* poison_content_update_health_arm_at, then the transition to Activating.
WritePending ==
    /\ pc = "arm"
    /\ pending' = engine.cand
    /\ engine' = Activating(engine)
    /\ pc' = "save" /\ op' = "activate"
    /\ UNCHANGED <<previous, file, complete, updaterVars, flashVars, resetDue,
                   faults, history>>

\* The marker cannot be written: the callback disarms, the handler restores.
WritePendingFails ==
    /\ pc = "arm"
    /\ Fault
    /\ pending' \in {pending, None, Torn}
    /\ Disarm
    /\ pc' = "up" /\ engine' = previous
    /\ UNCHANGED <<op, previous, file, complete, flashVars, resetDue, history>>

------------------------------------------------------------------------------
(* rpc_poison_content_update_save: storage_common_rename removes the old    *)
(* state file, copies the new one, then removes the partial file.           *)

\* What the caller does when the save reports success.
Saved ==
    /\ IF op \in {"boot", "rearm"}
       THEN pc' = "clear" /\ UNCHANGED resetDue
       ELSE pc' = "up" /\ resetDue' = (resetDue \/ op = "rollback")
    /\ healthy' = IF op = "boot" /\ engine.state = "Healthy"
                  THEN healthy \cup {engine.cand} ELSE healthy
    /\ UNCHANGED <<engine, updaterVars>>

\* What it does when the save reports failure.
NotSaved ==
    /\ pc' = "up"
    /\ engine' = previous
    /\ IF op \in {"activate", "rollback", "rearm"}
       THEN Disarm ELSE UNCHANGED updaterVars
    /\ UNCHANGED <<resetDue, healthy>>

\* The partial file cannot be written.
SavePartialFails ==
    /\ pc = "save"
    /\ Fault
    /\ NotSaved
    /\ UNCHANGED <<op, previous, file, markerVars, flashVars, approved, lost>>

RemoveOldFile ==
    /\ pc = "save"
    /\ pc' = "copy"
    /\ file' = NoFile
    /\ UNCHANGED <<op, engine, previous, markerVars, updaterVars, flashVars,
                   resetDue, faults, history>>

CopyNewFile ==
    /\ pc = "copy"
    /\ file' = Persisted(engine)
    /\ Saved
    /\ UNCHANGED <<op, previous, markerVars, flashVars, faults, approved, lost>>

\* The card fills up: storage_common_copy cuts the file short, which no load
\* will accept, and the rename reports success.
CopyNewFileShort ==
    /\ pc = "copy"
    /\ Fault
    /\ file' = NoFile /\ lost' = TRUE
    /\ Saved
    /\ UNCHANGED <<op, previous, markerVars, flashVars, approved>>

\* The copy fails and the state file is gone, or the copy succeeds and the
\* partial file cannot be removed: both are reported as a failed save.
CopyNewFileFails ==
    /\ pc = "copy"
    /\ Fault
    /\ \/ file' = NoFile /\ lost' = TRUE
       \/ file' = Persisted(engine) /\ lost' = lost
    /\ NotSaved
    /\ UNCHANGED <<op, previous, markerVars, flashVars, approved>>

------------------------------------------------------------------------------
(* Boot: rpc_on_system_start and rpc_content_update_reconcile_boot *)

\* rpc_poison_content_update_set_last_known_good with the bootstrap path.
Bootstrapped(e) == [e EXCEPT !.lkg = BootDir]

\* Load the state, adopt the bootstrap image when there is no known-good one.
Boot ==
    /\ pc = "off" /\ bootMode = "Normal"
    /\ LET bootstrap == Loaded.lkg = None /\ store[BootDir] # None
           e == IF bootstrap THEN Bootstrapped(Loaded) ELSE Loaded
       IN  /\ engine' = e /\ previous' = e
           /\ \/ /\ file' = IF bootstrap THEN Persisted(e) ELSE file
                 /\ UNCHANGED faults
              \/ bootstrap /\ Fault /\ UNCHANGED file
           /\ pc' = IF ~file.present \/ ~e.active THEN "up"
                    ELSE IF e.state = "Activating" THEN "reconcile"
                    ELSE IF e.state \in Terminal THEN "clear"
                    ELSE "up"
    /\ op' = "boot"
    /\ UNCHANGED <<markerVars, updaterVars, flashVars, resetDue, history>>

\* Mutant: any completion marker will do.
AnyHealthCompleted == complete # None

\* poison_content_update_health_completed_at
HealthCompleted == complete = engine.cand

\* ... and rpc_poison_content_update_promote_last_known_good.
Accepted ==
    /\ HealthCompleted
    /\ engine.actDir # None /\ store[engine.actDir] # None

AcceptHealth ==
    /\ pc = "reconcile"
    /\ Accepted
    /\ StartSave(Promoted(engine), "boot")
    /\ UNCHANGED <<file, markerVars, updaterVars, flashVars, resetDue, faults,
                   history>>

\* Mutant: the rollback is armed but not recorded.
RearmWithoutTransition ==
    /\ pc = "reconcile"
    /\ ~Accepted
    /\ Prepare(engine.lkg)
    /\ StartSave(engine, "rearm")
    /\ UNCHANGED <<file, markerVars, flashVars, resetDue, faults, history>>

RearmLastKnownGood ==
    /\ pc = "reconcile"
    /\ ~Accepted
    /\ Prepare(engine.lkg)
    /\ StartSave(Closed(engine, "RolledBack"), "rearm")
    /\ UNCHANGED <<file, markerVars, flashVars, resetDue, faults, history>>

\* The known-good image cannot be armed (a fault when it is there).
QuarantineAtBoot ==
    /\ pc = "reconcile"
    /\ ~Accepted
    /\ IF engine.lkg # None /\ store[engine.lkg] # None
       THEN Fault /\ pointer' \in {pointer, engine.lkg}
       ELSE UNCHANGED <<faults, pointer>>
    /\ StartSave(Closed(engine, "Quarantined"), "boot")
    /\ UNCHANGED <<file, markerVars, bootMode, flashVars, resetDue, history>>

\* poison_content_update_health_clear_at, then the reset of a re-arm.
ClearMarkers ==
    /\ pc = "clear"
    /\ pending' = None /\ complete' = None
    /\ pc' = "up"
    /\ resetDue' = (op = "rearm")
    /\ UNCHANGED <<op, engine, previous, file, updaterVars, flashVars, faults,
                   history>>

------------------------------------------------------------------------------
(* Resets *)

\* RAM is lost.  While the state file is being replaced the state goes with
\* it; while the pending marker is being written it may be left torn.
PowerOff ==
    /\ pc' = "off" /\ op' = "none"
    /\ engine' = InitEngine /\ previous' = InitEngine
    /\ resetDue' = FALSE
    /\ lost' = (lost \/ pc = "copy")
    /\ pending' \in IF pc = "arm" THEN {pending, None, Torn} ELSE {pending}
    /\ UNCHANGED <<file, complete, store, running, approved, healthy>>

\* A reset between two requests.
Reset ==
    /\ pc = "up"
    /\ PowerOff
    /\ UNCHANGED <<updaterVars, faults>>

\* A power cut inside a handler or the boot sequence.
PowerCut ==
    /\ pc \notin {"off", "up"}
    /\ Fault
    /\ PowerOff
    /\ UNCHANGED updaterVars

\* The queued reset callback: the timer thread does not take busy_mutex, so it
\* cuts a handler in two as a power cut does.
ResetTimer ==
    /\ resetDue /\ pc # "off"
    /\ PowerOff
    /\ UNCHANGED <<updaterVars, faults>>

\* power_reboot with PowerBootModeNormal or PowerBootModeUpdateStart.
RebootNormal ==
    /\ pc = "up" /\ PowerOff /\ Disarm
    /\ UNCHANGED faults
RebootUpdateStart ==
    /\ pc = "up" /\ PowerOff
    /\ bootMode' = "PreUpdate"
    /\ UNCHANGED <<pointer, faults>>

------------------------------------------------------------------------------
(* The updater, one boot per stage *)

updaterUnchanged == <<pc, op, engine, previous, resetDue, approved, healthy>>

\* update_task_pre_update backs up /int and moves on to the RAM loader.
PreUpdate ==
    /\ pc = "off" /\ bootMode = "PreUpdate"
    /\ pointer # None /\ store[pointer] # None
    /\ bootMode' = "Update"
    /\ UNCHANGED <<updaterUnchanged, file, markerVars, pointer, flashVars,
                   faults, lost>>

\* update_task_worker_flash_writer.
FlashWriter ==
    /\ pc = "off" /\ bootMode = "Update"
    /\ pointer # None /\ store[pointer] # None
    /\ running' = store[pointer]
    /\ bootMode' = "PostUpdate"
    /\ UNCHANGED <<updaterUnchanged, file, markerVars, pointer, store, faults,
                   lost>>

\* Either stage fails or is cancelled: Normal mode, with or without pointer.
UpdateAbandoned ==
    /\ pc = "off" /\ bootMode \in {"PreUpdate", "Update"}
    /\ IF pointer # None /\ store[pointer] # None
       THEN Fault ELSE UNCHANGED faults
    /\ bootMode' = "Normal" /\ pointer' \in {pointer, None}
    /\ UNCHANGED <<updaterUnchanged, file, markerVars, flashVars, lost>>

\* update_task_post_update restores /int, then the health marker is
\* completed: nothing to do without a pending one.
PostUpdate ==
    /\ pc = "off" /\ bootMode = "PostUpdate"
    /\ pending # Torn
    /\ complete' = IF pending = None THEN complete ELSE pending
    /\ pending' = None
    /\ Disarm
    /\ UNCHANGED <<updaterUnchanged, file, flashVars, faults, lost>>

\* Mutant: a stage that fails on a torn marker is not cancelled.
PostUpdateRetriesForever ==
    /\ pc = "off" /\ bootMode = "PostUpdate"
    /\ Fault
    /\ Disarm
    /\ complete' \in {complete, None}
    /\ UNCHANGED <<updaterUnchanged, file, pending, lost, flashVars>>

\* A torn pending marker fails the stage; any other failure is a fault: the
\* completion marker cannot be written, or the restore of the formatted /int
\* fails and its content is gone.
PostUpdateAbandoned ==
    /\ pc = "off" /\ bootMode = "PostUpdate"
    /\ Disarm
    /\ \/ /\ pending = Torn
          /\ UNCHANGED <<file, markerVars, faults, lost>>
       \/ /\ Fault
          /\ complete' \in {complete, None}
          /\ UNCHANGED <<file, pending, lost>>
       \/ /\ Fault
          /\ file' = NoFile /\ lost' = TRUE
          /\ pending' = None /\ complete' = None
    /\ UNCHANGED <<updaterUnchanged, flashVars>>

------------------------------------------------------------------------------

\* A device as shipped: the bootstrap image runs and its update directory is
\* on the card.
Init ==
    /\ pc = "off" /\ op = "none"
    /\ engine = InitEngine /\ previous = InitEngine
    /\ file = NoFile /\ pending = None /\ complete = None
    /\ bootMode = "Normal" /\ pointer = None
    /\ store = [d \in Dirs |-> IF d = BootDir THEN Bootstrap ELSE None]
    /\ running = Bootstrap
    /\ resetDue = FALSE /\ faults = 0
    /\ approved = {} /\ healthy = {} /\ lost = FALSE

\* The answer to the dialog, which waits for the user without a timeout.
Answer ==
    \/ PromptRefused
    \/ \E s \in Sessions, answer \in BOOLEAN: PromptApproved(s, answer)

\* The steps that finish what a handler or a boot has begun.
HandlerStep ==
    \/ WritePending \/ WritePendingFails
    \/ SavePartialFails \/ RemoveOldFile
    \/ CopyNewFile \/ CopyNewFileShort \/ CopyNewFileFails

BootStep ==
    \/ Boot \/ AcceptHealth \/ RearmLastKnownGood \/ QuarantineAtBoot
    \/ ClearMarkers
    \/ PreUpdate \/ FlashWriter \/ UpdateAbandoned
    \/ PostUpdate \/ PostUpdateAbandoned

ClientRequest ==
    \/ \E c \in Candidates: Import(c) \/ VerifyFails(c)
    \/ \E n \in 1..ContentBytes: Stage(n)
    \/ \E s \in Sessions, c \in Candidates: Verify(s, c)
    \/ \E s \in Sessions: Prompt(s)
    \/ Cancel \/ Quarantine \/ Rollback \/ RefusedRequest

Next ==
    \/ ClientRequest \/ Answer \/ HandlerStep \/ BootStep
    \/ Expire
    \/ Reset \/ PowerCut \/ ResetTimer \/ RebootNormal \/ RebootUpdateStart

Spec == Init /\ [][Next]_vars

\* A handler that waits for nobody returns, a device that is switched off is
\* booted, and a queued timer callback fires.  Users, requests and resets owe
\* nothing.
Fairness == WF_vars(HandlerStep) /\ WF_vars(BootStep) /\ WF_vars(ResetTimer)

FairSpec == Spec /\ Fairness

------------------------------------------------------------------------------
(* Properties *)

\* Engine, state file, markers and updater keep their types; received never
\* passes content_bytes.
TypeOK ==
    /\ pc \in {"off", "reconcile", "up", "prompt", "arm", "save", "copy",
               "clear"}
    /\ op \in {"none", "boot", "rearm", "request", "activate", "rollback"}
    /\ engine \in Engines /\ previous \in Engines
    /\ file \in [present: BOOLEAN, eng: Engines]
    /\ pending \in Candidates \cup {None, Torn}
    /\ complete \in Candidates \cup {None}
    /\ bootMode \in {"Normal", "PreUpdate", "Update", "PostUpdate"}
    /\ pointer \in Dirs \cup {None}
    /\ store \in [Dirs -> Firmware \cup {None}]
    /\ running \in Firmware
    /\ resetDue \in BOOLEAN /\ faults \in 0..MaxFaults
    /\ approved \subseteq Candidates /\ healthy \subseteq Candidates
    /\ lost \in BOOLEAN

\* No two archives are extracted into the same directory: the releases of one
\* package id carry different versions.
DistinctVersions ==
    \A c, d \in Candidates: Dir[c] = Dir[d] => c = d

\* The device only ever runs the shipped firmware or a candidate whose
\* activation was approved on its own screen, whatever was cut short, refused
\* or repeated on the way (rpc_poison_content_update_activate and every caller
\* of update_operation_prepare).
RunsApproved == running \in approved \cup {Bootstrap}

\* The image a rollback would install is the one whose digest the engine has
\* accepted: last_known_good_manifest_path and accepted_digest are updated by
\* different code (promotion at boot, ROLLBACK) and must stay in step, in RAM
\* and in the state file.
KnownGoodIsAccepted(e) ==
    e.lkg # None => store[e.lkg] \in {e.accepted, None}
KnownGoodMatchesAccepted ==
    /\ pc # "off" => KnownGoodIsAccepted(engine)
    /\ file.present => KnownGoodIsAccepted(file.eng)

\* A transaction on its way to activation always carries a sequence above the
\* accepted floor, also after its state file was written, lost, reloaded or
\* restored: the check of poison_content_update_admit is made once, at import.
AboveFloor(e) ==
    e.active /\ e.state \in BeforeActivation \cup {"Activating"}
        => Seq[e.cand] > e.floor
SequenceAboveFloor ==
    AboveFloor(engine) /\ (file.present => AboveFloor(file.eng))

\* The outstanding token was issued for the candidate the engine holds.
\* rpc_poison_content_update_activate hands the token its own digests back,
\* so nothing else ties the approval to the candidate.
ConfirmationBindsCandidate ==
    engine.confirmation.active => engine.confirmation.target = engine.cand

\* As long as no fault has lost the state file, the floor of a device that is
\* up covers every candidate whose health was accepted.
FloorKept ==
    ~lost /\ pc = "up" => \A c \in healthy: engine.floor >= Seq[c]

\* A candidate's health is only recorded while its own completion marker is
\* still on disk: neither a stale marker of another update nor a marker
\* cleared before the save can be what a later boot relies on.
HealthNeedsMarker ==
    [][\A c \in healthy' \ healthy: complete = c /\ c \in approved]_vars

\* A device that is switched off comes up again, whatever it finds armed or
\* half-written: no stage of the updater and no re-arm loops.
BootCompletes == pc = "off" ~> pc = "up"

\* Once faults have ceased, one restart is enough to resolve an Activating
\* transaction for good: accepted, rolled back or quarantined on disk.
ActivatingResolves ==
    (pc = "off" /\ file.present /\ file.eng.state = "Activating"
        /\ faults = MaxFaults)
    ~> (file.present /\ file.eng.state \in Terminal)
=============================================================================
