# A TLA+ model of Poisoned_Os

Poisoned_Os is a firmware for the Flipper Zero that is driven from a browser: a
dashboard talks to the device through an encrypted session, and the device runs
tools, keeps evidence, installs packages and updates itself. This directory
holds TLA+ models of the parts of that firmware whose correctness depends on
orders of events no unit test produces, the TLC configurations that check them
on small instances, and TLAPS proofs for every instance.

All paths below are relative to `src/`.

Contents: [1 Inventory](#1-inventory), [2 Plan](#2-plan),
[3 The models and the code](#3-the-models-and-the-code),
[4 Runs](#4-runs), [5 Bounds](#5-bounds), [6 Fairness](#6-fairness),
[7 Proofs](#7-proofs), [8 What is only model-checked](#8-what-is-only-model-checked),
[9 What is not modelled](#9-what-is-not-modelled).

## 1 Inventory

### Parts and state

| Component | State it keeps | Operations |
|---|---|---|
| Content-update engine (`poison_content_update.c`, `rpc_poison_content_update.c`) | one transaction (candidate, previous identity, received bytes, state), sequence floor, accepted digest, last and previous known-good path, confirmation token; a state file in `/int` | IMPORT, STAGE, VERIFY, ACTIVATE, HEALTH, ROLLBACK, CANCEL, QUARANTINE, INSPECT |
| Boot reconciliation and update request thread (`rpc.c`, `rpc_poison_session.c`) | `busy_mutex`, queued reset callback, two health markers | start-up, handling one request, delayed reset |
| Updater (`update_operation.c`, `applications/system/updater`) | RTC boot mode, `.fupdate` pointer, flash, backup of `/int` | prepare, disarm, pre-update, flash, post-update |
| Confirmation token (`poison_confirmation.c`) | one token per engine or session | issue, approve |
| Package manager (`poison_packages.c`, `poison_package_transaction.c`, `rpc_poison_packages.c`) | a table of records, each with a transaction and a rollback state; five directories per package; a state file; a token per session | IMPORT, STAGE, VERIFY, ACTIVATE, HEALTH, ENABLE, DISABLE, ROLLBACK, REMOVE, QUARANTINE, INSPECT, start-up recovery |
| Archives, signatures, catalog, authorities (`poison_package_*.c`) | revocations, trusted keys | verify, extract, list |
| Secure session, pairing, resumption (`rpc_poison_session.c`, `rpc.c`, `poison_pairing_store.c`, `rpc_poison_crypto.c`) | handshake stage, keys, send and receive sequence, role, resume slots, pairing table | hello, pair, resume, envelope in and out, revoke one or all, expire |
| Secure channels (`rpc_poison_channel.c`) | per channel: sequences, credits, open flag | open, send, receive, grant, close |
| Role policy (`poison_policy.c`) | constant table | allow |
| Workloads (`poison_workload*.c`, `poison_js_bundle.c`) | table of records with attachments, limits, state; runtime threads; console ring | attach, start, cancel, finish, fail, detach |
| Tool runs and application endpoint (`poison_tools.c`, `poison_app.c`, `rpc_poison_tools.c`, `rpc_poison_app.c`, `poison_safe_sample.c`) | the current run, one queued command, a semaphore and an idle flag; the one endpoint with its callback, registered by the tools or by the safe sample, and the one subscriber | start, command, cancel, stop, publish, subscribe, register, unregister |
| Evidence, cases, annotations (`poison_evidence/`, `rpc_poison_evidence.c`) | objects and records on the SD card, the ids of this boot in RAM, an export per session | capture, verify, annotate, export in batches |
| Audit ring (`poison_audit.c`, `rpc_poison_audit.c`, the dashboard's `AuditClient.ts`) | fixed ring, event counter, head of the hash chain; all in RAM | append, snapshot; the reader verifies |
| Profiles (`poison_profiles.c`) | active and previewed profile, saved file | preview, apply, reset |
| Virtual file system, journal, migration (`poison_vfs/`, `rpc_poison_files.c`) | journal entries, migration stage | begin, commit, recover, migrate, file requests |
| Lessons and assignments, diagnostics | progress, counters | step, submit, report |
| Furi kernel, storage, loader, expansion, power | inherited from the upstream firmware | used through their APIs |
| Dashboard, bridge, builder, artifact service, web installer | the host side | client end of the session; build and delivery |

`PROJECT.json` lists the same components with their files and status.

### How they interact

Every request arrives in an envelope of the secure session, is checked against
the role policy and is dispatched to the handler of its component. Handlers that
change durable state (content update, packages) run under `rpc->busy_mutex`, one
at a time; a session that ended is freed by the timer thread without that mutex,
and tools, scripts, the safe sample and the screen have threads of their own. The engine and the package manager share the archive verifier and the
confirmation token; a request that needs an approval is answered with a token,
and the repeated request opens a dialog on the device's own screen. Activating a
firmware candidate hands over to the updater through the RTC boot mode and
`.fupdate`; the updater reports back through a marker file the next start-up
reads. The package manager keeps its record in one file and the releases in
directories, and reconciles the two at start-up. Audit, diagnostics and evidence
are fed from the handlers.

### What is hard

* **Crashes between durable writes.** A handler makes up to five of them (arm,
  marker, remove old file, copy new file, remove partial file); a directory move
  is a copy of files followed by a removal. `storage_common_rename` removes its
  destination first, and a copy that a full card cuts short is reported as a success.
* **Resets that do not wait.** The reset a ROLLBACK queues runs on the timer
  thread and does not take `busy_mutex`: it can cut the next handler in two.
* **Two places that must agree.** Engine and card, record and directories,
  accepted digest and known-good path, token and candidate are changed by
  different code.
* **Acting before asking.** HEALTH, REMOVE, ROLLBACK and VERIFY of a package
  move directories first and ask the manager afterwards; what a refusal puts
  back decides what is left.
* **Failures half way through a failure path.** A save that is reported as
  failed may have replaced the file.
* **Concurrency proper**: workloads against their runtime threads, tool runs
  against their worker and against the other app that registers an endpoint, publishers against an unsubscribing client, revocation
  against open sessions, lost envelopes against resumption.

`PROJECT.json` lists each of these at its line, with the properties that would
catch it going wrong.

### What makes each part correct

* *Content update*: only firmware approved on the device runs; the rollback image
  is the accepted one; the sequence floor does not sink; health is recorded only
  on evidence of this update; an interrupted update is resolved by a restart.
* *Packages*: Healthy implies verified and approved; the floor does not sink; what
  is active was verified; refused requests change nothing; a restart resolves what
  was interrupted and keeps the installed release.
* *Token*: one use, one session, one target, one deadline.
* *Session and channels*: each envelope is accepted at most once and in order,
  both ends agree on sequences or the session ends, credits are never exceeded, a
  revoked client loses access.
* *Workloads and tools*: every run reaches exactly one terminal state, a cancelled
  run stops, a record is not reused while somebody holds it.
* *Evidence and audit*: a record never points to a missing or different object; a
  reader that missed events is told so.
* *Profiles, VFS*: an interrupted change leaves the old or the new state.

## 2 Plan

In order of importance; everything up to 7 is done.

1. `Confirmation`: the token, shared by the two modules below.
2. `ContentUpdate`, `MCContentUpdate`, `ContentUpdateProofs`: the firmware update.
3. `Packages`, `MCPackages`, `PackagesProofs`: the package manager for one id.
4. `PairingRegistry`, the table of paired clients and its two files, and `Session`,
   which composes it with links, envelopes, resume slots and revocation;
   `MCSession`, `SessionProofs`.
5. `ToolRuns`, and `Workload` with `MCWorkload`: the two places where handlers meet
   threads of their own; `ToolRunsProofs`, `WorkloadProofs`.
6. `AuditLog`, the abstract specification, and `AuditRing`, which implements it;
   `MCAuditRing`, `AuditRingProofs`.
7. `EvidenceArchive`, the abstract specification, and `Evidence`, which implements it;
   `Exports` with `MCExports`; `EvidenceProofs`, `ExportsProofs`: what is on the card
   after a crash.
8. Worth proving still: `FloorOnlyRises` for one fault, which today only TLC shows
   (section 7 says why it stops there).
9. Models that could follow: several package records in one table, secure channels.

## 3 The models and the code

### `Confirmation`

Pure operators: `Issue`, `ConfirmationMatches` (the probe handlers make before
they open the dialog) and `Approve` (`poison_confirmation_approve` with the
answer). The token bytes and the three digests are abstracted to equality of a
target; the deadline is a flag that may turn false at any moment after the issue.

### `ContentUpdate`

| Variable | Code |
|---|---|
| `engine`, `previous` | `RpcPoisonContentUpdate` in RAM and the copy the handler restores |
| `file` | `/int/.poison/content_update_state.bin` |
| `pending`, `complete` | the two health markers in `/int/.poison` |
| `bootMode`, `pointer` | RTC boot mode, `/ext/.fupdate` |
| `store`, `running` | what each update directory holds, what is in flash |
| `resetDue` | the reset callback queued on the timer thread |
| `pc`, `op` | where the running handler or boot is, and what it does after its save |
| `approved`, `healthy`, `lost` | history, read by properties only |

A handler is split at its durable writes, because a reset, the timer callback or a
failing call can strike between any two of them. ACTIVATE, for example, is
`Prompt`, then `PromptRefused` or `PromptApproved` (which arms the updater), then
`WritePending` (the marker and the transition to Activating), then the save:
`RemoveOldFile` and `CopyNewFile`. Each has its failing variant, and
`CopyNewFileShort` is the copy that is cut short and reported as a success. Boot is `Boot`
(load, adopt the bootstrap image), then `AcceptHealth`, `RearmLastKnownGood` or
`QuarantineAtBoot`, the save, and `ClearMarkers`. The updater takes one boot per
stage: `PreUpdate`, `FlashWriter`, `PostUpdate`, or their abandonment. Requests
that are refused are `RefusedRequest` where the refusal has an effect: it disarms
the updater.

### `Packages`

| Variable | Code |
|---|---|
| `up` | the device serves requests |
| `rec`, `file` | the `PoisonPackageRecord` in RAM and in `package_state.bin` |
| `disk` | what the five directories (active, candidate, rollback, quarantine, swap) hold |
| `confirmation` | the token of each session |
| `verified`, `confirmed` | history, read by properties only |

Here a handler is one action and its storage operation is a *plan*: the sequence
of renames and removals the code makes, computed from which directories exist.
`Run` executes a plan, `Breaks` gives every disk that a fault in one of its calls
can leave (untouched, partly copied, copied but not removed, partly removed:
`Torn` marks a partial directory), `Repair` the calls the code makes when one has
failed. `Transact` is the common shape of the handlers: storage operation,
manager operation, save, with the undo each handler uses when the manager refuses
or the save fails. `Boot` is `poison_packages_recover_storage_state` with the
record it ends with. The same fault may be a failing call, after which the handler
goes on, or a power cut, and it may strike the storage operation or the one that
undoes it after a refusal (`StorageFails`).

The two modules take different granularity on purpose. In `ContentUpdate` what
matters is which of several small files was written last, and other steps
(expiry, timer) come in between; in `Packages` nothing comes in between, and what
matters is the shape of the directories.

### `PairingRegistry` and `Session`

| Variable | Code |
|---|---|
| `reg` | `poison_pairing_registry_store` and its ready flag |
| `disk` | the two files, written in turn by the parity of the generation |
| `save` | the registry operation that holds the registry's mutex (add, revoke, revoke all, recover), and whether its file is open (truncated) |
| `link` | per transport the `RpcSession`: connected, handshake or session state, id, client, `tx_sequence`, `rx_sequence`, whether a resume token was issued and the session counted |
| `slots` | `rpc->resume_slots`, with `age` as the order of expiry |
| `doubt`, `overwritten`, `nextId`, `sent`, `taken`, `dead` | history, read by properties only (and by the bounds) |

A save is two steps, the truncating open and the rest, and may fail before the
first, after it, or after the bytes are written. `Session` takes the registry's
actions as they are and adds the handlers: HELLO, CONFIRM (split at its save:
`confirm_added`), the envelope with its four kinds of request, the resume request,
closing and freeing a link, `rpc_send` from another thread, the screen's
revocation of one client or of all, expiry, and a power cut. The network is the environment: any sequence
number and any resume request may arrive at any time, which covers loss,
repetition and delay. The session id stands for the keys as well, so sending one
sequence twice under one id would be one key and nonce used twice.

### `ToolRuns`

| Variable | Code |
|---|---|
| `tools` | `PoisonToolsService`: run, flags, queued command, event sequence |
| `app` | `PoisonAppService`: the endpoint's run with its own sequence and the app that registered it (its id stands for callback and context too), the subscriber |
| `sample` | the safe sample is open and has the endpoint, or had it |
| `work_available`, `idle` | the semaphore and the event flag a stop waits for |
| `worker`, `rpc`, `closer` | where the worker, the handler and the timer thread are |
| `session` | per session: open or closing, subscribed, the run it believes it has |
| `evidence`, `results` | ids captured; history of the accepted result events |

A step is what a thread does between two mutex operations; `rpc_stop_wait` either
finds the flag or times out. START is one step: it runs under `busy_mutex`, the
worker waits whenever a start succeeds (`StoppedIsQuiet`), and the safe sample, which
takes no mutex but the endpoint's, comes before its registration or after.

The safe sample opens (`poison_safe_sample_app`), is sent commands by any subscribed
session, answers them with events, and ends. Its callback runs in the handler's thread
without a mutex, so that the sample may have ended by then: the model lets it do
anything it could do. Whoever registers second is refused, and unregistering removes
nothing of the other's; a START that is refused the endpoint leaves the service
inactive again.

### `Workload`

| Variable | Code |
|---|---|
| `rec` | the managed records: occupied, attachments, name (actor and workload id), project present, state, the adapter's thread and whether the adapter is bound |
| `thread` | the script threads: running, printing a trace, ended; the record their events reach; stop flag; `mine` is history: the record still belongs to the workload that started it |
| `managed`, `asked` | the record each session is attached to; history: the name it asked for |
| `rpc`, `timer` | the handler and the timer thread when they wait in `js_thread_stop` |

`Bound` is `rpc_poison_workload_bind` with attach and detach; every request starts
with it. CREATE, CANCEL and the end of a session join a script, each in two
actions. CREATE joins with the record's mutex held (`Locked`), CANCEL without.
When a handler and the timer thread stop the same script, the second uses memory
the first has freed: `fault`, after which the device restarts.

### `AuditLog` and `AuditRing`

`AuditLog` is the promise: a chain that only grows, snapshots that hold consecutive
events and say when one is missing. `AuditRing` is the code: `chain` is the
`PoisonAuditChain` (ring, count, write index, next id, head digest), `reply` the
last snapshot, `verdict` what `AuditClient.read` made of it, `log` the history.
`KeepsPromise` is the refinement, `Promise == INSTANCE AuditLog` with the history
as the abstract log. SHA-256 is the operator `Digest`, of which nothing is assumed
but its range. The dashboard also refuses a metadata text longer than 64 characters
(`AuditClient.ts:43`), while the firmware stores up to 160 (`poison_audit.h:13`).
`Verifies` leaves that comparison out: no caller of `poison_audit_append` passes more
than 63 characters today, but one that did would make every read that contains its
event look tampered with, against what `FullReadJudged` says.

### `EvidenceArchive`, `Evidence` and `Exports`

`EvidenceArchive` is what a reader of the card may count on: a set of contents that
only grows, a set of contents that were lost while they were stored and never come
back, and ids that are each given a content once, which is in one of the sets by then.
`Evidence` implements it (`KeepsArchive`, `Archive == INSTANCE EvidenceArchive`): the
contents kept are the objects that are complete, and an id names what its record holds
once that is complete.

In `Evidence`, `object` and `record` are the files of the two directories, `Torn`
marks an incomplete one, `source` the file that `capture_file_global` reads twice,
`store` the ids of this boot, `mutex` and `task` the service's mutex and where each
capturing thread is. A promotion is `storage_common_rename`: the final file exists
torn, then complete; the copy, or the removal of the temporary file after it, may
fail; and on a full card the file stays torn while the rename answers `FSE_OK`, because
`storage_common_copy` does not look at what `stream_copy_full` returns
(`storage_external_api.c:597`) and a short write is not an error of the stream.
`short_objects` and `short_records` are the contents and ids it happened to. In `Exports`, `ex` is `RpcPoisonEvidence` of each session, `temp` and `final`
the files by export id, `short` the exports whose manifest was cut short like that; a
request is one step, since it runs under `busy_mutex` and
nothing else touches these files, except for the power.

## 4 Runs

### Runs that pass

| Run | Configuration | What it shows |
|---|---|---|
| `content_update` | two releases, two sessions, two chunks, one fault | `TypeOK`; `RunsApproved`: only shipped or approved firmware runs; `KnownGoodMatchesAccepted`: what a rollback would install is the accepted firmware, in RAM and on disk; `SequenceAboveFloor`: admission holds until activation, through reloads; `ConfirmationBindsCandidate`; `FloorKept`: unless the file was lost the floor covers everything accepted; `HealthNeedsMarker`: health is recorded only with this candidate's own marker still on disk |
| `content_update_live` | one release, two faults, fairness | `BootCompletes`: no stage or re-arm loops; `ActivatingResolves`: after the last fault one restart resolves an Activating transaction |
| `packages` | two releases, one fault | `TypeOK`; `HealthyWasVerified`: Verified, Activating and Healthy are earned, in RAM and in the file; `FloorOnlyRises`; `StartupResolves`: the record a fault-free start-up makes of an interrupted activation is fit to be saved |
| `packages_floor` | three releases, no fault | `ActiveWasVerified`: although VERIFY extracts before it decides, only verified releases reach the active directory; `FloorOnlyRises` with a release between two others: after a rollback the floor stays that of the last transaction |
| `session` | two clients, two transports, two slots, two sessions of two messages each way, registry operations that begin below generation 3 | `TypeOK`; `RestartFindsRegistry`: no answered pairing or revocation is lost by a power cut, also in the middle of a save, unless that save is the revocation of all of an even number of clients, or it failed earlier in this boot; `NeverGoesBack`: over disconnections and resumptions no sequence is sent or accepted twice; `OneOfEach`: a session is on one link or in one slot |
| `tool_runs` | two sessions, two run ids, evidence for two results, a safe sample that registers one of the two ids and publishes one event | `OneWakeup`: the semaphore always agrees with the queued command, so the `furi_check` on its release holds; `StoppedIsQuiet`: without an active run nothing of the tools is queued, executing or accepted; `CommandKeepsItsRun`: a command dispatched without a mutex still meets its own run; `SequencesAgree`: a run that was not cancelled has the endpoint, which expects its next event, whatever the safe sample registers and a late cancel meets; `ResultsAreEvidence`; `OwnerHasTheRun`; `BecomesIdle` (liveness): queued, cancelled and timed-out work comes to rest |
| `workload` | two sessions of one actor, one id shared, three ids over two records, two scripts | `AttachedIsOwned`: the count of attachments is exact and a session never finds another workload in its record; `CancelledIsStopped`: Cancelled means joined; `VerdictStands`: one verdict per workload, a cancellation not overtaken by the script's own end; `CancelReturns` (liveness): CANCEL does not deadlock with the script it joins |
| `audit` | a ring of three, six events, restarts | `TypeOK`; `RingHoldsTail`; `FullReadJudged`: the dashboard never rejects what the device sent and says "verified" exactly when it has everything; `KeepsPromise`: the refinement of `AuditLog` |
| `evidence` | two threads, three ids, two contents, room for two, one power cut | `TypeOK`; `CapturedIsWhole`: what was answered is recorded, and a complete record has its complete object, although the file is hashed without the lock, except for files a full card cut short in a rename that answered `FSE_OK`; `KeepsArchive`: the refinement of `EvidenceArchive`, so that nothing complete is ever replaced, torn or lost, and what was cut short stays lost |
| `exports` | two sessions, two export ids, three evidence ids, batches of up to two, one power cut | `TypeOK`, with the limit of an export; `ManifestIsWhatWasHashed`: repeated, refused and cut batches leave exactly the ids that were hashed, sorted, in the manifest; `RetriedDigestIsCurrent`: a finalize that is repeated answers with the digest of the manifest in place, unless that was cut short by a full card and answered as complete |

Every property of these runs has a mutant in `PROJECT.json`: a definition changed
the way a plausible slip in that code would, under which TLC finds the property
violated.

### Runs that fail: statements of the documents the code does not meet

| Run | Statement | What happens |
|---|---|---|
| `workload_disconnect` | SPEC-1:528, a disconnect terminates the workload and releases resources | a Queued workload is left as it is, and its record cannot be taken by another until the device restarts |
| `session_revocation` | SPEC-1:165 (FR-57), a revocation invalidates active and resumable sessions | only the registry entry goes; once the client is paired again, a session from before the revocation can go on or be resumed |

The `findings` of `PROJECT.json` quote the statements and give the lines.

### Also noted while modelling, without a run of their own

Content update:

* The activation callback arms the updater before the transition to Activating and
  before the save (`rpc_poison_session.c:831`); ADR-0011:47 has it the other way
  round.
* The reset a ROLLBACK queues can cut a later save between the removal of the state
  file and the copy of the new one (`storage_external_api.c:507`); the floor then
  starts again from 0, against ADR-0011:57 and :44. A full card does the same, in a
  save that is reported as a success. `FloorKept` says what holds unless the file is
  lost.
* The boot reconciliation never compares the running firmware with the candidate;
  it relies on the completion marker (`rpc.c:1161`).
* IMPORT over an Activating transaction leaves its candidate armed
  (`rpc_poison_content_update.c:324`). `RunsApproved` holds all the same, since
  that candidate was approved.
* Two firmware releases with the same id and version share an extraction
  directory, and verifying the second replaces the image of the first
  (`rpc_poison_session.c:883`): the reason for `DistinctVersions` below.

Packages:

* A refused unhealthy HEALTH report has already moved the directories
  (`rpc_poison_packages.c:348`, against ADR-0011:55); a refused REMOVE has already
  deleted the rollback directory (`poison_packages.c:359`, against SPEC-1:688).
* The confirmation binds the digest of the request, which is not compared with the
  record (`rpc_poison_packages.c:200`, against ADR-0011:51).
* A restart of a Staged update with an old rollback directory puts back the release
  before the installed one (`poison_packages.c:782`, against ADR-0011:20).
* A failed extraction quarantines the active directory for want of a candidate one
  (`rpc_poison_packages.c:320`, against the M3 plan:98). A repeated VERIFY replaces
  the candidate directory before it is refused, and a power cut then leaves it to be
  activated (`rpc_poison_packages.c:314`, against the M3 plan:149).
* The health of a package is accepted whenever its transaction is Activating, also for
  a record that is Removed (`poison_packages.c:647`, `poison_package_transaction.c:85`).
  Three storage faults in a row reach this: the quarantine of a VERIFY fails while
  Activating; a REMOVE whose save fails leaves the file Removed and Activating, and the
  active directory restored; after a restart a HEALTH whose save fails leaves the file
  Active and the record in RAM Removed. An IMPORT of a lower sequence is then admitted,
  and the floor has sunk. TLC finds this with `MaxFaults = 3`; with one fault it does
  not exist (`packages`).
* A second IMPORT of a package before the first was received takes the first one's
  digest for the previous release (`poison_packages.c:552`).

Sessions:

* Revoking all clients can bring some of them back. `poison_pairing_registry_revoke_all`
  raises the generation once for each client but saves once, so that with an even number
  of clients the save truncates the file of the current table
  (`poison_pairing_store.c:413`). Pair c1 (generation 1, slot 1), pair c2 (generation 2,
  slot 0), revoke all: the save of generation 4 opens slot 0. If the power fails now, the
  next boot loads generation 1: the answered pairing of c2 is lost, and a client revoked
  before may be paired again. A save that fails there leaves the same danger until the next
  boot. ADR-0002:35 says that "an interrupted write leaves the prior committed state
  available". `RestartFindsRegistry` exempts exactly this (`Overwrites`, `overwritten`);
  without its two conditions TLC finds the trace.
* After a STOP or a revocation the same connection cannot pair again: it has been
  counted once (`rpc_poison_session.c:713`).
* A revoked session keeps receiving events until it sends its next envelope.
* One lost message makes a resumption refused, as the acknowledgement must be exact.
* A power cut during the very first save, or the first after a recovery, leaves a
  registry that must be recovered; there is no client in it then
  (`RestartFindsRegistry`). After a recovery the table in memory has generation 0
  and the file 1.

Tool runs:

* The safe sample and the tools share the one endpoint (`poison_safe_sample.c:189`). While
  the sample is open every tool start is refused. A cancelled tool run no longer holds the
  endpoint, so the sample may take it before the run is stopped; the rest of the run has
  none, which is why `SequencesAgree` is about runs that were not cancelled.
* The dispatch of a cancel cancels whichever run is registered when the callback has
  returned (`poison_app.c:152`): the cancel of a tool run that ended meanwhile ends a run
  of the sample. The other way round cannot hurt: `SequencesAgree` shows that a tool run
  that goes on keeps its endpoint.
* The callback of the sample can run after its app has ended and its memory was freed
  (`poison_app.c:151`, `poison_safe_sample.c:194`).
* At the end of a session the application context is freed before the tool run is
  stopped, and `poison_app_publish_event` calls the subscriber it read before the
  unlock (`poison_app.c:168`).
* A stop that times out at the end of a session leaves the run active with no session
  that could stop it; the tools are then blocked until the device restarts.
* A session opened while another has the subscription never gets it. The event of a
  derived artifact is refused every time, for want of an artifact name. A run that
  reuses the id of an earlier one publishes nothing, as its evidence ids exist.

Workloads:

* CREATE over a terminal workload joins its script with the record's mutex held,
  which the script's last event needs (`rpc_poison_workload.c:530`): the handler
  waits with `busy_mutex`, and no request of any session is served. The run therefore
  allows deadlock; `CancelReturns` shows that CANCEL is not concerned.
* A cancel or create and another session's free can stop one script twice (`fault`).
* A thread whose record was cleared is never joined, and its events reach the next
  workload of that record. A script whose interpreter cannot be allocated ends
  without an event and its workload stays Running.
* Output past the limit while Cancelling fails the workload, and CANCEL reports an
  error. A CREATE that fails after a terminal workload clears the record's id.
* The end of any session disconnects a workload that other sessions watch.

Evidence:

* Promotion is not atomic (M2 plan:150): a power cut leaves a torn object or record
  that exists, and that digest or id can never be captured again.
* A full card does so while the capture is answered as a success: the copy of
  `storage_common_rename` is cut short, the temporary file is removed, and neither length
  nor digest of the object in place is verified again (`poison_evidence.c:184`, against
  the M2 plan:150 and SPEC-1:407). The id is then in the store of this boot with a record
  that is torn, or has a record of an object that is torn; since an object that exists is
  compared and not written again (`poison_evidence.c:153`), that content is refused ever
  after.
  An export can be completed with a digest that is not the digest of its manifest, which
  ADR-0007:11 has persisted atomically.
* Two sessions that export one id share its temporary file: the manifest may then
  differ from its digest and replace one that was in place. The properties exempt
  such ids (`shared`).

## 5 Bounds

* *Releases.* Two firmware releases are an update over an update: a transaction
  that is replaced, a rollback from the second to the first, a marker of one met by
  the other, a floor to violate. The package floor needs three: two installed in
  turn, and one with a sequence between them to offer after the rollback.
* *Sessions and links.* Two wherever sessions share state or steal from each other;
  one where the token is per session and sessions only share the record (`packages`).
* *Chunks, batches, events.* Two give a first and a last one and one too many; a ring
  of three wraps twice in six events.
* *Records and slots.* Two of each: one can be full while the other is free, and three
  workload ids over two records force a replacement. With two session ids two slots
  are never both taken by others; the proof covers eviction for every number.
* *Registry generations* up to 3, and 4 by the revocation of two clients at once: both
  files have been written and one rewritten, also the one of the current table.
* *Faults* (`MaxFaults`, `MaxCuts`): one power cut or, in the first two models, one
  failing storage call, anywhere; failing storage calls of `Evidence`, `Exports` and
  `PairingRegistry` and the power cuts of `Session` are unlimited. Resets between
  requests, expiries, rejected dialogs and refused requests are not faults. The
  liveness run of the update has two, so that the recovery from a fault can itself
  fail; the no-fault run asks what the fault-free code does.
* `MaxEvents`, `MaxIds`, `MaxSequence`, `MaxGeneration`, `SampleMax`, `EvidenceMax` bound
  counters (the last is the code's own limit, made small), `Threads` the scripts alive at
  once. Evidence for two results is enough for two results of one run, of two runs, and
  for a capture that is refused. The sample's run id is one of the two that clients use
  (`Onboarding`), so that commands and events of the two apps differ by the app alone.
* Symmetry: of sessions and export ids in `exports`, of clients and links in
  `session`; neither has a liveness property. Not elsewhere.

Distinct states: `content_update` 2.2 million, `content_update_live` 0.1, `packages`
0.6, `packages_floor` 0.7, `session` 2.6, `tool_runs` 0.55, `workload` 0.41,
`evidence` 4.2, `exports` 0.16 million; `audit` is the smallest.

## 6 Fairness

`FairSpec` of `ContentUpdate` assumes weak fairness of three things.
`HandlerStep`: a handler that has begun to write returns, since the storage calls
return; the answer to the dialog is not part of it, because the dialog waits for the
user without a timeout. `BootStep`: a device that is
switched off is switched on, and the boot sequence and the updater's stages are
sequential code without waits. `ResetTimer`: a callback queued on the timer thread
runs. Nothing is assumed of clients, of the user's answer, of expiry or of resets,
and a fault never has to happen or to stop happening: `ActivatingResolves` starts
from states in which the bound on faults is used up.

`FairSpec` of `ToolRuns` assumes weak fairness of the worker, of a handler that has
begun, and of the timer thread that has begun to free a session, and nothing of the safe
sample, which its user may leave open for ever: the threads are
preemptive, every adapter polls a deadline, and the wait of a stop is bounded.

`FairSpec` of `Workload` assumes that a script whose stop flag is set ends with one of
its events (the interpreter polls the flag), that the handler which joined it goes on,
and that a fault restarts the device. Nothing is assumed of a script that is not
stopped, nor of the timer thread.

## 7 Proofs

### `ContentUpdateProofs`

From `ContentUpdateAssumption` (distinct special values, a directory and a positive
sequence for each candidate, at least one chunk), for any number of candidates,
sessions, directories, chunks and faults:

| Theorem | Statement |
|---|---|
| `TypeCorrect` | `Spec => []TypeOK` |
| `AlwaysAboveFloor` | `Spec => []SequenceAboveFloor` |
| `TokenIsExact` | `Spec => []ConfirmationBindsCandidate` |
| `FloorIsKept` | `Spec => []FloorKept` |
| `HealthIsMarked` | `Spec => HealthNeedsMarker` |
| `AlwaysRunsApproved` | `DistinctVersions => (Spec => []RunsApproved)` |
| `KnownGoodIsInStep` | `DistinctVersions => (Spec => []KnownGoodMatchesAccepted)` |

None of the properties is inductive. `RunsApproved`, for instance, says nothing of
the pointer that decides what runs after the next two boots, and the pointer comes
from paths in the engine, which come from the state file. The inductive invariant
`Inv` therefore says what an engine value may look like (`EngineInv`: a transaction
that has begun has a candidate, it is above the floor, its token is its own, every
path the updater could be armed with belongs to an approved candidate, the
known-good path is that of the accepted digest) and asserts it of all three places
an engine value lives in: RAM, the copy a handler restores, and the file. One lemma
per operation of the transaction shows that the operation keeps `EngineInv`; the
step lemmas then only say which value goes where.

`CardInv` adds what the update directories hold. It needs `DistinctVersions`: no two
candidates share a directory. The code does not enforce this, as section 4 notes.

### `PackagesProofs`

From `PackagesAssumption`, for any number of releases, sessions and chunks:

| Theorem | Statement | Faults |
|---|---|---|
| `PackagesTyped` | `Spec => []TypeOK` | any number |
| `HealthyIsVerified` | `Spec => []HealthyWasVerified` | any number |
| `StartupAlwaysResolves` | `Spec => StartupResolves` | any number |
| `FloorRises` | `Spec => FloorOnlyRises` | `MaxFaults = 0` |
| `ActiveIsVerified` | `Spec => []ActiveWasVerified` | `MaxFaults = 0` |

*Records.* `HealthyIsVerified` never looks at the directories: `SaveEffect` and
`TransactEffect` show that, whatever a handler does to the disk and wherever it is cut
short, RAM and file each end with a record that was there, an empty one, or the one
the operation made, and each operation keeps a record `Sound`: typed, and with every
claim covered by the history. `StartupAlwaysResolves` needs more, because the start-up
saves only a record that passes `poison_package_record_persisted_valid`. `Coherent`
says that the record's state and its transaction belong together and name one release
until a roll-back or a spoiled payload parts them; with it the record that a start-up
makes of an interrupted activation always passes.

*The floor.* `FloorInv` says that while the device runs an installed package in the
file is the transaction in RAM, and that it is not Removed there, so an import compares
with the right sequence. It is not kept by a handler whose save fails after the
directories were put back, and section 4 gives the three faults by which the property
itself becomes false; hence the hypothesis, which leaves resets between requests,
refusals and undone operations in.

*Directories.* A plan is run by a recursive function over its calls. `Least` (every
non-empty set of numbers has a least one, from `WellFoundedInduction`) gives the
induction: the first call of a plan that leaves a set of disks is a contradiction
when no call leaves it (`TrailStays`, `RunStays`). `Kept(V, W)` is the set of disks that
hold values of `V`, and of `W` in quarantine. Every call keeps `Kept(V, V)`; a call that
takes nothing out of quarantine keeps `Kept(V, W)`, and of all plans, repairs and
recoveries only an undo has another one (`PlanSeq`, `RepairSeq`, `RecoverySeq`). With `V`
everything this is the type of the disk, under faults too (`BreaksKept`). With `V` what
was verified it is `ActiveIsVerified`: an undo follows an operation that emptied
quarantine first (`QuarantineTakes`, `TransactClean`), and what VERIFY extracted of a
refused release leaves the candidate directory for quarantine before the handler
returns. The hypothesis is needed: section 4 notes the power cut that leaves a refused
candidate to be activated.

### `AuditRingProofs`

From `RingAssumption`, for every ring size, bound on the events, and digest function:
`RingTyped` (`TypeOK`), `RingIsTail` (`RingHoldsTail`), `FullReadIsJudged`
(`FullReadJudged`) and `RingKeepsPromise`, the refinement `Spec => Promise!Spec`. `RingHoldsTail` with the types is inductive: the
k-th newest event lies k slots before the write index, whatever the index. From it
follow that the search of a snapshot finds each wanted event, that the events copied
are those of `View`, and that the comparison with `oldest - 1` is the abstract
`truncated`; the initial state, append, snapshot and restart then map to steps of
`AuditLog` one by one. For a full read the view is the whole log or is truncated, and
the chain of the log is what the dashboard's verification recomputes: its verdict is
then the one `FullReadJudged` asks for.

### `SessionProofs`

For any finite set of clients and any number of operations, `RegistrySurvives`:
`RegistrySpec => []RestartFindsRegistry`. The property is not inductive: why the file
that a save truncates is never the one needed lies in the parity of generations. The
invariant says that a valid file lies in the slot of its generation's parity
(`ParityInv`), that the file of the table in memory holds it and nothing newer is
valid but the table in doubt (`HeldInv`, `OtherInv`), that a save in progress is for
a later generation and has torn only its own slot (`SaveInv`), and what an unreadable
registry looks like (`ReadyInv`). The argument holds for a save of the next generation,
whose parity is the other one, and for a revocation of all of an odd number of clients; the
revocation of an even number writes where the current table lies. That save is the
exemption of the property: the invariant asks for the file of the current table only
while it is not `overwritten`. An operation that succeeds after such a failure need not
repair it: a save that wrote its bytes and reported an error has left the higher
generation in the other file.

`SessionImplementsRegistry`: `Spec => RegistrySpec`, every step of the composed system
is a step of the registry or leaves it alone, so that `SessionKeepsRegistry` holds.
`SessionTyped`, `SessionNeverGoesBack` and `SessionExistsOnce` state `TypeOK`,
`NeverGoesBack` and `OneOfEach` for any number of clients, links and slots. Their
invariant adds that ids in use are older than the next one (`FreshInv`), that an id is
on one link, also during its handshake, or in one slot (`UniqueInv`), and that counters
are past the histories (`CounterInv`): moving a session from link to slot and back
preserves them only because taking empties the slot and freeing empties the link. That
`rpc_session_store_resume` may pick a free slot before the session's own is harmless
because `UniqueInv` shows that a live session has none.

### `ToolRunsProofs`

From `ToolsAssumption`, for any number of sessions, runs and results, every invariant of
the run: `WakeupsAreCounted` (`OneWakeup`), `StopIsQuiet` (`StoppedIsQuiet`),
`CommandsKeepTheirRun` (`CommandKeepsItsRun`), `SequencesAlwaysAgree` (`SequencesAgree`),
`ResultsHaveEvidence` (`ResultsAreEvidence`), `OwnerAlwaysHasTheRun` (`OwnerHasTheRun`).
They are invariant together, and with what ties the threads to each other. The idle
flag means a waiting worker and an empty queue (`WorkerInv`), and a thread that has seen
it during a stop still finds it set, since the run it stops is cancelled and takes no
command (`HandlerInv`, `CloserInv`). A command on its way to the worker meets its own
run or none, as only a start replaces a run and that needs `busy_mutex`
(`DispatchInv`). The endpoint belongs to the tools while a run is active and not cancelled
(`ToolsEndpoint`): the safe sample cannot register over an active one and cannot unregister
what is not its own, and a handler that runs the sample's callback or is about to cancel finds no tool run that
is not cancelled (`DispatchInv`). At most one session may stop a run, counting the one the timer thread
is freeing (`OwnerInv`): without that conjunct the run could be stopped behind the back
of an open session. A captured result is new before it is published (`CapturedInv`).

### `WorkloadProofs`

From `WorkloadAssumption`, for any finite set of sessions and any records, names and
script threads: `AttachmentsAreOwned` (`AttachedIsOwned`), `CancelledHasNoScript`
(`CancelledIsStopped`) and `VerdictsStand` (`VerdictStands`). The finiteness of the
sessions, which are connections of the device, is what makes a count of them mean
something. The invariant is about the thread a record points at: a script that still
belongs to its record's workload is that thread (`ScriptInv`), and a handler or the
timer thread that waits to join a script waits for the one its record points at
(`HandlerInv`, `TimerInv`), so that when it goes on and writes Cancelled, no script of
that workload is left. `Moved` and `BindFacts` carry the counting: a bind takes a session
out of one set of watchers and into another.

### `EvidenceProofs`

From `EvidenceAssumption`, for any number of threads, ids, contents and power cuts:
`EvidenceTyped` (`TypeOK`, with the limit of the store), `CapturedStaysWhole`
(`CapturedIsWhole`) and `EvidenceKeepsArchive`, the refinement `Spec => Archive!Spec`. The
invariant says what each step of a capture has established: one thread at a time is
past the lock (`LockInv`), so the id is still unknown and there is room (`StoreInv`), the
object is missing, torn with the right bytes, or whole, by how far the thread is
(`ObjectInv`), and the record is torn while it is promoted (`RecordInv`). A file in
`short_objects` or `short_records` is torn, or missing after a power cut, and the two
invariants ask nothing more of it. The end of the two promotions then maps to `Keep`, or
`Lose` for an object cut short, and to `Name` of the archive, every other step to a
stutter.

### `ExportsProofs`

From `ExportsAssumption`, for any number of sessions, export ids, batches and power cuts:
`ExportsTyped` (`TypeOK`), `ManifestsAreWhole` (`ManifestIsWhatWasHashed`) and
`RetriesAreCurrent` (`RetriedDigestIsCurrent`). A request drops or begins an export before
it takes its batch, so the invariant is an operator `Good` of files and sessions and each
of the two moves keeps it. An export that was never shared is open in one session
(`Sole`), which has hashed exactly what is in the temporary file, and has no manifest yet
(`Own`); a finalize promotes that file. The ids hashed stay sorted because a batch must
begin above the last of them (`HashedConcat`). The assumption that `Absent` and `Torn` are
no files' contents is what those names mean. A manifest that a full card cut short is in
place as `Torn` with its session completed: `ManifestIsWhatWasHashed` is about those that
are not torn, and `RetriedDigestIsCurrent` needs the exemption.

## 8 What is only model-checked

* Liveness (`BootCompletes`, `ActivatingResolves`, `BecomesIdle`, `CancelReturns`): out
  of the prover's reach.
* `FloorOnlyRises` of `Packages` with a fault inside a handler. It is false for three,
  so a proof for one or two would have to count which faults were spent on what.
* The failing runs, by their nature.

## 9 What is not modelled

* In the modelled parts: signatures, archive parsing and manifest checks (their
  verdict is an input), INSPECT, audit events and diagnostics; a flash write that
  is cut (the device then needs its DFU recovery); a second fault inside one
  package handler, and a directory move of a package that a full card cuts short and that is
  reported as a success (its properties are about the record, or run without faults); more than one package id, and with it the table at its limit;
  the version gate, which accepts equal versions and those it cannot parse;
  `poison_content_update_recover`, which no code of the firmware calls; the
  cryptography of the session, its capabilities, the names, roles and session counts
  of clients; native and WebAssembly workloads, artifacts and usage limits other than
  the console; cases and annotations.
* Secure channels count inside one session and one mutex. Profiles, lessons and the
  file requests are sequential handlers; journal and migration are driven by unit
  tests only; the role policy and diagnostics have no behaviour to speak of.
* Left out for good: kernel and services inherited from the upstream firmware, tool
  adapters (radio and pin I/O), the bridge, builder, artifact service, web installer,
  website, vendored libraries and assets. They are most of the repository's lines.
