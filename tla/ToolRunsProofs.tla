--------------------------- MODULE ToolRunsProofs ---------------------------
(***************************************************************************)
(* The tools service stays consistent under its three threads, for any    *)
(* number of sessions, runs and results. Three facts carry the argument.  *)
(* The idle flag, once set, is only cleared by a handler that may queue a *)
(* command, and a run whose stop has been asked for is cancelled, so it   *)
(* queues no more: what the stop saw before its wait still holds after.   *)
(* And the run that is active has at most one session that may stop it,   *)
(* counting the one that the timer thread is freeing. And the safe sample *)
(* registers, or is sent a command, only where no tool run that was not   *)
(* cancelled has the endpoint, and it unregisters only its own.           *)
(***************************************************************************)
EXTENDS ToolRuns, TLAPS, SequenceTheorems

------------------------------------------------------------------------------
(* Types *)

RunIds == Runs \cup {NoRun}
SessionIds == Sessions \cup {NoSession}

ToolsSet == [active : BOOLEAN, cancelled : BOOLEAN, run_id : RunIds,
             command_run : RunIds, work_pending : BOOLEAN,
             worker_busy : BOOLEAN, event_sequence : Nat]

AppIds == {"", ToolsApp, SampleApp}

AppRunSet == [active : BOOLEAN, cancelled : BOOLEAN, app_id : AppIds,
              run_id : RunIds, next_sequence : Nat]

AppSet == [run : AppRunSet, subscriber : SessionIds]

\* Where the worker is once it has taken a command.
Executing == {"executing", "captured", "published", "counted"}
WorkerSteps == {"waiting", "woken", "done"} \cup Executing

SessionSet == [state : {"closed", "open", "closing"}, subscribed : BOOLEAN,
               run : RunIds]

RpcSet == [pc : {"free", "stop", "idle", "dispatch", "sample", "signal",
                 "cancel"},
           session : SessionIds, run : RunIds, cancel : BOOLEAN]

CloserSet == [pc : {"free", "app_freed", "stop", "idle", "freeing"},
              session : SessionIds, run : RunIds]

EvidenceIds == [run : RunIds, sequence : Nat, derived : BOOLEAN]

ToolsTyped ==
    /\ tools \in ToolsSet
    /\ app \in AppSet
    /\ work_available \in Nat
    /\ idle \in BOOLEAN
    /\ worker \in WorkerSteps
    /\ evidence \subseteq EvidenceIds
    /\ session \in [Sessions -> SessionSet]
    /\ rpc \in RpcSet
    /\ closer \in CloserSet
    /\ sample \in BOOLEAN
    /\ results \in Seq(EvidenceIds)

------------------------------------------------------------------------------
(* The inductive invariant *)

\* The flag, the queue and the worker's own mark tell where the worker is. It
\* passes over a command only when its run was cancelled, and that run stays.
WorkerInv ==
    /\ idle => worker = "waiting" /\ ~tools.work_pending
    /\ worker \in Executing => tools.worker_busy
    /\ worker \in {"waiting", "woken"} => ~tools.worker_busy
    /\ worker \in Executing \cup {"done"} => ~tools.work_pending
    /\ worker = "done" /\ ~tools.worker_busy => tools.active /\ tools.cancelled

\* The endpoint is the tools service's, not the safe sample's.
ToolsEndpoint == app.run.active /\ app.run.app_id = ToolsApp

\* What StoppedIsQuiet rests on.
QuietInv == ~tools.active => idle /\ ~tools.worker_busy /\ ~ToolsEndpoint

\* The endpoint's run is the service's.
AppInv == ToolsEndpoint => app.run.run_id = tools.run_id

\* A start needs busy_mutex, so until dispatch is done there is no run but the
\* one a command was sent to, or, when dispatch is about to cancel or the
\* command is for the sample, one that has lost its endpoint already.
DispatchInv ==
    /\ rpc.pc = "dispatch" /\ tools.active => tools.run_id = rpc.run
    /\ rpc.pc \in {"sample", "cancel"} /\ tools.active => tools.cancelled

\* A result that is about to be published has its evidence, and is new.
CapturedInv ==
    worker = "captured" => /\ EvidenceId \in evidence
                           /\ \A k \in 1 .. Len(results) : results[k] # EvidenceId

\* The sessions that may stop a run: the open ones that have started one, and
\* the one being freed until its stop has been tried.
MayStop(s) ==
    /\ session[s].run # NoRun
    /\ \/ session[s].state = "open"
       \/ closer.session = s /\ closer.pc \in {"app_freed", "stop", "idle"}

OwnerInv ==
    /\ \A s \in Sessions : MayStop(s) =>
           tools.active /\ tools.run_id = session[s].run
    /\ \A s, t \in Sessions : MayStop(s) /\ MayStop(t) => s = t

\* A handler's session is open. While it stops a run nobody else may, and
\* when it has seen the flag the flag is still set.
HandlerInv ==
    /\ rpc.pc # "free" => /\ rpc.session \in Sessions
                          /\ session[rpc.session].state = "open"
    /\ rpc.pc \in {"stop", "idle"} =>
           /\ tools.active /\ tools.cancelled /\ tools.run_id = rpc.run
           /\ \A s \in Sessions : MayStop(s) => s = rpc.session
    /\ rpc.pc = "idle" => idle

\* The same for the timer thread.
CloserInv ==
    /\ closer.pc # "free" => /\ closer.session \in Sessions
                             /\ session[closer.session].state = "closing"
                             /\ session[closer.session].run = closer.run
    /\ closer.pc \in {"stop", "idle"} =>
           closer.run # NoRun /\ tools.active /\ tools.cancelled
    /\ closer.pc = "idle" => idle
    /\ \A s \in Sessions : session[s].state = "closed" => session[s].run = NoRun

Inv ==
    /\ ToolsTyped
    /\ OneWakeup
    /\ WorkerInv
    /\ QuietInv
    /\ AppInv
    /\ DispatchInv
    /\ CommandKeepsItsRun
    /\ SequencesAgree
    /\ ResultsAreEvidence
    /\ CapturedInv
    /\ OwnerInv
    /\ HandlerInv
    /\ CloserInv

------------------------------------------------------------------------------
(* The worker *)

\* A worker that takes the semaphore keeps the invariant.
LEMMA AcquireHolds ==
    ASSUME Inv, worker_acquire
    PROVE  Inv'
<1>1. /\ worker = "waiting" /\ work_available > 0
      /\ work_available' = work_available - 1 /\ worker' = "woken"
      /\ UNCHANGED <<tools, app, idle, evidence, session, rpc, closer, sample,
                     results>>
  BY DEF worker_acquire, Inv, ToolsTyped
<1>2. ToolsTyped'
  BY <1>1 DEF Inv, ToolsTyped, WorkerSteps
<1>3. /\ QuietInv' /\ AppInv' /\ DispatchInv' /\ CommandKeepsItsRun'
      /\ ResultsAreEvidence' /\ OwnerInv' /\ HandlerInv' /\ CloserInv'
  BY <1>1 DEF Inv, QuietInv, ToolsEndpoint, AppInv, DispatchInv, CommandKeepsItsRun,
         ResultsAreEvidence, OwnerInv, MayStop, HandlerInv, CloserInv
<1>4. OneWakeup'
  BY <1>1 DEF Inv, ToolsTyped, OneWakeup
<1>5. WorkerInv'
  BY <1>1 DEF Inv, ToolsTyped, WorkerInv, Executing, OneWakeup
<1>6. SequencesAgree'
  BY <1>1 DEF Inv, ToolsTyped, SequencesAgree, poison_app_accept_event
<1>7. CapturedInv'
  BY <1>1 DEF Inv, ToolsTyped, CapturedInv, EvidenceId
<1>8. QED
  BY <1>2, <1>3, <1>4, <1>5, <1>6, <1>7 DEF Inv

\* The command is taken: it was queued for the run that is active, so it is
\* passed over only when that run was cancelled.
LEMMA TakeHolds ==
    ASSUME Inv, worker_take
    PROVE  Inv'
<1>1. /\ worker = "woken" /\ tools' \in ToolsSet /\ tools'.active = tools.active
      /\ tools'.cancelled = tools.cancelled /\ tools'.run_id = tools.run_id
      /\ tools'.command_run = tools.command_run /\ tools'.work_pending = FALSE
      /\ tools'.worker_busy = (tools.work_pending /\ tools.active /\ ~tools.cancelled)
      /\ tools'.event_sequence = tools.event_sequence
      /\ worker' = IF tools'.worker_busy THEN "executing" ELSE "done"
      /\ UNCHANGED <<app, work_available, idle, evidence, session, rpc, closer,
                     sample, results>>
  BY DEF worker_take, Inv, ToolsTyped, ToolsSet
<1>2. ToolsTyped'
  BY <1>1 DEF Inv, ToolsTyped, WorkerSteps, Executing
<1>3. ResultsAreEvidence'
  BY <1>1 DEF Inv, ResultsAreEvidence
<1>4. OneWakeup'
  BY <1>1 DEF Inv, ToolsTyped, OneWakeup
<1>5. WorkerInv'
  <2>1. tools.work_pending
    BY <1>1 DEF Inv, ToolsTyped, OneWakeup
  <2>2. tools.active
    BY <2>1 DEF Inv, CommandKeepsItsRun
  <2>3. ~idle
    BY <1>1 DEF Inv, WorkerInv
  <2>4. tools'.worker_busy \/ tools.cancelled
    BY <1>1, <2>1, <2>2
  <2>5. QED
    BY <1>1, <2>2, <2>3, <2>4 DEF Inv, ToolsTyped, ToolsSet, WorkerInv, Executing
<1>6. QuietInv'
  BY <1>1 DEF Inv, ToolsTyped, QuietInv, ToolsEndpoint
<1>7. AppInv'
  BY <1>1 DEF Inv, ToolsTyped, AppInv, ToolsEndpoint
<1>8. DispatchInv'
  BY <1>1 DEF Inv, ToolsTyped, DispatchInv
<1>9. CommandKeepsItsRun'
  BY <1>1 DEF Inv, ToolsTyped, CommandKeepsItsRun
<1>10. SequencesAgree'
  BY <1>1 DEF Inv, ToolsTyped, SequencesAgree, poison_app_accept_event
<1>11. CapturedInv'
  BY <1>1 DEF Inv, ToolsTyped, CapturedInv, EvidenceId
<1>12. OwnerInv'
  BY <1>1 DEF Inv, ToolsTyped, OwnerInv, MayStop
<1>13. HandlerInv'
  BY <1>1 DEF Inv, ToolsTyped, HandlerInv, MayStop
<1>14. CloserInv'
  BY <1>1 DEF Inv, ToolsTyped, CloserInv
<1>15. QED
  BY <1>2, <1>3, <1>4, <1>5, <1>6, <1>7, <1>8, <1>9, <1>10,
     <1>11, <1>12, <1>13, <1>14 DEF Inv

\* A command that ends without a result keeps the invariant.
LEMMA NoResultHolds ==
    ASSUME Inv, worker_no_result
    PROVE  Inv'
<1>1. /\ worker = "executing" /\ worker' = "done"
      /\ UNCHANGED <<tools, app, work_available, idle, evidence, session, rpc,
                     closer, sample, results>>
  BY DEF worker_no_result, Inv, ToolsTyped
<1>2. ToolsTyped'
  BY <1>1 DEF Inv, ToolsTyped, WorkerSteps
<1>3. /\ QuietInv' /\ AppInv' /\ DispatchInv' /\ CommandKeepsItsRun'
      /\ ResultsAreEvidence' /\ OwnerInv' /\ HandlerInv' /\ CloserInv'
  BY <1>1 DEF Inv, QuietInv, ToolsEndpoint, AppInv, DispatchInv, CommandKeepsItsRun,
         ResultsAreEvidence, OwnerInv, MayStop, HandlerInv, CloserInv
<1>4. OneWakeup'
  BY <1>1 DEF Inv, ToolsTyped, OneWakeup
<1>5. WorkerInv'
  BY <1>1 DEF Inv, ToolsTyped, WorkerInv, Executing
<1>6. SequencesAgree'
  BY <1>1 DEF Inv, ToolsTyped, SequencesAgree, poison_app_accept_event
<1>7. CapturedInv'
  BY <1>1 DEF Inv, ToolsTyped, CapturedInv, EvidenceId
<1>8. QED
  BY <1>2, <1>3, <1>4, <1>5, <1>6, <1>7 DEF Inv

\* The capture of a result as evidence keeps the invariant.
LEMMA CaptureHolds ==
    ASSUME Inv, worker_capture
    PROVE  Inv'
<1>1. /\ worker = "executing" /\ tools.active /\ EvidenceId \notin evidence
      /\ EvidenceId \in EvidenceIds /\ evidence' = evidence \cup {EvidenceId}
      /\ worker' = "captured"
      /\ UNCHANGED <<tools, app, work_available, idle, session, rpc, closer,
                     sample, results>>
  BY DEF worker_capture, Inv, ToolsTyped, poison_evidence_capture_global,
         EvidenceId, 
         EvidenceIds, ToolsSet
<1>2. ToolsTyped'
  BY <1>1 DEF Inv, ToolsTyped, WorkerSteps, Executing
<1>3. /\ QuietInv' /\ AppInv' /\ DispatchInv' /\ CommandKeepsItsRun' /\ OwnerInv'
      /\ HandlerInv' /\ CloserInv'
  BY <1>1 DEF Inv, QuietInv, ToolsEndpoint, AppInv, DispatchInv,
              CommandKeepsItsRun, OwnerInv, 
         MayStop, HandlerInv, CloserInv
<1>4. OneWakeup'
  BY <1>1 DEF Inv, ToolsTyped, OneWakeup
<1>5. WorkerInv'
  BY <1>1 DEF Inv, ToolsTyped, WorkerInv, Executing
<1>6. SequencesAgree'
  BY <1>1 DEF Inv, ToolsTyped, SequencesAgree, poison_app_accept_event
<1>7. ResultsAreEvidence'
  BY <1>1 DEF Inv, ToolsTyped, ResultsAreEvidence
<1>8. CapturedInv'
  BY <1>1 DEF Inv, ToolsTyped, CapturedInv, EvidenceId, ResultsAreEvidence
<1>9. QED
  BY <1>2, <1>3, <1>4, <1>5, <1>6, <1>7, <1>8 DEF Inv

\* An event that the endpoint accepts has the number it expects next.
LEMMA PublishHolds ==
    ASSUME Inv, worker_publish
    PROVE  Inv'
<1>1. /\ worker = "captured" /\ app' \in AppSet /\ app'.run.active = app.run.active
      /\ app'.run.cancelled = app.run.cancelled /\ app'.run.app_id = app.run.app_id
      /\ app'.run.run_id = app.run.run_id /\ EvidenceId \in EvidenceIds
      /\ \/ /\ worker' = "published" /\ results' = Append(results, EvidenceId)
            /\ app.run.next_sequence = tools.event_sequence
            /\ app'.run.next_sequence = app.run.next_sequence + 1
         \/ worker' = "done" /\ app' = app /\ results' = results
      /\ UNCHANGED <<tools, work_available, idle, evidence, session, rpc,
                     closer, sample>>
  <2>1. EvidenceId \in EvidenceIds /\ app \in AppSet /\ app.run \in AppRunSet
    BY DEF Inv, ToolsTyped, ToolsSet, AppSet, EvidenceId, EvidenceIds
  <2>2. CASE poison_app_accept_event(ToolsApp, tools.run_id, tools.event_sequence)
    <3>1. app' = [app EXCEPT !.run = [app.run EXCEPT !.next_sequence = @ + 1]]
      BY <2>1, <2>2 DEF worker_publish, AppSet
    <3>2. [app.run EXCEPT !.next_sequence = @ + 1] \in AppRunSet
      BY <2>1 DEF AppRunSet
    <3>3. /\ app' \in AppSet /\ app'.run = [app.run EXCEPT !.next_sequence = @ + 1]
      BY <2>1, <3>1, <3>2 DEF AppSet
    <3>4. QED
      BY <2>1, <2>2, <3>3 DEF worker_publish, poison_app_accept_event, AppRunSet
  <2>3. QED
    BY <2>1, <2>2 DEF worker_publish
<1>2. ToolsTyped'
  BY <1>1 DEF Inv, ToolsTyped, WorkerSteps, Executing
<1>3. /\ DispatchInv' /\ CommandKeepsItsRun' /\ OwnerInv' /\ HandlerInv' /\ CloserInv'
  BY <1>1 DEF Inv, DispatchInv, CommandKeepsItsRun, OwnerInv, MayStop, HandlerInv,
         CloserInv
<1>4. OneWakeup'
  BY <1>1 DEF Inv, ToolsTyped, OneWakeup
<1>5. WorkerInv'
  BY <1>1 DEF Inv, ToolsTyped, WorkerInv, Executing
<1>6. QuietInv'
  BY <1>1 DEF Inv, ToolsTyped, QuietInv, ToolsEndpoint
<1>7. AppInv'
  BY <1>1 DEF Inv, ToolsTyped, AppInv, ToolsEndpoint
<1>8. SequencesAgree'
  BY <1>1 DEF Inv, ToolsTyped, SequencesAgree, poison_app_accept_event
<1>9. ResultsAreEvidence'
  <2>1. CASE results' = results
    BY <1>1, <2>1 DEF Inv, ResultsAreEvidence
  <2>2. CASE results' = Append(results, EvidenceId)
    <3>1. /\ Len(results') = Len(results) + 1 /\ Len(results) \in Nat
          /\ \A k \in 1 .. Len(results) : results'[k] = results[k]
          /\ results'[Len(results) + 1] = EvidenceId
      BY <1>1, <2>2 DEF Inv, ToolsTyped
    <3>2. /\ EvidenceId \in evidence
          /\ \A k \in 1 .. Len(results) : results[k] # EvidenceId
      BY <1>1 DEF Inv, CapturedInv
    <3>3. QED
      BY <1>1, <3>1, <3>2 DEF Inv, ResultsAreEvidence
  <2>3. QED
    BY <1>1, <2>1, <2>2
<1>10. CapturedInv'
  BY <1>1 DEF Inv, ToolsTyped, CapturedInv, EvidenceId
<1>11. QED
  BY <1>2, <1>3, <1>4, <1>5, <1>6, <1>7, <1>8, <1>9, <1>10 DEF Inv

\* The count of the event that reports it keeps the invariant.
LEMMA CountHolds ==
    ASSUME Inv, worker_count
    PROVE  Inv'
<1>1. /\ worker = "published" /\ tools' \in ToolsSet /\ tools'.active = tools.active
      /\ tools'.cancelled = tools.cancelled /\ tools'.run_id = tools.run_id
      /\ tools'.command_run = tools.command_run
      /\ tools'.work_pending = tools.work_pending
      /\ tools'.worker_busy = tools.worker_busy
      /\ tools'.event_sequence = tools.event_sequence + 1 /\ worker' = "counted"
      /\ UNCHANGED <<app, work_available, idle, evidence, session, rpc, closer,
                     sample, results>>
  BY DEF worker_count, Inv, ToolsTyped, ToolsSet
<1>2. ToolsTyped'
  BY <1>1 DEF Inv, ToolsTyped, WorkerSteps, Executing
<1>3. ResultsAreEvidence'
  BY <1>1 DEF Inv, ResultsAreEvidence
<1>4. OneWakeup'
  BY <1>1 DEF Inv, ToolsTyped, OneWakeup
<1>5. WorkerInv'
  BY <1>1 DEF Inv, ToolsTyped, WorkerInv, Executing
<1>6. QuietInv'
  BY <1>1 DEF Inv, ToolsTyped, QuietInv, ToolsEndpoint
<1>7. AppInv'
  BY <1>1 DEF Inv, ToolsTyped, AppInv, ToolsEndpoint
<1>8. DispatchInv'
  BY <1>1 DEF Inv, ToolsTyped, DispatchInv
<1>9. CommandKeepsItsRun'
  BY <1>1 DEF Inv, ToolsTyped, CommandKeepsItsRun
<1>10. SequencesAgree'
  BY <1>1 DEF Inv, ToolsTyped, SequencesAgree, poison_app_accept_event, ToolsSet,
              AppSet, AppRunSet
<1>11. CapturedInv'
  BY <1>1 DEF Inv, ToolsTyped, CapturedInv, EvidenceId
<1>12. OwnerInv'
  BY <1>1 DEF Inv, ToolsTyped, OwnerInv, MayStop
<1>13. HandlerInv'
  BY <1>1 DEF Inv, ToolsTyped, HandlerInv, MayStop
<1>14. CloserInv'
  BY <1>1 DEF Inv, ToolsTyped, CloserInv
<1>15. QED
  BY <1>2, <1>3, <1>4, <1>5, <1>6, <1>7, <1>8, <1>9, <1>10,
     <1>11, <1>12, <1>13, <1>14 DEF Inv

\* The capture of what is derived from a result keeps the invariant.
LEMMA DeriveHolds ==
    ASSUME Inv, worker_derive
    PROVE  Inv'
<1>1. /\ worker = "counted" /\ evidence \subseteq evidence'
      /\ evidence' \subseteq EvidenceIds /\ worker' = "done"
      /\ UNCHANGED <<tools, app, work_available, idle, session, rpc, closer,
                     sample, results>>
  BY DEF worker_derive, Inv, ToolsTyped, poison_evidence_capture_global, EvidenceId,
         EvidenceIds, ToolsSet
<1>2. ToolsTyped'
  BY <1>1 DEF Inv, ToolsTyped, WorkerSteps, Executing
<1>3. /\ QuietInv' /\ AppInv' /\ DispatchInv' /\ CommandKeepsItsRun' /\ OwnerInv'
      /\ HandlerInv' /\ CloserInv'
  BY <1>1 DEF Inv, QuietInv, ToolsEndpoint, AppInv, DispatchInv,
              CommandKeepsItsRun, OwnerInv, 
         MayStop, HandlerInv, CloserInv
<1>4. OneWakeup'
  BY <1>1 DEF Inv, ToolsTyped, OneWakeup
<1>5. WorkerInv'
  BY <1>1 DEF Inv, ToolsTyped, WorkerInv, Executing
<1>6. SequencesAgree'
  BY <1>1 DEF Inv, ToolsTyped, SequencesAgree, poison_app_accept_event
<1>7. ResultsAreEvidence'
  BY <1>1 DEF Inv, ToolsTyped, ResultsAreEvidence
<1>8. CapturedInv'
  BY <1>1 DEF Inv, ToolsTyped, CapturedInv, EvidenceId
<1>9. QED
  BY <1>2, <1>3, <1>4, <1>5, <1>6, <1>7, <1>8 DEF Inv

\* The end of a command keeps the invariant.
LEMMA DoneHolds ==
    ASSUME Inv, worker_done
    PROVE  Inv'
<1>1. /\ worker = "done" /\ tools' \in ToolsSet /\ tools'.active = tools.active
      /\ tools'.cancelled = tools.cancelled /\ tools'.run_id = tools.run_id
      /\ tools'.command_run = tools.command_run
      /\ tools'.work_pending = tools.work_pending /\ tools'.worker_busy = FALSE
      /\ tools'.event_sequence = tools.event_sequence /\ idle' = TRUE
      /\ worker' = "waiting"
      /\ UNCHANGED <<app, work_available, evidence, session, rpc, closer,
                     sample, results>>
  BY DEF worker_done, Inv, ToolsTyped, ToolsSet
<1>2. ToolsTyped'
  BY <1>1 DEF Inv, ToolsTyped, WorkerSteps
<1>3. ResultsAreEvidence'
  BY <1>1 DEF Inv, ResultsAreEvidence
<1>4. OneWakeup'
  BY <1>1 DEF Inv, ToolsTyped, OneWakeup
<1>5. WorkerInv'
  BY <1>1 DEF Inv, ToolsTyped, WorkerInv, Executing
<1>6. QuietInv'
  BY <1>1 DEF Inv, ToolsTyped, QuietInv, ToolsEndpoint
<1>7. AppInv'
  BY <1>1 DEF Inv, ToolsTyped, AppInv, ToolsEndpoint
<1>8. DispatchInv'
  BY <1>1 DEF Inv, ToolsTyped, DispatchInv
<1>9. CommandKeepsItsRun'
  BY <1>1 DEF Inv, ToolsTyped, CommandKeepsItsRun
<1>10. SequencesAgree'
  BY <1>1 DEF Inv, ToolsTyped, SequencesAgree, poison_app_accept_event
<1>11. CapturedInv'
  BY <1>1 DEF Inv, ToolsTyped, CapturedInv, EvidenceId
<1>12. OwnerInv'
  BY <1>1 DEF Inv, ToolsTyped, OwnerInv, MayStop
<1>13. HandlerInv'
  BY <1>1 DEF Inv, ToolsTyped, HandlerInv, MayStop
<1>14. CloserInv'
  BY <1>1 DEF Inv, ToolsTyped, CloserInv
<1>15. QED
  BY <1>2, <1>3, <1>4, <1>5, <1>6, <1>7, <1>8, <1>9, <1>10,
     <1>11, <1>12, <1>13, <1>14 DEF Inv

------------------------------------------------------------------------------
(* The handlers *)

\* An app that unregisters has no endpoint then, and leaves another's alone.
LEMMA UnregisterFields ==
    ASSUME ToolsTyped, NEW a \in {ToolsApp, SampleApp},
           poison_app_endpoint_unregister(a)
    PROVE  /\ app' \in AppSet
           /\ app.run.app_id # a => app' = app
           /\ app.run.app_id = a => ~app'.run.active
           /\ ~(app'.run.active /\ app'.run.app_id = a)
<1>1. NoAppRun \in AppRunSet /\ ~NoAppRun.active
  BY DEF NoAppRun, AppRunSet, AppIds, RunIds
<1>2. CASE app.run.app_id = a
  BY <1>1, <1>2 DEF poison_app_endpoint_unregister, ToolsTyped, AppSet
<1>3. CASE app.run.app_id # a
  BY <1>3 DEF poison_app_endpoint_unregister, ToolsTyped
<1>4. QED
  BY <1>2, <1>3

\* A registered run is active, the app's own, and expects its first event.
LEMMA RegisterFields ==
    ASSUME ToolsTyped, NEW a \in {ToolsApp, SampleApp}, NEW r \in Runs,
           poison_app_endpoint_register(a, r)
    PROVE  /\ ~app.run.active /\ app' \in AppSet /\ app'.run.active
           /\ ~app'.run.cancelled /\ app'.run.app_id = a /\ app'.run.run_id = r
           /\ app'.run.next_sequence = 0
<1>1. poison_app_run_start(a, r) \in AppRunSet
  BY DEF poison_app_run_start, AppRunSet, AppIds, RunIds
<1>2. app' \in AppSet /\ app'.run = poison_app_run_start(a, r) /\ ~app.run.active
  BY <1>1 DEF poison_app_endpoint_register, ToolsTyped, AppSet
<1>3. QED
  BY <1>2 DEF poison_app_run_start

\* What poison_tools_run_stop leaves behind: perhaps the sample's endpoint.
LEMMA StoppedFields ==
    ASSUME ToolsTyped, RunStopped
    PROVE  /\ tools' \in ToolsSet /\ app' \in AppSet /\ ~ToolsEndpoint'
           /\ ~tools'.active /\ tools'.work_pending = tools.work_pending
           /\ tools'.worker_busy = tools.worker_busy
<1>1. /\ tools' \in ToolsSet /\ ~tools'.active
      /\ tools'.work_pending = tools.work_pending
      /\ tools'.worker_busy = tools.worker_busy
  BY DEF RunStopped, ToolsTyped, ToolsSet, RunIds
<1>2. app' \in AppSet /\ ~ToolsEndpoint'
  BY UnregisterFields DEF RunStopped, ToolsEndpoint
<1>3. QED
  BY <1>1, <1>2

\* The stop handler's wait for the idle worker keeps the invariant.
LEMMA StopWaitHolds ==
    ASSUME Inv, rpc_stop_wait
    PROVE  Inv'
<1>1. /\ rpc.pc = "stop" /\ rpc' \in RpcSet
      /\ \/ idle /\ rpc'.pc = "idle" /\ rpc'.session = rpc.session /\ rpc'.run = rpc.run
         \/ rpc'.pc = "free"
      /\ UNCHANGED <<tools, app, work_available, idle, worker, evidence,
                     session, closer, sample, results>>
  BY DEF rpc_stop_wait, Inv, ToolsTyped, RpcSet, Idle, SessionIds, RunIds
<1>2. ToolsTyped'
  BY <1>1 DEF Inv, ToolsTyped
<1>3. /\ WorkerInv' /\ QuietInv' /\ AppInv' /\ CommandKeepsItsRun' /\ SequencesAgree'
      /\ ResultsAreEvidence' /\ CapturedInv' /\ OwnerInv' /\ CloserInv'
  BY <1>1 DEF Inv, WorkerInv, QuietInv, ToolsEndpoint, AppInv, CommandKeepsItsRun,
              SequencesAgree, poison_app_accept_event, 
         ResultsAreEvidence, CapturedInv, EvidenceId, OwnerInv, MayStop, CloserInv
<1>4. OneWakeup'
  BY <1>1 DEF Inv, ToolsTyped, OneWakeup
<1>5. DispatchInv'
  BY <1>1 DEF Inv, ToolsTyped, DispatchInv
<1>6. HandlerInv'
  BY <1>1 DEF Inv, ToolsTyped, HandlerInv, MayStop
<1>7. QED
  BY <1>2, <1>3, <1>4, <1>5, <1>6 DEF Inv

\* A command is queued for a run that is active and not cancelled, which is
\* the one it was sent to, while the worker waits.
LEMMA CommandHolds ==
    ASSUME Inv, poison_tools_command
    PROVE  Inv'
<1>1. /\ rpc.pc = "dispatch" /\ rpc' \in RpcSet /\ tools' \in ToolsSet
      /\ tools'.active = tools.active /\ tools'.run_id = tools.run_id
      /\ tools'.worker_busy = tools.worker_busy
      /\ tools'.event_sequence = tools.event_sequence
      /\ (tools.cancelled => tools'.cancelled)
      /\ \/ /\ tools'.work_pending = tools.work_pending /\ tools'.command_run = tools.command_run
            /\ idle' = idle /\ rpc'.pc \in {"cancel", "free"}
            /\ rpc'.pc = "cancel" => rpc'.session = rpc.session /\ tools'.cancelled
         \/ /\ tools.active /\ ~tools.cancelled /\ ~tools.work_pending /\ ~tools.worker_busy
            /\ tools'.cancelled = tools.cancelled
            /\ tools'.work_pending = TRUE /\ tools'.command_run = rpc.run
            /\ idle' = FALSE /\ rpc'.pc = "signal" /\ rpc'.session = rpc.session
      /\ UNCHANGED <<app, work_available, worker, evidence, session, closer,
                     sample, results>>
  BY ZenonT(30) DEF poison_tools_command, Inv, ToolsTyped, Queueable, ToolsSet,
                    RpcSet, Idle, SessionIds, RunIds
<1>2. ToolsTyped'
  BY <1>1 DEF Inv, ToolsTyped
<1>3. ResultsAreEvidence'
  BY <1>1 DEF Inv, ResultsAreEvidence
<1>4. OneWakeup'
  BY <1>1 DEF Inv, ToolsTyped, OneWakeup
<1>5. WorkerInv'
  BY <1>1 DEF Inv, ToolsTyped, WorkerInv, Executing
<1>6. QuietInv'
  BY <1>1 DEF Inv, ToolsTyped, QuietInv, ToolsEndpoint
<1>7. AppInv'
  BY <1>1 DEF Inv, ToolsTyped, AppInv, ToolsEndpoint
<1>8. DispatchInv'
  BY <1>1 DEF Inv, ToolsTyped, DispatchInv
<1>9. CommandKeepsItsRun'
  BY <1>1 DEF Inv, ToolsTyped, CommandKeepsItsRun, DispatchInv
<1>10. SequencesAgree'
  BY <1>1 DEF Inv, ToolsTyped, SequencesAgree, poison_app_accept_event
<1>11. CapturedInv'
  BY <1>1 DEF Inv, ToolsTyped, CapturedInv, EvidenceId
<1>12. OwnerInv'
  BY <1>1 DEF Inv, ToolsTyped, OwnerInv, MayStop
<1>13. HandlerInv'
  BY <1>1 DEF Inv, ToolsTyped, HandlerInv, MayStop
<1>14. CloserInv'
  BY <1>1 DEF Inv, ToolsTyped, CloserInv
<1>15. QED
  BY <1>2, <1>3, <1>4, <1>5, <1>6, <1>7, <1>8, <1>9, <1>10,
     <1>11, <1>12, <1>13, <1>14 DEF Inv

\* poison_tools_command_signal, which releases the semaphore, keeps the invariant.
LEMMA SignalHolds ==
    ASSUME Inv, poison_tools_command_signal
    PROVE  Inv'
<1>1. /\ rpc.pc = "signal" /\ work_available' = work_available + 1 /\ rpc' \in RpcSet
      /\ rpc'.pc = "free"
      /\ UNCHANGED <<tools, app, idle, worker, evidence, session, closer,
                     sample, results>>
  BY DEF poison_tools_command_signal, Inv, ToolsTyped, RpcSet, Idle, SessionIds,
         RunIds
<1>2. ToolsTyped'
  BY <1>1 DEF Inv, ToolsTyped
<1>3. /\ WorkerInv' /\ QuietInv' /\ AppInv' /\ CommandKeepsItsRun' /\ SequencesAgree'
      /\ ResultsAreEvidence' /\ CapturedInv' /\ OwnerInv' /\ CloserInv'
  BY <1>1 DEF Inv, WorkerInv, QuietInv, ToolsEndpoint, AppInv, CommandKeepsItsRun,
              SequencesAgree, poison_app_accept_event, 
         ResultsAreEvidence, CapturedInv, EvidenceId, OwnerInv, MayStop, CloserInv
<1>4. OneWakeup'
  BY <1>1 DEF Inv, ToolsTyped, OneWakeup
<1>5. DispatchInv'
  BY <1>1 DEF Inv, ToolsTyped, DispatchInv
<1>6. HandlerInv'
  BY <1>1 DEF Inv, ToolsTyped, HandlerInv, MayStop
<1>7. QED
  BY <1>2, <1>3, <1>4, <1>5, <1>6 DEF Inv

\* A command for the sample publishes nothing, or an event in the sample's run.
LEMMA SampleCommandHolds ==
    ASSUME Inv, poison_safe_sample_structured_command
    PROVE  Inv'
<1>1. /\ rpc.pc = "sample" /\ rpc' \in RpcSet /\ rpc'.pc \in {"cancel", "free"}
      /\ rpc'.pc = "cancel" => rpc'.session = rpc.session
      /\ UNCHANGED <<tools, work_available, idle, worker, evidence, session, closer,
                     sample, results>>
  BY DEF poison_safe_sample_structured_command, Inv, ToolsTyped, RpcSet, Idle,
         SessionIds, RunIds
<1>2. app' \in AppSet /\ (app' = app \/ ~ToolsEndpoint')
  <2>1. CASE app' = app
    BY <2>1 DEF Inv, ToolsTyped
  <2>2. CASE /\ poison_app_accept_event(SampleApp, Onboarding, app.run.next_sequence)
             /\ app' = [app EXCEPT !.run.next_sequence = @ + 1]
    <3>1. app \in AppSet /\ app.run \in AppRunSet
      BY DEF Inv, ToolsTyped, AppSet
    <3>2. /\ [app.run EXCEPT !.next_sequence = @ + 1] \in AppRunSet
          /\ app' = [app EXCEPT !.run = [app.run EXCEPT !.next_sequence = @ + 1]]
      BY <2>2, <3>1 DEF AppRunSet, AppSet
    <3>3. app' \in AppSet /\ app'.run.app_id = SampleApp
      BY <2>2, <3>1, <3>2 DEF AppSet, AppRunSet, poison_app_accept_event
    <3>4. QED
      BY <3>3 DEF ToolsEndpoint, ToolsApp, SampleApp
  <2>3. QED
    BY <2>1, <2>2 DEF poison_safe_sample_structured_command
<1>3. ToolsTyped'
  BY <1>1, <1>2 DEF Inv, ToolsTyped
<1>4. /\ WorkerInv' /\ CommandKeepsItsRun' /\ ResultsAreEvidence' /\ CapturedInv'
      /\ OwnerInv' /\ CloserInv'
  BY <1>1 DEF Inv, WorkerInv, CommandKeepsItsRun, ResultsAreEvidence, CapturedInv,
         EvidenceId, OwnerInv, MayStop, CloserInv
<1>5. OneWakeup'
  BY <1>1 DEF Inv, ToolsTyped, OneWakeup
<1>6. QuietInv' /\ AppInv'
  BY <1>1, <1>2 DEF Inv, QuietInv, AppInv, ToolsEndpoint
<1>7. DispatchInv'
  BY <1>1 DEF Inv, ToolsTyped, DispatchInv
<1>8. SequencesAgree'
  BY <1>1, <1>2 DEF Inv, SequencesAgree, poison_app_accept_event, DispatchInv
<1>9. HandlerInv'
  BY <1>1 DEF Inv, ToolsTyped, HandlerInv, MayStop
<1>10. QED
  BY <1>3, <1>4, <1>5, <1>6, <1>7, <1>8, <1>9 DEF Inv

\* poison_app_dispatch_cancel keeps the invariant.
LEMMA DispatchCancelHolds ==
    ASSUME Inv, poison_app_dispatch_cancel
    PROVE  Inv'
<1>1. /\ rpc.pc = "cancel" /\ app' \in AppSet /\ (app'.run.active => app' = app)
      /\ rpc' \in RpcSet /\ rpc'.pc = "free"
      /\ UNCHANGED <<tools, work_available, idle, worker, evidence, session,
                     closer, sample, results>>
  BY DEF poison_app_dispatch_cancel, Inv, ToolsTyped, AppCancelled, AppSet,
         AppRunSet, RpcSet, Idle, SessionIds, RunIds
<1>2. ToolsTyped'
  BY <1>1 DEF Inv, ToolsTyped
<1>3. /\ WorkerInv' /\ CommandKeepsItsRun' /\ ResultsAreEvidence' /\ CapturedInv'
      /\ OwnerInv' /\ CloserInv'
  BY <1>1 DEF Inv, WorkerInv, CommandKeepsItsRun, ResultsAreEvidence, CapturedInv,
         EvidenceId, OwnerInv, MayStop, CloserInv
<1>4. OneWakeup'
  BY <1>1 DEF Inv, ToolsTyped, OneWakeup
<1>5. QuietInv'
  BY <1>1 DEF Inv, ToolsTyped, QuietInv, ToolsEndpoint
<1>6. AppInv'
  BY <1>1 DEF Inv, ToolsTyped, AppInv, ToolsEndpoint
<1>7. DispatchInv'
  BY <1>1 DEF Inv, ToolsTyped, DispatchInv
<1>8. SequencesAgree'
  BY <1>1 DEF Inv, ToolsTyped, SequencesAgree, DispatchInv
<1>9. HandlerInv'
  BY <1>1 DEF Inv, ToolsTyped, HandlerInv, MayStop
<1>10. QED
  BY <1>2, <1>3, <1>4, <1>5, <1>6, <1>7, <1>8, <1>9 DEF Inv

\* The flag the handler saw is still set, so the worker waits and nothing is
\* queued when the run goes; nobody else had a claim to it.
LEMMA StopFinishHolds ==
    ASSUME Inv, rpc_stop_finish
    PROVE  Inv'
<1>1. /\ rpc.pc = "idle" /\ idle /\ worker = "waiting" /\ rpc.session \in Sessions
      /\ rpc' \in RpcSet /\ rpc'.pc = "free"
      /\ \/ UNCHANGED <<tools, app, session>>
         \/ /\ tools' \in ToolsSet /\ app' \in AppSet /\ ~ToolsEndpoint'
            /\ ~tools'.active /\ ~tools'.work_pending /\ ~tools'.worker_busy
            /\ session' \in [Sessions -> SessionSet]
            /\ session'[rpc.session].run = NoRun
            /\ session'[rpc.session].state = session[rpc.session].state
            /\ \A s \in Sessions \ {rpc.session} : session'[s] = session[s]
      /\ UNCHANGED <<work_available, idle, worker, evidence, closer, sample,
                     results>>
  <2>1. /\ rpc.pc = "idle" /\ idle /\ worker = "waiting" /\ rpc.session \in Sessions
    BY DEF rpc_stop_finish, Inv, HandlerInv, WorkerInv
  <2>2. /\ rpc' \in RpcSet /\ rpc'.pc = "free"
        /\ UNCHANGED <<work_available, idle, worker, evidence, closer, sample,
                       results>>
    BY DEF rpc_stop_finish, Inv, ToolsTyped, RpcSet, Idle, SessionIds, RunIds
  <2>3. CASE Stoppable(rpc.run)
    <3>1. RunStopped /\ session' = Forget(rpc.session)
      BY <2>3 DEF rpc_stop_finish
    <3>2. /\ tools' \in ToolsSet /\ app' \in AppSet /\ ~ToolsEndpoint'
          /\ ~tools'.active /\ ~tools'.work_pending /\ ~tools'.worker_busy
      BY <2>3, <3>1, StoppedFields DEF Inv, Stoppable
    <3>3. /\ session' \in [Sessions -> SessionSet]
          /\ session'[rpc.session].run = NoRun
          /\ session'[rpc.session].state = session[rpc.session].state
          /\ \A s \in Sessions \ {rpc.session} : session'[s] = session[s]
      BY <2>1, <3>1 DEF Forget, Inv, ToolsTyped, SessionSet, RunIds
    <3>4. QED
      BY <2>1, <2>2, <3>2, <3>3
  <2>4. CASE ~Stoppable(rpc.run)
    BY <2>1, <2>2, <2>4 DEF rpc_stop_finish
  <2>5. QED
    BY <2>3, <2>4
<1>2. ToolsTyped'
  BY <1>1 DEF Inv, ToolsTyped
<1>3. ResultsAreEvidence'
  BY <1>1 DEF Inv, ResultsAreEvidence
<1>4. OneWakeup'
  BY <1>1 DEF Inv, ToolsTyped, OneWakeup, WorkerInv
<1>5. WorkerInv'
  BY <1>1 DEF Inv, ToolsTyped, WorkerInv, Executing
<1>6. QuietInv'
  BY <1>1 DEF Inv, ToolsTyped, QuietInv, ToolsEndpoint
<1>7. AppInv'
  BY <1>1 DEF Inv, ToolsTyped, AppInv, ToolsEndpoint
<1>8. DispatchInv'
  BY <1>1 DEF Inv, ToolsTyped, DispatchInv
<1>9. CommandKeepsItsRun'
  BY <1>1 DEF Inv, ToolsTyped, CommandKeepsItsRun
<1>10. SequencesAgree'
  BY <1>1 DEF Inv, ToolsTyped, SequencesAgree, poison_app_accept_event
<1>11. CapturedInv'
  BY <1>1 DEF Inv, ToolsTyped, CapturedInv, EvidenceId
<1>12. OwnerInv'
  BY <1>1 DEF Inv, ToolsTyped, OwnerInv, MayStop, HandlerInv
<1>13. HandlerInv'
  BY <1>1 DEF Inv, ToolsTyped, HandlerInv, MayStop
<1>14. CloserInv'
  <2>1. CASE UNCHANGED <<tools, app, session>>
    BY <1>1, <2>1 DEF Inv, CloserInv
  <2>2. CASE ~UNCHANGED <<tools, app, session>>
    <3>1. closer.pc # "free" => closer.session \in Sessions \ {rpc.session}
      BY <1>1 DEF Inv, CloserInv, HandlerInv
    <3>2. closer.pc \notin {"stop", "idle"}
      BY <1>1, <3>1 DEF Inv, CloserInv, HandlerInv, MayStop
    <3>3. QED
      BY <1>1, <2>2, <3>1, <3>2 DEF Inv, CloserInv
  <2>3. QED
    BY <2>1, <2>2
<1>15. QED
  BY <1>2, <1>3, <1>4, <1>5, <1>6, <1>7, <1>8, <1>9, <1>10,
     <1>11, <1>12, <1>13, <1>14 DEF Inv

------------------------------------------------------------------------------
(* The timer thread *)

\* The end of the session that owns the run keeps the invariant.
LEMMA ToolsFreeHolds ==
    ASSUME Inv, rpc_system_poison_tools_free
    PROVE  Inv'
<1>1. /\ closer.pc = "app_freed" /\ closer' \in CloserSet
      /\ closer'.session = closer.session /\ closer'.run = closer.run
      /\ tools' \in ToolsSet /\ tools'.active = tools.active
      /\ tools'.run_id = tools.run_id /\ tools'.command_run = tools.command_run
      /\ tools'.work_pending = tools.work_pending
      /\ tools'.worker_busy = tools.worker_busy
      /\ tools'.event_sequence = tools.event_sequence
      /\ \/ /\ closer.run # NoRun /\ tools.active /\ tools'.cancelled /\ closer'.pc = "stop"
         \/ tools' = tools /\ closer'.pc = "freeing"
      /\ UNCHANGED <<app, work_available, idle, worker, evidence, session, rpc,
                     sample, results>>
  BY DEF rpc_system_poison_tools_free, Inv, ToolsTyped, StopRequested, ToolsSet,
         CloserSet
<1>2. ToolsTyped'
  BY <1>1 DEF Inv, ToolsTyped
<1>3. ResultsAreEvidence'
  BY <1>1 DEF Inv, ResultsAreEvidence
<1>4. OneWakeup'
  BY <1>1 DEF Inv, ToolsTyped, OneWakeup
<1>5. WorkerInv'
  BY <1>1 DEF Inv, ToolsTyped, WorkerInv, Executing
<1>6. QuietInv'
  BY <1>1 DEF Inv, ToolsTyped, QuietInv, ToolsEndpoint
<1>7. AppInv'
  BY <1>1 DEF Inv, ToolsTyped, AppInv, ToolsEndpoint
<1>8. DispatchInv'
  BY <1>1 DEF Inv, ToolsTyped, DispatchInv
<1>9. CommandKeepsItsRun'
  BY <1>1 DEF Inv, ToolsTyped, CommandKeepsItsRun
<1>10. SequencesAgree'
  BY <1>1 DEF Inv, ToolsTyped, SequencesAgree, poison_app_accept_event
<1>11. CapturedInv'
  BY <1>1 DEF Inv, ToolsTyped, CapturedInv, EvidenceId
<1>12. OwnerInv'
  BY <1>1 DEF Inv, ToolsTyped, OwnerInv, MayStop
<1>13. HandlerInv'
  BY <1>1 DEF Inv, ToolsTyped, HandlerInv, MayStop
<1>14. CloserInv'
  BY <1>1 DEF Inv, ToolsTyped, CloserInv
<1>15. QED
  BY <1>2, <1>3, <1>4, <1>5, <1>6, <1>7, <1>8, <1>9, <1>10,
     <1>11, <1>12, <1>13, <1>14 DEF Inv

\* The timer thread's wait for the idle worker keeps the invariant.
LEMMA FreeStopWaitHolds ==
    ASSUME Inv, free_stop_wait
    PROVE  Inv'
<1>1. /\ closer.pc = "stop" /\ closer' \in CloserSet /\ closer'.session = closer.session
      /\ closer'.run = closer.run /\ closer'.pc = IF idle THEN "idle" ELSE "freeing"
      /\ UNCHANGED <<tools, app, work_available, idle, worker, evidence,
                     session, rpc, sample, results>>
  BY DEF free_stop_wait, Inv, ToolsTyped, CloserSet
<1>2. ToolsTyped'
  BY <1>1 DEF Inv, ToolsTyped
<1>3. /\ OneWakeup' /\ WorkerInv' /\ QuietInv' /\ AppInv' /\ DispatchInv'
      /\ CommandKeepsItsRun' /\ SequencesAgree' /\ ResultsAreEvidence' /\ CapturedInv'
  BY <1>1 DEF Inv, OneWakeup, WorkerInv, QuietInv, ToolsEndpoint, AppInv,
              DispatchInv, 
         CommandKeepsItsRun, SequencesAgree, poison_app_accept_event,
         ResultsAreEvidence, CapturedInv,
         EvidenceId
<1>4. OwnerInv'
  BY <1>1 DEF Inv, ToolsTyped, OwnerInv, MayStop
<1>5. HandlerInv'
  BY <1>1 DEF Inv, ToolsTyped, HandlerInv, MayStop
<1>6. CloserInv'
  BY <1>1 DEF Inv, ToolsTyped, CloserInv
<1>7. QED
  BY <1>2, <1>3, <1>4, <1>5, <1>6 DEF Inv

\* The timer thread had the only claim to the run, and its flag is still set.
LEMMA FreeStopFinishHolds ==
    ASSUME Inv, free_stop_finish
    PROVE  Inv'
<1>1. /\ closer.pc = "idle" /\ idle /\ worker = "waiting" /\ closer' \in CloserSet
      /\ closer'.session = closer.session /\ closer'.run = closer.run
      /\ closer'.pc = "freeing"
      /\ \/ UNCHANGED <<tools, app>>
         \/ /\ tools' \in ToolsSet /\ app' \in AppSet /\ ~ToolsEndpoint'
            /\ ~tools'.active /\ ~tools'.work_pending /\ ~tools'.worker_busy
      /\ UNCHANGED <<work_available, idle, worker, evidence, session, rpc,
                     sample, results>>
  <2>1. closer.pc = "idle" /\ idle /\ worker = "waiting"
    BY DEF free_stop_finish, Inv, CloserInv, WorkerInv
  <2>2. /\ closer' \in CloserSet /\ closer'.session = closer.session
        /\ closer'.run = closer.run /\ closer'.pc = "freeing"
        /\ UNCHANGED <<work_available, idle, worker, evidence, session, rpc,
                       sample, results>>
    BY DEF free_stop_finish, Inv, ToolsTyped, CloserSet
  <2>3. CASE Stoppable(closer.run)
    <3>1. RunStopped
      BY <2>3 DEF free_stop_finish
    <3>2. /\ tools' \in ToolsSet /\ app' \in AppSet /\ ~ToolsEndpoint'
          /\ ~tools'.active /\ ~tools'.work_pending /\ ~tools'.worker_busy
      BY <2>3, <3>1, StoppedFields DEF Inv, Stoppable
    <3>3. QED
      BY <2>1, <2>2, <3>2
  <2>4. CASE ~Stoppable(closer.run)
    BY <2>1, <2>2, <2>4 DEF free_stop_finish
  <2>5. QED
    BY <2>3, <2>4
<1>2. ToolsTyped'
  BY <1>1 DEF Inv, ToolsTyped
<1>3. ResultsAreEvidence'
  BY <1>1 DEF Inv, ResultsAreEvidence
<1>4. OneWakeup'
  BY <1>1 DEF Inv, ToolsTyped, OneWakeup, WorkerInv
<1>5. WorkerInv'
  BY <1>1 DEF Inv, ToolsTyped, WorkerInv, Executing
<1>6. QuietInv'
  BY <1>1 DEF Inv, ToolsTyped, QuietInv, ToolsEndpoint
<1>7. AppInv'
  BY <1>1 DEF Inv, ToolsTyped, AppInv, ToolsEndpoint
<1>8. DispatchInv'
  BY <1>1 DEF Inv, ToolsTyped, DispatchInv
<1>9. CommandKeepsItsRun'
  BY <1>1 DEF Inv, ToolsTyped, CommandKeepsItsRun
<1>10. SequencesAgree'
  BY <1>1 DEF Inv, ToolsTyped, SequencesAgree, poison_app_accept_event
<1>11. CapturedInv'
  BY <1>1 DEF Inv, ToolsTyped, CapturedInv, EvidenceId
<1>12. OwnerInv'
  <2>1. \A s \in Sessions : MayStop(s)' => MayStop(s) /\ s # closer.session
    BY <1>1 DEF Inv, MayStop, CloserInv
  <2>2. closer.session \in Sessions /\ MayStop(closer.session)
    BY <1>1 DEF Inv, MayStop, CloserInv
  <2>3. \A s \in Sessions : ~MayStop(s)'
    BY <2>1, <2>2 DEF Inv, OwnerInv
  <2>4. QED
    BY <2>3 DEF OwnerInv
<1>13. HandlerInv'
  <2>1. closer.session \in Sessions /\ MayStop(closer.session)
    BY <1>1 DEF Inv, MayStop, CloserInv
  <2>2. rpc.pc \notin {"stop", "idle"}
    BY <1>1, <2>1 DEF Inv, HandlerInv, CloserInv
  <2>3. QED
    BY <1>1, <2>2 DEF Inv, HandlerInv
<1>14. CloserInv'
  BY <1>1 DEF Inv, ToolsTyped, CloserInv
<1>15. QED
  BY <1>2, <1>3, <1>4, <1>5, <1>6, <1>7, <1>8, <1>9, <1>10,
     <1>11, <1>12, <1>13, <1>14 DEF Inv

\* The end of freeing a session keeps the invariant.
LEMMA FreeDoneHolds ==
    ASSUME Inv, free_done
    PROVE  Inv'
<1>1. /\ closer.pc = "freeing" /\ closer' \in CloserSet /\ closer'.pc = "free"
      /\ closer.session \in Sessions /\ session' \in [Sessions -> SessionSet]
      /\ session'[closer.session].state = "closed"
      /\ session'[closer.session].run = NoRun
      /\ (\A s \in Sessions \ {closer.session} : session'[s] = session[s])
      /\ UNCHANGED <<tools, app, work_available, idle, worker, evidence, rpc,
                     sample, results>>
  BY DEF free_done, Inv, ToolsTyped, Idle, CloserSet, SessionSet, RunIds,
         SessionIds, 
         CloserInv
<1>2. ToolsTyped'
  BY <1>1 DEF Inv, ToolsTyped
<1>3. /\ OneWakeup' /\ WorkerInv' /\ QuietInv' /\ AppInv' /\ DispatchInv'
      /\ CommandKeepsItsRun' /\ SequencesAgree' /\ ResultsAreEvidence' /\ CapturedInv'
  BY <1>1 DEF Inv, OneWakeup, WorkerInv, QuietInv, ToolsEndpoint, AppInv,
              DispatchInv, 
         CommandKeepsItsRun, SequencesAgree, poison_app_accept_event,
         ResultsAreEvidence, CapturedInv,
         EvidenceId
<1>4. OwnerInv'
  BY <1>1 DEF Inv, ToolsTyped, OwnerInv, MayStop
<1>5. HandlerInv'
  BY <1>1 DEF Inv, ToolsTyped, HandlerInv, MayStop, CloserInv
<1>6. CloserInv'
  BY <1>1 DEF Inv, ToolsTyped, CloserInv
<1>7. QED
  BY <1>2, <1>3, <1>4, <1>5, <1>6 DEF Inv

------------------------------------------------------------------------------
(* Requests *)

\* A session that opens keeps the invariant.
LEMMA OpenHolds ==
    ASSUME Inv, NEW s \in Sessions, rpc_session_open(s)
    PROVE  Inv'
<1>1. /\ session[s].state = "closed" /\ app' \in AppSet /\ app'.run = app.run
      /\ session' \in [Sessions -> SessionSet] /\ session'[s].state = "open"
      /\ session'[s].run = NoRun /\ (\A t \in Sessions \ {s} : session'[t] = session[t])
      /\ UNCHANGED <<tools, work_available, idle, worker, evidence, rpc, closer,
                     sample, results>>
  BY DEF rpc_session_open, Inv, ToolsTyped, AppSet, SessionIds, SessionSet, RunIds
<1>2. ToolsTyped'
  BY <1>1 DEF Inv, ToolsTyped
<1>3. /\ OneWakeup' /\ WorkerInv' /\ DispatchInv' /\ CommandKeepsItsRun'
      /\ ResultsAreEvidence' /\ CapturedInv'
  BY <1>1 DEF Inv, OneWakeup, WorkerInv, DispatchInv, CommandKeepsItsRun,
         ResultsAreEvidence, CapturedInv, EvidenceId
<1>4. QuietInv'
  BY <1>1 DEF Inv, ToolsTyped, QuietInv, ToolsEndpoint
<1>5. AppInv'
  BY <1>1 DEF Inv, ToolsTyped, AppInv, ToolsEndpoint
<1>6. SequencesAgree'
  BY <1>1 DEF Inv, ToolsTyped, SequencesAgree, poison_app_accept_event
<1>7. OwnerInv'
  BY <1>1 DEF Inv, ToolsTyped, OwnerInv, MayStop
<1>8. HandlerInv'
  BY <1>1 DEF Inv, ToolsTyped, HandlerInv, MayStop
<1>9. CloserInv'
  BY <1>1 DEF Inv, ToolsTyped, CloserInv
<1>10. QED
  BY <1>2, <1>3, <1>4, <1>5, <1>6, <1>7, <1>8, <1>9 DEF Inv

\* The end of an application context keeps the invariant.
LEMMA AppFreeHolds ==
    ASSUME Inv, NEW s \in Sessions, rpc_system_poison_app_free(s)
    PROVE  Inv'
<1>1. /\ session[s].state = "open" /\ closer.pc = "free" /\ rpc.session # s
      /\ app' \in AppSet /\ app'.run = app.run /\ session' \in [Sessions -> SessionSet]
      /\ session'[s].state = "closing" /\ session'[s].run = session[s].run
      /\ (\A t \in Sessions \ {s} : session'[t] = session[t]) /\ closer' \in CloserSet
      /\ closer'.pc = "app_freed" /\ closer'.session = s /\ closer'.run = session[s].run
      /\ UNCHANGED <<tools, work_available, idle, worker, evidence, rpc, sample,
                     results>>
  BY DEF rpc_system_poison_app_free, Inv, ToolsTyped, AppSet, SessionIds,
         SessionSet, 
         CloserSet, RunIds
<1>2. ToolsTyped'
  BY <1>1 DEF Inv, ToolsTyped
<1>3. /\ OneWakeup' /\ WorkerInv' /\ DispatchInv' /\ CommandKeepsItsRun'
      /\ ResultsAreEvidence' /\ CapturedInv'
  BY <1>1 DEF Inv, OneWakeup, WorkerInv, DispatchInv, CommandKeepsItsRun,
         ResultsAreEvidence, CapturedInv, EvidenceId
<1>4. QuietInv'
  BY <1>1 DEF Inv, ToolsTyped, QuietInv, ToolsEndpoint
<1>5. AppInv'
  BY <1>1 DEF Inv, ToolsTyped, AppInv, ToolsEndpoint
<1>6. SequencesAgree'
  BY <1>1 DEF Inv, ToolsTyped, SequencesAgree, poison_app_accept_event
<1>7. OwnerInv'
  BY <1>1 DEF Inv, ToolsTyped, OwnerInv, MayStop
<1>8. HandlerInv'
  BY <1>1 DEF Inv, ToolsTyped, HandlerInv, MayStop
<1>9. CloserInv'
  BY <1>1 DEF Inv, ToolsTyped, CloserInv
<1>10. QED
  BY <1>2, <1>3, <1>4, <1>5, <1>6, <1>7, <1>8, <1>9 DEF Inv

\* A request to stop the run keeps the invariant.
LEMMA RunStopHolds ==
    ASSUME Inv, NEW s \in Sessions, rpc_poison_tool_run_stop(s)
    PROVE  Inv'
<1>1. /\ rpc.pc = "free" /\ session[s].state = "open" /\ session[s].run # NoRun
      /\ rpc' \in RpcSet /\ rpc'.pc = "stop" /\ rpc'.session = s
      /\ rpc'.run = session[s].run /\ tools.active /\ tools.run_id = session[s].run
      /\ tools' \in ToolsSet /\ tools'.active = tools.active /\ tools'.cancelled = TRUE
      /\ tools'.run_id = tools.run_id /\ tools'.command_run = tools.command_run
      /\ tools'.work_pending = tools.work_pending
      /\ tools'.worker_busy = tools.worker_busy
      /\ tools'.event_sequence = tools.event_sequence
      /\ UNCHANGED <<app, work_available, idle, worker, evidence, session,
                     closer, sample, results>>
  BY DEF rpc_poison_tool_run_stop, Inv, ToolsTyped, Ready, StopRequested, ToolsSet,
         RpcSet, SessionSet, SessionIds, RunIds
<1>2. ToolsTyped'
  BY <1>1 DEF Inv, ToolsTyped
<1>3. ResultsAreEvidence'
  BY <1>1 DEF Inv, ResultsAreEvidence
<1>4. OneWakeup'
  BY <1>1 DEF Inv, ToolsTyped, OneWakeup
<1>5. WorkerInv'
  BY <1>1 DEF Inv, ToolsTyped, WorkerInv, Executing
<1>6. QuietInv'
  BY <1>1 DEF Inv, ToolsTyped, QuietInv, ToolsEndpoint
<1>7. AppInv'
  BY <1>1 DEF Inv, ToolsTyped, AppInv, ToolsEndpoint
<1>8. DispatchInv'
  BY <1>1 DEF Inv, ToolsTyped, DispatchInv
<1>9. CommandKeepsItsRun'
  BY <1>1 DEF Inv, ToolsTyped, CommandKeepsItsRun
<1>10. SequencesAgree'
  BY <1>1 DEF Inv, ToolsTyped, SequencesAgree, poison_app_accept_event
<1>11. CapturedInv'
  BY <1>1 DEF Inv, ToolsTyped, CapturedInv, EvidenceId
<1>12. OwnerInv'
  BY <1>1 DEF Inv, ToolsTyped, OwnerInv, MayStop
<1>13. HandlerInv'
  BY <1>1 DEF Inv, ToolsTyped, HandlerInv, MayStop, OwnerInv
<1>14. CloserInv'
  BY <1>1 DEF Inv, ToolsTyped, CloserInv
<1>15. QED
  BY <1>2, <1>3, <1>4, <1>5, <1>6, <1>7, <1>8, <1>9, <1>10,
     <1>11, <1>12, <1>13, <1>14 DEF Inv

\* poison_app_dispatch_command keeps the invariant.
LEMMA DispatchHolds ==
    ASSUME Inv, NEW s \in Sessions, NEW r \in Runs, NEW cancel \in BOOLEAN,
           NEW a \in {ToolsApp, SampleApp}, poison_app_dispatch_command(s, a, r, cancel)
    PROVE  Inv'
<1>1. /\ rpc.pc = "free" /\ session[s].state = "open" /\ app.run.active
      /\ app.run.app_id = a /\ app.run.run_id = r /\ rpc' \in RpcSet
      /\ rpc'.pc = (IF a = ToolsApp THEN "dispatch" ELSE "sample")
      /\ rpc'.session = s /\ rpc'.run = r
      /\ UNCHANGED <<tools, app, work_available, idle, worker, evidence,
                     session, closer, sample, results>>
  BY DEF poison_app_dispatch_command, Inv, ToolsTyped, Ready, poison_app_matches,
         RpcSet, SessionIds, RunIds
<1>2. ToolsTyped'
  BY <1>1 DEF Inv, ToolsTyped
<1>3. /\ WorkerInv' /\ QuietInv' /\ AppInv' /\ CommandKeepsItsRun' /\ SequencesAgree'
      /\ ResultsAreEvidence' /\ CapturedInv' /\ OwnerInv' /\ CloserInv'
  BY <1>1 DEF Inv, WorkerInv, QuietInv, ToolsEndpoint, AppInv, CommandKeepsItsRun,
              SequencesAgree, poison_app_accept_event, 
         ResultsAreEvidence, CapturedInv, EvidenceId, OwnerInv, MayStop, CloserInv
<1>4. OneWakeup'
  BY <1>1 DEF Inv, ToolsTyped, OneWakeup
<1>5. DispatchInv'
  <2>1. CASE a = ToolsApp
    BY <1>1, <2>1 DEF Inv, DispatchInv, AppInv, ToolsEndpoint
  <2>2. CASE a = SampleApp
    <3>1. tools.active => tools.cancelled
      BY <1>1, <2>2 DEF Inv, SequencesAgree, poison_app_accept_event, ToolsApp,
                        SampleApp
    <3>2. QED
      BY <1>1, <2>2, <3>1 DEF DispatchInv, ToolsApp, SampleApp
  <2>3. QED
    BY <2>1, <2>2
<1>6. HandlerInv'
  BY <1>1 DEF Inv, ToolsTyped, HandlerInv, MayStop
<1>7. QED
  BY <1>2, <1>3, <1>4, <1>5, <1>6 DEF Inv

\* A start finds the service quiet and nobody with a claim to a run. When the
\* sample has the endpoint, nothing but what the service holds of the run that
\* is not there has changed.
LEMMA RunStartHolds ==
    ASSUME Inv, NEW s \in Sessions, NEW r \in Runs, rpc_poison_tool_run_start(s, r)
    PROVE  Inv'
<1>1. /\ rpc.pc = "free" /\ session[s].state = "open" /\ session[s].run = NoRun
      /\ ~tools.active /\ idle /\ worker = "waiting" /\ app' \in AppSet
      /\ tools' \in ToolsSet /\ tools'.run_id = r /\ ~tools'.work_pending
      /\ ~tools'.worker_busy /\ tools'.work_pending = tools.work_pending
      /\ tools'.event_sequence = 0 /\ session' \in [Sessions -> SessionSet]
      /\ session'[s].state = "open"
      /\ (\A t \in Sessions \ {s} : session'[t] = session[t]) /\ rpc' \in RpcSet
      /\ \/ /\ ~tools'.active /\ app' = app /\ rpc' = rpc /\ session' = session
         \/ /\ tools'.active /\ app'.run.active /\ ~app'.run.cancelled
            /\ app'.run.app_id = ToolsApp /\ app'.run.run_id = r
            /\ app'.run.next_sequence = 0
            /\ \/ rpc' = rpc /\ session'[s].run = r
               \/ /\ rpc'.pc = "stop" /\ rpc'.session = s /\ rpc'.run = r
                  /\ tools'.cancelled /\ session'[s].run = NoRun
      /\ UNCHANGED <<work_available, idle, worker, evidence, closer, sample, results>>
  <2>1. /\ rpc.pc = "free" /\ session[s].state = "open" /\ session[s].run = NoRun
        /\ ~tools.active /\ idle /\ worker = "waiting"
        /\ ~tools.work_pending /\ ~tools.worker_busy
        /\ UNCHANGED <<work_available, idle, worker, evidence, closer, sample, results>>
    BY DEF rpc_poison_tool_run_start, Ready, Startable, Inv, QuietInv, WorkerInv
  <2>2. /\ RunStarted(r) \in ToolsSet /\ RunStarted(r).active
        /\ RunStarted(r).run_id = r /\ RunStarted(r).event_sequence = 0
        /\ RunStarted(r).work_pending = tools.work_pending
        /\ RunStarted(r).worker_busy = tools.worker_busy
    BY DEF RunStarted, Inv, ToolsTyped, ToolsSet, RunIds
  <2>3. /\ app \in AppSet /\ rpc \in RpcSet /\ session \in [Sessions -> SessionSet]
    BY DEF Inv, ToolsTyped
  <2>4. CASE /\ tools' = [RunStarted(r) EXCEPT !.active = FALSE]
             /\ UNCHANGED <<app, rpc, session>>
    <3>1. /\ tools' \in ToolsSet /\ ~tools'.active
          /\ tools'.run_id = r /\ tools'.event_sequence = 0
          /\ tools'.work_pending = tools.work_pending
          /\ tools'.worker_busy = tools.worker_busy
      BY <2>2, <2>4 DEF ToolsSet
    <3>2. QED
      BY <2>1, <2>3, <2>4, <3>1
  <2>5. CASE poison_app_endpoint_register(ToolsApp, r)
    <3>1. /\ app' \in AppSet /\ app'.run.active /\ ~app'.run.cancelled
          /\ app'.run.app_id = ToolsApp /\ app'.run.run_id = r
          /\ app'.run.next_sequence = 0
      BY <2>5, RegisterFields DEF Inv
    <3>2. CASE /\ tools' = RunStarted(r) /\ rpc' = rpc
               /\ session' = [session EXCEPT ![s].run = r]
      <4>1. /\ session' \in [Sessions -> SessionSet] /\ session'[s].state = "open"
            /\ session'[s].run = r
            /\ \A t \in Sessions \ {s} : session'[t] = session[t]
        BY <2>1, <2>3, <3>2 DEF SessionSet, RunIds
      <4>2. QED
        BY <2>1, <2>2, <2>3, <3>1, <3>2, <4>1
    <3>3. CASE /\ tools' = [RunStarted(r) EXCEPT !.cancelled = TRUE]
               /\ rpc' = [pc |-> "stop", session |-> s, run |-> r, cancel |-> FALSE]
               /\ session' = session
      <4>1. /\ tools' \in ToolsSet /\ tools'.active /\ tools'.cancelled
            /\ tools'.run_id = r /\ tools'.event_sequence = 0
            /\ tools'.work_pending = tools.work_pending
            /\ tools'.worker_busy = tools.worker_busy
        BY <2>2, <3>3 DEF ToolsSet
      <4>2. /\ rpc' \in RpcSet /\ rpc'.pc = "stop" /\ rpc'.session = s /\ rpc'.run = r
        BY <3>3 DEF RpcSet, RunIds, SessionIds
      <4>3. QED
        BY <2>1, <2>3, <3>1, <3>3, <4>1, <4>2
    <3>4. \/ /\ tools' = RunStarted(r) /\ rpc' = rpc
             /\ session' = [session EXCEPT ![s].run = r]
          \/ /\ tools' = [RunStarted(r) EXCEPT !.cancelled = TRUE]
             /\ rpc' = [pc |-> "stop", session |-> s, run |-> r, cancel |-> FALSE]
             /\ session' = session
          \/ /\ tools' = [RunStarted(r) EXCEPT !.active = FALSE]
             /\ UNCHANGED <<app, rpc, session>>
      BY DEF rpc_poison_tool_run_start
    <3>5. QED
      BY <2>4, <3>2, <3>3, <3>4
  <2>6. \/ /\ tools' = [RunStarted(r) EXCEPT !.active = FALSE]
           /\ UNCHANGED <<app, rpc, session>>
        \/ poison_app_endpoint_register(ToolsApp, r)
    BY DEF rpc_poison_tool_run_start
  <2>7. QED
    BY <2>4, <2>5, <2>6
<1>2. ToolsTyped'
  BY <1>1 DEF Inv, ToolsTyped
<1>3. ResultsAreEvidence'
  BY <1>1 DEF Inv, ResultsAreEvidence
<1>4. OneWakeup'
  BY <1>1 DEF Inv, ToolsTyped, OneWakeup
<1>5. WorkerInv'
  BY <1>1 DEF Inv, ToolsTyped, WorkerInv, Executing
<1>6. QuietInv'
  BY <1>1 DEF Inv, ToolsTyped, QuietInv, ToolsEndpoint
<1>7. AppInv'
  BY <1>1 DEF Inv, ToolsTyped, AppInv, QuietInv, ToolsEndpoint
<1>8. DispatchInv'
  BY <1>1 DEF Inv, ToolsTyped, DispatchInv
<1>9. CommandKeepsItsRun'
  BY <1>1 DEF Inv, ToolsTyped, CommandKeepsItsRun
<1>10. SequencesAgree'
  BY <1>1 DEF Inv, ToolsTyped, SequencesAgree, poison_app_accept_event, ToolsSet
<1>11. CapturedInv'
  BY <1>1 DEF Inv, ToolsTyped, CapturedInv, EvidenceId
<1>12. OwnerInv'
  BY <1>1 DEF Inv, ToolsTyped, OwnerInv, MayStop
<1>13. HandlerInv'
  BY <1>1 DEF Inv, ToolsTyped, HandlerInv, MayStop, OwnerInv
<1>14. CloserInv'
  BY <1>1 DEF Inv, ToolsTyped, CloserInv
<1>15. QED
  BY <1>2, <1>3, <1>4, <1>5, <1>6, <1>7, <1>8, <1>9, <1>10,
     <1>11, <1>12, <1>13, <1>14 DEF Inv

------------------------------------------------------------------------------
(* The safe sample *)

\* What the sample does to the endpoint is no matter while the tools service's
\* endpoint stays as it was, or there is none and a run that is active has lost
\* it already.
LEMMA SampleHolds ==
    ASSUME Inv, app' \in AppSet, sample' \in BOOLEAN,
           \/ app' = app
           \/ ~ToolsEndpoint' /\ (tools.active => tools.cancelled),
           UNCHANGED <<tools, work_available, idle, worker, evidence, session, rpc,
                       closer, results>>
    PROVE  Inv'
<1>1. ToolsTyped'
  BY DEF Inv, ToolsTyped
<1>2. /\ OneWakeup' /\ WorkerInv' /\ DispatchInv' /\ CommandKeepsItsRun'
      /\ ResultsAreEvidence' /\ CapturedInv'
  BY DEF Inv, OneWakeup, WorkerInv, DispatchInv, CommandKeepsItsRun,
         ResultsAreEvidence, CapturedInv, EvidenceId
<1>3. QuietInv' /\ AppInv'
  BY DEF Inv, QuietInv, AppInv, ToolsEndpoint
<1>4. SequencesAgree'
  BY DEF Inv, SequencesAgree, poison_app_accept_event
<1>5. OwnerInv' /\ HandlerInv' /\ CloserInv'
  BY DEF Inv, OwnerInv, MayStop, HandlerInv, CloserInv
<1>6. QED
  BY <1>1, <1>2, <1>3, <1>4, <1>5 DEF Inv

\* The sample registers only where no run is active, so not in the place of a
\* tool run that was not cancelled.
LEMMA SampleOpensHolds ==
    ASSUME Inv, poison_safe_sample_app
    PROVE  Inv'
<1>1. /\ ~app.run.active /\ app' \in AppSet /\ app'.run.app_id = SampleApp
      /\ sample' = TRUE
      /\ UNCHANGED <<tools, work_available, idle, worker, evidence, session, rpc,
                     closer, results>>
  BY RegisterFields, ToolsAssumption DEF poison_safe_sample_app, Inv
<1>2. QED
  BY <1>1, SampleHolds DEF Inv, SequencesAgree, poison_app_accept_event,
                           ToolsEndpoint, 
                           ToolsApp, SampleApp

\* The sample unregisters only its own endpoint.
LEMMA SampleEndsHolds ==
    ASSUME Inv, poison_safe_sample_end
    PROVE  Inv'
<1>1. /\ app' \in AppSet /\ (app.run.app_id # SampleApp => app' = app)
      /\ (app.run.app_id = SampleApp => ~app'.run.active) /\ sample' = FALSE
      /\ UNCHANGED <<tools, work_available, idle, worker, evidence, session, rpc,
                     closer, results>>
  BY UnregisterFields DEF poison_safe_sample_end, Inv
<1>2. QED
  BY <1>1, SampleHolds DEF Inv, SequencesAgree, poison_app_accept_event,
                           ToolsEndpoint, 
                           ToolsApp, SampleApp

------------------------------------------------------------------------------
(* The theorems *)

\* A device without a run is in the invariant.
LEMMA InitHolds == Init => Inv
<1> SUFFICES ASSUME Init PROVE Inv
  OBVIOUS
<1>1. /\ tools \in ToolsSet /\ ~tools.active /\ ~tools.work_pending /\ ~tools.worker_busy
      /\ worker = "waiting" /\ idle = TRUE /\ work_available = 0
  BY DEF Init, ToolsSet, RunIds
<1>2. NoAppRun \in AppRunSet /\ ~NoAppRun.active
  BY DEF NoAppRun, AppRunSet, AppIds, RunIds
<1>3. app \in AppSet /\ ~app.run.active
  BY <1>2 DEF Init, AppSet, SessionIds
<1>4. /\ session \in [Sessions -> SessionSet]
      /\ \A s \in Sessions : session[s].run = NoRun
  BY DEF Init, SessionSet, RunIds
<1>5. rpc \in RpcSet /\ rpc.pc = "free" /\ closer \in CloserSet /\ closer.pc = "free"
  BY DEF Init, RpcSet, CloserSet, RunIds, SessionIds
<1>6. evidence = {} /\ results = <<>> /\ results \in Seq(EvidenceIds) /\ Len(results) = 0
  BY DEF Init
<1>7. ToolsTyped
  <2>1. sample \in BOOLEAN
    BY Zenon DEF Init
  <2>2. QED
    BY <1>1, <1>3, <1>4, <1>5, <1>6, <2>1 DEF ToolsTyped, WorkerSteps
<1>8. OneWakeup /\ WorkerInv /\ QuietInv /\ AppInv /\ DispatchInv
  BY <1>1, <1>3, <1>5
     DEF OneWakeup, WorkerInv, QuietInv, ToolsEndpoint, AppInv, DispatchInv, Executing
<1>9. CommandKeepsItsRun /\ SequencesAgree /\ ResultsAreEvidence /\ CapturedInv
  BY <1>1, <1>3, <1>6
     DEF CommandKeepsItsRun, SequencesAgree, poison_app_accept_event,
         ResultsAreEvidence, CapturedInv
<1>10. OwnerInv /\ HandlerInv /\ CloserInv
  BY <1>4, <1>5 DEF OwnerInv, HandlerInv, CloserInv, MayStop
<1>11. QED
  BY <1>7, <1>8, <1>9, <1>10 DEF Inv

\* Every step keeps the invariant.
LEMMA StepHolds == Inv /\ [Next]_vars => Inv'
<1> SUFFICES ASSUME Inv, [Next]_vars PROVE Inv'
  OBVIOUS
<1>1. CASE WorkerStep
  BY <1>1, AcquireHolds, TakeHolds, NoResultHolds, CaptureHolds, PublishHolds,
     CountHolds, DeriveHolds, DoneHolds DEF WorkerStep
<1>2. CASE HandlerStep
  BY <1>2, StopWaitHolds, StopFinishHolds, CommandHolds, SignalHolds,
     SampleCommandHolds, DispatchCancelHolds DEF HandlerStep
<1>3. CASE CloserStep
  BY <1>3, ToolsFreeHolds, FreeStopWaitHolds, FreeStopFinishHolds, FreeDoneHolds
     DEF CloserStep
<1>4. ASSUME NEW s \in Sessions, Request(s) PROVE Inv'
  BY <1>4, OpenHolds, AppFreeHolds, RunStopHolds, RunStartHolds, DispatchHolds
     DEF Request
<1>5. CASE UNCHANGED vars
  <2>1. ToolsTyped' /\ OneWakeup' /\ WorkerInv' /\ QuietInv' /\ AppInv'
    BY <1>5 DEF vars, Inv, ToolsTyped, OneWakeup, WorkerInv, QuietInv,
                ToolsEndpoint, AppInv
  <2>2. DispatchInv' /\ CommandKeepsItsRun' /\ SequencesAgree'
    BY <1>5 DEF vars, Inv, DispatchInv, CommandKeepsItsRun, SequencesAgree,
                poison_app_accept_event
  <2>3. ResultsAreEvidence' /\ CapturedInv'
    BY <1>5 DEF vars, Inv, ResultsAreEvidence, CapturedInv, EvidenceId
  <2>4. OwnerInv' /\ HandlerInv' /\ CloserInv'
    BY <1>5 DEF vars, Inv, OwnerInv, HandlerInv, CloserInv, MayStop
  <2>5. QED
    BY <2>1, <2>2, <2>3, <2>4 DEF Inv
<1>6. CASE poison_safe_sample_app \/ poison_safe_sample_end
  BY <1>6, SampleOpensHolds, SampleEndsHolds
<1>7. QED
  BY <1>1, <1>2, <1>3, <1>4, <1>5, <1>6 DEF Next

\* The invariant always holds.
LEMMA AlwaysInv == Spec => []Inv
<1>1. QED
  BY InitHolds, StepHolds, PTL DEF Spec

\* The release of poison_tools_command never meets a full semaphore, and no
\* wake-up of the worker is lost or left over.
THEOREM WakeupsAreCounted == Spec => []OneWakeup
<1>1. Inv => OneWakeup
  BY DEF Inv
<1>2. QED
  BY <1>1, AlwaysInv, PTL

\* When poison_tools_run_stop has ended a run, the worker waits, no command is
\* queued or about to wake it, and no endpoint accepts an event of the tools
\* service; the safe sample's endpoint may be there.
THEOREM StopIsQuiet == Spec => []StoppedIsQuiet
<1>1. Inv => StoppedIsQuiet
  <2> SUFFICES ASSUME Inv, ~tools.active
               PROVE  /\ worker = "waiting" /\ idle /\ work_available = 0
                      /\ rpc.pc # "signal"
                      /\ ~tools.work_pending /\ ~tools.worker_busy
                      /\ ~(app.run.active /\ app.run.app_id = ToolsApp)
    BY DEF StoppedIsQuiet
  <2>1. idle /\ ~tools.worker_busy /\ ~ToolsEndpoint
    BY DEF Inv, QuietInv, ToolsEndpoint
  <2>2. worker = "waiting" /\ ~tools.work_pending
    BY <2>1 DEF Inv, WorkerInv
  <2>3. work_available = 0 /\ rpc.pc # "signal"
    BY <2>2 DEF Inv, OneWakeup, ToolsTyped
  <2>4. QED
    BY <2>1, <2>2, <2>3 DEF ToolsEndpoint
<1>2. QED
  BY <1>1, AlwaysInv, PTL

\* The command that poison_tools_worker executes was sent to the active run.
THEOREM CommandsKeepTheirRun == Spec => []CommandKeepsItsRun
<1>1. Inv => CommandKeepsItsRun
  BY DEF Inv
<1>2. QED
  BY <1>1, AlwaysInv, PTL

\* Whatever the safe sample registers, unregisters and is sent, a tool run that
\* was not cancelled has the endpoint, and poison_app_accept_event expects the
\* number that the tools service uses next.
THEOREM SequencesAlwaysAgree == Spec => []SequencesAgree
<1>1. Inv => SequencesAgree
  BY DEF Inv
<1>2. QED
  BY <1>1, AlwaysInv, PTL

\* Every result that poison_app_publish_event let through has its evidence,
\* and no two have the same.
THEOREM ResultsHaveEvidence == Spec => []ResultsAreEvidence
<1>1. Inv => ResultsAreEvidence
  BY DEF Inv
<1>2. QED
  BY <1>1, AlwaysInv, PTL

\* A session that has started a run has the active one, and has it alone.
THEOREM OwnerAlwaysHasTheRun == Spec => []OwnerHasTheRun
<1>1. Inv => OwnerHasTheRun
  BY DEF Inv, OwnerInv, MayStop, OwnerHasTheRun
<1>2. QED
  BY <1>1, AlwaysInv, PTL
==============================================================================
