------------------------------ MODULE ToolRuns ------------------------------
(***************************************************************************)
(* Tool runs: poison_tools.c, the application endpoint poison_app.c that  *)
(* carries their commands and results, and the request handlers of both.  *)
(*                                                                         *)
(* Three threads share them. A session's handler runs under the RPC       *)
(* service's busy_mutex, so one handler at a time, whatever its session.  *)
(* The worker runs the tool. The timer thread frees a session that ended, *)
(* without busy_mutex, while a handler of another session may be at work. *)
(* A step is what a thread does between two mutex operations.             *)
(*                                                                         *)
(* A fourth thread shares the endpoint: the safe sample registers one of  *)
(* its own for as long as its app is open, without busy_mutex. The        *)
(* service has room for one, so it refuses whoever comes second, and      *)
(* either may find the other's in the place of its own.                   *)
(*                                                                         *)
(* A tool, its payload and its message do not matter here: a command      *)
(* either belongs to the run's tool or is refused without a change. Every *)
(* adapter publishes at most one result, and then perhaps an artifact.    *)
(***************************************************************************)
EXTENDS Integers, Sequences, FiniteSets

CONSTANTS
    Sessions,
    Runs,           \* run ids a client may choose
    NoRun,          \* the empty run_id
    NoSession,
    Onboarding,     \* the run id of the safe sample
    EvidenceMax,    \* POISON_EVIDENCE_MAX_ITEMS, the records of one boot
    SampleMax       \* bound: the events of a run of the safe sample

ASSUME ToolsAssumption ==
    /\ NoRun \notin Runs
    /\ NoSession \notin Sessions
    /\ Onboarding \in Runs    \* a client may choose it too
    /\ EvidenceMax \in Nat /\ SampleMax \in Nat

VARIABLES
    tools,          \* PoisonToolsService
    app,            \* PoisonAppService
    work_available, \* the semaphore
    idle,           \* POISON_TOOLS_IDLE_FLAG
    worker,         \* where the worker thread is
    evidence,       \* ids captured by poison_evidence_capture_global
    session,        \* the sessions and their RpcPoisonTools and RpcPoisonApp
    rpc,            \* the handler that holds busy_mutex
    closer,         \* the timer thread
    sample,         \* the safe sample is open and was registered
    results         \* history: the ids of the accepted result events

vars == <<tools, app, work_available, idle, worker, evidence, session, rpc,
          closer, sample, results>>

------------------------------------------------------------------------------
(* The application endpoint *)

ToolsApp == "org.poison.tools"
SampleApp == "poison_safe_sample"

\* command_callback and command_context are those of the app that registered
\* the run, and go with it: app_id stands for them, "" for none.
NoAppRun == [active |-> FALSE, cancelled |-> FALSE, app_id |-> "",
             run_id |-> NoRun, next_sequence |-> 0]

poison_app_run_start(a, r) ==
    [active |-> TRUE, cancelled |-> FALSE, app_id |-> a, run_id |-> r,
     next_sequence |-> 0]

poison_app_endpoint_register(a, r) ==
    /\ ~app.run.active
    /\ app' = [app EXCEPT !.run = poison_app_run_start(a, r)]

\* Mutant: the context is not compared.
UnregisterAny(a) == app' = [app EXCEPT !.run = NoAppRun]

poison_app_endpoint_unregister(a) ==
    app' = IF app.run.app_id = a THEN [app EXCEPT !.run = NoAppRun] ELSE app

poison_app_matches(a, r) ==
    app.run.active /\ app.run.app_id = a /\ app.run.run_id = r

poison_app_accept_event(a, r, sequence) ==
    /\ app.run.active /\ ~app.run.cancelled
    /\ app.run.app_id = a /\ app.run.run_id = r
    /\ app.run.next_sequence = sequence

\* poison_app_cancel
AppCancelled ==
    IF app.run.active /\ ~app.run.cancelled
    THEN [app EXCEPT !.run.cancelled = TRUE, !.run.active = FALSE]
    ELSE app

------------------------------------------------------------------------------
(* Sessions *)

\* rpc_system_poison_app_alloc and rpc_system_poison_tools_alloc. The first
\* session takes the only event subscription; the others never get it.
rpc_session_open(s) ==
    /\ session[s].state = "closed"
    /\ LET available == app.subscriber = NoSession IN
       /\ app' = IF available THEN [app EXCEPT !.subscriber = s] ELSE app
       /\ session' = [session EXCEPT ![s] =
              [state |-> "open", subscribed |-> available, run |-> NoRun]]
    /\ UNCHANGED <<tools, work_available, idle, worker, evidence, rpc, closer,
                   sample, results>>

\* rpc_system_poison_app_free. Its thread has ended, so no handler is its own.
rpc_system_poison_app_free(s) ==
    /\ closer.pc = "free"
    /\ session[s].state = "open"
    /\ rpc.session # s
    /\ app' = IF session[s].subscribed
              THEN [app EXCEPT !.subscriber = NoSession] ELSE app
    /\ session' = [session EXCEPT ![s].state = "closing",
                                  ![s].subscribed = FALSE]
    /\ closer' = [pc |-> "app_freed", session |-> s, run |-> session[s].run]
    /\ UNCHANGED <<tools, work_available, idle, worker, evidence, rpc, sample,
                   results>>

------------------------------------------------------------------------------
(* poison_tools_run_stop, by a handler or by the timer thread *)

Idle(thread) == [thread EXCEPT !.pc = "free", !.session = NoSession,
                               !.run = NoRun]

\* The first critical section.
StopRequested(r) == tools.active /\ tools.run_id = r

\* The second one, after the wait: the run may have changed meanwhile.
Stoppable(r) ==
    /\ tools.active /\ tools.run_id = r
    /\ ~tools.work_pending /\ ~tools.worker_busy

\* Mutant: the endpoint is not unregistered.
RunStoppedKeepsEndpoint ==
    /\ tools' = [tools EXCEPT !.active = FALSE, !.run_id = NoRun,
                              !.command_run = NoRun]
    /\ UNCHANGED app

RunStopped ==
    /\ tools' = [tools EXCEPT !.active = FALSE, !.run_id = NoRun,
                              !.command_run = NoRun]
    /\ poison_app_endpoint_unregister(ToolsApp)

\* Every session's own record of the run it started.
Forget(s) == [session EXCEPT ![s].run = NoRun]

\* The wait for the flag: it is set, or six seconds have passed.
rpc_stop_wait ==
    /\ rpc.pc = "stop"
    /\ \/ idle /\ rpc' = [rpc EXCEPT !.pc = "idle"]
       \/ ~idle /\ rpc' = Idle(rpc)
    /\ UNCHANGED <<tools, app, work_available, idle, worker, evidence,
                   session, closer, sample, results>>

\* rpc_poison_tool_run_process and rpc_poison_tool_cancel after the wait.
rpc_stop_finish ==
    /\ rpc.pc = "idle"
    /\ IF Stoppable(rpc.run)
       THEN RunStopped /\ session' = Forget(rpc.session)
       ELSE UNCHANGED <<tools, app, session>>
    /\ rpc' = Idle(rpc)
    /\ UNCHANGED <<work_available, idle, worker, evidence, closer, sample,
                   results>>

\* rpc_system_poison_tools_free up to the wait.
rpc_system_poison_tools_free ==
    /\ closer.pc = "app_freed"
    /\ IF closer.run # NoRun /\ StopRequested(closer.run)
       THEN /\ tools' = [tools EXCEPT !.cancelled = TRUE]
            /\ closer' = [closer EXCEPT !.pc = "stop"]
       ELSE /\ closer' = [closer EXCEPT !.pc = "freeing"]
            /\ UNCHANGED tools
    /\ UNCHANGED <<app, work_available, idle, worker, evidence, session, rpc,
                   sample, results>>

free_stop_wait ==
    /\ closer.pc = "stop"
    /\ closer' = [closer EXCEPT !.pc = IF idle THEN "idle" ELSE "freeing"]
    /\ UNCHANGED <<tools, app, work_available, idle, worker, evidence,
                   session, rpc, sample, results>>

free_stop_finish ==
    /\ closer.pc = "idle"
    /\ IF Stoppable(closer.run) THEN RunStopped ELSE UNCHANGED <<tools, app>>
    /\ closer' = [closer EXCEPT !.pc = "freeing"]
    /\ UNCHANGED <<work_available, idle, worker, evidence, session, rpc,
                   sample, results>>

\* The memory goes whether or not the run stopped.
free_done ==
    /\ closer.pc = "freeing"
    /\ session' = [session EXCEPT ![closer.session] =
                      [state |-> "closed", subscribed |-> FALSE, run |-> NoRun]]
    /\ closer' = Idle(closer)
    /\ UNCHANGED <<tools, app, work_available, idle, worker, evidence, rpc,
                   sample, results>>

------------------------------------------------------------------------------
(* Handlers *)

\* busy_mutex is free and the session may send a request.
Ready(s) == rpc.pc = "free" /\ session[s].state = "open"

\* poison_tools_run_start_for_case
\* Mutant: a run that was only cancelled counts as gone.
StartableWhenCancelled ==
    (~tools.active \/ tools.cancelled) /\ ~tools.work_pending /\ ~tools.worker_busy

Startable == ~tools.active /\ ~tools.work_pending /\ ~tools.worker_busy

RunStarted(r) ==
    [tools EXCEPT !.active = TRUE, !.cancelled = FALSE, !.run_id = r,
                  !.command_run = NoRun, !.event_sequence = 0]

\* Mutant: a start does not wait for busy_mutex.
StartWithoutMutex(s, r) ==
    /\ session[s].state = "open"
    /\ session[s].run = NoRun
    /\ Startable
    /\ poison_app_endpoint_register(ToolsApp, r)
    /\ tools' = RunStarted(r)
    /\ session' = [session EXCEPT ![s].run = r]
    /\ UNCHANGED <<rpc, work_available, idle, worker, evidence, closer, sample,
                   results>>

\* rpc_poison_tool_run_process, "start". The endpoint may be refused, since the
\* sample has one; and when the command cannot be made cancellable (no slot, or
\* an id in use), the run is stopped again.
rpc_poison_tool_run_start(s, r) ==
    /\ Ready(s)
    /\ session[s].run = NoRun
    /\ Startable
    /\ \/ /\ app.run.active
          /\ tools' = [RunStarted(r) EXCEPT !.active = FALSE]
          /\ UNCHANGED <<app, rpc, session>>
       \/ /\ poison_app_endpoint_register(ToolsApp, r)
          /\ \/ /\ tools' = RunStarted(r)
                /\ session' = [session EXCEPT ![s].run = r]
                /\ UNCHANGED rpc
             \/ /\ tools' = [RunStarted(r) EXCEPT !.cancelled = TRUE]
                /\ rpc' = [pc |-> "stop", session |-> s, run |-> r,
                           cancel |-> FALSE]
                /\ UNCHANGED session
    /\ UNCHANGED <<work_available, idle, worker, evidence, closer, sample,
                   results>>

\* "stop", and a cancel request for the command that started the run.
rpc_poison_tool_run_stop(s) ==
    /\ Ready(s)
    /\ session[s].run # NoRun
    /\ StopRequested(session[s].run)
    /\ tools' = [tools EXCEPT !.cancelled = TRUE]
    /\ rpc' = [pc |-> "stop", session |-> s, run |-> session[s].run,
               cancel |-> FALSE]
    /\ UNCHANGED <<app, work_available, idle, worker, evidence, session,
                   closer, sample, results>>

\* rpc_poison_app_command_process with a complete command, up to the end of
\* dispatch's first critical section. Any subscribed session may send one, to
\* either app.
poison_app_dispatch_command(s, a, r, cancel) ==
    /\ Ready(s)
    /\ session[s].subscribed
    /\ poison_app_matches(a, r)
    /\ rpc' = [pc |-> IF a = ToolsApp THEN "dispatch" ELSE "sample",
               session |-> s, run |-> r, cancel |-> cancel]
    /\ UNCHANGED <<tools, app, work_available, idle, worker, evidence,
                   session, closer, sample, results>>

\* Mutant: a command that waits does not stop the next one.
QueueableTwice == tools.active /\ ~tools.cancelled /\ ~tools.worker_busy

Queueable ==
    /\ tools.active /\ ~tools.cancelled
    /\ ~tools.work_pending /\ ~tools.worker_busy

\* poison_tools_command, its critical section.
poison_tools_command ==
    /\ rpc.pc = "dispatch"
    /\ \/ /\ rpc.cancel
          /\ tools' = IF tools.active THEN [tools EXCEPT !.cancelled = TRUE]
                                      ELSE tools
          /\ rpc' = IF tools.active /\ ~tools.cancelled
                    THEN [rpc EXCEPT !.pc = "cancel"] ELSE Idle(rpc)
          /\ UNCHANGED idle
       \/ /\ ~rpc.cancel /\ Queueable
          /\ tools' = [tools EXCEPT !.work_pending = TRUE,
                                    !.command_run = rpc.run]
          /\ idle' = FALSE
          /\ rpc' = [rpc EXCEPT !.pc = "signal"]
       \/ /\ ~rpc.cancel /\ ~Queueable
          /\ rpc' = Idle(rpc)
          /\ UNCHANGED <<tools, idle>>
    /\ UNCHANGED <<app, work_available, worker, evidence, session, closer,
                   sample, results>>

\* The release after the mutex; furi_check wants it to succeed.
poison_tools_command_signal ==
    /\ rpc.pc = "signal"
    /\ work_available' = work_available + 1
    /\ rpc' = Idle(rpc)
    /\ UNCHANGED <<tools, app, idle, worker, evidence, session, closer,
                   sample, results>>

\* dispatch's second critical section: it cancels the run that is registered
\* now, whichever app's it is.
poison_app_dispatch_cancel ==
    /\ rpc.pc = "cancel"
    /\ app' = AppCancelled
    /\ rpc' = Idle(rpc)
    /\ UNCHANGED <<tools, work_available, idle, worker, evidence, session,
                   closer, sample, results>>

------------------------------------------------------------------------------
(* The safe sample *)

\* Its app opens. When its endpoint is refused it runs without one and has no
\* part in what follows.
poison_safe_sample_app ==
    /\ ~sample
    /\ poison_app_endpoint_register(SampleApp, Onboarding)
    /\ sample' = TRUE
    /\ UNCHANGED <<tools, work_available, idle, worker, evidence, session, rpc,
                   closer, results>>

\* It ends, by the user or by a cancel, and its memory goes.
poison_safe_sample_end ==
    /\ sample
    /\ poison_app_endpoint_unregister(SampleApp)
    /\ sample' = FALSE
    /\ UNCHANGED <<tools, work_available, idle, worker, evidence, session, rpc,
                   closer, results>>

\* Its callback, in the handler's thread and without a mutex, so the app may
\* have ended: what the callback then reads of it is arbitrary. It publishes
\* an event, which the run of a sample accepts or not, or none ("run" has
\* three, the same as three commands).
poison_safe_sample_structured_command ==
    /\ rpc.pc = "sample"
    /\ \/ rpc.cancel /\ rpc' = [rpc EXCEPT !.pc = "cancel"] /\ UNCHANGED app
       \/ /\ ~rpc.cancel /\ rpc' = Idle(rpc)
          /\ \/ UNCHANGED app
             \/ /\ app.run.next_sequence < SampleMax
                /\ poison_app_accept_event(SampleApp, Onboarding,
                                           app.run.next_sequence)
                /\ app' = [app EXCEPT !.run.next_sequence = @ + 1]
    /\ UNCHANGED <<tools, work_available, idle, worker, evidence, session,
                   closer, sample, results>>

------------------------------------------------------------------------------
(* poison_tools_worker *)

EvidenceId == [run |-> tools.run_id, sequence |-> tools.event_sequence,
               derived |-> FALSE]

\* Mutant: an id that exists is captured again.
CaptureAgain(id) ==
    /\ Cardinality(evidence) < EvidenceMax
    /\ evidence' = evidence \cup {id}

poison_evidence_capture_global(id) ==
    /\ id \notin evidence
    /\ Cardinality(evidence) < EvidenceMax
    /\ evidence' = evidence \cup {id}

worker_acquire ==
    /\ worker = "waiting"
    /\ work_available > 0
    /\ work_available' = work_available - 1
    /\ worker' = "woken"
    /\ UNCHANGED <<tools, app, idle, evidence, session, rpc, closer, sample,
                   results>>

worker_take ==
    /\ worker = "woken"
    /\ LET execute == tools.work_pending /\ tools.active /\ ~tools.cancelled IN
       /\ tools' = [tools EXCEPT !.work_pending = FALSE,
                                 !.worker_busy = execute]
       /\ worker' = IF execute THEN "executing" ELSE "done"
    /\ UNCHANGED <<app, work_available, idle, evidence, session, rpc, closer,
                   sample, results>>

\* poison_tools_execute_pending without a result: a bad payload, a failed
\* capture, or poison_tools_is_cancelled.
worker_no_result ==
    /\ worker = "executing"
    /\ worker' = "done"
    /\ UNCHANGED <<tools, app, work_available, idle, evidence, session, rpc,
                   closer, sample, results>>

\* poison_tools_publish_result_with_evidence up to the event.
worker_capture ==
    /\ worker = "executing"
    /\ tools.active /\ ~tools.cancelled
    /\ poison_evidence_capture_global(EvidenceId)
    /\ worker' = "captured"
    /\ UNCHANGED <<tools, app, work_available, idle, session, rpc, closer,
                   sample, results>>

\* poison_app_publish_event, its critical section; the callback that follows
\* only sends.
worker_publish ==
    /\ worker = "captured"
    /\ IF poison_app_accept_event(ToolsApp, tools.run_id, tools.event_sequence)
       THEN /\ app' = [app EXCEPT !.run.next_sequence = @ + 1]
            /\ results' = Append(results, EvidenceId)
            /\ worker' = "published"
       ELSE worker' = "done" /\ UNCHANGED <<app, results>>
    /\ UNCHANGED <<tools, work_available, idle, evidence, session, rpc,
                   closer, sample>>

\* event_sequence++, by the worker alone and without the mutex.
worker_count ==
    /\ worker = "published"
    /\ tools' = [tools EXCEPT !.event_sequence = @ + 1]
    /\ worker' = "counted"
    /\ UNCHANGED <<app, work_available, idle, evidence, session, rpc, closer,
                   sample, results>>

\* poison_tools_publish_derived_artifact captures its evidence; the event has
\* no artifact name, so poison_app_event_is_typed refuses it every time.
worker_derive ==
    /\ worker = "counted"
    /\ \/ /\ tools.active /\ ~tools.cancelled
          /\ poison_evidence_capture_global([EvidenceId EXCEPT !.derived = TRUE])
       \/ UNCHANGED evidence
    /\ worker' = "done"
    /\ UNCHANGED <<tools, app, work_available, idle, session, rpc, closer,
                   sample, results>>

\* Mutant: the flag is set only when a command was executed.
worker_done_if_busy ==
    /\ worker = "done"
    /\ tools' = [tools EXCEPT !.worker_busy = FALSE]
    /\ idle' = (idle \/ tools.worker_busy)
    /\ worker' = "waiting"
    /\ UNCHANGED <<app, work_available, evidence, session, rpc, closer,
                   sample, results>>

worker_done ==
    /\ worker = "done"
    /\ tools' = [tools EXCEPT !.worker_busy = FALSE]
    /\ idle' = TRUE
    /\ worker' = "waiting"
    /\ UNCHANGED <<app, work_available, evidence, session, rpc, closer,
                   sample, results>>

------------------------------------------------------------------------------
Init ==
    /\ tools = [active |-> FALSE, cancelled |-> FALSE, run_id |-> NoRun,
                command_run |-> NoRun, work_pending |-> FALSE,
                worker_busy |-> FALSE, event_sequence |-> 0]
    /\ app = [run |-> NoAppRun, subscriber |-> NoSession]
    /\ work_available = 0
    /\ idle = TRUE
    /\ worker = "waiting"
    /\ evidence = {}
    /\ session = [s \in Sessions |->
                     [state |-> "closed", subscribed |-> FALSE, run |-> NoRun]]
    /\ rpc = [pc |-> "free", session |-> NoSession, run |-> NoRun,
              cancel |-> FALSE]
    /\ closer = [pc |-> "free", session |-> NoSession, run |-> NoRun]
    /\ sample = FALSE
    /\ results = <<>>

WorkerStep ==
    \/ worker_acquire \/ worker_take \/ worker_no_result \/ worker_capture
    \/ worker_publish \/ worker_count \/ worker_derive \/ worker_done

HandlerStep ==
    \/ rpc_stop_wait \/ rpc_stop_finish
    \/ poison_tools_command \/ poison_tools_command_signal
    \/ poison_safe_sample_structured_command \/ poison_app_dispatch_cancel

CloserStep ==
    \/ rpc_system_poison_tools_free
    \/ free_stop_wait \/ free_stop_finish \/ free_done

Request(s) ==
    \/ rpc_session_open(s)
    \/ rpc_system_poison_app_free(s)
    \/ rpc_poison_tool_run_stop(s)
    \/ \E r \in Runs :
           \/ rpc_poison_tool_run_start(s, r)
           \/ \E a \in {ToolsApp, SampleApp}, cancel \in BOOLEAN :
                  poison_app_dispatch_command(s, a, r, cancel)

Next == \/ WorkerStep \/ HandlerStep \/ CloserStep
        \/ \E s \in Sessions : Request(s)
        \/ poison_safe_sample_app \/ poison_safe_sample_end

Spec == Init /\ [][Next]_vars

\* The threads are preemptive and none waits for ever: every adapter has a
\* deadline, and the wait of a stop is bounded.
FairSpec == Spec /\ WF_vars(WorkerStep) /\ WF_vars(HandlerStep)
                 /\ WF_vars(CloserStep)

------------------------------------------------------------------------------
(* Properties *)

\* A queued command has exactly one wake-up on its way to the worker: the
\* release still to come, the semaphore, or the worker that has taken it. So
\* the release never meets a full semaphore (the furi_check of
\* poison_tools_command) and no wake-up is left for a later run.
OneWakeup ==
    LET coming == IF rpc.pc = "signal" THEN 1 ELSE 0
        taken == IF worker = "woken" THEN 1 ELSE 0 IN
    coming + work_available + taken = IF tools.work_pending THEN 1 ELSE 0

\* A run that was stopped is over: when no run is active the worker waits, no
\* command is queued or on its way, and no endpoint accepts an event of the
\* tools service. What a stop that answered OK, or a start, may rely on. The
\* safe sample's endpoint may be there.
StoppedIsQuiet ==
    ~tools.active =>
        /\ worker = "waiting" /\ idle /\ work_available = 0
        /\ rpc.pc # "signal"
        /\ ~tools.work_pending /\ ~tools.worker_busy
        /\ ~(app.run.active /\ app.run.app_id = ToolsApp)

\* The command that waits or executes was sent to the run that is active, not
\* to one that a stop and a start replaced while dispatch held no mutex.
CommandKeepsItsRun ==
    tools.work_pending \/ tools.worker_busy =>
        tools.active /\ tools.command_run = tools.run_id

\* A run that was not cancelled has its endpoint, and the endpoint expects the
\* number of its next event, whatever the safe sample registers, unregisters
\* and is sent, and whatever a cancel that comes late hits. Otherwise every
\* later result of the run would be refused after its evidence was stored.
SequencesAgree ==
    tools.active /\ ~tools.cancelled =>
        poison_app_accept_event(ToolsApp, tools.run_id,
            tools.event_sequence + IF worker = "published" THEN 1 ELSE 0)

\* A result a client saw names evidence that is stored, and no two results
\* ever name the same, even when a client reuses the id of an earlier run.
ResultsAreEvidence ==
    /\ \A k \in 1 .. Len(results) : results[k] \in evidence
    /\ \A j, k \in 1 .. Len(results) : results[j] = results[k] => j = k

\* An open session that believes it has a run has the one that is active, and
\* no other open session has it: its stop can always be asked for.
OwnerHasTheRun ==
    LET owners == {s \in Sessions : session[s].state = "open"
                                     /\ session[s].run # NoRun} IN
    /\ \A s \in owners : tools.active /\ tools.run_id = session[s].run
    /\ \A s, t \in owners : s = t

\* The service becomes idle again: work that was queued ends, a cancelled run
\* comes to rest, and so a stop repeated after a timeout can succeed.
BecomesIdle == ~idle ~> idle
==============================================================================
