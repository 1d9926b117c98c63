------------------------------ MODULE Workload ------------------------------
(***************************************************************************)
(* Managed JavaScript workloads: the two records of poison_workload.c, the *)
(* request handler rpc_poison_workload.c, the adapter                     *)
(* poison_workload_js_adapter.c and the script thread of js_thread.c.     *)
(*                                                                         *)
(* Three kinds of thread meet here. Handlers run one at a time, under     *)
(* rpc's busy_mutex. Sessions are freed by the timer thread, one at a     *)
(* time and without that mutex. Every script has a thread of its own,     *)
(* whose events reach the record its adapter lives in. A record's mutex   *)
(* is kept across steps only where a handler joins a script under it      *)
(* (Locked); everything else done under it is part of one step.           *)
(*                                                                         *)
(* A stop joins the script and frees its thread. Two stops of one thread  *)
(* use freed memory: the device faults and restarts.                      *)
(***************************************************************************)
EXTENDS Integers, FiniteSets, FiniteSetsExt

CONSTANTS
    Sessions,
    NamesOf,        \* the names a session asks for: its authenticated actor
                    \* with workload ids; sessions of one actor may share them
    NoName,         \* what is left of it when memset clears the id
    Records,        \* POISON_MANAGED_WORKLOAD_MAX_RECORDS of them, from 1 on
    Threads         \* bound: script threads that exist at once

Names == UNION {NamesOf[s] : s \in Sessions}

ASSUME WorkloadAssumption ==
    /\ IsFiniteSet(Sessions)
    /\ DOMAIN NamesOf = Sessions
    /\ Records \subseteq Nat \ {0}
    /\ Threads \subseteq Nat \ {0}
    /\ NoName \notin Names

None == 0           \* no record, no thread

VARIABLES
    rec,            \* the records
    thread,         \* the script threads
    managed,        \* the record each session is attached to
    asked,          \* history: the name it attached for
    rpc,            \* the handler under way
    timer           \* the session being freed

vars == <<rec, thread, managed, asked, rpc, timer>>

Active == {"Running", "Cancelling"}
TerminalStates == {"Completed", "Failed", "Cancelled", "Crashed", "Disconnected"}
States == {"Queued"} \cup Active \cup TerminalStates

Idle == [pc |-> "idle", session |-> None, thread |-> None]

Absent == [occupied |-> FALSE, attachments |-> 0, name |-> NoName,
           project |-> FALSE, state |-> "Queued", thread |-> None,
           bound |-> FALSE]

\* The memset of poison_managed_workload_clear and the identity written next.
Cleared(name) == [Absent EXCEPT !.occupied = TRUE, !.name = name]

NoThread == [phase |-> "free", record |-> None, stop |-> FALSE, mine |-> FALSE]

Init ==
    /\ rec = [r \in Records |-> Absent]
    /\ thread = [t \in Threads |-> NoThread]
    /\ managed = [s \in Sessions |-> None]
    /\ asked = [s \in Sessions |-> NoName]
    /\ rpc = Idle
    /\ timer = Idle

------------------------------------------------------------------------------
(* poison_workload.c: the life of one workload *)

force_terminate(state, verdict) == IF state \in Active THEN verdict ELSE state

finish(state, verdict) == IF state \in Active THEN verdict ELSE state

\* append_console of a text past the limit.
overflow(state) == IF state \in TerminalStates THEN state ELSE "Failed"

------------------------------------------------------------------------------
(* poison_managed_workload_attach and _detach, rpc_poison_workload_bind *)

Matches(r, name) == r # None /\ rec[r].occupied /\ rec[r].name = name

\* Mutant: a terminal record may be taken from the session that watches it.
ReplaceableIfTerminal(r) ==
    \/ ~rec[r].occupied
    \/ rec[r].attachments = 0 /\ ~rec[r].project
    \/ rec[r].state \in TerminalStates

Replaceable(r) ==
    \/ ~rec[r].occupied
    \/ /\ rec[r].attachments = 0
       /\ ~rec[r].project \/ rec[r].state \in TerminalStates

Selected(name, create) ==
    LET matching == {r \in Records : Matches(r, name)}
        free == {r \in Records : create /\ Replaceable(r)} IN
    IF matching # {} THEN Min(matching)
    ELSE IF free # {} THEN Min(free) ELSE None

Attached(r, name) ==
    LET taken == IF Matches(r, name) THEN rec[r] ELSE Cleared(name) IN
    [rec EXCEPT ![r] = [taken EXCEPT !.attachments = @ + 1]]

Detached(table, r) ==
    IF r = None THEN table ELSE [table EXCEPT ![r].attachments = @ - 1]

\* The threads once record r belongs to another workload.
Disowned(r) ==
    [t \in Threads |->
        IF thread[t].record = r THEN [thread[t] EXCEPT !.mine = FALSE]
        ELSE IF rec[r].thread = t /\ thread[t].phase = "ended" THEN NoThread
        ELSE thread[t]]

Stays(s, name) == Matches(managed[s], name)

CanBind(s, name, create) ==
    \/ Stays(s, name)
    \/ /\ managed[s] # None => rec[managed[s]].state \in TerminalStates
       /\ Selected(name, create) # None

\* The record a request is about, and the table and the threads after bind.
Target(s, name, create) ==
    IF Stays(s, name) THEN managed[s] ELSE Selected(name, create)

Bound(s, name, create) ==
    LET r == Target(s, name, create) IN
    IF Stays(s, name) THEN rec
    ELSE Detached(Attached(r, name), managed[s])

BoundThreads(s, name, create) ==
    LET r == Target(s, name, create) IN
    IF Matches(r, name) THEN thread ELSE Disowned(r)

\* Common to the requests: authorised, valid, under busy_mutex, and bound.
Request(s, name, create) ==
    /\ rpc = Idle
    /\ timer.session # s
    /\ CanBind(s, name, create)
    /\ managed' = [managed EXCEPT ![s] = Target(s, name, create)]
    /\ asked' = [asked EXCEPT ![s] = name]
    /\ UNCHANGED timer

\* Mutant: CANCEL keeps the record's mutex.
LockedByCancel(r) ==
    rpc.pc \in {"create", "join"} /\ managed[rpc.session] = r

Locked(r) == rpc.pc = "create" /\ managed[rpc.session] = r

------------------------------------------------------------------------------
(* The script's thread *)

\* A thread that ended. One that no adapter points at any more is lost: it is
\* never joined, and its place in the model is used again.
Ended(t) ==
    IF \E r \in Records : rec[r].thread = t
    THEN [NoThread EXCEPT !.phase = "ended"]
    ELSE NoThread

Spares == {t \in Threads : thread[t].phase = "free"}

\* poison_workload_js_event: what the event leaves of the record's state. An
\* adapter without a workload returns at once; an error is appended to the
\* console first, which may be full.
Heard(r) == rec[r].bound

Judged(r, state) ==
    rec' = [rec EXCEPT ![r].state = IF Heard(r) THEN state ELSE @]

\* Mutant: the adapter does not ask whether the workload is being cancelled.
VerdictsAnyway(r, event) ==
    LET state == rec[r].state IN
    CASE event = "limit" -> {force_terminate(state, "Failed")}
      [] event = "error" -> {finish(state, "Crashed"),
                             finish(overflow(state), "Crashed")}
      [] event = "done" -> {finish(state, "Completed")}
      [] OTHER -> {state}

Verdicts(r, event) ==
    LET state == rec[r].state IN
    CASE state = "Cancelling" -> {state}
      [] state # "Cancelling" /\ event = "limit" ->
             {force_terminate(state, "Failed")}
      [] state # "Cancelling" /\ event = "error" ->
             {finish(state, "Crashed"), finish(overflow(state), "Crashed")}
      [] state # "Cancelling" /\ event = "done" -> {finish(state, "Completed")}
      [] OTHER -> {state}

\* print. One that fits changes nothing here.
js_print(t) ==
    LET r == thread[t].record IN
    /\ thread[t].phase = "running"
    /\ Heard(r) => ~Locked(r)
    /\ Judged(r, overflow(rec[r].state))
    /\ UNCHANGED <<thread, managed, asked, rpc, timer>>

\* The last event of js_thread: Done, a limit, an error (whose stack trace is
\* a second event), or none at all when the interpreter cannot be allocated.
js_thread(t, event) ==
    LET r == thread[t].record IN
    /\ thread[t].phase = IF event = "trace" THEN "trace" ELSE "running"
    /\ event # "none" /\ Heard(r) => ~Locked(r)
    /\ \E state \in Verdicts(r, IF event = "trace" THEN "error" ELSE event) :
           Judged(r, state)
    /\ \E last \in {TRUE, event # "error"} :
           thread' = [thread EXCEPT ![t] =
                          IF last THEN Ended(t) ELSE [@ EXCEPT !.phase = "trace"]]
    /\ UNCHANGED <<managed, asked, rpc, timer>>

Events == {"done", "limit", "error", "trace", "none"}

\* js_thread_stop: the flag, then the join and the free (Joined).
Stopped(threads, t) == [threads EXCEPT ![t].stop = TRUE]

Joined(t) == thread[t].phase = "ended"

Freed(t) == [thread EXCEPT ![t] = NoThread]

------------------------------------------------------------------------------
(* CREATE *)

\* What create writes: the new workload, or, when its entrypoint or project
\* does not verify, the zeroes that are left of the terminal one before it.
Created(c, name, verified) ==
    IF verified THEN [c EXCEPT !.project = TRUE, !.name = name, !.state = "Queued"]
    ELSE IF c.project THEN [c EXCEPT !.project = FALSE, !.name = NoName,
                                     !.state = "Queued"]
    ELSE c

Unadapted(c) == [c EXCEPT !.thread = None, !.bound = FALSE]

\* A live workload is left alone, whether the request is an exact retry or
\* not. A terminal one is cleaned up, which joins its script if there is one.
rpc_poison_workload_create(s, name) ==
    LET r == Target(s, name, TRUE)
        table == Bound(s, name, TRUE)
        c == table[r]
        bound == BoundThreads(s, name, TRUE) IN
    /\ Request(s, name, TRUE)
    /\ CASE c.project /\ c.state \notin TerminalStates ->
              rec' = table /\ thread' = bound /\ rpc' = Idle
         [] c.project /\ c.state \in TerminalStates /\ c.thread # None ->
              /\ rec' = table
              /\ thread' = Stopped(bound, c.thread)
              /\ rpc' = [pc |-> "create", session |-> s, thread |-> c.thread]
         [] OTHER ->
              /\ \E verified \in BOOLEAN :
                     rec' = [table EXCEPT
                                 ![r] = Created(Unadapted(c), name, verified)]
              /\ thread' = Disowned(r)
              /\ rpc' = Idle

\* The same request once the script is joined. The name is the record's own:
\* a record with a project is only reached by a match.
create_joined ==
    LET r == managed[rpc.session] IN
    /\ rpc.pc = "create"
    /\ Joined(rpc.thread) /\ timer.thread # rpc.thread
    /\ \E verified \in BOOLEAN :
           rec' = [rec EXCEPT ![r] = Created(Unadapted(@), @.name, verified)]
    /\ thread' = Disowned(r)
    /\ rpc' = Idle
    /\ UNCHANGED <<managed, asked, timer>>

------------------------------------------------------------------------------
(* CANCEL *)

\* Mutant: the verdict is written before the script is joined.
js_cancel_early(s, table, threads, r) ==
    IF table[r].state = "Running" /\ table[r].thread # None /\ table[r].bound
    THEN /\ rec' = [table EXCEPT ![r].state = "Cancelled"]
         /\ thread' = Stopped(threads, table[r].thread)
         /\ rpc' = [pc |-> "join", session |-> s, thread |-> table[r].thread]
    ELSE rec' = table /\ thread' = threads /\ rpc' = Idle

\* cancel_active and poison_workload_js_cancel up to the join. Only a Running
\* workload is asked to cancel; a Cancelling one is refused.
poison_workload_js_cancel(s, table, threads, r) ==
    IF table[r].state = "Running" /\ table[r].thread # None /\ table[r].bound
    THEN /\ rec' = [table EXCEPT ![r].state = "Cancelling"]
         /\ thread' = Stopped(threads, table[r].thread)
         /\ rpc' = [pc |-> "join", session |-> s, thread |-> table[r].thread]
    ELSE rec' = table /\ thread' = threads /\ rpc' = Idle

\* The handler gives the record's mutex back before it cancels. A cancel by
\* command id calls cancel_active the same way.
rpc_poison_workload_cancel(s, name) ==
    /\ Request(s, name, FALSE)
    /\ poison_workload_js_cancel(s, Bound(s, name, FALSE), thread,
                                 Target(s, name, FALSE))

js_cancel_joined ==
    LET r == managed[rpc.session] IN
    /\ rpc.pc = "join"
    /\ Joined(rpc.thread) /\ timer.thread # rpc.thread
    /\ rec' = [rec EXCEPT ![r].thread = None,
                          ![r].state = force_terminate(@, "Cancelled")]
    /\ thread' = Freed(rpc.thread)
    /\ rpc' = Idle
    /\ UNCHANGED <<managed, asked, timer>>

------------------------------------------------------------------------------
(* RUN, and the requests that only bind *)

Started(r) == [phase |-> "running", record |-> r, stop |-> FALSE, mine |-> TRUE]

\* The script starts, or its thread cannot be allocated and the workload is
\* Crashed. A run that cannot be registered as cancellable is cancelled.
rpc_poison_workload_run(s, name) ==
    LET r == Target(s, name, FALSE)
        table == Bound(s, name, FALSE) IN
    /\ Request(s, name, FALSE)
    /\ table[r].project /\ table[r].state = "Queued"
    /\ \/ /\ rec' = [table EXCEPT ![r].state = "Crashed"]
          /\ rpc' = Idle
          /\ UNCHANGED thread
       \/ LET t == Min(Spares)
              running == [table EXCEPT ![r].state = "Running", ![r].thread = t,
                                       ![r].bound = TRUE]
              started == [thread EXCEPT ![t] = Started(r)] IN
          /\ Spares # {}
          /\ \/ rec' = running /\ thread' = started /\ rpc' = Idle
             \/ poison_workload_js_cancel(s, running, started, r)

\* INSPECT, and a RUN the state refuses.
rpc_poison_workload_inspect(s, name) ==
    /\ Request(s, name, FALSE)
    /\ rec' = Bound(s, name, FALSE)
    /\ UNCHANGED <<thread, rpc>>

\* FINALIZE_ARTIFACT of a running workload that is past its artifact limit.
\* The artifacts themselves are left out.
rpc_poison_workload_finalize_artifact(s, name) ==
    LET r == Target(s, name, FALSE)
        table == Bound(s, name, FALSE) IN
    /\ Request(s, name, FALSE)
    /\ table[r].state = "Running"
    /\ rec' = [table EXCEPT ![r].state = force_terminate(@, "Failed")]
    /\ UNCHANGED <<thread, rpc>>

------------------------------------------------------------------------------
(* Sessions *)

\* The session's thread has ended, so no handler of it is under way. The
\* workload is terminated unless it is Queued, which force_terminate refuses.
rpc_system_poison_workload_free(s) ==
    LET r == managed[s] IN
    /\ timer = Idle
    /\ r # None /\ rpc.session # s
    /\ ~Locked(r)
    /\ rec' = [rec EXCEPT ![r].state = force_terminate(@, "Disconnected")]
    /\ timer' = [pc |-> "cleanup", session |-> s, thread |-> None]
    /\ UNCHANGED <<thread, managed, asked, rpc>>

\* The rest of free: the adapter is cleaned up, the session detached.
Left(r) == [Detached(rec, r) EXCEPT ![r] = Unadapted(@)]

free_detach ==
    LET s == timer.session IN
    /\ rec' = Left(managed[s])
    /\ managed' = [managed EXCEPT ![s] = None]
    /\ asked' = [asked EXCEPT ![s] = NoName]
    /\ timer' = Idle
    /\ UNCHANGED rpc

free_cleanup ==
    LET r == managed[timer.session] IN
    /\ timer.pc = "cleanup"
    /\ IF rec[r].thread = None
       THEN free_detach /\ UNCHANGED thread
       ELSE /\ thread' = Stopped(thread, rec[r].thread)
            /\ timer' = [timer EXCEPT !.pc = "join", !.thread = rec[r].thread]
            /\ UNCHANGED <<rec, managed, asked, rpc>>

free_joined ==
    /\ timer.pc = "join"
    /\ Joined(timer.thread) /\ rpc.thread # timer.thread
    /\ free_detach
    /\ thread' = Freed(timer.thread)

\* A handler and a free stop one thread: whichever comes second joins and
\* frees what the first has freed.
fault ==
    /\ rpc.thread # None /\ rpc.thread = timer.thread
    /\ Joined(rpc.thread)
    /\ rec' = [r \in Records |-> Absent]
    /\ thread' = [t \in Threads |-> NoThread]
    /\ asked' = [s \in Sessions |-> NoName]
    /\ managed' = [s \in Sessions |-> None]
    /\ rpc' = Idle
    /\ timer' = Idle

Next ==
    \/ \E s \in Sessions :
           \/ rpc_system_poison_workload_free(s)
           \/ \E name \in NamesOf[s] :
                  \/ rpc_poison_workload_create(s, name)
                  \/ rpc_poison_workload_run(s, name)
                  \/ rpc_poison_workload_inspect(s, name)
                  \/ rpc_poison_workload_finalize_artifact(s, name)
                  \/ rpc_poison_workload_cancel(s, name)
    \/ create_joined
    \/ js_cancel_joined
    \/ free_cleanup
    \/ free_joined
    \/ fault
    \/ \E t \in Threads : js_print(t) \/ \E e \in Events : js_thread(t, e)

Spec == Init /\ [][Next]_vars

\* A stopped script ends: the interpreter polls the flag, and a script's
\* thread and the handler's are scheduled.
Fairness ==
    /\ \A t \in Threads :
           WF_vars(thread[t].stop /\ \E e \in Events \ {"none"} : js_thread(t, e))
    /\ WF_vars(js_cancel_joined)
    /\ WF_vars(fault)

FairSpec == Spec /\ Fairness

------------------------------------------------------------------------------
(* Properties *)

\* Records are kept apart by their count of attachments alone: it is the
\* number of sessions that point at the record, and none of them ever finds
\* the workload of another actor or id in it, however records are replaced
\* and sessions freed.
AttachedIsOwned ==
    \A r \in Records :
        LET watching == {s \in Sessions : managed[s] = r} IN
        /\ rec[r].attachments = Cardinality(watching)
        /\ \A s \in watching : /\ rec[r].occupied
                              /\ rec[r].name \in {asked[s], NoName}

\* A workload reported Cancelled has no script left: js_cancel joins it first.
CancelledIsStopped ==
    \A t \in Threads :
        thread[t].phase \in {"running", "trace"} /\ thread[t].mine =>
            rec[thread[t].record].state # "Cancelled"

\* One verdict for each use of a record. A terminal state stands, although the
\* script that was failed for its output goes on and reports its own end
\* later; and a cancellation is never overtaken by the script's own end: a
\* Cancelling workload does not become Completed or Crashed
\* (poison_workload_finish would accept it; the adapter must not call it).
VerdictStands ==
    [][\A r \in Records :
           /\ rec[r].state \in TerminalStates =>
                  rec'[r].state \in {rec[r].state, "Queued"}
           /\ rec[r].state = "Cancelling" /\ rec'[r].occupied =>
                  rec'[r].state \in {"Cancelling", "Cancelled", "Failed",
                                     "Disconnected"}]_vars

\* A CANCEL comes back, although it waits for a script that needs the
\* record's mutex for its last events.
CancelReturns == (rpc.pc = "join") ~> (rpc.pc # "join")

\* The claim of SPEC-1: a disconnect terminates the workload. Once no session
\* is attached to a workload, it is in a terminal state.
DisconnectTerminates ==
    \A r \in Records : rec[r].project /\ rec[r].attachments = 0 =>
        rec[r].state \in TerminalStates
==============================================================================
