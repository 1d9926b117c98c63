------------------------------- MODULE Exports -------------------------------
(***************************************************************************)
(* Export manifests: rpc_poison_export_manifest_process and what it calls *)
(* in rpc_poison_evidence.c.                                              *)
(*                                                                         *)
(* A client sends the sorted evidence ids in numbered batches; a reply    *)
(* may be lost and the batch sent again. The state of an export belongs   *)
(* to the session, but its temporary file is named by the export id: two  *)
(* sessions that export one id write one file. A request runs under       *)
(* busy_mutex, so it is one step; a session may end at any time between   *)
(* two requests and the power at any time at all.                         *)
(*                                                                         *)
(* An evidence id is a number, as strcmp orders it. A hash stands for the *)
(* sequence of ids that went into it.                                     *)
(***************************************************************************)
EXTENDS Integers, Sequences, FiniteSets, SequencesExt

CONSTANTS
    Sessions,
    ExportIds,
    Ids,            \* evidence ids
    MaxBatch,       \* POISON_EXPORT_BATCH_MAX
    MaxEvidence,    \* POISON_EXPORT_EVIDENCE_MAX
    NoExport,       \* the empty export_id
    Absent, Torn,   \* a file that is not there, and one that is incomplete
    MaxCuts         \* bound on the power cuts

ASSUME ExportsAssumption ==
    /\ Ids \subseteq Nat
    /\ MaxBatch \in Nat \ {0} /\ MaxEvidence \in Nat /\ MaxCuts \in Nat
    /\ NoExport \notin ExportIds
    /\ Absent # Torn
    /\ Absent \notin [header : BOOLEAN, ids : Seq(Ids)]
    /\ {Absent, Torn} \cap
           [header : BOOLEAN, ids : Seq(Ids), hash : Seq(Ids)] = {}

VARIABLES
    records,        \* the evidence ids that have a record file
    temp,           \* /ext/evidence/.tmp/<id>.export
    final,          \* /ext/evidence/exports/<id>.pmanifest
    ex,             \* RpcPoisonEvidence of every session
    shared,         \* history: export ids that two sessions had open at once
    short,          \* history: those whose manifest a full card cut short since
                    \* the last power cut, in a rename answered FSE_OK
    cuts

vars == <<records, temp, final, ex, shared, short, cuts>>

NoBatch == [index |-> 0, finalize |-> FALSE, ids |-> <<>>]

Fresh == [active |-> FALSE, completed |-> FALSE, export_id |-> NoExport,
          next_batch |-> 0, hash |-> <<>>, last |-> NoBatch]

Batches == [index : 0 .. MaxEvidence, finalize : BOOLEAN,
            ids : SeqOf(Ids, MaxBatch) \ {<<>>}]

------------------------------------------------------------------------------
(* Files. A temporary file has its header or, when it was removed under an
   append, only what was appended since. *)

Header == [header |-> TRUE, ids |-> <<>>]

Appended(f, ids) == IF f = Absent THEN [header |-> FALSE, ids |-> ids]
                                  ELSE [f EXCEPT !.ids = @ \o ids]

Manifest(f, hash) == [header |-> f.header, ids |-> f.ids, hash |-> hash]

------------------------------------------------------------------------------
(* The request *)

\* rpc_poison_evidence_export_reset. What it leaves in memory of the last
\* batch is not looked at before the next export begins.
ResetFile(e, t) == IF e.active THEN [t EXCEPT ![e.export_id] = Absent] ELSE t

ExactRetry(e, x, b) ==
    /\ e.active \/ e.completed
    /\ e.export_id = x
    /\ e.last = b

\* Mutant: an export id that was used may be used again.
CanBeginAgain(x) == TRUE

CanBegin(x) == final[x] = Absent

\* rpc_poison_export_begin
Begun(x) == [Fresh EXCEPT !.active = TRUE, !.export_id = x]

Continues(e, x, b) == e.active /\ e.export_id = x /\ b.index = e.next_batch

\* Every id has a record and is greater than the one before it.
Sorted(e, ids) ==
    /\ \A i \in 1 .. Len(ids) : ids[i] \in records
    /\ \A i \in 2 .. Len(ids) : ids[i - 1] < ids[i]
    /\ e.hash # <<>> => Last(e.hash) < Head(ids)

\* Mutant: the limit is not kept.
AdmitsMore(e, b) == Sorted(e, b.ids)

Admits(e, b) == Len(e.hash) + Len(b.ids) <= MaxEvidence /\ Sorted(e, b.ids)

\* The session's state once a batch is in.
Counted(e, b) ==
    [e EXCEPT !.hash = @ \o b.ids, !.last = b, !.next_batch = @ + 1]

\* The request fails and what the session has open is dropped.
Refuse(s, e, t) ==
    /\ ex' = [ex EXCEPT ![s] = Fresh]
    /\ temp' = ResetFile(e, t)
    /\ UNCHANGED <<final, short>>

\* rpc_poison_export_append
AppendBatch(s, b, e, t) ==
    /\ ~b.finalize
    /\ ex' = [ex EXCEPT ![s] = Counted(e, b)]
    /\ temp' = [t EXCEPT ![e.export_id] = Appended(@, b.ids)]
    /\ UNCHANGED <<final, short>>

\* Mutant: the footer is renamed without the last batch's bytes.
FinalizeEarly(s, b, e, t) ==
    LET x == e.export_id IN
    /\ b.finalize
    /\ ex' = [ex EXCEPT ![s] = [Counted(e, b) EXCEPT !.active = FALSE,
                                                     !.completed = TRUE]]
    /\ temp' = [t EXCEPT ![x] = Absent]
    /\ final' = [final EXCEPT ![x] = Manifest(t[x], Counted(e, b).hash)]
    /\ UNCHANGED short

\* The manifest with the last batch and the footer.
Finished(b, e, t) ==
    Manifest(Appended(t[e.export_id], b.ids), Counted(e, b).hash)

\* rpc_poison_export_append and rpc_poison_export_finalize. The rename does
\* not look whether the manifest exists: it replaces it. Nor does it look how
\* much of the file storage_common_copy has copied.
Finalize(s, b, e, t) ==
    LET x == e.export_id IN
    /\ b.finalize
    /\ ex' = [ex EXCEPT ![s] = [Counted(e, b) EXCEPT !.active = FALSE,
                                                     !.completed = TRUE]]
    /\ temp' = [t EXCEPT ![x] = Absent]
    /\ \/ final' = [final EXCEPT ![x] = Finished(b, e, t)] /\ UNCHANGED short
       \/ /\ final' = [final EXCEPT ![x] = Torn]
          /\ short' = short \cup {x}

\* The copy of the rename fails, or the removal of the temporary file after a
\* copy that is complete.
FinalizeFails(s, b, e, t) ==
    /\ b.finalize
    /\ ex' = [ex EXCEPT ![s] = Fresh]
    /\ temp' = [t EXCEPT ![e.export_id] = Absent]
    /\ \E left \in {Torn, Finished(b, e, t)} :
           final' = [final EXCEPT ![e.export_id] = left]
    /\ UNCHANGED short

\* A batch for the open export e over the temporary files t; any write may
\* fail.
Batch(s, b, e, t) ==
    \/ Refuse(s, e, t)
    \/ /\ Admits(e, b)
       /\ \/ AppendBatch(s, b, e, t)
          \/ Finalize(s, b, e, t) \/ FinalizeFails(s, b, e, t)

Open(x) == {s \in Sessions : ex[s].active /\ ex[s].export_id = x}

\* The first batch drops what the session had open and begins.
FirstBatch(s, x, b) ==
    /\ b.index = 0 /\ CanBegin(x)
    /\ Batch(s, b, Begun(x), [ResetFile(ex[s], temp) EXCEPT ![x] = Header])
    /\ shared' = IF Open(x) \subseteq {s} THEN shared ELSE shared \cup {x}

\* A later batch, or one that cannot begin.
LaterBatch(s, x, b) ==
    /\ \/ /\ Continues(ex[s], x, b) /\ b.index # 0
          /\ Batch(s, b, ex[s], temp)
       \/ /\ IF b.index = 0 THEN ~CanBegin(x) ELSE ~Continues(ex[s], x, b)
          /\ ex[s].completed => b.index = 0
          /\ Refuse(s, ex[s], temp)
    /\ UNCHANGED shared

rpc_poison_export_manifest_process(s, x, b) ==
    /\ ~ExactRetry(ex[s], x, b)
    /\ FirstBatch(s, x, b) \/ LaterBatch(s, x, b)
    /\ UNCHANGED <<records, cuts>>

------------------------------------------------------------------------------
\* rpc_system_poison_evidence_free; another session may follow.
rpc_system_poison_evidence_free(s) ==
    /\ ex' = [ex EXCEPT ![s] = Fresh]
    /\ temp' = ResetFile(ex[s], temp)
    /\ UNCHANGED <<records, final, shared, short, cuts>>

\* A tool, a script or a request captures evidence.
Capture(id) ==
    /\ records' = records \cup {id}
    /\ UNCHANGED <<temp, final, ex, shared, short, cuts>>

\* The exports that the request under way may be renaming: one that is open,
\* or one that begins and ends with a single batch.
Finishing ==
    {x \in ExportIds : Open(x) # {} \/ (CanBegin(x) /\ records # {})}

\* The sessions go; a manifest that was being renamed stays torn.
PowerCut ==
    /\ cuts < MaxCuts
    /\ cuts' = cuts + 1
    /\ ex' = [s \in Sessions |-> Fresh]
    /\ final' \in {final} \cup {[final EXCEPT ![x] = Torn] : x \in Finishing}
    /\ shared' = {x \in shared : final'[x] # Absent}
    /\ short' = {}
    /\ UNCHANGED <<records, temp>>

Init ==
    /\ records = {}
    /\ temp = [x \in ExportIds |-> Absent]
    /\ final = [x \in ExportIds |-> Absent]
    /\ ex = [s \in Sessions |-> Fresh]
    /\ shared = {} /\ short = {}
    /\ cuts = 0

Next ==
    \/ \E s \in Sessions :
           \/ \E x \in ExportIds, b \in Batches :
                  rpc_poison_export_manifest_process(s, x, b)
           \/ rpc_system_poison_evidence_free(s)
    \/ \E id \in Ids : Capture(id)
    \/ PowerCut

Spec == Init /\ [][Next]_vars

------------------------------------------------------------------------------
(* Properties *)

Written(x) == final[x] # Absent /\ final[x] # Torn

\* What a session counts and hashes stays within the limits of an export.
TypeOK ==
    /\ records \subseteq Ids
    /\ \A x \in ExportIds :
           /\ temp[x] # Absent => temp[x].ids \in Seq(Ids)
           /\ Written(x) => final[x].ids \in Seq(Ids)
    /\ \A s \in Sessions :
           /\ ex[s].export_id \in ExportIds \cup {NoExport}
           /\ ex[s].active \/ ex[s].completed => ex[s].export_id \in ExportIds
           /\ Len(ex[s].hash) <= MaxEvidence
           /\ ex[s].next_batch <= Len(ex[s].hash)

\* A manifest that is in place is the one its digest was computed over: the
\* header, and exactly the ids the client's batches named, once each and in
\* order, over batches sent twice, sessions that ended and exports that were
\* begun again - unless two sessions wrote it at once.
ManifestIsWhatWasHashed ==
    \A x \in ExportIds : Written(x) /\ x \notin shared =>
        /\ final[x].header
        /\ final[x].ids = final[x].hash
        /\ \A i \in 2 .. Len(final[x].ids) :
               final[x].ids[i - 1] < final[x].ids[i]
        /\ ToSet(final[x].ids) \subseteq records

\* A session whose finalize may still be retried answers with the digest of
\* the manifest that is in place - unless two sessions wrote it at once, or the
\* rename cut it short and the first answer was wrong already.
RetriedDigestIsCurrent ==
    \A s \in Sessions :
        ex[s].completed /\ ex[s].export_id \notin shared \cup short =>
            /\ Written(ex[s].export_id)
            /\ final[ex[s].export_id].hash = ex[s].hash
==============================================================================
