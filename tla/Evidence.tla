------------------------------ MODULE Evidence ------------------------------
(***************************************************************************)
(* Evidence on the card: poison_evidence.c.                               *)
(*                                                                         *)
(* Threads capture concurrently: the request handlers, the tool worker, a *)
(* script. The digest is computed first, without the service's mutex; the *)
(* object and then the record are promoted under it. The storage API has  *)
(* no rename: storage_common_rename copies and then removes, so a         *)
(* promotion is two steps with a torn final file between them, which any  *)
(* reader sees and a power cut or a failed copy leaves for ever. Nor does *)
(* storage_common_copy look at the count that stream_copy_full returns: on *)
(* a card that fills up FatFs writes less without an error, and the rename *)
(* of a file that was cut short is answered FSE_OK.                       *)
(*                                                                         *)
(* A content stands for its bytes, its length and its digest; a digest    *)
(* names one content. Temporary files are rewritten from the start by the *)
(* next capture and left out.                                             *)
(***************************************************************************)
EXTENDS Integers, FiniteSets

CONSTANTS
    Threads,
    Ids,            \* evidence ids
    Contents,
    Absent, Torn,   \* a file that is not there, and one that is incomplete
    NoThread, NoId,
    MaxRecords,     \* POISON_EVIDENCE_MAX_RECORDS
    MaxCuts         \* bound on the power cuts

ASSUME EvidenceAssumption ==
    /\ Absent # Torn
    /\ Absent \notin Contents /\ Torn \notin Contents
    /\ NoThread \notin Threads
    /\ NoId \notin Ids
    /\ MaxRecords \in Nat /\ MaxCuts \in Nat

VARIABLES
    object,         \* /ext/evidence/objects: the bytes under each digest
    record,         \* /ext/evidence/records: the digest each record names
    source,         \* the file that capture_file_global reads
    short_objects,  \* history: the objects, and the records, whose copy was
    short_records,  \* cut short by a full card and reported as complete
    store,          \* PoisonEvidenceStore: the ids captured since boot
    mutex,          \* the thread that holds the service's mutex
    task,           \* the capture every thread is at
    cuts

short == <<short_objects, short_records>>

vars == <<object, record, source, short, store, mutex, task, cuts>>

NoTask == [pc |-> "none", id |-> NoId, content |-> Absent, file |-> FALSE,
           bytes |-> Absent]

------------------------------------------------------------------------------
(* The capture, up to the mutex *)

\* poison_evidence_capture on a buffer; nothing can change its bytes.
poison_evidence_capture_global(t, id, c) ==
    /\ task[t].pc = "none"
    /\ task' = [task EXCEPT ![t] = [pc |-> "hashed", id |-> id, content |-> c,
                                    file |-> FALSE, bytes |-> c]]
    /\ UNCHANGED <<object, record, source, short, store, mutex, cuts>>

\* poison_evidence_begin, append and commit over the source, which has the
\* digest the caller gave or the capture ends here.
poison_evidence_capture_file_global(t, id) ==
    /\ task[t].pc = "none"
    /\ task' = [task EXCEPT ![t] = [pc |-> "hashed", id |-> id,
                                    content |-> source, file |-> TRUE,
                                    bytes |-> Absent]]
    /\ UNCHANGED <<object, record, source, short, store, mutex, cuts>>

\* Another program writes the file that a capture reads.
WriteSource(c) ==
    /\ source' = c
    /\ UNCHANGED <<object, record, short, store, mutex, task, cuts>>

------------------------------------------------------------------------------
(* poison_evidence_persist and poison_evidence_persist_file, with the mutex *)

\* The capture is over, with or without a record.
Leave(t) ==
    /\ task' = [task EXCEPT ![t] = NoTask]
    /\ mutex' = NoThread

Go(t, pc) == task' = [task EXCEPT ![t].pc = pc] /\ UNCHANGED mutex

\* Mutant: the store is not asked whether it has room.
AcceptsWhenFull(id) == id \notin store

Accepts(id) == Cardinality(store) < MaxRecords /\ id \notin store

\* The mutex is taken and the RAM store asked.
capture_lock(t) ==
    /\ task[t].pc = "hashed"
    /\ mutex = NoThread
    /\ IF Accepts(task[t].id)
       THEN /\ mutex' = t
            /\ task' = [task EXCEPT ![t].pc = "locked"]
       ELSE Leave(t)
    /\ UNCHANGED <<object, record, source, short, store, cuts>>

\* poison_evidence_object_matches
ObjectMatches(c) == object[c] = c

\* An object that exists must match, and is kept.
object_exists(t) ==
    /\ task[t].pc = "locked"
    /\ object[task[t].content] # Absent
    /\ IF ObjectMatches(task[t].content) THEN Go(t, "object_done") ELSE Leave(t)
    /\ UNCHANGED <<object, record, source, short, store, cuts>>

\* A missing one is staged: the buffer, or what the source holds by now.
\* Staging may fail.
stage_object(t) ==
    /\ task[t].pc = "locked"
    /\ object[task[t].content] = Absent
    /\ \/ /\ task' = [task EXCEPT ![t].pc = "staged",
                         ![t].bytes = IF task[t].file THEN source ELSE @]
          /\ UNCHANGED mutex
       \/ Leave(t)
    /\ UNCHANGED <<object, record, source, short, store, cuts>>

\* Mutant: the temporary object is not hashed again.
StagedAnyway(k) == TRUE

\* poison_evidence_copy_object hashes the temporary object before it promotes
\* it; a buffer cannot differ.
StagedMatches(k) == k.bytes = k.content

\* storage_common_rename has created the object.
rename_object(t) ==
    /\ task[t].pc = "staged"
    /\ IF StagedMatches(task[t])
       THEN /\ object' = [object EXCEPT ![task[t].content] = Torn]
            /\ Go(t, "object")
       ELSE Leave(t) /\ UNCHANGED object
    /\ UNCHANGED <<record, source, short, store, cuts>>

\* The copy ends, and the temporary file is removed; or that fails, and the
\* object is complete but the capture has failed; or the copy fails and stays
\* torn; or it is cut short and stays torn, and the capture goes on.
renamed_object(t) ==
    /\ task[t].pc = "object"
    /\ \/ /\ object' = [object EXCEPT ![task[t].content] = task[t].bytes]
          /\ Go(t, "object_done") \/ Leave(t)
          /\ UNCHANGED short
       \/ Leave(t) /\ UNCHANGED <<object, short>>
       \/ /\ short_objects' = short_objects \cup {task[t].content}
          /\ Go(t, "object_done")
          /\ UNCHANGED <<object, short_records>>
    /\ UNCHANGED <<record, source, store, cuts>>

\* Mutant: a record that exists is replaced.
write_record_over(t) ==
    /\ task[t].pc = "object_done"
    /\ \/ /\ record' = [record EXCEPT ![task[t].id] = Torn]
          /\ Go(t, "record")
       \/ Leave(t) /\ UNCHANGED record
    /\ UNCHANGED <<object, source, short, store, cuts>>

\* poison_evidence_write_atomic of the record up to the rename.
write_record(t) ==
    /\ task[t].pc = "object_done"
    /\ \/ /\ record[task[t].id] = Absent
          /\ record' = [record EXCEPT ![task[t].id] = Torn]
          /\ Go(t, "record")
       \/ Leave(t) /\ UNCHANGED record
    /\ UNCHANGED <<object, source, short, store, cuts>>

\* The same four ends; a record that is complete, or whose copy was cut short,
\* reaches the store.
renamed_record(t) ==
    /\ task[t].pc = "record"
    /\ \/ /\ record' = [record EXCEPT ![task[t].id] = task[t].content]
          /\ store' \in {store, store \cup {task[t].id}}
          /\ UNCHANGED short
       \/ UNCHANGED <<record, short, store>>
       \/ /\ short_records' = short_records \cup {task[t].id}
          /\ store' = store \cup {task[t].id}
          /\ UNCHANGED <<record, short_objects>>
    /\ Leave(t)
    /\ UNCHANGED <<object, source, cuts>>

------------------------------------------------------------------------------
\* RAM goes; poison_evidence_on_system_start begins with an empty store and
\* looks at no file.
poison_evidence_on_system_start ==
    /\ cuts < MaxCuts
    /\ cuts' = cuts + 1
    /\ store' = {}
    /\ mutex' = NoThread
    /\ task' = [t \in Threads |-> NoTask]
    /\ UNCHANGED <<object, record, source, short>>

Init ==
    /\ object = [c \in Contents |-> Absent]
    /\ record = [id \in Ids |-> Absent]
    /\ source \in Contents
    /\ short_objects = {} /\ short_records = {}
    /\ store = {}
    /\ mutex = NoThread
    /\ task = [t \in Threads |-> NoTask]
    /\ cuts = 0

Capture(t) ==
    \/ \E id \in Ids :
           \/ poison_evidence_capture_file_global(t, id)
           \/ \E c \in Contents : poison_evidence_capture_global(t, id, c)
    \/ capture_lock(t)
    \/ object_exists(t) \/ stage_object(t)
    \/ rename_object(t) \/ renamed_object(t)
    \/ write_record(t) \/ renamed_record(t)

Next ==
    \/ \E t \in Threads : Capture(t)
    \/ \E c \in Contents : WriteSource(c)
    \/ poison_evidence_on_system_start

Spec == Init /\ [][Next]_vars

------------------------------------------------------------------------------
(* Properties *)

Files == Contents \cup {Absent, Torn}

Steps == {"none", "hashed", "locked", "staged", "object", "object_done",
          "record"}

\* The files hold contents, and the RAM store never has more than its room.
TypeOK ==
    /\ object \in [Contents -> Files]
    /\ record \in [Ids -> Files]
    /\ source \in Contents
    /\ short_objects \subseteq Contents /\ short_records \subseteq Ids
    /\ store \subseteq Ids /\ Cardinality(store) <= MaxRecords
    /\ mutex \in Threads \cup {NoThread}
    /\ task \in [Threads -> [pc : Steps, id : Ids \cup {NoId},
                             content : Contents \cup {Absent},
                             file : BOOLEAN,
                             bytes : Contents \cup {Absent}]]
    /\ cuts \in Nat

\* What the RAM store knows, which is what a client was told, has a complete
\* record on the card, and every complete record names an object that is
\* complete and has the digest of its name: whatever was cut or failed, and
\* whatever happened to the source between the two readings of
\* capture_file_global. The exceptions are exactly the files that a full card
\* cut short while they were promoted, which are torn and known to nobody.
CapturedIsWhole ==
    /\ \A id \in store \ short_records : record[id] \in Contents
    /\ \A id \in Ids : record[id] \in Contents \ short_objects =>
                           object[record[id]] = record[id]

\* What a reader sees of the card: the objects and the records that are whole.
Archive == INSTANCE EvidenceArchive WITH
    Nothing <- Absent,
    kept <- {c \in Contents : object[c] = c},
    lost <- short_objects,
    names <- [id \in Ids |-> IF record[id] \in Contents THEN record[id]
                                                        ELSE Absent]

\* The captures implement that archive: what is complete on the card, under a
\* digest or an id, is never replaced, torn or lost again, a record becomes
\* complete only over an object that is complete or was cut short while it was
\* promoted, and an object that was cut short never becomes complete, whatever
\* captures, failures and restarts come between the steps.
KeepsArchive == Archive!Spec
==============================================================================
