--------------------------- MODULE EvidenceProofs ---------------------------
(***************************************************************************)
(* The captures of poison_evidence.c keep the archive, for every number   *)
(* of threads, ids, contents and power cuts. The argument is about the    *)
(* mutex: the thread that holds it is the only one past the digest, so    *)
(* what it has seen of the object, of the record and of the store is      *)
(* still so when it acts on it.                                           *)
(***************************************************************************)
EXTENDS Evidence, TLAPS, FiniteSetTheorems

USE DEF short

\* The steps taken with the mutex.
Holding == {"locked", "staged", "object", "object_done", "record"}

\* One thread at a time is between taking the mutex and leaving.
LockInv == \A t \in Threads : task[t].pc \in Holding => mutex = t

\* A capture knows what it captures.
TaskInv == \A t \in Threads : task[t].pc # "none" =>
               task[t].id \in Ids /\ task[t].content \in Contents

\* What the store answered under the mutex still holds.
StoreInv ==
    /\ IsFiniteSet(store)
    /\ \A t \in Threads : task[t].pc \in Holding =>
           task[t].id \notin store /\ Cardinality(store) < MaxRecords

\* The rename of an object was answered FSE_OK, whole or cut short.
Promoted(c) == object[c] = c \/ c \in short_objects

\* An object is missing until it is staged, torn while it is promoted with
\* the bytes of its digest, and whole before the record is written unless its
\* copy was cut short, which leaves it torn.
ObjectInv ==
    /\ \A c \in Contents : object[c] \in {Absent, Torn, c}
    /\ \A t \in Threads :
           /\ task[t].pc = "staged" => object[task[t].content] = Absent
           /\ task[t].pc = "object" =>
                  /\ object[task[t].content] = Torn
                  /\ task[t].bytes = task[t].content
                  /\ task[t].content \notin short_objects
           /\ task[t].pc \in {"object_done", "record"} =>
                  Promoted(task[t].content)
    /\ \A c \in short_objects : object[c] = Torn

\* A record is torn while it is promoted.
RecordInv == \A t \in Threads : task[t].pc = "record" =>
                 record[task[t].id] = Torn

Inv ==
    /\ TypeOK
    /\ LockInv
    /\ TaskInv
    /\ StoreInv
    /\ ObjectInv
    /\ RecordInv
    /\ CapturedIsWhole

TaskSet == [pc : Steps, id : Ids \cup {NoId}, content : Contents \cup {Absent},
            file : BOOLEAN, bytes : Contents \cup {Absent}]

\* A thread without a capture has the type of a task.
LEMMA NoTaskTyped == NoTask \in TaskSet
BY DEF NoTask, TaskSet, Steps

\* An empty store is in the invariant.
LEMMA InitHolds == Init => Inv
<1> SUFFICES ASSUME Init PROVE Inv
  OBVIOUS
<1>1. IsFiniteSet({}) /\ Cardinality({}) = 0
  BY FS_EmptySet
<1>2. TypeOK
  BY <1>1, NoTaskTyped, EvidenceAssumption DEF Init, TypeOK, TaskSet, Files
<1>3. \A t \in Threads : task[t].pc = "none"
  BY DEF Init, NoTask
<1>4. QED
  BY <1>1, <1>2, <1>3, EvidenceAssumption
     DEF Init, Inv, LockInv, TaskInv, StoreInv, ObjectInv, RecordInv,
         CapturedIsWhole, Holding, Promoted

------------------------------------------------------------------------------
(* The ways a step moves its thread *)

\* Leaving, with or without an effect on the files that the invariant allows.
LEMMA LeaveTask ==
    ASSUME TypeOK, NEW t \in Threads, Leave(t)
    PROVE  /\ task' \in [Threads -> TaskSet] /\ mutex' = NoThread
           /\ task'[t] = NoTask /\ task'[t].pc = "none"
           /\ \A u \in Threads \ {t} : task'[u] = task[u]
BY NoTaskTyped DEF TypeOK, TaskSet, Leave, NoTask

\* What moving one task on leaves of the others.
LEMMA GoTask ==
    ASSUME TypeOK, NEW t \in Threads, NEW pc \in Steps, Go(t, pc)
    PROVE  /\ task' \in [Threads -> TaskSet] /\ mutex' = mutex
           /\ task'[t].pc = pc /\ task'[t].id = task[t].id
           /\ task'[t].content = task[t].content /\ task'[t].bytes = task[t].bytes
           /\ \A u \in Threads \ {t} : task'[u] = task[u]
BY DEF TypeOK, TaskSet, Go

\* Nobody else is past the digest while a thread holds the mutex.
LEMMA Alone ==
    ASSUME LockInv, NEW t \in Threads, task[t].pc \in Holding
    PROVE  mutex = t /\ \A u \in Threads \ {t} : task[u].pc \notin Holding
BY DEF LockInv

------------------------------------------------------------------------------
(* Every step. Under the mutex only the thread that holds it matters. *)

\* A step of thread t after which the invariant of t is given again: the
\* others are where they were, and those past the digest are none.
LEMMA OnlyHolder ==
    ASSUME Inv, NEW t \in Threads,
           task[t].pc \in Holding \/ mutex = NoThread,
           task' \in [Threads -> TaskSet],
           \A u \in Threads \ {t} : task'[u] = task[u],
           task'[t].pc \in Holding => mutex' = t,
           mutex' \in Threads \cup {NoThread}
    PROVE  /\ LockInv'
           /\ \A u \in Threads : task'[u].pc \in Holding => u = t
<1>1. \A u \in Threads \ {t} : task[u].pc \notin Holding
  BY EvidenceAssumption DEF Inv, LockInv
<1>2. QED
  BY <1>1 DEF LockInv

\* The start of a capture keeps the invariant.
LEMMA CaptureHolds ==
    ASSUME Inv, NEW t \in Threads, NEW id \in Ids,
           \/ poison_evidence_capture_file_global(t, id)
           \/ \E c \in Contents : poison_evidence_capture_global(t, id, c)
    PROVE  Inv'
<1>1. PICK c \in Contents, f \in BOOLEAN, b \in Contents \cup {Absent} :
          task' = [task EXCEPT ![t] = [pc |-> "hashed", id |-> id, content |-> c,
                                       file |-> f, bytes |-> b]]
  BY DEF Inv, TypeOK, poison_evidence_capture_file_global,
         poison_evidence_capture_global
<1>2. UNCHANGED <<object, record, source, short, store, mutex, cuts>>
  BY DEF poison_evidence_capture_file_global, poison_evidence_capture_global
<1>3. [pc |-> "hashed", id |-> id, content |-> c, file |-> f, bytes |-> b] \in TaskSet
  BY DEF TaskSet, Steps
<1>4. /\ task' \in [Threads -> TaskSet]
      /\ task'[t].pc = "hashed" /\ task'[t].id = id /\ task'[t].content = c
      /\ \A u \in Threads \ {t} : task'[u] = task[u]
  BY <1>1, <1>3 DEF Inv, TypeOK, TaskSet
<1>5. TypeOK' /\ CapturedIsWhole'
  BY <1>2, <1>4 DEF Inv, TypeOK, TaskSet, CapturedIsWhole
<1>6. LockInv' /\ TaskInv'
  BY <1>2, <1>4 DEF Inv, LockInv, TaskInv, Holding
<1>7. \A u \in Threads : task'[u].pc \in Holding => u # t /\ task'[u] = task[u]
  BY <1>4 DEF Holding
<1>8. StoreInv' /\ ObjectInv' /\ RecordInv'
  BY <1>2, <1>7 DEF Inv, StoreInv, ObjectInv, RecordInv, Holding, Promoted
<1>9. QED
  BY <1>5, <1>6, <1>8 DEF Inv

\* A source file that is rewritten while a capture reads it keeps the invariant.
LEMMA WriteSourceHolds ==
    ASSUME Inv, NEW c \in Contents, WriteSource(c)
    PROVE  Inv'
BY DEF Inv, TypeOK, LockInv, TaskInv, StoreInv, ObjectInv, RecordInv,
       CapturedIsWhole, WriteSource, Promoted

\* A capture ends; what it leaves on the card and in the store is in order.
LEMMA EndHolds ==
    ASSUME Inv, NEW t \in Threads, task[t].pc \in Holding \/ mutex = NoThread,
           Leave(t), UNCHANGED <<source, cuts>>,
           object' \in [Contents -> Files], record' \in [Ids -> Files],
           \A c \in Contents : object'[c] \in {Absent, Torn, c},
           short_objects' \subseteq Contents, short_records' \subseteq Ids,
           \A c \in short_objects' : object'[c] = Torn,
           store' \subseteq Ids, IsFiniteSet(store'),
           Cardinality(store') <= MaxRecords,
           CapturedIsWhole'
    PROVE  Inv'
<1>1. /\ task' \in [Threads -> TaskSet] /\ mutex' = NoThread
      /\ task'[t].pc = "none"
      /\ \A u \in Threads \ {t} : task'[u] = task[u]
  BY LeaveTask DEF Inv
<1>2. /\ LockInv'
      /\ \A u \in Threads : task'[u].pc \in Holding => u = t
  BY <1>1, OnlyHolder DEF Holding
<1>3. TypeOK'
  BY <1>1 DEF Inv, TypeOK, TaskSet
<1>4. \A u \in Threads : task'[u].pc \notin Holding
  BY <1>1, <1>2 DEF Holding
<1>5. TaskInv'
  BY <1>1 DEF Inv, TaskInv
<1>6. StoreInv' /\ ObjectInv' /\ RecordInv'
  BY <1>4 DEF StoreInv, ObjectInv, RecordInv, Holding
<1>7. QED
  BY <1>2, <1>3, <1>5, <1>6 DEF Inv

\* A capture that ends without touching a file.
LEMMA LeaveHolds ==
    ASSUME Inv, NEW t \in Threads, task[t].pc \in Holding \/ mutex = NoThread,
           Leave(t), UNCHANGED <<object, record, source, short, store, cuts>>
    PROVE  Inv'
<1>1. /\ object' \in [Contents -> Files] /\ record' \in [Ids -> Files]
      /\ \A c \in Contents : object'[c] \in {Absent, Torn, c}
      /\ short_objects' \subseteq Contents /\ short_records' \subseteq Ids
      /\ \A c \in short_objects' : object'[c] = Torn
      /\ store' \subseteq Ids /\ IsFiniteSet(store')
      /\ Cardinality(store') <= MaxRecords
      /\ CapturedIsWhole'
  BY DEF Inv, TypeOK, ObjectInv, StoreInv, CapturedIsWhole
<1>2. QED
  BY <1>1, EndHolds

\* Taking the lock, with the checks under it, keeps the invariant.
LEMMA LockHolds ==
    ASSUME Inv, NEW t \in Threads, capture_lock(t)
    PROVE  Inv'
<1>1. CASE Accepts(task[t].id)
  <2>1. /\ task' = [task EXCEPT ![t].pc = "locked"] /\ mutex' = t
        /\ UNCHANGED <<object, record, source, short, store, cuts>>
        /\ mutex = NoThread /\ task[t].pc = "hashed"
    BY <1>1 DEF capture_lock
  <2>2. /\ task' \in [Threads -> TaskSet]
        /\ task'[t].pc = "locked" /\ task'[t].id = task[t].id
        /\ task'[t].content = task[t].content
        /\ \A u \in Threads \ {t} : task'[u] = task[u]
    BY <2>1 DEF Inv, TypeOK, TaskSet, Steps
  <2>3. /\ LockInv'
        /\ \A u \in Threads : task'[u].pc \in Holding => u = t
    BY <2>1, <2>2, OnlyHolder
  <2>4. TypeOK' /\ CapturedIsWhole'
    BY <2>1, <2>2 DEF Inv, TypeOK, TaskSet, CapturedIsWhole
  <2>5. TaskInv' /\ StoreInv' /\ ObjectInv' /\ RecordInv'
    BY <1>1, <2>1, <2>2, <2>3
       DEF Inv, TaskInv, StoreInv, ObjectInv, RecordInv, Holding, Accepts
  <2>6. QED
    BY <2>3, <2>4, <2>5 DEF Inv
<1>2. CASE ~Accepts(task[t].id)
  BY <1>2, LeaveHolds DEF capture_lock
<1>3. QED
  BY <1>1, <1>2

\* The thread that holds the mutex goes on to a step whose conditions hold.
LEMMA ForwardHolds ==
    ASSUME Inv, NEW t \in Threads, task[t].pc \in Holding,
           UNCHANGED <<source, store, mutex, cuts>>,
           task' \in [Threads -> TaskSet],
           task'[t].pc \in Holding,
           task'[t].id = task[t].id, task'[t].content = task[t].content,
           \A u \in Threads \ {t} : task'[u] = task[u],
           object' \in [Contents -> Files], record' \in [Ids -> Files],
           CapturedIsWhole',
           \A c \in Contents : object'[c] \in {Absent, Torn, c},
           task'[t].pc = "staged" => object'[task[t].content] = Absent,
           task'[t].pc = "object" =>
               /\ object'[task[t].content] = Torn
               /\ task'[t].bytes = task[t].content
               /\ task[t].content \notin short_objects',
           task'[t].pc \in {"object_done", "record"} =>
               \/ object'[task[t].content] = task[t].content
               \/ task[t].content \in short_objects',
           short_objects' \subseteq Contents, short_records' \subseteq Ids,
           \A c \in short_objects' : object'[c] = Torn,
           task'[t].pc = "record" => record'[task[t].id] = Torn
    PROVE  Inv'
<1>1. mutex = t
  BY DEF Inv, LockInv
<1>2. /\ LockInv'
      /\ \A u \in Threads : task'[u].pc \in Holding => u = t
  BY <1>1, OnlyHolder
<1>3. TypeOK'
  BY DEF Inv, TypeOK, TaskSet
<1>4. TaskInv'
  BY DEF Inv, TaskInv, Holding
<1>5. StoreInv'
  BY <1>2 DEF Inv, StoreInv
<1>6. ObjectInv' /\ RecordInv'
  <2>1. \A u \in Threads : task'[u].pc \in Holding =>
            u = t /\ task'[u].content = task[t].content /\ task'[u].id = task[t].id
    BY <1>2
  <2>2. RecordInv'
    BY <2>1 DEF RecordInv, Holding
  <2>3. ObjectInv'
    BY <2>1 DEF ObjectInv, Promoted, Holding
  <2>4. QED
    BY <2>2, <2>3
<1>7. QED
  BY <1>2, <1>3, <1>4, <1>5, <1>6 DEF Inv

\* An object changes where no complete one was: what the records name stays.
LEMMA ObjectFilled ==
    ASSUME Inv, NEW c \in Contents, object[c] # c, NEW x \in {Torn, c},
           object' = [object EXCEPT ![c] = x], UNCHANGED <<record, short, store>>,
           x = c => c \notin short_objects
    PROVE  /\ object' \in [Contents -> Files] /\ object'[c] = x
           /\ \A d \in Contents : object'[d] \in {Absent, Torn, d}
           /\ \A d \in short_objects' : object'[d] = Torn
           /\ CapturedIsWhole'
<1>1. object \in [Contents -> Files] /\ x \in Files
  BY DEF Inv, TypeOK, Files
<1>2. /\ object' \in [Contents -> Files] /\ object'[c] = x
      /\ \A d \in Contents \ {c} : object'[d] = object[d]
  BY <1>1
<1>3. CapturedIsWhole'
  BY <1>2 DEF Inv, CapturedIsWhole
<1>4. QED
  BY <1>2, <1>3 DEF Inv, ObjectInv, TypeOK

\* A record changes where no complete one was.
LEMMA RecordFilled ==
    ASSUME Inv, NEW id \in Ids, id \notin store, record[id] \notin Contents,
           NEW x \in Contents \cup {Torn}, x \in Contents => Promoted(x),
           record' = [record EXCEPT ![id] = x], UNCHANGED <<object, short>>,
           store' = store \/ (x \in Contents /\ store' = store \cup {id})
    PROVE  /\ record' \in [Ids -> Files] /\ record'[id] = x
           /\ CapturedIsWhole'
<1>1. record \in [Ids -> Files] /\ x \in Files /\ store \subseteq Ids
  BY DEF Inv, TypeOK, Files
<1>2. /\ record' \in [Ids -> Files] /\ record'[id] = x
      /\ \A i \in Ids \ {id} : record'[i] = record[i]
  BY <1>1
<1>3. QED
  BY <1>1, <1>2 DEF Inv, CapturedIsWhole, Promoted

\* Finding the object there already keeps the invariant.
LEMMA ObjectExistsHolds ==
    ASSUME Inv, NEW t \in Threads, object_exists(t)
    PROVE  Inv'
<1>1. task[t].pc \in Holding /\ UNCHANGED <<object, record, source, short, store, cuts>>
  BY DEF object_exists, Holding
<1>2. CASE Go(t, "object_done") /\ object[task[t].content] = task[t].content
  <2>1. /\ task' \in [Threads -> TaskSet] /\ mutex' = mutex
        /\ task'[t].pc = "object_done" /\ task'[t].id = task[t].id
        /\ task'[t].content = task[t].content
        /\ \A u \in Threads \ {t} : task'[u] = task[u]
    BY <1>2, GoTask DEF Inv, Steps
  <2>2. /\ object' \in [Contents -> Files] /\ record' \in [Ids -> Files]
        /\ \A c \in Contents : object'[c] \in {Absent, Torn, c}
        /\ short_objects' \subseteq Contents /\ short_records' \subseteq Ids
        /\ \A c \in short_objects' : object'[c] = Torn
        /\ CapturedIsWhole'
    BY <1>1 DEF Inv, TypeOK, ObjectInv, CapturedIsWhole
  <2>3. QED
    BY <1>1, <1>2, <2>1, <2>2, ForwardHolds DEF Holding, Promoted
<1>3. CASE Leave(t)
  BY <1>1, <1>3, LeaveHolds
<1>4. QED
  BY <1>2, <1>3 DEF object_exists, ObjectMatches

\* Staging an object, whole or not, keeps the invariant.
LEMMA StageObjectHolds ==
    ASSUME Inv, NEW t \in Threads, stage_object(t)
    PROVE  Inv'
<1>1. /\ task[t].pc \in Holding /\ UNCHANGED <<object, record, source, short, store, cuts>>
      /\ object[task[t].content] = Absent
  BY DEF stage_object, Holding
<1>2. CASE task' = [task EXCEPT ![t].pc = "staged",
                       ![t].bytes = IF task[t].file THEN source ELSE @]
           /\ UNCHANGED mutex
  <2>1. /\ task' \in [Threads -> TaskSet]
        /\ task'[t].pc = "staged" /\ task'[t].id = task[t].id
        /\ task'[t].content = task[t].content
        /\ \A u \in Threads \ {t} : task'[u] = task[u]
    BY <1>2, ZenonT(30) DEF Inv, TypeOK, TaskSet, Steps
  <2>2. /\ object' \in [Contents -> Files] /\ record' \in [Ids -> Files]
        /\ \A c \in Contents : object'[c] \in {Absent, Torn, c}
        /\ short_objects' \subseteq Contents /\ short_records' \subseteq Ids
        /\ \A c \in short_objects' : object'[c] = Torn
        /\ CapturedIsWhole'
    BY <1>1 DEF Inv, TypeOK, ObjectInv, CapturedIsWhole
  <2>3. QED
    BY <1>1, <1>2, <2>1, <2>2, ForwardHolds DEF Holding
<1>3. CASE Leave(t)
  BY <1>1, <1>3, LeaveHolds
<1>4. QED
  BY <1>2, <1>3 DEF stage_object

\* The copy that a rename of the object makes keeps the invariant.
LEMMA RenameObjectHolds ==
    ASSUME Inv, NEW t \in Threads, rename_object(t)
    PROVE  Inv'
<1> DEFINE c == task[t].content
<1>1. /\ task[t].pc = "staged" /\ task[t].pc \in Holding /\ c \in Contents
      /\ UNCHANGED <<record, source, short, store, cuts>>
      /\ object[c] = Absent /\ c \notin short_objects
  BY EvidenceAssumption DEF rename_object, Holding, Inv, TaskInv, ObjectInv
<1>2. CASE StagedMatches(task[t])
  <2>1. /\ object' = [object EXCEPT ![c] = Torn] /\ Go(t, "object")
        /\ task[t].bytes = c
    BY <1>2 DEF rename_object, StagedMatches
  <2>2. /\ task' \in [Threads -> TaskSet] /\ mutex' = mutex
        /\ task'[t].pc = "object" /\ task'[t].id = task[t].id
        /\ task'[t].content = c /\ task'[t].bytes = c
        /\ \A u \in Threads \ {t} : task'[u] = task[u]
    BY <2>1, GoTask DEF Inv, Steps
  <2>3. /\ object' \in [Contents -> Files] /\ object'[c] = Torn
        /\ \A d \in Contents : object'[d] \in {Absent, Torn, d}
        /\ \A d \in short_objects' : object'[d] = Torn
        /\ CapturedIsWhole'
    BY <1>1, <2>1, ObjectFilled, EvidenceAssumption
  <2>4. /\ record' \in [Ids -> Files]
        /\ short_objects' \subseteq Contents /\ short_records' \subseteq Ids
    BY <1>1 DEF Inv, TypeOK
  <2>5. QED
    BY <1>1, <2>2, <2>3, <2>4, ForwardHolds DEF Holding
<1>3. CASE ~StagedMatches(task[t])
  BY <1>1, <1>3, LeaveHolds DEF rename_object
<1>4. QED
  BY <1>2, <1>3

\* The end of that rename keeps the invariant.
LEMMA RenamedObjectHolds ==
    ASSUME Inv, NEW t \in Threads, renamed_object(t)
    PROVE  Inv'
<1> DEFINE c == task[t].content
<1>1. /\ task[t].pc = "object" /\ task[t].pc \in Holding /\ c \in Contents
      /\ UNCHANGED <<record, source, store, cuts>>
      /\ object[c] = Torn /\ task[t].bytes = c
      /\ object \in [Contents -> Files] /\ record \in [Ids -> Files]
      /\ short_objects \subseteq Contents /\ short_records \subseteq Ids
      /\ c # Torn /\ c \notin short_objects
  BY EvidenceAssumption
     DEF renamed_object, Holding, Inv, TaskInv, ObjectInv, TypeOK
<1>2. ASSUME Go(t, "object_done")
      PROVE  /\ task' \in [Threads -> TaskSet] /\ mutex' = mutex
             /\ task'[t].pc = "object_done" /\ task'[t].id = task[t].id
             /\ task'[t].content = c
             /\ \A u \in Threads \ {t} : task'[u] = task[u]
  BY <1>2, GoTask DEF Inv, Steps
\* The copy is complete.
<1>3. CASE /\ object' = [object EXCEPT ![c] = c] /\ UNCHANGED short
           /\ Go(t, "object_done") \/ Leave(t)
  <2>1. /\ object' \in [Contents -> Files] /\ object'[c] = c
        /\ \A d \in Contents : object'[d] \in {Absent, Torn, d}
        /\ \A d \in short_objects' : object'[d] = Torn
        /\ CapturedIsWhole'
    BY <1>1, <1>3, ObjectFilled
  <2>2. CASE Go(t, "object_done")
    BY <1>1, <1>2, <1>3, <2>1, <2>2, ForwardHolds DEF Holding, Promoted
  <2>3. CASE Leave(t)
    <3>1. /\ store' \subseteq Ids /\ IsFiniteSet(store')
          /\ Cardinality(store') <= MaxRecords
      BY <1>1 DEF Inv, TypeOK, StoreInv
    <3>2. QED
      BY <1>1, <1>3, <2>1, <2>3, <3>1, EndHolds
  <2>4. QED
    BY <1>3, <2>2, <2>3
\* It failed.
<1>4. CASE UNCHANGED <<object, short>> /\ Leave(t)
  BY <1>1, <1>4, LeaveHolds
\* It was cut short, and nobody is told.
<1>5. CASE /\ short_objects' = short_objects \cup {c} /\ Go(t, "object_done")
           /\ UNCHANGED <<object, short_records>>
  <2>1. /\ short_objects' \subseteq Contents /\ short_records' \subseteq Ids
        /\ \A d \in Contents : object'[d] \in {Absent, Torn, d}
        /\ \A d \in short_objects' : object'[d] = Torn
        /\ object'[c] = c \/ c \in short_objects'
        /\ CapturedIsWhole'
    BY <1>1, <1>5 DEF Inv, ObjectInv, CapturedIsWhole, Promoted
  <2>2. QED
    BY <1>1, <1>2, <1>5, <2>1, ForwardHolds DEF Holding
<1>6. QED
  BY <1>1, <1>3, <1>4, <1>5 DEF renamed_object

\* Writing the record keeps the invariant.
LEMMA WriteRecordHolds ==
    ASSUME Inv, NEW t \in Threads, write_record(t)
    PROVE  Inv'
<1> DEFINE c == task[t].content
           id == task[t].id
<1>1. /\ task[t].pc = "object_done" /\ task[t].pc \in Holding
      /\ c \in Contents /\ id \in Ids /\ id \notin store
      /\ UNCHANGED <<object, source, short, store, cuts>>
      /\ Promoted(c)
  BY DEF write_record, Holding, Inv, TaskInv, ObjectInv, StoreInv
<1>2. CASE /\ record[id] = Absent /\ record' = [record EXCEPT ![id] = Torn]
           /\ Go(t, "record")
  <2> HIDE DEF id, c
  <2>1. record' \in [Ids -> Files] /\ record'[id] = Torn /\ CapturedIsWhole'
    <3>1. /\ record[id] \notin Contents /\ Torn \in Contents \cup {Torn}
          /\ Torn \in Contents => Promoted(Torn)
      BY <1>2, EvidenceAssumption
    <3>2. UNCHANGED <<object, short>> /\ store' = store
      BY <1>1
    <3>3. QED
      BY <1>1, <1>2, <3>1, <3>2, RecordFilled
  <2>2. /\ task' \in [Threads -> TaskSet] /\ mutex' = mutex
        /\ task'[t].pc = "record" /\ task'[t].id = id
        /\ task'[t].content = c
        /\ \A u \in Threads \ {t} : task'[u] = task[u]
    BY <1>2, GoTask DEF Inv, Steps, id, c
  <2>3. /\ object' \in [Contents -> Files]
        /\ \A d \in Contents : object'[d] \in {Absent, Torn, d}
        /\ short_objects' \subseteq Contents /\ short_records' \subseteq Ids
        /\ \A d \in short_objects' : object'[d] = Torn
        /\ object'[c] = c \/ c \in short_objects'
    BY <1>1 DEF Inv, TypeOK, ObjectInv, Promoted
  <2>4. QED
    BY <1>1, <2>1, <2>2, <2>3, ForwardHolds DEF Holding, id, c
<1>3. CASE Leave(t) /\ UNCHANGED record
  BY <1>1, <1>3, LeaveHolds
<1>4. QED
  BY <1>2, <1>3 DEF write_record

\* An id more in the store, which had room for it.
LEMMA StoreGrows ==
    ASSUME Inv, NEW id \in Ids, id \notin store, Cardinality(store) < MaxRecords,
           store' \in {store, store \cup {id}}
    PROVE  /\ store' \subseteq Ids /\ IsFiniteSet(store')
           /\ Cardinality(store') <= MaxRecords
<1>1. IsFiniteSet(store) /\ store \subseteq Ids
  BY DEF Inv, StoreInv, TypeOK
<1>2. /\ IsFiniteSet(store \cup {id})
      /\ Cardinality(store \cup {id}) = Cardinality(store) + 1
      /\ Cardinality(store) \in Nat
  BY <1>1, FS_AddElement, FS_CardinalityType
<1>3. CASE store' = store
  BY <1>1, <1>2, <1>3, EvidenceAssumption
<1>4. CASE store' = store \cup {id}
  BY <1>1, <1>2, <1>4, EvidenceAssumption
<1>5. QED
  BY <1>3, <1>4

\* The end of its rename keeps the invariant.
LEMMA RenamedRecordHolds ==
    ASSUME Inv, NEW t \in Threads, renamed_record(t)
    PROVE  Inv'
<1> DEFINE c == task[t].content
           id == task[t].id
<1>1. /\ task[t].pc = "record" /\ task[t].pc \in Holding
      /\ c \in Contents /\ id \in Ids
      /\ UNCHANGED <<object, source, cuts>> /\ Leave(t)
      /\ Promoted(c) /\ record[id] = Torn
      /\ object \in [Contents -> Files] /\ record \in [Ids -> Files]
      /\ short_objects \subseteq Contents /\ short_records \subseteq Ids
      /\ \A d \in Contents : object'[d] \in {Absent, Torn, d}
      /\ \A d \in short_objects : object'[d] = Torn
      /\ id \notin store /\ Cardinality(store) < MaxRecords
  BY DEF renamed_record, Holding, Inv, TaskInv, ObjectInv, RecordInv, StoreInv,
         TypeOK
<1> HIDE DEF id, c
\* The copy is complete.
<1>2. CASE /\ record' = [record EXCEPT ![id] = c] /\ UNCHANGED short
           /\ store' \in {store, store \cup {id}}
  <2>1. /\ record[id] \notin Contents /\ c \in Contents \cup {Torn}
        /\ c \in Contents => Promoted(c)
    BY <1>1, EvidenceAssumption
  <2>2. /\ UNCHANGED <<object, short>>
        /\ store' = store \/ (c \in Contents /\ store' = store \cup {id})
    BY <1>1, <1>2
  <2>3. record' \in [Ids -> Files] /\ CapturedIsWhole'
    BY <1>1, <1>2, <2>1, <2>2, RecordFilled
  <2>4. QED
    BY <1>1, <1>2, <2>3, StoreGrows, EndHolds
\* It failed.
<1>3. CASE UNCHANGED <<record, short, store>>
  BY <1>1, <1>3, LeaveHolds
\* It was cut short, and the client is told that the record is there.
<1>4. CASE /\ short_records' = short_records \cup {id}
           /\ store' = store \cup {id}
           /\ UNCHANGED <<record, short_objects>>
  <2>1. CapturedIsWhole'
    BY <1>1, <1>4 DEF Inv, CapturedIsWhole
  <2>2. /\ store' \subseteq Ids /\ IsFiniteSet(store')
        /\ Cardinality(store') <= MaxRecords
    BY <1>1, <1>4, StoreGrows
  <2>3. QED
    BY <1>1, <1>4, <2>1, <2>2, EndHolds
<1>5. QED
  BY <1>2, <1>3, <1>4 DEF renamed_record, id, c

\* A restart at any point keeps the invariant.
LEMMA RestartHolds ==
    ASSUME Inv, poison_evidence_on_system_start
    PROVE  Inv'
<1>1. IsFiniteSet({}) /\ Cardinality({}) = 0
  BY FS_EmptySet
<1>2. /\ store' = {} /\ mutex' = NoThread /\ cuts' = cuts + 1
      /\ task' = [t \in Threads |-> NoTask]
      /\ UNCHANGED <<object, record, source, short>>
  BY DEF poison_evidence_on_system_start
<1>3. TypeOK'
  BY <1>1, <1>2, NoTaskTyped, EvidenceAssumption DEF Inv, TypeOK, TaskSet
<1>4. \A t \in Threads : task'[t].pc = "none"
  BY <1>2 DEF NoTask
<1>5. LockInv' /\ TaskInv' /\ StoreInv' /\ ObjectInv' /\ RecordInv'
  BY <1>1, <1>2, <1>4 DEF Inv, LockInv, TaskInv, StoreInv, ObjectInv, RecordInv,
     Holding
<1>6. CapturedIsWhole'
  BY <1>2 DEF Inv, CapturedIsWhole
<1>7. QED
  BY <1>3, <1>5, <1>6 DEF Inv

\* Every step keeps the invariant.
LEMMA StepHolds == Inv /\ [Next]_vars => Inv'
<1> SUFFICES ASSUME Inv, [Next]_vars PROVE Inv'
  OBVIOUS
<1>1. ASSUME NEW t \in Threads, Capture(t) PROVE Inv'
  BY <1>1, CaptureHolds, LockHolds, ObjectExistsHolds, StageObjectHolds,
     RenameObjectHolds, RenamedObjectHolds, WriteRecordHolds, RenamedRecordHolds
     DEF Capture
<1>2. ASSUME NEW c \in Contents, WriteSource(c) PROVE Inv'
  BY <1>2, WriteSourceHolds
<1>3. CASE UNCHANGED vars
  BY <1>3 DEF vars, Inv, TypeOK, LockInv, TaskInv, StoreInv, ObjectInv, RecordInv,
     CapturedIsWhole, Promoted
<1>4. QED
  BY <1>1, <1>2, <1>3, RestartHolds DEF Next

------------------------------------------------------------------------------
(* The theorems *)

\* The files of every capture hold contents, and the RAM store of
\* poison_evidence_capture never grows past POISON_EVIDENCE_MAX_RECORDS.
THEOREM EvidenceTyped == Spec => []TypeOK
<1>1. Inv => TypeOK
  BY DEF Inv
<1>2. QED
  BY <1>1, InitHolds, StepHolds, PTL DEF Spec

\* What poison_evidence_capture_global and capture_file_global answered has a
\* complete record, and every complete record a complete object, except for the
\* files that storage_common_rename cut short and reported as complete.
THEOREM CapturedStaysWhole == Spec => []CapturedIsWhole
<1>1. Inv => CapturedIsWhole
  BY DEF Inv
<1>2. QED
  BY <1>1, InitHolds, StepHolds, PTL DEF Spec

\* An empty store is an empty archive.
LEMMA ArchiveInit == Init => Archive!Init
<1> SUFFICES ASSUME Init PROVE Archive!Init
  OBVIOUS
<1>1. \A c \in Contents : object[c] # c
  BY EvidenceAssumption DEF Init
<1>2. \A id \in Ids : record[id] \notin Contents
  BY EvidenceAssumption DEF Init
<1>3. QED
  BY <1>1, <1>2 DEF Archive!Init, Init

\* A step of the card that leaves what is whole alone is none of the archive.
LEMMA ArchiveStutter ==
    ASSUME \A c \in Contents : object'[c] = c <=> object[c] = c,
           \A id \in Ids :
               \/ record'[id] = record[id]
               \/ record'[id] \notin Contents /\ record[id] \notin Contents
    PROVE  /\ {c \in Contents : object'[c] = c} = {c \in Contents : object[c] = c}
           /\ [id \in Ids |-> IF record'[id] \in Contents THEN record'[id] ELSE Absent]
            = [id \in Ids |-> IF record[id] \in Contents THEN record[id] ELSE Absent]
OBVIOUS

Seen == <<{c \in Contents : object[c] = c}, short_objects,
          [id \in Ids |-> IF record[id] \in Contents THEN record[id] ELSE Absent]>>

\* Every step of a capture is a step of the archive or none.
LEMMA StepArchives == Inv /\ [Next]_vars => [Archive!Next]_Seen
<1> SUFFICES ASSUME Inv, [Next]_vars PROVE Archive!Next \/ UNCHANGED Seen
  BY DEF Seen
<1>1. ASSUME UNCHANGED <<object, record, short_objects>> PROVE UNCHANGED Seen
  BY <1>1 DEF Seen
<1>2. ASSUME NEW t \in Threads, rename_object(t) PROVE UNCHANGED Seen
  <2>1. /\ task[t].content \in Contents /\ object[task[t].content] = Absent
        /\ object \in [Contents -> Files] /\ record' = record
        /\ \/ object' = [object EXCEPT ![task[t].content] = Torn]
           \/ object' = object
        /\ short_objects' = short_objects
    BY <1>2 DEF rename_object, Inv, TaskInv, ObjectInv, TypeOK
  <2>2. \A c \in Contents : object'[c] = c <=> object[c] = c
    BY <2>1, EvidenceAssumption
  <2>3. QED
    BY <2>1, <2>2, ArchiveStutter DEF Seen
<1>3. ASSUME NEW t \in Threads, renamed_object(t)
      PROVE  Archive!Next \/ UNCHANGED Seen
  <2> DEFINE c == task[t].content
  <2>1. /\ c \in Contents /\ object \in [Contents -> Files] /\ record' = record
        /\ object[c] = Torn /\ c # Torn /\ c \notin short_objects
        /\ \/ object' = [object EXCEPT ![c] = c] /\ short_objects' = short_objects
           \/ object' = object /\ short_objects' = short_objects
           \/ object' = object /\ short_objects' = short_objects \cup {c}
    BY <1>3, EvidenceAssumption
       DEF renamed_object, Inv, TaskInv, ObjectInv, TypeOK
  <2> HIDE DEF c
  <2>2. CASE object' = [object EXCEPT ![c] = c] /\ short_objects' = short_objects
    <3>1. {d \in Contents : object'[d] = d} = {d \in Contents : object[d] = d} \cup {c}
      BY <2>1, <2>2
    <3>2. Archive!Keep(c)
      BY <2>1, <2>2, <3>1 DEF Archive!Keep
    <3>3. QED
      BY <2>1, <3>2 DEF Archive!Next, Archive!Keep
  <2>3. CASE object' = object /\ short_objects' = short_objects \cup {c}
    <3>1. Archive!Lose(c)
      BY <2>1, <2>3 DEF Archive!Lose
    <3>2. QED
      BY <2>1, <3>1 DEF Archive!Next
  <2>4. QED
    BY <2>1, <2>2, <2>3, <1>1
<1>4. ASSUME NEW t \in Threads, write_record(t) PROVE UNCHANGED Seen
  <2>1. /\ task[t].id \in Ids /\ record \in [Ids -> Files] /\ object' = object
        /\ \/ /\ record[task[t].id] = Absent
              /\ record' = [record EXCEPT ![task[t].id] = Torn]
           \/ record' = record
        /\ short_objects' = short_objects
    BY <1>4 DEF write_record, Inv, TaskInv, TypeOK
  <2>2. \A id \in Ids :
            \/ record'[id] = record[id]
            \/ record'[id] \notin Contents /\ record[id] \notin Contents
    BY <2>1, EvidenceAssumption
  <2>3. QED
    BY <2>1, <2>2, ArchiveStutter DEF Seen
<1>5. ASSUME NEW t \in Threads, renamed_record(t)
      PROVE  Archive!Next \/ UNCHANGED Seen
  <2> DEFINE c == task[t].content
             i == task[t].id
  <2>1. /\ i \in Ids /\ c \in Contents /\ record \in [Ids -> Files] /\ object' = object
        /\ record[i] = Torn /\ Promoted(c) /\ short_objects' = short_objects
        /\ record' = [record EXCEPT ![i] = c] \/ record' = record
    BY <1>5 DEF renamed_record, Inv, TaskInv, TypeOK, ObjectInv, RecordInv
  <2> HIDE DEF c, i
  <2>2. CASE record' = [record EXCEPT ![i] = c]
    <3>1. [id \in Ids |-> IF record'[id] \in Contents THEN record'[id] ELSE Absent]
          = [[id \in Ids |-> IF record[id] \in Contents THEN record[id] ELSE Absent]
                EXCEPT ![i] = c]
      BY <2>1, <2>2
    <3>2. Archive!Name(i, c)
      BY <2>1, <3>1, EvidenceAssumption DEF Archive!Name, Promoted
    <3>3. QED
      BY <2>1, <3>2 DEF Archive!Next, Archive!Name
  <2>3. QED
    BY <2>1, <2>2, <1>1
<1>6. ASSUME NEW t \in Threads, Capture(t)
      PROVE  Archive!Next \/ UNCHANGED Seen
  BY <1>1, <1>2, <1>3, <1>4, <1>5, <1>6
     DEF Capture, poison_evidence_capture_file_global,
         poison_evidence_capture_global, capture_lock, object_exists, stage_object
<1>7. QED
  BY <1>1, <1>6 DEF Next, WriteSource, poison_evidence_on_system_start, vars

\* The captures of poison_evidence.c implement the write-once archive.
THEOREM EvidenceKeepsArchive == Spec => KeepsArchive
<1>1. QED
  BY InitHolds, StepHolds, ArchiveInit, StepArchives, PTL
     DEF Spec, KeepsArchive, Archive!Spec, Seen
==============================================================================
