--------------------------- MODULE WorkloadProofs ---------------------------
(***************************************************************************)
(* The records of the managed workloads stay apart, a cancelled script is *)
(* really gone and a verdict stands, for any number of sessions, names,   *)
(* records and script threads. The argument is about the thread a record  *)
(* points at: a script that is still its own is that thread, and whoever  *)
(* waits to join a script waits for the one its record points at, so a    *)
(* free and a handler at the same record wait for the same thread and     *)
(* neither goes on without the fault.                                      *)
(***************************************************************************)
EXTENDS Workload, TLAPS, FiniteSetTheorems, WellFoundedInduction

------------------------------------------------------------------------------
(* Types *)

RecordSet == [occupied : BOOLEAN, attachments : Int, name : Names \cup {NoName},
              project : BOOLEAN, state : States, thread : Threads \cup {None},
              bound : BOOLEAN]

ThreadSet == [phase : {"free", "running", "trace", "ended"},
              record : Records \cup {None}, stop : BOOLEAN, mine : BOOLEAN]

WaitSet == [pc : {"idle", "create", "cleanup", "join"},
            session : Sessions \cup {None}, thread : Threads \cup {None}]

WorkloadTyped ==
    /\ rec \in [Records -> RecordSet]
    /\ thread \in [Threads -> ThreadSet]
    /\ managed \in [Sessions -> Records \cup {None}]
    /\ asked \in [Sessions -> Names \cup {NoName}]
    /\ rpc \in WaitSet
    /\ timer \in WaitSet

------------------------------------------------------------------------------
(* The inductive invariant *)

\* A record without a project was never run, and one that was not run since
\* it was created points at no script and hears none.
RecordInv ==
    \A r \in Records :
        /\ ~rec[r].occupied => ~rec[r].project
        /\ ~rec[r].project => rec[r].state = "Queued"
        /\ rec[r].state = "Queued" => rec[r].thread = None /\ ~rec[r].bound

Alive(t) == thread[t].phase \in {"running", "trace"}

\* A script reports to a record, which points at it while it is its own.
ScriptInv ==
    \A t \in Threads : Alive(t) =>
        /\ thread[t].record \in Records
        /\ thread[t].mine => rec[thread[t].record].thread = t

\* A handler that waits has a record whose script it joins; CREATE waits for
\* one of a workload that is over.
HandlerInv ==
    rpc.pc # "idle" =>
        /\ rpc.session \in Sessions /\ managed[rpc.session] \in Records
        /\ rpc.thread \in Threads
        /\ rec[managed[rpc.session]].thread = rpc.thread
        /\ rpc.pc = "create" =>
               rec[managed[rpc.session]].state \in TerminalStates

\* So has the timer thread, and never for the session of that handler.
TimerInv ==
    timer.pc # "idle" =>
        /\ timer.session \in Sessions /\ managed[timer.session] \in Records
        /\ rpc.pc # "idle" => rpc.session # timer.session
        /\ timer.pc = "join" =>
               /\ timer.thread \in Threads
               /\ rec[managed[timer.session]].thread = timer.thread

Inv ==
    /\ WorkloadTyped
    /\ RecordInv
    /\ ScriptInv
    /\ HandlerInv
    /\ TimerInv
    /\ AttachedIsOwned
    /\ CancelledIsStopped

------------------------------------------------------------------------------
(* Tables of records, and the sessions that watch them *)

Watching(m, r) == {s \in Sessions : m[s] = r}

\* AttachedIsOwned of a table of records, with the sessions' m and a.
Owned(table, m, a) ==
    \A r \in Records :
        /\ table[r].attachments = Cardinality(Watching(m, r))
        /\ \A s \in Watching(m, r) : /\ table[r].occupied
                                    /\ table[r].name \in {a[s], NoName}

\* Two records that differ at most in how many sessions watch them.
SameUse(c, d) ==
    /\ c.occupied = d.occupied /\ c.name = d.name
    /\ c.project = d.project /\ c.state = d.state
    /\ c.thread = d.thread /\ c.bound = d.bound

\* Zero is no record and no thread.
LEMMA NoneIsApart == None \notin Records /\ None \notin Threads /\ None \in Int
BY WorkloadAssumption DEF None

\* AttachedIsOwned in this state, watcher by watcher.
LEMMA OwnedNow == AttachedIsOwned <=> Owned(rec, managed, asked)
BY DEF AttachedIsOwned, Owned, Watching

\* AttachedIsOwned in the next state.
LEMMA OwnedNext == AttachedIsOwned' <=> Owned(rec', managed', asked')
BY DEF AttachedIsOwned, Owned, Watching

\* The smallest of a set of record numbers is one of them.
LEMMA MinIsMember ==
    ASSUME NEW S, S \subseteq Nat, S # {}
    PROVE  Min(S) \in S
<1> DEFINE less == {ss \in Nat \X Nat : ss[1] < ss[2]}
<1>1. less = OpToRel(<, Nat)
  BY Zenon DEF OpToRel
<1>2. IsWellFoundedOn(less, Nat)
  BY <1>1, NatLessThanWellFounded, Zenon
<1>3. PICK x \in S : \A y \in S : ~(<<y, x>> \in less)
  <2> HIDE DEF less
  <2>1. QED BY <1>2, WFMin
<1>4. ASSUME NEW y \in S PROVE x <= y
  <2>1. <<y, x>> \in Nat \X Nat /\ y \in Nat /\ x \in Nat   BY <1>3
  <2>2. <<y, x>> \notin less   BY <1>3
  <2>3. ~(<<y, x>>[1] < <<y, x>>[2])   BY <2>1, <2>2
  <2>4. QED BY <2>1, <2>3
<1>5. QED BY <1>4 DEF Min

\* A session s that goes from one record to another is counted at the second
\* and no longer at the first; the other records q keep their watchers.
MoveEffect(m, s, r, q, m2) ==
    /\ Cardinality(Watching(m, q)) \in Nat
    /\ Watching(m2, r) = Watching(m, r) \cup {s}
    /\ Watching(m2, m[s]) = Watching(m, m[s]) \ {s}
    /\ q # r /\ q # m[s] => Watching(m2, q) = Watching(m, q)
    /\ Cardinality(Watching(m2, r)) = Cardinality(Watching(m, r)) + 1
    /\ Cardinality(Watching(m2, m[s])) = Cardinality(Watching(m, m[s])) - 1

\* Moving a session's attachment changes who watches in two records only.
LEMMA Moved ==
    ASSUME NEW m \in [Sessions -> Records \cup {None}], NEW s \in Sessions,
           NEW r, m[s] # r, NEW q, NEW m2, m2 = [m EXCEPT ![s] = r]
    PROVE  MoveEffect(m, s, r, q, m2)
<1>1. ASSUME NEW x
      PROVE  IsFiniteSet(Watching(m, x)) /\ Cardinality(Watching(m, x)) \in Nat
  <2>1. Watching(m, x) \subseteq Sessions   BY DEF Watching
  <2>2. QED
    BY <2>1, WorkloadAssumption, FS_Subset, FS_CardinalityType
<1>2. Watching(m2, r) = Watching(m, r) \cup {s}
  BY DEF Watching
<1>3. Watching(m2, m[s]) = Watching(m, m[s]) \ {s}
  BY DEF Watching
<1>4. q # r /\ q # m[s] => Watching(m2, q) = Watching(m, q)
  BY DEF Watching
<1>5. s \notin Watching(m, r) /\ s \in Watching(m, m[s])
  BY DEF Watching
<1>6. Cardinality(Watching(m2, r)) = Cardinality(Watching(m, r)) + 1
  BY <1>1, <1>2, <1>5, FS_AddElement
<1>7. Cardinality(Watching(m2, m[s])) = Cardinality(Watching(m, m[s])) - 1
  BY <1>1, <1>3, <1>5, FS_RemoveElement
<1>8. QED
  BY <1>1, <1>2, <1>3, <1>4, <1>6, <1>7 DEF MoveEffect

\* What a step writes besides the count and the identity is not part of
\* ownership; a name may be wiped.
LEMMA OwnedKept ==
    ASSUME NEW t1, NEW m, NEW a, NEW t2, Owned(t1, m, a),
           \A q \in Records : /\ t2[q].attachments = t1[q].attachments
                              /\ t2[q].occupied = t1[q].occupied
                              /\ t2[q].name \in {t1[q].name, NoName}
    PROVE  Owned(t2, m, a)
BY DEF Owned

\* The table after an attach to r and a detach from q.
AttachEffect(r, q, name, table) ==
    /\ table \in [Records -> RecordSet]
    /\ table[r].occupied /\ table[r].name = name
    /\ Matches(r, name) =>
           /\ SameUse(table[r], rec[r])
           /\ table[r].attachments = rec[r].attachments + 1
    /\ ~Matches(r, name) =>
           /\ ~table[r].project /\ table[r].state = "Queued"
           /\ table[r].thread = None /\ ~table[r].bound
           /\ table[r].attachments = 1
    /\ q # None => /\ SameUse(table[q], rec[q])
                   /\ table[q].attachments = rec[q].attachments - 1
    /\ \A x \in Records : x # r /\ x # q => table[x] = rec[x]

\* What attaching a session to a record changes in it.
LEMMA AttachFields ==
    ASSUME rec \in [Records -> RecordSet], NEW r \in Records,
           NEW q \in Records \cup {None}, q # r, NEW name \in Names,
           NEW table, table = Detached(Attached(r, name), q)
    PROVE  AttachEffect(r, q, name, table)
<1> DEFINE taken == IF Matches(r, name) THEN rec[r] ELSE Cleared(name)
           first == [rec EXCEPT ![r] = [taken EXCEPT !.attachments = @ + 1]]
<1>1. taken \in RecordSet
  <2>1. Absent \in RecordSet /\ Absent.attachments = 0
    BY DEF RecordSet, Absent, None, States
  <2>2. Cleared(name) \in RecordSet
    BY <2>1 DEF RecordSet, Cleared
  <2>3. rec[r] \in RecordSet
    OBVIOUS
  <2>4. QED BY <2>2, <2>3
<1>2. /\ taken.occupied /\ taken.name = name
      /\ Matches(r, name) => taken = rec[r]
      /\ ~Matches(r, name) =>
             /\ ~taken.project /\ taken.state = "Queued"
             /\ taken.thread = None /\ ~taken.bound
             /\ taken.attachments = 0
  BY DEF Matches, Cleared, Absent
<1>3. first = Attached(r, name)
  BY DEF Attached
<1> HIDE DEF taken
<1>4. /\ first \in [Records -> RecordSet]
      /\ SameUse(first[r], taken)
      /\ first[r].attachments = taken.attachments + 1
      /\ \A x \in Records : x # r => first[x] = rec[x]
  BY <1>1 DEF RecordSet, SameUse
<1> HIDE DEF first
<1>5. /\ Detached(first, q) \in [Records -> RecordSet]
      /\ q # None => /\ SameUse(Detached(first, q)[q], first[q])
                     /\ Detached(first, q)[q].attachments =
                            first[q].attachments - 1
      /\ \A x \in Records : x # q => Detached(first, q)[x] = first[x]
  BY <1>4 DEF Detached, RecordSet, SameUse
<1>6. /\ table = Detached(first, q)
      /\ table[r] = first[r] /\ (q # None => first[q] = rec[q])
  BY <1>3, <1>4, <1>5
<1>7. /\ table[r].occupied /\ table[r].name = name
      /\ Matches(r, name) =>
             /\ SameUse(table[r], rec[r])
             /\ table[r].attachments = rec[r].attachments + 1
  BY <1>2, <1>4, <1>6 DEF SameUse
<1>8. ~Matches(r, name) =>
          /\ ~table[r].project /\ table[r].state = "Queued"
          /\ table[r].thread = None /\ ~table[r].bound
          /\ table[r].attachments = 1
  BY <1>2, <1>4, <1>6 DEF SameUse
<1>9. /\ q # None => /\ SameUse(table[q], rec[q])
                     /\ table[q].attachments = rec[q].attachments - 1
      /\ \A x \in Records : x # r /\ x # q => table[x] = rec[x]
  BY <1>4, <1>5, <1>6
<1>10. QED
  BY <1>5, <1>6, <1>7, <1>8, <1>9 DEF AttachEffect


\* A request that is bound has a record. No record but that one changes in
\* more than its count, and that one either was the workload's already, or
\* was watched by nobody and held nothing under way.
BoundFacts(s, name, create, r, table) ==
    /\ r \in Records
    /\ table \in [Records -> RecordSet]
    /\ table[r].occupied /\ table[r].name = name
    /\ \A q \in Records : q # r => SameUse(table[q], rec[q])
    /\ \/ Matches(r, name) /\ SameUse(table[r], rec[r])
       \/ /\ create /\ ~Matches(r, name)
          /\ ~table[r].project /\ table[r].state = "Queued"
          /\ table[r].thread = None /\ ~table[r].bound
          /\ Watching(managed, r) = {} /\ rec[r].state \notin Active
    /\ Owned(table, [managed EXCEPT ![s] = r], [asked EXCEPT ![s] = name])

\* The record a bind selects.
LEMMA SelectedFacts ==
    ASSUME NEW name, NEW create \in BOOLEAN, Selected(name, create) # None
    PROVE  /\ Selected(name, create) \in Records
           /\ \/ Matches(Selected(name, create), name)
              \/ /\ create /\ Replaceable(Selected(name, create))
                 /\ ~Matches(Selected(name, create), name)
<1> DEFINE matching == {r \in Records : Matches(r, name)}
           free == {r \in Records : create /\ Replaceable(r)}
<1>1. matching \subseteq Nat /\ free \subseteq Nat
  BY WorkloadAssumption
<1>2. CASE matching # {}
  <2>1. Selected(name, create) = Min(matching)   BY <1>2 DEF Selected
  <2> HIDE DEF matching
  <2>2. Min(matching) \in matching   BY <1>1, <1>2, MinIsMember
  <2>3. QED BY <2>1, <2>2 DEF matching
<1>3. CASE matching = {}
  <2>1. free # {} /\ Selected(name, create) = Min(free)
    BY <1>3 DEF Selected
  <2> HIDE DEF free
  <2>2. Min(free) \in free   BY <1>1, <2>1, MinIsMember
  <2>3. QED BY <1>3, <2>1, <2>2 DEF free
<1>4. QED BY <1>2, <1>3

\* A record may be replaced only when nobody watches it and nothing runs.
LEMMA ReplaceableIsLeft ==
    ASSUME Inv, NEW r \in Records, Replaceable(r)
    PROVE  Watching(managed, r) = {} /\ rec[r].state \notin Active
<1>1. rec[r] \in RecordSet /\ managed \in [Sessions -> Records \cup {None}]
  BY DEF Inv, WorkloadTyped
<1>2. rec[r].state \notin Active
  BY <1>1 DEF Inv, RecordInv, Replaceable, Active, TerminalStates
<1>3. Owned(rec, managed, asked)
  BY OwnedNow DEF Inv
<1>4. CASE ~rec[r].occupied
  BY <1>2, <1>3, <1>4 DEF Owned
<1>5. CASE rec[r].occupied
  <2>1. Cardinality(Watching(managed, r)) = 0
    BY <1>3, <1>5 DEF Owned, Replaceable
  <2>2. Watching(managed, r) \subseteq Sessions   BY DEF Watching
  <2>3. IsFiniteSet(Watching(managed, r))
    BY <2>2, WorkloadAssumption, FS_Subset
  <2>4. QED BY <1>2, <2>1, <2>3, FS_EmptySet
<1>6. QED BY <1>4, <1>5

\* What a bind leaves in the table and in the session.
LEMMA BindFacts ==
    ASSUME Inv, NEW s \in Sessions, NEW name \in NamesOf[s],
           NEW create \in BOOLEAN, CanBind(s, name, create)
    PROVE  BoundFacts(s, name, create, Target(s, name, create),
                      Bound(s, name, create))
<1>1. /\ rec \in [Records -> RecordSet] /\ name \in Names
      /\ managed \in [Sessions -> Records \cup {None}]
      /\ asked \in [Sessions -> Names \cup {NoName}]
      /\ Owned(rec, managed, asked)
  BY OwnedNow, WorkloadAssumption DEF Inv, WorkloadTyped, Names
<1>2. CASE Stays(s, name)
  <2>1. /\ Target(s, name, create) = managed[s]
        /\ Bound(s, name, create) = rec
        /\ Matches(managed[s], name) /\ managed[s] \in Records
    BY <1>1, <1>2 DEF Target, Bound, Stays, Matches
  <2>2. [managed EXCEPT ![s] = managed[s]] = managed
    BY <1>1
  <2>3. Owned(rec, managed, [asked EXCEPT ![s] = name])
    <3>1. ASSUME NEW q \in Records, NEW x \in Watching(managed, q)
          PROVE  /\ rec[q].occupied
                 /\ rec[q].name \in {[asked EXCEPT ![s] = name][x], NoName}
      <4>1. CASE x = s
        BY <1>1, <2>1, <3>1, <4>1 DEF Watching, Matches
      <4>2. CASE x # s
        BY <1>1, <3>1, <4>2 DEF Owned, Watching
      <4>3. QED BY <4>1, <4>2
    <3>2. QED BY <1>1, <3>1 DEF Owned
  <2>4. QED
    BY <1>1, <2>1, <2>2, <2>3 DEF BoundFacts, SameUse, Matches
<1>3. CASE ~Stays(s, name)
  <2> DEFINE a2 == [asked EXCEPT ![s] = name]
  <2>1. PICK r, q, table, m2 :
            /\ r = Selected(name, create) /\ q = managed[s]
            /\ table = Detached(Attached(r, name), q)
            /\ m2 = [managed EXCEPT ![s] = r]
    OBVIOUS
  <2>2. /\ r # None /\ Target(s, name, create) = r
        /\ Bound(s, name, create) = table
    BY <1>3, <2>1 DEF CanBind, Target, Bound
  <2>3. /\ r \in Records
        /\ \/ Matches(r, name)
           \/ create /\ Replaceable(r) /\ ~Matches(r, name)
    BY <2>1, <2>2, SelectedFacts
  <2>4. q # r /\ q \in Records \cup {None}
    <3>1. CASE Matches(r, name)
      BY <1>1, <1>3, <2>1, <3>1 DEF Stays
    <3>2. CASE Replaceable(r)
      BY <1>1, <2>1, <2>3, <3>2, ReplaceableIsLeft DEF Watching
    <3>3. QED BY <2>3, <3>1, <3>2
  <2>5. AttachEffect(r, q, name, table)
    BY <1>1, <2>1, <2>3, <2>4, AttachFields
  <2>6. ~Matches(r, name) =>
            Watching(managed, r) = {} /\ rec[r].state \notin Active
    BY <2>3, ReplaceableIsLeft
  <2>7. \A x \in Records : x # r => SameUse(table[x], rec[x])
    BY <2>4, <2>5, NoneIsApart DEF SameUse, AttachEffect
  <2>8. Owned(table, m2, a2)
    <3>1. ASSUME NEW x \in Records
          PROVE  table[x].attachments = Cardinality(Watching(m2, x))
      <4>1. PICK m : m = managed
        OBVIOUS
      <4>2. /\ Cardinality(Watching(m, r)) \in Nat
            /\ x # r /\ x # q => Watching(m2, x) = Watching(m, x)
            /\ Cardinality(Watching(m2, r)) = Cardinality(Watching(m, r)) + 1
            /\ Cardinality(Watching(m2, q)) = Cardinality(Watching(m, q)) - 1
        <5>1. m[s] # r /\ m2 = [m EXCEPT ![s] = r] /\ q = m[s]
              /\ m \in [Sessions -> Records \cup {None}]
          BY <1>1, <2>1, <2>4, <4>1
        <5>2. MoveEffect(m, s, r, r, m2) /\ MoveEffect(m, s, r, x, m2)
          BY <5>1, Moved
        <5>3. QED BY <5>1, <5>2 DEF MoveEffect
      <4>3. Owned(rec, m, asked)
        BY <1>1, <4>1
      <4>4. CASE x = r /\ Matches(r, name)
        BY <2>3, <2>5, <4>2, <4>3, <4>4 DEF Owned, AttachEffect
      <4>5. CASE x = r /\ ~Matches(r, name)
        <5>1. Cardinality(Watching(m, r)) = 0
          BY <2>6, <4>1, <4>5, FS_EmptySet
        <5>2. QED BY <2>5, <4>2, <4>5, <5>1 DEF AttachEffect
      <4>6. CASE x = q
        BY <2>5, <4>2, <4>3, <4>6, NoneIsApart DEF Owned, AttachEffect
      <4>7. CASE x # r /\ x # q
        BY <2>5, <4>2, <4>3, <4>7 DEF Owned, AttachEffect
      <4>8. QED BY <4>4, <4>5, <4>6, <4>7
    <3>2. ASSUME NEW x \in Records, NEW y \in Watching(m2, x)
          PROVE  table[x].occupied /\ table[x].name \in {a2[y], NoName}
      <4>1. y \in Sessions /\ m2[y] = x   BY <3>2 DEF Watching
      <4>2. CASE y = s
        BY <1>1, <2>1, <2>5, <4>1, <4>2 DEF AttachEffect
      <4>3. CASE y # s
        <5>1. y \in Watching(managed, x) /\ a2[y] = asked[y]
          BY <1>1, <2>1, <4>1, <4>3 DEF Watching
        <5>2. x = r => Matches(r, name)
          BY <2>6, <5>1
        <5>3. SameUse(table[x], rec[x])
          BY <2>5, <2>7, <5>2 DEF AttachEffect
        <5>4. QED BY <1>1, <5>1, <5>3 DEF Owned, SameUse
      <4>4. QED BY <4>2, <4>3
    <3> HIDE DEF a2
    <3>3. QED BY <3>1, <3>2 DEF Owned
  <2>9. QED
    BY <2>1, <2>2, <2>3, <2>5, <2>6, <2>7, <2>8 DEF BoundFacts, AttachEffect
<1>4. QED BY <1>2, <1>3

------------------------------------------------------------------------------
(* Requests *)

\* VerdictStands, of one step.
Stands ==
    \A r \in Records :
        /\ rec[r].state \in TerminalStates =>
               rec'[r].state \in {rec[r].state, "Queued"}
        /\ rec[r].state = "Cancelling" /\ rec'[r].occupied =>
               rec'[r].state \in {"Cancelling", "Cancelled", "Failed",
                                  "Disconnected"}

\* What a request that bound record r, leaving table, may write. It keeps the
\* thread the record points at, if there is one; it gives no verdict over
\* another; and a script it does not start itself is no more the record's own
\* than it was, and is not at all when the record was taken over.
RequestEffect(s, name, r, table) ==
    /\ rec' \in [Records -> RecordSet] /\ thread' \in [Threads -> ThreadSet]
    /\ rpc' \in WaitSet
    /\ \A q \in Records : q # r => rec'[q] = table[q]
    /\ rec'[r].attachments = table[r].attachments /\ rec'[r].occupied
    /\ rec'[r].name \in {table[r].name, NoName}
    /\ ~rec'[r].project => rec'[r].state = "Queued"
    /\ rec'[r].state = "Queued" => rec'[r].thread = None /\ ~rec'[r].bound
    /\ table[r].thread # None => rec'[r].thread = table[r].thread
    /\ \/ rec'[r].state = table[r].state
       \/ rec'[r].state = "Queued" /\ table[r].state # "Cancelling"
       \/ /\ rec'[r].state # "Cancelled" /\ Matches(r, name)
          /\ table[r].state \in {"Queued", "Running"}
    /\ rpc'.pc # "idle" =>
           /\ rpc'.session = s /\ rpc'.thread \in Threads
           /\ rpc'.thread = rec'[r].thread
           /\ rpc'.pc = "create" => rec'[r].state \in TerminalStates
    /\ \A t \in Threads : thread'[t].phase \in {"running", "trace"} =>
           \/ /\ Alive(t) /\ thread'[t].record = thread[t].record
              /\ thread'[t].mine =>
                     /\ thread[t].mine
                     /\ thread[t].record = r => Matches(r, name)
           \/ /\ thread'[t].record = r /\ rec'[r].thread = t
              /\ rec'[r].state # "Cancelled"

\* What every request leaves alone.
LEMMA RequestFacts ==
    ASSUME Inv, NEW s \in Sessions, NEW name \in NamesOf[s],
           NEW create \in BOOLEAN, Request(s, name, create),
           NEW r, r = Target(s, name, create),
           NEW table, table = Bound(s, name, create)
    PROVE  /\ BoundFacts(s, name, create, r, table)
           /\ rpc = Idle /\ timer' = timer
           /\ timer.session # s
           /\ managed' = [managed EXCEPT ![s] = r]
           /\ asked' = [asked EXCEPT ![s] = name]
<1>1. BoundFacts(s, name, create, r, table)
  BY BindFacts DEF Request
<1>2. QED BY <1>1 DEF Request

\* A request of a session keeps the invariant.
LEMMA RequestKeeps ==
    ASSUME Inv, NEW s \in Sessions, NEW name \in NamesOf[s],
           NEW create \in BOOLEAN, Request(s, name, create),
           NEW r, r = Target(s, name, create),
           NEW table, table = Bound(s, name, create),
           RequestEffect(s, name, r, table)
    PROVE  Inv' /\ Stands
<1>1. /\ BoundFacts(s, name, create, r, table)
      /\ rpc = Idle /\ timer' = timer
      /\ timer.session # s
      /\ managed' = [managed EXCEPT ![s] = r]
      /\ asked' = [asked EXCEPT ![s] = name]
  BY RequestFacts
<1>2. /\ r \in Records /\ table \in [Records -> RecordSet]
      /\ table[r].occupied
      /\ \A q \in Records : q # r => SameUse(table[q], rec[q])
      /\ \/ Matches(r, name) /\ SameUse(table[r], rec[r])
         \/ /\ ~Matches(r, name)
            /\ table[r].state = "Queued"
            /\ Watching(managed, r) = {} /\ rec[r].state \notin Active
      /\ Owned(table, managed', asked')
  BY <1>1 DEF BoundFacts
<1>3. /\ rec \in [Records -> RecordSet] /\ thread \in [Threads -> ThreadSet]
      /\ managed \in [Sessions -> Records \cup {None}]
      /\ asked \in [Sessions -> Names \cup {NoName}]
      /\ rpc \in WaitSet /\ timer \in WaitSet /\ name \in Names
  BY WorkloadAssumption DEF Inv, WorkloadTyped, Names
<1>4. WorkloadTyped'
  BY <1>1, <1>2, <1>3 DEF WorkloadTyped, RequestEffect
<1>5. RecordInv'
  BY <1>2 DEF Inv, RecordInv, RequestEffect, SameUse
<1>6. ASSUME NEW t \in Threads, thread'[t].phase \in {"running", "trace"}
      PROVE  /\ thread'[t].record \in Records
             /\ thread'[t].mine =>
                    /\ rec'[thread'[t].record].thread = t
                    /\ rec'[thread'[t].record].state # "Cancelled"
  <2>1. CASE /\ Alive(t) /\ thread'[t].record = thread[t].record
             /\ thread'[t].mine =>
                    /\ thread[t].mine
                    /\ thread[t].record = r => Matches(r, name)
    <3> DEFINE q == thread[t].record
    <3>1. /\ q \in Records
          /\ thread[t].mine => rec[q].thread = t /\ rec[q].state # "Cancelled"
      BY <2>1 DEF Inv, ScriptInv, CancelledIsStopped, Alive
    <3>2. CASE q # r
      BY <1>2, <2>1, <3>1, <3>2 DEF RequestEffect, SameUse
    <3>3. CASE q = r /\ Matches(r, name)
      BY <1>2, <2>1, <3>1, <3>3, NoneIsApart DEF RequestEffect, SameUse
    <3>4. QED BY <2>1, <3>1, <3>2, <3>3
  <2>2. CASE /\ thread'[t].record = r /\ rec'[r].thread = t
             /\ rec'[r].state # "Cancelled"
    BY <1>2, <2>2
  <2>3. QED BY <1>6, <2>1, <2>2 DEF RequestEffect
<1>7. ScriptInv' /\ CancelledIsStopped'
  BY <1>6 DEF ScriptInv, CancelledIsStopped, Alive
<1>8. HandlerInv'
  BY <1>1, <1>2, <1>3 DEF HandlerInv, RequestEffect
<1>9. TimerInv'
  <2>1. SUFFICES ASSUME timer.pc # "idle"
                 PROVE  TimerInv'
    BY <1>1 DEF TimerInv
  <2> DEFINE q == managed[timer.session]
  <2>2. /\ timer.session \in Sessions /\ q \in Records
        /\ managed'[timer.session] = q
        /\ timer.session \in Watching(managed, q)
        /\ timer.pc = "join" =>
               timer.thread \in Threads /\ rec[q].thread = timer.thread
    BY <1>1, <1>3, <2>1 DEF Inv, TimerInv, Watching
  <2>3. SameUse(table[q], rec[q])
    BY <1>2, <2>2
  <2>4. timer.pc = "join" => rec'[q].thread = timer.thread
    BY <1>2, <2>2, <2>3, NoneIsApart DEF RequestEffect, SameUse
  <2>5. rpc'.pc # "idle" => rpc'.session # timer.session
    BY <1>1 DEF RequestEffect
  <2>6. QED BY <1>1, <2>2, <2>4, <2>5 DEF TimerInv
<1>10. AttachedIsOwned'
  <2>1. PICK m, a, t2 : m = managed' /\ a = asked' /\ t2 = rec'
    OBVIOUS
  <2>2. \A q \in Records : /\ t2[q].attachments = table[q].attachments
                           /\ t2[q].occupied = table[q].occupied
                           /\ t2[q].name \in {table[q].name, NoName}
    BY <1>2, <1>4, <2>1 DEF RequestEffect, RecordSet, WorkloadTyped
  <2>3. Owned(t2, m, a)
    BY <1>2, <2>1, <2>2, OwnedKept
  <2>4. QED BY <2>1, <2>3, OwnedNext
<1>11. Stands
  <2>1. SUFFICES ASSUME NEW q \in Records
                 PROVE  /\ rec[q].state \in TerminalStates =>
                               rec'[q].state \in {rec[q].state, "Queued"}
                        /\ rec[q].state = "Cancelling" =>
                               rec'[q].state \in {"Cancelling", "Cancelled",
                                                  "Failed", "Disconnected"}
    BY DEF Stands
  <2>2. CASE q # r
    BY <1>2, <2>2 DEF RequestEffect, SameUse
  <2>3. CASE q = r /\ Matches(r, name)
    BY <1>2, <2>3 DEF RequestEffect, SameUse, TerminalStates
  <2>4. CASE q = r /\ ~Matches(r, name)
    BY <1>2, <2>4 DEF RequestEffect, SameUse, TerminalStates, Active
  <2>5. QED BY <2>2, <2>3, <2>4
<1>12. QED
  BY <1>4, <1>5, <1>7, <1>8, <1>9, <1>10, <1>11 DEF Inv

\* The threads after a record is taken over, and after one is told to stop.
LEMMA DisownedFields ==
    ASSUME thread \in [Threads -> ThreadSet], NEW r
    PROVE  /\ Disowned(r) \in [Threads -> ThreadSet]
           /\ \A t \in Threads :
                  Disowned(r)[t].phase \in {"running", "trace"} =>
                      /\ Disowned(r)[t].phase = thread[t].phase
                      /\ Disowned(r)[t].record = thread[t].record
                      /\ Disowned(r)[t].mine =>
                             thread[t].mine /\ thread[t].record # r
<1>1. NoThread \in ThreadSet /\ NoThread.phase = "free"
  BY DEF NoThread, ThreadSet, None
<1>2. \A t \in Threads : [thread[t] EXCEPT !.mine = FALSE] \in ThreadSet
  BY DEF ThreadSet
<1>3. QED
  BY <1>1, <1>2 DEF Disowned, ThreadSet

\* What stopping a script changes of its thread.
LEMMA StoppedFields ==
    ASSUME NEW threads \in [Threads -> ThreadSet], NEW t \in Threads
    PROVE  /\ Stopped(threads, t) \in [Threads -> ThreadSet]
           /\ \A u \in Threads :
                  /\ Stopped(threads, t)[u].phase = threads[u].phase
                  /\ Stopped(threads, t)[u].record = threads[u].record
                  /\ Stopped(threads, t)[u].mine = threads[u].mine
BY DEF Stopped, ThreadSet

\* A handler that waits for nothing.
LEMMA IdleTyped == Idle \in WaitSet /\ Idle.pc = "idle"
BY DEF Idle, WaitSet, None

\* poison_workload_js_cancel up to the join: a Running record whose script
\* reports to it becomes Cancelling and is waited for.
CancelEffect(s, r, table, threads) ==
    /\ rec' \in [Records -> RecordSet]
    /\ thread' \in [Threads -> ThreadSet] /\ rpc' \in WaitSet
    /\ \A q \in Records : q # r => rec'[q] = table[q]
    /\ rec'[r].attachments = table[r].attachments
    /\ rec'[r].occupied = table[r].occupied
    /\ rec'[r].name = table[r].name
    /\ rec'[r].project = table[r].project
    /\ rec'[r].thread = table[r].thread
    /\ rec'[r].bound = table[r].bound
    /\ \/ rec'[r].state = table[r].state /\ rpc' = Idle
       \/ /\ rec'[r].state = "Cancelling" /\ table[r].state = "Running"
          /\ rpc'.pc = "join" /\ rpc'.session = s
          /\ rpc'.thread \in Threads /\ rpc'.thread = rec'[r].thread
    /\ \A t \in Threads : /\ thread'[t].phase = threads[t].phase
                          /\ thread'[t].record = threads[t].record
                          /\ thread'[t].mine = threads[t].mine

\* What a cancel changes in the record it names.
LEMMA CancelFields ==
    ASSUME NEW s \in Sessions, NEW r \in Records,
           NEW table \in [Records -> RecordSet],
           NEW threads \in [Threads -> ThreadSet],
           poison_workload_js_cancel(s, table, threads, r)
    PROVE  CancelEffect(s, r, table, threads)
<1>1. CASE /\ table[r].state = "Running" /\ table[r].thread # None
           /\ table[r].bound
  <2>1. /\ rec' = [table EXCEPT ![r].state = "Cancelling"]
        /\ thread' = Stopped(threads, table[r].thread)
        /\ rpc' = [pc |-> "join", session |-> s, thread |-> table[r].thread]
    BY <1>1 DEF poison_workload_js_cancel
  <2>2. table[r] \in RecordSet /\ table[r].thread \in Threads
    BY <1>1 DEF RecordSet
  <2>3. /\ rec' \in [Records -> RecordSet]
        /\ \A q \in Records : q # r => rec'[q] = table[q]
        /\ rec'[r] = [table[r] EXCEPT !.state = "Cancelling"]
    BY <2>1, <2>2 DEF RecordSet, States, Active
  <2>4. rpc' \in WaitSet
    BY <2>1, <2>2 DEF WaitSet
  <2>5. /\ thread' \in [Threads -> ThreadSet]
        /\ \A t \in Threads : /\ thread'[t].phase = threads[t].phase
                              /\ thread'[t].record = threads[t].record
                              /\ thread'[t].mine = threads[t].mine
    BY <2>1, <2>2, StoppedFields
  <2>6. /\ rec'[r].attachments = table[r].attachments
        /\ rec'[r].occupied = table[r].occupied
        /\ rec'[r].name = table[r].name
        /\ rec'[r].project = table[r].project
        /\ rec'[r].thread = table[r].thread
        /\ rec'[r].bound = table[r].bound
        /\ rec'[r].state = "Cancelling"
    BY <2>2, <2>3 DEF RecordSet
  <2>7. QED
    BY <1>1, <2>1, <2>2, <2>3, <2>4, <2>5, <2>6 DEF CancelEffect
<1>2. CASE ~(/\ table[r].state = "Running" /\ table[r].thread # None
             /\ table[r].bound)
  <2>1. rec' = table /\ thread' = threads /\ rpc' = Idle
    BY <1>2 DEF poison_workload_js_cancel
  <2>2. QED BY <2>1, IdleTyped DEF CancelEffect
<1>3. QED BY <1>1, <1>2

\* A request other than CREATE finds the workload or is refused, and has the
\* record's fields as they were.
LEMMA FoundFacts ==
    ASSUME Inv, NEW s \in Sessions, NEW name \in NamesOf[s],
           Request(s, name, FALSE),
           NEW r, r = Target(s, name, FALSE),
           NEW table, table = Bound(s, name, FALSE)
    PROVE  /\ r \in Records /\ table \in [Records -> RecordSet]
           /\ Matches(r, name) /\ table[r].occupied /\ rpc = Idle
           /\ ~table[r].project => table[r].state = "Queued"
           /\ table[r].state = "Queued" =>
                  table[r].thread = None /\ ~table[r].bound
           /\ rpc \in WaitSet /\ rpc.pc = "idle"
           /\ thread \in [Threads -> ThreadSet]
           /\ \A t \in Threads : thread[t] \in ThreadSet
<1>1. BoundFacts(s, name, FALSE, r, table) /\ rpc = Idle
  BY RequestFacts
<1>2. /\ r \in Records /\ table \in [Records -> RecordSet]
      /\ Matches(r, name) /\ SameUse(table[r], rec[r]) /\ table[r].occupied
  BY <1>1 DEF BoundFacts
<1>3. thread \in [Threads -> ThreadSet]
  BY DEF Inv, WorkloadTyped
<1>4. QED
  BY <1>1, <1>2, <1>3, IdleTyped DEF Inv, RecordInv, SameUse

\* CANCEL keeps the invariant.
LEMMA CancelKeeps ==
    ASSUME Inv, NEW s \in Sessions, NEW name \in NamesOf[s],
           rpc_poison_workload_cancel(s, name)
    PROVE  Inv' /\ Stands
<1>1. PICK r, table, threads :
          /\ r = Target(s, name, FALSE) /\ table = Bound(s, name, FALSE)
          /\ threads = thread
  OBVIOUS
<1>2. /\ Request(s, name, FALSE)
      /\ poison_workload_js_cancel(s, table, threads, r)
  BY <1>1 DEF rpc_poison_workload_cancel
<1>3. /\ r \in Records /\ table \in [Records -> RecordSet]
      /\ Matches(r, name) /\ table[r].occupied
      /\ ~table[r].project => table[r].state = "Queued"
      /\ table[r].state = "Queued" =>
             table[r].thread = None /\ ~table[r].bound
      /\ threads \in [Threads -> ThreadSet]
  BY <1>1, <1>2, FoundFacts
<1>4. CancelEffect(s, r, table, threads)
  BY <1>2, <1>3, CancelFields
<1>5. RequestEffect(s, name, r, table)
  BY <1>1, <1>3, <1>4, IdleTyped DEF CancelEffect, RequestEffect, Alive
<1>6. QED BY <1>1, <1>2, <1>5, RequestKeeps

\* INSPECT keeps the invariant.
LEMMA InspectKeeps ==
    ASSUME Inv, NEW s \in Sessions, NEW name \in NamesOf[s],
           rpc_poison_workload_inspect(s, name)
    PROVE  Inv' /\ Stands
<1>1. PICK r, table :
          r = Target(s, name, FALSE) /\ table = Bound(s, name, FALSE)
  OBVIOUS
<1>2. /\ Request(s, name, FALSE) /\ rec' = table
      /\ thread' = thread /\ rpc' = rpc
  BY <1>1 DEF rpc_poison_workload_inspect
<1>3. /\ r \in Records /\ table \in [Records -> RecordSet]
      /\ Matches(r, name) /\ table[r].occupied
      /\ ~table[r].project => table[r].state = "Queued"
      /\ table[r].state = "Queued" =>
             table[r].thread = None /\ ~table[r].bound
      /\ rpc \in WaitSet /\ rpc.pc = "idle"
      /\ thread \in [Threads -> ThreadSet]
  BY <1>1, <1>2, FoundFacts
<1>4. RequestEffect(s, name, r, table)
  BY <1>2, <1>3 DEF RequestEffect, Alive
<1>5. QED BY <1>1, <1>2, <1>4, RequestKeeps

\* The verdict on a script that ended keeps the invariant.
LEMMA FinalizeKeeps ==
    ASSUME Inv, NEW s \in Sessions, NEW name \in NamesOf[s],
           rpc_poison_workload_finalize_artifact(s, name)
    PROVE  Inv' /\ Stands
<1>1. PICK r, table :
          r = Target(s, name, FALSE) /\ table = Bound(s, name, FALSE)
  OBVIOUS
<1>2. /\ Request(s, name, FALSE) /\ table[r].state = "Running"
      /\ rec' = [table EXCEPT ![r].state = force_terminate(@, "Failed")]
      /\ thread' = thread /\ rpc' = rpc
  BY <1>1 DEF rpc_poison_workload_finalize_artifact
<1>3. /\ r \in Records /\ table \in [Records -> RecordSet]
      /\ Matches(r, name) /\ table[r].occupied
      /\ ~table[r].project => table[r].state = "Queued"
      /\ rpc \in WaitSet /\ rpc.pc = "idle"
      /\ thread \in [Threads -> ThreadSet]
  BY <1>1, <1>2, FoundFacts
<1>4. /\ rec' = [table EXCEPT ![r].state = "Failed"]
      /\ table[r] \in RecordSet
  BY <1>2, <1>3 DEF force_terminate, Active
<1>5. /\ rec' \in [Records -> RecordSet]
      /\ \A q \in Records : q # r => rec'[q] = table[q]
      /\ rec'[r].attachments = table[r].attachments
      /\ rec'[r].occupied /\ rec'[r].name = table[r].name
      /\ rec'[r].project /\ rec'[r].thread = table[r].thread
      /\ rec'[r].state = "Failed"
  BY <1>2, <1>3, <1>4 DEF RecordSet, States, TerminalStates
<1>6. RequestEffect(s, name, r, table)
  BY <1>2, <1>3, <1>5 DEF RequestEffect, Alive
<1>7. QED BY <1>1, <1>2, <1>6, RequestKeeps

\* A free place for a script is one of the threads.
LEMMA SpareIsThread ==
    ASSUME Spares # {}
    PROVE  Min(Spares) \in Threads /\ thread[Min(Spares)].phase = "free"
<1>1. Spares \subseteq Nat
  BY WorkloadAssumption DEF Spares
<1>2. Min(Spares) \in Spares
  BY <1>1, MinIsMember
<1>3. QED BY <1>2 DEF Spares

\* RUN keeps the invariant.
LEMMA RunKeeps ==
    ASSUME Inv, NEW s \in Sessions, NEW name \in NamesOf[s],
           rpc_poison_workload_run(s, name)
    PROVE  Inv' /\ Stands
<1>1. PICK r, table, t, running, started :
          /\ r = Target(s, name, FALSE) /\ table = Bound(s, name, FALSE)
          /\ t = Min(Spares)
          /\ running = [table EXCEPT ![r].state = "Running", ![r].thread = t,
                                     ![r].bound = TRUE]
          /\ started = [thread EXCEPT ![t] = Started(r)]
  OBVIOUS
<1>2. /\ Request(s, name, FALSE)
      /\ table[r].project /\ table[r].state = "Queued"
  BY <1>1 DEF rpc_poison_workload_run
<1>3. /\ r \in Records /\ table \in [Records -> RecordSet]
      /\ Matches(r, name) /\ table[r].occupied
      /\ table[r].thread = None /\ rpc = Idle
      /\ thread \in [Threads -> ThreadSet]
  BY <1>1, <1>2, FoundFacts
<1>4. table[r] \in RecordSet
  BY <1>3
<1>5. CASE /\ rec' = [table EXCEPT ![r].state = "Crashed"]
           /\ rpc' = Idle /\ thread' = thread
  <2>1. /\ rec' \in [Records -> RecordSet]
        /\ \A q \in Records : q # r => rec'[q] = table[q]
        /\ rec'[r].attachments = table[r].attachments
        /\ rec'[r].occupied /\ rec'[r].name = table[r].name
        /\ rec'[r].project /\ rec'[r].thread = table[r].thread
        /\ rec'[r].state = "Crashed"
    BY <1>2, <1>3, <1>4, <1>5 DEF RecordSet, States, TerminalStates
  <2>2. RequestEffect(s, name, r, table)
    BY <1>2, <1>3, <1>5, <2>1, IdleTyped DEF RequestEffect, Alive
  <2>3. QED BY <1>1, <1>2, <2>2, RequestKeeps
<1>6. CASE Spares # {}
           /\ \/ rec' = running /\ thread' = started /\ rpc' = Idle
              \/ poison_workload_js_cancel(s, running, started, r)
  <2>1. t \in Threads /\ t # None
    BY <1>1, <1>6, SpareIsThread, NoneIsApart
  <2>2. /\ running \in [Records -> RecordSet]
        /\ \A q \in Records : q # r => running[q] = table[q]
        /\ running[r].attachments = table[r].attachments
        /\ running[r].occupied /\ running[r].name = table[r].name
        /\ running[r].project /\ running[r].thread = t
        /\ running[r].state = "Running"
    BY <1>1, <1>2, <1>3, <1>4, <2>1, ZenonT(30) DEF RecordSet, States, Active
  <2>3. Started(r) \in ThreadSet /\ Started(r).record = r
    BY <1>3 DEF Started, ThreadSet
  <2>4. /\ started \in [Threads -> ThreadSet]
        /\ started[t].record = r
        /\ \A u \in Threads : u # t => started[u] = thread[u]
    BY <1>1, <1>3, <2>1, <2>3
  <2>5. CASE rec' = running /\ thread' = started /\ rpc' = Idle
    <3>1. RequestEffect(s, name, r, table)
      BY <1>2, <1>3, <2>1, <2>2, <2>4, <2>5, IdleTyped DEF RequestEffect, Alive
    <3>2. QED BY <1>1, <1>2, <3>1, RequestKeeps
  <2>6. CASE poison_workload_js_cancel(s, running, started, r)
    <3>1. CancelEffect(s, r, running, started)
      BY <1>3, <2>2, <2>4, <2>6, CancelFields
    <3>2. RequestEffect(s, name, r, table)
      BY <1>2, <1>3, <2>1, <2>2, <2>4, <3>1, IdleTyped
         DEF CancelEffect, RequestEffect, Alive
    <3>3. QED BY <1>1, <1>2, <3>2, RequestKeeps
  <2>7. QED BY <1>6, <2>5, <2>6
<1>7. QED
  BY <1>1, <1>5, <1>6 DEF rpc_poison_workload_run

\* What create writes in a record whose adapter is cleaned up.
CreateEffect(c, name, d) ==
    /\ d \in RecordSet
    /\ d.attachments = c.attachments /\ d.occupied = c.occupied
    /\ d.name \in {name, c.name, NoName}
    /\ d.state = "Queued" /\ d.thread = None /\ ~d.bound

\* What a create puts in the slot it takes.
LEMMA CreatedFields ==
    ASSUME NEW c \in RecordSet, NEW name \in Names \cup {NoName},
           NEW verified \in BOOLEAN, NEW d,
           d = Created(Unadapted(c), name, verified),
           ~c.project => c.state = "Queued"
    PROVE  CreateEffect(c, name, d)
<1>1. /\ Unadapted(c) \in RecordSet
      /\ Unadapted(c).attachments = c.attachments
      /\ Unadapted(c).occupied = c.occupied
      /\ Unadapted(c).name = c.name /\ Unadapted(c).project = c.project
      /\ Unadapted(c).state = c.state
      /\ Unadapted(c).thread = None /\ Unadapted(c).bound = FALSE
  BY DEF RecordSet, Unadapted
<1>2. PICK u : u = Unadapted(c)
  OBVIOUS
<1>3. CASE verified
  <2>1. d = [u EXCEPT !.project = TRUE, !.name = name, !.state = "Queued"]
    BY <1>2, <1>3 DEF Created
  <2>2. QED BY <1>1, <1>2, <2>1 DEF RecordSet, States, CreateEffect
<1>4. CASE ~verified /\ u.project
  <2>1. d = [u EXCEPT !.project = FALSE, !.name = NoName, !.state = "Queued"]
    BY <1>2, <1>4 DEF Created
  <2>2. QED BY <1>1, <1>2, <2>1 DEF RecordSet, States, CreateEffect
<1>5. CASE ~verified /\ ~u.project
  <2>1. d = u
    BY <1>2, <1>5 DEF Created
  <2>2. QED BY <1>1, <1>2, <1>5, <2>1 DEF CreateEffect
<1>6. QED BY <1>3, <1>4, <1>5

\* CREATE keeps the invariant.
LEMMA CreateKeeps ==
    ASSUME Inv, NEW s \in Sessions, NEW name \in NamesOf[s],
           rpc_poison_workload_create(s, name)
    PROVE  Inv' /\ Stands
<1>1. PICK r, table, c, bound :
          /\ r = Target(s, name, TRUE) /\ table = Bound(s, name, TRUE)
          /\ c = table[r] /\ bound = BoundThreads(s, name, TRUE)
  OBVIOUS
<1>2. Request(s, name, TRUE)
  BY DEF rpc_poison_workload_create
<1>3. BoundFacts(s, name, TRUE, r, table) /\ rpc = Idle
  BY <1>1, <1>2, RequestFacts
<1>4. /\ r \in Records /\ table \in [Records -> RecordSet] /\ c \in RecordSet
      /\ c.occupied /\ c.name = name /\ name \in Names
      /\ \/ Matches(r, name) /\ SameUse(c, rec[r])
         \/ /\ ~c.project /\ c.state = "Queued" /\ c.thread = None /\ ~c.bound
            /\ ~Matches(r, name)
  BY <1>1, <1>3, WorkloadAssumption DEF BoundFacts, Names
<1>5. /\ ~c.project => c.state = "Queued"
      /\ c.state = "Queued" => c.thread = None /\ ~c.bound
  BY <1>4 DEF Inv, RecordInv, SameUse
<1>6. thread \in [Threads -> ThreadSet]
  BY DEF Inv, WorkloadTyped
<1>7. CASE c.project /\ c.state \notin TerminalStates
  <2>1. rec' = table /\ thread' = bound /\ rpc' = Idle
    BY <1>1, <1>7 DEF rpc_poison_workload_create
  <2>2. Matches(r, name) /\ bound = thread
    BY <1>1, <1>4, <1>7 DEF BoundThreads
  <2>3. RequestEffect(s, name, r, table)
    BY <1>1, <1>4, <1>5, <1>6, <2>1, <2>2, IdleTyped DEF RequestEffect, Alive
  <2>4. QED BY <1>1, <1>2, <2>3, RequestKeeps
<1>8. CASE c.project /\ c.state \in TerminalStates /\ c.thread # None
  <2>1. /\ rec' = table /\ thread' = Stopped(bound, c.thread)
        /\ rpc' = [pc |-> "create", session |-> s, thread |-> c.thread]
    BY <1>1, <1>8 DEF rpc_poison_workload_create
  <2>2. Matches(r, name) /\ bound = thread
    BY <1>1, <1>4, <1>8 DEF BoundThreads
  <2>3. c.thread \in Threads
    BY <1>4, <1>8 DEF RecordSet
  <2>4. /\ rpc' \in WaitSet /\ rpc'.pc = "create"
        /\ rpc'.session = s /\ rpc'.thread = c.thread
    BY <2>1, <2>3 DEF WaitSet
  <2>5. /\ thread' \in [Threads -> ThreadSet]
        /\ \A t \in Threads : /\ thread'[t].phase = bound[t].phase
                              /\ thread'[t].record = bound[t].record
                              /\ thread'[t].mine = bound[t].mine
    BY <1>6, <2>1, <2>2, <2>3, StoppedFields
  <2>6. rec' = table /\ rec'[r] = c
    BY <1>1, <2>1
  <2>7. RequestEffect(s, name, r, table)
    BY <1>4, <1>5, <1>8, <2>2, <2>3, <2>4, <2>5, <2>6
       DEF RequestEffect, Alive
  <2>8. QED BY <1>1, <1>2, <2>7, RequestKeeps
<1>9. CASE /\ ~(c.project /\ c.state \notin TerminalStates)
           /\ ~(c.project /\ c.state \in TerminalStates /\ c.thread # None)
  <2>1. /\ \E verified \in BOOLEAN :
               rec' = [table EXCEPT
                           ![r] = Created(Unadapted(c), name, verified)]
        /\ thread' = Disowned(r) /\ rpc' = Idle
    BY <1>1, <1>9 DEF rpc_poison_workload_create
  <2>2. PICK verified \in BOOLEAN :
            rec' = [table EXCEPT ![r] = Created(Unadapted(c), name, verified)]
    BY <2>1
  <2>3. PICK d : d = Created(Unadapted(c), name, verified)
    OBVIOUS
  <2>4. CreateEffect(c, name, d)
    BY <1>4, <1>5, <2>3, CreatedFields
  <2>5. /\ rec' \in [Records -> RecordSet] /\ rec'[r] = d
        /\ \A q \in Records : q # r => rec'[q] = table[q]
    BY <1>4, <2>2, <2>3, <2>4 DEF CreateEffect
  <2>6. c.thread = None /\ c.state # "Cancelling"
    BY <1>5, <1>9 DEF TerminalStates
  <2>7. /\ thread' \in [Threads -> ThreadSet]
        /\ \A t \in Threads : thread'[t].phase \in {"running", "trace"} =>
               /\ thread'[t].phase = thread[t].phase
               /\ thread'[t].record = thread[t].record
               /\ thread'[t].mine => thread[t].mine /\ thread[t].record # r
    BY <1>6, <2>1, DisownedFields
  <2>8. RequestEffect(s, name, r, table)
    BY <1>1, <1>4, <2>1, <2>4, <2>5, <2>6, <2>7, IdleTyped
       DEF CreateEffect, RequestEffect, Alive
  <2>9. QED BY <1>1, <1>2, <2>8, RequestKeeps
<1>10. QED BY <1>7, <1>8, <1>9

------------------------------------------------------------------------------
(* Joins, scripts and sessions that go *)

\* Attachments stay owned when no record is attached, freed or renamed.
LEMMA OwnedStays ==
    ASSUME AttachedIsOwned, managed' = managed, asked' = asked,
           \A q \in Records : /\ rec'[q].attachments = rec[q].attachments
                              /\ rec'[q].occupied = rec[q].occupied
                              /\ rec'[q].name \in {rec[q].name, NoName}
    PROVE  AttachedIsOwned'
<1>1. PICK m, a, t1, t2 :
          m = managed /\ a = asked /\ t1 = rec /\ t2 = rec'
  OBVIOUS
<1>2. Owned(t1, m, a)
  BY <1>1, OwnedNow
<1>3. Owned(t2, m, a)
  BY <1>1, <1>2, OwnedKept
<1>4. QED BY <1>1, <1>3, OwnedNext

\* The typing of every part, for the lemmas below.
LEMMA Parts ==
    ASSUME Inv
    PROVE  /\ rec \in [Records -> RecordSet]
           /\ \A r \in Records : rec[r] \in RecordSet
           /\ thread \in [Threads -> ThreadSet]
           /\ \A t \in Threads : thread[t] \in ThreadSet
           /\ managed \in [Sessions -> Records \cup {None}]
           /\ asked \in [Sessions -> Names \cup {NoName}]
           /\ rpc \in WaitSet /\ timer \in WaitSet
BY DEF Inv, WorkloadTyped

\* A CREATE that waited for the script of its record keeps the invariant.
LEMMA CreateJoinedKeeps ==
    ASSUME Inv, create_joined
    PROVE  Inv' /\ Stands
<1>1. PICK r, c : r = managed[rpc.session] /\ c = rec[r]
  OBVIOUS
<1>2. /\ rpc.pc = "create" /\ timer.thread # rpc.thread
      /\ \E verified \in BOOLEAN :
             rec' = [rec EXCEPT
                         ![r] = Created(Unadapted(@), @.name, verified)]
      /\ thread' = Disowned(r) /\ rpc' = Idle
      /\ managed' = managed /\ asked' = asked /\ timer' = timer
  BY <1>1 DEF create_joined
<1>3. /\ r \in Records /\ rpc.thread \in Threads /\ c \in RecordSet
      /\ c.thread = rpc.thread /\ c.state \in TerminalStates
      /\ ~c.project => c.state = "Queued"
      /\ c.name \in Names \cup {NoName} /\ c.occupied
  BY <1>1, <1>2, Parts
     DEF Inv, HandlerInv, RecordInv, RecordSet, TerminalStates
<1>4. PICK verified \in BOOLEAN :
          rec' = [rec EXCEPT ![r] = Created(Unadapted(@), @.name, verified)]
  BY <1>2
<1>5. PICK d : d = Created(Unadapted(c), c.name, verified)
  OBVIOUS
<1>6. CreateEffect(c, c.name, d)
  <2>1. PICK name : name = c.name
    OBVIOUS
  <2>2. CreateEffect(c, name, d)
    BY <1>3, <1>5, <2>1, CreatedFields
  <2>3. QED BY <2>1, <2>2
<1>7. /\ rec' \in [Records -> RecordSet] /\ rec'[r] = d
      /\ \A q \in Records : q # r => rec'[q] = rec[q]
  BY <1>1, <1>3, <1>4, <1>5, <1>6, Parts DEF CreateEffect
<1>8. /\ thread' \in [Threads -> ThreadSet]
      /\ \A t \in Threads : thread'[t].phase \in {"running", "trace"} =>
             /\ thread'[t].phase = thread[t].phase
             /\ thread'[t].record = thread[t].record
             /\ thread'[t].mine => thread[t].mine /\ thread[t].record # r
  BY <1>2, Parts, DisownedFields
<1>9. WorkloadTyped' /\ HandlerInv'
  BY <1>2, <1>7, <1>8, Parts, IdleTyped DEF WorkloadTyped, HandlerInv
<1>10. RecordInv'
  BY <1>3, <1>6, <1>7 DEF Inv, RecordInv, CreateEffect
<1>11. ScriptInv' /\ CancelledIsStopped'
  BY <1>7, <1>8 DEF Inv, ScriptInv, CancelledIsStopped, Alive
<1>12. TimerInv'
  <2>1. timer.pc = "join" => managed[timer.session] # r
    BY <1>1, <1>2, <1>3 DEF Inv, TimerInv
  <2>2. QED
    BY <1>2, <1>7, <2>1, IdleTyped DEF Inv, TimerInv
<1>13. AttachedIsOwned'
  BY <1>1, <1>2, <1>3, <1>6, <1>7, OwnedStays DEF Inv, CreateEffect
<1>14. Stands
  BY <1>1, <1>3, <1>6, <1>7 DEF Stands, CreateEffect, TerminalStates
<1>15. QED
  BY <1>9, <1>10, <1>11, <1>12, <1>13, <1>14 DEF Inv

\* A CANCEL that waited for its script keeps the invariant.
LEMMA CancelJoinedKeeps ==
    ASSUME Inv, js_cancel_joined
    PROVE  Inv' /\ Stands
<1>1. PICK r : r = managed[rpc.session]
  OBVIOUS
<1>2. /\ rpc.pc = "join" /\ timer.thread # rpc.thread
      /\ thread[rpc.thread].phase = "ended"
      /\ rec' = [rec EXCEPT ![r].thread = None,
                            ![r].state = force_terminate(@, "Cancelled")]
      /\ thread' = [thread EXCEPT ![rpc.thread] = NoThread] /\ rpc' = Idle
      /\ managed' = managed /\ asked' = asked /\ timer' = timer
  BY <1>1 DEF js_cancel_joined, Joined, Freed
<1>3. /\ r \in Records /\ rpc.thread \in Threads
      /\ rec[r] \in RecordSet /\ rec[r].thread = rpc.thread
  BY <1>1, <1>2, Parts DEF Inv, HandlerInv
<1>4. /\ rec' \in [Records -> RecordSet]
      /\ \A q \in Records : q # r => rec'[q] = rec[q]
      /\ rec'[r].attachments = rec[r].attachments
      /\ rec'[r].occupied = rec[r].occupied
      /\ rec'[r].name = rec[r].name /\ rec'[r].project = rec[r].project
      /\ rec'[r].thread = None /\ rec'[r].bound = rec[r].bound
      /\ rec'[r].state = IF rec[r].state \in Active THEN "Cancelled"
                         ELSE rec[r].state
  BY <1>2, <1>3, Parts
     DEF RecordSet, force_terminate, States, Active, TerminalStates
<1>5. NoThread \in ThreadSet /\ NoThread.phase = "free"
  BY DEF NoThread, ThreadSet, None
<1>6. /\ thread' \in [Threads -> ThreadSet]
      /\ \A t \in Threads : thread'[t].phase \in {"running", "trace"} =>
             thread'[t] = thread[t] /\ t # rpc.thread
  BY <1>2, <1>3, <1>5, Parts
<1>7. WorkloadTyped' /\ HandlerInv'
  BY <1>2, <1>4, <1>6, Parts, IdleTyped DEF WorkloadTyped, HandlerInv
<1>8. RecordInv'
  BY <1>4 DEF Inv, RecordInv, Active
<1>9. \A t \in Threads : Alive(t) /\ thread[t].mine /\ t # rpc.thread =>
          thread[t].record # r
  BY <1>3 DEF Inv, ScriptInv
<1>10. ScriptInv' /\ CancelledIsStopped'
  BY <1>4, <1>6, <1>9 DEF Inv, ScriptInv, CancelledIsStopped, Alive
<1>11. TimerInv'
  <2>1. timer.pc = "join" => managed[timer.session] # r
    BY <1>2, <1>3 DEF Inv, TimerInv
  <2>2. QED
    BY <1>2, <1>4, <2>1, IdleTyped DEF Inv, TimerInv
<1>12. AttachedIsOwned'
  BY <1>2, <1>4, OwnedStays DEF Inv
<1>13. Stands
  BY <1>4 DEF Stands, TerminalStates, Active
<1>14. QED
  BY <1>7, <1>8, <1>10, <1>11, <1>12, <1>13 DEF Inv

\* The end of a session keeps the invariant.
LEMMA FreeKeeps ==
    ASSUME Inv, NEW s \in Sessions, rpc_system_poison_workload_free(s)
    PROVE  Inv' /\ Stands
<1>1. PICK r : r = managed[s]
  OBVIOUS
<1>2. /\ timer = Idle /\ r # None /\ rpc.session # s
      /\ rec' = [rec EXCEPT ![r].state = force_terminate(@, "Disconnected")]
      /\ timer' = [pc |-> "cleanup", session |-> s, thread |-> None]
      /\ thread' = thread /\ managed' = managed /\ asked' = asked
      /\ rpc' = rpc
  BY <1>1 DEF rpc_system_poison_workload_free
<1>3. r \in Records /\ rec[r] \in RecordSet
  BY <1>1, <1>2, Parts
<1>4. /\ rec' \in [Records -> RecordSet]
      /\ \A q \in Records : q # r => rec'[q] = rec[q]
      /\ rec'[r].attachments = rec[r].attachments
      /\ rec'[r].occupied = rec[r].occupied
      /\ rec'[r].name = rec[r].name /\ rec'[r].project = rec[r].project
      /\ rec'[r].thread = rec[r].thread /\ rec'[r].bound = rec[r].bound
      /\ rec'[r].state = IF rec[r].state \in Active THEN "Disconnected"
                         ELSE rec[r].state
  BY <1>2, <1>3, Parts
     DEF RecordSet, force_terminate, States, Active, TerminalStates
<1>5. /\ timer' \in WaitSet /\ timer'.pc = "cleanup" /\ timer'.session = s
  BY <1>2 DEF WaitSet
<1>6. WorkloadTyped'
  BY <1>2, <1>4, <1>5, Parts DEF WorkloadTyped
<1>7. RecordInv'
  BY <1>4 DEF Inv, RecordInv, Active
<1>8. ScriptInv' /\ CancelledIsStopped'
  BY <1>2, <1>4 DEF Inv, ScriptInv, CancelledIsStopped, Alive
<1>9. HandlerInv'
  BY <1>2, <1>4 DEF Inv, HandlerInv, TerminalStates
<1>10. TimerInv'
  BY <1>1, <1>2, <1>3, <1>5 DEF TimerInv
<1>11. AttachedIsOwned'
  BY <1>2, <1>4, OwnedStays DEF Inv
<1>12. Stands
  BY <1>4 DEF Stands, TerminalStates, Active
<1>13. QED
  BY <1>6, <1>7, <1>8, <1>9, <1>10, <1>11, <1>12 DEF Inv

\* The end of a free: nobody waits at the record, no script is its own.
LEMMA DetachKeeps ==
    ASSUME Inv, timer.pc # "idle", free_detach,
           thread' \in [Threads -> ThreadSet],
           NEW r, r = managed[timer.session],
           rpc.pc # "idle" => managed[rpc.session] # r,
           \A t \in Threads : thread'[t].phase \in {"running", "trace"} =>
               thread'[t] = thread[t] /\ rec[r].thread # t
    PROVE  Inv' /\ Stands
<1>1. PICK s : s = timer.session
  OBVIOUS
<1>2. /\ rec' = Left(r)
      /\ managed' = [managed EXCEPT ![s] = None]
      /\ asked' = [asked EXCEPT ![s] = NoName]
      /\ timer' = Idle /\ rpc' = rpc
  BY <1>1 DEF free_detach
<1>3. /\ s \in Sessions /\ r \in Records /\ r = managed[s] /\ r # None
      /\ rec[r] \in RecordSet
      /\ rpc.pc # "idle" => rpc.session # s
  BY <1>1, Parts, NoneIsApart DEF Inv, TimerInv
<1>4. rec' = [[rec EXCEPT ![r].attachments = @ - 1] EXCEPT
                  ![r] = [@ EXCEPT !.thread = None, !.bound = FALSE]]
  BY <1>2, <1>3 DEF Left, Detached, Unadapted
<1>5. /\ rec' \in [Records -> RecordSet]
      /\ \A q \in Records : q # r => rec'[q] = rec[q]
      /\ rec'[r].attachments = rec[r].attachments - 1
      /\ rec'[r].occupied = rec[r].occupied
      /\ rec'[r].name = rec[r].name /\ rec'[r].project = rec[r].project
      /\ rec'[r].thread = None /\ ~rec'[r].bound
      /\ rec'[r].state = rec[r].state
  BY <1>3, <1>4, Parts DEF RecordSet
<1>6. WorkloadTyped'
  BY <1>2, <1>3, <1>5, Parts, IdleTyped DEF WorkloadTyped
<1>7. RecordInv'
  BY <1>5 DEF Inv, RecordInv
<1>8. ScriptInv' /\ CancelledIsStopped'
  BY <1>5 DEF Inv, ScriptInv, CancelledIsStopped, Alive
<1>9. HandlerInv'
  <2>1. rpc.pc # "idle" => managed'[rpc.session] = managed[rpc.session]
    BY <1>2, <1>3, Parts DEF Inv, HandlerInv
  <2>2. QED
    BY <1>2, <1>5, <2>1 DEF Inv, HandlerInv
<1>10. TimerInv'
  BY <1>2, IdleTyped DEF TimerInv
<1>11. AttachedIsOwned'
  <2>1. PICK m, a, t1, m2, a2, t2 :
            /\ m = managed /\ a = asked /\ t1 = rec
            /\ m2 = managed' /\ a2 = asked' /\ t2 = rec'
    OBVIOUS
  <2>2. /\ m \in [Sessions -> Records \cup {None}] /\ m[s] = r
        /\ m[s] # None /\ m2 = [m EXCEPT ![s] = None]
        /\ a \in [Sessions -> Names \cup {NoName}]
        /\ a2 = [a EXCEPT ![s] = NoName]
        /\ Owned(t1, m, a)
    BY <1>2, <1>3, <2>1, Parts, OwnedNow DEF Inv
  <2>3. \A q : MoveEffect(m, s, None, q, m2)
    BY <1>3, <2>2, Moved
  <2>4. ASSUME NEW q \in Records
        PROVE  /\ t2[q].attachments = Cardinality(Watching(m2, q))
               /\ \A x \in Watching(m2, q) :
                      x \in Watching(m, q) /\ a2[x] = a[x]
    <3>1. CASE q = r
      <4>1. Cardinality(Watching(m2, q)) = Cardinality(Watching(m, q)) - 1
        BY <2>2, <2>3, <3>1 DEF MoveEffect
      <4>2. Watching(m2, q) = Watching(m, q) \ {s}
        BY <2>2, <2>3, <3>1 DEF MoveEffect
      <4>3. t2[q].attachments = Cardinality(Watching(m2, q))
        BY <1>5, <2>1, <2>2, <3>1, <4>1 DEF Owned
      <4>4. QED
        BY <2>2, <4>2, <4>3 DEF Watching
    <3>2. CASE q # r
      <4>1. Watching(m2, q) = Watching(m, q)
        BY <2>2, <2>3, <3>2, NoneIsApart DEF MoveEffect
      <4>2. s \notin Watching(m, q)
        BY <2>2, <3>2 DEF Watching
      <4>3. t2[q].attachments = Cardinality(Watching(m2, q))
        BY <1>5, <2>1, <2>2, <3>2, <4>1 DEF Owned
      <4>4. QED
        BY <2>2, <4>1, <4>2, <4>3 DEF Watching
    <3>3. QED BY <3>1, <3>2
  <2>5. \A q \in Records : t2[q].occupied = t1[q].occupied
                           /\ t2[q].name = t1[q].name
    BY <1>5, <2>1
  <2>6. Owned(t2, m2, a2)
    BY <2>2, <2>4, <2>5, ZenonT(30) DEF Owned
  <2>7. QED BY <2>1, <2>6, OwnedNext
<1>12. Stands
  BY <1>5 DEF Stands
<1>13. QED
  BY <1>6, <1>7, <1>8, <1>9, <1>10, <1>11, <1>12 DEF Inv

\* The clean-up after a session keeps the invariant.
LEMMA FreeCleanupKeeps ==
    ASSUME Inv, free_cleanup
    PROVE  Inv' /\ Stands
<1>1. PICK r : r = managed[timer.session]
  OBVIOUS
<1>2. /\ timer.pc = "cleanup" /\ timer.session \in Sessions
      /\ r \in Records /\ rec[r] \in RecordSet
  BY <1>1, Parts DEF free_cleanup, Inv, TimerInv
<1>3. CASE rec[r].thread = None
  <2>1. free_detach /\ thread' = thread
    BY <1>1, <1>3 DEF free_cleanup
  <2>2. rpc.pc # "idle" => managed[rpc.session] # r
    BY <1>3, NoneIsApart DEF Inv, HandlerInv
  <2>3. /\ thread' \in [Threads -> ThreadSet]
        /\ \A t \in Threads : thread'[t] = thread[t] /\ rec[r].thread # t
    BY <1>3, <2>1, Parts, NoneIsApart
  <2>4. QED BY <1>1, <1>2, <2>1, <2>2, <2>3, DetachKeeps
<1>4. CASE rec[r].thread # None
  <2>1. PICK t, old : t = rec[r].thread /\ old = thread
    OBVIOUS
  <2>2. /\ thread' = Stopped(old, t)
        /\ timer' = [timer EXCEPT !.pc = "join", !.thread = t]
        /\ rec' = rec /\ managed' = managed /\ asked' = asked /\ rpc' = rpc
    BY <1>1, <1>4, <2>1 DEF free_cleanup
  <2>3. t \in Threads /\ old \in [Threads -> ThreadSet]
    BY <1>2, <1>4, <2>1, Parts DEF RecordSet
  <2>4. /\ thread' \in [Threads -> ThreadSet]
        /\ \A u \in Threads : /\ thread'[u].phase = old[u].phase
                              /\ thread'[u].record = old[u].record
                              /\ thread'[u].mine = old[u].mine
    BY <2>2, <2>3, StoppedFields
  <2>5. /\ timer' \in WaitSet /\ timer'.pc = "join"
        /\ timer'.session = timer.session /\ timer'.thread = t
    BY <2>2, <2>3, Parts DEF WaitSet
  <2>6. WorkloadTyped'
    BY <2>2, <2>4, <2>5, Parts DEF WorkloadTyped
  <2>7. RecordInv' /\ HandlerInv' /\ AttachedIsOwned'
    BY <2>2 DEF Inv, RecordInv, HandlerInv, AttachedIsOwned
  <2>8. ScriptInv' /\ CancelledIsStopped'
    BY <2>1, <2>2, <2>4 DEF Inv, ScriptInv, CancelledIsStopped, Alive
  <2>9. TimerInv'
    BY <1>1, <1>2, <2>1, <2>2, <2>3, <2>5 DEF Inv, TimerInv
  <2>10. Stands
    BY <2>2, Parts DEF Stands
  <2>11. QED
    BY <2>6, <2>7, <2>8, <2>9, <2>10 DEF Inv
<1>5. QED BY <1>3, <1>4

\* A clean-up that waited for a script keeps the invariant.
LEMMA FreeJoinedKeeps ==
    ASSUME Inv, free_joined
    PROVE  Inv' /\ Stands
<1>1. PICK r : r = managed[timer.session]
  OBVIOUS
<1>2. /\ timer.pc = "join" /\ free_detach /\ rpc.thread # timer.thread
      /\ thread[timer.thread].phase = "ended"
      /\ thread' = [thread EXCEPT ![timer.thread] = NoThread]
  BY DEF free_joined, Joined, Freed
<1>3. timer.thread \in Threads /\ rec[r].thread = timer.thread
  BY <1>1, <1>2 DEF Inv, TimerInv
<1>4. rpc.pc # "idle" => managed[rpc.session] # r
  BY <1>2, <1>3 DEF Inv, HandlerInv
<1>5. NoThread \in ThreadSet /\ NoThread.phase = "free"
  BY DEF NoThread, ThreadSet, None
<1>6. /\ thread' \in [Threads -> ThreadSet]
      /\ \A t \in Threads : thread'[t].phase \in {"running", "trace"} =>
             thread'[t] = thread[t] /\ rec[r].thread # t
  BY <1>2, <1>3, <1>5, Parts
<1>7. QED BY <1>1, <1>2, <1>4, <1>6, DetachKeeps

\* An empty table is in the invariant.
LEMMA InitKeeps == Init => Inv
<1> SUFFICES ASSUME Init PROVE Inv
  OBVIOUS
<1>1. Absent \in RecordSet /\ NoThread \in ThreadSet /\ Idle \in WaitSet
  BY DEF Absent, RecordSet, NoThread, ThreadSet, Idle, WaitSet, None, States
<1>2. WorkloadTyped
  BY <1>1 DEF Init, WorkloadTyped
<1>3. RecordInv /\ ScriptInv /\ HandlerInv /\ TimerInv /\ CancelledIsStopped
  BY DEF Init, RecordInv, ScriptInv, HandlerInv, TimerInv, CancelledIsStopped,
         Alive, Absent, NoThread, Idle
<1>4. AttachedIsOwned
  <2>1. \A r \in Records : Watching(managed, r) = {}
    BY NoneIsApart DEF Init, Watching
  <2>2. \A r \in Records : rec[r].attachments = 0
    BY DEF Init, Absent
  <2>3. Owned(rec, managed, asked)
    BY <2>1, <2>2, FS_EmptySet DEF Owned
  <2>4. QED BY <2>3, OwnedNow
<1>5. QED BY <1>2, <1>3, <1>4 DEF Inv

\* A device that faults restarts in the initial state.
LEMMA FaultKeeps ==
    ASSUME Inv, fault
    PROVE  Inv' /\ Stands
<1>1. Init'
  BY DEF fault, Init
<1>2. Inv'
  BY <1>1, InitKeeps, PTL
<1>3. \A r \in Records : rec'[r].state = "Queued" /\ ~rec'[r].occupied
  BY DEF fault, Absent
<1>4. QED BY <1>2, <1>3 DEF Stands

\* An event of a script: at most the state of its record changes, and the
\* thread keeps its record while it lives.
LEMMA EventKeeps ==
    ASSUME Inv, NEW t \in Threads, Alive(t),
           NEW r, r = thread[t].record,
           NEW state \in States, Judged(r, state),
           thread' \in [Threads -> ThreadSet],
           \A u \in Threads : thread'[u].phase \in {"running", "trace"} =>
               /\ Alive(u) /\ thread'[u].record = thread[u].record
               /\ thread'[u].mine = thread[u].mine,
           UNCHANGED <<managed, asked, rpc, timer>>,
           rec[r].state # "Queued" => state # "Queued",
           rec[r].state \in TerminalStates => state = rec[r].state,
           rec[r].state \notin TerminalStates => state # "Cancelled",
           rec[r].state = "Cancelling" => state \in {"Cancelling", "Failed"}
    PROVE  Inv' /\ Stands
<1>1. r \in Records /\ rec[r] \in RecordSet
  BY Parts DEF Inv, ScriptInv
<1>2. /\ rec' \in [Records -> RecordSet]
      /\ \A q \in Records : q # r => rec'[q] = rec[q]
      /\ rec'[r].attachments = rec[r].attachments
      /\ rec'[r].occupied = rec[r].occupied
      /\ rec'[r].name = rec[r].name /\ rec'[r].project = rec[r].project
      /\ rec'[r].thread = rec[r].thread /\ rec'[r].bound = rec[r].bound
      /\ rec'[r].state = IF rec[r].bound THEN state ELSE rec[r].state
  BY <1>1, Parts DEF Judged, Heard, RecordSet
<1>3. WorkloadTyped'
  BY <1>2, Parts DEF WorkloadTyped
<1>4. RecordInv'
  BY <1>1, <1>2 DEF Inv, RecordInv
<1>5. ScriptInv'
  BY <1>2 DEF Inv, ScriptInv, Alive
<1>6. CancelledIsStopped'
  BY <1>1, <1>2 DEF Inv, CancelledIsStopped, Alive, ScriptInv, TerminalStates
<1>7. HandlerInv' /\ TimerInv'
  BY <1>2 DEF Inv, HandlerInv, TimerInv
<1>8. AttachedIsOwned'
  BY <1>2, OwnedStays DEF Inv
<1>9. Stands
  BY <1>2 DEF Stands, TerminalStates
<1>10. QED
  BY <1>3, <1>4, <1>5, <1>6, <1>7, <1>8, <1>9 DEF Inv

\* What a script prints keeps the invariant.
LEMMA PrintKeeps ==
    ASSUME Inv, NEW t \in Threads, js_print(t)
    PROVE  Inv' /\ Stands
<1>1. PICK r, state : r = thread[t].record /\ state = overflow(rec[r].state)
  OBVIOUS
<1>2. /\ thread[t].phase = "running" /\ Judged(r, state)
      /\ thread' = thread /\ UNCHANGED <<managed, asked, rpc, timer>>
  BY <1>1 DEF js_print
<1>3. Alive(t) /\ r \in Records
  BY <1>1, <1>2 DEF Alive, Inv, ScriptInv
<1>4. rec[r].state \in States /\ thread' \in [Threads -> ThreadSet]
  BY <1>2, <1>3, Parts DEF RecordSet
<1>5. /\ state \in States
      /\ rec[r].state # "Queued" => state # "Queued"
      /\ rec[r].state \in TerminalStates => state = rec[r].state
      /\ rec[r].state \notin TerminalStates => state # "Cancelled"
      /\ rec[r].state = "Cancelling" => state \in {"Cancelling", "Failed"}
  BY <1>1, <1>4 DEF overflow, States, TerminalStates, Active
<1>6. \A u \in Threads : thread'[u].phase \in {"running", "trace"} =>
          /\ Alive(u) /\ thread'[u].record = thread[u].record
          /\ thread'[u].mine = thread[u].mine
  BY <1>2 DEF Alive
<1>7. QED
  BY <1>1, <1>2, <1>3, <1>4, <1>5, <1>6, EventKeeps

\* A script thread, to its end, keeps the invariant.
LEMMA ThreadKeeps ==
    ASSUME Inv, NEW t \in Threads, NEW event \in Events, js_thread(t, event)
    PROVE  Inv' /\ Stands
<1>1. PICK r : r = thread[t].record
  OBVIOUS
<1>2. /\ thread[t].phase \in {"running", "trace"}
      /\ UNCHANGED <<managed, asked, rpc, timer>>
      /\ \E state \in Verdicts(r, IF event = "trace" THEN "error" ELSE event) :
             Judged(r, state)
      /\ \E last \in {TRUE, event # "error"} :
             thread' = [thread EXCEPT
                 ![t] = IF last THEN Ended(t)
                        ELSE [@ EXCEPT !.phase = "trace"]]
  BY <1>1 DEF js_thread
<1>3. PICK state \in Verdicts(r, IF event = "trace" THEN "error" ELSE event) :
          Judged(r, state)
  BY <1>2
<1>4. Alive(t) /\ r \in Records
  BY <1>1, <1>2 DEF Alive, Inv, ScriptInv
<1>5. rec[r].state \in States
  BY <1>4, Parts DEF RecordSet
<1>6. /\ state \in States
      /\ rec[r].state # "Queued" => state # "Queued"
      /\ rec[r].state \in TerminalStates => state = rec[r].state
      /\ rec[r].state \notin TerminalStates => state # "Cancelled"
      /\ rec[r].state = "Cancelling" => state \in {"Cancelling", "Failed"}
  <2>1. \/ state = rec[r].state
        \/ /\ rec[r].state # "Cancelling"
           /\ \/ state = force_terminate(rec[r].state, "Failed")
              \/ state = finish(rec[r].state, "Crashed")
              \/ state = finish(overflow(rec[r].state), "Crashed")
              \/ state = finish(rec[r].state, "Completed")
    <3>1. CASE rec[r].state = "Cancelling"
      BY <1>3, <3>1 DEF Verdicts
    <3>2. CASE rec[r].state # "Cancelling"
      <4>1. CASE event = "limit"
        BY <1>3, <3>2, <4>1 DEF Verdicts
      <4>2. CASE event = "error"
        BY <1>3, <3>2, <4>2 DEF Verdicts
      <4>3. CASE event = "trace"
        BY <1>3, <3>2, <4>3 DEF Verdicts
      <4>4. CASE event = "done"
        BY <1>3, <3>2, <4>4 DEF Verdicts
      <4>5. CASE event = "none"
        BY <1>3, <3>2, <4>5 DEF Verdicts
      <4>6. QED
        BY <4>1, <4>2, <4>3, <4>4, <4>5 DEF Events
    <3>3. QED BY <3>1, <3>2
  <2>2. QED
    BY <1>5, <2>1
       DEF force_terminate, finish, overflow, States, TerminalStates, Active
<1>7. Ended(t) \in ThreadSet /\ Ended(t).phase \notin {"running", "trace"}
  BY DEF Ended, NoThread, ThreadSet, None
<1>8. /\ thread' \in [Threads -> ThreadSet]
      /\ \A u \in Threads : thread'[u].phase \in {"running", "trace"} =>
             /\ Alive(u) /\ thread'[u].record = thread[u].record
             /\ thread'[u].mine = thread[u].mine
  <2>1. PICK last \in BOOLEAN :
            thread' = [thread EXCEPT
                ![t] = IF last THEN Ended(t)
                       ELSE [@ EXCEPT !.phase = "trace"]]
    BY <1>2
  <2>2. [thread[t] EXCEPT !.phase = "trace"] \in ThreadSet
    BY Parts DEF ThreadSet
  <2>3. CASE last
    BY <1>7, <2>1, <2>3, Parts DEF Alive
  <2>4. CASE ~last
    BY <1>4, <2>1, <2>2, <2>4, Parts DEF Alive, ThreadSet
  <2>5. QED BY <2>3, <2>4
<1>9. QED
  BY <1>1, <1>2, <1>3, <1>4, <1>6, <1>8, EventKeeps

------------------------------------------------------------------------------
(* The theorems *)

\* Every step keeps the invariant.
LEMMA NextKeeps ==
    ASSUME Inv, [Next]_vars
    PROVE  Inv' /\ (Stands \/ UNCHANGED vars)
<1>1. CASE UNCHANGED vars
  BY <1>1 DEF vars, Inv, WorkloadTyped, RecordInv, ScriptInv, Alive, HandlerInv,
              TimerInv, AttachedIsOwned, CancelledIsStopped
<1>2. CASE Next
  <2>1. ASSUME NEW s \in Sessions, rpc_system_poison_workload_free(s)
        PROVE  Inv' /\ Stands
    BY <2>1, FreeKeeps
  <2>2. ASSUME NEW s \in Sessions, NEW name \in NamesOf[s],
               \/ rpc_poison_workload_create(s, name)
               \/ rpc_poison_workload_run(s, name)
               \/ rpc_poison_workload_inspect(s, name)
               \/ rpc_poison_workload_finalize_artifact(s, name)
               \/ rpc_poison_workload_cancel(s, name)
        PROVE  Inv' /\ Stands
    BY <2>2, CreateKeeps, RunKeeps, InspectKeeps, FinalizeKeeps, CancelKeeps
  <2>3. ASSUME NEW t \in Threads,
               js_print(t) \/ \E e \in Events : js_thread(t, e)
        PROVE  Inv' /\ Stands
    BY <2>3, PrintKeeps, ThreadKeeps
  <2>4. ASSUME create_joined \/ js_cancel_joined
        PROVE  Inv' /\ Stands
    BY <2>4, CreateJoinedKeeps, CancelJoinedKeeps
  <2>5. ASSUME free_cleanup \/ free_joined \/ fault
        PROVE  Inv' /\ Stands
    BY <2>5, FreeCleanupKeeps, FreeJoinedKeeps, FaultKeeps
  <2>6. QED
    BY <1>2, <2>1, <2>2, <2>3, <2>4, <2>5 DEF Next
<1>3. QED BY <1>1, <1>2

\* The invariant always holds.
LEMMA Invariance == Spec => []Inv
<1>1. Inv /\ [Next]_vars => Inv'
  BY NextKeeps
<1>2. QED
  BY InitKeeps, <1>1, PTL DEF Spec

\* rpc_poison_workload_bind and poison_managed_workload_attach: the count of a
\* record's attachments is the number of sessions at it, and a session only
\* finds its own workload there, for any number of sessions, names, records
\* and scripts.
THEOREM AttachmentsAreOwned == Spec => []AttachedIsOwned
<1>1. Inv => AttachedIsOwned
  BY DEF Inv
<1>2. QED BY Invariance, <1>1, PTL

\* poison_workload_js_cancel: a workload that reads Cancelled has no script of
\* its own left, whatever free joins meanwhile.
THEOREM CancelledHasNoScript == Spec => []CancelledIsStopped
<1>1. Inv => CancelledIsStopped
  BY DEF Inv
<1>2. QED BY Invariance, <1>1, PTL

\* poison_workload_finish and the adapter's events: a terminal verdict is only
\* replaced by a new use of the record, and a cancellation is not overtaken by
\* the script's own end.
THEOREM VerdictsStand == Spec => VerdictStands
<1>1. Inv /\ [Next]_vars =>
          [\A r \in Records :
               /\ rec[r].state \in TerminalStates =>
                      rec'[r].state \in {rec[r].state, "Queued"}
               /\ rec[r].state = "Cancelling" /\ rec'[r].occupied =>
                      rec'[r].state \in {"Cancelling", "Cancelled", "Failed",
                                         "Disconnected"}]_vars
  BY NextKeeps DEF Stands
<1>2. QED
  BY Invariance, <1>1, PTL DEF Spec, VerdictStands
==============================================================================
