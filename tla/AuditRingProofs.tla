--------------------------- MODULE AuditRingProofs ---------------------------
(***************************************************************************)
(* The audit ring implements the unbounded chain, for every ring size and *)
(* every number of events.                                                 *)
(***************************************************************************)
EXTENDS AuditRing, TLAPS, FiniteSetTheorems, SequenceTheorems

\* The chain of poison_audit_append: every event carries its number and the
\* digest of the one before.
LogLinked ==
    \A i \in 1 .. Len(log) :
        /\ log[i].event_id = i
        /\ log[i].prior_digest = IF i = 1 THEN NoDigest ELSE log[i - 1].digest

Inv == TypeOK /\ RingHoldsTail /\ LogLinked

\* The write index wraps at the end of the ring (poison_audit.c, the modulo
\* of append).
LEMMA WrapsAround ==
    ASSUME NEW w \in Slots
    PROVE  (w + 1) % RingSize = IF w + 1 = RingSize THEN 0 ELSE w + 1
BY RingAssumption DEF Slots

------------------------------------------------------------------------------
(* append *)

\* The event poison_audit_append stamps is a typed one.
LEMMA StampedIsEvent ==
    ASSUME TypeOK, NEW entry \in Entries, chain.next_event_id <= MaxEvents
    PROVE  /\ Stamped(chain, entry) \in EventSet
           /\ Stamped(chain, entry).event_id = chain.next_event_id
           /\ Stamped(chain, entry).prior_digest = chain.last_digest
<1>1. chain.next_event_id \in 1 .. MaxEvents /\ chain.last_digest \in Digests
  BY RingAssumption DEF TypeOK
<1>2. Digest(chain.next_event_id, chain.last_digest, entry) \in Digests
  BY <1>1, RingAssumption
<1>3. QED
  BY <1>1, <1>2 DEF Stamped, Promise!Event, EventSet

\* An append keeps the types of the ring and of the log.
LEMMA AppendKeepsType ==
    ASSUME TypeOK, NEW entry \in Entries, poison_audit_append(entry)
    PROVE  TypeOK'
<1> DEFINE event == Stamped(chain, entry)
<1>1. event \in EventSet
  BY StampedIsEvent DEF poison_audit_append
<1>2. chain' = Appended(chain, event) /\ log' = Append(log, event) /\ verdict' = verdict
  BY DEF poison_audit_append
<1>3. (chain.write_index + 1) % RingSize \in Slots
  BY WrapsAround, RingAssumption DEF TypeOK, Slots
<1> HIDE DEF event
<1>4. event.digest \in Digests
  BY <1>1 DEF EventSet
<1>5. chain' \in [next_event_id : Nat \ {0}, last_digest : Digests,
                  events : [Slots -> EventSet],
                  event_count : 0 .. RingSize, write_index : Slots]
  BY <1>1, <1>2, <1>3, <1>4, RingAssumption DEF TypeOK, Appended
<1>6. log' \in Seq(EventSet)
  BY <1>1, <1>2 DEF TypeOK
<1>7. QED
  BY <1>2, <1>5, <1>6 DEF TypeOK

\* An append links the new event to the last one of the log.
LEMMA AppendKeepsLink ==
    ASSUME Inv, NEW entry \in Entries, poison_audit_append(entry)
    PROVE  LogLinked'
<1> DEFINE event == Stamped(chain, entry)
<1>1. /\ event.event_id = Len(log) + 1
      /\ event.prior_digest = IF log = <<>> THEN NoDigest ELSE log[Len(log)].digest
  BY StampedIsEvent DEF Inv, RingHoldsTail, poison_audit_append, Promise!LastDigest
<1>2. log' = Append(log, event) /\ log \in Seq(EventSet)
  BY DEF poison_audit_append, Inv, TypeOK
<1> HIDE DEF event
<1>3. /\ Len(log') = Len(log) + 1 /\ Len(log) \in Nat
      /\ \A i \in 1 .. Len(log) : log'[i] = log[i]
      /\ log'[Len(log) + 1] = event
  BY <1>2
<1>4. log = <<>> <=> Len(log) = 0
  BY <1>2
<1>5. QED
  BY <1>1, <1>3, <1>4 DEF LogLinked, Inv

\* After an append the ring is the tail of the longer log.
LEMMA AppendKeepsTail ==
    ASSUME Inv, NEW entry \in Entries, poison_audit_append(entry)
    PROVE  RingHoldsTail'
<1> DEFINE event == Stamped(chain, entry)
           w == chain.write_index
           n == chain.event_count
<1>1. /\ chain' = Appended(chain, event)
      /\ log' = Append(log, event) /\ log \in Seq(EventSet)
      /\ event \in EventSet
  BY StampedIsEvent DEF poison_audit_append, Inv, TypeOK
<1> HIDE DEF event
<1>2. /\ Len(log') = Len(log) + 1 /\ Len(log) \in Nat
      /\ \A i \in 1 .. Len(log) : log'[i] = log[i]
      /\ log'[Len(log) + 1] = event /\ log' # <<>>
  BY <1>1
<1>3. /\ w \in Slots /\ n \in 0 .. RingSize /\ RingSize \in Nat \ {0}
      /\ chain.events \in [Slots -> EventSet]
  BY RingAssumption DEF Inv, TypeOK
<1>4. /\ chain'.next_event_id = chain.next_event_id + 1
      /\ chain'.last_digest = event.digest
      /\ chain'.events = [chain.events EXCEPT ![w] = event]
      /\ chain'.event_count = IF n < RingSize THEN n + 1 ELSE n
      /\ chain'.write_index = IF w + 1 = RingSize THEN 0 ELSE w + 1
  BY <1>1, <1>3, WrapsAround DEF Appended
<1>5. chain'.next_event_id = Len(log') + 1
  BY <1>2, <1>4 DEF Inv, RingHoldsTail
<1>6. chain'.event_count = Promise!Lesser(RingSize, Len(log'))
  BY <1>2, <1>3, <1>4 DEF Inv, RingHoldsTail, Promise!Lesser
<1>7. chain'.last_digest = Promise!LastDigest(log')
  BY <1>2, <1>4 DEF Promise!LastDigest
<1>8. ASSUME NEW k \in 1 .. RingSize
      PROVE  Back(k)' = IF k = 1 THEN w ELSE Back(k - 1)
  <2>1. Back(k)' = IF k <= chain'.write_index THEN chain'.write_index - k
                                              ELSE chain'.write_index - k + RingSize
    BY DEF Back
  <2>2. w \in Int /\ 0 <= w /\ w < RingSize
    BY <1>3 DEF Slots
  <2>3. Back(k - 1) = IF k - 1 <= w THEN w - (k - 1) ELSE w - (k - 1) + RingSize
    BY DEF Back
  <2>4. CASE w + 1 = RingSize
    BY <2>1, <2>2, <2>3, <2>4, <1>3, <1>4
  <2>5. CASE w + 1 # RingSize
    BY <2>1, <2>2, <2>3, <2>5, <1>3, <1>4
  <2>6. QED
    BY <2>4, <2>5
<1>9. ASSUME NEW k \in 1 .. RingSize - 1
      PROVE  Back(k) \in Slots \ {w}
  BY <1>3 DEF Back, Slots
<1>10. ASSUME NEW k \in 1 .. chain'.event_count
       PROVE  chain'.events[Back(k)'] = log'[Len(log') + 1 - k]
  <2>1. CASE k = 1
    BY <2>1, <1>2, <1>3, <1>4, <1>8
  <2>2. CASE k # 1
    <3>1. /\ k - 1 \in 1 .. n /\ k - 1 \in 1 .. RingSize - 1
          /\ k \in 1 .. RingSize
      BY <2>2, <1>3, <1>4
    <3>2. chain.events[Back(k - 1)] = log[Len(log) + 1 - (k - 1)]
      BY <3>1 DEF Inv, RingHoldsTail
    <3>3. Back(k)' = Back(k - 1) /\ Back(k - 1) \in Slots \ {w}
      BY <3>1, <2>2, <1>8, <1>9
    <3>4. k - 1 <= Len(log)
      BY <3>1, <1>2, <1>3 DEF Inv, RingHoldsTail, Promise!Lesser
    <3>5. Len(log) + 1 - (k - 1) \in 1 .. Len(log)
          /\ Len(log') + 1 - k = Len(log) + 1 - (k - 1)
      BY <3>1, <3>4, <1>2
    <3>6. QED
      BY <3>2, <3>3, <3>5, <1>2, <1>3, <1>4, SMTT(30)
  <2>3. QED
    BY <2>1, <2>2
<1>11. ASSUME NEW i \in Slots, \A k \in 1 .. chain'.event_count : Back(k)' # i
       PROVE  chain'.events[i].event_id = 0
  <2>1. 1 \in 1 .. chain'.event_count /\ 1 \in 1 .. RingSize
    BY <1>3, <1>4
  <2>2. i # w
    BY <2>1, <1>8, <1>11
  <2>3. chain'.events[i] = chain.events[i]
    BY <2>2, <1>3, <1>4
  <2>4. ASSUME NEW k \in 1 .. n
        PROVE  Back(k) # i
    <3>1. CASE k = RingSize
      <4>1. Back(k) = w
        BY <3>1, <1>3 DEF Back, Slots
      <4>2. QED
        BY <4>1, <2>2
    <3>2. CASE k < RingSize
      <4>1. k + 1 \in 1 .. chain'.event_count /\ k + 1 \in 1 .. RingSize
        BY <3>2, <1>3, <1>4
      <4>2. Back(k + 1)' = Back(k)
        BY <4>1, <1>8, <1>3
      <4>3. QED
        BY <4>1, <4>2, <1>11
    <3>3. QED
      BY <3>1, <3>2, <1>3
  <2>5. QED
    BY <2>3, <2>4 DEF Inv, RingHoldsTail
<1>12. QED
  BY <1>5, <1>6, <1>7, <1>10, <1>11 DEF RingHoldsTail

------------------------------------------------------------------------------
(* snapshot *)

\* What the ring and the log have in common, as numbers.
LEMMA Numbers ==
    ASSUME Inv
    PROVE  /\ Len(log) \in Nat /\ RingSize \in Nat \ {0}
           /\ chain.next_event_id = Len(log) + 1
           /\ chain.event_count = IF RingSize < Len(log) THEN RingSize ELSE Len(log)
           /\ Oldest(chain) = Len(log) + 1 - chain.event_count
BY RingAssumption DEF Inv, TypeOK, RingHoldsTail, Promise!Lesser, Oldest

\* The search of the ring finds the event the log holds under the number.
LEMMA StoredIsLogged ==
    ASSUME Inv, NEW id \in Oldest(chain) .. Len(log)
    PROVE  Stored(chain, id) = log[id]
<1> DEFINE n == chain.event_count
           back == Len(log) + 1 - id
<1>1. back \in 1 .. n /\ back \in 1 .. RingSize /\ id \in 1 .. Len(log) /\ n \in Nat
  BY Numbers
<1>2. chain.events[Back(back)] = log[id]
  BY <1>1, Numbers DEF Inv, RingHoldsTail
<1>3. Back(back) \in Slots
  BY <1>1, Numbers, SMTT(30) DEF Back, Slots, Inv, TypeOK
<1>4. log[id].event_id = id
  BY <1>1 DEF Inv, LogLinked
<1>5. ASSUME NEW i \in Slots, chain.events[i].event_id = id
      PROVE  chain.events[i] = log[id]
  <2>1. PICK k \in 1 .. n : Back(k) = i
    BY <1>1, <1>5 DEF Inv, RingHoldsTail
  <2>2. chain.events[i] = log[Len(log) + 1 - k]
    BY <2>1 DEF Inv, RingHoldsTail
  <2>3. Len(log) + 1 - k \in 1 .. Len(log)
    BY <2>1, Numbers
  <2>4. log[Len(log) + 1 - k].event_id = Len(log) + 1 - k
    BY <2>3 DEF Inv, LogLinked
  <2>5. QED
    BY <2>2, <2>4, <1>5
<1>6. \E i \in Slots : chain.events[i].event_id = id
  BY <1>2, <1>3, <1>4
<1>7. QED
  BY <1>5, <1>6 DEF Stored

\* The count a snapshot reports is the number of events above the cursor.
LEMMA AvailableCounts ==
    ASSUME Inv, NEW after \in Nat
    PROVE  /\ FirstWanted(chain, after) \in Nat \ {0}
           /\ FirstWanted(chain, after) = Promise!First(log, after)
           /\ Available(chain, after) =
                  IF FirstWanted(chain, after) > Len(log) THEN 0
                  ELSE Len(log) - FirstWanted(chain, after) + 1
<1> DEFINE f == FirstWanted(chain, after)
<1>1. f \in Nat \ {0} /\ f = Promise!First(log, after)
  BY Numbers DEF FirstWanted, Promise!Greater, Promise!First, Promise!Lesser
<1>2. Wanted(chain, after) = f .. Len(log)
  BY Numbers DEF Wanted, FirstWanted, Promise!Greater
<1> HIDE DEF f
<1>3. Cardinality(f .. Len(log)) = IF f > Len(log) THEN 0 ELSE Len(log) - f + 1
  <2>1. f \in Int /\ Len(log) \in Int
    BY <1>1, Numbers
  <2>2. \A x, y \in Int : Cardinality(x .. y) = IF x > y THEN 0 ELSE y - x + 1
    BY FS_Interval
  <2>3. QED
    BY <2>1, <2>2
<1>4. QED
  BY <1>1, <1>2, <1>3 DEF Available, f

\* A snapshot of the ring is the view of the log it stands for.
LEMMA SnapshotIsView ==
    ASSUME Inv, NEW after \in 0 .. MaxEvents, NEW room \in 1 .. RingSize
    PROVE  Snapshot(chain, after, room) = Promise!View(log, after, room)
<1> DEFINE f == FirstWanted(chain, after)
           a == Available(chain, after)
           l == Promise!Last(log, after, room)
           o == Oldest(chain)
           n == Len(log)
<1>1. after \in Nat /\ room \in Nat \ {0}
  BY RingAssumption
<1>2. /\ f \in Nat \ {0} /\ f = Promise!First(log, after)
      /\ a = IF f > n THEN 0 ELSE n - f + 1
  BY <1>1, AvailableCounts
<1>3. l = IF n < f + room - 1 THEN n ELSE f + room - 1
  BY <1>2 DEF Promise!Last, Promise!Lesser
<1>4. f = IF after + 1 < o THEN o ELSE after + 1
  BY DEF FirstWanted, Promise!Greater
<1>5. n \in Nat /\ o \in Nat \ {0} /\ o <= n + 1 /\ (chain.event_count # 0 <=> o <= n)
  BY Numbers
<1> HIDE DEF f, a, l, o, n
<1>6. Copied(chain, after, room) = [k \in 1 .. l - f + 1 |-> log[f + k - 1]]
  <2>1. Promise!Lesser(room, a) = IF room < a THEN room ELSE a
    BY DEF Promise!Lesser
  <2>2. 1 .. Promise!Lesser(room, a) = 1 .. l - f + 1
    <3>1. CASE f > n
      BY <3>1, <2>1, <1>1, <1>2, <1>3, <1>5
    <3>2. CASE f <= n /\ room < a
      <4>1. l - f + 1 = room
        BY <3>2, <1>1, <1>2, <1>3, <1>5
      <4>2. QED
        BY <4>1, <3>2, <2>1
    <3>3. CASE f <= n /\ ~(room < a)
      <4>1. l - f + 1 = a
        BY <3>3, <1>1, <1>2, <1>3, <1>5
      <4>2. QED
        BY <4>1, <3>3, <2>1
    <3>4. QED
      BY <3>1, <3>2, <3>3, <1>2, <1>5
  <2>3. ASSUME NEW k \in 1 .. Promise!Lesser(room, a)
        PROVE  Stored(chain, f + k - 1) = log[f + k - 1]
    <3>1. f + k - 1 \in o .. n
      BY <1>1, <1>2, <1>4, <1>5, <2>1
    <3>2. QED
      BY <3>1, StoredIsLogged DEF o, n
  <2>4. QED
    BY <2>2, <2>3 DEF Copied, f, a
<1>7. Truncated(chain, after, room) <=>
          \E i \in after + 1 .. n : i \notin f .. l
  <2>1. ASSUME chain.event_count # 0, after < o - 1
        PROVE  \E i \in after + 1 .. n : i \notin f .. l
    <3>1. after + 1 \in after + 1 .. n /\ after + 1 \notin f .. l
      BY <2>1, <1>1, <1>2, <1>3, <1>4, <1>5
    <3>2. QED
      BY <3>1
  <2>2. ASSUME a > room
        PROVE  \E i \in after + 1 .. n : i \notin f .. l
    <3>1. f <= n /\ n - f + 1 > room
      BY <2>2, <1>1, <1>2, <1>5
    <3>2. l < n /\ after + 1 <= n
      BY <3>1, <1>1, <1>2, <1>3, <1>4, <1>5
    <3>3. n \in after + 1 .. n /\ n \notin f .. l
      BY <3>2, <1>1, <1>2, <1>3, <1>5
    <3>4. QED
      BY <3>3
  <2>3. ASSUME NEW i \in after + 1 .. n, i \notin f .. l
        PROVE  \/ chain.event_count # 0 /\ after < o - 1
               \/ a > room
    <3>1. CASE i < f
      <4>1. after + 1 < o /\ f = o
        BY <3>1, <2>3, <1>1, <1>2, <1>4, <1>5
      <4>2. o <= n + 1 /\ after + 1 <= n
        BY <2>3, <1>1, <1>5
      <4>3. n # 0
        BY <4>2, <1>1, <1>5
      <4>4. chain.event_count # 0
        BY <4>3, Numbers, RingAssumption DEF Inv, RingHoldsTail, Promise!Lesser, n
      <4>5. QED
        BY <4>1, <4>4, <1>1, <1>5
    <3>2. CASE f <= i
      <4>1. l < i /\ f <= n
        BY <3>2, <2>3, <1>1, <1>2, <1>3, <1>5
      <4>2. f + room - 1 < n
        BY <4>1, <2>3, <1>1, <1>2, <1>3, <1>5
      <4>3. QED
        BY <4>1, <4>2, <1>1, <1>2, <1>5
    <3>3. QED
      BY <3>1, <3>2, <2>3, <1>1, <1>2, <1>5
  <2>4. QED
    BY <2>1, <2>2, <2>3 DEF Truncated, a, o
<1>8. chain.next_event_id = Len(log) + 1 /\ chain.last_digest = Promise!LastDigest(log)
  BY DEF Inv, RingHoldsTail
<1>9. f = Promise!First(log, after) /\ l = Promise!Last(log, after, room)
  BY <1>2 DEF l
<1>10. Truncated(chain, after, room) =
          (\E i \in after + 1 .. n : i \notin f .. l)
  BY <1>7 DEF Truncated
<1>11. QED
  BY <1>6, <1>8, <1>9, <1>10 DEF Snapshot, Promise!View, n

------------------------------------------------------------------------------
(* Every step *)

\* An audit that was just started is in the invariant.
LEMMA InitHolds == Init => Inv
<1> SUFFICES ASSUME Init PROVE Inv
  OBVIOUS
<1>1. Cleared \in EventSet
  BY RingAssumption DEF Cleared, EventSet
<1>2. TypeOK
  BY <1>1, RingAssumption DEF Init, TypeOK, poison_audit_init, Slots
<1>3. RingHoldsTail
  BY RingAssumption DEF Init, RingHoldsTail, poison_audit_init, Slots, Cleared,
     Promise!Lesser, Promise!LastDigest
<1>4. LogLinked
  BY DEF Init, LogLinked
<1>5. QED
  BY <1>2, <1>3, <1>4 DEF Inv

\* Every step keeps the invariant.
LEMMA StepHolds == Inv /\ [Next]_vars => Inv'
<1> SUFFICES ASSUME Inv, [Next]_vars PROVE Inv'
  OBVIOUS
<1>1. ASSUME NEW entry \in Entries, poison_audit_append(entry)
      PROVE  Inv'
  BY <1>1, AppendKeepsType, AppendKeepsTail, AppendKeepsLink DEF Inv
<1>2. ASSUME NEW after \in 0 .. MaxEvents, NEW room \in 1 .. RingSize,
             rpc_poison_audit_snapshot(after, room)
      PROVE  Inv'
  <2>1. UNCHANGED <<chain, log>> /\ verdict' \in {"error", "unverified", "verified"}
    BY <1>2 DEF rpc_poison_audit_snapshot, Verdict
  <2>2. QED
    BY <2>1 DEF Inv, TypeOK, RingHoldsTail, LogLinked, Back
<1>3. ASSUME poison_audit_on_system_start
      PROVE  Inv'
  <2>1. Cleared \in EventSet
    BY RingAssumption DEF Cleared, EventSet
  <2>2. TypeOK'
    BY <1>3, <2>1, RingAssumption
       DEF poison_audit_on_system_start, TypeOK, poison_audit_init, Slots
  <2>3. RingHoldsTail'
    BY <1>3, RingAssumption
       DEF poison_audit_on_system_start, RingHoldsTail, poison_audit_init, Slots, Cleared,
           Promise!Lesser, Promise!LastDigest
  <2>4. LogLinked'
    BY <1>3 DEF poison_audit_on_system_start, LogLinked
  <2>5. QED
    BY <2>2, <2>3, <2>4 DEF Inv
<1>4. ASSUME UNCHANGED vars
      PROVE  Inv'
  BY <1>4 DEF vars, Inv, TypeOK, RingHoldsTail, LogLinked, Back
<1>5. QED
  BY <1>1, <1>2, <1>3, <1>4 DEF Next

\* The write index and the count of poison_audit_append never leave the ring.
THEOREM RingTyped == Spec => []TypeOK
<1>1. Inv => TypeOK
  BY DEF Inv
<1>2. QED
  BY <1>1, InitHolds, StepHolds, PTL DEF Spec

\* At every time the ring holds exactly the last events of the boot, each in
\* the slot the search of poison_audit_snapshot relies on.
THEOREM RingIsTail == Spec => []RingHoldsTail
<1>1. Inv => RingHoldsTail
  BY DEF Inv
<1>2. QED
  BY <1>1, InitHolds, StepHolds, PTL DEF Spec

------------------------------------------------------------------------------
(* A read from the beginning. AuditClient.read gets the view of the whole
   log, whose numbers decide what it makes of it. *)

\* The view from the first event on: consecutive events of the log that begin
\* with the oldest one kept, truncated exactly when the log has more events
\* than there was room for.
LEMMA FullView ==
    ASSUME Inv, NEW room \in 1 .. RingSize
    PROVE  LET r == Promise!View(log, 0, room)
               n == Len(log)
               o == Promise!First(log, 0)
               m == Promise!Last(log, 0, room) - o + 1
           IN  /\ n \in Nat /\ m \in Nat /\ o \in 1 .. n + 1 /\ o + m - 1 <= n
               /\ r.events = [k \in 1 .. m |-> log[o + k - 1]]
               /\ Len(r.events) = m
               /\ r.events = <<>> <=> m = 0
               /\ r.after = 0 /\ r.room = room /\ r.next_event_id = n + 1
               /\ r.last_digest = Promise!LastDigest(log)
               /\ r.truncated \in BOOLEAN /\ (r.truncated <=> n > room)
               /\ n <= room => o = 1 /\ m = n
<1> DEFINE r == Promise!View(log, 0, room)
           n == Len(log)
           o == Promise!First(log, 0)
           l == Promise!Last(log, 0, room)
           m == l - o + 1
<1>1. n \in Nat /\ RingSize \in Nat \ {0} /\ room \in Nat \ {0} /\ room <= RingSize
  BY Numbers
<1>2. o = IF RingSize < n THEN n - RingSize + 1 ELSE 1
  BY <1>1 DEF Promise!First, Promise!Greater, Promise!Lesser
<1>3. l = IF n < o + room - 1 THEN n ELSE o + room - 1
  BY DEF Promise!Last, Promise!Lesser
<1>4. /\ r.events = [k \in 1 .. m |-> log[o + k - 1]]
      /\ r.after = 0 /\ r.room = room /\ r.next_event_id = n + 1
      /\ r.last_digest = Promise!LastDigest(log)
      /\ r.truncated = (\E i \in 0 + 1 .. n : i \notin o .. l)
  BY DEF Promise!View
<1> HIDE DEF r, n, o, l
<1>5. m \in Nat /\ o \in 1 .. n + 1 /\ o + m - 1 <= n
  BY <1>1, <1>2, <1>3
<1>6. n <= room => o = 1 /\ l = n /\ m = n
  BY <1>1, <1>2, <1>3
<1>7. r.truncated <=> n > room
  <2>1. CASE n > room
    <3>1. CASE RingSize < n
      <4>1. 1 \in 0 + 1 .. n /\ 1 \notin o .. l
        BY <3>1, <1>1, <1>2
      <4>2. QED
        BY <4>1, <2>1, <1>4
    <3>2. CASE ~(RingSize < n)
      <4>1. n \in 0 + 1 .. n /\ n \notin o .. l
        BY <2>1, <3>2, <1>1, <1>2, <1>3
      <4>2. QED
        BY <4>1, <2>1, <1>4
    <3>3. QED
      BY <3>1, <3>2
  <2>2. CASE ~(n > room)
    <3>1. o = 1 /\ l = n
      BY <2>2, <1>1, <1>6
    <3>2. QED
      BY <3>1, <2>2, <1>1, <1>4
  <2>3. QED
    BY <2>1, <2>2
<1>8. Len(r.events) = m /\ (r.events = <<>> <=> m = 0)
  <2> HIDE DEF m
  <2>1. Len([k \in 1 .. m |-> log[o + k - 1]]) = m
    BY <1>5
  <2>2. [k \in 1 .. m |-> log[o + k - 1]] = <<>> <=> m = 0
    BY <1>5
  <2>3. QED
    BY <2>1, <2>2, <1>4 DEF m
<1>9. QED
  BY <1>1, <1>4, <1>5, <1>6, <1>7, <1>8 DEF r, n, o, l

\* The verdict on a full read is the one the log deserves.
LEMMA FullReadVerdict ==
    ASSUME Inv, NEW room \in 1 .. RingSize
    PROVE  LET r == Promise!View(log, 0, room)
           IN  Verdict(r) = IF r.next_event_id - 1 <= r.room THEN "verified"
                                                             ELSE "unverified"
<1> DEFINE r == Promise!View(log, 0, room)
           n == Len(log)
           o == Promise!First(log, 0)
           m == Promise!Last(log, 0, room) - o + 1
<1>1. /\ n \in Nat /\ m \in Nat /\ o \in 1 .. n + 1 /\ o + m - 1 <= n
      /\ r.events = [k \in 1 .. m |-> log[o + k - 1]]
      /\ Len(r.events) = m
      /\ r.events = <<>> <=> m = 0
      /\ r.after = 0 /\ r.room = room /\ r.next_event_id = n + 1
      /\ r.last_digest = Promise!LastDigest(log)
      /\ r.truncated \in BOOLEAN /\ (r.truncated <=> n > room)
      /\ n <= room => o = 1 /\ m = n
  BY FullView
<1>2. \A i \in 1 .. n :
          /\ log[i].event_id = i
          /\ log[i].prior_digest = IF i = 1 THEN NoDigest ELSE log[i - 1].digest
  BY DEF Inv, LogLinked
<1>3. n = 0 => r.last_digest = NoDigest
  BY <1>1 DEF Promise!LastDigest, Inv, TypeOK
<1>4. n # 0 => r.last_digest = log[n].digest
  BY <1>1 DEF Promise!LastDigest, Inv, TypeOK
<1>5. room \in Nat
  BY RingAssumption
<1> HIDE DEF r, n, o, m
<1>6. \A k \in 1 .. m : o + k - 1 \in 1 .. n /\ r.events[k] = log[o + k - 1]
  BY <1>1
<1> DEFINE anchored == r.truncated /\ r.events # <<>>
           id == IF anchored THEN r.events[1].event_id ELSE r.after + 1
           digest == IF anchored THEN r.events[1].prior_digest ELSE NoDigest
<1>7. Verifies(r.events, digest, id)
  <2>1. m # 0 => id = o /\ digest = log[o].prior_digest
    <3>1. CASE m # 0 /\ n > room
      <4>1. r.events[1] = log[o] /\ o \in 1 .. n
        BY <3>1, <1>1, <1>6
      <4>2. r.truncated /\ r.events # <<>>
        BY <3>1, <1>1
      <4>3. id = log[o].event_id /\ digest = log[o].prior_digest
        BY <4>1, <4>2
      <4>4. log[o].event_id = o
        BY <4>1, <1>2
      <4>5. QED
        BY <4>3, <4>4
    <3>2. CASE m # 0 /\ ~(n > room)
      <4>1. o = 1 /\ 1 \in 1 .. n /\ ~r.truncated /\ id = 1 /\ digest = NoDigest
        BY <3>2, <1>1, <1>5
      <4>2. QED
        BY <4>1, <1>2
    <3>3. QED
      BY <3>1, <3>2
  <2> HIDE DEF id, digest
  <2>2. ASSUME NEW k \in 1 .. m
        PROVE  /\ r.events[k].event_id = id + k - 1
               /\ r.events[k].prior_digest = IF k = 1 THEN digest
                                                      ELSE r.events[k - 1].digest
    <3>1. CASE k = 1
      BY <3>1, <2>1, <1>1, <1>2, <1>6
    <3>2. CASE k # 1
      <4>1. k - 1 \in 1 .. m /\ o + k - 1 \in 1 .. n /\ o + k - 1 # 1
        BY <3>2, <1>1, <1>6
      <4>2. r.events[k - 1] = log[o + k - 1 - 1]
        BY <4>1, <1>1, <1>6
      <4>3. QED
        BY <4>1, <4>2, <3>2, <2>1, <1>1, <1>2, <1>6
    <3>3. QED
      BY <3>1, <3>2
  <2>3. QED
    BY <2>2, <1>1 DEF Verifies
<1>8. Receipt(r)
  <2>1. m > 0 => r.next_event_id > r.events[m].event_id
    BY <1>1, <1>2, <1>6, SMTT(30)
  <2>2. ASSUME ~r.truncated
        PROVE  IF m = 0 THEN r.last_digest = NoDigest /\ r.next_event_id = 1
                        ELSE /\ r.last_digest = r.events[m].digest
                             /\ r.next_event_id = r.events[m].event_id + 1
    <3>1. o = 1 /\ m = n
      BY <2>2, <1>1, <1>5
    <3>2. CASE n = 0
      BY <3>1, <3>2, <1>1, <1>3
    <3>3. CASE n # 0
      <4>1. m \in 1 .. m /\ r.events[m] = log[n] /\ n \in 1 .. n
        BY <3>1, <3>3, <1>1, <1>6
      <4>2. QED
        BY <4>1, <3>1, <3>3, <1>1, <1>2, <1>4
    <3>4. QED
      BY <3>2, <3>3
  <2>3. QED
    BY <2>1, <2>2, <1>1 DEF Receipt
<1> HIDE DEF id, digest
<1>9. Verdict(r) = IF r.truncated \/ r.after # 0 THEN "unverified" ELSE "verified"
  BY <1>7, <1>8 DEF Verdict, id, digest
<1>10. QED
  BY <1>1, <1>5, <1>9 DEF r

\* Every step keeps a full read judged as the log deserves.
LEMMA StepJudges == Inv /\ FullReadJudged /\ [Next]_vars => FullReadJudged'
<1> SUFFICES ASSUME Inv, FullReadJudged, [Next]_vars PROVE FullReadJudged'
  OBVIOUS
<1>1. ASSUME NEW after \in 0 .. MaxEvents, NEW room \in 1 .. RingSize,
             rpc_poison_audit_snapshot(after, room)
      PROVE  FullReadJudged'
  <2>1. reply' = Promise!View(log, after, room) /\ verdict' = Verdict(reply')
    BY <1>1, SnapshotIsView DEF rpc_poison_audit_snapshot
  <2>2. reply'.after = after
    BY <2>1 DEF Promise!View
  <2>3. QED
    BY <2>1, <2>2, FullReadVerdict DEF FullReadJudged
<1>2. CASE UNCHANGED <<reply, verdict>>
  BY <1>2 DEF FullReadJudged
<1>3. CASE poison_audit_on_system_start
  BY <1>3 DEF poison_audit_on_system_start, FullReadJudged
<1>4. QED
  BY <1>1, <1>2, <1>3 DEF Next, vars, poison_audit_append

\* AuditClient.read(0) never rejects what the device sent, and calls it
\* verified exactly when it has every event of the boot, whatever the ring of
\* poison_audit.c has overwritten.
THEOREM FullReadIsJudged == Spec => []FullReadJudged
<1>1. Init => FullReadJudged
  BY DEF Init, FullReadJudged
<1>2. QED
  BY <1>1, InitHolds, StepHolds, StepJudges, PTL DEF Spec

------------------------------------------------------------------------------
(* The promise *)

\* An empty ring is an empty log.
LEMMA InitRefines == Init => Promise!Init
BY DEF Init, Promise!Init

\* Every step of the ring is a step of the log or none.
LEMMA StepRefines == Inv /\ [Next]_vars => [Promise!Next]_<<log, reply>>
<1> SUFFICES ASSUME Inv, [Next]_vars
             PROVE  Promise!Next \/ UNCHANGED <<log, reply>>
  OBVIOUS
<1>1. ASSUME NEW entry \in Entries, poison_audit_append(entry)
      PROVE  Promise!Grow
  <2>1. Stamped(chain, entry) = Promise!Link(log, entry)
    BY DEF Stamped, Promise!Link, Inv, RingHoldsTail
  <2>2. QED
    BY <1>1, <2>1 DEF poison_audit_append, Promise!Grow
<1>2. ASSUME NEW after \in 0 .. MaxEvents, NEW room \in 1 .. RingSize,
             rpc_poison_audit_snapshot(after, room)
      PROVE  Promise!Look
  BY <1>2, SnapshotIsView DEF rpc_poison_audit_snapshot, Promise!Look
<1>3. ASSUME poison_audit_on_system_start
      PROVE  Promise!Restart
  BY <1>3 DEF poison_audit_on_system_start, Promise!Restart
<1>4. QED
  BY <1>1, <1>2, <1>3 DEF Next, vars, Promise!Next

\* The ring of poison_audit.c keeps the promise of an unbounded chain:
\* whatever has been overwritten, a snapshot is the one the whole log would
\* give, and says it is truncated exactly when an event is missing.
THEOREM RingKeepsPromise == Spec => KeepsPromise
<1>1. QED
  BY InitHolds, StepHolds, InitRefines, StepRefines, PTL
     DEF Spec, KeepsPromise, Promise!Spec
==============================================================================
