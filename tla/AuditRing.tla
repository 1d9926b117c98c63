------------------------------ MODULE AuditRing ------------------------------
(***************************************************************************)
(* The audit service, poison_audit.c, its request handler                 *)
(* rpc_poison_audit.c and the reader of the dashboard, AuditClient.ts.    *)
(*                                                                         *)
(* append and snapshot hold the chain's mutex from the first read to the  *)
(* last write, so each is one step; a snapshot is copied under it, so the *)
(* messages it is sent in are part of the step. An entry stands for the   *)
(* actor, action, resource, decision, time, correlation and metadata; one *)
(* that does not validate is refused without a change and left out, and   *)
(* so is a metadata text longer than the 64 characters the client allows. *)
(***************************************************************************)
EXTENDS Integers, Sequences, FiniteSets

CONSTANTS
    Entries,
    Digests,
    NoDigest,
    Digest(_, _, _),
    RingSize,
    MaxEvents,
    NoEntry         \* the entry of a slot that memset cleared

ASSUME RingAssumption ==
    /\ RingSize \in Nat \ {0}
    /\ MaxEvents \in Nat
    /\ NoDigest \in Digests
    /\ NoEntry \notin Entries
    /\ \A i \in 1 .. MaxEvents, d \in Digests, e \in Entries :
           Digest(i, d, e) \in Digests

VARIABLES
    chain,          \* the PoisonAuditChain
    reply,          \* the last snapshot a client received
    verdict,        \* what AuditClient.read made of it
    log             \* history: the events of this boot, oldest first

vars == <<chain, reply, verdict, log>>

\* The promise, over the history the ring has overwritten.
Promise == INSTANCE AuditLog WITH log <- log, reply <- reply

Slots == 0 .. RingSize - 1

Cleared == [event_id |-> 0, prior_digest |-> NoDigest, entry |-> NoEntry,
            digest |-> NoDigest]

poison_audit_init ==
    [next_event_id |-> 1, last_digest |-> NoDigest,
     events |-> [i \in Slots |-> Cleared], event_count |-> 0, write_index |-> 0]

------------------------------------------------------------------------------
(* poison_audit_append *)

Stamped(c, entry) == Promise!Event(c.next_event_id, c.last_digest, entry)

\* Mutant: the write index runs past the ring.
AppendedPastEnd(c, event) ==
    [next_event_id |-> c.next_event_id + 1,
     last_digest |-> event.digest,
     events |-> [c.events EXCEPT ![c.write_index] = event],
     event_count |-> IF c.event_count < RingSize THEN c.event_count + 1
                                                 ELSE c.event_count,
     write_index |-> c.write_index + 1]

\* Mutant: a full ring is not written any more.
AppendedUntilFull(c, event) ==
    [next_event_id |-> c.next_event_id + 1,
     last_digest |-> event.digest,
     events |-> IF c.event_count < RingSize
                THEN [c.events EXCEPT ![c.write_index] = event] ELSE c.events,
     event_count |-> IF c.event_count < RingSize THEN c.event_count + 1
                                                 ELSE c.event_count,
     write_index |-> (c.write_index + 1) % RingSize]

Appended(c, event) ==
    [next_event_id |-> c.next_event_id + 1,
     last_digest |-> event.digest,
     events |-> [c.events EXCEPT ![c.write_index] = event],
     event_count |-> IF c.event_count < RingSize THEN c.event_count + 1
                                                 ELSE c.event_count,
     write_index |-> (c.write_index + 1) % RingSize]

poison_audit_append(entry) ==
    /\ chain.next_event_id <= MaxEvents
    /\ chain' = Appended(chain, Stamped(chain, entry))
    /\ log' = Append(log, Stamped(chain, entry))
    /\ UNCHANGED <<reply, verdict>>

------------------------------------------------------------------------------
(* poison_audit_snapshot *)

Oldest(c) == c.next_event_id - c.event_count

Wanted(c, after) == {id \in Oldest(c) .. c.next_event_id - 1 : id > after}

Available(c, after) == Cardinality(Wanted(c, after))

\* Mutant: a reply that ran out of room is called whole.
TruncatedWhenGone(c, after, room) ==
    c.event_count # 0 /\ after < Oldest(c) - 1

\* Mutant: off by one at the oldest event.
TruncatedEarly(c, after, room) ==
    \/ c.event_count # 0 /\ after < Oldest(c)
    \/ Available(c, after) > room

Truncated(c, after, room) ==
    \/ c.event_count # 0 /\ after < Oldest(c) - 1
    \/ Available(c, after) > room

\* The search of the ring for one event. Every event from the oldest on is
\* in it.
Stored(c, id) == c.events[CHOOSE i \in Slots : c.events[i].event_id = id]

FirstWanted(c, after) == Promise!Greater(after + 1, Oldest(c))

Copied(c, after, room) ==
    [k \in 1 .. Promise!Lesser(room, Available(c, after)) |->
        Stored(c, FirstWanted(c, after) + k - 1)]

Snapshot(c, after, room) ==
    [after |-> after, room |-> room,
     events |-> Copied(c, after, room),
     truncated |-> Truncated(c, after, room),
     next_event_id |-> c.next_event_id,
     last_digest |-> c.last_digest]

------------------------------------------------------------------------------
(* AuditClient.read *)

\* verifyAuditSequence
Verifies(events, digest, id) ==
    \A k \in 1 .. Len(events) :
        /\ events[k].event_id = id + k - 1
        /\ events[k].prior_digest = IF k = 1 THEN digest
                                             ELSE events[k - 1].digest

Receipt(r) ==
    LET n == Len(r.events) IN
    /\ n > 0 => r.next_event_id > r.events[n].event_id
    /\ ~r.truncated =>
           IF n = 0 THEN r.last_digest = NoDigest /\ r.next_event_id = 1
                    ELSE /\ r.last_digest = r.events[n].digest
                         /\ r.next_event_id = r.events[n].event_id + 1

Verdict(r) ==
    LET anchored == r.truncated /\ r.events # <<>>
        id == IF anchored THEN r.events[1].event_id ELSE r.after + 1
        digest == IF anchored THEN r.events[1].prior_digest ELSE NoDigest IN
    IF ~Verifies(r.events, digest, id) \/ ~Receipt(r) THEN "error"
    ELSE IF r.truncated \/ r.after # 0 THEN "unverified" ELSE "verified"

rpc_poison_audit_snapshot(after, room) ==
    /\ reply' = Snapshot(chain, after, room)
    /\ verdict' = Verdict(reply')
    /\ UNCHANGED <<chain, log>>

------------------------------------------------------------------------------
\* The chain lives in RAM: every boot begins a new one, and the sessions that
\* held a snapshot are gone.
poison_audit_on_system_start ==
    /\ chain' = poison_audit_init
    /\ log' = <<>>
    /\ reply' = Promise!NoReply
    /\ verdict' = "none"

Init ==
    /\ chain = poison_audit_init
    /\ log = <<>>
    /\ reply = Promise!NoReply
    /\ verdict = "none"

Next ==
    \/ \E entry \in Entries : poison_audit_append(entry)
    \/ \E after \in 0 .. MaxEvents, room \in 1 .. RingSize :
           rpc_poison_audit_snapshot(after, room)
    \/ poison_audit_on_system_start

Spec == Init /\ [][Next]_vars

------------------------------------------------------------------------------
(* Properties *)

EventSet == [event_id : Nat, prior_digest : Digests,
             entry : Entries \cup {NoEntry}, digest : Digests]

\* The indexes stay within the ring and the count within its size.
TypeOK ==
    /\ chain \in [next_event_id : Nat \ {0}, last_digest : Digests,
                  events : [Slots -> EventSet],
                  event_count : 0 .. RingSize, write_index : Slots]
    /\ log \in Seq(EventSet)
    /\ verdict \in {"none", "error", "unverified", "verified"}

\* The slot of the k-th event counted back from the newest.
Back(k) == IF k <= chain.write_index THEN chain.write_index - k
                                     ELSE chain.write_index - k + RingSize

\* The ring holds the last events of the log, the k-th newest k slots before
\* the next write, and the head of the chain is the log's: what snapshot's
\* search relies on once the ring has wrapped.
RingHoldsTail ==
    /\ chain.next_event_id = Len(log) + 1
    /\ chain.event_count = Promise!Lesser(RingSize, Len(log))
    /\ chain.last_digest = Promise!LastDigest(log)
    /\ \A k \in 1 .. chain.event_count :
           chain.events[Back(k)] = log[Len(log) + 1 - k]
    /\ \A i \in Slots : (\A k \in 1 .. chain.event_count : Back(k) # i) =>
           chain.events[i].event_id = 0

\* A dashboard that reads from the beginning (AuditClient.read(0)) never
\* rejects what the device sent, and calls it verified exactly when it has
\* the whole chain: an overwritten event is never passed over in silence.
FullReadJudged ==
    verdict # "none" /\ reply.after = 0 =>
        verdict = IF reply.next_event_id - 1 <= reply.room THEN "verified"
                                                           ELSE "unverified"

\* The ring implements the unbounded chain: every snapshot is the one the
\* whole log would give, with truncated set exactly when an event is missing.
KeepsPromise == Promise!Spec
==============================================================================
