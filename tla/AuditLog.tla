------------------------------ MODULE AuditLog ------------------------------
(***************************************************************************)
(* What the audit service promises: a chain that only grows until the     *)
(* device restarts, and snapshots that hold consecutive events and say so *)
(* when an event after the one asked for is missing.                      *)
(***************************************************************************)
EXTENDS Integers, Sequences

CONSTANTS
    Entries,        \* what an event says: actor, action, resource, decision...
    Digests,        \* SHA-256 values
    NoDigest,       \* 32 zero bytes
    Digest(_, _, _),\* SHA-256 of an event's id, prior digest and entry
    RingSize,       \* POISON_AUDIT_RING_SIZE
    MaxEvents       \* bound on the events of one boot

VARIABLES
    log,            \* every event of this boot, oldest first
    reply           \* the last snapshot taken

\* PoisonAuditEvent
Event(id, prior, entry) ==
    [event_id |-> id, prior_digest |-> prior, entry |-> entry,
     digest |-> Digest(id, prior, entry)]

LastDigest(l) == IF l = <<>> THEN NoDigest ELSE l[Len(l)].digest

\* The event that continues a chain.
Link(l, entry) == Event(Len(l) + 1, LastDigest(l), entry)

Lesser(a, b) == IF a < b THEN a ELSE b
Greater(a, b) == IF a < b THEN b ELSE a

\* The events kept are the last RingSize; a snapshot holds the oldest of them
\* after the one asked for, as many as there is room for.
First(l, after) == Greater(after, Len(l) - Lesser(RingSize, Len(l))) + 1
Last(l, after, room) == Lesser(Len(l), First(l, after) + room - 1)

\* A snapshot is truncated when an event it should hold is missing from it.
View(l, after, room) ==
    [after |-> after, room |-> room,
     events |-> [k \in 1 .. Last(l, after, room) - First(l, after) + 1 |->
                    l[First(l, after) + k - 1]],
     truncated |-> \E i \in after + 1 .. Len(l) :
                       i \notin First(l, after) .. Last(l, after, room),
     next_event_id |-> Len(l) + 1,
     last_digest |-> LastDigest(l)]

NoReply == View(<<>>, 0, 1)

------------------------------------------------------------------------------
Init == log = <<>> /\ reply = NoReply

Grow ==
    /\ \E entry \in Entries : log' = Append(log, Link(log, entry))
    /\ UNCHANGED reply

Look ==
    /\ \E after \in 0 .. MaxEvents, room \in 1 .. RingSize :
           reply' = View(log, after, room)
    /\ UNCHANGED log

Restart == log' = <<>> /\ reply' = NoReply

Next == Grow \/ Look \/ Restart

Spec == Init /\ [][Next]_<<log, reply>>
==============================================================================
