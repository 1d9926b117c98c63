--------------------------- MODULE EvidenceArchive ---------------------------
(***************************************************************************)
(* What the evidence on the card is to whoever reads it: objects that are *)
(* kept for ever under their digests, objects that were lost while they   *)
(* were kept and never come back, and records, each written once, that    *)
(* name one of them.                                                       *)
(***************************************************************************)
CONSTANTS
    Ids,            \* evidence ids
    Contents,
    Nothing         \* the id of no record

VARIABLES
    kept,           \* the contents that are whole
    lost,           \* the contents whose copy was cut short
    names           \* the content that each record names

Init ==
    /\ kept = {}
    /\ lost = {}
    /\ names = [id \in Ids |-> Nothing]

Keep(c) ==
    /\ c \notin lost
    /\ kept' = kept \cup {c}
    /\ UNCHANGED <<lost, names>>

Lose(c) ==
    /\ c \notin kept
    /\ lost' = lost \cup {c}
    /\ UNCHANGED <<kept, names>>

Name(id, c) ==
    /\ names[id] = Nothing
    /\ c \in kept \cup lost
    /\ names' = [names EXCEPT ![id] = c]
    /\ UNCHANGED <<kept, lost>>

Next == \E c \in Contents :
            Keep(c) \/ Lose(c) \/ \E id \in Ids : Name(id, c)

Spec == Init /\ [][Next]_<<kept, lost, names>>
==============================================================================
