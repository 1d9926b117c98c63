---------------------------- MODULE SessionProofs ----------------------------
(***************************************************************************)
(* For any number of transports, resume slots, clients and messages: a    *)
(* session exists once, and neither of its sequences ever goes back. The  *)
(* session's steps are steps of the registry, so what is proved of the    *)
(* registry alone holds here too.                                         *)
(***************************************************************************)
EXTENDS Session, FiniteSetTheorems, TLAPS

------------------------------------------------------------------------------
(* The registry alone: it survives a power cut at any point, for any finite
   set of clients and any number of operations, unless a revocation of all of an
   even number of clients is being written or has failed. The argument is about
   the parity of generations: the table in memory, of generation g, is in file
   g % 2, and every other save writes the other one. *)

\* One generation and the next are of different files, and every generation is
\* of the one or the other.
LEMMA Parity ==
    ASSUME NEW g \in Nat
    PROVE  /\ g % 2 \in Slots /\ (g + 1) % 2 \in Slots
           /\ (g + 1) % 2 # g % 2
           /\ \A i \in Slots : i # g % 2 => i = (g + 1) % 2
  BY DEF Slots

\* The generation in memory, the file that holds it and the one written next.
G == reg.store.generation
Held == G % 2
Other == (G + 1) % 2

\* How many changes a revocation of all clients counts for.
Count == Cardinality(reg.store.clients)

\* A file that authenticates is of its own parity.
ParityInv ==
    \A i \in Slots : disk[i].kind = "valid" =>
        /\ disk[i].store.generation >= 1
        /\ disk[i].store.generation % 2 = i

\* The table in memory is on disk, unless it is the empty one of a registry
\* that was never saved since it was created or recovered.
HeldInv ==
    ~Overwrites /\ ~overwritten =>
        IF G > 0 THEN disk[Held] = Valid(reg.store)
        ELSE reg.store.clients = {} /\ disk[Held].kind # "valid"

\* The other file is older, or it is what a save that reported an error wrote,
\* or the empty table of a recovery. It is never past what a revocation of all
\* clients would write.
OtherInv ==
    ~overwritten /\ disk[Other].kind = "valid" =>
        /\ \/ disk[Other].store.generation <= G + 1
           \/ disk[Other].store.generation <= G + Count
        /\ ~Overwrites /\ disk[Other].store.generation > G =>
              \/ doubt # Empty /\ disk[Other].store.clients = doubt.clients
              \/ G = 0 /\ disk[Other].store.clients = {}

\* A save is of a later generation: the next one, or as many on as there are
\* clients. It tears its file when it opens it.
SaveInv ==
    /\ save = Free \/ save.op \in {"add", "revoke", "revoke_all", "recover"}
    /\ save.op \in {"add", "revoke", "recover"} => save.next.generation = G + 1
    /\ save.op = "revoke_all" =>
           Count >= 1 /\ save.next.generation = G + Count
    /\ save.open => save # Free /\ disk[Target(save.next)].kind = "torn"
    /\ save.op = "recover" => G = 0 /\ save.next.clients = {}

\* A registry that is not ready holds nothing.
ReadyInv == ~reg.ready => reg.store = Empty

RegistryInv ==
    /\ RegistryTypeOK
    /\ ParityInv
    /\ HeldInv
    /\ OtherInv
    /\ SaveInv
    /\ ReadyInv

USE RegistryAssumption

\* An empty table and a file without one have their types.
LEMMA EmptyTyped == Empty \in Stores /\ Torn \in Files /\ Absent \in Files
  BY DEF Torn, Absent, Files, Stores, Empty

\* A file with a table has its type.
LEMMA ValidTyped ==
    ASSUME NEW store \in Stores
    PROVE  Valid(store) \in Files
  BY DEF Valid, Files

\* What load returns: a file that authenticates and is the newest, or nothing.
LEMMA LoadedIsNewest ==
    ASSUME NEW d \in [Slots -> Files]
    PROVE  \/ /\ Loaded(d) = Empty
              /\ \A i \in Slots : d[i].kind # "valid"
           \/ \E i \in Slots :
                 /\ d[i].kind = "valid" /\ Loaded(d) = d[i].store
                 /\ \A j \in Slots : d[j].kind = "valid" =>
                        d[j].store.generation <= d[i].store.generation
  BY DEF Loaded, Slots, Files, Stores

\* A file that authenticates is one with a table.
LEMMA ValidIs ==
    ASSUME NEW f \in Files, f.kind = "valid"
    PROVE  f = Valid(f.store) /\ f.store \in Stores
  BY DEF Valid, Files

\* Clients are counted by a natural number, zero if there are none.
LEMMA CountTyped ==
    ASSUME RegistryTypeOK
    PROVE  /\ Count \in Nat
           /\ reg.store.clients # {} => Count >= 1
<1>1. reg.store.clients \subseteq Clients
  BY DEF RegistryTypeOK, Stores
<1>2. IsFiniteSet(reg.store.clients)
  BY <1>1, FS_Subset
<1> QED  BY <1>2, FS_CardinalityType, FS_EmptySet DEF Count

\* No save is under way without an open file, so nothing is overwritten.
LEMMA FreeOverwritesNothing == save = Free => ~Overwrites
  BY DEF Free, Overwrites

\* A registry without files is in the invariant.
LEMMA InitInv == RegistryInit => RegistryInv
<1> SUFFICES ASSUME RegistryInit PROVE RegistryInv
  OBVIOUS
<1> USE DEF RegistryInit
<1>1. reg = [ready |-> TRUE, store |-> Empty]
  BY DEF Registered, Readable, Loaded, Absent, Slots
<1>2. G = 0 /\ Held = 0 /\ Other = 1
  BY <1>1 DEF G, Held, Other, Empty
<1>3. RegistryTypeOK
  <2>1. disk \in [Slots -> Files]
    BY EmptyTyped
  <2>2. [ready |-> TRUE, store |-> Empty] \in [ready : BOOLEAN, store : Stores]
    BY EmptyTyped, Zenon
  <2>3. doubt \in Stores
    BY EmptyTyped
  <2>4. Free \in [op : {"none", "add", "revoke", "revoke_all", "recover"},
                  next : Stores, open : BOOLEAN]
    BY EmptyTyped DEF Free
  <2> QED  BY <1>1, <2>1, <2>2, <2>3, <2>4, Zenon DEF RegistryTypeOK
<1>4. ParityInv /\ HeldInv /\ OtherInv
  BY <1>1, <1>2 DEF ParityInv, HeldInv, OtherInv, Absent, Slots, Empty
<1>5. SaveInv /\ ReadyInv
  BY <1>1 DEF SaveInv, ReadyInv, Free
<1> QED  BY <1>3, <1>4, <1>5 DEF RegistryInv

\* A step that begins a save touches no file and no table.
LEMMA BeginInv ==
    ASSUME RegistryInv,
           NEW op \in {"add", "revoke", "revoke_all", "recover"},
           NEW next \in Stores,
           op # "revoke_all" => next.generation = G + 1,
           op = "revoke_all" => Count >= 1 /\ next.generation = G + Count,
           op = "recover" => G = 0 /\ next.clients = {},
           Begin(op, next)
    PROVE  RegistryInv'
<1> USE DEF RegistryInv, Begin
<1>1. G' = G /\ Held' = Held /\ Other' = Other /\ Count' = Count
  BY DEF G, Held, Other, Count
<1>2. save' # Free /\ ~Overwrites /\ ~Overwrites'
  BY DEF Free, Overwrites
<1>3. RegistryTypeOK'
  BY DEF RegistryTypeOK
<1>4. ParityInv' /\ ReadyInv'
  BY DEF ParityInv, ReadyInv
<1>5. HeldInv' /\ OtherInv'
  BY <1>1, <1>2 DEF HeldInv, OtherInv
<1>6. SaveInv'
  BY <1>1, <1>2 DEF SaveInv
<1> QED  BY <1>3, <1>4, <1>5, <1>6

\* The start of an add keeps the invariant.
LEMMA AddInv ==
    ASSUME RegistryInv, NEW c \in Clients, poison_pairing_registry_add(c)
    PROVE  RegistryInv'
<1> DEFINE next == Changed(reg.store.clients \cup {c})
<1>1. next \in Stores /\ next.generation = G + 1
  BY DEF RegistryInv, RegistryTypeOK, Stores, Changed, G,
         poison_pairing_registry_add
<1>2. Begin("add", next)
  BY DEF poison_pairing_registry_add
<1> HIDE DEF next
<1> QED  BY <1>1, <1>2, BeginInv

\* The start of a revocation keeps the invariant.
LEMMA RevokeInv ==
    ASSUME RegistryInv, NEW c \in Clients, poison_pairing_registry_revoke(c)
    PROVE  RegistryInv'
<1> DEFINE next == Changed(reg.store.clients \ {c})
<1>1. next \in Stores /\ next.generation = G + 1
  BY DEF RegistryInv, RegistryTypeOK, Stores, Changed, G,
         poison_pairing_registry_revoke
<1>2. Begin("revoke", next)
  BY DEF poison_pairing_registry_revoke
<1> HIDE DEF next
<1> QED  BY <1>1, <1>2, BeginInv

\* The start of a revocation of all clients keeps the invariant.
LEMMA RevokeAllInv ==
    ASSUME RegistryInv, poison_pairing_registry_revoke_all
    PROVE  RegistryInv'
<1> DEFINE next == [generation |-> G + Count, clients |-> {}]
<1>1. Count \in Nat /\ Count >= 1
  BY CountTyped DEF RegistryInv, poison_pairing_registry_revoke_all
<1>2. G \in Nat
  BY DEF RegistryInv, RegistryTypeOK, Stores, G
<1>3. next \in Stores /\ next.generation = G + Count
  BY <1>1, <1>2 DEF Stores
<1>4. Begin("revoke_all", next)
  BY DEF poison_pairing_registry_revoke_all, G, Count
<1> HIDE DEF next
<1> QED  BY <1>1, <1>3, <1>4, BeginInv

\* The start of a recovery keeps the invariant.
LEMMA RecoverInv ==
    ASSUME RegistryInv, poison_pairing_registry_recover_corrupt
    PROVE  RegistryInv'
<1> DEFINE next == [generation |-> 1, clients |-> {}]
<1>1. next \in Stores
  BY DEF Stores
<1>2. G = 0
  BY DEF RegistryInv, ReadyInv, poison_pairing_registry_recover_corrupt, G, Empty
<1>3. next.generation = G + 1 /\ next.clients = {}
  BY <1>2
<1>4. Begin("recover", next)
  BY DEF poison_pairing_registry_recover_corrupt
<1> HIDE DEF next
<1> QED  BY <1>1, <1>2, <1>3, <1>4, BeginInv

\* The generation a save writes, and whether it goes to the file that holds the
\* table or to the other one.
LEMMA SaveTarget ==
    ASSUME RegistryInv, save # Free
    PROVE  /\ G \in Nat /\ Count \in Nat /\ save.next \in Stores
           /\ save.next.generation > G
           /\ \/ save.next.generation = G + 1
              \/ save.op = "revoke_all" /\ save.next.generation = G + Count
           /\ Held \in Slots /\ Other \in Slots /\ Held # Other
           /\ \A i \in Slots : i = Held \/ i = Other
           /\ Target(save.next) \in {Held, Other}
           /\ save.op = "recover" => Target(save.next) = Other
<1>1. G \in Nat /\ Count \in Nat /\ save.next \in Stores
  BY CountTyped DEF RegistryInv, RegistryTypeOK, Stores, G
<1>2. save.op \in {"add", "revoke", "revoke_all", "recover"}
  BY DEF RegistryInv, SaveInv
<1>3. /\ save.next.generation > G
      /\ \/ save.next.generation = G + 1
         \/ save.op = "revoke_all" /\ save.next.generation = G + Count
  BY <1>1, <1>2 DEF RegistryInv, SaveInv
<1>4. /\ Held \in Slots /\ Other \in Slots /\ Held # Other
      /\ \A i \in Slots : i = Held \/ i = Other
  BY <1>1, Parity DEF Held, Other
<1>5. Target(save.next) \in Slots
  BY <1>1, Parity DEF Target, Stores
<1>6. save.op = "recover" => Target(save.next) = Other
  BY <1>2 DEF RegistryInv, SaveInv, Target, Other
<1> QED  BY <1>1, <1>3, <1>4, <1>5, <1>6

\* The open tears one file. When it is the one that holds the table, the save
\* overwrites, and the invariant asks nothing of that file.
LEMMA OpenInv ==
    ASSUME RegistryInv, save_open
    PROVE  RegistryInv'
<1> USE DEF RegistryInv, save_open
<1> DEFINE i == Target(save.next)
<1>1. /\ G \in Nat /\ Held \in Slots /\ Other \in Slots /\ Held # Other
      /\ i \in {Held, Other}
  BY SaveTarget
<1>2. /\ G' = G /\ Held' = Held /\ Other' = Other /\ Count' = Count
      /\ reg' = reg /\ doubt' = Empty /\ overwritten' = overwritten
  BY DEF G, Held, Other, Count
<1>3. disk' = [disk EXCEPT ![i] = Torn] /\ disk \in [Slots -> Files]
  BY DEF RegistryTypeOK
<1>4. disk'[i] = Torn /\ \A j \in Slots : j # i => disk'[j] = disk[j]
  BY <1>1, <1>3
<1>5. /\ save'.op = save.op /\ save'.next = save.next /\ save'.open = TRUE
      /\ save.op # "none" /\ save' # Free
  <2>1. save.op # "none"
    BY DEF SaveInv
  <2>2. save'.op = save.op /\ save'.next = save.next /\ save'.open = TRUE
    BY DEF RegistryTypeOK
  <2> QED  BY <2>1, <2>2 DEF Free
<1>6. RegistryTypeOK'
  <2>1. disk' \in [Slots -> Files]
    BY <1>3, EmptyTyped
  <2>2. save' \in [op : {"none", "add", "revoke", "revoke_all", "recover"},
                   next : Stores, open : BOOLEAN]
    BY DEF RegistryTypeOK
  <2> QED  BY <1>2, <2>1, <2>2, EmptyTyped DEF RegistryTypeOK
<1>7. Overwrites' <=> i = Held
  BY <1>2, <1>5 DEF Overwrites, Held, G, Target
<1>8. ~Overwrites
  BY DEF Overwrites
<1> HIDE DEF i
<1>9. ParityInv' /\ ReadyInv'
  BY <1>1, <1>2, <1>4 DEF ParityInv, ReadyInv, Torn
<1>10. HeldInv'
  BY <1>1, <1>2, <1>4, <1>7, <1>8 DEF HeldInv
<1>11. OtherInv'
  <2>1. CASE i = Held
    BY <2>1, <1>1, <1>2, <1>4, <1>7 DEF OtherInv
  <2>2. CASE i = Other
    BY <2>2, <1>1, <1>2, <1>4 DEF OtherInv, Torn
  <2> QED  BY <2>1, <2>2, <1>1
<1>12. SaveInv'
  <2>1. Target(save'.next) = i
    BY <1>5 DEF i
  <2> QED  BY <2>1, <1>2, <1>4, <1>5 DEF SaveInv, Torn
<1> QED  BY <1>6, <1>9, <1>10, <1>11, <1>12

\* An open that fails changes nothing but the save.
LEMMA OpenFailedInv ==
    ASSUME RegistryInv, save_open_failed
    PROVE  RegistryInv'
<1> USE DEF RegistryInv, save_open_failed
<1>1. G' = G /\ Held' = Held /\ Other' = Other /\ Count' = Count
  BY DEF G, Held, Other, Count
<1>2. ~Overwrites /\ ~Overwrites'
  BY DEF Overwrites, Free
<1>3. RegistryTypeOK'
  BY EmptyTyped DEF RegistryTypeOK, Free
<1>4. ParityInv' /\ ReadyInv'
  BY DEF ParityInv, ReadyInv
<1>5. HeldInv' /\ OtherInv'
  BY <1>1, <1>2 DEF HeldInv, OtherInv
<1>6. SaveInv'
  BY DEF SaveInv, Free
<1> QED  BY <1>3, <1>4, <1>5, <1>6

\* A write that fails leaves its file torn: the other one, or overwritten.
LEMMA WriteFailedInv ==
    ASSUME RegistryInv, save_write_failed
    PROVE  RegistryInv'
<1> USE DEF RegistryInv, save_write_failed, Answered
<1>1. G' = G /\ Held' = Held /\ Other' = Other /\ Count' = Count
  BY DEF G, Held, Other, Count
<1>2. ~Overwrites' /\ (overwritten' <=> overwritten \/ Overwrites)
  BY DEF Overwrites, Free, RegistryTypeOK
<1>3. RegistryTypeOK'
  <2>1. overwritten' \in BOOLEAN
    OBVIOUS
  <2> QED  BY <2>1, EmptyTyped DEF RegistryTypeOK, Free
<1>4. ParityInv' /\ ReadyInv'
  BY DEF ParityInv, ReadyInv
<1>5. HeldInv' /\ OtherInv'
  BY <1>1, <1>2 DEF HeldInv, OtherInv
<1>6. SaveInv'
  BY DEF SaveInv, Free
<1> QED  BY <1>3, <1>4, <1>5, <1>6

\* A save that is written: its file is the newest. If it reports success it is
\* the table now, except after a recovery.
LEMMA WrittenInv ==
    ASSUME RegistryInv, NEW ok \in BOOLEAN, save_written(ok)
    PROVE  RegistryInv'
<1> USE DEF RegistryInv
<1> DEFINE n == save.next
           i == Target(n)
<1>1. save # Free /\ save.open
  BY DEF SaveInv, save_written
<1>2. /\ G \in Nat /\ Count \in Nat /\ n \in Stores /\ n.generation > G
      /\ \/ n.generation = G + 1
         \/ save.op = "revoke_all" /\ n.generation = G + Count
      /\ Held \in Slots /\ Other \in Slots /\ Held # Other
      /\ \A j \in Slots : j = Held \/ j = Other
      /\ i \in {Held, Other}
      /\ save.op = "recover" => i = Other
  BY <1>1, SaveTarget
<1>3. disk' = [disk EXCEPT ![i] = Valid(n)] /\ disk \in [Slots -> Files]
  BY DEF RegistryTypeOK, save_written
<1>4. disk'[i] = Valid(n) /\ \A j \in Slots : j # i => disk'[j] = disk[j]
  BY <1>2, <1>3
<1>5. disk' \in [Slots -> Files]
  BY <1>2, <1>3, ValidTyped
<1>6. save' = Free /\ SaveInv' /\ ~Overwrites'
  BY DEF SaveInv, Free, Overwrites, save_written, Answered
<1>7. i = n.generation % 2 /\ n.generation \in Nat
  BY <1>2 DEF Target, Stores
<1>8. Overwrites <=> i = Held
  BY <1>1 DEF Overwrites, Held, G
<1> HIDE DEF i, n
<1>9. ParityInv'
  BY <1>2, <1>4, <1>7 DEF ParityInv, Valid
<1>10. CASE ~ok
  <2>1. reg' = reg /\ doubt' = n /\ (overwritten' <=> overwritten \/ i = Held)
    BY <1>8, <1>10 DEF save_written, Answered, n, RegistryTypeOK
  <2>2. G' = G /\ Held' = Held /\ Other' = Other /\ Count' = Count
    BY <2>1 DEF G, Held, Other, Count
  <2>3. RegistryTypeOK'
    <3>1. overwritten' \in BOOLEAN
      BY DEF save_written, Answered
    <3> QED  BY <3>1, <2>1, <1>2, <1>5, <1>6, EmptyTyped DEF RegistryTypeOK, Free
  <2>4. ReadyInv'
    BY <2>1 DEF ReadyInv
  <2>5. HeldInv'
    BY <2>1, <2>2, <1>2, <1>4, <1>8 DEF HeldInv
  <2>6. doubt' # Empty
    BY <2>1, <1>2 DEF Empty
  <2>7. OtherInv'
    <3>1. i = Other => disk'[Other].store = n
      BY <1>4 DEF Valid
    <3> QED  BY <3>1, <2>1, <2>2, <2>6, <1>2 DEF OtherInv
  <2> QED  BY <2>3, <2>4, <2>5, <2>7, <1>6, <1>9
<1>11. CASE ok /\ save.op # "recover"
  <2>1. /\ reg' = [ready |-> TRUE, store |-> n] /\ doubt' = Empty
        /\ overwritten' = overwritten
    BY <1>11 DEF save_written, Answered, n, RegistryTypeOK
  <2>2. G' = n.generation /\ Held' = i /\ Other' = (n.generation + 1) % 2
    BY <2>1, <1>7 DEF G, Held, Other
  <2>3. Other' \in Slots /\ Other' # i
    BY <2>2, <1>7, Parity
  <2>4. RegistryTypeOK'
    BY <2>1, <1>2, <1>5, <1>6, EmptyTyped DEF RegistryTypeOK, Free
  <2>5. HeldInv' /\ ReadyInv'
    BY <2>1, <2>2, <1>2, <1>4 DEF HeldInv, ReadyInv
  <2>6. disk'[Other'] = disk[Other']
    BY <2>3, <1>4
  <2>7. OtherInv'
    <3>1. CASE i = Held
      <4>1. \/ Other' = Other /\ save.op = "revoke_all"
            \/ n.generation = G + 1
        BY <3>1, <2>3, <1>2
      <4>2. n.generation # G + 1
        BY <3>1, <1>2, <1>7 DEF Held, Other
      <4>3. Other' = Other /\ n.generation = G + Count /\ Count >= 1
        BY <4>1, <4>2, <1>2
      <4>4. ~overwritten /\ disk[Other].kind = "valid" =>
                disk[Other].store.generation <= n.generation
        <5>1. disk[Other] \in Files
          BY <1>2, <1>3
        <5> QED  BY <5>1, <4>3, <1>2, <1>7 DEF OtherInv, Files, Stores
      <4>5. disk[Other].kind = "valid" => disk[Other].store.generation \in Nat
        BY <1>2, <1>3 DEF Files, Stores
      <4> QED  BY <4>3, <4>4, <4>5, <2>1, <2>2, <2>6, <1>7 DEF OtherInv
    <3>2. CASE i = Other
      <4>1. Other' = Held
        BY <3>2, <2>3, <1>2
      <4>2. ~overwritten /\ disk[Held].kind = "valid" =>
                disk[Held].store.generation = G
        BY <3>2, <1>2, <1>8 DEF HeldInv, Valid, G
      <4> QED  BY <4>1, <4>2, <2>1, <2>2, <2>6, <1>2, <1>7 DEF OtherInv
    <3> QED  BY <3>1, <3>2, <1>2
  <2> QED  BY <2>4, <2>5, <2>7, <1>6, <1>9
<1>12. CASE ok /\ save.op = "recover"
  <2>1. /\ reg' = [ready |-> TRUE, store |-> Empty] /\ doubt' = Empty
        /\ overwritten' = overwritten
    BY <1>12 DEF save_written, Answered, RegistryTypeOK
  <2>2. G = 0 /\ n.clients = {} /\ n.generation = 1 /\ i = Other
    BY <1>2, <1>12 DEF SaveInv, n
  <2>3. G' = G /\ Held' = Held /\ Other' = Other
    BY <2>1, <2>2 DEF G, Held, Other, Empty
  <2>4. RegistryTypeOK'
    BY <2>1, <1>5, <1>6, EmptyTyped DEF RegistryTypeOK, Free
  <2>5. HeldInv' /\ ReadyInv'
    BY <2>1, <2>2, <2>3, <1>2, <1>4, <1>8 DEF HeldInv, ReadyInv, Empty
  <2>6. OtherInv'
    BY <2>2, <2>3, <1>2, <1>4 DEF OtherInv, Valid
  <2> QED  BY <2>4, <2>5, <2>6, <1>6, <1>9
<1> QED  BY <1>10, <1>11, <1>12

\* A boot reads what is there.
LEMMA RestartInv ==
    ASSUME RegistryInv, registry_restart
    PROVE  RegistryInv'
<1> USE DEF RegistryInv, registry_restart
<1>1. /\ disk \in [Slots -> Files] /\ disk' = disk /\ doubt' = Empty
      /\ save' = Free /\ overwritten' = FALSE
  BY DEF RegistryTypeOK
<1>2. reg' = [ready |-> Readable(disk), store |-> Loaded(disk)]
  BY DEF Registered
<1>3. ParityInv' /\ SaveInv' /\ overwritten' \in BOOLEAN
  <2>1. ParityInv' /\ SaveInv'
    BY <1>1 DEF ParityInv, SaveInv, Free
  <2>2. overwritten' \in BOOLEAN
    BY <1>1, Zenon
  <2> QED  BY <2>1, <2>2
<1>4. CASE Loaded(disk) = Empty /\ \A i \in Slots : disk[i].kind # "valid"
  <2>1. G' = 0 /\ Held' = 0 /\ Other' = 1
    BY <1>2, <1>4 DEF G, Held, Other, Empty
  <2>2. RegistryTypeOK'
    <3>1. reg' \in [ready : BOOLEAN, store : Stores]
      BY <1>2, <1>4, EmptyTyped DEF Readable
    <3>2. save' \in [op : {"none", "add", "revoke", "revoke_all", "recover"},
                     next : Stores, open : BOOLEAN]
      BY <1>1, EmptyTyped DEF Free
    <3> QED  BY <3>1, <3>2, <1>1, <1>3, EmptyTyped DEF RegistryTypeOK
  <2>3. HeldInv' /\ OtherInv' /\ ReadyInv'
    BY <2>1, <1>1, <1>2, <1>4 DEF HeldInv, OtherInv, ReadyInv, Slots, Empty
  <2> QED  BY <2>2, <2>3, <1>3
<1>5. ASSUME NEW i \in Slots,
             disk[i].kind = "valid", Loaded(disk) = disk[i].store,
             \A j \in Slots : disk[j].kind = "valid" =>
                 disk[j].store.generation <= disk[i].store.generation
      PROVE  RegistryInv'
  <2>1. disk[i] = Valid(disk[i].store) /\ disk[i].store \in Stores
    BY <1>1, <1>5, ValidIs
  <2>2. reg' = [ready |-> TRUE, store |-> disk[i].store]
    <3>1. Readable(disk) = TRUE
      BY <1>5, Zenon DEF Readable
    <3> QED  BY <3>1, <1>2, <1>5
  <2>3. G' \in Nat /\ G' >= 1 /\ G' = disk[i].store.generation
    BY <2>1, <2>2, <1>5 DEF G, Stores, ParityInv
  <2>4. Held' = i /\ Other' \in Slots /\ Other' # i
    BY <2>3, <1>5, Parity DEF Held, Other, ParityInv
  <2>5. RegistryTypeOK'
    <3>1. save' \in [op : {"none", "add", "revoke", "revoke_all", "recover"},
                     next : Stores, open : BOOLEAN]
      BY <1>1, EmptyTyped DEF Free
    <3> QED  BY <3>1, <1>1, <1>3, <2>1, <2>2, EmptyTyped DEF RegistryTypeOK
  <2>6. HeldInv' /\ ReadyInv'
    BY <2>1, <2>2, <2>3, <2>4, <1>1 DEF HeldInv, ReadyInv
  <2>7. OtherInv'
    <3>1. disk[Other'].kind = "valid" => /\ disk[Other'].store.generation <= G'
                                        /\ disk[Other'].store.generation \in Nat
      BY <2>3, <2>4, <1>5, <1>1 DEF Files, Stores
    <3> QED  BY <3>1, <2>3, <1>1 DEF OtherInv
  <2> QED  BY <2>5, <2>6, <2>7, <1>3
<1> QED  BY <1>1, <1>4, <1>5, LoadedIsNewest

\* Every step of the registry keeps its invariant.
LEMMA NextInv == RegistryInv /\ [RegistryNext]_registryVars => RegistryInv'
<1> SUFFICES ASSUME RegistryInv, [RegistryNext]_registryVars PROVE RegistryInv'
  OBVIOUS
<1>1. CASE UNCHANGED registryVars
  BY <1>1 DEF registryVars, RegistryInv, RegistryTypeOK, ParityInv, HeldInv,
              OtherInv, SaveInv, ReadyInv, G, Held, Other, Count, Overwrites
<1>2. CASE RegistryNext
  BY <1>2, AddInv, RevokeInv, RevokeAllInv, RecoverInv, OpenInv, OpenFailedInv, WrittenInv,
     WriteFailedInv, RestartInv DEF RegistryNext
<1> QED  BY <1>1, <1>2

\* From the invariant: what a boot would find.
LEMMA InvFinds == RegistryInv => RestartFindsRegistry
<1> SUFFICES ASSUME RegistryInv, ~Overwrites, ~overwritten
             PROVE  RestartFindsRegistry
  BY DEF RestartFindsRegistry
<1> USE DEF RegistryInv
<1>1. G \in Nat /\ disk \in [Slots -> Files]
  BY DEF RegistryTypeOK, Stores, G
<1>2. /\ Other \in Slots /\ Held \in Slots
      /\ \A i \in Slots : i = Held \/ i = Other
  BY <1>1, Parity DEF Held, Other
<1>3. IF G > 0 THEN disk[Held] = Valid(reg.store)
      ELSE reg.store.clients = {} /\ disk[Held].kind # "valid"
  BY DEF HeldInv
<1>4. CASE Loaded(disk) = Empty /\ \A i \in Slots : disk[i].kind # "valid"
  <2>1. reg.store.clients = {}
    BY <1>1, <1>2, <1>3, <1>4 DEF Valid
  <2> QED  BY <2>1, <1>4 DEF RestartFindsRegistry, Empty
<1>5. ASSUME NEW i \in Slots,
             disk[i].kind = "valid", Loaded(disk) = disk[i].store,
             \A j \in Slots : disk[j].kind = "valid" =>
                 disk[j].store.generation <= disk[i].store.generation
      PROVE  RestartFindsRegistry
  <2>1. Readable(disk)
    BY <1>5 DEF Readable
  <2>2. CASE i = Held
    BY <2>1, <2>2, <1>1, <1>3, <1>5 DEF RestartFindsRegistry, Valid
  <2>3. CASE i = Other
    <3>1. disk[i].store.generation \in Nat /\ disk[i].store.generation >= 1
      BY <1>1, <1>5 DEF ParityInv, Files, Stores
    <3>2. disk[i].store.generation > G
      <4>1. CASE G = 0
        BY <4>1, <3>1
      <4>2. CASE G > 0
        <5>1. disk[Held].kind = "valid" /\ disk[Held].store.generation = G
          BY <4>2, <1>3 DEF Valid, G
        <5>2. disk[i].store.generation >= G
          BY <5>1, <1>2, <1>5
        <5>3. disk[i].store.generation % 2 # G % 2
          BY <2>3, <1>1, <1>5, Parity DEF ParityInv, Other
        <5> QED  BY <5>2, <5>3, <3>1, <1>1
      <4> QED  BY <4>1, <4>2, <1>1
    <3>3. \/ doubt # Empty /\ disk[i].store.clients = doubt.clients
          \/ G = 0 /\ disk[i].store.clients = {}
      BY <3>2, <2>3, <1>5 DEF OtherInv
    <3>4. G = 0 => reg.store.clients = {}
      BY <1>3
    <3> QED  BY <3>3, <3>4, <2>1, <1>5 DEF RestartFindsRegistry
  <2> QED  BY <2>2, <2>3, <1>2
<1> QED  BY <1>1, <1>4, <1>5, LoadedIsNewest

\* The invariant holds of the registry however its operations, failures and
\* power cuts are ordered (poison_pairing_store.c).
THEOREM RegistryIsInv == RegistrySpec => []RegistryInv
  BY InitInv, NextInv, PTL DEF RegistrySpec

\* The registry, its files and the save under way keep their types.
THEOREM RegistryTyped == RegistrySpec => []RegistryTypeOK
<1>1. RegistryInv => RegistryTypeOK
  BY DEF RegistryInv
<1> QED  BY <1>1, RegistryIsInv, PTL

\* After a power cut at any point of poison_pairing_store_save the boot finds
\* the clients that were paired, or those of the last save that was written and
\* reported an error, except while poison_pairing_registry_revoke_all overwrites
\* the file of the table it replaces and, if that fails, until the next boot.
THEOREM RegistrySurvives == RegistrySpec => []RestartFindsRegistry
  BY InvFinds, RegistryIsInv, PTL

------------------------------------------------------------------------------
(* The sessions over it *)

\* A link has an id from the hello on until its session is revoked.
Holding(l) == l.state \in {"confirming", "adding", "added", "active"}

\* Every id in use was given out, to a client; nothing was sent or taken under
\* one that was not.
FreshInv ==
    /\ \A t \in Links : Holding(link[t]) =>
           link[t].id \in 1 .. nextId - 1 /\ link[t].client \in Clients
    /\ \A i \in ResumeSlots : slots[i].active =>
           slots[i].id \in 1 .. nextId - 1 /\ slots[i].client \in Clients
    /\ \A n \in Ids : n >= nextId => sent[n] = 0 /\ taken[n] = 0

\* An id is on one link or in one slot.
UniqueInv ==
    /\ \A t, u \in Links : Holding(link[t]) /\ Holding(link[u]) /\ t # u =>
           link[t].id # link[u].id
    /\ \A t \in Links, i \in ResumeSlots : Holding(link[t]) /\ slots[i].active =>
           link[t].id # slots[i].id
    /\ \A i, j \in ResumeSlots : slots[i].active /\ slots[j].active /\ i # j =>
           slots[i].id # slots[j].id

\* Its counters are past what was sent and taken under it.
CounterInv ==
    /\ \A t \in Links : Holding(link[t]) =>
           link[t].tx >= sent[link[t].id] /\ link[t].rx = taken[link[t].id]
    /\ \A i \in ResumeSlots : slots[i].active =>
           slots[i].tx >= sent[slots[i].id] /\ slots[i].rx = taken[slots[i].id]

SessInv == SessionTypeOK /\ FreshInv /\ UniqueInv /\ CounterInv

USE SessionAssumption

\* Counters may be zero.
LEMMA Zero == 0 \in 0 .. MaxSequence /\ 0 \in 0 .. SlotCount
  OBVIOUS

\* A revoked link has its type and holds no id.
LEMMA RevokedTyped ==
    ASSUME NEW l \in LinkRecords
    PROVE  Revoked(l) \in LinkRecords /\ ~Holding(Revoked(l))
<1>1. Revoked(l) \in LinkRecords
  BY Zero, Zenon DEF Revoked, LinkRecords, LinkStates
<1>2. Revoked(l).state = "revoked"
  BY DEF Revoked, LinkRecords
<1> QED  BY <1>1, <1>2 DEF Holding

\* A link that was just opened has its type.
LEMMA OpenedTyped ==
    ASSUME NEW ready \in BOOLEAN
    PROVE  Opened(ready) \in LinkRecords /\ ~Holding(Opened(ready))
<1>1. Opened(ready) \in LinkRecords
  BY Zero, Zenon DEF Opened, LinkRecords, LinkStates
<1>2. Opened(ready).state = "unpaired"
  BY DEF Opened
<1> QED  BY <1>1, <1>2 DEF Holding

\* An empty slot has its type.
LEMMA NoSlotTyped == NoSlot \in SlotRecords /\ ~NoSlot.active
<1>1. NoSlot \in SlotRecords
  BY Zero, Zenon DEF NoSlot, SlotRecords
<1>2. ~NoSlot.active
  BY DEF NoSlot
<1> QED  BY <1>1, <1>2

\* A device without sessions is in the invariant.
LEMMA SessInit == RegistryTypeOK /\ Init => SessInv
<1> SUFFICES ASSUME RegistryTypeOK, Init PROVE SessInv
  OBVIOUS
<1>1. \A t \in Links : link[t] \in LinkRecords /\ ~Holding(link[t])
  BY OpenedTyped DEF Init
<1>2. \A i \in ResumeSlots : slots[i] \in SlotRecords /\ ~slots[i].active
  BY NoSlotTyped DEF Init
<1>3. SessionTypeOK
  <2>1. /\ link \in [Links -> LinkRecords] /\ slots \in [ResumeSlots -> SlotRecords]
    BY <1>1, <1>2 DEF Init
  <2>2. /\ sent \in [Ids -> 0 .. MaxSequence] /\ taken \in [Ids -> 0 .. MaxSequence]
    BY Zero DEF Init
  <2>3. nextId \in 1 .. MaxIds + 1 /\ dead \subseteq Ids
    BY DEF Init
  <2> QED  BY <2>1, <2>2, <2>3 DEF SessionTypeOK
<1>4. FreshInv /\ UniqueInv /\ CounterInv
  BY <1>1, <1>2 DEF FreshInv, UniqueInv, CounterInv, Init
<1> QED  BY <1>3, <1>4 DEF SessInv

\* A step on one link that gives it no new id: it keeps its own or loses it,
\* slots are left or emptied, and only its own counters move.
LEMMA OneLink ==
    ASSUME SessInv,
           NEW t \in Links, NEW new \in LinkRecords,
           link' = [link EXCEPT ![t] = new],
           nextId' = nextId, dead' \subseteq Ids,
           slots' \in [ResumeSlots -> SlotRecords],
           \A i \in ResumeSlots : slots'[i] = slots[i] \/ ~slots'[i].active,
           sent' \in [Ids -> 0 .. MaxSequence],
           taken' \in [Ids -> 0 .. MaxSequence],
           \A n \in Ids : ~Holding(link[t]) \/ n # link[t].id =>
               sent'[n] = sent[n] /\ taken'[n] = taken[n],
           Holding(new) => /\ Holding(link[t])
                           /\ new.id = link[t].id /\ new.client = link[t].client
                           /\ new.tx >= sent'[new.id] /\ new.rx = taken'[new.id]
    PROVE  SessInv'
<1> USE DEF SessInv
<1>1. link \in [Links -> LinkRecords] /\ nextId \in 1 .. MaxIds + 1
  BY DEF SessionTypeOK
<1>2. link'[t] = new /\ \A u \in Links : u # t => link'[u] = link[u]
  BY <1>1
<1>3. SessionTypeOK'
  BY <1>1 DEF SessionTypeOK
<1>4. \A u \in Links : Holding(link'[u]) =>
          Holding(link[u]) /\ link'[u].id = link[u].id /\ link'[u].client = link[u].client
  BY <1>2
<1>5. \A u \in Links : Holding(link[u]) => link[u].id \in Ids
  BY <1>1 DEF FreshInv, Ids
<1>6. \A i \in ResumeSlots : slots[i].active => slots[i].id \in Ids
  BY <1>1 DEF FreshInv, Ids
<1>7. FreshInv'
  <2>1. \A u \in Links : Holding(link'[u]) =>
            link'[u].id \in 1 .. nextId - 1 /\ link'[u].client \in Clients
    BY <1>4 DEF FreshInv
  <2>2. \A i \in ResumeSlots : slots'[i].active =>
            slots'[i].id \in 1 .. nextId - 1 /\ slots'[i].client \in Clients
    BY DEF FreshInv
  <2>3. ASSUME NEW n \in Ids, n >= nextId
        PROVE  sent'[n] = 0 /\ taken'[n] = 0
    <3>1. sent[n] = 0 /\ taken[n] = 0
      BY <2>3 DEF FreshInv
    <3>2. Holding(link[t]) => link[t].id \in 1 .. nextId - 1
      BY DEF FreshInv
    <3>3. Holding(link[t]) => n # link[t].id
      BY <1>1, <2>3, <3>2 DEF Ids
    <3> QED  BY <3>1, <3>3
  <2> QED  BY <2>1, <2>2, <2>3 DEF FreshInv
<1>8. UniqueInv'
  BY <1>4 DEF UniqueInv
<1>9. CounterInv'
  <2>1. \A u \in Links : Holding(link'[u]) =>
            link'[u].tx >= sent'[link'[u].id] /\ link'[u].rx = taken'[link'[u].id]
    BY <1>2, <1>5 DEF CounterInv, UniqueInv
  <2>2. \A i \in ResumeSlots : slots'[i].active =>
            slots'[i].tx >= sent'[slots'[i].id] /\ slots'[i].rx = taken'[slots'[i].id]
    BY <1>6 DEF CounterInv, UniqueInv
  <2> QED  BY <2>1, <2>2 DEF CounterInv
<1> QED  BY <1>3, <1>7, <1>8, <1>9

\* A change of state alone.
LEMMA KeepsLink ==
    ASSUME SessInv,
           NEW t \in Links, NEW new \in LinkRecords,
           link' = [link EXCEPT ![t] = new],
           UNCHANGED <<slots, nextId, sent, taken, dead>>,
           Holding(new) => /\ Holding(link[t])
                           /\ new.id = link[t].id /\ new.client = link[t].client
                           /\ new.tx = link[t].tx /\ new.rx = link[t].rx
    PROVE  SessInv'
<1>1. SessionTypeOK
  BY DEF SessInv
<1>2. Holding(new) => new.tx >= sent'[new.id] /\ new.rx = taken'[new.id]
  BY DEF SessInv, CounterInv
<1> QED  BY <1>1, <1>2, OneLink DEF SessionTypeOK

\* A session that becomes active and is counted keeps the invariant.
LEMMA CountedInv ==
    ASSUME SessInv, NEW t \in Links, Holding(link[t]), Counted(t),
           UNCHANGED <<slots, nextId, sent, taken, dead>>
    PROVE  SessInv'
<1> DEFINE l == link[t]
           active == [l EXCEPT !.state = "active", !.counted = TRUE]
<1>1. l \in LinkRecords
  BY DEF SessInv, SessionTypeOK
<1>2. /\ active \in LinkRecords
      /\ active.id = l.id /\ active.client = l.client
      /\ active.tx = l.tx /\ active.rx = l.rx
  BY <1>1 DEF LinkRecords, LinkStates
<1>3. Revoked(l) \in LinkRecords /\ ~Holding(Revoked(l))
  BY <1>1, RevokedTyped
<1>4. \/ link' = [link EXCEPT ![t] = active]
      \/ link' = [link EXCEPT ![t] = Revoked(l)]
  BY DEF Counted
<1> HIDE DEF active
<1> QED  BY <1>2, <1>3, <1>4, KeepsLink

\* A message sent under the next sequence keeps the invariant.
LEMMA SendsInv ==
    ASSUME SessInv, NEW t \in Links, Holding(link[t]),
           NEW l \in LinkRecords,
           l.id = link[t].id, l.client = link[t].client, l.tx = link[t].tx,
           taken' \in [Ids -> 0 .. MaxSequence],
           \A n \in Ids : n # l.id => taken'[n] = taken[n],
           l.rx = taken'[l.id],
           Sends(t, l), UNCHANGED <<slots, nextId, dead>>
    PROVE  SessInv'
<1> DEFINE new == [l EXCEPT !.tx = @ + 1]
<1>1. l.id \in Ids /\ l.tx \in Nat /\ l.tx < MaxSequence
  BY DEF SessInv, SessionTypeOK, FreshInv, Ids, LinkRecords, Sends
<1>2. l.tx + 1 \in 0 .. MaxSequence
  BY <1>1
<1>3. /\ new \in LinkRecords
      /\ new.id = l.id /\ new.client = l.client
      /\ new.tx = l.tx + 1 /\ new.rx = l.rx
  BY <1>2 DEF LinkRecords
<1>4. link' = [link EXCEPT ![t] = new]
  BY DEF Sends
<1>5. sent \in [Ids -> 0 .. MaxSequence] /\ sent[l.id] <= l.tx
  BY DEF SessInv, SessionTypeOK, CounterInv
<1>6. /\ sent' \in [Ids -> 0 .. MaxSequence]
      /\ sent'[l.id] <= l.tx + 1
      /\ \A n \in Ids : n # l.id => sent'[n] = sent[n]
  <2>1. CASE sent' = sent
    BY <2>1, <1>1, <1>5
  <2>2. CASE sent' = [sent EXCEPT ![l.id] = l.tx + 1]
    BY <2>2, <1>1, <1>2, <1>5
  <2> QED  BY <2>1, <2>2 DEF Sends
<1> HIDE DEF new
<1>7. new.tx >= sent'[new.id] /\ new.rx = taken'[new.id]
  BY <1>1, <1>3, <1>6
<1> QED  BY <1>3, <1>4, <1>6, <1>7, OneLink DEF SessInv, SessionTypeOK

\* The hello, which gives out an id, keeps the invariant.
LEMMA HelloInv ==
    ASSUME SessInv, NEW t \in Links, NEW c \in Clients,
           rpc_poison_pairing_hello_process(t, c)
    PROVE  SessInv'
<1> USE DEF rpc_poison_pairing_hello_process
<1>1. PICK same \in BOOLEAN :
          link' = [link EXCEPT ![t] =
                       [@ EXCEPT !.state = "confirming", !.id = nextId,
                                 !.client = c, !.tx = 0, !.rx = 0,
                                 !.trusted = Paired(c) /\ same]]
  OBVIOUS
<1> DEFINE new == [link[t] EXCEPT !.state = "confirming", !.id = nextId,
                                  !.client = c, !.tx = 0, !.rx = 0,
                                  !.trusted = Paired(c) /\ same]
<1>2. link \in [Links -> LinkRecords] /\ link[t] \in LinkRecords
  BY DEF SessInv, SessionTypeOK
<1>3. nextId \in Ids /\ nextId \in Nat /\ nextId >= 1 /\ nextId + 1 \in 1 .. MaxIds + 1
  BY DEF SessInv, SessionTypeOK, Ids
<1>4. Paired(c) \in BOOLEAN
  BY DEF Paired
<1>5. new \in LinkRecords
  BY <1>2, <1>3, <1>4, Zero, Zenon DEF LinkRecords, LinkStates
<1>6. new.id = nextId /\ new.client = c /\ new.tx = 0 /\ new.rx = 0
  BY <1>2 DEF LinkRecords
<1>7. link' = [link EXCEPT ![t] = new]
  BY <1>1
<1> HIDE DEF new
<1>8. link'[t] = new /\ \A u \in Links : u # t => link'[u] = link[u]
  BY <1>2, <1>7
<1>9. SessionTypeOK'
  BY <1>2, <1>3, <1>5, <1>7 DEF SessInv, SessionTypeOK
<1>10. FreshInv'
  <2>1. \A u \in Links : Holding(link'[u]) =>
            link'[u].id \in 1 .. nextId' - 1 /\ link'[u].client \in Clients
    BY <1>3, <1>6, <1>8 DEF SessInv, FreshInv
  <2>2. \A i \in ResumeSlots : slots'[i].active =>
            slots'[i].id \in 1 .. nextId' - 1 /\ slots'[i].client \in Clients
    BY <1>3 DEF SessInv, FreshInv
  <2>3. \A n \in Ids : n >= nextId' => sent'[n] = 0 /\ taken'[n] = 0
    BY <1>3 DEF SessInv, FreshInv, Ids
  <2> QED  BY <2>1, <2>2, <2>3 DEF FreshInv
<1>11. UniqueInv'
  <2>1. \A u \in Links : Holding(link[u]) => link[u].id # nextId
    BY <1>3 DEF SessInv, FreshInv
  <2>2. \A i \in ResumeSlots : slots[i].active => slots[i].id # nextId
    BY <1>3 DEF SessInv, FreshInv
  <2> QED  BY <2>1, <2>2, <1>6, <1>8 DEF SessInv, UniqueInv
<1>12. CounterInv'
  <2>1. sent[nextId] = 0 /\ taken[nextId] = 0
    BY <1>3 DEF SessInv, FreshInv
  <2> QED  BY <2>1, <1>6, <1>8 DEF SessInv, CounterInv
<1> QED  BY <1>9, <1>10, <1>11, <1>12 DEF SessInv

\* The confirmation of a pairing keeps the invariant.
LEMMA ConfirmInv ==
    ASSUME SessInv, NEW t \in Links, NEW approved \in BOOLEAN,
           rpc_poison_pairing_confirm_process(t, approved)
    PROVE  SessInv'
<1> USE DEF rpc_poison_pairing_confirm_process
<1>1. link[t] \in LinkRecords /\ Holding(link[t])
  BY DEF SessInv, SessionTypeOK, Holding
<1> DEFINE adding == [link[t] EXCEPT !.state = "adding"]
<1>2. /\ adding \in LinkRecords
      /\ adding.id = link[t].id /\ adding.client = link[t].client
      /\ adding.tx = link[t].tx /\ adding.rx = link[t].rx
  BY <1>1 DEF LinkRecords, LinkStates
<1>3. Revoked(link[t]) \in LinkRecords /\ ~Holding(Revoked(link[t]))
  BY <1>1, RevokedTyped
<1>4. \/ Counted(t)
      \/ link' = [link EXCEPT ![t] = adding]
      \/ link' = [link EXCEPT ![t] = Revoked(link[t])]
  OBVIOUS
<1> HIDE DEF adding
<1>5. CASE Counted(t)
  BY <1>1, <1>5, CountedInv
<1>6. CASE link' = [link EXCEPT ![t] = adding]
  BY <1>1, <1>2, <1>6, KeepsLink
<1>7. CASE link' = [link EXCEPT ![t] = Revoked(link[t])]
  BY <1>3, <1>7, KeepsLink
<1> QED  BY <1>4, <1>5, <1>6, <1>7

\* A slot that is forgotten is an empty one.
LEMMA ForgottenTyped ==
    ASSUME SessInv, NEW n
    PROVE  /\ Forgotten(n) \in [ResumeSlots -> SlotRecords]
           /\ \A i \in ResumeSlots : \/ Forgotten(n)[i] = slots[i]
                                     \/ ~Forgotten(n)[i].active
  BY NoSlotTyped DEF SessInv, SessionTypeOK, Forgotten

\* An envelope, taken or refused, keeps the invariant.
LEMMA EnvelopeInv ==
    ASSUME SessInv, NEW t \in Links, NEW sequence \in 0 .. MaxSequence,
           NEW request \in Requests,
           rpc_poison_session_envelope_process(t, sequence, request)
    PROVE  SessInv'
<1> DEFINE l == link[t]
           heard == [l EXCEPT !.rx = @ + 1]
           issued == [heard EXCEPT !.issued = TRUE]
<1>1. l \in LinkRecords /\ Holding(l) /\ link \in [Links -> LinkRecords]
  BY DEF SessInv, SessionTypeOK, Holding, Secure,
         rpc_poison_session_envelope_process
<1>2. l.id \in Ids /\ l.rx = taken[l.id]
  BY <1>1 DEF SessInv, SessionTypeOK, FreshInv, CounterInv, Ids
<1>3. Revoked(l) \in LinkRecords /\ ~Holding(Revoked(l))
  BY <1>1, RevokedTyped
<1>4. nextId' = nextId /\ dead' = dead /\ dead \subseteq Ids
  BY DEF SessInv, SessionTypeOK, rpc_poison_session_envelope_process
<1>5. /\ sent \in [Ids -> 0 .. MaxSequence] /\ taken \in [Ids -> 0 .. MaxSequence]
      /\ slots \in [ResumeSlots -> SlotRecords]
  BY DEF SessInv, SessionTypeOK
<1>6. CASE ~Paired(l.client)
  <2>1. /\ link' = [link EXCEPT ![t] = Revoked(l)]
        /\ slots' = Forgotten(l.id) /\ UNCHANGED <<sent, taken>>
    BY <1>6 DEF rpc_poison_session_envelope_process
  <2> QED  BY <2>1, <1>3, <1>4, <1>5, ForgottenTyped, OneLink
<1>7. CASE Paired(l.client)
  <2>1. /\ sequence = l.rx /\ l.rx < MaxSequence
        /\ taken' = [taken EXCEPT ![l.id] = sequence + 1]
    BY <1>7 DEF rpc_poison_session_envelope_process, InSequence
  <2>2. l.rx \in Nat /\ l.rx + 1 \in 0 .. MaxSequence
    BY <2>1, <1>1 DEF LinkRecords
  <2>3. /\ taken' \in [Ids -> 0 .. MaxSequence] /\ taken'[l.id] = l.rx + 1
        /\ \A n \in Ids : n # l.id => taken'[n] = taken[n]
    BY <2>1, <2>2, <1>2, <1>5
  <2>4. /\ heard \in LinkRecords /\ heard.rx = l.rx + 1 /\ heard.tx = l.tx
        /\ heard.id = l.id /\ heard.client = l.client
    BY <2>2, <1>1 DEF LinkRecords
  <2>5. /\ issued \in LinkRecords /\ issued.rx = l.rx + 1 /\ issued.tx = l.tx
        /\ issued.id = l.id /\ issued.client = l.client
    <3> HIDE DEF heard
    <3> QED  BY <2>4 DEF LinkRecords
  <2>6. CASE request = "stop"
    <3>1. /\ l.tx < MaxSequence
          /\ link' = [link EXCEPT ![t] = Revoked(l)]
          /\ slots' = Forgotten(l.id)
          /\ sent' = sent \/ sent' = [sent EXCEPT ![l.id] = l.tx + 1]
      BY <1>7, <2>6 DEF rpc_poison_session_envelope_process
    <3>2. l.tx + 1 \in 0 .. MaxSequence
      BY <3>1, <1>1 DEF LinkRecords
    <3>3. /\ sent' \in [Ids -> 0 .. MaxSequence]
          /\ \A n \in Ids : n # l.id => sent'[n] = sent[n]
      BY <3>1, <3>2, <1>2, <1>5
    <3> QED  BY <3>1, <3>3, <2>3, <1>1, <1>3, <1>4, ForgottenTyped, OneLink
  <2>7. CASE request = "resume"
    <3>1. Sends(t, issued) /\ slots' = slots
      BY <1>7, <2>7 DEF rpc_poison_session_envelope_process
    <3> HIDE DEF issued
    <3> QED  BY <3>1, <2>3, <2>5, <1>1, <1>4, SendsInv
  <2>8. CASE request = "unanswered"
    <3>1. link' = [link EXCEPT ![t] = heard] /\ UNCHANGED <<sent, slots>>
      BY <1>7, <2>8 DEF rpc_poison_session_envelope_process
    <3>2. heard.tx >= sent'[heard.id] /\ heard.rx = taken'[heard.id]
      BY <3>1, <2>3, <2>4, <1>1 DEF SessInv, CounterInv
    <3> HIDE DEF heard
    <3> QED  BY <3>1, <3>2, <2>3, <2>4, <1>1, <1>4, <1>5, OneLink
  <2>9. CASE request = "answered"
    <3>1. Sends(t, heard) /\ slots' = slots
      BY <1>7, <2>9 DEF rpc_poison_session_envelope_process
    <3> HIDE DEF heard
    <3> QED  BY <3>1, <2>3, <2>4, <1>1, <1>4, SendsInv
  <2> QED  BY <2>6, <2>7, <2>8, <2>9 DEF Requests
<1> QED  BY <1>6, <1>7

\* An event sent by another thread keeps the invariant.
LEMMA SendInv ==
    ASSUME SessInv, NEW t \in Links, rpc_send(t)
    PROVE  SessInv'
<1>1. link[t] \in LinkRecords /\ Holding(link[t]) /\ Sends(t, link[t])
  BY DEF SessInv, SessionTypeOK, Holding, Secure, rpc_send
<1>2. UNCHANGED <<slots, nextId, taken, dead>>
  BY DEF rpc_send
<1>3. taken' \in [Ids -> 0 .. MaxSequence] /\ link[t].rx = taken'[link[t].id]
  BY <1>1, <1>2 DEF SessInv, SessionTypeOK, CounterInv
<1> QED  BY <1>1, <1>2, <1>3, SendsInv

\* The close of a transport keeps the invariant.
LEMMA CloseInv ==
    ASSUME SessInv, NEW t \in Links, rpc_session_close(t)
    PROVE  SessInv'
<1> DEFINE new == [link[t] EXCEPT !.connected = FALSE]
<1>1. link[t] \in LinkRecords
  BY DEF SessInv, SessionTypeOK
<1>2. /\ new \in LinkRecords /\ new.state = link[t].state
      /\ new.id = link[t].id /\ new.client = link[t].client
      /\ new.tx = link[t].tx /\ new.rx = link[t].rx
  BY <1>1 DEF LinkRecords
<1>3. link' = [link EXCEPT ![t] = new] /\ UNCHANGED <<slots, nextId, sent, taken, dead>>
  BY DEF rpc_session_close
<1> HIDE DEF new
<1> QED  BY <1>2, <1>3, KeepsLink DEF Holding

\* The slot that takes a closed session has its id and counters; the others
\* only age.
LEMMA StoredIs ==
    ASSUME SessInv, NEW l \in LinkRecords
    PROVE  /\ Stored(l) \in [ResumeSlots -> SlotRecords]
           /\ \E k : \A i \in ResumeSlots :
                 LET s == Stored(l)[i] IN
                 IF i = k
                 THEN /\ s.id = l.id /\ s.client = l.client
                      /\ s.tx = l.tx /\ s.rx = l.rx
                 ELSE /\ s.active = slots[i].active
                      /\ s.id = slots[i].id /\ s.client = slots[i].client
                      /\ s.tx = slots[i].tx /\ s.rx = slots[i].rx
<1> DEFINE k == Chosen(l.id)
           kept == [active |-> TRUE, age |-> 0, id |-> l.id,
                    client |-> l.client, tx |-> l.tx, rx |-> l.rx]
           older(i) == [slots[i] EXCEPT !.age = @ + 1]
<1>1. kept \in SlotRecords
  <2>1. /\ l.id \in Ids \cup {0} /\ l.client \in Clients \cup {"none"}
        /\ l.tx \in 0 .. MaxSequence /\ l.rx \in 0 .. MaxSequence
    BY DEF LinkRecords
  <2> QED  BY <2>1, Zero, Zenon DEF SlotRecords
<1>2. \A i \in ResumeSlots : slots[i] \in SlotRecords
  BY DEF SessInv, SessionTypeOK
<1>3. ASSUME NEW i \in ResumeSlots, slots[i].age < SlotCount
      PROVE  /\ older(i) \in SlotRecords
             /\ older(i).active = slots[i].active
             /\ older(i).id = slots[i].id /\ older(i).client = slots[i].client
             /\ older(i).tx = slots[i].tx /\ older(i).rx = slots[i].rx
  <2>1. slots[i].age + 1 \in 0 .. SlotCount
    BY <1>2, <1>3 DEF SlotRecords
  <2> QED  BY <1>2, <2>1 DEF SlotRecords
<1>4. Stored(l) = [i \in ResumeSlots |->
                      IF i = k THEN kept
                      ELSE IF slots[i].active /\ slots[i].age < SlotCount
                           THEN older(i) ELSE slots[i]]
  BY DEF Stored
<1>5. kept.id = l.id /\ kept.client = l.client /\ kept.tx = l.tx /\ kept.rx = l.rx
  OBVIOUS
<1> HIDE DEF k, kept, older
<1>6. Stored(l) \in [ResumeSlots -> SlotRecords]
  BY <1>1, <1>2, <1>3, <1>4
<1>7. \A i \in ResumeSlots :
          LET s == Stored(l)[i] IN
          IF i = k
          THEN /\ s.id = l.id /\ s.client = l.client
               /\ s.tx = l.tx /\ s.rx = l.rx
          ELSE /\ s.active = slots[i].active
               /\ s.id = slots[i].id /\ s.client = slots[i].client
               /\ s.tx = slots[i].tx /\ s.rx = slots[i].rx
  BY <1>3, <1>4, <1>5
<1> QED  BY <1>6, <1>7

\* The end of a link, which may put its session in a slot, keeps the invariant.
LEMMA FreeInv ==
    ASSUME SessInv, RegistryTypeOK, NEW t \in Links, rpc_system_poison_free(t)
    PROVE  SessInv'
<1> DEFINE l == link[t]
           new == Opened(reg.ready)
<1>1. /\ link' = [link EXCEPT ![t] = new] /\ link \in [Links -> LinkRecords]
      /\ nextId' = nextId /\ sent' = sent /\ taken' = taken /\ dead' = dead
  BY DEF rpc_system_poison_free, SessInv, SessionTypeOK
<1>2. new \in LinkRecords /\ ~Holding(new)
  BY OpenedTyped DEF RegistryTypeOK
<1>3. CASE ~(l.issued /\ Secure(t))
  <2>1. slots' = slots
    BY <1>3 DEF rpc_system_poison_free
  <2> HIDE DEF new
  <2> QED  BY <2>1, <1>1, <1>2, KeepsLink
<1>4. CASE l.issued /\ Secure(t)
  <2>1. slots' = Stored(l) /\ Holding(l) /\ l \in LinkRecords
    BY <1>1, <1>4 DEF rpc_system_poison_free, Secure, Holding
  <2>2. PICK k : \A i \in ResumeSlots :
            IF i = k
            THEN /\ slots'[i].id = l.id /\ slots'[i].client = l.client
                 /\ slots'[i].tx = l.tx /\ slots'[i].rx = l.rx
            ELSE /\ slots'[i].active = slots[i].active
                 /\ slots'[i].id = slots[i].id /\ slots'[i].client = slots[i].client
                 /\ slots'[i].tx = slots[i].tx /\ slots'[i].rx = slots[i].rx
    <3> HIDE DEF l
    <3>1. PICK k : \A i \in ResumeSlots :
              LET s == Stored(l)[i] IN
              IF i = k
              THEN /\ s.id = l.id /\ s.client = l.client
                   /\ s.tx = l.tx /\ s.rx = l.rx
              ELSE /\ s.active = slots[i].active
                   /\ s.id = slots[i].id /\ s.client = slots[i].client
                   /\ s.tx = slots[i].tx /\ s.rx = slots[i].rx
      BY <2>1, StoredIs, Zenon
    <3> WITNESS k
    <3> QED  BY <3>1, <2>1
  <2> HIDE DEF new
  <2>3. \A u \in Links : Holding(link'[u]) => u # t /\ link'[u] = link[u]
    BY <1>1, <1>2
  <2>4. SessionTypeOK'
    BY <2>1, <1>1, <1>2, StoredIs DEF SessInv, SessionTypeOK
  <2>5. FreshInv'
    BY <2>1, <2>2, <2>3, <1>1 DEF SessInv, FreshInv
  <2>6. UniqueInv'
    BY <2>1, <2>2, <2>3 DEF SessInv, UniqueInv
  <2>7. CounterInv'
    BY <2>1, <2>2, <2>3, <1>1 DEF SessInv, CounterInv
  <2> QED  BY <2>4, <2>5, <2>6, <2>7 DEF SessInv
<1> QED  BY <1>3, <1>4

\* The resumption of a session from its slot keeps the invariant.
LEMMA ResumeInv ==
    ASSUME SessInv, NEW t \in Links, NEW i \in ResumeSlots,
           rpc_poison_resume_request_process(t, i)
    PROVE  SessInv'
<1> DEFINE s == slots[i]
           resumed == [link[t] EXCEPT !.state = "confirming", !.id = s.id,
                                      !.client = s.client, !.tx = s.tx,
                                      !.rx = s.rx]
           active == [resumed EXCEPT !.state = "active", !.counted = TRUE,
                                     !.issued = TRUE]
<1>1. /\ link \in [Links -> LinkRecords] /\ link[t] \in LinkRecords
      /\ slots \in [ResumeSlots -> SlotRecords] /\ s \in SlotRecords /\ s.active
  BY DEF SessInv, SessionTypeOK, rpc_poison_resume_request_process
<1>2. /\ s.id \in Ids \cup {0} /\ s.client \in Clients \cup {"none"}
      /\ s.tx \in 0 .. MaxSequence /\ s.rx \in 0 .. MaxSequence
  BY <1>1 DEF SlotRecords
<1> HIDE DEF s
<1>3. resumed \in LinkRecords
  BY <1>1, <1>2, Zenon DEF LinkRecords, LinkStates
<1>4. resumed.id = s.id /\ resumed.client = s.client
                        /\ resumed.tx = s.tx /\ resumed.rx = s.rx
  BY <1>1 DEF LinkRecords
<1>5. /\ UNCHANGED <<nextId, sent, taken, dead>>
      /\ slots' = Taken(i)
      /\ \/ link' = [link EXCEPT ![t] = active]
         \/ link' = [link EXCEPT ![t] = Revoked(resumed)]
  BY DEF rpc_poison_resume_request_process, s
<1> HIDE DEF resumed
<1>6. /\ active \in LinkRecords
      /\ active.id = s.id /\ active.client = s.client
      /\ active.tx = s.tx /\ active.rx = s.rx
  BY <1>3, <1>4 DEF LinkRecords, LinkStates
<1>7. Revoked(resumed) \in LinkRecords /\ ~Holding(Revoked(resumed))
  BY <1>3, RevokedTyped
<1> HIDE DEF active
<1>8. /\ slots' \in [ResumeSlots -> SlotRecords] /\ ~slots'[i].active
      /\ \A j \in ResumeSlots : slots'[j] = slots[j] \/ ~slots'[j].active
  BY <1>1, <1>5, NoSlotTyped DEF Taken
<1>9. CASE link' = [link EXCEPT ![t] = Revoked(resumed)]
  BY <1>5, <1>7, <1>8, <1>9, OneLink DEF SessInv, SessionTypeOK
<1>10. CASE link' = [link EXCEPT ![t] = active]
  <2>1. link'[t] = active /\ \A u \in Links : u # t => link'[u] = link[u]
    BY <1>1, <1>10
  <2>2. /\ s.id \in 1 .. nextId - 1 /\ s.client \in Clients
        /\ s.tx >= sent[s.id] /\ s.rx = taken[s.id]
    BY <1>1 DEF SessInv, FreshInv, CounterInv, s
  <2>3. /\ \A u \in Links : Holding(link[u]) => link[u].id # s.id
        /\ \A j \in ResumeSlots : j # i /\ slots[j].active => slots[j].id # s.id
    BY <1>1 DEF SessInv, UniqueInv, s
  <2>4. SessionTypeOK'
    BY <1>1, <1>5, <1>6, <1>8, <1>10 DEF SessInv, SessionTypeOK
  <2>5. FreshInv'
    BY <2>1, <2>2, <1>5, <1>6, <1>8 DEF SessInv, FreshInv
  <2>6. UniqueInv'
    BY <2>1, <2>3, <1>6, <1>8 DEF SessInv, UniqueInv
  <2>7. CounterInv'
    BY <2>1, <2>2, <1>5, <1>6, <1>8 DEF SessInv, CounterInv
  <2> QED  BY <2>4, <2>5, <2>6, <2>7 DEF SessInv
<1> QED  BY <1>5, <1>9, <1>10

\* The expiry of a slot keeps the invariant.
LEMMA ExpireInv ==
    ASSUME SessInv, NEW i \in ResumeSlots, expire(i)
    PROVE  SessInv'
<1>1. slots \in [ResumeSlots -> SlotRecords]
  BY DEF SessInv, SessionTypeOK
<1>2. slots' = [slots EXCEPT ![i] = NoSlot] /\ UNCHANGED <<link, nextId, sent, taken, dead>>
  BY DEF expire
<1>3. \A j \in ResumeSlots : slots'[j] = slots[j] \/ ~slots'[j].active
  BY <1>1, <1>2, NoSlotTyped
<1>4. SessionTypeOK'
  BY <1>1, <1>2, NoSlotTyped DEF SessInv, SessionTypeOK
<1>5. FreshInv' /\ UniqueInv'
  BY <1>2, <1>3 DEF SessInv, FreshInv, UniqueInv
<1>6. CounterInv'
  BY <1>2, <1>3 DEF SessInv, CounterInv
<1> QED  BY <1>4, <1>5, <1>6 DEF SessInv

\* The answer of a registry operation keeps the invariant.
LEMMA AnswerInv ==
    ASSUME SessInv, NEW ok \in BOOLEAN, save_answer(ok)
    PROVE  SessInv'
<1> DEFINE added(t) == [link[t] EXCEPT !.state = "added"]
<1>1. /\ UNCHANGED <<slots, nextId, sent, taken>>
      /\ link' = [t \in Links |->
                      IF link[t].state # "adding" \/ save.op # "add" THEN link[t]
                      ELSE IF ok THEN added(t) ELSE Revoked(link[t])]
  BY DEF save_answer
<1>2. dead' \subseteq Ids
  <2>1. UNION {SessionsOf(c) : c \in reg.store.clients \ save.next.clients} \subseteq Ids
    BY DEF SessionsOf
  <2> QED  BY <2>1 DEF save_answer, SessInv, SessionTypeOK
<1>3. ASSUME NEW t \in Links
      PROVE  /\ link[t] \in LinkRecords
             /\ added(t) \in LinkRecords
             /\ added(t).id = link[t].id /\ added(t).client = link[t].client
             /\ added(t).tx = link[t].tx /\ added(t).rx = link[t].rx
             /\ Revoked(link[t]) \in LinkRecords /\ ~Holding(Revoked(link[t]))
  <2>1. link[t] \in LinkRecords
    BY DEF SessInv, SessionTypeOK
  <2> QED  BY <2>1, RevokedTyped DEF LinkRecords, LinkStates
<1>4. \A t \in Links : link[t].state = "adding" => Holding(link[t])
  BY DEF Holding
<1> HIDE DEF added
<1>5. \A t \in Links :
          /\ link'[t] \in LinkRecords
          /\ Holding(link'[t]) =>
                /\ Holding(link[t])
                /\ link'[t].id = link[t].id /\ link'[t].client = link[t].client
                /\ link'[t].tx = link[t].tx /\ link'[t].rx = link[t].rx
  BY <1>1, <1>3, <1>4
<1>6. SessionTypeOK'
  BY <1>1, <1>2, <1>5 DEF SessInv, SessionTypeOK
<1>7. FreshInv' /\ UniqueInv'
  BY <1>1, <1>5 DEF SessInv, FreshInv, UniqueInv
<1>8. CounterInv'
  BY <1>1, <1>5 DEF SessInv, CounterInv
<1> QED  BY <1>6, <1>7, <1>8 DEF SessInv

\* A power cut keeps the invariant.
LEMMA PowerCutInv ==
    ASSUME SessInv, RegistryTypeOK', power_cut
    PROVE  SessInv'
<1>1. \A t \in Links : link'[t] \in LinkRecords /\ ~Holding(link'[t])
  BY OpenedTyped DEF power_cut, RegistryTypeOK
<1>2. \A i \in ResumeSlots : slots'[i] \in SlotRecords /\ ~slots'[i].active
  BY NoSlotTyped DEF power_cut
<1>3. UNCHANGED <<nextId, sent, taken, dead>>
  BY DEF power_cut
<1>4. SessionTypeOK'
  <2>1. link' \in [Links -> LinkRecords] /\ slots' \in [ResumeSlots -> SlotRecords]
    BY <1>1, <1>2 DEF power_cut
  <2> QED  BY <2>1, <1>3 DEF SessInv, SessionTypeOK
<1>5. FreshInv' /\ UniqueInv' /\ CounterInv'
  BY <1>1, <1>2, <1>3 DEF SessInv, FreshInv, UniqueInv, CounterInv
<1> QED  BY <1>4, <1>5 DEF SessInv

\* A step that leaves the sessions alone.
LEMMA UnchangedInv ==
    ASSUME SessInv, UNCHANGED <<link, slots, nextId, sent, taken, dead>>
    PROVE  SessInv'
  BY DEF SessInv, SessionTypeOK, FreshInv, UniqueInv, CounterInv

------------------------------------------------------------------------------
\* Every step is a step of the registry or leaves it alone.
LEMMA StepIsRegistryStep ==
    ASSUME SessInv, [Next]_vars
    PROVE  [RegistryNext]_registryVars
<1>1. CASE UNCHANGED vars
  BY <1>1 DEF vars
<1>2. ASSUME NEW t \in Links, NEW approved \in BOOLEAN,
             rpc_poison_pairing_confirm_process(t, approved)
      PROVE  [RegistryNext]_registryVars
  <2>1. link[t].client \in Clients
    BY <1>2 DEF rpc_poison_pairing_confirm_process, SessInv, FreshInv, Holding
  <2>2. UNCHANGED registryVars \/ poison_pairing_registry_add(link[t].client)
    BY <1>2 DEF rpc_poison_pairing_confirm_process
  <2> QED  BY <2>1, <2>2 DEF RegistryNext
<1>3. ASSUME NEW t \in Links,
             \/ \E c \in Clients : rpc_poison_pairing_hello_process(t, c)
             \/ confirm_added(t)
             \/ \E n \in 0 .. MaxSequence, request \in Requests :
                    rpc_poison_session_envelope_process(t, n, request)
             \/ rpc_send(t)
             \/ rpc_session_close(t)
             \/ rpc_system_poison_free(t)
             \/ \E i \in ResumeSlots : rpc_poison_resume_request_process(t, i)
      PROVE  UNCHANGED registryVars
  BY <1>3 DEF rpc_poison_pairing_hello_process, confirm_added,
     rpc_poison_session_envelope_process, rpc_send, rpc_session_close,
     rpc_system_poison_free, rpc_poison_resume_request_process
<1>4. ASSUME NEW i \in ResumeSlots, expire(i)
      PROVE  UNCHANGED registryVars
  BY <1>4 DEF expire
<1>5. ASSUME \/ \E c \in Clients : revoke(c)
             \/ revoke_all
             \/ recover
             \/ save_step
             \/ \E ok \in BOOLEAN : save_answer(ok)
             \/ power_cut
      PROVE  RegistryNext
  BY <1>5 DEF revoke, revoke_all, recover, save_step, save_answer, power_cut, RegistryNext
<1> QED  BY <1>1, <1>2, <1>3, <1>4, <1>5 DEF Next

SessionInv == RegistryInv /\ SessInv

\* The invariant of sessions and registry together holds at the start.
LEMMA SessionInitInv == Init => SessionInv
<1> SUFFICES ASSUME Init PROVE SessionInv
  OBVIOUS
<1>1. RegistryInv
  BY InitInv DEF Init
<1> QED  BY <1>1, SessInit DEF SessionInv, RegistryInv

\* Every step keeps the invariant of sessions and registry together.
LEMMA SessionNextInv == SessionInv /\ [Next]_vars => SessionInv'
<1> SUFFICES ASSUME SessionInv, [Next]_vars PROVE SessionInv'
  OBVIOUS
<1>1. RegistryInv /\ SessInv
  BY DEF SessionInv
<1>2. RegistryInv'
  BY <1>1, StepIsRegistryStep, NextInv
<1>3. RegistryTypeOK /\ RegistryTypeOK'
  BY <1>1, <1>2 DEF RegistryInv
<1>4. SessInv'
  <2>1. CASE UNCHANGED vars
    BY <2>1, <1>1, UnchangedInv DEF vars
  <2>2. ASSUME NEW t \in Links, confirm_added(t)
        PROVE  SessInv'
    <3>1. Holding(link[t]) /\ Counted(t) /\ UNCHANGED <<slots, nextId, sent, taken, dead>>
      BY <2>2 DEF confirm_added, Holding
    <3> QED  BY <3>1, <1>1, CountedInv
  <2>3. ASSUME NEW t \in Links,
               \/ \E c \in Clients : rpc_poison_pairing_hello_process(t, c)
               \/ \E approved \in BOOLEAN :
                      rpc_poison_pairing_confirm_process(t, approved)
               \/ \E n \in 0 .. MaxSequence, request \in Requests :
                      rpc_poison_session_envelope_process(t, n, request)
               \/ rpc_send(t)
               \/ rpc_session_close(t)
               \/ rpc_system_poison_free(t)
               \/ \E i \in ResumeSlots : rpc_poison_resume_request_process(t, i)
        PROVE  SessInv'
    BY <2>3, <1>1, <1>3, HelloInv, ConfirmInv, EnvelopeInv, SendInv, CloseInv,
       FreeInv, ResumeInv
  <2>4. ASSUME \/ \E c \in Clients : revoke(c)
               \/ revoke_all
               \/ recover
               \/ save_step
        PROVE  SessInv'
    BY <2>4, <1>1, UnchangedInv DEF revoke, revoke_all, recover, save_step
  <2>5. ASSUME \/ \E i \in ResumeSlots : expire(i)
               \/ \E ok \in BOOLEAN : save_answer(ok)
               \/ power_cut
        PROVE  SessInv'
    BY <2>5, <1>1, <1>3, ExpireInv, AnswerInv, PowerCutInv
  <2> QED  BY <2>1, <2>2, <2>3, <2>4, <2>5 DEF Next
<1> QED  BY <1>2, <1>4 DEF SessionInv

\* The invariant holds of sessions and registry however handlers, threads,
\* messages and power cuts are ordered (rpc_poison_session.c).
THEOREM SessionIsInv == Spec => []SessionInv
  BY SessionInitInv, SessionNextInv, PTL DEF Spec

\* The registry inside the system is the registry of RegistrySpec: pairing, the
\* device's screen and boots only take its steps.
THEOREM SessionImplementsRegistry == Spec => RegistrySpec
<1>1. Init => RegistryInit
  BY DEF Init
<1>2. SessionInv /\ [Next]_vars => [RegistryNext]_registryVars
  BY StepIsRegistryStep DEF SessionInv
<1> QED  BY <1>1, <1>2, SessionIsInv, PTL DEF Spec, RegistrySpec

\* Links, slots, counters and the registry keep their types.
THEOREM SessionTyped == Spec => []TypeOK
<1>1. SessionInv => TypeOK
  BY DEF SessionInv, SessInv, RegistryInv, TypeOK
<1> QED  BY <1>1, SessionIsInv, PTL

\* A power cut at any point of a pairing or a revocation, whatever the sessions
\* do meanwhile, loses no pairing and undoes no revocation that was answered,
\* with the exception RestartFindsRegistry states: a revocation of all clients
\* that overwrites the table it replaces, or has failed to since the boot.
THEOREM SessionKeepsRegistry == Spec => []RestartFindsRegistry
  BY SessionImplementsRegistry, RegistrySurvives, PTL

\* However often it is resumed, a session never reserves a sequence that was on
\* the wire nor accepts a request again (poison_session_encrypt_tx,
\* poison_session_decrypt_rx and the resume slots).
THEOREM SessionNeverGoesBack == Spec => []NeverGoesBack
<1>1. SessionInv => NeverGoesBack
  BY DEF SessionInv, SessInv, CounterInv, NeverGoesBack, Copies, Kept, Secure,
         Holding
<1> QED  BY <1>1, SessionIsInv, PTL

\* A session is on one link or in one slot: rpc_session_take_resume and
\* rpc_session_store_resume never leave two copies of its keys and counters.
THEOREM SessionExistsOnce == Spec => []OneOfEach
<1>1. SessionInv => OneOfEach
  BY DEF SessionInv, SessInv, UniqueInv, OneOfEach, Secure, Holding
<1> QED  BY <1>1, SessionIsInv, PTL
==============================================================================
