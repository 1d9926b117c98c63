--------------------------- MODULE PairingRegistry ---------------------------
(***************************************************************************)
(* The registry of paired clients, poison_pairing_store.c: a table in     *)
(* memory and two files, written in turn by the parity of the generation. *)
(* A registry operation holds the registry's mutex from the copy of the   *)
(* table it changes to the end of the save, so at most one is under way;  *)
(* a save is two steps, the truncating open and the rest, and the power   *)
(* may fail between them.                                                 *)
(*                                                                         *)
(* A record stands for the client's key digest; its name, its role and    *)
(* the count of its sessions are left out. A file that does not           *)
(* authenticate is torn.                                                  *)
(***************************************************************************)
EXTENDS Integers, FiniteSets

CONSTANTS
    Clients,        \* at most POISON_PAIRING_MAX_CLIENTS of them
    MaxGeneration   \* bound: no operation begins at this generation or later

ASSUME RegistryAssumption == IsFiniteSet(Clients) /\ MaxGeneration \in Nat

VARIABLES
    reg,            \* poison_pairing_registry_store and _ready
    disk,           \* the two files
    save,           \* the registry operation under way
    doubt,          \* history: the table the last save wrote and reported an
                    \* error for, until another opens a file
    overwritten     \* history: since the boot, a save that failed had opened
                    \* the file of the table it was to replace

registryVars == <<reg, disk, save, doubt, overwritten>>

Slots == {0, 1}
Stores == [generation : Nat, clients : SUBSET Clients]

Empty == [generation |-> 0, clients |-> {}]
Files == [kind : {"absent", "torn", "valid"}, store : Stores]
Absent == [kind |-> "absent", store |-> Empty]
Torn == [kind |-> "torn", store |-> Empty]
Valid(store) == [kind |-> "valid", store |-> store]

Free == [op |-> "none", next |-> Empty, open |-> FALSE]

------------------------------------------------------------------------------
(* poison_pairing_store_load *)

\* Mutant: the first file that authenticates is taken.
LoadedFirst(d) ==
    IF d[0].kind = "valid" THEN d[0].store
    ELSE IF d[1].kind = "valid" THEN d[1].store ELSE Empty

\* The newest of the files that authenticate.
Loaded(d) ==
    IF d[0].kind = "valid" /\ (d[1].kind = "valid" =>
                                   d[1].store.generation <= d[0].store.generation)
    THEN d[0].store
    ELSE IF d[1].kind = "valid" THEN d[1].store ELSE Empty

\* poison_pairing_registry_init: without a file the registry is empty; with
\* files of which none authenticates it is not ready.
Readable(d) ==
    \/ \E i \in Slots : d[i].kind = "valid"
    \/ \A i \in Slots : d[i].kind = "absent"

Registered(d) == [ready |-> Readable(d), store |-> Loaded(d)]

RegistryInit ==
    /\ disk = [i \in Slots |-> Absent]
    /\ reg = Registered(disk)
    /\ save = Free
    /\ doubt = Empty
    /\ overwritten = FALSE

------------------------------------------------------------------------------
(* The operations, up to the save *)

Paired(c) == c \in reg.store.clients

Changed(clients) == [generation |-> reg.store.generation + 1, clients |-> clients]

Begin(op, next) ==
    /\ save = Free
    /\ save' = [op |-> op, next |-> next, open |-> FALSE]
    /\ UNCHANGED <<reg, disk, doubt, overwritten>>

poison_pairing_registry_add(c) ==
    /\ reg.ready /\ ~Paired(c)
    /\ reg.store.generation < MaxGeneration
    /\ Begin("add", Changed(reg.store.clients \cup {c}))

poison_pairing_registry_revoke(c) ==
    /\ reg.ready /\ Paired(c)
    /\ reg.store.generation < MaxGeneration
    /\ Begin("revoke", Changed(reg.store.clients \ {c}))

\* Every client is revoked in turn, and each counts: one save, of a generation
\* as many changes later as there were clients. Without one nothing is saved.
poison_pairing_registry_revoke_all ==
    LET revoked == Cardinality(reg.store.clients) IN
    /\ reg.ready /\ reg.store.clients # {}
    /\ reg.store.generation < MaxGeneration
    /\ Begin("revoke_all",
             [generation |-> reg.store.generation + revoked, clients |-> {}])

\* Only when no file authenticates. The file says generation 1, the table in
\* memory is left at generation 0.
poison_pairing_registry_recover_corrupt ==
    /\ ~reg.ready /\ ~Readable(disk)
    /\ Begin("recover", [generation |-> 1, clients |-> {}])

------------------------------------------------------------------------------
(* poison_pairing_store_save *)

Target(next) == next.generation % 2

\* The save is into the file that holds the table it replaces. It happens to
\* a revocation of all of an even number of clients.
Overwrites == save.open /\ Target(save.next) = reg.store.generation % 2

\* What the operation leaves in memory.
Answered(ok) ==
    /\ reg' = IF ~ok THEN reg
              ELSE [ready |-> TRUE,
                    store |-> IF save.op = "recover" THEN Empty ELSE save.next]
    /\ overwritten' = (overwritten \/ (~ok /\ Overwrites))
    /\ save' = Free

save_open ==
    /\ save # Free /\ ~save.open
    /\ disk' = [disk EXCEPT ![Target(save.next)] = Torn]
    /\ save' = [save EXCEPT !.open = TRUE]
    /\ doubt' = Empty
    /\ UNCHANGED <<reg, overwritten>>

\* Neither file is touched.
save_open_failed ==
    /\ save # Free /\ ~save.open
    /\ save' = Free
    /\ UNCHANGED <<reg, disk, doubt, overwritten>>

\* Written, synced and closed; the last two may report an error although the
\* bytes are there.
save_written(ok) ==
    /\ save.open
    /\ disk' = [disk EXCEPT ![Target(save.next)] = Valid(save.next)]
    /\ doubt' = IF ok THEN Empty ELSE save.next
    /\ Answered(ok)

save_write_failed ==
    /\ save.open
    /\ Answered(FALSE)
    /\ UNCHANGED <<disk, doubt>>

\* A boot, after a reset or a power cut at any point.
registry_restart ==
    /\ reg' = Registered(disk)
    /\ save' = Free
    /\ doubt' = Empty
    /\ overwritten' = FALSE
    /\ UNCHANGED disk

RegistryNext ==
    \/ \E c \in Clients : \/ poison_pairing_registry_add(c)
                          \/ poison_pairing_registry_revoke(c)
    \/ poison_pairing_registry_revoke_all
    \/ poison_pairing_registry_recover_corrupt
    \/ save_open
    \/ save_open_failed
    \/ \E ok \in BOOLEAN : save_written(ok)
    \/ save_write_failed
    \/ registry_restart

RegistrySpec == RegistryInit /\ [][RegistryNext]_registryVars

------------------------------------------------------------------------------
RegistryTypeOK ==
    /\ reg \in [ready : BOOLEAN, store : Stores]
    /\ disk \in [Slots -> Files]
    /\ save \in [op : {"none", "add", "revoke", "revoke_all", "recover"},
                 next : Stores, open : BOOLEAN]
    /\ doubt \in Stores
    /\ overwritten \in BOOLEAN

\* Whenever the power fails, the next boot finds the clients that are paired
\* now, or those the last operation, written but reported as an error, would
\* have left: no revocation that was answered is undone and no pairing lost, also
\* while a save is under way, unless that save is one that overwrites the table it
\* replaces, or such a save has failed since the boot. Files of which none
\* authenticates are met only where there is no client to lose.
RestartFindsRegistry ==
    ~Overwrites /\ ~overwritten =>
        IF Readable(disk)
        THEN \/ Loaded(disk).clients = reg.store.clients
             \/ doubt # Empty /\ Loaded(disk).clients = doubt.clients
        ELSE reg.store.clients = {}
==============================================================================
