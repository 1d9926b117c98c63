------------------------------- MODULE Session -------------------------------
(***************************************************************************)
(* Secure sessions: pairing, envelopes, sending, resumption and           *)
(* revocation (rpc_poison_session.c, the secure part of rpc.c), over the  *)
(* registry of paired clients.                                            *)
(*                                                                         *)
(* Handlers run one at a time under rpc's busy_mutex. Beside them run the *)
(* device's own screen, which revokes clients, the threads that send      *)
(* events on a session, and the timer thread, which frees sessions.       *)
(*                                                                         *)
(* Messages are lost, repeated and delayed at will: any sequence number   *)
(* and any resume request may arrive at any time. A request that a check  *)
(* refuses without a change is left out, so a resume request stands for   *)
(* one with the right token and acknowledgement. The session id is random *)
(* and stands for the keys too; channels and capabilities are left out.   *)
(***************************************************************************)
EXTENDS PairingRegistry, FiniteSetsExt

CONSTANTS
    Links,          \* transports, each with one RpcSession at a time
    SlotCount,      \* RPC_RESUME_SLOT_COUNT
    MaxIds,         \* bound: sessions ever negotiated
    MaxSequence     \* bound: messages of one session, each way

ASSUME SessionAssumption ==
    /\ SlotCount \in Nat \ {0}
    /\ MaxIds \in Nat /\ MaxSequence \in Nat

VARIABLES
    link,           \* the RpcSession of each transport
    slots,          \* the resume slots
    nextId,         \* history: the next session id
    sent,           \* history: per session, the sequences put on the wire
    taken,          \* history: per session, the requests dispatched
    dead            \* history: the sessions a revocation should have ended

vars == <<registryVars, link, slots, nextId, sent, taken, dead>>

Ids == 1 .. MaxIds
ResumeSlots == 1 .. SlotCount

\* rpc_session_open. pairing_store_ready is read once.
Opened(ready) ==
    [connected |-> TRUE, ready |-> ready, state |-> "unpaired", id |-> 0,
     client |-> "none", trusted |-> FALSE, tx |-> 0, rx |-> 0,
     issued |-> FALSE, counted |-> FALSE]

NoSlot == [active |-> FALSE, age |-> 0, id |-> 0, client |-> "none",
           tx |-> 0, rx |-> 0]

\* poison_session_revoke. What is left of the client is not read again.
Revoked(l) == [l EXCEPT !.state = "revoked", !.id = 0, !.tx = 0, !.rx = 0,
                        !.client = "none", !.trusted = FALSE]

Init ==
    /\ RegistryInit
    /\ link = [t \in Links |-> Opened(TRUE)]
    /\ slots = [i \in ResumeSlots |-> NoSlot]
    /\ nextId = 1
    /\ sent = [n \in Ids |-> 0]
    /\ taken = [n \in Ids |-> 0]
    /\ dead = {}

------------------------------------------------------------------------------
\* A handler may start: none is under way, and none waits for the registry.
HandlerFree ==
    /\ \A t \in Links : link[t].state \notin {"adding", "added"}
    /\ save = Free

Secure(t) == link[t].state = "active"

\* Mutant: what the transport does not take is encrypted again.
SendsAgain(t, l) ==
    /\ l.tx < MaxSequence
    /\ link' = [link EXCEPT ![t] =
                    [l EXCEPT !.tx = IF l.connected THEN @ + 1 ELSE @ + 2]]
    /\ sent' = IF l.connected THEN [sent EXCEPT ![l.id] = l.tx + 1] ELSE sent

\* poison_session_encrypt_tx and the send: the sequence is reserved whether or
\* not the transport still takes the bytes.
Sends(t, l) ==
    /\ l.tx < MaxSequence
    /\ link' = [link EXCEPT ![t] = [l EXCEPT !.tx = @ + 1]]
    /\ sent' = IF l.connected THEN [sent EXCEPT ![l.id] = l.tx + 1] ELSE sent

------------------------------------------------------------------------------
(* Pairing *)

\* poison_pairing_begin forgets the handshake before it, not the rest of the
\* system. A client that changed its name or role is not trusted.
rpc_poison_pairing_hello_process(t, c) ==
    /\ HandlerFree
    /\ ~Secure(t) /\ link[t].ready
    /\ nextId <= MaxIds
    /\ \E same \in BOOLEAN :
           link' = [link EXCEPT ![t] =
                        [@ EXCEPT !.state = "confirming", !.id = nextId,
                                  !.client = c, !.tx = 0, !.rx = 0,
                                  !.trusted = Paired(c) /\ same]]
    /\ nextId' = nextId + 1
    /\ UNCHANGED <<registryVars, slots, sent, taken, dead>>

\* rpc_poison_count_identity_session and the activation: the client must still
\* be in the registry, and a link counts one session in its life.
Counted(t) ==
    link' = [link EXCEPT ![t] =
                 IF Paired(@.client) /\ ~@.counted
                 THEN [@ EXCEPT !.state = "active", !.counted = TRUE]
                 ELSE Revoked(@)]

\* A trusted client is counted at once; another is added to the registry
\* first, which fails for one that is there already.
rpc_poison_pairing_confirm_process(t, approved) ==
    LET c == link[t].client IN
    /\ HandlerFree
    /\ link[t].state = "confirming"
    /\ CASE approved /\ link[t].trusted -> Counted(t) /\ UNCHANGED registryVars
         [] approved /\ ~link[t].trusted /\ ~Paired(c) ->
                /\ poison_pairing_registry_add(c)
                /\ link' = [link EXCEPT ![t].state = "adding"]
         [] OTHER -> /\ link' = [link EXCEPT ![t] = Revoked(@)]
                     /\ UNCHANGED registryVars
    /\ UNCHANGED <<slots, nextId, sent, taken, dead>>

\* The handler goes on when its save is answered.
confirm_added(t) ==
    /\ link[t].state = "added"
    /\ save = Free
    /\ Counted(t)
    /\ UNCHANGED <<registryVars, slots, nextId, sent, taken, dead>>

------------------------------------------------------------------------------
(* Envelopes *)

\* rpc_session_revoke_secure_transport: the session and its resume slots.
Forgotten(n) == [i \in ResumeSlots |-> IF slots[i].id = n THEN NoSlot
                                                          ELSE slots[i]]

\* Mutant: a repeated envelope is taken again.
InSequenceOrAgain(l, sequence) == sequence <= l.rx

InSequence(l, sequence) == sequence = l.rx

\* A request is answered at most once by its handler; the STOP request ends the
\* session, the resume request gives it a token.
Requests == {"answered", "unanswered", "resume", "stop"}

\* The registry is asked before the envelope is even decrypted.
rpc_poison_session_envelope_process(t, sequence, request) ==
    LET l == link[t]
        heard == [l EXCEPT !.rx = @ + 1] IN
    /\ HandlerFree
    /\ Secure(t)
    /\ IF ~Paired(l.client)
       THEN /\ link' = [link EXCEPT ![t] = Revoked(@)]
            /\ slots' = Forgotten(l.id)
            /\ UNCHANGED <<sent, taken>>
       ELSE /\ InSequence(l, sequence) /\ l.rx < MaxSequence
            /\ taken' = [taken EXCEPT ![l.id] = sequence + 1]
            /\ CASE request = "stop" ->
                      \* answered, then revoked
                      /\ l.tx < MaxSequence
                      /\ sent' = IF l.connected
                                 THEN [sent EXCEPT ![l.id] = l.tx + 1] ELSE sent
                      /\ link' = [link EXCEPT ![t] = Revoked(@)]
                      /\ slots' = Forgotten(l.id)
                 [] request = "resume" ->
                      Sends(t, [heard EXCEPT !.issued = TRUE]) /\ UNCHANGED slots
                 [] request = "unanswered" ->
                      link' = [link EXCEPT ![t] = heard] /\ UNCHANGED <<sent, slots>>
                 [] OTHER -> Sends(t, heard) /\ UNCHANGED slots
    /\ UNCHANGED <<registryVars, nextId, dead>>

\* rpc_send from another thread: the tool worker, the screen, a script.
rpc_send(t) ==
    /\ Secure(t)
    /\ Sends(t, link[t])
    /\ UNCHANGED <<registryVars, slots, nextId, taken, dead>>

------------------------------------------------------------------------------
(* Resumption *)

\* rpc_session_store_resume: the first slot that is the session's own or free;
\* else the one that expires first.
Chosen(n) ==
    LET ready == {i \in ResumeSlots : slots[i].active => slots[i].id = n} IN
    IF ready # {} THEN Min(ready)
    ELSE CHOOSE i \in ResumeSlots :
             \A j \in ResumeSlots : slots[j].age <= slots[i].age

Stored(l) ==
    [i \in ResumeSlots |->
        IF i = Chosen(l.id)
        THEN [active |-> TRUE, age |-> 0, id |-> l.id,
              client |-> l.client, tx |-> l.tx, rx |-> l.rx]
        ELSE IF slots[i].active /\ slots[i].age < SlotCount
             THEN [slots[i] EXCEPT !.age = @ + 1] ELSE slots[i]]

\* rpc_session_close: the transport takes no more bytes.
rpc_session_close(t) ==
    /\ link[t].connected
    /\ link' = [link EXCEPT ![t].connected = FALSE]
    /\ UNCHANGED <<registryVars, slots, nextId, sent, taken, dead>>

\* The session's thread has ended. The transport may connect again.
rpc_system_poison_free(t) ==
    /\ ~link[t].connected
    /\ link[t].state \notin {"adding", "added"}
    /\ slots' = IF link[t].issued /\ Secure(t) THEN Stored(link[t]) ELSE slots
    /\ link' = [link EXCEPT ![t] = Opened(reg.ready)]
    /\ UNCHANGED <<registryVars, nextId, sent, taken, dead>>

\* Mutant: the slot is left for another try.
TakenLeft(i) == slots

\* poison_session_resume_take empties the slot.
Taken(i) == [slots EXCEPT ![i] = NoSlot]

rpc_poison_resume_request_process(t, i) ==
    LET s == slots[i]
        resumed == [link[t] EXCEPT !.state = "confirming", !.id = s.id,
                                   !.client = s.client, !.tx = s.tx,
                                   !.rx = s.rx] IN
    /\ HandlerFree
    /\ ~Secure(t)
    /\ s.active
    /\ \A j \in ResumeSlots : j < i => ~(slots[j].active /\ slots[j].id = s.id)
    /\ slots' = Taken(i)
    /\ link' = [link EXCEPT ![t] =
                    IF link[t].ready /\ Paired(s.client) /\ ~link[t].counted
                    THEN [resumed EXCEPT !.state = "active", !.counted = TRUE,
                                         !.issued = TRUE]
                    ELSE Revoked(resumed)]
    /\ UNCHANGED <<registryVars, nextId, sent, taken, dead>>

\* RPC_RESUME_TTL_MS has passed. Whoever reads an expired slot from now on
\* takes it for a free one.
expire(i) ==
    /\ slots[i].active
    /\ slots' = [slots EXCEPT ![i] = NoSlot]
    /\ UNCHANGED <<registryVars, link, nextId, sent, taken, dead>>

------------------------------------------------------------------------------
(* The registry's side *)

SessionsOf(c) ==
    {n \in Ids : \/ \E t \in Links : Secure(t) /\ link[t].client = c /\ link[t].id = n
                 \/ \E i \in ResumeSlots : /\ slots[i].active
                                           /\ slots[i].client = c /\ slots[i].id = n}

\* The device's own screen.
revoke(c) ==
    /\ poison_pairing_registry_revoke(c)
    /\ UNCHANGED <<link, slots, nextId, sent, taken, dead>>

revoke_all ==
    /\ poison_pairing_registry_revoke_all
    /\ UNCHANGED <<link, slots, nextId, sent, taken, dead>>

recover ==
    /\ poison_pairing_registry_recover_corrupt
    /\ UNCHANGED <<link, slots, nextId, sent, taken, dead>>

save_step ==
    /\ save_open
    /\ UNCHANGED <<link, slots, nextId, sent, taken, dead>>

\* The answer goes to the handler that waits for it, or to the screen.
save_answer(ok) ==
    /\ \/ save_written(ok)
       \/ ~ok /\ save_open_failed
       \/ ~ok /\ save_write_failed
    /\ link' = [t \in Links |->
                    IF link[t].state # "adding" \/ save.op # "add" THEN link[t]
                    ELSE IF ok THEN [link[t] EXCEPT !.state = "added"]
                    ELSE Revoked(link[t])]
    /\ dead' = IF ok THEN dead \cup UNION {SessionsOf(c) :
                                  c \in reg.store.clients \ save.next.clients}
                     ELSE dead
    /\ UNCHANGED <<slots, nextId, sent, taken>>

power_cut ==
    /\ registry_restart
    /\ link' = [t \in Links |-> Opened(reg'.ready)]
    /\ slots' = [i \in ResumeSlots |-> NoSlot]
    /\ UNCHANGED <<nextId, sent, taken, dead>>

Next ==
    \/ \E t \in Links :
           \/ \E c \in Clients : rpc_poison_pairing_hello_process(t, c)
           \/ \E approved \in BOOLEAN :
                  rpc_poison_pairing_confirm_process(t, approved)
           \/ confirm_added(t)
           \/ \E n \in 0 .. MaxSequence, request \in Requests :
                  rpc_poison_session_envelope_process(t, n, request)
           \/ rpc_send(t)
           \/ rpc_session_close(t)
           \/ rpc_system_poison_free(t)
           \/ \E i \in ResumeSlots : rpc_poison_resume_request_process(t, i)
    \/ \E i \in ResumeSlots : expire(i)
    \/ \E c \in Clients : revoke(c)
    \/ revoke_all
    \/ recover
    \/ save_step
    \/ \E ok \in BOOLEAN : save_answer(ok)
    \/ power_cut

Spec == Init /\ [][Next]_vars

------------------------------------------------------------------------------
(* Properties *)

LinkStates == {"unpaired", "confirming", "adding", "added", "active", "revoked"}

LinkRecords ==
    [connected : BOOLEAN, ready : BOOLEAN, state : LinkStates,
     id : Ids \cup {0}, client : Clients \cup {"none"}, trusted : BOOLEAN,
     tx : 0 .. MaxSequence, rx : 0 .. MaxSequence,
     issued : BOOLEAN, counted : BOOLEAN]

SlotRecords ==
    [active : BOOLEAN, age : 0 .. SlotCount,
     id : Ids \cup {0}, client : Clients \cup {"none"},
     tx : 0 .. MaxSequence, rx : 0 .. MaxSequence]

SessionTypeOK ==
    /\ link \in [Links -> LinkRecords]
    /\ slots \in [ResumeSlots -> SlotRecords]
    /\ nextId \in 1 .. MaxIds + 1
    /\ sent \in [Ids -> 0 .. MaxSequence] /\ taken \in [Ids -> 0 .. MaxSequence]
    /\ dead \subseteq Ids

TypeOK == RegistryTypeOK /\ SessionTypeOK

\* Every copy of a session that can still be used: live, or to be resumed.
Copies == {[id |-> link[t].id, client |-> link[t].client,
            tx |-> link[t].tx, rx |-> link[t].rx] : t \in {u \in Links : Secure(u)}}
Kept == {[id |-> slots[i].id, client |-> slots[i].client,
          tx |-> slots[i].tx, rx |-> slots[i].rx] :
             i \in {j \in ResumeSlots : slots[j].active}}

\* Across disconnections and resumptions a session never goes back: the next
\* sequence to send is past every one on the wire (a repeated one would use
\* its key and nonce twice) and the next to accept is past every request that
\* was dispatched (an old one would be executed again).
NeverGoesBack ==
    \A c \in Copies \cup Kept : c.tx >= sent[c.id] /\ c.rx = taken[c.id]

\* A session exists once: on one link, or in one slot, although
\* rpc_session_store_resume takes a free slot before it has looked for the session's
\* own in the slots that follow.
OneOfEach ==
    /\ \A t \in Links : Secure(t) =>
           /\ \A u \in Links : Secure(u) /\ link[u].id = link[t].id => u = t
           /\ \A i \in ResumeSlots : slots[i].active => slots[i].id # link[t].id
    /\ \A i, j \in ResumeSlots :
           slots[i].active /\ slots[j].active /\ slots[i].id = slots[j].id => i = j

\* The claim of FR-57: a revocation ends the client's active and resumable
\* sessions. None of them is usable afterwards.
RevocationEndsSessions ==
    \A c \in Copies \cup Kept : c.id \in dead => ~Paired(c.client)
==============================================================================
