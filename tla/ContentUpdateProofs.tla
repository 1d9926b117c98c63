------------------------- MODULE ContentUpdateProofs ------------------------
(***************************************************************************)
(* Proofs about the content-update engine, for any number of candidates,   *)
(* sessions, directories, chunks and faults.                               *)
(*                                                                         *)
(* EngineInv says what an engine value may look like, in RAM, in the copy  *)
(* a handler restores and in the state file alike.  One lemma per          *)
(* operation of the transaction shows that it keeps EngineInv; the step    *)
(* lemmas then only have to say which engine value goes where.             *)
(***************************************************************************)
EXTENDS ContentUpdate, TLAPS

\* The directory a firmware is installed from.
DirOf(f) == IF f = Bootstrap THEN BootDir ELSE Dir[f]

\* A directory the updater may be armed with once A has been approved.
Installable(d, A) == d = None \/ d = BootDir \/ \E c \in A: d = Dir[c]

\* A transaction that has begun has a candidate and a previous identity.
Begun(e) ==
    /\ e.state # "Discovered" => e.active
    /\ e.active => e.cand \in Candidates /\ e.prevDigest \in Firmware

\* The token, if any, is for the candidate.
TokenBound(e) == e.confirmation.active => e.confirmation.target = e.cand

\* What the updater could be armed with from here was approved, or is about
\* to be.
ArmsApproved(e, A) ==
    /\ Installable(e.lkg, A) /\ Installable(e.prevKg, A)
    /\ e.state \in {"AwaitingConfirmation", "Activating"}
            => e.actDir = Dir[e.cand]
    /\ e.state = "Activating" => e.cand \in A

\* The known-good directory is the one of the accepted digest, and a rollback
\* from Healthy has the same to go back to.
KnownGood(e) ==
    /\ IF e.lkg = None THEN e.accepted = Bootstrap
                       ELSE e.lkg = DirOf(e.accepted)
    /\ e.active /\ e.state \in BeforeActivation \cup {"Activating"}
            => e.prevDigest = e.accepted
    /\ e.state = "Healthy" /\ e.prevKg # None
            => e.prevKg = DirOf(e.prevDigest)

EngineInv(e, A) ==
    /\ e \in Engines
    /\ Begun(e) /\ AboveFloor(e) /\ TokenBound(e)
    /\ ArmsApproved(e, A) /\ KnownGood(e)

------------------------------------------------------------------------------
(* The operations of the transaction *)

\* The engine rpc_poison_content_update_init leaves behind.
LEMMA InitEngineInv == ASSUME NEW A PROVE EngineInv(InitEngine, A)
  <1>1. /\ "Discovered" \in States /\ 0 \in 0..ContentBytes
        /\ Bootstrap \in Firmware
        /\ NoConfirmation \in [active: BOOLEAN, session: Sessions \cup {None},
                               target: Candidates \cup {None}]
    BY ContentUpdateAssumption
       DEF States, BeforeActivation, Firmware, NoConfirmation
  <1>2. InitEngine \in Engines
    BY <1>1 DEF InitEngine, Engines
  <1>3. QED
    BY <1>2 DEF EngineInv, Begun, AboveFloor, TokenBound, ArmsApproved,
                KnownGood, Installable, InitEngine, NoConfirmation

\* The invariant contains the type.
LEMMA EngineTyped ==
  ASSUME NEW A, NEW e, EngineInv(e, A) PROVE e \in Engines
  BY DEF EngineInv

\* Approvals only accumulate.
LEMMA EngineMonotone ==
  ASSUME NEW A, NEW B, A \subseteq B, NEW e, EngineInv(e, A)
  PROVE  EngineInv(e, B)
  BY DEF EngineInv, ArmsApproved, Installable

\* Saving drops the token and nothing else.
LEMMA PersistedInv ==
  ASSUME NEW A, NEW e, EngineInv(e, A)
  PROVE  /\ Persisted(e) \in [present: BOOLEAN, eng: Engines]
         /\ Persisted(e).present
         /\ EngineInv(Persisted(e).eng, A)
         /\ Persisted(e).eng.floor = e.floor
  <1> DEFINE f == [e EXCEPT !.confirmation = NoConfirmation]
  <1>1. NoConfirmation \in [active: BOOLEAN, session: Sessions \cup {None},
                            target: Candidates \cup {None}]
    BY DEF NoConfirmation
  <1>2. e \in Engines
    BY EngineTyped
  <1>3. f \in Engines
    BY <1>1, <1>2 DEF Engines
  <1>4. EngineInv(f, A) /\ f.floor = e.floor
    BY <1>2, <1>3 DEF EngineInv, Engines, Begun, AboveFloor, TokenBound,
                ArmsApproved, KnownGood, Installable, NoConfirmation
  <1>5. QED
    BY <1>3, <1>4 DEF Persisted

\* A new transaction starts from the accepted identity, above the floor.
LEMMA ImportedInv ==
  ASSUME NEW A, NEW e, EngineInv(e, A), NEW c \in Candidates, Admit(e, c)
  PROVE  EngineInv(Imported(e, c), A) /\ Imported(e, c).floor = e.floor
  <1>1. e \in Engines /\ EngineInv(e, A)
    BY EngineTyped
  <1>2. /\ NoConfirmation \in [active: BOOLEAN, session: Sessions \cup {None},
                            target: Candidates \cup {None}]
        /\ 0 \in 0..ContentBytes /\ "Discovered" \in States
        /\ e.accepted \in Firmware \cup {None} /\ e.accepted \in Firmware
    BY <1>1, ContentUpdateAssumption
       DEF NoConfirmation, States, BeforeActivation, Engines
  <1>3. Imported(e, c) \in Engines
    BY <1>1, <1>2 DEF Engines, Imported
  <1>4. QED
    BY <1>1, <1>2, <1>3, ContentUpdateAssumption, ZenonT(30)
       DEF EngineInv, Engines, Begun, AboveFloor, TokenBound,
                ArmsApproved, KnownGood, Installable, Imported, Admit, States,
           BeforeActivation, NoConfirmation

\* A chunk never takes the count past the size of the content.
LEMMA ReceivedInv ==
  ASSUME NEW A, NEW e, EngineInv(e, A), e.active,
         NEW n \in Nat, CanReceive(e, n)
  PROVE  EngineInv(Received(e, n), A) /\ Received(e, n).floor = e.floor
  <1>1. e \in Engines /\ EngineInv(e, A)
    BY EngineTyped
  <1>2. /\ e.received + n \in 0..ContentBytes
        /\ "Staged" \in States /\ "Receiving" \in States
    BY <1>1, ContentUpdateAssumption
       DEF CanReceive, States, BeforeActivation, Engines
  <1>3. Received(e, n) \in Engines
    BY <1>1, <1>2 DEF Engines, Received
  <1>4. QED
    BY <1>1, <1>2, <1>3, ContentUpdateAssumption
       DEF EngineInv, Engines, Begun, AboveFloor, TokenBound,
                ArmsApproved, KnownGood, Installable, Received, CanReceive, States,
           BeforeActivation

\* Verification ties the directory and the token to the candidate.
LEMMA PayloadVerifiedInv ==
  ASSUME NEW A, NEW e, EngineInv(e, A), e.active, e.state = "Staged",
         NEW s \in Sessions
  PROVE  EngineInv(PayloadVerified(e, s), A)
         /\ PayloadVerified(e, s).floor = e.floor
  <1>1. e \in Engines /\ EngineInv(e, A)
    BY EngineTyped
  <1>2. /\ e.cand \in Candidates /\ Dir[e.cand] \in Dirs
        /\ Issue(s, e.cand) \in [active: BOOLEAN, session: Sessions \cup {None},
                            target: Candidates \cup {None}]
        /\ "AwaitingConfirmation" \in States
    BY <1>1, ContentUpdateAssumption
       DEF EngineInv, Begun, Issue, States, BeforeActivation
  <1>3. PayloadVerified(e, s) \in Engines
    BY <1>1, <1>2 DEF Engines, PayloadVerified
  <1>4. QED
    BY <1>1, <1>2, <1>3, ContentUpdateAssumption
       DEF EngineInv, Engines, Begun, AboveFloor, TokenBound,
                ArmsApproved, KnownGood, Installable, PayloadVerified, Issue, States,
           BeforeActivation

\* A token that expires leaves the transaction as it was.
LEMMA ExpiredInv ==
  ASSUME NEW A, NEW e, EngineInv(e, A)
  PROVE  /\ EngineInv(Expired(e), A) /\ Expired(e).floor = e.floor
         /\ Expired(e).active = e.active
  <1>1. e \in Engines /\ EngineInv(e, A)
    BY EngineTyped
  <1>2. [e.confirmation EXCEPT !.active = FALSE]
          \in [active: BOOLEAN, session: Sessions \cup {None},
                            target: Candidates \cup {None}]
    BY <1>1 DEF Engines
  <1>3. Expired(e) \in Engines
    BY <1>1, <1>2 DEF Engines, Expired
  <1>4. QED
    BY <1>1, <1>2, <1>3, ContentUpdateAssumption
       DEF EngineInv, Engines, Begun, AboveFloor, TokenBound,
                ArmsApproved, KnownGood, Installable, Expired

\* The approval is recorded on the transaction it was asked for.
LEMMA AuthorizedInv ==
  ASSUME NEW A, NEW e, EngineInv(e, A)
  PROVE  /\ EngineInv(Authorized(e), A) /\ Authorized(e).floor = e.floor
         /\ Authorized(e).active = e.active
         /\ Authorized(e).state = e.state /\ Authorized(e).cand = e.cand
  <1>1. e \in Engines /\ EngineInv(e, A)
    BY EngineTyped
  <1>2. TRUE \in BOOLEAN
    OBVIOUS
  <1>3. Authorized(e) \in Engines
    BY <1>1, <1>2 DEF Engines, Authorized
  <1>4. QED
    BY <1>1, <1>2, <1>3, ContentUpdateAssumption
       DEF EngineInv, Engines, Begun, AboveFloor, TokenBound,
                ArmsApproved, KnownGood, Installable, Authorized

\* Only an approved candidate becomes Activating.
LEMMA ActivatingInv ==
  ASSUME NEW A, NEW e, EngineInv(e, A), e.active,
         e.state = "AwaitingConfirmation", e.cand \in A
  PROVE  EngineInv(Activating(e), A) /\ Activating(e).floor = e.floor
  <1>1. e \in Engines /\ EngineInv(e, A)
    BY EngineTyped
  <1>2. /\ NoConfirmation \in [active: BOOLEAN, session: Sessions \cup {None},
                            target: Candidates \cup {None}]
        /\ "Activating" \in States
    BY DEF NoConfirmation, States
  <1>3. Activating(e) \in Engines
    BY <1>1, <1>2 DEF Engines, Activating
  <1>4. QED
    BY <1>1, <1>2, <1>3, ContentUpdateAssumption
       DEF EngineInv, Engines, Begun, AboveFloor, TokenBound,
                ArmsApproved, KnownGood, Installable, Activating, States, BeforeActivation,
           NoConfirmation

\* Closing a transaction keeps what is accepted and known good.
LEMMA ClosedInv ==
  ASSUME NEW A, NEW e, EngineInv(e, A), e.active,
         NEW t \in {"RolledBack", "Quarantined"}
  PROVE  /\ EngineInv(Closed(e, t), A) /\ Closed(e, t).floor = e.floor
         /\ Closed(e, t).state = t
  <1>1. e \in Engines /\ EngineInv(e, A)
    BY EngineTyped
  <1>2. t \in States /\ t \in Terminal
    BY DEF States, Terminal
  <1>3. Closed(e, t) \in Engines
    BY <1>1, <1>2 DEF Engines, Closed
  <1>4. QED
    BY <1>1, <1>2, <1>3, ContentUpdateAssumption
       DEF EngineInv, Engines, Begun, AboveFloor, TokenBound,
                ArmsApproved, KnownGood, Installable, Closed, States, BeforeActivation,
           Terminal

\* A rollback exchanges the known-good paths with the accepted digest.
LEMMA RolledBackInv ==
  ASSUME NEW A, NEW e, EngineInv(e, A), e.active,
         e.state \in {"Activating", "Healthy"}, RollbackDir(e) # None
  PROVE  /\ EngineInv(RolledBack(e), A) /\ RolledBack(e).floor = e.floor
         /\ RolledBack(e).state = "RolledBack"
         /\ Installable(RollbackDir(e), A)
  <1>1. e \in Engines /\ EngineInv(e, A)
    BY EngineTyped
  <1>2. /\ "RolledBack" \in States /\ e.prevDigest \in Firmware
        /\ RollbackDir(e) \in Dirs \cup {None}
        /\ (IF e.state = "Healthy" THEN e.lkg ELSE e.prevKg) \in Dirs \cup {None}
    BY <1>1 DEF EngineInv, Begun, RollbackDir, States, Terminal, Engines
  <1>3. RolledBack(e) \in Engines
    BY <1>1, <1>2 DEF Engines, RolledBack
  <1>4. QED
    BY <1>1, <1>2, <1>3, ContentUpdateAssumption
       DEF EngineInv, Engines, Begun, AboveFloor, TokenBound,
                ArmsApproved, KnownGood, Installable, RolledBack, RollbackDir, States,
           BeforeActivation, Terminal, Firmware, DirOf

\* A promotion raises the floor to the candidate it accepts.
LEMMA PromotedInv ==
  ASSUME NEW A, NEW e, EngineInv(e, A), e.active, e.state = "Activating"
  PROVE  /\ EngineInv(Promoted(e), A)
         /\ Promoted(e).floor = Seq[e.cand] /\ Promoted(e).floor > e.floor
         /\ Promoted(e).cand = e.cand /\ Promoted(e).active
  <1>1. e \in Engines /\ EngineInv(e, A)
    BY EngineTyped
  <1>2. /\ "Healthy" \in States /\ e.cand \in Candidates
        /\ e.cand \in Firmware /\ Seq[e.cand] \in Nat
        /\ e.actDir = Dir[e.cand] /\ e.actDir \in Dirs
    BY <1>1, ContentUpdateAssumption
       DEF EngineInv, Begun, ArmsApproved, States, Terminal, Firmware
  <1>3. Promoted(e) \in Engines
    BY <1>1, <1>2 DEF Engines, Promoted
  <1>4. QED
    BY <1>1, <1>2, <1>3, ContentUpdateAssumption
       DEF EngineInv, Engines, Begun, AboveFloor, TokenBound,
                ArmsApproved, KnownGood, Installable, Promoted, States, BeforeActivation,
           Terminal, DirOf

\* The shipped image is the known-good one of an engine without any.
LEMMA BootstrappedInv ==
  ASSUME NEW A, NEW e, EngineInv(e, A), e.lkg = None
  PROVE  /\ EngineInv(Bootstrapped(e), A)
         /\ Bootstrapped(e).floor = e.floor
         /\ Bootstrapped(e).active = e.active
         /\ Bootstrapped(e).state = e.state
  <1>1. e \in Engines /\ EngineInv(e, A)
    BY EngineTyped
  <1>2. BootDir \in Dirs
    BY ContentUpdateAssumption
  <1>3. Bootstrapped(e) \in Engines
    BY <1>1, <1>2 DEF Engines, Bootstrapped
  <1>4. QED
    BY <1>1, <1>2, <1>3, ContentUpdateAssumption
       DEF EngineInv, Engines, Begun, AboveFloor, TokenBound,
                ArmsApproved, KnownGood, Installable, Bootstrapped, DirOf

------------------------------------------------------------------------------
(* The inductive invariant *)

\* Every engine value the device holds, and the armed directory.
Held ==
    /\ EngineInv(engine, approved)
    /\ EngineInv(previous, approved)
    /\ EngineInv(file.eng, approved)
    /\ Installable(pointer, approved)

\* The save that follows a promotion: op is "boot" and the state is Healthy.
Promoting ==
    /\ pc \in {"save", "copy"} /\ op = "boot" /\ engine.state = "Healthy"

\* What a handler that is cut in two relies on when it goes on.
Resumable ==
    /\ pc = "prompt" => engine.active
    /\ pc = "arm" => /\ engine.active /\ engine.state = "AwaitingConfirmation"
                     /\ engine.cand \in approved
    /\ pc = "reconcile" => engine.active /\ engine.state = "Activating"
    /\ Promoting => /\ engine.floor = Seq[engine.cand]
                    /\ complete = engine.cand /\ engine.cand \in approved

\* The floor of e covers what has been accepted.
Covers(e) == \A c \in healthy: e.floor >= Seq[c]

\* The floor on its way through RAM, the restored copy and the state file.
FloorHeld ==
    ~lost =>
        /\ file.present => Covers(file.eng)
        /\ ~file.present /\ pc # "copy" => healthy = {}
        /\ pc # "off" => Covers(engine)
        /\ pc \in {"save", "copy", "arm"} => Covers(previous)

Inv == TypeOK /\ Held /\ Resumable /\ FloorHeld

\* The two forms in which the lemmas below use the assumptions.
LEMMA Constants ==
    /\ BootDir \in Dirs /\ \A c \in Candidates: Dir[c] \in Dirs
    /\ \A c \in Candidates: Dir[c] # None /\ Dir[c] # BootDir
    /\ \A c \in Candidates: Seq[c] \in Nat
    /\ None \notin Candidates
  BY ContentUpdateAssumption

\* A device as shipped satisfies the invariant.
LEMMA InitInv == Init => Inv
  <1> SUFFICES ASSUME Init PROVE Inv
    OBVIOUS
  <1>1. EngineInv(InitEngine, approved) /\ InitEngine \in Engines
    BY InitEngineInv, EngineTyped
  <1>2. NoFile \in [present: BOOLEAN, eng: Engines] /\ ~NoFile.present
        /\ NoFile.eng = InitEngine
    BY <1>1 DEF NoFile
  <1>3. store \in [Dirs -> Firmware \cup {None}]
    BY DEF Init, Firmware
  <1>4. Bootstrap \in Firmware /\ 0 \in 0..MaxFaults
    BY ContentUpdateAssumption DEF Firmware
  <1>5. TypeOK
    BY <1>1, <1>2, <1>3, <1>4 DEF Init, TypeOK
  <1>6. Held
    BY <1>1, <1>2 DEF Init, Held, Installable
  <1>7. Resumable /\ FloorHeld
    BY <1>2 DEF Init, Resumable, Promoting, FloorHeld, Covers
  <1>8. QED
    BY <1>5, <1>6, <1>7 DEF Inv

\* A handler that puts a new engine value in RAM and goes on to save it.
LEMMA StartSaveInv ==
  ASSUME Inv, NEW e, NEW kind \in {"request", "rollback", "rearm", "boot"},
         EngineInv(e, approved), StartSave(e, kind), pc # "off",
         e.floor \in Nat, e.floor >= engine.floor,
         kind = "boot" /\ e.state = "Healthy"
            => /\ e.floor = Seq[e.cand] /\ complete = e.cand
               /\ e.cand \in approved,
         pc # "copy",
         UNCHANGED <<file, markerVars, running, resetDue, approved, healthy,
                     lost>>,
         bootMode' \in {"Normal", "PreUpdate", "Update", "PostUpdate"},
         pointer' \in Dirs \cup {None}, Installable(pointer', approved),
         store' \in [Dirs -> Firmware \cup {None}],
         faults' \in 0..MaxFaults
  PROVE  Inv'
  <1>1. e \in Engines /\ engine \in Engines
    BY EngineTyped DEF Inv, Held
  <1>2. TypeOK'
    BY <1>1 DEF Inv, TypeOK, StartSave, markerVars
  <1>3. Held'
    BY DEF Inv, Held, StartSave, markerVars
  <1>4. Resumable'
    BY DEF Inv, Resumable, Promoting, StartSave, markerVars
  <1>5. Covers(engine) => Covers(e)
    <2> SUFFICES ASSUME Covers(engine), NEW c \in healthy
                 PROVE  e.floor >= Seq[c]
      BY DEF Covers
    <2>1. engine.floor \in Nat /\ Seq[c] \in Nat
      BY <1>1, Constants DEF Engines, Inv, TypeOK
    <2>2. QED
      BY <2>1 DEF Covers
  <1>6. FloorHeld'
    BY <1>5 DEF Inv, FloorHeld, Covers, StartSave, markerVars
  <1>7. QED
    BY <1>2, <1>3, <1>4, <1>6 DEF Inv

\* An operation that arms nothing.
LEMMA RequestInv ==
  ASSUME Inv, NEW e, EngineInv(e, approved), e.floor = engine.floor,
         Request(e)
  PROVE  Inv'
  <1>1. engine.floor \in Nat
    BY DEF Inv, TypeOK, Engines
  <1>2. Installable(pointer, approved)
    BY DEF Inv, Held
  <1>3. TypeOK
    BY DEF Inv
  <1>4. /\ pc = "up" /\ StartSave(e, "request")
        /\ UNCHANGED <<file, markerVars, running, resetDue, approved, healthy,
                       lost>>
        /\ pointer' = pointer /\ bootMode' = bootMode /\ store' = store
        /\ faults' = faults
    BY DEF Request, updaterVars, flashVars, history
  <1>5. /\ bootMode' \in {"Normal", "PreUpdate", "Update", "PostUpdate"}
        /\ pointer' \in Dirs \cup {None} /\ Installable(pointer', approved)
        /\ store' \in [Dirs -> Firmware \cup {None}]
        /\ faults' \in 0..MaxFaults
    BY <1>2, <1>3, <1>4 DEF TypeOK
  <1>6. QED
    BY <1>1, <1>4, <1>5, StartSaveInv

\* IMPORT, STAGE, CANCEL and QUARANTINE.
LEMMA SimpleRequestsInv ==
  ASSUME Inv,
         \/ \E c \in Candidates: Import(c)
         \/ \E n \in 1..ContentBytes: Stage(n)
         \/ Cancel \/ Quarantine
  PROVE  Inv'
  <1>1. EngineInv(engine, approved)
    BY DEF Inv, Held
  <1>2. ASSUME NEW c \in Candidates, Import(c) PROVE Inv'
    BY <1>1, <1>2, ImportedInv, RequestInv DEF Import
  <1>3. ASSUME NEW n \in 1..ContentBytes, Stage(n) PROVE Inv'
    <2>1. n \in Nat
      BY ContentUpdateAssumption
    <2>2. QED
      BY <1>1, <1>3, <2>1, ReceivedInv, RequestInv DEF Stage
  <1>4. ASSUME Cancel PROVE Inv'
    BY <1>1, <1>4, ClosedInv, RequestInv DEF Cancel
  <1>5. ASSUME Quarantine PROVE Inv'
    BY <1>1, <1>5, ClosedInv, RequestInv DEF Quarantine
  <1>6. QED
    BY <1>2, <1>3, <1>4, <1>5

\* A step that leaves RAM, the state file and the history alone, other than by
\* disarming or by extracting an archive.
LEMMA QuietInv ==
  ASSUME Inv, UNCHANGED <<pc, op, engine, previous, file, markerVars, running,
                          resetDue, history>>,
         bootMode' \in {"Normal", "PreUpdate", "Update", "PostUpdate"},
         pointer' \in Dirs \cup {None}, Installable(pointer', approved),
         store' \in [Dirs -> Firmware \cup {None}],
         faults' \in 0..MaxFaults
  PROVE  Inv'
  <1>1. TypeOK'
    BY DEF Inv, TypeOK, markerVars, history
  <1>2. Held'
    BY DEF Inv, Held, history
  <1>3. Resumable' /\ FloorHeld'
    BY DEF Inv, Resumable, Promoting, FloorHeld, Covers, markerVars, history
  <1>4. QED
    BY <1>1, <1>2, <1>3 DEF Inv

\* One more fault stays within the bound.
LEMMA FaultTyped == ASSUME TypeOK, Fault PROVE faults' \in 0..MaxFaults
  BY ContentUpdateAssumption DEF TypeOK, Fault

\* VERIFY, with an extraction that succeeds or fails.
LEMMA VerifyInv ==
  ASSUME Inv, NEW c \in Candidates,
         VerifyFails(c) \/ \E s \in Sessions: Verify(s, c)
  PROVE  Inv'
  <1>1. /\ EngineInv(engine, approved) /\ TypeOK
        /\ Installable(pointer, approved)
    BY DEF Inv, Held
  <1>2. /\ Dir[c] \in Dirs /\ c \in Firmware /\ engine.floor \in Nat
    BY <1>1, Constants DEF Firmware, TypeOK, Engines
  <1>3. CASE VerifyFails(c)
    <2>1. store' \in [Dirs -> Firmware \cup {None}]
      BY <1>1, <1>2, <1>3 DEF VerifyFails, TypeOK
    <2>2. faults' \in 0..MaxFaults
      BY <1>1, <1>3, FaultTyped DEF VerifyFails
    <2>3. QED
      BY <1>1, <1>3, <2>1, <2>2, QuietInv
         DEF VerifyFails, TypeOK, updaterVars, history
  <1>4. ASSUME NEW s \in Sessions, Verify(s, c) PROVE Inv'
    <2>1. store' \in [Dirs -> Firmware \cup {None}]
      BY <1>1, <1>2, <1>4 DEF Verify, TypeOK
    <2>2. /\ bootMode' \in {"Normal", "PreUpdate", "Update", "PostUpdate"}
          /\ pointer' \in Dirs \cup {None} /\ Installable(pointer', approved)
          /\ faults' \in 0..MaxFaults
          /\ UNCHANGED <<file, markerVars, running, resetDue, approved,
                         healthy, lost>>
      BY <1>1, <1>4 DEF Verify, TypeOK, updaterVars, history
    <2>3. CASE c = engine.cand
      <3>1. EngineInv(PayloadVerified(engine, s), approved)
            /\ PayloadVerified(engine, s).floor = engine.floor
        BY <1>1, <1>4, PayloadVerifiedInv DEF Verify
      <3>2. pc = "up" /\ StartSave(PayloadVerified(engine, s), "request")
        BY <1>4, <2>3 DEF Verify
      <3>3. QED
        BY <1>2, <2>1, <2>2, <3>1, <3>2, StartSaveInv
    <2>4. CASE c # engine.cand
      <3>1. UNCHANGED <<pc, op, engine, previous>>
        BY <1>4, <2>4 DEF Verify
      <3>2. QED
        BY <2>1, <2>2, <3>1, QuietInv DEF history
    <2>5. QED
      BY <2>3, <2>4
  <1>5. QED
    BY <1>3, <1>4

\* ROLLBACK arms a directory that was approved or shipped.
LEMMA RollbackInv == ASSUME Inv, Rollback PROVE Inv'
  <1>1. EngineInv(engine, approved) /\ TypeOK /\ engine.floor \in Nat
    BY DEF Inv, Held, TypeOK, Engines
  <1>2. /\ engine.active /\ engine.state \in {"Activating", "Healthy"}
        /\ RollbackDir(engine) # None
    BY DEF Rollback, Prepare
  <1>3. /\ EngineInv(RolledBack(engine), approved)
        /\ RolledBack(engine).floor = engine.floor
        /\ Installable(RollbackDir(engine), approved)
    BY <1>1, <1>2, RolledBackInv
  <1>4. RollbackDir(engine) \in Dirs \cup {None}
    BY <1>1 DEF TypeOK, Engines, RollbackDir
  <1>5. /\ pc = "up" /\ StartSave(RolledBack(engine), "rollback")
        /\ bootMode' = "PreUpdate" /\ pointer' = RollbackDir(engine)
        /\ UNCHANGED <<file, markerVars, running, resetDue, approved, healthy,
                       lost>>
        /\ store' = store /\ faults' = faults
    BY DEF Rollback, Prepare, flashVars, history
  <1>6. /\ store' \in [Dirs -> Firmware \cup {None}] /\ faults' \in 0..MaxFaults
        /\ bootMode' \in {"Normal", "PreUpdate", "Update", "PostUpdate"}
        /\ pointer' \in Dirs \cup {None} /\ Installable(pointer', approved)
    BY <1>1, <1>3, <1>4, <1>5 DEF TypeOK
  <1>7. QED
    BY <1>1, <1>3, <1>5, <1>6, StartSaveInv

\* A refused request disarms and changes nothing else.
LEMMA RefusedInv == ASSUME Inv, RefusedRequest PROVE Inv'
  <1>1. TypeOK
    BY DEF Inv
  <1>2. QED
    BY <1>1, QuietInv DEF RefusedRequest, Disarm, TypeOK, flashVars,
                          Installable, history

\* The dialog is opened, or closed without an approval.
LEMMA PromptInv ==
  ASSUME Inv, PromptRefused \/ \E s \in Sessions: Prompt(s)
  PROVE  Inv'
  <1>1. /\ UNCHANGED <<op, engine, previous, file, markerVars, flashVars,
                       resetDue, faults, history>>
        /\ \/ pc' = "prompt" /\ engine.active
           \/ pc' = "up"
        /\ pc \in {"up", "prompt"}
        /\ \/ bootMode' = "Normal" /\ pointer' = None
           \/ bootMode' = bootMode /\ pointer' = pointer
    BY DEF PromptRefused, Prompt, Disarm, updaterVars
  <1>2. TypeOK'
    BY <1>1 DEF Inv, TypeOK, markerVars, flashVars, history
  <1>3. Held'
    BY <1>1 DEF Inv, Held, Installable, history
  <1>4. Resumable' /\ FloorHeld'
    BY <1>1 DEF Inv, Resumable, Promoting, FloorHeld, Covers, markerVars,
                history
  <1>5. QED
    BY <1>2, <1>3, <1>4 DEF Inv

\* The token expires, with the dialog open or not.
LEMMA ExpireInv == ASSUME Inv, Expire PROVE Inv'
  <1>1. /\ EngineInv(Expired(engine), approved)
        /\ Expired(engine).floor = engine.floor
        /\ Expired(engine).active = engine.active
    BY ExpiredInv DEF Inv, Held
  <1>2. Expired(engine) \in Engines
    BY <1>1, EngineTyped
  <1>3. /\ pc \in {"up", "prompt"} /\ engine' = Expired(engine)
        /\ UNCHANGED <<pc, op, previous, file, markerVars, updaterVars,
                       flashVars, resetDue, faults, history>>
    BY DEF Expire
  <1>4. TypeOK'
    BY <1>2, <1>3 DEF Inv, TypeOK, markerVars, updaterVars, flashVars, history
  <1>5. Held'
    BY <1>1, <1>3 DEF Inv, Held, updaterVars, history
  <1>6. Resumable' /\ FloorHeld'
    BY <1>1, <1>3 DEF Inv, Resumable, Promoting, FloorHeld, Covers, history
  <1>7. QED
    BY <1>4, <1>5, <1>6 DEF Inv

\* The approval: the directory that is armed is the one of the candidate the
\* user has just approved.
LEMMA PromptApprovedInv ==
  ASSUME Inv, NEW s \in Sessions, NEW answer \in BOOLEAN,
         PromptApproved(s, answer)
  PROVE  Inv'
  <1>1. /\ EngineInv(engine, approved) /\ EngineInv(file.eng, approved)
        /\ TypeOK /\ Resumable /\ FloorHeld
    BY DEF Inv, Held
  <1>2. /\ pc = "prompt" /\ pc' = "arm" /\ engine.active
        /\ engine.state = "AwaitingConfirmation"
        /\ approved' = approved \cup {engine.cand}
        /\ pointer' = engine.actDir /\ bootMode' = "PreUpdate"
        /\ previous' = engine /\ engine' = Authorized(engine)
        /\ UNCHANGED <<op, file, markerVars, flashVars, resetDue, faults,
                       healthy, lost>>
    BY <1>1 DEF PromptApproved, Approve, Prepare, Resumable
  <1>3. /\ engine.cand \in Candidates /\ engine.actDir = Dir[engine.cand]
        /\ approved \subseteq approved'
    BY <1>1, <1>2 DEF EngineInv, Begun, ArmsApproved
  <1>4. /\ EngineInv(engine, approved') /\ EngineInv(file.eng, approved')
    BY <1>1, <1>3, EngineMonotone
  <1>5. /\ EngineInv(Authorized(engine), approved')
        /\ Authorized(engine).floor = engine.floor
        /\ Authorized(engine).active = engine.active
        /\ Authorized(engine).state = engine.state
        /\ Authorized(engine).cand = engine.cand
        /\ Authorized(engine) \in Engines
    BY <1>4, AuthorizedInv, EngineTyped
  <1>6. TypeOK'
    BY <1>1, <1>2, <1>3, <1>5, Constants
       DEF TypeOK, markerVars, flashVars
  <1>7. Held'
    BY <1>2, <1>3, <1>4, <1>5 DEF Held, Installable
  <1>8. Resumable' /\ FloorHeld'
    BY <1>1, <1>2, <1>5 DEF Resumable, Promoting, FloorHeld, Covers
  <1>9. QED
    BY <1>6, <1>7, <1>8 DEF Inv

\* The pending marker is written and the transaction becomes Activating.
LEMMA WritePendingInv == ASSUME Inv, WritePending PROVE Inv'
  <1>1. /\ pc = "arm" /\ EngineInv(engine, approved) /\ engine.active
        /\ engine.state = "AwaitingConfirmation" /\ engine.cand \in approved
    BY DEF Inv, Held, Resumable, WritePending
  <1>2. /\ EngineInv(Activating(engine), approved)
        /\ Activating(engine).floor = engine.floor
        /\ Activating(engine) \in Engines
    BY <1>1, ActivatingInv, EngineTyped
  <1>3. engine.cand \in Candidates
    BY <1>1 DEF EngineInv, Begun
  <1>4. TypeOK'
    BY <1>2, <1>3 DEF Inv, TypeOK, WritePending, updaterVars, flashVars, history
  <1>5. Held'
    BY <1>2 DEF Inv, Held, WritePending, updaterVars, history
  <1>6. Resumable' /\ FloorHeld'
    BY <1>1, <1>2 DEF Inv, Resumable, Promoting, FloorHeld, Covers,
                WritePending, history
  <1>7. QED
    BY <1>4, <1>5, <1>6 DEF Inv

\* The handler restores its copy and disarms.
LEMMA WritePendingFailsInv == ASSUME Inv, WritePendingFails PROVE Inv'
  <1>1. faults' \in 0..MaxFaults
    BY FaultTyped DEF Inv, WritePendingFails
  <1>2. TypeOK'
    BY <1>1 DEF Inv, TypeOK, WritePendingFails, Disarm, flashVars, history
  <1>3. Held'
    BY DEF Inv, Held, WritePendingFails, Disarm, Installable, history
  <1>4. Resumable' /\ FloorHeld'
    BY DEF Inv, Resumable, Promoting, FloorHeld, Covers, WritePendingFails,
           history
  <1>5. QED
    BY <1>2, <1>3, <1>4 DEF Inv

------------------------------------------------------------------------------
(* The save *)

\* The engine without a state file.
LEMMA NoFileInv ==
  ASSUME NEW A
  PROVE  /\ NoFile \in [present: BOOLEAN, eng: Engines] /\ ~NoFile.present
         /\ EngineInv(NoFile.eng, A)
  BY InitEngineInv, EngineTyped DEF NoFile

\* A failed save goes back to the copy the handler took.
LEMMA SaveFailsInv ==
  ASSUME Inv, SavePartialFails \/ CopyNewFileFails PROVE Inv'
  <1>1. /\ EngineInv(engine, approved) /\ TypeOK /\ FloorHeld /\ Held
        /\ EngineInv(previous, approved)
    BY DEF Inv, Held
  <1>2. faults' \in 0..MaxFaults
    BY <1>1, FaultTyped DEF SavePartialFails, CopyNewFileFails
  <1>3. /\ pc \in {"save", "copy"} /\ pc' = "up" /\ engine' = previous
        /\ \/ UNCHANGED updaterVars
           \/ bootMode' = "Normal" /\ pointer' = None
        /\ UNCHANGED <<op, previous, markerVars, flashVars, resetDue, approved,
                       healthy>>
        /\ \/ file' = file /\ lost' = lost /\ pc = "save"
           \/ file' = NoFile /\ lost' = TRUE
           \/ file' = Persisted(engine) /\ lost' = lost
    BY DEF SavePartialFails, CopyNewFileFails, NotSaved, Disarm
  <1>4. /\ file' \in [present: BOOLEAN, eng: Engines]
        /\ EngineInv(file'.eng, approved)
        /\ ~lost' => \/ file' = file /\ lost' = lost /\ pc = "save"
                     \/ /\ file'.present /\ file'.eng.floor = engine.floor
                        /\ lost' = lost
    <2>1. CASE file' = file /\ lost' = lost /\ pc = "save"
      BY <1>1, <2>1 DEF TypeOK, Held
    <2>2. CASE file' = NoFile /\ lost' = TRUE
      BY <2>2, NoFileInv
    <2>3. CASE file' = Persisted(engine) /\ lost' = lost
      BY <1>1, <2>3, PersistedInv
    <2>4. QED
      BY <1>3, <2>1, <2>2, <2>3
  <1>5. TypeOK'
    BY <1>1, <1>2, <1>3, <1>4 DEF TypeOK, updaterVars, markerVars, flashVars
  <1>6. Held'
    BY <1>1, <1>3, <1>4 DEF Held, updaterVars, Installable
  <1>7. Resumable'
    BY <1>3 DEF Resumable, Promoting
  <1>8. FloorHeld'
    BY <1>1, <1>3, <1>4 DEF FloorHeld, Covers
  <1>9. QED
    BY <1>5, <1>6, <1>7, <1>8 DEF Inv

\* The old state file is gone until the new one has been copied.
LEMMA RemoveOldFileInv == ASSUME Inv, RemoveOldFile PROVE Inv'
  <1>1. /\ pc = "save" /\ pc' = "copy" /\ file' = NoFile
        /\ UNCHANGED <<op, engine, previous, markerVars, updaterVars,
                       flashVars, resetDue, faults, history>>
    BY DEF RemoveOldFile
  <1>2. TypeOK'
    BY <1>1, NoFileInv
       DEF Inv, TypeOK, updaterVars, markerVars, flashVars, history
  <1>3. Held'
    BY <1>1, NoFileInv DEF Inv, Held, updaterVars, history
  <1>4. Resumable' /\ FloorHeld'
    BY <1>1, NoFileInv DEF Inv, Resumable, Promoting, FloorHeld, Covers,
                           markerVars, history
  <1>5. QED
    BY <1>2, <1>3, <1>4 DEF Inv

\* The save succeeds; after a promotion the candidate counts as accepted, and
\* the floor that was saved with it covers it.
LEMMA CopyNewFileInv == ASSUME Inv, CopyNewFile PROVE Inv'
  <1>1. /\ EngineInv(engine, approved) /\ TypeOK /\ FloorHeld /\ Held
        /\ Resumable
    BY DEF Inv, Held
  <1>2. /\ pc = "copy" /\ pc' \in {"clear", "up"} /\ file' = Persisted(engine)
        /\ resetDue' \in BOOLEAN
        /\ healthy' = IF op = "boot" /\ engine.state = "Healthy"
                      THEN healthy \cup {engine.cand} ELSE healthy
        /\ UNCHANGED <<op, engine, previous, updaterVars, markerVars,
                       flashVars, faults, approved, lost>>
    BY <1>1 DEF CopyNewFile, Saved, TypeOK
  <1>3. /\ file' \in [present: BOOLEAN, eng: Engines] /\ file'.present
        /\ EngineInv(file'.eng, approved) /\ file'.eng.floor = engine.floor
    BY <1>1, <1>2, PersistedInv
  <1>4. healthy' \subseteq Candidates
        /\ \A c \in healthy' \ healthy: engine.floor = Seq[c]
    BY <1>1, <1>2 DEF TypeOK, Resumable, Promoting
  <1>5. TypeOK'
    BY <1>1, <1>2, <1>3, <1>4 DEF TypeOK, updaterVars, markerVars, flashVars
  <1>6. Held'
    BY <1>1, <1>2, <1>3 DEF Held, updaterVars
  <1>7. Resumable'
    BY <1>2 DEF Resumable, Promoting
  <1>8. ASSUME ~lost', NEW c \in healthy' PROVE engine.floor >= Seq[c]
    <2>1. engine.floor \in Nat
      BY <1>1 DEF TypeOK, Engines
    <2>2. QED
      BY <1>1, <1>2, <1>4, <1>8, <2>1 DEF FloorHeld, Covers
  <1>9. FloorHeld'
    BY <1>2, <1>3, <1>8 DEF FloorHeld, Covers
  <1>10. QED
    BY <1>5, <1>6, <1>7, <1>9 DEF Inv

\* The card was full: the save reports success, and the state file is lost.
LEMMA CopyNewFileShortInv == ASSUME Inv, CopyNewFileShort PROVE Inv'
  <1>1. EngineInv(engine, approved) /\ TypeOK /\ Held /\ Resumable
    BY DEF Inv, Held
  <1>2. faults' \in 0..MaxFaults
    BY <1>1, FaultTyped DEF CopyNewFileShort
  <1>3. /\ pc = "copy" /\ pc' \in {"clear", "up"}
        /\ file' = NoFile /\ lost' = TRUE
        /\ resetDue' \in BOOLEAN
        /\ healthy' = IF op = "boot" /\ engine.state = "Healthy"
                      THEN healthy \cup {engine.cand} ELSE healthy
        /\ UNCHANGED <<op, engine, previous, updaterVars, markerVars,
                       flashVars, approved>>
    BY <1>1 DEF CopyNewFileShort, Saved, TypeOK
  <1>4. healthy' \subseteq Candidates
    BY <1>1, <1>3 DEF TypeOK, Resumable, Promoting
  <1>5. TypeOK'
    BY <1>1, <1>2, <1>3, <1>4, NoFileInv
       DEF TypeOK, updaterVars, markerVars, flashVars
  <1>6. Held'
    BY <1>1, <1>3, NoFileInv DEF Held, updaterVars
  <1>7. Resumable' /\ FloorHeld'
    BY <1>3 DEF Resumable, Promoting, FloorHeld, Covers
  <1>8. QED
    BY <1>5, <1>6, <1>7 DEF Inv

------------------------------------------------------------------------------
(* The boot *)

\* The engine a boot starts with comes from the state file.
LEMMA BootInv == ASSUME Inv, Boot PROVE Inv'
  <1> DEFINE bootstrap == Loaded.lkg = None /\ store[BootDir] # None
             e == IF bootstrap THEN Bootstrapped(Loaded) ELSE Loaded
  <1>1. EngineInv(file.eng, approved) /\ TypeOK /\ FloorHeld /\ Held
    BY DEF Inv, Held
  <1>2. EngineInv(Loaded, approved)
    BY <1>1, InitEngineInv DEF Loaded
  <1>3. /\ EngineInv(e, approved) /\ e.floor = Loaded.floor
        /\ e.active = Loaded.active /\ e.state = Loaded.state
    BY <1>2, BootstrappedInv
  <1>4. /\ e \in Engines
        /\ Persisted(e) \in [present: BOOLEAN, eng: Engines]
        /\ Persisted(e).present /\ EngineInv(Persisted(e).eng, approved)
        /\ Persisted(e).eng.floor = e.floor
    BY <1>3, EngineTyped, PersistedInv
  <1> HIDE DEF e
  <1>5. /\ pc = "off" /\ engine' = e /\ previous' = e /\ op' = "boot"
        /\ file' \in {file, Persisted(e)} /\ (faults' = faults \/ Fault)
        /\ pc' \in {"up", "reconcile", "clear"}
        /\ pc' = "reconcile" => e.active /\ e.state = "Activating"
        /\ UNCHANGED <<markerVars, updaterVars, flashVars, resetDue, history>>
    BY DEF Boot, e
  <1>6. faults' \in 0..MaxFaults
    BY <1>1, <1>5, FaultTyped DEF TypeOK
  <1>7. TypeOK'
    BY <1>1, <1>4, <1>5, <1>6
       DEF TypeOK, markerVars, updaterVars, flashVars, history
  <1>8. Held'
    BY <1>1, <1>3, <1>4, <1>5 DEF Held, updaterVars, history
  <1>9. Resumable'
    BY <1>5 DEF Resumable, Promoting
  <1>10. ASSUME ~lost PROVE \A c \in healthy: e.floor >= Seq[c]
    BY <1>1, <1>3, <1>5, <1>10 DEF FloorHeld, Covers, Loaded
  <1>11. FloorHeld'
    BY <1>1, <1>4, <1>5, <1>10 DEF FloorHeld, Covers, history
  <1>12. QED
    BY <1>7, <1>8, <1>9, <1>11 DEF Inv

\* The health of the candidate is accepted and the floor rises.
LEMMA AcceptHealthInv == ASSUME Inv, AcceptHealth PROVE Inv'
  <1>1. /\ EngineInv(engine, approved) /\ TypeOK /\ pc = "reconcile"
        /\ engine.active /\ engine.state = "Activating"
        /\ Installable(pointer, approved)
    BY DEF Inv, Held, Resumable, AcceptHealth
  <1>2. /\ engine.cand \in Candidates /\ engine.cand \in approved
        /\ engine.floor \in Nat /\ Seq[engine.cand] \in Nat
    BY <1>1, Constants DEF EngineInv, Begun, ArmsApproved, Engines
  <1>3. /\ EngineInv(Promoted(engine), approved)
        /\ Promoted(engine).floor = Seq[engine.cand]
        /\ Promoted(engine).floor > engine.floor
        /\ Promoted(engine).cand = engine.cand
    BY <1>1, PromotedInv
  <1>4. /\ StartSave(Promoted(engine), "boot") /\ complete = engine.cand
        /\ UNCHANGED <<file, markerVars, updaterVars, flashVars, resetDue,
                       faults, history>>
    BY DEF AcceptHealth, Accepted, HealthCompleted
  <1>5. /\ bootMode' \in {"Normal", "PreUpdate", "Update", "PostUpdate"}
        /\ pointer' \in Dirs \cup {None} /\ Installable(pointer', approved)
        /\ store' \in [Dirs -> Firmware \cup {None}]
        /\ faults' \in 0..MaxFaults
        /\ UNCHANGED <<file, markerVars, running, resetDue, approved, healthy,
                       lost>>
    BY <1>1, <1>4 DEF TypeOK, updaterVars, flashVars, history
  <1>6. /\ Promoted(engine).floor \in Nat
        /\ Promoted(engine).floor >= engine.floor
    BY <1>2, <1>3
  <1>7. QED
    BY <1>1, <1>2, <1>3, <1>4, <1>5, <1>6, StartSaveInv

\* The health is not accepted: back to the known-good image, or quarantine.
LEMMA ReconcileFailsInv ==
  ASSUME Inv, RearmLastKnownGood \/ QuarantineAtBoot PROVE Inv'
  <1>1. /\ EngineInv(engine, approved) /\ TypeOK /\ pc = "reconcile"
        /\ engine.active /\ engine.floor \in Nat
        /\ Installable(pointer, approved) /\ Installable(engine.lkg, approved)
        /\ engine.lkg \in Dirs \cup {None}
    BY DEF Inv, Held, Resumable, RearmLastKnownGood, QuarantineAtBoot,
           EngineInv, ArmsApproved, Engines
  <1>2. CASE RearmLastKnownGood
    <2>1. /\ StartSave(Closed(engine, "RolledBack"), "rearm")
          /\ pointer' = engine.lkg /\ bootMode' = "PreUpdate"
          /\ store' = store /\ faults' = faults
          /\ UNCHANGED <<file, markerVars, running, resetDue, approved,
                         healthy, lost>>
      BY <1>2 DEF RearmLastKnownGood, Prepare, flashVars, history
    <2>2. /\ store' \in [Dirs -> Firmware \cup {None}]
          /\ faults' \in 0..MaxFaults
          /\ pointer' \in Dirs \cup {None} /\ Installable(pointer', approved)
      BY <1>1, <2>1 DEF TypeOK
    <2>3. /\ EngineInv(Closed(engine, "RolledBack"), approved)
          /\ Closed(engine, "RolledBack").floor = engine.floor
      BY <1>1, ClosedInv
    <2>4. QED
      BY <1>1, <2>1, <2>2, <2>3, StartSaveInv
  <1>3. CASE QuarantineAtBoot
    <2>1. /\ StartSave(Closed(engine, "Quarantined"), "boot")
          /\ pointer' \in {pointer, engine.lkg} /\ bootMode' = bootMode
          /\ store' = store /\ (faults' = faults \/ Fault)
          /\ UNCHANGED <<file, markerVars, running, resetDue, approved,
                         healthy, lost>>
      BY <1>3 DEF QuarantineAtBoot, flashVars, history
    <2>2. faults' \in 0..MaxFaults
      BY <1>1, <2>1, FaultTyped DEF TypeOK
    <2>3. /\ store' \in [Dirs -> Firmware \cup {None}]
          /\ bootMode' \in {"Normal", "PreUpdate", "Update", "PostUpdate"}
          /\ pointer' \in Dirs \cup {None} /\ Installable(pointer', approved)
      BY <1>1, <2>1 DEF TypeOK
    <2>4. /\ EngineInv(Closed(engine, "Quarantined"), approved)
          /\ Closed(engine, "Quarantined").floor = engine.floor
          /\ Closed(engine, "Quarantined").state = "Quarantined"
      BY <1>1, ClosedInv
    <2>5. QED
      BY <1>1, <2>1, <2>2, <2>3, <2>4, StartSaveInv
  <1>4. QED
    BY <1>2, <1>3

\* The markers are cleared only once the save has returned.
LEMMA ClearMarkersInv == ASSUME Inv, ClearMarkers PROVE Inv'
  <1>1. TypeOK'
    BY DEF Inv, TypeOK, ClearMarkers, updaterVars, flashVars, history
  <1>2. Held'
    BY DEF Inv, Held, ClearMarkers, updaterVars, history
  <1>3. Resumable' /\ FloorHeld'
    BY DEF Inv, Resumable, Promoting, FloorHeld, Covers, ClearMarkers, history
  <1>4. QED
    BY <1>1, <1>2, <1>3 DEF Inv

\* A reset of any kind loses RAM, and in the middle of a copy the state file.
LEMMA ResetsInv ==
  ASSUME Inv,
         Reset \/ PowerCut \/ ResetTimer \/ RebootNormal \/ RebootUpdateStart
  PROVE  Inv'
  <1>1. TypeOK /\ Held /\ FloorHeld
    BY DEF Inv
  <1>2. /\ PowerOff /\ (faults' = faults \/ Fault)
        /\ bootMode' \in {bootMode, "Normal", "PreUpdate"}
        /\ pointer' \in {pointer, None}
    BY DEF Reset, PowerCut, ResetTimer, RebootNormal, RebootUpdateStart,
           Disarm, updaterVars
  <1>3. faults' \in 0..MaxFaults
    BY <1>1, <1>2, FaultTyped DEF TypeOK
  <1>4. EngineInv(InitEngine, approved) /\ InitEngine \in Engines
    BY InitEngineInv, EngineTyped
  <1>5. TypeOK'
    BY <1>1, <1>2, <1>3, <1>4 DEF TypeOK, PowerOff
  <1>6. Held'
    BY <1>1, <1>2, <1>4 DEF Held, PowerOff, Installable
  <1>7. Resumable' /\ FloorHeld'
    BY <1>1, <1>2 DEF TypeOK, Resumable, Promoting, FloorHeld, Covers, PowerOff
  <1>8. QED
    BY <1>5, <1>6, <1>7 DEF Inv

\* The stages of the updater never touch the engine's state file, except by
\* losing /int as a whole.
LEMMA UpdaterInv ==
  ASSUME Inv, PreUpdate \/ FlashWriter \/ UpdateAbandoned \/ PostUpdate
              \/ PostUpdateAbandoned
  PROVE  Inv'
  <1>1. TypeOK /\ Held /\ FloorHeld /\ Resumable
    BY DEF Inv
  <1>2. /\ pc = "off" /\ UNCHANGED updaterUnchanged
        /\ bootMode' \in {"Normal", "PreUpdate", "Update", "PostUpdate"}
        /\ pointer' \in {pointer, None} /\ store' = store
        /\ faults' = faults \/ Fault
        /\ pending' \in Candidates \cup {None, Torn}
        /\ complete' \in Candidates \cup {None}
        /\ \/ file' = file /\ lost' = lost
           \/ file' = NoFile /\ lost' = TRUE
    BY <1>1 DEF PreUpdate, FlashWriter, UpdateAbandoned, PostUpdate,
           PostUpdateAbandoned, Disarm, TypeOK, markerVars, flashVars
  <1>3. running' \in Firmware
    <2>1. CASE FlashWriter
      BY <1>1, <2>1 DEF FlashWriter, TypeOK
    <2>2. CASE ~FlashWriter
      BY <1>1, <2>2 DEF PreUpdate, UpdateAbandoned, PostUpdate,
           PostUpdateAbandoned, TypeOK, flashVars
    <2>3. QED
      BY <2>1, <2>2
  <1>4. faults' \in 0..MaxFaults
    BY <1>1, <1>2, FaultTyped DEF TypeOK
  <1>5. /\ file' \in [present: BOOLEAN, eng: Engines]
        /\ EngineInv(file'.eng, approved)
    BY <1>1, <1>2, NoFileInv DEF TypeOK, Held
  <1>6. TypeOK'
    BY <1>1, <1>2, <1>3, <1>4, <1>5 DEF TypeOK, updaterUnchanged
  <1>7. Held'
    BY <1>1, <1>2, <1>5 DEF Held, Installable, updaterUnchanged
  <1>8. Resumable'
    BY <1>2 DEF Resumable, Promoting, updaterUnchanged
  <1>9. FloorHeld'
    BY <1>1, <1>2 DEF FloorHeld, Covers, updaterUnchanged
  <1>10. QED
    BY <1>6, <1>7, <1>8, <1>9 DEF Inv

------------------------------------------------------------------------------
(* The theorems *)

\* Every step keeps the invariant.
LEMMA NextInv == Inv /\ [Next]_vars => Inv'
  <1> SUFFICES ASSUME Inv, [Next]_vars PROVE Inv'
    OBVIOUS
  <1>1. CASE ClientRequest
    BY <1>1, SimpleRequestsInv, VerifyInv, RollbackInv, RefusedInv, PromptInv
       DEF ClientRequest
  <1>2. CASE HandlerStep
    BY <1>2, WritePendingInv, WritePendingFailsInv, SaveFailsInv,
       RemoveOldFileInv, CopyNewFileInv, CopyNewFileShortInv DEF HandlerStep
  <1>3. CASE BootStep
    BY <1>3, BootInv, AcceptHealthInv, ReconcileFailsInv, ClearMarkersInv,
       UpdaterInv DEF BootStep
  <1>4. CASE Expire
    BY <1>4, ExpireInv
  <1>5. CASE Reset \/ PowerCut \/ ResetTimer \/ RebootNormal
             \/ RebootUpdateStart
    BY <1>5, ResetsInv
  <1>6. CASE UNCHANGED vars
    BY <1>6 DEF vars, Inv, TypeOK, Held, Resumable, Promoting, FloorHeld,
                Covers
  <1>7. CASE Answer
    BY <1>7, PromptInv, PromptApprovedInv DEF Answer
  <1>8. QED
    BY <1>1, <1>2, <1>3, <1>4, <1>5, <1>6, <1>7 DEF Next

\* The invariant holds throughout.
THEOREM Invariance == Spec => []Inv
  BY InitInv, NextInv, PTL DEF Spec

\* Every value stays in its type, in particular received within the size of
\* the content (poison_content_update_receive).
THEOREM TypeCorrect == Spec => []TypeOK
  <1>1. Inv => TypeOK
    BY DEF Inv
  <1>2. QED
    BY Invariance, <1>1, PTL

\* A transaction that has not been activated yet stays above the floor it was
\* admitted against, through every save, failed save, reload and restore.
THEOREM AlwaysAboveFloor == Spec => []SequenceAboveFloor
  <1>1. Inv => SequenceAboveFloor
    BY DEF Inv, Held, EngineInv, SequenceAboveFloor
  <1>2. QED
    BY Invariance, <1>1, PTL

\* The outstanding token is always for the candidate the engine holds, so the
\* approval that rpc_poison_content_update_activate takes is for that one.
THEOREM TokenIsExact == Spec => []ConfirmationBindsCandidate
  <1>1. Inv => ConfirmationBindsCandidate
    BY DEF Inv, Held, EngineInv, TokenBound, ConfirmationBindsCandidate
  <1>2. QED
    BY Invariance, <1>1, PTL

\* As long as the state file has not been lost, a device that is up has a
\* floor that covers every release whose health it has accepted.
THEOREM FloorIsKept == Spec => []FloorKept
  <1>1. Inv => FloorKept
    BY DEF Inv, FloorHeld, Covers, FloorKept
  <1>2. QED
    BY Invariance, <1>1, PTL

\* Health is recorded only for an approved candidate whose own completion
\* marker is still on disk when the save that records it returns.
THEOREM HealthIsMarked == Spec => HealthNeedsMarker
  <1> DEFINE Marked ==
        \A c \in healthy' \ healthy: complete = c /\ c \in approved
  <1>1. ASSUME Inv, [Next]_vars PROVE [Marked]_vars
    <2>1. CASE CopyNewFile \/ CopyNewFileShort
      BY <1>1, <2>1 DEF Inv, Resumable, Promoting, CopyNewFile, CopyNewFileShort,
                        Saved, markerVars
    <2>2. CASE ~CopyNewFile /\ ~CopyNewFileShort
      <3>1. healthy' = healthy
        BY <1>1, <2>2
           DEF Next, vars, ClientRequest, Answer, HandlerStep, BootStep, Import,
               Request, Stage, Cancel, Quarantine, Verify, VerifyFails, Prompt,
               Rollback, RefusedRequest, PromptRefused, PromptApproved,
               WritePending, WritePendingFails, SavePartialFails, NotSaved,
               RemoveOldFile, CopyNewFileFails, Boot, AcceptHealth,
               RearmLastKnownGood, QuarantineAtBoot, ClearMarkers, PreUpdate,
               FlashWriter, UpdateAbandoned, PostUpdate, PostUpdateAbandoned,
               updaterUnchanged, Expire, Reset, PowerCut, ResetTimer,
               RebootNormal, RebootUpdateStart, PowerOff, history
      <3>2. QED
        BY <3>1
    <2>3. QED
      BY <2>1, <2>2
  <1>2. Inv /\ [Next]_vars => [Marked]_vars
    BY <1>1
  <1> HIDE DEF Marked
  <1>3. Spec => [][Marked]_vars
    BY Invariance, <1>2, PTL DEF Spec
  <1>4. QED
    BY <1>3 DEF Marked, HealthNeedsMarker

------------------------------------------------------------------------------
(* What is on the card and in flash, when versions are distinct *)

\* A directory holds what its name says, or nothing; the shipped image is
\* never overwritten.
CardInv ==
    /\ store[BootDir] = Bootstrap
    /\ \A c \in Candidates: store[Dir[c]] \in {c, None}
    /\ RunsApproved

\* The card of a device as shipped.
LEMMA InitCard == Init => CardInv
  BY Constants DEF Init, CardInv, RunsApproved

\* An archive is only ever extracted into its own directory.
LEMMA ExtractCard ==
  ASSUME DistinctVersions, TypeOK, CardInv, NEW c \in Candidates,
         NEW f \in {c, None}, store' = [store EXCEPT ![Dir[c]] = f],
         running' = running, approved \subseteq approved'
  PROVE  CardInv'
  <1>1. store'[BootDir] = Bootstrap
    BY Constants DEF TypeOK, CardInv
  <1>2. ASSUME NEW d \in Candidates PROVE store'[Dir[d]] \in {d, None}
    <2>1. CASE d = c
      BY <2>1, Constants DEF TypeOK
    <2>2. CASE d # c
      <3>1. Dir[d] # Dir[c]
        BY <2>2 DEF DistinctVersions
      <3>2. QED
        BY <3>1, Constants DEF TypeOK, CardInv
    <2>3. QED
      BY <2>1, <2>2
  <1>3. QED
    BY <1>1, <1>2 DEF CardInv, RunsApproved

\* The updater installs what the armed directory holds.
LEMMA FlashCard ==
  ASSUME Inv, CardInv, FlashWriter PROVE CardInv'
  <1>1. /\ pointer # None /\ store[pointer] # None
        /\ running' = store[pointer] /\ store' = store /\ approved' = approved
    BY DEF FlashWriter, updaterUnchanged
  <1>2. Installable(pointer, approved) /\ approved \subseteq Candidates
    BY DEF Inv, Held, TypeOK
  <1>3. running' \in approved \cup {Bootstrap}
    BY <1>1, <1>2 DEF Installable, CardInv
  <1>4. QED
    BY <1>1, <1>3 DEF CardInv, RunsApproved

\* Every step keeps what the card and the flash hold.
LEMMA NextCard ==
  ASSUME DistinctVersions, Inv, CardInv, [Next]_vars PROVE CardInv'
  <1>1. TypeOK
    BY DEF Inv
  <1>2. CASE FlashWriter
    BY <1>2, FlashCard
  <1>3. CASE \E c \in Candidates: VerifyFails(c)
    BY <1>1, <1>3, ExtractCard DEF VerifyFails, history
  <1>4. CASE \E s \in Sessions, c \in Candidates: Verify(s, c)
    BY <1>1, <1>4, ExtractCard DEF Verify, history
  <1>5. CASE /\ ~FlashWriter /\ ~(\E c \in Candidates: VerifyFails(c))
             /\ ~(\E s \in Sessions, c \in Candidates: Verify(s, c))
    <2>1. /\ store' = store /\ running' = running
          /\ approved \subseteq approved'
      BY <1>5
         DEF Next, vars, ClientRequest, Answer, HandlerStep, BootStep, Import,
             Request, Stage, Cancel, Quarantine, Prompt,
             Rollback, RefusedRequest, PromptRefused, PromptApproved,
             WritePending, WritePendingFails, SavePartialFails, RemoveOldFile,
             CopyNewFile, CopyNewFileShort, CopyNewFileFails,
             Boot, AcceptHealth, Saved, NotSaved,
             RearmLastKnownGood, QuarantineAtBoot, ClearMarkers, PreUpdate,
             UpdateAbandoned, PostUpdate, PostUpdateAbandoned,
             updaterUnchanged, Expire, Reset, PowerCut, ResetTimer,
             RebootNormal, RebootUpdateStart, PowerOff, history, flashVars
    <2>2. QED
      BY <2>1 DEF CardInv, RunsApproved
  <1>6. QED
    BY <1>2, <1>3, <1>4, <1>5

\* ... throughout.
LEMMA CardInvariance == DistinctVersions => (Spec => []CardInv)
  <1> SUFFICES ASSUME DistinctVersions PROVE Spec => []CardInv
    OBVIOUS
  <1>1. Inv /\ CardInv /\ [Next]_vars => CardInv'
    BY NextCard
  <1>2. QED
    BY InitCard, Invariance, <1>1, PTL DEF Spec

\* If the releases carry distinct versions, the device only ever runs the
\* shipped firmware or a candidate approved on its own screen, across every
\* crash, refused request, failed save and abandoned update.
THEOREM AlwaysRunsApproved == DistinctVersions => (Spec => []RunsApproved)
  <1>1. CardInv => RunsApproved
    BY DEF CardInv
  <1>2. QED
    BY CardInvariance, <1>1, PTL

\* Under the same condition, what a rollback would install is the firmware
\* whose digest is the accepted one.
THEOREM KnownGoodIsInStep ==
    DistinctVersions => (Spec => []KnownGoodMatchesAccepted)
  <1>1. ASSUME NEW e, EngineInv(e, approved), CardInv
        PROVE  KnownGoodIsAccepted(e)
    BY <1>1, Constants
       DEF EngineInv, Engines, KnownGood, DirOf, Firmware, CardInv,
           KnownGoodIsAccepted
  <1>2. Inv /\ CardInv => KnownGoodMatchesAccepted
    BY <1>1 DEF Inv, Held, KnownGoodMatchesAccepted
  <1>3. QED
    BY Invariance, CardInvariance, <1>2, PTL

=============================================================================
