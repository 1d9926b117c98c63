---------------------------- MODULE ExportsProofs ----------------------------
(***************************************************************************)
(* For any number of sessions, export ids, batches and power cuts: a       *)
(* manifest in place is the one its digest was computed over, unless two   *)
(* sessions had its export open at once; and a session answers a retry     *)
(* with its digest, unless that or a rename cut short came between.        *)
(*                                                                         *)
(* A request changes the files and the session in two moves, as the code   *)
(* does: it drops or begins an export, then it takes the batch. The        *)
(* invariant is therefore an operator of the temporary files T, the        *)
(* manifests F, the sessions X, the shared ids S and the ids H cut short,  *)
(* and each move keeps it.                                                 *)
(***************************************************************************)
EXTENDS Exports, TLAPS, SequenceTheorems

TempFiles == [header : BOOLEAN, ids : Seq(Ids)]
Manifests == [header : BOOLEAN, ids : Seq(Ids), hash : Seq(Ids)]

Increasing(q) == \A i \in 2 .. Len(q) : q[i - 1] < q[i]

\* What an export may have hashed so far.
Hashed == {q \in Seq(Ids) : Increasing(q) /\ ToSet(q) \subseteq records}

States ==
    [active : BOOLEAN, completed : BOOLEAN,
     export_id : ExportIds \cup {NoExport}, next_batch : Nat, hash : Hashed,
     last : Batches \cup {NoBatch}]

Bounded(X) ==
    \A s \in Sessions :
        /\ X[s].active \/ X[s].completed => X[s].export_id \in ExportIds
        /\ ~(X[s].active /\ X[s].completed)
        /\ Len(X[s].hash) <= MaxEvidence
        /\ X[s].next_batch <= Len(X[s].hash)

\* An export that is not shared is open in one session,
Sole(X, S) ==
    \A s, u \in Sessions :
        /\ X[s].active /\ X[u].active
        /\ X[s].export_id = X[u].export_id /\ X[s].export_id \notin S
        => s = u

\* which alone writes its temporary file, before there is a manifest.
Own(T, F, X, S) ==
    \A s \in Sessions : X[s].active /\ X[s].export_id \notin S =>
        /\ F[X[s].export_id] = Absent
        /\ T[X[s].export_id] # Absent
        /\ T[X[s].export_id].header
        /\ T[X[s].export_id].ids = X[s].hash

Whole(F, S) ==
    \A x \in ExportIds : F[x] \notin {Absent, Torn} /\ x \notin S =>
        F[x].header /\ F[x].ids = F[x].hash /\ F[x].hash \in Hashed

Current(F, X, S, H) ==
    \A s \in Sessions : X[s].completed /\ X[s].export_id \notin S \cup H =>
        /\ F[X[s].export_id] \notin {Absent, Torn}
        /\ F[X[s].export_id].hash = X[s].hash

Good(T, F, X, S, H) ==
    /\ T \in [ExportIds -> TempFiles \cup {Absent}]
    /\ F \in [ExportIds -> Manifests \cup {Absent, Torn}]
    /\ X \in [Sessions -> States]
    /\ Bounded(X)
    /\ Sole(X, S)
    /\ Own(T, F, X, S)
    /\ Whole(F, S)
    /\ Current(F, X, S, H)

ExportsInv == records \subseteq Ids /\ Good(temp, final, ex, shared, short)

------------------------------------------------------------------------------
(* Sequences of ids *)

\* A batch that is sorted and begins above what was hashed keeps it so.
LEMMA HashedConcat ==
    ASSUME NEW h \in Hashed, NEW ids \in Seq(Ids), ids # <<>>,
           \A i \in 1 .. Len(ids) : ids[i] \in records,
           Increasing(ids),
           h # <<>> => Last(h) < Head(ids)
    PROVE  /\ h \o ids \in Hashed
           /\ Len(h \o ids) = Len(h) + Len(ids) /\ Len(ids) >= 1
<1>1. /\ h \in Seq(Ids) /\ h \o ids \in Seq(Ids)
      /\ Len(h) \in Nat /\ Len(ids) \in Nat /\ Len(ids) >= 1
      /\ Len(h \o ids) = Len(h) + Len(ids)
  BY ConcatProperties, EmptySeq, LenProperties DEF Hashed
<1>2. \A i \in 1 .. Len(h) + Len(ids) :
        (h \o ids)[i] = IF i <= Len(h) THEN h[i] ELSE ids[i - Len(h)]
  BY <1>1, ConcatProperties
<1>3. Increasing(h \o ids)
  <2> SUFFICES ASSUME NEW i \in 2 .. Len(h) + Len(ids)
               PROVE  (h \o ids)[i - 1] < (h \o ids)[i]
    BY <1>1 DEF Increasing
  <2>1. CASE i <= Len(h)
    BY <1>1, <1>2, <2>1 DEF Hashed, Increasing
  <2>2. CASE i = Len(h) + 1
    <3>1. h # <<>> /\ (h \o ids)[i - 1] = Last(h)
      BY <1>1, <1>2, <2>2 DEF Last
    <3>2. (h \o ids)[i] = Head(ids)
      BY <1>1, <1>2, <2>2
    <3> QED  BY <3>1, <3>2
  <2>3. CASE i > Len(h) + 1
    <3>1. i - Len(h) \in 2 .. Len(ids) /\ i - 1 - Len(h) = (i - Len(h)) - 1
      BY <1>1, <2>3
    <3>2. /\ (h \o ids)[i - 1] = ids[(i - Len(h)) - 1]
          /\ (h \o ids)[i] = ids[i - Len(h)]
      BY <1>1, <1>2, <2>3, <3>1
    <3> QED  BY <3>1, <3>2 DEF Increasing
  <2> QED  BY <1>1, <2>1, <2>2, <2>3
<1>4. ToSet(h \o ids) \subseteq records
  <2> SUFFICES ASSUME NEW i \in 1 .. Len(h) + Len(ids)
               PROVE  (h \o ids)[i] \in records
    BY <1>1 DEF ToSet
  <2>1. CASE i <= Len(h)
    <3>1. i \in DOMAIN h /\ (h \o ids)[i] = h[i]
      BY <1>1, <1>2, <2>1
    <3> QED  BY <3>1 DEF Hashed, ToSet
  <2>2. CASE i > Len(h)
    <3>1. i - Len(h) \in 1 .. Len(ids) /\ (h \o ids)[i] = ids[i - Len(h)]
      BY <1>1, <1>2, <2>2
    <3> QED  BY <3>1
  <2> QED  BY <1>1, <2>1, <2>2
<1> QED  BY <1>1, <1>3, <1>4 DEF Hashed

\* An empty export has hashed nothing.
LEMMA FreshTyped ==
    /\ Fresh \in States /\ ~Fresh.active /\ ~Fresh.completed
    /\ Fresh.hash = <<>> /\ Fresh.next_batch = 0
    /\ \A x \in ExportIds :
         /\ Begun(x) \in States /\ Begun(x).active /\ ~Begun(x).completed
         /\ Begun(x).export_id = x /\ Begun(x).hash = <<>>
         /\ Begun(x).next_batch = 0
<1>1. <<>> \in Hashed
  BY DEF Hashed, Increasing, ToSet
<1>2. Fresh \in States
  BY <1>1 DEF Fresh, States
<1> QED  BY <1>2 DEF Fresh, Begun, States

------------------------------------------------------------------------------
(* The moves of a request *)

\* rpc_poison_evidence_export_reset: the session's export is dropped with its
\* temporary file.
LEMMA DropGood ==
    ASSUME NEW T, NEW F, NEW X, NEW S, NEW H, Good(T, F, X, S, H), NEW s \in Sessions
    PROVE  Good(ResetFile(X[s], T), F, [X EXCEPT ![s] = Fresh], S, H)
<1>1. PICK Y, U : Y = [X EXCEPT ![s] = Fresh] /\ U = ResetFile(X[s], T)
  OBVIOUS
<1>2. /\ X \in [Sessions -> States] /\ Y \in [Sessions -> States]
      /\ Y[s] = Fresh /\ \A u \in Sessions : u # s => Y[u] = X[u]
  BY <1>1, FreshTyped DEF Good
<1>3. /\ U \in [ExportIds -> TempFiles \cup {Absent}]
      /\ \A x \in ExportIds :
           ~(X[s].active /\ X[s].export_id = x) => U[x] = T[x]
  BY <1>1 DEF Good, ResetFile
<1>4. Bounded(Y)
  BY <1>2, FreshTyped, ExportsAssumption DEF Good, Bounded
<1>5. Sole(Y, S)
  BY <1>2, FreshTyped DEF Good, Sole
<1>6. Own(U, F, Y, S)
  <2> SUFFICES ASSUME NEW u \in Sessions, Y[u].active, Y[u].export_id \notin S
               PROVE  /\ F[Y[u].export_id] = Absent
                      /\ U[Y[u].export_id] # Absent
                      /\ U[Y[u].export_id].header
                      /\ U[Y[u].export_id].ids = Y[u].hash
    BY DEF Own
  <2>1. u # s /\ Y[u] = X[u]
    BY <1>2, FreshTyped
  <2>2. X[u].export_id \in ExportIds
    BY <2>1 DEF Good, Bounded
  <2>3. ~(X[s].active /\ X[s].export_id = X[u].export_id)
    BY <2>1 DEF Good, Sole
  <2>4. U[X[u].export_id] = T[X[u].export_id]
    BY <1>3, <2>2, <2>3
  <2> QED  BY <2>1, <2>4 DEF Good, Own
<1>7. Current(F, Y, S, H)
  BY <1>2, FreshTyped DEF Good, Current
<1> QED  BY <1>1, <1>2, <1>3, <1>4, <1>5, <1>6, <1>7 DEF Good

\* rpc_poison_export_begin: the session is the only one that has the export
\* open, or the export is shared from now on.
LEMMA BeginGood ==
    ASSUME NEW T, NEW F, NEW X, NEW S, NEW H, Good(T, F, X, S, H), NEW s \in Sessions,
           NEW x \in ExportIds, F[x] = Absent, NEW Z,
           S \subseteq Z,
           x \in Z \/ \A u \in Sessions \ {s} :
                        ~(X[u].active /\ X[u].export_id = x)
    PROVE  Good([ResetFile(X[s], T) EXCEPT ![x] = Header], F,
                [X EXCEPT ![s] = Begun(x)], Z, H)
<1>1. PICK Y, U : /\ Y = [X EXCEPT ![s] = Begun(x)]
                  /\ U = [ResetFile(X[s], T) EXCEPT ![x] = Header]
  OBVIOUS
<1>2. /\ X \in [Sessions -> States] /\ Y \in [Sessions -> States]
      /\ Y[s] = Begun(x) /\ \A u \in Sessions : u # s => Y[u] = X[u]
  BY <1>1, FreshTyped DEF Good
<1>3. Header \in TempFiles /\ Header # Absent /\ Header.header
      /\ Header.ids = <<>>
  <2>1. Header \in TempFiles /\ Header.header /\ Header.ids = <<>>
    BY DEF Header, TempFiles
  <2>2. Absent \notin TempFiles
    BY ExportsAssumption, Zenon DEF TempFiles
  <2> QED  BY <2>1, <2>2
<1>4. /\ U \in [ExportIds -> TempFiles \cup {Absent}]
      /\ U[x] = Header
      /\ \A y \in ExportIds \ {x} :
           ~(X[s].active /\ X[s].export_id = y) => U[y] = T[y]
  BY <1>1, <1>3 DEF Good, ResetFile
<1>5. Bounded(Y)
  BY <1>2, FreshTyped, ExportsAssumption DEF Good, Bounded
<1>6. Sole(Y, Z)
  <2> SUFFICES ASSUME NEW u \in Sessions, NEW v \in Sessions,
                      Y[u].active, Y[v].active,
                      Y[u].export_id = Y[v].export_id, Y[u].export_id \notin Z
               PROVE  u = v
    BY DEF Sole
  <2>1. CASE u # s /\ v # s
    BY <1>2, <2>1 DEF Good, Sole
  <2>2. CASE u = s \/ v = s
    <3>1. x \notin Z /\ Y[u].export_id = x /\ Y[v].export_id = x
      BY <1>2, <2>2, FreshTyped
    <3> QED  BY <1>2, <2>2, <3>1
  <2> QED  BY <2>1, <2>2
<1>7. Own(U, F, Y, Z)
  <2> SUFFICES ASSUME NEW u \in Sessions, Y[u].active, Y[u].export_id \notin Z
               PROVE  /\ F[Y[u].export_id] = Absent
                      /\ U[Y[u].export_id] # Absent
                      /\ U[Y[u].export_id].header
                      /\ U[Y[u].export_id].ids = Y[u].hash
    BY DEF Own
  <2>1. CASE u = s
    BY <1>2, <1>3, <1>4, <2>1, FreshTyped
  <2>2. CASE u # s
    <3>1. Y[u] = X[u] /\ X[u].export_id \in ExportIds /\ X[u].export_id # x
      BY <1>2, <2>2 DEF Good, Bounded
    <3>2. ~(X[s].active /\ X[s].export_id = X[u].export_id)
      BY <2>2, <3>1 DEF Good, Sole
    <3>3. U[X[u].export_id] = T[X[u].export_id]
      BY <1>4, <3>1, <3>2
    <3> QED  BY <3>1, <3>3 DEF Good, Own
  <2> QED  BY <2>1, <2>2
<1>8. Whole(F, Z)
  BY DEF Good, Whole
<1>9. Current(F, Y, Z, H)
  BY <1>2, FreshTyped DEF Good, Current
<1> QED  BY <1>1, <1>2, <1>4, <1>5, <1>6, <1>7, <1>8, <1>9 DEF Good

\* What a batch that is admitted makes of the session and of its file.
LEMMA CountedGood ==
    ASSUME NEW T, NEW F, NEW X, NEW S, NEW H, Good(T, F, X, S, H), NEW s \in Sessions,
           X[s].active, NEW b \in Batches, Admits(X[s], b)
    PROVE  LET c == Counted(X[s], b)
               f == Appended(T[X[s].export_id], b.ids)
           IN /\ c \in States /\ c.export_id = X[s].export_id
              /\ c.active /\ c.completed = X[s].completed
              /\ Len(c.hash) <= MaxEvidence /\ c.next_batch <= Len(c.hash)
              /\ f \in TempFiles
              /\ X[s].export_id \notin S => f.header /\ f.ids = c.hash
<1> DEFINE c == Counted(X[s], b)
           f == Appended(T[X[s].export_id], b.ids)
<1>1. b.ids \in Seq(Ids) /\ b.ids # <<>>
  BY DEF Batches, SeqOf
<1>2. X[s] \in States /\ X[s].hash \in Hashed /\ X[s].next_batch \in Nat
      /\ X[s].next_batch <= Len(X[s].hash) /\ X[s].export_id \in ExportIds
  BY DEF Good, States, Bounded
<1>3. /\ X[s].hash \o b.ids \in Hashed
      /\ Len(X[s].hash \o b.ids) = Len(X[s].hash) + Len(b.ids)
      /\ Len(b.ids) >= 1
  BY <1>1, <1>2, HashedConcat DEF Admits, Sorted, Increasing
<1>4. /\ c \in States /\ c.hash = X[s].hash \o b.ids
      /\ c.next_batch = X[s].next_batch + 1 /\ c.export_id = X[s].export_id
      /\ c.active /\ c.completed = X[s].completed
  <2>1. PICK e, h, m : e = X[s] /\ h = X[s].hash \o b.ids
                       /\ m = X[s].next_batch + 1
    OBVIOUS
  <2>2. c = [e EXCEPT !.hash = h, !.last = b, !.next_batch = m]
    BY <1>2, <2>1 DEF Counted, States
  <2>3. e \in States /\ h \in Hashed /\ m \in Nat /\ e.active
    BY <1>2, <1>3, <2>1
  <2>4. /\ c \in States /\ c.hash = h /\ c.next_batch = m
        /\ c.export_id = e.export_id /\ c.active = e.active
        /\ c.completed = e.completed
    BY <2>2, <2>3 DEF States
  <2> QED  BY <2>1, <2>3, <2>4
<1>5. Len(X[s].hash) \in Nat /\ Len(b.ids) \in Nat
  BY <1>1, <1>2 DEF Hashed
<1>6. Len(c.hash) <= MaxEvidence /\ c.next_batch <= Len(c.hash)
  <2> HIDE DEF c
  <2>1. Len(X[s].hash) + Len(b.ids) <= MaxEvidence
    BY DEF Admits
  <2>2. Len(c.hash) = Len(X[s].hash) + Len(b.ids)
    BY <1>3, <1>4
  <2>3. \A k, l, n \in Nat : n <= k /\ l >= 1 => n + 1 <= k + l
    OBVIOUS
  <2>4. X[s].next_batch + 1 <= Len(X[s].hash) + Len(b.ids)
    BY <1>2, <1>3, <1>5, <2>3
  <2>5. c.next_batch = X[s].next_batch + 1
    BY <1>4
  <2> QED  BY <2>1, <2>2, <2>4, <2>5
<1>7. T[X[s].export_id] \in TempFiles \cup {Absent}
  BY <1>2 DEF Good
<1>8. CASE T[X[s].export_id] = Absent
  <2>1. f \in TempFiles
    BY <1>1, <1>8 DEF Appended, TempFiles
  <2>2. X[s].export_id \in S
    BY <1>8 DEF Good, Own
  <2> QED  BY <1>4, <1>6, <2>1, <2>2
<1>9. CASE T[X[s].export_id] # Absent
  <2>1. PICK g \in TempFiles : g = T[X[s].export_id]
    BY <1>7, <1>9
  <2>2. f = [g EXCEPT !.ids = g.ids \o b.ids]
    BY <1>9, <2>1 DEF Appended
  <2>3. g.ids \o b.ids \in Seq(Ids)
    BY <1>1, <2>1 DEF TempFiles
  <2>4. f \in TempFiles /\ f.header = g.header /\ f.ids = g.ids \o b.ids
    BY <2>2, <2>3 DEF TempFiles
  <2>5. X[s].export_id \notin S => g.header /\ g.ids = X[s].hash
    BY <2>1 DEF Good, Own
  <2> QED  BY <1>4, <1>6, <2>4, <2>5
<1> QED  BY <1>8, <1>9

\* rpc_poison_export_append: the bytes go to the file and into the hash.
LEMMA AppendGood ==
    ASSUME NEW T, NEW F, NEW X, NEW S, NEW H, Good(T, F, X, S, H), NEW s \in Sessions,
           X[s].active, ~X[s].completed, NEW b \in Batches, Admits(X[s], b)
    PROVE  Good([T EXCEPT ![X[s].export_id] = Appended(@, b.ids)], F,
                [X EXCEPT ![s] = Counted(X[s], b)], S, H)
<1>1. PICK x, c, f : /\ x = X[s].export_id /\ c = Counted(X[s], b)
                     /\ f = Appended(T[x], b.ids)
  OBVIOUS
<1>2. /\ c \in States /\ c.export_id = x /\ c.active /\ ~c.completed
      /\ Len(c.hash) <= MaxEvidence /\ c.next_batch <= Len(c.hash)
      /\ f \in TempFiles
      /\ x \notin S => f.header /\ f.ids = c.hash
  BY <1>1, CountedGood
<1>3. x \in ExportIds /\ f # Absent
  <2>1. Absent \notin TempFiles
    BY ExportsAssumption, Zenon DEF TempFiles
  <2> QED  BY <1>1, <1>2, <2>1 DEF Good, Bounded
<1>4. PICK Y, U : Y = [X EXCEPT ![s] = c] /\ U = [T EXCEPT ![x] = f]
  OBVIOUS
<1>5. /\ Y \in [Sessions -> States] /\ Y[s] = c
      /\ \A u \in Sessions : u # s => Y[u] = X[u]
      /\ U \in [ExportIds -> TempFiles \cup {Absent}] /\ U[x] = f
      /\ \A y \in ExportIds : y # x => U[y] = T[y]
  BY <1>2, <1>3, <1>4 DEF Good
<1>6. Bounded(Y)
  BY <1>2, <1>3, <1>5 DEF Good, Bounded
<1>7. Sole(Y, S)
  BY <1>1, <1>2, <1>5 DEF Good, Sole
<1>8. Own(U, F, Y, S)
  <2> SUFFICES ASSUME NEW u \in Sessions, Y[u].active, Y[u].export_id \notin S
               PROVE  /\ F[Y[u].export_id] = Absent
                      /\ U[Y[u].export_id] # Absent
                      /\ U[Y[u].export_id].header
                      /\ U[Y[u].export_id].ids = Y[u].hash
    BY DEF Own
  <2>1. CASE u = s
    BY <1>1, <1>2, <1>3, <1>5, <2>1 DEF Good, Own
  <2>2. CASE u # s
    <3>1. Y[u] = X[u] /\ X[u].export_id \in ExportIds /\ X[u].export_id # x
      BY <1>1, <1>5, <2>2 DEF Good, Bounded, Sole
    <3> QED  BY <1>5, <3>1 DEF Good, Own
  <2> QED  BY <2>1, <2>2
<1>9. Current(F, Y, S, H)
  BY <1>2, <1>5 DEF Good, Current
<1> QED  BY <1>1, <1>4, <1>5, <1>6, <1>7, <1>8, <1>9 DEF Good

\* The last batch: the file becomes the manifest, whole or, when the rename
\* fails or is cut short, torn; the session is closed, with its digest or
\* without.
LEMMA FinishGood ==
    ASSUME NEW T, NEW F, NEW X, NEW S, NEW H, Good(T, F, X, S, H), NEW s \in Sessions,
           X[s].active, NEW b \in Batches, Admits(X[s], b),
           NEW Z, H \subseteq Z,
           NEW left \in {Torn, Finished(b, X[s], T)},
           NEW new \in States, ~new.active,
           \/ new = Fresh
           \/ /\ left # Torn \/ X[s].export_id \in Z
              /\ new.export_id = X[s].export_id
              /\ new.hash = Counted(X[s], b).hash
              /\ new.next_batch = Counted(X[s], b).next_batch
    PROVE  Good([T EXCEPT ![X[s].export_id] = Absent],
                [F EXCEPT ![X[s].export_id] = left],
                [X EXCEPT ![s] = new], S, Z)
<1>1. PICK x, c, f : /\ x = X[s].export_id /\ c = Counted(X[s], b)
                     /\ f = Appended(T[x], b.ids)
  OBVIOUS
<1>2. /\ c \in States /\ c.export_id = x
      /\ Len(c.hash) <= MaxEvidence /\ c.next_batch <= Len(c.hash)
      /\ f \in TempFiles
      /\ x \notin S => f.header /\ f.ids = c.hash
  BY <1>1, CountedGood
<1>3. x \in ExportIds
  BY <1>1 DEF Good, Bounded
<1>4. left \in {Torn, Manifest(f, c.hash)}
  BY <1>1 DEF Finished
<1>5. /\ Manifest(f, c.hash) \in Manifests
      /\ Manifest(f, c.hash).hash = c.hash /\ c.hash \in Hashed
      /\ x \notin S => /\ Manifest(f, c.hash).header
                       /\ Manifest(f, c.hash).ids = c.hash
  BY <1>2 DEF Manifest, Manifests, TempFiles, States, Hashed
<1>6. Manifest(f, c.hash) \notin {Absent, Torn}
  <2>1. {Absent, Torn} \cap Manifests = {}
    BY ExportsAssumption, Zenon DEF Manifests
  <2> QED  BY <1>5, <2>1
<1>7. PICK Y, U, E : /\ Y = [X EXCEPT ![s] = new]
                     /\ U = [T EXCEPT ![x] = Absent]
                     /\ E = [F EXCEPT ![x] = left]
  OBVIOUS
<1>8. /\ Y \in [Sessions -> States] /\ Y[s] = new
      /\ \A u \in Sessions : u # s => Y[u] = X[u]
      /\ U \in [ExportIds -> TempFiles \cup {Absent}]
      /\ \A y \in ExportIds : y # x => U[y] = T[y]
  BY <1>7 DEF Good
<1>9. /\ E \in [ExportIds -> Manifests \cup {Absent, Torn}] /\ E[x] = left
      /\ \A y \in ExportIds : y # x => E[y] = F[y]
  BY <1>3, <1>4, <1>5, <1>7 DEF Good
<1>10. Bounded(Y)
  <2>1. CASE new = Fresh
    BY <1>8, <2>1, FreshTyped, ExportsAssumption DEF Good, Bounded
  <2>2. CASE new # Fresh
    BY <1>1, <1>2, <1>3, <1>8, <2>2 DEF Good, Bounded
  <2> QED  BY <2>1, <2>2
<1>11. Sole(Y, S)
  BY <1>8 DEF Good, Sole
<1>12. Own(U, E, Y, S)
  <2> SUFFICES ASSUME NEW u \in Sessions, Y[u].active, Y[u].export_id \notin S
               PROVE  /\ E[Y[u].export_id] = Absent
                      /\ U[Y[u].export_id] # Absent
                      /\ U[Y[u].export_id].header
                      /\ U[Y[u].export_id].ids = Y[u].hash
    BY DEF Own
  <2>1. /\ u # s /\ Y[u] = X[u] /\ X[u].export_id \in ExportIds
        /\ X[u].export_id # x
    BY <1>1, <1>8 DEF Good, Bounded, Sole
  <2> QED  BY <1>8, <1>9, <2>1 DEF Good, Own
<1>13. Whole(E, S)
  BY <1>4, <1>5, <1>9 DEF Good, Whole
<1>14. Current(E, Y, S, Z)
  <2> SUFFICES ASSUME NEW u \in Sessions, Y[u].completed,
                      Y[u].export_id \notin S \cup Z
               PROVE  /\ E[Y[u].export_id] \notin {Absent, Torn}
                      /\ E[Y[u].export_id].hash = Y[u].hash
    BY DEF Current
  <2>1. CASE u = s
    <3>1. new # Fresh
      BY <1>8, <2>1, FreshTyped
    <3> QED  BY <1>1, <1>4, <1>5, <1>6, <1>8, <1>9, <2>1, <3>1
  <2>2. CASE u # s
    <3>1. Y[u] = X[u] /\ X[u].export_id \in ExportIds
      BY <1>8, <2>2 DEF Good, Bounded
    <3>2. X[u].export_id # x
      BY <1>1, <3>1 DEF Good, Current, Own
    <3> QED  BY <1>9, <3>1, <3>2 DEF Good, Current
  <2> QED  BY <2>1, <2>2
<1> QED
  BY <1>1, <1>7, <1>8, <1>9, <1>10, <1>11, <1>12, <1>13, <1>14 DEF Good

------------------------------------------------------------------------------
(* The steps *)

\* A batch over the export that is open once the request has dropped or begun
\* one.
LEMMA BatchGood ==
    ASSUME NEW s \in Sessions, NEW b \in Batches, NEW e, NEW t, NEW S,
           Good(t, final, [ex EXCEPT ![s] = e], S, short), ex \in [Sessions -> States],
           e.active, ~e.completed, Batch(s, b, e, t)
    PROVE  Good(temp', final', ex', S, short')
<1>1. PICK X : X = [ex EXCEPT ![s] = e]
  OBVIOUS
<1>2. X[s] = e /\ \A new : [X EXCEPT ![s] = new] = [ex EXCEPT ![s] = new]
  BY <1>1
<1>3. Good(t, final, X, S, short) /\ X[s].active /\ ~X[s].completed
  BY <1>1, <1>2
<1>4. CASE Refuse(s, e, t)
  <2>1. Good(ResetFile(X[s], t), final, [X EXCEPT ![s] = Fresh], S, short)
    BY <1>3, DropGood
  <2> QED  BY <1>2, <1>4, <2>1 DEF Refuse
<1>5. CASE Admits(e, b) /\ AppendBatch(s, b, e, t)
  <2>1. Good([t EXCEPT ![X[s].export_id] = Appended(@, b.ids)], final,
             [X EXCEPT ![s] = Counted(X[s], b)], S, short)
    BY <1>2, <1>3, <1>5, AppendGood
  <2> QED  BY <1>2, <1>5, <2>1 DEF AppendBatch
<1>6. CASE Admits(e, b) /\ Finalize(s, b, e, t)
  <2>1. PICK new : new = [Counted(e, b) EXCEPT !.active = FALSE,
                                               !.completed = TRUE]
    OBVIOUS
  <2>2. Counted(e, b) \in States /\ Counted(e, b).export_id = e.export_id
    BY <1>2, <1>3, <1>6, CountedGood
  <2>3. /\ new \in States /\ ~new.active /\ new.export_id = e.export_id
        /\ new.hash = Counted(e, b).hash
        /\ new.next_batch = Counted(e, b).next_batch
    BY <2>1, <2>2 DEF States
  <2>4. Finished(b, e, t) # Torn
    <3>1. PICK f, h : /\ f \in TempFiles /\ h \in Seq(Ids)
                      /\ Finished(b, e, t) = Manifest(f, h)
      <4>1. Appended(t[e.export_id], b.ids) \in TempFiles
        BY <1>2, <1>3, <1>6, CountedGood
      <4>2. Counted(e, b).hash \in Seq(Ids)
        BY <2>2 DEF States, Hashed
      <4> QED  BY <4>1, <4>2 DEF Finished
    <3>2. Finished(b, e, t) \in Manifests
      BY <3>1 DEF Manifest, Manifests, TempFiles
    <3>3. Torn \notin Manifests
      BY ExportsAssumption, Zenon DEF Manifests
    <3> QED  BY <3>2, <3>3
  \* The manifest is whole, or it was cut short and its id is in short'.
  <2>5. PICK left, Z : /\ left \in {Torn, Finished(b, e, t)}
                       /\ final' = [final EXCEPT ![e.export_id] = left]
                       /\ Z = short' /\ short \subseteq Z
                       /\ left # Torn \/ e.export_id \in Z
    BY <1>6, <2>4 DEF Finalize
  <2>6. Good([t EXCEPT ![X[s].export_id] = Absent],
             [final EXCEPT ![X[s].export_id] = left],
             [X EXCEPT ![s] = new], S, Z)
    <3>1. /\ left \in {Torn, Finished(b, X[s], t)} /\ Admits(X[s], b)
          /\ left # Torn \/ X[s].export_id \in Z
          /\ new.export_id = X[s].export_id
          /\ new.hash = Counted(X[s], b).hash
          /\ new.next_batch = Counted(X[s], b).next_batch
      BY <1>2, <1>6, <2>3, <2>5
    <3>2. short \subseteq Z /\ new \in States /\ ~new.active
      BY <2>3, <2>5
    <3> QED  BY <1>3, <3>1, <3>2, FinishGood, ZenonT(30)
  <2> QED  BY <1>2, <1>6, <2>1, <2>5, <2>6 DEF Finalize
<1>7. CASE Admits(e, b) /\ FinalizeFails(s, b, e, t)
  <2>1. PICK left \in {Torn, Finished(b, e, t)} :
          final' = [final EXCEPT ![e.export_id] = left]
    BY <1>7 DEF FinalizeFails
  <2>2. /\ left \in {Torn, Finished(b, X[s], t)} /\ Admits(X[s], b)
        /\ Fresh \in States /\ ~Fresh.active
    BY <1>2, <1>7, <2>1, FreshTyped
  <2>3. Good([t EXCEPT ![X[s].export_id] = Absent],
             [final EXCEPT ![X[s].export_id] = left],
             [X EXCEPT ![s] = Fresh], S, short)
    BY <1>3, <2>2, FinishGood
  <2> QED  BY <1>2, <1>7, <2>1, <2>3 DEF FinalizeFails
<1> QED  BY <1>4, <1>5, <1>6, <1>7 DEF Batch

\* rpc_poison_export_manifest_process, for every batch a client may send.
LEMMA RequestGood ==
    ASSUME ExportsInv, NEW s \in Sessions, NEW x \in ExportIds,
           NEW b \in Batches, rpc_poison_export_manifest_process(s, x, b)
    PROVE  ExportsInv'
<1>1. /\ Good(temp, final, ex, shared, short) /\ ex \in [Sessions -> States]
      /\ records' = records /\ records \subseteq Ids
  BY DEF ExportsInv, Good, rpc_poison_export_manifest_process
<1>2. ASSUME Good(temp', final', ex', shared', short')
      PROVE  ExportsInv'
  BY <1>1, <1>2
  DEF ExportsInv, Good, Bounded, Sole, Own, Whole, Current, States, Hashed,
      Increasing, TempFiles, Manifests, Batches, NoBatch
<1>3. CASE FirstBatch(s, x, b)
  <2>1. PICK t : t = [ResetFile(ex[s], temp) EXCEPT ![x] = Header]
    OBVIOUS
  <2>2. /\ Batch(s, b, Begun(x), t) /\ final[x] = Absent
        /\ shared' = IF Open(x) \subseteq {s} THEN shared ELSE shared \cup {x}
    BY <1>3, <2>1 DEF FirstBatch, CanBegin
  <2>3. /\ shared \subseteq shared'
        /\ x \in shared' \/ \A u \in Sessions \ {s} :
                              ~(ex[u].active /\ ex[u].export_id = x)
    BY <2>2 DEF Open
  <2>4. PICK Z : Z = shared'
    OBVIOUS
  <2>5. Good(t, final, [ex EXCEPT ![s] = Begun(x)], Z, short)
    BY <1>1, <2>1, <2>2, <2>3, <2>4, BeginGood
  <2>6. Begun(x).active /\ ~Begun(x).completed
    BY FreshTyped
  <2>7. Good(temp', final', ex', Z, short')
    BY <1>1, <2>2, <2>5, <2>6, BatchGood
  <2> QED  BY <1>2, <2>4, <2>7
<1>4. CASE LaterBatch(s, x, b)
  <2>1. shared' = shared
    BY <1>4 DEF LaterBatch
  <2>2. CASE Continues(ex[s], x, b) /\ Batch(s, b, ex[s], temp)
    <3>1. ex[s].active /\ ~ex[s].completed
      BY <1>1, <2>2 DEF Continues, Good, Bounded
    <3>2. [ex EXCEPT ![s] = ex[s]] = ex
      BY <1>1
    <3>3. Good(temp', final', ex', shared, short')
      BY <1>1, <2>2, <3>1, <3>2, BatchGood
    <3> QED  BY <1>2, <2>1, <3>3
  <2>3. CASE Refuse(s, ex[s], temp)
    <3>1. Good(ResetFile(ex[s], temp), final, [ex EXCEPT ![s] = Fresh], shared, short)
      BY <1>1, DropGood
    <3>2. Good(temp', final', ex', shared', short')
      BY <2>1, <2>3, <3>1 DEF Refuse
    <3> QED  BY <1>2, <3>2
  <2> QED  BY <1>4, <2>2, <2>3 DEF LaterBatch
<1> QED  BY <1>3, <1>4 DEF rpc_poison_export_manifest_process

\* A device without exports is in the invariant.
LEMMA ExportsInit == Init => ExportsInv
<1> SUFFICES ASSUME Init PROVE ExportsInv
  OBVIOUS
<1>1. /\ ex \in [Sessions -> States]
      /\ \A s \in Sessions : ex[s] = Fresh
  BY FreshTyped DEF Init
<1>2. Bounded(ex) /\ Sole(ex, shared)
  BY <1>1, FreshTyped, ExportsAssumption DEF Bounded, Sole
<1>3. Own(temp, final, ex, shared) /\ Current(final, ex, shared, short)
  BY <1>1, FreshTyped DEF Own, Current
<1>4. Whole(final, shared)
  BY DEF Init, Whole
<1> QED  BY <1>1, <1>2, <1>3, <1>4 DEF Init, ExportsInv, Good

\* More evidence leaves what was hashed as it was.
LEMMA CaptureGood ==
    ASSUME ExportsInv, NEW id \in Ids, Capture(id)
    PROVE  ExportsInv'
<1>1. /\ records \subseteq records' /\ records' \subseteq Ids
      /\ temp' = temp /\ final' = final /\ ex' = ex /\ shared' = shared
      /\ short' = short
  BY DEF ExportsInv, Capture
<1>2. Hashed \subseteq Hashed'
  BY <1>1 DEF Hashed, Increasing
<1>3. ex' \in [Sessions -> States']
  <2>1. States \subseteq States'
    BY <1>2 DEF States, Batches, NoBatch
  <2> QED  BY <1>1, <2>1 DEF ExportsInv, Good
<1>4. Whole(final, shared)'
  BY <1>1, <1>2 DEF ExportsInv, Good, Whole
<1>5. /\ Bounded(ex)' /\ Sole(ex, shared)' /\ Own(temp, final, ex, shared)'
      /\ Current(final, ex, shared, short)'
  BY <1>1 DEF ExportsInv, Good, Bounded, Sole, Own, Current
<1>6. /\ temp' \in [ExportIds -> TempFiles \cup {Absent}]
      /\ final' \in [ExportIds -> Manifests \cup {Absent, Torn}]
  BY <1>1 DEF ExportsInv, Good
<1> QED  BY <1>1, <1>3, <1>4, <1>5, <1>6 DEF ExportsInv, Good

\* A power cut ends every session; a manifest is left as it was or torn.
LEMMA CutGood ==
    ASSUME ExportsInv, PowerCut
    PROVE  ExportsInv'
<1>1. /\ records' = records /\ temp' = temp
      /\ ex' = [s \in Sessions |-> Fresh]
      /\ final \in [ExportIds -> Manifests \cup {Absent, Torn}]
  BY DEF PowerCut, ExportsInv, Good
<1>2. /\ final' \in [ExportIds -> Manifests \cup {Absent, Torn}]
      /\ \A x \in ExportIds : final'[x] = final[x] \/ final'[x] = Torn
  BY <1>1 DEF PowerCut, Finishing
<1>3. \A x \in ExportIds : x \in shared /\ x \notin shared' => final'[x] = Absent
  BY DEF PowerCut
<1>4. \A s \in Sessions : ex'[s] = Fresh
  BY <1>1
<1>5. ex' \in [Sessions -> States']
  <2>1. States' = States
    BY <1>1 DEF States, Hashed, Increasing, Batches, NoBatch
  <2> QED  BY <1>1, <2>1, FreshTyped
<1>6. Bounded(ex') /\ Sole(ex', shared')
  BY <1>4, FreshTyped, ExportsAssumption DEF Bounded, Sole
<1>7. Own(temp', final', ex', shared') /\ Current(final', ex', shared', short')
  BY <1>4, FreshTyped DEF Own, Current
<1>8. Whole(final, shared)'
  <2>1. Hashed' = Hashed
    BY <1>1 DEF Hashed, Increasing
  <2> QED  BY <1>2, <1>3, <2>1 DEF ExportsInv, Good, Whole
<1> QED
  BY <1>1, <1>2, <1>5, <1>6, <1>7, <1>8
  DEF ExportsInv, Good, Bounded, Sole, Own, Current, TempFiles, Manifests

\* Every step keeps the invariant.
LEMMA ExportsNext ==
    ASSUME ExportsInv, [Next]_vars
    PROVE  ExportsInv'
<1>1. CASE UNCHANGED vars
  BY <1>1
  DEF vars, ExportsInv, Good, Bounded, Sole, Own, Whole, Current, States, Hashed,
      Increasing, TempFiles, Manifests, Batches, NoBatch
<1>2. ASSUME NEW s \in Sessions, rpc_system_poison_evidence_free(s)
      PROVE  ExportsInv'
  <2>1. Good(ResetFile(ex[s], temp), final, [ex EXCEPT ![s] = Fresh], shared, short)
    BY DropGood DEF ExportsInv
  <2>2. Good(temp', final', ex', shared', short') /\ records' = records
    BY <1>2, <2>1 DEF rpc_system_poison_evidence_free
  <2> QED
    BY <2>2
    DEF ExportsInv, Good, Bounded, Sole, Own, Whole, Current, States, Hashed,
        Increasing, TempFiles, Manifests, Batches, NoBatch
<1> QED  BY <1>1, <1>2, RequestGood, CaptureGood, CutGood DEF Next

\* The invariant holds however the requests of any number of sessions, their
\* ends and the power cuts are ordered (rpc_poison_evidence.c).
THEOREM ExportsAlwaysGood == Spec => []ExportsInv
<1>1. ExportsInv /\ [Next]_vars => ExportsInv'
  BY ExportsNext
<1> QED  BY ExportsInit, <1>1, PTL DEF Spec

\* What a session counts and hashes stays within the limits of an export.
THEOREM ExportsTyped == Spec => []TypeOK
<1>1. ASSUME ExportsInv
      PROVE  TypeOK
  <2>1. ASSUME NEW x \in ExportIds
        PROVE  /\ temp[x] # Absent => temp[x].ids \in Seq(Ids)
               /\ Written(x) => final[x].ids \in Seq(Ids)
    BY <1>1 DEF ExportsInv, Good, TempFiles, Manifests, Written
  <2>2. ASSUME NEW s \in Sessions
        PROVE  /\ ex[s].export_id \in ExportIds \cup {NoExport}
               /\ ex[s].active \/ ex[s].completed => ex[s].export_id \in ExportIds
               /\ Len(ex[s].hash) <= MaxEvidence
               /\ ex[s].next_batch <= Len(ex[s].hash)
    BY <1>1 DEF ExportsInv, Good, States, Bounded
  <2> QED  BY <1>1, <2>1, <2>2 DEF TypeOK, ExportsInv
<1>2. ExportsInv => TypeOK
  BY <1>1
<1> QED  BY <1>2, ExportsAlwaysGood, PTL

\* rpc_poison_export_finalize: a manifest in place is whole, sorted and what
\* its digest was computed over, unless two sessions had it open at once, over
\* every retry, refusal, session end and power cut.
THEOREM ManifestsAreWhole == Spec => []ManifestIsWhatWasHashed
<1>1. ASSUME ExportsInv
      PROVE  ManifestIsWhatWasHashed
  BY <1>1
  DEF ExportsInv, Good, Whole, Hashed, Increasing, Written,
      ManifestIsWhatWasHashed
<1>2. ExportsInv => ManifestIsWhatWasHashed
  BY <1>1
<1> QED  BY <1>2, ExportsAlwaysGood, PTL

\* rpc_poison_export_manifest_process: the digest a finalize answers with when
\* it is retried is that of the manifest in place, unless the export was
\* shared or storage_common_rename cut the manifest short and answered FSE_OK.
THEOREM RetriesAreCurrent == Spec => []RetriedDigestIsCurrent
<1>1. ASSUME ExportsInv
      PROVE  RetriedDigestIsCurrent
  BY <1>1
  DEF ExportsInv, Good, Current, Written, RetriedDigestIsCurrent
<1>2. ExportsInv => RetriedDigestIsCurrent
  BY <1>1
<1> QED  BY <1>2, ExportsAlwaysGood, PTL
=============================================================================
