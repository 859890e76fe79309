------------------------ MODULE TargetCatalogueProofs ------------------------
(***************************************************************************)
(* The history of every target is gapless, its references resolve and its  *)
(* artifacts are stored, for any number of targets, sessions and versions, *)
(* and the catalogue implements the registry of targets. What makes it     *)
(* inductive is what an open transaction may rely on until it commits.     *)
(***************************************************************************)
EXTENDS TargetCatalogue, SequenceTheorems, TLAPS

(* What the transaction x read is still there, or its target is gone: the  *)
(* version it saw is not ahead of the current one, its reference resolves  *)
(* or is that of the secret row it holds locked, and what its              *)
(* configuration needs is stored or will be before it commits.             *)
SawPast(x) ==
  /\ x.pc # "idle" => life[x.target] # "unknown"
  /\ x.pc # "idle" /\ Registered(x.target) => x.seen <= row[x.target].current
  /\ x.pc \in {"probing", "discovering"} \/ x.found => x.seen # 0

RefersWell(x) ==
  /\ x.pc = "storing" /\ Registered(x.target) =>
       \/ Resolves(x.target, x.config.ref)
       \/ x.secret.id = x.config.ref
  /\ x.secret.id # NoSecret =>
       /\ x.pc = "storing"
       /\ Registered(x.target) => secret[x.target].id \in {NoSecret, x.secret.id}

Stores(x) ==
  /\ x.rows \subseteq blobs
  /\ x.pc = "storing" =>
       Needed(x.config) \subseteq artifacts \cup x.rows \cup {x.puts[i] : i \in 1 .. Len(x.puts)}

Sound(x) == SawPast(x) /\ RefersWell(x) /\ Stores(x)

(* A secret row is written by one transaction at a time.                   *)
OneLock ==
  \A s, o \in Sessions :
    tx[s].secret.id # NoSecret /\ tx[o].secret.id # NoSecret
      /\ tx[s].target = tx[o].target => s = o

CatalogueInv ==
  /\ TypeOK
  /\ HistoryIsGapless
  /\ ReferencesResolve
  /\ ArtifactsAreStored
  /\ \A s \in Sessions : Sound(tx[s])
  /\ OneLock

-----------------------------------------------------------------------------
(* Types *)

LEMMA IdleType == Idle \in Tx /\ Unset \in Secret
<1>1. \A t \in Targets : (CHOOSE u \in Targets : TRUE) \in Targets
  OBVIOUS
<1>2. (CHOOSE u \in Targets : TRUE) \in Targets
  BY <1>1, CatalogueNonempty
<1>3. (CHOOSE b \in Bodies : TRUE) \in Bodies /\ (CHOOSE v \in Values : TRUE) \in Values
  BY CatalogueNonempty
<1>4. NoConfig \in Contents
  BY <1>3 DEF NoConfig, Contents, NoSecret
<1>5. Unset \in Secret
  BY <1>3 DEF Unset, Secret, AnyValue, NoSecret
<1>6. <<>> \in Seq(Contents)
  OBVIOUS
<1> QED
  BY <1>2, <1>4, <1>5, <1>6 DEF Idle, Tx, Statuses

LEMMA IdleSound == Sound(Idle)
BY DEF Sound, SawPast, RefersWell, Stores, Idle, Unset, NoSecret

(* Only the transaction of s changes, to one that is sound. *)
LEMMA TxMove ==
  ASSUME CatalogueInv, NEW s \in Sessions, NEW y \in Tx,
         tx' = [tx EXCEPT ![s] = y], UNCHANGED rowVars,
         blobs \subseteq blobs', blobs' \subseteq Contents, minted' \in Nat,
         SawPast(y), RefersWell(y), Stores(y)',
         y.secret.id # NoSecret =>
           \A o \in Sessions \ {s} :
             tx[o].secret.id = NoSecret \/ tx[o].target # y.target
  PROVE  CatalogueInv'
<1> USE DEF CatalogueInv
<1>1. TypeOK'
  BY DEF TypeOK, rowVars
<1>2. HistoryIsGapless'
  BY DEF HistoryIsGapless, rowVars
<1>3. ReferencesResolve'
  BY DEF ReferencesResolve, Resolves, rowVars
<1>4. ArtifactsAreStored'
  BY DEF ArtifactsAreStored, rowVars
<1>5. tx'[s] = y /\ \A o \in Sessions \ {s} : tx'[o] = tx[o]
  BY DEF TypeOK
<1>6. \A x : SawPast(x)' <=> SawPast(x)
  BY DEF SawPast, Registered, rowVars
<1>7. \A x : RefersWell(x)' <=> RefersWell(x)
  BY DEF RefersWell, Registered, Resolves, rowVars
<1>8. \A x : Stores(x) => Stores(x)'
  BY DEF Stores, rowVars
<1>9. \A o \in Sessions : Sound(tx[o])'
  BY <1>5, <1>6, <1>7, <1>8 DEF Sound
<1>10. OneLock'
  BY <1>5 DEF OneLock
<1> QED
  BY <1>1, <1>2, <1>3, <1>4, <1>9, <1>10

-----------------------------------------------------------------------------
(* Steps inside a transaction *)

LEMMA BeginInv ==
  ASSUME CatalogueInv, NEW s \in Sessions, NEW t \in Targets,
         NEW config \in Contents, NEW pending \in Secret, NEW puts \in Seq(Contents),
         MayBegin(s, t), Begin(s, t, config, pending, puts),
         UNCHANGED <<rowVars, blobs>>, minted' \in Nat,
         \/ Resolves(t, config.ref)
         \/ pending.id = config.ref,
         pending.id # NoSecret =>
           ~SecretLocked(t) /\ secret[t].id \in {NoSecret, pending.id},
         Needed(config) \subseteq artifacts \cup {puts[i] : i \in 1 .. Len(puts)}
  PROVE  CatalogueInv'
<1>1. PICK y : y = [Idle EXCEPT !.pc = "storing", !.target = t,
                                !.seen = row[t].current,
                                !.config = config, !.secret = pending,
                                !.puts = puts]
  OBVIOUS
<1>2. row[t].current \in Nat
  BY DEF CatalogueInv, TypeOK, Row
<1>3. /\ y \in Tx
      /\ y.pc = "storing" /\ y.target = t /\ y.seen = row[t].current
      /\ y.config = config /\ y.secret = pending /\ y.puts = puts
      /\ y.rows = {} /\ y.found = FALSE
  BY <1>1, <1>2, IdleType DEF Tx, Idle
<1>4. tx' = [tx EXCEPT ![s] = y]
  BY <1>1 DEF Begin
<1>5. life[t] = "registered"
  BY DEF MayBegin, Registered
<1> HIDE <1>1
<1>6. SawPast(y)
  BY <1>2, <1>3, <1>5 DEF SawPast
<1>7. RefersWell(y)
  BY <1>3 DEF RefersWell
<1>8. Stores(y)'
  BY <1>3 DEF Stores, rowVars
<1>9. y.secret.id # NoSecret =>
        \A o \in Sessions \ {s} :
          tx[o].secret.id = NoSecret \/ tx[o].target # y.target
  BY <1>3 DEF SecretLocked
<1>10. blobs' \subseteq Contents
  BY DEF CatalogueInv, TypeOK
<1> QED
  BY <1>3, <1>4, <1>6, <1>7, <1>8, <1>9, <1>10, TxMove

LEMMA SavePlaintextInv ==
  ASSUME CatalogueInv, NEW s \in Sessions, NEW t \in Targets,
         NEW d \in Documents, NEW v \in Values, SavePlaintext(s, t, d, v)
  PROVE  CatalogueInv'
<1>1. PICK id : id = SecretName(t)
  OBVIOUS
<1>2. id \in SecretIds /\ id \in Nat /\ id # NoSecret
  BY <1>1, CatalogueBounds DEF SavePlaintext, SecretIds, NoSecret
<1>3. secret[t].id \in {NoSecret, id}
  BY <1>1 DEF SecretName
<1>4. PICK config : config = [kind |-> "declared", body |-> d.body, ref |-> id]
  OBVIOUS
<1>5. d.body \in Bodies
  BY DocumentsAssumption DEF DocumentShape
<1>6. config \in Contents /\ config.ref = id /\ config.kind = "declared"
  BY <1>2, <1>4, <1>5 DEF Contents
<1>7. PICK pending : pending = [id |-> id, value |-> v]
  OBVIOUS
<1>8. pending \in Secret /\ pending.id = id
  BY <1>2, <1>7 DEF Secret
<1>9. /\ MayBegin(s, t) /\ ~SecretLocked(t)
      /\ Begin(s, t, config, pending, <<config>>)
      /\ UNCHANGED <<rowVars, blobs>>
  BY <1>1, <1>4, <1>7 DEF SavePlaintext
<1>10. minted' \in Nat
  BY <1>1, <1>2 DEF SavePlaintext, CatalogueInv, TypeOK
<1>11. Needed(config) \subseteq {<<config>>[i] : i \in 1 .. Len(<<config>>)}
  BY <1>6 DEF Needed
<1>12. <<config>> \in Seq(Contents)
  BY <1>6
<1> QED
  BY <1>3, <1>6, <1>8, <1>9, <1>10, <1>11, <1>12, BeginInv

LEMMA SaveDocumentInv ==
  ASSUME CatalogueInv, NEW s \in Sessions, NEW t \in Targets,
         NEW d \in Documents, NEW ref \in SecretIds \cup {NoSecret},
         SaveDocument(s, t, d, ref)
  PROVE  CatalogueInv'
<1>1. PICK config : config = [kind |-> "declared", body |-> d.body, ref |-> ref]
  OBVIOUS
<1>2. d.body \in Bodies
  BY DocumentsAssumption DEF DocumentShape
<1>3. config \in Contents /\ config.ref = ref /\ config.kind = "declared"
  BY <1>1, <1>2 DEF Contents
<1>4. /\ MayBegin(s, t)
      /\ Begin(s, t, config, Unset, <<config>>)
      /\ UNCHANGED <<rowVars, blobs, minted>>
      /\ Resolves(t, config.ref)
  BY <1>1, <1>3 DEF SaveDocument, Resolves
<1>5. Needed(config) \subseteq {<<config>>[i] : i \in 1 .. Len(<<config>>)}
  BY <1>3 DEF Needed
<1>6. <<config>> \in Seq(Contents) /\ Unset \in Secret /\ Unset.id = NoSecret
  BY <1>3, IdleType DEF Unset
<1>7. minted' \in Nat
  BY <1>4 DEF CatalogueInv, TypeOK
<1> QED
  BY <1>3, <1>4, <1>5, <1>6, <1>7, BeginInv

LEMMA UploadInv ==
  ASSUME CatalogueInv, NEW s \in Sessions, NEW t \in Targets,
         NEW body \in Bodies, UploadAdapter(s, t, body)
  PROVE  CatalogueInv'
<1>1. PICK config : config = [kind |-> "uploaded", body |-> body, ref |-> NoSecret]
  OBVIOUS
<1>2. config \in Contents /\ config.ref = NoSecret /\ config.kind = "uploaded"
  BY <1>1 DEF Contents
<1>3. PICK source : source = SourceOf(config)
  OBVIOUS
<1>4. source \in Contents
  BY <1>1, <1>3 DEF SourceOf, Contents
<1>5. /\ MayBegin(s, t)
      /\ Begin(s, t, config, Unset, <<source, config>>)
      /\ UNCHANGED <<rowVars, blobs, minted>>
      /\ Resolves(t, config.ref)
  BY <1>1, <1>2, <1>3 DEF UploadAdapter, Resolves
<1>6. Needed(config) = {config, source}
  BY <1>2, <1>3 DEF Needed
<1>7. {config, source} \subseteq {<<source, config>>[i] : i \in 1 .. Len(<<source, config>>)}
  <2>1. Len(<<source, config>>) = 2 /\ <<source, config>>[1] = source
          /\ <<source, config>>[2] = config
    OBVIOUS
  <2> QED
    BY <2>1
<1>8. <<source, config>> \in Seq(Contents) /\ Unset \in Secret /\ Unset.id = NoSecret
  BY <1>2, <1>4, IdleType DEF Unset
<1>9. minted' \in Nat
  BY <1>5 DEF CatalogueInv, TypeOK
<1> QED
  BY <1>2, <1>5, <1>6, <1>7, <1>8, <1>9, BeginInv

LEMMA RestoreInv ==
  ASSUME CatalogueInv, NEW s \in Sessions, NEW t \in Targets,
         NEW r \in versions[t], RestoreVersion(s, t, r)
  PROVE  CatalogueInv'
<1>1. r.config \in Contents
  BY DEF CatalogueInv, TypeOK, Version
<1>2. Resolves(t, r.config.ref)
  BY DEF CatalogueInv, ReferencesResolve
<1>3. Needed(r.config) \subseteq artifacts
  BY DEF CatalogueInv, ArtifactsAreStored
<1>4. <<>> \in Seq(Contents) /\ Unset \in Secret /\ Unset.id = NoSecret
  BY IdleType DEF Unset
<1>5. minted' \in Nat
  BY DEF RestoreVersion, CatalogueInv, TypeOK
<1> QED
  BY <1>1, <1>2, <1>3, <1>4, <1>5, BeginInv DEF RestoreVersion

LEMMA RollbackInv ==
  ASSUME CatalogueInv, NEW s \in Sessions, tx' = [tx EXCEPT ![s] = Idle],
         UNCHANGED <<rowVars, blobs, minted>>
  PROVE  CatalogueInv'
<1>1. PICK y : y = Idle
  OBVIOUS
<1>2. y \in Tx /\ SawPast(y) /\ RefersWell(y) /\ Stores(y) /\ y.secret.id = NoSecret
  BY <1>1, IdleType, IdleSound DEF Sound, Idle, Unset
<1>3. Stores(y)'
  BY <1>2 DEF Stores, rowVars
<1>4. blobs' \subseteq Contents /\ minted' \in Nat
  BY DEF CatalogueInv, TypeOK
<1> QED
  BY <1>1, <1>2, <1>3, <1>4, TxMove

LEMMA StoreArtifactInv ==
  ASSUME CatalogueInv, NEW s \in Sessions, StoreArtifact(s)
  PROVE  CatalogueInv'
<1>1. PICK x : x = tx[s]
  OBVIOUS
<1>2. x \in Tx /\ Sound(x) /\ x.pc = "storing" /\ x.puts # <<>>
  BY <1>1 DEF CatalogueInv, TypeOK, StoreArtifact
<1>3. PICK content : content = Head(x.puts)
  OBVIOUS
<1>4. x.puts \in Seq(Contents)
  BY <1>2 DEF Tx
<1>5. /\ content \in Contents /\ content = x.puts[1]
      /\ Tail(x.puts) \in Seq(Contents) /\ Len(Tail(x.puts)) = Len(x.puts) - 1
      /\ \A i \in 1 .. Len(Tail(x.puts)) : Tail(x.puts)[i] = x.puts[i + 1]
      /\ Len(x.puts) \in Nat /\ Len(x.puts) # 0
  BY <1>2, <1>3, <1>4, EmptySeq, HeadTailProperties
<1>6. PICK y : y = [x EXCEPT !.puts = Tail(@), !.rows = @ \cup {content}]
  OBVIOUS
<1>7. /\ y \in Tx /\ y.pc = x.pc /\ y.target = x.target /\ y.seen = x.seen
      /\ y.config = x.config /\ y.secret = x.secret /\ y.found = x.found
      /\ y.puts = Tail(x.puts) /\ y.rows = x.rows \cup {content}
  BY <1>2, <1>5, <1>6 DEF Tx
<1>8. /\ tx' = [tx EXCEPT ![s] = y] /\ blobs' = blobs \cup {content}
      /\ UNCHANGED <<rowVars, minted>>
  <2>1. tx' = [tx EXCEPT ![s] = [tx[s] EXCEPT !.puts = Tail(@), !.rows = @ \cup {content}]]
    BY <1>1, <1>3 DEF StoreArtifact, CatalogueInv, TypeOK, Tx
  <2> QED
    BY <1>1, <1>3, <1>6, <2>1 DEF StoreArtifact
<1>9. SawPast(y) /\ RefersWell(y)
  BY <1>2, <1>7 DEF Sound, SawPast, RefersWell
<1>10. {x.puts[i] : i \in 1 .. Len(x.puts)} \subseteq
         {content} \cup {Tail(x.puts)[i] : i \in 1 .. Len(Tail(x.puts))}
  <2>1. ASSUME NEW i \in 1 .. Len(x.puts), i # 1
        PROVE  x.puts[i] \in {Tail(x.puts)[j] : j \in 1 .. Len(Tail(x.puts))}
    <3> DEFINE tail == Tail(x.puts)
               long == Len(x.puts)
    <3>1. /\ long \in Nat /\ Len(tail) = long - 1 /\ i \in 1 .. long
          /\ \A j \in 1 .. Len(tail) : tail[j] = x.puts[j + 1]
      BY <1>5
    <3> HIDE DEF tail, long
    <3>2. i - 1 \in 1 .. long - 1 /\ (i - 1) + 1 = i
      BY <2>1, <3>1
    <3>3. x.puts[i] = tail[i - 1]
      BY <3>1, <3>2
    <3> QED
      BY <3>1, <3>2, <3>3 DEF tail
  <2>2. x.puts[1] \in {content}
    BY <1>5
  <2> QED
    BY <2>1, <2>2
<1>11. Stores(y)'
  BY <1>2, <1>7, <1>8, <1>10 DEF Sound, Stores, rowVars
<1>12. blobs' \subseteq Contents /\ minted' \in Nat
  BY <1>5, <1>8 DEF CatalogueInv, TypeOK
<1>13. y.secret.id # NoSecret =>
         \A o \in Sessions \ {s} :
           tx[o].secret.id = NoSecret \/ tx[o].target # y.target
  BY <1>1, <1>7 DEF CatalogueInv, OneLock
<1> QED
  BY <1>7, <1>8, <1>9, <1>11, <1>12, <1>13, TxMove

(* A transaction that reads a target without writing a secret. *)
LEMMA ReadingInv ==
  ASSUME CatalogueInv, NEW s \in Sessions, NEW y \in Tx, y.pc # "storing",
         y.secret.id = NoSecret, y.rows = {}, SawPast(y),
         tx' = [tx EXCEPT ![s] = y], UNCHANGED <<rowVars, blobs, minted>>
  PROVE  CatalogueInv'
<1>1. RefersWell(y)
  BY DEF RefersWell
<1>2. Stores(y)'
  BY DEF Stores
<1>3. blobs' \subseteq Contents /\ minted' \in Nat
  BY DEF CatalogueInv, TypeOK
<1> QED
  BY <1>1, <1>2, <1>3, TxMove

LEMMA BeginReadingInv ==
  ASSUME CatalogueInv, NEW s \in Sessions, NEW t \in Targets, Registered(t),
         \/ BeginTest(s, t)
         \/ BeginDiscovery(s, t)
  PROVE  CatalogueInv'
<1>1. row[t].current \in Nat
  BY DEF CatalogueInv, TypeOK, Row
<1>2. CASE BeginTest(s, t)
  <2>1. PICK y : y = [Idle EXCEPT !.target = t, !.seen = row[t].current,
                        !.pc = IF AdapterAvailable(t) THEN "probing"
                               ELSE "concluding",
                        !.answer = IF AdapterAvailable(t) THEN "not_tested"
                                   ELSE "disconnected"]
    OBVIOUS
  <2>2. /\ y \in Tx /\ y.target = t /\ y.seen = row[t].current
        /\ y.pc = IF AdapterAvailable(t) THEN "probing" ELSE "concluding"
        /\ y.secret.id = NoSecret /\ y.rows = {} /\ y.found = FALSE
    BY <1>1, <2>1, IdleType DEF Tx, Idle, Unset, Statuses
  <2>3. tx' = [tx EXCEPT ![s] = y] /\ UNCHANGED <<rowVars, blobs, minted>>
    BY <1>2, <2>1 DEF BeginTest
  <2>4. y.pc # "storing"
    BY <2>2
  <2> HIDE <2>1
  <2>5. SawPast(y)
    BY <1>1, <2>2 DEF SawPast, AdapterAvailable, Registered
  <2> QED
    BY <2>2, <2>3, <2>4, <2>5, ReadingInv
<1>3. CASE BeginDiscovery(s, t)
  <2>1. PICK y : y = [Idle EXCEPT !.pc = "discovering", !.target = t,
                                  !.seen = row[t].current]
    OBVIOUS
  <2>2. /\ y \in Tx /\ y.target = t /\ y.seen = row[t].current
        /\ y.pc = "discovering"
        /\ y.secret.id = NoSecret /\ y.rows = {} /\ y.found = FALSE
    BY <1>1, <2>1, IdleType DEF Tx, Idle, Unset
  <2>3. tx' = [tx EXCEPT ![s] = y] /\ UNCHANGED <<rowVars, blobs, minted>>
    BY <1>3, <2>1 DEF BeginDiscovery
  <2>4. y.pc # "storing"
    BY <2>2
  <2>5. AdapterAvailable(t)
    BY <1>3 DEF BeginDiscovery
  <2> HIDE <2>1
  <2>6. SawPast(y)
    BY <1>1, <2>2, <2>5 DEF SawPast, AdapterAvailable, Registered
  <2> QED
    BY <2>2, <2>3, <2>4, <2>6, ReadingInv
<1> QED
  BY <1>2, <1>3

LEMMA ProbeInv ==
  ASSUME CatalogueInv, NEW s \in Sessions, NEW answer \in Statuses,
         NEW found \in BOOLEAN, Probe(s, answer, found)
  PROVE  CatalogueInv'
<1>1. PICK x : x = tx[s]
  OBVIOUS
<1>2. x \in Tx /\ Sound(x) /\ x.pc = "probing"
  BY <1>1 DEF CatalogueInv, TypeOK, Probe
<1>3. PICK y : y = [x EXCEPT !.pc = "concluding", !.answer = answer, !.found = found]
  OBVIOUS
<1>4. /\ y \in Tx /\ y.pc = "concluding" /\ y.target = x.target
      /\ y.seen = x.seen /\ y.secret = x.secret /\ y.rows = x.rows
  BY <1>2, <1>3 DEF Tx
<1>5. tx' = [tx EXCEPT ![s] = y] /\ UNCHANGED <<rowVars, blobs, minted>>
  BY <1>1, <1>3 DEF Probe, CatalogueInv, TypeOK, Tx
<1>6. SawPast(y)
  BY <1>2, <1>4 DEF Sound, SawPast
<1>7. x.secret.id = NoSecret
  BY <1>2 DEF Sound, RefersWell
<1>8. RefersWell(y)
  BY <1>4, <1>7 DEF RefersWell
<1>9. Stores(y)'
  BY <1>2, <1>4, <1>5 DEF Sound, Stores
<1>10. blobs' \subseteq Contents /\ minted' \in Nat
  BY <1>5 DEF CatalogueInv, TypeOK
<1> QED
  BY <1>4, <1>5, <1>6, <1>7, <1>8, <1>9, <1>10, TxMove

-----------------------------------------------------------------------------
(* Steps of a target *)

LEMMA CreateInv ==
  ASSUME CatalogueInv, NEW t \in Targets, CreateTarget(t)
  PROVE  CatalogueInv'
<1> USE DEF CatalogueInv
<1>1. TypeOK'
  BY DEF TypeOK, CreateTarget, NotTested, Statuses
<1>2. HistoryIsGapless' /\ ReferencesResolve' /\ ArtifactsAreStored' /\ OneLock'
  BY DEF HistoryIsGapless, ReferencesResolve, Resolves, ArtifactsAreStored, OneLock,
         CreateTarget
<1>3. ASSUME NEW o \in Sessions
      PROVE  Sound(tx[o])'
  <2>1. tx[o].pc # "idle" => tx[o].target # t
    BY DEF CreateTarget, Sound, SawPast
  <2>2. \A u : u # t => (life'[u] = life[u])
    BY DEF CreateTarget, TypeOK
  <2>3. SawPast(tx[o])'
    BY <2>1, <2>2 DEF Sound, SawPast, Registered, CreateTarget
  <2>4. RefersWell(tx[o])'
    BY <2>1, <2>2 DEF Sound, RefersWell, Registered, Resolves, CreateTarget
  <2>5. Stores(tx[o])'
    BY DEF Sound, Stores, CreateTarget
  <2> QED
    BY <2>3, <2>4, <2>5 DEF Sound
<1> QED
  BY <1>1, <1>2, <1>3

LEMMA EnabledInv ==
  ASSUME CatalogueInv, NEW t \in Targets, NEW b \in BOOLEAN, SetEnabled(t, b)
  PROVE  CatalogueInv'
<1> USE DEF CatalogueInv
<1>1. PICK r : r = [row[t] EXCEPT !.enabled = b]
  OBVIOUS
<1>2. r \in Row /\ r.current = row[t].current /\ r.status = row[t].status
  BY <1>1 DEF TypeOK, Row
<1>3. row' = [row EXCEPT ![t] = r]
  BY <1>1 DEF SetEnabled
<1>4. TypeOK'
  BY <1>2, <1>3 DEF TypeOK, SetEnabled
<1>5. \A u \in Targets : row'[u].current = row[u].current /\ row'[u].status = row[u].status
  BY <1>2, <1>3 DEF TypeOK
<1>6. HistoryIsGapless'
  BY <1>5 DEF HistoryIsGapless, SetEnabled
<1>7. ReferencesResolve' /\ ArtifactsAreStored' /\ OneLock'
  BY DEF ReferencesResolve, Resolves, ArtifactsAreStored, OneLock, SetEnabled
<1>8. ASSUME NEW o \in Sessions
      PROVE  Sound(tx[o])'
  <2>1. tx[o].target \in Targets
    BY DEF TypeOK, Tx
  <2> QED
    BY <1>5, <2>1 DEF Sound, SawPast, RefersWell, Stores, Registered, Resolves, SetEnabled
<1> QED
  BY <1>4, <1>6, <1>7, <1>8

LEMMA DeleteInv ==
  ASSUME CatalogueInv, NEW t \in Targets, DeleteTarget(t)
  PROVE  CatalogueInv'
<1> USE DEF CatalogueInv
<1>1. EmptyRow \in Row /\ EmptyRow.current = 0 /\ EmptyRow.status = "empty"
  BY DEF EmptyRow, Row
<1>2. TypeOK'
  BY <1>1, IdleType DEF TypeOK, DeleteTarget, NotTested, Statuses
<1>3. \A u \in Targets \ {t} :
        /\ row'[u] = row[u] /\ versions'[u] = versions[u] /\ secret'[u] = secret[u]
        /\ life'[u] = life[u]
  BY DEF DeleteTarget, TypeOK
<1>4. /\ row'[t] = EmptyRow /\ versions'[t] = {} /\ life'[t] = "deleted"
  BY DEF DeleteTarget, TypeOK
<1>5. HistoryIsGapless'
  <2> SUFFICES ASSUME NEW u \in Targets
               PROVE  /\ {r.version : r \in versions'[u]} = 1 .. row'[u].current
                      /\ \A r, q \in versions'[u] : r.version = q.version => r = q
                      /\ row'[u].status = "configured" <=> row'[u].current # 0
    BY DEF HistoryIsGapless
  <2>1. CASE u = t
    BY <1>1, <1>4, <2>1
  <2>2. CASE u # t
    BY <1>3, <2>2 DEF HistoryIsGapless
  <2> QED
    BY <2>1, <2>2
<1>6. ReferencesResolve'
  BY <1>3, <1>4 DEF ReferencesResolve, Resolves
<1>7. ArtifactsAreStored' /\ OneLock'
  BY <1>3, <1>4 DEF ArtifactsAreStored, OneLock, DeleteTarget
<1>8. ASSUME NEW o \in Sessions
      PROVE  Sound(tx[o])'
  <2>1. tx[o].target \in Targets /\ tx'[o] = tx[o]
    BY DEF TypeOK, Tx, DeleteTarget
  <2>2. tx[o].target = t => tx[o].secret.id = NoSecret
    BY DEF DeleteTarget, SecretLocked
  <2>3. SawPast(tx[o])'
    BY <1>3, <1>4, <2>1 DEF Sound, SawPast, Registered
  <2>4. RefersWell(tx[o])'
    BY <1>3, <1>4, <2>1, <2>2 DEF Sound, RefersWell, Registered, Resolves
  <2>5. Stores(tx[o])'
    BY <2>1 DEF Sound, Stores, DeleteTarget
  <2> QED
    BY <2>3, <2>4, <2>5 DEF Sound
<1> QED
  BY <1>2, <1>5, <1>6, <1>7, <1>8

LEMMA ReplaceInv ==
  ASSUME CatalogueInv, NEW t \in Targets, NEW v \in Values, ReplaceSecret(t, v)
  PROVE  CatalogueInv'
<1> USE DEF CatalogueInv
<1>1. PICK r : r = [secret[t] EXCEPT !.value = v]
  OBVIOUS
<1>2. r \in Secret /\ r.id = secret[t].id
  BY <1>1 DEF TypeOK, Secret
<1>3. secret' = [secret EXCEPT ![t] = r]
  BY <1>1 DEF ReplaceSecret
<1>4. TypeOK'
  BY <1>2, <1>3 DEF TypeOK, ReplaceSecret
<1>5. \A u \in Targets : secret'[u].id = secret[u].id
  BY <1>2, <1>3 DEF TypeOK
<1>6. HistoryIsGapless' /\ ArtifactsAreStored' /\ OneLock'
  BY DEF HistoryIsGapless, ArtifactsAreStored, OneLock, ReplaceSecret
<1>7. ReferencesResolve'
  BY <1>5 DEF ReferencesResolve, Resolves, ReplaceSecret
<1>8. ASSUME NEW o \in Sessions
      PROVE  Sound(tx[o])'
  <2>1. tx[o].target \in Targets
    BY DEF TypeOK, Tx
  <2> QED
    BY <1>5, <2>1 DEF Sound, SawPast, RefersWell, Stores, Registered, Resolves, ReplaceSecret
<1> QED
  BY <1>4, <1>6, <1>7, <1>8

-----------------------------------------------------------------------------
(* Steps that end a transaction *)

(* Only the connection and the capabilities of a target change. *)
LEMMA ResultInv ==
  ASSUME CatalogueInv, NEW s \in Sessions, Conclude(s) \/ RecordCapabilities(s)
  PROVE  CatalogueInv'
<1> USE DEF CatalogueInv
<1>1. tx[s] \in Tx
  BY DEF TypeOK
<1>2. tx[s].seen \in Nat /\ tx[s].answer \in Statuses
  BY <1>1 DEF Tx
<1>3. /\ tx' = [tx EXCEPT ![s] = Idle]
      /\ UNCHANGED <<life, row, versions, secret, blobs, artifacts, minted>>
  BY DEF Conclude, RecordCapabilities
<1>4. /\ connection' \in [Targets -> [status : Statuses, of : Nat]]
      /\ capabilities' \in [Targets -> Nat]
  <2>1. PICK t : t = tx[s].target
    OBVIOUS
  <2>2. PICK result : result = [status |-> tx[s].answer, of |-> tx[s].seen]
    OBVIOUS
  <2>3. result \in [status : Statuses, of : Nat]
    BY <1>2, <2>2
  <2>4. connection' \in {connection, [connection EXCEPT ![t] = result]}
    BY <2>1, <2>2 DEF Conclude, RecordCapabilities
  <2>5. capabilities' \in {capabilities, [capabilities EXCEPT ![t] = tx[s].seen]}
    BY <2>1 DEF Conclude, RecordCapabilities
  <2> QED
    BY <1>2, <2>3, <2>4, <2>5 DEF TypeOK
<1>5. TypeOK'
  BY <1>3, <1>4, IdleType DEF TypeOK
<1>6. HistoryIsGapless' /\ ReferencesResolve' /\ ArtifactsAreStored'
  BY <1>3 DEF HistoryIsGapless, ReferencesResolve, Resolves, ArtifactsAreStored
<1>7. tx'[s] = Idle /\ \A o \in Sessions \ {s} : tx'[o] = tx[o]
  BY <1>3 DEF TypeOK
<1>8. \A x : Sound(x) => Sound(x)'
  BY <1>3 DEF Sound, SawPast, RefersWell, Stores, Registered, Resolves
<1>9. \A o \in Sessions : Sound(tx[o])'
  BY <1>3, <1>7, <1>8, IdleSound
<1>10. Idle.secret.id = NoSecret
  BY DEF Idle, Unset
<1>11. OneLock'
  BY <1>7, <1>10 DEF OneLock
<1> QED
  BY <1>5, <1>6, <1>9, <1>11

(* The version that a transaction commits is the next one. *)
LEMMA CommitIsNext ==
  ASSUME CatalogueInv, NEW s \in Sessions, CommitVersion(s)
  PROVE  /\ tx[s].target \in Targets /\ tx[s].seen \in Nat
         /\ tx[s].seen = row[tx[s].target].current
<1> USE DEF CatalogueInv
<1>1. tx[s] \in Tx
  BY DEF TypeOK
<1>2. PICK t : t = tx[s].target
  OBVIOUS
<1>3. t \in Targets /\ tx[s].seen \in Nat
  BY <1>1, <1>2 DEF Tx
<1>4. row[t].current \in Nat
  BY <1>3 DEF TypeOK, Row
<1>5. tx[s].seen <= row[t].current
  BY <1>2 DEF CommitVersion, Sound, SawPast
<1>6. tx[s].seen + 1 \notin {r.version : r \in versions[t]}
  BY <1>2 DEF CommitVersion, VersionTaken
<1>7. tx[s].seen + 1 \notin 1 .. row[t].current
  BY <1>3, <1>6 DEF HistoryIsGapless
<1> QED
  BY <1>2, <1>3, <1>4, <1>5, <1>7

LEMMA CommitInv ==
  ASSUME CatalogueInv, NEW s \in Sessions, CommitVersion(s)
  PROVE  CatalogueInv'
<1> USE DEF CatalogueInv
<1>1. PICK x : x = tx[s]
  OBVIOUS
<1>2. PICK t : t = x.target
  OBVIOUS
<1>3. x \in Tx /\ Sound(x)
  BY <1>1 DEF TypeOK
<1>4. t \in Targets /\ x.seen \in Nat /\ x.seen = row[t].current
  BY <1>1, <1>2, CommitIsNext
<1>5. PICK n : n = x.seen + 1
  OBVIOUS
<1>6. n \in Nat /\ n # 0 /\ n = row[t].current + 1
  BY <1>4, <1>5
<1>7. PICK new : new = [version |-> n, config |-> x.config]
  OBVIOUS
<1>8. new \in Version /\ new.version = n /\ new.config = x.config
  BY <1>3, <1>6, <1>7 DEF Version, Tx
<1>9. PICK r : r = [row[t] EXCEPT !.status = "configured", !.current = n]
  OBVIOUS
<1>10. r \in Row /\ r.status = "configured" /\ r.current = n
  <2>1. row[t] \in Row
    BY <1>4 DEF TypeOK
  <2> QED
    BY <1>6, <1>9, <2>1 DEF Row
<1>11. /\ x.pc = "storing" /\ x.puts = <<>> /\ life[t] = "registered"
       /\ versions' = [versions EXCEPT ![t] = @ \cup {new}]
       /\ row' = [row EXCEPT ![t] = r]
       /\ secret' = IF x.secret.id = NoSecret THEN secret
                    ELSE [secret EXCEPT ![t] = x.secret]
       /\ artifacts' = artifacts \cup x.rows
       /\ connection' = [connection EXCEPT ![t] = NotTested]
       /\ tx' = [tx EXCEPT ![s] = Idle]
       /\ UNCHANGED <<life, capabilities, blobs, minted>>
  <2>1. row' = [row EXCEPT ![t] = [row[t] EXCEPT !.status = "configured", !.current = n]]
    BY <1>1, <1>2, <1>4, <1>5 DEF CommitVersion, TypeOK, Row
  <2>2. row' = [row EXCEPT ![t] = r]
    BY <1>9, <2>1
  <2> QED
    BY <1>1, <1>2, <1>5, <1>7, <2>2 DEF CommitVersion, Registered, ResetConnection
<1> HIDE <1>7, <1>9
<1>12. x.secret \in Secret /\ x.rows \subseteq Contents
  BY <1>3 DEF Tx
<1>13. TypeOK'
  <2>1. versions' \in [Targets -> SUBSET Version] /\ row' \in [Targets -> Row]
    BY <1>8, <1>10, <1>11 DEF TypeOK
  <2>2. secret' \in [Targets -> Secret]
    BY <1>11, <1>12 DEF TypeOK
  <2>3. connection' \in [Targets -> [status : Statuses, of : Nat]]
    BY <1>11 DEF TypeOK, NotTested, Statuses
  <2>4. tx' \in [Sessions -> Tx] /\ artifacts' \subseteq Contents
    BY <1>11, <1>12, IdleType DEF TypeOK
  <2> QED
    BY <1>11, <2>1, <2>2, <2>3, <2>4 DEF TypeOK
<1>14. \A u \in Targets \ {t} :
         /\ row'[u] = row[u] /\ versions'[u] = versions[u]
         /\ secret'[u] = secret[u] /\ life'[u] = life[u]
  BY <1>11 DEF TypeOK
<1>15. row'[t] = r /\ versions'[t] = versions[t] \cup {new} /\ life'[t] = "registered"
  BY <1>4, <1>11 DEF TypeOK
<1>16. \A u \in Targets, id \in Nat : secret[u].id = id /\ id # NoSecret => secret'[u].id = id
  <2>1. x.secret.id # NoSecret => secret[t].id \in {NoSecret, x.secret.id}
    BY <1>2, <1>3, <1>11 DEF Sound, RefersWell, Registered
  <2>2. x.secret.id # NoSecret => secret'[t].id = x.secret.id
    BY <1>4, <1>11 DEF TypeOK
  <2>3. x.secret.id = NoSecret => secret' = secret
    BY <1>11
  <2> QED
    BY <1>14, <2>1, <2>2, <2>3
<1>17. \A u \in Targets, id \in Nat : Resolves(u, id) => Resolves(u, id)'
  BY <1>16 DEF Resolves
<1>18. HistoryIsGapless'
  <2> SUFFICES ASSUME NEW u \in Targets
               PROVE  /\ {q.version : q \in versions'[u]} = 1 .. row'[u].current
                      /\ \A q, p \in versions'[u] : q.version = p.version => q = p
                      /\ row'[u].status = "configured" <=> row'[u].current # 0
    BY DEF HistoryIsGapless
  <2>1. CASE u # t
    BY <1>14, <2>1 DEF HistoryIsGapless
  <2>2. CASE u = t
    <3>1. {q.version : q \in versions[t]} = 1 .. row[t].current
      BY <1>4 DEF HistoryIsGapless
    <3>2. {q.version : q \in versions'[t]} = {q.version : q \in versions[t]} \cup {n}
      BY <1>8, <1>15
    <3>3. 1 .. n = (1 .. row[t].current) \cup {n}
      BY <1>4, <1>6
    <3>4. \A q \in versions[t] : q.version # n
      <4>1. n \notin 1 .. row[t].current
        BY <1>4, <1>6
      <4> QED
        BY <3>1, <4>1
    <3>5. \A q, p \in versions'[t] : q.version = p.version => q = p
      BY <1>4, <1>8, <1>15, <3>4 DEF HistoryIsGapless
    <3> QED
      BY <1>6, <1>10, <1>15, <2>2, <3>1, <3>2, <3>3, <3>5
  <2> QED
    BY <2>1, <2>2
<1>19. x.config \in Contents /\ x.config.ref \in Nat
  BY <1>3, CatalogueBounds DEF Tx, Contents, SecretIds, NoSecret
<1>20. Resolves(t, x.config.ref)'
  <2>1. CASE Resolves(t, x.config.ref)
    BY <1>4, <1>17, <1>19, <2>1
  <2>2. CASE x.secret.id = x.config.ref
    <3>1. CASE x.secret.id = NoSecret
      BY <2>2, <3>1 DEF Resolves
    <3>2. CASE x.secret.id # NoSecret
      BY <1>4, <1>11, <2>2, <3>2 DEF Resolves, TypeOK
    <3> QED
      BY <3>1, <3>2
  <2> QED
    BY <1>2, <1>3, <1>11, <2>1, <2>2 DEF Sound, RefersWell, Registered
<1>21. ReferencesResolve'
  <2> SUFFICES ASSUME NEW u \in Targets, NEW q \in versions'[u]
               PROVE  Resolves(u, q.config.ref)'
    BY DEF ReferencesResolve
  <2>1. CASE u = t /\ q = new
    BY <1>8, <1>20, <2>1
  <2>2. CASE q \in versions[u]
    <3>1. q.config.ref \in Nat
      BY <2>2, CatalogueBounds DEF TypeOK, Version, Contents, SecretIds, NoSecret
    <3> QED
      BY <1>17, <2>2, <3>1 DEF ReferencesResolve
  <2> QED
    BY <1>14, <1>15, <2>1, <2>2
<1>22. Needed(x.config) \subseteq artifacts \cup x.rows
  <2>1. {x.puts[i] : i \in 1 .. Len(x.puts)} = {}
    BY <1>11
  <2> QED
    BY <1>3, <1>11, <2>1 DEF Sound, Stores
<1>23. ArtifactsAreStored'
  <2>1. artifacts' \subseteq blobs'
    BY <1>3, <1>11 DEF Sound, Stores, ArtifactsAreStored
  <2>2. \A u \in Targets : \A q \in versions'[u] : Needed(q.config) \subseteq artifacts'
    BY <1>8, <1>11, <1>14, <1>15, <1>22 DEF ArtifactsAreStored
  <2> QED
    BY <2>1, <2>2 DEF ArtifactsAreStored
<1>24. tx'[s] = Idle /\ \A o \in Sessions \ {s} : tx'[o] = tx[o]
  BY <1>11 DEF TypeOK
<1>25. Idle.secret.id = NoSecret
  BY DEF Idle, Unset
<1>26. OneLock'
  BY <1>24, <1>25 DEF OneLock
<1>27. ASSUME NEW o \in Sessions \ {s}
       PROVE  Sound(tx[o])'
  <2>1. PICK z : z = tx[o]
    OBVIOUS
  <2>2. z \in Tx /\ Sound(z) /\ tx'[o] = z
    BY <1>24, <2>1 DEF TypeOK
  <2>3. z.target \in Targets /\ z.seen \in Nat /\ z.config.ref \in Nat
    BY <2>2, CatalogueBounds DEF Tx, Contents, SecretIds, NoSecret
  <2>4. row'[z.target].current >= row[z.target].current /\ row[z.target].current \in Nat
        /\ row'[z.target].current \in Nat
    <3>1. row[z.target].current \in Nat
      BY <2>3 DEF TypeOK, Row
    <3>2. row'[t].current = row[t].current + 1
      BY <1>6, <1>10, <1>15
    <3>3. CASE z.target = t
      BY <3>1, <3>2, <3>3
    <3>4. CASE z.target # t
      BY <1>14, <2>3, <3>1, <3>4
    <3> QED
      BY <3>3, <3>4
  <2>5. SawPast(z)'
    BY <1>11, <2>2, <2>3, <2>4 DEF Sound, SawPast, Registered
  <2>6. z.secret.id # NoSecret /\ z.target = t => x.secret.id = NoSecret
    BY <1>1, <1>2, <2>1 DEF OneLock
  <2>7. RefersWell(z)'
    <3>1. z.pc = "storing" /\ Registered(z.target)' =>
            Resolves(z.target, z.config.ref)' \/ z.secret.id = z.config.ref
      BY <1>11, <1>17, <2>2, <2>3 DEF Sound, RefersWell, Registered
    <3>2. z.secret.id # NoSecret =>
            /\ z.pc = "storing"
            /\ Registered(z.target)' => secret'[z.target].id \in {NoSecret, z.secret.id}
      BY <1>11, <1>14, <2>2, <2>3, <2>6 DEF Sound, RefersWell, Registered
    <3> QED
      BY <3>1, <3>2 DEF RefersWell
  <2>8. Stores(z)'
    BY <1>11, <2>2 DEF Sound, Stores
  <2> QED
    BY <2>2, <2>5, <2>7, <2>8 DEF Sound
<1>28. Sound(Idle)'
  BY DEF Sound, SawPast, RefersWell, Stores, Idle, Unset, NoSecret
<1>29. \A o \in Sessions : Sound(tx[o])'
  BY <1>24, <1>27, <1>28
<1> QED
  BY <1>13, <1>18, <1>21, <1>23, <1>26, <1>29

-----------------------------------------------------------------------------
(* The invariant *)

LEMMA InitInv == Init => CatalogueInv
<1> SUFFICES ASSUME Init PROVE CatalogueInv
  OBVIOUS
<1>1. EmptyRow \in Row /\ EmptyRow.current = 0 /\ EmptyRow.status = "empty"
  BY DEF EmptyRow, Row
<1>2. TypeOK
  BY <1>1, IdleType DEF Init, TypeOK, NotTested, Statuses
<1>3. HistoryIsGapless
  BY <1>1 DEF Init, HistoryIsGapless
<1>4. ReferencesResolve /\ ArtifactsAreStored
  BY DEF Init, ReferencesResolve, ArtifactsAreStored
<1>5. \A s \in Sessions : Sound(tx[s])
  BY IdleSound DEF Init
<1>6. Idle.secret.id = NoSecret
  BY DEF Idle, Unset
<1>7. OneLock
  BY <1>6 DEF Init, OneLock
<1> QED
  BY <1>2, <1>3, <1>4, <1>5, <1>7 DEF CatalogueInv

LEMMA StutterInv ==
  ASSUME CatalogueInv, UNCHANGED vars
  PROVE  CatalogueInv'
<1> USE DEF CatalogueInv, vars
<1>1. TypeOK'
  BY DEF TypeOK
<1>2. HistoryIsGapless' /\ ReferencesResolve'
  BY DEF HistoryIsGapless, ReferencesResolve, Resolves
<1>3. ArtifactsAreStored' /\ OneLock'
  BY DEF ArtifactsAreStored, OneLock
<1>4. \A x : Sound(x) => Sound(x)'
  BY DEF Sound, SawPast, RefersWell, Stores, Registered, Resolves
<1>5. \A s \in Sessions : Sound(tx[s])'
  BY <1>4
<1> QED
  BY <1>1, <1>2, <1>3, <1>5

LEMMA NextInv == CatalogueInv /\ [Next]_vars => CatalogueInv'
<1> SUFFICES ASSUME CatalogueInv, [Next]_vars PROVE CatalogueInv'
  OBVIOUS
<1>1. ASSUME NEW t \in Targets,
             \/ CreateTarget(t)
             \/ \E b \in BOOLEAN : SetEnabled(t, b)
             \/ DeleteTarget(t)
             \/ \E v \in Values : ReplaceSecret(t, v)
      PROVE  CatalogueInv'
  BY <1>1, CreateInv, EnabledInv, DeleteInv, ReplaceInv
<1>2. ASSUME NEW s \in Sessions, NEW t \in Targets,
             \/ \E d \in Documents :
                  \/ \E v \in Values : SavePlaintext(s, t, d, v)
                  \/ \E ref \in SecretIds \cup {NoSecret} : SaveDocument(s, t, d, ref)
             \/ \E b \in Bodies : UploadAdapter(s, t, b)
             \/ \E r \in versions[t] : RestoreVersion(s, t, r)
      PROVE  CatalogueInv'
  BY <1>2, SavePlaintextInv, SaveDocumentInv, UploadInv, RestoreInv
<1>3. ASSUME NEW s \in Sessions, NEW t \in Targets, BeginTest(s, t) \/ BeginDiscovery(s, t)
      PROVE  CatalogueInv'
  <2>1. Registered(t)
    BY <1>3 DEF BeginTest, BeginDiscovery
  <2> QED
    BY <1>3, <2>1, BeginReadingInv
<1>4. ASSUME NEW s \in Sessions,
             \/ StoreArtifact(s)
             \/ CommitVersion(s)
             \/ \E answer \in Statuses, found \in BOOLEAN : Probe(s, answer, found)
             \/ Conclude(s)
             \/ RecordCapabilities(s)
      PROVE  CatalogueInv'
  BY <1>4, StoreArtifactInv, CommitInv, ProbeInv, ResultInv
<1>5. ASSUME NEW s \in Sessions, Rollback(s)
      PROVE  CatalogueInv'
  BY <1>5, RollbackInv DEF Rollback
<1>6. CASE UNCHANGED vars
  BY <1>6, StutterInv
<1> QED
  BY <1>1, <1>2, <1>3, <1>4, <1>5, <1>6 DEF Next

(* Rows, transactions and counters keep their types.                       *)
THEOREM CatalogueTypes == Spec => []TypeOK
<1>1. CatalogueInv => TypeOK
  BY DEF CatalogueInv
<1> QED
  BY InitInv, NextInv, <1>1, PTL DEF Spec

(* However many editors save, upload and restore at once, the versions of  *)
(* a target are 1 to its current one (persist_config_version).             *)
THEOREM HistoryStaysGapless == Spec => []HistoryIsGapless
<1>1. CatalogueInv => HistoryIsGapless
  BY DEF CatalogueInv
<1> QED
  BY InitInv, NextInv, <1>1, PTL DEF Spec

(* Every secret reference of every committed version names the secret row  *)
(* of its own target (extract_and_store, resolve_secret).                  *)
THEOREM ReferencesAlwaysResolve == Spec => []ReferencesResolve
<1>1. CatalogueInv => ReferencesResolve
  BY DEF CatalogueInv
<1> QED
  BY InitInv, NextInv, <1>1, PTL DEF Spec

(* What a committed version needs has a row, and every row has its bytes.  *)
THEOREM ArtifactsStayStored == Spec => []ArtifactsAreStored
<1>1. CatalogueInv => ArtifactsAreStored
  BY DEF CatalogueInv
<1> QED
  BY InitInv, NextInv, <1>1, PTL DEF Spec

-----------------------------------------------------------------------------
(* The registry *)

(* The abstract history of a target, as the refinement maps it.            *)
History(t) == [n \in 1 .. row[t].current |-> CurrentOf(t, n).config]
Histories  == [t \in Targets |-> [n \in 1 .. row[t].current |-> CurrentOf(t, n).config]]
Enableds   == [t \in Targets |-> row[t].enabled]

LEMMA Lookup ==
  ASSUME CatalogueInv, NEW t \in Targets, NEW r \in versions[t]
  PROVE  CurrentOf(t, r.version) = r
<1>1. \A q \in versions[t] : q.version = r.version => q = r
  BY DEF CatalogueInv, HistoryIsGapless
<1> QED
  BY <1>1 DEF CurrentOf

LEMMA HistoryIsSequence ==
  ASSUME CatalogueInv, NEW t \in Targets
  PROVE  /\ History(t) \in Seq(Contents)
         /\ Len(History(t)) = row[t].current
         /\ row[t].current \in Nat
         /\ \A r \in versions[t] : History(t)[r.version] = r.config
<1>1. PICK n \in Nat : n = row[t].current
  BY DEF CatalogueInv, TypeOK, Row
<1>2. \A i \in 1 .. n : \E r \in versions[t] : r.version = i
  BY <1>1 DEF CatalogueInv, HistoryIsGapless
<1>3. \A r \in versions[t] : r.config \in Contents
  BY DEF CatalogueInv, TypeOK, Version
<1>4. \A i \in 1 .. n : CurrentOf(t, i).config \in Contents
  BY <1>2, <1>3, Lookup
<1>5. History(t) \in [1 .. n -> Contents]
  BY <1>1, <1>4 DEF History
<1>6. History(t) \in Seq(Contents)
  BY <1>5, SeqDef
<1>7. PICK m \in Nat : m = Len(History(t)) /\ 1 .. m = 1 .. n
  BY <1>5, <1>6, LenProperties
<1>8. m = n
  <2>1. m <= n
    <3>1. m # 0 => m \in 1 .. n
      BY <1>7
    <3> QED
      BY <3>1
  <2>2. n <= m
    <3>1. n # 0 => n \in 1 .. m
      BY <1>7
    <3> QED
      BY <3>1
  <2> QED
    BY <2>1, <2>2
<1>9. \A r \in versions[t] : r.version \in 1 .. n
  BY <1>1 DEF CatalogueInv, HistoryIsGapless
<1>10. \A r \in versions[t] : History(t)[r.version] = r.config
  BY <1>1, <1>9, Lookup DEF History
<1> QED
  BY <1>1, <1>6, <1>7, <1>8, <1>10

HistoriesTold ==
  \A t \in Targets :
    /\ History(t) \in Seq(Contents)
    /\ Len(History(t)) = row[t].current
    /\ \A r \in versions[t] : History(t)[r.version] = r.config

LEMMA HistoriesAreSequences == CatalogueInv => HistoriesTold
BY HistoryIsSequence DEF HistoriesTold

Entry(rows, v) == CHOOSE r \in rows : r.version = v

LEMMA CurrentIsEntry ==
  \A t, v : /\ CurrentOf(t, v) = Entry(versions[t], v)
            /\ CurrentOf(t, v)' = Entry(versions'[t], v)
BY DEF CurrentOf, Entry

LEMMA HistoriesStay ==
  ASSUME UNCHANGED versions,
         \A t \in Targets : row'[t].current = row[t].current
  PROVE  Histories' = Histories
BY DEF Histories, CurrentOf

(* A commit appends its configuration to the history of its target. *)
LEMMA CommitAppends ==
  ASSUME CatalogueInv, NEW s \in Sessions, CommitVersion(s)
  PROVE  \E t \in Targets : \E config \in Contents :
           /\ life[t] = "registered"
           /\ Histories' = [Histories EXCEPT ![t] = Append(@, config)]
           /\ Enableds' = Enableds
           /\ UNCHANGED <<life, capabilities>>
<1>1. CatalogueInv'
  BY CommitInv
<1>2. PICK t \in Targets : t = tx[s].target /\ tx[s].seen = row[t].current
  BY CommitIsNext
<1>3. row[t].current \in Nat
  BY DEF CatalogueInv, TypeOK, Row
<1>4. PICK n \in Nat : n = row[t].current + 1
  BY <1>3
<1>5. PICK config \in Contents : config = tx[s].config
  BY DEF CatalogueInv, TypeOK, Tx
<1>6. PICK new : new = [version |-> n, config |-> config]
  OBVIOUS
<1>7. new.version = n /\ new.config = config
  BY <1>6
<1>8. /\ life[t] = "registered"
      /\ versions' = [versions EXCEPT ![t] = @ \cup {new}]
      /\ row' = [row EXCEPT ![t] = [row[t] EXCEPT !.status = "configured", !.current = n]]
      /\ UNCHANGED <<life, capabilities>>
  BY <1>2, <1>4, <1>5, <1>6 DEF CommitVersion, Registered, CatalogueInv, TypeOK, Row
<1> HIDE <1>6
<1>9. /\ versions'[t] = versions[t] \cup {new}
      /\ row'[t].current = n /\ row'[t].enabled = row[t].enabled
      /\ \A u \in Targets \ {t} : versions'[u] = versions[u] /\ row'[u] = row[u]
  BY <1>8 DEF CatalogueInv, TypeOK, Row
<1>10. History(t)' = Append(History(t), config)
  <2>1. /\ History(t)' \in Seq(Contents) /\ Len(History(t)') = n
        /\ \A r \in versions'[t] : History(t)'[r.version] = r.config
    <3>1. HistoriesTold'
      BY <1>1, HistoriesAreSequences, PTL
    <3> QED
      BY <1>9, <3>1 DEF HistoriesTold
  <2>2. /\ History(t) \in Seq(Contents) /\ Len(History(t)) = row[t].current
        /\ \A r \in versions[t] : History(t)[r.version] = r.config
    BY HistoryIsSequence
  <2>3. /\ Append(History(t), config) \in Seq(Contents)
        /\ Len(Append(History(t), config)) = n
        /\ \A i \in 1 .. row[t].current : Append(History(t), config)[i] = History(t)[i]
        /\ Append(History(t), config)[n] = config
    BY <1>3, <1>4, <2>2, AppendProperties
  <2>4. ASSUME NEW i \in 1 .. n
        PROVE  History(t)'[i] = Append(History(t), config)[i]
    <3>1. CASE i = n
      BY <1>7, <1>9, <2>1, <2>3, <3>1
    <3>2. CASE i # n
      <4>1. i \in 1 .. row[t].current
        BY <1>3, <1>4, <3>2
      <4>2. PICK r \in versions[t] : r.version = i
        BY <4>1 DEF CatalogueInv, HistoryIsGapless
      <4> QED
        BY <1>9, <2>1, <2>2, <2>3, <4>1, <4>2
    <3> QED
      BY <3>1, <3>2
  <2> QED
    BY <2>1, <2>3, <2>4, SeqEqual
<1>11. \A u \in Targets \ {t} : History(u)' = History(u)
  <2> SUFFICES ASSUME NEW u \in Targets \ {t} PROVE History(u)' = History(u)
    OBVIOUS
  <2>1. versions'[u] = versions[u] /\ row'[u].current = row[u].current
    BY <1>9
  <2>2. \A v : CurrentOf(u, v)' = CurrentOf(u, v)
    BY <2>1, CurrentIsEntry
  <2>3. \A v : CurrentOf(u, v).config' = CurrentOf(u, v).config
    BY <2>2
  <2> QED
    BY <2>1, <2>3 DEF History
<1>12. /\ Histories' = [u \in Targets |-> History(u)']
       /\ \A u \in Targets : Histories[u] = History(u)
       /\ DOMAIN Histories = Targets
       /\ Histories = [u \in Targets |-> Histories[u]]
  BY DEF Histories, History
<1>13. Histories' = [Histories EXCEPT ![t] = Append(@, config)]
  <2>1. PICK h : h = Append(Histories[t], config)
    OBVIOUS
  <2>2. \A u \in Targets : History(u)' = IF u = t THEN h ELSE Histories[u]
    BY <1>10, <1>11, <1>12, <2>1
  <2>3. Histories' = [Histories EXCEPT ![t] = h]
    BY <1>12, <2>2
  <2> QED
    BY <2>1, <2>3
<1>14. Enableds' = Enableds
  BY <1>9 DEF Enableds
<1> QED
  BY <1>8, <1>13, <1>14

LEMMA SameRegistry ==
  /\ UNCHANGED Registry!registryVars <=>
       /\ life' = life /\ Enableds' = Enableds
       /\ Histories' = Histories /\ capabilities' = capabilities
  /\ Registry!RegistryInit <=>
       /\ life = [t \in Targets |-> "unknown"]
       /\ Enableds = [t \in Targets |-> TRUE]
       /\ Histories = [t \in Targets |-> <<>>]
       /\ capabilities = [t \in Targets |-> 0]
  /\ \A t \in Targets :
       Registry!Register(t) <=>
         /\ life[t] = "unknown"
         /\ life' = [life EXCEPT ![t] = "registered"]
         /\ Enableds' = Enableds /\ Histories' = Histories
         /\ capabilities' = capabilities
BY DEF Registry!registryVars, Registry!RegistryInit, Registry!Register, Enableds, Histories

LEMMA SameSteps ==
  \A t \in Targets :
  /\ \A b \in BOOLEAN :
       Registry!Enable(t, b) <=>
         /\ life[t] = "registered"
         /\ Enableds' = [Enableds EXCEPT ![t] = b]
         /\ Histories' = Histories /\ life' = life /\ capabilities' = capabilities
  /\ \A config \in Contents :
       Registry!Configure(t, config) <=>
         /\ life[t] = "registered"
         /\ Histories' = [Histories EXCEPT ![t] = Append(@, config)]
         /\ Enableds' = Enableds /\ life' = life /\ capabilities' = capabilities
  /\ \A n \in 1 .. Len(Histories[t]) :
       Registry!Discover(t, n) <=>
         /\ life[t] = "registered"
         /\ n \in 1 .. Len(Histories[t])
         /\ capabilities' = [capabilities EXCEPT ![t] = n]
         /\ Enableds' = Enableds /\ Histories' = Histories /\ life' = life
  /\ Registry!Remove(t) <=>
         /\ life[t] = "registered"
         /\ life' = [life EXCEPT ![t] = "deleted"]
         /\ Enableds' = [Enableds EXCEPT ![t] = TRUE]
         /\ Histories' = [Histories EXCEPT ![t] = <<>>]
         /\ capabilities' = [capabilities EXCEPT ![t] = 0]
BY DEF Registry!Enable, Registry!Configure, Registry!Discover, Registry!Remove,
       Enableds, Histories

LEMMA SameNext ==
  Registry!RegistryNext <=>
    \E t \in Targets :
      \/ Registry!Register(t)
      \/ \E b \in BOOLEAN : Registry!Enable(t, b)
      \/ \E config \in Contents : Registry!Configure(t, config)
      \/ \E n \in 1 .. Len(Histories[t]) : Registry!Discover(t, n)
      \/ Registry!Remove(t)
BY DEF Registry!RegistryNext, Registry!RegistryStep, Histories

LEMMA InitRefines == Init => Registry!RegistryInit
<1> SUFFICES ASSUME Init PROVE Registry!RegistryInit
  OBVIOUS
<1>1. CatalogueInv
  BY InitInv
<1>2. \A t \in Targets : row[t].current = 0 /\ row[t].enabled = TRUE
  BY DEF Init, EmptyRow
<1>3. \A t \in Targets : History(t) \in Seq(Contents) /\ Len(History(t)) = 0
  BY <1>1, <1>2, HistoryIsSequence
<1>4. \A t \in Targets : History(t) = <<>>
  BY <1>3, EmptySeq
<1>5. \A t \in Targets : Histories[t] = <<>>
  BY <1>4 DEF Histories, History
<1>6. Histories = [t \in Targets |-> <<>>]
  BY <1>5 DEF Histories
<1>7. Enableds = [t \in Targets |-> TRUE]
  BY <1>2 DEF Enableds
<1> QED
  BY <1>6, <1>7, SameRegistry DEF Init

LEMMA NothingChanges ==
  ASSUME UNCHANGED <<life, row, versions, capabilities>>
  PROVE  UNCHANGED Registry!registryVars
<1>1. Histories' = Histories
  BY HistoriesStay
<1>2. Enableds' = Enableds
  BY DEF Enableds
<1> QED
  BY <1>1, <1>2, SameRegistry

(* A result names a version the target has, for its history only grows.    *)
LEMMA ResultRefines ==
  ASSUME CatalogueInv, NEW s \in Sessions, Conclude(s) \/ RecordCapabilities(s)
  PROVE  Registry!RegistryNext \/ UNCHANGED Registry!registryVars
<1>1. PICK x : x = tx[s]
  OBVIOUS
<1>2. PICK t : t = x.target
  OBVIOUS
<1>3. x \in Tx /\ Sound(x)
  BY <1>1 DEF CatalogueInv, TypeOK
<1>4. t \in Targets /\ x.seen \in Nat /\ x.pc \in {"concluding", "discovering"}
  BY <1>1, <1>2, <1>3 DEF Tx, Conclude, RecordCapabilities
<1>5. life[t] = "registered" /\ UNCHANGED <<life, row, versions>>
  BY <1>1, <1>2 DEF Conclude, RecordCapabilities, Registered
<1>6. Histories' = Histories /\ Enableds' = Enableds
  BY <1>5, HistoriesStay DEF Enableds
<1>7. CASE capabilities' = capabilities
  BY <1>5, <1>7, NothingChanges
<1>8. CASE /\ capabilities' = [capabilities EXCEPT ![t] = x.seen]
           /\ x.found \/ x.pc = "discovering"
  <2>1. x.seen # 0 /\ x.seen <= row[t].current
    BY <1>2, <1>3, <1>4, <1>5, <1>8 DEF Sound, SawPast, Registered
  <2>2. Len(Histories[t]) = row[t].current
    BY <1>4, HistoryIsSequence DEF Histories, History
  <2>3. x.seen \in 1 .. Len(Histories[t])
    BY <1>4, <2>1, <2>2, HistoryIsSequence
  <2>4. Registry!Discover(t, x.seen)
    BY <1>4, <1>5, <1>6, <1>8, <2>3, SameSteps
  <2> QED
    BY <1>4, <2>3, <2>4, SameNext
<1>9. \/ capabilities' = capabilities
      \/ /\ capabilities' = [capabilities EXCEPT ![t] = x.seen]
         /\ x.found \/ x.pc = "discovering"
  BY <1>1, <1>2 DEF Conclude, RecordCapabilities
<1> QED
  BY <1>7, <1>8, <1>9

LEMMA TargetRefines ==
  ASSUME CatalogueInv, NEW t \in Targets,
         \/ CreateTarget(t)
         \/ \E b \in BOOLEAN : SetEnabled(t, b)
         \/ DeleteTarget(t)
         \/ \E v \in Values : ReplaceSecret(t, v)
  PROVE  Registry!RegistryNext \/ UNCHANGED Registry!registryVars
<1>1. CASE CreateTarget(t)
  <2>1. UNCHANGED <<row, versions, capabilities>>
    BY <1>1 DEF CreateTarget
  <2>2. Histories' = Histories /\ Enableds' = Enableds
    BY <2>1, HistoriesStay DEF Enableds
  <2>3. Registry!Register(t)
    BY <1>1, <2>2, SameRegistry DEF CreateTarget
  <2> QED
    BY <2>3, SameNext
<1>2. ASSUME NEW b \in BOOLEAN, SetEnabled(t, b)
      PROVE  Registry!RegistryNext
  <2>1. PICK r : r = [row[t] EXCEPT !.enabled = b]
    OBVIOUS
  <2>2. r.current = row[t].current /\ r.enabled = b
    BY <2>1 DEF CatalogueInv, TypeOK, Row
  <2>3. row' = [row EXCEPT ![t] = r]
    BY <1>2, <2>1 DEF SetEnabled
  <2>4. \A u \in Targets : row'[u].current = row[u].current
    BY <2>2, <2>3 DEF CatalogueInv, TypeOK
  <2>5. Histories' = Histories
    BY <1>2, <2>4, HistoriesStay DEF SetEnabled
  <2>6. Enableds' = [Enableds EXCEPT ![t] = b]
    BY <2>2, <2>3 DEF Enableds, CatalogueInv, TypeOK
  <2>7. Registry!Enable(t, b)
    BY <1>2, <2>5, <2>6, SameSteps DEF SetEnabled, Registered
  <2> QED
    BY <2>7, SameNext
<1>3. CASE DeleteTarget(t)
  <2>1. EmptyRow.current = 0 /\ EmptyRow.enabled = TRUE
    BY DEF EmptyRow
  <2> DEFINE r == EmptyRow
  <2> HIDE DEF r
  <2>2. /\ row' = [row EXCEPT ![t] = r] /\ versions' = [versions EXCEPT ![t] = {}]
        /\ life[t] = "registered" /\ life' = [life EXCEPT ![t] = "deleted"]
        /\ capabilities' = [capabilities EXCEPT ![t] = 0]
    BY <1>3 DEF DeleteTarget, Registered, r
  <2>10. r.current = 0 /\ r.enabled = TRUE
    BY <2>1 DEF r
  <2>3. Enableds' = [Enableds EXCEPT ![t] = TRUE]
    BY <2>2, <2>10 DEF Enableds, CatalogueInv, TypeOK
  <2>4. History(t)' = <<>>
    <3>1. CatalogueInv'
      BY <1>3, DeleteInv
    <3>2. HistoriesTold'
      BY <3>1, HistoriesAreSequences, PTL
    <3>3. row'[t].current = 0
      BY <2>2, <2>10 DEF CatalogueInv, TypeOK
    <3> QED
      BY <3>2, <3>3, EmptySeq DEF HistoriesTold
  <2>5. ASSUME NEW u \in Targets \ {t}
        PROVE  History(u)' = History(u)
    <3>1. versions'[u] = versions[u] /\ row'[u].current = row[u].current
      BY <2>2 DEF CatalogueInv, TypeOK
    <3>2. \A v : CurrentOf(u, v)' = CurrentOf(u, v)
      BY <3>1, CurrentIsEntry
    <3>3. \A v : CurrentOf(u, v).config' = CurrentOf(u, v).config
      BY <3>2
    <3> QED
      BY <3>1, <3>3 DEF History
  <2>6. /\ Histories' = [u \in Targets |-> History(u)']
        /\ \A u \in Targets : Histories[u] = History(u)
        /\ DOMAIN Histories = Targets
    BY DEF Histories, History
  <2>7. \A u \in Targets : History(u)' = IF u = t THEN <<>> ELSE Histories[u]
    BY <2>4, <2>5, <2>6
  <2>8. Histories' = [Histories EXCEPT ![t] = <<>>]
    BY <2>6, <2>7
  <2>9. Registry!Remove(t)
    BY <2>2, <2>3, <2>8, SameSteps
  <2> QED
    BY <2>9, SameNext
<1>4. ASSUME NEW v \in Values, ReplaceSecret(t, v)
      PROVE  UNCHANGED Registry!registryVars
  BY <1>4, NothingChanges DEF ReplaceSecret
<1> QED
  BY <1>1, <1>2, <1>3, <1>4

LEMMA NextRefines ==
  ASSUME CatalogueInv, [Next]_vars
  PROVE  [Registry!RegistryNext]_(Registry!registryVars)
<1>1. ASSUME NEW s \in Sessions, CommitVersion(s)
      PROVE  Registry!RegistryNext
  <2>1. PICK t \in Targets, config \in Contents :
          /\ life[t] = "registered"
          /\ Histories' = [Histories EXCEPT ![t] = Append(@, config)]
          /\ Enableds' = Enableds
          /\ UNCHANGED <<life, capabilities>>
    BY <1>1, CommitAppends
  <2>2. Registry!Configure(t, config)
    BY <2>1, SameSteps
  <2> QED
    BY <2>2, SameNext
<1>2. ASSUME NEW s \in Sessions, NEW t \in Targets,
             \/ \E d \in Documents :
                  \/ \E v \in Values : SavePlaintext(s, t, d, v)
                  \/ \E ref \in SecretIds \cup {NoSecret} : SaveDocument(s, t, d, ref)
             \/ \E b \in Bodies : UploadAdapter(s, t, b)
             \/ \E r \in versions[t] : RestoreVersion(s, t, r)
             \/ BeginTest(s, t)
             \/ BeginDiscovery(s, t)
      PROVE  UNCHANGED rowVars
  BY <1>2 DEF SavePlaintext, SaveDocument, UploadAdapter, RestoreVersion, BeginTest, BeginDiscovery
<1>3. ASSUME NEW s \in Sessions,
             \/ StoreArtifact(s)
             \/ \E answer \in Statuses, found \in BOOLEAN : Probe(s, answer, found)
             \/ Rollback(s)
      PROVE  UNCHANGED rowVars
  BY <1>3 DEF StoreArtifact, Probe, Rollback
<1>4. CASE UNCHANGED rowVars
  BY <1>4, NothingChanges DEF rowVars
<1>5. CASE UNCHANGED vars
  BY <1>5, NothingChanges DEF vars
<1> QED
  BY <1>1, <1>2, <1>3, <1>4, <1>5, TargetRefines, ResultRefines DEF Next

(* Every behaviour of the catalogue is one of the registry: the history    *)
(* grows at its end only, and the capabilities on record are those of one  *)
(* of its versions.                                                        *)
THEOREM ImplementsRegistry == Spec => RegistryImplemented
<1>1. CatalogueInv /\ [Next]_vars => [Registry!RegistryNext]_(Registry!registryVars)
  BY NextRefines
<1> QED
  BY InitInv, NextInv, InitRefines, <1>1, PTL
  DEF Spec, RegistryImplemented, Registry!RegistrySpec

=============================================================================
