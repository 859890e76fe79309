--------------------------- MODULE TargetCatalogue ---------------------------
(***************************************************************************)
(* services/target_service.py, services/secret_service.py and the rows of  *)
(* db/target_repository.py: targets with their immutable configuration     *)
(* versions, their secrets, the last connection test and the capabilities. *)
(*                                                                         *)
(* A request (or a command of the CLI) is one database transaction. What   *)
(* it read stays in its session while it awaits the artifact store or the  *)
(* target, and others commit meanwhile; what it writes is seen by others   *)
(* when it commits. An artifact is content-addressed, so a configuration   *)
(* and the artifact that holds its YAML are the same value here.           *)
(***************************************************************************)
EXTENDS Naturals, Sequences, FiniteSets

CONSTANTS
  Targets,       \* target ids (UUIDs, never used twice)
  Sessions,      \* the requests that may be in progress at once
  Bodies,        \* what a configuration says, its secret apart
  Values,        \* plaintexts of secrets
  Documents,     \* the target.yaml documents that are submitted
  MaxVersion,    \* bound: configuration versions of a target
  MaxSecrets     \* bound: secret ids ever minted

(* A submitted document. Its secret field is absent, a plaintext, or the   *)
(* SecretRef an editor loaded from the current version. What the flush of  *)
(* an invalid one leaves (status INVALID, extracted secrets) is rolled     *)
(* back with the request that its error ends, so only valid ones are here. *)
DocumentShape == [body : Bodies, secret : {"none", "plain", "reference"}]

ASSUME DocumentsAssumption == Documents \subseteq DocumentShape
ASSUME CatalogueBounds ==
  MaxVersion \in Nat /\ MaxSecrets \in Nat
ASSUME CatalogueNonempty == Targets # {} /\ Bodies # {} /\ Values # {}

SecretIds == 1 .. MaxSecrets
NoSecret  == 0

VARIABLES
  life,          \* whether a target row exists
  row,           \* the target row
  versions,      \* target_config_versions of a target
  secret,        \* the secret row of a target, id NoSecret if there is none
  connection,    \* the connection row, with the version that was tested
  capabilities,  \* the version whose capabilities are recorded, 0 if none
  blobs,         \* contents in the artifact store
  artifacts,     \* contents with an artifact row
  tx,            \* the transaction of each session
  minted         \* number of secret ids generated

vars == <<life, row, versions, secret, connection, capabilities, blobs,
          artifacts, tx, minted>>
rowVars == <<life, row, versions, secret, connection, capabilities, artifacts>>

Contents == [kind : {"declared", "uploaded", "source"}, body : Bodies,
             ref : SecretIds \cup {NoSecret}]
Version  == [version : Nat, config : Contents]
Row      == [enabled : BOOLEAN, status : {"empty", "configured"},
             current : Nat]
Secret   == [id : Nat, value : Values]
Statuses == {"not_tested", "connected", "unverified", "disconnected"}

(* seen is current_config_version as this transaction read it; rows are    *)
(* its uncommitted artifact rows, puts what it has still to store.         *)
Tx == [pc : {"idle", "storing", "probing", "concluding", "discovering"},
       target : Targets, seen : Nat, config : Contents, secret : Secret,
       puts : Seq(Contents), rows : SUBSET Contents,
       answer : Statuses, found : BOOLEAN]

EmptyRow  == [enabled |-> TRUE, status |-> "empty", current |-> 0]
NotTested == [status |-> "not_tested", of |-> 0]
AnyValue  == CHOOSE v \in Values : TRUE
Unset     == [id |-> NoSecret, value |-> AnyValue]
NoConfig  == [kind |-> "declared", body |-> CHOOSE b \in Bodies : TRUE,
              ref |-> NoSecret]
Idle      == [pc |-> "idle", target |-> CHOOSE t \in Targets : TRUE,
              seen |-> 0, config |-> NoConfig, secret |-> Unset,
              puts |-> <<>>, rows |-> {}, answer |-> "not_tested",
              found |-> FALSE]

TypeOK ==
  /\ life \in [Targets -> {"unknown", "registered", "deleted"}]
  /\ row \in [Targets -> Row]
  /\ versions \in [Targets -> SUBSET Version]
  /\ secret \in [Targets -> Secret]
  /\ connection \in [Targets -> [status : Statuses, of : Nat]]
  /\ capabilities \in [Targets -> Nat]
  /\ blobs \in SUBSET Contents
  /\ artifacts \in SUBSET Contents
  /\ tx \in [Sessions -> Tx]
  /\ minted \in Nat

Init ==
  /\ life = [t \in Targets |-> "unknown"]
  /\ row = [t \in Targets |-> EmptyRow]
  /\ versions = [t \in Targets |-> {}]
  /\ secret = [t \in Targets |-> Unset]
  /\ connection = [t \in Targets |-> NotTested]
  /\ capabilities = [t \in Targets |-> 0]
  /\ blobs = {} /\ artifacts = {}
  /\ tx = [s \in Sessions |-> Idle]
  /\ minted = 0

-----------------------------------------------------------------------------
(* Reads.                                                                  *)

Registered(t) == life[t] = "registered"
CurrentOf(t, v) == CHOOSE r \in versions[t] : r.version = v
SourceOf(config) == [config EXCEPT !.kind = "source", !.ref = NoSecret]

(* A flushed secret row is locked until its transaction ends.              *)
SecretLocked(t) ==
  \E o \in Sessions : tx[o].target = t /\ tx[o].secret.id # NoSecret

(* resolve_secret: the row exists and belongs to this target.              *)
Resolves(t, ref) == ref = NoSecret \/ secret[t].id = ref

(* get_adapter: enabled, configured, its secrets and its source at hand.   *)
AdapterAvailable(t) ==
  /\ row[t].enabled
  /\ row[t].current # 0
  /\ LET config == CurrentOf(t, row[t].current).config IN
       IF config.kind = "uploaded"
         THEN SourceOf(config) \in artifacts \cap blobs
         ELSE Resolves(t, config.ref)

-----------------------------------------------------------------------------
(* Steps that are a transaction by themselves.                             *)

CreateTarget(t) ==
  /\ life[t] = "unknown"
  /\ life' = [life EXCEPT ![t] = "registered"]
  /\ connection' = [connection EXCEPT ![t] = NotTested]
  /\ UNCHANGED <<row, versions, secret, capabilities, blobs, artifacts, tx,
                 minted>>

SetEnabled(t, enabled) ==
  /\ Registered(t)
  /\ row[t].enabled # enabled
  /\ row' = [row EXCEPT ![t].enabled = enabled]
  /\ UNCHANGED <<life, versions, secret, connection, capabilities, blobs,
                 artifacts, tx, minted>>

CapabilitiesStay(t) ==
  /\ Registered(t)
  /\ ~SecretLocked(t)
  /\ life' = [life EXCEPT ![t] = "deleted"]
  /\ row' = [row EXCEPT ![t] = EmptyRow]
  /\ versions' = [versions EXCEPT ![t] = {}]
  /\ secret' = [secret EXCEPT ![t] = Unset]
  /\ connection' = [connection EXCEPT ![t] = NotTested]
  /\ UNCHANGED <<capabilities, blobs, artifacts, tx, minted>>

(* The rows owned by the target go with it; artifacts stay.                *)
DeleteTarget(t) ==
  /\ Registered(t)
  /\ ~SecretLocked(t)
  /\ life' = [life EXCEPT ![t] = "deleted"]
  /\ row' = [row EXCEPT ![t] = EmptyRow]
  /\ versions' = [versions EXCEPT ![t] = {}]
  /\ secret' = [secret EXCEPT ![t] = Unset]
  /\ connection' = [connection EXCEPT ![t] = NotTested]
  /\ capabilities' = [capabilities EXCEPT ![t] = 0]
  /\ UNCHANGED <<blobs, artifacts, tx, minted>>

(* replace_secret: a new value behind the same id.                         *)
ReplaceSecret(t, v) ==
  /\ Registered(t)
  /\ ~SecretLocked(t)
  /\ secret[t].id # NoSecret
  /\ secret' = [secret EXCEPT ![t].value = v]
  /\ UNCHANGED <<life, row, versions, connection, capabilities, blobs,
                 artifacts, tx, minted>>

-----------------------------------------------------------------------------
(* Saving, restoring and uploading a configuration.                        *)

Begin(s, t, config, pending, puts) ==
  tx' = [tx EXCEPT ![s] = [Idle EXCEPT !.pc = "storing", !.target = t,
                                       !.seen = row[t].current,
                                       !.config = config, !.secret = pending,
                                       !.puts = puts]]

MayBegin(s, t) ==
  tx[s].pc = "idle" /\ Registered(t) /\ row[t].current < MaxVersion

AlwaysMinted(t) == minted + 1

SecretName(t) == IF secret[t].id # NoSecret THEN secret[t].id ELSE minted + 1

(* extract_and_store replaces a plaintext by a reference; the id of a      *)
(* secret that has a row already is kept.                                  *)
SavePlaintext(s, t, d, v) ==
  LET id     == SecretName(t)
      config == [kind |-> "declared", body |-> d.body, ref |-> id]
  IN /\ MayBegin(s, t)
     /\ d.secret = "plain"
     /\ ~SecretLocked(t)
     /\ id \in SecretIds
     /\ minted' = IF id > minted THEN id ELSE minted
     /\ Begin(s, t, config, [id |-> id, value |-> v], <<config>>)
     /\ UNCHANGED <<rowVars, blobs>>

(* A document without a plaintext; a reference must resolve.               *)
SaveDocument(s, t, d, ref) ==
  LET config == [kind |-> "declared", body |-> d.body, ref |-> ref] IN
  /\ MayBegin(s, t)
  /\ \/ d.secret = "none" /\ ref = NoSecret
     \/ d.secret = "reference" /\ ref # NoSecret /\ Resolves(t, ref)
  /\ Begin(s, t, config, Unset, <<config>>)
  /\ UNCHANGED <<rowVars, blobs, minted>>

UploadSourceLater(s, t, body) ==
  LET config == [kind |-> "uploaded", body |-> body, ref |-> NoSecret] IN
  /\ MayBegin(s, t)
  /\ Begin(s, t, config, Unset, <<config>>)
  /\ UNCHANGED <<rowVars, blobs, minted>>

UploadAdapter(s, t, body) ==
  LET config == [kind |-> "uploaded", body |-> body, ref |-> NoSecret] IN
  /\ MayBegin(s, t)
  /\ Begin(s, t, config, Unset, <<SourceOf(config), config>>)
  /\ UNCHANGED <<rowVars, blobs, minted>>

(* The historical configuration and its artifact are used again.           *)
RestoreVersion(s, t, r) ==
  /\ MayBegin(s, t)
  /\ r \in versions[t]
  /\ Begin(s, t, r.config, Unset, <<>>)
  /\ UNCHANGED <<rowVars, blobs, minted>>

(* ArtifactService.put: the bytes first, then a row in this transaction.   *)
StoreArtifact(s) ==
  /\ tx[s].pc = "storing" /\ tx[s].puts # <<>>
  /\ LET content == Head(tx[s].puts) IN
       /\ \A o \in Sessions \ {s} : content \notin tx[o].rows
       /\ blobs' = blobs \cup {content}
       /\ tx' = [tx EXCEPT ![s].puts = Tail(@),
                           ![s].rows = @ \cup {content}]
  /\ UNCHANGED <<rowVars, minted>>

NeverTaken(t, n) == FALSE

VersionTaken(t, n) == \E r \in versions[t] : r.version = n

ResetConnection(t) == [connection EXCEPT ![t] = NotTested]

(* persist_config_version and the reset of the connection, then the commit.*)
CommitVersion(s) ==
  LET t == tx[s].target
      n == tx[s].seen + 1
  IN /\ tx[s].pc = "storing" /\ tx[s].puts = <<>>
     /\ Registered(t) /\ ~VersionTaken(t, n)
     /\ versions' = [versions EXCEPT
          ![t] = @ \cup {[version |-> n, config |-> tx[s].config]}]
     /\ row' = [row EXCEPT ![t].status = "configured", ![t].current = n]
     /\ secret' = IF tx[s].secret.id = NoSecret THEN secret
                  ELSE [secret EXCEPT ![t] = tx[s].secret]
     /\ artifacts' = artifacts \cup tx[s].rows
     /\ connection' = ResetConnection(t)
     /\ tx' = [tx EXCEPT ![s] = Idle]
     /\ UNCHANGED <<life, capabilities, blobs, minted>>

(* An error, a conflict or a lost client: the transaction is rolled back.  *)
Rollback(s) ==
  /\ tx[s].pc # "idle"
  /\ tx' = [tx EXCEPT ![s] = Idle]
  /\ UNCHANGED <<rowVars, blobs, minted>>

-----------------------------------------------------------------------------
(* Connection tests and capability discovery.                              *)

(* An adapter that cannot be built is a disconnected target.               *)
BeginTest(s, t) ==
  /\ tx[s].pc = "idle" /\ Registered(t)
  /\ tx' = [tx EXCEPT ![s] =
              [Idle EXCEPT !.target = t, !.seen = row[t].current,
                 !.pc = IF AdapterAvailable(t) THEN "probing"
                        ELSE "concluding",
                 !.answer = IF AdapterAvailable(t) THEN "not_tested"
                            ELSE "disconnected"]]
  /\ UNCHANGED <<rowVars, blobs, minted>>

(* health() answers, has no mechanism, or fails; capabilities() is asked   *)
(* in the first two cases, and any error of it that is not an adapter      *)
(* error turns the result into a disconnection.                            *)
Probe(s, answer, found) ==
  /\ tx[s].pc = "probing"
  /\ answer \in Statuses \ {"not_tested"}
  /\ answer = "disconnected" => ~found
  /\ tx' = [tx EXCEPT ![s].pc = "concluding", ![s].answer = answer,
                      ![s].found = found]
  /\ UNCHANGED <<rowVars, blobs, minted>>

Conclude(s) ==
  LET t == tx[s].target IN
  /\ tx[s].pc = "concluding" /\ Registered(t)
  /\ connection' = [connection EXCEPT ![t] = [status |-> tx[s].answer,
                                              of |-> tx[s].seen]]
  /\ capabilities' = IF tx[s].found
                     THEN [capabilities EXCEPT ![t] = tx[s].seen]
                     ELSE capabilities
  /\ tx' = [tx EXCEPT ![s] = Idle]
  /\ UNCHANGED <<life, row, versions, secret, blobs, artifacts, minted>>

BeginDiscovery(s, t) ==
  /\ tx[s].pc = "idle" /\ Registered(t) /\ AdapterAvailable(t)
  /\ tx' = [tx EXCEPT ![s] = [Idle EXCEPT !.pc = "discovering",
                                !.target = t, !.seen = row[t].current]]
  /\ UNCHANGED <<rowVars, blobs, minted>>

RecordCapabilities(s) ==
  LET t == tx[s].target IN
  /\ tx[s].pc = "discovering" /\ Registered(t)
  /\ capabilities' = [capabilities EXCEPT ![t] = tx[s].seen]
  /\ tx' = [tx EXCEPT ![s] = Idle]
  /\ UNCHANGED <<life, row, versions, secret, connection, blobs, artifacts,
                 minted>>

Next ==
  \/ \E t \in Targets :
       \/ CreateTarget(t)
       \/ \E b \in BOOLEAN : SetEnabled(t, b)
       \/ DeleteTarget(t)
       \/ \E v \in Values : ReplaceSecret(t, v)
  \/ \E s \in Sessions :
       \/ \E t \in Targets :
            \/ \E d \in Documents :
                 \/ \E v \in Values : SavePlaintext(s, t, d, v)
                 \/ \E ref \in SecretIds \cup {NoSecret} :
                      SaveDocument(s, t, d, ref)
            \/ \E b \in Bodies : UploadAdapter(s, t, b)
            \/ \E r \in versions[t] : RestoreVersion(s, t, r)
            \/ BeginTest(s, t)
            \/ BeginDiscovery(s, t)
       \/ StoreArtifact(s)
       \/ CommitVersion(s)
       \/ Rollback(s)
       \/ \E answer \in Statuses, found \in BOOLEAN : Probe(s, answer, found)
       \/ Conclude(s)
       \/ RecordCapabilities(s)

Spec == Init /\ [][Next]_vars

-----------------------------------------------------------------------------
(* Two editors of one target never leave a gap or write one number twice:  *)
(* the versions of a target are 1 to its current one, each once, and the   *)
(* status says whether there is any (persist_config_version).              *)
HistoryIsGapless ==
  \A t \in Targets :
    /\ {r.version : r \in versions[t]} = 1 .. row[t].current
    /\ \A r, q \in versions[t] : r.version = q.version => r = q
    /\ row[t].status = "configured" <=> row[t].current # 0

(* Every reference of every version, the restored ones included, resolves  *)
(* to the secret of its own target, however often the secret was replaced  *)
(* and whichever saves were rolled back (extract_and_store).               *)
ReferencesResolve ==
  \A t \in Targets : \A r \in versions[t] : Resolves(t, r.config.ref)

(* The artifact of every committed version, and the Python source an       *)
(* uploaded one names, have a row, and every row has its bytes in the      *)
(* store (ArtifactService.put stores the bytes first).                     *)
Needed(config) ==
  {config} \cup (IF config.kind = "uploaded" THEN {SourceOf(config)} ELSE {})
ArtifactsAreStored ==
  /\ artifacts \subseteq blobs
  /\ \A t \in Targets : \A r \in versions[t] : Needed(r.config) \subseteq artifacts

(* The catalogue implements the registry that tests rely on: the history   *)
(* only grows, at its end, and recorded capabilities are those of one of   *)
(* its versions, whatever the interleaving of saves, restores and tests.   *)
Registry == INSTANCE TargetRegistry
  WITH Configs <- Contents,
       enabled <- [t \in Targets |-> row[t].enabled],
       history <- [t \in Targets |->
                     [n \in 1 .. row[t].current |-> CurrentOf(t, n).config]],
       capable <- capabilities
RegistryImplemented == Registry!RegistrySpec

=============================================================================
