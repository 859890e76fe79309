---------------------------- MODULE AdapterSession ----------------------------
(***************************************************************************)
(* One adapter in use: it is made from a target's configuration and the    *)
(* resolved secrets, learns the target's capabilities (once, for the two   *)
(* kinds that keep them) and carries out operations. The target may change *)
(* what it is able to do at any moment.                                    *)
(***************************************************************************)
EXTENDS TargetAdapters

CONSTANTS
  Configs,       \* configurations of targets
  Credentials,   \* what resolving their secrets may have given
  Reports,       \* sets of capabilities a target may report
  Responses,     \* what one request may meet
  Policies       \* retry configurations

Config ==
  [type : Registered \cup {"unknown"}, base_url : BOOLEAN, model : BOOLEAN,
   python_target : {"absent", "malformed", "loads"},
   bearer_token : BOOLEAN, api_key : BOOLEAN, secret_header : BOOLEAN,
   protocol : SUBSET Operations, fields : SUBSET Fields, canonical : BOOLEAN,
   on : SUBSET Capabilities, off : SUBSET Capabilities, methods : SUBSET Operations]

(* A target's own error record comes with an HTTP error or an exception.   *)
Response ==
  [kind : {"timeout", "connect", "transport", "status", "raises", "body", "events"},
   status : Nat \cup {None}, after : Nat \cup {None},
   own : [category : ErrorCategory, retryable : BOOLEAN, after : Nat \cup {None}] \cup {None},
   body : {"valid", "empty", "not_json", "not_object", "malformed"},
   field : Fields \cup {None}, value : {"good", "missing", "null", "wrong", "invalid"},
   events : Seq(Nat)]

ASSUME SessionAssumption ==
  /\ Configs \subseteq Config
  /\ Credentials \subseteq [bearer_token : BOOLEAN, api_key : BOOLEAN, header : BOOLEAN]
  /\ Reports \subseteq SUBSET Capabilities
  /\ \A r \in Responses :
       /\ r \in Response
       /\ r.kind = "status" => r.status # None
       /\ r.own # None => r.kind \in {"status", "raises"}
  /\ \A p \in Policies :
       p.attempts \in Nat /\ p.initial \in Nat /\ p.maximum \in Nat /\ p.initial <= p.maximum
  /\ None \notin Nat /\ None \notin Fields /\ None \notin Reports
  /\ None \notin ErrorRecord

VARIABLES
  config,        \* the configuration of the adapter, None before it is made
  credentials,   \* the secrets it was given
  made,          \* what the factory answered
  reported,      \* what the target is able to do now
  cached,        \* what the adapter remembers of it, None if nothing
  last           \* the last operation asked for, with its response and result

sessionVars == <<config, credentials, made, reported, cached, last>>

SessionTypeOK ==
  /\ config \in Configs \cup {None}
  /\ credentials \in Credentials \cup {None}
  /\ made \in {"no", "opened", "ValueError", "TargetUnavailableError",
               "TargetProtocolError", "UploadedPythonAdapterError"}
  /\ reported \in Reports
  /\ cached \in Reports \cup {None}
  /\ last # None => last.response \in Responses /\ last.op \in Operations

SessionInit ==
  /\ config = None
  /\ credentials = None
  /\ made = "no"
  /\ reported \in Reports
  /\ cached = None
  /\ last = None

(* Services build uploaded adapters from the source, others by the factory; *)
(* only secrets that the configuration names are resolved.                 *)
Make(c, given) ==
  /\ made = "no"
  /\ given.bearer_token => c.bearer_token
  /\ given.api_key => c.api_key
  /\ given.header => c.secret_header
  /\ config' = c
  /\ credentials' = given
  /\ made' = IF c.type = "uploaded_python" THEN load_uploaded_python_adapter(c)
             ELSE create_target_adapter(c, given)
  /\ UNCHANGED <<reported, cached, last>>

TargetChanges(able) ==
  /\ reported' = able
  /\ UNCHANGED <<config, credentials, made, cached, last>>

(* An adapter that keeps the capabilities goes by those it has.            *)
Known ==
  Advertised(config, IF Caches(config) /\ cached # None THEN cached ELSE reported)

Learnt == IF Caches(config) THEN IF cached = None THEN reported ELSE cached ELSE None

Wrapped == made = "opened" /\ config.type # "uploaded_python"

MustLearn == Caches(config) /\ cached = None

(* A response that the kind of operation and of target can give.           *)
Possible(op, r) ==
  /\ r.kind \in IF config.type = "python" THEN {"raises", "body", "events"}
               ELSE {"timeout", "connect", "transport", "status", "body", "events"}
  /\ r.kind = "events" => op = "stream_query"
  /\ r.kind = "body" => op # "stream_query"
  /\ r.field # None => op \in {"query", "retrieve"}
                        /\ config.type \in {"openai_compatible", "generic_http"}

AskCapabilities ==
  /\ Wrapped
  /\ MustLearn
  /\ cached' = Learnt
  /\ UNCHANGED <<config, credentials, made, reported, last>>

(* The capabilities are asked for first, if the adapter does not have      *)
(* them; a failure of that question is the result and nothing is kept.     *)
Ask(op, r) ==
  /\ Wrapped
  /\ Possible(op, r)
  /\ last' = [op |-> op, response |-> r, result |-> Result(config, op, r, Known)]
  /\ cached' = Learnt
  /\ UNCHANGED <<config, credentials, made, reported>>

AskFails(op, r) ==
  /\ Wrapped
  /\ MustLearn
  /\ Possible(op, r)
  /\ r.kind \notin {"body", "events"}
  /\ last' = [op |-> op, response |-> r,
              result |-> Result([config EXCEPT !.methods = Operations], op, r, Capabilities)]
  /\ UNCHANGED <<config, credentials, made, reported, cached>>

=============================================================================
