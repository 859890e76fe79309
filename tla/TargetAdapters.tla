---------------------------- MODULE TargetAdapters ----------------------------
(***************************************************************************)
(* The adapters that stand between the evaluator and a target (adapters/): *)
(* how the factory admits a configuration, what each adapter advertises,   *)
(* and what one call returns for each thing the target may answer. An      *)
(* adapter turns every answer into a canonical value or an error record;   *)
(* the retry policy then reads the record.                                 *)
(*                                                                         *)
(* A configuration is abstracted to what those decisions look at. "fields" *)
(* are the response paths of a generic_http query, "on" and "off" what     *)
(* protocol.capabilities overrides, "methods" what a Python object has.    *)
(***************************************************************************)
EXTENDS Naturals, Sequences, RetryPolicy

CONSTANT None

Operations ==
  {"capabilities", "health", "create_corpus", "get_corpus", "delete_corpus",
   "upload_document", "upload_chunks", "get_operation", "retrieve", "query",
   "stream_query", "recover_request", "aclose"}

(* What a query response may hold, by the way generic_http maps it.        *)
Models   == {"retrieval", "usage", "decision"}
Lists    == {"citations", "claims", "assessments"}
Scalars  == {"target_run_id", "corpus_id", "insufficient_evidence"}
Mappings == {"configuration", "architecture"}
Fields   == {"answer"} \cup Models \cup Lists \cup Scalars \cup Mappings

Capabilities ==
  {"query", "answer", "retrieval", "streaming", "document_ingestion",
   "chunk_ingestion", "request_recovery", "idempotency"}
    \cup (Lists \cup {"decision"})

Network == {"rag_eval_protocol", "openai_compatible", "generic_http"}

----------------------------------------------------------------------------
(* Results. A record has no retry_after for most errors.                   *)

ErrorCategory ==
  {"VALIDATION", "UNSUPPORTED_CAPABILITY", "AUTHENTICATION", "AUTHORIZATION", "NOT_FOUND",
   "CONFLICT", "NETWORK", "CONNECTION", "TIMEOUT", "RATE_LIMIT", "RESOURCE_EXHAUSTED",
   "INGESTION", "RETRIEVAL", "GENERATION", "INVALID_RESPONSE", "INTERNAL", "UNKNOWN"}

ErrorRecord == [category : ErrorCategory, retryable : BOOLEAN,
                http_status : Nat \cup {None}, retry_after : Nat \cup {None}]

Returned(observed) == [returned |-> TRUE, observed |-> observed, error |-> None]
Raised(error)      == [returned |-> FALSE, observed |-> {}, error |-> error]

TargetAdapterError(category, retryable, status, after) ==
  Raised([category |-> category, retryable |-> retryable,
          http_status |-> status, retry_after |-> after])

UnsupportedCapabilityError ==
  TargetAdapterError("UNSUPPORTED_CAPABILITY", FALSE, None, None)
TargetProtocolError == TargetAdapterError("INVALID_RESPONSE", FALSE, None, None)

(* What leaves the adapter without a record of its own.                    *)
Unwrapped == Raised(None)

----------------------------------------------------------------------------
(* The factory. It answers "opened" or the exception it raises.            *)

Registered == Network \cup {"python", "uploaded_python"}

_validate_required_credentials(config, credentials) ==
  /\ config.bearer_token => credentials.bearer_token
  /\ config.api_key => credentials.api_key
  /\ config.secret_header => credentials.header

_validate_http_connection(config)   == config.base_url
_validate_openai_compatible(config) == _validate_http_connection(config) /\ config.model
_validate_python(config)            == config.python_target # "absent"
_validate_generic_http(config) ==
  /\ _validate_http_connection(config)
  /\ config.protocol # {} \/ config.on # {} \/ config.off # {}

validator(config) ==
  /\ config.type = "python" => _validate_python(config)
  /\ config.type = "rag_eval_protocol" => _validate_http_connection(config)
  /\ config.type = "openai_compatible" => _validate_openai_compatible(config)
  /\ config.type = "generic_http" => _validate_generic_http(config)

_validate_core_operations(methods) == {"capabilities", "query"} \subseteq methods
_validate_adapter_interface(methods) == Operations \subseteq methods

load_python_target(config) ==
  IF config.python_target # "loads" THEN "TargetUnavailableError"
  ELSE IF ~_validate_core_operations(config.methods) THEN "TargetProtocolError"
  ELSE "opened"

load_uploaded_python_adapter(config) ==
  IF /\ config.python_target = "loads"
     /\ _validate_adapter_interface(config.methods)
  THEN "opened" ELSE "UploadedPythonAdapterError"

OneSecret(credentials) == ~(credentials.bearer_token /\ credentials.api_key)
_rag_eval_protocol_factory(credentials) ==
  IF OneSecret(credentials) THEN "opened" ELSE "ValueError"

create_target_adapter(config, credentials) ==
  IF \/ config.type \notin Registered
     \/ ~validator(config)
     \/ config.type = "uploaded_python"
     \/ ~_validate_required_credentials(config, credentials)
  THEN "ValueError"
  ELSE IF config.type = "python" THEN load_python_target(config)
  ELSE IF config.type = "rag_eval_protocol" THEN _rag_eval_protocol_factory(credentials)
  ELSE "opened"

(* The secrets every request of an opened adapter carries: of two tokens   *)
(* the bearer token.                                                       *)
Token(credentials) ==
  IF credentials.bearer_token THEN {"bearer_token"}
  ELSE {s \in {"api_key"} : credentials.api_key}

Sends(credentials) ==
  Token(credentials) \cup {s \in {"header"} : credentials.header}

----------------------------------------------------------------------------
(* Capabilities: told by the target, or read off the configuration.        *)

Configured(config, inferred) == (inferred \cup config.on) \ config.off

GenericCapabilities(config) ==
  Configured(config,
    {c \in {"query"} : "query" \in config.protocol}
      \cup {c \in {"retrieval"} : "retrieve" \in config.protocol}
      \cup {c \in {"answer"} \cup Lists \cup {"decision"} :
              "query" \in config.protocol /\ c \in config.fields})

OpenAICapabilities(config) == Configured(config, {"query", "answer"})

(* Only these two remember what the target said first.                     *)
Caches(config) == config.type \in {"python", "rag_eval_protocol"}

Advertised(config, reported) ==
  IF config.type = "generic_http" THEN GenericCapabilities(config)
  ELSE IF config.type = "openai_compatible" THEN OpenAICapabilities(config)
  ELSE reported

Needs(op) ==
  CASE op \in {"create_corpus", "get_corpus", "delete_corpus", "get_operation"} ->
         {"document_ingestion", "chunk_ingestion"}
    [] op = "upload_document" -> {"document_ingestion"}
    [] op = "upload_chunks"   -> {"chunk_ingestion"}
    [] op = "retrieve"        -> {"retrieval"}
    [] op = "query"           -> {"query"}
    [] op = "stream_query"    -> {"streaming"}
    [] op = "recover_request" -> {"request_recovery"}

_require_capability(op, advertised) == Needs(op) \cap advertised # {}

GenericUnsupported ==
  {"create_corpus", "get_corpus", "delete_corpus", "upload_document",
   "upload_chunks", "get_operation", "stream_query", "recover_request"}
OpenAIUnsupported == GenericUnsupported \cup {"retrieve"}

----------------------------------------------------------------------------
(* What a call may meet: a transport failure, an HTTP error (with the      *)
(* target's own error record or without), a body, a stream of events, an   *)
(* exception of a Python target.                                           *)

_STATUS_CATEGORIES(status) ==
  CASE status \in {400, 415, 422} -> "VALIDATION"
    [] status = 401 -> "AUTHENTICATION"
    [] status = 403 -> "AUTHORIZATION"
    [] status = 404 -> "NOT_FOUND"
    [] status = 409 -> "CONFLICT"
    [] status = 413 -> "RESOURCE_EXHAUSTED"
    [] status = 429 -> "RATE_LIMIT"
    [] status = 500 -> "INTERNAL"
    [] status = 502 -> "INVALID_RESPONSE"
    [] status = 503 -> "CONNECTION"
    [] status = 504 -> "TIMEOUT"
    [] OTHER -> "UNKNOWN"

OpenAIStatus(status) ==
  CASE status = 401 -> "AUTHENTICATION"
    [] status = 403 -> "AUTHORIZATION"
    [] status = 404 -> "NOT_FOUND"
    [] status = 429 -> "RATE_LIMIT"
    [] status >= 500 -> "CONNECTION"
    [] OTHER -> "INVALID_RESPONSE"

GenericStatus(status) ==
  CASE status = 400 -> "VALIDATION"
    [] status = 409 -> "CONFLICT"
    [] OTHER -> OpenAIStatus(status)

Transient(status) == status \in {429, 502, 503, 504}

FaultCategory(kind) ==
  CASE kind = "timeout" -> "TIMEOUT"
    [] kind = "connect" -> "CONNECTION"
    [] kind = "transport" -> "NETWORK"

_network_error(kind) == TargetAdapterError(FaultCategory(kind), FALSE, None, None)

_raise_http_error(r) ==
  IF r.own # None
  THEN TargetAdapterError(r.own.category, r.own.retryable, r.status,
         IF r.own.after \notin {None, 0} THEN r.own.after ELSE r.after)
  ELSE TargetAdapterError(_STATUS_CATEGORIES(r.status), Transient(r.status),
         r.status, r.after)

UnknownFault(kind) ==
  TargetAdapterError(IF kind = "transport" THEN "UNKNOWN" ELSE FaultCategory(kind),
    kind # "transport", None, None)

FlaggedFault(kind) ==
  TargetAdapterError(FaultCategory(kind), kind # "transport", None, None)

IsFault(r) == r.kind \in {"timeout", "connect", "transport"}

(* A streamed query: an event that does not rise above the one before it   *)
(* ends the stream with an error.                                          *)
Follows(yielded, event) == yielded = <<>> \/ event > yielded[Len(yielded)]

Receives(so, event) ==
  IF so.broken \/ ~Follows(so.yielded, event) THEN [so EXCEPT !.broken = TRUE]
  ELSE [so EXCEPT !.yielded = Append(@, event)]

stream_query(events) ==
  LET after[n \in 0 .. Len(events)] ==
        IF n = 0 THEN [yielded |-> <<>>, broken |-> FALSE]
        ELSE Receives(after[n - 1], events[n])
  IN after[Len(events)]

Streamed(events) == stream_query(events).yielded

HttpResult(op, r, advertised) ==
  IF ~_require_capability(op, advertised) THEN UnsupportedCapabilityError
  ELSE IF IsFault(r) THEN _network_error(r.kind)
  ELSE IF r.kind = "status" THEN _raise_http_error(r)
  ELSE IF r.kind = "events"
  THEN IF stream_query(r.events).broken THEN TargetProtocolError ELSE Returned({})
  ELSE IF r.body = "valid" \/ (op = "delete_corpus" /\ r.body \in {"empty", "malformed"})
  THEN Returned(Fields)
  ELSE TargetProtocolError

(* A path is read only when it is configured; every value that does not    *)
(* fit is a protocol error, except a configuration object that does not    *)
(* validate, whose ValidationError is not wrapped.                         *)
Mapped(field, value) ==
  CASE value = "good" -> "value"
    [] field \in Scalars /\ value = "null" -> "none"
    [] field = "configuration" /\ value = "invalid" -> "unwrapped"
    [] field = "architecture" /\ value = "invalid" -> "unwrapped"
    [] OTHER -> "error"

(* r.field is the one path of the body that does not hold a good value.    *)
ValueAt(r, field) == IF r.field = field THEN r.value ELSE "good"

GenericQuery(config, r) ==
  LET at(field) == Mapped(field, ValueAt(r, field))
  IN IF config.canonical
     THEN Returned(Fields)
     ELSE IF "answer" \notin config.fields THEN TargetProtocolError
     ELSE IF \E f \in config.fields : at(f) = "error" THEN TargetProtocolError
     ELSE IF \E f \in config.fields : at(f) = "unwrapped" THEN Unwrapped
     ELSE Returned({f \in config.fields : at(f) = "value"})

GenericRetrieve(config, r) ==
  LET paths == config.fields \cap {"retrieval", "usage", "configuration", "architecture",
                                   "target_run_id", "corpus_id"}
      at(field) == Mapped(field, ValueAt(r, field))
  IN IF config.canonical
     THEN Returned(Fields)
     ELSE IF "retrieval" \notin paths THEN TargetProtocolError
     ELSE IF \E f \in paths : at(f) = "error" THEN TargetProtocolError
     ELSE IF \E f \in paths : at(f) = "unwrapped" THEN Unwrapped
     ELSE Returned({f \in paths : at(f) = "value"})

GenericResult(config, op, r) ==
  IF op \in GenericUnsupported \/ op \notin config.protocol THEN UnsupportedCapabilityError
  ELSE IF IsFault(r) THEN FlaggedFault(r.kind)
  ELSE IF r.kind = "status"
  THEN TargetAdapterError(GenericStatus(r.status), Transient(r.status), r.status, None)
  ELSE IF r.body # "valid" THEN TargetProtocolError
  ELSE IF op = "query" THEN GenericQuery(config, r)
  ELSE GenericRetrieve(config, r)

_extract_answer(r) ==
  IF r.field = "answer" /\ r.value # "good" THEN TargetProtocolError
  ELSE Returned({"answer"} \cup {f \in {"usage"} : ValueAt(r, f) = "good"})

OpenAIResult(op, r) ==
  IF op \in OpenAIUnsupported THEN UnsupportedCapabilityError
  ELSE IF IsFault(r) THEN FlaggedFault(r.kind)
  ELSE IF r.kind = "status"
  THEN TargetAdapterError(OpenAIStatus(r.status), Transient(r.status), r.status, None)
  ELSE IF r.body # "valid" THEN TargetProtocolError
  ELSE _extract_answer(r)

PythonResult(config, op, r, advertised) ==
  IF ~_require_capability(op, advertised) THEN UnsupportedCapabilityError
  ELSE IF op \notin config.methods THEN TargetProtocolError
  ELSE IF r.kind = "events" THEN Returned({})
  ELSE IF r.own # None
  THEN TargetAdapterError(r.own.category, r.own.retryable, r.status, r.own.after)
  ELSE IF r.kind # "body" THEN TargetAdapterError("INTERNAL", FALSE, None, None)
  ELSE IF r.body = "valid" \/ op = "delete_corpus" THEN Returned(Fields)
  ELSE TargetProtocolError

Result(config, op, r, advertised) ==
  CASE config.type = "rag_eval_protocol" -> HttpResult(op, r, advertised)
    [] config.type = "generic_http"      -> GenericResult(config, op, r)
    [] config.type = "openai_compatible" -> OpenAIResult(op, r)
    [] config.type = "python"            -> PythonResult(config, op, r, advertised)

----------------------------------------------------------------------------
(* What the retry policy makes of a record, and how long it then waits.    *)
(* Delays are in quarters of a second, for the jitter of a quarter.        *)

_is_retryable_category(category, policy) ==
  category \in policy.categories \cup
    {"NETWORK", "CONNECTION", "TIMEOUT", "RATE_LIMIT", "RESOURCE_EXHAUSTED"}

Seen(error, policy) ==
  [retryable   |-> error.retryable,
   http_status |-> IF error.http_status = None THEN "none"
                   ELSE IF error.http_status \in policy.statuses THEN "retryable"
                   ELSE "other",
   category    |-> IF _is_retryable_category(error.category, policy)
                   THEN "retryable" ELSE "other"]

Capped(delay, policy) == IF delay < policy.maximum THEN delay ELSE policy.maximum

(* The set of delays one decision may choose.                              *)
_calculate_delay(number, after, policy) ==
  LET base == Capped(policy.initial * 2 ^ (number - 1), policy)
  IN IF after \notin {None, 0} THEN {Capped(after, policy)}
     ELSE IF policy.strategy = "exponential_jitter"
     THEN (base - base \div 4) .. (base + base \div 4)
     ELSE IF policy.strategy = "linear" THEN {Capped(policy.initial * number, policy)}
     ELSE {policy.initial}

Delays(error, number, policy) ==
  _calculate_delay(number, IF error.retryable THEN error.retry_after ELSE None, policy)

=============================================================================
