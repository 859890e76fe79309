------------------------- MODULE MCCorpusPreparation -------------------------
(* A configuration of every adapter and the faulty ones beside it; two     *)
(* documents, three chunks in batches of two.                              *)
EXTENDS CorpusPreparation

Plain ==
  [type |-> "rag_eval_protocol", base_url |-> TRUE, model |-> FALSE, python_target |-> "absent",
   bearer_token |-> FALSE, api_key |-> FALSE, secret_header |-> FALSE,
   protocol |-> {}, fields |-> {}, canonical |-> FALSE, on |-> {}, off |-> {}, methods |-> {}]

Secured == [Plain EXCEPT !.bearer_token = TRUE, !.secret_header = TRUE]
Python == [Plain EXCEPT !.type = "python", !.base_url = FALSE, !.python_target = "loads",
                        !.methods = Operations \ {"recover_request"}]
OpenAI == [Plain EXCEPT !.type = "openai_compatible", !.model = TRUE, !.protocol = {"query"}]
Generic ==
  [Plain EXCEPT !.type = "generic_http", !.protocol = {"query", "retrieve"}, !.fields = Fields]

MCConfigs ==
  {Plain, Secured, Python, OpenAI, Generic,
   [Plain EXCEPT !.type = "unknown"],
   [Plain EXCEPT !.base_url = FALSE],
   [Plain EXCEPT !.bearer_token = TRUE, !.api_key = TRUE],
   [Python EXCEPT !.python_target = "malformed"],
   [Python EXCEPT !.methods = {"capabilities"}],
   [Python EXCEPT !.type = "uploaded_python"],
   [Python EXCEPT !.type = "uploaded_python", !.methods = Operations],
   [OpenAI EXCEPT !.model = FALSE],
   [OpenAI EXCEPT !.api_key = TRUE, !.on = {"document_ingestion"}],
   [Generic EXCEPT !.protocol = {}],
   [Generic EXCEPT !.fields = {"retrieval", "citations"}, !.api_key = TRUE, !.bearer_token = TRUE],
   [Generic EXCEPT !.canonical = TRUE, !.fields = {}, !.protocol = {"query"}],
   [Generic EXCEPT !.fields = {"answer"}, !.on = {"streaming"}, !.off = {"retrieval"}]}

MCCredentials == [bearer_token : BOOLEAN, api_key : BOOLEAN, header : BOOLEAN]

MCReports ==
  {Capabilities, {"query"},
   {"query", "answer", "document_ingestion", "chunk_ingestion", "streaming"}}

Usual == [kind |-> "body", status |-> None, own |-> None, after |-> None, body |-> "valid",
        field |-> None, value |-> "good", events |-> <<>>]

Owns == [category : {"UNSUPPORTED_CAPABILITY", "RATE_LIMIT"}, retryable : BOOLEAN, after : {None, 0, 8}]

MCResponses ==
  {[Usual EXCEPT !.kind = k] : k \in {"timeout", "connect", "transport", "raises"}}
    \cup {[Usual EXCEPT !.kind = "status", !.status = s, !.after = a] :
            s \in {400, 401, 403, 404, 408, 409, 413, 422, 429, 500, 502, 503, 504},
            a \in {None, 0, 8, 40}}
    \cup {[Usual EXCEPT !.kind = "status", !.status = s, !.own = o, !.after = 4] :
            s \in {400, 429, 503}, o \in Owns}
    \cup {[Usual EXCEPT !.kind = "raises", !.own = o] : o \in Owns}
    \cup {[Usual EXCEPT !.body = b] : b \in {"valid", "empty", "not_json", "not_object", "malformed"}}
    \cup {[Usual EXCEPT !.field = f, !.value = v] :
            f \in Fields, v \in {"missing", "null", "wrong", "invalid"}}
    \cup {[Usual EXCEPT !.kind = "events", !.events = e] :
            e \in UNION {[1 .. n -> 0 .. 2] : n \in 0 .. 3}}

MCPolicies ==
  [attempts : {3}, initial : {4}, maximum : {4, 12},
   strategy : {"exponential_jitter", "linear", "fixed"},
   statuses : {{}, {408, 429, 500, 502, 503, 504}},
   categories : {{}, {"INVALID_RESPONSE", "AUTHENTICATION"}}]

MCBenchmarks ==
  {[cases |-> TRUE, documents |-> <<"d1", "d2">>, chunks |-> <<"k1", "k2", "k3">>,
    stored |-> {"d1", "d2"}],
   [cases |-> TRUE, documents |-> <<"d2">>, chunks |-> <<>>, stored |-> {}]}

=============================================================================
