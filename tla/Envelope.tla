------------------------------ MODULE Envelope ------------------------------
(***************************************************************************)
(* What stands in front of the tools: how the two endpoints of the gateway *)
(* read one HTTP request, tell its revision, and either answer it or hand  *)
(* it to a tool; and how the stdio bridge turns a line into a request.     *)
(***************************************************************************)
EXTENDS Tools, Naturals

CONSTANTS Pin,   \* Idempotency-Keys clients choose themselves
          None

(* The bridge draws keys of its own, numbered here as it draws them.       *)
Key == Pin \cup Nat

ProtocolStateless == "2026-07-28"
supportedProtocolVersions ==
    {ProtocolStateless, "2025-11-25", "2025-06-18", "2025-03-26"}

(* Header values.  A name outside printable ASCII travels encoded, and so  *)
(* nothing tells a name that already looks like its encoding from it.      *)
encodeHeaderValue(v) == IF v = "unicode" THEN "=?base64?unicode?=" ELSE v

decodeHeaderValue(v) == IF v = "=?base64?unicode?=" THEN "unicode" ELSE v

(***************************************************************************)
(* A message is a JSON text: its id, method and the parts of its params    *)
(* that are read before the tool is.  A misfit is an object whose jsonrpc  *)
(* or method is no string; a broken body never arrives whole.  name is     *)
(* what tools/call names, param says whether the arguments a tool's route  *)
(* needs are there, and the two pins are keys in _meta and in the argument *)
(* idempotencyKey.                                                         *)
(* "resources/read" stands for prompts/get too, and "other" for methods    *)
(* nobody answers.                                                         *)
(***************************************************************************)
notaryTool ==
    [kenwea_notary_check |-> "notary.check",
     kenwea_notary_check_tree |-> "notary.checkTree",
     kenwea_notary_check_tools |-> "notary.checkTools",
     kenwea_notary_verify |-> "notary.verify",
     kenwea_notary_get_public_key |-> "notary.getPublicKey"]

notaryTools == {notaryTool[n] : n \in DOMAIN notaryTool}

Name == allowedTools \cup DOMAIN unlistedAliases \cup DOMAIN notaryTool
          \cup notaryTools \cup {"unicode", "=?base64?unicode?=", "unknown"}

Method == Name \cup {"initialize", "notifications/initialized", "ping",
                     "server/discover", "tools/list", "tools/call",
                     "resources/read", "other"}

ASSUME NoneIsNothing == None \notin Key \cup Method

Version == supportedProtocolVersions \cup {"unsupported"}

Message ==
    [shape : {"object", "misfit", "array", "null", "scalar", "garbage",
              "broken"},
     large : BOOLEAN, jsonrpc : BOOLEAN, id : {"given", "null", "absent"},
     method : Method \cup {None}, name : Name \cup {None},
     version : Version \cup {None}, capabilities : BOOLEAN, param : BOOLEAN,
     metaKey : Pin \cup {None}, argKey : Pin \cup {None}]

HttpRequest ==
    [path : {"/mcp/v1", "/notary/v1"}, http : {"POST", "GET", "DELETE", "PUT"},
     allowedOrigin : BOOLEAN, version : Version \cup {None},
     mcpMethod : Method \cup {None}, mcpName : Name \cup {None},
     key : Key \cup {None}, message : Message]

(* An answer, and whether it carries the id of the request.                *)
Code == {"method_not_allowed", "origin_rejected", "stream_ready",
         "invalid_session", "invalid_json", "batch_not_supported",
         "invalid_request", "invalid_params", "unsupported_version",
         "header_mismatch", "invalid_tool_call", "method_not_found",
         "accepted", "ok", "gate_refused", "idempotency_required",
         "validation_failed", "platform_rejected",
         "platform_api_unavailable", "idempotency_conflict",
         "idempotency_unavailable", "not_json"}

Reply == [code : Code, id : BOOLEAN]
Unnamed(code) == [code |-> code, id |-> FALSE]
ReplyTo(m, code) == [code |-> code, id |-> m.id = "given"]

(* A call of a tool, by its one name.                                      *)
Run == [tool : allowedTools \cup notaryTools]
RunTool(name) == [tool |-> name]

(***************************************************************************)
(* Reading a request.                                                      *)
(***************************************************************************)
(* A body is cut off at a megabyte, which leaves an object unfinished.     *)
Unread(m) == \/ m.shape \in {"garbage", "scalar", "misfit"}
             \/ m.shape = "object" /\ m.large

(* The JSON value null reads as a request in which nothing is given.       *)
NotRpc(m) == m.shape = "null" \/ ~ m.jsonrpc \/ m.method = None

BadBody(m) == m.shape \in {"array", "broken"} \/ Unread(m) \/ NotRpc(m)

AnswerBadBody(m) ==
    IF m.shape = "array" THEN Unnamed("batch_not_supported")
    ELSE IF m.shape = "broken" \/ Unread(m) THEN Unnamed("invalid_json")
    ELSE IF m.shape = "null" THEN Unnamed("invalid_request")
    ELSE ReplyTo(m, "invalid_request")

(* The header decides the revision, and _meta only in its absence.         *)
isStatelessRequest(r) ==
    /\ r.message.method # "initialize"
    /\ \/ r.version = ProtocolStateless
       \/ r.version = None /\ r.message.version # None

(* Mutant: the name a gateway routes on is not compared.                   *)
headerMismatchMethod(r) ==
    \/ r.version # r.message.version
    \/ r.mcpMethod = None
    \/ decodeHeaderValue(r.mcpMethod) # r.message.method

headerMismatch(r) ==
    LET m == r.message
    IN  \/ r.version # m.version
        \/ r.mcpMethod = None
        \/ decodeHeaderValue(r.mcpMethod) # m.method
        \/ /\ m.method \in {"tools/call", "resources/read"}
           /\ r.mcpName = None \/ decodeHeaderValue(r.mcpName) # m.name

BadMeta(r) ==
    \/ r.message.version # ProtocolStateless
    \/ ~ r.message.capabilities
    \/ headerMismatch(r)

AnswerBadMeta(r) ==
    LET m == r.message IN
    IF m.version = None \/ ~ m.capabilities THEN ReplyTo(m, "invalid_params")
    ELSE IF m.version # ProtocolStateless THEN ReplyTo(m, "unsupported_version")
    ELSE ReplyTo(m, "header_mismatch")

BadVersion(r) == r.version \notin supportedProtocolVersions \cup {None}

(***************************************************************************)
(* The marketplace endpoint.                                               *)
(***************************************************************************)
target(m) == IF m.method = "tools/call" THEN m.name ELSE m.method

(* serveTool up to the gates, which Gates has.                             *)
serveTool(m) ==
    IF target(m) = None THEN ReplyTo(m, "invalid_tool_call")
    ELSE IF allowedTool(target(m)) THEN RunTool(canonicalTool(target(m)))
    ELSE ReplyTo(m, "method_not_found")

serveStateless(r) ==
    LET m == r.message IN
    IF m.id # "given" THEN Unnamed("accepted")
    ELSE IF BadMeta(r) THEN AnswerBadMeta(r)
    ELSE IF m.method \in {"server/discover", "tools/list"} THEN ReplyTo(m, "ok")
    ELSE serveTool(m)

handleMCPProtocolMethod(m) ==
    IF m.method = "notifications/initialized" THEN Unnamed("accepted")
    ELSE IF m.method \in {"initialize", "tools/list", "ping"}
         THEN ReplyTo(m, "ok")
    ELSE serveTool(m)

(* GET and DELETE here carry no session id; Gateway has those that do.     *)
NotPosted(r) ==
    IF r.http = "PUT" THEN Unnamed("method_not_allowed")
    ELSE IF ~ r.allowedOrigin THEN Unnamed("origin_rejected")
    ELSE IF r.version = ProtocolStateless THEN Unnamed("method_not_allowed")
    ELSE IF r.http = "GET" THEN Unnamed("stream_ready")
    ELSE Unnamed("invalid_session")

ServeHTTP(r) ==
    LET m == r.message IN
    IF r.http # "POST" THEN NotPosted(r)
    ELSE IF ~ r.allowedOrigin THEN Unnamed("origin_rejected")
    ELSE IF BadBody(m) THEN AnswerBadBody(m)
    ELSE IF isStatelessRequest(r) THEN serveStateless(r)
    ELSE IF BadVersion(r) THEN ReplyTo(m, "unsupported_version")
    ELSE handleMCPProtocolMethod(m)

(***************************************************************************)
(* The notary endpoint: no sessions, no gates, five tools.                 *)
(***************************************************************************)
calledNotaryTool(m) ==
    IF m.name \in DOMAIN notaryTool THEN notaryTool[m.name] ELSE m.name

notaryMethod(m) ==
    IF m.method \in {"initialize", "ping", "server/discover", "tools/list"}
    THEN ReplyTo(m, "ok")
    ELSE IF m.method # "tools/call" THEN ReplyTo(m, "method_not_found")
    ELSE IF m.name = None THEN ReplyTo(m, "invalid_params")
    ELSE IF calledNotaryTool(m) \in notaryTools
         THEN RunTool(calledNotaryTool(m))
    ELSE ReplyTo(m, "method_not_found")

serveNotary(r) ==
    LET m == r.message IN
    IF r.http # "POST" THEN Unnamed("method_not_allowed")
    ELSE IF ~ r.allowedOrigin THEN Unnamed("origin_rejected")
    ELSE IF BadBody(m) THEN AnswerBadBody(m)
    ELSE IF m.id # "given" THEN Unnamed("accepted")
    ELSE IF isStatelessRequest(r) /\ BadMeta(r) THEN AnswerBadMeta(r)
    ELSE IF BadVersion(r) THEN ReplyTo(m, "unsupported_version")
    ELSE notaryMethod(m)

Endpoint(r) == IF r.path = "/notary/v1" THEN serveNotary(r) ELSE ServeHTTP(r)

(***************************************************************************)
(* The key of a call: read once by the gate and once more when the call is *)
(* forwarded, from the header or else from the argument.                   *)
(***************************************************************************)
idempotencyKey(r) == IF r.key # None THEN r.key ELSE r.message.argKey

(* Mutant: the forwarder reads the header only.                            *)
forwardedHeaderKey(r) == r.key

(* notary.check hands on no arguments but the two it knows.                *)
argumentForwarded(r) ==
    ~ /\ r.path = "/notary/v1"
      /\ calledNotaryTool(r.message) = "notary.check"

forwardedKey(r) ==
    IF r.key # None THEN r.key
    ELSE IF argumentForwarded(r) THEN r.message.argKey
    ELSE None

(* Tools whose route, or whose handler at the notary, needs an argument.   *)
needsParam ==
    {"notifications.ack", "jobs.getStatus", "orders.submitBid",
     "orders.deliver", "collab.join", "reputation.getGraph",
     "marketplace.getProduct", "recommendations.listRelatedProducts",
     "dependencies.watch", "notary.check", "notary.checkTree",
     "notary.checkTools"}

routed(name, m) == name \in needsParam => m.param

(***************************************************************************)
(* The bridge's side, clients/npm/src/protocol.js.                         *)
(***************************************************************************)
IDEMPOTENT_TOOLS ==
    {"marketplace.publish", "marketplace.purchase", "marketplace.install",
     "notifications.ack", "orders.submitBid", "orders.deliver",
     "collab.create", "collab.join", "dependencies.watch",
     "onboarding.startOperatorAgent"}

isNotification(m) == m.shape = "object" /\ m.method # None /\ m.id = "absent"

(* Whether a line holds an id, null or not, and whether an answer the      *)
(* bridge makes itself then names the line.                                *)
hasId(m) == m.shape \in {"object", "misfit"} /\ m.id # "absent"
ownId(m) == hasId(m) /\ m.id = "given"

needsIdempotency(m) == m.shape = "object" /\ target(m) \in IDEMPOTENT_TOOLS

(* The key of a line: the one pinned in _meta, or a new one.               *)
headerKey(m, fresh) ==
    IF ~ needsIdempotency(m) THEN None
    ELSE IF m.metaKey # None THEN m.metaKey
    ELSE fresh

encodedName(name) == IF name = None THEN None ELSE encodeHeaderValue(name)

buildHeaders(m, configured, key) ==
    LET modern == m.shape = "object" /\ m.version # None
        named == m.method \in {"tools/call", "resources/read"}
    IN  [path |-> "/mcp/v1", http |-> "POST", allowedOrigin |-> TRUE,
         version |-> IF modern THEN m.version ELSE configured,
         mcpMethod |-> IF modern THEN encodedName(m.method) ELSE None,
         mcpName |-> IF modern /\ named THEN encodedName(m.name) ELSE None,
         key |-> key, message |-> m]
==============================================================================
