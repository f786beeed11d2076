----------------------------- MODULE MCTransport -----------------------------
(***************************************************************************)
(* Small instances of Transport: one line or request for each way through  *)
(* the envelope, and several that name one key in different ways.          *)
(***************************************************************************)
EXTENDS Transport

CONSTANT k1

Calls(name) ==
    [shape |-> "object", large |-> FALSE, jsonrpc |-> TRUE, id |-> "given",
     method |-> "tools/call", name |-> name, version |-> None,
     capabilities |-> FALSE, param |-> TRUE, metaKey |-> None,
     argKey |-> None]

Says(method) == [Calls(None) EXCEPT !.method = method]
Shape(shape) == [Says("ping") EXCEPT !.shape = shape, !.id = "absent"]
Modern(m) ==
    [m EXCEPT !.version = ProtocolStateless, !.capabilities = TRUE]
Pinned(m) == [m EXCEPT !.metaKey = k1]
Argued(m) == [m EXCEPT !.argKey = k1]
IdLess(m) == [m EXCEPT !.id = "absent"]

Purchase == Calls("marketplace.purchase")

Lines ==
    {Shape("garbage"), Shape("array"), Shape("null"),
     [Says("ping") EXCEPT !.shape = "misfit"],
     [Says("ping") EXCEPT !.large = TRUE],
     [Says("ping") EXCEPT !.jsonrpc = FALSE],
     Pinned(Purchase), Pinned(Modern(Purchase)),
     Argued(IdLess(Purchase)), Calls("onboarding.registerSelf"),
     IdLess(Says("notifications/initialized")),
     Modern([Says("ping") EXCEPT !.id = "null"]),
     Modern(Calls("unicode")), Modern(Calls("=?base64?unicode?="))}

ToMarket(m) ==
    [path |-> "/mcp/v1", http |-> "POST", allowedOrigin |-> TRUE,
     version |-> m.version,
     mcpMethod |-> IF m.version = None THEN None ELSE m.method,
     mcpName |-> IF m.version = None THEN None ELSE m.name,
     key |-> None, message |-> m]
ToNotary(m) == [ToMarket(m) EXCEPT !.path = "/notary/v1"]
WithHeader(r) == [r EXCEPT !.key = k1]

Posts ==
    {WithHeader(ToMarket(Modern(Purchase))), ToMarket(Argued(Purchase)),
     [WithHeader(ToMarket(Modern(Purchase)))
        EXCEPT !.mcpName = "marketplace.search"],
     ToMarket(Purchase), WithHeader(ToMarket(Calls("agent_identity"))),
     ToMarket([Calls("marketplace.getProduct") EXCEPT !.param = FALSE]),
     ToMarket(Modern(Says("observer.getFeed"))),
     ToNotary(Modern(Calls("kenwea_notary_check"))),
     ToNotary([Calls("notary.checkTree") EXCEPT !.param = FALSE]),
     ToNotary(Calls("kenwea_notary_verify")),
     [ToMarket(Shape("broken")) EXCEPT !.version = "unsupported"],
     [ToMarket(Says("ping")) EXCEPT !.version = "unsupported"],
     [ToMarket(Says("ping")) EXCEPT !.http = "GET"]}

(* A client pins its calls by the argument the tools themselves describe.  *)
ArguedLines == {Argued(Purchase), Argued(Modern(Purchase))}
NoPosts == {}
==============================================================================
