--------------------------- MODULE TransportProofs ---------------------------
(***************************************************************************)
(* For any messages, any number of calls and any number of lines: what the *)
(* calls of Transport owe their callers, and that the bridge implements    *)
(* LineServer.  The first lemmas say what an envelope answers and runs;    *)
(* IInv is then kept by each action in turn.                               *)
(***************************************************************************)
EXTENDS Transport, TLAPS

(* Constructors of answers.                                                *)
LEMMA Replies ==
    /\ \A code \in Code : Unnamed(code) \in Reply
    /\ \A m \in Message, code \in Code : ReplyTo(m, code) \in Reply
BY DEF Unnamed, ReplyTo, Reply

(* An answer is no call of a tool.                                         *)
LEMMA ReplyIsNoRun == \A e : ~ (e \in Reply /\ e \in Run)
<1>. SUFFICES ASSUME NEW e, e \in Reply, e \in Run
              PROVE  FALSE
  OBVIOUS
<1>1. DOMAIN e = {"code", "id"}
  BY DEF Reply
<1>2. DOMAIN e = {"tool"}
  BY DEF Run
<1>. QED
  BY <1>1, <1>2

LEMMA AnswerBadBodyReply == \A m \in Message : AnswerBadBody(m) \in Reply
BY Replies DEF AnswerBadBody, Code

LEMMA AnswerBadMetaReply ==
    \A r \in HttpRequest : AnswerBadMeta(r) \in Reply
BY Replies DEF AnswerBadMeta, Code, HttpRequest

LEMMA ServeToolType ==
    ASSUME NEW m \in Message
    PROVE  serveTool(m) \in Reply \cup Run
<1>1. ReplyTo(m, "invalid_tool_call") \in Reply
      /\ ReplyTo(m, "method_not_found") \in Reply
  BY Replies DEF Code
<1>2. allowedTool(target(m)) => RunTool(canonicalTool(target(m))) \in Run
  BY DEF allowedTool, RunTool, Run
<1>. QED
  BY <1>1, <1>2 DEF serveTool

LEMMA MarketType ==
    ASSUME NEW r \in HttpRequest
    PROVE  ServeHTTP(r) \in Reply \cup Run
<1>. DEFINE m == r.message
<1>1. m \in Message
  BY DEF HttpRequest
<1>2. NotPosted(r) \in Reply
  BY Replies DEF NotPosted, Code
<1>3. /\ Unnamed("origin_rejected") \in Reply
      /\ Unnamed("accepted") \in Reply
      /\ ReplyTo(m, "unsupported_version") \in Reply
      /\ ReplyTo(m, "ok") \in Reply
  BY <1>1, Replies DEF Code
<1>4. serveStateless(r) \in Reply \cup Run
  BY <1>1, <1>3, ServeToolType, AnswerBadMetaReply DEF serveStateless
<1>5. handleMCPProtocolMethod(m) \in Reply \cup Run
  BY <1>1, <1>3, ServeToolType DEF handleMCPProtocolMethod
<1>. QED
  BY <1>1, <1>2, <1>3, <1>4, <1>5, AnswerBadBodyReply DEF ServeHTTP

LEMMA NotaryType ==
    ASSUME NEW r \in HttpRequest
    PROVE  serveNotary(r) \in Reply \cup Run
<1>. DEFINE m == r.message
<1>1. m \in Message
  BY DEF HttpRequest
<1>2. /\ Unnamed("origin_rejected") \in Reply
      /\ Unnamed("method_not_allowed") \in Reply
      /\ Unnamed("accepted") \in Reply
      /\ ReplyTo(m, "unsupported_version") \in Reply
      /\ ReplyTo(m, "method_not_found") \in Reply
      /\ ReplyTo(m, "invalid_params") \in Reply
      /\ ReplyTo(m, "ok") \in Reply
  BY <1>1, Replies DEF Code
<1>3. notaryMethod(m) \in Reply \cup Run
  BY <1>1, <1>2 DEF notaryMethod, RunTool, Run
<1>. QED
  BY <1>1, <1>2, <1>3, AnswerBadBodyReply, AnswerBadMetaReply DEF serveNotary

(* A request is answered at once or calls a tool.                          *)
LEMMA EndpointType ==
    ASSUME NEW r \in HttpRequest
    PROVE  Endpoint(r) \in Reply \cup Run
BY MarketType, NotaryType DEF Endpoint

LEMMA HeaderTypes ==
    /\ \A n \in Name \cup {None} : encodedName(n) \in Name \cup {None}
    /\ \A n \in Method \cup {None} : encodedName(n) \in Method \cup {None}
<1>1. /\ "unicode" \in Name /\ "=?base64?unicode?=" \in Name
      /\ Name \subseteq Method
  BY DEF Name, Method
<1>. QED
  BY <1>1 DEF encodedName, encodeHeaderValue

(* What the bridge sends is a request.                                     *)
LEMMA BridgeType ==
    ASSUME NEW m \in Line, NEW i \in Nat
    PROVE  buildHeaders(m, configured, headerKey(m, i)) \in HttpRequest
<1>1. m \in Message
  BY Messages
<1>2. /\ m.version \in Version \cup {None} /\ m.metaKey \in Pin \cup {None}
      /\ m.name \in Name \cup {None} /\ m.method \in Method \cup {None}
  BY <1>1 DEF Message
<1>3. headerKey(m, i) \in Key \cup {None}
  BY <1>2 DEF headerKey, Key
<1>4. /\ encodedName(m.method) \in Method \cup {None}
      /\ encodedName(m.name) \in Name \cup {None}
  BY <1>2, HeaderTypes
<1>5. \A v \in Version \cup {None}, p \in Method \cup {None},
        n \in Name \cup {None}, k \in Key \cup {None} :
        [path |-> "/mcp/v1", http |-> "POST", allowedOrigin |-> TRUE,
         version |-> v, mcpMethod |-> p, mcpName |-> n, key |-> k,
         message |-> m] \in HttpRequest
  BY <1>1 DEF HttpRequest
<1>. QED
  BY <1>2, <1>3, <1>4, <1>5, Configured DEF buildHeaders
(***************************************************************************)
(* The inductive invariant.                                                *)
(***************************************************************************)
LEMMA InitInv == Init => IInv
<1>. SUFFICES ASSUME Init PROVE IInv
  OBVIOUS
<1>1. TypeOK
  BY Bounds DEF Init, TypeOK, Call
<1>2. Progress /\ AnswersAreTrue /\ Counted /\ KeyOnce
  BY DEF Init, Progress, AnswersAreTrue, Counted, KeyOnce, carried, Call
<1>3. Bridging /\ Identified /\ Waiting
  BY DEF Init, Bridging, Identified, Waiting
<1>. QED
  BY <1>1, <1>2, <1>3 DEF IInv

(* A call that is sent leaves every other where it is.                     *)
LEMMA SendKeeps ==
    ASSUME IInv, NEW r \in HttpRequest, Send(r)
    PROVE  /\ called' \in 0 .. MaxCalls
           /\ called' = called + 1
           /\ called + 1 \in Call
           /\ request' \in [Call -> HttpRequest \cup {None}]
           /\ stage' \in [Call -> {"none", "sent", "lost", "forwarded", "answered"}]
           /\ request'[called + 1] = r /\ stage'[called + 1] = "sent"
           /\ fate[called + 1] = "none"
           /\ \A i \in Call : i # called + 1 => /\ request'[i] = request[i]
                                                /\ stage'[i] = stage[i]
           /\ called + 1 \notin bridged
           /\ called + 1 \notin registered
           /\ UNCHANGED <<answer, counted, registered, fate>>
<1>1. /\ called \in 0 .. MaxCalls /\ bridged \subseteq 1 .. called
      /\ called < MaxCalls
  BY DEF IInv, TypeOK, Send
<1>2. called + 1 \in Call
  BY <1>1, Bounds DEF Call
<1>3. stage[called + 1] = "none"
  BY <1>1, <1>2, Bounds DEF IInv, Progress
<1>4. fate[called + 1] = "none"
  BY <1>2, <1>3 DEF IInv, Progress
<1>5. called + 1 \notin registered
  BY <1>4 DEF IInv, Counted
<1>. QED
  BY <1>1, <1>2, <1>4, <1>5, Bounds DEF IInv, TypeOK, Send

LEMMA SendInv ==
    ASSUME IInv, NEW r \in HttpRequest, Send(r)
    PROVE  /\ Progress' /\ AnswersAreTrue' /\ Counted' /\ KeyOnce'
<1>. USE SendKeeps
<1>1. \A i \in Call : i > called' <=> (i > called /\ i # called + 1)
  BY Bounds DEF IInv, TypeOK, Call
<1>2. Progress'
  <2>. SUFFICES ASSUME NEW i \in Call
                PROVE  (/\ stage[i] = "none" <=> i > called
                        /\ i <= called => request[i] \in HttpRequest
                        /\ stage[i] \in {"none", "sent", "lost"} => fate[i] = "none"
                        /\ stage[i] = "forwarded" => fate[i] # "none"
                        /\ stage[i] = "answered" => answer[i] \in Reply
                        /\ fate[i] # "none" => /\ Endpoint(request[i]) \in Run
                                               /\ forwards(toolOf(i)))'
    BY DEF Progress
  <2>1. CASE i = called + 1
    BY <2>1, <1>1, Bounds DEF IInv, TypeOK, Call
  <2>2. CASE i # called + 1
    <3>1. i <= called' => i <= called
      BY <2>2, Bounds DEF IInv, TypeOK, Call
    <3>. QED
      BY <2>2, <1>1, <3>1 DEF IInv, Progress, toolOf
  <2>. QED
    BY <2>1, <2>2
<1>3. AnswersAreTrue'
  BY DEF IInv, AnswersAreTrue, toolOf
<1>4. Counted'
  BY DEF IInv, TypeOK, Counted, counts, marketplace, registers, toolOf
<1>5. KeyOnce'
  BY DEF IInv, KeyOnce, carried, keyOf
<1>. QED
  BY <1>2, <1>3, <1>4, <1>5

LEMMA PostDirectlyInv ==
    ASSUME IInv, NEW r \in Post, PostDirectly(r)
    PROVE  IInv'
<1>1. r \in HttpRequest /\ Send(r)
  BY Messages DEF PostDirectly
<1>. USE <1>1, SendKeeps DEF PostDirectly, bridge
<1>2. TypeOK'
  BY Bounds DEF IInv, TypeOK
<1>3. Bridging' /\ Identified'
  <2>1. \A i \in bridged : i \in Call /\ i # called + 1
    BY Bounds DEF IInv, TypeOK, Call
  <2>. QED
    BY <2>1 DEF IInv, Bridging, Identified, message
<1>4. Waiting'
  <2>1. pending # 0 => pending \in Call /\ pending # called + 1
    BY Bounds DEF IInv, TypeOK, Call
  <2>. QED
    BY <2>1 DEF IInv, Waiting, pendingLine
<1>. QED
  BY <1>2, <1>3, <1>4, SendInv DEF IInv

LEMMA ReadLineInv ==
    ASSUME IInv, NEW m \in Line, ReadLine(m)
    PROVE  IInv'
<1>. DEFINE r == buildHeaders(m, configured, headerKey(m, called + 1))
<1>1. called + 1 \in Nat
  BY DEF IInv, TypeOK
<1>2. r \in HttpRequest /\ Send(r)
  BY <1>1, BridgeType DEF ReadLine
<1>3. r.message = m
  BY DEF buildHeaders
<1>4. r = buildHeaders(m, configured, headerKey(m, called + 1))
  OBVIOUS
<1>5. kind(m) \in {"request", "silent", "other"}
  BY DEF kind
<1>. HIDE DEF r
<1>. USE <1>2, SendKeeps DEF ReadLine
<1>6. lines' \in Seq({"request", "silent", "other"})
      /\ lines' # <<>> /\ lines'[Len(lines')] = kind(m)
  BY <1>5 DEF IInv, TypeOK
<1>7. TypeOK'
  BY <1>6, Bounds DEF IInv, TypeOK
<1>8. Bridging' /\ Identified'
  <2>1. \A i \in bridged : i \in Call /\ i # called + 1
    BY Bounds DEF IInv, TypeOK, Call
  <2>2. m.shape # "garbage"
    OBVIOUS
  <2>3. Bridging'
    BY <2>1, <2>2, <1>4 DEF IInv, Bridging
  <2>4. Identified'
    BY <2>1 DEF IInv, Identified, message
  <2>. QED
    BY <2>3, <2>4
<1>9. Waiting'
  BY <1>6, <1>3 DEF Waiting, pendingLine
<1>. QED
  BY <1>7, <1>8, <1>9, SendInv DEF IInv

(* A step of the bridge alone, which ends with nothing pending.            *)
LEMMA BridgeInv ==
    ASSUME IInv, UNCHANGED <<sent, gateway, fate>>, pending' = 0,
           lines' \in Seq({"request", "silent", "other"}),
           out' \in Seq([line : Nat, id : BOOLEAN])
    PROVE  IInv'
<1>. USE DEF sent, gateway
<1>1. TypeOK'
  BY DEF IInv, TypeOK
<1>2. Progress' /\ AnswersAreTrue' /\ Counted' /\ KeyOnce'
  BY DEF IInv, Progress, AnswersAreTrue, Counted, KeyOnce, carried, keyOf,
         counts, marketplace, registers, toolOf
<1>3. Bridging' /\ Identified' /\ Waiting'
  BY DEF IInv, Bridging, Identified, Waiting, message
<1>. QED
  BY <1>1, <1>2, <1>3 DEF IInv

LEMMA ReadGarbageInv ==
    ASSUME IInv, NEW m \in Line, ReadGarbage(m)
    PROVE  IInv'
<1>1. /\ lines' \in Seq({"request", "silent", "other"})
      /\ out' \in Seq([line : Nat, id : BOOLEAN])
  BY DEF IInv, TypeOK, ReadGarbage
<1>2. pending' = 0
  BY DEF ReadGarbage
<1>. QED
  BY <1>1, <1>2, BridgeInv DEF ReadGarbage

LEMMA WriteType ==
    ASSUME IInv, NEW id \in BOOLEAN, Write(id)
    PROVE  out' \in Seq([line : Nat, id : BOOLEAN])
BY DEF IInv, TypeOK, Write

LEMMA OwnIdType == \A m : ownId(m) \in BOOLEAN
BY DEF ownId, hasId

LEMMA ReceiveInv ==
    ASSUME IInv, Receive
    PROVE  IInv'
<1>1. pending \in Call
  BY Bounds DEF IInv, TypeOK, Receive, Call
<1>2. answer[pending].id \in BOOLEAN
  BY <1>1 DEF IInv, Progress, Receive, Reply
<1>3. out' \in Seq([line : Nat, id : BOOLEAN])
  BY <1>2, WriteType, OwnIdType DEF Receive, WriteFor, IInv, TypeOK
<1>4. pending' = 0 /\ lines' \in Seq({"request", "silent", "other"})
  BY DEF Receive, IInv, TypeOK
<1>. QED
  BY <1>3, <1>4, BridgeInv DEF Receive

LEMMA ReceiveNoJsonInv ==
    ASSUME IInv, ReceiveNoJson
    PROVE  IInv'
<1>1. out' \in Seq([line : Nat, id : BOOLEAN])
  BY WriteType, OwnIdType DEF ReceiveNoJson, WriteFor, IInv, TypeOK
<1>2. pending' = 0 /\ lines' \in Seq({"request", "silent", "other"})
  BY DEF ReceiveNoJson, IInv, TypeOK
<1>. QED
  BY <1>1, <1>2, BridgeInv DEF ReceiveNoJson

LEMMA FetchFailsInv ==
    ASSUME IInv, FetchFails
    PROVE  IInv'
<1>1. out' \in Seq([line : Nat, id : BOOLEAN])
  BY WriteType, OwnIdType DEF FetchFails, IInv, TypeOK
<1>2. pending' = 0 /\ lines' \in Seq({"request", "silent", "other"})
  BY DEF FetchFails, IInv, TypeOK
<1>. QED
  BY <1>1, <1>2, BridgeInv DEF FetchFails
LEMMA LoseInv ==
    ASSUME IInv, NEW i \in Call, Lose(i)
    PROVE  IInv'
<1>. USE DEF Lose, bridge, sent
<1>1. TypeOK'
  BY DEF IInv, TypeOK
<1>2. Progress'
  <2>1. /\ stage[i] = "sent" /\ stage'[i] = "lost"
        /\ \A j \in Call : j # i => stage'[j] = stage[j]
    BY DEF IInv, TypeOK
  <2>. QED
    BY <2>1 DEF IInv, Progress, toolOf
<1>3. AnswersAreTrue' /\ Counted' /\ KeyOnce'
  BY DEF IInv, TypeOK, AnswersAreTrue, Counted, KeyOnce, carried, keyOf,
         counts, marketplace, registers, toolOf
<1>4. Bridging' /\ Identified' /\ Waiting'
  BY DEF IInv, TypeOK, Bridging, Identified, Waiting, message, pendingLine
<1>. QED
  BY <1>1, <1>2, <1>3, <1>4 DEF IInv

(* Any step of a handler that ends with an answer, given that the answer   *)
(* is true, names the line it must name, and that counts only grow.        *)
LEMMA AnswerInv ==
    ASSUME IInv, NEW i \in Call, NEW reply \in Reply, Answer(i, reply),
           stage[i] \in {"sent", "forwarded"},
           UNCHANGED <<bridge, sent, fate>>,
           counted \subseteq counted', counted' \subseteq Call,
           \A j \in registered' :
              j \in registered \/ (j = i /\ fate[i] \in {"done", "replayed"} /\ registers(i)),
           reply.code \in Refusals => fate[i] \in {"none", "refused"},
           /\ reply.code = "ok" /\ Endpoint(request[i]) \in Run
           /\ forwards(toolOf(i))
           => fate[i] \in {"done", "replayed"},
           /\ i \in bridged /\ kind(message(i)) = "request"
           /\ reply.code # "accepted"
           => reply.id
    PROVE  IInv'
<1>. USE DEF Answer, bridge, sent
<1>1. /\ stage'[i] = "answered" /\ answer'[i] = reply
      /\ \A j \in Call : j # i => stage'[j] = stage[j] /\ answer'[j] = answer[j]
  BY DEF IInv, TypeOK
<1>2. TypeOK'
  BY DEF IInv, TypeOK
<1>3. Progress'
  BY <1>1 DEF IInv, Progress, toolOf
<1>4. AnswersAreTrue'
  BY <1>1 DEF IInv, AnswersAreTrue, toolOf
<1>5. Counted'
  BY DEF IInv, Counted, counts, marketplace, registers, toolOf
<1>6. KeyOnce' /\ Bridging' /\ Waiting'
  BY DEF IInv, KeyOnce, carried, keyOf, Bridging, Waiting, pendingLine
<1>7. Identified'
  <2>1. bridged \subseteq Call
    BY Bounds DEF IInv, TypeOK, Call
  <2>. QED
    BY <1>1, <2>1 DEF IInv, Identified, message
<1>. QED
  BY <1>2, <1>3, <1>4, <1>5, <1>6, <1>7 DEF IInv

(* A request line is told apart by its id.                                 *)
LEMMA RequestIsNamed ==
    \A m, code : /\ ReplyTo(m, code).code = code
                 /\ kind(m) = "request" => ReplyTo(m, code).id
BY DEF kind, ReplyTo

(* What the envelope answers a request line names it, or is empty.         *)
LEMMA EnvelopeNames ==
    ASSUME NEW m \in Line, NEW i \in Nat, kind(m) = "request",
           Endpoint(buildHeaders(m, configured, headerKey(m, i))) \in Reply
    PROVE  \/ Endpoint(buildHeaders(m, configured, headerKey(m, i))).code = "accepted"
           \/ Endpoint(buildHeaders(m, configured, headerKey(m, i))).id
<1>. DEFINE r == buildHeaders(m, configured, headerKey(m, i))
            e == Endpoint(r)
<1>. SUFFICES e.code = "accepted" \/ e.id
  OBVIOUS
<1>0. e \in Reply
  OBVIOUS
<1>1. /\ r.path = "/mcp/v1" /\ r.http = "POST" /\ r.allowedOrigin
      /\ r.message = m
  BY DEF buildHeaders
<1>2. m.shape = "object" /\ ~ m.large /\ m.id = "given"
  BY Messages DEF kind, Message
<1>3. e = ServeHTTP(r)
  BY <1>1 DEF Endpoint
<1>. HIDE DEF r, e
<1>4. \A code : ReplyTo(m, code).id
  BY <1>2 DEF ReplyTo
<1>5. CASE BadBody(m)
  <2>1. e = AnswerBadBody(m)
    BY <1>1, <1>3, <1>5 DEF ServeHTTP
  <2>2. e = ReplyTo(m, "invalid_request")
    BY <2>1, <1>2 DEF AnswerBadBody, Unread
  <2>. QED
    BY <2>2, <1>4
<1>6. serveTool(m) \in Run \/ serveTool(m).id
  BY <1>4 DEF serveTool, Run, RunTool, allowedTool
<1>7. CASE ~ BadBody(m) /\ isStatelessRequest(r)
  <2>1. e = serveStateless(r)
    BY <1>1, <1>3, <1>7 DEF ServeHTTP
  <2>2. AnswerBadMeta(r).id
    BY <1>1, <1>4 DEF AnswerBadMeta
  <2>. QED
    BY <2>1, <2>2, <1>1, <1>2, <1>0, <1>4, <1>6, ReplyIsNoRun DEF serveStateless
<1>8. CASE ~ BadBody(m) /\ ~ isStatelessRequest(r)
  <2>1. \/ e = ReplyTo(m, "unsupported_version")
        \/ e = handleMCPProtocolMethod(m)
    BY <1>1, <1>3, <1>8 DEF ServeHTTP
  <2>2. Unnamed("accepted").code = "accepted"
    BY DEF Unnamed
  <2>. QED
    BY <2>1, <2>2, <1>0, <1>4, <1>6, ReplyIsNoRun DEF handleMCPProtocolMethod
<1>. QED
  BY <1>5, <1>7, <1>8

LEMMA AnswerEnvelopeInv ==
    ASSUME IInv, NEW i \in Call, AnswerEnvelope(i)
    PROVE  IInv'
<1>1. fate[i] = "none"
  BY DEF IInv, Progress, AnswerEnvelope
<1>2. Endpoint(request[i]) \notin Run
  BY ReplyIsNoRun DEF AnswerEnvelope
<1>3. i \in bridged /\ kind(message(i)) = "request"
        => \/ Endpoint(request[i]).code = "accepted"
           \/ Endpoint(request[i]).id
  <2>. SUFFICES ASSUME i \in bridged, kind(message(i)) = "request"
                PROVE  \/ Endpoint(request[i]).code = "accepted"
                       \/ Endpoint(request[i]).id
    OBVIOUS
  <2>1. PICK m \in Line : request[i] = buildHeaders(m, configured, headerKey(m, i))
    BY DEF IInv, Bridging
  <2>2. message(i) = m
    BY <2>1 DEF message, buildHeaders
  <2>3. i \in Nat
    BY Bounds DEF Call
  <2>. QED
    BY <2>1, <2>2, <2>3, EnvelopeNames DEF AnswerEnvelope
<1>. QED
  BY <1>1, <1>2, <1>3, AnswerInv DEF AnswerEnvelope, IInv, TypeOK
LEMMA Requested ==
    ASSUME IInv, NEW i \in Call, stage[i] # "none"
    PROVE  request[i] \in HttpRequest /\ message(i) \in Message
BY Bounds DEF IInv, TypeOK, Progress, Call, message, HttpRequest

LEMMA GateRefusesInv ==
    ASSUME IInv, NEW i \in Call, GateRefuses(i)
    PROVE  IInv'
<1>. DEFINE reply == ReplyTo(message(i), "gate_refused")
<1>1. stage[i] = "sent" /\ fate[i] = "none" /\ reply \in Reply
  BY Requested, Replies DEF IInv, Progress, GateRefuses, runs, Code
<1>2. reply.code = "gate_refused" /\ (kind(message(i)) = "request" => reply.id)
  BY RequestIsNamed
<1>. QED
  BY <1>1, <1>2, AnswerInv DEF GateRefuses, IInv, TypeOK

LEMMA KeyRequiredInv ==
    ASSUME IInv, NEW i \in Call, KeyRequired(i)
    PROVE  IInv'
<1>. DEFINE reply == ReplyTo(message(i), "idempotency_required")
<1>1. stage[i] = "sent" /\ fate[i] = "none" /\ reply \in Reply
  BY Requested, Replies DEF IInv, Progress, KeyRequired, runs, Code
<1>2. /\ reply.code = "idempotency_required"
      /\ kind(message(i)) = "request" => reply.id
  BY RequestIsNamed
<1>. QED
  BY <1>1, <1>2, AnswerInv DEF KeyRequired, IInv, TypeOK

LEMMA BeginCounts ==
    ASSUME IInv, NEW i \in Call, Begin(i)
    PROVE  /\ counted \subseteq counted' /\ counted' \subseteq Call
           /\ counts(i) => i \in counted'
           /\ stage[i] = "sent" /\ fate[i] = "none"
           /\ Endpoint(request[i]) \in Run
BY DEF IInv, TypeOK, Progress, Begin, runs

(* A tool the gateway answers itself is never forwarded.                   *)
LEMMA LocalOrForwarded ==
    \A tool \in localTools \cup {"notary.verify", "notary.getPublicKey"} :
        ~ forwards(tool)
BY DEF localTools, forwards, forwardsToPlatform, allowedTools

LEMMA AnswerLocallyInv ==
    ASSUME IInv, NEW i \in Call, AnswerLocally(i)
    PROVE  IInv'
<1>1. PICK code \in Resolved(i) : Answer(i, ReplyTo(message(i), code))
  BY DEF AnswerLocally
<1>2. code \in Code
  BY DEF Resolved, Code
<1>. DEFINE reply == ReplyTo(message(i), code)
<1>3. stage[i] = "sent" /\ fate[i] = "none" /\ reply \in Reply
  BY <1>2, BeginCounts, Requested, Replies DEF AnswerLocally
<1>4. reply.code = code /\ (kind(message(i)) = "request" => reply.id)
  BY RequestIsNamed
<1>5. ~ forwards(toolOf(i))
  BY LocalOrForwarded DEF AnswerLocally
<1>. QED
  BY <1>1, <1>3, <1>4, <1>5, BeginCounts, AnswerInv DEF AnswerLocally

LEMMA RouteFailsInv ==
    ASSUME IInv, NEW i \in Call, RouteFails(i)
    PROVE  IInv'
<1>. DEFINE reply == ReplyTo(message(i), "validation_failed")
<1>1. stage[i] = "sent" /\ fate[i] = "none" /\ reply \in Reply
  BY BeginCounts, Requested, Replies DEF RouteFails, Code
<1>2. reply.code = "validation_failed" /\ (kind(message(i)) = "request" => reply.id)
  BY RequestIsNamed
<1>. QED
  BY <1>1, <1>2, BeginCounts, AnswerInv DEF RouteFails

LEMMA ForwardInv ==
    ASSUME IInv, NEW i \in Call, Forward(i)
    PROVE  IInv'
<1>. USE DEF Forward, bridge, sent
<1>1. /\ stage'[i] = "forwarded" /\ fate'[i] = "pending"
      /\ \A j \in Call : j # i => stage'[j] = stage[j] /\ fate'[j] = fate[j]
  BY DEF IInv, TypeOK
<1>2. /\ stage[i] = "sent" /\ fate[i] = "none"
      /\ Endpoint(request[i]) \in Run
      /\ counted \subseteq counted' /\ counted' \subseteq Call
      /\ counts(i) => i \in counted'
  BY BeginCounts
<1>3. TypeOK'
  BY <1>2 DEF IInv, TypeOK
<1>4. Progress'
  BY <1>1, <1>2 DEF IInv, Progress, toolOf
<1>5. AnswersAreTrue'
  BY <1>1, <1>2 DEF IInv, AnswersAreTrue, toolOf
<1>6. Counted'
  BY <1>1, <1>2 DEF IInv, TypeOK, Counted, counts, marketplace, registers, toolOf
<1>7. KeyOnce' /\ Bridging' /\ Waiting'
  BY <1>1 DEF IInv, KeyOnce, carried, keyOf, Bridging, Waiting, pendingLine
<1>8. Identified'
  <2>1. bridged \subseteq Call
    BY Bounds DEF IInv, TypeOK, Call
  <2>. QED
    BY <1>1, <2>1 DEF IInv, Identified, message
<1>. QED
  BY <1>3, <1>4, <1>5, <1>6, <1>7, <1>8 DEF IInv

LEMMA ForwardReturnsInv ==
    ASSUME IInv, NEW i \in Call, ForwardReturns(i)
    PROVE  IInv'
<1>1. PICK code \in Resolved(i) : Answer(i, ReplyTo(message(i), code))
  BY DEF ForwardReturns
<1>2. code \in Code \ Refusals
  BY DEF Resolved, Code, Refusals
<1>. DEFINE reply == ReplyTo(message(i), code)
<1>3. reply \in Reply
  BY <1>2, Requested, Replies DEF ForwardReturns
<1>4. reply.code = code /\ (kind(message(i)) = "request" => reply.id)
  BY RequestIsNamed
<1>. QED
  BY <1>1, <1>2, <1>3, <1>4, AnswerInv DEF ForwardReturns, IInv, TypeOK

LEMMA ForwardRefusedInv ==
    ASSUME IInv, NEW i \in Call, ForwardRefused(i)
    PROVE  IInv'
<1>. DEFINE reply == ReplyTo(message(i), "platform_rejected")
<1>1. reply \in Reply
  BY Requested, Replies DEF ForwardRefused, Code
<1>2. reply.code = "platform_rejected" /\ (kind(message(i)) = "request" => reply.id)
  BY RequestIsNamed
<1>. QED
  BY <1>1, <1>2, AnswerInv DEF ForwardRefused, IInv, TypeOK

LEMMA ForwardFailsInv ==
    ASSUME IInv, NEW i \in Call, ForwardFails(i)
    PROVE  IInv'
<1>. DEFINE reply == ReplyTo(message(i), "platform_api_unavailable")
<1>1. reply \in Reply
  BY Requested, Replies DEF ForwardFails, Code
<1>2. /\ reply.code = "platform_api_unavailable"
      /\ kind(message(i)) = "request" => reply.id
  BY RequestIsNamed
<1>3. "platform_api_unavailable" \notin Refusals
  BY DEF Refusals
<1>. QED
  BY <1>1, <1>2, <1>3, AnswerInv DEF ForwardFails, IInv, TypeOK

(* The platform's steps: a pending call is done, repeated or refused.      *)
LEMMA PlatformInv ==
    ASSUME IInv, NEW i \in Call, fate[i] = "pending",
           NEW f \in {"done", "replayed", "refused"},
           fate' = [fate EXCEPT ![i] = f],
           f = "done" /\ keyOf(i) # None => \A j \in carried : keyOf(j) # keyOf(i),
           UNCHANGED <<bridge, sent, gateway>>
    PROVE  IInv'
<1>. USE DEF bridge, sent, gateway
<1>1. fate'[i] = f /\ \A j \in Call : j # i => fate'[j] = fate[j]
  BY DEF IInv, TypeOK
<1>2. TypeOK'
  BY DEF IInv, TypeOK
<1>3. Progress' /\ AnswersAreTrue'
  BY <1>1 DEF IInv, Progress, AnswersAreTrue, toolOf
<1>4. Counted'
  BY <1>1 DEF IInv, TypeOK, Counted, counts, marketplace, registers, toolOf
<1>5. KeyOnce'
  BY <1>1 DEF IInv, KeyOnce, carried, keyOf
<1>6. Bridging' /\ Identified' /\ Waiting'
  BY DEF IInv, Bridging, Identified, Waiting, message, pendingLine
<1>. QED
  BY <1>2, <1>3, <1>4, <1>5, <1>6 DEF IInv

LEMMA CarryOutInv ==
    ASSUME IInv, NEW i \in Call, CarryOut(i)
    PROVE  IInv'
<1>. DEFINE f == IF keyOf(i) # None /\ \E j \in carried : keyOf(j) = keyOf(i)
                 THEN "replayed" ELSE "done"
<1>1. fate' = [fate EXCEPT ![i] = f] /\ fate[i] = "pending"
      /\ UNCHANGED <<bridge, sent, gateway>>
  BY DEF CarryOut
<1>2. /\ f \in {"done", "replayed", "refused"}
      /\ f = "done" /\ keyOf(i) # None => \A j \in carried : keyOf(j) # keyOf(i)
  OBVIOUS
<1>. HIDE DEF f
<1>. QED
  BY <1>1, <1>2, PlatformInv

LEMMA PlatformRefusesInv ==
    ASSUME IInv, NEW i \in Call, PlatformRefuses(i)
    PROVE  IInv'
BY PlatformInv DEF PlatformRefuses

LEMMA StepInv == IInv /\ [Next]_vars => IInv'
<1>. SUFFICES ASSUME IInv, [Next]_vars PROVE IInv'
  OBVIOUS
<1>1. ASSUME NEW i \in Call, Handle(i) PROVE IInv'
  BY <1>1, AnswerEnvelopeInv, GateRefusesInv, KeyRequiredInv,
     AnswerLocallyInv, RouteFailsInv, ForwardInv, ForwardReturnsInv,
     ForwardRefusedInv, ForwardFailsInv DEF Handle
<1>2. CASE Next
  BY <1>1, <1>2, PostDirectlyInv, ReadGarbageInv, ReadLineInv, ReceiveInv,
     ReceiveNoJsonInv, FetchFailsInv, LoseInv, CarryOutInv,
     PlatformRefusesInv DEF Next
<1>3. CASE UNCHANGED vars
  <2>1. TypeOK' /\ Progress' /\ AnswersAreTrue' /\ Counted' /\ KeyOnce'
    BY <1>3 DEF vars, bridge, sent, gateway, IInv, TypeOK, Progress,
       AnswersAreTrue, Counted, KeyOnce, carried, keyOf, counts, marketplace,
       registers, toolOf
  <2>2. Bridging' /\ Identified' /\ Waiting'
    BY <1>3 DEF vars, bridge, sent, gateway, IInv, Bridging, Identified,
       Waiting, message, pendingLine
  <2>. QED
    BY <2>1, <2>2 DEF IInv
<1>. QED
  BY <1>2, <1>3

(* The invariant holds throughout.                                         *)
THEOREM Invariance == Spec => []IInv
BY InitInv, StepInv, PTL DEF Spec

(* Every variable keeps its type.                                          *)
THEOREM TypeCorrect == Spec => []TypeOK
BY Invariance, PTL DEF IInv

(* No client is told of a call what is not or will not be so: a refusal    *)
(* stays one, and an ok was carried out (ForwardTool, writeForwardError).  *)
THEOREM AnswersTrue == Spec => []AnswersAreTrue
BY Invariance, PTL DEF IInv

(* Calls carried out are counted calls, and counted registrations carried  *)
(* out (toolUsage in serveTool).                                           *)
THEOREM UsageBounded == Spec => []UsageBounds
<1>1. IInv => UsageBounds
  BY DEF IInv, Counted, UsageBounds
<1>. QED
  BY <1>1, Invariance, PTL

(***************************************************************************)
(* The keys.                                                               *)
(***************************************************************************)
(* The names of a keyed tool: none of them is an alias.                    *)
LEMMA KeyedNames ==
    /\ \A n : canonicalTool(n) \in idempotentTools => n \in IDEMPOTENT_TOOLS
    /\ idempotentTools \cap notaryTools = {}
<1>1. \A n : canonicalTool(n) \in idempotentTools => n \in IDEMPOTENT_TOOLS
  BY DEF canonicalTool, unlistedAliases, idempotentTools, IDEMPOTENT_TOOLS
<1>2. idempotentTools \cap notaryTools = {}
  BY DEF idempotentTools, notaryTools, notaryTool
<1>. QED
  BY <1>1, <1>2

LEMMA ServeToolRuns ==
    ASSUME NEW m, serveTool(m) \in Run
    PROVE  serveTool(m).tool = canonicalTool(target(m))
<1>1. \A c : ReplyTo(m, c) \notin Run
  <2>. SUFFICES ASSUME NEW c, ReplyTo(m, c) \in Run PROVE FALSE
    OBVIOUS
  <2>1. DOMAIN ReplyTo(m, c) = {"code", "id"}
    BY DEF ReplyTo
  <2>2. DOMAIN ReplyTo(m, c) = {"tool"}
    BY DEF Run
  <2>. QED
    BY <2>1, <2>2
<1>. QED
  BY <1>1 DEF serveTool, RunTool

(* What the marketplace runs is the canonical tool of a well-formed body,  *)
(* under the stateless revision with headers that repeat it.               *)
LEMMA MarketRuns ==
    ASSUME NEW r \in HttpRequest, ServeHTTP(r) \in Run
    PROVE  /\ ServeHTTP(r).tool = canonicalTool(target(r.message))
           /\ ~ BadBody(r.message)
           /\ isStatelessRequest(r) => ~ headerMismatch(r)
<1>. DEFINE m == r.message
<1>0. m \in Message
  BY DEF HttpRequest
<1>1. NotPosted(r) \in Reply
  BY Replies DEF NotPosted, Code
<1>2. AnswerBadBody(m) \in Reply /\ AnswerBadMeta(r) \in Reply
  BY <1>0, AnswerBadBodyReply, AnswerBadMetaReply
<1>3. /\ Unnamed("origin_rejected") \in Reply
      /\ Unnamed("accepted") \in Reply
      /\ ReplyTo(m, "unsupported_version") \in Reply
      /\ ReplyTo(m, "ok") \in Reply
  BY <1>0, Replies DEF Code
<1>4. ~ BadBody(m)
  BY <1>1, <1>2, <1>3, ReplyIsNoRun DEF ServeHTTP
<1>5. CASE isStatelessRequest(r)
  <2>1. ServeHTTP(r) = serveStateless(r)
    BY <1>1, <1>3, <1>4, <1>5, ReplyIsNoRun DEF ServeHTTP
  <2>2. ~ BadMeta(r) /\ ServeHTTP(r) = serveTool(m)
    BY <2>1, <1>2, <1>3, ReplyIsNoRun DEF serveStateless
  <2>. QED
    BY <2>2, <1>4, ServeToolRuns DEF BadMeta
<1>6. CASE ~ isStatelessRequest(r)
  <2>1. ServeHTTP(r) = handleMCPProtocolMethod(m)
    BY <1>1, <1>3, <1>4, <1>6, ReplyIsNoRun DEF ServeHTTP
  <2>2. ServeHTTP(r) = serveTool(m)
    BY <2>1, <1>3, ReplyIsNoRun DEF handleMCPProtocolMethod
  <2>. QED
    BY <2>2, <1>4, <1>6, ServeToolRuns
<1>. QED
  BY <1>5, <1>6

LEMMA NotaryRuns ==
    ASSUME NEW r \in HttpRequest, serveNotary(r) \in Run
    PROVE  /\ serveNotary(r).tool = calledNotaryTool(r.message)
           /\ serveNotary(r).tool \in notaryTools
           /\ r.message.method = "tools/call"
           /\ isStatelessRequest(r) => ~ headerMismatch(r)
<1>. DEFINE m == r.message
<1>0. m \in Message
  BY DEF HttpRequest
<1>1. AnswerBadBody(m) \in Reply /\ AnswerBadMeta(r) \in Reply
  BY <1>0, AnswerBadBodyReply, AnswerBadMetaReply
<1>2. /\ Unnamed("origin_rejected") \in Reply
      /\ Unnamed("method_not_allowed") \in Reply
      /\ Unnamed("accepted") \in Reply
      /\ ReplyTo(m, "unsupported_version") \in Reply
      /\ ReplyTo(m, "method_not_found") \in Reply
      /\ ReplyTo(m, "invalid_params") \in Reply
      /\ ReplyTo(m, "ok") \in Reply
  BY <1>0, Replies DEF Code
<1>3. /\ serveNotary(r) = notaryMethod(m)
      /\ ~ (isStatelessRequest(r) /\ BadMeta(r))
  BY <1>1, <1>2, ReplyIsNoRun DEF serveNotary
<1>4. /\ m.method = "tools/call"
      /\ notaryMethod(m) = RunTool(calledNotaryTool(m))
      /\ calledNotaryTool(m) \in notaryTools
  BY <1>2, <1>3, ReplyIsNoRun DEF notaryMethod
<1>. QED
  BY <1>3, <1>4 DEF RunTool, BadMeta

(* A keyed tool is called by a well-formed call that names it.             *)
LEMMA KeyedCall ==
    ASSUME NEW r \in HttpRequest, Endpoint(r) \in Run,
           Endpoint(r).tool \in idempotentTools
    PROVE  /\ r.path # "/notary/v1" /\ r.message.shape = "object"
           /\ target(r.message) \in IDEMPOTENT_TOOLS
<1>1. r.path # "/notary/v1"
  BY NotaryRuns, KeyedNames DEF Endpoint
<1>2. /\ Endpoint(r).tool = canonicalTool(target(r.message))
      /\ ~ BadBody(r.message)
  BY <1>1, MarketRuns DEF Endpoint
<1>3. r.message.shape = "object"
  BY <1>2 DEF BadBody, Unread, NotRpc, HttpRequest, Message
<1>. QED
  BY <1>1, <1>2, <1>3, KeyedNames

(* The key a client chose is the one the platform is given.                *)
LEMMA KeyArrives ==
    ASSUME IInv, NEW i \in Call, keyed(i), chosenKey(i) # None
    PROVE  keyOf(i) = chosenKey(i)
<1>1. request[i] \in HttpRequest /\ Endpoint(request[i]) \in Run
      /\ toolOf(i) \in idempotentTools
  BY Requested DEF IInv, Progress, keyed
<1>2. CASE i \in bridged
  <2>1. PICK m \in Line : request[i] = buildHeaders(m, configured, headerKey(m, i))
    BY <1>2 DEF IInv, Bridging
  <2>2. request[i].message = m /\ request[i].key = headerKey(m, i)
    BY <2>1 DEF buildHeaders
  <2>3. needsIdempotency(m)
    BY <1>1, <2>2, KeyedCall DEF needsIdempotency, toolOf
  <2>4. chosenKey(i) = m.metaKey /\ headerKey(m, i) = m.metaKey
    BY <1>2, <2>2, <2>3 DEF chosenKey, headerKey
  <2>. QED
    BY <2>2, <2>4 DEF keyOf, forwardedKey
<1>3. CASE i \notin bridged
  <2>1. argumentForwarded(request[i])
    BY <1>1, KeyedCall DEF toolOf, argumentForwarded
  <2>. QED
    BY <1>3, <2>1 DEF chosenKey, keyOf, forwardedKey
<1>. QED
  BY <1>2, <1>3

(* Under a key its client chose a write is carried out at most once, with  *)
(* or without the bridge, over any retries and late arrivals               *)
(* (explicitIdempotencyKey, idempotencyKey, ForwardTool).                  *)
THEOREM PinnedCallsOnce == Spec => []PinnedOnce
<1>1. IInv => PinnedOnce
  <2>. SUFFICES ASSUME IInv, NEW i \in Call, NEW j \in Call, i # j,
                       keyed(i), keyed(j), chosenKey(i) # None,
                       chosenKey(i) = chosenKey(j),
                       fate[i] = "done", fate[j] = "done"
                PROVE  FALSE
    BY DEF PinnedOnce
  <2>1. keyOf(i) = keyOf(j) /\ keyOf(i) # None
    BY KeyArrives
  <2>. QED
    BY <2>1 DEF IInv, KeyOnce, carried
<1>. QED
  BY <1>1, Invariance, PTL

(* What the headers of a stateless request name is what runs               *)
(* (headerMismatch).                                                       *)
THEOREM HeadersName == Spec => []NoMisrouting
<1>1. IInv => NoMisrouting
  <2>. SUFFICES ASSUME IInv, NEW i \in Call, fate[i] # "none",
                       isStatelessRequest(request[i])
                PROVE  IF marketplace(i)
                       THEN canonicalTool(Named(request[i])) = toolOf(i)
                       ELSE LET n == Named(request[i]) IN
                            (IF n \in DOMAIN notaryTool THEN notaryTool[n] ELSE n)
                                = toolOf(i)
    BY DEF NoMisrouting
  <2>. DEFINE r == request[i]
  <2>1. r \in HttpRequest /\ Endpoint(r) \in Run
    BY Requested DEF IInv, Progress
  <2>2. ~ headerMismatch(r)
    BY <2>1, MarketRuns, NotaryRuns DEF Endpoint
  <2>3. Named(r) = target(r.message)
    BY <2>2 DEF headerMismatch, Named, target, decodeHeaderValue
  <2>4. CASE r.path = "/notary/v1"
    <3>1. toolOf(i) = calledNotaryTool(r.message) /\ r.message.method = "tools/call"
      BY <2>1, <2>4, NotaryRuns DEF Endpoint, toolOf
    <3>. QED
      BY <2>3, <2>4, <3>1 DEF marketplace, target, calledNotaryTool
  <2>5. CASE r.path # "/notary/v1"
    <3>1. toolOf(i) = canonicalTool(target(r.message)) /\ marketplace(i)
      BY <2>1, <2>5, MarketRuns DEF Endpoint, toolOf, marketplace, HttpRequest
    <3>. QED
      BY <2>3, <3>1
  <2>. QED
    BY <2>4, <2>5
<1>. QED
  BY <1>1, Invariance, PTL

(***************************************************************************)
(* The bridge speaks for its client: it sets the headers and the key of a  *)
(* call, and no call is refused for what it set.                           *)
(***************************************************************************)
(* Where an answer comes from that blames a header or a missing key.       *)
Blame ==
    \A i \in Call : stage[i] = "answered" =>
        /\ answer[i].code = "idempotency_required" =>
              Endpoint(request[i]) \in Run /\ lacksKey(i)
        /\ answer[i].code = "header_mismatch" =>
              answer[i] = Endpoint(request[i])

(* A call no handler serves in this step is where it was, is sent or lost. *)
LEMMA Unserved ==
    ASSUME IInv, [Next]_vars, NEW i \in Call, ~ Handle(i)
    PROVE  \/ /\ stage'[i] = stage[i] /\ answer'[i] = answer[i]
              /\ stage[i] # "none" => request'[i] = request[i]
           \/ stage[i] = "none" /\ stage'[i] = "sent"
           \/ stage[i] = "sent" /\ stage'[i] = "lost"
<1>. USE DEF IInv, TypeOK, bridge, sent, gateway
<1>1. ASSUME NEW r \in HttpRequest, Send(r)
      PROVE  \/ /\ stage'[i] = stage[i] /\ answer'[i] = answer[i]
                /\ request'[i] = request[i]
             \/ stage[i] = "none" /\ stage'[i] = "sent"
  <2>1. called + 1 \in Call /\ stage[called + 1] = "none"
    BY <1>1, SendKeeps, Bounds DEF Progress, Call
  <2>. QED
    BY <1>1, <2>1 DEF Send
<1>2. ASSUME NEW r \in Post, PostDirectly(r)
      PROVE  Send(r) /\ r \in HttpRequest
  BY <1>2, Messages DEF PostDirectly
<1>3. ASSUME NEW m \in Line, ReadLine(m)
      PROVE  \E r \in HttpRequest : Send(r)
  BY <1>3, BridgeType DEF ReadLine
<1>4. CASE \E m \in Line : ReadGarbage(m)
  BY <1>4 DEF ReadGarbage
<1>5. CASE Receive \/ ReceiveNoJson \/ FetchFails
  BY <1>5 DEF Receive, ReceiveNoJson, FetchFails
<1>6. ASSUME NEW j \in Call, Lose(j) \/ CarryOut(j) \/ PlatformRefuses(j)
      PROVE  \/ /\ stage'[i] = stage[i] /\ answer'[i] = answer[i]
                /\ request'[i] = request[i]
             \/ stage[i] = "sent" /\ stage'[i] = "lost"
  BY <1>6 DEF Lose, CarryOut, PlatformRefuses
<1>7. ASSUME NEW j \in Call, Handle(j), j # i
      PROVE  /\ stage'[i] = stage[i] /\ answer'[i] = answer[i]
             /\ request'[i] = request[i]
  BY <1>7
  DEF Handle, AnswerEnvelope, GateRefuses, KeyRequired, AnswerLocally, RouteFails,
      Forward, ForwardReturns, ForwardRefused, ForwardFails, Answer
<1>8. CASE UNCHANGED vars
  BY <1>8 DEF vars
<1>. QED
  BY <1>1, <1>2, <1>3, <1>4, <1>5, <1>6, <1>7, <1>8 DEF Next

(* The envelope answers no call with idempotency_required.                 *)
LEMMA EnvelopeAsksNoKey ==
    ASSUME NEW r \in HttpRequest, Endpoint(r) \in Reply
    PROVE  Endpoint(r).code # "idempotency_required"
<1>. DEFINE m == r.message
            Other(e) == e \in Run \/ e.code # "idempotency_required"
<1>1. \A c \in Code \ {"idempotency_required"} :
          Other(Unnamed(c)) /\ Other(ReplyTo(m, c))
  BY DEF Unnamed, ReplyTo
<1>2. Other(AnswerBadBody(m)) /\ Other(AnswerBadMeta(r)) /\ Other(NotPosted(r))
  BY <1>1 DEF AnswerBadBody, AnswerBadMeta, NotPosted, Code
<1>3. Other(serveTool(m))
  BY <1>1 DEF serveTool, allowedTool, RunTool, Run, Code
<1>4. Other(serveStateless(r)) /\ Other(handleMCPProtocolMethod(m))
  BY <1>1, <1>2, <1>3 DEF serveStateless, handleMCPProtocolMethod, Code
<1>5. Other(ServeHTTP(r))
  BY <1>1, <1>2, <1>4 DEF ServeHTTP, Code
<1>6. Other(notaryMethod(m))
  BY <1>1 DEF notaryMethod, RunTool, Run, Code
<1>7. Other(serveNotary(r))
  BY <1>1, <1>2, <1>6 DEF serveNotary, Code
<1>. QED
  BY <1>5, <1>7, ReplyIsNoRun DEF Endpoint

LEMMA HandleBlames ==
    ASSUME IInv, NEW i \in Call, Handle(i)
    PROVE  (stage[i] = "answered" =>
              /\ answer[i].code = "idempotency_required" =>
                    Endpoint(request[i]) \in Run /\ lacksKey(i)
              /\ answer[i].code = "header_mismatch" =>
                    answer[i] = Endpoint(request[i]))'
<1>. USE DEF IInv, TypeOK, Answer, sent, lacksKey, toolOf
<1>1. CASE AnswerEnvelope(i)
  <2>1. request[i] \in HttpRequest
    BY <1>1, Requested DEF AnswerEnvelope
  <2>. QED
    BY <1>1, <2>1, EnvelopeAsksNoKey DEF AnswerEnvelope
<1>2. CASE KeyRequired(i)
  BY <1>2 DEF KeyRequired, runs, ReplyTo
<1>3. CASE \/ GateRefuses(i) \/ AnswerLocally(i) \/ RouteFails(i)
           \/ ForwardReturns(i) \/ ForwardRefused(i) \/ ForwardFails(i)
  BY <1>3
  DEF GateRefuses, AnswerLocally, RouteFails, ForwardReturns, ForwardRefused,
      ForwardFails, Resolved, ReplyTo
<1>4. CASE Forward(i)
  BY <1>4 DEF Forward
<1>. QED
  BY <1>1, <1>2, <1>3, <1>4 DEF Handle

LEMMA Blamed == Spec => []Blame
<1>1. Init => Blame
  BY DEF Init, Blame
<1>2. IInv /\ Blame /\ [Next]_vars => Blame'
  <2>. SUFFICES ASSUME IInv, Blame, [Next]_vars, NEW i \in Call
                PROVE  (stage[i] = "answered" =>
                          /\ answer[i].code = "idempotency_required" =>
                                Endpoint(request[i]) \in Run /\ lacksKey(i)
                          /\ answer[i].code = "header_mismatch" =>
                                answer[i] = Endpoint(request[i]))'
    BY DEF Blame
  <2>1. CASE Handle(i)
    BY <2>1, HandleBlames
  <2>2. CASE ~ Handle(i)
    BY <2>2, Unserved DEF Blame, lacksKey, toolOf
  <2>. QED
    BY <2>1, <2>2
<1>. QED
  BY <1>1, <1>2, Invariance, PTL DEF Spec

(* No call the bridge made is refused for want of a key.                   *)
KeysSuffice ==
    \A i \in bridged :
        stage[i] = "answered" => answer[i].code # "idempotency_required"

(* The bridge draws a key for whatever the gateway wants one for: neither  *)
(* table has a tool the other lacks, and no older name stands for one of   *)
(* them (IDEMPOTENT_TOOLS of protocol.js, "Mirrors `idempotentTools`").    *)
THEOREM BridgeKeysSuffice == Spec => []KeysSuffice
<1>1. IInv /\ Blame => KeysSuffice
  <2>. SUFFICES ASSUME IInv, Blame, NEW i \in bridged, stage[i] = "answered",
                       answer[i].code = "idempotency_required"
                PROVE  FALSE
    BY DEF KeysSuffice
  <2>1. i \in Call
    BY Bounds DEF IInv, TypeOK, Call
  <2>2. /\ request[i] \in HttpRequest /\ Endpoint(request[i]) \in Run
        /\ toolOf(i) \in idempotentTools /\ idempotencyKey(request[i]) = None
    BY <2>1, Requested DEF Blame, lacksKey
  <2>3. PICK m \in Line : request[i] = buildHeaders(m, configured, headerKey(m, i))
    BY DEF IInv, Bridging
  <2>4. needsIdempotency(m)
    BY <2>2, <2>3, KeyedCall DEF needsIdempotency, toolOf, buildHeaders
  <2>5. headerKey(m, i) = None
    BY <2>2, <2>3 DEF idempotencyKey, buildHeaders
  <2>6. i = None
    BY <2>4, <2>5 DEF headerKey
  <2>. QED
    BY <2>1, <2>6, NoneIsNothing DEF Key, Call
<1>. QED
  BY <1>1, Blamed, Invariance, PTL

(* No call the bridge made is refused over its headers, unless it calls    *)
(* something without a name or by one that is the encoding of another.     *)
HeadersAgree ==
    \A i \in bridged :
        stage[i] = "answered" /\ answer[i].code = "header_mismatch" =>
            LET m == message(i) IN
            \/ m.method = "=?base64?unicode?="
            \/ /\ m.method \in {"tools/call", "resources/read"}
               /\ m.name \in {None, "=?base64?unicode?="}

(* Where the answer header_mismatch comes from.                            *)
LEMMA MismatchMeans ==
    ASSUME NEW r \in HttpRequest, r.path = "/mcp/v1", Endpoint(r) \in Reply,
           Endpoint(r).code = "header_mismatch"
    PROVE  /\ r.message.version # None /\ r.message.method # None
           /\ r.message.shape = "object" /\ headerMismatch(r)
<1>. DEFINE m == r.message
            Other(e) == e \in Run \/ e.code # "header_mismatch"
<1>1. \A c \in Code \ {"header_mismatch"} :
          Other(Unnamed(c)) /\ Other(ReplyTo(m, c))
  BY DEF Unnamed, ReplyTo
<1>2. Other(AnswerBadBody(m)) /\ Other(NotPosted(r))
  BY <1>1 DEF AnswerBadBody, NotPosted, Code
<1>3. Other(serveTool(m))
  BY <1>1 DEF serveTool, allowedTool, RunTool, Run, Code
<1>4. Other(handleMCPProtocolMethod(m))
  BY <1>1, <1>3 DEF handleMCPProtocolMethod, Code
<1>5. ~ Other(ServeHTTP(r))
  BY ReplyIsNoRun DEF Endpoint
<1>6. ~ BadBody(m) /\ ~ Other(serveStateless(r))
  BY <1>1, <1>2, <1>4, <1>5 DEF ServeHTTP, Code
<1>7. BadMeta(r) /\ ~ Other(AnswerBadMeta(r))
  BY <1>1, <1>3, <1>6 DEF serveStateless, Code
<1>8. m.version = ProtocolStateless /\ m.capabilities
  BY <1>1, <1>7 DEF AnswerBadMeta, Code
<1>9. m.version # None
  BY <1>1, <1>7 DEF AnswerBadMeta, Code
<1>10. m.shape = "object"
  BY <1>6 DEF BadBody, Unread, NotRpc, HttpRequest, Message
<1>. QED
  BY <1>6, <1>7, <1>8, <1>9, <1>10 DEF BadMeta, BadBody, NotRpc

(* A line under the stateless revision travels with the headers the        *)
(* gateway compares it with (buildHeaders against headerMismatch).         *)
THEOREM BridgeHeadersAgree == Spec => []HeadersAgree
<1>1. IInv /\ Blame => HeadersAgree
  <2>. SUFFICES ASSUME IInv, Blame, NEW i \in bridged, stage[i] = "answered",
                       answer[i].code = "header_mismatch",
                       message(i).method # "=?base64?unicode?=",
                       message(i).method \in {"tools/call", "resources/read"} =>
                          message(i).name \notin {None, "=?base64?unicode?="}
                PROVE  FALSE
    BY DEF HeadersAgree
  <2>1. i \in Call
    BY Bounds DEF IInv, TypeOK, Call
  <2>2. /\ request[i] \in HttpRequest /\ Endpoint(request[i]) \in Reply
        /\ Endpoint(request[i]).code = "header_mismatch"
    BY <2>1, Requested DEF Blame, IInv, Progress
  <2>3. PICK m \in Line : request[i] = buildHeaders(m, configured, headerKey(m, i))
    BY DEF IInv, Bridging
  <2>4. message(i) = m /\ request[i].path = "/mcp/v1"
    BY <2>3 DEF buildHeaders, message
  <2>5. /\ m.version # None /\ m.method # None
        /\ m.shape = "object" /\ headerMismatch(request[i])
    BY <2>2, <2>4, MismatchMeans DEF message
  <2>6. \A n : n # "=?base64?unicode?=" =>
           decodeHeaderValue(encodeHeaderValue(n)) = n
    BY DEF decodeHeaderValue, encodeHeaderValue
  <2>7. /\ request[i].version = m.version
        /\ request[i].mcpMethod = encodeHeaderValue(m.method)
        /\ m.method \in {"tools/call", "resources/read"} =>
               request[i].mcpName = encodeHeaderValue(m.name)
    BY <2>3, <2>4, <2>5 DEF buildHeaders, encodedName
  <2>8. \A n : n # None => encodeHeaderValue(n) # None
    <3>1. "=?base64?unicode?=" \in Method
      BY DEF Method, Name
    <3>. QED
      BY <3>1, NoneIsNothing DEF encodeHeaderValue
  <2>. QED
    BY <2>4, <2>5, <2>6, <2>7, <2>8 DEF headerMismatch, message
<1>. QED
  BY <1>1, Blamed, Invariance, PTL

(***************************************************************************)
(* What EveryLineAnswered rests on beside fairness: a handler at work can  *)
(* take a step, and takes two at most; and the bridge waits only for calls *)
(* that a handler is at work on, has answered, or never got.               *)
(***************************************************************************)
(* The guards of the steps of Handle(i), but for a refusal by a gate.      *)
CanHandle(i) ==
    \/ stage[i] = "forwarded"
    \/ stage[i] = "sent" /\ Endpoint(request[i]) \in Reply
    \/ runs(i) /\ counts(i) /\ lacksKey(i)
    \/ /\ runs(i) /\ ~ lacksKey(i)
       /\ \/ toolOf(i) \in localTools \cup {"notary.verify", "notary.getPublicKey"}
          \/ ~ routed(toolOf(i), message(i))
          \/ forwards(toolOf(i))

NeverStuck ==
    /\ \A i \in Call : stage[i] \in {"sent", "forwarded"} => CanHandle(i)
    /\ pending # 0 => stage[pending] \in {"sent", "lost", "forwarded", "answered"}

StepsLeft(i) ==
    [none |-> 0, sent |-> 2, lost |-> 0, forwarded |-> 1, answered |-> 0][stage[i]]

Nearer ==
    [][\A i \in Call :
          /\ Handle(i) => StepsLeft(i)' < StepsLeft(i)
          /\ StepsLeft(i)' > StepsLeft(i) => stage[i] = "none"]_vars

(* Whatever tool a request calls once it is past the gates, the endpoint   *)
(* has a way to serve it: each is answered, forwarded or refused.          *)
THEOREM NeverStuckHolds == Spec => []NeverStuck
<1>1. ASSUME IInv, NEW i \in Call, stage[i] \in {"sent", "forwarded"}
      PROVE  CanHandle(i)
  <2>1. request[i] \in HttpRequest
    BY <1>1, Requested
  <2>2. CASE stage[i] = "sent" /\ Endpoint(request[i]) \in Run
    <3>1. toolOf(i) \in allowedTools \cup notaryTools
      BY <2>2 DEF toolOf, Run
    <3>2. lacksKey(i) => counts(i)
      <4>. SUFFICES ASSUME lacksKey(i) PROVE counts(i)
        OBVIOUS
      <4>1. toolOf(i) \in idempotentTools
        BY DEF lacksKey
      <4>2. marketplace(i)
        BY <2>1, <2>2, <4>1, NotaryRuns, KeyedNames
        DEF marketplace, Endpoint, toolOf, HttpRequest
      <4>3. toolOf(i) # "onboarding.registerSelf"
        BY <4>1 DEF idempotentTools
      <4>. QED
        BY <4>2, <4>3 DEF counts, registers
    <3>3. \/ toolOf(i) \in localTools \cup {"notary.verify", "notary.getPublicKey"}
          \/ forwards(toolOf(i))
      BY <3>1 DEF forwards, forwardsToPlatform, notaryTools, notaryTool
    <3>. QED
      BY <2>2, <3>2, <3>3 DEF CanHandle, runs
  <2>. QED
    BY <1>1, <2>1, <2>2, EndpointType DEF CanHandle
<1>2. ASSUME IInv, pending # 0
      PROVE  stage[pending] \in {"sent", "lost", "forwarded", "answered"}
  <2>1. pending \in Call /\ pending <= called
    BY <1>2, Bounds DEF IInv, TypeOK, Call
  <2>. QED
    BY <1>2, <2>1, Bounds DEF IInv, TypeOK, Progress, Call
<1>3. IInv => NeverStuck
  BY <1>1, <1>2 DEF NeverStuck
<1>. QED
  BY <1>3, Invariance, PTL

(* A handler forwards a call at most once and then answers; neither the    *)
(* platform nor another handler makes it begin anew (no retry in           *)
(* ForwardTool).                                                           *)
THEOREM NearerHolds == Spec => Nearer
<1>1. ASSUME IInv, [Next]_vars, NEW i \in Call
      PROVE  /\ Handle(i) => StepsLeft(i)' < StepsLeft(i)
             /\ StepsLeft(i)' > StepsLeft(i) => stage[i] = "none"
  <2>1. CASE Handle(i)
    <3>1. \/ stage[i] \in {"sent", "forwarded"} /\ stage'[i] = "answered"
          \/ stage[i] = "sent" /\ stage'[i] = "forwarded"
      BY <1>1, <2>1
      DEF IInv, TypeOK, Handle, AnswerEnvelope, GateRefuses, KeyRequired,
          AnswerLocally, RouteFails, Forward, ForwardReturns, ForwardRefused,
          ForwardFails, Answer, Begin, runs
    <3>. QED
      BY <3>1 DEF StepsLeft
  <2>2. CASE ~ Handle(i)
    <3>1. \/ stage'[i] = stage[i]
          \/ stage[i] = "none" /\ stage'[i] = "sent"
          \/ stage[i] = "sent" /\ stage'[i] = "lost"
      BY <1>1, <2>2, Unserved
    <3>2. stage[i] \in {"none", "sent", "lost", "forwarded", "answered"}
      BY <1>1 DEF IInv, TypeOK
    <3>. QED
      BY <2>2, <3>1, <3>2 DEF StepsLeft
  <2>. QED
    BY <2>1, <2>2
<1>2. IInv /\ [Next]_vars =>
        [\A i \in Call :
            /\ Handle(i) => StepsLeft(i)' < StepsLeft(i)
            /\ StepsLeft(i)' > StepsLeft(i) => stage[i] = "none"]_vars
  BY <1>1
<1>. QED
  BY <1>2, Invariance, PTL DEF Nearer, Spec

(***************************************************************************)
(* The bridge implements LineServer.                                       *)
(***************************************************************************)
LEMMA Opened ==
    ASSUME IInv, pending # 0
    PROVE  /\ lines # <<>> /\ lines[Len(lines)] = kind(pendingLine)
           /\ pending \in bridged /\ pending \in Call
           /\ Len(lines) \in Nat \ {0}
<1>1. /\ lines # <<>> /\ lines[Len(lines)] = kind(pendingLine)
      /\ pending \in bridged /\ pending \in Call
  BY Bounds DEF IInv, TypeOK, Waiting, Call
<1>2. Len(lines) \in Nat \ {0}
  BY <1>1 DEF IInv, TypeOK
<1>. QED
  BY <1>1, <1>2

LEMMA WriteMaps ==
    ASSUME IInv, pending # 0, pending' = 0, NEW id \in BOOLEAN,
           UNCHANGED lines, WriteFor(pendingLine, id),
           kind(pendingLine) = "request" => id
    PROVE  LS!Next
<1>0. lines[Len(lines)] = kind(pendingLine) /\ Len(lines) # 0
  BY Opened
<1>1. CASE isNotification(pendingLine)
  <2>1. kind(pendingLine) = "silent"
    BY <1>1 DEF kind, isNotification
  <2>2. UNCHANGED out
    BY <1>1 DEF WriteFor
  <2>3. LS!Pass
    BY <1>0, <2>1, <2>2 DEF LS!Pass
  <2>. QED
    BY <2>3 DEF LS!Next
<1>2. CASE ~ isNotification(pendingLine)
  <2>1. kind(pendingLine) # "silent"
    BY <1>2 DEF kind
  <2>2. out' = Append(out, [line |-> Len(lines), id |-> id])
    BY <1>2 DEF WriteFor, Write
  <2>3. LS!Answer(id)
    BY <1>0, <2>1, <2>2 DEF LS!Answer
  <2>. QED
    BY <2>3 DEF LS!Next
<1>. QED
  BY <1>1, <1>2

LEMMA RequestHasId ==
    ASSUME NEW m, kind(m) = "request"
    PROVE  hasId(m) /\ ownId(m) /\ ~ isNotification(m)
BY DEF kind, isNotification, hasId, ownId

LEMMA OwnIdMaps ==
    ASSUME IInv, pending # 0, pending' = 0, UNCHANGED lines,
           WriteFor(pendingLine, ownId(pendingLine))
    PROVE  LS!Next
<1>1. ownId(pendingLine) \in BOOLEAN
  BY OwnIdType
<1>2. kind(pendingLine) = "request" => ownId(pendingLine)
  BY RequestHasId
<1>. QED
  BY <1>1, <1>2, WriteMaps

LEMMA StepMaps == IInv /\ [Next]_vars => [LS!Next]_(LS!vars)
<1>. SUFFICES ASSUME IInv, [Next]_vars PROVE LS!Next \/ UNCHANGED LS!vars
  OBVIOUS
<1>1. ASSUME UNCHANGED bridge PROVE UNCHANGED LS!vars
  BY <1>1 DEF bridge, LS!vars
<1>2. ASSUME NEW r \in Post, PostDirectly(r) PROVE UNCHANGED LS!vars
  BY <1>1, <1>2 DEF PostDirectly
<1>3. ASSUME NEW m \in Line, ReadGarbage(m) PROVE LS!Next
  <2>1. LS!Reject
    BY <1>3 DEF ReadGarbage, LS!Reject, IInv, TypeOK
  <2>. QED
    BY <2>1 DEF LS!Next
<1>4. ASSUME NEW m \in Line, ReadLine(m) PROVE LS!Next
  <2>1. kind(m) \in LS!Kind
    BY DEF kind, LS!Kind
  <2>2. pending' # 0
    BY <1>4 DEF ReadLine, IInv, TypeOK
  <2>3. LS!Read(kind(m))
    BY <1>4, <2>2 DEF ReadLine, LS!Read
  <2>. QED
    BY <2>1, <2>3 DEF LS!Next
<1>5. CASE Receive
  <2>. DEFINE id == IF answer[pending].code = "accepted"
                    THEN ownId(pendingLine) ELSE answer[pending].id
  <2>1. pending # 0 /\ stage[pending] = "answered" /\ answer[pending] \in Reply
    BY <1>5, Opened DEF Receive, IInv, Progress
  <2>2. id \in BOOLEAN
    BY <2>1, OwnIdType DEF Reply
  <2>3. kind(pendingLine) = "request" => id
    <3>. SUFFICES ASSUME kind(pendingLine) = "request" PROVE id
      OBVIOUS
    <3>1. CASE answer[pending].code = "accepted"
      <4>1. ownId(pendingLine)
        BY RequestHasId
      <4>. QED
        BY <3>1, <4>1
    <3>2. CASE answer[pending].code # "accepted"
      <4>1. answer[pending].id
        BY <2>1, <3>2, Opened DEF IInv, Identified, pendingLine, message
      <4>. QED
        BY <3>2, <4>1
    <3>. QED
      BY <3>1, <3>2
  <2>4. WriteFor(pendingLine, id) /\ pending' = 0 /\ UNCHANGED lines
    BY <1>5 DEF Receive
  <2>. HIDE DEF id
  <2>. QED
    BY <2>1, <2>2, <2>3, <2>4, WriteMaps
<1>6. CASE ReceiveNoJson
  BY <1>6, OwnIdMaps DEF ReceiveNoJson
<1>7. CASE FetchFails
  <2>1. pending # 0 /\ pending' = 0 /\ UNCHANGED lines
    BY <1>7 DEF FetchFails
  <2>2. CASE hasId(pendingLine) /\ ~ isNotification(pendingLine)
    <3>1. WriteFor(pendingLine, ownId(pendingLine))
      BY <1>7, <2>2 DEF FetchFails, WriteFor
    <3>. QED
      BY <2>1, <3>1, OwnIdMaps
  <2>3. CASE ~ (hasId(pendingLine) /\ ~ isNotification(pendingLine))
    <3>1. kind(pendingLine) # "request"
      BY <2>3, RequestHasId
    <3>2. UNCHANGED out
      BY <1>7, <2>3 DEF FetchFails
    <3>3. lines[Len(lines)] = kind(pendingLine) /\ Len(lines) # 0
      BY <2>1, Opened
    <3>4. LS!Pass
      BY <2>1, <3>1, <3>2, <3>3 DEF LS!Pass
    <3>. QED
      BY <3>4 DEF LS!Next
  <2>. QED
    BY <2>2, <2>3
<1>8. ASSUME NEW i \in Call, Lose(i) \/ Handle(i) \/ CarryOut(i) \/ PlatformRefuses(i)
      PROVE  UNCHANGED LS!vars
  BY <1>1, <1>8 DEF Lose, Handle, AnswerEnvelope, GateRefuses, KeyRequired,
     AnswerLocally, RouteFails, Forward, ForwardReturns, ForwardRefused,
     ForwardFails, CarryOut, PlatformRefuses
<1>9. CASE UNCHANGED vars
  BY <1>1, <1>9 DEF vars
<1>. QED
  BY <1>2, <1>3, <1>4, <1>5, <1>6, <1>7, <1>8, <1>9 DEF Next

(* Whatever becomes of its calls, the bridge answers every request line    *)
(* once, with its id, before it reads the next (runProxy, forwardOne).     *)
THEOREM BridgeImplements == Spec => ImplementsLineServer
<1>1. Init => LS!Init
  BY DEF Init, LS!Init
<1>. QED
  BY <1>1, StepMaps, Invariance, PTL DEF Spec, LS!Spec, ImplementsLineServer

(***************************************************************************)
(* What LineServer promises follows from its steps, for any lines and      *)
(* however many.                                                           *)
(***************************************************************************)
openLine == IF pending = 0 THEN 0 ELSE Len(lines)

LinesTyped ==
    /\ lines \in Seq(LS!Kind)
    /\ out \in Seq([line : Nat, id : BOOLEAN])
    /\ openLine \in 0 .. Len(lines)

(* The open line is the last, and is not answered yet.                     *)
LastOpen ==
    openLine # 0 => /\ openLine = Len(lines)
                    /\ \A a \in DOMAIN out : out[a].line < openLine

LineInv == LinesTyped /\ LastOpen /\ LS!OneAnswerEach

LEMMA LineInit == LS!Init => LineInv
<1>. SUFFICES ASSUME LS!Init PROVE LineInv
  OBVIOUS
<1>1. lines = <<>> /\ out = <<>> /\ openLine = 0 /\ Len(lines) = 0
  BY DEF LS!Init, openLine
<1>2. DOMAIN out = {} /\ DOMAIN lines = {}
  BY <1>1
<1>. QED
  BY <1>1, <1>2 DEF LineInv, LinesTyped, LastOpen, LS!OneAnswerEach, openLine

(* One more element leaves the others where they are.                      *)
LEMMA Appended ==
    ASSUME NEW S, NEW s \in Seq(S), NEW e \in S
    PROVE  /\ Append(s, e) \in Seq(S)
           /\ Len(s) \in Nat /\ Len(Append(s, e)) = Len(s) + 1
           /\ DOMAIN s = 1 .. Len(s)
           /\ DOMAIN Append(s, e) = 1 .. Len(s) + 1
           /\ Append(s, e)[Len(s) + 1] = e
           /\ \A n \in 1 .. Len(s) : Append(s, e)[n] = s[n]
OBVIOUS

LEMMA LineRead ==
    ASSUME LineInv, NEW k \in LS!Kind, LS!Read(k)
    PROVE  LineInv'
<1>0. lines \in Seq(LS!Kind) /\ lines' = Append(lines, k)
  BY DEF LineInv, LinesTyped, LS!Read, openLine
<1>1. /\ lines' \in Seq(LS!Kind)
      /\ Len(lines) \in Nat /\ Len(lines') = Len(lines) + 1
      /\ DOMAIN lines = 1 .. Len(lines) /\ DOMAIN lines' = 1 .. Len(lines) + 1
      /\ lines'[Len(lines) + 1] = k
      /\ \A n \in 1 .. Len(lines) : lines'[n] = lines[n]
  BY <1>0, Appended
<1>2. /\ openLine = 0 /\ openLine' = Len(lines) + 1 /\ out' = out
  BY <1>1 DEF LS!Read, openLine
<1>3. \A a \in DOMAIN out : out[a].line \in 1 .. Len(lines)
  BY <1>1 DEF LineInv, LS!OneAnswerEach, openLine
<1>4. LinesTyped'
  BY <1>1, <1>2 DEF LineInv, LinesTyped
<1>5. LastOpen'
  BY <1>1, <1>2, <1>3 DEF LastOpen
<1>6. LS!OneAnswerEach'
  BY <1>1, <1>2, <1>3 DEF LineInv, LS!OneAnswerEach, openLine
<1>. QED
  BY <1>4, <1>5, <1>6 DEF LineInv

(* An answer is written for the last line, the one read now or still open. *)
Written(id) ==
    /\ lines' \in Seq(LS!Kind)
    /\ Len(lines') \in Nat \ {0}
    /\ DOMAIN lines' = 1 .. Len(lines')
    /\ \A n \in DOMAIN lines : n \in DOMAIN lines' /\ lines'[n] = lines[n]
    /\ \A n \in DOMAIN lines' : n \in DOMAIN lines \/ n = Len(lines')
    /\ \A a \in DOMAIN out : out[a].line < Len(lines')
    /\ lines'[Len(lines')] # "silent"
    /\ lines'[Len(lines')] = "request" => id
    /\ out' = Append(out, [line |-> Len(lines'), id |-> id])
    /\ openLine \in {0, Len(lines')}
    /\ openLine' = 0

LEMMA LineWritten ==
    ASSUME LineInv, NEW id \in BOOLEAN, Written(id)
    PROVE  LineInv'
<1>. DEFINE last == Len(lines')
            e == [line |-> last, id |-> id]
            k == Len(out)
<1>0. last \in Nat /\ last # 0 /\ last \in DOMAIN lines'
  <2>1. last \in Nat \ {0}
    BY Zenon DEF Written
  <2>2. DOMAIN lines' = 1 .. last
    BY Zenon DEF Written
  <2>. HIDE DEF last
  <2>. QED
    BY <2>1, <2>2
<1>1. e \in [line : Nat, id : BOOLEAN] /\ e.line = last /\ e.id = id
  BY <1>0
<1>2. out \in Seq([line : Nat, id : BOOLEAN]) /\ out' = Append(out, e)
  BY DEF LineInv, LinesTyped, Written
<1>3. /\ out' \in Seq([line : Nat, id : BOOLEAN])
      /\ k \in Nat /\ DOMAIN out = 1 .. k
      /\ DOMAIN out' = 1 .. k + 1
      /\ out'[k + 1] = e
      /\ \A a \in 1 .. k : out'[a] = out[a]
  <2>. HIDE DEF e
  <2>. QED
    BY <1>1, <1>2, Appended
<1>4. out'[k + 1].line = last /\ out'[k + 1].id = id
  BY <1>1, <1>3
<1>5. /\ \A a \in DOMAIN out : out[a].line \in DOMAIN lines
      /\ \A a \in DOMAIN out : out[a].line < last
  BY DEF LineInv, LS!OneAnswerEach, Written, openLine
<1>6. /\ lines'[last] # "silent"
      /\ lines'[last] = "request" => id
      /\ \A n \in DOMAIN lines : n \in DOMAIN lines' /\ lines'[n] = lines[n]
      /\ \A n \in DOMAIN lines' : n \in DOMAIN lines \/ n = last
  BY DEF Written
<1>. HIDE DEF last, e, k
<1>7. \A a, b \in DOMAIN out' : a < b => out'[a].line < out'[b].line
  <2>. SUFFICES ASSUME NEW a \in 1 .. k + 1, NEW b \in 1 .. k + 1, a < b
                PROVE  out'[a].line < out'[b].line
    BY <1>3
  <2>1. a \in 1 .. k /\ out'[a] = out[a] /\ a \in DOMAIN out
    BY <1>3
  <2>2. CASE b = k + 1
    BY <2>1, <2>2, <1>4, <1>5
  <2>3. CASE b # k + 1
    <3>1. b \in DOMAIN out /\ out'[b] = out[b]
      BY <2>3, <1>3
    <3>. QED
      BY <2>1, <3>1 DEF LineInv, LS!OneAnswerEach, openLine
  <2>. QED
    BY <2>2, <2>3
<1>8. \A a \in DOMAIN out' :
          /\ out'[a].line \in DOMAIN lines'
          /\ lines'[out'[a].line] # "silent"
          /\ lines'[out'[a].line] = "request" => out'[a].id
  <2>. SUFFICES ASSUME NEW a \in 1 .. k + 1
                PROVE  /\ out'[a].line \in DOMAIN lines'
                       /\ lines'[out'[a].line] # "silent"
                       /\ lines'[out'[a].line] = "request" => out'[a].id
    BY <1>3
  <2>1. CASE a = k + 1
    BY <2>1, <1>0, <1>4, <1>6
  <2>2. CASE a # k + 1
    <3>1. a \in DOMAIN out /\ out'[a] = out[a]
      BY <2>2, <1>3
    <3>. QED
      BY <3>1, <1>6 DEF LineInv, LS!OneAnswerEach, openLine
  <2>. QED
    BY <2>1, <2>2
<1>9. \A n \in DOMAIN lines' :
          lines'[n] = "request" => \E a \in DOMAIN out' : out'[a].line = n
  <2>. SUFFICES ASSUME NEW n \in DOMAIN lines', lines'[n] = "request"
                PROVE  \E a \in DOMAIN out' : out'[a].line = n
    OBVIOUS
  <2>1. CASE n = last
    <3>1. k + 1 \in DOMAIN out'
      BY <1>3
    <3>. QED
      BY <2>1, <3>1, <1>4
  <2>2. CASE n # last
    <3>1. n \in DOMAIN lines /\ lines[n] = "request"
      BY <2>2, <1>6
    <3>2. n # openLine
      <4>1. n \in Nat \ {0}
        BY <3>1 DEF LineInv, LinesTyped
      <4>2. openLine \in {0, last}
        BY DEF Written, last
      <4>. QED
        BY <2>2, <4>1, <4>2
    <3>3. PICK a \in DOMAIN out : out[a].line = n
      BY <3>1, <3>2 DEF LineInv, LS!OneAnswerEach, openLine
    <3>4. a \in DOMAIN out' /\ out'[a] = out[a]
      BY <3>3, <1>3
    <3>. QED
      BY <3>3, <3>4
  <2>. QED
    BY <2>1, <2>2
<1>10. LS!OneAnswerEach'
  BY <1>7, <1>8, <1>9 DEF LS!OneAnswerEach, openLine
<1>11. openLine' = 0 /\ lines' \in Seq(LS!Kind) /\ Len(lines') \in Nat
  BY DEF Written
<1>12. LinesTyped' /\ LastOpen'
  BY <1>3, <1>11 DEF LinesTyped, LastOpen
<1>. QED
  BY <1>10, <1>12 DEF LineInv

LEMMA LineStep == LineInv /\ [LS!Next]_LS!vars => LineInv'
<1>. SUFFICES ASSUME LineInv, [LS!Next]_LS!vars PROVE LineInv'
  OBVIOUS
<1>1. CASE LS!Reject
  <2>1. "other" \in LS!Kind /\ lines \in Seq(LS!Kind) /\ lines' = Append(lines, "other")
    BY <1>1 DEF LS!Reject, LineInv, LinesTyped, LS!Kind, openLine
  <2>2. /\ lines' \in Seq(LS!Kind)
        /\ Len(lines) \in Nat /\ Len(lines') = Len(lines) + 1
        /\ DOMAIN lines = 1 .. Len(lines) /\ DOMAIN lines' = 1 .. Len(lines) + 1
        /\ lines'[Len(lines) + 1] = "other"
        /\ \A n \in 1 .. Len(lines) : lines'[n] = lines[n]
    BY <2>1, Appended
  <2>3. \A a \in DOMAIN out : out[a].line < Len(lines')
    BY <2>2 DEF LineInv, LS!OneAnswerEach, openLine
  <2>4. /\ out' = Append(out, [line |-> Len(lines'), id |-> FALSE])
        /\ openLine = 0 /\ openLine' = 0
    BY <1>1 DEF LS!Reject, openLine
  <2>5. /\ Len(lines') \in Nat \ {0} /\ DOMAIN lines' = 1 .. Len(lines')
        /\ \A n \in DOMAIN lines : n \in DOMAIN lines' /\ lines'[n] = lines[n]
        /\ \A n \in DOMAIN lines' : n \in DOMAIN lines \/ n = Len(lines')
        /\ lines'[Len(lines')] = "other"
    BY <2>2
  <2>6. FALSE \in BOOLEAN /\ openLine \in {0, Len(lines')}
    BY <2>4
  <2>. QED
    BY <2>2, <2>3, <2>4, <2>5, <2>6, LineWritten DEF Written
<1>2. ASSUME NEW id \in BOOLEAN, LS!Answer(id) PROVE LineInv'
  <2>1. /\ lines' = lines /\ openLine = Len(lines) /\ Len(lines) \in Nat \ {0}
        /\ DOMAIN lines = 1 .. Len(lines) /\ lines \in Seq(LS!Kind)
        /\ \A a \in DOMAIN out : out[a].line < openLine
    BY <1>2 DEF LS!Answer, LineInv, LinesTyped, LastOpen, openLine
  <2>2. Written(id)
    BY <1>2, <2>1 DEF LS!Answer, Written, openLine
  <2>. QED
    BY <2>2, LineWritten
<1>3. CASE LS!Pass
  BY <1>3 DEF LS!Pass, LineInv, LinesTyped, LastOpen, LS!OneAnswerEach, openLine
<1>4. CASE UNCHANGED LS!vars
  BY <1>4 DEF LS!vars, LineInv, LinesTyped, LastOpen, LS!OneAnswerEach, openLine
<1>. QED
  BY <1>1, <1>2, <1>3, <1>4, LineRead DEF LS!Next

(* Every request line is answered once, in order and with its id, and no   *)
(* notification ever is: what runProxy owes whoever writes its stdin.      *)
THEOREM EachLineOnce == Spec => []LS!OneAnswerEach
<1>1. LS!Spec => []LineInv
  BY LineInit, LineStep, PTL DEF LS!Spec
<1>2. LineInv => LS!OneAnswerEach
  BY DEF LineInv
<1>. QED
  BY <1>1, <1>2, BridgeImplements, PTL DEF ImplementsLineServer
==============================================================================
