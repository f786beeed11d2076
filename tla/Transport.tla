------------------------------ MODULE Transport ------------------------------
(***************************************************************************)
(* One agent's calls on their way to the platform and back: from a client  *)
(* behind the stdio bridge, or straight over HTTP, through the envelope of *)
(* the gateway and the forwarder, to the platform, which may carry a call  *)
(* out after everybody in front of it has given up.  Whether a gate lets a *)
(* call through is a free choice here; Gates and Gateway say how it is     *)
(* made.  The platform, the network and the proxy in front of the gateway  *)
(* are external.                                                           *)
(***************************************************************************)
EXTENDS Envelope, Sequences

CONSTANTS Line,       \* messages the bridge's client may write
          Post,       \* requests a client may send without the bridge
          configured, \* the protocol version the bridge is set up with
          MaxCalls,   \* bound: requests sent to the gateway
          MaxLines    \* bound: lines written to the bridge

Call == 1 .. MaxCalls

ASSUME Messages ==
    /\ \A m \in Line : m \in Message /\ m.shape # "broken"
    /\ \A r \in Post : r \in HttpRequest
ASSUME Configured == configured \in Version
ASSUME Bounds == MaxCalls \in Nat /\ MaxLines \in Nat

VARIABLES
    lines, out,  \* as in LineServer
    pending,     \* the call the bridge is waiting for, or 0
    called,      \* calls made so far
    bridged,     \* those the bridge made
    request,     \* what each call sent
    stage,       \* where the gateway is with it
    answer,      \* what the gateway answered
    fate,        \* what the platform made of it
    counted,     \* calls counted as tool calls in toolUsage
    registered   \* calls counted as registrations there

bridge == <<lines, out, pending>>
sent == <<called, bridged, request>>
gateway == <<stage, answer, counted, registered>>
vars == <<bridge, sent, gateway, fate>>

kind(m) == IF m.shape # "object" THEN "other"
           ELSE IF isNotification(m) THEN "silent"
           ELSE IF m.id = "given" /\ ~ m.large THEN "request"
           ELSE "other"

TypeOK ==
    /\ lines \in Seq({"request", "silent", "other"})
    /\ out \in Seq([line : Nat, id : BOOLEAN])
    /\ called \in 0 .. MaxCalls
    /\ pending \in 0 .. called
    /\ bridged \subseteq 1 .. called
    /\ request \in [Call -> HttpRequest \cup {None}]
    /\ stage \in [Call -> {"none", "sent", "lost", "forwarded", "answered"}]
    /\ answer \in [Call -> Reply \cup {None}]
    /\ fate \in [Call -> {"none", "pending", "done", "replayed", "refused"}]
    /\ counted \subseteq Call
    /\ registered \subseteq Call

Init ==
    /\ lines = <<>> /\ out = <<>> /\ pending = 0
    /\ called = 0 /\ bridged = {}
    /\ request = [i \in Call |-> None]
    /\ stage = [i \in Call |-> "none"]
    /\ answer = [i \in Call |-> None]
    /\ fate = [i \in Call |-> "none"]
    /\ counted = {} /\ registered = {}

(***************************************************************************)
(* The callers.                                                            *)
(***************************************************************************)
Send(r) ==
    /\ called < MaxCalls
    /\ called' = called + 1
    /\ request' = [request EXCEPT ![called + 1] = r]
    /\ stage' = [stage EXCEPT ![called + 1] = "sent"]
    /\ UNCHANGED <<answer, counted, registered, fate>>

PostDirectly(r) == Send(r) /\ UNCHANGED <<bridge, bridged>>

(* The bridge writes an answer for its last line, or leaves it at that.    *)
Write(id) == out' = Append(out, [line |-> Len(lines), id |-> id])
WriteFor(m, id) == IF isNotification(m) THEN UNCHANGED out ELSE Write(id)

ReadGarbage(m) ==
    /\ pending = 0
    /\ Len(lines) < MaxLines
    /\ m.shape = "garbage"
    /\ lines' = Append(lines, "other")
    /\ out' = Append(out, [line |-> Len(lines) + 1, id |-> FALSE])
    /\ UNCHANGED <<pending, sent, gateway, fate>>

ReadLine(m) ==
    /\ pending = 0
    /\ Len(lines) < MaxLines
    /\ m.shape # "garbage"
    /\ Send(buildHeaders(m, configured, headerKey(m, called + 1)))
    /\ lines' = Append(lines, kind(m))
    /\ pending' = called + 1
    /\ bridged' = bridged \cup {called + 1}
    /\ UNCHANGED out

pendingLine == request[pending].message

(* Mutant: what came back is written whatever the line was.                *)
ReceiveWritten ==
    /\ pending # 0
    /\ stage[pending] = "answered"
    /\ Write(answer[pending].id)
    /\ pending' = 0
    /\ UNCHANGED <<lines, sent, gateway, fate>>

(* An empty answer is the one to a notification the gateway saw as such.   *)
Receive ==
    /\ pending # 0
    /\ stage[pending] = "answered"
    /\ WriteFor(pendingLine, IF answer[pending].code = "accepted"
                             THEN ownId(pendingLine)
                             ELSE answer[pending].id)
    /\ pending' = 0
    /\ UNCHANGED <<lines, sent, gateway, fate>>

(* The proxy in front of the gateway answers in its place, in no JSON.     *)
ReceiveNoJson ==
    /\ pending # 0
    /\ WriteFor(pendingLine, ownId(pendingLine))
    /\ pending' = 0
    /\ UNCHANGED <<lines, sent, gateway, fate>>

(* Mutant: a line that failed is answered with no id.                      *)
FetchFailsUnnamed ==
    /\ pending # 0
    /\ IF hasId(pendingLine) /\ ~ isNotification(pendingLine)
       THEN Write(None)
       ELSE UNCHANGED out
    /\ pending' = 0
    /\ UNCHANGED <<lines, sent, gateway, fate>>

(* No answer: the call may be lost, be under way or be done.               *)
FetchFails ==
    /\ pending # 0
    /\ IF hasId(pendingLine) /\ ~ isNotification(pendingLine)
       THEN Write(ownId(pendingLine))
       ELSE UNCHANGED out
    /\ pending' = 0
    /\ UNCHANGED <<lines, sent, gateway, fate>>

Lose(i) ==
    /\ stage[i] = "sent"
    /\ stage' = [stage EXCEPT ![i] = "lost"]
    /\ UNCHANGED <<bridge, sent, answer, counted, registered, fate>>

(***************************************************************************)
(* The gateway: one handler per request.                                   *)
(***************************************************************************)
message(i) == request[i].message
marketplace(i) == request[i].path = "/mcp/v1"

runs(i) == stage[i] = "sent" /\ Endpoint(request[i]) \in Run
toolOf(i) == Endpoint(request[i]).tool
registers(i) == toolOf(i) = "onboarding.registerSelf"
counts(i) == marketplace(i) /\ ~ registers(i)

Answer(i, reply) ==
    /\ stage' = [stage EXCEPT ![i] = "answered"]
    /\ answer' = [answer EXCEPT ![i] = reply]

AnswerEnvelope(i) ==
    /\ stage[i] = "sent"
    /\ Endpoint(request[i]) \in Reply
    /\ Answer(i, Endpoint(request[i]))
    /\ UNCHANGED <<bridge, sent, counted, registered, fate>>

GateRefuses(i) ==
    /\ runs(i) /\ counts(i)
    /\ Answer(i, ReplyTo(message(i), "gate_refused"))
    /\ UNCHANGED <<bridge, sent, counted, registered, fate>>

lacksKey(i) == toolOf(i) \in idempotentTools /\ idempotencyKey(request[i]) = None

KeyRequired(i) ==
    /\ runs(i) /\ counts(i)
    /\ lacksKey(i)
    /\ Answer(i, ReplyTo(message(i), "idempotency_required"))
    /\ UNCHANGED <<bridge, sent, counted, registered, fate>>

(* The tool runs: what is counted is counted before it does.               *)
Begin(i) ==
    /\ runs(i)
    /\ ~ lacksKey(i)
    /\ counted' = IF counts(i) THEN counted \cup {i} ELSE counted

(* What serveTool answers when it has a result: the store may be down, or  *)
(* hold an answer to another request for this key.                         *)
Resolved(i) ==
    {"ok"} \cup IF counts(i) /\ idempotencyKey(request[i]) # None
                THEN {"idempotency_conflict", "idempotency_unavailable"}
                ELSE {}

AnswerLocally(i) ==
    /\ Begin(i)
    /\ toolOf(i) \in localTools \cup {"notary.verify", "notary.getPublicKey"}
    /\ \E code \in Resolved(i) : Answer(i, ReplyTo(message(i), code))
    /\ UNCHANGED <<bridge, sent, registered, fate>>

RouteFails(i) ==
    /\ Begin(i)
    /\ ~ routed(toolOf(i), message(i))
    /\ Answer(i, ReplyTo(message(i), "validation_failed"))
    /\ UNCHANGED <<bridge, sent, registered, fate>>

forwards(tool) == forwardsToPlatform(tool)
                    \/ tool \in {"notary.check", "notary.checkTree", "notary.checkTools"}

(* Mutant: usage is counted once the platform has answered.                *)
ForwardUncounted(i) ==
    /\ runs(i)
    /\ ~ lacksKey(i)
    /\ UNCHANGED counted
    /\ forwards(toolOf(i)) /\ routed(toolOf(i), message(i))
    /\ stage' = [stage EXCEPT ![i] = "forwarded"]
    /\ fate' = [fate EXCEPT ![i] = "pending"]
    /\ UNCHANGED <<bridge, sent, answer, registered>>

Forward(i) ==
    /\ Begin(i)
    /\ forwards(toolOf(i)) /\ routed(toolOf(i), message(i))
    /\ stage' = [stage EXCEPT ![i] = "forwarded"]
    /\ fate' = [fate EXCEPT ![i] = "pending"]
    /\ UNCHANGED <<bridge, sent, answer, registered>>

ForwardReturns(i) ==
    /\ stage[i] = "forwarded"
    /\ fate[i] \in {"done", "replayed"}
    /\ \E code \in Resolved(i) : Answer(i, ReplyTo(message(i), code))
    /\ registered' = IF marketplace(i) /\ registers(i)
                     THEN registered \cup {i} ELSE registered
    /\ UNCHANGED <<bridge, sent, counted, fate>>

ForwardRefused(i) ==
    /\ stage[i] = "forwarded"
    /\ fate[i] = "refused"
    /\ Answer(i, ReplyTo(message(i), "platform_rejected"))
    /\ UNCHANGED <<bridge, sent, counted, registered, fate>>

(* Mutants: an outage is relayed as a refusal; a call has no deadline.     *)
ForwardFailsRejected(i) ==
    /\ stage[i] = "forwarded"
    /\ Answer(i, ReplyTo(message(i), "platform_rejected"))
    /\ UNCHANGED <<bridge, sent, counted, registered, fate>>

ForwardFailsPatiently(i) ==
    /\ stage[i] = "forwarded"
    /\ fate[i] # "pending"
    /\ Answer(i, ReplyTo(message(i), "platform_api_unavailable"))
    /\ UNCHANGED <<bridge, sent, counted, registered, fate>>

(* The deadline, a lost connection, a 5xx or a body that is no JSON.       *)
ForwardFails(i) ==
    /\ stage[i] = "forwarded"
    /\ Answer(i, ReplyTo(message(i), "platform_api_unavailable"))
    /\ UNCHANGED <<bridge, sent, counted, registered, fate>>

(***************************************************************************)
(* The platform (external).  It carries out a call under a key once, and   *)
(* repeats its answer to the others; nothing keeps it to the time anybody  *)
(* waits.                                                                  *)
(***************************************************************************)
carried == {i \in Call : fate[i] = "done"}
keyOf(i) == forwardedKey(request[i])

CarryOut(i) ==
    /\ fate[i] = "pending"
    /\ fate' = [fate EXCEPT ![i] =
                   IF keyOf(i) # None /\ \E j \in carried : keyOf(j) = keyOf(i)
                   THEN "replayed" ELSE "done"]
    /\ UNCHANGED <<bridge, sent, gateway>>

PlatformRefuses(i) ==
    /\ fate[i] = "pending"
    /\ fate' = [fate EXCEPT ![i] = "refused"]
    /\ UNCHANGED <<bridge, sent, gateway>>

Handle(i) ==
    \/ AnswerEnvelope(i) \/ GateRefuses(i) \/ KeyRequired(i)
    \/ AnswerLocally(i) \/ RouteFails(i) \/ Forward(i)
    \/ ForwardReturns(i) \/ ForwardRefused(i) \/ ForwardFails(i)

Next ==
    \/ \E r \in Post : PostDirectly(r)
    \/ \E m \in Line : ReadGarbage(m) \/ ReadLine(m)
    \/ Receive \/ ReceiveNoJson \/ FetchFails
    \/ \E i \in Call : \/ Lose(i) \/ Handle(i)
                       \/ CarryOut(i) \/ PlatformRefuses(i)

Spec == Init /\ [][Next]_vars

(***************************************************************************)
(* A handler runs to its end, because every wait in it has a deadline      *)
(* (authTimeout, toolTimeout); a fetch ends when its answer is there or    *)
(* its request is lost.  Nothing is assumed of the platform.               *)
(***************************************************************************)
FailsLost == FetchFails /\ stage[pending] = "lost"

FairSpec == /\ Spec
            /\ \A i \in Call : WF_vars(Handle(i))
            /\ WF_vars(Receive) /\ WF_vars(FailsLost)

(***************************************************************************)
(* Properties.                                                             *)
(***************************************************************************)
LS == INSTANCE LineServer
          WITH open <- IF pending = 0 THEN 0 ELSE Len(lines)

(* The bridge answers every request line once, with its id and before it   *)
(* reads the next, and never a notification, whatever happens to the call: *)
(* lost, answered by the proxy, or still running when the bridge gives up. *)
ImplementsLineServer == LS!Spec

(* The key a client chose, in _meta through the bridge or as a header or   *)
(* an argument without it.                                                 *)
chosenKey(i) == LET r == request[i] IN
                IF i \in bridged THEN r.message.metaKey
                ELSE IF r.key # None THEN r.key ELSE r.message.argKey

keyed(i) == fate[i] # "none" /\ toolOf(i) \in idempotentTools

(* Calls of the keyed tools that share the key their client chose are      *)
(* carried out at most once between them, whichever way each went, however *)
(* often one is repeated after an outage and however late one arrives.     *)
PinnedOnce ==
    \A i, j \in Call :
        /\ i # j /\ keyed(i) /\ keyed(j)
        /\ chosenKey(i) # None /\ chosenKey(i) = chosenKey(j)
        => ~ (fate[i] = "done" /\ fate[j] = "done")

(* The answers after which a client may take it that nothing happened.     *)
Refusals == Code \ {"ok", "idempotency_conflict", "idempotency_unavailable",
                    "platform_api_unavailable", "accepted", "stream_ready"}

(* A call that was refused is never carried out, not even later, and one   *)
(* answered ok by a forwarded tool was.  The two idempotency errors and    *)
(* platform_api_unavailable promise neither.                               *)
AnswersAreTrue ==
    \A i \in Call : stage[i] = "answered" =>
        /\ answer[i].code \in Refusals => fate[i] \in {"none", "refused"}
        /\ /\ answer[i].code = "ok"
           /\ Endpoint(request[i]) \in Run
           /\ forwards(toolOf(i))
           => fate[i] \in {"done", "replayed"}

(* The tool the routing headers of a stateless request name.               *)
Named(r) == IF r.mcpMethod = "tools/call" THEN decodeHeaderValue(r.mcpName)
            ELSE decodeHeaderValue(r.mcpMethod)

(* A gateway that routes on the headers of a stateless request routes what *)
(* runs: the tool that reaches the platform is the one the headers name.   *)
NoMisrouting ==
    \A i \in Call :
        fate[i] # "none" /\ isStatelessRequest(request[i]) =>
            IF marketplace(i)
            THEN canonicalTool(Named(request[i])) = toolOf(i)
            ELSE LET n == Named(request[i]) IN
                 (IF n \in DOMAIN notaryTool THEN notaryTool[n] ELSE n)
                     = toolOf(i)

(* The usage counters bound what the platform did from above and the count *)
(* of registrations from below: no call is carried out uncounted, even one *)
(* whose answer never came, and no registration counted that was not made. *)
UsageBounds ==
    /\ \A i \in Call : fate[i] = "done" /\ counts(i) => i \in counted
    /\ \A i \in registered : fate[i] \in {"done", "replayed"} /\ registers(i)

(* Every request line is answered in the end, also when its call is lost   *)
(* or the platform never says anything.                                    *)
EveryLineAnswered ==
    \A n \in 1 .. MaxLines :
        (Len(lines) = n /\ lines[n] = "request")
            ~> (\E k \in DOMAIN out : out[k].line = n)

(***************************************************************************)
(* The inductive invariant the proofs rest on.                             *)
(***************************************************************************)
Progress ==
    \A i \in Call :
        /\ stage[i] = "none" <=> i > called
        /\ i <= called => request[i] \in HttpRequest
        /\ stage[i] \in {"none", "sent", "lost"} => fate[i] = "none"
        /\ stage[i] = "forwarded" => fate[i] # "none"
        /\ stage[i] = "answered" => answer[i] \in Reply
        /\ fate[i] # "none" => /\ Endpoint(request[i]) \in Run
                               /\ forwards(toolOf(i))

(* Every call handed to the platform is counted by then, if it ever is.    *)
Counted ==
    /\ \A i \in Call : fate[i] # "none" /\ counts(i) => i \in counted
    /\ \A i \in registered : fate[i] \in {"done", "replayed"} /\ registers(i)

KeyOnce == \A i, j \in carried : i # j /\ keyOf(i) # None => keyOf(i) # keyOf(j)

Bridging ==
    \A i \in bridged : \E m \in Line :
        /\ m.shape # "garbage"
        /\ request[i] = buildHeaders(m, configured, headerKey(m, i))

Identified ==
    \A i \in bridged :
        /\ stage[i] = "answered"
        /\ kind(message(i)) = "request"
        /\ answer[i].code # "accepted"
        => answer[i].id

Waiting ==
    pending # 0 => /\ pending \in bridged
                   /\ lines # <<>>
                   /\ lines[Len(lines)] = kind(pendingLine)

IInv == /\ TypeOK /\ Progress /\ AnswersAreTrue /\ Counted /\ KeyOnce
        /\ Bridging /\ Identified /\ Waiting

(* Through the bridge, as everywhere, the argument idempotencyKey makes a  *)
(* call safe to repeat.                                                    *)
ArgumentPinnedOnce ==
    \A i, j \in Call :
        /\ i # j /\ keyed(i) /\ keyed(j)
        /\ message(i).argKey # None /\ message(i).argKey = message(j).argKey
        => ~ (fate[i] = "done" /\ fate[j] = "done")
==============================================================================
