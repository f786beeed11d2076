------------------------------- MODULE Gateway -------------------------------
(***************************************************************************)
(* The marketplace endpoint of the gateway: concurrent handlers of HTTP    *)
(* requests, each of them authenticating its caller, passing the gates,    *)
(* calling the platform and resolving the answer against the idempotency   *)
(* store, over a session store and an idempotency store that keep the      *)
(* promises of Sessions and Idempotency.  The platform is external: keys   *)
(* are revoked, agents claimed and permissions changed behind the back of  *)
(* every handler at work.                                                  *)
(***************************************************************************)
EXTENDS Gates, Naturals, FiniteSets

CONSTANTS Handler,     \* goroutines serving requests
          Request,     \* the requests clients may send
          Response,    \* what the platform answers a tool call with
          Owner,       \* Owner[c]: the account credential c belongs to
          Policy       \* sets of permissions operators choose between

ASSUME PolicyAssumption == Policy \subseteq SUBSET Permission
ASSUME RequestAssumption == Request \subseteq AnyRequest
ASSUME OwnerAssumption == Owner \in [Credential -> Actor]

VARIABLES
    (* the platform *)
    revoked,   \* credentials revoked so far
    claimed,   \* agents an operator has claimed
    granted,   \* granted[a]: permissions delegated to a
    (* the handlers *)
    pc,        \* pc[h]: what h does next
    req,       \* req[h]: the request h serves, or None
    who,       \* who[h]: the authenticated caller, or None
    reply,     \* reply[h]: what h answered, or None
    (* the session store *)
    live, used, known, op, told,
    (* the idempotency store *)
    records, call, resolved,
    (* history *)
    gone,      \* gone[h]: credentials already revoked when h's request came
    held,      \* held[h]: <<account, right>> held at some time since then
    current    \* handlers whose answer is that of a record still standing

platform == <<revoked, claimed, granted>>
handlers == <<pc, req, who, reply>>
cache == <<live, used, known, op, told>>
store == <<records, call, resolved>>
history == <<gone, held, current>>
vars == <<platform, handlers, cache, store, history>>

(* getIdentity is answered with the caller's identity, by the gateway.     *)
Result == Response \cup Identity

Cache == INSTANCE Sessions WITH Actor <- Identity, answer <- told
Store == INSTANCE Idempotency WITH Caller <- Handler, Key <- Actor \X IdKey,
                                   Response <- Result, answer <- resolved

Refusal == {"method_not_allowed", "method_not_found", "invalid_session",
            "authorization_required", "unauthorized", "revoked_key",
            "session_issue_failed", "session_delete_failed",
            "backpressure_shed", "actor_confusion_rejected",
            "operator_required", "idempotency_required",
            "validation_failed", "permission_denied",
            "platform_rejected", "platform_api_unavailable",
            "idempotency_unavailable", "idempotency_conflict"}

Reply == [code : {"ok"}, result : Result]
           \cup [code : Refusal \cup {"session_terminated", "stream_ready"}]

ASSUME NoneAssumption ==
    /\ None \notin Credential \cup Session \cup Actor \cup IdKey \cup Result
    /\ None \notin AnyRequest \cup Reply
    /\ None \notin Cache!Op \cup Cache!Answer
    /\ None \notin Store!Record \cup Store!Call \cup Store!Answer

Rights == Permission \cup {"unclaimed"}

(* What each account may do at this moment.                                *)
RightsOf(grants, bound) ==
    {p \in Actor \X Rights :
        \/ p[2] \in grants[p[1]]
        \/ p[2] = "unclaimed" /\ p[1] \in Agent \ bound}

(* What identify tells the gateway about an account now.                   *)
IdentityOf(a) ==
    [id |-> a, claimed |-> a \in claimed, policy |-> granted[a]]

Init ==
    /\ revoked = {}
    /\ claimed \in SUBSET Agent
    /\ granted \in [Actor -> Policy]
    /\ pc = [h \in Handler |-> "idle"]
    /\ req = [h \in Handler |-> None]
    /\ who = [h \in Handler |-> None]
    /\ reply = [h \in Handler |-> None]
    /\ Cache!Init
    /\ Store!Init
    /\ gone = [h \in Handler |-> {}]
    /\ held = [h \in Handler |-> {}]
    /\ current = {}

------------------------------------------------------------------------------
Goto(h, place) == pc' = [pc EXCEPT ![h] = place]

(* h answers its client; the answer stays put until the client has it.     *)
Answer(h, a) ==
    /\ Goto(h, "replied")
    /\ reply' = [reply EXCEPT ![h] = a]

Refuse(h, code) == Answer(h, [code |-> code])

(* A request arrives.                                                      *)
Arrive(h, r) ==
    /\ pc[h] = "idle"
    /\ req' = [req EXCEPT ![h] = r]
    /\ gone' = [gone EXCEPT ![h] = revoked]
    /\ held' = [held EXCEPT ![h] = RightsOf(granted, claimed)]
    /\ UNCHANGED <<platform, who, store, current>>

(* Every handler that may still mint a session needs an id to draw.        *)
Minting(r) == r.http = "POST" /\ ~ r.stateless /\ ~ onSession(r)

MintingHandlers ==
    {g \in Handler : pc[g] = "identify" /\ Minting(req[g])}

RoomForSession ==
    Cardinality(MintingHandlers) < Cardinality(Session \ used)

(* A POST: the dispatch of serveTool up to the first question to others.   *)
Post(h, r) ==
    /\ r.http = "POST"
    /\ Minting(r) => RoomForSession
    /\ Arrive(h, r)
    /\ LET entrance == Entrance(r) IN
       \/ /\ entrance \in Refusal
          /\ Refuse(h, entrance)
          /\ UNCHANGED cache
       \/ /\ entrance = "anonymous"
          /\ Goto(h, "forward")
          /\ UNCHANGED <<reply, cache>>
       \/ /\ entrance = "session"
          /\ Goto(h, "session")
          /\ Cache!Call(h, [kind |-> "get", id |-> r.session])
          /\ UNCHANGED reply
       \/ /\ entrance = "identify"
          /\ Goto(h, "identify")
          /\ UNCHANGED <<reply, cache>>

(* DELETE ends a session and GET opens a stream; neither exists in the     *)
(* stateless revision.                                                     *)
DeleteOrGet(h, r) ==
    /\ r.http \in {"DELETE", "GET"}
    /\ Arrive(h, r)
    /\ \/ /\ r.stateless
          /\ Refuse(h, "method_not_allowed")
          /\ UNCHANGED cache
       \/ /\ ~ r.stateless /\ r.session = None
          /\ IF r.http = "DELETE" THEN Refuse(h, "invalid_session")
                                  ELSE Refuse(h, "stream_ready")
          /\ UNCHANGED cache
       \/ /\ ~ r.stateless /\ r.session # None
          /\ Goto(h, "session")
          /\ Cache!Call(h, [kind |-> IF r.http = "GET" THEN "get" ELSE "delete",
                            id |-> r.session])
          /\ UNCHANGED reply

(* The session store has answered a Get or a Delete.                       *)
SessionAnswers(h) ==
    /\ pc[h] = "session"
    /\ told[h] # None
    /\ \/ /\ told[h].kind = "missing"
          /\ Refuse(h, "invalid_session")
          /\ UNCHANGED who
       \/ /\ told[h].kind = "actor" /\ req[h].http = "GET"
          /\ Refuse(h, "stream_ready")
          /\ UNCHANGED who
       \/ /\ told[h].kind = "actor" /\ req[h].http = "POST"
          /\ who' = [who EXCEPT ![h] = told[h].actor]
          /\ Goto(h, "gates")
          /\ UNCHANGED reply
       \/ /\ told[h].kind = "deleted"
          /\ Refuse(h, "session_terminated")
          /\ UNCHANGED who
       \/ /\ told[h].kind = "error"
          /\ Refuse(h, "session_delete_failed")
          /\ UNCHANGED who
    /\ Cache!Return(h)
    /\ UNCHANGED <<platform, req, store, history>>

(* The platform identifies the credential.  A caller of an older revision  *)
(* is given a session for what the platform said of it at this moment.     *)
Identified(h) ==
    LET r == req[h]
        w == IdentityOf(Owner[r.credential])
    IN  /\ pc[h] = "identify"
        /\ r.credential # None
        /\ r.credential \notin revoked
        /\ who' = [who EXCEPT ![h] = w]
        /\ \/ /\ r.stateless
              /\ Goto(h, "gates")
              /\ UNCHANGED cache
           \/ /\ ~ r.stateless
              /\ Goto(h, "issue")
              /\ \E s \in Session :
                    Cache!Call(h, [kind |-> "issue", id |-> s, actor |-> w])
        /\ UNCHANGED <<platform, req, reply, store, history>>

IdentifyRevoked(h) ==
    /\ pc[h] = "identify"
    /\ req[h].credential \in revoked
    /\ Refuse(h, "revoked_key")
    /\ UNCHANGED <<platform, req, who, cache, store, history>>

(* No credential, one the platform does not know, or no answer in time.    *)
IdentifyFails(h) ==
    /\ pc[h] = "identify"
    /\ Refuse(h, "unauthorized")
    /\ UNCHANGED <<platform, req, who, cache, store, history>>

(* Mutant: a failed Issue is not answered.                                 *)
IssueFailureIgnored(h) ==
    /\ pc[h] = "issue"
    /\ told[h] # None
    /\ told[h].kind = "issued"
    /\ Goto(h, "gates")
    /\ Cache!Return(h)
    /\ UNCHANGED <<platform, req, who, reply, store, history>>

(* The session store has answered an Issue.                                *)
IssueAnswers(h) ==
    /\ pc[h] = "issue"
    /\ told[h] # None
    /\ \/ /\ told[h].kind = "issued"
          /\ Goto(h, "gates")
          /\ UNCHANGED reply
       \/ /\ told[h].kind = "error"
          /\ Refuse(h, "session_issue_failed")
    /\ Cache!Return(h)
    /\ UNCHANGED <<platform, req, who, store, history>>

(* The gates behind authentication.                                        *)
PassGates(h) ==
    /\ pc[h] = "gates"
    /\ LET gate == Gate(who[h], req[h]) IN
       \/ /\ gate = "admitted"
          /\ Goto(h, "forward")
          /\ UNCHANGED reply
       \/ /\ gate # "admitted"
          /\ Refuse(h, gate)
    /\ UNCHANGED <<platform, req, who, cache, store, history>>

(* A result is resolved against the idempotency store if the call carries a*)
(* key, and is the answer otherwise; self-registration is never resolved.  *)
Outcome(h, result) ==
    \/ /\ who[h] # None /\ req[h].key # None
       /\ Goto(h, "resolve")
       /\ Store!Ask(h, [key |-> <<who[h].id, req[h].key>>,
                        hash |-> req[h].hash, response |-> result])
       /\ UNCHANGED reply
    \/ /\ who[h] = None \/ req[h].key = None
       /\ Answer(h, [code |-> "ok", result |-> result])
       /\ UNCHANGED store

AnswerLocally(h) ==
    /\ pc[h] = "forward"
    /\ tool(req[h]) \in localTools
    /\ Outcome(h, who[h])
    /\ UNCHANGED <<platform, req, who, cache, history>>

(* The platform carries the call out and the gateway hears of it.          *)
Forward(h) ==
    /\ pc[h] = "forward"
    /\ forwardsToPlatform(tool(req[h]))
    /\ \E response \in Response : Outcome(h, response)
    /\ UNCHANGED <<platform, req, who, cache, history>>

(* The platform refuses (4xx), or fails, or its answer is lost or late.    *)
ForwardFails(h) ==
    /\ pc[h] = "forward"
    /\ forwardsToPlatform(tool(req[h]))
    /\ Refuse(h, "platform_rejected") \/ Refuse(h, "platform_api_unavailable")
    /\ UNCHANGED <<platform, req, who, cache, store, history>>

(* Mutant: what the store holds is not the map it was, and nil is sent.    *)
ReplyWithNil(a) ==
    IF a.kind = "ok" THEN [code |-> "ok", result |-> None]
    ELSE IF a.kind = "conflict" THEN [code |-> "idempotency_conflict"]
    ELSE [code |-> "idempotency_unavailable"]

(* The reply that goes with an answer of the idempotency store.            *)
ReplyTo(a) ==
    IF a.kind = "ok" THEN [code |-> "ok", result |-> a.response]
    ELSE IF a.kind = "conflict" THEN [code |-> "idempotency_conflict"]
    ELSE [code |-> "idempotency_unavailable"]

(* Mutant: the fresh result is sent, not the resolved one.                 *)
StoreAnswerDropped(h) ==
    /\ pc[h] = "resolve"
    /\ resolved[h] # None
    /\ IF resolved[h].kind = "ok"
       THEN Answer(h, [code |-> "ok", result |-> call[h].response])
       ELSE Answer(h, ReplyTo(resolved[h]))
    /\ Store!Return(h)
    /\ UNCHANGED <<platform, req, who, cache, history>>

StoreAnswers(h) ==
    /\ pc[h] = "resolve"
    /\ resolved[h] # None
    /\ Answer(h, ReplyTo(resolved[h]))
    /\ Store!Return(h)
    /\ UNCHANGED <<platform, req, who, cache, history>>

(* The client has its reply; the handler is free for another request.      *)
Done(h) ==
    /\ pc[h] = "replied"
    /\ Goto(h, "idle")
    /\ req' = [req EXCEPT ![h] = None]
    /\ who' = [who EXCEPT ![h] = None]
    /\ reply' = [reply EXCEPT ![h] = None]
    /\ gone' = [gone EXCEPT ![h] = {}]
    /\ held' = [held EXCEPT ![h] = {}]
    /\ current' = current \ {h}
    /\ UNCHANGED <<platform, cache, store>>

------------------------------------------------------------------------------
SessionStore(h) ==
    /\ Cache!Issue(h) \/ Cache!Get(h) \/ Cache!Delete(h) \/ Cache!Fail(h)
    /\ UNCHANGED <<platform, handlers, store, history>>

SessionsRunOut ==
    /\ Cache!RunOut
    /\ UNCHANGED <<platform, handlers, store, history>>

IdempotencyStore(h) ==
    /\ Store!Resolve(h) \/ Store!Fail(h)
    /\ current' = IF resolved'[h].kind = "ok" THEN current \cup {h} ELSE current
    /\ UNCHANGED <<platform, handlers, cache, gone, held>>

WriteUnheard(h) ==
    /\ Store!WriteUnheard(h)
    /\ UNCHANGED <<platform, handlers, cache, history>>

RecordKey(h) == <<who[h].id, req[h].key>>

RecordLapses(k) ==
    /\ Store!Lapse(k)
    /\ current' = {h \in current : RecordKey(h) # k}
    /\ UNCHANGED <<platform, handlers, cache, gone, held>>

(* The platform and its users.                                             *)
Revoke(c) ==
    /\ c \notin revoked
    /\ revoked' = revoked \cup {c}
    /\ UNCHANGED <<claimed, granted, handlers, cache, store, history>>

HoldMore(rights) ==
    held' = [h \in Handler |-> IF pc[h] = "idle" THEN {} ELSE held[h] \cup rights]

Claim(a) ==
    /\ a \notin claimed
    /\ claimed' = claimed \cup {a}
    /\ UNCHANGED <<revoked, granted, handlers, cache, store, history>>

Delegate(a, rights) ==
    /\ granted' = [granted EXCEPT ![a] = rights]
    /\ HoldMore(RightsOf(granted', claimed))
    /\ UNCHANGED <<revoked, claimed, handlers, cache, store, gone, current>>

PlatformChanges ==
    \/ \E c \in Credential : Revoke(c)
    \/ \E a \in Agent : Claim(a)
    \/ \E a \in Actor, rights \in Policy : Delegate(a, rights)

(* What the code of h does between the request and the reply.              *)
Working(h) ==
    \/ SessionAnswers(h)
    \/ Identified(h)
    \/ IdentifyRevoked(h)
    \/ IdentifyFails(h)
    \/ IssueAnswers(h)
    \/ PassGates(h)
    \/ AnswerLocally(h)
    \/ Forward(h)
    \/ ForwardFails(h)
    \/ StoreAnswers(h)

(* What h does without waiting for its client.                             *)
Serving(h) == Working(h) \/ SessionStore(h) \/ IdempotencyStore(h)

(* A client sends its request to h, or has received the reply.             *)
Visiting(h) ==
    \/ \E r \in Request : Post(h, r) \/ DeleteOrGet(h, r)
    \/ Done(h)

Next ==
    \/ \E h \in Handler : Visiting(h) \/ Serving(h) \/ WriteUnheard(h)
    \/ SessionsRunOut
    \/ \E k \in Actor \X IdKey : RecordLapses(k)
    \/ PlatformChanges

Spec == Init /\ [][Next]_vars

(* The calls to the platform have deadlines (5 s to identify, 90 s to run  *)
(* a tool), those to Redis time out in the client library, and the rest of *)
(* a handler waits for nobody.                                             *)
FairSpec == Spec /\ \A h \in Handler : WF_vars(Serving(h))

------------------------------------------------------------------------------
TypeOK ==
    /\ revoked \subseteq Credential
    /\ claimed \subseteq Agent
    /\ granted \in [Actor -> SUBSET Permission]
    /\ pc \in [Handler -> {"idle", "session", "identify", "issue", "gates",
                           "forward", "resolve", "replied"}]
    /\ req \in [Handler -> Request \cup {None}]
    /\ who \in [Handler -> Identity \cup {None}]
    /\ reply \in [Handler -> Reply \cup {None}]
    /\ live \in [Session -> Identity \cup {None}]
    /\ known \subseteq Session /\ used \subseteq Session
    /\ op \in [Handler -> Cache!Op \cup {None}]
    /\ told \in [Handler -> Cache!Answer \cup {None}]
    /\ records \in [Actor \X IdKey -> Store!Record \cup {None}]
    /\ call \in [Handler -> Store!Call \cup {None}]
    /\ resolved \in [Handler -> Store!Answer \cup {None}]
    /\ gone \in [Handler -> SUBSET Credential]
    /\ held \in [Handler -> SUBSET (Actor \X Rights)]
    /\ current \subseteq Handler

(* About to hand an authenticated caller's call to the platform.           *)
Acting(h) == pc[h] = "forward" /\ who[h] # None

(* A mutating tool is never forwarded for an account all of whose keys had *)
(* been revoked before the request came, whatever sessions it still has    *)
(* (server.go: "so revoked keys cannot continue through a cached session").*)
RevokedKeysDoNotMutate ==
    \A h \in Handler : Acting(h) /\ tool(req[h]) \in mutatingTools =>
        \E c \in Credential : Owner[c] = who[h].id /\ c \notin gone[h]

(* A bid or a publication is forwarded only for an account that was given  *)
(* the permission, or had no operator to ask, at some moment since the     *)
(* request came: the policy bits cached with a session never decide.       *)
Held(h, right) == <<who[h].id, right>> \in held[h]

WithinDelegation ==
    \A h \in Handler : Acting(h) =>
        /\ tool(req[h]) = "orders.submitBid" => Held(h, "canBid")
        /\ tool(req[h]) = "marketplace.publish" =>
              \/ Held(h, "unclaimed")
              \/ /\ Held(h, "canPublish")
                 /\ req[h].dynamic => Held(h, "allowDynamicPricing")

(* An agent nobody has claimed reaches only the tourist tools, though what *)
(* the gateway knows of the claim may come from an old session.            *)
TouristContainment ==
    \A h \in Handler : Acting(h) /\ tool(req[h]) \notin touristTools =>
        who[h].id \in claimed \cup (Actor \ Agent)

(* The account whose permissions, records and claim were consulted is the  *)
(* one the forwarded Authorization header makes the platform act for.      *)
ActsForItsCaller ==
    \A h \in Handler : Acting(h) /\ req[h].credential # None =>
        who[h].id = Owner[req[h].credential]

(* A request of the stateless revision neither reads, mints nor ends a     *)
(* session, even when it carries the id of one.                            *)
StatelessIgnoresSessions ==
    \A h \in Handler : req[h] # None /\ req[h].stateless => op[h] = None

(* While a record stands, all clients who used its key were told the same  *)
(* result and had sent the same params, however many times and with        *)
(* whatever answers the platform was asked.                                *)
Replied(h) == pc[h] = "replied" /\ h \in current

RepliesAgree ==
    \A g, h \in Handler : Replied(g) /\ Replied(h) /\ RecordKey(g) = RecordKey(h) =>
        reply[g] = reply[h] /\ req[g].hash = req[h].hash

(* collab.join asks for the role "exactly as the collaboration records it"; *)
(* a member that does so is not taken for an impostor (schemas.go:243).    *)
RecordedRoleJoins ==
    \A h \in Handler :
        reply[h] # None /\ tool(req[h]) = "collab.join" /\ req[h].role = "member" =>
            reply[h].code # "actor_confusion_rejected" \/ req[h].agentId # None

(***************************************************************************)
(* The inductive invariant: the place of a handler tells what it holds; a  *)
(* caller is either fresh, known by a credential that was good after the   *)
(* request came, or reused from a session and then not mutating anything;  *)
(* what is cached of a claim is true; and an answer that counts as current *)
(* is the one of the standing record.                                      *)
(***************************************************************************)
Places ==
    \A h \in Handler :
        /\ (req[h] = None) <=> (pc[h] = "idle")
        /\ (reply[h] = None) <=> (pc[h] # "replied")
        /\ pc[h] \in {"idle", "session", "identify"} => who[h] = None
        /\ pc[h] \in {"issue", "gates", "resolve"} => who[h] # None
        /\ (op[h] # None) <=> (pc[h] \in {"session", "issue"})
        /\ op[h] # None => ~ req[h].stateless
        /\ told[h] # None => op[h] # None
        /\ (call[h] # None) <=> (pc[h] = "resolve")
        /\ resolved[h] # None => call[h] # None

Reused(h) == req[h].credential = None /\ tool(req[h]) \notin mutatingTools

Fresh(h) ==
    LET w == who[h] IN
    /\ req[h].credential # None
    /\ req[h].credential \notin gone[h]
    /\ w.id = Owner[req[h].credential]
    /\ \A p \in w.policy : Held(h, p)
    /\ unclaimed(w) => Held(h, "unclaimed")

Known(h) ==
    /\ pc[h] = "session" /\ req[h].http = "POST" => Reused(h)
    /\ who[h] # None => Reused(h) \/ Fresh(h)
    /\ Acting(h) => Gate(who[h], req[h]) = "admitted"
    /\ pc[h] = "forward" /\ who[h] = None =>
          tool(req[h]) = "onboarding.registerSelf"

Callers == \A h \in Handler : Known(h)

Since ==
    \A h \in Handler : pc[h] # "idle" =>
        gone[h] \subseteq revoked /\ RightsOf(granted, claimed) \subseteq held[h]

Truthful(w) == w.claimed => w.id \in claimed

Claims ==
    /\ \A s \in Session : live[s] # None => Truthful(live[s])
    /\ \A h \in Handler :
          /\ who[h] # None => Truthful(who[h])
          /\ op[h] # None /\ op[h].kind = "issue" => Truthful(op[h].actor)
          /\ told[h] # None /\ told[h].kind = "actor" => Truthful(told[h].actor)

(* The call h is resolving is the one it was asked to make.                *)
Resolving(h) ==
    /\ req[h].key # None
    /\ call[h].key = RecordKey(h) /\ call[h].hash = req[h].hash

OfRecord(h, rec) ==
    /\ pc[h] \in {"resolve", "replied"}
    /\ who[h] # None /\ req[h].key # None
    /\ rec # None /\ rec.RequestHash = req[h].hash
    /\ pc[h] = "resolve" =>
          resolved[h] = [kind |-> "ok", response |-> rec.Response]
    /\ pc[h] = "replied" => reply[h] = [code |-> "ok", result |-> rec.Response]

Standing ==
    /\ \A h \in Handler : pc[h] = "resolve" => Resolving(h)
    /\ \A h \in current : OfRecord(h, records[RecordKey(h)])

IInv ==
    /\ TypeOK
    /\ Places
    /\ Callers
    /\ Since
    /\ Claims
    /\ Standing

(* Every request is answered.                                              *)
EveryRequestAnswered ==
    \A h \in Handler : req[h] # None ~> reply[h] # None
==============================================================================
