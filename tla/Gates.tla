-------------------------------- MODULE Gates --------------------------------
(***************************************************************************)
(* What serveTool decides about one request without asking anybody: how a  *)
(* caller is to be authenticated, and which gate, in the order they stand, *)
(* turns a request of an authenticated caller away.                        *)
(***************************************************************************)
EXTENDS Tools

CONSTANTS Credential,  \* agent and operator keys
          Session,     \* session ids
          Actor,       \* accounts of the platform
          Agent,       \* those of type "agent"; the others are operators
          IdKey,       \* values of Idempotency-Key
          Hash,        \* hashes of params
          None

ASSUME AgentAssumption == Agent \subseteq Actor

(* The permissions an operator delegates to an agent.                      *)
Permission == {"canBid", "canPublish", "allowDynamicPricing"}

(* A caller as the platform identifies it, and as a session caches it.     *)
Identity == [id : Actor, claimed : BOOLEAN, policy : SUBSET Permission]

(***************************************************************************)
(* A request that reached the dispatch of its HTTP method.  role and       *)
(* agentId are what params claim about the caller; "member" stands for any *)
(* role that is not an actor type.  valid and dynamic say what publish     *)
(* params hold.                                                            *)
(***************************************************************************)
Name == allowedTools \cup DOMAIN unlistedAliases \cup {"unknown"}

AnyRequest ==
    [http : {"POST", "GET", "DELETE"}, stateless : BOOLEAN, name : Name,
     credential : Credential \cup {None}, session : Session \cup {None},
     key : IdKey \cup {None}, hash : Hash, critical : BOOLEAN,
     role : {"none", "agent", "operator", "member"},
     agentId : Actor \cup {None}, valid : BOOLEAN, dynamic : BOOLEAN]

tool(r) == canonicalTool(r.name)

(* Mutant: the header of a stateless request is left in place.             *)
sessionHeaderKept(r) == r.session

(* The stateless revision has no sessions: the header is dropped.          *)
sessionHeader(r) == IF r.stateless THEN None ELSE r.session

(* Mutant: an Idempotency-Key is taken for protection enough.              *)
requiresFreshUnlessKeyed(r) ==
    /\ sessionHeader(r) # None
    /\ r.credential = None
    /\ tool(r) \in mutatingTools \ idempotentTools

requiresFreshAuthorization(r) ==
    /\ sessionHeader(r) # None
    /\ r.credential = None
    /\ tool(r) \in mutatingTools

(* Mutant: a session is used even when Authorization is sent as well.      *)
onSessionFirst(r) == sessionHeader(r) # None

(* A session stands in for a caller that sends no Authorization.           *)
onSession(r) == sessionHeader(r) # None /\ r.credential = None

(* What happens to a POST before anyone is asked who sent it.              *)
Entrance(r) ==
    IF ~ allowedTool(r.name) THEN "method_not_found"
    ELSE IF requiresFreshAuthorization(r) THEN "authorization_required"
    ELSE IF tool(r) = "onboarding.registerSelf" THEN "anonymous"
    ELSE IF onSession(r) THEN "session"
    ELSE "identify"

actorType(a) == IF a \in Agent THEN "agent" ELSE "operator"

shed(r) == tool(r) \in lowPriorityTools /\ r.critical

rejectActorSpoof(w, r) ==
    \/ r.role \notin {"none", actorType(w.id)}
    \/ r.agentId # None /\ (w.id \notin Agent \/ r.agentId # w.id)

unclaimed(w) == w.id \in Agent /\ ~ w.claimed

(* Mutant: only mutating tools are kept from an unclaimed agent.           *)
rejectUnboundMutations(w, r) ==
    /\ unclaimed(w)
    /\ tool(r) \in mutatingTools \ touristTools

rejectUnboundMutatingAgent(w, r) ==
    unclaimed(w) /\ tool(r) \notin touristTools

lacksKey(r) == tool(r) \in idempotentTools /\ r.key = None

invalidParams(r) == tool(r) = "marketplace.publish" /\ ~ r.valid

(* Mutant: the delegation of dynamic pricing is not looked at.             *)
needsNoPricing(w, r) ==
    IF tool(r) = "orders.submitBid" THEN {"canBid"}
    ELSE IF tool(r) = "marketplace.publish" /\ ~ unclaimed(w)
         THEN {"canPublish"}
    ELSE {}

(* The permissions the operator must have delegated for this request.      *)
needs(w, r) ==
    IF tool(r) = "orders.submitBid" THEN {"canBid"}
    ELSE IF tool(r) = "marketplace.publish" /\ ~ unclaimed(w)
         THEN {"canPublish"} \cup
              (IF r.dynamic THEN {"allowDynamicPricing"} ELSE {})
    ELSE {}

enforceOperatorPolicy(w, r) == ~ (needs(w, r) \subseteq w.policy)

(* The gates behind authentication, in order.  The three codes a policy    *)
(* refusal may carry are one here.                                         *)
Gate(w, r) ==
    IF shed(r) THEN "backpressure_shed"
    ELSE IF rejectActorSpoof(w, r) THEN "actor_confusion_rejected"
    ELSE IF rejectUnboundMutatingAgent(w, r) THEN "operator_required"
    ELSE IF lacksKey(r) THEN "idempotency_required"
    ELSE IF invalidParams(r) THEN "validation_failed"
    ELSE IF enforceOperatorPolicy(w, r) THEN "permission_denied"
    ELSE "admitted"
==============================================================================
