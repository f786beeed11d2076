-------------------------- MODULE GatewayRedisProofs --------------------------
(***************************************************************************)
(* The deployed endpoint implements the endpoint over the two promises, so *)
(* that what GatewayProofs shows holds over Redis too.  G, SP and RP give  *)
(* the theorems about Gateway and about the two stores in the variables of *)
(* the deployment.                                                         *)
(***************************************************************************)
EXTENDS GatewayRedis, TLAPS

G == INSTANCE GatewayProofs WITH told <- promised
SP == INSTANCE RedisSessionsProofs WITH Actor <- Identity, answer <- told
RP == INSTANCE RedisIdempotencyProofs WITH
        Caller <- Handler, Key <- Actor \X IdKey, Response <- Result,
        answer <- resolved, current <- standing

(* The constants of the deployment are as the three modules assume.        *)
LEMMA GKeeps == G!IInv /\ [G!Next]_G!vars => G!IInv'
BY G!StepsKeep, AgentAssumption, PolicyAssumption, RequestAssumption,
   OwnerAssumption, NoneAssumption
DEF G!AnyRequest, AnyRequest, G!Name, Name, G!Permission, Permission,
    G!allowedTools, allowedTools, G!unlistedAliases, unlistedAliases,
    G!Result, Result, G!Identity, Identity, G!Reply, Reply, G!Refusal, Refusal,
    G!Cache!Op, Cache!Op, G!Cache!Answer, Cache!Answer,
    G!Store!Record, Store!Record, G!Store!Call, Store!Call,
    G!Store!Answer, Store!Answer

LEMMA SPKeeps == SP!IInv /\ [SP!Next]_SP!vars => SP!IInv'
BY SP!NextInv, RedisAssumption, NoneAssumption
DEF Result, Cache!Op, Cache!Answer

LEMMA RPKeeps == RP!IInv /\ [RP!Next]_RP!vars => RP!IInv'
BY RP!NextInv, RedisAssumption, NoneAssumption
DEF Store!Record, Store!Call, Store!Answer

LEMMA InitiallyKeeps == DeploymentInit => G!IInv /\ SP!IInv /\ RP!IInv
<1>. SUFFICES ASSUME DeploymentInit PROVE G!IInv /\ SP!IInv /\ RP!IInv
  OBVIOUS
<1>1. SP!IInv
  BY SP!InitInv, RedisAssumption, NoneAssumption
  DEF DeploymentInit, SessionKeys!Init, SP!Init, SessionKeys!Abstract!Init,
      SP!Abstract!Init, Result, Cache!Op, Cache!Answer
<1>2. RP!IInv
  BY RP!InitInv, RedisAssumption, NoneAssumption
  DEF DeploymentInit, RecordKeys!Init, RP!Init, RecordKeys!Abstract!Init,
      RP!Abstract!Init, Store!Record, Store!Call, Store!Answer
<1>3. promised = told
  BY DEF DeploymentInit, SessionKeys!Init, promised, Init, Cache!Init
<1>4. G!Init
  BY <1>3 DEF DeploymentInit, Init, G!Init, Cache!Init, G!Cache!Init,
              Store!Init, G!Store!Init
<1>5. G!IInv
  BY <1>4, G!Initially, AgentAssumption, PolicyAssumption, RequestAssumption,
     OwnerAssumption, NoneAssumption
  DEF G!AnyRequest, AnyRequest, G!Name, Name, G!Permission, Permission,
      G!allowedTools, allowedTools, G!unlistedAliases, unlistedAliases,
      G!Result, Result, G!Identity, Identity, G!Reply, Reply, G!Refusal, Refusal,
      G!Cache!Op, Cache!Op, G!Cache!Answer, Cache!Answer,
      G!Store!Record, Store!Record, G!Store!Call, Store!Call,
      G!Store!Answer, Store!Answer
<1>. QED
  BY <1>1, <1>2, <1>5

(* The tables and the gates are the same in both.                          *)
LEMMA Names ==
    /\ \A r : G!tool(r) = tool(r)
    /\ G!mutatingTools = mutatingTools
    /\ G!touristTools = touristTools
    /\ G!localTools = localTools
    /\ \A t : G!forwardsToPlatform(t) = forwardsToPlatform(t)
BY DEF G!tool, tool, G!canonicalTool, canonicalTool, G!unlistedAliases,
       unlistedAliases, G!mutatingTools, mutatingTools, G!touristTools,
       touristTools, G!localTools, localTools, G!forwardsToPlatform,
       forwardsToPlatform, G!allowedTools, allowedTools

LEMMA Entrances ==
    /\ \A r : G!Entrance(r) = Entrance(r)
    /\ \A r : G!onSession(r) = onSession(r)
BY Names
DEF G!Entrance, Entrance, G!allowedTool, allowedTool, G!canonicalTool,
    canonicalTool, G!unlistedAliases, unlistedAliases, G!allowedTools,
    allowedTools, G!requiresFreshAuthorization, requiresFreshAuthorization,
    G!sessionHeader, sessionHeader, G!onSession, onSession

LEMMA GatesAgree == \A w, r : G!Gate(w, r) = Gate(w, r)
BY Names
DEF G!Gate, Gate, G!shed, shed, G!lowPriorityTools, lowPriorityTools,
    G!rejectActorSpoof, rejectActorSpoof, G!actorType, actorType,
    G!rejectUnboundMutatingAgent, rejectUnboundMutatingAgent, G!unclaimed,
    unclaimed, G!lacksKey, lacksKey, G!idempotentTools, idempotentTools,
    G!invalidParams, invalidParams, G!enforceOperatorPolicy,
    enforceOperatorPolicy, G!needs, needs

(* What a step of the handler's code does to the answer it is promised.    *)
LEMMA Asking ==
    ASSUME SP!IInv, NEW h \in Handler, AsksSessions(h)
    PROVE  /\ read' = read
           /\ told' = told => promised' = promised
           /\ told[h] # None => promised[h] = told[h]
           /\ Cache!Return(h) => G!Cache!Return(h)
           /\ \A o : Cache!Call(h, o) => G!Cache!Call(h, o)
<1>1. read' = read
  BY DEF AsksSessions, SessionKeys!Call, SessionKeys!Return, sessionKeys
<1>2. told[h] # None => promised[h] = told[h]
  BY DEF SP!IInv, SP!Shape, promised
<1>3. told' = told => promised' = promised
  BY <1>1 DEF promised
<1>4. ASSUME Cache!Return(h) PROVE G!Cache!Return(h)
  BY <1>1, <1>2, <1>4
  DEF Cache!Return, G!Cache!Return, promised, SP!IInv, SP!Shape, SP!TypeOK
<1>5. ASSUME NEW o, Cache!Call(h, o) PROVE G!Cache!Call(h, o)
  BY <1>1, <1>3, <1>5 DEF Cache!Call, G!Cache!Call
<1>. QED
  BY <1>1, <1>2, <1>3, <1>4, <1>5

(* Each step of the handler's code is one of Gateway's.                    *)
LEMMA HandlerStepMaps ==
    ASSUME SP!IInv, NEW h \in Handler, HandlerSteps(h)
    PROVE  G!Visiting(h) \/ G!Working(h)
<1>. USE Asking, Names, Entrances, GatesAgree
     DEF HandlerSteps, G!Visiting, G!Working,
         platform, G!platform, handlers, G!handlers, cache, G!cache,
         store, G!store, history, G!history,
         Goto, G!Goto, Answer, G!Answer, Refuse, G!Refuse
<1>1. ASSUME NEW r \in Request, Post(h, r) PROVE G!Post(h, r)
  <2>1. G!Arrive(h, r)
    BY <1>1 DEF Post, Arrive, G!Arrive, RightsOf, G!RightsOf, Rights, G!Rights,
                Permission, G!Permission
  <2>2. G!Minting(r) => G!RoomForSession
    <3>1. \A q : G!Minting(q) = Minting(q)
      BY DEF Minting, G!Minting
    <3>2. G!MintingHandlers = MintingHandlers
      BY <3>1 DEF MintingHandlers, G!MintingHandlers
    <3>3. \A S : G!Cardinality(S) = Cardinality(S)
      BY DEF Cardinality, G!Cardinality
    <3>. QED
      BY <1>1, <3>1, <3>2, <3>3 DEF Post, RoomForSession, G!RoomForSession
  <2>3. G!Refusal = Refusal
    BY DEF Refusal, G!Refusal
  <2>. QED
    BY <1>1, <2>1, <2>2, <2>3 DEF Post, G!Post
<1>2. ASSUME NEW r \in Request, DeleteOrGet(h, r) PROVE G!DeleteOrGet(h, r)
  BY <1>2
  DEF DeleteOrGet, G!DeleteOrGet, Arrive, G!Arrive, RightsOf, G!RightsOf,
      Rights, G!Rights, Permission, G!Permission
<1>3. CASE SessionAnswers(h)
  BY <1>3 DEF SessionAnswers, G!SessionAnswers
<1>4. CASE Identified(h)
  BY <1>4 DEF Identified, G!Identified, IdentityOf, G!IdentityOf
<1>5. CASE IdentifyRevoked(h)
  BY <1>5 DEF IdentifyRevoked, G!IdentifyRevoked
<1>6. CASE IdentifyFails(h)
  BY <1>6 DEF IdentifyFails, G!IdentifyFails
<1>7. CASE IssueAnswers(h)
  BY <1>7 DEF IssueAnswers, G!IssueAnswers
<1>8. CASE PassGates(h)
  BY <1>8 DEF PassGates, G!PassGates
<1>9. CASE AnswerLocally(h)
  BY <1>9 DEF AnswerLocally, G!AnswerLocally, Outcome, G!Outcome,
              Store!Ask, G!Store!Ask
<1>10. CASE Forward(h)
  BY <1>10 DEF Forward, G!Forward, Outcome, G!Outcome, Store!Ask, G!Store!Ask
<1>11. CASE ForwardFails(h)
  BY <1>11 DEF ForwardFails, G!ForwardFails
<1>12. CASE StoreAnswers(h)
  BY <1>12 DEF StoreAnswers, G!StoreAnswers, ReplyTo, G!ReplyTo,
               Store!Return, G!Store!Return
<1>13. CASE Done(h)
  BY <1>13 DEF Done, G!Done
<1>. QED
  BY <1>1, <1>2, <1>3, <1>4, <1>5, <1>6, <1>7, <1>8, <1>9, <1>10, <1>11,
     <1>12, <1>13 DEF Visiting, Working

(* A command carries out the operation its handler is in, or none yet.     *)
LEMMA SessionCommandMaps ==
    ASSUME SP!IInv, NEW h \in Handler, SessionCommand(h)
    PROVE  G!SessionStore(h) \/ UNCHANGED G!vars
<1>. USE DEF SessionCommand, SessionKeys!Pending, SessionKeys!Abstract!Pending,
             SessionKeys!Abstract!Tell, G!Cache!Pending, G!Cache!Tell,
             G!SessionStore, promised, SP!IInv, SP!Shape, SP!TypeOK,
             platform, G!platform, handlers, G!handlers, store, G!store,
             history, G!history
<1>1. CASE SessionKeys!SetEx(h)
  BY <1>1 DEF SessionKeys!SetEx, G!Cache!Issue
<1>2. CASE SessionKeys!SetExFails(h)
  BY <1>2 DEF SessionKeys!SetExFails, G!Cache!Fail
<1>3. CASE SessionKeys!GetFinds(h)
  BY <1>3, NoneAssumption DEF SessionKeys!GetFinds, G!Cache!Get, Result
<1>4. CASE SessionKeys!GetMisses(h)
  BY <1>4 DEF SessionKeys!GetMisses, G!Cache!Get
<1>5. CASE SessionKeys!Expire(h)
  BY <1>5 DEF SessionKeys!Expire, G!vars, G!cache, cache
<1>6. CASE SessionKeys!Del(h)
  BY <1>6 DEF SessionKeys!Del, G!Cache!Delete
<1>7. CASE SessionKeys!DelFails(h)
  BY <1>7 DEF SessionKeys!DelFails, G!Cache!Fail
<1>. QED
  BY <1>1, <1>2, <1>3, <1>4, <1>5, <1>6, <1>7

LEMMA RecordCommandMaps ==
    ASSUME RP!IInv, NEW h \in Handler, RecordCommand(h)
    PROVE  G!IdempotencyStore(h) \/ G!WriteUnheard(h) \/ UNCHANGED G!vars
<1>. USE DEF RecordCommand, RP!IInv, RP!Shape, RP!TypeOK, G!Store!Waiting,
             G!Store!RecordOf, RecordKeys!Abstract!RecordOf,
             G!Store!Verdict, RecordKeys!Abstract!Verdict, RecordKeys!Tell,
             RecordKeys!MaybeWritten,
             platform, G!platform, handlers, G!handlers, cache, G!cache,
             store, G!store, history, G!history, sessionKeys, promised
<1>0. /\ call[h] # None => call[h] \in [key : Actor \X IdKey, hash : Hash,
                                       response : Result]
      /\ \A k \in Actor \X IdKey : records[k] # None =>
            records[k] \in [RequestHash : Hash, Response : Result]
      /\ \A x \in Result : [kind |-> "ok", response |-> x] # None
      /\ [kind |-> "conflict"] # None /\ [kind |-> "error"] # None
  BY NoneAssumption
  DEF RP!Record, RP!Call, RP!Abstract!Record, RP!Abstract!Call, Store!Answer
<1>1. CASE RecordKeys!SetNX(h)
  BY <1>0, <1>1 DEF RecordKeys!SetNX, G!IdempotencyStore, G!Store!Resolve
<1>2. CASE RecordKeys!SetNXTaken(h)
  BY <1>2 DEF RecordKeys!SetNXTaken, G!vars
<1>3. CASE RecordKeys!Get(h)
  BY <1>0, <1>3 DEF RecordKeys!Get, G!IdempotencyStore, G!Store!Resolve
<1>4. CASE RecordKeys!GetGone(h)
  BY <1>0, <1>4 DEF RecordKeys!GetGone, G!IdempotencyStore, G!Store!Fail
<1>5. CASE RecordKeys!Resend(h)
  BY <1>5 DEF RecordKeys!Resend, G!vars, G!WriteUnheard, G!Store!WriteUnheard
<1>6. CASE RecordKeys!GiveUp(h)
  BY <1>0, <1>6 DEF RecordKeys!GiveUp, G!IdempotencyStore, G!Store!Fail
<1>. QED
  BY <1>1, <1>2, <1>3, <1>4, <1>5, <1>6 DEF RecordKeys!Resolving

(* Every step of the deployment is a step of the endpoint over the two     *)
(* promises, or none of its business.                                      *)
LEMMA StepMaps ==
    ASSUME SP!IInv, RP!IInv, [DeploymentNext]_deployment
    PROVE  [G!Next]_G!vars
<1>1. ASSUME NEW h \in Handler, HandlerSteps(h) PROVE G!Next
  BY <1>1, HandlerStepMaps DEF G!Next, G!Serving
<1>2. ASSUME NEW h \in Handler, SessionCommand(h) PROVE [G!Next]_G!vars
  BY <1>2, SessionCommandMaps DEF G!Next, G!Serving
<1>3. ASSUME NEW h \in Handler, RecordCommand(h) PROVE [G!Next]_G!vars
  BY <1>3, RecordCommandMaps DEF G!Next, G!Serving
<1>4. CASE Tick
  <2>1. G!SessionsRunOut
    <3>. DEFINE S == {s \in Session : ~ (left[s] > 1)}
    <3>1. live' = [s \in Session |-> IF s \in S THEN None ELSE live[s]]
      BY <1>4 DEF Tick, SessionKeys!Tick
    <3>2. UNCHANGED <<used, known, op, promised>>
      BY <1>4 DEF Tick, SessionKeys!Tick, promised
    <3>3. G!Cache!RunOut
      BY <3>1, <3>2 DEF G!Cache!RunOut
    <3>. QED
      BY <1>4, <3>3 DEF Tick, G!SessionsRunOut, platform, G!platform,
         handlers, G!handlers, store, G!store, history, G!history
  <2>. QED
    BY <2>1 DEF G!Next
<1>5. ASSUME NEW k \in Actor \X IdKey, RecordRunsOut(k) PROVE G!Next
  <2>1. G!RecordLapses(k)
    BY <1>5
    DEF RecordRunsOut, RecordKeys!Lapse, G!RecordLapses, G!Store!Lapse,
        RecordKey, G!RecordKey, platform, G!platform, handlers, G!handlers,
        cache, G!cache, sessionKeys, promised
  <2>. QED
    BY <2>1 DEF G!Next
<1>6. CASE PlatformChanges /\ UNCHANGED <<sessionKeys, recordKeys>>
  <2>. USE DEF handlers, G!handlers, cache, G!cache, store, G!store,
               history, G!history, sessionKeys, promised
  <2>1. ASSUME NEW c \in Credential, Revoke(c) PROVE G!PlatformChanges
    BY <1>6, <2>1 DEF Revoke, G!Revoke, G!PlatformChanges
  <2>2. ASSUME NEW a \in Agent, Claim(a) PROVE G!PlatformChanges
    BY <1>6, <2>2 DEF Claim, G!Claim, G!PlatformChanges
  <2>3. ASSUME NEW a \in Actor, NEW rights \in Policy, Delegate(a, rights)
        PROVE  G!PlatformChanges
    BY <1>6, <2>3
    DEF Delegate, G!Delegate, HoldMore, G!HoldMore, RightsOf, G!RightsOf,
        Rights, G!Rights, Permission, G!Permission, G!PlatformChanges
  <2>. QED
    BY <1>6, <2>1, <2>2, <2>3 DEF PlatformChanges, G!Next
<1>7. CASE UNCHANGED deployment
  BY <1>7
  DEF deployment, vars, platform, handlers, cache, store, history, sessionKeys,
      G!vars, G!platform, G!handlers, G!cache, G!store, G!history, promised
<1>. QED
  BY <1>1, <1>2, <1>3, <1>4, <1>5, <1>6, <1>7 DEF DeploymentNext

(* Nor is it anything to a store but a step of its own.                    *)
LEMMA StoresStep ==
    ASSUME [DeploymentNext]_deployment
    PROVE  [SP!Next]_SP!vars /\ [RP!Next]_RP!vars
<1>. USE DEF SP!vars, RP!vars, sessionKeys, recordKeys, cache, store
<1>1. ASSUME NEW h \in Handler, AsksSessions(h) PROVE [SP!Next]_SP!vars
  BY <1>1
  DEF AsksSessions, SP!Next, SessionKeys!Call, SP!Call, SessionKeys!Return,
      SP!Return, SessionKeys!Abstract!Call, SP!Abstract!Call,
      SessionKeys!Abstract!Return, SP!Abstract!Return, Cache!Op, SP!Abstract!Op
<1>2. ASSUME NEW h \in Handler, AsksRecords(h) PROVE [RP!Next]_RP!vars
  BY <1>2
  DEF AsksRecords, RP!Next, RecordKeys!Ask, RP!Ask, RecordKeys!Return, RP!Return,
      Store!Call, RP!Call, RP!Abstract!Call
<1>3. ASSUME NEW h \in Handler, SessionCommand(h) PROVE [SP!Next]_SP!vars
  BY <1>3
  DEF SessionCommand, SP!Next, SessionKeys!SetEx, SP!SetEx,
      SessionKeys!SetExFails, SP!SetExFails, SessionKeys!GetFinds, SP!GetFinds,
      SessionKeys!GetMisses, SP!GetMisses, SessionKeys!Expire, SP!Expire,
      SessionKeys!Refresh, SP!Refresh, SessionKeys!Del, SP!Del,
      SessionKeys!DelFails, SP!DelFails, SessionKeys!Pending, SP!Pending,
      SessionKeys!Abstract!Pending, SP!Abstract!Pending,
      SessionKeys!Abstract!Tell, SP!Abstract!Tell
<1>4. ASSUME NEW h \in Handler, RecordCommand(h) PROVE [RP!Next]_RP!vars
  <2>1. RP!Resolving(h)
    BY <1>4
    DEF RecordCommand, RecordKeys!Resolving, RP!Resolving,
        RecordKeys!SetNX, RP!SetNX, RecordKeys!SetNXTaken, RP!SetNXTaken,
        RecordKeys!Get, RP!Get, RecordKeys!GetGone, RP!GetGone,
        RecordKeys!Resend, RP!Resend, RecordKeys!GiveUp, RP!GiveUp,
        RecordKeys!Tell, RP!Tell, RecordKeys!MaybeWritten, RP!MaybeWritten,
        RecordKeys!Abstract!RecordOf, RP!Abstract!RecordOf,
        RecordKeys!Abstract!Verdict, RP!Abstract!Verdict
  <2>. QED
    BY <2>1 DEF RP!Next
<1>5. CASE Tick
  BY <1>5 DEF Tick, SP!Next, SessionKeys!Tick, SP!Tick, SessionKeys!Busy, SP!Busy
<1>6. ASSUME NEW k \in Actor \X IdKey, RecordRunsOut(k) PROVE [RP!Next]_RP!vars
  BY <1>6 DEF RecordRunsOut, RP!Next, RecordKeys!Lapse, RP!Lapse
<1>7. CASE PlatformChanges /\ UNCHANGED <<sessionKeys, recordKeys>>
  BY <1>7 DEF PlatformChanges, Revoke, Claim, Delegate
<1>8. CASE UNCHANGED deployment
  BY <1>8 DEF deployment, vars
<1>. QED
  BY <1>1, <1>2, <1>3, <1>4, <1>5, <1>6, <1>7, <1>8
  DEF DeploymentNext, HandlerSteps, SessionCommand, RecordCommand,
      RecordRunsOut, Tick

(* The invariants of the parts, which the deployment keeps together.       *)
Parts == G!IInv /\ SP!IInv /\ RP!IInv

LEMMA PartsKept == Parts /\ [DeploymentNext]_deployment => Parts'
BY StepMaps, StoresStep, GKeeps, SPKeeps, RPKeeps DEF Parts

(* What one handler holds and answers, for the three properties that no    *)
(* part can state alone.                                                   *)
Locked(h) ==
    h \in late /\ req[h] # None /\ req[h].http = "POST" /\ onSession(req[h]) =>
        who[h] = None

Own(h) ==
    Resolved(h) /\ reply[h].code = "ok" =>
        <<RecordKey(h), req[h].hash, reply[h].result>> \in offered

Real(h) ==
    Resolved(h) /\ reply[h].code = "idempotency_conflict" =>
        \E o \in offered : o[1] = RecordKey(h) /\ o[2] # req[h].hash

Honest == \A h \in Handler : Locked(h) /\ Own(h) /\ Real(h)

LEMMA Held1 ==
    ASSUME Parts, NEW h \in Handler
    PROVE  /\ (req[h] = None) <=> (pc[h] = "idle")
           /\ (reply[h] = None) <=> (pc[h] # "replied")
           /\ pc[h] \in {"idle", "session", "identify"} => who[h] = None
           /\ pc[h] = "resolve" =>
                 /\ call[h].key = RecordKey(h) /\ call[h].hash = req[h].hash
                 /\ call[h] # None
BY DEF Parts, G!IInv, G!Places, G!Standing, G!Resolving, RecordKey, G!RecordKey

LEMMA Typing ==
    ASSUME Parts
    PROVE  /\ pc \in [Handler -> {"idle", "session", "identify", "issue", "gates",
                                  "forward", "resolve", "replied"}]
           /\ DOMAIN req = Handler /\ req = [h \in Handler |-> req[h]]
           /\ DOMAIN who = Handler /\ who = [h \in Handler |-> who[h]]
           /\ DOMAIN reply = Handler /\ reply = [h \in Handler |-> reply[h]]
           /\ DOMAIN op = Handler /\ op = [h \in Handler |-> op[h]]
           /\ late \subseteq Handler
BY DEF Parts, G!IInv, G!TypeOK, SP!IInv, SP!TypeOK

(* The handlers other than the one that steps keep what they hold.         *)
LEMMA OthersKeep ==
    ASSUME Parts, NEW h \in Handler, HandlerSteps(h), NEW g \in Handler, g # h
    PROVE  /\ req'[g] = req[g] /\ who'[g] = who[g] /\ reply'[g] = reply[g]
           /\ (g \in late') <=> (g \in late)
<1>1. (g \in late') <=> (g \in late)
  BY DEF HandlerSteps, AsksSessions, SessionKeys!Call, SessionKeys!Return, sessionKeys
<1>2. req'[g] = req[g] /\ who'[g] = who[g] /\ reply'[g] = reply[g]
  BY Typing
  DEF HandlerSteps, Visiting, Working, Post, DeleteOrGet, SessionAnswers,
      Identified, IdentifyRevoked, IdentifyFails, IssueAnswers, PassGates,
      AnswerLocally, Forward, ForwardFails, StoreAnswers, Done, Arrive,
      Outcome, Refuse, Answer
<1>. QED
  BY <1>1, <1>2

LEMMA OfferedGrows ==
    ASSUME NEW h, HandlerSteps(h) \/ RecordCommand(h)
    PROVE  offered \subseteq offered'
BY DEF HandlerSteps, AsksRecords, RecordKeys!Ask, RecordKeys!Return, recordKeys,
       RecordCommand, RecordKeys!Resolving, RecordKeys!SetNX,
       RecordKeys!SetNXTaken, RecordKeys!Get, RecordKeys!GetGone,
       RecordKeys!Resend, RecordKeys!GiveUp, RecordKeys!Tell

(* Only a handler that calls the session store anew becomes late.          *)
LEMMA LateKept ==
    ASSUME Parts, NEW h \in Handler, HandlerSteps(h),
           op'[h] = op[h] \/ op'[h] = None
    PROVE  late' = late
BY NoneAssumption
DEF HandlerSteps, AsksSessions, SessionKeys!Call, SessionKeys!Return, sessionKeys,
    SessionKeys!Abstract!Call, Cache!Op, Parts, SP!IInv, SP!TypeOK

LEMMA HandlerHonest ==
    ASSUME Parts, Honest, NEW h \in Handler, HandlerSteps(h)
    PROVE  Honest'
<1>. USE Held1, Typing
<1>1. ASSUME NEW g \in Handler, g # h PROVE (Locked(g) /\ Own(g) /\ Real(g))'
  <2>1. /\ req'[g] = req[g] /\ who'[g] = who[g] /\ reply'[g] = reply[g]
        /\ (g \in late') <=> (g \in late)
        /\ offered \subseteq offered'
    BY <1>1, OthersKeep, OfferedGrows
  <2>2. RecordKey(g)' = RecordKey(g) /\ Resolved(g)' = Resolved(g)
    BY <2>1 DEF RecordKey, Resolved
  <2>3. Locked(g)'
    BY <2>1 DEF Honest, Locked, onSession
  <2>4. Own(g)'
    BY <2>1, <2>2 DEF Honest, Own
  <2>5. Real(g)'
    <3>1. ASSUME Resolved(g)', (reply[g].code)' = "idempotency_conflict"
          PROVE  \E o \in offered' : o[1] = RecordKey(g)' /\ o[2] # req'[g].hash
      <4>1. PICK o \in offered : o[1] = RecordKey(g) /\ o[2] # req[g].hash
        BY <2>1, <2>2, <3>1 DEF Honest, Real
      <4>. QED
        BY <2>1, <2>2, <4>1
    <3>. QED
      BY <3>1 DEF Real
  <2>. QED
    BY <2>3, <2>4, <2>5
<1>. USE DEF HandlerSteps
<1>2. CASE \E r \in Request : Post(h, r) \/ DeleteOrGet(h, r)
  <2>1. pc[h] = "idle" /\ who' = who
    BY <1>2 DEF Post, DeleteOrGet, Arrive
  <2>. QED
    BY <1>1, <2>1 DEF Honest, Locked, Own, Real, Resolved
<1>3. CASE SessionAnswers(h)
  <2>1. late' = late
    BY <1>3, LateKept DEF SessionAnswers, Cache!Return
  <2>2. Locked(h)'
    BY <1>3, <2>1
    DEF SessionAnswers, Honest, Locked, Parts, SP!IInv, SP!DeleteSticks
  <2>3. (Own(h) /\ Real(h))'
    BY <1>3 DEF SessionAnswers, Refuse, Answer, Own, Real, Resolved
  <2>. QED
    BY <1>1, <2>2, <2>3 DEF Honest
<1>4. CASE Identified(h)
  <2>1. Locked(h)'
    BY <1>4 DEF Identified, Locked, onSession
  <2>2. (Own(h) /\ Real(h))'
    BY <1>4 DEF Identified, Own, Real, Resolved
  <2>. QED
    BY <1>1, <2>1, <2>2 DEF Honest
<1>5. CASE StoreAnswers(h)
  <2>1. late' = late
    BY <1>5, LateKept DEF StoreAnswers, cache
  <2>2. Locked(h)'
    BY <1>5, <2>1 DEF StoreAnswers, Honest, Locked
  <2>3. /\ pc[h] = "resolve" /\ resolved[h] # None
        /\ reply' = [reply EXCEPT ![h] = ReplyTo(resolved[h])]
        /\ RecordKey(h)' = RecordKey(h) /\ req'[h] = req[h]
        /\ offered \subseteq offered'
    BY <1>5, OfferedGrows DEF StoreAnswers, Answer, RecordKey
  <2>4. /\ resolved[h].kind = "ok" =>
              <<RecordKey(h), req[h].hash, resolved[h].response>> \in offered
        /\ resolved[h].kind = "conflict" =>
              \E o \in offered : o[1] = RecordKey(h) /\ o[2] # req[h].hash
    BY <2>3 DEF Parts, RP!IInv, RP!AnswersItsOwnRequest, RP!ConflictIsReal
  <2>5. Own(h)' /\ Real(h)'
    BY <2>3, <2>4 DEF ReplyTo, Own, Real
  <2>. QED
    BY <1>1, <2>2, <2>5 DEF Honest
<1>6. CASE Done(h)
  BY <1>1, <1>6 DEF Done, Honest, Locked, Own, Real, Resolved
<1>7. CASE \/ IdentifyRevoked(h) \/ IdentifyFails(h) \/ IssueAnswers(h)
           \/ PassGates(h) \/ AnswerLocally(h) \/ Forward(h) \/ ForwardFails(h)
  <2>1. late' = late
    BY <1>7, LateKept
    DEF IdentifyRevoked, IdentifyFails, IssueAnswers, PassGates, AnswerLocally,
        Forward, ForwardFails, Cache!Return, cache
  <2>2. req' = req /\ who' = who
    BY <1>7
    DEF IdentifyRevoked, IdentifyFails, IssueAnswers, PassGates, AnswerLocally,
        Forward, ForwardFails
  <2>3. Locked(h)'
    BY <2>1, <2>2 DEF Honest, Locked
  <2>4. pc[h] # "replied" /\ reply[h] = None
    BY <1>7
    DEF IdentifyRevoked, IdentifyFails, IssueAnswers, PassGates, AnswerLocally,
        Forward, ForwardFails
  <2>5. Resolved(h)' =>
            reply'[h].code \notin {"ok", "idempotency_conflict"}
    <3>. SUFFICES ASSUME who[h] # None, req[h].key # None, reply'[h] # None
                  PROVE  reply'[h].code \notin {"ok", "idempotency_conflict"}
      BY <2>2 DEF Resolved
    <3>1. CASE PassGates(h)
      BY <3>1, <2>4 DEF PassGates, Refuse, Answer, Gate
    <3>2. CASE AnswerLocally(h) \/ Forward(h)
      BY <3>2, <2>4 DEF AnswerLocally, Forward, Outcome
    <3>3. CASE \/ IdentifyRevoked(h) \/ IdentifyFails(h) \/ IssueAnswers(h)
               \/ ForwardFails(h)
      BY <3>3, <2>4
      DEF IdentifyRevoked, IdentifyFails, IssueAnswers, ForwardFails, Refuse,
          Answer
    <3>. QED
      BY <1>7, <3>1, <3>2, <3>3
  <2>6. (Own(h) /\ Real(h))'
    BY <2>5 DEF Own, Real
  <2>. QED
    BY <1>1, <2>3, <2>6 DEF Honest
<1>. QED
  BY <1>2, <1>3, <1>4, <1>5, <1>6, <1>7 DEF Visiting, Working

LEMMA HonestKept == Parts /\ Honest /\ [DeploymentNext]_deployment => Honest'
<1>. SUFFICES ASSUME Parts, Honest, [DeploymentNext]_deployment PROVE Honest'
  OBVIOUS
<1>. USE DEF Honest, Locked, Own, Real, Resolved, RecordKey
<1>1. ASSUME NEW h \in Handler, SessionCommand(h) PROVE Honest'
  BY <1>1
  DEF SessionCommand, handlers, recordKeys, SessionKeys!SetEx,
      SessionKeys!SetExFails, SessionKeys!GetFinds, SessionKeys!GetMisses,
      SessionKeys!Expire, SessionKeys!Del, SessionKeys!DelFails
<1>2. ASSUME NEW h \in Handler, RecordCommand(h) PROVE Honest'
  BY <1>2, OfferedGrows DEF RecordCommand, handlers, sessionKeys
<1>3. CASE Tick
  BY <1>3 DEF Tick, SessionKeys!Tick, handlers, recordKeys
<1>4. ASSUME NEW k, RecordRunsOut(k) PROVE Honest'
  BY <1>4 DEF RecordRunsOut, RecordKeys!Lapse, handlers, sessionKeys
<1>5. CASE PlatformChanges /\ UNCHANGED <<sessionKeys, recordKeys>>
  BY <1>5 DEF PlatformChanges, Revoke, Claim, Delegate, handlers, sessionKeys,
              recordKeys
<1>6. CASE UNCHANGED deployment
  BY <1>6 DEF deployment, vars, handlers, sessionKeys, recordKeys
<1>. QED
  BY <1>1, <1>2, <1>3, <1>4, <1>5, <1>6, HandlerHonest DEF DeploymentNext

LEMMA InitiallyHonest == DeploymentInit => Honest
BY DEF DeploymentInit, Init, SessionKeys!Init, Honest, Locked, Own, Real, Resolved

(* The parts' invariants, and what handlers hold, throughout.              *)
THEOREM Deployment == DeploymentSpec => [](Parts /\ Honest)
<1>1. DeploymentInit => Parts /\ Honest
  BY InitiallyKeeps, InitiallyHonest DEF Parts
<1>2. Parts /\ Honest /\ [DeploymentNext]_deployment => Parts' /\ Honest'
  BY PartsKept, HonestKept
<1>. QED
  BY <1>1, <1>2, PTL DEF DeploymentSpec

LEMMA PromisedInit == DeploymentInit => G!Init
<1>. SUFFICES ASSUME DeploymentInit PROVE G!Init
  OBVIOUS
<1>1. promised = told
  BY DEF DeploymentInit, SessionKeys!Init, promised, Init, Cache!Init
<1>. QED
  BY <1>1 DEF DeploymentInit, Init, G!Init, Cache!Init, G!Cache!Init,
              Store!Init, G!Store!Init

LEMMA OnPromises == DeploymentSpec => G!Spec
<1>1. Parts /\ [DeploymentNext]_deployment => [G!Next]_G!vars
  BY StepMaps DEF Parts
<1>. QED
  BY <1>1, PromisedInit, Deployment, PTL DEF DeploymentSpec, G!Spec

LEMMA SameInit == G!Init => Endpoint!Init
BY DEF G!Init, Endpoint!Init, G!Cache!Init, Endpoint!Cache!Init, G!Store!Init,
       Endpoint!Store!Init

LEMMA SameTools ==
    /\ \A r : G!Entrance(r) = Endpoint!Entrance(r)
    /\ \A r : G!tool(r) = Endpoint!tool(r)
    /\ \A r : G!onSession(r) = Endpoint!onSession(r)
    /\ G!localTools = Endpoint!localTools
    /\ \A t : G!forwardsToPlatform(t) = Endpoint!forwardsToPlatform(t)
BY DEF G!tool, Endpoint!tool, G!canonicalTool, Endpoint!canonicalTool,
       G!unlistedAliases, Endpoint!unlistedAliases, G!allowedTool,
       Endpoint!allowedTool, G!allowedTools, Endpoint!allowedTools,
       G!requiresFreshAuthorization, Endpoint!requiresFreshAuthorization,
       G!mutatingTools, Endpoint!mutatingTools, G!sessionHeader,
       Endpoint!sessionHeader, G!onSession, Endpoint!onSession, G!Entrance,
       Endpoint!Entrance, G!localTools, Endpoint!localTools,
       G!forwardsToPlatform, Endpoint!forwardsToPlatform

LEMMA SameGate == \A w, r : G!Gate(w, r) = Endpoint!Gate(w, r)
BY DEF G!shed, Endpoint!shed, G!lowPriorityTools, Endpoint!lowPriorityTools,
       G!rejectActorSpoof, Endpoint!rejectActorSpoof, G!actorType,
       Endpoint!actorType, G!rejectUnboundMutatingAgent,
       Endpoint!rejectUnboundMutatingAgent, G!unclaimed, Endpoint!unclaimed,
       G!touristTools, Endpoint!touristTools, G!lacksKey, Endpoint!lacksKey,
       G!idempotentTools, Endpoint!idempotentTools, G!invalidParams,
       Endpoint!invalidParams, G!enforceOperatorPolicy,
       Endpoint!enforceOperatorPolicy, G!needs, Endpoint!needs, G!tool,
       Endpoint!tool, G!canonicalTool, Endpoint!canonicalTool,
       G!unlistedAliases, Endpoint!unlistedAliases, G!Gate, Endpoint!Gate

(* The actions, one by one.                                                *)
LEMMA SameRoom == G!RoomForSession <=> Endpoint!RoomForSession
<1>1. \A r : G!Minting(r) = Endpoint!Minting(r)
  BY SameTools DEF G!Minting, Endpoint!Minting
<1>2. G!MintingHandlers = Endpoint!MintingHandlers
  BY <1>1 DEF G!MintingHandlers, Endpoint!MintingHandlers
<1>3. \A S : G!Cardinality(S) = Endpoint!Cardinality(S)
  BY DEF G!Cardinality, Endpoint!Cardinality
<1>. QED
  BY <1>2, <1>3 DEF G!RoomForSession, Endpoint!RoomForSession

LEMMA SameVisits == \A h : G!Visiting(h) => Endpoint!Visiting(h)
<1>. SUFFICES ASSUME NEW h, G!Visiting(h) PROVE Endpoint!Visiting(h)
  OBVIOUS
<1>. USE DEF G!platform, Endpoint!platform, G!handlers, Endpoint!handlers,
             G!cache, Endpoint!cache, G!store, Endpoint!store, G!history,
             Endpoint!history, G!Goto, Endpoint!Goto, G!Answer,
             Endpoint!Answer, G!Refuse, Endpoint!Refuse
<1>1. \A r : G!Arrive(h, r) => Endpoint!Arrive(h, r)
  BY DEF G!Arrive, Endpoint!Arrive, G!RightsOf, Endpoint!RightsOf, G!Rights,
         Endpoint!Rights, G!Permission, Endpoint!Permission
<1>2. ASSUME NEW r \in Request, G!Post(h, r) PROVE Endpoint!Post(h, r)
  <2>1. G!Minting(r) = Endpoint!Minting(r) /\ G!Refusal = Endpoint!Refusal
    BY SameTools DEF G!Minting, Endpoint!Minting, G!Refusal,
                     Endpoint!Refusal
  <2>. QED
    BY <1>1, <1>2, <2>1, SameRoom, SameTools
    DEF G!Post, Endpoint!Post, G!Cache!Call, Endpoint!Cache!Call
<1>3. ASSUME NEW r \in Request, G!DeleteOrGet(h, r) PROVE Endpoint!DeleteOrGet(h, r)
  BY <1>1, <1>3 DEF G!DeleteOrGet, Endpoint!DeleteOrGet, G!Cache!Call,
                    Endpoint!Cache!Call
<1>4. G!Done(h) => Endpoint!Done(h)
  BY DEF G!Done, Endpoint!Done
<1>. QED
  BY <1>2, <1>3, <1>4 DEF G!Visiting, Endpoint!Visiting

LEMMA SameWork == \A h : G!Working(h) => Endpoint!Working(h)
BY SameTools, SameGate
DEF G!Working, Endpoint!Working, G!SessionAnswers, Endpoint!SessionAnswers,
    G!Identified, Endpoint!Identified, G!IdentityOf, Endpoint!IdentityOf,
    G!IdentifyRevoked, Endpoint!IdentifyRevoked, G!IdentifyFails,
    Endpoint!IdentifyFails, G!IssueAnswers, Endpoint!IssueAnswers,
    G!PassGates, Endpoint!PassGates, G!AnswerLocally,
    Endpoint!AnswerLocally, G!Forward, Endpoint!Forward, G!ForwardFails,
    Endpoint!ForwardFails, G!StoreAnswers, Endpoint!StoreAnswers, G!ReplyTo,
    Endpoint!ReplyTo, G!Outcome, Endpoint!Outcome, G!Cache!Call,
    Endpoint!Cache!Call, G!Cache!Return, Endpoint!Cache!Return, G!Store!Ask,
    Endpoint!Store!Ask, G!Store!Return, Endpoint!Store!Return, G!platform,
    Endpoint!platform, G!handlers, Endpoint!handlers, G!cache,
    Endpoint!cache, G!store, Endpoint!store, G!history, Endpoint!history,
    G!Goto, Endpoint!Goto, G!Answer, Endpoint!Answer, G!Refuse,
    Endpoint!Refuse

LEMMA SameStores == \A h : G!SessionStore(h) => Endpoint!SessionStore(h)
BY SameTools, SameGate
DEF G!SessionStore, Endpoint!SessionStore, G!Cache!Pending,
    Endpoint!Cache!Pending, G!Cache!Tell, Endpoint!Cache!Tell,
    G!Cache!Issue, Endpoint!Cache!Issue, G!Cache!Get, Endpoint!Cache!Get,
    G!Cache!Delete, Endpoint!Cache!Delete, G!Cache!Fail,
    Endpoint!Cache!Fail, G!platform, Endpoint!platform, G!handlers,
    Endpoint!handlers, G!cache, Endpoint!cache, G!store, Endpoint!store,
    G!history, Endpoint!history, G!Goto, Endpoint!Goto, G!Answer,
    Endpoint!Answer, G!Refuse, Endpoint!Refuse

LEMMA SameRecords ==
    /\ \A h : G!IdempotencyStore(h) => Endpoint!IdempotencyStore(h)
    /\ \A h : G!WriteUnheard(h) => Endpoint!WriteUnheard(h)
    /\ \A k : G!RecordLapses(k) => Endpoint!RecordLapses(k)
    /\ G!SessionsRunOut => Endpoint!SessionsRunOut
BY DEF G!IdempotencyStore, Endpoint!IdempotencyStore, G!WriteUnheard,
       Endpoint!WriteUnheard, G!RecordLapses, Endpoint!RecordLapses,
       G!RecordKey, Endpoint!RecordKey, G!SessionsRunOut,
       Endpoint!SessionsRunOut, G!Cache!RunOut, Endpoint!Cache!RunOut,
       G!Store!Lapse, Endpoint!Store!Lapse, G!Store!WriteUnheard,
       Endpoint!Store!WriteUnheard, G!Store!Resolve, Endpoint!Store!Resolve,
       G!Store!Fail, Endpoint!Store!Fail, G!Store!Verdict,
       Endpoint!Store!Verdict, G!Store!RecordOf, Endpoint!Store!RecordOf,
       G!Store!Waiting, Endpoint!Store!Waiting, G!platform,
       Endpoint!platform, G!handlers, Endpoint!handlers, G!cache,
       Endpoint!cache, G!store, Endpoint!store, G!history, Endpoint!history

LEMMA SamePlatform == G!PlatformChanges => Endpoint!PlatformChanges
BY DEF G!PlatformChanges, Endpoint!PlatformChanges, G!Revoke,
       Endpoint!Revoke, G!Claim, Endpoint!Claim, G!Delegate,
       Endpoint!Delegate, G!HoldMore, Endpoint!HoldMore, G!RightsOf,
       Endpoint!RightsOf, G!Rights, Endpoint!Rights, G!Permission,
       Endpoint!Permission, G!platform, Endpoint!platform, G!handlers,
       Endpoint!handlers, G!cache, Endpoint!cache, G!store, Endpoint!store,
       G!history, Endpoint!history

LEMMA SameStep == [G!Next]_G!vars => [Endpoint!Next]_Endpoint!vars
<1>1. G!Next => Endpoint!Next
  BY SameVisits, SameWork, SameStores, SameRecords, SamePlatform
  DEF G!Next, Endpoint!Next, G!Serving, Endpoint!Serving
<1>2. UNCHANGED G!vars => UNCHANGED Endpoint!vars
  BY DEF G!vars, Endpoint!vars, G!platform, Endpoint!platform, G!handlers,
         Endpoint!handlers, G!cache, Endpoint!cache, G!store,
         Endpoint!store, G!history, Endpoint!history
<1>. QED
  BY <1>1, <1>2

(* The endpoint over Redis implements the endpoint over the promises of    *)
(* its stores.                                                             *)
THEOREM Refinement == DeploymentSpec => ImplementsGateway
BY OnPromises, SameInit, SameStep, PTL DEF G!Spec, Endpoint!Spec, ImplementsGateway

(* What the endpoint owes its clients and the operators of its agents, it  *)
(* owes them over Redis: none of it rests on a store answering at once.    *)
OverRedis ==
    /\ RevokedKeysDoNotMutate
    /\ WithinDelegation
    /\ TouristContainment
    /\ ActsForItsCaller
    /\ StatelessIgnoresSessions
    /\ RepliesAgree

LEMMA SameProperties ==
    /\ G!RevokedKeysDoNotMutate => RevokedKeysDoNotMutate
    /\ G!WithinDelegation => WithinDelegation
    /\ G!TouristContainment => TouristContainment
    /\ G!ActsForItsCaller => ActsForItsCaller
    /\ G!StatelessIgnoresSessions => StatelessIgnoresSessions
    /\ G!RepliesAgree => RepliesAgree
BY Names
DEF G!RevokedKeysDoNotMutate, RevokedKeysDoNotMutate, G!WithinDelegation,
    WithinDelegation, G!TouristContainment, TouristContainment,
    G!ActsForItsCaller, ActsForItsCaller, G!StatelessIgnoresSessions,
    StatelessIgnoresSessions, G!RepliesAgree, RepliesAgree, G!Acting, Acting,
    G!Held, Held, G!Replied, Replied, G!RecordKey, RecordKey

(* Gateway's safety properties, of the handlers with the two Redis stores  *)
(* of cmd/mcp-server under them.                                           *)
THEOREM GatewayOverRedis == DeploymentSpec => []OverRedis
<1>1. G!Spec => []G!RevokedKeysDoNotMutate
  BY G!RevokedKeysDoNotMutateHolds, AgentAssumption, PolicyAssumption, RequestAssumption,
     OwnerAssumption, NoneAssumption
  DEF G!AnyRequest, AnyRequest, G!Name, Name, G!Permission, Permission,
      G!allowedTools, allowedTools, G!unlistedAliases, unlistedAliases,
      G!Result, Result, G!Identity, Identity, G!Reply, Reply, G!Refusal, Refusal,
      G!Cache!Op, Cache!Op, G!Cache!Answer, Cache!Answer,
      G!Store!Record, Store!Record, G!Store!Call, Store!Call,
      G!Store!Answer, Store!Answer
<1>2. G!Spec => []G!WithinDelegation
  BY G!WithinDelegationHolds, AgentAssumption, PolicyAssumption, RequestAssumption,
     OwnerAssumption, NoneAssumption
  DEF G!AnyRequest, AnyRequest, G!Name, Name, G!Permission, Permission,
      G!allowedTools, allowedTools, G!unlistedAliases, unlistedAliases,
      G!Result, Result, G!Identity, Identity, G!Reply, Reply, G!Refusal, Refusal,
      G!Cache!Op, Cache!Op, G!Cache!Answer, Cache!Answer,
      G!Store!Record, Store!Record, G!Store!Call, Store!Call,
      G!Store!Answer, Store!Answer
<1>3. G!Spec => []G!TouristContainment
  BY G!TouristContainmentHolds, AgentAssumption, PolicyAssumption, RequestAssumption,
     OwnerAssumption, NoneAssumption
  DEF G!AnyRequest, AnyRequest, G!Name, Name, G!Permission, Permission,
      G!allowedTools, allowedTools, G!unlistedAliases, unlistedAliases,
      G!Result, Result, G!Identity, Identity, G!Reply, Reply, G!Refusal, Refusal,
      G!Cache!Op, Cache!Op, G!Cache!Answer, Cache!Answer,
      G!Store!Record, Store!Record, G!Store!Call, Store!Call,
      G!Store!Answer, Store!Answer
<1>4. G!Spec => []G!ActsForItsCaller
  BY G!ActsForItsCallerHolds, AgentAssumption, PolicyAssumption, RequestAssumption,
     OwnerAssumption, NoneAssumption
  DEF G!AnyRequest, AnyRequest, G!Name, Name, G!Permission, Permission,
      G!allowedTools, allowedTools, G!unlistedAliases, unlistedAliases,
      G!Result, Result, G!Identity, Identity, G!Reply, Reply, G!Refusal, Refusal,
      G!Cache!Op, Cache!Op, G!Cache!Answer, Cache!Answer,
      G!Store!Record, Store!Record, G!Store!Call, Store!Call,
      G!Store!Answer, Store!Answer
<1>5. G!Spec => []G!StatelessIgnoresSessions
  BY G!StatelessIgnoresSessionsHolds, AgentAssumption, PolicyAssumption, RequestAssumption,
     OwnerAssumption, NoneAssumption
  DEF G!AnyRequest, AnyRequest, G!Name, Name, G!Permission, Permission,
      G!allowedTools, allowedTools, G!unlistedAliases, unlistedAliases,
      G!Result, Result, G!Identity, Identity, G!Reply, Reply, G!Refusal, Refusal,
      G!Cache!Op, Cache!Op, G!Cache!Answer, Cache!Answer,
      G!Store!Record, Store!Record, G!Store!Call, Store!Call,
      G!Store!Answer, Store!Answer
<1>6. G!Spec => []G!RepliesAgree
  BY G!RepliesAgreeHolds, AgentAssumption, PolicyAssumption, RequestAssumption,
     OwnerAssumption, NoneAssumption
  DEF G!AnyRequest, AnyRequest, G!Name, Name, G!Permission, Permission,
      G!allowedTools, allowedTools, G!unlistedAliases, unlistedAliases,
      G!Result, Result, G!Identity, Identity, G!Reply, Reply, G!Refusal, Refusal,
      G!Cache!Op, Cache!Op, G!Cache!Answer, Cache!Answer,
      G!Store!Record, Store!Record, G!Store!Call, Store!Call,
      G!Store!Answer, Store!Answer
<1>7. /\ G!RevokedKeysDoNotMutate /\ G!WithinDelegation
      /\ G!TouristContainment /\ G!ActsForItsCaller
      /\ G!StatelessIgnoresSessions /\ G!RepliesAgree
      => OverRedis
  BY SameProperties DEF OverRedis
<1>. QED
  BY <1>1, <1>2, <1>3, <1>4, <1>5, <1>6, <1>7, OnPromises, PTL

(* A POST that arrives on a session whose DELETE has been confirmed is     *)
(* nobody's, for a Get in flight never writes the session back             *)
(* (authenticate over GET and EXPIRE of the session store).                *)
THEOREM DeletedSessionsAdmitNobodyHolds ==
    DeploymentSpec => []DeletedSessionsAdmitNobody
<1>1. Parts /\ Honest => DeletedSessionsAdmitNobody
  BY Typing DEF Honest, Locked, DeletedSessionsAdmitNobody
<1>. QED
  BY <1>1, Deployment, PTL

(* A keyed call is answered with a result the platform gave for a call of  *)
(* the same account with the same key and params (Resolve, serveTool).     *)
THEOREM RepliesAreOwnHolds == DeploymentSpec => []RepliesAreOwn
<1>1. Honest => RepliesAreOwn
  BY DEF Honest, Own, RepliesAreOwn
<1>. QED
  BY <1>1, Deployment, PTL

(* A conflict is told only to an account that has used the key for other   *)
(* params before (Resolve on an existing record, idempotencyResolveError). *)
THEOREM ConflictRepliesAreRealHolds == DeploymentSpec => []ConflictRepliesAreReal
<1>1. Honest => ConflictRepliesAreReal
  BY DEF Honest, Real, ConflictRepliesAreReal
<1>. QED
  BY <1>1, Deployment, PTL

(***************************************************************************)
(* A request over Redis takes a bounded number of steps, the commands it   *)
(* sends included, whatever the other requests do to the same keys.        *)
(***************************************************************************)
MostCommands == 2 * (MaxResends + 1)

(* How many commands of its session operation h has still to send.         *)
SessionCommandsLeft(h) ==
    IF op[h] = None \/ told[h] # None THEN 0
    ELSE IF op[h].kind = "get" /\ read[h] = None THEN 2 ELSE 1

(* How many steps h takes at most after those commands.                    *)
Beyond == [idle |-> 0, replied |-> 0, resolve |-> 1,
           forward |-> MostCommands + 2, gates |-> MostCommands + 3,
           issue |-> MostCommands + 4, session |-> MostCommands + 4,
           identify |-> MostCommands + 6]

StepsLeft(h) == Beyond[pc[h]] + SessionCommandsLeft(h) + RP!CommandsLeft(h)

BoundedRequests ==
    \A h \in Handler :
        /\ StepsLeft(h) \in 0 .. MostCommands + 6
        /\ StepsLeft(h) = 0 <=> pc[h] \in {"idle", "replied"}

StepsOf(h) ==
    (HandlerSteps(h) /\ Working(h)) \/ SessionCommand(h) \/ RecordCommand(h)

NearerOverRedis ==
    [][\A h \in Handler :
          /\ StepsOf(h) => StepsLeft(h)' < StepsLeft(h)
          /\ StepsLeft(h)' > StepsLeft(h) => pc[h] = "idle"]_deployment

(* Only a handler in the middle of an operation has commands to send.      *)
CommandsByPlace ==
    \A h \in Handler :
        /\ pc[h] \in {"idle", "session", "identify", "issue", "gates",
                      "forward", "resolve", "replied"}
        /\ SessionCommandsLeft(h) \in 0 .. 2
        /\ RP!CommandsLeft(h) \in 0 .. MostCommands
        /\ pc[h] \notin {"session", "issue"} =>
              op[h] = None /\ told[h] = None /\ SessionCommandsLeft(h) = 0
        /\ pc[h] # "resolve" => at[h] = "idle" /\ RP!CommandsLeft(h) = 0

LEMMA Placing == Parts => CommandsByPlace
<1>. SUFFICES ASSUME Parts PROVE CommandsByPlace
  OBVIOUS
<1>1. MaxResends \in Nat
  BY RedisAssumption
<1>2. ASSUME NEW h \in Handler
      PROVE  /\ RP!CommandsLeft(h) \in 0 .. MostCommands
             /\ pc[h] # "resolve" => at[h] = "idle" /\ RP!CommandsLeft(h) = 0
             /\ pc[h] \notin {"session", "issue"} => op[h] = None /\ told[h] = None
  <2>1. RP!CommandsLeft(h) \in 0 .. MostCommands
    BY <1>1 DEF Parts, RP!IInv, RP!TypeOK, RP!CommandsLeft, MostCommands
  <2>2. pc[h] # "resolve" => at[h] = "idle" /\ RP!CommandsLeft(h) = 0
    BY DEF Parts, G!IInv, G!Places, RP!IInv, RP!Shape, RP!CommandsLeft
  <2>3. pc[h] \notin {"session", "issue"} => op[h] = None /\ told[h] = None
    BY DEF Parts, G!IInv, G!Places, SP!IInv, SP!Shape
  <2>. QED
    BY <2>1, <2>2, <2>3
<1>. QED
  BY <1>2, Typing DEF CommandsByPlace, SessionCommandsLeft

LEMMA RequestsBounded == CommandsByPlace => BoundedRequests
<1>. SUFFICES ASSUME CommandsByPlace, NEW h \in Handler
              PROVE  /\ StepsLeft(h) \in 0 .. MostCommands + 6
                     /\ StepsLeft(h) = 0 <=> pc[h] \in {"idle", "replied"}
  BY DEF BoundedRequests
<1>1. MostCommands \in Nat
  BY RedisAssumption DEF MostCommands
<1>. QED
  BY <1>1 DEF CommandsByPlace, StepsLeft, Beyond

(* A step of the handler's code spends a place, and the commands it begins *)
(* were counted in that place.                                             *)
LEMMA WorkShortens ==
    ASSUME Parts, CommandsByPlace, CommandsByPlace',
           NEW h \in Handler, HandlerSteps(h), Working(h)
    PROVE  StepsLeft(h)' < StepsLeft(h)
<1>. DEFINE S == SessionCommandsLeft(h)
            C == RP!CommandsLeft(h)
<1>1. MostCommands \in Nat /\ MaxResends \in Nat
  BY RedisAssumption DEF MostCommands
<1>2. /\ S \in 0 .. 2 /\ C \in 0 .. MostCommands
      /\ pc[h] \notin {"session", "issue"} => S = 0
      /\ pc[h] # "resolve" => C = 0
      /\ S' \in 0 .. 2 /\ C' \in 0 .. MostCommands
      /\ pc'[h] \notin {"session", "issue"} => S' = 0
      /\ pc'[h] # "resolve" => C' = 0
  BY DEF CommandsByPlace, MostCommands
<1>3. \/ pc[h] = "session" /\ pc'[h] \in {"gates", "replied"}
      \/ pc[h] = "identify" /\ pc'[h] \in {"gates", "replied"}
      \/ pc[h] = "identify" /\ pc'[h] = "issue" /\ S' < 2
      \/ pc[h] = "issue" /\ pc'[h] \in {"gates", "replied"}
      \/ pc[h] = "gates" /\ pc'[h] \in {"forward", "replied"}
      \/ pc[h] = "forward" /\ pc'[h] \in {"resolve", "replied"}
      \/ pc[h] = "resolve" /\ pc'[h] = "replied"
  <2>. USE Typing DEF Goto, Answer, Refuse
  <2>1. CASE SessionAnswers(h)
    BY <2>1 DEF SessionAnswers
  <2>2. CASE Identified(h)
    <3>1. ASSUME NEW o, Cache!Call(h, o), o.kind = "issue" PROVE S' < 2
      BY <1>2, <3>1 DEF Cache!Call, SessionCommandsLeft
    <3>. QED
      BY <2>2, <3>1 DEF Identified
  <2>3. CASE \/ IdentifyRevoked(h) \/ IdentifyFails(h) \/ IssueAnswers(h)
             \/ PassGates(h)
    BY <2>3 DEF IdentifyRevoked, IdentifyFails, IssueAnswers, PassGates
  <2>4. CASE AnswerLocally(h) \/ Forward(h) \/ ForwardFails(h)
    BY <2>4 DEF AnswerLocally, Forward, ForwardFails, Outcome
  <2>5. CASE StoreAnswers(h)
    BY <2>5 DEF StoreAnswers
  <2>. QED
    BY <2>1, <2>2, <2>3, <2>4, <2>5 DEF Working
<1>. HIDE DEF S, C
<1>4. Beyond'[pc'[h]] + S' + C' < Beyond[pc[h]] + S + C
  BY <1>1, <1>2, <1>3 DEF Beyond, MostCommands
<1>. QED
  BY <1>4 DEF StepsLeft, S, C

(* So does a command, of either store.                                     *)
LEMMA SessionCommandShortens ==
    ASSUME Parts, NEW h \in Handler, SessionCommand(h)
    PROVE  /\ SessionCommandsLeft(h)' < SessionCommandsLeft(h)
           /\ UNCHANGED <<pc, at, resends>>
<1>1. UNCHANGED <<pc, at, resends>>
  BY DEF SessionCommand, handlers, recordKeys
<1>2. /\ DOMAIN told = Handler /\ DOMAIN read = Handler
      /\ \A s \in Session : live[s] \in Identity \cup {None}
      /\ read[h] \in Identity \cup {None}
      /\ op[h] # None => op[h].id \in Session
      /\ read[h] # None => op[h] # None /\ op[h].kind = "get" /\ told[h] = None
  BY DEF Parts, SP!IInv, SP!Shape, SP!TypeOK, SP!Abstract!Op
<1>3. CASE SessionKeys!GetFinds(h)
  <2>1. op[h] # None /\ told[h] = None /\ op[h].kind = "get" /\ read[h] = None
    BY <1>3 DEF SessionKeys!GetFinds, SessionKeys!Pending,
                SessionKeys!Abstract!Pending
  <2>2. read'[h] # None /\ op' = op /\ told' = told
    BY <1>2, <1>3 DEF SessionKeys!GetFinds
  <2>. QED
    BY <1>1, <2>1, <2>2 DEF SessionCommandsLeft
<1>4. CASE ~ SessionKeys!GetFinds(h)
  <2>1. op[h] # None /\ told[h] = None
    BY <1>2, <1>4
    DEF SessionCommand, SessionKeys!SetEx, SessionKeys!SetExFails,
        SessionKeys!GetMisses, SessionKeys!Expire, SessionKeys!Del,
        SessionKeys!DelFails, SessionKeys!Pending, SessionKeys!Abstract!Pending
  <2>2. PICK a \in Cache!Answer : SessionKeys!Abstract!Tell(h, a)
    BY <1>2, <1>4
    DEF SessionCommand, SessionKeys!SetEx, SessionKeys!SetExFails,
        SessionKeys!GetMisses, SessionKeys!Expire, SessionKeys!Del,
        SessionKeys!DelFails, Cache!Answer
  <2>3. told'[h] # None
    BY <1>2, <2>2, NoneAssumption DEF SessionKeys!Abstract!Tell
  <2>. QED
    BY <1>1, <2>1, <2>3 DEF SessionCommandsLeft
<1>. QED
  BY <1>3, <1>4

LEMMA RecordCommandShortens ==
    ASSUME Parts, NEW h \in Handler, RecordCommand(h)
    PROVE  /\ RP!CommandsLeft(h)' < RP!CommandsLeft(h)
           /\ UNCHANGED <<pc, op, told, read>>
<1>1. RP!Resolving(h)
  BY DEF RecordCommand, RecordKeys!Resolving, RP!Resolving,
         RecordKeys!SetNX, RP!SetNX, RecordKeys!SetNXTaken, RP!SetNXTaken,
         RecordKeys!Get, RP!Get, RecordKeys!GetGone, RP!GetGone,
         RecordKeys!Resend, RP!Resend, RecordKeys!GiveUp, RP!GiveUp,
         RecordKeys!Tell, RP!Tell, RecordKeys!MaybeWritten, RP!MaybeWritten,
         RecordKeys!Abstract!RecordOf, RP!Abstract!RecordOf,
         RecordKeys!Abstract!Verdict, RP!Abstract!Verdict
<1>2. [RP!Next]_RP!vars
  BY <1>1 DEF RP!Next
<1>. QED
  BY <1>1, <1>2, RP!CommandsFall, RedisAssumption, NoneAssumption
  DEF Parts, RecordCommand, handlers, cache, sessionKeys, Store!Record,
      Store!Call, Store!Answer

(* The other handlers, time and the platform leave h's count alone.        *)
LEMMA StoreTyping ==
    ASSUME Parts
    PROVE  /\ DOMAIN told = Handler /\ DOMAIN read = Handler
           /\ DOMAIN at = Handler /\ DOMAIN resends = Handler
BY DEF Parts, SP!IInv, SP!TypeOK, RP!IInv, RP!TypeOK

LEMMA OthersMayWait ==
    ASSUME Parts, NEW h \in Handler, NEW g \in Handler, g # h,
           HandlerSteps(g) \/ SessionCommand(g) \/ RecordCommand(g)
    PROVE  /\ pc'[h] = pc[h] /\ op'[h] = op[h] /\ told'[h] = told[h]
           /\ read'[h] = read[h] /\ at'[h] = at[h] /\ resends'[h] = resends[h]
<1>. USE Typing, StoreTyping
<1>1. CASE HandlerSteps(g)
  <2>1. pc'[h] = pc[h] /\ op'[h] = op[h] /\ told'[h] = told[h]
    BY <1>1
    DEF HandlerSteps, Visiting, Working, Post, DeleteOrGet, SessionAnswers,
        Identified, IdentifyRevoked, IdentifyFails, IssueAnswers, PassGates,
        AnswerLocally, Forward, ForwardFails, StoreAnswers, Done, Arrive,
        Outcome, Refuse, Answer, Goto, cache, Cache!Call, Cache!Return
  <2>2. read'[h] = read[h]
    BY <1>1 DEF HandlerSteps, AsksSessions, SessionKeys!Call,
                SessionKeys!Return, sessionKeys
  <2>3. at'[h] = at[h] /\ resends'[h] = resends[h]
    BY <1>1 DEF HandlerSteps, AsksRecords, RecordKeys!Ask, RecordKeys!Return,
                recordKeys
  <2>. QED
    BY <2>1, <2>2, <2>3
<1>2. CASE SessionCommand(g)
  <2>1. op'[h] = op[h] /\ told'[h] = told[h] /\ read'[h] = read[h]
    BY <1>2
    DEF SessionCommand, SessionKeys!SetEx, SessionKeys!SetExFails,
        SessionKeys!GetFinds, SessionKeys!GetMisses, SessionKeys!Expire,
        SessionKeys!Del, SessionKeys!DelFails, SessionKeys!Abstract!Tell
  <2>. QED
    BY <1>2, <2>1 DEF SessionCommand, handlers, recordKeys
<1>3. CASE RecordCommand(g)
  <2>1. at'[h] = at[h] /\ resends'[h] = resends[h]
    BY <1>3
    DEF RecordCommand, RecordKeys!Resolving, RecordKeys!SetNX,
        RecordKeys!SetNXTaken, RecordKeys!Get, RecordKeys!GetGone,
        RecordKeys!Resend, RecordKeys!GiveUp, RecordKeys!Tell
  <2>. QED
    BY <1>3, <2>1 DEF RecordCommand, handlers, cache, sessionKeys
<1>. QED
  BY <1>1, <1>2, <1>3

LEMMA OutsideSpendsNothing ==
    ASSUME \/ Tick
           \/ \E k \in Actor \X IdKey : RecordRunsOut(k)
           \/ PlatformChanges /\ UNCHANGED <<sessionKeys, recordKeys>>
           \/ UNCHANGED deployment
    PROVE  UNCHANGED <<pc, op, told, read, at, resends>>
BY DEF Tick, SessionKeys!Tick, RecordRunsOut, RecordKeys!Lapse, PlatformChanges,
       Revoke, Claim, Delegate, deployment, vars, handlers, cache, sessionKeys,
       recordKeys

LEMMA Spending ==
    ASSUME Parts, CommandsByPlace, CommandsByPlace', [DeploymentNext]_deployment,
           NEW h \in Handler
    PROVE  /\ StepsOf(h) => StepsLeft(h)' < StepsLeft(h)
           /\ StepsLeft(h)' > StepsLeft(h) => pc[h] = "idle"
<1>1. StepsLeft(h) \in Nat /\ StepsLeft(h)' \in Nat
  BY RedisAssumption DEF CommandsByPlace, StepsLeft, Beyond, MostCommands
<1>2. ASSUME StepsOf(h) PROVE StepsLeft(h)' < StepsLeft(h)
  <2>1. CASE HandlerSteps(h) /\ Working(h)
    BY <2>1, WorkShortens
  <2>2. CASE SessionCommand(h)
    <3>1. /\ SessionCommandsLeft(h)' < SessionCommandsLeft(h)
          /\ pc'[h] = pc[h] /\ RP!CommandsLeft(h)' = RP!CommandsLeft(h)
      BY <2>2, SessionCommandShortens DEF RP!CommandsLeft
    <3>. QED
      BY <3>1, RedisAssumption
      DEF CommandsByPlace, StepsLeft, Beyond, MostCommands
  <2>3. CASE RecordCommand(h)
    <3>1. /\ RP!CommandsLeft(h)' < RP!CommandsLeft(h)
          /\ pc'[h] = pc[h] /\ SessionCommandsLeft(h)' = SessionCommandsLeft(h)
      BY <2>3, RecordCommandShortens DEF SessionCommandsLeft
    <3>. QED
      BY <3>1, RedisAssumption
      DEF CommandsByPlace, StepsLeft, Beyond, MostCommands
  <2>. QED
    BY <1>2, <2>1, <2>2, <2>3 DEF StepsOf
<1>3. \/ StepsOf(h)
      \/ pc[h] = "idle" \/ pc'[h] = "idle"
      \/ pc'[h] = pc[h] /\ op'[h] = op[h] /\ told'[h] = told[h]
         /\ read'[h] = read[h] /\ at'[h] = at[h] /\ resends'[h] = resends[h]
  <2>1. ASSUME HandlerSteps(h)
        PROVE  StepsOf(h) \/ pc[h] = "idle" \/ pc'[h] = "idle"
    BY <2>1, Typing DEF HandlerSteps, Visiting, Post, DeleteOrGet, Arrive, Done, Goto,
                        StepsOf
  <2>2. ASSUME NEW g \in Handler, g # h,
               HandlerSteps(g) \/ SessionCommand(g) \/ RecordCommand(g)
        PROVE  /\ pc'[h] = pc[h] /\ op'[h] = op[h] /\ told'[h] = told[h]
               /\ read'[h] = read[h] /\ at'[h] = at[h]
               /\ resends'[h] = resends[h]
    BY <2>2, OthersMayWait
  <2>. QED
    BY <2>1, <2>2, OutsideSpendsNothing DEF DeploymentNext, StepsOf
<1>4. CASE /\ pc'[h] = pc[h] /\ op'[h] = op[h] /\ told'[h] = told[h]
           /\ read'[h] = read[h] /\ at'[h] = at[h] /\ resends'[h] = resends[h]
  <2>1. StepsLeft(h)' = StepsLeft(h)
    BY <1>4 DEF StepsLeft, SessionCommandsLeft, RP!CommandsLeft, Beyond,
                MostCommands
  <2>. QED
    BY <1>1, <1>2, <2>1
<1>5. CASE pc'[h] = "idle"
  <2>1. StepsLeft(h)' = 0
    BY <1>5 DEF CommandsByPlace, StepsLeft, Beyond
  <2>. QED
    BY <1>1, <1>2, <2>1
<1>. QED
  BY <1>1, <1>2, <1>3, <1>4, <1>5

(* A request ends after 2 * (MaxResends + 1) + 6 steps of its handler at   *)
(* most, Redis commands and their repeats included: no command of another  *)
(* request, no key that expires and no change at the platform makes        *)
(* authenticate, serveTool or a store start over.                          *)
THEOREM NearerHolds == DeploymentSpec => []BoundedRequests /\ NearerOverRedis
<1>1. Parts /\ CommandsByPlace /\ CommandsByPlace' /\ [DeploymentNext]_deployment
        => [\A h \in Handler :
               /\ StepsOf(h) => StepsLeft(h)' < StepsLeft(h)
               /\ StepsLeft(h)' > StepsLeft(h) => pc[h] = "idle"]_deployment
  BY Spending
<1>. QED
  BY <1>1, Placing, RequestsBounded, Deployment, PTL
  DEF NearerOverRedis, DeploymentSpec

==============================================================================
