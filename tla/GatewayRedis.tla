----------------------------- MODULE GatewayRedis -----------------------------
(***************************************************************************)
(* The endpoint as cmd/mcp-server puts it together: the handlers of Gateway*)
(* over the two stores in Redis.  A handler's call of a store begins the   *)
(* commands of RedisSessions and RedisIdempotency, those of all handlers   *)
(* interleave, keys expire between them, and only the commands decide what *)
(* the handler is told.                                                    *)
(***************************************************************************)
EXTENDS Gateway

CONSTANTS TTL,         \* lifetime in ticks of a session left alone
          MaxResends   \* times the client library repeats a lost command

ASSUME RedisAssumption == TTL \in Nat \ {0} /\ MaxResends \in Nat

VARIABLES
    left, read, ended, late, idle,      \* of RedisSessions
    at, resends, offered, standing      \* of RedisIdempotency

sessionKeys == <<left, read, ended, late, idle>>
recordKeys == <<at, resends, offered, standing>>
deployment == <<vars, sessionKeys, recordKeys>>

SessionKeys == INSTANCE RedisSessions WITH Actor <- Identity, answer <- told
RecordKeys == INSTANCE RedisIdempotency WITH
                Caller <- Handler, Key <- Actor \X IdKey, Response <- Result,
                answer <- resolved, current <- standing

DeploymentInit ==
    /\ Init
    /\ SessionKeys!Init
    /\ RecordKeys!Init

(* What a step of h's own may do to the stores: begin an operation, take   *)
(* the answer of one, or leave them alone.                                 *)
AsksSessions(h) ==
    \/ \E o \in Cache!Op : SessionKeys!Call(h, o)
    \/ SessionKeys!Return(h)
    \/ UNCHANGED <<cache, sessionKeys>>

AsksRecords(h) ==
    \/ \E q \in Store!Call : RecordKeys!Ask(h, q)
    \/ RecordKeys!Return(h)
    \/ UNCHANGED <<store, recordKeys>>

(* A step of the handler's code, as in Gateway, with what it asks of Redis. *)
HandlerSteps(h) ==
    /\ Visiting(h) \/ Working(h)
    /\ AsksSessions(h)
    /\ AsksRecords(h)

(* A command of the operation h is in.                                     *)
SessionCommand(h) ==
    /\ \/ SessionKeys!SetEx(h)
       \/ SessionKeys!SetExFails(h)
       \/ SessionKeys!GetFinds(h)
       \/ SessionKeys!GetMisses(h)
       \/ SessionKeys!Expire(h)
       \/ SessionKeys!Del(h)
       \/ SessionKeys!DelFails(h)
    /\ UNCHANGED <<platform, handlers, store, history, recordKeys>>

RecordCommand(h) ==
    /\ RecordKeys!Resolving(h)
    /\ current' = IF resolved'[h] # None /\ resolved'[h].kind = "ok"
                  THEN current \cup {h} ELSE current
    /\ UNCHANGED <<platform, handlers, cache, gone, held, sessionKeys>>

(* TTLs run down and out.                                                  *)
Tick ==
    /\ SessionKeys!Tick
    /\ UNCHANGED <<platform, handlers, store, history, recordKeys>>

RecordRunsOut(k) ==
    /\ RecordKeys!Lapse(k)
    /\ current' = {h \in current : RecordKey(h) # k}
    /\ UNCHANGED <<platform, handlers, cache, gone, held, sessionKeys>>


DeploymentNext ==
    \/ \E h \in Handler :
          \/ HandlerSteps(h)
          \/ SessionCommand(h)
          \/ RecordCommand(h)
    \/ Tick
    \/ \E k \in Actor \X IdKey : RecordRunsOut(k)
    \/ PlatformChanges /\ UNCHANGED <<sessionKeys, recordKeys>>

DeploymentSpec == DeploymentInit /\ [][DeploymentNext]_deployment

(***************************************************************************)
(* The endpoint over Redis is the endpoint over the two promises: with     *)
(* read[h] the answer to h's Get is decided, and its EXPIRE is invisible;  *)
(* every other command is an operation of a store or changes nothing that  *)
(* the promise speaks of.                                                  *)
(***************************************************************************)
promised ==
    [h \in Handler |-> IF read[h] # None
                       THEN [kind |-> "actor", actor |-> read[h]]
                       ELSE told[h]]

Endpoint == INSTANCE Gateway WITH told <- promised

ImplementsGateway == Endpoint!Spec

(* Once a DELETE has been confirmed, no POST that arrives afterwards is    *)
(* taken for the session's actor, whatever other requests were doing with  *)
(* the session at the time (authenticate, server.go).                      *)
DeletedSessionsAdmitNobody ==
    \A h \in late : req[h] # None /\ req[h].http = "POST" /\ onSession(req[h]) =>
        who[h] = None

(* What a keyed call is answered with was obtained for a call of the same  *)
(* account with the same key and params: its own, or one it repeats.       *)
Resolved(h) == reply[h] # None /\ who[h] # None /\ req[h].key # None

RepliesAreOwn ==
    \A h \in Handler : Resolved(h) /\ reply[h].code = "ok" =>
        <<RecordKey(h), req[h].hash, reply[h].result>> \in offered

(* A client is told "idempotency_conflict" only if its account has used the*)
(* key for a call with other params.                                       *)
ConflictRepliesAreReal ==
    \A h \in Handler : Resolved(h) /\ reply[h].code = "idempotency_conflict" =>
        \E o \in offered : o[1] = RecordKey(h) /\ o[2] # req[h].hash
==============================================================================
