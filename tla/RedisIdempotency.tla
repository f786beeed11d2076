--------------------------- MODULE RedisIdempotency ---------------------------
(***************************************************************************)
(* The idempotency store the gateway runs on: Resolve is SET NX with a     *)
(* 24 hour TTL and, when the key was taken, a separate GET.  Between the   *)
(* two the record may lapse and another caller may take the key; either    *)
(* command may fail, and the client library sends a command again when its *)
(* reply is lost, so a SET NX may meet the record its own first copy wrote.*)
(***************************************************************************)
EXTENDS Naturals

CONSTANTS Caller, Key, Hash, Response, None,
          MaxResends  \* times the client library repeats a lost command

ASSUME ResendsAssumption == MaxResends \in Nat

ASSUME NoneAssumption ==
    /\ None \notin [RequestHash : Hash, Response : Response]
    /\ None \notin [key : Key, hash : Hash, response : Response]
    /\ None \notin [kind : {"ok"}, response : Response]
                     \cup [kind : {"conflict", "error"}]

VARIABLES records,   \* the keyspace of Redis
          call,      \* the arguments of each caller's Resolve
          answer,    \* what Resolve returned
          at,        \* at[c]: the command c sends next
          resends,   \* resends[c]: repeats of the current command so far
          offered,   \* history: every <<key, hash, response>> ever asked
          current    \* history: callers told "ok" by a record still standing

vars == <<records, call, answer, at, resends, offered, current>>

Abstract == INSTANCE Idempotency

Record == Abstract!Record
Call == Abstract!Call
Answer == Abstract!Answer

Init ==
    /\ Abstract!Init
    /\ at = [c \in Caller |-> "idle"]
    /\ resends = [c \in Caller |-> 0]
    /\ offered = {}
    /\ current = {}

(* A handler with an answer from the platform calls Resolve.               *)
Ask(c, q) ==
    /\ at[c] = "idle"
    /\ call' = [call EXCEPT ![c] = q]
    /\ at' = [at EXCEPT ![c] = "setnx"]
    /\ resends' = [resends EXCEPT ![c] = 0]
    /\ offered' = offered \cup {<<q.key, q.hash, q.response>>}
    /\ UNCHANGED <<records, answer, current>>

(* Resolve returns a to c; the caller counts as current when the record it *)
(* was answered from is standing at that moment.                           *)
Tell(c, a) ==
    /\ answer' = [answer EXCEPT ![c] = a]
    /\ at' = [at EXCEPT ![c] = "told"]
    /\ current' = IF a.kind = "ok" THEN current \cup {c} ELSE current
    /\ UNCHANGED <<call, resends, offered>>

(* Mutant: SET without NX.                                                 *)
SetOverwrites(c) ==
    /\ at[c] = "setnx"
    /\ records' = [records EXCEPT ![call[c].key] = Abstract!RecordOf(call[c])]
    /\ Tell(c, [kind |-> "ok", response |-> call[c].response])

(* SET NX finds the key free: the record is kept and the caller's own      *)
(* response returned.                                                      *)
SetNX(c) ==
    /\ at[c] = "setnx"
    /\ records[call[c].key] = None
    /\ records' = [records EXCEPT ![call[c].key] = Abstract!RecordOf(call[c])]
    /\ Tell(c, [kind |-> "ok", response |-> call[c].response])

(* SET NX finds the key taken.                                             *)
SetNXTaken(c) ==
    /\ at[c] = "setnx"
    /\ records[call[c].key] # None
    /\ at' = [at EXCEPT ![c] = "get"]
    /\ resends' = [resends EXCEPT ![c] = 0]
    /\ UNCHANGED <<records, call, answer, offered, current>>

(* Mutant: the hashes are not compared.                                    *)
GetWithoutHash(c) ==
    /\ at[c] = "get"
    /\ records[call[c].key] # None
    /\ Tell(c, [kind |-> "ok", response |-> records[call[c].key].Response])
    /\ UNCHANGED records

(* GET, and the comparison of hashes that follows it.                      *)
Get(c) ==
    /\ at[c] = "get"
    /\ records[call[c].key] # None
    /\ Tell(c, Abstract!Verdict(records[call[c].key], call[c]))
    /\ UNCHANGED records

(* Mutants: a record that lapsed is a conflict, or a reason to start over. *)
GetGoneConflicts(c) ==
    /\ at[c] = "get"
    /\ records[call[c].key] = None
    /\ Tell(c, [kind |-> "conflict"])
    /\ UNCHANGED records

GetGoneRestarts(c) ==
    /\ at[c] = "get"
    /\ records[call[c].key] = None
    /\ at' = [at EXCEPT ![c] = "setnx"]
    /\ resends' = [resends EXCEPT ![c] = 0]
    /\ UNCHANGED <<records, call, answer, offered, current>>

(* GET of a key that lapsed after SET NX saw it: redis.Nil is an error.    *)
GetGone(c) ==
    /\ at[c] = "get"
    /\ records[call[c].key] = None
    /\ Tell(c, [kind |-> "error"])
    /\ UNCHANGED records

(* The reply to a command is lost.  A SET NX may have been executed.       *)
MaybeWritten(c) ==
    \/ UNCHANGED records
    \/ /\ at[c] = "setnx"
       /\ records[call[c].key] = None
       /\ records' = [records EXCEPT
                        ![call[c].key] = Abstract!RecordOf(call[c])]

(* Mutant: a command is repeated without end.                              *)
ResendForever(c) ==
    /\ at[c] \in {"setnx", "get"}
    /\ resends' = [resends EXCEPT ![c] = @ + 1]
    /\ MaybeWritten(c)
    /\ UNCHANGED <<call, answer, at, offered, current>>

Resend(c) ==
    /\ at[c] \in {"setnx", "get"}
    /\ resends[c] < MaxResends
    /\ resends' = [resends EXCEPT ![c] = @ + 1]
    /\ MaybeWritten(c)
    /\ UNCHANGED <<call, answer, at, offered, current>>

GiveUp(c) ==
    /\ at[c] \in {"setnx", "get"}
    /\ resends[c] = MaxResends
    /\ MaybeWritten(c)
    /\ Tell(c, [kind |-> "error"])

(* The handler replies to its client and is done with the answer.          *)
Return(c) ==
    /\ at[c] = "told"
    /\ call' = [call EXCEPT ![c] = None]
    /\ answer' = [answer EXCEPT ![c] = None]
    /\ at' = [at EXCEPT ![c] = "idle"]
    /\ current' = current \ {c}
    /\ UNCHANGED <<records, resends, offered>>

(* The TTL of a record runs out.                                           *)
Lapse(k) ==
    /\ records[k] # None
    /\ records' = [records EXCEPT ![k] = None]
    /\ current' = {c \in current : call[c].key # k}
    /\ UNCHANGED <<call, answer, at, resends, offered>>

Resolving(c) ==
    \/ SetNX(c)
    \/ SetNXTaken(c)
    \/ Get(c)
    \/ GetGone(c)
    \/ Resend(c)
    \/ GiveUp(c)

Next ==
    \/ \E c \in Caller :
          \/ \E q \in Call : Ask(c, q)
          \/ Resolving(c)
          \/ Return(c)
    \/ \E k \in Key : Lapse(k)

Spec == Init /\ [][Next]_vars

(* A handler keeps running until Resolve returns to it: the commands carry *)
(* no cancellation and each ends in a reply or a timeout.                  *)
FairSpec == Spec /\ \A c \in Caller : WF_vars(Resolving(c))

------------------------------------------------------------------------------
TypeOK ==
    /\ records \in [Key -> Record \cup {None}]
    /\ call \in [Caller -> Call \cup {None}]
    /\ answer \in [Caller -> Answer \cup {None}]
    /\ at \in [Caller -> {"idle", "setnx", "get", "told"}]
    /\ resends \in [Caller -> 0..MaxResends]
    /\ offered \subseteq Key \X Hash \X Response
    /\ current \subseteq Caller

(* While a record stands, every request it answered got one and the same   *)
(* response, and all of them carried one and the same request hash,        *)
(* whatever the platform answered each of them (redisstore Resolve).       *)
Agreement ==
    \A c, d \in current : call[c].key = call[d].key =>
        /\ answer[c].response = answer[d].response
        /\ call[c].hash = call[d].hash

(* A request is only ever answered with what the platform said to a request*)
(* of the same actor, key and hash: never with another call's result.      *)
AnswersItsOwnRequest ==
    \A c \in Caller :
        answer[c] # None /\ answer[c].kind = "ok" =>
            <<call[c].key, call[c].hash, answer[c].response>> \in offered

(* idempotency_conflict is only ever said when the key really was used with*)
(* another hash: a call that meets its own repeated write is no conflict.  *)
ConflictIsReal ==
    \A c \in Caller :
        answer[c] # None /\ answer[c].kind = "conflict" =>
            \E o \in offered : o[1] = call[c].key /\ o[2] # call[c].hash

(***************************************************************************)
(* The inductive invariant: the place of each caller tells what it holds,  *)
(* a current answer is the standing record's, and every record, call and   *)
(* answer goes back to something offered.                                  *)
(***************************************************************************)
Shape ==
    \A c \in Caller :
        /\ (call[c] = None) <=> (at[c] = "idle")
        /\ (answer[c] = None) <=> (at[c] # "told")
        /\ c \in current => at[c] = "told" /\ answer[c].kind = "ok"

Standing ==
    \A c \in current :
        /\ records[call[c].key] # None
        /\ records[call[c].key].RequestHash = call[c].hash
        /\ records[call[c].key].Response = answer[c].response

Provenance ==
    /\ \A c \in Caller : call[c] # None =>
          <<call[c].key, call[c].hash, call[c].response>> \in offered
    /\ \A k \in Key : records[k] # None =>
          <<k, records[k].RequestHash, records[k].Response>> \in offered

IInv ==
    /\ TypeOK
    /\ Shape
    /\ Standing
    /\ Provenance
    /\ AnswersItsOwnRequest
    /\ ConflictIsReal

(* A record that stands is never replaced: it can only lapse.              *)
FirstWriterWins ==
    [][\A k \in Key : records[k] # None => records'[k] \in {records[k], None}]_vars

(* The store does what Idempotency promises.                               *)
ImplementsAbstract == Abstract!Spec

(* Every Resolve returns.                                                  *)
EveryResolveReturns ==
    \A c \in Caller : at[c] = "setnx" ~> at[c] = "told"
==============================================================================
