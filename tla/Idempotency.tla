----------------------------- MODULE Idempotency -----------------------------
(***************************************************************************)
(* What an idempotency store promises its callers: the first Resolve on a  *)
(* key keeps its record, every later one on the same key is answered from  *)
(* that record, and a different request hash is a conflict.  The decision  *)
(* is atomic, as under the mutex of the in-memory store.  Two liberties    *)
(* make room for a store across a network: a record may lapse, and a call  *)
(* may fail or have written its record before its caller hears of it.      *)
(***************************************************************************)
CONSTANTS Caller,    \* concurrent requests being resolved
          Key,       \* "<actor id>:<Idempotency-Key>"
          Hash,      \* request hashes
          Response,  \* what the platform answered
          None       \* no record, no answer

VARIABLES records,   \* records[k]: the record kept for key k, or None
          call,      \* call[c]: what c passed to Resolve, or None
          answer     \* answer[c]: what Resolve returned to c, or None

vars == <<records, call, answer>>

Record == [RequestHash : Hash, Response : Response]
Call == [key : Key, hash : Hash, response : Response]
Answer == [kind : {"ok"}, response : Response]
            \cup [kind : {"conflict", "error"}]

Waiting(c) == call[c] # None /\ answer[c] = None

(* The record a call would keep, and the answer a standing record gives.   *)
RecordOf(q) == [RequestHash |-> q.hash, Response |-> q.response]

Verdict(rec, q) ==
    IF rec.RequestHash # q.hash
    THEN [kind |-> "conflict"]
    ELSE [kind |-> "ok", response |-> rec.Response]

Init ==
    /\ records = [k \in Key |-> None]
    /\ call = [c \in Caller |-> None]
    /\ answer = [c \in Caller |-> None]

Ask(c, q) ==
    /\ call[c] = None
    /\ call' = [call EXCEPT ![c] = q]
    /\ UNCHANGED <<records, answer>>

(* Resolve of the in-memory store: one critical section.                   *)
Resolve(c) ==
    /\ Waiting(c)
    /\ LET q == call[c] IN
       \/ /\ records[q.key] = None
          /\ records' = [records EXCEPT ![q.key] = RecordOf(q)]
          /\ answer' = [answer EXCEPT ![c] = Verdict(RecordOf(q), q)]
       \/ /\ records[q.key] # None
          /\ answer' = [answer EXCEPT ![c] = Verdict(records[q.key], q)]
          /\ UNCHANGED records
    /\ UNCHANGED call

(* The record is kept, but the word of it has not reached the caller.      *)
WriteUnheard(c) ==
    /\ Waiting(c)
    /\ records[call[c].key] = None
    /\ records' = [records EXCEPT ![call[c].key] = RecordOf(call[c])]
    /\ UNCHANGED <<call, answer>>

(* A failing call may or may not have written its record first.            *)
Fail(c) ==
    /\ Waiting(c)
    /\ answer' = [answer EXCEPT ![c] = [kind |-> "error"]]
    /\ \/ UNCHANGED records
       \/ /\ records[call[c].key] = None
          /\ records' = [records EXCEPT ![call[c].key] = RecordOf(call[c])]
    /\ UNCHANGED call

(* The caller goes on with its answer.                                     *)
Return(c) ==
    /\ answer[c] # None
    /\ call' = [call EXCEPT ![c] = None]
    /\ answer' = [answer EXCEPT ![c] = None]
    /\ UNCHANGED records

(* A record reaches the end of its life.                                   *)
Lapse(k) ==
    /\ records[k] # None
    /\ records' = [records EXCEPT ![k] = None]
    /\ UNCHANGED <<call, answer>>

Next ==
    \/ \E c \in Caller :
          \/ \E q \in Call : Ask(c, q)
          \/ Resolve(c)
          \/ WriteUnheard(c)
          \/ Fail(c)
          \/ Return(c)
    \/ \E k \in Key : Lapse(k)

Spec == Init /\ [][Next]_vars
==============================================================================
