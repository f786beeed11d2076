------------------------------- MODULE Sessions -------------------------------
(***************************************************************************)
(* What a session store promises: Issue hands out an id never used before  *)
(* for an actor, Get returns that actor while the session lives, and a     *)
(* Delete ends it for good.  Each operation is atomic, as under the mutex  *)
(* of the in-memory store; a session may also run out, and an operation of *)
(* a networked store may fail with or without its effect.                  *)
(***************************************************************************)
CONSTANTS Handler,   \* concurrent requests
          Session,   \* session ids; NewID draws 32 random bytes
          Actor,     \* actor and policy bits cached with a session
          None

VARIABLES live,      \* live[s]: the actor session s stands for, or None
          used,      \* ids drawn so far
          known,     \* ids a caller has been told
          op,        \* op[h]: the operation h is in, or None
          answer     \* answer[h]: what it returned, or None

vars == <<live, used, known, op, answer>>

Op == [kind : {"issue"}, id : Session, actor : Actor]
        \cup [kind : {"get", "delete"}, id : Session]
Answer == [kind : {"actor"}, actor : Actor]
            \cup [kind : {"issued", "missing", "deleted", "error"}]

Pending(h, kind) == op[h] # None /\ op[h].kind = kind /\ answer[h] = None

Init ==
    /\ live = [s \in Session |-> None]
    /\ used = {}
    /\ known = {}
    /\ op = [h \in Handler |-> None]
    /\ answer = [h \in Handler |-> None]

(* A handler calls the store.  The id of a new session is drawn here; an id*)
(* that is asked for or deleted is one that was handed out, since no other *)
(* can be guessed.                                                         *)
Call(h, o) ==
    /\ op[h] = None
    /\ \/ o.kind = "issue" /\ o.id \notin used
       \/ o.kind # "issue" /\ o.id \in known
    /\ op' = [op EXCEPT ![h] = o]
    /\ used' = used \cup {o.id}
    /\ UNCHANGED <<live, known, answer>>

Tell(h, a) ==
    /\ answer' = [answer EXCEPT ![h] = a]
    /\ known' = IF a.kind = "issued" THEN known \cup {op[h].id} ELSE known
    /\ UNCHANGED <<used, op>>

Issue(h) ==
    /\ Pending(h, "issue")
    /\ live' = [live EXCEPT ![op[h].id] = op[h].actor]
    /\ Tell(h, [kind |-> "issued"]) \/ Tell(h, [kind |-> "error"])

Get(h) ==
    /\ Pending(h, "get")
    /\ \/ /\ live[op[h].id] # None
          /\ Tell(h, [kind |-> "actor", actor |-> live[op[h].id]])
       \/ Tell(h, [kind |-> "missing"])
    /\ UNCHANGED live

Delete(h) ==
    /\ Pending(h, "delete")
    /\ live' = [live EXCEPT ![op[h].id] = None]
    /\ Tell(h, [kind |-> "deleted"]) \/ Tell(h, [kind |-> "error"])

(* An operation that could not reach the store.                            *)
Fail(h) ==
    /\ Pending(h, "issue") \/ Pending(h, "delete")
    /\ Tell(h, [kind |-> "error"])
    /\ UNCHANGED live

Return(h) ==
    /\ answer[h] # None
    /\ op' = [op EXCEPT ![h] = None]
    /\ answer' = [answer EXCEPT ![h] = None]
    /\ UNCHANGED <<live, used, known>>

(* Any sessions may run out together.                                      *)
RunOut ==
    /\ \E S \in SUBSET Session :
          live' = [s \in Session |-> IF s \in S THEN None ELSE live[s]]
    /\ UNCHANGED <<used, known, op, answer>>

Next ==
    \/ \E h \in Handler :
          \/ \E o \in Op : Call(h, o)
          \/ Issue(h)
          \/ Get(h)
          \/ Delete(h)
          \/ Fail(h)
          \/ Return(h)
    \/ RunOut

Spec == Init /\ [][Next]_vars
==============================================================================
