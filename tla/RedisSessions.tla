----------------------------- MODULE RedisSessions -----------------------------
(***************************************************************************)
(* The session store the gateway runs on.  Issue is SET with a TTL of 30   *)
(* minutes, Delete is DEL, and Get is two commands: GET, then an EXPIRE    *)
(* that restarts the TTL and whose error is dropped.  A DELETE of the same *)
(* session or the end of its TTL may fall between the two.  Every command  *)
(* here may be repeated freely, so a resend is a delay, and a command whose*)
(* reply never comes may have taken effect.                                *)
(***************************************************************************)
EXTENDS Naturals

CONSTANTS Handler, Session, Actor, None,
          TTL         \* lifetime in ticks of a session left alone

ASSUME TTLAssumption == TTL \in Nat \ {0}

ASSUME NoneAssumption ==
    /\ None \notin Actor
    /\ None \notin [kind : {"issue"}, id : Session, actor : Actor]
                     \cup [kind : {"get", "delete"}, id : Session]
    /\ None \notin [kind : {"actor"}, actor : Actor]
                     \cup [kind : {"issued", "missing", "deleted", "error"}]

VARIABLES live,      \* live[s]: the value at session:s, or None
          left,      \* left[s]: ticks until the TTL of session:s runs out
          used, known, op, answer,
          read,      \* read[h]: the actor GET returned, while EXPIRE is due
          ended,     \* history: sessions whose deletion was confirmed
          late,      \* history: handlers whose call began after that
          idle       \* history: ticks since a handler was last at work on s

vars == <<live, left, used, known, op, answer, read, ended, late, idle>>

Abstract == INSTANCE Sessions

Pending(h, kind) == Abstract!Pending(h, kind) /\ read[h] = None

Init ==
    /\ Abstract!Init
    /\ left = [s \in Session |-> 0]
    /\ read = [h \in Handler |-> None]
    /\ ended = {}
    /\ late = {}
    /\ idle = [s \in Session |-> 0]

(* Mutant: an id that was drawn before may be drawn again.                 *)
CallReusingIds(h, o) ==
    /\ op[h] = None
    /\ op' = [op EXCEPT ![h] = o]
    /\ used' = used \cup {o.id}
    /\ late' = IF o.id \in ended THEN late \cup {h} ELSE late \ {h}
    /\ idle' = [idle EXCEPT ![o.id] = 0]
    /\ UNCHANGED <<live, left, known, answer, read, ended>>

Call(h, o) ==
    /\ Abstract!Call(h, o)
    /\ late' = IF o.id \in ended THEN late \cup {h} ELSE late \ {h}
    /\ idle' = [idle EXCEPT ![o.id] = 0]
    /\ UNCHANGED <<left, read, ended>>

(* SET session:<id> <actor> EX ttl.                                        *)
SetEx(h) ==
    /\ Pending(h, "issue")
    /\ live' = [live EXCEPT ![op[h].id] = op[h].actor]
    /\ left' = [left EXCEPT ![op[h].id] = TTL]
    /\ \/ Abstract!Tell(h, [kind |-> "issued"])
       \/ Abstract!Tell(h, [kind |-> "error"])
    /\ UNCHANGED <<read, ended, late, idle>>

SetExFails(h) ==
    /\ Pending(h, "issue")
    /\ Abstract!Tell(h, [kind |-> "error"])
    /\ UNCHANGED <<live, left, read, ended, late, idle>>

(* GET session:<id> finds the actor; EXPIRE is still to come.              *)
GetFinds(h) ==
    /\ Pending(h, "get")
    /\ live[op[h].id] # None
    /\ read' = [read EXCEPT ![h] = live[op[h].id]]
    /\ UNCHANGED <<live, left, used, known, op, answer, ended, late, idle>>

(* GET finds nothing, or fails: both are "no such session" to the caller.  *)
GetMisses(h) ==
    /\ Pending(h, "get")
    /\ Abstract!Tell(h, [kind |-> "missing"])
    /\ UNCHANGED <<live, left, read, ended, late, idle>>

(* Mutant: the TTL is added to what is left of it.                         *)
RefreshAdds(h) ==
    left' = IF live[op[h].id] # None
            THEN [left EXCEPT ![op[h].id] = @ + TTL]
            ELSE left

(* EXPIRE restarts the TTL of a key that is still there, and creates none. *)
Refresh(h) ==
    left' = IF live[op[h].id] # None
            THEN [left EXCEPT ![op[h].id] = TTL]
            ELSE left

(* Mutant: the session is written again, not only its TTL.                 *)
ExpireRewrites(h) ==
    /\ read[h] # None
    /\ live' = [live EXCEPT ![op[h].id] = read[h]]
    /\ left' = [left EXCEPT ![op[h].id] = TTL]
    /\ Abstract!Tell(h, [kind |-> "actor", actor |-> read[h]])
    /\ read' = [read EXCEPT ![h] = None]
    /\ UNCHANGED <<ended, late, idle>>

(* EXPIRE, whose outcome the code ignores; the actor read is returned.     *)
Expire(h) ==
    /\ read[h] # None
    /\ Refresh(h) \/ UNCHANGED left
    /\ Abstract!Tell(h, [kind |-> "actor", actor |-> read[h]])
    /\ read' = [read EXCEPT ![h] = None]
    /\ UNCHANGED <<live, ended, late, idle>>

(* DEL session:<id>.                                                       *)
Del(h) ==
    /\ Pending(h, "delete")
    /\ live' = [live EXCEPT ![op[h].id] = None]
    /\ left' = [left EXCEPT ![op[h].id] = 0]
    /\ \/ /\ Abstract!Tell(h, [kind |-> "deleted"])
          /\ ended' = ended \cup {op[h].id}
       \/ /\ Abstract!Tell(h, [kind |-> "error"])
          /\ UNCHANGED ended
    /\ UNCHANGED <<read, late, idle>>

DelFails(h) ==
    /\ Pending(h, "delete")
    /\ Abstract!Tell(h, [kind |-> "error"])
    /\ UNCHANGED <<live, left, read, ended, late, idle>>

Return(h) ==
    /\ Abstract!Return(h)
    /\ UNCHANGED <<left, read, ended, late, idle>>

Busy(s) == \E h \in Handler : op[h] # None /\ op[h].id = s

(* Time passes: a session whose TTL runs out is gone.                      *)
Tick ==
    /\ left' = [s \in Session |-> IF left[s] > 0 THEN left[s] - 1 ELSE 0]
    /\ live' = [s \in Session |-> IF left[s] > 1 THEN live[s] ELSE None]
    /\ idle' = [s \in Session |->
                  IF Busy(s) THEN 0
                  ELSE IF idle[s] < TTL THEN idle[s] + 1 ELSE TTL]
    /\ UNCHANGED <<used, known, op, answer, read, ended, late>>

Next ==
    \/ \E h \in Handler :
          \/ \E o \in Abstract!Op : Call(h, o)
          \/ SetEx(h)
          \/ SetExFails(h)
          \/ GetFinds(h)
          \/ GetMisses(h)
          \/ Expire(h)
          \/ Del(h)
          \/ DelFails(h)
          \/ Return(h)
    \/ Tick

Spec == Init /\ [][Next]_vars

------------------------------------------------------------------------------
TypeOK ==
    /\ live \in [Session -> Actor \cup {None}]
    /\ left \in [Session -> 0..TTL]
    /\ known \subseteq used /\ used \subseteq Session
    /\ op \in [Handler -> Abstract!Op \cup {None}]
    /\ answer \in [Handler -> Abstract!Answer \cup {None}]
    /\ read \in [Handler -> Actor \cup {None}]
    /\ ended \subseteq Session
    /\ late \subseteq Handler
    /\ idle \in [Session -> 0..TTL]

(* Once a DELETE has been answered 200 the session authenticates no request*)
(* that begins afterwards, though another request may have been between    *)
(* GET and EXPIRE on it when it was deleted.                               *)
DeleteSticks ==
    \A h \in late : answer[h] # None => answer[h].kind # "actor"

(* A session no request has worked on for a whole TTL is gone.             *)
IdleSessionsEnd ==
    \A s \in Session : idle[s] = TTL => live[s] = None

(***************************************************************************)
(* The inductive invariant behind the two: what a handler holds agrees with*)
(* the operation it is in, an id is drawn once, a deleted session stays    *)
(* empty because nothing can write it again, and the TTL of a session at   *)
(* work has just been restarted.                                           *)
(***************************************************************************)
Shape ==
    \A h \in Handler :
        /\ answer[h] # None => op[h] # None
        /\ answer[h] # None /\ answer[h].kind = "actor" => op[h].kind = "get"
        /\ read[h] # None =>
              op[h] # None /\ op[h].kind = "get" /\ answer[h] = None

Issuing(h, s) == op[h] # None /\ op[h].kind = "issue" /\ op[h].id = s

Ids ==
    /\ \A h \in Handler : op[h] # None => op[h].id \in used
    /\ \A s \in Session : live[s] # None => s \in used
    /\ \A g, h \in Handler, s \in Session :
          Issuing(g, s) /\ Issuing(h, s) => g = h
    /\ \A h \in Handler, s \in known : Issuing(h, s) => answer[h] # None
    /\ \A h \in Handler, s \in Session :
          Issuing(h, s) /\ answer[h] = None => live[s] = None
    /\ \A h \in Handler : op[h] # None /\ op[h].kind # "issue" =>
          op[h].id \in known

Ended ==
    /\ ended \subseteq known
    /\ \A s \in ended : live[s] = None
    /\ \A h \in late : op[h] # None => op[h].id \in ended /\ read[h] = None

Timing ==
    \A s \in Session :
        /\ live[s] # None <=> left[s] > 0
        /\ left[s] > 0 => left[s] + idle[s] <= TTL
        /\ Busy(s) => idle[s] = 0

IInv ==
    /\ TypeOK
    /\ Shape
    /\ Ids
    /\ Ended
    /\ DeleteSticks
    /\ Timing

(* While a session lives it stands for one actor: no request that reuses it*)
(* can be taken for another caller.                                        *)
OneActorPerSession ==
    [][\A s \in Session : live[s] # None => live'[s] \in {live[s], None}]_vars

(***************************************************************************)
(* The refinement: with read[h] the answer is already decided, so the      *)
(* abstract Get happens at GET and the EXPIRE is invisible.                *)
(***************************************************************************)
Promise ==
    INSTANCE Sessions WITH answer <-
        [h \in Handler |-> IF read[h] # None
                           THEN [kind |-> "actor", actor |-> read[h]]
                           ELSE answer[h]]

ImplementsAbstract == Promise!Spec
==============================================================================
