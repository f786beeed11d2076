-------------------------- MODULE RedisSessionsProofs --------------------------
(***************************************************************************)
(* Proofs about RedisSessions for any handlers, sessions, actors and TTL:  *)
(* the inductive invariant, that a deletion is final, that an idle session *)
(* ends, and that the two-command Get implements the atomic one.           *)
(***************************************************************************)
EXTENDS RedisSessions, TLAPS

(* The operations and answers of the abstract store, opened once.          *)
LEMMA Sets ==
    /\ Abstract!Op = [kind : {"issue"}, id : Session, actor : Actor]
                        \cup [kind : {"get", "delete"}, id : Session]
    /\ Abstract!Answer = [kind : {"actor"}, actor : Actor]
          \cup [kind : {"issued", "missing", "deleted", "error"}]
BY DEF Abstract!Op, Abstract!Answer

(* The empty store satisfies the invariant.                                *)
LEMMA InitInv == Init => IInv
BY TTLAssumption
DEF Init, Abstract!Init, IInv, TypeOK, Shape, Ids, Issuing, Ended,
    DeleteSticks, Timing, Busy

(* Issue, Get or Delete is called.                                         *)
LEMMA CallInv ==
    ASSUME IInv, NEW h \in Handler, NEW o \in Abstract!Op, Call(h, o)
    PROVE  IInv'
<1>. USE Sets, NoneAssumption, TTLAssumption
<1>1. TypeOK'
  BY DEF IInv, TypeOK, Shape, Call, Abstract!Call
<1>2. Shape'
  BY DEF IInv, TypeOK, Shape, Call, Abstract!Call
<1>3. Ids'
  BY DEF IInv, TypeOK, Shape, Ids, Issuing, Call, Abstract!Call
<1>4. Ended'
  BY DEF IInv, TypeOK, Shape, Ended, Ids, Call, Abstract!Call
<1>5. DeleteSticks'
  BY DEF IInv, TypeOK, Shape, DeleteSticks, Ended, Call, Abstract!Call
<1>6. Timing'
  BY DEF IInv, TypeOK, Shape, Timing, Busy, Call, Abstract!Call
<1>. QED
  BY <1>1, <1>2, <1>3, <1>4, <1>5, <1>6 DEF IInv

(* SET writes the session with its TTL.                                    *)
LEMMA SetExInv ==
    ASSUME IInv, NEW h \in Handler, SetEx(h)
    PROVE  IInv'
<1>. USE Sets, NoneAssumption, TTLAssumption
<1>1. TypeOK'
  <2>1. /\ op[h].id \in Session /\ op[h].id \in used
        /\ op[h].actor \in Actor
    BY DEF IInv, TypeOK, Ids, SetEx, Pending, Abstract!Pending
  <2>2. /\ live' \in [Session -> Actor \cup {None}]
        /\ left' \in [Session -> 0..TTL]
    BY <2>1 DEF IInv, TypeOK, SetEx
  <2>3. /\ answer' \in [Handler -> Abstract!Answer \cup {None}]
        /\ known' \subseteq used' /\ used' \subseteq Session
    BY <2>1 DEF IInv, TypeOK, SetEx, Abstract!Tell
  <2>. QED
    BY <2>2, <2>3 DEF IInv, TypeOK, SetEx, Abstract!Tell
<1>2. Shape'
  BY DEF IInv, TypeOK, Shape, SetEx, Pending, Abstract!Pending,
         Abstract!Tell
<1>3. Ids'
  BY DEF IInv, TypeOK, Shape, Ids, Issuing, SetEx, Pending,
         Abstract!Pending, Abstract!Tell
<1>4. Ended'
  BY DEF IInv, TypeOK, Shape, Ended, Ids, Issuing, SetEx, Pending,
         Abstract!Pending, Abstract!Tell
<1>5. DeleteSticks'
  <2>1. \/ answer' = [answer EXCEPT ![h] = [kind |-> "issued"]]
        \/ answer' = [answer EXCEPT ![h] = [kind |-> "error"]]
    BY DEF SetEx, Abstract!Tell
  <2>2. answer'[h].kind # "actor"
    BY <2>1 DEF IInv, TypeOK
  <2>. QED
    BY <2>1, <2>2 DEF IInv, TypeOK, DeleteSticks, SetEx
<1>6. Timing'
  BY DEF IInv, TypeOK, Shape, Timing, Busy, SetEx, Pending,
         Abstract!Pending, Abstract!Tell
<1>. QED
  BY <1>1, <1>2, <1>3, <1>4, <1>5, <1>6 DEF IInv

(* SET fails without a trace.                                              *)
LEMMA SetExFailsInv ==
    ASSUME IInv, NEW h \in Handler, SetExFails(h)
    PROVE  IInv'
<1>. USE Sets, NoneAssumption, TTLAssumption
<1>1. TypeOK'
  BY DEF IInv, TypeOK, Shape, SetExFails, Pending, Abstract!Pending,
         Abstract!Tell
<1>2. Shape'
  BY DEF IInv, TypeOK, Shape, SetExFails, Pending, Abstract!Pending,
         Abstract!Tell
<1>3. Ids'
  BY DEF IInv, TypeOK, Shape, Ids, Issuing, SetExFails, Pending,
         Abstract!Pending, Abstract!Tell
<1>4. Ended'
  BY DEF IInv, TypeOK, Shape, Ended, Ids, SetExFails, Pending,
         Abstract!Pending, Abstract!Tell
<1>5. DeleteSticks'
  BY DEF IInv, TypeOK, Shape, DeleteSticks, Ended, SetExFails, Pending,
         Abstract!Pending, Abstract!Tell
<1>6. Timing'
  BY DEF IInv, TypeOK, Shape, Timing, Busy, SetExFails, Pending,
         Abstract!Pending, Abstract!Tell
<1>. QED
  BY <1>1, <1>2, <1>3, <1>4, <1>5, <1>6 DEF IInv

(* GET finds the session.                                                  *)
LEMMA GetFindsInv ==
    ASSUME IInv, NEW h \in Handler, GetFinds(h)
    PROVE  IInv'
<1>. USE Sets, NoneAssumption, TTLAssumption
<1>1. TypeOK'
  BY DEF IInv, TypeOK, Shape, GetFinds, Pending, Abstract!Pending
<1>2. Shape'
  BY DEF IInv, TypeOK, Shape, GetFinds, Pending, Abstract!Pending
<1>3. Ids'
  BY DEF IInv, TypeOK, Shape, Ids, Issuing, GetFinds, Pending,
         Abstract!Pending
<1>4. Ended'
  BY DEF IInv, TypeOK, Shape, Ended, Ids, GetFinds, Pending,
         Abstract!Pending
<1>5. DeleteSticks'
  BY DEF IInv, TypeOK, Shape, DeleteSticks, Ended, GetFinds, Pending,
         Abstract!Pending
<1>6. Timing'
  BY DEF IInv, TypeOK, Shape, Timing, Busy, GetFinds, Pending,
         Abstract!Pending
<1>. QED
  BY <1>1, <1>2, <1>3, <1>4, <1>5, <1>6 DEF IInv

(* GET finds nothing, or fails.                                            *)
LEMMA GetMissesInv ==
    ASSUME IInv, NEW h \in Handler, GetMisses(h)
    PROVE  IInv'
<1>. USE Sets, NoneAssumption, TTLAssumption
<1>1. TypeOK'
  BY DEF IInv, TypeOK, Shape, GetMisses, Pending, Abstract!Pending,
         Abstract!Tell
<1>2. Shape'
  BY DEF IInv, TypeOK, Shape, GetMisses, Pending, Abstract!Pending,
         Abstract!Tell
<1>3. Ids'
  BY DEF IInv, TypeOK, Shape, Ids, Issuing, GetMisses, Pending,
         Abstract!Pending, Abstract!Tell
<1>4. Ended'
  BY DEF IInv, TypeOK, Shape, Ended, Ids, GetMisses, Pending,
         Abstract!Pending, Abstract!Tell
<1>5. DeleteSticks'
  BY DEF IInv, TypeOK, Shape, DeleteSticks, Ended, GetMisses, Pending,
         Abstract!Pending, Abstract!Tell
<1>6. Timing'
  BY DEF IInv, TypeOK, Shape, Timing, Busy, GetMisses, Pending,
         Abstract!Pending, Abstract!Tell
<1>. QED
  BY <1>1, <1>2, <1>3, <1>4, <1>5, <1>6 DEF IInv

(* EXPIRE follows a GET that found something.                              *)
LEMMA ExpireInv ==
    ASSUME IInv, NEW h \in Handler, Expire(h)
    PROVE  IInv'
<1>. USE Sets, NoneAssumption, TTLAssumption
<1>1. TypeOK'
  BY DEF IInv, TypeOK, Shape, Expire, Refresh, Abstract!Tell
<1>2. Shape'
  BY DEF IInv, TypeOK, Shape, Expire, Refresh, Abstract!Tell
<1>3. Ids'
  BY DEF IInv, TypeOK, Shape, Ids, Issuing, Expire, Refresh,
         Abstract!Tell
<1>4. Ended'
  BY DEF IInv, TypeOK, Shape, Ended, Ids, Expire, Refresh, Abstract!Tell
<1>5. DeleteSticks'
  BY DEF IInv, TypeOK, Shape, DeleteSticks, Ended, Expire, Refresh,
         Abstract!Tell
<1>6. Timing'
  BY DEF IInv, TypeOK, Shape, Timing, Busy, Expire, Refresh,
         Abstract!Tell
<1>. QED
  BY <1>1, <1>2, <1>3, <1>4, <1>5, <1>6 DEF IInv

(* DEL removes the session.                                                *)
LEMMA DelInv ==
    ASSUME IInv, NEW h \in Handler, Del(h)
    PROVE  IInv'
<1>. USE Sets, NoneAssumption, TTLAssumption
<1>1. TypeOK'
  BY DEF IInv, TypeOK, Shape, Del, Pending, Abstract!Pending,
         Abstract!Tell
<1>2. Shape'
  BY DEF IInv, TypeOK, Shape, Del, Pending, Abstract!Pending,
         Abstract!Tell
<1>3. Ids'
  BY DEF IInv, TypeOK, Shape, Ids, Issuing, Del, Pending,
         Abstract!Pending, Abstract!Tell
<1>4. Ended'
  BY DEF IInv, TypeOK, Shape, Ended, Ids, Del, Pending,
         Abstract!Pending, Abstract!Tell
<1>5. DeleteSticks'
  BY DEF IInv, TypeOK, Shape, DeleteSticks, Ended, Del, Pending,
         Abstract!Pending, Abstract!Tell
<1>6. Timing'
  BY DEF IInv, TypeOK, Shape, Timing, Busy, Del, Pending,
         Abstract!Pending, Abstract!Tell
<1>. QED
  BY <1>1, <1>2, <1>3, <1>4, <1>5, <1>6 DEF IInv

(* DEL fails without a trace.                                              *)
LEMMA DelFailsInv ==
    ASSUME IInv, NEW h \in Handler, DelFails(h)
    PROVE  IInv'
<1>. USE Sets, NoneAssumption, TTLAssumption
<1>1. TypeOK'
  BY DEF IInv, TypeOK, Shape, DelFails, Pending, Abstract!Pending,
         Abstract!Tell
<1>2. Shape'
  BY DEF IInv, TypeOK, Shape, DelFails, Pending, Abstract!Pending,
         Abstract!Tell
<1>3. Ids'
  BY DEF IInv, TypeOK, Shape, Ids, Issuing, DelFails, Pending,
         Abstract!Pending, Abstract!Tell
<1>4. Ended'
  BY DEF IInv, TypeOK, Shape, Ended, Ids, DelFails, Pending,
         Abstract!Pending, Abstract!Tell
<1>5. DeleteSticks'
  BY DEF IInv, TypeOK, Shape, DeleteSticks, Ended, DelFails, Pending,
         Abstract!Pending, Abstract!Tell
<1>6. Timing'
  BY DEF IInv, TypeOK, Shape, Timing, Busy, DelFails, Pending,
         Abstract!Pending, Abstract!Tell
<1>. QED
  BY <1>1, <1>2, <1>3, <1>4, <1>5, <1>6 DEF IInv

(* The handler goes on with its answer.                                    *)
LEMMA ReturnInv ==
    ASSUME IInv, NEW h \in Handler, Return(h)
    PROVE  IInv'
<1>. USE Sets, NoneAssumption, TTLAssumption
<1>1. TypeOK'
  BY DEF IInv, TypeOK, Shape, Return, Abstract!Return
<1>2. Shape'
  BY DEF IInv, TypeOK, Shape, Return, Abstract!Return
<1>3. Ids'
  BY DEF IInv, TypeOK, Shape, Ids, Issuing, Return, Abstract!Return
<1>4. Ended'
  BY DEF IInv, TypeOK, Shape, Ended, Ids, Return, Abstract!Return
<1>5. DeleteSticks'
  BY DEF IInv, TypeOK, Shape, DeleteSticks, Ended, Return,
         Abstract!Return
<1>6. Timing'
  BY DEF IInv, TypeOK, Shape, Timing, Busy, Return, Abstract!Return
<1>. QED
  BY <1>1, <1>2, <1>3, <1>4, <1>5, <1>6 DEF IInv

(* Time passes, and TTLs run out.                                          *)
LEMMA TickInv ==
    ASSUME IInv, Tick
    PROVE  IInv'
<1>. USE Sets, NoneAssumption, TTLAssumption
<1>1. TypeOK'
  BY DEF IInv, TypeOK, Shape, Tick
<1>2. Shape'
  BY DEF IInv, TypeOK, Shape, Tick
<1>3. Ids'
  BY DEF IInv, TypeOK, Shape, Ids, Issuing, Tick
<1>4. Ended'
  BY DEF IInv, TypeOK, Shape, Ended, Ids, Tick
<1>5. DeleteSticks'
  BY DEF IInv, TypeOK, Shape, DeleteSticks, Ended, Tick
<1>6. Timing'
  BY DEF IInv, TypeOK, Shape, Timing, Busy, Tick
<1>. QED
  BY <1>1, <1>2, <1>3, <1>4, <1>5, <1>6 DEF IInv

(* A step that changes nothing.                                            *)
LEMMA StutterInv == IInv /\ UNCHANGED vars => IInv'
BY DEF IInv, TypeOK, Shape, Ids, Issuing, Ended, DeleteSticks, Timing, Busy,
       vars

(* Every step of the store keeps the inductive invariant.                  *)
LEMMA NextInv == IInv /\ [Next]_vars => IInv'
BY CallInv, SetExInv, SetExFailsInv, GetFindsInv, GetMissesInv, ExpireInv,
   DelInv, DelFailsInv, ReturnInv, TickInv, StutterInv
DEF Next

(* The inductive invariant holds in every reachable state.                 *)
THEOREM Invariance == Spec => []IInv
BY InitInv, NextInv, PTL DEF Spec

(* Every variable of the store keeps its type.                             *)
THEOREM TypeCorrect == Spec => []TypeOK
<1>1. IInv => TypeOK
  BY DEF IInv
<1>. QED
  BY Invariance, <1>1, PTL

(* A session whose deletion was confirmed authenticates no later request.  *)
THEOREM DeleteSticksHolds == Spec => []DeleteSticks
<1>1. IInv => DeleteSticks
  BY DEF IInv
<1>. QED
  BY Invariance, <1>1, PTL

(* A session left alone for its TTL is gone.                               *)
THEOREM IdleSessionsEndHolds == Spec => []IdleSessionsEnd
<1>1. IInv => IdleSessionsEnd
  BY TTLAssumption DEF IInv, TypeOK, Timing, IdleSessionsEnd
<1>. QED
  BY Invariance, <1>1, PTL

(* A live session never passes to another actor.                           *)
THEOREM OneActorPerSessionHolds == Spec => OneActorPerSession
<1>1. ASSUME IInv, Next, NEW s \in Session, live[s] # None
      PROVE  live'[s] \in {live[s], None}
  <2>1. ASSUME NEW h \in Handler, SetEx(h)
        PROVE  live'[s] \in {live[s], None}
    BY <1>1, <2>1, Sets
    DEF IInv, TypeOK, Ids, Issuing, SetEx, Pending, Abstract!Pending
  <2>. QED
    BY <1>1, <2>1
    DEF IInv, TypeOK, Next, Call, SetExFails, GetFinds, GetMisses, Expire, Del,
        DelFails, Return, Tick, Abstract!Call, Abstract!Return
<1>2. IInv /\ [Next]_vars =>
        [\A s \in Session : live[s] # None => live'[s] \in {live[s], None}]_vars
  BY <1>1
<1>. QED
  BY Invariance, <1>2, PTL DEF Spec, OneActorPerSession

(***************************************************************************)
(* GET is the moment of the atomic Get, SET and DEL of Issue and Delete;   *)
(* EXPIRE changes nothing the abstract store has, and a tick is sessions   *)
(* running out.                                                            *)
(***************************************************************************)
THEOREM Refinement == Spec => ImplementsAbstract
<1>. USE Sets, NoneAssumption, TTLAssumption
<1>1. Init => Promise!Init
  BY DEF Init, Abstract!Init, Promise!Init
<1>2. ASSUME IInv, [Next]_vars
      PROVE  [Promise!Next]_(Promise!vars)
  <2>1. ASSUME NEW h \in Handler, NEW o \in Abstract!Op, Call(h, o)
        PROVE  o \in Promise!Op /\ Promise!Call(h, o)
    BY <1>2, <2>1 DEF Call, Abstract!Call, Promise!Call, Promise!Op
  <2>2. ASSUME NEW h \in Handler, SetEx(h)
        PROVE  Promise!Issue(h)
    BY <1>2, <2>2 DEF IInv, TypeOK, Shape, SetEx, Pending, Abstract!Pending,
       Abstract!Tell, Promise!Issue, Promise!Pending, Promise!Tell
  <2>3. ASSUME NEW h \in Handler, SetExFails(h) \/ DelFails(h)
        PROVE  Promise!Fail(h)
    <3>1. CASE SetExFails(h)
      BY <1>2, <3>1 DEF IInv, TypeOK, Shape, SetExFails, Pending,
         Abstract!Pending, Abstract!Tell, Promise!Fail, Promise!Pending,
         Promise!Tell
    <3>2. CASE DelFails(h)
      BY <1>2, <3>2 DEF IInv, TypeOK, Shape, DelFails, Pending,
         Abstract!Pending, Abstract!Tell, Promise!Fail, Promise!Pending,
         Promise!Tell
    <3>. QED
      BY <2>3, <3>1, <3>2
  <2>4. ASSUME NEW h \in Handler, GetFinds(h)
        PROVE  Promise!Get(h)
    <3>1. live[op[h].id] \in Actor /\ live[op[h].id] # None
      BY <1>2, <2>4 DEF IInv, TypeOK, GetFinds, Pending, Abstract!Pending
    <3>2. Promise!Pending(h, "get")
      BY <1>2, <2>4 DEF IInv, TypeOK, GetFinds, Pending, Abstract!Pending,
         Promise!Pending
    <3>3. Promise!Tell(h, [kind |-> "actor", actor |-> live[op[h].id]])
      <4>. DEFINE a == [kind |-> "actor", actor |-> live[op[h].id]]
                  told == [g \in Handler |->
                             IF read[g] # None
                             THEN [kind |-> "actor", actor |-> read[g]]
                             ELSE answer[g]]
      <4>1. read' = [read EXCEPT ![h] = live[op[h].id]] /\ answer' = answer
        BY <2>4 DEF GetFinds
      <4>2. told' = [told EXCEPT ![h] = a]
        BY <1>2, <3>1, <4>1 DEF IInv, TypeOK
      <4>3. known' = known /\ used' = used /\ op' = op
        BY <2>4 DEF GetFinds
      <4>4. a.kind # "issued"
        OBVIOUS
      <4>. QED
        BY <4>2, <4>3, <4>4 DEF Promise!Tell
    <3>. QED
      BY <2>4, <3>1, <3>2, <3>3 DEF GetFinds, Promise!Get
  <2>10. ASSUME NEW h \in Handler, GetMisses(h)
        PROVE  Promise!Get(h)
    <3>. DEFINE a == [kind |-> "missing"]
                told == [g \in Handler |->
                           IF read[g] # None
                           THEN [kind |-> "actor", actor |-> read[g]]
                           ELSE answer[g]]
    <3>1. /\ read' = read /\ answer' = [answer EXCEPT ![h] = a]
          /\ read[h] = None
          /\ UNCHANGED <<live, used, known, op>>
      BY <2>10 DEF GetMisses, Pending, Abstract!Tell
    <3>2. Promise!Pending(h, "get")
      BY <2>10 DEF GetMisses, Pending, Abstract!Pending, Promise!Pending
    <3>3. told' = [told EXCEPT ![h] = a]
      BY <1>2, <3>1 DEF IInv, TypeOK
    <3>4. Promise!Tell(h, a)
      BY <3>1, <3>3 DEF Promise!Tell
    <3>. QED
      BY <3>1, <3>2, <3>4 DEF Promise!Get
  <2>5. ASSUME NEW h \in Handler, Expire(h)
        PROVE  UNCHANGED Promise!vars
    BY <1>2, <2>5 DEF IInv, TypeOK, Shape, Expire, Abstract!Tell, Promise!vars
  <2>6. ASSUME NEW h \in Handler, Del(h)
        PROVE  Promise!Delete(h)
    BY <1>2, <2>6 DEF IInv, TypeOK, Shape, Del, Pending, Abstract!Pending,
       Abstract!Tell, Promise!Delete, Promise!Pending, Promise!Tell
  <2>7. ASSUME NEW h \in Handler, Return(h)
        PROVE  Promise!Return(h)
    BY <1>2, <2>7 DEF IInv, TypeOK, Shape, Return, Abstract!Return, Promise!Return
  <2>8. ASSUME Tick
        PROVE  Promise!RunOut
    <3>. DEFINE S == {s \in Session : ~(left[s] > 1)}
    <3>1. S \in SUBSET Session
      OBVIOUS
    <3>2. live' = [s \in Session |-> IF s \in S THEN None ELSE live[s]]
      BY <2>8 DEF Tick
    <3>. QED
      BY <2>8, <3>1, <3>2 DEF Tick, Promise!RunOut
  <2>9. CASE UNCHANGED vars
    BY <2>9 DEF vars, Promise!vars
  <2>. QED
    BY <1>2, <2>1, <2>2, <2>3, <2>4, <2>5, <2>6, <2>7, <2>8, <2>9, <2>10
    DEF Next, Promise!Next
<1>. QED
  BY Invariance, <1>1, <1>2, PTL DEF Spec, ImplementsAbstract, Promise!Spec
================================================================================
