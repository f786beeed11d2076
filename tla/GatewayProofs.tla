---------------------------- MODULE GatewayProofs ----------------------------
(***************************************************************************)
(* Proofs about Gateway for any handlers, requests, accounts, credentials, *)
(* sessions, keys, policies and responses: the inductive invariant IInv of *)
(* Gateway is kept by every action, and each safety invariant the runs     *)
(* check follows from it.                                                  *)
(***************************************************************************)
EXTENDS Gateway, TLAPS

(* The codes a request may be answered with other than "ok".               *)
Codes == Refusal \cup {"session_terminated", "stream_ready"}

(* Replies are not None, and a refusal is no result.                       *)
LEMMA ReplyValues ==
    /\ \A code \in Codes : [code |-> code] \in Reply /\ [code |-> code] # None
    /\ \A x \in Result : /\ [code |-> "ok", result |-> x] \in Reply
                         /\ [code |-> "ok", result |-> x] # None
<1>1. \A code \in Codes : [code |-> code] \in Reply
  BY DEF Codes, Reply
<1>2. \A x \in Result : [code |-> "ok", result |-> x] \in Reply
  BY DEF Reply
<1> QED BY <1>1, <1>2, NoneAssumption

(* The operations and answers of the session store, opened once.           *)
LEMMA SessionValues ==
    /\ \A s \in Session :
          /\ [kind |-> "get", id |-> s] \in Cache!Op
          /\ [kind |-> "delete", id |-> s] \in Cache!Op
          /\ \A w \in Identity :
                [kind |-> "issue", id |-> s, actor |-> w] \in Cache!Op
    /\ \A o \in Cache!Op :
          o # None /\ o.id \in Session /\ (o.kind = "issue" => o.actor \in Identity)
    /\ \A w \in Identity : [kind |-> "actor", actor |-> w] \in Cache!Answer
    /\ \A x \in {"issued", "missing", "deleted", "error"} :
          [kind |-> x] \in Cache!Answer
    /\ \A a \in Cache!Answer :
          a # None /\ (a.kind = "actor" => a.actor \in Identity)
<1>1. \A s \in Session :
          /\ [kind |-> "get", id |-> s] \in Cache!Op
          /\ [kind |-> "delete", id |-> s] \in Cache!Op
          /\ \A w \in Identity :
                [kind |-> "issue", id |-> s, actor |-> w] \in Cache!Op
  BY DEF Cache!Op
<1>2. \A o \in Cache!Op :
          o # None /\ o.id \in Session /\ (o.kind = "issue" => o.actor \in Identity)
  BY NoneAssumption DEF Cache!Op
<1>3. \A w \in Identity : [kind |-> "actor", actor |-> w] \in Cache!Answer
  BY DEF Cache!Answer
<1>4. \A x \in {"issued", "missing", "deleted", "error"} :
          [kind |-> x] \in Cache!Answer
  BY DEF Cache!Answer
<1>5. \A a \in Cache!Answer :
          a # None /\ (a.kind = "actor" => a.actor \in Identity)
  BY NoneAssumption DEF Cache!Answer
<1> QED BY <1>1, <1>2, <1>3, <1>4, <1>5

(* The records, calls and answers of the idempotency store, opened once.   *)
LEMMA StoreValues ==
    /\ \A k \in Actor \X IdKey, p \in Hash, x \in Result :
          [key |-> k, hash |-> p, response |-> x] \in Store!Call
    /\ \A q \in Store!Call :
          /\ q # None /\ q.key \in Actor \X IdKey
          /\ q.hash \in Hash /\ q.response \in Result
          /\ Store!RecordOf(q) \in Store!Record
          /\ Store!RecordOf(q).RequestHash = q.hash
          /\ Store!RecordOf(q).Response = q.response
    /\ \A d \in Store!Record : d # None /\ d.Response \in Result
    /\ \A x \in Result : [kind |-> "ok", response |-> x] \in Store!Answer
    /\ \A x \in {"conflict", "error"} : [kind |-> x] \in Store!Answer
    /\ \A a \in Store!Answer :
          /\ a # None /\ a.kind \in {"ok", "conflict", "error"}
          /\ a.kind = "ok" => a.response \in Result
<1>1. \A k \in Actor \X IdKey, p \in Hash, x \in Result :
          [key |-> k, hash |-> p, response |-> x] \in Store!Call
  BY DEF Store!Call
<1>2. \A q \in Store!Call :
          /\ q # None /\ q.key \in Actor \X IdKey
          /\ q.hash \in Hash /\ q.response \in Result
  BY NoneAssumption DEF Store!Call
<1>3. \A q \in Store!Call :
          /\ Store!RecordOf(q) \in Store!Record
          /\ Store!RecordOf(q).RequestHash = q.hash
          /\ Store!RecordOf(q).Response = q.response
  BY <1>2 DEF Store!RecordOf, Store!Record
<1>4. \A d \in Store!Record : d # None /\ d.Response \in Result
  BY NoneAssumption DEF Store!Record
<1>5. \A x \in Result : [kind |-> "ok", response |-> x] \in Store!Answer
  BY DEF Store!Answer
<1>6. \A x \in {"conflict", "error"} : [kind |-> x] \in Store!Answer
  BY DEF Store!Answer
<1>7. \A a \in Store!Answer :
          /\ a # None /\ a.kind \in {"ok", "conflict", "error"}
          /\ a.kind = "ok" => a.response \in Result
  BY NoneAssumption DEF Store!Answer
<1> QED BY <1>1, <1>2, <1>3, <1>4, <1>5, <1>6, <1>7

(* Resolve of a standing record is answered ok or with a conflict.         *)
LEMMA VerdictValues ==
    ASSUME NEW q \in Store!Call, NEW d \in Store!Record
    PROVE  /\ Store!Verdict(d, q) \in Store!Answer
           /\ Store!Verdict(d, q).kind = "ok" =>
                 /\ Store!Verdict(d, q) = [kind |-> "ok", response |-> d.Response]
                 /\ d.RequestHash = q.hash
BY StoreValues DEF Store!Verdict

(* No request, account or identity is None.                                *)
LEMMA RequestValues ==
    /\ \A r \in Request :
          /\ r # None
          /\ r.http \in {"POST", "GET", "DELETE"} /\ r.stateless \in BOOLEAN
          /\ r.credential \in Credential \cup {None}
          /\ r.session \in Session \cup {None}
          /\ r.key \in IdKey \cup {None} /\ r.hash \in Hash
    /\ \A w \in Identity :
          w # None /\ w \in Result /\ w.id \in Actor /\ w.policy \subseteq Permission
    /\ \A x \in Response : x \in Result
BY RequestAssumption, NoneAssumption DEF AnyRequest, Identity, Result

(* The gates admit a request or refuse it with one of the codes.           *)
LEMMA GateCodes == \A w, r : Gate(w, r) \in Refusal \cup {"admitted"}
BY DEF Gate, Refusal

(* What every answer to a client does to the state of its handler.         *)
Answered(h) ==
    /\ pc' = [pc EXCEPT ![h] = "replied"]
    /\ reply' \in [Handler -> Reply \cup {None}]
    /\ reply'[h] # None
    /\ \A g \in Handler \ {h} : reply'[g] = reply[g]

(* What a handler that answers does to pc and reply.                       *)
LEMMA Answering ==
    ASSUME TypeOK, NEW h \in Handler
    PROVE  /\ \A a \in Reply : Answer(h, a) => Answered(h)
           /\ \A code \in Codes : Refuse(h, code) => Answered(h)
<1>1. ASSUME NEW a \in Reply, Answer(h, a) PROVE Answered(h)
  BY <1>1, NoneAssumption DEF TypeOK, Answer, Goto, Answered
<1> QED BY <1>1, ReplyValues DEF Refuse

(* The rights of a moment are pairs of an account and a right.             *)
LEMMA RightsTyped == \A g, b : RightsOf(g, b) \in SUBSET (Actor \X Rights)
BY DEF RightsOf

(* A step of a handler that is not in the store's hands, nor done with it, *)
(* leaves all that Standing is about as it is.                             *)
LEMMA StandingKept ==
    ASSUME IInv, NEW h \in Handler, pc[h] \notin {"resolve", "replied"},
           pc'[h] # "resolve", UNCHANGED <<store, current>>,
           \A g \in Handler \ {h} :
              /\ pc'[g] = pc[g] /\ req'[g] = req[g]
              /\ who'[g] = who[g] /\ reply'[g] = reply[g]
    PROVE  Standing'
<1>1. ASSUME NEW g \in Handler, pc'[g] = "resolve" PROVE Resolving(g)'
  BY <1>1 DEF IInv, Standing, Resolving, RecordKey, store
<1>2. ASSUME NEW g \in current' PROVE OfRecord(g, records[RecordKey(g)])'
  <2>1. g \in current /\ g \in Handler \ {h}
    BY <1>2 DEF IInv, TypeOK, Standing, OfRecord
  <2> QED BY <2>1 DEF IInv, Standing, OfRecord, RecordKey, store
<1> QED BY <1>1, <1>2 DEF Standing

(* A handler that refuses a request it already serves keeps the invariant. *)
LEMMA RefusalKeeps ==
    ASSUME IInv, NEW h \in Handler,
           pc[h] \in {"identify", "gates", "forward"}, Answered(h),
           UNCHANGED <<platform, req, who, cache, store, history>>
    PROVE  IInv'
<1>1. TypeOK'
  BY DEF Answered, platform, store, cache, history, IInv, TypeOK
<1>2. Places'
  BY DEF Answered, platform, store, cache, history, IInv, TypeOK, Places
<1>3. Callers'
  BY DEF Answered, platform, store, cache, history, IInv, TypeOK, Places, Callers, Known, Acting, Reused, Fresh, Held
<1>4. Since'
  BY DEF Answered, platform, store, cache, history, IInv, TypeOK, Places, Since
<1>5. Claims'
  BY DEF Answered, platform, store, cache, history, IInv, TypeOK, Places, Claims, Truthful
<1>6. Standing'
  BY StandingKept DEF Answered, platform, store, cache, history, IInv, TypeOK
<1> QED BY <1>1, <1>2, <1>3, <1>4, <1>5, <1>6 DEF IInv

(* A request refused on arrival (unknown tool, missing Authorization,      *)
(* 405).                                                                   *)
LEMMA ArrivalRefused ==
    ASSUME IInv, NEW h \in Handler, NEW r \in Request, Arrive(h, r),
           Answered(h), UNCHANGED cache
    PROVE  IInv'
<1>1. TypeOK'
  BY RightsTyped, RequestValues 
  DEF Arrive, Answered, platform, store, cache, IInv, TypeOK
<1>2. Places'
  BY RequestValues 
  DEF Arrive, Answered, platform, store, cache, IInv, TypeOK, Places
<1>3. Callers'
  BY RequestValues 
  DEF Arrive, Answered, platform, store, cache, IInv, TypeOK, Places, Callers, Known, Acting, Reused, Fresh, Held
<1>4. Since'
  BY RequestValues 
  DEF Arrive, Answered, platform, store, cache, IInv, TypeOK, Places, Since
<1>5. Claims'
  BY RequestValues 
  DEF Arrive, Answered, platform, store, cache, IInv, TypeOK, Places, Claims, Truthful
<1>6. Standing'
  BY StandingKept DEF Arrive, Answered, platform, store, cache, IInv, TypeOK
<1> QED BY <1>1, <1>2, <1>3, <1>4, <1>5, <1>6 DEF IInv

(* A request that arrives and goes on to identify or to forward.           *)
LEMMA ArrivalProceeds ==
    ASSUME IInv, NEW h \in Handler, NEW r \in Request, Arrive(h, r),
           NEW place \in {"identify", "forward"},
           Goto(h, place), UNCHANGED <<reply, cache>>,
           place = "forward" => tool(r) = "onboarding.registerSelf"
    PROVE  IInv'
<1>1. TypeOK'
  BY RightsTyped, RequestValues 
  DEF Arrive, Goto, platform, store, cache, IInv, TypeOK
<1>2. Places'
  BY RequestValues 
  DEF Arrive, Goto, platform, store, cache, IInv, TypeOK, Places
<1>3. Callers'
  BY RequestValues 
  DEF Arrive, Goto, platform, store, cache, IInv, TypeOK, Places, Callers, Known, Acting, Reused, Fresh, Held
<1>4. Since'
  BY RequestValues 
  DEF Arrive, Goto, platform, store, cache, IInv, TypeOK, Places, Since
<1>5. Claims'
  BY RequestValues 
  DEF Arrive, Goto, platform, store, cache, IInv, TypeOK, Places, Claims, Truthful
<1>6. Standing'
  BY StandingKept DEF Arrive, Goto, platform, store, cache, IInv, TypeOK
<1> QED BY <1>1, <1>2, <1>3, <1>4, <1>5, <1>6 DEF IInv

(* A request that arrives and asks the session store first.                *)
LEMMA ArrivalOnSession ==
    ASSUME IInv, NEW h \in Handler, NEW r \in Request, Arrive(h, r),
           NEW kind \in {"get", "delete"}, ~ r.stateless, r.session # None,
           Goto(h, "session"), UNCHANGED reply,
           Cache!Call(h, [kind |-> kind, id |-> r.session]),
           r.http = "POST" =>
              r.credential = None /\ tool(r) \notin mutatingTools
    PROVE  IInv'
<1>0. [kind |-> kind, id |-> r.session] \in Cache!Op
  BY RequestValues, SessionValues
<1>1. TypeOK'
  BY <1>0, RightsTyped, RequestValues 
  DEF Arrive, Goto, platform, store, Cache!Call, IInv, TypeOK
<1>2. Places'
  BY <1>0, RequestValues, SessionValues 
  DEF Arrive, Goto, platform, store, Cache!Call, IInv, TypeOK, Places
<1>3. Callers'
  BY RequestValues, SessionValues 
  DEF Arrive, Goto, platform, store, Cache!Call, IInv, TypeOK, Places, Callers, Known, Acting, Reused, Fresh, Held
<1>4. Since'
  BY RequestValues, SessionValues 
  DEF Arrive, Goto, platform, store, Cache!Call, IInv, TypeOK, Places, Since
<1>5. Claims'
  BY RequestValues, SessionValues 
  DEF Arrive, Goto, platform, store, Cache!Call, IInv, TypeOK, Places, Claims, Truthful
<1>6. Standing'
  BY StandingKept DEF Arrive, Goto, platform, store, Cache!Call, IInv, TypeOK
<1> QED BY <1>1, <1>2, <1>3, <1>4, <1>5, <1>6 DEF IInv

(* Post: one case for each entrance.                                       *)
LEMMA PostKeeps ==
    ASSUME IInv, NEW h \in Handler, NEW r \in Request, Post(h, r)
    PROVE  IInv'
<1> USE DEF Post
<1>1. CASE Entrance(r) \in Refusal
  BY <1>1, Answering, ArrivalRefused DEF IInv, Codes, Refusal
<1>2. CASE Entrance(r) = "anonymous"
  <2>1. tool(r) = "onboarding.registerSelf"
    BY <1>2 DEF Entrance
  <2> QED BY <1>2, <2>1, ArrivalProceeds DEF Refusal
<1>3. CASE Entrance(r) = "session"
  <2>1. /\ r.credential = None /\ tool(r) \notin mutatingTools
        /\ ~ r.stateless /\ r.session # None
    BY <1>3, RequestValues
    DEF Entrance, onSession, requiresFreshAuthorization, sessionHeader
  <2> QED BY <1>3, <2>1, ArrivalOnSession DEF Refusal
<1>4. CASE Entrance(r) = "identify"
  BY <1>4, ArrivalProceeds DEF Refusal
<1> QED BY <1>1, <1>2, <1>3, <1>4

(* DELETE and GET on the endpoint.                                         *)
LEMMA DeleteOrGetKeeps ==
    ASSUME IInv, NEW h \in Handler, NEW r \in Request, DeleteOrGet(h, r)
    PROVE  IInv'
<1> USE DEF DeleteOrGet
<1>1. CASE r.stateless \/ r.session = None
  BY <1>1, Answering, ArrivalRefused DEF IInv, Codes, Refusal
<1>2. CASE ~ r.stateless /\ r.session # None
  BY <1>2, ArrivalOnSession
<1> QED BY <1>1, <1>2

(* The session store's answer ends the request.                            *)
LEMMA SessionRefused ==
    ASSUME IInv, NEW h \in Handler, pc[h] \in {"session", "issue"}, told[h] # None,
           Answered(h), Cache!Return(h),
           UNCHANGED <<platform, req, who, store, history>>
    PROVE  IInv'
<1>1. TypeOK'
  BY DEF Answered, Cache!Return, platform, store, history, IInv, TypeOK
<1>2. Places'
  BY DEF Answered, Cache!Return, platform, store, history, IInv, TypeOK, Places
<1>3. Callers'
  BY DEF Answered, Cache!Return, platform, store, history, IInv, TypeOK, Places, Callers, Known, Acting, Reused, Fresh, Held
<1>4. Since'
  BY DEF Answered, Cache!Return, platform, store, history, IInv, TypeOK, Places, Since
<1>5. Claims'
  BY DEF Answered, Cache!Return, platform, store, history, IInv, TypeOK, Places, Claims, Truthful
<1>6. Standing'
  BY StandingKept DEF Answered, Cache!Return, platform, store, history, IInv, TypeOK
<1> QED BY <1>1, <1>2, <1>3, <1>4, <1>5, <1>6 DEF IInv

(* The session store's answer stands in for the platform's.                *)
LEMMA SessionReused ==
    ASSUME IInv, NEW h \in Handler, pc[h] = "session", told[h] # None,
           told[h].kind = "actor", req[h].http = "POST",
           who' = [who EXCEPT ![h] = told[h].actor], Goto(h, "gates"),
           Cache!Return(h), UNCHANGED <<platform, req, reply, store, history>>
    PROVE  IInv'
<1>1. TypeOK'
  BY SessionValues, RequestValues 
  DEF Goto, Cache!Return, platform, store, history, IInv, TypeOK
<1>2. Places'
  BY SessionValues, RequestValues 
  DEF Goto, Cache!Return, platform, store, history, IInv, TypeOK, Places
<1>3. Callers'
  <2>1. Known(h)'
    BY DEF Goto, IInv, TypeOK, Places, Callers, Known, Acting, Reused
  <2>2. ASSUME NEW g \in Handler \ {h} PROVE Known(g)'
    BY DEF Goto, history, IInv, TypeOK, Callers, Known, Acting, Reused,
           Fresh, Held
  <2> QED BY <2>1, <2>2 DEF Callers
<1>4. Since'
  BY SessionValues, RequestValues 
  DEF Goto, Cache!Return, platform, store, history, IInv, TypeOK, Places, Since
<1>5. Claims'
  BY SessionValues, RequestValues 
  DEF Goto, Cache!Return, platform, store, history, IInv, TypeOK, Places, Claims, Truthful
<1>6. Standing'
  BY StandingKept DEF Goto, Cache!Return, platform, store, history, IInv, TypeOK
<1> QED BY <1>1, <1>2, <1>3, <1>4, <1>5, <1>6 DEF IInv

(* authenticate and DELETE, once the session store has answered.           *)
LEMMA SessionAnswersKeeps ==
    ASSUME IInv, NEW h \in Handler, SessionAnswers(h)
    PROVE  IInv'
<1>1. CASE told[h].kind = "actor" /\ req[h].http = "POST"
  BY <1>1, SessionReused DEF SessionAnswers
<1>2. CASE ~ (told[h].kind = "actor" /\ req[h].http = "POST")
  BY <1>2, Answering, SessionRefused DEF SessionAnswers, IInv, Codes, Refusal
<1> QED BY <1>1, <1>2

(* authenticate with the platform's identity, and the Issue behind it.     *)
LEMMA IdentifiedKeeps ==
    ASSUME IInv, NEW h \in Handler, Identified(h)
    PROVE  IInv'
<1> DEFINE w == IdentityOf(Owner[req[h].credential])
<1>a. /\ pc[h] = "identify" /\ req[h].credential \in Credential
      /\ req[h].credential \notin revoked
      /\ who' = [who EXCEPT ![h] = w]
      /\ UNCHANGED <<platform, req, reply, store, history>>
  BY RequestValues DEF Identified, IInv, TypeOK, Places
<1>b. /\ w.id = Owner[req[h].credential]
      /\ w.policy = granted[w.id] /\ w.claimed = (w.id \in claimed)
  BY DEF IdentityOf
<1>c. w \in Identity
  <2>1. Owner[req[h].credential] \in Actor
    BY <1>a, OwnerAssumption
  <2>2. granted[Owner[req[h].credential]] \in SUBSET Permission
    BY <2>1 DEF IInv, TypeOK
  <2> QED BY <2>1, <2>2 DEF IdentityOf, Identity
<1>0. w \in Identity /\ w # None
  BY <1>c, RequestValues
<1>00. \/ req[h].stateless /\ Goto(h, "gates") /\ UNCHANGED cache
       \/ \E s \in Session :
            /\ ~ req[h].stateless /\ Goto(h, "issue")
            /\ [kind |-> "issue", id |-> s, actor |-> w] \in Cache!Op
            /\ Cache!Call(h, [kind |-> "issue", id |-> s, actor |-> w])
  BY <1>0, SessionValues DEF Identified
<1> HIDE DEF w
<1>1. TypeOK'
  <2>1. op' \in [Handler -> Cache!Op \cup {None}] /\ used' \subseteq Session
        /\ UNCHANGED <<known, live, told>>
    <3>1. \/ UNCHANGED <<op, used, known, live, told>>
          \/ \E o \in Cache!Op :
                /\ op' = [op EXCEPT ![h] = o] /\ used' = used \cup {o.id}
                /\ UNCHANGED <<live, known, told>>
      BY <1>00 DEF Cache!Call, cache
    <3>2. CASE UNCHANGED <<op, used, known, live, told>>
      BY <3>2 DEF IInv, TypeOK
    <3>3. ASSUME NEW o \in Cache!Op,
                 op' = [op EXCEPT ![h] = o], used' = used \cup {o.id}
          PROVE  /\ op' \in [Handler -> Cache!Op \cup {None}]
                 /\ used' \subseteq Session
      BY <3>3, SessionValues DEF IInv, TypeOK
    <3> QED BY <3>1, <3>2, <3>3
  <2>2. who' \in [Handler -> Identity \cup {None}]
    BY <1>a, <1>0 DEF IInv, TypeOK
  <2> QED BY <1>a, <1>00, <2>1, <2>2
    DEF Goto, platform, store, history, IInv, TypeOK
<1>2. Places'
  <2>1. CASE req[h].stateless /\ Goto(h, "gates") /\ UNCHANGED cache
    BY <1>a, <1>0, <2>1 DEF Goto, store, cache, IInv, TypeOK, Places
  <2>2. CASE ~ (req[h].stateless /\ Goto(h, "gates") /\ UNCHANGED cache)
    <3>1. /\ ~ req[h].stateless /\ Goto(h, "issue") /\ UNCHANGED told
          /\ \E o \in Cache!Op : op' = [op EXCEPT ![h] = o]
      BY <1>00, <2>2 DEF Cache!Call
    <3> QED BY <1>a, <1>0, <3>1, SessionValues
      DEF Goto, store, IInv, TypeOK, Places
  <2> QED BY <2>1, <2>2
<1>3. Callers'
  <2>1. Known(h)'
    <3>1. \A p \in w.policy : <<w.id, p>> \in held[h]
      BY <1>a, <1>b, <1>0, OwnerAssumption
      DEF IInv, TypeOK, Since, RightsOf, Identity, Rights
    <3>2. unclaimed(w) => <<w.id, "unclaimed">> \in held[h]
      BY <1>a, <1>b, <1>0, OwnerAssumption
      DEF IInv, TypeOK, Since, RightsOf, Identity, Rights, unclaimed
    <3>3. who'[h] = w /\ gone' = gone /\ held' = held /\ req' = req
      BY <1>a DEF IInv, TypeOK, history
    <3>4. /\ req[h].credential # None /\ req[h].credential \notin gone[h]
          /\ w.id = Owner[req[h].credential]
      <4>1. req[h].credential # None
        BY <1>a, NoneAssumption
      <4>2. gone[h] \subseteq revoked
        BY <1>a DEF IInv, Since
      <4> QED BY <1>a, <1>b, <4>1, <4>2
    <3>5. Fresh(h)'
      BY <3>1, <3>2, <3>3, <3>4 DEF Fresh, Held, unclaimed
    <3> QED BY <1>a, <1>b, <1>0, <1>00, <3>5 DEF Goto, IInv, TypeOK, Known, Acting
  <2>2. ASSUME NEW g \in Handler \ {h} PROVE Known(g)'
    BY <1>a, <1>b, <1>0, <1>00
    DEF Goto, history, IInv, TypeOK, Callers, Known, Acting, Reused, Fresh, Held
  <2> QED BY <2>1, <2>2 DEF Callers
<1>4. Since'
  <2>1. UNCHANGED <<gone, held, revoked, granted, claimed>>
    BY <1>a DEF platform, history
  <2>2. \A g \in Handler : pc'[g] # "idle" => pc[g] # "idle"
    BY <1>a, <1>00 DEF Goto, IInv, TypeOK
  <2> QED BY <2>1, <2>2 DEF IInv, Since, RightsOf
<1>5. Claims'
  <2>1. Truthful(w)
    BY <1>b DEF Truthful
  <2>2. /\ UNCHANGED <<live, told>>
        /\ \/ UNCHANGED op
           \/ \E s \in Session : op' =
                [op EXCEPT ![h] = [kind |-> "issue", id |-> s, actor |-> w]]
    BY <1>00 DEF Cache!Call, cache
  <2>3. w' = w
    BY <1>a DEF w, IdentityOf, platform
  <2> QED BY <1>a, <2>1, <2>2, <2>3 DEF platform, IInv, TypeOK, Claims, Truthful
<1>6. Standing'
  BY <1>a, <1>b, <1>0, <1>00, StandingKept DEF Goto, history, IInv, TypeOK
<1> QED BY <1>1, <1>2, <1>3, <1>4, <1>5, <1>6 DEF IInv

(* authenticate when the platform knows the key as revoked.                *)
LEMMA IdentifyRevokedKeeps ==
    ASSUME IInv, NEW h \in Handler, IdentifyRevoked(h)
    PROVE  IInv'
BY Answering, RefusalKeeps DEF IdentifyRevoked, IInv, Codes, Refusal

(* authenticate when the platform has no identity to give.                 *)
LEMMA IdentifyFailsKeeps ==
    ASSUME IInv, NEW h \in Handler, IdentifyFails(h)
    PROVE  IInv'
BY Answering, RefusalKeeps DEF IdentifyFails, IInv, Codes, Refusal

(* A minted session lets the request pass on.                              *)
LEMMA SessionIssued ==
    ASSUME IInv, NEW h \in Handler, pc[h] = "issue", told[h] # None,
           Goto(h, "gates"), Cache!Return(h),
           UNCHANGED <<platform, req, who, reply, store, history>>
    PROVE  IInv'
<1>1. TypeOK'
  BY DEF Goto, Cache!Return, platform, store, history, IInv, TypeOK
<1>2. Places'
  BY DEF Goto, Cache!Return, platform, store, history, IInv, TypeOK, Places
<1>3. Callers'
  BY DEF Goto, Cache!Return, platform, store, history, IInv, TypeOK, Places, Callers, Known, Acting, Reused, Fresh, Held
<1>4. Since'
  BY DEF Goto, Cache!Return, platform, store, history, IInv, TypeOK, Places, Since
<1>5. Claims'
  BY DEF Goto, Cache!Return, platform, store, history, IInv, TypeOK, Places, Claims, Truthful
<1>6. Standing'
  BY StandingKept DEF Goto, Cache!Return, platform, store, history, IInv, TypeOK
<1> QED BY <1>1, <1>2, <1>3, <1>4, <1>5, <1>6 DEF IInv

(* authenticate, once the session store has answered Issue.                *)
LEMMA IssueAnswersKeeps ==
    ASSUME IInv, NEW h \in Handler, IssueAnswers(h)
    PROVE  IInv'
BY Answering, SessionIssued, SessionRefused
DEF IssueAnswers, IInv, Codes, Refusal

(* A request no gate turned away goes on to be forwarded.                  *)
LEMMA Admitted ==
    ASSUME IInv, NEW h \in Handler, pc[h] = "gates", Goto(h, "forward"),
           Gate(who[h], req[h]) = "admitted",
           UNCHANGED <<platform, req, who, reply, cache, store, history>>
    PROVE  IInv'
<1>1. TypeOK'
  BY DEF Goto, platform, store, cache, history, IInv, TypeOK
<1>2. Places'
  BY DEF Goto, platform, store, cache, history, IInv, TypeOK, Places
<1>3. Callers'
  BY DEF Goto, platform, store, cache, history, IInv, TypeOK, Places, Callers, Known, Acting, Reused, Fresh, Held
<1>4. Since'
  BY DEF Goto, platform, store, cache, history, IInv, TypeOK, Places, Since
<1>5. Claims'
  BY DEF Goto, platform, store, cache, history, IInv, TypeOK, Places, Claims, Truthful
<1>6. Standing'
  BY StandingKept DEF Goto, platform, store, cache, history, IInv, TypeOK
<1> QED BY <1>1, <1>2, <1>3, <1>4, <1>5, <1>6 DEF IInv

(* The gates of serveTool.                                                 *)
LEMMA PassGatesKeeps ==
    ASSUME IInv, NEW h \in Handler, PassGates(h)
    PROVE  IInv'
<1>1. CASE Gate(who[h], req[h]) = "admitted"
  BY <1>1, Admitted DEF PassGates
<1>2. CASE Gate(who[h], req[h]) # "admitted"
  BY <1>2, GateCodes, Answering, RefusalKeeps DEF PassGates, IInv, Codes
<1> QED BY <1>1, <1>2

(* A result with a key is handed to the idempotency store.                 *)
LEMMA Asked ==
    ASSUME IInv, NEW h \in Handler, pc[h] = "forward", NEW x \in Result,
           who[h] # None, req[h].key # None, Goto(h, "resolve"),
           Store!Ask(h, [key |-> <<who[h].id, req[h].key>>,
                         hash |-> req[h].hash, response |-> x]),
           UNCHANGED <<platform, req, who, reply, cache, history>>
    PROVE  IInv'
<1> DEFINE q == [key |-> <<who[h].id, req[h].key>>,
               hash |-> req[h].hash, response |-> x]
<1>0. /\ q \in Store!Call /\ q.key = RecordKey(h) /\ q.hash = req[h].hash
      /\ call' = [call EXCEPT ![h] = q] /\ UNCHANGED <<records, resolved>>
  BY RequestValues, StoreValues DEF Store!Ask, RecordKey, IInv, TypeOK, Places
<1> HIDE DEF q
<1>1. TypeOK'
  BY <1>0 DEF Goto, platform, cache, history, IInv, TypeOK
<1>2. Places'
  BY RequestValues, StoreValues 
  DEF Goto, Store!Ask, platform, cache, history, IInv, TypeOK, Places
<1>3. Callers'
  BY RequestValues, StoreValues 
  DEF Goto, Store!Ask, platform, cache, history, IInv, TypeOK, Places, Callers, Known, Acting, Reused, Fresh, Held
<1>4. Since'
  BY RequestValues, StoreValues 
  DEF Goto, Store!Ask, platform, cache, history, IInv, TypeOK, Places, Since
<1>5. Claims'
  BY RequestValues, StoreValues 
  DEF Goto, Store!Ask, platform, cache, history, IInv, TypeOK, Places, Claims, Truthful
<1>6. Standing'
  <2>1. ASSUME NEW g \in Handler, pc'[g] = "resolve" PROVE Resolving(g)'
    BY <1>0, <2>1
    DEF Goto, IInv, TypeOK, Places, Standing, Resolving, RecordKey
  <2>2. ASSUME NEW g \in current' PROVE OfRecord(g, records[RecordKey(g)])'
    <3>1. g \in current /\ g \in Handler \ {h}
      BY <2>2 DEF IInv, TypeOK, Standing, OfRecord, history
    <3> QED BY <1>0, <3>1 DEF Goto, IInv, TypeOK, Standing, OfRecord, RecordKey
  <2> QED BY <2>1, <2>2 DEF Standing
<1> QED BY <1>1, <1>2, <1>3, <1>4, <1>5, <1>6 DEF IInv

(* A result is resolved or sent.                                           *)
LEMMA OutcomeKeeps ==
    ASSUME IInv, NEW h \in Handler, pc[h] = "forward", NEW x \in Result,
           Outcome(h, x), UNCHANGED <<platform, req, who, cache, history>>
    PROVE  IInv'
<1>1. CASE who[h] # None /\ req[h].key # None
  BY <1>1, Asked DEF Outcome
<1>2. CASE who[h] = None \/ req[h].key = None
  BY <1>2, Answering, ReplyValues, RefusalKeeps DEF Outcome, IInv
<1> QED BY <1>1, <1>2

(* getIdentity, answered by the gateway.                                   *)
LEMMA AnswerLocallyKeeps ==
    ASSUME IInv, NEW h \in Handler, AnswerLocally(h)
    PROVE  IInv'
<1>1. who[h] \in Result
  BY RequestValues DEF AnswerLocally, IInv, TypeOK, Callers, Known, localTools
<1> QED BY <1>1, OutcomeKeeps DEF AnswerLocally

(* A call the platform carried out.                                        *)
LEMMA ForwardKeeps ==
    ASSUME IInv, NEW h \in Handler, Forward(h)
    PROVE  IInv'
BY RequestValues, OutcomeKeeps DEF Forward

(* A call the platform refused, or whose answer did not come.              *)
LEMMA ForwardFailsKeeps ==
    ASSUME IInv, NEW h \in Handler, ForwardFails(h)
    PROVE  IInv'
BY Answering, RefusalKeeps DEF ForwardFails, IInv, Codes, Refusal

(* serveTool, once the idempotency store has answered.                     *)
LEMMA StoreAnswersKeeps ==
    ASSUME IInv, NEW h \in Handler, StoreAnswers(h)
    PROVE  IInv'
<1>0. /\ ReplyTo(resolved[h]) \in Reply /\ pc[h] = "resolve"
      /\ Answer(h, ReplyTo(resolved[h]))
      /\ UNCHANGED <<platform, req, who, cache, history>>
      /\ UNCHANGED records
      /\ call' = [call EXCEPT ![h] = None]
      /\ resolved' = [resolved EXCEPT ![h] = None]
  BY StoreValues, ReplyValues
  DEF StoreAnswers, ReplyTo, Codes, Refusal, Store!Return, IInv, TypeOK
<1>a. Answered(h)
  BY <1>0, Answering DEF IInv
<1>1. TypeOK'
  BY <1>0, <1>a DEF Answered, platform, cache, history, IInv, TypeOK
<1>2. Places'
  BY <1>0, <1>a DEF Answered, cache, IInv, TypeOK, Places
<1>3. Callers'
  BY <1>0, <1>a
  DEF Answered, history, IInv, TypeOK, Callers, Known, Acting, Reused, Fresh, Held
<1>4. Since'
  BY <1>0, <1>a DEF Answered, platform, history, IInv, TypeOK, Since
<1>5. Claims'
  BY <1>0, <1>a DEF platform, cache, IInv, TypeOK, Claims, Truthful
<1>6. Standing'
  <2>1. ASSUME NEW g \in Handler, pc'[g] = "resolve" PROVE Resolving(g)'
    BY <1>0, <1>a, <2>1
    DEF Answered, IInv, TypeOK, Standing, Resolving, RecordKey
  <2>2. ASSUME NEW g \in Handler \ {h}, g \in current'
        PROVE  OfRecord(g, records[RecordKey(g)])'
    BY <1>0, <1>a, <2>2
    DEF Answered, history, IInv, TypeOK, Standing, OfRecord, RecordKey
  <2>3. ASSUME h \in current' PROVE OfRecord(h, records[RecordKey(h)])'
    <3> DEFINE rec == records[RecordKey(h)]
    <3>1. resolved[h] = [kind |-> "ok", response |-> rec.Response]
      BY <1>0, <2>3 DEF history, IInv, Standing, OfRecord
    <3>2. ReplyTo(resolved[h]) = [code |-> "ok", result |-> rec.Response]
      BY <3>1 DEF ReplyTo
    <3>3. reply'[h] = [code |-> "ok", result |-> rec.Response]
      BY <1>0, <3>2 DEF Answer, IInv, TypeOK
    <3> QED BY <1>0, <1>a, <2>3, <3>3
      DEF Answered, history, IInv, TypeOK, Standing, OfRecord, RecordKey
  <2> QED BY <1>0, <2>1, <2>2, <2>3 DEF history, IInv, TypeOK, Standing
<1> QED BY <1>1, <1>2, <1>3, <1>4, <1>5, <1>6 DEF IInv

(* The handler returns.                                                    *)
LEMMA DoneKeeps ==
    ASSUME IInv, NEW h \in Handler, Done(h)
    PROVE  IInv'
<1>1. TypeOK'
  BY DEF Done, Goto, platform, store, cache, IInv, TypeOK
<1>2. Places'
  BY DEF Done, Goto, platform, store, cache, IInv, TypeOK, Places
<1>3. Callers'
  BY DEF Done, Goto, platform, store, cache, IInv, TypeOK, Places, Callers, Known, Acting, Reused, Fresh, Held
<1>4. Since'
  BY DEF Done, Goto, platform, store, cache, IInv, TypeOK, Places, Since
<1>5. Claims'
  BY DEF Done, Goto, platform, store, cache, IInv, TypeOK, Places, Claims, Truthful
<1>6. Standing'
  BY DEF Done, Goto, platform, store, cache, IInv, TypeOK, Places, Standing, Resolving, OfRecord, RecordKey
<1> QED BY <1>1, <1>2, <1>3, <1>4, <1>5, <1>6 DEF IInv

(* Issue, Get, Delete of the session store, and its failures.              *)
LEMMA SessionStoreKeeps ==
    ASSUME IInv, NEW h \in Handler, SessionStore(h)
    PROVE  IInv'
<1> USE DEF Cache!Pending
<1>0. /\ op[h] \in Cache!Op /\ op[h].id \in Session
      /\ Cache!Issue(h) => op[h].actor \in Identity /\ Truthful(op[h].actor)
      /\ UNCHANGED <<platform, handlers, store, history, used, op>>
  BY SessionValues
  DEF SessionStore, Cache!Issue, Cache!Get, Cache!Delete, Cache!Fail,
      Cache!Tell, IInv, TypeOK, Claims
<1>a. \E a \in Cache!Answer :
         /\ Cache!Tell(h, a)
         /\ \/ UNCHANGED live
            \/ live' = [live EXCEPT ![op[h].id] = None]
            \/ Cache!Issue(h) /\ live' = [live EXCEPT ![op[h].id] = op[h].actor]
         /\ a.kind = "actor" => Truthful(a.actor)
  <2>1. CASE Cache!Issue(h)
    BY <2>1, SessionValues DEF Cache!Issue
  <2>2. CASE Cache!Get(h)
    BY <1>0, <2>2, SessionValues DEF Cache!Get, IInv, TypeOK, Claims
  <2>3. CASE Cache!Delete(h) \/ Cache!Fail(h)
    BY <2>3, SessionValues DEF Cache!Delete, Cache!Fail
  <2> QED BY <2>1, <2>2, <2>3 DEF SessionStore
<1>1. TypeOK'
  BY <1>0, <1>a
  DEF Cache!Tell, platform, handlers, store, history, IInv, TypeOK
<1>2. Places'
  BY <1>0, <1>a, SessionValues
  DEF Cache!Tell, handlers, store, IInv, TypeOK, Places
<1>3. Callers'
  BY <1>0
  DEF handlers, history, IInv, Callers, Known, Acting, Reused, Fresh, Held
<1>4. Since'
  BY <1>0 DEF platform, handlers, history, IInv, Since, RightsOf
<1>5. Claims'
  <2>1. PICK a \in Cache!Answer :
           /\ told' = [told EXCEPT ![h] = a]
           /\ \/ UNCHANGED live
              \/ live' = [live EXCEPT ![op[h].id] = None]
              \/ Cache!Issue(h) /\ live' = [live EXCEPT ![op[h].id] = op[h].actor]
           /\ a.kind = "actor" => Truthful(a.actor)
    BY <1>a DEF Cache!Tell
  <2>2. \A w : Truthful(w) => Truthful(w)'
    BY <1>0 DEF platform, Truthful
  <2>3. \A s \in Session : live'[s] # None => Truthful(live'[s])
    BY <1>0, <2>1 DEF IInv, TypeOK, Claims
  <2>4. \A g \in Handler :
           told'[g] # None /\ told'[g].kind = "actor" => Truthful(told'[g].actor)
    BY <2>1 DEF IInv, TypeOK, Claims
  <2> QED BY <1>0, <2>3, <2>4 DEF platform, handlers, IInv, Claims, Truthful
<1>6. Standing'
  BY <1>0
  DEF handlers, store, history, IInv, Standing, Resolving, OfRecord, RecordKey
<1> QED BY <1>1, <1>2, <1>3, <1>4, <1>5, <1>6 DEF IInv

(* Sessions reach the end of their TTL.                                    *)
LEMMA SessionsRunOutKeeps ==
    ASSUME IInv, SessionsRunOut
    PROVE  IInv'
<1>1. TypeOK'
  BY DEF SessionsRunOut, Cache!RunOut, platform, handlers, store, history, IInv, TypeOK
<1>2. Places'
  BY DEF SessionsRunOut, Cache!RunOut, platform, handlers, store, history, IInv, TypeOK, Places
<1>3. Callers'
  BY DEF SessionsRunOut, Cache!RunOut, platform, handlers, store, history, IInv, TypeOK, Places, Callers, Known, Acting, Reused, Fresh, Held
<1>4. Since'
  BY DEF SessionsRunOut, Cache!RunOut, platform, handlers, store, history, IInv, TypeOK, Places, Since
<1>5. Claims'
  BY DEF SessionsRunOut, Cache!RunOut, platform, handlers, store, history, IInv, TypeOK, Places, Claims, Truthful
<1>6. Standing'
  BY DEF SessionsRunOut, Cache!RunOut, platform, handlers, store, history, IInv, TypeOK, Places, Standing, Resolving, OfRecord, RecordKey
<1> QED BY <1>1, <1>2, <1>3, <1>4, <1>5, <1>6 DEF IInv

(* A step of the store for h either keeps the record of its call or leaves *)
(* the one that stands, and answers from what is then standing.            *)
LEMMA StoreSteps ==
    ASSUME IInv, NEW h \in Handler, IdempotencyStore(h)
    PROVE  /\ call[h] \in Store!Call /\ resolved[h] = None
           /\ \/ records' = records
              \/ /\ records[call[h].key] = None
                 /\ records' = [records EXCEPT
                                  ![call[h].key] = Store!RecordOf(call[h])]
           /\ \E a \in Store!Answer :
                 /\ resolved' = [resolved EXCEPT ![h] = a]
                 /\ a.kind = "ok" =>
                       LET rec == records'[call[h].key] IN
                       /\ rec # None /\ rec.RequestHash = call[h].hash
                       /\ a = [kind |-> "ok", response |-> rec.Response]
<1>1. call[h] \in Store!Call /\ resolved[h] = None
  BY DEF IdempotencyStore, Store!Resolve, Store!Fail, Store!Waiting, IInv, TypeOK
<1>2. /\ call[h].key \in Actor \X IdKey
      /\ Store!RecordOf(call[h]) \in Store!Record
      /\ [kind |-> "error"] \in Store!Answer
  BY <1>1, StoreValues
<1>3. CASE Store!Fail(h)
  BY <1>1, <1>2, <1>3 DEF Store!Fail
<1>4. CASE Store!Resolve(h) /\ records[call[h].key] = None
  <2> DEFINE d == Store!RecordOf(call[h])
             a == Store!Verdict(d, call[h])
  <2>1. /\ records' = [records EXCEPT ![call[h].key] = d]
        /\ resolved' = [resolved EXCEPT ![h] = a]
    BY <1>4 DEF Store!Resolve
  <2>2. records'[call[h].key] = d /\ d # None
    BY <1>2, <2>1, StoreValues DEF IInv, TypeOK
  <2>3. /\ a \in Store!Answer
        /\ a.kind = "ok" => /\ a = [kind |-> "ok", response |-> d.Response]
                            /\ d.RequestHash = call[h].hash
    BY <1>1, <1>2, VerdictValues
  <2> HIDE DEF d, a
  <2> QED BY <1>1, <1>4, <2>1, <2>2, <2>3 DEF d
<1>5. CASE Store!Resolve(h) /\ records[call[h].key] # None
  <2> DEFINE d == records[call[h].key]
             a == Store!Verdict(d, call[h])
  <2>1. records' = records /\ resolved' = [resolved EXCEPT ![h] = a]
    BY <1>5 DEF Store!Resolve
  <2>2. d \in Store!Record
    BY <1>2, <1>5 DEF IInv, TypeOK
  <2>3. /\ a \in Store!Answer
        /\ a.kind = "ok" => /\ a = [kind |-> "ok", response |-> d.Response]
                            /\ d.RequestHash = call[h].hash
    BY <1>1, <2>2, VerdictValues
  <2> HIDE DEF a
  <2> QED BY <1>1, <1>5, <2>1, <2>3
<1> QED BY <1>3, <1>4, <1>5 DEF IdempotencyStore

(* A handler answered from a standing record has a key and a caller.       *)
LEMMA CurrentKey ==
    ASSUME IInv, NEW g \in current
    PROVE  /\ g \in Handler /\ OfRecord(g, records[RecordKey(g)])
           /\ RecordKey(g) \in Actor \X IdKey
           /\ pc[g] = "resolve" => resolved[g] # None
<1>1. g \in Handler /\ OfRecord(g, records[RecordKey(g)])
  BY DEF IInv, TypeOK, Standing
<1>2. who[g] \in Identity /\ req[g].key \in IdKey
  <2>1. who[g] # None /\ req[g].key # None
    BY <1>1 DEF OfRecord
  <2>2. req[g] \in Request
    BY <1>1 DEF OfRecord, IInv, TypeOK, Places
  <2> QED BY <1>1, <2>1, <2>2, RequestValues DEF IInv, TypeOK
<1>3. RecordKey(g) \in Actor \X IdKey
  BY <1>2, RequestValues DEF RecordKey
<1>4. records[RecordKey(g)] \in Store!Record
  BY <1>1, <1>3 DEF OfRecord, IInv, TypeOK
<1> QED BY <1>1, <1>3, <1>4, StoreValues DEF OfRecord

(* Resolve of the idempotency store, and its failures.                     *)
LEMMA IdempotencyStoreKeeps ==
    ASSUME IInv, NEW h \in Handler, IdempotencyStore(h)
    PROVE  IInv'
<1>0. PICK a \in Store!Answer :
         /\ resolved' = [resolved EXCEPT ![h] = a]
         /\ a.kind = "ok" =>
               LET rec == records'[call[h].key] IN
               /\ rec # None /\ rec.RequestHash = call[h].hash
               /\ a = [kind |-> "ok", response |-> rec.Response]
  BY StoreSteps
<1>a. /\ UNCHANGED <<platform, handlers, cache, call, gone, held>>
      /\ current' = IF a.kind = "ok" THEN current \cup {h} ELSE current
  BY <1>0 DEF IdempotencyStore, Store!Resolve, Store!Fail, IInv, TypeOK
<1>b. /\ records' \in [Actor \X IdKey -> Store!Record \cup {None}]
      /\ \A k \in Actor \X IdKey : records[k] # None => records'[k] = records[k]
  <2>1. records \in [Actor \X IdKey -> Store!Record \cup {None}]
        /\ call[h].key \in Actor \X IdKey
        /\ Store!RecordOf(call[h]) \in Store!Record
    BY StoreSteps, StoreValues DEF IInv, TypeOK
  <2>2. CASE records' = records
    BY <2>1, <2>2
  <2>3. CASE /\ records[call[h].key] = None
             /\ records' = [records EXCEPT
                              ![call[h].key] = Store!RecordOf(call[h])]
    BY <2>1, <2>3
  <2> QED BY <2>2, <2>3, StoreSteps
<1>c. call[h] \in Store!Call /\ resolved[h] = None /\ pc[h] = "resolve"
  BY StoreSteps, StoreValues DEF IInv, TypeOK, Places
<1>1. TypeOK'
  BY <1>0, <1>a, <1>b DEF platform, handlers, cache, IInv, TypeOK
<1>2. Places'
  BY <1>0, <1>a, <1>c, StoreValues
  DEF platform, handlers, cache, IInv, TypeOK, Places
<1>3. Callers'
  BY <1>0, <1>a, <1>c, StoreValues
  DEF platform, handlers, cache, IInv, TypeOK, Places, Callers, Known, Acting, Reused, Fresh, Held
<1>4. Since'
  BY <1>0, <1>a, <1>c, StoreValues
  DEF platform, handlers, cache, IInv, TypeOK, Places, Since
<1>5. Claims'
  BY <1>0, <1>a, <1>c, StoreValues
  DEF platform, handlers, cache, IInv, TypeOK, Places, Claims, Truthful
<1>6. Standing'
  <2>1. ASSUME NEW g \in Handler, pc'[g] = "resolve" PROVE Resolving(g)'
    BY <1>a, <2>1 DEF handlers, IInv, Standing, Resolving, RecordKey
  <2>2. ASSUME NEW g \in current, g # h
        PROVE  OfRecord(g, records[RecordKey(g)])'
    <3>1. /\ g \in Handler /\ OfRecord(g, records[RecordKey(g)])
          /\ RecordKey(g) \in Actor \X IdKey
      BY <2>2, CurrentKey
    <3>2. records'[RecordKey(g)] = records[RecordKey(g)] /\ RecordKey(g)' = RecordKey(g)
      BY <1>a, <1>b, <3>1 DEF OfRecord, RecordKey, handlers
    <3>3. resolved'[g] = resolved[g]
      BY <1>0, <2>2, <3>1 DEF IInv, TypeOK
    <3> QED BY <1>a, <3>1, <3>2, <3>3 DEF OfRecord, handlers
  <2>3. h \notin current
    BY <1>c, CurrentKey
  <2>4. ASSUME a.kind = "ok" PROVE OfRecord(h, records[RecordKey(h)])'
    <3>1. call[h].key = RecordKey(h) /\ call[h].hash = req[h].hash
          /\ req[h].key # None /\ who[h] # None
      BY <1>c DEF IInv, Standing, Resolving, Places
    <3>2. RecordKey(h)' = RecordKey(h) /\ resolved'[h] = a
      BY <1>0, <1>a DEF RecordKey, handlers, IInv, TypeOK
    <3> QED BY <1>0, <1>a, <1>c, <2>4, <3>1, <3>2 DEF OfRecord, handlers
  <2> QED BY <1>a, <2>1, <2>2, <2>3, <2>4 DEF Standing, IInv, TypeOK
<1> QED BY <1>1, <1>2, <1>3, <1>4, <1>5, <1>6 DEF IInv

(* A record is written and nobody told yet.                                *)
LEMMA WriteUnheardKeeps ==
    ASSUME IInv, NEW h \in Handler, WriteUnheard(h)
    PROVE  IInv'
<1>1. TypeOK'
  BY StoreValues 
  DEF WriteUnheard, Store!WriteUnheard, Store!Waiting, platform, handlers,
      cache, history, IInv, TypeOK
<1>2. Places'
  BY StoreValues 
  DEF WriteUnheard, Store!WriteUnheard, Store!Waiting, platform, handlers,
      cache, history, IInv, TypeOK, Places
<1>3. Callers'
  BY StoreValues 
  DEF WriteUnheard, Store!WriteUnheard, Store!Waiting, platform, handlers,
      cache, history, IInv, TypeOK, Places, Callers, Known, Acting, Reused, Fresh, Held
<1>4. Since'
  BY StoreValues 
  DEF WriteUnheard, Store!WriteUnheard, Store!Waiting, platform, handlers,
      cache, history, IInv, TypeOK, Places, Since
<1>5. Claims'
  BY StoreValues 
  DEF WriteUnheard, Store!WriteUnheard, Store!Waiting, platform, handlers,
      cache, history, IInv, TypeOK, Places, Claims, Truthful
<1>6. Standing'
  <2>1. ASSUME NEW g \in Handler, pc'[g] = "resolve" PROVE Resolving(g)'
    BY <2>1 DEF WriteUnheard, Store!WriteUnheard, handlers, IInv, Standing,
                Resolving, RecordKey
  <2>2. ASSUME NEW g \in current PROVE OfRecord(g, records[RecordKey(g)])'
    <3>1. records[RecordKey(g)] # None /\ records[call[h].key] = None
      BY <2>2 DEF WriteUnheard, Store!WriteUnheard, IInv, Standing, OfRecord
    <3>2. records'[RecordKey(g)] = records[RecordKey(g)]
      BY <3>1 DEF WriteUnheard, Store!WriteUnheard
    <3> QED BY <2>2, <3>2
      DEF WriteUnheard, Store!WriteUnheard, handlers, IInv, Standing,
          OfRecord, RecordKey
  <2> QED BY <2>1, <2>2 DEF WriteUnheard, history, Standing
<1> QED BY <1>1, <1>2, <1>3, <1>4, <1>5, <1>6 DEF IInv

(* A record reaches the end of its TTL.                                    *)
LEMMA RecordLapsesKeeps ==
    ASSUME IInv, NEW k \in Actor \X IdKey, RecordLapses(k)
    PROVE  IInv'
<1>1. TypeOK'
  BY DEF RecordLapses, Store!Lapse, platform, handlers, cache, IInv, TypeOK
<1>2. Places'
  BY DEF RecordLapses, Store!Lapse, platform, handlers, cache, IInv, TypeOK, Places
<1>3. Callers'
  BY DEF RecordLapses, Store!Lapse, platform, handlers, cache, IInv, TypeOK, Places, Callers, Known, Acting, Reused, Fresh, Held
<1>4. Since'
  BY DEF RecordLapses, Store!Lapse, platform, handlers, cache, IInv, TypeOK, Places, Since
<1>5. Claims'
  BY DEF RecordLapses, Store!Lapse, platform, handlers, cache, IInv, TypeOK, Places, Claims, Truthful
<1>6. Standing'
  <2>1. ASSUME NEW h \in Handler, pc'[h] = "resolve" PROVE Resolving(h)'
    BY <2>1 DEF RecordLapses, Store!Lapse, handlers, IInv, Standing, Resolving,
                RecordKey
  <2>2. ASSUME NEW h \in current' PROVE OfRecord(h, records[RecordKey(h)])'
    <3>1. h \in current /\ RecordKey(h) # k
      BY <2>2 DEF RecordLapses
    <3>2. records'[RecordKey(h)] = records[RecordKey(h)]
      BY <3>1 DEF RecordLapses, Store!Lapse, IInv, TypeOK
    <3> QED BY <3>1, <3>2 DEF RecordLapses, Store!Lapse, handlers, IInv,
                              Standing, OfRecord, RecordKey
  <2> QED BY <2>1, <2>2 DEF Standing
<1> QED BY <1>1, <1>2, <1>3, <1>4, <1>5, <1>6 DEF IInv

(* The platform revokes a key.                                             *)
LEMMA RevokeKeeps ==
    ASSUME IInv, NEW c \in Credential, Revoke(c)
    PROVE  IInv'
<1>1. TypeOK'
  BY DEF Revoke, handlers, cache, store, history, IInv, TypeOK
<1>2. Places'
  BY DEF Revoke, handlers, cache, store, history, IInv, TypeOK, Places
<1>3. Callers'
  BY DEF Revoke, handlers, cache, store, history, IInv, TypeOK, Places, Callers, Known, Acting, Reused, Fresh, Held
<1>4. Since'
  BY DEF Revoke, handlers, cache, store, history, IInv, TypeOK, Places, Since
<1>5. Claims'
  BY DEF Revoke, handlers, cache, store, history, IInv, TypeOK, Places, Claims, Truthful
<1>6. Standing'
  BY DEF Revoke, handlers, cache, store, history, IInv, TypeOK, Places, Standing, Resolving, OfRecord, RecordKey
<1> QED BY <1>1, <1>2, <1>3, <1>4, <1>5, <1>6 DEF IInv

(* An operator claims an agent.                                            *)
LEMMA ClaimKeeps ==
    ASSUME IInv, NEW a \in Agent, Claim(a)
    PROVE  IInv'
<1>1. TypeOK'
  BY DEF Claim, handlers, cache, store, history, IInv, TypeOK
<1>2. Places'
  BY DEF Claim, handlers, cache, store, history, IInv, TypeOK, Places
<1>3. Callers'
  BY DEF Claim, handlers, cache, store, history, IInv, TypeOK, Places, Callers, Known, Acting, Reused, Fresh, Held
<1>4. Since'
  BY DEF Claim, handlers, cache, store, history, RightsOf, IInv, TypeOK, Places, Since
<1>5. Claims'
  BY DEF Claim, handlers, cache, store, history, IInv, TypeOK, Places, Claims, Truthful
<1>6. Standing'
  BY DEF Claim, handlers, cache, store, history, IInv, TypeOK, Places, Standing, Resolving, OfRecord, RecordKey
<1> QED BY <1>1, <1>2, <1>3, <1>4, <1>5, <1>6 DEF IInv

(* An operator changes what an agent may do.                               *)
LEMMA DelegateKeeps ==
    ASSUME IInv, NEW a \in Actor, NEW rights \in Policy,
           Delegate(a, rights)
    PROVE  IInv'
<1>1. TypeOK'
  BY PolicyAssumption, RightsTyped 
  DEF Delegate, HoldMore, handlers, cache, store, IInv, TypeOK
<1>2. Places'
  BY DEF Delegate, HoldMore, handlers, cache, store, IInv, TypeOK, Places
<1>3. Callers'
  BY DEF Delegate, HoldMore, handlers, cache, store, IInv, TypeOK, Places, Callers, Known, Acting, Reused, Fresh, Held
<1>4. Since'
  BY DEF Delegate, HoldMore, handlers, cache, store, IInv, TypeOK, Places, Since
<1>5. Claims'
  BY DEF Delegate, HoldMore, handlers, cache, store, IInv, TypeOK, Places, Claims, Truthful
<1>6. Standing'
  BY DEF Delegate, HoldMore, handlers, cache, store, IInv, TypeOK, Places, Standing, Resolving, OfRecord, RecordKey
<1> QED BY <1>1, <1>2, <1>3, <1>4, <1>5, <1>6 DEF IInv

------------------------------------------------------------------------------
(* The invariant holds before the first request.                           *)
LEMMA Initially == Init => IInv
<1> SUFFICES ASSUME Init PROVE IInv
  OBVIOUS
<1> USE DEF Init, Cache!Init, Store!Init
<1>1. TypeOK
  BY PolicyAssumption DEF TypeOK
<1>2. Places /\ Callers /\ Since /\ Claims /\ Standing
  BY DEF Places, Callers, Known, Acting, Since, Claims, Standing
<1> QED BY <1>1, <1>2 DEF IInv

(* Every step of the gateway keeps the inductive invariant.                *)
LEMMA StepsKeep == IInv /\ [Next]_vars => IInv'
<1> SUFFICES ASSUME IInv, [Next]_vars PROVE IInv'
  OBVIOUS
<1>1. ASSUME NEW h \in Handler, Serving(h) PROVE IInv'
  BY <1>1, SessionAnswersKeeps, IdentifiedKeeps, IdentifyRevokedKeeps,
     IdentifyFailsKeeps, IssueAnswersKeeps, PassGatesKeeps,
     AnswerLocallyKeeps, ForwardKeeps, ForwardFailsKeeps,
     StoreAnswersKeeps, SessionStoreKeeps, IdempotencyStoreKeeps
  DEF Serving, Working
<1>2. CASE UNCHANGED vars
  BY <1>2
  DEF vars, platform, handlers, cache, store, history, IInv, TypeOK, Places,
      Callers, Known, Acting, Reused, Fresh, Held, Since, Claims, Truthful,
      Standing, Resolving, OfRecord, RecordKey
<1> QED
  BY <1>1, <1>2, PostKeeps, DeleteOrGetKeeps, WriteUnheardKeeps, DoneKeeps,
     SessionsRunOutKeeps, RecordLapsesKeeps, RevokeKeeps, ClaimKeeps,
     DelegateKeeps
  DEF Next, Visiting, PlatformChanges

(* The inductive invariant holds in every reachable state.                 *)
THEOREM Invariance == Spec => []IInv
BY Initially, StepsKeep, PTL DEF Spec

(* All variables keep their types.                                         *)
THEOREM TypeCorrect == Spec => []TypeOK
<1>1. IInv => TypeOK
  BY DEF IInv
<1> QED BY <1>1, Invariance, PTL

(* A key revoked before a request came lets nothing mutating through for   *)
(* the account it was the last key of, on whatever session (server.go).    *)
THEOREM RevokedKeysDoNotMutateHolds == Spec => []RevokedKeysDoNotMutate
<1>1. IInv => RevokedKeysDoNotMutate
  BY RequestValues
  DEF IInv, TypeOK, Places, Callers, Known, Acting, Reused, Fresh,
      RevokedKeysDoNotMutate
<1> QED BY <1>1, Invariance, PTL

(* The policy bits cached with a session never let a bid or a publication  *)
(* through (enforceOperatorPolicy behind requiresFreshAuthorization).      *)
THEOREM WithinDelegationHolds == Spec => []WithinDelegation
<1>1. ASSUME IInv, NEW h \in Handler, Acting(h),
             tool(req[h]) \in {"orders.submitBid", "marketplace.publish"}
      PROVE  Fresh(h) /\ needs(who[h], req[h]) \subseteq who[h].policy
  <2>1. Fresh(h)
    BY <1>1 DEF IInv, Callers, Known, Acting, Reused, mutatingTools
  <2>2. needs(who[h], req[h]) \subseteq who[h].policy
    BY <1>1 DEF IInv, Callers, Known, Gate, enforceOperatorPolicy
  <2> QED BY <2>1, <2>2
<1>2. IInv => WithinDelegation
  <2> SUFFICES ASSUME IInv, NEW h \in Handler, Acting(h)
               PROVE  /\ tool(req[h]) = "orders.submitBid" => Held(h, "canBid")
                      /\ tool(req[h]) = "marketplace.publish" =>
                            \/ Held(h, "unclaimed")
                            \/ /\ Held(h, "canPublish")
                               /\ req[h].dynamic =>
                                     Held(h, "allowDynamicPricing")
    BY DEF WithinDelegation
  <2>1. CASE tool(req[h]) = "orders.submitBid"
    BY <1>1, <2>1 DEF needs, Fresh
  <2>2. CASE tool(req[h]) = "marketplace.publish"
    BY <1>1, <2>2 DEF needs, Fresh
  <2> QED BY <2>1, <2>2
<1> QED BY <1>2, Invariance, PTL

(* An agent nobody has claimed is kept to the tourist tools                *)
(* (rejectUnboundMutatingAgent), for a claim is never cached untruly.      *)
THEOREM TouristContainmentHolds == Spec => []TouristContainment
<1>1. ASSUME IInv, NEW h \in Handler, Acting(h),
             tool(req[h]) \notin touristTools
      PROVE  who[h].id \in claimed \cup (Actor \ Agent)
  <2>1. ~ unclaimed(who[h])
    BY <1>1 DEF IInv, Callers, Known, Gate, rejectUnboundMutatingAgent
  <2>2. Truthful(who[h]) /\ who[h].id \in Actor
    BY <1>1, RequestValues DEF IInv, TypeOK, Claims, Acting
  <2> QED BY <2>1, <2>2 DEF unclaimed, Truthful
<1>2. IInv => TouristContainment
  BY <1>1 DEF TouristContainment
<1> QED BY <1>2, Invariance, PTL

(* The gates judged the account the forwarded credential belongs to        *)
(* (authenticate: a session counts only without Authorization).            *)
THEOREM ActsForItsCallerHolds == Spec => []ActsForItsCaller
<1>1. IInv => ActsForItsCaller
  BY DEF IInv, Callers, Known, Acting, Reused, Fresh, ActsForItsCaller
<1> QED BY <1>1, Invariance, PTL

(* The stateless revision keeps its hands off the sessions (serveStateless *)
(* drops the header, authenticate is told not to issue).                   *)
THEOREM StatelessIgnoresSessionsHolds == Spec => []StatelessIgnoresSessions
<1>1. IInv => StatelessIgnoresSessions
  BY DEF IInv, Places, StatelessIgnoresSessions
<1> QED BY <1>1, Invariance, PTL

(* All replies on one standing record are the same, to the same params     *)
(* (serveTool sends what Resolve returned).                                *)
THEOREM RepliesAgreeHolds == Spec => []RepliesAgree
<1>1. ASSUME IInv, NEW g \in Handler, NEW h \in Handler,
             Replied(g), Replied(h), RecordKey(g) = RecordKey(h)
      PROVE  reply[g] = reply[h] /\ req[g].hash = req[h].hash
  <2>1. \A x \in {g, h} : OfRecord(x, records[RecordKey(x)]) /\ pc[x] = "replied"
    BY <1>1 DEF IInv, Standing, Replied
  <2> QED BY <1>1, <2>1 DEF OfRecord
<1>2. IInv => RepliesAgree
  BY <1>1 DEF RepliesAgree
<1> QED BY <1>2, Invariance, PTL

(***************************************************************************)
(* What EveryRequestAnswered rests on beside fairness: a handler at work   *)
(* always has a step to take, and none but finitely many of them.  The     *)
(* first needs that each answer of a store is one its caller has a branch  *)
(* for.                                                                    *)
(***************************************************************************)
Answerable(h) ==
    /\ pc[h] = "session" =>
          op[h].kind = IF req[h].http = "DELETE" THEN "delete" ELSE "get"
    /\ pc[h] = "issue" => op[h].kind = "issue"
    /\ told[h] # None =>
          \/ op[h].kind = "get" /\ told[h].kind \in {"actor", "missing"}
          \/ op[h].kind = "delete" /\ told[h].kind \in {"deleted", "error"}
          \/ op[h].kind = "issue" /\ told[h].kind \in {"issued", "error"}
    /\ \/ pc[h] \in {"identify", "issue", "gates", "forward"}
       \/ pc[h] = "session" /\ req[h].http = "POST"
       => tool(req[h]) \in allowedTools

(* The guards of the steps of Serving(h).                                  *)
CanStep(h) ==
    \/ pc[h] \in {"identify", "gates"}
    \/ /\ pc[h] = "forward"
       /\ tool(req[h]) \in localTools \/ forwardsToPlatform(tool(req[h]))
    \/ \E kind \in {"get", "issue", "delete"} : Cache!Pending(h, kind)
    \/ /\ pc[h] = "session" /\ told[h] # None
       /\ \/ told[h].kind \in {"missing", "deleted", "error"}
          \/ told[h].kind = "actor" /\ req[h].http \in {"GET", "POST"}
    \/ /\ pc[h] = "issue" /\ told[h] # None
       /\ told[h].kind \in {"issued", "error"}
    \/ pc[h] = "resolve" /\ (Store!Waiting(h) \/ resolved[h] # None)

NeverStuck == \A h \in Handler : pc[h] \notin {"idle", "replied"} => CanStep(h)

(* How many steps of its own h may still take before it has replied.       *)
Place == [idle |-> 0, replied |-> 0, resolve |-> 2, forward |-> 3, gates |-> 4,
          issue |-> 6, session |-> 6, identify |-> 7]

Heard(h) == told[h] # None \/ resolved[h] # None

StepsLeft(h) == IF Heard(h) THEN Place[pc[h]] - 1 ELSE Place[pc[h]]

(* Each step of its own is one less, and only a new request gives h more.  *)
Nearer ==
    [][\A h \in Handler :
          /\ Serving(h) => StepsLeft(h)' < StepsLeft(h)
          /\ StepsLeft(h)' > StepsLeft(h) => pc[h] = "idle"]_vars

(* The handlers other than the one that steps stay where they are.         *)
LEMMA OthersStay ==
    ASSUME IInv, NEW h \in Handler,
           Visiting(h) \/ Serving(h) \/ WriteUnheard(h),
           NEW g \in Handler, g # h
    PROVE  /\ pc'[g] = pc[g] /\ req'[g] = req[g] /\ op'[g] = op[g]
           /\ told'[g] = told[g] /\ resolved'[g] = resolved[g]
<1>. USE DEF IInv, TypeOK, Goto, Answer, Refuse, cache, store, handlers,
             Cache!Call, Cache!Return, Store!Ask, Store!Return
<1>1. CASE Visiting(h)
  BY <1>1 DEF Visiting, Post, DeleteOrGet, Done, Arrive
<1>2. CASE Working(h)
  BY <1>2
  DEF Working, SessionAnswers, Identified, IdentifyRevoked, IdentifyFails,
      IssueAnswers, PassGates, AnswerLocally, Forward, ForwardFails, Outcome,
      StoreAnswers
<1>3. CASE SessionStore(h)
  BY <1>3
  DEF SessionStore, Cache!Issue, Cache!Get, Cache!Delete, Cache!Fail, Cache!Tell
<1>4. CASE IdempotencyStore(h)
  BY <1>4 DEF IdempotencyStore, Store!Resolve, Store!Fail
<1>5. CASE WriteUnheard(h)
  BY <1>5 DEF WriteUnheard, Store!WriteUnheard
<1>. QED
  BY <1>1, <1>2, <1>3, <1>4, <1>5 DEF Serving

(* Nothing else that happens moves a handler.                              *)
LEMMA OutsideMovesNobody ==
    ASSUME \/ SessionsRunOut
           \/ \E k \in Actor \X IdKey : RecordLapses(k)
           \/ PlatformChanges
           \/ UNCHANGED vars
    PROVE  UNCHANGED <<pc, req, op, told, resolved>>
BY DEF SessionsRunOut, Cache!RunOut, RecordLapses, Store!Lapse, PlatformChanges,
       Revoke, Claim, Delegate, vars, handlers, cache, store

(* The tool of an authenticated request is one the endpoint has.           *)
LEMMA AllowedBehindEntrance ==
    ASSUME NEW r, Entrance(r) \notin Refusal
    PROVE  tool(r) \in allowedTools
BY DEF Entrance, Refusal, allowedTool, tool

AllAnswerable == \A h \in Handler : Answerable(h)

LEMMA VisitAnswerable ==
    ASSUME IInv, AllAnswerable, NEW h \in Handler, Visiting(h)
    PROVE  Answerable(h)'
<1>. USE DEF IInv, TypeOK, Goto, Answer, Refuse
<1>1. pc[h] = "idle" => told[h] = None
  BY DEF Places
<1>2. ASSUME NEW r \in Request, Post(h, r) PROVE Answerable(h)'
  <2>1. CASE Entrance(r) \in Refusal
    BY <1>1, <1>2, <2>1 DEF Post, Arrive, Answerable, Refusal, cache
  <2>2. CASE Entrance(r) \notin Refusal
    BY <1>1, <1>2, <2>2, AllowedBehindEntrance
    DEF Post, Arrive, Answerable, Cache!Call, cache
  <2>. QED
    BY <2>1, <2>2
<1>3. ASSUME NEW r \in Request, DeleteOrGet(h, r) PROVE Answerable(h)'
  BY <1>1, <1>3 DEF DeleteOrGet, Arrive, Answerable, Cache!Call, cache
<1>4. CASE Done(h)
  BY <1>4 DEF Done, Answerable, AllAnswerable, cache
<1>. QED
  BY <1>2, <1>3, <1>4 DEF Visiting

LEMMA WorkAnswerable ==
    ASSUME IInv, AllAnswerable, NEW h \in Handler, Working(h)
    PROVE  Answerable(h)'
<1>. USE DEF IInv, TypeOK, Goto, Answer, Refuse, AllAnswerable
<1>1. CASE SessionAnswers(h)
  BY <1>1 DEF SessionAnswers, Cache!Return, Answerable, Places
<1>2. CASE Identified(h)
  BY <1>2 DEF Identified, Cache!Call, Answerable, Places, cache
<1>3. CASE IssueAnswers(h)
  BY <1>3 DEF IssueAnswers, Cache!Return, Answerable
<1>4. CASE PassGates(h)
  BY <1>4 DEF PassGates, Answerable, cache
<1>5. CASE \/ IdentifyRevoked(h) \/ IdentifyFails(h) \/ AnswerLocally(h)
           \/ Forward(h) \/ ForwardFails(h) \/ StoreAnswers(h)
  BY <1>5
  DEF IdentifyRevoked, IdentifyFails, AnswerLocally, Forward, ForwardFails,
      StoreAnswers, Outcome, Answerable, cache
<1>. QED
  BY <1>1, <1>2, <1>3, <1>4, <1>5 DEF Working

LEMMA StoresAnswerable ==
    ASSUME IInv, AllAnswerable, NEW h \in Handler,
           SessionStore(h) \/ IdempotencyStore(h) \/ WriteUnheard(h)
    PROVE  Answerable(h)'
<1>. USE DEF IInv, TypeOK, AllAnswerable, handlers, cache
<1>1. CASE SessionStore(h)
  BY <1>1
  DEF SessionStore, Cache!Issue, Cache!Get, Cache!Delete, Cache!Fail,
      Cache!Pending, Cache!Tell, Answerable
<1>2. CASE IdempotencyStore(h) \/ WriteUnheard(h)
  BY <1>2 DEF IdempotencyStore, WriteUnheard, Answerable
<1>. QED
  BY <1>1, <1>2

LEMMA AnswerableKept == IInv /\ AllAnswerable /\ [Next]_vars => AllAnswerable'
<1>. SUFFICES ASSUME IInv, AllAnswerable, [Next]_vars PROVE AllAnswerable'
  OBVIOUS
<1>1. ASSUME NEW h \in Handler, Visiting(h) \/ Serving(h) \/ WriteUnheard(h)
      PROVE  AllAnswerable'
  <2>1. Answerable(h)'
    BY <1>1, VisitAnswerable, WorkAnswerable, StoresAnswerable DEF Serving
  <2>2. ASSUME NEW g \in Handler, g # h PROVE Answerable(g)'
    <3>1. /\ pc'[g] = pc[g] /\ req'[g] = req[g] /\ op'[g] = op[g]
          /\ told'[g] = told[g]
      BY <1>1, <2>2, OthersStay
    <3>. QED
      BY <3>1 DEF AllAnswerable, Answerable
  <2>. QED
    BY <2>1, <2>2 DEF AllAnswerable
<1>2. CASE \/ SessionsRunOut
           \/ \E k \in Actor \X IdKey : RecordLapses(k)
           \/ PlatformChanges
           \/ UNCHANGED vars
  BY <1>2, OutsideMovesNobody DEF AllAnswerable, Answerable
<1>. QED
  BY <1>1, <1>2 DEF Next

(* A handler that serves a request can always go on: each answer of a store*)
(* or a gate is one that serveTool and authenticate have a branch for.     *)
THEOREM NeverStuckHolds == Spec => []NeverStuck
<1>1. Init => AllAnswerable
  BY DEF Init, Cache!Init, AllAnswerable, Answerable
<1>2. IInv /\ AllAnswerable => NeverStuck
  <2>. SUFFICES ASSUME IInv, AllAnswerable, NEW h \in Handler,
                       pc[h] \notin {"idle", "replied"}
                PROVE  CanStep(h)
    BY DEF NeverStuck
  <2>. USE DEF IInv, Places, AllAnswerable, Answerable, CanStep
  <2>1. CASE pc[h] \in {"identify", "gates"}
    BY <2>1
  <2>2. CASE pc[h] = "forward"
    BY <2>2 DEF forwardsToPlatform
  <2>3. CASE pc[h] \in {"session", "issue"} /\ told[h] = None
    BY <2>3 DEF Cache!Pending
  <2>4. CASE pc[h] = "session" /\ told[h] # None
    <3>1. req[h] \in Request /\ req[h].http \in {"POST", "GET", "DELETE"}
      BY <2>4, RequestValues DEF TypeOK
    <3>. QED
      BY <2>4, <3>1
  <2>5. CASE pc[h] = "issue" /\ told[h] # None
    BY <2>5
  <2>6. CASE pc[h] = "resolve"
    BY <2>6 DEF Store!Waiting
  <2>. QED
    BY <2>1, <2>2, <2>3, <2>4, <2>5, <2>6 DEF TypeOK
<1>. QED
  BY <1>1, <1>2, AnswerableKept, Invariance, PTL DEF Spec

(* A handler at work has an answer of one store at most.                   *)
LEMMA StepsAtWork ==
    ASSUME IInv, NEW h \in Handler
    PROVE  /\ StepsLeft(h) \in Nat
           /\ pc[h] \in {"idle", "replied"} => StepsLeft(h) = 0
           /\ pc[h] \notin {"session", "issue", "resolve"} =>
                 StepsLeft(h) = Place[pc[h]]
BY DEF IInv, TypeOK, Places, StepsLeft, Place, Heard

LEMMA WorkNearer ==
    ASSUME IInv, IInv', NEW h \in Handler, Working(h)
    PROVE  StepsLeft(h)' < StepsLeft(h)
<1>. USE DEF IInv, TypeOK, Places, Goto, Answer, Refuse, StepsLeft, Place, Heard,
             cache, store
<1>1. CASE SessionAnswers(h)
  BY <1>1 DEF SessionAnswers, Cache!Return
<1>2. CASE Identified(h)
  BY <1>2 DEF Identified, Cache!Call
<1>3. CASE IssueAnswers(h)
  BY <1>3 DEF IssueAnswers, Cache!Return
<1>4. CASE IdentifyRevoked(h) \/ IdentifyFails(h) \/ PassGates(h)
  BY <1>4 DEF IdentifyRevoked, IdentifyFails, PassGates
<1>5. CASE AnswerLocally(h) \/ Forward(h) \/ ForwardFails(h)
  BY <1>5 DEF AnswerLocally, Forward, ForwardFails, Outcome, Store!Ask
<1>6. CASE StoreAnswers(h)
  BY <1>6 DEF StoreAnswers, Store!Return
<1>. QED
  BY <1>1, <1>2, <1>3, <1>4, <1>5, <1>6 DEF Working

LEMMA StoresNearer ==
    ASSUME IInv, IInv', NEW h \in Handler, SessionStore(h) \/ IdempotencyStore(h)
    PROVE  StepsLeft(h)' < StepsLeft(h)
<1>. USE DEF IInv, TypeOK, Places, StepsLeft, Place, Heard, handlers, cache, store
<1>1. CASE SessionStore(h)
  <2>1. \E a \in Cache!Answer : Cache!Tell(h, a) /\ op[h] # None /\ told[h] = None
    BY <1>1, SessionValues
    DEF SessionStore, Cache!Issue, Cache!Get, Cache!Delete, Cache!Fail,
        Cache!Pending
  <2>2. told'[h] # None
    BY <2>1, SessionValues DEF Cache!Tell
  <2>. QED
    BY <1>1, <2>1, <2>2 DEF SessionStore
<1>2. CASE IdempotencyStore(h)
  <2>1. /\ call[h] \in Store!Call
        /\ \/ \E d \in Store!Record : resolved'[h] = Store!Verdict(d, call[h])
           \/ resolved'[h] = [kind |-> "error"]
    BY <1>2, StoreValues
    DEF IdempotencyStore, Store!Resolve, Store!Fail, Store!Waiting
  <2>2. resolved'[h] # None
    BY <2>1, VerdictValues, StoreValues
  <2>. QED
    BY <1>2, <2>2
    DEF IdempotencyStore, Store!Resolve, Store!Fail, Store!Waiting
<1>. QED
  BY <1>1, <1>2

(* No request keeps its handler going for ever: no call of serveTool is    *)
(* made twice, and no step of another handler, of a store or of the        *)
(* platform's users sends it back.                                         *)
THEOREM NearerHolds == Spec => Nearer
<1>1. ASSUME IInv, IInv', [Next]_vars, NEW h \in Handler
      PROVE  /\ Serving(h) => StepsLeft(h)' < StepsLeft(h)
             /\ StepsLeft(h)' > StepsLeft(h) => pc[h] = "idle"
  <2>1. Serving(h) => StepsLeft(h)' < StepsLeft(h)
    BY <1>1, WorkNearer, StoresNearer DEF Serving
  <2>2. StepsLeft(h) \in Nat /\ StepsLeft(h)' \in Nat
    BY <1>1, StepsAtWork DEF IInv, TypeOK, Places, StepsLeft, Place, Heard
  <2>3. CASE Serving(h)
    BY <2>1, <2>2, <2>3
  <2>4. CASE Visiting(h)
    <3>1. CASE Done(h)
      <4>1. StepsLeft(h) = 0 /\ StepsLeft(h)' = 0
        BY <1>1, <3>1, StepsAtWork
        DEF Done, IInv, TypeOK, Places, Goto, StepsLeft, Place, Heard, cache, store
      <4>. QED
        BY <2>1, <4>1
    <3>. QED
      BY <2>1, <2>4, <3>1 DEF Visiting, Post, DeleteOrGet, Arrive
  <2>5. CASE WriteUnheard(h)
    <3>1. StepsLeft(h)' = StepsLeft(h)
      BY <2>5 DEF WriteUnheard, Store!WriteUnheard, handlers, cache, StepsLeft,
                  Heard, Place
    <3>. QED
      BY <2>1, <2>2, <3>1
  <2>6. ASSUME NEW g \in Handler, g # h, Visiting(g) \/ Serving(g) \/ WriteUnheard(g)
        PROVE  StepsLeft(h)' = StepsLeft(h)
    BY <1>1, <2>6, OthersStay DEF StepsLeft, Heard, Place
  <2>7. CASE \/ SessionsRunOut
             \/ \E k \in Actor \X IdKey : RecordLapses(k)
             \/ PlatformChanges
             \/ UNCHANGED vars
    <3>1. StepsLeft(h)' = StepsLeft(h)
      BY <2>7, OutsideMovesNobody DEF StepsLeft, Heard, Place
    <3>. QED
      BY <2>1, <2>2, <3>1
  <2>. QED
    BY <1>1, <2>1, <2>2, <2>3, <2>4, <2>5, <2>6, <2>7 DEF Next
<1>2. IInv /\ IInv' /\ [Next]_vars =>
        [\A h \in Handler :
            /\ Serving(h) => StepsLeft(h)' < StepsLeft(h)
            /\ StepsLeft(h)' > StepsLeft(h) => pc[h] = "idle"]_vars
  BY <1>1
<1>. QED
  BY <1>2, Invariance, PTL DEF Nearer, Spec
==============================================================================
