------------------------ MODULE RedisIdempotencyProofs ------------------------
(***************************************************************************)
(* Proofs about RedisIdempotency for any set of callers, keys, hashes and  *)
(* responses and any number of resends: the inductive invariant, what it   *)
(* gives, and that the two-command store implements the atomic one.        *)
(***************************************************************************)
EXTENDS RedisIdempotency, TLAPS

(* The sets of the abstract module, opened once.                           *)
LEMMA Sets ==
    /\ Record = [RequestHash : Hash, Response : Response]
    /\ Call = [key : Key, hash : Hash, response : Response]
    /\ Answer = [kind : {"ok"}, response : Response]
                  \cup [kind : {"conflict", "error"}]
BY DEF Record, Call, Answer, Abstract!Record, Abstract!Call, Abstract!Answer

(* The empty store satisfies the invariant.                                *)
LEMMA InitInv == Init => IInv
BY ResendsAssumption
DEF Init, Abstract!Init, IInv, TypeOK, Shape, Standing, Provenance,
    AnswersItsOwnRequest, ConflictIsReal

(* Resolve is called.                                                      *)
LEMMA AskInv ==
    ASSUME IInv, NEW c \in Caller, NEW q \in Call, Ask(c, q)
    PROVE  IInv'
<1>. USE Sets, NoneAssumption, ResendsAssumption
<1>1. TypeOK'
  BY DEF IInv, TypeOK, Ask
<1>2. Shape'
  BY DEF IInv, TypeOK, Shape, Ask
<1>3. Standing'
  BY DEF IInv, TypeOK, Shape, Standing, Ask
<1>4. Provenance'
  BY DEF IInv, TypeOK, Provenance, Ask
<1>5. AnswersItsOwnRequest'
  BY DEF IInv, TypeOK, Shape, AnswersItsOwnRequest, Ask
<1>6. ConflictIsReal'
  BY DEF IInv, TypeOK, Shape, ConflictIsReal, Ask
<1>. QED
  BY <1>1, <1>2, <1>3, <1>4, <1>5, <1>6 DEF IInv

(* SET NX writes the record.                                               *)
LEMMA SetNXInv ==
    ASSUME IInv, NEW c \in Caller, SetNX(c)
    PROVE  IInv'
<1>. USE Sets, NoneAssumption, ResendsAssumption
<1>1. TypeOK'
  BY DEF IInv, TypeOK, Shape, SetNX, Tell, Abstract!RecordOf
<1>2. Shape'
  BY DEF IInv, TypeOK, Shape, SetNX, Tell
<1>3. Standing'
  BY DEF IInv, TypeOK, Shape, Standing, SetNX, Tell, Abstract!RecordOf
<1>4. Provenance'
  BY DEF IInv, TypeOK, Shape, Provenance, SetNX, Tell, Abstract!RecordOf
<1>5. AnswersItsOwnRequest'
  BY DEF IInv, TypeOK, Shape, Provenance, AnswersItsOwnRequest, SetNX, Tell
<1>6. ConflictIsReal'
  BY DEF IInv, TypeOK, Shape, ConflictIsReal, SetNX, Tell
<1>. QED
  BY <1>1, <1>2, <1>3, <1>4, <1>5, <1>6 DEF IInv

(* SET NX finds the key taken.                                             *)
LEMMA SetNXTakenInv ==
    ASSUME IInv, NEW c \in Caller, SetNXTaken(c)
    PROVE  IInv'
<1>. USE Sets, NoneAssumption, ResendsAssumption
<1>1. TypeOK'
  BY DEF IInv, TypeOK, Shape,
         SetNXTaken
<1>2. Shape'
  BY DEF IInv, TypeOK, Shape,
         SetNXTaken
<1>3. Standing'
  BY DEF IInv, TypeOK, Shape, Standing,
         SetNXTaken
<1>4. Provenance'
  BY DEF IInv, TypeOK, Shape, Provenance,
         SetNXTaken
<1>5. AnswersItsOwnRequest'
  BY DEF IInv, TypeOK, Shape, Provenance, AnswersItsOwnRequest,
         SetNXTaken
<1>6. ConflictIsReal'
  BY DEF IInv, TypeOK, Shape, Provenance, ConflictIsReal,
         SetNXTaken
<1>. QED
  BY <1>1, <1>2, <1>3, <1>4, <1>5, <1>6 DEF IInv

(* GET reads the standing record, and the hashes are compared.             *)
LEMMA GetInv ==
    ASSUME IInv, NEW c \in Caller, Get(c)
    PROVE  IInv'
<1>. USE Sets, NoneAssumption, ResendsAssumption
<1>1. TypeOK'
  BY DEF IInv, TypeOK, Shape,
         Get, Tell, Abstract!Verdict
<1>2. Shape'
  BY DEF IInv, TypeOK, Shape,
         Get, Tell, Abstract!Verdict
<1>3. Standing'
  BY DEF IInv, TypeOK, Shape, Standing,
         Get, Tell, Abstract!Verdict
<1>4. Provenance'
  BY DEF IInv, TypeOK, Shape, Provenance,
         Get, Tell, Abstract!Verdict
<1>5. AnswersItsOwnRequest'
  <2>1. SUFFICES ASSUME NEW d \in Caller, answer'[d] # None,
                        answer'[d].kind = "ok"
                 PROVE  <<call'[d].key, call'[d].hash, answer'[d].response>>
                          \in offered'
    BY DEF AnswersItsOwnRequest
  <2>2. CASE d = c
    <3>1. call[c] \in Call /\ call'[c] = call[c] /\ offered' = offered
      BY DEF IInv, TypeOK, Shape, Get, Tell
    <3>2. answer'[c] = Abstract!Verdict(records[call[c].key], call[c])
      BY DEF IInv, TypeOK, Get, Tell
    <3>3. /\ records[call[c].key].RequestHash = call[c].hash
          /\ answer'[c].response = records[call[c].key].Response
      <4>1. CASE records[call[c].key].RequestHash # call[c].hash
        <5>1. answer'[c] = [kind |-> "conflict"]
          BY <3>2, <4>1 DEF Abstract!Verdict
        <5>. QED
          BY <2>1, <2>2, <5>1
      <4>2. CASE records[call[c].key].RequestHash = call[c].hash
        BY <3>2, <4>2 DEF Abstract!Verdict
      <4>. QED
        BY <4>1, <4>2
    <3>. QED
      BY <2>2, <3>1, <3>3 DEF IInv, Provenance, Get
  <2>3. CASE d # c
    BY <2>1, <2>3 DEF IInv, TypeOK, AnswersItsOwnRequest, Get, Tell
  <2>. QED
    BY <2>2, <2>3
<1>6. ConflictIsReal'
  <2>1. SUFFICES ASSUME NEW d \in Caller, answer'[d] # None,
                        answer'[d].kind = "conflict"
                 PROVE  \E o \in offered' :
                           o[1] = call'[d].key /\ o[2] # call'[d].hash
    BY DEF ConflictIsReal
  <2>2. CASE d = c
    <3>1. /\ call[c] \in Call /\ call'[c] = call[c] /\ offered' = offered
          /\ records[call[c].key] # None
      BY DEF IInv, TypeOK, Shape, Get, Tell
    <3>2. answer'[c] = Abstract!Verdict(records[call[c].key], call[c])
      BY DEF IInv, TypeOK, Get, Tell
    <3>3. records[call[c].key].RequestHash # call[c].hash
      <4>1. SUFFICES ASSUME records[call[c].key].RequestHash = call[c].hash
                     PROVE  FALSE
        OBVIOUS
      <4>2. answer'[c] = [kind |-> "ok",
                          response |-> records[call[c].key].Response]
        BY <3>2, <4>1 DEF Abstract!Verdict
      <4>. QED
        BY <2>1, <2>2, <4>2
    <3>4. <<call[c].key, records[call[c].key].RequestHash,
            records[call[c].key].Response>> \in offered
      BY <3>1 DEF IInv, Provenance
    <3>. QED
      BY <2>2, <3>1, <3>3, <3>4
  <2>3. CASE d # c
    BY <2>1, <2>3 DEF IInv, TypeOK, ConflictIsReal, Get, Tell
  <2>. QED
    BY <2>2, <2>3
<1>. QED
  BY <1>1, <1>2, <1>3, <1>4, <1>5, <1>6 DEF IInv

(* GET finds the record lapsed.                                            *)
LEMMA GetGoneInv ==
    ASSUME IInv, NEW c \in Caller, GetGone(c)
    PROVE  IInv'
<1>. USE Sets, NoneAssumption, ResendsAssumption
<1>1. TypeOK'
  BY DEF IInv, TypeOK, Shape,
         GetGone, Tell
<1>2. Shape'
  BY DEF IInv, TypeOK, Shape,
         GetGone, Tell
<1>3. Standing'
  BY DEF IInv, TypeOK, Shape, Standing,
         GetGone, Tell
<1>4. Provenance'
  BY DEF IInv, TypeOK, Shape, Provenance,
         GetGone, Tell
<1>5. AnswersItsOwnRequest'
  BY DEF IInv, TypeOK, Shape, Provenance, AnswersItsOwnRequest,
         GetGone, Tell
<1>6. ConflictIsReal'
  BY DEF IInv, TypeOK, Shape, Provenance, ConflictIsReal,
         GetGone, Tell
<1>. QED
  BY <1>1, <1>2, <1>3, <1>4, <1>5, <1>6 DEF IInv

(* A command is lost and sent again.                                       *)
LEMMA ResendInv ==
    ASSUME IInv, NEW c \in Caller, Resend(c)
    PROVE  IInv'
<1>. USE Sets, NoneAssumption, ResendsAssumption
<1>1. TypeOK'
  BY DEF IInv, TypeOK, Shape,
         Resend, MaybeWritten, Abstract!RecordOf
<1>2. Shape'
  BY DEF IInv, TypeOK, Shape,
         Resend, MaybeWritten, Abstract!RecordOf
<1>3. Standing'
  BY DEF IInv, TypeOK, Shape, Standing,
         Resend, MaybeWritten, Abstract!RecordOf
<1>4. Provenance'
  BY DEF IInv, TypeOK, Shape, Provenance,
         Resend, MaybeWritten, Abstract!RecordOf
<1>5. AnswersItsOwnRequest'
  BY DEF IInv, TypeOK, Shape, Provenance, AnswersItsOwnRequest,
         Resend, MaybeWritten, Abstract!RecordOf
<1>6. ConflictIsReal'
  BY DEF IInv, TypeOK, Shape, Provenance, ConflictIsReal,
         Resend, MaybeWritten, Abstract!RecordOf
<1>. QED
  BY <1>1, <1>2, <1>3, <1>4, <1>5, <1>6 DEF IInv

(* A command is lost for the last time.                                    *)
LEMMA GiveUpInv ==
    ASSUME IInv, NEW c \in Caller, GiveUp(c)
    PROVE  IInv'
<1>. USE Sets, NoneAssumption, ResendsAssumption
<1>1. TypeOK'
  BY DEF IInv, TypeOK, Shape,
         GiveUp, Tell, MaybeWritten, Abstract!RecordOf
<1>2. Shape'
  BY DEF IInv, TypeOK, Shape,
         GiveUp, Tell, MaybeWritten, Abstract!RecordOf
<1>3. Standing'
  BY DEF IInv, TypeOK, Shape, Standing,
         GiveUp, Tell, MaybeWritten, Abstract!RecordOf
<1>4. Provenance'
  BY DEF IInv, TypeOK, Shape, Provenance,
         GiveUp, Tell, MaybeWritten, Abstract!RecordOf
<1>5. AnswersItsOwnRequest'
  BY DEF IInv, TypeOK, Shape, Provenance, AnswersItsOwnRequest,
         GiveUp, Tell, MaybeWritten, Abstract!RecordOf
<1>6. ConflictIsReal'
  BY DEF IInv, TypeOK, Shape, Provenance, ConflictIsReal,
         GiveUp, Tell, MaybeWritten, Abstract!RecordOf
<1>. QED
  BY <1>1, <1>2, <1>3, <1>4, <1>5, <1>6 DEF IInv

(* The handler goes on with its answer.                                    *)
LEMMA ReturnInv ==
    ASSUME IInv, NEW c \in Caller, Return(c)
    PROVE  IInv'
<1>. USE Sets, NoneAssumption, ResendsAssumption
<1>1. TypeOK'
  BY DEF IInv, TypeOK, Shape,
         Return
<1>2. Shape'
  BY DEF IInv, TypeOK, Shape,
         Return
<1>3. Standing'
  BY DEF IInv, TypeOK, Shape, Standing,
         Return
<1>4. Provenance'
  BY DEF IInv, TypeOK, Shape, Provenance,
         Return
<1>5. AnswersItsOwnRequest'
  BY DEF IInv, TypeOK, Shape, Provenance, AnswersItsOwnRequest,
         Return
<1>6. ConflictIsReal'
  BY DEF IInv, TypeOK, Shape, Provenance, ConflictIsReal,
         Return
<1>. QED
  BY <1>1, <1>2, <1>3, <1>4, <1>5, <1>6 DEF IInv

(* A record lapses.                                                        *)
LEMMA LapseInv ==
    ASSUME IInv, NEW k \in Key, Lapse(k)
    PROVE  IInv'
<1>. USE Sets, NoneAssumption, ResendsAssumption
<1>1. TypeOK'
  BY DEF IInv, TypeOK, Shape,
         Lapse
<1>2. Shape'
  BY DEF IInv, TypeOK, Shape,
         Lapse
<1>3. Standing'
  BY DEF IInv, TypeOK, Shape, Standing,
         Lapse
<1>4. Provenance'
  BY DEF IInv, TypeOK, Shape, Provenance,
         Lapse
<1>5. AnswersItsOwnRequest'
  BY DEF IInv, TypeOK, Shape, Provenance, AnswersItsOwnRequest,
         Lapse
<1>6. ConflictIsReal'
  BY DEF IInv, TypeOK, Shape, Provenance, ConflictIsReal,
         Lapse
<1>. QED
  BY <1>1, <1>2, <1>3, <1>4, <1>5, <1>6 DEF IInv

(* A step that changes nothing.                                            *)
LEMMA StutterInv == IInv /\ UNCHANGED vars => IInv'
BY DEF IInv, TypeOK, Shape, Standing, Provenance, AnswersItsOwnRequest,
       ConflictIsReal, vars

(* Every step of the store keeps the inductive invariant.                  *)
LEMMA NextInv == IInv /\ [Next]_vars => IInv'
<1>1. ASSUME IInv, NEW c \in Caller, NEW q \in Call, Ask(c, q) PROVE IInv'
  BY <1>1, AskInv
<1>2. ASSUME IInv, NEW c \in Caller, Resolving(c) PROVE IInv'
  BY <1>2, SetNXInv, SetNXTakenInv, GetInv, GetGoneInv, ResendInv, GiveUpInv
  DEF Resolving
<1>. QED
  BY <1>1, <1>2, ReturnInv, LapseInv, StutterInv DEF Next

(* The inductive invariant holds in every reachable state.                 *)
THEOREM Invariance == Spec => []IInv
BY InitInv, NextInv, PTL DEF Spec

(* Every variable of the store keeps its type.                             *)
THEOREM TypeCorrect == Spec => []TypeOK
<1>1. IInv => TypeOK
  BY DEF IInv
<1>. QED
  BY Invariance, <1>1, PTL

(* Requests answered from one standing record got one response, for one    *)
(* request hash: the promise Resolve makes to a client that retries.       *)
THEOREM AgreementHolds == Spec => []Agreement
<1>1. IInv => Agreement
  BY DEF IInv, TypeOK, Standing, Agreement
<1>. QED
  BY Invariance, <1>1, PTL

(* An answer always comes from a request with the same key and hash.       *)
THEOREM AnswersItsOwnRequestHolds == Spec => []AnswersItsOwnRequest
<1>1. IInv => AnswersItsOwnRequest
  BY DEF IInv
<1>. QED
  BY Invariance, <1>1, PTL

(* A conflict is only reported when the key was used with another hash.    *)
THEOREM ConflictIsRealHolds == Spec => []ConflictIsReal
<1>1. IInv => ConflictIsReal
  BY DEF IInv
<1>. QED
  BY Invariance, <1>1, PTL

(* No step replaces a standing record.                                     *)
THEOREM FirstWriterWinsHolds == Spec => FirstWriterWins
<1>1. ASSUME IInv, [Next]_vars, NEW k \in Key, records[k] # None
      PROVE  records'[k] \in {records[k], None}
  BY <1>1 DEF IInv, TypeOK, Next, Resolving, Ask, SetNX, SetNXTaken, Get,
              GetGone, Resend, GiveUp, MaybeWritten, Tell, Return, Lapse, vars
<1>2. IInv /\ [Next]_vars =>
        [\A k \in Key : records[k] # None => records'[k] \in {records[k], None}]_vars
  BY <1>1
<1>. QED
  BY Invariance, <1>2, PTL DEF Spec, FirstWriterWins

(* SET NX that succeeds, and GET with its comparison, are the moments of   *)
(* the atomic decision; a lost SET NX is a write its caller has not heard  *)
(* of; the rest of the commands change nothing the abstract store has.     *)
THEOREM Refinement == Spec => ImplementsAbstract
<1>. USE Sets, NoneAssumption
<1>1. Init => Abstract!Init
  BY DEF Init
<1>2. ASSUME IInv, [Next]_vars
      PROVE  [Abstract!Next]_(Abstract!vars)
  <2>1. ASSUME NEW c \in Caller, NEW q \in Call, Ask(c, q)
        PROVE  Abstract!Ask(c, q)
    BY <1>2, <2>1 DEF IInv, Shape, Ask, Abstract!Ask
  <2>2. ASSUME NEW c \in Caller, SetNX(c)
        PROVE  Abstract!Resolve(c)
    BY <1>2, <2>2 DEF IInv, TypeOK, Shape, SetNX, Tell, Abstract!Resolve,
         Abstract!Waiting, Abstract!Verdict, Abstract!RecordOf
  <2>3. ASSUME NEW c \in Caller, Get(c)
        PROVE  Abstract!Resolve(c)
    BY <1>2, <2>3 DEF IInv, TypeOK, Shape, Get, Tell, Abstract!Resolve,
         Abstract!Waiting
  <2>4. ASSUME NEW c \in Caller, GetGone(c) \/ GiveUp(c)
        PROVE  Abstract!Fail(c)
    BY <1>2, <2>4 DEF IInv, TypeOK, Shape, GetGone, GiveUp, MaybeWritten, Tell,
         Abstract!Fail, Abstract!Waiting
  <2>5. ASSUME NEW c \in Caller, Resend(c)
        PROVE  Abstract!WriteUnheard(c) \/ UNCHANGED Abstract!vars
    BY <1>2, <2>5 DEF IInv, TypeOK, Shape, Resend, MaybeWritten,
         Abstract!WriteUnheard, Abstract!Waiting, Abstract!vars
  <2>6. ASSUME NEW c \in Caller, SetNXTaken(c)
        PROVE  UNCHANGED Abstract!vars
    BY <2>6 DEF SetNXTaken, Abstract!vars
  <2>7. ASSUME NEW c \in Caller, Return(c)
        PROVE  Abstract!Return(c)
    BY <1>2, <2>7 DEF IInv, Shape, Return, Abstract!Return
  <2>8. ASSUME NEW k \in Key, Lapse(k)
        PROVE  Abstract!Lapse(k)
    BY <2>8 DEF Lapse, Abstract!Lapse
  <2>9. CASE UNCHANGED vars
    BY <2>9 DEF vars, Abstract!vars
  <2>. QED
    BY <1>2, <2>1, <2>2, <2>3, <2>4, <2>5, <2>6, <2>7, <2>8, <2>9
    DEF Next, Resolving, Abstract!Next, Call
<1>. QED
  BY Invariance, <1>1, <1>2, PTL DEF Spec, ImplementsAbstract, Abstract!Spec

(***************************************************************************)
(* What EveryResolveReturns rests on beside fairness: a Resolve sends a    *)
(* bounded number of commands, whatever the others do meanwhile.           *)
(***************************************************************************)
(* The most commands c may still send: SET NX and its repeats, then those  *)
(* of GET.                                                                 *)
CommandsLeft(c) ==
    IF at[c] = "setnx" THEN 2 * (MaxResends + 1) - resends[c]
    ELSE IF at[c] = "get" THEN MaxResends + 1 - resends[c]
    ELSE 0

(* None is left exactly when Resolve is not at work.                       *)
Bounded ==
    \A c \in Caller :
        /\ CommandsLeft(c) \in 0 .. 2 * (MaxResends + 1)
        /\ CommandsLeft(c) = 0 <=> at[c] \in {"idle", "told"}

(* Each command leaves one fewer, and nothing else that happens before its *)
(* next call changes how many.                                             *)
Nearer ==
    [][\A c \in Caller :
          /\ Resolving(c) => CommandsLeft(c)' < CommandsLeft(c)
          /\ ~ Resolving(c) /\ at[c] # "idle" =>
                CommandsLeft(c)' = CommandsLeft(c)]_vars

LEMMA CommandsBounded == IInv => Bounded
BY ResendsAssumption DEF IInv, TypeOK, Bounded, CommandsLeft

LEMMA CommandsFall ==
    ASSUME IInv, [Next]_vars, NEW c \in Caller
    PROVE  /\ Resolving(c) => CommandsLeft(c)' < CommandsLeft(c)
           /\ ~ Resolving(c) /\ at[c] # "idle" => CommandsLeft(c)' = CommandsLeft(c)
<1>. USE ResendsAssumption DEF CommandsLeft, IInv, TypeOK
<1>1. ASSUME Resolving(c) PROVE CommandsLeft(c)' < CommandsLeft(c)
  BY <1>1
  DEF Resolving, SetNX, SetNXTaken, Get, GetGone, Resend, GiveUp, Tell
<1>2. ASSUME NEW d \in Caller, d # c, Resolving(d)
      PROVE  at'[c] = at[c] /\ resends'[c] = resends[c]
  BY <1>2
  DEF Resolving, SetNX, SetNXTaken, Get, GetGone, Resend, GiveUp, Tell
<1>3. ASSUME NEW d \in Caller, (\E q \in Call : Ask(d, q)) \/ Return(d)
      PROVE  \/ at'[c] = at[c] /\ resends'[c] = resends[c]
             \/ at[c] = "idle"
             \/ at[c] = "told" /\ at'[c] = "idle"
  BY <1>3 DEF Ask, Return
<1>4. ASSUME (\E k \in Key : Lapse(k)) \/ UNCHANGED vars
      PROVE  at' = at /\ resends' = resends
  BY <1>4 DEF Lapse, vars
<1>5. \/ Resolving(c)
      \/ at'[c] = at[c] /\ resends'[c] = resends[c]
      \/ at[c] = "idle"
      \/ at[c] = "told" /\ at'[c] = "idle"
  BY <1>2, <1>3, <1>4 DEF Next
<1>. QED
  BY <1>1, <1>5

(* Resolve sends 2 * (MaxResends + 1) commands at most: a record that      *)
(* lapses between SET NX and GET is an error, not a reason to start over.  *)
THEOREM NearerHolds == Spec => []Bounded /\ Nearer
<1>1. IInv /\ Bounded /\ Bounded' /\ [Next]_vars =>
        [\A c \in Caller :
            /\ Resolving(c) => CommandsLeft(c)' < CommandsLeft(c)
            /\ ~ Resolving(c) /\ at[c] # "idle" =>
                  CommandsLeft(c)' = CommandsLeft(c)]_vars
  BY CommandsFall
<1>. QED
  BY <1>1, CommandsBounded, Invariance, PTL DEF Nearer, Spec
==============================================================================
