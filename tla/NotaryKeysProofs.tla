--------------------------- MODULE NotaryKeysProofs ---------------------------
(***************************************************************************)
(* Proofs about NotaryKeys for any verifications, keys and times: the      *)
(* inductive invariant, and the four promises of the cache.                *)
(***************************************************************************)
EXTENDS NotaryKeys, TLAPS

(* The cache nobody has read satisfies the invariant.                      *)
LEMMA InitInv == Init => IInv
<1>. SUFFICES ASSUME Init PROVE IInv
  OBVIOUS
<1>. USE KeyAssumption, TimeAssumption
<1>1. TypeOK
  <2>1. now \in Time /\ published \in KeyList /\ pem \in Key
    BY DEF Init, Time, KeyList, Status
  <2>2. cache \in [keys : KeyList \cup {None}, fallback : BOOLEAN,
                   expires : Later, retry : Later]
    BY DEF Init, Later
  <2>3. /\ listedAt \in [Key -> 0..now] /\ revokedAt \in [Key -> 0..now]
        /\ lockedAt \in 0..now
    BY DEF Init
  <2>. QED
    BY <2>1, <2>2, <2>3 DEF Init, TypeOK
<1>2. Holding /\ Remembered
  BY DEF Init, Holding, Remembered
<1>3. Bounded /\ RevokedSince /\ ListedSince /\ Paced
  BY DEF Init, Bounded, RevokedSince, ListedSince, Paced, HasList
<1>. QED
  BY <1>1, <1>2, <1>3 DEF IInv

(* The types of the times, as numbers.                                     *)
LEMMA Numbers ==
    ASSUME TypeOK
    PROVE  /\ now \in Nat /\ lockedAt \in Nat /\ lockedAt <= now
           /\ \A k \in Key : /\ listedAt[k] \in Nat /\ listedAt[k] <= now
                             /\ revokedAt[k] \in Nat /\ revokedAt[k] <= now
           /\ cache.expires \in Nat /\ cache.retry \in Nat
           /\ lastRead # None => lastRead \in Nat /\ lastRead <= now
           /\ lastFailed # None => lastFailed \in Nat /\ lastFailed <= now
BY TimeAssumption DEF TypeOK, Time, Later

(* Time passes.                                                            *)
LEMMA TickInv ==
    ASSUME IInv, Tick
    PROVE  IInv'
<1>. USE TimeAssumption
<1>1. /\ now' = now + 1 /\ now' \in Time
      /\ UNCHANGED <<published, pem, listedAt, revokedAt, cache, holder, stage,
                     lockedAt, record, verdict, told, lastRead, lastFailed>>
  BY DEF Tick, website, IInv, TypeOK, Time
<1>2. now \in Nat /\ 0..now \subseteq 0..now'
  BY <1>1 DEF IInv, TypeOK, Time
<1>3. TypeOK'
  <2>1. listedAt' \in [Key -> 0..now'] /\ revokedAt' \in [Key -> 0..now']
    BY <1>1, <1>2 DEF IInv, TypeOK
  <2>2. /\ lockedAt' \in 0..now' /\ lastRead' \in 0..now' \cup {None}
        /\ lastFailed' \in 0..now' \cup {None}
    BY <1>1, <1>2 DEF IInv, TypeOK
  <2>. QED
    BY <1>1, <2>1, <2>2 DEF IInv, TypeOK
<1>4. Holding' /\ Remembered' /\ Paced'
  BY <1>1 DEF IInv, Holding, Remembered, Paced, HasList, Waiting
<1>5. Bounded'
  BY <1>1, Numbers DEF IInv, Bounded
<1>6. RevokedSince' /\ ListedSince'
  BY <1>1 DEF IInv, RevokedSince, ListedSince, FailedSince
<1>. QED
  BY <1>3, <1>4, <1>5, <1>6 DEF IInv

(* A key is published: whoever does not know it will not for longer than a *)
(* minute.                                                                 *)
LEMMA RotateInv ==
    ASSUME IInv, NEW k \in Key, Rotate(k)
    PROVE  IInv'
<1>. USE TimeAssumption
<1>1. UNCHANGED <<now, pem, revokedAt, cache, holder, stage, lockedAt, record,
                  verdict, told, lastRead, lastFailed>>
  BY DEF Rotate
<1>2. /\ published \in [Key -> Status] /\ listedAt \in [Key -> 0..now]
      /\ now \in 0..now
  BY Numbers DEF IInv, TypeOK, KeyList
<1>3. published' \in [Key -> Status] /\ listedAt' \in [Key -> 0..now]
  BY <1>2 DEF Rotate, Status
<1>4. TypeOK'
  BY <1>1, <1>3 DEF IInv, TypeOK, KeyList
<1>5. \A j \in Key : published'[j] = "revoked" <=> published[j] = "revoked"
  BY <1>2 DEF Rotate
<1>6. \A j \in Key : j # k =>
         /\ published'[j] # "absent" => published[j] # "absent"
         /\ listedAt'[j] = listedAt[j]
  BY <1>2 DEF Rotate
<1>7. listedAt'[k] = now
  BY <1>2 DEF Rotate
<1>8. Holding' /\ Bounded' /\ Paced'
  BY <1>1 DEF IInv, Holding, Bounded, Paced, HasList, Waiting
<1>9. Remembered'
  BY <1>1, <1>5 DEF IInv, TypeOK, Remembered, HasList
<1>10. RevokedSince'
  BY <1>1, <1>5 DEF IInv, RevokedSince, FailedSince
<1>11. ListedSince'
  <2>1. cache.keys # None => cache.retry <= now + minute
    BY DEF IInv, Bounded
  <2>. QED
    BY <1>1, <1>6, <1>7, <2>1 DEF IInv, ListedSince, FailedSince
<1>. QED
  BY <1>4, <1>8, <1>9, <1>10, <1>11 DEF IInv

(* A key is revoked: a list that says otherwise is good for no more than   *)
(* its life.                                                               *)
LEMMA RevokeInv ==
    ASSUME IInv, NEW k \in Key, Revoke(k)
    PROVE  IInv'
<1>. USE TimeAssumption
<1>1. UNCHANGED <<now, pem, listedAt, cache, holder, stage, lockedAt, record,
                  verdict, told, lastRead, lastFailed>>
  BY DEF Revoke
<1>2. /\ published \in [Key -> Status] /\ revokedAt \in [Key -> 0..now]
      /\ now \in 0..now
  BY Numbers DEF IInv, TypeOK, KeyList
<1>3. published' \in [Key -> Status] /\ revokedAt' \in [Key -> 0..now]
  BY <1>2 DEF Revoke, Status
<1>4. TypeOK'
  BY <1>1, <1>3 DEF IInv, TypeOK, KeyList
<1>5. \A j \in Key :
         /\ published'[j] = "absent" <=> published[j] = "absent"
         /\ published[j] = "revoked" => published'[j] = "revoked"
         /\ j # k => published'[j] = published[j] /\ revokedAt'[j] = revokedAt[j]
  BY <1>2 DEF Revoke
<1>6. revokedAt'[k] = now
  BY <1>2 DEF Revoke
<1>7. Holding' /\ Bounded' /\ Paced'
  BY <1>1 DEF IInv, Holding, Bounded, Paced, HasList, Waiting
<1>8. Remembered'
  BY <1>1, <1>5 DEF IInv, TypeOK, Remembered, HasList
<1>9. RevokedSince'
  <2>1. CASE cache.keys # None /\ cache.fallback
    BY <1>1, <2>1 DEF IInv, Bounded, RevokedSince, FailedSince
  <2>2. CASE cache.keys # None /\ ~cache.fallback
    <3>1. cache.expires <= now + listTTL
      BY <2>2 DEF IInv, Bounded
    <3>. QED
      BY <1>1, <1>5, <1>6, <2>2, <3>1 DEF IInv, RevokedSince, FailedSince
  <2>3. CASE cache.keys = None
    BY <1>1, <2>3 DEF RevokedSince
  <2>. QED
    BY <2>1, <2>2, <2>3
<1>10. ListedSince'
  BY <1>1, <1>5 DEF IInv, ListedSince, FailedSince
<1>. QED
  BY <1>4, <1>7, <1>8, <1>9, <1>10 DEF IInv

(* The PEM file is replaced.                                               *)
LEMMA ReplacePemInv ==
    ASSUME IInv, ReplacePem
    PROVE  IInv'
<1>1. /\ pem' \in Key
      /\ UNCHANGED <<now, published, listedAt, revokedAt, cache, holder, stage,
                     lockedAt, record, verdict, told, lastRead, lastFailed>>
  BY DEF ReplacePem
<1>2. TypeOK'
  BY <1>1 DEF IInv, TypeOK
<1>3. Holding' /\ Remembered' /\ Bounded'
  BY <1>1 DEF IInv, Holding, Remembered, Bounded, HasList, Waiting
<1>4. RevokedSince' /\ ListedSince' /\ Paced'
  BY <1>1 DEF IInv, RevokedSince, ListedSince, Paced, HasList, FailedSince
<1>. QED
  BY <1>2, <1>3, <1>4 DEF IInv

(* Every verdict is one.                                                   *)
LEMMA VerdictTyped ==
    ASSUME NEW keys, NEW r
    PROVE  VerdictOn(keys, r) \in Verdict
BY DEF VerdictOn, Verdict

(* A verification begins.                                                  *)
LEMMA AskInv ==
    ASSUME IInv, NEW c \in Caller, NEW r \in Record, Ask(c, r)
    PROVE  IInv'
<1>1. UNCHANGED <<now, published, pem, listedAt, revokedAt, cache, holder, stage,
                  lockedAt, told, lastRead, lastFailed>>
  BY DEF Ask, website
<1>2. TypeOK'
  BY <1>1 DEF IInv, TypeOK, Ask
<1>3. Holding'
  <2>1. SUFFICES ASSUME holder # None
                 PROVE  Waiting(holder)'
    BY <1>1, <2>1 DEF IInv, Holding, HasList
  <2>2. holder \in Caller /\ holder # c
    BY <2>1 DEF IInv, TypeOK, Holding, Ask
  <2>. QED
    BY <1>1, <2>1, <2>2 DEF IInv, TypeOK, Holding, Waiting, Ask
<1>4. Remembered' /\ Bounded'
  BY <1>1 DEF IInv, Remembered, Bounded, HasList
<1>5. RevokedSince' /\ ListedSince' /\ Paced'
  BY <1>1 DEF IInv, RevokedSince, ListedSince, Paced, HasList, FailedSince
<1>. QED
  BY <1>2, <1>3, <1>4, <1>5 DEF IInv

(* A verification is answered from the cache.                              *)
LEMMA HitInv ==
    ASSUME IInv, NEW c \in Caller, Hit(c)
    PROVE  IInv'
<1>1. UNCHANGED <<now, published, pem, listedAt, revokedAt, cache, holder, stage,
                  lockedAt, told, lastRead, lastFailed>>
      /\ holder = None
  BY DEF Hit, website
<1>2. TypeOK'
  BY <1>1, VerdictTyped DEF IInv, TypeOK, Hit, Tell
<1>3. Holding' /\ Remembered' /\ Bounded'
  BY <1>1 DEF IInv, Holding, Remembered, Bounded, HasList
<1>4. RevokedSince' /\ ListedSince' /\ Paced'
  BY <1>1 DEF IInv, RevokedSince, ListedSince, Paced, HasList, FailedSince
<1>. QED
  BY <1>2, <1>3, <1>4 DEF IInv

(* A read begins.                                                          *)
LEMMA ReadInv ==
    ASSUME IInv, NEW c \in Caller, Read(c)
    PROVE  IInv'
<1>1. /\ UNCHANGED <<now, published, pem, listedAt, revokedAt, cache, record,
                     verdict, told, lastFailed>>
      /\ holder' = c /\ stage' = "list" /\ lockedAt' = now /\ lastRead' = now
      /\ Waiting(c)
  BY DEF Read, website
<1>2. c # None /\ now \in 0..now
  BY KeyAssumption, Numbers DEF IInv
<1>3. TypeOK'
  BY <1>1, <1>2 DEF IInv, TypeOK
<1>4. Holding' /\ Remembered' /\ Bounded' /\ Paced'
  BY <1>1, <1>2 DEF IInv, Holding, Remembered, Bounded, Paced, HasList, Waiting
<1>5. RevokedSince' /\ ListedSince'
  BY <1>1 DEF IInv, RevokedSince, ListedSince, FailedSince
<1>. QED
  BY <1>3, <1>4, <1>5 DEF IInv

(* What returning keys does to the cache, and the invariant's parts that   *)
(* do not depend on which keys they are.                                   *)
LEMMA ReturnInv ==
    ASSUME IInv, holder # None, NEW keys \in KeyList, NEW fallback \in BOOLEAN,
           NEW expires \in Later, Return(keys, fallback, expires),
           lockedAt + minute <= expires,
           fallback => lastFailed' # None /\ expires <= lastFailed' + fallbackTTL,
           ~fallback => expires <= lockedAt + listTTL,
           told' \subseteq Key, lastFailed' \in 0..now \cup {None}
    PROVE  /\ cache'.keys = keys /\ cache'.fallback = fallback
           /\ cache'.expires = expires /\ cache'.retry = lockedAt + minute
           /\ UNCHANGED <<now, published, pem, listedAt, revokedAt, lockedAt>>
           /\ TypeOK' /\ Holding' /\ Bounded' /\ Paced'
<1>. USE TimeAssumption, KeyAssumption
<1>1. /\ cache' = [keys |-> keys, fallback |-> fallback, expires |-> expires,
                   retry |-> lockedAt + minute]
      /\ verdict' = [verdict EXCEPT ![holder] = VerdictOn(keys, record[holder])]
      /\ record' = [record EXCEPT ![holder] = None]
      /\ holder' = None
      /\ UNCHANGED <<now, published, pem, listedAt, revokedAt, stage, lockedAt,
                     lastRead>>
  BY DEF Return, Tell, website
<1>2. /\ now \in Nat /\ now <= MaxTime /\ lockedAt \in Nat /\ lockedAt <= now
      /\ expires \in Nat /\ lockedAt + minute \in Later
  BY Numbers DEF IInv, TypeOK, Time, Later
<1>3. TypeOK'
  BY <1>1, <1>2, VerdictTyped DEF IInv, TypeOK
<1>4. Holding'
  BY <1>1 DEF Holding
<1>5. Bounded'
  <2>1. /\ cache'.fallback = fallback /\ cache'.expires = expires
        /\ cache'.retry = lockedAt + minute /\ now' = now
    BY <1>1
  <2>2. lockedAt + minute <= now + minute
    BY <1>2
  <2>3. ~fallback => expires <= now + listTTL
    BY <1>2
  <2>. QED
    BY <2>1, <2>2, <2>3 DEF Bounded
<1>6. Paced'
  <2>1. lastRead = lockedAt
    BY DEF IInv, Holding
  <2>2. lockedAt # None
    BY <1>2
  <2>. QED
    BY <1>1, <1>2, <2>1, <2>2 DEF Paced
<1>. QED
  BY <1>1, <1>3, <1>4, <1>5, <1>6

(* The list is read.                                                       *)
LEMMA ListReadInv ==
    ASSUME IInv, ListRead
    PROVE  IInv'
<1>. USE TimeAssumption
<1>1. /\ now \in Nat /\ now <= MaxTime /\ lockedAt \in Nat /\ lockedAt <= now
      /\ published \in KeyList
      /\ \A k \in Key : listedAt[k] \in Nat /\ revokedAt[k] \in Nat
  BY Numbers DEF IInv, TypeOK, Time
<1>2. lockedAt + listTTL \in Later
  BY <1>1 DEF Later
<1>3. /\ told' = told \cup {k \in Key : published[k] = "revoked"}
      /\ told' \subseteq Key
      /\ lastFailed' = lastFailed /\ lastFailed' \in 0..now \cup {None}
      /\ holder # None /\ Return(published, FALSE, lockedAt + listTTL)
  BY DEF ListRead, IInv, TypeOK
<1>4. lockedAt + minute <= lockedAt + listTTL
  BY <1>1
<1>5. /\ cache'.keys = published /\ cache'.fallback = FALSE
      /\ UNCHANGED <<now, published, pem, listedAt, revokedAt, lockedAt>>
      /\ TypeOK' /\ Holding' /\ Bounded' /\ Paced'
  <2>1. lockedAt + listTTL <= lockedAt + listTTL
    BY <1>1
  <2>. HIDE TimeAssumption
  <2>. QED
    BY <1>1, <1>2, <1>3, <1>4, <2>1, ReturnInv
<1>6. published # None
  BY <1>1, ListAssumption
<1>7. Remembered'
  BY <1>3, <1>5, <1>6 DEF IInv, Remembered, HasList
<1>8. RevokedSince' /\ ListedSince'
  BY <1>5 DEF RevokedSince, ListedSince
<1>. QED
  BY <1>5, <1>7, <1>8 DEF IInv

(* The list cannot be read.                                                *)
LEMMA ListFailsInv ==
    ASSUME IInv, ListFails
    PROVE  IInv'
<1>. USE TimeAssumption, KeyAssumption
<1>1. /\ now \in Nat /\ now <= MaxTime /\ lockedAt \in Nat /\ lockedAt <= now
      /\ now # None
  BY Numbers DEF IInv, TypeOK, Time
<1>2. holder # None /\ lastFailed' = now
  BY DEF ListFails
<1>3. CASE /\ HasList /\ Return(cache.keys, FALSE, lockedAt + minute)
           /\ UNCHANGED told
  <2>1. cache.keys \in KeyList /\ told' \subseteq Key
    BY <1>3 DEF IInv, TypeOK, HasList
  <2>2. lockedAt + minute \in Later /\ lockedAt + minute <= lockedAt + listTTL
    BY <1>1 DEF Later
  <2>3. lastFailed' \in 0..now \cup {None}
    BY <1>1, <1>2
  <2>4. /\ cache'.keys = cache.keys /\ cache'.fallback = FALSE
        /\ cache'.expires = lockedAt + minute /\ cache'.retry = lockedAt + minute
        /\ UNCHANGED <<now, published, pem, listedAt, revokedAt, lockedAt>>
        /\ TypeOK' /\ Holding' /\ Bounded' /\ Paced'
    <3>1. lockedAt + minute <= lockedAt + minute
      BY <1>1
    <3>. HIDE TimeAssumption
    <3>. QED
      BY <1>2, <1>3, <2>1, <2>2, <2>3, <3>1, ReturnInv
  <2>5. Remembered'
    BY <1>3, <2>4 DEF IInv, Remembered, HasList
  <2>6. RevokedSince' /\ ListedSince'
    BY <1>1, <1>2, <2>4 DEF RevokedSince, ListedSince, FailedSince
  <2>. QED
    BY <2>4, <2>5, <2>6 DEF IInv
<1>4. CASE /\ ~HasList /\ stage' = "pem"
           /\ UNCHANGED <<now, website, cache, holder, lockedAt, record, verdict,
                          told, lastRead>>
  <2>1. UNCHANGED <<now, published, pem, listedAt, revokedAt, cache, holder,
                    lockedAt, record, verdict, told, lastRead>>
    BY <1>4 DEF website
  <2>2. TypeOK'
    BY <1>1, <1>2, <1>4, <2>1 DEF IInv, TypeOK
  <2>3. Holding'
    BY <1>1, <1>2, <1>4, <2>1 DEF IInv, Holding, HasList, Waiting
  <2>4. Remembered' /\ Paced'
    BY <1>2, <2>1 DEF IInv, Remembered, Paced, HasList
  <2>5. /\ cache.expires \in Nat /\ cache.retry \in Nat
        /\ lastFailed # None => lastFailed \in Nat /\ lastFailed <= now
    BY Numbers DEF IInv
  <2>6. Bounded'
    BY <1>1, <1>2, <2>1, <2>5 DEF IInv, Bounded
  <2>7. \A t \in Nat, d \in Nat : FailedSince(t, d) => FailedSince(t, d)'
    BY <1>1, <1>2, <2>5 DEF FailedSince
  <2>8. FailedSince(cache.expires, IF cache.fallback THEN fallbackTTL ELSE minute)
          => FailedSince(cache.expires,
                         IF cache.fallback THEN fallbackTTL ELSE minute)'
    BY <2>1, <2>5, <2>7
  <2>9. RevokedSince'
    BY <2>1, <2>8 DEF IInv, RevokedSince
  <2>10. FailedSince(cache.retry, minute) => FailedSince(cache.retry, minute)'
    BY <2>1, <2>5, <2>7
  <2>11. ListedSince'
    BY <2>1, <2>10 DEF IInv, ListedSince
  <2>. QED
    BY <2>2, <2>3, <2>4, <2>6, <2>9, <2>11 DEF IInv
<1>. QED
  BY <1>3, <1>4 DEF ListFails, HasList

(* The PEM key is read.                                                    *)
LEMMA PemReadInv ==
    ASSUME IInv, PemRead
    PROVE  IInv'
<1>. USE TimeAssumption, KeyAssumption
<1>. DEFINE keys == [k \in Key |-> IF k = pem THEN "active" ELSE "absent"]
<1>1. /\ now \in Nat /\ now <= MaxTime /\ lockedAt \in Nat /\ lockedAt <= now
  BY Numbers DEF IInv, TypeOK, Time
<1>2. /\ holder # None /\ Return(keys, TRUE, lockedAt + fallbackTTL)
      /\ told' = told /\ lastFailed' = lastFailed
  BY DEF PemRead
<1>3. ~HasList /\ lastFailed # None /\ lastFailed >= lockedAt
  BY DEF PemRead, IInv, Holding
<1>4. keys \in KeyList
  BY DEF KeyList, Status
<1>5. lockedAt + fallbackTTL \in Later
  BY <1>1 DEF Later
<1>6. lastFailed \in Nat /\ lastFailed \in 0..now \cup {None}
  BY <1>3, Numbers DEF IInv, TypeOK
<1>7. told = {}
  BY <1>3 DEF IInv, Remembered
<1>. HIDE DEF keys
<1>8. /\ cache'.fallback = TRUE
      /\ cache'.expires = lockedAt + fallbackTTL /\ cache'.retry = lockedAt + minute
      /\ TypeOK' /\ Holding' /\ Bounded' /\ Paced'
  <2>1. /\ lockedAt + minute <= lockedAt + fallbackTTL
        /\ lockedAt + fallbackTTL <= lastFailed + fallbackTTL
    BY <1>1, <1>3, <1>6
  <2>. QED
    BY <1>1, <1>2, <1>3, <1>4, <1>5, <1>6, <1>7, <2>1, ReturnInv
<1>9. Remembered'
  BY <1>2, <1>7 DEF Remembered
<1>10. RevokedSince' /\ ListedSince'
  BY <1>1, <1>2, <1>3, <1>6, <1>8 DEF RevokedSince, ListedSince, FailedSince
<1>. QED
  BY <1>8, <1>9, <1>10 DEF IInv

(* Nothing can be read.                                                    *)
LEMMA PemFailsInv ==
    ASSUME IInv, PemFails
    PROVE  IInv'
<1>1. /\ UNCHANGED <<now, published, pem, listedAt, revokedAt, cache, stage,
                     lockedAt, told, lastRead, lastFailed>>
      /\ holder' = None
      /\ verdict' = [verdict EXCEPT ![holder] = "unavailable"]
      /\ record' = [record EXCEPT ![holder] = None]
  BY DEF PemFails, Tell, website
<1>2. ~HasList
  BY DEF PemFails, IInv, Holding
<1>3. TypeOK'
  BY <1>1 DEF IInv, TypeOK, Verdict
<1>4. Holding' /\ Remembered' /\ Bounded' /\ Paced'
  BY <1>1, <1>2 DEF IInv, Holding, Remembered, Bounded, Paced, HasList
<1>5. RevokedSince' /\ ListedSince'
  BY <1>1 DEF IInv, RevokedSince, ListedSince, FailedSince
<1>. QED
  BY <1>3, <1>4, <1>5 DEF IInv

(* Nothing changes.                                                        *)
LEMMA StutterInv == IInv /\ UNCHANGED vars => IInv'
BY DEF IInv, TypeOK, Holding, Waiting, Remembered, Bounded, RevokedSince,
       ListedSince, FailedSince, Paced, HasList, vars, website

(* Every step keeps the inductive invariant.                               *)
LEMMA NextInv == IInv /\ [Next]_vars => IInv'
BY TickInv, RotateInv, RevokeInv, ReplacePemInv, AskInv, HitInv, ReadInv,
   ListReadInv, ListFailsInv, PemReadInv, PemFailsInv, StutterInv,
   RecordAssumption
DEF Next, Reading

(* The inductive invariant holds in every reachable state.                 *)
THEOREM Invariance == Spec => []IInv
BY InitInv, NextInv, PTL DEF Spec

(* The cache, the mutex and the verdicts keep their types.                 *)
THEOREM TypeCorrect == Spec => []TypeOK
<1>1. IInv => TypeOK
  BY DEF IInv
<1>. QED
  BY Invariance, <1>1, PTL

(* The keys a PEM file is read as.                                         *)
PemKeys == [k \in Key |-> IF k = pem THEN "active" ELSE "absent"]

(* The four ways a verdict comes about: from the cache, from a list just   *)
(* read, from a list that was kept, from the PEM key.                      *)
FromCache(c, v) ==
    /\ holder = None /\ CacheAnswers(record[c])
    /\ v = VerdictOn(cache.keys, record[c])
    /\ cache' = cache /\ lastFailed' = lastFailed

FromList(c, v) == v = VerdictOn(published, record[c])

FromKept(c, v) ==
    /\ holder # None /\ HasList
    /\ v = VerdictOn(cache.keys, record[c])
    /\ cache'.fallback = FALSE /\ lastFailed' = now

FromPem(c, v) ==
    /\ holder # None /\ ~HasList
    /\ v = VerdictOn(PemKeys, record[c])
    /\ cache'.fallback = TRUE
    /\ lastFailed' # None /\ lastFailed' >= lockedAt /\ lastFailed' \in Nat

(* There is no fifth.                                                      *)
LEMMA WaysToTell ==
    ASSUME IInv, [Next]_vars, NEW c \in Caller, NEW v \in {"valid", "unknown key"},
           Tells(c, v)
    PROVE  /\ record[c] \in Record
           /\ FromCache(c, v) \/ FromList(c, v) \/ FromKept(c, v) \/ FromPem(c, v)
<1>1. /\ verdict[c] = None /\ verdict'[c] = v /\ v # None /\ v # "unavailable"
      /\ verdict \in [Caller -> Verdict \cup {None}]
  BY VerdictAssumption DEF Tells, Verdict, IInv, TypeOK
<1>2. ~UNCHANGED verdict
  BY <1>1
<1>3. ASSUME holder # None, NEW w, verdict' = [verdict EXCEPT ![holder] = w]
      PROVE  c = holder /\ v = w /\ record[c] \in Record
  <2>1. c = holder /\ v = w
    BY <1>1, <1>3
  <2>. QED
    BY <1>3, <2>1 DEF IInv, TypeOK, Holding, Waiting
<1>4. ASSUME NEW d \in Caller, Hit(d)
      PROVE  FromCache(c, v) /\ record[c] \in Record
  <2>1. verdict' = [verdict EXCEPT ![d] = VerdictOn(cache.keys, record[d])]
        /\ holder = None /\ CacheAnswers(record[d]) /\ Waiting(d)
        /\ cache' = cache /\ lastFailed' = lastFailed
    BY <1>4 DEF Hit, Tell
  <2>2. c = d /\ v = VerdictOn(cache.keys, record[c])
    BY <1>1, <2>1
  <2>. QED
    BY <2>1, <2>2 DEF FromCache, Waiting, IInv, TypeOK
<1>5. ASSUME NEW d \in Caller, NEW r \in Record, Ask(d, r)
      PROVE  FALSE
  BY <1>1, <1>5 DEF Ask
<1>6. CASE ListRead
  <2>1. /\ holder # None
        /\ verdict' = [verdict EXCEPT ![holder] = VerdictOn(published, record[holder])]
    BY <1>6 DEF ListRead, Return, Tell
  <2>. QED
    BY <1>3, <2>1 DEF FromList
<1>7. CASE ListFails
  <2>1. /\ holder # None /\ HasList /\ lastFailed' = now
        /\ cache'.fallback = FALSE
        /\ verdict' = [verdict EXCEPT ![holder] = VerdictOn(cache.keys, record[holder])]
    <3>1. holder # None /\ lastFailed' = now
      BY <1>7 DEF ListFails
    <3>2. HasList /\ Return(cache.keys, FALSE, lockedAt + minute)
      BY <1>2, <1>7 DEF ListFails, HasList
    <3>3. cache'.fallback = FALSE
      BY <3>2 DEF Return
    <3>. QED
      BY <3>1, <3>2, <3>3 DEF Return, Tell
  <2>. QED
    BY <1>3, <2>1 DEF FromKept
<1>8. CASE PemRead
  <2>1. /\ holder # None /\ cache'.fallback = TRUE /\ lastFailed' = lastFailed
        /\ verdict' = [verdict EXCEPT ![holder] = VerdictOn(PemKeys, record[holder])]
    BY <1>8 DEF PemRead, Return, Tell, PemKeys
  <2>2. ~HasList /\ lastFailed # None /\ lastFailed >= lockedAt
        /\ lastFailed \in Nat
    BY <1>8, Numbers DEF PemRead, IInv, Holding
  <2>. QED
    BY <1>3, <2>1, <2>2 DEF FromPem
<1>9. CASE PemFails
  <2>1. /\ holder # None
        /\ verdict' = [verdict EXCEPT ![holder] = "unavailable"]
    BY <1>9 DEF PemFails, Tell
  <2>. QED
    BY <1>1, <1>3, <2>1
<1>10. CASE Tick \/ ReplacePem \/ (\E k \in Key : Rotate(k) \/ Revoke(k))
            \/ (\E d \in Caller : Read(d)) \/ UNCHANGED vars
  BY <1>2, <1>10 DEF Tick, ReplacePem, Rotate, Revoke, Read, vars
<1>. QED
  BY <1>4, <1>5, <1>6, <1>7, <1>8, <1>9, <1>10, RecordAssumption DEF Next, Reading

(* A valid record is signed with a listed key that was not revoked; one    *)
(* that names an unknown key names one that was not listed.                *)
LEMMA VerdictMeans ==
    ASSUME NEW keys, NEW r \in Record
    PROVE  /\ VerdictOn(keys, r) = "valid" =>
                 /\ r.signer \in Key /\ keys[r.signer] # "revoked"
                 /\ keys[r.signer] # "absent"
           /\ VerdictOn(keys, r) = "unknown key" =>
                 r.names \in Key /\ keys[r.names] = "absent"
BY DEF VerdictOn, SignerFound, hasKey, Record

(* A moment is less than a while after any that is not earlier.            *)
LEMMA WithinAWhile ==
    ASSUME NEW t \in Nat, NEW f \in Nat, f >= t, NEW d \in Nat, d # 0
    PROVE  t < f + d
OBVIOUS

(* A key given as revoked once is never valid again.                       *)
THEOREM ToldRevocationsStickHolds == Spec => ToldRevocationsStick
<1>1. ASSUME IInv, [Next]_vars, NEW c \in Caller, Tells(c, "valid")
      PROVE  record[c].signer \notin told
  <2>1. SUFFICES ASSUME record[c].signer \in told
                 PROVE  FALSE
    OBVIOUS
  <2>. DEFINE k == record[c].signer
  <2>2. HasList /\ cache.keys[k] = "revoked" /\ published[k] = "revoked"
    BY <1>1, <2>1 DEF IInv, Remembered
  <2>3. CASE FromCache(c, "valid") \/ FromKept(c, "valid")
    BY <1>1, <2>2, <2>3, WaysToTell, VerdictMeans DEF FromCache, FromKept
  <2>4. CASE FromList(c, "valid")
    BY <1>1, <2>2, <2>4, WaysToTell, VerdictMeans DEF FromList
  <2>5. CASE FromPem(c, "valid")
    BY <2>2, <2>5 DEF FromPem
  <2>. QED
    BY <1>1, <2>3, <2>4, <2>5, WaysToTell
<1>2. IInv /\ [Next]_vars =>
        [\A c \in Caller : Tells(c, "valid") => record[c].signer \notin told]_vars
  BY <1>1
<1>. QED
  BY Invariance, <1>2, PTL DEF Spec, ToldRevocationsStick

(* A revocation is seen within the life of a list, or of what stands in    *)
(* for one that cannot be read.                                            *)
THEOREM RevocationIsSeenHolds == Spec => RevocationIsSeen
<1>. USE TimeAssumption
<1>. DEFINE Seen(c) ==
       LET k == record[c].signer IN
       published[k] = "revoked" =>
          \/ calledAt < revokedAt[k] + listTTL
          \/ FailedWithin(IF cache'.fallback THEN fallbackTTL ELSE minute)
<1>1. ASSUME IInv, [Next]_vars, NEW c \in Caller, Tells(c, "valid")
      PROVE  Seen(c)
  <2>. DEFINE k == record[c].signer
  <2>1. SUFFICES ASSUME published[k] = "revoked"
                 PROVE  \/ calledAt < revokedAt[k] + listTTL
                        \/ FailedWithin(IF cache'.fallback THEN fallbackTTL
                                                           ELSE minute)
    OBVIOUS
  <2>2. record[c] \in Record
    BY <1>1, WaysToTell
  <2>3. /\ now \in Nat /\ lockedAt \in Nat /\ lockedAt <= now
        /\ cache.expires \in Nat
        /\ lastFailed # None => lastFailed \in Nat
        /\ \A j \in Key : revokedAt[j] \in Nat
    BY <1>1, Numbers DEF IInv
  <2>4. CASE FromCache(c, "valid")
    <3>1. k \in Key /\ cache.keys[k] # "revoked"
      BY <2>2, <2>4, VerdictMeans DEF FromCache
    <3>2. cache.keys # None /\ now < cache.expires /\ calledAt = now
      BY <2>4 DEF FromCache, CacheAnswers, calledAt
    <3>3. \/ cache.expires <= revokedAt[k] + listTTL
          \/ FailedSince(cache.expires,
                         IF cache.fallback THEN fallbackTTL ELSE minute)
      BY <1>1, <2>1, <3>1, <3>2 DEF IInv, RevokedSince
    <3>4. CASE cache.expires <= revokedAt[k] + listTTL
      BY <2>3, <3>1, <3>2, <3>4
    <3>5. CASE FailedSince(cache.expires,
                           IF cache.fallback THEN fallbackTTL ELSE minute)
      <4>1. /\ cache' = cache /\ lastFailed' = lastFailed
            /\ lastFailed # None /\ lastFailed \in Nat
            /\ cache.expires <= lastFailed
                 + (IF cache.fallback THEN fallbackTTL ELSE minute)
        BY <2>3, <2>4, <3>5 DEF FailedSince, FromCache
      <4>2. calledAt < lastFailed
                 + (IF cache.fallback THEN fallbackTTL ELSE minute)
        BY <2>3, <3>2, <4>1
      <4>. QED
        BY <4>1, <4>2 DEF FailedWithin
    <3>. QED
      BY <3>3, <3>4, <3>5
  <2>5. CASE FromList(c, "valid")
    BY <2>1, <2>2, <2>5, VerdictMeans DEF FromList
  <2>6. CASE FromKept(c, "valid")
    <3>1. calledAt = lockedAt /\ lastFailed' = now /\ cache'.fallback = FALSE
      BY <2>6 DEF FromKept, calledAt
    <3>2. now # None /\ lockedAt < now + minute
      BY <2>3, KeyAssumption
    <3>. QED
      BY <3>1, <3>2 DEF FailedWithin
  <2>7. CASE FromPem(c, "valid")
    <3>1. /\ calledAt = lockedAt /\ cache'.fallback = TRUE /\ lastFailed' # None
          /\ lastFailed' \in Nat /\ lastFailed' >= lockedAt
      BY <2>7 DEF FromPem, calledAt
    <3>2. lockedAt < lastFailed' + fallbackTTL
      <4>1. fallbackTTL \in Nat /\ fallbackTTL # 0
        OBVIOUS
      <4>. HIDE TimeAssumption
      <4>. QED
        BY <2>3, <3>1, <4>1, WithinAWhile
    <3>. QED
      BY <3>1, <3>2 DEF FailedWithin
  <2>. QED
    BY <1>1, <2>4, <2>5, <2>6, <2>7, WaysToTell
<1>2. IInv /\ [Next]_vars =>
        [\A c \in Caller : Tells(c, "valid") => Seen(c)]_vars
  BY <1>1
<1>. QED
  BY Invariance, <1>2, PTL DEF Spec, RevocationIsSeen

(* A published key is known within a minute, or a minute after the list    *)
(* could last not be read.                                                 *)
THEOREM RotationCountsHolds == Spec => RotationCounts
<1>. USE TimeAssumption
<1>. DEFINE Counts(c) ==
       LET k == record[c].names IN
       published[k] # "absent" =>
          \/ calledAt < listedAt[k] + minute
          \/ FailedWithin(minute)
<1>1. ASSUME IInv, [Next]_vars, NEW c \in Caller, Tells(c, "unknown key")
      PROVE  Counts(c)
  <2>. DEFINE k == record[c].names
  <2>1. SUFFICES ASSUME published[k] # "absent"
                 PROVE  \/ calledAt < listedAt[k] + minute
                        \/ FailedWithin(minute)
    OBVIOUS
  <2>2. record[c] \in Record
    BY <1>1, WaysToTell
  <2>3. /\ now \in Nat /\ lockedAt \in Nat /\ lockedAt <= now
        /\ cache.retry \in Nat
        /\ lastFailed # None => lastFailed \in Nat
        /\ \A j \in Key : listedAt[j] \in Nat
    BY <1>1, Numbers DEF IInv
  <2>4. CASE FromCache(c, "unknown key")
    <3>1. k \in Key /\ cache.keys[k] = "absent"
      BY <2>2, <2>4, VerdictMeans DEF FromCache
    <3>2. cache.keys # None /\ now < cache.retry /\ calledAt = now
      BY <2>4, <3>1, KeyAssumption DEF FromCache, CacheAnswers, calledAt, hasKey
    <3>3. \/ cache.retry <= listedAt[k] + minute
          \/ FailedSince(cache.retry, minute)
      BY <1>1, <2>1, <3>1, <3>2 DEF IInv, ListedSince
    <3>4. CASE cache.retry <= listedAt[k] + minute
      BY <2>3, <3>1, <3>2, <3>4
    <3>5. CASE FailedSince(cache.retry, minute)
      <4>1. lastFailed' = lastFailed /\ lastFailed # None /\ lastFailed \in Nat
            /\ cache.retry <= lastFailed + minute
        BY <2>3, <2>4, <3>5 DEF FailedSince, FromCache
      <4>2. calledAt < lastFailed + minute
        BY <2>3, <3>2, <4>1
      <4>. QED
        BY <4>1, <4>2 DEF FailedWithin
    <3>. QED
      BY <3>3, <3>4, <3>5
  <2>5. CASE FromList(c, "unknown key")
    BY <2>1, <2>2, <2>5, VerdictMeans DEF FromList
  <2>6. CASE FromKept(c, "unknown key")
    <3>1. calledAt = lockedAt /\ lastFailed' = now /\ cache'.fallback = FALSE
      BY <2>6 DEF FromKept, calledAt
    <3>2. now # None /\ lockedAt < now + minute
      BY <2>3, KeyAssumption
    <3>. QED
      BY <3>1, <3>2 DEF FailedWithin
  <2>7. CASE FromPem(c, "unknown key")
    <3>1. /\ calledAt = lockedAt /\ lastFailed' # None
          /\ lastFailed' \in Nat /\ lastFailed' >= lockedAt
      BY <2>7 DEF FromPem, calledAt
    <3>2. lockedAt < lastFailed' + minute
      <4>1. minute \in Nat /\ minute # 0
        OBVIOUS
      <4>. HIDE TimeAssumption
      <4>. QED
        BY <2>3, <3>1, <4>1, WithinAWhile
    <3>. QED
      BY <3>1, <3>2 DEF FailedWithin
  <2>. QED
    BY <1>1, <2>4, <2>5, <2>6, <2>7, WaysToTell
<1>2. IInv /\ [Next]_vars =>
        [\A c \in Caller : Tells(c, "unknown key") => Counts(c)]_vars
  BY <1>1
<1>. QED
  BY Invariance, <1>2, PTL DEF Spec, RotationCounts

(* With a list in hand the website is asked once a minute at most.         *)
THEOREM ListAskedOnceAMinuteHolds == Spec => ListAskedOnceAMinute
<1>. USE TimeAssumption
<1>1. ASSUME IInv, [Next]_vars, Begins, cache.keys # None, ~cache.fallback
      PROVE  lastRead = None \/ now >= lastRead + minute
  <2>1. PICK c \in Caller : Read(c)
    BY <1>1 DEF Next, Reading, Begins, Tick, ReplacePem, Rotate, Revoke, Ask, Hit,
                ListRead, ListFails, PemRead, PemFails, vars
  <2>2. holder = None /\ ~CacheAnswers(record[c])
    BY <2>1 DEF Read
  <2>3. /\ lastRead # None
        /\ lastRead + minute <= cache.retry
        /\ lastRead + minute <= cache.expires
    BY <1>1, <2>2 DEF IInv, Paced, HasList
  <2>4. /\ now \in Nat /\ lastRead \in Nat
        /\ cache.expires \in Nat /\ cache.retry \in Nat
    BY <1>1, <2>3, Numbers DEF IInv
  <2>5. now >= cache.expires \/ now >= cache.retry
    BY <1>1, <2>2, <2>4 DEF CacheAnswers
  <2>. QED
    BY <2>3, <2>4, <2>5
<1>2. IInv /\ [Next]_vars =>
        [Begins /\ cache.keys # None /\ ~cache.fallback =>
            lastRead = None \/ now >= lastRead + minute]_vars
  BY <1>1
<1>. QED
  BY Invariance, <1>2, PTL DEF Spec, ListAskedOnceAMinute

(***************************************************************************)
(* What EveryVerificationAnswered rests on beside fairness: the mutex is   *)
(* never left locked, and is held for two requests to the website at most. *)
(***************************************************************************)
(* The steps c takes on its own call.                                      *)
Verifying(c) == Hit(c) \/ Read(c) \/ (holder = c /\ Reading)

(* How many of them c may still take.                                      *)
StepsLeft(c) ==
    IF ~ Waiting(c) THEN 0
    ELSE IF holder # c THEN 3
    ELSE IF stage = "list" THEN 2 ELSE 1

(* Whoever holds the mutex waits for a verdict, and is about to read the   *)
(* list, or else the PEM key.                                              *)
NeverLeftLocked ==
    holder # None =>
        holder \in Caller /\ Waiting(holder) /\ StepsLeft(holder) \in {1, 2}

(* Each step of c on its call is one less, and others neither take any     *)
(* from c nor give it more.                                                *)
Nearer ==
    [][\A c \in Caller :
          /\ Verifying(c) => StepsLeft(c)' < StepsLeft(c)
          /\ Waiting(c) /\ ~ Verifying(c) => StepsLeft(c)' = StepsLeft(c)]_vars

(* However a request to the website ends, the reader goes on to the next   *)
(* one or unlocks (keys: every way out of list and pem passes its defer).  *)
THEOREM NearerHolds == Spec => []NeverLeftLocked /\ Nearer
<1>1. IInv => NeverLeftLocked
  BY DEF IInv, TypeOK, Holding, NeverLeftLocked, StepsLeft
<1>2. ASSUME IInv, [Next]_vars, NEW c \in Caller
      PROVE  /\ Verifying(c) => StepsLeft(c)' < StepsLeft(c)
             /\ Waiting(c) /\ ~ Verifying(c) => StepsLeft(c)' = StepsLeft(c)
  <2>. USE KeyAssumption DEF StepsLeft, Waiting, IInv, TypeOK
  <2>1. CASE Hit(c) \/ Read(c)
    BY <1>2, <2>1 DEF Hit, Read, Tell, Verifying
  <2>2. CASE holder = c /\ Reading
    BY <1>2, <2>2
    DEF Reading, ListRead, ListFails, PemRead, PemFails, Return, Tell, Holding,
        Verifying
  <2>3. ASSUME NEW d \in Caller, d # c,
               (\E r \in Asked : Ask(d, r)) \/ Hit(d) \/ Read(d)
        PROVE  Waiting(c) => StepsLeft(c)' = StepsLeft(c)
    BY <1>2, <2>3 DEF Ask, Hit, Read, Tell
  <2>4. ASSUME NEW r \in Asked, Ask(c, r)
        PROVE  ~ Waiting(c)
    BY <2>4 DEF Ask
  <2>5. ASSUME holder # c, Reading
        PROVE  StepsLeft(c)' = StepsLeft(c)
    BY <1>2, <2>5
    DEF Reading, ListRead, ListFails, PemRead, PemFails, Return, Tell
  <2>6. ASSUME \/ Tick \/ ReplacePem
               \/ \E k \in Key : Rotate(k) \/ Revoke(k)
               \/ UNCHANGED vars
        PROVE  StepsLeft(c)' = StepsLeft(c)
    BY <2>6 DEF Tick, ReplacePem, Rotate, Revoke, vars
  <2>. QED
    BY <1>2, <2>1, <2>2, <2>3, <2>4, <2>5, <2>6 DEF Next, Verifying
<1>3. IInv /\ [Next]_vars =>
        [\A c \in Caller :
            /\ Verifying(c) => StepsLeft(c)' < StepsLeft(c)
            /\ Waiting(c) /\ ~ Verifying(c) => StepsLeft(c)' = StepsLeft(c)]_vars
  BY <1>2
<1>. QED
  BY <1>1, <1>3, Invariance, PTL DEF Nearer, Spec
==============================================================================
