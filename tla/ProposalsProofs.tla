--------------------------- MODULE ProposalsProofs ---------------------------
(***************************************************************************)
(* For any terms, secrets and times, any number of releases and any order  *)
(* of deploys: what is said of a token is true, and said for seven days.   *)
(***************************************************************************)
EXTENDS Proposals, TLAPS

(* A token is bound to the terms of its copy, or to none.                  *)
Binding == \A k \in copies :
              k.fingerprint # None => k.fingerprint = termsFingerprint(k.terms)

(* A token is dated less than a second before its copy was fetched.        *)
Dating == \A k \in copies :
             k.minted <= k.fetched /\ k.fetched <= k.minted + (Second - 1)

IInv == TypeOK /\ Binding /\ Dating /\ ToldWhatChanged /\ SevenDays

(* Terms with one fingerprint are the same terms.                          *)
LEMMA OneFingerprint ==
    ASSUME NEW t \in Terms, NEW u \in Terms,
           termsFingerprint(t) = termsFingerprint(u)
    PROVE  t = u
<1>1. /\ t.tools = u.tools /\ t.tourist = u.tourist
      /\ t.promises = u.promises /\ t.commission = u.commission
  BY DEF termsFingerprint
<1>2. t = [tools |-> t.tools, tourist |-> t.tourist,
           commission |-> t.commission, promises |-> t.promises]
  BY TermsAreRecords
<1>3. u = [tools |-> u.tools, tourist |-> u.tourist,
           commission |-> u.commission, promises |-> u.promises]
  BY TermsAreRecords
<1>. QED
  BY <1>1, <1>2, <1>3

(* Cutting a time to the second takes less than a second from it.          *)
LEMMA UnixCuts ==
    ASSUME NEW t \in Nat
    PROVE  /\ Unix(t) \in Nat /\ Unix(t) <= t
           /\ t <= Unix(t) + (Second - 1)
<1>1. Second \in Nat \ {0}
  BY Bounds
<1>2. t % Second \in 0 .. (Second - 1)
  BY <1>1
<1>3. t % Second <= t
  BY <1>1
<1>. QED
  BY <1>1, <1>2, <1>3 DEF Unix

(* Changes applied to what they were counted from give what they lead to.  *)
LEMMA MovedThere ==
    ASSUME NEW before, NEW after
    PROVE  Moved(before, setDifference(before, after)) = after
BY DEF Moved, setDifference

LEMMA AppliedGives ==
    ASSUME NEW before \in Terms, NEW after \in Terms
    PROVE  Applied(changedBetween(before, after), before) = Content(after)
<1>. DEFINE c == changedBetween(before, after)
<1>1. /\ c.tools = setDifference(before.tools, after.tools)
      /\ c.tourist = setDifference(before.tourist, after.tourist)
      /\ c.promises = setDifference(Range(before.promises), Range(after.promises))
      /\ c.commission = IF before.commission = after.commission THEN None
                        ELSE after.commission
  BY DEF changedBetween
<1>. HIDE DEF c
<1>2. /\ Moved(before.tools, c.tools) = after.tools
      /\ Moved(before.tourist, c.tourist) = after.tourist
      /\ Moved(Range(before.promises), c.promises) = Range(after.promises)
  BY <1>1, MovedThere
<1>3. (IF c.commission = None THEN before.commission ELSE c.commission)
          = after.commission
  BY <1>1, NoneIsNothing
<1>4. Applied(c, before) = Content(after)
  BY <1>2, <1>3, Zenon DEF Applied, Content
<1>. QED
  BY <1>4 DEF c

LEMMA InitInv == Init => IInv
<1>. SUFFICES ASSUME Init PROVE IInv
  OBVIOUS
<1>1. PICK t \in Terms : releases = <<t>>
  BY DEF Init
<1>2. releases \in Seq(Terms) /\ Len(releases) = 1
  BY <1>1
<1>3. answer = None /\ live = 1 /\ now = 0 /\ secret \in Secret \cup {None}
  BY DEF Init
<1>4. /\ \A k \in copies : k \in Copy
      /\ \A k \in copies :
            k.fingerprint # None => k.fingerprint = termsFingerprint(k.terms)
      /\ \A k \in copies : k.fetched = 0 /\ k.minted = 0
  <2>0. PICK u \in Terms, s \in Secret : \E f \in {None, termsFingerprint(u)} :
            copies \in {{}, {[terms |-> u, fetched |-> 0, minted |-> 0,
                              secret |-> s, fingerprint |-> f]}}
    BY DEF Init
  <2>1. PICK f \in {None, termsFingerprint(u)} :
            copies \in {{}, {[terms |-> u, fetched |-> 0, minted |-> 0,
                              secret |-> s, fingerprint |-> f]}}
    BY <2>0
  <2>. DEFINE k == [terms |-> u, fetched |-> 0, minted |-> 0, secret |-> s,
                    fingerprint |-> f]
  <2>2. 0 \in 0 .. MaxTime
    BY Bounds
  <2>3. k \in Copy
    BY <2>2 DEF Copy
  <2>4. k.terms = u /\ k.fingerprint = f /\ k.fetched = 0 /\ k.minted = 0
    OBVIOUS
  <2>. HIDE DEF k
  <2>5. \A j \in copies : j = k
    BY <2>1 DEF k
  <2>. QED
    BY <2>3, <2>4, <2>5
<1>5. TypeOK
  BY <1>2, <1>3, <1>4, Bounds DEF TypeOK
<1>6. Dating
  <2>1. Second - 1 \in Nat
    BY Bounds
  <2>. QED
    BY <1>4, <2>1 DEF Dating
<1>. QED
  BY <1>3, <1>4, <1>5, <1>6 DEF IInv, Binding, Dating, ToldWhatChanged, SevenDays

(* What was said stays true while only the answer stays as it is.          *)
LEMMA SaidStays ==
    ASSUME IInv, UNCHANGED answer,
           releases' \in Seq(Terms), Len(releases') >= Len(releases),
           \A n \in 1 .. Len(releases) : releases'[n] = releases[n]
    PROVE  /\ ToldWhatChanged' /\ SevenDays'
           /\ answer' # None => answer.release \in 1 .. Len(releases')
<1>1. answer # None => answer.release \in 1 .. Len(releases)
  BY DEF IInv, TypeOK
<1>2. Len(releases) \in Nat /\ Len(releases') \in Nat
  BY DEF IInv, TypeOK
<1>3. answer' # None => answer.release \in 1 .. Len(releases')
  BY <1>1, <1>2
<1>4. SevenDays'
  BY DEF IInv, SevenDays
<1>5. ToldWhatChanged'
  <2>. SUFFICES ASSUME answer # None PROVE ToldWhatChanged'
    BY DEF ToldWhatChanged
  <2>1. /\ answer.release \in Nat
        /\ \A n \in 1 .. answer.release : n \in 1 .. Len(releases)
        /\ answer.release \in 1 .. Len(releases)
    BY <1>1, <1>2
  <2>2. /\ releases'[answer.release] = releases[answer.release]
        /\ \A n \in 1 .. answer.release : releases'[n] = releases[n]
    BY <2>1
  <2>. QED
    BY <2>2 DEF IInv, ToldWhatChanged
<1>. QED
  BY <1>3, <1>4, <1>5

LEMMA TickInv == IInv /\ Tick => IInv'
<1>. SUFFICES ASSUME IInv, Tick PROVE IInv'
  OBVIOUS
<1>1. UNCHANGED <<releases, live, secret, copies, answer>>
  BY DEF Tick
<1>2. now' \in 0 .. MaxTime
  BY Bounds DEF Tick, IInv, TypeOK
<1>3. TypeOK'
  BY <1>1, <1>2 DEF IInv, TypeOK
<1>. QED
  BY <1>1, <1>3 DEF IInv, Binding, Dating, ToldWhatChanged, SevenDays

LEMMA ReleaseInv == ASSUME IInv, NEW t \in Terms, Release(t) PROVE IInv'
<1>1. /\ releases \in Seq(Terms) /\ releases' = Append(releases, t)
      /\ UNCHANGED <<live, secret, now, copies, answer>>
  BY DEF Release, IInv, TypeOK
<1>2. /\ releases' \in Seq(Terms) /\ Len(releases) \in Nat
      /\ Len(releases') = Len(releases) + 1
      /\ \A n \in 1 .. Len(releases) : releases'[n] = releases[n]
  BY <1>1
<1>3. /\ ToldWhatChanged' /\ SevenDays'
      /\ answer' # None => answer.release \in 1 .. Len(releases')
  BY <1>1, <1>2, SaidStays
<1>4. live' \in 1 .. Len(releases')
  BY <1>1, <1>2 DEF IInv, TypeOK
<1>5. TypeOK'
  BY <1>1, <1>2, <1>3, <1>4 DEF IInv, TypeOK
<1>. QED
  BY <1>1, <1>3, <1>5 DEF IInv, Binding, Dating

LEMMA DeployInv ==
    ASSUME IInv, NEW n \in 1 .. Len(releases), NEW s \in Secret \cup {None},
           Deploy(n, s)
    PROVE  IInv'
<1>1. /\ live' = n /\ secret' = s
      /\ UNCHANGED <<releases, now, copies, answer>>
  BY DEF Deploy
<1>2. TypeOK'
  BY <1>1 DEF IInv, TypeOK
<1>. QED
  BY <1>1, <1>2 DEF IInv, Binding, Dating, ToldWhatChanged, SevenDays

LEMMA FetchInv == IInv /\ Fetch => IInv'
<1>. SUFFICES ASSUME IInv, Fetch PROVE IInv'
  OBVIOUS
<1>. DEFINE terms == releases[live]
            k == [terms |-> terms, fetched |-> now, minted |-> Unix(now),
                  secret |-> secret, fingerprint |-> termsFingerprint(terms)]
<1>1. /\ copies' = copies \cup {k}
      /\ UNCHANGED <<releases, live, secret, now, answer>>
  BY DEF Fetch, currentPublishedTerms
<1>2. terms \in Terms /\ now \in 0 .. MaxTime /\ secret \in Secret
  BY DEF IInv, TypeOK, Fetch
<1>0. /\ Unix(now) \in 0 .. MaxTime /\ Unix(now) <= now
      /\ now <= Unix(now) + (Second - 1)
  BY <1>2, UnixCuts, Bounds
<1>3. k \in Copy
  <2>. HIDE DEF terms
  <2>. QED
    BY <1>0, <1>2 DEF Copy
<1>4. /\ k.fingerprint = termsFingerprint(k.terms)
      /\ k.fetched = now /\ k.minted = Unix(now)
  OBVIOUS
<1>. HIDE DEF k
<1>5. TypeOK' /\ Binding' /\ Dating'
  BY <1>0, <1>1, <1>3, <1>4 DEF IInv, TypeOK, Binding, Dating
<1>. QED
  BY <1>1, <1>5 DEF IInv, ToldWhatChanged, SevenDays

(* The log in force is the beginning of the releases up to the live one.   *)
LEMMA InForce ==
    ASSUME TypeOK
    PROVE  /\ DOMAIN termsHistory = 1 .. live
           /\ \A n \in 1 .. live : termsHistory[n] = releases[n]
           /\ \A n \in 1 .. live : termsHistory[n] \in Terms
           /\ live \in 1 .. live
BY DEF TypeOK, termsHistory

LEMMA RedeemTells ==
    ASSUME IInv, NEW k \in copies \cup {None}, redeemProposalToken(k)
    PROVE  ToldWhatChanged'
<1>. DEFINE verdict == verifyProposalToken(k)
<1>1. /\ answer'.copy = k /\ answer'.verdict = verdict /\ answer'.release = live
      /\ verdict = "stale" => answer'.termsChanged = changesSince(k.fingerprint)
      /\ UNCHANGED releases
  BY DEF redeemProposalToken
<1>2. TypeOK /\ releases[live] \in Terms
  BY DEF IInv, TypeOK
<1>3. ASSUME verdict \in {"current", "stale"}
      PROVE  /\ k \in copies /\ k.terms \in Terms
             /\ k.fingerprint = termsFingerprint(k.terms)
             /\ verdict = "current" =>
                    k.fingerprint = termsFingerprint(releases[live])
  <2>1. k # None /\ k.fingerprint # None
    BY <1>3 DEF verifyProposalToken
  <2>2. verdict = "current" =>
            k.fingerprint = termsFingerprint(currentPublishedTerms)
    BY DEF verifyProposalToken
  <2>3. k \in copies /\ k \in Copy
    BY <2>1 DEF IInv, TypeOK
  <2>4. k.terms \in Terms
    BY <2>3 DEF Copy
  <2>. QED
    BY <2>1, <2>2, <2>3, <2>4 DEF IInv, Binding, currentPublishedTerms
<1>4. verdict = "current" => k.terms = releases[live]
  BY <1>2, <1>3, OneFingerprint
<1>5. ASSUME verdict = "stale", NEW n \in 1 .. live, releases[n] = k.terms
      PROVE  /\ changesSince(k.fingerprint).known
             /\ Applied(changesSince(k.fingerprint).changes, k.terms)
                    = Content(releases[live])
  <2>. DEFINE f == k.fingerprint
              from == entryOf(f)
  <2>1. /\ f = termsFingerprint(k.terms) /\ k.terms \in Terms
        /\ termsHistory[n] = k.terms /\ n \in DOMAIN termsHistory
    BY <1>2, <1>3, <1>5, InForce
  <2>2. ~ Unrecorded(f)
    BY <2>1 DEF Unrecorded
  <2>3. from \in DOMAIN termsHistory /\ termsFingerprint(termsHistory[from]) = f
    BY <2>1 DEF entryOf
  <2>. HIDE DEF from
  <2>4. termsHistory[from] = k.terms
    BY <2>1, <2>3, <1>2, InForce, OneFingerprint
  <2>5. termsHistory[live] = releases[live]
    BY <1>2, InForce
  <2>6. changesSince(f) =
            [known |-> TRUE, changes |-> changedBetween(k.terms, releases[live])]
    BY <2>2, <2>4, <2>5 DEF changesSince, from
  <2>. QED
    BY <2>1, <2>6, <1>2, AppliedGives
<1>. HIDE DEF verdict
<1>. QED
  BY <1>1, <1>4, <1>5 DEF ToldWhatChanged

LEMMA RedeemHonours ==
    ASSUME IInv, NEW k \in copies \cup {None}, redeemProposalToken(k)
    PROVE  SevenDays'
<1>. DEFINE verdict == verifyProposalToken(k)
<1>1. /\ answer'.copy = k /\ answer'.verdict = verdict
      /\ answer'.at = now /\ answer'.secret = secret
  BY DEF redeemProposalToken
<1>2. ASSUME k # None, secret = k.secret, now >= k.fetched
      PROVE  LET honoured == verdict \in {"unknown", "current", "stale"}
             IN  /\ now + (Second - 1) <= k.fetched + TTL => honoured
                 /\ honoured => now <= k.fetched + TTL
  <2>1. /\ k \in copies /\ k \in Copy /\ now \in Nat /\ TTL \in Nat
        /\ Second - 1 \in Nat
    BY <1>2, Bounds DEF IInv, TypeOK
  <2>2. k.fetched \in Nat /\ k.minted \in Nat /\ k.secret \in Secret
    BY <2>1, Bounds DEF Copy
  <2>3. k.minted <= k.fetched /\ k.fetched <= k.minted + (Second - 1)
    BY <2>1 DEF IInv, Dating
  <2>4. secret # None /\ ~ (k.minted > now)
    BY <1>2, <2>1, <2>2, <2>3, NoneIsNothing
  <2>5. CASE now - k.minted > TTL
    <3>1. ~ (now + (Second - 1) <= k.fetched + TTL)
      BY <2>1, <2>2, <2>3, <2>5
    <3>. QED
      BY <1>2, <2>4, <2>5, <3>1 DEF verifyProposalToken
  <2>6. CASE ~ (now - k.minted > TTL)
    <3>1. now <= k.fetched + TTL
      BY <2>1, <2>2, <2>3, <2>6
    <3>. QED
      BY <1>2, <2>4, <2>6, <3>1 DEF verifyProposalToken
  <2>. QED
    BY <2>5, <2>6
<1>. HIDE DEF verdict
<1>. QED
  BY <1>1, <1>2 DEF SevenDays

LEMMA RedeemInv ==
    ASSUME IInv, NEW k \in copies \cup {None}, redeemProposalToken(k)
    PROVE  IInv'
<1>1. /\ answer'.copy = k /\ answer'.verdict = verifyProposalToken(k)
      /\ answer'.at = now /\ answer'.secret = secret /\ answer'.release = live
      /\ UNCHANGED <<releases, live, secret, now, copies>>
  BY DEF redeemProposalToken
<1>2. verifyProposalToken(k) \in Verdict
  BY DEF verifyProposalToken, Verdict
<1>3. k \in Copy \cup {None}
  BY DEF IInv, TypeOK
<1>4. TypeOK'
  BY <1>1, <1>2, <1>3 DEF IInv, TypeOK
<1>5. Binding'
  BY <1>1 DEF IInv, Binding
<1>6. Dating'
  BY <1>1 DEF IInv, Dating
<1>. QED
  BY <1>4, <1>5, <1>6, RedeemTells, RedeemHonours DEF IInv

LEMMA StepInv == IInv /\ [Next]_vars => IInv'
<1>. SUFFICES ASSUME IInv, [Next]_vars PROVE IInv'
  OBVIOUS
<1>1. CASE UNCHANGED vars
  BY <1>1 DEF vars, IInv, TypeOK, Binding, Dating, ToldWhatChanged, SevenDays
<1>. QED
  BY <1>1, TickInv, ReleaseInv, DeployInv, FetchInv, RedeemInv DEF Next

(* The invariant holds throughout.                                         *)
THEOREM Invariance == Spec => []IInv
BY InitInv, StepInv, PTL DEF Spec

(* Every variable keeps its type.                                          *)
THEOREM TypeCorrect == Spec => []TypeOK
BY Invariance, PTL DEF IInv

(* What redeemProposalToken says of the terms is true, and all there is.   *)
THEOREM ToldWhatChangedHolds == Spec => []ToldWhatChanged
BY Invariance, PTL DEF IInv

(* verifyProposalToken honours a token for its seven days and no longer.   *)
THEOREM SevenDaysHolds == Spec => []SevenDays
BY Invariance, PTL DEF IInv
==============================================================================
