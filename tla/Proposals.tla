------------------------------ MODULE Proposals ------------------------------
(***************************************************************************)
(* The terms the server publishes, and the tokens that tie a copy of them  *)
(* to the moment it was fetched.  A token comes back days later, to a      *)
(* build that may be newer, or older again, and that has no memory but the *)
(* log compiled into it: from these the server says whether the terms have *)
(* moved and what has changed.                                             *)
(***************************************************************************)
EXTENDS Naturals, Sequences, FiniteSets, Functions

CONSTANTS Terms,       \* terms that may be published
          Secret,      \* values of KENWEA_PROPOSAL_TOKEN_SECRET
          TTL,         \* proposalTokenTTL, the seven days
          Second,      \* how often the clock ticks in a second
          None,
          MaxTime,     \* bound: how late it gets
          MaxReleases, \* bound: entries in the log
          MaxCopies    \* bound: descriptors fetched

(* Tools and tourist tools are published sorted, so as sets; promises are  *)
(* published in an order.                                                  *)
ASSUME TermsAreRecords ==
    \A t \in Terms : t = [tools |-> t.tools, tourist |-> t.tourist,
                          commission |-> t.commission, promises |-> t.promises]
ASSUME NoneIsNothing == /\ None \notin Secret
                        /\ \A t \in Terms : t.commission # None
ASSUME Bounds == /\ TTL \in Nat /\ MaxTime \in Nat /\ MaxReleases \in Nat
                 /\ MaxCopies \in Nat /\ Second \in Nat \ {0}

VARIABLES
    releases,  \* the terms of each release, in the order of the log
    live,      \* the release that serves, whose log ends with its terms
    secret,    \* the secret it was started with, or None
    now,       \* its clock
    copies,    \* descriptors fetched, each with its token
    answer     \* what was last said of a token

vars == <<releases, live, secret, now, copies, answer>>

termsFingerprint(t) == <<t.tools, t.tourist, t.promises, t.commission>>

(* A copy: the terms it shows, when it was fetched, and of its token the   *)
(* time, the secret and the fingerprint; legacy tokens have none.          *)
Copy == [terms : Terms, fetched : 0 .. MaxTime, minted : 0 .. MaxTime,
         secret : Secret,
         fingerprint : {termsFingerprint(t) : t \in Terms} \cup {None}]

(* There may be a copy from before the log: of terms nobody recorded, or   *)
(* with a legacy token.                                                    *)
Init ==
    /\ \E t \in Terms : releases = <<t>>
    /\ live = 1
    /\ secret \in Secret \cup {None}
    /\ now = 0
    /\ \E t \in Terms, s \in Secret : \E f \in {None, termsFingerprint(t)} :
          copies \in {{}, {[terms |-> t, fetched |-> 0, minted |-> 0,
                            secret |-> s, fingerprint |-> f]}}
    /\ answer = None

(* The clock goes on, or is set back.                                      *)
Tick ==
    /\ \/ now < MaxTime /\ now' = now + 1
       \/ now > 0 /\ now' = now - 1
    /\ UNCHANGED <<releases, live, secret, copies, answer>>

(* New terms are recorded with the build that publishes them, and no terms *)
(* twice: the build's tests refuse anything else.                          *)
Release(t) ==
    /\ Len(releases) < MaxReleases
    /\ \A n \in 1 .. Len(releases) :
          termsFingerprint(releases[n]) # termsFingerprint(t)
    /\ releases' = Append(releases, t)
    /\ UNCHANGED <<live, secret, now, copies, answer>>

(* A deploy starts any build, the newest or an older one, with any secret. *)
Deploy(n, s) ==
    /\ live' = n
    /\ secret' = s
    /\ UNCHANGED <<releases, now, copies, answer>>

currentPublishedTerms == releases[live]
termsHistory == SubSeq(releases, 1, live)

(* A token counts whole seconds, and is compared with the finer clock.     *)
Unix(time) == time - (time % Second)

(* Tokens of one second differ in a nonce only, which is left out here.    *)
(* Without a secret a descriptor has no token.                             *)
Fetch ==
    /\ secret # None
    /\ Cardinality(copies) < MaxCopies
    /\ copies' = copies \cup
           {[terms |-> currentPublishedTerms, fetched |-> now,
             minted |-> Unix(now), secret |-> secret,
             fingerprint |-> termsFingerprint(currentPublishedTerms)]}
    /\ UNCHANGED <<releases, live, secret, now, answer>>

Unrecorded(f) ==
    \A n \in DOMAIN termsHistory : termsFingerprint(termsHistory[n]) # f

(* Mutant: only terms the log knows are honoured.                          *)
verifyRecordedToken(k) ==
    IF secret = None THEN "attribution_disabled"
    ELSE IF k = None THEN "malformed"
    ELSE IF k.secret # secret THEN "bad_signature"
    ELSE IF k.minted > now THEN "minted_in_future"
    ELSE IF now - k.minted > TTL THEN "expired"
    ELSE IF k.fingerprint = termsFingerprint(currentPublishedTerms) THEN "current"
    ELSE IF Unrecorded(k.fingerprint) THEN "bad_signature"
    ELSE "stale"

verifyProposalToken(k) ==
    IF secret = None THEN "attribution_disabled"
    ELSE IF k = None THEN "malformed"
    ELSE IF k.secret # secret THEN "bad_signature"
    ELSE IF k.minted > now THEN "minted_in_future"
    ELSE IF now - k.minted > TTL THEN "expired"
    ELSE IF k.fingerprint = None THEN "unknown"
    ELSE IF k.fingerprint = termsFingerprint(currentPublishedTerms) THEN "current"
    ELSE "stale"

setDifference(before, after) ==
    [added |-> after \ before, removed |-> before \ after]

changedBetween(before, after) ==
    [tools |-> setDifference(before.tools, after.tools),
     tourist |-> setDifference(before.tourist, after.tourist),
     commission |-> IF before.commission = after.commission THEN None
                    ELSE after.commission,
     promises |-> setDifference(Range(before.promises), Range(after.promises))]

entryOf(f) ==
    CHOOSE n \in DOMAIN termsHistory : termsFingerprint(termsHistory[n]) = f

(* Mutant: what changed in the next release is told, and no more.          *)
changesSinceStep(f) ==
    IF Unrecorded(f) THEN [known |-> FALSE]
    ELSE LET from == entryOf(f) IN
         [known |-> TRUE,
          changes |-> changedBetween(termsHistory[from],
                          termsHistory[IF from = live THEN live ELSE from + 1])]

changesSince(f) ==
    IF Unrecorded(f) THEN [known |-> FALSE]
    ELSE [known |-> TRUE,
          changes |-> changedBetween(termsHistory[entryOf(f)],
                                     termsHistory[live])]

(* None is a link that is no token, or no longer.                          *)
redeemProposalToken(k) ==
    LET verdict == verifyProposalToken(k) IN
    /\ answer' = [copy |-> k, verdict |-> verdict, at |-> now,
                  secret |-> secret, release |-> live,
                  termsChanged |-> IF verdict = "stale"
                                   THEN changesSince(k.fingerprint)
                                   ELSE [known |-> FALSE]]
    /\ UNCHANGED <<releases, live, secret, now, copies>>

Next == \/ Tick
        \/ \E t \in Terms : Release(t)
        \/ \E n \in 1 .. Len(releases), s \in Secret \cup {None} : Deploy(n, s)
        \/ Fetch
        \/ \E k \in copies \cup {None} : redeemProposalToken(k)

Spec == Init /\ [][Next]_vars

(***************************************************************************)
(* Properties.                                                             *)
(***************************************************************************)
Verdict == {"attribution_disabled", "malformed", "bad_signature",
            "minted_in_future", "expired", "unknown", "current", "stale"}

TypeOK ==
    /\ releases \in Seq(Terms)
    /\ live \in 1 .. Len(releases)
    /\ secret \in Secret \cup {None}
    /\ now \in 0 .. MaxTime
    /\ copies \subseteq Copy
    /\ answer # None =>
          /\ answer.copy \in Copy \cup {None}
          /\ answer.verdict \in Verdict
          /\ answer.at \in 0 .. MaxTime
          /\ answer.secret \in Secret \cup {None}
          /\ answer.release \in 1 .. Len(releases)

(* What a reader makes of the changes told: his copy with them applied.    *)
Moved(set, change) == (set \cup change.added) \ change.removed
Applied(changes, t) ==
    [tools |-> Moved(t.tools, changes.tools),
     tourist |-> Moved(t.tourist, changes.tourist),
     commission |-> IF changes.commission = None THEN t.commission
                    ELSE changes.commission,
     promises |-> Moved(Range(t.promises), changes.promises)]

(* Terms but for the order of the promises, which no change tells.         *)
Content(t) == [tools |-> t.tools, tourist |-> t.tourist,
               commission |-> t.commission, promises |-> Range(t.promises)]

(* Whoever redeems the token of a copy and is told it is current holds the *)
(* terms in force; told what changed, he has them by applying that to his  *)
(* copy, however many releases and deploys lie between, forward or back;   *)
(* and nothing can be told him only when the log in force lacks his terms. *)
ToldWhatChanged ==
    answer # None =>
        LET k == answer.copy
            inForce == releases[answer.release]
        IN  /\ answer.verdict = "current" => k.terms = inForce
            /\ /\ answer.verdict = "stale"
               /\ \E n \in 1 .. answer.release : releases[n] = k.terms
               => /\ answer.termsChanged.known
                  /\ Applied(answer.termsChanged.changes, k.terms)
                        = Content(inForce)

(* The seven days a descriptor promises its token: as long as the server   *)
(* has the secret it was signed with, it is honoured for them, but for the *)
(* part of a second that whole seconds cannot hold, and never after them,  *)
(* whatever was released, deployed or rolled back since, with terms the    *)
(* log knows, terms from before the log, or none at all.                   *)
SevenDays ==
    answer # None /\ answer.copy # None =>
        LET k == answer.copy
            honoured == answer.verdict \in {"unknown", "current", "stale"}
        IN  answer.secret = k.secret /\ answer.at >= k.fetched =>
                /\ answer.at + (Second - 1) <= k.fetched + TTL => honoured
                /\ honoured => answer.at <= k.fetched + TTL
==============================================================================
