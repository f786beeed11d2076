------------------------------ MODULE NotaryKeys ------------------------------
(***************************************************************************)
(* The notary server's cache of Kenwea's published keys, and what          *)
(* notaryVerify says of a record with it.  Verifications run concurrently; *)
(* the cache's mutex is held from the look at the cache to the end of the  *)
(* last request to the website, while time passes and the website's keys   *)
(* are rotated and revoked.                                                *)
(***************************************************************************)
EXTENDS Naturals

CONSTANTS Caller,      \* concurrent verifications
          Key,         \* keys Kenwea has signed with, or will
          FirstKey,    \* the one it starts with
          Asked,       \* the records that are verified
          listTTL,     \* how long a list is good for: an hour
          fallbackTTL, \* how long the single PEM key is: five minutes
          minute,      \* between reads for unknown keys, or of a list that fails
          MaxTime,     \* bound of the clock
          None         \* no keys read yet, no key named, nobody

ASSUME KeyAssumption ==
    FirstKey \in Key /\ None \notin Key \cup Caller \cup Nat

ASSUME TimeAssumption ==
    /\ minute \in Nat \ {0} /\ MaxTime \in Nat
    /\ listTTL \in Nat /\ minute <= listTTL
    /\ fallbackTTL \in Nat /\ minute <= fallbackTTL

Status == {"absent", "active", "retired", "revoked"}
KeyList == [Key -> Status]

ASSUME ListAssumption == None \notin KeyList

Time == 0..MaxTime
Later == 0..(MaxTime + listTTL) \cup 0..(MaxTime + fallbackTTL)

(* A record: the key its payload names (an older one names none) and the   *)
(* key whose signature it carries (none, when it was altered).             *)
Record == [names : Key \cup {None}, signer : Key \cup {None}]

ASSUME RecordAssumption == Asked \subseteq Record /\ None \notin Record

VARIABLES now,
          published,   \* the key list on the website
          pem,         \* the single key on the website
          cache,       \* the keys read, whether they are the PEM key, and the
                       \* two times of notaryKeys
          holder,      \* who holds the mutex for a read, or None
          stage,       \* what the holder is reading: the list or the PEM key
          lockedAt,    \* the holder's time.Now
          record,      \* record[c]: what c verifies, or None
          verdict,     \* verdict[c]: what it was told last, or None
          listedAt,    \* history: when each key was published
          revokedAt,   \* history: when each key was revoked
          told,        \* history: keys a list the server read gave as revoked
          lastRead,    \* history: when the last read began
          lastFailed   \* history: when the list last could not be read

website == <<published, pem, listedAt, revokedAt>>
vars == <<now, website, cache, holder, stage, lockedAt, record, verdict, told,
          lastRead, lastFailed>>

Verdict == {"unavailable", "unknown key", "no match", "revoked", "valid"}

ASSUME VerdictAssumption == None \notin Verdict

Init ==
    /\ now = 0
    /\ published = [k \in Key |-> IF k = FirstKey THEN "active" ELSE "absent"]
    /\ pem = FirstKey
    /\ cache = [keys |-> None, fallback |-> FALSE, expires |-> 0, retry |-> 0]
    /\ holder = None
    /\ stage = "list"
    /\ lockedAt = 0
    /\ record = [c \in Caller |-> None]
    /\ verdict = [c \in Caller |-> None]
    /\ listedAt = [k \in Key |-> 0]
    /\ revokedAt = [k \in Key |-> 0]
    /\ told = {}
    /\ lastRead = None
    /\ lastFailed = None

-----------------------------------------------------------------------------
(* The website (external).                                                 *)

Tick ==
    /\ now < MaxTime
    /\ now' = now + 1
    /\ UNCHANGED <<website, cache, holder, stage, lockedAt, record, verdict,
                   told, lastRead, lastFailed>>

(* A new key is published, and the one in use retired.                     *)
Rotate(k) ==
    /\ published[k] = "absent"
    /\ published' = [j \in Key |-> IF j = k THEN "active"
                                   ELSE IF published[j] = "active" THEN "retired"
                                   ELSE published[j]]
    /\ listedAt' = [listedAt EXCEPT ![k] = now]
    /\ UNCHANGED <<now, pem, revokedAt, cache, holder, stage, lockedAt, record,
                   verdict, told, lastRead, lastFailed>>

Revoke(k) ==
    /\ published[k] \in {"active", "retired"}
    /\ published' = [published EXCEPT ![k] = "revoked"]
    /\ revokedAt' = [revokedAt EXCEPT ![k] = now]
    /\ UNCHANGED <<now, pem, listedAt, cache, holder, stage, lockedAt, record,
                   verdict, told, lastRead, lastFailed>>

(* The PEM key is a file of its own, and is replaced on its own.           *)
ReplacePem ==
    /\ \E k \in Key : published[k] = "active" /\ pem' = k
    /\ UNCHANGED <<now, published, listedAt, revokedAt, cache, holder, stage,
                   lockedAt, record, verdict, told, lastRead, lastFailed>>

-----------------------------------------------------------------------------
(* notaryVerify                                                            *)

hasKey(keys, k) == k # None /\ keys[k] # "absent"

SignerFound(keys, r) ==
    /\ hasKey(keys, r.signer)
    /\ r.names \in {None, r.signer}

VerdictOn(keys, r) ==
    IF SignerFound(keys, r)
    THEN IF keys[r.signer] = "revoked" THEN "revoked" ELSE "valid"
    ELSE IF r.names # None /\ ~hasKey(keys, r.names) THEN "unknown key"
    ELSE "no match"

Waiting(c) == record[c] # None

(* c is told a verdict on its record.                                      *)
Tell(c, v) ==
    /\ verdict' = [verdict EXCEPT ![c] = v]
    /\ record' = [record EXCEPT ![c] = None]

Ask(c, r) ==
    /\ ~Waiting(c)
    /\ record' = [record EXCEPT ![c] = r]
    /\ verdict' = [verdict EXCEPT ![c] = None]
    /\ UNCHANGED <<now, website, cache, holder, stage, lockedAt, told, lastRead,
                   lastFailed>>

(* Mutant: a cached list is never too old.                                 *)
CacheNeverStale(r) ==
    /\ cache.keys # None
    /\ r.names = None \/ hasKey(cache.keys, r.names) \/ now < cache.retry

(* Mutant: a list that is not too old answers for every key.               *)
CacheAnswersAll(r) ==
    /\ cache.keys # None
    /\ now < cache.expires

(* list returns the cached keys.                                           *)
CacheAnswers(r) ==
    /\ cache.keys # None
    /\ now < cache.expires
    /\ r.names = None \/ hasKey(cache.keys, r.names) \/ now < cache.retry

(* A call that finds the mutex free and the keys cached.                   *)
Hit(c) ==
    /\ Waiting(c) /\ holder = None
    /\ CacheAnswers(record[c])
    /\ Tell(c, VerdictOn(cache.keys, record[c]))
    /\ UNCHANGED <<now, website, cache, holder, stage, lockedAt, told, lastRead,
                   lastFailed>>

(* One that has to read them, and keeps the mutex meanwhile.               *)
Read(c) ==
    /\ Waiting(c) /\ holder = None
    /\ ~CacheAnswers(record[c])
    /\ holder' = c
    /\ stage' = "list"
    /\ lockedAt' = now
    /\ lastRead' = now
    /\ UNCHANGED <<now, website, cache, record, verdict, told, lastFailed>>

(* The holder caches keys, good until the given time, and returns them.    *)
Return(keys, fallback, expires) ==
    /\ cache' = [keys |-> keys, fallback |-> fallback, expires |-> expires,
                 retry |-> lockedAt + minute]
    /\ Tell(holder, VerdictOn(keys, record[holder]))
    /\ holder' = None
    /\ UNCHANGED <<now, website, stage, lockedAt, lastRead>>

(* Mutant: the list's life is added to what is left.                       *)
ListReadAdds ==
    /\ holder # None /\ stage = "list"
    /\ Return(published, FALSE, cache.expires + listTTL)
    /\ told' = told \cup {k \in Key : published[k] = "revoked"}
    /\ UNCHANGED lastFailed

ListRead ==
    /\ holder # None /\ stage = "list"
    /\ Return(published, FALSE, lockedAt + listTTL)
    /\ told' = told \cup {k \in Key : published[k] = "revoked"}
    /\ UNCHANGED lastFailed

(* Mutant: a list that cannot be read again is forgotten.                  *)
ListForgotten ==
    /\ holder # None /\ stage = "list"
    /\ lastFailed' = now
    /\ stage' = "pem"
    /\ UNCHANGED <<now, website, cache, holder, lockedAt, record, verdict, told,
                   lastRead>>

(* Mutant: the kept list is returned without putting off the next read.    *)
ListKeptOnly ==
    /\ holder # None /\ stage = "list"
    /\ lastFailed' = now
    /\ cache.keys # None /\ ~cache.fallback
    /\ Tell(holder, VerdictOn(cache.keys, record[holder]))
    /\ holder' = None
    /\ UNCHANGED <<now, website, cache, stage, lockedAt, told, lastRead>>

(* The list cannot be read: no answer, not 200, no JSON, no usable key.    *)
(* One read before is kept for a minute; else the PEM key is next.         *)
ListFails ==
    /\ holder # None /\ stage = "list"
    /\ lastFailed' = now
    /\ \/ /\ cache.keys # None /\ ~cache.fallback
          /\ Return(cache.keys, FALSE, lockedAt + minute)
          /\ UNCHANGED told
       \/ /\ cache.keys = None \/ cache.fallback
          /\ stage' = "pem"
          /\ UNCHANGED <<now, website, cache, holder, lockedAt, record, verdict,
                         told, lastRead>>

(* The PEM key counts as the only one, and as active.                      *)
PemRead ==
    /\ holder # None /\ stage = "pem"
    /\ Return([k \in Key |-> IF k = pem THEN "active" ELSE "absent"],
              TRUE, lockedAt + fallbackTTL)
    /\ UNCHANGED <<told, lastFailed>>

(* Mutant: the two are tried again until one can be read.                  *)
PemFailsRetries ==
    /\ holder # None /\ stage = "pem"
    /\ stage' = "list"
    /\ UNCHANGED <<now, website, cache, holder, lockedAt, record, verdict, told,
                   lastRead, lastFailed>>

(* Neither can be read: an error, and the cache is left as it was.         *)
PemFails ==
    /\ holder # None /\ stage = "pem"
    /\ Tell(holder, "unavailable")
    /\ holder' = None
    /\ UNCHANGED <<now, website, cache, stage, lockedAt, told, lastRead, lastFailed>>

Reading == ListRead \/ ListFails \/ PemRead \/ PemFails

Next ==
    \/ Tick \/ ReplacePem
    \/ \E k \in Key : Rotate(k) \/ Revoke(k)
    \/ \E c \in Caller : (\E r \in Asked : Ask(c, r)) \/ Hit(c) \/ Read(c)
    \/ Reading

Spec == Init /\ [][Next]_vars

(* Requests to the website time out after ten seconds.  A Go mutex hands   *)
(* itself to whoever has waited for a millisecond, so nobody is passed over*)
(* for ever.                                                               *)
Fairness == WF_vars(Reading) /\ \A c \in Caller : SF_vars(Hit(c) \/ Read(c))

FairSpec == Spec /\ Fairness

-----------------------------------------------------------------------------
TypeOK ==
    /\ now \in Time
    /\ published \in KeyList
    /\ pem \in Key
    /\ cache \in [keys : KeyList \cup {None}, fallback : BOOLEAN,
                  expires : Later, retry : Later]
    /\ holder \in Caller \cup {None}
    /\ stage \in {"list", "pem"}
    /\ lockedAt \in 0..now
    /\ record \in [Caller -> Record \cup {None}]
    /\ verdict \in [Caller -> Verdict \cup {None}]
    /\ listedAt \in [Key -> 0..now]
    /\ revokedAt \in [Key -> 0..now]
    /\ told \subseteq Key
    /\ lastRead \in 0..now \cup {None}
    /\ lastFailed \in 0..now \cup {None}

(* A step that tells c a verdict it did not have, and when its call looked *)
(* at the clock.                                                           *)
Tells(c, v) == verdict[c] = None /\ verdict'[c] = v
calledAt == IF holder = None THEN now ELSE lockedAt

(* Once a list the server read gave a key as revoked, no record it signed  *)
(* is valid again, even when the list cannot be read any more and the PEM  *)
(* file still holds that key (notary.go:362-363, "because it still carries *)
(* every revocation").                                                     *)
ToldRevocationsStick ==
    [][\A c \in Caller : Tells(c, "valid") => record[c].signer \notin told]_vars

FailedWithin(d) == lastFailed' # None /\ calledAt < lastFailed' + d

(* A record is only called valid although its key was revoked when that    *)
(* happened less than listTTL ago, or the list could not be read since     *)
(* minute (for a PEM key, fallbackTTL) before.                             *)
RevocationIsSeen ==
    [][\A c \in Caller : Tells(c, "valid") =>
          LET k == record[c].signer IN
          published[k] = "revoked" =>
             \/ calledAt < revokedAt[k] + listTTL
             \/ FailedWithin(IF cache'.fallback THEN fallbackTTL ELSE minute)]_vars

(* A record is only refused for naming an unknown key although that key is *)
(* published when it was published less than a minute ago or the list      *)
(* could not be read in the last minute (notary.go:358-359, "a rotation    *)
(* counts at once rather than an hour late").                              *)
RotationCounts ==
    [][\A c \in Caller : Tells(c, "unknown key") =>
          LET k == record[c].names IN
          published[k] # "absent" =>
             \/ calledAt < listedAt[k] + minute
             \/ FailedWithin(minute)]_vars

Begins == holder = None /\ holder' # None

(* While the server has a list, reads begin at least a minute apart,       *)
(* whatever keys records name and whether or not the website answers.      *)
ListAskedOnceAMinute ==
    [][Begins /\ cache.keys # None /\ ~cache.fallback =>
          lastRead = None \/ now >= lastRead + minute]_vars

(* What notary.go:357-359 says of any cache: "a record naming a key the    *)
(* cache does not hold reads it again, at most once a minute".             *)
UnknownKeyReadsOnceAMinute ==
    [][Begins /\ cache.keys # None /\ now < cache.expires =>
          lastRead = None \/ now >= lastRead + minute]_vars

(* Every verification is answered, however many wait for one slow read.    *)
EveryVerificationAnswered ==
    \A c \in Caller : Waiting(c) ~> ~Waiting(c)

-----------------------------------------------------------------------------
(* The inductive invariant.                                                *)

HasList == cache.keys # None /\ ~cache.fallback

(* What the holder of the mutex is about.                                  *)
Holding ==
    holder # None =>
       /\ Waiting(holder)
       /\ lastRead = lockedAt
       /\ stage = "pem" => ~HasList /\ lastFailed # None /\ lastFailed >= lockedAt

(* What a list gave as revoked stays so in the cache and at the website.   *)
Remembered ==
    /\ told # {} => HasList
    /\ \A k \in told : cache.keys[k] = "revoked" /\ published[k] = "revoked"

(* The times of the cache bound how old its keys may be when used.         *)
Bounded ==
    cache.keys # None =>
       /\ cache.retry <= now + minute
       /\ IF cache.fallback
          THEN lastFailed # None /\ cache.expires <= lastFailed + fallbackTTL
          ELSE cache.expires <= now + listTTL

FailedSince(t, d) == lastFailed # None /\ t <= lastFailed + d

RevokedSince ==
    cache.keys # None =>
       \A k \in Key : published[k] = "revoked" /\ cache.keys[k] # "revoked" =>
          \/ cache.expires <= revokedAt[k] + listTTL
          \/ FailedSince(cache.expires,
                         IF cache.fallback THEN fallbackTTL ELSE minute)

ListedSince ==
    cache.keys # None =>
       \A k \in Key : published[k] # "absent" /\ cache.keys[k] = "absent" =>
          \/ cache.retry <= listedAt[k] + minute
          \/ FailedSince(cache.retry, minute)

(* After a read that left a list the next is a minute away.                *)
Paced ==
    HasList /\ holder = None =>
       /\ lastRead # None
       /\ lastRead + minute <= cache.retry
       /\ lastRead + minute <= cache.expires

IInv == /\ TypeOK /\ Holding /\ Remembered /\ Bounded
        /\ RevokedSince /\ ListedSince /\ Paced
==============================================================================
