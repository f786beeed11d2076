-------------------------------- MODULE Witness --------------------------------
(***************************************************************************)
(* The notary log witness: runs, one after another, that fetch the log's   *)
(* signed head, compare it with the last one kept and keep it.  The log is *)
(* the other party: it may grow, stall, shrink, fork, or serve an old head *)
(* again.  Keeping writes two files, and a run may break off anywhere.     *)
(*                                                                         *)
(* The scheduled workflow works on a fresh checkout and pushes both files  *)
(* together (Checkout); who runs the command on a directory of his own is  *)
(* left with whatever was written when a run broke off.                    *)
(***************************************************************************)
EXTENDS Naturals, Sequences

CONSTANTS Tree,       \* what a head stands for: so many records, their root
          extends,    \* <<new, old>> when the tree new begins with the tree old
          size,       \* size[t]: the number of records under t
          Checkout,   \* TRUE: the workflow; FALSE: a plain directory
          skew,       \* how far ahead of the clock a head may be signed
          fresh,      \* -fresh: a timed head may not be signed longer ago
          stale,      \* -stale: how long an untimed head may go unchanged
          every,      \* -every: an unchanged head is kept at most this often
          MaxTime,    \* bound of the clock
          None, Torn  \* no checkpoint file; one cut short

Untimed == 0          \* Go's zero time: the checkpoint names no time

Heads == [tree : Tree, signedAt : 0..(MaxTime + skew + 1)]
Line == [at : 1..MaxTime, tree : Tree, signedAt : 0..(MaxTime + skew + 1)]

(* The two files.  since is history: when the checkpoint's tree was first  *)
(* kept.                                                                   *)
Files == [checkpoint : Heads \cup {None, Torn}, log : Seq(Line),
          since : 0..MaxTime]

ASSUME NumberAssumption ==
    /\ skew \in Nat /\ fresh \in Nat /\ stale \in Nat /\ every \in Nat
    /\ MaxTime \in Nat \ {0}
    /\ Checkout \in BOOLEAN

(* A tree begins with itself, with what its beginnings begin with, and     *)
(* with the empty tree.                                                    *)
ASSUME TreeAssumption ==
    /\ size \in [Tree -> Nat]
    /\ extends \subseteq Tree \X Tree
    /\ \A t \in Tree : <<t, t>> \in extends
    /\ \A t, u, v \in Tree :
          <<t, u>> \in extends /\ <<u, v>> \in extends => <<t, v>> \in extends
    /\ \A t, u \in Tree : size[u] = 0 => <<t, u>> \in extends

ASSUME FileAssumption == None # Torn /\ {None, Torn} \cap Heads = {}

VARIABLES now,        \* the clock
          kept,       \* the files that survive a run
          copy,       \* the files the run works on
          pc,         \* where the run is
          at,         \* its time.Now
          cur,        \* the head it fetched
          verdict,    \* how the last run ended
          passed      \* history: the trees of the heads that passed

vars == <<now, kept, copy, pc, at, cur, verdict, passed>>

Place == {"idle", "look", "prove", "write", "append", "push"}
Verdict == {"none", "failed", "out of time", "unreadable", "went back",
            "rewritten", "unproven", "stale", "unchanged", "kept"}

Init ==
    /\ now = 1
    /\ kept = [checkpoint |-> None, log |-> <<>>, since |-> 0]
    /\ copy = kept
    /\ pc = "idle"
    /\ at = 1
    /\ cur = None
    /\ verdict = "none"
    /\ passed = {}

Goto(p) ==
    /\ pc' = p
    /\ UNCHANGED <<now, kept, copy, at, verdict, passed>>

(* The run exits with an error and writes nothing more.                    *)
Fail(v) ==
    /\ pc' = "idle"
    /\ verdict' = v
    /\ UNCHANGED <<now, kept, copy, at, passed>>

(* The run exits without one.                                              *)
Pass(v, hd) ==
    /\ pc' = "idle"
    /\ verdict' = v
    /\ passed' = passed \cup {hd.tree}
    /\ UNCHANGED <<now, at>>

Tick ==
    /\ now < MaxTime
    /\ now' = now + 1
    /\ UNCHANGED <<kept, copy, pc, at, cur, verdict, passed>>

(* Mutant: the run's time is rounded up.                                   *)
StartRoundedUp ==
    /\ pc = "idle"
    /\ pc' = "look"
    /\ at' = now + 1
    /\ copy' = kept
    /\ cur' = None
    /\ verdict' = "none"
    /\ UNCHANGED <<now, kept, passed>>

(* One run at a time: the workflow's concurrency group.                    *)
Start ==
    /\ pc = "idle"
    /\ pc' = "look"
    /\ at' = now
    /\ copy' = kept
    /\ cur' = None
    /\ verdict' = "none"
    /\ UNCHANGED <<now, kept, passed>>

(* No key, no answer, or a checkpoint its signature does not match.        *)
LookFails ==
    /\ pc = "look"
    /\ Fail("failed")
    /\ UNCHANGED cur

(* The head just fetched, against the clock and against the kept head.     *)
prev == copy.checkpoint

OutOfTime(hd) ==
    /\ hd.signedAt # Untimed
    /\ hd.signedAt > at + skew \/ at > hd.signedAt + fresh

(* Mutant: a head that names no time is not compared with the kept one.    *)
GoesBackTimed(hd) ==
    /\ prev.signedAt # Untimed
    /\ hd.signedAt # Untimed
    /\ hd.signedAt < prev.signedAt

(* An untimed head has the zero time, which is before any other.           *)
GoesBack(hd) ==
    /\ prev.signedAt # Untimed
    /\ hd.signedAt < prev.signedAt

Rewritten(hd) ==
    \/ size[hd.tree] < size[prev.tree]
    \/ size[hd.tree] = size[prev.tree] /\ hd.tree # prev.tree

Unchanged(hd) == hd.tree = prev.tree

(* The time on the log's last line, or the zero time.                      *)
lastGrowth == IF copy.log = <<>> THEN 0 ELSE copy.log[Len(copy.log)].at

Recently == lastGrowth # 0 /\ at < lastGrowth + every
LongAgo == lastGrowth # 0 /\ at > lastGrowth + stale

LookOutOfTime(hd) == OutOfTime(hd) /\ Fail("out of time")

InTime(hd) == ~OutOfTime(hd)

LookFirst(hd) == InTime(hd) /\ prev = None /\ Goto("write")

(* Mutant: a checkpoint cut short is taken for none.                       *)
LookTornAsFirst(hd) == InTime(hd) /\ prev = Torn /\ Goto("write")

LookUnreadable(hd) == InTime(hd) /\ prev = Torn /\ Fail("unreadable")

LookBack(hd) ==
    /\ InTime(hd) /\ prev \in Heads /\ GoesBack(hd)
    /\ Fail("went back")

Comparable(hd) == InTime(hd) /\ prev \in Heads /\ ~GoesBack(hd)

LookRewritten(hd) == Comparable(hd) /\ Rewritten(hd) /\ Fail("rewritten")

(* Mutant: an unchanged head is never kept again.                          *)
LookUnchangedNeverKept(hd) ==
    /\ Comparable(hd) /\ Unchanged(hd) /\ hd.signedAt # Untimed
    /\ Pass("unchanged", hd) /\ UNCHANGED <<kept, copy>>

LookUnchangedTimed(hd) ==
    /\ Comparable(hd) /\ Unchanged(hd) /\ hd.signedAt # Untimed
    /\ \/ Recently /\ Pass("unchanged", hd) /\ UNCHANGED <<kept, copy>>
       \/ ~Recently /\ Goto("write")

LookUnchangedUntimed(hd) ==
    /\ Comparable(hd) /\ Unchanged(hd) /\ hd.signedAt = Untimed
    /\ \/ LongAgo /\ Fail("stale")
       \/ ~LongAgo /\ Pass("unchanged", hd) /\ UNCHANGED <<kept, copy>>

(* Nothing is to be proved of a log that grew from nothing.                *)
LookGrew(hd) ==
    /\ Comparable(hd) /\ ~Rewritten(hd) /\ ~Unchanged(hd)
    /\ \/ size[prev.tree] > 0 /\ Goto("prove")
       \/ size[prev.tree] = 0 /\ Goto("write")

Look(hd) ==
    /\ pc = "look"
    /\ cur' = hd
    /\ \/ LookOutOfTime(hd) \/ LookFirst(hd) \/ LookUnreadable(hd)
       \/ LookBack(hd) \/ LookRewritten(hd) \/ LookUnchangedTimed(hd)
       \/ LookUnchangedUntimed(hd) \/ LookGrew(hd)

(* Mutant: the proof is fetched and not checked.                           *)
ProveAnything ==
    /\ pc = "prove"
    /\ Goto("write")
    /\ UNCHANGED cur

(* A consistency proof only checks when the head contains the kept one.    *)
Prove ==
    /\ pc = "prove"
    /\ <<cur.tree, prev.tree>> \in extends
    /\ Goto("write")
    /\ UNCHANGED cur

(* No answer, or a proof that does not check.                              *)
ProveFails ==
    /\ pc = "prove"
    /\ Fail("unproven")
    /\ UNCHANGED cur

Save(files) ==
    /\ copy' = files
    /\ kept' = IF Checkout THEN kept ELSE files

WithCheckpoint ==
    [copy EXCEPT !.checkpoint = cur,
                 !.since = IF prev \in Heads /\ Unchanged(cur) THEN @ ELSE at]

Write ==
    /\ pc = "write"
    /\ Save(WithCheckpoint)
    /\ pc' = "append"
    /\ UNCHANGED <<now, at, cur, verdict, passed>>

(* The file is opened with O_TRUNC and then written: nothing done, cut     *)
(* short, or (in a run that breaks off after it) all done.                 *)
WriteBreaks ==
    /\ pc = "write"
    /\ \/ UNCHANGED <<kept, copy>>
       \/ Save([copy EXCEPT !.checkpoint = Torn])
       \/ Save(WithCheckpoint)
    /\ pc' = "idle"
    /\ verdict' = "failed"
    /\ UNCHANGED <<now, at, cur, passed>>

lineOf == [at |-> at, tree |-> cur.tree, signedAt |-> cur.signedAt]

AppendLine ==
    /\ pc = "append"
    /\ Save([copy EXCEPT !.log = Append(@, lineOf)])
    /\ UNCHANGED cur
    /\ \/ Checkout /\ pc' = "push" /\ UNCHANGED <<now, at, verdict, passed>>
       \/ ~Checkout /\ Pass("kept", cur)

(* The log cannot be opened or written, or the run breaks off before.      *)
AppendFails ==
    /\ pc = "append"
    /\ Fail("failed")
    /\ UNCHANGED cur

(* The workflow commits the files of a run that passed.                    *)
Push ==
    /\ pc = "push"
    /\ kept' = copy
    /\ Pass("kept", cur)
    /\ UNCHANGED <<cur, copy>>

(* The push is refused, or its answer is lost.                             *)
PushFails ==
    /\ pc = "push"
    /\ kept' \in {kept, copy}
    /\ pc' = "idle"
    /\ verdict' = "failed"
    /\ UNCHANGED <<now, at, cur, copy, passed>>

Next ==
    \/ Tick \/ Start \/ LookFails
    \/ \E hd \in Heads : Look(hd)
    \/ Prove \/ ProveFails \/ Write \/ WriteBreaks
    \/ AppendLine \/ AppendFails \/ Push \/ PushFails

Spec == Init /\ [][Next]_vars

-----------------------------------------------------------------------------
TypeOK ==
    /\ now \in 1..MaxTime
    /\ kept \in Files
    /\ copy \in Files
    /\ pc \in Place
    /\ at \in 1..now
    /\ cur \in Heads \cup {None}
    /\ verdict \in Verdict
    /\ passed \subseteq Tree

Passed == verdict \in {"unchanged", "kept"}

(* Of any two heads that ever passed one contains the other: a log that    *)
(* forked or was rewritten is told in every run that meets it, and nothing *)
(* that goes wrong while a head is kept makes the witness forget the fork  *)
(* (notary/LOG-WITNESS.md, "it catches a frozen or forked log").           *)
NoForkPasses ==
    \A t, u \in passed : <<t, u>> \in extends \/ <<u, t>> \in extends

(* When a run passes on a timed head the last line kept is from less than  *)
(* -every ago or is the run's own, so a reader of the files sees that the  *)
(* witness was looking (main.go:21-23, "the branch's last commit says when *)
(* the witness last looked").                                              *)
AliveLine ==
    Passed /\ cur.signedAt # Untimed =>
        /\ kept.log # <<>>
        /\ LET last == kept.log[Len(kept.log)] IN
              last.at = at \/ at < last.at + every

(* The alarm about an untimed head that does not grow is raised exactly    *)
(* when the log's tree has been the one kept for longer than -stale: never *)
(* early and never missed, whatever broke off before (main.go:126-134).    *)
StaleIsTold ==
    /\ verdict = "stale" => at > kept.since + stale
    /\ verdict = "unchanged" /\ cur.signedAt = Untimed =>
          at <= kept.since + stale

(* The witness's lines are the append-only list of heads WitnessLog        *)
(* describes.                                                              *)
Promise == INSTANCE WitnessLog WITH lines <- kept.log
ImplementsWitnessLog == Promise!Spec

-----------------------------------------------------------------------------
(* The inductive invariant.                                                *)

Extends(t, u) == <<t, u>> \in extends

(* Each line follows those before it.                                      *)
LinesAgree(f) ==
    \A i, j \in 1..Len(f.log) : i <= j =>
        /\ Extends(f.log[j].tree, f.log[i].tree)
        /\ f.log[j].signedAt >= f.log[i].signedAt
        /\ f.log[j].at >= f.log[i].at

(* The checkpoint is at or past the last line.                             *)
CheckpointLeads(f) ==
    /\ f.checkpoint = None => f.log = <<>>
    /\ f.checkpoint \in Heads =>
          \A i \in 1..Len(f.log) :
             /\ Extends(f.checkpoint.tree, f.log[i].tree)
             /\ f.checkpoint.signedAt >= f.log[i].signedAt

(* No head that passed is past the checkpoint, nor kept and forgotten.     *)
CheckpointRemembers(f) ==
    /\ f.checkpoint = None => passed = {}
    /\ f.checkpoint \in Heads =>
          \A t \in passed : Extends(f.checkpoint.tree, t)

(* With a checkout both files change together: an untimed checkpoint is    *)
(* the last line, and that line is from when its tree was first kept.      *)
InStep(f) ==
    /\ f.checkpoint # Torn
    /\ f.checkpoint \in Heads => f.log # <<>>
    /\ f.checkpoint \in Heads /\ f.checkpoint.signedAt = Untimed =>
          f.log[Len(f.log)].at = f.since

(* What the run holds at each place.                                       *)
Places ==
    /\ ~Checkout => copy = kept
    /\ pc # "idle" => verdict = "none"
    /\ pc \in {"look", "prove", "write"} => copy = kept
    /\ pc \in {"prove", "write", "append", "push"} => cur \in Heads
    /\ pc = "prove" => /\ prev \in Heads
                       /\ ~Unchanged(cur) /\ cur.signedAt >= prev.signedAt
    /\ pc = "write" =>
          /\ prev # Torn
          /\ prev \in Heads =>
                /\ Extends(cur.tree, prev.tree)
                /\ cur.signedAt >= prev.signedAt
                /\ Unchanged(cur) => cur.signedAt # Untimed
    /\ pc \in {"append", "push"} =>
          /\ prev = cur
          /\ cur.signedAt = Untimed => copy.since = at
    /\ pc = "push" => copy.log # <<>> /\ copy.log[Len(copy.log)] = lineOf
    /\ pc = "append" /\ Checkout => copy.log = kept.log
    /\ pc = "push" /\ Checkout => copy.log = Append(kept.log, lineOf)

Sound(f) ==
    /\ LinesAgree(f) /\ CheckpointLeads(f) /\ CheckpointRemembers(f)
    /\ \A i \in 1..Len(f.log) : f.log[i].at <= at

IInv ==
    /\ TypeOK /\ Places
    /\ Sound(kept) /\ Sound(copy)
    /\ Checkout => InStep(kept)
    /\ NoForkPasses /\ AliveLine /\ (Checkout => StaleIsTold)
==============================================================================
