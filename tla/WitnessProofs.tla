----------------------------- MODULE WitnessProofs -----------------------------
(***************************************************************************)
(* Proofs about Witness for any trees, any relation of beginnings between  *)
(* them, and any limits: the inductive invariant, what it gives, and that  *)
(* the witness's lines are the list of heads WitnessLog describes.         *)
(***************************************************************************)
EXTENDS Witness, SequenceTheorems, TLAPS

(* What the empty files are.                                               *)
LEMMA InitInv == Init => IInv
<1>. SUFFICES ASSUME Init PROVE IInv
  OBVIOUS
<1>. USE NumberAssumption, FileAssumption
<1>1. kept.log = <<>> /\ Len(kept.log) = 0 /\ <<>> \in Seq(Line)
  BY EmptySeq DEF Init
<1>2. TypeOK
  <2>1. kept \in Files
    BY <1>1 DEF Init, Files
  <2>. QED
    BY <2>1 DEF Init, TypeOK, Place, Verdict
<1>3. Places
  BY DEF Init, Places
<1>4. Sound(kept) /\ Sound(copy)
  BY <1>1 DEF Init, Sound, LinesAgree, CheckpointLeads, CheckpointRemembers
<1>5. InStep(kept)
  BY <1>1 DEF Init, InStep
<1>6. NoForkPasses /\ AliveLine /\ StaleIsTold
  BY DEF Init, NoForkPasses, AliveLine, StaleIsTold, Passed
<1>. QED
  BY <1>2, <1>3, <1>4, <1>5, <1>6 DEF IInv

(* A step that touches no file and lets nothing pass leaves the files as   *)
(* sound as they were.                                                     *)
LEMMA StillSound ==
    ASSUME IInv, UNCHANGED <<kept, passed>>, copy' \in {kept, copy},
           at' \in Nat, at' >= at
    PROVE  /\ Sound(kept)' /\ Sound(copy)'
           /\ (Checkout => InStep(kept))'
           /\ NoForkPasses'
<1>1. /\ kept \in Files /\ copy \in Files /\ at \in Nat
  BY NumberAssumption DEF IInv, TypeOK
<1>2. ASSUME NEW f \in Files, Sound(f), NEW g, g = f
      PROVE  /\ LinesAgree(g) /\ CheckpointLeads(g) /\ CheckpointRemembers(g)
             /\ \A i \in 1..Len(g.log) : g.log[i].at <= at'
  <2>1. \A i \in 1..Len(f.log) : f.log[i] \in Line
    BY ElementOfSeq DEF Files
  <2>2. \A i \in 1..Len(f.log) : f.log[i].at \in Nat
    BY <2>1, NumberAssumption DEF Line
  <2>. QED
    BY <1>1, <1>2, <2>2 DEF Sound
<1>3. Sound(kept)'
  BY <1>1, <1>2 DEF IInv, Sound, CheckpointRemembers
<1>4. Sound(copy)'
  BY <1>1, <1>2 DEF IInv, Sound, CheckpointRemembers
<1>5. (Checkout => InStep(kept))' /\ NoForkPasses'
  BY DEF IInv, InStep, NoForkPasses
<1>. QED
  BY <1>3, <1>4, <1>5

(* The clock moves on.                                                     *)
LEMMA TickInv ==
    ASSUME IInv, Tick
    PROVE  IInv'
<1>. USE NumberAssumption
<1>1. at \in Nat /\ at' = at
  BY DEF IInv, TypeOK, Tick
<1>2. Sound(kept)' /\ Sound(copy)' /\ (Checkout => InStep(kept))' /\ NoForkPasses'
  BY <1>1, StillSound DEF Tick
<1>3. TypeOK'
  BY DEF IInv, TypeOK, Tick
<1>4. Places'
  BY DEF IInv, Places, Tick, prev, Unchanged, lineOf
<1>5. AliveLine' /\ (Checkout => StaleIsTold)'
  BY DEF IInv, AliveLine, StaleIsTold, Passed, Tick
<1>. QED
  BY <1>2, <1>3, <1>4, <1>5 DEF IInv

(* A run begins.                                                           *)
LEMMA StartInv ==
    ASSUME IInv, Start
    PROVE  IInv'
<1>. USE NumberAssumption
<1>1. at \in Nat /\ at' \in Nat /\ at' >= at
  BY DEF IInv, TypeOK, Start
<1>2. Sound(kept)' /\ Sound(copy)' /\ (Checkout => InStep(kept))' /\ NoForkPasses'
  BY <1>1, StillSound DEF Start
<1>3. TypeOK'
  <2>1. kept' \in Files /\ copy' \in Files /\ now' \in 1..MaxTime
        /\ passed' \subseteq Tree
    BY DEF IInv, TypeOK, Start
  <2>2. at' \in 1..now'
    BY DEF IInv, TypeOK, Start
  <2>3. pc' \in Place /\ cur' \in Heads \cup {None} /\ verdict' \in Verdict
    BY DEF Start, Place, Verdict
  <2>. QED
    BY <2>1, <2>2, <2>3 DEF TypeOK
<1>4. Places'
  BY DEF IInv, Places, Start
<1>5. AliveLine' /\ (Checkout => StaleIsTold)'
  BY DEF AliveLine, StaleIsTold, Passed, Start
<1>. QED
  BY <1>2, <1>3, <1>4, <1>5 DEF IInv

(* A run ends with an error and without touching the files; if the error   *)
(* is that the log is stale, it is.                                        *)
LEMMA FailInv ==
    ASSUME IInv, NEW v \in Verdict \ {"none", "unchanged", "kept"}, Fail(v),
           cur' \in Heads \cup {None},
           v = "stale" /\ Checkout => at > kept.since + stale
    PROVE  IInv'
<1>. USE NumberAssumption
<1>1. at \in Nat /\ at' = at
  BY DEF IInv, TypeOK, Fail
<1>2. Sound(kept)' /\ Sound(copy)' /\ (Checkout => InStep(kept))' /\ NoForkPasses'
  BY <1>1, StillSound DEF Fail
<1>3. TypeOK'
  BY DEF IInv, TypeOK, Fail, Place
<1>4. Places'
  BY DEF IInv, Places, Fail
<1>5. AliveLine' /\ (Checkout => StaleIsTold)'
  BY DEF AliveLine, StaleIsTold, Passed, Fail
<1>. QED
  BY <1>2, <1>3, <1>4, <1>5 DEF IInv

(* The run goes on to prove that the log grew, or to keep the head.        *)
LEMMA GotoInv ==
    ASSUME IInv, NEW p \in {"prove", "write"}, Goto(p),
           verdict = "none", copy = kept, cur' \in Heads,
           prev # Torn,
           p = "prove" => /\ prev \in Heads
                          /\ cur'.tree # prev.tree
                          /\ cur'.signedAt >= prev.signedAt,
           p = "write" /\ prev \in Heads =>
              /\ Extends(cur'.tree, prev.tree)
              /\ cur'.signedAt >= prev.signedAt
              /\ cur'.tree = prev.tree => cur'.signedAt # Untimed
    PROVE  IInv'
<1>. USE NumberAssumption
<1>1. at \in Nat /\ at' = at
  BY DEF IInv, TypeOK, Goto
<1>2. Sound(kept)' /\ Sound(copy)' /\ (Checkout => InStep(kept))' /\ NoForkPasses'
  BY <1>1, StillSound DEF Goto
<1>3. TypeOK'
  BY DEF IInv, TypeOK, Goto, Place
<1>4. Places'
  BY DEF IInv, Places, Goto, prev, Unchanged, Extends
<1>5. AliveLine' /\ (Checkout => StaleIsTold)'
  BY DEF AliveLine, StaleIsTold, Passed, Goto
<1>. QED
  BY <1>2, <1>3, <1>4, <1>5 DEF IInv

(* The run passes on a head whose tree is the one kept, shortly after the  *)
(* last line was written or, for an untimed head, not long after.          *)
LEMMA UnchangedInv ==
    ASSUME IInv, Pass("unchanged", cur'), UNCHANGED <<kept, copy>>,
           copy = kept, cur' \in Heads, prev \in Heads,
           cur'.tree = prev.tree, cur'.signedAt >= prev.signedAt,
           cur'.signedAt # Untimed => Recently,
           cur'.signedAt = Untimed => ~LongAgo
    PROVE  IInv'
<1>. USE NumberAssumption, TreeAssumption
<1>1. at \in Nat /\ at' = at /\ kept \in Files
  BY DEF IInv, TypeOK, Pass
<1>2. cur'.tree \in Tree /\ prev.tree \in Tree
  BY DEF Heads
<1>3. passed' = passed \cup {prev.tree} /\ prev = kept.checkpoint
  BY DEF Pass, prev
<1>4. \A t \in passed : Extends(prev.tree, t)
  BY <1>3 DEF IInv, Sound, CheckpointRemembers
<1>5. \A t \in passed' : Extends(prev.tree, t)
  BY <1>2, <1>3, <1>4 DEF Extends
<1>6. kept.checkpoint # None /\ kept.checkpoint # Torn
  BY <1>3, FileAssumption
<1>7. Sound(kept)' /\ Sound(copy)'
  BY <1>1, <1>3, <1>5, <1>6
  DEF IInv, Sound, CheckpointRemembers
<1>8. (Checkout => InStep(kept))'
  BY DEF IInv, InStep
<1>9. NoForkPasses'
  BY <1>3, <1>4, <1>5 DEF IInv, NoForkPasses, Extends
<1>10. TypeOK'
  BY <1>1, <1>2, <1>3 DEF IInv, TypeOK, Pass, Place, Verdict
<1>11. Places'
  BY DEF IInv, Places, Pass
<1>12. AliveLine'
  BY <1>1, <1>3 DEF AliveLine, Passed, Recently, lastGrowth, Pass
<1>13. ASSUME Checkout, cur'.signedAt = Untimed
       PROVE  at <= kept.since + stale
  <2>1. prev.signedAt = Untimed
    BY <1>13 DEF Heads, Untimed
  <2>2. kept.log # <<>> /\ kept.log[Len(kept.log)].at = kept.since
    BY <1>3, <1>13, <2>1 DEF IInv, InStep
  <2>3. kept.since \in Nat /\ Len(kept.log) \in 1..Len(kept.log)
    BY <1>1, <2>2, EmptySeq, LenProperties DEF Files
  <2>4. kept.log[Len(kept.log)] \in Line
    BY <1>1, <2>3, ElementOfSeq DEF Files
  <2>. QED
    BY <1>1, <1>13, <2>2, <2>3, <2>4 DEF LongAgo, lastGrowth, Line
<1>14. (Checkout => StaleIsTold)'
  BY <1>1, <1>13 DEF StaleIsTold, Pass
<1>. QED
  BY <1>7, <1>8, <1>9, <1>10, <1>11, <1>12, <1>14 DEF IInv

(* The head is fetched and compared.                                       *)
LEMMA LookInv ==
    ASSUME IInv, NEW hd \in Heads, Look(hd)
    PROVE  IInv'
<1>. USE NumberAssumption
<1>1. /\ pc = "look" /\ cur' = hd /\ copy = kept /\ verdict = "none"
      /\ at \in Nat /\ kept \in Files
  BY DEF Look, IInv, Places, TypeOK
<1>2. prev = kept.checkpoint /\ prev \in Heads \cup {None, Torn}
  BY <1>1 DEF prev, Files
<1>3. hd.tree \in Tree /\ hd.signedAt \in Nat
  BY DEF Heads
<1>4. ASSUME NEW v \in {"out of time", "unreadable", "went back", "rewritten"},
             Fail(v)
      PROVE  IInv'
  BY <1>1, <1>4, FailInv DEF Verdict
<1>5. CASE LookOutOfTime(hd)
  BY <1>4, <1>5 DEF LookOutOfTime
<1>6. CASE LookFirst(hd)
  BY <1>1, <1>6, GotoInv, FileAssumption DEF LookFirst
<1>7. CASE LookUnreadable(hd)
  BY <1>4, <1>7 DEF LookUnreadable
<1>8. CASE LookBack(hd)
  BY <1>4, <1>8 DEF LookBack
<1>9. CASE LookRewritten(hd)
  BY <1>4, <1>9 DEF LookRewritten
<1>10. ASSUME Comparable(hd)
       PROVE  /\ prev \in Heads /\ prev # Torn /\ prev # None
              /\ prev.tree \in Tree /\ hd.signedAt >= prev.signedAt
  <2>1. prev \in Heads /\ ~GoesBack(hd)
    BY <1>10 DEF Comparable
  <2>2. prev.tree \in Tree /\ prev.signedAt \in Nat
    BY <2>1 DEF Heads
  <2>. QED
    BY <1>3, <2>1, <2>2, FileAssumption DEF GoesBack, Untimed
<1>11. CASE LookUnchangedTimed(hd)
  <2>1. /\ Comparable(hd) /\ hd.tree = prev.tree /\ hd.signedAt # Untimed
    BY <1>11 DEF LookUnchangedTimed, Unchanged
  <2>2. CASE Recently /\ Pass("unchanged", hd) /\ UNCHANGED <<kept, copy>>
    BY <1>1, <1>10, <2>1, <2>2, UnchangedInv
  <2>3. CASE Goto("write")
    BY <1>1, <1>10, <2>1, <2>3, GotoInv, TreeAssumption DEF Extends
  <2>. QED
    BY <1>11, <2>2, <2>3 DEF LookUnchangedTimed
<1>12. CASE LookUnchangedUntimed(hd)
  <2>1. /\ Comparable(hd) /\ hd.tree = prev.tree /\ hd.signedAt = Untimed
    BY <1>12 DEF LookUnchangedUntimed, Unchanged
  <2>2. CASE ~LongAgo /\ Pass("unchanged", hd) /\ UNCHANGED <<kept, copy>>
    BY <1>1, <1>10, <2>1, <2>2, UnchangedInv
  <2>3. CASE LongAgo /\ Fail("stale")
    <3>1. ASSUME Checkout
          PROVE  at > kept.since + stale
      <4>1. prev.signedAt = Untimed
        <5>1. prev.signedAt \in Nat
          BY <1>10, <2>1 DEF Heads
        <5>. QED
          BY <1>10, <2>1, <5>1 DEF Untimed
      <4>2. kept.log[Len(kept.log)].at = kept.since
        BY <1>2, <1>10, <2>1, <3>1, <4>1 DEF IInv, InStep
      <4>. QED
        BY <1>1, <2>3, <4>2 DEF LongAgo, lastGrowth
    <3>. QED
      BY <1>1, <2>3, <3>1, FailInv DEF Verdict
  <2>. QED
    BY <1>12, <2>2, <2>3 DEF LookUnchangedUntimed
<1>13. CASE LookGrew(hd)
  <2>1. Comparable(hd) /\ hd.tree # prev.tree
    BY <1>13 DEF LookGrew, Unchanged
  <2>2. CASE Goto("prove")
    BY <1>1, <1>10, <2>1, <2>2, GotoInv
  <2>3. CASE size[prev.tree] = 0 /\ Goto("write")
    <3>1. Extends(hd.tree, prev.tree)
      BY <1>3, <1>10, <2>1, <2>3, TreeAssumption DEF Extends
    <3>. QED
      BY <1>1, <1>10, <2>1, <2>3, <3>1, GotoInv
  <2>. QED
    BY <1>13, <2>2, <2>3 DEF LookGrew
<1>. QED
  BY <1>5, <1>6, <1>7, <1>8, <1>9, <1>11, <1>12, <1>13 DEF Look

(* The consistency proof checks.                                           *)
LEMMA ProveInv ==
    ASSUME IInv, Prove
    PROVE  IInv'
<1>1. /\ copy = kept /\ verdict = "none" /\ cur \in Heads /\ cur' = cur
      /\ prev \in Heads /\ cur.tree # prev.tree
      /\ cur.signedAt >= prev.signedAt
  BY DEF Prove, IInv, Places, Unchanged
<1>2. Extends(cur.tree, prev.tree) /\ Goto("write")
  BY DEF Prove, Extends
<1>. QED
  BY <1>1, <1>2, GotoInv, FileAssumption

(* The fetch, the proof or the append fails.                               *)
LEMMA FailuresInv ==
    ASSUME IInv, LookFails \/ ProveFails \/ AppendFails
    PROVE  IInv'
<1>1. cur' \in Heads \cup {None}
  BY DEF IInv, TypeOK, LookFails, ProveFails, AppendFails
<1>. QED
  BY <1>1, FailInv DEF Verdict, LookFails, ProveFails, AppendFails

(* The files with the new checkpoint.                                      *)
LEMMA CheckpointFiles ==
    ASSUME IInv, pc = "write"
    PROVE  /\ WithCheckpoint \in Files
           /\ WithCheckpoint.checkpoint = cur
           /\ WithCheckpoint.log = copy.log
           /\ cur.signedAt = Untimed => WithCheckpoint.since = at
           /\ Sound(WithCheckpoint)
<1>. USE NumberAssumption
<1>1. /\ copy = kept /\ cur \in Heads /\ prev # Torn /\ copy \in Files
      /\ prev \in Heads =>
            /\ Extends(cur.tree, prev.tree)
            /\ cur.signedAt >= prev.signedAt
            /\ Unchanged(cur) => cur.signedAt # Untimed
      /\ at \in 0..MaxTime
  BY DEF IInv, TypeOK, Places
<1>2. /\ WithCheckpoint \in Files
      /\ WithCheckpoint.checkpoint = cur
      /\ WithCheckpoint.log = copy.log
  BY <1>1 DEF WithCheckpoint, Files
<1>3. cur.signedAt = Untimed => WithCheckpoint.since = at
  BY <1>1 DEF WithCheckpoint, Files
<1>4. LinesAgree(WithCheckpoint)
  BY <1>2 DEF IInv, Sound, LinesAgree
<1>5. cur # None
  BY <1>1, FileAssumption
<1>6. prev \in Heads \cup {None}
  BY <1>1 DEF Files, prev
<1>7. CheckpointLeads(WithCheckpoint)
  <2>1. SUFFICES ASSUME NEW i \in 1..Len(copy.log)
                 PROVE  /\ Extends(cur.tree, copy.log[i].tree)
                        /\ cur.signedAt >= copy.log[i].signedAt
    BY <1>2, <1>5 DEF CheckpointLeads
  <2>2. copy.log # <<>>
    BY <1>1, EmptySeq DEF Files
  <2>3. prev \in Heads
    BY <1>6, <2>2 DEF IInv, Sound, CheckpointLeads, prev
  <2>4. /\ Extends(prev.tree, copy.log[i].tree)
        /\ prev.signedAt >= copy.log[i].signedAt
    BY <2>3 DEF IInv, Sound, CheckpointLeads, prev
  <2>5. copy.log[i] \in Line
    BY <1>1, ElementOfSeq DEF Files
  <2>6. /\ cur.tree \in Tree /\ prev.tree \in Tree /\ copy.log[i].tree \in Tree
        /\ cur.signedAt \in Nat /\ prev.signedAt \in Nat
        /\ copy.log[i].signedAt \in Nat
    BY <1>1, <2>3, <2>5 DEF Heads, Line
  <2>. QED
    BY <1>1, <2>3, <2>4, <2>6, TreeAssumption DEF Extends
<1>8. CheckpointRemembers(WithCheckpoint)
  <2>1. SUFFICES ASSUME NEW t \in passed
                 PROVE  Extends(cur.tree, t)
    BY <1>2, <1>5 DEF CheckpointRemembers
  <2>2. prev \in Heads
    BY <1>6 DEF IInv, Sound, CheckpointRemembers, prev
  <2>3. Extends(prev.tree, t)
    BY <2>2 DEF IInv, Sound, CheckpointRemembers, prev
  <2>4. cur.tree \in Tree /\ prev.tree \in Tree /\ t \in Tree
    BY <1>1, <2>2 DEF IInv, TypeOK, Heads
  <2>. QED
    BY <1>1, <2>2, <2>3, <2>4, TreeAssumption DEF Extends
<1>9. \A i \in 1..Len(WithCheckpoint.log) : WithCheckpoint.log[i].at <= at
  BY <1>2 DEF IInv, Sound
<1>. QED
  BY <1>2, <1>3, <1>4, <1>7, <1>8, <1>9 DEF Sound

(* The checkpoint is written.                                              *)
LEMMA WriteInv ==
    ASSUME IInv, Write
    PROVE  IInv'
<1>. USE NumberAssumption
<1>1. /\ pc = "write" /\ Save(WithCheckpoint) /\ verdict' = "none"
      /\ kept \in Files /\ cur' = cur /\ cur \in Heads /\ at' = at
      /\ copy = kept
  BY DEF Write, IInv, TypeOK, Places
<1>2. /\ copy' = WithCheckpoint
      /\ kept' = IF Checkout THEN kept ELSE WithCheckpoint
  BY <1>1 DEF Save
<1>3. TypeOK'
  BY <1>1, <1>2, CheckpointFiles DEF IInv, TypeOK, Write, Place
<1>4. Places'
  <2>1. pc' = "append"
    BY DEF Write
  <2>2. copy'.log = copy.log /\ copy'.checkpoint = cur
        /\ (cur.signedAt = Untimed => copy'.since = at)
    BY <1>1, <1>2, CheckpointFiles
  <2>. QED
    BY <1>1, <1>2, <2>1, <2>2, CheckpointFiles DEF Places, prev
<1>5. Sound(copy)'
  BY <1>1, <1>2, CheckpointFiles DEF Sound, CheckpointRemembers, Write
<1>6. Sound(kept)'
  BY <1>1, <1>2, CheckpointFiles DEF IInv, Sound, CheckpointRemembers, Write
<1>7. (Checkout => InStep(kept))'
  BY <1>2 DEF IInv, InStep
<1>8. NoForkPasses'
  BY DEF IInv, NoForkPasses, Write
<1>9. AliveLine' /\ (Checkout => StaleIsTold)'
  BY <1>1 DEF AliveLine, StaleIsTold, Passed
<1>. QED
  BY <1>3, <1>4, <1>5, <1>6, <1>7, <1>8, <1>9 DEF IInv

(* Writing it breaks off.                                                  *)
LEMMA WriteBreaksInv ==
    ASSUME IInv, WriteBreaks
    PROVE  IInv'
<1>. USE NumberAssumption
<1>1. /\ pc = "write" /\ pc' = "idle" /\ verdict' = "failed" /\ copy \in Files
      /\ UNCHANGED <<now, at, cur, passed>> /\ copy = kept
  BY DEF WriteBreaks, IInv, TypeOK, Places
<1>2. PICK f \in {copy, WithCheckpoint, [copy EXCEPT !.checkpoint = Torn]} :
         copy' = f /\ kept' = IF Checkout THEN kept ELSE f
  BY <1>1 DEF WriteBreaks, Save
<1>3. f \in Files /\ LinesAgree(f) /\ CheckpointLeads(f)
      /\ CheckpointRemembers(f) /\ \A i \in 1..Len(f.log) : f.log[i].at <= at
  <2>1. CASE f = copy
    BY <1>1, <2>1 DEF IInv, Sound
  <2>2. CASE f = WithCheckpoint
    BY <1>1, <2>2, CheckpointFiles DEF Sound
  <2>3. CASE f = [copy EXCEPT !.checkpoint = Torn]
    <3>1. f \in Files /\ f.checkpoint = Torn /\ f.log = copy.log
      BY <1>1, <2>3 DEF Files
    <3>. QED
      BY <3>1, FileAssumption
      DEF IInv, Sound, LinesAgree, CheckpointLeads, CheckpointRemembers
  <2>. QED
    BY <2>1, <2>2, <2>3
<1>4. TypeOK'
  BY <1>1, <1>2, <1>3 DEF IInv, TypeOK, Place, Verdict
<1>5. Places'
  BY <1>1, <1>2 DEF Places
<1>6. Sound(copy)'
  BY <1>1, <1>2, <1>3 DEF Sound, CheckpointRemembers
<1>7. Sound(kept)'
  BY <1>1, <1>2, <1>3 DEF IInv, Sound, CheckpointRemembers
<1>8. (Checkout => InStep(kept))'
  BY <1>2 DEF IInv, InStep
<1>9. NoForkPasses' /\ AliveLine' /\ (Checkout => StaleIsTold)'
  BY <1>1 DEF IInv, NoForkPasses, AliveLine, StaleIsTold, Passed
<1>. QED
  BY <1>4, <1>5, <1>6, <1>7, <1>8, <1>9 DEF IInv

(* The files with the new line: it follows all others.                     *)
LEMMA LineFiles ==
    ASSUME IInv, pc = "append",
           NEW g, g = [copy EXCEPT !.log = Append(@, lineOf)]
    PROVE  /\ g \in Files
           /\ g.checkpoint = cur
           /\ g.since = copy.since
           /\ g.log = Append(copy.log, lineOf)
           /\ g.log # <<>> /\ g.log[Len(g.log)] = lineOf
           /\ Sound(g)
           /\ InStep(g)
<1>. USE NumberAssumption
<1>1. /\ copy \in Files /\ cur \in Heads /\ prev = cur /\ at \in 1..MaxTime
      /\ cur.signedAt = Untimed => copy.since = at
  BY DEF IInv, TypeOK, Places
<1>2. lineOf \in Line /\ lineOf.at = at /\ lineOf.tree = cur.tree
      /\ lineOf.signedAt = cur.signedAt
  BY <1>1 DEF lineOf, Line, Heads
<1>3. /\ Append(copy.log, lineOf) \in Seq(Line)
      /\ Len(Append(copy.log, lineOf)) = Len(copy.log) + 1
      /\ Len(copy.log) \in Nat
      /\ Append(copy.log, lineOf)[Len(copy.log) + 1] = lineOf
      /\ \A i \in 1..Len(copy.log) : Append(copy.log, lineOf)[i] = copy.log[i]
  BY <1>1, <1>2, AppendProperties DEF Files
<1>4. /\ g \in Files /\ g.checkpoint = cur /\ g.since = copy.since
      /\ g.log = Append(copy.log, lineOf)
  BY <1>1, <1>3 DEF Files, prev
<1>5. g.log # <<>> /\ g.log[Len(g.log)] = lineOf
  BY <1>3, <1>4, EmptySeq
<1>6. \A i \in 1..Len(g.log) :
         \/ i \in 1..Len(copy.log) /\ g.log[i] = copy.log[i]
         \/ i = Len(g.log) /\ g.log[i] = lineOf
  <2>1. TAKE i \in 1..Len(g.log)
  <2>2. CASE i = Len(copy.log) + 1
    BY <1>3, <1>4, <2>2
  <2>3. CASE i # Len(copy.log) + 1
    <3>1. i \in 1..Len(copy.log)
      BY <1>3, <1>4, <2>3
    <3>. QED
      BY <1>3, <1>4, <3>1
  <2>. QED
    BY <2>2, <2>3
<1>7. \A i \in 1..Len(copy.log) :
         /\ copy.log[i] \in Line
         /\ Extends(cur.tree, copy.log[i].tree)
         /\ cur.signedAt >= copy.log[i].signedAt
         /\ copy.log[i].at <= at
  <2>1. \A i \in 1..Len(copy.log) : copy.log[i] \in Line
    BY <1>1, ElementOfSeq DEF Files
  <2>. QED
    BY <1>1, <2>1 DEF IInv, Sound, CheckpointLeads, prev
<1>8. Extends(cur.tree, cur.tree) /\ cur.signedAt \in Nat
  BY <1>1, TreeAssumption DEF Extends, Heads
<1>9. LinesAgree(g)
  <2>1. SUFFICES ASSUME NEW i \in 1..Len(g.log), NEW j \in 1..Len(g.log), i <= j
                 PROVE  /\ Extends(g.log[j].tree, g.log[i].tree)
                        /\ g.log[j].signedAt >= g.log[i].signedAt
                        /\ g.log[j].at >= g.log[i].at
    BY DEF LinesAgree
  <2>2. CASE j \in 1..Len(copy.log)
    <3>1. i \in 1..Len(copy.log)
      BY <1>3, <2>1, <2>2
    <3>. QED
      BY <1>3, <1>4, <2>1, <2>2, <3>1 DEF IInv, Sound, LinesAgree
  <2>3. CASE j = Len(g.log) /\ g.log[j] = lineOf
    <3>1. CASE i \in 1..Len(copy.log) /\ g.log[i] = copy.log[i]
      BY <1>1, <1>2, <1>7, <2>3, <3>1 DEF Line
    <3>2. CASE g.log[i] = lineOf
      BY <1>1, <1>2, <1>8, <2>3, <3>2
    <3>. QED
      BY <1>6, <3>1, <3>2
  <2>. QED
    BY <1>6, <2>2, <2>3
<1>10. cur # None /\ cur # Torn
  BY <1>1, FileAssumption
<1>11. CheckpointLeads(g)
  BY <1>2, <1>4, <1>6, <1>7, <1>8, <1>10 DEF CheckpointLeads
<1>12. CheckpointRemembers(g)
  BY <1>1, <1>4 DEF IInv, Sound, CheckpointRemembers, prev
<1>13. \A i \in 1..Len(g.log) : g.log[i].at <= at
  BY <1>1, <1>2, <1>6, <1>7
<1>14. InStep(g)
  BY <1>1, <1>2, <1>4, <1>5, <1>10 DEF InStep
<1>. QED
  BY <1>4, <1>5, <1>9, <1>11, <1>12, <1>13, <1>14 DEF Sound

(* When a run passes on the head in sound files, these stay sound and the  *)
(* heads that passed still agree.                                          *)
LEMMA PassedSound ==
    ASSUME IInv, cur \in Heads, passed' = passed \cup {cur.tree}, at' = at,
           NEW f \in Files, Sound(f), f.checkpoint = cur
    PROVE  /\ LinesAgree(f) /\ CheckpointLeads(f)
           /\ \A t \in passed' : Extends(cur.tree, t)
           /\ \A i \in 1..Len(f.log) : f.log[i].at <= at
           /\ passed' \subseteq Tree
           /\ NoForkPasses'
<1>1. cur.tree \in Tree
  BY DEF Heads
<1>2. \A t \in passed : Extends(cur.tree, t)
  BY DEF Sound, CheckpointRemembers
<1>3. \A t \in passed' : Extends(cur.tree, t)
  BY <1>1, <1>2, TreeAssumption DEF Extends
<1>4. NoForkPasses'
  BY <1>3 DEF IInv, NoForkPasses, Extends
<1>. QED
  BY <1>1, <1>3, <1>4 DEF Sound, IInv, TypeOK

(* The line is appended; without a branch the run has then passed.         *)
LEMMA AppendLineInv ==
    ASSUME IInv, AppendLine
    PROVE  IInv'
<1>. USE NumberAssumption
<1>. DEFINE g == [copy EXCEPT !.log = Append(@, lineOf)]
<1>1. /\ pc = "append" /\ copy' = g /\ kept' = IF Checkout THEN kept ELSE g
      /\ cur' = cur /\ at' = at /\ now' = now /\ at \in Nat
      /\ cur \in Heads /\ prev = cur /\ kept \in Files /\ verdict = "none"
      /\ cur.signedAt = Untimed => copy.since = at
  BY DEF AppendLine, Save, Pass, IInv, TypeOK, Places
<1>2. /\ g \in Files /\ g.checkpoint = cur /\ g.since = copy.since
      /\ g.log = Append(copy.log, lineOf)
      /\ g.log # <<>> /\ g.log[Len(g.log)] = lineOf
      /\ Sound(g) /\ InStep(g)
  BY <1>1, LineFiles
<1>. HIDE DEF g
<1>3. lineOf' = lineOf
  BY <1>1 DEF lineOf
<1>4. cur # None /\ cur # Torn
  BY <1>1, FileAssumption
<1>5. CASE Checkout /\ pc' = "push" /\ UNCHANGED <<now, at, verdict, passed>>
  <2>1. TypeOK'
    BY <1>1, <1>2, <1>5 DEF IInv, TypeOK, Place
  <2>2. Places'
    <3>1. copy.log = kept.log
      BY <1>1, <1>5 DEF IInv, Places
    <3>. QED
      BY <1>1, <1>2, <1>3, <1>5, <3>1 DEF Places, prev
  <2>3. Sound(copy)'
    BY <1>1, <1>2, <1>5 DEF Sound, CheckpointRemembers
  <2>4. Sound(kept)'
    BY <1>1, <1>5 DEF IInv, Sound, CheckpointRemembers
  <2>5. (Checkout => InStep(kept))' /\ NoForkPasses'
    BY <1>1, <1>5 DEF IInv, InStep, NoForkPasses
  <2>6. AliveLine' /\ (Checkout => StaleIsTold)'
    BY <1>1, <1>5 DEF AliveLine, StaleIsTold, Passed
  <2>. QED
    BY <2>1, <2>2, <2>3, <2>4, <2>5, <2>6 DEF IInv
<1>6. CASE ~Checkout /\ Pass("kept", cur)
  <2>1. passed' = passed \cup {cur.tree} /\ pc' = "idle" /\ verdict' = "kept"
    BY <1>6 DEF Pass
  <2>2. /\ LinesAgree(g) /\ CheckpointLeads(g)
        /\ \A t \in passed' : Extends(cur.tree, t)
        /\ \A i \in 1..Len(g.log) : g.log[i].at <= at
        /\ passed' \subseteq Tree
        /\ NoForkPasses'
    BY <1>1, <1>2, <2>1, PassedSound
  <2>3. TypeOK'
    BY <1>1, <1>2, <1>6, <2>1, <2>2 DEF IInv, TypeOK, Place, Verdict
  <2>4. Places'
    BY <1>1, <1>6, <2>1 DEF Places
  <2>5. Sound(copy)' /\ Sound(kept)'
    BY <1>1, <1>2, <1>4, <1>6, <2>2 DEF Sound, CheckpointRemembers
  <2>6. AliveLine'
    BY <1>1, <1>2, <1>6 DEF AliveLine, lineOf
  <2>. QED
    BY <1>6, <2>2, <2>3, <2>4, <2>5, <2>6 DEF IInv
<1>. QED
  BY <1>5, <1>6 DEF AppendLine

(* What a push puts on the branch.                                         *)
LEMMA PushedFiles ==
    ASSUME IInv, pc = "push"
    PROVE  /\ copy \in Files /\ copy.checkpoint = cur /\ cur \in Heads
           /\ Sound(copy) /\ InStep(copy)
           /\ copy.log # <<>> /\ copy.log[Len(copy.log)].at = at
<1>1. /\ copy \in Files /\ prev = cur /\ cur \in Heads /\ Sound(copy)
      /\ copy.log # <<>> /\ copy.log[Len(copy.log)] = lineOf
      /\ cur.signedAt = Untimed => copy.since = at
  BY DEF IInv, TypeOK, Places
<1>2. lineOf.at = at
  BY DEF lineOf
<1>. QED
  BY <1>1, <1>2, FileAssumption DEF InStep, prev

(* The files are pushed.                                                   *)
LEMMA PushInv ==
    ASSUME IInv, Push
    PROVE  IInv'
<1>. USE NumberAssumption
<1>1. /\ kept' = copy /\ copy' = copy /\ cur' = cur /\ at' = at /\ now' = now
      /\ passed' = passed \cup {cur.tree} /\ pc' = "idle" /\ verdict' = "kept"
      /\ pc = "push"
  BY DEF Push, Pass
<1>2. /\ copy \in Files /\ copy.checkpoint = cur /\ cur \in Heads
      /\ Sound(copy) /\ InStep(copy)
      /\ copy.log # <<>> /\ copy.log[Len(copy.log)].at = at
  BY <1>1, PushedFiles
<1>3. /\ LinesAgree(copy) /\ CheckpointLeads(copy)
      /\ \A t \in passed' : Extends(cur.tree, t)
      /\ \A i \in 1..Len(copy.log) : copy.log[i].at <= at
      /\ passed' \subseteq Tree
      /\ NoForkPasses'
  BY <1>1, <1>2, PassedSound
<1>4. cur # None
  BY <1>2, FileAssumption
<1>5. TypeOK'
  BY <1>1, <1>2, <1>3 DEF IInv, TypeOK, Place, Verdict
<1>6. Places'
  BY <1>1 DEF Places
<1>7. Sound(copy)' /\ Sound(kept)'
  BY <1>1, <1>2, <1>3, <1>4 DEF Sound, CheckpointRemembers
<1>8. (Checkout => InStep(kept))'
  BY <1>1, <1>2 DEF InStep
<1>9. AliveLine' /\ (Checkout => StaleIsTold)'
  BY <1>1, <1>2 DEF AliveLine, StaleIsTold
<1>. QED
  BY <1>3, <1>5, <1>6, <1>7, <1>8, <1>9 DEF IInv

(* The push fails, or its answer is lost.                                  *)
LEMMA PushFailsInv ==
    ASSUME IInv, PushFails
    PROVE  IInv'
<1>. USE NumberAssumption
<1>1. /\ kept' \in {kept, copy} /\ UNCHANGED <<now, at, cur, copy, passed>>
      /\ pc' = "idle" /\ verdict' = "failed" /\ pc = "push"
      /\ ~Checkout => copy = kept
  BY DEF PushFails, IInv, Places
<1>2. TypeOK'
  BY <1>1 DEF IInv, TypeOK, Place, Verdict
<1>3. Places'
  BY <1>1 DEF Places
<1>4. Sound(copy)' /\ Sound(kept)'
  BY <1>1 DEF IInv, Sound, CheckpointRemembers
<1>5. (Checkout => InStep(kept))'
  BY <1>1, PushedFiles DEF IInv, InStep
<1>6. NoForkPasses' /\ AliveLine' /\ (Checkout => StaleIsTold)'
  BY <1>1 DEF IInv, NoForkPasses, AliveLine, StaleIsTold, Passed
<1>. QED
  BY <1>2, <1>3, <1>4, <1>5, <1>6 DEF IInv

(* Nothing changes.                                                        *)
LEMMA StutterInv == IInv /\ UNCHANGED vars => IInv'
BY DEF IInv, TypeOK, Places, prev, Unchanged, lineOf, Sound, LinesAgree,
       CheckpointLeads, CheckpointRemembers, InStep, NoForkPasses, AliveLine,
       Passed, StaleIsTold, vars

(* Every step of the witness keeps the inductive invariant.                *)
LEMMA NextInv == IInv /\ [Next]_vars => IInv'
BY TickInv, StartInv, LookInv, ProveInv, FailuresInv, WriteInv, WriteBreaksInv,
   AppendLineInv, PushInv, PushFailsInv, StutterInv
DEF Next

(* The inductive invariant holds in every reachable state.                 *)
THEOREM Invariance == Spec => []IInv
BY InitInv, NextInv, PTL DEF Spec

(* Every variable of the witness keeps its type.                           *)
THEOREM TypeCorrect == Spec => []TypeOK
<1>1. IInv => TypeOK
  BY DEF IInv
<1>. QED
  BY Invariance, <1>1, PTL

(* Of any two heads the witness passed, one contains the other, in the     *)
(* workflow and in a plain directory, wherever runs break off.             *)
THEOREM NoForkPassesHolds == Spec => []NoForkPasses
<1>1. IInv => NoForkPasses
  BY DEF IInv
<1>. QED
  BY Invariance, <1>1, PTL

(* A run that passes on a timed head leaves a recent line.                 *)
THEOREM AliveLineHolds == Spec => []AliveLine
<1>1. IInv => AliveLine
  BY DEF IInv
<1>. QED
  BY Invariance, <1>1, PTL

(* In the workflow the alarm about a log that stalls is right.             *)
THEOREM StaleIsToldHolds ==
    ASSUME Checkout
    PROVE  Spec => []StaleIsTold
<1>1. IInv => StaleIsTold
  BY DEF IInv
<1>. QED
  BY Invariance, <1>1, PTL

(* A line that extends sound files follows their last line.                *)
LEMMA LineFollows ==
    ASSUME NEW k \in Seq(Line), k # <<>>, NEW l \in Line, NEW f,
           f.log = Append(k, l), LinesAgree(f)
    PROVE  Promise!Follows(l, k[Len(k)])
<1>1. Len(k) \in Nat /\ Len(k) # 0
  BY EmptySeq, LenProperties
<1>2. /\ Len(f.log) = Len(k) + 1 /\ f.log[Len(k) + 1] = l
      /\ f.log[Len(k)] = k[Len(k)]
  BY <1>1, AppendProperties
<1>3. /\ Len(k) \in 1..Len(f.log) /\ Len(k) + 1 \in 1..Len(f.log)
      /\ Len(k) <= Len(k) + 1
  BY <1>1, <1>2
<1>. QED
  BY <1>2, <1>3 DEF LinesAgree, Extends, Promise!Follows

(* Appending to the files of a directory, or pushing those of a checkout,  *)
(* keeps a line; no other step touches the surviving lines.                *)
THEOREM Refinement == Spec => ImplementsWitnessLog
<1>1. Init => Promise!Init
  BY DEF Init, Promise!Init
<1>2. ASSUME IInv, [Next]_vars
      PROVE  [Promise!Next]_(kept.log)
  <2>1. kept \in Files /\ kept.log \in Seq(Line)
    BY <1>2 DEF IInv, TypeOK, Files
  <2>2. ASSUME pc \in {"append", "push"}
        PROVE  lineOf \in Line
    BY <1>2, <2>2, NumberAssumption
    DEF IInv, TypeOK, Places, lineOf, Line, Heads
  <2>3. ASSUME NEW f, LinesAgree(f), f.log = Append(kept.log, lineOf),
               kept' = f, pc \in {"append", "push"}
        PROVE  Promise!Next
    BY <2>1, <2>2, <2>3, LineFollows DEF Promise!Next, Promise!Keep
  <2>4. CASE AppendLine
    <3>1. CASE Checkout
      BY <2>4, <3>1 DEF AppendLine, Save
    <3>2. CASE ~Checkout
      <4>. DEFINE g == [copy EXCEPT !.log = Append(@, lineOf)]
      <4>1. pc = "append" /\ kept' = g /\ copy = kept
        BY <1>2, <2>4, <3>2 DEF AppendLine, Save, IInv, Places
      <4>2. LinesAgree(g) /\ g.log = Append(kept.log, lineOf)
        BY <1>2, <4>1, LineFiles DEF Sound
      <4>. QED
        BY <2>3, <4>1, <4>2
    <3>. QED
      BY <3>1, <3>2
  <2>5. CASE Push \/ PushFails
    <3>1. pc = "push" /\ (kept' = kept \/ kept' = copy) /\ LinesAgree(copy)
      BY <1>2, <2>5 DEF Push, PushFails, IInv, Sound
    <3>2. CASE Checkout
      BY <1>2, <2>3, <3>1, <3>2 DEF IInv, Places
    <3>3. CASE ~Checkout
      BY <1>2, <3>1, <3>3 DEF IInv, Places
    <3>. QED
      BY <3>2, <3>3
  <2>6. CASE Write
    BY <1>2, <2>6, CheckpointFiles DEF Write, Save, IInv, Places
  <2>7. CASE WriteBreaks
    <3>1. [copy EXCEPT !.checkpoint = Torn].log = copy.log
      BY <1>2 DEF IInv, TypeOK, Files
    <3>. QED
      BY <1>2, <2>7, <3>1, CheckpointFiles DEF WriteBreaks, Save, IInv, Places
  <2>8. ASSUME NEW hd \in Heads, Look(hd)
        PROVE  UNCHANGED kept
    BY <2>8 DEF Look, LookOutOfTime, LookFirst, LookUnreadable, LookBack,
                LookRewritten, LookUnchangedTimed, LookUnchangedUntimed,
                LookGrew, Goto, Fail
  <2>9. CASE Tick \/ Start \/ LookFails \/ Prove \/ ProveFails \/ AppendFails
              \/ UNCHANGED vars
    BY <2>9 DEF Tick, Start, LookFails, Prove, ProveFails, AppendFails, Goto,
                Fail, vars
  <2>. QED
    BY <1>2, <2>4, <2>5, <2>6, <2>7, <2>8, <2>9 DEF Next
<1>. QED
  BY Invariance, <1>1, <1>2, PTL
  DEF Spec, ImplementsWitnessLog, Promise!Spec
==============================================================================
