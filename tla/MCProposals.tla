---------------------------- MODULE MCProposals ----------------------------
(***************************************************************************)
(* A small instance of Proposals: four sets of terms, of which each two    *)
(* differ in another way.                                                  *)
(***************************************************************************)
EXTENDS Proposals, TLC

CONSTANTS t1, t2, p1, p2, s1, s2

(* A tool comes and a promise goes; a tool moves between the tiers and the *)
(* commission with it; the promises change places only.                    *)
MCTerms ==
    {[tools |-> {t1}, tourist |-> {t1}, commission |-> 12,
      promises |-> <<p1, p2>>],
     [tools |-> {t1, t2}, tourist |-> {t1}, commission |-> 12,
      promises |-> <<p1>>],
     [tools |-> {t1, t2}, tourist |-> {t2}, commission |-> 15,
      promises |-> <<p1>>],
     [tools |-> {t1}, tourist |-> {t1}, commission |-> 12,
      promises |-> <<p2, p1>>]}

Symmetry == Permutations({s1, s2})
==============================================================================
