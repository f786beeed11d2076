------------------------------ MODULE WitnessLog ------------------------------
(***************************************************************************)
(* What a witness of a transparency log promises its readers: an append-   *)
(* only list of heads, each with the time it was kept, of which none       *)
(* contradicts an earlier one or was signed before it.                     *)
(***************************************************************************)
EXTENDS Naturals, Sequences

CONSTANTS Line,     \* [at, tree, signedAt]: a head and the time it was kept
          extends   \* <<new, old>> when the tree new begins with the tree old

VARIABLES lines

Init == lines = <<>>

Follows(l, last) ==
    /\ <<l.tree, last.tree>> \in extends
    /\ l.signedAt >= last.signedAt
    /\ l.at >= last.at

Keep(l) ==
    /\ lines # <<>> => Follows(l, lines[Len(lines)])
    /\ lines' = Append(lines, l)

Next == \E l \in Line : Keep(l)

Spec == Init /\ [][Next]_lines
==============================================================================
