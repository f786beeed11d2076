------------------------------- MODULE MCWitness -------------------------------
(***************************************************************************)
(* A log of up to three records: after a1 it may go on to a2 and a3, or    *)
(* fork to b2.                                                             *)
(***************************************************************************)
EXTENDS Witness, TLC

CONSTANTS e0, a1, a2, a3, b2

sizes == (e0 :> 0) @@ (a1 :> 1) @@ (a2 :> 2) @@ (a3 :> 3) @@ (b2 :> 2)

MCsize == [t \in Tree |-> sizes[t]]

Begins == {<<a2, a1>>, <<a3, a2>>, <<a3, a1>>, <<b2, a1>>}

MCextends == {p \in Tree \X Tree : p[1] = p[2] \/ p[2] = e0 \/ p \in Begins}
==============================================================================
