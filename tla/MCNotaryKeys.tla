----------------------------- MODULE MCNotaryKeys -----------------------------
(***************************************************************************)
(* Small instances of NotaryKeys.  The records that are verified: signed   *)
(* with the first key and naming none, signed with the second and naming   *)
(* it, and an altered one naming a key that may never be published.        *)
(***************************************************************************)
EXTENDS NotaryKeys

CONSTANTS k1, k2

MCAsked ==
    {[names |-> None, signer |-> k1], [names |-> k2, signer |-> k2],
     [names |-> k2, signer |-> None]}
==============================================================================
