------------------------------- MODULE MCKv -------------------------------
(***************************************************************************)
(* Small instances of the key-value state machine and its clients.         *)
(***************************************************************************)
EXTENDS Console, TLC

\* Bodies are interchangeable.
Symmetric == Permutations(Body)

\* Beside the console others write without a condition; its own writes all have one.
MCForeign ==
    {m \in Mutation : /\ m.request.if_match = NoEtag
                      /\ m.request.op = "Put" => ~m.request.if_none_match}
===========================================================================
