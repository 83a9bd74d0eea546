----------------------------- MODULE MCRunStore -----------------------------
(***************************************************************************)
(* Two commands at a time are interchangeable: nothing orders them.        *)
(***************************************************************************)
EXTENDS RunStore, TLC

CONSTANTS first, second

MCProcess == {first, second}

Interchangeable == Permutations(MCProcess)
=============================================================================
