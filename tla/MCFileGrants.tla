---------------------------- MODULE MCFileGrants ----------------------------
(* FileGrants with interchangeable executions, grants and contents.        *)
EXTENDS FileGrants, TLC

CONSTANTS u1, u2, g1, a, b

MCUsers == {u1, u2}
MCGrants == {g1}
MCContents == {a, b}

Interchangeable ==
    Permutations(MCUsers) \cup Permutations(MCContents)
=============================================================================
