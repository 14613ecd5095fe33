----------------------------- MODULE MCFollower -----------------------------
(***************************************************************************)
(* Small instances of Follower for TLC.                                     *)
(***************************************************************************)
EXTENDS Follower

\* The length word, two validators and a wallet.
MCSlots == 0 .. 3

\* An election of two validators; one of a single validator, which clears the second,
\* with a payment in its block; a candidate who joins without an election.
MCBlocks ==
    {[slots |-> {0, 1, 2}, length |-> 2, elects |-> TRUE],
     [slots |-> {0, 1, 2, 3}, length |-> 1, elects |-> TRUE],
     [slots |-> {0, 2}, length |-> 2, elects |-> FALSE]}
=============================================================================
