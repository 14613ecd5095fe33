----------------------------- MODULE MCPutBulletin -----------------------------
(***************************************************************************)
(* Small instances of PutBulletin for TLC.                                  *)
(***************************************************************************)
EXTENDS PutBulletin

Payment(id, amount, list) ==
    [id |-> id, payer |-> "p", nonces |-> 0, amount |-> amount, list |-> list]

\* One transaction sent twice, and another one with the same nonces, signed after an
\* election.
MCRequests == {"a", "again", "b"}
MCTxOf == [r \in MCRequests |-> IF r = "b" THEN Payment(2, 2, 1) ELSE Payment(1, 1, 0)]
MCPayers == {"p"}
=============================================================================
