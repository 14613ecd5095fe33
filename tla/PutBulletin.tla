------------------------------ MODULE PutBulletin ------------------------------
(***************************************************************************)
(* The requests to publish a bulletin (src/backend/backend.go, PutBulletin): *)
(* each checks the payment against the follower's state, has ganychain       *)
(* commit the bulletin, and only then calls the payment contract of          *)
(* smartBCH and polls for the receipt. Requests run concurrently, the        *)
(* follower lags, and every call to another process may fail or come late.   *)
(*                                                                          *)
(* A transaction is a record: its id, the payer and the nonces and amount of *)
(* the payment, and the election whose list of validators the payer signed   *)
(* (pkHashRoot). Who fails a check of the transaction alone (signature, auth *)
(* proof, the draw of checkProb32) does nothing else and is left out.        *)
(***************************************************************************)
EXTENDS Integers, Sequences, FiniteSets

CONSTANTS
    Requests,
    TxOf,           \* the transaction of each request
    Payers,
    FirstBalance,   \* what a payer has at first
    MaxElections    \* bound of the model

Txs == {TxOf[r] : r \in Requests}

ASSUME PutAssumption ==
    /\ TxOf \in [Requests -> [id : Nat, payer : Payers, nonces : Nat,
                              amount : Nat, list : Nat]]
    /\ FirstBalance \in Nat
    /\ MaxElections \in Nat

VARIABLES
    step,       \* what each request does next
    answer,     \* "ok" (the hash), "error", or "none" so far
    signed,     \* the payment of each request that is about to send it
    mempool, txCache, published,    \* ganychain: pending, seen, and committed
    wallets, paid,  \* the contract: nonces and balances, the payments it accepted
    sent, mined, receipt,   \* payments the node took, how many are executed, results
    view, cached    \* the wallets and the list of validators that the follower has

requestVars == <<step, answer, signed>>
ganyVars == <<mempool, txCache, published>>
contractVars == <<wallets, paid, mined, receipt>>
followerVars == <<view, cached>>
vars == <<requestVars, ganyVars, contractVars, sent, followerVars>>

\* The request that pays, the election of the list that the Merkle proof was made
\* from, and the nonce of the validator's account.
Payments == [request : Requests, list : Nat, nonce : Nat]
NoPayment == << >>

Wallets == [Payers -> [nonces : Nat, balance : Nat]]

Init ==
    /\ step = [r \in Requests |-> "new"]
    /\ answer = [r \in Requests |-> "none"]
    /\ signed = [r \in Requests |-> NoPayment]
    /\ mempool = {} /\ txCache = {} /\ published = {}
    /\ wallets = [p \in Payers |-> [nonces |-> 0, balance |-> FirstBalance]]
    /\ view = wallets
    /\ paid = {}
    /\ cached = 0
    /\ sent = << >> /\ mined = 0
    /\ receipt = [r \in Requests |-> "none"]

GoTo(r, next) == step' = [step EXCEPT ![r] = next] /\ UNCHANGED answer

Answer(r, a) ==
    /\ step' = [step EXCEPT ![r] = "answered"]
    /\ answer' = [answer EXCEPT ![r] = a]

-----------------------------------------------------------------------------
(* The steps of a request.                                                  *)

\* The payment has the nonces that the follower has, and no more than the balance.
checkNoncesAndBalance(tx) ==
    /\ view[tx.payer].nonces = tx.nonces
    /\ view[tx.payer].balance >= tx.amount

\* Steps 1 to 6. The delegation of the payer, read from the follower too, is taken as
\* fixed.
Check(r) ==
    /\ step[r] = "new"
    /\ IF checkNoncesAndBalance(TxOf[r]) THEN GoTo(r, "broadcast") ELSE Answer(r, "error")
    /\ UNCHANGED <<signed, ganyVars, contractVars, sent, followerVars>>

\* BroadcastTxCommit: the mempool refuses a transaction it has seen. CheckTx repeats
\* the check of the bytes that the request began with.
Broadcast(r) ==
    /\ step[r] = "broadcast"
    /\ IF TxOf[r] \in txCache
       THEN Answer(r, "error") /\ UNCHANGED <<mempool, txCache>>
       ELSE /\ mempool' = mempool \cup {TxOf[r]}
            /\ txCache' = txCache \cup {TxOf[r]}
            /\ GoTo(r, "wait_commit")
    /\ UNCHANGED <<signed, published, contractVars, sent, followerVars>>

\* A result whose code is not looked at.
CheckCode_CommitOnly(r) ==
    /\ step[r] \in {"accepted", "refused"}
    /\ GoTo(r, "sign")
    /\ UNCHANGED <<signed, ganyVars, contractVars, sent, followerVars>>

\* An error that is not returned.
CheckCode_Silent(r) ==
    /\ step[r] \in {"accepted", "refused"}
    /\ GoTo(r, IF step[r] = "accepted" THEN "sign" ELSE "answered")
    /\ UNCHANGED <<signed, ganyVars, contractVars, sent, followerVars>>

\* The code of DeliverTx.
CheckCode(r) ==
    /\ \/ step[r] = "accepted" /\ GoTo(r, "sign")
       \/ step[r] = "refused" /\ Answer(r, "error")
    /\ UNCHANGED <<signed, ganyVars, contractVars, sent, followerVars>>

\* callPayToAB: a Merkle proof from the follower's list; PayToAB then asks for the next
\* nonce of the account. A list without the validator's key gives an empty proof.
Sign(r) ==
    /\ step[r] = "sign"
    /\ signed' = [signed EXCEPT ![r] = [request |-> r, list |-> cached, nonce |-> Len(sent)]]
    /\ GoTo(r, "send")
    /\ UNCHANGED <<ganyVars, contractVars, sent, followerVars>>

\* The node takes the transaction with the next nonce of the account only. Its answer
\* may be lost.
SendPayment(r) ==
    /\ step[r] = "send"
    /\ IF signed[r].nonce = Len(sent)
       THEN sent' = Append(sent, signed[r]) /\ (GoTo(r, "poll") \/ Answer(r, "error"))
       ELSE UNCHANGED sent /\ Answer(r, "error")
    /\ signed' = [signed EXCEPT ![r] = NoPayment]
    /\ UNCHANGED <<ganyVars, contractVars, followerVars>>

\* A receipt whose status is not looked at.
PollReceipt_AnyStatus(r) ==
    /\ step[r] \in {"poll", "poll_again"}
    /\ IF receipt[r] # "none" THEN Answer(r, "ok") ELSE GoTo(r, "poll_again")
    /\ UNCHANGED <<signed, ganyVars, contractVars, sent, followerVars>>

\* A retry that pays again.
PollReceipt_Resend(r) ==
    /\ step[r] \in {"poll", "poll_again"}
    /\ IF receipt[r] = "success" THEN Answer(r, "ok") ELSE GoTo(r, "sign")
    /\ UNCHANGED <<signed, ganyVars, contractVars, sent, followerVars>>

\* Without a receipt, or with one of a failed payment, Retry polls again at the next
\* tick.
PollReceipt(r) ==
    /\ step[r] \in {"poll", "poll_again"}
    /\ IF receipt[r] = "success" THEN Answer(r, "ok") ELSE GoTo(r, "poll_again")
    /\ UNCHANGED <<signed, ganyVars, contractVars, sent, followerVars>>

\* A retry that waits for a receipt, whatever its status, before it minds the deadline.
GiveUp_AfterReceipt(r) ==
    /\ step[r] = "poll_again"
    /\ receipt[r] # "none"
    /\ Answer(r, "error")
    /\ UNCHANGED <<signed, ganyVars, contractVars, sent, followerVars>>

\* The 20 seconds are over. Retry polls once whatever the time is.
GiveUp(r) ==
    /\ step[r] = "poll_again"
    /\ Answer(r, "error")
    /\ UNCHANGED <<signed, ganyVars, contractVars, sent, followerVars>>

\* BroadcastTxCommit times out, or a call to another process fails.
CallFails(r) ==
    /\ step[r] \in {"broadcast", "wait_commit", "sign", "send"}
    /\ Answer(r, "error")
    /\ signed' = [signed EXCEPT ![r] = NoPayment]
    /\ UNCHANGED <<ganyVars, contractVars, sent, followerVars>>

\* The process stops: connections break, and what was sent stays sent.
Crash ==
    LET running == {r \in Requests : step[r] \notin {"new", "answered"}}
    IN /\ running # {}
       /\ step' = [r \in Requests |-> IF r \in running THEN "answered" ELSE step[r]]
       /\ answer' = [r \in Requests |-> IF r \in running THEN "error" ELSE answer[r]]
       /\ signed' = [r \in Requests |-> NoPayment]
       /\ UNCHANGED <<ganyVars, contractVars, sent, followerVars>>

-----------------------------------------------------------------------------
(* Ganychain and smartBCH.                                                  *)

\* A block with the transaction; refused ones may be sent again.
CommitBulletin(tx) ==
    /\ tx \in mempool
    /\ \E ok \in BOOLEAN :
        LET waiting == {r \in Requests : step[r] = "wait_commit" /\ TxOf[r] = tx}
        IN /\ published' = IF ok THEN published \cup {tx} ELSE published
           /\ txCache' = IF ok THEN txCache ELSE txCache \ {tx}
           /\ step' = [r \in Requests |-> IF r \in waiting
                                          THEN IF ok THEN "accepted" ELSE "refused"
                                          ELSE step[r]]
    /\ mempool' = mempool \ {tx}
    /\ UNCHANGED <<answer, signed, contractVars, sent, followerVars>>

\* The node restarts, or newer transactions push this one out of its cache.
ForgetTx(tx) ==
    /\ tx \in txCache
    /\ txCache' = txCache \ {tx}
    /\ mempool' = mempool \ {tx}
    /\ UNCHANGED <<requestVars, published, contractVars, sent, followerVars>>

\* The contract takes a payment with the wallet's nonces, enough balance, and a proof
\* of the list that was signed.
MinePayment ==
    /\ mined < Len(sent)
    /\ mined' = mined + 1
    /\ LET payment == sent[mined + 1]
           r == payment.request
           tx == TxOf[r]
           wallet == wallets[tx.payer]
       IN IF wallet.nonces = tx.nonces /\ wallet.balance >= tx.amount /\ payment.list = tx.list
          THEN /\ wallets' = [wallets EXCEPT ![tx.payer] =
                                [nonces |-> @.nonces + 1, balance |-> @.balance - tx.amount]]
               /\ paid' = paid \cup {tx}
               /\ receipt' = [receipt EXCEPT ![r] = "success"]
          ELSE receipt' = [receipt EXCEPT ![r] = "failure"] /\ UNCHANGED <<wallets, paid>>
    /\ UNCHANGED <<requestVars, ganyVars, sent, followerVars>>

Withdraw(payer) ==
    /\ wallets[payer].balance > 0
    /\ wallets' = [wallets EXCEPT ![payer].balance = 0]
    /\ UNCHANGED <<requestVars, ganyVars, paid, mined, receipt, sent, followerVars>>

\* The follower catches up with the wallets, or caches the list of the next election.
FollowerSyncs ==
    /\ \/ view' = wallets /\ UNCHANGED cached
       \/ cached < MaxElections /\ cached' = cached + 1 /\ UNCHANGED view
    /\ UNCHANGED <<requestVars, ganyVars, contractVars, sent>>

Proceed(r) ==
    \/ Check(r) \/ Broadcast(r) \/ CheckCode(r) \/ Sign(r)
    \/ SendPayment(r) \/ PollReceipt(r) \/ GiveUp(r) \/ CallFails(r)

Next ==
    \/ \E r \in Requests : Proceed(r)
    \/ Crash
    \/ \E tx \in Txs : CommitBulletin(tx) \/ ForgetTx(tx)
    \/ \E payer \in Payers : Withdraw(payer)
    \/ MinePayment \/ FollowerSyncs

\* A request's goroutine runs and its calls return or time out. Blocks, elections and
\* the follower are not assumed to go on.
Fairness ==
    \A r \in Requests : WF_vars(Proceed(r))

Spec == Init /\ [][Next]_vars /\ Fairness

-----------------------------------------------------------------------------
(* Properties.                                                              *)

\* A request is answered exactly when it has ended.
TypeOK ==
    /\ step \in [Requests -> {"new", "broadcast", "wait_commit", "accepted",
                              "refused", "sign", "send", "poll", "poll_again", "answered"}]
    /\ answer \in [Requests -> {"none", "ok", "error"}]
    /\ \A r \in Requests : answer[r] = "none" <=> step[r] # "answered"
    /\ \A r \in Requests : IF step[r] = "send" THEN signed[r] \in Payments
                                               ELSE signed[r] = NoPayment
    /\ mempool \subseteq Txs /\ txCache \subseteq Txs /\ published \subseteq Txs
    /\ wallets \in Wallets /\ view \in Wallets
    /\ paid \subseteq Txs
    /\ cached \in Nat
    /\ sent \in Seq(Payments)
    /\ mined \in 0 .. Len(sent)
    /\ receipt \in [Requests -> {"none", "success", "failure"}]

\* A client that gets a hash (backend.go:175) has its bulletin in ganychain and has
\* paid for it, whatever failed, came late or was taken by another request meanwhile.
AnswerMeansPaid ==
    \A r \in Requests : answer[r] = "ok" => TxOf[r] \in published \cap paid

\* Nobody pays for a bulletin that ganychain did not take (122-133): not when the
\* request was lost between the two calls, nor when it is repeated.
PaidMeansPublished == paid \subseteq published

\* One payment buys one bulletin: of the requests that pass the check with the same
\* nonces (275-291), whether copies or not, one at most is told that it paid.
NoncesPayOnce ==
    \A r, q \in Requests :
        /\ r # q
        /\ TxOf[r].payer = TxOf[q].payer
        /\ TxOf[r].nonces = TxOf[q].nonces
        => ~(answer[r] = "ok" /\ answer[q] = "ok")

\* A request's payment is sent once: polling again (157-170) for a receipt that is late,
\* lost or of a failed payment does not pay again.
PaymentIsSentOnce ==
    \A i, j \in DOMAIN sent : sent[i].request = sent[j].request => i = j

\* Every request comes to its answer, even if its bulletin is never committed or its
\* payment never executed (122, 158).
EveryRequestIsAnswered ==
    \A r \in Requests : step[r] # "new" ~> step[r] = "answered"
=============================================================================
