--------------------------- MODULE PutBulletinProofs ---------------------------
(***************************************************************************)
(* What PutBulletin does for every set of requests and transactions: what an *)
(* answer means, and what is paid.                                           *)
(***************************************************************************)
EXTENDS PutBulletin, TLAPS

Steps == {"new", "broadcast", "wait_commit", "accepted", "refused", "sign", "send",
          "poll", "poll_again", "answered"}

\* The steps that do nothing but move one request on.
LocalStep(r) ==
    \/ Check(r) \/ CheckCode(r) \/ PollReceipt(r) \/ GiveUp(r)

\* The request of every payment, signed or sent, is the one that signed it.
PaymentTypes ==
    /\ step \in [Requests -> Steps]
    /\ answer \in [Requests -> {"none", "ok", "error"}]
    /\ \A r \in Requests : step[r] = "send" => signed[r] \in Payments /\ signed[r].request = r
    /\ sent \in Seq(Payments)
    /\ mined \in 0 .. Len(sent)
    /\ receipt \in [Requests -> {"none", "success", "failure"}]
    /\ paid \subseteq Txs /\ published \subseteq Txs /\ mempool \subseteq Txs
    /\ wallets \in Wallets /\ cached \in Nat
    /\ signed \in [Requests -> Payments \cup {NoPayment}]

\* The fields of a request's transaction are of their types.
LEMMA TxFields ==
    ASSUME NEW r \in Requests
    PROVE  /\ TxOf[r] \in Txs
           /\ TxOf[r].payer \in Payers /\ TxOf[r].nonces \in Nat /\ TxOf[r].amount \in Nat
BY PutAssumption DEF Txs

\* The initial values of what the payments need are of their types.
LEMMA PaymentTypesInit == Init => PaymentTypes
<1> SUFFICES ASSUME Init PROVE PaymentTypes
  OBVIOUS
<1>1. wallets \in Wallets
  BY PutAssumption DEF Init, Wallets
<1>2. sent \in Seq(Payments) /\ mined \in 0 .. Len(sent)
  BY DEF Init
<1> QED BY <1>1, <1>2 DEF Init, PaymentTypes, Steps

\* Every step keeps the types of what the payments need.
LEMMA PaymentTypesStep == PaymentTypes /\ [Next]_vars => PaymentTypes'
<1> SUFFICES ASSUME PaymentTypes, [Next]_vars PROVE PaymentTypes'
  OBVIOUS
<1> USE DEF PaymentTypes, Steps
<1>1. ASSUME NEW r \in Requests, LocalStep(r) PROVE PaymentTypes'
  <2> USE DEF GoTo, Answer, ganyVars, contractVars, followerVars
  <2>1. CASE Check(r)
    BY <2>1, ZenonT(30) DEF Check
  <2>2. CASE CheckCode(r)
    BY <2>2, ZenonT(30) DEF CheckCode
  <2>3. CASE PollReceipt(r)
    BY <2>3, ZenonT(30) DEF PollReceipt
  <2>4. CASE GiveUp(r)
    BY <2>4, ZenonT(30) DEF GiveUp
  <2> QED BY <1>1, <2>1, <2>2, <2>3, <2>4 DEF LocalStep
<1>2. ASSUME NEW r \in Requests, Broadcast(r) PROVE PaymentTypes'
  <2>1. mempool' \subseteq Txs
    BY <1>2, TxFields DEF Broadcast
  <2>2. step' \in [Requests -> Steps] /\ answer' \in [Requests -> {"none", "ok", "error"}]
    BY <1>2 DEF Broadcast, GoTo, Answer
  <2>3. \A q \in Requests : step'[q] = "send" => step[q] = "send"
    BY <1>2 DEF Broadcast, GoTo, Answer
  <2> QED BY <1>2, <2>1, <2>2, <2>3 DEF Broadcast, contractVars, followerVars
<1>3. ASSUME NEW r \in Requests, Sign(r) PROVE PaymentTypes'
  <2>1. [request |-> r, list |-> cached, nonce |-> Len(sent)] \in Payments
    BY <1>3 DEF Payments
  <2> QED BY <1>3, <2>1 DEF Sign, GoTo, ganyVars, contractVars, followerVars
<1>4. ASSUME NEW r \in Requests, SendPayment(r) PROVE PaymentTypes'
  <2>1. signed[r] \in Payments
    BY <1>4 DEF SendPayment
  <2>2. sent' \in Seq(Payments) /\ Len(sent') \in {Len(sent), Len(sent) + 1}
    BY <1>4, <2>1 DEF SendPayment
  <2>3. mined' \in 0 .. Len(sent')
    BY <1>4, <2>2 DEF SendPayment, contractVars
  <2> QED BY <1>4, <2>2, <2>3 DEF SendPayment, GoTo, Answer, ganyVars, contractVars, followerVars
<1>5. ASSUME NEW r \in Requests, CallFails(r) PROVE PaymentTypes'
  BY <1>5 DEF CallFails, Answer, ganyVars, contractVars, followerVars
<1>6. ASSUME Crash PROVE PaymentTypes'
  BY <1>6 DEF Crash, ganyVars, contractVars, followerVars
<1>7. ASSUME NEW tx \in Txs, CommitBulletin(tx) PROVE PaymentTypes'
  BY <1>7 DEF CommitBulletin, contractVars, followerVars
<1>8. ASSUME NEW tx \in Txs, ForgetTx(tx) PROVE PaymentTypes'
  BY <1>8 DEF ForgetTx, requestVars, contractVars, followerVars
<1>9. ASSUME NEW payer \in Payers, Withdraw(payer) PROVE PaymentTypes'
  <2>1. wallets' \in Wallets
    BY <1>9 DEF Withdraw, Wallets
  <2> QED BY <1>9, <2>1 DEF Withdraw, requestVars, ganyVars, followerVars
<1>10. ASSUME MinePayment PROVE PaymentTypes'
  <2> DEFINE r == sent[mined + 1].request
             tx == TxOf[r]
  <2>1. mined + 1 \in DOMAIN sent /\ mined' = mined + 1 /\ sent' = sent
    <3>1. mined < Len(sent) /\ mined' = mined + 1 /\ sent' = sent
      BY <1>10 DEF MinePayment
    <3>2. sent \in Seq(Payments) /\ mined \in Nat
      OBVIOUS
    <3> QED BY ONLY <3>1, <3>2
  <2>2. sent[mined + 1] \in Payments
    BY <2>1
  <2>3. r \in Requests /\ mined' \in 0 .. Len(sent')
    BY <2>1, <2>2 DEF Payments
  <2>4. tx \in Txs /\ tx.payer \in Payers /\ tx.amount \in Nat
    BY <2>3, TxFields
  <2>5. wallets' \in Wallets
    <3>1. CASE wallets' = wallets
      BY <3>1
    <3>2. CASE /\ wallets[tx.payer].balance >= tx.amount
               /\ wallets' = [wallets EXCEPT ![tx.payer] =
                                [nonces |-> @.nonces + 1, balance |-> @.balance - tx.amount]]
      <4>1. wallets[tx.payer] \in [nonces : Nat, balance : Nat]
        BY <2>4 DEF Wallets
      <4> DEFINE nonces == wallets[tx.payer].nonces
                 balance == wallets[tx.payer].balance
      <4>2. nonces \in Nat /\ balance \in Nat
        BY <4>1
      <4>3. wallets' = [wallets EXCEPT ![tx.payer] =
                          [nonces |-> nonces + 1, balance |-> balance - tx.amount]]
        BY <3>2
      <4>4. nonces + 1 \in Nat /\ balance - tx.amount \in Nat
        <5>1. balance >= tx.amount
          BY <3>2
        <5> HIDE DEF nonces, balance
        <5> QED BY <4>2, <5>1, <2>4
      <4>5. wallets \in [Payers -> [nonces : Nat, balance : Nat]]
        BY DEF Wallets
      <4> HIDE DEF nonces, balance, tx, r
      <4>6. [nonces |-> nonces + 1, balance |-> balance - tx.amount] \in [nonces : Nat, balance : Nat]
        BY <4>4
      <4> QED BY ONLY <4>3, <4>5, <4>6 DEF Wallets
    <3> QED BY <1>10, <3>1, <3>2 DEF MinePayment
  <2>6. paid' \subseteq Txs /\ receipt' \in [Requests -> {"none", "success", "failure"}]
    BY <1>10, <2>3, <2>4 DEF MinePayment
  <2> QED BY <1>10, <2>3, <2>5, <2>6 DEF MinePayment, requestVars, ganyVars, followerVars
<1>11. ASSUME FollowerSyncs PROVE PaymentTypes'
  BY <1>11 DEF FollowerSyncs, requestVars, ganyVars, contractVars
<1>12. ASSUME UNCHANGED vars PROVE PaymentTypes'
  BY <1>12 DEF vars, requestVars, ganyVars, contractVars, followerVars
<1> QED
  BY <1>1, <1>2, <1>3, <1>4, <1>5, <1>6, <1>7, <1>8, <1>9, <1>10, <1>11, <1>12
     DEF Next, Proceed, LocalStep

-----------------------------------------------------------------------------
(* The state of a request as a whole.                                       *)

\* A request holds a payment exactly while it is about to send it, and an answer
\* exactly when it has ended; the mempool's cache and the follower's wallets.
RequestTypes ==
    /\ \A r \in Requests : step[r] # "send" => signed[r] = NoPayment
    /\ \A r \in Requests : answer[r] = "none" <=> step[r] # "answered"
    /\ txCache \subseteq Txs
    /\ view \in Wallets

\* Every step keeps the types of the rest.
LEMMA RequestTypesStep == PaymentTypes /\ RequestTypes /\ [Next]_vars => RequestTypes'
<1> SUFFICES ASSUME PaymentTypes, RequestTypes, [Next]_vars PROVE RequestTypes'
  OBVIOUS
<1> USE DEF RequestTypes
<1>0. /\ step \in [Requests -> Steps]
      /\ answer \in [Requests -> {"none", "ok", "error"}]
      /\ signed \in [Requests -> Payments \cup {NoPayment}]
  BY DEF PaymentTypes
<1>1. ASSUME NEW r \in Requests, LocalStep(r) PROVE RequestTypes'
  <2>1. UNCHANGED <<signed, txCache, view>> /\ step[r] # "send"
    BY <1>0, <1>1
    DEF LocalStep, Check, CheckCode, PollReceipt, GiveUp, GoTo, Answer, ganyVars, followerVars
  <2>2. \/ GoTo(r, step'[r]) /\ step'[r] # "answered" /\ step[r] # "answered"
        \/ Answer(r, "error") \/ Answer(r, "ok")
    BY <1>0, <1>1
    DEF LocalStep, Check, CheckCode, PollReceipt, GiveUp, GoTo, Answer
  <2>3. CASE GoTo(r, step'[r]) /\ step'[r] # "answered" /\ step[r] # "answered"
    BY <1>0, <2>1, <2>3 DEF GoTo
  <2>4. CASE Answer(r, "error") \/ Answer(r, "ok")
    BY <1>0, <2>1, <2>4 DEF Answer
  <2> QED BY <2>2, <2>3, <2>4
<1>2. ASSUME NEW r \in Requests, Broadcast(r) PROVE RequestTypes'
  BY <1>0, <1>2, TxFields DEF Broadcast, GoTo, Answer, followerVars
<1>3. ASSUME NEW r \in Requests, Sign(r) PROVE RequestTypes'
  BY <1>0, <1>3 DEF Sign, GoTo, ganyVars, followerVars
<1>4. ASSUME NEW r \in Requests, SendPayment(r) \/ CallFails(r) PROVE RequestTypes'
  BY <1>0, <1>4 DEF SendPayment, CallFails, GoTo, Answer, ganyVars, followerVars
<1>5. CASE Crash
  BY <1>0, <1>5 DEF Crash, ganyVars, followerVars
<1>6. ASSUME NEW tx \in Txs, CommitBulletin(tx) PROVE RequestTypes'
  BY <1>0, <1>6 DEF CommitBulletin, followerVars
<1>7. ASSUME NEW tx \in Txs, ForgetTx(tx) PROVE RequestTypes'
  BY <1>7 DEF ForgetTx, requestVars, followerVars
<1>8. CASE MinePayment \/ UNCHANGED vars
  BY <1>8 DEF MinePayment, vars, requestVars, ganyVars, followerVars
<1>9. ASSUME NEW payer \in Payers, Withdraw(payer) PROVE RequestTypes'
  BY <1>9 DEF Withdraw, requestVars, ganyVars, followerVars
<1>10. CASE FollowerSyncs
  BY <1>10 DEF FollowerSyncs, PaymentTypes, requestVars, ganyVars
<1> QED
  BY <1>1, <1>2, <1>3, <1>4, <1>5, <1>6, <1>7, <1>8, <1>9, <1>10 DEF Next, Proceed, LocalStep

\* A request is answered exactly when it has ended, and holds a signed payment exactly
\* while it is about to send it: no failure leaves one that is signed and forgotten.
THEOREM TypeCorrect == Spec => []TypeOK
<1>1. Init => PaymentTypes /\ RequestTypes
  <2>1. Init => wallets \in Wallets
    BY PutAssumption DEF Init, Wallets
  <2> QED BY <2>1, PaymentTypesInit DEF Init, RequestTypes
<1>2. PaymentTypes /\ RequestTypes /\ [Next]_vars => (PaymentTypes /\ RequestTypes)'
  BY PaymentTypesStep, RequestTypesStep
<1>3. PaymentTypes /\ RequestTypes => TypeOK
  BY DEF PaymentTypes, RequestTypes, TypeOK, Steps
<1> QED BY <1>1, <1>2, <1>3, PTL DEF Spec

-----------------------------------------------------------------------------
(* What is paid for is published.                                           *)

Committed == {"accepted", "sign", "send", "poll", "poll_again"}

\* From the commit on, a request's bulletin is published, and so is that of every
\* payment sent, even when the request has ended since.
BulletinFirst ==
    /\ \A r \in Requests : step[r] \in Committed => TxOf[r] \in published
    /\ \A i \in DOMAIN sent : TxOf[sent[i].request] \in published
    /\ paid \subseteq published

\* No step pays, or gets to a payment, ahead of the bulletin.
LEMMA BulletinFirstStep == PaymentTypes /\ BulletinFirst /\ [Next]_vars => BulletinFirst'
<1> SUFFICES ASSUME PaymentTypes, BulletinFirst, [Next]_vars PROVE BulletinFirst'
  OBVIOUS
<1> USE DEF BulletinFirst, Committed
<1>1. ASSUME NEW r \in Requests, LocalStep(r) \/ Broadcast(r) \/ Sign(r) \/ CallFails(r)
      PROVE  BulletinFirst'
  <2>1. UNCHANGED <<sent, paid, published>>
    BY <1>1 DEF LocalStep, Check, CheckCode, PollReceipt, GiveUp, Broadcast, Sign, CallFails,
       ganyVars, contractVars
  <2>2. \A q \in Requests : step'[q] \in Committed => step[q] \in Committed
    BY <1>1 DEF PaymentTypes, LocalStep, Check, CheckCode, PollReceipt, GiveUp, Broadcast,
       Sign, CallFails, GoTo, Answer
  <2> QED BY <2>1, <2>2
<1>2. ASSUME NEW r \in Requests, SendPayment(r) PROVE BulletinFirst'
  <2>1. UNCHANGED <<paid, published>>
    BY <1>2 DEF SendPayment, ganyVars, contractVars
  <2>2. \A q \in Requests : step'[q] \in Committed => step[q] \in Committed
    BY <1>2 DEF PaymentTypes, SendPayment, GoTo, Answer
  <2>3. sent' \in {sent, Append(sent, signed[r])}
    BY <1>2 DEF SendPayment
  <2>4. signed[r].request = r /\ TxOf[r] \in published
    BY <1>2 DEF SendPayment, PaymentTypes
  <2>5. \A i \in DOMAIN sent' : TxOf[sent'[i].request] \in published
    <3>1. \A i \in DOMAIN sent : TxOf[sent[i].request] \in published
      OBVIOUS
    <3>2. signed[r] \in Payments /\ sent \in Seq(Payments)
      BY <1>2 DEF SendPayment, PaymentTypes
    <3>3. CASE sent' = Append(sent, signed[r])
      <4> SUFFICES ASSUME NEW i \in DOMAIN sent'
                   PROVE  TxOf[sent'[i].request] \in published
        OBVIOUS
      <4>1. \/ i \in DOMAIN sent /\ sent'[i] = sent[i]
            \/ sent'[i] = signed[r]
        BY <3>2, <3>3
      <4> QED BY <2>4, <3>1, <4>1
    <3> QED BY <2>3, <3>1, <3>3
  <2> QED BY <2>1, <2>2, <2>5
<1>3. ASSUME Crash PROVE BulletinFirst'
  BY <1>3 DEF Crash, ganyVars, contractVars
<1>4. ASSUME NEW tx \in Txs, CommitBulletin(tx) PROVE BulletinFirst'
  <2>1. UNCHANGED <<sent, paid>> /\ published \subseteq published'
    BY <1>4 DEF CommitBulletin, contractVars
  <2>2. \A q \in Requests : step'[q] \in Committed => step[q] \in Committed \/ TxOf[q] \in published'
    BY <1>4 DEF CommitBulletin, PaymentTypes
  <2> QED BY <2>1, <2>2
<1>5. ASSUME MinePayment PROVE BulletinFirst'
  <2>1. UNCHANGED <<step, sent, published>>
    BY <1>5 DEF MinePayment, requestVars, ganyVars
  <2>2. mined + 1 \in DOMAIN sent
    BY <1>5 DEF MinePayment, PaymentTypes
  <2>3. paid' \subseteq paid \cup {TxOf[sent[mined + 1].request]}
    BY <1>5 DEF MinePayment
  <2> QED BY <2>1, <2>2, <2>3
<1>6. ASSUME \/ \E tx \in Txs : ForgetTx(tx)
             \/ \E payer \in Payers : Withdraw(payer)
             \/ FollowerSyncs
             \/ UNCHANGED vars
      PROVE  BulletinFirst'
  <2>1. UNCHANGED <<step, sent, paid, published>>
    BY <1>6 DEF ForgetTx, Withdraw, FollowerSyncs, vars, requestVars, ganyVars, contractVars
  <2> QED BY <2>1
<1> QED
  BY <1>1, <1>2, <1>3, <1>4, <1>5, <1>6 DEF Next, Proceed, LocalStep

\* Whatever fails, comes late or is repeated, nobody pays for a bulletin that ganychain
\* did not take (backend.go:122-133), for every set of requests.
THEOREM PaidIsPublished == Spec => []PaidMeansPublished
<1>1. Init => PaymentTypes /\ BulletinFirst
  BY PaymentTypesInit DEF Init, BulletinFirst, Committed
<1>2. PaymentTypes /\ BulletinFirst /\ [Next]_vars => (PaymentTypes /\ BulletinFirst)'
  BY PaymentTypesStep, BulletinFirstStep
<1>3. BulletinFirst => PaidMeansPublished
  BY DEF BulletinFirst, PaidMeansPublished
<1> QED BY <1>1, <1>2, <1>3, PTL DEF Spec

-----------------------------------------------------------------------------
(* A request pays once.                                                     *)

AfterSending == {"poll", "poll_again", "answered"}

\* Whoever has sent its payment is polling or has ended, and so sends no other.
SentOnce ==
    /\ PaymentIsSentOnce
    /\ \A i \in DOMAIN sent : step[sent[i].request] \in AfterSending

\* No step sends a second payment for a request.
LEMMA SentOnceStep == PaymentTypes /\ SentOnce /\ [Next]_vars => SentOnce'
<1> SUFFICES ASSUME PaymentTypes, SentOnce, [Next]_vars PROVE SentOnce'
  OBVIOUS
<1> USE DEF SentOnce, PaymentIsSentOnce, AfterSending
<1> DEFINE StaysOver == \A q \in Requests : step[q] \in AfterSending => step'[q] \in AfterSending
<1>1. \A i \in DOMAIN sent : sent[i] \in Payments /\ sent[i].request \in Requests
  <2>1. \A i \in DOMAIN sent : sent[i] \in Payments
    BY DEF PaymentTypes
  <2> QED BY <2>1 DEF Payments
<1>2. CASE sent' = sent /\ StaysOver
  BY <1>1, <1>2
<1>3. ASSUME NEW r \in Requests, LocalStep(r) \/ Broadcast(r) \/ Sign(r) \/ CallFails(r)
      PROVE  sent' = sent /\ StaysOver
  BY <1>3 DEF PaymentTypes, LocalStep, Check, CheckCode, PollReceipt, GiveUp, Broadcast, Sign,
     CallFails, GoTo, Answer
<1>4. ASSUME NEW r \in Requests, SendPayment(r) PROVE SentOnce'
  <2>1. StaysOver /\ step'[r] \in AfterSending /\ step[r] \notin AfterSending
    BY <1>4 DEF SendPayment, PaymentTypes, GoTo, Answer
  <2>2. CASE sent' = sent
    BY <1>2, <2>1, <2>2
  <2>3. CASE sent' = Append(sent, signed[r])
    <3>1. signed[r].request = r /\ signed[r] \in Payments
      BY <1>4 DEF SendPayment, PaymentTypes
    <3>2. \A i \in DOMAIN sent : sent[i].request # r
      BY <2>1
    <3>3. /\ DOMAIN sent' = DOMAIN sent \cup {Len(sent) + 1}
          /\ \A i \in DOMAIN sent : sent'[i] = sent[i]
          /\ sent'[Len(sent) + 1] = signed[r]
      BY <2>3 DEF PaymentTypes
    <3>4. PaymentIsSentOnce'
      BY <3>1, <3>2, <3>3
    <3>5. \A i \in DOMAIN sent' : step'[sent'[i].request] \in AfterSending
      BY <1>1, <2>1, <3>1, <3>3
    <3> QED BY <3>4, <3>5
  <2> QED BY <1>4, <2>2, <2>3 DEF SendPayment
<1>5. ASSUME \/ Crash
             \/ \E tx \in Txs : CommitBulletin(tx) \/ ForgetTx(tx)
             \/ \E payer \in Payers : Withdraw(payer)
             \/ MinePayment
             \/ FollowerSyncs
             \/ UNCHANGED vars
      PROVE  sent' = sent /\ StaysOver
  <2>1. CASE Crash
    BY <2>1 DEF PaymentTypes, Crash
  <2>2. ASSUME NEW tx \in Txs, CommitBulletin(tx) PROVE sent' = sent /\ StaysOver
    BY <2>2 DEF PaymentTypes, CommitBulletin
  <2>3. ASSUME NEW tx \in Txs, ForgetTx(tx) PROVE sent' = sent /\ StaysOver
    BY <2>3 DEF ForgetTx, requestVars
  <2>4. ASSUME NEW payer \in Payers, Withdraw(payer) PROVE sent' = sent /\ StaysOver
    BY <2>4 DEF Withdraw, requestVars
  <2>5. CASE MinePayment \/ FollowerSyncs \/ UNCHANGED vars
    BY <2>5 DEF MinePayment, FollowerSyncs, vars, requestVars
  <2> QED BY <1>5, <2>1, <2>2, <2>3, <2>4, <2>5
<1> QED
  BY <1>2, <1>3, <1>4, <1>5 DEF Next, Proceed, LocalStep

\* Polling again for a receipt does not pay again (backend.go:157-170).
THEOREM EveryPaymentIsSentOnce == Spec => []PaymentIsSentOnce
<1>1. Init => PaymentTypes /\ SentOnce
  BY PaymentTypesInit DEF Init, SentOnce, PaymentIsSentOnce
<1>2. PaymentTypes /\ SentOnce /\ [Next]_vars => (PaymentTypes /\ SentOnce)'
  BY PaymentTypesStep, SentOnceStep
<1>3. SentOnce => PaymentIsSentOnce
  BY DEF SentOnce
<1> QED BY <1>1, <1>2, <1>3, PTL DEF Spec

-----------------------------------------------------------------------------
(* What an answer means.                                                    *)

SamePayment(r, q) == TxOf[r].payer = TxOf[q].payer /\ TxOf[r].nonces = TxOf[q].nonces

\* The contract has moved on from the nonces of every payment it took: a receipt is
\* that of the one payment of its request.
PaidOnce ==
    /\ \A r \in Requests : receipt[r] # "none" => \E i \in 1 .. mined : sent[i].request = r
    /\ \A r \in Requests : receipt[r] = "success" =>
        TxOf[r] \in paid /\ TxOf[r].nonces < wallets[TxOf[r].payer].nonces
    /\ \A r, q \in Requests : r # q /\ SamePayment(r, q) =>
        ~(receipt[r] = "success" /\ receipt[q] = "success")
    /\ \A r \in Requests : answer[r] = "ok" => receipt[r] = "success"

\* No step takes a payment twice, or answers with one that was not taken.
LEMMA PaidOnceStep ==
    PaymentTypes /\ SentOnce /\ PaidOnce /\ [Next]_vars => PaidOnce'
<1> SUFFICES ASSUME PaymentTypes, SentOnce, PaidOnce, [Next]_vars PROVE PaidOnce'
  OBVIOUS
<1> USE DEF PaidOnce, SamePayment
<1> DEFINE Told == \A r \in Requests : answer'[r] = "ok" => answer[r] = "ok" \/ receipt[r] = "success"
<1>1. ASSUME NEW r \in Requests, LocalStep(r) \/ Broadcast(r) \/ Sign(r) \/ CallFails(r)
      PROVE  UNCHANGED <<contractVars, sent>> /\ Told
  BY <1>1 DEF PaymentTypes, LocalStep, Check, CheckCode, PollReceipt, GiveUp, Broadcast, Sign,
     CallFails, GoTo, Answer
<1>2. ASSUME \/ Crash
             \/ \E tx \in Txs : CommitBulletin(tx) \/ ForgetTx(tx)
             \/ FollowerSyncs
             \/ UNCHANGED vars
      PROVE  UNCHANGED <<contractVars, sent>> /\ Told
  BY <1>2 DEF PaymentTypes, Crash, CommitBulletin, ForgetTx, FollowerSyncs, vars, requestVars
<1>3. CASE UNCHANGED <<contractVars, sent>> /\ Told
  BY <1>3 DEF contractVars
<1>4. ASSUME NEW r \in Requests, SendPayment(r) PROVE PaidOnce'
  <2>1. UNCHANGED contractVars /\ Told
    BY <1>4 DEF SendPayment, PaymentTypes, GoTo, Answer
  <2>2. \A i \in 1 .. mined : sent'[i] = sent[i]
    <3>1. mined \in 0 .. Len(sent) /\ sent \in Seq(Payments) /\ signed[r] \in Payments
      BY <1>4 DEF SendPayment, PaymentTypes
    <3>2. sent' = sent \/ sent' = Append(sent, signed[r])
      BY <1>4 DEF SendPayment
    <3> QED BY <3>1, <3>2
  <2> QED BY <2>1, <2>2 DEF contractVars
<1>5. ASSUME NEW payer \in Payers, Withdraw(payer) PROVE PaidOnce'
  <2>1. \A p \in Payers : wallets'[p].nonces = wallets[p].nonces
    BY <1>5 DEF Withdraw, PaymentTypes, Wallets
  <2>2. UNCHANGED <<answer, paid, mined, receipt, sent>>
    BY <1>5 DEF Withdraw, requestVars
  <2>3. \A q \in Requests : TxOf[q].payer \in Payers
    BY TxFields
  <2> QED BY <2>1, <2>2, <2>3
<1>6. ASSUME MinePayment PROVE PaidOnce'
  <2> DEFINE r == sent[mined + 1].request
             tx == TxOf[r]
  <2>1. mined + 1 \in DOMAIN sent /\ mined \in Nat /\ mined' = mined + 1
    <3>1. mined < Len(sent) /\ mined' = mined + 1
      BY <1>6 DEF MinePayment
    <3>2. sent \in Seq(Payments) /\ mined \in Nat
      BY DEF PaymentTypes
    <3> QED BY ONLY <3>1, <3>2
  <2>2. sent[mined + 1] \in Payments
    BY <2>1 DEF PaymentTypes
  <2>3. r \in Requests /\ tx.payer \in Payers /\ tx.nonces \in Nat
    BY <2>2, TxFields DEF Payments
  <2>4. UNCHANGED <<answer, sent>>
    BY <1>6 DEF MinePayment, requestVars
  <2>5. receipt[r] = "none"
    <3>1. \A i \in 1 .. mined : i \in DOMAIN sent /\ i # mined + 1
      BY <2>1 DEF PaymentTypes
    <3>2. \A i \in 1 .. mined : sent[i].request # r
      BY <2>1, <3>1 DEF SentOnce, PaymentIsSentOnce
    <3>3. receipt[r] # "none" => \E i \in 1 .. mined : sent[i].request = r
      BY <2>3
    <3> QED BY <3>2, <3>3
  <2>6. \A q \in Requests : receipt'[q] # "none" => \E i \in 1 .. mined' : sent'[i].request = q
    <3>1. \A q \in Requests : q # r => receipt'[q] = receipt[q]
      BY <1>6 DEF MinePayment, PaymentTypes
    <3> QED BY <2>1, <2>4, <3>1
  <2>7. answer[r] # "ok"
    BY <2>3, <2>5
  <2>8. CASE receipt' = [receipt EXCEPT ![r] = "failure"] /\ UNCHANGED <<wallets, paid>>
    BY <2>3, <2>4, <2>6, <2>7, <2>8 DEF PaymentTypes
  <2>9. CASE /\ wallets[tx.payer].nonces = tx.nonces
             /\ wallets' = [wallets EXCEPT ![tx.payer] =
                              [nonces |-> @.nonces + 1, balance |-> @.balance - tx.amount]]
             /\ paid' = paid \cup {tx}
             /\ receipt' = [receipt EXCEPT ![r] = "success"]
    <3>1. \A p \in Payers : wallets[p].nonces \in Nat
      BY DEF PaymentTypes, Wallets
    <3>0. \A p \in Payers : wallets'[p].nonces = IF p = tx.payer
                                                 THEN wallets[p].nonces + 1
                                                 ELSE wallets[p].nonces
      <4>1. wallets \in [Payers -> [nonces : Nat, balance : Nat]]
        BY DEF PaymentTypes, Wallets
      <4>2. tx.payer \in Payers
        BY <2>3
      <4> HIDE DEF r, tx
      <4> QED BY ONLY <2>9, <4>1, <4>2
    <3>2. \A p \in Payers : wallets[p].nonces <= wallets'[p].nonces
      BY ONLY <3>0, <3>1
    <3>3. tx.nonces < wallets'[tx.payer].nonces
      <4>1. /\ wallets'[tx.payer].nonces = wallets[tx.payer].nonces + 1
            /\ wallets[tx.payer].nonces = tx.nonces /\ tx.nonces \in Nat
        BY <2>3, <2>9, <3>0
      <4> QED BY ONLY <4>1
    <3>4. \A q \in Requests : /\ receipt'[q] = IF q = r THEN "success" ELSE receipt[q]
                              /\ TxOf[q].payer \in Payers /\ TxOf[q].nonces \in Nat
      BY <2>3, <2>9, TxFields DEF PaymentTypes
    <3>5. \A q \in Requests : receipt'[q] = "success" =>
            TxOf[q] \in paid' /\ TxOf[q].nonces < wallets'[TxOf[q].payer].nonces
      <4> SUFFICES ASSUME NEW q \in Requests, receipt'[q] = "success"
                   PROVE  TxOf[q] \in paid' /\ TxOf[q].nonces < wallets'[TxOf[q].payer].nonces
        OBVIOUS
      <4>1. CASE q = r
        BY <2>9, <3>3, <4>1
      <4>2. CASE q # r
        <5>1. TxOf[q] \in paid /\ TxOf[q].nonces < wallets[TxOf[q].payer].nonces
          BY <3>4, <4>2
        <5>2. wallets[TxOf[q].payer].nonces <= wallets'[TxOf[q].payer].nonces
          BY <3>2, <3>4
        <5>3. /\ TxOf[q].nonces \in Nat
              /\ wallets[TxOf[q].payer].nonces \in Nat
              /\ wallets'[TxOf[q].payer].nonces \in Nat
          BY <3>0, <3>1, <3>4
        <5>4. TxOf[q].nonces < wallets'[TxOf[q].payer].nonces
          BY <5>1, <5>2, <5>3
        <5> QED BY <2>9, <5>1, <5>4
      <4> QED BY <4>1, <4>2
    <3>6. \A q \in Requests : q # r /\ SamePayment(q, r) => receipt[q] # "success"
      BY <2>3, <2>9, <3>1
    <3>7. \A p, q \in Requests : p # q /\ SamePayment(p, q) =>
            ~(receipt'[p] = "success" /\ receipt'[q] = "success")
      BY <3>4, <3>6
    <3>8. \A q \in Requests : answer'[q] = "ok" => receipt'[q] = "success"
      BY <2>4, <3>4
    <3> HIDE DEF SamePayment
    <3> QED BY <2>6, <3>5, <3>7, <3>8
  <2> QED BY <1>6, <2>8, <2>9 DEF MinePayment
<1> QED
  BY <1>1, <1>2, <1>3, <1>4, <1>5, <1>6 DEF Next, Proceed, LocalStep

PayInv == PaymentTypes /\ BulletinFirst /\ SentOnce /\ PaidOnce

\* Bulletins come first, and payments are sent and taken once, in every reachable state.
LEMMA PayInvariant == Spec => []PayInv
<1>1. Init => PayInv
  BY PaymentTypesInit DEF Init, PayInv, BulletinFirst, Committed, SentOnce, PaymentIsSentOnce,
     PaidOnce
<1>2. PayInv /\ [Next]_vars => PayInv'
  BY PaymentTypesStep, BulletinFirstStep, SentOnceStep, PaidOnceStep DEF PayInv
<1> QED BY <1>1, <1>2, PTL DEF Spec

\* Who gets a hash (backend.go:175) has its bulletin in ganychain and has paid for it.
THEOREM AnswersAreTrue == Spec => []AnswerMeansPaid
<1>1. PayInv => AnswerMeansPaid
  BY DEF PayInv, BulletinFirst, PaidOnce, AnswerMeansPaid
<1> QED BY <1>1, PayInvariant, PTL

\* Of any number of requests that pass the check with the same nonces
\* (backend.go:275-291), one at most is told that it paid.
THEOREM NoncesBuyOneBulletin == Spec => []NoncesPayOnce
<1>1. PayInv => NoncesPayOnce
  BY DEF PayInv, PaidOnce, SamePayment, NoncesPayOnce
<1> QED BY <1>1, PayInvariant, PTL
=============================================================================
