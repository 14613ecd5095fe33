------------------------------ MODULE MockChain ------------------------------
(***************************************************************************)
(* The doubles that the repository's tests run in place of smartBCH and      *)
(* Tendermint (src/utils/testutils/): MockBackend repeats the checks of the  *)
(* backend and moves the amounts between the wallets of a MockFollower       *)
(* itself, and MockGanyApp executes a block for each transaction with the    *)
(* application of BulletinStore. What backend_test.go shows, it shows of     *)
(* them; the properties say how far that holds of the backend and the        *)
(* contract.                                                                *)
(*                                                                          *)
(* A request is a GanyTx: the bulletin, with what the application looks at,  *)
(* and its payment.                                                         *)
(***************************************************************************)
EXTENDS BulletinStore, StochasticPayment

CONSTANTS
    Requests,
    Delegated,      \* addrMap: main address -> delegated address
    FirstWallets,   \* what a test sets at first: owner -> nonces and balance
    ValidatorAddr, ValidatorKey, ValidatorList,
    Beta,           \* the first bytes of the VRF's output: 4 in the code
    Shards,
    TopicHash,      \* the first bytes of a topic's hash: topic -> number
    NonceWrap,      \* a byte of the nonces wraps: 256
    MaxPayments,    \* bounds of the model
    MaxNow

VARIABLES
    wallets,    \* MockFollower: owner -> nonces and balance
    apps,       \* MockGanyApp of each shard: height, database and batch
    payments,   \* the requests that have been paid for, in order
    now         \* the wall clock of the test, which badger's expiries follow

vars == <<wallets, apps, payments, now>>

ASSUME MockAssumption ==
    /\ Shards \in Nat \ {0}
    /\ NonceWrap \in Nat \ {0}
    /\ MaxPayments \in Nat
    /\ MaxNow \in Nat
    /\ \A r \in Requests : r.tx \in GanyTx /\ IsPayment(r.sp)
    /\ \A main \in DOMAIN Delegated : Delegated[main] # Stranger
    /\ IsFiniteSet(DOMAIN FirstWallets)
    /\ FirstWallets \in [DOMAIN FirstWallets -> [nonces : 0 .. NonceWrap - 1, balance : Nat]]

Init ==
    /\ wallets = FirstWallets
    /\ apps = [s \in 0 .. Shards - 1 |->
                [height |-> 0, db |-> EmptyStore, batch |-> EmptyStore]]
    /\ payments = << >>
    /\ now = 1

-----------------------------------------------------------------------------
(* MockFollower.                                                            *)

\* Who has no wallet has an empty one.
LoadWallet(ws, owner) ==
    IF owner \in DOMAIN ws THEN ws[owner] ELSE [nonces |-> 0, balance |-> 0]

SetWallet(ws, owner, nonces, balance) ==
    [o \in DOMAIN ws \cup {owner} |->
        IF o = owner THEN [nonces |-> nonces, balance |-> balance] ELSE ws[o]]

-----------------------------------------------------------------------------
(* MockGanyApp.                                                             *)

\* A block whose batch begins with what the last one left.
BeginBlock_Kept(app) == app

BeginBlock(app) == [app EXCEPT !.batch = app.db]

Commit(app) == [app EXCEPT !.db = app.batch, !.height = @ + 1]

\* The block's time is the bulletin's, and the transaction is its first.
BlockSn(tx) == <<Low5(tx.timestamp), 0>>

\* A transaction that is refused leaves the block open, with what it had written.
BroadcastTx(app, tx, clock, accepted) ==
    LET begun == BeginBlock(app)
        put == putGanyTx(begun.batch, tx, BlockSn(tx), clock, accepted)
        delivered == [begun EXCEPT !.batch = put.store]
    IN  [code |-> put.code,
         app |-> IF put.code = OK THEN Commit(delivered) ELSE delivered]

-----------------------------------------------------------------------------
(* MockBackend.                                                             *)

checkAndRestoreAddress_Mock(sp, main) ==
    LET address == EcRecover(GetTypedDataHash(GenEIP712MsgForAB(sp)), sp.signature)
    IN  /\ address # NoAddress
        /\ main \in DOMAIN Delegated
        /\ Delegated[main] = address

\* The mock forgets the nonces.
checkNoncesAndBalance_AnyNonces(sp, wallet) ==
    IF ~IsNumber(sp.amountToPayee) \/ ~IsNumber(sp.amountToValidator) THEN "panic"
    ELSE IF wallet.balance >= Uint(sp.amountToPayee) + Uint(sp.amountToValidator)
    THEN "ok" ELSE "error"

\* The mock forgets the amount of the validator.
checkNoncesAndBalance_PayeeOnly(sp, wallet) ==
    IF sp.nonces # wallet.nonces THEN "error"
    ELSE IF ~IsNumber(sp.amountToPayee) \/ ~IsNumber(sp.amountToValidator) THEN "panic"
    ELSE IF wallet.balance >= Uint(sp.amountToPayee) THEN "ok" ELSE "error"

checkNoncesAndBalance_Mock(sp, wallet) ==
    IF sp.nonces # wallet.nonces THEN "error"
    ELSE IF ~IsNumber(sp.amountToPayee) \/ ~IsNumber(sp.amountToValidator) THEN "panic"
    ELSE IF wallet.balance >= Uint(sp.amountToPayee) + Uint(sp.amountToValidator)
    THEN "ok" ELSE "error"

\* The first byte is the greatest here.
checkProb32_Mock(sp) == Uint(Beta) <= sp.prob

\* Steps 1 to 6 of PutBulletin; no bulletin asks for authentication here.
Checks_Mock(r, ws) ==
    LET verdict == checkNoncesAndBalance_Mock(r.sp, LoadWallet(ws, Delegated[r.tx.from]))
    IN  IF ~IsValid(r.sp) \/ ~checkAndRestoreAddress_Mock(r.sp, r.tx.from) THEN "error"
        ELSE IF verdict # "ok" THEN verdict
        ELSE IF checkProb32_Mock(r.sp) THEN "ok" ELSE "error"

addNonces(nonces) == (nonces + 1) % NonceWrap

updateWallet(ws, owner, delta, sign) ==
    LET wallet == LoadWallet(ws, owner)
    IN  IF sign > 0 THEN SetWallet(ws, owner, wallet.nonces, wallet.balance + delta)
        ELSE SetWallet(ws, owner, addNonces(wallet.nonces), wallet.balance - delta)

\* All three wallets are read before the first is written.
callPayToAB_ReadFirst(ws, payer, payee, amountA, amountB) ==
    LET written(owner, delta, sign) == owner :> updateWallet(ws, owner, delta, sign)[owner]
    IN  written(ValidatorAddr, amountB, 1)
        @@ (IF amountA > 0 THEN written(payee, amountA, 1) ELSE << >>)
        @@ written(payer, amountA + amountB, -1) @@ ws

\* One wallet after the other, for payer, payee and validator may be the same.
callPayToAB_Mock(ws, payer, payee, amountA, amountB) ==
    LET paid == updateWallet(ws, payer, amountA + amountB, -1)
        received == IF amountA > 0 THEN updateWallet(paid, payee, amountA, 1) ELSE paid
    IN  updateWallet(received, ValidatorAddr, amountB, 1)

ShardIndex(r) == TopicHash[r.tx.topic] % Shards

PayIfAccepted(r, ws, accepted) ==
    IF accepted
    THEN callPayToAB_Mock(ws, Delegated[r.tx.from], BytesToAddress(r.sp.payee),
                          Uint(r.sp.amountToPayee), Uint(r.sp.amountToValidator))
    ELSE ws

\* The application may refuse what passed the checks: a version of what it does not
\* have, or a write that badger does not accept.
PutBulletin(r) ==
    /\ Len(payments) < MaxPayments
    /\ Checks_Mock(r, wallets) = "ok"
    /\ \E accepted \in 0 .. CreateWriteCount :
        LET sent == BroadcastTx(apps[ShardIndex(r)], r.tx, now, accepted)
        IN  /\ apps' = [apps EXCEPT ![ShardIndex(r)] = sent.app]
            /\ wallets' = PayIfAccepted(r, wallets, sent.code = OK)
            /\ payments' = IF sent.code = OK THEN Append(payments, r) ELSE payments
    /\ UNCHANGED now

Tick ==
    /\ now < MaxNow
    /\ now' = now + 1
    /\ UNCHANGED <<wallets, apps, payments>>

Next == Tick \/ \E r \in Requests : PutBulletin(r)

Spec == Init /\ [][Next]_vars

-----------------------------------------------------------------------------
(* Properties.                                                              *)

\* Wallets never owe: what is taken from one was compared with its balance, and the
\* subtraction (mock_backend.go:243) does not wrap.
TypeOK ==
    /\ \A o \in DOMAIN wallets :
        wallets[o] \in [nonces : 0 .. NonceWrap - 1, balance : Nat]
    /\ \A s \in DOMAIN apps :
        /\ apps[s].height \in Nat
        /\ \A k \in DOMAIN apps[s].db.entries :
            apps[s].db.entries[k].tx \in {r.tx : r \in Requests}
    /\ payments \in Seq(Requests)
    /\ now \in Nat

Total(ws) == MapThenSumSet(LAMBDA o : ws[o].balance, DOMAIN ws)

\* Payments move tokens and make none, also when the payee or the validator is the
\* payer (mock_backend.go:222-228).
TokensAreConserved == Total(wallets) = Total(FirstWallets)

\* The main key that a transaction writes or deletes.
KeyOf(tx) == MainKey(tx, IF tx.oldSn = NoSn THEN BlockSn(tx) ELSE tx.oldSn)

\* A creation without content is accepted, and nothing is done.
IsNothing(tx) == tx.oldSn = NoSn /\ tx.content = NoContent

\* The payments of a shard's bulletins in ps.
PaidFor(ps, s) == {i \in DOMAIN ps : ShardIndex(ps[i]) = s /\ ~IsNothing(ps[i].tx)}

\* Those whose main key no later one writes or deletes, deletions left out.
Kept(ps, s) ==
    {i \in PaidFor(ps, s) :
        /\ ps[i].tx.content # NoContent
        /\ \A j \in PaidFor(ps, s) : KeyOf(ps[j].tx) = KeyOf(ps[i].tx) => j <= i}

\* A shard's database holds what was paid for last under each main key, and nothing
\* else: nothing that a refused transaction wrote before badger refused it comes in
\* with a later block, nothing is paid that was refused, and what is paid for is there
\* (mock_app.go:43-61, mock_backend.go:109-117). What was paid for earlier is gone: a
\* version or a deletion takes its place, and so does a creation by its author with the
\* same type, topic and second, for the mock's blocks have the time of their bulletin.
StoredIsPaid ==
    \A s \in DOMAIN apps :
        LET entries == apps[s].db.entries
        IN  /\ DOMAIN entries = {KeyOf(payments[i].tx) : i \in Kept(payments, s)}
            /\ \A i \in Kept(payments, s) :
                entries[KeyOf(payments[i].tx)].tx = payments[i].tx

\* A signature pays once. When a byte of the nonces has come round (mock_backend.go:
\* 251-258) an old one is good again.
PaymentTakenOnce ==
    \A i, j \in DOMAIN payments :
        /\ i < j
        /\ payments[i].sp.signature = payments[j].sp.signature
        => Cardinality({k \in i .. j - 1 :
                payments[k].sp.signature.by = payments[i].sp.signature.by}) >= NonceWrap

\* What the tests see moved is what the backend would ask the contract to move, from
\* the payer who signed (backend.go:178-233): the parameters that it packs give the
\* same hash, signer, payee and amounts, for any legal lengths of the amounts.
MockPaysAsContract ==
    \A r \in Requests :
        /\ Checks_Mock(r, wallets) = "ok"
        /\ CanCall(ValidatorList)
        /\ r.sp.root = genValidatorPubKeysMerkleTree(ValidatorList)
        => LET asked == payToAB(callPayToAB(r.sp, ValidatorList, ValidatorKey))
           IN  /\ asked.proved
               /\ asked.nonces = LoadWallet(wallets, asked.payer).nonces
               /\ callPayToAB_Mock(wallets, asked.payer, asked.payee,
                                   asked.amountA, asked.amountB)
                    = PayIfAccepted(r, wallets, TRUE)

\* The mock and the backend agree on a request (mock_backend.go:56-102,
\* backend.go:68-116) unless the payer has no wallet or the two read another number
\* from the VRF: a test of the one is a test of the other.
MockChecksAsBackend ==
    \A r \in Requests :
        /\ r.tx.from \in DOMAIN Delegated => HasWallet(wallets, Delegated[r.tx.from])
        /\ checkProb32(r.sp, Beta) = checkProb32_Mock(r.sp)
        => Checks(r.sp, r.tx.from, Delegated, wallets, Beta) = Checks_Mock(r, wallets)
=============================================================================
