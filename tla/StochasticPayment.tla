-------------------------- MODULE StochasticPayment --------------------------
(***************************************************************************)
(* The payment of a bulletin, from the payer's signature to the contract     *)
(* (src/proto/stochastic_payment.go, src/utils/, src/backend/backend.go):    *)
(* the payer signs a message made of the payment's fields, the backend       *)
(* recovers the payer and compares the amounts with a wallet, and packs the  *)
(* same fields another way for the contract, which unpacks and hashes them   *)
(* again. The token, the contract and the salt are the same in every message *)
(* and are left out; so are the r and s of a signature, which nobody reads.  *)
(*                                                                          *)
(* A hash is the sequence of the numbers hashed. A signature tells who made  *)
(* it, over which hash, its recovery id, and the byte V that was sent.       *)
(***************************************************************************)
EXTENDS Integers, SequencesExt, FiniteSetsExt

CONSTANTS
    MaxAmountLen,   \* the bytes of the longest amount: 12
    NoAddress,      \* no bytes, or no address at all
    ZeroAddress,    \* twenty zeros
    Stranger        \* an address nobody has: what a wrong signature recovers to

ASSUME PaymentAssumption == MaxAmountLen \in Nat

Byte == 0 .. 255

NoHash == << >>

\* Two signature bytes are legal: 27 and 28.
SignWithEIP712Hash(hash, key, id) == [by |-> key, over |-> hash, id |-> id, v |-> 27 + id]

-----------------------------------------------------------------------------
(* The fields of a payment.                                                 *)

\* Amounts are bytes, and so is the V of a signature.
IsPayment(sp) ==
    /\ sp.nonces \in Nat
    /\ sp.amountToPayee \in Seq(Byte) /\ sp.amountToValidator \in Seq(Byte)
    /\ sp.signature.v \in Byte
    /\ sp.signature = [by |-> sp.signature.by, over |-> sp.signature.over,
                       id |-> sp.signature.id, v |-> sp.signature.v]

\* Amounts of one byte more than the message has room for.
IsValid_TooLong(sp) ==
    /\ sp.dueTime > 0
    /\ sp.prob > 0
    /\ Len(sp.amountToPayee) <= MaxAmountLen + 1
    /\ Len(sp.amountToValidator) <= MaxAmountLen

IsValid(sp) ==
    /\ sp.dueTime > 0
    /\ sp.prob > 0
    /\ Len(sp.amountToPayee) <= MaxAmountLen
    /\ Len(sp.amountToValidator) <= MaxAmountLen

\* Big endian. No bytes are "0x", which is no number.
IsNumber(bytes) == bytes # << >>
Uint(bytes) == FoldLeft(LAMBDA n, byte : 256 * n + byte, 0, bytes)

BytesToAddress(bytes) == IF bytes = NoAddress THEN ZeroAddress ELSE bytes

\* Zeros in front fill the amount up to its room; what is beyond the room is not copied.
concatAddressAmount(address, amount) ==
    <<address, Uint(SubSeq(amount, 1, Min({Len(amount), MaxAmountLen})))>>

concatAddrDueTime64Prob32(dueTime, prob) == <<dueTime, prob>>

GenEIP712MsgForAB(sp) ==
    [pkHashRoot |-> sp.root,
     dueTime_prob |-> concatAddrDueTime64Prob32(sp.dueTime, sp.prob),
     seenNonces |-> sp.nonces,
     payeeAddrA_amountA |-> concatAddressAmount(BytesToAddress(sp.payee), sp.amountToPayee),
     amountB |-> sp.amountToValidator]

\* The hash has a fixed order of fields.
HashOfFields(root, dueProb, nonces, payeeAmount, amountB) ==
    <<root, dueProb, nonces, payeeAmount, amountB>>

\* An amount that is no number makes the whole message fail. Its error is overwritten
\* before anyone looks at it, and the missing hash has no signer.
GetTypedDataHash(msg) ==
    IF IsNumber(msg.amountB)
    THEN HashOfFields(msg.pkHashRoot, msg.dueTime_prob, msg.seenNonces,
                      msg.payeeAddrA_amountA, Uint(msg.amountB))
    ELSE NoHash

EcRecover(hash, sig) ==
    IF sig.v \notin {27, 28} \/ hash = NoHash THEN NoAddress
    ELSE IF sig.over = hash /\ sig.v = 27 + sig.id THEN sig.by
    ELSE Stranger

-----------------------------------------------------------------------------
(* The backend's checks of a payment, in their order: "ok", or how they end. *)

\* What the storage of smartBCH holds no value for is an error.
HasWallet(wallets, owner) == owner \in DOMAIN wallets
loadWalletInStochasticPay(wallets, owner) == wallets[owner]

getDelegatedAddrByMainAddr(delegated, main) ==
    IF main \in DOMAIN delegated THEN delegated[main] ELSE NoAddress

\* Without a delegation there is no address to compare with.
checkAndRestoreAddress(sp, main, delegated) ==
    LET address == EcRecover(GetTypedDataHash(GenEIP712MsgForAB(sp)), sp.signature)
    IN  /\ address # NoAddress
        /\ getDelegatedAddrByMainAddr(delegated, main) = address

\* The backend compares a part of what the payer pays.
AmountsFit_PayeeOnly(sp, wallet) == wallet.balance >= Uint(sp.amountToPayee)

AmountsFit(sp, wallet) ==
    wallet.balance >= Uint(sp.amountToPayee) + Uint(sp.amountToValidator)

\* A valid payment may have no bytes for an amount: BytesToUint256 then dereferences
\* the missing number, and the RPC server recovers from the panic.
checkNoncesAndBalance(sp, wallet) ==
    IF sp.nonces # wallet.nonces THEN "error"
    ELSE IF ~IsNumber(sp.amountToPayee) \/ ~IsNumber(sp.amountToValidator) THEN "panic"
    ELSE IF AmountsFit(sp, wallet) THEN "ok" ELSE "error"

\* The VRF's input is the salt, the same for all payments, and so is its output. Its
\* first bytes are read with the last one first.
checkProb32(sp, beta) == Uint(Reverse(beta)) <= sp.prob

\* Steps 1 to 6 of PutBulletin, but for checkAuth.
Checks(sp, main, delegated, wallets, beta) ==
    IF ~IsValid(sp) \/ ~checkAndRestoreAddress(sp, main, delegated) THEN "error"
    ELSE LET address == getDelegatedAddrByMainAddr(delegated, main)
             verdict == checkNoncesAndBalance(sp, loadWalletInStochasticPay(wallets, address))
         IN  IF ~HasWallet(wallets, address) THEN "error"
             ELSE IF verdict # "ok" THEN verdict
             ELSE IF checkProb32(sp, beta) THEN "ok" ELSE "error"

-----------------------------------------------------------------------------
(* The call of the contract.                                                *)

\* A compressed key is a prefix, 2 or 3, and the X of a point; a point is X and which
\* of the two Y.
IsCompressedKey(cpk) == cpk[1] \in {2, 3}
CompressedPubKeyToXY(cpk) == <<cpk[2], cpk[1] % 2>>
PublicKeyToXY(key) == key

\* The tree is known by its leaves, and its root by the tree.
genValidatorPubKeysMerkleTree(list) == [i \in DOMAIN list |-> CompressedPubKeyToXY(list[i])]

\* A key that is not in the tree has no path, and that is no error.
GetProof(tree, key) == IF key \in ToSet(tree) THEN <<tree, key>> ELSE << >>

\* V is the last byte of the number that carries the amount.
PackAmountBV(amountB, v) == Uint(Append(amountB, v))

\* One key that is no key fails the call.
CanCall(list) == \A i \in DOMAIN list : IsCompressedKey(list[i])

callPayToAB(sp, list, validatorKey) ==
    LET msg == GenEIP712MsgForAB(sp)
        pk == PublicKeyToXY(validatorKey)
    IN  [pk |-> pk,
         pkHashRoot |-> msg.pkHashRoot,
         dueTime_prob |-> msg.dueTime_prob,
         seenNonces |-> msg.seenNonces,
         payeeAddrA_amountA |-> msg.payeeAddrA_amountA,
         amountBV |-> PackAmountBV(msg.amountB, sp.signature.v),
         rs |-> [sp.signature EXCEPT !.v = 0],
         proof |-> GetProof(genValidatorPubKeysMerkleTree(list), pk)]

\* What the contract makes of the parameters: who pays whom how much, provided that
\* the caller proves to be one of the validators that the payer signed.
payToAB(params) ==
    LET lastByte == params.amountBV % 256
        amountB == params.amountBV \div 256
        hash == HashOfFields(params.pkHashRoot, params.dueTime_prob, params.seenNonces,
                             params.payeeAddrA_amountA, amountB)
    IN  [proved |-> params.proof = <<params.pkHashRoot, params.pk>>,
         payer |-> EcRecover(hash, [params.rs EXCEPT !.v = lastByte]),
         nonces |-> params.seenNonces,
         payee |-> params.payeeAddrA_amountA[1],
         amountA |-> params.payeeAddrA_amountA[2],
         amountB |-> amountB]
=============================================================================
