------------------------------- MODULE TxLayout -------------------------------
(***************************************************************************)
(* The bytes of a GanyTx (src/proto/tx.go): a header of four lengths, then   *)
(* the StochasticPayment, the Bulletin, the AuthProof and the AuthChallenge. *)
(* Whoever sends a transaction chooses the lengths, which need not add up to *)
(* its size, and two of the offsets are sums that wrap at 32 bits.           *)
(***************************************************************************)
EXTENDS Integers, Sequences

CONSTANTS
    Width,      \* a length is an uint32: 2^32 values
    HeaderLen   \* TxFieldLengthsLen: 16 bytes

ASSUME LayoutAssumption ==
    /\ Width \in Nat \ {0}
    /\ HeaderLen \in Nat \ {0}

PAYMENT == 1
BULLETIN == 2
AUTH_PROOF == 3
AUTH_CHALLENGE == 4
Fields == 1 .. 4

\* How many bytes a transaction has, and the lengths in its header. The network
\* carries no transaction as large as a length can tell.
Layout == [len : 0 .. Width - 1, lengths : [Fields -> 0 .. Width - 1]]

Uint32(n) == n % Width

\* The bytes from one offset up to another one, if there is no error.
Slice == [err : BOOLEAN, from : Nat, to : Nat]
ErrInvalidTxBytes == [err |-> TRUE, from |-> 0, to |-> 0]
NoBytes == [err |-> FALSE, from |-> 0, to |-> 0]
IsEmpty(slice) == slice.from = slice.to

\* An end that is computed in 32 bits.
GetBytesSlice_Wrapped(tx, start, end) ==
    IF tx.len < Uint32(end) THEN ErrInvalidTxBytes
    ELSE [err |-> FALSE, from |-> start, to |-> end]

GetBytesSlice(tx, start, end) ==
    IF tx.len < end THEN ErrInvalidTxBytes
    ELSE [err |-> FALSE, from |-> start, to |-> end]

\* What the four getters share: a field without bytes has no offset to check.
GetField(tx, start, len) ==
    IF tx.len < HeaderLen THEN ErrInvalidTxBytes
    ELSE IF len = 0 THEN NoBytes
    ELSE GetBytesSlice(tx, start, start + len)

GetStochasticPaymentBytes(tx) == GetField(tx, HeaderLen, tx.lengths[PAYMENT])

GetBulletinBytes(tx) ==
    GetField(tx, tx.lengths[PAYMENT] + HeaderLen, tx.lengths[BULLETIN])

\* The sums of two and of three lengths are taken before they become an int.
GetAuthProofBytes(tx) ==
    GetField(tx, Uint32(tx.lengths[PAYMENT] + tx.lengths[BULLETIN]) + HeaderLen,
             tx.lengths[AUTH_PROOF])

GetAuthChallengeBytes(tx) ==
    GetField(tx, Uint32(tx.lengths[PAYMENT] + tx.lengths[BULLETIN]
                        + tx.lengths[AUTH_PROOF]) + HeaderLen,
             tx.lengths[AUTH_CHALLENGE])

\* Whether GetBulletinID finds the three fields that it hashes.
HasBulletinID(tx) ==
    /\ ~GetBulletinBytes(tx).err
    /\ ~GetAuthProofBytes(tx).err
    /\ ~GetAuthChallengeBytes(tx).err

\* The layout that CreateGanyTx gives to four messages.
CreateGanyTx(lengths) ==
    [len |-> HeaderLen + lengths[PAYMENT] + lengths[BULLETIN]
             + lengths[AUTH_PROOF] + lengths[AUTH_CHALLENGE],
     lengths |-> lengths]

-----------------------------------------------------------------------------
(* Reference: the fields one after the other, nothing wrapped.              *)

OffsetOf(tx, field) ==
    HeaderLen + (IF field > PAYMENT THEN tx.lengths[PAYMENT] ELSE 0)
              + (IF field > BULLETIN THEN tx.lengths[BULLETIN] ELSE 0)
              + (IF field > AUTH_PROOF THEN tx.lengths[AUTH_PROOF] ELSE 0)

\* A getter returned the bytes of its field, all of them within the transaction.
ReadsField(tx, field, slice) ==
    \/ tx.lengths[field] = 0 /\ slice = NoBytes
    \/ /\ slice = [err |-> FALSE, from |-> OffsetOf(tx, field),
                   to |-> OffsetOf(tx, field) + tx.lengths[field]]
       /\ slice.to <= tx.len

ReadsAllFields(tx) ==
    /\ ReadsField(tx, PAYMENT, GetStochasticPaymentBytes(tx))
    /\ ReadsField(tx, BULLETIN, GetBulletinBytes(tx))
    /\ ReadsField(tx, AUTH_PROOF, GetAuthProofBytes(tx))
    /\ ReadsField(tx, AUTH_CHALLENGE, GetAuthChallengeBytes(tx))
=============================================================================
