----------------------------- MODULE MCMockChain -----------------------------
(***************************************************************************)
(* A small instance of MockChain for TLC.                                   *)
(***************************************************************************)
EXTENDS MockChain

CONSTANTS
    p, q, v, main, poor, nobody,    \* addresses
    c, d,                           \* contents
    auth                            \* the bulletins ask for no authentication

MCAddrs == {main, v, poor, nobody}
MCPrefix == [x \in 1 .. 2 \cup MCAddrs |-> x]

MCDelegated == (main :> p) @@ (v :> v) @@ (poor :> q)
MCFirstWallets == (p :> [nonces |-> 0, balance |-> 600])
                  @@ (v :> [nonces |-> 0, balance |-> 2])
MCValidatorKey == <<7, 1>>
MCValidatorList == << <<2, 5>>, <<3, 7>> >>
OtherList == << <<2, 5>> >>
MCBeta == <<1, 2>>
MCTopicHash == [t \in 1 .. 2 |-> 10 + t]

Payment(payee, a, b, nonces, prob, list) ==
    [root |-> genValidatorPubKeysMerkleTree(list), dueTime |-> 1, prob |-> prob,
     nonces |-> nonces, payee |-> payee, amountToPayee |-> a, amountToValidator |-> b,
     signature |-> << >>]

Signed(sp, key) ==
    [sp EXCEPT !.signature =
        SignWithEIP712Hash(GetTypedDataHash(GenEIP712MsgForAB(sp)), key, 0)]

\* The bulletins of an author have one type and one second. Created at 1, they are gone
\* at 2.
Bulletin(author, topic, oldSn, content) ==
    [type |-> 0, topic |-> topic, timestamp |-> 1, duration |-> 2, oldSn |-> oldSn,
     from |-> author, content |-> content, auth |-> auth]

First == Bulletin(main, 1, NoSn, c)

\* Another creation of the same second, a version and a deletion of either, and nothing.
Later ==
    {Bulletin(main, 1, NoSn, d), Bulletin(main, 1, <<1, 0>>, d),
     Bulletin(main, 1, <<1, 0>>, NoContent), Bulletin(main, 1, NoSn, NoContent)}

Request(bulletin, sp) == [tx |-> bulletin, sp |-> sp]

\* Payments to oneself, to nobody, to the validator, and by the validator.
Usual ==
    {Request(First, Signed(Payment(p, <<0, 200>>, <<1>>, n, 600, MCValidatorList), p)) :
        n \in 0 .. 2}
    \cup {Request(b, Signed(Payment(v, <<0, 100>>, <<1>>, n, 600, MCValidatorList), p)) :
            b \in Later, n \in 1 .. 2}
    \cup {Request(Bulletin(main, 2, NoSn, c),
                  Signed(Payment(NoAddress, <<0>>, <<1>>, 0, 600, MCValidatorList), p)),
          Request(Bulletin(v, 1, NoSn, c),
                  Signed(Payment(v, <<1>>, <<1>>, 0, 600, MCValidatorList), v))}

\* The draw decides, the list is another one, or the payer has no wallet.
Unusual ==
    {Request(First, Signed(Payment(NoAddress, <<0>>, <<1>>, 0, prob, list), p)) :
        prob \in {1, 300}, list \in {MCValidatorList}}
    \cup {Request(First, Signed(Payment(NoAddress, <<0>>, <<1>>, 0, 600, OtherList), p))}
    \cup {Request(Bulletin(poor, 1, NoSn, c),
                  Signed(Payment(NoAddress, <<0>>, <<b>>, 0, 600, MCValidatorList), q)) :
            b \in 0 .. 1}

\* Amounts without bytes, or with too many.
Lengths ==
    {Request(First, Signed(Payment(q, a, b, 0, 600, MCValidatorList), p)) :
        a \in {<< >>, <<0, 1>>, <<0, 1, 0>>}, b \in {<< >>, <<1>>, <<1, 255>>, <<0, 0, 1>>}}

\* A field is changed after the signature, or the signature is another's.
Tampered ==
    LET sp == Signed(Payment(p, <<0>>, <<1>>, 0, 600, MCValidatorList), p)
    IN  {Request(First, [sp EXCEPT !.amountToPayee = <<1>>]),
         Request(First, [sp EXCEPT !.payee = q]),
         Request(First, [sp EXCEPT !.signature.v = 28]),
         Request(First, [sp EXCEPT !.signature.v = 0]),
         Request(First, Signed(sp, q)),
         Request(Bulletin(nobody, 1, NoSn, c), sp)}

MCRequests == Usual \cup Unusual \cup Lengths \cup Tampered
=============================================================================
