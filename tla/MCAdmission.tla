----------------------------- MODULE MCAdmission -----------------------------
(***************************************************************************)
(* Small instances of Admission for TLC.                                    *)
(***************************************************************************)
EXTENDS Admission

CONSTANTS a, b, c, d    \* addresses

\* The sets of one, two and four addresses.
Alone == [root |-> CalculateHash(a), paths |-> [m \in {a} |-> << >>]]
SetOfTwo(m, n) ==
    [root |-> HashOfPair(CalculateHash(m), CalculateHash(n)),
     paths |-> [i \in {m, n} |-> <<CalculateHash(IF i = m THEN n ELSE m)>>]]
Pair == SetOfTwo(a, b)
OtherPair == SetOfTwo(c, d)
Four == [root |-> HashOfPair(Pair.root, OtherPair.root),
         paths |-> [m \in {a, b, c, d} |-> IF m \in {a, b}
                                           THEN Pair.paths[m] \o <<OtherPair.root>>
                                           ELSE OtherPair.paths[m] \o <<Pair.root>>]]
MCTrees == {Alone, Pair, OtherPair, Four}

Template ==
    [layout |-> CreateGanyTx([f \in Fields |-> 1]), payOk |-> TRUE, bulletinOk |-> TRUE,
     type |-> "BLOG", from |-> a, named |-> {}, proof |-> NoProof, pay |-> 0]

\* A comment with the proof's own challenge.
Comment(from, pay, proof) ==
    [Template EXCEPT !.type = "COMMENT", !.from = from, !.pay = pay, !.proof = proof,
                     !.named = {GenerateAuthChallenge(proof)}]

\* Proofs with up to one call, two sets and two payments.
Calls == {[call |-> 1, signed |-> TRUE], [call |-> 1, signed |-> FALSE]}
Paths == {<< >>, Pair.paths[a], Pair.paths[b], Four.paths[a]}
Sets == [root : {t.root : t \in MCTrees}, path : Paths]
SetLists == {<< >>} \cup {<<s>> : s \in Sets}
            \cup {<<[root |-> Alone.root, path |-> << >>], s>> :
                    s \in {t \in Sets : t.root = Pair.root}}
Groups == {<< >>, <<1>>, <<2>>, <<3>>, <<1, 2>>, <<3, 1>>, <<4, 1>>}

Proofs == [dynamic : {<< >>} \cup {<<call>> : call \in Calls},
           static : SetLists,
           pays : {<< >>, <<1>>, <<1, 2>>},
           groups : {<<g, h, << >> >> : g \in Groups, h \in {<< >>, <<2>>}}
                    \cup {<< << >>, << >>, g>> : g \in Groups}
                    \cup {<< <<1>>, <<1>> >>}]

SimpleProof == [dynamic |-> << >>, static |-> <<[root |-> Alone.root, path |-> << >>]>>,
                pays |-> << >>, groups |-> << <<1>>, << >>, << >> >>]

\* Any lengths, in transactions of any size.
Tampered == {[Template EXCEPT !.layout = layout] : layout \in Layout}

Invalid == {[Template EXCEPT !.payOk = FALSE], [Template EXCEPT !.bulletinOk = FALSE]}

\* The topic names another challenge, or is too short to name one.
Misnamed ==
    {[Comment(a, 0, SimpleProof) EXCEPT !.type = "COLUMN", !.named = named] :
        named \in {{}, {GenerateAuthChallenge([SimpleProof EXCEPT !.static =
                            <<[root |-> Pair.root, path |-> << >>]>>])},
                   {GenerateAuthChallenge([SimpleProof EXCEPT !.static =
                            <<[root |-> OtherPair.root, path |-> << >>]>>])}}}

WithProofs == {Comment(from, pay, proof) : from \in {a, c}, pay \in 1 .. 2, proof \in Proofs}

MCRequests == Tampered \cup Invalid \cup Misnamed \cup WithProofs
=============================================================================
