------------------------------ MODULE AuthProof ------------------------------
(***************************************************************************)
(* Who may comment on a bulletin or write in a column (src/proto/auth.go,    *)
(* src/utils/cryptoutils/merkle.go). An AuthChallenge numbers its conditions *)
(* (to satisfy a contract's call, to be in a set of addresses, to pay) and   *)
(* lists groups of numbers: one group must hold as a whole. An AuthProof is  *)
(* the challenge with the evidence for its conditions.                      *)
(*                                                                          *)
(* A hash is a term: <<address>> for a leaf, and the sequence of the pairs   *)
(* that were written to the hash function for any other one.                *)
(***************************************************************************)
EXTENDS Integers, Sequences, FiniteSetsExt

-----------------------------------------------------------------------------
(* Merkle proofs.                                                           *)

CalculateHash(address) == <<address>>

\* The library hashes each pair with a new hash function; a pair is sorted first.
HashOfPair(a, b) == <<{a, b}>>

\* Each pair is written after the ones before it: Sum does not reset the function.
HashOfPath(address, path) ==
    LET written[i \in 1 .. Len(path)] ==
            IF i = 1 THEN <<{CalculateHash(address), path[1]}>>
            ELSE Append(written[i - 1], {written[i - 1], path[i]})
    IN  IF path = << >> THEN CalculateHash(address) ELSE written[Len(path)]

VerifyContentExternal(address, root, path) == HashOfPath(address, path) = root

-----------------------------------------------------------------------------
(* The conditions of a proof.                                               *)

IsSeq(list) == list \in Seq(Range(list))

\* The lists of an AuthProof, of whatever.
IsProof(proof) ==
    /\ IsSeq(proof.dynamic) /\ IsSeq(proof.static) /\ IsSeq(proof.pays) /\ IsSeq(proof.groups)
    /\ \A i \in DOMAIN proof.static : IsSeq(proof.static[i].path)
    /\ \A g \in DOMAIN proof.groups : IsSeq(proof.groups[g])

NoProof == [dynamic |-> << >>, static |-> << >>, pays |-> << >>, groups |-> << >>]

\* The challenge that a proof answers: its evidence is left out.
GenerateAuthChallenge(proof) ==
    [dynamic |-> [i \in DOMAIN proof.dynamic |-> proof.dynamic[i].call],
     roots |-> [i \in DOMAIN proof.static |-> proof.static[i].root],
     pays |-> proof.pays,
     groups |-> proof.groups]

Dynamics(proof) == Len(proof.dynamic)
Statics(proof) == Len(proof.static)

\* As many payments as sets: the third loop ranges over the sets again.
NumberOfPays(proof) == Statics(proof)

ConditionType(proof, number) ==
    LET firstSet == Dynamics(proof) + 1
        firstPay == firstSet + Statics(proof)
    IN  CASE number \in 1 .. firstSet - 1 -> "dynamic"
          [] number \in firstSet .. firstPay - 1 -> "static"
          [] number \in firstPay .. firstPay + NumberOfPays(proof) - 1 -> "pay"
          [] OTHER -> "none"

Verdict(holds) == IF holds THEN "yes" ELSE "no"

\* Whether the signature is the authenticator's or not, the answer is no.
checkDynamicProof(proof, number) == "no"

\* The path is checked against the root of the first set.
checkStaticProof_First(proof, number, from) ==
    LET set == proof.static[number - Dynamics(proof)]
    IN  Verdict(VerifyContentExternal(from, proof.static[1].root, set.path))

checkStaticProof(proof, number, from) ==
    LET set == proof.static[number - Dynamics(proof)]
    IN  Verdict(VerifyContentExternal(from, set.root, set.path))

\* A number beyond the list of payments indexes it out of its range.
checkStochasticPaymentCondition(proof, number, pay) ==
    LET i == number - Dynamics(proof) - Statics(proof)
    IN  IF proof.pays = << >> /\ proof.groups[3] = << >> THEN "yes"
        ELSE IF i > Len(proof.pays) THEN "panic"
        ELSE Verdict(proof.pays[i] = pay)

checkProof(proof, number, from, pay) ==
    CASE ConditionType(proof, number) = "dynamic" -> checkDynamicProof(proof, number)
      [] ConditionType(proof, number) = "static" -> checkStaticProof(proof, number, from)
      [] ConditionType(proof, number) = "pay" ->
            checkStochasticPaymentCondition(proof, number, pay)
      [] OTHER -> "no"

\* A group ends with the first condition that does not hold.
checkGroup(proof, group, from, pay) ==
    LET verdict(i) == checkProof(proof, group[i], from, pay)
        failed == {i \in DOMAIN group : verdict(i) # "yes"}
    IN  IF failed = {} THEN "yes" ELSE verdict(Min(failed))

\* A group that is as good as its last condition.
CheckAuthProof_Last(proof, from, pay) ==
    IF Len(proof.groups) # 3 THEN "no"
    ELSE LET verdicts == {checkProof(proof, proof.groups[g][Len(proof.groups[g])], from, pay) :
                            g \in {h \in 1 .. 3 : proof.groups[h] # << >>}}
         IN  IF "panic" \in verdicts THEN "panic" ELSE Verdict("yes" \in verdicts)

\* All groups are looked at, the empty ones skipped; one that holds is enough.
CheckAuthProof(proof, from, pay) ==
    IF Len(proof.groups) # 3 THEN "no"
    ELSE LET verdicts == {checkGroup(proof, proof.groups[g], from, pay) :
                            g \in {h \in 1 .. 3 : proof.groups[h] # << >>}}
         IN  IF "panic" \in verdicts THEN "panic" ELSE Verdict("yes" \in verdicts)
=============================================================================
