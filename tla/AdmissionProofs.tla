---------------------------- MODULE AdmissionProofs ----------------------------
(***************************************************************************)
(* Which transactions are let in: proofs for all lengths and all widths of a *)
(* length, and for all challenges, groups, sets and paths.                   *)
(***************************************************************************)
EXTENDS Admission, FiniteSetTheorems, TLAPS

-----------------------------------------------------------------------------
(* Numbers, and the recursion of a hash.                                    *)

\* Numbers are well ordered.
LEMMA FirstNumber ==
    ASSUME NEW T \in SUBSET Nat, T # {}
    PROVE  \E n \in T : \A m \in T : n <= m
<1>1. PICK k \in T : TRUE
  OBVIOUS
<1> DEFINE U == {0 .. m : m \in {j \in T : j <= k}}
           R == StrictSubsetOrdering(0 .. k)
<1>2. IsWellFoundedOn(R, FiniteSubsetsOf(0 .. k))
  BY FS_StrictSubsetOrderingWellFounded
<1>3. U \subseteq FiniteSubsetsOf(0 .. k) /\ U # {}
  <2>1. \A m \in T : IsFiniteSet(0 .. m)
    BY FS_Interval
  <2>2. \A m \in T : m <= k => 0 .. m \subseteq 0 .. k
    BY <1>1
  <2>3. 0 .. k \in U
    BY <1>1
  <2> QED BY <2>1, <2>2, <2>3 DEF FiniteSubsetsOf
<1>4. PICK x \in U : \A y \in U : <<y, x>> \notin R
  <2> HIDE DEF U, R
  <2> QED BY <1>2, <1>3, WFMin
<1>5. PICK n \in T : n <= k /\ x = 0 .. n
  OBVIOUS
<1>6. ASSUME NEW m \in T, m < n PROVE FALSE
  <2>1. m <= k /\ 0 .. m \in U
    BY <1>1, <1>5, <1>6
  <2>2. /\ 0 .. m \in SUBSET (0 .. k) /\ 0 .. n \in SUBSET (0 .. k)
        /\ 0 .. m \subseteq 0 .. n /\ 0 .. m # 0 .. n
    BY <1>1, <1>5, <1>6, <2>1
  <2>3. <<0 .. m, 0 .. n>> \in R
    BY <2>2 DEF StrictSubsetOrdering
  <2> QED BY <1>4, <1>5, <2>1, <2>3
<1> QED BY <1>6
\* What Sum has written after each pair of a path: the recursion of HashOfPath.
WrittenAfter(w, i, address, path) ==
    IF i = 1 THEN <<{CalculateHash(address), path[1]}>>
    ELSE Append(w[i - 1], {w[i - 1], path[i]})

Writes(w, n, address, path) == w = [i \in 1 .. n |-> WrittenAfter(w, i, address, path)]

\* Sum's recursion has a result for a path of every length.
LEMMA WrittenExists ==
    ASSUME NEW address, NEW path, Len(path) \in Nat
    PROVE  \E w : Writes(w, Len(path), address, path)
<1> DEFINE T == {n \in 0 .. Len(path) : ~ \E w : Writes(w, n, address, path)}
<1>1. SUFFICES ASSUME T # {} PROVE FALSE
  OBVIOUS
<1>2. PICK n \in T : \A m \in T : n <= m
  <2>1. T \in SUBSET Nat
    OBVIOUS
  <2> HIDE DEF T
  <2> QED BY <1>1, <2>1, FirstNumber
<1>3. n # 0
  <2>1. Writes([i \in 1 .. 0 |-> 0], 0, address, path)
    BY DEF Writes
  <2> QED BY <2>1
<1>4. PICK w : Writes(w, n - 1, address, path)
  <2>1. n - 1 \in 0 .. Len(path) /\ ~ (n <= n - 1)
    BY <1>3
  <2>2. n - 1 \notin T
    BY ONLY <1>2, <2>1
  <2> QED BY <2>1, <2>2
<1> DEFINE v == [i \in 1 .. n |-> IF i < n THEN w[i] ELSE WrittenAfter(w, n, address, path)]
<1>5. ASSUME NEW i \in 1 .. n PROVE v[i] = WrittenAfter(v, i, address, path)
  <2>1. i # 1 => v[i - 1] = w[i - 1]
    BY <1>3
  <2>2. v[i] = WrittenAfter(w, i, address, path)
    <3>1. CASE i = n
      BY <3>1
    <3>2. CASE i < n
      <4>1. i \in 1 .. n - 1
        BY <3>2, <1>3
      <4> QED BY <1>4, <3>2, <4>1 DEF Writes
    <3> QED BY <3>1, <3>2
  <2> HIDE DEF v
  <2> QED BY <2>1, <2>2 DEF WrittenAfter
<1>6. Writes(v, n, address, path)
  <2>1. v = [i \in 1 .. n |-> v[i]]
    OBVIOUS
  <2> HIDE DEF v
  <2> QED BY <1>5, <2>1 DEF Writes
<1> QED BY <1>2, <1>6

\* The hash of a path of two or more has as many parts as the path: it is no root.
LEMMA HashOfLongPath ==
    ASSUME NEW address, NEW path, Len(path) \in Nat
    PROVE  /\ path = << >> => HashOfPath(address, path) = CalculateHash(address)
           /\ Len(path) = 1 => HashOfPath(address, path) = HashOfPair(CalculateHash(address), path[1])
           /\ Len(path) > 1 => \A x : HashOfPath(address, path) # <<x>>
<1> DEFINE w == CHOOSE f : Writes(f, Len(path), address, path)
<1>1. Writes(w, Len(path), address, path)
  BY WrittenExists
<1>2. HashOfPath(address, path) = IF path = << >> THEN CalculateHash(address) ELSE w[Len(path)]
  BY DEF HashOfPath, Writes, WrittenAfter
<1> HIDE DEF w
<1>3. \A i \in 1 .. Len(path) : w[i] = WrittenAfter(w, i, address, path)
  BY <1>1 DEF Writes
<1>4. ASSUME Len(path) = 1
      PROVE HashOfPath(address, path) = HashOfPair(CalculateHash(address), path[1])
  BY <1>2, <1>3, <1>4 DEF HashOfPair, WrittenAfter
<1> DEFINE Long(i) == \E S : w[i] \in Seq(S) /\ Len(w[i]) = i
           T == {i \in 1 .. Len(path) : ~ Long(i)}
<1>5. T = {}
  <2> SUFFICES ASSUME T # {} PROVE FALSE
    OBVIOUS
  <2>1. PICK i \in T : \A j \in T : i <= j
    <3>1. T \in SUBSET Nat
      OBVIOUS
    <3> HIDE DEF T
    <3> QED BY <3>1, FirstNumber
  <2>2. i # 1
    <3> DEFINE x == {CalculateHash(address), path[1]}
    <3>1. <<x>> \in Seq({x}) /\ Len(<<x>>) = 1
      OBVIOUS
    <3>2. i = 1 => w[i] = <<x>>
      BY <1>3 DEF WrittenAfter
    <3> HIDE DEF x
    <3>3. i = 1 => Long(i)
      BY <3>1, <3>2
    <3> QED BY <3>3
  <2>3. Long(i - 1)
    <3>1. i - 1 \in 1 .. Len(path) /\ ~(i <= i - 1)
      BY <2>2
    <3>2. i - 1 \notin T
      BY ONLY <2>1, <3>1
    <3> QED BY <3>1, <3>2
  <2>4. PICK S : w[i - 1] \in Seq(S) /\ Len(w[i - 1]) = i - 1
    BY <2>3
  <2>5. w[i] = Append(w[i - 1], {w[i - 1], path[i]})
    BY <1>3, <2>2 DEF WrittenAfter
  <2> DEFINE U == S \cup {{w[i - 1], path[i]}}
  <2>6. w[i - 1] \in Seq(U) /\ {w[i - 1], path[i]} \in U
    BY <2>4
  <2>7. w[i] \in Seq(U) /\ Len(w[i]) = i
    BY <2>4, <2>5, <2>6
  <2> QED BY <2>7
<1>6. ASSUME Len(path) > 1, NEW x PROVE HashOfPath(address, path) # <<x>>
  <2>1. Len(path) \in 1 .. Len(path) /\ path # << >>
    BY <1>6
  <2>2. Long(Len(path))
    BY <1>5, <2>1
  <2> DEFINE one == <<x>>
  <2>3. Len(one) = 1
    OBVIOUS
  <2>4. Len(w[Len(path)]) # 1
    <3>1. Len(w[Len(path)]) = Len(path)
      BY <2>2
    <3>2. \A n \in Nat : n > 1 => n # 1
      OBVIOUS
    <3>3. Len(path) # 1
      BY <1>6, <3>2
    <3> QED BY <3>1, <3>3
  <2>5. HashOfPath(address, path) = w[Len(path)]
    BY <1>2, <2>1
  <2> HIDE DEF one
  <2>6. HashOfPath(address, path) # one
    BY <2>3, <2>4, <2>5
  <2> QED BY <2>6 DEF one
<1> QED BY <1>2, <1>4, <1>6
-----------------------------------------------------------------------------
(* The verdict on a proof.                                                  *)

\* The first condition that fails is one of the group.
LEMMA FirstFailedFails ==
    ASSUME NEW group, IsSeq(group), NEW failed \in SUBSET DOMAIN group, failed # {}
    PROVE  Min(failed) \in failed
<1>1. failed \in SUBSET Nat
  BY DEF IsSeq
<1>2. \E i \in failed : \A j \in failed : i <= j
  BY <1>1, FirstNumber
<1> QED BY <1>2 DEF Min

\* A group gets the verdict of one of its conditions, or yes if all of them get it.
LEMMA VerdictOfGroup ==
    ASSUME NEW proof, NEW from, NEW pay, NEW group, IsSeq(group)
    PROVE  LET verdict(i) == checkProof(proof, group[i], from, pay)
           IN  \/ /\ \A i \in DOMAIN group : verdict(i) = "yes"
                  /\ checkGroup(proof, group, from, pay) = "yes"
               \/ \E i \in DOMAIN group :
                    verdict(i) # "yes" /\ checkGroup(proof, group, from, pay) = verdict(i)
<1> DEFINE failed == {i \in DOMAIN group : checkProof(proof, group[i], from, pay) # "yes"}
<1>1. CASE failed = {}
  BY <1>1 DEF checkGroup
<1>2. CASE failed # {}
  <2>1. Min(failed) \in failed
    BY <1>2, FirstFailedFails
  <2>2. checkGroup(proof, group, from, pay) = checkProof(proof, group[Min(failed)], from, pay)
    BY <1>2 DEF checkGroup
  <2> QED BY <2>1, <2>2
<1> QED BY <1>1, <1>2

\* Yes is said for a group that is not empty and holds as a whole.
LEMMA YesIsForOneGroup ==
    ASSUME NEW proof, IsProof(proof), NEW from, NEW pay,
           CheckAuthProof(proof, from, pay) = "yes"
    PROVE  \E g \in DOMAIN proof.groups :
              /\ proof.groups[g] # << >>
              /\ \A i \in DOMAIN proof.groups[g] :
                    checkProof(proof, proof.groups[g][i], from, pay) = "yes"
<1>1. Len(proof.groups) = 3 /\ DOMAIN proof.groups = 1 .. 3
  BY DEF CheckAuthProof, IsProof, IsSeq
<1>2. PICK g \in 1 .. 3 : /\ proof.groups[g] # << >>
                          /\ checkGroup(proof, proof.groups[g], from, pay) = "yes"
  BY <1>1 DEF CheckAuthProof, Verdict
<1>3. IsSeq(proof.groups[g])
  BY <1>1 DEF IsProof
<1> QED BY <1>1, <1>2, <1>3, VerdictOfGroup

\* Who has one such group is told yes, if no condition of any group panics.
LEMMA OneGroupIsEnough ==
    ASSUME NEW proof, IsProof(proof), NEW from, NEW pay,
           Len(proof.groups) = 3,
           \A g \in DOMAIN proof.groups : \A i \in DOMAIN proof.groups[g] :
              checkProof(proof, proof.groups[g][i], from, pay) # "panic",
           NEW g \in DOMAIN proof.groups, proof.groups[g] # << >>,
           \A i \in DOMAIN proof.groups[g] :
              checkProof(proof, proof.groups[g][i], from, pay) = "yes"
    PROVE  CheckAuthProof(proof, from, pay) = "yes"
<1> DEFINE verdicts == {checkGroup(proof, proof.groups[h], from, pay) :
                          h \in {k \in 1 .. 3 : proof.groups[k] # << >>}}
<1>1. DOMAIN proof.groups = 1 .. 3
  BY DEF IsProof, IsSeq
<1>2. \A h \in 1 .. 3 : IsSeq(proof.groups[h])
  BY <1>1 DEF IsProof
<1>3. checkGroup(proof, proof.groups[g], from, pay) = "yes"
  BY <1>1, <1>2, VerdictOfGroup
<1>4. \A h \in 1 .. 3 : checkGroup(proof, proof.groups[h], from, pay) # "panic"
  <2> SUFFICES ASSUME NEW h \in 1 .. 3
               PROVE  checkGroup(proof, proof.groups[h], from, pay) # "panic"
    OBVIOUS
  <2> QED BY <1>1, <1>2, VerdictOfGroup
<1>5. "yes" \in verdicts /\ "panic" \notin verdicts
  BY <1>1, <1>3, <1>4
<1> HIDE DEF verdicts
<1>6. CheckAuthProof(proof, from, pay) =
        IF "panic" \in verdicts THEN "panic" ELSE Verdict("yes" \in verdicts)
  BY DEF CheckAuthProof, verdicts
<1> QED BY <1>5, <1>6 DEF Verdict

-----------------------------------------------------------------------------
(* Who is let in.                                                           *)

Addresses == {r.from : r \in Requests} \cup UNION {DOMAIN tree.paths : tree \in Trees}

\* What the properties of the hash function come to here: nobody has an address that is
\* also a pair of hashes.
AddressesAreNoPairs == \A m \in Addresses : \A first, second : m # {first, second}

\* The root of a tree is the leaf of its only member, or is made of the two below it;
\* whoever has a leaf there is a member.
MerkleRoot(tree) ==
    \/ \E m \in DOMAIN tree.paths : tree.root = CalculateHash(m)
    \/ \E first, second :
        /\ tree.root = HashOfPair(first, second)
        /\ \A m \in Addresses : CalculateHash(m) \in {first, second} => m \in DOMAIN tree.paths

\* Topics name the sets that somebody made.
NamedSetsExist ==
    \A r \in Requests : \A challenge \in r.named : \A i \in DOMAIN challenge.roots :
        \E tree \in Trees : tree.root = challenge.roots[i]

\* No other path than a member's leads to a root, short or long: what is hashed of a path
\* of two or more has the form of no root at all.
LEMMA OnlyMembersReachTheRoot ==
    ASSUME AddressesAreNoPairs,
           NEW r \in Requests, NEW tree \in Trees, MerkleRoot(tree),
           NEW path, IsSeq(path), VerifyContentExternal(r.from, tree.root, path)
    PROVE  r.from \in DOMAIN tree.paths
<1>1. Len(path) \in Nat /\ (Len(path) = 0 => path = << >>)
  BY DEF IsSeq
<1>2. HashOfPath(r.from, path) = tree.root /\ r.from \in Addresses
  BY DEF VerifyContentExternal, Addresses
<1>3. PICK x : tree.root = <<x>>
  BY DEF MerkleRoot, CalculateHash, HashOfPair
<1>4. Len(path) \in {0, 1}
  <2>1. ~(Len(path) > 1)
    BY <1>1, <1>2, <1>3, HashOfLongPath
  <2>2. \A n \in Nat : n > 1 \/ n = 0 \/ n = 1
    OBVIOUS
  <2> QED BY <1>1, <2>1, <2>2, Zenon
<1>5. CASE path = << >>
  <2>1. tree.root = CalculateHash(r.from)
    BY <1>1, <1>2, <1>5, HashOfLongPath
  <2>2. ASSUME NEW m \in DOMAIN tree.paths, tree.root = CalculateHash(m)
        PROVE  r.from = m
    BY <2>1, <2>2 DEF CalculateHash
  <2>3. ASSUME NEW first, NEW second, tree.root = HashOfPair(first, second)
        PROVE  FALSE
    <3>1. r.from = {first, second}
      BY <2>1, <2>3 DEF CalculateHash, HashOfPair
    <3> QED BY <1>2, <3>1 DEF AddressesAreNoPairs
  <2> QED BY <2>2, <2>3 DEF MerkleRoot
<1>6. CASE Len(path) = 1
  <2>1. tree.root = HashOfPair(CalculateHash(r.from), path[1])
    BY <1>1, <1>2, <1>6, HashOfLongPath
  <2>2. ASSUME NEW m \in DOMAIN tree.paths, tree.root = CalculateHash(m)
        PROVE  FALSE
    <3>1. m = {CalculateHash(r.from), path[1]}
      BY <2>1, <2>2 DEF CalculateHash, HashOfPair
    <3>2. m \in Addresses
      BY DEF Addresses
    <3> QED BY <3>1, <3>2 DEF AddressesAreNoPairs
  <2>3. ASSUME NEW first, NEW second, tree.root = HashOfPair(first, second)
        PROVE  CalculateHash(r.from) \in {first, second}
    <3> DEFINE leaf == CalculateHash(r.from)
    <3> HIDE DEF leaf
    <3>1. {leaf, path[1]} = {first, second}
      BY <2>1, <2>3 DEF HashOfPair, leaf
    <3>2. leaf \in {first, second}
      BY <3>1
    <3> QED BY <3>2 DEF leaf
  <2> QED BY <1>2, <2>2, <2>3 DEF MerkleRoot
<1> QED BY <1>1, <1>4, <1>5, <1>6

\* The challenge of a proof has a condition for every piece of evidence.
LEMMA ChallengeOfProof ==
    ASSUME NEW proof, IsProof(proof)
    PROVE  LET challenge == GenerateAuthChallenge(proof)
           IN  /\ Len(challenge.dynamic) = Dynamics(proof) /\ Dynamics(proof) \in Nat
               /\ Len(challenge.roots) = Statics(proof) /\ Statics(proof) \in Nat
               /\ DOMAIN challenge.roots = 1 .. Statics(proof)
               /\ DOMAIN proof.static = 1 .. Statics(proof)
               /\ \A i \in 1 .. Statics(proof) : challenge.roots[i] = proof.static[i].root
               /\ challenge.pays = proof.pays /\ Len(proof.pays) \in Nat
               /\ challenge.groups = proof.groups
<1>1. /\ DOMAIN proof.dynamic = 1 .. Dynamics(proof) /\ Dynamics(proof) \in Nat
      /\ DOMAIN proof.static = 1 .. Statics(proof) /\ Statics(proof) \in Nat
      /\ Len(proof.pays) \in Nat
  BY DEF IsProof, IsSeq, Dynamics, Statics
<1> QED BY <1>1 DEF GenerateAuthChallenge

\* A condition that is found to hold does hold: of the three types, no contract's call is.
LEMMA ConditionsHold ==
    ASSUME AddressesAreNoPairs, \A tree \in Trees : MerkleRoot(tree), NamedSetsExist,
           NEW r \in Requests, GenerateAuthChallenge(r.proof) \in r.named,
           NEW number,
           number \in 1 .. Dynamics(r.proof) + Statics(r.proof) + Len(r.proof.pays),
           checkProof(r.proof, number, r.from, r.pay) = "yes"
    PROVE  Holds(GenerateAuthChallenge(r.proof), number, r)
<1> DEFINE proof == r.proof
           challenge == GenerateAuthChallenge(proof)
           calls == Dynamics(proof)
           sets == Statics(proof)
           pays == Len(proof.pays)
<1>1. IsProof(proof)
  BY AdmissionAssumption
<1>2. /\ Len(challenge.dynamic) = calls /\ calls \in Nat
      /\ Len(challenge.roots) = sets /\ sets \in Nat
      /\ DOMAIN challenge.roots = 1 .. sets /\ DOMAIN proof.static = 1 .. sets
      /\ \A i \in 1 .. sets : challenge.roots[i] = proof.static[i].root
      /\ challenge.pays = proof.pays /\ pays \in Nat
      /\ number \in 1 .. calls + sets + pays
  BY <1>1, ChallengeOfProof
<1>3. CASE number \in 1 .. calls
  <2>1. ConditionType(proof, number) = "dynamic"
    BY <1>2, <1>3 DEF ConditionType
  <2> QED BY <2>1 DEF checkProof, checkDynamicProof
<1>4. CASE number \in calls + 1 .. calls + sets
  <2>1. ConditionType(proof, number) = "static"
    BY <1>2, <1>4 DEF ConditionType
  <2> DEFINE set == proof.static[number - calls]
  <2>2. number - calls \in 1 .. sets
    BY <1>2, <1>4
  <2>3. VerifyContentExternal(r.from, set.root, set.path)
    BY <2>1 DEF checkProof, checkStaticProof, Verdict
  <2>4. PICK tree \in Trees : tree.root = set.root
    <3>1. challenge \in r.named /\ number - calls \in DOMAIN challenge.roots
      BY <1>2, <2>2
    <3>2. challenge.roots[number - calls] = set.root
      BY <1>2, <2>2
    <3> HIDE DEF challenge, set, calls
    <3> QED BY <3>1, <3>2 DEF NamedSetsExist
  <2>5. IsSeq(set.path)
    BY <1>1, <1>2, <2>2 DEF IsProof
  <2>6. r.from \in DOMAIN tree.paths
    BY <2>3, <2>4, <2>5, OnlyMembersReachTheRoot
  <2>7. tree.root = challenge.roots[number - calls]
    BY <1>2, <2>2, <2>4
  <2> QED BY <1>2, <1>4, <2>6, <2>7 DEF Holds
<1>5. CASE number \in calls + sets + 1 .. calls + sets + pays
  <2>1. ConditionType(proof, number) \in {"pay", "none"}
    BY <1>2, <1>5 DEF ConditionType
  <2>2. number - calls - sets \in 1 .. pays /\ pays # 0
    <3> HIDE DEF calls, sets, pays
    <3> QED BY <1>2, <1>5
  <2>3. proof.pays[number - calls - sets] = r.pay
    BY <2>1, <2>2 DEF checkProof, checkStochasticPaymentCondition, Verdict
  <2> QED BY <1>2, <1>5, <2>3 DEF Holds
<1> QED BY <1>2, <1>3, <1>4, <1>5


\* What CheckAuth has seen of a transaction that it lets in.
AuthorisedWasChecked ==
    /\ request \in Requests
    /\ stage \in {"authorised", "stored"} /\ NeedsAuth(request) =>
        LET proof == GetAuthProof(request)
        IN  /\ GenerateAuthChallenge(proof) \in request.named
            /\ CheckAuthProof(proof, request.from, request.pay) = "yes"

\* Whoever is let in has fulfilled a whole group of a challenge that the topic names
\* (backend.go:325-356, proto/auth.go:47-108), for all challenges, groups, sets and paths:
\* what is left to believe is that topics name sets that exist, that a root is made of
\* two hashes or one, and that no address is a pair of hashes.
THEOREM WhoIsLetInIsEntitled ==
    ASSUME AddressesAreNoPairs, \A tree \in Trees : MerkleRoot(tree), NamedSetsExist
    PROVE  Spec => []AcceptedIsEntitled
<1>1. Init => AuthorisedWasChecked
  BY DEF Init, AuthorisedWasChecked
<1>2. AuthorisedWasChecked /\ [Next]_vars => AuthorisedWasChecked'
  <2> SUFFICES ASSUME AuthorisedWasChecked, [Next]_vars PROVE AuthorisedWasChecked'
    OBVIOUS
  <2>1. CASE CheckTx
    BY <2>1 DEF CheckTx, AuthorisedWasChecked
  <2>2. CASE CheckAuth
    <3> DEFINE proof == GetAuthProof(request)
               verdict == CheckAuthProof(proof, request.from, request.pay)
    <3>1. verdict \in {"yes", "no", "panic"}
      BY DEF CheckAuthProof, Verdict
    <3>2. request' = request /\ request \in Requests
      BY <2>2 DEF CheckAuth, AuthorisedWasChecked
    <3> HIDE DEF verdict
    <3>3. AuthStage[verdict] \in {"authorised", "stored"} => verdict = "yes"
      BY <3>1 DEF AuthStage
    <3>4. stage' \in {"authorised", "stored"} /\ NeedsAuth(request) =>
            GenerateAuthChallenge(proof) \in request.named /\ verdict = "yes"
      BY <2>2, <3>3 DEF CheckAuth, verdict
    <3> QED BY <3>2, <3>4 DEF AuthorisedWasChecked, verdict
  <2>3. CASE DeliverTx
    BY <2>3 DEF DeliverTx, AuthorisedWasChecked
  <2>4. CASE UNCHANGED vars
    BY <2>4 DEF vars, AuthorisedWasChecked
  <2> QED BY <2>1, <2>2, <2>3, <2>4 DEF Next
<1>3. AuthorisedWasChecked => AcceptedIsEntitled
  <2> SUFFICES ASSUME AuthorisedWasChecked, stage \in {"authorised", "stored"}, NeedsAuth(request)
               PROVE  \E challenge \in request.named :
                         WellFormed(challenge) => Entitled(challenge, request)
    BY DEF AcceptedIsEntitled
  <2> DEFINE proof == request.proof
             challenge == GenerateAuthChallenge(proof)
  <2>1. request \in Requests /\ IsProof(proof)
    BY AdmissionAssumption DEF AuthorisedWasChecked
  <2>2. GetAuthProof(request) = proof
    <3>1. CheckAuthProof(NoProof, request.from, request.pay) = "no"
      BY DEF CheckAuthProof, NoProof
    <3> QED BY <3>1 DEF GetAuthProof, AuthorisedWasChecked
  <2>3. /\ challenge \in request.named
        /\ CheckAuthProof(proof, request.from, request.pay) = "yes"
    BY <2>2 DEF AuthorisedWasChecked
  <2>4. PICK g \in DOMAIN proof.groups :
          /\ proof.groups[g] # << >>
          /\ \A i \in DOMAIN proof.groups[g] :
                checkProof(proof, proof.groups[g][i], request.from, request.pay) = "yes"
    BY <2>1, <2>3, YesIsForOneGroup
  <2>5. /\ challenge.groups = proof.groups
        /\ Len(challenge.dynamic) = Dynamics(proof)
        /\ Len(challenge.roots) = Statics(proof)
        /\ challenge.pays = proof.pays
    BY <2>1, ChallengeOfProof
  <2> HIDE DEF challenge
  <2>6. ASSUME WellFormed(challenge), NEW i \in DOMAIN proof.groups[g]
        PROVE  Holds(challenge, proof.groups[g][i], request)
    <3>1. DOMAIN proof.groups = 1 .. 3
      BY <2>1, <2>5, <2>6 DEF WellFormed, IsProof, IsSeq
    <3>2. proof.groups[g][i] \in 1 .. Dynamics(proof) + Statics(proof) + Len(proof.pays)
      BY <2>5, <2>6, <3>1 DEF WellFormed
    <3> QED BY <2>1, <2>3, <2>4, <2>6, <3>2, ConditionsHold DEF challenge
  <2>7. WellFormed(challenge) => Entitled(challenge, request)
    BY <2>4, <2>5, <2>6 DEF Entitled
  <2> QED BY <2>3, <2>7
<1> QED BY <1>1, <1>2, <1>3, PTL DEF Spec

-----------------------------------------------------------------------------
(* The lengths of a transaction.                                            *)

\* A sum of lengths does not wrap if it is below the width.
LEMMA SmallSumsDoNotWrap ==
    ASSUME NEW n \in 0 .. Width - 1
    PROVE  Uint32(n) = n
BY LayoutAssumption DEF Uint32

\* If all four getters return no error, and the payment and the bulletin have bytes,
\* each of them returns the bytes of its own field.
LEMMA GettersReadTheirFields ==
    ASSUME NEW tx \in Layout,
           ~GetStochasticPaymentBytes(tx).err, tx.lengths[PAYMENT] > 0,
           ~GetBulletinBytes(tx).err, tx.lengths[BULLETIN] > 0,
           ~GetAuthProofBytes(tx).err, ~GetAuthChallengeBytes(tx).err
    PROVE  ReadsAllFields(tx)
<1> DEFINE p == tx.lengths[1]
           b == tx.lengths[2]
           a == tx.lengths[3]
           c == tx.lengths[4]
<1> USE LayoutAssumption
<1>1. /\ p \in 0 .. Width - 1 /\ b \in 0 .. Width - 1
      /\ a \in 0 .. Width - 1 /\ c \in 0 .. Width - 1
      /\ tx.len \in 0 .. Width - 1
      /\ p > 0 /\ b > 0
  BY DEF Layout, Fields, PAYMENT, BULLETIN
<1>2. /\ HeaderLen + p <= tx.len
      /\ GetStochasticPaymentBytes(tx) =
            [err |-> FALSE, from |-> HeaderLen, to |-> HeaderLen + p]
  BY <1>1 DEF GetStochasticPaymentBytes, PAYMENT, GetField, GetBytesSlice, ErrInvalidTxBytes
<1>3. /\ p + HeaderLen + b <= tx.len
      /\ GetBulletinBytes(tx) =
            [err |-> FALSE, from |-> p + HeaderLen, to |-> p + HeaderLen + b]
  BY <1>1
  DEF GetBulletinBytes, PAYMENT, BULLETIN, GetField, GetBytesSlice, ErrInvalidTxBytes
<1>4. Uint32(p + b) = p + b
  BY <1>1, <1>3, SmallSumsDoNotWrap
<1>5. \/ a = 0 /\ GetAuthProofBytes(tx) = NoBytes
      \/ /\ p + b + HeaderLen + a <= tx.len
         /\ GetAuthProofBytes(tx) =
              [err |-> FALSE, from |-> p + b + HeaderLen, to |-> p + b + HeaderLen + a]
  <2>1. GetAuthProofBytes(tx) = GetField(tx, p + b + HeaderLen, a)
    BY <1>4, Zenon DEF GetAuthProofBytes, PAYMENT, BULLETIN, AUTH_PROOF
  <2> QED
    BY <1>1, <2>1 DEF GetField, GetBytesSlice, ErrInvalidTxBytes
<1>6. Uint32(p + b + a) = p + b + a
  BY <1>1, <1>3, <1>5, SmallSumsDoNotWrap
<1>7. \/ c = 0 /\ GetAuthChallengeBytes(tx) = NoBytes
      \/ /\ p + b + a + HeaderLen + c <= tx.len
         /\ GetAuthChallengeBytes(tx) =
              [err |-> FALSE, from |-> p + b + a + HeaderLen,
               to |-> p + b + a + HeaderLen + c]
  <2>1. GetAuthChallengeBytes(tx) = GetField(tx, p + b + a + HeaderLen, c)
    BY <1>6, Zenon
    DEF GetAuthChallengeBytes, PAYMENT, BULLETIN, AUTH_PROOF, AUTH_CHALLENGE
  <2> QED
    BY <1>1, <2>1 DEF GetField, GetBytesSlice, ErrInvalidTxBytes
<1>8. /\ OffsetOf(tx, 1) = HeaderLen
      /\ OffsetOf(tx, 2) = p + HeaderLen
      /\ OffsetOf(tx, 3) = p + b + HeaderLen
      /\ OffsetOf(tx, 4) = p + b + a + HeaderLen
  BY <1>1 DEF OffsetOf, PAYMENT, BULLETIN, AUTH_PROOF
<1>9. ReadsField(tx, 1, GetStochasticPaymentBytes(tx))
  <2>1. GetStochasticPaymentBytes(tx) =
            [err |-> FALSE, from |-> OffsetOf(tx, 1), to |-> OffsetOf(tx, 1) + p]
    BY <1>2, <1>8, Zenon
  <2>2. GetStochasticPaymentBytes(tx).to <= tx.len
    BY <1>2, SMT
  <2> QED
    BY <2>1, <2>2, Zenon DEF ReadsField
<1>10. ReadsField(tx, 2, GetBulletinBytes(tx))
  <2>1. GetBulletinBytes(tx) =
            [err |-> FALSE, from |-> OffsetOf(tx, 2), to |-> OffsetOf(tx, 2) + b]
    BY <1>3, <1>8, Zenon
  <2>2. GetBulletinBytes(tx).to <= tx.len
    BY <1>3, SMT
  <2> QED
    BY <2>1, <2>2, Zenon DEF ReadsField
<1>11. ReadsField(tx, 3, GetAuthProofBytes(tx))
  BY <1>1, <1>5, <1>8 DEF ReadsField
<1>12. ReadsField(tx, 4, GetAuthChallengeBytes(tx))
  BY <1>1, <1>7, <1>8 DEF ReadsField
<1> QED
  BY <1>9, <1>10, <1>11, <1>12
  DEF ReadsAllFields, PAYMENT, BULLETIN, AUTH_PROOF, AUTH_CHALLENGE

\* What a valid transaction has: a payment and a bulletin of some bytes.
LEMMA ValidHasBothFields ==
    ASSUME NEW r, r.layout \in Layout, IsValid(r)
    PROVE  /\ ~GetStochasticPaymentBytes(r.layout).err
           /\ r.layout.lengths[PAYMENT] > 0
           /\ ~GetBulletinBytes(r.layout).err
           /\ r.layout.lengths[BULLETIN] > 0
<1>1. r.layout.lengths[PAYMENT] # 0
  BY LayoutAssumption
  DEF IsValid, IsEmpty, GetStochasticPaymentBytes, GetField, NoBytes, ErrInvalidTxBytes
<1>2. r.layout.lengths[BULLETIN] # 0
  BY LayoutAssumption
  DEF IsValid, IsEmpty, GetBulletinBytes, GetField, NoBytes, ErrInvalidTxBytes
<1> QED
  BY <1>1, <1>2, LayoutAssumption DEF IsValid, Layout, Fields, PAYMENT, BULLETIN

\* What DeliverTx has seen of a stored transaction.
StoredWasRead ==
    /\ request \in Requests
    /\ stage = "stored" => IsValid(request) /\ HasBulletinID(request.layout)

\* Every transaction that ganychain stores was read as four fields one after the other,
\* whatever lengths its sender wrote and wherever 32 bits wrap (proto/tx.go:117, 145).
THEOREM StoredLayout == Spec => []StoredFieldsAreApart
<1>1. Init => StoredWasRead
  BY DEF Init, StoredWasRead
<1>2. StoredWasRead /\ [Next]_vars => StoredWasRead'
  <2> SUFFICES ASSUME StoredWasRead, [Next]_vars PROVE StoredWasRead'
    OBVIOUS
  <2>1. CASE CheckTx
    BY <2>1 DEF CheckTx, StoredWasRead
  <2>2. CASE CheckAuth
    BY <2>2 DEF CheckAuth, StoredWasRead, AuthStage, CheckAuthProof, Verdict
  <2>3. CASE DeliverTx
    BY <2>3 DEF DeliverTx, StoredWasRead
  <2>4. CASE UNCHANGED vars
    BY <2>4 DEF vars, StoredWasRead
  <2> QED
    BY <2>1, <2>2, <2>3, <2>4 DEF Next
<1>3. StoredWasRead => StoredFieldsAreApart
  BY AdmissionAssumption, GettersReadTheirFields, ValidHasBothFields
  DEF StoredWasRead, StoredFieldsAreApart, HasBulletinID
<1> QED
  BY <1>1, <1>2, <1>3, PTL DEF Spec

-----------------------------------------------------------------------------
(* Who is not refused.                                                      *)

\* A short path of a member leads from its leaf to the root.
PathsLeadToRoot(tree) ==
    \A m \in DOMAIN tree.paths :
        LET path == tree.paths[m]
        IN  /\ path = << >> => tree.root = CalculateHash(m)
            /\ Len(path) = 1 => tree.root = HashOfPair(CalculateHash(m), path[1])

\* A transaction as it is made: every getter finds its field.
LEMMA CreatedIsReadable ==
    ASSUME NEW tx \in Layout, tx = CreateGanyTx(tx.lengths),
           \A field \in {PAYMENT, BULLETIN, AUTH_PROOF} : tx.lengths[field] > 0
    PROVE  /\ ~GetStochasticPaymentBytes(tx).err /\ ~IsEmpty(GetStochasticPaymentBytes(tx))
           /\ ~GetBulletinBytes(tx).err /\ ~IsEmpty(GetBulletinBytes(tx))
           /\ ~GetAuthProofBytes(tx).err /\ ~IsEmpty(GetAuthProofBytes(tx))
           /\ HasBulletinID(tx)
<1> DEFINE p == tx.lengths[1]
           q == tx.lengths[2]
           f == tx.lengths[3]
           c == tx.lengths[4]
<1> USE LayoutAssumption
<1>1. /\ p \in 0 .. Width - 1 /\ q \in 0 .. Width - 1
      /\ f \in 0 .. Width - 1 /\ c \in 0 .. Width - 1
      /\ tx.len \in 0 .. Width - 1
      /\ p > 0 /\ q > 0 /\ f > 0
  BY DEF Layout, Fields, PAYMENT, BULLETIN, AUTH_PROOF
<1>2. tx.len = HeaderLen + p + q + f + c
  BY DEF CreateGanyTx, PAYMENT, BULLETIN, AUTH_PROOF, AUTH_CHALLENGE
<1>3. Uint32(p + q) = p + q /\ Uint32(p + q + f) = p + q + f
  BY <1>1, <1>2, SmallSumsDoNotWrap
<1>4. /\ GetStochasticPaymentBytes(tx) =
            [err |-> FALSE, from |-> HeaderLen, to |-> HeaderLen + p]
      /\ GetBulletinBytes(tx) =
            [err |-> FALSE, from |-> p + HeaderLen, to |-> p + HeaderLen + q]
  BY <1>1, <1>2
  DEF GetStochasticPaymentBytes, GetBulletinBytes, PAYMENT, BULLETIN, GetField, GetBytesSlice
<1>5. GetAuthProofBytes(tx) =
        [err |-> FALSE, from |-> p + q + HeaderLen, to |-> p + q + HeaderLen + f]
  <2>1. GetAuthProofBytes(tx) = GetField(tx, p + q + HeaderLen, f)
    BY <1>3, Zenon DEF GetAuthProofBytes, PAYMENT, BULLETIN, AUTH_PROOF
  <2> QED BY <1>1, <1>2, <2>1 DEF GetField, GetBytesSlice
<1>6. ~GetAuthChallengeBytes(tx).err
  <2>1. GetAuthChallengeBytes(tx) = GetField(tx, p + q + f + HeaderLen, c)
    BY <1>3, Zenon DEF GetAuthChallengeBytes, PAYMENT, BULLETIN, AUTH_PROOF, AUTH_CHALLENGE
  <2> QED BY <1>1, <1>2, <2>1 DEF GetField, GetBytesSlice, NoBytes
<1> QED BY <1>1, <1>4, <1>5, <1>6 DEF IsEmpty, HasBulletinID

\* A path of at most one pair is empty or has one element.
LEMMA ShortPath ==
    ASSUME NEW path, IsSeq(path), Len(path) <= 1
    PROVE  Len(path) \in Nat /\ (path = << >> \/ Len(path) = 1)
BY DEF IsSeq

\* No condition of an honest proof panics, and those that hold are found to hold: sets
\* of up to two addresses, and payments that have a set each.
LEMMA HonestConditions ==
    ASSUME \A tree \in Trees : PathsLeadToRoot(tree),
           NEW r \in Requests, HasPaths(r), Checkable(r.proof),
           NEW number,
           number \in 1 .. Dynamics(r.proof) + Statics(r.proof) + Len(r.proof.pays)
    PROVE  LET verdict == checkProof(r.proof, number, r.from, r.pay)
           IN  /\ verdict # "panic"
               /\ Holds(GenerateAuthChallenge(r.proof), number, r) => verdict = "yes"
<1> DEFINE proof == r.proof
           challenge == GenerateAuthChallenge(proof)
           sets == Statics(proof)
           pays == Len(proof.pays)
<1>1. IsProof(proof)
  BY AdmissionAssumption
<1>2. /\ Len(challenge.dynamic) = 0 /\ Dynamics(proof) = 0
      /\ Len(challenge.roots) = sets /\ sets \in Nat
      /\ DOMAIN proof.static = 1 .. sets
      /\ \A i \in 1 .. sets : challenge.roots[i] = proof.static[i].root
      /\ challenge.pays = proof.pays /\ pays \in Nat /\ pays <= sets
      /\ number \in 1 .. sets + pays
  <2>1. Dynamics(proof) = 0
    BY DEF Checkable, Dynamics
  <2>2. pays <= sets
    BY DEF Checkable, Statics
  <2>3. sets \in Nat /\ pays \in Nat
    BY <1>1, ChallengeOfProof
  <2>4. number \in 1 .. sets + pays
    BY <2>1, <2>3
  <2> QED BY <1>1, <2>1, <2>2, <2>4, ChallengeOfProof
<1>3. CASE number \in 1 .. sets
  <2>1. ConditionType(proof, number) = "static"
    BY <1>2, <1>3 DEF ConditionType
  <2> DEFINE set == proof.static[number]
  <2>2. checkProof(proof, number, r.from, r.pay) =
          Verdict(VerifyContentExternal(r.from, set.root, set.path))
    BY <1>2, <2>1 DEF checkProof, checkStaticProof
  <2>3. ASSUME Holds(challenge, number, r)
        PROVE  VerifyContentExternal(r.from, set.root, set.path)
    <3>1. PICK tree \in Trees : tree.root = challenge.roots[number] /\ r.from \in DOMAIN tree.paths
      <4>1. number \notin 1 .. 0 /\ number \notin 0 + sets + 1 .. 0 + sets + pays /\ number - 0 = number
        BY <1>2, <1>3
      <4> HIDE DEF challenge, sets, pays, proof
      <4> QED BY <1>2, <2>3, <4>1 DEF Holds
    <3>2. set.root = tree.root /\ set.path = tree.paths[r.from]
      BY <1>2, <1>3, <3>1 DEF HasPaths
    <3>3. Len(set.path) <= 1 /\ IsSeq(set.path)
      BY <1>1, <1>2, <1>3 DEF Checkable, IsProof
    <3>4. Len(set.path) \in Nat /\ (set.path = << >> \/ Len(set.path) = 1)
      BY <3>3, ShortPath
    <3>5. HashOfPath(r.from, set.path) = tree.root
      BY <3>1, <3>2, <3>4, HashOfLongPath DEF PathsLeadToRoot
    <3> QED BY <3>2, <3>5 DEF VerifyContentExternal
  <2> QED BY <2>2, <2>3 DEF Verdict
<1>4. CASE number \in sets + 1 .. sets + pays
  <2>1. ConditionType(proof, number) = "pay"
    BY <1>2, <1>4 DEF ConditionType, NumberOfPays
  <2>2. number - sets \in 1 .. pays /\ proof.pays # << >>
    BY <1>2, <1>4
  <2>3. checkProof(proof, number, r.from, r.pay) = Verdict(proof.pays[number - sets] = r.pay)
    BY <1>2, <2>1, <2>2 DEF checkProof, checkStochasticPaymentCondition
  <2>4. Holds(challenge, number, r) => proof.pays[number - sets] = r.pay
    BY <1>2, <1>4 DEF Holds
  <2> QED BY <2>3, <2>4 DEF Verdict
<1> QED BY <1>2, <1>3, <1>4

\* Who fulfils a group that the code can check gets a yes.
LEMMA EntitledGetYes ==
    ASSUME \A tree \in Trees : PathsLeadToRoot(tree),
           NEW r \in Requests, HonestAndEntitled(r), Checkable(r.proof)
    PROVE  CheckAuthProof(r.proof, r.from, r.pay) = "yes"
<1> DEFINE proof == r.proof
           challenge == GenerateAuthChallenge(proof)
<1>1. IsProof(proof) /\ HasPaths(r) /\ WellFormed(challenge) /\ Entitled(challenge, r)
  BY AdmissionAssumption DEF HonestAndEntitled, Honest
<1>2. /\ challenge.groups = proof.groups
      /\ Len(challenge.dynamic) = Dynamics(proof)
      /\ Len(challenge.roots) = Statics(proof)
      /\ challenge.pays = proof.pays
  BY <1>1, ChallengeOfProof
<1> HIDE DEF challenge
<1>3. Len(proof.groups) = 3 /\ DOMAIN proof.groups = 1 .. 3
  BY <1>1, <1>2 DEF WellFormed, IsProof, IsSeq
<1>4. \A g \in 1 .. 3 : \A i \in DOMAIN proof.groups[g] :
        proof.groups[g][i] \in 1 .. Dynamics(proof) + Statics(proof) + Len(proof.pays)
  BY <1>1, <1>2 DEF WellFormed
<1>5. PICK g \in DOMAIN proof.groups :
        /\ proof.groups[g] # << >>
        /\ \A i \in DOMAIN proof.groups[g] : Holds(challenge, proof.groups[g][i], r)
  BY <1>1, <1>2 DEF Entitled
<1>6. \A h \in DOMAIN proof.groups : \A i \in DOMAIN proof.groups[h] :
        checkProof(proof, proof.groups[h][i], r.from, r.pay) # "panic"
  BY <1>1, <1>3, <1>4, HonestConditions
<1>7. \A i \in DOMAIN proof.groups[g] :
        checkProof(proof, proof.groups[g][i], r.from, r.pay) = "yes"
  BY <1>1, <1>3, <1>4, <1>5, HonestConditions DEF challenge
<1> QED BY <1>1, <1>3, <1>5, <1>6, <1>7, OneGroupIsEnough

\* Where no step refuses it, a transaction stays.
StaysIn ==
    /\ request \in Requests
    /\ EntitledIsNotRefused

\* Who fulfils one of a challenge's groups, with sets of up to two addresses and a set for
\* every payment, is let in (backend.go:67-110, app.go:380), whatever the other groups ask
\* for and however long the fields are: no getter fails and no condition panics.
THEOREM EntitledIsAdmitted ==
    ASSUME \A tree \in Trees : PathsLeadToRoot(tree)
    PROVE  Spec => []EntitledIsNotRefused
<1> DEFINE Good == HonestAndEntitled(request) /\ Checkable(request.proof)
<1>1. Init => StaysIn
  BY DEF Init, StaysIn, EntitledIsNotRefused, Refusals
<1>2. StaysIn /\ [Next]_vars => StaysIn'
  <2> SUFFICES ASSUME StaysIn, [Next]_vars, Good PROVE stage' \notin Refusals /\ request' = request
    <3>1. [Next]_vars => request' = request
      BY DEF Next, CheckTx, CheckAuth, DeliverTx, vars
    <3> QED BY <3>1 DEF StaysIn, EntitledIsNotRefused
  <2>1. request \in Requests /\ stage \notin Refusals
    BY DEF StaysIn, EntitledIsNotRefused
  <2>2. request.layout \in Layout /\ Honest(request)
    BY <2>1, AdmissionAssumption DEF HonestAndEntitled
  <2>3. /\ ~GetAuthProofBytes(request.layout).err /\ ~IsEmpty(GetAuthProofBytes(request.layout))
        /\ IsValid(request) /\ HasBulletinID(request.layout)
    <3>1. /\ request.layout = CreateGanyTx(request.layout.lengths)
          /\ \A field \in {PAYMENT, BULLETIN, AUTH_PROOF} : request.layout.lengths[field] > 0
      BY <2>2 DEF Honest
    <3>2. request.layout.len > HeaderLen
      BY <2>2, <3>1, LayoutAssumption
      DEF CreateGanyTx, Layout, Fields, PAYMENT, BULLETIN, AUTH_PROOF, AUTH_CHALLENGE
    <3> QED BY <2>2, <3>1, <3>2, CreatedIsReadable DEF IsValid, Honest
  <2>4. /\ GetAuthProof(request) = request.proof
        /\ request.named = {GenerateAuthChallenge(request.proof)}
    BY <2>2, <2>3 DEF GetAuthProof, Honest
  <2>5. CheckAuthProof(request.proof, request.from, request.pay) = "yes"
    BY <2>1, EntitledGetYes
  <2>6. CASE CheckTx
    BY <2>3, <2>6 DEF CheckTx, Refusals
  <2>7. CASE CheckAuth
    BY <2>4, <2>5, <2>7 DEF CheckAuth, AuthStage, Refusals
  <2>8. CASE DeliverTx
    BY <2>3, <2>8 DEF DeliverTx, Refusals
  <2>9. CASE UNCHANGED vars
    BY <2>1, <2>9 DEF vars
  <2> QED BY <2>6, <2>7, <2>8, <2>9 DEF Next
<1>3. StaysIn => EntitledIsNotRefused
  BY DEF StaysIn
<1> QED BY <1>1, <1>2, <1>3, PTL DEF Spec
=============================================================================
