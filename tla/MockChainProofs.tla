--------------------------- MODULE MockChainProofs ---------------------------
(***************************************************************************)
(* What the tests' doubles do, for every value of the constants: any         *)
(* requests, wallets, shards and lengths of amounts.                        *)
(***************************************************************************)
EXTENDS MockChain, TLAPS, FiniteSetTheorems, SequenceTheorems

-----------------------------------------------------------------------------
(* Numbers that are folds: of the bytes of an amount, of the balances.      *)

\* Of the subsets of a finite set, some are smallest.
LEMMA SmallestSet ==
    ASSUME NEW S, IsFiniteSet(S), NEW U \in SUBSET (SUBSET S), U # {}
    PROVE  \E s \in U : \A r \in U : r \subseteq s => r = s
<1> DEFINE R == StrictSubsetOrdering(S)
<1>1. IsWellFoundedOn(R, FiniteSubsetsOf(S)) /\ U \subseteq FiniteSubsetsOf(S)
  BY FS_StrictSubsetOrderingWellFounded, FS_FiniteSubsetsOfFinite
<1>2. PICK s \in U : \A r \in U : <<r, s>> \notin R
  <2> HIDE DEF R
  <2> QED BY <1>1, WFMin
<1>3. \A r \in U : r \subseteq s => r = s
  BY <1>2 DEF StrictSubsetOrdering
<1> QED BY <1>3

\* A fold over the subsets of a set: c chooses the next element, m multiplies what is
\* left.
FoldStep(f, s, a, m, c) == IF s = {} THEN 0 ELSE a[c[s]] + m * f[s \ {c[s]}]

IsFoldOf(f, S, a, m, c) == f = [s \in SUBSET S |-> FoldStep(f, s, a, m, c)]

Chooses(c, S) == \A s \in SUBSET S : s # {} => c[s] \in s

\* Folds of two sets agree on the subsets of both.
LEMMA FoldsAgree ==
    ASSUME NEW S, IsFiniteSet(S), NEW T, NEW a, NEW b, NEW m, NEW c, Chooses(c, S),
           NEW f, IsFoldOf(f, S, a, m, c), NEW g, IsFoldOf(g, T, b, m, c),
           NEW s \in SUBSET S, s \in SUBSET T, \A x \in s : a[x] = b[x]
    PROVE  f[s] = g[s]
<1> DEFINE U == {r \in SUBSET s : f[r] # g[r]}
<1>1. SUFFICES ASSUME U # {} PROVE FALSE
  OBVIOUS
<1>2. PICK r \in U : \A q \in U : q \subseteq r => q = r
  <2>1. IsFiniteSet(s) /\ U \in SUBSET (SUBSET s)
    BY FS_Subset
  <2> HIDE DEF U
  <2> QED BY <1>1, <2>1, SmallestSet
<1>3. f[r] = FoldStep(f, r, a, m, c) /\ g[r] = FoldStep(g, r, b, m, c)
  BY DEF IsFoldOf
<1>4. CASE r = {}
  BY <1>3, <1>4 DEF FoldStep
<1>5. CASE r # {}
  <2>1. c[r] \in r
    BY <1>5 DEF Chooses
  <2>2. f[r \ {c[r]}] = g[r \ {c[r]}]
    BY <1>2, <2>1
  <2> QED BY <1>3, <1>5, <2>1, <2>2 DEF FoldStep
<1> QED BY <1>4, <1>5

\* Every finite set has a fold, of natural numbers.
LEMMA FoldExists ==
    ASSUME NEW S, IsFiniteSet(S), NEW a, \A x \in S : a[x] \in Nat, NEW m \in Nat,
           NEW c, Chooses(c, S)
    PROVE  \E f : IsFoldOf(f, S, a, m, c) /\ f \in [SUBSET S -> Nat]
<1> DEFINE IsFold(f, T) == IsFoldOf(f, T, a, m, c) /\ f \in [SUBSET T -> Nat]
           U == {T \in SUBSET S : ~ \E f : IsFold(f, T)}
<1>1. SUFFICES ASSUME U # {} PROVE FALSE
  OBVIOUS
<1>2. PICK T \in U : \A Q \in U : Q \subseteq T => Q = T
  <2>1. U \in SUBSET (SUBSET S)
    OBVIOUS
  <2> HIDE DEF U
  <2> QED BY <1>1, <2>1, SmallestSet
<1> DEFINE fold(Q) == CHOOSE f : IsFold(f, Q)
           value(Q) == IF Q = T THEN FoldStep([q \in SUBSET T |-> fold(q)[q]], T, a, m, c)
                       ELSE fold(Q)[Q]
           g == [Q \in SUBSET T |-> value(Q)]
<1>3. ASSUME NEW Q \in SUBSET T, Q # T
      PROVE  IsFold(fold(Q), Q)
  <2>1. \E f : IsFold(f, Q)
    BY <1>2, <1>3
  <2> QED BY <2>1
<1>4. ASSUME NEW Q \in SUBSET T
      PROVE  g[Q] = FoldStep(g, Q, a, m, c) /\ g[Q] \in Nat
  <2>1. CASE Q = {}
    <3>1. CASE Q = T
      BY <2>1, <3>1 DEF FoldStep
    <3>2. CASE Q # T
      <4>1. g[Q] = fold(Q)[Q]
        BY <3>2
      <4>2. fold(Q)[Q] = FoldStep(fold(Q), Q, a, m, c)
        BY <1>3, <3>2 DEF IsFoldOf
      <4> QED BY <2>1, <4>1, <4>2 DEF FoldStep
    <3> QED BY <3>1, <3>2
  <2>2. CASE Q # {}
    <3> DEFINE rest == Q \ {c[Q]}
    <3>1. c[Q] \in Q /\ rest \in SUBSET T /\ rest # T /\ rest \in SUBSET Q
      BY <2>2 DEF Chooses
    <3>2. g[rest] = fold(rest)[rest] /\ fold(rest)[rest] \in Nat
      BY <1>3, <3>1
    <3>3. g[Q] = a[c[Q]] + m * fold(rest)[rest]
      <4>1. CASE Q = T
        BY <2>2, <3>1, <4>1 DEF FoldStep
      <4>2. CASE Q # T
        <5>1. g[Q] = fold(Q)[Q] /\ IsFold(fold(Q), Q)
          BY <1>3, <4>2
        <5>2. fold(Q)[Q] = a[c[Q]] + m * fold(Q)[rest]
          BY <2>2, <5>1 DEF IsFoldOf, FoldStep
        <5>3. IsFold(fold(rest), rest)
          BY <1>3, <3>1
        <5>4. fold(Q)[rest] = fold(rest)[rest]
          <6>1. IsFiniteSet(Q) /\ Chooses(c, Q)
            <7>1. Q \in SUBSET S
              OBVIOUS
            <7> QED BY <7>1, FS_Subset DEF Chooses
          <6> HIDE DEF rest, fold
          <6> QED BY <3>1, <5>1, <5>3, <6>1, FoldsAgree
        <5> QED BY <5>1, <5>2, <5>4
      <4> QED BY <4>1, <4>2
    <3>4. a[c[Q]] \in Nat
      BY <3>1
    <3> HIDE DEF g, fold, rest
    <3>5. FoldStep(g, Q, a, m, c) = a[c[Q]] + m * g[rest]
      BY <2>2 DEF FoldStep, rest
    <3>6. m * fold(rest)[rest] \in Nat
      BY <3>2
    <3> QED BY <3>2, <3>3, <3>4, <3>5, <3>6
  <2> QED BY <2>1, <2>2
<1>5. g = [Q \in SUBSET T |-> g[Q]]
  OBVIOUS
<1> HIDE DEF g
<1>6. IsFoldOf(g, T, a, m, c) /\ g \in [SUBSET T -> Nat]
  BY <1>4, <1>5 DEF IsFoldOf
<1> QED BY <1>2, <1>6

-----------------------------------------------------------------------------
(* Amounts.                                                                 *)

\* The recursion of Uint: the last byte has the least weight.
UintStep(f, s, bytes) == IF s = {} THEN 0 ELSE 256 * f[s \ {Max(s)}] + bytes[Max(s)]

Greatest(n) == [s \in SUBSET (1 .. n) |-> Max(s)]

\* A set of indexes has a greatest one.
LEMMA MaxIsGreatest ==
    ASSUME NEW n \in Nat
    PROVE  /\ \A s \in SUBSET (1 .. n) : s # {} => Max(s) \in s
           /\ Max(1 .. n + 1) = n + 1
<1>1. ASSUME NEW s \in SUBSET (1 .. n), s # {}
      PROVE  Max(s) \in s
  <2> DEFINE S == 1 .. n
             U == {1 .. k : k \in {j \in 0 .. n : s \subseteq 1 .. j}}
  <2>1. U \in SUBSET (SUBSET S) /\ IsFiniteSet(S)
    BY FS_Interval
  <2>2. U # {}
    <3>1. n \in {j \in 0 .. n : s \subseteq 1 .. j}
      OBVIOUS
    <3> QED BY <3>1
  <2>3. PICK r \in U : \A q \in U : q \subseteq r => q = r
    <3> HIDE DEF U, S
    <3> QED BY <2>1, <2>2, SmallestSet
  <2>4. PICK k \in 0 .. n : s \subseteq 1 .. k /\ r = 1 .. k
    BY <2>3
  <2>5. k \in s
    <3> SUFFICES ASSUME k \notin s PROVE FALSE
      OBVIOUS
    <3>1. k # 0
      <4>1. k = 0 => 1 .. k = {}
        OBVIOUS
      <4> QED BY <1>1, <2>4, <4>1
    <3>2. k - 1 \in 0 .. n /\ s \subseteq 1 .. k - 1
      BY <2>4, <3>1
    <3>3. 1 .. k - 1 \in U /\ 1 .. k - 1 \subseteq 1 .. k
      BY <2>4, <3>2
    <3>4. 1 .. k - 1 = 1 .. k
      BY <2>3, <2>4, <3>3
    <3>5. k \in 1 .. k /\ k \notin 1 .. k - 1
      BY <2>4, <3>1
    <3> QED BY <3>4, <3>5
  <2>6. \A y \in s : k >= y
    BY <2>4
  <2> QED BY <2>5, <2>6 DEF Max
<1>2. Max(1 .. n + 1) = n + 1
  <2>1. n + 1 \in 1 .. n + 1 /\ \A y \in 1 .. n + 1 : n + 1 >= y
    OBVIOUS
  <2>2. \A x \in 1 .. n + 1 : (\A y \in 1 .. n + 1 : x >= y) => x = n + 1
    BY <2>1
  <2> QED BY <2>1, <2>2 DEF Max
<1> QED BY <1>1, <1>2

\* The fold that an amount is.
LEMMA UintIsFold ==
    ASSUME NEW bytes \in Seq(Nat)
    PROVE  \E f : /\ IsFoldOf(f, DOMAIN bytes, bytes, 256, Greatest(Len(bytes)))
                 /\ f \in [SUBSET DOMAIN bytes -> Nat]
                 /\ Uint(bytes) = f[DOMAIN bytes]
<1> DEFINE S == DOMAIN bytes
           Is(f) == f = [s \in SUBSET S |-> UintStep(f, s, bytes)]
           c == Greatest(Len(bytes))
<1>0. S = 1 .. Len(bytes) /\ Len(bytes) \in Nat
  OBVIOUS
<1>1. IsFiniteSet(S)
  BY <1>0, FS_Interval
<1>2. Chooses(c, S) /\ \A s \in SUBSET S : c[s] = Max(s)
  BY <1>0, MaxIsGreatest DEF Chooses, Greatest
<1>3. ASSUME NEW f, NEW s \in SUBSET S, f \in [SUBSET S -> Nat]
      PROVE  FoldStep(f, s, bytes, 256, c) = UintStep(f, s, bytes)
  <2>1. CASE s = {}
    BY <2>1 DEF FoldStep, UintStep
  <2>2. CASE s # {}
    <3>1. c[s] = Max(s) /\ Max(s) \in s /\ bytes[Max(s)] \in Nat
      BY <1>0, <1>2, <2>2 DEF Chooses
    <3> DEFINE last == Max(s)
               rest == f[s \ {last}]
    <3>2. rest \in Nat
      BY <1>3
    <3>3. FoldStep(f, s, bytes, 256, c) = bytes[last] + 256 * rest
      <4> HIDE DEF c, S
      <4> QED BY <2>2, <3>1 DEF FoldStep
    <3>4. UintStep(f, s, bytes) = 256 * rest + bytes[last]
      BY <2>2 DEF UintStep
    <3> HIDE DEF rest
    <3> QED BY <3>1, <3>2, <3>3, <3>4
  <2> QED BY <2>1, <2>2
<1>4. \A i \in S : bytes[i] \in Nat
  OBVIOUS
<1>5. \E f : IsFoldOf(f, S, bytes, 256, c) /\ f \in [SUBSET S -> Nat]
  <2> DEFINE m == 256
  <2>1. m \in Nat
    OBVIOUS
  <2> HIDE DEF S, c, m
  <2>2. \E f : IsFoldOf(f, S, bytes, m, c) /\ f \in [SUBSET S -> Nat]
    BY <1>1, <1>2, <1>4, <2>1, FoldExists
  <2> QED BY <2>2 DEF m
<1>6. PICK f : IsFoldOf(f, S, bytes, 256, c) /\ f \in [SUBSET S -> Nat]
  BY <1>5
<1>7. Is(f)
  BY <1>3, <1>6 DEF IsFoldOf
<1>8. Uint(bytes) = (CHOOSE g : Is(g))[S]
  BY DEF Uint, FoldLeft, MapThenFoldSet, UintStep
<1>9. \A g : Is(g) => g[S] = f[S]
  <2> SUFFICES ASSUME NEW g, Is(g) PROVE g[S] = f[S]
    OBVIOUS
  <2> DEFINE U == {s \in SUBSET S : g[s] # f[s]}
  <2>1. SUFFICES ASSUME U # {} PROVE FALSE
    OBVIOUS
  <2>2. PICK s \in U : \A r \in U : r \subseteq s => r = s
    <3>1. U \in SUBSET (SUBSET S)
      OBVIOUS
    <3> HIDE DEF U, S
    <3> QED BY <1>1, <2>1, <3>1, SmallestSet
  <2>3. g[s] = UintStep(g, s, bytes) /\ f[s] = UintStep(f, s, bytes)
    BY <1>7
  <2>4. ASSUME s # {} PROVE g[s \ {Max(s)}] = f[s \ {Max(s)}]
    <3>1. Max(s) \in s /\ s \in SUBSET S
      BY <1>2, <2>4 DEF Chooses
    <3>2. s \ {Max(s)} \in SUBSET S /\ s \ {Max(s)} \subseteq s /\ s \ {Max(s)} # s
      BY <3>1
    <3> QED BY <2>2, <3>2
  <2> QED BY <2>2, <2>3, <2>4 DEF UintStep
<1>10. Uint(bytes) = f[S]
  <2> HIDE DEF Is, S
  <2> QED BY <1>7, <1>8, <1>9
<1> QED BY <1>6, <1>10

\* An amount is a number, and a byte more makes it 256 times that and the byte: the
\* contract divides by 256 what the backend has packed (backend.go:193-205).
LEMMA UintOfBytes ==
    ASSUME NEW bytes \in Seq(Nat), NEW byte \in Nat
    PROVE  /\ Uint(bytes) \in Nat
           /\ Uint(Append(bytes, byte)) = 256 * Uint(bytes) + byte
<1> DEFINE more == Append(bytes, byte)
           n == Len(bytes)
<1>1. /\ more \in Seq(Nat) /\ n \in Nat /\ Len(more) = n + 1
      /\ DOMAIN bytes = 1 .. n /\ DOMAIN more = 1 .. n + 1
      /\ \A i \in 1 .. n : more[i] = bytes[i]
      /\ more[n + 1] = byte
  OBVIOUS
<1>2. PICK f : /\ IsFoldOf(f, DOMAIN bytes, bytes, 256, Greatest(n))
               /\ f \in [SUBSET DOMAIN bytes -> Nat]
               /\ Uint(bytes) = f[DOMAIN bytes]
  BY UintIsFold
<1>3. PICK g : /\ IsFoldOf(g, DOMAIN more, more, 256, Greatest(n + 1))
               /\ g \in [SUBSET DOMAIN more -> Nat]
               /\ Uint(more) = g[DOMAIN more]
  BY <1>1, UintIsFold
<1> HIDE DEF more
<1>4. Greatest(n + 1)[1 .. n + 1] = n + 1
  BY <1>1, MaxIsGreatest DEF Greatest
<1>5. (1 .. n + 1) \ {n + 1} = 1 .. n /\ 1 .. n + 1 # {}
  BY <1>1
<1>6. g[1 .. n + 1] = more[n + 1] + 256 * g[1 .. n]
  <2>1. g[DOMAIN more] = FoldStep(g, DOMAIN more, more, 256, Greatest(n + 1))
    BY <1>3 DEF IsFoldOf
  <2>2. g[1 .. n + 1] = FoldStep(g, 1 .. n + 1, more, 256, Greatest(n + 1))
    BY <1>1, <2>1
  <2> QED BY <1>4, <1>5, <2>2 DEF FoldStep
<1>7. g[1 .. n] = f[1 .. n]
  <2>1. IsFoldOf(f, 1 .. n, bytes, 256, Greatest(n + 1))
    <3>1. \A s \in SUBSET (1 .. n) : Greatest(n + 1)[s] = Greatest(n)[s]
      BY <1>1 DEF Greatest
    <3>2. \A s \in SUBSET (1 .. n) :
            FoldStep(f, s, bytes, 256, Greatest(n + 1)) = FoldStep(f, s, bytes, 256, Greatest(n))
      BY <3>1 DEF FoldStep
    <3>3. IsFoldOf(f, 1 .. n, bytes, 256, Greatest(n))
      BY <1>1, <1>2
    <3> DEFINE S == 1 .. n
               c == Greatest(n)
               d == Greatest(n + 1)
    <3>4. /\ f = [s \in SUBSET S |-> FoldStep(f, s, bytes, 256, c)]
          /\ \A s \in SUBSET S :
                FoldStep(f, s, bytes, 256, d) = FoldStep(f, s, bytes, 256, c)
      BY <3>2, <3>3 DEF IsFoldOf
    <3> HIDE DEF S, c, d, n
    <3>5. f = [s \in SUBSET S |-> FoldStep(f, s, bytes, 256, d)]
      BY ONLY <3>4
    <3> QED BY <3>5 DEF IsFoldOf, S, d
  <2>2. Chooses(Greatest(n + 1), 1 .. n + 1) /\ IsFiniteSet(1 .. n + 1)
    <3> DEFINE m == n + 1
    <3>1. m \in Nat
      BY <1>1
    <3> HIDE DEF m, n
    <3>2. Chooses(Greatest(m), 1 .. m)
      BY <3>1, MaxIsGreatest DEF Chooses, Greatest
    <3>3. IsFiniteSet(1 .. m)
      BY <3>1, FS_Interval
    <3> QED BY <3>2, <3>3 DEF m
  <2>3. IsFoldOf(g, 1 .. n + 1, more, 256, Greatest(n + 1))
    BY <1>1, <1>3
  <2> HIDE DEF n
  <2> QED BY <1>1, <2>1, <2>2, <2>3, FoldsAgree
<1>8. f[1 .. n] \in Nat
  BY <1>1, <1>2
<1> QED BY <1>1, <1>2, <1>3, <1>6, <1>7, <1>8 DEF more

-----------------------------------------------------------------------------
(* Totals.                                                                  *)

\* The recursion of Total.
TotalStep(f, s, ws) ==
    IF s = {} THEN 0
    ELSE LET x == CHOOSE y \in s : TRUE IN ws[x].balance + f[s \ {x}]

Balances(ws) == [o \in DOMAIN ws |-> ws[o].balance]

AnyOf(S) == [s \in SUBSET S |-> CHOOSE y \in s : TRUE]

\* Wallets hold tokens, and are finitely many.
AreWallets(ws) ==
    /\ IsFiniteSet(DOMAIN ws)
    /\ \A o \in DOMAIN ws : ws[o].balance \in Nat

\* The totals of all sets of owners.
AreTotals(f, ws) ==
    /\ f \in [SUBSET DOMAIN ws -> Nat]
    /\ \A s \in SUBSET DOMAIN ws : f[s] = TotalStep(f, s, ws)

\* The fold that a total is.
LEMMA TotalIsFold ==
    ASSUME NEW ws, AreWallets(ws)
    PROVE  \E f : AreTotals(f, ws) /\ Total(ws) = f[DOMAIN ws]
<1> DEFINE S == DOMAIN ws
           a == Balances(ws)
           c == AnyOf(S)
           m == 1
           Is(f) == f = [s \in SUBSET S |-> TotalStep(f, s, ws)]
<1>1. IsFiniteSet(S) /\ m \in Nat
  BY DEF AreWallets
<1>2. Chooses(c, S) /\ \A s \in SUBSET S : c[s] = CHOOSE y \in s : TRUE
  BY DEF Chooses, AnyOf
<1>3. \A x \in S : a[x] = ws[x].balance /\ a[x] \in Nat
  BY DEF Balances, AreWallets
<1>4. PICK f : IsFoldOf(f, S, a, m, c) /\ f \in [SUBSET S -> Nat]
  <2> HIDE DEF S, a, c, m
  <2> QED BY <1>1, <1>2, <1>3, FoldExists
<1>5. ASSUME NEW s \in SUBSET S
      PROVE  FoldStep(f, s, a, m, c) = TotalStep(f, s, ws)
  <2>1. CASE s = {}
    BY <2>1 DEF FoldStep, TotalStep
  <2>2. CASE s # {}
    <3> DEFINE x == CHOOSE y \in s : TRUE
    <3>1. c[s] = x /\ x \in s /\ x \in S
      BY <1>2, <2>2
    <3> HIDE DEF x, c, a
    <3>2. f[s \ {x}] \in Nat
      BY <1>4
    <3>3. a[x] = ws[x].balance
      BY <1>3, <3>1
    <3>4. m * f[s \ {x}] = f[s \ {x}]
      BY <3>2
    <3>5. FoldStep(f, s, a, m, c) = a[x] + m * f[s \ {x}]
      BY <2>2, <3>1 DEF FoldStep
    <3>6. TotalStep(f, s, ws) = ws[x].balance + f[s \ {x}]
      BY <2>2 DEF TotalStep, x
    <3> QED BY <3>3, <3>4, <3>5, <3>6
  <2> QED BY <2>1, <2>2
<1>6. Is(f)
  BY <1>4, <1>5 DEF IsFoldOf
<1>7. Total(ws) = (CHOOSE g : Is(g))[S]
  BY DEF Total, MapThenSumSet, MapThenFoldSet, TotalStep
<1>8. \A g : Is(g) => g[S] = f[S]
  <2> SUFFICES ASSUME NEW g, Is(g) PROVE g[S] = f[S]
    OBVIOUS
  <2> DEFINE U == {s \in SUBSET S : g[s] # f[s]}
  <2>1. SUFFICES ASSUME U # {} PROVE FALSE
    OBVIOUS
  <2>2. PICK s \in U : \A r \in U : r \subseteq s => r = s
    <3>1. U \in SUBSET (SUBSET S)
      OBVIOUS
    <3> HIDE DEF U, S
    <3> QED BY <1>1, <2>1, <3>1, SmallestSet
  <2>3. g[s] = TotalStep(g, s, ws) /\ f[s] = TotalStep(f, s, ws)
    BY <1>6
  <2>4. ASSUME s # {} PROVE TotalStep(g, s, ws) = TotalStep(f, s, ws)
    <3> DEFINE x == CHOOSE y \in s : TRUE
    <3>1. x \in s
      BY <2>4
    <3> HIDE DEF x
    <3>2. s \ {x} \in SUBSET S /\ s \ {x} \subseteq s /\ s \ {x} # s
      BY <3>1
    <3>3. g[s \ {x}] = f[s \ {x}]
      BY <2>2, <3>2
    <3> QED BY <2>4, <3>3 DEF TotalStep, x
  <2>5. s = {} => TotalStep(g, s, ws) = TotalStep(f, s, ws)
    BY DEF TotalStep
  <2> QED BY <2>2, <2>3, <2>4, <2>5
<1>9. Total(ws) = f[S]
  <2> HIDE DEF Is, S
  <2> QED BY <1>6, <1>7, <1>8
<1>10. \A s \in SUBSET S : f[s] = TotalStep(f, s, ws)
  BY <1>6
<1> QED BY <1>4, <1>9, <1>10 DEF AreTotals

\* The order of the choices does not matter: each element adds its own.
LEMMA AnyElementAdds ==
    ASSUME NEW ws, AreWallets(ws), NEW f, AreTotals(f, ws),
           NEW s \in SUBSET DOMAIN ws, NEW o \in s
    PROVE  f[s] = ws[o].balance + f[s \ {o}]
<1> DEFINE S == DOMAIN ws
           U == {r \in SUBSET S : \E x \in r : f[r] # ws[x].balance + f[r \ {x}]}
<1>1. SUFFICES ASSUME U # {} PROVE FALSE
  OBVIOUS
<1>2. PICK r \in U : \A q \in U : q \subseteq r => q = r
  <2>1. U \in SUBSET (SUBSET S) /\ IsFiniteSet(S)
    BY DEF AreWallets
  <2> HIDE DEF U, S
  <2> QED BY <1>1, <2>1, SmallestSet
<1>3. PICK x \in r : f[r] # ws[x].balance + f[r \ {x}]
  BY <1>2
<1> DEFINE y == CHOOSE z \in r : TRUE
<1>4. y \in r /\ f[r] = ws[y].balance + f[r \ {y}]
  BY <1>2, <1>3 DEF TotalStep, AreTotals
<1> HIDE DEF y
<1>5. x # y /\ x \in S /\ y \in S
  BY <1>2, <1>3, <1>4
<1>6. f[r \ {y}] = ws[x].balance + f[(r \ {y}) \ {x}]
  <2>1. r \ {y} \in SUBSET S /\ r \ {y} \subseteq r /\ r \ {y} # r /\ x \in r \ {y}
    BY <1>2, <1>3, <1>4, <1>5
  <2> QED BY <1>2, <2>1
<1>7. f[r \ {x}] = ws[y].balance + f[(r \ {x}) \ {y}]
  <2>1. r \ {x} \in SUBSET S /\ r \ {x} \subseteq r /\ r \ {x} # r /\ y \in r \ {x}
    BY <1>2, <1>3, <1>4, <1>5
  <2> QED BY <1>2, <2>1
<1>8. (r \ {y}) \ {x} = (r \ {x}) \ {y} /\ (r \ {x}) \ {y} \in SUBSET S
  BY <1>2
<1> DEFINE rest == (r \ {x}) \ {y}
<1>9. ws[x].balance \in Nat /\ ws[y].balance \in Nat /\ f[rest] \in Nat
  BY <1>5, <1>8 DEF AreWallets, AreTotals
<1> HIDE DEF rest
<1>10. f[r \ {y}] = ws[x].balance + f[rest] /\ f[r \ {x}] = ws[y].balance + f[rest]
  BY <1>6, <1>7, <1>8 DEF rest
<1> QED BY <1>3, <1>4, <1>9, <1>10

\* The wallets of all others.
Without(ws, o) == [x \in DOMAIN ws \ {o} |-> ws[x]]

\* A total is the balance of anyone and the total of the others.
LEMMA TotalSplits ==
    ASSUME NEW ws, AreWallets(ws), NEW o
    PROVE  /\ AreWallets(Without(ws, o))
           /\ Total(Without(ws, o)) \in Nat
           /\ o \in DOMAIN ws => Total(ws) = ws[o].balance + Total(Without(ws, o))
<1> DEFINE S == DOMAIN ws
           others == Without(ws, o)
           T == DOMAIN others
<1>1. T = S \ {o} /\ \A x \in T : others[x] = ws[x]
  BY DEF Without
<1>2. AreWallets(others)
  <2>1. IsFiniteSet(S)
    BY DEF AreWallets
  <2>2. T \in SUBSET S
    BY <1>1
  <2>3. IsFiniteSet(T)
    <3> HIDE DEF S, T
    <3> QED BY <2>1, <2>2, FS_Subset
  <2> QED BY <1>1, <2>3 DEF AreWallets
<1>3. PICK g : AreTotals(g, others) /\ Total(others) = g[T]
  BY <1>2, TotalIsFold
<1>4. Total(others) \in Nat
  BY <1>3 DEF AreTotals
<1>5. ASSUME o \in S PROVE Total(ws) = ws[o].balance + Total(others)
  <2>1. PICK f : AreTotals(f, ws) /\ Total(ws) = f[S]
    BY TotalIsFold
  <2>2. f[S] = ws[o].balance + f[S \ {o}]
    <3>1. S \in SUBSET S
      OBVIOUS
    <3> QED BY <1>5, <2>1, <3>1, AnyElementAdds
  <2>3. f[T] = g[T]
    <3> DEFINE U == {s \in SUBSET T : f[s] # g[s]}
    <3>1. SUFFICES ASSUME U # {} PROVE FALSE
      OBVIOUS
    <3>2. PICK s \in U : \A r \in U : r \subseteq s => r = s
      <4>1. U \in SUBSET (SUBSET T) /\ IsFiniteSet(T)
        BY <1>2 DEF AreWallets
      <4> HIDE DEF U, T
      <4> QED BY <3>1, <4>1, SmallestSet
    <3>3. f[s] = TotalStep(f, s, ws) /\ g[s] = TotalStep(g, s, others)
      BY <1>1, <1>3, <2>1, <3>2 DEF AreTotals
    <3>4. s # {}
      BY <3>2, <3>3 DEF TotalStep
    <3> DEFINE x == CHOOSE y \in s : TRUE
    <3>5. x \in s
      BY <3>4
    <3> HIDE DEF x
    <3>6. s \ {x} \in SUBSET T /\ s \ {x} \subseteq s /\ s \ {x} # s /\ others[x] = ws[x]
      BY <1>1, <3>2, <3>5
    <3>7. f[s \ {x}] = g[s \ {x}]
      BY <3>2, <3>6
    <3>8. TotalStep(f, s, ws) = TotalStep(g, s, others)
      BY <3>4, <3>6, <3>7 DEF TotalStep, x
    <3> QED BY <3>2, <3>3, <3>8
  <2> QED BY <1>1, <1>3, <2>1, <2>2, <2>3
<1> QED BY <1>2, <1>4, <1>5

\* Setting a wallet changes the total by what it changes of the balance.
LEMMA TotalOfSetWallet ==
    ASSUME NEW ws, AreWallets(ws), ws = [x \in DOMAIN ws |-> ws[x]],
           NEW o, NEW nonces, NEW balance \in Nat
    PROVE  LET set == SetWallet(ws, o, nonces, balance)
           IN  /\ AreWallets(set)
               /\ set = [x \in DOMAIN set |-> set[x]]
               /\ Total(ws) \in Nat
               /\ Total(set) = Total(ws) - LoadWallet(ws, o).balance + balance
<1> DEFINE set == SetWallet(ws, o, nonces, balance)
<1>1. /\ DOMAIN set = DOMAIN ws \cup {o}
      /\ set = [x \in DOMAIN set |-> set[x]]
      /\ set[o] = [nonces |-> nonces, balance |-> balance]
      /\ \A x \in DOMAIN ws \ {o} : set[x] = ws[x]
  BY DEF SetWallet
<1> HIDE DEF set
<1>2. AreWallets(set)
  <2>1. IsFiniteSet(DOMAIN ws \cup {o})
    BY FS_AddElement DEF AreWallets
  <2> QED BY <1>1, <2>1 DEF AreWallets
<1>3. Without(set, o) = Without(ws, o)
  BY <1>1 DEF Without
<1>4. Total(set) = balance + Total(Without(ws, o)) /\ Total(Without(ws, o)) \in Nat
  <2>1. Total(set) = set[o].balance + Total(Without(set, o))
    BY <1>1, <1>2, TotalSplits
  <2>2. Total(Without(ws, o)) \in Nat
    BY TotalSplits
  <2> QED BY <1>1, <1>3, <2>1, <2>2
<1>5. Total(ws) = LoadWallet(ws, o).balance + Total(Without(ws, o))
      /\ LoadWallet(ws, o).balance \in Nat
  <2>1. CASE o \in DOMAIN ws
    <3>1. ws[o].balance \in Nat
      BY <2>1 DEF AreWallets
    <3> QED BY <2>1, <3>1, TotalSplits DEF LoadWallet
  <2>2. CASE o \notin DOMAIN ws
    <3>1. Without(ws, o) = ws
      BY <2>2 DEF Without
    <3> QED BY <1>4, <2>2, <3>1 DEF LoadWallet
  <2> QED BY <2>1, <2>2
<1> QED BY <1>1, <1>2, <1>4, <1>5 DEF set

-----------------------------------------------------------------------------
(* What a payment does to the wallets.                                      *)

\* A wallet's nonces go round.
LEMMA NoncesGoRound ==
    ASSUME NEW n \in 0 .. NonceWrap - 1
    PROVE  addNonces(n) = IF n + 1 = NonceWrap THEN 0 ELSE n + 1
<1>1. NonceWrap \in Nat /\ NonceWrap > 0
  BY MockAssumption
<1>2. CASE n + 1 = NonceWrap
  <2>1. NonceWrap % NonceWrap = 0
    BY <1>1
  <2> QED BY <1>2, <2>1 DEF addNonces
<1>3. CASE n + 1 # NonceWrap
  <2> DEFINE k == n + 1
  <2>1. k \in Nat /\ k < NonceWrap
    BY <1>1, <1>3
  <2> HIDE DEF k
  <2>2. k % NonceWrap = k
    BY <1>1, <2>1
  <2> QED BY <1>3, <2>2 DEF addNonces, k
<1> QED BY <1>2, <1>3

\* Wallets as TypeOK has them.
WalletsOK(ws) ==
    /\ IsFiniteSet(DOMAIN ws)
    /\ ws = [o \in DOMAIN ws |-> ws[o]]
    /\ \A o \in DOMAIN ws : ws[o] \in [nonces : 0 .. NonceWrap - 1, balance : Nat]

\* One wallet is updated, and no other.
LEMMA UpdateOfWallet ==
    ASSUME NEW ws, WalletsOK(ws), NEW o, NEW delta \in Nat, NEW sign \in {1, -1},
           sign = -1 => delta <= LoadWallet(ws, o).balance
    PROVE  LET new == updateWallet(ws, o, delta, sign)
               nonces == LoadWallet(ws, o).nonces
               change == IF sign = 1 THEN delta ELSE -delta
           IN  /\ WalletsOK(new)
               /\ Total(ws) \in Int /\ Total(new) = Total(ws) + change
               /\ LoadWallet(new, o).nonces = IF sign = 1 THEN nonces ELSE addNonces(nonces)
               /\ LoadWallet(new, o).balance = LoadWallet(ws, o).balance + change
               /\ \A x : x # o => LoadWallet(new, x) = LoadWallet(ws, x)
<1> DEFINE wallet == LoadWallet(ws, o)
           change == IF sign = 1 THEN delta ELSE -delta
           nonces == IF sign = 1 THEN wallet.nonces ELSE addNonces(wallet.nonces)
           balance == wallet.balance + change
           new == SetWallet(ws, o, nonces, balance)
<1>1. wallet.nonces \in 0 .. NonceWrap - 1 /\ wallet.balance \in Nat
  BY MockAssumption DEF WalletsOK, LoadWallet
<1>2. change \in Int /\ balance \in Nat
  BY <1>1
<1>3. nonces \in 0 .. NonceWrap - 1
  <2>1. addNonces(wallet.nonces) \in 0 .. NonceWrap - 1
    BY <1>1, MockAssumption, NoncesGoRound
  <2> QED BY <1>1, <2>1
<1>4. updateWallet(ws, o, delta, sign) = new
  <2>1. CASE sign = 1
    BY <2>1 DEF updateWallet
  <2>2. CASE sign = -1
    <3>1. wallet.balance - delta = wallet.balance + (-delta)
      BY <1>1
    <3> QED BY <2>2, <3>1 DEF updateWallet
  <2> QED BY <2>1, <2>2
<1>5. AreWallets(ws)
  BY DEF WalletsOK, AreWallets
<1> HIDE DEF nonces, balance, change
<1>6. /\ DOMAIN new = DOMAIN ws \cup {o}
      /\ new = [x \in DOMAIN new |-> new[x]]
      /\ new[o] = [nonces |-> nonces, balance |-> balance]
      /\ \A x \in DOMAIN ws \ {o} : new[x] = ws[x]
  BY DEF SetWallet
<1>7. /\ AreWallets(new) /\ Total(ws) \in Int
      /\ Total(new) = Total(ws) - wallet.balance + balance
  <2>1. ws = [x \in DOMAIN ws |-> ws[x]]
    BY DEF WalletsOK
  <2>2. balance \in Nat
    BY <1>2
  <2> HIDE DEF wallet, new
  <2> QED BY <1>5, <2>1, <2>2, TotalOfSetWallet DEF wallet, new
<1> HIDE DEF new
<1>8. WalletsOK(new)
  BY <1>2, <1>3, <1>6, <1>7 DEF WalletsOK, AreWallets
<1>9. LoadWallet(new, o) = [nonces |-> nonces, balance |-> balance]
  BY <1>6 DEF LoadWallet
<1>10. \A x : x # o => LoadWallet(new, x) = LoadWallet(ws, x)
  BY <1>6 DEF LoadWallet
<1>11. Total(new) = Total(ws) + change
  BY <1>1, <1>2, <1>7 DEF balance
<1> QED BY <1>4, <1>7, <1>8, <1>9, <1>10, <1>11 DEF balance, nonces, change

\* Payer, payee and validator may be the same.
LEMMA PaymentMovesTokens ==
    ASSUME NEW ws, WalletsOK(ws), NEW payer, NEW payee, NEW amountA \in Nat, NEW amountB \in Nat,
           amountA + amountB <= LoadWallet(ws, payer).balance
    PROVE  LET new == callPayToAB_Mock(ws, payer, payee, amountA, amountB)
           IN  /\ WalletsOK(new)
               /\ Total(new) = Total(ws)
               /\ LoadWallet(new, payer).nonces = addNonces(LoadWallet(ws, payer).nonces)
               /\ \A x : x # payer => LoadWallet(new, x).nonces = LoadWallet(ws, x).nonces
<1> DEFINE paid == updateWallet(ws, payer, amountA + amountB, -1)
           received == IF amountA > 0 THEN updateWallet(paid, payee, amountA, 1) ELSE paid
           new == updateWallet(received, ValidatorAddr, amountB, 1)
<1>1. /\ WalletsOK(paid)
      /\ Total(ws) \in Int /\ Total(paid) = Total(ws) - (amountA + amountB)
      /\ LoadWallet(paid, payer).nonces = addNonces(LoadWallet(ws, payer).nonces)
      /\ \A x : x # payer => LoadWallet(paid, x) = LoadWallet(ws, x)
  <2> DEFINE delta == amountA + amountB
             sign == -1
  <2>1. delta \in Nat /\ sign \in {1, -1} /\ sign = -1 /\ sign # 1
    OBVIOUS
  <2>2. delta <= LoadWallet(ws, payer).balance
    OBVIOUS
  <2> HIDE DEF delta, sign
  <2>3. /\ WalletsOK(updateWallet(ws, payer, delta, sign))
        /\ Total(ws) \in Int
        /\ Total(updateWallet(ws, payer, delta, sign)) = Total(ws) + (-delta)
        /\ LoadWallet(updateWallet(ws, payer, delta, sign), payer).nonces
             = addNonces(LoadWallet(ws, payer).nonces)
        /\ \A x : x # payer =>
              LoadWallet(updateWallet(ws, payer, delta, sign), x) = LoadWallet(ws, x)
    BY <2>1, <2>2, UpdateOfWallet
  <2>4. paid = updateWallet(ws, payer, delta, sign)
    BY DEF delta, sign
  <2>5. Total(ws) + (-delta) = Total(ws) - (amountA + amountB)
    BY <2>3 DEF delta
  <2> HIDE DEF paid
  <2> QED BY <2>3, <2>4, <2>5
<1> HIDE DEF paid
<1>2. ASSUME NEW before, WalletsOK(before), NEW o, NEW delta \in Nat
      PROVE  /\ WalletsOK(updateWallet(before, o, delta, 1))
             /\ Total(updateWallet(before, o, delta, 1)) = Total(before) + delta
             /\ \A x : LoadWallet(updateWallet(before, o, delta, 1), x).nonces
                         = LoadWallet(before, x).nonces
  BY <1>2, UpdateOfWallet
<1>3. /\ WalletsOK(received)
      /\ Total(received) = Total(paid) + amountA
      /\ \A x : LoadWallet(received, x).nonces = LoadWallet(paid, x).nonces
  <2>1. CASE amountA > 0
    BY <1>1, <1>2, <2>1
  <2>2. CASE ~(amountA > 0)
    <3>1. amountA = 0 /\ received = paid
      BY <2>2
    <3>2. Total(paid) = Total(paid) + 0
      BY <1>1
    <3> QED BY <1>1, <3>1, <3>2
  <2> QED BY <2>1, <2>2
<1> HIDE DEF received
<1>4. /\ WalletsOK(new)
      /\ Total(new) = Total(received) + amountB
      /\ \A x : LoadWallet(new, x).nonces = LoadWallet(received, x).nonces
  BY <1>2, <1>3
<1>5. callPayToAB_Mock(ws, payer, payee, amountA, amountB) = new
  BY DEF callPayToAB_Mock, received, paid
<1> HIDE DEF new
<1>6. Total(new) = Total(ws)
  BY <1>1, <1>3, <1>4
<1>7. \A x : x # payer => LoadWallet(new, x).nonces = LoadWallet(ws, x).nonces
  BY <1>1, <1>3, <1>4
<1> QED BY <1>1, <1>3, <1>4, <1>5, <1>6, <1>7

-----------------------------------------------------------------------------
(* A request that passes the checks.                                        *)

HashOf(sp) == GetTypedDataHash(GenEIP712MsgForAB(sp))

PayerOf(r) == Delegated[r.tx.from]

\* Amounts are numbers.
LEMMA AmountsAreNumbers ==
    ASSUME NEW r \in Requests
    PROVE  Uint(r.sp.amountToPayee) \in Nat /\ Uint(r.sp.amountToValidator) \in Nat
<1>1. r.sp.amountToPayee \in Seq(Byte) /\ r.sp.amountToValidator \in Seq(Byte)
  BY MockAssumption DEF IsPayment
<1>2. ASSUME NEW bytes \in Seq(Byte)
      PROVE  bytes \in Seq(Nat)
  <2>1. Byte \subseteq Nat
    BY DEF Byte
  <2> QED BY <2>1, SeqMonotonic
<1>3. ASSUME NEW bytes \in Seq(Nat)
      PROVE  Uint(bytes) \in Nat
  BY 0 \in Nat, UintOfBytes
<1> QED BY <1>1, <1>2, <1>3

\* What a request is that passes: its payer signed this payment with the nonces that
\* the wallet has, which holds enough.
LEMMA CheckedPayment ==
    ASSUME NEW r \in Requests, NEW ws, Checks_Mock(r, ws) = "ok"
    PROVE  /\ IsValid(r.sp)
           /\ IsNumber(r.sp.amountToPayee) /\ IsNumber(r.sp.amountToValidator)
           /\ PayerOf(r) = EcRecover(HashOf(r.sp), r.sp.signature)
           /\ PayerOf(r) = r.sp.signature.by
           /\ HashOf(r.sp) = r.sp.signature.over
           /\ r.sp.signature.over[3] = r.sp.nonces
           /\ r.sp.nonces = LoadWallet(ws, PayerOf(r)).nonces
           /\ LoadWallet(ws, PayerOf(r)).balance
                >= Uint(r.sp.amountToPayee) + Uint(r.sp.amountToValidator)
<1> DEFINE wallet == LoadWallet(ws, PayerOf(r))
<1>1. /\ IsValid(r.sp) /\ checkAndRestoreAddress_Mock(r.sp, r.tx.from)
      /\ checkNoncesAndBalance_Mock(r.sp, wallet) = "ok"
  BY DEF Checks_Mock, PayerOf
<1>2. /\ r.sp.nonces = wallet.nonces
      /\ IsNumber(r.sp.amountToPayee) /\ IsNumber(r.sp.amountToValidator)
      /\ wallet.balance >= Uint(r.sp.amountToPayee) + Uint(r.sp.amountToValidator)
  BY <1>1 DEF checkNoncesAndBalance_Mock
<1>3. /\ EcRecover(HashOf(r.sp), r.sp.signature) # NoAddress
      /\ r.tx.from \in DOMAIN Delegated
      /\ PayerOf(r) = EcRecover(HashOf(r.sp), r.sp.signature)
  BY <1>1 DEF checkAndRestoreAddress_Mock, HashOf, PayerOf
<1>4. PayerOf(r) # Stranger
  BY <1>3, MockAssumption DEF PayerOf
<1>5. r.sp.signature.over = HashOf(r.sp) /\ r.sp.signature.by = PayerOf(r)
  BY <1>3, <1>4 DEF EcRecover
<1>6. HashOf(r.sp) # NoHash
  BY <1>3 DEF EcRecover
<1>7. HashOf(r.sp)[3] = r.sp.nonces
  BY <1>6 DEF HashOf, GetTypedDataHash, GenEIP712MsgForAB, HashOfFields
<1> QED BY <1>1, <1>2, <1>3, <1>5, <1>7

\* Who is paid moves tokens as its signature says.
LEMMA AcceptedPays ==
    ASSUME NEW r \in Requests, NEW ws, WalletsOK(ws), Checks_Mock(r, ws) = "ok"
    PROVE  LET new == PayIfAccepted(r, ws, TRUE)
           IN  /\ WalletsOK(new)
               /\ Total(new) = Total(ws)
               /\ LoadWallet(new, PayerOf(r)).nonces = addNonces(LoadWallet(ws, PayerOf(r)).nonces)
               /\ \A x : x # PayerOf(r) => LoadWallet(new, x).nonces = LoadWallet(ws, x).nonces
<1> DEFINE amountA == Uint(r.sp.amountToPayee)
           amountB == Uint(r.sp.amountToValidator)
           payer == PayerOf(r)
           payee == BytesToAddress(r.sp.payee)
<1>1. amountA \in Nat /\ amountB \in Nat
  BY AmountsAreNumbers
<1>2. amountA + amountB <= LoadWallet(ws, payer).balance
  <2>1. LoadWallet(ws, payer).balance >= amountA + amountB
    BY CheckedPayment
  <2>2. LoadWallet(ws, payer).balance \in Nat
    BY DEF WalletsOK, LoadWallet
  <2> QED BY <1>1, <2>1, <2>2
<1>3. PayIfAccepted(r, ws, TRUE) = callPayToAB_Mock(ws, payer, payee, amountA, amountB)
  BY DEF PayIfAccepted, PayerOf
<1> HIDE DEF payer, payee, amountA, amountB
<1>4. LET new == callPayToAB_Mock(ws, payer, payee, amountA, amountB)
      IN  /\ WalletsOK(new)
          /\ Total(new) = Total(ws)
          /\ LoadWallet(new, payer).nonces = addNonces(LoadWallet(ws, payer).nonces)
          /\ \A x : x # payer => LoadWallet(new, x).nonces = LoadWallet(ws, x).nonces
  BY <1>1, <1>2, PaymentMovesTokens
<1> QED BY <1>3, <1>4 DEF payer

-----------------------------------------------------------------------------
(* The inductive invariant.                                                 *)

StoreOK(store) ==
    store = [entries |-> store.entries, keyMap |-> store.keyMap, ranges |-> store.ranges]

AppOK(app) ==
    /\ app = [height |-> app.height, db |-> app.db, batch |-> app.batch]
    /\ app.height \in Nat /\ StoreOK(app.db)

AppsOK ==
    /\ apps = [s \in DOMAIN apps |-> apps[s]]
    /\ \A s \in DOMAIN apps : AppOK(apps[s])

Signer(r) == r.sp.signature.by

\* The payments of one signer, the first and the last included.
PaidBy(ps, who, first, last) == {k \in first .. last : Signer(ps[k]) = who}

Turns(ps, i) == Cardinality(PaidBy(ps, Signer(ps[i]), i, Len(ps)))

\* The nonces after so many payments.
NoncesAfter(n, turns) ==
    IF n + turns < NonceWrap THEN n + turns ELSE n + turns - NonceWrap

\* Whoever signed a payment has nonces since as many further as he signed payments,
\* until they have come round.
NoncesCount ==
    \A i \in DOMAIN payments :
        /\ payments[i].sp.nonces \in 0 .. NonceWrap - 1
        /\ payments[i].sp.signature.over[3] = payments[i].sp.nonces
        /\ Turns(payments, i) < NonceWrap =>
            LoadWallet(wallets, Signer(payments[i])).nonces
                = NoncesAfter(payments[i].sp.nonces, Turns(payments, i))

IInv ==
    /\ WalletsOK(wallets)
    /\ AppsOK
    /\ payments \in Seq(Requests) /\ now \in Nat
    /\ TokensAreConserved
    /\ StoredIsPaid
    /\ NoncesCount
    /\ PaymentTakenOnce

\* It holds before any payment.
LEMMA InitInv == Init => IInv
<1> SUFFICES ASSUME Init PROVE IInv
  OBVIOUS
<1>1. WalletsOK(wallets)
  BY MockAssumption DEF Init, WalletsOK
<1>2. AppsOK
  BY DEF Init, AppsOK, AppOK, StoreOK, EmptyStore
<1>3. payments = << >> /\ payments \in Seq(Requests) /\ DOMAIN payments = {} /\ now \in Nat
  BY DEF Init
<1>4. TokensAreConserved
  BY DEF Init, TokensAreConserved
<1>5. StoredIsPaid
  BY <1>3 DEF Init, StoredIsPaid, Kept, PaidFor, EmptyStore, EmptyMap
<1>6. NoncesCount
  BY <1>3 DEF NoncesCount
<1>7. PaymentTakenOnce
  BY <1>3 DEF PaymentTakenOnce
<1> QED BY <1>1, <1>2, <1>3, <1>4, <1>5, <1>6, <1>7 DEF IInv

-----------------------------------------------------------------------------
(* A step.                                                                  *)

\* What an accepted transaction makes of the entries: it writes or deletes under its
\* main key, or does nothing.
Holds(new, entries, tx) ==
    /\ DOMAIN new = IF IsNothing(tx) THEN DOMAIN entries
                    ELSE IF tx.content = NoContent THEN DOMAIN entries \ {KeyOf(tx)}
                    ELSE DOMAIN entries \cup {KeyOf(tx)}
    /\ \A k \in DOMAIN new :
        new[k].tx = IF ~IsNothing(tx) /\ k = KeyOf(tx) THEN tx ELSE entries[k].tx

\* The application keeps what it answers OK to.
LEMMA AcceptedIsHeld ==
    ASSUME NEW store, StoreOK(store), NEW tx, NEW clock, NEW accepted \in 0 .. CreateWriteCount,
           putGanyTx(store, tx, BlockSn(tx), clock, accepted).code = OK
    PROVE  LET new == putGanyTx(store, tx, BlockSn(tx), clock, accepted).store
           IN  StoreOK(new) /\ Holds(new.entries, store.entries, tx)
<1> DEFINE sn == BlockSn(tx)
           put == putGanyTx(store, tx, sn, clock, accepted)
           key == KeyOf(tx)
<1> HIDE DEF sn
<1>1. CASE tx.oldSn = NoSn
  <2>1. put = createGanyTx(store, tx, sn, clock, accepted) /\ key = MainKey(tx, sn)
    BY <1>1 DEF putGanyTx, KeyOf, sn
  <2>2. CASE tx.content = NoContent
    BY <1>1, <2>1, <2>2 DEF createGanyTx, Holds, IsNothing, sn
  <2>3. CASE tx.content # NoContent
    <3>1. put.code = OK
      BY DEF sn
    <3>2. accepted = 3 /\ put.store = CreateWrites(store, tx, sn, clock, accepted)
      <4>1. put = IF TooLongAgo(tx, sn[1])
                  THEN [code |-> TimestampTooLong, store |-> store]
                  ELSE [code |-> IF accepted = CreateWriteCount THEN OK ELSE ErrorOther,
                        store |-> CreateWrites(store, tx, sn, clock, accepted)]
        BY <2>1, <2>3 DEF createGanyTx
      <4> QED BY <3>1, <4>1 DEF OK, ErrorOther, TimestampTooLong, CreateWriteCount
    <3> HIDE DEF put
    <3>3. PICK entry : entry.tx = tx /\ put.store.entries = Put(store.entries, key, entry)
      BY <2>1, <3>2 DEF CreateWrites
    <3>4. StoreOK(put.store)
      BY <3>2 DEF CreateWrites, StoreOK
    <3>5. Holds(put.store.entries, store.entries, tx)
      BY <2>3, <3>3 DEF Holds, IsNothing, Put, key
    <3> QED BY <3>4, <3>5 DEF put, sn
  <2> QED BY <2>2, <2>3
<1>2. CASE tx.oldSn # NoSn
  <2>1. put = overwriteBulletin(store, tx, clock, accepted) /\ key = MainKey(tx, tx.oldSn)
    BY <1>2 DEF putGanyTx, KeyOf
  <2> DEFINE entries == IF tx.content = NoContent THEN Delete(store.entries, key)
                        ELSE Put(store.entries, key, NextVersion(store.entries[key], tx, clock))
  <2>2. put.code = OK
    BY DEF sn
  <2>3. put = [code |-> OK, store |-> [store EXCEPT !.entries = entries]]
    <3> DEFINE error == OverwriteError(store, tx, clock)
    <3>1. put = IF error # OK THEN [code |-> error, store |-> store]
                ELSE IF accepted = 0 THEN [code |-> ErrorOther, store |-> store]
                ELSE [code |-> OK, store |-> [store EXCEPT !.entries = entries]]
      BY <2>1 DEF overwriteBulletin
    <3> HIDE DEF error, entries, put
    <3> QED BY <2>2, <3>1 DEF OK, ErrorOther
  <2> HIDE DEF put
  <2>4. put.store = [entries |-> entries, keyMap |-> store.keyMap, ranges |-> store.ranges]
    <3> HIDE DEF entries
    <3> QED BY <2>3 DEF StoreOK
  <2>5. StoreOK(put.store) /\ put.store.entries = entries
    <3> HIDE DEF entries
    <3> QED BY <2>4 DEF StoreOK
  <2>6. Holds(entries, store.entries, tx)
    <3>1. CASE tx.content = NoContent
      BY <1>2, <3>1 DEF Holds, IsNothing, Delete, Restrict, key
    <3>2. CASE tx.content # NoContent
      <4>1. NextVersion(store.entries[key], tx, clock).tx = tx
        BY DEF NextVersion
      <4> QED BY <3>2, <4>1 DEF Holds, IsNothing, Put, key
    <3> QED BY <3>1, <3>2
  <2> QED BY <2>5, <2>6 DEF put, sn
<1> QED BY <1>1, <1>2

\* A block stores what it accepts and forgets what was refused.
LEMMA BlockStoresAccepted ==
    ASSUME NEW app, AppOK(app), NEW tx, NEW clock, NEW accepted \in 0 .. CreateWriteCount
    PROVE  LET sent == BroadcastTx(app, tx, clock, accepted)
           IN  /\ AppOK(sent.app)
               /\ IF sent.code = OK THEN Holds(sent.app.db.entries, app.db.entries, tx)
                  ELSE sent.app.db = app.db
<1> DEFINE h == app.height
           db == app.db
           put == putGanyTx(db, tx, BlockSn(tx), clock, accepted)
           batch == put.store
           sent == BroadcastTx(app, tx, clock, accepted)
           delivered == [height |-> h, db |-> db, batch |-> batch]
<1>1. h \in Nat /\ StoreOK(db)
  BY DEF AppOK
<1>2. BeginBlock(app) = [height |-> h, db |-> db, batch |-> db]
  BY DEF AppOK, BeginBlock
<1>3. sent = [code |-> put.code,
              app |-> IF put.code = OK THEN Commit(delivered) ELSE delivered]
  <2> DEFINE begun == [height |-> h, db |-> db, batch |-> db]
             result(b) == putGanyTx(b.batch, tx, BlockSn(tx), clock, accepted)
             block(b) == [b EXCEPT !.batch = result(b).store]
             answer(b) == [code |-> result(b).code,
                           app |-> IF result(b).code = OK THEN Commit(block(b)) ELSE block(b)]
  <2>1. sent = answer(BeginBlock(app))
    BY DEF BroadcastTx
  <2>2. begun.batch = db
    OBVIOUS
  <2>3. result(begun) = put
    BY <2>2
  <2>4. [begun EXCEPT !.batch = batch] = delivered
    <3> HIDE DEF h, db, batch
    <3> QED OBVIOUS
  <2>5. block(begun) = delivered
    BY <2>3, <2>4
  <2>6. sent = answer(begun)
    BY <1>2, <2>1
  <2> HIDE DEF begun, result, block, put, delivered, sent
  <2> QED BY <2>3, <2>5, <2>6
<1>4. Commit(delivered) = [height |-> h + 1, db |-> batch, batch |-> batch]
  <2> DEFINE next == h + 1
  <2>1. Commit(delivered) = [delivered EXCEPT !.db = batch, !.height = next]
    <3> HIDE DEF h, db, batch
    <3> QED BY DEF Commit
  <2> HIDE DEF next, h, db, batch
  <2>2. [delivered EXCEPT !.db = batch, !.height = next]
          = [height |-> next, db |-> batch, batch |-> batch]
    <3> DEFINE stored == [height |-> h, db |-> batch, batch |-> batch]
    <3>1. [delivered EXCEPT !.db = batch] = stored
      OBVIOUS
    <3>2. [stored EXCEPT !.height = next]
            = [height |-> next, db |-> batch, batch |-> batch]
      OBVIOUS
    <3>3. [delivered EXCEPT !.db = batch, !.height = next]
            = [[delivered EXCEPT !.db = batch] EXCEPT !.height = next]
      BY Zenon
    <3> QED BY <3>1, <3>2, <3>3
  <2> QED BY <2>1, <2>2 DEF next
<1>5. CASE put.code = OK
  <2> DEFINE new == [height |-> h + 1, db |-> batch, batch |-> batch]
  <2>1. StoreOK(batch) /\ Holds(batch.entries, db.entries, tx)
    <3> HIDE DEF db
    <3> QED BY <1>1, <1>5, AcceptedIsHeld
  <2>2. sent.app = new /\ sent.code = OK
    BY <1>3, <1>4, <1>5
  <2>3. AppOK(new) /\ new.db = batch
    <3> HIDE DEF batch, db
    <3>1. new.height = h + 1 /\ new.db = batch /\ new.batch = batch
      OBVIOUS
    <3> HIDE DEF h
    <3> QED BY <1>1, <2>1, <3>1 DEF AppOK
  <2> HIDE DEF new, batch, sent, put
  <2> QED BY <2>1, <2>2, <2>3 DEF sent, db
<1>6. CASE put.code # OK
  <2>1. sent.app = delivered /\ sent.code # OK
    BY <1>3, <1>6
  <2>2. AppOK(delivered) /\ delivered.db = db
    <3> HIDE DEF batch, db, h
    <3>1. delivered.height = h /\ delivered.db = db /\ delivered.batch = batch
      OBVIOUS
    <3> QED BY <1>1, <3>1 DEF AppOK
  <2> HIDE DEF delivered, sent, put
  <2> QED BY <2>1, <2>2 DEF sent, db
<1> QED BY <1>5, <1>6

\* What is kept of the payments when there is one more.
LEMMA KeptAppended ==
    ASSUME NEW ps \in Seq(Requests), NEW r \in Requests, NEW s
    PROVE  Kept(Append(ps, r), s)
             = IF ShardIndex(r) # s \/ IsNothing(r.tx) THEN Kept(ps, s)
               ELSE {i \in Kept(ps, s) : KeyOf(ps[i].tx) # KeyOf(r.tx)}
                    \cup (IF r.tx.content = NoContent THEN {} ELSE {Len(ps) + 1})
<1> DEFINE n == Len(ps)
           more == Append(ps, r)
<1>1. /\ n \in Nat /\ DOMAIN ps = 1 .. n /\ DOMAIN more = 1 .. n + 1
      /\ \A k \in 1 .. n : more[k] = ps[k]
      /\ more[n + 1] = r
  OBVIOUS
<1> HIDE DEF n, more
<1>2. CASE ShardIndex(r) # s \/ IsNothing(r.tx)
  <2>1. PaidFor(more, s) = PaidFor(ps, s)
    BY <1>1, <1>2 DEF PaidFor
  <2>2. PaidFor(ps, s) \subseteq 1 .. n
    BY <1>1 DEF PaidFor
  <2>3. Kept(more, s) = Kept(ps, s)
    BY <1>1, <2>1, <2>2 DEF Kept
  <2> QED BY <1>2, <2>3 DEF more
<1>3. CASE ShardIndex(r) = s /\ ~IsNothing(r.tx)
  <2>1. PaidFor(more, s) = PaidFor(ps, s) \cup {n + 1}
    BY <1>1, <1>3 DEF PaidFor
  <2>2. PaidFor(ps, s) \subseteq 1 .. n
    BY <1>1 DEF PaidFor
  <2>3. ASSUME NEW i \in 1 .. n
        PROVE  i \in Kept(more, s) <=> i \in Kept(ps, s) /\ KeyOf(ps[i].tx) # KeyOf(r.tx)
    <3>1. more[i] = ps[i] /\ i # n + 1 /\ ~(n + 1 <= i)
      BY <1>1
    <3>2. i \in PaidFor(more, s) <=> i \in PaidFor(ps, s)
      BY <2>1, <3>1
    <3>3. (\A j \in PaidFor(more, s) : KeyOf(more[j].tx) = KeyOf(more[i].tx) => j <= i)
            <=> /\ \A j \in PaidFor(ps, s) : KeyOf(ps[j].tx) = KeyOf(ps[i].tx) => j <= i
                /\ KeyOf(r.tx) # KeyOf(ps[i].tx)
      BY <1>1, <2>1, <2>2, <3>1
    <3> QED BY <3>1, <3>2, <3>3 DEF Kept
  <2>4. n + 1 \in Kept(more, s) <=> r.tx.content # NoContent
    <3>1. \A j \in PaidFor(more, s) : j <= n + 1
      BY <1>1, <2>1, <2>2
    <3> QED BY <1>1, <2>1, <3>1 DEF Kept
  <2>5. Kept(more, s) \subseteq 1 .. n + 1 /\ Kept(ps, s) \subseteq 1 .. n
    BY <1>1 DEF Kept, PaidFor
  <2>6. Kept(more, s) = {i \in Kept(ps, s) : KeyOf(ps[i].tx) # KeyOf(r.tx)}
                        \cup (IF r.tx.content = NoContent THEN {} ELSE {n + 1})
    <3>1. \A i : i \in 1 .. n + 1 <=> i \in 1 .. n \/ i = n + 1
      BY <1>1
    <3>2. n + 1 \notin 1 .. n
      BY <1>1
    <3> QED BY <2>3, <2>4, <2>5, <3>1, <3>2
  <2> QED BY <1>3, <2>6 DEF more, n
<1> QED BY <1>2, <1>3

\* The entries are those of the payments in ps that are kept.
IsKept(entries, ps, s) ==
    /\ DOMAIN entries = {KeyOf(ps[i].tx) : i \in Kept(ps, s)}
    /\ \A i \in Kept(ps, s) : entries[KeyOf(ps[i].tx)].tx = ps[i].tx

\* A database that holds what was paid for holds what is kept when one more is paid for.
LEMMA HeldIsKept ==
    ASSUME NEW ps \in Seq(Requests), NEW r \in Requests, NEW entries, NEW new,
           IsKept(entries, ps, ShardIndex(r)), Holds(new, entries, r.tx)
    PROVE  IsKept(new, Append(ps, r), ShardIndex(r))
<1> DEFINE n == Len(ps)
           more == Append(ps, r)
           s == ShardIndex(r)
           old == Kept(ps, s)
           kept == Kept(more, s)
           key == KeyOf(r.tx)
<1>1. /\ n \in Nat /\ \A k \in 1 .. n : more[k] = ps[k]
      /\ more[n + 1] = r /\ old \subseteq 1 .. n /\ n + 1 \notin 1 .. n
  BY DEF Kept, PaidFor
<1>2. kept = IF IsNothing(r.tx) THEN old
             ELSE {i \in old : KeyOf(ps[i].tx) # key}
                  \cup (IF r.tx.content = NoContent THEN {} ELSE {n + 1})
  <2> HIDE DEF s
  <2>1. ShardIndex(r) = s
    BY DEF s
  <2> QED BY <2>1, KeptAppended
<1>3. /\ DOMAIN entries = {KeyOf(ps[i].tx) : i \in old}
      /\ \A i \in old : entries[KeyOf(ps[i].tx)].tx = ps[i].tx
  BY DEF IsKept
<1> HIDE DEF n, more, s, old, kept
<1>4. CASE IsNothing(r.tx)
  <2>1. DOMAIN new = DOMAIN entries /\ \A k \in DOMAIN new : new[k].tx = entries[k].tx
    BY <1>4 DEF Holds
  <2>2. kept = old /\ \A i \in old : more[i] = ps[i]
    BY <1>1, <1>2, <1>4
  <2>3. {KeyOf(more[i].tx) : i \in kept} = {KeyOf(ps[i].tx) : i \in old}
    BY <2>2
  <2>4. \A i \in kept : KeyOf(more[i].tx) \in DOMAIN new
                        /\ entries[KeyOf(more[i].tx)].tx = more[i].tx
    BY <1>3, <2>1, <2>2, <2>3
  <2> QED BY <1>3, <2>1, <2>3, <2>4 DEF IsKept, more, kept, s
<1>5. CASE ~IsNothing(r.tx)
  <2> DEFINE others == {i \in old : KeyOf(ps[i].tx) # key}
  <2>1. /\ \A k \in DOMAIN new : new[k].tx = IF k = key THEN r.tx ELSE entries[k].tx
        /\ DOMAIN new = IF r.tx.content = NoContent THEN DOMAIN entries \ {key}
                        ELSE DOMAIN entries \cup {key}
    BY <1>5 DEF Holds
  <2>2. DOMAIN entries \ {key} = {KeyOf(more[i].tx) : i \in others}
    BY <1>1, <1>3
  <2>3. kept = others \cup (IF r.tx.content = NoContent THEN {} ELSE {n + 1})
    BY <1>2, <1>5
  <2>4. \A i \in others : /\ more[i] = ps[i] /\ KeyOf(more[i].tx) # key
                          /\ KeyOf(more[i].tx) \in DOMAIN new
                          /\ new[KeyOf(more[i].tx)].tx = more[i].tx
    BY <1>1, <1>3, <2>1
  <2> HIDE DEF others
  <2>5. CASE r.tx.content = NoContent
    BY <2>1, <2>2, <2>3, <2>4, <2>5 DEF IsKept, more, kept, s
  <2>6. CASE r.tx.content # NoContent
    <3> HIDE DEF key
    <3>1. kept = others \cup {n + 1} /\ KeyOf(more[n + 1].tx) = key
      BY <1>1, <2>3, <2>6 DEF key
    <3>2. DOMAIN new = (DOMAIN entries \ {key}) \cup {key}
      BY <2>1, <2>6
    <3>3. DOMAIN new = {KeyOf(more[i].tx) : i \in kept}
      BY <2>2, <3>1, <3>2
    <3>4. new[key].tx = more[n + 1].tx
      BY <1>1, <2>1, <3>2
    <3> QED BY <2>4, <3>1, <3>3, <3>4 DEF IsKept, more, kept, s
  <2> QED BY <2>5, <2>6
<1> QED BY <1>4, <1>5

\* A payment is one more turn of its signer.
LEMMA TurnsOfAppended ==
    ASSUME NEW ps \in Seq(Requests), NEW r \in Requests
    PROVE  /\ \A i \in DOMAIN ps :
                /\ Turns(ps, i) \in Nat \ {0}
                /\ Turns(Append(ps, r), i)
                     = IF Signer(r) = Signer(ps[i]) THEN Turns(ps, i) + 1 ELSE Turns(ps, i)
           /\ Turns(Append(ps, r), Len(ps) + 1) = 1
<1> DEFINE n == Len(ps)
           more == Append(ps, r)
<1>1. /\ n \in Nat /\ DOMAIN ps = 1 .. n /\ Len(more) = n + 1
      /\ \A k \in 1 .. n : more[k] = ps[k]
      /\ more[n + 1] = r
  OBVIOUS
<1> HIDE DEF n, more
<1>2. ASSUME NEW i \in 1 .. n
      PROVE  /\ Turns(ps, i) \in Nat \ {0}
             /\ Turns(more, i)
                  = IF Signer(r) = Signer(ps[i]) THEN Turns(ps, i) + 1 ELSE Turns(ps, i)
  <2> DEFINE who == Signer(ps[i])
             old == PaidBy(ps, who, i, n)
             new == PaidBy(more, who, i, n + 1)
  <2>1. IsFiniteSet(old)
    <3>1. IsFiniteSet(i .. n)
      BY <1>1, FS_Interval
    <3>2. old \subseteq i .. n
      BY DEF PaidBy
    <3> QED BY <3>1, <3>2, FS_Subset
  <2>2. i \in old /\ n + 1 \notin old
    BY <1>1 DEF PaidBy
  <2>3. Turns(ps, i) = Cardinality(old)
    BY DEF Turns, n
  <2>4. Turns(more, i) = Cardinality(new)
    BY <1>1 DEF Turns
  <2>5. new = IF Signer(r) = who THEN old \cup {n + 1} ELSE old
    <3>1. \A k \in i .. n : more[k] = ps[k]
      BY <1>1
    <3>2. i .. n + 1 = (i .. n) \cup {n + 1}
      BY <1>1
    <3> HIDE DEF who
    <3> QED BY <1>1, <3>1, <3>2 DEF PaidBy
  <2> HIDE DEF old, new
  <2>6. Cardinality(old) \in Nat /\ Cardinality(old) # 0
    BY <2>1, <2>2, FS_CardinalityType, FS_EmptySet
  <2>7. Cardinality(old \cup {n + 1}) = Cardinality(old) + 1
    BY <2>1, <2>2, FS_AddElement
  <2> QED BY <2>3, <2>4, <2>5, <2>6, <2>7
<1>3. Turns(more, n + 1) = 1
  <2>1. PaidBy(more, Signer(more[n + 1]), n + 1, n + 1) = {n + 1}
    BY <1>1 DEF PaidBy
  <2>2. Cardinality({n + 1}) = 1
    BY FS_Singleton
  <2> QED BY <1>1, <2>1, <2>2 DEF Turns
<1> QED BY <1>1, <1>2, <1>3 DEF more, n

\* The nonces of the signer count on.
LEMMA NoncesCountOn ==
    ASSUME NEW n \in 0 .. NonceWrap - 1, NEW turns \in Nat, turns + 1 < NonceWrap
    PROVE  addNonces(NoncesAfter(n, turns)) = NoncesAfter(n, turns + 1)
<1>1. NonceWrap \in Nat
  BY MockAssumption
<1>2. NoncesAfter(n, turns) \in 0 .. NonceWrap - 1
  BY <1>1 DEF NoncesAfter
<1>3. addNonces(NoncesAfter(n, turns))
        = IF NoncesAfter(n, turns) + 1 = NonceWrap THEN 0 ELSE NoncesAfter(n, turns) + 1
  BY <1>2, NoncesGoRound
<1> QED BY <1>1, <1>3 DEF NoncesAfter

\* The nonces that a payment has used do not come back sooner.
LEMMA NoncesDiffer ==
    ASSUME NEW n \in 0 .. NonceWrap - 1, NEW turns \in Nat \ {0}, turns < NonceWrap
    PROVE  NoncesAfter(n, turns) # n
BY MockAssumption DEF NoncesAfter

\* A refused request changes nothing of the wallets and payments, and stores nothing.
LEMMA RefusedKeepsInv ==
    ASSUME IInv, NEW r \in Requests, NEW accepted \in 0 .. CreateWriteCount,
           BroadcastTx(apps[ShardIndex(r)], r.tx, now, accepted).code # OK,
           apps' = [apps EXCEPT ![ShardIndex(r)] =
                        BroadcastTx(apps[ShardIndex(r)], r.tx, now, accepted).app],
           wallets' = wallets, payments' = payments, now' = now
    PROVE  IInv'
<1> DEFINE sent == BroadcastTx(apps[ShardIndex(r)], r.tx, now, accepted)
<1>1. /\ DOMAIN apps' = DOMAIN apps
      /\ apps' = [s \in DOMAIN apps' |-> apps'[s]]
      /\ \A s \in DOMAIN apps : apps'[s] = IF s = ShardIndex(r) THEN sent.app ELSE apps[s]
  <2> HIDE DEF sent
  <2> QED BY DEF IInv, AppsOK, sent
<1>2. \A s \in DOMAIN apps : AppOK(apps'[s]) /\ apps'[s].db = apps[s].db
  <2> TAKE s \in DOMAIN apps
  <2>1. AppOK(apps[s])
    BY DEF IInv, AppsOK
  <2>2. CASE s = ShardIndex(r)
    BY <1>1, <2>1, <2>2, BlockStoresAccepted
  <2>3. CASE s # ShardIndex(r)
    BY <1>1, <2>1, <2>3
  <2> QED BY <2>2, <2>3
<1>3. AppsOK'
  BY <1>1, <1>2 DEF AppsOK, AppOK
<1>4. StoredIsPaid'
  BY <1>1, <1>2 DEF IInv, StoredIsPaid
<1>5. (WalletsOK(wallets) /\ TokensAreConserved /\ payments \in Seq(Requests) /\ now \in Nat)'
  BY DEF IInv, TokensAreConserved
<1>6. NoncesCount'
  BY DEF IInv, NoncesCount
<1>7. PaymentTakenOnce'
  BY DEF IInv, PaymentTakenOnce
<1> QED BY <1>3, <1>4, <1>5, <1>6, <1>7 DEF IInv

\* The new payment does not bear the signature of one that is less than a round old.
LEMMA NewPaymentTakenOnce ==
    ASSUME IInv, NEW r \in Requests, Checks_Mock(r, wallets) = "ok", NEW i \in DOMAIN payments,
           payments[i].sp.signature = r.sp.signature
    PROVE  Turns(payments, i) >= NonceWrap
<1> DEFINE n == payments[i].sp.nonces
           turns == Turns(payments, i)
<1>1. turns \in Nat \ {0}
  BY TurnsOfAppended DEF IInv
<1>2. /\ n \in 0 .. NonceWrap - 1
      /\ turns < NonceWrap =>
            LoadWallet(wallets, Signer(payments[i])).nonces = NoncesAfter(n, turns)
      /\ payments[i].sp.signature.over[3] = n
  BY DEF IInv, NoncesCount
<1>3. r.sp.nonces = n /\ PayerOf(r) = Signer(payments[i])
  BY <1>2, CheckedPayment DEF Signer
<1>4. LoadWallet(wallets, Signer(payments[i])).nonces = n
  BY <1>3, CheckedPayment
<1> HIDE DEF n, turns
<1>5. ~(turns < NonceWrap)
  BY <1>1, <1>2, <1>4, NoncesDiffer
<1>6. turns >= NonceWrap
  BY <1>1, <1>5, MockAssumption
<1> QED BY <1>6 DEF turns

\* An accepted request stores its bulletin, moves its amounts, and is one more turn of
\* its payer's nonces.
LEMMA AcceptedKeepsInv ==
    ASSUME IInv, NEW r \in Requests, Checks_Mock(r, wallets) = "ok",
           NEW accepted \in 0 .. CreateWriteCount,
           BroadcastTx(apps[ShardIndex(r)], r.tx, now, accepted).code = OK,
           apps' = [apps EXCEPT ![ShardIndex(r)] =
                        BroadcastTx(apps[ShardIndex(r)], r.tx, now, accepted).app],
           wallets' = PayIfAccepted(r, wallets, TRUE), payments' = Append(payments, r),
           now' = now
    PROVE  IInv'
<1> DEFINE n == Len(payments)
           sent == BroadcastTx(apps[ShardIndex(r)], r.tx, now, accepted)
<1>1. /\ DOMAIN apps' = DOMAIN apps
      /\ apps' = [s \in DOMAIN apps' |-> apps'[s]]
      /\ \A s \in DOMAIN apps : apps'[s] = IF s = ShardIndex(r) THEN sent.app ELSE apps[s]
  <2> HIDE DEF sent
  <2> QED BY DEF IInv, AppsOK, sent
<1>2. \A s \in DOMAIN apps :
        /\ AppOK(apps'[s])
        /\ IF s = ShardIndex(r)
           THEN Holds(apps'[s].db.entries, apps[s].db.entries, r.tx)
           ELSE apps'[s] = apps[s]
  <2> TAKE s \in DOMAIN apps
  <2>1. AppOK(apps[s])
    BY DEF IInv, AppsOK
  <2>2. CASE s = ShardIndex(r)
    BY <1>1, <2>1, <2>2, BlockStoresAccepted
  <2>3. CASE s # ShardIndex(r)
    BY <1>1, <2>1, <2>3
  <2> QED BY <2>2, <2>3
<1> HIDE DEF sent
<1>3. AppsOK'
  BY <1>1, <1>2 DEF AppsOK, AppOK
<1>4. /\ payments \in Seq(Requests) /\ payments' \in Seq(Requests) /\ n \in Nat
      /\ DOMAIN payments = 1 .. n /\ DOMAIN payments' = 1 .. n + 1
      /\ \A k \in 1 .. n : payments'[k] = payments[k]
      /\ payments'[n + 1] = r /\ Len(payments') = n + 1
  BY DEF IInv
<1>5. /\ (WalletsOK(wallets) /\ TokensAreConserved)'
      /\ LoadWallet(wallets', PayerOf(r)).nonces
            = addNonces(LoadWallet(wallets, PayerOf(r)).nonces)
      /\ \A x : x # PayerOf(r) =>
            LoadWallet(wallets', x).nonces = LoadWallet(wallets, x).nonces
  BY AcceptedPays DEF IInv, TokensAreConserved
<1> HIDE DEF n
<1>7. StoredIsPaid'
  <2> SUFFICES ASSUME NEW s \in DOMAIN apps
      PROVE  IsKept(apps'[s].db.entries, payments', s)
    BY <1>1 DEF StoredIsPaid, IsKept
  <2>1. IsKept(apps[s].db.entries, payments, s)
    BY DEF IInv, StoredIsPaid, IsKept
  <2>2. CASE s = ShardIndex(r)
    <3>1. Holds(apps'[s].db.entries, apps[s].db.entries, r.tx)
      BY <1>2, <2>2
    <3> QED BY <1>4, <2>1, <2>2, <3>1, HeldIsKept
  <2>3. CASE s # ShardIndex(r)
    <3>1. Kept(payments', s) = Kept(payments, s)
      BY <1>4, <2>3, KeptAppended
    <3>2. \A i \in Kept(payments, s) : payments'[i] = payments[i]
      BY <1>4 DEF Kept, PaidFor
    <3>3. apps'[s] = apps[s]
      BY <1>2, <2>3
    <3> DEFINE kept == Kept(payments, s)
               entries == apps[s].db.entries
    <3>4. /\ DOMAIN entries = {KeyOf(payments[i].tx) : i \in kept}
          /\ \A i \in kept : entries[KeyOf(payments[i].tx)].tx = payments[i].tx
      BY <2>1 DEF IsKept
    <3>5. {KeyOf(payments'[i].tx) : i \in kept} = {KeyOf(payments[i].tx) : i \in kept}
      BY <3>2
    <3> HIDE DEF kept, entries
    <3>6. /\ DOMAIN entries = {KeyOf(payments'[i].tx) : i \in kept}
          /\ \A i \in kept : entries[KeyOf(payments'[i].tx)].tx = payments'[i].tx
      BY <3>2, <3>4, <3>5 DEF kept
    <3> QED BY <3>1, <3>3, <3>6 DEF IsKept, kept, entries
  <2> QED BY <2>2, <2>3
<1>8. r.sp.nonces = LoadWallet(wallets, PayerOf(r)).nonces /\ PayerOf(r) = Signer(r)
      /\ r.sp.signature.over[3] = r.sp.nonces
  BY CheckedPayment DEF Signer
<1>9. r.sp.nonces \in 0 .. NonceWrap - 1
  BY <1>8, MockAssumption DEF IInv, WalletsOK, LoadWallet
<1>10. /\ \A i \in 1 .. n :
            /\ Turns(payments, i) \in Nat \ {0}
            /\ Turns(payments', i)
                 = IF Signer(r) = Signer(payments[i]) THEN Turns(payments, i) + 1
                   ELSE Turns(payments, i)
       /\ Turns(payments', n + 1) = 1
  BY <1>4, TurnsOfAppended DEF n
<1>11. NoncesCount'
  <2> SUFFICES ASSUME NEW i \in 1 .. n + 1
      PROVE  /\ payments'[i].sp.nonces \in 0 .. NonceWrap - 1
             /\ payments'[i].sp.signature.over[3] = payments'[i].sp.nonces
             /\ Turns(payments', i) < NonceWrap =>
                 LoadWallet(wallets', Signer(payments'[i])).nonces
                     = NoncesAfter(payments'[i].sp.nonces, Turns(payments', i))
    BY <1>4 DEF NoncesCount, Signer
  <2>1. CASE i = n + 1
    <3>1. ASSUME 1 < NonceWrap
          PROVE  addNonces(r.sp.nonces) = NoncesAfter(r.sp.nonces, 1)
      <4>1. addNonces(r.sp.nonces)
              = IF r.sp.nonces + 1 = NonceWrap THEN 0 ELSE r.sp.nonces + 1
        BY <1>9, NoncesGoRound
      <4> QED BY ONLY <1>9, <3>1, <4>1, MockAssumption DEF NoncesAfter
    <3> QED BY <1>4, <1>5, <1>8, <1>9, <1>10, <2>1, <3>1
  <2>2. CASE i # n + 1
    <3>1. i \in 1 .. n /\ i \in DOMAIN payments /\ payments'[i] = payments[i]
      BY <1>4, <2>2
    <3> DEFINE nonces == payments[i].sp.nonces
               turns == Turns(payments, i)
    <3>2. /\ nonces \in 0 .. NonceWrap - 1
          /\ payments[i].sp.signature.over[3] = nonces
          /\ turns < NonceWrap =>
              LoadWallet(wallets, Signer(payments[i])).nonces = NoncesAfter(nonces, turns)
      BY <3>1 DEF IInv, NoncesCount
    <3>3. turns \in Nat
      BY <1>10, <3>1
    <3> HIDE DEF nonces, turns
    <3>4. ASSUME Turns(payments', i) < NonceWrap
          PROVE  LoadWallet(wallets', Signer(payments[i])).nonces
                    = NoncesAfter(nonces, Turns(payments', i))
      <4>1. CASE Signer(r) = Signer(payments[i])
        <5>1. Turns(payments', i) = turns + 1 /\ turns + 1 < NonceWrap
          BY <1>10, <3>1, <3>4, <4>1 DEF turns
        <5>2. turns < NonceWrap
          BY <3>3, <5>1, MockAssumption
        <5> QED BY <1>5, <1>8, <3>2, <3>3, <4>1, <5>1, <5>2, NoncesCountOn
      <4>2. CASE Signer(r) # Signer(payments[i])
        BY <1>5, <1>8, <1>10, <3>1, <3>2, <3>4, <4>2 DEF turns
      <4> QED BY <4>1, <4>2
    <3> QED BY <3>1, <3>2, <3>4 DEF nonces
  <2> QED BY <2>1, <2>2
<1>12. PaymentTakenOnce'
  <2> SUFFICES ASSUME NEW i \in 1 .. n + 1, NEW j \in 1 .. n + 1, i < j,
                      payments'[i].sp.signature = payments'[j].sp.signature
      PROVE  Cardinality(PaidBy(payments', Signer(payments'[i]), i, j - 1)) >= NonceWrap
    BY <1>4 DEF PaymentTakenOnce, PaidBy, Signer
  <2>1. i \in 1 .. n /\ payments'[i] = payments[i] /\ j - 1 \in i .. n
    BY <1>4
  <2>2. PaidBy(payments', Signer(payments'[i]), i, j - 1)
          = PaidBy(payments, Signer(payments[i]), i, j - 1)
    BY <1>4, <2>1 DEF PaidBy
  <2>3. CASE j = n + 1
    <3>1. Turns(payments, i) >= NonceWrap
      BY <1>4, <2>1, <2>3, NewPaymentTakenOnce
    <3>2. j - 1 = Len(payments)
      BY <1>4, <2>3 DEF n
    <3> QED BY <2>2, <3>1, <3>2 DEF Turns
  <2>4. CASE j # n + 1
    <3>1. j \in 1 .. n /\ payments'[j] = payments[j]
      BY <1>4, <2>4
    <3>2. Cardinality(PaidBy(payments, Signer(payments[i]), i, j - 1)) >= NonceWrap
      BY <1>4, <2>1, <3>1 DEF IInv, PaymentTakenOnce, PaidBy, Signer
    <3> QED BY <2>2, <3>2
  <2> QED BY <2>3, <2>4
<1> QED BY <1>3, <1>4, <1>5, <1>7, <1>11, <1>12 DEF IInv

\* Every step keeps it.
LEMMA StepKeepsInv == IInv /\ [Next]_vars => IInv'
<1> SUFFICES ASSUME IInv, [Next]_vars PROVE IInv'
  OBVIOUS
<1>1. ASSUME NEW r \in Requests, PutBulletin(r)
      PROVE  IInv'
  <2> DEFINE sent(accepted) == BroadcastTx(apps[ShardIndex(r)], r.tx, now, accepted)
  <2>1. PICK accepted \in 0 .. CreateWriteCount :
            /\ apps' = [apps EXCEPT ![ShardIndex(r)] = sent(accepted).app]
            /\ wallets' = PayIfAccepted(r, wallets, sent(accepted).code = OK)
            /\ payments' = IF sent(accepted).code = OK THEN Append(payments, r) ELSE payments
    BY <1>1 DEF PutBulletin
  <2>2. Checks_Mock(r, wallets) = "ok" /\ now' = now
    BY <1>1 DEF PutBulletin
  <2>3. CASE sent(accepted).code = OK
    <3>1. wallets' = PayIfAccepted(r, wallets, TRUE) /\ payments' = Append(payments, r)
      BY <2>1, <2>3 DEF PayIfAccepted
    <3> QED BY <2>1, <2>2, <2>3, <3>1, AcceptedKeepsInv
  <2>4. CASE sent(accepted).code # OK
    <3>1. wallets' = wallets /\ payments' = payments
      BY <2>1, <2>4 DEF PayIfAccepted
    <3> QED BY <2>1, <2>2, <2>4, <3>1, RefusedKeepsInv
  <2> QED BY <2>3, <2>4
<1>2. ASSUME wallets' = wallets, apps' = apps, payments' = payments, now' \in Nat
      PROVE  IInv'
  <2>1. WalletsOK(wallets)' /\ (payments \in Seq(Requests))' /\ TokensAreConserved'
    BY <1>2 DEF IInv, TokensAreConserved
  <2>2. AppsOK' /\ StoredIsPaid'
    BY <1>2 DEF IInv, AppsOK, StoredIsPaid
  <2>3. NoncesCount' /\ PaymentTakenOnce'
    BY <1>2 DEF IInv, NoncesCount, PaymentTakenOnce
  <2> QED BY <1>2, <2>1, <2>2, <2>3 DEF IInv
<1>3. CASE Tick
  <2>1. now' \in Nat
    BY <1>3 DEF Tick, IInv
  <2> QED BY <1>2, <1>3, <2>1 DEF Tick
<1>4. CASE UNCHANGED vars
  <2>1. now' \in Nat
    BY <1>4 DEF vars, IInv
  <2> QED BY <1>2, <1>4, <2>1 DEF vars
<1> QED BY <1>1, <1>3, <1>4 DEF Next

\* The invariant holds of every behaviour.
LEMMA Inductive == Spec => []IInv
<1>1. Init => IInv
  BY InitInv
<1>2. IInv /\ [Next]_vars => IInv'
  BY StepKeepsInv
<1> QED BY <1>1, <1>2, PTL DEF Spec

-----------------------------------------------------------------------------
(* The properties.                                                          *)

\* Wallets never owe and nonces stay below their wrap (mock_backend.go:230-258), and
\* the databases hold bulletins of requests.
THEOREM TypeCorrect == Spec => []TypeOK
<1>1. IInv => TypeOK
  <2> SUFFICES ASSUME IInv PROVE TypeOK
    OBVIOUS
  <2>1. ASSUME NEW s \in DOMAIN apps, NEW k \in DOMAIN apps[s].db.entries
        PROVE  apps[s].db.entries[k].tx \in {r.tx : r \in Requests}
    <3>1. PICK i \in Kept(payments, s) : k = KeyOf(payments[i].tx)
      BY <2>1 DEF IInv, StoredIsPaid
    <3>2. apps[s].db.entries[k].tx = payments[i].tx
      BY <2>1, <3>1 DEF IInv, StoredIsPaid
    <3>3. payments[i] \in Requests
      <4>1. i \in DOMAIN payments
        BY DEF Kept, PaidFor
      <4> QED BY <4>1 DEF IInv
    <3> QED BY <3>2, <3>3
  <2> QED BY <2>1 DEF IInv, TypeOK, WalletsOK, AppsOK, AppOK
<1> QED BY <1>1, Inductive, PTL

\* Payments make no tokens and lose none, whoever pays whom (mock_backend.go:215-248).
THEOREM NoTokensAreMade == Spec => []TokensAreConserved
<1>1. IInv => TokensAreConserved
  BY DEF IInv
<1> QED BY <1>1, Inductive, PTL

\* A shard holds what was paid for last under each main key and nothing else, whatever
\* badger refuses in the middle of a transaction (mock_app.go:43-61,
\* mock_backend.go:109-117).
THEOREM StoredMeansPaid == Spec => []StoredIsPaid
<1>1. IInv => StoredIsPaid
  BY DEF IInv
<1> QED BY <1>1, Inductive, PTL

\* Between two payments with one signature the signer's nonces have gone all the way
\* round (mock_backend.go:79-102, 251-258).
THEOREM SignaturesPayOnce == Spec => []PaymentTakenOnce
<1>1. IInv => PaymentTakenOnce
  BY DEF IInv
<1> QED BY <1>1, Inductive, PTL

\* An amount of legal length is copied as a whole.
LEMMA LegalAmountIsCopied ==
    ASSUME NEW address, NEW amount \in Seq(Byte), Len(amount) <= MaxAmountLen
    PROVE  concatAddressAmount(address, amount) = <<address, Uint(amount)>>
<1>1. Min({Len(amount), MaxAmountLen}) = Len(amount)
  BY PaymentAssumption DEF Min
<1>2. SubSeq(amount, 1, Len(amount)) = amount
  OBVIOUS
<1> QED BY <1>1, <1>2 DEF concatAddressAmount

\* V comes out of the number that carries it, and so does the amount.
LEMMA AmountAndVAreUnpacked ==
    ASSUME NEW amount \in Seq(Byte), NEW v \in Byte
    PROVE  /\ PackAmountBV(amount, v) % 256 = v
           /\ PackAmountBV(amount, v) \div 256 = Uint(amount)
<1> DEFINE n == Uint(amount)
<1>1. amount \in Seq(Nat) /\ v \in Nat
  <2>1. Byte \subseteq Nat
    BY DEF Byte
  <2> QED BY <2>1, SeqMonotonic
<1>2. n \in Nat /\ PackAmountBV(amount, v) = 256 * n + v
  BY <1>1, UintOfBytes DEF PackAmountBV
<1>3. v \in 0 .. 255
  BY DEF Byte
<1> HIDE DEF n
<1>4. (256 * n + v) % 256 = v /\ (256 * n + v) \div 256 = n
  BY <1>2, <1>3
<1> QED BY <1>2, <1>4 DEF n

\* The contract unpacks what the payer signed.
LEMMA ContractIsAsked ==
    ASSUME NEW r \in Requests, NEW ws, Checks_Mock(r, ws) = "ok",
           r.sp.root = genValidatorPubKeysMerkleTree(ValidatorList),
           ValidatorKey \in ToSet(genValidatorPubKeysMerkleTree(ValidatorList))
    PROVE  LET asked == payToAB(callPayToAB(r.sp, ValidatorList, ValidatorKey))
           IN  /\ asked.proved
               /\ asked.payer = PayerOf(r)
               /\ asked.nonces = r.sp.nonces
               /\ asked.payee = BytesToAddress(r.sp.payee)
               /\ asked.amountA = Uint(r.sp.amountToPayee)
               /\ asked.amountB = Uint(r.sp.amountToValidator)
<1> DEFINE sp == r.sp
           msg == GenEIP712MsgForAB(sp)
           params == callPayToAB(sp, ValidatorList, ValidatorKey)
           asked == payToAB(params)
<1>1. /\ sp.amountToPayee \in Seq(Byte) /\ sp.amountToValidator \in Seq(Byte)
      /\ sp.signature.v \in Byte
      /\ sp.signature = [by |-> sp.signature.by, over |-> sp.signature.over,
                         id |-> sp.signature.id, v |-> sp.signature.v]
  BY MockAssumption DEF IsPayment
<1>2. /\ Len(sp.amountToPayee) <= MaxAmountLen
      /\ IsNumber(sp.amountToValidator)
      /\ PayerOf(r) = EcRecover(HashOf(sp), sp.signature)
  BY CheckedPayment DEF IsValid
<1>3. /\ params.amountBV % 256 = sp.signature.v
      /\ params.amountBV \div 256 = Uint(sp.amountToValidator)
  <2>1. params.amountBV = PackAmountBV(sp.amountToValidator, sp.signature.v)
    BY DEF callPayToAB, GenEIP712MsgForAB
  <2> HIDE DEF sp, params
  <2> QED BY <1>1, <2>1, AmountAndVAreUnpacked
<1>4. [params.rs EXCEPT !.v = sp.signature.v] = sp.signature
  <2>1. params.rs = [sp.signature EXCEPT !.v = 0]
    BY DEF callPayToAB
  <2> DEFINE by == sp.signature.by
             over == sp.signature.over
             id == sp.signature.id
             v == sp.signature.v
  <2>2. sp.signature = [by |-> by, over |-> over, id |-> id, v |-> v]
    BY <1>1
  <2> HIDE DEF by, over, id, v, sp, params
  <2> DEFINE sig(last) == [by |-> by, over |-> over, id |-> id, v |-> last]
  <2>3. [[sig(v) EXCEPT !.v = 0] EXCEPT !.v = v] = sig(v)
    <3>1. [sig(v) EXCEPT !.v = 0] = sig(0)
      OBVIOUS
    <3>2. [sig(0) EXCEPT !.v = v] = sig(v)
      OBVIOUS
    <3> HIDE DEF sig
    <3> QED BY <3>1, <3>2
  <2>4. v = sp.signature.v
    BY DEF v
  <2> QED BY <2>1, <2>2, <2>3, <2>4
<1>5. msg.payeeAddrA_amountA = <<BytesToAddress(sp.payee), Uint(sp.amountToPayee)>>
  <2>1. msg.payeeAddrA_amountA
          = concatAddressAmount(BytesToAddress(sp.payee), sp.amountToPayee)
    BY DEF GenEIP712MsgForAB
  <2> HIDE DEF sp, msg
  <2> QED BY <1>1, <1>2, <2>1, LegalAmountIsCopied
<1>6. /\ params.payeeAddrA_amountA = msg.payeeAddrA_amountA
      /\ params.pkHashRoot = msg.pkHashRoot /\ params.dueTime_prob = msg.dueTime_prob
      /\ params.seenNonces = msg.seenNonces
      /\ params.pk = ValidatorKey
      /\ params.proof = GetProof(genValidatorPubKeysMerkleTree(ValidatorList), ValidatorKey)
  BY DEF callPayToAB, PublicKeyToXY
<1>7. /\ msg.pkHashRoot = sp.root /\ msg.seenNonces = sp.nonces
      /\ msg.amountB = sp.amountToValidator
  BY DEF GenEIP712MsgForAB
<1>8. HashOfFields(params.pkHashRoot, params.dueTime_prob, params.seenNonces,
                   params.payeeAddrA_amountA, Uint(sp.amountToValidator)) = HashOf(sp)
  <2>1. HashOf(sp) = GetTypedDataHash(msg)
    BY DEF HashOf
  <2> HIDE DEF msg, params, sp
  <2> QED BY <1>2, <1>6, <1>7, <2>1 DEF GetTypedDataHash
<1>9. params.proof = <<params.pkHashRoot, params.pk>>
  BY <1>6, <1>7 DEF GetProof
<1> HIDE DEF msg, params
<1>10. /\ asked.proved = (params.proof = <<params.pkHashRoot, params.pk>>)
       /\ asked.payer
            = EcRecover(HashOfFields(params.pkHashRoot, params.dueTime_prob, params.seenNonces,
                                     params.payeeAddrA_amountA, params.amountBV \div 256),
                        [params.rs EXCEPT !.v = params.amountBV % 256])
       /\ asked.nonces = params.seenNonces
       /\ asked.payee = params.payeeAddrA_amountA[1]
       /\ asked.amountA = params.payeeAddrA_amountA[2]
       /\ asked.amountB = params.amountBV \div 256
  BY DEF payToAB
<1> HIDE DEF asked
<1>11. asked.payer = PayerOf(r)
  BY <1>2, <1>3, <1>4, <1>8, <1>10
<1>12. asked.proved
  BY <1>9, <1>10
<1>13. asked.nonces = sp.nonces /\ asked.amountB = Uint(sp.amountToValidator)
  BY <1>3, <1>6, <1>7, <1>10
<1>14. asked.payee = BytesToAddress(sp.payee) /\ asked.amountA = Uint(sp.amountToPayee)
  BY <1>5, <1>6, <1>10
<1> QED BY <1>11, <1>12, <1>13, <1>14 DEF asked, params

\* A validator of the list that the payer signed asks the contract for the payment
\* that the mock makes itself (backend.go:178-233, mock_backend.go:104-119, 215-229).
THEOREM ContractIsAskedWhatIsPaid ==
    ASSUME ValidatorKey \in ToSet(genValidatorPubKeysMerkleTree(ValidatorList))
    PROVE  Spec => []MockPaysAsContract
<1>1. IInv => MockPaysAsContract
  <2> SUFFICES ASSUME NEW r \in Requests, Checks_Mock(r, wallets) = "ok",
                      r.sp.root = genValidatorPubKeysMerkleTree(ValidatorList)
      PROVE  LET asked == payToAB(callPayToAB(r.sp, ValidatorList, ValidatorKey))
             IN  /\ asked.proved
                 /\ asked.nonces = LoadWallet(wallets, asked.payer).nonces
                 /\ callPayToAB_Mock(wallets, asked.payer, asked.payee,
                                     asked.amountA, asked.amountB)
                      = PayIfAccepted(r, wallets, TRUE)
    BY DEF MockPaysAsContract
  <2> DEFINE asked == payToAB(callPayToAB(r.sp, ValidatorList, ValidatorKey))
  <2>1. /\ asked.proved
        /\ asked.payer = PayerOf(r) /\ asked.nonces = r.sp.nonces
        /\ asked.payee = BytesToAddress(r.sp.payee)
        /\ asked.amountA = Uint(r.sp.amountToPayee)
        /\ asked.amountB = Uint(r.sp.amountToValidator)
    BY ContractIsAsked
  <2>2. r.sp.nonces = LoadWallet(wallets, PayerOf(r)).nonces
    BY CheckedPayment
  <2>3. PayIfAccepted(r, wallets, TRUE)
          = callPayToAB_Mock(wallets, PayerOf(r), BytesToAddress(r.sp.payee),
                             Uint(r.sp.amountToPayee), Uint(r.sp.amountToValidator))
    BY DEF PayIfAccepted, PayerOf
  <2> HIDE DEF asked
  <2> QED BY <2>1, <2>2, <2>3 DEF asked
<1> QED BY <1>1, Inductive, PTL

\* The mock refuses and accepts as the backend does, on the same grounds
\* (mock_backend.go:56-102, backend.go:68-116).
THEOREM MockRefusesAsBackend == Spec => []MockChecksAsBackend
<1>1. MockChecksAsBackend
  <2> SUFFICES ASSUME NEW r \in Requests,
                      r.tx.from \in DOMAIN Delegated => HasWallet(wallets, Delegated[r.tx.from]),
                      checkProb32(r.sp, Beta) = checkProb32_Mock(r.sp)
      PROVE  Checks(r.sp, r.tx.from, Delegated, wallets, Beta) = Checks_Mock(r, wallets)
    BY DEF MockChecksAsBackend
  <2>1. checkAndRestoreAddress(r.sp, r.tx.from, Delegated)
          <=> checkAndRestoreAddress_Mock(r.sp, r.tx.from)
    BY DEF checkAndRestoreAddress, checkAndRestoreAddress_Mock, getDelegatedAddrByMainAddr
  <2>2. CASE ~IsValid(r.sp) \/ ~checkAndRestoreAddress_Mock(r.sp, r.tx.from)
    BY <2>1, <2>2 DEF Checks, Checks_Mock
  <2>3. CASE IsValid(r.sp) /\ checkAndRestoreAddress_Mock(r.sp, r.tx.from)
    <3> DEFINE address == Delegated[r.tx.from]
               wallet == LoadWallet(wallets, address)
    <3>1. getDelegatedAddrByMainAddr(Delegated, r.tx.from) = address
      BY <2>3 DEF getDelegatedAddrByMainAddr, checkAndRestoreAddress_Mock
    <3>2. HasWallet(wallets, address) /\ loadWalletInStochasticPay(wallets, address) = wallet
      BY <2>3 DEF checkAndRestoreAddress_Mock, HasWallet, LoadWallet, loadWalletInStochasticPay
    <3>3. checkNoncesAndBalance(r.sp, wallet) = checkNoncesAndBalance_Mock(r.sp, wallet)
      BY DEF checkNoncesAndBalance, checkNoncesAndBalance_Mock, AmountsFit
    <3> DEFINE verdict == checkNoncesAndBalance_Mock(r.sp, wallet)
               end == IF verdict # "ok" THEN verdict
                      ELSE IF checkProb32_Mock(r.sp) THEN "ok" ELSE "error"
    <3>4. Checks(r.sp, r.tx.from, Delegated, wallets, Beta) = end
      BY <2>1, <2>3, <3>1, <3>2, <3>3 DEF Checks
    <3>5. Checks_Mock(r, wallets) = end
      BY <2>3 DEF Checks_Mock
    <3> QED BY <3>4, <3>5
  <2> QED BY <2>2, <2>3
<1> QED BY <1>1, PTL
=============================================================================
