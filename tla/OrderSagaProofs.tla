-------------------------- MODULE OrderSagaProofs --------------------------
(***************************************************************************)
(* For any number of concurrent orders, carts, stocks, keys, attempts and  *)
(* faults: the order saga keeps its types, confirms one order per          *)
(* idempotency key, sells nothing twice and keeps the books of OrderLedger.*)
(***************************************************************************)
EXTENDS OrderSaga, FiniteSetTheorems, SequenceTheorems, WellFoundedInduction,
        TLAPS

-----------------------------------------------------------------------------
(* Induction over numbers and over the subsets of a finite set *)

Less == {p \in Nat \X Nat : p[1] < p[2]}

LEMMA LessIsWellFounded == IsWellFoundedOn(Less, Nat)
<1>1. OpToRel(<, Nat) = Less
  BY DEF OpToRel, Less
<1> QED
  BY <1>1, NatLessThanWellFounded

\* Induction over the numbers, for a set of them.
LEMMA AllNumbers ==
  ASSUME NEW S \in SUBSET Nat, 0 \in S, \A n \in S : n + 1 \in S
  PROVE  S = Nat
<1> SUFFICES ASSUME S # Nat PROVE FALSE
  OBVIOUS
<1> DEFINE T == Nat \ S
<1>1. T \subseteq Nat /\ T # {}
  OBVIOUS
<1>2. PICK t \in T : \A u \in T : <<u, t>> \notin Less
  BY <1>1, LessIsWellFounded, WFMin
<1>3. t \in Nat /\ t # 0 /\ t - 1 \in Nat /\ t - 1 < t
  BY <1>2
<1>4. t - 1 \notin T
  BY <1>2, <1>3 DEF Less
<1>5. (t - 1) + 1 = t
  BY <1>3
<1> QED
  BY <1>2, <1>3, <1>4, <1>5


\* Induction over the subsets of a finite set, for a set of them.
LEMMA AllSubsets ==
  ASSUME NEW S, IsFiniteSet(S), NEW G \in SUBSET (SUBSET S),
         \A T \in SUBSET S : (\A x \in T : T \ {x} \in G) => T \in G
  PROVE  G = SUBSET S
<1> DEFINE N == {n \in Nat : \A T \in SUBSET S : Cardinality(T) = n => T \in G}
<1>1. \A T \in SUBSET S : IsFiniteSet(T) /\ Cardinality(T) \in Nat
  BY FS_Subset, FS_CardinalityType
<1>2. 0 \in N
  <2>1. ASSUME NEW T \in SUBSET S, Cardinality(T) = 0 PROVE T \in G
    <3>1. T = {}
      BY <1>1, <2>1, FS_EmptySet
    <3> QED
      BY <3>1
  <2> QED
    BY <2>1
<1>3. ASSUME NEW n \in N PROVE n + 1 \in N
  <2>1. ASSUME NEW T \in SUBSET S, Cardinality(T) = n + 1 PROVE T \in G
    <3>1. ASSUME NEW x \in T PROVE T \ {x} \in G
      <4>1. Cardinality(T \ {x}) = n
        <5>1. IsFiniteSet(T) /\ n \in Nat
          BY <1>1, <1>3
        <5>2. Cardinality(T \ {x}) = Cardinality(T) - 1
          BY <3>1, <5>1, FS_RemoveElement
        <5> QED
          BY <2>1, <5>1, <5>2
      <4> QED
        BY <1>3, <4>1
    <3> QED
      BY <3>1
  <2> QED
    BY <1>3, <2>1
<1>4. N = Nat
  <2> HIDE DEF N
  <2>1. N \in SUBSET Nat
    BY DEF N
  <2> QED
    BY <1>2, <1>3, <2>1, AllNumbers
<1> QED
  BY <1>1, <1>4

-----------------------------------------------------------------------------
(* Sums over a finite set *)

Chosen(T) == CHOOSE x \in T : TRUE
Step(f, it, T) == IF T = {} THEN 0 ELSE f[Chosen(T)] + it[T \ {Chosen(T)}]
Computes(it, f, S) == it = [T \in SUBSET S |-> Step(f, it, T)]

LEMMA SumUnfolds ==
  ASSUME NEW f, NEW S
  PROVE  SumFunctionOnSet(f, S) = (CHOOSE it : Computes(it, f, S))[S]
BY DEF SumFunctionOnSet, FoldFunctionOnSet, MapThenFoldSet, Step, Chosen, Computes

LEMMA ChosenIsMember == \A T : T # {} => Chosen(T) \in T
BY DEF Chosen

\* The recursion of the fold has a solution on every finite set: it is built
\* up from the smaller subsets to the larger ones.
LEMMA SumExists ==
  ASSUME NEW f, NEW S, IsFiniteSet(S)
  PROVE  \E it : Computes(it, f, S)
<1> DEFINE Small(n) == {T \in SUBSET S : Cardinality(T) <= n}
           N == {n \in Nat : \E it : it = [T \in Small(n) |-> Step(f, it, T)]}
<1>1. \A T \in SUBSET S : IsFiniteSet(T) /\ Cardinality(T) \in Nat
                            /\ Cardinality(T) <= Cardinality(S)
  BY FS_Subset, FS_CardinalityType
<1>2. 0 \in N
  <2> DEFINE it == [T \in Small(0) |-> 0]
  <2>1. \A T \in Small(0) : T = {}
    BY <1>1, FS_EmptySet
  <2>2. it = [T \in Small(0) |-> Step(f, it, T)]
    BY <2>1 DEF Step
  <2> QED
    BY <2>2
<1>3. ASSUME NEW n \in N PROVE n + 1 \in N
  <2>1. PICK g : g = [T \in Small(n) |-> Step(f, g, T)]
    BY <1>3
  <2> DEFINE it == [T \in Small(n + 1) |-> Step(f, g, T)]
  <2>2. ASSUME NEW T \in Small(n + 1) PROVE Step(f, it, T) = Step(f, g, T)
    <3>1. CASE T = {}
      BY <3>1 DEF Step
    <3>2. CASE T # {}
      <4> DEFINE rest == T \ {Chosen(T)}
      <4>1. Cardinality(rest) = Cardinality(T) - 1
        BY <1>1, <2>2, <3>2, ChosenIsMember, FS_RemoveElement
      <4>2. rest \in Small(n) /\ rest \in Small(n + 1)
        BY <1>1, <1>3, <2>2, <4>1
      <4>3. it[rest] = g[rest]
        BY <2>1, <4>2
      <4> QED
        BY <3>2, <4>3 DEF Step
    <3> QED
      BY <3>1, <3>2
  <2>3. it = [T \in Small(n + 1) |-> Step(f, it, T)]
    BY <2>2
  <2> HIDE DEF it, Small
  <2>4. \E other : other = [T \in Small(n + 1) |-> Step(f, other, T)]
    BY <2>3
  <2> QED
    BY <1>3, <2>4
<1>4. N = Nat
  <2> HIDE DEF N
  <2>1. N \in SUBSET Nat
    BY DEF N
  <2> QED
    BY <1>2, <1>3, <2>1, AllNumbers
<1>5. Cardinality(S) \in N
  BY <1>1, <1>4
<1>6. Small(Cardinality(S)) = SUBSET S
  BY <1>1
<1> QED
  BY <1>5, <1>6 DEF Computes

\* It has one solution, which does not depend on the set around.
LEMMA SumIsUnique ==
  ASSUME NEW f, NEW S, IsFiniteSet(S), NEW R \in SUBSET S, NEW it, NEW other,
         Computes(it, f, S), Computes(other, f, R)
  PROVE  it[R] = other[R]
<1> DEFINE G == {T \in SUBSET R : it[T] = other[T]}
<1>1. IsFiniteSet(R)
  BY FS_Subset
<1>2. ASSUME NEW T \in SUBSET R, \A x \in T : T \ {x} \in G PROVE T \in G
  <2>1. it[T] = Step(f, it, T) /\ other[T] = Step(f, other, T)
    BY DEF Computes
  <2> QED
    BY <1>2, <2>1, ChosenIsMember DEF Step
<1>3. G = SUBSET R
  <2> HIDE DEF G
  <2>1. G \in SUBSET (SUBSET R)
    BY DEF G
  <2> QED
    BY <1>1, <1>2, <2>1, AllSubsets
<1> QED
  BY <1>3

\* The sum over no elements, and over one more than without it.
LEMMA SumStep ==
  ASSUME NEW f, NEW S, IsFiniteSet(S)
  PROVE  /\ SumFunctionOnSet(f, {}) = 0
         /\ S # {} => SumFunctionOnSet(f, S) =
              f[Chosen(S)] + SumFunctionOnSet(f, S \ {Chosen(S)})
<1> DEFINE It(R) == CHOOSE it : Computes(it, f, R)
<1>1. ASSUME NEW R \in SUBSET S
      PROVE  Computes(It(R), f, R) /\ SumFunctionOnSet(f, R) = It(R)[R]
  BY FS_Subset, SumExists, SumUnfolds
<1>2. It({})[{}] = 0
  BY <1>1 DEF Computes, Step
<1>3. ASSUME S # {}
      PROVE  It(S)[S] = f[Chosen(S)] + It(S \ {Chosen(S)})[S \ {Chosen(S)}]
  <2> DEFINE rest == S \ {Chosen(S)}
  <2>1. Computes(It(S), f, S) /\ Computes(It(rest), f, rest)
    BY <1>1
  <2>2. It(S)[S] = Step(f, It(S), S)
    BY <2>1 DEF Computes
  <2> HIDE DEF It
  <2>3. It(S)[rest] = It(rest)[rest]
    BY <2>1, SumIsUnique
  <2> QED
    BY <1>3, <2>2, <2>3 DEF Step
<1> QED
  BY <1>1, <1>2, <1>3

\* A sum of integers is one.
LEMMA SumType ==
  ASSUME NEW f, NEW S, IsFiniteSet(S), \A x \in S : f[x] \in Int
  PROVE  SumFunctionOnSet(f, S) \in Int
<1> DEFINE G == {T \in SUBSET S : SumFunctionOnSet(f, T) \in Int}
<1>1. ASSUME NEW T \in SUBSET S, \A x \in T : T \ {x} \in G PROVE T \in G
  <2>1. IsFiniteSet(T)
    BY FS_Subset
  <2>2. CASE T = {}
    BY <2>1, <2>2, SumStep
  <2>3. CASE T # {}
    <3>1. Chosen(T) \in T
      BY <2>3, ChosenIsMember
    <3>2. f[Chosen(T)] \in Int /\ SumFunctionOnSet(f, T \ {Chosen(T)}) \in Int
      BY <1>1, <3>1
    <3>3. SumFunctionOnSet(f, T) =
            f[Chosen(T)] + SumFunctionOnSet(f, T \ {Chosen(T)})
      BY <2>1, <2>3, SumStep
    <3> QED
      BY <3>2, <3>3
  <2> QED
    BY <2>2, <2>3
<1>2. G = SUBSET S
  <2> HIDE DEF G
  <2>1. G \in SUBSET (SUBSET S)
    BY DEF G
  <2> QED
    BY <1>1, <2>1, AllSubsets
<1> QED
  BY <1>2

\* Any element of the set may be taken off the sum.
LEMMA SumRemove ==
  ASSUME NEW f, NEW S, IsFiniteSet(S), \A x \in S : f[x] \in Int, NEW e \in S
  PROVE  SumFunctionOnSet(f, S) = f[e] + SumFunctionOnSet(f, S \ {e})
<1> DEFINE Sum(T) == SumFunctionOnSet(f, T)
           G == {T \in SUBSET S : \A x \in T : Sum(T) = f[x] + Sum(T \ {x})}
<1>1. \A T \in SUBSET S : IsFiniteSet(T) /\ Sum(T) \in Int
  BY FS_Subset, SumType
<1>2. ASSUME NEW T \in SUBSET S, \A x \in T : T \ {x} \in G PROVE T \in G
  <2> SUFFICES ASSUME NEW x \in T PROVE Sum(T) = f[x] + Sum(T \ {x})
    OBVIOUS
  <2> DEFINE c == Chosen(T)
  <2>1. c \in T /\ Sum(T) = f[c] + Sum(T \ {c})
    BY <1>1, SumStep, ChosenIsMember
  <2>2. CASE x = c
    <3> HIDE DEF Sum, c
    <3>1. f[x] = f[c] /\ T \ {x} = T \ {c}
      BY <2>2
    <3>2. Sum(T \ {x}) = Sum(T \ {c})
      BY <3>1
    <3> QED
      BY <2>1, <3>1, <3>2
  <2>3. CASE x # c
    <3> HIDE DEF Sum, c
    <3>1. Sum(T \ {c}) = f[x] + Sum((T \ {c}) \ {x})
      BY <1>2, <2>1, <2>3
    <3>2. Sum(T \ {x}) = f[c] + Sum((T \ {x}) \ {c})
      BY <1>2, <2>1, <2>3
    <3>3. (T \ {c}) \ {x} = (T \ {x}) \ {c}
      OBVIOUS
    <3>4. /\ f[x] \in Int /\ f[c] \in Int
          /\ (T \ {c}) \ {x} \in SUBSET S
      BY <2>1
    <3>5. Sum((T \ {c}) \ {x}) \in Int
      BY <1>1, <3>4
    <3> DEFINE both == Sum((T \ {c}) \ {x})
    <3>6. Sum(T \ {c}) = f[x] + both /\ Sum(T \ {x}) = f[c] + both
      BY <3>1, <3>2, <3>3
    <3>7. both \in Int
      BY <3>5
    <3> HIDE DEF both
    <3> QED
      BY <2>1, <3>4, <3>6, <3>7
  <2> QED
    BY <2>2, <2>3
<1>3. G = SUBSET S
  <2> HIDE DEF G
  <2>1. G \in SUBSET (SUBSET S)
    BY DEF G
  <2> QED
    BY <1>2, <2>1, AllSubsets
<1> QED
  BY <1>3

\* Only the values over the set matter, and larger ones give a larger sum.
LEMMA SumLess ==
  ASSUME NEW f, NEW g, NEW S, IsFiniteSet(S),
         \A x \in S : f[x] \in Int /\ g[x] \in Int /\ f[x] <= g[x]
  PROVE  SumFunctionOnSet(f, S) <= SumFunctionOnSet(g, S)
<1> DEFINE F(T) == SumFunctionOnSet(f, T)
           H(T) == SumFunctionOnSet(g, T)
           G == {T \in SUBSET S : F(T) <= H(T)}
<1>1. \A T \in SUBSET S : IsFiniteSet(T) /\ F(T) \in Int /\ H(T) \in Int
  BY FS_Subset, SumType
<1>2. ASSUME NEW T \in SUBSET S, \A x \in T : T \ {x} \in G PROVE T \in G
  <2>1. CASE T = {}
    <3>1. F(T) = 0 /\ H(T) = 0
      BY <1>1, <2>1, SumStep
    <3> QED
      BY <3>1
  <2>2. CASE T # {}
    <3> DEFINE c == Chosen(T)
    <3>1. c \in T
      BY <2>2, ChosenIsMember
    <3>2. F(T) = f[c] + F(T \ {c}) /\ H(T) = g[c] + H(T \ {c})
      BY <1>1, <2>2, SumStep
    <3> HIDE DEF c, F, H
    <3>3. F(T \ {c}) <= H(T \ {c}) /\ F(T \ {c}) \in Int /\ H(T \ {c}) \in Int
      BY <1>1, <1>2, <3>1
    <3> QED
      BY <3>1, <3>2, <3>3
  <2> QED
    BY <2>1, <2>2
<1>3. G = SUBSET S
  <2> HIDE DEF G
  <2>1. G \in SUBSET (SUBSET S)
    BY DEF G
  <2> QED
    BY <1>2, <2>1, AllSubsets
<1> QED
  BY <1>3

LEMMA SumSame ==
  ASSUME NEW f, NEW g, NEW S, IsFiniteSet(S),
         \A x \in S : f[x] \in Int /\ f[x] = g[x]
  PROVE  SumFunctionOnSet(f, S) = SumFunctionOnSet(g, S)
<1>1. /\ \A x \in S : f[x] \in Int /\ g[x] \in Int /\ f[x] <= g[x]
      /\ \A x \in S : f[x] \in Int /\ g[x] \in Int /\ g[x] <= f[x]
  OBVIOUS
<1>2. /\ SumFunctionOnSet(f, S) <= SumFunctionOnSet(g, S)
      /\ SumFunctionOnSet(g, S) <= SumFunctionOnSet(f, S)
  BY <1>1, SumLess
<1>3. SumFunctionOnSet(f, S) \in Int /\ SumFunctionOnSet(g, S) \in Int
  BY <1>1, SumType
<1> QED
  BY <1>2, <1>3

\* One value changes, the sum changes by as much.
LEMMA SumChange ==
  ASSUME NEW f, NEW g, NEW S, IsFiniteSet(S), NEW e \in S,
         \A x \in S : f[x] \in Int /\ g[x] \in Int,
         \A x \in S \ {e} : g[x] = f[x]
  PROVE  SumFunctionOnSet(g, S) = SumFunctionOnSet(f, S) + (g[e] - f[e])
<1> DEFINE rest == S \ {e}
<1>1. IsFiniteSet(rest)
  BY FS_Subset
<1>2. /\ SumFunctionOnSet(f, S) = f[e] + SumFunctionOnSet(f, rest)
      /\ SumFunctionOnSet(g, S) = g[e] + SumFunctionOnSet(g, rest)
  BY SumRemove
<1>3. SumFunctionOnSet(f, rest) = SumFunctionOnSet(g, rest)
  BY <1>1, SumSame
<1>4. SumFunctionOnSet(f, rest) \in Int
  BY <1>1, SumType
<1> QED
  BY <1>2, <1>3, <1>4

LEMMA EqualGrowth ==
  ASSUME NEW part \in Int, NEW whole \in Int, NEW more \in Nat, part <= whole
  PROVE  /\ more + part <= more + whole /\ part <= more + whole
         /\ part = whole => more + part = more + whole
         /\ part = whole /\ more = 0 => part = more + whole
OBVIOUS

\* Part of a sum of natural numbers; what is left out may be nothing.
LEMMA SumOfPart ==
  ASSUME NEW f, NEW S, IsFiniteSet(S), \A x \in S : f[x] \in Nat,
         NEW T \in SUBSET S
  PROVE  /\ SumFunctionOnSet(f, T) <= SumFunctionOnSet(f, S)
         /\ (\A x \in S \ T : f[x] = 0) =>
              SumFunctionOnSet(f, T) = SumFunctionOnSet(f, S)
<1> DEFINE Sum(U) == SumFunctionOnSet(f, U)
           Holds(U) == /\ Sum(U \cap T) <= Sum(U)
                       /\ (\A x \in S \ T : f[x] = 0) => Sum(U \cap T) = Sum(U)
           G == {U \in SUBSET S : Holds(U)}
<1>1. \A U \in SUBSET S : IsFiniteSet(U) /\ Sum(U) \in Int
  BY FS_Subset, SumType
<1>2. ASSUME NEW U \in SUBSET S, \A x \in U : U \ {x} \in G PROVE U \in G
  <2>1. CASE U = {}
    <3>1. U \cap T = U
      BY <2>1
    <3> QED
      BY <1>1, <3>1
  <2>2. CASE U # {}
    <3> DEFINE c == Chosen(U)
               rest == U \ {c}
    <3>1. c \in U /\ f[c] \in Nat
      BY <2>2, ChosenIsMember
    <3>2. Sum(U) = f[c] + Sum(rest)
      BY <1>1, <2>2, SumStep
    <3>3. /\ Holds(rest) /\ rest \cap T \in SUBSET S /\ U \cap T \in SUBSET S
          /\ rest \in SUBSET S
      BY <1>2, <3>1
    <3>4. Sum(rest) \in Int /\ Sum(rest \cap T) \in Int
      BY <1>1, <3>3
    <3>5. CASE c \in T
      <4>1. (U \cap T) \ {c} = rest \cap T
        OBVIOUS
      <4>2. Sum(U \cap T) = f[c] + Sum((U \cap T) \ {c})
        <5>1. IsFiniteSet(U \cap T) /\ c \in U \cap T
              /\ \A x \in U \cap T : f[x] \in Int
          BY <1>1, <3>1, <3>5
        <5> HIDE DEF c
        <5> QED
          BY <5>1, SumRemove
      <4>3. Sum(U \cap T) = f[c] + Sum(rest \cap T)
        BY <4>1, <4>2
      <4>4. Holds(U)
        BY <3>1, <3>2, <3>3, <3>4, <4>3, EqualGrowth
      <4> QED
        BY <1>2, <4>4
    <3>6. CASE c \notin T
      <4>1. U \cap T = rest \cap T /\ c \in S \ T
        BY <3>1, <3>6
      <4>2. Sum(U \cap T) = Sum(rest \cap T)
        BY <4>1
      <4>3. Holds(U)
        BY <3>1, <3>2, <3>3, <3>4, <4>1, <4>2, EqualGrowth
      <4> QED
        BY <1>2, <4>3
    <3> QED
      BY <3>5, <3>6
  <2> QED
    BY <2>1, <2>2
<1>3. G = SUBSET S
  <2> HIDE DEF G
  <2>1. G \in SUBSET (SUBSET S)
    BY DEF G
  <2> QED
    BY <1>2, <2>1, AllSubsets
<1>4. Holds(S) /\ S \cap T = T
  <2>1. S \in G
    <3> HIDE DEF G
    <3> QED
      BY <1>3
  <2> QED
    BY <2>1
<1> QED
  BY <1>4

-----------------------------------------------------------------------------
(* The invariant *)

\* What its phase says of a saga and of its order.
Placed(s) ==
  LET st == saga[s]
      all == Len(Cart(s))
  IN  /\ st.phase \notin CallPhases => st.attempt = 0
      /\ st.phase \in {"submit", "lookup", "persist", "refused", "replayed"} =>
           st.n = 0 /\ st.released = 0 /\ order[s] = "none"
      /\ st.phase = "reserve" =>
           st.n < all /\ st.released = 0 /\ order[s] = "PENDING"
      /\ st.phase \in {"pay", "confirm"} =>
           st.n = all /\ st.released = 0 /\ order[s] = "PENDING"
      /\ st.phase \in {"cache", "confirmed"} =>
           st.n = all /\ st.released = 0 /\ order[s] = "CONFIRMED"
      /\ st.phase = "release" => st.released < st.n /\ order[s] = "PENDING"
      /\ st.phase = "fail" => st.released = st.n /\ order[s] = "PENDING"
      /\ st.phase \in {"forget", "failed"} =>
           st.released = st.n /\ order[s] \in {"none", "FAILED"}

Unpaid == {"submit", "lookup", "persist", "reserve", "refused", "replayed"}
Paid == {"confirm", "cache", "confirmed"}

\* A request that is under way is about a line of its order, or its payment.
Sent(s) ==
  \A m \in network : m.saga = s =>
    IF m.op = "pay" THEN m.nth = 0 ELSE m.nth \in DOMAIN Cart(s)

\* Each attempt to pay is carried out once at most.
PayAttempts(s) ==
  {a \in 1..MaxAttempts :
     [saga |-> s, op |-> "pay", nth |-> 0, attempt |-> a] \in network}
Charged(s) ==
  /\ charged[s] + Cardinality(PayAttempts(s)) <=
       CASE saga[s].phase \in Unpaid -> 0
         [] saga[s].phase = "pay" -> saga[s].attempt
         [] OTHER -> MaxAttempts
  /\ saga[s].phase \in Paid => charged[s] > 0

\* The books of a saga whose calls met no fault.
UpTo(s, i, n) == SumFunctionOnSet(Units(s, i), 1..n)
Kept(s) ==
  s \notin excused =>
    /\ s \notin cancelled
    /\ saga[s].attempt <= 1
    /\ \A m \in network : m.saga = s => Awaits(m)
    /\ charged[s] = IF saga[s].phase \in Paid THEN 1 ELSE 0
    /\ \A i \in Items :
         held[s][i] = UpTo(s, i, saga[s].n) - UpTo(s, i, saga[s].released)

\* The units that are reserved are those the sagas hold.
Reserved ==
  excused = {} =>
    \A i \in Items :
      reserved[i] = SumFunctionOnSet([s \in Sagas |-> held[s][i]], Sagas)

\* Whoever works on a key has it; whoever answered it left its response.
Working == {"persist", "confirm", "cache", "fail", "forget"} \cup CallPhases
KeyHeld(k) ==
  LET mine == {s \in Sagas : Key(s) = k}
  IN  mine \cap redisFailed = {} =>
        \A s \in mine :
          /\ saga[s].phase \in Working =>
               /\ idempotency[k] = "PROCESSING"
               /\ \A t \in mine : saga[t].phase \in Working => t = s
          /\ saga[s].phase = "confirmed" =>
               /\ idempotency[k] = "RESPONSE"
               /\ \A t \in mine : saga[t].phase = "confirmed" => t = s

Local(s) == Placed(s) /\ Sent(s) /\ Charged(s) /\ Kept(s)
Inv == /\ TypeOK /\ reserved \in [Items -> Nat]
       /\ \A s \in Sagas : Local(s)

-----------------------------------------------------------------------------
(* The circuit breakers stay what they are *)

LEMMA BreakerTypes ==
  ASSUME NEW cb \in Breakers
  PROVE  /\ TrialTaken(cb) \in Breakers /\ HandleSuccess(cb) \in Breakers
         /\ HandleFailure(cb) \in Breakers /\ Aged(cb) \in Breakers
<1>1. ASSUME NEW b \in Breakers, NEW to \in {"CLOSED", "HALF_OPEN", "OPEN"}
      PROVE  Moved(b, to) \in Breakers
  <2> DEFINE there == [b EXCEPT !.state = to]
  <2>1. there \in Breakers
    BY DEF Breakers
  <2>2. Moved(b, to) = [there EXCEPT !.age = 0]
    BY DEF Moved
  <2> HIDE DEF there
  <2> QED
    BY <2>1, <2>2, BreakerAssumption DEF Breakers
<1>2. ASSUME NEW b \in Breakers, NEW n \in 0..FailureThreshold
      PROVE  [b EXCEPT !.consecutiveFails = n] \in Breakers
  BY DEF Breakers
<1>3. 0 \in 0..FailureThreshold
      /\ Capped(cb.consecutiveFails + 1, FailureThreshold) \in 0..FailureThreshold
  BY BreakerAssumption DEF Capped, Breakers
<1>4. Aged(cb) \in Breakers
  BY BreakerAssumption DEF Aged, Capped, Breakers
<1>5. HandleSuccess(cb) \in Breakers
  BY <1>1, <1>2, <1>3 DEF HandleSuccess, Breakers
<1>6. HandleFailure(cb) \in Breakers
  BY <1>1, <1>2, <1>3 DEF HandleFailure
<1>7. TrialTaken(cb) \in Breakers
  BY <1>1 DEF TrialTaken
<1> QED
  BY <1>4, <1>5, <1>6, <1>7

-----------------------------------------------------------------------------
(* A saga, its cart and its calls *)

LEMMA CartTypes ==
  ASSUME TypeOK, NEW s \in Sagas
  PROVE  /\ Len(Cart(s)) \in Nat /\ Len(Cart(s)) > 0
         /\ DOMAIN Cart(s) = 1..Len(Cart(s))
         /\ \A n \in DOMAIN Cart(s) : /\ Cart(s)[n].item \in Items
                                      /\ Cart(s)[n].quantity \in Nat
<1>1. Cart(s) \in Carts
  BY DEF TypeOK, Cart
<1>2. Cart(s) \in Seq([item : Items, quantity : Nat \ {0}]) /\ Cart(s) # << >>
  BY <1>1, SagaAssumption
<1> DEFINE cart == Cart(s)
<1> HIDE DEF cart
<1>3. /\ cart \in Seq([item : Items, quantity : Nat \ {0}]) /\ cart # << >>
  BY <1>2 DEF cart
<1>4. /\ Len(cart) \in Nat /\ Len(cart) > 0 /\ DOMAIN cart = 1..Len(cart)
  BY <1>3
<1>5. \A n \in DOMAIN cart : cart[n] \in [item : Items, quantity : Nat \ {0}]
  BY <1>3, <1>4, ElementOfSeq
<1> QED
  BY <1>4, <1>5 DEF cart

LEMMA SagaTypes ==
  ASSUME TypeOK, NEW s \in Sagas
  PROVE  /\ saga[s] \in SagaStates
         /\ saga[s].phase \in Phases /\ saga[s].n \in Nat
         /\ saga[s].released \in Nat /\ saga[s].attempt \in 0..MaxAttempts
         /\ saga[s].attempt \in Nat
         /\ saga[s].n <= Len(Cart(s)) /\ saga[s].released <= saga[s].n
         /\ order[s] \in {"none", "PENDING", "CONFIRMED", "FAILED"}
  BY SagaAssumption DEF TypeOK, SagaStates, Cart

\* The state of a saga after its call came back.
Returned(s, nx, phase, n, released) ==
  /\ nx \in SagaStates /\ nx.attempt = 0
  /\ nx.phase = phase /\ nx.n = n /\ nx.released = released

LEMMA AfterCallIs ==
  ASSUME TypeOK, NEW s \in Sagas, Placed(s), saga[s].phase \in CallPhases,
         NEW answer
  PROVE  LET st == saga[s]
             nx == AfterCall(s, answer)
         IN  /\ st.phase = "release" =>
                  Returned(s, nx, IF st.released + 1 = st.n THEN "fail"
                                  ELSE "release", st.n, st.released + 1)
             /\ st.phase # "release" /\ answer # "done" =>
                  Returned(s, nx, IF st.n = 0 THEN "fail" ELSE "release", st.n, 0)
             /\ st.phase = "reserve" /\ answer = "done" =>
                  Returned(s, nx, IF st.n + 1 = Len(Cart(s)) THEN "pay"
                                  ELSE "reserve", st.n + 1, 0)
             /\ st.phase = "pay" /\ answer = "done" =>
                  Returned(s, nx, "confirm", st.n, 0)
<1> DEFINE st == saga[s]
<1>1. /\ st \in SagaStates /\ st.n \in Nat /\ st.released \in Nat
      /\ st.phase # "release" => st.released = 0
      /\ 0 \in 0..MaxAttempts
  BY SagaTypes, SagaAssumption DEF Placed, CallPhases
<1>2. {"fail", "release", "reserve", "pay", "confirm"} \subseteq Phases
  BY DEF Phases, CallPhases
<1>3. ASSUME NEW phase \in Phases, NEW n \in Nat, NEW released \in Nat, NEW nx,
             nx = [phase |-> phase, n |-> n, released |-> released, attempt |-> 0]
      PROVE  Returned(s, nx, phase, n, released)
  BY <1>1, <1>3 DEF Returned, SagaStates
<1>4. st = [phase |-> st.phase, n |-> st.n, released |-> st.released,
            attempt |-> st.attempt]
  BY <1>1 DEF SagaStates
<1> HIDE DEF st
<1>5. CASE st.phase = "release"
  <2>1. AfterCall(s, answer) =
          [phase |-> IF st.released + 1 = st.n THEN "fail" ELSE "release",
           n |-> st.n, released |-> st.released + 1, attempt |-> 0]
    BY <1>4, <1>5 DEF AfterCall, AfterRelease, st
  <2> QED
    BY <1>1, <1>2, <1>3, <1>5, <2>1 DEF st
<1>6. CASE st.phase # "release" /\ answer # "done"
  <2>1. AfterCall(s, answer) =
          [phase |-> IF st.n = 0 THEN "fail" ELSE "release",
           n |-> st.n, released |-> 0, attempt |-> 0]
    BY <1>1, <1>4, <1>6 DEF AfterCall, GivesUp, st
  <2> QED
    BY <1>1, <1>2, <1>3, <1>6, <2>1 DEF st
<1>7. CASE st.phase = "reserve" /\ answer = "done"
  <2>1. AfterCall(s, answer) =
          [phase |-> IF st.n + 1 = Len(Cart(s)) THEN "pay" ELSE "reserve",
           n |-> st.n + 1, released |-> 0, attempt |-> 0]
    BY <1>1, <1>4, <1>7 DEF AfterCall, st
  <2> QED
    BY <1>1, <1>2, <1>3, <1>7, <2>1 DEF st
<1>8. CASE st.phase = "pay" /\ answer = "done"
  <2>1. AfterCall(s, answer) =
          [phase |-> "confirm", n |-> st.n, released |-> 0, attempt |-> 0]
    BY <1>1, <1>4, <1>8 DEF AfterCall, st
  <2> QED
    BY <1>1, <1>2, <1>3, <1>8, <2>1 DEF st
<1> QED
  BY <1>5, <1>6, <1>7, <1>8 DEF st

\* A call that came back leaves the saga where its phase says.
LEMMA ReturnPlaces ==
  ASSUME TypeOK, NEW s \in Sagas, Placed(s), saga[s].phase \in CallPhases,
         NEW answer, Returns(s, answer), request' = request, order' = order
  PROVE  /\ Placed(s)'
         /\ saga' \in [Sagas -> SagaStates]
         /\ saga'[s] = AfterCall(s, answer)
         /\ saga'[s].n <= Len(Cart(s)) /\ saga'[s].released <= saga'[s].n
         /\ \A t \in Sagas \ {s} : saga'[t] = saga[t]
<1> DEFINE nx == AfterCall(s, answer)
<1>1. /\ saga' = [saga EXCEPT ![s] = nx] /\ saga \in [Sagas -> SagaStates]
      /\ Len(Cart(s)) \in Nat /\ Len(Cart(s)) > 0
  BY CartTypes DEF Returns, TypeOK
<1>2. saga[s].phase \in {"reserve", "pay", "release"}
  BY DEF CallPhases
<1>3. nx \in SagaStates /\ nx.attempt = 0
  BY <1>2, AfterCallIs DEF Returned
<1>4. saga'[s] = nx /\ saga' \in [Sagas -> SagaStates]
      /\ \A t \in Sagas \ {s} : saga'[t] = saga[t]
  BY <1>1, <1>3
<1>5. Cart(s)' = Cart(s)
  BY DEF Cart
<1>6. /\ nx.n <= Len(Cart(s)) /\ nx.released <= nx.n
      /\ nx.phase \in {"reserve", "pay", "confirm", "release", "fail"}
      /\ nx.phase = "reserve" => nx.n < Len(Cart(s)) /\ nx.released = 0
      /\ nx.phase \in {"pay", "confirm"} =>
           nx.n = Len(Cart(s)) /\ nx.released = 0
      /\ nx.phase = "release" => nx.released < nx.n
      /\ nx.phase = "fail" => nx.released = nx.n
  BY <1>1, <1>2, AfterCallIs, SagaTypes DEF Returned, Placed
<1>7. order[s] = "PENDING"
  BY <1>2 DEF Placed
<1> HIDE DEF nx
<1> QED
  BY <1>3, <1>4, <1>5, <1>6, <1>7 DEF Placed, nx

-----------------------------------------------------------------------------
(* One step, as the sagas see it *)

\* A step of s leaves the other sagas, their orders and requests alone.
OthersUnmoved(s) ==
  /\ UNCHANGED request
  /\ \A t \in Sagas \ {s} :
       /\ saga'[t] = saga[t] /\ order'[t] = order[t]
       /\ held'[t] = held[t] /\ charged'[t] = charged[t]
       /\ t \in excused' <=> t \in excused
       /\ t \in cancelled' <=> t \in cancelled
       /\ \A m : m.saga = t => (m \in network' <=> m \in network)

LEMMA OthersLocal ==
  ASSUME NEW s \in Sagas, OthersUnmoved(s), NEW t \in Sagas \ {s}, Local(t)
  PROVE  Local(t)'
<1>1. /\ UNCHANGED request
      /\ saga'[t] = saga[t] /\ order'[t] = order[t]
      /\ held'[t] = held[t] /\ charged'[t] = charged[t]
      /\ t \in excused' <=> t \in excused
      /\ t \in cancelled' <=> t \in cancelled
      /\ \A m : m.saga = t => (m \in network' <=> m \in network)
  BY DEF OthersUnmoved
<1>2. Placed(t)'
  BY <1>1 DEF Local, Placed, Cart
<1>3. Sent(t)'
  BY <1>1 DEF Local, Sent, Cart
<1>4. PayAttempts(t)' = PayAttempts(t)
  BY <1>1 DEF PayAttempts
<1>5. Charged(t)'
  BY <1>1, <1>4 DEF Local, Charged
<1>6. \A i : Units(t, i)' = Units(t, i)
  BY <1>1 DEF Units, Cart
<1>7. \A i, n : UpTo(t, i, n)' = UpTo(t, i, n)
  BY <1>6 DEF UpTo
<1>8. Kept(t)'
  <2>1. \A m : m.saga = t => (Awaits(m)' <=> Awaits(m))
    BY <1>1 DEF Awaits, Awaiting, Message, Nth
  <2> QED
    BY <1>1, <1>7, <2>1 DEF Local, Kept
<1> QED
  BY <1>2, <1>3, <1>5, <1>8 DEF Local

LEMMA OneMoves ==
  ASSUME Inv, NEW s \in Sagas, OthersUnmoved(s), TypeOK',
         reserved' \in [Items -> Nat],
         Placed(s)', Sent(s)', Charged(s)', Kept(s)'
  PROVE  Inv'
<1>1. Local(s)'
  BY DEF Local
<1>2. ASSUME NEW t \in Sagas \ {s} PROVE Local(t)'
  BY OthersLocal DEF Inv
<1>3. \A t \in Sagas : Local(t)'
  BY <1>1, <1>2
<1> QED
  BY <1>3 DEF Inv

\* The attempts to pay that are under way are finitely many.
LEMMA AttemptSets ==
  \A A \in SUBSET (1..MaxAttempts) : IsFiniteSet(A) /\ Cardinality(A) \in Nat
<1>1. IsFiniteSet(1..MaxAttempts)
  BY SagaAssumption, FS_Interval
<1> QED
  BY <1>1, FS_Subset, FS_CardinalityType

LEMMA ChargeTypes ==
  ASSUME TypeOK, NEW s \in Sagas
  PROVE  /\ MaxAttempts \in Nat /\ MaxAttempts > 0
         /\ charged[s] \in Nat /\ charged[s] <= MaxAttempts
         /\ IsFiniteSet(PayAttempts(s))
         /\ Cardinality(PayAttempts(s)) \in Nat
<1>1. MaxAttempts \in Nat /\ MaxAttempts > 0
  BY SagaAssumption
<1>2. charged[s] \in 0..MaxAttempts
  BY DEF TypeOK
<1>3. PayAttempts(s) \in SUBSET (1..MaxAttempts)
  BY DEF PayAttempts
<1> QED
  BY <1>1, <1>2, <1>3, AttemptSets

LEMMA OneMore ==
  ASSUME NEW S, IsFiniteSet(S), NEW x
  PROVE  /\ IsFiniteSet(S \cup {x}) /\ Cardinality(S \cup {x}) \in Nat
         /\ Cardinality(S \cup {x}) <= Cardinality(S) + 1
<1>1. Cardinality(S) \in Nat
  BY FS_CardinalityType
<1>2. IsFiniteSet(S \cup {x})
      /\ \/ Cardinality(S \cup {x}) = Cardinality(S)
         \/ Cardinality(S \cup {x}) = Cardinality(S) + 1
  BY FS_AddElement
<1> QED
  BY <1>1, <1>2

\* The steps between two calls.
Advance(s) ==
  \/ SubmitWithoutKey(s) \/ Acquire(s) \/ KeyIsTaken(s) \/ SubmitUnchecked(s)
  \/ Lookup(s) \/ Persist(s) \/ PersistClashes(s) \/ Confirm(s)
  \/ CacheResponse(s) \/ FailOrder(s) \/ Forget(s)

\* Each goes from its phase to the next and says what becomes of the order.
Advances(s, phase, status) ==
  LET from == saga[s].phase
  IN  \/ from = "submit" /\ phase \in {"persist", "lookup"} /\ status = order[s]
      \/ from = "lookup" /\ phase \in {"refused", "replayed"} /\ status = order[s]
      \/ from = "persist" /\ phase = "reserve" /\ status = "PENDING"
      \/ from = "persist" /\ phase = "forget" /\ status = order[s]
      \/ from = "confirm" /\ phase = "cache" /\ status = "CONFIRMED"
      \/ from = "cache" /\ phase = "confirmed" /\ status = order[s]
      \/ from = "fail" /\ phase = "forget" /\ status = "FAILED"
      \/ from = "forget" /\ phase = "failed" /\ status = order[s]

LEMMA AdvanceIs ==
  ASSUME TypeOK, NEW s \in Sagas, Advance(s)
  PROVE  /\ NoCallMade /\ UNCHANGED excused /\ saga[s].attempt = 0
         /\ idempotency' \in [Keys -> {"absent", "PROCESSING", "RESPONSE"}]
         /\ redisFailed' \in SUBSET Sagas /\ redisFailed \subseteq redisFailed'
         /\ faults' \in 0..MaxFaults
         /\ \E phase, status : /\ saga' = [saga EXCEPT ![s].phase = phase]
                               /\ order' = [order EXCEPT ![s] = status]
                               /\ Advances(s, phase, status)
<1> USE DEF At, Continue
<1>1. /\ order = [order EXCEPT ![s] = order[s]]
      /\ \A k, v : v \in {"absent", "PROCESSING", "RESPONSE"} =>
           [idempotency EXCEPT ![k] = v]
             \in [Keys -> {"absent", "PROCESSING", "RESPONSE"}]
      /\ idempotency \in [Keys -> {"absent", "PROCESSING", "RESPONSE"}]
      /\ redisFailed \in SUBSET Sagas /\ faults \in 0..MaxFaults
  BY DEF TypeOK
<1>2. RedisAnswers(s) => UNCHANGED <<excused, redisFailed, faults>>
  BY DEF RedisAnswers, history
<1>3. RedisFails(s) => /\ redisFailed' \in SUBSET Sagas
                       /\ redisFailed \subseteq redisFailed'
                       /\ faults' \in 0..MaxFaults /\ UNCHANGED excused
  BY <1>1, SagaAssumption DEF RedisFails, Fault
<1>4. CASE SubmitWithoutKey(s) \/ Acquire(s) \/ KeyIsTaken(s) \/ SubmitUnchecked(s)
  BY <1>1, <1>2, <1>3, <1>4 DEF SubmitWithoutKey, Acquire, KeyIsTaken,
     SubmitUnchecked, Advances, history
<1>5. CASE Lookup(s)
  BY <1>1, <1>2, <1>3, <1>5 DEF Lookup, Advances
<1>6. CASE Persist(s) \/ PersistClashes(s) \/ Confirm(s) \/ FailOrder(s)
  BY <1>1, <1>6 DEF Persist, PersistClashes, Confirm, FailOrder, Advances, history
<1>7. CASE CacheResponse(s)
  BY <1>1, <1>2, <1>3, <1>7 DEF CacheResponse, Advances, history
<1>8. CASE Forget(s)
  BY <1>1, <1>2, <1>3, <1>8 DEF Forget, Advances, history
<1> QED
  BY <1>4, <1>5, <1>6, <1>7, <1>8 DEF Advance

LEMMA AdvanceKeeps ==
  ASSUME Inv, NEW s \in Sagas, Advance(s)
  PROVE  Inv'
<1>1. /\ NoCallMade /\ UNCHANGED excused /\ saga[s].attempt = 0
      /\ idempotency' \in [Keys -> {"absent", "PROCESSING", "RESPONSE"}]
      /\ redisFailed' \in SUBSET Sagas
      /\ faults' \in 0..MaxFaults
  BY AdvanceIs DEF Inv
<1>2. PICK phase, status : /\ saga' = [saga EXCEPT ![s].phase = phase]
                           /\ order' = [order EXCEPT ![s] = status]
                           /\ Advances(s, phase, status)
  BY AdvanceIs DEF Inv
<1>3. UNCHANGED <<request, network, breaker, cancelled, reserved, held, charged,
                  excused>>
  BY <1>1 DEF NoCallMade, server
<1>4. TypeOK /\ Local(s) /\ saga[s] \in SagaStates /\ order[s] \in
        {"none", "PENDING", "CONFIRMED", "FAILED"}
  BY SagaTypes DEF Inv
<1>5. /\ phase \in Phases
      /\ status \in {"none", "PENDING", "CONFIRMED", "FAILED"}
  BY <1>2, <1>4 DEF Advances, Phases, Ended, CallPhases
<1>6. /\ saga' \in [Sagas -> SagaStates]
      /\ saga'[s] = [saga[s] EXCEPT !.phase = phase]
      /\ \A t \in Sagas \ {s} : saga'[t] = saga[t]
      /\ order' \in [Sagas -> {"none", "PENDING", "CONFIRMED", "FAILED"}]
      /\ order'[s] = status
      /\ \A t \in Sagas \ {s} : order'[t] = order[t]
  BY <1>2, <1>4, <1>5 DEF TypeOK, SagaStates
<1>7. /\ saga'[s].phase = phase /\ saga'[s].n = saga[s].n
      /\ saga'[s].released = saga[s].released /\ saga'[s].attempt = 0
  BY <1>1, <1>4, <1>6 DEF SagaStates
<1>8. TypeOK'
  <2>1. \A t \in Sagas : /\ saga'[t].n = saga[t].n
                         /\ saga'[t].released = saga[t].released
    BY <1>6, <1>7
  <2> QED
    BY <1>1, <1>3, <1>4, <1>6, <2>1 DEF TypeOK
<1>9. Placed(s)'
  <2>1. Placed(s) /\ Len(Cart(s)) > 0 /\ Cart(s)' = Cart(s)
    BY <1>3, <1>4, CartTypes DEF Local, Cart
  <2> QED
    BY <1>2, <1>6, <1>7, <2>1 DEF Placed, Advances, CallPhases
<1>10. /\ phase \in Unpaid => saga[s].phase \in Unpaid
       /\ phase # "pay" /\ saga[s].phase # "pay"
       /\ phase \in Paid <=> saga[s].phase \in Paid
  BY <1>2 DEF Advances, Unpaid, Paid
<1>11. Sent(s)'
  BY <1>3, <1>4 DEF Local, Sent, Cart
<1>12. Charged(s)'
  <2>1. PayAttempts(s)' = PayAttempts(s)
    BY <1>3 DEF PayAttempts
  <2>2. Charged(s) /\ MaxAttempts \in Nat /\ charged[s] \in Nat
        /\ Cardinality(PayAttempts(s)) \in Nat
    BY <1>4, ChargeTypes DEF Local
  <2> QED
    BY <1>3, <1>7, <1>10, <2>1, <2>2 DEF Charged
<1>13. Kept(s)'
  <2>1. Kept(s) /\ ~Awaiting(s)
    BY <1>1, <1>4 DEF Local, Awaiting
  <2>2. s \notin excused => \A m \in network : m.saga # s
    BY <2>1 DEF Kept, Awaits
  <2>3. \A i : Units(s, i)' = Units(s, i)
    BY <1>3 DEF Units, Cart
  <2>4. \A i, n : UpTo(s, i, n)' = UpTo(s, i, n)
    BY <2>3 DEF UpTo
  <2> QED
    BY <1>3, <1>7, <1>10, <2>1, <2>2, <2>4 DEF Kept
<1>14. OthersUnmoved(s)
  BY <1>3, <1>6 DEF OthersUnmoved
<1> QED
  BY <1>3, <1>8, <1>9, <1>11, <1>12, <1>13, <1>14, OneMoves DEF Inv

-----------------------------------------------------------------------------
(* A call is sent, and sent again *)

LEMMA SendKeeps ==
  ASSUME Inv, NEW s \in Sagas, saga[s].phase \in CallPhases,
         saga[s].attempt < MaxAttempts,
         network' = network \cup {Message(s, saga[s].attempt + 1)},
         saga' = [saga EXCEPT ![s].attempt = @ + 1],
         breaker' \in [Clients -> Breakers],
         excused' \in SUBSET Sagas, excused \subseteq excused',
         excused' \subseteq excused \cup {s},
         s \notin excused' => saga[s].attempt = 0,
         redisFailed' \in SUBSET Sagas, faults' \in 0..MaxFaults,
         UNCHANGED <<request, order, idempotency, cancelled, reserved, held,
                     charged>>
  PROVE  Inv'
<1> DEFINE st == saga[s]
           new == Message(s, saga[s].attempt + 1)
<1>1. /\ TypeOK /\ Placed(s) /\ Sent(s) /\ Charged(s) /\ Kept(s)
      /\ st \in SagaStates
      /\ st.phase \in {"reserve", "pay", "release"} /\ st.phase \in CallPhases
      /\ st.n \in Nat /\ st.released \in Nat /\ st.attempt \in Nat
      /\ st.n <= Len(Cart(s)) /\ st.released <= st.n
      /\ Len(Cart(s)) \in Nat /\ DOMAIN Cart(s) = 1..Len(Cart(s))
      /\ MaxAttempts \in Nat
  BY SagaTypes, CartTypes, ChargeTypes DEF Inv, Local, CallPhases
<1>2. /\ saga'[s] = [st EXCEPT !.attempt = st.attempt + 1]
      /\ \A t \in Sagas \ {s} : saga'[t] = saga[t]
  BY DEF TypeOK, Inv
<1>3. /\ saga'[s] \in SagaStates
      /\ saga'[s].phase = st.phase /\ saga'[s].n = st.n
      /\ saga'[s].released = st.released /\ saga'[s].attempt = st.attempt + 1
  BY <1>1, <1>2 DEF SagaStates
<1>4. saga' \in [Sagas -> SagaStates]
  <2>1. saga \in [Sagas -> SagaStates]
    BY <1>1 DEF TypeOK
  <2>2. saga' = [saga EXCEPT ![s] = saga'[s]]
    BY <1>2, <2>1
  <2> QED
    BY <1>3, <2>1, <2>2
<1>5. /\ Nth(s) \in Nat
      /\ IF st.phase = "pay" THEN Nth(s) = 0 ELSE Nth(s) \in DOMAIN Cart(s)
  BY <1>1 DEF Nth, Placed
<1>6. /\ new = [saga |-> s, op |-> st.phase, nth |-> Nth(s),
                 attempt |-> st.attempt + 1]
      /\ new \in Messages
  BY <1>1, <1>5 DEF Message, Messages
<1>7. TypeOK'
  <2>1. \A t \in Sagas : /\ saga'[t].n = saga[t].n
                         /\ saga'[t].released = saga[t].released
    BY <1>2, <1>3
  <2>2. network' \subseteq Messages
    BY <1>1, <1>6 DEF TypeOK
  <2> QED
    BY <1>1, <1>4, <2>1, <2>2 DEF TypeOK
<1> HIDE DEF new
<1>8. Placed(s)'
  BY <1>1, <1>3 DEF Placed, Cart
<1>9. Sent(s)'
  BY <1>1, <1>5, <1>6 DEF Sent, Cart, new
<1>10. Charged(s)'
  <2>1. /\ charged[s] \in Nat /\ IsFiniteSet(PayAttempts(s))
        /\ Cardinality(PayAttempts(s)) \in Nat
    BY <1>1, ChargeTypes
  <2>2. CASE st.phase = "pay"
    <3>1. PayAttempts(s)' \subseteq PayAttempts(s) \cup {st.attempt + 1}
      BY <1>6 DEF PayAttempts, new
    <3>2. /\ IsFiniteSet(PayAttempts(s) \cup {st.attempt + 1})
          /\ Cardinality(PayAttempts(s) \cup {st.attempt + 1})
               <= Cardinality(PayAttempts(s)) + 1
          /\ Cardinality(PayAttempts(s) \cup {st.attempt + 1}) \in Nat
      BY <2>1, OneMore
    <3>3. /\ Cardinality(PayAttempts(s)') <=
                Cardinality(PayAttempts(s) \cup {st.attempt + 1})
          /\ Cardinality(PayAttempts(s)') \in Nat
      BY <3>1, <3>2, FS_Subset, FS_CardinalityType
    <3>4. charged[s] + Cardinality(PayAttempts(s)) <= st.attempt
      BY <1>1, <2>2 DEF Charged, Unpaid
    <3>5. charged[s] + Cardinality(PayAttempts(s)') <= st.attempt + 1
      BY <1>1, <2>1, <3>2, <3>3, <3>4
    <3> QED
      BY <1>3, <2>2, <3>5 DEF Charged, Unpaid, Paid
  <2>3. CASE st.phase # "pay"
    <3>1. PayAttempts(s)' = PayAttempts(s)
      BY <1>6, <2>3 DEF PayAttempts, new
    <3> QED
      BY <1>1, <1>3, <2>3, <3>1 DEF Charged, Unpaid, Paid
  <2> QED
    BY <2>2, <2>3
<1>11. Kept(s)'
  <2> SUFFICES ASSUME s \notin excused'
               PROVE  Kept(s)'
    BY DEF Kept
  <2>1. s \notin excused /\ st.attempt = 0
    OBVIOUS
  <2>2. \A m \in network : m.saga # s
    BY <1>1, <2>1 DEF Kept, Awaits, Awaiting
  <2>3. \A m \in network' : m.saga = s => m = new
    BY <2>2 DEF new
  <2>4. new = Message(s, saga[s].attempt)'
    <3>1. Nth(s)' = Nth(s)
      BY <1>3 DEF Nth
    <3> QED
      BY <1>3, <1>6, <3>1 DEF Message
  <2>5. \A m \in network' : m.saga = s => Awaits(m)'
    BY <1>1, <1>3, <2>3, <2>4 DEF Awaits, Awaiting
  <2>6. \A i : Units(s, i)' = Units(s, i)
    BY DEF Units, Cart
  <2>7. \A i, n : UpTo(s, i, n)' = UpTo(s, i, n)
    BY <2>6 DEF UpTo
  <2> QED
    BY <1>1, <1>3, <2>1, <2>5, <2>7 DEF Kept
<1>12. OthersUnmoved(s)
  <2>1. new.saga = s
    BY <1>6
  <2> QED
    BY <1>2, <2>1 DEF OthersUnmoved, new
<1> QED
  BY <1>7, <1>8, <1>9, <1>10, <1>11, <1>12, OneMoves DEF Inv

-----------------------------------------------------------------------------
(* A call comes back *)

\* What every step does that concerns one saga and its call.
CallOf(s) ==
  /\ breaker' \in [Clients -> Breakers]
  /\ excused' \in SUBSET Sagas /\ excused \subseteq excused'
  /\ excused' \subseteq excused \cup {s}
  /\ redisFailed' \in SUBSET Sagas /\ faults' \in 0..MaxFaults
  /\ UNCHANGED <<request, order, idempotency, cancelled>>
  /\ network' \subseteq network
  /\ \A m \in network : m.saga # s => m \in network'
  /\ reserved' \in [Items -> Nat] /\ \A i \in Items : reserved'[i] \in 0..Stock[i]
  /\ held' \in [Sagas -> [Items -> Int]] /\ charged' \in [Sagas -> Nat]
  /\ \A t \in Sagas \ {s} : held'[t] = held[t] /\ charged'[t] = charged[t]
  /\ charged[s] <= charged'[s]
  /\ charged'[s] + Cardinality(PayAttempts(s)') <=
       charged[s] + Cardinality(PayAttempts(s))

\* The charges of a saga stay within the attempts a call has.
LEMMA ChargesBounded ==
  ASSUME TypeOK, NEW s \in Sagas, Charged(s)
  PROVE  charged[s] + Cardinality(PayAttempts(s)) <= MaxAttempts
<1> DEFINE both == charged[s] + Cardinality(PayAttempts(s))
<1>1. /\ MaxAttempts \in Nat /\ saga[s].attempt \in 0..MaxAttempts
      /\ both \in Nat
  BY ChargeTypes, SagaTypes
<1>2. \/ both <= 0 \/ both <= saga[s].attempt \/ both <= MaxAttempts
  BY DEF Charged
<1> HIDE DEF both
<1> QED
  BY <1>1, <1>2 DEF both

LEMMA CallTypes ==
  ASSUME Inv, NEW s \in Sagas, CallOf(s), saga' \in [Sagas -> SagaStates],
         saga'[s].n <= Len(Cart(s)), saga'[s].released <= saga'[s].n,
         \A t \in Sagas \ {s} : saga'[t] = saga[t]
  PROVE  TypeOK' /\ OthersUnmoved(s)
<1>1. TypeOK /\ Charged(s)
  BY DEF Inv, Local
<1>2. /\ charged[s] + Cardinality(PayAttempts(s)) <= MaxAttempts
      /\ charged[s] \in Nat /\ Cardinality(PayAttempts(s)) \in Nat
      /\ MaxAttempts \in Nat
  BY <1>1, ChargesBounded, ChargeTypes
<1>3. Cardinality(PayAttempts(s)') \in Nat
  <2>1. PayAttempts(s)' \in SUBSET (1..MaxAttempts)
    BY DEF PayAttempts
  <2> QED
    BY <2>1, AttemptSets
<1>4. charged' \in [Sagas -> 0..MaxAttempts]
  <2>1. charged'[s] \in Nat /\ charged'[s] <= MaxAttempts
    BY <1>2, <1>3 DEF CallOf
  <2>2. ASSUME NEW t \in Sagas PROVE charged'[t] \in 0..MaxAttempts
    <3>1. CASE t = s
      BY <1>2, <2>1, <3>1
    <3>2. CASE t # s
      BY <1>1, <3>2 DEF CallOf, TypeOK
    <3> QED
      BY <3>1, <3>2
  <2> QED
    BY <2>2 DEF CallOf
<1>5. \A t \in Sagas : /\ saga'[t].n <= Len(request'[t].cart)
                       /\ saga'[t].released <= saga'[t].n
  BY <1>1 DEF CallOf, TypeOK, Cart
<1>6. network' \subseteq Messages
  BY <1>1 DEF CallOf, TypeOK
<1>7. TypeOK'
  BY <1>1, <1>4, <1>5, <1>6 DEF CallOf, TypeOK
<1> QED
  BY <1>7 DEF CallOf, OthersUnmoved

LEMMA ReturnKeeps ==
  ASSUME Inv, NEW s \in Sagas, saga[s].phase \in CallPhases, NEW answer,
         Returns(s, answer), CallOf(s),
         saga[s].phase = "pay" /\ answer = "done" => charged'[s] > 0,
         s \notin excused' =>
           /\ s \notin cancelled /\ \A m \in network' : m.saga # s
           /\ charged'[s] =
                IF saga[s].phase = "pay" /\ answer = "done" THEN 1 ELSE 0
           /\ \A i \in Items : held'[s][i] =
                UpTo(s, i, saga'[s].n) - UpTo(s, i, saga'[s].released)
  PROVE  Inv'
<1> DEFINE st == saga[s]
           nx == saga'[s]
<1>1. /\ TypeOK /\ Placed(s) /\ Sent(s) /\ Charged(s)
      /\ st.phase \in {"reserve", "pay", "release"}
      /\ UNCHANGED <<request, order>> /\ Cart(s)' = Cart(s)
  BY DEF Inv, Local, CallPhases, CallOf, Cart
<1>2. /\ Placed(s)' /\ saga' \in [Sagas -> SagaStates]
      /\ nx = AfterCall(s, answer)
      /\ nx.n <= Len(Cart(s)) /\ nx.released <= nx.n
      /\ \A t \in Sagas \ {s} : saga'[t] = saga[t]
  BY <1>1, ReturnPlaces
<1>3. TypeOK' /\ OthersUnmoved(s)
  BY <1>2, CallTypes
<1>4. /\ nx.attempt = 0
      /\ st.phase = "release" => nx.phase \in {"release", "fail"}
      /\ st.phase # "release" /\ answer # "done" => nx.phase \in {"release", "fail"}
      /\ st.phase = "reserve" /\ answer = "done" => nx.phase \in {"reserve", "pay"}
      /\ st.phase = "pay" /\ answer = "done" => nx.phase = "confirm"
  BY <1>1, <1>2, AfterCallIs DEF Returned
<1>5. Sent(s)'
  BY <1>1 DEF CallOf, Sent
<1>6. Charged(s)'
  <2>1. /\ charged[s] + Cardinality(PayAttempts(s)) <= MaxAttempts
        /\ charged[s] \in Nat /\ Cardinality(PayAttempts(s)) \in Nat
        /\ MaxAttempts \in Nat
    BY <1>1, ChargesBounded, ChargeTypes
  <2>2. /\ charged'[s] \in Nat
        /\ charged'[s] + Cardinality(PayAttempts(s)') <=
             charged[s] + Cardinality(PayAttempts(s))
    BY DEF CallOf
  <2>3. Cardinality(PayAttempts(s)') \in Nat
    <3>1. PayAttempts(s)' \in SUBSET (1..MaxAttempts)
      BY DEF PayAttempts
    <3> QED
      BY <3>1, AttemptSets
  <2> DEFINE before == charged[s] + Cardinality(PayAttempts(s))
             after == charged'[s] + Cardinality(PayAttempts(s)')
  <2>4. before \in Nat /\ after \in Nat /\ after <= before /\ before <= MaxAttempts
    BY <2>1, <2>2, <2>3
  <2>5. st.phase = "reserve" => before = 0
    BY <1>1, <2>1 DEF Charged, Unpaid
  <2> HIDE DEF before
  <2>6. /\ nx.phase \in {"reserve", "pay"} => after = 0
        /\ after <= MaxAttempts
    BY <1>1, <1>4, <2>1, <2>4, <2>5
  <2>7. nx.phase \in Paid => charged'[s] > 0
    BY <1>1, <1>4 DEF Paid
  <2>8. nx.phase \in {"reserve", "pay", "confirm", "release", "fail"}
    BY <1>1, <1>4
  <2> QED
    BY <1>4, <2>6, <2>7, <2>8 DEF Charged, Unpaid
<1>7. Kept(s)'
  <2>1. \A i : Units(s, i)' = Units(s, i)
    BY <1>1 DEF Units
  <2>2. \A i : /\ UpTo(s, i, saga[s].n)' = UpTo(s, i, nx.n)
               /\ UpTo(s, i, saga[s].released)' = UpTo(s, i, nx.released)
    BY <2>1 DEF UpTo
  <2>3. nx.phase \in Paid <=> (st.phase = "pay" /\ answer = "done")
    BY <1>1, <1>4 DEF Paid
  <2> QED
    BY <1>4, <2>2, <2>3, SagaAssumption DEF Kept, CallOf
<1>8. reserved' \in [Items -> Nat]
  BY DEF CallOf
<1> QED
  BY <1>2, <1>3, <1>5, <1>6, <1>7, <1>8, OneMoves

\* A call that fails without an answer: none of the services does anything.
LEMMA NothingServed ==
  ASSUME Inv, NEW s \in Sagas, breaker' \in [Clients -> Breakers],
         excused' \in SUBSET Sagas, excused \subseteq excused',
         excused' \subseteq excused \cup {s},
         redisFailed' \in SUBSET Sagas, faults' \in 0..MaxFaults,
         UNCHANGED <<request, order, idempotency, cancelled, network, reserved,
                     held, charged>>
  PROVE  CallOf(s)
<1>1. TypeOK /\ reserved \in [Items -> Nat]
  BY DEF Inv
<1>2. PayAttempts(s)' = PayAttempts(s)
  BY DEF PayAttempts
<1>3. /\ charged[s] \in Nat /\ Cardinality(PayAttempts(s)) \in Nat
      /\ charged \in [Sagas -> Nat]
  BY <1>1, ChargeTypes DEF TypeOK
<1> QED
  BY <1>1, <1>2, <1>3 DEF CallOf, TypeOK

LEMMA FailsKeep ==
  ASSUME Inv, NEW s \in Sagas,
         Rejected(s) \/ AttemptsExhausted(s) \/ CallCancelled(s)
  PROVE  Inv'
<1>1. /\ TypeOK /\ Placed(s) /\ Kept(s) /\ saga[s].attempt \in Nat
      /\ breaker \in [Clients -> Breakers] /\ excused \in SUBSET Sagas
      /\ redisFailed \in SUBSET Sagas /\ faults \in 0..MaxFaults
      /\ MaxAttempts \in Nat \ {0} /\ MaxFaults \in Nat
  BY SagaTypes, SagaAssumption DEF Inv, Local, TypeOK
<1>2. /\ Client(s) \in Clients /\ breaker[Client(s)] \in Breakers
  BY <1>1 DEF Client, Clients
<1>3. saga[s].phase \in CallPhases
  <2>1. Awaiting(s) => saga[s].phase \in CallPhases
    BY <1>1 DEF Awaiting, Placed
  <2>2. AtCall(s) \/ Awaiting(s)
    BY DEF Rejected, AttemptsExhausted, CallCancelled, TimesOut
  <2> QED
    BY <2>1, <2>2 DEF AtCall
<1>4. breaker' \in [Clients -> Breakers]
  <2> DEFINE b == breaker[Client(s)]
  <2>1. /\ HandleFailure(b) \in Breakers /\ HandleFailure(TrialTaken(b)) \in Breakers
    BY <1>2, BreakerTypes
  <2>2. \/ UNCHANGED breaker
        \/ breaker' = [breaker EXCEPT ![Client(s)] = HandleFailure(b)]
        \/ breaker' = [breaker EXCEPT ![Client(s)] = HandleFailure(TrialTaken(b))]
    BY DEF Rejected, AttemptsExhausted, CallCancelled, Recorded
  <2> HIDE DEF b
  <2> QED
    BY <1>1, <2>1, <2>2
<1>5. /\ UNCHANGED <<request, order, idempotency, cancelled, network, reserved,
                     held, charged, redisFailed>>
      /\ Returns(s, "error") /\ faults' \in 0..MaxFaults
      /\ s \in excused' /\ excused \subseteq excused'
      /\ excused' \subseteq excused \cup {s}
  <2>1. CASE Rejected(s)
    BY <1>1, <2>1 DEF Rejected, Excuse, server
  <2>2. CASE AttemptsExhausted(s)
    BY <1>1, <2>2 DEF AttemptsExhausted, TimesOut, Excuse, Fault, server
  <2>3. CASE CallCancelled(s)
    BY <1>1, <2>3 DEF CallCancelled, Kept, server, history
  <2> QED
    BY <2>1, <2>2, <2>3
<1>6. CallOf(s)
  BY <1>1, <1>4, <1>5, NothingServed
<1> QED
  BY <1>3, <1>5, <1>6, ReturnKeeps

LEMMA SendsKeep ==
  ASSUME Inv, NEW s \in Sagas, Send(s) \/ Resend(s)
  PROVE  Inv'
<1>1. /\ TypeOK /\ Placed(s) /\ saga[s].attempt \in Nat
      /\ breaker \in [Clients -> Breakers] /\ excused \in SUBSET Sagas
      /\ redisFailed \in SUBSET Sagas /\ faults \in 0..MaxFaults
      /\ MaxAttempts \in Nat \ {0} /\ MaxFaults \in Nat
  BY SagaTypes, SagaAssumption DEF Inv, Local, TypeOK
<1>2. CASE Send(s)
  <2>1. /\ saga[s].phase \in CallPhases /\ saga[s].attempt = 0
        /\ UNCHANGED <<request, order, idempotency, cancelled, reserved, held,
                       charged, excused, redisFailed, faults>>
        /\ network' = network \cup {Message(s, saga[s].attempt + 1)}
        /\ saga' = [saga EXCEPT ![s].attempt = @ + 1]
    BY <1>1, <1>2 DEF Send, AtCall, server, history, TypeOK
  <2>2. breaker' \in [Clients -> Breakers]
    <3> DEFINE b == breaker[Client(s)]
    <3>1. Client(s) \in Clients /\ b \in Breakers /\ TrialTaken(b) \in Breakers
      BY <1>1, BreakerTypes DEF Client, Clients
    <3>2. breaker' = [breaker EXCEPT ![Client(s)] =
                        IF TrialIsDue(b) THEN TrialTaken(b) ELSE b]
      BY <1>2 DEF Send
    <3> HIDE DEF b
    <3> QED
      BY <1>1, <3>1, <3>2
  <2>3. /\ excused' \in SUBSET Sagas /\ excused \subseteq excused'
        /\ excused' \subseteq excused \cup {s}
        /\ redisFailed' \in SUBSET Sagas /\ faults' \in 0..MaxFaults
        /\ saga[s].attempt < MaxAttempts
    BY <1>1, <2>1
  <2> QED
    BY <2>1, <2>2, <2>3, SendKeeps
<1>3. CASE Resend(s)
  <2>1. /\ saga[s].phase \in CallPhases /\ saga[s].attempt < MaxAttempts
        /\ UNCHANGED <<request, order, idempotency, cancelled, reserved, held,
                       charged, redisFailed, breaker>>
        /\ network' = network \cup {Message(s, saga[s].attempt + 1)}
        /\ saga' = [saga EXCEPT ![s].attempt = @ + 1]
        /\ faults' \in 0..MaxFaults
        /\ excused' = excused \cup {s}
    BY <1>1, <1>3 DEF Resend, TimesOut, Awaiting, Placed, Excuse, Fault, server
  <2>2. /\ excused' \in SUBSET Sagas /\ excused \subseteq excused'
        /\ excused' \subseteq excused \cup {s} /\ s \in excused'
        /\ breaker' \in [Clients -> Breakers] /\ redisFailed' \in SUBSET Sagas
        /\ s \notin excused' => saga[s].attempt = 0
    BY <1>1, <2>1
  <2> QED
    BY <2>1, <2>2, SendKeeps
<1> QED
  BY <1>2, <1>3

-----------------------------------------------------------------------------
(* The units a cart asks for, line by line *)

LEMMA UnitsOf ==
  ASSUME TypeOK, NEW s \in Sagas, NEW i
  PROVE  /\ DOMAIN Units(s, i) = DOMAIN Cart(s)
         /\ \A n \in DOMAIN Cart(s) :
              /\ Units(s, i)[n] = IF Cart(s)[n].item = i THEN Cart(s)[n].quantity
                                  ELSE 0
              /\ Units(s, i)[n] \in Nat
BY CartTypes DEF Units

LEMMA UpToNext ==
  ASSUME TypeOK, NEW s \in Sagas, NEW i
  PROVE  /\ UpTo(s, i, 0) = 0
         /\ \A n \in Nat : n <= Len(Cart(s)) => UpTo(s, i, n) \in Int
         /\ \A n \in Nat : n + 1 <= Len(Cart(s)) =>
              UpTo(s, i, n + 1) = UpTo(s, i, n) + Units(s, i)[n + 1]
<1> DEFINE f == Units(s, i)
           all == Len(Cart(s))
<1>1. /\ all \in Nat /\ DOMAIN Cart(s) = 1..all
      /\ \A n \in 1..all : f[n] \in Int
  BY CartTypes, UnitsOf
<1>2. \A n \in Nat : IsFiniteSet(1..n)
  BY FS_Interval
<1> HIDE DEF f, all
<1>3. \A n \in Nat : n <= all => \A x \in 1..n : f[x] \in Int
  BY <1>1
<1>4. ASSUME NEW n \in Nat, n <= all PROVE SumFunctionOnSet(f, 1..n) \in Int
  BY <1>2, <1>3, <1>4, SumType
<1>5. SumFunctionOnSet(f, 1..0) = 0
  <2>1. 1..0 = {} /\ IsFiniteSet({})
    BY FS_EmptySet
  <2>2. SumFunctionOnSet(f, {}) = 0
    BY <2>1, SumStep
  <2> QED
    BY <2>1, <2>2
<1>6. ASSUME NEW n \in Nat, n + 1 <= all
      PROVE  SumFunctionOnSet(f, 1..(n + 1)) = SumFunctionOnSet(f, 1..n) + f[n + 1]
  <2>1. n + 1 \in 1..(n + 1) /\ (1..(n + 1)) \ {n + 1} = 1..n /\ n + 1 \in Nat
    OBVIOUS
  <2>2. SumFunctionOnSet(f, 1..(n + 1)) = f[n + 1] + SumFunctionOnSet(f, 1..n)
    BY <1>2, <1>3, <1>6, <2>1, SumRemove
  <2>3. SumFunctionOnSet(f, 1..n) \in Int /\ f[n + 1] \in Int
    BY <1>1, <1>4, <1>6
  <2> QED
    BY <2>2, <2>3
<1> QED
  BY <1>4, <1>5, <1>6 DEF UpTo, f, all

LEMMA UpToGrows ==
  ASSUME TypeOK, NEW s \in Sagas, NEW i, NEW m \in Nat, NEW n \in Nat,
         m <= n, n <= Len(Cart(s))
  PROVE  UpTo(s, i, m) <= UpTo(s, i, n)
<1> DEFINE all == Len(Cart(s))
           N == {k \in Nat : m + k <= all => UpTo(s, i, m) <= UpTo(s, i, m + k)}
<1>1. all \in Nat /\ \A k \in 1..all : Units(s, i)[k] \in Nat
  BY CartTypes, UnitsOf
<1>2. \A k \in Nat : k <= all => UpTo(s, i, k) \in Int
  BY UpToNext
<1>3. 0 \in N
  <2>1. m + 0 = m
    OBVIOUS
  <2> QED
    BY <1>2, <2>1
<1>4. ASSUME NEW k \in N PROVE k + 1 \in N
  <2> SUFFICES ASSUME m + (k + 1) <= all
               PROVE  UpTo(s, i, m) <= UpTo(s, i, m + (k + 1))
    BY <1>4
  <2>1. /\ m + k \in Nat /\ m + k <= all /\ m + (k + 1) = (m + k) + 1
        /\ (m + k) + 1 \in 1..all /\ m <= all
    BY <1>1, <1>4
  <2>2. UpTo(s, i, (m + k) + 1) = UpTo(s, i, m + k) + Units(s, i)[(m + k) + 1]
    BY <2>1, UpToNext
  <2>3. UpTo(s, i, m) <= UpTo(s, i, m + k)
    BY <1>4, <2>1
  <2>4. /\ UpTo(s, i, m) \in Int /\ UpTo(s, i, m + k) \in Int
        /\ Units(s, i)[(m + k) + 1] \in Nat
    BY <1>1, <1>2, <2>1
  <2> QED
    BY <2>1, <2>2, <2>3, <2>4
<1>5. N = Nat
  <2> HIDE DEF N
  <2>1. N \in SUBSET Nat
    BY DEF N
  <2> QED
    BY <1>3, <1>4, <2>1, AllNumbers
<1>6. n - m \in Nat /\ m + (n - m) = n
  OBVIOUS
<1>7. n - m \in N
  <2> HIDE DEF N
  <2> QED
    BY <1>5, <1>6
<1> QED
  BY <1>6, <1>7

\* Line by line, the whole of what the saga wants.
LEMMA UpToAll ==
  ASSUME TypeOK, NEW s \in Sagas, NEW i \in Items
  PROVE  /\ UpTo(s, i, Len(Cart(s))) = Wanted(s)[i]
         /\ Wanted(s)[i] \in Nat
<1>1. /\ Len(Cart(s)) \in Nat /\ DOMAIN Units(s, i) = 1..Len(Cart(s))
  BY CartTypes, UnitsOf
<1>2. UpTo(s, i, Len(Cart(s))) = Wanted(s)[i]
  BY <1>1 DEF UpTo, Wanted, SumFunction
<1>3. /\ UpTo(s, i, 0) = 0 /\ UpTo(s, i, Len(Cart(s))) \in Int
      /\ UpTo(s, i, 0) <= UpTo(s, i, Len(Cart(s)))
  BY <1>1, UpToNext, UpToGrows
<1> QED
  BY <1>2, <1>3

-----------------------------------------------------------------------------
(* A service carries out a request *)

Answered(m, answer) ==
  /\ network' = network \ {m} /\ breaker' \in [Clients -> Breakers]
  /\ IF Awaits(m) THEN Returns(m.saga, answer) ELSE UNCHANGED saga
  /\ UNCHANGED <<request, order, idempotency, cancelled>>

LEMMA AnswerIs ==
  ASSUME TypeOK, NEW m \in network, NEW answer
  PROVE  /\ Answer(m, answer, HandleSuccess) => Answered(m, answer)
         /\ Answer(m, answer, HandleFailure) => Answered(m, answer)
<1>1. /\ m \in Messages /\ breaker \in [Clients -> Breakers]
      /\ m.saga \in Sagas
  BY DEF TypeOK, Messages
<1> DEFINE s == m.saga
           b == breaker[Client(s)]
<1>2. /\ Client(s) \in Clients /\ b \in Breakers
      /\ HandleSuccess(b) \in Breakers /\ HandleFailure(b) \in Breakers
  BY <1>1, BreakerTypes DEF Client, Clients
<1>3. /\ Recorded(s, HandleSuccess) => breaker' \in [Clients -> Breakers]
      /\ Recorded(s, HandleFailure) => breaker' \in [Clients -> Breakers]
  <2>1. /\ Recorded(s, HandleSuccess) =>
             breaker' = [breaker EXCEPT ![Client(s)] = HandleSuccess(b)]
        /\ Recorded(s, HandleFailure) =>
             breaker' = [breaker EXCEPT ![Client(s)] = HandleFailure(b)]
    BY DEF Recorded
  <2> HIDE DEF b
  <2> QED
    BY <1>1, <1>2, <2>1
<1>4. CASE Awaits(m)
  BY <1>3, <1>4 DEF Answer, Answered
<1>5. CASE ~Awaits(m)
  BY <1>1, <1>5 DEF Answer, Answered
<1> QED
  BY <1>4, <1>5

\* A message that is waited for is the one its saga sent last.
LEMMA AwaitedIs ==
  ASSUME Inv, NEW m \in network
  PROVE  /\ m.saga \in Sagas /\ m.op \in CallPhases /\ m.attempt \in 1..MaxAttempts
         /\ m = [saga |-> m.saga, op |-> m.op, nth |-> m.nth, attempt |-> m.attempt]
         /\ IF m.op = "pay" THEN m.nth = 0 ELSE m.nth \in DOMAIN Cart(m.saga)
         /\ Awaits(m) => /\ m.op = saga[m.saga].phase /\ m.nth = Nth(m.saga)
                         /\ saga[m.saga].phase \in CallPhases
                         /\ saga[m.saga].attempt > 0
         /\ m.saga \notin excused =>
              /\ Awaits(m) /\ m.saga \notin cancelled
              /\ \A other \in network \ {m} : other.saga # m.saga
<1>1. /\ m \in Messages /\ \A s \in Sagas : Sent(s) /\ Kept(s)
  BY DEF Inv, Local, TypeOK
<1>2. m.saga \in Sagas /\ m.op \in CallPhases /\ m.attempt \in 1..MaxAttempts
      /\ m = [saga |-> m.saga, op |-> m.op, nth |-> m.nth, attempt |-> m.attempt]
  BY <1>1 DEF Messages
<1>3. Awaits(m) => /\ m.op = saga[m.saga].phase /\ m.nth = Nth(m.saga)
                   /\ saga[m.saga].attempt > 0
  BY DEF Awaits, Awaiting, Message
<1>4. IF m.op = "pay" THEN m.nth = 0 ELSE m.nth \in DOMAIN Cart(m.saga)
  BY <1>1, <1>2 DEF Sent
<1>5. ASSUME m.saga \notin excused
      PROVE  /\ Awaits(m) /\ m.saga \notin cancelled
             /\ \A other \in network \ {m} : other.saga # m.saga
  <2>1. /\ m.saga \notin cancelled
        /\ \A other \in network : other.saga = m.saga => Awaits(other)
    BY <1>1, <1>2, <1>5 DEF Kept
  <2> QED
    BY <2>1 DEF Awaits
<1> QED
  BY <1>2, <1>3, <1>4, <1>5

\* The attempt that is carried out is not carried out again.
LEMMA AttemptServed ==
  ASSUME Inv, NEW m \in network, network' = network \ {m}
  PROVE  /\ m.op = "pay" => Cardinality(PayAttempts(m.saga)') + 1 =
                              Cardinality(PayAttempts(m.saga))
         /\ m.op # "pay" => PayAttempts(m.saga)' = PayAttempts(m.saga)
         /\ Cardinality(PayAttempts(m.saga)) \in Nat
         /\ charged \in [Sagas -> Nat] /\ m.saga \in Sagas
<1> DEFINE s == m.saga
<1>1. /\ s \in Sagas /\ TypeOK /\ m.attempt \in 1..MaxAttempts
      /\ m = [saga |-> s, op |-> m.op, nth |-> m.nth, attempt |-> m.attempt]
      /\ m.op = "pay" => m.nth = 0
  BY AwaitedIs DEF Inv
<1>2. /\ IsFiniteSet(PayAttempts(s)) /\ Cardinality(PayAttempts(s)) \in Nat
  BY <1>1, ChargeTypes
<1>3. ASSUME m.op = "pay"
      PROVE  Cardinality(PayAttempts(s)') + 1 = Cardinality(PayAttempts(s))
  <2>1. m.attempt \in PayAttempts(s)
    BY <1>1, <1>3 DEF PayAttempts
  <2>2. PayAttempts(s)' = PayAttempts(s) \ {m.attempt}
    BY <1>1, <1>3 DEF PayAttempts
  <2>3. Cardinality(PayAttempts(s) \ {m.attempt}) = Cardinality(PayAttempts(s)) - 1
    BY <1>2, <2>1, FS_RemoveElement
  <2> QED
    BY <1>2, <2>2, <2>3
<1>4. m.op # "pay" => PayAttempts(s)' = PayAttempts(s)
  BY <1>1 DEF PayAttempts
<1>5. charged \in [Sagas -> Nat]
  BY <1>1 DEF TypeOK
<1> QED
  BY <1>1, <1>2, <1>3, <1>4, <1>5

\* A request that nobody waits for belongs to an excused saga.
LEMMA LateKeeps ==
  ASSUME Inv, NEW m \in network, ~Awaits(m), CallOf(m.saga), UNCHANGED saga
  PROVE  Inv'
<1> DEFINE s == m.saga
<1>1. /\ s \in Sagas /\ s \in excused /\ TypeOK
      /\ Placed(s) /\ Sent(s) /\ Charged(s)
  BY AwaitedIs DEF Inv, Local
<1>2. TypeOK' /\ OthersUnmoved(s)
  <2>1. saga \in [Sagas -> SagaStates] /\ saga[s].n <= Len(Cart(s))
        /\ saga[s].released <= saga[s].n
    BY <1>1 DEF TypeOK, Cart
  <2> QED
    BY <1>1, <2>1, CallTypes
<1>3. Placed(s)' /\ Sent(s)'
  BY <1>1 DEF Placed, Sent, Cart, CallOf
<1>4. Kept(s)'
  BY <1>1 DEF Kept, CallOf
<1>5. Charged(s)'
  <2> DEFINE before == charged[s] + Cardinality(PayAttempts(s))
             after == charged'[s] + Cardinality(PayAttempts(s)')
             bound == CASE saga[s].phase \in Unpaid -> 0
                        [] saga[s].phase = "pay" -> saga[s].attempt
                        [] OTHER -> MaxAttempts
  <2>1. /\ charged[s] \in Nat /\ Cardinality(PayAttempts(s)) \in Nat
        /\ MaxAttempts \in Nat /\ saga[s].attempt \in Nat
    BY <1>1, ChargeTypes, SagaTypes
  <2>2. Cardinality(PayAttempts(s)') \in Nat
    <3>1. PayAttempts(s)' \in SUBSET (1..MaxAttempts)
      BY DEF PayAttempts
    <3> QED
      BY <3>1, AttemptSets
  <2>3. /\ charged'[s] \in Nat /\ charged[s] <= charged'[s] /\ after <= before
    BY <1>1 DEF CallOf
  <2>4. before <= bound /\ bound \in Nat
    BY <1>1, <2>1 DEF Charged
  <2>5. after <= bound
    <3>1. before \in Nat /\ after \in Nat
      BY <2>1, <2>2, <2>3
    <3> HIDE DEF before, after, bound
    <3> QED
      BY <2>3, <2>4, <3>1
  <2>6. saga[s].phase \in Paid => charged'[s] > 0
    BY <1>1, <2>1, <2>3 DEF Charged
  <2> QED
    BY <2>5, <2>6 DEF Charged
<1>6. reserved' \in [Items -> Nat]
  BY DEF CallOf
<1> QED
  BY <1>1, <1>2, <1>3, <1>4, <1>5, <1>6, OneMoves

\* One that is waited for lets its saga go on.
LEMMA ServedKeeps ==
  ASSUME Inv, NEW m \in network, NEW answer, Answered(m, answer), CallOf(m.saga),
         m.op = "pay" /\ answer = "done" => charged'[m.saga] > charged[m.saga],
         m.saga \notin excused' =>
           /\ charged'[m.saga] =
                IF m.op = "pay" /\ answer = "done" THEN 1 ELSE 0
           /\ \A i \in Items : held'[m.saga][i] =
                UpTo(m.saga, i, saga'[m.saga].n)
                  - UpTo(m.saga, i, saga'[m.saga].released)
  PROVE  Inv'
<1> DEFINE s == m.saga
<1>1. CASE ~Awaits(m)
  BY <1>1, LateKeeps DEF Answered
<1>2. CASE Awaits(m)
  <2>1. /\ s \in Sagas /\ m.op = saga[s].phase /\ saga[s].phase \in CallPhases
        /\ Returns(s, answer)
    BY <1>2, AwaitedIs DEF Answered
  <2>2. m.op = "pay" /\ answer = "done" => charged'[s] > 0
    <3>1. charged[s] \in Nat /\ charged'[s] \in Nat
      BY <2>1 DEF CallOf, Inv, TypeOK
    <3> QED
      BY <3>1
  <2>3. s \notin excused' =>
          s \notin cancelled /\ \A other \in network' : other.saga # s
    BY AwaitedIs DEF CallOf, Answered
  <2> QED
    BY <2>1, <2>2, <2>3, ReturnKeeps
<1> QED
  BY <1>1, <1>2

\* What becomes of the books when a line is reserved or given back.
LEMMA BooksOf ==
  ASSUME Inv, NEW m \in network, m.op # "pay"
  PROVE  /\ m.saga \in Sagas /\ Line(m).item \in Items /\ Line(m).quantity \in Nat
         /\ m.saga \notin excused => \A i \in Items :
              held[m.saga][i] = UpTo(m.saga, i, saga[m.saga].n)
                                  - UpTo(m.saga, i, saga[m.saga].released)
         /\ m.saga \notin excused => charged[m.saga] = 0
         /\ m.saga \notin excused => \A i \in Items :
              UpTo(m.saga, i, m.nth) = UpTo(m.saga, i, m.nth - 1) +
                (IF Line(m).item = i THEN Line(m).quantity ELSE 0)
<1> DEFINE s == m.saga
<1>1. /\ s \in Sagas /\ TypeOK /\ Kept(s)
      /\ m.op \in CallPhases /\ m.nth \in DOMAIN Cart(s)
      /\ Awaits(m) => m.op = saga[s].phase
      /\ s \notin excused => Awaits(m)
  BY AwaitedIs DEF Inv, Local
<1>2. /\ DOMAIN Cart(s) = 1..Len(Cart(s)) /\ Len(Cart(s)) \in Nat
      /\ m.nth - 1 \in Nat /\ (m.nth - 1) + 1 = m.nth /\ m.nth <= Len(Cart(s))
  BY <1>1, CartTypes
<1>3. ASSUME NEW i \in Items
      PROVE  UpTo(s, i, m.nth) = UpTo(s, i, m.nth - 1) +
               (IF Line(m).item = i THEN Line(m).quantity ELSE 0)
  <2>1. UpTo(s, i, (m.nth - 1) + 1) =
          UpTo(s, i, m.nth - 1) + Units(s, i)[(m.nth - 1) + 1]
    BY <1>1, <1>2, UpToNext
  <2>2. Units(s, i)[m.nth] =
          IF Cart(s)[m.nth].item = i THEN Cart(s)[m.nth].quantity ELSE 0
    BY <1>1, UnitsOf
  <2> QED
    BY <1>2, <2>1, <2>2 DEF Line
<1>4. Line(m).item \in Items /\ Line(m).quantity \in Nat
  BY <1>1, CartTypes DEF Line
<1>5. s \notin excused => charged[s] = 0
  BY <1>1 DEF Kept, Paid, CallPhases
<1> QED
  BY <1>1, <1>3, <1>4, <1>5 DEF Kept

LEMMA ReserveKeeps ==
  ASSUME Inv, NEW m \in network, ServeReserve(m)
  PROVE  Inv'
<1> DEFINE s == m.saga
           item == Line(m).item
           quantity == Line(m).quantity
           has == HasAvailable(reserved, item, quantity)
           answer == IF has THEN "done" ELSE "conflict"
<1>1. /\ TypeOK /\ s \in Sagas /\ item \in Items /\ quantity \in Nat
      /\ m.op = "reserve" /\ m.op # "pay"
      /\ UNCHANGED <<charged, excused, redisFailed, faults>>
      /\ Answered(m, answer)
      /\ IF has THEN /\ reserved' = Reserve(reserved, item, quantity)
                     /\ held' = [held EXCEPT ![s][item] = @ + quantity]
                ELSE UNCHANGED <<reserved, held>>
  <2>1. /\ TypeOK /\ m.op = "reserve" /\ m.op # "pay"
    BY DEF Inv, ServeReserve
  <2>2. /\ s \in Sagas /\ item \in Items /\ quantity \in Nat
    BY <2>1, BooksOf
  <2> QED
    BY <2>1, <2>2, AnswerIs DEF ServeReserve, history
<1>2. /\ reserved' \in [Items -> Nat]
      /\ \A i \in Items : reserved'[i] \in 0..Stock[i]
  <2>1. /\ reserved \in [Items -> Nat] /\ Stock \in [Items -> Nat]
        /\ \A i \in Items : reserved[i] \in 0..Stock[i]
    BY StockAssumption DEF Inv, TypeOK
  <2> HIDE DEF item, quantity
  <2>2. CASE has
    <3>1. /\ reserved' = [reserved EXCEPT ![item] = reserved[item] + quantity]
          /\ reserved[item] + quantity <= Stock[item]
          /\ reserved[item] + quantity \in Nat
      BY <1>1, <2>1, <2>2 DEF HasAvailable, Reserve
    <3> QED
      BY <1>1, <2>1, <3>1
  <2>3. CASE ~has
    BY <1>1, <2>1, <2>3
  <2> QED
    BY <2>2, <2>3
<1>3. /\ held' \in [Sagas -> [Items -> Int]]
      /\ \A t \in Sagas \ {s} : held'[t] = held[t]
      /\ \A i \in Items : held'[s][i] =
           held[s][i] + (IF has /\ item = i THEN quantity ELSE 0)
  <2>1. held \in [Sagas -> [Items -> Int]]
    BY <1>1 DEF TypeOK
  <2> HIDE DEF item, quantity, has
  <2>2. CASE has
    BY <1>1, <2>1, <2>2
  <2>3. CASE ~has
    BY <1>1, <2>1, <2>3
  <2> QED
    BY <2>2, <2>3
<1>4. CallOf(s)
  <2>1. PayAttempts(s)' = PayAttempts(s) /\ Cardinality(PayAttempts(s)) \in Nat
        /\ charged \in [Sagas -> Nat]
    BY <1>1, AttemptServed DEF Answered
  <2>2. /\ network' \subseteq network
        /\ \A other \in network : other.saga # s => other \in network'
        /\ UNCHANGED <<request, order, idempotency, cancelled>>
        /\ breaker' \in [Clients -> Breakers]
    BY <1>1 DEF Answered
  <2>3. /\ charged[s] <= charged'[s]
        /\ charged'[s] + Cardinality(PayAttempts(s)') <=
             charged[s] + Cardinality(PayAttempts(s))
        /\ charged' \in [Sagas -> Nat] /\ \A t \in Sagas \ {s} : charged'[t] = charged[t]
    BY <1>1, <2>1
  <2> HIDE DEF s
  <2> QED
    BY <1>1, <1>2, <1>3, <2>2, <2>3 DEF CallOf, TypeOK
<1>5. ASSUME s \notin excused
      PROVE  /\ charged'[s] = 0
             /\ \A i \in Items : held'[s][i] =
                  UpTo(s, i, saga'[s].n) - UpTo(s, i, saga'[s].released)
  <2>1. /\ Placed(s) /\ Awaits(m) /\ saga[s].phase = "reserve" /\ m.nth = Nth(s)
    BY <1>1, <1>5, AwaitedIs DEF Inv, Local
  <2>2. /\ m.nth = saga[s].n + 1 /\ saga[s].released = 0 /\ saga[s].n \in Nat
        /\ m.nth - 1 = saga[s].n /\ saga[s].phase \in CallPhases
    BY <1>1, <2>1, SagaTypes DEF Nth, Placed, CallPhases
  <2>3. /\ saga'[s] = AfterCall(s, answer)
    BY <1>1, <2>1, <2>2, ReturnPlaces DEF Answered
  <2>4. /\ saga'[s].n = IF has THEN m.nth ELSE m.nth - 1
        /\ saga'[s].released = 0
    BY <1>1, <2>1, <2>2, <2>3, AfterCallIs DEF Returned
  <2>5. ASSUME NEW i \in Items
        PROVE  held'[s][i] = UpTo(s, i, saga'[s].n) - UpTo(s, i, saga'[s].released)
    <3>1. /\ held[s][i] = UpTo(s, i, m.nth - 1) - UpTo(s, i, 0)
          /\ UpTo(s, i, m.nth) = UpTo(s, i, m.nth - 1) +
               (IF item = i THEN quantity ELSE 0)
      BY <1>1, <1>5, <2>2, BooksOf
    <3>2. /\ UpTo(s, i, m.nth - 1) \in Int /\ UpTo(s, i, 0) = 0
      BY <1>1, <2>2, UpToNext, SagaTypes
    <3>3. held'[s][i] = held[s][i] + (IF has /\ item = i THEN quantity ELSE 0)
      BY <1>3
    <3> DEFINE a == UpTo(s, i, m.nth - 1)
               b == UpTo(s, i, m.nth)
    <3> HIDE DEF item, quantity, has, a, b
    <3>4. /\ held[s][i] = a - 0 /\ b = a + (IF item = i THEN quantity ELSE 0)
          /\ a \in Int /\ quantity \in Nat
      BY <1>1, <3>1, <3>2 DEF a, b
    <3>5. UpTo(s, i, saga'[s].n) = (IF has THEN b ELSE a)
          /\ UpTo(s, i, saga'[s].released) = 0
      BY <2>4, <3>2 DEF a, b
    <3> QED
      BY <3>3, <3>4, <3>5
  <2> QED
    BY <1>1, <1>5, <2>5, BooksOf
<1> QED
  BY <1>1, <1>4, <1>5, ServedKeeps

LEMMA ReleaseKeeps ==
  ASSUME Inv, NEW m \in network, ServeRelease(m)
  PROVE  Inv'
<1> DEFINE s == m.saga
           item == Line(m).item
           quantity == Line(m).quantity
<1>1. /\ TypeOK /\ s \in Sagas /\ item \in Items /\ quantity \in Nat
      /\ m.op = "release" /\ m.op # "pay"
      /\ UNCHANGED <<charged, excused, redisFailed, faults>>
      /\ Answered(m, "done")
      /\ reserved' = Release(reserved, item, quantity)
      /\ held' = [held EXCEPT ![s][item] = @ - quantity]
  <2>1. /\ TypeOK /\ m.op = "release" /\ m.op # "pay"
    BY DEF Inv, ServeRelease
  <2>2. /\ s \in Sagas /\ item \in Items /\ quantity \in Nat
    BY <2>1, BooksOf
  <2> QED
    BY <2>1, <2>2, AnswerIs DEF ServeRelease, history
<1>2. /\ reserved' \in [Items -> Nat]
      /\ \A i \in Items : reserved'[i] \in 0..Stock[i]
  <2>1. /\ reserved \in [Items -> Nat] /\ Stock \in [Items -> Nat]
        /\ \A i \in Items : reserved[i] \in 0..Stock[i]
    BY StockAssumption DEF Inv, TypeOK
  <2> DEFINE left == IF quantity > reserved[item] THEN 0
                     ELSE reserved[item] - quantity
  <2> HIDE DEF item, quantity
  <2>2. left \in 0..Stock[item]
    BY <1>1, <2>1
  <2>3. reserved' = [reserved EXCEPT ![item] = left]
    BY <1>1 DEF Release
  <2> HIDE DEF left
  <2> QED
    BY <1>1, <2>1, <2>2, <2>3
<1>3. /\ held' \in [Sagas -> [Items -> Int]]
      /\ \A t \in Sagas \ {s} : held'[t] = held[t]
      /\ \A i \in Items : held'[s][i] =
           held[s][i] - (IF item = i THEN quantity ELSE 0)
  <2>1. held \in [Sagas -> [Items -> Int]]
    BY <1>1 DEF TypeOK
  <2> HIDE DEF item, quantity
  <2> QED
    BY <1>1, <2>1
<1>4. CallOf(s)
  <2>1. PayAttempts(s)' = PayAttempts(s) /\ Cardinality(PayAttempts(s)) \in Nat
        /\ charged \in [Sagas -> Nat]
    BY <1>1, AttemptServed DEF Answered
  <2>2. /\ network' \subseteq network
        /\ \A other \in network : other.saga # s => other \in network'
        /\ UNCHANGED <<request, order, idempotency, cancelled>>
        /\ breaker' \in [Clients -> Breakers]
    BY <1>1 DEF Answered
  <2>3. /\ charged[s] <= charged'[s]
        /\ charged'[s] + Cardinality(PayAttempts(s)') <=
             charged[s] + Cardinality(PayAttempts(s))
        /\ charged' \in [Sagas -> Nat] /\ \A t \in Sagas \ {s} : charged'[t] = charged[t]
    BY <1>1, <2>1
  <2> HIDE DEF s
  <2> QED
    BY <1>1, <1>2, <1>3, <2>2, <2>3 DEF CallOf, TypeOK
<1>5. ASSUME s \notin excused
      PROVE  /\ charged'[s] = 0
             /\ \A i \in Items : held'[s][i] =
                  UpTo(s, i, saga'[s].n) - UpTo(s, i, saga'[s].released)
  <2>1. /\ Placed(s) /\ Awaits(m) /\ saga[s].phase = "release" /\ m.nth = Nth(s)
    BY <1>1, <1>5, AwaitedIs DEF Inv, Local
  <2>2. /\ m.nth = saga[s].released + 1 /\ saga[s].released \in Nat
        /\ saga[s].n \in Nat /\ saga[s].n <= Len(Cart(s))
        /\ saga[s].released < saga[s].n
        /\ m.nth - 1 = saga[s].released /\ saga[s].phase \in CallPhases
    BY <1>1, <2>1, SagaTypes DEF Nth, Placed, CallPhases
  <2>3. /\ saga'[s] = AfterCall(s, "done")
    BY <1>1, <2>1, <2>2, ReturnPlaces DEF Answered
  <2>4. saga'[s].n = saga[s].n /\ saga'[s].released = m.nth
    BY <1>1, <2>1, <2>2, <2>3, AfterCallIs DEF Returned
  <2>5. ASSUME NEW i \in Items
        PROVE  held'[s][i] = UpTo(s, i, saga'[s].n) - UpTo(s, i, saga'[s].released)
    <3>1. /\ held[s][i] = UpTo(s, i, saga[s].n) - UpTo(s, i, m.nth - 1)
          /\ UpTo(s, i, m.nth) = UpTo(s, i, m.nth - 1) +
               (IF item = i THEN quantity ELSE 0)
      BY <1>1, <1>5, <2>2, BooksOf
    <3>2. /\ UpTo(s, i, m.nth - 1) \in Int /\ UpTo(s, i, saga[s].n) \in Int
      <4>1. m.nth - 1 <= Len(Cart(s)) /\ m.nth - 1 \in Nat
        BY <1>1, <2>2, CartTypes
      <4> QED
        BY <1>1, <2>2, <4>1, UpToNext
    <3>3. held'[s][i] = held[s][i] - (IF item = i THEN quantity ELSE 0)
      BY <1>3
    <3> DEFINE a == UpTo(s, i, m.nth - 1)
               b == UpTo(s, i, m.nth)
               c == UpTo(s, i, saga[s].n)
    <3> HIDE DEF item, quantity, a, b, c
    <3>4. /\ held[s][i] = c - a /\ b = a + (IF item = i THEN quantity ELSE 0)
          /\ a \in Int /\ c \in Int /\ quantity \in Nat
      BY <1>1, <3>1, <3>2 DEF a, b, c
    <3>5. UpTo(s, i, saga'[s].n) = c /\ UpTo(s, i, saga'[s].released) = b
      BY <2>4 DEF b, c
    <3> QED
      BY <3>3, <3>4, <3>5
  <2> QED
    BY <1>1, <1>5, <2>5, BooksOf
<1> QED
  BY <1>1, <1>4, <1>5, ServedKeeps

\* A payment, or an error of the service in front of any request.
LEMMA PaymentKeeps ==
  ASSUME Inv, NEW m \in network, ServePayment(m)
  PROVE  Inv'
<1> DEFINE s == m.saga
<1>1. /\ TypeOK /\ s \in Sagas /\ m.op = "pay"
      /\ UNCHANGED <<reserved, held, excused, redisFailed, faults>>
  BY AwaitedIs DEF Inv, ServePayment, history
<1>2. PICK answer \in {"done", "declined"} :
        /\ Answered(m, answer)
        /\ IF answer = "done" THEN charged' = [charged EXCEPT ![s] = @ + 1]
           ELSE UNCHANGED charged
  BY <1>1, AnswerIs DEF ServePayment
<1>3. /\ charged' \in [Sagas -> Nat]
      /\ charged'[s] = charged[s] + (IF answer = "done" THEN 1 ELSE 0)
      /\ charged[s] \in Nat
      /\ \A t \in Sagas \ {s} : charged'[t] = charged[t]
  <2>1. charged \in [Sagas -> Nat]
    BY <1>1 DEF TypeOK
  <2> HIDE DEF s
  <2> QED
    BY <1>1, <1>2, <2>1
<1>4. CallOf(s)
  <2>1. Cardinality(PayAttempts(s)') + 1 = Cardinality(PayAttempts(s))
        /\ Cardinality(PayAttempts(s)) \in Nat
    BY <1>1, <1>2, AttemptServed DEF Answered
  <2>2. /\ network' \subseteq network
        /\ \A other \in network : other.saga # s => other \in network'
        /\ UNCHANGED <<request, order, idempotency, cancelled>>
        /\ breaker' \in [Clients -> Breakers]
    BY <1>2 DEF Answered
  <2>3. Cardinality(PayAttempts(s)') \in Nat
    <3>1. PayAttempts(s)' \in SUBSET (1..MaxAttempts)
      BY DEF PayAttempts
    <3> QED
      BY <3>1, AttemptSets
  <2>4. /\ charged[s] <= charged'[s]
        /\ charged'[s] + Cardinality(PayAttempts(s)') <=
             charged[s] + Cardinality(PayAttempts(s))
    BY <1>3, <2>1, <2>3
  <2>5. reserved \in [Items -> Nat]
    BY DEF Inv
  <2> HIDE DEF s
  <2> QED
    BY <1>1, <1>3, <2>2, <2>4, <2>5 DEF CallOf, TypeOK
<1>5. ASSUME s \notin excused
      PROVE  /\ charged'[s] = IF answer = "done" THEN 1 ELSE 0
             /\ \A i \in Items : held'[s][i] =
                  UpTo(s, i, saga'[s].n) - UpTo(s, i, saga'[s].released)
  <2>1. /\ Placed(s) /\ Kept(s) /\ Awaits(m) /\ saga[s].phase = "pay"
    BY <1>1, <1>5, AwaitedIs DEF Inv, Local
  <2>2. /\ saga[s].released = 0 /\ saga[s].phase \in CallPhases
        /\ charged[s] = 0
        /\ \A i \in Items : held[s][i] =
             UpTo(s, i, saga[s].n) - UpTo(s, i, saga[s].released)
    BY <1>1, <1>5, <2>1 DEF Placed, CallPhases, Kept, Paid
  <2>3. saga'[s] = AfterCall(s, answer)
    BY <1>1, <1>2, <2>1, <2>2, ReturnPlaces DEF Answered
  <2>4. saga'[s].n = saga[s].n /\ saga'[s].released = saga[s].released
    BY <1>1, <2>1, <2>2, <2>3, AfterCallIs DEF Returned
  <2> QED
    BY <1>1, <1>3, <2>2, <2>4
<1>6. answer = "done" => charged'[s] > charged[s]
  BY <1>3
<1> QED
  BY <1>1, <1>2, <1>4, <1>5, <1>6, ServedKeeps

LEMMA ErrorKeeps ==
  ASSUME Inv, NEW m \in network, ServeError(m)
  PROVE  Inv'
<1> DEFINE s == m.saga
<1>1. /\ TypeOK /\ s \in Sagas /\ Answered(m, "error")
      /\ UNCHANGED <<reserved, held, charged, redisFailed>>
      /\ excused' = excused \cup {s}
  BY AwaitedIs, AnswerIs DEF Inv, ServeError, server, Excuse
<1>2. faults' \in 0..MaxFaults
  <2>1. faults \in 0..MaxFaults /\ MaxFaults \in Nat
    BY <1>1, SagaAssumption DEF TypeOK
  <2> QED
    BY <2>1 DEF ServeError, Fault
<1>3. CallOf(s)
  <2>1. /\ \/ Cardinality(PayAttempts(s)') + 1 = Cardinality(PayAttempts(s))
           \/ PayAttempts(s)' = PayAttempts(s)
        /\ Cardinality(PayAttempts(s)) \in Nat /\ charged \in [Sagas -> Nat]
    BY <1>1, AttemptServed DEF Answered
  <2>2. Cardinality(PayAttempts(s)') \in Nat
    <3>1. PayAttempts(s)' \in SUBSET (1..MaxAttempts)
      BY DEF PayAttempts
    <3> QED
      BY <3>1, AttemptSets
  <2>3. Cardinality(PayAttempts(s)') <= Cardinality(PayAttempts(s))
    BY <2>1, <2>2
  <2>4. /\ charged[s] <= charged'[s]
        /\ charged'[s] + Cardinality(PayAttempts(s)') <=
             charged[s] + Cardinality(PayAttempts(s))
        /\ charged' \in [Sagas -> Nat]
    BY <1>1, <2>1, <2>2, <2>3
  <2>5. /\ network' \subseteq network
        /\ \A other \in network : other.saga # s => other \in network'
        /\ UNCHANGED <<request, order, idempotency, cancelled>>
        /\ breaker' \in [Clients -> Breakers]
    BY <1>1 DEF Answered
  <2>6. reserved \in [Items -> Nat]
    BY DEF Inv
  <2> HIDE DEF s
  <2> QED
    BY <1>1, <1>2, <2>4, <2>5, <2>6 DEF CallOf, TypeOK
<1>4. s \in excused' /\ "error" # "done"
  BY <1>1
<1> QED
  BY <1>1, <1>3, <1>4, ServedKeeps

-----------------------------------------------------------------------------
(* The invariant is one *)

LEMMA CancelKeeps ==
  ASSUME Inv, NEW s \in Sagas, Cancel(s)
  PROVE  Inv'
<1>1. /\ UNCHANGED <<request, saga, order, idempotency, network, breaker, reserved,
                     held, charged, redisFailed>>
      /\ excused' = excused \cup {s} /\ cancelled' = cancelled \cup {s}
      /\ TypeOK /\ Local(s) /\ reserved \in [Items -> Nat]
  BY DEF Cancel, Excuse, server, Inv
<1>2. faults' \in 0..MaxFaults
  BY <1>1, SagaAssumption DEF Cancel, Fault, TypeOK
<1>3. TypeOK'
  BY <1>1, <1>2 DEF TypeOK
<1>4. Placed(s)' /\ Sent(s)'
  BY <1>1 DEF Local, Placed, Sent, Cart
<1>5. Charged(s)'
  <2>1. PayAttempts(s)' = PayAttempts(s)
    BY <1>1 DEF PayAttempts
  <2> QED
    BY <1>1, <2>1 DEF Local, Charged
<1>6. Kept(s)'
  BY <1>1 DEF Kept
<1>7. OthersUnmoved(s)
  BY <1>1 DEF OthersUnmoved
<1> QED
  BY <1>1, <1>3, <1>4, <1>5, <1>6, <1>7, OneMoves

\* A step that is no saga's own: a key expires, or the time goes on.
LEMMA ApartKeeps ==
  ASSUME Inv, UNCHANGED <<request, saga, order, network, cancelled, reserved,
                          held, charged, excused, redisFailed, faults>>,
         idempotency' \in [Keys -> {"absent", "PROCESSING", "RESPONSE"}],
         breaker' \in [Clients -> Breakers]
  PROVE  Inv'
<1>1. TypeOK' /\ reserved' \in [Items -> Nat]
  BY DEF Inv, TypeOK
<1>2. ASSUME NEW s \in Sagas PROVE Local(s)'
  <2>1. Local(s)
    BY DEF Inv
  <2>2. Placed(s)' /\ Sent(s)'
    BY <2>1 DEF Local, Placed, Sent, Cart
  <2>3. PayAttempts(s)' = PayAttempts(s)
    BY DEF PayAttempts
  <2>4. Charged(s)'
    BY <2>1, <2>3 DEF Local, Charged
  <2>5. \A i : Units(s, i)' = Units(s, i)
    BY DEF Units, Cart
  <2>6. \A i, n : UpTo(s, i, n)' = UpTo(s, i, n)
    BY <2>5 DEF UpTo
  <2>7. \A m : Awaits(m)' <=> Awaits(m)
    BY DEF Awaits, Awaiting, Message, Nth
  <2>8. Kept(s)'
    BY <2>1, <2>6, <2>7 DEF Local, Kept
  <2> QED
    BY <2>2, <2>4, <2>8 DEF Local
<1> QED
  BY <1>1, <1>2 DEF Inv

LEMMA InvInit == Init => Inv
<1> SUFFICES ASSUME Init PROVE Inv
  OBVIOUS
<1>1. TypeOK /\ reserved \in [Items -> Nat]
  <2>1. reserved \in [Items -> Nat] /\ \A i \in Items : reserved[i] \in 0..Stock[i]
    BY StockAssumption DEF Init, NothingReserved
  <2>2. breaker \in [Clients -> Breakers]
    BY BreakerAssumption DEF Init, NewBreaker, Breakers
  <2>3. /\ saga \in [Sagas -> SagaStates]
        /\ \A s \in Sagas : saga[s].n = 0 /\ saga[s].released = 0
    BY SagaAssumption DEF Init, SagaStates, Phases
  <2>4. /\ request \in [Sagas -> [key : Keys \cup {NoKey}, cart : Carts]]
        /\ \A s \in Sagas : Len(request[s].cart) \in Nat
    BY SagaAssumption DEF Init
  <2>5. /\ charged \in [Sagas -> 0..MaxAttempts] /\ faults \in 0..MaxFaults
        /\ held \in [Sagas -> [Items -> Int]]
    BY SagaAssumption DEF Init
  <2> QED
    BY <2>1, <2>2, <2>3, <2>4, <2>5 DEF Init, TypeOK
<1>2. ASSUME NEW s \in Sagas PROVE Local(s)
  <2>1. /\ saga[s] = [phase |-> "submit", n |-> 0, released |-> 0, attempt |-> 0]
        /\ order[s] = "none" /\ network = {} /\ charged[s] = 0 /\ cancelled = {}
        /\ \A i \in Items : held[s][i] = 0
    BY DEF Init
  <2>2. Placed(s)
    BY <2>1 DEF Placed, CallPhases
  <2>3. Sent(s)
    BY <2>1 DEF Sent
  <2>4. Charged(s)
    <3>1. PayAttempts(s) = {}
      BY <2>1 DEF PayAttempts
    <3>2. Cardinality({}) = 0
      BY FS_EmptySet
    <3> QED
      BY <2>1, <3>1, <3>2 DEF Charged, Unpaid, Paid
  <2>5. Kept(s)
    <3>1. \A i : UpTo(s, i, 0) = 0
      BY <1>1, UpToNext
    <3> QED
      BY <2>1, <3>1 DEF Kept, Paid
  <2> QED
    BY <2>2, <2>3, <2>4, <2>5 DEF Local
<1> QED
  BY <1>1, <1>2 DEF Inv

LEMMA InvNext == Inv /\ [Next]_vars => Inv'
<1> SUFFICES ASSUME Inv, [Next]_vars PROVE Inv'
  OBVIOUS
<1>1. ASSUME NEW s \in Sagas, Proceed(s) \/ Disturb(s) PROVE Inv'
  <2>1. \/ Advance(s) \/ Send(s) \/ Resend(s) \/ Cancel(s)
        \/ Rejected(s) \/ AttemptsExhausted(s) \/ CallCancelled(s)
    BY <1>1 DEF Proceed, Disturb, Advance
  <2> QED
    BY <2>1, AdvanceKeeps, SendsKeep, CancelKeeps, FailsKeep
<1>2. ASSUME NEW m \in network, Serve(m) \/ ServeError(m) PROVE Inv'
  BY <1>2, ReserveKeeps, ReleaseKeeps, PaymentKeeps, ErrorKeeps DEF Serve
<1>3. ASSUME NEW k \in Keys, Expire(k) PROVE Inv'
  <2>1. /\ UNCHANGED <<request, saga, order, network, cancelled, reserved,
                       held, charged, excused, redisFailed, faults, breaker>>
        /\ idempotency' = [idempotency EXCEPT ![k] = "absent"]
    BY <1>3 DEF Expire, NoCallMade, server, history
  <2> QED
    BY <2>1, ApartKeeps DEF Inv, TypeOK
<1>4. CASE Tick
  <2>1. /\ UNCHANGED <<request, saga, order, network, cancelled, reserved,
                       held, charged, excused, redisFailed, faults, idempotency>>
        /\ breaker' = [c \in Clients |-> Aged(breaker[c])]
    BY <1>4 DEF Tick, server, history
  <2>2. breaker' \in [Clients -> Breakers]
    BY <2>1, BreakerTypes DEF Inv, TypeOK
  <2> QED
    BY <2>1, <2>2, ApartKeeps DEF Inv, TypeOK
<1>5. CASE UNCHANGED vars
  BY <1>5, ApartKeeps DEF Inv, TypeOK, vars, server, history
<1> QED
  BY <1>1, <1>2, <1>3, <1>4, <1>5 DEF Next

\* The states of the sagas, their orders, the Redis keys, the stock and the
\* circuits stay what the Go code's types and the repository's checks make
\* them; no saga is charged more often than a call has attempts.
THEOREM TypeCorrect == Spec => []TypeOK
<1>1. Inv => TypeOK
  BY DEF Inv
<1> QED
  BY InvInit, InvNext, <1>1, PTL DEF Spec

-----------------------------------------------------------------------------
(* One order per key *)

\* What a step of s may do to key k: pass it on within the work, take a free
\* one, leave a response behind, or leave it.
KeyMoves(s, k) ==
  LET from == saga[s].phase
      to == saga'[s].phase
  IN  \/ /\ idempotency'[k] = idempotency[k]
         /\ to \in Working <=> from \in Working
         /\ to = "confirmed" <=> from = "confirmed"
      \/ /\ idempotency[k] = "absent" /\ idempotency'[k] = "PROCESSING"
         /\ to \in Working
      \/ /\ from \in Working /\ idempotency'[k] = "RESPONSE" /\ to = "confirmed"
      \/ from \in Working /\ to \notin Working \cup {"confirmed"}

LEMMA KeyKept ==
  ASSUME NEW k, KeyHeld(k), UNCHANGED request, NEW s \in Sagas,
         redisFailed \subseteq redisFailed',
         \A t \in Sagas \ {s} : saga'[t] = saga[t],
         Key(s) = k /\ s \notin redisFailed' => KeyMoves(s, k),
         Key(s) # k => idempotency'[k] = idempotency[k]
  PROVE  KeyHeld(k)'
<1> DEFINE mine == {t \in Sagas : Key(t) = k}
<1>1. {t \in Sagas : Key(t) = k}' = mine
  BY DEF Key
<1> HIDE DEF mine
<1> SUFFICES ASSUME mine \cap redisFailed' = {}
             PROVE  \A t \in mine :
          /\ saga'[t].phase \in Working =>
               /\ idempotency'[k] = "PROCESSING"
               /\ \A u \in mine : saga'[u].phase \in Working => u = t
          /\ saga'[t].phase = "confirmed" =>
               /\ idempotency'[k] = "RESPONSE"
               /\ \A u \in mine : saga'[u].phase = "confirmed" => u = t
  BY <1>1 DEF KeyHeld
<1>2. mine \cap redisFailed = {} /\ mine \subseteq Sagas
      /\ (s \in mine <=> Key(s) = k)
  BY DEF mine
<1>3. \A t \in mine :
          /\ saga[t].phase \in Working =>
               /\ idempotency[k] = "PROCESSING"
               /\ \A u \in mine : saga[u].phase \in Working => u = t
          /\ saga[t].phase = "confirmed" =>
               /\ idempotency[k] = "RESPONSE"
               /\ \A u \in mine : saga[u].phase = "confirmed" => u = t
  BY <1>2 DEF KeyHeld, mine
<1>4. CASE s \notin mine
  <2>1. idempotency'[k] = idempotency[k] /\ \A t \in mine : saga'[t] = saga[t]
    BY <1>2, <1>4
  <2> QED
    BY <1>3, <2>1
<1>5. CASE s \in mine
  <2>1. KeyMoves(s, k) /\ \A t \in mine \ {s} : saga'[t] = saga[t]
    BY <1>2, <1>5
  <2>2. "confirmed" \notin Working
    BY DEF Working, CallPhases
  <2> QED
    BY <1>3, <1>5, <2>1, <2>2 DEF KeyMoves
<1> QED
  BY <1>4, <1>5

LEMMA AdvanceKeys ==
  ASSUME Inv, NEW s \in Sagas, Advance(s), NEW k \in Keys, KeyHeld(k)
  PROVE  KeyHeld(k)'
<1>1. /\ UNCHANGED request /\ redisFailed \subseteq redisFailed'
  BY AdvanceIs DEF Inv, NoCallMade
<1>2. PICK phase, status : /\ saga' = [saga EXCEPT ![s].phase = phase]
                           /\ Advances(s, phase, status)
  BY AdvanceIs DEF Inv
<1>3. /\ saga \in [Sagas -> SagaStates] /\ k # NoKey
      /\ idempotency \in [Keys -> {"absent", "PROCESSING", "RESPONSE"}]
  BY SagaAssumption DEF Inv, TypeOK
<1>4. /\ \A t \in Sagas \ {s} : saga'[t] = saga[t]
      /\ saga'[s].phase = phase
  BY <1>2, <1>3 DEF SagaStates
<1>5. Key(s) # k => idempotency'[k] = idempotency[k]
  BY <1>3 DEF Advance, SubmitWithoutKey, Acquire, KeyIsTaken, SubmitUnchecked,
     Lookup, Persist, PersistClashes, Confirm, CacheResponse, FailOrder, Forget
<1>6. ASSUME Key(s) = k, s \notin redisFailed'
      PROVE  KeyMoves(s, k)
  <2> USE DEF At, Continue
  <2>2. CASE Acquire(s)
    <3>1. phase = "persist"
      BY <1>3, <1>4, <2>2 DEF Acquire, SagaStates
    <3> QED
      BY <1>3, <1>4, <1>6, <2>2, <3>1 DEF Acquire, KeyMoves, Working
  <2>3. CASE KeyIsTaken(s)
    <3>1. phase = "lookup" /\ saga[s].phase = "submit"
      BY <1>3, <1>4, <2>3 DEF KeyIsTaken, SagaStates
    <3> QED
      BY <1>3, <1>4, <1>6, <2>3, <3>1 DEF KeyIsTaken, KeyMoves, Working, CallPhases
  <2>4. CASE Lookup(s)
    <3>1. phase \in {"refused", "replayed"} /\ saga[s].phase = "lookup"
      BY <1>2, <2>4 DEF Lookup, Advances
    <3> QED
      BY <1>4, <2>4, <3>1 DEF Lookup, KeyMoves, Working, CallPhases
  <2>5. CASE Persist(s) \/ PersistClashes(s) \/ Confirm(s) \/ FailOrder(s)
    <3>1. /\ phase \in {"reserve", "forget", "cache"}
          /\ saga[s].phase \in {"persist", "confirm", "fail"}
          /\ UNCHANGED idempotency
      BY <1>2, <2>5 DEF Persist, PersistClashes, Confirm, FailOrder, Advances
    <3> QED
      BY <1>4, <3>1 DEF KeyMoves, Working, CallPhases
  <2>6. CASE CacheResponse(s)
    <3>1. phase = "confirmed" /\ saga[s].phase = "cache"
      BY <1>2, <2>6 DEF CacheResponse, Advances
    <3>2. idempotency' = [idempotency EXCEPT ![k] = "RESPONSE"]
      BY <1>3, <1>6, <2>6 DEF CacheResponse, RedisFails
    <3> QED
      BY <1>3, <1>4, <3>1, <3>2 DEF KeyMoves, Working
  <2>7. CASE Forget(s)
    <3>1. phase = "failed" /\ saga[s].phase = "forget"
      BY <1>2, <2>7 DEF Forget, Advances
    <3> QED
      BY <1>4, <3>1 DEF KeyMoves, Working, CallPhases
  <2>8. ~SubmitWithoutKey(s) /\ ~SubmitUnchecked(s)
    BY <1>3, <1>6 DEF SubmitWithoutKey, SubmitUnchecked, RedisFails
  <2> QED
    BY <2>2, <2>3, <2>4, <2>5, <2>6, <2>7, <2>8 DEF Advance
<1> QED
  BY <1>1, <1>4, <1>5, <1>6, KeyKept

\* The calls of a saga and their answers are work on its key.
LEMMA CallsKeepKeys ==
  ASSUME Inv, NEW s \in Sagas, NEW k \in Keys, KeyHeld(k),
         UNCHANGED <<request, idempotency>>, redisFailed \subseteq redisFailed',
         saga[s].phase \in CallPhases,
         \/ UNCHANGED saga
         \/ saga' = [saga EXCEPT ![s].attempt = @ + 1]
         \/ UNCHANGED order /\ \E answer : Returns(s, answer)
  PROVE  KeyHeld(k)'
<1>1. TypeOK /\ Placed(s) /\ saga \in [Sagas -> SagaStates]
  BY DEF Inv, Local, TypeOK
<1>2. /\ \A t \in Sagas \ {s} : saga'[t] = saga[t]
      /\ saga'[s].phase \in {"reserve", "pay", "confirm", "release", "fail"}
  <2>1. CASE UNCHANGED saga
    BY <2>1 DEF CallPhases
  <2>2. CASE saga' = [saga EXCEPT ![s].attempt = @ + 1]
    <3>1. saga'[s].phase = saga[s].phase
      BY <1>1, <2>2 DEF SagaStates
    <3> QED
      BY <1>1, <2>2, <3>1 DEF CallPhases
  <2>3. ASSUME NEW answer, Returns(s, answer), UNCHANGED order
        PROVE  /\ \A t \in Sagas \ {s} : saga'[t] = saga[t]
               /\ saga'[s].phase \in {"reserve", "pay", "confirm", "release", "fail"}
    <3>1. /\ saga'[s] = AfterCall(s, answer)
          /\ \A t \in Sagas \ {s} : saga'[t] = saga[t]
      BY <1>1, <2>3, ReturnPlaces
    <3>2. AfterCall(s, answer).phase
            \in {"reserve", "pay", "confirm", "release", "fail"}
      BY <1>1, AfterCallIs DEF Returned, CallPhases
    <3> QED
      BY <3>1, <3>2
  <2> QED
    BY <2>1, <2>2, <2>3
<1>3. KeyMoves(s, k)
  BY <1>2 DEF KeyMoves, Working, CallPhases
<1> QED
  BY <1>2, <1>3, KeyKept

LEMMA KeyUntouched ==
  ASSUME NEW k, KeyHeld(k), UNCHANGED <<request, saga, redisFailed>>,
         idempotency'[k] = idempotency[k]
  PROVE  KeyHeld(k)'
BY DEF KeyHeld, Key

LEMMA KeysNext ==
  ASSUME Inv, [Next]_vars, NEW k \in Keys, KeyHeld(k)
  PROVE  KeyHeld(k)'
<1>1. ASSUME NEW s \in Sagas, Proceed(s) \/ Disturb(s) PROVE KeyHeld(k)'
  <2>1. CASE Advance(s)
    BY <2>1, AdvanceKeys
  <2>2. CASE Cancel(s)
    BY <2>2, KeyUntouched DEF Cancel, Excuse
  <2>3. CASE \/ Send(s) \/ Resend(s)
             \/ Rejected(s) \/ AttemptsExhausted(s) \/ CallCancelled(s)
    <3>1. /\ TypeOK /\ Placed(s) /\ saga \in [Sagas -> SagaStates]
      BY DEF Inv, Local, TypeOK
    <3>2. saga[s].phase \in CallPhases
      <4>1. Awaiting(s) => saga[s].phase \in CallPhases
        BY <3>1, SagaTypes DEF Awaiting, Placed
      <4>2. AtCall(s) \/ Awaiting(s)
        BY <2>3 DEF Send, Resend, Rejected, AttemptsExhausted, CallCancelled, TimesOut
      <4> QED
        BY <4>1, <4>2 DEF AtCall
    <3>3. /\ UNCHANGED <<request, idempotency, order>>
          /\ redisFailed \subseteq redisFailed'
      BY <2>3 DEF Send, Resend, Rejected, AttemptsExhausted, CallCancelled, TimesOut,
         Excuse, history
    <3>4. CASE Send(s)
      <4>1. saga' = [saga EXCEPT ![s].attempt = @ + 1]
        BY <3>1, <3>4 DEF Send, AtCall, SagaStates
      <4> QED
        BY <3>2, <3>3, <4>1, CallsKeepKeys
    <3>5. CASE Resend(s)
      BY <3>2, <3>3, <3>5, CallsKeepKeys DEF Resend
    <3>6. CASE Rejected(s) \/ AttemptsExhausted(s) \/ CallCancelled(s)
      <4>1. Returns(s, "error")
        BY <3>6 DEF Rejected, AttemptsExhausted, CallCancelled
      <4> QED
        BY <3>2, <3>3, <4>1, CallsKeepKeys
    <3> QED
      BY <2>3, <3>4, <3>5, <3>6
  <2> QED
    BY <1>1, <2>1, <2>2, <2>3 DEF Proceed, Disturb, Advance
<1>2. ASSUME NEW m \in network, Serve(m) \/ ServeError(m) PROVE KeyHeld(k)'
  <2>1. /\ TypeOK /\ m.saga \in Sagas
        /\ Awaits(m) => saga[m.saga].phase \in CallPhases
    BY AwaitedIs DEF Inv
  <2>2. /\ \E answer : Answered(m, answer)
        /\ UNCHANGED redisFailed
    BY <1>2, <2>1, AnswerIs DEF Serve, ServeReserve, ServeRelease, ServePayment,
       ServeError, Excuse, history
  <2>3. UNCHANGED <<request, idempotency, order>> /\ redisFailed \subseteq redisFailed'
    BY <2>2 DEF Answered
  <2>4. CASE Awaits(m)
    <3>1. \E answer : Returns(m.saga, answer)
      BY <2>2, <2>4 DEF Answered
    <3> QED
      BY <2>1, <2>3, <2>4, <3>1, CallsKeepKeys
  <2>5. CASE ~Awaits(m)
    BY <2>2, <2>3, <2>5, KeyUntouched DEF Answered
  <2> QED
    BY <2>4, <2>5
<1>3. ASSUME NEW key \in Keys, Expire(key) PROVE KeyHeld(k)'
  <2>1. /\ UNCHANGED <<request, saga, redisFailed>>
        /\ idempotency \in [Keys -> {"absent", "PROCESSING", "RESPONSE"}]
        /\ idempotency' = [idempotency EXCEPT ![key] = "absent"]
    BY <1>3 DEF Expire, NoCallMade, history, Inv, TypeOK
  <2>2. CASE key # k
    BY <2>1, <2>2, KeyUntouched
  <2>3. CASE key = k
    <3>1. /\ idempotency[k] = "PROCESSING"
          /\ \A s \in Sagas : Key(s) = k => saga[s].phase \notin Working
      BY <1>3, <2>3 DEF Expire, Running, Ended, Working, CallPhases
    <3> QED
      BY <2>1, <3>1 DEF KeyHeld, Key
  <2> QED
    BY <2>2, <2>3
<1>4. CASE Tick
  BY <1>4, KeyUntouched DEF Tick, history
<1>5. CASE UNCHANGED vars
  BY <1>5, KeyUntouched DEF vars, history
<1> QED
  BY <1>1, <1>2, <1>3, <1>4, <1>5 DEF Next

LEMMA OneOfEach == Inv /\ (\A k \in Keys : KeyHeld(k)) => OneOrderPerKey
<1> SUFFICES ASSUME Inv, NEW k \in Keys, KeyHeld(k),
                    {s \in Sagas : Key(s) = k} \cap redisFailed = {}
             PROVE  LET mine == {s \in Sagas : Key(s) = k}
                    IN  Cardinality({s \in mine : order[s] = "CONFIRMED"}) <= 1
  BY DEF OneOrderPerKey
<1> DEFINE mine == {s \in Sagas : Key(s) = k}
           confirmed == {s \in mine : order[s] = "CONFIRMED"}
<1>1. \A s \in confirmed : saga[s].phase \in {"cache", "confirmed"}
  <2>1. ASSUME NEW s \in Sagas, order[s] = "CONFIRMED"
        PROVE  saga[s].phase \in {"cache", "confirmed"}
    <3>1. Placed(s) /\ saga[s].phase \in Phases
      BY SagaTypes DEF Inv, Local
    <3> QED
      BY <2>1, <3>1 DEF Placed, Phases, CallPhases, Ended
  <2> QED
    BY <2>1
<1>2. \A s \in mine :
          /\ saga[s].phase \in Working =>
               /\ idempotency[k] = "PROCESSING"
               /\ \A t \in mine : saga[t].phase \in Working => t = s
          /\ saga[s].phase = "confirmed" =>
               /\ idempotency[k] = "RESPONSE"
               /\ \A t \in mine : saga[t].phase = "confirmed" => t = s
  BY DEF KeyHeld
<1>3. \A s, t \in confirmed : s = t
  <2>1. "cache" \in Working /\ confirmed \subseteq mine
    BY DEF Working
  <2> HIDE DEF mine, confirmed
  <2> QED
    BY <1>1, <1>2, <2>1
<1>4. confirmed = {} \/ \E s : confirmed = {s}
  <2> HIDE DEF confirmed
  <2> QED
    BY <1>3
<1>5. Cardinality(confirmed) <= 1
  <2> HIDE DEF confirmed
  <2>1. CASE confirmed = {}
    <3>1. Cardinality({}) = 0
      BY FS_EmptySet
    <3> QED
      BY <2>1, <3>1
  <2>2. ASSUME NEW s, confirmed = {s} PROVE Cardinality(confirmed) <= 1
    <3>1. Cardinality({s}) = 1
      BY FS_Singleton
    <3> QED
      BY <2>2, <3>1
  <2> QED
    BY <1>4, <2>1, <2>2
<1> QED
  BY <1>5

\* Of any number of requests with one idempotency key, in any interleaving
\* with lost answers, retries, cancelled clients and expiring keys, at most
\* one has its order confirmed unless Redis failed one of them
\* (service.go:103-130, 310-316).
THEOREM OnceConfirmed == Spec => []OneOrderPerKey
<1> DEFINE KInv == Inv /\ \A k \in Keys : KeyHeld(k)
<1>1. Init => KInv
  <2> SUFFICES ASSUME Init, NEW k \in Keys PROVE KeyHeld(k)
    BY InvInit
  <2>1. \A s \in Sagas : saga[s].phase = "submit"
    BY DEF Init
  <2> QED
    BY <2>1 DEF KeyHeld, Working, CallPhases
<1>2. KInv /\ [Next]_vars => KInv'
  BY InvNext, KeysNext
<1>3. KInv => OneOrderPerKey
  BY OneOfEach
<1> QED
  BY <1>1, <1>2, <1>3, PTL DEF Spec

-----------------------------------------------------------------------------
(* What is sold is reserved *)

Holding(i) == [s \in Sagas |-> held[s][i]]

\* A saga without a fault holds what it reserved and has not given back.
LEMMA HeldIs ==
  ASSUME Inv, NEW s \in Sagas, s \notin excused, NEW i \in Items
  PROVE  /\ held[s][i] \in Nat
         /\ saga[s].n = saga[s].released => held[s][i] = 0
         /\ saga[s].n = Len(Cart(s)) /\ saga[s].released = 0 =>
              held[s][i] = Wanted(s)[i]
         /\ \A m \in network : m.saga = s /\ m.op = "release" =>
              IF Line(m).item = i THEN held[s][i] >= Line(m).quantity ELSE TRUE
<1> DEFINE n == saga[s].n
           r == saga[s].released
<1>1. /\ TypeOK /\ Kept(s) /\ Placed(s) /\ n \in Nat /\ r \in Nat /\ r <= n
      /\ n <= Len(Cart(s)) /\ Len(Cart(s)) \in Nat
  BY SagaTypes, CartTypes DEF Inv, Local
<1>2. held[s][i] = UpTo(s, i, n) - UpTo(s, i, r)
  BY <1>1 DEF Kept
<1>3. /\ UpTo(s, i, n) \in Int /\ UpTo(s, i, r) \in Int /\ UpTo(s, i, 0) = 0
      /\ UpTo(s, i, r) <= UpTo(s, i, n)
      /\ UpTo(s, i, Len(Cart(s))) = Wanted(s)[i] /\ Wanted(s)[i] \in Nat
  <2>1. r <= Len(Cart(s))
    BY <1>1
  <2> QED
    BY <1>1, <2>1, UpToNext, UpToGrows, UpToAll
<1>4. ASSUME NEW m \in network, m.saga = s, m.op = "release", Line(m).item = i
      PROVE  held[s][i] >= Line(m).quantity
  <2>1. /\ Awaits(m) /\ saga[s].phase = "release" /\ m.nth = Nth(s)
    BY <1>4, AwaitedIs
  <2>2. /\ m.nth = r + 1 /\ r < n /\ m.nth - 1 = r
    BY <1>1, <2>1 DEF Nth, Placed
  <2>3. /\ UpTo(s, i, m.nth) = UpTo(s, i, m.nth - 1) + Line(m).quantity
        /\ Line(m).quantity \in Nat
    BY <1>4, BooksOf
  <2>4. /\ UpTo(s, i, r + 1) <= UpTo(s, i, n) /\ UpTo(s, i, r + 1) \in Int
    <3>1. r + 1 \in Nat /\ r + 1 <= n /\ r + 1 <= Len(Cart(s))
      BY <1>1, <2>2
    <3> QED
      BY <1>1, <3>1, UpToNext, UpToGrows
  <2>5. UpTo(s, i, r + 1) = UpTo(s, i, r) + Line(m).quantity
    BY <2>2, <2>3
  <2> QED
    BY <1>2, <1>3, <2>3, <2>4, <2>5
<1> QED
  BY <1>2, <1>3, <1>4

LEMMA HoldingTypes ==
  ASSUME Inv, excused = {}, NEW i \in Items
  PROVE  /\ IsFiniteSet(Sagas)
         /\ \A s \in Sagas : /\ Holding(i)[s] = held[s][i]
                             /\ Holding(i)[s] \in Nat /\ Holding(i)[s] \in Int
<1>1. IsFiniteSet(Sagas)
  BY SagaAssumption
<1>2. \A s \in Sagas : held[s][i] \in Nat
  BY HeldIs
<1> QED
  BY <1>1, <1>2 DEF Holding

LEMMA ReservedIs ==
  Reserved <=> (excused = {} => \A i \in Items :
                  reserved[i] = SumFunctionOnSet(Holding(i), Sagas))
BY DEF Reserved, Holding

\* Units change hands one line of one saga at a time.
LEMMA ReservedMoves ==
  ASSUME Inv, Inv', Reserved, NEW s \in Sagas, NEW item \in Items, NEW change \in Int,
         excused' = {}, excused = {},
         \A t \in Sagas \ {s} : held'[t] = held[t],
         \A i \in Items : held'[s][i] = held[s][i] + (IF item = i THEN change ELSE 0),
         \A i \in Items : reserved'[i] = reserved[i] + (IF item = i THEN change ELSE 0)
  PROVE  Reserved'
<1> SUFFICES ASSUME NEW i \in Items
             PROVE  reserved'[i] = SumFunctionOnSet(Holding(i)', Sagas)
  BY DEF Reserved, Holding
<1> DEFINE f == Holding(i)
           g == Holding(i)'
<1>1. /\ IsFiniteSet(Sagas) /\ \A t \in Sagas : f[t] \in Int /\ f[t] = held[t][i]
  BY HoldingTypes
<1>2. \A t \in Sagas : g[t] = held'[t][i] /\ g[t] \in Int
  BY DEF Holding, Inv, TypeOK
<1>3. /\ \A t \in Sagas \ {s} : g[t] = f[t]
      /\ g[s] = f[s] + (IF item = i THEN change ELSE 0)
  BY <1>1, <1>2
<1>4. reserved[i] = SumFunctionOnSet(f, Sagas)
  BY ReservedIs
<1> HIDE DEF f, g
<1>5. SumFunctionOnSet(g, Sagas) = SumFunctionOnSet(f, Sagas) + (g[s] - f[s])
  BY <1>1, <1>2, <1>3, SumChange
<1>6. SumFunctionOnSet(f, Sagas) \in Int
  BY <1>1, SumType
<1>7. SumFunctionOnSet(g, Sagas) = reserved'[i]
  <2> DEFINE total == SumFunctionOnSet(f, Sagas)
             added == IF item = i THEN change ELSE 0
  <2>1. total \in Int /\ added \in Int /\ f[s] \in Int /\ g[s] = f[s] + added
        /\ SumFunctionOnSet(g, Sagas) = total + (g[s] - f[s])
        /\ reserved'[i] = total + added
    BY <1>1, <1>3, <1>4, <1>5, <1>6
  <2> HIDE DEF total, added
  <2> QED
    BY <2>1
<1> QED
  BY <1>7 DEF g

LEMMA ReservedNext ==
  ASSUME Inv, Inv', Reserved, [Next]_vars
  PROVE  Reserved'
<1>1. CASE /\ \A i \in Items : reserved'[i] = reserved[i]
           /\ UNCHANGED held /\ excused \subseteq excused'
  BY <1>1 DEF Reserved
<1>2. ASSUME NEW m \in network, ServeReserve(m) PROVE Reserved'
  <2> DEFINE s == m.saga
             item == Line(m).item
             quantity == Line(m).quantity
  <2>1. s \in Sagas /\ item \in Items /\ quantity \in Nat /\ UNCHANGED excused
    BY <1>2, BooksOf DEF ServeReserve, history
  <2>2. CASE UNCHANGED <<reserved, held>>
    BY <1>1, <2>1, <2>2
  <2>3. CASE excused = {} /\ ~UNCHANGED <<reserved, held>>
    <3>1. /\ reserved' = [reserved EXCEPT ![item] = reserved[item] + quantity]
          /\ held' = [held EXCEPT ![s][item] = @ + quantity]
      BY <1>2, <2>3 DEF ServeReserve, Reserve
    <3>2. reserved \in [Items -> Nat] /\ held \in [Sagas -> [Items -> Int]]
      BY DEF Inv, TypeOK
    <3> HIDE DEF s, item, quantity
    <3>3. /\ \A t \in Sagas \ {s} : held'[t] = held[t]
          /\ \A i \in Items : held'[s][i] =
               held[s][i] + (IF item = i THEN quantity ELSE 0)
          /\ \A i \in Items : reserved'[i] =
               reserved[i] + (IF item = i THEN quantity ELSE 0)
      BY <2>1, <3>1, <3>2
    <3>4. quantity \in Int /\ excused' = {} /\ excused = {}
      BY <2>1, <2>3
    <3> QED
      BY <2>1, <3>3, <3>4, ReservedMoves
  <2>4. CASE excused # {}
    BY <2>1, <2>4 DEF Reserved
  <2> QED
    BY <2>2, <2>3, <2>4
<1>3. ASSUME NEW m \in network, ServeRelease(m) PROVE Reserved'
  <2> DEFINE s == m.saga
             item == Line(m).item
             quantity == Line(m).quantity
  <2>1. s \in Sagas /\ item \in Items /\ quantity \in Nat /\ UNCHANGED excused
        /\ m.op = "release"
    BY <1>3, BooksOf DEF ServeRelease, history
  <2>2. CASE excused = {}
    <3>1. held[s][item] >= quantity
      BY <2>1, <2>2, HeldIs
    <3>2. /\ Holding(item)[s] <= SumFunctionOnSet(Holding(item), Sagas)
          /\ Holding(item)[s] = held[s][item]
      <4>1. /\ IsFiniteSet(Sagas) /\ IsFiniteSet({s}) /\ {s} \in SUBSET Sagas
            /\ \A t \in Sagas : Holding(item)[t] \in Nat /\ Holding(item)[t] \in Int
            /\ Holding(item)[s] = held[s][item]
        BY <2>1, <2>2, HoldingTypes, FS_Singleton
      <4>2. SumFunctionOnSet(Holding(item), {s}) <=
              SumFunctionOnSet(Holding(item), Sagas)
        BY <4>1, SumOfPart
      <4>3. SumFunctionOnSet(Holding(item), {s}) =
              Holding(item)[s] + SumFunctionOnSet(Holding(item), {s} \ {s})
        BY <2>1, <4>1, SumRemove
      <4>4. {s} \ {s} = {} /\ SumFunctionOnSet(Holding(item), {}) = 0
        BY <4>1, SumStep
      <4> HIDE DEF s, item
      <4> QED
        BY <2>1, <4>1, <4>2, <4>3, <4>4
    <3>3. reserved[item] = SumFunctionOnSet(Holding(item), Sagas)
      BY <2>1, <2>2, ReservedIs
    <3>4. reserved \in [Items -> Nat] /\ held \in [Sagas -> [Items -> Int]]
      BY DEF Inv, TypeOK
    <3>5. quantity <= reserved[item] /\ reserved[item] \in Nat
      <4> HIDE DEF s, item, quantity
      <4> QED
        BY <2>1, <3>1, <3>2, <3>3, <3>4
    <3>6. /\ reserved' = [reserved EXCEPT ![item] =
                            IF quantity > reserved[item] THEN 0
                            ELSE reserved[item] - quantity]
          /\ held' = [held EXCEPT ![s][item] = @ - quantity]
      BY <1>3 DEF ServeRelease, Release
    <3> HIDE DEF s, item, quantity
    <3>7. /\ \A t \in Sagas \ {s} : held'[t] = held[t]
          /\ \A i \in Items : held'[s][i] =
               held[s][i] + (IF item = i THEN 0 - quantity ELSE 0)
          /\ \A i \in Items : reserved'[i] =
               reserved[i] + (IF item = i THEN 0 - quantity ELSE 0)
      BY <2>1, <3>4, <3>5, <3>6
    <3> DEFINE change == 0 - quantity
    <3>8. /\ change \in Int /\ excused' = {} /\ excused = {}
          /\ \A i \in Items : held'[s][i] =
               held[s][i] + (IF item = i THEN change ELSE 0)
          /\ \A i \in Items : reserved'[i] =
               reserved[i] + (IF item = i THEN change ELSE 0)
      BY <2>1, <2>2, <3>7
    <3> HIDE DEF change
    <3> QED
      BY <2>1, <3>7, <3>8, ReservedMoves
  <2>3. CASE excused # {}
    BY <2>1, <2>3 DEF Reserved
  <2> QED
    BY <2>2, <2>3
<1>4. ASSUME NEW s \in Sagas, Proceed(s) \/ Disturb(s) PROVE Reserved'
  <2>1. CASE Advance(s)
    BY <1>1, <2>1, AdvanceIs DEF Inv, NoCallMade, server
  <2>2. CASE Send(s) \/ Rejected(s) \/ CallCancelled(s) \/ Disturb(s)
    BY <1>1, <2>2 DEF Send, Rejected, CallCancelled, Disturb, Resend,
       AttemptsExhausted, Cancel, TimesOut, Excuse, server, history
  <2> QED
    BY <1>4, <2>1, <2>2 DEF Proceed, Advance
<1>5. ASSUME NEW m \in network, ServePayment(m) \/ ServeError(m) PROVE Reserved'
  BY <1>1, <1>5 DEF ServePayment, ServeError, Excuse, server, history
<1>6. ASSUME NEW k \in Keys, Expire(k) PROVE Reserved'
  BY <1>1, <1>6 DEF Expire, NoCallMade, server, history
<1>7. CASE Tick \/ UNCHANGED vars
  BY <1>1, <1>7 DEF Tick, vars, server, history
<1> QED
  BY <1>2, <1>3, <1>4, <1>5, <1>6, <1>7 DEF Next, Serve

LEMMA SoldIs ==
  ASSUME Inv, Reserved
  PROVE  StockIsSoldOnce
<1> SUFFICES ASSUME excused = {}, NEW i \in Items
             PROVE  /\ SoldOf(i) <= reserved[i] /\ reserved[i] <= Stock[i]
                    /\ (\A s \in Sagas : ~Running(s)) => SoldOf(i) = reserved[i]
  BY DEF StockIsSoldOnce
<1> DEFINE sold == {s \in Sagas : order[s] = "CONFIRMED"}
           W == [s \in Sagas |-> Wanted(s)[i]]
           H == Holding(i)
<1>1. /\ reserved[i] = SumFunctionOnSet(H, Sagas) /\ reserved[i] <= Stock[i]
  BY ReservedIs, StockAssumption DEF Inv, TypeOK
<1>2. /\ IsFiniteSet(Sagas) /\ sold \in SUBSET Sagas /\ IsFiniteSet(sold)
      /\ \A s \in Sagas : H[s] \in Nat /\ H[s] \in Int /\ H[s] = held[s][i]
  BY HoldingTypes, FS_Subset
<1>3. \A s \in sold : H[s] \in Int /\ H[s] = W[s]
  <2>1. ASSUME NEW s \in Sagas, order[s] = "CONFIRMED"
        PROVE  held[s][i] = Wanted(s)[i]
    <3>1. Placed(s) /\ saga[s].phase \in Phases
      BY SagaTypes DEF Inv, Local
    <3>2. saga[s].n = Len(Cart(s)) /\ saga[s].released = 0
      BY <2>1, <3>1 DEF Placed, Phases, CallPhases, Ended
    <3> QED
      BY <3>2, HeldIs
  <2> QED
    BY <1>2, <2>1
<1>4. SoldOf(i) = SumFunctionOnSet(W, sold)
  BY DEF SoldOf
<1>5. ASSUME \A s \in Sagas : ~Running(s), NEW s \in Sagas \ sold
      PROVE  H[s] = 0
  <2>1. Placed(s) /\ saga[s].phase \in Ended
    BY <1>5 DEF Inv, Local, Running
  <2>2. saga[s].n = saga[s].released
    BY <1>5, <2>1 DEF Placed, Ended
  <2> QED
    BY <1>2, <2>2, HeldIs
<1> HIDE DEF H, W, sold
<1>6. SumFunctionOnSet(H, sold) = SumFunctionOnSet(W, sold)
  BY <1>2, <1>3, SumSame
<1>7. /\ SumFunctionOnSet(H, sold) <= SumFunctionOnSet(H, Sagas)
      /\ (\A s \in Sagas \ sold : H[s] = 0) =>
           SumFunctionOnSet(H, sold) = SumFunctionOnSet(H, Sagas)
  BY <1>2, SumOfPart
<1> QED
  BY <1>1, <1>4, <1>5, <1>6, <1>7

\* As long as no call meets a fault, any number of concurrent orders for the
\* last units sell each unit once at most, sell none that does not exist, and
\* lock none up (repository.go:60-102).
THEOREM NothingSoldTwice == Spec => []StockIsSoldOnce
<1> DEFINE SInv == Inv /\ Reserved
<1>1. Init => SInv
  <2> SUFFICES ASSUME Init, NEW i \in Items
               PROVE  reserved[i] = SumFunctionOnSet(Holding(i), Sagas)
    BY InvInit, ReservedIs
  <2>1. \A s \in Sagas : Holding(i)[s] \in Nat /\ Holding(i)[s] = 0
    BY DEF Init, Holding
  <2>2. IsFiniteSet(Sagas) /\ {} \in SUBSET Sagas
    BY SagaAssumption
  <2>3. SumFunctionOnSet(Holding(i), {}) = SumFunctionOnSet(Holding(i), Sagas)
    BY <2>1, <2>2, SumOfPart
  <2>4. SumFunctionOnSet(Holding(i), {}) = 0
    BY <2>2, SumStep
  <2> QED
    BY <2>3, <2>4 DEF Init, NothingReserved
<1>2. SInv /\ [Next]_vars => SInv'
  BY InvNext, ReservedNext
<1>3. SInv => StockIsSoldOnce
  BY SoldIs
<1> QED
  BY <1>1, <1>2, <1>3, PTL DEF Spec

-----------------------------------------------------------------------------
(* The sagas keep the books of the ledger *)

Orders == [s \in Sagas |-> Wanted(s)]
Nothing == [i \in Items |-> 0]

\* Nobody whose calls met no fault holds more than his order asks for.
Within == \A s \in Sagas : s \notin excused =>
            \A i \in Items : held[s][i] \in 0..Wanted(s)[i]

LEMMA HoldsWithin == Inv => Within
<1> SUFFICES ASSUME Inv, NEW s \in Sagas, s \notin excused, NEW i \in Items
             PROVE  held[s][i] \in 0..Wanted(s)[i]
  BY DEF Within
<1> DEFINE n == saga[s].n
           r == saga[s].released
           all == Len(Cart(s))
<1>1. /\ TypeOK /\ Kept(s) /\ n \in Nat /\ r \in Nat /\ n <= all /\ all \in Nat
  BY SagaTypes, CartTypes DEF Inv, Local
<1>2. held[s][i] = UpTo(s, i, n) - UpTo(s, i, r)
  BY <1>1 DEF Kept
<1>3. /\ UpTo(s, i, n) \in Int /\ UpTo(s, i, n) <= Wanted(s)[i]
      /\ Wanted(s)[i] \in Nat
  <2>1. UpTo(s, i, all) = Wanted(s)[i] /\ Wanted(s)[i] \in Nat
    BY <1>1, UpToAll
  <2> HIDE DEF n, all
  <2>2. n \in Nat /\ all \in Nat /\ n <= all /\ all <= Len(Cart(s))
    BY <1>1 DEF all
  <2>3. UpTo(s, i, n) <= UpTo(s, i, all)
    BY <1>1, <2>2, UpToGrows
  <2>4. UpTo(s, i, n) \in Int
    BY <1>1, <2>2, UpToNext DEF all
  <2> QED
    BY <2>1, <2>3, <2>4
<1>4. UpTo(s, i, r) \in Int /\ 0 <= UpTo(s, i, r)
  <2>1. r <= all /\ 0 <= r
    BY <1>1, SagaTypes
  <2> HIDE DEF r, all
  <2>2. UpTo(s, i, 0) <= UpTo(s, i, r) /\ UpTo(s, i, r) \in Int /\ UpTo(s, i, 0) = 0
    BY <1>1, <2>1, UpToNext, UpToGrows DEF all
  <2> QED
    BY <2>2
<1>5. held[s][i] \in Nat
  BY HeldIs
<1> QED
  BY <1>2, <1>3, <1>4, <1>5

LEMMA LedgerInit == Init => Ledger!Init
<1> SUFFICES ASSUME Init PROVE Ledger!Init
  OBVIOUS
<1>1. Orders \in [Sagas -> [Items -> Nat]]
  <2>1. ASSUME NEW s \in Sagas PROVE Wanted(s) \in [Items -> Nat]
    <3>1. \A i \in Items : Wanted(s)[i] \in Nat
      BY InvInit, UpToAll DEF Inv
    <3> QED
      BY <3>1 DEF Wanted
  <2> QED
    BY <2>1 DEF Orders
<1>2. Entries = [s \in Sagas |-> Ledger!Entry("none", Ledger!Nothing, 0)]
  BY DEF Init, Entries, Ledger!Entry, Ledger!Nothing
<1> QED
  BY <1>1, <1>2 DEF Ledger!Init, Orders, Init

\* The three fields of an entry, before and after a step of its saga.
LEMMA EntryIs ==
  ASSUME NEW s \in Sagas
  PROVE  /\ Entries[s] = Ledger!Entry(order[s], held[s], charged[s])
         /\ Entries'[s] = Ledger!Entry(order'[s], held'[s], charged'[s])
         /\ Entries[s].status = order[s] /\ Entries'[s].status = order'[s]
         /\ Entries[s].held = held[s] /\ Entries'[s].held = held'[s]
         /\ Entries[s].charged = charged[s] /\ Entries'[s].charged = charged'[s]
BY DEF Entries, Ledger!Entry

LEMMA EntryMoves ==
  ASSUME NEW s \in Sagas,
         \A t \in Sagas \ {s} : /\ order'[t] = order[t] /\ held'[t] = held[t]
                                /\ charged'[t] = charged[t]
  PROVE  /\ \A e : Entries'[s] = e => Entries' = [Entries EXCEPT ![s] = e]
         /\ order'[s] = order[s] /\ held'[s] = held[s] /\ charged'[s] = charged[s]
              => UNCHANGED Entries
BY DEF Entries

LEMMA OrdersStay ==
  ASSUME UNCHANGED request
  PROVE  UNCHANGED Orders
BY DEF Orders, Wanted, Units, Cart

\* A saga whose calls met a fault is excused, not released from its decision.
LEMMA ExcusedMoves ==
  ASSUME Inv, Inv', NEW s \in Sagas, s \in excused',
         \A t \in Sagas \ {s} : /\ order'[t] = order[t] /\ held'[t] = held[t]
                                /\ charged'[t] = charged[t],
         order'[s] = order[s] \/ order[s] \in {"none", "PENDING"}
  PROVE  Ledger!Disturbed(s)
<1>1. Entries' = [Entries EXCEPT ![s] = Entries'[s]]
  BY EntryMoves
<1>2. order'[s] = "CONFIRMED" => charged'[s] > 0
  <2>1. /\ Placed(s)' /\ Charged(s)' /\ saga'[s].phase \in Phases
        /\ charged'[s] \in Nat
    BY DEF Inv, Local, TypeOK, SagaStates
  <2>2. order'[s] = "CONFIRMED" => saga'[s].phase \in Paid
    BY <2>1 DEF Placed, Phases, CallPhases, Ended, Paid
  <2> QED
    BY <2>1, <2>2 DEF Charged
<1> QED
  BY <1>1, <1>2, EntryIs DEF Ledger!Disturbed, Ledger!Becomes, Ledger!Settled

\* One whose calls met none, at the step from one status to the next.
LEMMA BooksAt ==
  ASSUME Inv, NEW s \in Sagas, s \notin excused
  PROVE  /\ saga[s].n = saga[s].released => held[s] = Nothing
         /\ saga[s].n = Len(Cart(s)) /\ saga[s].released = 0 =>
              held[s] = Wanted(s)
         /\ charged[s] = IF saga[s].phase \in Paid THEN 1 ELSE 0
<1>1. Kept(s) /\ held[s] \in [Items -> Int]
  BY DEF Inv, Local, TypeOK
<1>2. saga[s].n = saga[s].released => held[s] = Nothing
  BY <1>1, HeldIs DEF Nothing
<1>3. saga[s].n = Len(Cart(s)) /\ saga[s].released = 0 => held[s] = Wanted(s)
  <2>1. DOMAIN Wanted(s) = Items /\ Wanted(s) = [i \in Items |-> Wanted(s)[i]]
    BY DEF Wanted
  <2> QED
    BY <1>1, <2>1, HeldIs
<1> QED
  BY <1>1, <1>2, <1>3 DEF Kept

LEMMA AdvanceBooks ==
  ASSUME Inv, Inv', NEW s \in Sagas, Advance(s)
  PROVE  \/ UNCHANGED Entries
         \/ Ledger!Open(s) \/ Ledger!Confirm(s) \/ Ledger!Fail(s)
         \/ Ledger!Disturbed(s)
<1>1. UNCHANGED <<request, held, charged, excused>>
  BY AdvanceIs DEF Inv, NoCallMade, server
<1>2. PICK phase, status : /\ order' = [order EXCEPT ![s] = status]
                           /\ Advances(s, phase, status)
  BY AdvanceIs DEF Inv
<1>3. /\ order'[s] = status /\ Placed(s) /\ saga[s].n \in Nat
      /\ \A t \in Sagas \ {s} : /\ order'[t] = order[t] /\ held'[t] = held[t]
                                /\ charged'[t] = charged[t]
  BY <1>1, <1>2, SagaTypes DEF Inv, Local, TypeOK
<1>4. CASE status = order[s]
  BY <1>1, <1>3, <1>4, EntryMoves
<1>5. CASE status # order[s]
  <2>1. \/ saga[s].phase = "persist" /\ status = "PENDING"
        \/ saga[s].phase = "confirm" /\ status = "CONFIRMED"
        \/ saga[s].phase = "fail" /\ status = "FAILED"
    BY <1>2, <1>5 DEF Advances
  <2>2. order[s] \in {"none", "PENDING"}
    BY <1>3, <2>1 DEF Placed
  <2>3. CASE s \in excused
    BY <1>1, <1>3, <2>2, <2>3, ExcusedMoves
  <2>4. CASE s \notin excused
    <3>1. Entries' = [Entries EXCEPT ![s] = Ledger!Entry(status, held[s], charged[s])]
      BY <1>1, <1>3, EntryMoves, EntryIs
    <3>2. charged[s] = IF saga[s].phase \in Paid THEN 1 ELSE 0
      BY <2>4, BooksAt
    <3>3. CASE saga[s].phase = "persist"
      <4>1. /\ order[s] = "none" /\ held[s] = Nothing /\ charged[s] = 0
            /\ status = "PENDING"
        BY <1>3, <2>1, <2>4, <3>2, <3>3, BooksAt DEF Placed, Paid
      <4> QED
        BY <3>1, <4>1, EntryIs DEF Ledger!Open, Ledger!Becomes, Ledger!Nothing, Nothing
    <3>4. CASE saga[s].phase = "confirm"
      <4>1. /\ order[s] = "PENDING" /\ charged[s] = 1 /\ status = "CONFIRMED"
        BY <1>3, <2>1, <3>2, <3>4 DEF Placed, Paid
      <4>2. [Entries[s] EXCEPT !.status = "CONFIRMED"] =
              Ledger!Entry(status, held[s], charged[s])
        BY <4>1 DEF Entries, Ledger!Entry
      <4> QED
        BY <3>1, <4>1, <4>2, EntryIs DEF Ledger!Confirm, Ledger!Becomes
    <3>5. CASE saga[s].phase = "fail"
      <4>1. /\ order[s] = "PENDING" /\ held[s] = Nothing /\ charged[s] = 0
            /\ status = "FAILED"
        BY <1>3, <2>1, <2>4, <3>2, <3>5, BooksAt DEF Placed, Paid
      <4> QED
        BY <3>1, <4>1, EntryIs DEF Ledger!Fail, Ledger!Becomes, Ledger!Nothing, Nothing
    <3> QED
      BY <2>1, <3>3, <3>4, <3>5
  <2> QED
    BY <2>3, <2>4
<1> QED
  BY <1>4, <1>5

\* A service that carries out a request of s.
LEMMA ServeBooks ==
  ASSUME Inv, Inv', Within', NEW m \in network, Serve(m)
  PROVE  \/ UNCHANGED Entries
         \/ Ledger!Hold(m.saga) \/ Ledger!Charge(m.saga)
         \/ Ledger!Disturbed(m.saga)
<1> DEFINE s == m.saga
<1>1. /\ s \in Sagas /\ UNCHANGED <<request, order, excused>>
      /\ s \notin excused => m.op = saga[s].phase
      /\ s \notin excused => s \notin excused'
      /\ TypeOK /\ Placed(s)
  <2>1. s \in Sagas /\ TypeOK /\ Placed(s)
    BY AwaitedIs DEF Inv, Local
  <2>2. UNCHANGED <<request, order, excused>>
    BY DEF Serve, ServeReserve, ServeRelease, ServePayment, Answer, history
  <2> QED
    BY <2>1, <2>2, AwaitedIs
<1>2. /\ held \in [Sagas -> [Items -> Int]] /\ charged \in [Sagas -> Nat]
      /\ held' \in [Sagas -> [Items -> Int]]
  BY DEF Inv, TypeOK
<1>3. \A t \in Sagas \ {s} : /\ order'[t] = order[t] /\ held'[t] = held[t]
                             /\ charged'[t] = charged[t]
  <2> HIDE DEF s
  <2>1. \/ UNCHANGED held
        \/ \E item, units : held' = [held EXCEPT ![s][item] = units]
    BY DEF Serve, ServeReserve, ServeRelease, ServePayment, s
  <2>2. UNCHANGED charged \/ charged' = [charged EXCEPT ![s] = @ + 1]
    BY DEF Serve, ServeReserve, ServeRelease, ServePayment, s
  <2> QED
    BY <1>1, <1>2, <2>1, <2>2
<1>4. CASE s \in excused
  BY <1>1, <1>3, <1>4, ExcusedMoves
<1>5. CASE s \notin excused /\ UNCHANGED <<held, charged>>
  BY <1>1, <1>3, <1>5, EntryMoves
<1>6. CASE /\ s \notin excused /\ UNCHANGED charged
           /\ ServeReserve(m) \/ ServeRelease(m)
  <2>1. saga[s].phase \in {"reserve", "release"}
    BY <1>1, <1>6 DEF ServeReserve, ServeRelease
  <2>2. order[s] = "PENDING" /\ order'[s] = "PENDING"
        /\ charged[s] = 0 /\ charged'[s] = 0
    BY <1>1, <1>6, <2>1, BooksAt DEF Placed, Paid
  <2>3. \A i \in Items : held'[s][i] \in 0..Wanted(s)[i]
    <3>1. \A i \in Items : held'[s][i] \in 0..Wanted(s)'[i]
      BY <1>1, <1>6 DEF Within
    <3>2. Wanted(s)' = Wanted(s)
      BY <1>1 DEF Wanted, Units, Cart
    <3> QED
      BY <3>1, <3>2
  <2>4. Entries' = [Entries EXCEPT ![s] = Ledger!Entry("PENDING", Entries'[s].held, 0)]
    BY <1>1, <1>3, <2>2, EntryMoves, EntryIs
  <2>5. \A i \in Items : Entries'[s].held[i] \in 0..Orders[s][i]
    BY <1>1, <2>3, EntryIs DEF Orders
  <2>6. Entries[s].status = "PENDING" /\ Entries[s].charged = 0
    BY <1>1, <2>2, EntryIs
  <2> QED
    BY <2>4, <2>5, <2>6 DEF Ledger!Hold, Ledger!Becomes, Orders
<1>7. CASE s \notin excused /\ ServePayment(m) /\ ~UNCHANGED charged
  <2>1. /\ charged' = [charged EXCEPT ![s] = @ + 1] /\ UNCHANGED held
        /\ saga[s].phase = "pay"
    BY <1>1, <1>7 DEF ServePayment
  <2>2. /\ order[s] = "PENDING" /\ order'[s] = "PENDING"
        /\ charged[s] = 0 /\ charged'[s] = 1
        /\ held[s] = Wanted(s) /\ held'[s] = Wanted(s)
    <3> HIDE DEF s
    <3>1. order[s] = "PENDING" /\ order'[s] = "PENDING"
      BY <1>1, <2>1 DEF Placed
    <3>2. saga[s].n = Len(Cart(s)) /\ saga[s].released = 0
      BY <1>1, <2>1 DEF Placed
    <3>3. charged[s] = IF saga[s].phase \in Paid THEN 1 ELSE 0
      BY <1>1, <1>7, BooksAt
    <3>4. charged[s] = 0
      BY <2>1, <3>3 DEF Paid
    <3>5. held[s] = Wanted(s)
      BY <1>1, <1>7, <3>2, BooksAt
    <3>6. charged'[s] = charged[s] + 1 /\ held'[s] = held[s]
      BY <1>1, <1>2, <2>1
    <3> QED
      BY <3>1, <3>4, <3>5, <3>6
  <2>3. Entries' = [Entries EXCEPT ![s] = Ledger!Entry("PENDING", Wanted(s), 1)]
    BY <1>1, <1>3, <2>2, EntryMoves, EntryIs
  <2>4. /\ Entries[s].status = "PENDING" /\ Entries[s].charged = 0
        /\ Entries[s].held = Orders[s] /\ Orders[s] = Wanted(s)
    BY <1>1, <2>2, EntryIs DEF Orders
  <2> QED
    BY <2>3, <2>4 DEF Ledger!Charge, Ledger!Becomes, Orders
<1> QED
  <2>1. CASE ServePayment(m)
    BY <1>4, <1>5, <1>7, <2>1 DEF ServePayment
  <2>2. CASE ServeReserve(m) \/ ServeRelease(m)
    BY <1>4, <1>6, <2>2 DEF ServeReserve, ServeRelease
  <2> QED
    BY <2>1, <2>2 DEF Serve

LEMMA LedgerNext ==
  Inv /\ Inv' /\ Within' /\ [Next]_vars
    => [Ledger!Next]_<<[s \in Sagas |-> Wanted(s)], Entries, excused>>
<1> SUFFICES ASSUME Inv, Inv', Within', [Next]_vars
             PROVE  \/ Ledger!Next
                    \/ UNCHANGED <<[s \in Sagas |-> Wanted(s)], Entries, excused>>
  OBVIOUS
<1>1. UNCHANGED request /\ excused \subseteq excused'
  <2>1. ASSUME NEW s \in Sagas, Advance(s)
        PROVE  UNCHANGED request /\ excused \subseteq excused'
    BY <2>1, AdvanceIs DEF Inv, NoCallMade
  <2>2. ASSUME NEW s \in Sagas,
               Send(s) \/ Rejected(s) \/ CallCancelled(s) \/ Disturb(s)
        PROVE  UNCHANGED request /\ excused \subseteq excused'
    BY <2>2 DEF Send, Rejected, CallCancelled, Disturb, Resend, AttemptsExhausted,
       Cancel, TimesOut, Excuse, history
  <2>3. ASSUME NEW m \in network, Serve(m) \/ ServeError(m)
        PROVE  UNCHANGED request /\ excused \subseteq excused'
    BY <2>3 DEF Serve, ServeReserve, ServeRelease, ServePayment, ServeError,
       Answer, Excuse, history
  <2>4. CASE (\E k \in Keys : Expire(k)) \/ Tick \/ UNCHANGED vars
    BY <2>4 DEF Expire, Tick, vars, NoCallMade, history
  <2> QED
    BY <2>1, <2>2, <2>3, <2>4 DEF Next, Proceed, Advance
<1>2. UNCHANGED [s \in Sagas |-> Wanted(s)]
  BY <1>1, OrdersStay DEF Orders
<1>3. \/ UNCHANGED Entries
      \/ \E s \in Sagas : \/ Ledger!Open(s) \/ Ledger!Hold(s) \/ Ledger!Charge(s)
                          \/ Ledger!Confirm(s) \/ Ledger!Fail(s)
                          \/ Ledger!Disturbed(s)
  <2>1. ASSUME NEW s \in Sagas, Advance(s)
        PROVE  \/ UNCHANGED Entries
               \/ Ledger!Open(s) \/ Ledger!Confirm(s) \/ Ledger!Fail(s)
               \/ Ledger!Disturbed(s)
    BY <2>1, AdvanceBooks
  <2>2. ASSUME NEW m \in network, Serve(m)
        PROVE  \/ UNCHANGED Entries
               \/ Ledger!Hold(m.saga) \/ Ledger!Charge(m.saga)
               \/ Ledger!Disturbed(m.saga)
    BY <2>2, ServeBooks
  <2>3. \A m \in network : m.saga \in Sagas
    BY AwaitedIs
  <2>4. ASSUME UNCHANGED <<order, held, charged>> PROVE UNCHANGED Entries
    BY <2>4 DEF Entries
  <2>5. ASSUME NEW s \in Sagas,
               Send(s) \/ Rejected(s) \/ CallCancelled(s) \/ Disturb(s)
        PROVE  UNCHANGED Entries
    BY <2>4, <2>5 DEF Send, Rejected, CallCancelled, Disturb, Resend,
       AttemptsExhausted, Cancel, server
  <2>6. ASSUME NEW m \in network, ServeError(m) PROVE UNCHANGED Entries
    BY <2>4, <2>6 DEF ServeError, Answer, server
  <2>7. CASE (\E k \in Keys : Expire(k)) \/ Tick \/ UNCHANGED vars
    BY <2>4, <2>7 DEF Expire, Tick, vars, NoCallMade, server
  <2> QED
    BY <2>1, <2>2, <2>3, <2>5, <2>6, <2>7 DEF Next, Proceed, Advance
<1> QED
  BY <1>1, <1>2, <1>3 DEF Ledger!Next

\* Every order is kept in the books: unless one of its calls met a fault it
\* collects what it wants, is charged once and confirmed, or gives everything
\* back uncharged; and in no case is it confirmed without a charge
\* (service.go:177-292, 360-392).
THEOREM SagaImplementsLedger == Spec => KeepsTheBooks
BY InvInit, InvNext, HoldsWithin, LedgerInit, LedgerNext, PTL
   DEF Spec, KeepsTheBooks, Ledger!Spec
=============================================================================
