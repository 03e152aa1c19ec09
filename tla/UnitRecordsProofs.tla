-------------------------- MODULE UnitRecordsProofs --------------------------
(***************************************************************************)
(* What UnitRecords guarantees for every history, every set of devices and *)
(* every set of sizes and cadets.                                          *)
(*                                                                         *)
(* RecordsInv is the inductive invariant: every event of the log is one    *)
(* that a command could sign, and every projection is Rebuild, the fold of *)
(* the events that its device knows, of which each was signed by someone   *)
(* who knew the events it names.  A fold is a function on the sets of its  *)
(* events, so what holds of its result is proved by taking the last event  *)
(* away (FoldInduction): a predicate on projections holds of Genesis, and  *)
(* Effect keeps it for every kind of event.  The predicates are            *)
(*   CalendarOK  each field shows the edits that nothing overwrote;        *)
(*   Settled     every part is well-formed, and nothing was set aside;     *)
(*   WatchesOK   the versions that a count started from tell what moved;   *)
(*   NeedsFit    what served needs is no more than what was issued.        *)
(* They hold of every set of events that commands could have signed,       *)
(* whichever device learnt them in whichever order.                        *)
(***************************************************************************)
EXTENDS UnitRecords, FiniteSetTheorems, WellFoundedInduction, SequenceTheorems, TLAPS

\* A nonempty set of numbers has a least one.
LEMMA LeastNumber ==
  ASSUME NEW S, S \subseteq Nat, S # {}
  PROVE  \E m \in S : \A k \in S : m <= k
<1> DEFINE R == OpToRel(<, Nat)
<1>1. IsWellFoundedOn(R, Nat)
  BY NatLessThanWellFounded, Zenon
<1>2. \A x, y \in Nat : y < x => <<y, x>> \in R
  BY DEF OpToRel
<1> HIDE DEF R
<1>3. PICK m \in S : \A k \in S : ~ (<<k, m>> \in R)
  BY <1>1, WFMin
<1>4. \A k \in S : k \in Nat /\ m \in Nat /\ ~ (k < m)
  BY <1>2, <1>3
<1> QED BY <1>4

\* The ways to choose the element of a set that is taken last.
Picks(S) == {p \in [(SUBSET S) \ {{}} -> S] : \A T \in (SUBSET S) \ {{}} : p[T] \in T}

\* What holds of the empty set, and of a set whenever it holds of the set without the
\* element that is taken last, holds of every finite set.
LEMMA TakenOneByOne ==
  ASSUME NEW S, IsFiniteSet(S), NEW pick \in Picks(S),
         NEW P, {} \in P, \A T \in SUBSET S : T # {} /\ T \ {pick[T]} \in P => T \in P
  PROVE  \A T \in SUBSET S : T \in P
<1>0. \A T \in SUBSET S : T # {} => pick[T] \in T
  BY DEF Picks
<1> DEFINE Bad == {Cardinality(T) : T \in (SUBSET S) \ P}
<1>1. \A T \in SUBSET S : IsFiniteSet(T) /\ Cardinality(T) \in Nat
  BY FS_Subset, FS_CardinalityType
<1>2. Bad \subseteq Nat
  BY <1>1
<1>3. ASSUME NEW k \in Bad, \A j \in Bad : k <= j PROVE FALSE
  <2>1. PICK T \in (SUBSET S) \ P : k = Cardinality(T)
    BY <1>3
  <2>2. T # {}
    BY <2>1
  <2>3. pick[T] \in T /\ T \ {pick[T]} \in SUBSET S
    BY <1>0, <2>1, <2>2
  <2>4. Cardinality(T \ {pick[T]}) = Cardinality(T) - 1
    BY <1>1, <2>1, <2>3, FS_RemoveElement
  <2>5. T \ {pick[T]} \in P
    <3>1. ASSUME T \ {pick[T]} \notin P PROVE FALSE
      <4>1. Cardinality(T) - 1 \in Bad
        BY <2>3, <2>4, <3>1
      <4>2. k <= k - 1 /\ k \in Nat
        BY <1>2, <1>3, <2>1, <4>1
      <4> QED BY <4>2
    <3> QED BY <3>1
  <2> QED BY <2>1, <2>2, <2>5
<1> HIDE DEF Bad
<1>4. Bad = {}
  BY <1>2, <1>3, LeastNumber
<1> QED BY <1>4 DEF Bad

\* f takes the elements of S one by one, from base.
IsFold(f, S, pick, base, step) ==
  \A T \in SUBSET S : f[T] = IF T = {} THEN base ELSE step[<<f[T \ {pick[T]}], pick[T]>>]

\* A function may be defined by taking the elements of a finite set one by one: there
\* is one for each base and each step from states to states.
LEMMA FoldExists ==
  ASSUME NEW S, IsFiniteSet(S), NEW pick \in Picks(S),
         NEW D, NEW base \in D, NEW step \in [D \X S -> D]
  PROVE  \E f \in [SUBSET S -> D] : IsFold(f, S, pick, base, step)
<1>0. \A T \in SUBSET S : T # {} => pick[T] \in T
  BY DEF Picks
<1> DEFINE Sized(k) == {T \in SUBSET S : Cardinality(T) <= k}
<1> DEFINE Has(k) == \E f \in [Sized(k) -> D] :
             \A T \in Sized(k) : f[T] = IF T = {} THEN base ELSE step[<<f[T \ {pick[T]}], pick[T]>>]
<1> DEFINE Bad == {k \in Nat : ~ Has(k)}
<1>1. \A T \in SUBSET S : IsFiniteSet(T) /\ Cardinality(T) \in Nat
  BY FS_Subset, FS_CardinalityType
<1>2. ASSUME NEW T \in SUBSET S, T # {}
      PROVE  /\ pick[T] \in T /\ pick[T] \in S /\ T \ {pick[T]} \in SUBSET S
             /\ Cardinality(T \ {pick[T]}) = Cardinality(T) - 1
  <2>1. pick[T] \in T
    BY <1>0, <1>2
  <2> QED BY <1>1, <1>2, <2>1, FS_RemoveElement
<1>3. Has(0)
  <2>1. Sized(0) = {{}}
    <3>1. ASSUME NEW T \in SUBSET S, Cardinality(T) <= 0 PROVE T = {}
      <4>1. IsFiniteSet(T) /\ Cardinality(T) = 0
        BY <1>1, <3>1
      <4> QED BY <4>1, FS_EmptySet
    <3>2. {} \in SUBSET S /\ Cardinality({}) = 0
      BY FS_EmptySet
    <3>3. {} \in Sized(0)
      BY <3>2
    <3> QED BY <3>1, <3>3
  <2> DEFINE f == [T \in Sized(0) |-> base]
  <2>2. f \in [Sized(0) -> D]
    OBVIOUS
  <2>3. \A T \in Sized(0) : f[T] = base /\ T = {}
    BY <2>1
  <2> HIDE DEF f, Sized
  <2> QED BY <2>2, <2>3
<1>4. ASSUME NEW k \in Nat, Has(k) PROVE Has(k + 1)
  <2>1. PICK f \in [Sized(k) -> D] :
          \A T \in Sized(k) : f[T] = IF T = {} THEN base ELSE step[<<f[T \ {pick[T]}], pick[T]>>]
    BY <1>4
  <2>2. ASSUME NEW T \in Sized(k + 1), T # {} PROVE T \ {pick[T]} \in Sized(k) /\ pick[T] \in S
    <3>1. T \in SUBSET S /\ Cardinality(T) <= k + 1
      OBVIOUS
    <3> QED BY <1>1, <1>2, <2>2, <3>1
  <2>3. Sized(k) \subseteq Sized(k + 1)
    BY <1>1
  <2> DEFINE g == [T \in Sized(k + 1) |-> IF T = {} THEN base ELSE step[<<f[T \ {pick[T]}], pick[T]>>]]
  <2> HIDE DEF Sized
  <2>4. g \in [Sized(k + 1) -> D]
    BY <2>1, <2>2
  <2>5. \A T \in Sized(k) : g[T] = f[T]
    BY <2>1, <2>3
  <2>6. \A T \in Sized(k + 1) : T # {} => g[T \ {pick[T]}] = f[T \ {pick[T]}]
    BY <2>2, <2>5
  <2>7. \A T \in Sized(k + 1) : g[T] = IF T = {} THEN base ELSE step[<<g[T \ {pick[T]}], pick[T]>>]
    BY <2>6
  <2> QED BY <2>4, <2>7
<1>5. ASSUME NEW k \in Bad, \A j \in Bad : k <= j PROVE FALSE
  <2>1. k \in Nat /\ ~ Has(k)
    BY <1>5
  <2> HIDE DEF Has
  <2>2. k # 0
    BY <1>3, <2>1
  <2>3. k - 1 \in Nat
    BY <2>1, <2>2
  <2>4. Has(k - 1)
    <3>1. ASSUME ~ Has(k - 1) PROVE FALSE
      <4>1. k - 1 \in Bad
        BY <2>3, <3>1
      <4> QED BY <1>5, <2>1, <4>1
    <3> QED BY <3>1
  <2>5. (k - 1) + 1 = k
    BY <2>1
  <2>6. Has((k - 1) + 1)
    BY <1>4, <2>3, <2>4
  <2> QED BY <2>1, <2>5, <2>6
<1> HIDE DEF Has
<1>6. Bad \subseteq Nat
  OBVIOUS
<1>7. Bad = {}
  <2> HIDE DEF Bad
  <2> QED BY <1>5, <1>6, LeastNumber
<1>8. Has(Cardinality(S))
  <2>1. Cardinality(S) \in Nat
    BY FS_CardinalityType
  <2> QED BY <1>7, <2>1
<1>9. Sized(Cardinality(S)) = SUBSET S
  BY <1>1, FS_Subset
<1> HIDE DEF Sized
<1> QED BY <1>8, <1>9 DEF Has, IsFold


\* What holds of 0 and of the successor of each number it holds of, holds of the size of
\* every finite set.
LEMMA SizeInduction ==
  ASSUME NEW S, IsFiniteSet(S), NEW P \in SUBSET Nat, 0 \in P, \A k \in P : k + 1 \in P
  PROVE  Cardinality(S) \in P
<1> DEFINE Bad == Nat \ P
<1>1. ASSUME NEW m \in Bad, \A k \in Bad : m <= k PROVE FALSE
  <2>1. m # 0 /\ m \in Nat
    OBVIOUS
  <2>2. m - 1 \in Nat /\ ~ (m <= m - 1) /\ (m - 1) + 1 = m
    BY <2>1
  <2>3. m - 1 \in P
    BY <1>1, <2>2
  <2> QED BY <2>2, <2>3
<1>2. Bad = {}
  <2>1. Bad \subseteq Nat
    OBVIOUS
  <2> HIDE DEF Bad
  <2> QED BY <1>1, <2>1, LeastNumber
<1> QED BY <1>2, FS_CardinalityType

\* A set without one of its elements is smaller by one.
LEMMA OneLess ==
  ASSUME NEW S, IsFiniteSet(S), NEW T \in SUBSET S, NEW x \in T
  PROVE  T \ {x} \in SUBSET S /\ Cardinality(T) \in Nat /\ Cardinality(T \ {x}) = Cardinality(T) - 1
                              /\ Cardinality(T \ {x}) \in Nat
<1>1. IsFiniteSet(T)
  BY FS_Subset
<1>2. IsFiniteSet(T \ {x})
  BY <1>1, FS_Subset
<1> QED BY <1>1, <1>2, FS_RemoveElement, FS_CardinalityType

-----------------------------------------------------------------------------
(* The order of the fold.                                                  *)

\* What places an event in the order are numbers.
Placed(l, S) == IsFiniteSet(S) /\ \A n \in S : n \in Nat /\ l[n].clock \in Nat /\ l[n].author \in Nat

\* The order is total.
LEMMA OrderIsTotal ==
  ASSUME NEW l, NEW S, Placed(l, S), NEW k \in S, NEW m \in S, NEW n \in S
  PROVE  /\ Before(l, k, m) /\ Before(l, m, n) => Before(l, k, n)
         /\ m # n => Before(l, m, n) \/ Before(l, n, m)
         /\ ~ (Before(l, m, n) /\ Before(l, n, m)) /\ ~ Before(l, m, m)
<1>1. \A x \in {k, m, n} : x \in Nat /\ l[x].clock \in Nat /\ l[x].author \in Nat
  BY DEF Placed
<1> QED BY <1>1 DEF Before

\* The event taken last comes after all others.
LEMMA LastIsLast ==
  ASSUME NEW l, NEW S, Placed(l, S), NEW T \in SUBSET S, T # {}
  PROVE  LastOf(l, T) \in T /\ \A m \in T \ {LastOf(l, T)} : Before(l, m, LastOf(l, T))
<1> DEFINE Newest(n, U) == n \in U /\ \A m \in U \ {n} : Before(l, m, n)
<1> DEFINE pick == [U \in (SUBSET S) \ {{}} |-> CHOOSE n \in U : TRUE]
<1> DEFINE P == {U \in SUBSET S : U = {} \/ \E n \in U : Newest(n, U)}
<1>1. pick \in Picks(S)
  BY DEF Picks
<1>2. {} \in P
  OBVIOUS
<1>3. ASSUME NEW U \in SUBSET S, U # {}, U \ {pick[U]} \in P PROVE U \in P
  <2>1. pick[U] \in U
    BY <1>1, <1>3 DEF Picks
  <2> DEFINE p == pick[U]
  <2> HIDE DEF pick
  <2>2. CASE U \ {p} = {}
    <3>1. Newest(p, U)
      BY <2>1, <2>2
    <3> QED BY <2>1, <3>1
  <2>3. CASE U \ {p} # {}
    <3>1. PICK n \in U \ {p} : Newest(n, U \ {p})
      BY <1>3, <2>3
    <3>2. CASE Before(l, p, n)
      <4>1. Newest(n, U)
        BY <3>1, <3>2
      <4> QED BY <4>1
    <3>3. CASE ~ Before(l, p, n)
      <4>1. Before(l, n, p)
        BY <2>1, <3>1, <3>3, OrderIsTotal
      <4>2. ASSUME NEW m \in U \ {p} PROVE Before(l, m, p)
        BY <2>1, <3>1, <4>1, <4>2, OrderIsTotal
      <4>3. Newest(p, U)
        BY <2>1, <4>2
      <4> QED BY <2>1, <4>3
    <3> QED BY <3>2, <3>3
  <2> QED BY <2>2, <2>3
<1> HIDE DEF P
<1>4. T \in P
  <2>1. IsFiniteSet(S)
    BY DEF Placed
  <2>2. \A U \in SUBSET S : U # {} /\ U \ {pick[U]} \in P => U \in P
    BY <1>3
  <2> HIDE DEF pick
  <2> QED BY <1>1, <1>2, <2>1, <2>2, TakenOneByOne
<1>5. \E n \in T : Newest(n, T)
  BY <1>4 DEF P
<1> QED BY <1>5 DEF LastOf

\* Which event of a set comes last.
LastPick(l, S) == [T \in (SUBSET S) \ {{}} |-> LastOf(l, T)]

\* Taking the last event of a set by the order is a choice from it.
LEMMA LastPicks ==
  ASSUME NEW l, NEW S, Placed(l, S)
  PROVE  /\ LastPick(l, S) \in Picks(S)
         /\ \A T \in SUBSET S : T # {} => LastPick(l, S)[T] = LastOf(l, T) /\ LastOf(l, T) \in T
<1>1. ASSUME NEW T \in SUBSET S, T # {}
      PROVE  LastPick(l, S)[T] = LastOf(l, T) /\ LastOf(l, T) \in T
  BY <1>1, LastIsLast DEF LastPick
<1>2. LastPick(l, S) \in Picks(S)
  BY <1>1, Zenon DEF Picks, LastPick
<1> QED BY <1>1, <1>2

-----------------------------------------------------------------------------
(* What a device shows is what it knows, event by event.                   *)

\* f[T] is what a device shows that knows T of `all`.
Folds(f, l, all) ==
  /\ f[{}] = Genesis
  /\ \A T \in SUBSET all : T # {} => f[T] = TryApply(l, all, f[T \ {LastOf(l, T)}], LastOf(l, T))

\* The rebuilt projection is what a fold over all events ends with.
LEMMA RebuildFolds ==
  ASSUME NEW l, NEW all, Placed(l, all)
  PROVE  \E f : Folds(f, l, all) /\ f[all] = Rebuild(l, all)
<1> DEFINE Step(f, T) == IF T = {} THEN Genesis ELSE TryApply(l, all, f[T \ {LastOf(l, T)}], LastOf(l, T))
<1> DEFINE Raw(f) == f = [T \in SUBSET all |->
       IF T = {} THEN Genesis ELSE TryApply(l, all, f[T \ {LastOf(l, T)}], LastOf(l, T))]
<1> DEFINE P == {k \in Nat : \E f : \A T \in SUBSET all : Cardinality(T) <= k => f[T] = Step(f, T)}
<1>1. IsFiniteSet(all)
  BY DEF Placed
<1>2. ASSUME NEW T \in SUBSET all, T # {}
      PROVE  /\ LastOf(l, T) \in T /\ T \ {LastOf(l, T)} \in SUBSET all /\ Cardinality(T) \in Nat
             /\ Cardinality(T \ {LastOf(l, T)}) = Cardinality(T) - 1
  <2>1. LastOf(l, T) \in T
    BY <1>2, LastIsLast
  <2> QED BY <1>1, <2>1, OneLess
<1>3. 0 \in P
  <2> DEFINE f == [T \in SUBSET all |-> Genesis]
  <2>1. ASSUME NEW T \in SUBSET all, Cardinality(T) <= 0 PROVE T = {}
    <3>1. IsFiniteSet(T) /\ Cardinality(T) \in Nat
      BY <1>1, FS_Subset, FS_CardinalityType
    <3> QED BY <2>1, <3>1, FS_EmptySet
  <2>2. \A T \in SUBSET all : Cardinality(T) <= 0 => f[T] = Step(f, T)
    BY <2>1
  <2> HIDE DEF f, Step
  <2> QED BY <2>2
<1>4. ASSUME NEW k \in P PROVE k + 1 \in P
  <2>1. PICK f : \A T \in SUBSET all : Cardinality(T) <= k => f[T] = Step(f, T)
    OBVIOUS
  <2> DEFINE g == [T \in SUBSET all |-> Step(f, T)]
  <2>2. \A T \in SUBSET all : g[T] = Step(f, T)
    OBVIOUS
  <2> HIDE DEF g
  <2>3. ASSUME NEW T \in SUBSET all, Cardinality(T) <= k + 1 PROVE g[T] = Step(g, T)
    <3>1. CASE T = {}
      BY <2>2, <3>1
    <3>2. CASE T # {}
      <4>1. T \ {LastOf(l, T)} \in SUBSET all /\ Cardinality(T \ {LastOf(l, T)}) <= k
        BY <1>2, <2>3, <3>2
      <4>2. f[T \ {LastOf(l, T)}] = g[T \ {LastOf(l, T)}]
        <5> HIDE DEF Step
        <5> QED BY <2>1, <2>2, <4>1
      <4> QED BY <2>2, <3>2, <4>2
    <3> QED BY <3>1, <3>2
  <2> HIDE DEF Step
  <2>4. \A T \in SUBSET all : Cardinality(T) <= k + 1 => g[T] = Step(g, T)
    BY <2>3
  <2>5. k + 1 \in Nat
    OBVIOUS
  <2> QED BY <2>4, <2>5
<1>5. P \in SUBSET Nat
  OBVIOUS
<1>6. Cardinality(all) \in P
  <2> HIDE DEF P
  <2> QED BY <1>1, <1>3, <1>4, <1>5, SizeInduction
<1>7. PICK f : \A T \in SUBSET all : f[T] = Step(f, T)
  <2>1. PICK f : \A T \in SUBSET all : Cardinality(T) <= Cardinality(all) => f[T] = Step(f, T)
    <3> HIDE DEF Step
    <3> QED BY <1>6
  <2>2. \A T \in SUBSET all : Cardinality(T) <= Cardinality(all)
    BY <1>1, FS_Subset
  <2> HIDE DEF Step
  <2> QED BY <2>1, <2>2
<1>8. Raw([T \in SUBSET all |-> f[T]])
  <2> DEFINE g == [T \in SUBSET all |-> f[T]]
  <2>1. \A T \in SUBSET all : g[T] = f[T]
    OBVIOUS
  <2>2. g = [T \in SUBSET all |-> g[T]]
    OBVIOUS
  <2> HIDE DEF g
  <2>3. ASSUME NEW T \in SUBSET all PROVE g[T] = Step(g, T)
    <3>1. CASE T = {}
      BY <1>7, <2>1, <3>1
    <3>2. CASE T # {}
      <4>1. f[T \ {LastOf(l, T)}] = g[T \ {LastOf(l, T)}]
        BY <1>2, <2>1, <3>2
      <4> QED BY <1>7, <2>1, <3>2, <4>1
    <3> QED BY <3>1, <3>2
  <2>4. g = [T \in SUBSET all |-> Step(g, T)]
    <3> HIDE DEF Step
    <3> QED BY <2>2, <2>3
  <2> QED BY <2>4 DEF g
<1> DEFINE fold == CHOOSE h : Raw(h)
<1>9. Raw(fold)
  BY <1>8
<1>10. Rebuild(l, all) = fold[all]
  BY Zenon DEF Rebuild
<1> HIDE DEF fold
<1>11. Folds(fold, l, all)
  BY <1>9 DEF Folds
<1> QED BY <1>10, <1>11

\* One line of an issue, one thing that it missed, one line of a return:
\* q is what the lines before it made.
Take(kind, e, n, q, x) ==
  CASE kind = "ISSUED" -> IssueLine(e, q, n, x)
    [] kind = "MISSED" -> AddMissing(q, n, e.cadet, x)
    [] kind = "RETURNED" -> ReturnLine(e, q, n, x)

\* f[T] is what the lines T make of `base`.
Takes(f, kind, e, n, base, S, pick) ==
  /\ f[{}] = base
  /\ \A T \in SUBSET S : T # {} => f[T] = Take(kind, e, n, f[T \ {pick[T]}], pick[T])

Taking(f, kind, e, n, base, S, pick) ==
  f = [T \in SUBSET S |-> IF T = {} THEN base ELSE Take(kind, e, n, f[T \ {pick[T]}], pick[T])]

\* A fold that takes the lines one by one exists.
LEMMA TakesExist ==
  ASSUME NEW kind, NEW e, NEW n, NEW base, NEW S, IsFiniteSet(S), NEW pick \in Picks(S)
  PROVE  \E f : Taking(f, kind, e, n, base, S, pick)
<1> DEFINE Step(f, T) == IF T = {} THEN base ELSE Take(kind, e, n, f[T \ {pick[T]}], pick[T])
<1> DEFINE P == {k \in Nat : \E f : \A T \in SUBSET S : Cardinality(T) <= k => f[T] = Step(f, T)}
<1>2. ASSUME NEW T \in SUBSET S, T # {}
      PROVE  /\ pick[T] \in T /\ T \ {pick[T]} \in SUBSET S /\ Cardinality(T) \in Nat
             /\ Cardinality(T \ {pick[T]}) = Cardinality(T) - 1
  <2>1. pick[T] \in T
    BY <1>2 DEF Picks
  <2> QED BY <2>1, OneLess
<1>3. 0 \in P
  <2> DEFINE f == [T \in SUBSET S |-> base]
  <2>1. ASSUME NEW T \in SUBSET S, Cardinality(T) <= 0 PROVE T = {}
    <3>1. IsFiniteSet(T) /\ Cardinality(T) \in Nat
      BY FS_Subset, FS_CardinalityType
    <3> QED BY <2>1, <3>1, FS_EmptySet
  <2>2. \A T \in SUBSET S : Cardinality(T) <= 0 => f[T] = Step(f, T)
    BY <2>1
  <2> HIDE DEF f, Step
  <2> QED BY <2>2
<1>4. ASSUME NEW k \in P PROVE k + 1 \in P
  <2>1. PICK f : \A T \in SUBSET S : Cardinality(T) <= k => f[T] = Step(f, T)
    OBVIOUS
  <2> DEFINE g == [T \in SUBSET S |-> Step(f, T)]
  <2>2. \A T \in SUBSET S : g[T] = Step(f, T)
    OBVIOUS
  <2> HIDE DEF g
  <2>3. ASSUME NEW T \in SUBSET S, Cardinality(T) <= k + 1 PROVE g[T] = Step(g, T)
    <3>1. CASE T = {}
      BY <2>2, <3>1
    <3>2. CASE T # {}
      <4>1. T \ {pick[T]} \in SUBSET S /\ Cardinality(T \ {pick[T]}) <= k
        BY <1>2, <2>3, <3>2
      <4>2. f[T \ {pick[T]}] = g[T \ {pick[T]}]
        <5> HIDE DEF Step
        <5> QED BY <2>1, <2>2, <4>1
      <4> QED BY <2>2, <3>2, <4>2
    <3> QED BY <3>1, <3>2
  <2> HIDE DEF Step
  <2>4. \A T \in SUBSET S : Cardinality(T) <= k + 1 => g[T] = Step(g, T)
    BY <2>3
  <2>5. k + 1 \in Nat
    OBVIOUS
  <2> QED BY <2>4, <2>5
<1>5. P \in SUBSET Nat
  OBVIOUS
<1>6. Cardinality(S) \in P
  <2> HIDE DEF P
  <2> QED BY <1>3, <1>4, <1>5, SizeInduction
<1>7. PICK f : \A T \in SUBSET S : f[T] = Step(f, T)
  <2>1. PICK f : \A T \in SUBSET S : Cardinality(T) <= Cardinality(S) => f[T] = Step(f, T)
    <3> HIDE DEF Step
    <3> QED BY <1>6
  <2>2. \A T \in SUBSET S : Cardinality(T) <= Cardinality(S)
    BY FS_Subset
  <2> HIDE DEF Step
  <2> QED BY <2>1, <2>2
<1> DEFINE g == [T \in SUBSET S |-> f[T]]
<1>8. \A T \in SUBSET S : g[T] = f[T]
  OBVIOUS
<1>9. g = [T \in SUBSET S |-> g[T]]
  OBVIOUS
<1> HIDE DEF g
<1>10. ASSUME NEW T \in SUBSET S PROVE g[T] = Step(g, T)
  <2>1. CASE T = {}
    BY <1>7, <1>8, <2>1
  <2>2. CASE T # {}
    <3>1. f[T \ {pick[T]}] = g[T \ {pick[T]}]
      BY <1>2, <1>8, <2>2
    <3> QED BY <1>7, <1>8, <2>2, <3>1
  <2> QED BY <2>1, <2>2
<1>11. g = [T \in SUBSET S |-> Step(g, T)]
  <2> HIDE DEF Step
  <2> QED BY <1>9, <1>10
<1> QED BY <1>11 DEF Taking

\* Any element of a set may be taken last; of some numbers, the largest.
AnyPick(S) == [T \in (SUBSET S) \ {{}} |-> CHOOSE x \in T : TRUE]
MaxPick(S) == [T \in (SUBSET S) \ {{}} |-> Max(T)]

\* Taking any element is a choice.
LEMMA AnyPicks ==
  ASSUME NEW S
  PROVE  AnyPick(S) \in Picks(S)
BY DEF Picks, AnyPick

\* A finite, non-empty set of numbers has a greatest one.
LEMMA GreatestOfSome ==
  ASSUME NEW S, IsFiniteSet(S), S \subseteq Nat, S # {}
  PROVE  Max(S) \in S /\ \A y \in S : Max(S) >= y
<1> DEFINE Top(n, U) == n \in U /\ \A m \in U : n >= m
<1> DEFINE P == {U \in SUBSET S : U = {} \/ \E n \in U : Top(n, U)}
<1> DEFINE pick == AnyPick(S)
<1>1. pick \in Picks(S)
  BY AnyPicks
<1>2. {} \in P
  OBVIOUS
<1>3. ASSUME NEW U \in SUBSET S, U # {}, U \ {pick[U]} \in P PROVE U \in P
  <2>1. pick[U] \in U
    BY <1>1, <1>3 DEF Picks
  <2> DEFINE p == pick[U]
  <2> HIDE DEF pick
  <2>2. CASE U \ {p} = {}
    <3>1. Top(p, U)
      BY <2>1, <2>2
    <3> QED BY <2>1, <3>1
  <2>3. CASE U \ {p} # {}
    <3>1. PICK n \in U \ {p} : Top(n, U \ {p})
      BY <1>3, <2>3
    <3>2. \A m \in U : m \in Nat
      OBVIOUS
    <3>3. p \in Nat /\ n \in Nat /\ (n >= p \/ p >= n)
      <4>1. p \in Nat /\ n \in Nat
        BY <2>1, <3>2
      <4> QED BY <4>1
    <3>4. CASE n >= p
      <4>1. Top(n, U)
        BY <3>1, <3>4
      <4> QED BY <4>1, <3>1
    <3>5. CASE p >= n
      <4>1. \A m \in U \ {p} : p >= m
        BY <3>1, <3>2, <3>3, <3>5
      <4>2. Top(p, U)
        BY <2>1, <3>3, <4>1
      <4> QED BY <4>2, <2>1
    <3> QED BY <3>3, <3>4, <3>5
  <2> QED BY <2>2, <2>3
<1> HIDE DEF P, pick
<1>4. S \in P
  BY <1>1, <1>2, <1>3, TakenOneByOne
<1>5. \E n \in S : Top(n, S)
  BY <1>4 DEF P
<1> QED BY <1>5 DEF Max

\* Taking the greatest number is a choice.
LEMMA MaxPicks ==
  ASSUME NEW S, IsFiniteSet(S), S \subseteq Nat
  PROVE  MaxPick(S) \in Picks(S)
<1>1. ASSUME NEW T \in (SUBSET S) \ {{}} PROVE Max(T) \in T
  <2>1. IsFiniteSet(T)
    BY FS_Subset
  <2> QED BY <2>1, GreatestOfSome
<1> QED BY <1>1 DEF Picks, MaxPick

\* The lines of an issue are handed over one by one.
LEMMA IssueTakes ==
  ASSUME NEW e, NEW p, NEW n, IsFiniteSet(DOMAIN e.lines), DOMAIN e.lines \subseteq Nat
  PROVE  \E f : /\ Takes(f, "ISSUED", e, n, p, DOMAIN e.lines, MaxPick(DOMAIN e.lines))
                /\ f[DOMAIN e.lines] = IssueLines(e, p, n)
<1> DEFINE S == DOMAIN e.lines
<1> DEFINE pick == MaxPick(S)
<1> DEFINE Raw(f) == f = [T \in SUBSET S |-> IF T = {} THEN p
                             ELSE LET x == Max(T) IN IssueLine(e, f[T \ {x}], n, x)]
<1>1. IssueLines(e, p, n) = (CHOOSE f : Raw(f))[S]
  BY Zenon DEF IssueLines, MapThenFoldSet
<1>2. pick \in Picks(S)
  BY MaxPicks
<1>3. \A T \in SUBSET S : T # {} => pick[T] = Max(T)
  BY DEF MaxPick
<1>0. IsFiniteSet(S)
  OBVIOUS
<1> HIDE DEF S, pick
<1>4. PICK f : Taking(f, "ISSUED", e, n, p, S, pick)
  BY <1>0, <1>2, TakesExist
<1>5. \A T \in SUBSET S : f[T] = IF T = {} THEN p ELSE IssueLine(e, f[T \ {Max(T)}], n, Max(T))
  BY <1>3, <1>4 DEF Take, Taking
<1>6. Raw(f)
  BY <1>4, <1>5 DEF Taking
<1> DEFINE g == CHOOSE h : Raw(h)
<1>7. Raw(g)
  BY <1>6
<1> HIDE DEF g
<1>8. Takes(g, "ISSUED", e, n, p, S, pick)
  BY <1>3, <1>7 DEF Take, Takes
<1> QED BY <1>1, <1>8 DEF g, S, pick

\* What an issue missed is recorded line by line.
LEMMA MissedTakes ==
  ASSUME NEW e, NEW p, NEW n, IsFiniteSet(e.missing)
  PROVE  \E f : /\ Takes(f, "MISSED", e, n, p, e.missing, AnyPick(e.missing))
                /\ f[e.missing] = AddAllMissing(e, p, n)
<1> DEFINE S == e.missing
<1> DEFINE pick == AnyPick(S)
<1> DEFINE Raw(f) == f = [T \in SUBSET S |-> IF T = {} THEN p
                             ELSE LET x == CHOOSE y \in T : TRUE IN AddMissing(f[T \ {x}], n, e.cadet, x)]
<1>1. AddAllMissing(e, p, n) = (CHOOSE f : Raw(f))[S]
  BY Zenon DEF AddAllMissing, FoldSet, MapThenFoldSet
<1>2. pick \in Picks(S)
  BY AnyPicks
<1>3. \A T \in SUBSET S : T # {} => pick[T] = CHOOSE y \in T : TRUE
  BY DEF AnyPick
<1>0. IsFiniteSet(S)
  OBVIOUS
<1> HIDE DEF S, pick
<1>4. PICK f : Taking(f, "MISSED", e, n, p, S, pick)
  BY <1>0, <1>2, TakesExist
<1>5. \A T \in SUBSET S : f[T] = IF T = {} THEN p ELSE
         AddMissing(f[T \ {CHOOSE y \in T : TRUE}], n, e.cadet, CHOOSE y \in T : TRUE)
  BY <1>3, <1>4 DEF Take, Taking
<1>6. Raw(f)
  BY <1>4, <1>5 DEF Taking
<1> DEFINE g == CHOOSE h : Raw(h)
<1>7. Raw(g)
  BY <1>6
<1> HIDE DEF g
<1>8. Takes(g, "MISSED", e, n, p, S, pick)
  BY <1>3, <1>7 DEF Take, Takes
<1> QED BY <1>1, <1>8 DEF g, S, pick

\* The lines of a return are taken back one by one.
LEMMA ReturnTakes ==
  ASSUME NEW e, NEW p, NEW n, IsFiniteSet(DOMAIN e.lines)
  PROVE  \E f : /\ Takes(f, "RETURNED", e, n, p, DOMAIN e.lines, AnyPick(DOMAIN e.lines))
                /\ f[DOMAIN e.lines] = ReturnLines(e, p, n)
<1> DEFINE S == DOMAIN e.lines
<1> DEFINE pick == AnyPick(S)
<1> DEFINE Raw(f) == f = [T \in SUBSET S |-> IF T = {} THEN p
                             ELSE LET x == CHOOSE y \in T : TRUE IN ReturnLine(e, f[T \ {x}], n, x)]
<1>1. ReturnLines(e, p, n) = (CHOOSE f : Raw(f))[S]
  BY Zenon DEF ReturnLines, FoldSet, MapThenFoldSet
<1>2. pick \in Picks(S)
  BY AnyPicks
<1>3. \A T \in SUBSET S : T # {} => pick[T] = CHOOSE y \in T : TRUE
  BY DEF AnyPick
<1>0. IsFiniteSet(S)
  OBVIOUS
<1> HIDE DEF S, pick
<1>4. PICK f : Taking(f, "RETURNED", e, n, p, S, pick)
  BY <1>0, <1>2, TakesExist
<1>5. \A T \in SUBSET S : f[T] = IF T = {} THEN p ELSE
         ReturnLine(e, f[T \ {CHOOSE y \in T : TRUE}], n, CHOOSE y \in T : TRUE)
  BY <1>3, <1>4 DEF Take, Taking
<1>6. Raw(f)
  BY <1>4, <1>5 DEF Taking
<1> DEFINE g == CHOOSE h : Raw(h)
<1>7. Raw(g)
  BY <1>6
<1> HIDE DEF g
<1>8. Takes(g, "RETURNED", e, n, p, S, pick)
  BY <1>3, <1>7 DEF Take, Takes
<1> QED BY <1>1, <1>8 DEF g, S, pick

-----------------------------------------------------------------------------
(* The parts of a projection, and which of them an event may change.       *)

Whole(p) == DOMAIN p = {"items", "catalog", "cadets", "held", "needs", "conflicts", "transactions",
                        "sessions", "calendar", "bundle", "years", "rejected", "unsafe", "clock"}

\* What no event changes by itself; q has the parts of p.
Kept(p, q) == DOMAIN q = DOMAIN p /\ q.rejected = p.rejected /\ q.unsafe = p.unsafe /\ q.clock = p.clock

\* The empty projection has every part.
LEMMA GenesisWhole == Whole(Genesis)
BY DEF Genesis, Whole

\* What the lines of an issue or of a return leave alone.
KeptByLines(p, q) ==
  /\ Kept(p, q)
  /\ q.catalog = p.catalog /\ q.cadets = p.cadets /\ q.conflicts = p.conflicts
  /\ q.transactions = p.transactions /\ q.sessions = p.sessions /\ q.calendar = p.calendar
  /\ q.bundle = p.bundle /\ q.years = p.years

\* A holding replaces the one of its name, or ends at nothing, and changes nothing else.
LEMMA HoldKeeps ==
  ASSUME NEW p, Whole(p), NEW id, NEW cadet, NEW i, NEW quantity, NEW q, q = Hold(p, id, cadet, i, quantity)
  PROVE  /\ KeptByLines(p, q) /\ q.items = p.items /\ q.needs = p.needs
         /\ q.held = {line \in p.held : line.id # id} \cup
               (IF quantity > 0 THEN {[id |-> id, cadet |-> cadet, item |-> i, quantity |-> quantity]} ELSE {})
BY DEF Hold, Whole, Kept, KeptByLines

\* A line that is handed over changes stock, holdings and needs only.
LEMMA IssueLineKeeps ==
  ASSUME NEW e, NEW p, Whole(p), NEW n, NEW i, NEW q, q = IssueLine(e, p, n, i)
  PROVE  KeptByLines(p, q)
BY DEF IssueLine, Hold, Whole, Kept, KeptByLines

\* A line that was missed changes needs only.
LEMMA MissedKeeps ==
  ASSUME NEW p, Whole(p), NEW n, NEW c, NEW m, NEW q, q = AddMissing(p, n, c, m)
  PROVE  KeptByLines(p, q) /\ q.items = p.items /\ q.held = p.held
BY DEF AddMissing, Whole, Kept, KeptByLines

\* A line that is taken back changes stock and holdings only.
LEMMA ReturnLineKeeps ==
  ASSUME NEW e, NEW p, Whole(p), NEW n, NEW id, NEW q, q = ReturnLine(e, p, n, id)
  PROVE  KeptByLines(p, q) /\ q.needs = p.needs
BY DEF ReturnLine, Hold, Whole, Kept, KeptByLines

\* What two steps leave alone, both together leave alone.
LEMMA KeptOnward ==
  ASSUME NEW p, NEW q, NEW r, KeptByLines(p, q), KeptByLines(q, r)
  PROVE  KeptByLines(p, r)
BY DEF Kept, KeptByLines

\* A step that keeps the other parts leaves a whole projection.
LEMMA KeptWhole ==
  ASSUME NEW p, NEW q, Whole(p), Kept(p, q) \/ KeptByLines(p, q)
  PROVE  Whole(q)
BY DEF Kept, KeptByLines, Whole

\* All lines that are handed over change stock, holdings and needs only.
LEMMA IssueLinesKeep ==
  ASSUME NEW e, NEW p, Whole(p), NEW n, IsFiniteSet(DOMAIN e.lines), DOMAIN e.lines \subseteq Nat
  PROVE  KeptByLines(p, IssueLines(e, p, n))
<1> DEFINE S == DOMAIN e.lines
<1> DEFINE pick == MaxPick(S)
<1>1. PICK f : Takes(f, "ISSUED", e, n, p, S, pick) /\ f[S] = IssueLines(e, p, n)
  BY IssueTakes
<1> DEFINE P == {T \in SUBSET S : KeptByLines(p, f[T])}
<1>2. pick \in Picks(S)
  BY MaxPicks
<1> HIDE DEF pick
<1>3. {} \in P
  BY <1>1 DEF Takes, Kept, KeptByLines
<1>4. ASSUME NEW T \in SUBSET S, T # {}, T \ {pick[T]} \in P PROVE T \in P
  <2>1. f[T] = IssueLine(e, f[T \ {pick[T]}], n, pick[T])
    BY <1>1, <1>4 DEF Takes, Take
  <2>2. KeptByLines(p, f[T \ {pick[T]}])
    BY <1>4
  <2>3. KeptByLines(f[T \ {pick[T]}], f[T])
    BY <2>1, <2>2, IssueLineKeeps, KeptWhole
  <2> QED BY <2>2, <2>3, KeptOnward
<1>5. IsFiniteSet(S)
  OBVIOUS
<1> HIDE DEF P, S
<1>6. S \in P
  BY <1>2, <1>3, <1>4, <1>5, TakenOneByOne
<1> QED BY <1>1, <1>6 DEF P

\* All lines that were missed change needs only.
LEMMA AllMissingKeep ==
  ASSUME NEW e, NEW p, Whole(p), NEW n, IsFiniteSet(e.missing)
  PROVE  LET q == AddAllMissing(e, p, n) IN KeptByLines(p, q) /\ q.items = p.items /\ q.held = p.held
<1> DEFINE S == e.missing
<1> DEFINE pick == AnyPick(S)
<1>1. PICK f : Takes(f, "MISSED", e, n, p, S, pick) /\ f[S] = AddAllMissing(e, p, n)
  BY MissedTakes
<1> DEFINE P == {T \in SUBSET S : KeptByLines(p, f[T]) /\ f[T].items = p.items /\ f[T].held = p.held}
<1>2. pick \in Picks(S)
  BY AnyPicks
<1> HIDE DEF pick
<1>3. {} \in P
  BY <1>1 DEF Takes, Kept, KeptByLines
<1>4. ASSUME NEW T \in SUBSET S, T # {}, T \ {pick[T]} \in P PROVE T \in P
  <2>1. f[T] = AddMissing(f[T \ {pick[T]}], n, e.cadet, pick[T])
    BY <1>1, <1>4 DEF Takes, Take
  <2>2. KeptByLines(p, f[T \ {pick[T]}]) /\ f[T \ {pick[T]}].items = p.items /\ f[T \ {pick[T]}].held = p.held
    BY <1>4
  <2>3. KeptByLines(f[T \ {pick[T]}], f[T]) /\ f[T].items = f[T \ {pick[T]}].items /\ f[T].held = f[T \ {pick[T]}].held
    BY <2>1, <2>2, MissedKeeps, KeptWhole
  <2>4. KeptByLines(p, f[T])
    BY <2>2, <2>3, KeptOnward
  <2> QED BY <2>2, <2>3, <2>4
<1>5. IsFiniteSet(S)
  OBVIOUS
<1> HIDE DEF P, S
<1>6. S \in P
  BY <1>2, <1>3, <1>4, <1>5, TakenOneByOne
<1> QED BY <1>1, <1>6 DEF P

\* All lines that are taken back change stock and holdings only.
LEMMA ReturnLinesKeep ==
  ASSUME NEW e, NEW p, Whole(p), NEW n, IsFiniteSet(DOMAIN e.lines)
  PROVE  LET q == ReturnLines(e, p, n) IN KeptByLines(p, q) /\ q.needs = p.needs
<1> DEFINE S == DOMAIN e.lines
<1> DEFINE pick == AnyPick(S)
<1>1. PICK f : Takes(f, "RETURNED", e, n, p, S, pick) /\ f[S] = ReturnLines(e, p, n)
  BY ReturnTakes
<1> DEFINE P == {T \in SUBSET S : KeptByLines(p, f[T]) /\ f[T].needs = p.needs}
<1>2. pick \in Picks(S)
  BY AnyPicks
<1> HIDE DEF pick
<1>3. {} \in P
  BY <1>1 DEF Takes, Kept, KeptByLines
<1>4. ASSUME NEW T \in SUBSET S, T # {}, T \ {pick[T]} \in P PROVE T \in P
  <2>1. f[T] = ReturnLine(e, f[T \ {pick[T]}], n, pick[T])
    BY <1>1, <1>4 DEF Takes, Take
  <2>2. KeptByLines(p, f[T \ {pick[T]}]) /\ f[T \ {pick[T]}].needs = p.needs
    BY <1>4
  <2>3. KeptByLines(f[T \ {pick[T]}], f[T]) /\ f[T].needs = f[T \ {pick[T]}].needs
    BY <2>1, <2>2, ReturnLineKeeps, KeptWhole
  <2>4. KeptByLines(p, f[T])
    BY <2>2, <2>3, KeptOnward
  <2> QED BY <2>2, <2>3, <2>4
<1>5. IsFiniteSet(S)
  OBVIOUS
<1> HIDE DEF P, S
<1>6. S \in P
  BY <1>2, <1>3, <1>4, <1>5, TakenOneByOne
<1> QED BY <1>1, <1>6 DEF P

\* What an issue leaves alone.
LEMMA IssueKeeps ==
  ASSUME NEW l, NEW p, NEW n, Whole(p), NEW q, q = IssueTransaction(l, p, n),
         IsFiniteSet(DOMAIN l[n].lines), DOMAIN l[n].lines \subseteq Nat, IsFiniteSet(l[n].missing)
  PROVE  /\ Kept(p, q) /\ q.catalog = p.catalog /\ q.sessions = p.sessions
         /\ q.calendar = p.calendar /\ q.bundle = p.bundle /\ q.years = p.years
<1> DEFINE a == IssueLines(l[n], p, n)
<1> DEFINE b == AddAllMissing(l[n], a, n)
<1>1. KeptByLines(p, a)
  BY IssueLinesKeep
<1>2. KeptByLines(a, b)
  BY <1>1, KeptWhole, AllMissingKeep
<1>3. KeptByLines(p, b) /\ Whole(b)
  BY <1>1, <1>2, KeptOnward, KeptWhole
<1> HIDE DEF a, b
<1>4. q = AddConflict(p, n) \/ \E cadets, lines : q = [b EXCEPT !.cadets = cadets, !.transactions = lines]
  BY DEF IssueTransaction, a, b
<1>5. CASE q = AddConflict(p, n)
  BY <1>5 DEF AddConflict, Kept, Whole
<1>6. CASE q # AddConflict(p, n)
  BY <1>3, <1>4, <1>6 DEF KeptByLines, Kept, Whole
<1> QED BY <1>5, <1>6

\* What a return leaves alone.
LEMMA ReturnKeeps ==
  ASSUME NEW l, NEW p, NEW n, Whole(p), NEW q, q = ReturnTransaction(l, p, n),
         IsFiniteSet(DOMAIN l[n].lines)
  PROVE  /\ Kept(p, q) /\ q.catalog = p.catalog /\ q.needs = p.needs
         /\ q.sessions = p.sessions /\ q.calendar = p.calendar /\ q.bundle = p.bundle
         /\ q.years = p.years
<1> DEFINE b == ReturnLines(l[n], p, n)
<1>3. KeptByLines(p, b) /\ b.needs = p.needs /\ Whole(b)
  BY ReturnLinesKeep, KeptWhole
<1> HIDE DEF b
<1>4. q = AddConflict(p, n) \/ \E cadets, lines : q = [b EXCEPT !.cadets = cadets, !.transactions = lines]
  BY DEF ReturnTransaction, b
<1>5. CASE q = AddConflict(p, n)
  BY <1>5 DEF AddConflict, Kept, Whole
<1>6. CASE q # AddConflict(p, n)
  BY <1>3, <1>4, <1>6 DEF KeptByLines, Kept, Whole
<1> QED BY <1>5, <1>6

\* What a receipt leaves alone.
LEMMA ReceiveStockKeeps ==
  ASSUME NEW l, NEW p, NEW n, Whole(p), NEW q, q = ReceiveStock(l, p, n)
  PROVE  /\ Kept(p, q) /\ q.catalog = p.catalog /\ q.cadets = p.cadets /\ q.held = p.held
         /\ q.needs = p.needs /\ q.conflicts = p.conflicts /\ q.transactions = p.transactions
         /\ q.sessions = p.sessions /\ q.calendar = p.calendar /\ q.bundle = p.bundle
         /\ q.years = p.years
BY DEF ReceiveStock, Whole, Kept

\* What the correction of an issued size leaves alone.
LEMMA CorrectSizeKeeps ==
  ASSUME NEW l, NEW p, NEW n, Whole(p), NEW q, q = CorrectSize(l, p, n)
  PROVE  /\ Kept(p, q) /\ q.catalog = p.catalog /\ q.needs = p.needs
         /\ q.transactions = p.transactions /\ q.sessions = p.sessions
         /\ q.calendar = p.calendar /\ q.bundle = p.bundle /\ q.years = p.years
BY DEF CorrectSize, Hold, AddConflict, Whole, Kept

\* What the correction of a record leaves alone.
LEMMA CorrectRecordKeeps ==
  ASSUME NEW l, NEW p, NEW n, Whole(p), NEW q, q = CorrectRecord(l, p, n)
  PROVE  /\ Kept(p, q) /\ q.catalog = p.catalog /\ q.needs = p.needs
         /\ q.sessions = p.sessions /\ q.calendar = p.calendar /\ q.bundle = p.bundle
         /\ q.years = p.years
BY DEF CorrectRecord, ApplyPlan, CorrectHolding, Hold, AddConflict, Whole, Kept

\* What an edit of the catalogue leaves alone.
LEMMA UpdateCatalogKeeps ==
  ASSUME NEW l, NEW p, NEW n, Whole(p), NEW q, q = UpdateCatalog(l, p, n)
  PROVE  /\ Kept(p, q) /\ q.cadets = p.cadets /\ q.held = p.held /\ q.needs = p.needs
         /\ q.transactions = p.transactions /\ q.sessions = p.sessions
         /\ q.calendar = p.calendar /\ q.bundle = p.bundle /\ q.years = p.years
BY DEF UpdateCatalog, AddConflict, Whole, Kept

\* What new sizes leave alone.
LEMMA AddSizesKeeps ==
  ASSUME NEW l, NEW p, NEW n, Whole(p), NEW q, q = AddSizes(l, p, n)
  PROVE  /\ Kept(p, q) /\ q.cadets = p.cadets /\ q.held = p.held /\ q.needs = p.needs
         /\ q.conflicts = p.conflicts /\ q.transactions = p.transactions
         /\ q.sessions = p.sessions /\ q.calendar = p.calendar /\ q.bundle = p.bundle
         /\ q.years = p.years
BY DEF AddSizes, Whole, Kept

\* What an edit of a size leaves alone.
LEMMA UpdateItemKeeps ==
  ASSUME NEW l, NEW p, NEW n, Whole(p), NEW q, q = UpdateItem(l, p, n)
  PROVE  /\ Kept(p, q) /\ q.catalog = p.catalog /\ q.cadets = p.cadets /\ q.held = p.held
         /\ q.needs = p.needs /\ q.transactions = p.transactions /\ q.sessions = p.sessions
         /\ q.calendar = p.calendar /\ q.bundle = p.bundle /\ q.years = p.years
BY DEF UpdateItem, AddConflict, Whole, Kept

\* What an edit of the standard issue leaves alone.
LEMMA UpdateBundleKeeps ==
  ASSUME NEW l, NEW p, NEW n, Whole(p), NEW q, q = UpdateBundle(l, p, n)
  PROVE  /\ Kept(p, q) /\ q.items = p.items /\ q.catalog = p.catalog /\ q.cadets = p.cadets
         /\ q.held = p.held /\ q.needs = p.needs /\ q.transactions = p.transactions
         /\ q.sessions = p.sessions /\ q.calendar = p.calendar /\ q.years = p.years
BY DEF UpdateBundle, AddConflict, Whole, Kept

\* What a new cadet leaves alone.
LEMMA AddCadetKeeps ==
  ASSUME NEW l, NEW p, NEW n, Whole(p), NEW q, q = AddCadet(l, p, n)
  PROVE  /\ Kept(p, q) /\ q.items = p.items /\ q.catalog = p.catalog /\ q.held = p.held
         /\ q.needs = p.needs /\ q.conflicts = p.conflicts /\ q.transactions = p.transactions
         /\ q.sessions = p.sessions /\ q.calendar = p.calendar /\ q.bundle = p.bundle
         /\ q.years = p.years
BY DEF AddCadet, Whole, Kept

\* What an edit of a cadet leaves alone.
LEMMA UpdateCadetKeeps ==
  ASSUME NEW l, NEW p, NEW n, Whole(p), NEW q, q = UpdateCadet(l, p, n)
  PROVE  /\ Kept(p, q) /\ q.items = p.items /\ q.catalog = p.catalog /\ q.held = p.held
         /\ q.needs = p.needs /\ q.transactions = p.transactions /\ q.sessions = p.sessions
         /\ q.calendar = p.calendar /\ q.bundle = p.bundle /\ q.years = p.years
BY DEF UpdateCadet, AddConflict, Whole, Kept

\* What a need by hand leaves alone.
LEMMA AddNeedKeeps ==
  ASSUME NEW l, NEW p, NEW n, Whole(p), NEW q, q = AddNeed(l, p, n)
  PROVE  /\ Kept(p, q) /\ q.items = p.items /\ q.catalog = p.catalog /\ q.cadets = p.cadets
         /\ q.held = p.held /\ q.conflicts = p.conflicts /\ q.transactions = p.transactions
         /\ q.sessions = p.sessions /\ q.calendar = p.calendar /\ q.bundle = p.bundle
         /\ q.years = p.years
BY DEF AddNeed, Whole, Kept

\* What an edit of a need leaves alone.
LEMMA ChangeNeedKeeps ==
  ASSUME NEW l, NEW p, NEW n, Whole(p), NEW q, q = ChangeNeed(l, p, n)
  PROVE  /\ Kept(p, q) /\ q.items = p.items /\ q.catalog = p.catalog /\ q.cadets = p.cadets
         /\ q.held = p.held /\ q.transactions = p.transactions /\ q.sessions = p.sessions
         /\ q.calendar = p.calendar /\ q.bundle = p.bundle /\ q.years = p.years
BY DEF ChangeNeed, AddConflict, Whole, Kept

\* What a resolution leaves alone.
LEMMA ResolveKeeps ==
  ASSUME NEW l, NEW p, NEW n, Whole(p), NEW q, q = Resolve(l, p, n)
  PROVE  /\ Kept(p, q) /\ q.items = p.items /\ q.catalog = p.catalog /\ q.cadets = p.cadets
         /\ q.held = p.held /\ q.transactions = p.transactions /\ q.sessions = p.sessions
         /\ q.calendar = p.calendar /\ q.bundle = p.bundle /\ q.years = p.years
BY DEF Resolve, Whole, Kept

\* What a new year leaves alone.
LEMMA RolloverKeeps ==
  ASSUME NEW l, NEW p, NEW n, Whole(p), NEW q, q = Rollover(l, p, n)
  PROVE  /\ Kept(p, q) /\ q.items = p.items /\ q.catalog = p.catalog /\ q.held = p.held
         /\ q.needs = p.needs /\ q.conflicts = p.conflicts /\ q.transactions = p.transactions
         /\ q.sessions = p.sessions /\ q.calendar = p.calendar /\ q.bundle = p.bundle
BY DEF Rollover, Whole, Kept

\* What a count event leaves alone.
LEMMA ApplyCountKeeps ==
  ASSUME NEW l, NEW p, NEW n, Whole(p), l[n].type \in CountEvents, NEW q, q = ApplyCount(l, p, n)
  PROVE  /\ Kept(p, q) /\ q.catalog = p.catalog /\ q.cadets = p.cadets /\ q.held = p.held
         /\ q.needs = p.needs /\ q.conflicts = p.conflicts /\ q.transactions = p.transactions
         /\ q.calendar = p.calendar /\ q.bundle = p.bundle /\ q.years = p.years
<1>1. CASE l[n].type = "COUNT_SESSION_CREATED"
  <2>1. q = OpenSession(l, p, n)
    BY <1>1 DEF ApplyCount
  <2> QED BY <2>1 DEF OpenSession, Whole, Kept
<1>2. CASE l[n].type = "COUNT_CONTRIBUTED"
  <2>1. q = Observe(l, p, n)
    BY <1>2 DEF ApplyCount
  <2> QED BY <2>1 DEF Observe, Whole, Kept
<1>3. CASE l[n].type = "COUNT_RECOUNTED"
  <2>1. q = Observe(l, p, n)
    BY <1>3 DEF ApplyCount
  <2> QED BY <2>1 DEF Observe, Whole, Kept
<1>4. CASE l[n].type = "COUNT_CORRECTED"
  <2>1. q = CorrectCount(l, p, n)
    BY <1>4 DEF ApplyCount
  <2> QED BY <2>1 DEF CorrectCount, Whole, Kept
<1>5. CASE l[n].type = "COUNT_SESSION_SUBMITTED"
  <2>1. q = SubmitSession(l, p, n)
    BY <1>5 DEF ApplyCount
  <2> QED BY <2>1 DEF SubmitSession, Whole, Kept
<1>6. CASE l[n].type = "COUNT_SESSION_REOPENED"
  <2>1. q = ReopenSession(l, p, n)
    BY <1>6 DEF ApplyCount
  <2> QED BY <2>1 DEF ReopenSession, Whole, Kept
<1>7. CASE l[n].type = "COUNT_SESSION_RECONCILED"
  <2>1. q = ReconcileSession(l, p, n)
    BY <1>7 DEF ApplyCount
  <2> QED BY <2>1 DEF ReconcileSession, Whole, Kept
<1>8. CASE l[n].type = "COUNT_SESSION_CANCELLED"
  <2>1. q = CancelSession(l, p, n)
    BY <1>8 DEF ApplyCount
  <2> QED BY <2>1 DEF CancelSession, Whole, Kept
<1> QED BY <1>1, <1>2, <1>3, <1>4, <1>5, <1>6, <1>7, <1>8 DEF CountEvents

\* What a calendar event leaves alone.
LEMMA ApplyCalendarKeeps ==
  ASSUME NEW l, NEW p, NEW n, Whole(p), l[n].type \in CalendarEvents, NEW q, q = ApplyCalendar(l, p, n)
  PROVE  /\ Kept(p, q) /\ q.items = p.items /\ q.catalog = p.catalog /\ q.cadets = p.cadets
         /\ q.held = p.held /\ q.needs = p.needs /\ q.transactions = p.transactions
         /\ q.sessions = p.sessions /\ q.bundle = p.bundle /\ q.years = p.years
<1>1. CASE l[n].type = "CALENDAR_EVENT_CREATED"
  <2>1. q = CreateCalendar(l, p, n)
    BY <1>1 DEF ApplyCalendar
  <2> QED BY <2>1 DEF CreateCalendar, AddConflict, Whole, Kept
<1>2. CASE l[n].type = "CALENDAR_EVENT_UPDATED"
  <2>1. q = UpdateCalendar(l, p, n)
    BY <1>2 DEF ApplyCalendar
  <2> QED BY <2>1 DEF UpdateCalendar, Put, AddConflict, Whole, Kept
<1>3. CASE l[n].type = "CALENDAR_TASK_ADDED"
  <2>1. q = AddTask(l, p, n)
    BY <1>3 DEF ApplyCalendar
  <2> QED BY <2>1 DEF AddTask, Put, AddConflict, Whole, Kept
<1>4. CASE l[n].type = "CALENDAR_TASK_UPDATED"
  <2>1. q = UpdateTask(l, p, n)
    BY <1>4 DEF ApplyCalendar
  <2> QED BY <2>1 DEF UpdateTask, Put, AddConflict, Whole, Kept
<1>5. CASE l[n].type = "TASK_COMPLETED"
  <2>1. q = CompleteTask(l, p, n)
    BY <1>5 DEF ApplyCalendar
  <2> QED BY <2>1 DEF CompleteTask, Put, AddConflict, Whole, Kept
<1>6. CASE l[n].type = "CALENDAR_TASK_REMOVED"
  <2>1. q = RemoveTask(l, p, n)
    BY <1>6 DEF ApplyCalendar
  <2> QED BY <2>1 DEF RemoveTask, Put, AddConflict, Whole, Kept
<1>7. CASE l[n].type = "CALENDAR_ATTENDEES_ADDED"
  <2>1. q = AddAttendees(l, p, n)
    BY <1>7 DEF ApplyCalendar
  <2> QED BY <2>1 DEF AddAttendees, Put, AddConflict, Whole, Kept
<1>8. CASE l[n].type = "CALENDAR_ATTENDEES_REMOVED"
  <2>1. q = RemoveAttendees(l, p, n)
    BY <1>8 DEF ApplyCalendar
  <2> QED BY <2>1 DEF RemoveAttendees, Put, AddConflict, Whole, Kept
<1>9. CASE l[n].type = "CALENDAR_BUNDLES_ADDED"
  <2>1. q = LinkBundles(l, p, n)
    BY <1>9 DEF ApplyCalendar
  <2> QED BY <2>1 DEF LinkBundles, Put, AddConflict, Whole, Kept
<1>10. CASE l[n].type = "CALENDAR_BUNDLES_REMOVED"
  <2>1. q = UnlinkBundles(l, p, n)
    BY <1>10 DEF ApplyCalendar
  <2> QED BY <2>1 DEF UnlinkBundles, Put, AddConflict, Whole, Kept
<1> QED BY <1>1, <1>2, <1>3, <1>4, <1>5, <1>6, <1>7, <1>8, <1>9, <1>10 DEF CalendarEvents

\* The command behind an event: what the lemmas about single events ask of it.
StockMovers == {"INVENTORY_RECEIVED", "ITEM_ISSUED", "ITEM_RETURNED", "PROPERTY_CORRECTED", "RECORD_CORRECTED"}

\* Which events change which part of a projection.
LEMMA EffectKeeps ==
  ASSUME NEW l, NEW p, NEW n, Whole(p), IsCommand(l[n]), NEW q, q = Effect(l, p, n)
  PROVE  /\ Kept(p, q)
         /\ l[n].type \notin CalendarEvents => q.calendar = p.calendar
         /\ l[n].type \notin CountEvents => q.sessions = p.sessions
         /\ l[n].type \notin {"ITEM_ISSUED", "ITEM_RETURNED", "RECORD_CORRECTED"} => q.transactions = p.transactions
         /\ l[n].type \notin {"ITEM_ISSUED", "STILL_NEEDED_ADDED", "CONFLICT_RESOLVED"} \cup NeedChanges
              => q.needs = p.needs
         /\ l[n].type \notin {"ITEM_ISSUED", "ITEM_RETURNED", "PROPERTY_CORRECTED", "RECORD_CORRECTED"}
              => q.held = p.held
         /\ l[n].type \notin StockMovers \cup CountEvents \cup
              {"CATALOG_ITEM_UPDATED", "CATALOG_SIZES_ADDED", "INVENTORY_ITEM_UPDATED"} => q.items = p.items
<1> USE DEF CountEvents, CalendarEvents, NeedChanges, StockMovers
<1> DEFINE t == l[n].type
<1>0. t \in EventTypes
  BY DEF IsCommand
<1>1. CASE t = "INVENTORY_RECEIVED"
  <2>1. q = ReceiveStock(l, p, n)
    BY <1>1 DEF Effect
  <2> QED BY <1>1, <2>1, ReceiveStockKeeps
<1>2. CASE t = "ITEM_ISSUED"
  <2>1. q = IssueTransaction(l, p, n)
    BY <1>2 DEF Effect
  <2>2. IsFiniteSet(DOMAIN l[n].lines) /\ DOMAIN l[n].lines \subseteq Item /\ IsFiniteSet(l[n].missing)
    BY <1>2 DEF IsCommand
  <2>3. DOMAIN l[n].lines \subseteq Nat
    BY <2>2, SupplyAssumption
  <2> QED BY <1>2, <2>1, <2>2, <2>3, IssueKeeps
<1>3. CASE t = "ITEM_RETURNED"
  <2>1. q = ReturnTransaction(l, p, n)
    BY <1>3 DEF Effect
  <2>2. IsFiniteSet(DOMAIN l[n].lines)
    BY <1>3 DEF IsCommand
  <2> QED BY <1>3, <2>1, <2>2, ReturnKeeps
<1>4. CASE t = "PROPERTY_CORRECTED"
  <2>1. q = CorrectSize(l, p, n)
    BY <1>4 DEF Effect
  <2> QED BY <1>4, <2>1, CorrectSizeKeeps
<1>5. CASE t = "RECORD_CORRECTED"
  <2>1. q = CorrectRecord(l, p, n)
    BY <1>5 DEF Effect
  <2> QED BY <1>5, <2>1, CorrectRecordKeeps
<1>6. CASE t = "CATALOG_ITEM_UPDATED"
  <2>1. q = UpdateCatalog(l, p, n)
    BY <1>6 DEF Effect
  <2> QED BY <1>6, <2>1, UpdateCatalogKeeps
<1>7. CASE t = "CATALOG_SIZES_ADDED"
  <2>1. q = AddSizes(l, p, n)
    BY <1>7 DEF Effect
  <2> QED BY <1>7, <2>1, AddSizesKeeps
<1>8. CASE t = "INVENTORY_ITEM_UPDATED"
  <2>1. q = UpdateItem(l, p, n)
    BY <1>8 DEF Effect
  <2> QED BY <1>8, <2>1, UpdateItemKeeps
<1>9. CASE t = "BUNDLE_UPDATED"
  <2>1. q = UpdateBundle(l, p, n)
    BY <1>9 DEF Effect
  <2> QED BY <1>9, <2>1, UpdateBundleKeeps
<1>10. CASE t = "CADETS_IMPORTED"
  <2>1. q = AddCadet(l, p, n)
    BY <1>10 DEF Effect
  <2> QED BY <1>10, <2>1, AddCadetKeeps
<1>11. CASE t = "CADET_UPDATED"
  <2>1. q = UpdateCadet(l, p, n)
    BY <1>11 DEF Effect
  <2> QED BY <1>11, <2>1, UpdateCadetKeeps
<1>12. CASE t = "STILL_NEEDED_ADDED"
  <2>1. q = AddNeed(l, p, n)
    BY <1>12 DEF Effect
  <2> QED BY <1>12, <2>1, AddNeedKeeps
<1>13. CASE t \in NeedChanges
  <2>1. q = ChangeNeed(l, p, n)
    BY <1>13 DEF Effect
  <2> QED BY <1>13, <2>1, ChangeNeedKeeps
<1>14. CASE t = "CONFLICT_RESOLVED"
  <2>1. q = Resolve(l, p, n)
    BY <1>14 DEF Effect
  <2> QED BY <1>14, <2>1, ResolveKeeps
<1>15. CASE t = "ANNUAL_ROLLOVER_COMPLETED"
  <2>1. q = Rollover(l, p, n)
    BY <1>15 DEF Effect
  <2> QED BY <1>15, <2>1, RolloverKeeps
<1>16. CASE t \in CountEvents
  <2>1. q = ApplyCount(l, p, n)
    BY <1>16 DEF Effect
  <2> QED BY <1>16, <2>1, ApplyCountKeeps
<1>17. CASE t \in CalendarEvents
  <2>1. q = ApplyCalendar(l, p, n)
    BY <1>17 DEF Effect
  <2> QED BY <1>17, <2>1, ApplyCalendarKeeps
<1> QED BY <1>0, <1>1, <1>2, <1>3, <1>4, <1>5, <1>6, <1>7, <1>8, <1>9, <1>10, <1>11, <1>12, <1>13,
           <1>14, <1>15, <1>16, <1>17 DEF EventTypes

\* The greater of two numbers is one that both reach.
LEMMA MaxOfTwo ==
  ASSUME NEW a \in Nat, NEW b \in Nat
  PROVE  Max({a, b}) \in Nat /\ Max({a, b}) >= a /\ Max({a, b}) >= b
<1>1. IsFiniteSet({a, b}) /\ {a, b} \subseteq Nat /\ {a, b} # {}
  <2>1. IsFiniteSet({a})
    BY FS_Singleton
  <2>2. IsFiniteSet({a} \cup {b})
    BY <2>1, FS_AddElement
  <2>3. {a} \cup {b} = {a, b}
    OBVIOUS
  <2> QED BY <2>2, <2>3
<1>2. Max({a, b}) \in {a, b} /\ \A y \in {a, b} : Max({a, b}) >= y
  BY <1>1, GreatestOfSome
<1> QED BY <1>2

\* A sequence that grows has one element more.
LEMMA AppendedSet ==
  ASSUME NEW S, NEW s \in Seq(S), NEW n
  PROVE  /\ ToSet(Append(s, n)) = ToSet(s) \cup {n}
         /\ Append(s, n) \in Seq(S \cup {n}) /\ Len(Append(s, n)) = Len(s) + 1
         /\ ToSet(s) \subseteq S
<1>1. Len(s) \in Nat /\ DOMAIN s = 1 .. Len(s)
  BY LenProperties
<1>2. s \in Seq(S \cup {n})
  BY SeqMonotonic
<1>3. Append(s, n) \in Seq(S \cup {n}) /\ Len(Append(s, n)) = Len(s) + 1
      /\ \A k \in 1 .. Len(s) : Append(s, n)[k] = s[k]
      /\ Append(s, n)[Len(s) + 1] = n
  BY <1>2
<1>4. DOMAIN Append(s, n) = 1 .. (Len(s) + 1)
  BY <1>3, LenProperties
<1> DEFINE t == Append(s, n)
<1> HIDE DEF t
<1>5. ASSUME NEW x \in ToSet(t) PROVE x \in ToSet(s) \cup {n}
  <2>1. PICK k \in 1 .. (Len(s) + 1) : t[k] = x
    BY <1>4, <1>5 DEF ToSet, t
  <2>2. k \in 1 .. Len(s) \/ k = Len(s) + 1
    BY <1>1, <2>1
  <2> QED BY <1>1, <1>3, <2>1, <2>2 DEF ToSet, t
<1>6. ASSUME NEW x \in ToSet(s) PROVE x \in ToSet(t)
  <2>1. PICK k \in 1 .. Len(s) : s[k] = x
    BY <1>1, <1>6 DEF ToSet
  <2>2. k \in 1 .. (Len(s) + 1) /\ t[k] = x
    BY <1>1, <1>3, <2>1 DEF t
  <2> QED BY <1>4, <2>2 DEF ToSet, t
<1>7. n \in ToSet(t)
  <2>1. Len(s) + 1 \in 1 .. (Len(s) + 1)
    BY <1>1
  <2> QED BY <1>3, <1>4, <2>1 DEF ToSet, t
<1>8. ToSet(s) \subseteq S
  BY <1>1, ElementOfSeq DEF ToSet
<1> QED BY <1>3, <1>5, <1>6, <1>7, <1>8 DEF t

\* n is new, and comes after all events of S.
Newest(l, S, n) == n \notin S /\ Placed(l, S \cup {n}) /\ \A m \in S : Before(l, m, n)

-----------------------------------------------------------------------------
(* The calendar.                                                           *)

\* What m wrote into a field of c; which events are edits of it.
Wrote(l, c, m, f) == IF m = c THEN l[c].fields[f] ELSE l[m].changes[f]
EditsIn(l, entry, f) ==
  {n \in ToSet(entry.applied) : l[n].type = "CALENDAR_EVENT_UPDATED" /\ f \in DOMAIN l[n].changes}
\* v was written last, and by these in a row.
WrittenLast(l, c, E, f, v) ==
  \E m \in E \cup {c} : Wrote(l, c, m, f) = v /\ \A k \in (E \cup {c}) \ {m} : Before(l, k, m)
WritersOf(l, c, E, f, v) ==
  {m \in E \cup {c} : \A k \in E \cup {c} : ~Before(l, k, m) => Wrote(l, c, k, f) = v}

\* The author of n had seen one of those who wrote what n replaced, or n wrote the same.
EarlierThan(l, E, n) == {m \in E : Before(l, m, n)}
ReplacedKnowingly(l, sn, c, E, f, n) ==
  \A v : WrittenLast(l, c, EarlierThan(l, E, n), f, v) =>
    LET W == WritersOf(l, c, EarlierThan(l, E, n), f, v) IN
    W \cap sn[n] # {} \/ \A m \in W \ {c} : l[m].changes[f] = l[n].changes[f]

FieldOK(l, sn, c, entry, f) ==
  LET E == EditsIn(l, entry, f) IN
  /\ WrittenLast(l, c, E, f, entry.fields[f])
  /\ entry.writers[f] = WritersOf(l, c, E, f, entry.fields[f])
  /\ \A n \in E : ReplacedKnowingly(l, sn, c, E, f, n)
EntryOK(l, sn, S, c, entry) ==
  /\ c \in S /\ l[c].type = "CALENDAR_EVENT_CREATED"
  /\ DOMAIN entry = {"fields", "writers", "tasks", "attendees", "bundles", "version", "applied"}
  /\ entry.applied \in Seq(S) /\ \A m \in ToSet(entry.applied) \ {c} : Before(l, c, m)
  /\ DOMAIN entry.fields = DOMAIN l[c].fields /\ DOMAIN entry.writers = DOMAIN l[c].fields
  /\ \A f \in DOMAIN l[c].fields : FieldOK(l, sn, c, entry, f)
CalendarOK(l, sn, S, calendar) == \A c \in DOMAIN calendar : EntryOK(l, sn, S, c, calendar[c])

\* n was added to what was applied to a thing.
Adds(old, new, n) == DOMAIN new = DOMAIN old /\ new.applied = Append(old.applied, n)

\* An entry that an event was added to was reached by that event too.
LEMMA AddedSet ==
  ASSUME NEW S, NEW old, old.applied \in Seq(S), NEW n, NEW new, Adds(old, new, n)
  PROVE  /\ ToSet(new.applied) = ToSet(old.applied) \cup {n} /\ new.applied \in Seq(S \cup {n})
         /\ ToSet(old.applied) \subseteq S
<1>1. PICK s : s = old.applied
  OBVIOUS
<1>2. s \in Seq(S)
  BY <1>1
<1>3. ToSet(Append(s, n)) = ToSet(s) \cup {n} /\ Append(s, n) \in Seq(S \cup {n}) /\ ToSet(s) \subseteq S
  BY ONLY <1>2, AppendedSet
<1>4. new.applied = Append(s, n)
  BY <1>1 DEF Adds
<1> HIDE DEF Adds
<1> QED BY <1>1, <1>3, <1>4

\* More events that are known change nothing.
LEMMA EntryStays ==
  ASSUME NEW l, NEW sn, NEW S, NEW S2, S \subseteq S2, NEW c, NEW entry, EntryOK(l, sn, S, c, entry)
  PROVE  EntryOK(l, sn, S2, c, entry)
BY SeqMonotonic DEF EntryOK

\* A calendar that was right stays right next to more events.
LEMMA CalendarStays ==
  ASSUME NEW l, NEW sn, NEW S, NEW S2, S \subseteq S2, NEW cal, CalendarOK(l, sn, S, cal)
  PROVE  CalendarOK(l, sn, S2, cal)
BY EntryStays DEF CalendarOK

\* A new entry.
LEMMA EntryCreated ==
  ASSUME NEW l, NEW sn, NEW S, NEW n, l[n].type = "CALENDAR_EVENT_CREATED", NEW entry,
         entry = [fields |-> l[n].fields, writers |-> [f \in DOMAIN l[n].fields |-> {n}],
                  tasks |-> <<>>, attendees |-> {}, bundles |-> <<>>, version |-> 1, applied |-> <<n>>]
  PROVE  EntryOK(l, sn, S \cup {n}, n, entry)
<1>1. entry.applied = <<n>> /\ <<n>> \in Seq(S \cup {n}) /\ ToSet(<<n>>) = {n}
  BY DEF ToSet
<1>2. ASSUME NEW f \in DOMAIN l[n].fields PROVE FieldOK(l, sn, n, entry, f)
  <2>1. EditsIn(l, entry, f) = {}
    BY <1>1 DEF EditsIn
  <2>2. entry.fields[f] = l[n].fields[f] /\ entry.writers[f] = {n}
    OBVIOUS
  <2>3. WrittenLast(l, n, {}, f, l[n].fields[f])
    BY DEF WrittenLast, Wrote
  <2>4. WritersOf(l, n, {}, f, l[n].fields[f]) = {n}
    BY DEF WritersOf, Wrote
  <2> QED BY <2>1, <2>2, <2>3, <2>4 DEF FieldOK
<1> QED BY <1>1, <1>2 DEF EntryOK

\* An event of another kind on an entry changes no field.
LEMMA EntryTouched ==
  ASSUME NEW l, NEW sn, NEW S, NEW c, NEW entry, EntryOK(l, sn, S, c, entry),
         NEW n, l[n].type # "CALENDAR_EVENT_UPDATED", \A m \in S : Before(l, m, n),
         NEW new, Adds(entry, new, n), new.fields = entry.fields, new.writers = entry.writers
  PROVE  EntryOK(l, sn, S \cup {n}, c, new)
<1>0. entry.applied \in Seq(S) /\ (\A m \in S : Before(l, m, n))
  BY DEF EntryOK, Newest
<1>1. ToSet(new.applied) = ToSet(entry.applied) \cup {n} /\ new.applied \in Seq(S \cup {n})
      /\ ToSet(entry.applied) \subseteq S
  BY <1>0, AddedSet
<1>2. \A f : EditsIn(l, new, f) = EditsIn(l, entry, f)
  BY <1>1 DEF EditsIn
<1>3. \A f \in DOMAIN l[c].fields : FieldOK(l, sn, c, new, f)
  BY <1>2 DEF EntryOK, FieldOK
<1>4. \A m \in ToSet(new.applied) \ {c} : Before(l, c, m)
  BY <1>0, <1>1 DEF EntryOK
<1>5. DOMAIN new = DOMAIN entry
  BY DEF Adds
<1> QED BY <1>1, <1>3, <1>4, <1>5 DEF EntryOK

\* One more edit comes after all edits so far.
LEMMA EarlierEdits ==
  ASSUME NEW l, NEW S, NEW n, Newest(l, S, n), NEW E \in SUBSET S
  PROVE  /\ EarlierThan(l, E \cup {n}, n) = E
         /\ \A m \in E : EarlierThan(l, E \cup {n}, m) = EarlierThan(l, E, m)
<1>1. ~ Before(l, n, n) /\ \A m \in E : ~ Before(l, n, m)
  BY OrderIsTotal DEF Newest
<1> QED BY <1>1 DEF EarlierThan, Newest

\* n joins the writers of v, or replaces it and them.
JoinsOrReplaces(l, c, E, n, f, v) ==
  LET w == Wrote(l, c, n, f) IN
  /\ WrittenLast(l, c, E \cup {n}, f, w)
  /\ w = v => WritersOf(l, c, E \cup {n}, f, w) = WritersOf(l, c, E, f, v) \cup {n}
  /\ w # v => WritersOf(l, c, E \cup {n}, f, w) = {n}

\* It writes the value that was there already, or replaces it and its writers.
LEMMA OneMoreWriter ==
  ASSUME NEW l, NEW S, NEW n, Newest(l, S, n), NEW E \in SUBSET S, NEW c \in S,
         NEW f, NEW v, WrittenLast(l, c, E, f, v)
  PROVE  JoinsOrReplaces(l, c, E, n, f, v)
<1>w. PICK w : w = Wrote(l, c, n, f)
  OBVIOUS
<1>0. n \notin S /\ Placed(l, S \cup {n}) /\ \A m \in S : Before(l, m, n)
  BY DEF Newest
<1>1. ~ Before(l, n, n) /\ \A m \in S : ~ Before(l, n, m)
  BY <1>0, OrderIsTotal
<1>2. WrittenLast(l, c, E \cup {n}, f, w)
  BY <1>0, <1>w DEF WrittenLast
<1>3. CASE w = v
  <2>1. ASSUME NEW m \in WritersOf(l, c, E, f, v) PROVE m \in WritersOf(l, c, E \cup {n}, f, v)
    BY <1>0, <1>3, <1>w DEF WritersOf
  <2>2. n \in WritersOf(l, c, E \cup {n}, f, v)
    BY <1>0, <1>3, <1>w DEF WritersOf
  <2>3. ASSUME NEW m \in WritersOf(l, c, E \cup {n}, f, v), m # n PROVE m \in WritersOf(l, c, E, f, v)
    BY <2>3 DEF WritersOf
  <2> QED BY <1>w, <1>2, <1>3, <2>1, <2>2, <2>3 DEF JoinsOrReplaces
<1>4. CASE w # v
  <2>1. PICK k \in E \cup {c} : Wrote(l, c, k, f) = v /\ \A j \in (E \cup {c}) \ {k} : Before(l, j, k)
    BY DEF WrittenLast
  <2>2. ASSUME NEW m \in E \cup {c} PROVE ~ Before(l, k, m)
    <3>1. k \in S \cup {n} /\ m \in S \cup {n}
      BY <2>1
    <3> QED BY <1>0, <2>1, <3>1, OrderIsTotal
  <2>3. ASSUME NEW m \in E \cup {c} PROVE m \notin WritersOf(l, c, E \cup {n}, f, w)
    BY <1>4, <2>1, <2>2 DEF WritersOf
  <2>4. n \in WritersOf(l, c, E \cup {n}, f, w)
    BY <1>0, <1>w DEF WritersOf
  <2>5. ASSUME NEW m \in WritersOf(l, c, E \cup {n}, f, w) PROVE m = n
    BY <2>3, <2>5 DEF WritersOf
  <2>6. WritersOf(l, c, E \cup {n}, f, w) = {n}
    BY <2>4, <2>5
  <2> QED BY <1>w, <1>2, <1>4, <2>6 DEF JoinsOrReplaces
<1> QED BY <1>w, <1>3, <1>4 DEF JoinsOrReplaces

\* An edit that does not contest the entry.
LEMMA EntryEdited ==
  ASSUME NEW l, NEW sn, NEW S, NEW c, NEW entry, EntryOK(l, sn, S, c, entry),
         NEW n, Newest(l, S, n),
         l[n].type = "CALENDAR_EVENT_UPDATED", \A f \in DOMAIN l[n].changes : l[n].base[f] \subseteq sn[n],
         ContestedFields(entry, l[n]) = {},
         NEW new, Adds(entry, new, n), new.fields = Changed(entry.fields, l[n].changes),
         new.writers = WritersAfter(entry, l[n], n)
  PROVE  EntryOK(l, sn, S \cup {n}, c, new)
<1>0. entry.applied \in Seq(S) /\ (\A m \in S : Before(l, m, n))
  BY DEF EntryOK, Newest
<1>1. ToSet(new.applied) = ToSet(entry.applied) \cup {n} /\ new.applied \in Seq(S \cup {n})
      /\ ToSet(entry.applied) \subseteq S
  BY <1>0, AddedSet
<1>2. DOMAIN new.fields = DOMAIN entry.fields /\ DOMAIN new.writers = DOMAIN entry.fields
  BY DEF Changed, WritersAfter
<1>3. c \in S /\ n # c /\ n \notin S
  BY DEF EntryOK, Newest
<1>4. ASSUME NEW f \in DOMAIN l[c].fields PROVE FieldOK(l, sn, c, new, f)
  <2> DEFINE E == EditsIn(l, entry, f)
  <2> DEFINE v == entry.fields[f]
  <2>1. E \in SUBSET S /\ n \notin E
    BY <1>1, <1>3 DEF EditsIn
  <2>2. WrittenLast(l, c, E, f, v) /\ entry.writers[f] = WritersOf(l, c, E, f, v)
        /\ \A m \in E : ReplacedKnowingly(l, sn, c, E, f, m)
    BY <1>4 DEF EntryOK, FieldOK
  <2>3. f \in DOMAIN entry.fields
    BY DEF EntryOK
  <2>4. CASE f \notin DOMAIN l[n].changes
    <3>1. EditsIn(l, new, f) = E
      BY <1>1, <2>4 DEF EditsIn
    <3>2. new.fields[f] = v /\ new.writers[f] = entry.writers[f]
      BY <2>3, <2>4 DEF Changed, WritersAfter
    <3> QED BY <2>2, <3>1, <3>2 DEF FieldOK
  <2>5. CASE f \in DOMAIN l[n].changes
    <3> DEFINE w == l[n].changes[f]
    <3>1. EditsIn(l, new, f) = E \cup {n}
      BY <1>1, <2>5 DEF EditsIn
    <3>2. new.fields[f] = w /\ new.writers[f] = IF v = w THEN entry.writers[f] \cup {n} ELSE {n}
      BY <2>3, <2>5 DEF Changed, WritersAfter
    <3>3. w = Wrote(l, c, n, f)
      BY <1>3 DEF Wrote
    <3> HIDE DEF E, v, w
    <3>4. /\ WrittenLast(l, c, E \cup {n}, f, w)
          /\ w = v => WritersOf(l, c, E \cup {n}, f, w) = WritersOf(l, c, E, f, v) \cup {n}
          /\ w # v => WritersOf(l, c, E \cup {n}, f, w) = {n}
      <4>1. E \in SUBSET S /\ c \in S /\ WrittenLast(l, c, E, f, v) /\ Newest(l, S, n)
        BY <1>3, <2>1, <2>2
      <4>2. JoinsOrReplaces(l, c, E, n, f, v)
        BY ONLY <4>1, OneMoreWriter
      <4> QED BY <3>3, <4>2 DEF JoinsOrReplaces
    <3>5. EarlierThan(l, E \cup {n}, n) = E /\ \A m \in E : EarlierThan(l, E \cup {n}, m) = EarlierThan(l, E, m)
      BY <2>1, EarlierEdits
    <3>6. ASSUME NEW m \in E PROVE ReplacedKnowingly(l, sn, c, E \cup {n}, f, m)
      BY <2>2, <3>5 DEF ReplacedKnowingly
    <3>7. v = w \/ entry.writers[f] \cap l[n].base[f] # {}
      BY <2>5 DEF ContestedFields, v, w
    <3>8. ASSUME NEW u, WrittenLast(l, c, E, f, u) PROVE u = v
      <4>1. PICK a \in E \cup {c} : Wrote(l, c, a, f) = u /\ \A k \in (E \cup {c}) \ {a} : Before(l, k, a)
        BY <3>8 DEF WrittenLast
      <4>2. PICK b \in E \cup {c} : Wrote(l, c, b, f) = v /\ \A k \in (E \cup {c}) \ {b} : Before(l, k, b)
        BY <2>2 DEF WrittenLast
      <4>3. a \in S \cup {n} /\ b \in S \cup {n}
        BY <1>3, <2>1
      <4>4. a = b
        BY <4>1, <4>2, <4>3, OrderIsTotal DEF Newest
      <4> QED BY <4>1, <4>2, <4>4
    <3>9. WritersOf(l, c, E, f, v) \cap sn[n] # {}
            \/ \A m \in WritersOf(l, c, E, f, v) \ {c} : l[m].changes[f] = l[n].changes[f]
      <4>1. CASE v = w
        <5>1. ASSUME NEW m \in WritersOf(l, c, E, f, v), m # c PROVE l[m].changes[f] = v
          <6>1. m \in E /\ m \in S \cup {n}
            BY <2>1, <5>1 DEF WritersOf
          <6>2. ~ Before(l, m, m)
            BY <6>1, OrderIsTotal DEF Newest
          <6>3. Wrote(l, c, m, f) = v
            BY <5>1, <6>2 DEF WritersOf
          <6> QED BY <5>1, <6>3 DEF Wrote
        <5> QED BY <4>1, <5>1 DEF w
      <4>2. CASE entry.writers[f] \cap l[n].base[f] # {}
        <5>1. l[n].base[f] \subseteq sn[n]
          BY <2>5
        <5> QED BY <2>2, <4>2, <5>1
      <4> QED BY <3>7, <4>1, <4>2
    <3>10. ReplacedKnowingly(l, sn, c, E \cup {n}, f, n)
      BY <3>5, <3>8, <3>9 DEF ReplacedKnowingly
    <3>11. new.writers[f] = WritersOf(l, c, E \cup {n}, f, w)
      <4>1. CASE v = w
        BY <2>2, <3>2, <3>4, <4>1
      <4>2. CASE v # w
        BY <3>2, <3>4, <4>2
      <4> QED BY <4>1, <4>2
    <3>12. \A m \in E \cup {n} : ReplacedKnowingly(l, sn, c, E \cup {n}, f, m)
      BY <3>6, <3>10
    <3> QED BY <3>1, <3>2, <3>4, <3>11, <3>12 DEF FieldOK
  <2> QED BY <2>4, <2>5
<1>5. \A m \in ToSet(new.applied) \ {c} : Before(l, c, m)
  BY <1>0, <1>1, <1>3 DEF EntryOK
<1>6. DOMAIN new = DOMAIN entry
  BY DEF Adds
<1> QED BY <1>1, <1>2, <1>3, <1>4, <1>5, <1>6 DEF EntryOK

\* q shows what p shows.
Alike(p, q) ==
  /\ Whole(q) /\ q.items = p.items /\ q.catalog = p.catalog /\ q.cadets = p.cadets /\ q.held = p.held
  /\ q.needs = p.needs /\ q.conflicts = p.conflicts /\ q.transactions = p.transactions
  /\ q.sessions = p.sessions /\ q.calendar = p.calendar /\ q.bundle = p.bundle /\ q.years = p.years

\* An event leaves what is shown alone, or has its effect.
Refused(p, n, q) == Alike(p, q) /\ q.clock = p.clock /\ q.rejected = p.rejected \cup {n}
Accepted(l, all, p, n, r, q) ==
  /\ ~ Throws(l, all, p, n) /\ ~ projectionViolation(r) /\ Alike(r, q)
  /\ q.clock = Max({p.clock, l[n].clock}) /\ q.rejected = p.rejected /\ q.unsafe = p.unsafe

\* An event is refused and leaves what is shown alone, or it has its effect.
LEMMA TryApplyIs ==
  ASSUME NEW l, NEW all, NEW p, Whole(p), NEW n, IsCommand(l[n]), NEW q, q = TryApply(l, all, p, n)
  PROVE  Refused(p, n, q) \/ Accepted(l, all, p, n, Effect(l, p, n), q)
<1>1. CASE Throws(l, all, p, n)
  BY <1>1 DEF TryApply, Whole, Alike, Refused
<1>2. CASE ~ Throws(l, all, p, n) /\ projectionViolation(Effect(l, p, n))
  BY <1>2 DEF TryApply, Accept, Whole, Alike, Refused
<1>3. CASE ~ Throws(l, all, p, n) /\ ~ projectionViolation(Effect(l, p, n))
  <2> DEFINE r == Effect(l, p, n)
  <2>1. Kept(p, r) /\ Whole(r)
    BY EffectKeeps, KeptWhole
  <2>2. q = [r EXCEPT !.clock = Max({@, l[n].clock})]
    BY <1>3 DEF TryApply, Accept
  <2> HIDE DEF r
  <2>3. Alike(r, q) /\ q.clock = Max({r.clock, l[n].clock}) /\ q.rejected = r.rejected /\ q.unsafe = r.unsafe
    BY <2>1, <2>2 DEF Whole, Alike
  <2>4. r.clock = p.clock /\ r.rejected = p.rejected /\ r.unsafe = p.unsafe
    BY <2>1 DEF Kept
  <2> QED BY <1>3, <2>3, <2>4 DEF r, Accepted
<1> QED BY <1>1, <1>2, <1>3

\* Either way the projection keeps its parts and its clock.
LEMMA TryApplyClock ==
  ASSUME NEW l, NEW all, NEW p, Whole(p), p.clock \in Nat, NEW n, IsCommand(l[n]), NEW q, q = TryApply(l, all, p, n)
  PROVE  Whole(q) /\ q.clock \in Nat
<1>1. l[n].clock \in Nat
  BY DEF IsCommand
<1>2. Max({p.clock, l[n].clock}) \in Nat
  BY <1>1, MaxOfTwo
<1>3. CASE Refused(p, n, q)
  BY <1>3 DEF Refused, Alike
<1>4. CASE Accepted(l, all, p, n, Effect(l, p, n), q)
  BY <1>2, <1>4 DEF Accepted, Alike
<1> QED BY <1>3, <1>4, TryApplyIs

\* One entry of a calendar becomes another; a calendar gains an entry.
Puts(cal, cal2, c, new) == cal2 = [cal EXCEPT ![c] = new]
Gains(cal, cal2, c, new) ==
  /\ DOMAIN cal2 = DOMAIN cal \cup {c} /\ cal2[c] = new
  /\ \A d \in DOMAIN cal : cal2[d] = cal[d]

\* A calendar stays right with one more right entry.
LEMMA EntryGained ==
  ASSUME NEW l, NEW sn, NEW S, NEW cal, CalendarOK(l, sn, S, cal), NEW c, c \notin DOMAIN cal,
         NEW new, EntryOK(l, sn, S, c, new), NEW cal2, Gains(cal, cal2, c, new)
  PROVE  CalendarOK(l, sn, S, cal2)
BY DEF CalendarOK, Gains

\* A calendar stays right when a right entry replaces one.
LEMMA EntryPut ==
  ASSUME NEW l, NEW sn, NEW S, NEW cal, CalendarOK(l, sn, S, cal), NEW c,
         NEW new, EntryOK(l, sn, S, c, new), NEW cal2, Puts(cal, cal2, c, new)
  PROVE  CalendarOK(l, sn, S, cal2)
BY DEF CalendarOK, Puts

\* An event that is no edit keeps the fields of the entry that it reaches.
KeepsFields(old, new, n) ==
  Adds(old, new, n) /\ new.fields = old.fields /\ new.writers = old.writers

\* An event that edits no field of its entry leaves the calendar right.
LEMMA EntryReached ==
  ASSUME NEW l, NEW sn, NEW S, NEW n, Newest(l, S, n), l[n].type # "CALENDAR_EVENT_UPDATED",
         NEW cal, CalendarOK(l, sn, S, cal), NEW c \in DOMAIN cal,
         NEW new, KeepsFields(cal[c], new, n), NEW cal2, Puts(cal, cal2, c, new)
  PROVE  CalendarOK(l, sn, S \cup {n}, cal2)
<1>1. CalendarOK(l, sn, S \cup {n}, cal)
  BY CalendarStays
<1>2. PICK old : old = cal[c]
  OBVIOUS
<1>3. EntryOK(l, sn, S, c, old)
  BY <1>2 DEF CalendarOK
<1>4. Adds(old, new, n) /\ new.fields = old.fields /\ new.writers = old.writers
  BY <1>2 DEF KeepsFields
<1>5. (\A m \in S : Before(l, m, n)) /\ l[n].type # "CALENDAR_EVENT_UPDATED"
  BY DEF Newest
<1>6. EntryOK(l, sn, S \cup {n}, c, new)
  BY ONLY <1>3, <1>4, <1>5, EntryTouched
<1> QED BY ONLY <1>1, <1>6, Puts(cal, cal2, c, new), EntryPut

\* Setting an entry changes that entry only.
LEMMA CalendarPut ==
  ASSUME NEW p, Whole(p), NEW c, NEW new, NEW q, q = [p EXCEPT !.calendar[c] = new]
  PROVE  Puts(p.calendar, q.calendar, c, new)
BY DEF Puts, Whole

\* An event of the calendar.
LEMMA CalendarEffect ==
  ASSUME NEW l, NEW sn, NEW S, NEW p, Whole(p), CalendarOK(l, sn, S, p.calendar),
         NEW n, Newest(l, S, n), l[n].type \in CalendarEvents, ~ CalendarThrows(l, p, n),
         l[n].type = "CALENDAR_EVENT_UPDATED" => \A f \in DOMAIN l[n].changes : l[n].base[f] \subseteq sn[n],
         NEW q, q = ApplyCalendar(l, p, n)
  PROVE  CalendarOK(l, sn, S \cup {n}, q.calendar)
<1> DEFINE c == l[n].entry
<1>0. CalendarOK(l, sn, S \cup {n}, p.calendar) /\ n \notin DOMAIN p.calendar
  <2>1. n \notin S /\ \A m \in S : Before(l, m, n)
    BY DEF Newest
  <2>2. n \notin DOMAIN p.calendar
    BY <2>1 DEF CalendarOK, EntryOK
  <2> QED BY <2>1, <2>2, CalendarStays
<1>1. CASE l[n].type = "CALENDAR_EVENT_CREATED"
  <2> DEFINE entry == [fields |-> l[n].fields, writers |-> [f \in DOMAIN l[n].fields |-> {n}],
                       tasks |-> <<>>, attendees |-> {}, bundles |-> <<>>, version |-> 1, applied |-> <<n>>]
  <2>1. EntryOK(l, sn, S \cup {n}, n, entry)
    BY <1>1, EntryCreated
  <2>2. q.calendar = Joined(p.calendar, n, entry)
    BY <1>1 DEF ApplyCalendar, CreateCalendar, Whole
  <2> HIDE DEF entry
  <2>3. PICK cal, new : cal = p.calendar /\ new = entry
    OBVIOUS
  <2>4. n \notin DOMAIN cal
    BY <1>0, <2>3
  <2>5. Gains(cal, Joined(cal, n, new), n, new)
    BY ONLY <2>4 DEF Gains, Joined
  <2>6. Gains(p.calendar, q.calendar, n, entry)
    BY <2>2, <2>3, <2>5
  <2> QED BY ONLY <1>0, <2>1, <2>6, EntryGained
<1>2. ASSUME l[n].type # "CALENDAR_EVENT_CREATED"
      PROVE  c \in DOMAIN p.calendar /\ EntryOK(l, sn, S, c, p.calendar[c])
             /\ DOMAIN p.calendar[c] = {"fields", "writers", "tasks", "attendees", "bundles", "version", "applied"}
  <2>1. c \in DOMAIN p.calendar
    BY <1>2 DEF CalendarThrows, OnCalendar
  <2>2. EntryOK(l, sn, S, c, p.calendar[c])
    BY <2>1 DEF CalendarOK
  <2> QED BY <2>1, <2>2 DEF EntryOK
<1> DEFINE entry == p.calendar[c]
<1>3. CASE l[n].type = "CALENDAR_EVENT_UPDATED"
  <2>0. q = UpdateCalendar(l, p, n)
    BY <1>3 DEF ApplyCalendar
  <2>1. CASE ContestedFields(entry, l[n]) # {}
    <3>1. q = AddConflict(p, n)
      BY <2>0, <2>1 DEF UpdateCalendar
    <3>2. q.calendar = p.calendar
      BY <3>1 DEF AddConflict, Whole
    <3> QED BY <1>0, <3>2
  <2>2. CASE ContestedFields(entry, l[n]) = {}
    <3> DEFINE new == Touch([entry EXCEPT !.fields = Changed(@, l[n].changes), !.writers = WritersAfter(entry, l[n], n)], n)
    <3>1. q = [p EXCEPT !.calendar[c] = new]
      <4>1. UpdateCalendar(l, p, n) = IF ContestedFields(entry, l[n]) # {} THEN AddConflict(p, n)
                                      ELSE [p EXCEPT !.calendar[c] = new]
        BY DEF UpdateCalendar, Put
      <4> HIDE DEF new, entry, c
      <4> QED BY <2>0, <2>2, <4>1
    <3>2. EntryOK(l, sn, S, c, entry) /\ c \in DOMAIN p.calendar
      BY <1>2, <1>3
    <3>3. DOMAIN entry = {"fields", "writers", "tasks", "attendees", "bundles", "version", "applied"}
      BY <3>2 DEF EntryOK
    <3>4. Adds(entry, new, n) /\ new.fields = Changed(entry.fields, l[n].changes)
          /\ new.writers = WritersAfter(entry, l[n], n)
      BY <3>3 DEF Adds, Touch
    <3> HIDE DEF entry, new, c
    <3>5. Puts(p.calendar, q.calendar, c, new)
      BY <3>1, CalendarPut
    <3>6. Newest(l, S, n) /\ l[n].type = "CALENDAR_EVENT_UPDATED"
          /\ \A f \in DOMAIN l[n].changes : l[n].base[f] \subseteq sn[n]
      BY <1>3
    <3>7. EntryOK(l, sn, S \cup {n}, c, new)
      BY ONLY <2>2, <3>2, <3>4, <3>6, EntryEdited
    <3> QED BY ONLY <1>0, <3>5, <3>7, EntryPut
  <2> QED BY <2>1, <2>2
<1>4. CASE l[n].type = "CALENDAR_TASK_ADDED"
  <2> DEFINE new == Touch([entry EXCEPT !.tasks = Joined(@, n, NewTask(l[n].offset))], n)
  <2>1. q = AddTask(l, p, n)
    BY <1>4 DEF ApplyCalendar
  <2>2. AddTask(l, p, n) = [p EXCEPT !.calendar[c] = new]
    BY DEF AddTask, Put
  <2>3. KeepsFields(entry, new, n)
    BY <1>2, <1>4 DEF KeepsFields, Adds, Touch
  <2>4. c \in DOMAIN p.calendar /\ Newest(l, S, n) /\ l[n].type # "CALENDAR_EVENT_UPDATED" /\ entry = p.calendar[c]
    BY <1>2, <1>4
  <2> HIDE DEF new, entry, c
  <2>5. Puts(p.calendar, q.calendar, c, new)
    BY <2>1, <2>2, CalendarPut
  <2>6. CalendarOK(l, sn, S, p.calendar) /\ KeepsFields(p.calendar[c], new, n)
    BY <2>3, <2>4
  <2> QED BY ONLY <2>4, <2>5, <2>6, EntryReached
<1>5. CASE l[n].type = "CALENDAR_TASK_UPDATED"
  <2> DEFINE new == Touch([entry EXCEPT !.tasks[l[n].task].offset = l[n].offset], n)
  <2>1. q = UpdateTask(l, p, n)
    BY <1>5 DEF ApplyCalendar
  <2>2. UpdateTask(l, p, n) = [p EXCEPT !.calendar[c] = new]
    BY DEF UpdateTask, Put
  <2>3. KeepsFields(entry, new, n)
    BY <1>2, <1>5 DEF KeepsFields, Adds, Touch
  <2>4. c \in DOMAIN p.calendar /\ Newest(l, S, n) /\ l[n].type # "CALENDAR_EVENT_UPDATED" /\ entry = p.calendar[c]
    BY <1>2, <1>5
  <2> HIDE DEF new, entry, c
  <2>5. Puts(p.calendar, q.calendar, c, new)
    BY <2>1, <2>2, CalendarPut
  <2>6. CalendarOK(l, sn, S, p.calendar) /\ KeepsFields(p.calendar[c], new, n)
    BY <2>3, <2>4
  <2> QED BY ONLY <2>4, <2>5, <2>6, EntryReached
<1>6. CASE l[n].type = "TASK_COMPLETED"
  <2> DEFINE new == Touch([entry EXCEPT !.tasks[l[n].task].completed = l[n].completed], n)
  <2>1. q = CompleteTask(l, p, n)
    BY <1>6 DEF ApplyCalendar
  <2>2. CompleteTask(l, p, n) = [p EXCEPT !.calendar[c] = new]
    BY DEF CompleteTask, Put
  <2>3. KeepsFields(entry, new, n)
    BY <1>2, <1>6 DEF KeepsFields, Adds, Touch
  <2>4. c \in DOMAIN p.calendar /\ Newest(l, S, n) /\ l[n].type # "CALENDAR_EVENT_UPDATED" /\ entry = p.calendar[c]
    BY <1>2, <1>6
  <2> HIDE DEF new, entry, c
  <2>5. Puts(p.calendar, q.calendar, c, new)
    BY <2>1, <2>2, CalendarPut
  <2>6. CalendarOK(l, sn, S, p.calendar) /\ KeepsFields(p.calendar[c], new, n)
    BY <2>3, <2>4
  <2> QED BY ONLY <2>4, <2>5, <2>6, EntryReached
<1>7. CASE l[n].type = "CALENDAR_TASK_REMOVED"
  <2> DEFINE new == Touch([entry EXCEPT !.tasks[l[n].task].removed = TRUE], n)
  <2>1. q = RemoveTask(l, p, n)
    BY <1>7 DEF ApplyCalendar
  <2>2. RemoveTask(l, p, n) = [p EXCEPT !.calendar[c] = new]
    BY DEF RemoveTask, Put
  <2>3. KeepsFields(entry, new, n)
    BY <1>2, <1>7 DEF KeepsFields, Adds, Touch
  <2>4. c \in DOMAIN p.calendar /\ Newest(l, S, n) /\ l[n].type # "CALENDAR_EVENT_UPDATED" /\ entry = p.calendar[c]
    BY <1>2, <1>7
  <2> HIDE DEF new, entry, c
  <2>5. Puts(p.calendar, q.calendar, c, new)
    BY <2>1, <2>2, CalendarPut
  <2>6. CalendarOK(l, sn, S, p.calendar) /\ KeepsFields(p.calendar[c], new, n)
    BY <2>3, <2>4
  <2> QED BY ONLY <2>4, <2>5, <2>6, EntryReached
<1>8. CASE l[n].type = "CALENDAR_ATTENDEES_ADDED"
  <2> DEFINE new == Touch([entry EXCEPT !.attendees = @ \cup l[n].cadets], n)
  <2>1. q = AddAttendees(l, p, n)
    BY <1>8 DEF ApplyCalendar
  <2>2. AddAttendees(l, p, n) = [p EXCEPT !.calendar[c] = new]
    BY DEF AddAttendees, Put
  <2>3. KeepsFields(entry, new, n)
    BY <1>2, <1>8 DEF KeepsFields, Adds, Touch
  <2>4. c \in DOMAIN p.calendar /\ Newest(l, S, n) /\ l[n].type # "CALENDAR_EVENT_UPDATED" /\ entry = p.calendar[c]
    BY <1>2, <1>8
  <2> HIDE DEF new, entry, c
  <2>5. Puts(p.calendar, q.calendar, c, new)
    BY <2>1, <2>2, CalendarPut
  <2>6. CalendarOK(l, sn, S, p.calendar) /\ KeepsFields(p.calendar[c], new, n)
    BY <2>3, <2>4
  <2> QED BY ONLY <2>4, <2>5, <2>6, EntryReached
<1>9. CASE l[n].type = "CALENDAR_ATTENDEES_REMOVED"
  <2> DEFINE new == Touch([entry EXCEPT !.attendees = @ \ l[n].cadets], n)
  <2>1. q = RemoveAttendees(l, p, n)
    BY <1>9 DEF ApplyCalendar
  <2>2. RemoveAttendees(l, p, n) = [p EXCEPT !.calendar[c] = new]
    BY DEF RemoveAttendees, Put
  <2>3. KeepsFields(entry, new, n)
    BY <1>2, <1>9 DEF KeepsFields, Adds, Touch
  <2>4. c \in DOMAIN p.calendar /\ Newest(l, S, n) /\ l[n].type # "CALENDAR_EVENT_UPDATED" /\ entry = p.calendar[c]
    BY <1>2, <1>9
  <2> HIDE DEF new, entry, c
  <2>5. Puts(p.calendar, q.calendar, c, new)
    BY <2>1, <2>2, CalendarPut
  <2>6. CalendarOK(l, sn, S, p.calendar) /\ KeepsFields(p.calendar[c], new, n)
    BY <2>3, <2>4
  <2> QED BY ONLY <2>4, <2>5, <2>6, EntryReached
<1>10. CASE l[n].type = "CALENDAR_BUNDLES_ADDED"
  <2> DEFINE new == Touch([entry EXCEPT !.bundles = @ \o SelectSeq(l[n].bundles, LAMBDA b : b \notin ToSet(p.calendar[l[n].entry].bundles))], n)
  <2>1. q = LinkBundles(l, p, n)
    BY <1>10 DEF ApplyCalendar
  <2>2. LinkBundles(l, p, n) = [p EXCEPT !.calendar[c] = new]
    BY DEF LinkBundles, Put
  <2>3. KeepsFields(entry, new, n)
    BY <1>2, <1>10 DEF KeepsFields, Adds, Touch
  <2>4. c \in DOMAIN p.calendar /\ Newest(l, S, n) /\ l[n].type # "CALENDAR_EVENT_UPDATED" /\ entry = p.calendar[c]
    BY <1>2, <1>10
  <2> HIDE DEF new, entry, c
  <2>5. Puts(p.calendar, q.calendar, c, new)
    BY <2>1, <2>2, CalendarPut
  <2>6. CalendarOK(l, sn, S, p.calendar) /\ KeepsFields(p.calendar[c], new, n)
    BY <2>3, <2>4
  <2> QED BY ONLY <2>4, <2>5, <2>6, EntryReached
<1>11. CASE l[n].type = "CALENDAR_BUNDLES_REMOVED"
  <2> DEFINE new == Touch([entry EXCEPT !.bundles = SelectSeq(@, LAMBDA b : b \notin ToSet(l[n].bundles))], n)
  <2>1. q = UnlinkBundles(l, p, n)
    BY <1>11 DEF ApplyCalendar
  <2>2. UnlinkBundles(l, p, n) = [p EXCEPT !.calendar[c] = new]
    BY DEF UnlinkBundles, Put
  <2>3. KeepsFields(entry, new, n)
    BY <1>2, <1>11 DEF KeepsFields, Adds, Touch
  <2>4. c \in DOMAIN p.calendar /\ Newest(l, S, n) /\ l[n].type # "CALENDAR_EVENT_UPDATED" /\ entry = p.calendar[c]
    BY <1>2, <1>11
  <2> HIDE DEF new, entry, c
  <2>5. Puts(p.calendar, q.calendar, c, new)
    BY <2>1, <2>2, CalendarPut
  <2>6. CalendarOK(l, sn, S, p.calendar) /\ KeepsFields(p.calendar[c], new, n)
    BY <2>3, <2>4
  <2> QED BY ONLY <2>4, <2>5, <2>6, EntryReached
<1> QED BY <1>1, <1>3, <1>4, <1>5, <1>6, <1>7, <1>8, <1>9, <1>10, <1>11 DEF CalendarEvents

\* What holds of no event, and goes on to hold when the next event is added, holds of all.
LEMMA FoldInduction ==
  ASSUME NEW l, NEW all, Placed(l, all), NEW P \in SUBSET (SUBSET all), {} \in P,
         \A T \in P : \A n \in all : Newest(l, T, n) => T \cup {n} \in P
  PROVE  all \in P
<1> DEFINE pick == LastPick(l, all)
<1>1. pick \in Picks(all) /\ IsFiniteSet(all)
  BY LastPicks DEF Placed
<1>2. ASSUME NEW T \in SUBSET all, T # {}, T \ {pick[T]} \in P PROVE T \in P
  <2> DEFINE n == LastOf(l, T)
  <2>1. pick[T] = n /\ n \in T /\ \A m \in T \ {n} : Before(l, m, n)
    BY <1>2, LastPicks, LastIsLast
  <2>2. Placed(l, T)
    BY FS_Subset DEF Placed
  <2>3. (T \ {n}) \cup {n} = T
    BY <2>1
  <2> HIDE DEF n, pick
  <2>4. Newest(l, T \ {n}, n)
    BY <2>1, <2>2, <2>3 DEF Newest
  <2> QED BY <1>2, <2>1, <2>3, <2>4
<1> HIDE DEF pick
<1>3. \A T \in SUBSET all : T # {} /\ T \ {pick[T]} \in P => T \in P
  BY <1>2
<1>4. {} \in P
  OBVIOUS
<1> QED BY ONLY <1>1, <1>3, <1>4, TakenOneByOne

\* The fold takes the last event last.
LEMMA FoldsNext ==
  ASSUME NEW f, NEW l, NEW all, Folds(f, l, all), NEW T \in SUBSET all, NEW n \in all, Newest(l, T, n)
  PROVE  f[T \cup {n}] = TryApply(l, all, f[T], n)
<1>1. Placed(l, T \cup {n}) /\ n \notin T /\ \A m \in T : Before(l, m, n)
  BY DEF Newest
<1> DEFINE U == T \cup {n}
<1>2. U \in SUBSET all /\ U # {}
  OBVIOUS
<1>3. LastOf(l, U) \in U /\ \A m \in U \ {LastOf(l, U)} : Before(l, m, LastOf(l, U))
  BY <1>1, LastIsLast
<1>4. LastOf(l, U) = n
  <2>1. \A m \in U : ~ (Before(l, m, n) /\ Before(l, n, m))
    BY <1>1, OrderIsTotal
  <2> QED BY <1>1, <1>3, <2>1
<1>5. U \ {n} = T
  BY <1>1
<1> HIDE DEF U
<1> QED BY <1>2, <1>4, <1>5 DEF Folds, U

\* Every event of S was signed by a command, on what its author knew.
SignedAt(l, sn, n) ==
  /\ IsCommand(l[n])
  /\ l[n].type = "CALENDAR_EVENT_UPDATED" => \A f \in DOMAIN l[n].changes : l[n].base[f] \subseteq sn[n]
Commands(l, sn, S) == Placed(l, S) /\ \A n \in S : SignedAt(l, sn, n)

Shaped(l, sn, S, p) == Whole(p) /\ p.clock \in Nat /\ CalendarOK(l, sn, S, p.calendar)

\* A calendar event has the effect and the errors of the calendar.
LEMMA EffectOnCalendar ==
  ASSUME NEW l, NEW all, NEW p, NEW n, l[n].type \in CalendarEvents
  PROVE  Effect(l, p, n) = ApplyCalendar(l, p, n) /\ (Throws(l, all, p, n) <=> CalendarThrows(l, p, n))
BY DEF Effect, Throws, CalendarEvents, CountEvents, NeedChanges

\* An event, refused or not, leaves clock and calendar right.
LEMMA ShapeKept ==
  ASSUME NEW l, NEW sn, NEW S, NEW p, Shaped(l, sn, S, p), NEW n, Newest(l, S, n), SignedAt(l, sn, n),
         NEW all, NEW q, q = TryApply(l, all, p, n)
  PROVE  Shaped(l, sn, S \cup {n}, q)
<1>1. Whole(p) /\ p.clock \in Nat /\ CalendarOK(l, sn, S, p.calendar) /\ IsCommand(l[n])
  BY DEF Shaped, SignedAt
<1>2. Whole(q) /\ q.clock \in Nat
  BY <1>1, TryApplyClock
<1>3. CalendarOK(l, sn, S \cup {n}, p.calendar)
  BY <1>1, CalendarStays
<1>4. CASE Refused(p, n, q)
  <2>1. q.calendar = p.calendar
    BY <1>4 DEF Refused, Alike
  <2> QED BY <1>2, <1>3, <2>1 DEF Shaped
<1>5. CASE Accepted(l, all, p, n, Effect(l, p, n), q)
  <2>1. PICK r : r = Effect(l, p, n)
    OBVIOUS
  <2>2. q.calendar = r.calendar /\ ~ Throws(l, all, p, n)
    BY <1>5, <2>1 DEF Accepted, Alike
  <2>3. CASE l[n].type \in CalendarEvents
    <3>1. r = ApplyCalendar(l, p, n) /\ ~ CalendarThrows(l, p, n)
      BY <2>1, <2>2, <2>3, EffectOnCalendar
    <3>2. l[n].type = "CALENDAR_EVENT_UPDATED" => \A f \in DOMAIN l[n].changes : l[n].base[f] \subseteq sn[n]
      BY DEF SignedAt
    <3>3. CalendarOK(l, sn, S \cup {n}, r.calendar)
      BY ONLY <1>1, <2>3, <3>1, <3>2, Newest(l, S, n), CalendarEffect
    <3> QED BY <1>2, <2>2, <3>3 DEF Shaped
  <2>4. CASE l[n].type \notin CalendarEvents
    <3>1. r.calendar = p.calendar
      BY <1>1, <2>1, <2>4, EffectKeeps
    <3> QED BY <1>2, <1>3, <2>2, <3>1 DEF Shaped
  <2> QED BY <2>3, <2>4
<1>6. Refused(p, n, q) \/ Accepted(l, all, p, n, Effect(l, p, n), q)
  BY <1>1, TryApplyIs
<1> QED BY <1>4, <1>5, <1>6

\* What a device shows has the shape of a projection, and its calendar overwrites nothing.
LEMMA RebuildShaped ==
  ASSUME NEW l, NEW sn, NEW S, Commands(l, sn, S)
  PROVE  Shaped(l, sn, S, Rebuild(l, S))
<1>1. Placed(l, S) /\ \A n \in S : SignedAt(l, sn, n)
  BY DEF Commands
<1>2. PICK f : Folds(f, l, S) /\ f[S] = Rebuild(l, S)
  BY <1>1, RebuildFolds
<1> DEFINE P == {T \in SUBSET S : Shaped(l, sn, T, f[T])}
<1>3. {} \in P
  <2>1. f[{}] = Genesis
    BY <1>2 DEF Folds
  <2>2. Shaped(l, sn, {}, Genesis)
    BY GenesisWhole DEF Shaped, Genesis, CalendarOK
  <2> QED BY <2>1, <2>2
<1>4. ASSUME NEW T \in P, NEW n \in S, Newest(l, T, n) PROVE T \cup {n} \in P
  <2>1. T \in SUBSET S /\ Shaped(l, sn, T, f[T])
    OBVIOUS
  <2>2. f[T \cup {n}] = TryApply(l, S, f[T], n)
    BY <1>2, <1>4, <2>1, FoldsNext
  <2>3. Shaped(l, sn, T \cup {n}, f[T \cup {n}])
    BY <1>1, <1>4, <2>1, <2>2, ShapeKept
  <2> QED BY <2>1, <2>3
<1>5. P \in SUBSET (SUBSET S)
  OBVIOUS
<1> HIDE DEF P
<1>6. S \in P
  BY <1>1, <1>3, <1>4, <1>5, FoldInduction
<1> QED BY <1>2, <1>6 DEF P

-----------------------------------------------------------------------------
(* Sums.                                                                   *)

\* Numbers to be added up; and their partial sums.
Numbers(v) == IsFiniteSet(DOMAIN v) /\ \A x \in DOMAIN v : v[x] \in Int
SumsUp(g, v, S) ==
  /\ g[{}] = 0
  /\ \A T \in SUBSET S : T # {} => g[T] = v[CHOOSE y \in T : TRUE] + g[T \ {CHOOSE y \in T : TRUE}]

\* A sum is what adding its terms one by one ends with.
LEMMA PartialSums ==
  ASSUME NEW v, Numbers(v)
  PROVE  \E g \in [SUBSET DOMAIN v -> Int] : SumsUp(g, v, DOMAIN v) /\ g[DOMAIN v] = SumFunction(v)
<1> DEFINE S == DOMAIN v
<1> DEFINE pick == AnyPick(S)
<1> DEFINE Raw(f) == f = [T \in SUBSET S |-> IF T = {} THEN 0
                             ELSE LET x == CHOOSE y \in T : TRUE IN v[x] + f[T \ {x}]]
<1>1. SumFunction(v) = (CHOOSE f : Raw(f))[S]
  BY Zenon DEF SumFunction, SumFunctionOnSet, FoldFunctionOnSet, MapThenFoldSet
<1>2. pick \in Picks(S) /\ \A T \in SUBSET S : T # {} => pick[T] = (CHOOSE y \in T : TRUE) /\ pick[T] \in T
  BY AnyPicks DEF AnyPick
<1>3. IsFiniteSet(S) /\ \A x \in S : v[x] \in Int
  BY DEF Numbers
<1> DEFINE step == [s \in Int \X S |-> v[s[2]] + s[1]]
<1>4. step \in [Int \X S -> Int] /\ \A d \in Int, x \in S : step[<<d, x>>] = v[x] + d
  BY <1>3
<1> HIDE DEF S, pick, step
<1>5. PICK f \in [SUBSET S -> Int] : IsFold(f, S, pick, 0, step)
  <2>1. IsFiniteSet(S) /\ pick \in Picks(S) /\ 0 \in Int /\ step \in [Int \X S -> Int]
    BY <1>2, <1>3, <1>4
  <2> QED BY ONLY <2>1, FoldExists
<1>6. f[{}] = 0 /\ \A T \in SUBSET S : T # {} => f[T] = v[CHOOSE y \in T : TRUE] + f[T \ {CHOOSE y \in T : TRUE}]
  <2>1. ASSUME NEW T \in SUBSET S, T # {}
        PROVE  f[T] = v[CHOOSE y \in T : TRUE] + f[T \ {CHOOSE y \in T : TRUE}]
    <3>1. pick[T] = (CHOOSE y \in T : TRUE) /\ pick[T] \in S /\ T \ {pick[T]} \in SUBSET S
      BY <1>2, <2>1
    <3>2. f[T] = step[<<f[T \ {pick[T]}], pick[T]>>]
      BY <1>5, <2>1 DEF IsFold
    <3>3. f[T \ {pick[T]}] \in Int
      BY <3>1
    <3> QED BY <1>4, <3>1, <3>2, <3>3
  <2>2. f[{}] = 0
    BY <1>5 DEF IsFold
  <2> QED BY <2>1, <2>2
<1>7. Raw(f)
  <2>1. \A T \in SUBSET S : f[T] = IF T = {} THEN 0 ELSE LET x == CHOOSE y \in T : TRUE IN v[x] + f[T \ {x}]
    BY <1>6
  <2>2. f = [T \in SUBSET S |-> f[T]]
    OBVIOUS
  <2> QED BY <2>1, <2>2
<1> DEFINE g == CHOOSE h : Raw(h)
<1>8. Raw(g)
  BY <1>7
<1> HIDE DEF g
<1>9. SumsUp(g, v, S)
  BY <1>8 DEF SumsUp
<1>10. g \in [SUBSET S -> Int]
  <2> DEFINE P == {T \in SUBSET S : g[T] \in Int}
  <2>1. {} \in P
    BY <1>9 DEF SumsUp
  <2>2. ASSUME NEW T \in SUBSET S, T # {}, T \ {pick[T]} \in P PROVE T \in P
    <3>1. g[T] = v[pick[T]] + g[T \ {pick[T]}]
      BY <1>2, <1>9, <2>2 DEF SumsUp
    <3>2. pick[T] \in S /\ g[T \ {pick[T]}] \in Int
      BY <1>2, <2>2
    <3> QED BY <1>3, <3>1, <3>2
  <2> HIDE DEF P
  <2>3. \A T \in SUBSET S : T \in P
    BY <1>2, <1>3, <2>1, <2>2, TakenOneByOne
  <2>4. g = [T \in SUBSET S |-> g[T]]
    BY <1>8
  <2> QED BY <2>3, <2>4 DEF P
<1> QED BY <1>1, <1>9, <1>10 DEF g, S

\* Partial sums depend on nothing but the numbers in them.
LEMMA SumsAlike ==
  ASSUME NEW S, IsFiniteSet(S), NEW u, NEW v, NEW g, NEW h, NEW S1, NEW S2, S \subseteq S1, S \subseteq S2,
         SumsUp(g, u, S1), SumsUp(h, v, S2), \A x \in S : u[x] = v[x]
  PROVE  \A T \in SUBSET S : g[T] = h[T]
<1> DEFINE pick == AnyPick(S)
<1>2. pick \in Picks(S) /\ \A T \in SUBSET S : T # {} => pick[T] = (CHOOSE y \in T : TRUE) /\ pick[T] \in T
  BY AnyPicks DEF AnyPick
<1> DEFINE P == {T \in SUBSET S : g[T] = h[T]}
<1>3. {} \in P
  BY DEF SumsUp
<1> HIDE DEF pick
<1>4. ASSUME NEW T \in SUBSET S, T # {}, T \ {pick[T]} \in P PROVE T \in P
  <2>1. T \in SUBSET S1 /\ T \in SUBSET S2
    OBVIOUS
  <2>4. g[T] = u[CHOOSE y \in T : TRUE] + g[T \ {CHOOSE y \in T : TRUE}]
    BY ONLY <1>4, <2>1, SumsUp(g, u, S1) DEF SumsUp
  <2>5. h[T] = v[CHOOSE y \in T : TRUE] + h[T \ {CHOOSE y \in T : TRUE}]
    BY ONLY <1>4, <2>1, SumsUp(h, v, S2) DEF SumsUp
  <2>6. pick[T] = CHOOSE y \in T : TRUE
    BY <1>2, <1>4
  <2>2. g[T] = u[pick[T]] + g[T \ {pick[T]}] /\ h[T] = v[pick[T]] + h[T \ {pick[T]}]
    BY ONLY <2>4, <2>5, <2>6
  <2>3. u[pick[T]] = v[pick[T]]
    BY <1>2, <1>4
  <2> QED BY <1>4, <2>2, <2>3
<1> HIDE DEF P
<1>5. \A T \in SUBSET S : T \in P
  BY <1>2, <1>3, <1>4, TakenOneByOne
<1> QED BY <1>5 DEF P

\* Any of the numbers may be added last.
LEMMA AnyLast ==
  ASSUME NEW S, IsFiniteSet(S), NEW v, \A x \in S : v[x] \in Int,
         NEW g, SumsUp(g, v, S), \A T \in SUBSET S : g[T] \in Int
  PROVE  \A T \in SUBSET S : \A x \in T : g[T] = v[x] + g[T \ {x}]
<1> DEFINE P == {k \in Nat : \A T \in SUBSET S : Cardinality(T) <= k => \A x \in T : g[T] = v[x] + g[T \ {x}]}
<1>1. 0 \in P
  <2>1. ASSUME NEW T \in SUBSET S, Cardinality(T) <= 0 PROVE T = {}
    <3>1. IsFiniteSet(T) /\ Cardinality(T) \in Nat
      BY FS_Subset, FS_CardinalityType
    <3> QED BY <2>1, <3>1, FS_EmptySet
  <2> QED BY <2>1
<1>2. ASSUME NEW k \in P PROVE k + 1 \in P
  <2>1. ASSUME NEW T \in SUBSET S, Cardinality(T) <= k + 1, NEW x \in T PROVE g[T] = v[x] + g[T \ {x}]
    <3> DEFINE c == CHOOSE y \in T : TRUE
    <3>1. c \in T
      OBVIOUS
    <3>2. g[T] = v[c] + g[T \ {c}]
      BY DEF SumsUp
    <3> HIDE DEF c
    <3>3. CASE x = c
      BY <3>2, <3>3
    <3>4. CASE x # c
      <4>1. T \ {c} \in SUBSET S /\ T \ {x} \in SUBSET S /\ Cardinality(T \ {c}) <= k /\ Cardinality(T \ {x}) <= k
        BY <2>1, <3>1, OneLess
      <4>2. x \in T \ {c} /\ c \in T \ {x} /\ (T \ {c}) \ {x} = (T \ {x}) \ {c}
        BY <3>1, <3>4
      <4>3. g[T \ {c}] = v[x] + g[(T \ {c}) \ {x}] /\ g[T \ {x}] = v[c] + g[(T \ {x}) \ {c}]
        BY <4>1, <4>2
      <4>4. v[x] \in Int /\ v[c] \in Int /\ g[(T \ {c}) \ {x}] \in Int
        BY <3>1, <4>1
      <4>5. PICK r \in Int : r = g[(T \ {c}) \ {x}]
        BY <4>4
      <4>6. g[T \ {c}] = v[x] + r /\ g[T \ {x}] = v[c] + r
        BY <4>2, <4>3, <4>5
      <4>7. g[T] = v[c] + (v[x] + r) /\ v[x] + g[T \ {x}] = v[x] + (v[c] + r)
        BY ONLY <3>2, <4>6
      <4>8. v[c] + (v[x] + r) = v[x] + (v[c] + r)
        BY ONLY <4>4, <4>5
      <4> QED BY ONLY <4>7, <4>8
    <3> QED BY <3>3, <3>4
  <2> QED BY <2>1
<1>3. P \in SUBSET Nat
  OBVIOUS
<1> HIDE DEF P
<1>4. Cardinality(S) \in P
  BY <1>1, <1>2, <1>3, SizeInduction
<1>5. \A T \in SUBSET S : Cardinality(T) <= Cardinality(S)
  BY FS_Subset
<1> QED BY <1>4, <1>5 DEF P

\* The sum without one of the numbers.
Without(v, x) == [y \in DOMAIN v \ {x} |-> v[y]]

\* Nothing adds up to nothing.
LEMMA SumOfNone ==
  ASSUME NEW v, DOMAIN v = {}
  PROVE  SumFunction(v) = 0
<1>1. Numbers(v)
  BY FS_EmptySet DEF Numbers
<1>2. PICK g : SumsUp(g, v, DOMAIN v) /\ g[DOMAIN v] = SumFunction(v)
  BY <1>1, PartialSums
<1> QED BY <1>2 DEF SumsUp

\* A sum is one of its terms and the sum of the others.
LEMMA SumWithout ==
  ASSUME NEW v, Numbers(v), NEW x \in DOMAIN v
  PROVE  /\ SumFunction(v) = v[x] + SumFunction(Without(v, x))
         /\ Numbers(Without(v, x)) /\ SumFunction(v) \in Int /\ SumFunction(Without(v, x)) \in Int
<1> DEFINE w == Without(v, x)
<1> DEFINE S == DOMAIN v
<1>1. IsFiniteSet(S) /\ \A y \in S : v[y] \in Int
  BY DEF Numbers
<1>2. DOMAIN w = S \ {x} /\ \A y \in S \ {x} : w[y] = v[y]
  BY DEF Without
<1>3. IsFiniteSet(S \ {x})
  BY <1>1, FS_Subset
<1>4. Numbers(w)
  BY <1>1, <1>2, <1>3 DEF Numbers
<1> HIDE DEF w
<1>5. PICK g \in [SUBSET S -> Int] : SumsUp(g, v, S) /\ g[S] = SumFunction(v)
  BY PartialSums
<1>6. PICK h \in [SUBSET DOMAIN w -> Int] : SumsUp(h, w, DOMAIN w) /\ h[DOMAIN w] = SumFunction(w)
  BY <1>4, PartialSums
<1> HIDE DEF S
<1>7. g[S \ {x}] = h[S \ {x}]
  <2>1. S \ {x} \subseteq S /\ S \ {x} \subseteq DOMAIN w /\ \A y \in S \ {x} : v[y] = w[y]
    BY <1>2
  <2>2. \A T \in SUBSET (S \ {x}) : g[T] = h[T]
    BY <1>3, <1>5, <1>6, <2>1, SumsAlike
  <2> QED BY <2>2
<1>8. g[S] = v[x] + g[S \ {x}]
  <2>1. x \in S
    BY DEF S
  <2>2. \A T \in SUBSET S : g[T] \in Int
    BY <1>5
  <2> QED BY <1>1, <1>5, <2>1, <2>2, AnyLast
<1>9. g[S] \in Int /\ h[DOMAIN w] \in Int
  BY <1>5, <1>6
<1> QED BY <1>2, <1>4, <1>5, <1>6, <1>7, <1>8, <1>9 DEF w

-----------------------------------------------------------------------------
(* What a projection may show.                                             *)

\* A size: its stock is never below zero, and its version counts the events that
\* were applied to it.
IsItem(S, it) ==
  /\ DOMAIN it = {"version", "active", "onHand", "issued", "applied", "counted"}
  /\ it.onHand \in Nat /\ it.issued \in Nat
  /\ it.applied \in Seq(S) /\ it.version = Len(it.applied)
ItemsOK(S, items) == DOMAIN items = Item /\ \A i \in Item : IsItem(S, items[i])

\* What a cadet holds, named by an event and a line of it.
IsHeld(S, line) ==
  /\ DOMAIN line = {"id", "cadet", "item", "quantity"}
  /\ line.id[1] \in S /\ line.cadet \in Cadet /\ line.item \in Item /\ line.quantity \in Positive
HeldOK(S, held) ==
  /\ IsFiniteSet(held) /\ \A line \in held : IsHeld(S, line)
  /\ \A a \in held : \A b \in held : a.id = b.id => a = b

\* What a cadet still needs.
IsNeed(S, need) ==
  /\ DOMAIN need = {"id", "cadet", "item", "size", "needed", "fulfilled", "status", "source", "since",
                    "version", "applied"}
  /\ need.cadet \in Cadet /\ need.needed \in Positive /\ need.fulfilled \in 0 .. need.needed
  /\ need.version \in Nat /\ need.applied \in Seq(S) /\ need.since \in S /\ need.id[1] \in S
NeedsOK(S, needs) == IsFiniteSet(needs) /\ \A need \in needs : IsNeed(S, need)

\* The record of an issue or a return has the lines that were signed.
IsTransaction(l, S, n, t) ==
  /\ n \in S /\ l[n].type \in {"ITEM_ISSUED", "ITEM_RETURNED"}
  /\ DOMAIN t = {"cadet", "lines"} /\ t.cadet \in Cadet /\ DOMAIN t.lines = DOMAIN l[n].lines
  /\ \A k \in DOMAIN t.lines :
       /\ DOMAIN t.lines[k] = {"item", "quantity", "shelf"}
       /\ t.lines[k].item \in Item /\ t.lines[k].quantity \in Nat
       /\ l[n].type = "ITEM_RETURNED" => k[1] \in S
TransactionsOK(l, S, tr) == \A n \in DOMAIN tr : IsTransaction(l, S, n, tr[n])

IsConflict(S, x) == DOMAIN x = {"loser", "status", "by", "outcome"} /\ x.loser \in S
ConflictsOK(S, conflicts) == \A x \in conflicts : IsConflict(S, x)

\* A size stays well-formed next to more events.
LEMMA ItemStays ==
  ASSUME NEW S, NEW n, NEW it, IsItem(S, it)
  PROVE  IsItem(S \cup {n}, it)
BY SeqMonotonic DEF IsItem

\* Holdings stay well-formed next to more events.
LEMMA HeldStays ==
  ASSUME NEW S, NEW n, NEW held, HeldOK(S, held)
  PROVE  HeldOK(S \cup {n}, held)
BY DEF HeldOK, IsHeld

\* A need stays well-formed next to more events.
LEMMA NeedStays ==
  ASSUME NEW S, NEW n, NEW need, IsNeed(S, need)
  PROVE  IsNeed(S \cup {n}, need)
BY SeqMonotonic DEF IsNeed

\* All sizes stay well-formed next to more events.
LEMMA ItemsStay ==
  ASSUME NEW S, NEW n, NEW items, ItemsOK(S, items)
  PROVE  ItemsOK(S \cup {n}, items)
BY ItemStays DEF ItemsOK

\* All needs stay well-formed next to more events.
LEMMA NeedsStay ==
  ASSUME NEW S, NEW n, NEW needs, NeedsOK(S, needs)
  PROVE  NeedsOK(S \cup {n}, needs)
BY NeedStays DEF NeedsOK

\* Records of issues and returns stay well-formed next to more events.
LEMMA TransactionsStay ==
  ASSUME NEW l, NEW S, NEW n, NEW tr, TransactionsOK(l, S, tr)
  PROVE  TransactionsOK(l, S \cup {n}, tr)
BY DEF TransactionsOK, IsTransaction

\* Conflicts stay well-formed next to more events.
LEMMA ConflictsStay ==
  ASSUME NEW S, NEW n, NEW conflicts, ConflictsOK(S, conflicts)
  PROVE  ConflictsOK(S \cup {n}, conflicts)
BY DEF ConflictsOK, IsConflict

\* A size that is touched: one more event was applied to it.
Bumps(old, new, n) ==
  /\ DOMAIN new = DOMAIN old
  /\ new.version = old.version + 1 /\ new.applied = Append(old.applied, n)

\* A size that an event changed stays well-formed when its stock does.
LEMMA ItemBumped ==
  ASSUME NEW S, NEW old, IsItem(S, old), NEW n, NEW new, Bumps(old, new, n),
         new.onHand \in Nat, new.issued \in Nat
  PROVE  IsItem(S \cup {n}, new)
<1>1. PICK s \in Seq(S) : s = old.applied /\ old.version = Len(s)
  BY DEF IsItem
<1>2. Append(s, n) \in Seq(S \cup {n}) /\ Len(Append(s, n)) = Len(s) + 1
  BY <1>1, AppendedSet
<1> QED BY <1>1, <1>2 DEF Bumps, IsItem

\* An event leaves a size alone or is applied to it.
LeftOrBumped(items, items2, n, i) == items2[i] = items[i] \/ Bumps(items[i], items2[i], n)
ItemsStep(items, items2, n) == DOMAIN items2 = Item /\ \A i \in Item : LeftOrBumped(items, items2, n, i)

\* ... and its stock stays what a stock can be.
StockOK(items) == \A i \in Item : items[i].onHand \in Nat /\ items[i].issued \in Nat

\* All sizes stay well-formed when their stock does.
LEMMA ItemsStepped ==
  ASSUME NEW S, NEW items, ItemsOK(S, items), NEW n, NEW items2, ItemsStep(items, items2, n), StockOK(items2)
  PROVE  ItemsOK(S \cup {n}, items2)
<1>1. ASSUME NEW i \in Item PROVE IsItem(S \cup {n}, items2[i])
  <2>1. IsItem(S, items[i]) /\ items2[i].onHand \in Nat /\ items2[i].issued \in Nat
    BY DEF ItemsOK, StockOK
  <2>2. items2[i] = items[i] \/ Bumps(items[i], items2[i], n)
    BY DEF ItemsStep, LeftOrBumped
  <2> QED BY <2>1, <2>2, ItemStays, ItemBumped
<1> QED BY <1>1 DEF ItemsOK, ItemsStep

\* A move of stock that the shelf has changes a size by exactly what moved.
LEMMA MovedItem ==
  ASSUME NEW S, NEW it, IsItem(S, it), NEW n, NEW shelf \in Int, NEW issued \in Int,
         it.onHand + shelf >= 0, NEW new, new = Move(it, n, shelf, issued)
  PROVE  Bumps(it, new, n) /\ new.onHand = it.onHand + shelf /\ new.onHand \in Nat /\ new.issued \in Nat
         /\ new.counted = it.counted /\ new.active = it.active
         /\ (it.issued + issued >= 0 => new.issued = it.issued + issued)
<1>1. it.issued + issued \in Int /\ it.onHand \in Nat
  BY DEF IsItem
<1>2. PICK k \in Int : k = it.issued + issued
  BY <1>1
<1>3. Max({0, k}) \in Nat /\ (k >= 0 => Max({0, k}) = k)
  <2>1. CASE k >= 0
    <3>1. Max({0, k}) = k
      BY <2>1 DEF Max
    <3> QED BY <2>1, <3>1
  <2>2. CASE ~ k >= 0
    <3>1. Max({0, k}) = 0
      BY <2>2 DEF Max
    <3> QED BY <2>2, <3>1
  <2> QED BY <2>1, <2>2
<1> QED BY <1>1, <1>2, <1>3 DEF Move, Touch, IsItem, Bumps

\* A holding is put down, or replaced.
LEMMA HoldOK ==
  ASSUME NEW S, NEW p, Whole(p), HeldOK(S, p.held), NEW id, id[1] \in S, NEW cadet \in Cadet, NEW i \in Item,
         NEW quantity \in Int, quantity >= 0, NEW q, q = Hold(p, id, cadet, i, quantity)
  PROVE  HeldOK(S, q.held)
<1>1. PICK rest : rest = {line \in p.held : line.id # id}
  OBVIOUS
<1>2. rest \subseteq p.held /\ IsFiniteSet(rest) /\ HeldOK(S, rest)
  <2>1. rest \subseteq p.held
    BY <1>1
  <2>2. IsFiniteSet(rest)
    BY <2>1, FS_Subset DEF HeldOK
  <2> QED BY <2>1, <2>2 DEF HeldOK
<1>3. q.held = rest \cup (IF quantity > 0 THEN {[id |-> id, cadet |-> cadet, item |-> i, quantity |-> quantity]} ELSE {})
  BY <1>1, HoldKeeps
<1>4. CASE ~ quantity > 0
  <2>1. q.held = rest
    BY <1>3, <1>4
  <2> QED BY <1>2, <2>1
<1>5. CASE quantity > 0
  <2>1. PICK line : line = [id |-> id, cadet |-> cadet, item |-> i, quantity |-> quantity]
    OBVIOUS
  <2>2. q.held = rest \cup {line}
    BY <1>3, <1>5, <2>1
  <2>3. IsFiniteSet(rest \cup {line})
    BY <1>2, FS_AddElement
  <2>4. IsHeld(S, line)
    BY <1>5, <2>1 DEF IsHeld, Positive
  <2>5. \A a \in rest : a.id # line.id
    BY <1>1, <2>1
  <2> QED BY <1>2, <2>2, <2>3, <2>4, <2>5 DEF HeldOK
<1> QED BY <1>4, <1>5

\* A holding that is named is the one of that name.
LEMMA PropertyHeld ==
  ASSUME NEW S, NEW p, HeldOK(S, p.held), NEW id, Holds(p, id)
  PROVE  PropertyOf(p, id) \in p.held /\ PropertyOf(p, id).id = id /\ IsHeld(S, PropertyOf(p, id))
<1>1. PropertyOf(p, id) \in p.held /\ PropertyOf(p, id).id = id
  BY DEF Holds, PropertyOf
<1> QED BY <1>1 DEF HeldOK

\* A holding is the only one of its name.
LEMMA PropertyOnly ==
  ASSUME NEW S, NEW p, HeldOK(S, p.held), NEW line \in p.held
  PROVE  Holds(p, line.id) /\ PropertyOf(p, line.id) = line
<1>1. Holds(p, line.id)
  BY DEF Holds
<1> QED BY <1>1, PropertyHeld DEF HeldOK

\* Whoever holds some of a size holds it under the name that is asked for.
LEMMA HeldOfHeld ==
  ASSUME NEW S, NEW p, HeldOK(S, p.held), NEW id, NEW i, NEW quantity \in Positive, HeldOf(p, id, i) >= quantity
  PROVE  /\ Holds(p, id) /\ PropertyOf(p, id).item = i /\ IsHeld(S, PropertyOf(p, id))
         /\ PropertyOf(p, id).quantity >= quantity
<1>1. Holds(p, id) /\ PropertyOf(p, id).item = i
  BY DEF HeldOf, Positive
<1> QED BY <1>1, PropertyHeld DEF HeldOf

\* Nothing happens to the sizes.
LEMMA ItemsLeft ==
  ASSUME NEW S, NEW items, ItemsOK(S, items), NEW n
  PROVE  ItemsStep(items, items, n) /\ StockOK(items)
BY DEF ItemsOK, IsItem, ItemsStep, LeftOrBumped, StockOK

\* One size becomes another.
LEMMA OneItem ==
  ASSUME NEW S, NEW items, ItemsOK(S, items), NEW n, NEW i \in Item, NEW new,
         Bumps(items[i], new, n), new.onHand \in Nat, new.issued \in Nat,
         NEW items2, items2 = [items EXCEPT ![i] = new]
  PROVE  ItemsStep(items, items2, n) /\ StockOK(items2)
BY DEF ItemsOK, IsItem, ItemsStep, LeftOrBumped, StockOK

\* A receipt leaves stock that is no less than zero.
LEMMA ReceiveItems ==
  ASSUME NEW l, NEW S, NEW p, NEW n, Whole(p), ItemsOK(S, p.items), l[n].item \in Item, l[n].quantity \in Nat,
         NEW q, q = ReceiveStock(l, p, n)
  PROVE  ItemsStep(p.items, q.items, n) /\ StockOK(q.items)
<1> DEFINE i == l[n].item
<1>1. PICK it : it = p.items[i]
  OBVIOUS
<1>2. PICK new : new = Touch([it EXCEPT !.onHand = @ + l[n].quantity], n)
  OBVIOUS
<1>3. q.items = [p.items EXCEPT ![i] = new]
  BY <1>1, <1>2 DEF ReceiveStock, Whole
<1>4. IsItem(S, it)
  BY <1>1 DEF ItemsOK
<1>5. Bumps(it, new, n) /\ new.onHand \in Nat /\ new.issued \in Nat
  BY <1>2, <1>4 DEF IsItem, Touch, Bumps
<1> QED BY <1>1, <1>3, <1>5, OneItem

\* An edit of the catalogue leaves stock that is no less than zero.
LEMMA CatalogItems ==
  ASSUME NEW l, NEW S, NEW p, NEW n, Whole(p), ItemsOK(S, p.items), NEW q, q = UpdateCatalog(l, p, n)
  PROVE  ItemsStep(p.items, q.items, n) /\ StockOK(q.items)
<1>1. CASE q.items = p.items
  BY <1>1, ItemsLeft
<1>2. CASE q.items # p.items
  <2> DEFINE retired == "active" \in DOMAIN l[n].changes /\ ~ l[n].changes["active"]
  <2> DEFINE edited(item) == Touch([item EXCEPT !.active = @ /\ ~ retired], n)
  <2>1. q.items = [i \in Item |-> IF Known(p, i) THEN edited(p.items[i]) ELSE p.items[i]]
    BY <1>2 DEF UpdateCatalog, AddConflict, Whole
  <2>2. ASSUME NEW i \in Item
        PROVE  LeftOrBumped(p.items, q.items, n, i) /\ q.items[i].onHand \in Nat /\ q.items[i].issued \in Nat
    <3>1. IsItem(S, p.items[i])
      BY DEF ItemsOK
    <3>2. q.items[i] = p.items[i] \/ q.items[i] = edited(p.items[i])
      BY <2>1
    <3>3. PICK it, new : it = p.items[i] /\ new = edited(it)
      OBVIOUS
    <3>4. Bumps(it, new, n) /\ new.onHand \in Nat /\ new.issued \in Nat
      BY <3>1, <3>3 DEF IsItem, Touch, Bumps
    <3> HIDE DEF edited
    <3> QED BY <3>1, <3>2, <3>3, <3>4 DEF LeftOrBumped, IsItem
  <2>3. DOMAIN q.items = Item
    BY <2>1
  <2> QED BY <2>2, <2>3 DEF ItemsStep, StockOK
<1> QED BY <1>1, <1>2

\* New sizes leave stock that is no less than zero.
LEMMA SizesItems ==
  ASSUME NEW l, NEW S, NEW p, NEW n, Whole(p), ItemsOK(S, p.items), NEW q, q = AddSizes(l, p, n)
  PROVE  ItemsStep(p.items, q.items, n) /\ StockOK(q.items)
<1> DEFINE new == {i \in l[n].sizes : ~ \E j \in Item : Known(p, j) /\ Label[j] = Label[i]}
<1> DEFINE added == [Unknown EXCEPT !.version = 1, !.active = TRUE, !.applied = <<n>>]
<1>1. q.items = [i \in Item |-> IF i \in new THEN added ELSE p.items[i]]
  BY DEF AddSizes, Whole
<1>2. ASSUME NEW i \in Item
      PROVE  LeftOrBumped(p.items, q.items, n, i) /\ q.items[i].onHand \in Nat /\ q.items[i].issued \in Nat
  <2>1. PICK it : it = p.items[i]
    OBVIOUS
  <2>2. IsItem(S, it)
    BY <2>1 DEF ItemsOK
  <2>3. CASE i \notin new
    <3>1. q.items[i] = it
      BY <1>1, <2>1, <2>3
    <3> QED BY <2>1, <2>2, <3>1 DEF LeftOrBumped, IsItem
  <2>4. CASE i \in new
    <3>1. q.items[i] = added
      BY <1>1, <2>4
    <3>2. ~ Known(p, i)
      BY <2>4
    <3>3. ~ (it.version > 0) /\ it.version = Len(it.applied) /\ it.applied \in Seq(S)
      BY <2>1, <2>2, <3>2 DEF Known, IsItem
    <3>4. PICK s \in Seq(S) : s = it.applied /\ ~ (Len(s) > 0)
      BY <3>3
    <3>5. Len(s) = 0
      BY <3>4, LenProperties
    <3>6. s = << >>
      BY <3>5, EmptySeq
    <3>7. Append(s, n) = <<n>> /\ it.version = 0
      BY <3>3, <3>4, <3>5, <3>6
    <3>8. Bumps(it, added, n)
      BY <2>2, <3>4, <3>7 DEF Bumps, IsItem, Unknown
    <3>9. added.onHand = 0 /\ added.issued = 0
      BY DEF Unknown
    <3> QED BY <2>1, <3>1, <3>8, <3>9 DEF LeftOrBumped
  <2> QED BY <2>3, <2>4
<1>3. DOMAIN q.items = Item
  BY <1>1
<1> QED BY <1>2, <1>3 DEF ItemsStep, StockOK

\* An edit of a size leaves stock that is no less than zero.
LEMMA SizeItems ==
  ASSUME NEW l, NEW S, NEW p, NEW n, Whole(p), ItemsOK(S, p.items), l[n].item \in Item,
         NEW q, q = UpdateItem(l, p, n)
  PROVE  ItemsStep(p.items, q.items, n) /\ StockOK(q.items)
<1> DEFINE i == l[n].item
<1>1. PICK it, new : it = p.items[i] /\ new = Touch([it EXCEPT !.active = l[n].changes["active"]], n)
  OBVIOUS
<1>2. IsItem(S, it)
  BY <1>1 DEF ItemsOK
<1>3. Bumps(it, new, n) /\ new.onHand \in Nat /\ new.issued \in Nat
  BY <1>1, <1>2 DEF IsItem, Touch, Bumps
<1>4. q.items = p.items \/ q.items = [p.items EXCEPT ![i] = new]
  BY <1>1 DEF UpdateItem, AddConflict, Whole
<1> QED BY <1>1, <1>3, <1>4, ItemsLeft, OneItem

\* A function over finitely many arguments has finitely many values.
LEMMA FiniteImage ==
  ASSUME NEW f, IsFiniteSet(DOMAIN f)
  PROVE  IsFiniteSet({f[x] : x \in DOMAIN f})
<1> DEFINE S == DOMAIN f
<1> DEFINE T == {f[x] : x \in S}
<1>1. PICK g : g = [x \in S |-> f[x]]
  OBVIOUS
<1>2. g \in [S -> T] /\ \A t \in T : \E s \in S : g[s] = t
  BY <1>1
<1>3. g \in Surjection(S, T)
  BY <1>2 DEF Surjection
<1>4. \E h \in Surjection(S, T) : TRUE
  BY <1>3
<1> HIDE DEF S, T
<1>5. IsFiniteSet(S)
  BY DEF S
<1>6. IsFiniteSet(T)
  BY <1>3, <1>5, FS_Surjection
<1> QED BY <1>6 DEF S, T

\* The lesser of two numbers is one of them and exceeds neither.
LEMMA LesserOfTwo ==
  ASSUME NEW a \in Int, NEW b \in Int
  PROVE  Min({a, b}) \in Int /\ Min({a, b}) <= a /\ Min({a, b}) <= b /\ Min({a, b}) \in {a, b}
<1>1. CASE a <= b
  <2>1. Min({a, b}) = a
    BY <1>1 DEF Min
  <2> QED BY <1>1, <2>1
<1>2. CASE ~ a <= b
  <2>1. Min({a, b}) = b
    BY <1>2 DEF Min
  <2> QED BY <1>2, <2>1
<1> QED BY <1>1, <1>2

\* A sum of numbers is a number.
LEMMA SumType ==
  ASSUME NEW v, Numbers(v)
  PROVE  SumFunction(v) \in Int
<1>1. PICK g \in [SUBSET DOMAIN v -> Int] : g[DOMAIN v] = SumFunction(v)
  BY PartialSums
<1> QED BY <1>1

\* A sum of natural numbers is one.
LEMMA SumIsNatural ==
  ASSUME NEW v, Numbers(v), \A x \in DOMAIN v : v[x] >= 0
  PROVE  SumFunction(v) \in Nat
<1> DEFINE S == DOMAIN v
<1>1. PICK g \in [SUBSET S -> Int] : SumsUp(g, v, S) /\ g[S] = SumFunction(v)
  BY PartialSums
<1>2. IsFiniteSet(S) /\ \A x \in S : v[x] \in Int /\ v[x] >= 0
  BY DEF Numbers
<1> DEFINE pick == AnyPick(S)
<1>3. pick \in Picks(S) /\ \A T \in SUBSET S : T # {} => pick[T] = (CHOOSE y \in T : TRUE) /\ pick[T] \in T
  BY AnyPicks DEF AnyPick
<1> DEFINE P == {T \in SUBSET S : g[T] \in Nat}
<1>4. {} \in P
  BY <1>1 DEF SumsUp
<1> HIDE DEF S, pick
<1>5. ASSUME NEW T \in SUBSET S, T # {}, T \ {pick[T]} \in P PROVE T \in P
  <2>1. g[T] = v[pick[T]] + g[T \ {pick[T]}]
    <3>1. g[T] = v[CHOOSE y \in T : TRUE] + g[T \ {CHOOSE y \in T : TRUE}]
      BY <1>1, <1>5 DEF SumsUp
    <3>2. pick[T] = CHOOSE y \in T : TRUE
      BY <1>3, <1>5
    <3> QED BY ONLY <3>1, <3>2
  <2>2. pick[T] \in S /\ g[T \ {pick[T]}] \in Nat
    BY <1>3, <1>5
  <2>3. v[pick[T]] \in Int /\ v[pick[T]] >= 0
    BY <1>2, <2>2
  <2>4. g[T] \in Nat
    BY <2>1, <2>2, <2>3
  <2> QED BY <2>4
<1> HIDE DEF P
<1>6. S \in P
  BY <1>2, <1>3, <1>4, <1>5, TakenOneByOne
<1> QED BY <1>1, <1>6 DEF P

-----------------------------------------------------------------------------
(* Needs that an issue serves.                                             *)

\* What is left for a need is a number.
LEMMA LeftIsNumber ==
  ASSUME NEW S, NEW queue, NeedsOK(S, queue), NEW need, NEW i, NEW quantity \in Int, NEW named
  PROVE  Left(queue, need, i, quantity, named) \in Int
<1> DEFINE B == {b \in queue : Sooner(b, need, i, named)}
<1> DEFINE v == [b \in B |-> Remaining(b)]
<1>1. IsFiniteSet(B)
  BY FS_Subset DEF NeedsOK
<1>2. \A b \in B : Remaining(b) \in Int
  <2>1. \A b \in B : IsNeed(S, b)
    BY DEF NeedsOK
  <2> QED BY <2>1 DEF IsNeed, Positive, Remaining
<1> HIDE DEF B
<1>3. Numbers(v)
  BY <1>1, <1>2 DEF Numbers
<1> HIDE DEF v
<1>4. SumFunction(v) \in Int
  BY <1>3, SumType
<1>5. Left(queue, need, i, quantity, named) = quantity - SumFunction(v)
  BY DEF Left, v, B
<1> QED BY <1>4, <1>5

\* A need that is served no more than it still needs stays well-formed.
LEMMA FulfilledNeed ==
  ASSUME NEW S, NEW need, IsNeed(S, need), NEW n \in S, NEW used \in Int, used <= Remaining(need)
  PROVE  IsNeed(S, Fulfil(need, used, n))
<1>1. CASE used <= 0
  BY <1>1 DEF Fulfil
<1>2. CASE ~ used <= 0
  <2>1. PICK s \in Seq(S) : s = need.applied
    BY DEF IsNeed
  <2>2. PICK t : t = IF n \in ToSet(s) THEN s ELSE Append(s, n)
    OBVIOUS
  <2>3. t \in Seq(S)
    BY <2>1, <2>2, AppendProperties
  <2>4. PICK new : new = Fulfil(need, used, n)
    OBVIOUS
  <2>5. /\ DOMAIN new = DOMAIN need /\ new.cadet = need.cadet /\ new.needed = need.needed
        /\ new.fulfilled = need.fulfilled + used /\ new.applied = t /\ new.since = need.since
        /\ new.id = need.id /\ new.version = need.version + (IF n \in ToSet(s) THEN 0 ELSE 1)
    BY <1>2, <2>1, <2>2, <2>4 DEF Fulfil, IsNeed
  <2>6. new.fulfilled \in 0 .. new.needed /\ new.version \in Nat
    BY <1>2, <2>5 DEF IsNeed, Positive, Remaining
  <2> QED BY <2>3, <2>4, <2>5, <2>6 DEF IsNeed
<1> QED BY <1>1, <1>2

\* Needs that an issue serves stay well-formed.
LEMMA FulfilledNeeds ==
  ASSUME NEW S, NEW needs, NeedsOK(S, needs), NEW queue \in SUBSET needs, NEW n \in S,
         NEW i, NEW quantity \in Int, NEW named
  PROVE  NeedsOK(S, FulfilNeeds(needs, queue, n, i, quantity, named))
<1> DEFINE used(need) == Min({Remaining(need), Left(queue, need, i, quantity, named)})
<1> DEFINE f == [need \in queue |-> Fulfil(need, used(need), n)]
<1>1. IsFiniteSet(queue) /\ NeedsOK(S, queue)
  BY FS_Subset DEF NeedsOK
<1>2. ASSUME NEW need \in queue PROVE IsNeed(S, f[need])
  <2>1. IsNeed(S, need)
    BY <1>1 DEF NeedsOK
  <2>2. Remaining(need) \in Int
    BY <2>1 DEF IsNeed, Positive, Remaining
  <2>3. Left(queue, need, i, quantity, named) \in Int
    BY <1>1, LeftIsNumber
  <2>4. PICK u : u = used(need)
    OBVIOUS
  <2>5. u \in Int /\ u <= Remaining(need)
    BY <2>2, <2>3, <2>4, LesserOfTwo
  <2>6. IsNeed(S, Fulfil(need, u, n))
    BY <2>1, <2>5, FulfilledNeed
  <2> QED BY <2>4, <2>6
<1>3. PICK g : g = f
  OBVIOUS
<1>4. DOMAIN g = queue /\ \A need \in queue : IsNeed(S, g[need])
  BY <1>2, <1>3
<1>5. IsFiniteSet({g[need] : need \in queue})
  BY <1>1, <1>4, FiniteImage
<1>6. FulfilNeeds(needs, queue, n, i, quantity, named) = (needs \ queue) \cup {g[need] : need \in queue}
  BY <1>3 DEF FulfilNeeds
<1>7. IsFiniteSet(needs \ queue) /\ \A need \in needs \ queue : IsNeed(S, need)
  BY FS_Subset DEF NeedsOK
<1>8. IsFiniteSet((needs \ queue) \cup {g[need] : need \in queue})
  BY <1>5, <1>7, FS_Union
<1> QED BY <1>4, <1>6, <1>7, <1>8 DEF NeedsOK

\* What could not be issued.
LEMMA MadeNeed ==
  ASSUME NEW S, NEW n \in S, NEW line, NEW c \in Cadet, NEW i, NEW size, NEW quantity \in Positive,
         NEW source, NEW since \in S
  PROVE  IsNeed(S, NewNeed(n, line, c, i, size, quantity, source, since))
BY DEF NewNeed, IsNeed, Positive

\* A well-formed need may replace others.
LEMMA NeedAdded ==
  ASSUME NEW S, NEW needs, NeedsOK(S, needs), NEW need, IsNeed(S, need), NEW old
  PROVE  NeedsOK(S, (needs \ old) \cup {need})
<1>1. IsFiniteSet(needs \ old)
  BY FS_Subset DEF NeedsOK
<1>2. IsFiniteSet((needs \ old) \cup {need})
  BY <1>1, FS_AddElement
<1> QED BY <1>2 DEF NeedsOK

\* What an issue missed leaves well-formed needs.
LEMMA MissedNeed ==
  ASSUME NEW S, S \subseteq Nat, NEW p, Whole(p), NeedsOK(S, p.needs), NEW n \in S, NEW c \in Cadet,
         NEW m, m.quantity \in Positive, NEW q, q = AddMissing(p, n, c, m)
  PROVE  NeedsOK(S, q.needs)
<1> DEFINE same == {need \in p.needs : SameMissing(need, c, m)}
<1>1. CASE same = {}
  <2>1. PICK need : need = NewNeed(n, m.line, c, m.item, m.size, m.quantity, "INCOMPLETE_ISSUE", n)
    OBVIOUS
  <2>2. IsNeed(S, need)
    BY <2>1, MadeNeed
  <2>3. q.needs = (p.needs \ {}) \cup {need}
    BY <1>1, <2>1 DEF AddMissing, Whole
  <2>4. NeedsOK(S, (p.needs \ {}) \cup {need})
    BY ONLY NeedsOK(S, p.needs), <2>2, NeedAdded
  <2> QED BY ONLY <2>3, <2>4
<1>2. CASE same # {}
  <2> DEFINE need == CHOOSE need \in same : \A b \in same : need.since <= b.since
  <2>1. need \in same
    <3>1. \A b \in same : b.since \in Nat
      BY DEF NeedsOK, IsNeed
    <3>2. {b.since : b \in same} \subseteq Nat /\ {b.since : b \in same} # {}
      BY <1>2, <3>1
    <3>3. PICK k \in {b.since : b \in same} : \A j \in {b.since : b \in same} : k <= j
      BY <3>2, LeastNumber
    <3>4. PICK a \in same : k = a.since
      OBVIOUS
    <3>5. \A b \in same : a.since <= b.since
      BY <3>3, <3>4
    <3> QED BY <3>5
  <2>2. PICK old : old = need
    OBVIOUS
  <2>3. IsNeed(S, old)
    BY <2>1, <2>2 DEF NeedsOK
  <2>4. PICK new : new = Touch([old EXCEPT !.needed = @ + m.quantity], n)
    OBVIOUS
  <2>5. q.needs = (p.needs \ {old}) \cup {new}
    BY <1>2, <2>2, <2>4 DEF AddMissing, Whole
  <2>6. /\ DOMAIN new = DOMAIN old /\ new.cadet = old.cadet /\ new.needed = old.needed + m.quantity
        /\ new.fulfilled = old.fulfilled /\ new.version = old.version + 1
        /\ new.applied = Append(old.applied, n) /\ new.since = old.since /\ new.id = old.id
    BY <2>3, <2>4 DEF Touch, IsNeed
  <2>7. new.needed \in Positive /\ new.fulfilled \in 0 .. new.needed /\ new.version \in Nat
    BY <2>3, <2>6 DEF IsNeed, Positive
  <2>8. new.applied \in Seq(S)
    BY <2>3, <2>6, AppendProperties DEF IsNeed
  <2>9. IsNeed(S, new)
    BY <2>3, <2>6, <2>7, <2>8 DEF IsNeed
  <2>10. NeedsOK(S, (p.needs \ {old}) \cup {new})
    BY ONLY NeedsOK(S, p.needs), <2>9, NeedAdded
  <2> QED BY ONLY <2>5, <2>10
<1> QED BY <1>1, <1>2

-----------------------------------------------------------------------------
(* An issue.                                                               *)

\* Line by line: the sizes of the lines taken so far were touched.
IssuedSoFar(S, e, n, p, q, T) ==
  /\ KeptByLines(p, q) /\ HeldOK(S, q.held) /\ NeedsOK(S, q.needs) /\ DOMAIN q.items = Item
  /\ \A i \in Item :
       IF i \in T THEN /\ Bumps(p.items[i], q.items[i], n)
                       /\ q.items[i].onHand = p.items[i].onHand - e.lines[i] /\ q.items[i].onHand \in Nat
                       /\ q.items[i].issued \in Nat
       ELSE q.items[i] = p.items[i]

\* What an issue asks of the projection: its cadet, its lines, and that they are there.
CanIssue(e, p) ==
  /\ e.cadet \in Cadet /\ DOMAIN e.lines \subseteq Item /\ IsFiniteSet(DOMAIN e.lines)
  /\ \A i \in DOMAIN e.lines : e.lines[i] \in Positive /\ p.items[i].onHand >= e.lines[i]

\* One line more leaves the stock that the lines so far left, less its own.
LEMMA OneMoreIssued ==
  ASSUME NEW S0, NEW S, NEW n, S = S0 \cup {n}, NEW e, NEW p, Whole(p), ItemsOK(S0, p.items),
         CanIssue(e, p), NEW T, NEW i \in DOMAIN e.lines, i \notin T,
         NEW a, IssuedSoFar(S, e, n, p, a, T), NEW q, q = IssueLine(e, a, n, i)
  PROVE  IssuedSoFar(S, e, n, p, q, T \cup {i})
<1>0. Whole(a) /\ KeptByLines(p, a) /\ HeldOK(S, a.held) /\ NeedsOK(S, a.needs) /\ n \in S /\ i \in Item
  BY KeptWhole DEF IssuedSoFar, CanIssue
<1>1. KeptByLines(a, q)
  BY <1>0, IssueLineKeeps
<1>2. KeptByLines(p, q)
  BY <1>0, <1>1, KeptOnward
<1>3. PICK k : k = e.lines[i]
  OBVIOUS
<1>4. k \in Positive /\ k \in Int /\ -k \in Int /\ k >= 0 /\ e.cadet \in Cadet /\ p.items[i].onHand >= k
  BY <1>3 DEF CanIssue, Positive
<1>5. PICK h : h = Hold(a, <<n, i>>, e.cadet, i, k)
  OBVIOUS
<1>6. PICK it : it = p.items[i]
  OBVIOUS
<1>7. a.items[i] = it /\ DOMAIN a.items = Item /\ IsItem(S0, it)
  BY <1>0, <1>6 DEF IssuedSoFar, ItemsOK
<1>8. PICK new : new = Move(it, n, -k, k)
  OBVIOUS
<1>9. q.items = [a.items EXCEPT ![i] = new] /\ q.held = h.held
      /\ q.needs = FulfilNeeds(a.needs, Candidates(a.needs, e.cadet, i, e.named[i]), n, i, k, e.named[i])
  BY <1>0, <1>3, <1>5, <1>7, <1>8, HoldKeeps DEF IssueLine, Hold, Whole
<1>10. HeldOK(S, q.held)
  <2>1. <<n, i>>[1] \in S
    BY <1>0
  <2>2. HeldOK(S, h.held)
    BY <1>0, <1>4, <1>5, <2>1, HoldOK
  <2> QED BY <1>9, <2>2
<1>11. NeedsOK(S, q.needs)
  <2>1. Candidates(a.needs, e.cadet, i, e.named[i]) \in SUBSET a.needs
    BY DEF Candidates
  <2>2. NeedsOK(S, FulfilNeeds(a.needs, Candidates(a.needs, e.cadet, i, e.named[i]), n, i, k, e.named[i]))
    BY ONLY <1>0, <1>4, <2>1, FulfilledNeeds
  <2> QED BY ONLY <1>9, <2>2
<1>12. Bumps(it, new, n) /\ new.onHand = it.onHand - k /\ new.onHand \in Nat /\ new.issued \in Nat
  <2>1. it.onHand + (-k) >= 0 /\ it.onHand + (-k) = it.onHand - k
    BY <1>4, <1>6, <1>7 DEF IsItem
  <2> QED BY <1>4, <1>7, <1>8, <2>1, MovedItem
<1>13. ASSUME NEW j \in Item
       PROVE  IF j \in T \cup {i} THEN /\ Bumps(p.items[j], q.items[j], n)
                       /\ q.items[j].onHand = p.items[j].onHand - e.lines[j] /\ q.items[j].onHand \in Nat
                       /\ q.items[j].issued \in Nat
              ELSE q.items[j] = p.items[j]
  <2>1. CASE j = i
    <3>1. q.items[j] = new /\ p.items[j] = it /\ e.lines[j] = k
      BY <1>0, <1>3, <1>6, <1>7, <1>9, <2>1
    <3> QED BY <1>12, <2>1, <3>1
  <2>2. CASE j # i
    <3>1. q.items[j] = a.items[j]
      BY <1>7, <1>9, <2>2
    <3> QED BY <2>2, <3>1 DEF IssuedSoFar
  <2> QED BY <2>1, <2>2
<1>14. DOMAIN q.items = Item
  BY <1>7, <1>9
<1> HIDE DEF Bumps
<1> QED BY <1>2, <1>10, <1>11, <1>13, <1>14 DEF IssuedSoFar

\* All lines of an issue that the shelf has leave stock, holdings and needs well-formed.
LEMMA AllIssued ==
  ASSUME NEW S0, S0 \subseteq Nat, NEW S, NEW n \in Nat, S = S0 \cup {n}, NEW e, NEW p, Whole(p),
         ItemsOK(S0, p.items), HeldOK(S0, p.held), NeedsOK(S0, p.needs), CanIssue(e, p)
  PROVE  IssuedSoFar(S, e, n, p, IssueLines(e, p, n), DOMAIN e.lines)
<1> DEFINE D == DOMAIN e.lines
<1> DEFINE pick == MaxPick(D)
<1>0. IsFiniteSet(D) /\ D \subseteq Nat
  BY SupplyAssumption DEF CanIssue
<1>1. PICK f : Takes(f, "ISSUED", e, n, p, D, pick) /\ f[D] = IssueLines(e, p, n)
  BY <1>0, IssueTakes
<1> DEFINE P == {T \in SUBSET D : IssuedSoFar(S, e, n, p, f[T], T)}
<1>2. pick \in Picks(D)
  BY <1>0, MaxPicks
<1> HIDE DEF pick
<1>3. {} \in P
  <2>1. f[{}] = p
    BY <1>1 DEF Takes
  <2>2. KeptByLines(p, p) /\ DOMAIN p.items = Item
    BY DEF Kept, KeptByLines, ItemsOK
  <2>3. HeldOK(S, p.held) /\ NeedsOK(S, p.needs)
    BY HeldStays, NeedsStay
  <2>4. IssuedSoFar(S, e, n, p, p, {})
    BY <2>2, <2>3 DEF IssuedSoFar
  <2> QED BY <2>1, <2>4
<1> HIDE DEF D
<1>4. ASSUME NEW T \in SUBSET D, T # {}, T \ {pick[T]} \in P PROVE T \in P
  <2>1. pick[T] \in T
    BY <1>2, <1>4 DEF Picks
  <2>2. PICK i : i = pick[T]
    OBVIOUS
  <2>3. f[T] = IssueLine(e, f[T \ {i}], n, i)
    BY <1>1, <1>4, <2>2 DEF Takes, Take
  <2>4. IssuedSoFar(S, e, n, p, f[T \ {i}], T \ {i})
    BY <1>4, <2>2
  <2>5. i \in DOMAIN e.lines /\ i \notin T \ {i} /\ (T \ {i}) \cup {i} = T
    BY <2>1, <2>2 DEF D
  <2>6. IssuedSoFar(S, e, n, p, f[T], (T \ {i}) \cup {i})
    BY <2>3, <2>4, <2>5, OneMoreIssued
  <2> QED BY <2>5, <2>6
<1> HIDE DEF P
<1>5. D \in P
  BY <1>0, <1>2, <1>3, <1>4, TakenOneByOne
<1> QED BY <1>1, <1>5 DEF P, D

\* All lines that were missed leave well-formed needs.
LEMMA AllMissed ==
  ASSUME NEW S, S \subseteq Nat, NEW n \in S, NEW e, e.cadet \in Cadet, IsFiniteSet(e.missing),
         \A m \in e.missing : m.quantity \in Positive,
         NEW p, Whole(p), NeedsOK(S, p.needs)
  PROVE  NeedsOK(S, AddAllMissing(e, p, n).needs)
<1> DEFINE D == e.missing
<1> DEFINE pick == AnyPick(D)
<1>1. PICK f : Takes(f, "MISSED", e, n, p, D, pick) /\ f[D] = AddAllMissing(e, p, n)
  BY MissedTakes
<1> DEFINE P == {T \in SUBSET D : Whole(f[T]) /\ NeedsOK(S, f[T].needs)}
<1>2. pick \in Picks(D)
  BY AnyPicks
<1> HIDE DEF pick
<1>3. {} \in P
  BY <1>1 DEF Takes
<1>4. ASSUME NEW T \in SUBSET D, T # {}, T \ {pick[T]} \in P PROVE T \in P
  <2>1. pick[T] \in T
    BY <1>2, <1>4 DEF Picks
  <2>2. PICK m : m = pick[T]
    OBVIOUS
  <2>3. PICK a : a = f[T \ {m}]
    OBVIOUS
  <2>4. f[T] = AddMissing(a, n, e.cadet, m)
    BY <1>1, <1>4, <2>2, <2>3 DEF Takes, Take
  <2>5. Whole(a) /\ NeedsOK(S, a.needs) /\ m.quantity \in Positive
    BY <1>4, <2>1, <2>2, <2>3
  <2>6. NeedsOK(S, f[T].needs)
    BY <2>4, <2>5, MissedNeed
  <2>7. Whole(f[T])
    BY <2>4, <2>5, MissedKeeps, KeptWhole
  <2> QED BY <2>6, <2>7
<1>5. IsFiniteSet(D)
  OBVIOUS
<1> HIDE DEF P, D
<1>6. D \in P
  BY <1>2, <1>3, <1>4, <1>5, TakenOneByOne
<1> QED BY <1>1, <1>6 DEF P

\* What a command signed into an issue.
LEMMA IssueCommand ==
  ASSUME NEW e, IsCommand(e), e.type = "ITEM_ISSUED"
  PROVE  /\ e.cadet \in Cadet /\ DOMAIN e.lines \subseteq Item /\ IsFiniteSet(DOMAIN e.lines)
         /\ \A i \in DOMAIN e.lines : e.lines[i] \in Positive
         /\ IsFiniteSet(e.missing) /\ \A m \in e.missing : m.quantity \in Positive
<1>1. e.cadet \in Cadet /\ DOMAIN e.lines \subseteq Item /\ IsFiniteSet(DOMAIN e.lines)
  BY DEF IsCommand
<1>2. \A i \in DOMAIN e.lines : e.lines[i] \in Positive
  BY DEF IsCommand
<1>3. IsFiniteSet(e.missing)
  BY DEF IsCommand
<1>4. \A m \in e.missing : m.quantity \in Positive
  BY DEF IsCommand
<1> QED BY <1>1, <1>2, <1>3, <1>4

\* The effect of an issue on what it touches.
LEMMA IssueOK ==
  ASSUME NEW l, NEW S0, S0 \subseteq Nat, NEW S, NEW n \in Nat, S = S0 \cup {n}, NEW p, Whole(p),
         ItemsOK(S0, p.items), HeldOK(S0, p.held), NeedsOK(S0, p.needs), TransactionsOK(l, S0, p.transactions),
         IsCommand(l[n]), l[n].type = "ITEM_ISSUED", NEW q, q = IssueTransaction(l, p, n)
  PROVE  /\ ItemsStep(p.items, q.items, n) /\ StockOK(q.items) /\ HeldOK(S, q.held) /\ NeedsOK(S, q.needs)
         /\ TransactionsOK(l, S, q.transactions)
<1> DEFINE e == l[n]
<1>1. /\ e.cadet \in Cadet /\ DOMAIN e.lines \subseteq Item /\ IsFiniteSet(DOMAIN e.lines)
      /\ \A i \in DOMAIN e.lines : e.lines[i] \in Positive
      /\ IsFiniteSet(e.missing) /\ \A m \in e.missing : m.quantity \in Positive
  BY IssueCommand
<1>2. HeldOK(S, p.held) /\ NeedsOK(S, p.needs) /\ TransactionsOK(l, S, p.transactions) /\ S \subseteq Nat /\ n \in S
  BY HeldStays, NeedsStay, TransactionsStay
<1>3. CASE q = AddConflict(p, n)
  <2>1. q.items = p.items /\ q.held = p.held /\ q.needs = p.needs /\ q.transactions = p.transactions
    BY <1>3 DEF AddConflict, Whole
  <2> QED BY <1>2, <2>1, ItemsLeft
<1>4. CASE q # AddConflict(p, n)
  <2>1. Contested(p, e) = {}
    BY <1>4 DEF IssueTransaction
  <2>2. \A i \in DOMAIN e.lines : p.items[i].onHand >= e.lines[i]
    <3>1. ASSUME NEW i \in DOMAIN e.lines PROVE p.items[i].onHand >= e.lines[i]
      <4>1. ~ (p.items[i].onHand < e.lines[i])
        BY <2>1 DEF Contested
      <4>2. p.items[i].onHand \in Nat /\ e.lines[i] \in Nat
        BY <1>1 DEF ItemsOK, IsItem, Positive
      <4> QED BY <4>1, <4>2
    <3> QED BY <3>1
  <2>3. CanIssue(e, p)
    BY <1>1, <2>2 DEF CanIssue
  <2>4. PICK a : a = IssueLines(e, p, n)
    OBVIOUS
  <2>5. IssuedSoFar(S, e, n, p, a, DOMAIN e.lines)
    BY <2>3, <2>4, AllIssued
  <2>6. KeptByLines(p, a) /\ HeldOK(S, a.held) /\ NeedsOK(S, a.needs) /\ Whole(a)
    BY <2>5, KeptWhole DEF IssuedSoFar
  <2>7. PICK b : b = AddAllMissing(e, a, n)
    OBVIOUS
  <2>8. KeptByLines(a, b) /\ b.items = a.items /\ b.held = a.held /\ NeedsOK(S, b.needs)
    <3>1. KeptByLines(a, b) /\ b.items = a.items /\ b.held = a.held
      BY <1>1, <2>6, <2>7, AllMissingKeep
    <3>2. e.cadet \in Cadet /\ IsFiniteSet(e.missing) /\ (\A m \in e.missing : m.quantity \in Positive)
          /\ S \subseteq Nat /\ n \in S /\ Whole(a) /\ NeedsOK(S, a.needs)
      BY <1>1, <1>2, <2>6
    <3>3. NeedsOK(S, AddAllMissing(e, a, n).needs)
      BY ONLY <3>2, AllMissed
    <3> QED BY ONLY <2>7, <3>1, <3>3
  <2>9. Whole(b) /\ b.transactions = p.transactions
    BY <2>6, <2>8, KeptWhole DEF KeptByLines
  <2> DEFINE t == [cadet |-> e.cadet, lines |->
                    [i \in DOMAIN e.lines |-> [item |-> i, quantity |-> e.lines[i], shelf |-> TRUE]]]
  <2>10. /\ q.items = b.items /\ q.held = b.held /\ q.needs = b.needs
         /\ q.transactions = Joined(b.transactions, n, t)
    BY <1>4, <2>4, <2>7, <2>9 DEF IssueTransaction, Whole
  <2>11. IsTransaction(l, S, n, t)
    BY <1>1, <1>2 DEF IsTransaction, Positive
  <2> HIDE DEF t
  <2>12. TransactionsOK(l, S, q.transactions)
    BY <1>2, <2>9, <2>10, <2>11 DEF TransactionsOK, Joined
  <2>13. ItemsStep(p.items, q.items, n) /\ StockOK(q.items)
    <3>1. \A i \in Item : LeftOrBumped(p.items, a.items, n, i)
      BY <2>5 DEF IssuedSoFar, LeftOrBumped
    <3>2. StockOK(a.items)
      BY <2>5 DEF IssuedSoFar, StockOK, ItemsOK, IsItem
    <3> QED BY <2>5, <2>8, <2>10, <3>1, <3>2 DEF ItemsStep, IssuedSoFar
  <2> QED BY <2>6, <2>8, <2>10, <2>12, <2>13
<1> QED BY <1>3, <1>4

-----------------------------------------------------------------------------
(* A return.                                                               *)

\* Line by line: holdings of lines that were not taken yet are what they were.
ReturnedSoFar(S, e, n, p, q, T) ==
  /\ KeptByLines(p, q) /\ HeldOK(S, q.held) /\ ItemsStep(p.items, q.items, n) /\ StockOK(q.items)
  /\ \A line \in p.held : line.id \notin T => line \in q.held

\* What a return asks of the projection.
CanReturn(e, p) ==
  /\ e.cadet \in Cadet /\ IsFiniteSet(DOMAIN e.lines)
  /\ \A id \in DOMAIN e.lines :
       /\ e.lines[id].item \in Item /\ e.lines[id].quantity \in Positive
       /\ Holds(p, id) /\ PropertyOf(p, id).quantity >= e.lines[id].quantity

\* What a line of a return makes of its size.
TakenBack(a, n, shelf, k) ==
  LET moved == [a EXCEPT !.onHand = @ + shelf, !.issued = Max({0, @ - k})] IN
  IF n \in ToSet(a.applied) THEN moved ELSE Touch(moved, n)

\* A size that a line of a return moves: it is touched once by the event.
LEMMA ReturnedItem ==
  ASSUME NEW S0, NEW n, n \notin S0, NEW it, IsItem(S0, it), NEW a, a = it \/ Bumps(it, a, n),
         a.onHand \in Nat, a.issued \in Nat, NEW shelf \in Nat, NEW k \in Nat,
         NEW new, new = TakenBack(a, n, shelf, k)
  PROVE  /\ Bumps(it, new, n) /\ new.onHand = a.onHand + shelf /\ new.onHand \in Nat /\ new.issued \in Nat
         /\ (a.issued - k >= 0 => new.issued = a.issued - k) /\ new.counted = a.counted
<1>0. PICK moved : moved = [a EXCEPT !.onHand = @ + shelf, !.issued = Max({0, @ - k})]
  OBVIOUS
<1>1. PICK s \in Seq(S0) : s = it.applied
  BY DEF IsItem
<1>2. ToSet(Append(s, n)) = ToSet(s) \cup {n} /\ ToSet(s) \subseteq S0
  BY <1>1, AppendedSet
<1>3. DOMAIN a = {"version", "active", "onHand", "issued", "applied", "counted"}
  BY DEF IsItem, Bumps
<1>4. PICK j \in Int : j = a.issued - k
  OBVIOUS
<1>5. Max({0, j}) \in Nat /\ (j >= 0 => Max({0, j}) = j)
  <2>1. CASE j >= 0
    <3>1. Max({0, j}) = j
      BY <2>1 DEF Max
    <3> QED BY <2>1, <3>1
  <2>2. CASE ~ j >= 0
    <3>1. Max({0, j}) = 0
      BY <2>2 DEF Max
    <3> QED BY <2>2, <3>1
  <2> QED BY <2>1, <2>2
<1>6. /\ DOMAIN moved = DOMAIN a /\ moved.version = a.version /\ moved.applied = a.applied
      /\ moved.onHand = a.onHand + shelf /\ moved.issued = Max({0, j}) /\ moved.counted = a.counted
  BY <1>0, <1>3, <1>4
<1>7. CASE a = it
  <2>1. n \notin ToSet(a.applied)
    BY <1>1, <1>2, <1>7
  <2>2. new = Touch(moved, n)
    BY <1>0, <2>1 DEF TakenBack
  <2>3. /\ DOMAIN new = DOMAIN a /\ new.version = a.version + 1 /\ new.applied = Append(a.applied, n)
        /\ new.onHand = moved.onHand /\ new.issued = moved.issued /\ new.counted = moved.counted
    BY <1>3, <1>6, <2>2 DEF Touch
  <2> QED BY <1>4, <1>5, <1>6, <1>7, <2>3 DEF Bumps
<1>8. CASE Bumps(it, a, n)
  <2>1. a.applied = Append(s, n)
    BY <1>1, <1>8 DEF Bumps
  <2>2. new = moved
    BY <1>0, <1>2, <2>1 DEF TakenBack
  <2>3. Bumps(it, new, n)
    BY <1>6, <1>8, <2>2 DEF Bumps
  <2> QED BY <1>4, <1>5, <1>6, <2>2, <2>3
<1> QED BY <1>7, <1>8

\* One line more leaves what the lines so far left, and its own units moved.
LEMMA OneMoreReturned ==
  ASSUME NEW S0, NEW S, NEW n, n \notin S0, S = S0 \cup {n}, NEW e, NEW p, Whole(p), ItemsOK(S0, p.items),
         HeldOK(S0, p.held), CanReturn(e, p), NEW T, NEW id \in DOMAIN e.lines, id \notin T,
         NEW a, ReturnedSoFar(S, e, n, p, a, T), NEW q, q = ReturnLine(e, a, n, id)
  PROVE  ReturnedSoFar(S, e, n, p, q, T \cup {id})
<1>0. Whole(a) /\ KeptByLines(p, a) /\ HeldOK(S, a.held) /\ DOMAIN a.items = Item
  BY KeptWhole DEF ReturnedSoFar, ItemsStep
<1>1. KeptByLines(a, q)
  BY <1>0, ReturnLineKeeps
<1>2. KeptByLines(p, q)
  BY <1>0, <1>1, KeptOnward
<1>3. PICK line : line = e.lines[id]
  OBVIOUS
<1>4. line.item \in Item /\ line.quantity \in Positive /\ Holds(p, id) /\ PropertyOf(p, id).quantity >= line.quantity
      /\ e.cadet \in Cadet
  BY <1>3 DEF CanReturn
<1>5. PICK property : property = PropertyOf(p, id)
  OBVIOUS
<1>6. property \in p.held /\ property.id = id /\ IsHeld(S0, property)
  BY <1>4, <1>5, PropertyHeld
<1>7. property \in a.held
  BY <1>6 DEF ReturnedSoFar
<1>8. PropertyOf(a, id) = property
  BY <1>0, <1>6, <1>7, PropertyOnly
<1>9. PICK k : k = property.quantity - line.quantity
  OBVIOUS
<1>10. k \in Int /\ k >= 0 /\ id[1] \in S /\ property.item \in Item
  BY <1>4, <1>5, <1>6, <1>9 DEF IsHeld, Positive
<1>11. PICK h : h = Hold(a, id, e.cadet, property.item, k)
  OBVIOUS
<1>12. PICK x, it : x = a.items[line.item] /\ it = p.items[line.item]
  OBVIOUS
<1>13. PICK shelf : shelf = IF ToShelf(line.condition) THEN line.quantity ELSE 0
  OBVIOUS
<1>15. PICK new : new = TakenBack(x, n, shelf, line.quantity)
  OBVIOUS
<1>16. q.items = [a.items EXCEPT ![line.item] = new] /\ q.held = h.held
  BY <1>0, <1>3, <1>8, <1>9, <1>11, <1>12, <1>13, <1>15 DEF ReturnLine, TakenBack, Hold, Whole
<1>17. HeldOK(S, q.held)
  <2>1. HeldOK(S, h.held)
    BY <1>0, <1>4, <1>10, <1>11, HoldOK
  <2> QED BY <1>16, <2>1
<1>18. \A other \in p.held : other.id \notin T \cup {id} => other \in q.held
  <2>1. {other \in a.held : other.id # id} \subseteq h.held
    BY <1>0, <1>11, HoldKeeps
  <2> QED BY <1>16, <2>1 DEF ReturnedSoFar
<1>19. Bumps(it, new, n) /\ new.onHand \in Nat /\ new.issued \in Nat
  <2>1. IsItem(S0, it)
    BY <1>4, <1>12 DEF ItemsOK
  <2>2. (x = it \/ Bumps(it, x, n)) /\ x.onHand \in Nat /\ x.issued \in Nat
    BY <1>4, <1>12 DEF ReturnedSoFar, ItemsStep, LeftOrBumped, StockOK
  <2>3. shelf \in Nat /\ line.quantity \in Nat
    BY <1>4, <1>13 DEF Positive
  <2> QED BY <1>15, <2>1, <2>2, <2>3, ReturnedItem
<1>20. ASSUME NEW j \in Item
       PROVE  LeftOrBumped(p.items, q.items, n, j) /\ q.items[j].onHand \in Nat /\ q.items[j].issued \in Nat
  <2>1. CASE j = line.item
    <3>1. q.items[j] = new /\ p.items[j] = it
      BY <1>0, <1>12, <1>16, <2>1
    <3> QED BY <1>19, <3>1 DEF LeftOrBumped
  <2>2. CASE j # line.item
    <3>1. q.items[j] = a.items[j]
      BY <1>0, <1>16, <2>2
    <3> QED BY <3>1 DEF ReturnedSoFar, ItemsStep, LeftOrBumped, StockOK
  <2> QED BY <2>1, <2>2
<1>21. DOMAIN q.items = Item
  BY <1>0, <1>16
<1> QED BY <1>2, <1>17, <1>18, <1>20, <1>21 DEF ReturnedSoFar, ItemsStep, StockOK

\* All lines of a return that its cadet holds leave stock and holdings well-formed.
LEMMA AllReturned ==
  ASSUME NEW S0, NEW S, NEW n, n \notin S0, S = S0 \cup {n}, NEW e, NEW p, Whole(p), ItemsOK(S0, p.items),
         HeldOK(S0, p.held), CanReturn(e, p)
  PROVE  ReturnedSoFar(S, e, n, p, ReturnLines(e, p, n), DOMAIN e.lines)
<1> DEFINE D == DOMAIN e.lines
<1> DEFINE pick == AnyPick(D)
<1>0. IsFiniteSet(D)
  BY DEF CanReturn
<1>1. PICK f : Takes(f, "RETURNED", e, n, p, D, pick) /\ f[D] = ReturnLines(e, p, n)
  BY <1>0, ReturnTakes
<1> DEFINE P == {T \in SUBSET D : ReturnedSoFar(S, e, n, p, f[T], T)}
<1>2. pick \in Picks(D)
  BY AnyPicks
<1> HIDE DEF pick
<1>3. {} \in P
  <2>1. f[{}] = p
    BY <1>1 DEF Takes
  <2>2. KeptByLines(p, p) /\ ItemsStep(p.items, p.items, n) /\ StockOK(p.items)
    BY ItemsLeft DEF Kept, KeptByLines
  <2>3. HeldOK(S, p.held)
    BY HeldStays
  <2>4. ReturnedSoFar(S, e, n, p, p, {})
    BY <2>2, <2>3 DEF ReturnedSoFar
  <2> QED BY <2>1, <2>4
<1> HIDE DEF D
<1>4. ASSUME NEW T \in SUBSET D, T # {}, T \ {pick[T]} \in P PROVE T \in P
  <2>1. pick[T] \in T
    BY <1>2, <1>4 DEF Picks
  <2>2. PICK id : id = pick[T]
    OBVIOUS
  <2>3. f[T] = ReturnLine(e, f[T \ {id}], n, id)
    BY <1>1, <1>4, <2>2 DEF Takes, Take
  <2>4. ReturnedSoFar(S, e, n, p, f[T \ {id}], T \ {id})
    BY <1>4, <2>2
  <2>5. id \in DOMAIN e.lines /\ id \notin T \ {id} /\ (T \ {id}) \cup {id} = T
    BY <2>1, <2>2 DEF D
  <2>6. ReturnedSoFar(S, e, n, p, f[T], (T \ {id}) \cup {id})
    BY <2>3, <2>4, <2>5, OneMoreReturned
  <2> QED BY <2>5, <2>6
<1> HIDE DEF P
<1>5. D \in P
  BY <1>0, <1>2, <1>3, <1>4, TakenOneByOne
<1> QED BY <1>1, <1>5 DEF P, D

\* What a command signed into a return.
LEMMA ReturnCommand ==
  ASSUME NEW e, IsCommand(e), e.type = "ITEM_RETURNED"
  PROVE  /\ e.cadet \in Cadet /\ IsFiniteSet(DOMAIN e.lines)
         /\ \A id \in DOMAIN e.lines : e.lines[id].item \in Item /\ e.lines[id].quantity \in Positive
BY DEF IsCommand

\* A return of what is held can be taken back.
LEMMA HeldAsked ==
  ASSUME NEW S, NEW p, HeldOK(S, p.held), NEW e, IsCommand(e), e.type = "ITEM_RETURNED", NotHeld(p, e) = {}
  PROVE  CanReturn(e, p)
<1>1. ASSUME NEW id \in DOMAIN e.lines
      PROVE  Holds(p, id) /\ PropertyOf(p, id).quantity >= e.lines[id].quantity
  <2>1. PICK line : line = e.lines[id]
    OBVIOUS
  <2>2. ~ (HeldOf(p, id, line.item) < line.quantity) /\ line.quantity \in Positive
    BY <2>1, ReturnCommand DEF NotHeld
  <2>3. HeldOf(p, id, line.item) \in Nat
    <3>1. CASE Holds(p, id) /\ PropertyOf(p, id).item = line.item
      <4>1. IsHeld(S, PropertyOf(p, id))
        BY <3>1, PropertyHeld
      <4> QED BY <3>1, <4>1 DEF HeldOf, IsHeld, Positive
    <3>2. CASE ~ (Holds(p, id) /\ PropertyOf(p, id).item = line.item)
      BY <3>2 DEF HeldOf
    <3> QED BY <3>1, <3>2
  <2>4. HeldOf(p, id, line.item) >= line.quantity
    BY <2>2, <2>3 DEF Positive
  <2> QED BY <2>1, <2>2, <2>4, HeldOfHeld
<1> QED BY <1>1, ReturnCommand DEF CanReturn

\* A return, in conflict or not, leaves stock, holdings and records well-formed.
LEMMA ReturnOK ==
  ASSUME NEW l, NEW S0, NEW S, NEW n, n \notin S0, S = S0 \cup {n}, NEW p, Whole(p),
         ItemsOK(S0, p.items), HeldOK(S0, p.held), TransactionsOK(l, S0, p.transactions),
         IsCommand(l[n]), l[n].type = "ITEM_RETURNED", NEW q, q = ReturnTransaction(l, p, n)
  PROVE  /\ ItemsStep(p.items, q.items, n) /\ StockOK(q.items) /\ HeldOK(S, q.held)
         /\ TransactionsOK(l, S, q.transactions)
<1>e. PICK e : e = l[n]
  OBVIOUS
<1>1. HeldOK(S, p.held) /\ TransactionsOK(l, S, p.transactions) /\ n \in S
  BY HeldStays, TransactionsStay
<1>2. CASE q = AddConflict(p, n)
  <2>1. q.items = p.items /\ q.held = p.held /\ q.transactions = p.transactions
    BY <1>2 DEF AddConflict, Whole
  <2> QED BY <1>1, <2>1, ItemsLeft
<1>3. CASE q # AddConflict(p, n)
  <2>1. NotHeld(p, e) = {}
    BY <1>3, <1>e DEF ReturnTransaction
  <2>2. CanReturn(e, p)
    BY <1>e, <2>1, HeldAsked
  <2>3. PICK a : a = ReturnLines(e, p, n)
    OBVIOUS
  <2>4. ReturnedSoFar(S, e, n, p, a, DOMAIN e.lines)
    BY <2>2, <2>3, AllReturned
  <2>5. KeptByLines(p, a) /\ Whole(a) /\ a.transactions = p.transactions
    BY <2>4, KeptWhole DEF ReturnedSoFar, KeptByLines
  <2> DEFINE t == [cadet |-> e.cadet, lines |->
                 [id \in DOMAIN e.lines |-> [item |-> e.lines[id].item, quantity |-> e.lines[id].quantity,
                                             shelf |-> ToShelf(e.lines[id].condition)]]]
  <2>6. q.items = a.items /\ q.held = a.held /\ q.transactions = Joined(a.transactions, n, t)
    BY <1>3, <1>e, <2>3, <2>5 DEF ReturnTransaction, Whole
  <2>7. ASSUME NEW id \in DOMAIN e.lines PROVE id[1] \in S
    <3>1. Holds(p, id)
      BY <2>2 DEF CanReturn
    <3>2. PropertyOf(p, id).id = id /\ IsHeld(S0, PropertyOf(p, id))
      BY <3>1, PropertyHeld
    <3> QED BY <3>2 DEF IsHeld
  <2>8. IsTransaction(l, S, n, t)
    <3>1. \A id \in DOMAIN e.lines : e.lines[id].item \in Item /\ e.lines[id].quantity \in Nat
      BY <2>2 DEF CanReturn, Positive
    <3>2. e.cadet \in Cadet
      BY <2>2 DEF CanReturn
    <3> QED BY <1>1, <1>e, <2>7, <3>1, <3>2 DEF IsTransaction
  <2> HIDE DEF t
  <2>9. TransactionsOK(l, S, q.transactions)
    BY <1>1, <2>5, <2>6, <2>8 DEF TransactionsOK, Joined
  <2> QED BY <2>4, <2>6, <2>9 DEF ReturnedSoFar
<1> QED BY <1>2, <1>3

-----------------------------------------------------------------------------
(* Corrections.                                                            *)

\* What a command signed into the correction of an issued size.
LEMMA SizeCommand ==
  ASSUME NEW e, IsCommand(e), e.type = "PROPERTY_CORRECTED"
  PROVE  e.cadet \in Cadet /\ e.from \in Item /\ e.to \in Item /\ e.from # e.to /\ e.quantity \in Positive
BY DEF IsCommand

\* The correction of an issued size leaves stock and holdings well-formed.
LEMMA CorrectSizeOK ==
  ASSUME NEW l, NEW S0, NEW S, NEW n, S = S0 \cup {n}, NEW p, Whole(p), ItemsOK(S0, p.items),
         HeldOK(S0, p.held), IsCommand(l[n]), l[n].type = "PROPERTY_CORRECTED", NEW q, q = CorrectSize(l, p, n)
  PROVE  ItemsStep(p.items, q.items, n) /\ StockOK(q.items) /\ HeldOK(S, q.held)
<1>e. PICK e : e = l[n]
  OBVIOUS
<1>1. HeldOK(S, p.held) /\ n \in S
  BY HeldStays
<1>2. e.cadet \in Cadet /\ e.from \in Item /\ e.to \in Item /\ e.from # e.to /\ e.quantity \in Positive
  BY <1>e, SizeCommand
<1>3. CASE q = AddConflict(p, n)
  <2>1. q.items = p.items /\ q.held = p.held
    BY <1>3 DEF AddConflict, Whole
  <2> QED BY <1>1, <2>1, ItemsLeft
<1>4. CASE q # AddConflict(p, n)
  <2>1. ~ CorrectSizeImpossible(p, e)
    BY <1>4, <1>e DEF CorrectSize
  <2>2. PICK property, k : property = PropertyOf(p, e.property) /\ k = e.quantity
    OBVIOUS
  <2>3. k \in Positive /\ k \in Int /\ -k \in Int /\ k >= 0
    BY <1>2, <2>2 DEF Positive
  <2>4. Holds(p, e.property) /\ property.item = e.from /\ IsHeld(S0, property) /\ property.quantity >= k
    <3>1. ~ (HeldOf(p, e.property, e.from) < k)
      BY <2>1, <2>2 DEF CorrectSizeImpossible
    <3>2. HeldOf(p, e.property, e.from) \in Nat
      <4>1. CASE Holds(p, e.property) /\ PropertyOf(p, e.property).item = e.from
        <5>1. IsHeld(S0, PropertyOf(p, e.property))
          BY <4>1, PropertyHeld
        <5> QED BY <4>1, <5>1 DEF HeldOf, IsHeld, Positive
      <4>2. CASE ~ (Holds(p, e.property) /\ PropertyOf(p, e.property).item = e.from)
        BY <4>2 DEF HeldOf
      <4> QED BY <4>1, <4>2
    <3>3. HeldOf(p, e.property, e.from) >= k
      BY <2>3, <3>1, <3>2
    <3> QED BY <2>2, <2>3, <3>3, HeldOfHeld
  <2>5. PICK a, b : a = Move(p.items[e.from], n, k, -k) /\ b = Move(p.items[e.to], n, -k, k)
    OBVIOUS
  <2>6. PICK moved : moved = [p EXCEPT !.items[e.from] = a, !.items[e.to] = b, !.cadets[e.cadet] = Touch(@, n)]
    OBVIOUS
  <2>7. DOMAIN p.items = Item /\ IsItem(S0, p.items[e.from]) /\ IsItem(S0, p.items[e.to])
    BY <1>2 DEF ItemsOK
  <2>8. Whole(moved) /\ moved.held = p.held
        /\ DOMAIN moved.items = Item /\ moved.items[e.from] = a /\ moved.items[e.to] = b
        /\ \A i \in Item \ {e.from, e.to} : moved.items[i] = p.items[i]
    BY <1>2, <2>6, <2>7 DEF Whole
  <2>9. \/ q = Hold(moved, e.property, e.cadet, e.to, k)
        \/ q = Hold(Hold(moved, e.property, e.cadet, e.from, property.quantity - k),
                    <<n, WholeLine>>, e.cadet, e.to, k)
    <3>1. [p EXCEPT !.items[e.from] = Move(@, n, e.quantity, -e.quantity),
                    !.items[e.to] = Move(@, n, -e.quantity, e.quantity), !.cadets[e.cadet] = Touch(@, n)] = moved
      BY <1>2, <2>2, <2>5, <2>6, <2>7 DEF Whole
    <3> QED BY <1>4, <1>e, <2>1, <2>2, <3>1 DEF CorrectSize
  <2>10. q.items = moved.items /\ HeldOK(S, q.held)
    <3>1. e.property[1] \in S
      <4>1. property.id = e.property
        BY <2>2, <2>4, PropertyHeld
      <4> QED BY <2>4, <4>1 DEF IsHeld
    <3>2. HeldOK(S, moved.held)
      BY <1>1, <2>8
    <3>3. CASE q = Hold(moved, e.property, e.cadet, e.to, k)
      <4>1. HeldOK(S, q.held)
        BY <1>2, <2>3, <2>8, <3>1, <3>2, <3>3, HoldOK
      <4>2. q.items = moved.items
        BY <2>8, <3>3, HoldKeeps
      <4> QED BY <4>1, <4>2
    <3>4. CASE q = Hold(Hold(moved, e.property, e.cadet, e.from, property.quantity - k),
                    <<n, WholeLine>>, e.cadet, e.to, k)
      <4>1. PICK rest : rest = property.quantity - k
        OBVIOUS
      <4>2. rest \in Int /\ rest >= 0
        BY <2>3, <2>4, <4>1 DEF IsHeld, Positive
      <4>3. PICK h : h = Hold(moved, e.property, e.cadet, e.from, rest)
        OBVIOUS
      <4>4. HeldOK(S, h.held)
        BY <1>2, <2>8, <3>1, <3>2, <4>2, <4>3, HoldOK
      <4>5. Whole(h) /\ h.items = moved.items
        BY <2>8, <4>3, HoldKeeps, KeptWhole
      <4>6. q = Hold(h, <<n, WholeLine>>, e.cadet, e.to, k) /\ <<n, WholeLine>>[1] \in S
        BY <1>1, <3>4, <4>1, <4>3
      <4>7. HeldOK(S, q.held)
        BY <1>2, <2>3, <4>4, <4>5, <4>6, HoldOK
      <4>8. q.items = h.items
        BY <4>5, <4>6, HoldKeeps
      <4> QED BY <4>5, <4>7, <4>8
    <3> QED BY <2>9, <3>3, <3>4
  <2>11. Bumps(p.items[e.from], a, n) /\ a.onHand \in Nat /\ a.issued \in Nat
    <3>1. p.items[e.from].onHand + k >= 0
      BY <2>3, <2>7 DEF IsItem
    <3> QED BY <2>3, <2>5, <2>7, <3>1, MovedItem
  <2>12. Bumps(p.items[e.to], b, n) /\ b.onHand \in Nat /\ b.issued \in Nat
    <3>1. p.items[e.to].onHand + (-k) >= 0
      <4>1. ~ (p.items[e.to].onHand < k)
        BY <2>1, <2>2 DEF CorrectSizeImpossible
      <4> QED BY <2>3, <2>7, <4>1 DEF IsItem
    <3> QED BY <2>3, <2>5, <2>7, <3>1, MovedItem
  <2>13. ASSUME NEW i \in Item
         PROVE  LeftOrBumped(p.items, q.items, n, i) /\ q.items[i].onHand \in Nat /\ q.items[i].issued \in Nat
    <3>1. CASE i = e.from
      BY <2>8, <2>10, <2>11, <3>1 DEF LeftOrBumped
    <3>2. CASE i = e.to
      BY <2>8, <2>10, <2>12, <3>2 DEF LeftOrBumped
    <3>3. CASE i \notin {e.from, e.to}
      BY <2>8, <2>10, <3>3 DEF LeftOrBumped, ItemsOK, IsItem
    <3> QED BY <3>1, <3>2, <3>3
  <2> QED BY <2>8, <2>10, <2>13 DEF ItemsStep, StockOK
<1> QED BY <1>3, <1>4

-----------------------------------------------------------------------------
\* The recorded quantity, and what a correction of it moves.
LEMMA RecordedIsNumber ==
  ASSUME NEW l, NEW S, Placed(l, S), \A m \in S : IsCommand(l[m]), NEW p, ItemsOK(S, p.items),
         TransactionsOK(l, S, p.transactions), NEW all, \A m \in all : IsCommand(l[m]),
         NEW target, NEW line, Correctable(l, p, all, target, line)
  PROVE  Recorded(l, p, target, line) \in Nat
<1>1. CASE l[target].type = "INVENTORY_RECEIVED"
  <2>1. l[target].item \in Item /\ l[target].quantity \in Nat
    BY <1>1 DEF Correctable, IsCommand, Positive
  <2>2. CASE ReceiptCorrections(l, p, target) = {}
    BY <1>1, <2>1, <2>2 DEF Recorded
  <2>3. CASE ReceiptCorrections(l, p, target) # {}
    <3>1. PICK C : C = ReceiptCorrections(l, p, target)
      OBVIOUS
    <3>2. PICK s : s = p.items[l[target].item].applied
      OBVIOUS
    <3>3. s \in Seq(S)
      BY <2>1, <3>2 DEF ItemsOK, IsItem
    <3>4. ToSet(s) \subseteq S
      BY <3>3, AppendedSet
    <3>5. C \in SUBSET S /\ \A m \in C : l[m].type = "RECORD_CORRECTED"
      BY <3>1, <3>2, <3>4 DEF ReceiptCorrections
    <3>6. LastOf(l, C) \in C
      BY <2>3, <3>1, <3>5, LastIsLast
    <3>7. l[LastOf(l, C)].to \in Nat
      BY <3>5, <3>6 DEF IsCommand
    <3> QED BY <1>1, <2>3, <3>1, <3>7 DEF Recorded
  <2> QED BY <2>2, <2>3
<1>2. CASE l[target].type # "INVENTORY_RECEIVED"
  <2>1. target \in DOMAIN p.transactions /\ line \in DOMAIN p.transactions[target].lines
    BY <1>2 DEF Correctable
  <2>2. LineOf(p, target, line).quantity \in Nat
    BY <2>1 DEF TransactionsOK, IsTransaction, LineOf
  <2> QED BY <1>2, <2>2 DEF Recorded
<1> QED BY <1>1, <1>2

\* A holding that there is not counts as none.
LEMMA HoldingIsNumber ==
  ASSUME NEW S, NEW p, HeldOK(S, p.held), NEW id
  PROVE  HoldingOf(p, id) \in Nat
<1>1. CASE Holds(p, id)
  <2>1. IsHeld(S, PropertyOf(p, id))
    BY <1>1, PropertyHeld
  <2> QED BY <1>1, <2>1 DEF HoldingOf, IsHeld, Positive
<1>2. CASE ~ Holds(p, id)
  BY <1>2 DEF HoldingOf
<1> QED BY <1>1, <1>2

\* What a holding now is, is a size.
LEMMA SizeIsKnown ==
  ASSUME NEW S, NEW p, HeldOK(S, p.held), NEW id, NEW i \in Item
  PROVE  SizeNow(p, id, i) \in Item
<1>1. CASE Holds(p, id)
  <2>1. IsHeld(S, PropertyOf(p, id))
    BY <1>1, PropertyHeld
  <2> QED BY <1>1, <2>1 DEF SizeNow, IsHeld
<1>2. CASE ~ Holds(p, id)
  BY <1>2 DEF SizeNow
<1> QED BY <1>1, <1>2

\* A plan moves a size, and for an issue or a return a holding.
IsPlan(l, S, p, target, plan) ==
  /\ plan.item \in Item /\ plan.held \in Int /\ plan.stock \in Int
  /\ plan.holding = HoldingOf(p, plan.property) /\ plan.holding \in Nat
  /\ l[target].type # "INVENTORY_RECEIVED" => plan.property[1] \in S

\* What a shift plans.
LEMMA ShiftIs ==
  ASSUME NEW l, NEW p, NEW target, NEW i, NEW property, NEW held, NEW stock,
         NEW plan, plan = Shift(l, p, target, i, property, held, stock)
  PROVE  /\ plan.item = i /\ plan.property = property /\ plan.held = held
         /\ plan.holding = HoldingOf(p, property)
         /\ plan.stock = IF CountedSince(l, p, i, target) THEN 0 ELSE stock
BY DEF Shift

\* The plan of a correction is a plan.
LEMMA PlanOK ==
  ASSUME NEW l, NEW S, NEW p, ItemsOK(S, p.items), HeldOK(S, p.held),
         TransactionsOK(l, S, p.transactions), NEW all, \A m \in all : IsCommand(l[m]),
         NEW target, NEW line, Correctable(l, p, all, target, line), NEW delta \in Int,
         NEW plan, plan = Plan(l, p, target, line, delta)
  PROVE  IsPlan(l, S, p, target, plan)
<1>1. CASE l[target].type = "INVENTORY_RECEIVED"
  <2>1. l[target].item \in Item
    BY <1>1 DEF Correctable, IsCommand
  <2>2. plan = Shift(l, p, target, l[target].item, NoNeed, 0, delta)
    BY <1>1 DEF Plan
  <2>3. HoldingOf(p, NoNeed) \in Nat
    BY HoldingIsNumber
  <2> QED BY <1>1, <2>1, <2>2, <2>3, ShiftIs DEF IsPlan
<1>2. CASE l[target].type # "INVENTORY_RECEIVED"
  <2>1. target \in DOMAIN p.transactions /\ line \in DOMAIN p.transactions[target].lines
    BY <1>2 DEF Correctable
  <2>2. PICK i : i = LineOf(p, target, line).item
    OBVIOUS
  <2>3. i \in Item /\ target \in S /\ l[target].type \in {"ITEM_ISSUED", "ITEM_RETURNED"}
        /\ (l[target].type = "ITEM_RETURNED" => line[1] \in S)
    BY <2>1, <2>2 DEF TransactionsOK, IsTransaction, LineOf
  <2>4. CASE l[target].type = "ITEM_ISSUED"
    <3>1. PICK j : j = SizeNow(p, <<target, line>>, i)
      OBVIOUS
    <3>2. plan = Shift(l, p, target, j, <<target, line>>, delta, -delta)
      BY <2>2, <2>4, <3>1 DEF Plan
    <3>3. j \in Item /\ HoldingOf(p, <<target, line>>) \in Nat /\ -delta \in Int
      <4>1. j \in Item
        BY <2>3, <3>1, SizeIsKnown
      <4>2. HoldingOf(p, <<target, line>>) \in Nat
        BY HoldingIsNumber
      <4>3. -delta \in Int
        OBVIOUS
      <4> QED BY <4>1, <4>2, <4>3
    <3>4. <<target, line>>[1] \in S
      BY <2>3
    <3> QED BY <3>2, <3>3, <3>4, ShiftIs DEF IsPlan
  <2>5. CASE l[target].type = "ITEM_RETURNED"
    <3>1. PICK stock : stock = IF LineOf(p, target, line).shelf THEN delta ELSE 0
      OBVIOUS
    <3>2. plan = Shift(l, p, target, i, line, -delta, stock)
      BY <2>2, <2>5, <3>1 DEF Plan
    <3>3. stock \in Int /\ -delta \in Int /\ HoldingOf(p, line) \in Nat
      <4>1. HoldingOf(p, line) \in Nat
        BY HoldingIsNumber
      <4>2. stock \in Int
        BY <3>1
      <4>3. -delta \in Int
        OBVIOUS
      <4> QED BY <4>1, <4>2, <4>3
    <3> QED BY <2>3, <2>5, <3>2, <3>3, ShiftIs DEF IsPlan
  <2> QED BY <2>3, <2>4, <2>5
<1> QED BY <1>1, <1>2

\* What a command signed into the correction of a record.
LEMMA RecordCommand ==
  ASSUME NEW e, IsCommand(e), e.type = "RECORD_CORRECTED"
  PROVE  e.from \in Nat /\ e.to \in Nat
BY DEF IsCommand

\* The correction of a record leaves stock, holdings and records well-formed.
LEMMA CorrectRecordOK ==
  ASSUME NEW l, NEW S0, NEW S, NEW n, S = S0 \cup {n}, NEW p, Whole(p), ItemsOK(S0, p.items),
         HeldOK(S0, p.held), TransactionsOK(l, S0, p.transactions), NEW all, \A m \in all : IsCommand(l[m]),
         IsCommand(l[n]), l[n].type = "RECORD_CORRECTED",
         Correctable(l, p, all, l[n].target, l[n].line), NEW q, q = CorrectRecord(l, p, n)
  PROVE  /\ ItemsStep(p.items, q.items, n) /\ StockOK(q.items) /\ HeldOK(S, q.held)
         /\ TransactionsOK(l, S, q.transactions)
<1>e. PICK e : e = l[n]
  OBVIOUS
<1>1. HeldOK(S, p.held) /\ TransactionsOK(l, S, p.transactions)
  BY HeldStays, TransactionsStay
<1>2. PICK delta : delta = e.to - e.from
  OBVIOUS
<1>3. delta \in Int /\ e.to \in Nat
  BY <1>e, <1>2, RecordCommand
<1>4. PICK plan : plan = Plan(l, p, e.target, e.line, delta)
  OBVIOUS
<1>5. IsPlan(l, S0, p, e.target, plan)
  BY <1>e, <1>3, <1>4, PlanOK
<1>6. q = ApplyPlan(l, p, n, plan)
  BY <1>e, <1>2, <1>4 DEF CorrectRecord
<1>7. CASE q = AddConflict(p, n)
  <2>1. q.items = p.items /\ q.held = p.held /\ q.transactions = p.transactions
    BY <1>7 DEF AddConflict, Whole
  <2> QED BY <1>1, <2>1, ItemsLeft
<1>8. CASE q # AddConflict(p, n)
  <2>1. ~ CorrectionImpossible(l, p, e.target, e.line, e.from, plan)
    BY <1>6, <1>8, <1>e DEF ApplyPlan
  <2>2. PICK it, new : it = p.items[plan.item] /\ new = Move(it, n, plan.stock, plan.held)
    OBVIOUS
  <2>3. IsItem(S0, it) /\ DOMAIN p.items = Item
    BY <1>5, <2>2 DEF IsPlan, ItemsOK
  <2>4. it.onHand + plan.stock >= 0 /\ plan.holding + plan.held >= 0
    <3>1. ~ (it.onHand + plan.stock < 0) /\ ~ (plan.holding + plan.held < 0)
      BY <2>1, <2>2 DEF CorrectionImpossible
    <3> QED BY <1>5, <2>3, <3>1 DEF IsItem, IsPlan
  <2>5. Bumps(it, new, n) /\ new.onHand \in Nat /\ new.issued \in Nat
    BY <1>5, <2>2, <2>3, <2>4, MovedItem DEF IsPlan
  <2>6. PICK items2 : items2 = [p.items EXCEPT ![plan.item] = new]
    OBVIOUS
  <2>7. ItemsStep(p.items, items2, n) /\ StockOK(items2)
    BY <1>5, <2>2, <2>5, <2>6, OneItem DEF IsPlan
  <2>8. CASE l[e.target].type = "INVENTORY_RECEIVED"
    <3>1. q = [p EXCEPT !.items[plan.item] = Move(@, n, plan.stock, plan.held)]
      BY <1>6, <1>e, <2>1, <2>8 DEF ApplyPlan
    <3>2. q.items = items2 /\ q.held = p.held /\ q.transactions = p.transactions
      BY <2>2, <2>6, <3>1 DEF Whole
    <3> QED BY <1>1, <2>7, <3>2
  <2>9. CASE l[e.target].type # "INVENTORY_RECEIVED"
    <3>1. e.target \in DOMAIN p.transactions /\ e.line \in DOMAIN p.transactions[e.target].lines
      BY <1>e, <2>9 DEF Correctable
    <3>2. PICK t : t = p.transactions[e.target]
      OBVIOUS
    <3>3. IsTransaction(l, S0, e.target, t)
      BY <3>1, <3>2 DEF TransactionsOK
    <3>4. PICK cadet, size, k : cadet = t.cadet /\ size = SizeNow(p, plan.property, plan.item)
                                /\ k = plan.holding + plan.held
      OBVIOUS
    <3>5. cadet \in Cadet /\ size \in Item /\ k \in Int /\ k >= 0
      <4>1. plan.item \in Item /\ plan.holding \in Int /\ plan.held \in Int
        BY <1>5 DEF IsPlan
      <4>2. size \in Item
        BY <3>4, <4>1, SizeIsKnown
      <4>3. cadet \in Cadet
        BY <3>3, <3>4 DEF IsTransaction
      <4>4. k \in Int /\ k >= 0
        BY <2>4, <3>4, <4>1
      <4> QED BY <4>2, <4>3, <4>4
    <3>6. PICK h : h = Hold(p, plan.property, cadet, size, k)
      OBVIOUS
    <3>7. HeldOK(S, h.held)
      <4>1. plan.property[1] \in S
        BY <1>5, <2>9 DEF IsPlan
      <4> QED BY <1>1, <3>5, <3>6, <4>1, HoldOK
    <3>8. KeptByLines(p, h) /\ h.items = p.items /\ Whole(h)
      BY <3>6, HoldKeeps, KeptWhole
    <3>9. q = CorrectHolding(e, p, n, plan, cadet)
      BY <1>6, <1>e, <2>1, <2>9, <3>2, <3>4 DEF ApplyPlan
    <3>10. q = [h EXCEPT !.items[plan.item] = Move(@, n, plan.stock, plan.held), !.cadets[cadet] = Touch(@, n),
                        !.transactions[e.target].lines[e.line].quantity = e.to]
      BY <3>4, <3>6, <3>9 DEF CorrectHolding
    <3>11. /\ q.items = [h.items EXCEPT ![plan.item] = Move(@, n, plan.stock, plan.held)]
           /\ q.held = h.held
           /\ q.transactions = [h.transactions EXCEPT ![e.target].lines[e.line].quantity = e.to]
      BY <3>8, <3>10 DEF Whole
    <3>12. q.items = items2
      BY <2>2, <2>6, <3>8, <3>11
    <3>13. TransactionsOK(l, S, q.transactions)
      <4>1. q.transactions = [p.transactions EXCEPT ![e.target].lines[e.line].quantity = e.to]
        BY <3>8, <3>11 DEF KeptByLines
      <4>2. DOMAIN q.transactions = DOMAIN p.transactions
            /\ \A m \in DOMAIN p.transactions : m # e.target => q.transactions[m] = p.transactions[m]
        BY <4>1
      <4>3. PICK u : u = q.transactions[e.target]
        OBVIOUS
      <4>4. u = [t EXCEPT !.lines[e.line].quantity = e.to]
        BY <3>1, <3>2, <4>1, <4>3
      <4>5. e.line \in DOMAIN t.lines
        BY <3>1, <3>2
      <4>6. DOMAIN u = DOMAIN t /\ u.cadet = t.cadet /\ DOMAIN u.lines = DOMAIN t.lines
            /\ (\A k2 \in DOMAIN t.lines : k2 # e.line => u.lines[k2] = t.lines[k2])
            /\ u.lines[e.line] = [t.lines[e.line] EXCEPT !.quantity = e.to]
        BY <3>3, <4>4, <4>5 DEF IsTransaction
      <4>7. DOMAIN t.lines[e.line] = {"item", "quantity", "shelf"}
        BY <3>3, <4>5 DEF IsTransaction
      <4>8. /\ DOMAIN u.lines[e.line] = {"item", "quantity", "shelf"}
            /\ u.lines[e.line].item = t.lines[e.line].item /\ u.lines[e.line].quantity = e.to
        BY <4>6, <4>7
      <4>9. IsTransaction(l, S0, e.target, u)
        BY <1>3, <3>3, <4>5, <4>6, <4>8 DEF IsTransaction
      <4>10. IsTransaction(l, S, e.target, u)
        BY <4>9 DEF IsTransaction
      <4> QED BY <1>1, <4>2, <4>3, <4>10 DEF TransactionsOK
    <3> QED BY <2>7, <3>7, <3>11, <3>12, <3>13
  <2> QED BY <2>8, <2>9
<1> QED BY <1>7, <1>8

-----------------------------------------------------------------------------
(* Needs that officers record and change.                                  *)

\* A need by hand leaves well-formed needs.
LEMMA AddNeedOK ==
  ASSUME NEW l, NEW S0, NEW S, NEW n, S = S0 \cup {n}, NEW p, Whole(p), NeedsOK(S0, p.needs),
         l[n].cadet \in Cadet, l[n].quantity \in Positive, NEW q, q = AddNeed(l, p, n)
  PROVE  NeedsOK(S, q.needs)
<1>1. NeedsOK(S, p.needs) /\ n \in S
  BY NeedsStay
<1>2. PICK need : need = NewNeed(n, 0, l[n].cadet, l[n].item, l[n].size, l[n].quantity, "MANUAL", n)
  OBVIOUS
<1>3. IsNeed(S, need)
  BY <1>1, <1>2, MadeNeed
<1>4. q.needs = (p.needs \ {}) \cup {need}
  BY <1>2 DEF AddNeed, Whole
<1>5. NeedsOK(S, (p.needs \ {}) \cup {need})
  BY ONLY <1>1, <1>3, NeedAdded
<1> QED BY ONLY <1>4, <1>5

\* What a command signed into the edit of a need.
LEMMA NeedCommand ==
  ASSUME NEW e, IsCommand(e), e.type \in NeedChanges
  PROVE  /\ "needed" \in DOMAIN e.changes => e.changes["needed"] \in Nat
         /\ DOMAIN e.changes \subseteq {"status", "needed", "fulfilled"}
<1>1. DOMAIN e.changes \subseteq {"status", "needed"} \cup (IF e.type = "STILL_NEEDED_FULFILLED" THEN {"fulfilled"} ELSE {})
  BY DEF IsCommand
<1>2. "needed" \in DOMAIN e.changes => e.changes["needed"] \in Nat
  BY DEF IsCommand
<1> QED BY <1>1, <1>2

\* An edit of a need leaves well-formed needs.
LEMMA ChangeNeedOK ==
  ASSUME NEW l, NEW S0, NEW S, NEW n, S = S0 \cup {n}, NEW p, Whole(p), NeedsOK(S0, p.needs),
         IsCommand(l[n]), l[n].type \in NeedChanges, ~ ChangeNeedThrows(l, p, n), NEW q, q = ChangeNeed(l, p, n)
  PROVE  NeedsOK(S, q.needs)
<1>1. NeedsOK(S, p.needs) /\ n \in S
  BY NeedsStay
<1>e. PICK e : e = l[n]
  OBVIOUS
<1>2. PICK need : need = NeedOf(p, e.need)
  OBVIOUS
<1>3. CASE e.base # need.version
  <2>1. q.needs = p.needs
    BY <1>e, <1>2, <1>3 DEF ChangeNeed, AddConflict, Whole
  <2> QED BY <1>1, <2>1
<1>4. CASE e.base = need.version
  <2>1. need \in p.needs
    BY <1>e, <1>2 DEF ChangeNeedThrows, NeedOf
  <2>2. PICK changed : changed = Changed(need, e.changes)
    OBVIOUS
  <2>3. ValidNeed(changed)
    BY <1>e, <1>2, <1>4, <2>2 DEF ChangeNeedThrows
  <2>4. PICK new : new = Touch(changed, n)
    OBVIOUS
  <2>5. q.needs = (p.needs \ {need}) \cup {new}
    BY <1>e, <1>2, <1>4, <2>2, <2>4 DEF ChangeNeed, Whole
  <2>6. IsNeed(S, need)
    BY <1>1, <2>1 DEF NeedsOK
  <2>7. ("needed" \in DOMAIN e.changes => e.changes["needed"] \in Nat)
        /\ DOMAIN e.changes \subseteq {"status", "needed", "fulfilled"}
    BY <1>e, NeedCommand
  <2>8. /\ DOMAIN changed = DOMAIN need /\ changed.cadet = need.cadet /\ changed.version = need.version
        /\ changed.applied = need.applied /\ changed.since = need.since /\ changed.id = need.id
        /\ changed.needed = IF "needed" \in DOMAIN e.changes THEN e.changes["needed"] ELSE need.needed
    BY <2>2, <2>6, <2>7 DEF Changed, IsNeed
  <2>9. changed.needed \in Positive /\ changed.fulfilled \in 0 .. changed.needed
    BY <2>3, <2>6, <2>7, <2>8 DEF ValidNeed, IsNeed, Positive
  <2>10. /\ DOMAIN new = DOMAIN changed /\ new.cadet = changed.cadet /\ new.needed = changed.needed
         /\ new.fulfilled = changed.fulfilled /\ new.version = changed.version + 1
         /\ new.applied = Append(changed.applied, n) /\ new.since = changed.since /\ new.id = changed.id
    BY <2>4, <2>6, <2>8 DEF Touch, IsNeed
  <2>11. new.applied \in Seq(S) /\ new.version \in Nat
    BY <1>1, <2>6, <2>8, <2>10, AppendProperties DEF IsNeed
  <2>12. IsNeed(S, new)
    BY <2>6, <2>8, <2>9, <2>10, <2>11 DEF IsNeed
  <2>13. NeedsOK(S, (p.needs \ {need}) \cup {new})
    BY ONLY <1>1, <2>12, NeedAdded
  <2> QED BY ONLY <2>5, <2>13
<1> QED BY <1>3, <1>4

\* The needs that a resolution makes.
LEMMA LostNeedsOK ==
  ASSUME NEW l, NEW S, NEW n \in S, NEW loser \in S, IsCommand(l[loser]), l[loser].type = "ITEM_ISSUED"
  PROVE  NeedsOK(S, LostNeeds(l, n, loser))
<1>e. PICK e : e = l[loser]
  OBVIOUS
<1>1. /\ e.cadet \in Cadet /\ DOMAIN e.lines \subseteq Item /\ IsFiniteSet(DOMAIN e.lines)
      /\ \A i \in DOMAIN e.lines : e.lines[i] \in Positive
      /\ IsFiniteSet(e.missing) /\ \A m \in e.missing : m.quantity \in Positive
  BY <1>e, IssueCommand
<1>2. PICK f : f = [i \in DOMAIN e.lines |-> NewNeed(n, i, e.cadet, i, Label[i], e.lines[i], "CONFLICT_RESOLUTION", loser)]
  OBVIOUS
<1>3. PICK g : g = [m \in e.missing |-> NewNeed(n, m.line, e.cadet, m.item, m.size, m.quantity, "CONFLICT_RESOLUTION", loser)]
  OBVIOUS
<1>4. DOMAIN f = DOMAIN e.lines /\ DOMAIN g = e.missing
  BY <1>2, <1>3
<1>5. PICK F, G : F = {f[i] : i \in DOMAIN f} /\ G = {g[m] : m \in DOMAIN g}
  OBVIOUS
<1>6. LostNeeds(l, n, loser) = F \cup G
  BY <1>e, <1>2, <1>3, <1>5 DEF LostNeeds
<1>7. IsFiniteSet(F)
  BY <1>1, <1>4, <1>5, FiniteImage
<1>8. IsFiniteSet(G)
  BY <1>1, <1>4, <1>5, FiniteImage
<1>9. ASSUME NEW i \in DOMAIN f PROVE IsNeed(S, f[i])
  <2>1. e.lines[i] \in Positive /\ e.cadet \in Cadet
    BY <1>1, <1>4
  <2>2. f[i] = NewNeed(n, i, e.cadet, i, Label[i], e.lines[i], "CONFLICT_RESOLUTION", loser)
    BY <1>2, <1>4
  <2> QED BY <2>1, <2>2, MadeNeed
<1>10. ASSUME NEW m \in DOMAIN g PROVE IsNeed(S, g[m])
  <2>1. m.quantity \in Positive /\ e.cadet \in Cadet
    BY <1>1, <1>4
  <2>2. g[m] = NewNeed(n, m.line, e.cadet, m.item, m.size, m.quantity, "CONFLICT_RESOLUTION", loser)
    BY <1>3, <1>4
  <2> QED BY <2>1, <2>2, MadeNeed
<1>11. IsFiniteSet(F \cup G)
  BY <1>7, <1>8, FS_Union
<1> QED BY <1>5, <1>6, <1>9, <1>10, <1>11 DEF NeedsOK

\* A resolution leaves well-formed needs and conflicts.
LEMMA ResolveOK ==
  ASSUME NEW l, NEW S0, NEW S, NEW n, S = S0 \cup {n}, \A m \in S0 : IsCommand(l[m]), NEW p, Whole(p),
         NeedsOK(S0, p.needs), ConflictsOK(S0, p.conflicts), ~ ResolveThrows(l, p, n), NEW q, q = Resolve(l, p, n)
  PROVE  NeedsOK(S, q.needs) /\ ConflictsOK(S, q.conflicts)
<1>1. NeedsOK(S, p.needs) /\ n \in S /\ ConflictsOK(S, p.conflicts)
  BY NeedsStay, ConflictsStay
<1>e. PICK e : e = l[n]
  OBVIOUS
<1>2. CASE ~ IsOpenConflict(p, e.loser)
  BY <1>e, <1>1, <1>2 DEF Resolve
<1>3. CASE IsOpenConflict(p, e.loser)
  <2>1. e.loser \in S0
    BY <1>3 DEF IsOpenConflict, ConflictsOK, IsConflict
  <2>2. q.conflicts = {IF x.loser = e.loser THEN [x EXCEPT !.status = "RESOLVED", !.by = n, !.outcome = e.outcome]
                       ELSE x : x \in p.conflicts}
    BY <1>e, <1>3 DEF Resolve, Whole
  <2>3. ConflictsOK(S, q.conflicts)
    <3>1. ASSUME NEW y \in q.conflicts PROVE IsConflict(S, y)
      <4>1. PICK x \in p.conflicts : y = IF x.loser = e.loser
                 THEN [x EXCEPT !.status = "RESOLVED", !.by = n, !.outcome = e.outcome] ELSE x
        BY <2>2
      <4>2. IsConflict(S, x)
        BY <1>1 DEF ConflictsOK
      <4> QED BY <4>1, <4>2 DEF IsConflict
    <3> QED BY <3>1 DEF ConflictsOK
  <2>4. q.needs = IF e.outcome = "RECORD_STILL_NEEDED" THEN p.needs \cup LostNeeds(l, n, e.loser) ELSE p.needs
    BY <1>e, <1>3 DEF Resolve, Whole
  <2>5. CASE e.outcome # "RECORD_STILL_NEEDED"
    BY <1>1, <2>3, <2>4, <2>5
  <2>6. CASE e.outcome = "RECORD_STILL_NEEDED"
    <3>1. l[e.loser].type = "ITEM_ISSUED"
      BY <1>e, <1>3, <2>6 DEF ResolveThrows, IsLosingIssue
    <3>2. PICK lost : lost = LostNeeds(l, n, e.loser)
      OBVIOUS
    <3>3. e.loser \in S /\ IsCommand(l[e.loser])
      BY <2>1
    <3>4. NeedsOK(S, lost)
      BY <1>1, <3>1, <3>2, <3>3, LostNeedsOK
    <3>5. q.needs = p.needs \cup lost
      BY <2>4, <2>6, <3>2
    <3>6. IsFiniteSet(p.needs \cup lost)
      BY <1>1, <3>4, FS_Union DEF NeedsOK
    <3> QED BY <1>1, <2>3, <3>4, <3>5, <3>6 DEF NeedsOK
  <2> QED BY <2>5, <2>6
<1> QED BY <1>2, <1>3

-----------------------------------------------------------------------------
\* An event that is no resolution adds at most one conflict, about itself.
ConflictAdded(old, new, n) ==
  new = old \/ new = old \cup {[loser |-> n, status |-> "OPEN", by |-> 0, outcome |-> "NONE"]}

\* Conflicts stay well-formed with the one of the event itself.
LEMMA ConflictsAddedOK ==
  ASSUME NEW S0, NEW S, NEW n, S = S0 \cup {n}, NEW old, ConflictsOK(S0, old), NEW new, ConflictAdded(old, new, n)
  PROVE  ConflictsOK(S, new)
BY DEF ConflictAdded, ConflictsOK, IsConflict

\* An issue adds no conflict, or its own.
LEMMA IssueConflicts ==
  ASSUME NEW l, NEW p, NEW n, Whole(p), NEW q, q = IssueTransaction(l, p, n),
         IsFiniteSet(DOMAIN l[n].lines), DOMAIN l[n].lines \subseteq Nat, IsFiniteSet(l[n].missing)
  PROVE  ConflictAdded(p.conflicts, q.conflicts, n)
<1> DEFINE a == IssueLines(l[n], p, n)
<1> DEFINE b == AddAllMissing(l[n], a, n)
<1>1. KeptByLines(p, a)
  BY IssueLinesKeep
<1>2. KeptByLines(a, b)
  BY <1>1, KeptWhole, AllMissingKeep
<1>3. KeptByLines(p, b) /\ Whole(b)
  BY <1>1, <1>2, KeptOnward, KeptWhole
<1> HIDE DEF a, b
<1>4. q = AddConflict(p, n) \/ \E cadets, lines : q = [b EXCEPT !.cadets = cadets, !.transactions = lines]
  BY DEF IssueTransaction, a, b
<1>5. CASE q = AddConflict(p, n)
  BY <1>5 DEF AddConflict, ConflictAdded, Whole
<1>6. CASE q # AddConflict(p, n)
  BY <1>3, <1>4, <1>6 DEF KeptByLines, Kept, ConflictAdded, Whole
<1> QED BY <1>5, <1>6

\* A return adds no conflict, or its own.
LEMMA ReturnConflicts ==
  ASSUME NEW l, NEW p, NEW n, Whole(p), NEW q, q = ReturnTransaction(l, p, n), IsFiniteSet(DOMAIN l[n].lines)
  PROVE  ConflictAdded(p.conflicts, q.conflicts, n)
<1> DEFINE b == ReturnLines(l[n], p, n)
<1>3. KeptByLines(p, b) /\ Whole(b)
  BY ReturnLinesKeep, KeptWhole
<1> HIDE DEF b
<1>4. q = AddConflict(p, n) \/ \E cadets, lines : q = [b EXCEPT !.cadets = cadets, !.transactions = lines]
  BY DEF ReturnTransaction, b
<1>5. CASE q = AddConflict(p, n)
  BY <1>5 DEF AddConflict, ConflictAdded, Whole
<1>6. CASE q # AddConflict(p, n)
  BY <1>3, <1>4, <1>6 DEF KeptByLines, Kept, ConflictAdded, Whole
<1> QED BY <1>5, <1>6

\* Every event but a resolution adds no conflict, or its own.
LEMMA EffectConflicts ==
  ASSUME NEW l, NEW p, NEW n, Whole(p), IsCommand(l[n]), l[n].type # "CONFLICT_RESOLVED", NEW q, q = Effect(l, p, n)
  PROVE  ConflictAdded(p.conflicts, q.conflicts, n)
<1> USE DEF CountEvents, CalendarEvents, NeedChanges
<1> DEFINE t == l[n].type
<1>0. t \in EventTypes
  BY DEF IsCommand
<1>1. CASE t = "INVENTORY_RECEIVED"
  <2>1. q = ReceiveStock(l, p, n)
    BY <1>1 DEF Effect
  <2> QED BY <2>1, ReceiveStockKeeps DEF ConflictAdded
<1>2. CASE t = "ITEM_ISSUED"
  <2>1. q = IssueTransaction(l, p, n)
    BY <1>2 DEF Effect
  <2>2. IsFiniteSet(DOMAIN l[n].lines) /\ DOMAIN l[n].lines \subseteq Item /\ IsFiniteSet(l[n].missing)
    BY <1>2 DEF IsCommand
  <2>3. DOMAIN l[n].lines \subseteq Nat
    BY <2>2, SupplyAssumption
  <2> QED BY <2>1, <2>2, <2>3, IssueConflicts
<1>3. CASE t = "ITEM_RETURNED"
  <2>1. q = ReturnTransaction(l, p, n)
    BY <1>3 DEF Effect
  <2>2. IsFiniteSet(DOMAIN l[n].lines)
    BY <1>3 DEF IsCommand
  <2> QED BY <2>1, <2>2, ReturnConflicts
<1>4. CASE t = "PROPERTY_CORRECTED"
  <2>1. q = CorrectSize(l, p, n)
    BY <1>4 DEF Effect
  <2> QED BY <2>1 DEF CorrectSize, Hold, AddConflict, Whole, ConflictAdded
<1>5. CASE t = "RECORD_CORRECTED"
  <2>1. q = CorrectRecord(l, p, n)
    BY <1>5 DEF Effect
  <2> QED BY <2>1 DEF CorrectRecord, ApplyPlan, CorrectHolding, Hold, AddConflict, Whole, ConflictAdded
<1>6. CASE t = "CATALOG_ITEM_UPDATED"
  <2>1. q = UpdateCatalog(l, p, n)
    BY <1>6 DEF Effect
  <2> QED BY <2>1 DEF UpdateCatalog, AddConflict, Whole, ConflictAdded
<1>7. CASE t = "CATALOG_SIZES_ADDED"
  <2>1. q = AddSizes(l, p, n)
    BY <1>7 DEF Effect
  <2> QED BY <2>1, AddSizesKeeps DEF ConflictAdded
<1>8. CASE t = "INVENTORY_ITEM_UPDATED"
  <2>1. q = UpdateItem(l, p, n)
    BY <1>8 DEF Effect
  <2> QED BY <2>1 DEF UpdateItem, AddConflict, Whole, ConflictAdded
<1>9. CASE t = "BUNDLE_UPDATED"
  <2>1. q = UpdateBundle(l, p, n)
    BY <1>9 DEF Effect
  <2> QED BY <2>1 DEF UpdateBundle, AddConflict, Whole, ConflictAdded
<1>10. CASE t = "CADETS_IMPORTED"
  <2>1. q = AddCadet(l, p, n)
    BY <1>10 DEF Effect
  <2> QED BY <2>1, AddCadetKeeps DEF ConflictAdded
<1>11. CASE t = "CADET_UPDATED"
  <2>1. q = UpdateCadet(l, p, n)
    BY <1>11 DEF Effect
  <2> QED BY <2>1 DEF UpdateCadet, AddConflict, Whole, ConflictAdded
<1>12. CASE t = "STILL_NEEDED_ADDED"
  <2>1. q = AddNeed(l, p, n)
    BY <1>12 DEF Effect
  <2> QED BY <2>1, AddNeedKeeps DEF ConflictAdded
<1>13. CASE t \in NeedChanges
  <2>1. q = ChangeNeed(l, p, n)
    BY <1>13 DEF Effect
  <2> QED BY <2>1 DEF ChangeNeed, AddConflict, Whole, ConflictAdded
<1>14. CASE t = "ANNUAL_ROLLOVER_COMPLETED"
  <2>1. q = Rollover(l, p, n)
    BY <1>14 DEF Effect
  <2> QED BY <2>1, RolloverKeeps DEF ConflictAdded
<1>15. CASE t \in CountEvents
  <2>1. q = ApplyCount(l, p, n)
    BY <1>15 DEF Effect
  <2> QED BY <1>15, <2>1, ApplyCountKeeps DEF ConflictAdded
<1>16. CASE t \in CalendarEvents
  <2>1. q = ApplyCalendar(l, p, n)
    BY <1>16 DEF Effect
  <2>2. CASE t = "CALENDAR_EVENT_CREATED"
    BY <2>1, <2>2 DEF ApplyCalendar, CreateCalendar, Whole, ConflictAdded
  <2>3. CASE t = "CALENDAR_EVENT_UPDATED"
    BY <2>1, <2>3 DEF ApplyCalendar, UpdateCalendar, Put, AddConflict, Whole, ConflictAdded
  <2>4. CASE t \notin {"CALENDAR_EVENT_CREATED", "CALENDAR_EVENT_UPDATED"}
    BY <1>16, <2>1, <2>4 DEF ApplyCalendar, AddTask, UpdateTask, CompleteTask, RemoveTask, AddAttendees,
         RemoveAttendees, LinkBundles, UnlinkBundles, Put, Whole, ConflictAdded
  <2> QED BY <2>2, <2>3, <2>4
<1> QED BY <1>0, <1>1, <1>2, <1>3, <1>4, <1>5, <1>6, <1>7, <1>8, <1>9, <1>10, <1>11, <1>12, <1>13,
           <1>14, <1>15, <1>16 DEF EventTypes

-----------------------------------------------------------------------------
(* Counts.                                                                 *)

\* A session keeps what everyone counted, and the corrections of it.
Correction(S) == [event : S, quantity : Nat, late : BOOLEAN]
IsObservation(S, o) ==
  /\ DOMAIN o = {"event", "item", "assignment", "quantity", "effective", "status", "corrections", "supersedes"}
  /\ o.quantity \in Nat /\ o.effective \in Nat /\ o.corrections \in Seq(Correction(S))
ObservationsOK(S, O) == IsFiniteSet(O) /\ \A o \in O : IsObservation(S, o)
SessionOK(S, session) ==
  /\ DOMAIN session = {"status", "assigned", "observations", "cutoff", "baseline", "warnings", "finalizer"}
  /\ DOMAIN session.cutoff = {"frozen", "observations"}
  /\ ObservationsOK(S, session.observations)
SessionsOK(S, sessions) == \A s \in DOMAIN sessions : s \in S /\ SessionOK(S, sessions[s])

\* An observation stays well-formed next to more events.
LEMMA ObservationStays ==
  ASSUME NEW S, NEW n, NEW o, IsObservation(S, o)
  PROVE  IsObservation(S \cup {n}, o)
<1>1. Correction(S) \subseteq Correction(S \cup {n})
  BY DEF Correction
<1>2. Seq(Correction(S)) \subseteq Seq(Correction(S \cup {n}))
  BY <1>1, SeqMonotonic
<1> QED BY <1>2 DEF IsObservation

\* All observations stay well-formed next to more events.
LEMMA ObservationsStay ==
  ASSUME NEW S, NEW n, NEW O, ObservationsOK(S, O)
  PROVE  ObservationsOK(S \cup {n}, O)
BY ObservationStays DEF ObservationsOK

\* All sessions stay well-formed next to more events.
LEMMA SessionsStay ==
  ASSUME NEW S, NEW n, NEW sessions, SessionsOK(S, sessions)
  PROVE  SessionsOK(S \cup {n}, sessions)
BY ObservationsStay DEF SessionsOK, SessionOK

\* Each observation becomes another.
LEMMA EachObservation ==
  ASSUME NEW S, NEW O, IsFiniteSet(O), NEW f, DOMAIN f = O, \A o \in O : IsObservation(S, f[o]),
         NEW O2, O2 = {f[o] : o \in O}
  PROVE  ObservationsOK(S, O2)
<1>1. IsFiniteSet(O2)
  BY FiniteImage
<1> QED BY <1>1 DEF ObservationsOK

\* What an observation is worth at a cutoff: the quantity of its last correction
\* that is not late.
LEMMA ObservationAtOK ==
  ASSUME NEW S, NEW o, IsObservation(S, o), NEW superseded, NEW contributions, NEW corrections,
         NEW new, new = ObservationAt(o, superseded, contributions, corrections)
  PROVE  IsObservation(S, new)
<1> DEFINE live == o.event \in contributions
<1>1. PICK c \in Seq(Correction(S)) : c = o.corrections
  BY DEF IsObservation
<1> DEFINE marked == [k \in DOMAIN c |-> [c[k] EXCEPT !.late = ~ live \/ c[k].event \notin corrections]]
<1>2. PICK b : b = marked
  OBVIOUS
<1>3. DOMAIN b = 1 .. Len(c) /\ Len(c) \in Nat
  BY <1>2
<1>4. ASSUME NEW k \in DOMAIN b PROVE b[k] \in Correction(S)
  <2>1. c[k] \in Correction(S)
    BY <1>2, <1>3, <1>4, ElementOfSeq
  <2>2. b[k] = [c[k] EXCEPT !.late = ~ live \/ c[k].event \notin corrections]
    BY <1>2, <1>4
  <2> HIDE DEF live
  <2>3. (~ live \/ c[k].event \notin corrections) \in BOOLEAN
    OBVIOUS
  <2> QED BY <2>1, <2>2, <2>3 DEF Correction
<1>5. b \in Seq(Correction(S))
  <2>1. PICK K : K = Correction(S)
    OBVIOUS
  <2>2. b \in [1 .. Len(c) -> K]
    BY <1>2, <1>3, <1>4, <2>1
  <2>3. b \in Seq(K)
    BY ONLY <1>3, <2>2, SeqDef
  <2> QED BY <2>1, <2>3
<1> DEFINE applied == {k \in DOMAIN b : ~ b[k].late}
<1>6. applied # {} => Max(applied) \in DOMAIN b
  <2>1. IsFiniteSet(1 .. Len(c))
    BY <1>3, FS_Interval
  <2>2. applied \subseteq 1 .. Len(c)
    BY <1>3
  <2>3. IsFiniteSet(applied) /\ applied \subseteq Nat
    BY <2>1, <2>2, FS_Subset
  <2>4. applied # {} => Max(applied) \in applied
    BY <2>3, GreatestOfSome
  <2> QED BY <2>4
<1>7. applied # {} => b[Max(applied)].quantity \in Nat
  BY <1>4, <1>6 DEF Correction
<1>8. PICK m : m = Max(applied)
  OBVIOUS
<1>9. PICK e : e = IF applied = {} THEN o.quantity ELSE b[m].quantity
  OBVIOUS
<1>10. e \in Nat
  BY <1>7, <1>8, <1>9 DEF IsObservation
<1> DEFINE mark == [k \in DOMAIN o.corrections |->
                      [o.corrections[k] EXCEPT !.late = ~ live \/ o.corrections[k].event \notin corrections]]
<1> DEFINE count == {k \in DOMAIN mark : ~ mark[k].late}
<1> DEFINE state == CASE ~ live -> "LATE"
                      [] live /\ o.event \in superseded -> "SUPERSEDED"
                      [] live /\ o.event \notin superseded /\ count # {} -> "CORRECTED"
                      [] OTHER -> "ACCEPTED"
<1> DEFINE worth == IF count = {} THEN o.quantity ELSE mark[Max(count)].quantity
<1>11. ObservationAt(o, superseded, contributions, corrections)
         = [o EXCEPT !.corrections = mark, !.effective = worth, !.status = state]
  BY DEF ObservationAt
<1>12. mark = b
  BY <1>1, <1>2
<1> HIDE DEF state, mark
<1>13. worth = e
  BY <1>8, <1>9, <1>12
<1> HIDE DEF worth, count
<1>14. new = [o EXCEPT !.corrections = b, !.effective = e, !.status = state]
  BY <1>11, <1>12, <1>13
<1> QED BY <1>5, <1>10, <1>14 DEF IsObservation

\* What was seen of well-formed observations is well-formed.
LEMMA ObservationsAtOK ==
  ASSUME NEW S, NEW O, ObservationsOK(S, O), NEW contributions, NEW corrections,
         NEW new, new = ObservationsAt(O, contributions, corrections)
  PROVE  ObservationsOK(S, new)
<1>1. PICK superseded : superseded = UNION {o.supersedes : o \in {o \in O : o.event \in contributions}}
  OBVIOUS
<1>2. PICK f : f = [o \in O |-> ObservationAt(o, superseded, contributions, corrections)]
  OBVIOUS
<1>3. new = {f[o] : o \in O} /\ DOMAIN f = O
  BY <1>1, <1>2 DEF ObservationsAt
<1>4. \A o \in O : IsObservation(S, f[o])
  BY <1>2, ObservationAtOK DEF ObservationsOK
<1>5. IsFiniteSet(O)
  BY DEF ObservationsOK
<1> QED BY <1>3, <1>4, <1>5, EachObservation

\* What a finalization froze is well-formed.
LEMMA FrozenOK ==
  ASSUME NEW S, NEW session, SessionOK(S, session), NEW contributions, NEW corrections,
         NEW new, new = FrozenAt(session, contributions, corrections)
  PROVE  ObservationsOK(S, new)
BY ObservationsAtOK DEF SessionOK, FrozenAt

\* The totals are what was counted, size by size.
LEMMA TotalsAreNumbers ==
  ASSUME NEW S, NEW O, ObservationsOK(S, O), NEW accepted, NEW totals, totals = TotalsFor(O, accepted), NEW i \in DOMAIN totals
  PROVE  totals[i] \in Nat
<1>1. PICK counting : counting = Counting(O, accepted)
  OBVIOUS
<1>2. PICK of : of = {o \in counting : o.item = i}
  OBVIOUS
<1>3. PICK v : v = [o \in of |-> o.effective]
  OBVIOUS
<1>4. of \subseteq O
  BY <1>1, <1>2 DEF Counting
<1>5. IsFiniteSet(of) /\ \A o \in of : o.effective \in Nat
  BY <1>4, FS_Subset DEF ObservationsOK, IsObservation
<1>6. Numbers(v) /\ \A x \in DOMAIN v : v[x] >= 0
  BY <1>3, <1>5 DEF Numbers
<1>7. totals[i] = SumFunction(v)
  BY <1>1, <1>2, <1>3 DEF TotalsFor
<1> QED BY <1>6, <1>7, SumIsNatural

\* One session becomes another; a count is opened.
LEMMA SessionPut ==
  ASSUME NEW S, NEW sessions, SessionsOK(S, sessions), NEW s, s \in DOMAIN sessions, NEW new, SessionOK(S, new),
         NEW sessions2, sessions2 = [sessions EXCEPT ![s] = new]
  PROVE  SessionsOK(S, sessions2)
BY DEF SessionsOK

\* Sessions stay well-formed with one that was opened.
LEMMA SessionGained ==
  ASSUME NEW S, NEW sessions, SessionsOK(S, sessions), NEW n, n \in S, NEW new, SessionOK(S, new),
         NEW sessions2, sessions2 = Joined(sessions, n, new)
  PROVE  SessionsOK(S, sessions2)
BY DEF SessionsOK, Joined

\* Opening leaves well-formed sessions and no stock moved.
LEMMA OpenOK ==
  ASSUME NEW l, NEW S, NEW p, NEW n, Whole(p), SessionsOK(S, p.sessions), n \in S, NEW q, q = OpenSession(l, p, n)
  PROVE  SessionsOK(S, q.sessions) /\ q.items = p.items
<1> DEFINE new == [status |-> "ACTIVE", assigned |-> l[n].assigned, observations |-> {}, cutoff |-> NoCutoff,
                   baseline |-> Baseline(p), warnings |-> {}, finalizer |-> 0]
<1>1. q.sessions = Joined(p.sessions, n, new) /\ q.items = p.items
  BY DEF OpenSession, Whole
<1>2. SessionOK(S, new)
  BY FS_EmptySet DEF SessionOK, ObservationsOK, NoCutoff
<1> HIDE DEF new
<1> QED BY <1>1, <1>2, SessionGained

\* A contribution leaves well-formed sessions and no stock moved.
LEMMA ObserveOK ==
  ASSUME NEW l, NEW S, NEW p, NEW n, Whole(p), SessionsOK(S, p.sessions), n \in S,
         IsSession(p, l[n].session), l[n].quantity \in Nat, NEW q, q = Observe(l, p, n)
  PROVE  SessionsOK(S, q.sessions) /\ q.items = p.items
<1> DEFINE e == l[n]
<1>1. PICK session : session = p.sessions[e.session]
  OBVIOUS
<1>2. SessionOK(S, session) /\ e.session \in DOMAIN p.sessions
  BY <1>1 DEF SessionsOK, IsSession
<1>3. PICK O : O = session.observations
  OBVIOUS
<1>4. ObservationsOK(S, O)
  BY <1>2, <1>3 DEF SessionOK
<1> DEFINE late == session.cutoff.frozen /\ n \notin session.cutoff.observations
<1>5. PICK new : new = [event |-> n, item |-> e.item, assignment |-> e.assignment, quantity |-> e.quantity,
                        effective |-> e.quantity, status |-> IF late THEN "LATE" ELSE "ACCEPTED",
                        corrections |-> <<>>, supersedes |-> e.supersedes]
  OBVIOUS
<1>6. IsObservation(S, new)
  BY <1>5, EmptySeq DEF IsObservation
<1> DEFINE replaced(o) == ~ late /\ o.event \in e.supersedes /\ o.status # "LATE"
<1>7. PICK f : f = [o \in O |-> IF replaced(o) THEN [o EXCEPT !.status = "SUPERSEDED"] ELSE o]
  OBVIOUS
<1>8. DOMAIN f = O /\ \A o \in O : IsObservation(S, f[o])
  <2>1. ASSUME NEW o \in O PROVE IsObservation(S, f[o])
    <3>1. IsObservation(S, o) /\ (f[o] = o \/ f[o] = [o EXCEPT !.status = "SUPERSEDED"])
      BY <1>4, <1>7 DEF ObservationsOK
    <3> QED BY <3>1 DEF IsObservation
  <2> QED BY <1>7, <2>1
<1>9. PICK O2 : O2 = {f[o] : o \in O} \cup {new}
  OBVIOUS
<1>10. ObservationsOK(S, O2)
  <2>1. PICK O1 : O1 = {f[o] : o \in O}
    OBVIOUS
  <2>2. ObservationsOK(S, O1)
    BY <1>4, <1>8, <2>1, EachObservation DEF ObservationsOK
  <2> QED BY <1>6, <1>9, <2>1, <2>2, FS_AddElement DEF ObservationsOK
<1>11. q = [p EXCEPT !.sessions[e.session].observations = O2]
  <2>1. {IF replaced(o) THEN [o EXCEPT !.status = "SUPERSEDED"] ELSE o : o \in O} = {f[o] : o \in O}
    BY <1>7
  <2>2. q = [p EXCEPT !.sessions[e.session].observations =
               {IF replaced(o) THEN [o EXCEPT !.status = "SUPERSEDED"] ELSE o : o \in O} \cup {new}]
    BY <1>1, <1>2, <1>3, <1>5 DEF Observe, Session, Whole
  <2> HIDE DEF replaced
  <2> QED BY <1>9, <2>1, <2>2
<1>12. PICK session2 : session2 = [session EXCEPT !.observations = O2]
  OBVIOUS
<1>13. q.sessions = [p.sessions EXCEPT ![e.session] = session2] /\ q.items = p.items
  BY <1>1, <1>2, <1>11, <1>12 DEF Whole
<1>14. SessionOK(S, session2)
  BY <1>2, <1>10, <1>12 DEF SessionOK
<1> HIDE DEF e
<1> QED BY <1>2, <1>13, <1>14, SessionPut

\* A corrected observation is well-formed.
LEMMA CorrectedObservation ==
  ASSUME NEW S, NEW o, IsObservation(S, o), NEW n \in S, NEW quantity \in Nat, NEW frozen,
         NEW new, new = CorrectObservation(o, n, quantity, frozen)
  PROVE  IsObservation(S, new)
<1>1. PICK late \in BOOLEAN : late = (frozen \/ o.status = "LATE")
  OBVIOUS
<1>2. PICK c : c = [event |-> n, quantity |-> quantity, late |-> late]
  OBVIOUS
<1>3. c \in Correction(S)
  BY <1>2 DEF Correction
<1>4. PICK old \in Seq(Correction(S)) : old = o.corrections
  BY DEF IsObservation
<1>5. Append(old, c) \in Seq(Correction(S))
  BY <1>3, AppendProperties
<1>6. PICK kept : kept = [o EXCEPT !.corrections = Append(old, c)]
  OBVIOUS
<1>7. IsObservation(S, kept)
  BY <1>5, <1>6 DEF IsObservation
<1>8. new = kept \/ \E s : new = [kept EXCEPT !.effective = quantity, !.status = s]
  BY <1>1, <1>2, <1>4, <1>6 DEF CorrectObservation
<1> QED BY <1>7, <1>8 DEF IsObservation

\* A correction leaves well-formed sessions and no stock moved.
LEMMA CorrectCountOK ==
  ASSUME NEW l, NEW S, NEW p, NEW n, Whole(p), SessionsOK(S, p.sessions), n \in S,
         IsSession(p, l[n].session), l[n].quantity \in Nat, NEW q, q = CorrectCount(l, p, n)
  PROVE  SessionsOK(S, q.sessions) /\ q.items = p.items
<1> DEFINE e == l[n]
<1>1. PICK session : session = p.sessions[e.session]
  OBVIOUS
<1>2. SessionOK(S, session) /\ e.session \in DOMAIN p.sessions
  BY <1>1 DEF SessionsOK, IsSession
<1>3. PICK O : O = session.observations
  OBVIOUS
<1>4. ObservationsOK(S, O)
  BY <1>2, <1>3 DEF SessionOK
<1>7. PICK f : f = [o \in O |-> IF o.event = e.target THEN CorrectObservation(o, n, e.quantity, session.cutoff.frozen) ELSE o]
  OBVIOUS
<1>8. DOMAIN f = O /\ \A o \in O : IsObservation(S, f[o])
  <2>1. ASSUME NEW o \in O PROVE IsObservation(S, f[o])
    <3>1. IsObservation(S, o) /\ (f[o] = o \/ f[o] = CorrectObservation(o, n, e.quantity, session.cutoff.frozen))
      BY <1>4, <1>7 DEF ObservationsOK
    <3> QED BY <3>1, CorrectedObservation
  <2> QED BY <1>7, <2>1
<1>9. PICK O2 : O2 = {f[o] : o \in O}
  OBVIOUS
<1>10. ObservationsOK(S, O2)
  BY <1>4, <1>8, <1>9, EachObservation DEF ObservationsOK
<1>11. q = [p EXCEPT !.sessions[e.session].observations = O2]
  <2>1. {IF o.event = e.target THEN CorrectObservation(o, n, e.quantity, session.cutoff.frozen) ELSE o : o \in O}
           = {f[o] : o \in O}
    BY <1>7
  <2>2. q = [p EXCEPT !.sessions[e.session].observations =
               {IF o.event = e.target THEN CorrectObservation(o, n, e.quantity, session.cutoff.frozen) ELSE o : o \in O}]
    BY <1>1, <1>2, <1>3 DEF CorrectCount, Session, Whole
  <2> QED BY <1>9, <2>1, <2>2
<1>12. PICK session2 : session2 = [session EXCEPT !.observations = O2]
  OBVIOUS
<1>13. q.sessions = [p.sessions EXCEPT ![e.session] = session2] /\ q.items = p.items
  BY <1>1, <1>2, <1>11, <1>12 DEF Whole
<1>14. SessionOK(S, session2)
  BY <1>2, <1>10, <1>12 DEF SessionOK
<1> HIDE DEF e
<1> QED BY <1>2, <1>13, <1>14, SessionPut

\* A submission leaves well-formed sessions and no stock moved.
LEMMA SubmitOK ==
  ASSUME NEW l, NEW S, NEW p, NEW n, Whole(p), SessionsOK(S, p.sessions),
         IsSession(p, l[n].session), NEW q, q = SubmitSession(l, p, n)
  PROVE  SessionsOK(S, q.sessions) /\ q.items = p.items
<1> DEFINE e == l[n]
<1>1. PICK session : session = p.sessions[e.session]
  OBVIOUS
<1>2. SessionOK(S, session) /\ e.session \in DOMAIN p.sessions
  BY <1>1 DEF SessionsOK, IsSession
<1>3. PICK O2 : O2 = ObservationsAt(session.observations, e.contributions, e.corrections)
  OBVIOUS
<1>4. ObservationsOK(S, O2)
  BY <1>2, <1>3, ObservationsAtOK DEF SessionOK
<1>5. PICK session2 : session2 = [session EXCEPT !.observations = O2, !.status = "SUBMITTED",
                                   !.cutoff = [frozen |-> TRUE, observations |-> e.contributions]]
  OBVIOUS
<1>6. q.sessions = [p.sessions EXCEPT ![e.session] = session2] /\ q.items = p.items
  <2>1. q = [p EXCEPT !.sessions[e.session] = session2]
    BY <1>1, <1>2, <1>3, <1>5 DEF SubmitSession, Session, SessionOK
  <2> QED BY <2>1 DEF Whole
<1>7. SessionOK(S, session2)
  BY <1>2, <1>4, <1>5 DEF SessionOK
<1> HIDE DEF e
<1> QED BY <1>2, <1>6, <1>7, SessionPut

\* Reopening leaves well-formed sessions and no stock moved.
LEMMA ReopenOK ==
  ASSUME NEW l, NEW S, NEW p, NEW n, Whole(p), SessionsOK(S, p.sessions),
         IsSession(p, l[n].session), NEW q, q = ReopenSession(l, p, n)
  PROVE  SessionsOK(S, q.sessions) /\ q.items = p.items
<1> DEFINE e == l[n]
<1>1. PICK session : session = p.sessions[e.session]
  OBVIOUS
<1>2. SessionOK(S, session) /\ e.session \in DOMAIN p.sessions
  BY <1>1 DEF SessionsOK, IsSession
<1>3. PICK O2 : O2 = ReopenedObservations(session.observations)
  OBVIOUS
<1>4. ObservationsOK(S, O2)
  BY <1>2, <1>3, ObservationsAtOK DEF SessionOK, ReopenedObservations
<1>5. PICK session2 : session2 = [session EXCEPT !.observations = O2, !.status = "ACTIVE", !.cutoff = NoCutoff]
  OBVIOUS
<1>6. q.sessions = [p.sessions EXCEPT ![e.session] = session2] /\ q.items = p.items
  <2>1. q = [p EXCEPT !.sessions[e.session] = session2]
    BY <1>1, <1>2, <1>3, <1>5 DEF ReopenSession, Session, SessionOK
  <2> QED BY <2>1 DEF Whole
<1>7. SessionOK(S, session2)
  BY <1>2, <1>4, <1>5 DEF SessionOK, NoCutoff
<1> HIDE DEF e
<1> QED BY <1>2, <1>6, <1>7, SessionPut

\* A cancellation leaves well-formed sessions and no stock moved.
LEMMA CancelOK ==
  ASSUME NEW l, NEW S, NEW p, NEW n, Whole(p), SessionsOK(S, p.sessions),
         IsSession(p, l[n].session), NEW q, q = CancelSession(l, p, n)
  PROVE  SessionsOK(S, q.sessions) /\ q.items = p.items
<1> DEFINE e == l[n]
<1>1. PICK session : session = p.sessions[e.session]
  OBVIOUS
<1>2. SessionOK(S, session) /\ e.session \in DOMAIN p.sessions
  BY <1>1 DEF SessionsOK, IsSession
<1>5. PICK session2 : session2 = [session EXCEPT !.status = "CANCELLED"]
  OBVIOUS
<1>6. q.sessions = [p.sessions EXCEPT ![e.session] = session2] /\ q.items = p.items
  BY <1>1, <1>2, <1>5 DEF CancelSession, Whole
<1>7. SessionOK(S, session2)
  BY <1>2, <1>5 DEF SessionOK
<1> HIDE DEF e
<1> QED BY <1>2, <1>6, <1>7, SessionPut

\* A finalization replaces the stock of the sizes that were counted by what was counted.
LEMMA ReconcileOK ==
  ASSUME NEW l, NEW S, NEW p, NEW n, Whole(p), SessionsOK(S, p.sessions), n \in S, NEW S0, ItemsOK(S0, p.items),
         IsSession(p, l[n].session), ReconcileFits(Session(p, l[n].session), l[n]),
         NEW q, q = ReconcileSession(l, p, n)
  PROVE  SessionsOK(S, q.sessions) /\ ItemsStep(p.items, q.items, n) /\ StockOK(q.items)
<1> DEFINE e == l[n]
<1>1. PICK session : session = p.sessions[e.session]
  OBVIOUS
<1>2. SessionOK(S, session) /\ e.session \in DOMAIN p.sessions
  BY <1>1 DEF SessionsOK, IsSession
<1>3. PICK frozen : frozen = FrozenAt(session, e.contributions, e.corrections)
  OBVIOUS
<1>4. ObservationsOK(S, frozen)
  BY <1>2, <1>3, FrozenOK
<1>5. e.totals = TotalsFor(frozen, e.contributions)
  BY <1>1, <1>3 DEF ReconcileFits, Session
<1>6. \A i \in DOMAIN e.totals : e.totals[i] \in Nat
  BY <1>4, <1>5, TotalsAreNumbers
<1>7. PICK f : f = [o \in frozen |-> IF o.event \in e.contributions THEN o ELSE [o EXCEPT !.status = "LATE"]]
  OBVIOUS
<1>8. DOMAIN f = frozen /\ \A o \in frozen : IsObservation(S, f[o])
  <2>1. ASSUME NEW o \in frozen PROVE IsObservation(S, f[o])
    <3>1. IsObservation(S, o) /\ (f[o] = o \/ f[o] = [o EXCEPT !.status = "LATE"])
      BY <1>4, <1>7 DEF ObservationsOK
    <3> QED BY <3>1 DEF IsObservation
  <2> QED BY <1>7, <2>1
<1>9. PICK O2 : O2 = {f[o] : o \in frozen}
  OBVIOUS
<1>10. ObservationsOK(S, O2)
  BY <1>4, <1>8, <1>9, EachObservation DEF ObservationsOK
<1> DEFINE moved == {i \in DOMAIN e.totals : MovedSinceBaseline(l, p, session, i)}
<1>11. PICK session2 : session2 =
         [session EXCEPT !.status = "RECONCILED", !.finalizer = n, !.warnings = moved,
                         !.cutoff = [frozen |-> TRUE, observations |-> e.contributions], !.observations = O2]
  OBVIOUS
<1> DEFINE measured(i) == Touch([p.items[i] EXCEPT !.onHand = e.totals[i], !.counted = n], n)
<1>12. PICK items2 : items2 = [i \in Item |-> IF i \in DOMAIN e.totals THEN measured(i) ELSE p.items[i]]
  OBVIOUS
<1>13. q = [p EXCEPT !.sessions[e.session] = session2, !.items = items2]
  <2>1. {IF o.event \in e.contributions THEN o ELSE [o EXCEPT !.status = "LATE"] : o \in frozen} = O2
    BY <1>7, <1>9
  <2>2. q = [p EXCEPT
         !.sessions[e.session] =
           [session EXCEPT !.status = "RECONCILED", !.finalizer = n, !.warnings = moved,
              !.cutoff = [frozen |-> TRUE, observations |-> e.contributions],
              !.observations = {IF o.event \in e.contributions THEN o ELSE [o EXCEPT !.status = "LATE"] : o \in frozen}],
         !.items = items2]
    BY <1>1, <1>3, <1>12 DEF ReconcileSession, Session
  <2> HIDE DEF moved, measured
  <2> QED BY <1>11, <2>1, <2>2
<1>14. q.sessions = [p.sessions EXCEPT ![e.session] = session2] /\ q.items = items2
  BY <1>13 DEF Whole
<1>15. SessionOK(S, session2)
  <2> HIDE DEF moved
  <2> QED BY <1>2, <1>10, <1>11 DEF SessionOK
<1>16. SessionsOK(S, q.sessions)
  <2> HIDE DEF e, moved
  <2> QED BY <1>2, <1>14, <1>15, SessionPut
<1>17. ASSUME NEW i \in Item
       PROVE  LeftOrBumped(p.items, items2, n, i) /\ items2[i].onHand \in Nat /\ items2[i].issued \in Nat
  <2>1. IsItem(S0, p.items[i])
    BY DEF ItemsOK
  <2>2. CASE i \notin DOMAIN e.totals
    BY <1>12, <2>1, <2>2 DEF LeftOrBumped, IsItem
  <2>3. CASE i \in DOMAIN e.totals
    <3>1. PICK it, new, k : it = p.items[i] /\ new = measured(i) /\ k = e.totals[i]
      OBVIOUS
    <3>2. new = Touch([it EXCEPT !.onHand = k, !.counted = n], n) /\ k \in Nat
      BY <1>6, <2>3, <3>1
    <3>3. Bumps(it, new, n) /\ new.onHand \in Nat /\ new.issued \in Nat
      BY ONLY <2>1, <3>1, <3>2 DEF IsItem, Touch, Bumps
    <3>4. items2[i] = new
      BY <1>12, <2>3, <3>1
    <3> QED BY <3>1, <3>3, <3>4 DEF LeftOrBumped
  <2> QED BY <2>2, <2>3
<1>18. ItemsStep(p.items, q.items, n) /\ StockOK(q.items)
  BY <1>12, <1>14, <1>17 DEF ItemsStep, StockOK
<1> QED BY <1>16, <1>18

\* A count event leaves well-formed sessions, and stock that is no less than zero.
LEMMA CountOK ==
  ASSUME NEW l, NEW S, NEW p, NEW n, Whole(p), SessionsOK(S, p.sessions), n \in S, NEW S0, ItemsOK(S0, p.items),
         IsCommand(l[n]), l[n].type \in CountEvents, ~ CountThrows(l, p, n), NEW q, q = ApplyCount(l, p, n)
  PROVE  SessionsOK(S, q.sessions) /\ ItemsStep(p.items, q.items, n) /\ StockOK(q.items)
<1> DEFINE t == l[n].type
<1>0. ASSUME q.items = p.items PROVE ItemsStep(p.items, q.items, n) /\ StockOK(q.items)
  BY <1>0, ItemsLeft
<1>1. t # "COUNT_SESSION_CREATED" => IsSession(p, l[n].session)
  BY DEF CountThrows
<1>2. CASE t = "COUNT_SESSION_CREATED"
  <2>1. q = OpenSession(l, p, n)
    BY <1>2 DEF ApplyCount
  <2> QED BY <1>0, <2>1, OpenOK
<1>3. CASE t \in {"COUNT_CONTRIBUTED", "COUNT_RECOUNTED"}
  <2>1. q = Observe(l, p, n)
    BY <1>3 DEF ApplyCount
  <2>2. l[n].quantity \in Nat /\ IsSession(p, l[n].session)
    BY <1>1, <1>3 DEF IsCommand
  <2> QED BY <1>0, <2>1, <2>2, ObserveOK
<1>4. CASE t = "COUNT_CORRECTED"
  <2>1. q = CorrectCount(l, p, n)
    BY <1>4 DEF ApplyCount
  <2>2. l[n].quantity \in Nat /\ IsSession(p, l[n].session)
    BY <1>1, <1>4 DEF IsCommand
  <2> QED BY <1>0, <2>1, <2>2, CorrectCountOK
<1>5. CASE t = "COUNT_SESSION_SUBMITTED"
  <2>1. q = SubmitSession(l, p, n) /\ IsSession(p, l[n].session)
    BY <1>1, <1>5 DEF ApplyCount
  <2> QED BY <1>0, <2>1, SubmitOK
<1>6. CASE t = "COUNT_SESSION_REOPENED"
  <2>1. q = ReopenSession(l, p, n) /\ IsSession(p, l[n].session)
    BY <1>1, <1>6 DEF ApplyCount
  <2>2. SessionsOK(S, q.sessions) /\ q.items = p.items
    BY ONLY <2>1, Whole(p), SessionsOK(S, p.sessions), ReopenOK
  <2> QED BY <1>0, <2>2
<1>7. CASE t = "COUNT_SESSION_RECONCILED"
  <2>1. q = ReconcileSession(l, p, n) /\ IsSession(p, l[n].session)
    BY <1>1, <1>7 DEF ApplyCount
  <2>2. ReconcileFits(Session(p, l[n].session), l[n])
    BY <1>7 DEF CountThrows
  <2> QED BY <2>1, <2>2, ReconcileOK
<1>8. CASE t = "COUNT_SESSION_CANCELLED"
  <2>1. q = CancelSession(l, p, n) /\ IsSession(p, l[n].session)
    BY <1>1, <1>8 DEF ApplyCount
  <2> QED BY <1>0, <2>1, CancelOK
<1> QED BY <1>2, <1>3, <1>4, <1>5, <1>6, <1>7, <1>8 DEF CountEvents

-----------------------------------------------------------------------------
(* What one event does, part by part of a projection.                      *)

\* What a projection of the events in S looks like.
Typed(l, S, p) ==
  /\ Whole(p) /\ ItemsOK(S, p.items) /\ HeldOK(S, p.held) /\ NeedsOK(S, p.needs)
  /\ TransactionsOK(l, S, p.transactions) /\ ConflictsOK(S, p.conflicts) /\ SessionsOK(S, p.sessions)

\* An event that may be applied next to what the events of S left.
Next1(l, S, all, p, n) ==
  /\ Newest(l, S, n) /\ S \subseteq all /\ \A m \in all : IsCommand(l[m])
  /\ IsCommand(l[n]) /\ \A m \in S : IsCommand(l[m])
  /\ ~ Throws(l, all, p, n)

\* An event that does not throw met the conditions of its handler.
LEMMA WhatThrows ==
  ASSUME NEW l, NEW all, NEW p, NEW n, IsCommand(l[n]), ~ Throws(l, all, p, n)
  PROVE  /\ l[n].type \in CountEvents => ~ CountThrows(l, p, n)
         /\ l[n].type \in NeedChanges => ~ ChangeNeedThrows(l, p, n)
         /\ l[n].type = "CONFLICT_RESOLVED" => ~ ResolveThrows(l, p, n)
         /\ l[n].type = "RECORD_CORRECTED" => Correctable(l, p, all, l[n].target, l[n].line)
<1> USE DEF CountEvents, CalendarEvents, NeedChanges
<1>1. CASE l[n].type \in CountEvents
  BY <1>1 DEF Throws
<1>2. CASE l[n].type \in NeedChanges
  BY <1>2 DEF Throws
<1>3. CASE l[n].type = "CONFLICT_RESOLVED"
  BY <1>3 DEF Throws
<1>4. CASE l[n].type = "RECORD_CORRECTED"
  BY <1>4 DEF Throws
<1> QED BY <1>1, <1>2, <1>3, <1>4

\* What an event that may be applied next is.
LEMMA NextOne ==
  ASSUME NEW l, NEW S, NEW all, NEW p, NEW n, Next1(l, S, all, p, n)
  PROVE  S \subseteq Nat /\ n \in Nat /\ n \notin S /\ IsFiniteSet(S) /\ IsCommand(l[n]) /\ l[n].type \in EventTypes
<1>1. IsCommand(l[n]) /\ Newest(l, S, n)
  BY DEF Next1
<1>2. l[n].type \in EventTypes
  BY <1>1 DEF IsCommand
<1>3. Placed(l, S \cup {n}) /\ n \notin S
  BY <1>1 DEF Newest
<1>4. IsFiniteSet(S)
  BY <1>3, FS_Subset DEF Placed
<1> QED BY <1>1, <1>2, <1>3, <1>4 DEF Placed

\* A projection as an issue or a return finds it and leaves it.
LEMMA IssueStep ==
  ASSUME NEW l, NEW S, NEW all, NEW p, NEW n, Typed(l, S, p), Next1(l, S, all, p, n), l[n].type = "ITEM_ISSUED",
         NEW q, q = Effect(l, p, n)
  PROVE  /\ ItemsStep(p.items, q.items, n) /\ StockOK(q.items) /\ HeldOK(S \cup {n}, q.held)
         /\ NeedsOK(S \cup {n}, q.needs) /\ TransactionsOK(l, S \cup {n}, q.transactions)
<1>1. q = IssueTransaction(l, p, n)
  BY DEF Effect, CountEvents, CalendarEvents, NeedChanges
<1>2. S \subseteq Nat /\ n \in Nat /\ IsCommand(l[n])
  BY NextOne
<1> QED BY <1>1, <1>2, IssueOK DEF Typed

\* A return, as the next event, leaves its parts well-formed.
LEMMA ReturnStep ==
  ASSUME NEW l, NEW S, NEW all, NEW p, NEW n, Typed(l, S, p), Next1(l, S, all, p, n), l[n].type = "ITEM_RETURNED",
         NEW q, q = Effect(l, p, n)
  PROVE  /\ ItemsStep(p.items, q.items, n) /\ StockOK(q.items) /\ HeldOK(S \cup {n}, q.held)
         /\ TransactionsOK(l, S \cup {n}, q.transactions)
<1>1. q = ReturnTransaction(l, p, n)
  BY DEF Effect, CountEvents, CalendarEvents, NeedChanges
<1>2. n \notin S /\ IsCommand(l[n])
  BY NextOne
<1> QED BY <1>1, <1>2, ReturnOK DEF Typed

\* The correction of an issued size, as the next event, leaves its parts well-formed.
LEMMA SizeStep ==
  ASSUME NEW l, NEW S, NEW all, NEW p, NEW n, Typed(l, S, p), Next1(l, S, all, p, n), l[n].type = "PROPERTY_CORRECTED",
         NEW q, q = Effect(l, p, n)
  PROVE  ItemsStep(p.items, q.items, n) /\ StockOK(q.items) /\ HeldOK(S \cup {n}, q.held)
<1>1. q = CorrectSize(l, p, n)
  BY DEF Effect, CountEvents, CalendarEvents, NeedChanges
<1>2. n \notin S /\ IsCommand(l[n])
  BY NextOne
<1> QED BY <1>1, <1>2, CorrectSizeOK DEF Typed

\* The correction of a record, as the next event, leaves its parts well-formed.
LEMMA RecordStep ==
  ASSUME NEW l, NEW S, NEW all, NEW p, NEW n, Typed(l, S, p), Next1(l, S, all, p, n), l[n].type = "RECORD_CORRECTED",
         NEW q, q = Effect(l, p, n)
  PROVE  /\ ItemsStep(p.items, q.items, n) /\ StockOK(q.items) /\ HeldOK(S \cup {n}, q.held)
         /\ TransactionsOK(l, S \cup {n}, q.transactions)
<1>1. q = CorrectRecord(l, p, n)
  BY DEF Effect, CountEvents, CalendarEvents, NeedChanges
<1>2. IsCommand(l[n]) /\ \A m \in all : IsCommand(l[m])
  BY DEF Next1
<1>3. Correctable(l, p, all, l[n].target, l[n].line)
  BY <1>2, WhatThrows DEF Next1
<1> QED BY <1>1, <1>2, <1>3, CorrectRecordOK DEF Typed

\* Every event changes a size by adding itself to it, and leaves no stock below zero.
LEMMA ItemsEffect ==
  ASSUME NEW l, NEW S, NEW all, NEW p, NEW n, Typed(l, S, p), Next1(l, S, all, p, n), NEW q, q = Effect(l, p, n)
  PROVE  ItemsStep(p.items, q.items, n) /\ StockOK(q.items)
<1> DEFINE t == l[n].type
<1>0. IsCommand(l[n]) /\ Whole(p) /\ ItemsOK(S, p.items) /\ n \notin S
  BY NextOne DEF Typed
<1>1. CASE t = "INVENTORY_RECEIVED"
  <2>1. q = ReceiveStock(l, p, n)
    BY <1>1 DEF Effect, CountEvents, CalendarEvents, NeedChanges
  <2>2. l[n].item \in Item /\ l[n].quantity \in Nat
    BY <1>0, <1>1 DEF IsCommand, Positive
  <2> QED BY <1>0, <2>1, <2>2, ReceiveItems
<1>2. CASE t = "ITEM_ISSUED"
  BY <1>2, IssueStep
<1>3. CASE t = "ITEM_RETURNED"
  BY <1>3, ReturnStep
<1>4. CASE t = "PROPERTY_CORRECTED"
  BY <1>4, SizeStep
<1>5. CASE t = "RECORD_CORRECTED"
  BY <1>5, RecordStep
<1>6. CASE t = "CATALOG_ITEM_UPDATED"
  <2>1. q = UpdateCatalog(l, p, n)
    BY <1>6 DEF Effect, CountEvents, CalendarEvents, NeedChanges
  <2> QED BY <1>0, <2>1, CatalogItems
<1>7. CASE t = "CATALOG_SIZES_ADDED"
  <2>1. q = AddSizes(l, p, n)
    BY <1>7 DEF Effect, CountEvents, CalendarEvents, NeedChanges
  <2> QED BY <1>0, <2>1, SizesItems
<1>8. CASE t = "INVENTORY_ITEM_UPDATED"
  <2>1. q = UpdateItem(l, p, n)
    BY <1>8 DEF Effect, CountEvents, CalendarEvents, NeedChanges
  <2>2. l[n].item \in Item
    BY <1>0, <1>8 DEF IsCommand
  <2> QED BY <1>0, <2>1, <2>2, SizeItems
<1>9. CASE t \in CountEvents
  <2>1. q = ApplyCount(l, p, n)
    BY <1>9 DEF Effect, CountEvents, CalendarEvents, NeedChanges
  <2>2. ~ CountThrows(l, p, n)
    BY <1>0, <1>9, WhatThrows DEF Next1
  <2>3. SessionsOK(S \cup {n}, p.sessions)
    BY SessionsStay DEF Typed
  <2> QED BY <1>0, <1>9, <2>1, <2>2, <2>3, CountOK
<1>10. CASE t \notin StockMovers \cup CountEvents \cup {"CATALOG_ITEM_UPDATED", "CATALOG_SIZES_ADDED", "INVENTORY_ITEM_UPDATED"}
  <2>1. q.items = p.items
    BY <1>0, <1>10, EffectKeeps
  <2> QED BY <1>0, <2>1, ItemsLeft
<1> QED BY <1>1, <1>2, <1>3, <1>4, <1>5, <1>6, <1>7, <1>8, <1>9, <1>10 DEF StockMovers

\* Every event leaves well-formed holdings.
LEMMA HeldEffect ==
  ASSUME NEW l, NEW S, NEW all, NEW p, NEW n, Typed(l, S, p), Next1(l, S, all, p, n), NEW q, q = Effect(l, p, n)
  PROVE  HeldOK(S \cup {n}, q.held)
<1> DEFINE t == l[n].type
<1>1. CASE t \notin {"ITEM_ISSUED", "ITEM_RETURNED", "PROPERTY_CORRECTED", "RECORD_CORRECTED"}
  <2>1. IsCommand(l[n]) /\ Whole(p) /\ HeldOK(S, p.held)
    BY NextOne DEF Typed
  <2>2. q.held = p.held
    BY <1>1, <2>1, EffectKeeps
  <2> QED BY <2>1, <2>2, HeldStays
<1>2. CASE t = "ITEM_ISSUED"
  BY <1>2, IssueStep
<1>3. CASE t = "ITEM_RETURNED"
  BY <1>3, ReturnStep
<1>4. CASE t = "PROPERTY_CORRECTED"
  BY <1>4, SizeStep
<1>5. CASE t = "RECORD_CORRECTED"
  BY <1>5, RecordStep
<1> QED BY <1>1, <1>2, <1>3, <1>4, <1>5

\* Every event leaves well-formed needs.
LEMMA NeedsEffect ==
  ASSUME NEW l, NEW S, NEW all, NEW p, NEW n, Typed(l, S, p), Next1(l, S, all, p, n), NEW q, q = Effect(l, p, n)
  PROVE  NeedsOK(S \cup {n}, q.needs)
<1> DEFINE t == l[n].type
<1>0. IsCommand(l[n]) /\ Whole(p) /\ NeedsOK(S, p.needs) /\ \A m \in S : IsCommand(l[m])
  BY DEF Typed, Next1
<1>1. CASE t \notin {"ITEM_ISSUED", "STILL_NEEDED_ADDED", "CONFLICT_RESOLVED"} \cup NeedChanges
  <2>1. q.needs = p.needs
    BY <1>0, <1>1, EffectKeeps
  <2> QED BY <1>0, <2>1, NeedsStay
<1>2. CASE t = "ITEM_ISSUED"
  BY <1>2, IssueStep
<1>3. CASE t = "STILL_NEEDED_ADDED"
  <2>1. q = AddNeed(l, p, n)
    BY <1>3 DEF Effect, CountEvents, CalendarEvents, NeedChanges
  <2>2. l[n].cadet \in Cadet /\ l[n].quantity \in Positive
    BY <1>0, <1>3 DEF IsCommand
  <2> QED BY <1>0, <2>1, <2>2, AddNeedOK
<1>4. CASE t = "CONFLICT_RESOLVED"
  <2>1. q = Resolve(l, p, n)
    BY <1>4 DEF Effect, CountEvents, CalendarEvents, NeedChanges
  <2>2. ~ ResolveThrows(l, p, n) /\ ConflictsOK(S, p.conflicts)
    BY <1>0, <1>4, WhatThrows DEF Next1, Typed
  <2> QED BY <1>0, <2>1, <2>2, ResolveOK
<1>5. CASE t \in NeedChanges
  <2>1. q = ChangeNeed(l, p, n)
    BY <1>5 DEF Effect, CountEvents, CalendarEvents, NeedChanges
  <2>2. ~ ChangeNeedThrows(l, p, n)
    BY <1>0, <1>5, WhatThrows DEF Next1
  <2> QED BY <1>0, <1>5, <2>1, <2>2, ChangeNeedOK
<1> QED BY <1>1, <1>2, <1>3, <1>4, <1>5

\* Every event leaves well-formed records of issues and returns.
LEMMA TransactionsEffect ==
  ASSUME NEW l, NEW S, NEW all, NEW p, NEW n, Typed(l, S, p), Next1(l, S, all, p, n), NEW q, q = Effect(l, p, n)
  PROVE  TransactionsOK(l, S \cup {n}, q.transactions)
<1> DEFINE t == l[n].type
<1>1. CASE t \notin {"ITEM_ISSUED", "ITEM_RETURNED", "RECORD_CORRECTED"}
  <2>1. IsCommand(l[n]) /\ Whole(p) /\ TransactionsOK(l, S, p.transactions)
    BY NextOne DEF Typed
  <2>2. q.transactions = p.transactions
    BY <1>1, <2>1, EffectKeeps
  <2> QED BY <2>1, <2>2, TransactionsStay
<1>2. CASE t = "ITEM_ISSUED"
  BY <1>2, IssueStep
<1>3. CASE t = "ITEM_RETURNED"
  BY <1>3, ReturnStep
<1>5. CASE t = "RECORD_CORRECTED"
  BY <1>5, RecordStep
<1> QED BY <1>1, <1>2, <1>3, <1>5

\* Every event leaves well-formed conflicts.
LEMMA ConflictsEffect ==
  ASSUME NEW l, NEW S, NEW all, NEW p, NEW n, Typed(l, S, p), Next1(l, S, all, p, n), NEW q, q = Effect(l, p, n)
  PROVE  ConflictsOK(S \cup {n}, q.conflicts)
<1>0. IsCommand(l[n]) /\ Whole(p) /\ NeedsOK(S, p.needs) /\ ConflictsOK(S, p.conflicts) /\ \A m \in S : IsCommand(l[m])
  BY DEF Typed, Next1
<1>1. CASE l[n].type = "CONFLICT_RESOLVED"
  <2>1. q = Resolve(l, p, n)
    BY <1>1 DEF Effect, CountEvents, CalendarEvents, NeedChanges
  <2>2. ~ ResolveThrows(l, p, n)
    BY <1>0, <1>1, WhatThrows DEF Next1
  <2> QED BY <1>0, <2>1, <2>2, ResolveOK
<1>2. CASE l[n].type # "CONFLICT_RESOLVED"
  BY <1>0, <1>2, EffectConflicts, ConflictsAddedOK
<1> QED BY <1>1, <1>2

\* Every event leaves well-formed sessions.
LEMMA SessionsEffect ==
  ASSUME NEW l, NEW S, NEW all, NEW p, NEW n, Typed(l, S, p), Next1(l, S, all, p, n), NEW q, q = Effect(l, p, n)
  PROVE  SessionsOK(S \cup {n}, q.sessions)
<1>0. IsCommand(l[n]) /\ Whole(p) /\ ItemsOK(S, p.items) /\ SessionsOK(S \cup {n}, p.sessions)
  BY SessionsStay DEF Typed, Next1
<1>1. CASE l[n].type \in CountEvents
  <2>1. q = ApplyCount(l, p, n)
    BY <1>1 DEF Effect, CountEvents, CalendarEvents, NeedChanges
  <2>2. ~ CountThrows(l, p, n)
    BY <1>0, <1>1, WhatThrows DEF Next1
  <2> QED BY <1>0, <1>1, <2>1, <2>2, CountOK
<1>2. CASE l[n].type \notin CountEvents
  <2>1. q.sessions = p.sessions
    BY <1>0, <1>2, EffectKeeps
  <2> QED BY <1>0, <2>1
<1> QED BY <1>1, <1>2

\* Whoever lost has a conflict; each of them was applied, and only the event itself is new.
Losers(conflicts) == {x.loser : x \in conflicts}

\* An event is in conflict over itself only.
LEMMA LosersEffect ==
  ASSUME NEW l, NEW S, NEW all, NEW p, NEW n, Typed(l, S, p), Next1(l, S, all, p, n), NEW q, q = Effect(l, p, n)
  PROVE  Losers(q.conflicts) \subseteq Losers(p.conflicts) \cup {n}
<1>0. IsCommand(l[n]) /\ Whole(p)
  BY DEF Typed, Next1
<1>1. CASE l[n].type = "CONFLICT_RESOLVED"
  <2>1. q = Resolve(l, p, n)
    BY <1>1 DEF Effect, CountEvents, CalendarEvents, NeedChanges
  <2>e. PICK e : e = l[n]
    OBVIOUS
  <2>2. CASE ~ IsOpenConflict(p, e.loser)
    BY <2>1, <2>e, <2>2 DEF Resolve
  <2>3. CASE IsOpenConflict(p, e.loser)
    <3>2. q.conflicts = {IF x.loser = e.loser THEN [x EXCEPT !.status = "RESOLVED", !.by = n, !.outcome = e.outcome]
                         ELSE x : x \in p.conflicts}
      BY <1>0, <2>1, <2>e, <2>3 DEF Resolve, Whole
    <3>3. \A x \in p.conflicts : DOMAIN x = {"loser", "status", "by", "outcome"}
      BY DEF Typed, ConflictsOK, IsConflict
    <3>4. ASSUME NEW y \in q.conflicts PROVE y.loser \in Losers(p.conflicts)
      <4>1. PICK x \in p.conflicts :
              y = IF x.loser = e.loser THEN [x EXCEPT !.status = "RESOLVED", !.by = n, !.outcome = e.outcome] ELSE x
        BY <3>2
      <4>2. y.loser = x.loser
        BY <3>3, <4>1
      <4> QED BY <4>2 DEF Losers
    <3> QED BY <3>4 DEF Losers
  <2> QED BY <2>2, <2>3
<1>2. CASE l[n].type # "CONFLICT_RESOLVED"
  <2>1. ConflictAdded(p.conflicts, q.conflicts, n)
    BY <1>0, <1>2, EffectConflicts
  <2> QED BY <2>1 DEF ConflictAdded, Losers
<1> QED BY <1>1, <1>2

\* Nothing that is applied is impossible.
LEMMA EffectTyped ==
  ASSUME NEW l, NEW S, NEW all, NEW p, NEW n, Typed(l, S, p), Next1(l, S, all, p, n), NEW q, q = Effect(l, p, n)
  PROVE  Typed(l, S \cup {n}, q) /\ ~ projectionViolation(q)
<1>1. IsCommand(l[n]) /\ Whole(p) /\ ItemsOK(S, p.items)
  BY DEF Typed, Next1
<1>2. Whole(q)
  BY <1>1, EffectKeeps, KeptWhole
<1>3. ItemsStep(p.items, q.items, n) /\ StockOK(q.items)
  BY ItemsEffect
<1>4. ItemsOK(S \cup {n}, q.items)
  BY <1>1, <1>3, ItemsStepped
<1>5. HeldOK(S \cup {n}, q.held)
  BY HeldEffect
<1>6. NeedsOK(S \cup {n}, q.needs)
  BY NeedsEffect
<1>7. TransactionsOK(l, S \cup {n}, q.transactions)
  BY TransactionsEffect
<1>8. ConflictsOK(S \cup {n}, q.conflicts)
  BY ConflictsEffect
<1>9. SessionsOK(S \cup {n}, q.sessions)
  BY SessionsEffect
<1>10. \A i \in Item : ~ (q.items[i].onHand < 0) /\ ~ (q.items[i].issued < 0)
  BY <1>3 DEF StockOK
<1>11. \A line \in q.held : ~ (line.quantity <= 0)
  BY <1>5 DEF HeldOK, IsHeld, Positive
<1>12. \A need \in q.needs : need.fulfilled \in 0 .. need.needed
  BY <1>6 DEF NeedsOK, IsNeed
<1> QED BY <1>2, <1>4, <1>5, <1>6, <1>7, <1>8, <1>9, <1>10, <1>11, <1>12 DEF Typed, projectionViolation

\* What a device shows of the events in S: nothing was set aside.
Settled(l, S, p) ==
  /\ Typed(l, S, p) /\ p.unsafe = {} /\ p.rejected \subseteq S
  /\ Losers(p.conflicts) \subseteq S \ p.rejected

\* A well-formed projection stays so next to more events.
LEMMA TypedStays ==
  ASSUME NEW l, NEW S, NEW n, NEW p, Typed(l, S, p)
  PROVE  Typed(l, S \cup {n}, p)
BY ItemsStay, HeldStays, NeedsStay, TransactionsStay, ConflictsStay, SessionsStay DEF Typed

\* A projection that shows the same is as well-formed.
LEMMA TypedAlike ==
  ASSUME NEW l, NEW S, NEW p, Typed(l, S, p), NEW q, Alike(p, q)
  PROVE  Typed(l, S, q)
BY DEF Typed, Alike

\* An event is thrown, or it has its effect.
LEMMA ThrownOrApplied ==
  ASSUME NEW l, NEW all, NEW p, Whole(p), NEW n, IsCommand(l[n]), NEW q, q = TryApply(l, all, p, n),
         ~ Throws(l, all, p, n) => ~ projectionViolation(Effect(l, p, n))
  PROVE  \/ Throws(l, all, p, n) /\ Refused(p, n, q) /\ q.unsafe = p.unsafe
         \/ Accepted(l, all, p, n, Effect(l, p, n), q)
<1>1. CASE Throws(l, all, p, n)
  BY <1>1 DEF TryApply, Whole, Alike, Refused
<1>2. CASE ~ Throws(l, all, p, n)
  <2> DEFINE r == Effect(l, p, n)
  <2>1. Kept(p, r) /\ Whole(r)
    BY EffectKeeps, KeptWhole
  <2>2. q = [r EXCEPT !.clock = Max({@, l[n].clock})]
    BY <1>2 DEF TryApply, Accept
  <2>0. ~ projectionViolation(r)
    BY <1>2
  <2> HIDE DEF r
  <2>3. Alike(r, q) /\ q.clock = Max({r.clock, l[n].clock}) /\ q.rejected = r.rejected /\ q.unsafe = r.unsafe
    BY <2>1, <2>2 DEF Whole, Alike
  <2>4. r.clock = p.clock /\ r.rejected = p.rejected /\ r.unsafe = p.unsafe
    BY <2>1 DEF Kept
  <2> QED BY <1>2, <2>0, <2>3, <2>4 DEF r, Accepted
<1> QED BY <1>1, <1>2

\* No event that commands let through leaves an impossible state to set aside.
LEMMA SettledKept ==
  ASSUME NEW l, NEW S, NEW all, S \subseteq all, \A m \in all : IsCommand(l[m]), NEW n \in all,
         NEW p, Settled(l, S, p), Newest(l, S, n), NEW q, q = TryApply(l, all, p, n)
  PROVE  /\ Settled(l, S \cup {n}, q)
         /\ \/ Throws(l, all, p, n) /\ Refused(p, n, q)
            \/ Next1(l, S, all, p, n) /\ Accepted(l, all, p, n, Effect(l, p, n), q)
<1>1. Typed(l, S, p) /\ Whole(p) /\ IsCommand(l[n])
  BY DEF Settled, Typed
<1>2. ~ Throws(l, all, p, n) => Next1(l, S, all, p, n)
  BY DEF Next1
<1>3. PICK r : r = Effect(l, p, n)
  OBVIOUS
<1>4. ~ Throws(l, all, p, n) => Typed(l, S \cup {n}, r) /\ ~ projectionViolation(r)
  BY <1>1, <1>2, <1>3, EffectTyped
<1>5. \/ Throws(l, all, p, n) /\ Refused(p, n, q) /\ q.unsafe = p.unsafe
      \/ Accepted(l, all, p, n, r, q)
  BY <1>1, <1>3, <1>4, ThrownOrApplied
<1>6. n \notin S
  BY DEF Newest
<1>7. CASE Throws(l, all, p, n) /\ Refused(p, n, q) /\ q.unsafe = p.unsafe
  <2>1. Alike(p, q) /\ q.rejected = p.rejected \cup {n}
    BY <1>7 DEF Refused
  <2>2. Typed(l, S \cup {n}, q)
    BY <1>1, <2>1, TypedStays, TypedAlike
  <2>3. Losers(q.conflicts) = Losers(p.conflicts)
    BY <2>1 DEF Alike
  <2>4. Settled(l, S \cup {n}, q)
    BY <1>6, <1>7, <2>1, <2>2, <2>3 DEF Settled
  <2> QED BY <1>7, <2>4
<1>8. CASE Accepted(l, all, p, n, r, q)
  <2>1. ~ Throws(l, all, p, n) /\ Alike(r, q) /\ q.rejected = p.rejected /\ q.unsafe = p.unsafe
    BY <1>8 DEF Accepted
  <2>2. Typed(l, S \cup {n}, q)
    BY <1>4, <2>1, TypedAlike
  <2>3. Losers(r.conflicts) \subseteq Losers(p.conflicts) \cup {n}
    BY <1>1, <1>2, <1>3, <2>1, LosersEffect
  <2>4. q.conflicts = r.conflicts
    BY <2>1 DEF Alike
  <2>5. Settled(l, S \cup {n}, q)
    BY <1>6, <2>1, <2>2, <2>3, <2>4 DEF Settled
  <2> QED BY <1>2, <1>3, <1>8, <2>1, <2>5
<1> QED BY <1>5, <1>7, <1>8

\* The empty projection is well-formed and sets nothing aside.
LEMMA GenesisSettled ==
  ASSUME NEW l
  PROVE  Settled(l, {}, Genesis)
<1>1. \A i \in Item : IsItem({}, Unknown)
  BY EmptySeq DEF IsItem, Unknown
<1>2. ItemsOK({}, Genesis.items)
  BY <1>1 DEF ItemsOK, Genesis
<1>3. HeldOK({}, {}) /\ NeedsOK({}, {})
  BY FS_EmptySet DEF HeldOK, NeedsOK
<1>4. TransactionsOK(l, {}, <<>>) /\ SessionsOK({}, <<>>) /\ ConflictsOK({}, {})
  BY DEF TransactionsOK, SessionsOK, ConflictsOK
<1>5. Losers({}) = {}
  BY DEF Losers
<1> QED BY <1>2, <1>3, <1>4, <1>5, GenesisWhole DEF Settled, Typed, Genesis

\* What the fold shows of any events that commands signed.
LEMMA RebuildSettled ==
  ASSUME NEW l, NEW all, Placed(l, all), \A n \in all : IsCommand(l[n])
  PROVE  Settled(l, all, Rebuild(l, all))
<1>2. PICK f : Folds(f, l, all) /\ f[all] = Rebuild(l, all)
  BY RebuildFolds
<1> DEFINE P == {T \in SUBSET all : Settled(l, T, f[T])}
<1>3. {} \in P
  BY <1>2, GenesisSettled DEF Folds
<1>4. ASSUME NEW T \in P, NEW n \in all, Newest(l, T, n) PROVE T \cup {n} \in P
  <2>1. T \in SUBSET all /\ Settled(l, T, f[T])
    OBVIOUS
  <2>2. f[T \cup {n}] = TryApply(l, all, f[T], n)
    BY <1>2, <1>4, <2>1, FoldsNext
  <2>3. Settled(l, T \cup {n}, f[T \cup {n}])
    BY <1>4, <2>1, <2>2, SettledKept
  <2> QED BY <2>1, <2>3
<1>5. P \in SUBSET (SUBSET all)
  OBVIOUS
<1> HIDE DEF P
<1>6. all \in P
  BY <1>3, <1>4, <1>5, FoldInduction
<1> QED BY <1>2, <1>6 DEF P

-----------------------------------------------------------------------------
(* The state.                                                              *)

\* The first k events of the log; what comes later was signed after a device looked.
Until(k) == SubSeq(log, 1, k)
ShowsFold(d) ==
  \E k \in 0 .. Len(log) : known[d] \subseteq 1 .. k /\ projection[d] = Rebuild(Until(k), known[d])

\* A drawer shows writers that its device knew when it was loaded.
ShownOK(shown, all) ==
  \A c \in DOMAIN shown :
    /\ {"title", "notes"} \subseteq DOMAIN shown[c].fields
    /\ \A f \in DOMAIN shown[c].fields : shown[c].writers[f] \subseteq all

\* A log of commands, and what their authors had seen.
IsLog(l, sn) ==
  /\ l \in Seq(ToSet(l)) /\ sn \in Seq(SUBSET Nat) /\ Len(sn) = Len(l)
  /\ \A n \in DOMAIN l : SignedAt(l, sn, n)
LogOK == IsLog(log, seen)
WorkOK == work \in Work /\ Len(log) <= Len(work.founding) + work.budget
KnownOK == known \in [Device -> SUBSET DOMAIN log] /\ DOMAIN projection = Device
FormsOK ==
  /\ DOMAIN drawer = Device /\ DOMAIN form = Device
  /\ \A d \in Device : /\ drawer[d].known \subseteq known[d] /\ ShownOK(drawer[d].calendar, drawer[d].known)
                       /\ form[d].known \subseteq known[d]

\* The inductive invariant: every device shows the fold of commands that it knows.
RecordsInv == LogOK /\ WorkOK /\ KnownOK /\ FormsOK /\ \A d \in Device : ShowsFold(d)

\* What a device shows, as seen through the part of the log that it was folded from.
Shows(l, sn, all, p) ==
  /\ Placed(l, all) /\ Commands(l, sn, all) /\ p = Rebuild(l, all)
  /\ Shaped(l, sn, all, p) /\ Settled(l, all, p)

\* A projection is the fold of events on which a log agrees with the log.
LEMMA WhatIsShown ==
  ASSUME LogOK, KnownOK, NEW d \in Device, ShowsFold(d)
  PROVE  \E l : /\ \A n \in known[d] : l[n] = log[n]
                /\ Shows(l, seen, known[d], projection[d])
<1>1. PICK k \in 0 .. Len(log) : known[d] \subseteq 1 .. k /\ projection[d] = Rebuild(Until(k), known[d])
  BY DEF ShowsFold
<1>2. Len(log) \in Nat /\ known[d] \subseteq DOMAIN log /\ DOMAIN log = 1 .. Len(log)
  BY DEF LogOK, IsLog, KnownOK
<1>3. PICK l : l = Until(k)
  OBVIOUS
<1>4. \A n \in known[d] : l[n] = log[n]
  <2>1. PICK T : log \in Seq(T)
    BY DEF LogOK, IsLog
  <2>2. \A n \in 1 .. k : l[n] = log[n]
    BY <1>2, <1>3, <2>1 DEF Until
  <2> QED BY <1>1, <2>2
<1>5. \A n \in known[d] : SignedAt(l, seen, n) /\ l[n].clock \in Nat /\ l[n].author \in Nat /\ IsCommand(l[n])
  <2>1. ASSUME NEW n \in known[d] PROVE SignedAt(l, seen, n) /\ l[n].clock \in Nat /\ l[n].author \in Nat /\ IsCommand(l[n])
    <3>1. SignedAt(log, seen, n) /\ l[n] = log[n]
      BY <1>2, <1>4 DEF LogOK, IsLog
    <3>2. SignedAt(l, seen, n)
      BY <3>1 DEF SignedAt
    <3>3. IsCommand(l[n])
      BY <3>2 DEF SignedAt
    <3>4. l[n].clock \in Nat /\ l[n].author \in Device
      BY <3>3 DEF IsCommand
    <3> QED BY <3>2, <3>3, <3>4, RecordsAssumption
  <2> QED BY <2>1
<1>6. IsFiniteSet(known[d]) /\ known[d] \subseteq Nat
  <2>1. IsFiniteSet(1 .. k)
    BY FS_Interval
  <2> QED BY <1>1, <2>1, FS_Subset
<1>7. Placed(l, known[d]) /\ Commands(l, seen, known[d])
  BY <1>5, <1>6 DEF Placed, Commands
<1>8. projection[d] = Rebuild(l, known[d])
  BY <1>1, <1>3
<1>9. Shaped(l, seen, known[d], projection[d])
  BY <1>7, <1>8, RebuildShaped
<1>10. Settled(l, known[d], projection[d])
  BY <1>5, <1>7, <1>8, RebuildSettled
<1> QED BY <1>4, <1>7, <1>8, <1>9, <1>10 DEF Shows

-----------------------------------------------------------------------------
(* The commands.                                                           *)

\* What the command of a device comes to: the signed event is one that a command may
\* have signed, and it names writers only that its author had seen.
Signs(d) ==
  \E type, fields, view :
    /\ CommitSeeing(d, type, fields, view) /\ view \subseteq known[d]
    /\ \A e : e = Signed(d, type, projection[d].clock + 1, fields) =>
         /\ IsCommand(e)
         /\ type = "CALENDAR_EVENT_UPDATED" => \A f \in DOMAIN e.changes : e.base[f] \subseteq view

\* A signed event has its type, its author, its clock and the fields it was given.
LEMMA SignedFields ==
  ASSUME NEW d, NEW type, NEW clock, NEW fields, NEW e, e = Signed(d, type, clock, fields)
  PROVE  /\ e.type = type /\ e.author = d /\ e.clock = clock
         /\ \A f \in DOMAIN fields : f \notin {"type", "author", "clock"} => e[f] = fields[f]
BY DEF Signed

\* What every device shows before it signs.
Ready(d) ==
  /\ projection[d].clock + 1 \in Nat
  /\ HeldOK(known[d], projection[d].held)
\* A device in the invariant is ready to give any command.
LEMMA DeviceReady ==
  ASSUME RecordsInv, NEW d \in Device
  PROVE  Ready(d) /\ drawer[d].known \subseteq known[d] /\ form[d].known \subseteq known[d]
         /\ ShownOK(drawer[d].calendar, drawer[d].known)
<1>1. PICK l : Shows(l, seen, known[d], projection[d])
  BY WhatIsShown DEF RecordsInv
<1>2. projection[d].clock \in Nat
  BY <1>1 DEF Shows, Shaped
<1>3. HeldOK(known[d], projection[d].held)
  BY <1>1 DEF Shows, Settled, Typed
<1> QED BY <1>2, <1>3 DEF Ready, RecordsInv, FormsOK

\* Of most events only the kind is asked for.
Plain == EventTypes \ {"INVENTORY_RECEIVED", "ITEM_ISSUED", "ITEM_RETURNED", "PROPERTY_CORRECTED", "RECORD_CORRECTED",
                       "INVENTORY_ITEM_UPDATED", "CADETS_IMPORTED", "CADET_UPDATED", "STILL_NEEDED_ADDED",
                       "STILL_NEEDED_UPDATED", "STILL_NEEDED_FULFILLED", "STILL_NEEDED_CANCELLED",
                       "COUNT_CONTRIBUTED", "COUNT_RECOUNTED", "COUNT_CORRECTED", "CALENDAR_EVENT_CREATED",
                       "CALENDAR_EVENT_UPDATED"}

\* A command whose event may say anything signs an event.
LEMMA PlainSigns ==
  ASSUME NEW d \in Device, projection[d].clock + 1 \in Nat, NEW type \in Plain, NEW fields, NEW view,
         CommitSeeing(d, type, fields, view), view \subseteq known[d]
  PROVE  Signs(d)
<1>1. ASSUME NEW e, e = Signed(d, type, projection[d].clock + 1, fields)
      PROVE  IsCommand(e) /\ type # "CALENDAR_EVENT_UPDATED"
  <2>1. e.type = type /\ e.author = d /\ e.clock \in Nat
    BY <1>1, SignedFields
  <2>2. e.type \in EventTypes /\ type # "CALENDAR_EVENT_UPDATED"
    BY <2>1 DEF Plain
  <2> QED BY <2>1, <2>2 DEF IsCommand, Plain, NeedChanges
<1> QED BY <1>1 DEF Signs

\* Any other event.
LEMMA CommandSigns ==
  ASSUME NEW d \in Device, NEW type, NEW fields, NEW view,
         CommitSeeing(d, type, fields, view), view \subseteq known[d], type # "CALENDAR_EVENT_UPDATED",
         \A e : e = Signed(d, type, projection[d].clock + 1, fields) => IsCommand(e)
  PROVE  Signs(d)
BY DEF Signs

\* What officers ask for is a whole number above zero.
LEMMA Quantities ==
  ASSUME RecordsInv, NEW quantity \in work.quantities
  PROVE  quantity \in Positive
BY RecordsAssumption DEF RecordsInv, WorkOK

\* The fields of an event as its command gave them.
LEMMA StockCommands ==
  ASSUME RecordsInv, NEW d \in Device, NEW i \in Item, NEW quantity \in work.quantities
  PROVE  /\ Receive(d, i, quantity) => Signs(d)
         /\ \A c \in Cadet : \A need :
              /\ Issue(d, c, i, quantity, need, {}) => Signs(d)
              /\ \A j \in Item : Issue(d, c, i, quantity, need, {Missed(j, 1)}) => Signs(d)
         /\ \A line \in projection[d].held :
              /\ \A condition : Return(d, line, quantity, condition) => Signs(d)
              /\ CorrectIssuedSize(d, line, i, quantity) => Signs(d)
         /\ \A c \in Cadet : \A item, size : AddStillNeeded(d, c, item, size, quantity) => Signs(d)
         /\ \A need : ResizeNeed(d, need, quantity) => Signs(d)
<1>0. Ready(d) /\ quantity \in Positive
  BY DeviceReady, Quantities
<1>c. PICK clock \in Nat : clock = projection[d].clock + 1
  BY <1>0 DEF Ready
<1>1. ASSUME Receive(d, i, quantity) PROVE Signs(d)
  <2>1. PICK fields : fields = [item |-> i, quantity |-> quantity]
    OBVIOUS
  <2>2. CommitSeeing(d, "INVENTORY_RECEIVED", fields, known[d])
    BY <1>1, <2>1 DEF Receive, Commit
  <2>3. ASSUME NEW e, e = Signed(d, "INVENTORY_RECEIVED", clock, fields) PROVE IsCommand(e)
    <3>1. e.type = "INVENTORY_RECEIVED" /\ e.author = d /\ e.clock = clock /\ e.item = i /\ e.quantity = quantity
      BY <2>1, <2>3, SignedFields
    <3> QED BY <1>0, <3>1 DEF IsCommand, EventTypes, NeedChanges
  <2> QED BY <1>c, <2>2, <2>3, CommandSigns
<1>2. ASSUME NEW c \in Cadet, NEW need, NEW missing, IsFiniteSet(missing),
             \A m \in missing : m.quantity \in Positive /\ m.line \in Nat \ Item,
             \A m1 \in missing : \A m2 \in missing : m1.line = m2.line => m1 = m2,
             Issue(d, c, i, quantity, need, missing)
      PROVE  Signs(d)
  <2>1. PICK fields : fields = [cadet |-> c, lines |-> Just(i, quantity), named |-> Just(i, need), missing |-> missing]
    OBVIOUS
  <2>2. CommitSeeing(d, "ITEM_ISSUED", fields, known[d])
    BY <1>2, <2>1 DEF Issue, Commit
  <2>3. ASSUME NEW e, e = Signed(d, "ITEM_ISSUED", clock, fields) PROVE IsCommand(e)
    <3>1. e.type = "ITEM_ISSUED" /\ e.author = d /\ e.clock = clock /\ e.cadet = c /\ e.lines = Just(i, quantity)
          /\ e.missing = missing
      BY <2>1, <2>3, SignedFields
    <3>2. DOMAIN Just(i, quantity) = {i} /\ Just(i, quantity)[i] = quantity /\ IsFiniteSet({i})
      BY FS_Singleton DEF Just
    <3>3. /\ IsFiniteSet(e.missing)
          /\ \A m \in e.missing : m.quantity \in Positive /\ m.line \in Nat \ DOMAIN e.lines
          /\ \A m1 \in e.missing : \A m2 \in e.missing : m1.line = m2.line => m1 = m2
      BY <1>2, <3>1, <3>2
    <3> QED BY <1>0, <3>1, <3>2, <3>3 DEF IsCommand, EventTypes, NeedChanges
  <2> QED BY <1>c, <2>2, <2>3, CommandSigns
<1>3. ASSUME NEW line \in projection[d].held, NEW condition, Return(d, line, quantity, condition) PROVE Signs(d)
  <2>1. PICK asked : asked = [item |-> line.item, quantity |-> quantity, condition |-> condition]
    OBVIOUS
  <2>2. PICK fields : fields = [cadet |-> line.cadet, lines |-> Just(line.id, asked)]
    OBVIOUS
  <2>3. CommitSeeing(d, "ITEM_RETURNED", fields, known[d])
    BY <1>3, <2>1, <2>2 DEF Return, Commit
  <2>4. IsHeld(known[d], line)
    BY <1>0 DEF Ready, HeldOK
  <2>5. ASSUME NEW e, e = Signed(d, "ITEM_RETURNED", clock, fields) PROVE IsCommand(e)
    <3>1. e.type = "ITEM_RETURNED" /\ e.author = d /\ e.clock = clock /\ e.cadet = line.cadet /\ e.lines = Just(line.id, asked)
      BY <2>2, <2>5, SignedFields
    <3>2. PICK id, lines : id = line.id /\ lines = Just(line.id, asked)
      OBVIOUS
    <3>3. DOMAIN lines = {id} /\ lines[id] = asked /\ IsFiniteSet({id})
      BY <3>2, FS_Singleton DEF Just
    <3>4. asked.item \in Item /\ asked.quantity \in Positive /\ line.cadet \in Cadet
      BY <1>0, <2>1, <2>4 DEF IsHeld
    <3> QED BY <3>1, <3>2, <3>3, <3>4 DEF IsCommand, EventTypes, NeedChanges
  <2> QED BY <1>c, <2>3, <2>5, CommandSigns
<1>4. ASSUME NEW line \in projection[d].held, CorrectIssuedSize(d, line, i, quantity) PROVE Signs(d)
  <2>1. PICK fields : fields = [cadet |-> line.cadet, property |-> line.id, from |-> line.item, to |-> i, quantity |-> quantity]
    OBVIOUS
  <2>2. CommitSeeing(d, "PROPERTY_CORRECTED", fields, known[d]) /\ i # line.item
    BY <1>4, <2>1 DEF CorrectIssuedSize, Commit
  <2>3. IsHeld(known[d], line)
    BY <1>0 DEF Ready, HeldOK
  <2>4. ASSUME NEW e, e = Signed(d, "PROPERTY_CORRECTED", clock, fields) PROVE IsCommand(e)
    <3>1. e.type = "PROPERTY_CORRECTED" /\ e.author = d /\ e.clock = clock /\ e.cadet = line.cadet
          /\ e.from = line.item /\ e.to = i /\ e.quantity = quantity
      BY <2>1, <2>4, SignedFields
    <3>2. line.item \in Item /\ line.cadet \in Cadet
      BY <2>3 DEF IsHeld
    <3> QED BY <1>0, <2>2, <3>1, <3>2 DEF IsCommand, EventTypes, NeedChanges
  <2> QED BY <1>c, <2>2, <2>4, CommandSigns
<1>5. ASSUME NEW c \in Cadet, NEW item, NEW size, AddStillNeeded(d, c, item, size, quantity) PROVE Signs(d)
  <2>1. PICK fields : fields = [cadet |-> c, item |-> item, size |-> size, quantity |-> quantity]
    OBVIOUS
  <2>2. CommitSeeing(d, "STILL_NEEDED_ADDED", fields, known[d])
    BY <1>5, <2>1 DEF AddStillNeeded, Commit
  <2>3. ASSUME NEW e, e = Signed(d, "STILL_NEEDED_ADDED", clock, fields) PROVE IsCommand(e)
    <3>1. e.type = "STILL_NEEDED_ADDED" /\ e.author = d /\ e.clock = clock /\ e.cadet = c /\ e.quantity = quantity
      BY <2>1, <2>3, SignedFields
    <3> QED BY <1>0, <3>1 DEF IsCommand, EventTypes, NeedChanges
  <2> QED BY <1>c, <2>2, <2>3, CommandSigns
<1>6. ASSUME NEW need, ResizeNeed(d, need, quantity) PROVE Signs(d)
  <2>0. PICK changes : changes = [needed |-> quantity]
    OBVIOUS
  <2>1. PICK fields : fields = [need |-> need.id, base |-> need.version, changes |-> changes]
    OBVIOUS
  <2>2. CommitSeeing(d, "STILL_NEEDED_UPDATED", fields, known[d])
    BY <1>6, <2>0, <2>1 DEF ResizeNeed, UpdateNeed, Commit
  <2>3. ASSUME NEW e, e = Signed(d, "STILL_NEEDED_UPDATED", clock, fields) PROVE IsCommand(e)
    <3>1. e.type = "STILL_NEEDED_UPDATED" /\ e.author = d /\ e.clock = clock /\ e.changes = changes
      BY <2>1, <2>3, SignedFields
    <3>2. DOMAIN changes = {"needed"} /\ changes["needed"] \in Nat
      BY <1>0, <2>0 DEF Positive
    <3> QED BY <3>1, <3>2 DEF IsCommand, EventTypes, NeedChanges
  <2> QED BY <1>c, <2>2, <2>3, CommandSigns
<1>7. ASSUME NEW c \in Cadet, NEW need, NEW j \in Item, Issue(d, c, i, quantity, need, {Missed(j, 1)}) PROVE Signs(d)
  <2>0. Missed(j, 1).quantity \in Positive /\ Missed(j, 1).line \in Nat \ Item
    BY SupplyAssumption DEF Missed, Positive, WholeLine
  <2>1. /\ IsFiniteSet({Missed(j, 1)})
        /\ \A m \in {Missed(j, 1)} : m.quantity \in Positive /\ m.line \in Nat \ Item
        /\ \A m1 \in {Missed(j, 1)} : \A m2 \in {Missed(j, 1)} : m1.line = m2.line => m1 = m2
    BY <2>0, FS_Singleton
  <2> QED BY <1>2, <1>7, <2>1
<1>8. ASSUME NEW c \in Cadet, NEW need, Issue(d, c, i, quantity, need, {}) PROVE Signs(d)
  <2>1. IsFiniteSet({}) /\ (\A m \in {} : m.quantity \in Positive /\ m.line \in Nat \ Item)
        /\ \A m1 \in {} : \A m2 \in {} : m1.line = m2.line => m1 = m2
    BY FS_EmptySet
  <2> QED BY <1>2, <1>8, <2>1
<1> QED BY <1>1, <1>3, <1>4, <1>5, <1>6, <1>7, <1>8

\* Every command about stock signs a command's event.
LEMMA StockWorkSigns ==
  ASSUME RecordsInv, NEW d \in Device, StockWork(d)
  PROVE  Signs(d)
<1>1. PICK i \in Item, quantity \in work.quantities :
    \/ Receive(d, i, quantity)
    \/ \E c \in Cadet, need \in {need.id : need \in projection[d].needs} \cup {NoNeed},
         missing \in {{}} \cup {{Missed(j, 1)} : j \in Item \ {i}} :
         Issue(d, c, i, quantity, need, missing)
    \/ \E line \in projection[d].held :
         \/ \E condition \in {"SERVICEABLE", "UNSERVICEABLE"} : Return(d, line, quantity, condition)
         \/ CorrectIssuedSize(d, line, i, quantity)
    \/ \E c \in Cadet : AddStillNeeded(d, c, NoItem, "any", quantity) \/ AddStillNeeded(d, c, i, Label[i], quantity)
    \/ \E need \in projection[d].needs : ResizeNeed(d, need, quantity)
  BY DEF StockWork
<1>2. ASSUME NEW c \in Cadet, NEW need, NEW missing \in {{}} \cup {{Missed(j, 1)} : j \in Item \ {i}},
             Issue(d, c, i, quantity, need, missing)
      PROVE  Signs(d)
  <2>1. Issue(d, c, i, quantity, need, {}) => Signs(d)
    BY StockCommands
  <2>2. ASSUME NEW j \in Item, missing = {Missed(j, 1)} PROVE Signs(d)
    <3>1. Issue(d, c, i, quantity, need, {Missed(j, 1)})
      BY <1>2, <2>2
    <3> QED BY <3>1, StockCommands
  <2>3. missing = {} \/ \E j \in Item : missing = {Missed(j, 1)}
    OBVIOUS
  <2>4. CASE missing = {}
    BY <1>2, <2>1, <2>4
  <2> QED BY <2>2, <2>3, <2>4
<1> QED BY <1>1, <1>2, StockCommands

\* An event of one of the kinds of which only the kind is asked for.
LEMMA PlainCommit ==
  ASSUME RecordsInv, NEW d \in Device, NEW type \in Plain, NEW fields, NEW view, view \subseteq known[d],
         CommitSeeing(d, type, fields, view)
  PROVE  Signs(d)
BY DeviceReady, PlainSigns DEF Ready

\* Corrections agree on what they are about, whichever part of the log they see.
LEMMA CorrectionSigns ==
  ASSUME RecordsInv, NEW d \in Device, NEW target, NEW line, NEW to \in Nat, CorrectQuantity(d, target, line, to)
  PROVE  Signs(d)
<1>0. Ready(d)
  BY DeviceReady
<1>c. PICK clock \in Nat : clock = projection[d].clock + 1
  BY <1>0 DEF Ready
<1>1. PICK l : (\A n \in known[d] : l[n] = log[n]) /\ Shows(l, seen, known[d], projection[d])
  BY WhatIsShown DEF RecordsInv
<1>2. \A m \in known[d] : IsCommand(log[m])
  BY DEF RecordsInv, LogOK, IsLog, KnownOK, SignedAt
<1>3. Placed(log, known[d])
  BY <1>1 DEF Shows, Placed
<1>4. ItemsOK(known[d], projection[d].items)
  BY <1>1 DEF Shows, Settled, Typed
<1>5. TransactionsOK(log, known[d], projection[d].transactions)
  <2>1. TransactionsOK(l, known[d], projection[d].transactions)
    BY <1>1 DEF Shows, Settled, Typed
  <2> QED BY <1>1, <2>1 DEF TransactionsOK, IsTransaction
<1>6. PICK from : from = Recorded(log, projection[d], target, line)
  OBVIOUS
<1>7. Correctable(log, projection[d], known[d], target, line)
  BY DEF CorrectQuantity
<1>8. from \in Nat
  BY <1>2, <1>3, <1>4, <1>5, <1>6, <1>7, RecordedIsNumber
<1>9. PICK fields : fields = [target |-> target, line |-> line, from |-> from, to |-> to]
  OBVIOUS
<1>10. CommitSeeing(d, "RECORD_CORRECTED", fields, known[d])
  BY <1>6, <1>9 DEF CorrectQuantity, Commit
<1>11. ASSUME NEW e, e = Signed(d, "RECORD_CORRECTED", clock, fields) PROVE IsCommand(e)
  <2>1. e.type = "RECORD_CORRECTED" /\ e.author = d /\ e.clock = clock /\ e.from = from /\ e.to = to
    BY <1>9, <1>11, SignedFields
  <2> QED BY <1>8, <2>1 DEF IsCommand, EventTypes, NeedChanges
<1> QED BY <1>c, <1>10, <1>11, CommandSigns

\* Finishing and cancelling a need sign a command's event.
LEMMA HandSigns ==
  ASSUME RecordsInv, NEW d \in Device, NEW need, FulfilByHand(d, need) \/ CancelNeed(d, need)
  PROVE  Signs(d)
<1>0. Ready(d)
  BY DeviceReady
<1>c. PICK clock \in Nat : clock = projection[d].clock + 1
  BY <1>0 DEF Ready
<1>1. ASSUME NEW type \in {"STILL_NEEDED_FULFILLED", "STILL_NEEDED_CANCELLED"}, NEW changes,
             DOMAIN changes \subseteq {"status"} \cup (IF type = "STILL_NEEDED_FULFILLED" THEN {"fulfilled"} ELSE {}),
             UpdateNeed(d, need, type, changes)
      PROVE  Signs(d)
  <2>1. PICK fields : fields = [need |-> need.id, base |-> need.version, changes |-> changes]
    OBVIOUS
  <2>2. CommitSeeing(d, type, fields, known[d])
    BY <1>1, <2>1 DEF UpdateNeed, Commit
  <2>3. ASSUME NEW e, e = Signed(d, type, clock, fields) PROVE IsCommand(e)
    <3>1. e.type = type /\ e.author = d /\ e.clock = clock /\ e.changes = changes
      BY <2>1, <2>3, SignedFields
    <3> QED BY <1>1, <3>1 DEF IsCommand, EventTypes, NeedChanges
  <2> QED BY <1>1, <1>c, <2>2, <2>3, CommandSigns
<1>2. CASE FulfilByHand(d, need)
  <2>1. PICK changes : changes = [status |-> "FULFILLED", fulfilled |-> need.needed]
    OBVIOUS
  <2>2. DOMAIN changes = {"status", "fulfilled"} /\ UpdateNeed(d, need, "STILL_NEEDED_FULFILLED", changes)
    BY <1>2, <2>1 DEF FulfilByHand
  <2> QED BY <1>1, <2>2
<1>3. CASE CancelNeed(d, need)
  <2>1. PICK changes : changes = [status |-> "CANCELLED"]
    OBVIOUS
  <2>2. DOMAIN changes = {"status"} /\ UpdateNeed(d, need, "STILL_NEEDED_CANCELLED", changes)
    BY <1>3, <2>1 DEF CancelNeed
  <2> QED BY <1>1, <2>2
<1> QED BY <1>2, <1>3

\* Every command about records and catalogue signs a command's event.
LEMMA AmendWorkSigns ==
  ASSUME RecordsInv, NEW d \in Device, AmendWork(d)
  PROVE  Signs(d)
<1>1. ASSUME NEW target \in DOMAIN log, NEW to \in work.quantities \cup {0}, NEW line, CorrectQuantity(d, target, line, to)
      PROVE  Signs(d)
  <2>1. to \in Nat
    BY Quantities DEF Positive
  <2> QED BY <1>1, <2>1, CorrectionSigns
<1>2. ASSUME NEW loser, NEW outcome, ResolveConflict(d, loser, outcome) PROVE Signs(d)
  <2>1. "CONFLICT_RESOLVED" \in Plain
    BY DEF Plain, EventTypes
  <2> QED BY <1>2, <2>1, PlainCommit DEF ResolveConflict, Commit
<1> QED BY <1>1, <1>2, HandSigns DEF AmendWork

\* Every command about the roster signs a command's event, or opens the form.
LEMMA RosterWorkSigns ==
  ASSUME RecordsInv, NEW d \in Device, RosterWork(d)
  PROVE  OpenForm(d) \/ Signs(d)
<1>0. Ready(d) /\ form[d].known \subseteq known[d]
  BY DeviceReady
<1>c. PICK clock \in Nat : clock = projection[d].clock + 1
  BY <1>0 DEF Ready
<1>p. {"CATALOG_SIZES_ADDED", "CATALOG_ITEM_UPDATED", "BUNDLE_UPDATED", "ANNUAL_ROLLOVER_COMPLETED"} \subseteq Plain
  BY DEF Plain, EventTypes
<1>1. ASSUME NEW i \in Item, AddCatalogSize(d, i) PROVE Signs(d)
  BY <1>p, <1>1, PlainCommit DEF AddCatalogSize, Commit
<1>2. ASSUME NEW edits, EditCatalog(d, edits) PROVE Signs(d)
  BY <1>0, <1>p, <1>2, PlainCommit DEF EditCatalog
<1>3. ASSUME EditBundle(d) PROVE Signs(d)
  BY <1>p, <1>3, PlainCommit DEF EditBundle, Commit
<1>4. ASSUME CompleteRollover(d, "2026-2027") PROVE Signs(d)
  BY <1>p, <1>4, PlainCommit DEF CompleteRollover, Commit
<1>5. ASSUME NEW i \in Item, NEW active, EditSize(d, i, active) PROVE Signs(d)
  <2>1. PICK fields : fields = [item |-> i, base |-> projection[d].items[i].version, changes |-> [active |-> active]]
    OBVIOUS
  <2>2. CommitSeeing(d, "INVENTORY_ITEM_UPDATED", fields, known[d])
    BY <1>5, <2>1 DEF EditSize, Commit
  <2>3. ASSUME NEW e, e = Signed(d, "INVENTORY_ITEM_UPDATED", clock, fields) PROVE IsCommand(e)
    <3>1. e.type = "INVENTORY_ITEM_UPDATED" /\ e.author = d /\ e.clock = clock /\ e.item = i
      BY <2>1, <2>3, SignedFields
    <3> QED BY <3>1 DEF IsCommand, EventTypes, NeedChanges
  <2> QED BY <1>c, <2>2, <2>3, CommandSigns
<1>6. ASSUME NEW c \in Cadet, NEW level, ImportCadet(d, c, level) PROVE Signs(d)
  <2>1. PICK fields : fields = [cadet |-> c, level |-> level]
    OBVIOUS
  <2>2. CommitSeeing(d, "CADETS_IMPORTED", fields, known[d])
    BY <1>6, <2>1 DEF ImportCadet, Commit
  <2>3. ASSUME NEW e, e = Signed(d, "CADETS_IMPORTED", clock, fields) PROVE IsCommand(e)
    <3>1. e.type = "CADETS_IMPORTED" /\ e.author = d /\ e.clock = clock /\ e.cadet = c
      BY <2>1, <2>3, SignedFields
    <3> QED BY <3>1 DEF IsCommand, EventTypes, NeedChanges
  <2> QED BY <1>c, <2>2, <2>3, CommandSigns
<1>7. ASSUME NEW c \in Cadet, NEW edits, EditCadet(d, c, edits) PROVE Signs(d)
  <2>1. PICK changes : changes = Edited(form[d].cadets[c], edits, projection[d].cadets[c].profile)
    OBVIOUS
  <2>2. PICK fields : fields = [cadet |-> c, base |-> projection[d].cadets[c].version, changes |-> changes]
    OBVIOUS
  <2>3. CommitSeeing(d, "CADET_UPDATED", fields, form[d].known)
    BY <1>7, <2>1, <2>2 DEF EditCadet
  <2>4. ASSUME NEW e, e = Signed(d, "CADET_UPDATED", clock, fields) PROVE IsCommand(e)
    <3>1. e.type = "CADET_UPDATED" /\ e.author = d /\ e.clock = clock /\ e.cadet = c
      BY <2>2, <2>4, SignedFields
    <3> QED BY <3>1 DEF IsCommand, EventTypes, NeedChanges
  <2> QED BY <1>0, <1>c, <2>3, <2>4, CommandSigns
<1>8. ASSUME NEW c \in Cadet, NEW i \in Item, MeasureCadet(d, c, i) PROVE Signs(d)
  <2>1. \E edits : EditCadet(d, c, edits)
    BY <1>8 DEF MeasureCadet
  <2> QED BY <1>7, <2>1
<1> QED BY <1>1, <1>2, <1>3, <1>4, <1>5, <1>6, <1>7, <1>8 DEF RosterWork

\* Every command about a count signs a command's event.
LEMMA CountWorkSigns ==
  ASSUME RecordsInv, NEW d \in Device, CountWork(d)
  PROVE  Signs(d)
<1>0. Ready(d)
  BY DeviceReady
<1>c. PICK clock \in Nat : clock = projection[d].clock + 1
  BY <1>0 DEF Ready
<1>p. {"COUNT_SESSION_CREATED", "COUNT_SESSION_SUBMITTED", "COUNT_SESSION_REOPENED", "COUNT_SESSION_RECONCILED",
       "COUNT_SESSION_CANCELLED"} \subseteq Plain
  BY DEF Plain, EventTypes, CountEvents
<1>1. ASSUME NEW assigned, OpenCount(d, assigned) PROVE Signs(d)
  BY <1>p, <1>1, PlainCommit DEF OpenCount, Commit
<1>2. ASSUME NEW s, SubmitCount(d, s) \/ ReopenCount(d, s) \/ Finalize(d, s) \/ CancelCount(d, s) PROVE Signs(d)
  <2>1. CASE SubmitCount(d, s)
    BY <1>p, <2>1, PlainCommit DEF SubmitCount, Commit
  <2>2. CASE ReopenCount(d, s)
    BY <1>p, <2>2, PlainCommit DEF ReopenCount, Commit
  <2>3. CASE Finalize(d, s)
    BY <1>p, <2>3, PlainCommit DEF Finalize, Commit
  <2>4. CASE CancelCount(d, s)
    BY <1>p, <2>4, PlainCommit DEF CancelCount, Commit
  <2> QED BY <1>2, <2>1, <2>2, <2>3, <2>4
<1>3. ASSUME NEW type \in {"COUNT_CONTRIBUTED", "COUNT_RECOUNTED", "COUNT_CORRECTED"}, NEW fields,
             "quantity" \in DOMAIN fields, fields.quantity \in work.quantities, CommitSeeing(d, type, fields, known[d])
      PROVE  Signs(d)
  <2>1. fields.quantity \in Nat
    BY <1>3, Quantities DEF Positive
  <2>2. ASSUME NEW e, e = Signed(d, type, clock, fields) PROVE IsCommand(e)
    <3>1. e.type = type /\ e.author = d /\ e.clock = clock /\ e.quantity = fields.quantity
      BY <1>3, <2>2, SignedFields
    <3> QED BY <1>3, <2>1, <3>1 DEF IsCommand, EventTypes, NeedChanges, CountEvents
  <2> QED BY <1>3, <1>c, <2>2, CommandSigns
<1>4. ASSUME NEW s, NEW i, NEW assignment, NEW quantity \in work.quantities, Contribute(d, s, i, assignment, quantity)
      PROVE  Signs(d)
  <2>1. PICK fields : fields = [session |-> s, item |-> i, assignment |-> assignment, quantity |-> quantity, supersedes |-> {}]
    OBVIOUS
  <2>2. CommitSeeing(d, "COUNT_CONTRIBUTED", fields, known[d])
    BY <1>4, <2>1 DEF Contribute, Commit
  <2> QED BY <1>3, <2>1, <2>2
<1>5. ASSUME NEW s, NEW i, NEW quantity \in work.quantities, Recount(d, s, i, quantity) PROVE Signs(d)
  <2>1. PICK supersedes : supersedes =
          {o.event : o \in {o \in Session(projection[d], s).observations : o.assignment = i /\ o.status # "LATE"}}
    OBVIOUS
  <2>2. PICK fields : fields = [session |-> s, item |-> i, assignment |-> i, quantity |-> quantity, supersedes |-> supersedes]
    OBVIOUS
  <2>3. CommitSeeing(d, "COUNT_RECOUNTED", fields, known[d])
    BY <1>5, <2>1, <2>2 DEF Recount, Commit
  <2> QED BY <1>3, <2>2, <2>3
<1>6. ASSUME NEW s, NEW target, NEW quantity \in work.quantities, CorrectContribution(d, s, target, quantity) PROVE Signs(d)
  <2>1. PICK fields : fields = [session |-> s, target |-> target, quantity |-> quantity]
    OBVIOUS
  <2>2. CommitSeeing(d, "COUNT_CORRECTED", fields, known[d])
    BY <1>6, <2>1 DEF CorrectContribution, Commit
  <2> QED BY <1>3, <2>1, <2>2
<1> QED BY <1>1, <1>2, <1>4, <1>5, <1>6 DEF CountWork

\* Every command about the calendar signs a command's event, or opens the drawer.
LEMMA CalendarWorkSigns ==
  ASSUME RecordsInv, NEW d \in Device, CalendarWork(d)
  PROVE  OpenDrawer(d) \/ Signs(d)
<1>0. Ready(d) /\ drawer[d].known \subseteq known[d] /\ ShownOK(drawer[d].calendar, drawer[d].known)
  BY DeviceReady
<1>c. PICK clock \in Nat : clock = projection[d].clock + 1
  BY <1>0 DEF Ready
<1>p. {"CALENDAR_TASK_ADDED", "CALENDAR_TASK_UPDATED", "TASK_COMPLETED", "CALENDAR_TASK_REMOVED",
       "CALENDAR_ATTENDEES_ADDED", "CALENDAR_ATTENDEES_REMOVED", "CALENDAR_BUNDLES_ADDED",
       "CALENDAR_BUNDLES_REMOVED"} \subseteq Plain
  BY DEF Plain, EventTypes, CalendarEvents
<1>1. ASSUME NEW detail, detail = [title |-> 1, notes |-> 1, kind |-> "NCO"], PlanEvent(d, detail) PROVE Signs(d)
  <2>1. PICK fields : fields = [fields |-> detail]
    OBVIOUS
  <2>2. CommitSeeing(d, "CALENDAR_EVENT_CREATED", fields, known[d])
    BY <1>1, <2>1 DEF PlanEvent, Commit
  <2>3. ASSUME NEW e, e = Signed(d, "CALENDAR_EVENT_CREATED", clock, fields) PROVE IsCommand(e)
    <3>1. e.type = "CALENDAR_EVENT_CREATED" /\ e.author = d /\ e.clock = clock /\ e.fields = detail
      BY <2>1, <2>3, SignedFields
    <3>2. {"title", "notes"} \subseteq DOMAIN detail
      BY <1>1
    <3> QED BY <3>1, <3>2 DEF IsCommand, EventTypes, NeedChanges, CalendarEvents
  <2> QED BY <1>c, <2>2, <2>3, CommandSigns
<1>2. ASSUME NEW c, NEW changes, DOMAIN changes \subseteq {"title", "notes"}, SaveDrawer(d, c, changes) PROVE Signs(d)
  <2>1. PICK shown : shown = drawer[d].calendar
    OBVIOUS
  <2>2. PICK base : base = [f \in DOMAIN changes |-> shown[c].writers[f]]
    OBVIOUS
  <2>3. PICK fields : fields = [entry |-> c, changes |-> changes, base |-> base]
    OBVIOUS
  <2>4. CommitSeeing(d, "CALENDAR_EVENT_UPDATED", fields, drawer[d].known) /\ c \in DOMAIN shown
    BY <1>2, <2>1, <2>2, <2>3 DEF SaveDrawer
  <2>5. \A f \in DOMAIN changes : base[f] \subseteq drawer[d].known
    BY <1>0, <1>2, <2>1, <2>2, <2>4 DEF ShownOK
  <2>6. ASSUME NEW e, e = Signed(d, "CALENDAR_EVENT_UPDATED", clock, fields)
        PROVE  IsCommand(e) /\ \A f \in DOMAIN e.changes : e.base[f] \subseteq drawer[d].known
    <3>1. e.type = "CALENDAR_EVENT_UPDATED" /\ e.author = d /\ e.clock = clock /\ e.changes = changes /\ e.base = base
      BY <2>3, <2>6, SignedFields
    <3>2. IsCommand(e)
      BY <3>1 DEF IsCommand, EventTypes, NeedChanges, CalendarEvents
    <3> QED BY <2>5, <3>1, <3>2
  <2> QED BY <1>0, <1>c, <2>4, <2>6 DEF Signs
<1>3. ASSUME NEW c, NEW t, NEW offset, MoveTask(d, c, t, offset) PROVE Signs(d)
  BY <1>p, <1>3, PlainCommit DEF MoveTask, Commit
<1>4. ASSUME NEW c, PlanTask(d, c, 0) PROVE Signs(d)
  BY <1>p, <1>4, PlainCommit DEF PlanTask, Commit
<1>5. ASSUME NEW c, NEW t, NEW completed, CheckTask(d, c, t, completed) \/ DropTask(d, c, t) PROVE Signs(d)
  BY <1>p, <1>5, PlainCommit DEF CheckTask, DropTask, Commit
<1>6. ASSUME NEW c, NEW cadet, Invite(d, c, cadet) \/ Uninvite(d, c, cadet) PROVE Signs(d)
  BY <1>p, <1>6, PlainCommit DEF Invite, Uninvite, Commit
<1>7. ASSUME NEW c, NEW bundle, Link(d, c, bundle) \/ Unlink(d, c, bundle) PROVE Signs(d)
  BY <1>p, <1>7, PlainCommit DEF Link, Unlink, Commit
<1>8. ASSUME NEW c, NEW value, SaveDrawer(d, c, [title |-> value]) \/ SaveDrawer(d, c, [notes |-> value]) PROVE Signs(d)
  <2>1. DOMAIN [title |-> value] = {"title"} /\ DOMAIN [notes |-> value] = {"notes"}
    OBVIOUS
  <2> QED BY <1>2, <1>8, <2>1
<1> QED BY <1>1, <1>3, <1>4, <1>5, <1>6, <1>7, <1>8 DEF CalendarWork

\* l2 has one more event than l.
Longer(l, l2) ==
  /\ Len(l2) = Len(l) + 1 /\ DOMAIN l2 = DOMAIN l \cup {Len(l) + 1}
  /\ \A k \in 0 .. Len(l) : SubSeq(l2, 1, k) = SubSeq(l, 1, k)

\* A log with one event more is a log, and longer.
LEMMA OneMoreSigned ==
  ASSUME NEW l, NEW sn, IsLog(l, sn), NEW e, IsCommand(e), NEW view \in SUBSET Nat,
         e.type = "CALENDAR_EVENT_UPDATED" => \A f \in DOMAIN e.changes : e.base[f] \subseteq view,
         NEW l2, l2 = Append(l, e), NEW sn2, sn2 = Append(sn, view)
  PROVE  IsLog(l2, sn2) /\ Longer(l, l2)
<1>1. PICK T : T = ToSet(l)
  OBVIOUS
<1>2. l \in Seq(T) /\ sn \in Seq(SUBSET Nat) /\ Len(sn) = Len(l)
  BY <1>1 DEF IsLog
<1>3. l2 \in Seq(T \cup {e}) /\ ToSet(l2) = T \cup {e}
  BY <1>1, <1>2, AppendedSet
<1>4. sn2 \in Seq(SUBSET Nat) /\ Len(sn2) = Len(sn) + 1 /\ sn2[Len(sn) + 1] = view
      /\ \A n \in 1 .. Len(sn) : sn2[n] = sn[n]
  BY <1>2, AppendProperties
<1>5. Len(l2) = Len(l) + 1 /\ l2[Len(l) + 1] = e /\ DOMAIN l = 1 .. Len(l) /\ DOMAIN l2 = 1 .. Len(l) + 1 /\ Len(l) \in Nat
  BY <1>2
<1>6. \A n \in 1 .. Len(l) : l2[n] = l[n]
  BY <1>2
<1>7. ASSUME NEW n \in DOMAIN l2 PROVE SignedAt(l2, sn2, n)
  <2>1. CASE n \in 1 .. Len(l)
    <3>1. SignedAt(l, sn, n) /\ l2[n] = l[n] /\ sn2[n] = sn[n]
      BY <1>2, <1>4, <1>5, <1>6, <2>1 DEF IsLog
    <3> QED BY <3>1 DEF SignedAt
  <2>2. CASE n = Len(l) + 1
    <3>1. l2[n] = e /\ sn2[n] = view
      BY <1>2, <1>4, <1>5, <2>2
    <3> QED BY <3>1 DEF SignedAt
  <2> QED BY <1>5, <2>1, <2>2
<1>8. IsLog(l2, sn2)
  BY <1>2, <1>3, <1>4, <1>5, <1>7 DEF IsLog
<1>9. ASSUME NEW k \in 0 .. Len(l) PROVE SubSeq(l2, 1, k) = SubSeq(l, 1, k)
  <2>1. SubSeq(l2, 1, k) = [i \in 1 .. k |-> l2[i]]
    BY <1>3, <1>5
  <2>2. SubSeq(l, 1, k) = [i \in 1 .. k |-> l[i]]
    BY <1>2, <1>5
  <2>3. \A i \in 1 .. k : l2[i] = l[i]
    BY <1>5, <1>6
  <2> QED BY <2>1, <2>2, <2>3
<1>10. Longer(l, l2)
  BY <1>5, <1>9 DEF Longer
<1> QED BY <1>8, <1>10

\* A log is its own longest prefix.
LEMMA WholeLog ==
  ASSUME NEW l, NEW sn, IsLog(l, sn)
  PROVE  SubSeq(l, 1, Len(l)) = l /\ Len(l) \in Nat /\ DOMAIN l = 1 .. Len(l)
<1>1. PICK T : l \in Seq(T)
  BY DEF IsLog
<1>2. SubSeq(l, 1, Len(l)) = [i \in 1 .. Len(l) |-> l[i]]
  BY <1>1
<1>3. l = [i \in 1 .. Len(l) |-> l[i]]
  BY <1>1
<1> QED BY <1>1, <1>2, <1>3

\* What a drawer is loaded with.
LEMMA CalendarShown ==
  ASSUME NEW l, NEW sn, NEW S, NEW p, Shaped(l, sn, S, p), \A n \in S : IsCommand(l[n])
  PROVE  ShownOK(p.calendar, S)
<1> SUFFICES ASSUME NEW c \in DOMAIN p.calendar
             PROVE  /\ {"title", "notes"} \subseteq DOMAIN p.calendar[c].fields
                    /\ \A f \in DOMAIN p.calendar[c].fields : p.calendar[c].writers[f] \subseteq S
  BY DEF ShownOK
<1>1. PICK entry : entry = p.calendar[c]
  OBVIOUS
<1>2. EntryOK(l, sn, S, c, entry)
  BY <1>1 DEF Shaped, CalendarOK
<1>3. c \in S /\ l[c].type = "CALENDAR_EVENT_CREATED" /\ DOMAIN entry.fields = DOMAIN l[c].fields
      /\ entry.applied \in Seq(S)
  BY <1>2 DEF EntryOK
<1>4. {"title", "notes"} \subseteq DOMAIN entry.fields
  BY <1>3 DEF IsCommand
<1>5. ASSUME NEW f \in DOMAIN entry.fields PROVE entry.writers[f] \subseteq S
  <2>1. FieldOK(l, sn, c, entry, f)
    BY <1>2, <1>3, <1>5 DEF EntryOK
  <2>2. ToSet(entry.applied) \subseteq S
    BY <1>3 DEF ToSet
  <2>3. EditsIn(l, entry, f) \subseteq S
    BY <2>2 DEF EditsIn
  <2> QED BY <1>3, <2>1, <2>3 DEF FieldOK, WritersOf
<1> QED BY <1>1, <1>4, <1>5

\* Commands that a log has.
LEMMA LoggedCommands ==
  ASSUME NEW l, NEW sn, IsLog(l, sn), NEW S \in SUBSET DOMAIN l
  PROVE  Commands(l, sn, S) /\ S \subseteq Nat /\ \A n \in S : IsCommand(l[n])
<1>1. DOMAIN l = 1 .. Len(l) /\ Len(l) \in Nat
  BY WholeLog
<1>2. IsFiniteSet(S)
  <2>1. IsFiniteSet(1 .. Len(l))
    BY <1>1, FS_Interval
  <2> QED BY <1>1, <2>1, FS_Subset
<1>3. \A n \in S : SignedAt(l, sn, n) /\ IsCommand(l[n])
  BY DEF IsLog, SignedAt
<1>4. \A n \in S : l[n].clock \in Nat /\ l[n].author \in Nat
  BY <1>3, RecordsAssumption DEF IsCommand
<1> QED BY <1>1, <1>2, <1>3, <1>4 DEF Commands, Placed

\* What a drawer was opened on shows no more than the events its device had.
LEMMA FoldShown ==
  ASSUME NEW l, NEW sn, IsLog(l, sn), NEW S \in SUBSET DOMAIN l, NEW p, p = Rebuild(l, S)
  PROVE  ShownOK(p.calendar, S)
BY LoggedCommands, RebuildShaped, CalendarShown

-----------------------------------------------------------------------------
(* The invariant is inductive.                                             *)

\* The devices start in the invariant.
LEMMA InitInv == Init => RecordsInv
<1> SUFFICES ASSUME Init PROVE RecordsInv
  OBVIOUS
<1>1. work \in Work /\ log = work.founding /\ log \in Seq(ToSet(log))
  BY RecordsAssumption DEF Init
<1>2. PICK T : log \in Seq(T)
  BY <1>1
<1>3. DOMAIN log = 1 .. Len(log) /\ Len(log) \in Nat
  BY <1>2
<1>4. seen \in Seq(SUBSET Nat) /\ Len(seen) = Len(log) /\ \A n \in DOMAIN log : seen[n] = SeenAtFounding(log, n)
  <2>1. seen = [n \in 1 .. Len(log) |-> SeenAtFounding(log, n)]
    BY <1>3 DEF Init
  <2>2. \A n \in 1 .. Len(log) : SeenAtFounding(log, n) \in SUBSET Nat
    BY <1>3 DEF SeenAtFounding
  <2>3. PICK K : K = SUBSET Nat
    OBVIOUS
  <2>4. seen \in [1 .. Len(log) -> K]
    BY <2>1, <2>2, <2>3
  <2>5. seen \in Seq(K) /\ Len(seen) = Len(log)
    BY ONLY <1>3, <2>4, SeqDef
  <2> QED BY <1>3, <2>1, <2>3, <2>5
<1>5. ASSUME NEW n \in DOMAIN log PROVE SignedAt(log, seen, n)
  <2>1. IsCommand(log[n])
    BY <1>1, RecordsAssumption
  <2>2. log[n].type = "CALENDAR_EVENT_UPDATED" =>
          \A f \in DOMAIN log[n].changes : log[n].base[f] \subseteq SeenAtFounding(log, n)
    BY <1>1, RecordsAssumption
  <2> QED BY <1>4, <2>1, <2>2 DEF SignedAt
<1>6. LogOK
  BY <1>1, <1>4, <1>5 DEF LogOK, IsLog
<1>7. WorkOK
  <2>1. work.budget \in Nat
    BY <1>1, RecordsAssumption
  <2> QED BY <1>1, <1>3, <2>1 DEF WorkOK
<1>8. KnownOK
  <2>1. known = work.heard /\ work.heard \in [Device -> SUBSET DOMAIN work.founding]
    BY <1>1, RecordsAssumption DEF Init
  <2> QED BY <1>1, <2>1 DEF KnownOK, Init
<1>9. ASSUME NEW d \in Device PROVE projection[d] = Rebuild(log, known[d]) /\ known[d] \in SUBSET DOMAIN log
  BY <1>8 DEF Init, KnownOK
<1>10. ASSUME NEW d \in Device PROVE ShowsFold(d)
  <2>1. Until(Len(log)) = log
    BY <1>6, WholeLog DEF Until, LogOK
  <2>2. Len(log) \in 0 .. Len(log)
    BY <1>3
  <2> QED BY <1>3, <1>9, <2>1, <2>2 DEF ShowsFold
<1>11. FormsOK
  <2>1. ASSUME NEW d \in Device
        PROVE  drawer[d].known \subseteq known[d] /\ ShownOK(drawer[d].calendar, drawer[d].known) /\ form[d].known \subseteq known[d]
    <3>1. ShownOK(projection[d].calendar, known[d])
      BY <1>6, <1>9, FoldShown DEF LogOK
    <3>2. drawer[d].known = known[d] /\ drawer[d].calendar = projection[d].calendar /\ form[d].known = known[d]
      BY DEF Init, Loaded, FilledIn
    <3> QED BY <3>1, <3>2
  <2> QED BY <2>1 DEF FormsOK, Init
<1> QED BY <1>6, <1>7, <1>8, <1>10, <1>11 DEF RecordsInv

\* Learning an event, and folding all again, keeps the invariant.
LEMMA LearnInv ==
  ASSUME RecordsInv, NEW d \in Device, NEW n \in DOMAIN log, Learn(d, n)
  PROVE  RecordsInv'
<1>0. UNCHANGED <<work, log, seen, drawer, form>>
  BY DEF Learn
<1>1. LogOK' /\ WorkOK'
  BY <1>0 DEF RecordsInv, LogOK, WorkOK
<1>2. KnownOK' /\ \A x \in Device : known[x] \subseteq known'[x] /\ (x # d => known'[x] = known[x] /\ projection'[x] = projection[x])
  BY <1>0 DEF RecordsInv, KnownOK, Learn
<1>3. projection'[d] = Rebuild(log, known'[d])
  BY DEF Learn, RecordsInv, KnownOK
<1>4. FormsOK'
  <2>1. FormsOK
    BY DEF RecordsInv
  <2> QED BY <1>0, <1>2, <2>1 DEF FormsOK
<1>5. ASSUME NEW x \in Device PROVE ShowsFold(x)'
  <2>1. CASE x # d
    <3>1. ShowsFold(x)
      BY DEF RecordsInv
    <3> QED BY <1>0, <1>2, <2>1, <3>1 DEF ShowsFold, Until
  <2>2. CASE x = d
    <3>1. Until(Len(log)) = log /\ Len(log) \in Nat /\ DOMAIN log = 1 .. Len(log)
      BY WholeLog DEF Until, RecordsInv, LogOK
    <3>2. Len(log) \in 0 .. Len(log) /\ known'[d] \subseteq 1 .. Len(log)
      BY <1>0, <1>2, <3>1 DEF KnownOK
    <3>3. projection'[d] = Rebuild(Until(Len(log)), known'[d])
      BY <1>3, <3>1
    <3> QED BY <1>0, <2>2, <3>2, <3>3 DEF ShowsFold, Until
  <2> QED BY <2>1, <2>2
<1> QED BY <1>1, <1>2, <1>4, <1>5 DEF RecordsInv

\* Opening the drawer or the form keeps the invariant.
LEMMA OpenInv ==
  ASSUME RecordsInv, NEW d \in Device, OpenDrawer(d) \/ OpenForm(d)
  PROVE  RecordsInv'
<1>0. UNCHANGED <<work, log, seen, known, projection>>
  BY DEF OpenDrawer, OpenForm
<1>1. LogOK' /\ WorkOK' /\ KnownOK' /\ \A x \in Device : ShowsFold(x)'
  BY <1>0 DEF RecordsInv, LogOK, WorkOK, KnownOK, ShowsFold, Until
<1>2. FormsOK
  BY DEF RecordsInv
<1>3. CASE OpenDrawer(d)
  <2>1. PICK l : (\A n \in known[d] : l[n] = log[n]) /\ Shows(l, seen, known[d], projection[d])
    BY WhatIsShown DEF RecordsInv
  <2>2. ShownOK(projection[d].calendar, known[d])
    BY <2>1, CalendarShown DEF Shows, Commands, SignedAt
  <2>3. PICK new : new = Loaded(projection[d], known[d])
    OBVIOUS
  <2>4. new.known = known[d] /\ new.calendar = projection[d].calendar
    BY <2>3 DEF Loaded
  <2>5. drawer' = [drawer EXCEPT ![d] = new] /\ form' = form
    BY <1>3, <2>3 DEF OpenDrawer
  <2>6. FormsOK'
    BY <1>0, <1>2, <2>2, <2>4, <2>5 DEF FormsOK
  <2> QED BY <1>1, <2>6 DEF RecordsInv
<1>4. CASE OpenForm(d)
  <2>1. PICK new : new = FilledIn(projection[d], known[d])
    OBVIOUS
  <2>2. new.known = known[d]
    BY <2>1 DEF FilledIn
  <2>3. form' = [form EXCEPT ![d] = new] /\ drawer' = drawer
    BY <1>4, <2>1 DEF OpenForm
  <2>4. FormsOK'
    BY <1>0, <1>2, <2>2, <2>3 DEF FormsOK
  <2> QED BY <1>1, <2>4 DEF RecordsInv
<1> QED BY <1>3, <1>4

\* Signing an event keeps the invariant.
LEMMA SignsInv ==
  ASSUME RecordsInv, NEW d \in Device, Signs(d)
  PROVE  RecordsInv'
<1>1. PICK type, fields, view :
        /\ CommitSeeing(d, type, fields, view) /\ view \subseteq known[d]
        /\ \A e : e = Signed(d, type, projection[d].clock + 1, fields) =>
             /\ IsCommand(e)
             /\ type = "CALENDAR_EVENT_UPDATED" => \A f \in DOMAIN e.changes : e.base[f] \subseteq view
  BY DEF Signs
<1>2. PICK e : e = Signed(d, type, projection[d].clock + 1, fields)
  OBVIOUS
<1>3. IsCommand(e) /\ e.type = type
      /\ (type = "CALENDAR_EVENT_UPDATED" => \A f \in DOMAIN e.changes : e.base[f] \subseteq view)
  BY <1>1, <1>2, SignedFields
<1>4. PICK l, sn : l = log /\ sn = seen
  OBVIOUS
<1>5. PICK l2, sn2 : l2 = Append(l, e) /\ sn2 = Append(sn, view)
  OBVIOUS
<1>6. IsLog(l, sn) /\ known \in [Device -> SUBSET DOMAIN l]
  BY <1>4 DEF RecordsInv, LogOK, KnownOK
<1>7. Len(l) \in Nat /\ DOMAIN l = 1 .. Len(l)
  BY <1>6, WholeLog
<1>8. view \in SUBSET Nat
  BY <1>1, <1>6, <1>7
<1>9. IsLog(l2, sn2) /\ Longer(l, l2)
  BY <1>3, <1>5, <1>6, <1>8, OneMoreSigned
<1>10. log' = l2 /\ seen' = sn2 /\ work' = work /\ Len(l) + 1 <= Len(work.founding) + work.budget
  BY <1>1, <1>2, <1>4, <1>5 DEF CommitSeeing
<1>11. LogOK' /\ WorkOK'
  BY <1>9, <1>10 DEF LogOK, WorkOK, RecordsInv, Longer
<1> DEFINE N == Len(l) + 1
<1>12. PICK k2 : k2 = known[d] \cup {N}
  OBVIOUS
<1>13. known' = [known EXCEPT ![d] = k2] /\ projection' = [projection EXCEPT ![d] = Rebuild(l2, k2)]
  BY <1>1, <1>4, <1>6, <1>10, <1>12 DEF CommitSeeing
<1>14. k2 \in SUBSET DOMAIN l2 /\ DOMAIN l \subseteq DOMAIN l2 /\ known[d] \subseteq k2
  BY <1>6, <1>9, <1>12 DEF Longer
<1>15. KnownOK'
  BY <1>6, <1>10, <1>13, <1>14 DEF KnownOK, RecordsInv
<1>16. DOMAIN projection = Device
  BY DEF RecordsInv, KnownOK
<1>17. known'[d] = k2 /\ projection'[d] = Rebuild(l2, k2)
       /\ \A x \in Device : x # d => known'[x] = known[x] /\ projection'[x] = projection[x]
  BY <1>6, <1>13, <1>16
<1>18. ASSUME NEW x \in Device PROVE ShowsFold(x)'
  <2>1. CASE x # d
    <3>1. PICK k \in 0 .. Len(l) : known[x] \subseteq 1 .. k /\ projection[x] = Rebuild(SubSeq(l, 1, k), known[x])
      BY <1>4 DEF RecordsInv, ShowsFold, Until
    <3>2. SubSeq(l2, 1, k) = SubSeq(l, 1, k) /\ k \in 0 .. Len(l2)
      BY <1>7, <1>9 DEF Longer
    <3>3. known'[x] \subseteq 1 .. k /\ projection'[x] = Rebuild(SubSeq(log', 1, k), known'[x]) /\ k \in 0 .. Len(log')
      BY <1>10, <1>17, <2>1, <3>1, <3>2
    <3> QED BY <3>3 DEF ShowsFold, Until
  <2>2. CASE x = d
    <3>1. SubSeq(l2, 1, Len(l2)) = l2 /\ Len(l2) \in Nat /\ DOMAIN l2 = 1 .. Len(l2)
      BY <1>9, WholeLog
    <3>2. Len(log') \in 0 .. Len(log') /\ known'[d] \subseteq 1 .. Len(log')
      BY <1>10, <1>14, <1>17, <3>1
    <3>3. projection'[d] = Rebuild(SubSeq(log', 1, Len(log')), known'[d])
      BY <1>10, <1>17, <3>1
    <3> QED BY <2>2, <3>2, <3>3 DEF ShowsFold, Until
  <2> QED BY <2>1, <2>2
<1>19. PICK new : new = Loaded(projection'[d], known'[d])
  OBVIOUS
<1>20. PICK filled : filled = FilledIn(projection'[d], known'[d])
  OBVIOUS
<1>21. new.known = k2 /\ filled.known = k2 /\ ShownOK(new.calendar, new.known)
  <2>1. new.known = k2 /\ new.calendar = Rebuild(l2, k2).calendar /\ filled.known = k2
    BY <1>17, <1>19, <1>20 DEF Loaded, FilledIn
  <2> QED BY <1>9, <1>14, <2>1, FoldShown
<1>22. (drawer' = drawer \/ drawer' = [drawer EXCEPT ![d] = new]) /\ (form' = form \/ form' = [form EXCEPT ![d] = filled])
  BY <1>1, <1>19, <1>20 DEF CommitSeeing
<1>23. FormsOK'
  <2>1. FormsOK
    BY DEF RecordsInv
  <2>2. ASSUME NEW x \in Device
        PROVE  drawer'[x].known \subseteq known'[x] /\ ShownOK(drawer'[x].calendar, drawer'[x].known) /\ form'[x].known \subseteq known'[x]
    <3>1. known[x] \subseteq known'[x]
      BY <1>14, <1>17
    <3>2. drawer'[x] = drawer[x] \/ (x = d /\ drawer'[x] = new)
      BY <1>22, <2>1 DEF FormsOK
    <3>3. form'[x] = form[x] \/ (x = d /\ form'[x] = filled)
      BY <1>22, <2>1 DEF FormsOK
    <3> QED BY <1>17, <1>21, <2>1, <3>1, <3>2, <3>3 DEF FormsOK
  <2>3. DOMAIN drawer' = Device /\ DOMAIN form' = Device
    BY <1>22, <2>1 DEF FormsOK
  <2> QED BY <2>2, <2>3 DEF FormsOK
<1> QED BY <1>11, <1>15, <1>18, <1>23 DEF RecordsInv

\* Every step keeps the invariant.
LEMMA NextInv == RecordsInv /\ [Next]_vars => RecordsInv'
<1> SUFFICES ASSUME RecordsInv, [Next]_vars PROVE RecordsInv'
  OBVIOUS
<1>1. CASE UNCHANGED vars
  BY <1>1 DEF vars, RecordsInv, LogOK, WorkOK, KnownOK, FormsOK, ShowsFold, Until
<1>2. CASE Next
  <2>1. PICK d \in Device : \/ StockWork(d) \/ AmendWork(d) \/ RosterWork(d) \/ CountWork(d) \/ CalendarWork(d)
                           \/ \E n \in DOMAIN log : Learn(d, n)
    BY <1>2 DEF Next
  <2>2. Signs(d) \/ OpenForm(d) \/ OpenDrawer(d) \/ \E n \in DOMAIN log : Learn(d, n)
    BY <2>1, StockWorkSigns, AmendWorkSigns, RosterWorkSigns, CountWorkSigns, CalendarWorkSigns
  <2> QED BY <2>2, SignsInv, OpenInv, LearnInv
<1> QED BY <1>1, <1>2

\* On every device: what it shows is the fold of commands that it knows.
THEOREM RecordsInvariant == Spec => []RecordsInv
BY InitInv, NextInv, PTL DEF Spec

-----------------------------------------------------------------------------
(* What it shows.                                                          *)

\* The invariant leaves no event to set aside.
LEMMA InvNothingSetAside ==
  ASSUME RecordsInv
  PROVE  NothingSetAside
<1>1. ASSUME NEW d \in Device PROVE projection[d].unsafe = {}
  <2>1. PICK l : Shows(l, seen, known[d], projection[d])
    BY WhatIsShown DEF RecordsInv
  <2> QED BY <2>1 DEF Shows, Settled
<1> QED BY <1>1 DEF NothingSetAside

\* The invariant has the types.
LEMMA InvTypeOK ==
  ASSUME RecordsInv
  PROVE  TypeOK
<1>1. ASSUME NEW d \in Device
      PROVE  /\ known[d] \subseteq DOMAIN log /\ drawer[d].known \subseteq known[d]
             /\ projection[d].rejected \subseteq known[d]
             /\ \A x \in projection[d].conflicts : x.loser \in known[d] \ projection[d].rejected
  <2>1. PICK l : Shows(l, seen, known[d], projection[d])
    BY WhatIsShown DEF RecordsInv
  <2>2. projection[d].rejected \subseteq known[d] /\ Losers(projection[d].conflicts) \subseteq known[d] \ projection[d].rejected
    BY <2>1 DEF Shows, Settled
  <2>3. \A x \in projection[d].conflicts : x.loser \in Losers(projection[d].conflicts)
    BY DEF Losers
  <2>4. known[d] \subseteq DOMAIN log /\ drawer[d].known \subseteq known[d]
    BY DEF RecordsInv, KnownOK, FormsOK
  <2> QED BY <2>2, <2>3, <2>4
<1> QED BY <1>1 DEF TypeOK, RecordsInv, LogOK, IsLog, WorkOK

\* Two logs that agree on some events order them alike.
LEMMA OrderAgrees ==
  ASSUME NEW l, NEW l2, NEW S, \A n \in S : l[n] = l2[n], NEW m \in S, NEW n \in S
  PROVE  Before(l, m, n) <=> Before(l2, m, n)
BY DEF Before

\* The invariant lets no edit be overwritten in silence.
LEMMA InvNoSilentOverwrite ==
  ASSUME RecordsInv
  PROVE  NoSilentOverwrite
<1> SUFFICES ASSUME NEW d \in Device, NEW c \in DOMAIN projection[d].calendar,
                    NEW f \in DOMAIN projection[d].calendar[c].fields, NEW n \in EditsOf(projection[d].calendar[c], f)
             PROVE  LET earlier == {m \in EditsOf(projection[d].calendar[c], f) : Before(log, m, n)} IN
                    \/ Writing(c, earlier, f) \cap seen[n] # {}
                    \/ \A m \in Writing(c, earlier, f) \ {c} : log[m].changes[f] = log[n].changes[f]
  BY DEF NoSilentOverwrite
<1>1. PICK entry : entry = projection[d].calendar[c]
  OBVIOUS
<1>2. PICK S : S = known[d]
  OBVIOUS
<1>3. PICK l : (\A k \in S : l[k] = log[k]) /\ Shows(l, seen, S, projection[d])
  BY <1>2, WhatIsShown DEF RecordsInv
<1>4. EntryOK(l, seen, S, c, entry)
  BY <1>1, <1>3 DEF Shows, Shaped, CalendarOK
<1>5. c \in S /\ f \in DOMAIN l[c].fields /\ ToSet(entry.applied) \subseteq S
  <2>1. entry.applied \in Seq(S)
    BY <1>4 DEF EntryOK
  <2>2. ToSet(entry.applied) \subseteq S
    BY <2>1 DEF ToSet
  <2> QED BY <1>1, <1>4, <2>2 DEF EntryOK
<1>6. PICK E : E = EditsIn(l, entry, f)
  OBVIOUS
<1>7. E \subseteq S /\ E = EditsOf(entry, f) /\ n \in E
  <2>1. E = EditsOf(entry, f)
    BY <1>3, <1>5, <1>6 DEF EditsIn, EditsOf
  <2> QED BY <1>1, <1>5, <1>6, <2>1 DEF EditsIn
<1>8. ReplacedKnowingly(l, seen, c, E, f, n)
  BY <1>4, <1>5, <1>6, <1>7 DEF EntryOK, FieldOK
<1>9. PICK earlier : earlier = {m \in E : Before(log, m, n)}
  OBVIOUS
<1>10. \A k \in S : \A m \in S : Before(l, k, m) <=> Before(log, k, m)
  BY <1>3, OrderAgrees
<1>11. earlier = EarlierThan(l, E, n)
  BY <1>7, <1>9, <1>10 DEF EarlierThan
<1>12. earlier \cup {c} \in SUBSET S /\ earlier \cup {c} # {} /\ Placed(log, S)
  <2>1. Placed(log, S)
    BY <1>3 DEF Shows, Placed
  <2> QED BY <1>5, <1>7, <1>9, <2>1
<1>13. PICK last : last = LastOf(log, earlier \cup {c})
  OBVIOUS
<1>14. last \in earlier \cup {c} /\ \A m \in (earlier \cup {c}) \ {last} : Before(log, m, last)
  BY <1>12, <1>13, LastIsLast
<1>15. \A m \in earlier \cup {c} :
         Wrote(l, c, m, f) = IF m = c THEN log[c].fields[f] ELSE log[m].changes[f]
  BY <1>3, <1>12 DEF Wrote
<1>16. PICK v : v = Wrote(l, c, last, f)
  OBVIOUS
<1>17. WrittenLast(l, c, earlier, f, v)
  <2>1. \A m \in (earlier \cup {c}) \ {last} : Before(l, m, last)
    BY <1>10, <1>12, <1>14
  <2> QED BY <1>14, <1>16, <2>1 DEF WrittenLast
<1>18. Writing(c, earlier, f) = WritersOf(l, c, earlier, f, v)
  <2> DEFINE value(m) == IF m = c THEN log[c].fields[f] ELSE log[m].changes[f]
  <2>1. Writing(c, earlier, f)
          = {m \in earlier \cup {c} : \A k \in earlier \cup {c} : ~ Before(log, k, m) => value(k) = value(last)}
    BY <1>13 DEF Writing
  <2>2. v = value(last)
    BY <1>14, <1>15, <1>16
  <2>3. \A k \in earlier \cup {c} : value(k) = Wrote(l, c, k, f)
    BY <1>15
  <2> HIDE DEF value
  <2>4. ASSUME NEW m \in earlier \cup {c}, NEW k \in earlier \cup {c}
        PROVE  (~ Before(log, k, m) => value(k) = value(last)) <=> (~ Before(l, k, m) => Wrote(l, c, k, f) = v)
    BY <1>10, <1>12, <2>2, <2>3
  <2> QED BY <2>1, <2>4 DEF WritersOf
<1>19. PICK W : W = WritersOf(l, c, earlier, f, v)
  OBVIOUS
<1>20. W \cap seen[n] # {} \/ \A m \in W \ {c} : l[m].changes[f] = l[n].changes[f]
  BY <1>8, <1>11, <1>17, <1>19 DEF ReplacedKnowingly
<1>21. W \subseteq S /\ n \in S
  BY <1>7, <1>12, <1>19 DEF WritersOf
<1>22. W \cap seen[n] # {} \/ \A m \in W \ {c} : log[m].changes[f] = log[n].changes[f]
  BY <1>3, <1>20, <1>21
<1> QED BY <1>1, <1>7, <1>9, <1>18, <1>19, <1>22

\* What a device shows has a shape, whatever it was told and in which order.
THEOREM RecordsTypeOK == Spec => []TypeOK
BY RecordsInvariant, InvTypeOK, PTL

\* No event that a command lets through is ever set aside as impossible.
THEOREM NothingIsSetAside == Spec => []NothingSetAside
BY RecordsInvariant, InvNothingSetAside, PTL

\* An edit of an event's details replaces only what its author's drawer had shown.
THEOREM NothingIsOverwritten == Spec => []NoSilentOverwrite
BY RecordsInvariant, InvNoSilentOverwrite, PTL

-----------------------------------------------------------------------------
(* What a count watches.                                                   *)

\* A session keeps what it watches; it is opened; it is finalized.
Watches(old, new) == new.baseline = old.baseline /\ new.finalizer = old.finalizer /\ new.warnings = old.warnings
Opened(p, q, new) == new.baseline = Baseline(p) /\ new.finalizer = 0 /\ q.items = p.items
Finalized(l, p, n, old, new) ==
  /\ new.baseline = old.baseline /\ new.finalizer = n
  /\ new.warnings = {i \in DOMAIN l[n].totals : MovedSinceBaseline(l, p, old, i)}
SessionStep(l, p, q, n, s) ==
  \/ s \in DOMAIN p.sessions /\ Watches(p.sessions[s], q.sessions[s])
  \/ s = n /\ Opened(p, q, q.sessions[s])
  \/ s \in DOMAIN p.sessions /\ Finalized(l, p, n, p.sessions[s], q.sessions[s])

\* What is put in the place of a session watches what that did.
LEMMA PutWatches ==
  ASSUME NEW l, NEW p, NEW q, NEW n, NEW c \in DOMAIN p.sessions, NEW new, Watches(p.sessions[c], new),
         q.sessions = [p.sessions EXCEPT ![c] = new], NEW s \in DOMAIN q.sessions
  PROVE  SessionStep(l, p, q, n, s)
BY DEF SessionStep, Watches

\* A session has its parts, wherever it came from.
LEMMA SessionParts ==
  ASSUME NEW S, NEW p, SessionsOK(S, p.sessions), NEW c, IsSession(p, c)
  PROVE  /\ c \in DOMAIN p.sessions
         /\ DOMAIN p.sessions[c]
              = {"status", "assigned", "observations", "cutoff", "baseline", "warnings", "finalizer"}
BY DEF SessionsOK, SessionOK, IsSession

\* Counting and correcting a count, submitting, reopening and cancelling it.
LEMMA WorkWatches ==
  ASSUME NEW l, NEW S, NEW p, NEW n, Whole(p), SessionsOK(S, p.sessions), IsSession(p, l[n].session),
         NEW q, q \in {Observe(l, p, n), CorrectCount(l, p, n), SubmitSession(l, p, n), ReopenSession(l, p, n),
                       CancelSession(l, p, n)},
         NEW s \in DOMAIN q.sessions
  PROVE  SessionStep(l, p, q, n, s)
<1>1. PICK c : c = l[n].session
  OBVIOUS
<1>2. PICK old : old = p.sessions[c]
  OBVIOUS
<1>3. /\ c \in DOMAIN p.sessions
      /\ DOMAIN old = {"status", "assigned", "observations", "cutoff", "baseline", "warnings", "finalizer"}
  BY <1>1, <1>2, SessionParts
<1>4. ASSUME NEW O, q = [p EXCEPT !.sessions[c].observations = O] PROVE SessionStep(l, p, q, n, s)
  <2>1. PICK new : new = [old EXCEPT !.observations = O]
    OBVIOUS
  <2>2. q.sessions = [p.sessions EXCEPT ![c] = new]
    BY <1>2, <1>3, <1>4, <2>1 DEF Whole
  <2>3. Watches(p.sessions[c], new)
    BY <1>2, <1>3, <2>1 DEF Watches
  <2> QED BY <1>3, <2>2, <2>3, PutWatches
<1>5. CASE q = Observe(l, p, n)
  <2>1. \E O : q = [p EXCEPT !.sessions[c].observations = O]
    BY <1>1, <1>2, <1>3, <1>5, Zenon DEF Observe
  <2> QED BY <1>4, <2>1
<1>6. CASE q = CorrectCount(l, p, n)
  <2>1. \E O : q = [p EXCEPT !.sessions[c].observations = O]
    BY <1>1, <1>2, <1>3, <1>6, Zenon DEF CorrectCount
  <2> QED BY <1>4, <2>1
<1>7. CASE q = SubmitSession(l, p, n)
  <2>1. PICK new : new = [old EXCEPT !.observations = ObservationsAt(@, l[n].contributions, l[n].corrections),
                     !.status = "SUBMITTED", !.cutoff = [frozen |-> TRUE, observations |-> l[n].contributions]]
    OBVIOUS
  <2>2. q = [p EXCEPT !.sessions[c] = new]
    BY <1>1, <1>2, <1>7, <2>1 DEF SubmitSession, Session
  <2>3. q.sessions = [p.sessions EXCEPT ![c] = new]
    BY <2>2 DEF Whole
  <2>4. Watches(p.sessions[c], new)
    BY <1>2, <1>3, <2>1 DEF Watches
  <2> QED BY <1>3, <2>3, <2>4, PutWatches
<1>8. CASE q = ReopenSession(l, p, n)
  <2>1. PICK new : new = [old EXCEPT !.observations = ReopenedObservations(@), !.status = "ACTIVE", !.cutoff = NoCutoff]
    OBVIOUS
  <2>2. q = [p EXCEPT !.sessions[c] = new]
    BY <1>1, <1>2, <1>8, <2>1 DEF ReopenSession, Session
  <2>3. q.sessions = [p.sessions EXCEPT ![c] = new]
    BY <2>2 DEF Whole
  <2>4. Watches(p.sessions[c], new)
    BY <1>2, <1>3, <2>1 DEF Watches
  <2> QED BY <1>3, <2>3, <2>4, PutWatches
<1>9. CASE q = CancelSession(l, p, n)
  <2>1. PICK new : new = [old EXCEPT !.status = "CANCELLED"]
    OBVIOUS
  <2>2. q.sessions = [p.sessions EXCEPT ![c] = new]
    BY <1>1, <1>2, <1>3, <1>9, <2>1 DEF CancelSession, Whole
  <2>3. Watches(p.sessions[c], new)
    BY <1>2, <1>3, <2>1 DEF Watches
  <2> QED BY <1>3, <2>2, <2>3, PutWatches
<1> QED BY <1>5, <1>6, <1>7, <1>8, <1>9

\* Opening a count.
LEMMA OpeningWatches ==
  ASSUME NEW l, NEW p, NEW n, Whole(p), n \notin DOMAIN p.sessions, NEW q, q = OpenSession(l, p, n),
         NEW s \in DOMAIN q.sessions
  PROVE  SessionStep(l, p, q, n, s)
<1>1. PICK new : new = [status |-> "ACTIVE", assigned |-> l[n].assigned, observations |-> {}, cutoff |-> NoCutoff,
                        baseline |-> Baseline(p), warnings |-> {}, finalizer |-> 0]
  OBVIOUS
<1>2. q.sessions = Joined(p.sessions, n, new) /\ q.items = p.items
  BY <1>1 DEF OpenSession, Whole
<1>3. CASE s \in DOMAIN p.sessions
  <2>1. q.sessions[s] = p.sessions[s]
    BY <1>2, <1>3 DEF Joined
  <2> QED BY <1>3, <2>1 DEF SessionStep, Watches
<1>4. CASE s \notin DOMAIN p.sessions
  <2>1. s = n /\ q.sessions[s] = new
    BY <1>2, <1>4 DEF Joined
  <2> QED BY <1>1, <1>2, <2>1 DEF SessionStep, Opened
<1> QED BY <1>3, <1>4

\* Finalizing it.
LEMMA FinalizingWatches ==
  ASSUME NEW l, NEW S, NEW p, NEW n, Whole(p), SessionsOK(S, p.sessions), IsSession(p, l[n].session),
         NEW q, q = ReconcileSession(l, p, n), NEW s \in DOMAIN q.sessions
  PROVE  SessionStep(l, p, q, n, s)
<1> DEFINE e == l[n]
<1> DEFINE c == l[n].session
<1>2. PICK old : old = p.sessions[c]
  OBVIOUS
<1>3. /\ c \in DOMAIN p.sessions
      /\ DOMAIN old = {"status", "assigned", "observations", "cutoff", "baseline", "warnings", "finalizer"}
  BY <1>2, SessionParts
<1> DEFINE moved == {i \in DOMAIN e.totals : MovedSinceBaseline(l, p, old, i)}
<1>4. PICK frozen : frozen = FrozenAt(old, e.contributions, e.corrections)
  OBVIOUS
<1> DEFINE measured(i) == Touch([p.items[i] EXCEPT !.onHand = e.totals[i], !.counted = n], n)
<1>5. PICK O : O = {IF o.event \in e.contributions THEN o ELSE [o EXCEPT !.status = "LATE"] : o \in frozen}
  OBVIOUS
<1>6. PICK items2 : items2 = [i \in Item |-> IF i \in DOMAIN e.totals THEN measured(i) ELSE p.items[i]]
  OBVIOUS
<1>7. PICK new : new = [old EXCEPT !.status = "RECONCILED", !.finalizer = n, !.warnings = moved,
                                   !.cutoff = [frozen |-> TRUE, observations |-> e.contributions], !.observations = O]
  OBVIOUS
<1>8. q = [p EXCEPT !.sessions[c] = new, !.items = items2]
  <2>1. q = [p EXCEPT
         !.sessions[c] =
           [old EXCEPT !.status = "RECONCILED", !.finalizer = n, !.warnings = moved,
              !.cutoff = [frozen |-> TRUE, observations |-> e.contributions],
              !.observations = {IF o.event \in e.contributions THEN o ELSE [o EXCEPT !.status = "LATE"] : o \in frozen}],
         !.items = items2]
    BY <1>2, <1>4, <1>6 DEF ReconcileSession, Session
  <2> HIDE DEF moved, measured
  <2> QED BY <1>5, <1>7, <2>1
<1>9. q.sessions = [p.sessions EXCEPT ![c] = new]
  BY <1>8 DEF Whole
<1>10. Finalized(l, p, n, p.sessions[c], new)
  BY <1>2, <1>3, <1>4, <1>7 DEF Finalized
<1>11. s \in DOMAIN p.sessions /\ (s = c => q.sessions[s] = new) /\ (s # c => q.sessions[s] = p.sessions[s])
  BY <1>3, <1>9
<1> QED BY <1>10, <1>11 DEF SessionStep, Watches

\* Whatever happens, a session is opened once and finalized by one event.
LEMMA SessionSteps ==
  ASSUME NEW l, NEW S, NEW all, NEW p, NEW n, Typed(l, S, p), Next1(l, S, all, p, n), NEW q, q = Effect(l, p, n),
         NEW s \in DOMAIN q.sessions
  PROVE  SessionStep(l, p, q, n, s)
<1>0. IsCommand(l[n]) /\ Whole(p) /\ SessionsOK(S, p.sessions) /\ n \notin DOMAIN p.sessions
  BY NextOne DEF Typed, SessionsOK
<1>1. CASE l[n].type \in CountEvents
  <2>1. q = ApplyCount(l, p, n)
    BY <1>1 DEF Effect, CountEvents, CalendarEvents, NeedChanges
  <2>2. ~ CountThrows(l, p, n)
    BY <1>0, <1>1, WhatThrows DEF Next1
  <2>3. l[n].type # "COUNT_SESSION_CREATED" => IsSession(p, l[n].session)
    BY <2>2 DEF CountThrows
  <2>4. CASE l[n].type = "COUNT_SESSION_CREATED"
    <3>1. q = OpenSession(l, p, n)
      BY <2>1, <2>4 DEF ApplyCount
    <3> QED BY <1>0, <3>1, OpeningWatches
  <2>5. CASE l[n].type = "COUNT_SESSION_RECONCILED"
    <3>1. q = ReconcileSession(l, p, n) /\ IsSession(p, l[n].session)
      BY <2>1, <2>3, <2>5 DEF ApplyCount
    <3> QED BY <1>0, <3>1, FinalizingWatches
  <2>6. CASE l[n].type \notin {"COUNT_SESSION_CREATED", "COUNT_SESSION_RECONCILED"}
    <3>1. q \in {Observe(l, p, n), CorrectCount(l, p, n), SubmitSession(l, p, n), ReopenSession(l, p, n),
                 CancelSession(l, p, n)}
      BY <1>1, <2>1, <2>6 DEF ApplyCount, CountEvents
    <3>2. IsSession(p, l[n].session)
      BY <2>3, <2>6
    <3> QED BY <1>0, <3>1, <3>2, WorkWatches
  <2> QED BY <2>4, <2>5, <2>6
<1>2. CASE l[n].type \notin CountEvents
  <2>1. q.sessions = p.sessions
    BY <1>0, <1>2, EffectKeeps
  <2> QED BY <2>1 DEF SessionStep, Watches
<1> QED BY <1>1, <1>2

\* What was applied to a size after the first v events is what came after s.
Since(l, it, v, s) ==
  v \in Nat /\ v <= Len(it.applied) /\ \A k \in 1 .. Len(it.applied) : k > v <=> Before(l, s, it.applied[k])

\* The stock of a size moved after s, and before f.
MovedAfter(l, it, s) == \E m \in ToSet(it.applied) : Before(l, s, m) /\ l[m].type \notin MetadataOnly
MovedIn(l, it, s, f) ==
  \E m \in ToSet(it.applied) : Before(l, s, m) /\ Before(l, m, f) /\ l[m].type \notin MetadataOnly

\* The baseline of a count marks the place of the count in the history of each size,
\* and the warnings of a finalized one are what moved meanwhile.
BaselineOK(l, items, s, baseline) ==
  \A b \in baseline : b.item \in Item /\ Since(l, items[b.item], b.version, s)
Warned(l, items, s, f, baseline) ==
  {i \in DOMAIN l[f].totals : (\E b \in baseline : b.item = i) /\ MovedIn(l, items[i], s, f)}
WatchOK(l, S, items, s, session) ==
  /\ BaselineOK(l, items, s, session.baseline)
  /\ session.finalizer # 0 =>
       session.finalizer \in S /\ session.warnings = Warned(l, items, s, session.finalizer, session.baseline)
WatchesOK(l, S, p) == \A s \in DOMAIN p.sessions : s \in S /\ WatchOK(l, S, p.items, s, p.sessions[s])

\* One more event that is applied to a size comes after every event that a count is or
\* that finalized one.
LEMMA SinceKept ==
  ASSUME NEW l, NEW S, NEW n, Newest(l, S, n), NEW s \in S, NEW it, IsItem(S, it), NEW v, Since(l, it, v, s),
         NEW it2, it2 = it \/ Bumps(it, it2, n)
  PROVE  Since(l, it2, v, s)
<1>1. CASE it2 = it
  BY <1>1
<1>2. CASE Bumps(it, it2, n)
  <2>1. PICK a \in Seq(S) : a = it.applied
    BY DEF IsItem
  <2>2. it2.applied = Append(a, n)
    BY <1>2, <2>1 DEF Bumps
  <2>3. PICK a2 : a2 = Append(a, n)
    OBVIOUS
  <2>4. Len(a) \in Nat /\ Len(a2) = Len(a) + 1 /\ (\A k \in 1 .. Len(a) : a2[k] = a[k]) /\ a2[Len(a) + 1] = n
    <3>1. a \in Seq(S \cup {n})
      BY SeqMonotonic
    <3> QED BY <2>3, <3>1
  <2>5. Before(l, s, n)
    BY DEF Newest
  <2>6. v \in Nat /\ v <= Len(a) /\ \A k \in 1 .. Len(a) : k > v <=> Before(l, s, a[k])
    BY <2>1 DEF Since
  <2>7. ASSUME NEW k \in 1 .. (Len(a) + 1) PROVE k > v <=> Before(l, s, a2[k])
    <3>1. CASE k \in 1 .. Len(a)
      BY <2>4, <2>6, <3>1
    <3>2. CASE k = Len(a) + 1
      <4>1. k > v
        BY <2>4, <2>6, <3>2
      <4>2. a2[k] = n
        BY <2>4, <3>2
      <4> QED BY <2>5, <4>1, <4>2
    <3> QED BY <2>4, <3>1, <3>2
  <2>8. v <= Len(a) + 1
    BY <2>4, <2>6
  <2>9. it2.applied = a2
    BY <2>2, <2>3
  <2> QED BY <2>4, <2>6, <2>7, <2>8, <2>9 DEF Since
<1> QED BY <1>1, <1>2

\* A count that opens comes after everything that was applied to the sizes.
LEMMA SinceOpening ==
  ASSUME NEW l, NEW S, NEW n, Newest(l, S, n), NEW it, IsItem(S, it)
  PROVE  Since(l, it, it.version, n)
<1>1. PICK a \in Seq(S) : a = it.applied /\ it.version = Len(a)
  BY DEF IsItem
<1>2. ASSUME NEW k \in 1 .. Len(a) PROVE ~ Before(l, n, a[k]) /\ ~ (k > Len(a))
  <2>1. a[k] \in S /\ Len(a) \in Nat
    BY ElementOfSeq
  <2>2. Before(l, a[k], n) /\ Placed(l, S \cup {n})
    BY <2>1 DEF Newest
  <2>3. ~ Before(l, n, a[k])
    BY <2>1, <2>2, OrderIsTotal
  <2> QED BY <2>1, <2>3
<1>3. Len(a) \in Nat /\ Len(a) <= Len(a)
  BY LenProperties
<1> QED BY <1>1, <1>2, <1>3 DEF Since

\* The versions say what moved since the count was opened.
LEMMA SinceMoved ==
  ASSUME NEW l, NEW S, NEW s, NEW it, IsItem(S, it), NEW v, Since(l, it, v, s)
  PROVE  StockMovedSince(l, it, v) <=> MovedAfter(l, it, s)
<1>1. PICK a \in Seq(S) : a = it.applied /\ it.version = Len(a)
  BY DEF IsItem
<1>2. Len(a) \in Nat /\ DOMAIN a = 1 .. Len(a) /\ v \in Nat /\ v <= Len(a)
  BY <1>1, LenProperties DEF Since
<1>3. \A k \in 1 .. Len(a) : k > v <=> Before(l, s, a[k])
  BY <1>1 DEF Since
<1>4. (Len(a) - (Len(a) - v) + 1) .. Len(a) = (v + 1) .. Len(a)
  BY <1>2
<1>5. StockMovedSince(l, it, v) <=> \E k \in (v + 1) .. Len(a) : k > 0 /\ l[a[k]].type \notin MetadataOnly
  BY <1>1, <1>4 DEF StockMovedSince
<1>6. MovedAfter(l, it, s) <=> \E k \in 1 .. Len(a) : Before(l, s, a[k]) /\ l[a[k]].type \notin MetadataOnly
  BY <1>1, <1>2 DEF MovedAfter, ToSet
<1>7. \A k : k \in (v + 1) .. Len(a) <=> k \in 1 .. Len(a) /\ k > v
  BY <1>2
<1>8. \A k \in 1 .. Len(a) : k > 0
  BY <1>2
<1> QED BY <1>3, <1>5, <1>6, <1>7, <1>8

\* One more event.
LEMMA OneMoreApplied ==
  ASSUME NEW S, NEW n, NEW it, IsItem(S, it), NEW it2, Bumps(it, it2, n)
  PROVE  ToSet(it2.applied) = ToSet(it.applied) \cup {n} /\ ToSet(it.applied) \subseteq S
<1>1. PICK a : a = it.applied
  OBVIOUS
<1>2. a \in Seq(S) /\ it2.applied = Append(a, n)
  BY <1>1 DEF IsItem, Bumps
<1>3. ToSet(Append(a, n)) = ToSet(a) \cup {n} /\ Append(a, n) \in Seq(S \cup {n}) /\ ToSet(a) \subseteq S
  BY ONLY <1>2, AppendedSet
<1> HIDE DEF Bumps
<1> QED BY <1>1, <1>2, <1>3

\* What moved before an earlier event stays what it is.
LEMMA MovedKept ==
  ASSUME NEW l, NEW S, NEW n, Newest(l, S, n), NEW s, NEW f \in S, NEW it, IsItem(S, it),
         NEW it2, it2 = it \/ Bumps(it, it2, n)
  PROVE  MovedIn(l, it2, s, f) <=> MovedIn(l, it, s, f)
<1>1. CASE it2 = it
  BY <1>1
<1>2. CASE Bumps(it, it2, n)
  <2>2. ToSet(it2.applied) = ToSet(it.applied) \cup {n}
    BY <1>2, OneMoreApplied
  <2>3. ~ Before(l, n, f)
    BY OrderIsTotal DEF Newest
  <2> QED BY <2>2, <2>3 DEF MovedIn
<1> QED BY <1>1, <1>2

\* What moved before the event that finalizes is what moved so far.
LEMMA MovedNow ==
  ASSUME NEW l, NEW S, NEW n, Newest(l, S, n), NEW s, NEW it, IsItem(S, it),
         NEW it2, it2 = it \/ Bumps(it, it2, n)
  PROVE  MovedIn(l, it2, s, n) <=> MovedAfter(l, it, s)
<1>0. it.applied \in Seq(S) /\ (\A m \in S : Before(l, m, n)) /\ ~ Before(l, n, n)
  BY OrderIsTotal DEF IsItem, Newest
<1>1. ToSet(it.applied) \subseteq S
  BY <1>0, ElementOfSeq DEF ToSet
<1>2. CASE it2 = it
  BY <1>0, <1>1, <1>2 DEF MovedIn, MovedAfter
<1>3. CASE Bumps(it, it2, n)
  <2>2. ToSet(it2.applied) = ToSet(it.applied) \cup {n}
    BY <1>3, OneMoreApplied
  <2> QED BY <1>0, <1>1, <2>2 DEF MovedIn, MovedAfter
<1> QED BY <1>2, <1>3

\* The sizes go on.
LEMMA BaselineKept ==
  ASSUME NEW l, NEW S, NEW n, Newest(l, S, n), NEW s \in S, NEW items, ItemsOK(S, items),
         NEW items2, ItemsStep(items, items2, n), NEW baseline, BaselineOK(l, items, s, baseline)
  PROVE  BaselineOK(l, items2, s, baseline)
<1>1. ASSUME NEW b \in baseline PROVE Since(l, items2[b.item], b.version, s)
  <2>1. PICK it, it2 : it = items[b.item] /\ it2 = items2[b.item]
    OBVIOUS
  <2>2. b.item \in Item /\ Since(l, it, b.version, s)
    BY <2>1 DEF BaselineOK
  <2>3. IsItem(S, it) /\ (it2 = it \/ Bumps(it, it2, n))
    BY <2>1, <2>2 DEF ItemsOK, ItemsStep, LeftOrBumped
  <2> QED BY <2>1, <2>2, <2>3, SinceKept
<1> QED BY <1>1 DEF BaselineOK

\* What a finalization warned of stays what had moved by then.
LEMMA WarnedKept ==
  ASSUME NEW l, NEW S, NEW n, Newest(l, S, n), NEW s \in S, NEW f \in S, NEW items, ItemsOK(S, items),
         NEW items2, ItemsStep(items, items2, n), NEW baseline, BaselineOK(l, items, s, baseline)
  PROVE  Warned(l, items2, s, f, baseline) = Warned(l, items, s, f, baseline)
<1>1. ASSUME NEW i, \E b \in baseline : b.item = i PROVE MovedIn(l, items2[i], s, f) <=> MovedIn(l, items[i], s, f)
  <2>1. i \in Item
    BY <1>1 DEF BaselineOK
  <2>2. PICK it, it2 : it = items[i] /\ it2 = items2[i]
    OBVIOUS
  <2>3. IsItem(S, it) /\ (it2 = it \/ Bumps(it, it2, n))
    BY <2>1, <2>2 DEF ItemsOK, ItemsStep, LeftOrBumped
  <2> QED BY <2>2, <2>3, MovedKept
<1> QED BY <1>1 DEF Warned

\* A finalization warns of what had moved since the count opened.
LEMMA WarnedNow ==
  ASSUME NEW l, NEW S, NEW n, Newest(l, S, n), NEW s \in S, NEW p, ItemsOK(S, p.items),
         NEW items2, ItemsStep(p.items, items2, n), NEW session, BaselineOK(l, p.items, s, session.baseline)
  PROVE  {i \in DOMAIN l[n].totals : MovedSinceBaseline(l, p, session, i)}
           = Warned(l, items2, s, n, session.baseline)
<1>1. ASSUME NEW i, NEW b \in session.baseline, b.item = i
      PROVE  StockMovedSince(l, p.items[i], b.version) <=> MovedIn(l, items2[i], s, n)
  <2>1. PICK it, it2 : it = p.items[i] /\ it2 = items2[i]
    OBVIOUS
  <2>2. i \in Item /\ Since(l, it, b.version, s)
    BY <1>1, <2>1 DEF BaselineOK
  <2>3. IsItem(S, it) /\ (it2 = it \/ Bumps(it, it2, n))
    BY <2>1, <2>2 DEF ItemsOK, ItemsStep, LeftOrBumped
  <2>4. StockMovedSince(l, it, b.version) <=> MovedAfter(l, it, s)
    BY <2>2, <2>3, SinceMoved
  <2>5. MovedIn(l, it2, s, n) <=> MovedAfter(l, it, s)
    BY <2>3, MovedNow
  <2> QED BY <2>1, <2>4, <2>5
<1> QED BY <1>1 DEF Warned, MovedSinceBaseline

\* What a count watches stays right when an event has its effect.
LEMMA WatchesEffect ==
  ASSUME NEW l, NEW S, NEW all, NEW p, NEW n, Typed(l, S, p), Next1(l, S, all, p, n), WatchesOK(l, S, p),
         NEW q, q = Effect(l, p, n)
  PROVE  WatchesOK(l, S \cup {n}, q)
<1>0. ItemsOK(S, p.items) /\ Newest(l, S, n)
  BY DEF Typed, Next1
<1>1. ItemsStep(p.items, q.items, n)
  BY ItemsEffect
<1>2. ASSUME NEW s \in DOMAIN q.sessions PROVE s \in S \cup {n} /\ WatchOK(l, S \cup {n}, q.items, s, q.sessions[s])
  <2>0. PICK new, items2 : new = q.sessions[s] /\ items2 = q.items
    OBVIOUS
  <2>1. SessionStep(l, p, q, n, s)
    BY SessionSteps
  <2>2. ASSUME s \in DOMAIN p.sessions
        PROVE  s \in S /\ WatchOK(l, S, p.items, s, p.sessions[s])
               /\ BaselineOK(l, p.items, s, p.sessions[s].baseline)
    BY <2>2 DEF WatchesOK, WatchOK
  <2>3. CASE s \in DOMAIN p.sessions /\ Watches(p.sessions[s], new)
    <3>1. PICK old : old = p.sessions[s]
      OBVIOUS
    <3>2. s \in S /\ WatchOK(l, S, p.items, s, old) /\ BaselineOK(l, p.items, s, old.baseline)
      BY <2>2, <2>3, <3>1
    <3>3. new.baseline = old.baseline /\ new.finalizer = old.finalizer /\ new.warnings = old.warnings
      BY <2>3, <3>1 DEF Watches
    <3>4. BaselineOK(l, items2, s, old.baseline)
      BY <1>0, <1>1, <2>0, <3>2, BaselineKept
    <3>5. old.finalizer # 0 =>
            old.finalizer \in S /\ old.warnings = Warned(l, items2, s, old.finalizer, old.baseline)
      <4>1. ASSUME old.finalizer # 0
            PROVE  old.finalizer \in S /\ old.warnings = Warned(l, items2, s, old.finalizer, old.baseline)
        <5>1. old.finalizer \in S /\ old.warnings = Warned(l, p.items, s, old.finalizer, old.baseline)
          BY <3>2, <4>1 DEF WatchOK
        <5>2. Warned(l, items2, s, old.finalizer, old.baseline) = Warned(l, p.items, s, old.finalizer, old.baseline)
          BY <1>0, <1>1, <2>0, <3>2, <5>1, WarnedKept
        <5> QED BY <5>1, <5>2
      <4> QED BY <4>1
    <3>6. WatchOK(l, S \cup {n}, items2, s, new)
      BY <3>3, <3>4, <3>5 DEF WatchOK
    <3> QED BY <2>0, <3>2, <3>6
  <2>4. CASE s = n /\ Opened(p, q, new)
    <3>1. new.baseline = Baseline(p) /\ new.finalizer = 0 /\ items2 = p.items
      BY <2>0, <2>4 DEF Opened
    <3>2. ASSUME NEW b \in Baseline(p) PROVE b.item \in Item /\ Since(l, p.items[b.item], b.version, n)
      <4>1. PICK i \in Item : b = [item |-> i, version |-> p.items[i].version]
        BY <3>2 DEF Baseline
      <4>2. IsItem(S, p.items[i])
        BY <1>0 DEF ItemsOK
      <4>3. Since(l, p.items[i], p.items[i].version, n)
        BY <1>0, <4>2, SinceOpening
      <4> QED BY <4>1, <4>3
    <3>3. BaselineOK(l, items2, n, new.baseline)
      BY <3>1, <3>2 DEF BaselineOK
    <3> QED BY <2>0, <2>4, <3>1, <3>3 DEF WatchOK
  <2>5. CASE s \in DOMAIN p.sessions /\ Finalized(l, p, n, p.sessions[s], new)
    <3>1. PICK old : old = p.sessions[s]
      OBVIOUS
    <3>2. s \in S /\ BaselineOK(l, p.items, s, old.baseline)
      BY <2>2, <2>5, <3>1
    <3>3. new.baseline = old.baseline /\ new.finalizer = n
          /\ new.warnings = {i \in DOMAIN l[n].totals : MovedSinceBaseline(l, p, old, i)}
      BY <2>5, <3>1 DEF Finalized
    <3>4. BaselineOK(l, items2, s, old.baseline)
      BY <1>0, <1>1, <2>0, <3>2, BaselineKept
    <3>5. {i \in DOMAIN l[n].totals : MovedSinceBaseline(l, p, old, i)} = Warned(l, items2, s, n, old.baseline)
      BY <1>0, <1>1, <2>0, <3>2, WarnedNow
    <3>6. WatchOK(l, S \cup {n}, items2, s, new)
      BY <3>3, <3>4, <3>5 DEF WatchOK
    <3> QED BY <2>0, <3>2, <3>6
  <2> QED BY <2>0, <2>1, <2>3, <2>4, <2>5 DEF SessionStep
<1> QED BY <1>2 DEF WatchesOK

\* An event that is refused changes nothing that a count watches, nor does time.
LEMMA WatchesAlike ==
  ASSUME NEW l, NEW S, NEW n, NEW p, WatchesOK(l, S, p), NEW q, q.items = p.items, q.sessions = p.sessions
  PROVE  WatchesOK(l, S \cup {n}, q)
BY DEF WatchesOK, WatchOK

\* The fold keeps what counts watch.
LEMMA WatchesKept ==
  ASSUME NEW l, NEW S, NEW all, NEW p, NEW n, Settled(l, S, p), WatchesOK(l, S, p), NEW q,
         \/ Refused(p, n, q)
         \/ Next1(l, S, all, p, n) /\ Accepted(l, all, p, n, Effect(l, p, n), q)
  PROVE  WatchesOK(l, S \cup {n}, q)
<1>1. CASE Refused(p, n, q)
  BY <1>1, WatchesAlike DEF Refused, Alike
<1>2. CASE Next1(l, S, all, p, n) /\ Accepted(l, all, p, n, Effect(l, p, n), q)
  <2>1. PICK r : r = Effect(l, p, n)
    OBVIOUS
  <2>2. Typed(l, S, p)
    BY DEF Settled
  <2>3. WatchesOK(l, S \cup {n}, r)
    BY <1>2, <2>1, <2>2, WatchesEffect
  <2>4. Alike(r, q)
    BY <1>2, <2>1 DEF Accepted
  <2>5. WatchesOK(l, (S \cup {n}) \cup {n}, q)
    BY <2>3, <2>4, WatchesAlike DEF Alike
  <2>6. (S \cup {n}) \cup {n} = S \cup {n}
    OBVIOUS
  <2> QED BY <2>5, <2>6
<1> QED BY <1>1, <1>2

\* The fold of all events keeps what counts watch.
LEMMA RebuildWatches ==
  ASSUME NEW l, NEW all, Placed(l, all), \A n \in all : IsCommand(l[n])
  PROVE  WatchesOK(l, all, Rebuild(l, all))
<1>2. PICK f : Folds(f, l, all) /\ f[all] = Rebuild(l, all)
  BY RebuildFolds
<1> DEFINE P == {T \in SUBSET all : Settled(l, T, f[T]) /\ WatchesOK(l, T, f[T])}
<1>3. {} \in P
  <2>1. f[{}] = Genesis
    BY <1>2 DEF Folds
  <2>2. WatchesOK(l, {}, Genesis)
    BY DEF WatchesOK, Genesis
  <2> QED BY <2>1, <2>2, GenesisSettled
<1>4. ASSUME NEW T \in P, NEW n \in all, Newest(l, T, n) PROVE T \cup {n} \in P
  <2>1. T \in SUBSET all /\ Settled(l, T, f[T]) /\ WatchesOK(l, T, f[T])
    OBVIOUS
  <2>2. PICK p, q : p = f[T] /\ q = f[T \cup {n}]
    OBVIOUS
  <2>3. q = TryApply(l, all, p, n)
    BY <1>2, <1>4, <2>1, <2>2, FoldsNext
  <2>4. /\ Settled(l, T \cup {n}, q)
        /\ \/ Throws(l, all, p, n) /\ Refused(p, n, q)
           \/ Next1(l, T, all, p, n) /\ Accepted(l, all, p, n, Effect(l, p, n), q)
    BY <1>4, <2>1, <2>2, <2>3, SettledKept
  <2>5. WatchesOK(l, T \cup {n}, q)
    BY <2>1, <2>2, <2>4, WatchesKept
  <2> QED BY <2>1, <2>2, <2>4, <2>5
<1>5. P \in SUBSET (SUBSET all)
  OBVIOUS
<1> HIDE DEF P
<1>6. all \in P
  BY <1>3, <1>4, <1>5, FoldInduction
<1> QED BY <1>2, <1>6 DEF P

\* The part of the log that was folded says of what moved what the log says.
LEMMA MovedAgrees ==
  ASSUME NEW l, NEW l2, NEW S, \A n \in S : l[n] = l2[n], NEW it, IsItem(S, it), NEW s \in S
  PROVE  /\ MovedAfter(l, it, s) <=> \E m \in ToSet(it.applied) : Before(l2, s, m) /\ l2[m].type \notin MetadataOnly
         /\ \A v : StockMovedSince(l, it, v) <=> StockMovedSince(l2, it, v)
         /\ \A f \in S : MovedIn(l, it, s, f) <=>
              \E m \in ToSet(it.applied) : Before(l2, s, m) /\ Before(l2, m, f) /\ l2[m].type \notin MetadataOnly
<1>1. PICK a \in Seq(S) : a = it.applied /\ it.version = Len(a)
  BY DEF IsItem
<1>2. Len(a) \in Nat /\ \A k \in 1 .. Len(a) : a[k] \in S
  BY <1>1, LenProperties, ElementOfSeq
<1>3. ToSet(a) \subseteq S
  BY <1>2, LenProperties DEF ToSet
<1>4. \A k \in S : \A m \in S : Before(l, k, m) <=> Before(l2, k, m)
  BY OrderAgrees
<1>5. ASSUME NEW v PROVE StockMovedSince(l, it, v) <=> StockMovedSince(l2, it, v)
  <2>1. PICK b : b = (Len(a) - (Len(a) - v) + 1) .. Len(a)
    OBVIOUS
  <2>2. \A k \in b : k > 0 => k \in 1 .. Len(a)
    BY <1>2, <2>1
  <2>3. \A k \in b : k > 0 => l[a[k]] = l2[a[k]]
    BY <1>2, <2>2
  <2> QED BY <1>1, <2>1, <2>3 DEF StockMovedSince
<1> QED BY <1>1, <1>3, <1>4, <1>5 DEF MovedAfter, MovedIn

\* What the status of a size says about an open count.
LEMMA MovedReason ==
  ASSUME NEW p, NEW s \in DOMAIN p.sessions, NEW i \in VariantsOf(p), CountIsOpen(p.sessions[s])
  PROVE  <<"MOVED_DURING_COUNT", s>> \in ReconciliationReasons(log, p, i)
           <=> /\ \E o \in p.sessions[s].observations : o.item = i /\ o.status # "LATE"
               /\ MovedSinceBaseline(log, p, p.sessions[s], i)
<1>1. PICK mattering : mattering = {t \in DOMAIN p.sessions : Matters(log, p, i, p.sessions[t])}
  OBVIOUS
<1>2. s \in mattering
  BY <1>1 DEF Matters
<1>3. p.items[i].active
  BY DEF VariantsOf
<1>4. PICK M : M = {t \in mattering : MovedDuringCount(log, p, i, p.sessions[t])}
  OBVIOUS
<1>5. PICK L : L = {t \in mattering : LateCount(i, p.sessions[t]) # {}}
  OBVIOUS
<1>6. ReconciliationReasons(log, p, i) = {<<"MOVED_DURING_COUNT", t>> : t \in M} \cup {<<"LATE_COUNT", t>> : t \in L}
  BY <1>1, <1>3, <1>4, <1>5 DEF ReconciliationReasons
<1>7. <<"MOVED_DURING_COUNT", s>> \in ReconciliationReasons(log, p, i) <=> s \in M
  BY ONLY <1>6
<1>8. s \in M <=> MovedDuringCount(log, p, i, p.sessions[s])
  BY <1>2, <1>4
<1> QED BY <1>7, <1>8 DEF MovedDuringCount

\* The invariant makes counts warn of what moved.
LEMMA InvWarnsOfMovement ==
  ASSUME RecordsInv
  PROVE  WarnsOfMovement
<1> SUFFICES ASSUME NEW d \in Device, NEW p, p = projection[d], NEW s \in DOMAIN p.sessions,
                    NEW session, session = p.sessions[s]
             PROVE  /\ session.finalizer # 0 =>
                        session.warnings = {i \in DOMAIN log[session.finalizer].totals :
                                              InBaseline(session, i) /\ MovedBetween(p, i, s, session.finalizer)}
                    /\ CountIsOpen(session) =>
                        \A i \in VariantsOf(p) :
                          (<<"MOVED_DURING_COUNT", s>> \in ReconciliationReasons(log, p, i))
                            <=> /\ \E o \in session.observations : o.item = i /\ o.status # "LATE"
                                /\ InBaseline(session, i)
                                /\ \E m \in AppliedTo(p, i) : Before(log, s, m) /\ log[m].type \notin MetadataOnly
  BY DEF WarnsOfMovement
<1>1. PICK S : S = known[d]
  OBVIOUS
<1>2. PICK l : (\A k \in S : l[k] = log[k]) /\ Shows(l, seen, S, p)
  BY <1>1, WhatIsShown DEF RecordsInv
<1>3. Placed(l, S) /\ p = Rebuild(l, S) /\ (\A n \in S : IsCommand(l[n])) /\ ItemsOK(S, p.items)
  BY <1>2 DEF Shows, Commands, SignedAt, Settled, Typed
<1>4. WatchesOK(l, S, p)
  BY <1>3, RebuildWatches
<1>5. s \in S /\ WatchOK(l, S, p.items, s, session)
  BY <1>4 DEF WatchesOK
<1>6. ASSUME NEW i, InBaseline(session, i)
      PROVE  /\ i \in Item /\ IsItem(S, p.items[i])
             /\ MovedSinceBaseline(log, p, session, i)
                  <=> \E m \in AppliedTo(p, i) : Before(log, s, m) /\ log[m].type \notin MetadataOnly
             /\ \A f \in S : MovedIn(l, p.items[i], s, f) <=> MovedBetween(p, i, s, f)
  <2>1. \A b \in session.baseline : b.item \in Item /\ Since(l, p.items[b.item], b.version, s)
    BY <1>5 DEF WatchOK, BaselineOK
  <2>2. i \in Item
    BY <1>6, <2>1 DEF InBaseline
  <2>3. PICK it : it = p.items[i]
    OBVIOUS
  <2>4. IsItem(S, it)
    BY <1>3, <2>2, <2>3 DEF ItemsOK
  <2>5. /\ MovedAfter(l, it, s) <=> \E m \in ToSet(it.applied) : Before(log, s, m) /\ log[m].type \notin MetadataOnly
        /\ \A v : StockMovedSince(l, it, v) <=> StockMovedSince(log, it, v)
        /\ \A f \in S : MovedIn(l, it, s, f) <=>
             \E m \in ToSet(it.applied) : Before(log, s, m) /\ Before(log, m, f) /\ log[m].type \notin MetadataOnly
    BY <1>2, <1>5, <2>4, MovedAgrees
  <2>6. ASSUME NEW b \in session.baseline, b.item = i
        PROVE  StockMovedSince(log, it, b.version) <=> MovedAfter(l, it, s)
    <3>1. Since(l, it, b.version, s)
      BY <2>1, <2>3, <2>6
    <3>2. StockMovedSince(l, it, b.version) <=> MovedAfter(l, it, s)
      BY <2>4, <3>1, SinceMoved
    <3> QED BY <2>5, <3>2
  <2>7. MovedSinceBaseline(log, p, session, i) <=> MovedAfter(l, it, s)
    BY <1>6, <2>3, <2>6 DEF MovedSinceBaseline, InBaseline
  <2>8. \A f \in S : MovedIn(l, it, s, f) <=> MovedBetween(p, i, s, f)
    BY <2>3, <2>5 DEF MovedBetween, AppliedTo
  <2>9. MovedAfter(l, it, s) <=> \E m \in AppliedTo(p, i) : Before(log, s, m) /\ log[m].type \notin MetadataOnly
    BY <2>3, <2>5 DEF AppliedTo
  <2> QED BY <2>2, <2>3, <2>4, <2>7, <2>8, <2>9
<1>7. ASSUME session.finalizer # 0
      PROVE  session.warnings = {i \in DOMAIN log[session.finalizer].totals :
                                   InBaseline(session, i) /\ MovedBetween(p, i, s, session.finalizer)}
  <2>1. PICK f : f = session.finalizer
    OBVIOUS
  <2>2. f \in S /\ session.warnings = Warned(l, p.items, s, f, session.baseline)
    BY <1>5, <1>7, <2>1 DEF WatchOK
  <2>3. DOMAIN l[f].totals = DOMAIN log[f].totals
    BY <1>2, <2>2
  <2>4. session.warnings = {i \in DOMAIN log[f].totals : InBaseline(session, i) /\ MovedIn(l, p.items[i], s, f)}
    BY <2>2, <2>3 DEF Warned, InBaseline
  <2>5. \A i : InBaseline(session, i) => (MovedIn(l, p.items[i], s, f) <=> MovedBetween(p, i, s, f))
    BY <1>6, <2>2
  <2> QED BY <2>1, <2>4, <2>5
<1>8. ASSUME CountIsOpen(session), NEW i \in VariantsOf(p)
      PROVE  (<<"MOVED_DURING_COUNT", s>> \in ReconciliationReasons(log, p, i))
               <=> /\ \E o \in session.observations : o.item = i /\ o.status # "LATE"
                   /\ InBaseline(session, i)
                   /\ \E m \in AppliedTo(p, i) : Before(log, s, m) /\ log[m].type \notin MetadataOnly
  <2>1. (<<"MOVED_DURING_COUNT", s>> \in ReconciliationReasons(log, p, i))
          <=> /\ \E o \in session.observations : o.item = i /\ o.status # "LATE"
              /\ MovedSinceBaseline(log, p, session, i)
    BY <1>8, MovedReason
  <2>2. MovedSinceBaseline(log, p, session, i) => InBaseline(session, i)
    BY DEF MovedSinceBaseline, InBaseline
  <2> QED BY <1>6, <2>1, <2>2
<1> QED BY <1>7, <1>8

\* A count warns of what moved while it was open, and of nothing else.
THEOREM CountsWarn == Spec => []WarnsOfMovement
BY RecordsInvariant, InvWarnsOfMovement, PTL

-----------------------------------------------------------------------------
(* What some of the numbers add up to.                                     *)

Total(v, S) == SumFunction([x \in S |-> v[x]])
Amounts(v, S) == IsFiniteSet(S) /\ \A x \in S : v[x] \in Int

\* Nothing adds up to nothing, and each number adds itself to the others.
LEMMA TotalStep ==
  ASSUME NEW v, NEW S, Amounts(v, S)
  PROVE  /\ Total(v, {}) = 0 /\ Total(v, S) \in Int
         /\ \A x \in S : Total(v, S \ {x}) \in Int /\ Total(v, S) = v[x] + Total(v, S \ {x})
<1>1. PICK w : w = [x \in S |-> v[x]]
  OBVIOUS
<1>2. Numbers(w) /\ DOMAIN w = S /\ Total(v, S) = SumFunction(w)
  BY <1>1 DEF Numbers, Amounts, Total
<1>3. Total(v, {}) = 0
  <2>1. PICK u : u = [x \in {} |-> v[x]]
    OBVIOUS
  <2>2. DOMAIN u = {} /\ Total(v, {}) = SumFunction(u)
    BY <2>1 DEF Total
  <2> QED BY <2>2, SumOfNone
<1>4. SumFunction(w) \in Int
  BY <1>2, SumType
<1>5. ASSUME NEW x \in S PROVE Total(v, S \ {x}) \in Int /\ Total(v, S) = v[x] + Total(v, S \ {x})
  <2>1. SumFunction(w) = w[x] + SumFunction(Without(w, x)) /\ SumFunction(Without(w, x)) \in Int
    BY <1>2, <1>5, SumWithout
  <2>2. Without(w, x) = [y \in S \ {x} |-> v[y]] /\ w[x] = v[x]
    BY <1>1, <1>5 DEF Without
  <2>3. SumFunction(Without(w, x)) = Total(v, S \ {x})
    BY <2>2 DEF Total
  <2> QED BY <1>2, <2>1, <2>2, <2>3
<1> QED BY <1>2, <1>3, <1>4, <1>5

\* What holds of no numbers, and of some when it holds of all of them but one, holds of all.
LEMMA OneByOne ==
  ASSUME NEW S, IsFiniteSet(S), NEW P \in SUBSET (SUBSET S), {} \in P,
         \A T \in SUBSET S : \A x \in T : T \ {x} \in P => T \in P
  PROVE  S \in P
<1>1. PICK pick : pick = AnyPick(S)
  OBVIOUS
<1>2. pick \in Picks(S)
  BY <1>1, AnyPicks
<1>3. ASSUME NEW T \in SUBSET S, T # {}, T \ {pick[T]} \in P PROVE T \in P
  <2>1. pick[T] \in T
    BY <1>2, <1>3 DEF Picks
  <2> QED BY <1>3, <2>1
<1>4. \A T \in SUBSET S : T \in P
  BY ONLY IsFiniteSet(S), {} \in P, <1>2, <1>3, TakenOneByOne
<1> QED BY <1>4

\* Part of the amounts is amounts.
LEMMA AmountsPart ==
  ASSUME NEW v, NEW S, Amounts(v, S), NEW T \in SUBSET S
  PROVE  Amounts(v, T) /\ Total(v, T) \in Int /\ IsFiniteSet(T)
<1>1. IsFiniteSet(T)
  BY FS_Subset DEF Amounts
<1>2. Amounts(v, T)
  BY <1>1 DEF Amounts
<1> QED BY <1>1, <1>2, TotalStep

\* Sums add up.
LEMMA TotalPlus ==
  ASSUME NEW u, NEW v, NEW w, NEW S, Amounts(u, S), Amounts(v, S), \A x \in S : w[x] = u[x] + v[x]
  PROVE  Amounts(w, S) /\ Total(w, S) = Total(u, S) + Total(v, S)
<1>1. Amounts(w, S) /\ IsFiniteSet(S)
  BY DEF Amounts
<1> DEFINE P == {T \in SUBSET S : Total(w, T) = Total(u, T) + Total(v, T)}
<1>2. {} \in P
  BY <1>1, TotalStep
<1>3. ASSUME NEW T \in SUBSET S, NEW x \in T, T \ {x} \in P PROVE T \in P
  <2>1. Amounts(u, T) /\ Amounts(v, T) /\ Amounts(w, T)
    BY <1>1, AmountsPart
  <2>2. /\ Total(u, T \ {x}) \in Int /\ Total(u, T) = u[x] + Total(u, T \ {x})
        /\ Total(v, T \ {x}) \in Int /\ Total(v, T) = v[x] + Total(v, T \ {x})
        /\ Total(w, T \ {x}) \in Int /\ Total(w, T) = w[x] + Total(w, T \ {x})
    BY <2>1, TotalStep
  <2>3. w[x] = u[x] + v[x] /\ u[x] \in Int /\ v[x] \in Int
    BY DEF Amounts
  <2>4. Total(w, T \ {x}) = Total(u, T \ {x}) + Total(v, T \ {x})
    BY <1>3
  <2>5. Total(w, T) = Total(u, T) + Total(v, T)
    BY ONLY <2>2, <2>3, <2>4
  <2> QED BY <2>5
<1> HIDE DEF P
<1>4. \A T \in SUBSET S : \A x \in T : T \ {x} \in P => T \in P
  BY <1>3
<1>5. P \in SUBSET (SUBSET S)
  BY DEF P
<1>6. S \in P
  BY <1>1, <1>2, <1>4, <1>5, OneByOne
<1> QED BY <1>1, <1>6 DEF P

\* Of lesser numbers the sum is not greater.
LEMMA TotalAtMost ==
  ASSUME NEW u, NEW v, NEW S, Amounts(u, S), Amounts(v, S), \A x \in S : u[x] <= v[x]
  PROVE  Total(u, S) <= Total(v, S)
<1>1. IsFiniteSet(S)
  BY DEF Amounts
<1> DEFINE P == {T \in SUBSET S : Total(u, T) <= Total(v, T)}
<1>2. {} \in P
  BY TotalStep
<1>3. ASSUME NEW T \in SUBSET S, NEW x \in T, T \ {x} \in P PROVE T \in P
  <2>1. Amounts(u, T) /\ Amounts(v, T)
    BY AmountsPart
  <2>2. /\ Total(u, T \ {x}) \in Int /\ Total(u, T) = u[x] + Total(u, T \ {x})
        /\ Total(v, T \ {x}) \in Int /\ Total(v, T) = v[x] + Total(v, T \ {x})
    BY <2>1, TotalStep
  <2>3. u[x] <= v[x] /\ u[x] \in Int /\ v[x] \in Int
    BY DEF Amounts
  <2>4. Total(u, T \ {x}) <= Total(v, T \ {x})
    BY <1>3
  <2>5. Total(u, T) <= Total(v, T)
    BY ONLY <2>2, <2>3, <2>4
  <2> QED BY <2>5
<1> HIDE DEF P
<1>4. \A T \in SUBSET S : \A x \in T : T \ {x} \in P => T \in P
  BY <1>3
<1>5. P \in SUBSET (SUBSET S)
  BY DEF P
<1>6. S \in P
  BY <1>1, <1>2, <1>4, <1>5, OneByOne
<1> QED BY <1>6 DEF P

\* The same numbers have one sum.
LEMMA TotalSame ==
  ASSUME NEW u, NEW v, NEW S, \A x \in S : u[x] = v[x]
  PROVE  Total(u, S) = Total(v, S)
<1>1. [x \in S |-> u[x]] = [x \in S |-> v[x]]
  OBVIOUS
<1> QED BY <1>1 DEF Total

\* Nothing but zeros add up to zero; no number below zero, no sum below zero.
LEMMA TotalZero ==
  ASSUME NEW v, NEW S, IsFiniteSet(S), \A x \in S : v[x] = 0
  PROVE  Total(v, S) = 0
<1>1. Amounts(v, S)
  BY DEF Amounts
<1>2. Total(v, S) = Total(v, S) + Total(v, S)
  BY <1>1, TotalPlus
<1>3. PICK k : k = Total(v, S) /\ k \in Int
  BY <1>1, TotalStep
<1>4. k + k = k
  BY <1>2, <1>3
<1>5. \A j \in Int : j + j = j => j = 0
  OBVIOUS
<1> QED BY <1>3, <1>4, <1>5

\* Amounts that are no less than zero add up to a natural number.
LEMMA TotalNatural ==
  ASSUME NEW v, NEW S, Amounts(v, S), \A x \in S : v[x] >= 0
  PROVE  Total(v, S) \in Nat
<1>1. PICK u : u = [x \in S |-> 0]
  OBVIOUS
<1>2. Amounts(u, S) /\ (\A x \in S : u[x] = 0) /\ IsFiniteSet(S)
  BY <1>1 DEF Amounts
<1>3. Total(u, S) = 0
  BY <1>2, TotalZero
<1>4. \A x \in S : u[x] <= v[x]
  BY <1>2 DEF Amounts
<1>5. Total(u, S) <= Total(v, S)
  BY <1>2, <1>4, TotalAtMost
<1> QED BY <1>3, <1>5, TotalStep

\* The sum of two sets that have nothing in common.
LEMMA TotalBoth ==
  ASSUME NEW v, NEW A, NEW B, Amounts(v, A \cup B), A \cap B = {}
  PROVE  Total(v, A \cup B) = Total(v, A) + Total(v, B)
<1>1. IsFiniteSet(A \cup B) /\ IsFiniteSet(B) /\ A \in SUBSET (A \cup B) /\ B \in SUBSET (A \cup B)
  BY FS_Subset DEF Amounts
<1>2. Total(v, A) \in Int
  BY <1>1, AmountsPart
<1> DEFINE P == {T \in SUBSET B : Total(v, A \cup T) = Total(v, A) + Total(v, T)}
<1>3. {} \in P
  <2>1. A \cup {} = A /\ Total(v, {}) = 0
    BY TotalStep
  <2> QED BY <1>2, <2>1
<1>4. ASSUME NEW T \in SUBSET B, NEW x \in T, T \ {x} \in P PROVE T \in P
  <2>1. A \cup T \in SUBSET (A \cup B) /\ T \in SUBSET (A \cup B)
    OBVIOUS
  <2>2. Amounts(v, A \cup T) /\ Amounts(v, T)
    BY <2>1, AmountsPart
  <2>3. x \in A \cup T /\ (A \cup T) \ {x} = A \cup (T \ {x})
    OBVIOUS
  <2>4. /\ Total(v, (A \cup T) \ {x}) \in Int /\ Total(v, A \cup T) = v[x] + Total(v, (A \cup T) \ {x})
        /\ Total(v, T \ {x}) \in Int /\ Total(v, T) = v[x] + Total(v, T \ {x})
    BY <2>2, <2>3, TotalStep
  <2>5. Total(v, A \cup (T \ {x})) = Total(v, A) + Total(v, T \ {x})
    BY <1>4
  <2>6. v[x] \in Int
    BY DEF Amounts
  <2>7. PICK a \in Int, t \in Int : a = Total(v, A) /\ t = Total(v, T \ {x})
    BY <1>2, <2>4
  <2>8. Total(v, A \cup T) = v[x] + (a + t) /\ Total(v, T) = v[x] + t
    BY ONLY <2>3, <2>4, <2>5, <2>7
  <2>9. Total(v, A \cup T) = Total(v, A) + Total(v, T)
    BY ONLY <2>6, <2>7, <2>8
  <2> QED BY <2>9
<1> HIDE DEF P
<1>5. \A T \in SUBSET B : \A x \in T : T \ {x} \in P => T \in P
  BY <1>4
<1>6. P \in SUBSET (SUBSET B)
  BY DEF P
<1>7. B \in P
  BY <1>1, <1>3, <1>5, <1>6, OneByOne
<1> QED BY <1>7 DEF P

\* Of numbers that are not below zero, some do not add up to more than all.
LEMMA TotalOfSome ==
  ASSUME NEW v, NEW S, Amounts(v, S), \A x \in S : v[x] >= 0, NEW T \in SUBSET S
  PROVE  Total(v, T) <= Total(v, S)
<1>1. T \cup (S \ T) = S /\ T \cap (S \ T) = {} /\ S \ T \in SUBSET S
  OBVIOUS
<1>2. Total(v, S) = Total(v, T) + Total(v, S \ T)
  BY <1>1, TotalBoth
<1>3. Amounts(v, S \ T) /\ Total(v, T) \in Int
  BY <1>1, AmountsPart
<1>4. Total(v, S \ T) \in Nat
  BY <1>3, TotalNatural
<1> QED BY <1>2, <1>3, <1>4

\* The sum is the same under other names.
LEMMA TotalRenamed ==
  ASSUME NEW v, NEW S, Amounts(v, S), NEW w, NEW h, \A x \in S : w[h[x]] = v[x],
         \A x \in S : \A y \in S : h[x] = h[y] => x = y
  PROVE  LET R == {h[x] : x \in S} IN Amounts(w, R) /\ Total(w, R) = Total(v, S)
<1> DEFINE Of(T) == {h[x] : x \in T}
<1>1. IsFiniteSet(S)
  BY DEF Amounts
<1>2. IsFiniteSet(Of(S))
  <2>1. PICK g : g = [x \in S |-> h[x]]
    OBVIOUS
  <2>2. IsFiniteSet({g[x] : x \in DOMAIN g})
    BY <1>1, <2>1, FiniteImage
  <2>3. {g[x] : x \in DOMAIN g} = Of(S)
    BY <2>1
  <2> QED BY <2>2, <2>3
<1>3. \A r \in Of(S) : w[r] \in Int
  BY DEF Amounts
<1>4. Amounts(w, Of(S))
  BY <1>2, <1>3 DEF Amounts
<1> DEFINE P == {T \in SUBSET S : Total(w, Of(T)) = Total(v, T)}
<1>5. {} \in P
  <2>1. Of({}) = {}
    OBVIOUS
  <2> QED BY <1>4, <2>1, TotalStep
<1>6. ASSUME NEW T \in SUBSET S, NEW x \in T, T \ {x} \in P PROVE T \in P
  <2>1. Of(T) \in SUBSET Of(S)
    OBVIOUS
  <2>2. Amounts(w, Of(T)) /\ Amounts(v, T)
    BY <1>4, <2>1, AmountsPart
  <2>3. h[x] \in Of(T) /\ Of(T) \ {h[x]} = Of(T \ {x})
    OBVIOUS
  <2>4. /\ Total(w, Of(T)) = w[h[x]] + Total(w, Of(T) \ {h[x]})
        /\ Total(v, T) = v[x] + Total(v, T \ {x})
    BY <2>2, <2>3, TotalStep
  <2>5. w[h[x]] = v[x] /\ Total(w, Of(T \ {x})) = Total(v, T \ {x})
    BY <1>6
  <2>6. Total(w, Of(T)) = Total(v, T)
    BY ONLY <2>3, <2>4, <2>5
  <2> QED BY <2>6
<1>7. \A T \in SUBSET S : \A x \in T : T \ {x} \in P => T \in P
  BY <1>6
<1>8. P \in SUBSET (SUBSET S)
  OBVIOUS
<1> HIDE DEF P
<1>9. S \in P
  BY <1>1, <1>5, <1>7, <1>8, OneByOne
<1> QED BY <1>4, <1>9 DEF P

-----------------------------------------------------------------------------
(* What one issue serves.                                                  *)

\* Every need has a name of its own, of two numbers.
Named(need) == need.id = <<need.id[1], need.id[2]>> /\ need.id[1] \in Nat /\ need.id[2] \in Nat /\ need.since \in Nat
NamesOK(needs) ==
  /\ \A need \in needs : Named(need)
  /\ \A a \in needs : \A b \in needs : a.id = b.id => a = b

\* The needs that an issue may serve are in one order.
LEMMA OlderOrder ==
  ASSUME NEW a, NEW b, NEW c, Named(a), Named(b), Named(c)
  PROVE  /\ Older(a, b) /\ Older(b, c) => Older(a, c)
         /\ a.id # b.id => Older(a, b) \/ Older(b, a)
BY DEF Named, Older

\* The rank of a need is a number.
LEMMA RankIsNumber ==
  ASSUME NEW need, NEW i, NEW named
  PROVE  Rank(need, i, named) \in Nat
<1>1. 0 \in Nat /\ 1 \in Nat /\ 2 \in Nat /\ 3 \in Nat /\ 4 \in Nat
  OBVIOUS
<1> QED BY <1>1, Zenon DEF Rank

\* The order in which an issue serves needs is total.
LEMMA SoonerOrder ==
  ASSUME NEW a, NEW b, NEW c, Named(a), Named(b), Named(c), NEW i, NEW named
  PROVE  /\ Sooner(a, b, i, named) /\ Sooner(b, c, i, named) => Sooner(a, c, i, named)
         /\ a.id # b.id => Sooner(a, b, i, named) \/ Sooner(b, a, i, named)
<1>1. PICK ra, rb, rc : ra = Rank(a, i, named) /\ rb = Rank(b, i, named) /\ rc = Rank(c, i, named)
  OBVIOUS
<1>2. ra \in Nat /\ rb \in Nat /\ rc \in Nat
  BY <1>1, RankIsNumber
<1>3. /\ Older(a, b) /\ Older(b, c) => Older(a, c)
      /\ a.id # b.id => Older(a, b) \/ Older(b, a)
  BY OlderOrder
<1>4. /\ Sooner(a, b, i, named) <=> ((ra = rb /\ Older(a, b)) \/ (ra # rb /\ ra < rb))
      /\ Sooner(b, a, i, named) <=> ((ra = rb /\ Older(b, a)) \/ (ra # rb /\ rb < ra))
      /\ Sooner(b, c, i, named) <=> ((rb = rc /\ Older(b, c)) \/ (rb # rc /\ rb < rc))
      /\ Sooner(a, c, i, named) <=> ((ra = rc /\ Older(a, c)) \/ (ra # rc /\ ra < rc))
  BY <1>1 DEF Sooner
<1> QED BY <1>2, <1>3, <1>4

\* Of some of them one is served last.
LEMMA ServedLast ==
  ASSUME NEW U, IsFiniteSet(U), NamesOK(U), U # {}, NEW i, NEW named
  PROVE  \E x \in U : \A y \in U \ {x} : Sooner(y, x, i, named)
<1> DEFINE IsLast(x, T) == \A y \in T \ {x} : Sooner(y, x, i, named)
<1> DEFINE P == {T \in SUBSET U : T = {} \/ \E x \in T : IsLast(x, T)}
<1>1. {} \in P
  OBVIOUS
<1>2. ASSUME NEW T \in SUBSET U, NEW z \in T, T \ {z} \in P PROVE T \in P
  <2>1. CASE T \ {z} = {}
    <3>1. IsLast(z, T)
      BY <2>1
    <3> QED BY <3>1
  <2>2. CASE T \ {z} # {}
    <3>1. PICK x \in T \ {z} : IsLast(x, T \ {z})
      BY <1>2, <2>2
    <3>2. Named(x) /\ Named(z) /\ x.id # z.id /\ \A y \in T : Named(y)
      BY <3>1 DEF NamesOK
    <3>3. CASE Sooner(z, x, i, named)
      <4>1. IsLast(x, T)
        BY <3>1, <3>3
      <4> QED BY <4>1
    <3>4. CASE ~ Sooner(z, x, i, named)
      <4>1. Sooner(x, z, i, named)
        BY <3>2, <3>4, SoonerOrder
      <4>2. ASSUME NEW y \in T \ {z} PROVE Sooner(y, z, i, named)
        <5>1. y = x \/ Sooner(y, x, i, named)
          BY <3>1
        <5>2. Named(y)
          BY <3>2
        <5> QED BY <3>2, <4>1, <5>1, <5>2, SoonerOrder
      <4>3. IsLast(z, T)
        BY <4>2
      <4> QED BY <4>3
    <3> QED BY <3>3, <3>4
  <2> QED BY <2>1, <2>2
<1>3. \A T \in SUBSET U : \A x \in T : T \ {x} \in P => T \in P
  BY <1>2
<1>4. P \in SUBSET (SUBSET U)
  OBVIOUS
<1> HIDE DEF P
<1>5. U \in P
  BY <1>1, <1>3, <1>4, OneByOne
<1> QED BY <1>5 DEF P

\* What an issue of a quantity hands to a need of its queue.
Handed(queue, need, i, quantity, named) == Min({Remaining(need), Left(queue, need, i, quantity, named)})

\* An issue hands a need no more than is left, and no more than it still needs.
LEMMA HandedIs ==
  ASSUME NEW S, NEW queue, NeedsOK(S, queue), NEW need \in queue, NEW i, NEW quantity \in Int, NEW named
  PROVE  LET k == Handed(queue, need, i, quantity, named)
             left == Left(queue, need, i, quantity, named) IN
         k \in Int /\ left \in Int /\ k <= left /\ k <= Remaining(need) /\ Remaining(need) \in Nat
<1>1. IsNeed(S, need)
  BY DEF NeedsOK
<1>2. Remaining(need) \in Nat
  BY <1>1 DEF IsNeed, Positive, Remaining
<1>3. PICK left : left = Left(queue, need, i, quantity, named)
  OBVIOUS
<1>4. left \in Int
  BY <1>3, LeftIsNumber
<1>5. PICK r : r = Remaining(need) /\ r \in Int
  BY <1>2
<1>6. Min({r, left}) \in Int /\ Min({r, left}) <= r /\ Min({r, left}) <= left
  BY <1>4, <1>5, LesserOfTwo
<1> QED BY <1>2, <1>3, <1>4, <1>5, <1>6 DEF Handed

\* An issue never hands out more than it has, to however many needs.
LEMMA NoMoreThanThereIs ==
  ASSUME NEW S, NEW queue, NeedsOK(S, queue), NamesOK(queue), NEW i, NEW quantity \in Nat, NEW named,
         NEW U \in SUBSET queue, \A need \in U : Handed(queue, need, i, quantity, named) > 0,
         NEW used, \A need \in U : used[need] = Handed(queue, need, i, quantity, named)
  PROVE  Amounts(used, U) /\ Total(used, U) <= quantity
<1>1. IsFiniteSet(U) /\ IsFiniteSet(queue)
  BY FS_Subset DEF NeedsOK
<1>2. ASSUME NEW need \in queue
      PROVE  LET k == Handed(queue, need, i, quantity, named)
                 left == Left(queue, need, i, quantity, named) IN
             k \in Int /\ left \in Int /\ k <= left /\ k <= Remaining(need) /\ Remaining(need) \in Nat
  BY HandedIs
<1>3. Amounts(used, U)
  BY <1>1, <1>2 DEF Amounts
<1>4. CASE U = {}
  BY <1>3, <1>4, TotalStep
<1>5. CASE U # {}
  <2>1. NamesOK(U)
    BY DEF NamesOK
  <2>2. PICK x \in U : \A y \in U \ {x} : Sooner(y, x, i, named)
    BY <1>1, <1>5, <2>1, ServedLast
  <2>3. PICK rem : rem = [b \in queue |-> Remaining(b)]
    OBVIOUS
  <2>4. PICK B : B = {b \in queue : Sooner(b, x, i, named)}
    OBVIOUS
  <2>5. U \ {x} \in SUBSET B /\ B \in SUBSET queue
    BY <2>2, <2>4
  <2>6. Amounts(rem, queue) /\ \A b \in queue : rem[b] >= 0 /\ rem[b] = Remaining(b)
    BY <1>1, <1>2, <2>3 DEF Amounts
  <2>7. Left(queue, x, i, quantity, named) = quantity - Total(rem, B)
    <3>1. [b \in {b \in queue : Sooner(b, x, i, named)} |-> Remaining(b)] = [b \in B |-> rem[b]]
      BY <2>3, <2>4
    <3> QED BY <3>1 DEF Left, Total
  <2>8. Total(used, U) = used[x] + Total(used, U \ {x}) /\ Total(used, U \ {x}) \in Int
    BY <1>3, TotalStep
  <2>9. Amounts(rem, B) /\ Total(rem, B) \in Int
    BY <2>5, <2>6, AmountsPart
  <2>10. Total(rem, U \ {x}) <= Total(rem, B)
    BY <2>5, <2>6, <2>9, TotalOfSome
  <2>11. Total(used, U \ {x}) <= Total(rem, U \ {x}) /\ Total(rem, U \ {x}) \in Int
    <3>1. U \ {x} \in SUBSET U /\ U \ {x} \in SUBSET queue
      OBVIOUS
    <3>2. Amounts(used, U \ {x}) /\ Amounts(rem, U \ {x})
      BY <1>3, <2>6, <3>1, AmountsPart
    <3>3. \A y \in U \ {x} : used[y] <= rem[y]
      BY <1>2, <2>6
    <3> QED BY <3>2, <3>3, TotalAtMost, TotalStep
  <2>12. used[x] \in Int /\ used[x] <= quantity - Total(rem, B)
    BY <1>2, <2>7
  <2>13. PICK a, b, c : a = Total(used, U \ {x}) /\ b = Total(rem, U \ {x}) /\ c = Total(rem, B)
    OBVIOUS
  <2>14. a \in Int /\ b \in Int /\ c \in Int /\ a <= b /\ b <= c /\ used[x] <= quantity - c /\ used[x] \in Int
    BY <2>8, <2>9, <2>10, <2>11, <2>12, <2>13
  <2>15. used[x] + a <= quantity
    BY <2>14
  <2> QED BY <1>3, <2>8, <2>13, <2>15
<1> QED BY <1>4, <1>5

-----------------------------------------------------------------------------
(* What the needs of a cadet were served.                                  *)

HandServed(l, need) == \E m \in ToSet(need.applied) : l[m].type = "STILL_NEEDED_FULFILLED"
NeedsOf(l, needs, c) == {need \in needs : need.cadet = c /\ ~ HandServed(l, need)}
Fulfilled(needs) == [need \in needs |-> need.fulfilled]
Served(l, needs, c) == Total(Fulfilled(needs), NeedsOf(l, needs, c))

\* What served the needs of a cadet is a number.
LEMMA ServedIs ==
  ASSUME NEW l, NEW S, NEW needs, NeedsOK(S, needs), NEW c
  PROVE  /\ Amounts(Fulfilled(needs), NeedsOf(l, needs, c)) /\ Served(l, needs, c) \in Nat
         /\ \A need \in needs : Fulfilled(needs)[need] = need.fulfilled /\ need.fulfilled \in Nat
<1>1. ASSUME NEW need \in needs PROVE Fulfilled(needs)[need] = need.fulfilled /\ need.fulfilled \in Nat
  BY DEF NeedsOK, IsNeed, Fulfilled
<1>2. NeedsOf(l, needs, c) \in SUBSET needs /\ IsFiniteSet(NeedsOf(l, needs, c))
  BY FS_Subset DEF NeedsOK, NeedsOf
<1>3. Amounts(Fulfilled(needs), NeedsOf(l, needs, c))
  BY <1>1, <1>2 DEF Amounts
<1>4. \A need \in NeedsOf(l, needs, c) : Fulfilled(needs)[need] >= 0
  BY <1>1, <1>2
<1>5. Served(l, needs, c) \in Nat
  BY <1>3, <1>4, TotalNatural DEF Served
<1> QED BY <1>1, <1>3, <1>5

\* The needs of a cadet were served no more than before and what was used now, if each is one
\* of before with its part of it, or was served nothing yet.
ServedFrom(l, needs, needs2, c, h, used) ==
  /\ Amounts(used, NeedsOf(l, needs, c)) /\ \A x \in NeedsOf(l, needs, c) : used[x] >= 0
  /\ \A y \in NeedsOf(l, needs2, c) :
       \/ y.fulfilled = 0
       \/ \E x \in NeedsOf(l, needs, c) : y = h[x] /\ y.fulfilled = x.fulfilled + used[x]

\* Needs that came of others are served by no more than was used on them.
LEMMA ServedStep ==
  ASSUME NEW l, NEW S, NEW needs, NeedsOK(S, needs), NEW S2, NEW needs2, NeedsOK(S2, needs2), NEW c,
         NEW h, NEW used, ServedFrom(l, needs, needs2, c, h, used)
  PROVE  Served(l, needs2, c) <= Served(l, needs, c) + Total(used, NeedsOf(l, needs, c))
<1>1. PICK O, O2 : O = NeedsOf(l, needs, c) /\ O2 = NeedsOf(l, needs2, c)
  OBVIOUS
<1>2. PICK v, v2 : v = Fulfilled(needs) /\ v2 = Fulfilled(needs2)
  OBVIOUS
<1>3. /\ Amounts(v, O) /\ Amounts(v2, O2) /\ Amounts(used, O) /\ \A x \in O : used[x] >= 0
      /\ \A x \in O : v[x] = x.fulfilled /\ v[x] \in Nat
      /\ \A y \in O2 : v2[y] = y.fulfilled /\ v2[y] \in Nat
      /\ Served(l, needs, c) = Total(v, O) /\ Served(l, needs2, c) = Total(v2, O2)
  <2>1. O \subseteq needs /\ O2 \subseteq needs2
    BY <1>1 DEF NeedsOf
  <2> QED BY <1>1, <1>2, <2>1, ServedIs DEF Served, ServedFrom
<1>4. PICK w : w = [x \in O |-> v[x] + used[x]]
  OBVIOUS
<1>5. Amounts(w, O) /\ Total(w, O) = Total(v, O) + Total(used, O) /\ \A x \in O : w[x] = x.fulfilled + used[x] /\ w[x] >= 0
  <2>1. \A x \in O : w[x] = v[x] + used[x]
    BY <1>4
  <2>2. Amounts(w, O) /\ Total(w, O) = Total(v, O) + Total(used, O)
    <3>1. Amounts(v, O) /\ Amounts(used, O)
      BY <1>3
    <3> QED BY ONLY <2>1, <3>1, TotalPlus
  <2>3. \A x \in O : w[x] = x.fulfilled + used[x] /\ w[x] >= 0
    BY <1>3, <2>1 DEF Amounts
  <2> QED BY <2>2, <2>3
<1>6. PICK A : A = {y \in O2 : y.fulfilled # 0}
  OBVIOUS
<1>7. Total(v2, O2) = Total(v2, A) /\ Amounts(v2, A)
  <2>1. A \in SUBSET O2 /\ A \cup (O2 \ A) = O2 /\ A \cap (O2 \ A) = {} /\ O2 \ A \in SUBSET O2
    BY <1>6
  <2>2. Total(v2, O2) = Total(v2, A) + Total(v2, O2 \ A)
    BY <1>3, <2>1, TotalBoth
  <2>3. IsFiniteSet(O2 \ A) /\ Amounts(v2, A) /\ Total(v2, A) \in Int
    BY <1>3, <2>1, AmountsPart
  <2>4. \A y \in O2 \ A : v2[y] = 0
    BY <1>3, <1>6
  <2>5. Total(v2, O2 \ A) = 0
    BY <2>3, <2>4, TotalZero
  <2>6. PICK a : a = Total(v2, A) /\ a \in Int
    BY <2>3
  <2> QED BY <2>2, <2>3, <2>5, <2>6
<1>8. PICK g : g = [y \in A |-> CHOOSE x \in O : y = h[x] /\ y.fulfilled = x.fulfilled + used[x]]
  OBVIOUS
<1>9. ASSUME NEW y \in A PROVE g[y] \in O /\ y = h[g[y]] /\ y.fulfilled = g[y].fulfilled + used[g[y]]
  <2>1. \E x \in O : y = h[x] /\ y.fulfilled = x.fulfilled + used[x]
    BY <1>1, <1>6 DEF ServedFrom
  <2> QED BY <1>8, <2>1
<1>10. \A y \in A : w[g[y]] = v2[y]
  BY <1>3, <1>5, <1>6, <1>9
<1>11. \A y \in A : \A z \in A : g[y] = g[z] => y = z
  BY <1>9
<1>12. PICK R : R = {g[y] : y \in A}
  OBVIOUS
<1>13. Total(w, R) = Total(v2, A)
  BY <1>7, <1>10, <1>11, <1>12, TotalRenamed
<1>14. R \in SUBSET O
  BY <1>9, <1>12
<1>15. Total(w, R) <= Total(w, O)
  BY <1>5, <1>14, TotalOfSome
<1> QED BY <1>1, <1>3, <1>5, <1>7, <1>13, <1>15

\* A need that follows another is the same need, later.
Follows(x, y) == y.id = x.id /\ y.cadet = x.cadet /\ y.source = x.source /\ y.since = x.since

\* The names stay distinct when needs are followed by themselves and new ones have new names.
LEMMA NamesKept ==
  ASSUME NEW needs, NamesOK(needs), NEW needs2, NEW h, NEW F, NamesOK(F),
         \A y \in needs2 : y \in F \/ \E x \in needs : y = h[x] /\ Follows(x, y),
         \A x \in needs : \A y \in F : x.id # y.id
  PROVE  NamesOK(needs2)
<1>1. ASSUME NEW y \in needs2 PROVE Named(y)
  BY DEF NamesOK, Named, Follows
<1>2. ASSUME NEW y \in needs2, NEW z \in needs2, y.id = z.id PROVE y = z
  <2>1. CASE y \in F
    <3>1. z \in F
      BY <1>2, <2>1 DEF Follows
    <3> QED BY <1>2, <2>1, <3>1 DEF NamesOK
  <2>2. CASE y \notin F
    <3>1. PICK x \in needs : y = h[x] /\ Follows(x, y)
      BY <2>2
    <3>2. z \notin F
      BY <1>2, <3>1 DEF Follows
    <3>3. PICK u \in needs : z = h[u] /\ Follows(u, z)
      BY <3>2
    <3>4. x.id = u.id
      BY <1>2, <3>1, <3>3 DEF Follows
    <3>5. x = u
      BY <3>4 DEF NamesOK
    <3> QED BY <3>1, <3>3, <3>5
  <2> QED BY <2>1, <2>2
<1> QED BY <1>1, <1>2 DEF NamesOK

\* What serving does to one need.
LEMMA FulfilIs ==
  ASSUME NEW l, NEW S, NEW need, IsNeed(S, need), NEW n, l[n].type = "ITEM_ISSUED", NEW k \in Int, NEW y, y = Fulfil(need, k, n)
  PROVE  /\ Follows(need, y) /\ y.fulfilled = need.fulfilled + (IF k > 0 THEN k ELSE 0)
         /\ HandServed(l, need) => HandServed(l, y)
<1>1. CASE k <= 0
  <2>1. y = need
    BY <1>1 DEF Fulfil
  <2>2. need.fulfilled + 0 = need.fulfilled
    BY DEF IsNeed, Positive
  <2> QED BY <1>1, <2>1, <2>2 DEF Follows
<1>2. CASE ~ k <= 0
  <2>1. PICK s : s = need.applied /\ s \in Seq(S)
    BY DEF IsNeed
  <2>2. PICK t : t = IF n \in ToSet(s) THEN s ELSE Append(s, n)
    OBVIOUS
  <2>3. ToSet(s) \subseteq ToSet(t)
    <3>1. s \in Seq(S)
      BY <2>1
    <3>2. ToSet(Append(s, n)) = ToSet(s) \cup {n}
      BY ONLY <3>1, AppendedSet
    <3> QED BY ONLY <2>2, <3>2
  <2>4. y.applied = t /\ y.fulfilled = need.fulfilled + k /\ Follows(need, y)
    BY <1>2, <2>1, <2>2 DEF Fulfil, IsNeed, Follows
  <2>5. HandServed(l, need) => HandServed(l, y)
    BY <2>1, <2>3, <2>4 DEF HandServed
  <2> QED BY <1>2, <2>4, <2>5
<1> QED BY <1>1, <1>2

\* A line serves its cadet's needs with no more than it issues, and nobody else's.
LEMMA LineServes ==
  ASSUME NEW l, NEW S, NEW needs, NeedsOK(S, needs), NamesOK(needs), NEW n \in S, l[n].type = "ITEM_ISSUED",
         NEW cadet, NEW i, NEW quantity \in Nat, NEW named, NEW needs2,
         needs2 = FulfilNeeds(needs, Candidates(needs, cadet, i, named), n, i, quantity, named), NEW c
  PROVE  /\ NamesOK(needs2) /\ \A y \in needs2 : \E x \in needs : Follows(x, y)
         /\ Served(l, needs2, c) <= Served(l, needs, c) + (IF c = cadet THEN quantity ELSE 0)
<1>1. PICK queue : queue = Candidates(needs, cadet, i, named)
  OBVIOUS
<1>2. queue \in SUBSET needs /\ \A x \in queue : x.cadet = cadet
  BY <1>1 DEF Candidates
<1>3. NeedsOK(S, queue) /\ NamesOK(queue) /\ IsFiniteSet(needs)
  BY <1>2, FS_Subset DEF NeedsOK, NamesOK
<1>4. PICK k : k = [x \in queue |-> Handed(queue, x, i, quantity, named)]
  OBVIOUS
<1>5. ASSUME NEW x \in queue PROVE k[x] = Handed(queue, x, i, quantity, named) /\ k[x] \in Int
  <2>1. k[x] = Handed(queue, x, i, quantity, named)
    BY <1>4
  <2>2. Handed(queue, x, i, quantity, named) \in Int
    BY <1>3, HandedIs
  <2> QED BY <2>1, <2>2
<1>6. needs2 = (needs \ queue) \cup {Fulfil(x, k[x], n) : x \in queue}
  BY <1>1, <1>4 DEF FulfilNeeds, Handed
<1>7. PICK h : h = [x \in needs |-> IF x \in queue THEN Fulfil(x, k[x], n) ELSE x]
  OBVIOUS
<1>8. PICK used : used = [x \in needs |-> IF x \in queue /\ k[x] > 0 THEN k[x] ELSE 0]
  OBVIOUS
<1>9. ASSUME NEW x \in needs
      PROVE  /\ Follows(x, h[x]) /\ h[x].fulfilled = x.fulfilled + used[x] /\ used[x] \in Int /\ used[x] >= 0
             /\ HandServed(l, x) => HandServed(l, h[x])
  <2>1. IsNeed(S, x)
    BY DEF NeedsOK
  <2>2. CASE x \in queue
    <3>1. PICK m, y : m = k[x] /\ y = h[x]
      OBVIOUS
    <3>2. m \in Int /\ y = Fulfil(x, m, n) /\ used[x] = IF m > 0 THEN m ELSE 0
      BY <1>5, <1>7, <1>8, <2>2, <3>1
    <3>3. /\ Follows(x, y) /\ y.fulfilled = x.fulfilled + (IF m > 0 THEN m ELSE 0)
          /\ HandServed(l, x) => HandServed(l, y)
      BY <2>1, <3>2, FulfilIs
    <3>4. used[x] \in Int /\ used[x] >= 0
      BY <3>2
    <3> QED BY <3>1, <3>2, <3>3, <3>4
  <2>3. CASE x \notin queue
    <3>1. h[x] = x /\ used[x] = 0
      BY <1>7, <1>8, <2>3
    <3> QED BY <2>1, <3>1 DEF Follows, IsNeed
  <2> QED BY <2>2, <2>3
<1>10. \A y \in needs2 : \E x \in needs : y = h[x]
  BY <1>2, <1>6, <1>7
<1>11. \A y \in needs2 : \E x \in needs : y = h[x] /\ Follows(x, y)
  BY <1>9, <1>10
<1>12. NamesOK(needs2)
  <2>1. PICK F : F = {}
    OBVIOUS
  <2>2. NamesOK(F) /\ (\A x \in needs : \A y \in F : x.id # y.id)
        /\ \A y \in needs2 : y \in F \/ \E x \in needs : y = h[x] /\ Follows(x, y)
    BY <1>11, <2>1 DEF NamesOK
  <2> QED BY <2>2, NamesKept
<1>13. NeedsOK(S, needs2)
  <2>1. quantity \in Int
    OBVIOUS
  <2> QED BY ONLY <1>1, <1>2, <2>1, NeedsOK(S, needs), n \in S,
            needs2 = FulfilNeeds(needs, Candidates(needs, cadet, i, named), n, i, quantity, named), FulfilledNeeds
<1>14. PICK O : O = NeedsOf(l, needs, c)
  OBVIOUS
<1>15. O \in SUBSET needs /\ Amounts(used, O) /\ \A x \in O : used[x] >= 0
  <2>1. O \in SUBSET needs
    BY <1>14 DEF NeedsOf
  <2>2. IsFiniteSet(O)
    BY <1>3, <2>1, FS_Subset
  <2> QED BY <1>9, <2>1, <2>2 DEF Amounts
<1>16. Served(l, needs2, c) <= Served(l, needs, c) + Total(used, O)
  <2>1. ASSUME NEW y \in NeedsOf(l, needs2, c)
        PROVE  \E x \in NeedsOf(l, needs, c) : y = h[x] /\ y.fulfilled = x.fulfilled + used[x]
    <3>1. y \in needs2 /\ y.cadet = c /\ ~ HandServed(l, y)
      BY <2>1 DEF NeedsOf
    <3>2. PICK x \in needs : y = h[x]
      BY <1>10, <3>1
    <3>3. x.cadet = c /\ ~ HandServed(l, x)
      BY <1>9, <3>1, <3>2 DEF Follows
    <3> QED BY <1>9, <3>2, <3>3 DEF NeedsOf
  <2>2. ServedFrom(l, needs, needs2, c, h, used)
    BY <1>14, <1>15, <2>1 DEF ServedFrom
  <2>4. Served(l, needs2, c) <= Served(l, needs, c) + Total(used, NeedsOf(l, needs, c))
    BY ONLY NeedsOK(S, needs), <1>13, <2>2, ServedStep
  <2> QED BY <1>14, <2>4
<1>17. Total(used, O) <= IF c = cadet THEN quantity ELSE 0
  <2>1. PICK U : U = {x \in O : used[x] > 0}
    OBVIOUS
  <2>2. U \in SUBSET queue /\ U \in SUBSET O /\ \A x \in U : Handed(queue, x, i, quantity, named) > 0
                     /\ used[x] = Handed(queue, x, i, quantity, named)
    BY <1>5, <1>8, <1>15, <2>1
  <2>3. Total(used, U) <= quantity /\ Amounts(used, U)
    BY <1>3, <2>2, NoMoreThanThereIs
  <2>4. Total(used, O) = Total(used, U)
    <3>1. U \cup (O \ U) = O /\ U \cap (O \ U) = {} /\ O \ U \in SUBSET O
      BY <2>2
    <3>2. Total(used, O) = Total(used, U) + Total(used, O \ U)
      BY <1>15, <3>1, TotalBoth
    <3>3. IsFiniteSet(O \ U)
      BY <1>15, <3>1, AmountsPart
    <3>4. \A x \in O \ U : used[x] = 0
      BY <1>9, <1>15, <2>1
    <3>5. Total(used, O \ U) = 0
      BY <3>3, <3>4, TotalZero
    <3>6. PICK a : a = Total(used, U) /\ a \in Int
      BY <2>3, TotalStep
    <3> QED BY <3>2, <3>5, <3>6
  <2>5. CASE c = cadet
    BY <2>3, <2>4, <2>5
  <2>6. CASE c # cadet
    <3>1. U = {}
      BY <1>2, <1>14, <2>2, <2>6 DEF NeedsOf
    <3> QED BY <2>3, <2>4, <2>6, <3>1, TotalStep
  <2> QED BY <2>5, <2>6
<1>18. Total(used, O) \in Int /\ Served(l, needs, c) \in Int /\ Served(l, needs2, c) \in Int
  BY <1>13, <1>15, TotalStep, ServedIs
<1>19. Served(l, needs2, c) <= Served(l, needs, c) + (IF c = cadet THEN quantity ELSE 0)
  BY <1>16, <1>17, <1>18
<1> QED BY <1>11, <1>12, <1>19

\* Whatever an issue asked for and did not get has a line ID of its own (validateDraftIdentity).
LEMMA MissingCommand ==
  ASSUME NEW e, IsCommand(e), e.type = "ITEM_ISSUED"
  PROVE  /\ \A m \in e.missing : m.line \in Nat \ DOMAIN e.lines
         /\ \A m1 \in e.missing : \A m2 \in e.missing : m1.line = m2.line => m1 = m2
BY DEF IsCommand

\* Every need was there before.
Descends(needs, needs2) == \A y \in needs2 : \E x \in needs : Follows(x, y)

\* Needs that came of needs that came of others came of those.
LEMMA DescendsOnward ==
  ASSUME NEW a, NEW b, NEW c, Descends(a, b), Descends(b, c)
  PROVE  Descends(a, c)
BY DEF Descends, Follows

\* Nothing used: the needs of a cadet were served what they were served before.
ServedAsBefore(l, needs, needs2, c, h) ==
  \A y \in NeedsOf(l, needs2, c) :
    y.fulfilled = 0 \/ \E x \in NeedsOf(l, needs, c) : y = h[x] /\ y.fulfilled = x.fulfilled

\* Needs that came of others with nothing used on them are served by no more.
LEMMA NothingServed ==
  ASSUME NEW l, NEW S, NEW needs, NeedsOK(S, needs), NEW S2, NEW needs2, NeedsOK(S2, needs2), NEW c, NEW h,
         ServedAsBefore(l, needs, needs2, c, h)
  PROVE  Served(l, needs2, c) <= Served(l, needs, c)
<1>1. PICK O : O = NeedsOf(l, needs, c)
  OBVIOUS
<1>2. PICK used : used = [x \in O |-> 0]
  OBVIOUS
<1>3. IsFiniteSet(O) /\ O \subseteq needs /\ \A x \in O : used[x] = 0
  BY <1>1, <1>2, FS_Subset DEF NeedsOK, NeedsOf
<1>4. Total(used, O) = 0
  BY <1>3, TotalZero
<1>5. \A x \in O : x.fulfilled \in Nat
  BY <1>3 DEF NeedsOK, IsNeed, Positive
<1>6. ServedFrom(l, needs, needs2, c, h, used)
  BY <1>1, <1>3, <1>5 DEF ServedFrom, Amounts, ServedAsBefore
<1>7. Served(l, needs2, c) <= Served(l, needs, c) + Total(used, NeedsOf(l, needs, c))
  BY ONLY NeedsOK(S, needs), NeedsOK(S2, needs2), <1>6, ServedStep
<1>8. Served(l, needs, c) \in Nat
  BY ServedIs
<1>9. Served(l, needs, c) + 0 = Served(l, needs, c)
  BY <1>8
<1> QED BY <1>1, <1>4, <1>7, <1>9

\* A need that changes keeps its name, and is served nothing unless by hand.
Changes(l, x, y) ==
  /\ Follows(x, y)
  /\ HandServed(l, y) \/ (y.fulfilled = x.fulfilled /\ ~ HandServed(l, x))

\* One need that changed, and was served no further, leaves names apart and serves no more.
LEMMA OneChanged ==
  ASSUME NEW l, NEW S, NEW needs, NeedsOK(S, needs), NamesOK(needs), NEW x \in needs, NEW y, Changes(l, x, y),
         NEW S2, NEW needs2, needs2 = (needs \ {x}) \cup {y}, NeedsOK(S2, needs2)
  PROVE  NamesOK(needs2) /\ Descends(needs, needs2) /\ \A c : Served(l, needs2, c) <= Served(l, needs, c)
<1>1. PICK h : h = [z \in needs |-> IF z = x THEN y ELSE z]
  OBVIOUS
<1>2. \A z \in needs2 : \E w \in needs : z = h[w] /\ Follows(w, z)
  BY <1>1 DEF Follows, Changes
<1>3. Descends(needs, needs2)
  BY <1>2 DEF Descends
<1>4. NamesOK(needs2)
  <2>1. PICK F : F = {}
    OBVIOUS
  <2>2. NamesOK(F) /\ (\A z \in needs : \A w \in F : z.id # w.id)
        /\ \A z \in needs2 : z \in F \/ \E w \in needs : z = h[w] /\ Follows(w, z)
    BY <1>2, <2>1 DEF NamesOK
  <2> QED BY <2>2, NamesKept
<1>5. ASSUME NEW c PROVE Served(l, needs2, c) <= Served(l, needs, c)
  <2>1. ASSUME NEW z \in NeedsOf(l, needs2, c)
        PROVE  \E w \in NeedsOf(l, needs, c) : z = h[w] /\ z.fulfilled = w.fulfilled
    <3>1. z \in needs2 /\ z.cadet = c /\ ~ HandServed(l, z)
      BY <2>1 DEF NeedsOf
    <3>2. CASE z = y
      <4>1. y.fulfilled = x.fulfilled /\ ~ HandServed(l, x) /\ x.cadet = c
        BY <3>1, <3>2 DEF Changes, Follows
      <4>2. x \in NeedsOf(l, needs, c) /\ h[x] = y
        BY <1>1, <4>1 DEF NeedsOf
      <4> QED BY <3>2, <4>1, <4>2
    <3>3. CASE z # y
      <4>1. z \in needs /\ z # x
        BY <3>1, <3>3
      <4>2. z \in NeedsOf(l, needs, c) /\ h[z] = z
        BY <1>1, <3>1, <4>1 DEF NeedsOf
      <4> QED BY <4>2
    <3> QED BY <3>2, <3>3
  <2>2. ServedAsBefore(l, needs, needs2, c, h)
    BY <2>1 DEF ServedAsBefore
  <2> QED BY ONLY <2>2, NeedsOK(S, needs), NeedsOK(S2, needs2), NothingServed
<1> QED BY <1>3, <1>4, <1>5

\* New needs were served nothing yet.
LEMMA SomeMade ==
  ASSUME NEW l, NEW S, NEW needs, NeedsOK(S, needs), NamesOK(needs), NEW F, NamesOK(F),
         \A y \in F : y.fulfilled = 0, \A x \in needs : \A y \in F : x.id # y.id,
         NEW S2, NEW needs2, needs2 = needs \cup F, NeedsOK(S2, needs2)
  PROVE  NamesOK(needs2) /\ \A c : Served(l, needs2, c) <= Served(l, needs, c)
<1>1. PICK h : h = [z \in needs |-> z]
  OBVIOUS
<1>2. \A z \in needs2 : z \in F \/ \E w \in needs : z = h[w] /\ Follows(w, z)
  BY <1>1 DEF Follows
<1>3. NamesOK(needs2)
  BY <1>2, NamesKept
<1>4. ASSUME NEW c PROVE Served(l, needs2, c) <= Served(l, needs, c)
  <2>1. ASSUME NEW z \in NeedsOf(l, needs2, c)
        PROVE  z.fulfilled = 0 \/ \E w \in NeedsOf(l, needs, c) : z = h[w] /\ z.fulfilled = w.fulfilled
    BY <1>1, <2>1 DEF NeedsOf
  <2>2. ServedAsBefore(l, needs, needs2, c, h)
    BY <2>1 DEF ServedAsBefore
  <2> QED BY ONLY <2>2, NeedsOK(S, needs), NeedsOK(S2, needs2), NothingServed
<1> QED BY <1>3, <1>4

-----------------------------------------------------------------------------
(* What an issue serves.                                                   *)

\* The lines taken so far served the needs of their cadet with no more than they issue.
ServedSoFar(l, e, needs, needs2, T) ==
  /\ NamesOK(needs2) /\ Descends(needs, needs2)
  /\ \A c : Served(l, needs2, c) <= Served(l, needs, c) + (IF c = e.cadet THEN Total(e.lines, T) ELSE 0)

\* One line more serves no more than its own units.
LEMMA OneMoreServed ==
  ASSUME NEW l, NEW S, NEW n \in S, l[n].type = "ITEM_ISSUED", NEW e, NEW needs, NeedsOK(S, needs), NamesOK(needs),
         NEW D, Amounts(e.lines, D), \A k \in D : e.lines[k] \in Positive, NEW T \in SUBSET D, NEW i \in T,
         NEW a, Whole(a), NeedsOK(S, a.needs), ServedSoFar(l, e, needs, a.needs, T \ {i}), NEW q, q = IssueLine(e, a, n, i)
  PROVE  ServedSoFar(l, e, needs, q.needs, T)
<1>1. PICK k : k = e.lines[i]
  OBVIOUS
<1>2. k \in Nat
  BY <1>1 DEF Positive
<1>3. PICK h : h = Hold(a, <<n, i>>, e.cadet, i, k)
  OBVIOUS
<1>4. q.needs = FulfilNeeds(a.needs, Candidates(a.needs, e.cadet, i, e.named[i]), n, i, k, e.named[i])
  BY <1>1, <1>3, HoldKeeps DEF IssueLine, Hold, Whole
<1>5. PICK before, after, cadet, named : before = a.needs /\ after = q.needs /\ cadet = e.cadet /\ named = e.named[i]
  OBVIOUS
<1>6. NeedsOK(S, before) /\ NamesOK(before) /\ Descends(needs, before)
      /\ after = FulfilNeeds(before, Candidates(before, cadet, i, named), n, i, k, named)
  BY <1>4, <1>5 DEF ServedSoFar
<1>7. ASSUME NEW c
      PROVE  /\ NamesOK(after) /\ \A y \in after : \E x \in before : Follows(x, y)
             /\ Served(l, after, c) <= Served(l, before, c) + (IF c = cadet THEN k ELSE 0)
  BY ONLY <1>2, <1>6, n \in S, l[n].type = "ITEM_ISSUED", LineServes
<1>8. NamesOK(after) /\ Descends(before, after)
  BY <1>7 DEF Descends
<1>9. Descends(needs, after)
  BY <1>6, <1>8, DescendsOnward
<1>10. NeedsOK(S, after)
  <2>1. Candidates(before, cadet, i, named) \in SUBSET before
    BY DEF Candidates
  <2>2. k \in Int
    BY <1>2
  <2> QED BY ONLY <1>6, <2>1, <2>2, n \in S, FulfilledNeeds
<1>11. Total(e.lines, T) = k + Total(e.lines, T \ {i}) /\ Total(e.lines, T) \in Int /\ Total(e.lines, T \ {i}) \in Int
  <2>1. Amounts(e.lines, T)
    BY AmountsPart
  <2> QED BY <1>1, <2>1, TotalStep
<1>12. ASSUME NEW c
       PROVE  Served(l, after, c) <= Served(l, needs, c) + (IF c = cadet THEN Total(e.lines, T) ELSE 0)
  <2>1. PICK s0, s1, s2, t0, t1 : /\ s0 = Served(l, needs, c) /\ s1 = Served(l, before, c) /\ s2 = Served(l, after, c)
                                  /\ t0 = Total(e.lines, T \ {i}) /\ t1 = Total(e.lines, T)
    OBVIOUS
  <2>2. s0 \in Nat /\ s1 \in Nat /\ s2 \in Nat /\ t0 \in Int /\ t1 \in Int /\ t1 = k + t0
    BY <1>6, <1>10, <1>11, <2>1, ServedIs
  <2>3. s1 <= s0 + (IF c = cadet THEN t0 ELSE 0)
    BY <1>5, <2>1 DEF ServedSoFar
  <2>4. s2 <= s1 + (IF c = cadet THEN k ELSE 0)
    BY <1>7, <2>1
  <2>5. s2 <= s0 + (IF c = cadet THEN t1 ELSE 0)
    BY ONLY <1>2, <2>2, <2>3, <2>4
  <2> QED BY ONLY <2>1, <2>5
<1> QED BY <1>5, <1>8, <1>9, <1>12 DEF ServedSoFar

\* The lines of an issue serve no more than their units.
LEMMA AllServed ==
  ASSUME NEW l, NEW S0, S0 \subseteq Nat, NEW S, NEW n \in Nat, S = S0 \cup {n}, NEW e, NEW p, Whole(p),
         l[n].type = "ITEM_ISSUED",
         ItemsOK(S0, p.items), HeldOK(S0, p.held), NeedsOK(S0, p.needs), CanIssue(e, p), NamesOK(p.needs)
  PROVE  ServedSoFar(l, e, p.needs, IssueLines(e, p, n).needs, DOMAIN e.lines)
<1> DEFINE D == DOMAIN e.lines
<1> DEFINE pick == MaxPick(D)
<1>0. IsFiniteSet(D) /\ D \subseteq Nat
  BY SupplyAssumption DEF CanIssue
<1>0a. Amounts(e.lines, D) /\ (\A k \in D : e.lines[k] \in Positive) /\ NeedsOK(S, p.needs) /\ n \in S
  <2>1. \A k \in D : e.lines[k] \in Positive /\ e.lines[k] \in Int
    BY DEF CanIssue, Positive
  <2>2. NeedsOK(S, p.needs)
    BY NeedsStay
  <2> QED BY <1>0, <2>1, <2>2 DEF Amounts
<1>1. PICK f : Takes(f, "ISSUED", e, n, p, D, pick) /\ f[D] = IssueLines(e, p, n)
  BY <1>0, IssueTakes
<1> DEFINE P == {T \in SUBSET D : IssuedSoFar(S, e, n, p, f[T], T) /\ ServedSoFar(l, e, p.needs, f[T].needs, T)}
<1>2. pick \in Picks(D)
  BY <1>0, MaxPicks
<1> HIDE DEF pick
<1>3. {} \in P
  <2>1. f[{}] = p
    BY <1>1 DEF Takes
  <2>2. KeptByLines(p, p) /\ DOMAIN p.items = Item
    BY DEF Kept, KeptByLines, ItemsOK
  <2>3. HeldOK(S, p.held) /\ NeedsOK(S, p.needs)
    BY HeldStays, NeedsStay
  <2>4. IssuedSoFar(S, e, n, p, p, {})
    BY <2>2, <2>3 DEF IssuedSoFar
  <2>5. Total(e.lines, {}) = 0
    BY <1>0a, TotalStep
  <2>6. ASSUME NEW c
        PROVE  Served(l, p.needs, c) <= Served(l, p.needs, c) + (IF c = e.cadet THEN Total(e.lines, {}) ELSE 0)
    <3>1. PICK s : s = Served(l, p.needs, c) /\ s \in Nat
      BY ServedIs
    <3>2. s <= s + 0
      BY <3>1
    <3> QED BY <2>5, <3>1, <3>2
  <2>7. Descends(p.needs, p.needs)
    BY DEF Descends, Follows
  <2>8. ServedSoFar(l, e, p.needs, p.needs, {})
    BY <2>6, <2>7 DEF ServedSoFar
  <2> QED BY <2>1, <2>4, <2>8
<1> HIDE DEF D
<1>4. ASSUME NEW T \in SUBSET D, T # {}, T \ {pick[T]} \in P PROVE T \in P
  <2>1. pick[T] \in T
    BY <1>2, <1>4 DEF Picks
  <2>2. PICK i : i = pick[T]
    OBVIOUS
  <2>3. PICK a, q : a = f[T \ {i}] /\ q = f[T]
    OBVIOUS
  <2>4. q = IssueLine(e, a, n, i)
    BY <1>1, <1>4, <2>2, <2>3 DEF Takes, Take
  <2>5. IssuedSoFar(S, e, n, p, a, T \ {i}) /\ ServedSoFar(l, e, p.needs, a.needs, T \ {i})
    BY <1>4, <2>2, <2>3
  <2>6. i \in DOMAIN e.lines /\ i \in T /\ i \notin T \ {i} /\ (T \ {i}) \cup {i} = T
    BY <2>1, <2>2 DEF D
  <2>7. IssuedSoFar(S, e, n, p, q, (T \ {i}) \cup {i})
    BY <2>4, <2>5, <2>6, OneMoreIssued
  <2>8. Whole(a) /\ NeedsOK(S, a.needs)
    BY <2>5, KeptWhole DEF IssuedSoFar
  <2>9. PICK needs : needs = p.needs
    OBVIOUS
  <2>10. ServedSoFar(l, e, needs, q.needs, T)
    <3>1. /\ n \in S /\ l[n].type = "ITEM_ISSUED" /\ NeedsOK(S, needs) /\ NamesOK(needs)
          /\ Amounts(e.lines, D) /\ (\A k \in D : e.lines[k] \in Positive) /\ T \in SUBSET D
          /\ i \in T /\ Whole(a) /\ NeedsOK(S, a.needs) /\ ServedSoFar(l, e, needs, a.needs, T \ {i})
          /\ q = IssueLine(e, a, n, i)
      BY <1>0a, <2>4, <2>5, <2>6, <2>8, <2>9
    <3> QED BY ONLY <3>1, OneMoreServed
  <2> QED BY <2>3, <2>6, <2>7, <2>9, <2>10
<1> HIDE DEF P
<1>5. D \in P
  BY <1>0, <1>2, <1>3, <1>4, TakenOneByOne
<1> QED BY <1>1, <1>5 DEF P, D

-----------------------------------------------------------------------------
(* What an issue adds to the needs.                                        *)

\* The oldest need of a kind is one of that kind.
LEMMA OldestSame ==
  ASSUME NEW S, S \subseteq Nat, NEW same, same # {}, \A need \in same : IsNeed(S, need)
  PROVE  (CHOOSE need \in same : \A b \in same : need.since <= b.since) \in same
<1>1. \A b \in same : b.since \in Nat
  BY DEF IsNeed
<1>2. {b.since : b \in same} \subseteq Nat /\ {b.since : b \in same} # {}
  BY <1>1
<1>3. PICK k \in {b.since : b \in same} : \A j \in {b.since : b \in same} : k <= j
  BY <1>2, LeastNumber
<1>4. PICK a \in same : k = a.since
  OBVIOUS
<1>5. \A b \in same : a.since <= b.since
  BY <1>3, <1>4
<1> QED BY <1>5

\* A need that an event was added to is the same need, served nothing unless by hand.
LEMMA EventAdded ==
  ASSUME NEW l, NEW S, NEW n, NEW x, IsNeed(S, x), NEW y, Follows(x, y), y.applied = Append(x.applied, n),
         y.fulfilled = x.fulfilled \/ l[n].type = "STILL_NEEDED_FULFILLED"
  PROVE  Changes(l, x, y)
<1>1. PICK s : s = x.applied
  OBVIOUS
<1>2. s \in Seq(S)
  BY <1>1 DEF IsNeed
<1>3. ToSet(Append(s, n)) = ToSet(s) \cup {n}
  BY ONLY <1>2, AppendedSet
<1>4. ToSet(y.applied) = ToSet(x.applied) \cup {n}
  BY <1>1, <1>3
<1>5. HandServed(l, x) => HandServed(l, y)
  BY <1>4 DEF HandServed
<1>6. l[n].type = "STILL_NEEDED_FULFILLED" => HandServed(l, y)
  BY <1>4 DEF HandServed
<1>7. Follows(x, y)
  OBVIOUS
<1>8. CASE y.fulfilled = x.fulfilled
  BY <1>5, <1>7, <1>8 DEF Changes
<1>9. CASE l[n].type = "STILL_NEEDED_FULFILLED"
  BY <1>6, <1>7, <1>9 DEF Changes
<1> QED BY <1>8, <1>9

\* The missing lines T taken so far add to needs of before, or make needs with their own names.
MissedSoFar(l, n, needs, needs2, T) ==
  /\ NamesOK(needs2)
  /\ \A y \in needs2 :
       \/ \E x \in needs : Follows(x, y)
       \/ y.source = "INCOMPLETE_ISSUE" /\ \E m \in T : y.id = <<n, m.line>>
  /\ \A c : Served(l, needs2, c) <= Served(l, needs, c)

\* One line more that was missed serves nothing.
LEMMA OneMoreMissed ==
  ASSUME NEW l, NEW S, S \subseteq Nat, NEW n \in S, l[n].type = "ITEM_ISSUED", NEW cadet \in Cadet,
         NEW needs, NeedsOK(S, needs), \A x \in needs : x.id[1] # n,
         NEW D, \A m \in D : m.quantity \in Positive /\ m.line \in Nat,
         \A m1 \in D : \A m2 \in D : m1.line = m2.line => m1 = m2,
         NEW T \in SUBSET D, NEW m \in T,
         NEW a, Whole(a), NeedsOK(S, a.needs), MissedSoFar(l, n, needs, a.needs, T \ {m}),
         NEW q, q = AddMissing(a, n, cadet, m)
  PROVE  MissedSoFar(l, n, needs, q.needs, T)
<1>1. PICK before, after : before = a.needs /\ after = q.needs
  OBVIOUS
<1>2. NeedsOK(S, before) /\ NamesOK(before) /\ \A x \in before : IsNeed(S, x)
  BY <1>1 DEF MissedSoFar, NeedsOK
<1>3. NeedsOK(S, after)
  BY <1>1, MissedNeed
<1>4. m.quantity \in Positive /\ m.line \in Nat /\ n \in Nat
  OBVIOUS
<1>5. PICK same : same = {need \in before : SameMissing(need, cadet, m)}
  OBVIOUS
<1>6. CASE same = {}
  <2>1. PICK y : y = NewNeed(n, m.line, cadet, m.item, m.size, m.quantity, "INCOMPLETE_ISSUE", n)
    OBVIOUS
  <2>2. after = before \cup {y}
    BY <1>1, <1>5, <1>6, <2>1 DEF AddMissing, Whole
  <2>3. y.id = <<n, m.line>> /\ y.source = "INCOMPLETE_ISSUE" /\ y.fulfilled = 0 /\ y.since = n
    BY <2>1 DEF NewNeed
  <2>4. ASSUME NEW x \in before PROVE x.id # y.id
    <3>1. CASE \E z \in needs : Follows(z, x)
      <4>1. x.id[1] # n
        BY <3>1 DEF Follows
      <4>2. y.id[1] = n
        BY <2>3
      <4> QED BY <4>1, <4>2
    <3>2. CASE \E k \in T \ {m} : x.id = <<n, k.line>>
      <4>1. PICK k \in T \ {m} : x.id = <<n, k.line>>
        BY <3>2
      <4>2. k.line # m.line
        BY <4>1
      <4> QED BY <2>3, <4>1, <4>2
    <3> QED BY <1>1, <3>1, <3>2 DEF MissedSoFar
  <2>5. PICK F : F = {y}
    OBVIOUS
  <2>6. NamesOK(F)
    BY <1>4, <2>3, <2>5 DEF NamesOK, Named
  <2>7. NamesOK(after) /\ \A c : Served(l, after, c) <= Served(l, before, c)
    <3>1. (\A x \in F : x.fulfilled = 0) /\ (\A x \in before : \A z \in F : x.id # z.id) /\ after = before \cup F
      BY <2>2, <2>3, <2>4, <2>5
    <3> QED BY ONLY <1>2, <1>3, <2>6, <3>1, SomeMade
  <2>8. ASSUME NEW z \in after
        PROVE  \/ \E x \in needs : Follows(x, z)
               \/ z.source = "INCOMPLETE_ISSUE" /\ \E k \in T : z.id = <<n, k.line>>
    BY <1>1, <2>2, <2>3 DEF MissedSoFar
  <2>9. ASSUME NEW c PROVE Served(l, after, c) <= Served(l, needs, c)
    <3>1. Served(l, after, c) <= Served(l, before, c) /\ Served(l, before, c) <= Served(l, needs, c)
      BY <1>1, <2>7 DEF MissedSoFar
    <3>2. Served(l, after, c) \in Nat /\ Served(l, before, c) \in Nat /\ Served(l, needs, c) \in Nat
      BY <1>2, <1>3, ServedIs
    <3> QED BY <3>1, <3>2
  <2> QED BY <1>1, <2>7, <2>8, <2>9 DEF MissedSoFar
<1>7. CASE same # {}
  <2>1. PICK x : x = CHOOSE need \in same : \A b \in same : need.since <= b.since
    OBVIOUS
  <2>2. x \in same
    <3>1. \A need \in same : IsNeed(S, need)
      BY <1>2, <1>5
    <3> QED BY ONLY S \subseteq Nat, <1>7, <2>1, <3>1, OldestSame
  <2>3. PICK y : y = Touch([x EXCEPT !.needed = @ + m.quantity], n)
    OBVIOUS
  <2>4. after = (before \ {x}) \cup {y}
    BY <1>1, <1>5, <1>7, <2>1, <2>3 DEF AddMissing, Whole
  <2>5. x \in before /\ IsNeed(S, x)
    BY <1>2, <1>5, <2>2
  <2>6. Changes(l, x, y)
    <3>1. y.applied = Append(x.applied, n) /\ y.fulfilled = x.fulfilled /\ Follows(x, y)
      BY <2>3, <2>5 DEF Touch, IsNeed, Follows
    <3> QED BY ONLY <2>5, <3>1, EventAdded
  <2>7. NamesOK(after) /\ Descends(before, after) /\ \A c : Served(l, after, c) <= Served(l, before, c)
    BY ONLY <1>2, <1>3, <2>4, <2>5, <2>6, OneChanged
  <2>8. ASSUME NEW z \in after
        PROVE  \/ \E w \in needs : Follows(w, z)
               \/ z.source = "INCOMPLETE_ISSUE" /\ \E k \in T : z.id = <<n, k.line>>
    <3>1. PICK w \in before : Follows(w, z)
      BY <2>7 DEF Descends
    <3>2. \/ \E v \in needs : Follows(v, w)
          \/ w.source = "INCOMPLETE_ISSUE" /\ \E k \in T : w.id = <<n, k.line>>
      BY <1>1 DEF MissedSoFar
    <3> QED BY <3>1, <3>2 DEF Follows
  <2>9. ASSUME NEW c PROVE Served(l, after, c) <= Served(l, needs, c)
    <3>1. Served(l, after, c) <= Served(l, before, c) /\ Served(l, before, c) <= Served(l, needs, c)
      BY <1>1, <2>7 DEF MissedSoFar
    <3>2. Served(l, after, c) \in Nat /\ Served(l, before, c) \in Nat /\ Served(l, needs, c) \in Nat
      BY <1>2, <1>3, ServedIs
    <3> QED BY <3>1, <3>2
  <2> QED BY <1>1, <2>7, <2>8, <2>9 DEF MissedSoFar
<1> QED BY <1>6, <1>7

\* The lines that an issue missed serve nothing.
LEMMA AllMissedServed ==
  ASSUME NEW l, NEW S, S \subseteq Nat, NEW n \in S, l[n].type = "ITEM_ISSUED",
         NEW e, e.cadet \in Cadet, IsFiniteSet(e.missing),
         \A m \in e.missing : m.quantity \in Positive /\ m.line \in Nat,
         \A m1 \in e.missing : \A m2 \in e.missing : m1.line = m2.line => m1 = m2,
         NEW p, Whole(p), NeedsOK(S, p.needs), NamesOK(p.needs), \A x \in p.needs : x.id[1] # n
  PROVE  MissedSoFar(l, n, p.needs, AddAllMissing(e, p, n).needs, e.missing)
<1> DEFINE D == e.missing
<1> DEFINE pick == AnyPick(D)
<1>1. PICK f : Takes(f, "MISSED", e, n, p, D, pick) /\ f[D] = AddAllMissing(e, p, n)
  BY MissedTakes
<1>0. PICK needs, cadet : needs = p.needs /\ cadet = e.cadet
  OBVIOUS
<1> DEFINE P == {T \in SUBSET D : Whole(f[T]) /\ NeedsOK(S, f[T].needs) /\ MissedSoFar(l, n, needs, f[T].needs, T)}
<1>2. pick \in Picks(D)
  BY AnyPicks
<1> HIDE DEF pick
<1>3. {} \in P
  <2>1. f[{}] = p
    BY <1>1 DEF Takes
  <2>2. ASSUME NEW c PROVE Served(l, needs, c) <= Served(l, needs, c)
    <3>1. PICK s : s = Served(l, needs, c) /\ s \in Nat
      BY <1>0, ServedIs
    <3>2. s <= s
      BY <3>1
    <3> QED BY <3>1, <3>2
  <2>3. MissedSoFar(l, n, needs, needs, {})
    BY <1>0, <2>2 DEF MissedSoFar, Follows
  <2> QED BY <1>0, <2>1, <2>3
<1>4. ASSUME NEW T \in SUBSET D, T # {}, T \ {pick[T]} \in P PROVE T \in P
  <2>1. pick[T] \in T
    BY <1>2, <1>4 DEF Picks
  <2>2. PICK m : m = pick[T]
    OBVIOUS
  <2>3. PICK a, q : a = f[T \ {m}] /\ q = f[T]
    OBVIOUS
  <2>4. q = AddMissing(a, n, cadet, m)
    BY <1>0, <1>1, <1>4, <2>2, <2>3 DEF Takes, Take
  <2>5. Whole(a) /\ NeedsOK(S, a.needs) /\ MissedSoFar(l, n, needs, a.needs, T \ {m}) /\ m \in T /\ m.quantity \in Positive
    BY <1>4, <2>1, <2>2, <2>3
  <2>6. cadet \in Cadet /\ NeedsOK(S, needs) /\ (\A x \in needs : x.id[1] # n)
        /\ (\A k \in D : k.quantity \in Positive /\ k.line \in Nat)
        /\ (\A m1 \in D : \A m2 \in D : m1.line = m2.line => m1 = m2) /\ T \in SUBSET D
    BY <1>0, <1>4
  <2> HIDE DEF D, P
  <2>7. NeedsOK(S, q.needs)
    BY ONLY <2>4, <2>5, <2>6, S \subseteq Nat, n \in S, MissedNeed
  <2>8. Whole(q)
    BY <2>4, <2>5, MissedKeeps, KeptWhole
  <2>9. MissedSoFar(l, n, needs, q.needs, T)
    BY ONLY <2>4, <2>5, <2>6, S \subseteq Nat, n \in S, l[n].type = "ITEM_ISSUED", OneMoreMissed
  <2> QED BY <1>4, <2>3, <2>7, <2>8, <2>9 DEF P
<1>5. IsFiniteSet(D)
  OBVIOUS
<1> HIDE DEF P, D
<1>6. D \in P
  BY <1>2, <1>3, <1>4, <1>5, TakenOneByOne
<1> QED BY <1>0, <1>1, <1>6 DEF P, D

\* An issue serves its cadet's needs with no more than it issues; the needs that it makes
\* are for what was missing.
LEMMA IssueServes ==
  ASSUME NEW l, NEW S0, S0 \subseteq Nat, NEW S, NEW n \in Nat, n \notin S0, S = S0 \cup {n}, NEW p, Whole(p),
         ItemsOK(S0, p.items), HeldOK(S0, p.held), NeedsOK(S0, p.needs), NamesOK(p.needs),
         IsCommand(l[n]), l[n].type = "ITEM_ISSUED", NEW q, q = IssueTransaction(l, p, n)
  PROVE  \/ q.needs = p.needs /\ q.transactions = p.transactions
         \/ /\ NamesOK(q.needs)
            /\ \A y \in q.needs : y.source = "INCOMPLETE_ISSUE" \/ \E x \in p.needs : Follows(x, y)
            /\ \A c : Served(l, q.needs, c) <=
                   Served(l, p.needs, c) + (IF c = l[n].cadet THEN Total(l[n].lines, DOMAIN l[n].lines) ELSE 0)
            /\ \E t : q.transactions = Joined(p.transactions, n, t)
<1>e. PICK e : e = l[n]
  OBVIOUS
<1>1. /\ e.cadet \in Cadet /\ DOMAIN e.lines \subseteq Item /\ IsFiniteSet(DOMAIN e.lines)
      /\ \A i \in DOMAIN e.lines : e.lines[i] \in Positive
      /\ IsFiniteSet(e.missing) /\ \A m \in e.missing : m.quantity \in Positive
  BY <1>e, IssueCommand
<1>2. /\ \A m \in e.missing : m.line \in Nat
      /\ \A m1 \in e.missing : \A m2 \in e.missing : m1.line = m2.line => m1 = m2
  BY <1>e, MissingCommand
<1>3. CASE q = AddConflict(p, n)
  BY <1>3 DEF AddConflict, Whole
<1>4. CASE q # AddConflict(p, n)
  <2>1. Contested(p, e) = {}
    BY <1>4, <1>e DEF IssueTransaction
  <2>2. CanIssue(e, p)
    <3>1. ASSUME NEW i \in DOMAIN e.lines PROVE p.items[i].onHand >= e.lines[i]
      <4>1. ~ (p.items[i].onHand < e.lines[i])
        BY <2>1 DEF Contested
      <4>2. p.items[i].onHand \in Nat /\ e.lines[i] \in Nat
        BY <1>1 DEF ItemsOK, IsItem, Positive
      <4> QED BY <4>1, <4>2
    <3> QED BY <1>1, <3>1 DEF CanIssue
  <2>3. PICK a : a = IssueLines(e, p, n)
    OBVIOUS
  <2>4. IssuedSoFar(S, e, n, p, a, DOMAIN e.lines)
    BY <2>2, <2>3, AllIssued
  <2>5. KeptByLines(p, a) /\ NeedsOK(S, a.needs) /\ Whole(a)
    BY <2>4, KeptWhole DEF IssuedSoFar
  <2>6. PICK needs : needs = p.needs
    OBVIOUS
  <2>7. ServedSoFar(l, e, needs, a.needs, DOMAIN e.lines)
    BY <1>e, <2>2, <2>3, <2>6, AllServed
  <2>8. \A x \in a.needs : x.id[1] # n
    <3>1. \A x \in needs : x.id[1] # n
      BY <2>6 DEF NeedsOK, IsNeed
    <3> QED BY <2>7, <3>1 DEF ServedSoFar, Descends, Follows
  <2>9. PICK b : b = AddAllMissing(e, a, n)
    OBVIOUS
  <2>10. MissedSoFar(l, n, a.needs, b.needs, e.missing)
    <3>1. /\ S \subseteq Nat /\ n \in S /\ l[n].type = "ITEM_ISSUED" /\ e.cadet \in Cadet /\ IsFiniteSet(e.missing)
          /\ (\A m \in e.missing : m.quantity \in Positive /\ m.line \in Nat)
          /\ (\A m1 \in e.missing : \A m2 \in e.missing : m1.line = m2.line => m1 = m2)
          /\ Whole(a) /\ NeedsOK(S, a.needs) /\ NamesOK(a.needs) /\ \A x \in a.needs : x.id[1] # n
      BY <1>1, <1>2, <2>5, <2>7, <2>8 DEF ServedSoFar
    <3> QED BY ONLY <2>9, <3>1, AllMissedServed
  <2>11. Whole(b) /\ b.transactions = p.transactions
    <3>1. KeptByLines(a, b)
      BY <1>1, <2>5, <2>9, AllMissingKeep
    <3> QED BY <2>5, <3>1, KeptWhole DEF KeptByLines
  <2>12. q.needs = b.needs /\ \E t : q.transactions = Joined(p.transactions, n, t)
    BY <1>4, <1>e, <2>3, <2>9, <2>11 DEF IssueTransaction, Whole
  <2>13. ASSUME NEW y \in q.needs PROVE y.source = "INCOMPLETE_ISSUE" \/ \E x \in p.needs : Follows(x, y)
    <3>1. y.source = "INCOMPLETE_ISSUE" \/ \E x \in a.needs : Follows(x, y)
      BY <2>10, <2>12 DEF MissedSoFar
    <3> QED BY <2>6, <2>7, <3>1 DEF ServedSoFar, Descends, Follows
  <2>14. NeedsOK(S, b.needs)
    <3>1. S \subseteq Nat /\ n \in S
      OBVIOUS
    <3> QED BY ONLY <1>1, <2>5, <2>9, <3>1, AllMissed
  <2>15. ASSUME NEW c
         PROVE  Served(l, q.needs, c) <=
                  Served(l, p.needs, c) + (IF c = e.cadet THEN Total(e.lines, DOMAIN e.lines) ELSE 0)
    <3>1. PICK s0, s1, s2, t : /\ s0 = Served(l, needs, c) /\ s1 = Served(l, a.needs, c) /\ s2 = Served(l, b.needs, c)
                               /\ t = Total(e.lines, DOMAIN e.lines)
      OBVIOUS
    <3>2. s0 \in Nat /\ s1 \in Nat /\ s2 \in Nat
      BY <2>5, <2>6, <2>14, <3>1, ServedIs
    <3>3. t \in Int
      <4>1. Amounts(e.lines, DOMAIN e.lines)
        BY <1>1 DEF Amounts, Positive
      <4> QED BY <3>1, <4>1, TotalStep
    <3>4. s1 <= s0 + (IF c = e.cadet THEN t ELSE 0)
      BY <2>7, <3>1 DEF ServedSoFar
    <3>5. s2 <= s1
      BY <2>10, <3>1 DEF MissedSoFar
    <3>6. s2 <= s0 + (IF c = e.cadet THEN t ELSE 0)
      BY ONLY <3>2, <3>3, <3>4, <3>5
    <3> QED BY <2>6, <2>12, <3>1, <3>6
  <2>16. NamesOK(q.needs)
    BY <2>10, <2>12 DEF MissedSoFar
  <2> QED BY <1>e, <2>12, <2>13, <2>15, <2>16
<1> QED BY <1>3, <1>4

-----------------------------------------------------------------------------
(* What was issued to a cadet.                                             *)

\* A sum of amounts is their total.
LEMMA SumIsTotal ==
  ASSUME NEW v, Amounts(v, DOMAIN v)
  PROVE  SumFunction(v) = Total(v, DOMAIN v)
<1>1. PICK S : S = DOMAIN v
  OBVIOUS
<1>2. PICK w : w = [x \in S |-> v[x]]
  OBVIOUS
<1>3. Numbers(v) /\ Numbers(w) /\ DOMAIN w = S /\ IsFiniteSet(S) /\ \A x \in S : v[x] = w[x]
  BY <1>1, <1>2 DEF Amounts, Numbers
<1>4. PICK g \in [SUBSET DOMAIN v -> Int] : SumsUp(g, v, DOMAIN v) /\ g[DOMAIN v] = SumFunction(v)
  BY <1>3, PartialSums
<1>5. PICK h \in [SUBSET DOMAIN w -> Int] : SumsUp(h, w, DOMAIN w) /\ h[DOMAIN w] = SumFunction(w)
  BY <1>3, PartialSums
<1>6. S \subseteq S /\ SumsUp(g, v, S) /\ SumsUp(h, w, S)
  BY <1>1, <1>3, <1>4, <1>5
<1>7. \A T \in SUBSET S : g[T] = h[T]
  BY ONLY <1>3, <1>6, SumsAlike
<1>8. SumFunction(v) = SumFunction(w)
  BY <1>1, <1>3, <1>4, <1>5, <1>7
<1> QED BY <1>1, <1>2, <1>8 DEF Total

\* The issues to a cadet that were applied, and the units of each.
IssuesTo(l, tr, c) == {n \in DOMAIN tr : l[n].type = "ITEM_ISSUED" /\ l[n].cadet = c}
Units(e) == Total(e.lines, DOMAIN e.lines)
UnitsOf(l, T) == [n \in T |-> Units(l[n])]
IssuedTo(l, tr, c) == Total(UnitsOf(l, DOMAIN tr), IssuesTo(l, tr, c))

\* The units of an issue are the sum of its lines.
LEMMA UnitsIs ==
  ASSUME NEW e, IsCommand(e), e.type = "ITEM_ISSUED"
  PROVE  Amounts(e.lines, DOMAIN e.lines) /\ Units(e) \in Nat /\ SumFunction(e.lines) = Units(e)
<1>1. Amounts(e.lines, DOMAIN e.lines) /\ \A i \in DOMAIN e.lines : e.lines[i] >= 0
  BY IssueCommand DEF Amounts, Positive
<1>2. Total(e.lines, DOMAIN e.lines) \in Nat
  BY <1>1, TotalNatural
<1> QED BY <1>1, <1>2, SumIsTotal DEF Units

\* What was issued to a cadet is a number.
LEMMA IssuedIs ==
  ASSUME NEW l, NEW S, IsFiniteSet(S), \A m \in S : IsCommand(l[m]), NEW tr, DOMAIN tr \subseteq S, NEW c
  PROVE  Amounts(UnitsOf(l, DOMAIN tr), IssuesTo(l, tr, c)) /\ IssuedTo(l, tr, c) \in Nat
<1>1. PICK I, u : I = IssuesTo(l, tr, c) /\ u = UnitsOf(l, DOMAIN tr)
  OBVIOUS
<1>2. I \subseteq DOMAIN tr /\ IsFiniteSet(I)
  BY <1>1, FS_Subset DEF IssuesTo
<1>3. ASSUME NEW m \in I PROVE u[m] \in Nat
  <2>1. u[m] = Units(l[m])
    BY <1>1, <1>2 DEF UnitsOf
  <2>2. IsCommand(l[m]) /\ l[m].type = "ITEM_ISSUED"
    BY <1>1, <1>2 DEF IssuesTo
  <2> QED BY <2>1, <2>2, UnitsIs
<1>4. Amounts(u, I) /\ \A m \in I : u[m] >= 0
  BY <1>2, <1>3 DEF Amounts
<1>5. Total(u, I) \in Nat
  BY <1>4, TotalNatural
<1> QED BY <1>1, <1>4, <1>5 DEF IssuedTo

\* An issue that was applied adds its units to what its cadet was issued.
LEMMA IssuedMore ==
  ASSUME NEW l, NEW S, IsFiniteSet(S), \A m \in S : IsCommand(l[m]), NEW tr, DOMAIN tr \subseteq S,
         NEW n, n \notin S, IsCommand(l[n]), l[n].type = "ITEM_ISSUED", NEW t, NEW tr2, tr2 = Joined(tr, n, t), NEW c
  PROVE  IssuedTo(l, tr2, c) = IssuedTo(l, tr, c) + (IF c = l[n].cadet THEN Units(l[n]) ELSE 0)
<1>1. PICK I, J, u, v : /\ I = IssuesTo(l, tr, c) /\ u = UnitsOf(l, DOMAIN tr)
                        /\ J = IssuesTo(l, tr2, c) /\ v = UnitsOf(l, DOMAIN tr2)
  OBVIOUS
<1>2. DOMAIN tr2 = DOMAIN tr \cup {n} /\ n \notin DOMAIN tr
  BY DEF Joined
<1>3. J = I \cup (IF c = l[n].cadet THEN {n} ELSE {}) /\ n \notin I
  BY <1>1, <1>2 DEF IssuesTo
<1>4. \A m \in I : u[m] = v[m]
  BY <1>1, <1>2 DEF IssuesTo, UnitsOf
<1>5. Total(u, I) = Total(v, I)
  BY <1>4, TotalSame
<1>6. Amounts(u, I) /\ Amounts(v, J) /\ Total(u, I) \in Nat
  <2>1. IsFiniteSet(S \cup {n}) /\ (\A m \in S \cup {n} : IsCommand(l[m])) /\ DOMAIN tr2 \subseteq S \cup {n}
    BY <1>2, FS_AddElement
  <2>2. Amounts(v, J)
    BY ONLY <1>1, <2>1, IssuedIs
  <2>3. Amounts(u, I) /\ IssuedTo(l, tr, c) \in Nat
    BY <1>1, IssuedIs
  <2> QED BY <1>1, <2>2, <2>3 DEF IssuedTo
<1>7. CASE c = l[n].cadet
  <2>1. J \ {n} = I /\ n \in J
    BY <1>3, <1>7
  <2>2. Total(v, J) = v[n] + Total(v, J \ {n})
    BY <1>6, <2>1, TotalStep
  <2>3. v[n] = Units(l[n]) /\ Units(l[n]) \in Nat
    BY <1>1, <1>2, UnitsIs DEF UnitsOf
  <2>4. PICK a, b : a = Total(u, I) /\ b = Units(l[n]) /\ a \in Nat /\ b \in Nat
    BY <1>6, <2>3
  <2>5. Total(v, J) = b + a
    BY <1>5, <2>1, <2>2, <2>3, <2>4
  <2>6. b + a = a + b
    BY <2>4
  <2> QED BY <1>1, <1>7, <2>4, <2>5, <2>6 DEF IssuedTo
<1>8. CASE c # l[n].cadet
  <2>1. J = I
    BY <1>3, <1>8
  <2>2. PICK a : a = Total(u, I) /\ a \in Nat
    BY <1>6
  <2>3. a + 0 = a
    BY <2>2
  <2> QED BY <1>1, <1>5, <1>8, <2>1, <2>2, <2>3 DEF IssuedTo
<1> QED BY <1>7, <1>8

\* The records are the old ones, and perhaps that of n.
Grows(tr, tr2, n) == DOMAIN tr2 = DOMAIN tr \/ DOMAIN tr2 = DOMAIN tr \cup {n}

\* Whatever is no issue leaves it alone.
LEMMA IssuedSame ==
  ASSUME NEW l, NEW n, l[n].type # "ITEM_ISSUED", NEW tr, NEW tr2,
         Grows(tr, tr2, n), NEW c
  PROVE  IssuedTo(l, tr2, c) = IssuedTo(l, tr, c)
<1>1. IssuesTo(l, tr2, c) = IssuesTo(l, tr, c)
  BY DEF Grows, IssuesTo
<1>2. \A m \in IssuesTo(l, tr, c) : UnitsOf(l, DOMAIN tr2)[m] = UnitsOf(l, DOMAIN tr)[m]
  BY DEF Grows, IssuesTo, UnitsOf
<1> QED BY <1>1, <1>2, TotalSame DEF IssuedTo

\* Records of issues and returns are only added to.
LEMMA RecordsGrow ==
  ASSUME NEW l, NEW p, NEW n, Whole(p), IsCommand(l[n]), l[n].type # "ITEM_ISSUED", NEW q, q = Effect(l, p, n)
  PROVE  Grows(p.transactions, q.transactions, n)
<1> USE DEF Grows
<1>1. CASE l[n].type \notin {"ITEM_RETURNED", "RECORD_CORRECTED"}
  BY <1>1, EffectKeeps
<1>2. CASE l[n].type = "ITEM_RETURNED"
  <2>1. q = ReturnTransaction(l, p, n)
    BY <1>2 DEF Effect, CountEvents, CalendarEvents, NeedChanges
  <2>2. CASE q = AddConflict(p, n)
    BY <2>2 DEF AddConflict, Whole
  <2>3. CASE q # AddConflict(p, n)
    <3>1. PICK a : a = ReturnLines(l[n], p, n)
      OBVIOUS
    <3>2. KeptByLines(p, a) /\ Whole(a)
      BY <1>2, <3>1, ReturnCommand, ReturnLinesKeep, KeptWhole
    <3>3. \E t : q.transactions = Joined(a.transactions, n, t)
      BY <2>1, <2>3, <3>1, <3>2 DEF ReturnTransaction, Whole
    <3> QED BY <3>2, <3>3 DEF Joined, KeptByLines
  <2> QED BY <2>2, <2>3
<1>3. CASE l[n].type = "RECORD_CORRECTED"
  <2>1. q = CorrectRecord(l, p, n)
    BY <1>3 DEF Effect, CountEvents, CalendarEvents, NeedChanges
  <2>2. PICK plan : q = ApplyPlan(l, p, n, plan)
    BY <2>1 DEF CorrectRecord
  <2>3. CASE q = AddConflict(p, n)
    BY <2>3 DEF AddConflict, Whole
  <2>4. CASE q # AddConflict(p, n)
    <3>1. \/ q = [p EXCEPT !.items[plan.item] = Move(@, n, plan.stock, plan.held)]
          \/ q = CorrectHolding(l[n], p, n, plan, p.transactions[l[n].target].cadet)
      BY <2>2, <2>4 DEF ApplyPlan
    <3>2. CASE q = [p EXCEPT !.items[plan.item] = Move(@, n, plan.stock, plan.held)]
      BY <3>2 DEF Whole
    <3>3. CASE q = CorrectHolding(l[n], p, n, plan, p.transactions[l[n].target].cadet)
      BY <3>3 DEF CorrectHolding, Hold, Whole
    <3> QED BY <3>1, <3>2, <3>3
  <2> QED BY <2>3, <2>4
<1> QED BY <1>1, <1>2, <1>3

-----------------------------------------------------------------------------
(* What the other events do to the needs.                                  *)

\* A need by hand is new, and has the name of its event.
LEMMA AddNeedServes ==
  ASSUME NEW l, NEW S0, S0 \subseteq Nat, NEW S, NEW n \in Nat, n \notin S0, S = S0 \cup {n}, NEW p, Whole(p),
         NeedsOK(S0, p.needs), NamesOK(p.needs), NEW q, q = AddNeed(l, p, n), NeedsOK(S, q.needs)
  PROVE  /\ NamesOK(q.needs) /\ \A c : Served(l, q.needs, c) <= Served(l, p.needs, c)
         /\ \A y \in q.needs : y.source = "MANUAL" \/ \E x \in p.needs : Follows(x, y)
<1>e. PICK e : e = l[n]
  OBVIOUS
<1>1. PICK y : y = NewNeed(n, 0, e.cadet, e.item, e.size, e.quantity, "MANUAL", n)
  OBVIOUS
<1>2. q.needs = p.needs \cup {y}
  BY <1>e, <1>1 DEF AddNeed, Whole
<1>3. y.id = <<n, 0>> /\ y.source = "MANUAL" /\ y.fulfilled = 0 /\ y.since = n
  BY <1>1 DEF NewNeed
<1>4. PICK F : F = {y}
  OBVIOUS
<1>5. NamesOK(F)
  BY <1>3, <1>4 DEF NamesOK, Named
<1>6. ASSUME NEW x \in p.needs PROVE x.id # y.id
  BY <1>3 DEF NeedsOK, IsNeed
<1>7. PICK before, after : before = p.needs /\ after = q.needs
  OBVIOUS
<1>8. /\ NeedsOK(S0, before) /\ NamesOK(before) /\ after = before \cup F /\ NeedsOK(S, after)
      /\ (\A z \in F : z.fulfilled = 0) /\ \A x \in before : \A z \in F : x.id # z.id
  BY <1>2, <1>3, <1>4, <1>6, <1>7
<1>9. NamesOK(after) /\ \A c : Served(l, after, c) <= Served(l, before, c)
  BY ONLY <1>5, <1>8, SomeMade
<1>10. \A z \in q.needs : z.source = "MANUAL" \/ \E x \in p.needs : Follows(x, z)
  BY <1>2, <1>3 DEF Follows
<1> QED BY <1>7, <1>9, <1>10

\* Only by hand does a change say what was handed over.
LEMMA ChangeCommand ==
  ASSUME NEW e, IsCommand(e), e.type \in NeedChanges
  PROVE  /\ DOMAIN e.changes \subseteq {"status", "needed", "fulfilled"}
         /\ e.type # "STILL_NEEDED_FULFILLED" => "fulfilled" \notin DOMAIN e.changes
BY DEF IsCommand

\* An edit serves no need with units of an issue, and leaves names apart.
LEMMA ChangeNeedServes ==
  ASSUME NEW l, NEW S0, NEW S, NEW n, S = S0 \cup {n}, NEW p, Whole(p), NeedsOK(S0, p.needs), NamesOK(p.needs),
         IsCommand(l[n]), l[n].type \in NeedChanges, ~ ChangeNeedThrows(l, p, n), NEW q, q = ChangeNeed(l, p, n),
         NeedsOK(S, q.needs)
  PROVE  \/ q.needs = p.needs
         \/ /\ NamesOK(q.needs) /\ Descends(p.needs, q.needs)
            /\ \A c : Served(l, q.needs, c) <= Served(l, p.needs, c)
<1>e. PICK e : e = l[n]
  OBVIOUS
<1>2. PICK need : need = NeedOf(p, e.need)
  OBVIOUS
<1>3. CASE e.base # need.version
  BY <1>e, <1>2, <1>3 DEF ChangeNeed, AddConflict, Whole
<1>4. CASE e.base = need.version
  <2>1. need \in p.needs
    BY <1>e, <1>2 DEF ChangeNeedThrows, NeedOf
  <2>2. PICK changed : changed = Changed(need, e.changes)
    OBVIOUS
  <2>4. PICK new : new = Touch(changed, n)
    OBVIOUS
  <2>5. q.needs = (p.needs \ {need}) \cup {new}
    BY <1>e, <1>2, <1>4, <2>2, <2>4 DEF ChangeNeed, Whole
  <2>6. IsNeed(S0, need)
    BY <2>1 DEF NeedsOK
  <2>7. /\ DOMAIN e.changes \subseteq {"status", "needed", "fulfilled"}
        /\ e.type # "STILL_NEEDED_FULFILLED" => "fulfilled" \notin DOMAIN e.changes
    BY <1>e, ChangeCommand
  <2>8. /\ DOMAIN changed = DOMAIN need /\ changed.cadet = need.cadet /\ changed.source = need.source
        /\ changed.applied = need.applied /\ changed.since = need.since /\ changed.id = need.id
        /\ "fulfilled" \notin DOMAIN e.changes => changed.fulfilled = need.fulfilled
    BY <2>2, <2>6, <2>7 DEF Changed, IsNeed
  <2>9. /\ new.cadet = changed.cadet /\ new.source = changed.source /\ new.fulfilled = changed.fulfilled
        /\ new.applied = Append(changed.applied, n) /\ new.since = changed.since /\ new.id = changed.id
    BY <2>4, <2>6, <2>8 DEF Touch, IsNeed
  <2>10. Follows(need, new) /\ new.applied = Append(need.applied, n)
         /\ (new.fulfilled = need.fulfilled \/ l[n].type = "STILL_NEEDED_FULFILLED")
    BY <1>e, <2>7, <2>8, <2>9 DEF Follows
  <2>11. Changes(l, need, new)
    BY <2>6, <2>10, EventAdded
  <2>12. PICK before, after : before = p.needs /\ after = q.needs
    OBVIOUS
  <2>13. NeedsOK(S0, before) /\ NamesOK(before) /\ need \in before /\ after = (before \ {need}) \cup {new} /\ NeedsOK(S, after)
    BY <2>1, <2>5, <2>12
  <2>14. NamesOK(after) /\ Descends(before, after) /\ \A c : Served(l, after, c) <= Served(l, before, c)
    BY ONLY <2>11, <2>13, OneChanged
  <2> QED BY <2>12, <2>14
<1> QED BY <1>3, <1>4

\* The needs that a resolution makes have names of their own.
LEMMA LostNames ==
  ASSUME NEW l, NEW n \in Nat, NEW loser \in Nat, IsCommand(l[loser]), l[loser].type = "ITEM_ISSUED",
         NEW F, F = LostNeeds(l, n, loser)
  PROVE  /\ NamesOK(F)
         /\ \A y \in F : y.id[1] = n /\ y.since = loser /\ y.source = "CONFLICT_RESOLUTION" /\ y.fulfilled = 0
<1>e. PICK e : e = l[loser]
  OBVIOUS
<1>1. /\ DOMAIN e.lines \subseteq Nat
      /\ \A m \in e.missing : m.line \in Nat \ DOMAIN e.lines
      /\ \A m1 \in e.missing : \A m2 \in e.missing : m1.line = m2.line => m1 = m2
  BY <1>e, IssueCommand, MissingCommand, SupplyAssumption
<1>2. PICK A : A = {NewNeed(n, i, e.cadet, i, Label[i], e.lines[i], "CONFLICT_RESOLUTION", loser) : i \in DOMAIN e.lines}
  OBVIOUS
<1>3. PICK B : B = {NewNeed(n, m.line, e.cadet, m.item, m.size, m.quantity, "CONFLICT_RESOLUTION", loser) : m \in e.missing}
  OBVIOUS
<1>4. F = A \cup B
  BY <1>e, <1>2, <1>3 DEF LostNeeds
<1>5. ASSUME NEW i \in DOMAIN e.lines, NEW y, y = NewNeed(n, i, e.cadet, i, Label[i], e.lines[i], "CONFLICT_RESOLUTION", loser)
      PROVE  y.id = <<n, i>> /\ y.since = loser /\ y.source = "CONFLICT_RESOLUTION" /\ y.fulfilled = 0
  BY <1>5 DEF NewNeed
<1>6. ASSUME NEW m \in e.missing,
             NEW y, y = NewNeed(n, m.line, e.cadet, m.item, m.size, m.quantity, "CONFLICT_RESOLUTION", loser)
      PROVE  y.id = <<n, m.line>> /\ y.since = loser /\ y.source = "CONFLICT_RESOLUTION" /\ y.fulfilled = 0
  BY <1>6 DEF NewNeed
<1>7. ASSUME NEW y \in A
      PROVE  \E i \in DOMAIN e.lines : y.id = <<n, i>> /\
               y = NewNeed(n, i, e.cadet, i, Label[i], e.lines[i], "CONFLICT_RESOLUTION", loser)
  BY <1>2, <1>5
<1>8. ASSUME NEW y \in B
      PROVE  \E m \in e.missing : y.id = <<n, m.line>> /\
               y = NewNeed(n, m.line, e.cadet, m.item, m.size, m.quantity, "CONFLICT_RESOLUTION", loser)
  BY <1>3, <1>6
<1>9. ASSUME NEW y \in F
      PROVE  y.id[1] = n /\ y.since = loser /\ y.source = "CONFLICT_RESOLUTION" /\ y.fulfilled = 0 /\ Named(y)
  <2>1. CASE y \in A
    <3>1. PICK i \in DOMAIN e.lines : y = NewNeed(n, i, e.cadet, i, Label[i], e.lines[i], "CONFLICT_RESOLUTION", loser)
      BY <1>7, <2>1
    <3>2. y.id = <<n, i>> /\ y.since = loser /\ y.source = "CONFLICT_RESOLUTION" /\ y.fulfilled = 0
      BY <1>5, <3>1
    <3>3. i \in Nat
      BY <1>1
    <3> QED BY <3>2, <3>3 DEF Named
  <2>2. CASE y \in B
    <3>1. PICK m \in e.missing :
            y = NewNeed(n, m.line, e.cadet, m.item, m.size, m.quantity, "CONFLICT_RESOLUTION", loser)
      BY <1>8, <2>2
    <3>2. y.id = <<n, m.line>> /\ y.since = loser /\ y.source = "CONFLICT_RESOLUTION" /\ y.fulfilled = 0
      BY <1>6, <3>1
    <3>3. m.line \in Nat
      BY <1>1
    <3> QED BY <3>2, <3>3 DEF Named
  <2> QED BY <1>4, <2>1, <2>2
<1>10. ASSUME NEW y \in F, NEW z \in F, y.id = z.id PROVE y = z
  <2>1. ASSUME NEW a \in A, NEW b \in A, a.id = b.id PROVE a = b
    <3>1. PICK i \in DOMAIN e.lines :
            a.id = <<n, i>> /\ a = NewNeed(n, i, e.cadet, i, Label[i], e.lines[i], "CONFLICT_RESOLUTION", loser)
      BY <1>7
    <3>2. PICK j \in DOMAIN e.lines :
            b.id = <<n, j>> /\ b = NewNeed(n, j, e.cadet, j, Label[j], e.lines[j], "CONFLICT_RESOLUTION", loser)
      BY <1>7
    <3>0. a.id[2] = i /\ b.id[2] = j
      BY <3>1, <3>2
    <3>3. i = j
      BY ONLY <2>1, <3>0
    <3> QED BY <3>1, <3>2, <3>3
  <2>2. ASSUME NEW a \in B, NEW b \in B, a.id = b.id PROVE a = b
    <3>1. PICK i \in e.missing : a.id = <<n, i.line>> /\
            a = NewNeed(n, i.line, e.cadet, i.item, i.size, i.quantity, "CONFLICT_RESOLUTION", loser)
      BY <1>8
    <3>2. PICK j \in e.missing : b.id = <<n, j.line>> /\
            b = NewNeed(n, j.line, e.cadet, j.item, j.size, j.quantity, "CONFLICT_RESOLUTION", loser)
      BY <1>8
    <3>0. a.id[2] = i.line /\ b.id[2] = j.line
      BY <3>1, <3>2
    <3>3. i.line = j.line
      BY ONLY <2>2, <3>0
    <3>4. i = j
      BY <1>1, <3>3
    <3> QED BY <3>1, <3>2, <3>4
  <2>3. ASSUME NEW a \in A, NEW b \in B PROVE a.id # b.id
    <3>1. PICK i \in DOMAIN e.lines : a.id = <<n, i>>
      BY <1>7
    <3>2. PICK j \in e.missing : b.id = <<n, j.line>>
      BY <1>8
    <3>3. i # j.line
      BY <1>1
    <3> QED BY <3>1, <3>2, <3>3
  <2>4. y \in A \cup B /\ z \in A \cup B
    BY <1>4
  <2> QED BY <1>10, <2>1, <2>2, <2>3, <2>4
<1> QED BY <1>9, <1>10 DEF NamesOK

\* The needs stay as they are, or a resolution adds needs for an issue that was not applied.
Settles(l, p, n, q) ==
  \/ q.needs = p.needs
  \/ /\ NamesOK(q.needs) /\ \A c : Served(l, q.needs, c) <= Served(l, p.needs, c)
     /\ IsOpenConflict(p, l[n].loser) /\ l[n].loser \notin DOMAIN p.transactions
     /\ \A y \in q.needs : y \in p.needs \/ (y.id[1] = n /\ y.since = l[n].loser)

\* A resolution leaves the needs alone, or adds those that its loser asked for.
LEMMA ResolveServes ==
  ASSUME NEW l, NEW S0, S0 \subseteq Nat, NEW S, NEW n \in Nat, n \notin S0, S = S0 \cup {n},
         \A m \in S0 : IsCommand(l[m]), NEW p, Whole(p), NeedsOK(S0, p.needs), ConflictsOK(S0, p.conflicts),
         NamesOK(p.needs), ~ ResolveThrows(l, p, n), NEW q, q = Resolve(l, p, n), NeedsOK(S, q.needs)
  PROVE  Settles(l, p, n, q)
<1> USE DEF Settles
<1>e. PICK e : e = l[n]
  OBVIOUS
<1>2. CASE ~ IsOpenConflict(p, e.loser)
  BY <1>e, <1>2 DEF Resolve
<1>3. CASE IsOpenConflict(p, e.loser)
  <2>1. e.loser \in S0
    BY <1>3 DEF IsOpenConflict, ConflictsOK, IsConflict
  <2>4. q.needs = IF e.outcome = "RECORD_STILL_NEEDED" THEN p.needs \cup LostNeeds(l, n, e.loser) ELSE p.needs
    BY <1>e, <1>3 DEF Resolve, Whole
  <2>5. CASE e.outcome # "RECORD_STILL_NEEDED"
    BY <2>4, <2>5
  <2>6. CASE e.outcome = "RECORD_STILL_NEEDED"
    <3>1. l[e.loser].type = "ITEM_ISSUED" /\ e.loser \notin DOMAIN p.transactions
      BY <1>e, <1>3, <2>6 DEF ResolveThrows, IsLosingIssue
    <3>2. PICK F : F = LostNeeds(l, n, e.loser)
      OBVIOUS
    <3>3. e.loser \in Nat /\ IsCommand(l[e.loser])
      BY <2>1
    <3>4. NamesOK(F) /\ \A y \in F : y.id[1] = n /\ y.since = e.loser /\ y.fulfilled = 0
      BY <3>1, <3>2, <3>3, LostNames
    <3>5. ASSUME NEW x \in p.needs, NEW y \in F PROVE x.id # y.id
      <4>1. x.id[1] \in S0
        BY DEF NeedsOK, IsNeed
      <4>2. y.id[1] = n
        BY <3>4
      <4> QED BY <4>1, <4>2
    <3>6. PICK before, after : before = p.needs /\ after = q.needs
      OBVIOUS
    <3>7. /\ NeedsOK(S0, before) /\ NamesOK(before) /\ after = before \cup F /\ NeedsOK(S, after) /\ NamesOK(F)
          /\ (\A z \in F : z.fulfilled = 0) /\ \A x \in before : \A z \in F : x.id # z.id
      BY <2>4, <2>6, <3>2, <3>4, <3>5, <3>6
    <3>8. NamesOK(after) /\ \A c : Served(l, after, c) <= Served(l, before, c)
      BY ONLY <3>7, SomeMade
    <3>9. \A y \in q.needs : y \in p.needs \/ (y.id[1] = n /\ y.since = e.loser)
      BY <3>4, <3>6, <3>7
    <3> QED BY <1>3, <1>e, <3>1, <3>6, <3>8, <3>9
  <2> QED BY <2>5, <2>6
<1> QED BY <1>2, <1>3

-----------------------------------------------------------------------------
(* What keeps needs and issues apart.                                      *)

\* The conflict about an issue that lost is settled once and for all, and the issue is not applied.
SettledBy(p, loser, by) ==
  /\ loser \notin DOMAIN p.transactions /\ \E x \in p.conflicts : x.loser = loser
  /\ \A x \in p.conflicts : x.loser = loser => x.status = "RESOLVED" /\ x.by = by
LostOK(p) == \A need \in p.needs : need.source = "CONFLICT_RESOLUTION" => SettledBy(p, need.since, need.id[1])

NeedsFit(l, p) ==
  /\ NamesOK(p.needs) /\ LostOK(p)
  /\ \A c : Served(l, p.needs, c) <= IssuedTo(l, p.transactions, c)

\* A settled issue stays settled whatever else comes.
LEMMA SettledStays ==
  ASSUME NEW S, NEW n, n \notin S, NEW p, NEW q, ConflictAdded(p.conflicts, q.conflicts, n),
         Grows(p.transactions, q.transactions, n),
         NEW loser \in S, NEW by, SettledBy(p, loser, by)
  PROVE  SettledBy(q, loser, by)
BY DEF SettledBy, ConflictAdded, Grows

\* A resolution leaves settled issues settled, and settles the one it is about.
LEMMA SettledResolved ==
  ASSUME NEW l, NEW S, NEW n, NEW p, Whole(p), ConflictsOK(S, p.conflicts), NEW q, q = Resolve(l, p, n)
  PROVE  /\ \A loser, by : SettledBy(p, loser, by) => SettledBy(q, loser, by)
         /\ IsOpenConflict(p, l[n].loser) /\ l[n].loser \notin DOMAIN p.transactions => SettledBy(q, l[n].loser, n)
<1>e. PICK e : e = l[n]
  OBVIOUS
<1>1. CASE ~ IsOpenConflict(p, e.loser)
  BY <1>e, <1>1 DEF Resolve
<1>2. CASE IsOpenConflict(p, e.loser)
  <2>1. q.transactions = p.transactions /\ q.conflicts =
          {IF x.loser = e.loser THEN [x EXCEPT !.status = "RESOLVED", !.by = n, !.outcome = e.outcome] ELSE x : x \in p.conflicts}
    BY <1>e, <1>2 DEF Resolve, Whole
  <2>2. PICK h : h = [x \in p.conflicts |-> IF x.loser = e.loser
                        THEN [x EXCEPT !.status = "RESOLVED", !.by = n, !.outcome = e.outcome] ELSE x]
    OBVIOUS
  <2>3. q.conflicts = {h[x] : x \in p.conflicts}
    BY <2>1, <2>2
  <2>4. ASSUME NEW x \in p.conflicts
        PROVE  /\ h[x].loser = x.loser
               /\ x.loser = e.loser => h[x].status = "RESOLVED" /\ h[x].by = n
               /\ x.loser # e.loser => h[x] = x
    <3>1. IsConflict(S, x)
      BY DEF ConflictsOK
    <3> QED BY <2>2, <3>1 DEF IsConflict
  <2>5. ASSUME NEW loser, NEW by, SettledBy(p, loser, by) PROVE SettledBy(q, loser, by)
    <3>1. loser # e.loser
      BY <1>2, <2>5 DEF SettledBy, IsOpenConflict
    <3>2. \A y \in q.conflicts : y.loser = loser => y \in p.conflicts
      BY <2>3, <2>4, <3>1
    <3>3. \E y \in q.conflicts : y.loser = loser
      BY <2>3, <2>4, <2>5 DEF SettledBy
    <3> QED BY <2>1, <2>5, <3>2, <3>3 DEF SettledBy
  <2>6. ASSUME e.loser \notin DOMAIN p.transactions PROVE SettledBy(q, e.loser, n)
    <3>1. PICK x \in p.conflicts : x.loser = e.loser
      BY <1>2 DEF IsOpenConflict
    <3>2. h[x] \in q.conflicts /\ h[x].loser = e.loser
      BY <2>3, <2>4, <3>1
    <3>3. \A y \in q.conflicts : y.loser = e.loser => y.status = "RESOLVED" /\ y.by = n
      BY <2>3, <2>4
    <3> QED BY <2>1, <2>6, <3>2, <3>3 DEF SettledBy
  <2> QED BY <1>e, <2>5, <2>6
<1> QED BY <1>1, <1>2

\* Needs that were there before, and others that no resolution made.
LEMMA LostStays ==
  ASSUME NEW S, NEW n, n \notin S, NEW p, NeedsOK(S, p.needs), LostOK(p), NEW q,
         ConflictAdded(p.conflicts, q.conflicts, n),
         Grows(p.transactions, q.transactions, n),
         \A y \in q.needs : y.source # "CONFLICT_RESOLUTION" \/ \E x \in p.needs : Follows(x, y)
  PROVE  LostOK(q)
<1> SUFFICES ASSUME NEW y \in q.needs, y.source = "CONFLICT_RESOLUTION" PROVE SettledBy(q, y.since, y.id[1])
  BY DEF LostOK
<1>1. PICK x \in p.needs : Follows(x, y)
  OBVIOUS
<1>2. x.source = "CONFLICT_RESOLUTION" /\ y.since = x.since /\ y.id[1] = x.id[1] /\ x.since \in S
  BY <1>1 DEF Follows, NeedsOK, IsNeed
<1>3. SettledBy(p, x.since, x.id[1])
  BY <1>2 DEF LostOK
<1>4. PICK loser, by : loser = x.since /\ by = x.id[1]
  OBVIOUS
<1>5. n \notin S /\ ConflictAdded(p.conflicts, q.conflicts, n) /\ Grows(p.transactions, q.transactions, n)
  OBVIOUS
<1>6. loser \in S /\ SettledBy(p, loser, by)
  BY <1>2, <1>3, <1>4
<1>7. SettledBy(q, loser, by)
  BY ONLY <1>5, <1>6, SettledStays
<1> QED BY <1>2, <1>4, <1>7

\* No event that is not an issue serves a need, and none takes an issue back.
LEMMA FitStays ==
  ASSUME NEW l, NEW S, IsFiniteSet(S), NEW n, \A m \in S : IsCommand(l[m]), l[n].type # "ITEM_ISSUED", NEW p, NeedsOK(S, p.needs),
         DOMAIN p.transactions \subseteq S, NeedsFit(l, p), NEW q, NeedsOK(S \cup {n}, q.needs),
         Grows(p.transactions, q.transactions, n),
         NamesOK(q.needs), LostOK(q), \A c : Served(l, q.needs, c) <= Served(l, p.needs, c)
  PROVE  NeedsFit(l, q)
<1>1. ASSUME NEW c PROVE Served(l, q.needs, c) <= IssuedTo(l, q.transactions, c)
  <2>1. IssuedTo(l, q.transactions, c) = IssuedTo(l, p.transactions, c)
    <3>1. PICK tr, tr2 : tr = p.transactions /\ tr2 = q.transactions
      OBVIOUS
    <3>2. l[n].type # "ITEM_ISSUED" /\ Grows(tr, tr2, n)
      BY <3>1
    <3>3. IssuedTo(l, tr2, c) = IssuedTo(l, tr, c)
      BY ONLY <3>2, IssuedSame
    <3> QED BY <3>1, <3>3
  <2>2. IssuedTo(l, p.transactions, c) \in Nat /\ Served(l, p.needs, c) \in Nat /\ Served(l, q.needs, c) \in Nat
    BY IssuedIs, ServedIs
  <2>3. Served(l, p.needs, c) <= IssuedTo(l, p.transactions, c) /\ Served(l, q.needs, c) <= Served(l, p.needs, c)
    BY DEF NeedsFit
  <2> QED BY <2>1, <2>2, <2>3
<1> QED BY <1>1 DEF NeedsFit

-----------------------------------------------------------------------------
(* Needs and issues stay matched when an event has its effect.             *)

FitEffectPart(l, S, n, p, q) ==
  /\ S \subseteq Nat /\ IsFiniteSet(S) /\ n \in Nat /\ n \notin S
  /\ Whole(p) /\ IsCommand(l[n]) /\ \A m \in S : IsCommand(l[m])
  /\ ItemsOK(S, p.items) /\ HeldOK(S, p.held) /\ NeedsOK(S, p.needs) /\ ConflictsOK(S, p.conflicts)
  /\ DOMAIN p.transactions \subseteq S /\ NeedsFit(l, p) /\ NeedsOK(S \cup {n}, q.needs)

\* An issue serves no more than it hands out.
LEMMA FitIssue ==
  ASSUME NEW l, NEW S, NEW n, NEW p, NEW q, FitEffectPart(l, S, n, p, q),
         l[n].type = "ITEM_ISSUED", q = IssueTransaction(l, p, n), ConflictAdded(p.conflicts, q.conflicts, n)
  PROVE  NeedsFit(l, q)
<1>0. /\ S \subseteq Nat /\ IsFiniteSet(S) /\ n \in Nat /\ n \notin S
      /\ Whole(p) /\ IsCommand(l[n]) /\ (\A m \in S : IsCommand(l[m]))
      /\ ItemsOK(S, p.items) /\ HeldOK(S, p.held) /\ NeedsOK(S, p.needs) /\ NeedsOK(S \cup {n}, q.needs)
  BY DEF FitEffectPart
<1>1. DOMAIN p.transactions \subseteq S /\ NamesOK(p.needs) /\ LostOK(p)
      /\ \A c : Served(l, p.needs, c) <= IssuedTo(l, p.transactions, c)
  BY DEF FitEffectPart, NeedsFit
<1>2. PICK R : R = S \cup {n}
  OBVIOUS
<1>3. \/ q.needs = p.needs /\ q.transactions = p.transactions
      \/ /\ NamesOK(q.needs)
         /\ \A y \in q.needs : y.source = "INCOMPLETE_ISSUE" \/ \E x \in p.needs : Follows(x, y)
         /\ \A c : Served(l, q.needs, c) <=
                Served(l, p.needs, c) + (IF c = l[n].cadet THEN Total(l[n].lines, DOMAIN l[n].lines) ELSE 0)
         /\ \E t : q.transactions = Joined(p.transactions, n, t)
  BY <1>0, <1>1, <1>2, IssueServes
<1>4. Grows(p.transactions, q.transactions, n)
  BY <1>3 DEF Grows, Joined
<1>5. \A y \in q.needs : y.source # "CONFLICT_RESOLUTION" \/ \E x \in p.needs : Follows(x, y)
  BY <1>3 DEF Follows
<1>6. LostOK(q)
  BY <1>0, <1>1, <1>4, <1>5, LostStays
<1>7. CASE q.needs = p.needs /\ q.transactions = p.transactions
  BY <1>1, <1>6, <1>7 DEF NeedsFit
<1>8. CASE ~ (q.needs = p.needs /\ q.transactions = p.transactions)
  <2>1. PICK t : q.transactions = Joined(p.transactions, n, t)
    BY <1>3, <1>8
  <2>2. PICK tr, tr2 : tr = p.transactions /\ tr2 = Joined(tr, n, t)
    OBVIOUS
  <2>3. ASSUME NEW c PROVE Served(l, q.needs, c) <= IssuedTo(l, q.transactions, c)
    <3>1. PICK k : k = IF c = l[n].cadet THEN Units(l[n]) ELSE 0
      OBVIOUS
    <3>2. IssuedTo(l, tr2, c) = IssuedTo(l, tr, c) + k
      <4>1. /\ IsFiniteSet(S) /\ (\A m \in S : IsCommand(l[m])) /\ DOMAIN tr \subseteq S
            /\ n \notin S /\ IsCommand(l[n]) /\ l[n].type = "ITEM_ISSUED"
        BY <1>0, <1>1, <2>2
      <4>2. tr2 = Joined(tr, n, t)
        BY <2>2
      <4>3. IssuedTo(l, tr2, c) = IssuedTo(l, tr, c) + (IF c = l[n].cadet THEN Units(l[n]) ELSE 0)
        BY ONLY <4>1, <4>2, IssuedMore
      <4> QED BY <3>1, <4>3
    <3>3. Served(l, q.needs, c) <= Served(l, p.needs, c) + k
      BY <1>3, <1>8, <3>1 DEF Units
    <3>4. k \in Nat
      BY <1>0, <3>1, UnitsIs
    <3>5. Served(l, q.needs, c) \in Nat /\ Served(l, p.needs, c) \in Nat
      BY <1>0, ServedIs
    <3>6. IssuedTo(l, tr, c) \in Nat
      BY <1>0, <1>1, <2>2, IssuedIs
    <3>7. Served(l, p.needs, c) <= IssuedTo(l, tr, c)
      BY <1>1, <2>2
    <3>8. PICK a, b, s : a = Served(l, q.needs, c) /\ b = Served(l, p.needs, c) /\ s = IssuedTo(l, tr, c)
      OBVIOUS
    <3>9. a <= s + k
      BY <3>3, <3>4, <3>5, <3>6, <3>7, <3>8
    <3> QED BY <2>1, <2>2, <3>2, <3>8, <3>9
  <2> QED BY <1>3, <1>6, <1>8, <2>3 DEF NeedsFit
<1> QED BY <1>7, <1>8

\* Whatever serves nothing and issues nothing.
LEMMA FitOther ==
  ASSUME NEW l, NEW S, NEW n, NEW p, NEW q, FitEffectPart(l, S, n, p, q),
         l[n].type # "ITEM_ISSUED", Grows(p.transactions, q.transactions, n), LostOK(q),
         NamesOK(q.needs), \A c : Served(l, q.needs, c) <= Served(l, p.needs, c)
  PROVE  NeedsFit(l, q)
BY FitStays DEF FitEffectPart

\* The needs stay as they are.
LEMMA FitSame ==
  ASSUME NEW l, NEW S, NEW n, NEW p, NEW q, FitEffectPart(l, S, n, p, q),
         l[n].type # "ITEM_ISSUED", Grows(p.transactions, q.transactions, n), q.needs = p.needs,
         LostOK(q)
  PROVE  NeedsFit(l, q)
<1>1. NeedsOK(S, p.needs) /\ NamesOK(p.needs)
  BY DEF FitEffectPart, NeedsFit
<1>2. \A c : Served(l, q.needs, c) <= Served(l, p.needs, c)
  BY <1>1, ServedIs
<1> QED BY <1>1, <1>2, FitOther

\* A resolution settles one issue, which was not applied.
LEMMA FitResolve ==
  ASSUME NEW l, NEW S, NEW n, NEW p, NEW q, FitEffectPart(l, S, n, p, q),
         l[n].type = "CONFLICT_RESOLVED", ~ ResolveThrows(l, p, n), q = Resolve(l, p, n),
         Grows(p.transactions, q.transactions, n)
  PROVE  NeedsFit(l, q)
<1>0. /\ S \subseteq Nat /\ n \in Nat /\ n \notin S /\ Whole(p) /\ (\A m \in S : IsCommand(l[m]))
      /\ NeedsOK(S, p.needs) /\ ConflictsOK(S, p.conflicts) /\ NeedsOK(S \cup {n}, q.needs)
      /\ NamesOK(p.needs) /\ LostOK(p)
  BY DEF FitEffectPart, NeedsFit
<1>1. PICK R : R = S \cup {n}
  OBVIOUS
<1>2. Settles(l, p, n, q)
  <2>1. /\ S \subseteq Nat /\ n \in Nat /\ n \notin S /\ R = S \cup {n} /\ Whole(p) /\ (\A m \in S : IsCommand(l[m]))
        /\ NeedsOK(S, p.needs) /\ ConflictsOK(S, p.conflicts) /\ NamesOK(p.needs)
        /\ ~ ResolveThrows(l, p, n) /\ q = Resolve(l, p, n) /\ NeedsOK(R, q.needs)
    BY <1>0, <1>1
  <2> QED BY ONLY <2>1, ResolveServes
<1>3. /\ \A loser, by : SettledBy(p, loser, by) => SettledBy(q, loser, by)
      /\ (IsOpenConflict(p, l[n].loser) /\ l[n].loser \notin DOMAIN p.transactions) => SettledBy(q, l[n].loser, n)
  BY <1>0, SettledResolved
<1>4. CASE q.needs = p.needs
  <2>1. LostOK(q)
    BY <1>0, <1>3, <1>4 DEF LostOK
  <2> QED BY <1>4, <2>1, FitSame
<1>5. CASE q.needs # p.needs
  <2>1. LostOK(q)
    BY <1>0, <1>2, <1>3, <1>5 DEF LostOK, Settles
  <2> QED BY <1>2, <1>5, <2>1, FitOther DEF Settles
<1> QED BY <1>4, <1>5

\* Every event keeps needs and issues matched.
LEMMA FitEffect ==
  ASSUME NEW l, NEW S, NEW all, NEW p, NEW n, Typed(l, S, p), Next1(l, S, all, p, n), NeedsFit(l, p),
         NEW q, q = Effect(l, p, n)
  PROVE  NeedsFit(l, q)
<1> DEFINE t == l[n].type
<1>0. /\ Whole(p) /\ IsCommand(l[n]) /\ ~ Throws(l, all, p, n) /\ Newest(l, S, n)
      /\ (\A m \in S : IsCommand(l[m])) /\ n \notin S /\ NeedsOK(S, p.needs) /\ ConflictsOK(S, p.conflicts)
  BY DEF Typed, Next1, Newest
<1>1. S \subseteq Nat /\ n \in Nat /\ IsFiniteSet(S \cup {n})
  BY <1>0 DEF Newest, Placed
<1>2. IsFiniteSet(S)
  BY <1>1, FS_Subset
<1>3. NeedsOK(S \cup {n}, q.needs)
  BY NeedsEffect
<1>4. DOMAIN p.transactions \subseteq S
  BY DEF Typed, TransactionsOK, IsTransaction
<1>5. FitEffectPart(l, S, n, p, q)
  BY <1>0, <1>1, <1>2, <1>3, <1>4 DEF FitEffectPart, Typed
<1>6. NamesOK(p.needs) /\ LostOK(p)
  BY DEF NeedsFit
<1>7. t # "CONFLICT_RESOLVED" => ConflictAdded(p.conflicts, q.conflicts, n)
  BY <1>0, EffectConflicts
<1>8. t # "ITEM_ISSUED" => Grows(p.transactions, q.transactions, n)
  BY <1>0, RecordsGrow
<1>9. CASE t = "ITEM_ISSUED"
  <2>1. q = IssueTransaction(l, p, n)
    BY <1>9 DEF Effect, CountEvents, CalendarEvents, NeedChanges
  <2> QED BY <1>5, <1>7, <1>9, <2>1, FitIssue
<1>10. CASE t = "CONFLICT_RESOLVED"
  <2>1. q = Resolve(l, p, n)
    BY <1>10 DEF Effect, CountEvents, CalendarEvents, NeedChanges
  <2>2. ~ ResolveThrows(l, p, n)
    BY <1>0, <1>10, WhatThrows
  <2> QED BY <1>5, <1>8, <1>10, <2>1, <2>2, FitResolve
<1>11. CASE t = "STILL_NEEDED_ADDED"
  <2>1. q = AddNeed(l, p, n)
    BY <1>11 DEF Effect, CountEvents, CalendarEvents, NeedChanges
  <2>2. PICK R : R = S \cup {n}
    OBVIOUS
  <2>3. /\ NamesOK(q.needs) /\ \A c : Served(l, q.needs, c) <= Served(l, p.needs, c)
        /\ \A y \in q.needs : y.source = "MANUAL" \/ \E x \in p.needs : Follows(x, y)
    BY <1>0, <1>1, <1>3, <1>6, <2>1, <2>2, AddNeedServes
  <2>4. \A y \in q.needs : y.source # "CONFLICT_RESOLUTION" \/ \E x \in p.needs : Follows(x, y)
    BY <2>3
  <2>5. Grows(p.transactions, q.transactions, n) /\ ConflictAdded(p.conflicts, q.conflicts, n)
    BY <1>7, <1>8, <1>11
  <2>6. LostOK(q)
    BY <1>0, <1>6, <2>4, <2>5, LostStays
  <2> QED BY <1>5, <1>11, <2>3, <2>5, <2>6, FitOther
<1>12. CASE t \in NeedChanges
  <2>1. q = ChangeNeed(l, p, n)
    BY <1>12 DEF Effect, CountEvents, CalendarEvents, NeedChanges
  <2>2. ~ ChangeNeedThrows(l, p, n)
    BY <1>0, <1>12, WhatThrows
  <2>3. PICK R : R = S \cup {n}
    OBVIOUS
  <2>4. \/ q.needs = p.needs
        \/ /\ NamesOK(q.needs) /\ Descends(p.needs, q.needs)
           /\ \A c : Served(l, q.needs, c) <= Served(l, p.needs, c)
    BY <1>0, <1>3, <1>6, <1>12, <2>1, <2>2, <2>3, ChangeNeedServes
  <2>5. \A y \in q.needs : y.source # "CONFLICT_RESOLUTION" \/ \E x \in p.needs : Follows(x, y)
    BY <2>4 DEF Descends, Follows
  <2>6. t # "ITEM_ISSUED" /\ t # "CONFLICT_RESOLVED"
    BY <1>12 DEF NeedChanges
  <2>7. Grows(p.transactions, q.transactions, n) /\ ConflictAdded(p.conflicts, q.conflicts, n)
    BY <1>7, <1>8, <2>6
  <2>8. LostOK(q)
    BY <1>0, <1>6, <2>5, <2>7, LostStays
  <2>9. CASE q.needs = p.needs
    BY <1>5, <2>6, <2>7, <2>8, <2>9, FitSame
  <2>10. CASE q.needs # p.needs
    BY <1>5, <2>4, <2>6, <2>7, <2>8, <2>10, FitOther
  <2> QED BY <2>9, <2>10
<1>13. CASE t \notin {"ITEM_ISSUED", "STILL_NEEDED_ADDED", "CONFLICT_RESOLVED"} \cup NeedChanges
  <2>1. q.needs = p.needs
    BY <1>0, <1>13, EffectKeeps
  <2>2. \A y \in q.needs : y.source # "CONFLICT_RESOLUTION" \/ \E x \in p.needs : Follows(x, y)
    BY <2>1 DEF Follows
  <2>3. t # "ITEM_ISSUED" /\ t # "CONFLICT_RESOLVED"
    BY <1>13
  <2>4. Grows(p.transactions, q.transactions, n) /\ ConflictAdded(p.conflicts, q.conflicts, n)
    BY <1>7, <1>8, <2>3
  <2>5. LostOK(q)
    BY <1>0, <1>6, <2>2, <2>4, LostStays
  <2> QED BY <1>5, <2>1, <2>3, <2>4, <2>5, FitSame
<1> QED BY <1>9, <1>10, <1>11, <1>12, <1>13

\* The fold keeps needs and issues matched.
LEMMA FitKept ==
  ASSUME NEW l, NEW S, NEW all, NEW p, NEW n, Settled(l, S, p), NeedsFit(l, p), NEW q,
         \/ Refused(p, n, q)
         \/ Next1(l, S, all, p, n) /\ Accepted(l, all, p, n, Effect(l, p, n), q)
  PROVE  NeedsFit(l, q)
<1>0. ASSUME NEW a, NEW b, NeedsFit(l, a), Alike(a, b) PROVE NeedsFit(l, b)
  <2>1. b.needs = a.needs /\ b.transactions = a.transactions /\ b.conflicts = a.conflicts
    BY <1>0 DEF Alike
  <2> QED BY <1>0, <2>1 DEF NeedsFit, LostOK, SettledBy
<1>1. CASE Refused(p, n, q)
  BY <1>0, <1>1 DEF Refused
<1>2. CASE Next1(l, S, all, p, n) /\ Accepted(l, all, p, n, Effect(l, p, n), q)
  <2>1. PICK r : r = Effect(l, p, n)
    OBVIOUS
  <2>2. Typed(l, S, p)
    BY DEF Settled
  <2>3. NeedsFit(l, r)
    BY <1>2, <2>1, <2>2, FitEffect
  <2> QED BY <1>0, <1>2, <2>1, <2>3 DEF Accepted
<1> QED BY <1>1, <1>2

\* Without events, no need was served.
LEMMA GenesisFits ==
  ASSUME NEW l
  PROVE  NeedsFit(l, Genesis)
<1>1. Genesis.needs = {} /\ DOMAIN Genesis.transactions = {}
  BY DEF Genesis
<1>2. PICK tr : tr = Genesis.transactions
  OBVIOUS
<1>3. ASSUME NEW c PROVE Served(l, {}, c) <= IssuedTo(l, tr, c)
  <2>1. NeedsOf(l, {}, c) = {} /\ IssuesTo(l, tr, c) = {}
    BY <1>1, <1>2 DEF NeedsOf, IssuesTo
  <2>2. Amounts(Fulfilled({}), {}) /\ Amounts(UnitsOf(l, DOMAIN tr), {})
    BY FS_EmptySet DEF Amounts
  <2>3. Total(Fulfilled({}), {}) = 0 /\ Total(UnitsOf(l, DOMAIN tr), {}) = 0
    BY ONLY <2>2, TotalStep
  <2>4. Served(l, {}, c) = 0 /\ IssuedTo(l, tr, c) = 0
    BY <2>1, <2>3 DEF Served, IssuedTo
  <2> QED BY <2>4
<1> QED BY <1>1, <1>2, <1>3 DEF NeedsFit, NamesOK, LostOK

\* The fold of all events keeps needs and issues matched.
LEMMA RebuildFits ==
  ASSUME NEW l, NEW all, Placed(l, all), \A n \in all : IsCommand(l[n])
  PROVE  NeedsFit(l, Rebuild(l, all))
<1>2. PICK f : Folds(f, l, all) /\ f[all] = Rebuild(l, all)
  BY RebuildFolds
<1> DEFINE P == {T \in SUBSET all : Settled(l, T, f[T]) /\ NeedsFit(l, f[T])}
<1>3. {} \in P
  <2>1. f[{}] = Genesis
    BY <1>2 DEF Folds
  <2> QED BY <2>1, GenesisFits, GenesisSettled
<1>4. ASSUME NEW T \in P, NEW n \in all, Newest(l, T, n) PROVE T \cup {n} \in P
  <2>1. T \in SUBSET all /\ Settled(l, T, f[T]) /\ NeedsFit(l, f[T])
    OBVIOUS
  <2>2. PICK p, q : p = f[T] /\ q = f[T \cup {n}]
    OBVIOUS
  <2>3. q = TryApply(l, all, p, n)
    BY <1>2, <1>4, <2>1, <2>2, FoldsNext
  <2>4. /\ Settled(l, T \cup {n}, q)
        /\ \/ Throws(l, all, p, n) /\ Refused(p, n, q)
           \/ Next1(l, T, all, p, n) /\ Accepted(l, all, p, n, Effect(l, p, n), q)
    BY <1>4, <2>1, <2>2, <2>3, SettledKept
  <2>5. NeedsFit(l, q)
    BY <2>1, <2>2, <2>4, FitKept
  <2> QED BY <2>1, <2>2, <2>4, <2>5
<1>5. P \in SUBSET (SUBSET all)
  OBVIOUS
<1> HIDE DEF P
<1>6. all \in P
  BY <1>3, <1>4, <1>5, FoldInduction
<1> QED BY <1>2, <1>6 DEF P

\* What was issued and served, said of the log.
UnitsServed(p, c) ==
  SumFunction([need \in {need \in p.needs : need.cadet = c /\ ~ServedByHand(need)} |-> need.fulfilled])
UnitsIssued(p, c) ==
  SumFunction([n \in {n \in DOMAIN p.transactions : log[n].type = "ITEM_ISSUED" /\ log[n].cadet = c} |->
                 SumFunction(log[n].lines)])

\* The log says the same of what was served and issued as the events that were folded.
LEMMA ServedInLog ==
  ASSUME NEW l, NEW S, IsFiniteSet(S), \A k \in S : l[k] = log[k], \A m \in S : IsCommand(l[m]),
         NEW p, NeedsOK(S, p.needs), DOMAIN p.transactions \subseteq S, NEW c
  PROVE  Served(l, p.needs, c) = UnitsServed(p, c) /\ IssuedTo(l, p.transactions, c) = UnitsIssued(p, c)
<1>1. ASSUME NEW need \in p.needs PROVE HandServed(l, need) <=> ServedByHand(need)
  <2>1. need.applied \in Seq(S)
    BY DEF NeedsOK, IsNeed
  <2>2. ToSet(need.applied) \subseteq S
    <3>1. PICK a \in Seq(S) : a = need.applied
      BY <2>1
    <3>2. \A k \in 1 .. Len(a) : a[k] \in S
      BY LenProperties, ElementOfSeq
    <3> QED BY <3>1, <3>2, LenProperties DEF ToSet
  <2> QED BY <2>2 DEF HandServed, ServedByHand
<1>2. PICK N : N = {need \in p.needs : need.cadet = c /\ ~ServedByHand(need)}
  OBVIOUS
<1>3. NeedsOf(l, p.needs, c) = N
  BY <1>1, <1>2 DEF NeedsOf
<1>4. PICK v, w : v = [need \in N |-> need.fulfilled] /\ w = [x \in N |-> Fulfilled(p.needs)[x]]
  OBVIOUS
<1>5. \A x \in N : v[x] = w[x]
  BY <1>2, <1>4 DEF Fulfilled
<1>6. v = w
  BY <1>4, <1>5
<1>7. Served(l, p.needs, c) = SumFunction([need \in N |-> need.fulfilled])
  BY <1>3, <1>4, <1>6 DEF Served, Total
<1>8. PICK I : I = {n \in DOMAIN p.transactions : log[n].type = "ITEM_ISSUED" /\ log[n].cadet = c}
  OBVIOUS
<1>9. IssuesTo(l, p.transactions, c) = I
  BY <1>8 DEF IssuesTo
<1>10. PICK a, b : a = [n \in I |-> SumFunction(log[n].lines)] /\ b = [x \in I |-> UnitsOf(l, DOMAIN p.transactions)[x]]
  OBVIOUS
<1>11. ASSUME NEW n \in I PROVE a[n] = b[n]
  <2>1. n \in DOMAIN p.transactions /\ n \in S /\ l[n] = log[n] /\ log[n].type = "ITEM_ISSUED" /\ IsCommand(l[n])
    BY <1>8
  <2>2. SumFunction(l[n].lines) = Units(l[n])
    BY <2>1, UnitsIs
  <2> QED BY <1>10, <2>1, <2>2 DEF UnitsOf
<1>12. a = b
  BY <1>10, <1>11
<1>13. IssuedTo(l, p.transactions, c) = SumFunction([n \in I |-> SumFunction(log[n].lines)])
  BY <1>9, <1>10, <1>12 DEF IssuedTo, Total
<1> QED BY <1>2, <1>7, <1>8, <1>13 DEF UnitsServed, UnitsIssued

\* The invariant keeps needs and issues matched.
LEMMA InvNeedsMatchIssues ==
  ASSUME RecordsInv
  PROVE  NeedsMatchIssues
<1>0. ASSUME NEW d \in Device
      PROVE  \E l : /\ \A k \in known[d] : l[k] = log[k]
                    /\ Placed(l, known[d]) /\ (\A n \in known[d] : IsCommand(l[n]))
                    /\ Typed(l, known[d], projection[d]) /\ NeedsFit(l, projection[d])
  <2>1. PICK l : (\A k \in known[d] : l[k] = log[k]) /\ Shows(l, seen, known[d], projection[d])
    BY WhatIsShown DEF RecordsInv
  <2>2. /\ Placed(l, known[d]) /\ projection[d] = Rebuild(l, known[d]) /\ (\A n \in known[d] : IsCommand(l[n]))
        /\ Typed(l, known[d], projection[d])
    BY <2>1 DEF Shows, Commands, SignedAt, Settled
  <2>3. NeedsFit(l, projection[d])
    BY <2>2, RebuildFits
  <2> QED BY <2>1, <2>2, <2>3
<1>1. NoUnitServedTwice
  <2> SUFFICES ASSUME NEW d \in Device, NEW c \in Cadet, NEW p, p = projection[d]
               PROVE  UnitsServed(p, c) <= UnitsIssued(p, c)
    BY DEF NoUnitServedTwice, UnitsServed, UnitsIssued
  <2>1. PICK S : S = known[d]
    OBVIOUS
  <2>2. PICK l : /\ \A k \in S : l[k] = log[k]
                 /\ Placed(l, S) /\ (\A n \in S : IsCommand(l[n])) /\ Typed(l, S, p) /\ NeedsFit(l, p)
    BY <1>0, <2>1
  <2>3. NeedsOK(S, p.needs) /\ DOMAIN p.transactions \subseteq S /\ IsFiniteSet(S)
    BY <2>2 DEF Typed, TransactionsOK, IsTransaction, Placed
  <2>4. Served(l, p.needs, c) <= IssuedTo(l, p.transactions, c)
    BY <2>2 DEF NeedsFit
  <2>5. /\ IsFiniteSet(S) /\ (\A k \in S : l[k] = log[k]) /\ (\A m \in S : IsCommand(l[m]))
        /\ NeedsOK(S, p.needs) /\ DOMAIN p.transactions \subseteq S
    BY <2>2, <2>3
  <2>6. Served(l, p.needs, c) = UnitsServed(p, c) /\ IssuedTo(l, p.transactions, c) = UnitsIssued(p, c)
    BY ONLY <2>5, ServedInLog
  <2> QED BY ONLY <2>4, <2>6
<1>2. NotBothIssuedAndNeeded
  <2> SUFFICES ASSUME NEW d \in Device, NEW need \in projection[d].needs, need.source = "CONFLICT_RESOLUTION"
               PROVE  /\ need.since \notin DOMAIN projection[d].transactions
                      /\ \A other \in projection[d].needs :
                           other.source = "CONFLICT_RESOLUTION" /\ other.since = need.since => other.id[1] = need.id[1]
    BY DEF NotBothIssuedAndNeeded
  <2>1. LostOK(projection[d])
    BY <1>0 DEF NeedsFit
  <2> QED BY <2>1 DEF LostOK, SettledBy
<1> QED BY <1>1, <1>2 DEF NeedsMatchIssues

\* No unit serves two needs, and no lost issue is both issued and still needed.
THEOREM NeedsAreMatched == Spec => []NeedsMatchIssues
BY RecordsInvariant, InvNeedsMatchIssues, PTL
=============================================================================
