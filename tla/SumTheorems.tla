---------------------------- MODULE SumTheorems -----------------------------
(***************************************************************************)
(* What MapThenSumSet adds up to, for every finite set: the models total   *)
(* stock, refunds and reservations with it, and the prover knows nothing   *)
(* of the recursive function it is built from. The library's induction     *)
(* theorems take an operator, so the induction is done by hand: among the  *)
(* finite sets of which a statement is false there would be a least one.   *)
(***************************************************************************)
EXTENDS Integers, FiniteSetsExt, FiniteSetTheorems, WellFoundedInduction, TLAPS

(* The sum of f over S, f a function. *)
SumOver(f, S) == MapThenSumSet(LAMBDA x : f[x], S)

(* The element MapThenSumSet takes out first. *)
PickFrom(S) == CHOOSE x \in S : TRUE

(* g is the recursive function of partial sums that MapThenSumSet builds.  *)
Totals(f, S, g) ==
  g = [s \in SUBSET S |-> IF s = {} THEN 0 ELSE f[PickFrom(s)] + g[s \ {PickFrom(s)}]]

(* A sum is the last of its partial sums. *)
LEMMA SumIsTotal ==
  ASSUME NEW f, NEW S
  PROVE  SumOver(f, S) = (CHOOSE g : Totals(f, S, g))[S]
BY DEF SumOver, MapThenSumSet, MapThenFoldSet, Totals, PickFrom

(* A nonempty set of finite sets has one that no other is strictly within. *)
LEMMA LeastSet ==
  ASSUME NEW Z, Z # {}, \A s \in Z : IsFiniteSet(s)
  PROVE  \E s \in Z : \A t \in Z : t \subseteq s => t = s
<1> DEFINE U == UNION Z
<1>1. IsWellFoundedOn(StrictSubsetOrdering(U), FiniteSubsetsOf(U))
  BY FS_StrictSubsetOrderingWellFounded
<1>2. Z \subseteq FiniteSubsetsOf(U)
  BY DEF FiniteSubsetsOf
<1>3. PICK s \in Z : \A t \in Z : <<t, s>> \notin StrictSubsetOrdering(U)
  BY <1>1, <1>2, WFMin
<1> QED
  BY <1>3 DEF StrictSubsetOrdering

(* One step of the recursion. *)
TotalStep(f, g, s) == IF s = {} THEN 0 ELSE f[PickFrom(s)] + g[s \ {PickFrom(s)}]

(* What is picked from a nonempty set is one of its elements. *)
LEMMA PickFromIn ==
  ASSUME NEW S, S # {}
  PROVE  PickFrom(S) \in S
BY DEF PickFrom

(* Partial sums obey the recursion at every subset. *)
LEMMA TotalsAt ==
  ASSUME NEW f, NEW S, NEW g, Totals(f, S, g), NEW s \in SUBSET S
  PROVE  g[s] = TotalStep(f, g, s)
BY DEF Totals, TotalStep

(* Two solutions agree wherever both are defined. *)
LEMMA TotalsAgree ==
  ASSUME NEW f, NEW S, NEW T, NEW g, NEW h, Totals(f, S, g), Totals(f, T, h),
         NEW s, s \subseteq S, s \subseteq T, IsFiniteSet(s)
  PROVE  g[s] = h[s]
<1> DEFINE Z == {t \in SUBSET s : g[t] # h[t]}
<1>1. CASE Z = {}
  BY <1>1
<1>2. CASE Z # {}
  <2>1. \A t \in Z : IsFiniteSet(t)
    BY FS_Subset
  <2>2. PICK t \in Z : \A u \in Z : u \subseteq t => u = t
    <3> HIDE DEF Z
    <3> QED
      BY <1>2, <2>1, LeastSet
  <2>3. t # {}
    BY <2>2, TotalsAt DEF TotalStep
  <2>4. PickFrom(t) \in t
    BY <2>3, PickFromIn
  <2>5. t \ {PickFrom(t)} \notin Z
    BY <2>2, <2>4
  <2>6. g[t \ {PickFrom(t)}] = h[t \ {PickFrom(t)}]
    BY <2>5
  <2>7. g[t] = TotalStep(f, g, t) /\ h[t] = TotalStep(f, h, t)
    BY TotalsAt
  <2> QED
    BY <2>2, <2>6, <2>7 DEF TotalStep
<1> QED
  BY <1>1, <1>2

(* The partial sums that CHOOSE finds. *)
TheTotals(f, S) == CHOOSE g : Totals(f, S, g)

(* Every finite set has partial sums: the least one without could take     *)
(* those of its subsets.                                                   *)
LEMMA TheTotalsExist ==
  ASSUME NEW f, NEW S, IsFiniteSet(S)
  PROVE  Totals(f, S, TheTotals(f, S))
<1> DEFINE Z == {T \in SUBSET S : ~ \E g : Totals(f, T, g)}
<1>1. ASSUME Z # {} PROVE FALSE
  <2>1. \A T \in Z : IsFiniteSet(T)
    BY FS_Subset
  <2>2. PICK T \in Z : \A U \in Z : U \subseteq T => U = T
    <3> HIDE DEF Z
    <3> QED
      BY <1>1, <2>1, LeastSet
  <2>3. ASSUME NEW U, U \subseteq T, U # T PROVE Totals(f, U, TheTotals(f, U))
    <3>1. \E g : Totals(f, U, g)
      BY <2>2, <2>3
    <3> QED
      BY <3>1 DEF TheTotals
  <2> DEFINE x == PickFrom(T)
             h == [s \in SUBSET T |->
                     IF s = T
                     THEN IF T = {} THEN 0 ELSE f[x] + TheTotals(f, T \ {x})[T \ {x}]
                     ELSE TheTotals(f, s)[s]]
  <2>4. ASSUME NEW s \in SUBSET T PROVE h[s] = TotalStep(f, h, s)
    <3>1. CASE s = {}
      <4>1. CASE T = {}
        BY <3>1, <4>1 DEF TotalStep
      <4>2. CASE T # {}
        <5>1. h[s] = TheTotals(f, {})[{}]
          BY <3>1, <4>2
        <5>2. Totals(f, {}, TheTotals(f, {}))
          BY <4>2, <2>3
        <5> QED
          BY <3>1, <5>1, <5>2, TotalsAt DEF TotalStep
      <4> QED
        BY <4>1, <4>2
    <3>2. CASE s # {}
      <4> DEFINE y == PickFrom(s)
      <4>1. y \in s /\ s \ {y} \in SUBSET T /\ s \ {y} # T /\ s \ {y} # s
        BY <3>2, PickFromIn
      <4>2. h[s \ {y}] = TheTotals(f, s \ {y})[s \ {y}]
        BY <4>1
      <4>3. CASE s = T
        BY <3>2, <4>2, <4>3 DEF TotalStep
      <4>4. CASE s # T
        <5>1. Totals(f, s, TheTotals(f, s)) /\ Totals(f, s \ {y}, TheTotals(f, s \ {y}))
          BY <2>3, <4>1, <4>4
        <5>2. IsFiniteSet(s \ {y})
          BY FS_Subset, <4>1
        <5>3. TheTotals(f, s)[s \ {y}] = TheTotals(f, s \ {y})[s \ {y}]
          BY <5>1, <5>2, TotalsAgree
        <5>4. TheTotals(f, s)[s] = TotalStep(f, TheTotals(f, s), s)
          BY <5>1, TotalsAt
        <5>5. h[s] = TheTotals(f, s)[s]
          BY <4>4
        <5> QED
          BY <3>2, <4>2, <5>3, <5>4, <5>5 DEF TotalStep
      <4> QED
        BY <4>3, <4>4
    <3> QED
      BY <3>1, <3>2
  <2>5. h = [s \in SUBSET T |-> h[s]]
    OBVIOUS
  <2> HIDE DEF h
  <2>6. Totals(f, T, h)
    BY <2>4, <2>5 DEF Totals, TotalStep
  <2> QED
    BY <2>2, <2>6
<1>2. \E g : Totals(f, S, g)
  BY <1>1
<1> QED
  BY <1>2 DEF TheTotals

-----------------------------------------------------------------------------
(* The sum over nothing is zero. *)
LEMMA SumEmpty == \A f : SumOver(f, {}) = 0
<1> SUFFICES ASSUME NEW f PROVE SumOver(f, {}) = 0
  OBVIOUS
<1>1. Totals(f, {}, TheTotals(f, {}))
  BY FS_EmptySet, TheTotalsExist
<1> QED
  BY <1>1, SumIsTotal, TotalsAt DEF TheTotals, TotalStep

(* The element picked first, and the rest. *)
LEMMA SumPick ==
  ASSUME NEW f, NEW S, IsFiniteSet(S), S # {}
  PROVE  SumOver(f, S) = f[PickFrom(S)] + SumOver(f, S \ {PickFrom(S)})
<1> DEFINE T == S \ {PickFrom(S)}
<1>1. IsFiniteSet(T)
  BY FS_Subset
<1>2. Totals(f, S, TheTotals(f, S)) /\ Totals(f, T, TheTotals(f, T))
  BY <1>1, TheTotalsExist
<1>3. TheTotals(f, S)[T] = TheTotals(f, T)[T]
  BY <1>1, <1>2, TotalsAgree
<1>4. TheTotals(f, S)[S] = f[PickFrom(S)] + TheTotals(f, S)[T]
  BY <1>2, TotalsAt DEF TotalStep
<1> QED
  BY <1>3, <1>4, SumIsTotal DEF TheTotals

(* A sum of integers is an integer. *)
THEOREM SumInt ==
  ASSUME NEW f, NEW S, IsFiniteSet(S), \A x \in S : f[x] \in Int
  PROVE  SumOver(f, S) \in Int
<1> DEFINE Z == {T \in SUBSET S : SumOver(f, T) \notin Int}
<1>1. ASSUME Z # {} PROVE FALSE
  <2>1. \A T \in Z : IsFiniteSet(T)
    BY FS_Subset
  <2>2. PICK T \in Z : \A U \in Z : U \subseteq T => U = T
    <3> HIDE DEF Z
    <3> QED
      BY <1>1, <2>1, LeastSet
  <2>3. T # {}
    BY <2>2, SumEmpty
  <2>4. PickFrom(T) \in T
    BY <2>3, PickFromIn
  <2>5. SumOver(f, T \ {PickFrom(T)}) \in Int
    BY <2>2, <2>4
  <2>6. SumOver(f, T) = f[PickFrom(T)] + SumOver(f, T \ {PickFrom(T)})
    BY <2>1, <2>3, SumPick
  <2>7. f[PickFrom(T)] \in Int
    BY <2>4
  <2> QED
    BY <2>2, <2>5, <2>6, <2>7
<1> QED
  BY <1>1

(* Any element may be counted first. *)
THEOREM SumRemove ==
  ASSUME NEW f, NEW S, IsFiniteSet(S), \A x \in S : f[x] \in Int, NEW e \in S
  PROVE  SumOver(f, S) = f[e] + SumOver(f, S \ {e})
<1> DEFINE Z == {T \in SUBSET S :
                   \E x \in T : SumOver(f, T) # f[x] + SumOver(f, T \ {x})}
<1>1. ASSUME Z # {} PROVE FALSE
  <2>1. \A T \in Z : IsFiniteSet(T)
    BY FS_Subset
  <2>2. PICK T \in Z : \A U \in Z : U \subseteq T => U = T
    <3> HIDE DEF Z
    <3> QED
      BY <1>1, <2>1, LeastSet
  <2>3. PICK x \in T : SumOver(f, T) # f[x] + SumOver(f, T \ {x})
    BY <2>2
  <2> DEFINE y == PickFrom(T)
  <2>4. y \in T
    BY <2>3, PickFromIn
  <2>5. SumOver(f, T) = f[y] + SumOver(f, T \ {y})
    BY <2>1, <2>3, SumPick
  <2>6. x # y
    BY <2>3, <2>5
  <2>7. SumOver(f, T \ {y}) = f[x] + SumOver(f, (T \ {y}) \ {x})
    <3>1. T \ {y} \notin Z /\ T \ {y} \in SUBSET S /\ x \in T \ {y}
      BY <2>2, <2>4, <2>6
    <3> QED
      BY <3>1
  <2>8. SumOver(f, T \ {x}) = f[y] + SumOver(f, (T \ {x}) \ {y})
    <3>1. T \ {x} \notin Z /\ T \ {x} \in SUBSET S /\ y \in T \ {x}
      BY <2>2, <2>4, <2>6
    <3> QED
      BY <3>1
  <2>9. (T \ {x}) \ {y} = (T \ {y}) \ {x}
    OBVIOUS
  <2> DEFINE W == (T \ {y}) \ {x}
  <2>10. SumOver(f, W) \in Int
    <3>1. IsFiniteSet(W) /\ W \subseteq S
      BY <2>1, FS_Subset
    <3> QED
      BY <3>1, SumInt
  <2>11. f[x] \in Int /\ f[y] \in Int
    BY <2>4
  <2>12. /\ SumOver(f, T) = f[y] + (f[x] + SumOver(f, W))
         /\ SumOver(f, T \ {x}) = f[y] + SumOver(f, W)
    BY <2>5, <2>7, <2>8, <2>9
  <2> HIDE DEF W, y
  <2> QED
    BY <2>3, <2>10, <2>11, <2>12
<1>2. S \notin Z
  BY <1>1
<1> QED
  BY <1>2

(* Only the values on the set count. *)
THEOREM SumSame ==
  ASSUME NEW f, NEW g, NEW S, IsFiniteSet(S), \A x \in S : f[x] = g[x]
  PROVE  SumOver(f, S) = SumOver(g, S)
<1> DEFINE Z == {T \in SUBSET S : SumOver(f, T) # SumOver(g, T)}
<1>1. ASSUME Z # {} PROVE FALSE
  <2>1. \A T \in Z : IsFiniteSet(T)
    BY FS_Subset
  <2>2. PICK T \in Z : \A U \in Z : U \subseteq T => U = T
    <3> HIDE DEF Z
    <3> QED
      BY <1>1, <2>1, LeastSet
  <2>3. T # {}
    BY <2>2, SumEmpty
  <2>4. PickFrom(T) \in T
    BY <2>3, PickFromIn
  <2>5. SumOver(f, T \ {PickFrom(T)}) = SumOver(g, T \ {PickFrom(T)})
    BY <2>2, <2>4
  <2>6. /\ SumOver(f, T) = f[PickFrom(T)] + SumOver(f, T \ {PickFrom(T)})
        /\ SumOver(g, T) = g[PickFrom(T)] + SumOver(g, T \ {PickFrom(T)})
    BY <2>1, <2>3, SumPick
  <2>7. f[PickFrom(T)] = g[PickFrom(T)]
    BY <2>4
  <2> QED
    BY <2>2, <2>5, <2>6, <2>7
<1> QED
  BY <1>1

(* One more element. *)
THEOREM SumAdd ==
  ASSUME NEW f, NEW S, IsFiniteSet(S), \A x \in S : f[x] \in Int,
         NEW e, e \notin S, f[e] \in Int
  PROVE  SumOver(f, S \cup {e}) = SumOver(f, S) + f[e]
<1> DEFINE T == S \cup {e}
<1>1. IsFiniteSet(T) /\ \A x \in T : f[x] \in Int
  BY FS_AddElement
<1>2. e \in T /\ T \ {e} = S
  OBVIOUS
<1>3. SumOver(f, T) = f[e] + SumOver(f, T \ {e})
  BY <1>1, <1>2, SumRemove
<1>4. SumOver(f, S) \in Int
  BY SumInt
<1>5. SumOver(f, T) = f[e] + SumOver(f, S)
  BY <1>2, <1>3
<1> HIDE DEF T
<1>6. SumOver(f, T) = SumOver(f, S) + f[e]
  BY <1>4, <1>5
<1> QED
  BY <1>6 DEF T

(* One value changed. *)
THEOREM SumChange ==
  ASSUME NEW f, NEW g, NEW S, IsFiniteSet(S), NEW e \in S,
         \A x \in S : f[x] \in Int, g[e] \in Int,
         \A x \in S \ {e} : g[x] = f[x]
  PROVE  SumOver(g, S) = SumOver(f, S) + g[e] - f[e]
<1> DEFINE T == S \ {e}
<1>1. IsFiniteSet(T)
  BY FS_Subset
<1>2. SumOver(f, T) = SumOver(g, T) /\ SumOver(f, T) \in Int
  BY <1>1, SumSame, SumInt
<1>3. SumOver(f, S) = f[e] + SumOver(f, T)
  BY SumRemove
<1>4. \A x \in S : g[x] \in Int
  OBVIOUS
<1>5. SumOver(g, S) = g[e] + SumOver(g, T)
  BY <1>4, SumRemove
<1> HIDE DEF T
<1> QED
  BY <1>2, <1>3, <1>5

(* A part of a sum of naturals is a natural no larger than the whole. *)
THEOREM SumPart ==
  ASSUME NEW f, NEW S, IsFiniteSet(S), \A x \in S : f[x] \in Nat, NEW P \in SUBSET S
  PROVE  /\ SumOver(f, S) \in Nat
         /\ SumOver(f, P) \in Nat
         /\ SumOver(f, P) <= SumOver(f, S)
<1> DEFINE Z == {T \in SUBSET S : ~ /\ SumOver(f, T) \in Nat
                                    /\ SumOver(f, T \cap P) \in Nat
                                    /\ SumOver(f, T \cap P) <= SumOver(f, T)}
<1>1. ASSUME Z # {} PROVE FALSE
  <2>1. \A T \in Z : IsFiniteSet(T)
    BY FS_Subset
  <2>2. PICK T \in Z : \A U \in Z : U \subseteq T => U = T
    <3> HIDE DEF Z
    <3> QED
      BY <1>1, <2>1, LeastSet
  <2>3. T # {}
    <3>1. SumOver(f, {}) \in Nat /\ SumOver(f, {}) <= SumOver(f, {})
      BY SumEmpty
    <3>2. T = {} => T \cap P = {}
      OBVIOUS
    <3> QED
      BY <2>2, <3>1, <3>2
  <2> DEFINE x == PickFrom(T)
             U == T \ {x}
  <2>4. x \in T /\ f[x] \in Nat
    BY <2>3, PickFromIn
  <2>5. SumOver(f, T) = f[x] + SumOver(f, U)
    BY <2>1, <2>3, SumPick
  <2>6. /\ SumOver(f, U) \in Nat
        /\ SumOver(f, U \cap P) \in Nat
        /\ SumOver(f, U \cap P) <= SumOver(f, U)
    <3>1. U \in SUBSET S /\ U # T /\ U \subseteq T
      BY <2>4
    <3> QED
      BY <2>2, <3>1
  <2>7. SumOver(f, T \cap P) \in {SumOver(f, U \cap P), SumOver(f, U \cap P) + f[x]}
    <3>1. CASE x \in P
      <4>1. IsFiniteSet(U \cap P) /\ \A y \in U \cap P : f[y] \in Int
        BY FS_Subset
      <4>2. x \notin U \cap P /\ f[x] \in Int /\ (U \cap P) \cup {x} = T \cap P
        BY <2>4, <3>1
      <4> HIDE DEF U, x
      <4> QED
        BY <4>1, <4>2, SumAdd
    <3>2. CASE x \notin P
      <4>1. U \cap P = T \cap P
        BY <3>2
      <4> QED
        BY <4>1
    <3> QED
      BY <3>1, <3>2
  <2>8. T \in Z
    BY <2>2
  <2> HIDE DEF x, U
  <2> QED
    BY <2>4, <2>5, <2>6, <2>7, <2>8
<1>2. S \cap P = P
  OBVIOUS
<1> QED
  BY <1>1, <1>2

(* What one element adds is within a sum of naturals. *)
THEOREM SumElement ==
  ASSUME NEW f, NEW S, IsFiniteSet(S), \A x \in S : f[x] \in Nat, NEW e \in S
  PROVE  f[e] <= SumOver(f, S)
<1>1. SumOver(f, S) = f[e] + SumOver(f, S \ {e})
  BY SumRemove
<1>2. SumOver(f, S \ {e}) \in Nat
  BY SumPart
<1> QED
  BY <1>1, <1>2

(* The sum over a set of one element. *)
THEOREM SumOne ==
  ASSUME NEW f, NEW e, f[e] \in Int
  PROVE  SumOver(f, {e}) = f[e]
<1>1. IsFiniteSet({e}) /\ \A x \in {e} : f[x] \in Int
  BY FS_Singleton
<1>2. SumOver(f, {e}) = f[e] + SumOver(f, {e} \ {e})
  BY <1>1, SumRemove
<1> QED
  BY <1>2, SumEmpty

(* Whatever obeys the recursion of the partial sums ends in the sum. *)
THEOREM SumOfTotals ==
  ASSUME NEW f, NEW S, IsFiniteSet(S), NEW g, Totals(f, S, g)
  PROVE  g[S] = SumOver(f, S)
<1>1. Totals(f, S, TheTotals(f, S))
  BY TheTotalsExist
<1>2. g[S] = TheTotals(f, S)[S]
  BY <1>1, TotalsAgree
<1> QED
  BY <1>2, SumIsTotal DEF TheTotals

=============================================================================
