---------------------------- MODULE SumTheorems ----------------------------
(***************************************************************************)
(* Induction and recursive functions over finite sets, and what follows of *)
(* sums.  The induction principles of the library take a predicate as an   *)
(* operator; here a predicate is the set of what satisfies it, so that a   *)
(* principle is an ordinary fact that a proof can cite.                    *)
(***************************************************************************)
EXTENDS Integers, FiniteSetsExt, FiniteSetTheorems, WellFoundedInduction, TLAPS

-----------------------------------------------------------------------------
(* Induction.                                                              *)
NatLess == {p \in Nat \X Nat : p[1] < p[2]}

(* A set of naturals that is not empty has a least element.                *)
LEMMA LeastNat ==
    ASSUME NEW S \in SUBSET Nat, S # {}
    PROVE  \E n \in S : \A m \in S : n <= m
<1>1. IsWellFoundedOn(NatLess, Nat)
    BY NatLessThanWellFounded DEF OpToRel, NatLess
<1>2. PICK n \in S : \A m \in S : <<m, n>> \notin NatLess
    BY <1>1, WFMin
<1>3. ASSUME NEW m \in S PROVE n <= m
    <2>1. n \in Nat /\ m \in Nat /\ <<m, n>> \notin NatLess
        BY <1>2
    <2> QED BY <2>1 DEF NatLess
<1> QED BY <1>3

(* What holds of zero, and of n + 1 when it holds of n, holds of every n.  *)
LEMMA NatSetInduction ==
    ASSUME NEW Good, 0 \in Good, \A n \in Nat : n \in Good => n + 1 \in Good
    PROVE  Nat \subseteq Good
<1> SUFFICES ASSUME Nat \ Good # {} PROVE FALSE
    OBVIOUS
<1>1. PICK n \in Nat \ Good : \A m \in Nat \ Good : n <= m
    BY LeastNat
<1>2. n # 0 /\ n - 1 \in Nat
    BY <1>1
<1> QED BY <1>1, <1>2

(* A finite set is in Good when every finite set is in Good of which all   *)
(* the smaller subsets are.                                                *)
LEMMA SubsetInduction ==
    ASSUME NEW S, IsFiniteSet(S), NEW Good,
           \A T \in SUBSET S : (\A U \in SUBSET T : U # T => U \in Good) => T \in Good
    PROVE  SUBSET S \subseteq Good
<1> SUFFICES ASSUME (SUBSET S) \ Good # {} PROVE FALSE
    OBVIOUS
<1> DEFINE Bad == (SUBSET S) \ Good
<1>1. Bad \subseteq FiniteSubsetsOf(S) /\ Bad # {}
    BY FS_FiniteSubsetsOfFinite
<1>2. PICK T \in Bad : \A U \in Bad : <<U, T>> \notin StrictSubsetOrdering(S)
    <2> HIDE DEF Bad
    <2> QED BY <1>1, WFMin, FS_StrictSubsetOrderingWellFounded
<1>3. T \subseteq S /\ T \notin Good
    BY <1>2
<1>4. ASSUME NEW U \in SUBSET T, U # T PROVE U \in Good
    <2>1. <<U, T>> \in StrictSubsetOrdering(S)
        BY <1>3, <1>4 DEF StrictSubsetOrdering
    <2> QED BY <1>2, <1>3, <1>4, <2>1
<1> QED BY <1>3, <1>4

(* What holds of the empty set, and of T with one more element when it     *)
(* holds of T, holds of every finite set.                                  *)
LEMMA FiniteSetInduction ==
    ASSUME NEW S, IsFiniteSet(S), NEW Good, {} \in Good,
           \A T \in SUBSET S, x \in S : T \in Good /\ x \notin T => T \cup {x} \in Good
    PROVE  S \in Good
<1>1. ASSUME NEW T \in SUBSET S, \A U \in SUBSET T : U # T => U \in Good
      PROVE  T \in Good
    <2>1. CASE T = {}
        BY <2>1
    <2>2. ASSUME NEW x \in T PROVE T \in Good
        <3>1. T \ {x} \in Good /\ T = (T \ {x}) \cup {x}
            BY <1>1
        <3> QED BY <3>1
    <2> QED BY <2>1, <2>2
<1> QED BY <1>1, SubsetInduction

(* A finite set of integers that is not empty has a greatest and a least   *)
(* element.                                                                *)
LEMMA Extremes ==
    ASSUME NEW S \in SUBSET Int, IsFiniteSet(S), S # {}
    PROVE  /\ Max(S) \in S /\ \A x \in S : x <= Max(S)
           /\ Min(S) \in S /\ \A x \in S : Min(S) <= x
<1> DEFINE Good == {T \in SUBSET S : T # {} => /\ \E x \in T : \A y \in T : x >= y
                                             /\ \E x \in T : \A y \in T : x =< y}
<1>1. {} \in Good
    OBVIOUS
<1>2. ASSUME NEW T \in SUBSET S, NEW z \in S, T \in Good, z \notin T
      PROVE  T \cup {z} \in Good
    <2>1. CASE T = {}
        BY <2>1
    <2>2. CASE T # {}
        <3>1. PICK x \in T : \A y \in T : x >= y
            BY <1>2, <2>2
        <3>2. PICK w \in T : \A y \in T : w =< y
            BY <1>2, <2>2
        <3>3. \E u \in T \cup {z} : \A y \in T \cup {z} : u >= y
            <4>1. \A y \in T \cup {z} : (IF x >= z THEN x ELSE z) >= y
                BY <3>1
            <4> QED BY <4>1
        <3>4. \E u \in T \cup {z} : \A y \in T \cup {z} : u =< y
            <4>1. \A y \in T \cup {z} : (IF w =< z THEN w ELSE z) =< y
                BY <3>2
            <4> QED BY <4>1
        <3> QED BY <3>3, <3>4
    <2> QED BY <2>1, <2>2
<1>3. S \in Good
    <2> HIDE DEF Good
    <2> QED BY <1>1, <1>2, FiniteSetInduction
<1>4. Max(S) \in S /\ \A x \in S : Max(S) >= x
    BY <1>3 DEF Max
<1>5. Min(S) \in S /\ \A x \in S : Min(S) =< x
    BY <1>3 DEF Min
<1> QED BY <1>4, <1>5

(* The image of a finite set under a function is finite.                   *)
LEMMA ImageIsFinite ==
    ASSUME NEW S, IsFiniteSet(S), NEW f
    PROVE  IsFiniteSet({f[x] : x \in S})
<1> DEFINE Good == {T \in SUBSET S : IsFiniteSet({f[x] : x \in T})}
<1>1. {} \in Good
    <2>1. {f[x] : x \in {}} = {}
        OBVIOUS
    <2> QED BY <2>1, FS_EmptySet
<1>2. ASSUME NEW T \in SUBSET S, NEW x \in S, T \in Good, x \notin T
      PROVE  T \cup {x} \in Good
    <2>1. {f[y] : y \in T \cup {x}} = {f[y] : y \in T} \cup {f[x]}
        OBVIOUS
    <2>2. IsFiniteSet({f[y] : y \in T} \cup {f[x]})
        BY <1>2, FS_AddElement
    <2> QED BY <2>1, <2>2
<1>3. S \in Good
    <2> HIDE DEF Good
    <2> QED BY <1>1, <1>2, FiniteSetInduction
<1> QED BY <1>3

-----------------------------------------------------------------------------
(* Recursion.  A fold takes the elements of a set one after another, each  *)
(* chosen from what is left.                                               *)
FoldBody(f, S, choice, base, step) ==
    [s \in SUBSET S |->
        IF s = {} THEN base ELSE step[<<choice[s], f[s \ {choice[s]}]>>]]

IsChoice(choice, S) == \A s \in SUBSET S : s # {} => choice[s] \in s

IsStep(step, S, Values) == \A x \in S, v \in Values : step[<<x, v>>] \in Values

IsFold(f, S, Values, choice, base, step) ==
    f \in [SUBSET S -> Values] /\ f = FoldBody(f, S, choice, base, step)

(* Two folds agree on what both of them define.                            *)
LEMMA FoldAgrees ==
    ASSUME NEW S, IsFiniteSet(S), NEW R, S \subseteq R, NEW choice, IsChoice(choice, S),
           NEW base, NEW step,
           NEW f, f = FoldBody(f, R, choice, base, step),
           NEW g, g = FoldBody(g, S, choice, base, step)
    PROVE  \A s \in SUBSET S : f[s] = g[s]
<1> DEFINE Good == {s \in SUBSET S : f[s] = g[s]}
<1>1. ASSUME NEW T \in SUBSET S, \A U \in SUBSET T : U # T => U \in Good
      PROVE  T \in Good
    <2>1. f[T] = IF T = {} THEN base ELSE step[<<choice[T], f[T \ {choice[T]}]>>]
        BY DEF FoldBody
    <2>2. g[T] = IF T = {} THEN base ELSE step[<<choice[T], g[T \ {choice[T]}]>>]
        BY DEF FoldBody
    <2>3. CASE T = {}
        BY <2>1, <2>2, <2>3
    <2>4. CASE T # {}
        <3>1. choice[T] \in T
            BY <2>4 DEF IsChoice
        <3>2. T \ {choice[T]} \in Good
            BY <1>1, <3>1
        <3> QED BY <2>1, <2>2, <2>4, <3>2
    <2> QED BY <2>3, <2>4
<1>2. SUBSET S \subseteq Good
    <2> HIDE DEF Good
    <2> QED BY <1>1, SubsetInduction
<1> QED BY <1>2

(* On a finite set the recursion of a fold defines a function.             *)
LEMMA FoldExists ==
    ASSUME NEW S, IsFiniteSet(S), NEW choice, IsChoice(choice, S),
           NEW Values, NEW base \in Values, NEW step, IsStep(step, S, Values)
    PROVE  \E f : IsFold(f, S, Values, choice, base, step)
<1> DEFINE Fold(s, f) == IsFold(f, s, Values, choice, base, step)
           Good == {s \in SUBSET S : \E f : Fold(s, f)}
           Of(s) == CHOOSE f : Fold(s, f)
<1>1. ASSUME NEW T \in SUBSET S, \A U \in SUBSET T : U # T => U \in Good
      PROVE  T \in Good
    <2>1. ASSUME NEW U \in SUBSET T, U # T PROVE Fold(U, Of(U))
        <3>1. \E f : Fold(U, f)
            BY <1>1, <2>1
        <3> HIDE DEF Fold
        <3> QED BY <3>1
    <2> DEFINE c == choice[T]
               f == [s \in SUBSET T |->
                        IF s # T THEN Of(s)[s]
                        ELSE IF T = {} THEN base ELSE step[<<c, Of(T \ {c})[T \ {c}]>>]]
    <2>2. T # {} => c \in T
        BY DEF IsChoice
    <2>3. ASSUME NEW s \in SUBSET T PROVE f[s] \in Values
        <3>1. CASE s # T
            <4>1. Of(s) \in [SUBSET s -> Values]
                BY <2>1, <3>1 DEF IsFold
            <4> QED BY <3>1, <4>1
        <3>2. CASE s = T /\ T # {}
            <4>1. Of(T \ {c}) \in [SUBSET (T \ {c}) -> Values]
                BY <2>1, <2>2, <3>2 DEF IsFold
            <4>2. Of(T \ {c})[T \ {c}] \in Values /\ c \in S
                BY <4>1, <2>2, <3>2
            <4> QED BY <3>2, <4>2 DEF IsStep
        <3> QED BY <3>1, <3>2
    <2>4. ASSUME NEW s \in SUBSET T
          PROVE  f[s] = IF s = {} THEN base ELSE step[<<choice[s], f[s \ {choice[s]}]>>]
        <3> DEFINE d == choice[s]
        <3>1. s # {} => d \in s
            BY DEF IsChoice
        <3>2. CASE s = {}
            <4>1. s # T => Of(s) = FoldBody(Of(s), s, choice, base, step)
                BY <2>1 DEF IsFold
            <4>2. s # T => Of(s)[s] = base
                BY <3>2, <4>1 DEF FoldBody
            <4> QED BY <3>2, <4>2
        <3>3. CASE s # {}
            <4>1. s \ {d} \in SUBSET T /\ s \ {d} # T
                BY <3>1, <3>3
            <4>2. f[s \ {d}] = Of(s \ {d})[s \ {d}]
                BY <4>1
            <4>3. CASE s = T
                BY <3>3, <4>2, <4>3
            <4>4. CASE s # T
                <5>1. Fold(s, Of(s)) /\ Fold(s \ {d}, Of(s \ {d}))
                    BY <2>1, <4>1, <4>4
                <5>2. Of(s)[s \ {d}] = Of(s \ {d})[s \ {d}]
                    <6>1. IsFiniteSet(s \ {d}) /\ IsChoice(choice, s \ {d})
                        BY FS_Subset DEF IsChoice
                    <6>2. s \ {d} \subseteq s
                        OBVIOUS
                    <6>3. \A r \in SUBSET (s \ {d}) : Of(s)[r] = Of(s \ {d})[r]
                        <7>1. /\ Of(s) = FoldBody(Of(s), s, choice, base, step)
                              /\ Of(s \ {d}) = FoldBody(Of(s \ {d}), s \ {d}, choice, base, step)
                            BY <5>1 DEF IsFold
                        <7> HIDE DEF Of, d
                        <7> QED BY <6>1, <6>2, <7>1, FoldAgrees
                    <6> QED BY <6>3
                <5>3. Of(s)[s] = step[<<d, Of(s)[s \ {d}]>>]
                    BY <3>3, <5>1 DEF FoldBody, IsFold
                <5>4. f[s] = Of(s)[s]
                    BY <4>4
                <5>5. f[s] = step[<<d, f[s \ {d}]>>]
                    <6> HIDE DEF f, Of, d
                    <6> QED BY <4>2, <5>2, <5>3, <5>4
                <5> QED BY <3>3, <5>5
            <4> QED BY <4>3, <4>4
        <3> QED BY <3>2, <3>3
    <2>5. Fold(T, f)
        <3>1. f \in [SUBSET T -> Values]
            <4>1. f = [s \in SUBSET T |-> f[s]]
                OBVIOUS
            <4> HIDE DEF f
            <4> QED BY <2>3, <4>1
        <3>2. f = FoldBody(f, T, choice, base, step)
            <4>1. f = [s \in SUBSET T |-> f[s]]
                OBVIOUS
            <4> HIDE DEF f
            <4> QED BY <2>4, <4>1 DEF FoldBody
        <3> QED BY <3>1, <3>2 DEF IsFold
    <2> QED BY <2>5
<1>2. S \in Good
    <2> HIDE DEF Good
    <2> QED BY <1>1, SubsetInduction
<1> QED BY <1>2

-----------------------------------------------------------------------------
(* Sums.  Every sum of the model is the sum of a function over a set.      *)
SumOver(w, S) == MapThenSumSet(LAMBDA i : w[i], S)

AnyOf(s) == CHOOSE x \in s : TRUE

SumBody(f, w, S) == [s \in SUBSET S |-> IF s = {} THEN 0 ELSE w[AnyOf(s)] + f[s \ {AnyOf(s)}]]

(* Two such recursions agree on what both of them define.                  *)
LEMMA SumBodiesAgree ==
    ASSUME NEW S, IsFiniteSet(S), NEW R, S \subseteq R, NEW w,
           NEW f, f = SumBody(f, w, R), NEW g, g = SumBody(g, w, S)
    PROVE  \A s \in SUBSET S : f[s] = g[s]
<1> DEFINE Good == {s \in SUBSET S : f[s] = g[s]}
<1>1. ASSUME NEW T \in SUBSET S, \A U \in SUBSET T : U # T => U \in Good
      PROVE  T \in Good
    <2>1. f[T] = IF T = {} THEN 0 ELSE w[AnyOf(T)] + f[T \ {AnyOf(T)}]
        BY DEF SumBody
    <2>2. g[T] = IF T = {} THEN 0 ELSE w[AnyOf(T)] + g[T \ {AnyOf(T)}]
        BY DEF SumBody
    <2>3. CASE T # {}
        <3>1. AnyOf(T) \in T
            BY <2>3 DEF AnyOf
        <3>2. f[T \ {AnyOf(T)}] = g[T \ {AnyOf(T)}]
            BY <1>1, <3>1
        <3> QED BY <2>1, <2>2, <3>2
    <2> QED BY <2>1, <2>2, <2>3
<1>2. SUBSET S \subseteq Good
    <2> HIDE DEF Good
    <2> QED BY <1>1, SubsetInduction
<1> QED BY <1>2

(* The recursion by which the sums of the parts of a finite set are taken. *)
LEMMA PartialSums ==
    ASSUME NEW S, IsFiniteSet(S), NEW w, \A x \in S : w[x] \in Int
    PROVE  \E f \in [SUBSET S -> Int] : f = SumBody(f, w, S) /\ SumOver(w, S) = f[S]
<1> DEFINE choice == [s \in SUBSET S |-> AnyOf(s)]
           step == [p \in S \X Int |-> w[p[1]] + p[2]]
<1>1. IsChoice(choice, S)
    BY DEF IsChoice, AnyOf
<1>2. \A x \in S, v \in Int : step[<<x, v>>] = w[x] + v
    OBVIOUS
<1>3. ASSUME NEW f \in [SUBSET S -> Int] PROVE FoldBody(f, S, choice, 0, step) = SumBody(f, w, S)
    <2>1. ASSUME NEW s \in SUBSET S, s # {}
          PROVE  step[<<choice[s], f[s \ {choice[s]}]>>] = w[AnyOf(s)] + f[s \ {AnyOf(s)}]
        <3>1. choice[s] = AnyOf(s) /\ AnyOf(s) \in S
            BY <2>1 DEF AnyOf
        <3>2. f[s \ {AnyOf(s)}] \in Int
            OBVIOUS
        <3> HIDE DEF choice, step
        <3> QED BY <1>2, <3>1, <3>2
    <2> HIDE DEF choice, step
    <2> QED BY <2>1 DEF FoldBody, SumBody
<1>4. PICK g \in [SUBSET S -> Int] : g = SumBody(g, w, S)
    <2> HIDE DEF choice, step
    <2>1. IsStep(step, S, Int)
        <3>1. ASSUME NEW x \in S, NEW v \in Int PROVE step[<<x, v>>] \in Int
            <4>1. step[<<x, v>>] = w[x] + v /\ w[x] \in Int
                BY <1>2
            <4> QED BY <4>1
        <3> QED BY <3>1 DEF IsStep
    <2>2. \E g : IsFold(g, S, Int, choice, 0, step)
        <3>1. 0 \in Int
            OBVIOUS
        <3> QED BY <1>1, <2>1, <3>1, FoldExists
    <2> QED BY <1>3, <2>2 DEF IsFold
<1> DEFINE f == CHOOSE f : f = SumBody(f, w, S)
<1>5. f = SumBody(f, w, S)
    BY <1>4
<1>6. SumOver(w, S) = f[S]
    BY DEF SumOver, MapThenSumSet, MapThenFoldSet, SumBody, AnyOf
<1>7. f = g
    <2>3. f = [s \in SUBSET S |-> f[s]] /\ g = [s \in SUBSET S |-> g[s]]
        <3> HIDE DEF f
        <3> QED BY <1>5 DEF SumBody
    <2>4. \A s \in SUBSET S : f[s] = g[s]
        <3> HIDE DEF f
        <3> QED BY <1>4, <1>5, SumBodiesAgree
    <2> HIDE DEF f
    <2> QED BY <2>3, <2>4
<1> HIDE DEF f
<1> QED BY <1>5, <1>6, <1>7

(* One step of a sum.                                                      *)
LEMMA SumUnfolds ==
    ASSUME NEW S, IsFiniteSet(S), NEW w, \A x \in S : w[x] \in Int
    PROVE  /\ SumOver(w, S) \in Int
           /\ S = {} => SumOver(w, S) = 0
           /\ S # {} => SumOver(w, S) = w[AnyOf(S)] + SumOver(w, S \ {AnyOf(S)})
<1>1. PICK f \in [SUBSET S -> Int] : f = SumBody(f, w, S) /\ SumOver(w, S) = f[S]
    BY PartialSums
<1>2. SumOver(w, S) \in Int /\ (S = {} => SumOver(w, S) = 0)
    BY <1>1 DEF SumBody
<1>3. CASE S # {}
    <2> DEFINE R == S \ {AnyOf(S)}
    <2>1. IsFiniteSet(R) /\ R \subseteq S
        BY FS_Subset
    <2>2. PICK g \in [SUBSET R -> Int] : g = SumBody(g, w, R) /\ SumOver(w, R) = g[R]
        BY <2>1, PartialSums
    <2>4. f[R] = g[R]
        <3> HIDE DEF R
        <3> QED BY <1>1, <2>1, <2>2, SumBodiesAgree
    <2>5. f[R] = SumOver(w, R)
        BY <2>2, <2>4
    <2>6. f[S] = w[AnyOf(S)] + f[R]
        BY <1>1, <1>3 DEF SumBody
    <2>7. SumOver(w, S) = f[S]
        BY <1>1
    <2> HIDE DEF R
    <2> QED BY <1>2, <2>5, <2>6, <2>7 DEF R
<1> QED BY <1>2, <1>3

(* A sum is a number.                                                      *)
LEMMA SumIsInt ==
    ASSUME NEW S, IsFiniteSet(S), NEW w, \A x \in S : w[x] \in Int
    PROVE  SumOver(w, S) \in Int
BY SumUnfolds

LEMMA SumOfNone == ASSUME NEW w PROVE SumOver(w, {}) = 0
<1>1. IsFiniteSet({}) /\ \A x \in {} : w[x] \in Int
    BY FS_EmptySet
<1> QED BY <1>1, SumUnfolds

(* An element adds its own weight to a sum, whichever element was taken    *)
(* first.                                                                  *)
LEMMA SumOfOneMore ==
    ASSUME NEW S, IsFiniteSet(S), NEW w, \A x \in S : w[x] \in Int, NEW y \in S
    PROVE  SumOver(w, S) = w[y] + SumOver(w, S \ {y})
<1> DEFINE Good == {s \in SUBSET S : \A x \in s : SumOver(w, s) = w[x] + SumOver(w, s \ {x})}
<1>1. ASSUME NEW T \in SUBSET S, \A U \in SUBSET T : U # T => U \in Good,
             NEW x \in T
      PROVE  SumOver(w, T) = w[x] + SumOver(w, T \ {x})
    <2> DEFINE a == AnyOf(T)
    <2>1. a \in T
        BY DEF AnyOf
    <2>2. \A U \in SUBSET T : IsFiniteSet(U) /\ \A z \in U : w[z] \in Int
        BY FS_Subset
    <2>3. \A U \in SUBSET T : SumOver(w, U) \in Int
        BY <2>2, SumIsInt
    <2>4. SumOver(w, T) = w[a] + SumOver(w, T \ {a})
        BY <2>2, SumUnfolds
    <2>5. CASE a # x
        <3>1. SumOver(w, T \ {a}) = w[x] + SumOver(w, (T \ {a}) \ {x})
            BY <1>1, <2>1, <2>5
        <3>2. SumOver(w, T \ {x}) = w[a] + SumOver(w, (T \ {x}) \ {a})
            BY <1>1, <2>1, <2>5
        <3>3. SumOver(w, (T \ {a}) \ {x}) = SumOver(w, (T \ {x}) \ {a})
            <4>1. (T \ {a}) \ {x} = (T \ {x}) \ {a}
                OBVIOUS
            <4> QED BY <4>1
        <3>4. w[a] \in Int /\ w[x] \in Int /\ SumOver(w, (T \ {x}) \ {a}) \in Int
            BY <2>1, <2>3
        <3> HIDE DEF a
        <3> QED BY <2>4, <3>1, <3>2, <3>3, <3>4
    <2> QED BY <2>4, <2>5
<1>2. SUBSET S \subseteq Good
    <2>1. ASSUME NEW T \in SUBSET S, \A U \in SUBSET T : U # T => U \in Good
          PROVE  T \in Good
        <3> HIDE DEF Good
        <3>1. \A x \in T : SumOver(w, T) = w[x] + SumOver(w, T \ {x})
            BY <1>1, <2>1
        <3> QED BY <3>1 DEF Good
    <2> HIDE DEF Good
    <2> QED BY <2>1, SubsetInduction
<1> QED BY <1>2

(* The same, for an element that joins the set.                            *)
LEMMA SumWith ==
    ASSUME NEW S, IsFiniteSet(S), NEW y, y \notin S, NEW w, \A x \in S \cup {y} : w[x] \in Int
    PROVE  SumOver(w, S \cup {y}) = SumOver(w, S) + w[y]
<1>1. IsFiniteSet(S \cup {y}) /\ (S \cup {y}) \ {y} = S
    BY FS_AddElement
<1>2. SumOver(w, S \cup {y}) = w[y] + SumOver(w, (S \cup {y}) \ {y})
    BY <1>1, SumOfOneMore
<1>3. SumOver(w, S \cup {y}) = w[y] + SumOver(w, S)
    BY <1>1, <1>2
<1>4. SumOver(w, S) \in Int /\ w[y] \in Int
    BY SumIsInt
<1> QED BY <1>3, <1>4

(* The sum of one element is its weight.                                   *)
LEMMA SumOfOne ==
    ASSUME NEW w, NEW x, w[x] \in Int
    PROVE  SumOver(w, {x}) = w[x]
<1>1. IsFiniteSet({}) /\ x \notin {} /\ \A y \in {} \cup {x} : w[y] \in Int
    BY FS_EmptySet
<1>2. SumOver(w, {} \cup {x}) = SumOver(w, {}) + w[x]
    BY <1>1, SumWith
<1>3. SumOver(w, {}) = 0 /\ {} \cup {x} = {x}
    BY SumOfNone
<1> QED BY <1>2, <1>3

(* A sum is what its recursion gives the whole set.                        *)
LEMMA SumChoice ==
    ASSUME NEW S, NEW w
    PROVE  /\ SumOver(w, S) = (CHOOSE f : f = SumBody(f, w, S))[S]
           /\ \A s \in SUBSET S : s # {} => AnyOf(s) \in S
<1>1. SumOver(w, S) = (CHOOSE f : f = SumBody(f, w, S))[S]
  BY DEF SumOver, MapThenSumSet, MapThenFoldSet, SumBody, AnyOf
<1>2. \A s \in SUBSET S : s # {} => AnyOf(s) \in S
  BY DEF AnyOf
<1> QED
  BY <1>1, <1>2

(* Weights that agree on a set have one sum over it.                       *)
LEMMA SumAgrees ==
    ASSUME NEW S, IsFiniteSet(S), NEW v, NEW w, \A x \in S : v[x] = w[x]
    PROVE  SumOver(v, S) = SumOver(w, S)
<1> DEFINE V(f) == SumBody(f, v, S)
           W(f) == SumBody(f, w, S)
<1>1. ASSUME NEW f PROVE V(f) = W(f)
    <2>1. ASSUME NEW s \in SUBSET S, s # {} PROVE v[AnyOf(s)] = w[AnyOf(s)]
        BY <2>1 DEF AnyOf
    <2> QED BY <2>1 DEF SumBody
<1>2. (CHOOSE f : f = V(f)) = (CHOOSE f : f = W(f))
    <2> HIDE DEF V, W
    <2> QED BY <1>1, Zenon
<1>3. SumOver(v, S) = (CHOOSE f : f = V(f))[S]
    BY DEF SumOver, MapThenSumSet, MapThenFoldSet, SumBody, AnyOf
<1>4. SumOver(w, S) = (CHOOSE f : f = W(f))[S]
    BY DEF SumOver, MapThenSumSet, MapThenFoldSet, SumBody, AnyOf
<1> QED BY <1>2, <1>3, <1>4

(* The sum over two sets that share nothing.                               *)
LEMMA SumOfBoth ==
    ASSUME NEW S, IsFiniteSet(S), NEW T, IsFiniteSet(T), S \cap T = {},
           NEW w, \A x \in S \cup T : w[x] \in Int
    PROVE  SumOver(w, S \cup T) = SumOver(w, S) + SumOver(w, T)
<1> DEFINE Good == {U \in SUBSET T : SumOver(w, S \cup U) = SumOver(w, S) + SumOver(w, U)}
<1>1. SumOver(w, S) \in Int
    BY SumIsInt
<1>2. {} \in Good
    <2>1. SumOver(w, {}) = 0 /\ S \cup {} = S
        BY SumOfNone
    <2>2. SumOver(w, S \cup {}) = SumOver(w, S) + SumOver(w, {})
        BY <1>1, <2>1
    <2> QED BY <2>2
<1>3. ASSUME NEW U \in SUBSET T, NEW x \in T, U \in Good, x \notin U
      PROVE  U \cup {x} \in Good
    <2>1. IsFiniteSet(U) /\ IsFiniteSet(S \cup U)
        BY FS_Subset, FS_Union
    <2>2. SumOver(w, U) \in Int /\ w[x] \in Int
        BY <2>1, SumIsInt
    <2>3. SumOver(w, U \cup {x}) = SumOver(w, U) + w[x]
        BY <1>3, <2>1, SumWith
    <2>4. SumOver(w, (S \cup U) \cup {x}) = SumOver(w, S \cup U) + w[x]
        <3>1. x \notin S \cup U /\ \A z \in (S \cup U) \cup {x} : w[z] \in Int
            BY <1>3
        <3> QED BY <2>1, <3>1, SumWith
    <2>5. (S \cup U) \cup {x} = S \cup (U \cup {x})
        OBVIOUS
    <2>6. SumOver(w, S \cup (U \cup {x})) = SumOver(w, S \cup U) + w[x]
        BY <2>4, <2>5
    <2>7. SumOver(w, S \cup U) = SumOver(w, S) + SumOver(w, U)
        BY <1>3
    <2>8. SumOver(w, S \cup (U \cup {x})) = SumOver(w, S) + SumOver(w, U \cup {x})
        BY <1>1, <2>2, <2>3, <2>6, <2>7
    <2> QED BY <2>8
<1>4. T \in Good
    <2> HIDE DEF Good
    <2> QED BY <1>2, <1>3, FiniteSetInduction
<1> QED BY <1>4

(* A sum of sums, of the same elements.                                    *)
LEMMA SumOfSums ==
    ASSUME NEW S, IsFiniteSet(S), NEW u, NEW v, NEW w,
           \A x \in S : u[x] \in Int /\ v[x] \in Int /\ w[x] = u[x] + v[x]
    PROVE  SumOver(w, S) = SumOver(u, S) + SumOver(v, S)
<1> DEFINE Good == {U \in SUBSET S : SumOver(w, U) = SumOver(u, U) + SumOver(v, U)}
<1>1. {} \in Good
    <2>1. SumOver(w, {}) = 0 /\ SumOver(u, {}) = 0 /\ SumOver(v, {}) = 0
        BY SumOfNone
    <2> QED BY <2>1
<1>2. ASSUME NEW U \in SUBSET S, NEW x \in S, U \in Good, x \notin U
      PROVE  U \cup {x} \in Good
    <2>1. IsFiniteSet(U)
        BY FS_Subset
    <2>2. \A z \in U \cup {x} : u[z] \in Int /\ v[z] \in Int /\ w[z] \in Int
        OBVIOUS
    <2>3. SumOver(u, U) \in Int /\ SumOver(v, U) \in Int
        BY <2>1, <2>2, SumIsInt
    <2>4. /\ SumOver(u, U \cup {x}) = SumOver(u, U) + u[x]
          /\ SumOver(v, U \cup {x}) = SumOver(v, U) + v[x]
          /\ SumOver(w, U \cup {x}) = SumOver(w, U) + w[x]
        BY <1>2, <2>1, <2>2, SumWith
    <2>5. SumOver(w, U) = SumOver(u, U) + SumOver(v, U)
        BY <1>2
    <2>6. u[x] \in Int /\ v[x] \in Int /\ w[x] = u[x] + v[x]
        OBVIOUS
    <2>7. SumOver(w, U \cup {x}) = SumOver(u, U \cup {x}) + SumOver(v, U \cup {x})
        BY <2>3, <2>4, <2>5, <2>6
    <2> QED BY <2>7
<1>3. S \in Good
    <2> HIDE DEF Good
    <2> QED BY <1>1, <1>2, FiniteSetInduction
<1> QED BY <1>3

(* Weights that are not negative have no negative sum, and none of them    *)
(* exceeds it.                                                             *)
LEMMA SumIsNat ==
    ASSUME NEW S, IsFiniteSet(S), NEW w, \A x \in S : w[x] \in Nat
    PROVE  SumOver(w, S) \in Nat
<1> DEFINE Good == {U \in SUBSET S : SumOver(w, U) \in Nat}
<1>1. {} \in Good
    BY SumOfNone
<1>2. ASSUME NEW U \in SUBSET S, NEW x \in S, U \in Good, x \notin U
      PROVE  U \cup {x} \in Good
    <2>1. IsFiniteSet(U) /\ \A z \in U \cup {x} : w[z] \in Int
        BY FS_Subset
    <2>2. SumOver(w, U \cup {x}) = SumOver(w, U) + w[x]
        BY <1>2, <2>1, SumWith
    <2>3. SumOver(w, U) \in Nat /\ w[x] \in Nat
        BY <1>2
    <2>4. SumOver(w, U \cup {x}) \in Nat
        BY <2>2, <2>3
    <2> QED BY <2>4
<1>3. S \in Good
    <2> HIDE DEF Good
    <2> QED BY <1>1, <1>2, FiniteSetInduction
<1> QED BY <1>3

(* What weighs nothing adds nothing.                                       *)
LEMMA SumWithoutZeros ==
    ASSUME NEW S, IsFiniteSet(S), NEW T \in SUBSET S,
           NEW w, \A x \in T : w[x] \in Int, \A x \in S \ T : w[x] = 0
    PROVE  SumOver(w, S) = SumOver(w, T)
<1> DEFINE R == S \ T
           Good == {U \in SUBSET R : SumOver(w, T \cup U) = SumOver(w, T)}
<1>1. IsFiniteSet(R) /\ IsFiniteSet(T)
    BY FS_Subset
<1>2. {} \in Good
    <2>1. T \cup {} = T
        OBVIOUS
    <2>2. SumOver(w, T \cup {}) = SumOver(w, T)
        BY <2>1
    <2> QED BY <2>2
<1>3. ASSUME NEW U \in SUBSET R, NEW x \in R, U \in Good, x \notin U
      PROVE  U \cup {x} \in Good
    <2>1. IsFiniteSet(T \cup U)
        BY <1>1, FS_Subset, FS_Union
    <2>2. \A z \in (T \cup U) \cup {x} : w[z] \in Int
        OBVIOUS
    <2>3. x \notin T \cup U /\ w[x] = 0
        BY <1>3
    <2>4. SumOver(w, (T \cup U) \cup {x}) = SumOver(w, T \cup U) + w[x]
        <3> HIDE DEF R
        <3> QED BY <2>1, <2>2, <2>3, SumWith
    <2>5. SumOver(w, T \cup U) = SumOver(w, T) /\ SumOver(w, T) \in Int
        BY <1>1, <1>3, SumIsInt
    <2>6. (T \cup U) \cup {x} = T \cup (U \cup {x})
        OBVIOUS
    <2>7. SumOver(w, T \cup (U \cup {x})) = SumOver(w, T \cup U) + w[x]
        BY <2>4, <2>6
    <2>8. SumOver(w, T \cup (U \cup {x})) = SumOver(w, T)
        BY <2>3, <2>5, <2>7
    <2> QED BY <2>8
<1>4. R \in Good
    <2> HIDE DEF Good, R
    <2> QED BY <1>1, <1>2, <1>3, FiniteSetInduction
<1>5. T \cup R = S
    OBVIOUS
<1>6. SumOver(w, T \cup R) = SumOver(w, T)
    BY <1>4
<1> QED BY <1>5, <1>6

(* Of natural weights, a part sums to no more than the whole.              *)
LEMMA SumOfPart ==
    ASSUME NEW S, IsFiniteSet(S), NEW T \in SUBSET S, NEW w, \A x \in S : w[x] \in Nat
    PROVE  SumOver(w, T) \in Nat /\ SumOver(w, S) \in Nat /\ SumOver(w, T) <= SumOver(w, S)
<1>1. IsFiniteSet(T) /\ IsFiniteSet(S \ T) /\ T \cup (S \ T) = S /\ T \cap (S \ T) = {}
    BY FS_Subset
<1>2. \A x \in T \cup (S \ T) : w[x] \in Int
    OBVIOUS
<1>3. SumOver(w, T \cup (S \ T)) = SumOver(w, T) + SumOver(w, S \ T)
    BY <1>1, <1>2, SumOfBoth
<1>4. SumOver(w, S) = SumOver(w, T) + SumOver(w, S \ T)
    BY <1>1, <1>3
<1>5. SumOver(w, T) \in Nat /\ SumOver(w, S \ T) \in Nat
    BY <1>1, SumIsNat
<1> QED BY <1>4, <1>5

(* A sum may be taken over other names of its elements.                    *)
Renamed(w, f, S) == [x \in S |-> w[f[x]]]

IsNaming(f, S, T) ==
    /\ \A x \in S : f[x] \in T
    /\ \A y \in T : \E x \in S : f[x] = y
    /\ \A x, y \in S : f[x] = f[y] => x = y

LEMMA SumRenamed ==
    ASSUME NEW S, IsFiniteSet(S), NEW T, NEW f, IsNaming(f, S, T),
           NEW w, \A y \in T : w[y] \in Int
    PROVE  SumOver(w, T) = SumOver(Renamed(w, f, S), S)
<1> DEFINE Img(U) == {f[x] : x \in U}
           v == Renamed(w, f, S)
           Good == {U \in SUBSET S : SumOver(w, Img(U)) = SumOver(v, U)}
<1>1. {} \in Good
    <2>1. Img({}) = {}
        OBVIOUS
    <2>2. SumOver(w, Img({})) = 0 /\ SumOver(v, {}) = 0
        <3> HIDE DEF v
        <3> QED BY <2>1, SumOfNone
    <2> QED BY <2>2
<1>2. ASSUME NEW U \in SUBSET S, NEW x \in S, U \in Good, x \notin U
      PROVE  U \cup {x} \in Good
    <2>1. Img(U \cup {x}) = Img(U) \cup {f[x]} /\ f[x] \notin Img(U)
        BY <1>2 DEF IsNaming
    <2>2. IsFiniteSet(U) /\ IsFiniteSet(Img(U))
        BY FS_Subset, ImageIsFinite
    <2>3. \A y \in Img(U) \cup {f[x]} : w[y] \in Int
        BY DEF IsNaming
    <2>4. SumOver(w, Img(U) \cup {f[x]}) = SumOver(w, Img(U)) + w[f[x]]
        <3> HIDE DEF Img
        <3> QED BY <2>1, <2>2, <2>3, SumWith
    <2>5. \A y \in U \cup {x} : v[y] = w[f[y]] /\ v[y] \in Int
        BY DEF Renamed, IsNaming
    <2>6. SumOver(v, U \cup {x}) = SumOver(v, U) + v[x]
        <3> HIDE DEF v
        <3> QED BY <1>2, <2>2, <2>5, SumWith
    <2>7. SumOver(w, Img(U \cup {x})) = SumOver(w, Img(U)) + w[f[x]]
        BY <2>1, <2>4
    <2>8. SumOver(w, Img(U \cup {x})) = SumOver(v, U \cup {x})
        <3> HIDE DEF v, Img
        <3> QED BY <1>2, <2>5, <2>6, <2>7
    <2> QED BY <2>8
<1>3. S \in Good
    <2> HIDE DEF Good
    <2> QED BY <1>1, <1>2, FiniteSetInduction
<1>4. Img(S) = T
    BY DEF IsNaming
<1>5. SumOver(w, Img(S)) = SumOver(v, S)
    BY <1>3
<1> QED BY <1>4, <1>5

(* A common factor.                                                        *)
LEMMA SumScaled ==
    ASSUME NEW S, IsFiniteSet(S), NEW w, \A x \in S : w[x] \in Int, NEW c \in Int,
           NEW v, \A x \in S : v[x] = c * w[x]
    PROVE  SumOver(v, S) = c * SumOver(w, S)
<1> DEFINE Good == {U \in SUBSET S : SumOver(v, U) = c * SumOver(w, U)}
<1>1. \A x \in S : v[x] \in Int
    OBVIOUS
<1>2. {} \in Good
    BY SumOfNone
<1>3. ASSUME NEW U \in SUBSET S, NEW x \in S, U \in Good, x \notin U
      PROVE  U \cup {x} \in Good
    <2>1. IsFiniteSet(U) /\ U \cup {x} \in SUBSET S
        BY FS_Subset
    <2>2. SumOver(v, U) = c * SumOver(w, U)
        BY <1>3
    <2>3. SumOver(w, U) \in Int /\ w[x] \in Int /\ v[x] = c * w[x]
        BY <2>1, SumIsInt
    <2>4. /\ SumOver(v, U \cup {x}) = SumOver(v, U) + v[x]
          /\ SumOver(w, U \cup {x}) = SumOver(w, U) + w[x]
        BY <1>1, <1>3, <2>1, SumWith
    <2>5. SumOver(v, U \cup {x}) = c * SumOver(w, U \cup {x})
        <3> DEFINE a == SumOver(w, U)
                   b == w[x]
        <3>1. a \in Int /\ b \in Int
            BY <2>3
        <3> HIDE DEF a, b
        <3>2. c * (a + b) = c * a + c * b
            BY <3>1
        <3> QED
            BY <2>2, <2>3, <2>4, <3>2 DEF a, b
    <2> QED
        BY <2>1, <2>5
<1> HIDE DEF Good
<1>4. S \in Good
    BY <1>2, <1>3, FiniteSetInduction
<1> QED
    BY <1>4 DEF Good

(* A difference, weight by weight.                                         *)
LEMMA SumOfDifferences ==
    ASSUME NEW S, IsFiniteSet(S), NEW u, NEW v, NEW w,
           \A x \in S : u[x] \in Int /\ v[x] \in Int /\ w[x] = u[x] - v[x]
    PROVE  SumOver(w, S) = SumOver(u, S) - SumOver(v, S)
<1>1. \A x \in S : w[x] \in Int /\ v[x] \in Int /\ u[x] = w[x] + v[x]
    OBVIOUS
<1>2. SumOver(u, S) = SumOver(w, S) + SumOver(v, S)
    BY <1>1, SumOfSums
<1>3. SumOver(u, S) \in Int /\ SumOver(v, S) \in Int /\ SumOver(w, S) \in Int
    BY <1>1, SumIsInt
<1> QED
    BY <1>2, <1>3

(* A sum may be taken group by group.                                      *)
Fibre(f, S, k) == {x \in S : f[x] = k}

LEMMA SumByFibres ==
    ASSUME NEW S, IsFiniteSet(S), NEW K, IsFiniteSet(K), NEW f, \A x \in S : f[x] \in K,
           NEW w, \A x \in S : w[x] \in Int,
           NEW g, \A k \in K : g[k] = SumOver(w, Fibre(f, S, k))
    PROVE  SumOver(w, S) = SumOver(g, K) /\ \A k \in K : g[k] \in Int
<1> DEFINE Of(L) == {x \in S : f[x] \in L}
           Good == {L \in SUBSET K : SumOver(w, Of(L)) = SumOver(g, L)}
<1>1. \A L : IsFiniteSet(Of(L)) /\ \A x \in Of(L) : w[x] \in Int
    BY FS_Subset
<1>2. ASSUME NEW k \in K
      PROVE  g[k] \in Int /\ IsFiniteSet(Fibre(f, S, k)) /\ \A x \in Fibre(f, S, k) : w[x] \in Int
    <2>1. IsFiniteSet(Fibre(f, S, k)) /\ \A x \in Fibre(f, S, k) : w[x] \in Int
        BY FS_Subset DEF Fibre
    <2> QED
        BY <2>1, SumIsInt
<1>3. {} \in Good
    <2>1. Of({}) = {}
        OBVIOUS
    <2> HIDE DEF Of
    <2> QED
        BY <2>1, SumOfNone
<1>4. ASSUME NEW L \in SUBSET K, NEW k \in K, L \in Good, k \notin L
      PROVE  L \cup {k} \in Good
    <2>1. Of(L \cup {k}) = Of(L) \cup Fibre(f, S, k) /\ Of(L) \cap Fibre(f, S, k) = {}
        BY <1>4 DEF Fibre
    <2>2. SumOver(w, Of(L)) = SumOver(g, L)
        BY <1>4
    <2> DEFINE a == Of(L)
               b == Fibre(f, S, k)
    <2>3. /\ IsFiniteSet(a) /\ IsFiniteSet(b) /\ a \cap b = {} /\ Of(L \cup {k}) = a \cup b
          /\ \A x \in a \cup b : w[x] \in Int
        BY <1>1, <1>2, <2>1
    <2> HIDE DEF Of, a, b
    <2>4. SumOver(w, Of(L \cup {k})) = SumOver(w, Of(L)) + SumOver(w, Fibre(f, S, k))
        <3>1. SumOver(w, a \cup b) = SumOver(w, a) + SumOver(w, b)
            BY <2>3, SumOfBoth
        <3> QED
            BY <2>3, <3>1 DEF a, b
    <2>5. IsFiniteSet(L) /\ \A x \in L \cup {k} : g[x] \in Int
        BY <1>2, FS_Subset
    <2>6. SumOver(g, L \cup {k}) = SumOver(g, L) + g[k]
        BY <1>4, <2>5, SumWith
    <2>7. SumOver(w, Of(L \cup {k})) = SumOver(g, L \cup {k})
        BY <2>2, <2>4, <2>6
    <2> QED
        BY <2>7
<1>5. K \in Good
    <2> HIDE DEF Good
    <2> QED
        BY <1>3, <1>4, FiniteSetInduction
<1>6. Of(K) = S
    OBVIOUS
<1> QED
    BY <1>2, <1>5, <1>6

(* A sum over a family of sets.                                            *)
Family(S, D) == UNION {{<<s, k>> : k \in D[s]} : s \in S}

LEMMA FamilyIsFinite ==
    ASSUME NEW S, IsFiniteSet(S), NEW D, \A s \in S : IsFiniteSet(D[s])
    PROVE  IsFiniteSet(Family(S, D))
<1> DEFINE rows == [s \in S |-> {<<s, k>> : k \in D[s]}]
<1>1. ASSUME NEW s \in S
      PROVE  IsFiniteSet(rows[s])
    <2> DEFINE named == [k \in D[s] |-> <<s, k>>]
    <2>1. rows[s] = {named[k] : k \in D[s]}
        OBVIOUS
    <2> HIDE DEF rows, named
    <2> QED
        BY <2>1, ImageIsFinite
<1>2. Family(S, D) = UNION {rows[s] : s \in S}
    BY DEF Family
<1> HIDE DEF rows
<1>3. IsFiniteSet({rows[s] : s \in S})
    BY ImageIsFinite
<1>4. \A r \in {rows[s] : s \in S} : IsFiniteSet(r)
    BY <1>1
<1> QED
    BY <1>2, <1>3, <1>4, FS_UNION

LEMMA SumOfFamily ==
    ASSUME NEW S, IsFiniteSet(S), NEW D, \A s \in S : IsFiniteSet(D[s]),
           NEW w, \A s \in S : \A k \in D[s] : w[<<s, k>>] \in Int,
           NEW v, \A s \in S : \A k \in D[s] : v[s][k] = w[<<s, k>>],
           NEW g, \A s \in S : g[s] = SumOver(v[s], D[s])
    PROVE  /\ IsFiniteSet(Family(S, D))
           /\ SumOver(w, Family(S, D)) = SumOver(g, S)
           /\ \A s \in S : g[s] \in Int
<1> DEFINE P == Family(S, D)
           f == [p \in P |-> p[1]]
           Row(s) == {<<s, k>> : k \in D[s]}
<1>1. \A p : p \in P <=> \E s \in S : \E k \in D[s] : p = <<s, k>>
    BY DEF Family
<1>2. ASSUME NEW s \in S
      PROVE  /\ IsFiniteSet(Row(s)) /\ \A p \in Row(s) : w[p] \in Int
             /\ SumOver(w, Row(s)) = SumOver(v[s], D[s])
    <2> DEFINE h == [k \in D[s] |-> <<s, k>>]
               r == Row(s)
               u == v[s]
    <2>1. r = {h[k] : k \in D[s]}
        OBVIOUS
    <2>2. IsNaming(h, D[s], r)
        BY DEF IsNaming
    <2>3. \A p \in r : w[p] \in Int
        OBVIOUS
    <2>4. \A k \in D[s] : Renamed(w, h, D[s])[k] = u[k]
        BY DEF Renamed
    <2> HIDE DEF h, r, u
    <2>5. IsFiniteSet(r)
        BY <2>1, ImageIsFinite
    <2>6. SumOver(w, r) = SumOver(Renamed(w, h, D[s]), D[s])
        BY <2>2, <2>3, SumRenamed
    <2>7. SumOver(Renamed(w, h, D[s]), D[s]) = SumOver(u, D[s])
        BY <2>4, SumAgrees
    <2> QED
        BY <2>3, <2>5, <2>6, <2>7 DEF r, u
<1>3. IsFiniteSet(P)
    BY FamilyIsFinite
<1>4. \A p \in P : f[p] \in S /\ w[p] \in Int
    BY <1>1
<1>5. \A s \in S : Fibre(f, P, s) = Row(s)
    <2> SUFFICES ASSUME NEW s \in S
                 PROVE  Fibre(f, P, s) = Row(s)
        OBVIOUS
    <2>1. \A p : p \in Fibre(f, P, s) <=> p \in P /\ p[1] = s
        BY DEF Fibre
    <2> HIDE DEF P
    <2> QED
        BY <1>1, <2>1
<1>6. \A s \in S : g[s] = SumOver(w, Fibre(f, P, s))
    BY <1>2, <1>5
<1> HIDE DEF P, f
<1>7. SumOver(w, P) = SumOver(g, S) /\ \A s \in S : g[s] \in Int
    BY ONLY IsFiniteSet(S), <1>3, <1>4, <1>6, SumByFibres
<1> QED
    BY <1>3, <1>7 DEF P

-----------------------------------------------------------------------------
(* Products.  Every product of the model is the product of a function over *)
(* a set.                                                                  *)
ProductOver(w, S) == FoldFunctionOnSet( *, 1, w, S)

ProductBody(f, w, S) ==
    [s \in SUBSET S |-> IF s = {} THEN 1 ELSE w[AnyOf(s)] * f[s \ {AnyOf(s)}]]

(* The recursions of products, and one step of a product, as for sums.      *)
LEMMA ProductBodiesAgree ==
    ASSUME NEW S, IsFiniteSet(S), NEW R, S \subseteq R, NEW w,
           NEW f, f = ProductBody(f, w, R), NEW g, g = ProductBody(g, w, S)
    PROVE  \A s \in SUBSET S : f[s] = g[s]
<1> DEFINE Good == {s \in SUBSET S : f[s] = g[s]}
<1>1. ASSUME NEW T \in SUBSET S, \A U \in SUBSET T : U # T => U \in Good
      PROVE  T \in Good
    <2>1. f[T] = IF T = {} THEN 1 ELSE w[AnyOf(T)] * f[T \ {AnyOf(T)}]
        BY DEF ProductBody
    <2>2. g[T] = IF T = {} THEN 1 ELSE w[AnyOf(T)] * g[T \ {AnyOf(T)}]
        BY DEF ProductBody
    <2>3. CASE T # {}
        <3>1. AnyOf(T) \in T
            BY <2>3 DEF AnyOf
        <3>2. f[T \ {AnyOf(T)}] = g[T \ {AnyOf(T)}]
            BY <1>1, <3>1
        <3> QED BY <2>1, <2>2, <3>2
    <2> QED BY <2>1, <2>2, <2>3
<1>2. SUBSET S \subseteq Good
    <2> HIDE DEF Good
    <2> QED BY <1>1, SubsetInduction
<1> QED BY <1>2

LEMMA PartialProducts ==
    ASSUME NEW S, IsFiniteSet(S), NEW w, \A x \in S : w[x] \in Int
    PROVE  \E f \in [SUBSET S -> Int] : f = ProductBody(f, w, S) /\ ProductOver(w, S) = f[S]
<1> DEFINE choice == [s \in SUBSET S |-> AnyOf(s)]
           step == [p \in S \X Int |-> w[p[1]] * p[2]]
<1>1. IsChoice(choice, S)
    BY DEF IsChoice, AnyOf
<1>2. \A x \in S, v \in Int : step[<<x, v>>] = w[x] * v
    OBVIOUS
<1>3. ASSUME NEW f \in [SUBSET S -> Int] PROVE FoldBody(f, S, choice, 1, step) = ProductBody(f, w, S)
    <2>1. ASSUME NEW s \in SUBSET S, s # {}
          PROVE  step[<<choice[s], f[s \ {choice[s]}]>>] = w[AnyOf(s)] * f[s \ {AnyOf(s)}]
        <3>1. choice[s] = AnyOf(s) /\ AnyOf(s) \in S
            BY <2>1 DEF AnyOf
        <3>2. f[s \ {AnyOf(s)}] \in Int
            OBVIOUS
        <3> HIDE DEF choice, step
        <3> QED BY <1>2, <3>1, <3>2
    <2> HIDE DEF choice, step
    <2> QED BY <2>1 DEF FoldBody, ProductBody
<1>4. PICK g \in [SUBSET S -> Int] : g = ProductBody(g, w, S)
    <2> HIDE DEF choice, step
    <2>1. IsStep(step, S, Int)
        <3>1. ASSUME NEW x \in S, NEW v \in Int PROVE step[<<x, v>>] \in Int
            <4>1. step[<<x, v>>] = w[x] * v /\ w[x] \in Int
                BY <1>2
            <4> QED BY <4>1
        <3> QED BY <3>1 DEF IsStep
    <2>2. \E g : IsFold(g, S, Int, choice, 1, step)
        <3>1. 1 \in Int
            OBVIOUS
        <3> QED BY <1>1, <2>1, <3>1, FoldExists
    <2> QED BY <1>3, <2>2 DEF IsFold
<1> DEFINE f == CHOOSE f : f = ProductBody(f, w, S)
<1>5. f = ProductBody(f, w, S)
    BY <1>4
<1>6. ProductOver(w, S) = f[S]
    BY DEF ProductOver, FoldFunctionOnSet, MapThenFoldSet, ProductBody, AnyOf
<1>7. f = g
    <2>3. f = [s \in SUBSET S |-> f[s]] /\ g = [s \in SUBSET S |-> g[s]]
        <3> HIDE DEF f
        <3> QED BY <1>5 DEF ProductBody
    <2>4. \A s \in SUBSET S : f[s] = g[s]
        <3> HIDE DEF f
        <3> QED BY <1>4, <1>5, ProductBodiesAgree
    <2> HIDE DEF f
    <2> QED BY <2>3, <2>4
<1> HIDE DEF f
<1> QED BY <1>5, <1>6, <1>7

LEMMA ProductUnfolds ==
    ASSUME NEW S, IsFiniteSet(S), NEW w, \A x \in S : w[x] \in Int
    PROVE  /\ ProductOver(w, S) \in Int
           /\ S = {} => ProductOver(w, S) = 1
           /\ S # {} => ProductOver(w, S) = w[AnyOf(S)] * ProductOver(w, S \ {AnyOf(S)})
<1>1. PICK f \in [SUBSET S -> Int] : f = ProductBody(f, w, S) /\ ProductOver(w, S) = f[S]
    BY PartialProducts
<1>2. ProductOver(w, S) \in Int /\ (S = {} => ProductOver(w, S) = 1)
    BY <1>1 DEF ProductBody
<1>3. CASE S # {}
    <2> DEFINE R == S \ {AnyOf(S)}
    <2>1. IsFiniteSet(R) /\ R \subseteq S
        BY FS_Subset
    <2>2. PICK g \in [SUBSET R -> Int] : g = ProductBody(g, w, R) /\ ProductOver(w, R) = g[R]
        BY <2>1, PartialProducts
    <2>4. f[R] = g[R]
        <3> HIDE DEF R
        <3> QED BY <1>1, <2>1, <2>2, ProductBodiesAgree
    <2>5. f[R] = ProductOver(w, R)
        BY <2>2, <2>4
    <2>6. f[S] = w[AnyOf(S)] * f[R]
        BY <1>1, <1>3 DEF ProductBody
    <2>7. ProductOver(w, S) = f[S]
        BY <1>1
    <2> HIDE DEF R
    <2> QED BY <1>2, <2>5, <2>6, <2>7 DEF R
<1> QED BY <1>2, <1>3

LEMMA ProductIsInt ==
    ASSUME NEW S, IsFiniteSet(S), NEW w, \A x \in S : w[x] \in Int
    PROVE  ProductOver(w, S) \in Int
BY ProductUnfolds

LEMMA ProductOfNone == ASSUME NEW w PROVE ProductOver(w, {}) = 1
<1>1. IsFiniteSet({}) /\ \A x \in {} : w[x] \in Int
    BY FS_EmptySet
<1> QED BY <1>1, ProductUnfolds

(* An element multiplies a product by its own weight, whichever element    *)
(* was taken first.                                                        *)
LEMMA ProductOfOneMore ==
    ASSUME NEW S, IsFiniteSet(S), NEW w, \A x \in S : w[x] \in Int, NEW y \in S
    PROVE  ProductOver(w, S) = w[y] * ProductOver(w, S \ {y})
<1> DEFINE Good == {s \in SUBSET S : \A x \in s : ProductOver(w, s) = w[x] * ProductOver(w, s \ {x})}
<1>1. ASSUME NEW T \in SUBSET S, \A U \in SUBSET T : U # T => U \in Good,
             NEW x \in T
      PROVE  ProductOver(w, T) = w[x] * ProductOver(w, T \ {x})
    <2> DEFINE a == AnyOf(T)
    <2>1. a \in T
        BY DEF AnyOf
    <2>2. \A U \in SUBSET T : IsFiniteSet(U) /\ \A z \in U : w[z] \in Int
        BY FS_Subset
    <2>3. \A U \in SUBSET T : ProductOver(w, U) \in Int
        BY <2>2, ProductIsInt
    <2>4. ProductOver(w, T) = w[a] * ProductOver(w, T \ {a})
        BY <2>2, ProductUnfolds
    <2>5. CASE a # x
        <3>1. ProductOver(w, T \ {a}) = w[x] * ProductOver(w, (T \ {a}) \ {x})
            BY <1>1, <2>1, <2>5
        <3>2. ProductOver(w, T \ {x}) = w[a] * ProductOver(w, (T \ {x}) \ {a})
            BY <1>1, <2>1, <2>5
        <3>3. ProductOver(w, (T \ {a}) \ {x}) = ProductOver(w, (T \ {x}) \ {a})
            <4>1. (T \ {a}) \ {x} = (T \ {x}) \ {a}
                OBVIOUS
            <4> QED BY <4>1
        <3>4. w[a] \in Int /\ w[x] \in Int /\ ProductOver(w, (T \ {x}) \ {a}) \in Int
            BY <2>1, <2>3
        <3> HIDE DEF a
        <3> QED BY <2>4, <3>1, <3>2, <3>3, <3>4
    <2> QED BY <2>4, <2>5
<1>2. SUBSET S \subseteq Good
    <2>1. ASSUME NEW T \in SUBSET S, \A U \in SUBSET T : U # T => U \in Good
          PROVE  T \in Good
        <3> HIDE DEF Good
        <3>1. \A x \in T : ProductOver(w, T) = w[x] * ProductOver(w, T \ {x})
            BY <1>1, <2>1
        <3> QED BY <3>1 DEF Good
    <2> HIDE DEF Good
    <2> QED BY <2>1, SubsetInduction
<1> QED BY <1>2

LEMMA ProductWith ==
    ASSUME NEW S, IsFiniteSet(S), NEW y, y \notin S, NEW w, \A x \in S \cup {y} : w[x] \in Int
    PROVE  ProductOver(w, S \cup {y}) = ProductOver(w, S) * w[y]
<1>1. IsFiniteSet(S \cup {y}) /\ (S \cup {y}) \ {y} = S
    BY FS_AddElement
<1>2. ProductOver(w, S \cup {y}) = w[y] * ProductOver(w, (S \cup {y}) \ {y})
    BY <1>1, ProductOfOneMore
<1>3. ProductOver(w, S \cup {y}) = w[y] * ProductOver(w, S)
    BY <1>1, <1>2
<1>4. ProductOver(w, S) \in Int /\ w[y] \in Int
    BY ProductIsInt
<1> QED BY <1>3, <1>4

LEMMA ProductOfOne ==
    ASSUME NEW w, NEW x, w[x] \in Int
    PROVE  ProductOver(w, {x}) = w[x]
<1>1. IsFiniteSet({}) /\ x \notin {} /\ \A y \in {} \cup {x} : w[y] \in Int
    BY FS_EmptySet
<1>2. ProductOver(w, {} \cup {x}) = ProductOver(w, {}) * w[x]
    BY <1>1, ProductWith
<1>3. ProductOver(w, {}) = 1 /\ {} \cup {x} = {x}
    BY ProductOfNone
<1> QED BY <1>2, <1>3

(* Weights that agree on a set have one product over it.                   *)
LEMMA ProductAgrees ==
    ASSUME NEW S, IsFiniteSet(S), NEW v, NEW w, \A x \in S : v[x] = w[x]
    PROVE  ProductOver(v, S) = ProductOver(w, S)
<1> DEFINE V(f) == ProductBody(f, v, S)
           W(f) == ProductBody(f, w, S)
<1>1. ASSUME NEW f PROVE V(f) = W(f)
    <2>1. ASSUME NEW s \in SUBSET S, s # {} PROVE v[AnyOf(s)] = w[AnyOf(s)]
        BY <2>1 DEF AnyOf
    <2> QED BY <2>1 DEF ProductBody
<1>2. (CHOOSE f : f = V(f)) = (CHOOSE f : f = W(f))
    <2> HIDE DEF V, W
    <2> QED BY <1>1, Zenon
<1>3. ProductOver(v, S) = (CHOOSE f : f = V(f))[S]
    BY DEF ProductOver, FoldFunctionOnSet, MapThenFoldSet, ProductBody, AnyOf
<1>4. ProductOver(w, S) = (CHOOSE f : f = W(f))[S]
    BY DEF ProductOver, FoldFunctionOnSet, MapThenFoldSet, ProductBody, AnyOf
<1> QED BY <1>2, <1>3, <1>4

(* The product over two sets that share nothing.                           *)
LEMMA ProductOfBoth ==
    ASSUME NEW S, IsFiniteSet(S), NEW T, IsFiniteSet(T), S \cap T = {},
           NEW w, \A x \in S \cup T : w[x] \in Int
    PROVE  ProductOver(w, S \cup T) = ProductOver(w, S) * ProductOver(w, T)
<1> DEFINE Good == {U \in SUBSET T : ProductOver(w, S \cup U) = ProductOver(w, S) * ProductOver(w, U)}
<1>1. ProductOver(w, S) \in Int
    BY ProductIsInt
<1>2. {} \in Good
    <2>1. ProductOver(w, {}) = 1 /\ S \cup {} = S
        BY ProductOfNone
    <2>2. ProductOver(w, S \cup {}) = ProductOver(w, S) * ProductOver(w, {})
        BY <1>1, <2>1
    <2> QED BY <2>2
<1>3. ASSUME NEW U \in SUBSET T, NEW x \in T, U \in Good, x \notin U
      PROVE  U \cup {x} \in Good
    <2>1. IsFiniteSet(U) /\ IsFiniteSet(S \cup U)
        BY FS_Subset, FS_Union
    <2>2. ProductOver(w, U) \in Int /\ w[x] \in Int
        BY <2>1, ProductIsInt
    <2>3. ProductOver(w, U \cup {x}) = ProductOver(w, U) * w[x]
        BY <1>3, <2>1, ProductWith
    <2>4. ProductOver(w, (S \cup U) \cup {x}) = ProductOver(w, S \cup U) * w[x]
        <3>1. x \notin S \cup U /\ \A z \in (S \cup U) \cup {x} : w[z] \in Int
            BY <1>3
        <3> QED BY <2>1, <3>1, ProductWith
    <2>5. (S \cup U) \cup {x} = S \cup (U \cup {x})
        OBVIOUS
    <2>6. ProductOver(w, S \cup (U \cup {x})) = ProductOver(w, S \cup U) * w[x]
        BY <2>4, <2>5
    <2>7. ProductOver(w, S \cup U) = ProductOver(w, S) * ProductOver(w, U)
        BY <1>3
    <2>8. ProductOver(w, S \cup (U \cup {x})) = ProductOver(w, S) * ProductOver(w, U \cup {x})
        BY <1>1, <2>2, <2>3, <2>6, <2>7
    <2> QED BY <2>8
<1>4. T \in Good
    <2> HIDE DEF Good
    <2> QED BY <1>2, <1>3, FiniteSetInduction
<1> QED BY <1>4

(* A product of products, of the same elements.                            *)
LEMMA ProductOfProducts ==
    ASSUME NEW S, IsFiniteSet(S), NEW u, NEW v, NEW w,
           \A x \in S : u[x] \in Int /\ v[x] \in Int /\ w[x] = u[x] * v[x]
    PROVE  ProductOver(w, S) = ProductOver(u, S) * ProductOver(v, S)
<1> DEFINE Good == {U \in SUBSET S : ProductOver(w, U) = ProductOver(u, U) * ProductOver(v, U)}
<1>1. {} \in Good
    <2>1. ProductOver(w, {}) = 1 /\ ProductOver(u, {}) = 1 /\ ProductOver(v, {}) = 1
        BY ProductOfNone
    <2> QED BY <2>1
<1>2. ASSUME NEW U \in SUBSET S, NEW x \in S, U \in Good, x \notin U
      PROVE  U \cup {x} \in Good
    <2>1. IsFiniteSet(U)
        BY FS_Subset
    <2>2. \A z \in U \cup {x} : u[z] \in Int /\ v[z] \in Int /\ w[z] \in Int
        OBVIOUS
    <2>3. ProductOver(u, U) \in Int /\ ProductOver(v, U) \in Int
        BY <2>1, <2>2, ProductIsInt
    <2>4. /\ ProductOver(u, U \cup {x}) = ProductOver(u, U) * u[x]
          /\ ProductOver(v, U \cup {x}) = ProductOver(v, U) * v[x]
          /\ ProductOver(w, U \cup {x}) = ProductOver(w, U) * w[x]
        BY <1>2, <2>1, <2>2, ProductWith
    <2>5. ProductOver(w, U) = ProductOver(u, U) * ProductOver(v, U)
        BY <1>2
    <2>6. u[x] \in Int /\ v[x] \in Int /\ w[x] = u[x] * v[x]
        OBVIOUS
    <2>7. ProductOver(w, U \cup {x}) = ProductOver(u, U \cup {x}) * ProductOver(v, U \cup {x})
        BY <2>3, <2>4, <2>5, <2>6
    <2> QED BY <2>7
<1>3. S \in Good
    <2> HIDE DEF Good
    <2> QED BY <1>1, <1>2, FiniteSetInduction
<1> QED BY <1>3

(* No product of numbers other than zero is zero.                          *)
LEMMA ProductNotZero ==
    ASSUME NEW S, IsFiniteSet(S), NEW w, \A x \in S : w[x] \in Int \ {0}
    PROVE  ProductOver(w, S) \in Int \ {0}
<1> DEFINE Good == {U \in SUBSET S : ProductOver(w, U) \in Int \ {0}}
<1>1. {} \in Good
    BY ProductOfNone
<1>2. ASSUME NEW U \in SUBSET S, NEW x \in S, U \in Good, x \notin U
      PROVE  U \cup {x} \in Good
    <2>1. IsFiniteSet(U) /\ \A z \in U \cup {x} : w[z] \in Int
        BY FS_Subset
    <2>2. ProductOver(w, U \cup {x}) = ProductOver(w, U) * w[x]
        BY <1>2, <2>1, ProductWith
    <2>3. ProductOver(w, U) \in Int \ {0} /\ w[x] \in Int \ {0}
        BY <1>2
    <2>4. ASSUME NEW a \in Int \ {0}, NEW b \in Int \ {0} PROVE a * b \in Int \ {0}
        OBVIOUS
    <2>5. ProductOver(w, U \cup {x}) \in Int \ {0}
        BY <2>2, <2>3, <2>4
    <2> QED BY <2>5
<1>3. S \in Good
    <2> HIDE DEF Good
    <2> QED BY <1>1, <1>2, FiniteSetInduction
<1> QED BY <1>3

(* A product may be taken over other names of its elements.                *)
LEMMA ProductRenamed ==
    ASSUME NEW S, IsFiniteSet(S), NEW T, NEW f, IsNaming(f, S, T),
           NEW w, \A y \in T : w[y] \in Int
    PROVE  ProductOver(w, T) = ProductOver(Renamed(w, f, S), S)
<1> DEFINE Img(U) == {f[x] : x \in U}
           v == Renamed(w, f, S)
           Good == {U \in SUBSET S : ProductOver(w, Img(U)) = ProductOver(v, U)}
<1>1. {} \in Good
    <2>1. Img({}) = {}
        OBVIOUS
    <2>2. ProductOver(w, Img({})) = 1 /\ ProductOver(v, {}) = 1
        <3> HIDE DEF v
        <3> QED BY <2>1, ProductOfNone
    <2> QED BY <2>2
<1>2. ASSUME NEW U \in SUBSET S, NEW x \in S, U \in Good, x \notin U
      PROVE  U \cup {x} \in Good
    <2>1. Img(U \cup {x}) = Img(U) \cup {f[x]} /\ f[x] \notin Img(U)
        BY <1>2 DEF IsNaming
    <2>2. IsFiniteSet(U) /\ IsFiniteSet(Img(U))
        BY FS_Subset, ImageIsFinite
    <2>3. \A y \in Img(U) \cup {f[x]} : w[y] \in Int
        BY DEF IsNaming
    <2>4. ProductOver(w, Img(U) \cup {f[x]}) = ProductOver(w, Img(U)) * w[f[x]]
        <3> HIDE DEF Img
        <3> QED BY <2>1, <2>2, <2>3, ProductWith
    <2>5. \A y \in U \cup {x} : v[y] = w[f[y]] /\ v[y] \in Int
        BY DEF Renamed, IsNaming
    <2>6. ProductOver(v, U \cup {x}) = ProductOver(v, U) * v[x]
        <3> HIDE DEF v
        <3> QED BY <1>2, <2>2, <2>5, ProductWith
    <2>7. ProductOver(w, Img(U \cup {x})) = ProductOver(w, Img(U)) * w[f[x]]
        BY <2>1, <2>4
    <2>8. ProductOver(w, Img(U \cup {x})) = ProductOver(v, U \cup {x})
        <3> HIDE DEF v, Img
        <3> QED BY <1>2, <2>5, <2>6, <2>7
    <2> QED BY <2>8
<1>3. S \in Good
    <2> HIDE DEF Good
    <2> QED BY <1>1, <1>2, FiniteSetInduction
<1>4. Img(S) = T
    BY DEF IsNaming
<1>5. ProductOver(w, Img(S)) = ProductOver(v, S)
    BY <1>3
<1> QED BY <1>4, <1>5

-----------------------------------------------------------------------------
(* Recursion over the naturals, as far as a bound.                         *)
RecursionBody(f, n, base, step) ==
    [m \in 0..n |-> IF m = 0 THEN base ELSE step[<<m, f[m - 1]>>]]

IsDefined(n, Values, base, step) ==
    \E f \in [0..n -> Values] : f = RecursionBody(f, n, base, step)

LEMMA RecursionExists ==
    ASSUME NEW Values, NEW base \in Values, NEW step,
           \A m \in Nat, v \in Values : step[<<m, v>>] \in Values,
           NEW n \in Nat
    PROVE  IsDefined(n, Values, base, step)
<1> DEFINE Good == {k \in Nat : \E f \in [0..k -> Values] : f = RecursionBody(f, k, base, step)}
<1>1. 0 \in Good
    <2> DEFINE f == [m \in 0..0 |-> base]
    <2>1. f \in [0..0 -> Values] /\ f = RecursionBody(f, 0, base, step)
        BY DEF RecursionBody
    <2> QED BY <2>1
<1>2. ASSUME NEW k \in Nat, k \in Good PROVE k + 1 \in Good
    <2>1. PICK f \in [0..k -> Values] : f = RecursionBody(f, k, base, step)
        BY <1>2
    <2> DEFINE g == [m \in 0..(k + 1) |-> IF m = k + 1 THEN step[<<m, f[k]>>] ELSE f[m]]
    <2>2. g \in [0..(k + 1) -> Values]
        BY <2>1
    <2>3. ASSUME NEW m \in 0..(k + 1)
          PROVE  g[m] = IF m = 0 THEN base ELSE step[<<m, g[m - 1]>>]
        <3>1. \A j \in 0..k : f[j] = IF j = 0 THEN base ELSE step[<<j, f[j - 1]>>]
            BY <2>1 DEF RecursionBody
        <3>2. g[k + 1] = step[<<k + 1, f[k]>>] /\ \A j \in 0..k : g[j] = f[j]
            OBVIOUS
        <3> HIDE DEF g
        <3>3. CASE m = k + 1
            <4>1. m - 1 = k /\ m # 0 /\ k \in 0..k
                BY <3>3
            <4> QED BY <3>2, <3>3, <4>1
        <3>4. CASE m # k + 1
            <4>1. m \in 0..k /\ (m # 0 => m - 1 \in 0..k)
                BY <3>4
            <4> QED BY <3>1, <3>2, <4>1
        <3> QED BY <3>3, <3>4
    <2>4. g = RecursionBody(g, k + 1, base, step)
        BY <2>3 DEF RecursionBody
    <2> HIDE DEF g
    <2> QED BY <2>2, <2>4
<1>3. Nat \subseteq Good
    <2> HIDE DEF Good
    <2> QED BY <1>1, <1>2, NatSetInduction
<1> QED BY <1>3 DEF IsDefined
=============================================================================
