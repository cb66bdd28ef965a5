------------------------------ MODULE SumProofs ------------------------------
(***************************************************************************)
(* Lemmas about sums over finite sets and about the data they range over.  *)
(*                                                                         *)
(* The library's principles of induction have an operator as parameter;    *)
(* its theorem on minimal elements (WFMin) has none, so each induction     *)
(* here looks at a smallest counterexample.                                *)
(***************************************************************************)
EXTENDS Sums, FiniteSetTheorems, TLAPS

\* A family of subsets of a finite set has a minimal member.
LEMMA Minimal ==
    ASSUME NEW S, IsFiniteSet(S), NEW F \in SUBSET SUBSET S, F # {}
    PROVE  \E T \in F : \A U \in F : U \subseteq T => U = T
<1>1. FiniteSubsetsOf(S) = SUBSET S
    BY FS_FiniteSubsetsOfFinite
<1>2. IsWellFoundedOn(StrictSubsetOrdering(S), SUBSET S)
    BY <1>1, FS_StrictSubsetOrderingWellFounded
<1>3. PICK T \in F : \A U \in F : ~ (<<U, T>> \in StrictSubsetOrdering(S))
    BY <1>2, WFMin
<1>4. ASSUME NEW U \in F, U \subseteq T PROVE U = T
    <2>1. <<U, T>> \notin StrictSubsetOrdering(S)
        BY <1>3
    <2>2. <<U, T>> \in (SUBSET S) \X (SUBSET S)
        BY <1>3
    <2> QED
        BY <2>1, <2>2, <1>4 DEF StrictSubsetOrdering
<1> QED
    BY <1>3, <1>4

-----------------------------------------------------------------------------
(***************************************************************************)
(* SumOver is what it looks like.  The definition is a recursive function  *)
(* on the subsets: it has one solution, and restricting the solution to    *)
(* the subsets of a subset gives the solution for that.                    *)
(***************************************************************************)

\* The element that the fold takes first.
Pick(s) == CHOOSE x \in s : TRUE

\* g solves the recursion for the sum of f over S.
Steps(f, S, g) ==
    g = [s \in SUBSET S |-> IF s = {} THEN 0 ELSE f[Pick(s)] + g[s \ {Pick(s)}]]

\* It is an element.
LEMMA Picked == ASSUME NEW s, s # {} PROVE Pick(s) \in s
BY DEF Pick

\* The definitions of the community modules, unfolded.
LEMMA Unfold ==
    ASSUME NEW f, NEW S PROVE SumOver(f, S) = (CHOOSE g : Steps(f, S, g))[S]
BY DEF SumOver, MapThenSumSet, MapThenFoldSet, Steps, Pick

\* One step of the recursion.
LEMMA StepsAt ==
    ASSUME NEW f, NEW S, NEW g, Steps(f, S, g), NEW s \in SUBSET S
    PROVE  g[s] = IF s = {} THEN 0 ELSE f[Pick(s)] + g[s \ {Pick(s)}]
BY DEF Steps

\* There is at most one.
LEMMA OneSolution ==
    ASSUME NEW f, NEW S, IsFiniteSet(S), NEW g, NEW h, Steps(f, S, g), Steps(f, S, h)
    PROVE  \A s \in SUBSET S : g[s] = h[s]
<1> DEFINE F == {s \in SUBSET S : g[s] # h[s]}
<1> SUFFICES ASSUME F # {} PROVE FALSE
    OBVIOUS
<1>1. F \in SUBSET SUBSET S
    OBVIOUS
<1>2. PICK T \in F : \A U \in F : U \subseteq T => U = T
    <2> HIDE DEF F
    <2> QED
        BY <1>1, Minimal
<1>3. T # {}
    BY StepsAt
<1>4. Pick(T) \in T /\ T \ {Pick(T)} \notin F /\ T \ {Pick(T)} \in SUBSET S
    BY <1>2, <1>3, Picked
<1>5. g[T \ {Pick(T)}] = h[T \ {Pick(T)}]
    BY <1>4
<1>6. T \in SUBSET S /\ g[T] # h[T]
    OBVIOUS
<1> QED
    BY <1>3, <1>5, <1>6, StepsAt

\* A solution contains those for the subsets.
LEMMA Narrower ==
    ASSUME NEW f, NEW S, NEW g, Steps(f, S, g), NEW T \in SUBSET S
    PROVE  Steps(f, T, [s \in SUBSET T |-> g[s]])
<1> DEFINE h == [s \in SUBSET T |-> g[s]]
<1>1. ASSUME NEW s \in SUBSET T
      PROVE  h[s] = IF s = {} THEN 0 ELSE f[Pick(s)] + h[s \ {Pick(s)}]
    BY StepsAt
<1>2. h = [s \in SUBSET T |-> h[s]]
    OBVIOUS
<1> HIDE DEF h
<1>3. Steps(f, T, h)
    BY <1>1, <1>2 DEF Steps
<1> QED
    BY <1>3 DEF h

\* There is one: from the solutions for all smaller sets, if those exist.
LEMMA Solvable ==
    ASSUME NEW f, NEW S, IsFiniteSet(S)
    PROVE  \E g : Steps(f, S, g)
<1> DEFINE F == {T \in SUBSET S : ~ \E g : Steps(f, T, g)}
<1> SUFFICES ASSUME F # {} PROVE FALSE
    OBVIOUS
<1>1. PICK T \in F : \A U \in F : U \subseteq T => U = T
    <2>1. F \in SUBSET SUBSET S
        OBVIOUS
    <2> HIDE DEF F
    <2> QED
        BY <2>1, Minimal
<1> DEFINE G(U) == CHOOSE g : Steps(f, U, g)
           V(U) == G(U)[U]
           h == [s \in SUBSET T |-> IF s = {} THEN 0 ELSE f[Pick(s)] + V(s \ {Pick(s)})]
<1>2. \A U \in SUBSET T : U # T => Steps(f, U, G(U))
    BY <1>1
<1>3. ASSUME NEW U \in SUBSET T, U # T, NEW W \in SUBSET U
      PROVE  G(U)[W] = V(W)
    <2>1. Steps(f, U, G(U)) /\ Steps(f, W, G(W))
        BY <1>2, <1>3
    <2> HIDE DEF G
    <2>2. Steps(f, W, [s \in SUBSET W |-> G(U)[s]])
        BY <2>1, Narrower
    <2>3. IsFiniteSet(W)
        BY FS_Subset
    <2>4. [s \in SUBSET W |-> G(U)[s]][W] = G(W)[W]
        BY <2>1, <2>2, <2>3, OneSolution
    <2> QED
        BY <2>4
<1>4. ASSUME NEW U \in SUBSET T, U # T
      PROVE  V(U) = h[U]
    <2>1. Steps(f, U, G(U))
        BY <1>2, <1>4
    <2> HIDE DEF G
    <2>2. V(U) = IF U = {} THEN 0 ELSE f[Pick(U)] + G(U)[U \ {Pick(U)}]
        BY <2>1, StepsAt
    <2>3. G(U)[U \ {Pick(U)}] = V(U \ {Pick(U)})
        BY <1>3, <1>4
    <2> HIDE DEF V
    <2> QED
        BY <2>2, <2>3
<1>5. ASSUME NEW s \in SUBSET T
      PROVE  h[s] = IF s = {} THEN 0 ELSE f[Pick(s)] + h[s \ {Pick(s)}]
    <2>1. s # {} => s \ {Pick(s)} \in SUBSET T /\ s \ {Pick(s)} # T
        BY Picked
    <2> HIDE DEF G
    <2>2. s # {} => V(s \ {Pick(s)}) = h[s \ {Pick(s)}]
        BY <1>4, <2>1
    <2>3. h[s] = IF s = {} THEN 0 ELSE f[Pick(s)] + V(s \ {Pick(s)})
        OBVIOUS
    <2> HIDE DEF h, V
    <2> QED
        BY <2>2, <2>3
<1>6. h = [s \in SUBSET T |-> h[s]]
    OBVIOUS
<1> HIDE DEF h
<1>7. Steps(f, T, h)
    BY <1>5, <1>6 DEF Steps
<1> QED
    BY <1>7

\* The sum of a finite set is that of one element and of the rest.
LEMMA SumStep ==
    ASSUME NEW f, NEW S, IsFiniteSet(S)
    PROVE  SumOver(f, S) = IF S = {} THEN 0 ELSE f[Pick(S)] + SumOver(f, S \ {Pick(S)})
<1> DEFINE G(U) == CHOOSE g : Steps(f, U, g)
<1>1. \A U \in SUBSET S : Steps(f, U, G(U)) /\ IsFiniteSet(U)
    BY Solvable, FS_Subset
<1>2. \A U \in SUBSET S : SumOver(f, U) = G(U)[U]
    BY Unfold
<1> HIDE DEF G
<1> DEFINE R == S \ {Pick(S)}
<1>3. G(S)[S] = IF S = {} THEN 0 ELSE f[Pick(S)] + G(S)[R]
    BY <1>1, StepsAt
<1>4. R \in SUBSET S
    OBVIOUS
<1> HIDE DEF R
<1>5. G(S)[R] = G(R)[R]
    <2>1. Steps(f, R, [s \in SUBSET R |-> G(S)[s]])
        BY <1>1, <1>4, Narrower
    <2>2. [s \in SUBSET R |-> G(S)[s]][R] = G(R)[R]
        BY <1>1, <1>4, <2>1, OneSolution
    <2> QED
        BY <2>2
<1> QED
    BY <1>2, <1>3, <1>4, <1>5 DEF R

-----------------------------------------------------------------------------
\* Finitely many integers.
Summable(f, S) == IsFiniteSet(S) /\ \A x \in S : f[x] \in Int

\* A sum of integers is one.
LEMMA SumType ==
    ASSUME NEW f, NEW S, Summable(f, S)
    PROVE  SumOver(f, S) \in Int
<1> DEFINE F == {T \in SUBSET S : SumOver(f, T) \notin Int}
<1> SUFFICES ASSUME F # {} PROVE FALSE
    OBVIOUS
<1>1. PICK T \in F : \A U \in F : U \subseteq T => U = T
    <2>1. F \in SUBSET SUBSET S /\ IsFiniteSet(S)
        BY DEF Summable
    <2> HIDE DEF F
    <2> QED
        BY <2>1, Minimal
<1>2. SumOver(f, T) = IF T = {} THEN 0 ELSE f[Pick(T)] + SumOver(f, T \ {Pick(T)})
    BY SumStep, FS_Subset DEF Summable
<1>3. CASE T # {}
    <2>1. Pick(T) \in T /\ T \ {Pick(T)} \notin F /\ T \ {Pick(T)} \in SUBSET S
        BY <1>1, <1>3, Picked
    <2>2. SumOver(f, T \ {Pick(T)}) \in Int /\ f[Pick(T)] \in Int
        BY <2>1 DEF Summable
    <2> QED
        BY <1>2, <1>3, <2>2
<1> QED
    BY <1>2, <1>3

\* The order in which a sum is taken does not matter: any element can be first.
LEMMA SumRemove ==
    ASSUME NEW f, NEW S, Summable(f, S), NEW x \in S
    PROVE  SumOver(f, S) = f[x] + SumOver(f, S \ {x})
<1> DEFINE F == {T \in SUBSET S : \E y \in T : SumOver(f, T) # f[y] + SumOver(f, T \ {y})}
<1> SUFFICES ASSUME F # {} PROVE FALSE
    <2>1. S \notin F
        OBVIOUS
    <2> QED
        BY <2>1
<1>1. PICK T \in F : \A U \in F : U \subseteq T => U = T
    <2>1. F \in SUBSET SUBSET S /\ IsFiniteSet(S)
        BY DEF Summable
    <2> HIDE DEF F
    <2> QED
        BY <2>1, Minimal
<1>2. PICK y \in T : SumOver(f, T) # f[y] + SumOver(f, T \ {y})
    OBVIOUS
<1> DEFINE p == Pick(T)
<1>3. p \in T
    BY Picked
<1>4. \A U \in SUBSET S : IsFiniteSet(U) /\ SumOver(f, U) \in Int
    <2> SUFFICES ASSUME NEW U \in SUBSET S PROVE IsFiniteSet(U) /\ SumOver(f, U) \in Int
        OBVIOUS
    <2>1. Summable(f, U)
        BY FS_Subset DEF Summable
    <2> QED
        BY <2>1, SumType DEF Summable
<1>5. \A U \in SUBSET S : U # {} =>
          SumOver(f, U) = f[Pick(U)] + SumOver(f, U \ {Pick(U)})
    BY <1>4, SumStep
<1>6. T \in SUBSET S
    OBVIOUS
<1>7. p # y
    BY <1>2, <1>5, <1>6
<1>8. \A U \in SUBSET T : U # T => U \notin F
    BY <1>1
<1> HIDE DEF p
<1>9. SumOver(f, T \ {p}) = f[y] + SumOver(f, (T \ {p}) \ {y})
    <2>1. T \ {p} \notin F /\ T \ {p} \in SUBSET S /\ y \in T \ {p}
        BY <1>3, <1>6, <1>7, <1>8
    <2> QED
        BY <2>1
<1>10. SumOver(f, T \ {y}) = f[p] + SumOver(f, (T \ {y}) \ {p})
    <2>1. T \ {y} \notin F /\ T \ {y} \in SUBSET S /\ p \in T \ {y}
        BY <1>3, <1>6, <1>7, <1>8
    <2> QED
        BY <2>1
<1>11. SumOver(f, T) = f[p] + SumOver(f, T \ {p})
    BY <1>5, <1>6 DEF p
<1> DEFINE R == (T \ {p}) \ {y}
<1>12. (T \ {y}) \ {p} = R /\ R \in SUBSET S
    BY <1>6
<1> HIDE DEF F, R
<1>13. f[p] \in Int /\ f[y] \in Int /\ SumOver(f, R) \in Int
    BY <1>3, <1>4, <1>6, <1>12 DEF Summable
<1>14. SumOver(f, T) = f[p] + (f[y] + SumOver(f, R))
    BY <1>9, <1>11 DEF R
<1>15. SumOver(f, T \ {y}) = f[p] + SumOver(f, R)
    BY <1>10, <1>12
<1> QED
    BY <1>2, <1>13, <1>14, <1>15

\* The sum of nothing.
LEMMA SumEmpty == ASSUME NEW f PROVE SumOver(f, {}) = 0
BY SumStep, FS_EmptySet

\* One more element.
LEMMA SumAdd ==
    ASSUME NEW f, NEW S, NEW x, x \notin S, Summable(f, S \cup {x})
    PROVE  SumOver(f, S \cup {x}) = f[x] + SumOver(f, S)
<1>1. (S \cup {x}) \ {x} = S
    OBVIOUS
<1> QED
    BY <1>1, SumRemove

\* Induction on finite sets.
LEMMA SetInduction ==
    ASSUME NEW S, IsFiniteSet(S), NEW G \in SUBSET SUBSET S, {} \in G,
           \A T \in G, x \in S : x \notin T => T \cup {x} \in G
    PROVE  S \in G
<1> DEFINE F == (SUBSET S) \ G
<1> SUFFICES ASSUME F # {} PROVE FALSE
    OBVIOUS
<1>1. PICK T \in F : \A U \in F : U \subseteq T => U = T
    <2>1. F \in SUBSET SUBSET S
        OBVIOUS
    <2> HIDE DEF F
    <2> QED
        BY <2>1, Minimal
<1>2. PICK x \in T : TRUE
    OBVIOUS
<1>3. T \ {x} \in G
    BY <1>1
<1>4. (T \ {x}) \cup {x} = T
    OBVIOUS
<1>5. x \in S /\ x \notin T \ {x}
    OBVIOUS
<1>6. T \in G
    BY <1>3, <1>4, <1>5
<1> QED
    BY <1>6

\* A sum grows with its elements.
LEMMA SumOrder ==
    ASSUME NEW f, NEW g, NEW S, Summable(f, S), Summable(g, S),
           \A x \in S : f[x] <= g[x]
    PROVE  SumOver(f, S) <= SumOver(g, S)
<1> DEFINE G == {T \in SUBSET S : SumOver(f, T) <= SumOver(g, T)}
<1>1. IsFiniteSet(S) /\ G \in SUBSET SUBSET S
    BY DEF Summable
<1>2. {} \in G
    BY SumEmpty
<1>3. ASSUME NEW T \in G, NEW x \in S, x \notin T PROVE T \cup {x} \in G
    <2>1. T \cup {x} \in SUBSET S
        OBVIOUS
    <2>2. IsFiniteSet(T) /\ IsFiniteSet(T \cup {x})
        BY <1>1, <2>1, FS_Subset
    <2>3. Summable(f, T \cup {x}) /\ Summable(g, T \cup {x}) /\ Summable(f, T) /\ Summable(g, T)
        BY <2>1, <2>2 DEF Summable
    <2>4. /\ SumOver(f, T \cup {x}) = f[x] + SumOver(f, T)
          /\ SumOver(g, T \cup {x}) = g[x] + SumOver(g, T)
        BY <1>3, <2>3, SumAdd
    <2>5. f[x] \in Int /\ g[x] \in Int /\ SumOver(f, T) \in Int /\ SumOver(g, T) \in Int
        BY <2>3, SumType DEF Summable
    <2>6. SumOver(f, T) <= SumOver(g, T) /\ f[x] <= g[x]
        OBVIOUS
    <2>7. SumOver(f, T \cup {x}) <= SumOver(g, T \cup {x})
        BY <2>4, <2>5, <2>6
    <2> QED
        BY <2>1, <2>7
<1> HIDE DEF G
<1>4. S \in G
    BY <1>1, <1>2, <1>3, SetInduction
<1> QED
    BY <1>4 DEF G

\* A sum depends on nothing but the values of its elements.
LEMMA SumSame ==
    ASSUME NEW f, NEW g, NEW S, Summable(f, S), Summable(g, S),
           \A x \in S : f[x] = g[x]
    PROVE  SumOver(f, S) = SumOver(g, S)
<1>1. \A x \in S : f[x] <= g[x] /\ g[x] <= f[x]
    BY DEF Summable
<1>2. SumOver(f, S) <= SumOver(g, S) /\ SumOver(g, S) <= SumOver(f, S)
    BY <1>1, SumOrder
<1> QED
    BY <1>2, SumType

\* If every element of A that is in B gained at most h and every other has at
\* most h, the total over A exceeds that over what is also in B by at most h's.
LEMMA SumGain ==
    ASSUME NEW f, NEW g, NEW h, NEW A, NEW B,
           Summable(f, A), Summable(g, A \cap B), Summable(h, A),
           \A x \in A : f[x] <= h[x] + (IF x \in B THEN g[x] ELSE 0)
    PROVE  SumOver(f, A) <= SumOver(h, A) + SumOver(g, A \cap B)
<1> DEFINE G == {T \in SUBSET A : SumOver(f, T) <= SumOver(h, T) + SumOver(g, T \cap B)}
<1>1. IsFiniteSet(A) /\ G \in SUBSET SUBSET A
    BY DEF Summable
<1>2. {} \in G
    <2>1. {} \cap B = {}
        OBVIOUS
    <2> QED
        BY <2>1, SumEmpty
<1>3. ASSUME NEW T \in G, NEW x \in A, x \notin T PROVE T \cup {x} \in G
    <2>1. T \cup {x} \in SUBSET A /\ T \in SUBSET A
        OBVIOUS
    <2>2. IsFiniteSet(T) /\ IsFiniteSet(T \cup {x}) /\ IsFiniteSet(T \cap B)
          /\ IsFiniteSet((T \cup {x}) \cap B)
        BY <1>1, <2>1, FS_Subset
    <2>3. /\ Summable(f, T \cup {x}) /\ Summable(h, T \cup {x})
          /\ Summable(g, (T \cup {x}) \cap B)
          /\ Summable(f, T) /\ Summable(h, T) /\ Summable(g, T \cap B)
        BY <2>1, <2>2 DEF Summable
    <2>4. /\ SumOver(f, T \cup {x}) = f[x] + SumOver(f, T)
          /\ SumOver(h, T \cup {x}) = h[x] + SumOver(h, T)
        BY <1>3, <2>3, SumAdd
    <2>5. SumOver(g, (T \cup {x}) \cap B)
            = (IF x \in B THEN g[x] ELSE 0) + SumOver(g, T \cap B)
        <3> DEFINE old == SumOver(g, T \cap B)
        <3>a. old \in Int
            BY <2>3, SumType
        <3>1. CASE x \in B
            <4>1. (T \cup {x}) \cap B = (T \cap B) \cup {x} /\ x \notin T \cap B
                BY <1>3, <3>1
            <4>2. SumOver(g, (T \cap B) \cup {x}) = g[x] + SumOver(g, T \cap B)
                BY <2>3, <4>1, SumAdd
            <4> QED
                BY <3>1, <4>1, <4>2
        <3>2. CASE x \notin B
            <4>1. (T \cup {x}) \cap B = T \cap B
                BY <3>2
            <4>2. old = 0 + old
                BY <3>a
            <4> QED
                BY <3>2, <4>1, <4>2
        <3> QED
            BY <3>1, <3>2
    <2> DEFINE k == IF x \in B THEN g[x] ELSE 0
    <2>6. /\ f[x] \in Int /\ h[x] \in Int /\ k \in Int /\ f[x] <= h[x] + k
          /\ SumOver(f, T) \in Int /\ SumOver(h, T) \in Int /\ SumOver(g, T \cap B) \in Int
          /\ SumOver(f, T) <= SumOver(h, T) + SumOver(g, T \cap B)
        <3>1. x \in B => x \in A \cap B
            OBVIOUS
        <3>2. k \in Int
            BY <3>1 DEF Summable
        <3>3. f[x] \in Int /\ h[x] \in Int /\ f[x] <= h[x] + k
            BY DEF Summable
        <3> QED
            BY <2>3, <3>2, <3>3, SumType
    <2>7. SumOver(g, (T \cup {x}) \cap B) = k + SumOver(g, T \cap B)
        BY <2>5
    <2> HIDE DEF k
    <2>8. SumOver(f, T \cup {x}) <= SumOver(h, T \cup {x}) + SumOver(g, (T \cup {x}) \cap B)
        BY <2>4, <2>6, <2>7
    <2> QED
        BY <2>1, <2>8
<1> HIDE DEF G
<1>4. A \in G
    BY <1>1, <1>2, <1>3, SetInduction
<1> QED
    BY <1>4 DEF G

\* A part of natural numbers sums to no more than the whole.
LEMMA SumPart ==
    ASSUME NEW g, NEW B, NEW C \in SUBSET B, IsFiniteSet(B), \A x \in B : g[x] \in Nat
    PROVE  SumOver(g, C) <= SumOver(g, B)
<1> DEFINE G == {T \in SUBSET B : SumOver(g, T \cap C) <= SumOver(g, T)}
<1>2. G \in SUBSET SUBSET B
    OBVIOUS
<1>3. {} \in G
    <2>1. {} \cap C = {} /\ SumOver(g, {}) = 0
        BY SumEmpty
    <2> QED
        BY <2>1
<1>4. ASSUME NEW T \in G, NEW x \in B, x \notin T PROVE T \cup {x} \in G
    <2>1. T \cup {x} \in SUBSET B /\ T \in SUBSET B
        OBVIOUS
    <2>2. IsFiniteSet(T) /\ IsFiniteSet(T \cup {x}) /\ IsFiniteSet(T \cap C)
          /\ IsFiniteSet((T \cup {x}) \cap C)
        BY <2>1, FS_Subset
    <2>3. /\ Summable(g, T \cup {x}) /\ Summable(g, (T \cup {x}) \cap C)
          /\ Summable(g, T) /\ Summable(g, T \cap C)
        BY <2>1, <2>2 DEF Summable
    <2>4. SumOver(g, T \cup {x}) = g[x] + SumOver(g, T)
        BY <1>4, <2>3, SumAdd
    <2>5. g[x] \in Nat /\ SumOver(g, T) \in Int /\ SumOver(g, T \cap C) \in Int
          /\ SumOver(g, T \cap C) <= SumOver(g, T)
        BY <2>3, SumType
    <2>6. SumOver(g, (T \cup {x}) \cap C)
              \in {SumOver(g, T \cap C), g[x] + SumOver(g, T \cap C)}
        <3>1. CASE x \in C
            <4>1. (T \cup {x}) \cap C = (T \cap C) \cup {x} /\ x \notin T \cap C
                BY <1>4, <3>1
            <4> QED
                BY <2>3, <4>1, SumAdd
        <3>2. CASE x \notin C
            <4>1. (T \cup {x}) \cap C = T \cap C
                BY <3>2
            <4> QED
                BY <4>1
        <3> QED
            BY <3>1, <3>2
    <2>7. SumOver(g, (T \cup {x}) \cap C) <= SumOver(g, T \cup {x})
        BY <2>4, <2>5, <2>6
    <2> QED
        BY <2>1, <2>7
<1> HIDE DEF G
<1>5. B \in G
    BY <1>2, <1>3, <1>4, SetInduction
<1>6. B \cap C = C
    OBVIOUS
<1> QED
    BY <1>5, <1>6 DEF G

-----------------------------------------------------------------------------
(***************************************************************************)
(* Quotients and multiples.                                                *)
(***************************************************************************)

LEMMA DivMod ==
    ASSUME NEW a \in Nat, NEW w \in Nat \ {0}
    PROVE  a \div w \in Nat /\ a % w \in 0..(w - 1) /\ a = w * (a \div w) + (a % w)
OBVIOUS

LEMMA Cancel ==
    ASSUME NEW w \in Nat \ {0}, NEW x \in Int, NEW y \in Int, w * x < w * y
    PROVE  x < y
<1> SUFFICES ASSUME x >= y PROVE FALSE
  OBVIOUS
<1>1. PICK d \in Nat : x = y + d
  OBVIOUS
<1>2. w * x = w * y + w * d /\ w * d >= 0
  BY <1>1
<1> QED
  BY <1>2

LEMMA QuotientType ==
    ASSUME NEW x \in Int, NEW d \in Nat \ {0} PROVE x \div d \in Int
OBVIOUS

\* d divides x.
Multiple(x, d) == \E k \in Int : x = d * k

\* What divides every element divides the sum.
LEMMA SumMultiple ==
    ASSUME NEW f, NEW S, Summable(f, S), NEW d \in Nat \ {0},
           \A x \in S : Multiple(f[x], d)
    PROVE  Multiple(SumOver(f, S), d)
<1> DEFINE G == {T \in SUBSET S : Multiple(SumOver(f, T), d)}
<1>1. IsFiniteSet(S) /\ G \in SUBSET SUBSET S
    BY DEF Summable
<1>2. {} \in G
    <2>1. SumOver(f, {}) = d * 0
        BY SumEmpty
    <2> QED
        BY <2>1 DEF Multiple
<1>3. ASSUME NEW T \in G, NEW x \in S, x \notin T PROVE T \cup {x} \in G
    <2>1. T \cup {x} \in SUBSET S
        OBVIOUS
    <2>2. Summable(f, T \cup {x})
        BY <1>1, <2>1, FS_Subset DEF Summable
    <2>3. SumOver(f, T \cup {x}) = f[x] + SumOver(f, T)
        BY <1>3, <2>2, SumAdd
    <2>4. PICK k \in Int : SumOver(f, T) = d * k
        BY DEF Multiple
    <2>5. PICK l \in Int : f[x] = d * l
        BY DEF Multiple
    <2>6. SumOver(f, T \cup {x}) = d * (l + k)
        <3>1. d * (l + k) = d * l + d * k
            OBVIOUS
        <3> QED
            BY <2>3, <2>4, <2>5, <3>1
    <2> QED
        BY <2>1, <2>6 DEF Multiple
<1> HIDE DEF G
<1>4. S \in G
    BY <1>1, <1>2, <1>3, SetInduction
<1> QED
    BY <1>4 DEF G

LEMMA Exactly ==
    ASSUME NEW d \in Nat \ {0}, NEW x \in Int
    PROVE  /\ (d * x) \div d = x
           /\ \A y \in Int : d * x = d * y => x = y
<1>1. \A y \in Int : d * x = d * y => x = y
    <2> TAKE y \in Int
    <2> HAVE d * x = d * y
    <2>1. ~ (d * x < d * y) /\ ~ (d * y < d * x)
        OBVIOUS
    <2>2. \A a, b \in Int : a < b => d * a < d * b
        <3> TAKE a \in Int, b \in Int
        <3> HAVE a < b
        <3>1. PICK e \in Nat \ {0} : b = a + e
            <4>1. b - a \in Nat \ {0} /\ b = a + (b - a)
                OBVIOUS
            <4> QED
                BY <4>1
        <3>2. d * b = d * a + d * e /\ d * e > 0
            BY <3>1
        <3> QED
            BY <3>2
    <2> QED
        BY <2>1, <2>2
<1>2. (d * x) \div d = x
    <2> DEFINE z == d * x
    <2>1. z \in Int
        OBVIOUS
    <2> HIDE DEF z
    <2>2. z \div d \in Int /\ z % d \in 0..(d - 1) /\ z = d * (z \div d) + (z % d)
        BY <2>1
    <2> DEFINE q == z \div d
    <2>3. q \in Int /\ d * q <= d * x /\ d * x < d * q + d
        BY <2>2 DEF z
    <2> HIDE DEF q
    <2>4. d * (q + 1) = d * q + d /\ d * x < d * (q + 1)
        BY <2>3
    <2>5. x < q + 1
        BY <2>3, <2>4, Cancel
    <2>6. d * q < d * (x + 1)
        <3>1. d * (x + 1) = d * x + d
            OBVIOUS
        <3> QED
            BY <2>3, <3>1
    <2>7. q < x + 1
        BY <2>3, <2>6, Cancel
    <2>8. q = x
        BY <2>3, <2>5, <2>7
    <2> QED
        BY <2>8 DEF q, z
<1> QED
    BY <1>1, <1>2

LEMMA Divisible ==
    ASSUME NEW x \in Int, NEW d \in Nat \ {0}, x % d = 0 PROVE Multiple(x, d)
<1>1. x = d * (x \div d) + (x % d) /\ x \div d \in Int
    OBVIOUS
<1>2. x = d * (x \div d)
    <2> DEFINE y == d * (x \div d)
    <2>1. y \in Int
        BY <1>1
    <2> HIDE DEF y
    <2>2. x = y + (x % d)
        BY <1>1 DEF y
    <2>3. x = y
        BY <2>1, <2>2
    <2> QED
        BY <2>3 DEF y
<1> QED
    BY <1>1, <1>2 DEF Multiple

-----------------------------------------------------------------------------
(***************************************************************************)
(* The greatest and the least element.                                     *)
(***************************************************************************)

LEMMA MaxIs ==
    ASSUME NEW S \in SUBSET Int, NEW x \in S, \A y \in S : x >= y
    PROVE  Max(S) = x
<1>1. \A z \in S : (\A y \in S : z >= y) => z = x
    OBVIOUS
<1>2. Max(S) \in S /\ \A y \in S : Max(S) >= y
    BY DEF Max
<1> QED
    BY <1>1, <1>2

LEMMA MinIs ==
    ASSUME NEW S \in SUBSET Int, NEW x \in S, \A y \in S : x <= y
    PROVE  Min(S) = x
<1>1. \A z \in S : (\A y \in S : z <= y) => z = x
    OBVIOUS
<1>2. Min(S) \in S /\ \A y \in S : Min(S) <= y
    BY DEF Min
<1> QED
    BY <1>1, <1>2

LEMMA Greatest ==
    ASSUME NEW S \in SUBSET Int, IsFiniteSet(S), S # {} PROVE Max(S) \in S
<1> DEFINE G == {T \in SUBSET S : T # {} => \E x \in T : \A y \in T : x >= y}
<1>1. G \in SUBSET SUBSET S /\ {} \in G
    OBVIOUS
<1>2. ASSUME NEW T \in G, NEW x \in S, x \notin T PROVE T \cup {x} \in G
    <2>1. CASE T = {}
        BY <2>1
    <2>2. CASE T # {}
        <3>1. PICK z \in T : \A y \in T : z >= y
            BY <2>2
        <3>2. z \in Int /\ x \in Int /\ \A y \in T : y \in Int
            OBVIOUS
        <3>3. CASE x >= z
            <4>1. \A y \in T \cup {x} : x >= y
                BY <3>1, <3>2, <3>3
            <4> QED
                BY <4>1
        <3>4. CASE z >= x
            <4>1. \A y \in T \cup {x} : z >= y
                BY <3>1, <3>4
            <4> QED
                BY <4>1
        <3> QED
            BY <3>2, <3>3, <3>4
    <2> QED
        BY <2>1, <2>2
<1> HIDE DEF G
<1>3. S \in G
    BY <1>1, <1>2, SetInduction
<1> QED
    BY <1>3 DEF G, Max

LEMMA MinOfTwo ==
    ASSUME NEW a \in Int, NEW b \in Int
    PROVE  Min({a, b}) = IF a <= b THEN a ELSE b
<1> DEFINE m == IF a <= b THEN a ELSE b
<1>1. m \in {a, b} /\ (\A y \in {a, b} : m <= y) /\ {a, b} \in SUBSET Int
    OBVIOUS
<1> HIDE DEF m
<1>2. Min({a, b}) = m
    BY <1>1, MinIs
<1> QED
    BY <1>2 DEF m

LEMMA MaxOfTwo ==
    ASSUME NEW a \in Int, NEW b \in Int
    PROVE  Max({a, b}) = IF a >= b THEN a ELSE b
<1> DEFINE m == IF a >= b THEN a ELSE b
<1>1. m \in {a, b} /\ (\A y \in {a, b} : m >= y) /\ {a, b} \in SUBSET Int
    OBVIOUS
<1> HIDE DEF m
<1>2. Max({a, b}) = m
    BY <1>1, MaxIs
<1> QED
    BY <1>2 DEF m
=============================================================================
