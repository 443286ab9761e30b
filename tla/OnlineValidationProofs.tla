----------------------- MODULE OnlineValidationProofs -----------------------
(***************************************************************************)
(* For every set of applications, pairs, tasks and costs, and whatever     *)
(* raises or dies: no cap of the ledger is exceeded, each of its methods   *)
(* is a step of Budget, a closed reservation is final, and a pass that     *)
(* reached the adapter ends with its reservation closed.  As long as one   *)
(* process at a time validates, a shared comparison gives fresh evidence   *)
(* at most once; as long as an application costs a unit, what was paid is  *)
(* covered by what was reserved.                                           *)
(***************************************************************************)
EXTENDS OnlineValidation, FiniteSetTheorems, TLAPS

-----------------------------------------------------------------------------
(* Sums over finite sets *)

LEMMA LeastNat ==
  ASSUME NEW N, N \subseteq Nat, N # {}
  PROVE  \E n \in N : \A m \in N : n <= m
<1>1. PICK n \in N : \A m \in N : <<m, n>> \notin OpToRel(<, Nat)
  BY NatLessThanWellFounded, WFMin
<1>2. \A m \in N : ~(m < n)
  BY <1>1 DEF OpToRel
<1> QED
  BY <1>2

\* Of some finite sets, one has no other of them as a part.
LEMMA SmallestSet ==
  ASSUME NEW F, F # {}, \A S \in F : IsFiniteSet(S)
  PROVE  \E S \in F : \A T \in F : T \subseteq S => T = S
<1> DEFINE N == {Cardinality(S) : S \in F}
<1>1. N \subseteq Nat /\ N # {}
  BY FS_CardinalityType
<1>2. PICK n \in N : \A m \in N : n <= m
  BY <1>1, LeastNat
<1>3. PICK S \in F : Cardinality(S) = n
  BY <1>2
<1>4. ASSUME NEW T \in F, T \subseteq S  PROVE T = S
  <2>1. Cardinality(T) <= Cardinality(S)
    BY <1>4, FS_Subset
  <2>2. Cardinality(S) <= Cardinality(T) /\ Cardinality(S) \in Nat /\ Cardinality(T) \in Nat
    BY <1>1, <1>2, <1>3
  <2> QED
    BY <1>4, <2>1, <2>2, FS_Subset
<1> QED
  BY <1>3, <1>4

Some(s) == CHOOSE x \in s : TRUE
Sums(f, S, g) ==
  g = [s \in SUBSET S |-> IF s = {} THEN 0 ELSE f[Some(s)] + g[s \ {Some(s)}]]

LEMMA SumUnfolded ==
  ASSUME NEW f, NEW S
  PROVE  SumFunctionOnSet(f, S) = (CHOOSE g : Sums(f, S, g))[S]
BY Zenon DEF SumFunctionOnSet, FoldFunctionOnSet, MapThenFoldSet, Sums, Some

LEMMA SomeIn == ASSUME NEW s, s # {} PROVE Some(s) \in s
BY DEF Some

LEMMA SumsAgree ==
  ASSUME NEW f, NEW S, NEW T, IsFiniteSet(S), NEW g, NEW h, Sums(f, S, g), Sums(f, T, h)
  PROVE  \A s \in SUBSET (S \cap T) : g[s] = h[s]
<1> DEFINE F == {s \in SUBSET (S \cap T) : g[s] # h[s]}
<1> SUFFICES ASSUME F # {} PROVE FALSE
  OBVIOUS
<1>1. \A s \in F : IsFiniteSet(s)
  BY FS_Subset
<1>2. PICK s \in F : \A t \in F : t \subseteq s => t = s
  <2> HIDE DEF F
  <2> QED
    BY <1>1, SmallestSet
<1>3. s # {}
  BY DEF Sums
<1>4. s \ {Some(s)} \notin F
  BY <1>2, <1>3, SomeIn
<1> QED
  BY <1>3, <1>4 DEF Sums

LEMMA SumsExist ==
  ASSUME NEW f, NEW S, IsFiniteSet(S)
  PROVE  \E g : Sums(f, S, g)
<1> DEFINE F == {s \in SUBSET S : ~ \E g : Sums(f, s, g)}
<1> SUFFICES ASSUME F # {} PROVE FALSE
  OBVIOUS
<1>1. \A s \in F : IsFiniteSet(s)
  BY FS_Subset
<1>2. PICK s \in F : \A t \in F : t \subseteq s => t = s
  <2> HIDE DEF F
  <2> QED
    BY <1>1, SmallestSet
<1> DEFINE H(t) == CHOOSE g : Sums(f, t, g)
<1>3. \A t \in SUBSET s : t # s => Sums(f, t, H(t))
  BY <1>2
<1> DEFINE x == Some(s)
           g == [t \in SUBSET s |-> IF t # s THEN H(t)[t]
                                    ELSE IF s = {} THEN 0 ELSE f[x] + H(s \ {x})[s \ {x}]]
<1>4. ASSUME NEW t \in SUBSET s, t # s
      PROVE  g[t] = IF t = {} THEN 0 ELSE f[Some(t)] + g[t \ {Some(t)}]
  <2>1. Sums(f, t, H(t)) /\ g[t] = H(t)[t]
    BY <1>3, <1>4
  <2>2. CASE t = {}
    BY <2>1, <2>2 DEF Sums
  <2>3. CASE t # {}
    <3> DEFINE u == t \ {Some(t)}
    <3>1. u \in SUBSET t /\ u # t /\ u \in SUBSET s /\ u # s
      BY <2>3, SomeIn
    <3>2. g[u] = H(u)[u] /\ Sums(f, u, H(u))
      BY <1>3, <3>1
    <3>3. IsFiniteSet(t)
      BY FS_Subset
    <3> HIDE DEF H
    <3>4. H(t)[u] = H(u)[u]
      <4>1. u \in SUBSET (t \cap u)
        BY <3>1
      <4>2. PICK p, q : p = H(t) /\ q = H(u)
        OBVIOUS
      <4>3. Sums(f, t, p) /\ Sums(f, u, q)
        BY <2>1, <3>2, <4>2
      <4> HIDE DEF u
      <4>4. \A v \in SUBSET (t \cap u) : p[v] = q[v]
        BY <3>3, <4>3, SumsAgree
      <4> QED
        BY <4>1, <4>2, <4>4
    <3>5. H(t)[t] = f[Some(t)] + H(t)[u]
      BY <2>1, <2>3 DEF Sums
    <3> QED
      BY <2>1, <2>3, <3>2, <3>4, <3>5
  <2> QED
    BY <2>2, <2>3
<1>5. g[s] = IF s = {} THEN 0 ELSE f[x] + g[s \ {x}]
  <2>1. s # {} => s \ {x} # s /\ s \ {x} \in SUBSET s
    BY SomeIn
  <2> HIDE DEF H, x
  <2> QED
    BY <2>1
<1>6. Sums(f, s, g)
  <2>1. ASSUME NEW t \in SUBSET s
        PROVE  g[t] = IF t = {} THEN 0 ELSE f[Some(t)] + g[t \ {Some(t)}]
    <3> HIDE DEF g
    <3>1. CASE t = s
      BY <1>5, <3>1
    <3>2. CASE t # s
      BY <1>4, <3>2
    <3> QED
      BY <3>1, <3>2
  <2>2. g = [t \in SUBSET s |-> g[t]]
    OBVIOUS
  <2> HIDE DEF g, H, x
  <2>3. \A t \in SUBSET s : g[t] = IF t = {} THEN 0 ELSE f[Some(t)] + g[t \ {Some(t)}]
    BY <2>1
  <2> QED
    BY <2>3, <2>2 DEF Sums
<1> QED
  BY <1>2, <1>6

LEMMA SumStep ==
  ASSUME NEW f, NEW S, IsFiniteSet(S)
  PROVE  SumFunctionOnSet(f, S) =
           IF S = {} THEN 0 ELSE f[Some(S)] + SumFunctionOnSet(f, S \ {Some(S)})
<1> DEFINE G(T) == CHOOSE g : Sums(f, T, g)
           T == S \ {Some(S)}
<1>1. Sums(f, S, G(S)) /\ Sums(f, T, G(T)) /\ T \subseteq S
  BY SumsExist, FS_RemoveElement
<1>2. SumFunctionOnSet(f, S) = G(S)[S] /\ SumFunctionOnSet(f, T) = G(T)[T]
  BY SumUnfolded
<1> HIDE DEF G
<1>3. G(S)[T] = G(T)[T]
  <2>1. T \in SUBSET (S \cap T)
    OBVIOUS
  <2> HIDE DEF T
  <2> QED
    BY <1>1, <2>1, SumsAgree
<1>4. G(S)[S] = IF S = {} THEN 0 ELSE f[Some(S)] + G(S)[T]
  BY <1>1 DEF Sums
<1> QED
  BY <1>2, <1>3, <1>4

LEMMA SumNat ==
  ASSUME NEW f, NEW S, IsFiniteSet(S), \A x \in S : f[x] \in Nat
  PROVE  SumFunctionOnSet(f, S) \in Nat
<1> DEFINE F == {s \in SUBSET S : SumFunctionOnSet(f, s) \notin Nat}
<1> SUFFICES ASSUME F # {} PROVE FALSE
  OBVIOUS
<1>1. PICK s \in F : \A t \in F : t \subseteq s => t = s
  <2>1. \A s \in F : IsFiniteSet(s)
    BY FS_Subset
  <2> HIDE DEF F
  <2> QED
    BY <2>1, SmallestSet
<1>2. IsFiniteSet(s)
  BY FS_Subset
<1>3. SumFunctionOnSet(f, s) =
        IF s = {} THEN 0 ELSE f[Some(s)] + SumFunctionOnSet(f, s \ {Some(s)})
  BY <1>2, SumStep
<1>4. s # {}
  BY <1>3
<1>5. Some(s) \in S /\ SumFunctionOnSet(f, s \ {Some(s)}) \in Nat
  BY <1>1, <1>4, SomeIn
<1> QED
  BY <1>3, <1>4, <1>5

\* The order in which a sum is taken does not matter.
LEMMA SumRemove ==
  ASSUME NEW f, NEW S, IsFiniteSet(S), \A x \in S : f[x] \in Nat, NEW y \in S
  PROVE  SumFunctionOnSet(f, S) = f[y] + SumFunctionOnSet(f, S \ {y})
<1> DEFINE sum(s) == SumFunctionOnSet(f, s)
           F == {s \in SUBSET S : \E z \in s : sum(s) # f[z] + sum(s \ {z})}
<1> SUFFICES ASSUME F # {} PROVE FALSE
  OBVIOUS
<1>1. PICK s \in F : \A t \in F : t \subseteq s => t = s
  <2>1. \A s \in F : IsFiniteSet(s)
    BY FS_Subset
  <2> HIDE DEF F
  <2> QED
    BY <2>1, SmallestSet
<1>2. \A t \in SUBSET s : IsFiniteSet(t) /\ sum(t) \in Nat
  BY FS_Subset, SumNat
<1>3. PICK z \in s : sum(s) # f[z] + sum(s \ {z})
  BY <1>1
<1> DEFINE x == Some(s)
           u == s \ {z}
           v == s \ {x}
           w == s \ {x, z}
<1>4. x \in s /\ z \in s /\ f[x] \in Nat /\ f[z] \in Nat
  BY SomeIn
<1>5. sum(s) = f[x] + sum(v)
  BY <1>2, <1>4, SumStep
<1>6. x # z
  BY <1>3, <1>5
<1>7. sum(v) = f[z] + sum(w)
  <2>1. v \notin F /\ z \in v /\ w = v \ {z}
    BY <1>1, <1>4, <1>6
  <2> QED
    BY <2>1
<1>8. sum(u) = f[x] + sum(w)
  <2>1. u \notin F /\ x \in u /\ w = u \ {x}
    BY <1>1, <1>4, <1>6
  <2> QED
    BY <2>1
<1>9. sum(w) \in Nat
  BY <1>2
<1> HIDE DEF sum, x, u, v, w
<1>10. sum(s) # f[z] + sum(u)
  BY <1>3 DEF u
<1> QED
  BY <1>4, <1>5, <1>7, <1>8, <1>9, <1>10

LEMMA SumEmpty == ASSUME NEW f PROVE SumFunctionOnSet(f, {}) = 0
BY SumStep, FS_EmptySet

\* A sum of no less is no less.
LEMMA SumMonotonic ==
  ASSUME NEW f, NEW g, NEW S, IsFiniteSet(S),
         \A x \in S : f[x] \in Nat /\ g[x] \in Nat /\ f[x] <= g[x]
  PROVE  SumFunctionOnSet(f, S) <= SumFunctionOnSet(g, S)
<1> DEFINE F == {s \in SUBSET S : ~(SumFunctionOnSet(f, s) <= SumFunctionOnSet(g, s))}
<1> SUFFICES ASSUME F # {} PROVE FALSE
  OBVIOUS
<1>1. PICK s \in F : \A t \in F : t \subseteq s => t = s
  <2>1. \A s \in F : IsFiniteSet(s)
    BY FS_Subset
  <2> HIDE DEF F
  <2> QED
    BY <2>1, SmallestSet
<1>2. \A t \in SUBSET s : IsFiniteSet(t) /\ SumFunctionOnSet(f, t) \in Nat
                          /\ SumFunctionOnSet(g, t) \in Nat
  BY FS_Subset, SumNat
<1>3. s # {}
  <2>1. SumFunctionOnSet(f, {}) = 0 /\ SumFunctionOnSet(g, {}) = 0
    BY SumEmpty
  <2> QED
    BY <2>1
<1>4. /\ Some(s) \in s
      /\ SumFunctionOnSet(f, s) = f[Some(s)] + SumFunctionOnSet(f, s \ {Some(s)})
      /\ SumFunctionOnSet(g, s) = g[Some(s)] + SumFunctionOnSet(g, s \ {Some(s)})
  BY <1>2, <1>3, SumStep, SomeIn
<1>5. SumFunctionOnSet(f, s \ {Some(s)}) <= SumFunctionOnSet(g, s \ {Some(s)})
  BY <1>1, <1>4
<1>6. f[Some(s)] \in Nat /\ g[Some(s)] \in Nat /\ f[Some(s)] <= g[Some(s)]
  BY <1>4
<1>7. /\ SumFunctionOnSet(f, s \ {Some(s)}) \in Nat
      /\ SumFunctionOnSet(g, s \ {Some(s)}) \in Nat
  BY <1>2
<1>8. ~(SumFunctionOnSet(f, s) <= SumFunctionOnSet(g, s))
  OBVIOUS
<1> QED
  BY <1>4, <1>5, <1>6, <1>7, <1>8

\* Two sums with the same terms are the same.
LEMMA SumSame ==
  ASSUME NEW f, NEW g, NEW S, IsFiniteSet(S),
         \A x \in S : f[x] \in Nat /\ g[x] = f[x]
  PROVE  SumFunctionOnSet(f, S) = SumFunctionOnSet(g, S)
<1>1. SumFunctionOnSet(f, S) <= SumFunctionOnSet(g, S)
  BY SumMonotonic
<1>2. SumFunctionOnSet(g, S) <= SumFunctionOnSet(f, S)
  BY SumMonotonic
<1>3. SumFunctionOnSet(f, S) \in Nat /\ SumFunctionOnSet(g, S) \in Nat
  BY SumNat
<1> QED
  BY <1>1, <1>2, <1>3

\* One term changes.
LEMMA SumChange ==
  ASSUME NEW f, NEW g, NEW S, IsFiniteSet(S), NEW y \in S,
         \A x \in S : f[x] \in Nat /\ g[x] \in Nat /\ (x # y => g[x] = f[x])
  PROVE  SumFunctionOnSet(f, S) + g[y] = SumFunctionOnSet(g, S) + f[y]
<1>1. /\ SumFunctionOnSet(f, S) = f[y] + SumFunctionOnSet(f, S \ {y})
      /\ SumFunctionOnSet(g, S) = g[y] + SumFunctionOnSet(g, S \ {y})
  BY SumRemove
<1>2. IsFiniteSet(S \ {y})
  BY FS_RemoveElement
<1>3. SumFunctionOnSet(f, S \ {y}) = SumFunctionOnSet(g, S \ {y})
  BY <1>2, SumSame
<1>4. SumFunctionOnSet(f, S \ {y}) \in Nat
  BY <1>2, SumNat
<1> QED
  BY <1>1, <1>3, <1>4

\* The sum over two sets without a common element.
LEMMA SumUnion ==
  ASSUME NEW f, NEW S, NEW T, IsFiniteSet(S), IsFiniteSet(T), S \cap T = {},
         \A x \in S \cup T : f[x] \in Nat
  PROVE  SumFunctionOnSet(f, S \cup T) = SumFunctionOnSet(f, S) + SumFunctionOnSet(f, T)
<1> DEFINE sum(s) == SumFunctionOnSet(f, s)
           F == {s \in SUBSET S : sum(s \cup T) # sum(s) + sum(T)}
<1> SUFFICES ASSUME F # {} PROVE FALSE
  OBVIOUS
<1>1. PICK s \in F : \A t \in F : t \subseteq s => t = s
  <2>1. \A s \in F : IsFiniteSet(s)
    BY FS_Subset
  <2> HIDE DEF F
  <2> QED
    BY <2>1, SmallestSet
<1>2. \A t \in SUBSET s : /\ IsFiniteSet(t) /\ IsFiniteSet(t \cup T)
                          /\ sum(t) \in Nat /\ sum(t \cup T) \in Nat
  BY FS_Subset, FS_Union, SumNat
<1>3. sum(T) \in Nat
  BY SumNat
<1>4. s # {}
  <2>1. {} \cup T = T
    OBVIOUS
  <2>2. sum({}) = 0
    BY SumEmpty
  <2>3. sum({} \cup T) = sum({}) + sum(T)
    BY <1>3, <2>1, <2>2
  <2> QED
    BY <2>3
<1> DEFINE x == Some(s)
           u == s \ {x}
<1>5. x \in s /\ x \notin T /\ (s \cup T) \ {x} = u \cup T /\ f[x] \in Nat
  BY <1>4, SomeIn
<1>6. sum(s) = f[x] + sum(u) /\ sum(s \cup T) = f[x] + sum(u \cup T)
  <2>1. x \in s \cup T /\ \A y \in s \cup T : f[y] \in Nat
    BY <1>5
  <2> HIDE DEF x
  <2> QED
    BY <1>2, <1>5, <2>1, SumRemove
<1>7. sum(u \cup T) = sum(u) + sum(T)
  BY <1>1, <1>5
<1>8. sum(u) \in Nat
  BY <1>2
<1>9. sum(s \cup T) # sum(s) + sum(T)
  BY <1>1
<1> HIDE DEF sum, x, u
<1> QED
  BY <1>3, <1>5, <1>6, <1>7, <1>8, <1>9

-----------------------------------------------------------------------------
(* The ledger *)

\* What processes do to the ledger, with whatever amounts.
LedgerMoves ==
  \E c \in Client :
    \/ \E m \in Allocations : Open(c, m)
    \/ \E cat \in Category, n \in Nat, e \in Entry : Reserve(c, cat, n, e)
    \/ \E e \in Entry, n \in Nat : Commit(c, e, n)
    \/ \E e \in Entry : Release(c, e)
    \/ Close(c)

LEMMA LedgerMoving == LedgerNext => LedgerMoves
BY LedgerAssumption DEF LedgerNext, LedgerMoves

\* The reservations in the table; there are finitely many at any time.
Filed == {e \in Entry : entries[e] # None}

LedgerInv == LedgerTypeOK /\ IsFiniteSet(Filed)

\* The rows of a category and status, and what they come to.
RowsAreTyped ==
  /\ \A e \in Entry : amounts[e] \in 0..TotalBudget
  /\ \A st, cats : /\ IsFiniteSet(RowsOf(st, cats))
                   /\ RowsOf(st, cats) \subseteq Filed
                   /\ SumFor(st, cats) \in Nat

LEMMA RowsTyped == LedgerInv => RowsAreTyped
<1> SUFFICES ASSUME LedgerInv PROVE RowsAreTyped
  OBVIOUS
<1>1. ASSUME NEW e \in Entry  PROVE amounts[e] \in 0..TotalBudget
  <2>1. entries[e] \in Row \cup {None}
    BY DEF LedgerInv, LedgerTypeOK
  <2> QED
    BY <2>1, LedgerAssumption DEF amounts, Row
<1>2. ASSUME NEW st, NEW cats
      PROVE  /\ IsFiniteSet(RowsOf(st, cats)) /\ RowsOf(st, cats) \subseteq Filed
             /\ SumFor(st, cats) \in Nat
  <2>1. RowsOf(st, cats) \subseteq Filed
    BY DEF RowsOf, Filed
  <2>2. IsFiniteSet(RowsOf(st, cats))
    BY <2>1, FS_Subset DEF LedgerInv
  <2>3. \A e \in RowsOf(st, cats) : amounts[e] \in Nat
    BY <1>1, LedgerAssumption DEF RowsOf
  <2> QED
    BY <2>1, <2>2, <2>3, SumNat DEF SumFor
<1> QED
  BY <1>1, <1>2 DEF RowsAreTyped

LEMMA LedgerStart == LedgerInit => LedgerInv
<1> SUFFICES ASSUME LedgerInit PROVE LedgerInv
  OBVIOUS
<1>1. Filed = {}
  BY DEF LedgerInit, Filed
<1> QED
  BY <1>1, FS_EmptySet DEF LedgerInit, LedgerInv, LedgerTypeOK

LEMMA LedgerInvStep ==
  ASSUME LedgerInv, [LedgerMoves]_ledgerVars
  PROVE  LedgerInv'
<1> USE DEF LedgerInv, LedgerTypeOK
<1>1. ASSUME NEW c \in Client, NEW m \in Allocations, Open(c, m)  PROVE LedgerInv'
  BY <1>1 DEF Open, Filed
<1>2. ASSUME NEW c \in Client, NEW cat \in Category, NEW n \in Nat, NEW e \in Entry,
             Reserve(c, cat, n, e)
      PROVE  LedgerInv'
  <2> DEFINE row == [category |-> cat, amount |-> n, status |-> "reserved"]
  <2>1. row \in Row /\ row # None
    <3>1. SumFor(Counted, Category) + n <= TotalBudget /\ SumFor(Counted, Category) \in Nat
      BY <1>2, RowsTyped DEF Reserve, CanReserve, RowsAreTyped
    <3>2. n \in 0..TotalBudget
      BY <3>1, LedgerAssumption
    <3> QED
      BY <3>2, NoneAssumption DEF Row
  <2>2. entries' = [entries EXCEPT ![e] = row] /\ known' = [known EXCEPT ![c] = @ \cup {e}]
        /\ allocation' = allocation
    BY <1>2 DEF Reserve
  <2> HIDE DEF row
  <2>3. Filed' = Filed \cup {e}
    BY <2>1, <2>2 DEF Filed
  <2>4. IsFiniteSet(Filed')
    BY <2>3, FS_AddElement
  <2>5. entries' \in [Entry -> Row \cup {None}]
    BY <2>1, <2>2
  <2>6. known' \in [Client -> SUBSET Filed']
    BY <2>2, <2>3 DEF Filed
  <2> QED
    BY <2>2, <2>4, <2>5, <2>6 DEF Filed
<1>3. ASSUME NEW c \in Client, NEW e \in Entry, NEW n \in Nat, Commit(c, e, n)
      PROVE  LedgerInv'
  <2>1. entries[e] \in Row /\ n \in 0..TotalBudget
    BY <1>3, LedgerAssumption DEF Commit, Closable, Row
  <2>2. [entries[e] EXCEPT !.amount = n, !.status = "committed"] \in Row
    BY <2>1 DEF Row
  <2>3. entries' = [entries EXCEPT ![e] = [entries[e] EXCEPT !.amount = n, !.status = "committed"]]
    BY <1>3 DEF Commit
  <2>4. Filed' = Filed
    BY <2>1, <2>2, <2>3, NoneAssumption DEF Filed
  <2> QED
    BY <1>3, <2>2, <2>3, <2>4 DEF Commit, Filed
<1>4. ASSUME NEW c \in Client, NEW e \in Entry, Release(c, e)  PROVE LedgerInv'
  <2>1. entries[e] \in Row
    BY <1>4 DEF Release, Closable
  <2>2. [entries[e] EXCEPT !.status = "released"] \in Row
    BY <2>1 DEF Row
  <2>3. entries' = [entries EXCEPT ![e] = [entries[e] EXCEPT !.status = "released"]]
    BY <1>4 DEF Release
  <2>4. Filed' = Filed
    BY <2>1, <2>2, <2>3, NoneAssumption DEF Filed
  <2> QED
    BY <1>4, <2>2, <2>3, <2>4 DEF Release, Filed
<1>5. ASSUME NEW c \in Client, Close(c)  PROVE LedgerInv'
  BY <1>5 DEF Close, Filed
<1>6. CASE UNCHANGED ledgerVars
  BY <1>6 DEF ledgerVars, Filed
<1> QED
  BY <1>1, <1>2, <1>3, <1>4, <1>5, <1>6 DEF LedgerMoves

\* What the row of e adds to a sum.
Part(e, st, cats) == IF e \in RowsOf(st, cats) THEN amounts[e] ELSE 0

\* One row changes.
LEMMA RowChange ==
  ASSUME LedgerInv, LedgerInv', NEW e \in Entry,
         \A x \in Entry \ {e} : entries'[x] = entries[x],
         NEW st, NEW cats
  PROVE  SumFor(st, cats)' + Part(e, st, cats) = SumFor(st, cats) + Part(e, st, cats)'
<1> DEFINE R == RowsOf(st, cats)
           S == R \ {e}
<1>0. RowsAreTyped /\ RowsAreTyped'
  BY RowsTyped, PTL
<1>1. /\ \A x \in Entry : amounts[x] \in Nat /\ amounts'[x] \in Nat
      /\ \A x \in Entry \ {e} : amounts'[x] = amounts[x]
  <2>1. \A x \in Entry : amounts[x] \in 0..TotalBudget /\ amounts'[x] \in 0..TotalBudget
    BY <1>0 DEF RowsAreTyped
  <2>2. \A x \in Entry \ {e} : amounts'[x] = amounts[x]
    BY DEF amounts
  <2> QED
    BY <2>1, <2>2, LedgerAssumption
<1>2. S' = S /\ R \subseteq Entry /\ R' \subseteq Entry
  BY DEF RowsOf
<1>3. IsFiniteSet(R) /\ IsFiniteSet(R') /\ IsFiniteSet(S)
  <2>1. IsFiniteSet(R)
    BY <1>0 DEF RowsAreTyped
  <2>2. IsFiniteSet(R')
    BY <1>0 DEF RowsAreTyped
  <2> QED
    BY <2>1, <2>2, FS_RemoveElement
<1>4. SumFunctionOnSet(amounts, R) = SumFunctionOnSet(amounts, S) + Part(e, st, cats)
  <2>1. CASE e \in R
    <3>1. \A x \in R : amounts[x] \in Nat
      BY <1>1, <1>2
    <3>2. SumFunctionOnSet(amounts, R) = amounts[e] + SumFunctionOnSet(amounts, S)
      BY <1>3, <2>1, <3>1, SumRemove
    <3>3. SumFunctionOnSet(amounts, S) \in Nat /\ amounts[e] \in Nat
      BY <1>1, <1>3, <2>1, <3>1, SumNat
    <3> QED
      BY <2>1, <3>2, <3>3 DEF Part
  <2>2. CASE e \notin R
    <3>1. S = R
      BY <2>2
    <3>2. SumFunctionOnSet(amounts, S) \in Nat
      BY <1>1, <1>2, <1>3, SumNat
    <3>3. Part(e, st, cats) = 0
      BY <2>2 DEF Part
    <3> HIDE DEF S
    <3> QED
      BY <3>1, <3>2, <3>3
  <2> QED
    BY <2>1, <2>2
<1>5. SumFunctionOnSet(amounts', R') = SumFunctionOnSet(amounts', S') + Part(e, st, cats)'
  <2>1. CASE e \in R'
    <3>1. \A x \in R' : amounts'[x] \in Nat
      BY <1>1, <1>2
    <3>2. SumFunctionOnSet(amounts', R') = amounts'[e] + SumFunctionOnSet(amounts', S')
      BY <1>3, <2>1, <3>1, SumRemove
    <3>3. SumFunctionOnSet(amounts', S') \in Nat /\ amounts'[e] \in Nat
      BY <1>1, <1>2, <1>3, <2>1, <3>1, SumNat
    <3> QED
      BY <2>1, <3>2, <3>3 DEF Part
  <2>2. CASE e \notin R'
    <3>1. S' = R'
      BY <2>2
    <3>2. SumFunctionOnSet(amounts', S') \in Nat
      BY <1>1, <1>2, <1>3, SumNat
    <3> QED
      BY <2>2, <3>1, <3>2 DEF Part
  <2> QED
    BY <2>1, <2>2
<1>6. SumFunctionOnSet(amounts', S') = SumFunctionOnSet(amounts, S)
  <2>1. \A x \in S : amounts[x] \in Nat /\ amounts'[x] = amounts[x]
    BY <1>1, <1>2
  <2> QED
    BY <1>2, <1>3, <2>1, SumSame
<1>7. /\ SumFunctionOnSet(amounts, S) \in Nat
      /\ Part(e, st, cats) \in Nat /\ Part(e, st, cats)' \in Nat
  BY <1>1, <1>2, <1>3, SumNat DEF Part
<1> QED
  BY <1>4, <1>5, <1>6, <1>7 DEF SumFor

\* A new reservation adds what it reserves.
LEMMA ReserveSum ==
  ASSUME LedgerInv, LedgerInv', NEW c \in Client, NEW cat \in Category, NEW n \in Nat,
         NEW e \in Entry, Reserve(c, cat, n, e), NEW st, NEW cats
  PROVE  SumFor(st, cats)' =
           SumFor(st, cats) + IF "reserved" \in st /\ cat \in cats THEN n ELSE 0
<1> DEFINE row == [category |-> cat, amount |-> n, status |-> "reserved"]
<1>1. entries' = [entries EXCEPT ![e] = row] /\ entries[e] = None
  BY DEF Reserve
<1>2. entries'[e] = row /\ \A x \in Entry \ {e} : entries'[x] = entries[x]
  BY <1>1 DEF LedgerInv, LedgerTypeOK
<1>3. Part(e, st, cats) = 0
  BY <1>1 DEF Part, RowsOf
<1>4. Part(e, st, cats)' = IF "reserved" \in st /\ cat \in cats THEN n ELSE 0
  <2>1. row # None
    <3>1. SumFor(Counted, Category) + n <= TotalBudget /\ SumFor(Counted, Category) \in Nat
      BY RowsTyped DEF Reserve, CanReserve, RowsAreTyped
    <3>2. n \in 0..TotalBudget
      BY <3>1, LedgerAssumption
    <3> QED
      BY <3>2, NoneAssumption DEF Row
  <2> QED
    BY <1>2, <2>1 DEF Part, RowsOf, amounts
<1>5. SumFor(st, cats)' + Part(e, st, cats) = SumFor(st, cats) + Part(e, st, cats)'
  BY <1>2, RowChange
<1>6. SumFor(st, cats) \in Nat /\ SumFor(st, cats)' \in Nat
  <2>1. RowsAreTyped /\ RowsAreTyped'
    BY RowsTyped, PTL
  <2> QED
    BY <2>1 DEF RowsAreTyped
<1> QED
  BY <1>3, <1>4, <1>5, <1>6

\* A closed reservation moves what it is charged from held to spent.
LEMMA CloseSum ==
  ASSUME LedgerInv, LedgerInv', NEW c \in Client, NEW e \in Entry, NEW n \in Nat,
         NEW s \in {"committed", "released"},
         (s = "committed" /\ Commit(c, e, n)) \/ (s = "released" /\ Release(c, e)),
         NEW st, NEW cats
  PROVE  LET in(status) == status \in st /\ entries[e].category \in cats
             amount == entries[e].amount
         IN  /\ entries[e] \in Row /\ amount \in Nat
             /\ s = "committed" => n <= amount
             /\ SumFor(st, cats)' + (IF in("reserved") THEN amount ELSE 0) =
                  SumFor(st, cats) + IF in(s) THEN (IF s = "committed" THEN n ELSE amount) ELSE 0
<1> DEFINE in(status) == status \in st /\ entries[e].category \in cats
           amount == entries[e].amount
           paid == IF s = "committed" THEN n ELSE amount
<1>1. entries[e] \in Row /\ entries[e] # None /\ entries[e].status = "reserved" /\ amount \in Nat
  <2>1. e \in known[c] /\ entries[e].status = "reserved"
    BY DEF Commit, Release, Closable
  <2> QED
    BY <2>1, LedgerAssumption DEF LedgerInv, LedgerTypeOK, Row
<1>2. /\ entries'[e] \in Row /\ entries'[e] # None
      /\ entries'[e].status = s /\ entries'[e].category = entries[e].category
      /\ entries'[e].amount = paid
      /\ \A x \in Entry \ {e} : entries'[x] = entries[x]
  <2>1. entries' \in [Entry -> Row \cup {None}] /\ DOMAIN entries = Entry
    BY DEF LedgerInv, LedgerTypeOK
  <2>2. CASE s = "committed" /\ Commit(c, e, n)
    <3> DEFINE row == [entries[e] EXCEPT !.amount = n, !.status = "committed"]
    <3>1. entries' = [entries EXCEPT ![e] = row] /\ n <= amount
      BY <2>2 DEF Commit
    <3>2. row \in Row /\ row.amount = n /\ row.status = "committed"
          /\ row.category = entries[e].category
      <4>1. n \in 0..TotalBudget
        BY <1>1, <3>1, LedgerAssumption DEF Row
      <4>2. row \in Row
        BY <1>1, <4>1 DEF Row
      <4>3. row.amount = n /\ row.status = "committed" /\ row.category = entries[e].category
        BY <1>1 DEF Row
      <4> QED
        BY <4>2, <4>3
    <3>3. paid = n
      BY <2>2
    <3> HIDE DEF row, paid
    <3> QED
      BY <2>1, <2>2, <3>1, <3>2, <3>3, NoneAssumption
  <2>3. CASE s = "released" /\ Release(c, e)
    <3> DEFINE row == [entries[e] EXCEPT !.status = "released"]
    <3>1. entries' = [entries EXCEPT ![e] = row]
      BY <2>3 DEF Release
    <3>2. row \in Row /\ row.amount = amount /\ row.status = "released"
          /\ row.category = entries[e].category
      BY <1>1 DEF Row
    <3>3. paid = amount
      BY <2>3
    <3> HIDE DEF row, paid
    <3> QED
      BY <2>1, <2>3, <3>1, <3>2, <3>3, NoneAssumption
  <2> QED
    BY <2>2, <2>3
<1>3. Part(e, st, cats) = IF in("reserved") THEN amount ELSE 0
  BY <1>1 DEF Part, RowsOf, amounts
<1>4. Part(e, st, cats)' = IF in(s) THEN paid ELSE 0
  BY <1>2 DEF Part, RowsOf, amounts
<1>5. SumFor(st, cats)' + Part(e, st, cats) = SumFor(st, cats) + Part(e, st, cats)'
  BY <1>2, RowChange
<1>6. s = "committed" => n <= amount
  BY DEF Commit
<1> QED
  BY <1>1, <1>3, <1>4, <1>5, <1>6

LEMMA BestAllocation ==
  /\ Max(Allocations) \in Allocations
  /\ \A m \in Allocations : m <= Max(Allocations)
<1> DEFINE left == {TotalBudget - m : m \in Allocations}
<1>1. left \subseteq Nat /\ left # {}
  BY LedgerAssumption
<1>2. PICK n \in left : \A m \in left : n <= m
  BY <1>1, LeastNat
<1>3. PICK a \in Allocations : n = TotalBudget - a
  BY <1>2
<1>4. \A m \in Allocations : a >= m
  <2> SUFFICES ASSUME NEW m \in Allocations PROVE a >= m
    OBVIOUS
  <2>1. TotalBudget - a <= TotalBudget - m
    BY <1>2, <1>3
  <2> QED
    BY <2>1, LedgerAssumption
<1>5. Max(Allocations) \in Allocations /\ \A m \in Allocations : Max(Allocations) >= m
  <2>1. Max(Allocations) = CHOOSE x \in Allocations : \A y \in Allocations : x >= y
    BY DEF Max
  <2> QED
    BY <1>4, <2>1
<1> QED
  BY <1>5, LedgerAssumption

LEMMA CapsStep ==
  ASSUME LedgerInv, LedgerInv', WithinCaps, [LedgerMoves]_ledgerVars
  PROVE  WithinCaps'
<1>1. Max(Allocations) \in Nat /\ TotalBudget \in Nat
      /\ \A cat \in DOMAIN CategoryCap : CategoryCap[cat] \in Nat
  BY BestAllocation, LedgerAssumption
<1>2. ASSUME UNCHANGED entries  PROVE WithinCaps'
  <2>1. \A st, cats : SumFor(st, cats)' = SumFor(st, cats)
    BY <1>2 DEF SumFor, amounts, RowsOf
  <2> QED
    BY <2>1 DEF WithinCaps, MemoryUsed
<1>3. ASSUME NEW c \in Client, NEW cat \in Category, NEW n \in Nat, NEW e \in Entry,
             Reserve(c, cat, n, e)
      PROVE  WithinCaps'
  <2>1. \A cats : SumFor(Counted, cats)' =
                    SumFor(Counted, cats) + IF cat \in cats THEN n ELSE 0
    BY <1>3, ReserveSum DEF Counted
  <2>2. \A cats : SumFor(Counted, cats) \in Nat
    BY RowsTyped DEF RowsAreTyped
  <2>3. CanReserve(c, cat, n) /\ allocation[c] \in Allocations
    BY <1>3 DEF Reserve, LedgerInv, LedgerTypeOK
  <2>4. SumFor(Counted, Category)' <= TotalBudget
    BY <2>1, <2>3 DEF CanReserve
  <2>5. ASSUME NEW k \in DOMAIN CategoryCap
        PROVE  SumFor(Counted, {k})' <= CategoryCap[k]
    <3>1. SumFor(Counted, {k})' = SumFor(Counted, {k}) + IF cat \in {k} THEN n ELSE 0
      BY <2>1
    <3>2. SumFor(Counted, {k}) \in Nat /\ SumFor(Counted, {k}) <= CategoryCap[k]
      BY <2>2 DEF WithinCaps
    <3>3. CASE k = cat
      BY <2>3, <3>1, <3>3 DEF CanReserve
    <3>4. CASE k # cat
      BY <3>1, <3>2, <3>4
    <3> QED
      BY <3>3, <3>4
  <2>6. MemoryUsed' <= Max(Allocations)
    <3>1. SumFor(Counted, MemoryCategory)' =
            SumFor(Counted, MemoryCategory) + IF cat \in MemoryCategory THEN n ELSE 0
      BY <2>1
    <3>2. SumFor(Counted, MemoryCategory) \in Nat
          /\ SumFor(Counted, MemoryCategory) <= Max(Allocations)
      BY <2>2 DEF WithinCaps, MemoryUsed
    <3>3. CASE cat \in MemoryCategory
      <4>1. SumFor(Counted, MemoryCategory) + n <= allocation[c]
        BY <2>3, <3>3 DEF CanReserve, MemoryUsed
      <4>2. allocation[c] <= Max(Allocations) /\ allocation[c] \in Nat
        BY <2>3, BestAllocation, LedgerAssumption
      <4> QED
        BY <1>1, <3>1, <3>2, <3>3, <4>1, <4>2 DEF MemoryUsed
    <3>4. CASE cat \notin MemoryCategory
      BY <3>1, <3>2, <3>4 DEF MemoryUsed
    <3> QED
      BY <3>3, <3>4
  <2> QED
    BY <2>4, <2>5, <2>6 DEF WithinCaps
<1>4. ASSUME NEW c \in Client, NEW e \in Entry, NEW n \in Nat,
             Commit(c, e, n) \/ Release(c, e)
      PROVE  WithinCaps'
  <2>1. ASSUME NEW cats
        PROVE  /\ SumFor(Counted, cats)' <= SumFor(Counted, cats)
               /\ SumFor(Counted, cats) \in Nat /\ SumFor(Counted, cats)' \in Nat
    <3>1. RowsAreTyped /\ RowsAreTyped'
      BY RowsTyped, PTL
    <3>2. SumFor(Counted, cats) \in Nat /\ SumFor(Counted, cats)' \in Nat
      BY <3>1 DEF RowsAreTyped
    <3>3. CASE Commit(c, e, n)
      <4>1. /\ entries[e].amount \in Nat /\ n <= entries[e].amount
            /\ SumFor(Counted, cats)'
                 + (IF entries[e].category \in cats THEN entries[e].amount ELSE 0) =
               SumFor(Counted, cats) + IF entries[e].category \in cats THEN n ELSE 0
        BY <3>3, CloseSum DEF Counted
      <4> QED
        BY <3>2, <4>1
    <3>4. CASE Release(c, e)
      <4>1. /\ entries[e].amount \in Nat
            /\ SumFor(Counted, cats)'
                 + (IF entries[e].category \in cats THEN entries[e].amount ELSE 0) =
               SumFor(Counted, cats)
        <5>1. SumFor(Counted, cats)'
                 + (IF entries[e].category \in cats THEN entries[e].amount ELSE 0) =
               SumFor(Counted, cats) + 0 /\ entries[e].amount \in Nat
          BY <3>4, CloseSum DEF Counted
        <5> QED
          BY <3>2, <5>1
      <4> QED
        BY <3>2, <4>1
    <3> QED
      BY <1>4, <3>3, <3>4
  <2>2. \A cat \in DOMAIN CategoryCap : SumFor(Counted, {cat})' <= CategoryCap[cat]
    <3> SUFFICES ASSUME NEW cat \in DOMAIN CategoryCap
                 PROVE  SumFor(Counted, {cat})' <= CategoryCap[cat]
      OBVIOUS
    <3>1. SumFor(Counted, {cat})' <= SumFor(Counted, {cat})
          /\ SumFor(Counted, {cat}) \in Nat /\ SumFor(Counted, {cat})' \in Nat
      BY <2>1
    <3>2. SumFor(Counted, {cat}) <= CategoryCap[cat] /\ CategoryCap[cat] \in Nat
      BY <1>1 DEF WithinCaps
    <3> QED
      BY <3>1, <3>2
  <2>3. SumFor(Counted, Category)' <= TotalBudget
    <3>1. SumFor(Counted, Category)' <= SumFor(Counted, Category)
          /\ SumFor(Counted, Category) \in Nat /\ SumFor(Counted, Category)' \in Nat
      BY <2>1
    <3> QED
      BY <1>1, <3>1 DEF WithinCaps
  <2>4. MemoryUsed' <= Max(Allocations)
    <3>1. SumFor(Counted, MemoryCategory)' <= SumFor(Counted, MemoryCategory)
          /\ SumFor(Counted, MemoryCategory) \in Nat /\ SumFor(Counted, MemoryCategory)' \in Nat
      BY <2>1
    <3> QED
      BY <1>1, <3>1 DEF WithinCaps, MemoryUsed
  <2> QED
    BY <2>2, <2>3, <2>4 DEF WithinCaps
<1>5. ASSUME NEW c \in Client, NEW m \in Allocations, Open(c, m)  PROVE WithinCaps'
  BY <1>2, <1>5 DEF Open
<1>6. ASSUME NEW c \in Client, Close(c)  PROVE WithinCaps'
  BY <1>2, <1>6 DEF Close
<1>7. CASE UNCHANGED ledgerVars
  BY <1>2, <1>7 DEF ledgerVars
<1> QED
  BY <1>3, <1>4, <1>5, <1>6, <1>7 DEF LedgerMoves

LEMMA CapsStart == LedgerInit => WithinCaps
<1> SUFFICES ASSUME LedgerInit PROVE WithinCaps
  OBVIOUS
<1>1. \A st, cats : RowsOf(st, cats) = {}
  BY DEF RowsOf, LedgerInit
<1>2. \A st, cats : SumFor(st, cats) = 0
  BY <1>1, SumEmpty DEF SumFor
<1>3. 0 <= TotalBudget /\ 0 <= Max(Allocations) /\ \A cat \in DOMAIN CategoryCap : 0 <= CategoryCap[cat]
  BY BestAllocation, LedgerAssumption
<1> QED
  BY <1>2, <1>3 DEF WithinCaps, MemoryUsed

\* However many processes reserve, commit, release, open and die in whatever
\* order, the total, every category's cap and the largest memory allocation
\* hold (budget.py:3-6, _can_reserve).
THEOREM CapsHold == LedgerSpec => [](LedgerTypeOK /\ WithinCaps)
<1>1. LedgerInit => LedgerInv /\ WithinCaps
  BY LedgerStart, CapsStart
<1>2. LedgerInv /\ [LedgerNext]_ledgerVars => LedgerInv'
  BY LedgerInvStep, LedgerMoving
<1>3. LedgerInv /\ LedgerInv' /\ WithinCaps /\ [LedgerNext]_ledgerVars => WithinCaps'
  BY CapsStep, LedgerMoving
<1>4. LedgerInv => LedgerTypeOK
  BY DEF LedgerInv
<1> QED
  BY <1>1, <1>2, <1>3, <1>4, PTL DEF LedgerSpec

\* What is counted is what is spent and what is held.
LEMMA CountedSum ==
  ASSUME LedgerInv
  PROVE  SumFor(Counted, Category) =
           SumFor({"committed"}, Category) + SumFor({"reserved"}, Category)
<1> DEFINE S == RowsOf({"committed"}, Category)
           T == RowsOf({"reserved"}, Category)
<1>1. RowsOf(Counted, Category) = S \cup T /\ S \cap T = {}
  BY DEF RowsOf, Counted
<1>2. IsFiniteSet(S) /\ IsFiniteSet(T) /\ \A e \in S \cup T : amounts[e] \in Nat
  <2>1. \A e \in Entry : amounts[e] \in Nat
    BY RowsTyped, LedgerAssumption DEF RowsAreTyped
  <2>2. S \subseteq Entry /\ T \subseteq Entry
    BY DEF RowsOf
  <2>3. IsFiniteSet(S) /\ IsFiniteSet(T)
    BY RowsTyped DEF RowsAreTyped
  <2> QED
    BY <2>1, <2>2, <2>3
<1> HIDE DEF S, T
<1>3. SumFunctionOnSet(amounts, S \cup T) = SumFunctionOnSet(amounts, S) + SumFunctionOnSet(amounts, T)
  BY <1>1, <1>2, SumUnion
<1> QED
  BY <1>1, <1>3 DEF SumFor, S, T

spent == SumFor({"committed"}, Category)
held == SumFor({"reserved"}, Category)

LEMMA BudgetStep ==
  ASSUME LedgerInv, LedgerInv', [LedgerMoves]_ledgerVars
  PROVE  [Promise!Next]_<<spent, held>>
<1> USE DEF spent, held
<1>1. spent \in Nat /\ held \in Nat /\ spent' \in Nat /\ held' \in Nat
  <2>1. RowsAreTyped /\ RowsAreTyped'
    BY RowsTyped, PTL
  <2> QED
    BY <2>1 DEF RowsAreTyped
<1>2. ASSUME UNCHANGED entries  PROVE UNCHANGED <<spent, held>>
  BY <1>2 DEF SumFor, amounts, RowsOf
<1>3. ASSUME NEW c \in Client, NEW cat \in Category, NEW n \in Nat, NEW e \in Entry,
             Reserve(c, cat, n, e)
      PROVE  Promise!Hold \/ UNCHANGED <<spent, held>>
  <2>1. spent' = spent + 0 /\ held' = held + n
    BY <1>3, ReserveSum
  <2>2. spent + held + n <= TotalBudget
    BY <1>3, CountedSum DEF Reserve, CanReserve
  <2> HIDE DEF spent, held
  <2>3. n = 0 \/ n \in 1..(TotalBudget - spent - held)
    BY <1>1, <2>2, LedgerAssumption
  <2>4. CASE n = 0
    BY <1>1, <2>1, <2>4
  <2>5. CASE n \in 1..(TotalBudget - spent - held)
    <3>1. held' = held + n /\ spent' = spent
      BY <1>1, <2>1
    <3> QED
      BY <2>5, <3>1 DEF Promise!Hold, spent, held
  <2> QED
    BY <2>3, <2>4, <2>5
<1>4. ASSUME NEW c \in Client, NEW e \in Entry, NEW n \in Nat, Commit(c, e, n)
      PROVE  Promise!Settle
  <2> DEFINE amount == entries[e].amount
  <2>1. /\ entries[e] \in Row /\ amount \in Nat /\ n <= amount
        /\ held' + amount = held + 0 /\ spent' + 0 = spent + n
    <3>1. /\ entries[e] \in Row /\ amount \in Nat /\ n <= amount
          /\ held' + (IF entries[e].category \in Category THEN amount ELSE 0) = held + 0
      BY <1>4, CloseSum
    <3>2. spent' + 0 = spent + IF entries[e].category \in Category THEN n ELSE 0
      BY <1>4, CloseSum
    <3>3. entries[e].category \in Category
      BY <3>1 DEF Row
    <3> QED
      BY <3>1, <3>2, <3>3
  <2> HIDE DEF spent, held
  <2>2. held' = held - amount /\ amount <= held /\ spent' = spent + n
    BY <1>1, <2>1
  <2>3. amount \in 0..held /\ n \in 0..amount
    BY <1>1, <2>1, <2>2
  <2> QED
    BY <2>2, <2>3 DEF Promise!Settle, spent, held
<1>5. ASSUME NEW c \in Client, NEW e \in Entry, Release(c, e)  PROVE Promise!Settle
  <2> DEFINE amount == entries[e].amount
  <2>1. /\ amount \in Nat
        /\ held' + amount = held + 0 /\ spent' + 0 = spent + 0
    <3>1. /\ entries[e] \in Row /\ amount \in Nat
          /\ held' + (IF entries[e].category \in Category THEN amount ELSE 0) = held + 0
      BY <1>5, CloseSum
    <3>2. spent' + 0 = spent + 0
      BY <1>5, CloseSum
    <3>3. entries[e].category \in Category
      BY <3>1 DEF Row
    <3> QED
      BY <3>1, <3>2, <3>3
  <2> HIDE DEF spent, held
  <2>2. held' = held - amount /\ amount <= held /\ spent' = spent + 0
    BY <1>1, <2>1
  <2>3. amount \in 0..held /\ 0 \in 0..amount
    BY <1>1, <2>1, <2>2
  <2> QED
    BY <2>2, <2>3 DEF Promise!Settle, spent, held
<1>6. ASSUME NEW c \in Client, NEW m \in Allocations, Open(c, m)
      PROVE  UNCHANGED <<spent, held>>
  BY <1>2, <1>6 DEF Open
<1>7. ASSUME NEW c \in Client, Close(c)  PROVE UNCHANGED <<spent, held>>
  BY <1>2, <1>7 DEF Close
<1>8. CASE UNCHANGED ledgerVars
  BY <1>2, <1>8 DEF ledgerVars
<1> HIDE DEF spent, held
<1> QED
  BY <1>3, <1>4, <1>5, <1>6, <1>7, <1>8 DEF LedgerMoves, Promise!Next

\* The ledger implements the abstract budget of budget.py:1-7: opening and
\* closing are stutters, a reservation holds, a commit or release settles.
THEOREM LedgerIsBudget == LedgerSpec => ImplementsBudget
<1>1. LedgerInit => LedgerInv /\ Promise!Init
  <2> SUFFICES ASSUME LedgerInit PROVE Promise!Init
    BY LedgerStart
  <2>1. RowsOf({"committed"}, Category) = {} /\ RowsOf({"reserved"}, Category) = {}
    BY DEF RowsOf, LedgerInit
  <2> QED
    BY <2>1, SumEmpty DEF Promise!Init, SumFor
<1>2. LedgerInv /\ [LedgerNext]_ledgerVars => LedgerInv'
  BY LedgerInvStep, LedgerMoving
<1>3. LedgerInv /\ LedgerInv' /\ [LedgerNext]_ledgerVars => [Promise!Next]_(Promise!vars)
  BY BudgetStep, LedgerMoving DEF Promise!vars, spent, held
<1> QED
  BY <1>1, <1>2, <1>3, PTL DEF LedgerSpec, ImplementsBudget, Promise!Spec

\* Only stored ids are remembered, and the table has one row an id.
TableShape ==
  /\ DOMAIN entries = Entry
  /\ known \in [Client -> SUBSET Entry]

LEMMA TableShapeStep ==
  ASSUME TableShape, [LedgerNext]_ledgerVars
  PROVE  TableShape'
<1>1. ASSUME NEW c \in Client, NEW m \in Allocations, Open(c, m)  PROVE TableShape'
  BY <1>1 DEF TableShape, Open
<1>2. ASSUME NEW c \in Client, NEW cat \in Category, NEW n \in Requests, NEW e \in Entry,
             Reserve(c, cat, n, e)
      PROVE  TableShape'
  BY <1>2 DEF TableShape, Reserve
<1>3. ASSUME NEW c \in Client, NEW e \in Entry, NEW n \in Usages, Commit(c, e, n)
      PROVE  TableShape'
  BY <1>3 DEF TableShape, Commit
<1>4. ASSUME NEW c \in Client, NEW e \in Entry, Release(c, e)  PROVE TableShape'
  BY <1>4 DEF TableShape, Release
<1>5. ASSUME NEW c \in Client, Close(c)  PROVE TableShape'
  BY <1>5 DEF TableShape, Close
<1>6. CASE UNCHANGED ledgerVars
  BY <1>6 DEF TableShape, ledgerVars
<1> QED
  BY <1>1, <1>2, <1>3, <1>4, <1>5, <1>6 DEF LedgerNext

\* One row the table has does not change once it is closed.
RowFinal(e) ==
  entries[e] # None /\ entries[e].status # "reserved" => entries'[e] = entries[e]

LEMMA RowFinalStep ==
  ASSUME TableShape, [LedgerMoves]_ledgerVars, NEW x \in Entry
  PROVE  RowFinal(x)
<1>1. ASSUME NEW c \in Client, NEW cat \in Category, NEW n \in Nat, NEW e \in Entry,
             Reserve(c, cat, n, e)
      PROVE  RowFinal(x)
  BY <1>1 DEF TableShape, RowFinal, Reserve
<1>2. ASSUME NEW c \in Client, NEW e \in Entry, NEW n \in Nat, Commit(c, e, n)
      PROVE  RowFinal(x)
  BY <1>2 DEF TableShape, RowFinal, Commit, Closable
<1>3. ASSUME NEW c \in Client, NEW e \in Entry, Release(c, e)  PROVE RowFinal(x)
  BY <1>3 DEF TableShape, RowFinal, Release, Closable
<1>4. CASE UNCHANGED entries
  BY <1>4 DEF RowFinal
<1> QED
  BY <1>1, <1>2, <1>3, <1>4 DEF LedgerMoves, Open, Close, ledgerVars

\* A committed or released reservation is final, whatever the processes that
\* share the ledger do (budget.py:245, :273).
THEOREM ChargesAreFinal == LedgerSpec => ChargesFinal
<1>1. LedgerInit => TableShape
  BY DEF LedgerInit, TableShape
<1>2. TableShape /\ [LedgerNext]_ledgerVars => TableShape'
  BY TableShapeStep
<1>3. TableShape /\ [LedgerNext]_ledgerVars
        => [\A e \in Entry : entries[e] # None /\ entries[e].status # "reserved"
                               => entries'[e] = entries[e]]_ledgerVars
  BY RowFinalStep, LedgerMoving DEF RowFinal
<1> QED
  BY <1>1, <1>2, <1>3, PTL DEF LedgerSpec, ChargesFinal

-----------------------------------------------------------------------------
(* The pass *)

LEMMA PassFields ==
  ASSUME ValidationTypeOK, NEW c \in Client, pass[c] # None
  PROVE  pass[c] \in Pass
BY DEF ValidationTypeOK

\* Entering the try changes nothing else of the pass.
LEMMA PreparedPass ==
  ASSUME ValidationTypeOK, NEW c \in Client, Prepare(c)
  PROVE  \E p \in Pass :
           /\ pass' = [pass EXCEPT ![c] = p]
           /\ p.task = pass[c].task /\ p.todo = pass[c].todo
           /\ p.reservation = pass[c].reservation /\ p.estimate = pass[c].estimate
           /\ p.cost = pass[c].cost /\ p.result = pass[c].result
<1> DEFINE p == [pass[c] EXCEPT !.guarded = TRUE]
<1>1. pass[c] \in Pass /\ pass' = [pass EXCEPT ![c] = p]
  BY PassFields DEF Prepare
<1>2. /\ p \in Pass
      /\ p.task = pass[c].task /\ p.todo = pass[c].todo
      /\ p.reservation = pass[c].reservation /\ p.estimate = pass[c].estimate
      /\ p.cost = pass[c].cost /\ p.result = pass[c].result
  BY <1>1 DEF Pass
<1> QED
  BY <1>1, <1>2

LEMMA TypeStep ==
  ASSUME ValidationAssumption, ValidationTypeOK, [Next]_vars
  PROVE  ValidationTypeOK'
<1> USE DEF ValidationTypeOK
<1>1. ASSUME NEW c \in Client, NEW t \in Task, NEW e \in Entry, Begin(c, t, e)
      PROVE  ValidationTypeOK'
  <2>1. Cardinality(live) \in Nat
    BY FS_Subset, FS_CardinalityType DEF ValidationAssumption
  <2>2. [task |-> t, todo |-> live, reservation |-> e,
         estimate |-> Cardinality(live), cost |-> 0, result |-> None,
         guarded |-> FALSE] \in Pass
    BY <2>1 DEF Pass
  <2> QED
    BY <1>1, <2>2 DEF Begin
<1>2. ASSUME NEW c \in Client, NEW a \in Application, Visiting(c, a)
      PROVE  /\ pass[c] \in Pass
             /\ Leave(c, a) \in [Client -> Pass \cup {None}]
  <2>1. pass[c] \in Pass
    BY <1>2, PassFields DEF Visiting
  <2>2. [pass[c] EXCEPT !.todo = @ \ {a}] \in Pass
    BY <2>1 DEF Pass
  <2>3. Leave(c, a) = [pass EXCEPT ![c] = [pass[c] EXCEPT !.todo = @ \ {a}]]
    BY DEF Leave
  <2> QED
    BY <2>1, <2>2, <2>3
<1>3. ASSUME NEW a \in Application, NEW t \in Task, NEW n \in Nat,
             NEW kind \in {"fresh", "cached", "neutral"}, Observe(a, t, kind, n)
      PROVE  observed' \in [Application -> [Task -> Observation \cup {None}]]
  BY <1>3 DEF Observe, Observation
<1>4. ASSUME NEW c \in Client, NEW a \in Application, Skip(c, a)  PROVE ValidationTypeOK'
  BY <1>4, <1>2 DEF Skip
<1>5. ASSUME NEW c \in Client, NEW a \in Application, Neutral(c, a)  PROVE ValidationTypeOK'
  BY <1>5, <1>2, <1>3 DEF Neutral, Pass
<1>6. ASSUME NEW c \in Client, NEW a \in Application, Hit(c, a)  PROVE ValidationTypeOK'
  <2>1. pass[c] \in Pass /\ Leave(c, a) \in [Client -> Pass \cup {None}]
    BY <1>6, <1>2 DEF Hit
  <2>2. observed' \in [Application -> [Task -> Observation \cup {None}]]
    BY <1>6, <1>3, <2>1 DEF Hit, Pass
  <2> QED
    BY <1>6, <2>1, <2>2 DEF Hit
<1>7. ASSUME NEW c \in Client, NEW a \in Application, Evaluate(c, a)  PROVE ValidationTypeOK'
  <2>1. pass[c] \in Pass
    BY <1>7, <1>2 DEF Evaluate
  <2>2. PICK sound \in BOOLEAN, n \in Costs :
          /\ pass' = [pass EXCEPT ![c].result = [app |-> a, sound |-> sound, cost |-> n]]
          /\ cache' = [cache EXCEPT ![KeyOf(a, pass[c].task)] = IF sound THEN "sound" ELSE "broken"]
    BY <1>7 DEF Evaluate, Lookup, Store
  <2>3. [app |-> a, sound |-> sound, cost |-> n] \in Result
    BY DEF Result, ValidationAssumption
  <2>4. [pass[c] EXCEPT !.result = [app |-> a, sound |-> sound, cost |-> n]] \in Pass
    BY <2>1, <2>3 DEF Pass
  <2> QED
    BY <1>7, <2>2, <2>4 DEF Evaluate
<1>8. ASSUME NEW c \in Client, Record(c)  PROVE ValidationTypeOK'
  <2> DEFINE r == pass[c].result
             charge == IF r.sound THEN r.cost ELSE 0
             next == [pass[c] EXCEPT !.todo = @ \ {r.app}, !.result = None, !.cost = @ + charge]
  <2>1. pass[c] \in Pass
    BY <1>8, PassFields DEF Record
  <2>2. r \in Result
    BY <1>8, <2>1 DEF Record, Pass
  <2>3. charge \in Nat
    BY <2>2 DEF Result
  <2>4. next \in Pass
    <3>1. pass[c].cost + charge \in Nat /\ pass[c].todo \ {r.app} \in SUBSET Application
      BY <2>1, <2>3 DEF Pass
    <3> HIDE DEF charge, r
    <3> QED
      BY <2>1, <3>1 DEF Pass
  <2>5. pass' = [pass EXCEPT ![c] = next]
    BY <1>8 DEF Record
  <2>6. pass' \in [Client -> Pass \cup {None}]
    BY <2>4, <2>5
  <2>7. observed' \in [Application -> [Task -> Observation \cup {None}]]
    <3>1. Observe(r.app, pass[c].task, IF r.sound THEN "fresh" ELSE "neutral", charge)
      BY <1>8 DEF Record
    <3>2. r.app \in Application /\ pass[c].task \in Task
      BY <2>1, <2>2 DEF Result, Pass
    <3> QED
      BY <3>1, <3>2, <2>3, <1>3
  <2>8. live' \in SUBSET Application /\ cache' = cache
    BY <1>8 DEF Record
  <2> QED
    BY <2>6, <2>7, <2>8
<1>9. ASSUME NEW c \in Client,
             Finish(c) \/ FinishUntested(c) \/ PrepareRaises(c) \/ Raise(c) \/ Die(c)
      PROVE  ValidationTypeOK'
  BY <1>9 DEF Finish, FinishUntested, PrepareRaises, Raise, Die
<1>10. ASSUME NEW c \in Client, Start(c)  PROVE ValidationTypeOK'
  BY <1>10 DEF Start, passVars
<1>11. ASSUME NEW c \in Client, Prepare(c)  PROVE ValidationTypeOK'
  BY <1>11, PreparedPass DEF Prepare
<1>12. CASE UNCHANGED vars
  BY <1>12 DEF vars
<1> QED
  BY <1>1, <1>4, <1>5, <1>6, <1>7, <1>8, <1>9, <1>10, <1>11, <1>12 DEF Next, Advance

\* The cache, the evidence log and the passes keep their types, for every
\* interleaving of passes, failures and restarts.
THEOREM ValidationTypeCorrect == Spec => []ValidationTypeOK
<1>1. Init => ValidationTypeOK
  BY DEF Init, ValidationTypeOK
<1>2. ValidationTypeOK /\ [Next]_vars => ValidationTypeOK'
  BY TypeStep, ValidationAssumption
<1> QED
  BY <1>1, <1>2, PTL DEF Spec

-----------------------------------------------------------------------------
(* Shared comparisons *)

\* One process validates at a time, as the optimizer runs.
SoleValidator == \A c, d \in Client : c = d

\* Recording something that is not fresh leaves the fresh evidence alone.
LEMMA NotFreshObserved ==
  ASSUME ValidationTypeOK, NEW a \in Application, NEW t \in Task, NEW n \in Nat,
         NEW kind \in {"cached", "neutral"}, Observe(a, t, kind, n),
         NEW b \in Application, NEW u \in Task, Fresh(b, u)'
  PROVE  Fresh(b, u)
BY DEF ValidationTypeOK, Observe, Fresh

\* A step that adds no fresh evidence, forgets no cached comparison and has
\* none waiting keeps the invariant.
LEMMA QuietStep ==
  ASSUME FreshInv, ValidationTypeOK,
         \A b \in Application, u \in Task : Fresh(b, u)' => Fresh(b, u),
         cache' = cache,
         \A c \in Client : pass'[c] # None /\ pass'[c].result # None =>
            pass[c] # None /\ pass'[c].result = pass[c].result /\ pass'[c].task = pass[c].task
  PROVE  FreshInv'
<1>1. FreshOnce'
  BY DEF FreshInv, FreshOnce
<1>2. \A a \in Application, t \in Task : Fresh(a, t)' => cache'[KeyOf(a, t)] # "none"
  BY DEF FreshInv
<1>3. ASSUME NEW c \in Client, pass'[c] # None, pass'[c].result # None
      PROVE  Untold(pass[c].result.app, pass[c].task)'
  <2>1. /\ pass[c] # None /\ pass[c].result # None
        /\ pass'[c].result = pass[c].result /\ pass'[c].task = pass[c].task
    BY <1>3
  <2>2. pass[c].task \in Task
    BY <2>1, PassFields DEF Pass
  <2>3. Untold(pass[c].result.app, pass[c].task)
    BY <2>1 DEF FreshInv
  <2> QED
    BY <2>1, <2>2, <2>3 DEF Untold, KeyOf, Fresh
<1> QED
  BY <1>1, <1>2, <1>3 DEF FreshInv, KeyOf

LEMMA FreshStep ==
  ASSUME SoleValidator, FreshInv, ValidationTypeOK, [Next]_vars
  PROVE  FreshInv'
<1> USE DEF ValidationTypeOK
<1>1. CASE UNCHANGED <<cache, observed, pass>>
  BY <1>1, QuietStep DEF Fresh
<1>2. ASSUME NEW c \in Client, NEW t \in Task, NEW e \in Entry, Begin(c, t, e)
      PROVE  FreshInv'
  BY <1>2, QuietStep DEF Begin, Fresh
<1>3. ASSUME NEW c \in Client, NEW a \in Application, Visiting(c, a), pass' = Leave(c, a)
      PROVE  /\ pass[c].task \in Task
             /\ \A d \in Client : d = c /\ pass'[d].result = None
  <2>1. pass[c] \in Pass
    BY <1>3, PassFields DEF Visiting
  <2>2. \A d \in Client : d = c
    BY DEF SoleValidator
  <2> QED
    BY <1>3, <2>1, <2>2 DEF Visiting, Leave, Pass
<1>4. ASSUME NEW c \in Client, NEW a \in Application, Skip(c, a)  PROVE FreshInv'
  BY <1>4, <1>3, QuietStep DEF Skip, Fresh
<1>5. ASSUME NEW c \in Client, NEW a \in Application, Neutral(c, a)  PROVE FreshInv'
  <2>1. pass[c].task \in Task /\ \A d \in Client : pass'[d].result = None
    BY <1>5, <1>3 DEF Neutral
  <2>2. \A b \in Application, u \in Task : Fresh(b, u)' => Fresh(b, u)
    BY <1>5, <2>1, NotFreshObserved DEF Neutral
  <2> QED
    BY <1>5, <2>1, <2>2, QuietStep DEF Neutral
<1>6. ASSUME NEW c \in Client, NEW a \in Application, Hit(c, a)  PROVE FreshInv'
  <2>1. pass[c].task \in Task /\ \A d \in Client : pass'[d].result = None
    BY <1>6, <1>3 DEF Hit
  <2>2. \A b \in Application, u \in Task : Fresh(b, u)' => Fresh(b, u)
    BY <1>6, <2>1, NotFreshObserved DEF Hit
  <2> QED
    BY <1>6, <2>1, <2>2, QuietStep DEF Hit
<1>7. ASSUME NEW c \in Client, NEW a \in Application, Evaluate(c, a)  PROVE FreshInv'
  <2> DEFINE t == pass[c].task
  <2>1. pass[c] \in Pass /\ t \in Task /\ \A d \in Client : d = c
    BY <1>7, PassFields DEF Evaluate, Visiting, Pass, SoleValidator
  <2>2. /\ observed' = observed
        /\ cache[KeyOf(a, t)] = "none"
        /\ KeyOf(a, t) \in Key
        /\ cache'[KeyOf(a, t)] # "none"
        /\ \A k \in Key : cache[k] # "none" => cache'[k] # "none"
        /\ pass'[c].result.app = a /\ pass'[c].task = t
    <3>1. PICK sound \in BOOLEAN, n \in Costs :
            /\ pass' = [pass EXCEPT ![c].result = [app |-> a, sound |-> sound, cost |-> n]]
            /\ cache' = [cache EXCEPT ![KeyOf(a, t)] = IF sound THEN "sound" ELSE "broken"]
      BY <1>7 DEF Evaluate, Lookup, Store
    <3>2. KeyOf(a, t) \in Key
      BY <2>1, ValidationAssumption DEF KeyOf, Key, ValidationAssumption
    <3>3. pass'[c].result.app = a /\ pass'[c].task = t
      BY <3>1, <2>1 DEF Pass
    <3>4. cache[KeyOf(a, t)] = "none" /\ observed' = observed
      BY <1>7 DEF Evaluate, Lookup, Store
    <3> QED
      BY <3>1, <3>2, <3>3, <3>4
  <2>3. \A b \in Application, u \in Task : Fresh(b, u)' <=> Fresh(b, u)
    BY <2>2 DEF Fresh
  <2>4. \A b \in Application, u \in Task : KeyOf(b, u) \in Key
    BY ValidationAssumption DEF KeyOf, Key, ValidationAssumption
  <2>5. \A b \in Application : PairOf[b] = PairOf[a] => ~Fresh(b, t)
    BY <2>1, <2>2 DEF FreshInv, KeyOf
  <2>6. FreshOnce'
    BY <2>3 DEF FreshInv, FreshOnce
  <2>7. \A b \in Application, u \in Task : Fresh(b, u)' => cache'[KeyOf(b, u)] # "none"
    BY <2>2, <2>3, <2>4 DEF FreshInv
  <2>8. ASSUME NEW d \in Client  PROVE Untold(pass[d].result.app, pass[d].task)'
    BY <2>1, <2>2, <2>3, <2>5 DEF Untold, KeyOf, Fresh
  <2> QED
    BY <2>6, <2>7, <2>8 DEF FreshInv, KeyOf
<1>8. ASSUME NEW c \in Client, Record(c)  PROVE FreshInv'
  <2> DEFINE r == pass[c].result
             t == pass[c].task
             kind == IF r.sound THEN "fresh" ELSE "neutral"
             charge == IF r.sound THEN r.cost ELSE 0
  <2>1. /\ pass[c] \in Pass /\ t \in Task /\ r \in Result
        /\ r.app \in Application /\ charge \in Nat
        /\ \A d \in Client : d = c
    BY <1>8, PassFields DEF Record, Pass, Result, SoleValidator
  <2>2. Observe(r.app, t, kind, charge) /\ cache' = cache /\ \A d \in Client : pass'[d].result = None
    BY <1>8, <2>1 DEF Record, Pass
  <2>3. /\ cache[KeyOf(r.app, t)] # "none"
        /\ \A b \in Application : PairOf[b] = PairOf[r.app] => ~Fresh(b, t)
    BY <1>8 DEF Record, FreshInv, Untold
  <2>4. \A b \in Application, u \in Task :
          Fresh(b, u)' => Fresh(b, u) \/ (b = r.app /\ u = t)
    BY <2>1, <2>2 DEF Observe, Fresh
  <2>5. FreshOnce'
    BY <2>1, <2>3, <2>4 DEF FreshInv, FreshOnce
  <2>6. \A b \in Application, u \in Task : Fresh(b, u)' => cache'[KeyOf(b, u)] # "none"
    BY <2>1, <2>2, <2>3, <2>4 DEF FreshInv
  <2> QED
    BY <2>2, <2>5, <2>6 DEF FreshInv, KeyOf
<1>9. ASSUME NEW c \in Client,
             Finish(c) \/ FinishUntested(c) \/ PrepareRaises(c) \/ Raise(c) \/ Die(c)
      PROVE  FreshInv'
  BY <1>9, QuietStep DEF Finish, FinishUntested, PrepareRaises, Raise, Die, Fresh
<1>10. ASSUME NEW c \in Client, Prepare(c)  PROVE FreshInv'
  <2>1. PICK p \in Pass :
          /\ pass' = [pass EXCEPT ![c] = p]
          /\ p.task = pass[c].task /\ p.result = pass[c].result
    BY <1>10, PreparedPass
  <2>2. \A d \in Client : pass'[d] # None /\ pass'[d].result # None =>
           pass[d] # None /\ pass'[d].result = pass[d].result /\ pass'[d].task = pass[d].task
    BY <1>10, <2>1 DEF Prepare
  <2>3. cache' = cache /\ observed' = observed
    BY <1>10 DEF Prepare
  <2> QED
    BY <2>2, <2>3, QuietStep DEF Fresh
<1> QED
  BY <1>1, <1>2, <1>4, <1>5, <1>6, <1>7, <1>8, <1>9, <1>10 DEF Next, Advance, Start, passVars, vars

\* Whatever raises or dies, and however often a task returns, a comparison
\* is fresh evidence at most once (adapter.py:287-296, :339-342).
THEOREM SharedOnce ==
  ASSUME SoleValidator
  PROVE  Spec => []FreshOnce
<1>1. Init => FreshInv
  BY DEF Init, FreshInv, FreshOnce, Fresh
<1>2. FreshInv /\ ValidationTypeOK /\ [Next]_vars => FreshInv'
  BY FreshStep
<1>3. FreshInv => FreshOnce
  BY DEF FreshInv
<1> QED
  BY <1>1, <1>2, <1>3, ValidationTypeCorrect, PTL DEF Spec

-----------------------------------------------------------------------------
(* The pass and its reservation *)

LEMMA LiveCount == ValidationTypeOK => Cardinality(live) \in Nat
BY ValidationAssumption, FS_Subset, FS_CardinalityType DEF ValidationTypeOK, ValidationAssumption

\* A pass moves the ledger as any process may.
LEMMA PassMoves ==
  ASSUME ValidationTypeOK, [Next]_vars
  PROVE  [LedgerMoves]_ledgerVars
<1>1. ASSUME NEW c \in Client, NEW t \in Task, NEW e \in Entry, Begin(c, t, e)
      PROVE  LedgerMoves
  <2>1. Cardinality(live) \in Nat
    BY LiveCount
  <2>2. Validation \in Category
    BY ValidationAssumption, LedgerAssumption DEF ValidationAssumption
  <2> QED
    BY <1>1, <2>1, <2>2 DEF Begin, LedgerMoves
<1>2. ASSUME NEW c \in Client, Finish(c)  PROVE LedgerMoves
  <2>1. pass[c] \in Pass
    BY <1>2, PassFields DEF Finish
  <2>2. Min({pass[c].cost, pass[c].estimate}) \in Nat
    BY <2>1 DEF Pass, Min
  <2>3. Commit(c, pass[c].reservation, Min({pass[c].cost, pass[c].estimate}))
    BY <1>2 DEF Finish
  <2>4. pass[c].reservation \in Entry
    BY <2>1 DEF Pass
  <2> QED
    BY <2>2, <2>3, <2>4 DEF LedgerMoves
<1>3. ASSUME NEW c \in Client, Raise(c)  PROVE LedgerMoves
  <2>1. pass[c] \in Pass
    BY <1>3, PassFields DEF Raise
  <2>2. pass[c].reservation \in Entry
    BY <2>1 DEF Pass
  <2> QED
    BY <1>3, <2>2 DEF Raise, LedgerMoves
<1>4. ASSUME NEW c \in Client, Die(c) \/ Start(c)  PROVE LedgerMoves
  BY <1>4 DEF Die, Start, LedgerMoves
<1>5. ASSUME NEW c \in Client, NEW a \in Application,
             Skip(c, a) \/ Neutral(c, a) \/ Hit(c, a) \/ Evaluate(c, a)
      PROVE  UNCHANGED ledgerVars
  BY <1>5 DEF Skip, Neutral, Hit, Evaluate
<1>6. ASSUME NEW c \in Client,
             Prepare(c) \/ PrepareRaises(c) \/ Record(c) \/ FinishUntested(c)
      PROVE  UNCHANGED ledgerVars
  BY <1>6 DEF Prepare, PrepareRaises, Record, FinishUntested
<1>7. CASE UNCHANGED vars
  BY <1>7 DEF vars, ledgerVars
<1> QED
  BY <1>1, <1>2, <1>3, <1>4, <1>5, <1>6, <1>7 DEF Next, Advance

\* Whoever validates, raises or dies, the caps hold.
LEMMA CapsWhileValidating == Spec => [](ValidationTypeOK /\ LedgerInv /\ WithinCaps)
<1>1. Init => ValidationTypeOK /\ LedgerInv /\ WithinCaps
  BY LedgerStart, CapsStart DEF Init, ValidationTypeOK
<1>2. ValidationTypeOK /\ [Next]_vars => ValidationTypeOK'
  BY TypeStep, ValidationAssumption
<1>3. ValidationTypeOK /\ LedgerInv /\ [Next]_vars => LedgerInv'
  BY LedgerInvStep, PassMoves
<1>4. ValidationTypeOK /\ LedgerInv /\ LedgerInv' /\ WithinCaps /\ [Next]_vars => WithinCaps'
  BY CapsStep, PassMoves
<1> QED
  BY <1>1, <1>2, <1>3, <1>4, PTL DEF Spec

\* A closed reservation no longer is one.
LEMMA ClosedIsClosed ==
  ASSUME LedgerInv, NEW c \in Client, NEW e \in Entry, NEW n \in Nat,
         Commit(c, e, n) \/ Release(c, e)
  PROVE  ~Reserved(e)'
<1>1. entries[e] \in Row /\ DOMAIN entries = Entry
  BY DEF LedgerInv, LedgerTypeOK, Commit, Release, Closable
<1>2. CASE Commit(c, e, n)
  <2> DEFINE row == [entries[e] EXCEPT !.amount = n, !.status = "committed"]
  <2>1. row.status = "committed"
    BY <1>1 DEF Row
  <2>2. entries' = [entries EXCEPT ![e] = row]
    BY <1>2 DEF Commit
  <2> QED
    BY <1>1, <2>1, <2>2 DEF Reserved
<1>3. CASE Release(c, e)
  <2> DEFINE row == [entries[e] EXCEPT !.status = "released"]
  <2>1. row.status = "released"
    BY <1>1 DEF Row
  <2>2. entries' = [entries EXCEPT ![e] = row]
    BY <1>3 DEF Release
  <2> QED
    BY <1>1, <2>1, <2>2 DEF Reserved
<1> QED
  BY <1>2, <1>3

\* Once the adapter is called, a pass over a task that has tests gives back
\* what it does not use, whatever raises, unless its process dies
\* (legacy_shim.py:252-261, adapter.py:377).
THEOREM PassGivesBack == Spec => PassReturnsHeld
<1> DEFINE Back ==
      \A c \in Client, e \in Entry : PassOver(c, e) /\ pass[c].guarded => ~Reserved(e)'
<1>1. ValidationTypeOK /\ LedgerInv /\ [Next]_vars => Back
  <2> SUFFICES ASSUME ValidationTypeOK, LedgerInv, [Next]_vars,
                      NEW c \in Client, NEW e \in Entry, pass[c].reservation = e,
                      pass[c] # None, pass'[c] = None, allocation'[c] # None,
                      pass[c].task \notin Untested, pass[c].guarded
               PROVE  ~Reserved(e)'
    BY DEF PassOver
  <2>1. /\ pass[c] \in Pass /\ pass \in [Client -> Pass \cup {None}]
        /\ allocation \in [Client -> Allocations \cup {None}]
    BY PassFields DEF ValidationTypeOK, LedgerInv, LedgerTypeOK
  <2>2. /\ pass[c].reservation \in Entry
        /\ Min({pass[c].cost, pass[c].estimate}) \in Nat
    BY <2>1 DEF Pass, Min
  <2>3. ASSUME NEW d \in Client, NEW p \in Pass, pass' = [pass EXCEPT ![d] = p]
        PROVE  FALSE
    BY <2>1, <2>3, PassAssumption
  <2>4. ASSUME NEW d \in Client, NEW t \in Task, NEW x \in Entry, Begin(d, t, x)
        PROVE  FALSE
    <3> DEFINE p == [task |-> t, todo |-> live, reservation |-> x,
                     estimate |-> Cardinality(live), cost |-> 0, result |-> None,
                     guarded |-> FALSE]
    <3>1. p \in Pass
      BY LiveCount DEF ValidationTypeOK, Pass
    <3> QED
      BY <2>3, <2>4, <3>1 DEF Begin
  <2>5. ASSUME NEW d \in Client, NEW a \in Application,
               Skip(d, a) \/ Neutral(d, a) \/ Hit(d, a)
        PROVE  FALSE
    <3> DEFINE p == [pass[d] EXCEPT !.todo = @ \ {a}]
    <3>1. pass[d] \in Pass
      BY <2>5, PassFields DEF Skip, Neutral, Hit, Visiting
    <3>2. p \in Pass
      BY <3>1 DEF Pass
    <3>3. pass' = [pass EXCEPT ![d] = p]
      BY <2>5 DEF Skip, Neutral, Hit, Leave
    <3> QED
      BY <2>3, <3>2, <3>3
  <2>6. ASSUME NEW d \in Client, NEW a \in Application, Evaluate(d, a)
        PROVE  FALSE
    <3>1. pass[d] \in Pass
      BY <2>6, PassFields DEF Evaluate, Visiting
    <3>2. PICK sound \in BOOLEAN, n \in Costs :
            pass' = [pass EXCEPT ![d] = [pass[d] EXCEPT !.result =
                                           [app |-> a, sound |-> sound, cost |-> n]]]
      BY <2>6 DEF Evaluate
    <3> DEFINE r == [app |-> a, sound |-> sound, cost |-> n]
    <3>4. r \in Result
      BY ValidationAssumption DEF Result, ValidationAssumption
    <3> HIDE DEF r
    <3>3. [pass[d] EXCEPT !.result = r] \in Pass
      BY <3>1, <3>4 DEF Pass
    <3> USE DEF r
    <3> QED
      BY <2>3, <3>2, <3>3
  <2>7. ASSUME NEW d \in Client, Record(d)  PROVE FALSE
    <3> DEFINE r == pass[d].result
               charge == IF r.sound THEN r.cost ELSE 0
               p == [pass[d] EXCEPT !.todo = @ \ {r.app}, !.result = None, !.cost = @ + charge]
    <3>1. pass[d] \in Pass
      BY <2>7, PassFields DEF Record
    <3>2. charge \in Nat
      BY <2>7, <3>1 DEF Record, Pass, Result
    <3>3. p \in Pass
      <4>1. pass[d].cost + charge \in Nat /\ pass[d].todo \ {r.app} \in SUBSET Application
        BY <3>1, <3>2 DEF Pass
      <4> HIDE DEF charge, r
      <4> QED
        BY <3>1, <4>1 DEF Pass
    <3>4. pass' = [pass EXCEPT ![d] = p]
      BY <2>7 DEF Record
    <3> QED
      BY <2>3, <3>3, <3>4
  <2>8. ASSUME NEW d \in Client, Finish(d) \/ Raise(d)
        PROVE  ~Reserved(e)'
    <3>1. d = c
      BY <2>1, <2>8 DEF Finish, Raise
    <3>2. \/ Commit(c, e, Min({pass[c].cost, pass[c].estimate}))
          \/ Release(c, e)
      BY <2>8, <3>1 DEF Finish, Raise
    <3> QED
      BY <2>2, <3>2, ClosedIsClosed
  <2>9. ASSUME NEW d \in Client, FinishUntested(d) \/ Die(d) \/ Start(d)  PROVE FALSE
    BY <2>1, <2>9 DEF FinishUntested, Die, Close, Start, passVars
  <2>10. ASSUME NEW d \in Client, Prepare(d)  PROVE FALSE
    BY <2>3, <2>10, PreparedPass
  <2>11. ASSUME NEW d \in Client, PrepareRaises(d)  PROVE FALSE
    BY <2>1, <2>11 DEF PrepareRaises
  <2>12. CASE UNCHANGED vars
    BY <2>12 DEF vars
  <2> QED
    BY <2>4, <2>5, <2>6, <2>7, <2>8, <2>9, <2>10, <2>11, <2>12 DEF Next, Advance
<1> QED
  BY <1>1, CapsWhileValidating, PTL DEF Spec, PassReturnsHeld

-----------------------------------------------------------------------------
(* What the evidence log reports is on the books *)

\* No pair costs more than it was reserved for: a dearer one is committed at
\* the estimate (adapter.py:377), and the log may then report more.
UnitCosts == Costs \subseteq 0..1

Holds(c, e) == pass[c] # None /\ pass[c].reservation = e

\* A pass has a reservation of its own, which has room for its cost and for
\* every application it still has to visit.
Backed(c) ==
  LET p == pass[c]  e == p.reservation
  IN  /\ e \in known[c] /\ Reserved(e) /\ entries[e].amount = p.estimate
      /\ p.cost + Cardinality(p.todo) <= p.estimate
      /\ p.result # None => p.result.app \in p.todo /\ p.result.cost <= 1

OwnReservation == \A c, d \in Client, e \in Entry : Holds(c, e) /\ Holds(d, e) => c = d

BackedPasses ==
  /\ \A c \in Client : pass[c] # None => Backed(c)
  /\ OwnReservation
  /\ \A e \in Filed : entries[e].category = Validation

\* What a reservation answers for: the cost of the pass that holds it, and
\* once none does the row's amount.
credit ==
  [e \in Entry |-> IF \E c \in Client : Holds(c, e)
                   THEN pass[CHOOSE c \in Client : Holds(c, e)].cost ELSE amounts[e]]

Told == {o \in Application \X Task : observed[o[1]][o[2]] # None}
Credit == SumFunctionOnSet(credit, Filed)

Credited ==
  /\ IsFiniteSet(Told)
  /\ RowsOf({"released"}, Category) = {} => EvidenceCost <= Credit

PassInv == ValidationTypeOK /\ LedgerInv /\ BackedPasses

CreditFacts ==
  /\ \A e \in Entry : credit[e] \in Nat /\ amounts[e] \in Nat
  /\ \A e \in Filed : credit[e] <= amounts[e]
  /\ \A c \in Client, e \in Entry : Holds(c, e) => credit[e] = pass[c].cost
  /\ \A e \in Entry : (\A c \in Client : ~Holds(c, e)) => credit[e] = amounts[e]

LEMMA CreditOf == PassInv => CreditFacts
<1> SUFFICES ASSUME PassInv PROVE CreditFacts
  OBVIOUS
<1>1. \A e \in Entry : amounts[e] \in Nat
  BY RowsTyped, LedgerAssumption DEF PassInv, RowsAreTyped
<1>2. ASSUME NEW c \in Client, NEW e \in Entry, Holds(c, e)
      PROVE  /\ credit[e] = pass[c].cost /\ credit[e] \in Nat /\ credit[e] <= amounts[e]
  <2>1. (CHOOSE d \in Client : Holds(d, e)) = c
    BY <1>2 DEF PassInv, BackedPasses, OwnReservation
  <2>2. pass[c] \in Pass /\ Backed(c) /\ pass[c].reservation = e
    BY <1>2, PassFields DEF PassInv, BackedPasses, Holds
  <2>3. Cardinality(pass[c].todo) \in Nat /\ pass[c].cost \in Nat /\ pass[c].estimate \in Nat
    BY <2>2, FS_Subset, FS_CardinalityType, ValidationAssumption DEF Pass, ValidationAssumption
  <2>4. credit[e] = pass[c].cost
    BY <1>2, <2>1 DEF credit
  <2>5. amounts[e] = pass[c].estimate
    BY <2>2 DEF Backed, Reserved, amounts
  <2>6. pass[c].cost + Cardinality(pass[c].todo) <= pass[c].estimate
    BY <2>2 DEF Backed
  <2> QED
    BY <2>3, <2>4, <2>5, <2>6
<1>3. ASSUME NEW e \in Entry, \A c \in Client : ~Holds(c, e)
      PROVE  credit[e] = amounts[e]
  BY <1>3 DEF credit
<1>4. \A e \in Entry : credit[e] \in Nat /\ credit[e] <= amounts[e]
  BY <1>1, <1>2, <1>3
<1> QED
  BY <1>1, <1>2, <1>3, <1>4 DEF Filed, CreditFacts

\* What the log reports is what the passes cost, so it is on the books.
LEMMA CreditCovers ==
  ASSUME PassInv, Credited
  PROVE  CostsCovered
<1> SUFFICES ASSUME RowsOf({"released"}, Category) = {} PROVE EveryCostCovered
  BY DEF CostsCovered
<1>1. RowsOf(Counted, {Validation}) = Filed
  <2>1. ASSUME NEW e \in Filed  PROVE e \in RowsOf(Counted, {Validation})
    <3>1. entries[e] \in Row /\ entries[e] # None /\ entries[e].category = Validation
      BY DEF PassInv, BackedPasses, LedgerInv, LedgerTypeOK, Filed
    <3>2. e \notin RowsOf({"released"}, Category)
      OBVIOUS
    <3> QED
      BY <3>1, <3>2 DEF RowsOf, Counted, Row, Filed
  <2> QED
    BY <2>1 DEF RowsOf, Filed
<1>2. Credit <= SumFor(Counted, {Validation})
  <2>1. /\ IsFiniteSet(Filed) /\ Filed \subseteq Entry
        /\ \A e \in Filed : credit[e] \in Nat /\ amounts[e] \in Nat /\ credit[e] <= amounts[e]
    BY CreditOf DEF PassInv, LedgerInv, Filed, CreditFacts
  <2>2. Credit <= SumFunctionOnSet(amounts, Filed)
    BY <2>1, SumMonotonic DEF Credit
  <2> QED
    BY <1>1, <2>2 DEF SumFor
<1>3. Credit \in Nat /\ SumFor(Counted, {Validation}) \in Nat
  BY CreditOf, SumNat, RowsTyped DEF PassInv, LedgerInv, Credit, Filed, RowsAreTyped,
     CreditFacts
<1>4. EvidenceCost \in Nat
  <2>1. \A o \in Told : costs[o] \in Nat
    BY DEF PassInv, ValidationTypeOK, Told, costs, Observation
  <2> QED
    BY <2>1, SumNat DEF Credited, EvidenceCost, Told
<1> QED
  BY <1>2, <1>3, <1>4 DEF Credited, EveryCostCovered

\* What an action of c must show: the other passes keep what is theirs, and
\* the reservation c's pass has is its old one or a new row.
Stays(d) ==
  /\ pass'[d] = pass[d] /\ known'[d] = known[d]
  /\ pass[d] # None => entries'[pass[d].reservation] = entries[pass[d].reservation]

LEMMA StillBacked ==
  ASSUME PassInv, NEW d \in Client, Stays(d), pass[d] # None
  PROVE  Backed(d)'
BY DEF PassInv, BackedPasses, Stays, Backed, Reserved

LEMMA OneActs ==
  ASSUME PassInv, NEW c \in Client, \A d \in Client \ {c} : Stays(d),
         pass'[c] # None =>
           /\ Backed(c)'
           /\ \/ pass[c] # None /\ pass'[c].reservation = pass[c].reservation
              \/ entries[pass'[c].reservation] = None,
         \A e \in Filed' : entries'[e].category = Validation
  PROVE  BackedPasses'
<1>1. ASSUME NEW d \in Client, pass'[d] # None  PROVE Backed(d)'
  BY <1>1, StillBacked DEF Stays
<1>2. ASSUME NEW a \in Client, NEW b \in Client, NEW e \in Entry, Holds(a, e)', Holds(b, e)'
      PROVE  a = b
  <2>1. \A d \in Client \ {c} : Holds(d, e)' => Holds(d, e) /\ entries[e] # None
    BY DEF Stays, Holds, PassInv, BackedPasses, Backed, Reserved
  <2>2. Holds(c, e)' => Holds(c, e) \/ entries[e] = None
    BY DEF Holds
  <2> QED
    BY <1>2, <2>1, <2>2 DEF PassInv, BackedPasses, OwnReservation
<1> QED
  BY <1>1, <1>2 DEF BackedPasses, OwnReservation

\* Whatever else a pass does, what is left for it to visit has room.
LEMMA RoomLeft ==
  ASSUME ValidationTypeOK, NEW c \in Client, pass[c] # None
  PROVE  /\ pass[c] \in Pass /\ IsFiniteSet(pass[c].todo)
         /\ Cardinality(pass[c].todo) \in Nat
         /\ \A a \in pass[c].todo :
              Cardinality(pass[c].todo \ {a}) = Cardinality(pass[c].todo) - 1
<1>1. pass[c] \in Pass /\ IsFiniteSet(pass[c].todo)
  BY PassFields, FS_Subset, ValidationAssumption DEF Pass, ValidationAssumption
<1> QED
  BY <1>1, FS_CardinalityType, FS_RemoveElement

LEMMA BackedStep ==
  ASSUME UnitCosts, PassInv, [Next]_vars
  PROVE  BackedPasses'
<1> USE DEF PassInv
<1>0. /\ pass \in [Client -> Pass \cup {None}] /\ known \in [Client -> SUBSET Filed]
      /\ entries \in [Entry -> Row \cup {None}]
  BY DEF ValidationTypeOK, LedgerInv, LedgerTypeOK, Filed
<1>1. ASSUME UNCHANGED entries  PROVE \A e \in Filed' : entries'[e].category = Validation
  BY <1>1 DEF BackedPasses, Filed
<1>2. ASSUME NEW c \in Client, NEW e \in Entry, NEW n \in Nat, Commit(c, e, n) \/ Release(c, e)
      PROVE  /\ \A x \in Filed' : entries'[x].category = Validation
             /\ \A x \in Entry \ {e} : entries'[x] = entries[x]
             /\ known' = known
  <2>1. entries[e] \in Row /\ entries[e].category = Validation
    BY <1>2 DEF LedgerInv, LedgerTypeOK, Commit, Release, Closable, BackedPasses, Filed
  <2>2. /\ \A x \in Entry \ {e} : entries'[x] = entries[x]
        /\ entries'[e].category = entries[e].category
    <3>1. CASE Commit(c, e, n)
      <4> DEFINE row == [entries[e] EXCEPT !.amount = n, !.status = "committed"]
      <4>1. entries' = [entries EXCEPT ![e] = row]
        BY <3>1 DEF Commit
      <4>2. row.category = entries[e].category
        BY <2>1 DEF Row
      <4> QED
        BY <1>0, <4>1, <4>2
    <3>2. CASE Release(c, e)
      <4> DEFINE row == [entries[e] EXCEPT !.status = "released"]
      <4>1. entries' = [entries EXCEPT ![e] = row]
        BY <3>2 DEF Release
      <4>2. row.category = entries[e].category
        BY <2>1 DEF Row
      <4> QED
        BY <1>0, <4>1, <4>2
    <3> QED
      BY <1>2, <3>1, <3>2
  <2> QED
    BY <1>2, <2>1, <2>2 DEF BackedPasses, Filed, Commit, Release
<1>3. ASSUME NEW c \in Client, NEW t \in Task, NEW e \in Entry, Begin(c, t, e)
      PROVE  BackedPasses'
  <2> DEFINE row == [category |-> Validation, amount |-> Cardinality(live), status |-> "reserved"]
             p == [task |-> t, todo |-> live, reservation |-> e,
                   estimate |-> Cardinality(live), cost |-> 0, result |-> None,
                   guarded |-> FALSE]
  <2>1. /\ entries[e] = None /\ entries' = [entries EXCEPT ![e] = row]
        /\ known' = [known EXCEPT ![c] = @ \cup {e}] /\ pass' = [pass EXCEPT ![c] = p]
    BY <1>3 DEF Begin, Reserve
  <2>2. row # None
    <3>1. Cardinality(live) \in 0..TotalBudget
      <4>1. SumFor(Counted, Category) \in Nat /\ Cardinality(live) \in Nat
        BY RowsTyped, LiveCount DEF RowsAreTyped
      <4>2. SumFor(Counted, Category) + Cardinality(live) <= TotalBudget
        BY <1>3 DEF Begin, Reserve, CanReserve
      <4> QED
        BY <4>1, <4>2, LedgerAssumption
    <3>2. row \in Row
      BY <3>1, ValidationAssumption, LedgerAssumption DEF Row
    <3> QED
      BY <3>2, NoneAssumption
  <2>3. Cardinality(live) \in Nat
    BY LiveCount
  <2>4. Backed(c)' /\ pass'[c].reservation = e
    <3>1. entries'[e] = row /\ e \in known'[c] /\ pass'[c] = p
      BY <1>0, <2>1
    <3>2. 0 + Cardinality(live) <= Cardinality(live)
      BY <2>3
    <3> QED
      BY <2>2, <3>1, <3>2 DEF Backed, Reserved
  <2>5. \A x \in Filed' : entries'[x].category = Validation
    BY <1>0, <2>1 DEF Filed, BackedPasses
  <2>6. \A d \in Client \ {c} : Stays(d)
    BY <1>0, <2>1 DEF Stays, BackedPasses, Backed, Reserved
  <2> QED
    BY <2>1, <2>4, <2>5, <2>6, OneActs
<1>4. ASSUME NEW c \in Client, NEW a \in Application, Visiting(c, a), pass' = Leave(c, a),
             UNCHANGED ledgerVars
      PROVE  BackedPasses'
  <2> DEFINE p == [pass[c] EXCEPT !.todo = @ \ {a}]
  <2>1. pass[c] \in Pass /\ pass' = [pass EXCEPT ![c] = p] /\ pass[c] # None
    BY <1>4, PassFields DEF Visiting, Leave
  <2>2. /\ p.todo = pass[c].todo \ {a} /\ p.reservation = pass[c].reservation
        /\ p.estimate = pass[c].estimate /\ p.cost = pass[c].cost /\ p.result = None
    BY <1>4, <2>1 DEF Pass, Visiting
  <2>3. Cardinality(p.todo) = Cardinality(pass[c].todo) - 1 /\ Cardinality(pass[c].todo) \in Nat
    BY <1>4, <2>1, <2>2, RoomLeft DEF Visiting
  <2>4. pass'[c] = p
    BY <1>0, <2>1
  <2>5. pass[c].cost \in Nat /\ pass[c].estimate \in Nat
    BY <2>1 DEF Pass
  <2>6. Backed(c)'
    <3>1. pass[c].cost + Cardinality(p.todo) <= pass[c].estimate
      BY <2>1, <2>3, <2>5 DEF BackedPasses, Backed
    <3> HIDE DEF p
    <3> QED
      BY <1>4, <2>1, <2>2, <2>4, <3>1 DEF BackedPasses, Backed, Reserved, ledgerVars
  <2>7. \A d \in Client \ {c} : Stays(d)
    BY <1>0, <1>4, <2>1 DEF Stays, ledgerVars
  <2> QED
    BY <1>1, <1>4, <2>1, <2>2, <2>4, <2>6, <2>7, OneActs DEF ledgerVars
<1>5. ASSUME NEW c \in Client, NEW a \in Application, Evaluate(c, a)  PROVE BackedPasses'
  <2>1. pass[c] \in Pass /\ pass[c] # None /\ a \in pass[c].todo /\ UNCHANGED ledgerVars
    BY <1>5, PassFields DEF Evaluate, Visiting
  <2>2. PICK sound \in BOOLEAN, n \in Costs :
          pass' = [pass EXCEPT ![c] = [pass[c] EXCEPT !.result =
                                         [app |-> a, sound |-> sound, cost |-> n]]]
    BY <1>5 DEF Evaluate
  <2> DEFINE p == [pass[c] EXCEPT !.result = [app |-> a, sound |-> sound, cost |-> n]]
  <2>3. /\ p.todo = pass[c].todo /\ p.reservation = pass[c].reservation
        /\ p.estimate = pass[c].estimate /\ p.cost = pass[c].cost
        /\ p.result.app = a /\ p.result.cost <= 1
    BY <2>1 DEF Pass, UnitCosts
  <2>4. pass'[c] = p
    BY <1>0, <2>2
  <2>5. Backed(c)'
    <3> HIDE DEF p
    <3> QED
      BY <2>1, <2>3, <2>4 DEF BackedPasses, Backed, Reserved, ledgerVars
  <2>6. \A d \in Client \ {c} : Stays(d)
    BY <1>0, <2>1, <2>2 DEF Stays, ledgerVars
  <2> QED
    BY <1>1, <2>1, <2>3, <2>4, <2>5, <2>6, OneActs DEF ledgerVars
<1>6. ASSUME NEW c \in Client, Record(c)  PROVE BackedPasses'
  <2> DEFINE r == pass[c].result
             charge == IF r.sound THEN r.cost ELSE 0
             p == [pass[c] EXCEPT !.todo = @ \ {r.app}, !.result = None, !.cost = @ + charge]
  <2>1. pass[c] \in Pass /\ pass[c] # None /\ r # None /\ r \in Result /\ UNCHANGED ledgerVars
    BY <1>6, PassFields DEF Record, Pass
  <2>2. charge \in 0..1 /\ r.app \in pass[c].todo
    BY <2>1 DEF BackedPasses, Backed, Result
  <2>3. /\ p.todo = pass[c].todo \ {r.app} /\ p.reservation = pass[c].reservation
        /\ p.estimate = pass[c].estimate /\ p.cost = pass[c].cost + charge /\ p.result = None
    <3> HIDE DEF charge, r
    <3> QED
      BY <2>1 DEF Pass
  <2>4. Cardinality(p.todo) = Cardinality(pass[c].todo) - 1 /\ Cardinality(pass[c].todo) \in Nat
    BY <2>1, <2>2, <2>3, RoomLeft
  <2>5. pass[c].cost \in Nat /\ pass[c].estimate \in Nat
    BY <2>1 DEF Pass
  <2>6. pass' = [pass EXCEPT ![c] = p] /\ pass'[c] = p
    BY <1>0, <1>6 DEF Record
  <2>7. Backed(c)'
    <3>1. pass[c].cost + Cardinality(pass[c].todo) <= pass[c].estimate
      BY <2>1 DEF BackedPasses, Backed
    <3>2. p.cost + Cardinality(p.todo) <= p.estimate
      <4> HIDE DEF p, charge
      <4> QED
        BY <2>2, <2>3, <2>4, <2>5, <3>1
    <3> HIDE DEF p
    <3> QED
      BY <2>1, <2>3, <2>6, <3>2 DEF BackedPasses, Backed, Reserved, ledgerVars
  <2>8. \A d \in Client \ {c} : Stays(d)
    BY <1>0, <2>1, <2>6 DEF Stays, ledgerVars
  <2> QED
    BY <1>1, <2>1, <2>3, <2>6, <2>7, <2>8, OneActs DEF ledgerVars
<1>7. ASSUME NEW c \in Client, Finish(c) \/ Raise(c)  PROVE BackedPasses'
  <2>1. pass[c] \in Pass /\ pass[c] # None /\ pass' = [pass EXCEPT ![c] = None]
    BY <1>7, PassFields DEF Finish, Raise
  <2> DEFINE e == pass[c].reservation
  <2>2. e \in Entry /\ Min({pass[c].cost, pass[c].estimate}) \in Nat
    BY <2>1 DEF Pass, Min
  <2>3. Commit(c, e, Min({pass[c].cost, pass[c].estimate})) \/ Release(c, e)
    BY <1>7 DEF Finish, Raise
  <2>4. \A d \in Client \ {c} : Stays(d)
    <3> SUFFICES ASSUME NEW d \in Client \ {c} PROVE Stays(d)
      OBVIOUS
    <3>1. pass[d] # None => pass[d].reservation \in Entry /\ pass[d].reservation # e
      BY <2>1, <2>2, PassFields DEF Pass, BackedPasses, OwnReservation, Holds
    <3> QED
      BY <1>0, <1>2, <2>1, <2>2, <2>3, <3>1 DEF Stays
  <2> QED
    BY <1>0, <1>2, <2>1, <2>2, <2>3, <2>4, OneActs
<1>8. ASSUME NEW c \in Client, PrepareRaises(c) \/ FinishUntested(c) \/ Die(c)
      PROVE  BackedPasses'
  <2>1. /\ pass' = [pass EXCEPT ![c] = None] /\ UNCHANGED entries
        /\ known' \in {known, [known EXCEPT ![c] = {}]}
    BY <1>8 DEF PrepareRaises, FinishUntested, ledgerVars, Die, Close
  <2>2. \A d \in Client \ {c} : Stays(d)
    BY <1>0, <2>1 DEF Stays
  <2> QED
    BY <1>0, <1>1, <2>1, <2>2, OneActs
<1>9. ASSUME NEW c \in Client, Start(c)  PROVE BackedPasses'
  <2>1. UNCHANGED <<pass, entries, known>>
    BY <1>9 DEF Start, Open, passVars
  <2>2. \A d \in Client : Stays(d)
    BY <2>1 DEF Stays
  <2> QED
    BY <1>1, <2>1, <2>2, StillBacked, OneActs
<1>10. ASSUME NEW c \in Client, Prepare(c)  PROVE BackedPasses'
  <2>1. PICK p \in Pass :
          /\ pass' = [pass EXCEPT ![c] = p]
          /\ p.todo = pass[c].todo /\ p.reservation = pass[c].reservation
          /\ p.estimate = pass[c].estimate /\ p.cost = pass[c].cost
          /\ p.result = pass[c].result
    BY <1>10, PreparedPass
  <2>2. pass[c] # None /\ UNCHANGED ledgerVars /\ pass'[c] = p
    BY <1>0, <1>10, <2>1 DEF Prepare
  <2>3. Backed(c)'
    BY <2>1, <2>2 DEF BackedPasses, Backed, Reserved, ledgerVars
  <2>4. \A d \in Client \ {c} : Stays(d)
    BY <1>0, <2>1, <2>2 DEF Stays, ledgerVars
  <2> QED
    BY <1>1, <2>1, <2>2, <2>3, <2>4, OneActs DEF ledgerVars
<1>11. CASE UNCHANGED vars
  BY <1>11 DEF vars, BackedPasses, Backed, OwnReservation, Holds, Filed, Reserved
<1> QED
  BY <1>3, <1>4, <1>5, <1>6, <1>7, <1>8, <1>9, <1>10, <1>11
     DEF Next, Advance, Skip, Neutral, Hit

\* One observation costs the log no more than what it reports.
LEMMA ObserveCost ==
  ASSUME ValidationTypeOK, IsFiniteSet(Told), NEW a \in Application, NEW t \in Task,
         NEW n \in Nat, NEW kind \in {"fresh", "cached", "neutral"}, Observe(a, t, kind, n)
  PROVE  IsFiniteSet(Told') /\ EvidenceCost \in Nat /\ EvidenceCost' <= EvidenceCost + n
<1> DEFINE o == <<a, t>>
           row == [kind |-> kind, cost |-> n]
<1>1. \A x \in Told : costs[x] \in Nat
  BY DEF ValidationTypeOK, Told, costs, Observation
<1>2. EvidenceCost = SumFunctionOnSet(costs, Told) /\ EvidenceCost' = SumFunctionOnSet(costs', Told')
  BY DEF EvidenceCost, Told
<1>3. EvidenceCost \in Nat
  BY <1>1, <1>2, SumNat
<1>4. CASE \A x \in Application, u \in Task : observed'[x][u] = observed[x][u]
  <2>1. Told' = Told
    BY <1>4 DEF Told
  <2>2. \A x \in Told : costs'[x] = costs[x]
    BY <1>4 DEF costs, Told
  <2>3. SumFunctionOnSet(costs, Told) = SumFunctionOnSet(costs', Told)
    BY <1>1, <2>2, SumSame
  <2> HIDE DEF Told
  <2> QED
    BY <1>2, <1>3, <2>1, <2>3
<1>5. CASE observed[a][t] = None /\ row # None
  <2>1. observed' = [observed EXCEPT ![a][t] = row]
    BY <1>5 DEF Observe
  <2>2. Told' = Told \cup {o} /\ o \notin Told /\ o \in Application \X Task
    BY <1>5, <2>1 DEF Told, ValidationTypeOK
  <2>3. \A x \in Told : costs'[x] = costs[x]
    BY <1>5, <2>1 DEF costs, Told, ValidationTypeOK
  <2>4. costs'[o] = n
    BY <1>5, <2>1 DEF costs, ValidationTypeOK
  <2>5. IsFiniteSet(Told')
    BY <2>2, FS_AddElement
  <2>6. \A x \in Told' : costs'[x] \in Nat
    BY <1>1, <2>2, <2>3, <2>4
  <2>7. Told' \ {o} = Told /\ o \in Told'
    BY <2>2
  <2>8. SumFunctionOnSet(costs', Told') = n + SumFunctionOnSet(costs', Told)
    BY <2>4, <2>5, <2>6, <2>7, SumRemove
  <2>9. SumFunctionOnSet(costs, Told) = SumFunctionOnSet(costs', Told)
    BY <1>1, <2>3, SumSame
  <2> QED
    BY <1>2, <1>3, <2>5, <2>8, <2>9
<1> QED
  <2>1. CASE observed[a][t] # None
    BY <2>1, <1>4 DEF Observe
  <2>2. CASE observed[a][t] = None /\ row = None
    BY <2>2, <1>4 DEF Observe, ValidationTypeOK
  <2> QED
    BY <1>5, <2>1, <2>2

LEMMA FiledStep ==
  ASSUME LedgerInv, [LedgerMoves]_ledgerVars, NEW x \in Filed
  PROVE  x \in Filed'
<1> USE DEF LedgerInv, LedgerTypeOK
<1>1. ASSUME NEW c \in Client, NEW cat \in Category, NEW n \in Nat, NEW e \in Entry,
             Reserve(c, cat, n, e)
      PROVE  x \in Filed'
  BY <1>1 DEF Reserve, Filed
<1>2. ASSUME NEW c \in Client, NEW e \in Entry, NEW n \in Nat, Commit(c, e, n)
      PROVE  x \in Filed'
  <2>1. entries[e] \in Row /\ n \in 0..TotalBudget
    BY <1>2, LedgerAssumption DEF Commit, Closable, Row
  <2>2. [entries[e] EXCEPT !.amount = n, !.status = "committed"] \in Row
    BY <2>1 DEF Row
  <2>3. entries' = [entries EXCEPT ![e] = [entries[e] EXCEPT !.amount = n, !.status = "committed"]]
    BY <1>2 DEF Commit
  <2> QED
    BY <2>2, <2>3, NoneAssumption DEF Filed
<1>3. ASSUME NEW c \in Client, NEW e \in Entry, Release(c, e)  PROVE x \in Filed'
  <2>1. [entries[e] EXCEPT !.status = "released"] \in Row
    BY <1>3 DEF Release, Closable, Row
  <2>2. entries' = [entries EXCEPT ![e] = [entries[e] EXCEPT !.status = "released"]]
    BY <1>3 DEF Release
  <2> QED
    BY <2>1, <2>2, NoneAssumption DEF Filed
<1>4. CASE UNCHANGED entries
  BY <1>4 DEF Filed
<1> QED
  BY <1>1, <1>2, <1>3, <1>4 DEF LedgerMoves, Open, Close, ledgerVars

\* No row leaves the table, and a released one stays released.
LEMMA FiledStays ==
  ASSUME LedgerInv, [LedgerMoves]_ledgerVars
  PROVE  /\ Filed \subseteq Filed'
         /\ RowsOf({"released"}, Category)' = {} => RowsOf({"released"}, Category) = {}
<1>1. TableShape /\ LedgerInv'
  BY LedgerInvStep DEF TableShape, LedgerInv, LedgerTypeOK
<1>3. ASSUME NEW e \in RowsOf({"released"}, Category)
      PROVE  e \in RowsOf({"released"}, Category)'
  BY <1>1, RowFinalStep DEF RowFinal, RowsOf
<1> QED
  BY <1>3, FiledStep

\* Rows change hands, and none answers for less.
LEMMA CreditKept ==
  ASSUME PassInv, PassInv', [LedgerMoves]_ledgerVars,
         \A e \in Filed : credit[e] <= credit'[e]
  PROVE  Credit \in Nat /\ Credit' \in Nat /\ Credit <= Credit'
<1>1. /\ IsFiniteSet(Filed) /\ IsFiniteSet(Filed')
      /\ \A e \in Filed : credit[e] \in Nat
      /\ \A e \in Entry : credit'[e] \in Nat
  <2>1. CreditFacts /\ CreditFacts'
    BY CreditOf, PTL
  <2> QED
    BY <2>1 DEF PassInv, LedgerInv, Filed, CreditFacts
<1>2. Filed \subseteq Filed' /\ Filed' \subseteq Entry
  BY FiledStays DEF PassInv, Filed
<1>3. SumFunctionOnSet(credit, Filed) \in Nat /\ SumFunctionOnSet(credit', Filed) \in Nat
      /\ SumFunctionOnSet(credit', Filed') \in Nat
      /\ SumFunctionOnSet(credit', Filed' \ Filed) \in Nat
  <2>1. IsFiniteSet(Filed' \ Filed)
    BY <1>1, FS_Difference
  <2> QED
    BY <1>1, <1>2, <2>1, SumNat
<1>4. SumFunctionOnSet(credit, Filed) <= SumFunctionOnSet(credit', Filed)
  BY <1>1, <1>2, SumMonotonic
<1>5. SumFunctionOnSet(credit', Filed') =
        SumFunctionOnSet(credit', Filed) + SumFunctionOnSet(credit', Filed' \ Filed)
  <2>1. IsFiniteSet(Filed' \ Filed) /\ Filed \cap (Filed' \ Filed) = {}
        /\ Filed \cup (Filed' \ Filed) = Filed'
    BY <1>1, <1>2, FS_Difference
  <2>2. \A e \in Filed \cup (Filed' \ Filed) : credit'[e] \in Nat
    BY <1>1, <1>2
  <2>3. SumFunctionOnSet(credit', Filed \cup (Filed' \ Filed)) =
          SumFunctionOnSet(credit', Filed) + SumFunctionOnSet(credit', Filed' \ Filed)
    BY <1>1, <2>1, <2>2, SumUnion
  <2> QED
    BY <2>1, <2>3
<1> QED
  BY <1>3, <1>4, <1>5 DEF Credit

\* One pass moves; what it held it still answers for, or its row does.
LEMMA OneCredit ==
  ASSUME PassInv, PassInv', NEW c \in Client, \A d \in Client \ {c} : pass'[d] = pass[d],
         \A e \in Filed :
           /\ Holds(c, e)' => Holds(c, e) /\ pass[c].cost <= pass'[c].cost
           /\ Holds(c, e) /\ ~Holds(c, e)' => pass[c].cost <= amounts'[e]
           /\ (\A d \in Client : ~Holds(d, e)) => entries'[e] = entries[e]
  PROVE  \A e \in Filed : credit[e] <= credit'[e]
<1>1. CreditFacts /\ CreditFacts'
  BY CreditOf, PTL
<1> SUFFICES ASSUME NEW e \in Filed PROVE credit[e] <= credit'[e]
  OBVIOUS
<1>2. e \in Entry
  BY DEF Filed
<1>3. \A d \in Client \ {c} : Holds(d, e)' <=> Holds(d, e)
  BY DEF Holds
<1>4. \A d \in Client : Holds(d, e) /\ Holds(c, e) => d = c
  BY <1>2 DEF PassInv, BackedPasses, OwnReservation
<1>5. CASE \E d \in Client \ {c} : Holds(d, e)
  <2>1. PICK d \in Client \ {c} : Holds(d, e)
    BY <1>5
  <2>2. credit[e] = pass[d].cost /\ credit'[e] = pass'[d].cost
    BY <1>1, <1>2, <1>3, <2>1 DEF CreditFacts
  <2> QED
    BY <1>1, <1>2, <2>1, <2>2 DEF CreditFacts
<1>6. CASE Holds(c, e)
  <2>1. credit[e] = pass[c].cost
    BY <1>1, <1>2, <1>6 DEF CreditFacts
  <2>2. CASE Holds(c, e)'
    BY <1>1, <1>2, <2>1, <2>2 DEF CreditFacts
  <2>3. CASE ~Holds(c, e)'
    <3>1. \A d \in Client : ~Holds(d, e)'
      BY <1>3, <1>4, <1>6, <2>3
    <3>2. credit'[e] = amounts'[e]
      BY <1>1, <1>2, <3>1 DEF CreditFacts
    <3> QED
      BY <1>6, <2>1, <2>3, <3>2
  <2> QED
    BY <2>2, <2>3
<1>7. CASE \A d \in Client : ~Holds(d, e)
  <2>1. \A d \in Client : ~Holds(d, e)'
    BY <1>3, <1>7
  <2>2. credit[e] = amounts[e] /\ credit'[e] = amounts'[e]
    BY <1>1, <1>2, <1>7, <2>1 DEF CreditFacts
  <2>3. amounts'[e] = amounts[e] /\ amounts[e] \in Nat
    BY <1>1, <1>2, <1>7 DEF amounts, CreditFacts
  <2> QED
    BY <2>2, <2>3
<1> QED
  BY <1>5, <1>6, <1>7

\* A step that tells the log nothing, or nothing that cost, needs no more.
LEMMA NothingCharged ==
  ASSUME PassInv, PassInv', Credited, [LedgerMoves]_ledgerVars,
         IsFiniteSet(Told'), EvidenceCost \in Nat, EvidenceCost' \in Nat,
         EvidenceCost' <= EvidenceCost,
         \A e \in Filed : credit[e] <= credit'[e]
  PROVE  Credited'
<1>1. Credit \in Nat /\ Credit' \in Nat /\ Credit <= Credit'
  BY CreditKept
<1>2. RowsOf({"released"}, Category)' = {} => RowsOf({"released"}, Category) = {}
  BY FiledStays DEF PassInv
<1>3. RowsOf({"released"}, Category)' = {} => EvidenceCost' <= Credit'
  BY <1>1, <1>2 DEF Credited
<1> QED
  BY <1>3 DEF Credited

EvidenceIsTyped == IsFiniteSet(Told) => EvidenceCost \in Nat

LEMMA EvidenceTyped == ValidationTypeOK => EvidenceIsTyped
<1> SUFFICES ASSUME ValidationTypeOK, IsFiniteSet(Told) PROVE EvidenceCost \in Nat
  BY DEF EvidenceIsTyped
<1>1. \A o \in Told : costs[o] \in Nat
  BY DEF ValidationTypeOK, Told, costs, Observation
<1> QED
  BY <1>1, SumNat DEF EvidenceCost, Told

LEMMA CreditStep ==
  ASSUME PassInv, PassInv', Credited, [Next]_vars
  PROVE  Credited'
<1>0. /\ pass \in [Client -> Pass \cup {None}] /\ entries \in [Entry -> Row \cup {None}]
      /\ [LedgerMoves]_ledgerVars
      /\ EvidenceCost \in Nat /\ (IsFiniteSet(Told') => EvidenceCost' \in Nat)
  <2>1. EvidenceIsTyped /\ EvidenceIsTyped'
    BY EvidenceTyped, PTL DEF PassInv
  <2> QED
    BY <2>1, PassMoves DEF PassInv, ValidationTypeOK, LedgerInv, LedgerTypeOK, EvidenceIsTyped,
       Credited
<1>1. ASSUME UNCHANGED observed
      PROVE  IsFiniteSet(Told') /\ EvidenceCost' = EvidenceCost
  BY <1>1 DEF Told, EvidenceCost, costs, Credited
<1>2. ASSUME NEW c \in Client, NEW t \in Task, NEW e \in Entry, Begin(c, t, e)
      PROVE  Credited'
  <2>1. /\ entries[e] = None /\ UNCHANGED observed /\ pass[c] = None
        /\ \A x \in Entry \ {e} : entries'[x] = entries[x]
        /\ \A d \in Client \ {c} : pass'[d] = pass[d]
        /\ pass'[c].reservation = e
    BY <1>0, <1>2 DEF Begin, Reserve
  <2>2. \A x \in Filed : x \in Entry \ {e}
    BY <2>1 DEF Filed
  <2>3. \A x \in Filed : credit[x] <= credit'[x]
    BY <2>1, <2>2, OneCredit DEF Holds
  <2> QED
    BY <1>0, <1>1, <2>1, <2>3, NothingCharged
<1>3. ASSUME NEW c \in Client, NEW p \in Pass, pass[c] # None,
             pass' = [pass EXCEPT ![c] = p], p.reservation = pass[c].reservation,
             p.cost = pass[c].cost, UNCHANGED entries
      PROVE  \A e \in Filed : credit[e] <= credit'[e]
  <2>1. pass'[c] = p /\ \A d \in Client \ {c} : pass'[d] = pass[d]
    BY <1>0, <1>3
  <2>2. pass[c].cost <= pass'[c].cost /\ \A e \in Filed : Holds(c, e)' <=> Holds(c, e)
    <3>1. pass[c].cost \in Nat
      BY <1>3, PassFields DEF PassInv, Pass
    <3> QED
      BY <1>3, <2>1, <3>1, PassAssumption DEF Holds
  <2> QED
    BY <1>3, <2>1, <2>2, OneCredit
<1>4. ASSUME NEW c \in Client, NEW a \in Application, Visiting(c, a), pass' = Leave(c, a),
             UNCHANGED entries
      PROVE  /\ \A e \in Filed : credit[e] <= credit'[e]
             /\ pass[c].task \in Task
  <2> DEFINE p == [pass[c] EXCEPT !.todo = @ \ {a}]
  <2>1. pass[c] \in Pass /\ pass' = [pass EXCEPT ![c] = p] /\ pass[c] # None
    BY <1>4, PassFields DEF PassInv, Visiting, Leave
  <2>2. p \in Pass /\ p.reservation = pass[c].reservation /\ p.cost = pass[c].cost
    BY <2>1 DEF Pass
  <2>3. pass[c].task \in Task
    BY <2>1 DEF Pass
  <2> HIDE DEF p
  <2> QED
    BY <1>3, <1>4, <2>1, <2>2, <2>3
<1>5. ASSUME NEW c \in Client, NEW a \in Application, Skip(c, a)  PROVE Credited'
  <2>1. UNCHANGED observed /\ \A e \in Filed : credit[e] <= credit'[e]
    BY <1>4, <1>5 DEF Skip, ledgerVars
  <2> QED
    BY <1>0, <1>1, <2>1, NothingCharged
<1>6. ASSUME NEW c \in Client, NEW a \in Application, Neutral(c, a) \/ Hit(c, a)
      PROVE  Credited'
  <2>1. /\ pass[c].task \in Task /\ \A e \in Filed : credit[e] <= credit'[e]
        /\ \E kind \in {"fresh", "cached", "neutral"} : Observe(a, pass[c].task, kind, 0)
    BY <1>4, <1>6 DEF Neutral, Hit, ledgerVars
  <2>2. IsFiniteSet(Told') /\ EvidenceCost' <= EvidenceCost + 0
    BY <2>1, ObserveCost DEF PassInv, Credited
  <2> QED
    BY <1>0, <2>1, <2>2, NothingCharged
<1>7. ASSUME NEW c \in Client, NEW a \in Application, Evaluate(c, a)  PROVE Credited'
  <2>1. pass[c] \in Pass /\ pass[c] # None /\ UNCHANGED <<entries, observed>>
    BY <1>7, PassFields DEF PassInv, Evaluate, Visiting, ledgerVars
  <2>2. PICK sound \in BOOLEAN, n \in Costs :
          pass' = [pass EXCEPT ![c] = [pass[c] EXCEPT !.result =
                                         [app |-> a, sound |-> sound, cost |-> n]]]
    BY <1>7 DEF Evaluate
  <2> DEFINE r == [app |-> a, sound |-> sound, cost |-> n]
             p == [pass[c] EXCEPT !.result = r]
  <2>3. r \in Result
    BY ValidationAssumption DEF Result, ValidationAssumption
  <2>4. p \in Pass /\ p.reservation = pass[c].reservation /\ p.cost = pass[c].cost
    <3> HIDE DEF r
    <3> QED
      BY <2>1, <2>3 DEF Pass
  <2>5. pass' = [pass EXCEPT ![c] = p]
    BY <2>2
  <2> HIDE DEF p
  <2>6. \A e \in Filed : credit[e] <= credit'[e]
    BY <1>3, <2>1, <2>4, <2>5
  <2> QED
    BY <1>0, <1>1, <2>1, <2>6, NothingCharged
<1>8. ASSUME NEW c \in Client, Record(c)  PROVE Credited'
  <2> DEFINE r == pass[c].result
             e == pass[c].reservation
             charge == IF r.sound THEN r.cost ELSE 0
             p == [pass[c] EXCEPT !.todo = @ \ {r.app}, !.result = None, !.cost = @ + charge]
  <2>1. pass[c] \in Pass /\ pass[c] # None /\ r \in Result /\ UNCHANGED ledgerVars
    BY <1>8, PassFields DEF PassInv, Record, Pass
  <2>2. charge \in Nat /\ r.app \in Application /\ pass[c].task \in Task /\ e \in Entry
    BY <2>1 DEF Result, Pass
  <2>3. IsFiniteSet(Told') /\ EvidenceCost' <= EvidenceCost + charge
    <3>1. Observe(r.app, pass[c].task, IF r.sound THEN "fresh" ELSE "neutral", charge)
      BY <1>8 DEF Record
    <3> HIDE DEF charge, r
    <3> QED
      BY <2>2, <3>1, ObserveCost DEF PassInv, Credited
  <2>4. p.reservation = e /\ p.cost = pass[c].cost + charge
    <3> HIDE DEF charge, r
    <3> QED
      BY <2>1 DEF Pass
  <2>5. pass' = [pass EXCEPT ![c] = p] /\ pass'[c] = p /\ \A d \in Client \ {c} : pass'[d] = pass[d]
    BY <1>0, <1>8 DEF Record
  <2>6. pass'[c] # None
    <3>1. p \in Pass
      <4>1. pass[c].cost + charge \in Nat /\ pass[c].todo \ {r.app} \in SUBSET Application
        BY <2>1, <2>2 DEF Pass
      <4> HIDE DEF charge, r
      <4> QED
        BY <2>1, <4>1 DEF Pass
    <3> QED
      BY <2>5, <3>1, PassAssumption
  <2>7. CreditFacts /\ CreditFacts'
    BY CreditOf, PTL
  <2> HIDE DEF p, charge, r
  <2>8. e \in Filed /\ Filed' = Filed
    BY <2>1, <2>2 DEF PassInv, BackedPasses, Backed, Reserved, Filed, ledgerVars
  <2>9. Holds(c, e) /\ Holds(c, e)'
    BY <2>1, <2>4, <2>5, <2>6 DEF Holds
  <2>10. credit'[e] = credit[e] + charge
    BY <2>2, <2>4, <2>5, <2>7, <2>9 DEF CreditFacts
  <2>11. \A x \in Filed : x # e => credit'[x] = credit[x]
    <3> SUFFICES ASSUME NEW x \in Filed, x # e PROVE credit'[x] = credit[x]
      OBVIOUS
    <3>1. x \in Entry /\ amounts'[x] = amounts[x]
      BY <2>1 DEF Filed, amounts, ledgerVars
    <3>2. \A d \in Client : Holds(d, x)' <=> Holds(d, x)
      BY <2>4, <2>5 DEF Holds
    <3>3. \A d \in Client : Holds(d, x) => d # c
      BY DEF Holds
    <3>4. CASE \E d \in Client : Holds(d, x)
      BY <2>5, <2>7, <3>1, <3>2, <3>3, <3>4 DEF CreditFacts
    <3>5. CASE \A d \in Client : ~Holds(d, x)
      BY <2>7, <3>1, <3>2, <3>5 DEF CreditFacts
    <3> QED
      BY <3>4, <3>5
  <2>12. Credit \in Nat /\ Credit' \in Nat /\ Credit' = Credit + charge
    <3>1. IsFiniteSet(Filed) /\ \A x \in Filed : credit[x] \in Nat /\ credit'[x] \in Nat
      BY <2>7 DEF CreditFacts, PassInv, LedgerInv, Filed
    <3>2. \A x \in Filed : credit[x] \in Nat /\ credit'[x] \in Nat
                           /\ (x # e => credit'[x] = credit[x])
      BY <2>11, <3>1
    <3>3. SumFunctionOnSet(credit, Filed) + credit'[e] = SumFunctionOnSet(credit', Filed) + credit[e]
      BY <2>8, <3>1, <3>2, SumChange
    <3>4. SumFunctionOnSet(credit, Filed) \in Nat /\ SumFunctionOnSet(credit', Filed) \in Nat
      BY <3>1, SumNat
    <3>5. credit[e] \in Nat
      BY <2>8, <3>1
    <3> QED
      BY <2>2, <2>8, <2>10, <3>3, <3>4, <3>5 DEF Credit
  <2>13. RowsOf({"released"}, Category)' = RowsOf({"released"}, Category)
    BY <2>1 DEF RowsOf, ledgerVars
  <2>14. RowsOf({"released"}, Category)' = {} => EvidenceCost' <= Credit'
    BY <1>0, <2>2, <2>3, <2>12, <2>13 DEF Credited
  <2> QED
    BY <2>3, <2>14 DEF Credited
<1>9. ASSUME NEW c \in Client, Finish(c)  PROVE Credited'
  <2> DEFINE e == pass[c].reservation
             n == Min({pass[c].cost, pass[c].estimate})
             row == [entries[e] EXCEPT !.amount = n, !.status = "committed"]
  <2>1. /\ pass[c] \in Pass /\ pass[c] # None /\ Backed(c) /\ UNCHANGED observed
        /\ pass' = [pass EXCEPT ![c] = None]
    BY <1>9, PassFields DEF PassInv, Finish, BackedPasses
  <2>2. n = pass[c].cost /\ n \in Nat
    <3>1. pass[c].cost <= pass[c].estimate /\ pass[c].cost \in Nat /\ pass[c].estimate \in Nat
      BY <2>1, RoomLeft DEF PassInv, Backed, Pass
    <3> QED
      BY <3>1 DEF Min
  <2>3. entries' = [entries EXCEPT ![e] = row] /\ e \in Entry /\ entries[e] \in Row
        /\ n \in 0..TotalBudget
    <3>1. entries' = [entries EXCEPT ![e] = row] /\ n <= entries[e].amount
      BY <1>9 DEF Finish, Commit
    <3>2. e \in Entry /\ entries[e] \in Row
      BY <1>0, <2>1 DEF Backed, Reserved, Pass
    <3> QED
      BY <2>2, <3>1, <3>2, LedgerAssumption DEF Row
  <2>4. row # None /\ row.amount = n
    <3>1. row \in Row
      BY <2>3 DEF Row
    <3> HIDE DEF n
    <3>2. row.amount = n
      BY <2>3 DEF Row
    <3> QED
      BY <3>1, <3>2, NoneAssumption
  <2> HIDE DEF n, row
  <2>5. amounts'[e] = n
    BY <1>0, <2>3, <2>4 DEF amounts
  <2>6. \A x \in Entry \ {e} : entries'[x] = entries[x]
    BY <1>0, <2>3
  <2>7. pass'[c] = None /\ \A d \in Client \ {c} : pass'[d] = pass[d]
    BY <1>0, <2>1
  <2>8. \A x \in Filed : credit[x] <= credit'[x]
    <3>1. \A x \in Filed : ~Holds(c, x)'
      BY <2>7 DEF Holds
    <3>2. \A x \in Filed : Holds(c, x) => pass[c].cost <= amounts'[x]
      BY <2>2, <2>5 DEF Holds
    <3>3. \A x \in Filed : (\A d \in Client : ~Holds(d, x)) => entries'[x] = entries[x]
      BY <2>1, <2>6 DEF Holds, Filed
    <3> QED
      BY <2>7, <3>1, <3>2, <3>3, OneCredit
  <2> QED
    BY <1>0, <1>1, <2>1, <2>8, NothingCharged
<1>10. ASSUME NEW c \in Client, PrepareRaises(c) \/ FinishUntested(c) \/ Die(c)
       PROVE  Credited'
  <2>1. UNCHANGED <<entries, observed>> /\ pass' = [pass EXCEPT ![c] = None]
    BY <1>10 DEF PrepareRaises, FinishUntested, Die, Close, ledgerVars
  <2>2. pass'[c] = None /\ \A d \in Client \ {c} : pass'[d] = pass[d]
    BY <1>0, <2>1
  <2>3. CreditFacts
    BY CreditOf
  <2>4. \A x \in Filed : Holds(c, x) => pass[c].cost <= amounts'[x]
    BY <2>1, <2>3 DEF Filed, CreditFacts, amounts
  <2>5. \A x \in Filed : credit[x] <= credit'[x]
    <3>1. \A x \in Filed : ~Holds(c, x)'
      BY <2>2 DEF Holds
    <3> QED
      BY <2>1, <2>2, <2>4, <3>1, OneCredit
  <2> QED
    BY <1>0, <1>1, <2>1, <2>5, NothingCharged
<1>11. ASSUME NEW c \in Client, Raise(c)  PROVE Credited'
  <2> DEFINE e == pass[c].reservation
             row == [entries[e] EXCEPT !.status = "released"]
  <2>1. pass[c] \in Pass /\ pass[c] # None /\ Backed(c) /\ UNCHANGED observed
    BY <1>11, PassFields DEF PassInv, Raise, BackedPasses
  <2>2. entries' = [entries EXCEPT ![e] = row] /\ e \in Entry /\ entries[e] \in Row
    BY <1>0, <1>11, <2>1 DEF Raise, Release, Backed, Reserved, Pass
  <2>3. row \in Row /\ row.status = "released" /\ row # None
    BY <2>2, NoneAssumption DEF Row
  <2>4. entries'[e] = row
    BY <1>0, <2>2
  <2>5. e \in RowsOf({"released"}, Category)'
    <3> HIDE DEF row
    <3> QED
      BY <2>2, <2>3, <2>4 DEF RowsOf, Row
  <2> QED
    BY <1>1, <2>1, <2>5 DEF Credited
<1>12. ASSUME UNCHANGED <<entries, observed, pass>>  PROVE Credited'
  <2>1. CreditFacts /\ \A e \in Filed : credit'[e] = credit[e]
    BY <1>12, CreditOf DEF credit, amounts, Holds
  <2>2. \A e \in Filed : credit[e] <= credit'[e]
    BY <2>1 DEF CreditFacts, Filed
  <2> QED
    BY <1>0, <1>1, <1>12, <2>2, NothingCharged
<1>13. ASSUME NEW c \in Client, Start(c)  PROVE UNCHANGED <<entries, observed, pass>>
  BY <1>13 DEF Start, Open, passVars
<1>14. ASSUME NEW c \in Client, Prepare(c)  PROVE Credited'
  <2>1. PICK p \in Pass :
          /\ pass' = [pass EXCEPT ![c] = p]
          /\ p.reservation = pass[c].reservation /\ p.cost = pass[c].cost
    BY <1>14, PreparedPass DEF PassInv
  <2>2. pass[c] # None /\ UNCHANGED <<entries, observed>>
    BY <1>14 DEF Prepare, ledgerVars
  <2>3. \A e \in Filed : credit[e] <= credit'[e]
    BY <1>3, <2>1, <2>2
  <2> QED
    BY <1>0, <1>1, <2>2, <2>3, NothingCharged
<1>15. CASE UNCHANGED vars
  BY <1>12, <1>15 DEF vars
<1> QED
  BY <1>2, <1>5, <1>6, <1>7, <1>8, <1>9, <1>10, <1>11, <1>12, <1>13, <1>14, <1>15 DEF Next, Advance

\* However many passes there are, and however many of them die, the ledger
\* accounts for every cost the evidence log reports, as long as no pair costs
\* more than it was reserved for and no pass fails and is released
\* (budget.py:3-6, adapter.py:377).
THEOREM CostsAreCovered ==
  ASSUME UnitCosts
  PROVE  Spec => []CostsCovered
<1>1. Init => PassInv /\ Credited
  <2> SUFFICES ASSUME Init PROVE PassInv /\ Credited
    OBVIOUS
  <2>1. PassInv
    BY LedgerStart
       DEF Init, PassInv, ValidationTypeOK, BackedPasses, OwnReservation, Holds, Filed, LedgerInit
  <2>2. Told = {}
    BY DEF Init, Told
  <2>3. EvidenceCost = 0 /\ IsFiniteSet(Told)
    BY <2>2, SumEmpty, FS_EmptySet DEF EvidenceCost, Told
  <2>4. Filed = {}
    BY DEF Init, LedgerInit, Filed
  <2>5. Credit = 0
    BY <2>4, SumEmpty DEF Credit
  <2> QED
    BY <2>1, <2>3, <2>5 DEF Credited
<1>2. PassInv /\ [Next]_vars => PassInv'
  <2> SUFFICES ASSUME PassInv, [Next]_vars PROVE PassInv'
    OBVIOUS
  <2>1. ValidationTypeOK' /\ LedgerInv'
    BY TypeStep, ValidationAssumption, PassMoves, LedgerInvStep DEF PassInv
  <2> QED
    BY <2>1, BackedStep DEF PassInv
<1>3. PassInv /\ PassInv' /\ Credited /\ [Next]_vars => Credited'
  BY CreditStep
<1>4. PassInv /\ Credited => CostsCovered
  BY CreditCovers
<1> QED
  BY <1>1, <1>2, <1>3, <1>4, PTL DEF Spec
=============================================================================
