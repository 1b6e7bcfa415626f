----------------------------- MODULE FoldProofs -----------------------------
(***************************************************************************)
(* What holds of any fold over a sequence, and of any function defined by  *)
(* recursion on numbers.  The theorems of the library about them take      *)
(* operators as parameters, so they are stated here of functions, and each *)
(* use shows that its recursion is the one of such a function.             *)
(***************************************************************************)
EXTENDS Integers, SequencesExt, FunctionTheorems, FiniteSetTheorems, WellFoundedInduction, TLAPS

-----------------------------------------------------------------------------
(* Folds. *)

(* What holds at 0 and goes from one number to the next holds up to n. *)
LEMMA Upwards ==
  ASSUME NEW n \in Nat, NEW G, 0 \in G, \A k \in 1 .. n : k - 1 \in G => k \in G
  PROVE  \A k \in 0 .. n : k \in G
<1> DEFINE R == { p \in Nat \X Nat : p[1] < p[2] }
           Missing == { k \in 0 .. n : k \notin G }
<1>1. IsWellFoundedOn(R, Nat)
  BY NatLessThanWellFounded DEF OpToRel
<1>2. \A x, y \in Nat : << x, y >> \in R <=> x < y
  OBVIOUS
<1>3. Missing \subseteq Nat
  OBVIOUS
<1> HIDE DEF R
<1>4. ASSUME Missing # {}  PROVE FALSE
  <2>1. PICK e \in Missing : \A other \in Missing : ~(<< other, e >> \in R)
    BY <1>1, <1>3, <1>4, WFMin
  <2>2. e \in 1 .. n /\ e \notin G /\ e - 1 \in 0 .. n
    OBVIOUS
  <2>3. e \in Nat /\ e - 1 \in Nat /\ e - 1 < e
    BY <2>2
  <2>4. e - 1 \notin Missing
    BY <1>2, <2>1, <2>3
  <2> QED
    BY <2>2, <2>4
<1> QED
  BY <1>4

(* A set of numbers with a number in it has a least one. *)
LEMMA LeastNumber ==
  ASSUME NEW s \in SUBSET Nat, s # {}
  PROVE  \E e \in s : \A other \in s : e <= other
<1> DEFINE R == { p \in Nat \X Nat : p[1] < p[2] }
<1>1. IsWellFoundedOn(R, Nat)
  BY NatLessThanWellFounded DEF OpToRel
<1>2. \A x, y \in Nat : << x, y >> \in R <=> x < y
  OBVIOUS
<1> HIDE DEF R
<1>3. PICK e \in s : \A other \in s : ~(<< other, e >> \in R)
  BY <1>1, WFMin
<1>4. \A other \in s : ~(other < e)
  BY <1>2, <1>3
<1> QED
  BY <1>4

(* The largest of the first k + 1 numbers that are in a set. *)
LEMMA LastOfSome ==
  ASSUME NEW k \in Nat, NEW s \in SUBSET (1 .. (k + 1)), k + 1 \in s
  PROVE  Max(s) = k + 1 /\ s \ {k + 1} \in SUBSET (1 .. k)
<1>1. \A y \in s : k + 1 >= y
  OBVIOUS
<1>2. \A x \in s : (\A y \in s : x >= y) => x = k + 1
  OBVIOUS
<1>3. Max(s) = k + 1
  BY <1>1, <1>2 DEF Max
<1> QED
  BY <1>3

\* Gathering from the numbers 1 to n into S, one step for each.
Folds(S, n, base, F) == n \in Nat /\ base \in S /\ F \in [1 .. n -> [S -> S]]
IsFold(g, S, n, base, F) ==
    /\ g \in [SUBSET (1 .. n) -> S]
    /\ \A s \in SUBSET (1 .. n) :
          /\ s = {} => g[s] = base
          /\ s # {} => Max(s) \in 1 .. n /\ g[s] = F[Max(s)][g[s \ {Max(s)}]]
\* The same of a function whose values are not known to be in S.
Recurs(h, S, n, base, F) ==
    \A s \in SUBSET (1 .. n) :
       /\ s = {} => h[s] = base
       /\ (s # {} /\ Max(s) \in 1 .. n /\ h[s \ {Max(s)}] \in S)
             => h[s] = F[Max(s)][h[s \ {Max(s)}]]
Gathers(run, S, n, base, F) ==
    run \in [0 .. n -> S] /\ run[0] = base /\ \A k \in 1 .. n : run[k] = F[k][run[k - 1]]

(* A fold over the first n numbers is defined, whatever it gathers: there is the *)
(* function that its recursion names.                                            *)
LEMMA FoldExists ==
  ASSUME NEW S, NEW n, NEW base, NEW F, Folds(S, n, base, F)
  PROVE  \E g : IsFold(g, S, n, base, F)
<1> USE DEF Folds
<1> DEFINE Defined(k, g) ==
              \A s \in SUBSET (1 .. k) :
                 /\ s = {} => g[s] = base
                 /\ s # {} => Max(s) \in 1 .. k /\ g[s] = F[Max(s)][g[s \ {Max(s)}]]
           G == { k \in 0 .. n : \E g \in [SUBSET (1 .. k) -> S] : Defined(k, g) }
<1>1. 0 \in G
  <2> DEFINE g == [s \in SUBSET (1 .. 0) |-> base]
  <2>1. g \in [SUBSET (1 .. 0) -> S]
    OBVIOUS
  <2>2. \A s \in SUBSET (1 .. 0) : s = {} /\ g[s] = base
    OBVIOUS
  <2> HIDE DEF g
  <2>3. Defined(0, g)
    BY <2>2
  <2> QED
    BY <2>1, <2>3
<1>2. ASSUME NEW m \in 1 .. n, m - 1 \in G  PROVE m \in G
  <2> DEFINE k == m - 1
  <2>1. k \in 0 .. n /\ k \in Nat /\ m = k + 1
    OBVIOUS
  <2>2. PICK g \in [SUBSET (1 .. k) -> S] : Defined(k, g)
    BY <1>2
  <2> HIDE DEF k
  <2> DEFINE below(s) == s \ {m}
             h == [s \in SUBSET (1 .. m) |-> IF m \in s THEN F[m][g[below(s)]] ELSE g[s]]
  <2>3. \A s \in SUBSET (1 .. m) : below(s) \in SUBSET (1 .. k) /\ (m \notin s => s \in SUBSET (1 .. k))
    BY <2>1
  <2>4. h \in [SUBSET (1 .. m) -> S]
    <3>1. F[m] \in [S -> S]
      OBVIOUS
    <3>2. \A s \in SUBSET (1 .. k) : g[s] \in S /\ F[m][g[s]] \in S
      BY <3>1
    <3> QED
      BY <2>3, <3>2
  <2>5. \A s \in SUBSET (1 .. k) : s \in SUBSET (1 .. m) /\ m \notin s /\ h[s] = g[s]
    BY <2>1
  <2>6. ASSUME NEW s \in SUBSET (1 .. m)
        PROVE  /\ s = {} => h[s] = base
               /\ s # {} => Max(s) \in 1 .. m /\ h[s] = F[Max(s)][h[s \ {Max(s)}]]
    <3>1. CASE m \in s
      <4>1. Max(s) = m /\ s \ {m} \in SUBSET (1 .. k)
        BY <2>1, <3>1, LastOfSome
      <4>2. h[s] = F[m][g[s \ {m}]]
        BY <3>1
      <4>3. h[s \ {m}] = g[s \ {m}]
        BY <2>5, <4>1
      <4> QED
        BY <3>1, <4>1, <4>2, <4>3
    <3>2. CASE m \notin s
      <4>1. s \in SUBSET (1 .. k) /\ h[s] = g[s]
        BY <2>3, <2>5, <3>2
      <4>2. /\ s = {} => g[s] = base
            /\ s # {} => Max(s) \in 1 .. k /\ g[s] = F[Max(s)][g[s \ {Max(s)}]]
        BY <2>2, <4>1
      <4>3. s \ {Max(s)} \in SUBSET (1 .. k)
        BY <4>1
      <4>4. h[s \ {Max(s)}] = g[s \ {Max(s)}]
        BY <2>5, <4>3
      <4>5. 1 .. k \subseteq 1 .. m
        BY <2>1
      <4> QED
        BY <4>1, <4>2, <4>4, <4>5
    <3> QED
      BY <3>1, <3>2
  <2> HIDE DEF h
  <2>7. Defined(m, h)
    BY <2>6
  <2> HIDE DEF Defined
  <2>8. m \in 0 .. n /\ \E f \in [SUBSET (1 .. m) -> S] : Defined(m, f)
    BY <2>4, <2>7
  <2> QED
    BY <2>8
<1> HIDE DEF G
<1>3. \A k \in 1 .. n : k - 1 \in G => k \in G
  BY <1>2
<1>4. \A k \in 0 .. n : k \in G
  BY <1>1, <1>3, Upwards
<1>5. n \in G
  BY <1>4
<1>6. PICK g \in [SUBSET (1 .. n) -> S] : Defined(n, g)
  BY <1>5 DEF G
<1>7. IsFold(g, S, n, base, F)
  BY <1>6 DEF IsFold
<1> QED
  BY <1>7

(* What a fold gathers from the first k numbers follows from what it gathered *)
(* from those before.                                                         *)
LEMMA FoldSteps ==
  ASSUME NEW S, NEW n, NEW base, NEW F, Folds(S, n, base, F), NEW h, Recurs(h, S, n, base, F)
  PROVE  \E run : Gathers(run, S, n, base, F) /\ run[n] = h[1 .. n]
<1> USE DEF Folds, Recurs
<1> DEFINE upto(k) == 1 .. k
           G == { k \in 0 .. n : h[upto(k)] \in S }
<1>1. upto(0) = {} /\ \A k \in 0 .. n : upto(k) \in SUBSET (1 .. n)
  OBVIOUS
<1>2. h[upto(0)] = base
  BY <1>1
<1>3. ASSUME NEW k \in 1 .. n
      PROVE  /\ upto(k) \in SUBSET (1 .. n) /\ upto(k) # {}
             /\ Max(upto(k)) = k /\ upto(k) \ {k} = upto(k - 1)
  <2> DEFINE j == k - 1
  <2>1. j \in Nat /\ k = j + 1 /\ k \in upto(k)
    OBVIOUS
  <2>2. upto(k) \in SUBSET (1 .. (j + 1)) /\ j + 1 \in upto(k)
    BY <2>1
  <2>3. Max(upto(k)) = j + 1
    BY <2>1, <2>2, LastOfSome
  <2>4. upto(k) \ {k} = upto(k - 1)
    OBVIOUS
  <2> QED
    BY <1>1, <2>1, <2>3, <2>4
<1> HIDE DEF upto
<1>4. \A k \in 1 .. n : h[upto(k - 1)] \in S => h[upto(k)] = F[k][h[upto(k - 1)]] /\ h[upto(k)] \in S
  <2> TAKE k \in 1 .. n
  <2> HAVE h[upto(k - 1)] \in S
  <2>1. h[upto(k)] = F[k][h[upto(k - 1)]]
    BY <1>3
  <2>2. F[k] \in [S -> S]
    OBVIOUS
  <2> QED
    BY <2>1, <2>2
<1>5. 0 \in G
  BY <1>2
<1>6. \A k \in 1 .. n : k - 1 \in G => k \in G
  BY <1>4
<1> HIDE DEF G
<1>7. \A k \in 0 .. n : k \in G
  BY <1>5, <1>6, Upwards
<1>8. \A k \in 0 .. n : h[upto(k)] \in S
  BY <1>7 DEF G
<1> DEFINE run == [k \in 0 .. n |-> h[upto(k)]]
<1>9. run \in [0 .. n -> S] /\ run[0] = base /\ run[n] = h[upto(n)]
  BY <1>2, <1>8
<1>10. \A k \in 1 .. n : k \in 0 .. n /\ k - 1 \in 0 .. n
  OBVIOUS
<1>11. \A k \in 1 .. n : run[k] = F[k][run[k - 1]]
  BY <1>4, <1>8, <1>10
<1> HIDE DEF run
<1> QED
  BY <1>9, <1>11 DEF upto, Gathers

(* Two ways of gathering that agree up to a number gather the same up to it. *)
LEMMA SameSoFar ==
  ASSUME NEW S, NEW n \in Nat, NEW m \in Nat, n <= m, NEW base, NEW F, NEW E, NEW run, NEW other,
         Gathers(run, S, n, base, F), Gathers(other, S, m, base, E),
         \A k \in 1 .. n : F[k] = E[k]
  PROVE  \A k \in 0 .. n : run[k] = other[k]
<1> DEFINE G == { k \in 0 .. n : run[k] = other[k] }
<1>1. 0 \in G
  BY DEF Gathers
<1>2. \A k \in 1 .. n : k - 1 \in G => k \in G
  BY DEF Gathers
<1> HIDE DEF G
<1>3. \A k \in 0 .. n : k \in G
  BY <1>1, <1>2, Upwards
<1> QED
  BY <1>3 DEF G

(* Whatever is gathered, there is a way to gather it. *)
LEMMA GathersExists ==
  ASSUME NEW S, NEW n, NEW base, NEW F, Folds(S, n, base, F)
  PROVE  \E run : Gathers(run, S, n, base, F)
<1> USE DEF Folds
<1> DEFINE Defined(k, g) == g[0] = base /\ \A i \in 1 .. k : g[i] = F[i][g[i - 1]]
           G == { k \in 0 .. n : \E g \in [0 .. k -> S] : Defined(k, g) }
<1>1. 0 \in G
  <2> DEFINE g == [i \in 0 .. 0 |-> base]
  <2>1. g \in [0 .. 0 -> S] /\ g[0] = base
    OBVIOUS
  <2> HIDE DEF g
  <2> QED
    BY <2>1
<1>2. ASSUME NEW k \in 1 .. n, k - 1 \in G  PROVE k \in G
  <2>1. PICK g \in [0 .. (k - 1) -> S] : Defined(k - 1, g)
    BY <1>2
  <2> DEFINE h == [i \in 0 .. k |-> IF i = k THEN F[k][g[k - 1]] ELSE g[i]]
  <2>2. g[k - 1] \in S /\ F[k] \in [S -> S] /\ k \in 0 .. n
    OBVIOUS
  <2>3. h \in [0 .. k -> S]
    BY <2>2
  <2>4. h[0] = g[0] /\ h[k] = F[k][g[k - 1]] /\ \A i \in 0 .. (k - 1) : h[i] = g[i]
    OBVIOUS
  <2> HIDE DEF h
  <2>5. Defined(k, h)
    BY <2>1, <2>4
  <2> QED
    BY <2>2, <2>3, <2>5
<1> HIDE DEF G
<1>3. \A k \in 0 .. n : k \in G
  BY <1>1, <1>2, Upwards
<1>4. n \in G
  BY <1>3
<1> QED
  BY <1>4 DEF G, Gathers

\* A recursion on numbers from b on goes to a smaller one; below b it ends.
Descends(S, b, Bottom, Step, Down) ==
    /\ b \in Nat /\ Bottom \in [0 .. (b - 1) -> S]
    /\ Step \in [Nat -> [S -> S]]
    /\ Down \in [Nat -> Nat] /\ \A n \in Nat : n >= b => Down[n] < n
Descent(d, n, b, Bottom, Step, Down) ==
    d[n] = IF n < b THEN Bottom[n] ELSE Step[n][d[Down[n]]]

(* Such a recursion defines a function of all numbers. *)
LEMMA DescentExists ==
  ASSUME NEW S, NEW b, NEW Bottom, NEW Step, NEW Down, Descends(S, b, Bottom, Step, Down)
  PROVE  \E d \in [Nat -> S] : \A n \in Nat : Descent(d, n, b, Bottom, Step, Down)
<1>0. /\ b \in Nat /\ Bottom \in [0 .. (b - 1) -> S]
      /\ \A n \in Nat : Step[n] \in [S -> S]
      /\ \A n \in Nat : Down[n] \in Nat /\ (n >= b => Down[n] < n)
  BY DEF Descends
<1> DEFINE Upto(n, g) == g \in [0 .. n -> S] /\ \A m \in 0 .. n : Descent(g, m, b, Bottom, Step, Down)
<1>1. ASSUME NEW n \in Nat  PROVE \E g : Upto(n, g)
  <2> DEFINE G == { k \in 0 .. n : \E g : Upto(k, g) }
  <2>1. ASSUME NEW k \in 0 .. n, NEW f \in [0 .. (k - 1) -> S],
               \A m \in 0 .. (k - 1) : Descent(f, m, b, Bottom, Step, Down)
        PROVE  \E g : Upto(k, g)
    <3>1. k < b => Bottom[k] \in S
      BY <1>0
    <3>2. k >= b => Down[k] \in 0 .. (k - 1) /\ Step[k] \in [S -> S]
      BY <1>0
    <3>3. k >= b => Step[k][f[Down[k]]] \in S
      BY <3>2
    <3> DEFINE top == IF k < b THEN Bottom[k] ELSE Step[k][f[Down[k]]]
    <3>10. top \in S
      BY <1>0, <3>1, <3>3
    <3> HIDE DEF top
    <3> DEFINE g == [m \in 0 .. k |-> IF m < k THEN f[m] ELSE top]
    <3>4. g \in [0 .. k -> S]
      BY <3>10
    <3>5. \A m \in 0 .. (k - 1) : m \in 0 .. k /\ m < k /\ g[m] = f[m]
      OBVIOUS
    <3>6. g[k] = top
      OBVIOUS
    <3> HIDE DEF g
    <3>7. Descent(g, k, b, Bottom, Step, Down)
      <4>1. k >= b => g[Down[k]] = f[Down[k]]
        BY <3>2, <3>5
      <4>2. k \in Nat /\ (~(k < b) => k >= b)
        BY <1>0
      <4> QED
        BY <3>6, <4>1, <4>2 DEF top, Descent
    <3>8. ASSUME NEW m \in 0 .. (k - 1)  PROVE Descent(g, m, b, Bottom, Step, Down)
      <4>1. m >= b => Down[m] \in 0 .. (k - 1)
        BY <1>0
      <4>2. Descent(f, m, b, Bottom, Step, Down) /\ g[m] = f[m]
        BY <2>1, <3>5
      <4>3. m \in Nat /\ (~(m < b) => m >= b)
        BY <1>0
      <4> QED
        BY <3>5, <4>1, <4>2, <4>3 DEF Descent
    <3>9. \A m \in 0 .. k : m = k \/ m \in 0 .. (k - 1)
      OBVIOUS
    <3> QED
      BY <3>4, <3>7, <3>8, <3>9
  <2>2. 0 \in G
    <3> DEFINE f == [m \in 0 .. (0 - 1) |-> 0]
    <3>1. f \in [0 .. (0 - 1) -> S] /\ 0 .. (0 - 1) = {}
      OBVIOUS
    <3> HIDE DEF f
    <3>2. \A m \in 0 .. (0 - 1) : Descent(f, m, b, Bottom, Step, Down)
      BY <3>1
    <3>3. 0 \in 0 .. n
      OBVIOUS
    <3> HIDE DEF Upto
    <3>4. \E g : Upto(0, g)
      BY <2>1, <3>1, <3>2, <3>3
    <3> QED
      BY <3>3, <3>4
  <2>3. ASSUME NEW k \in 1 .. n, k - 1 \in G  PROVE k \in G
    <3>1. PICK g : Upto(k - 1, g)
      BY <2>3
    <3>2. k \in 0 .. n
      OBVIOUS
    <3>3. \E f : Upto(k, f)
      BY <2>1, <3>1, <3>2
    <3> QED
      BY <3>2, <3>3
  <2> HIDE DEF G
  <2>4. \A k \in 0 .. n : k \in G
    BY <2>2, <2>3, Upwards
  <2>5. n \in G
    BY <2>4
  <2> QED
    BY <2>5 DEF G
<1>2. ASSUME NEW n \in Nat, NEW m \in Nat, NEW g, NEW h, n <= m, Upto(n, g), Upto(m, h)
      PROVE  \A x \in 0 .. n : g[x] = h[x]
  <2> DEFINE G == { k \in 0 .. n : \A x \in 0 .. k : g[x] = h[x] }
  <2>1. ASSUME NEW k \in 0 .. n, \A x \in 0 .. (k - 1) : g[x] = h[x]  PROVE g[k] = h[k]
    <3>1. k >= b => Down[k] \in 0 .. (k - 1)
      BY <1>0
    <3>2. k \in 0 .. m /\ k \in Nat /\ (~(k < b) => k >= b)
      BY <1>0, <1>2
    <3>3. Descent(g, k, b, Bottom, Step, Down) /\ Descent(h, k, b, Bottom, Step, Down)
      BY <1>2, <3>2
    <3> QED
      BY <2>1, <3>1, <3>2, <3>3 DEF Descent
  <2>2. 0 \in G
    BY <2>1
  <2>3. ASSUME NEW k \in 1 .. n, k - 1 \in G  PROVE k \in G
    <3>1. k \in 0 .. n /\ \A x \in 0 .. (k - 1) : g[x] = h[x]
      BY <2>3
    <3>2. g[k] = h[k]
      BY <2>1, <3>1
    <3>3. \A x \in 0 .. k : x = k \/ x \in 0 .. (k - 1)
      OBVIOUS
    <3> QED
      BY <3>1, <3>2, <3>3
  <2> HIDE DEF G
  <2>4. \A k \in 0 .. n : k \in G
    BY <2>2, <2>3, Upwards
  <2>5. n \in G
    BY <2>4
  <2> QED
    BY <2>5 DEF G
<1> DEFINE piece(n) == CHOOSE g : Upto(n, g)
           d == [n \in Nat |-> piece(n)[n]]
<1>3. \A n \in Nat : Upto(n, piece(n))
  BY <1>1
<1> HIDE DEF piece
<1>4. d \in [Nat -> S]
  <2>1. \A n \in Nat : n \in 0 .. n
    OBVIOUS
  <2> QED
    BY <1>3, <2>1
<1>5. ASSUME NEW n \in Nat  PROVE Descent(d, n, b, Bottom, Step, Down)
  <2>1. Descent(piece(n), n, b, Bottom, Step, Down)
    <3>1. n \in 0 .. n
      OBVIOUS
    <3> QED
      BY <1>3, <3>1
  <2>2. CASE n < b
    BY <2>1, <2>2 DEF Descent
  <2>3. CASE ~(n < b)
    <3>1. Down[n] \in Nat /\ Down[n] <= n /\ Down[n] \in 0 .. Down[n]
      BY <1>0, <2>3
    <3>2. Upto(n, piece(n)) /\ Upto(Down[n], piece(Down[n]))
      BY <1>3, <3>1
    <3> HIDE DEF Upto
    <3>3. piece(Down[n])[Down[n]] = piece(n)[Down[n]]
      BY <1>2, <3>1, <3>2
    <3>4. d[Down[n]] = piece(n)[Down[n]] /\ d[n] = piece(n)[n]
      BY <3>1, <3>3
    <3> QED
      BY <2>1, <2>3, <3>4 DEF Descent
  <2> QED
    BY <2>2, <2>3
<1> QED
  BY <1>4, <1>5

\* A recursion from each number to the one before.
Advances(S, base, Step) == base \in S /\ Step \in [Nat -> [S -> S]]
Follows(d, n, base, Step) == d[n] = IF n = 0 THEN base ELSE Step[n][d[n - 1]]

(* Such a recursion defines a function, and any function with it has its      *)
(* values where the steps lead.                                               *)
LEMMA RecursionExists ==
  ASSUME NEW S, NEW base, NEW Step, Advances(S, base, Step)
  PROVE  \E d \in [Nat -> S] : \A n \in Nat : Follows(d, n, base, Step)
<1> DEFINE Bottom == [n \in 0 .. (1 - 1) |-> base]
           Down == [n \in Nat |-> IF n = 0 THEN 0 ELSE n - 1]
<1>1. Bottom \in [0 .. (1 - 1) -> S] /\ Bottom[0] = base
  BY DEF Advances
<1>2. Down \in [Nat -> Nat] /\ \A n \in Nat : n >= 1 => Down[n] < n /\ Down[n] = n - 1
  OBVIOUS
<1> HIDE DEF Bottom, Down
<1>3. Descends(S, 1, Bottom, Step, Down)
  BY <1>1, <1>2 DEF Descends, Advances
<1>4. PICK d \in [Nat -> S] : \A n \in Nat : Descent(d, n, 1, Bottom, Step, Down)
  BY <1>3, DescentExists
<1>5. \A n \in Nat : Follows(d, n, base, Step)
  BY <1>1, <1>2, <1>4 DEF Descent, Follows
<1> QED
  BY <1>5

=============================================================================
