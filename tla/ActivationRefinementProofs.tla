--------------------- MODULE ActivationRefinementProofs ---------------------
(***************************************************************************)
(* Activation implements AdaExceptions, for any number of exceptions,      *)
(* activations and nested constructs.                                      *)
(*                                                                         *)
(* A raise of AdaExceptions is one step; the program's is the setting of   *)
(* the flag, and every dispatch, propagating return and test after it has  *)
(* to be no step at all.  It is none because what such a step leaves has   *)
(* no handler for the exception, so that the deepest one is where it was.  *)
(* The exception of an untested 'Image is late until a test or a return:   *)
(* that step is the Notice of AdaExceptions.                               *)
(***************************************************************************)
EXTENDS ActivationProofs, ActivationRefinement, SequenceTheorems, WellFoundedInduction

-----------------------------------------------------------------------------
(* Where an exception lands.                                               *)

RegionSet ==
  [kind : {"plain", "handled", "handler"}, handles : SUBSET Exceptions,
   occurrence : Exceptions \cup {None}]

\* A handled sequence that names the exception.
Names(region, e) == region.kind = "handled" /\ e \in region.handles

\* The candidates, place by place.
LEMMA PlacesLemma ==
  ASSUME NEW regions \in Seq(Seq(RegionSet)), NEW e
  PROVE  /\ \A f \in 1 .. Len(regions) : \A k \in 1 .. Len(regions[f]) :
              Names(regions[f][k], e) => << f, k >> \in Search!Candidates(regions, e)
         /\ \A place \in Search!Candidates(regions, e) :
              \E f \in 1 .. Len(regions) : \E k \in 1 .. Len(regions[f]) :
                place = << f, k >> /\ Names(regions[f][k], e)
<1>1. DOMAIN regions = 1 .. Len(regions)
      /\ \A f \in 1 .. Len(regions) : DOMAIN regions[f] = 1 .. Len(regions[f])
  <2>1. \A f \in 1 .. Len(regions) : regions[f] \in Seq(RegionSet)
    OBVIOUS
  <2> QED
    BY <2>1
<1>2. ASSUME NEW f \in 1 .. Len(regions), NEW k \in 1 .. Len(regions[f]), Names(regions[f][k], e)
      PROVE  << f, k >> \in Search!Candidates(regions, e)
  <2>1. << f, k >> \in UNION { {g} \X DOMAIN regions[g] : g \in DOMAIN regions }
    BY <1>1
  <2> QED
    BY <1>2, <2>1 DEF Search!Candidates, Names
<1>3. ASSUME NEW place \in Search!Candidates(regions, e)
      PROVE  \E f \in 1 .. Len(regions) : \E k \in 1 .. Len(regions[f]) :
               place = << f, k >> /\ Names(regions[f][k], e)
  <2>1. PICK f \in DOMAIN regions : place \in {f} \X DOMAIN regions[f]
    BY DEF Search!Candidates
  <2>2. PICK k \in DOMAIN regions[f] : place = << f, k >>
    BY <2>1
  <2>3. Names(regions[f][k], e)
    BY <2>2 DEF Search!Candidates, Names
  <2> QED
    BY <1>1, <2>2, <2>3
<1> QED
  BY <1>2, <1>3

\* A bounded set of numbers has a greatest.
LEMMA GreatestLemma ==
  ASSUME NEW S, S \subseteq Nat, S # {}, NEW b \in Nat, \A x \in S : x <= b
  PROVE  \E m \in S : \A x \in S : x <= m
<1> DEFINE T == { b - x : x \in S }
<1>1. T \subseteq Nat /\ T # {}
  <2>1. \A x \in S : x \in Nat /\ x <= b
    OBVIOUS
  <2>2. \A x \in S : b - x \in Nat
    BY <2>1
  <2> QED
    BY <2>2
<1>2. IsWellFoundedOn(OpToRel(<, Nat), Nat)
  BY NatLessThanWellFounded
<1>3. PICK y \in T : \A z \in T : ~(<< z, y >> \in OpToRel(<, Nat))
  <2> HIDE DEF T
  <2> QED
    BY <1>1, <1>2, WFMin
<1>4. \A z \in T : ~(z < y)
  BY <1>1, <1>3 DEF OpToRel
<1>5. PICK m \in S : y = b - m
  OBVIOUS
<1>6. ASSUME NEW x \in S PROVE x <= m
  <2>1. b - x \in T
    OBVIOUS
  <2>2. ~(b - x < b - m)
    BY <1>4, <1>5, <2>1
  <2> QED
    BY <2>2
<1> QED
  BY <1>6

\* If an exception is handled at all there is a deepest handler, and it lands there.
LEMMA LandingLemma ==
  ASSUME NEW regions \in Seq(Seq(RegionSet)), NEW e, Search!IsHandled(regions, e)
  PROVE  /\ Search!Landing(regions, e) \in Search!Candidates(regions, e)
         /\ \A other \in Search!Candidates(regions, e) :
              Search!NoDeeper(other, Search!Landing(regions, e))
<1> DEFINE places == Search!Candidates(regions, e)
           F == { f \in 1 .. Len(regions) : \E place \in places : place[1] = f }
<1>1. places # {}
  BY DEF Search!IsHandled
<1>2. \A place \in places :
        \E f \in 1 .. Len(regions) : \E k \in 1 .. Len(regions[f]) : place = << f, k >>
  BY PlacesLemma
<1> HIDE DEF places
<1>3. F # {} /\ F \subseteq Nat /\ Len(regions) \in Nat /\ \A f \in F : f <= Len(regions)
  BY <1>1, <1>2
<1>4. PICK f \in F : \A g \in F : g <= f
  <2> HIDE DEF F
  <2> QED
    BY <1>3, GreatestLemma
<1>5. f \in 1 .. Len(regions) /\ regions[f] \in Seq(RegionSet) /\ Len(regions[f]) \in Nat
  OBVIOUS
<1> DEFINE K == { k \in 1 .. Len(regions[f]) : << f, k >> \in places }
<1>6. K # {} /\ K \subseteq Nat /\ \A k \in K : k <= Len(regions[f])
  <2>1. PICK place \in places : place[1] = f
    BY <1>4
  <2>2. PICK g \in 1 .. Len(regions) : \E k \in 1 .. Len(regions[g]) : place = << g, k >>
    BY <1>2
  <2>a. PICK k \in 1 .. Len(regions[g]) : place = << g, k >>
    BY <2>2
  <2>3. g = f /\ k \in K
    BY <2>1, <2>a
  <2>4. \A j \in K : j \in Nat /\ j <= Len(regions[f])
    BY <1>5
  <2> QED
    BY <2>3, <2>4
<1>7. PICK k \in K : \A j \in K : j <= k
  <2> HIDE DEF K
  <2> QED
    BY <1>5, <1>6, GreatestLemma
<1>8. ASSUME NEW other \in places PROVE Search!NoDeeper(other, << f, k >>)
  <2>a. PICK g \in 1 .. Len(regions) : \E j \in 1 .. Len(regions[g]) : other = << g, j >>
    BY <1>2
  <2>1. PICK j \in 1 .. Len(regions[g]) : other = << g, j >>
    BY <2>a
  <2>2. g \in F
    BY <2>1
  <2>3. g <= f
    BY <1>4, <2>2
  <2>4. g = f => j <= k
    BY <1>7, <2>1
  <2> QED
    BY <1>5, <2>1, <2>3, <2>4 DEF Search!NoDeeper
<1>9. \E place \in places : \A other \in places : Search!NoDeeper(other, place)
  BY <1>7, <1>8
<1>10. /\ Search!Deepest(places) \in places
       /\ \A other \in places : Search!NoDeeper(other, Search!Deepest(places))
  BY <1>9 DEF Search!Deepest
<1> QED
  BY <1>10 DEF Search!Landing, places

\* Activations and regions that agree up to every candidate show the same after
\* a raise.
Alike(regions, others, e) ==
  /\ Search!Candidates(regions, e) = Search!Candidates(others, e)
  /\ \A f \in 1 .. Len(regions) : \A k \in 1 .. Len(regions[f]) :
       << f, k >> \in Search!Candidates(regions, e) =>
         /\ \A g \in 1 .. (f - 1) : regions[g] = others[g]
         /\ \A j \in 1 .. (k - 1) : regions[f][j] = others[f][j]

\* The first elements of a sequence, and its last one replaced.
LEMMA FirstLemma ==
  ASSUME NEW S, NEW s \in Seq(S), NEW m \in 0 .. Len(s)
  PROVE  /\ SubSeq(s, 1, m) \in Seq(S) /\ Len(SubSeq(s, 1, m)) = m
         /\ \A i \in 1 .. m : SubSeq(s, 1, m)[i] = s[i]
OBVIOUS

\* Cutting off the last element and appending another is replacing it.
LEMMA LastLemma ==
  ASSUME NEW S, NEW s \in Seq(S), s # << >>, NEW x \in S
  PROVE  /\ Append(SubSeq(s, 1, Len(s) - 1), x) = [s EXCEPT ![Len(s)] = x]
         /\ Append(SubSeq(s, 1, Len(s) - 1), x) \in Seq(S)
<1> DEFINE front == SubSeq(s, 1, Len(s) - 1)
<1>1. Len(s) \in Nat \ {0} /\ Len(s) - 1 \in 0 .. Len(s)
  OBVIOUS
<1>2. /\ front \in Seq(S) /\ Len(front) = Len(s) - 1
      /\ \A i \in 1 .. (Len(s) - 1) : front[i] = s[i]
  BY <1>1, FirstLemma
<1> HIDE DEF front
<1>3. /\ Append(front, x) \in Seq(S) /\ Len(Append(front, x)) = Len(s)
      /\ \A i \in 1 .. Len(s) : Append(front, x)[i] = [s EXCEPT ![Len(s)] = x][i]
  BY <1>1, <1>2
<1>4. [s EXCEPT ![Len(s)] = x] \in Seq(S) /\ Len([s EXCEPT ![Len(s)] = x]) = Len(s)
  BY <1>1
<1>5. Append(front, x) = [s EXCEPT ![Len(s)] = x]
  BY <1>3, <1>4, SeqEqual
<1> QED
  BY <1>3, <1>5 DEF front

\* Two sequences that agree in front of a position have the same front.
LEMMA FrontLemma ==
  ASSUME NEW S, NEW p \in Seq(S), NEW q \in Seq(S), NEW n \in Nat,
         n <= Len(p) + 1, n <= Len(q) + 1, n > 0, \A i \in 1 .. (n - 1) : p[i] = q[i]
  PROVE  SubSeq(p, 1, n - 1) = SubSeq(q, 1, n - 1)
<1>1. \A i \in 1 .. (n - 1) : i \in 1 .. Len(p) /\ i \in 1 .. Len(q)
  OBVIOUS
<1> QED
  BY <1>1

\* Where the deepest candidate is the same, the exception lands in the same place.
LEMMA AlikeLemma ==
  ASSUME NEW regions \in Seq(Seq(RegionSet)), NEW others \in Seq(Seq(RegionSet)), NEW e,
         Alike(regions, others, e)
  PROVE  /\ Search!IsHandled(regions, e) <=> Search!IsHandled(others, e)
         /\ Search!AfterRaise(regions, e) = Search!AfterRaise(others, e)
<1>1. Search!Candidates(regions, e) = Search!Candidates(others, e)
  BY DEF Alike
<1>2. /\ Search!IsHandled(regions, e) <=> Search!IsHandled(others, e)
      /\ Search!Landing(regions, e) = Search!Landing(others, e)
  BY <1>1 DEF Search!IsHandled, Search!Landing
<1>3. ASSUME Search!IsHandled(regions, e)
      PROVE  Search!AfterRaise(regions, e) = Search!AfterRaise(others, e)
  <2>1. Search!Landing(regions, e) \in Search!Candidates(regions, e)
    BY <1>3, LandingLemma
  <2>2. PICK f \in 1 .. Len(regions) : \E k \in 1 .. Len(regions[f]) :
               Search!Landing(regions, e) = << f, k >>
    BY <2>1, PlacesLemma
  <2>3. PICK k \in 1 .. Len(regions[f]) : Search!Landing(regions, e) = << f, k >>
    BY <2>2
  <2>4. PICK g \in 1 .. Len(others) : \E j \in 1 .. Len(others[g]) :
               Search!Landing(regions, e) = << g, j >>
    BY <1>1, <2>1, PlacesLemma
  <2>5. f \in 1 .. Len(others) /\ k \in 1 .. Len(others[f])
    BY <2>3, <2>4
  <2>6. /\ regions[f] \in Seq(RegionSet) /\ others[f] \in Seq(RegionSet)
        /\ f \in Nat \ {0} /\ k \in Nat \ {0}
        /\ f <= Len(regions) + 1 /\ f <= Len(others) + 1
        /\ k <= Len(regions[f]) + 1 /\ k <= Len(others[f]) + 1
    BY <2>5
  <2>7. /\ \A h \in 1 .. (f - 1) : regions[h] = others[h]
        /\ \A j \in 1 .. (k - 1) : regions[f][j] = others[f][j]
    BY <2>1, <2>3 DEF Alike
  <2>8. SubSeq(regions, 1, f - 1) = SubSeq(others, 1, f - 1)
    BY <2>6, <2>7, FrontLemma
  <2>9. SubSeq(regions[f], 1, k - 1) = SubSeq(others[f], 1, k - 1)
    BY <2>6, <2>7, FrontLemma
  <2>a. Search!IsHandled(others, e) /\ Search!Landing(others, e) = << f, k >>
    BY <1>2, <1>3, <2>3
  <2>b. Search!AfterRaise(regions, e) =
          Append(SubSeq(regions, 1, f - 1), Append(SubSeq(regions[f], 1, k - 1), Search!Handler(e)))
    BY <1>3, <2>3 DEF Search!AfterRaise
  <2>c. Search!AfterRaise(others, e) =
          Append(SubSeq(others, 1, f - 1), Append(SubSeq(others[f], 1, k - 1), Search!Handler(e)))
    BY <2>a DEF Search!AfterRaise
  <2> QED
    BY <2>8, <2>9, <2>b, <2>c
<1>4. ASSUME ~Search!IsHandled(regions, e)
      PROVE  Search!AfterRaise(regions, e) = Search!AfterRaise(others, e)
  <2>1. ~Search!IsHandled(others, e)
    BY <1>2, <1>4
  <2>2. Search!AfterRaise(regions, e) = << >> /\ Search!AfterRaise(others, e) = << >>
    BY <1>4, <2>1 DEF Search!AfterRaise
  <2> QED
    BY <2>2
<1> QED
  BY <1>2, <1>3, <1>4

\* Leaving constructs of the innermost activation of which none names the exception.
LEMMA TrimmedLemma ==
  ASSUME NEW regions \in Seq(Seq(RegionSet)), NEW e, regions # << >>,
         NEW m \in 0 .. Len(regions[Len(regions)]),
         \A k \in (m + 1) .. Len(regions[Len(regions)]) : ~Names(regions[Len(regions)][k], e)
  PROVE  Alike(regions, [regions EXCEPT ![Len(regions)] = SubSeq(@, 1, m)], e)
<1> DEFINE n == Len(regions)
           inner == SubSeq(regions[n], 1, m)
           others == [regions EXCEPT ![n] = inner]
<1>1. n \in 1 .. Len(regions) /\ n \in Nat /\ regions[n] \in Seq(RegionSet)
  OBVIOUS
<1>2. /\ inner \in Seq(RegionSet) /\ Len(inner) = m
      /\ \A k \in 1 .. m : inner[k] = regions[n][k]
  BY <1>1
<1> HIDE DEF inner
<1>3. /\ others \in Seq(Seq(RegionSet)) /\ Len(others) = n
      /\ \A f \in 1 .. n : f # n => others[f] = regions[f]
      /\ others[n] = inner
  BY <1>1, <1>2
<1> HIDE DEF n, others
<1>4. ASSUME NEW f \in 1 .. n, NEW k \in 1 .. Len(regions[f]), Names(regions[f][k], e)
      PROVE  /\ k \in 1 .. Len(others[f]) /\ others[f][k] = regions[f][k]
             /\ \A g \in 1 .. (f - 1) : regions[g] = others[g]
             /\ \A j \in 1 .. (k - 1) : regions[f][j] = others[f][j]
  <2>1. CASE f = n
    <3>1. k <= m
      BY <1>1, <1>4, <2>1 DEF n
    <3>2. k \in 1 .. Len(others[f]) /\ others[f][k] = regions[f][k]
      BY <1>1, <1>2, <1>3, <2>1, <3>1
    <3>3. \A g \in 1 .. (f - 1) : regions[g] = others[g]
      BY <1>1, <1>3, <2>1
    <3>4. \A j \in 1 .. (k - 1) : regions[f][j] = others[f][j]
      BY <1>1, <1>2, <1>3, <2>1, <3>1
    <3> QED
      BY <3>2, <3>3, <3>4
  <2>2. CASE f # n
    <3>1. k \in 1 .. Len(others[f]) /\ others[f] = regions[f]
      BY <1>3, <1>4, <2>2
    <3>2. \A g \in 1 .. (f - 1) : regions[g] = others[g]
      BY <1>1, <1>3, <1>4
    <3> QED
      BY <3>1, <3>2
  <2> QED
    BY <2>1, <2>2
<1>5. ASSUME NEW f \in 1 .. n, NEW k \in 1 .. Len(others[f]), Names(others[f][k], e)
      PROVE  k \in 1 .. Len(regions[f]) /\ others[f][k] = regions[f][k]
  <2>1. CASE f = n
    BY <1>1, <1>2, <1>3, <2>1 DEF n
  <2>2. CASE f # n
    BY <1>3, <2>2
  <2> QED
    BY <2>1, <2>2
<1>6. Search!Candidates(regions, e) \subseteq Search!Candidates(others, e)
  <2> SUFFICES ASSUME NEW place \in Search!Candidates(regions, e)
               PROVE  place \in Search!Candidates(others, e)
    OBVIOUS
  <2>1. PICK f \in 1 .. n : \E k \in 1 .. Len(regions[f]) :
               place = << f, k >> /\ Names(regions[f][k], e)
    BY PlacesLemma DEF n
  <2>2. PICK k \in 1 .. Len(regions[f]) : place = << f, k >> /\ Names(regions[f][k], e)
    BY <2>1
  <2> QED
    BY <1>3, <1>4, <2>2, PlacesLemma
<1>7. Search!Candidates(others, e) \subseteq Search!Candidates(regions, e)
  <2> SUFFICES ASSUME NEW place \in Search!Candidates(others, e)
               PROVE  place \in Search!Candidates(regions, e)
    OBVIOUS
  <2>1. PICK f \in 1 .. n : \E k \in 1 .. Len(others[f]) :
               place = << f, k >> /\ Names(others[f][k], e)
    BY <1>3, PlacesLemma
  <2>2. PICK k \in 1 .. Len(others[f]) : place = << f, k >> /\ Names(others[f][k], e)
    BY <2>1
  <2>3. k \in 1 .. Len(regions[f]) /\ Names(regions[f][k], e)
    BY <1>5, <2>2
  <2> QED
    BY <2>2, <2>3, PlacesLemma DEF n
<1>8. ASSUME NEW f \in 1 .. n, NEW k \in 1 .. Len(regions[f]),
             << f, k >> \in Search!Candidates(regions, e)
      PROVE  Names(regions[f][k], e)
  <2>1. PICK g \in 1 .. n : \E j \in 1 .. Len(regions[g]) :
               << f, k >> = << g, j >> /\ Names(regions[g][j], e)
    BY <1>8, PlacesLemma DEF n
  <2> QED
    BY <2>1
<1>9. Alike(regions, others, e)
  BY <1>4, <1>6, <1>7, <1>8 DEF Alike, n
<1> QED
  BY <1>9 DEF others, inner, n

\* Leaving an activation none of whose constructs names the exception.
LEMMA ReturnedLemma ==
  ASSUME NEW regions \in Seq(Seq(RegionSet)), NEW e, regions # << >>,
         \A k \in 1 .. Len(regions[Len(regions)]) : ~Names(regions[Len(regions)][k], e)
  PROVE  Alike(regions, SubSeq(regions, 1, Len(regions) - 1), e)
<1> DEFINE n == Len(regions)
           others == SubSeq(regions, 1, n - 1)
<1>1. n \in 1 .. Len(regions) /\ n \in Nat
  OBVIOUS
<1>2. /\ others \in Seq(Seq(RegionSet)) /\ Len(others) = n - 1
      /\ \A f \in 1 .. (n - 1) : others[f] = regions[f]
  <2>1. n - 1 \in 0 .. Len(regions)
    BY <1>1
  <2> HIDE DEF n
  <2> QED
    BY <2>1, FirstLemma
<1> HIDE DEF n, others
<1>3. \A f \in 1 .. (n - 1) : f \in 1 .. n
  BY <1>1
<1>4. ASSUME NEW f \in 1 .. n, NEW k \in 1 .. Len(regions[f]), Names(regions[f][k], e)
      PROVE  f \in 1 .. (n - 1)
  BY <1>1, <1>4 DEF n
<1>5. Search!Candidates(regions, e) \subseteq Search!Candidates(others, e)
  <2> SUFFICES ASSUME NEW place \in Search!Candidates(regions, e)
               PROVE  place \in Search!Candidates(others, e)
    OBVIOUS
  <2>1. PICK f \in 1 .. n : \E k \in 1 .. Len(regions[f]) :
               place = << f, k >> /\ Names(regions[f][k], e)
    BY PlacesLemma DEF n
  <2>2. PICK k \in 1 .. Len(regions[f]) : place = << f, k >> /\ Names(regions[f][k], e)
    BY <2>1
  <2>3. f \in 1 .. Len(others) /\ others[f] = regions[f]
    BY <1>2, <1>4, <2>2
  <2> QED
    BY <1>2, <2>2, <2>3, PlacesLemma
<1>6. Search!Candidates(others, e) \subseteq Search!Candidates(regions, e)
  <2> SUFFICES ASSUME NEW place \in Search!Candidates(others, e)
               PROVE  place \in Search!Candidates(regions, e)
    OBVIOUS
  <2>1. PICK f \in 1 .. (n - 1) : \E k \in 1 .. Len(others[f]) :
               place = << f, k >> /\ Names(others[f][k], e)
    BY <1>2, PlacesLemma
  <2>2. PICK k \in 1 .. Len(others[f]) : place = << f, k >> /\ Names(others[f][k], e)
    BY <2>1
  <2>3. f \in 1 .. Len(regions) /\ others[f] = regions[f]
    BY <1>2, <1>3 DEF n
  <2> QED
    BY <2>2, <2>3, PlacesLemma
<1>7. ASSUME NEW f \in 1 .. n, NEW k \in 1 .. Len(regions[f]),
             << f, k >> \in Search!Candidates(regions, e)
      PROVE  /\ \A g \in 1 .. (f - 1) : regions[g] = others[g]
             /\ \A j \in 1 .. (k - 1) : regions[f][j] = others[f][j]
  <2>1. PICK g \in 1 .. n : \E j \in 1 .. Len(regions[g]) :
               << f, k >> = << g, j >> /\ Names(regions[g][j], e)
    BY <1>7, PlacesLemma DEF n
  <2>2. f \in 1 .. (n - 1)
    BY <1>4, <2>1
  <2>3. others[f] = regions[f] /\ \A h \in 1 .. (f - 1) : h \in 1 .. (n - 1)
    BY <1>1, <1>2, <2>2
  <2> QED
    BY <1>2, <2>3
<1>8. Alike(regions, others, e)
  BY <1>5, <1>6, <1>7 DEF Alike, n
<1> QED
  BY <1>8 DEF others, n

\* A handler in the innermost activation that is open inside no other candidate
\* is where the exception lands.
LEMMA CaughtLemma ==
  ASSUME NEW regions \in Seq(Seq(RegionSet)), NEW e \in Exceptions, regions # << >>,
         NEW k \in 1 .. Len(regions[Len(regions)]), Names(regions[Len(regions)][k], e),
         \A j \in (k + 1) .. Len(regions[Len(regions)]) : ~Names(regions[Len(regions)][j], e)
  PROVE  /\ Search!IsHandled(regions, e)
         /\ Search!AfterRaise(regions, e) =
              [regions EXCEPT ![Len(regions)] = Append(SubSeq(@, 1, k - 1), Search!Handler(e))]
<1> DEFINE n == Len(regions)
<1>1. n \in 1 .. Len(regions) /\ n \in Nat \ {0} /\ regions[n] \in Seq(RegionSet) /\ k \in Nat \ {0}
  OBVIOUS
<1>2. << n, k >> \in Search!Candidates(regions, e)
  BY <1>1, PlacesLemma
<1>3. Search!IsHandled(regions, e)
  BY <1>2 DEF Search!IsHandled
<1>4. Search!Landing(regions, e) = << n, k >>
  <2>1. PICK f \in 1 .. Len(regions) : \E j \in 1 .. Len(regions[f]) :
               Search!Landing(regions, e) = << f, j >> /\ Names(regions[f][j], e)
    BY <1>3, LandingLemma, PlacesLemma
  <2>2. PICK j \in 1 .. Len(regions[f]) :
               Search!Landing(regions, e) = << f, j >> /\ Names(regions[f][j], e)
    BY <2>1
  <2>3. Search!NoDeeper(<< n, k >>, << f, j >>)
    BY <1>2, <1>3, <2>2, LandingLemma
  <2>4. n < f \/ (n = f /\ k <= j)
    BY <2>3 DEF Search!NoDeeper
  <2>5. f = n /\ k <= j
    BY <1>1, <2>4
  <2>6. ~(j \in (k + 1) .. Len(regions[n]))
    BY <2>2, <2>5
  <2> QED
    BY <1>1, <2>2, <2>5, <2>6
<1>5. Search!AfterRaise(regions, e) =
        Append(SubSeq(regions, 1, n - 1), Append(SubSeq(regions[n], 1, k - 1), Search!Handler(e)))
  BY <1>3, <1>4 DEF Search!AfterRaise
<1>6. Append(SubSeq(regions[n], 1, k - 1), Search!Handler(e)) \in Seq(RegionSet)
  <2>1. Search!Handler(e) \in RegionSet
    BY DEF Search!Handler, RegionSet
  <2>2. SubSeq(regions[n], 1, k - 1) \in Seq(RegionSet)
    <3>1. k - 1 \in 0 .. Len(regions[n])
      BY <1>1
    <3> QED
      BY <1>1, <3>1, FirstLemma
  <2> QED
    BY <2>1, <2>2
<1>7. Append(SubSeq(regions, 1, n - 1), Append(SubSeq(regions[n], 1, k - 1), Search!Handler(e)))
        = [regions EXCEPT ![n] = Append(SubSeq(regions[n], 1, k - 1), Search!Handler(e))]
  <2>1. PICK x \in Seq(RegionSet) : x = Append(SubSeq(regions[n], 1, k - 1), Search!Handler(e))
    BY <1>6
  <2>2. Append(SubSeq(regions, 1, Len(regions) - 1), x) = [regions EXCEPT ![Len(regions)] = x]
    BY LastLemma
  <2> QED
    BY <2>1, <2>2
<1> QED
  BY <1>3, <1>5, <1>7

-----------------------------------------------------------------------------
(* What the mapping shows of the activations.                              *)

Regions(s) == [f \in DOMAIN s |-> RegionsOf(s[f])]

\* A construct and its region are alike in what the search looks at.
LEMMA RegionLemma ==
  ASSUME NEW construct \in Construct
  PROVE  /\ Region(construct) \in RegionSet
         /\ Region(construct).kind = "handled" <=> construct.kind = "handled"
         /\ Region(construct).kind = "handler" <=> construct.kind = "handler"
         /\ construct.kind = "handled" => Region(construct).handles = construct.handles
         /\ construct.kind = "handler" => Region(construct) = Search!Handler(construct.occurrence.id)
BY DEF Region, RegionSet, Construct, Kinds, Occurrence, Search!Plain, Search!Handled, Search!Handler

\* The regions of an activation are those of its constructs, one by one.
LEMMA RegionsOfLemma ==
  ASSUME NEW frame \in Frame
  PROVE  /\ RegionsOf(frame) \in Seq(RegionSet)
         /\ Len(RegionsOf(frame)) = Len(frame.open)
         /\ \A i \in 1 .. Len(frame.open) :
              frame.open[i] \in Construct /\ RegionsOf(frame)[i] = Region(frame.open[i])
<1>1. frame.open \in Seq(Construct) /\ DOMAIN frame.open = 1 .. Len(frame.open) /\ Len(frame.open) \in Nat
  BY DEF Frame
<1>2. \A i \in 1 .. Len(frame.open) : frame.open[i] \in Construct /\ Region(frame.open[i]) \in RegionSet
  BY <1>1, RegionLemma
<1>3. RegionsOf(frame) = [i \in 1 .. Len(frame.open) |-> Region(frame.open[i])]
  BY <1>1 DEF RegionsOf
<1> QED
  BY <1>1, <1>2, <1>3

\* The regions of the stack are those of its activations, one by one.
LEMMA RegionsLemma ==
  ASSUME NEW s \in Seq(Frame)
  PROVE  /\ Regions(s) \in Seq(Seq(RegionSet))
         /\ Len(Regions(s)) = Len(s)
         /\ \A f \in 1 .. Len(s) : Regions(s)[f] = RegionsOf(s[f])
         /\ Regions(s) = << >> <=> s = << >>
<1>1. DOMAIN s = 1 .. Len(s) /\ Len(s) \in Nat
  OBVIOUS
<1>2. \A f \in 1 .. Len(s) : RegionsOf(s[f]) \in Seq(RegionSet)
  BY RegionsOfLemma
<1>3. Regions(s) = [f \in 1 .. Len(s) |-> RegionsOf(s[f])]
  BY <1>1 DEF Regions
<1>4. Regions(s) \in Seq(Seq(RegionSet)) /\ Len(Regions(s)) = Len(s)
  BY <1>1, <1>2, <1>3
<1> QED
  BY <1>1, <1>3, <1>4, EmptySeq

\* OpenRegions as an operator of the stack alone, which a step can be put into.
LEMMA OpenRegionsLemma == OpenRegions = Regions(stack)
BY DEF OpenRegions, Regions

\* Opening, leaving and changing constructs.
LEMMA OpenedRegions ==
  ASSUME NEW f \in Frame, NEW g \in Frame, NEW construct \in Construct,
         g.open = Append(f.open, construct)
  PROVE  RegionsOf(g) = Append(RegionsOf(f), Region(construct))
<1>1. f.open \in Seq(Construct) /\ Len(f.open) \in Nat
  BY DEF Frame
<1>2. /\ Len(g.open) = Len(f.open) + 1 /\ g.open[Len(f.open) + 1] = construct
      /\ \A i \in 1 .. Len(f.open) : g.open[i] = f.open[i]
  BY <1>1
<1>3. Append(RegionsOf(f), Region(construct)) \in Seq(RegionSet)
  BY RegionsOfLemma, RegionLemma
<1>4. RegionsOf(g) \in Seq(RegionSet) /\ Len(RegionsOf(g)) = Len(f.open) + 1
  BY <1>2, RegionsOfLemma
<1>5. Len(Append(RegionsOf(f), Region(construct))) = Len(f.open) + 1
  BY RegionsOfLemma
<1>6. ASSUME NEW i \in 1 .. (Len(f.open) + 1)
      PROVE  RegionsOf(g)[i] = Append(RegionsOf(f), Region(construct))[i]
  <2>1. RegionsOf(g)[i] = Region(g.open[i])
    BY <1>2, RegionsOfLemma
  <2>2. Append(RegionsOf(f), Region(construct))[i] =
          IF i <= Len(f.open) THEN RegionsOf(f)[i] ELSE Region(construct)
    BY <1>1, RegionsOfLemma, RegionLemma, AppendProperties
  <2>3. i <= Len(f.open) => i \in 1 .. Len(f.open) /\ RegionsOf(f)[i] = Region(f.open[i])
    BY <1>1, RegionsOfLemma
  <2> QED
    BY <1>1, <1>2, <2>1, <2>2, <2>3
<1> QED
  BY <1>3, <1>4, <1>5, <1>6, SeqEqual

\* An activation of which only the outer constructs are left.
LEMMA LeftRegions ==
  ASSUME NEW f \in Frame, NEW g \in Frame, NEW m \in 0 .. Len(f.open),
         Len(g.open) = m,
         \A i \in 1 .. m : Region(g.open[i]) = Region(f.open[i])
  PROVE  RegionsOf(g) = SubSeq(RegionsOf(f), 1, m)
<1>1. Len(f.open) \in Nat /\ m \in Nat /\ m <= Len(f.open) /\ \A i \in 1 .. m : i \in 1 .. Len(f.open)
  BY DEF Frame
<1>2. /\ SubSeq(RegionsOf(f), 1, m) \in Seq(RegionSet) /\ Len(SubSeq(RegionsOf(f), 1, m)) = m
      /\ \A i \in 1 .. m : SubSeq(RegionsOf(f), 1, m)[i] = RegionsOf(f)[i]
  <2>1. RegionsOf(f) \in Seq(RegionSet) /\ m \in 0 .. Len(RegionsOf(f))
    BY RegionsOfLemma
  <2> QED
    BY <2>1, FirstLemma
<1>3. /\ RegionsOf(g) \in Seq(RegionSet) /\ Len(RegionsOf(g)) = m
      /\ \A i \in 1 .. m : RegionsOf(g)[i] = RegionsOf(f)[i]
  BY <1>1, RegionsOfLemma
<1> QED
  BY <1>2, <1>3, SeqEqual

\* A change of constructs that the search does not see.
LEMMA SameRegions ==
  ASSUME NEW f \in Frame, NEW g \in Frame, Len(g.open) = Len(f.open),
         \A i \in 1 .. Len(f.open) : Region(g.open[i]) = Region(f.open[i])
  PROVE  RegionsOf(g) = RegionsOf(f)
<1>1. \A i \in 1 .. Len(f.open) : RegionsOf(g)[i] = RegionsOf(f)[i]
  BY RegionsOfLemma
<1> QED
  BY <1>1, RegionsOfLemma, SeqEqual

\* Calling, returning, and a step of the running activation.
LEMMA SetRegions ==
  ASSUME Inv, stack' \in Seq(Frame), stack # << >>, NEW frame, SetCurrent(frame)
  PROVE  /\ frame \in Frame
         /\ OpenRegions' = [OpenRegions EXCEPT ![Len(OpenRegions)] = RegionsOf(frame)]
<1>1. stack \in Seq(Frame) /\ Len(stack) \in 1 .. Len(stack) /\ Len(stack) \in Nat
  BY CurrentLemma
<1>2. /\ Len(stack') = Len(stack) /\ stack'[Len(stack)] = frame
      /\ \A f \in 1 .. Len(stack) : f # Len(stack) => stack'[f] = stack[f]
  BY <1>1 DEF SetCurrent
<1>3. frame \in Frame /\ RegionsOf(frame) \in Seq(RegionSet)
  BY <1>1, <1>2, RegionsOfLemma
<1>4. /\ Regions(stack) \in Seq(Seq(RegionSet)) /\ Len(Regions(stack)) = Len(stack)
      /\ \A f \in 1 .. Len(stack) : Regions(stack)[f] = RegionsOf(stack[f])
  BY <1>1, RegionsLemma
<1>5. PICK now \in Seq(Frame) : now = stack'
  OBVIOUS
<1>6. /\ Regions(now) \in Seq(Seq(RegionSet)) /\ Len(Regions(now)) = Len(stack)
      /\ \A f \in 1 .. Len(stack) : Regions(now)[f] = RegionsOf(now[f])
  BY <1>2, <1>5, RegionsLemma
<1>7. PICK shown \in Seq(Seq(RegionSet)) : shown = [Regions(stack) EXCEPT ![Len(stack)] = RegionsOf(frame)]
  BY <1>1, <1>3, <1>4, ExceptSeq
<1>8. Len(shown) = Len(stack) /\ \A f \in 1 .. Len(stack) : shown[f] = Regions(now)[f]
  BY <1>1, <1>2, <1>4, <1>5, <1>6, <1>7
<1>9. Regions(now) = shown
  BY <1>6, <1>8, SeqEqual
<1>10. OpenRegions' = Regions(now)
  BY <1>5 DEF OpenRegions, Regions
<1> QED
  BY <1>3, <1>4, <1>7, <1>9, <1>10, OpenRegionsLemma

\* An activation is left.
LEMMA PopRegions ==
  ASSUME Inv, stack' \in Seq(Frame), stack # << >>, LeaveActivation
  PROVE  OpenRegions' = SubSeq(OpenRegions, 1, Len(OpenRegions) - 1)
<1>1. stack \in Seq(Frame) /\ Len(stack) \in Nat \ {0} /\ Len(stack) - 1 \in 0 .. Len(stack)
  BY CurrentLemma
<1>2. /\ Len(stack') = Len(stack) - 1
      /\ \A f \in 1 .. (Len(stack) - 1) : stack'[f] = stack[f]
  BY <1>1, FirstLemma DEF LeaveActivation
<1>3. /\ Regions(stack) \in Seq(Seq(RegionSet)) /\ Len(Regions(stack)) = Len(stack)
      /\ \A f \in 1 .. Len(stack) : Regions(stack)[f] = RegionsOf(stack[f])
  BY <1>1, RegionsLemma
<1>4. PICK now \in Seq(Frame) : now = stack'
  OBVIOUS
<1>5. /\ Regions(now) \in Seq(Seq(RegionSet)) /\ Len(Regions(now)) = Len(stack) - 1
      /\ \A f \in 1 .. (Len(stack) - 1) : Regions(now)[f] = RegionsOf(now[f])
  BY <1>2, <1>4, RegionsLemma
<1>6. /\ SubSeq(Regions(stack), 1, Len(stack) - 1) \in Seq(Seq(RegionSet))
      /\ Len(SubSeq(Regions(stack), 1, Len(stack) - 1)) = Len(stack) - 1
      /\ \A f \in 1 .. (Len(stack) - 1) :
            SubSeq(Regions(stack), 1, Len(stack) - 1)[f] = Regions(stack)[f]
  BY <1>1, <1>3, FirstLemma
<1>7. \A f \in 1 .. (Len(stack) - 1) : f \in 1 .. Len(stack)
  BY <1>1
<1>8. Regions(now) = SubSeq(Regions(stack), 1, Len(stack) - 1)
  BY <1>2, <1>3, <1>4, <1>5, <1>6, <1>7, SeqEqual
<1>9. OpenRegions' = Regions(now)
  BY <1>4 DEF OpenRegions, Regions
<1> QED
  BY <1>3, <1>8, <1>9, OpenRegionsLemma

\* An activation is entered.
LEMMA PushRegions ==
  ASSUME Inv, NEW frame \in Frame, stack' = Append(stack, frame)
  PROVE  OpenRegions' = Append(OpenRegions, RegionsOf(frame))
<1>1. stack \in Seq(Frame) /\ Len(stack) \in Nat
  BY DEF Inv, Activations
<1>2. PICK now \in Seq(Frame) : now = Append(stack, frame)
  BY <1>1
<1>3. /\ Len(now) = Len(stack) + 1 /\ now[Len(stack) + 1] = frame
      /\ \A f \in 1 .. Len(stack) : now[f] = stack[f]
  BY <1>1, <1>2
<1>4. /\ Regions(stack) \in Seq(Seq(RegionSet)) /\ Len(Regions(stack)) = Len(stack)
      /\ \A f \in 1 .. Len(stack) : Regions(stack)[f] = RegionsOf(stack[f])
      /\ RegionsOf(frame) \in Seq(RegionSet)
  BY <1>1, RegionsLemma, RegionsOfLemma
<1>5. /\ Regions(now) \in Seq(Seq(RegionSet)) /\ Len(Regions(now)) = Len(stack) + 1
      /\ \A f \in 1 .. (Len(stack) + 1) : Regions(now)[f] = RegionsOf(now[f])
  BY <1>3, RegionsLemma
<1>6. PICK shown \in Seq(Seq(RegionSet)) : shown = Append(Regions(stack), RegionsOf(frame))
  BY <1>4, AppendProperties
<1>7. Len(shown) = Len(stack) + 1 /\ \A f \in 1 .. (Len(stack) + 1) : shown[f] = Regions(now)[f]
  BY <1>1, <1>3, <1>4, <1>5, <1>6
<1>8. Regions(now) = shown
  BY <1>5, <1>7, SeqEqual
<1>9. OpenRegions' = Regions(now)
  BY <1>2 DEF OpenRegions, Regions
<1> QED
  BY <1>6, <1>8, <1>9, OpenRegionsLemma

-----------------------------------------------------------------------------
(* The steps.                                                              *)

\* AdaExceptions searches as the mapping does.
LEMMA SearchLemma ==
  /\ \A regions, e : Abstract!IsHandled(regions, e) <=> Search!IsHandled(regions, e)
  /\ \A regions, e : Abstract!AfterRaise(regions, e) = Search!AfterRaise(regions, e)
  /\ Abstract!Plain = Search!Plain
  /\ \A handles : Abstract!Handled(handles) = Search!Handled(handles)
<1>1. \A regions, e : Abstract!Candidates(regions, e) = Search!Candidates(regions, e)
  BY DEF Abstract!Candidates, Search!Candidates
<1>2. \A places : Abstract!Deepest(places) = Search!Deepest(places)
  BY DEF Abstract!Deepest, Search!Deepest, Abstract!NoDeeper, Search!NoDeeper
<1>3. \A regions, e : /\ Abstract!IsHandled(regions, e) <=> Search!IsHandled(regions, e)
                      /\ Abstract!Landing(regions, e) = Search!Landing(regions, e)
  BY <1>1, <1>2 DEF Abstract!IsHandled, Search!IsHandled, Abstract!Landing, Search!Landing
<1>4. \A e : Abstract!Handler(e) = Search!Handler(e)
  BY DEF Abstract!Handler, Search!Handler
<1>5. \A regions, e : Abstract!AfterRaise(regions, e) = Search!AfterRaise(regions, e)
  BY <1>3, <1>4 DEF Abstract!AfterRaise, Search!AfterRaise
<1> QED
  BY <1>3, <1>5 DEF Abstract!Plain, Search!Plain, Abstract!Handled, Search!Handled

\* Ordinary code has nothing on its way, nor does a program with nothing pending.
LEMMA RunsQuietly ==
  /\ pc = "run" \/ pending = None => ~OnItsWay
  /\ pc' = "run" \/ pending' = None => ~OnItsWay'
BY DEF OnItsWay

\* What is shown while nothing is on its way.
LEMMA QuietLemma ==
  /\ ~OnItsWay =>
       /\ ShownRegions = OpenRegions /\ ShownUnhandled = None
       /\ pc # "stopped" => ShownPhase = phase
       /\ pc = "stopped" => ShownPhase = "completed"
  /\ ~OnItsWay' =>
       /\ ShownRegions' = OpenRegions' /\ ShownUnhandled' = None
       /\ pc' # "stopped" => ShownPhase' = phase'
       /\ pc' = "stopped" => ShownPhase' = "completed"
BY DEF ShownRegions, ShownUnhandled, ShownPhase, Doomed

\* What is late, and what is not.
LEMMA LateLemma ==
  /\ pc = "run" => ShownLate = pending
  /\ pc # "run" \/ pending = None => ShownLate = None
  /\ pc' = "run" => ShownLate' = pending'
  /\ pc' # "run" \/ pending' = None => ShownLate' = None
BY DEF ShownLate

\* What the mapping shows while an exception is on its way, before and after a step.
LEMMA PendingLemma ==
  /\ pending # None /\ pc # "run" =>
       /\ ShownRegions = Search!AfterRaise(OpenRegions, pending)
       /\ Search!IsHandled(OpenRegions, pending) =>
            ShownUnhandled = None /\ (pc # "stopped" => ShownPhase = phase)
       /\ ~Search!IsHandled(OpenRegions, pending) =>
            ShownUnhandled = pending /\ ShownPhase = "failed"
  /\ pending' # None /\ pc' # "run" =>
       /\ ShownRegions' = Search!AfterRaise(OpenRegions', pending')
       /\ Search!IsHandled(OpenRegions', pending') =>
            ShownUnhandled' = None /\ (pc' # "stopped" => ShownPhase' = phase')
       /\ ~Search!IsHandled(OpenRegions', pending') =>
            ShownUnhandled' = pending' /\ ShownPhase' = "failed"
BY DEF ShownRegions, ShownUnhandled, ShownPhase, Doomed, OnItsWay

\* Code that has nothing on its way is at the innermost activation of a live program.
LEMMA LiveLemma ==
  ASSUME Inv, ~OnItsWay, stack # << >>, pc # "stopped"
  PROVE  /\ Abstract!Live /\ ShownRegions = OpenRegions
         /\ Abstract!Depth = Len(OpenRegions)
         /\ Abstract!Current = RegionsOf(Current)
         /\ OpenRegions \in Seq(Seq(RegionSet)) /\ OpenRegions # << >>
         /\ OpenRegions[Len(OpenRegions)] = RegionsOf(Current)
         /\ Len(OpenRegions) = Len(stack)
<1>1. stack \in Seq(Frame) /\ Len(stack) \in 1 .. Len(stack)
  BY CurrentLemma
<1>2. /\ OpenRegions \in Seq(Seq(RegionSet)) /\ OpenRegions # << >> /\ Len(OpenRegions) = Len(stack)
      /\ OpenRegions[Len(OpenRegions)] = RegionsOf(Current)
  BY <1>1, OpenRegionsLemma, RegionsLemma DEF Current
<1>3. ShownRegions = OpenRegions /\ ShownPhase = phase
  BY QuietLemma
<1>4. phase \in {"elaborate", "main"}
  BY DEF Inv, Globals
<1> QED
  BY <1>2, <1>3, <1>4 DEF Abstract!Live, Abstract!Depth, Abstract!Current

\* A statement, declarative part or handled sequence begins.
LEMMA EnteringStep ==
  ASSUME Inv, stack' \in Seq(Frame), stack # << >>, pc = "run",
         NEW construct \in Construct, Open(construct),
         Region(construct) = Search!Plain
           \/ \E handles \in HandlerSets : Region(construct) = Search!Handled(handles),
         UNCHANGED << pending, pc, phase >>
  PROVE  Abstract!Next
<1> DEFINE frame == [Current EXCEPT !.open = Append(@, construct)]
<1>1. SetCurrent(frame)
  BY DEF Open
<1>2. Current \in Frame /\ frame.open = Append(Current.open, construct)
  BY CurrentLemma DEF Frame
<1> HIDE DEF frame
<1>3. OpenRegions' = [OpenRegions EXCEPT ![Len(OpenRegions)] = RegionsOf(frame)] /\ frame \in Frame
  BY <1>1, SetRegions
<1>4. RegionsOf(frame) = Append(RegionsOf(Current), Region(construct))
  BY <1>2, <1>3, OpenedRegions
<1>5. Abstract!Enter(Region(construct))
  BY <1>3, <1>4, RunsQuietly, LiveLemma, QuietLemma, LateLemma DEF Abstract!Enter
<1> QED
  BY <1>5, SearchLemma DEF Abstract!Next

\* Constructs end, by falling out of the innermost or exiting a loop.
LEMMA LeavingStep ==
  ASSUME Inv, stack' \in Seq(Frame), stack # << >>, pc = "run",
         NEW frame, SetCurrent(frame),
         NEW m \in 1 .. (Len(Current.open) - 1), Len(frame.open) = m,
         \A i \in 1 .. m : Region(frame.open[i]) = Region(Current.open[i]),
         UNCHANGED << pending, pc, phase >>
  PROVE  Abstract!Next
<1>1. OpenRegions' = [OpenRegions EXCEPT ![Len(OpenRegions)] = RegionsOf(frame)] /\ frame \in Frame
  BY SetRegions
<1>2. Current \in Frame /\ Len(Current.open) \in Nat /\ m \in 0 .. Len(Current.open)
  BY CurrentLemma
<1>3. RegionsOf(frame) = SubSeq(RegionsOf(Current), 1, m)
  BY <1>1, <1>2, LeftRegions
<1>4. m \in 1 .. (Len(RegionsOf(Current)) - 1)
  BY <1>2, RegionsOfLemma
<1>5. Abstract!Leave
  BY <1>1, <1>3, <1>4, RunsQuietly, LiveLemma, QuietLemma, LateLemma DEF Abstract!Leave
<1> QED
  BY <1>5 DEF Abstract!Next

\* What only concerns storage is not shown.
LEMMA StoringLemma ==
  ASSUME Inv, stack' \in Seq(Frame), stack # << >>, ~OnItsWay, pc # "stopped",
         NEW frame, SetCurrent(frame), Len(frame.open) = Len(Current.open),
         \A i \in 1 .. Len(Current.open) : Region(frame.open[i]) = Region(Current.open[i])
  PROVE  OpenRegions' = OpenRegions
<1>1. OpenRegions' = [OpenRegions EXCEPT ![Len(OpenRegions)] = RegionsOf(frame)] /\ frame \in Frame
  BY SetRegions
<1>2. RegionsOf(frame) = RegionsOf(Current)
  BY <1>1, CurrentLemma, SameRegions
<1> QED
  BY <1>1, <1>2, LiveLemma

\* Nor is a step that moves no regions while nothing is pending.
LEMMA IdleStep ==
  ASSUME OpenRegions' = OpenRegions, pending = None, pc # "stopped", pc' # "stopped",
         UNCHANGED << pending, phase >>
  PROVE  UNCHANGED Abstract!vars
BY RunsQuietly, QuietLemma, LateLemma DEF Abstract!vars

\* An exception is from now on shown where it will land.
LEMMA TransferStep ==
  ASSUME ~OnItsWay, pc # "stopped", pc' \notin {"run", "stopped"},
         NEW e \in Exceptions, pending' = e, UNCHANGED phase, NEW from,
         Search!IsHandled(from, e) <=> Search!IsHandled(OpenRegions', e),
         Search!AfterRaise(from, e) = Search!AfterRaise(OpenRegions', e)
  PROVE  Abstract!TransferFrom(from, e)
<1>1. pending' # None
  BY ExceptionAssumption
<1>2. ShownPhase = phase /\ ShownUnhandled = None /\ ShownLate' = None
  BY QuietLemma, LateLemma
<1>3. ShownRegions' = Search!AfterRaise(from, e)
  BY <1>1, PendingLemma
<1>4. CASE Search!IsHandled(from, e)
  <2>1. ShownPhase' = phase /\ ShownUnhandled' = None
    BY <1>1, <1>4, PendingLemma
  <2> QED
    BY <1>2, <1>3, <1>4, <2>1, SearchLemma DEF Abstract!TransferFrom
<1>5. CASE ~Search!IsHandled(from, e)
  <2>1. ShownPhase' = "failed" /\ ShownUnhandled' = e
    BY <1>1, <1>5, PendingLemma
  <2> QED
    BY <1>2, <1>3, <1>5, <2>1, SearchLemma DEF Abstract!TransferFrom
<1> QED
  BY <1>4, <1>5

\* A test where the program is, or behind the call it returns to, meets a late exception.
LEMMA NoticingStep ==
  ASSUME Inv, stack # << >>, pc = "run", pending # None, pc' \notin {"run", "stopped"},
         UNCHANGED << pending, phase >>,
         \/ OpenRegions' = OpenRegions
         \/ OpenRegions' = SubSeq(OpenRegions, 1, Len(OpenRegions) - 1)
  PROVE  Abstract!Next
<1>1. pending \in Exceptions /\ ShownLate = pending
  BY LateLemma DEF Inv, Globals
<1>2. ~OnItsWay
  BY RunsQuietly
<1>3. /\ Abstract!Live /\ ShownRegions = OpenRegions /\ Abstract!Depth = Len(OpenRegions)
  BY <1>2, LiveLemma
<1>4. \A from : OpenRegions' = from => Abstract!TransferFrom(from, pending)
  BY <1>1, <1>2, TransferStep
<1>5. Abstract!Notice
  BY <1>1, <1>3, <1>4 DEF Abstract!Notice
<1> QED
  BY <1>5 DEF Abstract!Next

\* A call, and a return that raises nothing.
LEMMA CallingStep ==
  ASSUME Inv, stack # << >>, pc = "run",
         NEW result \in {"none", "value", "array"}, stack' = Append(stack, NewFrame(result)),
         UNCHANGED << pending, pc, phase >>
  PROVE  Abstract!Next
<1>1. NewFrame(result) \in Frame /\ RegionsOf(NewFrame(result)) = << Search!Plain >>
  <2>1. NewFrame(result) \in Frame
    BY NewFrameLemma DEF FrameInv, Shape
  <2> QED
    BY <2>1 DEF NewFrame, RegionsOf, Region
<1>2. OpenRegions' = Append(OpenRegions, << Search!Plain >>)
  BY <1>1, PushRegions
<1>3. Abstract!Call
  BY <1>2, RunsQuietly, LiveLemma, QuietLemma, LateLemma, SearchLemma DEF Abstract!Call
<1> QED
  BY <1>3 DEF Abstract!Next

\* A return: with an exception pending the caller notices.
LEMMA ReturningStep ==
  ASSUME Inv, stack' \in Seq(Frame), stack # << >>, pc = "run",
         LeaveActivation, UNCHANGED << pending, phase >>
  PROVE  Abstract!Next
<1>1. OpenRegions' = SubSeq(OpenRegions, 1, Len(OpenRegions) - 1) /\ pc' = "landed"
  BY PopRegions DEF LeaveActivation
<1>2. CASE pending = None
  <2>1. Abstract!Return
    BY <1>1, <1>2, RunsQuietly, LiveLemma, QuietLemma, LateLemma DEF Abstract!Return
  <2> QED
    BY <2>1 DEF Abstract!Next
<1>3. CASE pending # None
  BY <1>1, <1>3, NoticingStep
<1> QED
  BY <1>2, <1>3

\* An exception is raised, and the activation left at once if it falls off its end.
LEMMA RaisingStep ==
  ASSUME Inv, stack # << >>, ~OnItsWay, pc # "stopped", pc' \notin {"run", "stopped"},
         NEW e \in Exceptions, pending' = e, UNCHANGED phase,
         Search!IsHandled(OpenRegions, e) <=> Search!IsHandled(OpenRegions', e),
         Search!AfterRaise(OpenRegions, e) = Search!AfterRaise(OpenRegions', e)
  PROVE  Abstract!Raise(e)
<1>1. Abstract!TransferFrom(OpenRegions, e)
  BY TransferStep
<1> QED
  BY <1>1, LiveLemma DEF Abstract!Raise

\* A pending exception is on its way, past what does not handle it.
LEMMA UnwindingStep ==
  ASSUME pending # None, pc \notin {"run", "stopped"}, pc' \notin {"run", "stopped"},
         UNCHANGED << pending, phase >>,
         Search!IsHandled(OpenRegions, pending) <=> Search!IsHandled(OpenRegions', pending),
         Search!AfterRaise(OpenRegions, pending) = Search!AfterRaise(OpenRegions', pending)
  PROVE  UNCHANGED Abstract!vars
<1>1. ShownRegions' = ShownRegions
  BY PendingLemma
<1>2. ShownPhase' = ShownPhase /\ ShownUnhandled' = ShownUnhandled
  BY PendingLemma
<1>3. ShownLate' = ShownLate
  BY LateLemma
<1> QED
  BY <1>1, <1>2, <1>3 DEF Abstract!vars

-----------------------------------------------------------------------------
(* The actions of ordinary code.                                           *)

\* A statement is entered.
LEMMA StartScopeShown == ASSUME Inv, stack' \in Seq(Frame), StartScope PROVE Abstract!Next
<1>1. stack # << >> /\ pc = "run"
  BY DEF StartScope, Running
<1>2. Opened("scope") \in Construct /\ Opened("scope").kind = "scope"
  BY <1>1, OpenedLemma DEF Kinds
<1>3. Region(Opened("scope")) = Search!Plain
  BY <1>2 DEF Region
<1> QED
  BY <1>1, <1>2, <1>3, EnteringStep DEF StartScope

\* A declarative part is entered.
LEMMA StartDeclarationsShown ==
  ASSUME Inv, stack' \in Seq(Frame), StartDeclarations PROVE Abstract!Next
<1>1. stack # << >> /\ pc = "run"
  BY DEF StartDeclarations, Running
<1>2. Opened("decls") \in Construct /\ Opened("decls").kind = "decls"
  BY <1>1, OpenedLemma DEF Kinds
<1>3. Region(Opened("decls")) = Search!Plain
  BY <1>2 DEF Region
<1> QED
  BY <1>1, <1>2, <1>3, EnteringStep DEF StartDeclarations

\* A sequence with handlers is entered.
LEMMA EnterHandledShown ==
  ASSUME Inv, stack' \in Seq(Frame), NEW handles \in HandlerSets, EnterHandled(handles)
  PROVE  Abstract!Next
<1> DEFINE construct == [Opened("handled") EXCEPT !.handles = handles]
<1>1. stack # << >> /\ pc = "run" /\ Open(construct)
  BY DEF EnterHandled, Running
<1>2. Opened("handled") \in Construct /\ Opened("handled").kind = "handled" /\ handles \in SUBSET Exceptions
  BY <1>1, OpenedLemma, ExceptionAssumption DEF Kinds
<1>3. construct \in Construct /\ construct.kind = "handled" /\ construct.handles = handles
  BY <1>2 DEF Construct
<1> HIDE DEF construct
<1>4. Region(construct) = Search!Handled(handles)
  BY <1>3 DEF Region
<1> QED
  BY <1>1, <1>3, <1>4, EnteringStep DEF EnterHandled

\* An activation cut back to its first m constructs.
LEMMA CutShown ==
  ASSUME Inv, stack' \in Seq(Frame), stack # << >>, pc = "run",
         NEW m \in 1 .. (Len(Current.open) - 1), NEW frame, SetCurrent(frame), frame.open = UpTo(m),
         UNCHANGED << pending, pc, phase >>
  PROVE  Abstract!Next
<1>1. Current.open \in Seq(Construct) /\ m \in 0 .. Len(Current.open)
  BY CurrentLemma DEF Frame
<1>2. Len(frame.open) = m /\ \A i \in 1 .. m : frame.open[i] = Current.open[i]
  BY <1>1, FirstLemma DEF UpTo
<1> QED
  BY <1>2, LeavingStep

\* A statement ends.
LEMMA EndScopeShown == ASSUME Inv, stack' \in Seq(Frame), EndScope PROVE Abstract!Next
<1> DEFINE frame == [Rewound(Current, Top) EXCEPT !.open = UpTo(Len(Current.open) - 1)]
<1>1. stack # << >> /\ pc = "run" /\ Top.kind = "scope" /\ SetCurrent(frame)
  BY DEF EndScope, Running
<1>2. Len(Current.open) \in 2 .. Len(Current.open)
  BY <1>1, CurrentLemma, InnerLemma DEF Top
<1>3. frame.open = UpTo(Len(Current.open) - 1)
  BY <1>1, CurrentLemma DEF Frame, Rewound
<1> HIDE DEF frame
<1> QED
  BY <1>1, <1>2, <1>3, CutShown DEF EndScope

\* A sequence with handlers, or a handler, ends.
LEMMA LeaveHandledShown == ASSUME Inv, stack' \in Seq(Frame), LeaveHandled PROVE Abstract!Next
<1> DEFINE frame == [Current EXCEPT !.open = UpTo(Len(Current.open) - 1)]
<1>1. stack # << >> /\ pc = "run" /\ Top.kind \in {"handled", "handler"} /\ SetCurrent(frame)
  BY DEF LeaveHandled, Running
<1>2. Len(Current.open) \in 2 .. Len(Current.open)
  BY <1>1, CurrentLemma, InnerLemma DEF Top
<1>3. frame.open = UpTo(Len(Current.open) - 1)
  BY <1>1, CurrentLemma DEF Frame
<1> HIDE DEF frame
<1> QED
  BY <1>1, <1>2, <1>3, CutShown DEF LeaveHandled

\* An exit statement leaves several constructs at once.
LEMMA ExitLoopShown == ASSUME Inv, stack' \in Seq(Frame), NEW k, ExitLoop(k) PROVE Abstract!Next
<1> DEFINE frame == [Rewound(Current, Current.open[k]) EXCEPT !.open = UpTo(k - 1)]
<1>1. stack # << >> /\ pc = "run" /\ k \in 2 .. (Len(Current.open) - 1) /\ SetCurrent(frame)
  BY DEF ExitLoop, Running
<1>2. k - 1 \in 1 .. (Len(Current.open) - 1)
  BY <1>1, CurrentLemma
<1>3. frame.open = UpTo(k - 1)
  BY <1>1, CurrentLemma DEF Frame, Rewound
<1> HIDE DEF frame
<1> QED
  BY <1>1, <1>2, <1>3, CutShown DEF ExitLoop

\* A declarative part ends.
LEMMA EndDeclarationsShown == ASSUME Inv, stack' \in Seq(Frame), EndDeclarations PROVE Abstract!Next
<1> DEFINE n == Len(Current.open)
           open == [UpTo(n - 1) EXCEPT ![n - 1].arrays = @ \cup Top.arrays]
           frame == [Current EXCEPT !.temp = Rewind(@, Top.temp), !.open = open]
<1>1. stack # << >> /\ pc = "run" /\ Top.kind = "decls" /\ SetCurrent(frame)
  BY DEF EndDeclarations, Running
<1>2. n \in 2 .. n /\ n - 1 \in 1 .. (n - 1) /\ n - 1 \in 0 .. Len(Current.open)
  BY <1>1, CurrentLemma, InnerLemma DEF Top
<1>3. frame.open = open
  BY <1>1, CurrentLemma DEF Frame
<1>4. Current.open \in Seq(Construct)
  BY <1>1, CurrentLemma DEF Frame
<1>5. /\ UpTo(n - 1) \in Seq(Construct) /\ Len(UpTo(n - 1)) = n - 1
      /\ \A i \in 1 .. (n - 1) : UpTo(n - 1)[i] = Current.open[i]
  BY <1>2, <1>4, FirstLemma DEF UpTo
<1> HIDE DEF frame, n
<1>6. Len(open) = n - 1 /\ \A i \in 1 .. (n - 1) : i # n - 1 => open[i] = Current.open[i]
  BY <1>2, <1>5
<1>7. open[n - 1] = [Current.open[n - 1] EXCEPT !.arrays = @ \cup Top.arrays]
  <2>1. PICK front \in Seq(Construct) : front = UpTo(n - 1)
    BY <1>5
  <2>2. n - 1 \in DOMAIN front /\ front[n - 1] = Current.open[n - 1]
    BY <1>2, <1>5, <2>1
  <2>3. open = [front EXCEPT ![n - 1] = [front[n - 1] EXCEPT !.arrays = @ \cup Top.arrays]]
    BY <2>1
  <2> QED
    BY <2>2, <2>3
<1>8. Current.open[n - 1] \in Construct
  BY <1>2, <1>4 DEF n
<1>9. Region(open[n - 1]) = Region(Current.open[n - 1])
  BY <1>7, <1>8 DEF Region, Construct
<1>10. \A i \in 1 .. (n - 1) : Region(frame.open[i]) = Region(Current.open[i])
  BY <1>3, <1>6, <1>9
<1> QED
  BY <1>1, <1>2, <1>3, <1>6, <1>10, LeavingStep DEF EndDeclarations, n

\* A construct at the top that holds other arrays or temporaries.
LEMMA StoredLemma ==
  ASSUME Inv, stack # << >>, NEW open, NEW construct,
         open = [Current.open EXCEPT ![Len(Current.open)] = construct],
         Region(construct) = Region(Top)
  PROVE  /\ Len(open) = Len(Current.open)
         /\ \A i \in 1 .. Len(Current.open) : Region(open[i]) = Region(Current.open[i])
<1>1. Current.open \in Seq(Construct) /\ Len(Current.open) \in Nat \ {0}
  BY CurrentLemma DEF Frame
<1>2. /\ Len(open) = Len(Current.open) /\ open[Len(Current.open)] = construct
      /\ \A i \in 1 .. Len(Current.open) : i # Len(Current.open) => open[i] = Current.open[i]
  BY <1>1
<1> QED
  BY <1>2 DEF Top

\* Storage is no part of what AdaExceptions knows.
LEMMA DeclareRegions ==
  ASSUME Inv, stack' \in Seq(Frame), NEW block, DeclareArray(block)
  PROVE  OpenRegions' = OpenRegions
<1> DEFINE construct == [Top EXCEPT !.arrays = @ \cup {block}]
           open == [Current.open EXCEPT ![Len(Current.open)] = construct]
           frame == [Current EXCEPT !.local = Link(@, block), !.open = open]
<1>1. stack # << >> /\ pc = "run"
  BY DEF DeclareArray, Running
<1>2. Current \in Frame /\ Top \in Construct
  BY <1>1, CurrentLemma
<1>3. SetCurrent(frame)
  BY DEF DeclareArray, Top
<1>4. Region(construct) = Region(Top) /\ frame.open = open
  BY <1>2 DEF Region, Construct, Frame
<1> HIDE DEF construct, frame
<1> QED
  BY <1>1, <1>3, <1>4, RunsQuietly, StoredLemma, StoringLemma

\* A new temporary, of the running statement or adopted from a callee.
LEMMA TemporaryRegions ==
  ASSUME Inv, stack' \in Seq(Frame), stack # << >>, ~OnItsWay, pc # "stopped",
         NEW block, SetCurrent([Current EXCEPT !.temp = Link(@, block),
                                               !.open[Len(Current.open)].values = @ \cup {block}])
  PROVE  OpenRegions' = OpenRegions
<1> DEFINE construct == [Top EXCEPT !.values = @ \cup {block}]
           open == [Current.open EXCEPT ![Len(Current.open)] = construct]
           frame == [Current EXCEPT !.temp = Link(@, block), !.open = open]
<1>1. Current \in Frame /\ Top \in Construct
  BY CurrentLemma
<1>2. SetCurrent(frame)
  BY DEF Top
<1>3. Region(construct) = Region(Top) /\ frame.open = open
  BY <1>1 DEF Region, Construct, Frame
<1> HIDE DEF construct, frame
<1> QED
  BY <1>2, <1>3, StoredLemma, StoringLemma

\* The test of a run time call that raised nothing: no step, or a late exception noticed.
LEMMA TestedStep ==
  ASSUME Inv, stack # << >>, pc = "run", Tested, OpenRegions' = OpenRegions,
         UNCHANGED << pending, phase >>
  PROVE  [Abstract!Next]_(Abstract!vars)
<1>1. CASE pending = None
  BY <1>1, IdleStep DEF Tested
<1>2. CASE pending # None
  BY <1>2, NoticingStep DEF Tested
<1> QED
  BY <1>1, <1>2

\* 'Image raises and nothing notices.
LEMMA RaiseUntestedShown == ASSUME Inv, RaiseUntested PROVE Abstract!RaiseLate
<1>1. /\ stack # << >> /\ pc = "run" /\ pc' = "run" /\ pending' = ConstraintError
      /\ UNCHANGED << stack, phase >>
  BY ExecutingLemma DEF RaiseUntested
<1>2. OpenRegions' = OpenRegions
  BY <1>1 DEF OpenRegions
<1> QED
  BY <1>1, <1>2, RunsQuietly, LiveLemma, QuietLemma, LateLemma DEF Abstract!RaiseLate

\* A procedure ends without a return statement.
LEMMA FallOffEndShown == ASSUME Inv, stack' \in Seq(Frame), FallOffEnd PROVE Abstract!Next
<1>1. stack # << >> /\ pc = "run" /\ ~OnItsWay /\ Top.kind = "frame" /\ LeaveActivation
  BY RunsQuietly DEF FallOffEnd, Running
<1>2. CASE Current.result = "none"
  BY <1>1, <1>2, ReturningStep DEF FallOffEnd
<1>3. CASE Current.result # "none"
  <2>1. pending' = ProgramError /\ ProgramError \in Exceptions /\ pc' = "landed"
    BY <1>3, ExceptionAssumption DEF FallOffEnd, LeaveActivation
  <2>2. \A k \in 1 .. Len(RegionsOf(Current)) : ~Names(RegionsOf(Current)[k], ProgramError)
    <3>1. Len(Current.open) \in Nat \ {0} /\ Current \in Frame
          /\ \A k \in 1 .. Len(Current.open) : Current.open[k].kind = "frame" <=> k = 1
      BY <1>1, CurrentLemma DEF Shape
    <3>2. Len(Current.open) = 1
      <4>1. PICK n \in Nat \ {0} : n = Len(Current.open)
        BY <3>1
      <4>2. n \in 1 .. n /\ Current.open[n].kind = "frame"
        BY <1>1, <4>1 DEF Top
      <4> QED
        BY <3>1, <4>1, <4>2
    <3>3. \A k \in 1 .. Len(RegionsOf(Current)) :
            RegionsOf(Current)[k] = Region(Current.open[k]) /\ Current.open[k] \in Construct
            /\ Current.open[k].kind = "frame"
      BY <3>1, <3>2, RegionsOfLemma
    <3> QED
      BY <3>3, RegionLemma DEF Names
  <2>3. /\ OpenRegions \in Seq(Seq(RegionSet)) /\ OpenRegions # << >>
        /\ OpenRegions[Len(OpenRegions)] = RegionsOf(Current)
    BY <1>1, LiveLemma
  <2>4. OpenRegions' = SubSeq(OpenRegions, 1, Len(OpenRegions) - 1)
    BY <1>1, PopRegions
  <2>5. Alike(OpenRegions, OpenRegions', ProgramError)
    BY <2>2, <2>3, <2>4, ReturnedLemma
  <2>6. OpenRegions' \in Seq(Seq(RegionSet))
    <3>1. PICK now \in Seq(Frame) : now = stack'
      OBVIOUS
    <3>2. Regions(now) \in Seq(Seq(RegionSet)) /\ OpenRegions' = Regions(now)
      BY <3>1, RegionsLemma DEF OpenRegions, Regions
    <3> QED
      BY <3>2
  <2>7. PICK others \in Seq(Seq(RegionSet)) : others = OpenRegions'
    BY <2>6
  <2>8. /\ Search!IsHandled(OpenRegions, ProgramError) <=> Search!IsHandled(OpenRegions', ProgramError)
        /\ Search!AfterRaise(OpenRegions, ProgramError) = Search!AfterRaise(OpenRegions', ProgramError)
    BY <2>3, <2>5, <2>7, AlikeLemma
  <2>9. Abstract!Raise(ProgramError)
    BY <1>1, <2>1, <2>8, RaisingStep DEF FallOffEnd
  <2> QED
    BY <2>1, <2>9 DEF Abstract!Next
<1> QED
  BY <1>2, <1>3

\* An exception raised in place.
LEMMA RaiseShown ==
  ASSUME Inv, stack # << >>, ~OnItsWay, pc # "stopped", NEW e \in Exceptions, NEW itsName,
         RaiseOccurrence(e, itsName), UNCHANGED << stack, phase >>
  PROVE  Abstract!Raise(e) /\ Abstract!Next
<1>1. OpenRegions' = OpenRegions
  BY DEF OpenRegions
<1>2. pending' = e /\ pc' = "unwind"
  BY DEF RaiseOccurrence
<1>3. Abstract!Raise(e)
  BY <1>1, <1>2, RaisingStep
<1> QED
  BY <1>3 DEF Abstract!Next

\* A bare raise raises what the innermost handler caught.
LEMMA ReraiseShown == ASSUME Inv, Reraise PROVE Abstract!Reraise
<1>1. stack # << >> /\ pc = "run" /\ ~OnItsWay
  BY RunsQuietly DEF Reraise, Running
<1>2. PICK k \in DOMAIN Current.open :
        /\ Innermost(k, "handler")
        /\ RaiseOccurrence(Current.open[k].occurrence.id, Current.open[k].occurrence.name)
  BY DEF Reraise, Innermost
<1>3. /\ Current \in Frame /\ DOMAIN Current.open = 1 .. Len(Current.open)
      /\ \A i \in 1 .. Len(Current.open) : WellFormed(Current.open[i])
  BY <1>1, CurrentLemma, ShapeLemma DEF Shape
<1>4. Current.open[k] \in Construct /\ Current.open[k].kind = "handler"
  BY <1>2, <1>3, RegionsOfLemma DEF Innermost
<1>5. Current.open[k].occurrence.id \in Exceptions
  BY <1>2, <1>3, <1>4 DEF WellFormed, Construct, Occurrence
<1>6. Abstract!Raise(Current.open[k].occurrence.id)
  BY <1>1, <1>2, <1>5, RaiseShown DEF Reraise
<1>7. /\ DOMAIN RegionsOf(Current) = 1 .. Len(Current.open) /\ Len(RegionsOf(Current)) = Len(Current.open)
      /\ \A i \in 1 .. Len(Current.open) :
           RegionsOf(Current)[i].kind = "handler" <=> Current.open[i].kind = "handler"
      /\ RegionsOf(Current)[k] = Search!Handler(Current.open[k].occurrence.id)
  BY <1>3, <1>4, RegionsOfLemma, RegionLemma
<1>8. RegionsOf(Current)[k].occurrence = Current.open[k].occurrence.id
  BY <1>7 DEF Search!Handler
<1>9. \A i \in (k + 1) .. Len(Current.open) : Current.open[i].kind # "handler" /\ i \in 1 .. Len(Current.open)
  BY <1>2, <1>3 DEF Innermost
<1>10. Abstract!Live /\ Abstract!Current = RegionsOf(Current)
  BY <1>1, LiveLemma
<1> QED
  BY <1>2, <1>3, <1>4, <1>6, <1>7, <1>8, <1>9, <1>10 DEF Abstract!Reraise

-----------------------------------------------------------------------------
(* The emitted code between a raise and its handler, and main.             *)

\* The innermost handled sequence catches the exception: what the mapping has
\* shown since the raise is what there is now.
LEMMA CatchShown ==
  ASSUME Inv, stack' \in Seq(Frame), NEW k, Dispatch(k), Catch(k)
  PROVE  UNCHANGED Abstract!vars
<1> DEFINE construct == HandlerFor(Current.open[k], Caught)
           frame == [Rewound(Current, Current.open[k]) EXCEPT !.open = Append(UpTo(k - 1), construct)]
<1>1. /\ stack # << >> /\ pc = "unwind" /\ pending # None /\ pending \in Exceptions
      /\ k \in DOMAIN Current.open /\ Current.open[k].kind = "handled"
      /\ \A i \in (k + 1) .. Len(Current.open) : Current.open[i].kind # "handled"
      /\ UNCHANGED phase
  BY DEF Dispatch, Innermost, Inv, Globals, PendingDiscipline
<1>2. pending \in Current.open[k].handles /\ SetCurrent(frame) /\ pending' = None /\ pc' = "run"
  BY DEF Catch
<1>3. /\ Current \in Frame /\ Current.open \in Seq(Construct)
      /\ DOMAIN Current.open = 1 .. Len(Current.open) /\ Len(Current.open) \in Nat
  BY <1>1, CurrentLemma DEF Frame
<1>4. Current.open[k] \in Construct /\ k \in 1 .. Len(Current.open) /\ k - 1 \in 0 .. Len(Current.open)
  BY <1>1, <1>3
<1>5. construct \in Construct /\ Region(construct) = Search!Handler(pending)
  <2>1. Caught \in Occurrence
    BY DEF Caught, Occurrence, Inv, Globals
  <2>2. construct \in Construct /\ construct.kind = "handler" /\ construct.occurrence = Caught
    BY <1>4, <2>1 DEF HandlerFor, Construct, Kinds
  <2> QED
    BY <2>2, RegionLemma DEF Caught
<1>6. frame.open = Append(UpTo(k - 1), construct)
  BY <1>3 DEF Frame, Rewound
<1> HIDE DEF frame, construct
<1>7. frame \in Frame /\ OpenRegions' = [OpenRegions EXCEPT ![Len(OpenRegions)] = RegionsOf(frame)]
  BY <1>1, <1>2, SetRegions
<1>8. RegionsOf(frame) = Append(SubSeq(RegionsOf(Current), 1, k - 1), Search!Handler(pending))
  <2>1. /\ UpTo(k - 1) \in Seq(Construct) /\ Len(UpTo(k - 1)) = k - 1
        /\ \A i \in 1 .. (k - 1) : UpTo(k - 1)[i] = Current.open[i]
    BY <1>3, <1>4, FirstLemma DEF UpTo
  <2>2. PICK cut \in Frame : cut = [Current EXCEPT !.open = UpTo(k - 1)]
    BY <1>3, <2>1, SetOpenLemma
  <2>3. cut.open = UpTo(k - 1)
    BY <1>3, <2>1, <2>2, SetOpenLemma
  <2>4. RegionsOf(cut) = SubSeq(RegionsOf(Current), 1, k - 1)
    <3>1. PICK m \in 0 .. Len(Current.open) : m = k - 1
      BY <1>4
    <3>2. Len(cut.open) = m /\ \A i \in 1 .. m : Region(cut.open[i]) = Region(Current.open[i])
      BY <2>1, <2>3, <3>1
    <3>3. RegionsOf(cut) = SubSeq(RegionsOf(Current), 1, m)
      BY <1>3, <3>2, LeftRegions
    <3> QED
      BY <3>1, <3>3
  <2>5. RegionsOf(frame) = Append(RegionsOf(cut), Region(construct))
    BY <1>5, <1>6, <1>7, <2>3, OpenedRegions
  <2> QED
    BY <1>5, <2>4, <2>5
<1>9. /\ OpenRegions \in Seq(Seq(RegionSet)) /\ OpenRegions # << >>
      /\ OpenRegions[Len(OpenRegions)] = RegionsOf(Current)
  BY <1>1, CurrentLemma, OpenRegionsLemma, RegionsLemma DEF Current
<1>10. /\ k \in 1 .. Len(RegionsOf(Current)) /\ Names(RegionsOf(Current)[k], pending)
       /\ \A j \in (k + 1) .. Len(RegionsOf(Current)) : ~Names(RegionsOf(Current)[j], pending)
  <2>1. /\ Len(RegionsOf(Current)) = Len(Current.open)
        /\ \A i \in 1 .. Len(Current.open) :
             Current.open[i] \in Construct /\ RegionsOf(Current)[i] = Region(Current.open[i])
    BY <1>3, RegionsOfLemma
  <2>2. Names(RegionsOf(Current)[k], pending)
    BY <1>1, <1>2, <1>4, <2>1, RegionLemma DEF Names
  <2>3. \A j \in (k + 1) .. Len(Current.open) : j \in 1 .. Len(Current.open)
    BY <1>4
  <2>4. \A j \in (k + 1) .. Len(Current.open) : ~Names(RegionsOf(Current)[j], pending)
    BY <1>1, <2>1, <2>3, RegionLemma DEF Names
  <2> QED
    BY <1>4, <2>1, <2>2, <2>4
<1>11. /\ Search!IsHandled(OpenRegions, pending)
       /\ Search!AfterRaise(OpenRegions, pending) = OpenRegions'
  <2>1. PICK regions \in Seq(Seq(RegionSet)) : regions = OpenRegions
    BY <1>9
  <2>2. PICK e \in Exceptions : e = pending
    BY <1>1
  <2>3. /\ regions # << >> /\ regions[Len(regions)] = RegionsOf(Current)
        /\ k \in 1 .. Len(regions[Len(regions)])
        /\ Names(regions[Len(regions)][k], e)
    BY <1>9, <1>10, <2>1, <2>2
  <2>4. \A j \in (k + 1) .. Len(regions[Len(regions)]) : ~Names(regions[Len(regions)][j], e)
    BY <1>9, <1>10, <2>1, <2>2
  <2>5. /\ Search!IsHandled(regions, e)
        /\ Search!AfterRaise(regions, e) =
             [regions EXCEPT ![Len(regions)] = Append(SubSeq(@, 1, k - 1), Search!Handler(e))]
    BY <2>3, <2>4, CaughtLemma
  <2> QED
    BY <1>7, <1>8, <1>9, <2>1, <2>2, <2>3, <2>5
<1>12. ShownRegions' = ShownRegions
  BY <1>1, <1>2, <1>11, RunsQuietly, PendingLemma, QuietLemma
<1>13. /\ ShownPhase' = ShownPhase /\ ShownUnhandled' = ShownUnhandled
       /\ ShownLate' = ShownLate
  BY <1>1, <1>2, <1>11, RunsQuietly, PendingLemma, QuietLemma, LateLemma
<1> QED
  BY <1>12, <1>13 DEF Abstract!vars

\* Regions of what is left of the activations.
LEMMA RegionsNext ==
  ASSUME stack' \in Seq(Frame)
  PROVE  OpenRegions' \in Seq(Seq(RegionSet))
<1>1. PICK now \in Seq(Frame) : now = stack'
  OBVIOUS
<1>2. Regions(now) \in Seq(Seq(RegionSet)) /\ OpenRegions' = Regions(now)
  BY <1>1, RegionsLemma DEF OpenRegions, Regions
<1> QED
  BY <1>2

\* It does not: the exception is on its way as before.
LEMMA PassOnShown ==
  ASSUME Inv, stack' \in Seq(Frame), NEW k, Dispatch(k), PassOn(k)
  PROVE  UNCHANGED Abstract!vars
<1> DEFINE frame == [Rewound(Current, Current.open[k]) EXCEPT !.open = UpTo(k - 1)]
<1>1. /\ stack # << >> /\ pc = "unwind" /\ pending # None
      /\ k \in DOMAIN Current.open /\ Current.open[k].kind = "handled"
      /\ \A i \in (k + 1) .. Len(Current.open) : Current.open[i].kind # "handled"
      /\ UNCHANGED phase
  BY DEF Dispatch, Innermost, Inv, Globals, PendingDiscipline
<1>2. pending \notin Current.open[k].handles /\ SetCurrent(frame) /\ UNCHANGED << pending, pc >>
  BY DEF PassOn
<1>3. /\ Current \in Frame /\ Current.open \in Seq(Construct)
      /\ DOMAIN Current.open = 1 .. Len(Current.open) /\ Len(Current.open) \in Nat
  BY <1>1, CurrentLemma DEF Frame
<1>4. k \in 1 .. Len(Current.open) /\ k - 1 \in 0 .. Len(Current.open)
  BY <1>1, <1>3
<1>5. frame.open = UpTo(k - 1)
  BY <1>3 DEF Frame, Rewound
<1> HIDE DEF frame
<1>6. frame \in Frame /\ OpenRegions' = [OpenRegions EXCEPT ![Len(OpenRegions)] = RegionsOf(frame)]
  BY <1>1, <1>2, SetRegions
<1>7. RegionsOf(frame) = SubSeq(RegionsOf(Current), 1, k - 1)
  <2>1. /\ Len(UpTo(k - 1)) = k - 1
        /\ \A i \in 1 .. (k - 1) : UpTo(k - 1)[i] = Current.open[i]
    BY <1>3, <1>4, FirstLemma DEF UpTo
  <2>2. PICK m \in 0 .. Len(Current.open) : m = k - 1
    BY <1>4
  <2>3. Len(frame.open) = m /\ \A i \in 1 .. m : Region(frame.open[i]) = Region(Current.open[i])
    BY <1>5, <2>1, <2>2
  <2>4. RegionsOf(frame) = SubSeq(RegionsOf(Current), 1, m)
    BY <1>3, <1>6, <2>3, LeftRegions
  <2> QED
    BY <2>2, <2>4
<1>8. /\ OpenRegions \in Seq(Seq(RegionSet)) /\ OpenRegions # << >>
      /\ OpenRegions[Len(OpenRegions)] = RegionsOf(Current)
  BY <1>1, CurrentLemma, OpenRegionsLemma, RegionsLemma DEF Current
<1>9. /\ k - 1 \in 0 .. Len(RegionsOf(Current))
      /\ \A j \in (k - 1 + 1) .. Len(RegionsOf(Current)) : ~Names(RegionsOf(Current)[j], pending)
  <2>1. /\ Len(RegionsOf(Current)) = Len(Current.open)
        /\ \A i \in 1 .. Len(Current.open) :
             Current.open[i] \in Construct /\ RegionsOf(Current)[i] = Region(Current.open[i])
    BY <1>3, RegionsOfLemma
  <2>2. ~Names(RegionsOf(Current)[k], pending)
    BY <1>1, <1>2, <1>4, <2>1, RegionLemma DEF Names
  <2>3. \A j \in (k + 1) .. Len(Current.open) : j \in 1 .. Len(Current.open)
    BY <1>4
  <2>4. \A j \in (k + 1) .. Len(Current.open) : ~Names(RegionsOf(Current)[j], pending)
    BY <1>1, <2>1, <2>3, RegionLemma DEF Names
  <2>5. \A j \in (k - 1 + 1) .. Len(Current.open) : j = k \/ j \in (k + 1) .. Len(Current.open)
    BY <1>4
  <2> QED
    BY <1>4, <2>1, <2>2, <2>4, <2>5
<1>10. PICK regions \in Seq(Seq(RegionSet)) : regions = OpenRegions
  BY <1>8
<1>11. PICK others \in Seq(Seq(RegionSet)) : others = OpenRegions'
  BY RegionsNext
<1>12. Alike(regions, others, pending)
  BY <1>6, <1>7, <1>8, <1>9, <1>10, <1>11, TrimmedLemma
<1>13. /\ Search!IsHandled(regions, pending) <=> Search!IsHandled(others, pending)
       /\ Search!AfterRaise(regions, pending) = Search!AfterRaise(others, pending)
  BY <1>12, AlikeLemma
<1> QED
  BY <1>1, <1>2, <1>10, <1>11, <1>13, UnwindingStep

\* Nor does the activation it leaves.
LEMMA PropagateShown ==
  ASSUME Inv, stack' \in Seq(Frame), Propagate
  PROVE  UNCHANGED Abstract!vars
<1>1. /\ stack # << >> /\ pc = "unwind" /\ pending # None
      /\ \A i \in DOMAIN Current.open : Current.open[i].kind # "handled"
      /\ LeaveActivation /\ pc' = "landed" /\ UNCHANGED << pending, phase >>
  BY DEF Propagate, LeaveActivation, Inv, Globals, PendingDiscipline
<1>2. Current \in Frame /\ DOMAIN Current.open = 1 .. Len(Current.open)
  BY <1>1, CurrentLemma DEF Frame
<1>3. /\ OpenRegions \in Seq(Seq(RegionSet)) /\ OpenRegions # << >>
      /\ OpenRegions[Len(OpenRegions)] = RegionsOf(Current)
  BY <1>1, CurrentLemma, OpenRegionsLemma, RegionsLemma DEF Current
<1>4. \A k \in 1 .. Len(RegionsOf(Current)) : ~Names(RegionsOf(Current)[k], pending)
  <2>1. \A k \in 1 .. Len(RegionsOf(Current)) :
          /\ RegionsOf(Current)[k] = Region(Current.open[k]) /\ Current.open[k] \in Construct
          /\ Current.open[k].kind # "handled"
    BY <1>1, <1>2, RegionsOfLemma
  <2> QED
    BY <2>1, RegionLemma DEF Names
<1>5. OpenRegions' = SubSeq(OpenRegions, 1, Len(OpenRegions) - 1)
  BY <1>1, PopRegions
<1>6. PICK regions \in Seq(Seq(RegionSet)) : regions = OpenRegions
  BY <1>3
<1>7. PICK others \in Seq(Seq(RegionSet)) : others = OpenRegions'
  BY RegionsNext
<1>8. Alike(regions, others, pending)
  BY <1>3, <1>4, <1>5, <1>6, <1>7, ReturnedLemma
<1>9. /\ Search!IsHandled(regions, pending) <=> Search!IsHandled(others, pending)
      /\ Search!AfterRaise(regions, pending) = Search!AfterRaise(others, pending)
  BY <1>8, AlikeLemma
<1> QED
  BY <1>1, <1>6, <1>7, <1>9, UnwindingStep

\* The test behind a call sees what there is, and nothing else happens.
LEMMA TestShown ==
  ASSUME CheckAfterCall \/ Resume
  PROVE  UNCHANGED Abstract!vars
<1>1. UNCHANGED << stack, pending, phase >>
  BY DEF CheckAfterCall, Resume
<1>2. OpenRegions' = OpenRegions
  BY <1>1 DEF OpenRegions
<1>3. CASE Resume
  BY <1>1, <1>2, <1>3, IdleStep DEF Resume
<1>4. CASE CheckAfterCall
  <2>1. pending # None /\ pc = "landed" /\ pc' = "unwind"
    BY <1>4 DEF CheckAfterCall, Tested
  <2> QED
    BY <1>1, <1>2, <2>1, UnwindingStep
<1> QED
  BY <1>3, <1>4

\* No activation is left to handle anything.
LEMMA NothingOpen ==
  ASSUME stack = << >>
  PROVE  OpenRegions = << >> /\ \A e : ~Search!IsHandled(OpenRegions, e)
<1>1. OpenRegions = << >> /\ DOMAIN OpenRegions = {}
  BY DEF OpenRegions
<1> QED
  BY <1>1 DEF Search!IsHandled, Search!Candidates

\* The main procedure is called after the elaboration.
LEMMA StartMainShown == ASSUME Inv, StartMain PROVE Abstract!Next
<1>1. /\ pending = None /\ pending' = None /\ stack = << >> /\ phase = "elaborate" /\ phase' = "main"
      /\ pc = "landed" /\ pc' = "run" /\ stack' = << NewFrame("none") >>
  BY DEF StartMain
<1>2. OpenRegions' = << << Search!Plain >> >>
  <2>1. RegionsOf(NewFrame("none")) = << Search!Plain >>
    BY DEF NewFrame, RegionsOf, Region
  <2> QED
    BY <1>1, <2>1 DEF OpenRegions
<1>3. ShownRegions = << >>
  BY <1>1, NothingOpen, RunsQuietly, QuietLemma
<1>4. Abstract!StartMain
  BY <1>1, <1>2, <1>3, RunsQuietly, QuietLemma, LateLemma, SearchLemma DEF Abstract!StartMain
<1> QED
  BY <1>4 DEF Abstract!Next

\* The process ends, with or without an exception that nothing handled.
LEMMA StopShown == ASSUME Inv, Stop PROVE [Abstract!Next]_(Abstract!vars)
<1>1. /\ stack = << >> /\ UNCHANGED << pending, stack, phase >> /\ pc = "landed" /\ pc' = "stopped"
      /\ phase = "main" \/ pending # None
  BY DEF Stop
<1>2. OpenRegions = << >> /\ OpenRegions' = OpenRegions
  BY <1>1, NothingOpen DEF OpenRegions
<1>3. CASE pending = None
  <2>1. Abstract!Complete
    BY <1>1, <1>2, <1>3, RunsQuietly, QuietLemma, LateLemma DEF Abstract!Complete
  <2> QED
    BY <2>1 DEF Abstract!Next
<1>4. CASE pending # None
  <2>1. ~Search!IsHandled(OpenRegions, pending) /\ ~Search!IsHandled(OpenRegions', pending')
    BY <1>1, <1>2, NothingOpen
  <2> QED
    BY <1>1, <1>2, <1>4, <2>1, PendingLemma, LateLemma DEF Abstract!vars
<1> QED
  BY <1>3, <1>4

-----------------------------------------------------------------------------

\* The initial states are those of AdaExceptions.
LEMMA InitShown == Init => Abstract!Init
<1> SUFFICES ASSUME Init PROVE Abstract!Init
  OBVIOUS
<1>1. pending = None /\ pc # "stopped" /\ phase = "elaborate" /\ stack = << NewFrame("none") >>
  BY DEF Init
<1>2. OpenRegions = << << Search!Plain >> >>
  <2>1. RegionsOf(NewFrame("none")) = << Search!Plain >>
    BY DEF NewFrame, RegionsOf, Region
  <2> QED
    BY <1>1, <2>1 DEF OpenRegions
<1> QED
  BY <1>1, <1>2, RunsQuietly, QuietLemma, LateLemma, SearchLemma DEF Abstract!Init

\* Every step is one of AdaExceptions or none.
LEMMA NextShown == Inv /\ MainResult /\ [Next]_vars => [Abstract!Next]_(Abstract!vars)
<1> SUFFICES ASSUME Inv, MainResult, [Next]_vars PROVE [Abstract!Next]_(Abstract!vars)
  OBVIOUS
<1>1. CASE UNCHANGED vars
  <2>1. UNCHANGED << stack, pending, phase, pc >>
    BY <1>1 DEF vars
  <2>2. OpenRegions' = OpenRegions
    BY <2>1 DEF OpenRegions
  <2>3. Doomed' = Doomed
    BY <2>1, <2>2 DEF Doomed, OnItsWay
  <2> QED
    BY <2>1, <2>2, <2>3
       DEF Abstract!vars, ShownRegions, ShownPhase, ShownUnhandled, ShownLate, OnItsWay
<1>2. ASSUME Next PROVE stack' \in Seq(Frame)
  BY <1>2, NextStep DEF Inv, Activations
<1>3. CASE StartScope BY <1>2, <1>3, StartScopeShown DEF Next
<1>4. CASE EndScope BY <1>2, <1>4, EndScopeShown DEF Next
<1>5. CASE StartDeclarations BY <1>2, <1>5, StartDeclarationsShown DEF Next
<1>6. CASE EndDeclarations BY <1>2, <1>6, EndDeclarationsShown DEF Next
<1>7. CASE \E handles \in HandlerSets : EnterHandled(handles)
  BY <1>2, <1>7, EnterHandledShown DEF Next
<1>8. CASE LeaveHandled BY <1>2, <1>8, LeaveHandledShown DEF Next
<1>9. CASE \E k \in 1 .. MaxOpen : ExitLoop(k)
  BY <1>2, <1>9, ExitLoopShown DEF Next
<1>10. CASE \E block \in Blocks : DeclareArray(block)
  <2>1. PICK block \in Blocks : DeclareArray(block)
    BY <1>10
  <2>2. OpenRegions' = OpenRegions
    BY <1>2, <1>10, <2>1, DeclareRegions DEF Next
  <2>3. stack # << >> /\ pc = "run" /\ Tested /\ UNCHANGED << pending, phase >>
    BY <2>1 DEF DeclareArray, Running
  <2> QED
    BY <2>2, <2>3, TestedStep
<1>11. CASE \E block \in Blocks : AllocateTemporary(block)
  <2>1. PICK block \in Blocks : AllocateTemporary(block)
    BY <1>11
  <2>2. stack # << >> /\ pc = "run" /\ Tested /\ UNCHANGED << pending, phase >>
    BY <2>1 DEF AllocateTemporary, Executing, Running
  <2>3. OpenRegions' = OpenRegions
    BY <1>2, <1>11, <2>1, <2>2, RunsQuietly, TemporaryRegions DEF AllocateTemporary, Next
  <2> QED
    BY <2>2, <2>3, TestedStep
<1>12. CASE AllocationFails
  <2>1. stack # << >> /\ pc = "run" /\ UNCHANGED << stack, phase >>
    BY <1>12 DEF AllocationFails, Executing, Running
  <2> QED
    BY <1>12, <2>1, RunsQuietly, RaiseShown, ExceptionAssumption DEF AllocationFails
<1>13. CASE \E result \in { "none", "value", "array" } : Call(result)
  <2>1. PICK result \in { "none", "value", "array" } : Call(result)
    BY <1>13
  <2>2. stack # << >> /\ pc = "run"
    BY <2>1 DEF Call, Executing, Running
  <2> QED
    BY <2>1, <2>2, CallingStep DEF Call
<1>14. CASE Return
  <2>1. stack # << >> /\ pc = "run"
    BY <1>14 DEF Return, Running
  <2> QED
    BY <1>2, <1>14, <2>1, ReturningStep DEF Return, Next
<1>15. CASE \E block \in Blocks : ReturnArray(block)
  <2>1. PICK block \in Blocks : ReturnArray(block)
    BY <1>15
  <2>2. stack # << >> /\ pc = "run"
    BY <2>1 DEF ReturnArray, Running
  <2> QED
    BY <1>2, <1>15, <2>1, <2>2, ReturningStep DEF ReturnArray, Next
<1>16. CASE FallOffEnd BY <1>2, <1>16, FallOffEndShown DEF Next
<1>17. CASE \E exception \in Exceptions : Raise(exception)
  <2>1. PICK exception \in Exceptions : Raise(exception)
    BY <1>17
  <2>2. stack # << >> /\ pc = "run" /\ UNCHANGED << stack, phase >>
    BY <2>1 DEF Raise, Executing, Running
  <2> QED
    BY <2>1, <2>2, RunsQuietly, RaiseShown DEF Raise
<1>18. CASE Reraise
  BY <1>18, ReraiseShown DEF Abstract!Next
<1>20. CASE RaiseUntested
  BY <1>20, RaiseUntestedShown DEF Abstract!Next
<1>21. CASE Test \/ \E block \in Blocks : LoseResult(block)
  <2>1. stack # << >> /\ pc = "run" /\ Tested /\ UNCHANGED << stack, pending, phase >>
    BY <1>21, ExecutingLemma DEF Test, LoseResult, Running
  <2>2. OpenRegions' = OpenRegions
    BY <2>1 DEF OpenRegions
  <2> QED
    BY <2>1, <2>2, TestedStep
<1>19. CASE Machine
  <2>1. stack' \in Seq(Frame)
    BY <1>2, <1>19 DEF Next
  <2>2. CASE \E k \in 1 .. MaxOpen : Dispatch(k)
    <3>1. PICK k \in 1 .. MaxOpen : Dispatch(k)
      BY <2>2
    <3>2. Catch(k) \/ PassOn(k)
      BY <3>1 DEF Dispatch
    <3> QED
      BY <2>1, <3>1, <3>2, CatchShown, PassOnShown
  <2>3. CASE Propagate BY <2>1, <2>3, PropagateShown
  <2>4. CASE CheckAfterCall BY <2>4, TestShown
  <2>5. CASE Resume BY <2>5, TestShown
  <2>6. CASE AdoptResult
    <3>1. OpenRegions' = OpenRegions
      BY <2>1, <2>6, RunsQuietly, TemporaryRegions DEF AdoptResult
    <3> QED
      BY <2>6, <3>1, IdleStep DEF AdoptResult
  <2>7. CASE AdoptionFails
    BY <2>7, RunsQuietly, RaiseShown, ExceptionAssumption DEF AdoptionFails
  <2>8. CASE StartMain BY <2>8, StartMainShown
  <2>9. CASE Stop BY <2>9, StopShown
  <2> QED
    BY <1>19, <2>2, <2>3, <2>4, <2>5, <2>6, <2>7, <2>8, <2>9 DEF Machine
<1> QED
  BY <1>1, <1>3, <1>4, <1>5, <1>6, <1>7, <1>8, <1>9, <1>10, <1>11, <1>12,
     <1>13, <1>14, <1>15, <1>16, <1>17, <1>18, <1>19, <1>20, <1>21 DEF Next

(***************************************************************************)
(* The flag, the tests behind calls, the dispatch code and the propagating *)
(* returns deliver every exception to the handler the language names, or   *)
(* end the program with it, at any depth of calls and constructs; that of  *)
(* an untested 'Image to the handler the language would name for the place *)
(* of the next test.                                                       *)
(***************************************************************************)
THEOREM ExceptionsAreDelivered == Spec => DeliversExceptions
<1>1. Init => Abstract!Init
  BY InitShown
<1>2. Inv /\ MainResult /\ [Next]_vars => [Abstract!Next]_(Abstract!vars)
  BY NextShown
<1> QED
  BY <1>1, <1>2, InvHolds, PTL DEF Spec, DeliversExceptions, Abstract!Spec

(* A bare raise is the bare raise of the language, not just some raise: its
   exception is the one the innermost handler of the activation has caught. *)
THEOREM BareRaiseRaisesWhatWasCaught == Spec => [][Reraise => Abstract!Reraise]_vars
<1>1. Inv /\ MainResult => (Reraise => Abstract!Reraise)
  BY ReraiseShown
<1> QED
  BY <1>1, InvHolds, PTL DEF Spec

=============================================================================
