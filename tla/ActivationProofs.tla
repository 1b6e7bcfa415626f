-------------------------- MODULE ActivationProofs --------------------------
(***************************************************************************)
(* The invariants of Activation, for any number of blocks, exceptions,     *)
(* activations and nested constructs.  First what linking and rewinding do *)
(* to an allocation list, for lists and checkpoints of any length, and     *)
(* what opening and leaving constructs does to an activation, whose open   *)
(* constructs bracket its two lists; then all activations together.        *)
(***************************************************************************)
EXTENDS Activation, SequenceTheorems, TLAPS

-----------------------------------------------------------------------------
(* Lists and brackets. *)

(* A list an activation can hold: blocks, none of them twice. *)
IsOwner(owner) == owner \in Seq(Blocks) /\ Distinct(owner)

(* A live checkpoint has exactly one place in the list. *)
LEMMA PositionLemma ==
  ASSUME NEW owner, IsOwner(owner), NEW mark, Live(owner, mark)
  PROVE  /\ Position(owner, mark) \in 0 .. Len(owner)
         /\ mark # NoBlock => /\ Position(owner, mark) \in 1 .. Len(owner)
                              /\ owner[Position(owner, mark)] = mark
         /\ mark = NoBlock => Position(owner, mark) = 0
<1>1. CASE mark = NoBlock
  BY <1>1 DEF Position, IsOwner
<1>2. CASE mark # NoBlock
  <2>1. PICK i \in 1 .. Len(owner) : owner[i] = mark
    BY <1>2 DEF Live, Held
  <2>2. LET p == CHOOSE j \in 1 .. Len(owner) : owner[j] = mark
        IN  p \in 1 .. Len(owner) /\ owner[p] = mark
    BY <2>1
  <2> QED
    BY <1>2, <2>2 DEF Position, IsOwner
<1> QED
  BY <1>1, <1>2

(* The place is determined by the block found there. *)
LEMMA PositionUnique ==
  ASSUME NEW owner, IsOwner(owner), NEW i \in 1 .. Len(owner)
  PROVE  /\ Live(owner, owner[i])
         /\ Position(owner, owner[i]) = i
<1>1. owner[i] \in Held(owner) /\ owner[i] \in Blocks
  BY DEF Held, IsOwner
<1>2. Live(owner, owner[i]) /\ owner[i] # NoBlock
  BY <1>1, NoBlockAssumption DEF Live
<1>3. /\ Position(owner, owner[i]) \in 1 .. Len(owner)
      /\ owner[Position(owner, owner[i])] = owner[i]
  BY <1>2, PositionLemma
<1> QED
  BY <1>2, <1>3 DEF IsOwner, Distinct

(* A checkpoint taken now is the end of the list. *)
LEMMA CheckpointLemma ==
  ASSUME NEW owner, IsOwner(owner)
  PROVE  /\ Live(owner, Checkpoint(owner))
         /\ Checkpoint(owner) \in Blocks \cup {NoBlock}
         /\ Position(owner, Checkpoint(owner)) = Len(owner)
<1>1. CASE owner = << >>
  BY <1>1 DEF Checkpoint, Live, Position
<1>2. CASE owner # << >>
  <2>1. Len(owner) \in 1 .. Len(owner) /\ owner[Len(owner)] \in Blocks
    BY <1>2, EmptySeq DEF IsOwner
  <2> QED
    BY <1>2, <2>1, PositionUnique DEF Checkpoint
<1> QED
  BY <1>1, <1>2

(* __ada_array_local: the new node is the last place, the others keep theirs,
   so checkpoints taken before stay good. *)
LEMMA LinkLemma ==
  ASSUME NEW owner, IsOwner(owner),
         NEW block \in Blocks, block \notin Held(owner)
  PROVE  /\ IsOwner(Link(owner, block))
         /\ Len(Link(owner, block)) = Len(owner) + 1
         /\ Held(Link(owner, block)) = Held(owner) \cup {block}
         /\ \A mark : Live(owner, mark) =>
              /\ Live(Link(owner, block), mark)
              /\ Position(Link(owner, block), mark) = Position(owner, mark)
<1> DEFINE linked == Link(owner, block)
<1>1. /\ linked \in Seq(Blocks)
      /\ Len(linked) = Len(owner) + 1
      /\ \A i \in 1 .. Len(owner) : linked[i] = owner[i]
      /\ linked[Len(owner) + 1] = block
  BY DEF Link, IsOwner
<1>2. Len(owner) \in Nat
  BY DEF IsOwner
<1>3. Held(linked) = Held(owner) \cup {block}
  <2>1. 1 .. Len(linked) = (1 .. Len(owner)) \cup {Len(owner) + 1}
    BY <1>1, <1>2
  <2> QED
    BY <1>1, <2>1 DEF Held
<1>4. Distinct(linked)
  <2> SUFFICES ASSUME NEW i \in 1 .. Len(linked), NEW j \in 1 .. Len(linked),
                      linked[i] = linked[j]
               PROVE  i = j
    BY DEF Distinct
  <2>1. \A k \in 1 .. Len(owner) : owner[k] # block
    BY DEF Held
  <2> QED
    BY <1>1, <1>2, <2>1 DEF IsOwner, Distinct
<1>5. IsOwner(linked)
  BY <1>1, <1>4 DEF IsOwner
<1>6. ASSUME NEW mark, Live(owner, mark)
      PROVE  /\ Live(linked, mark)
             /\ Position(linked, mark) = Position(owner, mark)
  <2>1. Live(linked, mark)
    BY <1>3, <1>6 DEF Live
  <2>2. CASE mark = NoBlock
    BY <2>1, <2>2 DEF Position
  <2>3. CASE mark # NoBlock
    <3>1. /\ Position(owner, mark) \in 1 .. Len(owner)
          /\ owner[Position(owner, mark)] = mark
      BY <1>6, <2>3, PositionLemma
    <3>2. /\ Position(owner, mark) \in 1 .. Len(linked)
          /\ linked[Position(owner, mark)] = mark
      BY <1>1, <1>2, <3>1
    <3> QED
      BY <1>5, <2>1, <3>2, PositionUnique
  <2> QED
    BY <2>1, <2>2, <2>3
<1> HIDE DEF linked
<1> QED
  BY <1>1, <1>3, <1>5, <1>6 DEF linked

(* __ada_array_rewind: exactly the nodes behind the checkpoint are freed, and
   checkpoints that are not behind it stay good and keep their place. *)
LEMMA RewindLemma ==
  ASSUME NEW owner, IsOwner(owner), NEW mark, Live(owner, mark)
  PROVE  /\ IsOwner(Rewind(owner, mark))
         /\ Len(Rewind(owner, mark)) = Position(owner, mark)
         /\ Held(Rewind(owner, mark)) = Held(owner) \ Freed(owner, mark)
         /\ Freed(owner, mark) \subseteq Held(owner)
         /\ \A other : /\ Live(owner, other)
                       /\ Position(owner, other) <= Position(owner, mark)
                       => /\ Live(Rewind(owner, mark), other)
                          /\ Position(Rewind(owner, mark), other)
                               = Position(owner, other)
<1> DEFINE p == Position(owner, mark)
           kept == Rewind(owner, mark)
<1>1. p \in 0 .. Len(owner) /\ Len(owner) \in Nat
  BY PositionLemma DEF IsOwner
<1>2. /\ kept \in Seq(Blocks)
      /\ Len(kept) = p
      /\ \A i \in 1 .. p : kept[i] = owner[i]
  BY <1>1 DEF Rewind, IsOwner
<1>3. IsOwner(kept)
  BY <1>1, <1>2 DEF IsOwner, Distinct
<1>4. Held(kept) = { owner[i] : i \in 1 .. p }
  BY <1>2 DEF Held
<1>5. Freed(owner, mark) = { owner[i] : i \in (p + 1) .. Len(owner) }
  BY DEF Freed
<1>6. Freed(owner, mark) \subseteq Held(owner)
  BY <1>1, <1>5 DEF Held
<1>7. Held(kept) = Held(owner) \ Freed(owner, mark)
  <2>1. ASSUME NEW i \in 1 .. p, NEW j \in (p + 1) .. Len(owner)
        PROVE  owner[i] # owner[j]
    BY <1>1 DEF IsOwner, Distinct
  <2>2. Held(kept) \subseteq Held(owner) \ Freed(owner, mark)
    BY <1>1, <1>4, <1>5, <2>1 DEF Held
  <2>3. Held(owner) \ Freed(owner, mark) \subseteq Held(kept)
    <3>1. ASSUME NEW i \in 1 .. Len(owner), owner[i] \notin Freed(owner, mark)
          PROVE  owner[i] \in Held(kept)
      <4>1. i \notin (p + 1) .. Len(owner)
        BY <1>5, <3>1
      <4>2. i \in 1 .. p
        BY <1>1, <4>1
      <4> QED
        BY <1>4, <4>2
    <3>2. \A x \in Held(owner) : \E i \in 1 .. Len(owner) : x = owner[i]
      BY DEF Held
    <3> QED
      BY <3>1, <3>2
  <2> QED
    BY <2>2, <2>3
<1>8. ASSUME NEW other, Live(owner, other), Position(owner, other) <= p
      PROVE  Live(kept, other) /\ Position(kept, other) = Position(owner, other)
  <2>1. CASE other = NoBlock
    BY <2>1 DEF Live, Position
  <2>2. CASE other # NoBlock
    <3>1. /\ Position(owner, other) \in 1 .. Len(owner)
          /\ owner[Position(owner, other)] = other
      BY <1>8, <2>2, PositionLemma
    <3>2. /\ Position(owner, other) \in 1 .. Len(kept)
          /\ kept[Position(owner, other)] = other
      BY <1>1, <1>2, <1>8, <3>1
    <3> QED
      BY <1>3, <3>2, PositionUnique
  <2> QED
    BY <2>1, <2>2
<1> HIDE DEF p, kept
<1> QED
  BY <1>2, <1>3, <1>6, <1>7, <1>8 DEF p, kept

(* After a rewind the head of the list is the checkpoint. *)
LEMMA CheckpointOfRewindLemma ==
  ASSUME NEW owner, IsOwner(owner), NEW mark, Live(owner, mark)
  PROVE  Checkpoint(Rewind(owner, mark)) = mark
<1> DEFINE p == Position(owner, mark)
           kept == Rewind(owner, mark)
<1>1. p \in 0 .. Len(owner) /\ Len(owner) \in Nat
  BY PositionLemma DEF IsOwner
<1>2. /\ kept \in Seq(Blocks)
      /\ Len(kept) = p
      /\ \A i \in 1 .. p : kept[i] = owner[i]
  BY <1>1 DEF Rewind, IsOwner
<1>3. CASE mark = NoBlock
  BY <1>2, <1>3, PositionLemma, EmptySeq DEF Checkpoint
<1>4. CASE mark # NoBlock
  <2>1. p \in 1 .. Len(owner) /\ owner[p] = mark
    BY <1>4, PositionLemma
  <2>2. kept # << >> /\ kept[Len(kept)] = mark
    BY <1>1, <1>2, <2>1
  <2> QED
    BY <2>2 DEF Checkpoint
<1> QED
  BY <1>3, <1>4

(* Rewinding twice is rewinding once, to the older checkpoint. *)
LEMMA RewindTwiceLemma ==
  ASSUME NEW owner, IsOwner(owner),
         NEW mark, Live(owner, mark), NEW older, Live(owner, older),
         Position(owner, older) <= Position(owner, mark)
  PROVE  Held(Rewind(Rewind(owner, mark), older)) = Held(Rewind(owner, older))
<1> DEFINE kept == Rewind(owner, mark)
           p == Position(owner, older)
<1>1. /\ Position(owner, mark) \in 0 .. Len(owner) /\ p \in 0 .. Len(owner)
      /\ p <= Position(owner, mark) /\ Len(owner) \in Nat
  BY PositionLemma DEF IsOwner
<1>2. /\ kept \in Seq(Blocks)
      /\ Len(kept) = Position(owner, mark)
      /\ \A i \in 1 .. Len(kept) : kept[i] = owner[i]
  BY <1>1 DEF Rewind, IsOwner
<1>3. Position(kept, older) = p
  BY RewindLemma
<1>4. /\ Len(Rewind(kept, older)) = p
      /\ \A i \in 1 .. p : Rewind(kept, older)[i] = owner[i]
  BY <1>1, <1>2, <1>3 DEF Rewind
<1>5. /\ Len(Rewind(owner, older)) = p
      /\ \A i \in 1 .. p : Rewind(owner, older)[i] = owner[i]
  BY <1>1 DEF Rewind, IsOwner
<1> QED
  BY <1>4, <1>5 DEF Held

(* Linking a node does not change what an earlier checkpoint leaves. *)
LEMMA RewindLinkLemma ==
  ASSUME NEW owner, IsOwner(owner), NEW mark, Live(owner, mark),
         NEW block \in Blocks, block \notin Held(owner)
  PROVE  Held(Rewind(Link(owner, block), mark)) = Held(Rewind(owner, mark))
<1> DEFINE p == Position(owner, mark)
           linked == Link(owner, block)
<1>1. p \in 0 .. Len(owner) /\ Len(owner) \in Nat
  BY PositionLemma DEF IsOwner
<1>2. /\ linked \in Seq(Blocks)
      /\ Len(linked) = Len(owner) + 1
      /\ \A i \in 1 .. Len(owner) : linked[i] = owner[i]
  BY DEF Link, IsOwner
<1>3. Position(linked, mark) = p
  BY LinkLemma
<1>4. /\ Len(Rewind(linked, mark)) = p
      /\ \A i \in 1 .. p : Rewind(linked, mark)[i] = owner[i]
  BY <1>1, <1>2, <1>3 DEF Rewind
<1>5. /\ Len(Rewind(owner, mark)) = p
      /\ \A i \in 1 .. p : Rewind(owner, mark)[i] = owner[i]
  BY <1>1 DEF Rewind, IsOwner
<1> QED
  BY <1>4, <1>5 DEF Held

-----------------------------------------------------------------------------

(***************************************************************************)
(* A list with n brackets open on it: marks[i] is the checkpoint bracket i *)
(* was opened with and holdings[i] are the blocks linked for it.  Rewinding*)
(* to a bracket's checkpoint leaves what the brackets around it hold.      *)
(***************************************************************************)
Bracketed(n, owner, marks, holdings) ==
  /\ IsOwner(owner)
  /\ \A i \in 1 .. n : Live(owner, marks[i])
  /\ \A i, j \in 1 .. n :
        i < j => Position(owner, marks[i]) <= Position(owner, marks[j])
  /\ \A i \in 1 .. n :
        Held(Rewind(owner, marks[i])) = UNION { holdings[k] : k \in 1 .. (i - 1) }
  /\ Held(owner) = UNION { holdings[k] : k \in 1 .. n }

(* The first n entries of two bracket descriptions are the same. *)
Agree(n, f, g) == \A i \in 1 .. n : f[i] = g[i]

(* Nothing in Bracketed looks past the first n brackets. *)
LEMMA AgreeLemma ==
  ASSUME NEW n \in Nat, NEW owner, NEW marks, NEW holdings,
         NEW marks2, NEW holdings2,
         Agree(n, marks, marks2), Agree(n, holdings, holdings2),
         Bracketed(n, owner, marks, holdings)
  PROVE  Bracketed(n, owner, marks2, holdings2)
<1>1. \A i \in 1 .. n : marks[i] = marks2[i] /\ holdings[i] = holdings2[i]
  BY DEF Agree
<1>2. ASSUME NEW i \in 1 .. n
      PROVE  UNION { holdings2[k] : k \in 1 .. (i - 1) }
             = UNION { holdings[k] : k \in 1 .. (i - 1) }
  <2>1. \A k \in 1 .. (i - 1) : holdings2[k] = holdings[k]
    BY <1>1
  <2> QED
    BY <2>1
<1>3. UNION { holdings2[k] : k \in 1 .. n } = UNION { holdings[k] : k \in 1 .. n }
  BY <1>1
<1> QED
  BY <1>1, <1>2, <1>3 DEF Bracketed

(* A bracket opened now holds nothing yet. *)
LEMMA OpenBracketLemma ==
  ASSUME NEW n \in Nat, NEW owner, NEW marks, NEW holdings,
         Bracketed(n, owner, marks, holdings),
         NEW marks2, NEW holdings2,
         Agree(n, marks, marks2), Agree(n, holdings, holdings2),
         marks2[n + 1] = Checkpoint(owner), holdings2[n + 1] = {}
  PROVE  Bracketed(n + 1, owner, marks2, holdings2)
<1>1. Bracketed(n, owner, marks2, holdings2)
  BY AgreeLemma
<1>2. IsOwner(owner)
  BY DEF Bracketed
<1>3. /\ Live(owner, marks2[n + 1])
      /\ Position(owner, marks2[n + 1]) = Len(owner)
  BY <1>2, CheckpointLemma
<1>4. Held(Rewind(owner, marks2[n + 1])) = Held(owner)
  <2>1. Len(owner) \in Nat
    BY <1>2 DEF IsOwner
  <2>2. /\ Len(Rewind(owner, marks2[n + 1])) = Len(owner)
        /\ \A i \in 1 .. Len(owner) : Rewind(owner, marks2[n + 1])[i] = owner[i]
    BY <1>2, <1>3, <2>1 DEF Rewind, IsOwner
  <2> QED
    BY <2>2 DEF Held
<1>5. UNION { holdings2[k] : k \in 1 .. (n + 1) }
      = UNION { holdings2[k] : k \in 1 .. n }
  <2>1. 1 .. (n + 1) = (1 .. n) \cup {n + 1}
    OBVIOUS
  <2> QED
    BY <2>1
<1>6. \A i \in 1 .. n : Position(owner, marks2[i]) \in 0 .. Len(owner)
  BY <1>1, <1>2, PositionLemma DEF Bracketed
<1>7. \A i \in 1 .. (n + 1) : i \in 1 .. n \/ i = n + 1
  OBVIOUS
<1>8. \A i \in 1 .. (n + 1) : Live(owner, marks2[i])
  BY <1>1, <1>3, <1>7 DEF Bracketed
<1>9. \A i, j \in 1 .. (n + 1) :
        i < j => Position(owner, marks2[i]) <= Position(owner, marks2[j])
  <2> SUFFICES ASSUME NEW i \in 1 .. (n + 1), NEW j \in 1 .. (n + 1), i < j
               PROVE  Position(owner, marks2[i]) <= Position(owner, marks2[j])
    OBVIOUS
  <2>1. i \in 1 .. n
    OBVIOUS
  <2>2. CASE j \in 1 .. n
    BY <1>1, <2>1, <2>2 DEF Bracketed
  <2>3. CASE j = n + 1
    BY <1>3, <1>6, <2>1, <2>3
  <2> QED
    BY <1>7, <2>2, <2>3
<1>10. \A i \in 1 .. (n + 1) :
         Held(Rewind(owner, marks2[i])) = UNION { holdings2[k] : k \in 1 .. (i - 1) }
  <2> SUFFICES ASSUME NEW i \in 1 .. (n + 1)
               PROVE  Held(Rewind(owner, marks2[i]))
                      = UNION { holdings2[k] : k \in 1 .. (i - 1) }
    OBVIOUS
  <2>1. CASE i \in 1 .. n
    BY <1>1, <2>1 DEF Bracketed
  <2>2. CASE i = n + 1
    <3>1. (n + 1) - 1 = n
      OBVIOUS
    <3> QED
      BY <1>1, <1>4, <2>2, <3>1 DEF Bracketed
  <2> QED
    BY <1>7, <2>1, <2>2
<1> QED
  BY <1>1, <1>2, <1>5, <1>8, <1>9, <1>10 DEF Bracketed

(* Leaving bracket k rewinds to its checkpoint and closes it with everything
   inside it. *)
LEMMA CutBracketLemma ==
  ASSUME NEW n \in Nat, NEW owner, NEW marks, NEW holdings,
         Bracketed(n, owner, marks, holdings), NEW k \in 1 .. n,
         NEW marks2, NEW holdings2,
         Agree(k - 1, marks, marks2), Agree(k - 1, holdings, holdings2)
  PROVE  Bracketed(k - 1, Rewind(owner, marks[k]), marks2, holdings2)
<1> DEFINE kept == Rewind(owner, marks[k])
<1>1. IsOwner(owner) /\ Live(owner, marks[k]) /\ k - 1 \in Nat
  BY DEF Bracketed
<1>2. ASSUME NEW i \in 1 .. (k - 1)
      PROVE  /\ i \in 1 .. n
             /\ Live(owner, marks[i])
             /\ Position(owner, marks[i]) <= Position(owner, marks[k])
  BY DEF Bracketed
<1>3. IsOwner(kept)
  BY <1>1, RewindLemma
<1>4. ASSUME NEW i \in 1 .. (k - 1)
      PROVE  /\ Live(kept, marks[i])
             /\ Position(kept, marks[i]) = Position(owner, marks[i])
             /\ Held(Rewind(kept, marks[i])) = UNION { holdings[j] : j \in 1 .. (i - 1) }
  <2>1. /\ Live(kept, marks[i])
        /\ Position(kept, marks[i]) = Position(owner, marks[i])
    BY <1>1, <1>2, RewindLemma
  <2>2. Held(Rewind(kept, marks[i])) = Held(Rewind(owner, marks[i]))
    BY <1>1, <1>2, RewindTwiceLemma
  <2> QED
    BY <1>2, <2>1, <2>2 DEF Bracketed
<1>5. Held(kept) = UNION { holdings[j] : j \in 1 .. (k - 1) }
  BY DEF Bracketed
<1>6. \A i, j \in 1 .. (k - 1) :
        i < j => Position(kept, marks[i]) <= Position(kept, marks[j])
  BY <1>2, <1>4 DEF Bracketed
<1>7. Bracketed(k - 1, kept, marks, holdings)
  BY <1>3, <1>4, <1>5, <1>6 DEF Bracketed
<1> QED
  BY <1>1, <1>7, AgreeLemma

(* Closing the innermost bracket without rewinding hands what it holds to the
   one around it. *)
LEMMA MergeBracketLemma ==
  ASSUME NEW n \in Nat, NEW owner, NEW marks, NEW holdings,
         Bracketed(n + 1, owner, marks, holdings), n > 0,
         NEW marks2, NEW holdings2,
         Agree(n, marks, marks2), Agree(n - 1, holdings, holdings2),
         holdings2[n] = holdings[n] \cup holdings[n + 1]
  PROVE  Bracketed(n, owner, marks2, holdings2)
<1>1. \A i \in 1 .. n : i \in 1 .. (n + 1) /\ marks2[i] = marks[i]
  BY DEF Agree
<1>2. ASSUME NEW i \in 1 .. n
      PROVE  UNION { holdings2[k] : k \in 1 .. (i - 1) }
             = UNION { holdings[k] : k \in 1 .. (i - 1) }
  <2>1. \A k \in 1 .. (i - 1) : holdings2[k] = holdings[k]
    BY DEF Agree
  <2> QED
    BY <2>1
<1>3. UNION { holdings2[k] : k \in 1 .. n }
      = UNION { holdings[k] : k \in 1 .. (n + 1) }
  <2>1. /\ 1 .. n = (1 .. (n - 1)) \cup {n}
        /\ 1 .. (n + 1) = (1 .. (n - 1)) \cup {n, n + 1}
    OBVIOUS
  <2>2. UNION { holdings2[k] : k \in 1 .. n }
        = (UNION { holdings2[k] : k \in 1 .. (n - 1) }) \cup holdings2[n]
    BY <2>1
  <2>3. UNION { holdings[k] : k \in 1 .. (n + 1) }
        = (UNION { holdings[k] : k \in 1 .. (n - 1) })
          \cup (holdings[n] \cup holdings[n + 1])
    BY <2>1
  <2>4. UNION { holdings2[k] : k \in 1 .. (n - 1) }
        = UNION { holdings[k] : k \in 1 .. (n - 1) }
    BY <1>2, n \in 1 .. n
  <2> QED
    BY <2>2, <2>3, <2>4
<1>4. ASSUME NEW i \in 1 .. n
      PROVE  /\ Live(owner, marks2[i])
             /\ Held(Rewind(owner, marks2[i]))
                = UNION { holdings2[k] : k \in 1 .. (i - 1) }
  BY <1>1, <1>2 DEF Bracketed
<1>5. \A i, j \in 1 .. n :
        i < j => Position(owner, marks2[i]) <= Position(owner, marks2[j])
  BY <1>1 DEF Bracketed
<1>6. IsOwner(owner) /\ Held(owner) = UNION { holdings2[k] : k \in 1 .. n }
  BY <1>3 DEF Bracketed
<1> QED
  BY <1>4, <1>5, <1>6 DEF Bracketed

(* A new node is held by the innermost bracket. *)
LEMMA LinkBracketLemma ==
  ASSUME NEW n \in Nat, n > 0, NEW owner, NEW marks, NEW holdings,
         Bracketed(n, owner, marks, holdings),
         NEW block \in Blocks, block \notin Held(owner),
         NEW marks2, NEW holdings2,
         Agree(n, marks, marks2), Agree(n - 1, holdings, holdings2),
         holdings2[n] = holdings[n] \cup {block}
  PROVE  Bracketed(n, Link(owner, block), marks2, holdings2)
<1> DEFINE linked == Link(owner, block)
<1>1. IsOwner(owner) /\ \A i \in 1 .. n : marks2[i] = marks[i]
  BY DEF Bracketed, Agree
<1>2. /\ IsOwner(linked)
      /\ Held(linked) = Held(owner) \cup {block}
  BY <1>1, LinkLemma
<1>3. ASSUME NEW i \in 1 .. n
      PROVE  /\ Live(owner, marks[i])
             /\ Live(linked, marks[i])
             /\ Position(linked, marks[i]) = Position(owner, marks[i])
  <2>1. Live(owner, marks[i])
    BY DEF Bracketed
  <2> QED
    BY <1>1, <2>1, LinkLemma
<1>4. ASSUME NEW i \in 1 .. n
      PROVE  UNION { holdings2[k] : k \in 1 .. (i - 1) }
             = UNION { holdings[k] : k \in 1 .. (i - 1) }
  <2>1. \A k \in 1 .. (i - 1) : holdings2[k] = holdings[k]
    BY DEF Agree
  <2> QED
    BY <2>1
<1>5. ASSUME NEW i \in 1 .. n
      PROVE  Held(Rewind(linked, marks[i])) = UNION { holdings2[k] : k \in 1 .. (i - 1) }
  <2>1. Held(Rewind(linked, marks[i])) = Held(Rewind(owner, marks[i]))
    BY <1>1, <1>3, RewindLinkLemma
  <2> QED
    BY <1>4, <2>1 DEF Bracketed
<1>6. Held(linked) = UNION { holdings2[k] : k \in 1 .. n }
  <2> HIDE DEF linked
  <2>1. 1 .. n = (1 .. (n - 1)) \cup {n}
    OBVIOUS
  <2>2. UNION { holdings2[k] : k \in 1 .. n }
        = (UNION { holdings2[k] : k \in 1 .. (n - 1) }) \cup holdings2[n]
    BY <2>1
  <2>3. UNION { holdings[k] : k \in 1 .. n }
        = (UNION { holdings[k] : k \in 1 .. (n - 1) }) \cup holdings[n]
    BY <2>1
  <2>4. n \in 1 .. n
    OBVIOUS
  <2> QED
    BY <1>2, <1>4, <2>2, <2>3, <2>4 DEF Bracketed
<1>7. \A i, j \in 1 .. n :
        i < j => Position(linked, marks2[i]) <= Position(linked, marks2[j])
  BY <1>1, <1>3 DEF Bracketed
<1> HIDE DEF linked
<1>8. Bracketed(n, linked, marks2, holdings2)
  BY <1>1, <1>2, <1>3, <1>5, <1>6, <1>7 DEF Bracketed
<1> QED
  BY <1>8 DEF linked

-----------------------------------------------------------------------------

(* The two bracket descriptions of an activation. *)
LocalMarks(frame) == [i \in DOMAIN frame.open |-> frame.open[i].local]
TempMarks(frame) == [i \in DOMAIN frame.open |-> frame.open[i].temp]
Arrays(frame) == [i \in DOMAIN frame.open |-> frame.open[i].arrays]
Values(frame) == [i \in DOMAIN frame.open |-> frame.open[i].values]

WellFormed(construct) ==
  /\ construct.kind \in {"handled", "handler"}
       => construct.arrays = {} /\ construct.values = {}
  /\ construct.kind = "handler"
       => /\ construct.occurrence.id # None
          /\ construct.occurrence.name = construct.occurrence.id

(***************************************************************************)
(* What holds of one activation: its own construct is the outermost one,   *)
(* and its open constructs bracket both of its lists.                      *)
(***************************************************************************)
Shape(frame) ==
  /\ frame \in Frame
  /\ Len(frame.open) > 0
  /\ \A i \in 1 .. Len(frame.open) : frame.open[i].kind = "frame" <=> i = 1
  /\ \A i \in 1 .. Len(frame.open) : WellFormed(frame.open[i])
  /\ \A i \in 2 .. Len(frame.open) :
        frame.open[i].kind = "decls"
          => frame.open[i - 1].kind \notin {"handled", "handler"}

FrameInv(frame) ==
  /\ Shape(frame)
  /\ Bracketed(Len(frame.open), frame.local, LocalMarks(frame), Arrays(frame))
  /\ Bracketed(Len(frame.open), frame.temp, TempMarks(frame), Values(frame))
  /\ Held(frame.local) \cap Held(frame.temp) = {}

(* The fields of an activation and of its constructs. *)
LEMMA ShapeLemma ==
  ASSUME NEW frame, Shape(frame)
  PROVE  /\ frame.open \in Seq(Construct)
         /\ frame.local \in Seq(Blocks)
         /\ frame.temp \in Seq(Blocks)
         /\ frame.result \in { "none", "value", "array" }
         /\ Len(frame.open) \in Nat \ {0}
         /\ DOMAIN frame.open = 1 .. Len(frame.open)
         /\ \A i \in 1 .. Len(frame.open) :
              /\ frame.open[i] \in Construct
              /\ LocalMarks(frame)[i] = frame.open[i].local
              /\ TempMarks(frame)[i] = frame.open[i].temp
              /\ Arrays(frame)[i] = frame.open[i].arrays
              /\ Values(frame)[i] = frame.open[i].values
BY DEF Shape, Frame, LocalMarks, TempMarks, Arrays, Values

(* Assigning fields of an activation. *)
LEMMA SetOpenLemma ==
  ASSUME NEW frame \in Frame, NEW open \in Seq(Construct)
  PROVE  LET new == [frame EXCEPT !.open = open]
         IN  /\ new \in Frame /\ new.open = open
             /\ new.local = frame.local /\ new.temp = frame.temp
BY DEF Frame

(* Activations with the same outer constructs have the same outer brackets. *)
LEMMA AgreeOpenLemma ==
  ASSUME NEW f, Shape(f), NEW g, Shape(g), NEW m \in Nat,
         m <= Len(f.open), m <= Len(g.open),
         \A i \in 1 .. m : f.open[i] = g.open[i]
  PROVE  /\ Agree(m, LocalMarks(f), LocalMarks(g))
         /\ Agree(m, TempMarks(f), TempMarks(g))
         /\ Agree(m, Arrays(f), Arrays(g))
         /\ Agree(m, Values(f), Values(g))
<1>1. \A i \in 1 .. m : i \in 1 .. Len(f.open) /\ i \in 1 .. Len(g.open)
  BY ShapeLemma
<1>2. \A i \in 1 .. m :
        /\ LocalMarks(f)[i] = f.open[i].local
        /\ TempMarks(f)[i] = f.open[i].temp
        /\ Arrays(f)[i] = f.open[i].arrays
        /\ Values(f)[i] = f.open[i].values
  <2>1. \A i \in 1 .. Len(f.open) :
          /\ LocalMarks(f)[i] = f.open[i].local
          /\ TempMarks(f)[i] = f.open[i].temp
          /\ Arrays(f)[i] = f.open[i].arrays
          /\ Values(f)[i] = f.open[i].values
    BY ShapeLemma
  <2> QED
    BY <1>1, <2>1
<1>3. \A i \in 1 .. m :
        /\ LocalMarks(g)[i] = g.open[i].local
        /\ TempMarks(g)[i] = g.open[i].temp
        /\ Arrays(g)[i] = g.open[i].arrays
        /\ Values(g)[i] = g.open[i].values
  <2>1. \A i \in 1 .. Len(g.open) :
          /\ LocalMarks(g)[i] = g.open[i].local
          /\ TempMarks(g)[i] = g.open[i].temp
          /\ Arrays(g)[i] = g.open[i].arrays
          /\ Values(g)[i] = g.open[i].values
    BY ShapeLemma
  <2> QED
    BY <1>1, <2>1
<1>4. Agree(m, LocalMarks(f), LocalMarks(g))
  BY <1>2, <1>3 DEF Agree
<1>5. Agree(m, TempMarks(f), TempMarks(g))
  BY <1>2, <1>3 DEF Agree
<1>6. Agree(m, Arrays(f), Arrays(g))
  BY <1>2, <1>3 DEF Agree
<1>7. Agree(m, Values(f), Values(g))
  BY <1>2, <1>3 DEF Agree
<1> QED
  BY <1>4, <1>5, <1>6, <1>7

(* A new activation. *)
LEMMA NewFrameLemma ==
  ASSUME NEW result \in { "none", "value", "array" }
  PROVE  FrameInv(NewFrame(result)) /\ Owned(NewFrame(result)) = {}
<1> DEFINE frame == NewFrame(result)
<1>1. /\ frame.open[1] \in Construct
      /\ frame.open[1].local = NoBlock /\ frame.open[1].temp = NoBlock
      /\ frame.open[1].arrays = {} /\ frame.open[1].values = {}
      /\ frame.open[1].kind = "frame"
  BY DEF NewFrame, Construct, Kinds, Marks, Occurrence, NoOccurrence
<1>2. /\ frame.open = << frame.open[1] >> /\ Len(frame.open) = 1
      /\ frame.local = << >> /\ frame.temp = << >> /\ frame.result = result
  BY DEF NewFrame
<1>3. frame \in Frame
  BY <1>1, <1>2 DEF NewFrame, Frame
<1>4. Shape(frame)
  BY <1>1, <1>2, <1>3 DEF Shape, WellFormed
<1>5. Held(<< >>) = {} /\ IsOwner(<< >>)
  BY DEF Held, IsOwner, Distinct
<1>6. ASSUME NEW marks, NEW holdings, marks[1] = NoBlock, holdings[1] = {}
      PROVE  Bracketed(1, << >>, marks, holdings)
  <2>1. Live(<< >>, NoBlock) /\ Position(<< >>, NoBlock) = 0
    BY DEF Live, Position
  <2>2. Held(Rewind(<< >>, NoBlock)) = {}
    BY <2>1, <1>5, RewindLemma
  <2>3. (UNION { holdings[k] : k \in 1 .. 1 }) = {}
    BY <1>6
  <2> QED
    BY <1>5, <1>6, <2>1, <2>2, <2>3 DEF Bracketed
<1>7. /\ LocalMarks(frame)[1] = NoBlock /\ TempMarks(frame)[1] = NoBlock
      /\ Arrays(frame)[1] = {} /\ Values(frame)[1] = {}
  BY <1>1, <1>2, <1>4, ShapeLemma
<1> HIDE DEF frame
<1>8. FrameInv(frame)
  BY <1>2, <1>4, <1>5, <1>6, <1>7 DEF FrameInv
<1> QED
  BY <1>2, <1>5, <1>8 DEF frame, Owned

(* Opening a construct. *)
LEMMA OpenLemma ==
  ASSUME NEW frame, FrameInv(frame), NEW construct \in Construct,
         construct.kind \notin {"frame", "handler"},
         construct.kind = "decls" =>
           frame.open[Len(frame.open)].kind \notin {"handled", "handler"},
         construct.local = Checkpoint(frame.local),
         construct.temp = Checkpoint(frame.temp),
         construct.arrays = {}, construct.values = {}
  PROVE  LET opened == [frame EXCEPT !.open = Append(@, construct)]
         IN  FrameInv(opened) /\ Owned(opened) = Owned(frame)
<1> DEFINE opened == [frame EXCEPT !.open = Append(@, construct)]
           n == Len(frame.open)
<1>1. Shape(frame) /\ n \in Nat \ {0} /\ frame.open \in Seq(Construct)
  BY ShapeLemma DEF FrameInv
<1>2. /\ opened \in Frame
      /\ opened.open = Append(frame.open, construct)
      /\ opened.local = frame.local /\ opened.temp = frame.temp
  <2>1. Append(frame.open, construct) \in Seq(Construct)
    BY <1>1
  <2> QED
    BY <1>1, <2>1, SetOpenLemma DEF Shape
<1>3. /\ Len(opened.open) = n + 1
      /\ \A i \in 1 .. n : opened.open[i] = frame.open[i]
      /\ opened.open[n + 1] = construct
  BY <1>1, <1>2
<1>4. Shape(opened)
  <2>1. \A i \in 1 .. (n + 1) : i \in 1 .. n \/ i = n + 1
    BY <1>1
  <2>2. WellFormed(construct)
    BY DEF WellFormed
  <2> QED
    BY <1>1, <1>2, <1>3, <2>1, <2>2 DEF Shape
<1> HIDE DEF opened, n
<1>5. /\ Agree(n, LocalMarks(frame), LocalMarks(opened))
      /\ Agree(n, TempMarks(frame), TempMarks(opened))
      /\ Agree(n, Arrays(frame), Arrays(opened))
      /\ Agree(n, Values(frame), Values(opened))
  BY <1>1, <1>3, <1>4, AgreeOpenLemma DEF n
<1>6. /\ LocalMarks(opened)[n + 1] = Checkpoint(frame.local)
      /\ TempMarks(opened)[n + 1] = Checkpoint(frame.temp)
      /\ Arrays(opened)[n + 1] = {} /\ Values(opened)[n + 1] = {}
  BY <1>1, <1>3, <1>4, ShapeLemma
<1>7. /\ Bracketed(n + 1, opened.local, LocalMarks(opened), Arrays(opened))
      /\ Bracketed(n + 1, opened.temp, TempMarks(opened), Values(opened))
  <2>1. /\ Bracketed(n, frame.local, LocalMarks(frame), Arrays(frame))
        /\ Bracketed(n, frame.temp, TempMarks(frame), Values(frame))
    BY DEF FrameInv, n
  <2>2. Bracketed(n + 1, frame.local, LocalMarks(opened), Arrays(opened))
    BY <1>1, <1>5, <1>6, <2>1, OpenBracketLemma
  <2>3. Bracketed(n + 1, frame.temp, TempMarks(opened), Values(opened))
    BY <1>1, <1>5, <1>6, <2>1, OpenBracketLemma
  <2> QED
    BY <1>2, <2>2, <2>3
<1>8. FrameInv(opened)
  BY <1>2, <1>3, <1>4, <1>7 DEF FrameInv
<1> QED
  BY <1>2, <1>8 DEF opened, Owned

(* What a rewind to the checkpoints of construct k frees. *)
LEMMA RewoundLemma ==
  ASSUME NEW frame, FrameInv(frame), NEW k \in 1 .. Len(frame.open)
  PROVE  LET construct == frame.open[k]
             rewound == Rewound(frame, construct)
         IN  /\ rewound \in Frame
             /\ rewound.open = frame.open
             /\ rewound.local = Rewind(frame.local, construct.local)
             /\ rewound.temp = Rewind(frame.temp, construct.temp)
             /\ Owned(rewound) = Owned(frame) \ FreedBy(frame, construct)
             /\ FreedBy(frame, construct) \subseteq Owned(frame)
             /\ Held(rewound.local) \cap Held(rewound.temp) = {}
<1> DEFINE construct == frame.open[k]
           rewound == Rewound(frame, construct)
           localKept == Rewind(frame.local, construct.local)
           tempKept == Rewind(frame.temp, construct.temp)
<1>1. Shape(frame) /\ frame \in Frame
  BY DEF FrameInv, Shape
<1>2. /\ LocalMarks(frame)[k] = construct.local
      /\ TempMarks(frame)[k] = construct.temp
  BY <1>1, ShapeLemma
<1>3. /\ IsOwner(frame.local) /\ Live(frame.local, construct.local)
      /\ IsOwner(frame.temp) /\ Live(frame.temp, construct.temp)
  BY <1>2 DEF FrameInv, Bracketed
<1>4. /\ localKept \in Seq(Blocks)
      /\ Held(localKept) = Held(frame.local) \ Freed(frame.local, construct.local)
      /\ Freed(frame.local, construct.local) \subseteq Held(frame.local)
  BY <1>3, RewindLemma DEF IsOwner
<1>5. /\ tempKept \in Seq(Blocks)
      /\ Held(tempKept) = Held(frame.temp) \ Freed(frame.temp, construct.temp)
      /\ Freed(frame.temp, construct.temp) \subseteq Held(frame.temp)
  BY <1>3, RewindLemma DEF IsOwner
<1> HIDE DEF localKept, tempKept, construct
<1>6. /\ rewound \in Frame /\ rewound.open = frame.open
      /\ rewound.local = localKept /\ rewound.temp = tempKept
  <2>1. rewound = [frame EXCEPT !.local = localKept, !.temp = tempKept]
    BY DEF Rewound, localKept, tempKept
  <2> QED
    BY <1>1, <1>4, <1>5, <2>1 DEF Frame
<1> HIDE DEF rewound
<1>7. Held(frame.local) \cap Held(frame.temp) = {}
  BY DEF FrameInv
<1>8. /\ Owned(rewound) = Owned(frame) \ FreedBy(frame, construct)
      /\ FreedBy(frame, construct) \subseteq Owned(frame)
      /\ Held(rewound.local) \cap Held(rewound.temp) = {}
  BY <1>4, <1>5, <1>6, <1>7 DEF Owned, FreedBy
<1> QED
  BY <1>6, <1>8 DEF construct, rewound, localKept, tempKept

(* The outer constructs of an activation are an activation's constructs. *)
LEMMA PrefixLemma ==
  ASSUME NEW frame, Shape(frame), NEW m \in 1 .. Len(frame.open),
         NEW shorter \in Frame, shorter.open = SubSeq(frame.open, 1, m)
  PROVE  /\ Shape(shorter)
         /\ Len(shorter.open) = m
         /\ \A i \in 1 .. m : shorter.open[i] = frame.open[i]
<1>1. frame.open \in Seq(Construct) /\ Len(frame.open) \in Nat
  BY ShapeLemma
<1>2. /\ Len(shorter.open) = m
      /\ \A i \in 1 .. m : shorter.open[i] = frame.open[i]
  BY <1>1
<1>3. \A i \in 1 .. m : i \in 1 .. Len(frame.open)
  BY <1>1
<1> QED
  BY <1>2, <1>3 DEF Shape

(* Leaving construct k with a rewind: end of a statement, exit, dispatch to
   an outer handler. *)
LEMMA CutLemma ==
  ASSUME NEW frame, FrameInv(frame), NEW k \in 2 .. Len(frame.open)
  PROVE  LET cut == [Rewound(frame, frame.open[k]) EXCEPT
                       !.open = SubSeq(frame.open, 1, k - 1)]
         IN  /\ FrameInv(cut)
             /\ Owned(cut) = Owned(frame) \ FreedBy(frame, frame.open[k])
             /\ FreedBy(frame, frame.open[k]) \subseteq Owned(frame)
<1> DEFINE rewound == Rewound(frame, frame.open[k])
           cut == [rewound EXCEPT !.open = SubSeq(frame.open, 1, k - 1)]
<1>1. /\ Shape(frame) /\ frame.open \in Seq(Construct)
      /\ Len(frame.open) \in Nat /\ k \in 1 .. Len(frame.open)
      /\ k - 1 \in 1 .. Len(frame.open)
  BY ShapeLemma DEF FrameInv
<1>2. /\ rewound \in Frame
      /\ rewound.local = Rewind(frame.local, frame.open[k].local)
      /\ rewound.temp = Rewind(frame.temp, frame.open[k].temp)
      /\ Owned(rewound) = Owned(frame) \ FreedBy(frame, frame.open[k])
      /\ FreedBy(frame, frame.open[k]) \subseteq Owned(frame)
      /\ Held(rewound.local) \cap Held(rewound.temp) = {}
  BY <1>1, RewoundLemma
<1> HIDE DEF rewound
<1>3. /\ cut \in Frame /\ cut.open = SubSeq(frame.open, 1, k - 1)
      /\ cut.local = rewound.local /\ cut.temp = rewound.temp
  <2>1. SubSeq(frame.open, 1, k - 1) \in Seq(Construct)
    BY <1>1
  <2> QED
    BY <1>2, <2>1, SetOpenLemma
<1> HIDE DEF cut
<1>4. /\ Shape(cut) /\ Len(cut.open) = k - 1
      /\ \A i \in 1 .. (k - 1) : frame.open[i] = cut.open[i]
  BY <1>1, <1>3, PrefixLemma
<1>5. /\ Agree(k - 1, LocalMarks(frame), LocalMarks(cut))
      /\ Agree(k - 1, TempMarks(frame), TempMarks(cut))
      /\ Agree(k - 1, Arrays(frame), Arrays(cut))
      /\ Agree(k - 1, Values(frame), Values(cut))
  BY <1>1, <1>4, AgreeOpenLemma
<1>6. /\ LocalMarks(frame)[k] = frame.open[k].local
      /\ TempMarks(frame)[k] = frame.open[k].temp
  BY <1>1, ShapeLemma
<1>7. Bracketed(k - 1, cut.local, LocalMarks(cut), Arrays(cut))
  <2>1. Bracketed(Len(frame.open), frame.local, LocalMarks(frame), Arrays(frame))
    BY DEF FrameInv
  <2> QED
    BY <1>1, <1>2, <1>3, <1>5, <1>6, <2>1, CutBracketLemma
<1>8. Bracketed(k - 1, cut.temp, TempMarks(cut), Values(cut))
  <2>1. Bracketed(Len(frame.open), frame.temp, TempMarks(frame), Values(frame))
    BY DEF FrameInv
  <2> QED
    BY <1>1, <1>2, <1>3, <1>5, <1>6, <2>1, CutBracketLemma
<1>9. FrameInv(cut)
  BY <1>2, <1>3, <1>4, <1>7, <1>8 DEF FrameInv
<1> QED
  BY <1>2, <1>3, <1>9 DEF Owned, cut, rewound

(* A handler takes the place of its sequence. *)
LEMMA CatchLemma ==
  ASSUME NEW frame, FrameInv(frame), NEW k \in 2 .. Len(frame.open),
         frame.open[k].kind = "handled",
         NEW occurrence \in Occurrence,
         occurrence.id # None, occurrence.name = occurrence.id
  PROVE  LET caught == [Rewound(frame, frame.open[k]) EXCEPT
                          !.open = Append(SubSeq(frame.open, 1, k - 1),
                                          HandlerFor(frame.open[k], occurrence))]
         IN  /\ FrameInv(caught)
             /\ Owned(caught) = Owned(frame) \ FreedBy(frame, frame.open[k])
             /\ FreedBy(frame, frame.open[k]) \subseteq Owned(frame)
<1> DEFINE rewound == Rewound(frame, frame.open[k])
           open == Append(SubSeq(frame.open, 1, k - 1),
                          HandlerFor(frame.open[k], occurrence))
           caught == [rewound EXCEPT !.open = open]
<1>1. /\ Shape(frame) /\ frame.open \in Seq(Construct)
      /\ Len(frame.open) \in Nat /\ k \in 1 .. Len(frame.open)
      /\ frame.open[k] \in Construct /\ WellFormed(frame.open[k])
  BY ShapeLemma DEF FrameInv, Shape
<1>2. /\ rewound \in Frame
      /\ rewound.local = Rewind(frame.local, frame.open[k].local)
      /\ rewound.temp = Rewind(frame.temp, frame.open[k].temp)
      /\ Owned(rewound) = Owned(frame) \ FreedBy(frame, frame.open[k])
      /\ FreedBy(frame, frame.open[k]) \subseteq Owned(frame)
      /\ Held(rewound.local) \cap Held(rewound.temp) = {}
  BY <1>1, RewoundLemma
<1> HIDE DEF rewound
<1>3. /\ open \in Seq(Construct) /\ Len(open) = k
      /\ \A i \in 1 .. (k - 1) : open[i] = frame.open[i]
      /\ open[k] \in Construct
      /\ open[k].kind = "handler" /\ open[k].occurrence = occurrence
      /\ open[k].local = frame.open[k].local /\ open[k].temp = frame.open[k].temp
      /\ open[k].arrays = frame.open[k].arrays
      /\ open[k].values = frame.open[k].values
  <2> DEFINE short == SubSeq(frame.open, 1, k - 1)
             handler == HandlerFor(frame.open[k], occurrence)
  <2>1. /\ short \in Seq(Construct) /\ Len(short) = k - 1
        /\ \A i \in 1 .. (k - 1) : short[i] = frame.open[i]
    BY <1>1
  <2>2. /\ handler \in Construct
        /\ handler.kind = "handler" /\ handler.occurrence = occurrence
        /\ handler.local = frame.open[k].local /\ handler.temp = frame.open[k].temp
        /\ handler.arrays = frame.open[k].arrays
        /\ handler.values = frame.open[k].values
    BY <1>1 DEF HandlerFor, Construct, Kinds
  <2> HIDE DEF short, handler
  <2>3. open = Append(short, handler)
    BY DEF short, handler
  <2> HIDE DEF open
  <2> QED
    BY <1>1, <2>1, <2>2, <2>3
<1> HIDE DEF open
<1>4. /\ caught \in Frame /\ caught.open = open
      /\ caught.local = rewound.local /\ caught.temp = rewound.temp
  BY <1>2, <1>3, SetOpenLemma
<1> HIDE DEF caught
<1>5. open[k].arrays = {} /\ open[k].values = {}
  BY <1>1, <1>3 DEF WellFormed
<1>6. Shape(caught)
  <2>1. \A i \in 1 .. k : i \in 1 .. (k - 1) \/ i = k
    OBVIOUS
  <2>2. WellFormed(open[k])
    BY <1>3, <1>5 DEF WellFormed
  <2>3. \A i \in 1 .. (k - 1) : i \in 1 .. Len(frame.open)
    BY <1>1
  <2>4. Len(caught.open) > 0
    BY <1>3, <1>4
  <2>5. \A i \in 1 .. k : open[i].kind = "frame" <=> i = 1
    BY <1>1, <1>3, <2>1, <2>3 DEF Shape
  <2>6. \A i \in 1 .. k : WellFormed(open[i])
    BY <1>1, <1>3, <2>1, <2>2, <2>3 DEF Shape
  <2>7. \A i \in 2 .. k : open[i].kind = "decls"
                            => open[i - 1].kind \notin {"handled", "handler"}
    <3> SUFFICES ASSUME NEW i \in 2 .. k, open[i].kind = "decls"
                 PROVE  open[i - 1].kind \notin {"handled", "handler"}
      OBVIOUS
    <3>1. i \in 2 .. (k - 1) /\ i \in 1 .. (k - 1) /\ i - 1 \in 1 .. (k - 1)
      BY <1>3
    <3> QED
      BY <1>1, <1>3, <3>1 DEF Shape
  <2> QED
    BY <1>3, <1>4, <2>4, <2>5, <2>6, <2>7 DEF Shape
<1>7. /\ LocalMarks(frame)[k] = frame.open[k].local
      /\ TempMarks(frame)[k] = frame.open[k].temp
      /\ LocalMarks(caught)[k] = frame.open[k].local
      /\ TempMarks(caught)[k] = frame.open[k].temp
      /\ Arrays(caught)[k] = {} /\ Values(caught)[k] = {}
  BY <1>1, <1>3, <1>4, <1>5, <1>6, ShapeLemma
<1>8. /\ Agree(k - 1, LocalMarks(frame), LocalMarks(caught))
      /\ Agree(k - 1, TempMarks(frame), TempMarks(caught))
      /\ Agree(k - 1, Arrays(frame), Arrays(caught))
      /\ Agree(k - 1, Values(frame), Values(caught))
  <2>1. /\ k - 1 \in Nat /\ k - 1 <= Len(frame.open) /\ k - 1 <= Len(caught.open)
        /\ \A i \in 1 .. (k - 1) : frame.open[i] = caught.open[i]
    BY <1>1, <1>3, <1>4
  <2> QED
    BY <1>1, <1>6, <2>1, AgreeOpenLemma
<1>9. Bracketed(k, caught.local, LocalMarks(caught), Arrays(caught))
  <2>1. Bracketed(Len(frame.open), frame.local, LocalMarks(frame), Arrays(frame))
    BY DEF FrameInv
  <2>2. Bracketed(k - 1, caught.local, LocalMarks(caught), Arrays(caught))
    BY <1>1, <1>2, <1>4, <1>7, <1>8, <2>1, CutBracketLemma
  <2>3. LocalMarks(caught)[k] = Checkpoint(caught.local)
    <3>1. IsOwner(frame.local) /\ Live(frame.local, frame.open[k].local)
      BY <1>1, <1>7, <2>1 DEF Bracketed
    <3> QED
      BY <1>2, <1>4, <1>7, <3>1, CheckpointOfRewindLemma
  <2>4. k - 1 \in Nat /\ (k - 1) + 1 = k
    OBVIOUS
  <2>5. /\ Agree(k - 1, LocalMarks(caught), LocalMarks(caught))
        /\ Agree(k - 1, Arrays(caught), Arrays(caught))
    BY DEF Agree
  <2>6. Bracketed((k - 1) + 1, caught.local, LocalMarks(caught), Arrays(caught))
    BY <1>7, <2>2, <2>3, <2>4, <2>5, OpenBracketLemma
  <2> QED
    BY <2>4, <2>6
<1>10. Bracketed(k, caught.temp, TempMarks(caught), Values(caught))
  <2>1. Bracketed(Len(frame.open), frame.temp, TempMarks(frame), Values(frame))
    BY DEF FrameInv
  <2>2. Bracketed(k - 1, caught.temp, TempMarks(caught), Values(caught))
    BY <1>1, <1>2, <1>4, <1>7, <1>8, <2>1, CutBracketLemma
  <2>3. TempMarks(caught)[k] = Checkpoint(caught.temp)
    <3>1. IsOwner(frame.temp) /\ Live(frame.temp, frame.open[k].temp)
      BY <1>1, <1>7, <2>1 DEF Bracketed
    <3> QED
      BY <1>2, <1>4, <1>7, <3>1, CheckpointOfRewindLemma
  <2>4. k - 1 \in Nat /\ (k - 1) + 1 = k
    OBVIOUS
  <2>5. /\ Agree(k - 1, TempMarks(caught), TempMarks(caught))
        /\ Agree(k - 1, Values(caught), Values(caught))
    BY DEF Agree
  <2>6. Bracketed((k - 1) + 1, caught.temp, TempMarks(caught), Values(caught))
    BY <1>7, <2>2, <2>3, <2>4, <2>5, OpenBracketLemma
  <2> QED
    BY <2>4, <2>6
<1>11. FrameInv(caught)
  BY <1>2, <1>3, <1>4, <1>6, <1>9, <1>10 DEF FrameInv
<1> QED
  BY <1>2, <1>4, <1>11 DEF Owned, caught, open, rewound

(* A declared array joins the local list and the declarations that own it. *)
LEMMA DeclareLemma ==
  ASSUME NEW frame, FrameInv(frame), NEW block \in Blocks, block \notin Owned(frame),
         frame.open[Len(frame.open)].kind = "decls"
  PROVE  LET linked == [frame EXCEPT !.local = Link(@, block),
                                     !.open[Len(frame.open)].arrays = @ \cup {block}]
         IN  FrameInv(linked) /\ Owned(linked) = Owned(frame) \cup {block}
<1> DEFINE n == Len(frame.open)
           top == frame.open[n]
           open == [frame.open EXCEPT ![n].arrays = top.arrays \cup {block}]
           linked == [frame EXCEPT !.local = Link(frame.local, block), !.open = open]
<1>1. /\ Shape(frame) /\ frame.open \in Seq(Construct)
      /\ n \in Nat \ {0} /\ n \in 1 .. n
      /\ top \in Construct
  BY ShapeLemma DEF FrameInv
<1>2. /\ IsOwner(frame.local) /\ IsOwner(frame.temp)
      /\ block \notin Held(frame.local) /\ block \notin Held(frame.temp)
  BY DEF FrameInv, Bracketed, Owned
<1>3. /\ Link(frame.local, block) \in Seq(Blocks)
      /\ Held(Link(frame.local, block)) = Held(frame.local) \cup {block}
  BY <1>2, LinkLemma DEF IsOwner
<1>4. /\ open \in Seq(Construct) /\ Len(open) = n
      /\ \A i \in 1 .. (n - 1) : open[i] = frame.open[i]
      /\ open[n].kind = top.kind /\ open[n].occurrence = top.occurrence
      /\ open[n].local = top.local /\ open[n].temp = top.temp
      /\ open[n].arrays = top.arrays \cup {block}
      /\ open[n].values = top.values
  <2> DEFINE newTop == [top EXCEPT !.arrays = top.arrays \cup {block}]
  <2>1. /\ newTop \in Construct
        /\ newTop.kind = top.kind /\ newTop.occurrence = top.occurrence
        /\ newTop.local = top.local /\ newTop.temp = top.temp
        /\ newTop.arrays = top.arrays \cup {block}
        /\ newTop.values = top.values
    BY <1>1 DEF Construct
  <2> HIDE DEF newTop
  <2>2. open = [frame.open EXCEPT ![n] = newTop]
    BY <1>1 DEF newTop
  <2> HIDE DEF open, top
  <2> QED
    BY <1>1, <2>1, <2>2
<1> HIDE DEF open
<1>5. /\ linked \in Frame /\ linked.open = open
      /\ linked.local = Link(frame.local, block) /\ linked.temp = frame.temp
  <2> DEFINE list == Link(frame.local, block)
  <2>1. frame \in Frame
    BY <1>1 DEF Shape
  <2> HIDE DEF list
  <2>2. linked = [frame EXCEPT !.local = list, !.open = open]
    BY DEF list
  <2>3. list \in Seq(Blocks)
    BY <1>3 DEF list
  <2>4. /\ linked \in Frame /\ linked.open = open
        /\ linked.local = list /\ linked.temp = frame.temp
    BY <1>4, <2>1, <2>2, <2>3 DEF Frame
  <2> QED
    BY <2>4 DEF list
<1> HIDE DEF linked
<1>6. Shape(linked)
  <2>1. \A i \in 1 .. n : i \in 1 .. (n - 1) \/ i = n
    BY <1>1
  <2>2. \A i \in 1 .. n : open[i].kind = frame.open[i].kind
    BY <1>1, <1>4, <2>1
  <2>3. \A i \in 1 .. n : WellFormed(open[i])
    <3>1. WellFormed(open[n])
      BY <1>1, <1>4 DEF WellFormed, Shape
    <3> QED
      BY <1>1, <1>4, <2>1, <3>1 DEF Shape
  <2>4. \A i \in 2 .. n : i \in 1 .. n /\ i - 1 \in 1 .. n
    BY <1>1
  <2> HIDE DEF n
  <2>5. /\ Len(linked.open) > 0
        /\ \A i \in 1 .. Len(linked.open) : linked.open[i].kind = "frame" <=> i = 1
        /\ \A i \in 2 .. Len(linked.open) :
             linked.open[i].kind = "decls"
               => linked.open[i - 1].kind \notin {"handled", "handler"}
    BY <1>1, <1>4, <1>5, <2>2, <2>4 DEF Shape, n
  <2> QED
    BY <1>4, <1>5, <2>3, <2>5 DEF Shape
<1>7. /\ n - 1 \in Nat /\ n - 1 <= n /\ Len(linked.open) = n
      /\ \A i \in 1 .. (n - 1) : frame.open[i] = linked.open[i]
  BY <1>1, <1>4, <1>5
<1>8. /\ Agree(n - 1, LocalMarks(frame), LocalMarks(linked))
      /\ Agree(n - 1, TempMarks(frame), TempMarks(linked))
      /\ Agree(n - 1, Arrays(frame), Arrays(linked))
      /\ Agree(n - 1, Values(frame), Values(linked))
  BY <1>1, <1>6, <1>7, AgreeOpenLemma
<1>9. /\ LocalMarks(frame)[n] = LocalMarks(linked)[n]
      /\ TempMarks(frame)[n] = TempMarks(linked)[n]
      /\ Arrays(linked)[n] = Arrays(frame)[n] \cup {block}
      /\ Values(linked)[n] = Values(frame)[n]
  <2>1. /\ LocalMarks(frame)[n] = top.local /\ TempMarks(frame)[n] = top.temp
        /\ Arrays(frame)[n] = top.arrays /\ Values(frame)[n] = top.values
    BY <1>1, ShapeLemma
  <2>2. /\ LocalMarks(linked)[n] = open[n].local
        /\ TempMarks(linked)[n] = open[n].temp
        /\ Arrays(linked)[n] = open[n].arrays
        /\ Values(linked)[n] = open[n].values
    BY <1>1, <1>5, <1>6, <1>7, ShapeLemma
  <2> QED
    BY <1>4, <2>1, <2>2
<1>10. /\ Agree(n, LocalMarks(frame), LocalMarks(linked))
       /\ Agree(n, TempMarks(frame), TempMarks(linked))
       /\ Agree(n, Values(frame), Values(linked))
  BY <1>1, <1>8, <1>9 DEF Agree
<1>11. Bracketed(n, linked.local, LocalMarks(linked), Arrays(linked))
  <2>1. Bracketed(n, frame.local, LocalMarks(frame), Arrays(frame))
    BY DEF FrameInv
  <2> QED
    BY <1>1, <1>2, <1>5, <1>8, <1>9, <1>10, <2>1, LinkBracketLemma
<1>12. Bracketed(n, linked.temp, TempMarks(linked), Values(linked))
  <2>1. Bracketed(n, frame.temp, TempMarks(frame), Values(frame))
    BY DEF FrameInv
  <2> QED
    BY <1>1, <1>5, <1>10, <2>1, AgreeLemma
<1>13. Held(linked.local) \cap Held(linked.temp) = {}
  BY <1>2, <1>3, <1>5 DEF FrameInv
<1>14. FrameInv(linked)
  BY <1>6, <1>7, <1>11, <1>12, <1>13 DEF FrameInv
<1>15. Owned(linked) = Owned(frame) \cup {block}
  BY <1>3, <1>5 DEF Owned
<1> QED
  BY <1>14, <1>15 DEF linked, open

(* A temporary joins the temporary list and the statement that needs it. *)
LEMMA TemporaryLemma ==
  ASSUME NEW frame, FrameInv(frame), NEW block \in Blocks, block \notin Owned(frame),
         frame.open[Len(frame.open)].kind \notin {"handled", "handler"}
  PROVE  LET linked == [frame EXCEPT !.temp = Link(@, block),
                                     !.open[Len(frame.open)].values = @ \cup {block}]
         IN  FrameInv(linked) /\ Owned(linked) = Owned(frame) \cup {block}
<1> DEFINE n == Len(frame.open)
           top == frame.open[n]
           open == [frame.open EXCEPT ![n].values = top.values \cup {block}]
           linked == [frame EXCEPT !.temp = Link(frame.temp, block), !.open = open]
<1>1. /\ Shape(frame) /\ frame.open \in Seq(Construct)
      /\ n \in Nat \ {0} /\ n \in 1 .. n
      /\ top \in Construct
  BY ShapeLemma DEF FrameInv
<1>2. /\ IsOwner(frame.local) /\ IsOwner(frame.temp)
      /\ block \notin Held(frame.local) /\ block \notin Held(frame.temp)
  BY DEF FrameInv, Bracketed, Owned
<1>3. /\ Link(frame.temp, block) \in Seq(Blocks)
      /\ Held(Link(frame.temp, block)) = Held(frame.temp) \cup {block}
  BY <1>2, LinkLemma DEF IsOwner
<1>4. /\ open \in Seq(Construct) /\ Len(open) = n
      /\ \A i \in 1 .. (n - 1) : open[i] = frame.open[i]
      /\ open[n].kind = top.kind /\ open[n].occurrence = top.occurrence
      /\ open[n].local = top.local /\ open[n].temp = top.temp
      /\ open[n].values = top.values \cup {block}
      /\ open[n].arrays = top.arrays
  <2> DEFINE newTop == [top EXCEPT !.values = top.values \cup {block}]
  <2>1. /\ newTop \in Construct
        /\ newTop.kind = top.kind /\ newTop.occurrence = top.occurrence
        /\ newTop.local = top.local /\ newTop.temp = top.temp
        /\ newTop.values = top.values \cup {block}
        /\ newTop.arrays = top.arrays
    BY <1>1 DEF Construct
  <2> HIDE DEF newTop
  <2>2. open = [frame.open EXCEPT ![n] = newTop]
    BY <1>1 DEF newTop
  <2> HIDE DEF open, top
  <2> QED
    BY <1>1, <2>1, <2>2
<1> HIDE DEF open
<1>5. /\ linked \in Frame /\ linked.open = open
      /\ linked.temp = Link(frame.temp, block) /\ linked.local = frame.local
  <2> DEFINE list == Link(frame.temp, block)
  <2>1. frame \in Frame
    BY <1>1 DEF Shape
  <2> HIDE DEF list
  <2>2. linked = [frame EXCEPT !.temp = list, !.open = open]
    BY DEF list
  <2>3. list \in Seq(Blocks)
    BY <1>3 DEF list
  <2>4. /\ linked \in Frame /\ linked.open = open
        /\ linked.temp = list /\ linked.local = frame.local
    BY <1>4, <2>1, <2>2, <2>3 DEF Frame
  <2> QED
    BY <2>4 DEF list
<1> HIDE DEF linked
<1>6. Shape(linked)
  <2>1. \A i \in 1 .. n : i \in 1 .. (n - 1) \/ i = n
    BY <1>1
  <2>2. \A i \in 1 .. n : open[i].kind = frame.open[i].kind
    BY <1>1, <1>4, <2>1
  <2>3. \A i \in 1 .. n : WellFormed(open[i])
    <3>1. WellFormed(open[n])
      BY <1>1, <1>4 DEF WellFormed, Shape
    <3> QED
      BY <1>1, <1>4, <2>1, <3>1 DEF Shape
  <2>4. \A i \in 2 .. n : i \in 1 .. n /\ i - 1 \in 1 .. n
    BY <1>1
  <2> HIDE DEF n
  <2>5. /\ Len(linked.open) > 0
        /\ \A i \in 1 .. Len(linked.open) : linked.open[i].kind = "frame" <=> i = 1
        /\ \A i \in 2 .. Len(linked.open) :
             linked.open[i].kind = "decls"
               => linked.open[i - 1].kind \notin {"handled", "handler"}
    BY <1>1, <1>4, <1>5, <2>2, <2>4 DEF Shape, n
  <2> QED
    BY <1>4, <1>5, <2>3, <2>5 DEF Shape
<1>7. /\ n - 1 \in Nat /\ n - 1 <= n /\ Len(linked.open) = n
      /\ \A i \in 1 .. (n - 1) : frame.open[i] = linked.open[i]
  BY <1>1, <1>4, <1>5
<1>8. /\ Agree(n - 1, LocalMarks(frame), LocalMarks(linked))
      /\ Agree(n - 1, TempMarks(frame), TempMarks(linked))
      /\ Agree(n - 1, Arrays(frame), Arrays(linked))
      /\ Agree(n - 1, Values(frame), Values(linked))
  BY <1>1, <1>6, <1>7, AgreeOpenLemma
<1>9. /\ LocalMarks(frame)[n] = LocalMarks(linked)[n]
      /\ TempMarks(frame)[n] = TempMarks(linked)[n]
      /\ Values(linked)[n] = Values(frame)[n] \cup {block}
      /\ Arrays(linked)[n] = Arrays(frame)[n]
  <2>1. /\ LocalMarks(frame)[n] = top.local /\ TempMarks(frame)[n] = top.temp
        /\ Arrays(frame)[n] = top.arrays /\ Values(frame)[n] = top.values
    BY <1>1, ShapeLemma
  <2>2. /\ LocalMarks(linked)[n] = open[n].local
        /\ TempMarks(linked)[n] = open[n].temp
        /\ Arrays(linked)[n] = open[n].arrays
        /\ Values(linked)[n] = open[n].values
    BY <1>1, <1>5, <1>6, <1>7, ShapeLemma
  <2> QED
    BY <1>4, <2>1, <2>2
<1>10. /\ Agree(n, LocalMarks(frame), LocalMarks(linked))
       /\ Agree(n, TempMarks(frame), TempMarks(linked))
       /\ Agree(n, Arrays(frame), Arrays(linked))
  BY <1>1, <1>8, <1>9 DEF Agree
<1>11. Bracketed(n, linked.temp, TempMarks(linked), Values(linked))
  <2>1. Bracketed(n, frame.temp, TempMarks(frame), Values(frame))
    BY DEF FrameInv
  <2> QED
    BY <1>1, <1>2, <1>5, <1>8, <1>9, <1>10, <2>1, LinkBracketLemma
<1>12. Bracketed(n, linked.local, LocalMarks(linked), Arrays(linked))
  <2>1. Bracketed(n, frame.local, LocalMarks(frame), Arrays(frame))
    BY DEF FrameInv
  <2> QED
    BY <1>1, <1>5, <1>10, <2>1, AgreeLemma
<1>13. Held(linked.local) \cap Held(linked.temp) = {}
  BY <1>2, <1>3, <1>5 DEF FrameInv
<1>14. FrameInv(linked)
  BY <1>6, <1>7, <1>11, <1>12, <1>13 DEF FrameInv
<1>15. Owned(linked) = Owned(frame) \cup {block}
  BY <1>3, <1>5 DEF Owned
<1> QED
  BY <1>14, <1>15 DEF linked, open

(* Leaving a handled sequence, or a handler, in ordinary flow. *)
LEMMA CloseLemma ==
  ASSUME NEW frame, FrameInv(frame),
         frame.open[Len(frame.open)].kind \in {"handled", "handler"}
  PROVE  LET closed == [frame EXCEPT
                          !.open = SubSeq(frame.open, 1, Len(frame.open) - 1)]
         IN  FrameInv(closed) /\ Owned(closed) = Owned(frame)
<1> DEFINE n == Len(frame.open)
           m == n - 1
           closed == [frame EXCEPT !.open = SubSeq(frame.open, 1, n - 1)]
<1>1. /\ Shape(frame) /\ frame.open \in Seq(Construct)
      /\ n \in Nat \ {0} /\ n \in 1 .. n
  BY ShapeLemma DEF FrameInv
<1>2. n # 1 /\ WellFormed(frame.open[n])
  BY <1>1 DEF Shape
<1>3. m \in 1 .. n /\ m \in Nat /\ m > 0 /\ n = m + 1 /\ m <= n
  <2>1. n \in Nat /\ n # 0 /\ n # 1
    BY <1>1, <1>2
  <2> HIDE DEF n
  <2> QED
    BY <2>1
<1>4. /\ closed \in Frame /\ closed.open = SubSeq(frame.open, 1, m)
      /\ closed.local = frame.local /\ closed.temp = frame.temp
  <2>1. SubSeq(frame.open, 1, n - 1) \in Seq(Construct)
    BY <1>1, <1>3
  <2> QED
    BY <1>1, <2>1, SetOpenLemma DEF Shape
<1> HIDE DEF closed, m
<1>5. /\ Shape(closed) /\ Len(closed.open) = m
      /\ \A i \in 1 .. m : frame.open[i] = closed.open[i]
  BY <1>1, <1>3, <1>4, PrefixLemma
<1>6. /\ Agree(m, LocalMarks(frame), LocalMarks(closed))
      /\ Agree(m, TempMarks(frame), TempMarks(closed))
      /\ Agree(m, Arrays(frame), Arrays(closed))
      /\ Agree(m, Values(frame), Values(closed))
  BY <1>1, <1>3, <1>5, AgreeOpenLemma
<1>7. Arrays(frame)[n] = {} /\ Values(frame)[n] = {}
  BY <1>1, <1>2, ShapeLemma DEF WellFormed
<1>8. /\ Agree(m - 1, Arrays(frame), Arrays(closed))
      /\ Agree(m - 1, Values(frame), Values(closed))
      /\ Arrays(closed)[m] = Arrays(frame)[m] \cup Arrays(frame)[m + 1]
      /\ Values(closed)[m] = Values(frame)[m] \cup Values(frame)[m + 1]
  <2>1. m \in 1 .. m /\ \A i \in 1 .. (m - 1) : i \in 1 .. m
    BY <1>3
  <2> QED
    BY <1>3, <1>6, <1>7, <2>1 DEF Agree
<1>9. Bracketed(m, closed.local, LocalMarks(closed), Arrays(closed))
  <2>1. Bracketed(m + 1, frame.local, LocalMarks(frame), Arrays(frame))
    BY <1>3 DEF FrameInv
  <2> QED
    BY <1>3, <1>4, <1>6, <1>8, <2>1, MergeBracketLemma
<1>10. Bracketed(m, closed.temp, TempMarks(closed), Values(closed))
  <2>1. Bracketed(m + 1, frame.temp, TempMarks(frame), Values(frame))
    BY <1>3 DEF FrameInv
  <2> QED
    BY <1>3, <1>4, <1>6, <1>8, <2>1, MergeBracketLemma
<1>11. FrameInv(closed)
  BY <1>4, <1>5, <1>9, <1>10 DEF FrameInv
<1> QED
  BY <1>4, <1>11 DEF Owned, closed

(* At the end of a declaration list its temporaries go and its arrays pass to
   the enclosing construct. *)
LEMMA EndDeclarationsLemma ==
  ASSUME NEW frame, FrameInv(frame),
         frame.open[Len(frame.open)].kind = "decls"
  PROVE  LET n == Len(frame.open)
             ended == [frame EXCEPT
                         !.temp = Rewind(@, frame.open[n].temp),
                         !.open = [SubSeq(frame.open, 1, n - 1) EXCEPT
                                     ![n - 1].arrays = @ \cup frame.open[n].arrays]]
         IN  /\ FrameInv(ended)
             /\ Owned(ended) = Owned(frame) \ Freed(frame.temp, frame.open[n].temp)
             /\ Freed(frame.temp, frame.open[n].temp) \subseteq Owned(frame)
<1> DEFINE n == Len(frame.open)
           m == n - 1
           short == SubSeq(frame.open, 1, n - 1)
           open == [short EXCEPT ![n - 1].arrays = @ \cup frame.open[n].arrays]
           kept == Rewind(frame.temp, frame.open[n].temp)
           ended == [frame EXCEPT !.temp = kept, !.open = open]
<1>1. /\ Shape(frame) /\ frame.open \in Seq(Construct)
      /\ n \in Nat \ {0} /\ n \in 1 .. n /\ frame.open[n] \in Construct
  BY ShapeLemma DEF FrameInv
<1>2. n # 1
  BY <1>1 DEF Shape
<1>3. /\ m \in 1 .. n /\ m \in 1 .. m /\ m \in Nat /\ m > 0 /\ n = m + 1 /\ m <= n
      /\ n \in 2 .. n
  <2>1. n \in Nat /\ n # 0 /\ n # 1
    BY <1>1, <1>2
  <2> HIDE DEF n
  <2> QED
    BY <2>1
<1>4. frame.open[m].kind \notin {"handled", "handler"}
  BY <1>1, <1>3 DEF Shape
<1>5. /\ short \in Seq(Construct) /\ Len(short) = m
      /\ \A i \in 1 .. m : short[i] = frame.open[i]
      /\ frame.open[m] \in Construct
  BY <1>1, <1>3
<1>6. /\ open \in Seq(Construct) /\ Len(open) = m
      /\ \A i \in 1 .. (m - 1) : open[i] = frame.open[i]
      /\ \A i \in 1 .. m : /\ open[i].kind = frame.open[i].kind
                           /\ open[i].occurrence = frame.open[i].occurrence
                           /\ open[i].local = frame.open[i].local
                           /\ open[i].temp = frame.open[i].temp
                           /\ open[i].values = frame.open[i].values
      /\ open[m].arrays = frame.open[m].arrays \cup frame.open[n].arrays
  <2> DEFINE outer == [frame.open[m] EXCEPT !.arrays = @ \cup frame.open[n].arrays]
  <2>1. /\ outer \in Construct
        /\ outer.kind = frame.open[m].kind
        /\ outer.occurrence = frame.open[m].occurrence
        /\ outer.local = frame.open[m].local /\ outer.temp = frame.open[m].temp
        /\ outer.values = frame.open[m].values
        /\ outer.arrays = frame.open[m].arrays \cup frame.open[n].arrays
    BY <1>1, <1>5 DEF Construct
  <2>2. open = [short EXCEPT ![m] = outer]
    BY <1>3, <1>5
  <2> HIDE DEF open, outer, short
  <2> QED
    BY <1>3, <1>5, <2>1, <2>2
<1> HIDE DEF open, m, short
<1>7. /\ IsOwner(frame.local) /\ IsOwner(frame.temp)
      /\ Bracketed(m + 1, frame.local, LocalMarks(frame), Arrays(frame))
      /\ Bracketed(m + 1, frame.temp, TempMarks(frame), Values(frame))
      /\ Held(frame.local) \cap Held(frame.temp) = {}
  BY <1>3 DEF FrameInv, Bracketed
<1>8. TempMarks(frame)[n] = frame.open[n].temp /\ Live(frame.temp, frame.open[n].temp)
  <2>1. TempMarks(frame)[n] = frame.open[n].temp
    BY <1>1, ShapeLemma
  <2> QED
    BY <1>1, <2>1 DEF FrameInv, Bracketed
<1>9. /\ kept \in Seq(Blocks)
      /\ Held(kept) = Held(frame.temp) \ Freed(frame.temp, frame.open[n].temp)
      /\ Freed(frame.temp, frame.open[n].temp) \subseteq Held(frame.temp)
  BY <1>7, <1>8, RewindLemma DEF IsOwner
<1> HIDE DEF kept
<1>10. /\ ended \in Frame /\ ended.open = open
       /\ ended.local = frame.local /\ ended.temp = kept
  <2>1. frame \in Frame
    BY <1>1 DEF Shape
  <2> QED
    BY <1>6, <1>9, <2>1 DEF Frame
<1> HIDE DEF ended
<1>11. Shape(ended)
  <2>1. \A i \in 1 .. m : i \in 1 .. n /\ (i \in 1 .. (m - 1) \/ i = m)
    BY <1>3
  <2>2. \A i \in 1 .. m : WellFormed(open[i])
    <3>1. WellFormed(open[m])
      BY <1>3, <1>4, <1>6 DEF WellFormed
    <3> QED
      BY <1>1, <1>6, <2>1, <3>1 DEF Shape
  <2>3. \A i \in 2 .. m : /\ i \in 1 .. m /\ i - 1 \in 1 .. m /\ i \in 2 .. n
    BY <1>3
  <2> HIDE DEF n
  <2>4. /\ Len(ended.open) > 0
        /\ \A i \in 1 .. Len(ended.open) : ended.open[i].kind = "frame" <=> i = 1
        /\ \A i \in 2 .. Len(ended.open) :
             ended.open[i].kind = "decls"
               => ended.open[i - 1].kind \notin {"handled", "handler"}
    BY <1>1, <1>3, <1>6, <1>10, <2>1, <2>3 DEF Shape, n
  <2> QED
    BY <1>6, <1>10, <2>2, <2>4 DEF Shape
<1>12. /\ LocalMarks(ended)[m] = LocalMarks(frame)[m]
       /\ TempMarks(ended)[m] = TempMarks(frame)[m]
       /\ Values(ended)[m] = Values(frame)[m]
       /\ Arrays(ended)[m] = Arrays(frame)[m] \cup Arrays(frame)[m + 1]
  <2>1. /\ LocalMarks(frame)[m] = frame.open[m].local
        /\ TempMarks(frame)[m] = frame.open[m].temp
        /\ Arrays(frame)[m] = frame.open[m].arrays
        /\ Values(frame)[m] = frame.open[m].values
        /\ Arrays(frame)[n] = frame.open[n].arrays
    BY <1>1, <1>3, ShapeLemma
  <2>2. /\ LocalMarks(ended)[m] = open[m].local
        /\ TempMarks(ended)[m] = open[m].temp
        /\ Arrays(ended)[m] = open[m].arrays
        /\ Values(ended)[m] = open[m].values
    BY <1>3, <1>6, <1>10, <1>11, ShapeLemma
  <2> QED
    BY <1>3, <1>6, <2>1, <2>2
<1>13. /\ Agree(m - 1, LocalMarks(frame), LocalMarks(ended))
       /\ Agree(m - 1, TempMarks(frame), TempMarks(ended))
       /\ Agree(m - 1, Arrays(frame), Arrays(ended))
       /\ Agree(m - 1, Values(frame), Values(ended))
  <2>1. /\ m - 1 \in Nat /\ m - 1 <= Len(frame.open) /\ m - 1 <= Len(ended.open)
        /\ \A i \in 1 .. (m - 1) : frame.open[i] = ended.open[i]
    BY <1>3, <1>6, <1>10
  <2> QED
    BY <1>1, <1>11, <2>1, AgreeOpenLemma
<1>14. /\ Agree(m, LocalMarks(frame), LocalMarks(ended))
       /\ Agree(m, TempMarks(frame), TempMarks(ended))
       /\ Agree(m, Values(frame), Values(ended))
  <2>1. \A i \in 1 .. m : i \in 1 .. (m - 1) \/ i = m
    BY <1>3
  <2> QED
    BY <1>12, <1>13, <2>1 DEF Agree
<1>15. Bracketed(m, ended.local, LocalMarks(ended), Arrays(ended))
  BY <1>3, <1>7, <1>10, <1>12, <1>13, <1>14, MergeBracketLemma
<1>16. Bracketed(m, ended.temp, TempMarks(ended), Values(ended))
  <2>1. (m + 1) - 1 = m /\ m + 1 \in Nat /\ m + 1 \in 1 .. (m + 1)
    BY <1>3
  <2>2. Bracketed((m + 1) - 1, Rewind(frame.temp, TempMarks(frame)[m + 1]),
                  TempMarks(ended), Values(ended))
    BY <1>7, <1>14, <2>1, CutBracketLemma
  <2>3. ended.temp = Rewind(frame.temp, TempMarks(frame)[m + 1])
    BY <1>3, <1>8, <1>10 DEF kept
  <2> QED
    BY <2>1, <2>2, <2>3
<1>17. FrameInv(ended)
  BY <1>6, <1>7, <1>9, <1>10, <1>11, <1>15, <1>16 DEF FrameInv
<1>18. Owned(ended) = Owned(frame) \ Freed(frame.temp, frame.open[n].temp)
  BY <1>7, <1>9, <1>10 DEF Owned
<1> QED
  BY <1>9, <1>17, <1>18 DEF Owned, ended, open, short, kept

-----------------------------------------------------------------------------
(* The heap, and the steps of the machine. *)

(***************************************************************************)
(* A ledger of the heap h: owns[f] are the blocks of activation f of n and *)
(* t is the buffer in transfer.                                            *)
(***************************************************************************)
Ledger(n, owns, h, t) ==
  /\ \A f \in 1 .. n : owns[f] \subseteq Blocks
  /\ \A x \in h : x \in Blocks /\ (x = t \/ \E f \in 1 .. n : x \in owns[f])
  /\ \A f \in 1 .. n : owns[f] \subseteq h
  /\ t # NoBlock => t \in h
  /\ \A f \in 1 .. n : t \notin owns[f]
  /\ \A f, g \in 1 .. n : f # g => owns[f] \cap owns[g] = {}

(* The last owner gives up blocks, takes a new one, or takes the one in transfer. *)
LEMMA LedgerReplaceLemma ==
  ASSUME NEW n \in Nat \ {0}, NEW owns, NEW h, NEW t, Ledger(n, owns, h, t),
         NEW owns2, \A f \in 1 .. n : f # n => owns2[f] = owns[f]
  PROVE  /\ \A freed : freed \subseteq owns[n] /\ owns2[n] = owns[n] \ freed
              => Ledger(n, owns2, h \ freed, t)
         /\ \A block \in Blocks \ h :
              t # block /\ owns2[n] = owns[n] \cup {block}
                => Ledger(n, owns2, h \cup {block}, t)
         /\ t # NoBlock /\ owns2[n] = owns[n] \cup {t} => Ledger(n, owns2, h, NoBlock)
<1>1. n \in 1 .. n
  OBVIOUS
<1>2. ASSUME NEW freed, freed \subseteq owns[n], owns2[n] = owns[n] \ freed
      PROVE  Ledger(n, owns2, h \ freed, t)
  BY <1>1, <1>2 DEF Ledger
<1>3. ASSUME NEW block \in Blocks \ h, t # block, owns2[n] = owns[n] \cup {block}
      PROVE  Ledger(n, owns2, h \cup {block}, t)
  BY <1>1, <1>3 DEF Ledger
<1>4. ASSUME t # NoBlock, owns2[n] = owns[n] \cup {t}
      PROVE  Ledger(n, owns2, h, NoBlock)
  BY <1>1, <1>4, NoBlockAssumption DEF Ledger
<1> QED
  BY <1>2, <1>3, <1>4

(* A new activation owns nothing. *)
LEMMA LedgerPushLemma ==
  ASSUME NEW n \in Nat, NEW owns, NEW h, NEW t, Ledger(n, owns, h, t),
         NEW owns2, \A f \in 1 .. n : owns2[f] = owns[f], owns2[n + 1] = {}
  PROVE  Ledger(n + 1, owns2, h, t)
<1>1. \A f \in 1 .. (n + 1) : f \in 1 .. n \/ f = n + 1
  OBVIOUS
<1>2. \A f \in 1 .. n : f \in 1 .. (n + 1)
  OBVIOUS
<1> QED
  BY <1>1, <1>2 DEF Ledger

(* The last owner goes with all it owns, and may hand one fresh block over. *)
LEMMA LedgerPopLemma ==
  ASSUME NEW n \in Nat \ {0}, NEW owns, NEW h, NEW t, Ledger(n, owns, h, t),
         NEW owns2, \A f \in 1 .. (n - 1) : owns2[f] = owns[f]
  PROVE  /\ Ledger(n - 1, owns2, h \ owns[n], t)
         /\ \A block \in Blocks \ h :
              t = NoBlock => Ledger(n - 1, owns2, (h \cup {block}) \ owns[n], block)
<1>1. \A f \in 1 .. n : f \in 1 .. (n - 1) \/ f = n
  OBVIOUS
<1>2. n \in 1 .. n /\ \A f \in 1 .. (n - 1) : f \in 1 .. n /\ f # n
  OBVIOUS
<1>3. Ledger(n - 1, owns2, h \ owns[n], t)
  BY <1>1, <1>2 DEF Ledger
<1>4. ASSUME NEW block \in Blocks \ h, t = NoBlock
      PROVE  Ledger(n - 1, owns2, (h \cup {block}) \ owns[n], block)
  <2>1. block # NoBlock /\ block \notin h
    BY NoBlockAssumption
  <2>2. \A f \in 1 .. (n - 1) : block \notin owns2[f] /\ owns2[f] \cap owns[n] = {}
    BY <1>2, <2>1 DEF Ledger
  <2>3. \A x \in h \ owns[n] : x \in Blocks /\ \E f \in 1 .. (n - 1) : x \in owns2[f]
    BY <1>1, <1>2, <1>4, NoBlockAssumption DEF Ledger
  <2>4. block \notin owns[n]
    BY <1>2, <2>1 DEF Ledger
  <2> QED
    BY <1>1, <1>2, <1>4, <2>1, <2>2, <2>3, <2>4 DEF Ledger
<1> QED
  BY <1>3, <1>4

(* Who owns the heap h, when the activations are s and t is in transfer. *)
Accounts(s, h, t) == Ledger(Len(s), [f \in 1 .. Len(s) |-> Owned(s[f])], h, t)

Activations(s) == s \in Seq(Frame) /\ \A f \in 1 .. Len(s) : FrameInv(s[f])

(* What an activation owns are blocks. *)
LEMMA OwnedBlocks ==
  ASSUME NEW frame, FrameInv(frame)
  PROVE  Owned(frame) \subseteq Blocks
BY ShapeLemma DEF FrameInv, Owned, Held

(* Changing the running activation. *)
LEMMA ReplaceLemma ==
  ASSUME NEW s, Activations(s), s # << >>, NEW frame, FrameInv(frame),
         NEW h, NEW t \in Marks, Accounts(s, h, t)
  PROVE  LET n == Len(s)
             s2 == [s EXCEPT ![n] = frame]
         IN  /\ Activations(s2) /\ s2 # << >>
             /\ \A freed : /\ freed \subseteq Owned(s[n])
                           /\ Owned(frame) = Owned(s[n]) \ freed
                           => Accounts(s2, h \ freed, t)
             /\ \A block \in Blocks \ h :
                  Owned(frame) = Owned(s[n]) \cup {block}
                    => Accounts(s2, h \cup {block}, t)
             /\ t # NoBlock /\ Owned(frame) = Owned(s[n]) \cup {t}
                  => Accounts(s2, h, NoBlock)
<1> DEFINE n == Len(s)
           s2 == [s EXCEPT ![n] = frame]
<1>1. n \in Nat /\ n \in 1 .. n /\ frame \in Frame /\ s \in Seq(Frame)
  BY EmptySeq DEF Activations, FrameInv, Shape
<1>2. /\ s2 \in Seq(Frame) /\ Len(s2) = n /\ s2 # << >>
      /\ \A f \in 1 .. n : f # n => s2[f] = s[f]
      /\ s2[n] = frame
  BY <1>1
<1>3. Activations(s2)
  BY <1>1, <1>2 DEF Activations
<1>4. /\ \A f \in 1 .. n : Owned(s[f]) \subseteq Blocks
      /\ Owned(frame) \subseteq Blocks
  BY OwnedBlocks DEF Activations
<1> HIDE DEF s2, n
<1> DEFINE owns == [f \in 1 .. n |-> Owned(s[f])]
           owns2 == [f \in 1 .. n |-> Owned(s2[f])]
<1>a. /\ owns[n] = Owned(s[n]) /\ owns2[n] = Owned(frame)
      /\ \A f \in 1 .. n : f # n => owns2[f] = owns[f]
      /\ n \in Nat \ {0}
  BY <1>1, <1>2
<1>b. Ledger(n, owns, h, t) /\ \A h2, t2 : Accounts(s2, h2, t2) <=> Ledger(n, owns2, h2, t2)
  BY <1>2 DEF Accounts, n
<1> HIDE DEF owns, owns2
<1>5. ASSUME NEW freed, freed \subseteq Owned(s[n]),
             Owned(frame) = Owned(s[n]) \ freed
      PROVE  Accounts(s2, h \ freed, t)
  <2>1. freed \subseteq owns[n] /\ owns2[n] = owns[n] \ freed
    BY <1>5, <1>a
  <2>2. Ledger(n, owns2, h \ freed, t)
    BY <1>a, <1>b, <2>1, LedgerReplaceLemma
  <2> QED
    BY <1>b, <2>2
<1>6. ASSUME NEW block \in Blocks \ h, Owned(frame) = Owned(s[n]) \cup {block}
      PROVE  Accounts(s2, h \cup {block}, t)
  <2>1. t # block
    BY <1>b, NoBlockAssumption DEF Ledger
  <2> QED
    BY <1>6, <1>a, <1>b, <2>1, LedgerReplaceLemma
<1>7. ASSUME t # NoBlock, Owned(frame) = Owned(s[n]) \cup {t}
      PROVE  Accounts(s2, h, NoBlock)
  BY <1>7, <1>a, <1>b, LedgerReplaceLemma
<1> QED
  BY <1>2, <1>3, <1>5, <1>6, <1>7 DEF s2, n

(* A call. *)
LEMMA PushLemma ==
  ASSUME NEW s, Activations(s), NEW frame, FrameInv(frame), Owned(frame) = {},
         NEW h, NEW t \in Marks, Accounts(s, h, t)
  PROVE  Activations(Append(s, frame)) /\ Accounts(Append(s, frame), h, t)
<1> DEFINE n == Len(s)
           s2 == Append(s, frame)
<1>1. n \in Nat /\ frame \in Frame /\ s \in Seq(Frame)
  BY DEF Activations, FrameInv, Shape
<1>2. /\ s2 \in Seq(Frame) /\ Len(s2) = n + 1
      /\ \A f \in 1 .. n : s2[f] = s[f]
      /\ s2[n + 1] = frame
  BY <1>1
<1>3. \A f \in 1 .. (n + 1) : f \in 1 .. n \/ f = n + 1
  BY <1>1
<1>4. \A f \in 1 .. n : f \in 1 .. (n + 1)
  BY <1>1
<1> HIDE DEF s2, n
<1>5. Activations(s2)
  BY <1>1, <1>2, <1>3 DEF Activations, n
<1> DEFINE owns == [f \in 1 .. n |-> Owned(s[f])]
           owns2 == [f \in 1 .. (n + 1) |-> Owned(s2[f])]
<1>6. Ledger(n, owns, h, t) /\ (Accounts(s2, h, t) <=> Ledger(n + 1, owns2, h, t))
  BY <1>2 DEF Accounts, n
<1>7. (\A f \in 1 .. n : owns2[f] = owns[f]) /\ owns2[n + 1] = {}
  BY <1>1, <1>2, <1>4
<1> HIDE DEF owns, owns2
<1>8. Accounts(s2, h, t)
  BY <1>1, <1>6, <1>7, LedgerPushLemma
<1> QED
  BY <1>5, <1>8 DEF s2

(* A return: everything the activation owned is released. *)
LEMMA PopLemma ==
  ASSUME NEW s, Activations(s), s # << >>,
         NEW h, NEW t \in Marks, Accounts(s, h, t)
  PROVE  LET n == Len(s)
             s2 == SubSeq(s, 1, n - 1)
         IN  /\ Activations(s2)
             /\ Accounts(s2, h \ Owned(s[n]), t)
             /\ \A block \in Blocks \ h :
                  t = NoBlock => Accounts(s2, (h \cup {block}) \ Owned(s[n]), block)
<1> DEFINE n == Len(s)
           s2 == SubSeq(s, 1, n - 1)
<1>1. n \in Nat /\ n \in 1 .. n /\ n - 1 \in Nat /\ s \in Seq(Frame)
  BY EmptySeq DEF Activations
<1>2. /\ s2 \in Seq(Frame) /\ Len(s2) = n - 1
      /\ \A f \in 1 .. (n - 1) : s2[f] = s[f]
  <2>1. n - 1 \in 0 .. Len(s) /\ Len(s) \in Nat
    BY <1>1
  <2> HIDE DEF n
  <2> QED
    BY <1>1, <2>1
<1>3. \A f \in 1 .. n : f \in 1 .. (n - 1) \/ f = n
  BY <1>1
<1>4. \A f \in 1 .. (n - 1) : f \in 1 .. n /\ f # n
  BY <1>1
<1>5. \A f \in 1 .. n : Owned(s[f]) \subseteq Blocks
  BY OwnedBlocks DEF Activations
<1> HIDE DEF s2, n
<1>6. Activations(s2)
  BY <1>1, <1>2, <1>4 DEF Activations, n
<1> DEFINE owns == [f \in 1 .. n |-> Owned(s[f])]
           owns2 == [f \in 1 .. (n - 1) |-> Owned(s2[f])]
<1>a. /\ Ledger(n, owns, h, t)
      /\ \A h2, t2 : Accounts(s2, h2, t2) <=> Ledger(n - 1, owns2, h2, t2)
  BY <1>2 DEF Accounts, n
<1>b. /\ \A f \in 1 .. (n - 1) : owns2[f] = owns[f]
      /\ owns[n] = Owned(s[n]) /\ n \in Nat \ {0}
  BY <1>1, <1>2, <1>4
<1> HIDE DEF owns, owns2
<1>7. Accounts(s2, h \ Owned(s[n]), t)
  BY <1>a, <1>b, LedgerPopLemma
<1>8. ASSUME NEW block \in Blocks \ h, t = NoBlock
      PROVE  Accounts(s2, (h \cup {block}) \ Owned(s[n]), block)
  BY <1>8, <1>a, <1>b, LedgerPopLemma
<1> QED
  BY <1>6, <1>7, <1>8 DEF s2, n

-----------------------------------------------------------------------------

(***************************************************************************)
(* The inductive invariant.  Next to the activations and the ledger it     *)
(* needs what the tests behind calls rely on: nothing but the exception of *)
(* an untested 'Image is pending in ordinary code, and a result is in      *)
(* transfer only on a clean return.  The ledger is kept of the heap less   *)
(* the buffers that are lost.                                              *)
(***************************************************************************)
Globals ==
  /\ pending \in Exceptions \cup {None}
  /\ name \in Exceptions \cup {None}
  /\ transfer \in Marks
  /\ pc \in Control
  /\ phase \in { "elaborate", "main" }
  /\ reported \in Exceptions \cup {None}
  /\ late \in BOOLEAN
  /\ PendingDiscipline
  /\ pending # None => name = pending
  /\ pc = "stopped" => reported = pending

(* An activation that waits for a call, or that one has just returned to, is in
   code that may adopt a result: not directly in a handled sequence. *)
Suspended ==
  \A f \in 1 .. Len(stack) :
    f < Len(stack) \/ pc = "landed"
      => stack[f].open[Len(stack[f].open)].kind \notin {"handled", "handler"}

Kept == heap \ lost

Inv ==
  /\ Globals
  /\ Activations(stack)
  /\ Accounts(stack, Kept, transfer)
  /\ lost \subseteq heap \cap Blocks
  /\ Suspended

(* The invariant holds when the process starts. *)
LEMMA InitInv ==
  ASSUME Init PROVE Inv
<1> DEFINE main == NewFrame("none")
<1>1. FrameInv(main) /\ Owned(main) = {}
  BY NewFrameLemma
<1>2. main \in Frame
  BY <1>1 DEF FrameInv, Shape
<1>3. stack = << main >> /\ Len(stack) = 1 /\ stack[1] = main
  BY DEF Init
<1> HIDE DEF main
<1>4. Activations(stack)
  BY <1>1, <1>2, <1>3 DEF Activations
<1>5. Accounts(stack, Kept, transfer)
  <2>1. Kept = {} /\ transfer = NoBlock
    BY DEF Init, Kept
  <2>2. [f \in 1 .. 1 |-> Owned(stack[f])][1] = {}
    BY <1>1, <1>3
  <2>3. Ledger(1, [f \in 1 .. 1 |-> Owned(stack[f])], {}, NoBlock)
    BY <2>2 DEF Ledger
  <2> QED
    BY <1>3, <2>1, <2>3 DEF Accounts
<1>6. Globals
  BY DEF Init, Globals, PendingDiscipline, Marks, Control
<1>7. Suspended
  BY <1>3 DEF Init, Suspended
<1>8. lost \subseteq heap \cap Blocks
  BY DEF Init
<1> QED
  BY <1>4, <1>5, <1>6, <1>7, <1>8 DEF Inv

(* The running activation. *)
LEMMA CurrentLemma ==
  ASSUME Inv, stack # << >>
  PROVE  /\ Len(stack) \in Nat \ {0} /\ Len(stack) \in 1 .. Len(stack)
         /\ stack \in Seq(Frame)
         /\ FrameInv(Current) /\ Shape(Current) /\ Current \in Frame
         /\ Owned(Current) \subseteq Kept
         /\ Len(Current.open) \in Nat \ {0}
         /\ Top \in Construct
<1>1. Len(stack) \in Nat \ {0} /\ Len(stack) \in 1 .. Len(stack) /\ stack \in Seq(Frame)
  BY EmptySeq DEF Inv, Activations
<1>2. FrameInv(Current)
  BY <1>1 DEF Inv, Activations, Current
<1>3. Owned(Current) \subseteq Kept
  BY <1>1 DEF Inv, Accounts, Ledger, Current
<1> QED
  BY <1>1, <1>2, <1>3, ShapeLemma DEF FrameInv, Shape, Top

(* The callers of the running activation stay as they are. *)
LEMMA SuspendedLemma ==
  ASSUME Inv, stack # << >>, NEW frame, SetCurrent(frame), pc' # "landed"
  PROVE  Suspended'
<1>1. Len(stack) \in Nat /\ stack \in Seq(Frame)
  BY CurrentLemma
<1>2. /\ Len(stack') = Len(stack)
      /\ \A f \in 1 .. Len(stack) : f < Len(stack) => stack'[f] = stack[f]
  BY <1>1 DEF SetCurrent
<1> QED
  BY <1>2 DEF Inv, Suspended

(* What one activation frees is none of what is lost. *)
LEMMA FreeLemma ==
  ASSUME Inv, stack # << >>, NEW freed, freed \subseteq Owned(Current),
         heap' = heap \ freed, lost' = lost
  PROVE  Kept' = Kept \ freed /\ lost' \subseteq heap' \cap Blocks
<1>1. freed \subseteq Kept
  BY CurrentLemma
<1> QED
  BY <1>1 DEF Inv, Kept

(* A new block is none of what is lost. *)
LEMMA NewBlockLemma ==
  ASSUME Inv, NEW block \in Blocks \ heap
  PROVE  block \in Blocks \ Kept /\ (heap \cup {block}) \ lost = Kept \cup {block}
BY DEF Inv, Kept

(***************************************************************************)
(* Steps of ordinary code that change the running activation and nothing   *)
(* of the exception state: they free some of its blocks, or none.          *)
(***************************************************************************)
LEMMA LocalStep ==
  ASSUME Inv, stack # << >>,
         NEW frame, FrameInv(frame), SetCurrent(frame),
         NEW freed, freed \subseteq Owned(Current),
         Owned(frame) = Owned(Current) \ freed, heap' = heap \ freed,
         pc # "landed",
         UNCHANGED << pending, name, transfer, pc, phase, reported, late, lost >>
  PROVE  Inv'
<1>0. Kept' = Kept \ freed /\ lost' \subseteq heap' \cap Blocks
  BY FreeLemma
<1>1. transfer \in Marks /\ Activations(stack) /\ Accounts(stack, Kept, transfer)
  BY DEF Inv, Globals
<1>2. /\ Activations([stack EXCEPT ![Len(stack)] = frame])
      /\ Accounts([stack EXCEPT ![Len(stack)] = frame], Kept \ freed, transfer)
  BY <1>1, ReplaceLemma DEF Current
<1>3. Activations(stack') /\ Accounts(stack', Kept', transfer')
  BY <1>0, <1>2 DEF SetCurrent
<1>4. Globals'
  BY DEF Inv, Globals, PendingDiscipline
<1>5. Suspended'
  BY SuspendedLemma
<1> QED
  BY <1>0, <1>3, <1>4, <1>5 DEF Inv

(* Opening any construct that is marked as the emitter marks it. *)
LEMMA OpenStep ==
  ASSUME Inv, stack # << >>, pc # "landed",
         NEW construct \in Construct, Open(construct),
         construct.kind \notin {"frame", "handler"},
         construct.local = Checkpoint(Current.local),
         construct.temp = Checkpoint(Current.temp),
         construct.arrays = {}, construct.values = {},
         construct.kind = "decls" => Top.kind \notin {"handled", "handler"},
         UNCHANGED << pending, name, heap, transfer, pc, phase, reported, late, lost >>
  PROVE  Inv'
<1> DEFINE opened == [Current EXCEPT !.open = Append(@, construct)]
<1>1. FrameInv(Current)
  BY CurrentLemma
<1>2. FrameInv(opened) /\ Owned(opened) = Owned(Current)
  BY <1>1, OpenLemma DEF Top
<1>3. SetCurrent(opened)
  BY DEF Open
<1> HIDE DEF opened
<1>4. Owned(opened) = Owned(Current) \ {} /\ heap' = heap \ {}
  BY <1>2
<1> QED
  BY <1>2, <1>3, <1>4, LocalStep

(* What Opened makes is such a construct. *)
LEMMA OpenedLemma ==
  ASSUME Inv, stack # << >>, NEW kind \in Kinds
  PROVE  /\ Opened(kind) \in Construct
         /\ Opened(kind).kind = kind
         /\ Opened(kind).local = Checkpoint(Current.local)
         /\ Opened(kind).temp = Checkpoint(Current.temp)
         /\ Opened(kind).arrays = {} /\ Opened(kind).values = {}
<1>1. IsOwner(Current.local) /\ IsOwner(Current.temp)
  BY CurrentLemma DEF FrameInv, Bracketed
<1>2. Checkpoint(Current.local) \in Marks /\ Checkpoint(Current.temp) \in Marks
  BY <1>1, CheckpointLemma DEF Marks
<1> QED
  BY <1>2 DEF Opened, Construct, Occurrence, NoOccurrence

(* A statement begins. *)
LEMMA StartScopeStep == ASSUME Inv, StartScope PROVE Inv'
<1>1. stack # << >> /\ pc # "landed"
  BY DEF StartScope, Running
<1>2. "scope" \in Kinds
  BY DEF Kinds
<1> QED
  BY <1>1, <1>2, OpenedLemma, OpenStep DEF StartScope

(* A declarative part begins. *)
LEMMA StartDeclarationsStep == ASSUME Inv, StartDeclarations PROVE Inv'
<1>1. stack # << >> /\ pc # "landed" /\ Top.kind \notin {"handled", "handler"}
  BY DEF StartDeclarations, Running
<1>2. "decls" \in Kinds
  BY DEF Kinds
<1> QED
  BY <1>1, <1>2, OpenedLemma, OpenStep DEF StartDeclarations

(* A sequence with handlers begins. *)
LEMMA EnterHandledStep ==
  ASSUME Inv, NEW handles \in HandlerSets, EnterHandled(handles) PROVE Inv'
<1> DEFINE construct == [Opened("handled") EXCEPT !.handles = handles]
<1>1. stack # << >> /\ pc # "landed"
  BY DEF EnterHandled, Running
<1>2. "handled" \in Kinds /\ handles \in SUBSET Exceptions
  BY ExceptionAssumption DEF Kinds
<1>3. /\ construct \in Construct /\ construct.kind = "handled"
      /\ construct.local = Checkpoint(Current.local)
      /\ construct.temp = Checkpoint(Current.temp)
      /\ construct.arrays = {} /\ construct.values = {}
  BY <1>1, <1>2, OpenedLemma DEF Construct
<1> HIDE DEF construct
<1> QED
  BY <1>1, <1>3, OpenStep DEF EnterHandled, construct

(* A construct whose kind is not frame has one outside it. *)
LEMMA InnerLemma ==
  ASSUME Inv, stack # << >>, NEW k \in 1 .. Len(Current.open),
         Current.open[k].kind # "frame"
  PROVE  k \in 2 .. Len(Current.open)
BY CurrentLemma DEF Shape

(* A statement ends with its rewind. *)
LEMMA EndScopeStep == ASSUME Inv, EndScope PROVE Inv'
<1> DEFINE n == Len(Current.open)
           cut == [Rewound(Current, Top) EXCEPT !.open = UpTo(n - 1)]
<1>1. stack # << >> /\ pc # "landed" /\ Top.kind = "scope"
  BY DEF EndScope, Running
<1>2. n \in 2 .. n
  BY <1>1, CurrentLemma, InnerLemma DEF Top
<1>3. /\ FrameInv(cut)
      /\ Owned(cut) = Owned(Current) \ FreedBy(Current, Top)
      /\ FreedBy(Current, Top) \subseteq Owned(Current)
  BY <1>1, <1>2, CurrentLemma, CutLemma DEF Top, UpTo
<1>4. /\ SetCurrent(cut) /\ heap' = heap \ FreedBy(Current, Top)
      /\ UNCHANGED << pending, name, transfer, pc, phase, reported, late, lost >>
  BY DEF EndScope
<1> HIDE DEF cut
<1> QED
  BY <1>1, <1>3, <1>4, LocalStep

(* exit leaves every construct inside the loop, whose rewind frees for all. *)
LEMMA ExitLoopStep == ASSUME Inv, NEW k, ExitLoop(k) PROVE Inv'
<1> DEFINE cut == [Rewound(Current, Current.open[k]) EXCEPT !.open = UpTo(k - 1)]
<1>1. stack # << >> /\ pc # "landed" /\ k \in 2 .. (Len(Current.open) - 1)
  BY DEF ExitLoop, Running
<1>2. k \in 2 .. Len(Current.open)
  BY <1>1, CurrentLemma
<1>3. /\ FrameInv(cut)
      /\ Owned(cut) = Owned(Current) \ FreedBy(Current, Current.open[k])
      /\ FreedBy(Current, Current.open[k]) \subseteq Owned(Current)
  BY <1>1, <1>2, CurrentLemma, CutLemma DEF UpTo
<1>4. /\ SetCurrent(cut) /\ heap' = heap \ FreedBy(Current, Current.open[k])
      /\ UNCHANGED << pending, name, transfer, pc, phase, reported, late, lost >>
  BY DEF ExitLoop
<1> HIDE DEF cut
<1> QED
  BY <1>1, <1>3, <1>4, LocalStep

(* A sequence with handlers, or a handler, is done: nothing to free. *)
LEMMA LeaveHandledStep == ASSUME Inv, LeaveHandled PROVE Inv'
<1> DEFINE closed == [Current EXCEPT !.open = UpTo(Len(Current.open) - 1)]
<1>1. stack # << >> /\ pc # "landed" /\ Top.kind \in {"handled", "handler"}
  BY DEF LeaveHandled, Running
<1>2. FrameInv(closed) /\ Owned(closed) = Owned(Current)
  BY <1>1, CurrentLemma, CloseLemma DEF Top, UpTo
<1>3. /\ SetCurrent(closed)
      /\ UNCHANGED << pending, name, heap, transfer, pc, phase, reported, late, lost >>
  BY DEF LeaveHandled
<1> DEFINE freed == {}
<1> HIDE DEF closed
<1>4. /\ Owned(closed) = Owned(Current) \ freed /\ heap' = heap \ freed
      /\ freed \subseteq Owned(Current) /\ stack # << >> /\ pc # "landed"
      /\ UNCHANGED << pending, name, transfer, pc, phase, reported, late, lost >>
  BY <1>1, <1>2, <1>3
<1>5. FrameInv(closed) /\ SetCurrent(closed)
  BY <1>2, <1>3
<1> HIDE DEF freed
<1> QED
  BY <1>4, <1>5, LocalStep

(* A declarative part ends: its temporaries go, its arrays move outwards. *)
LEMMA EndDeclarationsStep == ASSUME Inv, EndDeclarations PROVE Inv'
<1> DEFINE n == Len(Current.open)
           freed == Freed(Current.temp, Top.temp)
           ended == [Current EXCEPT
                       !.temp = Rewind(@, Top.temp),
                       !.open = [UpTo(n - 1) EXCEPT ![n - 1].arrays = @ \cup Top.arrays]]
<1>1. stack # << >> /\ pc # "landed" /\ Top.kind = "decls"
  BY DEF EndDeclarations, Running
<1>2. /\ FrameInv(ended) /\ Owned(ended) = Owned(Current) \ freed
      /\ freed \subseteq Owned(Current)
  BY <1>1, CurrentLemma, EndDeclarationsLemma DEF Top, UpTo
<1>3. /\ SetCurrent(ended) /\ heap' = heap \ freed
      /\ UNCHANGED << pending, name, transfer, pc, phase, reported, late, lost >>
  BY DEF EndDeclarations
<1> HIDE DEF ended, freed
<1> QED
  BY <1>1, <1>2, <1>3, LocalStep

-----------------------------------------------------------------------------
(* Storage. *)

(* A test moves control and leaves the rest of the exception state. *)
LEMMA TestedLemma ==
  ASSUME Inv, pc = "run" \/ (pc = "landed" /\ pending # None), Tested,
         UNCHANGED << pending, name, transfer, phase, reported >>
  PROVE  Globals' /\ pc' # "landed"
BY DEF Inv, Globals, PendingDiscipline, Tested, Control

(* A block is linked into a list of the running activation. *)
LEMMA LinkStep ==
  ASSUME Inv, stack # << >>, pc = "run",
         NEW frame, FrameInv(frame), SetCurrent(frame),
         NEW block \in Blocks \ heap,
         Owned(frame) = Owned(Current) \cup {block}, heap' = heap \cup {block},
         Tested,
         UNCHANGED << pending, name, transfer, phase, reported, lost >>
  PROVE  Inv'
<1>0. block \in Blocks \ Kept /\ Kept' = Kept \cup {block}
  BY NewBlockLemma DEF Kept
<1>1. transfer \in Marks /\ Activations(stack) /\ Accounts(stack, Kept, transfer)
  BY DEF Inv, Globals
<1>2. /\ Activations([stack EXCEPT ![Len(stack)] = frame])
      /\ Accounts([stack EXCEPT ![Len(stack)] = frame], Kept \cup {block}, transfer)
  BY <1>0, <1>1, ReplaceLemma DEF Current
<1>3. Activations(stack') /\ Accounts(stack', Kept', transfer')
  BY <1>0, <1>2 DEF SetCurrent
<1>4. Globals' /\ pc' # "landed"
  BY TestedLemma
<1>5. Suspended'
  BY <1>4, SuspendedLemma
<1>6. lost' \subseteq heap' \cap Blocks
  BY DEF Inv
<1> QED
  BY <1>3, <1>4, <1>5, <1>6 DEF Inv

(* A new block is linked and declared. *)
LEMMA DeclareArrayStep ==
  ASSUME Inv, NEW block \in Blocks, DeclareArray(block) PROVE Inv'
<1> DEFINE linked == [Current EXCEPT
                        !.local = Link(@, block),
                        !.open[Len(Current.open)].arrays = @ \cup {block}]
<1>1. /\ stack # << >> /\ pc = "run" /\ Top.kind = "decls"
      /\ block \in Blocks \ heap
  BY DEF DeclareArray, Running
<1>2. FrameInv(Current) /\ block \notin Owned(Current)
  BY <1>1, CurrentLemma DEF Kept
<1>3. FrameInv(linked) /\ Owned(linked) = Owned(Current) \cup {block}
  BY <1>1, <1>2, DeclareLemma DEF Top
<1>4. /\ SetCurrent(linked) /\ heap' = heap \cup {block}
      /\ Tested
      /\ UNCHANGED << pending, name, transfer, phase, reported, lost >>
  BY DEF DeclareArray
<1> HIDE DEF linked
<1> QED
  BY <1>1, <1>3, <1>4, LinkStep

(* Code that allocates, calls and raises is not directly in a handled sequence. *)
LEMMA ExecutingLemma ==
  ASSUME Executing
  PROVE  stack # << >> /\ pc = "run" /\ Top.kind \notin {"handled", "handler"}
BY DEF Executing, Running

(* A new block is linked as a temporary. *)
LEMMA AllocateTemporaryStep ==
  ASSUME Inv, NEW block \in Blocks, AllocateTemporary(block) PROVE Inv'
<1> DEFINE linked == [Current EXCEPT
                        !.temp = Link(@, block),
                        !.open[Len(Current.open)].values = @ \cup {block}]
<1>1. /\ stack # << >> /\ pc = "run" /\ Top.kind \notin {"handled", "handler"}
      /\ block \in Blocks \ heap
  BY ExecutingLemma DEF AllocateTemporary
<1>2. FrameInv(Current) /\ block \notin Owned(Current)
  BY <1>1, CurrentLemma DEF Kept
<1>3. FrameInv(linked) /\ Owned(linked) = Owned(Current) \cup {block}
  BY <1>1, <1>2, TemporaryLemma DEF Top
<1>4. /\ SetCurrent(linked) /\ heap' = heap \cup {block}
      /\ Tested
      /\ UNCHANGED << pending, name, transfer, phase, reported, lost >>
  BY DEF AllocateTemporary
<1> HIDE DEF linked
<1> QED
  BY <1>1, <1>3, <1>4, LinkStep

-----------------------------------------------------------------------------
(* Raising, and the tests behind calls. *)

(* Nothing but the exception state changes. *)
LEMMA StayStep ==
  ASSUME Inv, Globals', pc' # "landed", UNCHANGED << stack, heap, transfer, lost >>
  PROVE  Inv'
BY DEF Inv, Suspended, Kept

(* A raise changes the globals alone. *)
LEMMA RaiseStep ==
  ASSUME Inv, pc = "run", NEW exception \in Exceptions,
         RaiseOccurrence(exception, exception),
         UNCHANGED << stack, heap, transfer, phase, reported, lost >>
  PROVE  Inv'
<1>1. exception # None
  BY ExceptionAssumption
<1>2. Globals'
  BY <1>1 DEF Inv, Globals, PendingDiscipline, RaiseOccurrence, Control
<1>3. pc' # "landed"
  BY DEF RaiseOccurrence
<1> QED
  BY <1>2, <1>3, StayStep

(* The pair a handler saved has identity and name of one exception. *)
LEMMA ReraiseStep == ASSUME Inv, Reraise PROVE Inv'
<1>1. stack # << >> /\ pc = "run"
  BY DEF Reraise, Running
<1>2. PICK k \in DOMAIN Current.open :
        /\ Current.open[k].kind = "handler"
        /\ RaiseOccurrence(Current.open[k].occurrence.id,
                           Current.open[k].occurrence.name)
  BY DEF Reraise, Innermost
<1>3. /\ k \in 1 .. Len(Current.open)
      /\ Current.open[k] \in Construct /\ WellFormed(Current.open[k])
  BY <1>1, CurrentLemma, ShapeLemma DEF Shape
<1>4. /\ Current.open[k].occurrence.id \in Exceptions
      /\ Current.open[k].occurrence.name = Current.open[k].occurrence.id
  BY <1>2, <1>3 DEF WellFormed, Construct, Occurrence
<1>5. UNCHANGED << stack, heap, transfer, phase, reported, lost >>
  BY DEF Reraise
<1> QED
  BY <1>1, <1>2, <1>4, <1>5, RaiseStep

(* 'Image raises and the code goes on. *)
LEMMA RaiseUntestedStep == ASSUME Inv, RaiseUntested PROVE Inv'
<1>1. pc = "run" /\ ConstraintError # None /\ ConstraintError \in Exceptions
  BY ExecutingLemma, ExceptionAssumption DEF RaiseUntested
<1>2. Globals' /\ pc' # "landed"
  BY <1>1 DEF Inv, Globals, PendingDiscipline, RaiseUntested
<1> QED
  BY <1>2, StayStep DEF RaiseUntested

(* A later test notices. *)
LEMMA TestStep == ASSUME Inv, Test PROVE Inv'
<1>1. pc = "run"
  BY ExecutingLemma DEF Test
<1>2. Globals' /\ pc' # "landed"
  BY <1>1, TestedLemma DEF Test
<1> QED
  BY <1>2, StayStep DEF Test

(* The test behind the copy of an array result does: the copy is lost. *)
LEMMA LoseResultStep ==
  ASSUME Inv, NEW block \in Blocks, LoseResult(block) PROVE Inv'
<1>1. stack # << >> /\ pc = "run" /\ block \in Blocks \ heap
  BY DEF LoseResult, Running
<1>2. Globals' /\ pc' # "landed"
  BY <1>1, TestedLemma DEF LoseResult
<1>3. Kept' = Kept /\ lost' \subseteq heap' \cap Blocks
  BY <1>1 DEF LoseResult, Kept, Inv
<1> QED
  BY <1>2, <1>3 DEF Inv, Suspended, LoseResult

(* The test behind a call finds an exception. *)
LEMMA CheckAfterCallStep == ASSUME Inv, CheckAfterCall PROVE Inv'
<1>1. Globals' /\ pc' # "landed"
  BY TestedLemma DEF CheckAfterCall
<1> QED
  BY <1>1, StayStep DEF CheckAfterCall

(* It finds none, and there is no result to adopt. *)
LEMMA ResumeStep == ASSUME Inv, Resume PROVE Inv'
<1>1. Globals' /\ pc' # "landed"
  BY DEF Inv, Globals, PendingDiscipline, Resume, Control
<1> QED
  BY <1>1, StayStep DEF Resume

(* The buffer in transfer becomes a temporary of the caller. *)
LEMMA AdoptResultStep == ASSUME Inv, AdoptResult PROVE Inv'
<1> DEFINE linked == [Current EXCEPT
                        !.temp = Link(@, transfer),
                        !.open[Len(Current.open)].values = @ \cup {transfer}]
<1>1. stack # << >> /\ pc = "landed" /\ transfer # NoBlock /\ pending = None
  BY DEF AdoptResult
<1>2. /\ transfer \in Blocks /\ transfer \in Marks
      /\ Activations(stack) /\ Accounts(stack, Kept, transfer)
  BY <1>1 DEF Inv, Globals, Marks
<1>3. Len(stack) \in 1 .. Len(stack) /\ FrameInv(Current)
  BY <1>1, CurrentLemma
<1>4. Top.kind \notin {"handled", "handler"}
  BY <1>1, <1>3 DEF Inv, Suspended, Top, Current
<1>5. transfer \notin Owned(Current)
  BY <1>2, <1>3 DEF Accounts, Ledger, Current
<1>6. FrameInv(linked) /\ Owned(linked) = Owned(Current) \cup {transfer}
  BY <1>2, <1>3, <1>4, <1>5, TemporaryLemma DEF Top
<1>7. /\ SetCurrent(linked) /\ transfer' = NoBlock /\ pc' = "run"
      /\ UNCHANGED << pending, name, heap, phase, reported, late, lost >>
  BY DEF AdoptResult
<1> HIDE DEF linked
<1>8. /\ Activations([stack EXCEPT ![Len(stack)] = linked])
      /\ Accounts([stack EXCEPT ![Len(stack)] = linked], Kept, NoBlock)
  BY <1>1, <1>2, <1>6, ReplaceLemma DEF Current
<1>9. Activations(stack') /\ Accounts(stack', Kept', transfer')
  BY <1>7, <1>8 DEF SetCurrent, Kept
<1>10. Globals'
  BY <1>1, <1>7 DEF Inv, Globals, PendingDiscipline, Control, Marks
<1>11. Suspended'
  BY <1>1, <1>7, SuspendedLemma
<1>12. lost' \subseteq heap' \cap Blocks
  BY <1>7 DEF Inv
<1> QED
  BY <1>9, <1>10, <1>11, <1>12 DEF Inv

(* It is freed instead, and Storage_Error raised. *)
LEMMA AdoptionFailsStep == ASSUME Inv, AdoptionFails PROVE Inv'
<1>1. /\ pc = "landed" /\ pending = None /\ transfer # NoBlock
      /\ heap' = heap \ {transfer} /\ transfer' = NoBlock
      /\ pending' = StorageError /\ name' = StorageError /\ pc' = "unwind"
      /\ late' = FALSE /\ UNCHANGED << stack, phase, reported, lost >>
  BY DEF AdoptionFails, RaiseOccurrence
<1>2. Accounts(stack, Kept \ {transfer}, NoBlock) /\ transfer \in Kept
  BY <1>1, NoBlockAssumption DEF Inv, Accounts, Ledger
<1>3. Activations(stack') /\ Accounts(stack', Kept', transfer')
  <2>1. Kept' = Kept \ {transfer}
    BY <1>1 DEF Kept
  <2> QED
    BY <1>1, <1>2, <2>1 DEF Inv
<1>6. lost' \subseteq heap' \cap Blocks
  BY <1>1, <1>2 DEF Inv, Kept
<1>4. Globals'
  BY <1>1, ExceptionAssumption DEF Inv, Globals, PendingDiscipline, Control, Marks
<1>5. Suspended'
  BY <1>1 DEF Inv, Suspended
<1> QED
  BY <1>3, <1>4, <1>5, <1>6 DEF Inv

-----------------------------------------------------------------------------
(* Calls and returns. *)

\* A call enters an activation with empty lists.
LEMMA CallStep ==
  ASSUME Inv, NEW result \in { "none", "value", "array" }, Call(result)
  PROVE  Inv'
<1>1. /\ stack # << >> /\ pc = "run" /\ Top.kind \notin {"handled", "handler"}
      /\ stack' = Append(stack, NewFrame(result))
      /\ UNCHANGED << pending, name, heap, transfer, pc, phase, reported, late, lost >>
  BY ExecutingLemma DEF Call
<1>2. FrameInv(NewFrame(result)) /\ Owned(NewFrame(result)) = {}
  BY NewFrameLemma
<1>3. Activations(stack') /\ Accounts(stack', Kept', transfer')
  BY <1>1, <1>2, PushLemma DEF Inv, Globals, Kept
<1>4. Globals'
  BY <1>1 DEF Inv, Globals, PendingDiscipline
<1>5. Suspended'
  <2>1. Len(stack) \in Nat /\ Len(stack) \in 1 .. Len(stack) /\ stack \in Seq(Frame)
    BY <1>1, CurrentLemma
  <2>2. /\ Len(stack') = Len(stack) + 1
        /\ \A f \in 1 .. Len(stack) : stack'[f] = stack[f]
    BY <1>1, <2>1
  <2>3. \A f \in 1 .. (Len(stack) + 1) :
          f < Len(stack) + 1 => f \in 1 .. Len(stack) /\ (f < Len(stack) \/ f = Len(stack))
    BY <2>1
  <2>4. stack[Len(stack)].open[Len(stack[Len(stack)].open)].kind
          \notin {"handled", "handler"}
    BY <1>1 DEF Top, Current
  <2> QED
    BY <1>1, <2>2, <2>3, <2>4 DEF Inv, Suspended
<1> QED
  BY <1>1, <1>3, <1>4, <1>5 DEF Inv

(* The activation's blocks go with it, and its caller was suspended. *)
LEMMA LeaveStep ==
  ASSUME Inv, stack # << >>, LeaveActivation, Globals', lost' = lost,
         \/ heap' = heap \ ReleasedBy(Current) /\ transfer' = transfer
         \/ \E block \in Blocks \ heap :
               /\ transfer = NoBlock /\ transfer' = block
               /\ heap' = (heap \cup {block}) \ ReleasedBy(Current)
  PROVE  Inv'
<1>1. stack' = SubSeq(stack, 1, Len(stack) - 1)
  BY DEF LeaveActivation
<1>2. ReleasedBy(Current) = Owned(stack[Len(stack)])
  BY DEF ReleasedBy, Owned, Current
<1> DEFINE left == SubSeq(stack, 1, Len(stack) - 1)
<1>3. /\ Activations(left)
      /\ Accounts(left, Kept \ ReleasedBy(Current), transfer)
      /\ \A block \in Blocks \ Kept :
           transfer = NoBlock
             => Accounts(left, (Kept \cup {block}) \ ReleasedBy(Current), block)
  BY <1>2, PopLemma DEF Inv, Globals
<1>4. Len(stack) \in Nat \ {0} /\ stack \in Seq(Frame)
  BY CurrentLemma
<1>5. /\ Len(left) = Len(stack) - 1
      /\ \A f \in 1 .. (Len(stack) - 1) : left[f] = stack[f]
  <2> DEFINE m == Len(stack) - 1
  <2>1. m \in 0 .. Len(stack) /\ left = SubSeq(stack, 1, m)
    BY <1>4
  <2> HIDE DEF m
  <2>2. Len(SubSeq(stack, 1, m)) = m /\ \A f \in 1 .. m : SubSeq(stack, 1, m)[f] = stack[f]
    BY <1>4, <2>1
  <2> QED
    BY <2>1, <2>2 DEF m
<1> HIDE DEF left
<1>6. stack' = left
  BY <1>1 DEF left
<1>0. ReleasedBy(Current) \subseteq Kept
  BY CurrentLemma DEF ReleasedBy, Owned
<1>7. /\ Activations(stack') /\ Accounts(stack', Kept', transfer')
      /\ lost' \subseteq heap' \cap Blocks
  <2>1. CASE heap' = heap \ ReleasedBy(Current) /\ transfer' = transfer
    <3>1. Kept' = Kept \ ReleasedBy(Current) /\ lost' \subseteq heap' \cap Blocks
      BY <1>0, <2>1 DEF Inv, Kept
    <3> QED
      BY <1>3, <1>6, <2>1, <3>1
  <2>2. ASSUME NEW block \in Blocks \ heap, transfer = NoBlock, transfer' = block,
               heap' = (heap \cup {block}) \ ReleasedBy(Current)
        PROVE  /\ Activations(stack') /\ Accounts(stack', Kept', transfer')
               /\ lost' \subseteq heap' \cap Blocks
    <3>1. /\ Kept' = (Kept \cup {block}) \ ReleasedBy(Current)
          /\ block \in Blocks \ Kept /\ lost' \subseteq heap' \cap Blocks
      BY <1>0, <2>2 DEF Inv, Kept
    <3> QED
      BY <1>3, <1>6, <2>2, <3>1
  <2> QED
    BY <2>1, <2>2
<1>8. Suspended'
  <2>1. \A f \in 1 .. (Len(stack) - 1) : f \in 1 .. Len(stack) /\ f < Len(stack)
    BY <1>4
  <2> QED
    BY <1>5, <1>6, <2>1 DEF Inv, Suspended
<1> QED
  BY <1>7, <1>8 DEF Inv

(* A return releases both lists. *)
LEMMA ReturnStep == ASSUME Inv, Return PROVE Inv'
<1>1. stack # << >> /\ pc = "run"
  BY DEF Return, Running
<1>2. Globals'
  BY <1>1 DEF Inv, Globals, PendingDiscipline, Return, LeaveActivation, Control
<1> QED
  BY <1>1, <1>2, LeaveStep DEF Return

(* So does one that hands over an array, but for the copy. *)
LEMMA ReturnArrayStep ==
  ASSUME Inv, NEW block \in Blocks, ReturnArray(block) PROVE Inv'
<1>1. stack # << >> /\ pc = "run" /\ block \in Blocks \ heap
  BY DEF ReturnArray, Running
<1>2. transfer = NoBlock
  BY <1>1 DEF Inv, Globals, PendingDiscipline
<1>3. Globals'
  BY <1>1 DEF Inv, Globals, PendingDiscipline, ReturnArray, LeaveActivation, Control, Marks
<1> QED
  BY <1>1, <1>2, <1>3, LeaveStep DEF ReturnArray

(* So does falling off the end, which in a function raises. *)
LEMMA FallOffEndStep == ASSUME Inv, FallOffEnd PROVE Inv'
<1>1. stack # << >> /\ pc = "run"
  BY DEF FallOffEnd, Running
<1>2. /\ pending' \in Exceptions \cup {None} /\ name' \in Exceptions \cup {None}
      /\ pending' # None => name' = pending'
  BY <1>1, ExceptionAssumption DEF Inv, Globals, PendingDiscipline, FallOffEnd
<1>3. transfer = NoBlock
  BY <1>1 DEF Inv, Globals, PendingDiscipline
<1>4. Globals'
  BY <1>2, <1>3 DEF Inv, Globals, PendingDiscipline, FallOffEnd, LeaveActivation, Control
<1> QED
  BY <1>1, <1>4, LeaveStep DEF FallOffEnd

(* So does the exit taken with an exception pending. *)
LEMMA PropagateStep == ASSUME Inv, Propagate PROVE Inv'
<1>1. Globals'
  BY DEF Inv, Globals, PendingDiscipline, Propagate, LeaveActivation, Control
<1> QED
  BY <1>1, LeaveStep DEF Propagate

-----------------------------------------------------------------------------
(* The dispatch code in front of the handlers, and the function main. *)

(* The dispatch code changes the running activation and frees what is inside
   the handled sequence. *)
LEMMA UnwindStep ==
  ASSUME Inv, stack # << >>, NEW frame, FrameInv(frame), SetCurrent(frame),
         NEW freed, freed \subseteq Owned(Current),
         Owned(frame) = Owned(Current) \ freed, heap' = heap \ freed,
         UNCHANGED << transfer, lost >>, pc' # "landed", Globals'
  PROVE  Inv'
<1>0. Kept' = Kept \ freed /\ lost' \subseteq heap' \cap Blocks
  BY FreeLemma
<1>1. transfer \in Marks /\ Activations(stack) /\ Accounts(stack, Kept, transfer)
  BY DEF Inv, Globals
<1>2. /\ Activations([stack EXCEPT ![Len(stack)] = frame])
      /\ Accounts([stack EXCEPT ![Len(stack)] = frame], Kept \ freed, transfer)
  BY <1>1, ReplaceLemma DEF Current
<1>3. Activations(stack') /\ Accounts(stack', Kept', transfer')
  BY <1>0, <1>2 DEF SetCurrent
<1> QED
  BY <1>0, <1>3, SuspendedLemma DEF Inv

(* The dispatch code rewinds to the marks of its sequence, caught or not. *)
LEMMA DispatchStep == ASSUME Inv, NEW k, Dispatch(k) PROVE Inv'
<1> DEFINE region == Current.open[k]
           freed == FreedBy(Current, region)
           cut == [Rewound(Current, region) EXCEPT !.open = UpTo(k - 1)]
           caught == [Rewound(Current, region) EXCEPT
                        !.open = Append(UpTo(k - 1), HandlerFor(region, Caught))]
<1>1. /\ stack # << >> /\ pc = "unwind" /\ heap' = heap \ freed
      /\ UNCHANGED << name, transfer, phase, reported, late, lost >>
  BY DEF Dispatch
<1>2. FrameInv(Current) /\ Shape(Current)
  BY <1>1, CurrentLemma
<1>3. k \in 1 .. Len(Current.open) /\ region.kind = "handled"
  BY <1>2, ShapeLemma DEF Dispatch, Innermost
<1>4. k \in 2 .. Len(Current.open)
  BY <1>1, <1>3, InnerLemma
<1>5. /\ pending # None /\ name = pending /\ transfer = NoBlock
      /\ pending \in Exceptions \cup {None}
  BY <1>1 DEF Inv, Globals, PendingDiscipline
<1>6. CASE Catch(k)
  <2>1. Caught \in Occurrence /\ Caught.id # None /\ Caught.name = Caught.id
    BY <1>5 DEF Caught, Occurrence
  <2>2. /\ FrameInv(caught) /\ Owned(caught) = Owned(Current) \ freed
        /\ freed \subseteq Owned(Current)
    BY <1>2, <1>3, <1>4, <2>1, CatchLemma DEF UpTo
  <2>3. SetCurrent(caught) /\ pending' = None /\ pc' = "run"
    BY <1>6 DEF Catch
  <2>4. Globals'
    BY <1>1, <1>5, <2>3 DEF Inv, Globals, PendingDiscipline, Control
  <2> HIDE DEF caught, freed
  <2> QED
    BY <1>1, <2>2, <2>3, <2>4, UnwindStep
<1>7. CASE PassOn(k)
  <2>1. /\ FrameInv(cut) /\ Owned(cut) = Owned(Current) \ freed
        /\ freed \subseteq Owned(Current)
    BY <1>2, <1>4, CutLemma DEF UpTo
  <2>2. SetCurrent(cut) /\ UNCHANGED << pending, pc >>
    BY <1>7 DEF PassOn
  <2>3. Globals'
    BY <1>1, <2>2 DEF Inv, Globals, PendingDiscipline
  <2> HIDE DEF cut, freed
  <2> QED
    BY <1>1, <2>1, <2>2, <2>3, UnwindStep
<1> QED
  BY <1>6, <1>7 DEF Dispatch

-----------------------------------------------------------------------------
(* The function main. *)

(***************************************************************************)
(* The procedures that main calls return no array, so that nothing is in   *)
(* transfer when the elaboration or the main procedure has returned to it. *)
(***************************************************************************)
MainResult ==
  /\ stack # << >> => stack[1].result = "none"
  /\ stack = << >> => transfer = NoBlock

(* A step that replaces the running activation keeps what the main one returns. *)
LEMMA ReplaceMain ==
  ASSUME Inv, MainResult, stack # << >>,
         NEW frame, frame.result = Current.result, SetCurrent(frame)
  PROVE  MainResult'
<1>1. Len(stack) \in Nat \ {0} /\ stack \in Seq(Frame)
  BY CurrentLemma
<1>2. Len(stack') = Len(stack) /\ stack' # << >>
  BY <1>1 DEF SetCurrent
<1>3. stack'[1].result = stack[1].result
  <2>1. CASE Len(stack) = 1
    BY <1>1, <2>1 DEF SetCurrent, Current
  <2>2. CASE Len(stack) # 1
    BY <1>1, <2>2 DEF SetCurrent
  <2> QED
    BY <2>1, <2>2
<1> QED
  BY <1>2, <1>3 DEF MainResult

(* No step gives the running activation another result kind. *)
LEMMA ResultKept ==
  ASSUME Inv, stack # << >>,
         \/ StartScope \/ EndScope \/ StartDeclarations \/ EndDeclarations
         \/ \E handles \in HandlerSets : EnterHandled(handles)
         \/ LeaveHandled
         \/ \E k \in 1 .. MaxOpen : ExitLoop(k)
         \/ \E block \in Blocks : DeclareArray(block) \/ AllocateTemporary(block)
         \/ AdoptResult
         \/ \E k \in 1 .. MaxOpen : Dispatch(k)
  PROVE  \E frame : frame.result = Current.result /\ SetCurrent(frame)
<1>1. Current \in Frame
  BY CurrentLemma
<1>2. \A construct : Rewound(Current, construct).result = Current.result
  BY <1>1 DEF Rewound, Frame
<1>3. \A construct, open :
        [Rewound(Current, construct) EXCEPT !.open = open].result = Current.result
  BY <1>1, <1>2 DEF Rewound, Frame
<1>4. \A open : [Current EXCEPT !.open = open].result = Current.result
  BY <1>1 DEF Frame
<1>5. \A open, list :
        /\ [Current EXCEPT !.local = list, !.open = open].result = Current.result
        /\ [Current EXCEPT !.temp = list, !.open = open].result = Current.result
  BY <1>1 DEF Frame
<1>6. ASSUME StartScope \/ StartDeclarations
             \/ \E handles \in HandlerSets : EnterHandled(handles)
      PROVE  \E frame : frame.result = Current.result /\ SetCurrent(frame)
  BY <1>4, <1>6 DEF StartScope, StartDeclarations, EnterHandled, Open
<1>7. ASSUME LeaveHandled
      PROVE  \E frame : frame.result = Current.result /\ SetCurrent(frame)
  BY <1>4, <1>7 DEF LeaveHandled
<1>8. ASSUME EndScope \/ \E k \in 1 .. MaxOpen : ExitLoop(k)
      PROVE  \E frame : frame.result = Current.result /\ SetCurrent(frame)
  BY <1>3, <1>8 DEF EndScope, ExitLoop
<1>9. ASSUME EndDeclarations
      PROVE  \E frame : frame.result = Current.result /\ SetCurrent(frame)
  BY <1>5, <1>9 DEF EndDeclarations
<1>10. ASSUME NEW block \in Blocks, DeclareArray(block) \/ AllocateTemporary(block)
       PROVE  \E frame : frame.result = Current.result /\ SetCurrent(frame)
  BY <1>5, <1>10 DEF DeclareArray, AllocateTemporary
<1>11. ASSUME AdoptResult
       PROVE  \E frame : frame.result = Current.result /\ SetCurrent(frame)
  BY <1>5, <1>11 DEF AdoptResult
<1>12. ASSUME NEW k \in 1 .. MaxOpen, Dispatch(k)
       PROVE  \E frame : frame.result = Current.result /\ SetCurrent(frame)
  BY <1>3, <1>12 DEF Dispatch, Catch, PassOn
<1> QED
  BY <1>6, <1>7, <1>8, <1>9, <1>10, <1>11, <1>12

(* So does one that leaves it. *)
LEMMA LeaveMain ==
  ASSUME Inv, MainResult, stack # << >>, LeaveActivation,
         \/ transfer' = NoBlock
         \/ Current.result = "array"
  PROVE  MainResult'
<1>1. Len(stack) \in Nat \ {0} /\ stack \in Seq(Frame)
  BY CurrentLemma
<1>2. stack' = SubSeq(stack, 1, Len(stack) - 1)
  BY DEF LeaveActivation
<1>3. CASE Len(stack) = 1
  <2>1. stack' = << >>
    BY <1>1, <1>2, <1>3
  <2>2. transfer' = NoBlock
    BY <1>3 DEF MainResult, Current
  <2> QED
    BY <2>1, <2>2 DEF MainResult
<1>4. CASE Len(stack) # 1
  <2> DEFINE m == Len(stack) - 1
  <2>1. m \in 1 .. Len(stack) /\ 1 \in 1 .. m
    <3>1. Len(stack) \in Nat /\ Len(stack) # 0 /\ Len(stack) # 1
      BY <1>1, <1>4
    <3> DEFINE n == Len(stack)
    <3>2. n \in Nat /\ n # 0 /\ n # 1
      BY <3>1
    <3> HIDE DEF n
    <3>3. n - 1 \in 1 .. n /\ 1 \in 1 .. (n - 1)
      BY <3>2
    <3> QED
      BY <3>3 DEF n
  <2>0. stack' = SubSeq(stack, 1, m)
    BY <1>2
  <2> HIDE DEF m
  <2>2. Len(stack') = m /\ stack'[1] = stack[1]
    BY <1>1, <2>1, <2>0
  <2>3. stack' # << >>
    BY <2>1, <2>2
  <2> QED
    BY <2>2, <2>3 DEF MainResult
<1> QED
  BY <1>3, <1>4

(* So does one that makes a new activation. *)
LEMMA CallMain ==
  ASSUME Inv, MainResult, NEW result, Call(result) PROVE MainResult'
<1>1. stack # << >> /\ stack' = Append(stack, NewFrame(result))
  BY ExecutingLemma DEF Call
<1>2. Len(stack) \in Nat \ {0} /\ stack \in Seq(Frame)
  BY <1>1, CurrentLemma
<1>3. stack' # << >> /\ stack'[1] = stack[1]
  BY <1>1, <1>2
<1> QED
  BY <1>1, <1>3 DEF MainResult

(* The main procedure starts with nothing left of elaboration. *)
LEMMA StartMainStep == ASSUME Inv, MainResult, StartMain PROVE Inv'
<1> DEFINE main == NewFrame("none")
<1>1. FrameInv(main) /\ Owned(main) = {}
  BY NewFrameLemma
<1>2. /\ stack = << >> /\ pc = "landed" /\ pending = None
      /\ phase' = "main" /\ stack' = << main >> /\ pc' = "run"
      /\ UNCHANGED << pending, name, heap, transfer, reported, late, lost >>
  BY DEF StartMain
<1>3. main.open[Len(main.open)].kind = "frame" /\ main \in Frame
  BY <1>1 DEF NewFrame, FrameInv, Shape
<1> HIDE DEF main
<1>4. Activations(stack') /\ Accounts(stack', Kept', transfer')
  <2>1. stack' = Append(stack, main) /\ Kept' = Kept
    BY <1>2 DEF Kept
  <2> QED
    BY <1>1, <1>2, <2>1, PushLemma DEF Inv, Globals
<1>5. transfer = NoBlock
  BY <1>2 DEF MainResult
<1>6. Globals'
  BY <1>2, <1>5 DEF Inv, Globals, PendingDiscipline, Control
<1>7. Suspended'
  BY <1>2, <1>3 DEF Suspended
<1>8. lost' \subseteq heap' \cap Blocks
  BY <1>2 DEF Inv
<1> QED
  BY <1>4, <1>6, <1>7, <1>8 DEF Inv

(* The process stops with what is pending reported. *)
LEMMA StopStep == ASSUME Inv, MainResult, Stop PROVE Inv'
<1>1. /\ pc = "landed" /\ pc' = "stopped" /\ transfer = NoBlock
      /\ reported' = IF pending = None THEN None ELSE name
      /\ UNCHANGED << pending, name, stack, heap, transfer, phase, late, lost >>
  BY DEF Stop, MainResult
<1>2. Globals' /\ pc' # "landed"
  BY <1>1 DEF Inv, Globals, PendingDiscipline, Control
<1> QED
  BY <1>1, <1>2, StayStep

(* The main program and the elaboration procedure never return an array. *)
LEMMA MainStep == ASSUME Inv, MainResult, Next PROVE MainResult'
<1>1. ASSUME pc # "landed" PROVE transfer = NoBlock
  BY <1>1 DEF Inv, Globals, PendingDiscipline
<1>2. ASSUME StartScope \/ EndScope \/ StartDeclarations \/ EndDeclarations
             \/ (\E handles \in HandlerSets : EnterHandled(handles))
             \/ LeaveHandled
             \/ (\E k \in 1 .. MaxOpen : ExitLoop(k))
             \/ (\E block \in Blocks : DeclareArray(block) \/ AllocateTemporary(block))
             \/ AdoptResult
             \/ (\E k \in 1 .. MaxOpen : Dispatch(k))
      PROVE  MainResult'
  <2>1. stack # << >>
    BY <1>2, ExecutingLemma
       DEF StartScope, EndScope, StartDeclarations, EndDeclarations, EnterHandled,
           LeaveHandled, ExitLoop, DeclareArray, AllocateTemporary, AdoptResult,
           Dispatch, Running
  <2> QED
    BY <1>2, <2>1, ResultKept, ReplaceMain
<1>3. ASSUME AllocationFails \/ (\E exception \in Exceptions : Raise(exception))
             \/ RaiseUntested \/ Test \/ (\E block \in Blocks : LoseResult(block))
             \/ Reraise \/ CheckAfterCall \/ Resume \/ Stop
      PROVE  MainResult'
  BY <1>3 DEF AllocationFails, Raise, RaiseUntested, Test, LoseResult, Reraise,
              CheckAfterCall, Resume, Stop, MainResult
<1>4. ASSUME AdoptionFails PROVE MainResult'
  BY <1>4 DEF AdoptionFails, MainResult
<1>5. ASSUME Return \/ FallOffEnd PROVE MainResult'
  <2>1. stack # << >> /\ pc # "landed" /\ UNCHANGED transfer /\ LeaveActivation
    BY <1>5 DEF Return, FallOffEnd, Running
  <2> QED
    BY <1>1, <2>1, LeaveMain
<1>6. ASSUME Propagate PROVE MainResult'
  <2>1. stack # << >> /\ pc # "landed" /\ UNCHANGED transfer /\ LeaveActivation
    BY <1>6 DEF Propagate
  <2> QED
    BY <1>1, <2>1, LeaveMain
<1>7. ASSUME NEW block \in Blocks, ReturnArray(block) PROVE MainResult'
  BY <1>7, LeaveMain DEF ReturnArray, Running
<1>8. ASSUME StartMain PROVE MainResult'
  <2>1. stack' = << NewFrame("none") >>
    BY <1>8 DEF StartMain
  <2> QED
    BY <2>1 DEF MainResult, NewFrame
<1> QED
  BY <1>2, <1>3, <1>4, <1>5, <1>6, <1>7, <1>8, CallMain DEF Next, Machine

-----------------------------------------------------------------------------

(* Every action keeps the invariant. *)
LEMMA NextStep == ASSUME Inv, MainResult, Next PROVE Inv'
<1>1. ASSUME AllocationFails \/ \E exception \in Exceptions : Raise(exception)
      PROVE  Inv'
  BY <1>1, ExecutingLemma, ExceptionAssumption, RaiseStep DEF AllocationFails, Raise
<1>2. CASE StartScope BY <1>2, StartScopeStep
<1>3. CASE EndScope BY <1>3, EndScopeStep
<1>4. CASE StartDeclarations BY <1>4, StartDeclarationsStep
<1>5. CASE EndDeclarations BY <1>5, EndDeclarationsStep
<1>6. CASE \E handles \in HandlerSets : EnterHandled(handles)
  BY <1>6, EnterHandledStep
<1>7. CASE LeaveHandled BY <1>7, LeaveHandledStep
<1>8. CASE \E k \in 1 .. MaxOpen : ExitLoop(k) BY <1>8, ExitLoopStep
<1>9. CASE \E block \in Blocks : DeclareArray(block) BY <1>9, DeclareArrayStep
<1>10. CASE \E block \in Blocks : AllocateTemporary(block)
  BY <1>10, AllocateTemporaryStep
<1>11. CASE \E result \in { "none", "value", "array" } : Call(result)
  BY <1>11, CallStep
<1>12. CASE Return BY <1>12, ReturnStep
<1>13. CASE \E block \in Blocks : ReturnArray(block) BY <1>13, ReturnArrayStep
<1>14. CASE FallOffEnd BY <1>14, FallOffEndStep
<1>15. CASE Reraise BY <1>15, ReraiseStep
<1>17. CASE RaiseUntested \/ Test BY <1>17, RaiseUntestedStep, TestStep
<1>18. CASE \E block \in Blocks : LoseResult(block) BY <1>18, LoseResultStep
<1>16. CASE Machine
  BY <1>16, DispatchStep, PropagateStep, CheckAfterCallStep, ResumeStep,
     AdoptResultStep, AdoptionFailsStep, StartMainStep, StopStep DEF Machine
<1> QED
  BY <1>1, <1>2, <1>3, <1>4, <1>5, <1>6, <1>7, <1>8, <1>9, <1>10, <1>11, <1>12,
     <1>13, <1>14, <1>15, <1>16, <1>17, <1>18 DEF Next

(***************************************************************************)
(* The inductive invariant holds of every execution: every activation's    *)
(* open constructs bracket its lists, and the heap is shared out between   *)
(* the activations, the buffer in transfer and the buffers that an         *)
(* exception of an untested 'Image made the program lose.                  *)
(***************************************************************************)
THEOREM InvHolds == Spec => [](Inv /\ MainResult)
<1>1. Init => Inv /\ MainResult
  <2>1. ASSUME Init PROVE MainResult
    BY <2>1 DEF Init, MainResult, NewFrame
  <2> QED
    BY <2>1, InitInv
<1>2. Inv /\ MainResult /\ [Next]_vars => (Inv /\ MainResult)'
  <2>1. ASSUME Inv, MainResult, Next PROVE (Inv /\ MainResult)'
    BY <2>1, NextStep, MainStep
  <2>2. ASSUME Inv, MainResult, UNCHANGED vars PROVE (Inv /\ MainResult)'
    BY <2>2 DEF Inv, MainResult, Globals, PendingDiscipline, Suspended, Kept, vars
  <2> QED
    BY <2>1, <2>2
<1> QED
  BY <1>1, <1>2, PTL DEF Spec

-----------------------------------------------------------------------------
(* What the invariant says, property by property. *)

\* The invariant includes the types.
LEMMA TypeLemma == ASSUME Inv PROVE TypeOK
<1>1. heap \subseteq Blocks /\ lost \subseteq Blocks
  BY DEF Inv, Accounts, Ledger, Kept
<1> QED
  BY <1>1 DEF Inv, Globals, Activations, TypeOK

(* The ledger over all activations is HeapAccounted. *)
LEMMA AccountedLemma == ASSUME Inv PROVE HeapAccounted
<1> DEFINE n == Len(stack)
           owns == [f \in 1 .. n |-> Owned(stack[f])]
<1>1. stack \in Seq(Frame) /\ n \in Nat /\ DOMAIN stack = 1 .. n
  BY DEF Inv, Activations
<1>2. Ledger(n, owns, Kept, transfer)
  BY DEF Inv, Accounts
<1>3. \A f \in 1 .. n : owns[f] = Owned(stack[f])
  OBVIOUS
<1> HIDE DEF n, owns
<1>4. Kept = InTransfer \cup (UNION { Owned(stack[f]) : f \in 1 .. n })
  <2>1. ASSUME NEW x \in Kept
        PROVE  x \in InTransfer \cup (UNION { Owned(stack[f]) : f \in 1 .. n })
    BY <1>2, <1>3, NoBlockAssumption DEF Ledger, InTransfer
  <2>2. ASSUME NEW x \in InTransfer \cup (UNION { Owned(stack[f]) : f \in 1 .. n })
        PROVE  x \in Kept
    BY <1>2, <1>3 DEF Ledger, InTransfer
  <2> QED
    BY <2>1, <2>2
<1>5. \A f \in 1 .. n :
        /\ transfer \notin Owned(stack[f])
        /\ \A g \in 1 .. n : f # g => Owned(stack[f]) \cap Owned(stack[g]) = {}
  BY <1>2, <1>3 DEF Ledger
<1>6. \A f \in 1 .. n :
        /\ Distinct(stack[f].local) /\ Distinct(stack[f].temp)
        /\ Held(stack[f].local) \cap Held(stack[f].temp) = {}
  BY DEF Inv, Activations, FrameInv, Bracketed, IsOwner, n
<1>7. /\ heap = Kept \cup lost /\ transfer \notin lost
      /\ \A f \in 1 .. n : Owned(stack[f]) \cap lost = {}
  BY <1>4, NoBlockAssumption DEF Inv, Kept, InTransfer
<1>8. heap = InTransfer \cup lost \cup UNION { Owned(stack[f]) : f \in 1 .. n }
  BY <1>4, <1>7
<1> QED
  BY <1>1, <1>5, <1>6, <1>7, <1>8 DEF HeapAccounted

(* The parts of the invariant that speak of one activation. *)
LEMMA FramesLemma ==
  ASSUME Inv, NEW f \in DOMAIN stack
  PROVE  FrameInv(stack[f]) /\ Shape(stack[f])
<1>1. stack \in Seq(Frame) /\ \A g \in 1 .. Len(stack) : FrameInv(stack[g])
  BY DEF Inv, Activations
<1>2. f \in 1 .. Len(stack)
  BY <1>1
<1> QED
  BY <1>1, <1>2 DEF FrameInv

(* Brackets that reach the end of a list make ExactReclaim. *)
LEMMA ReclaimLemma == ASSUME Inv PROVE ExactReclaim
<1> SUFFICES ASSUME NEW f \in DOMAIN stack
             PROVE  /\ Held(stack[f].local) = Declared(stack[f])
                    /\ Held(stack[f].temp) = Temporaries(stack[f])
  BY DEF ExactReclaim
<1> DEFINE frame == stack[f]
           n == Len(frame.open)
<1>1. /\ FrameInv(frame) /\ DOMAIN frame.open = 1 .. n
      /\ \A i \in 1 .. n : /\ Arrays(frame)[i] = frame.open[i].arrays
                           /\ Values(frame)[i] = frame.open[i].values
  BY FramesLemma, ShapeLemma
<1>2. /\ Held(frame.local) = UNION { Arrays(frame)[i] : i \in 1 .. n }
      /\ Held(frame.temp) = UNION { Values(frame)[i] : i \in 1 .. n }
  BY <1>1 DEF FrameInv, Bracketed
<1> HIDE DEF frame, n
<1>3. /\ { Arrays(frame)[i] : i \in 1 .. n } = { frame.open[i].arrays : i \in 1 .. n }
      /\ { Values(frame)[i] : i \in 1 .. n } = { frame.open[i].values : i \in 1 .. n }
  BY <1>1
<1> QED
  BY <1>1, <1>2, <1>3 DEF Declared, Temporaries, frame

(* Marks of bracketed constructs are live and nested. *)
LEMMA MarksLemma == ASSUME Inv PROVE CheckpointsLive
<1> SUFFICES ASSUME NEW f \in DOMAIN stack
             PROVE  LET open == stack[f].open
                    IN  /\ MarksNested(stack[f].local,
                                       [i \in DOMAIN open |-> open[i].local])
                        /\ MarksNested(stack[f].temp,
                                       [i \in DOMAIN open |-> open[i].temp])
  BY DEF CheckpointsLive
<1> DEFINE frame == stack[f]
           n == Len(frame.open)
<1>1. FrameInv(frame) /\ DOMAIN frame.open = 1 .. n
  BY FramesLemma, ShapeLemma
<1>2. /\ DOMAIN LocalMarks(frame) = 1 .. n /\ DOMAIN TempMarks(frame) = 1 .. n
  BY <1>1 DEF LocalMarks, TempMarks
<1>3. /\ Bracketed(n, frame.local, LocalMarks(frame), Arrays(frame))
      /\ Bracketed(n, frame.temp, TempMarks(frame), Values(frame))
  BY <1>1 DEF FrameInv
<1> HIDE DEF frame, n
<1>4. MarksNested(frame.local, LocalMarks(frame)) /\ MarksNested(frame.temp, TempMarks(frame))
  BY <1>2, <1>3 DEF Bracketed, MarksNested
<1> QED
  BY <1>4 DEF LocalMarks, TempMarks, frame

(* Identity and name agree wherever an occurrence is kept. *)
LEMMA NamedLemma == ASSUME Inv PROVE OccurrencesNamed
<1>1. \A f \in DOMAIN stack : \A i \in DOMAIN stack[f].open :
        WellFormed(stack[f].open[i])
  BY FramesLemma, ShapeLemma DEF Shape
<1> QED
  BY <1>1 DEF Inv, Globals, OccurrencesNamed, WellFormed

(* The state of a compiled program has the shape the emitter gives it. *)
THEOREM TypeCorrect == Spec => []TypeOK
BY InvHolds, TypeLemma, PTL

(***************************************************************************)
(* With any number of blocks, activations and nested constructs, whatever  *)
(* path leaves a subprogram (return, fall off the end, propagation,        *)
(* dispatch, exit, a failed adoption), each allocated block has exactly    *)
(* one owner, save the array results that an exception of an untested      *)
(* 'Image kept from being returned: nothing else leaks and nothing is      *)
(* freed twice.                                                            *)
(***************************************************************************)
THEOREM NothingLeaks == Spec => []HeapAccounted
BY InvHolds, AccountedLemma, PTL

(***************************************************************************)
(* An activation holds exactly the storage of the constructs it has open:  *)
(* a rewind frees no array whose declaration is still in scope and leaves  *)
(* none of a construct that is closed.                                     *)
(***************************************************************************)
THEOREM StorageFollowsScope == Spec => []ExactReclaim
BY InvHolds, ReclaimLemma, PTL

(* The loop of __ada_array_rewind always meets the node it is to stop at. *)
THEOREM RewindsMeetTheirMark == Spec => []CheckpointsLive
BY InvHolds, MarksLemma, PTL

(***************************************************************************)
(* Ordinary code runs with an exception pending only behind an untested    *)
(* 'Image and never past the return from the activation that took it, so   *)
(* that the test behind any other call sees only what that call raised;    *)
(* and no array result that was returned is dropped by propagation.        *)
(***************************************************************************)
THEOREM PendingIsTested == Spec => []PendingDiscipline
<1>1. Inv => PendingDiscipline
  BY DEF Inv, Globals
<1> QED
  BY <1>1, InvHolds, PTL

(* What a handler re-raises and what __ada_unhandled reports is the exception
   that was raised, whatever was raised and handled in between. *)
THEOREM OccurrencesKeepTheirName == Spec => []OccurrencesNamed
BY InvHolds, NamedLemma, PTL

=============================================================================
