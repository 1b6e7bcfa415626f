------------------------- MODULE FileContentsProofs -------------------------
(***************************************************************************)
(* What files with contents give back: DirectFiles implements DirectIO,    *)
(* Streams reads what it wrote, and Text_IO neither loses nor invents      *)
(* anything, for elements, files, objects and lines of any size.           *)
(***************************************************************************)
EXTENDS DirectFiles, Streams, TextFiles, FoldProofs, SequenceTheorems

-----------------------------------------------------------------------------
(* Direct_IO.  The mapping cuts bytes into elements and divides an offset  *)
(* by their size, which loses what is left over: it is a refinement only   *)
(* as long as the file is a whole number of elements and the position is   *)
(* between two of them.  That is the invariant.  Start translates an       *)
(* element's number to an offset, and the lemmas say of each operation on  *)
(* bytes what it is on elements; the steps of the two specifications then  *)
(* match one to one.                                                       *)

\* Where the element behind k others begins.
Start(k) == k * ElementSize

DirectInv ==
    /\ directMode \in {"ADA_MODE_IN", "ADA_MODE_INOUT", "ADA_MODE_OUT"}
    /\ bytes \in Seq(Nat)
    /\ \E n \in Nat : Len(bytes) = Start(n)
    /\ \E k \in Nat : offset = Start(k)

\* Starts are as far apart as elements are long, and dividing undoes them.
LEMMA Starts ==
    ASSUME NEW a \in Nat, NEW b \in Nat
    PROVE  /\ Start(a) \in Nat /\ Start(0) = 0
           /\ Start(a + 1) = Start(a) + ElementSize
           /\ a <= b <=> Start(a) <= Start(b)
           /\ a < b => Start(a) + ElementSize <= Start(b)
           /\ Start(a) \div ElementSize = a
<1>1. ElementSize \in Nat /\ ElementSize > 0
    BY DirectAssumption
<1>2. /\ Start(a) \in Nat /\ Start(b) \in Nat /\ Start(0) = 0
      /\ Start(a + 1) = Start(a) + ElementSize
    BY <1>1 DEF Start
<1>3. ASSUME NEW c \in Nat, NEW d \in Nat, c < d
      PROVE  Start(c) + ElementSize <= Start(d)
    <2>1. d - c - 1 \in Nat /\ (d - c - 1) * ElementSize >= 0
        BY <1>1, <1>3
    <2>2. d * ElementSize = (c * ElementSize + ElementSize) + (d - c - 1) * ElementSize
        BY <1>1, <1>3
    <2> QED BY <1>1, <2>1, <2>2 DEF Start
<1>4. Start(a) \div ElementSize = a
    BY <1>1 DEF Start
<1>5. a <= b => Start(a) <= Start(b)
    BY <1>1, <1>2, <1>3
<1>6. b < a => Start(b) < Start(a)
    BY <1>1, <1>2, <1>3
<1> QED BY <1>1, <1>2, <1>3, <1>4, <1>5, <1>6

\* What the invariant says in terms of elements: the file holds SizeOf of them,
\* and the position is in front of the element IndexOf names.
LEMMA InElements ==
    ASSUME DirectInv
    PROVE  /\ SizeOf \in Nat /\ Len(bytes) = Start(SizeOf)
           /\ IndexOf \in Nat \ {0} /\ offset = Start(IndexOf - 1)
<1>1. PICK n \in Nat : Len(bytes) = Start(n)
    BY DEF DirectInv
<1>2. PICK k \in Nat : offset = Start(k)
    BY DEF DirectInv
<1>3. SizeOf = n /\ IndexOf = k + 1
    BY <1>1, <1>2, Starts DEF SizeOf, IndexOf
<1> QED BY <1>1, <1>2, <1>3

\* The converse, for a state that has been reached by a step.
\* And back: a file of n elements, with the position behind k of them.
LEMMA FromElements ==
    ASSUME NEW n \in Nat, NEW k \in Nat, Len(bytes) = Start(n), offset = Start(k)
    PROVE  SizeOf = n /\ IndexOf = k + 1
BY Starts DEF SizeOf, IndexOf

\* Where an index, or none, leads.
Place(index) == IF index > 0 THEN index ELSE IndexOf

\* Seeking goes to the element the index means.
LEMMA SoughtPlace ==
    ASSUME DirectInv, NEW index \in Nat
    PROVE  /\ Place(index) \in Nat \ {0}
           /\ Sought(index) = Start(Place(index) - 1)
           /\ Sought(index) \in Nat /\ Start(Place(index) - 1) + ElementSize = Start(Place(index))
<1>1. Place(index) \in Nat \ {0} /\ Sought(index) = Start(Place(index) - 1)
    BY InElements DEF Sought, OffsetOf, Start, Place
<1>2. Place(index) - 1 \in Nat /\ (Place(index) - 1) + 1 = Place(index)
    BY <1>1
<1> QED BY <1>1, <1>2, Starts

\* Reading is reading the element at the index; behind the last one there is
\* none, and not a part of one either.
LEMMA ReadStep ==
    ASSUME DirectInv, NEW index \in Nat, ReadAt(index)
    PROVE  DirectInv' /\ Abstract!Read(Place(index))
<1> DEFINE from == Place(index)
<1>1. /\ from \in Nat \ {0} /\ Sought(index) = Start(from - 1) /\ Start(from - 1) \in Nat
      /\ Start(from - 1) + ElementSize = Start(from) /\ ElementSize \in Nat \ {0}
    BY SoughtPlace, DirectAssumption
<1>2. SizeOf \in Nat /\ Len(bytes) = Start(SizeOf)
    BY InElements
<1>3. UNCHANGED <<directMode, bytes>> /\ AdaMode' = AdaMode /\ ElementsOf' = ElementsOf
    BY DEF ReadAt, AdaMode, ElementsOf, SizeOf
<1>4. Len(ElementsOf) = SizeOf
    BY <1>2 DEF ElementsOf
<1>5. CASE from <= SizeOf
    <2>1. Start(from) <= Len(bytes)
        BY <1>1, <1>2, <1>5, Starts
    <2>2. offset' = Start(from) /\ direct' = Delivered("Read", SubSeq(bytes, Start(from - 1) + 1, Start(from)))
        BY <1>1, <2>1 DEF ReadAt
    <2>3. IndexOf' = from + 1
        BY <1>1, <2>2, Starts DEF IndexOf
    <2>4. ElementsOf[from] = SubSeq(bytes, Start(from - 1) + 1, Start(from))
        <3>1. from \in 1..SizeOf
            BY <1>1, <1>2, <1>5
        <3>2. ElementsOf[from] = SubSeq(bytes, (from - 1) * ElementSize + 1, from * ElementSize)
            BY <3>1, Zenon DEF ElementsOf
        <3> QED BY <3>2 DEF Start
    <2>5. DirectInv'
        BY <1>1, <1>3, <2>2 DEF DirectInv
    <2>6. Abstract!Read(from)
        BY <1>3, <1>4, <1>5, <2>2, <2>3, <2>4 DEF Abstract!Read, Abstract!Item, Delivered
    <2> QED BY <2>5, <2>6
<1>6. CASE SizeOf < from
    <2>1. Len(bytes) <= Start(from - 1)
        BY <1>1, <1>2, <1>6, Starts
    <2>2. offset' = Start(from - 1) /\ direct' = Refusal("Read", "END_ERROR")
        <3>1. Len(bytes) \in Nat /\ ~(Start(from - 1) + ElementSize <= Len(bytes)) /\ ~(Start(from - 1) < Len(bytes))
            BY <1>1, <2>1 DEF DirectInv
        <3>2. Start(from - 1) + 0 = Start(from - 1) /\ 0 # ElementSize
            BY <1>1
        <3> QED BY <1>1, <3>1, <3>2 DEF ReadAt
    <2>3. IndexOf' = from
        <3>1. from - 1 \in Nat
            BY <1>1
        <3>2. Start(from - 1) \div ElementSize = from - 1
            BY <3>1, Starts
        <3> QED BY <1>1, <2>2, <3>2 DEF IndexOf
    <2>4. DirectInv'
        BY <1>1, <1>3, <2>2 DEF DirectInv
    <2>5. Abstract!Read(from)
        BY <1>1, <1>2, <1>3, <1>4, <1>6, <2>2, <2>3 DEF Abstract!Read, Abstract!Raise, Refusal
    <2> QED BY <2>4, <2>5
<1> QED BY <1>1, <1>2, <1>5, <1>6

-----------------------------------------------------------------------------
(* Writing: what the bytes are, and then what elements they make up.       *)

\* x put over p behind the first s of its elements.
Over(p, s, x) == SubSeq(p, 1, s) \o x \o SubSeq(p, s + Len(x) + 1, Len(p))

OverIs(p, s, x) ==
    /\ Over(p, s, x) \in Seq(Nat)
    /\ s + Len(x) < Len(p) => Len(Over(p, s, x)) = Len(p)
    /\ ~(s + Len(x) < Len(p)) => Len(Over(p, s, x)) = s + Len(x)
    /\ \A j \in 1..Len(Over(p, s, x)) :
           Over(p, s, x)[j] = IF j <= s THEN p[j] ELSE IF j <= s + Len(x) THEN x[j - s] ELSE p[j]

\* What fwrite leaves: the bytes in front, the item, and the bytes behind it.
LEMMA Overwritten ==
    ASSUME NEW p \in Seq(Nat), NEW x \in Seq(Nat), NEW s \in Nat, s <= Len(p)
    PROVE  OverIs(p, s, x)
<1> DEFINE a == SubSeq(p, 1, s)
           b == SubSeq(p, s + Len(x) + 1, Len(p))
<1>1. /\ a \in Seq(Nat) /\ Len(a) = s /\ \A j \in 1..s : a[j] = p[j]
    <2>1. \A j \in 1..s : p[j] \in Nat
        BY ElementOfSeq
    <2> QED BY <2>1, SubSeqProperties
<1>2. /\ b \in Seq(Nat)
      /\ Len(b) = IF s + Len(x) < Len(p) THEN Len(p) - (s + Len(x)) ELSE 0
      /\ \A j \in 1..Len(b) : b[j] = p[s + Len(x) + j]
    <2>1. /\ s + Len(x) + 1 \in Int /\ Len(p) \in Int /\ Len(x) \in Nat
          /\ \A j \in (s + Len(x) + 1)..Len(p) : p[j] \in Nat
        BY ElementOfSeq
    <2>2. /\ b \in Seq(Nat)
          /\ Len(b) = IF s + Len(x) + 1 <= Len(p) THEN Len(p) - (s + Len(x) + 1) + 1 ELSE 0
          /\ \A j \in 1..(Len(p) - (s + Len(x) + 1) + 1) : b[j] = p[(s + Len(x) + 1) + j - 1]
        BY <2>1, SubSeqProperties
    <2> QED BY <2>1, <2>2
<1>3. Over(p, s, x) = (a \o x) \o b
    BY DEF Over
<1> HIDE DEF a, b
<1> DEFINE c == a \o x
<1>4. /\ c \in Seq(Nat) /\ Len(c) = s + Len(x)
      /\ \A j \in 1..(s + Len(x)) : c[j] = IF j <= s THEN a[j] ELSE x[j - s]
    BY <1>1, ConcatProperties
<1> HIDE DEF c
<1>5. /\ c \o b \in Seq(Nat) /\ Len(c \o b) = s + Len(x) + Len(b)
      /\ \A j \in 1..(s + Len(x) + Len(b)) :
             (c \o b)[j] = IF j <= s + Len(x) THEN c[j] ELSE b[j - (s + Len(x))]
    <2>1. /\ c \o b \in Seq(Nat) /\ Len(c \o b) = Len(c) + Len(b)
          /\ \A j \in 1..(Len(c) + Len(b)) : (c \o b)[j] = IF j <= Len(c) THEN c[j] ELSE b[j - Len(c)]
        BY <1>2, <1>4, ConcatProperties
    <2> QED BY <1>4, <2>1, Zenon
<1>6. /\ Len(x) \in Nat /\ Len(b) \in Nat /\ Len(p) \in Nat /\ s <= Len(p)
      /\ Len(c \o b) = s + Len(x) + Len(b)
      /\ (s + Len(x) < Len(p) => s + Len(x) + Len(b) = Len(p))
      /\ (~(s + Len(x) < Len(p)) => Len(b) = 0)
    <2>1. Len(x) \in Nat /\ Len(b) \in Nat /\ Len(p) \in Nat /\ s <= Len(p)
        BY <1>2
    <2>2. Len(b) = IF s + Len(x) < Len(p) THEN Len(p) - (s + Len(x)) ELSE 0
        BY <1>2
    <2>3. ASSUME s + Len(x) < Len(p)
          PROVE  s + Len(x) + Len(b) = Len(p)
        <3>1. Len(b) = Len(p) - (s + Len(x))
            BY <2>2, <2>3
        <3> QED
            BY <2>1, <3>1
    <2>4. ~(s + Len(x) < Len(p)) => Len(b) = 0
        BY <2>2
    <2> QED BY <1>5, <2>1, <2>3, <2>4
<1>7. ASSUME NEW j \in 1..(s + Len(x) + Len(b))
      PROVE  (c \o b)[j] = IF j <= s THEN p[j] ELSE IF j <= s + Len(x) THEN x[j - s] ELSE p[j]
    <2>1. CASE j <= s
        <3>1. j \in 1..s /\ j \in 1..(s + Len(x)) /\ j <= s + Len(x)
            BY <1>6, <2>1
        <3> QED BY <1>1, <1>4, <1>5, <2>1, <3>1
    <2>2. CASE s < j /\ j <= s + Len(x)
        <3>1. j \in 1..(s + Len(x)) /\ ~(j <= s)
            BY <1>6, <2>2
        <3> QED BY <1>4, <1>5, <2>2, <3>1
    <2>3. CASE s + Len(x) < j
        <3>1. /\ j - (s + Len(x)) \in 1..Len(b) /\ s + Len(x) + (j - (s + Len(x))) = j
              /\ ~(j <= s + Len(x)) /\ ~(j <= s)
            <4> DEFINE m == s + Len(x)
            <4>1. m \in Nat /\ s <= m /\ m < j /\ j \in 1..(m + Len(b)) /\ Len(b) \in Nat
                BY <1>6, <2>3
            <4> HIDE DEF m
            <4>2. j - m \in 1..Len(b) /\ m + (j - m) = j /\ ~(j <= m) /\ ~(j <= s)
                BY <4>1
            <4> QED BY <4>2 DEF m
        <3>2. (c \o b)[j] = b[j - (s + Len(x))]
            BY <1>5, <3>1
        <3>3. b[j - (s + Len(x))] = p[s + Len(x) + (j - (s + Len(x)))]
            BY <1>2, <3>1
        <3> QED BY <3>1, <3>2, <3>3
    <2>4. j <= s \/ (s < j /\ j <= s + Len(x)) \/ s + Len(x) < j
        BY <1>6
    <2> QED BY <2>1, <2>2, <2>3, <2>4
<1>8. /\ s + Len(x) < Len(p) => Len(c \o b) = Len(p)
      /\ ~(s + Len(x) < Len(p)) => Len(c \o b) = s + Len(x)
    BY <1>6
<1>9. Over(p, s, x) = c \o b
    BY <1>3 DEF c
<1> QED BY <1>5, <1>7, <1>8, <1>9 DEF OverIs

\* The bytes of one element.
Element(b, i) == SubSeq(b, Start(i - 1) + 1, Start(i))

\* An element that lies within the bytes is as long as any.
LEMMA ElementBytes ==
    ASSUME NEW b \in Seq(Nat), NEW i \in Nat \ {0}, Start(i) <= Len(b)
    PROVE  /\ Element(b, i) \in Seq(Nat) /\ Len(Element(b, i)) = ElementSize
           /\ \A j \in 1..ElementSize : Element(b, i)[j] = b[Start(i - 1) + j]
<1>1. /\ Start(i - 1) \in Nat /\ Start(i) \in Nat /\ Start(i) = Start(i - 1) + ElementSize
      /\ ElementSize \in Nat \ {0}
    <2>1. i - 1 \in Nat /\ (i - 1) + 1 = i
        OBVIOUS
    <2> QED BY <2>1, Starts, DirectAssumption
<1>2. \A j \in (Start(i - 1) + 1)..Start(i) : b[j] \in Nat
    BY <1>1, ElementOfSeq
<1>3. /\ Element(b, i) \in Seq(Nat)
      /\ Len(Element(b, i)) = IF Start(i - 1) + 1 <= Start(i) THEN Start(i) - (Start(i - 1) + 1) + 1 ELSE 0
      /\ \A j \in 1..(Start(i) - (Start(i - 1) + 1) + 1) :
             Element(b, i)[j] = b[(Start(i - 1) + 1) + j - 1]
    <2>1. Start(i - 1) + 1 \in Int /\ Start(i) \in Int
        BY <1>1
    <2> QED BY <1>2, <2>1, SubSeqProperties DEF Element
<1>4. Start(i) - (Start(i - 1) + 1) + 1 = ElementSize /\ Start(i - 1) + 1 <= Start(i)
    BY <1>1
<1>5. \A j \in 1..ElementSize : (Start(i - 1) + 1) + j - 1 = Start(i - 1) + j
    BY <1>1
<1> QED BY <1>3, <1>4, <1>5

\* Zeros are numbers.
LEMMA ZerosAre ==
    ASSUME NEW n \in Nat
    PROVE  Zeros(n) \in Seq(Nat) /\ Len(Zeros(n)) = n /\ \A j \in 1..n : Zeros(n)[j] = 0
BY DEF Zeros

\* The file as far as a write leaves what it held, up to where the write begins.
FilledUp(start) == IF start > Len(bytes) THEN bytes \o Zeros(start - Len(bytes)) ELSE bytes

\* Padding changes no byte there is, and what it adds is zero.
LEMMA PaddedIs ==
    ASSUME bytes \in Seq(Nat), NEW start \in Nat
    PROVE  /\ FilledUp(start) \in Seq(Nat)
           /\ start > Len(bytes) => Len(FilledUp(start)) = start
           /\ ~(start > Len(bytes)) => Len(FilledUp(start)) = Len(bytes)
           /\ \A j \in 1..Len(FilledUp(start)) : FilledUp(start)[j] = IF j <= Len(bytes) THEN bytes[j] ELSE 0
<1>1. Len(bytes) \in Nat
    OBVIOUS
<1>2. CASE start > Len(bytes)
    <2> DEFINE z == Zeros(start - Len(bytes))
    <2>1. start - Len(bytes) \in Nat
        BY <1>1, <1>2
    <2>2. z \in Seq(Nat) /\ Len(z) = start - Len(bytes) /\ \A j \in 1..(start - Len(bytes)) : z[j] = 0
        BY <2>1, ZerosAre
    <2> HIDE DEF z
    <2>3. /\ bytes \o z \in Seq(Nat) /\ Len(bytes \o z) = Len(bytes) + Len(z)
          /\ \A j \in 1..(Len(bytes) + Len(z)) :
                 (bytes \o z)[j] = IF j <= Len(bytes) THEN bytes[j] ELSE z[j - Len(bytes)]
        BY <2>2, ConcatProperties
    <2>4. Len(bytes) + Len(z) = start
        BY <1>1, <2>2
    <2>5. ASSUME NEW j \in 1..start PROVE (bytes \o z)[j] = IF j <= Len(bytes) THEN bytes[j] ELSE 0
        <3>1. ~(j <= Len(bytes)) => j - Len(bytes) \in 1..(start - Len(bytes))
            BY <1>1
        <3> QED BY <2>2, <2>3, <2>4, <3>1
    <2>6. FilledUp(start) = bytes \o z
        BY <1>2 DEF FilledUp, z
    <2> QED BY <1>2, <2>3, <2>4, <2>5, <2>6
<1>3. CASE ~(start > Len(bytes))
    BY <1>1, <1>3 DEF FilledUp
<1> QED BY <1>2, <1>3

\* Writing replaces one element and makes holes of those between the old end
\* and it.
LEMMA WriteStep ==
    ASSUME DirectInv, NEW item \in ElementValues, NEW index \in Nat, WriteAt(item, index)
    PROVE  DirectInv' /\ Abstract!Write(item, Place(index))
<1>to. PICK to \in Nat \ {0} : to = Place(index)
    BY SoughtPlace
<1>n. PICK n \in Nat : n = SizeOf
    BY InElements
<1>start. PICK start \in Nat : start = Start(to - 1)
    BY <1>to, SoughtPlace
<1>size. PICK size \in Nat : size = IF to > n THEN to ELSE n
    OBVIOUS
<1> DEFINE p == FilledUp(start)
<1>1. /\ Sought(index) = start /\ start + ElementSize = Start(to) /\ ElementSize \in Nat \ {0}
      /\ Start(to) \in Nat /\ Start(n) \in Nat /\ Len(bytes) = Start(n) /\ bytes \in Seq(Nat)
    BY <1>to, <1>n, <1>start, SoughtPlace, InElements, DirectAssumption, Starts DEF DirectInv
<1>2. item \in Seq(Nat) /\ Len(item) = ElementSize
    BY DirectAssumption
<1>3. /\ p \in Seq(Nat)
      /\ start > Start(n) => Len(p) = start
      /\ ~(start > Start(n)) => Len(p) = Start(n)
      /\ \A j \in 1..Len(p) : p[j] = IF j <= Start(n) THEN bytes[j] ELSE 0
    BY <1>1, PaddedIs
<1>4. /\ bytes' = Over(p, start, item) /\ offset' = Start(to) /\ direct' = Delivered("Write", NoItem)
      /\ UNCHANGED directMode
    BY <1>1, <1>2 DEF WriteAt, Over, FilledUp
<1> HIDE DEF p
\* The bytes afterwards, by where they are.
<1>5. /\ bytes' \in Seq(Nat) /\ start <= Len(p) /\ Len(p) \in Nat
      /\ Start(to) < Len(p) => Len(bytes') = Len(p)
      /\ ~(Start(to) < Len(p)) => Len(bytes') = Start(to)
      /\ \A j \in 1..Len(bytes') :
             bytes'[j] = IF j <= start THEN p[j] ELSE IF j <= Start(to) THEN item[j - start] ELSE p[j]
    <2>1. start <= Len(p) /\ Len(p) \in Nat
        BY <1>1, <1>3
    <2>2. /\ Over(p, start, item) \in Seq(Nat)
          /\ start + Len(item) < Len(p) => Len(Over(p, start, item)) = Len(p)
          /\ ~(start + Len(item) < Len(p)) => Len(Over(p, start, item)) = start + Len(item)
          /\ \A j \in 1..Len(Over(p, start, item)) :
                 Over(p, start, item)[j] =
                     IF j <= start THEN p[j] ELSE IF j <= start + Len(item) THEN item[j - start] ELSE p[j]
        <3>1. p \in Seq(Nat) /\ item \in Seq(Nat)
            BY <1>2, <1>3
        <3>2. OverIs(p, start, item)
            BY <2>1, <3>1, Overwritten
        <3> QED BY <3>2 DEF OverIs
    <2>3. start + Len(item) = Start(to)
        BY <1>1, <1>2
    <2> QED BY <1>4, <2>1, <2>2, <2>3, Zenon
<1>6. Len(bytes') = Start(size)
    <2>1. CASE to > n
        <3>1. Start(n) <= start
            <4>1. n <= to - 1 /\ to - 1 \in Nat
                BY <2>1
            <4> QED BY <1>start, <4>1, Starts
        <3>2. Len(p) = start
            BY <1>1, <1>3, <3>1
        <3> QED BY <1>1, <1>5, <1>size, <2>1, <3>2
    <2>2. CASE to <= n
        <3>1. Start(to) <= Start(n)
            BY <2>2, Starts
        <3>2. Len(p) = Start(n)
            BY <1>1, <1>3, <3>1
        <3> QED BY <1>1, <1>5, <1>size, <2>2, <3>1, <3>2
    <2> QED BY <2>1, <2>2
<1>7. DirectInv'
    BY <1>1, <1>4, <1>5, <1>6 DEF DirectInv
<1>8. SizeOf' = size /\ IndexOf' = to + 1
    BY <1>4, <1>6, Starts DEF SizeOf, IndexOf
<1>9. ASSUME NEW i \in 1..size
      PROVE  Element(bytes', i) = CASE i = to -> item
                                    [] i # to /\ i <= n -> Element(bytes, i)
                                    [] OTHER -> NoItem
    <2>s. PICK s \in Nat : s = Start(i - 1)
        BY Starts
    <2>1. /\ i \in Nat \ {0} /\ i - 1 \in Nat /\ Start(i) = s + ElementSize /\ Start(i) \in Nat
          /\ Start(i) <= Len(bytes') /\ Len(bytes') \in Nat
        <3>1. i \in Nat \ {0} /\ i - 1 \in Nat /\ (i - 1) + 1 = i /\ i <= size
            OBVIOUS
        <3>2. Start(i) = s + ElementSize /\ Start(i) \in Nat
            BY <2>s, <3>1, Starts
        <3>3. Start(i) <= Start(size)
            BY <3>1, Starts
        <3> QED BY <1>5, <1>6, <3>1, <3>2, <3>3
    <2>2. /\ Element(bytes', i) \in Seq(Nat) /\ Len(Element(bytes', i)) = ElementSize
          /\ \A j \in 1..ElementSize : Element(bytes', i)[j] = bytes'[s + j]
        BY <1>5, <2>s, <2>1, ElementBytes
    <2>3. CASE i = to
        <3>1. ASSUME NEW j \in 1..ElementSize PROVE Element(bytes', i)[j] = item[j]
            <4>1. /\ s = start /\ s + j \in 1..Len(bytes') /\ ~(s + j <= start) /\ s + j <= Start(to)
                  /\ (s + j) - start = j
                <5>1. s = start /\ s + ElementSize <= Len(bytes') /\ s + ElementSize = Start(to)
                    BY <1>1, <1>start, <2>s, <2>1, <2>3
                <5>2. s + j \in 1..Len(bytes')
                    BY <1>1, <2>1, <5>1
                <5>3. ~(s + j <= start) /\ s + j <= Start(to) /\ (s + j) - start = j
                    BY <1>1, <5>1
                <5> QED BY <5>1, <5>2, <5>3
            <4> QED BY <1>5, <2>2, <4>1
        <3> QED BY <1>2, <2>2, <2>3, <3>1, SeqEqual
    <2>4. CASE i # to /\ i <= n
        <3>1. Start(i) <= Start(n)
            BY <2>1, <2>4, Starts
        <3>2. /\ Element(bytes, i) \in Seq(Nat) /\ Len(Element(bytes, i)) = ElementSize
              /\ \A j \in 1..ElementSize : Element(bytes, i)[j] = bytes[s + j]
            BY <1>1, <2>s, <2>1, <3>1, ElementBytes
        <3>3. Start(i) <= start \/ Start(to) <= s
            <4>1. CASE i < to
                <5>1. i <= to - 1 /\ to - 1 \in Nat
                    BY <2>1, <4>1
                <5> QED BY <1>start, <2>1, <5>1, Starts
            <4>2. CASE to < i
                <5>1. to <= i - 1 /\ i - 1 \in Nat
                    BY <2>1, <4>2
                <5> QED BY <2>s, <2>1, <5>1, Starts
            <4> QED BY <2>1, <2>4, <4>1, <4>2
        <3>4. ASSUME NEW j \in 1..ElementSize PROVE Element(bytes', i)[j] = Element(bytes, i)[j]
            <4>1. /\ s + j \in 1..Len(bytes') /\ s + j \in 1..Len(p) /\ s + j <= Start(n)
                  /\ s + j <= start \/ ~(s + j <= Start(to))
                <5>1. Start(n) <= Len(p) /\ Len(p) \in Nat
                    BY <1>1, <1>3
                <5>2. s + j <= Start(n)
                    BY <1>1, <2>1, <3>1
                <5>3. s + j \in 1..Len(bytes')
                    BY <1>1, <2>1
                <5>4. s + j \in 1..Len(p)
                    BY <1>1, <5>1, <5>2
                <5>5. s + j <= start \/ ~(s + j <= Start(to))
                    BY <1>1, <2>1, <3>3
                <5> QED BY <5>2, <5>3, <5>4, <5>5
            <4>2. bytes'[s + j] = p[s + j]
                BY <1>1, <1>5, <4>1
            <4>3. p[s + j] = bytes[s + j]
                BY <1>3, <4>1
            <4> QED BY <2>2, <3>2, <4>2, <4>3
        <3> QED BY <2>2, <2>4, <3>2, <3>4, SeqEqual
    <2>5. CASE i # to /\ ~(i <= n)
        <3>1. Start(n) <= s /\ Start(i) <= start
            <4>1. n <= i - 1 /\ i <= to - 1 /\ to - 1 \in Nat
                BY <1>size, <2>1, <2>5
            <4>2. Start(n) <= Start(i - 1) /\ Start(i) <= Start(to - 1)
                BY <2>1, <4>1, Starts
            <4> QED BY <1>start, <2>s, <4>2
        <3>2. NoItem \in Seq(Nat) /\ Len(NoItem) = ElementSize /\ \A j \in 1..ElementSize : NoItem[j] = 0
            BY <1>1, ZerosAre DEF NoItem
        <3>3. ASSUME NEW j \in 1..ElementSize PROVE Element(bytes', i)[j] = NoItem[j]
            <4>1. /\ s + j \in 1..Len(bytes') /\ s + j \in 1..Len(p) /\ ~(s + j <= Start(n))
                  /\ s + j <= start
                <5>1. s + j \in 1..Len(bytes')
                    BY <1>1, <2>1
                <5>2. ~(s + j <= Start(n))
                    BY <1>1, <3>1
                <5>3. s + j <= start
                    BY <1>1, <2>1, <3>1
                <5>4. s + j \in 1..Len(p)
                    BY <1>5, <5>3
                <5> QED BY <5>1, <5>2, <5>3, <5>4
            <4> QED BY <1>3, <1>5, <2>2, <3>2, <4>1
        <3> QED BY <2>2, <2>5, <3>2, <3>3, SeqEqual
    <2> QED BY <2>3, <2>4, <2>5
<1>10. ElementsOf = [i \in 1..n |-> Element(bytes, i)] /\ ElementsOf' = [i \in 1..size |-> Element(bytes', i)]
    BY <1>n, <1>8 DEF ElementsOf, Element, Start
<1>11. ElementsOf' = [i \in 1..size |-> CASE i = to -> item
                                          [] i # to /\ i <= n -> ElementsOf[i]
                                          [] OTHER -> NoItem]
    <2>1. ASSUME NEW i \in 1..size, i <= n PROVE ElementsOf[i] = Element(bytes, i)
        BY <1>10, <2>1
    <2> QED BY <1>9, <1>10, <2>1
<1>12. Len(ElementsOf) = n
    BY <1>10
<1>13. AdaMode' = AdaMode
    BY <1>4 DEF AdaMode
<1>14. Abstract!Write(item, to)
    BY <1>4, <1>8, <1>11, <1>12, <1>13, <1>size DEF Abstract!Write, Abstract!Item, Delivered
<1> QED BY <1>to, <1>7, <1>14

-----------------------------------------------------------------------------
(* The other operations, and the refinement.                               *)

\* A refusal changes nothing.
LEMMA RefusedStep ==
    ASSUME DirectInv, NEW op, ModeRefuses(op)
    PROVE  DirectInv' /\ Abstract!Refused(op)
<1>1. UNCHANGED <<directMode, bytes, offset>> /\ direct' = Refusal(op, "MODE_ERROR")
    BY DEF ModeRefuses
<1>2. AdaMode' = AdaMode /\ ElementsOf' = ElementsOf /\ IndexOf' = IndexOf
    BY <1>1 DEF AdaMode, ElementsOf, SizeOf, IndexOf
<1> QED BY <1>1, <1>2 DEF DirectInv, Abstract!Refused, Abstract!Raise, Refusal

\* Moving the position is setting the index, behind the end of the file too.
LEMMA SetIndexStep ==
    ASSUME DirectInv, NEW index \in 1..MaxIndex, SetIndex(index)
    PROVE  /\ DirectInv'
           /\ IndexOf' = index /\ direct' = Abstract!Item("Set_Index", NoItem)
           /\ AdaMode' = AdaMode /\ ElementsOf' = ElementsOf
<1>1. index - 1 \in Nat /\ offset' = Start(index - 1) /\ UNCHANGED <<directMode, bytes>>
    BY DirectAssumption DEF SetIndex, OffsetOf, Start
<1>2. IndexOf' = (index - 1) + 1
    BY <1>1, Starts DEF IndexOf
<1>3. IndexOf' = index
    BY <1>2, DirectAssumption
<1>4. AdaMode' = AdaMode /\ ElementsOf' = ElementsOf
    BY <1>1 DEF AdaMode, ElementsOf, SizeOf
<1>5. DirectInv'
    BY <1>1 DEF DirectInv
<1> QED BY <1>3, <1>4, <1>5 DEF SetIndex, Abstract!Item, Delivered

\* What the file says of itself is what its elements say.
LEMMA AskStep ==
    ASSUME DirectInv, AskIndex \/ AskSize \/ AskEnd
    PROVE  /\ DirectInv'
           /\ \/ Abstract!Asked("Index", IndexOf)
              \/ Abstract!Asked("Size", Len(ElementsOf))
              \/ /\ AdaMode # "Out_File"
                 /\ Abstract!Asked("End_Of_File", IF IndexOf > Len(ElementsOf) THEN 1 ELSE 0)
              \/ AdaMode = "Out_File" /\ Abstract!Refused("End_Of_File")
<1>1. UNCHANGED <<directMode, bytes, offset>>
    BY DEF AskIndex, AskSize, AskEnd, EndAt, ModeRefuses
<1>2. AdaMode' = AdaMode /\ ElementsOf' = ElementsOf /\ IndexOf' = IndexOf /\ DirectInv'
    BY <1>1 DEF AdaMode, ElementsOf, SizeOf, IndexOf, DirectInv
<1>3. SizeOf \in Nat /\ Len(ElementsOf) = SizeOf
    BY InElements DEF ElementsOf
<1>4. offset >= Len(bytes) <=> IndexOf > SizeOf
    <2>1. PICK k \in Nat : k = IndexOf - 1
        BY InElements
    <2>2. IndexOf = k + 1 /\ offset = Start(k) /\ Len(bytes) = Start(SizeOf)
        BY <2>1, InElements
    <2>3. SizeOf <= k <=> Start(SizeOf) <= Start(k)
        BY <1>3, Starts
    <2>4. Start(SizeOf) \in Nat /\ Start(k) \in Nat
        BY <1>3, Starts
    <2> QED BY <1>3, <2>2, <2>3, <2>4
<1>5. CASE AskIndex
    BY <1>2, <1>5 DEF AskIndex, Abstract!Asked, Abstract!Number, Counted
<1>6. CASE AskSize
    BY <1>2, <1>3, <1>6 DEF AskSize, Abstract!Asked, Abstract!Number, Counted
<1>7. CASE AskEnd /\ directMode # "ADA_MODE_OUT"
    <2>1. AdaMode # "Out_File"
        BY <1>7 DEF AdaMode, DirectInv
    <2>2. direct' = Counted("End_Of_File", IF IndexOf > Len(ElementsOf) THEN 1 ELSE 0)
        BY <1>3, <1>4, <1>7 DEF AskEnd, EndAt
    <2> QED BY <1>2, <2>1, <2>2 DEF Abstract!Asked, Abstract!Number, Counted
<1>8. CASE AskEnd /\ directMode = "ADA_MODE_OUT"
    <2>1. AdaMode = "Out_File"
        BY <1>8 DEF AdaMode
    <2>2. direct' = Refusal("End_Of_File", "MODE_ERROR")
        BY <1>8 DEF AskEnd, ModeRefuses
    <2> QED BY <1>2, <2>1, <2>2 DEF Abstract!Refused, Abstract!Raise, Refusal
<1> QED BY <1>5, <1>6, <1>7, <1>8

\* Reset goes back to the first element; only a file to be written loses any.
LEMMA ResetStep ==
    ASSUME DirectInv, ResetFile
    PROVE  /\ DirectInv' /\ IndexOf' = 1 /\ direct' = direct
           /\ \/ AdaMode' \in {"In_File", "Inout_File"} /\ ElementsOf' = ElementsOf
              \/ AdaMode' = "Out_File" /\ ElementsOf' \in {<<>>, ElementsOf}
<1>1. offset' = Start(0) /\ IndexOf' = 1
    <2>1. 0 \in Nat /\ Start(0) = 0 /\ Start(0) \div ElementSize = 0
        BY Starts
    <2> QED BY <2>1 DEF ResetFile, IndexOf
<1>2. bytes' = bytes \/ (directMode' = "ADA_MODE_OUT" /\ bytes' = <<>>)
    BY DEF ResetFile
<1>3. DirectInv'
    <2>1. bytes' \in Seq(Nat) /\ \E n \in Nat : Len(bytes') = Start(n)
        <3>1. CASE bytes' = bytes
            BY <3>1 DEF DirectInv
        <3>2. CASE bytes' = <<>>
            BY <3>2, Starts
        <3> QED BY <1>2, <3>1, <3>2
    <2> QED BY <1>1, <2>1 DEF DirectInv, ResetFile
<1>4. ElementsOf' = ElementsOf \/ (directMode' = "ADA_MODE_OUT" /\ ElementsOf' = <<>>)
    <2>1. CASE bytes' = bytes
        BY <2>1 DEF ElementsOf, SizeOf
    <2>2. CASE bytes' = <<>>
        <3>1. SizeOf' = 0
            <4>1. Len(bytes') = Start(0) /\ Start(0) \div ElementSize = 0
                BY <2>2, Starts
            <4> QED BY <4>1 DEF SizeOf
        <3>2. ElementsOf' = <<>>
            BY <3>1 DEF ElementsOf
        <3>3. CASE directMode' = "ADA_MODE_OUT"
            BY <3>2, <3>3
        <3>4. CASE bytes' = bytes
            BY <3>4 DEF ElementsOf, SizeOf
        <3> QED BY <1>2, <3>3, <3>4
    <2> QED BY <1>2, <2>1, <2>2
<1>5. /\ directMode' = "ADA_MODE_OUT" => AdaMode' = "Out_File"
      /\ directMode' # "ADA_MODE_OUT" => AdaMode' \in {"In_File", "Inout_File"}
    BY DEF ResetFile, AdaMode
<1>6. direct' = direct
    BY DEF ResetFile
<1> QED BY <1>1, <1>3, <1>4, <1>5, <1>6

\* Each step keeps the invariant and is a step of DirectIO, or none.
LEMMA DirectStep ==
    ASSUME DirectInv, [DirectNext]_directVars
    PROVE  DirectInv' /\ [Abstract!Next]_(Abstract!directIOVars)
<1>1. MaxIndex \in Nat
    BY DirectAssumption
<1>2. ASSUME NEW index \in 0..MaxIndex
      PROVE  index \in Nat /\ (Place(index) = IndexOf \/ Place(index) \in 1..MaxIndex)
    BY <1>1 DEF Place
<1>3. (directMode = "ADA_MODE_OUT" <=> AdaMode = "Out_File") /\ (directMode = "ADA_MODE_IN" <=> AdaMode = "In_File")
    BY DEF AdaMode, DirectInv
<1>4. ASSUME NEW index \in 0..MaxIndex, DirectRead(index)
      PROVE  DirectInv' /\ Abstract!Next
    <2>1. CASE directMode = "ADA_MODE_OUT"
        BY <1>3, <1>4, <2>1, RefusedStep DEF DirectRead, Abstract!Next
    <2>2. CASE directMode # "ADA_MODE_OUT"
        <3>1. DirectInv' /\ Abstract!Read(Place(index))
            BY <1>2, <1>4, <2>2, ReadStep DEF DirectRead
        <3> QED BY <1>2, <1>3, <2>2, <3>1 DEF Abstract!Next
    <2> QED BY <2>1, <2>2
<1>5. ASSUME NEW index \in 0..MaxIndex, NEW x \in ElementValues, DirectWrite(x, index)
      PROVE  DirectInv' /\ Abstract!Next
    <2>1. CASE directMode = "ADA_MODE_IN"
        BY <1>3, <1>5, <2>1, RefusedStep DEF DirectWrite, Abstract!Next
    <2>2. CASE directMode # "ADA_MODE_IN"
        <3>1. DirectInv' /\ Abstract!Write(x, Place(index))
            BY <1>2, <1>5, <2>2, WriteStep DEF DirectWrite
        <3> QED BY <1>2, <1>3, <2>2, <3>1 DEF Abstract!Next
    <2> QED BY <2>1, <2>2
<1>6. ASSUME NEW index \in 1..MaxIndex, SetIndex(index)
      PROVE  DirectInv' /\ Abstract!Next
    BY <1>6, SetIndexStep DEF Abstract!Next
<1>7. CASE AskIndex \/ AskSize \/ AskEnd
    BY <1>7, AskStep DEF Abstract!Next
<1>8. CASE ResetFile
    BY <1>8, ResetStep DEF Abstract!Next
<1>9. CASE UNCHANGED directVars
    <2>1. UNCHANGED <<directMode, bytes, offset, direct>>
        BY <1>9 DEF directVars
    <2>2. AdaMode' = AdaMode /\ ElementsOf' = ElementsOf /\ IndexOf' = IndexOf
        BY <2>1 DEF AdaMode, ElementsOf, SizeOf, IndexOf
    <2> QED BY <2>1, <2>2 DEF DirectInv, Abstract!directIOVars
<1> QED BY <1>4, <1>5, <1>6, <1>7, <1>8, <1>9 DEF DirectNext

\* An empty file is a file of no elements.
LEMMA DirectStart == DirectInit => DirectInv /\ Abstract!Init
<1> SUFFICES ASSUME DirectInit PROVE DirectInv /\ Abstract!Init
    OBVIOUS
<1>1. Start(0) = 0 /\ Start(0) \div ElementSize = 0 /\ Len(bytes) = 0 /\ offset = 0 /\ bytes = <<>>
    BY Starts DEF DirectInit
<1>2. SizeOf = 0 /\ IndexOf = 1 /\ ElementsOf = <<>>
    BY <1>1 DEF SizeOf, IndexOf, ElementsOf
<1>3. DirectInv
    BY <1>1 DEF DirectInit, DirectInv
<1>4. AdaMode \in {"In_File", "Inout_File", "Out_File"}
    BY DEF DirectInit, AdaMode
<1> QED BY <1>2, <1>3, <1>4 DEF DirectInit, Abstract!Init, Abstract!Item, Delivered

\* The file is a whole number of elements and is left between two of them.
THEOREM DirectInvHolds == DirectSpec => []DirectInv
<1>1. DirectInv /\ [DirectNext]_directVars => DirectInv'
    BY DirectStep
<1> QED BY <1>1, DirectStart, PTL DEF DirectSpec

\* The run time's files of bytes are the files of elements Ada promises, for
\* elements of every size and files of any length.
THEOREM DirectIsImplemented == DirectSpec => ImplementsDirectIO
<1>1. DirectInit => Abstract!Init
    BY DirectStart
<1>2. DirectInv /\ [DirectNext]_directVars => [Abstract!Next]_(Abstract!directIOVars)
    BY DirectStep
<1> QED BY <1>1, <1>2, DirectInvHolds, PTL DEF DirectSpec, ImplementsDirectIO, Abstract!Spec

-----------------------------------------------------------------------------
(* Streams.  The cells are the objects written, one behind the other, and  *)
(* reading is in step with them until an array is met that no buffer can   *)
(* hold.  The property follows from where the objects lie and from how far *)
(* the next buffer is ahead of the one each array was left in.             *)

Entry == [object : Objects, data : Seq(Int), index : Nat \ {0}]
Item == [number : Nat, value : Int, first : Int, last : Int, buffer : -1..(StreamBuffers - 1),
         raised : {"none", "END_ERROR", "STORAGE_ERROR"}]

Scalar(entry) == entry.object.kind = "scalar"

\* Where an object begins and ends in the stream, and what it has left there.
Before(entry) == entry.index - 1
After(entry) == Before(entry) + (IF Scalar(entry) THEN 1 ELSE 2 + Len(entry.data))
Holds(contents, entry) ==
    /\ After(entry) <= Len(contents)
    /\ Scalar(entry) => contents[Before(entry) + 1] = entry.object.value
    /\ ~Scalar(entry) =>
          /\ Len(entry.data) = CountOf(entry.object.first, entry.object.last)
          /\ contents[Before(entry) + 1] = entry.object.first
          /\ contents[Before(entry) + 2] = entry.object.last
          /\ \A i \in 1..Len(entry.data) : contents[Before(entry) + 2 + i] = entry.data[i]

StreamTypeOK ==
    /\ cells \in Seq(Int) /\ here \in 0..Len(cells) /\ rewound \in BOOLEAN
    /\ streamBuffers \in [0..(StreamBuffers - 1) -> Seq(Int)]
    /\ \A b \in 0..(StreamBuffers - 1) : Len(streamBuffers[b]) = StreamRoom
    /\ nextStreamBuffer \in 0..(StreamBuffers - 1)
    /\ sent \in Seq(Entry) /\ received \in Seq(Item)

\* The stream is the objects, one behind the other.
Contiguous ==
    /\ \A k \in 1..Len(sent) : Holds(cells, sent[k])
    /\ \A k \in 1..(Len(sent) - 1) : Before(sent[k + 1]) = After(sent[k])
    /\ sent # <<>> => After(sent[Len(sent)]) = Len(cells)
    /\ sent = <<>> => cells = <<>>
    /\ ~rewound => here = Len(cells) /\ received = <<>>

\* Objects are taken in order, and as long as none has raised the position is
\* behind the last one.
InStep(items, i) == \A j \in 1..i : items[j].raised = "none"
InOrder ==
    /\ \A i \in 1..Len(received) :
          /\ received[i].number \in 1..Len(sent)
          /\ received[i].buffer = -1 <=> Scalar(sent[received[i].number])
    /\ (received # <<>> /\ InStep(received, Len(received))) =>
          here = After(sent[received[Len(received)].number])

\* What an object answers whose predecessors have not raised.
Answers(item, entry) ==
    \/ /\ item.raised = "none" /\ Scalar(entry)
       /\ item.value = entry.object.value
    \/ /\ item.raised = "none" /\ ~Scalar(entry) /\ Len(entry.data) <= StreamRoom
       /\ item.first = entry.object.first /\ item.last = entry.object.last
    \/ item.raised = "STORAGE_ERROR" /\ ~Scalar(entry) /\ Len(entry.data) > StreamRoom
Answered == \A i \in 1..Len(received) :
               InStep(received, i - 1) => Answers(received[i], sent[received[i].number])

\* An array is intact while fewer than all buffers have been taken since; then
\* the next buffer is still that many ahead of its own.
Later(items, i) == {j \in DOMAIN items : j > i /\ items[j].buffer # -1}
Onward(b, steps) == IF b + steps < StreamBuffers THEN b + steps ELSE b + steps - StreamBuffers
Intact(buffer, data) == \A p \in 1..Len(data) : buffer[p] = data[p]
Buffered ==
    \A i \in 1..Len(received) :
        (received[i].buffer # -1 /\ Cardinality(Later(received, i)) < StreamBuffers) =>
            /\ nextStreamBuffer = Onward(received[i].buffer, Cardinality(Later(received, i)) + 1)
            /\ InStep(received, i) =>
                   Intact(streamBuffers[received[i].buffer], sent[received[i].number].data)

StreamInv == StreamTypeOK /\ Contiguous /\ InOrder /\ Answered /\ Buffered

-----------------------------------------------------------------------------

\* The buffers are used in turn.
LEMMA InTurn ==
    ASSUME NEW b \in 0..(StreamBuffers - 1)
    PROVE  /\ BufferInTurn(b) = Onward(b, 1)
           /\ BufferInTurn(b) \in 0..(StreamBuffers - 1)
<1>1. StreamBuffers \in Nat /\ StreamBuffers > 0 /\ b \in Nat /\ b < StreamBuffers
    BY StreamAssumption
<1>2. CASE b + 1 < StreamBuffers
    <2>1. (b + 1) % StreamBuffers = b + 1
        BY <1>1, <1>2
    <2> QED
        BY <1>1, <1>2, <2>1 DEF BufferInTurn, Onward
<1>3. CASE b + 1 = StreamBuffers
    <2>1. StreamBuffers % StreamBuffers = 0
        BY <1>1
    <2> QED
        BY <1>1, <1>3, <2>1 DEF BufferInTurn, Onward
<1> QED
    BY <1>1, <1>2, <1>3

\* Another item behind those there are.
LEMMA LaterGrows ==
    ASSUME NEW items \in Seq(Item), NEW item \in Item
    PROVE  /\ \A i \in 1..Len(items) :
                 /\ Cardinality(Later(items, i)) \in Nat
                 /\ item.buffer = -1 =>
                       Cardinality(Later(Append(items, item), i)) = Cardinality(Later(items, i))
                 /\ item.buffer # -1 =>
                       Cardinality(Later(Append(items, item), i)) = Cardinality(Later(items, i)) + 1
           /\ Cardinality(Later(Append(items, item), Len(items) + 1)) = 0
<1> DEFINE more == Append(items, item)
           n == Len(items)
<1>1. /\ n \in Nat /\ DOMAIN items = 1..n /\ DOMAIN more = 1..(n + 1)
      /\ \A j \in 1..n : more[j] = items[j]
      /\ more[n + 1] = item
    OBVIOUS
<1> HIDE DEF more, n
<1>2. ASSUME NEW i \in 1..n
      PROVE  /\ Cardinality(Later(items, i)) \in Nat
             /\ item.buffer = -1 => Cardinality(Later(more, i)) = Cardinality(Later(items, i))
             /\ item.buffer # -1 => Cardinality(Later(more, i)) = Cardinality(Later(items, i)) + 1
    <2>1. IsFiniteSet(1..n)
        <3>1. 1 \in Int /\ n \in Int
            BY <1>1
        <3> QED BY <3>1, FS_Interval
    <2>2. Later(items, i) \subseteq 1..n
        BY <1>1 DEF Later
    <2>3. IsFiniteSet(Later(items, i)) /\ n + 1 \notin Later(items, i)
        BY <1>1, <2>1, <2>2, FS_Subset
    <2>4. Cardinality(Later(items, i)) \in Nat
        BY <2>3, FS_CardinalityType
    <2>5. CASE item.buffer = -1
        <3>1. Later(more, i) = Later(items, i)
            BY <1>1, <2>5 DEF Later
        <3> QED
            BY <2>4, <2>5, <3>1
    <2>6. CASE item.buffer # -1
        <3>1. Later(more, i) = Later(items, i) \cup {n + 1}
            BY <1>1, <2>6 DEF Later
        <3> QED
            BY <2>3, <2>4, <2>6, <3>1, FS_AddElement
    <2> QED
        BY <2>4, <2>5, <2>6
<1>3. Later(more, n + 1) = {}
    BY <1>1 DEF Later
<1> QED
    BY <1>2, <1>3, FS_EmptySet DEF more, n

\* What is known of an object that was written.
LEMMA TheEntry ==
    ASSUME StreamTypeOK, Contiguous, NEW n \in 1..Len(sent)
    PROVE  /\ sent[n] \in Entry /\ Before(sent[n]) \in Nat /\ After(sent[n]) \in Nat
           /\ Holds(cells, sent[n])
           /\ Scalar(sent[n]) => After(sent[n]) = Before(sent[n]) + 1
           /\ ~Scalar(sent[n]) => After(sent[n]) = Before(sent[n]) + 2 + Len(sent[n].data)
           /\ sent[n].data \in Seq(Int) /\ Len(sent[n].data) \in Nat
<1>1. sent[n] \in Entry
    BY DEF StreamTypeOK
<1>2. sent[n].data \in Seq(Int) /\ Len(sent[n].data) \in Nat /\ sent[n].index \in Nat \ {0}
    BY <1>1 DEF Entry
<1>3. Before(sent[n]) \in Nat
    BY <1>2 DEF Before
<1>4. Holds(cells, sent[n])
    BY DEF Contiguous
<1>5. CASE Scalar(sent[n])
    <2>1. After(sent[n]) = Before(sent[n]) + 1
        BY <1>5 DEF After
    <2> QED
        BY <1>1, <1>2, <1>3, <1>4, <1>5, <2>1
<1>6. CASE ~Scalar(sent[n])
    <2>1. After(sent[n]) = Before(sent[n]) + (2 + Len(sent[n].data))
        BY <1>6 DEF After
    <2>2. /\ After(sent[n]) = Before(sent[n]) + 2 + Len(sent[n].data)
          /\ After(sent[n]) \in Nat
        BY <1>2, <1>3, <2>1
    <2> QED
        BY <1>1, <1>2, <1>3, <1>4, <1>6, <2>2
<1> QED
    BY <1>5, <1>6

\* The position is in front of the object that is asked for.
LEMMA InFront ==
    ASSUME StreamInv, NEW n \in 1..Len(sent), InStep(received, Len(received)),
           received = <<>> => here + 1 = sent[n].index,
           received # <<>> => n = Last(received).number + 1
    PROVE  here = Before(sent[n])
<1>1. CASE received = <<>>
    <2>1. here \in Int
        BY DEF StreamInv, StreamTypeOK
    <2>2. sent[n] \in Entry
        BY DEF StreamInv, StreamTypeOK
    <2>3. sent[n].index \in Int
        BY <2>2 DEF Entry
    <2> QED
        BY <1>1, <2>1, <2>3 DEF Before
<1>2. CASE received # <<>>
    <2>1. Len(received) \in 1..Len(received) /\ Last(received) = received[Len(received)]
        BY <1>2 DEF StreamInv, StreamTypeOK, Last
    <2>2. PICK m \in 1..Len(sent) : m = received[Len(received)].number
        BY <2>1 DEF StreamInv, InOrder
    <2>3. here = After(sent[m])
        BY <1>2, <2>2 DEF StreamInv, InOrder
    <2>4. m \in 1..(Len(sent) - 1) /\ n = m + 1
        BY <1>2, <2>1, <2>2 DEF StreamInv, StreamTypeOK
    <2> QED
        BY <2>3, <2>4 DEF StreamInv, Contiguous
<1> QED
    BY <1>1, <1>2

\* A read, whatever it gives, as far as the invariant is concerned.
LEMMA StreamReadStep ==
    ASSUME StreamInv, rewound, NEW n \in 1..Len(sent), NEW item \in Item,
           received' = Append(received, item), UNCHANGED <<cells, rewound, sent>>,
           here' \in 0..Len(cells), item.number = n,
           item.buffer = -1 <=> Scalar(sent[n]),
           streamBuffers' \in [0..(StreamBuffers - 1) -> Seq(Int)],
           \A b \in 0..(StreamBuffers - 1) : Len(streamBuffers'[b]) = StreamRoom,
           InStep(received, Len(received)) =>
               /\ Answers(item, sent[n])
               /\ item.raised = "none" =>
                      /\ here' = After(sent[n])
                      /\ ~Scalar(sent[n]) => Intact(streamBuffers'[nextStreamBuffer], sent[n].data),
           item.buffer = -1 => UNCHANGED <<streamBuffers, nextStreamBuffer>>,
           item.buffer # -1 =>
               /\ item.buffer = nextStreamBuffer
               /\ nextStreamBuffer' = BufferInTurn(nextStreamBuffer)
               /\ \A b \in 0..(StreamBuffers - 1) : b # nextStreamBuffer => streamBuffers'[b] = streamBuffers[b]
    PROVE  StreamInv'
<1>1. PICK items \in Seq(Item) : items = received
    BY DEF StreamInv, StreamTypeOK
<1>2. PICK more \in Seq(Item) : more = Append(items, item)
    BY AppendProperties
<1>3. PICK m \in Nat : m = Len(items)
    BY <1>1
<1>4. /\ received' = more /\ Len(more) = m + 1 /\ more # <<>>
      /\ \A i \in 1..m : more[i] = items[i]
      /\ more[m + 1] = item
    BY <1>1, <1>2, <1>3, AppendProperties
<1>5. /\ \A i \in 0..m : InStep(more, i) <=> InStep(items, i)
      /\ InStep(more, m + 1) => InStep(items, m) /\ item.raised = "none"
    <2>1. ASSUME NEW i \in 0..m
          PROVE  InStep(more, i) <=> InStep(items, i)
        <3>1. \A j \in 1..i : j \in 1..m /\ more[j] = items[j]
            BY <1>4
        <3> QED
            BY <3>1 DEF InStep
    <2>2. ASSUME InStep(more, m + 1)
          PROVE  InStep(items, m) /\ item.raised = "none"
        <3>1. \A j \in 1..m : j \in 1..(m + 1) /\ more[j] = items[j]
            BY <1>4
        <3>2. m + 1 \in 1..(m + 1)
            OBVIOUS
        <3> QED
            BY <1>4, <2>2, <3>1, <3>2 DEF InStep
    <2> QED
        BY <2>1, <2>2
<1>6. nextStreamBuffer \in 0..(StreamBuffers - 1)
    BY DEF StreamInv, StreamTypeOK
<1>7. StreamTypeOK'
    <2>1. nextStreamBuffer' \in 0..(StreamBuffers - 1)
        BY <1>6, InTurn
    <2> QED
        BY <1>4, <2>1 DEF StreamInv, StreamTypeOK
<1>8. Contiguous'
    BY DEF StreamInv, Contiguous
<1>9. InOrder'
    <2>1. \A i \in 1..(m + 1) : more[i].number \in 1..Len(sent) /\ (more[i].buffer = -1 <=> Scalar(sent[more[i].number]))
        BY <1>1, <1>3, <1>4 DEF StreamInv, InOrder
    <2>2. InStep(more, m + 1) => here' = After(sent[n])
        BY <1>1, <1>3, <1>5
    <2> QED
        BY <1>4, <2>1, <2>2 DEF InOrder
<1>10. Answered'
    <2>1. ASSUME NEW i \in 1..(m + 1), InStep(more, i - 1)
          PROVE  Answers(more[i], sent[more[i].number])
        <3>1. CASE i \in 1..m
            <4>1. InStep(items, i - 1)
                BY <1>5, <2>1, <3>1
            <4> QED
                BY <1>1, <1>3, <1>4, <3>1, <4>1 DEF StreamInv, Answered
        <3>2. CASE i = m + 1
            <4>1. InStep(items, m)
                BY <1>3, <1>5, <2>1, <3>2
            <4> QED
                BY <1>1, <1>3, <1>4, <3>2, <4>1
        <3> QED
            BY <3>1, <3>2
    <2> QED
        BY <1>4, <2>1 DEF Answered
<1>11. Buffered'
    <2>1. /\ StreamBuffers \in Nat \ {0}
          /\ item.buffer # -1 => nextStreamBuffer' = Onward(nextStreamBuffer, 1)
        BY <1>6, StreamAssumption, InTurn
    <2>2. /\ \A i \in 1..m :
                 /\ Cardinality(Later(items, i)) \in Nat
                 /\ item.buffer = -1 => Cardinality(Later(more, i)) = Cardinality(Later(items, i))
                 /\ item.buffer # -1 => Cardinality(Later(more, i)) = Cardinality(Later(items, i)) + 1
          /\ Cardinality(Later(more, m + 1)) = 0
        BY <1>2, <1>3, LaterGrows
    <2>3. ASSUME NEW i \in 1..(m + 1), more[i].buffer # -1, Cardinality(Later(more, i)) < StreamBuffers
          PROVE  /\ nextStreamBuffer' = Onward(more[i].buffer, Cardinality(Later(more, i)) + 1)
                 /\ InStep(more, i) => Intact(streamBuffers'[more[i].buffer], sent[more[i].number].data)
        <3>1. CASE i \in 1..m
            <4>1. PICK c \in Nat : c = Cardinality(Later(items, i))
                BY <2>2, <3>1
            <4>2. PICK b \in 0..(StreamBuffers - 1) : b = items[i].buffer
                <5>1. items[i] \in Item /\ items[i].buffer # -1
                    <6>1. items[i] \in Item
                        BY <1>3, <3>1
                    <6>2. more[i] = items[i]
                        BY <1>4, <3>1
                    <6> QED
                        BY <2>3, <6>1, <6>2
                <5>2. items[i].buffer \in -1..(StreamBuffers - 1)
                    BY <5>1 DEF Item
                <5> QED
                    BY <2>1, <5>1, <5>2
            <4>3. /\ item.buffer = -1 => Cardinality(Later(more, i)) = c
                  /\ item.buffer # -1 => Cardinality(Later(more, i)) = c + 1
                  /\ c < StreamBuffers
                <5>1. /\ item.buffer = -1 => Cardinality(Later(more, i)) = c
                      /\ item.buffer # -1 => Cardinality(Later(more, i)) = c + 1
                    BY <2>2, <3>1, <4>1
                <5>2. Cardinality(Later(more, i)) < StreamBuffers /\ StreamBuffers \in Nat
                    BY <2>1, <2>3
                <5>3. CASE item.buffer = -1
                    BY <5>1, <5>2, <5>3
                <5>4. CASE item.buffer # -1
                    BY <5>1, <5>2, <5>4
                <5> QED
                    BY <5>1, <5>3, <5>4
            <4>4. /\ nextStreamBuffer = Onward(b, c + 1)
                  /\ InStep(items, i) => Intact(streamBuffers[b], sent[items[i].number].data)
                <5>1. i \in 1..Len(received) /\ received[i].buffer # -1
                    BY <1>1, <1>3, <1>4, <2>3, <3>1
                <5>2. Cardinality(Later(received, i)) < StreamBuffers
                    BY <1>1, <4>1, <4>3
                <5>3. /\ nextStreamBuffer = Onward(received[i].buffer, Cardinality(Later(received, i)) + 1)
                      /\ InStep(received, i) =>
                             Intact(streamBuffers[received[i].buffer], sent[received[i].number].data)
                    BY <5>1, <5>2 DEF StreamInv, Buffered
                <5> QED
                    BY <1>1, <4>1, <4>2, <5>3
            <4>5. CASE item.buffer = -1
                <5>1. more[i] = items[i] /\ (InStep(more, i) <=> InStep(items, i))
                    BY <1>4, <1>5, <3>1
                <5>2. Cardinality(Later(more, i)) + 1 = c + 1
                    BY <4>3, <4>5
                <5>3. UNCHANGED <<streamBuffers, nextStreamBuffer>>
                    BY <4>5
                <5> QED
                    BY <4>2, <4>4, <5>1, <5>2, <5>3
            <4>6. CASE item.buffer # -1
                <5>1. c + 1 < StreamBuffers
                    BY <2>1, <2>3, <4>3, <4>6
                <5>2. nextStreamBuffer # b /\ Onward(nextStreamBuffer, 1) = Onward(b, c + 2)
                    BY <1>6, <2>1, <4>4, <5>1 DEF Onward
                <5>3. streamBuffers'[b] = streamBuffers[b]
                    BY <4>6, <5>2
                <5>4. Cardinality(Later(more, i)) + 1 = c + 2
                    BY <4>3, <4>6
                <5>5. more[i] = items[i] /\ (InStep(more, i) <=> InStep(items, i))
                    BY <1>4, <1>5, <3>1
                <5>6. nextStreamBuffer' = Onward(b, c + 2)
                    BY <2>1, <4>6, <5>2
                <5> QED
                    BY <4>2, <4>4, <5>3, <5>4, <5>5, <5>6
            <4> QED
                BY <4>5, <4>6
        <3>2. CASE i = m + 1
            <4>1. more[i].buffer = nextStreamBuffer /\ item.buffer # -1 /\ more[i].number = n
                BY <1>4, <2>3, <3>2
            <4>2. nextStreamBuffer' = Onward(more[i].buffer, Cardinality(Later(more, i)) + 1)
                BY <2>1, <2>2, <3>2, <4>1
            <4>3. InStep(more, i) => Intact(streamBuffers'[nextStreamBuffer], sent[n].data)
                BY <1>1, <1>3, <1>5, <3>2, <4>1
            <4> QED
                BY <4>1, <4>2, <4>3
        <3> QED
            BY <3>1, <3>2
    <2> QED
        BY <1>4, <2>3 DEF Buffered
<1> QED
    BY <1>7, <1>8, <1>9, <1>10, <1>11 DEF StreamInv

\* What a write puts behind the cells there are.
Put(contents, object, data) ==
    contents \o (IF object.kind = "scalar" THEN <<>> ELSE <<object.first, object.last>>) \o data

\* A scalar is one cell more.
LEMMA PutScalar ==
    ASSUME NEW contents \in Seq(Int), NEW object \in Objects, object.kind = "scalar"
    PROVE  \E all \in Seq(Int) :
               /\ all = Put(contents, object, <<object.value>>) /\ Len(all) = Len(contents) + 1
               /\ \A i \in 1..Len(contents) : all[i] = contents[i]
               /\ all[Len(contents) + 1] = object.value
<1>1. PICK v \in Int : v = object.value
    BY StreamAssumption
<1>2. contents \o <<>> = contents
    OBVIOUS
<1>3. Put(contents, object, <<object.value>>) = contents \o <<v>>
    BY <1>1, <1>2 DEF Put
<1>4. Append(contents, v) = contents \o <<v>>
    BY AppendIsConcat
<1>5. PICK all \in Seq(Int) : all = Append(contents, v)
    BY AppendProperties
<1>6. /\ Len(all) = Len(contents) + 1 /\ all[Len(contents) + 1] = v
      /\ \A i \in 1..Len(contents) : all[i] = contents[i]
    BY <1>5, AppendProperties
<1>7. Put(contents, object, <<object.value>>) = all
    BY <1>3, <1>4, <1>5
<1> QED
    BY <1>1, <1>6, <1>7

\* An array is its bounds and its elements behind what there was.
LEMMA PutArray ==
    ASSUME NEW contents \in Seq(Int), NEW object \in Objects, object.kind # "scalar",
           NEW data \in Seq(Int)
    PROVE  \E all \in Seq(Int) :
               /\ all = Put(contents, object, data) /\ Len(all) = Len(contents) + 2 + Len(data)
               /\ \A i \in 1..Len(contents) : all[i] = contents[i]
               /\ all[Len(contents) + 1] = object.first
               /\ all[Len(contents) + 2] = object.last
               /\ \A i \in 1..Len(data) : all[Len(contents) + 2 + i] = data[i]
<1>1. PICK first \in Int : first = object.first
    BY StreamAssumption
<1>2. PICK last \in Int : last = object.last
    BY StreamAssumption
<1>3. PICK one \in Seq(Int) : one = Append(contents, first)
    BY AppendProperties
<1>4. /\ Len(one) = Len(contents) + 1 /\ one[Len(contents) + 1] = first
      /\ \A i \in 1..Len(contents) : one[i] = contents[i]
    BY <1>3, AppendProperties
<1>5. PICK two \in Seq(Int) : two = Append(one, last)
    BY AppendProperties
<1>6. /\ Len(two) = Len(one) + 1 /\ two[Len(one) + 1] = last
      /\ \A i \in 1..Len(one) : two[i] = one[i]
    BY <1>5, AppendProperties
<1>7. two = contents \o <<first, last>>
    BY <1>3, <1>4, <1>5, <1>6
<1>8. Put(contents, object, data) = two \o data
    BY <1>1, <1>2, <1>7 DEF Put
<1>9. PICK all \in Seq(Int) : all = two \o data
    BY ConcatProperties
<1>10. /\ Len(all) = Len(two) + Len(data)
       /\ \A i \in 1..Len(two) : all[i] = two[i]
       /\ \A i \in 1..Len(data) : all[Len(two) + i] = data[i]
    BY <1>9
<1>11. PICK size \in Nat : size = Len(contents)
    OBVIOUS
<1>12. Len(one) = size + 1 /\ Len(two) = size + 2
    BY <1>4, <1>6, <1>11
<1>13. all[size + 1] = first /\ all[size + 2] = last
    <2>1. /\ size + 1 \in 1..Len(one) /\ size + 1 \in 1..Len(two) /\ size + 2 \in 1..Len(two)
          /\ Len(one) + 1 = size + 2
        BY <1>12
    <2>2. all[size + 1] = two[size + 1] /\ two[size + 1] = one[size + 1] /\ all[size + 2] = two[size + 2]
        BY <1>6, <1>10, <2>1
    <2> QED
        BY <1>4, <1>6, <1>11, <2>1, <2>2
<1>14. \A i \in 1..size : all[i] = contents[i]
    BY <1>4, <1>6, <1>10, <1>11, <1>12
<1>15. Len(all) = size + 2 + Len(data) /\ \A i \in 1..Len(data) : all[size + 2 + i] = data[i]
    BY <1>10, <1>12
<1>16. all = Put(contents, object, data)
    BY <1>8, <1>9
<1> QED
    BY <1>1, <1>2, <1>11, <1>13, <1>14, <1>15, <1>16

\* The elements of an array, as many as its bounds say.
LEMMA TheData ==
    ASSUME NEW object \in Objects, object.kind # "scalar", NEW n \in Nat
    PROVE  /\ DataOf(object, n) \in Seq(Int)
           /\ Len(DataOf(object, n)) = CountOf(object.first, object.last)
<1>1. PICK first \in Int : first = object.first
    BY StreamAssumption
<1>2. PICK last \in Int : last = object.last
    BY StreamAssumption
<1>3. PICK count \in Nat : count = CountOf(first, last)
    <2>1. CASE last - first + 1 < 0
        BY <2>1 DEF CountOf
    <2>2. CASE ~(last - first + 1 < 0)
        BY <2>2 DEF CountOf
    <2> QED
        BY <2>1, <2>2
<1>4. DataOf(object, n) = [i \in 1..count |-> 10 * n + i]
    BY <1>1, <1>2, <1>3 DEF DataOf
<1>5. \A i \in 1..count : 10 * n + i \in Int
    OBVIOUS
<1> QED
    BY <1>1, <1>2, <1>3, <1>4, <1>5

\* Cells behind the end disturb nothing.
LEMMA StillHolds ==
    ASSUME NEW contents \in Seq(Int), NEW all \in Seq(Int), Len(contents) <= Len(all),
           \A i \in 1..Len(contents) : all[i] = contents[i],
           NEW entry \in Entry, Holds(contents, entry)
    PROVE  Holds(all, entry)
<1>1. PICK from \in Nat : from = Before(entry)
    BY DEF Before, Entry
<1>2. PICK size \in Nat : size = Len(entry.data)
    BY DEF Entry
<1>3. CASE Scalar(entry)
    <2>1. After(entry) = from + 1
        BY <1>1, <1>3 DEF After
    <2>2. from + 1 \in 1..Len(contents) /\ After(entry) <= Len(all)
        BY <2>1 DEF Holds
    <2> QED
        BY <1>1, <1>3, <2>2 DEF Holds
<1>4. CASE ~Scalar(entry)
    <2>1. After(entry) = from + (2 + size)
        BY <1>1, <1>2, <1>4 DEF After
    <2>2. /\ from + 1 \in 1..Len(contents) /\ from + 2 \in 1..Len(contents) /\ After(entry) <= Len(all)
          /\ \A i \in 1..size : from + 2 + i \in 1..Len(contents)
        <3>1. PICK there \in Nat : there = Len(contents)
            OBVIOUS
        <3>2. PICK place \in Nat : place = Len(all)
            OBVIOUS
        <3>3. from + (2 + size) <= there /\ there <= place
            BY <2>1, <3>1, <3>2 DEF Holds
        <3>4. from + 1 \in 1..there /\ from + 2 \in 1..there
            BY <3>3
        <3>5. \A i \in 1..size : from + 2 + i \in 1..there
            BY <3>3
        <3>6. After(entry) <= place
            BY <2>1, <3>3
        <3> QED
            BY <3>1, <3>2, <3>4, <3>5, <3>6
    <2> QED
        BY <1>1, <1>2, <1>4, <2>2 DEF Holds
<1> QED
    BY <1>3, <1>4

\* A write puts one object behind the others.
LEMMA WriteKeeps ==
    ASSUME StreamInv, NEW object \in Objects, StreamWrite(object)
    PROVE  StreamInv'
<1>1. PICK m \in Nat : m = Len(sent)
    BY DEF StreamInv, StreamTypeOK
<1>2. /\ ~rewound /\ received = <<>> /\ here = Len(cells) /\ here \in Nat
      /\ cells \in Seq(Int) /\ sent \in Seq(Entry)
    BY DEF StreamInv, StreamTypeOK, Contiguous, StreamWrite
<1>3. PICK data \in Seq(Int) :
          /\ data = IF object.kind = "scalar" THEN <<object.value>> ELSE DataOf(object, m + 1)
          /\ object.kind # "scalar" => Len(data) = CountOf(object.first, object.last)
    <2>1. CASE object.kind = "scalar"
        <3>1. PICK v \in Int : v = object.value
            BY <2>1, StreamAssumption
        <3>2. <<v>> \in Seq(Int)
            OBVIOUS
        <3> QED
            BY <2>1, <3>1, <3>2
    <2>2. CASE object.kind # "scalar"
        BY <1>1, <2>2, TheData
    <2> QED
        BY <2>1, <2>2
<1>4. PICK entry \in Entry : entry = [object |-> object, data |-> data, index |-> here + 1]
    <2>1. here + 1 \in Nat \ {0}
        BY <1>2
    <2>2. [object |-> object, data |-> data, index |-> here + 1] \in Entry
        BY <2>1 DEF Entry
    <2> QED
        BY <2>2
<1>5. /\ cells' = Put(cells, object, data) /\ here' = Len(cells') /\ sent' = Append(sent, entry)
      /\ UNCHANGED <<rewound, streamBuffers, nextStreamBuffer, received>>
    BY <1>1, <1>3, <1>4 DEF StreamWrite, Put
<1>6. Before(entry) = here /\ (Scalar(entry) <=> object.kind = "scalar")
    BY <1>2, <1>4 DEF Before, Scalar
<1>7. PICK all \in Seq(Int) :
          /\ all = cells' /\ Len(cells) <= Len(all)
          /\ \A i \in 1..Len(cells) : all[i] = cells[i]
          /\ Holds(all, entry) /\ After(entry) = Len(all)
    <2>1. CASE object.kind = "scalar"
        <3>1. data = <<object.value>>
            BY <1>3, <2>1
        <3>2. PICK all \in Seq(Int) :
                  /\ all = Put(cells, object, <<object.value>>) /\ Len(all) = Len(cells) + 1
                  /\ \A i \in 1..Len(cells) : all[i] = cells[i]
                  /\ all[Len(cells) + 1] = object.value
            BY <1>2, <2>1, PutScalar
        <3>3. After(entry) = here + 1
            BY <1>6, <2>1 DEF After
        <3>4. Holds(all, entry) /\ After(entry) = Len(all)
            BY <1>2, <1>4, <1>6, <2>1, <3>2, <3>3 DEF Holds
        <3>5. all = cells' /\ Len(cells) <= Len(all)
            BY <1>5, <3>1, <3>2
        <3> QED
            BY <3>2, <3>4, <3>5
    <2>2. CASE object.kind # "scalar"
        <3>1. PICK all \in Seq(Int) :
                  /\ all = Put(cells, object, data) /\ Len(all) = Len(cells) + 2 + Len(data)
                  /\ \A i \in 1..Len(cells) : all[i] = cells[i]
                  /\ all[Len(cells) + 1] = object.first
                  /\ all[Len(cells) + 2] = object.last
                  /\ \A i \in 1..Len(data) : all[Len(cells) + 2 + i] = data[i]
            BY <1>2, <2>2, PutArray
        <3>2. After(entry) = here + (2 + Len(data))
            BY <1>4, <1>6, <2>2 DEF After
        <3>3. entry.data = data /\ entry.object = object /\ Len(data) = CountOf(object.first, object.last)
            BY <1>3, <1>4, <2>2
        <3>4. After(entry) = Len(all) /\ Len(all) \in Nat
            BY <1>2, <3>1, <3>2
        <3>5. Holds(all, entry)
            BY <1>2, <1>6, <2>2, <3>1, <3>3, <3>4 DEF Holds
        <3>6. all = cells' /\ Len(cells) <= Len(all)
            BY <1>5, <3>1
        <3> QED
            BY <3>1, <3>4, <3>5, <3>6
    <2> QED
        BY <2>1, <2>2
<1>10. PICK more \in Seq(Entry) : more = Append(sent, entry)
    BY <1>2, AppendProperties
<1>11. /\ sent' = more /\ Len(more) = m + 1 /\ more # <<>> /\ more[m + 1] = entry
       /\ \A k \in 1..m : more[k] = sent[k]
    BY <1>1, <1>2, <1>5, <1>10, AppendProperties
<1>12. StreamTypeOK'
    BY <1>2, <1>5, <1>7, <1>11 DEF StreamInv, StreamTypeOK
<1>13. Contiguous'
    <2>1. ASSUME NEW k \in 1..(m + 1)
          PROVE  Holds(all, more[k])
        <3>1. CASE k \in 1..m
            <4>1. Holds(cells, sent[k]) /\ sent[k] \in Entry
                BY <1>1, <1>2, <3>1 DEF StreamInv, Contiguous
            <4> QED
                BY <1>2, <1>7, <1>11, <3>1, <4>1, StillHolds
        <3>2. CASE k = m + 1
            BY <1>7, <1>11, <3>2
        <3> QED
            BY <3>1, <3>2
    <2>2. ASSUME NEW k \in 1..m
          PROVE  Before(more[k + 1]) = After(more[k])
        <3>1. CASE k \in 1..(m - 1)
            <4>1. k + 1 \in 1..m
                BY <3>1
            <4>2. Before(sent[k + 1]) = After(sent[k])
                BY <1>1, <3>1 DEF StreamInv, Contiguous
            <4> QED
                BY <1>11, <4>1, <4>2
        <3>2. CASE k = m
            <4>1. After(sent[m]) = here
                BY <1>1, <1>2, <3>2 DEF StreamInv, Contiguous
            <4> QED
                BY <1>6, <1>11, <3>2, <4>1
        <3> QED
            BY <3>1, <3>2
    <2> QED
        BY <1>2, <1>5, <1>7, <1>11, <2>1, <2>2 DEF Contiguous
<1>14. InOrder' /\ Answered' /\ Buffered'
    BY <1>2, <1>5 DEF InOrder, Answered, Buffered
<1> QED
    BY <1>12, <1>13, <1>14 DEF StreamInv

\* Reset goes back to the beginning, with nothing read so far.
LEMMA ResetKeeps ==
    ASSUME StreamInv, StreamReset
    PROVE  StreamInv'
<1>1. /\ UNCHANGED <<cells, streamBuffers, nextStreamBuffer, sent, received>>
      /\ received = <<>> /\ rewound' /\ here' = 0 /\ rewound' \in BOOLEAN
    BY DEF StreamReset, StreamInv, Contiguous
<1>2. StreamTypeOK'
    BY <1>1 DEF StreamInv, StreamTypeOK
<1>3. Contiguous'
    BY <1>1 DEF StreamInv, Contiguous
<1>4. InOrder' /\ Answered' /\ Buffered'
    BY <1>1 DEF InOrder, Answered, Buffered
<1> QED
    BY <1>2, <1>3, <1>4 DEF StreamInv

\* Set_Index goes to where an object begins, and what was read before no longer counts.
LEMMA SetIndexKeeps ==
    ASSUME StreamInv, NEW n \in DOMAIN sent, StreamSetIndex(n)
    PROVE  StreamInv'
<1>1. /\ UNCHANGED <<cells, rewound, streamBuffers, nextStreamBuffer, sent>> /\ rewound
      /\ received' = <<>> /\ here' = Before(sent[n])
    BY DEF StreamSetIndex, Before
<1>2. n \in 1..Len(sent)
    BY DEF StreamInv, StreamTypeOK
<1>3. here' \in 0..Len(cells)
    <2>1. StreamTypeOK /\ Contiguous
        BY DEF StreamInv
    <2>2. Before(sent[n]) \in Nat /\ After(sent[n]) <= Len(cells) /\ After(sent[n]) \in Nat
        BY <1>2, <2>1, TheEntry DEF Holds
    <2>3. Before(sent[n]) <= After(sent[n])
        BY <1>2, <2>1, TheEntry
    <2>4. Len(cells) \in Nat
        BY <2>1 DEF StreamTypeOK
    <2> QED
        BY <1>1, <2>2, <2>3, <2>4
<1>4. StreamTypeOK'
    BY <1>1, <1>3 DEF StreamInv, StreamTypeOK
<1>5. Contiguous'
    BY <1>1 DEF StreamInv, Contiguous
<1>6. InOrder' /\ Answered' /\ Buffered'
    BY <1>1 DEF InOrder, Answered, Buffered
<1> QED
    BY <1>4, <1>5, <1>6 DEF StreamInv

\* 'Read and 'Input of a scalar, and its End_Error.
LEMMA ReadScalarKeeps ==
    ASSUME StreamInv, rewound, NEW n \in 1..Len(sent), Scalar(sent[n]),
           received = <<>> => here + 1 = sent[n].index,
           received # <<>> => n = Last(received).number + 1,
           StreamReadScalar(n)
    PROVE  StreamInv'
<1>1. /\ cells \in Seq(Int) /\ here \in Nat /\ here <= Len(cells) /\ StreamBuffers \in Nat \ {0}
      /\ streamBuffers \in [0..(StreamBuffers - 1) -> Seq(Int)]
      /\ \A b \in 0..(StreamBuffers - 1) : Len(streamBuffers[b]) = StreamRoom
    BY StreamAssumption DEF StreamInv, StreamTypeOK
<1>2. UNCHANGED <<cells, rewound, streamBuffers, nextStreamBuffer, sent>>
    BY DEF StreamReadScalar
<1>3. ASSUME InStep(received, Len(received))
      PROVE  /\ here = Before(sent[n]) /\ After(sent[n]) = here + 1 /\ Fits(1)
             /\ cells[here + 1] = sent[n].object.value
    <2>1. here = Before(sent[n])
        BY <1>3, InFront
    <2>2. Holds(cells, sent[n]) /\ After(sent[n]) = Before(sent[n]) + 1
        BY TheEntry DEF StreamInv
    <2> QED
        BY <2>1, <2>2 DEF Holds, Fits
<1>4. n \in Nat
    OBVIOUS
<1>5. CASE Fits(1)
    <2>1. here + 1 \in 1..Len(cells)
        BY <1>1, <1>5 DEF Fits
    <2>2. PICK v \in Int : v = cells[here + 1]
        BY <1>1, <2>1
    <2>3. PICK item \in Item : item = [number |-> n, value |-> v, first |-> 0, last |-> 0,
                                        buffer |-> -1, raised |-> "none"]
        <3>1. [number |-> n, value |-> v, first |-> 0, last |-> 0, buffer |-> -1, raised |-> "none"] \in Item
            BY <1>1, <1>4 DEF Item
        <3> QED
            BY <3>1
    <2>4. received' = Append(received, item) /\ here' = here + 1
        BY <1>5, <2>2, <2>3 DEF StreamReadScalar, Received
    <2>5. item.number = n /\ item.value = v /\ item.buffer = -1 /\ item.raised = "none"
        BY <2>3
    <2>6. here' \in 0..Len(cells)
        BY <2>1, <2>4
    <2>7. InStep(received, Len(received)) => Answers(item, sent[n]) /\ here' = After(sent[n])
        BY <1>3, <2>2, <2>4, <2>5 DEF Answers
    <2> QED
        BY <1>1, <1>2, <2>4, <2>5, <2>6, <2>7, StreamReadStep
<1>6. CASE ~Fits(1)
    <2>1. PICK item \in Item : item = [number |-> n, value |-> 0, first |-> 0, last |-> 0,
                                        buffer |-> -1, raised |-> "END_ERROR"]
        <3>1. [number |-> n, value |-> 0, first |-> 0, last |-> 0, buffer |-> -1, raised |-> "END_ERROR"] \in Item
            BY <1>1, <1>4 DEF Item
        <3> QED
            BY <3>1
    <2>2. received' = Append(received, item) /\ here' = Len(cells)
        BY <1>6, <2>1 DEF StreamReadScalar, Received
    <2>3. item.number = n /\ item.buffer = -1
        BY <2>1
    <2>4. here' \in 0..Len(cells)
        BY <1>1, <2>2
    <2> QED
        BY <1>1, <1>2, <1>3, <1>6, <2>2, <2>3, <2>4, StreamReadStep
<1> QED
    BY <1>5, <1>6

\* So many cells from behind a position.
LEMMA TheCells ==
    ASSUME NEW contents \in Seq(Int), NEW p \in Nat, NEW count \in Nat, p + count <= Len(contents)
    PROVE  \E part \in Seq(Int) :
               /\ part = SubSeq(contents, p + 1, p + count) /\ Len(part) = count
               /\ \A i \in 1..count : part[i] = contents[p + i]
<1> DEFINE part == SubSeq(contents, p + 1, p + count)
<1>1. \A i \in (p + 1)..(p + count) : contents[i] \in Int
    <2>1. \A i \in (p + 1)..(p + count) : i \in 1..Len(contents)
        OBVIOUS
    <2> QED
        BY <2>1
<1>2. /\ part \in Seq(Int)
      /\ Len(part) = IF p + 1 <= p + count THEN p + count - (p + 1) + 1 ELSE 0
      /\ \A i \in 1..(p + count - (p + 1) + 1) : part[i] = contents[p + 1 + i - 1]
    BY <1>1, SubSeqProperties
<1> HIDE DEF part
<1>3. Len(part) = count
    <2>1. CASE count = 0
        BY <1>2, <2>1
    <2>2. CASE count > 0
        BY <1>2, <2>2
    <2> QED
        BY <2>1, <2>2
<1>4. ASSUME NEW i \in 1..count
      PROVE  part[i] = contents[p + i]
    <2>1. i \in 1..(p + count - (p + 1) + 1) /\ p + 1 + i - 1 = p + i
        OBVIOUS
    <2> QED
        BY <1>2, <2>1
<1> QED
    BY <1>2, <1>3, <1>4 DEF part

\* A buffer with an array at its beginning.
LEMMA NewBuffer ==
    ASSUME NEW contents \in Seq(Int), NEW old \in Seq(Int), Len(old) = StreamRoom,
           NEW p \in Nat, NEW count \in 0..StreamRoom, p + count <= Len(contents)
    PROVE  \E buffer \in Seq(Int) :
               /\ buffer = SubSeq(contents, p + 1, p + count) \o SubSeq(old, count + 1, StreamRoom)
               /\ Len(buffer) = StreamRoom
               /\ \A i \in 1..count : buffer[i] = contents[p + i]
<1>1. PICK room \in Nat : room = StreamRoom /\ count \in Nat /\ count <= room
    BY StreamAssumption
<1>2. PICK rest \in Nat : rest = room - count
    BY <1>1
<1>3. PICK a \in Seq(Int) :
          /\ a = SubSeq(contents, p + 1, p + count) /\ Len(a) = count
          /\ \A i \in 1..count : a[i] = contents[p + i]
    <2>1. contents \in Seq(Int) /\ p \in Nat /\ count \in Nat /\ p + count <= Len(contents)
        BY <1>1
    <2> QED
        BY <2>1, TheCells
<1>4. PICK b \in Seq(Int) : b = SubSeq(old, count + 1, count + rest) /\ Len(b) = rest
    <2>1. count \in Nat /\ rest \in Nat /\ count + rest <= Len(old)
        BY <1>1, <1>2
    <2>2. PICK q \in Nat : q = count
        BY <2>1
    <2>3. PICK b \in Seq(Int) :
              /\ b = SubSeq(old, q + 1, q + rest) /\ Len(b) = rest
              /\ \A i \in 1..rest : b[i] = old[q + i]
        BY <2>1, <2>2, TheCells
    <2> QED
        BY <2>2, <2>3
<1>5. count + rest = StreamRoom
    BY <1>1, <1>2
<1>6. PICK c \in Seq(Int) : c = a \o b
    BY ConcatProperties
<1>7. Len(c) = Len(a) + Len(b) /\ \A i \in 1..Len(a) : c[i] = a[i]
    BY <1>6
<1>8. Len(c) = StreamRoom /\ \A i \in 1..count : c[i] = contents[p + i]
    BY <1>3, <1>4, <1>5, <1>7
<1> QED
    BY <1>3, <1>4, <1>5, <1>6, <1>8

\* 'Input of an array, with the three ways it can raise.
LEMMA ReadArrayKeeps ==
    ASSUME StreamInv, rewound, NEW n \in 1..Len(sent), ~Scalar(sent[n]),
           received = <<>> => here + 1 = sent[n].index,
           received # <<>> => n = Last(received).number + 1,
           StreamReadArray(n)
    PROVE  StreamInv'
<1> DEFINE item(first, last, raised) ==
               [number |-> n, value |-> 0, first |-> first, last |-> last,
                buffer |-> nextStreamBuffer, raised |-> raised]
           start == cells[here + 1]
           end == cells[here + 2]
           count == CountOf(start, end)
<1>1. /\ cells \in Seq(Int) /\ here \in Nat /\ here <= Len(cells) /\ Len(cells) \in Nat
      /\ streamBuffers \in [0..(StreamBuffers - 1) -> Seq(Int)]
      /\ \A b \in 0..(StreamBuffers - 1) : Len(streamBuffers[b]) = StreamRoom
      /\ nextStreamBuffer \in 0..(StreamBuffers - 1) /\ StreamBuffers \in Nat \ {0}
      /\ nextStreamBuffer # -1
    <2>1. StreamTypeOK
        BY DEF StreamInv
    <2>2. /\ cells \in Seq(Int) /\ here \in 0..Len(cells)
          /\ streamBuffers \in [0..(StreamBuffers - 1) -> Seq(Int)]
          /\ \A b \in 0..(StreamBuffers - 1) : Len(streamBuffers[b]) = StreamRoom
          /\ nextStreamBuffer \in 0..(StreamBuffers - 1)
        BY <2>1, Zenon DEF StreamTypeOK
    <2>3. StreamBuffers \in Nat \ {0}
        BY StreamAssumption
    <2>4. Len(cells) \in Nat /\ here \in Nat /\ here <= Len(cells)
        BY <2>2
    <2>5. nextStreamBuffer # -1
        BY <2>2, <2>3
    <2> QED BY <2>2, <2>3, <2>4, <2>5
<1>2. UNCHANGED <<cells, rewound, sent>> /\ nextStreamBuffer' = BufferInTurn(nextStreamBuffer)
    BY DEF StreamReadArray
<1>3. PICK object \in Objects : object = sent[n].object
    BY TheEntry DEF StreamInv, Entry
<1>4. ASSUME InStep(received, Len(received))
      PROVE  /\ here = Before(sent[n]) /\ After(sent[n]) = here + 2 + Len(sent[n].data)
             /\ Len(sent[n].data) \in Nat /\ After(sent[n]) <= Len(cells) /\ Fits(2)
             /\ start = sent[n].object.first /\ end = sent[n].object.last
             /\ count = Len(sent[n].data)
             /\ \A i \in 1..Len(sent[n].data) : cells[here + 2 + i] = sent[n].data[i]
    <2>1. here = Before(sent[n])
        BY <1>4, InFront
    <2>2. /\ Holds(cells, sent[n]) /\ After(sent[n]) = Before(sent[n]) + 2 + Len(sent[n].data)
          /\ Len(sent[n].data) \in Nat
        BY TheEntry DEF StreamInv
    <2>3. After(sent[n]) <= Len(cells)
        BY <2>2 DEF Holds
    <2>4. Fits(2)
        BY <1>1, <2>1, <2>2, <2>3 DEF Fits
    <2>5. start = sent[n].object.first /\ end = sent[n].object.last
        BY <2>1, <2>2 DEF Holds
    <2>6. count = Len(sent[n].data)
        BY <2>2, <2>5 DEF Holds
    <2>7. \A i \in 1..Len(sent[n].data) : cells[here + 2 + i] = sent[n].data[i]
        BY <2>1, <2>2 DEF Holds
    <2> QED
        BY <2>1, <2>2, <2>3, <2>4, <2>5, <2>6, <2>7
<1>5. ASSUME NEW first \in Int, NEW last \in Int, NEW raised \in {"none", "END_ERROR", "STORAGE_ERROR"}
      PROVE  item(first, last, raised) \in Item
    BY <1>1 DEF Item
<1>6. CASE ~Fits(2)
    <2>1. here' = Len(cells) /\ received' = Append(received, item(1, 0, "END_ERROR")) /\ UNCHANGED streamBuffers
        BY <1>6 DEF StreamReadArray, Received
    <2>2. PICK x \in Item : x = item(1, 0, "END_ERROR")
        <3>1. 1 \in Int /\ 0 \in Int
            OBVIOUS
        <3> QED
            BY <1>5, <3>1
    <2>3. x.number = n /\ x.buffer = nextStreamBuffer
        BY <2>2
    <2>4. ~InStep(received, Len(received)) /\ here' \in 0..Len(cells)
        <3>1. ~InStep(received, Len(received))
            BY <1>4, <1>6
        <3>2. Len(cells) \in 0..Len(cells)
            BY <1>1
        <3> QED
            BY <2>1, <3>1, <3>2
    <2> QED
        BY <1>1, <1>2, <2>1, <2>2, <2>3, <2>4, StreamReadStep
<1>7. ASSUME Fits(2)
      PROVE  /\ start \in Int /\ end \in Int /\ count \in Nat /\ here + 2 <= Len(cells)
    <2>1. here + 1 \in 1..Len(cells) /\ here + 2 \in 1..Len(cells)
        BY <1>1, <1>7 DEF Fits
    <2>2. start \in Int /\ end \in Int
        BY <1>1, <2>1
    <2>3. count \in Nat
        <3>1. CASE end - start + 1 < 0
            BY <2>2, <3>1 DEF CountOf
        <3>2. CASE ~(end - start + 1 < 0)
            BY <2>2, <3>2 DEF CountOf
        <3> QED
            BY <3>1, <3>2
    <2> QED
        BY <2>1, <2>2, <2>3
<1>8. CASE Fits(2) /\ count > StreamRoom
    <2>1. /\ here' = here + 2 /\ received' = Append(received, item(start, start - 1, "STORAGE_ERROR"))
          /\ UNCHANGED streamBuffers
        BY <1>7, <1>8, StreamAssumption DEF StreamReadArray, Received
    <2>2. PICK x \in Item : x = item(start, start - 1, "STORAGE_ERROR")
        <3>1. start \in Int /\ start - 1 \in Int
            BY <1>7, <1>8
        <3> QED
            BY <1>5, <3>1
    <2>3. x.number = n /\ x.buffer = nextStreamBuffer /\ x.raised = "STORAGE_ERROR"
        BY <2>2
    <2>4. here' \in 0..Len(cells)
        <3>1. here + 2 <= Len(cells)
            BY <1>7, <1>8
        <3>2. here \in Nat /\ Len(cells) \in Nat
            BY <1>1
        <3>3. here + 2 \in 0..Len(cells)
            BY <3>1, <3>2
        <3> QED
            BY <2>1, <3>3
    <2>5. InStep(received, Len(received)) => Answers(x, sent[n])
        BY <1>4, <1>8, <2>3 DEF Answers
    <2> QED
        BY <1>1, <1>2, <2>1, <2>2, <2>3, <2>4, <2>5, StreamReadStep
<1>9. CASE Fits(2) /\ count <= StreamRoom /\ ~Fits(2 + count)
    <2>1. /\ here' = Len(cells) /\ received' = Append(received, item(start, end, "END_ERROR"))
          /\ UNCHANGED streamBuffers
        BY <1>7, <1>9, StreamAssumption DEF StreamReadArray, Received
    <2>2. PICK x \in Item : x = item(start, end, "END_ERROR")
        BY <1>5, <1>7, <1>9
    <2>3. x.number = n /\ x.buffer = nextStreamBuffer
        BY <2>2
    <2>4. ~InStep(received, Len(received)) /\ here' \in 0..Len(cells)
        <3>1. ASSUME InStep(received, Len(received))
              PROVE  FALSE
            <4>1. here + 2 + count <= Len(cells)
                BY <1>4, <3>1
            <4>2. here + (2 + count) <= Len(cells)
                BY <1>1, <1>7, <1>9, <4>1
            <4> QED
                BY <1>9, <4>2 DEF Fits
        <3>2. Len(cells) \in 0..Len(cells)
            BY <1>1
        <3> QED
            BY <2>1, <3>1, <3>2
    <2> QED
        BY <1>1, <1>2, <2>1, <2>2, <2>3, <2>4, StreamReadStep
<1>10. CASE Fits(2) /\ count <= StreamRoom /\ Fits(2 + count)
    <2>0. here + 2 + count <= Len(cells) /\ here + 2 + count \in Nat /\ here + 2 \in Nat
        <3>1. here + (2 + count) <= Len(cells)
            BY <1>10 DEF Fits
        <3>2. PICK k \in Nat : k = count
            BY <1>7, <1>10
        <3>3. here \in Nat
            BY <1>1
        <3> HIDE DEF count
        <3> QED
            BY <3>1, <3>2, <3>3
    <2>1. /\ here' = here + 2 + count /\ received' = Append(received, item(start, end, "none"))
          /\ streamBuffers' = [streamBuffers EXCEPT ![nextStreamBuffer] =
                                   CellsAt(here + 2, count) \o SubSeq(@, count + 1, StreamRoom)]
        <3>1. Fits(2) /\ ~(count > StreamRoom) /\ Fits(2 + count)
            BY <1>7, <1>10, StreamAssumption
        <3> QED
            BY <3>1, Zenon DEF StreamReadArray, Received
    <2>2. PICK x \in Item : x = item(start, end, "none")
        BY <1>5, <1>7, <1>10
    <2>3. x.number = n /\ x.buffer = nextStreamBuffer /\ x.raised = "none" /\ x.first = start /\ x.last = end
        BY <2>2
    <2>4. PICK buffer \in Seq(Int) :
              /\ buffer = CellsAt(here + 2, count) \o SubSeq(streamBuffers[nextStreamBuffer], count + 1, StreamRoom)
              /\ Len(buffer) = StreamRoom
              /\ \A i \in 1..count : buffer[i] = cells[here + 2 + i]
        <3>1. here + 2 \in Nat /\ here + 2 + count <= Len(cells) /\ count \in 0..StreamRoom
            BY <1>1, <1>7, <1>10, StreamAssumption, <2>0
        <3>2. streamBuffers[nextStreamBuffer] \in Seq(Int) /\ Len(streamBuffers[nextStreamBuffer]) = StreamRoom
            BY <1>1
        <3>3. PICK q \in Nat : q = here + 2
            BY <3>1
        <3>4. PICK k \in 0..StreamRoom : k = count
            BY <3>1
        <3>5. PICK old \in Seq(Int) : old = streamBuffers[nextStreamBuffer] /\ Len(old) = StreamRoom
            BY <3>2
        <3>6. q + k <= Len(cells)
            BY <3>1, <3>3, <3>4
        <3>7. PICK buffer \in Seq(Int) :
                  /\ buffer = SubSeq(cells, q + 1, q + k) \o SubSeq(old, k + 1, StreamRoom)
                  /\ Len(buffer) = StreamRoom
                  /\ \A i \in 1..k : buffer[i] = cells[q + i]
            <4>1. cells \in Seq(Int)
                BY <1>1
            <4> HIDE DEF count
            <4> QED
                BY <3>5, <3>6, <4>1, NewBuffer
        <3> QED
            BY <3>3, <3>4, <3>5, <3>7 DEF CellsAt
    <2>5. streamBuffers' = [streamBuffers EXCEPT ![nextStreamBuffer] = buffer]
        BY <2>1, <2>4
    <2>6. /\ streamBuffers' \in [0..(StreamBuffers - 1) -> Seq(Int)]
          /\ streamBuffers'[nextStreamBuffer] = buffer
          /\ \A b \in 0..(StreamBuffers - 1) : b # nextStreamBuffer => streamBuffers'[b] = streamBuffers[b]
        BY <1>1, <2>5
    <2>7. \A b \in 0..(StreamBuffers - 1) : Len(streamBuffers'[b]) = StreamRoom
        BY <1>1, <2>4, <2>6
    <2>8. here' \in 0..Len(cells)
        BY <1>1, <2>0, <2>1
    <2>9. ASSUME InStep(received, Len(received))
          PROVE  /\ Answers(x, sent[n]) /\ here' = After(sent[n])
                 /\ Intact(streamBuffers'[nextStreamBuffer], sent[n].data)
        <3>1. Answers(x, sent[n])
            BY <1>4, <1>10, <2>3, <2>9 DEF Answers
        <3>2. here' = After(sent[n])
            BY <1>4, <2>1, <2>9
        <3>3. Intact(buffer, sent[n].data)
            BY <1>4, <2>4, <2>9 DEF Intact
        <3> QED
            BY <2>6, <3>1, <3>2, <3>3
    <2> QED
        BY <1>1, <1>2, <2>1, <2>2, <2>3, <2>6, <2>7, <2>8, <2>9, StreamReadStep
<1> QED
    <2>1. Fits(2) => count \in Nat /\ StreamRoom \in Nat
        BY <1>7, StreamAssumption
    <2> QED
        BY <1>6, <1>8, <1>9, <1>10, <2>1

\* The invariant holds of an empty stream,
LEMMA StreamStarts ==
    ASSUME StreamInit
    PROVE  StreamInv
<1>1. /\ StreamBuffers \in Nat \ {0} /\ StreamRoom \in Nat
    BY StreamAssumption
<1>2. [i \in 1..StreamRoom |-> 0] \in Seq(Int) /\ Len([i \in 1..StreamRoom |-> 0]) = StreamRoom
    BY <1>1
<1>3. StreamTypeOK
    <2>1. cells \in Seq(Int) /\ here \in 0..Len(cells) /\ sent \in Seq(Entry) /\ received \in Seq(Item)
        BY DEF StreamInit
    <2>2. /\ streamBuffers \in [0..(StreamBuffers - 1) -> Seq(Int)]
          /\ \A b \in 0..(StreamBuffers - 1) : Len(streamBuffers[b]) = StreamRoom
        BY <1>2 DEF StreamInit
    <2>3. rewound \in BOOLEAN
        <3>1. rewound = FALSE
            BY DEF StreamInit
        <3> QED
            BY <3>1
    <2>4. nextStreamBuffer \in 0..(StreamBuffers - 1)
        BY <1>1 DEF StreamInit
    <2> QED
        BY <2>1, <2>2, <2>3, <2>4 DEF StreamTypeOK
<1>4. Contiguous /\ InOrder /\ Answered /\ Buffered
    BY DEF StreamInit, Contiguous, InOrder, Answered, Buffered
<1> QED
    BY <1>3, <1>4 DEF StreamInv

\* and every operation keeps it.
LEMMA StreamKeeps ==
    ASSUME StreamInv, [StreamNext]_streamVars
    PROVE  StreamInv'
<1>1. CASE UNCHANGED streamVars
    BY <1>1 DEF streamVars, StreamInv, StreamTypeOK, Contiguous, InOrder, Answered, Buffered
<1>2. CASE \E object \in Objects : StreamWrite(object)
    BY <1>2, WriteKeeps
<1>3. CASE StreamReset
    BY <1>3, ResetKeeps
<1>4. CASE \E n \in DOMAIN sent : StreamSetIndex(n)
    BY <1>4, SetIndexKeeps
<1>5. CASE StreamRead
    <2>1. rewound /\ sent \in Seq(Entry)
        BY <1>5 DEF StreamRead, StreamInv, StreamTypeOK
    <2>2. PICK n \in 1..Len(sent) :
              /\ received = <<>> => here + 1 = sent[n].index
              /\ received # <<>> => n = Last(received).number + 1
              /\ Scalar(sent[n]) => StreamReadScalar(n)
              /\ ~Scalar(sent[n]) => StreamReadArray(n)
        BY <1>5, <2>1 DEF StreamRead, Scalar
    <2> QED
        BY <2>1, <2>2, ReadScalarKeeps, ReadArrayKeeps
<1> QED
    BY <1>1, <1>2, <1>3, <1>4, <1>5 DEF StreamNext

\* The inductive invariant of a stream: its cells are the objects written, one
\* behind the other; objects are read in order from where one begins; and the
\* static buffers of 'Input go round behind those that are still intact.
THEOREM StreamInvHolds == StreamSpec => []StreamInv
<1>1. StreamInit => StreamInv
    BY StreamStarts
<1>2. StreamInv /\ [StreamNext]_streamVars => StreamInv'
    BY StreamKeeps
<1> QED
    BY <1>1, <1>2, PTL DEF StreamSpec

\* The beginning of a buffer that holds an array is the array.
LEMMA TheBeginning ==
    ASSUME NEW buffer \in Seq(Int), NEW data \in Seq(Int), Len(data) <= Len(buffer), Intact(buffer, data)
    PROVE  SubSeq(buffer, 1, Len(data)) = data
<1>1. PICK size \in Nat : size = Len(data)
    OBVIOUS
<1>2. PICK part \in Seq(Int) :
          /\ part = SubSeq(buffer, 1, size) /\ Len(part) = size
          /\ \A i \in 1..size : part[i] = buffer[i]
    <2>1. PICK none \in Nat : none = 0
        OBVIOUS
    <2>2. none + size <= Len(buffer)
        BY <1>1, <2>1
    <2>3. PICK part \in Seq(Int) :
              /\ part = SubSeq(buffer, none + 1, none + size) /\ Len(part) = size
              /\ \A i \in 1..size : part[i] = buffer[none + i]
        BY <1>1, <2>2, TheCells
    <2>4. none + 1 = 1 /\ none + size = size /\ \A i \in 1..size : none + i = i
        BY <2>1
    <2> QED
        BY <2>3, <2>4
<1>3. \A i \in 1..size : part[i] = data[i]
    BY <1>1, <1>2 DEF Intact
<1>4. part = data
    BY <1>1, <1>2, <1>3, SeqEqual
<1> QED
    BY <1>1, <1>2, <1>4

\* What the property says is what the invariant says of each object read.
LEMMA RoundTrip ==
    ASSUME StreamInv
    PROVE  StreamRoundTrip
<1>1. /\ received \in Seq(Item) /\ DOMAIN received = 1..Len(received) /\ Len(received) \in Nat
      /\ streamBuffers \in [0..(StreamBuffers - 1) -> Seq(Int)] /\ StreamRoom \in Nat
      /\ \A b \in 0..(StreamBuffers - 1) : Len(streamBuffers[b]) = StreamRoom
    BY StreamAssumption DEF StreamInv, StreamTypeOK
<1>2. SUFFICES ASSUME NEW i \in 1..Len(received)
               PROVE  LET item == received[i]
                          original == sent[item.number]
                      IN  /\ InStep(received, i) =>
                                IF Scalar(original) THEN item.value = original.object.value
                                ELSE /\ item.first = original.object.first /\ item.last = original.object.last
                                     /\ Cardinality(Later(received, i)) < StreamBuffers =>
                                            SubSeq(streamBuffers[item.buffer], 1, Len(original.data)) = original.data
                          /\ (item.raised # "none" /\ InStep(received, i - 1)) =>
                                item.raised = "STORAGE_ERROR" /\ Len(original.data) > StreamRoom
    BY <1>1 DEF StreamRoundTrip, Scalar, InStep, Later
<1>3. PICK n \in 1..Len(sent) : n = received[i].number
    BY DEF StreamInv, InOrder
<1>4. received[i] \in Item /\ (received[i].buffer = -1 <=> Scalar(sent[n]))
    BY <1>1, <1>3 DEF StreamInv, InOrder
<1>5. sent[n].data \in Seq(Int)
    BY TheEntry DEF StreamInv
<1>6. ASSUME InStep(received, i)
      PROVE  InStep(received, i - 1) /\ received[i].raised = "none"
    BY <1>6 DEF InStep
<1>7. InStep(received, i - 1) => Answers(received[i], sent[n])
    BY <1>3 DEF StreamInv, Answered
<1>8. InStep(received, i) /\ Scalar(sent[n]) => received[i].value = sent[n].object.value
    BY <1>6, <1>7 DEF Answers
<1>9. InStep(received, i) /\ ~Scalar(sent[n]) =>
          /\ received[i].first = sent[n].object.first /\ received[i].last = sent[n].object.last
          /\ Len(sent[n].data) <= StreamRoom
    BY <1>6, <1>7 DEF Answers
<1>10. ASSUME InStep(received, i), ~Scalar(sent[n]), Cardinality(Later(received, i)) < StreamBuffers
       PROVE  SubSeq(streamBuffers[received[i].buffer], 1, Len(sent[n].data)) = sent[n].data
    <2>1. received[i].buffer # -1 /\ received[i].buffer \in -1..(StreamBuffers - 1)
        BY <1>4, <1>10 DEF Item
    <2>2. PICK b \in 0..(StreamBuffers - 1) : b = received[i].buffer
        BY <2>1, StreamAssumption
    <2>3. Intact(streamBuffers[b], sent[n].data)
        BY <1>3, <1>10, <2>1, <2>2 DEF StreamInv, Buffered
    <2>4. streamBuffers[b] \in Seq(Int) /\ Len(streamBuffers[b]) = StreamRoom
        BY <1>1
    <2> QED
        BY <1>5, <1>9, <1>10, <2>2, <2>3, <2>4, TheBeginning
<1>11. (received[i].raised # "none" /\ InStep(received, i - 1)) =>
           received[i].raised = "STORAGE_ERROR" /\ Len(sent[n].data) > StreamRoom
    BY <1>7 DEF Answers
<1> QED
    BY <1>3, <1>8, <1>9, <1>10, <1>11

\* For any objects, any number of buffers and any size of them, what Stream_IO
\* reads with matching attributes is what was written, and the last arrays read
\* are intact.
THEOREM StreamsRoundTrip == StreamSpec => []StreamRoundTrip
<1>1. StreamInv => StreamRoundTrip
    BY RoundTrip
<1> QED
    BY <1>1, StreamInvHolds, PTL

-----------------------------------------------------------------------------
(* Text_IO. *)

TextReply ==
    [operation : STRING, from : Nat, to : Nat, given : Seq(Characters), value : Int, raised : STRING]

TextInv ==
    /\ mode \in {"out", "in"}
    /\ content \in Seq(Characters)
    /\ lines \in Seq(Seq(Characters)) /\ lines # <<>>
    /\ position \in 0..Len(content)
    /\ mode = "out" => position = 0 /\ reply.operation = "none" /\ reply.from = 0
    /\ TextNothingLost

\* Characters that stand for different things differ.
LEMMA CharacterFacts ==
    /\ Space \in Characters /\ EndOfLine \in Characters /\ Space # EndOfLine
    /\ "-" \in Characters /\ "#" \in Characters /\ Numeric \subseteq Characters
    /\ Space \notin Numeric /\ EndOfLine \notin Numeric
    /\ Space \notin WordCharacters /\ EndOfLine \notin WordCharacters
    /\ "-" \notin Blanks /\ "+" \notin Blanks
<1>1. Space # EndOfLine
    BY DEF Space, EndOfLine
<1>6. Space \in Characters /\ EndOfLine \in Characters /\ "-" \in Characters /\ "#" \in Characters
    BY DEF Characters, Blanks
<1>2. \A c \in Numeric : c \in {"0", "1", "2", "3", "4", "5", "6", "7", "8", "9"}
    BY DEF Numeric, TextDigits
<1>3. Space \notin Numeric /\ EndOfLine \notin Numeric
    BY <1>2 DEF Space, EndOfLine
<1>4. Space \notin WordCharacters /\ EndOfLine \notin WordCharacters
    BY DEF Space, EndOfLine, WordCharacters
<1>5. "-" \notin Blanks /\ "+" \notin Blanks
    BY Zenon DEF Blanks, Space, EndOfLine
<1> QED BY <1>1, <1>3, <1>4, <1>5, <1>6 DEF Characters

-----------------------------------------------------------------------------
(* What was written. *)

Joins(l) == [i \in 1..Len(l) |-> [text \in Seq(Characters) |-> Joined(text, l[i])]]

\* Joining lines is gathering them one by one.
LEMMA JoinedFold ==
    ASSUME NEW l \in Seq(Seq(Characters))
    PROVE  /\ Folds(Seq(Characters), Len(l), <<>>, Joins(l))
           /\ \E run : /\ Gathers(run, Seq(Characters), Len(l), <<>>, Joins(l))
                       /\ AllLines(l) = run[Len(l)]
<1> DEFINE n == Len(l)
           base == <<>>
           S == Seq(Characters)
           F == Joins(l)
           Step(g, s) == IF s = {} THEN base ELSE Joined(g[s \ {Max(s)}], l[Max(s)])
           h == CHOOSE g : g = [s \in SUBSET (DOMAIN l) |-> Step(g, s)]
<1>1. n \in Nat /\ DOMAIN l = 1..n /\ base \in S
    OBVIOUS
<1>2. \A x \in S : \A y \in S : Joined(x, y) \in S
    BY CharacterFacts DEF Joined
<1>3. F \in [1..n -> [S -> S]] /\ \A i \in 1..n : \A x \in S : F[i][x] = Joined(x, l[i])
    BY <1>2 DEF Joins
<1>4. AllLines(l) = h[DOMAIN l]
    BY DEF AllLines, FoldLeft, MapThenFoldSet
<1> HIDE DEF n, base, S, F, Step
<1>5. Folds(S, n, base, F)
    BY <1>1, <1>3 DEF Folds
<1>6. PICK g : IsFold(g, S, n, base, F)
    BY <1>5, FoldExists
<1>7. ASSUME NEW s \in SUBSET (1..n)  PROVE g[s] = Step(g, s)
    <2>1. CASE s = {}
        BY <1>6, <2>1 DEF IsFold, Step
    <2>2. CASE s # {}
        <3>1. g[s \ {Max(s)}] \in S
            BY <1>6 DEF IsFold
        <3> QED BY <1>3, <1>6, <2>2, <3>1 DEF IsFold, Step
    <2> QED BY <2>1, <2>2
<1>8. g = [s \in SUBSET (DOMAIN l) |-> Step(g, s)]
    BY <1>1, <1>6, <1>7 DEF IsFold
<1>9. h = [s \in SUBSET (DOMAIN l) |-> Step(h, s)]
    BY <1>8
<1> HIDE DEF h
<1>10. Recurs(h, S, n, base, F)
    BY <1>1, <1>3, <1>9 DEF Recurs, Step
<1>11. PICK run : Gathers(run, S, n, base, F) /\ run[n] = h[1..n]
    BY <1>5, <1>10, FoldSteps
<1> QED BY <1>1, <1>4, <1>5, <1>11 DEF S, n, base, F

\* The last line stands behind those that were there before it.
LEMMA JoinedLast ==
    ASSUME NEW l \in Seq(Seq(Characters)), NEW m \in Seq(Seq(Characters)), NEW n \in Nat,
           n <= Len(l), Len(m) = n + 1, \A i \in 1..n : l[i] = m[i]
    PROVE  \E run :
               /\ Gathers(run, Seq(Characters), Len(l), <<>>, Joins(l))
               /\ AllLines(l) = run[Len(l)]
               /\ AllLines(m) = Joined(run[n], m[n + 1])
<1>1. PICK run : /\ Gathers(run, Seq(Characters), Len(l), <<>>, Joins(l))
                 /\ AllLines(l) = run[Len(l)]
    BY JoinedFold
<1>2. PICK other : /\ Gathers(other, Seq(Characters), n + 1, <<>>, Joins(m))
                   /\ AllLines(m) = other[n + 1]
    BY JoinedFold
<1>3. other[n + 1] = Joined(other[n], m[n + 1])
    <2>1. n + 1 \in 1..(n + 1) /\ n + 1 - 1 = n /\ other[n] \in Seq(Characters)
        BY <1>2 DEF Gathers
    <2>2. other[n + 1] = Joins(m)[n + 1][other[n]]
        BY <1>2, <2>1 DEF Gathers
    <2> QED BY <2>1, <2>2 DEF Joins
<1>4. run[n] = other[n]
    <2> DEFINE some == [k \in 0..n |-> run[k]]
    <2>1. Len(l) \in Nat /\ \A i \in 1..n : i \in 1..Len(l) /\ i \in 1..Len(m)
        OBVIOUS
    <2>2. \A i \in 1..n : Joins(l)[i] = Joins(m)[i]
        BY <2>1 DEF Joins
    <2>3. Gathers(some, Seq(Characters), n, <<>>, Joins(l))
        <3>1. /\ run[0] = <<>> /\ \A k \in 0..Len(l) : run[k] \in Seq(Characters)
              /\ \A k \in 1..Len(l) : run[k] = Joins(l)[k][run[k - 1]]
            BY <1>1 DEF Gathers
        <3>2. \A k \in 0..n : k \in 0..Len(l) /\ (k # 0 => k \in 1..Len(l) /\ k - 1 \in 0..n)
            BY <2>1
        <3>3. some \in [0..n -> Seq(Characters)] /\ some[0] = <<>>
            BY <3>1, <3>2
        <3>4. ASSUME NEW k \in 1..n  PROVE some[k] = Joins(l)[k][some[k - 1]]
            <4>1. k \in 0..n /\ k - 1 \in 0..n /\ k \in 1..Len(l)
                BY <2>1
            <4>2. some[k] = run[k] /\ some[k - 1] = run[k - 1]
                BY <4>1
            <4> QED BY <3>1, <4>1, <4>2
        <3> QED BY <3>3, <3>4 DEF Gathers
    <2>4. some[n] = run[n] /\ n \in 0..n /\ n <= n + 1
        OBVIOUS
    <2> HIDE DEF some
    <2>5. \A k \in 0..n : some[k] = other[k]
        BY <1>2, <2>2, <2>3, <2>4, SameSoFar
    <2> QED BY <2>4, <2>5
<1> QED BY <1>1, <1>2, <1>3, <1>4

\* How lines are put together does not matter.
LEMMA Regrouped ==
    \A a \in Seq(Characters), b \in Seq(Characters), c \in Seq(Characters) : (a \o b) \o c = a \o (b \o c)
BY ConcatAssociative

\* A new line, and more on the line the program is in.
LEMMA LinesGrow ==
    ASSUME NEW l \in Seq(Seq(Characters)), NEW item \in Seq(Characters)
    PROVE  /\ AllLines(l) \in Seq(Characters)
           /\ Append(l, item) \in Seq(Seq(Characters))
           /\ AllLines(Append(l, item)) = Joined(AllLines(l), item)
           /\ l # <<>> =>
                 LET m == [l EXCEPT ![Len(l)] = @ \o item]
                 IN  /\ m \in Seq(Seq(Characters)) /\ m # <<>>
                     /\ AllLines(m) = AllLines(l) \o item
<1>1. Len(l) \in Nat /\ \A i \in 1..Len(l) : l[i] \in Seq(Characters)
    OBVIOUS
<1>2. AllLines(l) \in Seq(Characters)
    BY <1>1, JoinedFold DEF Gathers
<1>3. /\ Append(l, item) \in Seq(Seq(Characters)) /\ Len(Append(l, item)) = Len(l) + 1
      /\ Append(l, item)[Len(l) + 1] = item /\ \A i \in 1..Len(l) : l[i] = Append(l, item)[i]
    OBVIOUS
<1>4. AllLines(Append(l, item)) = Joined(AllLines(l), item)
    <2> DEFINE n == Len(l)
               m == Append(l, item)
    <2>1. n \in Nat /\ n <= n
        BY <1>1
    <2> HIDE DEF m
    <2>2. PICK run : AllLines(l) = run[n] /\ AllLines(m) = Joined(run[n], m[n + 1])
        BY <1>3, <2>1, JoinedLast DEF m
    <2> QED BY <1>3, <2>2 DEF m
<1>5. ASSUME l # <<>>, NEW m, m = [l EXCEPT ![Len(l)] = @ \o item]
      PROVE  /\ m \in Seq(Seq(Characters)) /\ m # <<>>
             /\ AllLines(m) = AllLines(l) \o item
    <2> DEFINE n == Len(l) - 1
    <2>1. n \in Nat /\ n + 1 = Len(l) /\ Len(l) \in 1..Len(l)
        BY <1>5
    <2>2. l[Len(l)] \o item \in Seq(Characters)
        BY <1>1, <2>1
    <2> DEFINE grown == l[Len(l)] \o item
    <2>12. grown \in Seq(Characters)
        BY <2>2
    <2>13. m = [l EXCEPT ![Len(l)] = grown]
        BY <1>5
    <2> HIDE DEF grown
    <2>14. m \in Seq(Seq(Characters)) /\ Len(m) = Len(l) /\ m[Len(l)] = grown
           /\ \A i \in 1..Len(l) : i # Len(l) => m[i] = l[i]
        <3>1. l \in Seq(Seq(Characters)) /\ grown \in Seq(Characters) /\ Len(l) \in 1..Len(l)
            BY <2>1, <2>12
        <3>2. /\ m \in Seq(Seq(Characters)) /\ Len(m) = Len(l)
              /\ \A j \in 1..Len(l) : m[j] = IF j = Len(l) THEN grown ELSE l[j]
            BY <2>13, <3>1, ExceptSeq
        <3> QED BY <3>1, <3>2
    <2>3. /\ m \in Seq(Seq(Characters)) /\ Len(m) = n + 1 /\ m[n + 1] = l[n + 1] \o item
          /\ \A i \in 1..n : l[i] = m[i]
        <3>1. \A i \in 1..n : i \in 1..Len(l) /\ i # Len(l)
            BY <1>1
        <3> HIDE DEF n
        <3>2. \A i \in 1..n : l[i] = m[i]
            BY <2>14, <3>1
        <3>3. Len(m) = n + 1 /\ m[n + 1] = l[n + 1] \o item
            BY <2>1, <2>14 DEF grown
        <3> QED BY <2>14, <3>2, <3>3
    <2> HIDE DEF n
    <2>4. PICK run : /\ Gathers(run, Seq(Characters), n + 1, <<>>, Joins(l))
                     /\ AllLines(l) = run[n + 1]
                     /\ AllLines(m) = Joined(run[n], m[n + 1])
        <3>1. n <= Len(l)
            BY <2>1
        <3>2. \E run : /\ Gathers(run, Seq(Characters), Len(l), <<>>, Joins(l))
                       /\ AllLines(l) = run[Len(l)]
                       /\ AllLines(m) = Joined(run[n], m[n + 1])
            BY <2>1, <2>3, <3>1, JoinedLast
        <3> QED BY <2>1, <3>2
    <2>5. n \in 0..(n + 1) /\ n + 1 \in 1..(n + 1) /\ n + 1 - 1 = n
        BY <2>1
    <2>6. run[n] \in Seq(Characters)
        BY <2>4, <2>5 DEF Gathers
    <2>7. run[n + 1] = Joins(l)[n + 1][run[n]]
        BY <2>4, <2>5 DEF Gathers
    <2>8. run[n + 1] = Joined(run[n], l[n + 1])
        BY <2>1, <2>5, <2>6, <2>7 DEF Joins
    <2>9. l[n + 1] \in Seq(Characters)
        BY <1>1, <2>1
    <2> DEFINE front == run[n] \o <<EndOfLine>>
    <2>10. front \in Seq(Characters)
        BY <2>6, CharacterFacts
    <2> HIDE DEF front
    <2>11. (front \o l[n + 1]) \o item = front \o (l[n + 1] \o item)
        BY <2>9, <2>10, Regrouped
    <2>15. AllLines(m) = front \o (l[n + 1] \o item)
        BY <2>3, <2>4 DEF Joined, front
    <2>16. AllLines(l) = front \o l[n + 1]
        BY <2>4, <2>8 DEF Joined, front
    <2>17. m # <<>>
        <3>1. Len(m) # 0
            BY <2>1, <2>3
        <3> QED BY <3>1, EmptySeq
    <2> QED BY <2>3, <2>11, <2>15, <2>16, <2>17
<1> QED BY <1>2, <1>3, <1>4, <1>5


-----------------------------------------------------------------------------
(* What is read. *)

Readable == content \in Seq(Characters) /\ position \in 0..Len(content)

\* Reading over a set stops at the first character that is not in it.
LEMMA Stops ==
    ASSUME Readable, NEW p \in 0..Len(content), NEW set
    PROVE  \E q \in p..Len(content) :
               /\ \A i \in p..(q - 1) : At(i) \in set
               /\ EOF(q) \/ At(q) \notin set
<1> DEFINE stops == {q \in p..Len(content) : EOF(q) \/ At(q) \notin set}
<1>1. Len(content) \in Nat /\ p \in Nat /\ p <= Len(content)
    BY DEF Readable
<1>2. stops \in SUBSET Nat /\ Len(content) \in stops
    BY <1>1 DEF EOF
<1> HIDE DEF stops
<1>3. PICK q \in stops : \A other \in stops : q <= other
    BY <1>2, LeastNumber
<1>4. q \in p..Len(content) /\ (EOF(q) \/ At(q) \notin set)
    BY DEF stops
<1>5. ASSUME NEW i \in p..(q - 1)  PROVE At(i) \in set
    <2>1. i \in p..Len(content) /\ i \in Nat /\ q \in Nat /\ ~(q <= i)
        BY <1>1, <1>4
    <2>2. i \notin stops
        BY <1>3, <2>1
    <2> QED BY <2>1, <2>2 DEF stops
<1> QED BY <1>4, <1>5

LEMMA PastStops ==
    ASSUME Readable, NEW p \in 0..Len(content), NEW set
    PROVE  /\ Past(p, set) \in p..Len(content)
           /\ \A i \in p..(Past(p, set) - 1) : At(i) \in set
           /\ EOF(Past(p, set)) \/ At(Past(p, set)) \notin set
<1>1. \E q \in p..Len(content) :
          /\ \A i \in p..(q - 1) : At(i) \in set
          /\ EOF(q) \/ At(q) \notin set
    BY Stops
<1> QED BY <1>1 DEF Past

LEMMA UpToStops ==
    ASSUME Readable, NEW p \in 0..Len(content), NEW set
    PROVE  /\ UpTo(p, set) \in p..Len(content)
           /\ \A i \in p..(UpTo(p, set) - 1) : At(i) \notin set
           /\ EOF(UpTo(p, set)) \/ At(UpTo(p, set)) \in set
<1> DEFINE others == Characters \ set
<1>1. PICK q \in p..Len(content) :
          /\ \A i \in p..(q - 1) : At(i) \in others
          /\ EOF(q) \/ At(q) \notin others
    BY Stops
<1>2. q = Len(content) \/ content[q + 1] \in Characters
    <2>1. Len(content) \in Nat /\ q \in Nat /\ q <= Len(content)
        BY DEF Readable
    <2>2. q = Len(content) \/ q + 1 \in 1..Len(content)
        BY <2>1
    <2> QED BY <2>2, ElementOfSeq DEF Readable
<1>3. EOF(q) \/ At(q) \in set
    BY <1>1, <1>2 DEF EOF, At
<1>4. \E x \in p..Len(content) :
          /\ \A i \in p..(x - 1) : At(i) \notin set
          /\ EOF(x) \/ At(x) \in set
    BY <1>1, <1>3
<1> QED BY <1>4 DEF UpTo

\* The characters between two places, and those between two places of these.
LEMMA Part ==
    ASSUME Readable, NEW a \in 0..Len(content), NEW b \in a..Len(content)
    PROVE  /\ Between(a, b) \in Seq(Characters) /\ Len(Between(a, b)) = b - a
           /\ \A i \in 1..(b - a) : Between(a, b)[i] = At(a + i - 1)
           /\ \A i \in a..(b - 1) : At(i) = Between(a, b)[i - a + 1]
<1>1. Len(content) \in Nat /\ a \in Nat /\ b \in Nat /\ a <= b /\ b <= Len(content)
    BY DEF Readable
<1>2. \A i \in (a + 1)..b : content[i] \in Characters
    BY <1>1 DEF Readable
<1>3. a + 1 \in Int /\ b \in Int
    BY <1>1
<1>4. /\ Between(a, b) \in Seq(Characters)
      /\ Len(Between(a, b)) = IF a + 1 <= b THEN b - (a + 1) + 1 ELSE 0
      /\ \A i \in 1..(b - (a + 1) + 1) : Between(a, b)[i] = content[(a + 1) + i - 1]
    BY <1>2, <1>3, SubSeqProperties DEF Between
<1>5. \A i \in 1..(b - a) : Between(a, b)[i] = content[a + i - 1 + 1]
    BY <1>1, <1>4
<1>6. \A i \in a..(b - 1) : i - a + 1 \in 1..(b - a) /\ a + (i - a + 1) - 1 + 1 = i + 1
    BY <1>1
<1>7. \A i \in a..(b - 1) : Between(a, b)[i - a + 1] = content[i + 1]
    BY <1>5, <1>6
<1> QED BY <1>1, <1>4, <1>5, <1>7 DEF At

LEMMA PartOfPart ==
    ASSUME Readable, NEW a \in 0..Len(content), NEW b \in a..Len(content),
           NEW c \in a..b, NEW d \in c..b
    PROVE  SubSeq(Between(a, b), c - a + 1, d - a) = Between(c, d)
<1>1. Len(content) \in Nat /\ a \in Nat /\ b \in Nat /\ c \in Nat /\ d \in Nat
      /\ a <= c /\ c <= d /\ d <= b /\ b <= Len(content)
    BY DEF Readable
<1>2. c \in 0..Len(content) /\ d \in c..Len(content)
    BY <1>1
<1> DEFINE whole == Between(a, b)
           part == Between(c, d)
           cut == SubSeq(whole, c - a + 1, d - a)
<1>3. /\ whole \in Seq(Characters) /\ Len(whole) = b - a
      /\ \A i \in 1..(b - a) : whole[i] = At(a + i - 1)
    BY Part
<1>4. /\ part \in Seq(Characters) /\ Len(part) = d - c
      /\ \A i \in 1..(d - c) : part[i] = At(c + i - 1)
    BY <1>2, Part
<1> HIDE DEF whole, part
<1>5. c - a + 1 \in Int /\ d - a \in Int /\ \A i \in (c - a + 1)..(d - a) : i \in 1..(b - a)
    BY <1>1
<1>6. \A i \in (c - a + 1)..(d - a) : whole[i] \in Characters
    BY <1>3, <1>5
<1>7. /\ cut \in Seq(Characters)
      /\ Len(cut) = IF c - a + 1 <= d - a THEN d - a - (c - a + 1) + 1 ELSE 0
      /\ \A i \in 1..(d - a - (c - a + 1) + 1) : cut[i] = whole[(c - a + 1) + i - 1]
    BY <1>5, <1>6, SubSeqProperties
<1> HIDE DEF cut
<1>8. Len(cut) = d - c
    BY <1>1, <1>7
<1>9. ASSUME NEW i \in 1..(d - c)  PROVE cut[i] = part[i]
    <2>1. i \in 1..(d - a - (c - a + 1) + 1) /\ (c - a + 1) + i - 1 = c - a + i
          /\ c - a + i \in 1..(b - a) /\ a + (c - a + i) - 1 = c + i - 1
        BY <1>1
    <2>2. cut[i] = whole[c - a + i] /\ whole[c - a + i] = At(a + (c - a + i) - 1)
        BY <1>3, <1>7, <2>1
    <2> QED BY <1>4, <2>1, <2>2
<1>10. cut = part
    BY <1>4, <1>7, <1>8, <1>9, SeqEqual
<1> QED BY <1>10 DEF cut, whole, part


LEMMA EndsIn ==
    ASSUME Readable, NEW a \in 0..Len(content), NEW b \in a..Len(content)
    PROVE  /\ DOMAIN Between(a, b) = 1..(b - a)
           /\ LineEnds(Between(a, b)) = {i \in 1..(b - a) : At(a + i - 1) = EndOfLine}
<1> DEFINE part == Between(a, b)
<1>1. /\ part \in Seq(Characters) /\ Len(part) = b - a
      /\ \A i \in 1..(b - a) : part[i] = At(a + i - 1)
    BY Part
<1> HIDE DEF part
<1>2. DOMAIN part = 1..(b - a)
    BY <1>1, LenProperties
<1>3. LineEnds(part) = {i \in 1..(b - a) : At(a + i - 1) = EndOfLine}
    BY <1>1, <1>2 DEF LineEnds
<1> QED BY <1>2, <1>3 DEF part

\* What is read behind blanks.
LEMMA BlanksInFront ==
    ASSUME Readable, NEW end \in Past(position, Blanks)..Len(content)
    PROVE  LET start == Past(position, Blanks)
               passed == Between(position, end)
               k == start - position
           IN  /\ k \in 0..Len(passed) /\ Len(passed) - k = end - start
               /\ HasBehindBlanks(passed, k)
               /\ Behind(passed, k) = Between(start, end)
               /\ \A d \in start..end : SubSeq(passed, k + 1, k + (d - start)) = Between(start, d)
               /\ \A i \in (k + 1)..Len(passed) : passed[i] = At(position + i - 1) /\ position + i - 1 \in start..(end - 1)
<1> DEFINE start == Past(position, Blanks)
           passed == Between(position, end)
           k == start - position
<1>1. /\ start \in position..Len(content)
      /\ \A i \in position..(start - 1) : At(i) \in Blanks
      /\ EOF(start) \/ At(start) \notin Blanks
    <2>1. position \in 0..Len(content)
        BY DEF Readable
    <2> QED BY <2>1, PastStops
<1> HIDE DEF start
<1>2. end \in start..Len(content)
    BY DEF start
<1>3. /\ Len(content) \in Nat /\ position \in Nat /\ start \in Nat /\ end \in Nat
      /\ position <= start /\ start <= end /\ end <= Len(content)
      /\ position \in 0..Len(content) /\ end \in position..Len(content)
    BY <1>1, <1>2 DEF Readable
<1>4. /\ passed \in Seq(Characters) /\ Len(passed) = end - position
      /\ \A i \in 1..(end - position) : passed[i] = At(position + i - 1)
    BY <1>3, Part
<1> HIDE DEF passed
<1>5. k \in 0..Len(passed) /\ Len(passed) - k = end - start
    BY <1>3, <1>4
<1>6. HasBehindBlanks(passed, k)
    <2>1. ASSUME NEW i \in 1..k  PROVE passed[i] \in Blanks
        <3>1. i \in 1..(end - position) /\ position + i - 1 \in position..(start - 1)
            BY <1>3
        <3> QED BY <1>1, <1>4, <3>1
    <2>2. ASSUME k < Len(passed)  PROVE passed[k + 1] \notin Blanks
        <3>1. start < end /\ k + 1 \in 1..(end - position) /\ position + (k + 1) - 1 = start
            BY <1>3, <1>4, <2>2
        <3>2. ~EOF(start)
            BY <1>3, <3>1 DEF EOF
        <3>3. passed[k + 1] = At(position + (k + 1) - 1)
            BY <1>4, <3>1
        <3> QED BY <1>1, <3>1, <3>2, <3>3
    <2> QED BY <2>1, <2>2 DEF HasBehindBlanks
<1>7. ASSUME NEW d \in start..end  PROVE SubSeq(passed, k + 1, k + (d - start)) = Between(start, d)
    <2>1. start \in position..end /\ k + (d - start) = d - position /\ k + 1 = start - position + 1
        BY <1>3
    <2>2. SubSeq(Between(position, end), start - position + 1, d - position) = Between(start, d)
        BY <1>3, <2>1, PartOfPart
    <2> QED BY <2>1, <2>2 DEF passed
<1>8. Behind(passed, k) = Between(start, end)
    <2>1. end \in start..end /\ k + (end - start) = Len(passed)
        BY <1>3, <1>4
    <2>2. SubSeq(passed, k + 1, k + (end - start)) = Between(start, end)
        BY <1>7, <2>1
    <2> QED BY <2>1, <2>2 DEF Behind
<1>9. ASSUME NEW i \in (k + 1)..Len(passed)
      PROVE  passed[i] = At(position + i - 1) /\ position + i - 1 \in start..(end - 1)
    <2>1. i \in 1..(end - position) /\ position + i - 1 \in start..(end - 1)
        BY <1>3, <1>4
    <2> QED BY <1>4, <2>1
<1> QED BY <1>5, <1>6, <1>7, <1>8, <1>9 DEF start, passed

\* One character too many is put back.
LEMMA EndsWhere ==
    ASSUME NEW p \in Int
    PROVE  Ends(p) = p /\ UngetC(FGetC(p)) = p
BY DEF Ends, UngetC, FGetC

\* A reply of an operation that starts where reading is.
LEMMA ReplyHas ==
    ASSUME NEW operation, NEW to, NEW given, NEW value, NEW raised
    PROVE  LET r == Reply(operation, to, given, value, raised)
           IN  /\ r.operation = operation /\ r.from = position /\ r.to = to
               /\ r.given = given /\ r.value = value /\ r.raised = raised
               /\ Passed(content, r) = Between(position, to)
BY DEF Reply, Passed, Between

\* Get and Get_Line.
LEMMA GetReads == ASSUME Readable PROVE Faithful(content, ReadCharacter) /\ ReadCharacter.from = position
<1> DEFINE c == Past(position, {EndOfLine})
<1>1. /\ c \in position..Len(content)
      /\ \A i \in position..(c - 1) : At(i) \in {EndOfLine}
      /\ EOF(c) \/ At(c) \notin {EndOfLine}
    <2>1. position \in 0..Len(content)
        BY DEF Readable
    <2> QED BY <2>1, PastStops
<1>2. /\ Len(content) \in Nat /\ position \in Nat /\ c \in Nat /\ position <= c /\ c <= Len(content)
      /\ position \in 0..Len(content)
    BY <1>1 DEF Readable
<1>3. CASE EOF(c)
    <2> DEFINE r == Reply("get", c, <<>>, 0, "END_ERROR")
    <2>1. /\ r.operation = "get" /\ r.from = position /\ r.to = c
          /\ r.raised = "END_ERROR" /\ Passed(content, r) = Between(position, c)
        BY ReplyHas
    <2>2. ReadCharacter = r
        BY <1>3 DEF ReadCharacter
    <2> HIDE DEF r, c
    <2>3. /\ DOMAIN Between(position, c) = 1..(c - position)
          /\ LineEnds(Between(position, c)) = {i \in 1..(c - position) : At(position + i - 1) = EndOfLine}
        BY <1>1, <1>2, EndsIn
    <2>4. \A i \in 1..(c - position) : position + i - 1 \in position..(c - 1)
        BY <1>2
    <2>5. LineEnds(Between(position, c)) = DOMAIN Between(position, c)
        BY <1>1, <2>3, <2>4
    <2>6. GaveCharacter(content, r)
        BY <1>3, <2>1, <2>5 DEF GaveCharacter, EOF
    <2> QED BY <1>1, <1>2, <2>1, <2>2, <2>6 DEF Faithful
<1>4. CASE ~EOF(c)
    <2> DEFINE r == Reply("get", FGetC(c), <<At(c)>>, 0, "none")
    <2>1. /\ r.operation = "get" /\ r.from = position /\ r.to = c + 1 /\ r.given = <<At(c)>>
          /\ r.raised = "none" /\ Passed(content, r) = Between(position, c + 1)
        <3> DEFINE given == <<At(c)>>
                   to == FGetC(c)
        <3>1. r = Reply("get", to, given, 0, "none") /\ to = c + 1
            BY DEF FGetC
        <3> HIDE DEF r, given, to
        <3>2. /\ r.operation = "get" /\ r.from = position /\ r.to = to /\ r.given = given
              /\ r.raised = "none" /\ Passed(content, r) = Between(position, to)
            BY <3>1, ReplyHas
        <3> QED BY <3>1, <3>2 DEF given
    <2>2. ReadCharacter = r
        BY <1>4 DEF ReadCharacter
    <2> HIDE DEF r, c
    <2>3. c + 1 \in position..Len(content) /\ c < Len(content)
        BY <1>2, <1>4 DEF EOF
    <2>4. /\ DOMAIN Between(position, c + 1) = 1..(c + 1 - position)
          /\ LineEnds(Between(position, c + 1)) = {i \in 1..(c + 1 - position) : At(position + i - 1) = EndOfLine}
        BY <1>2, <2>3, EndsIn
    <2>5. /\ Len(Between(position, c + 1)) = c + 1 - position
          /\ \A i \in 1..(c + 1 - position) : Between(position, c + 1)[i] = At(position + i - 1)
        BY <1>2, <2>3, Part
    <2>6. c + 1 - position \in 1..(c + 1 - position) /\ position + (c + 1 - position) - 1 = c
        BY <1>2
    <2>7. ASSUME NEW i \in 1..(c + 1 - position)
          PROVE  At(position + i - 1) = EndOfLine <=> i \in 1..(c + 1 - position - 1)
        <3>1. CASE i = c + 1 - position
            <4>1. position + i - 1 = c /\ i \notin 1..(c + 1 - position - 1)
                BY <1>2, <3>1
            <4> QED BY <1>1, <1>4, <4>1
        <3>2. CASE i # c + 1 - position
            <4>1. position + i - 1 \in position..(c - 1) /\ i \in 1..(c + 1 - position - 1)
                BY <1>2, <3>2
            <4> QED BY <1>1, <4>1
        <3> QED BY <3>1, <3>2
    <2>8. LineEnds(Between(position, c + 1)) = 1..(Len(Between(position, c + 1)) - 1)
        <3>1. \A i \in 1..(c + 1 - position - 1) : i \in 1..(c + 1 - position)
            BY <1>2
        <3>2. {i \in 1..(c + 1 - position) : At(position + i - 1) = EndOfLine} = 1..(c + 1 - position - 1)
            BY <2>7, <3>1
        <3>3. LineEnds(Between(position, c + 1)) = 1..(c + 1 - position - 1)
            BY <2>4, <3>2, Zenon
        <3>4. Len(Between(position, c + 1)) - 1 = c + 1 - position - 1
            BY <1>2, <2>5
        <3> QED BY <3>3, <3>4, Zenon
    <2>9. /\ Between(position, c + 1) # <<>>
          /\ Between(position, c + 1)[Len(Between(position, c + 1))] = At(c)
        <3>1. DOMAIN Between(position, c + 1) # {}
            BY <2>4, <2>6
        <3>2. Between(position, c + 1)[c + 1 - position] = At(position + (c + 1 - position) - 1)
            BY <2>5, <2>6
        <3> QED BY <2>5, <2>6, <3>1, <3>2
    <2>10. GaveCharacter(content, r)
        BY <2>1, <2>8, <2>9 DEF GaveCharacter
    <2> QED BY <1>2, <2>1, <2>2, <2>3, <2>10 DEF Faithful
<1> QED BY <1>3, <1>4


LEMMA LineReads ==
    ASSUME Readable, NEW length \in Nat
    PROVE  Faithful(content, ReadLine(length)) /\ ReadLine(length).from = position
<1> DEFINE end == UpTo(position, {EndOfLine})
<1>1. /\ end \in position..Len(content)
      /\ \A i \in position..(end - 1) : At(i) \notin {EndOfLine}
      /\ EOF(end) \/ At(end) \in {EndOfLine}
    <2>1. position \in 0..Len(content)
        BY DEF Readable
    <2> QED BY <2>1, UpToStops
<1>2. /\ Len(content) \in Nat /\ position \in Nat /\ end \in Nat /\ position <= end /\ end <= Len(content)
      /\ position \in 0..Len(content)
    BY <1>1 DEF Readable
\* Up to the end of the line there is none.
<1>3. ASSUME NEW b \in position..end
      PROVE  /\ Between(position, b) \in Seq(Characters) /\ Len(Between(position, b)) = b - position
             /\ LineEnds(Between(position, b)) = {}
    <2>1. b \in position..Len(content)
        BY <1>2
    <2>2. LineEnds(Between(position, b)) = {i \in 1..(b - position) : At(position + i - 1) = EndOfLine}
        BY <1>2, <2>1, EndsIn
    <2>3. \A i \in 1..(b - position) : position + i - 1 \in position..(end - 1)
        BY <1>2
    <2> HIDE DEF end
    <2>4. \A i \in 1..(b - position) : At(position + i - 1) # EndOfLine
        BY <1>1, <2>3
    <2>5. {i \in 1..(b - position) : At(position + i - 1) = EndOfLine} = {}
        BY <2>4
    <2>6. LineEnds(Between(position, b)) = {}
        BY <2>2, <2>5, Zenon
    <2> QED BY <1>2, <2>1, <2>6, Part
\* What a reply gives, and where it ends.
<1>4. ASSUME NEW b \in position..end, b - position <= length, NEW to \in {b, b + 1}, to <= Len(content),
             to = b + 1 => b = end,
             to = b => b = Len(content) \/ b - position = length,
             NEW r, r = Reply("line", to, Between(position, b), length, "none"), position # Len(content)
      PROVE  Faithful(content, r) /\ r.from = position
    <2> DEFINE given == Between(position, b)
    <2>1. /\ r.operation = "line" /\ r.from = position /\ r.to = to /\ r.given = given
          /\ r.value = length /\ r.raised = "none" /\ Passed(content, r) = Between(position, to)
        BY <1>4, ReplyHas
    <2>2. given \in Seq(Characters) /\ Len(given) = b - position /\ LineEnds(given) = {}
        BY <1>3
    <2> HIDE DEF given, end
    <2>3. b \in Nat /\ to \in Nat /\ to \in position..Len(content) /\ b <= Len(content) /\ position <= b
        BY <1>2, <1>4
    <2>4. CASE to = b
        <3>1. Between(position, to) = given
            BY <2>4 DEF given
        <3>2. GaveLine(content, r)
            <4>1. r.to = Len(content) \/ Len(r.given) = r.value
                BY <1>4, <2>1, <2>2, <2>4
            <4>2. Len(r.given) <= r.value
                BY <1>4, <2>1, <2>2
            <4>3. (r.raised = "none") = (r.from # Len(content))
                BY <1>4, <2>1
            <4>4. Passed(content, r) = r.given /\ LineEnds(r.given) = {}
                BY <2>1, <2>2, <3>1
            <4> QED BY <4>1, <4>2, <4>3, <4>4 DEF GaveLine
        <3> QED BY <1>2, <2>1, <2>3, <3>2 DEF Faithful
    <2>5. CASE to = b + 1
        <3>1. b = end /\ ~EOF(end)
            BY <1>4, <2>3, <2>5 DEF EOF
        <3>2. At(b) = EndOfLine
            BY <1>1, <3>1
        <3> DEFINE whole == Between(position, to)
        <3>3. /\ whole \in Seq(Characters) /\ Len(whole) = to - position
              /\ \A i \in 1..(to - position) : whole[i] = At(position + i - 1)
            BY <1>2, <2>3, Part
        <3>4. /\ Len(given) = b - position /\ \A i \in 1..(b - position) : given[i] = At(position + i - 1)
            BY <1>2, <2>3, Part DEF given
        <3>5. LineEnds(whole) = {i \in 1..(to - position) : At(position + i - 1) = EndOfLine}
            BY <1>2, <2>3, EndsIn
        <3> HIDE DEF whole
        <3> DEFINE both == Append(given, EndOfLine)
        <3>6. /\ both \in Seq(Characters) /\ Len(both) = Len(given) + 1
              /\ \A i \in 1..Len(given) : both[i] = given[i]
              /\ both[Len(given) + 1] = EndOfLine
            BY <2>2, CharacterFacts, AppendProperties
        <3> HIDE DEF both
        <3>7. Len(whole) = Len(both)
            BY <1>2, <2>2, <2>3, <2>5, <3>3, <3>6
        <3>8. ASSUME NEW i \in 1..Len(whole)  PROVE whole[i] = both[i]
            <4>1. i \in 1..(to - position) /\ whole[i] = At(position + i - 1)
                BY <3>3
            <4>2. CASE i = to - position
                <5>1. i = Len(given) + 1 /\ position + i - 1 = b
                    BY <1>2, <2>2, <2>3, <2>5, <4>2
                <5> QED BY <3>2, <3>6, <4>1, <5>1
            <4>3. CASE i # to - position
                <5>1. i \in 1..(b - position)
                    BY <1>2, <2>3, <2>5, <4>1, <4>3
                <5> QED BY <3>4, <3>6, <4>1, <5>1
            <4> QED BY <4>2, <4>3
        <3>9. whole = both
            BY <3>3, <3>6, <3>7, <3>8, SeqEqual
        <3>10. to - position \in 1..(to - position) /\ position + (to - position) - 1 = b
               /\ to - position = Len(given) + 1
            BY <1>2, <2>2, <2>3, <2>5
        <3>11. to - position \in LineEnds(whole)
            BY <3>2, <3>5, <3>10
        <3>12. \A i \in LineEnds(whole) : i = to - position
            <4> SUFFICES ASSUME NEW i \in LineEnds(whole), i # to - position  PROVE FALSE
                OBVIOUS
            <4>1. i \in 1..(to - position) /\ At(position + i - 1) = EndOfLine
                BY <3>5
            <4>2. position + i - 1 \in position..(end - 1)
                BY <1>2, <2>3, <2>5, <3>1, <4>1
            <4> QED BY <1>1, <4>1, <4>2
        <3>13. GaveLine(content, r)
            <4>1. Passed(content, r) = whole /\ r.given = given /\ r.value = length /\ r.raised = "none"
                BY <2>1 DEF whole
            <4>2. whole \in {given, Append(given, EndOfLine)}
                BY <3>9 DEF both
            <4>3. LineEnds(whole) \subseteq {Len(given) + 1} /\ LineEnds(whole) # {}
                BY <3>10, <3>11, <3>12
            <4>4. Len(given) <= length
                BY <1>4, <2>2
            <4>5. (r.raised = "none") = (r.from # Len(content))
                BY <1>4, <2>1
            <4> QED BY <4>1, <4>2, <4>3, <4>4, <4>5 DEF GaveLine
        <3> QED BY <1>2, <2>1, <2>3, <3>13 DEF Faithful
    <2> QED BY <1>4, <2>4, <2>5
<1>5. CASE EOF(position)
    <2> DEFINE r == Reply("line", position, <<>>, length, "END_ERROR")
    <2>1. /\ r.operation = "line" /\ r.from = position /\ r.to = position /\ r.given = <<>>
          /\ r.value = length /\ r.raised = "END_ERROR" /\ Passed(content, r) = Between(position, position)
        BY ReplyHas
    <2>2. ReadLine(length) = r
        BY <1>5 DEF ReadLine
    <2> HIDE DEF r, end
    <2>3. position \in position..end
        BY <1>2
    <2>4. Len(Between(position, position)) = 0 /\ LineEnds(Between(position, position)) = {}
          /\ Between(position, position) = <<>>
        <3>1. /\ Between(position, position) \in Seq(Characters) /\ Len(Between(position, position)) = position - position
              /\ LineEnds(Between(position, position)) = {}
            BY <1>3, <2>3
        <3>2. position - position = 0
            BY <1>2
        <3> QED BY <3>1, <3>2, EmptySeq
    <2>5. position = Len(content)
        BY <1>5 DEF EOF
    <2>6. GaveLine(content, r)
        <3>1. Len(<<>>) <= length
            OBVIOUS
        <3>2. (r.raised = "none") = (r.from # Len(content))
            BY <2>1, <2>5
        <3> QED BY <2>1, <2>4, <2>5, <3>1, <3>2 DEF GaveLine
    <2>7. r.from \in 0..Len(content) /\ r.to \in r.from..Len(content) /\ r.operation = "line"
        BY <1>2, <2>1
    <2>8. Faithful(content, r)
        BY <2>6, <2>7 DEF Faithful
    <2> QED BY <2>1, <2>2, <2>8
<1>6. CASE ~EOF(position) /\ end - position <= length
    <2> DEFINE to == IF EOF(end) THEN end ELSE FGetC(end)
               r == Reply("line", to, Between(position, end), length, "none")
    <2>1. ReadLine(length) = r
        BY <1>6 DEF ReadLine
    <2>2. to \in {end, end + 1} /\ (to = end + 1 => end # Len(content)) /\ (to = end => end = Len(content))
        <3> HIDE DEF end
        <3> QED BY <1>2 DEF FGetC, EOF
    <2>3. position # Len(content)
        BY <1>6 DEF EOF
    <2> HIDE DEF end, to
    <2>4. end \in position..end /\ to <= Len(content)
        BY <1>2, <2>2
    <2> HIDE DEF r
    <2>5. r = Reply("line", to, Between(position, end), length, "none")
        BY DEF r
    <2> QED BY <1>4, <1>6, <2>1, <2>2, <2>3, <2>4, <2>5
<1>7. CASE ~EOF(position) /\ ~(end - position <= length)
    <2> DEFINE b == position + length
               to == UngetC(FGetC(b))
               r == Reply("line", to, Between(position, b), length, "none")
    <2>1. ReadLine(length) = r
        BY <1>7 DEF ReadLine
    <2> HIDE DEF end
    <2>2. b \in position..end /\ b - position = length /\ b \in Int /\ b < end
        BY <1>2, <1>7
    <2> HIDE DEF b
    <2>3. to = b
        BY <2>2, EndsWhere
    <2>4. position # Len(content)
        BY <1>7 DEF EOF
    <2>5. r = Reply("line", to, Between(position, b), length, "none")
        BY DEF r
    <2> HIDE DEF r, to
    <2>6. to \in {b, b + 1} /\ to <= Len(content) /\ to # b + 1 /\ b - position <= length
        BY <1>2, <2>2, <2>3
    <2> QED BY <1>4, <2>1, <2>2, <2>3, <2>4, <2>5, <2>6
<1> QED BY <1>5, <1>6, <1>7

-----------------------------------------------------------------------------
(* The end tests, words, numbers and literals. *)

LEMMA AskReads ==
    ASSUME Readable
    PROVE  /\ Faithful(content, AtEndOfLine) /\ AtEndOfLine.from = position
           /\ Faithful(content, AtEndOfFile) /\ AtEndOfFile.from = position
<1>1. position \in 0..Len(content) /\ position \in Int /\ position \in position..Len(content)
    BY DEF Readable
<1>2. Ends(position) = position
    BY <1>1, EndsWhere
<1>3. /\ AtEndOfLine.operation = "end_of_line" /\ AtEndOfLine.from = position /\ AtEndOfLine.to = position
      /\ AtEndOfFile.operation = "end_of_file" /\ AtEndOfFile.from = position /\ AtEndOfFile.to = position
    BY <1>2, ReplyHas DEF AtEndOfLine, AtEndOfFile
<1> QED BY <1>1, <1>3 DEF Faithful


LEMMA WordReads ==
    ASSUME Readable, NEW length \in Nat
    PROVE  Faithful(content, ReadWord(length)) /\ ReadWord(length).from = position
<1> DEFINE start == Past(position, Blanks)
           end == UpTo(start, Blanks)
<1>1. position \in 0..Len(content) /\ position \in Nat /\ Len(content) \in Nat
    BY DEF Readable
<1>2. start \in position..Len(content)
    BY <1>1, PastStops
<1> HIDE DEF start
<1>3. start \in 0..Len(content) /\ start \in Nat /\ position <= start /\ start <= Len(content)
    BY <1>1, <1>2
<1>4. /\ end \in start..Len(content)
      /\ \A i \in start..(end - 1) : At(i) \notin Blanks
      /\ EOF(end) \/ At(end) \in Blanks
    BY <1>3, UpToStops
<1>5. CASE EOF(start)
    <2> DEFINE r == Reply("word", start, <<>>, length, "END_ERROR")
               passed == Between(position, start)
               k == start - position
    <2>1. /\ r.operation = "word" /\ r.from = position /\ r.to = start /\ r.given = <<>>
          /\ r.value = length /\ r.raised = "END_ERROR" /\ Passed(content, r) = passed
        BY ReplyHas
    <2>2. ReadWord(length) = r
        BY <1>5 DEF ReadWord, start
    <2>3. start \in start..Len(content)
        BY <1>3
    <2>4. /\ k \in 0..Len(passed) /\ Len(passed) - k = start - start
          /\ HasBehindBlanks(passed, k)
          /\ Behind(passed, k) = Between(start, start)
          /\ \A d \in start..start : SubSeq(passed, k + 1, k + (d - start)) = Between(start, d)
        BY <2>3, BlanksInFront DEF start
    <2> HIDE DEF r, end, passed, k
    <2>5. Between(start, start) = <<>>
        <3>1. Between(start, start) \in Seq(Characters) /\ Len(Between(start, start)) = start - start
            BY <1>3, <2>3, Part
        <3>2. start - start = 0
            BY <1>3
        <3> QED BY <3>1, <3>2, EmptySeq
    <2>6. start \in start..start /\ start - start = 0 /\ Len(<<>>) = 0
        BY <1>3
    <2>7. SubSeq(passed, k + 1, k + 0) = <<>>
        BY <2>4, <2>5, <2>6
    <2>8. k \in Int /\ Len(passed) \in Int /\ Len(passed) = k
        BY <1>2, <1>3, <2>4, Part DEF k, passed
    <2>9. \A i \in (k + 1)..Len(passed) : passed[i] \notin Blanks
        BY <2>8
    <2>10. r.to = Len(content)
        BY <1>5, <2>1 DEF EOF
    <2>11. GaveWord(content, r)
        <3>1. r.given = SubSeq(passed, k + 1, k + Len(r.given))
            BY <2>1, <2>6, <2>7
        <3>2. Behind(passed, k) = r.given /\ Len(r.given) <= r.value
            BY <2>1, <2>4, <2>5, <2>6
        <3> QED BY <2>1, <2>4, <2>9, <2>10, <3>1, <3>2 DEF GaveWord
    <2>12. r.from \in 0..Len(content) /\ r.to \in r.from..Len(content) /\ r.operation = "word"
        BY <1>1, <1>2, <2>1
    <2>13. Faithful(content, r)
        BY <2>11, <2>12 DEF Faithful
    <2> QED BY <2>1, <2>2, <2>13
<1>6. CASE ~EOF(start)
    <2> DEFINE kept == IF end - start < length THEN end ELSE start + length
               r == Reply("word", Ends(end), Between(start, kept), length, "none")
               passed == Between(position, end)
               k == start - position
    <2>1. ReadWord(length) = r
        BY <1>6 DEF ReadWord, start
    <2> HIDE DEF end
    <2>2. end \in Int /\ end \in position..Len(content) /\ start <= end
        BY <1>1, <1>3, <1>4
    <2>3. kept \in start..end /\ kept - start <= length /\ (kept - start = length \/ kept = end)
        BY <1>3, <2>2
    <2> HIDE DEF kept
    <2>4. Ends(end) = end
        BY <2>2, EndsWhere
    <2> DEFINE given == Between(start, kept)
    <2>5. /\ r.operation = "word" /\ r.from = position /\ r.to = end /\ r.given = given
          /\ r.value = length /\ r.raised = "none" /\ Passed(content, r) = passed
        BY <2>4, ReplyHas
    <2>6. /\ k \in 0..Len(passed) /\ Len(passed) - k = end - start
          /\ HasBehindBlanks(passed, k)
          /\ Behind(passed, k) = Between(start, end)
          /\ \A d \in start..end : SubSeq(passed, k + 1, k + (d - start)) = Between(start, d)
          /\ \A i \in (k + 1)..Len(passed) : passed[i] = At(position + i - 1) /\ position + i - 1 \in start..(end - 1)
        BY <1>4, BlanksInFront DEF start
    <2>7. Len(given) = kept - start
        <3>1. kept \in start..Len(content)
            BY <1>3, <2>2, <2>3
        <3> QED BY <1>3, <3>1, Part
    <2> HIDE DEF r, passed, k, given
    <2>8. given = SubSeq(passed, k + 1, k + Len(given))
        BY <2>3, <2>6, <2>7 DEF given
    <2>9. \A i \in (k + 1)..Len(passed) : passed[i] \notin Blanks
        BY <1>4, <2>6
    <2>10. r.to = Len(content) \/ content[r.to + 1] \in Blanks
        BY <1>4, <2>5 DEF EOF, At
    <2>11. Len(given) = length \/ Behind(passed, k) = given
        BY <2>3, <2>6, <2>7 DEF given
    <2>12. GaveWord(content, r)
        <3>1. Len(given) <= length
            BY <2>3, <2>7
        <3> QED BY <2>5, <2>6, <2>8, <2>9, <2>10, <2>11, <3>1 DEF GaveWord
    <2>13. r.from \in 0..Len(content) /\ r.to \in r.from..Len(content) /\ r.operation = "word"
        BY <1>1, <2>2, <2>5
    <2>14. Faithful(content, r)
        BY <2>12, <2>13 DEF Faithful
    <2> QED BY <2>1, <2>5, <2>14
<1> QED BY <1>5, <1>6

\* Behind a word of a set, no character of it follows.
LEMMA NotBeforeIt ==
    ASSUME Readable, NEW p \in 0..Len(content), NEW set, NEW r, r.to = Past(p, set)
    PROVE  NotBefore(content, r, set)
<1>1. /\ Past(p, set) \in p..Len(content)
      /\ EOF(Past(p, set)) \/ At(Past(p, set)) \notin set
    BY PastStops
<1> QED BY <1>1 DEF NotBefore, EOF, At

LEMMA EnumReads ==
    ASSUME Readable, TextAssumption
    PROVE  Faithful(content, ReadEnum) /\ ReadEnum.from = position
<1> DEFINE start == Past(position, Blanks)
           end == Past(start, WordCharacters)
           named == {i \in DOMAIN Literals : Literals[i] = Between(start, end)}
<1>1. position \in 0..Len(content) /\ position \in Nat /\ Len(content) \in Nat
    BY DEF Readable
<1>2. start \in position..Len(content)
    BY <1>1, PastStops
<1> HIDE DEF start
<1>3. start \in 0..Len(content) /\ start \in Nat /\ position <= start /\ start <= Len(content)
    BY <1>1, <1>2
<1>4. end \in start..Len(content)
    BY <1>3, PastStops
\* What a reply gives behind the blanks.
<1>5. ASSUME NEW b \in {start, end}, b = start => EOF(start) \/ end = start,
             NEW value, NEW raised, raised = "none" => Between(start, b) = Literals[value],
             NEW r, r = Reply("enum", b, Between(start, b), value, raised)
      PROVE  Faithful(content, r) /\ r.from = position
    <2> DEFINE passed == Between(position, b)
               k == start - position
               given == Between(start, b)
    <2>1. /\ r.operation = "enum" /\ r.from = position /\ r.to = b /\ r.given = given
          /\ r.value = value /\ r.raised = raised /\ Passed(content, r) = passed
        BY <1>5, ReplyHas
    <2>2. b \in start..Len(content)
        BY <1>3, <1>4, <1>5
    <2>3. /\ k \in 0..Len(passed)
          /\ HasBehindBlanks(passed, k)
          /\ Behind(passed, k) = given
        BY <2>2, BlanksInFront DEF start
    <2>4. NotBefore(content, r, WordCharacters)
        <3>1. CASE b = end
            BY <1>3, <2>1, <3>1, NotBeforeIt
        <3>2. CASE b # end
            <4>1. r.to = Len(content)
                BY <1>5, <2>1, <3>2 DEF EOF
            <4> QED BY <1>1, <4>1 DEF NotBefore
        <3> QED BY <3>1, <3>2
    <2> HIDE DEF passed, k, given, end
    <2>5. GaveEnum(content, r)
        BY <1>5, <2>1, <2>3, <2>4 DEF GaveEnum, given
    <2>6. r.from \in 0..Len(content) /\ r.to \in r.from..Len(content) /\ r.operation = "enum"
        BY <1>1, <1>3, <2>1, <2>2
    <2>7. Faithful(content, r)
        BY <2>5, <2>6 DEF Faithful
    <2> QED BY <2>1, <2>7
<1>6. Ends(end) = end
    <2> HIDE DEF end
    <2>1. end \in Int
        BY <1>3, <1>4
    <2> QED BY <2>1, EndsWhere
<1>7. CASE EOF(start)
    <2>1. ReadEnum = Reply("enum", start, <<>>, 0, "END_ERROR")
        BY <1>7 DEF ReadEnum, start
    <2>2. Between(start, start) = <<>>
        <3>1. start \in start..Len(content) /\ start - start = 0
            BY <1>3
        <3>2. Between(start, start) \in Seq(Characters) /\ Len(Between(start, start)) = start - start
            BY <1>3, <3>1, Part
        <3> QED BY <3>1, <3>2, EmptySeq
    <2>3. "END_ERROR" # "none"
        OBVIOUS
    <2> HIDE DEF end
    <2>4. ReadEnum = Reply("enum", start, Between(start, start), 0, "END_ERROR")
        BY <2>1, <2>2
    <2> QED BY <1>5, <1>7, <2>3, <2>4
<1>8. CASE ~EOF(start) /\ named = {}
    <2>1. ReadEnum = Reply("enum", end, Between(start, end), 0, "DATA_ERROR")
        BY <1>6, <1>8 DEF ReadEnum, start
    <2>2. "DATA_ERROR" # "none"
        OBVIOUS
    <2> HIDE DEF end
    <2> QED BY <1>5, <2>1, <2>2
<1>9. CASE ~EOF(start) /\ named # {}
    <2> DEFINE value == CHOOSE i \in named : \A j \in named : i <= j
    <2>1. ReadEnum = Reply("enum", end, Between(start, end), value, "none")
        BY <1>6, <1>9 DEF ReadEnum, start
    <2>2. DOMAIN Literals \subseteq Nat
        BY DEF TextAssumption
    <2>3. named \in SUBSET Nat
        BY <2>2
    <2> HIDE DEF end
    <2>4. \E i \in named : \A j \in named : i <= j
        BY <1>9, <2>3, LeastNumber
    <2>5. value \in named
        BY <2>4
    <2>6. Between(start, end) = Literals[value]
        BY <2>5
    <2> HIDE DEF value
    <2> QED BY <1>5, <2>1, <2>6
<1> QED BY <1>7, <1>8, <1>9


Decimal(digits) == [i \in 1..Len(digits) |-> [n \in Nat |-> WithDigit(n, digits[i])]]

\* Digits make a number.
LEMMA DigitsMakeNumber ==
    ASSUME NEW digits \in Seq(Numeric)
    PROVE  NumberOf(digits) \in Nat
<1> DEFINE n == Len(digits)
           base == 0
           S == Nat
           F == Decimal(digits)
           Step(g, s) == IF s = {} THEN base ELSE WithDigit(g[s \ {Max(s)}], digits[Max(s)])
           h == CHOOSE g : g = [s \in SUBSET (DOMAIN digits) |-> Step(g, s)]
<1>1. n \in Nat /\ DOMAIN digits = 1..n /\ base \in S
    OBVIOUS
<1>2. \A x \in S : \A c \in Numeric : WithDigit(x, c) \in S
    <2> SUFFICES ASSUME NEW x \in Nat, NEW c \in Numeric  PROVE WithDigit(x, c) \in Nat
        OBVIOUS
    <2>1. \E d \in 1..10 : TextDigits[d] = c
        BY DEF Numeric
    <2>2. (CHOOSE d \in 1..10 : TextDigits[d] = c) \in 1..10
        BY <2>1
    <2>3. DigitNumber(c) \in Nat
        <3> DEFINE d == CHOOSE d \in 1..10 : TextDigits[d] = c
        <3>1. d \in 1..10 /\ DigitNumber(c) = d - 1
            BY <2>2 DEF DigitNumber
        <3> HIDE DEF d
        <3> QED BY <3>1
    <2> QED BY <2>3 DEF WithDigit
<1>3. F \in [1..n -> [S -> S]] /\ \A i \in 1..n : \A x \in S : F[i][x] = WithDigit(x, digits[i])
    <2>1. \A i \in 1..n : digits[i] \in Numeric
        BY ElementOfSeq
    <2> QED BY <1>2, <2>1 DEF Decimal
<1>4. NumberOf(digits) = h[DOMAIN digits]
    BY DEF NumberOf, FoldLeft, MapThenFoldSet
<1> HIDE DEF n, base, S, F, Step
<1>5. Folds(S, n, base, F)
    BY <1>1, <1>3 DEF Folds
<1>6. PICK g : IsFold(g, S, n, base, F)
    BY <1>5, FoldExists
<1>7. ASSUME NEW s \in SUBSET (1..n)  PROVE g[s] = Step(g, s)
    <2>1. CASE s = {}
        BY <1>6, <2>1 DEF IsFold, Step
    <2>2. CASE s # {}
        <3>1. g[s \ {Max(s)}] \in S
            BY <1>6 DEF IsFold
        <3> QED BY <1>3, <1>6, <2>2, <3>1 DEF IsFold, Step
    <2> QED BY <2>1, <2>2
<1>8. g = [s \in SUBSET (DOMAIN digits) |-> Step(g, s)]
    BY <1>1, <1>6, <1>7 DEF IsFold
<1>9. h = [s \in SUBSET (DOMAIN digits) |-> Step(h, s)]
    BY <1>8
<1> HIDE DEF h
<1>10. Recurs(h, S, n, base, F)
    BY <1>1, <1>3, <1>9 DEF Recurs, Step
<1>11. PICK run : Gathers(run, S, n, base, F) /\ run[n] = h[1..n]
    BY <1>5, <1>10, FoldSteps
<1>12. run[n] \in S
    BY <1>1, <1>11 DEF Gathers
<1> QED BY <1>1, <1>4, <1>11, <1>12 DEF S

LEMMA IntegerReads ==
    ASSUME Readable, TextAssumption
    PROVE  Faithful(content, ReadInteger) /\ ReadInteger.from = position
<1> DEFINE start == Past(position, Blanks)
           signed == ~EOF(start) /\ At(start) \in {"-", "+"}
           digits == IF signed THEN start + 1 ELSE start
           end == Past(digits, Numeric)
           magnitude == NumberOf(Between(digits, end))
           value == IF signed /\ At(start) = "-" THEN -magnitude ELSE magnitude
<1>1. position \in 0..Len(content) /\ position \in Nat /\ Len(content) \in Nat
    BY DEF Readable
<1>2. start \in position..Len(content)
    BY <1>1, PastStops
<1>3. start \in 0..Len(content) /\ start \in Nat /\ position <= start /\ start <= Len(content)
    <2> HIDE DEF start
    <2> QED BY <1>1, <1>2
<1>4. digits \in 0..Len(content) /\ start <= digits /\ digits <= start + 1 /\ digits \in Nat
    <2>1. EOF(start) <=> start = Len(content)
        BY DEF EOF
    <2> HIDE DEF start
    <2> QED BY <1>1, <1>3, <2>1
<1>5. end \in digits..Len(content) /\ \A i \in digits..(end - 1) : At(i) \in Numeric
    <2> HIDE DEF digits
    <2> QED BY <1>4, PastStops
<1>6. value \in Int
    <2> DEFINE text == Between(digits, end)
    <2> HIDE DEF digits, end
    <2>1. text \in Seq(Characters) /\ Len(text) = end - digits
          /\ \A i \in 1..(end - digits) : text[i] = At(digits + i - 1)
        BY <1>4, <1>5, Part
    <2>2. end \in Nat /\ digits <= end
        BY <1>1, <1>4, <1>5
    <2>3. \A i \in 1..(end - digits) : digits + i - 1 \in digits..(end - 1)
        BY <1>4, <2>2
    <2> HIDE DEF text
    <2>4. \A i \in 1..Len(text) : text[i] \in Numeric
        BY <1>5, <2>1, <2>3
    <2>5. text \in [1..Len(text) -> Numeric] /\ Len(text) \in Nat
        BY <2>1, <2>4
    <2>6. text \in Seq(Numeric)
        <3>1. text \in UNION {[1..n -> Numeric] : n \in Nat}
            BY <2>5
        <3>2. Seq(Numeric) = UNION {[1..n -> Numeric] : n \in Nat}
            BY SeqDef
        <3> QED BY <3>1, <3>2, Zenon
    <2>7. NumberOf(text) \in Nat
        BY <2>6, DigitsMakeNumber
    <2>8. magnitude \in Nat
        BY <2>7 DEF text
    <2> HIDE DEF magnitude, signed
    <2> QED BY <2>8
<1>7. ReadInteger =
          CASE end = digits -> Reply("integer", Ends(end), <<>>, 0, IF EOF(end) THEN "END_ERROR" ELSE "DATA_ERROR")
            [] end # digits /\ (value < First \/ value > Final) ->
                  Reply("integer", Ends(end), Between(start, end), value, "DATA_ERROR")
            [] OTHER -> Reply("integer", Ends(end), Between(start, end), value, "none")
    BY DEF ReadInteger
<1> HIDE DEF value, signed
<1>8. end \in start..Len(content) /\ end \in Nat /\ start <= end
    <2> HIDE DEF start, digits, end
    <2> QED BY <1>1, <1>3, <1>4, <1>5
<1>9. Ends(end) = end
    <2> HIDE DEF start, digits, end
    <2> QED BY <1>8, EndsWhere
<1> DEFINE passed == Between(position, end)
           k == start - position
<1>10. /\ k \in 0..Len(passed) /\ Len(passed) - k = end - start
       /\ HasBehindBlanks(passed, k)
       /\ Behind(passed, k) = Between(start, end)
    BY <1>8, BlanksInFront
<1>11. ASSUME NEW r, r.to = end  PROVE NotBefore(content, r, Numeric)
    <2> HIDE DEF digits
    <2> QED BY <1>4, <1>11, NotBeforeIt
<1> HIDE DEF passed, k, start, digits, end
<1>12. ASSUME NEW given, NEW number, NEW raised, NEW r, r = Reply("integer", end, given, number, raised),
              \/ given = <<>> /\ raised # "none" /\ end = digits
              \/ /\ given = Between(start, end) /\ end # digits
                 /\ (raised = "none") = (First <= number /\ number <= Final)
       PROVE  Faithful(content, r) /\ r.from = position
    <2>1. /\ r.operation = "integer" /\ r.from = position /\ r.to = end /\ r.given = given
          /\ r.value = number /\ r.raised = raised /\ Passed(content, r) = passed
        BY <1>12, ReplyHas DEF passed
    <2>2. GaveInteger(content, r)
        <3>1. CASE given = <<>> /\ raised # "none" /\ end = digits
            <4>1. Len(passed) - k <= 1
                BY <1>3, <1>4, <1>8, <1>10, <3>1
            <4> QED BY <1>10, <2>1, <3>1, <4>1 DEF GaveInteger
        <3>2. CASE /\ given = Between(start, end) /\ end # digits
                   /\ (raised = "none") = (First <= number /\ number <= Final)
            <4>1. Len(given) = end - start /\ given \in Seq(Characters)
                BY <1>3, <1>8, <3>2, Part
            <4>2. end - start # 0
                BY <1>3, <1>4, <1>5, <1>8, <3>2
            <4>3. given # <<>>
                BY <4>1, <4>2
            <4>4. NotBefore(content, r, Numeric)
                BY <1>11, <2>1
            <4> QED BY <1>10, <2>1, <3>2, <4>3, <4>4 DEF GaveInteger
        <3> QED BY <1>12, <3>1, <3>2
    <2>3. r.from \in 0..Len(content) /\ r.to \in r.from..Len(content) /\ r.operation = "integer"
        BY <1>1, <1>3, <1>8, <2>1
    <2>4. Faithful(content, r)
        BY <2>2, <2>3 DEF Faithful
    <2> QED BY <2>1, <2>4
<1>13. CASE end = digits
    <2> DEFINE raised == IF EOF(end) THEN "END_ERROR" ELSE "DATA_ERROR"
    <2>1. ReadInteger = Reply("integer", end, <<>>, 0, raised)
        BY <1>7, <1>9, <1>13
    <2>2. raised # "none"
        OBVIOUS
    <2> HIDE DEF raised
    <2> QED BY <1>12, <1>13, <2>1, <2>2
<1>14. CASE end # digits /\ (value < First \/ value > Final)
    <2>1. ReadInteger = Reply("integer", end, Between(start, end), value, "DATA_ERROR")
        BY <1>7, <1>9, <1>14
    <2>2. ("DATA_ERROR" = "none") = (First <= value /\ value <= Final)
        BY <1>6, <1>14 DEF TextAssumption
    <2> QED BY <1>12, <1>14, <2>1, <2>2
<1>15. CASE end # digits /\ ~(value < First \/ value > Final)
    <2>1. ReadInteger = Reply("integer", end, Between(start, end), value, "none")
        BY <1>7, <1>9, <1>15
    <2>2. ("none" = "none") = (First <= value /\ value <= Final)
        BY <1>6, <1>15 DEF TextAssumption
    <2> QED BY <1>12, <1>15, <2>1, <2>2
<1> QED BY <1>13, <1>14, <1>15


-----------------------------------------------------------------------------
(* Lines that are skipped. *)

LineEndsUpTo(x) == {i \in position..(x - 1) : At(i) = EndOfLine}
NextLine(x) ==
    LET end == UpTo(x, {EndOfLine}) IN IF EOF(end) THEN end ELSE FGetC(end)

\* The next line is behind one line end more, or there was none.
LEMMA NextLineIs ==
    ASSUME Readable, NEW x \in position..Len(content)
    PROVE  /\ NextLine(x) \in x..Len(content)
           /\ \/ NextLine(x) = Len(content) /\ LineEndsUpTo(NextLine(x)) = LineEndsUpTo(x)
              \/ /\ x < NextLine(x) /\ At(NextLine(x) - 1) = EndOfLine
                 /\ NextLine(x) - 1 \notin LineEndsUpTo(x)
                 /\ LineEndsUpTo(NextLine(x)) = LineEndsUpTo(x) \cup {NextLine(x) - 1}
<1> DEFINE end == UpTo(x, {EndOfLine})
<1>1. /\ Len(content) \in Nat /\ position \in Nat /\ x \in Nat /\ position <= x /\ x <= Len(content)
      /\ x \in 0..Len(content)
    BY DEF Readable
<1>2. /\ end \in x..Len(content)
      /\ \A i \in x..(end - 1) : At(i) \notin {EndOfLine}
      /\ EOF(end) \/ At(end) \in {EndOfLine}
    BY <1>1, UpToStops
<1>3. NextLine(x) = IF EOF(end) THEN end ELSE end + 1
    BY DEF NextLine, FGetC
<1> HIDE DEF end
<1>4. end \in Nat /\ x <= end /\ end <= Len(content)
    BY <1>1, <1>2
<1>5. LineEndsUpTo(end) = LineEndsUpTo(x)
    <2>1. ASSUME NEW i \in position..(end - 1), At(i) = EndOfLine  PROVE i \in position..(x - 1)
        <3>1. i \notin x..(end - 1)
            BY <1>2, <2>1
        <3> QED BY <1>1, <1>4, <3>1
    <2>2. \A i \in position..(x - 1) : i \in position..(end - 1)
        BY <1>1, <1>4
    <2> QED BY <2>1, <2>2 DEF LineEndsUpTo
<1>6. CASE EOF(end)
    <2>1. NextLine(x) = end /\ end = Len(content)
        BY <1>3, <1>6 DEF EOF
    <2> QED BY <1>2, <1>5, <2>1
<1>7. CASE ~EOF(end)
    <2>1. NextLine(x) = end + 1 /\ At(end) = EndOfLine
        BY <1>2, <1>3, <1>7
    <2>2. end # Len(content)
        BY <1>7 DEF EOF
    <2>3. end + 1 \in x..Len(content) /\ x < end + 1 /\ end + 1 - 1 = end /\ end \notin position..(x - 1)
        BY <1>1, <1>4, <2>2
    <2>4. \A i : i \in position..(end + 1 - 1) <=> i \in position..(end - 1) \/ i = end
        BY <1>1, <1>4
    <2>5. LineEndsUpTo(end + 1) = LineEndsUpTo(end) \cup {end}
        BY <2>1, <2>4 DEF LineEndsUpTo
    <2>6. end \notin LineEndsUpTo(x)
        BY <2>3 DEF LineEndsUpTo
    <2> DEFINE y == NextLine(x)
    <2>7. y = end + 1 /\ y - 1 = end
        BY <1>4, <2>1
    <2> HIDE DEF y
    <2>8. /\ y \in x..Len(content) /\ x < y /\ At(y - 1) = EndOfLine /\ y - 1 \notin LineEndsUpTo(x)
          /\ LineEndsUpTo(y) = LineEndsUpTo(x) \cup {y - 1}
        BY <1>5, <2>1, <2>3, <2>5, <2>6, <2>7
    <2> QED BY <2>8 DEF y
<1> QED BY <1>6, <1>7

\* There are as many line ends in a part as there are places of them.
LEMMA EndsCounted ==
    ASSUME Readable, NEW x \in position..Len(content)
    PROVE  /\ IsFiniteSet(LineEndsUpTo(x))
           /\ Cardinality(LineEnds(Between(position, x))) = Cardinality(LineEndsUpTo(x))
<1> DEFINE S == LineEndsUpTo(x)
           T == {i \in 1..(x - position) : At(position + i - 1) = EndOfLine}
           f == [i \in S |-> i - position + 1]
<1>1. /\ Len(content) \in Nat /\ position \in Nat /\ x \in Nat /\ position <= x /\ x <= Len(content)
      /\ position \in 0..Len(content)
    BY DEF Readable
<1>2. LineEnds(Between(position, x)) = T
    BY <1>1, EndsIn
<1>3. S \in SUBSET (position..(x - 1)) /\ \A i \in S : At(i) = EndOfLine
    BY DEF LineEndsUpTo
<1>4. \A i \in position..(x - 1) : At(i) = EndOfLine => i \in S
    BY DEF LineEndsUpTo
<1>5. IsFiniteSet(S)
    <2>1. position \in Int /\ x - 1 \in Int
        BY <1>1
    <2>2. IsFiniteSet(position..(x - 1))
        BY <2>1, FS_Interval
    <2> QED BY <1>3, <2>2, FS_Subset
<1> HIDE DEF S
<1>6. f \in [S -> T]
    <2>1. ASSUME NEW i \in S  PROVE i - position + 1 \in T
        <3>1. i \in position..(x - 1) /\ At(i) = EndOfLine
            BY <1>3
        <3>2. i - position + 1 \in 1..(x - position) /\ position + (i - position + 1) - 1 = i
            BY <1>1, <3>1
        <3> QED BY <3>1, <3>2
    <2> HIDE DEF T
    <2> QED BY <2>1
<1>7. \A a, b \in S : f[a] = f[b] => a = b
    BY <1>1, <1>3
<1>8. ASSUME NEW t \in T  PROVE \E i \in S : f[i] = t
    <2>1. t \in 1..(x - position) /\ At(position + t - 1) = EndOfLine
        OBVIOUS
    <2>2. position + t - 1 \in position..(x - 1) /\ position + t - 1 - position + 1 = t
        BY <1>1, <2>1
    <2>3. position + t - 1 \in S
        BY <1>4, <2>1, <2>2
    <2> DEFINE i == position + t - 1
    <2>4. i \in S /\ i - position + 1 = t
        BY <1>1, <2>1, <2>3
    <2> HIDE DEF i
    <2>5. f[i] = t
        BY <2>4
    <2> HIDE DEF f
    <2> QED BY <2>4, <2>5
<1> HIDE DEF T, f
<1>9. f \in Bijection(S, T)
    BY <1>6, <1>7, <1>8, Fun_IsBij
<1>10. ExistsBijection(S, T)
    BY <1>9, Fun_ExistsBij
<1>11. Cardinality(T) = Cardinality(S)
    BY <1>5, <1>10, FS_Bijection
<1> QED BY <1>2, <1>5, <1>11 DEF S

LEMMA SkipReads ==
    ASSUME Readable, NEW spacing \in Nat \ {0}
    PROVE  Faithful(content, SkipLines(spacing)) /\ SkipLines(spacing).from = position
<1> DEFINE after == CHOOSE f : f = [n \in 0..spacing |-> IF n = 0 THEN position ELSE NextLine(f[n - 1])]
           terminators == {i \in position..(after[spacing] - 1) : At(i) = EndOfLine}
           raised == IF Cardinality(terminators) < spacing THEN "END_ERROR" ELSE "none"
           S == position..Len(content)
<1>1. /\ Len(content) \in Nat /\ position \in Nat /\ position <= Len(content)
      /\ position \in 0..Len(content) /\ position \in S
    BY DEF Readable
<1>2. SkipLines(spacing) = Reply("skip", after[spacing], <<>>, spacing, raised)
    BY DEF SkipLines, NextLine
<1>3. \A x \in S : NextLine(x) \in S
    <2> SUFFICES ASSUME NEW x \in S  PROVE NextLine(x) \in S
        OBVIOUS
    <2>1. NextLine(x) \in x..Len(content)
        BY NextLineIs
    <2> QED BY <1>1, <2>1
<1>4. after = [n \in 0..spacing |-> IF n = 0 THEN position ELSE NextLine(after[n - 1])]
    <2> DEFINE F == [k \in 1..spacing |-> [x \in S |-> NextLine(x)]]
    <2>1. F \in [1..spacing -> [S -> S]] /\ \A k \in 1..spacing : \A x \in S : F[k][x] = NextLine(x)
        BY <1>3
    <2> HIDE DEF F, S
    <2>2. PICK run : Gathers(run, S, spacing, position, F)
        BY <1>1, <2>1, GathersExists DEF Folds
    <2>3. \A n \in 0..spacing : n # 0 => n \in 1..spacing /\ n - 1 \in 0..spacing
        OBVIOUS
    <2>4. \A n \in 0..spacing : run[n] = IF n = 0 THEN position ELSE NextLine(run[n - 1])
        BY <2>1, <2>2, <2>3 DEF Gathers
    <2>5. run = [n \in 0..spacing |-> IF n = 0 THEN position ELSE NextLine(run[n - 1])]
        BY <2>2, <2>4 DEF Gathers
    <2> QED BY <2>5
<1> HIDE DEF after
<1>5. after[0] = position /\ \A k \in 1..spacing : after[k] = NextLine(after[k - 1])
    <2>1. 0 \in 0..spacing /\ \A k \in 1..spacing : k \in 0..spacing /\ k # 0
        OBVIOUS
    <2> QED BY <1>4, <2>1
<1> DEFINE Ended(k) == LineEndsUpTo(after[k])
           Good(k) == /\ after[k] \in S
                      /\ Cardinality(Ended(k)) \in 0..k
                      /\ Cardinality(Ended(k)) < k => after[k] = Len(content)
                      /\ (Cardinality(Ended(k)) = k /\ k # 0) =>
                            position < after[k] /\ At(after[k] - 1) = EndOfLine
           G == {k \in 0..spacing : Good(k)}
<1>6. 0 \in G
    <2>1. LineEndsUpTo(position) = {}
        BY <1>1 DEF LineEndsUpTo
    <2>2. Cardinality(Ended(0)) = 0
        BY <1>5, <2>1, FS_EmptySet
    <2>3. 0 \in 0..spacing /\ after[0] \in S
        BY <1>1, <1>5
    <2> QED BY <2>2, <2>3
<1>7. ASSUME NEW k \in 1..spacing, k - 1 \in G  PROVE k \in G
    <2> DEFINE x == after[k - 1]
               c == Cardinality(Ended(k - 1))
    <2>1. x \in S /\ c \in 0..(k - 1) /\ (c < k - 1 => x = Len(content)) /\ after[k] = NextLine(x)
        BY <1>5, <1>7
    <2> HIDE DEF x
    <2>2. /\ NextLine(x) \in x..Len(content)
          /\ \/ NextLine(x) = Len(content) /\ LineEndsUpTo(NextLine(x)) = LineEndsUpTo(x)
             \/ /\ x < NextLine(x) /\ At(NextLine(x) - 1) = EndOfLine
                /\ NextLine(x) - 1 \notin LineEndsUpTo(x)
                /\ LineEndsUpTo(NextLine(x)) = LineEndsUpTo(x) \cup {NextLine(x) - 1}
        BY <2>1, NextLineIs
    <2>3. IsFiniteSet(LineEndsUpTo(x)) /\ c = Cardinality(LineEndsUpTo(x))
        BY <2>1, EndsCounted DEF x
    <2>4. k \in 0..spacing /\ after[k] \in S
        BY <1>1, <2>1, <2>2
    <2> HIDE DEF c, S
    <2>5. CASE NextLine(x) = Len(content) /\ LineEndsUpTo(NextLine(x)) = LineEndsUpTo(x)
        <3>1. Cardinality(Ended(k)) = c /\ after[k] = Len(content)
            BY <2>1, <2>3, <2>5
        <3>2. Good(k)
            BY <2>1, <2>4, <3>1
        <3> QED BY <2>4, <3>2
    <2>6. CASE /\ x < NextLine(x) /\ At(NextLine(x) - 1) = EndOfLine
               /\ NextLine(x) - 1 \notin LineEndsUpTo(x)
               /\ LineEndsUpTo(NextLine(x)) = LineEndsUpTo(x) \cup {NextLine(x) - 1}
        <3>1. Cardinality(LineEndsUpTo(NextLine(x))) = c + 1
            BY <2>3, <2>6, FS_AddElement
        <3>2. x \in Nat /\ position <= x /\ NextLine(x) \in Nat /\ NextLine(x) <= Len(content)
            BY <1>1, <2>1, <2>2 DEF S
        <3>3. c = k - 1
            BY <1>1, <2>1, <2>6, <3>2
        <3>4. Cardinality(Ended(k)) = k
            BY <2>1, <3>1, <3>3
        <3>5. position < after[k] /\ At(after[k] - 1) = EndOfLine
            BY <1>1, <2>1, <2>6, <3>2
        <3>6. Good(k)
            BY <2>4, <3>4, <3>5
        <3> QED BY <2>4, <3>6
    <2> QED BY <2>2, <2>5, <2>6
<1> HIDE DEF G
<1>8. \A k \in 0..spacing : k \in G
    BY <1>6, <1>7, Upwards
<1>9. Good(spacing)
    <2>1. spacing \in 0..spacing
        OBVIOUS
    <2> QED BY <1>8, <2>1 DEF G
<1> DEFINE to == after[spacing]
           passed == Between(position, to)
           r == Reply("skip", to, <<>>, spacing, raised)
<1>10. /\ r.operation = "skip" /\ r.from = position /\ r.to = to /\ r.value = spacing
       /\ r.raised = raised /\ Passed(content, r) = passed
    BY ReplyHas
<1>11. SkipLines(spacing) = r
    BY <1>2
<1>12. terminators = LineEndsUpTo(to)
    BY DEF LineEndsUpTo
<1> HIDE DEF r, terminators
<1>13. to \in position..Len(content) /\ Cardinality(LineEnds(passed)) = Cardinality(LineEndsUpTo(to))
    BY <1>9, EndsCounted
<1>14. SkippedLines(content, r)
    <2> DEFINE c == Cardinality(LineEnds(passed))
    <2>1. c = Cardinality(Ended(spacing)) /\ c = Cardinality(terminators)
        BY <1>12, <1>13
    <2>2. /\ c \in 0..spacing /\ (c < spacing => to = Len(content))
          /\ c = spacing => position < to /\ At(to - 1) = EndOfLine
        BY <1>9, <2>1
    <2>3. raised = IF c < spacing THEN "END_ERROR" ELSE "none"
        BY <2>1
    <2>4. /\ Len(passed) = to - position
          /\ \A i \in 1..(to - position) : passed[i] = At(position + i - 1)
        BY <1>1, <1>13, Part
    <2> HIDE DEF c, raised, to, passed
    <2>5. CASE c < spacing
        <3>1. raised # "none" /\ to = Len(content)
            BY <2>2, <2>3, <2>5
        <3> QED BY <1>10, <2>5, <3>1 DEF SkippedLines, c
    <2>6. CASE ~(c < spacing)
        <3>1. raised = "none" /\ c = spacing
            BY <2>2, <2>3, <2>6
        <3>2. to - position \in 1..(to - position) /\ position + (to - position) - 1 = to - 1
            BY <1>1, <1>13, <2>2, <3>1
        <3>3. passed[Len(passed)] = EndOfLine
            BY <2>2, <2>4, <3>1, <3>2
        <3> QED BY <1>10, <3>1, <3>3 DEF SkippedLines, c
    <2> QED BY <2>5, <2>6
<1>15. r.from \in 0..Len(content) /\ r.to \in r.from..Len(content) /\ r.operation = "skip"
    BY <1>1, <1>10, <1>13
<1>16. Faithful(content, r)
    BY <1>14, <1>15 DEF Faithful
<1> QED BY <1>10, <1>11, <1>16


-----------------------------------------------------------------------------
(* Numbers that are written. *)

\* A number is written in characters.
LEMMA DigitsAre ==
    ASSUME NEW value \in Nat, NEW base \in 2..10
    PROVE  DigitsInBase(value, base) \in Seq(Characters)
<1> DEFINE S == Seq(Characters)
           Lowest(n) == <<TextDigits[n + 1]>>
           Longer(x, n) == Append(x, TextDigits[(n % base) + 1])
           digits == CHOOSE f : f = [n \in Nat |-> IF n < base THEN Lowest(n) ELSE Longer(f[n \div base], n)]
           Bottom == [n \in 0..(base - 1) |-> Lowest(n)]
           Step == [n \in Nat |-> [x \in S |-> Longer(x, n)]]
           Down == [n \in Nat |-> n \div base]
<1>1. DigitsInBase(value, base) = digits[value]
    BY DEF DigitsInBase
<1>2. base \in Nat /\ base >= 2 /\ base <= 10
    OBVIOUS
<1>3. \A i \in 1..10 : TextDigits[i] \in Characters
    BY CharacterFacts DEF Numeric
<1>4. \A n \in 0..(base - 1) : Lowest(n) \in S
    <2>1. \A n \in 0..(base - 1) : n + 1 \in 1..10
        BY <1>2
    <2> QED BY <1>3, <2>1
<1>5. \A n \in Nat : \A x \in S : Longer(x, n) \in S
    <2>1. \A n \in Nat : (n % base) + 1 \in 1..10
        BY <1>2
    <2> QED BY <1>3, <2>1
<1>6. \A n \in Nat : n \div base \in Nat /\ (n >= base => n \div base < n)
    BY <1>2, Z3
<1> HIDE DEF S, Lowest, Longer
<1>7. Bottom \in [0..(base - 1) -> S] /\ Step \in [Nat -> [S -> S]]
    BY <1>4, <1>5
<1>8. Down \in [Nat -> Nat] /\ \A n \in Nat : n >= base => Down[n] < n
    BY <1>6
<1>9. Descends(S, base, Bottom, Step, Down)
    BY <1>2, <1>7, <1>8 DEF Descends
<1>10. PICK d \in [Nat -> S] : \A n \in Nat : Descent(d, n, base, Bottom, Step, Down)
    BY <1>9, DescentExists
<1>11. ASSUME NEW n \in Nat  PROVE d[n] = IF n < base THEN Lowest(n) ELSE Longer(d[n \div base], n)
    <2>1. d[n] = IF n < base THEN Bottom[n] ELSE Step[n][d[Down[n]]]
        BY <1>10 DEF Descent
    <2>2. d[n \div base] \in S
        BY <1>6
    <2>3. n < base => n \in 0..(base - 1)
        BY <1>2
    <2> QED BY <2>1, <2>2, <2>3
<1>12. d = [n \in Nat |-> IF n < base THEN Lowest(n) ELSE Longer(d[n \div base], n)]
    BY <1>11
<1>13. digits = [n \in Nat |-> IF n < base THEN Lowest(n) ELSE Longer(digits[n \div base], n)]
    BY <1>12
<1> HIDE DEF digits
<1> DEFINE bad == {n \in Nat : digits[n] \notin S}
<1>14. bad = {}
    <2> SUFFICES ASSUME bad # {}  PROVE FALSE
        OBVIOUS
    <2>1. bad \in SUBSET Nat
        OBVIOUS
    <2> HIDE DEF bad
    <2>2. PICK n \in bad : \A other \in bad : n <= other
        BY <2>1, LeastNumber
    <2>3. n \in Nat /\ digits[n] \notin S
        BY DEF bad
    <2>4. digits[n] = IF n < base THEN Lowest(n) ELSE Longer(digits[n \div base], n)
        BY <1>13, <2>3
    <2>5. ~(n < base)
        <3>1. n < base => n \in 0..(base - 1)
            BY <1>2, <2>3
        <3> QED BY <1>4, <2>3, <2>4, <3>1
    <2>6. n \div base \in Nat /\ n \div base < n
        BY <1>2, <1>6, <2>3, <2>5
    <2>7. n \div base \notin bad
        BY <2>2, <2>3, <2>6
    <2>8. digits[n \div base] \in S
        BY <2>6, <2>7 DEF bad
    <2> QED BY <1>5, <2>3, <2>4, <2>5, <2>8
<1> QED BY <1>1, <1>14 DEF S

LEMMA WrittenIs ==
    ASSUME NEW value \in Int, NEW width \in Nat, NEW base \in 2..10
    PROVE  WriteInteger(value, width, base) \in Seq(Characters)
<1> DEFINE sign == IF value < 0 THEN <<"-">> ELSE <<>>
           digits == DigitsInBase(IF value < 0 THEN -value ELSE value, base)
           text == IF base = 10 THEN sign \o digits
                   ELSE sign \o DigitsInBase(base, 10) \o <<"#">> \o digits \o <<"#">>
<1>1. sign \in Seq(Characters) /\ <<"#">> \in Seq(Characters)
    BY CharacterFacts
<1>2. digits \in Seq(Characters)
    <2> DEFINE magnitude == IF value < 0 THEN -value ELSE value
    <2>1. magnitude \in Nat
        OBVIOUS
    <2> HIDE DEF magnitude
    <2> QED BY <2>1, DigitsAre DEF magnitude
<1>3. DigitsInBase(base, 10) \in Seq(Characters)
    <2>1. base \in Nat /\ 10 \in 2..10
        OBVIOUS
    <2> QED BY <2>1, DigitsAre
<1>4. WriteInteger(value, width, base) = Padded(text, width)
    BY DEF WriteInteger
<1> HIDE DEF sign, digits
<1>5. text \in Seq(Characters)
    BY <1>1, <1>2, <1>3
<1> HIDE DEF text
<1>6. Padded(text, width) \in Seq(Characters)
    <2> DEFINE missing == IF Len(text) < width THEN width - Len(text) ELSE 0
               blanks == [i \in 1..missing |-> Space]
    <2>1. Len(text) \in Nat
        BY <1>5
    <2>2. missing \in Nat
        BY <2>1
    <2> HIDE DEF missing
    <2>3. blanks \in [1..missing -> Characters]
        BY CharacterFacts
    <2>4. blanks \in Seq(Characters)
        <3>1. blanks \in UNION {[1..n -> Characters] : n \in Nat}
            BY <2>2, <2>3
        <3>2. Seq(Characters) = UNION {[1..n -> Characters] : n \in Nat}
            BY SeqDef
        <3> QED BY <3>1, <3>2, Zenon
    <2> HIDE DEF blanks
    <2>5. Padded(text, width) = blanks \o text
        BY DEF Padded, missing, blanks
    <2> QED BY <1>5, <2>4, <2>5
<1> QED BY <1>4, <1>6

-----------------------------------------------------------------------------
(* The invariant. *)

\* Everything a reading operation may answer is true to the file.
LEMMA ReadingKeeps ==
    ASSUME TextAssumption, TextInv, Reading
    PROVE  TextInv'
<1>1. Readable
    BY DEF Readable, TextInv
<1>2. Faithful(content, reply') /\ reply'.from = position
    <2>1. CASE reply' \in {ReadCharacter, AtEndOfLine, AtEndOfFile, ReadInteger, ReadEnum}
        BY <1>1, <2>1, GetReads, AskReads, IntegerReads, EnumReads
    <2>2. CASE \E n \in Room : reply' = ReadLine(n) \/ reply' = ReadWord(n)
        <3>1. PICK n \in Nat : reply' = ReadLine(n) \/ reply' = ReadWord(n)
            BY <2>2 DEF TextAssumption
        <3> QED BY <1>1, <3>1, LineReads, WordReads
    <2>3. CASE \E n \in Spacings : reply' = SkipLines(n)
        <3>1. PICK n \in Nat \ {0} : reply' = SkipLines(n)
            BY <2>3 DEF TextAssumption
        <3> QED BY <1>1, <3>1, SkipReads
    <2> QED BY <2>1, <2>2, <2>3 DEF Reading
<1>3. /\ mode = "in" /\ mode' = "in" /\ position' = reply'.to
      /\ content' = content /\ lines' = lines
    BY DEF Reading
<1>4. position' \in 0..Len(content)
    BY <1>1, <1>2, <1>3 DEF Faithful, Readable
<1>5. TextNothingLost'
    BY <1>2, <1>3 DEF TextInv, TextNothingLost
<1> QED BY <1>3, <1>4, <1>5 DEF TextInv

\* More on the line the program is in, or a line more.
LEMMA WritingKeeps ==
    ASSUME TextInv, NEW text \in Seq(Characters),
           mode = "out", mode' = "out", position' = position, reply' = reply,
           \/ content' = content \o text /\ lines' = [lines EXCEPT ![Len(lines)] = @ \o text]
           \/ content' = content \o <<EndOfLine>> /\ lines' = Append(lines, <<>>) /\ text = <<>>
           \/ /\ content' = content \o Append(text, EndOfLine)
              /\ lines' = Append([lines EXCEPT ![Len(lines)] = @ \o text], <<>>)
    PROVE  TextInv'
<1> DEFINE S == Seq(Characters)
           e == <<EndOfLine>>
           grown == [lines EXCEPT ![Len(lines)] = @ \o text]
<1>1. /\ content \in S /\ lines \in Seq(S) /\ lines # <<>> /\ e \o content = AllLines(lines)
      /\ position = 0 /\ reply.operation = "none" /\ reply.from = 0 /\ reply.to = position
    BY DEF TextInv, TextNothingLost
<1>2. e \in S /\ <<>> \in S
    BY CharacterFacts
<1>3. grown \in Seq(S) /\ grown # <<>> /\ AllLines(grown) = AllLines(lines) \o text
    BY <1>1, LinesGrow
<1> HIDE DEF grown
<1>4. \A a \in S, b \in S, c \in S : (a \o b) \o c = a \o (b \o c)
    BY Regrouped
<1>5. \A a \in S, b \in S : a \o b \in S
    OBVIOUS
<1>6. ASSUME NEW l \in Seq(S)
      PROVE  /\ Append(l, <<>>) \in Seq(S) /\ Append(l, <<>>) # <<>>
             /\ AllLines(Append(l, <<>>)) = AllLines(l) \o e /\ AllLines(l) \in S
    <2>1. /\ AllLines(l) \in S /\ Append(l, <<>>) \in Seq(S)
          /\ AllLines(Append(l, <<>>)) = Joined(AllLines(l), <<>>)
        BY <1>2, LinesGrow
    <2>2. Joined(AllLines(l), <<>>) = AllLines(l) \o e
        <3>1. AllLines(l) \o e \in S
            BY <1>2, <1>5, <2>1
        <3>2. (AllLines(l) \o e) \o <<>> = AllLines(l) \o e
            BY <3>1, ConcatEmptySeq
        <3> QED BY <3>2 DEF Joined
    <2>3. Append(l, <<>>) # <<>>
        <3>1. Len(Append(l, <<>>)) = Len(l) + 1 /\ Len(l) \in Nat /\ Len(<<>>) = 0
            OBVIOUS
        <3> QED BY <3>1
    <2> QED BY <2>1, <2>2, <2>3
<1>7. Append(text, EndOfLine) = text \o e
    BY CharacterFacts, AppendIsConcat
<1>12. text \in S
    OBVIOUS
<1> HIDE DEF S, e
<1>8. /\ content' \in S /\ lines' \in Seq(S) /\ lines' # <<>>
      /\ e \o content' = AllLines(lines')
    <2>1. CASE content' = content \o text /\ lines' = grown
        <3>1. e \o (content \o text) = (e \o content) \o text
            BY <1>1, <1>2, <1>4, <1>12, Zenon
        <3>2. content \o text \in S
            BY <1>1, <1>5, <1>12, Zenon
        <3> QED BY <1>1, <1>3, <2>1, <3>1, <3>2
    <2>2. CASE content' = content \o e /\ lines' = Append(lines, <<>>)
        <3>1. e \o (content \o e) = (e \o content) \o e /\ content \o e \in S
            BY <1>1, <1>2, <1>4, <1>5
        <3> QED BY <1>1, <1>6, <2>2, <3>1
    <2>3. CASE content' = content \o (text \o e) /\ lines' = Append(grown, <<>>)
        <3>1. text \in S /\ text \o e \in S /\ content \o text \in S
            BY <1>1, <1>2, <1>5, <1>12
        <3>2. content \o (text \o e) \in S
            BY <1>1, <1>5, <3>1, Zenon
        <3>3. content \o (text \o e) = (content \o text) \o e
            BY <1>1, <1>2, <1>4, <3>1, Zenon
        <3>4. e \o ((content \o text) \o e) = (e \o (content \o text)) \o e
            BY <1>2, <1>4, <3>1, Zenon
        <3>5. e \o (content \o text) = (e \o content) \o text
            BY <1>1, <1>2, <1>4, <3>1, Zenon
        <3>6. e \o (content \o (text \o e)) = ((e \o content) \o text) \o e
            BY <3>3, <3>4, <3>5, Zenon
        <3>7. /\ Append(grown, <<>>) \in Seq(S) /\ Append(grown, <<>>) # <<>>
              /\ AllLines(Append(grown, <<>>)) = AllLines(grown) \o e
            BY <1>3, <1>6
        <3>8. AllLines(Append(grown, <<>>)) = ((e \o content) \o text) \o e
            BY <1>1, <1>3, <3>7
        <3> QED BY <2>3, <3>2, <3>6, <3>7, <3>8
    <2> QED BY <1>7, <2>1, <2>2, <2>3 DEF grown, e
<1>9. Len(content') \in Nat
    BY <1>8 DEF S
<1>10. Faithful(content', reply')
    BY <1>1, <1>9 DEF Faithful
<1>11. TextNothingLost'
    BY <1>1, <1>8, <1>10 DEF TextNothingLost, e
<1> QED BY <1>1, <1>8, <1>9, <1>11 DEF TextInv, S

LEMMA TextStarts == TextInit => TextInv
<1> SUFFICES ASSUME TextInit  PROVE TextInv
    OBVIOUS
<1> DEFINE S == Seq(Characters)
<1>1. <<>> \in S /\ <<>> \in Seq(S) /\ <<EndOfLine>> \in S
    BY CharacterFacts
<1>2. AllLines(<<>>) = <<>>
    <2>1. PICK run : Gathers(run, S, Len(<<>>), <<>>, Joins(<<>>)) /\ AllLines(<<>>) = run[Len(<<>>)]
        BY <1>1, JoinedFold
    <2>2. Len(<<>>) = 0
        OBVIOUS
    <2> QED BY <2>1, <2>2 DEF Gathers
<1>3. <<<<>>>> = Append(<<>>, <<>>) /\ <<<<>>>> # <<>>
    OBVIOUS
<1>4. <<<<>>>> \in Seq(S) /\ AllLines(<<<<>>>>) = Joined(<<>>, <<>>)
    BY <1>1, <1>2, <1>3, LinesGrow
<1>5. Joined(<<>>, <<>>) = <<EndOfLine>> /\ <<EndOfLine>> \o <<>> = <<EndOfLine>>
    BY <1>1, ConcatEmptySeq DEF Joined
<1>6. Len(<<>>) = 0
    OBVIOUS
<1>7. Faithful(content, reply)
    BY <1>6 DEF TextInit, Faithful
<1>8. TextNothingLost
    BY <1>4, <1>5, <1>7 DEF TextInit, TextNothingLost
<1> QED BY <1>1, <1>3, <1>4, <1>6, <1>8 DEF TextInit, TextInv

LEMMA TextKeeps ==
    ASSUME TextAssumption, TextInv, [TextNext]_textVars
    PROVE  TextInv'
<1>1. ASSUME NEW item \in Items, PutText(item)  PROVE TextInv'
    <2>1. item \in Seq(Characters)
        BY DEF TextAssumption
    <2> QED BY <1>1, <2>1, WritingKeeps DEF PutText, Writing
<1>2. ASSUME NEW item \in Items, PutLine(item)  PROVE TextInv'
    <2>1. item \in Seq(Characters)
        BY DEF TextAssumption
    <2> QED BY <1>2, <2>1, WritingKeeps DEF PutLine, Writing
<1>3. CASE NewLine
    <2>1. <<>> \in Seq(Characters)
        OBVIOUS
    <2> QED BY <1>3, <2>1, WritingKeeps DEF NewLine, Writing
<1>4. ASSUME NEW number \in Numbers, PutInteger(number)  PROVE TextInv'
    <2> DEFINE text == WriteInteger(number.value, number.width, number.base)
    <2>1. number.value \in Int /\ number.width \in Nat /\ number.base \in 2..10
        BY DEF TextAssumption
    <2>2. text \in Seq(Characters)
        BY <2>1, WrittenIs
    <2>3. Writing(text) /\ lines' = [lines EXCEPT ![Len(lines)] = @ \o text]
        BY <1>4 DEF PutInteger
    <2> HIDE DEF text
    <2> QED BY <2>2, <2>3, WritingKeeps DEF Writing
<1>5. CASE ResetToRead
    <2>1. /\ mode' = "in" /\ position' = 0 /\ position = 0
          /\ content' = content /\ lines' = lines /\ reply' = reply
        BY <1>5 DEF ResetToRead, TextInv
    <2> QED BY <2>1 DEF TextInv, TextNothingLost
<1>6. CASE Reading
    BY <1>6, ReadingKeeps
<1>7. CASE UNCHANGED textVars
    BY <1>7 DEF textVars, TextInv, TextNothingLost
<1> QED BY <1>1, <1>2, <1>3, <1>4, <1>5, <1>6, <1>7 DEF TextNext

\* What is written and read of a file of any length, with any items, numbers and
\* strings, is in order between any two operations.
THEOREM TextInvHolds == TextSpec => []TextInv
<1>1. TextInit => TextInv
    BY TextStarts
<1>2. TextInv /\ [TextNext]_textVars => TextInv'
    BY TextAssumption, TextKeeps
<1> QED BY <1>1, <1>2, PTL DEF TextSpec

\* Text_IO loses nothing of what was written, invents nothing and reads nothing
\* twice, whatever is written and however it is read.
THEOREM TextIsKept == TextSpec => []TextNothingLost
<1>1. TextInv => TextNothingLost
    BY DEF TextInv
<1> QED BY <1>1, TextInvHolds, PTL

=============================================================================
