--------------------------- MODULE FilePoolProofs ---------------------------
(***************************************************************************)
(* The invariants of FilePool for a pool of any size, any number of        *)
(* File_Type objects and external files.                                   *)
(***************************************************************************)
EXTENDS FilePool, WellFoundedInduction, TLAPS

(* takeFreeEntry finds an entry whenever one is free. *)
LEMMA LeastEntry ==
  ASSUME NEW S \in SUBSET Pool, S # {}
  PROVE  \E e \in S : \A other \in S : e <= other
<1> DEFINE R == { p \in Nat \X Nat : p[1] < p[2] }
<1>1. IsWellFoundedOn(R, Nat)
  BY NatLessThanWellFounded DEF OpToRel
<1>2. S \subseteq Nat
  BY FilePoolAssumption DEF Pool
<1>3. \A x, y \in Nat : << x, y >> \in R <=> x < y
  OBVIOUS
<1> HIDE DEF R
<1>4. PICK e \in S : \A other \in S : ~(<< other, e >> \in R)
  BY <1>1, <1>2, WFMin
<1>5. \A other \in S : ~(other < e)
  BY <1>2, <1>3, <1>4
<1>6. \A other \in S : e <= other
  BY <1>2, <1>5
<1> QED
  BY <1>6

(* The entry taken is one of the pool, and free. *)
LEMMA TakeFreeEntryLemma ==
  ASSUME FreeEntries # {}
  PROVE  TakeFreeEntry \in Pool /\ ~file[TakeFreeEntry].isOpen
<1>1. FreeEntries \in SUBSET Pool
  BY DEF FreeEntries
<1>2. \E e \in FreeEntries : \A other \in FreeEntries : e <= other
  BY <1>1, LeastEntry
<1>3. TakeFreeEntry \in FreeEntries
  BY <1>2 DEF TakeFreeEntry
<1> QED
  BY <1>3 DEF FreeEntries

(* The entries, and the numbers of the streams. *)
LEMMA NumbersLemma ==
  /\ StandardEntries \cap Pool = {} /\ Null \notin Entries
  /\ StandardEntries \subseteq -3 .. MaxOpenings
  /\ 0 .. MaxOpenings \subseteq -3 .. MaxOpenings
  /\ Null \in -3 .. MaxOpenings
  /\ \A e \in StandardEntries : e < 0 /\ e # Null
BY FilePoolAssumption DEF StandardEntries, StdIn, StdOut, StdErr, Pool, Entries, Null

-----------------------------------------------------------------------------

(***************************************************************************)
(* The inductive invariant.  A number is given to one stream only, so that *)
(* no reference, however old, can be taken for one to a newer file.        *)
(***************************************************************************)
Sound(reference, count) ==
  /\ reference.stream <= count
  /\ reference.entry = Null => reference.stream = Null

Fresh ==
  /\ \A stream \in streams : stream <= openings /\ stream # Null
  /\ \A v \in Vars : Sound(handle[v], openings)
  /\ \A which \in {"input", "output"} : Sound(current[which], openings)

Inv ==
  /\ TypeOK
  /\ StreamsAccounted
  /\ HandlesKeepTheirFile
  /\ StandardFilesKept
  /\ Fresh

(* The invariant holds when the standard files have been prepared. *)
LEMMA InitInv == ASSUME Init PROVE Inv
<1>1. TypeOK
  <2>1. \A e \in Entries : (IF e \in Pool THEN Unused ELSE Standard(e)) \in AdaFile
    BY NumbersLemma DEF Entries, Unused, Standard, AdaFile, FileModes
  <2>2. NullReference \in References
    BY NumbersLemma DEF NullReference, References
  <2>3. StandardReference(StdIn) \in References /\ StandardReference(StdOut) \in References
    BY NumbersLemma DEF StandardReference, References, Entries, StandardEntries
  <2> QED
    BY <2>1, <2>2, <2>3, NumbersLemma, FilePoolAssumption DEF Init, TypeOK
<1>2. StandardFilesKept
  BY NumbersLemma DEF Init, StandardFilesKept, Entries
<1>3. \A e \in Entries : /\ e \in Pool => file[e] = Unused
                         /\ e \in StandardEntries => file[e] = Standard(e)
  BY NumbersLemma DEF Init, Entries
<1>4. StreamsAccounted
  BY <1>3, NumbersLemma DEF Init, StreamsAccounted, Entries, Unused, Standard
<1>5. HandlesKeepTheirFile
  <2>1. NullReference.stream \notin streams
    BY NumbersLemma DEF Init, NullReference
  <2>2. \A e \in StandardEntries : file[e].isOpen /\ file[e].stream = e
    <3>1. \A e \in StandardEntries : file[e] = Standard(e)
      BY <1>2 DEF StandardFilesKept
    <3>2. \A e \in StandardEntries : Standard(e).isOpen /\ Standard(e).stream = e
      BY DEF Standard
    <3> QED
      BY <3>1, <3>2
  <2> QED
    BY <2>1, <2>2 DEF Init, HandlesKeepTheirFile, Holders, StandardReference,
       StandardEntries
<1>6. Fresh
  BY NumbersLemma DEF Init, Fresh, Sound, NullReference, StandardReference, StandardEntries, Null
<1> QED
  BY <1>1, <1>2, <1>4, <1>5, <1>6 DEF Inv

(* The calls that change nothing but the answer. *)
AnswerOnly ==
  /\ UNCHANGED << file, handle, current, disk, streams, openings >>
  /\ last' \in [ op : { "open", "reset", "other", "exit" },
                 raised : Errors \cup {"none"},
                 reached : { "own", "nothing", "another" } ]

(* A call that only answers keeps it. *)
LEMMA AnswerOnlyStep == ASSUME Inv, AnswerOnly PROVE Inv'
BY DEF Inv, AnswerOnly, TypeOK, StreamsAccounted, HandlesKeepTheirFile, Holders,
   StandardFilesKept, Fresh, Sound

(* The files that are open keep their stream, and one handle changes to a
   reference some holder had or to one that means no open file. *)
LEMMA AssignStep ==
  ASSUME Inv, NEW v \in Vars, NEW reference \in Assignable(v), Assign(v, reference)
  PROVE  Inv'
<1>1. /\ reference \in References /\ Sound(reference, openings)
      /\ reference.stream \in streams
           => /\ file[reference.entry].isOpen
              /\ file[reference.entry].stream = reference.stream
  <2>1. CASE reference = NullReference
    BY <2>1, NumbersLemma, FilePoolAssumption
       DEF NullReference, References, Inv, Sound, TypeOK, Fresh, Null
  <2>2. CASE reference \in Holders
    <3>1. reference \in References /\ Sound(reference, openings)
      BY <2>2 DEF Inv, TypeOK, Holders, Fresh
    <3> QED
      BY <2>2, <3>1 DEF Inv, HandlesKeepTheirFile
  <2>3. CASE \E e \in StandardEntries : reference = StandardReference(e)
    <3>1. PICK e \in StandardEntries : reference = StandardReference(e)
      BY <2>3
    <3>2. file[e] = Standard(e)
      BY DEF Inv, StandardFilesKept
    <3>3. openings \in Nat /\ e < 0 /\ e \in Int
      BY NumbersLemma, FilePoolAssumption
         DEF Inv, TypeOK, StandardEntries, StdIn, StdOut, StdErr
    <3>4. reference = [entry |-> e, stream |-> e]
      BY <3>1 DEF StandardReference
    <3>5. e \in Entries \cup {Null} /\ e \in -3 .. MaxOpenings
      BY NumbersLemma DEF Entries
    <3>6. reference \in References
      BY <3>4, <3>5 DEF References
    <3>7. reference.stream <= openings /\ reference.entry # Null
      BY <3>3, <3>4, NumbersLemma
    <3>8. file[reference.entry].isOpen /\ file[reference.entry].stream = reference.stream
      BY <3>2, <3>4 DEF Standard
    <3> QED
      BY <3>6, <3>7, <3>8 DEF Sound
  <2> QED
    BY <2>1, <2>2, <2>3 DEF Assignable, Holders
<1>2. /\ handle' = [handle EXCEPT ![v] = reference]
      /\ last' = [op |-> "other", raised |-> "none", reached |-> "own"]
      /\ UNCHANGED << file, current, disk, streams, openings >>
  BY DEF Assign, Answer
<1>3. TypeOK'
  BY <1>1, <1>2 DEF Inv, TypeOK
<1>4. \A w \in Vars : handle'[w] = handle[w] \/ handle'[w] = reference
  BY <1>2 DEF Inv, TypeOK
<1>5. HandlesKeepTheirFile'
  BY <1>1, <1>2, <1>4 DEF Inv, HandlesKeepTheirFile, Holders
<1>6. Fresh'
  BY <1>1, <1>2, <1>4 DEF Inv, Fresh, Sound
<1>7. StreamsAccounted' /\ StandardFilesKept'
  BY <1>2 DEF Inv, StreamsAccounted, StandardFilesKept
<1> QED
  BY <1>3, <1>5, <1>6, <1>7 DEF Inv

(* The successful calls of Set_Input and Set_Output. *)
LEMMA SetCurrentStep ==
  ASSUME Inv, NEW v \in Vars, NEW which \in {"input", "output"}, SetCurrent(v, which)
  PROVE  Inv'
<1> DEFINE error == Check(handle[v], IF which = "input" THEN "in" ELSE "out")
<1>1. error \in Errors \cup {"none"}
  BY DEF Check, Errors
<1>2. CASE error # "none"
  BY <1>1, <1>2, AnswerOnlyStep DEF SetCurrent, AnswerOnly, Answer
<1>3. CASE error = "none"
  <2>1. /\ current' = [current EXCEPT ![which] = handle[v]]
        /\ last' = [op |-> "other", raised |-> "none", reached |-> "own"]
        /\ UNCHANGED << file, handle, disk, streams, openings >>
    BY <1>3 DEF SetCurrent, Answer
  <2>2. \A w \in {"input", "output"} : current'[w] = current[w] \/ current'[w] = handle[v]
    BY <2>1 DEF Inv, TypeOK
  <2>3. TypeOK'
    BY <2>1 DEF Inv, TypeOK
  <2>4. HandlesKeepTheirFile'
    BY <2>1, <2>2 DEF Inv, HandlesKeepTheirFile, Holders
  <2>5. Fresh'
    BY <2>1, <2>2 DEF Inv, Fresh, Sound
  <2>6. StreamsAccounted' /\ StandardFilesKept'
    BY <2>1 DEF Inv, StreamsAccounted, StandardFilesKept
  <2> QED
    BY <2>3, <2>4, <2>5, <2>6 DEF Inv
<1> QED
  BY <1>2, <1>3

(* A new stream in a free entry. *)
LEMMA OpenSucceedsStep ==
  ASSUME Inv, NEW v \in Vars, NEW op \in {"create", "open"}, NEW mode \in ModesOf(v),
         NEW name \in Names \cup {Scratch}, OpenSucceeds(v, op, mode, name)
  PROVE  Inv'
<1> DEFINE e == TakeFreeEntry
           stream == openings + 1
           new == [stream |-> stream, mode |-> mode, isOpen |-> TRUE, name |-> name]
           reference == [entry |-> e, stream |-> stream]
<1>1. /\ e \in Pool /\ e \in Entries /\ e \notin StandardEntries /\ ~file[e].isOpen
  BY TakeFreeEntryLemma, NumbersLemma DEF OpenSucceeds, Entries
<1>2. /\ openings' = stream /\ streams' = streams \cup {stream}
      /\ disk' = disk \cup Made(op, mode, name)
      /\ file' = [file EXCEPT ![e] = new]
      /\ handle' = [handle EXCEPT ![v] = reference]
      /\ last' = [ op |-> IF op = "open" THEN "open" ELSE "other",
                   raised |-> "none", reached |-> "own" ]
      /\ UNCHANGED current
  BY DEF OpenSucceeds, Answer
<1>3. /\ openings \in Nat /\ stream \in 0 .. MaxOpenings /\ stream > openings
      /\ stream # Null /\ stream \in -3 .. MaxOpenings /\ stream \in Nat
      /\ MaxOpenings \in Nat
  BY FilePoolAssumption, NumbersLemma DEF OpenSucceeds, Inv, TypeOK, Null
<1>4. new \in AdaFile /\ reference \in References
  <2>1. mode \in FileModes
    BY FilePoolAssumption DEF ModesOf, FileModes
  <2> QED
    BY <1>1, <1>3, <2>1 DEF AdaFile, References
<1>5. \A other \in Entries : other # e => file'[other] = file[other]
  BY <1>2 DEF Inv, TypeOK
<1>6. file'[e] = new
  BY <1>1, <1>2 DEF Inv, TypeOK
<1>7. \A w \in Vars : handle'[w] = handle[w] \/ handle'[w] = reference
  BY <1>2 DEF Inv, TypeOK
<1>8. new.stream = stream /\ new.isOpen /\ reference.entry = e /\ reference.stream = stream
  OBVIOUS
<1>9. Made(op, mode, name) \subseteq Names
  BY DEF Made
<1> HIDE DEF e, stream, new, reference
<1>10. TypeOK'
  BY <1>2, <1>3, <1>4, <1>9 DEF Inv, TypeOK
<1>11. \A other \in Entries : file[other].isOpen =>
          file[other].stream <= openings /\ file[other].stream # stream
  <2>1. \A other \in Entries : file[other].isOpen => file[other].stream \in streams
    BY DEF Inv, StreamsAccounted
  <2>2. \A s \in streams : s <= openings /\ s # stream
    BY <1>3 DEF Inv, Fresh, TypeOK
  <2> QED
    BY <2>1, <2>2
<1>12. StreamsAccounted'
  <2>1. streams' = { file'[x].stream : x \in { x \in Entries : file'[x].isOpen } }
    <3>1. ASSUME NEW s \in streams'
          PROVE  \E x \in Entries : file'[x].isOpen /\ file'[x].stream = s
      <4>1. CASE s = stream
        BY <1>1, <1>6, <1>8, <4>1
      <4>2. CASE s \in streams
        <5>1. PICK x \in Entries : file[x].isOpen /\ file[x].stream = s
          BY <4>2 DEF Inv, StreamsAccounted
        <5> QED
          BY <1>1, <1>5, <5>1
      <4> QED
        BY <1>2, <4>1, <4>2
    <3>2. ASSUME NEW x \in Entries, file'[x].isOpen
          PROVE  file'[x].stream \in streams'
      BY <1>2, <1>5, <1>6, <1>8, <3>2 DEF Inv, StreamsAccounted
    <3> QED
      BY <3>1, <3>2
  <2>2. \A x \in Entries : file'[x].isOpen <=> file'[x].stream # Null
    BY <1>3, <1>5, <1>6, <1>8 DEF Inv, StreamsAccounted
  <2>3. \A x, y \in Entries :
          file'[x].isOpen /\ file'[x].stream = file'[y].stream => x = y
    <3>1. \A y \in Entries : file[y].stream # stream
      BY <1>3, <1>11 DEF Inv, StreamsAccounted
    <3> QED
      BY <1>5, <1>6, <1>8, <3>1 DEF Inv, StreamsAccounted
  <2> QED
    BY <2>1, <2>2, <2>3 DEF StreamsAccounted
<1>13. HandlesKeepTheirFile'
  <2>1. ASSUME NEW held \in Holders, held.stream \in streams'
        PROVE  file'[held.entry].isOpen /\ file'[held.entry].stream = held.stream
    <3>1. /\ held.stream <= openings /\ held.entry \in Entries \cup {Null}
          /\ held.entry = Null => held.stream = Null
      BY DEF Holders, Inv, Fresh, Sound, TypeOK, References
    <3>2. held.stream \in streams
      BY <1>2, <1>3, <2>1, <3>1
    <3>3. file[held.entry].isOpen /\ file[held.entry].stream = held.stream
      BY <3>2 DEF Inv, HandlesKeepTheirFile
    <3>4. held.entry # Null
      BY <3>1, <3>2 DEF Inv, Fresh
    <3> QED
      BY <1>1, <1>5, <3>1, <3>3, <3>4
  <2>2. file'[reference.entry].isOpen /\ file'[reference.entry].stream = reference.stream
    BY <1>6, <1>8
  <2>3. \A held \in Holders' : held \in Holders \/ held = reference
    BY <1>2, <1>7 DEF Holders
  <2> QED
    BY <2>1, <2>2, <2>3 DEF HandlesKeepTheirFile
<1>14. Fresh'
  <2>1. reference.entry # Null
    BY <1>1, <1>8, NumbersLemma
  <2>2. ASSUME NEW held \in References, Sound(held, openings) PROVE Sound(held, openings')
    BY <1>2, <1>3, <2>2 DEF Sound, References
  <2>3. Sound(reference, openings')
    BY <1>2, <1>3, <1>8, <2>1 DEF Sound
  <2>4. /\ \A w \in Vars : Sound(handle'[w], openings')
        /\ \A which \in {"input", "output"} : Sound(current'[which], openings')
    <3>1. \A w \in Vars : handle[w] \in References /\ Sound(handle[w], openings)
      BY DEF Inv, Fresh, TypeOK
    <3>2. \A which \in {"input", "output"} :
             current[which] \in References /\ Sound(current[which], openings)
      BY DEF Inv, Fresh, TypeOK
    <3> QED
      BY <1>2, <1>7, <2>2, <2>3, <3>1, <3>2
  <2>5. \A s \in streams' : s <= openings' /\ s # Null
    BY <1>2, <1>3 DEF Inv, Fresh, TypeOK
  <2> QED
    BY <2>4, <2>5 DEF Fresh
<1>15. StandardFilesKept'
  BY <1>1, <1>5 DEF Inv, StandardFilesKept, Entries
<1> QED
  BY <1>10, <1>12, <1>13, <1>14, <1>15 DEF Inv

(* What Close, Delete and Reset require of the handle. *)
LEMMA ManageableLemma ==
  ASSUME Inv, NEW v \in Vars, Manageable(v)
  PROVE  /\ handle[v].entry \in Pool /\ handle[v].entry \in Entries
         /\ handle[v].entry \notin StandardEntries
         /\ file[handle[v].entry].isOpen
<1>1. handle[v] \in References
  BY DEF Inv, TypeOK
<1>2. IsOpen(handle[v]) /\ ~IsStandard(handle[v])
  BY DEF Manageable, Check
<1> QED
  BY <1>1, <1>2 DEF References, IsOpen, IsStandard, Entries

(* An entry is freed, and the handle it was freed through is null. *)
LEMMA ReleaseStep ==
  ASSUME Inv, NEW v \in Vars, Manageable(v),
         NEW op \in {"other", "reset"}, NEW raised \in Errors \cup {"none"},
         Release(v, op, raised), disk' \subseteq disk,
         UNCHANGED << current, openings >>
  PROVE  Inv'
<1> DEFINE e == handle[v].entry
<1>1. e \in Pool /\ e \in Entries /\ e \notin StandardEntries /\ file[e].isOpen
  BY ManageableLemma
<1>2. /\ streams' = streams \ {file[e].stream}
      /\ file' = [file EXCEPT ![e] = Unused]
      /\ handle' = [handle EXCEPT ![v] = NullReference]
      /\ last' = [op |-> op, raised |-> raised, reached |-> "own"]
  BY DEF Release, Answer
<1> HIDE DEF e
<1>3. \A x \in Entries : x # e => file'[x] = file[x]
  BY <1>2 DEF Inv, TypeOK
<1>4. file'[e] = Unused
  BY <1>1, <1>2 DEF Inv, TypeOK
<1>5. ~Unused.isOpen /\ Unused.stream = Null /\ Unused \in AdaFile
  BY NumbersLemma DEF Unused, AdaFile, FileModes
<1>6. NullReference \in References /\ NullReference.stream = Null
  BY NumbersLemma DEF NullReference, References
<1>7. \A w \in Vars : handle'[w] = handle[w] \/ handle'[w] = NullReference
  BY <1>2 DEF Inv, TypeOK
<1>8. Null \notin streams
  BY DEF Inv, Fresh
<1>9. TypeOK'
  BY <1>2, <1>5, <1>6 DEF Inv, TypeOK
<1>10. StreamsAccounted'
  <2>1. \A x \in Entries : file[x].isOpen /\ x # e => file[x].stream # file[e].stream
    BY <1>1 DEF Inv, StreamsAccounted
  <2>2. streams' = { file'[x].stream : x \in { x \in Entries : file'[x].isOpen } }
    <3>1. ASSUME NEW s \in streams'
          PROVE  \E x \in Entries : file'[x].isOpen /\ file'[x].stream = s
      <4>1. s \in streams /\ s # file[e].stream
        BY <1>2
      <4>2. PICK x \in Entries : file[x].isOpen /\ file[x].stream = s
        BY <4>1 DEF Inv, StreamsAccounted
      <4> QED
        BY <1>3, <4>1, <4>2
    <3>2. ASSUME NEW x \in Entries, file'[x].isOpen
          PROVE  file'[x].stream \in streams'
      <4>1. x # e
        BY <1>4, <1>5, <3>2
      <4>2. file[x].isOpen /\ file[x].stream \in streams
        BY <1>3, <3>2, <4>1 DEF Inv, StreamsAccounted
      <4> QED
        BY <1>2, <1>3, <2>1, <4>1, <4>2
    <3> QED
      BY <3>1, <3>2
  <2>3. \A x \in Entries : file'[x].isOpen <=> file'[x].stream # Null
    BY <1>3, <1>4, <1>5 DEF Inv, StreamsAccounted
  <2>4. \A x, y \in Entries :
          file'[x].isOpen /\ file'[x].stream = file'[y].stream => x = y
    BY <1>3, <1>4, <1>5 DEF Inv, StreamsAccounted
  <2> QED
    BY <2>2, <2>3, <2>4 DEF StreamsAccounted
<1>11. HandlesKeepTheirFile'
  <2>1. ASSUME NEW held \in Holders', held.stream \in streams'
        PROVE  file'[held.entry].isOpen /\ file'[held.entry].stream = held.stream
    <3>1. held.stream \in streams /\ held.stream # file[e].stream
      BY <1>2, <2>1
    <3>2. held \in Holders \/ held = NullReference
      BY <1>2, <1>7 DEF Holders
    <3>3. held \in Holders
      BY <1>6, <1>8, <3>1, <3>2
    <3>4. file[held.entry].isOpen /\ file[held.entry].stream = held.stream
      BY <3>1, <3>3 DEF Inv, HandlesKeepTheirFile
    <3>5. held.entry \in Entries
      <4>1. held \in References /\ Sound(held, openings)
        BY <3>3 DEF Holders, Inv, TypeOK, Fresh
      <4> QED
        BY <1>8, <3>1, <4>1 DEF References, Sound
    <3> QED
      BY <1>3, <3>1, <3>4, <3>5
  <2> QED
    BY <2>1 DEF HandlesKeepTheirFile
<1>12. Fresh'
  <2>1. Sound(NullReference, openings)
    BY <1>6, NumbersLemma, FilePoolAssumption DEF Sound, Inv, TypeOK, Null
  <2> QED
    BY <1>2, <1>7, <2>1 DEF Inv, Fresh
<1>13. StandardFilesKept'
  BY <1>1, <1>3 DEF Inv, StandardFilesKept, Entries
<1> QED
  BY <1>9, <1>10, <1>11, <1>12, <1>13 DEF Inv

(* A file that is rewound keeps its stream. *)
LEMMA RewoundStep ==
  ASSUME Inv, NEW v \in Vars, NEW mode \in ModesOf(v) \cup {"any"}, Rewound(v, mode)
  PROVE  Inv'
<1> DEFINE e == handle[v].entry
           new == NewMode(v, mode)
<1>1. e \in Pool /\ e \in Entries /\ e \notin StandardEntries /\ file[e].isOpen
  BY ManageableLemma DEF Rewound
<1>2. /\ file' = [file EXCEPT ![e].mode = new]
      /\ disk' = disk \cup Made("open", new, file[e].name)
      /\ last' = [op |-> "other", raised |-> "none", reached |-> "own"]
      /\ UNCHANGED << handle, current, streams, openings >>
  BY DEF Rewound, Answer
<1>3. new \in FileModes
  <2>1. file[e].mode \in FileModes
    BY <1>1 DEF Inv, TypeOK, AdaFile
  <2>2. ModesOf(v) \subseteq FileModes
    BY FilePoolAssumption DEF ModesOf, FileModes
  <2> QED
    BY <2>1, <2>2 DEF NewMode
<1>4. Made("open", new, file[e].name) \subseteq Names
  BY <1>1 DEF Made, Inv, TypeOK, AdaFile
<1> HIDE DEF e, new
<1>5. \A x \in Entries : /\ file'[x].stream = file[x].stream
                         /\ file'[x].isOpen = file[x].isOpen
                         /\ x # e => file'[x] = file[x]
  BY <1>1, <1>2 DEF Inv, TypeOK, AdaFile
<1>6. TypeOK'
  <2>1. file' \in [Entries -> AdaFile]
    BY <1>1, <1>2, <1>3 DEF Inv, TypeOK, AdaFile
  <2> QED
    BY <1>2, <1>4, <2>1 DEF Inv, TypeOK
<1>7. StreamsAccounted'
  <2>1. { file'[x].stream : x \in { x \in Entries : file'[x].isOpen } }
          = { file[x].stream : x \in { x \in Entries : file[x].isOpen } }
    BY <1>5
  <2> QED
    BY <1>2, <1>5, <2>1 DEF Inv, StreamsAccounted
<1>8. HandlesKeepTheirFile'
  <2>1. ASSUME NEW held \in Holders, held.stream \in streams
        PROVE  file'[held.entry].isOpen /\ file'[held.entry].stream = held.stream
    <3>1. held \in References /\ Sound(held, openings)
      BY DEF Holders, Inv, TypeOK, Fresh
    <3>2. held.entry \in Entries
      BY <2>1, <3>1 DEF References, Sound, Inv, Fresh
    <3> QED
      BY <1>5, <2>1, <3>2 DEF Inv, HandlesKeepTheirFile
  <2> QED
    BY <1>2, <2>1 DEF HandlesKeepTheirFile, Holders
<1>9. Fresh' /\ StandardFilesKept'
  BY <1>1, <1>2, <1>5 DEF Inv, Fresh, StandardFilesKept, Entries
<1> QED
  BY <1>6, <1>7, <1>8, <1>9 DEF Inv

(* At exit the standard files stay open. *)
LEMMA ExitStep == ASSUME Inv, Exit PROVE Inv'
<1> DEFINE closed == { file[e].stream : e \in { e \in Pool : file[e].isOpen } }
<1>1. /\ file' = [e \in Entries |-> IF e \in Pool THEN Unused ELSE file[e]]
      /\ streams' = streams \ closed
      /\ last' = [op |-> "exit", raised |-> "none", reached |-> "own"]
      /\ UNCHANGED << handle, current, disk, openings >>
  BY DEF Exit, Answer
<1>2. ~Unused.isOpen /\ Unused.stream = Null /\ Unused \in AdaFile
  BY NumbersLemma DEF Unused, AdaFile, FileModes
<1>3. \A e \in Entries : /\ e \in Pool => file'[e] = Unused
                         /\ e \notin Pool => file'[e] = file[e]
  BY <1>1
<1>4. \A e \in Pool : e \in Entries
  BY DEF Entries
<1>5. \A s : s \in closed <=> \E e \in Pool : file[e].isOpen /\ file[e].stream = s
  OBVIOUS
<1> HIDE DEF closed
<1>6. TypeOK'
  BY <1>1, <1>2 DEF Inv, TypeOK
<1>7. \A e \in Entries : e \notin Pool /\ file[e].isOpen => file[e].stream \notin closed
  BY <1>4, <1>5 DEF Inv, StreamsAccounted
<1>8. StreamsAccounted'
  <2>1. streams' = { file'[x].stream : x \in { x \in Entries : file'[x].isOpen } }
    <3>1. ASSUME NEW s \in streams'
          PROVE  \E x \in Entries : file'[x].isOpen /\ file'[x].stream = s
      <4>1. s \in streams /\ s \notin closed
        BY <1>1
      <4>2. PICK x \in Entries : file[x].isOpen /\ file[x].stream = s
        BY <4>1 DEF Inv, StreamsAccounted
      <4>3. x \notin Pool
        BY <1>5, <4>1, <4>2
      <4> QED
        BY <1>3, <4>2, <4>3
    <3>2. ASSUME NEW x \in Entries, file'[x].isOpen
          PROVE  file'[x].stream \in streams'
      <4>1. x \notin Pool /\ file'[x] = file[x]
        BY <1>2, <1>3, <3>2
      <4>2. file[x].stream \in streams
        BY <3>2, <4>1 DEF Inv, StreamsAccounted
      <4> QED
        BY <1>1, <1>7, <3>2, <4>1, <4>2
    <3> QED
      BY <3>1, <3>2
  <2>2. \A x \in Entries : file'[x].isOpen <=> file'[x].stream # Null
    BY <1>2, <1>3 DEF Inv, StreamsAccounted
  <2>3. \A x, y \in Entries :
          file'[x].isOpen /\ file'[x].stream = file'[y].stream => x = y
    BY <1>2, <1>3, <2>2 DEF Inv, StreamsAccounted
  <2> QED
    BY <2>1, <2>2, <2>3 DEF StreamsAccounted
<1>9. HandlesKeepTheirFile'
  <2>1. ASSUME NEW held \in Holders, held.stream \in streams, held.stream \notin closed
        PROVE  file'[held.entry].isOpen /\ file'[held.entry].stream = held.stream
    <3>1. held \in References /\ Sound(held, openings)
      BY DEF Holders, Inv, TypeOK, Fresh
    <3>2. held.entry \in Entries
      BY <2>1, <3>1 DEF References, Sound, Inv, Fresh
    <3>3. file[held.entry].isOpen /\ file[held.entry].stream = held.stream
      BY <2>1 DEF Inv, HandlesKeepTheirFile
    <3>4. held.entry \notin Pool
      BY <1>5, <2>1, <3>3
    <3> QED
      BY <1>3, <3>2, <3>3, <3>4
  <2> QED
    BY <1>1, <2>1 DEF HandlesKeepTheirFile, Holders
<1>10. Fresh'
  BY <1>1 DEF Inv, Fresh
<1>11. StandardFilesKept'
  BY <1>3, NumbersLemma DEF Inv, StandardFilesKept, Entries
<1> QED
  BY <1>6, <1>8, <1>9, <1>10, <1>11 DEF Inv

(* What the check answers. *)
LEMMA CheckRange ==
  ASSUME NEW reference, NEW required
  PROVE  Check(reference, required) \in {"Status_Error", "Mode_Error", "none"}
BY DEF Check

(* Create and Open, refused, failing or done. *)
LEMMA OpenStep == ASSUME Inv, NEW v \in Vars, Open(v) PROVE Inv'
<1>1. CASE OpenRejected(v)
  BY <1>1, AnswerOnlyStep DEF OpenRejected, AnswerOnly, Answer, Errors
<1>2. ASSUME NEW op \in {"create", "open"}, OpenFails(v, op) PROVE Inv'
  BY <1>2, AnswerOnlyStep DEF OpenFails, AnswerOnly, Answer, Errors
<1> QED
  BY <1>1, <1>2, OpenSucceedsStep DEF Open

(* A refused Close, Delete or Reset only answers. *)
LEMMA ManageRejectedStep ==
  ASSUME Inv, NEW v \in Vars, NEW standardError \in {"Mode_Error", "Use_Error"},
         ManageRejected(v, standardError)
  PROVE  Inv'
BY CheckRange, AnswerOnlyStep DEF ManageRejected, AnswerOnly, Answer, Errors

(* Close, Delete and Reset. *)
LEMMA ManageStep ==
  ASSUME Inv, NEW v \in Vars, Close(v) \/ Delete(v) \/ Reset(v)
  PROVE  Inv'
<1> USE DEF Errors
<1>1. CASE Close(v)
  <2>1. CASE ManageRejected(v, "Mode_Error")
    BY <2>1, ManageRejectedStep
  <2>2. CASE ~ManageRejected(v, "Mode_Error")
    <3>1. /\ Manageable(v) /\ Release(v, "other", "none")
          /\ UNCHANGED << current, disk, openings >>
      BY <1>1, <2>2 DEF Close
    <3> QED
      BY <3>1, ReleaseStep
  <2> QED
    BY <2>1, <2>2
<1>2. CASE Delete(v)
  <2>1. CASE ManageRejected(v, "Use_Error")
    BY <2>1, ManageRejectedStep
  <2>2. CASE ~ManageRejected(v, "Use_Error")
    <3>1. /\ Manageable(v) /\ Release(v, "other", "none")
          /\ disk' \subseteq disk /\ UNCHANGED << current, openings >>
      BY <1>2, <2>2 DEF Delete
    <3> QED
      BY <3>1, ReleaseStep
  <2> QED
    BY <2>1, <2>2
<1>3. CASE Reset(v)
  <2>1. CASE ManageRejected(v, "Mode_Error")
    BY <2>1, ManageRejectedStep
  <2>2. CASE ReopenFails(v)
    <3>1. /\ Manageable(v) /\ Release(v, "reset", "Use_Error")
          /\ UNCHANGED << current, disk, openings >>
      BY <2>2 DEF ReopenFails
    <3> QED
      BY <3>1, ReleaseStep
  <2> QED
    BY <1>3, <2>1, <2>2, RewoundStep DEF Reset
<1> QED
  BY <1>1, <1>2, <1>3

(* An operation on a stream only answers. *)
LEMMA OperatesStep ==
  ASSUME Inv, NEW reference, Operates(reference),
         UNCHANGED << file, handle, current, disk, streams, openings >>
  PROVE  Inv'
BY AnswerOnlyStep DEF Operates, AnswerOnly

(* So does a checked one. *)
LEMMA UseStep ==
  ASSUME Inv, NEW reference, NEW required, Use(reference, required)
  PROVE  Inv'
<1>1. CASE Check(reference, required) = "none"
  BY <1>1, OperatesStep DEF Use
<1>2. CASE Check(reference, required) # "none"
  BY <1>2, CheckRange, AnswerOnlyStep DEF Use, AnswerOnly, Answer, Errors
<1> QED
  BY <1>1, <1>2

(* The calls change what the invariant is about one at a time. *)
LEMMA NextStep == ASSUME Inv, [Next]_vars PROVE Inv'
<1>1. CASE UNCHANGED vars
  BY <1>1 DEF vars, Inv, TypeOK, StreamsAccounted, HandlesKeepTheirFile, Holders,
     StandardFilesKept, Fresh, Sound
<1>2. ASSUME NEW v \in Vars, Open(v) \/ Close(v) \/ Delete(v) \/ Reset(v) PROVE Inv'
  BY <1>2, OpenStep, ManageStep
<1>3. ASSUME NEW v \in Vars, NEW which \in {"input", "output"}, SetCurrent(v, which)
      PROVE  Inv'
  BY <1>3, SetCurrentStep
<1>4. ASSUME NEW reference, NEW required, Use(reference, required) PROVE Inv'
  BY <1>4, UseStep
<1>5. CASE PutFloat
  BY <1>5, OperatesStep DEF PutFloat
<1>6. ASSUME NEW v \in Vars, NEW reference \in Assignable(v), Assign(v, reference)
      PROVE  Inv'
  BY <1>6, AssignStep
<1>7. CASE Call
  BY <1>2, <1>3, <1>4, <1>5, <1>6, <1>7 DEF Call
<1>8. CASE Exit
  BY <1>8, ExitStep
<1> QED
  BY <1>1, <1>7, <1>8 DEF Next

-----------------------------------------------------------------------------

(* The inductive invariant holds of every run of calls. *)
THEOREM InvHolds == Spec => []Inv
<1>1. Init => Inv
  BY InitInv
<1>2. Inv /\ [Next]_vars => Inv'
  BY NextStep
<1> QED
  BY <1>1, <1>2, PTL DEF Spec

(* Every pointer stored is null or one to an entry, and every entry well formed. *)
THEOREM PoolTypeCorrect == Spec => []TypeOK
<1>1. Inv => TypeOK
  BY DEF Inv
<1> QED
  BY <1>1, InvHolds, PTL

(* No stream is leaked or shared, whichever calls fail. *)
THEOREM NoStreamLeaks == Spec => []StreamsAccounted
<1>1. Inv => StreamsAccounted
  BY DEF Inv
<1> QED
  BY <1>1, InvHolds, PTL

(* A live handle is never redirected, however entries are reused. *)
THEOREM LiveHandlesAreStable == Spec => []HandlesKeepTheirFile
<1>1. Inv => HandlesKeepTheirFile
  BY DEF Inv
<1> QED
  BY <1>1, InvHolds, PTL

(* The standard files stay as prepare made them. *)
THEOREM StandardFilesStay == Spec => []StandardFilesKept
<1>1. Inv => StandardFilesKept
  BY DEF Inv
<1> QED
  BY <1>1, InvHolds, PTL

(* A call that raises has no effect, Reset excepted. *)
THEOREM FailuresAreClean == Spec => FailuresChangeNothing
<1>1. ASSUME NEW v \in Vars, Open(v) PROVE FailureIsClean
  BY <1>1 DEF Open, OpenRejected, OpenFails, OpenSucceeds, Answer, FailureIsClean
<1>2. ASSUME NEW v \in Vars, NEW error, ManageRejected(v, error) PROVE FailureIsClean
  BY <1>2 DEF ManageRejected, FailureIsClean
<1>3. ASSUME NEW v \in Vars, NEW op, NEW raised, Release(v, op, raised),
             raised = "none" \/ op = "reset"
      PROVE  FailureIsClean
  BY <1>3 DEF Release, Answer, FailureIsClean
<1>4. ASSUME NEW v \in Vars, Close(v) \/ Delete(v) PROVE FailureIsClean
  BY <1>2, <1>3, <1>4 DEF Close, Delete
<1>5. ASSUME NEW v \in Vars, Reset(v) PROVE FailureIsClean
  <2>1. ASSUME NEW mode, Rewound(v, mode) PROVE FailureIsClean
    BY <2>1 DEF Rewound, Answer, FailureIsClean
  <2>2. CASE ReopenFails(v)
    BY <1>3, <2>2 DEF ReopenFails
  <2> QED
    BY <1>2, <1>5, <2>1, <2>2 DEF Reset
<1>6. ASSUME NEW v \in Vars, NEW which \in {"input", "output"}, SetCurrent(v, which)
      PROVE  FailureIsClean
  BY <1>6 DEF SetCurrent, Answer, FailureIsClean
<1>7. ASSUME NEW reference, NEW required, Use(reference, required) PROVE FailureIsClean
  BY <1>7 DEF Use, FailureIsClean
<1>8. ASSUME PutFloat PROVE FailureIsClean
  BY <1>8 DEF PutFloat, FailureIsClean
<1>9. ASSUME NEW v \in Vars, NEW reference \in Assignable(v), Assign(v, reference)
      PROVE  FailureIsClean
  BY <1>9 DEF Assign, Answer, FailureIsClean
<1>10. ASSUME Exit PROVE FailureIsClean
  BY <1>10 DEF Exit, Answer, FailureIsClean
<1>11. ASSUME Call PROVE FailureIsClean
  BY <1>1, <1>4, <1>5, <1>6, <1>7, <1>8, <1>9, <1>11 DEF Call
<1>12. [Next]_vars => [FailureIsClean]_vars
  BY <1>10, <1>11 DEF Next, vars, FailureIsClean
<1> QED
  BY <1>12, PTL DEF Spec, FailuresChangeNothing

=============================================================================
