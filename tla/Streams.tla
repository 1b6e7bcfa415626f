------------------------------ MODULE Streams ------------------------------
(***************************************************************************)
(* Stream_IO (src/runtime/adaio.c) under 'Write, 'Output, 'Read and 'Input *)
(* as they are emitted (src/adac/emitter/QbeAttributes.cpp).  A stream is  *)
(* a file of cells, each an element or a bound.  'Output of an array puts  *)
(* its bounds before it; 'Input leaves the array in one of a few static    *)
(* buffers, used in turn.                                                  *)
(***************************************************************************)
EXTENDS Integers, Sequences, SequencesExt

CONSTANTS
    Objects,        \* What is written: scalars [kind, value] and arrays [kind, first, last].
    StreamBuffers,  \* ADA_STREAM_BUFFERS
    StreamRoom,     \* the elements that fit one
    MaxObjects      \* Bounds the objects written.

ASSUME StreamAssumption ==
    /\ \A o \in Objects : \/ o.kind = "scalar" /\ o.value \in Int
                          \/ o.kind = "array" /\ o.first \in Int /\ o.last \in Int
    /\ StreamBuffers \in Nat \ {0} /\ StreamRoom \in Nat /\ MaxObjects \in Nat

VARIABLES
    cells,          \* the contents of the stream
    here,           \* how many cells precede the position
    rewound,        \* whether the file was reset to be read
    streamBuffers, nextStreamBuffer,
    sent,           \* the objects written, each with its data and its Index
    received        \* what was read since the last move: [value, first, last, buffer, raised],
                    \* with the object the program took it for

streamVars == <<cells, here, rewound, streamBuffers, nextStreamBuffer, sent, received>>

CountOf(first, last) == IF last - first + 1 < 0 THEN 0 ELSE last - first + 1

\* Elements that tell the arrays of one behaviour apart.
DataOf(object, n) == [i \in 1..CountOf(object.first, object.last) |-> 10 * n + i]

StreamWrite(object) ==
    LET n == Len(sent) + 1
        data == IF object.kind = "scalar" THEN <<object.value>> ELSE DataOf(object, n)
    IN  /\ ~rewound /\ Len(sent) < MaxObjects
        /\ cells' = cells \o (IF object.kind = "scalar" THEN <<>> ELSE <<object.first, object.last>>) \o data
        /\ here' = Len(cells')
        /\ sent' = Append(sent, [object |-> object, data |-> data, index |-> here + 1])
        /\ UNCHANGED <<rewound, streamBuffers, nextStreamBuffer, received>>

StreamReset ==
    /\ ~rewound /\ sent # <<>>
    /\ rewound' = TRUE /\ here' = 0
    /\ UNCHANGED <<cells, streamBuffers, nextStreamBuffer, sent, received>>

\* Set_Index to an Index the program asked for before a write.
StreamSetIndex(n) ==
    /\ rewound /\ n \in DOMAIN sent
    /\ here' = sent[n].index - 1
    /\ received' = <<>>
    /\ UNCHANGED <<cells, rewound, streamBuffers, nextStreamBuffer, sent>>

\* fread of so many cells: all of them, or End_Error at the end.
Fits(n) == here + n <= Len(cells)
CellsAt(p, n) == SubSeq(cells, p + 1, p + n)

Received(n, value, first, last, buffer, error) ==
    received' = Append(received, [number |-> n, value |-> value, first |-> first, last |-> last,
                                  buffer |-> buffer, raised |-> error])

StreamReadScalar(n) ==
    /\ IF Fits(1)
       THEN here' = here + 1 /\ Received(n, cells[here + 1], 0, 0, -1, "none")
       ELSE here' = Len(cells) /\ Received(n, 0, 0, 0, -1, "END_ERROR")
    /\ UNCHANGED <<cells, rewound, streamBuffers, nextStreamBuffer, sent>>

SameBuffer(b) == b
BufferInTurn(b) == (b + 1) % StreamBuffers

\* __ada_stream_read_array.  The buffer is taken first; an array that does not
\* fit one is left where it is, behind the bounds already read.
StreamReadArray(n) ==
    LET buffer == nextStreamBuffer
        first == cells[here + 1]
        last == cells[here + 2]
        count == CountOf(first, last)
    IN  /\ nextStreamBuffer' = BufferInTurn(buffer)
        /\ CASE ~Fits(2) ->
                    here' = Len(cells) /\ Received(n, 0, 1, 0, buffer, "END_ERROR") /\ UNCHANGED streamBuffers
             [] Fits(2) /\ count > StreamRoom ->
                    here' = here + 2 /\ Received(n, 0, first, first - 1, buffer, "STORAGE_ERROR") /\ UNCHANGED streamBuffers
             [] Fits(2) /\ count <= StreamRoom /\ ~Fits(2 + count) ->
                    here' = Len(cells) /\ Received(n, 0, first, last, buffer, "END_ERROR") /\ UNCHANGED streamBuffers
             [] OTHER ->
                    /\ here' = here + 2 + count
                    /\ streamBuffers' = [streamBuffers EXCEPT ![buffer] = CellsAt(here + 2, count) \o SubSeq(@, count + 1, StreamRoom)]
                    /\ Received(n, 0, first, last, buffer, "none")
        /\ UNCHANGED <<cells, rewound, sent>>

\* A program that meets an exception may go on; it reads until it has taken
\* all it wrote.
StreamRead ==
    /\ rewound
    /\ \E n \in DOMAIN sent :
          /\ received = <<>> => here + 1 = sent[n].index
          /\ received # <<>> => n = Last(received).number + 1
          /\ IF sent[n].object.kind = "scalar" THEN StreamReadScalar(n) ELSE StreamReadArray(n)

StreamInit ==
    /\ cells = <<>> /\ here = 0 /\ rewound = FALSE
    /\ streamBuffers = [b \in 0..(StreamBuffers - 1) |-> [i \in 1..StreamRoom |-> 0]]
    /\ nextStreamBuffer = 0
    /\ sent = <<>> /\ received = <<>>

StreamNext ==
    \/ \E object \in Objects : StreamWrite(object)
    \/ StreamReset
    \/ \E n \in DOMAIN sent : StreamSetIndex(n)
    \/ StreamRead

StreamSpec == StreamInit /\ [][StreamNext]_streamVars

-----------------------------------------------------------------------------

\* Objects read with the attributes that match those they were written with
\* come back in order with their bounds and values, from the beginning or from
\* any object whose Index was kept, until an array too large to be held is met;
\* and the last StreamBuffers arrays an expression has read are all intact.
StreamRoundTrip ==
    \A i \in DOMAIN received :
        LET item == received[i]
            original == sent[item.number]
            later == Cardinality({j \in DOMAIN received : j > i /\ received[j].buffer # -1})
            inStep == \A j \in 1..i : received[j].raised = "none"
        IN  /\ inStep =>
                  IF original.object.kind = "scalar" THEN item.value = original.object.value
                  ELSE /\ item.first = original.object.first /\ item.last = original.object.last
                       /\ later < StreamBuffers =>
                              SubSeq(streamBuffers[item.buffer], 1, Len(original.data)) = original.data
            /\ (item.raised # "none" /\ \A j \in 1..(i - 1) : received[j].raised = "none") =>
                  item.raised = "STORAGE_ERROR" /\ Len(original.data) > StreamRoom
=============================================================================
