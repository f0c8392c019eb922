------------------------- MODULE SharedConstBuffers -------------------------
(***************************************************************************)
(* The output buffer of src/core/SharedConstBuffers.hpp: strings in the    *)
(* order pushed, of which a prefix was consumed.  A consumed string stays  *)
(* in mBuffer, in front of mStart, until clear().                          *)
(***************************************************************************)
EXTENDS Integers, Sequences, SequencesExt

\* mBuffer is a sequence of sequences of characters; mStart is the index of
\* the first one that is left.
NewBuffers == [mBuffer |-> <<>>, mStart |-> 1]

push(b, data) == [b EXCEPT !.mBuffer = Append(@, data)]

empty(b) == b.mStart = Len(b.mBuffer) + 1

\* begin() .. end()
Rest(b) == SubSeq(b.mBuffer, b.mStart, Len(b.mBuffer))

size(b) == FoldLeft(LAMBDA s, d : s + Len(d), 0, Rest(b))

\* The size of the strings mStart .. i - 1
SizeBefore(b, i) ==
    FoldLeft(LAMBDA s, d : s + Len(d), 0, SubSeq(b.mBuffer, b.mStart, i - 1))

\* Mutant: a string that is consumed to its end is kept as the first one.
consumeWhole(b, n) ==
    LET At(i) == n - SizeBefore(b, i)
        Stops == {i \in b.mStart .. Len(b.mBuffer) : At(i) <= Len(b.mBuffer[i])}
        i == CHOOSE i \in Stops : \A j \in Stops : i <= j
    IN  IF Stops = {} THEN [b EXCEPT !.mStart = Len(b.mBuffer) + 1]
        ELSE IF At(i) = Len(b.mBuffer[i]) THEN [b EXCEPT !.mStart = i]
        ELSE [b EXCEPT !.mStart = i,
                       !.mBuffer[i] = SubSeq(@, At(i) + 1, Len(@))]

\* The loop stops at the first string that what is left of n ends in.
consume(b, n) ==
    LET At(i) == n - SizeBefore(b, i)
        Stops == {i \in b.mStart .. Len(b.mBuffer) : At(i) <= Len(b.mBuffer[i])}
        i == CHOOSE i \in Stops : \A j \in Stops : i <= j
    IN  IF Stops = {} THEN [b EXCEPT !.mStart = Len(b.mBuffer) + 1]
        ELSE IF At(i) = Len(b.mBuffer[i]) THEN [b EXCEPT !.mStart = i + 1]
        ELSE [b EXCEPT !.mStart = i,
                       !.mBuffer[i] = SubSeq(@, At(i) + 1, Len(@))]
=============================================================================
