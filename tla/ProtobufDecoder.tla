-------------------------- MODULE ProtobufDecoder --------------------------
(***************************************************************************)
(* The line format of src/core/network/RawProtobufConnection.{hpp,cpp},    *)
(* "length:content": EncodeMessage, and the decoder that is fed whatever   *)
(* a read returned.  A character is a digit, Colon or one of the others;   *)
(* the content of a message may have any of them in it.                    *)
(***************************************************************************)
EXTENDS Integers, Sequences, SequencesExt

CONSTANTS
    Base,           \* of the numbers in a header
    Colon,
    MaxDigits,      \* bound: digits of a header
    Valid           \* the contents that parse as a MetaData with a content

Digits == 0 .. Base - 1

\* lexical_cast< int > of a string of digits
IntOf(s) == FoldLeft(LAMBDA n, d : n * Base + d, 0, s)

\* lexical_cast< string > of a number: no leading zeros
StringOf(n) ==
    CHOOSE s \in UNION {[1 .. k -> Digits] : k \in 1 .. MaxDigits} :
        IntOf(s) = n /\ (Len(s) > 1 => s[1] # 0)

\* The header and the content of a message.
EncodeMessage(content) == <<StringOf(Len(content)) \o <<Colon>>, content>>

-----------------------------------------------------------------------------
(* A decoder; length_ is the capacity of content_ as well.  result is what *)
(* Consume returned: "more", "true" or "false".                            *)

NewDecoder == [mState |-> "Start", length_store_ |-> <<>>, length_ |-> 0,
               content_ |-> <<>>, result |-> "more"]

\* Buffer: nothing is left of the capacity.
full(d) == Len(d.content_) = d.length_

ConsumeStart(d, input) ==
    IF input \notin Digits THEN [d EXCEPT !.result = "false"]
    ELSE [d EXCEPT !.mState = "Length", !.result = "more",
                   !.length_store_ = <<input>>]

ConsumeLength(d, input) ==
    IF input = Colon
    THEN [d EXCEPT !.mState = "Content", !.result = "more",
                   !.length_ = IntOf(d.length_store_), !.content_ = <<>>]
    ELSE IF input \notin Digits THEN [d EXCEPT !.result = "false"]
    ELSE [d EXCEPT !.length_store_ = Append(@, input), !.result = "more"]

\* Mutant: the last character is not waited for.
ConsumeContentShort(d, input) ==
    LET content == Append(d.content_, input)
    IN  IF Len(content) + 1 < d.length_
        THEN [d EXCEPT !.content_ = content, !.result = "more"]
        ELSE [d EXCEPT !.content_ = content, !.mState = "End", !.result = "true"]

ConsumeContent(d, input) ==
    LET next == [d EXCEPT !.content_ = Append(@, input), !.result = "more"]
    IN  IF full(d) THEN [d EXCEPT !.result = "false"]
        ELSE IF ~full(next) THEN next
        ELSE IF next.content_ \notin Valid THEN [next EXCEPT !.result = "false"]
        ELSE [next EXCEPT !.mState = "End", !.result = "true"]

Consume(d, input) ==
    CASE d.mState \in {"End", "Start"} -> ConsumeStart(d, input)
      [] d.mState = "Length"           -> ConsumeLength(d, input)
      [] d.mState = "Content"          -> ConsumeContent(d, input)

reset(d) == NewDecoder

\* RawConnectionImpl::Decode: every character of the input, with Handle and
\* reset when a message is complete, until the input cannot be decoded.  s is
\* the decoder with the messages handled.
Step(s, input) ==
    LET d == Consume(s.decoder, input)
    IN  IF s.decoder.result = "false" THEN s
        ELSE IF d.result = "true"
        THEN [decoder |-> reset(d), handled |-> Append(s.handled, d.content_)]
        ELSE [s EXCEPT !.decoder = d]

Decode(d, input) == FoldLeft(Step, [decoder |-> d, handled |-> <<>>], input)
=============================================================================
