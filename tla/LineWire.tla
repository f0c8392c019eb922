------------------------------ MODULE LineWire ------------------------------
(***************************************************************************)
(* Messages through a socket, character by character: EncodeMessage and    *)
(* SharedConstBuffers at the end that writes, ProtobufDecoder at the one   *)
(* that reads.  A write takes as many characters as the kernel likes, a    *)
(* read returns as many as have arrived, up to kBufferSize: neither knows  *)
(* of messages.                                                            *)
(***************************************************************************)
EXTENDS SharedConstBuffers, ProtobufDecoder

CONSTANTS
    Messages,       \* the contents that may be sent
    kBufferSize,
    MaxMessages     \* bound: messages sent

ASSUME WireAssumption ==
    /\ Base \in Nat \ {0, 1} /\ kBufferSize \in Nat \ {0}
    /\ Colon \notin Digits
    /\ Messages \subseteq Valid /\ <<>> \notin Messages
    /\ \A m \in Messages : Len(m) < Base ^ MaxDigits

VARIABLES
    outcoming,      \* the buffers being written
    wire,           \* characters in the network
    decoder_,
    sent, handled   \* the messages pushed, and those given to Handle

vars == <<outcoming, wire, decoder_, sent, handled>>

Concat(seqs) == FlattenSeq(seqs)

PushData(m) ==
    /\ Len(sent) < MaxMessages
    /\ sent' = Append(sent, m)
    /\ outcoming' = push(push(outcoming, EncodeMessage(m)[1]), EncodeMessage(m)[2])
    /\ UNCHANGED <<wire, decoder_, handled>>

\* async_write_some and HandleWrite: n characters left.
HandleWrite(n) ==
    /\ wire' = wire \o SubSeq(Concat(Rest(outcoming)), 1, n)
    /\ outcoming' = consume(outcoming, n)
    /\ UNCHANGED <<decoder_, sent, handled>>

\* async_read_some and HandleRead
HandleRead(n) ==
    LET s == Decode(decoder_, SubSeq(wire, 1, n))
    IN  /\ decoder_.result # "false"
        /\ decoder_' = s.decoder
        /\ handled' = handled \o s.handled
        /\ wire' = SubSeq(wire, n + 1, Len(wire))
        /\ UNCHANGED <<outcoming, sent>>

Init ==
    /\ outcoming = NewBuffers /\ wire = <<>> /\ decoder_ = NewDecoder
    /\ sent = <<>> /\ handled = <<>>

Next ==
    \/ \E m \in Messages : PushData(m)
    \/ \E n \in 1 .. size(outcoming) : HandleWrite(n)
    \/ \E n \in 1 .. Len(wire) : n <= kBufferSize /\ HandleRead(n)

Spec == Init /\ [][Next]_vars

-----------------------------------------------------------------------------
(* Properties                                                              *)

\* The variables have their types; mStart stays in mBuffer or right behind.
TypeOK ==
    /\ outcoming.mStart \in 1 .. Len(outcoming.mBuffer) + 1
    /\ decoder_.mState \in {"Start", "Length", "Content", "End"}
    /\ decoder_.result \in {"more", "true", "false"}
    /\ \A k \in DOMAIN handled : handled[k] \in Valid

Encoded(msgs) == Concat([k \in DOMAIN msgs |-> Concat(EncodeMessage(msgs[k]))])

\* The characters of a message the decoder has so far.
Partial(d) ==
    CASE d.mState = "Start"   -> <<>>
      [] d.mState = "Length"  -> d.length_store_
      [] d.mState = "Content" -> d.length_store_ \o <<Colon>> \o d.content_

\* Wherever writes and reads cut the stream, no character is lost, repeated
\* or moved: what was handled, what the decoder holds, what is in the network
\* and what consume left is what was sent, and the decoder never fails.
NothingLost ==
    /\ decoder_.result # "false"
    /\ Encoded(handled) \o Partial(decoder_) \o wire \o Concat(Rest(outcoming))
         = Encoded(sent)

\* Messages are handled as they were sent, in this order, and each one as
\* soon as its last character is read: nothing that was read waits for more.
HandledAtOnce ==
    /\ IsPrefix(handled, sent)
    /\ wire = <<>> /\ empty(outcoming) => handled = sent

\* Only messages come out of the decoder, in the order sent and at once.
WireInv == TypeOK /\ HandledAtOnce
=============================================================================
