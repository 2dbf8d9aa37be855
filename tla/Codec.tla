-------------------------------- MODULE Codec --------------------------------
(***************************************************************************)
(* The encoding of the messages and the framing of PDUs: the functions of  *)
(* src/messages/messages.c, what they use of asn1crt.c, and the macros of  *)
(* src/common/pdu.h.                                                       *)
(*                                                                         *)
(* Every field of the two messages fills whole bytes: a length and a size  *)
(* in 1..256 take eight bits each, and an integer takes as many bytes as   *)
(* its length says, counting the zeros or ones that are put in front of    *)
(* it.  The bit stream is therefore a sequence of bytes here, and what     *)
(* asn1crt.c does bit by bit is done byte by byte.                         *)
(***************************************************************************)
EXTENDS Integers, Sequences, SequencesExt

CONSTANTS
    Radix,          \* the values of a byte, 256
    WORD_SIZE,      \* the bytes of an asn1SccSint, 8
    BUFFER_KSIZE    \* the bytes of every buffer, 1024

PDU_HEADER_LENGTH == 2

\* What the code takes for granted: the length of an integer fits a byte; the
\* longest message, with its header, fits a buffer; and so does everything that
\* a decoder may read when the bytes it finds are not a message.
ASSUME CodecAssumption ==
    /\ Radix \in Nat /\ Radix % 2 = 0 /\ Radix > WORD_SIZE
    /\ WORD_SIZE \in Nat \ {0}
    /\ BUFFER_KSIZE \in Nat
    /\ PDU_HEADER_LENGTH + 3 + WORD_SIZE + 2 * Radix <= BUFFER_KSIZE
    /\ 3 * Radix + 2 <= BUFFER_KSIZE
    /\ BUFFER_KSIZE <= Radix * Radix

Byte == 0 .. Radix - 1

\* So many values have n bytes.
Values[n \in Nat] == IF n = 0 THEN 1 ELSE Radix * Values[n - 1]

asn1SccSint == -(Values[WORD_SIZE] \div 2) .. Values[WORD_SIZE] \div 2 - 1

\* SIZE(1 .. 256): one more than a byte counts to.  A message with a field of
\* another size is not encoded.
IsConstraintValid(arr) == Len(arr) \in 1 .. Radix

-----------------------------------------------------------------------------

\* The bytes of an unsigned number that must leave room for a sign bit.
GetLengthSIntHelper(v) ==
    CHOOSE n \in 1 .. WORD_SIZE :
        /\ v < Values[n] \div 2
        /\ n > 1 => v >= Values[n - 1] \div 2

\* Fault: the sign bit is not counted.
GetLengthInBytesOfUInt(v) ==
    CHOOSE n \in 1 .. WORD_SIZE :
        /\ (IF v >= 0 THEN v ELSE -v - 1) < Values[n]
        /\ n > 1 => (IF v >= 0 THEN v ELSE -v - 1) >= Values[n - 1]

GetLengthInBytesOfSInt(v) ==
    GetLengthSIntHelper(IF v >= 0 THEN v ELSE -v - 1)

\* The byte that is stored; to negate it is to turn all of its bits.
AppendByte(v, negate) == IF negate THEN Radix - 1 - v ELSE v

\* The n bytes of half a word, the most significant one first, with the zeros
\* or ones in front of it that the caller appends.
EncodeNonNegativeInteger32Neg(v, n, negate) ==
    [i \in 1 .. n |-> AppendByte((v \div Values[n - i]) % Radix, negate)]

\* The values of half a word.
HalfWord == Values[WORD_SIZE \div 2]

\* What is longer than half a word is encoded as two halves.
EncodeNonNegativeInteger(v, n) ==
    LET h == WORD_SIZE \div 2
    IN  IF v < HalfWord THEN EncodeNonNegativeInteger32Neg(v, n, FALSE)
        ELSE EncodeNonNegativeInteger32Neg(v \div HalfWord, n - h, FALSE)
                \o EncodeNonNegativeInteger32Neg(v % HalfWord, h, FALSE)

\* The same negated; the lower half is turned as a whole.
EncodeNonNegativeIntegerNeg(v, n) ==
    LET h == WORD_SIZE \div 2
    IN  IF v < HalfWord THEN EncodeNonNegativeInteger32Neg(v, n, TRUE)
        ELSE EncodeNonNegativeInteger32Neg(v \div HalfWord, n - h, TRUE)
                \o EncodeNonNegativeInteger32Neg(HalfWord - 1 - (v % HalfWord), h,
                                                 FALSE)

EncodeUnConstraintWholeNumber(v) ==
    LET n == GetLengthInBytesOfSInt(v)
    IN  <<n>> \o (IF v >= 0 THEN EncodeNonNegativeInteger(v, n)
                  ELSE EncodeNonNegativeIntegerNeg(-v - 1, n))

\* A size between 1 and 256.
EncodeConstraintWholeNumber(v) == <<v - 1>>

OctetString_Encode(arr) == EncodeConstraintWholeNumber(Len(arr)) \o arr

InputType_Encode(m) ==
    EncodeUnConstraintWholeNumber(m.invokeid) \o OctetString_Encode(m.command)

OutputType_Encode(m) ==
    EncodeUnConstraintWholeNumber(m.invokeid)
        \o OctetString_Encode(m.command) \o OctetString_Encode(m.result)

-----------------------------------------------------------------------------

\* decode_*_pdu copies the PDU into a buffer of zeros: a message that ends too
\* early goes on with zeros until the end of the buffer.
BitStream(pdu) ==
    [i \in 1 .. BUFFER_KSIZE |-> IF i <= Len(pdu) THEN pdu[i] ELSE 0]

\* The word that is left of v when the upper bits are lost.
Word(v) ==
    LET half == Values[WORD_SIZE] \div 2
    IN  ((v + half) % Values[WORD_SIZE]) - half

\* An integer of n bytes from position at: more bytes than a word has are
\* shifted out of it.
DecodeInteger(stream, at, n) ==
    LET value[i \in 0 .. n] ==
            IF i = 0
              THEN IF stream[at] >= Radix \div 2 THEN -1 ELSE 0
              ELSE Word(value[i - 1] * Radix + stream[at + i - 1])
    IN  IF n = 0 THEN 0 ELSE value[n]

DecodeConstraintWholeNumber(b) == b + 1

\* The octet string whose size is at position at.
DecodeOctets(stream, at) ==
    [i \in 1 .. DecodeConstraintWholeNumber(stream[at]) |-> stream[at + i]]

\* The tests for the end of the data (ERR_INSUFFICIENT_DATA) cannot fail: what
\* the lengths ask for at most is in the buffer, see CodecAssumption.
InputType_Decode(pdu) ==
    LET stream == BitStream(pdu)
        n == stream[1]
    IN  [invokeid |-> DecodeInteger(stream, 2, n),
         command  |-> DecodeOctets(stream, n + 2)]

OutputType_Decode(pdu) ==
    LET stream == BitStream(pdu)
        n == stream[1]
        command == DecodeOctets(stream, n + 2)
    IN  [invokeid |-> DecodeInteger(stream, 2, n),
         command  |-> command,
         result   |-> DecodeOctets(stream, n + 3 + Len(command))]

-----------------------------------------------------------------------------

\* Fault: the header counts itself.
FrameCountingHeader(pdu) ==
    LET length == Len(pdu) + PDU_HEADER_LENGTH
    IN  <<length \div Radix, length % Radix>> \o pdu

\* write_pdu_to_send_buffer: the header is the length in network byte order.
Frame(pdu) == <<Len(pdu) \div Radix, Len(pdu) % Radix>> \o pdu

\* ntohs of the header at position at.
HeaderAt(buffer, at) == buffer[at] * Radix + buffer[at + 1]

\* Is there a PDU in the buffer from position at on?
CompleteAt(buffer, at) ==
    LET available == Len(buffer) - at + 1
    IN  /\ available >= PDU_HEADER_LENGTH
        /\ HeaderAt(buffer, at) > 0
        /\ HeaderAt(buffer, at) <= available - PDU_HEADER_LENGTH

\* Where the loop of read_pdus_from_recv_buffer is after n PDUs.
Boundary(buffer) ==
    LET at[n \in Nat] ==
            IF n = 0 THEN 1
            ELSE LET b == at[n - 1]
                 IN  IF CompleteAt(buffer, b)
                       THEN b + PDU_HEADER_LENGTH + HeaderAt(buffer, b)
                       ELSE b
    IN  at

PduCount(buffer) ==
    CHOOSE n \in 0 .. Len(buffer) :
        /\ ~CompleteAt(buffer, Boundary(buffer)[n])
        /\ \A i \in 0 .. n - 1 : CompleteAt(buffer, Boundary(buffer)[i])

\* read_pdus_from_recv_buffer: the PDUs it puts into pdus, in order, ...
PdusIn(buffer) ==
    [i \in 1 .. PduCount(buffer) |->
        SubSeq(buffer, Boundary(buffer)[i - 1] + PDU_HEADER_LENGTH,
               Boundary(buffer)[i] - 1)]

\* ... and what it leaves in the buffer.
RestOf(buffer) ==
    SubSeq(buffer, Boundary(buffer)[PduCount(buffer)], Len(buffer))
=============================================================================
