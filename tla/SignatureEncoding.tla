--------------------------- MODULE SignatureEncoding --------------------------
(***************************************************************************)
(* What becomes of a signature: tss-lib's (R, S), the bytes a participant  *)
(* makes of it and stores as hex with the session, and their verification  *)
(* by the signing service that polled them.                                *)
(*                                                                         *)
(* A byte is a digit below Base, negative as a sign bit from Base / 2; a   *)
(* scalar has Size bytes (256 and 32 in the code).  Verification stands    *)
(* for its first half, reading the bytes back: a pair that is read as it   *)
(* was made verifies, by the correctness of tss-lib.                       *)
(***************************************************************************)
EXTENDS Naturals, Sequences, SequencesExt

CONSTANTS
    Base,
    Size,
    Engines   \* of "gg18", "gg20" and "frost"

ASSUME EncodingAssumption ==
    /\ Base \in Nat /\ Base > 2 /\ Base % 2 = 0
    /\ Size \in Nat \ {0}
    /\ Engines \subseteq {"gg18", "gg20", "frost"}

VARIABLES
    engine,     \* the engine of the key's protocol
    phase,      \* "signing", "signed", "completed", "answered"
    pair,       \* tss-lib's R and S
    signature,  \* Signature.Bytes, kept as hex in the session
    parsed      \* the pair read from it, or Refused

EncodingVars == <<engine, phase, pair, signature, parsed>>

Bytes == 0 .. Base - 1
Negative(byte) == byte >= Base \div 2

Sequence == 48
Integer == 2
Refused == << >>

\* big.Int.Bytes: no leading zero.
Scalars == {x \in UNION {[1 .. n -> Bytes] : n \in 1 .. Size} : x[1] # 0}

\* Fault: short scalars are filled up at the wrong end.
padScalarBytesRight(src) ==
    src \o [i \in 1 .. Size - Len(src) |-> 0]

padScalarBytes(src) ==
    IF Len(src) >= Size THEN SubSeq(src, Len(src) - Size + 1, Len(src))
    ELSE [i \in 1 .. Size - Len(src) |-> 0] \o src

\* Fault: the length counts the integers without their headers.
buildDERSignatureShort(r, s) ==
    <<Sequence, Len(r) + Len(s), Integer, Len(r)>> \o r \o <<Integer, Len(s)>> \o s

\* Both integers are written as they are, with no sign byte.
buildDERSignature(r, s) ==
    <<Sequence, Len(r) + Len(s) + 4, Integer, Len(r)>> \o r \o <<Integer, Len(s)>> \o s

convertTSSSignature(r, s) == buildDERSignature(padScalarBytes(r), padScalarBytes(s))

\* SignatureToStandardEd25519 checks the length.
convertFROSTSignature(r, s) == r \o s

-----------------------------------------------------------------------------
(* ecdsa.ParseDERSignature                                                 *)

Trimmed(x) ==
    LET digits == {i \in 1 .. Len(x) : x[i] # 0}
    IN  IF digits = {} THEN << >>
        ELSE SubSeq(x, CHOOSE i \in digits : \A j \in digits : i <= j, Len(x))

\* Not negative, not zero, and no zero byte that is not needed for the sign.
Canonical(x) ==
    /\ x # << >> /\ ~ Negative(x[1]) /\ Trimmed(x) # << >>
    /\ Len(x) > 1 /\ x[1] = 0 => Negative(x[2])

ParseDERSignature(der) ==
    LET n == der[4]
        r == SubSeq(der, 5, 4 + n)
        s == SubSeq(der, 7 + n, Len(der))
        wellFormed ==
            /\ Len(der) >= 8 /\ der[1] = Sequence /\ der[2] = Len(der) - 2
            /\ der[3] = Integer /\ 6 + n < Len(der)
            /\ der[5 + n] = Integer /\ der[6 + n] = Len(s)
    IN  IF wellFormed /\ Canonical(r) /\ Canonical(s) THEN <<Trimmed(r), Trimmed(s)>> ELSE Refused

-----------------------------------------------------------------------------
EncodingInit ==
    /\ engine \in Engines
    /\ phase = "signing" /\ pair = << >> /\ signature = << >> /\ parsed = Refused

\* The engine's ThresholdSign ends: tss-lib's signature is converted.
EngineSigns ==
    /\ phase = "signing" /\ phase' = "signed"
    /\ \E r, s \in IF engine = "frost" THEN [1 .. Size -> Bytes] ELSE Scalars :
         /\ pair' = <<r, s>>
         /\ signature' = IF engine = "frost" THEN convertFROSTSignature(r, s)
                         ELSE convertTSSSignature(r, s)
    /\ UNCHANGED <<engine, parsed>>

\* The participant completes the session with the hex string.
CompleteSession ==
    /\ phase = "signed" /\ phase' = "completed"
    /\ UNCHANGED <<engine, pair, signature, parsed>>

\* signing.Service.ThresholdSign or Verify: the engine reads the bytes.
VerifySignature ==
    /\ phase = "completed" /\ phase' = "answered"
    /\ parsed' = IF engine = "frost"
                 THEN IF Len(signature) = 2 * Size
                      THEN <<SubSeq(signature, 1, Size), SubSeq(signature, Size + 1, 2 * Size)>>
                      ELSE Refused
                 ELSE ParseDERSignature(signature)
    /\ UNCHANGED <<engine, pair, signature>>

EncodingNext == EngineSigns \/ CompleteSession \/ VerifySignature

EncodingSpec == EncodingInit /\ [][EncodingNext]_EncodingVars

-----------------------------------------------------------------------------
(* Properties                                                              *)

\* The bytes are never read as another pair than tss-lib made: a signature is
\* returned as it was made, or refused.
NeverMisread == phase = "answered" /\ parsed # Refused => parsed = pair

\* Of an ECDSA signature, both scalars have a top bit within the eight bits below
\* the highest: then their fixed length is the canonical one.
FitsFixedLength(x) ==
    \/ Len(x) = Size /\ ~ Negative(x[1])
    \/ Len(x) = Size - 1 /\ Negative(x[1])

\* Exactly these signatures, and all of FROST, come back as they were made; the
\* others are refused after the participants have signed.
AcceptedExactly ==
    phase = "answered" =>
        (parsed = pair <=> engine = "frost" \/ \A i \in 1 .. 2 : FitsFixedLength(pair[i]))

=============================================================================
