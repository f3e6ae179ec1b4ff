----------------------------- MODULE MCChecksum -----------------------------
(***************************************************************************)
(* Every input of the checksum up to MaxLen bytes, one byte at a time.     *)
(***************************************************************************)
EXTENDS Checksum

CONSTANT MaxLen     \* bound: the longest input

VARIABLE input      \* the bytes of the input

InputInit == input = <<>>

InputNext == Len(input) < MaxLen /\ \E b \in 0..(ByteMod - 1) : input' = Append(input, b)

InputSpec == InputInit /\ [][InputNext]_input

\* However many bytes remain after the last whole chunk, an odd one included, and
\* wherever carries cross lanes or pile up, adding whole chunks and folding once is the
\* checksum of RFC 1071; so are the always folding and the range checked versions,
\* beyond the length at which their accumulator would have overflowed as well, and the
\* version without overflow checks up to DEFERRED_CARRIES_MAX_BYTES.
MatchesRfc1071 ==
    /\ Calculate(input) = Rfc1071(input)
    /\ AlwaysFoldedCksum(input) = Rfc1071(input)
    /\ RangeCheckedCksum(input) = Rfc1071(input)
    /\ Len(input) <= DeferredCarriesMaxBytes => NaiveWrappingCksum(input) = Rfc1071(input)
=============================================================================
