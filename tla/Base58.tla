------------------------------- MODULE Base58 -------------------------------
(* Base58::encode and Base58::decode.  A character is its place in the        *)
(* alphabet, or Foreign; a number is a sequence of digits, which the loops    *)
(* keep with the lowest one first.                                            *)
EXTENDS Integers, SequencesExt

Foreign == -1  \* any character that is not in the alphabet

(* while (carry > 0): the new digits that are left over. *)
CarryOut(carry, to) ==
    LET from[c \in Nat] == IF c = 0 THEN <<>> ELSE <<c % to>> \o from[c \div to]
    IN from[carry]

(* One round: digits * from + next, in base to. *)
TakeDigit(digits, next, from, to) ==
    LET carry[j \in 0..Len(digits)] ==
            IF j = 0 THEN next ELSE (carry[j - 1] + digits[j] * from) \div to
    IN [j \in 1..Len(digits) |-> (carry[j - 1] + digits[j] * from) % to]
       \o CarryOut(carry[Len(digits)], to)

Digits(in, from, to) ==
    LET upto[i \in 0..Len(in)] == IF i = 0 THEN <<0>> ELSE TakeDigit(upto[i - 1], in[i], from, to)
    IN upto[Len(in)]

Zeros(in) == SelectInSeq(Append(in, 1), LAMBDA d : d # 0) - 1

WithoutZeros(digits) == SubSeq(digits, Zeros(digits) + 1, Len(digits))

(* Both conversions: as many zeros in front as the input has, and the value   *)
(* without high zeros.                                                        *)
Rebase(in, from, to) ==
    [i \in 1..Zeros(in) |-> 0] \o WithoutZeros(Reverse(Digits(in, from, to)))

Encode(bytes) == IF bytes = <<>> THEN <<>> ELSE Rebase(bytes, 256, 58)

(* The size without the one for rounding. *)
BufferSize_NoExtra(length) == (length * 137) \div 100

(* The buffer encode() fills; it is not checked against. *)
BufferSize(length) == (length * 137) \div 100 + 1

Valid(text) == \A i \in DOMAIN text : text[i] # Foreign

(* The high zeros of the result are stripped, and none put in front. *)
Decode_DropsZeros(text) == WithoutZeros(Reverse(Digits(text, 58, 256)))

(* decode() of a text that is Valid; of any other it throws. *)
Decode(text) == IF text = <<>> THEN <<>> ELSE Rebase(text, 58, 256)
=============================================================================
