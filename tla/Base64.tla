------------------------------- MODULE Base64 -------------------------------
(* base64Encode of transaction.cpp and base64DecodeRpc of rpc_client.cpp.  A  *)
(* character is the number it stands for, or Pad.                             *)
EXTENDS Integers, SequencesExt

Pad == 64

SixBits(val, shift) == (val \div 2 ^ shift) % 64

(* Up to three bytes make four characters. *)
EncodeGroup(bytes) ==
    LET At(i) == IF i <= Len(bytes) THEN bytes[i] ELSE 0
        val == At(1) * 65536 + At(2) * 256 + At(3)
    IN <<SixBits(val, 18), SixBits(val, 12),
         IF Len(bytes) > 1 THEN SixBits(val, 6) ELSE Pad,
         IF Len(bytes) > 2 THEN SixBits(val, 0) ELSE Pad>>

Base64Encode(data) ==
    LET GroupEnd(g) == IF 3 * g < Len(data) THEN 3 * g ELSE Len(data)
    IN FlattenSeq([g \in 1..((Len(data) + 2) \div 3) |->
                      EncodeGroup(SubSeq(data, 3 * g - 2, GroupEnd(g)))])

(* The int in which the decoder accumulates loses its high bits; only the     *)
(* lowest 14 of them are ever used. *)
Accumulate(val, c) == (val * 64 + c) % 2 ^ 14

EightBits(val, shift) == (val \div 2 ^ shift) % 256

(* A byte is taken only when bits are left over. *)
DecodeCharacter_LeftOver(acc, c) ==
    LET val == Accumulate(acc.val, c)
        valb == acc.valb + 6
    IN IF valb <= 0 THEN [val |-> val, valb |-> valb, out |-> acc.out]
       ELSE [val |-> val, valb |-> valb - 8, out |-> Append(acc.out, EightBits(val, valb))]

(* One round of the decoder's loop.                                           *)
DecodeCharacter(acc, c) ==
    LET val == Accumulate(acc.val, c)
        valb == acc.valb + 6
    IN IF valb < 0 THEN [val |-> val, valb |-> valb, out |-> acc.out]
       ELSE [val |-> val, valb |-> valb - 8, out |-> Append(acc.out, EightBits(val, valb))]

(* What comes before position i, or all if i is 0. *)
UpTo(seq, i) == IF i = 0 THEN seq ELSE SubSeq(seq, 1, i - 1)

(* The first character that is not one of the 64. *)
EndOfText(in) == SelectInSeq(in, LAMBDA c : c \notin 0..63)

(* Decoding stops there. *)
Base64Decode(in) ==
    LET text == UpTo(in, EndOfText(in))
        after[i \in 0..Len(text)] ==
            IF i = 0 THEN [val |-> 0, valb |-> -8, out |-> <<>>]
            ELSE DecodeCharacter(after[i - 1], text[i])
    IN after[Len(text)].out
=============================================================================
