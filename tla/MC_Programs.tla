----------------------------- MODULE MC_Programs -----------------------------
EXTENDS Programs

(* Keys of two bytes: with zeros in front, between and behind, and the        *)
(* largest.                                                                   *)
Zero == <<0, 0>>
A == <<0, 1>>
B == <<57, 0>>
C == <<255, 255>>
D == <<1, 2>>

Request(builder, meant, at, numbers, seed) ==
    [builder |-> builder, meant |-> meant, texts |-> [i \in DOMAIN meant |-> Encode(meant[i])],
     at |-> at, numbers |-> numbers, seed |-> seed]

(* 0, 1 above a byte, and the largest u64 and u32 with bytes of ByteRange.    *)
Most(width) == ByteRange ^ width - 1
Numbers == {0, ByteRange + 1, Most(8)}
Seeds == {<<>>, <<3, 1, 2, 0, 3>>}

Builds ==
    UNION {{
        Request("transfer", <<C>>, 2, <<x>>, <<>>),
        Request("createAccount", <<A, B, Zero>>, 0, <<x, 5>>, <<>>),
        Request("assign", <<C>>, 1, <<>>, <<>>),
        Request("allocate", <<>>, 1, <<x>>, <<>>),
        Request("createAccountWithSeed", <<A, B, C, D>>, 0, <<x, 9>>, s),
        Request("transferWithSeed", <<B, C, D>>, 1, <<x>>, s),
        Request("advanceNonceAccount", <<A>>, 1, <<>>, <<>>),
        Request("withdrawNonceAccount", <<A, B, C>>, 0, <<x>>, <<>>),
        Request("initializeNonceAccount", <<A, D>>, 0, <<>>, <<>>),
        Request("authorizeNonceAccount", <<A, B, C>>, 0, <<>>, <<>>),
        Request("setComputeUnitLimit", <<>>, 0, <<Most(4)>>, <<>>),
        Request("setComputeUnitPrice", <<>>, 0, <<x>>, <<>>),
        Request("tokenTransfer", <<A, B>>, 2, <<x>>, <<>>),
        Request("transferChecked", <<A, B, C>>, 3, <<x, 2>>, <<>>),
        Request("mintTo", <<A, B>>, 2, <<x>>, <<>>),
        Request("burn", <<A, B>>, 1, <<x>>, <<>>),
        Request("closeAccount", <<A, B>>, 1, <<>>, <<>>),
        Request("createAssociatedTokenAccount", <<A, B, C>>, 2, <<>>, <<>>)}
        : x \in Numbers, s \in Seeds}

(* Texts of other lengths, of a character that is not in the alphabet, and of *)
(* a key between two others.                                                  *)
Misread == {<<>>, <<0>>, <<0, 0, 0>>, <<0, 0, 5>>, <<57, 57, 57>>, <<1, Foreign, 3>>}

Misreads ==
    {[Request("authorizeNonceAccount", <<A, NoKey, C>>, 0, <<>>, <<>>)
         EXCEPT !.texts[2] = text] : text \in Misread}

MCRequests == Builds \cup Misreads
=============================================================================
