----------------------------- MODULE PdaSearch -----------------------------
(* PublicKey::findProgramAddressSync: try the bump seeds from the largest     *)
(* down until one derives an address that is not on the ed25519 curve.        *)
(* SHA-256 and the curve are the set of bumps whose address is off the curve. *)
EXTENDS Integers

CONSTANTS
    MaxBump  \* the largest value of the uint8_t bump seed, 255

ASSUME BumpAssumption == MaxBump \in Nat

VARIABLES
    offCurve,  \* the bumps that, with the caller's seeds, derive a valid address
    seedsFit,  \* every seed of the caller is at most 32 bytes
    bump,      \* the loop variable
    outcome    \* "searching", "found" or "error"

vars == <<offCurve, seedsFit, bump, outcome>>

Init ==
    /\ offCurve \in SUBSET (0..MaxBump)
    /\ seedsFit \in BOOLEAN
    /\ bump = MaxBump
    /\ outcome = "searching"

(* createProgramAddressSync returns: no seed is too long and the address is   *)
(* off the curve.  Otherwise it throws, and the search goes on.               *)
Derives(b) == seedsFit /\ b \in offCurve

Found ==
    /\ outcome = "searching" /\ bump >= 0
    /\ Derives(bump)
    /\ outcome' = "found"
    /\ UNCHANGED <<offCurve, seedsFit, bump>>

(* The loop variable is unsigned: it never gets below zero. *)
TryNext_Unsigned ==
    /\ outcome = "searching" /\ bump >= 0
    /\ ~Derives(bump)
    /\ bump' = IF bump = 0 THEN MaxBump ELSE bump - 1
    /\ UNCHANGED <<offCurve, seedsFit, outcome>>

(* The loop steps before it tries. *)
TryNext_SkipsOne ==
    /\ outcome = "searching" /\ bump >= 0
    /\ ~Derives(bump)
    /\ bump' = bump - 2
    /\ UNCHANGED <<offCurve, seedsFit, outcome>>

TryNext ==
    /\ outcome = "searching" /\ bump >= 0
    /\ ~Derives(bump)
    /\ bump' = bump - 1
    /\ UNCHANGED <<offCurve, seedsFit, outcome>>

(* "Could not find a valid PDA" *)
GiveUp ==
    /\ outcome = "searching" /\ bump < 0
    /\ outcome' = "error"
    /\ UNCHANGED <<offCurve, seedsFit, bump>>

Finished == outcome # "searching" /\ UNCHANGED vars

Next == Found \/ TryNext \/ GiveUp \/ Finished

(* The loop does not block. *)
Spec == Init /\ [][Next]_vars /\ WF_vars(Next)

-----------------------------------------------------------------------------
(* Properties.                                                                *)

(* The loop variable is a valid bump, or -1 when all of them were tried: it   *)
(* is an int, so that counting down past zero ends the loop.                  *)
TypeOK ==
    /\ offCurve \in SUBSET (0..MaxBump)
    /\ seedsFit \in BOOLEAN
    /\ bump \in -1..MaxBump
    /\ outcome \in {"searching", "found", "error"}
    /\ outcome = "found" => bump >= 0

(* The bump returned is the canonical one, the largest that derives an        *)
(* address off the curve: programs on chain compute the same one; and the     *)
(* search fails only if there is nothing to find (publicKey.cpp:129-149).     *)
CanonicalBump ==
    /\ outcome = "found" => bump \in offCurve /\ \A b \in offCurve : b <= bump
    /\ outcome = "error" => ~seedsFit \/ offCurve = {}

=============================================================================
