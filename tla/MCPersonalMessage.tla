------------------------- MODULE MCPersonalMessage -------------------------
(* Small instances of PersonalMessage for TLC. *)
EXTENDS PersonalMessage, TLC

CONSTANTS i1, i2, c1, c2, h1, h2, h3

DeliverySymmetry ==
    Permutations(Intents) \cup Permutations(Calls) \cup Permutations(Handlers)
=============================================================================
