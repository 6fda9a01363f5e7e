------------------------- MODULE MCNotificationQueue -------------------------
(* Two rows of one IDEA LINK post, for TLC. *)
EXTENDS NotificationQueue, TLC

CONSTANTS n1, n2, r1

OfAPost == n1 :> "thanks" @@ n2 :> "thanks"
=============================================================================
