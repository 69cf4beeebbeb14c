--------------------------- MODULE MCWebhookOutbox ---------------------------
(* Small instances of WebhookOutbox for TLC. *)
EXTENDS WebhookOutbox, TLC

CONSTANTS r1, r2, p1, p2

RowSymmetry == Permutations(Rows)

(* p2's clock is one unit ahead. *)
SkewedClocks == p1 :> 0 @@ p2 :> 1
OneClock == p1 :> 0 @@ p2 :> 0
ShortBackoff == <<1, 2>>
=============================================================================
