-------------------------- MODULE MCStripeWebhook --------------------------
(* Small instances of StripeWebhook. *)
EXTENDS StripeWebhook, TLC

CONSTANTS u1, d1, d2, g1, sold, yearly, legacy

\* The slots of the webhook are alike.
SlotSymmetry == Permutations(Delivery)
=============================================================================
