----------------------------- MODULE MCWebhooks -----------------------------
(* WebhookDelivery for TLC. *)
EXTENDS WebhookDelivery, TLC
=============================================================================
