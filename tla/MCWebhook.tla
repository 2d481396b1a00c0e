------------------------------ MODULE MCWebhook ------------------------------
(* Instances of the webhook's life for TLC. *)
EXTENDS WebhookProperties, TLC

CONSTANTS g1, g2, g3, h1, h2, h3, h4

=============================================================================
