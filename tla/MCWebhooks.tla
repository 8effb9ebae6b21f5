----------------------------- MODULE MCWebhooks -----------------------------
(* The instance of Webhooks for TLC: constants are set in WebhookQueue.cfg.
   It needs no symmetry, which its liveness property would not allow. *)
EXTENDS Webhooks
=============================================================================
