-------------------------- MODULE MCWebhookDelivery --------------------------
(* Small instances of WebhookDelivery for TLC.                             *)
EXTENDS WebhookDelivery, TLC

\* Workers are interchangeable, and so are schedulers and webhooks.
Symmetry == Permutations(Workers) \cup Permutations(Schedulers)
                \cup Permutations(Webhooks)
==============================================================================
