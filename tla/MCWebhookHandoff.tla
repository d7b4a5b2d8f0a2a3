-------------------------- MODULE MCWebhookHandoff --------------------------
(* Model values for TLC.  Deliveries outside Legacy are interchangeable, and *)
(* so are the handlers.                                                     *)
EXTENDS WebhookHandoff, TLC

CONSTANTS d1, d2, d3, r1, r2

AllDeliveries == {d1, d2, d3}
OldDeliveries == {d3}
AllRequests == {r1, r2}
OneRequest == {r1}

NewDeliveries == AllDeliveries \ Legacy
HandlerSymmetry == Permutations(NewDeliveries) \cup Permutations(AllRequests)
=============================================================================
