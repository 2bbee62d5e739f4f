--------------------------- MODULE MCWebhookGate ---------------------------
(* Small instances of WebhookGate.                                         *)
EXTENDS WebhookGate

CONSTANTS e1, e2, k1, k2

\* With the event-id header every delivery of an event has the same key.
HeaderKeys == [ev \in Events |-> IF ev = e1 THEN {k1} ELSE {k2}]
=============================================================================
