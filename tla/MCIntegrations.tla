--------------------------- MODULE MCIntegrations ---------------------------
(***************************************************************************)
(* Instance of Integrations for TLC: e1 and e2 belong to c1, e3 to c2.        *)
(***************************************************************************)
EXTENDS IntegrationsHandover

CONSTANTS e1, e2, e3, c1, c2, w1, w2, r1, r2

MCConnectionOf == [d \in Deliveries |-> IF d = e3 THEN c2 ELSE c1]
=============================================================================
