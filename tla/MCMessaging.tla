---------------------------- MODULE MCMessaging ----------------------------
(***************************************************************************)
(* Instance of Messaging for TLC.                                          *)
(***************************************************************************)
EXTENDS MessagingHandover, TLC

CONSTANTS s1, s2, w1, w2, c1, c2, k1, k2, r1, r2
=============================================================================
