-------------------------- MODULE MCNotificationOutbox --------------------------
(***************************************************************************)
(* Instances of NotificationOutbox for TLC.                                *)
(***************************************************************************)
EXTENDS NotificationOutbox, TLC

CONSTANTS alice, n1, w1, w2

AliceOnly == [n \in Notices |-> alice]
=============================================================================
