--------------------------- MODULE MCUdpTransfer ----------------------------
(***************************************************************************)
(* Files of one chunk and of two chunks for the clients.                   *)
(***************************************************************************)
EXTENDS UdpTransfer

CONSTANTS k1, k2

PaczkiDwoch == [c \in Klienci |-> IF c = k1 THEN 2 ELSE 1]
PaczkiPoDwie == [c \in Klienci |-> 2]
PaczkaJedna == [c \in Klienci |-> 1]
=============================================================================
