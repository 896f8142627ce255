---------------------------- MODULE MCAcquisition ----------------------------
(* Values of the bounds of Acquisition for TLC: one start followed nearly  *)
(* twice through data_buffer, and two starts, each past its end.           *)
EXTENDS Acquisition

MCScopes == {<<1, 14>>, <<2, 9>>}
MCLossScopes == {<<1, 14>>}
===============================================================================
