--------------------------- MODULE MCLongConnection ---------------------------
(* Two servers, two messages.                                                *)
EXTENDS LongConnection

CONSTANTS A, B

MCServer == {A, B}
=============================================================================
