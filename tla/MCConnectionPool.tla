--------------------------- MODULE MCConnectionPool ---------------------------
(* The one key and two of the ten messages of main.                         *)
EXTENDS ConnectionPool

CONSTANT k1

MCKey == {k1}
=============================================================================
