--------------------------- MODULE MCMessageServer ---------------------------
(* Three messages, one of which may read EXIT, and one signal: messages meet *)
(* the message thread in every place, before, during and after stop().       *)
EXTENDS MessageServer

MCData == {"EXIT", "hello"}
=============================================================================
