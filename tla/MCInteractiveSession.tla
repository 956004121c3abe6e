------------------------ MODULE MCInteractiveSession ------------------------
(* InteractiveSession needs no model values: the configurations give the     *)
(* amount of input and the room of the stream.                               *)
EXTENDS InteractiveSession
=============================================================================
