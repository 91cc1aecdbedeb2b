--------------------------- MODULE MCModelContext ---------------------------
(* An instance of ModelContext for TLC: short, long and longer messages. *)
EXTENDS ModelContext

SomeLengths == {<<1, 1>>, <<4, 2>>, <<6, 4>>}
=============================================================================
