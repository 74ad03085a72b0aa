------------------------------ MODULE MCStream ------------------------------
(* Files of at most six bytes in records of two. *)
EXTENDS Stream

MCModes == {"r", "w", "a", "r+", "w+", "a+"}
MCWriteModes == {"w", "r+", "a+"}
MCFiles == {<<>>, <<CR, 67, CR>>}
MCOffsets == {-1, 0, 3}
=============================================================================
