------------------------------ MODULE MCPrequeue ------------------------------
(* Two titles of two profiles; the tablet hands over to the stream a worker finds. *)
EXTENDS Prequeue

MCOwner == [k \in Keys |-> IF k = "film" THEN "ada" ELSE "bob"]
MCBrings == [p \in Players |-> IF p = "tv" THEN "other" ELSE "found"]
==============================================================================
