------------------------------ MODULE ByteStream ------------------------------
(***************************************************************************)
(* What a reader of one stored file promises its consumer: the pieces of    *)
(* the content, numbered from 1, one after the other and each once; the end *)
(* of the file only after the last of them; and otherwise a failure. A      *)
(* consumer that closes the reader, or whose context ends, is promised no   *)
(* end and may miss pieces, but none comes twice or before an earlier one.  *)
(***************************************************************************)
EXTENDS Naturals, Sequences

CONSTANT Total   \* pieces of the content, a natural number

VARIABLES
    out,  \* the pieces delivered
    end   \* how the stream ended, if it did

Ends == {"open", "eof", "failed", "abandoned"}

Latest == IF out = <<>> THEN 0 ELSE out[Len(out)]

Init == out = <<>> /\ end = "open"

Deliver ==
    /\ end = "open"
    /\ Len(out) < Total
    /\ out' = Append(out, Len(out) + 1)
    /\ UNCHANGED end

DeliverLeftover ==
    /\ end = "abandoned"
    /\ \E piece \in 1..Total : piece > Latest /\ out' = Append(out, piece)
    /\ UNCHANGED end

Finish == end = "open" /\ Len(out) = Total /\ end' = "eof" /\ UNCHANGED out
Break == end = "open" /\ end' = "failed" /\ UNCHANGED out
Abandon == end' = "abandoned" /\ UNCHANGED out

Next == Deliver \/ DeliverLeftover \/ Finish \/ Break \/ Abandon

Spec == Init /\ [][Next]_<<out, end>>
==============================================================================
