----------------------------- MODULE RangeAnswers -----------------------------
(***************************************************************************)
(* What a server of byte ranges promises the clients of one remote file: an *)
(* answer begins at the first byte asked for, goes on with the bytes of the  *)
(* file in their order, each once, and stops at the last one asked for or at *)
(* the end of the file. It may be cut short. A byte is its offset.          *)
(***************************************************************************)
EXTENDS Naturals, Sequences

CONSTANTS
    Requests,  \* answers in progress at one time
    Ranges,    \* pairs <<first byte, byte after the last>>
    Size       \* of the file

VARIABLE answer  \* to each request: its range and what was sent of it

None == [from |-> 0, to |-> 0, sent |-> <<>>]

Init == answer = [r \in Requests |-> None]

Begin(r, range) ==
    /\ answer[r] = None
    /\ answer' = [answer EXCEPT ![r] = [from |-> range[1], to |-> range[2], sent |-> <<>>]]

\* The n bytes of the file from pos on.
FileFrom(pos, n) == [i \in 1..n |-> pos + i - 1]

Send(r, n) ==
    LET pos == answer[r].from + Len(answer[r].sent) IN
    /\ pos + n <= answer[r].to /\ pos + n <= Size
    /\ answer' = [answer EXCEPT ![r].sent = @ \o FileFrom(pos, n)]

End(r) ==
    /\ answer[r] # None
    /\ answer' = [answer EXCEPT ![r] = None]

Next == \E r \in Requests :
    \/ \E range \in Ranges : Begin(r, range)
    \/ \E n \in 1..Size : Send(r, n)
    \/ End(r)

Spec == Init /\ [][Next]_answer
=============================================================================
