----------------------------- MODULE MCDirectory -----------------------------
(* A club of two people, and the answers they may give.                      *)
EXTENDS Directory

CONSTANTS p1, p2, n1, n2

Answer(p, lower, name) ==
    [address |-> [who |-> p, lower |-> lower], name |-> name, nickname |-> Blank]

\* A usable answer, a correction in another spelling, somebody else's, and two
\* that nobody can use.
MCAnswers == {
    Answer(p1, TRUE, n1), Answer(p1, FALSE, n2), Answer(p2, FALSE, n1),
    Answer(p1, TRUE, Blank),
    [address |-> NoAddress, name |-> n1, nickname |-> TooLong] }
MCPeople == {p1, p2}
MCNames == {n1, n2}

Symmetric == Permutations(Requests)
==============================================================================
