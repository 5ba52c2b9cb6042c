------------------------------ MODULE Acceptor ------------------------------
(***************************************************************************)
(* The acceptor of one slot at one node (acceptor.cpp).                    *)
(***************************************************************************)
EXTENDS Message

AcceptorType == [maxProposed : Ballot, maxAccepted : Ballot,
                 maxValue : Value \cup {NULL}]

\* A new acceptor; the captain's constructor then sets maxProposed.
NewAcceptor(ballot) ==
  [maxProposed |-> ballot, maxAccepted |-> 0, maxValue |-> NULL]

\* handle_msg_prepare: the acceptor afterwards, and the answer
Promises(a, b) == b > a.maxProposed

OnPrepare(a, b) == IF Promises(a, b) THEN [a EXCEPT !.maxProposed = b] ELSE a

PromiseOf(a, b) ==
  IF Promises(a, b)
    THEN [reply |-> "yes", maxBallot |-> a.maxAccepted, maxValue |-> a.maxValue]
    ELSE [reply |-> "no", maxBallot |-> a.maxAccepted, maxValue |-> NULL]

\* Mutant: the comparison of the comment at acceptor.cpp:63.
Accepts_Strictly(a, b) == b > a.maxProposed

\* handle_msg_accept: a ballot equal to the promised one is accepted, and a
\* value with the id of the held one does not replace it
Accepts(a, b) == b >= a.maxProposed

OnAccept(a, b, v) ==
  IF Accepts(a, b)
    THEN [maxProposed |-> b, maxAccepted |-> b,
          maxValue |-> IF a.maxValue.id # v.id THEN v ELSE a.maxValue]
    ELSE a

AcceptedOf(a, b) == IF Accepts(a, b) THEN "yes" ELSE "no"
=============================================================================
