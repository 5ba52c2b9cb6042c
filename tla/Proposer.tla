------------------------------ MODULE Proposer ------------------------------
(***************************************************************************)
(* The proposer of one slot at one node (proposer.cpp), with the status    *)
(* and the client name its captain keeps beside it (proposer_info_t).      *)
(* Status EMPTY: the captain's map proposers_ has no entry for the slot.   *)
(***************************************************************************)
EXTENDS Message

ProposerType ==
  [status    : {"EMPTY", "INIT", "PHASEI", "PHASEII"},
   client    : Request \cup {NoRequest},
   init      : Value \cup {NULL},
   ballot    : Ballot,
   value     : Value \cup {NULL},
   maxBallot : Ballot,
   maxValue  : Value \cup {NULL},
   promises  : [Node -> Promise],
   accepteds : [Node -> Answer]]

NoProposer ==
  [status |-> "EMPTY", client |-> NoRequest, init |-> NULL, ballot |-> 0,
   value |-> NULL, maxBallot |-> 0, maxValue |-> NULL,
   promises |-> [m \in Node |-> NoPromise],
   accepteds |-> [m \in Node |-> "none"]]

NewProposer(v, client) == [NoProposer EXCEPT !.init = v, !.client = client]

\* gen_next_ballot
NextBallot(b, n) == IF b = 0 THEN Radix + n ELSE b + Radix

\* The captain skips Phase I: gen_next_ballot, init_curr_value.
Skip(p, n) == [p EXCEPT !.ballot = NextBallot(@, n), !.value = p.init,
                        !.status = "PHASEII"]


\* restart_msg_prepare: the highest value heard of survives a restart
Restart(p, n) == [p EXCEPT !.ballot = NextBallot(@, n), !.value = NULL,
                           !.promises = NoProposer.promises,
                           !.accepteds = NoProposer.accepteds,
                           !.status = "INIT"]

AddPromise(p, m, ack) == [p EXCEPT !.promises[m] = ack, !.status = "PHASEI"]
AddAccepted(p, m, reply) == [p EXCEPT !.accepteds[m] = reply]

Promised(p) == {m \in Node : p.promises[m].reply # "none"}
PromisedYes(p) == {m \in Node : p.promises[m].reply = "yes"}
Answered(p) == {m \in Node : p.accepteds[m] # "none"}
AnsweredYes(p) == {m \in Node : p.accepteds[m] = "yes"}

\* The loop over msg_ack_prepare_, in node order: the first of the promises
\* with the highest ballot wins.
Newer(p) == {m \in PromisedYes(p) : p.promises[m].maxBallot > p.maxBallot}

Best(p) ==
  CHOOSE m \in Newer(p) : \A k \in Newer(p) :
    \/ p.promises[m].maxBallot > p.promises[k].maxBallot
    \/ p.promises[m].maxBallot = p.promises[k].maxBallot /\ m <= k

\* Mutant: values accepted by others are not taken over.
Adopt_Nothing(p) == p

Adopt(p) == IF Newer(p) = {} THEN p
            ELSE [p EXCEPT !.maxBallot = p.promises[Best(p)].maxBallot,
                           !.maxValue = p.promises[Best(p)].maxValue]

\* Mutant: no fallback to the own value.
Continue_NoFallback(p) == [p EXCEPT !.value = p.maxValue, !.status = "PHASEII"]

\* CONTINUE: the value for Phase II
Continue(p) == [p EXCEPT !.value = IF p.maxValue # NULL THEN p.maxValue
                                                        ELSE p.init,
                         !.status = "PHASEII"]

\* The verdict on the promises (accepted answers) collected so far: a single
\* no among the first QSize answers restarts.
PromiseVerdict(p) ==
  IF Cardinality(Promised(p)) < QSize THEN "NOT_ENOUGH"
  ELSE IF Cardinality(PromisedYes(p)) >= QSize THEN "CONTINUE" ELSE "RESTART"

\* Mutant: off by one in the number of answers needed.
AcceptedVerdict_OneLess(p) ==
  IF Cardinality(Answered(p)) < QSize - 1 THEN "NOT_ENOUGH"
  ELSE IF Cardinality(AnsweredYes(p)) >= QSize - 1 THEN "CHOOSE" ELSE "RESTART"

AcceptedVerdict(p) ==
  IF Cardinality(Answered(p)) < QSize THEN "NOT_ENOUGH"
  ELSE IF Cardinality(AnsweredYes(p)) >= QSize THEN "CHOOSE" ELSE "RESTART"
=============================================================================
