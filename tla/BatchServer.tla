---------------------------- MODULE BatchServer ----------------------------
(***************************************************************************)
(* What the request scheduler promises, without saying how: requests wait  *)
(* in one FIFO queue, the request at its head enters a batch that has room *)
(* for it, stays in that batch while it is served, and leaves it once.     *)
(***************************************************************************)
EXTENDS Naturals, Sequences, FiniteSets

CONSTANTS Requests,   \* identities of requests
          Batches,    \* the data-parallel batches
          Capacity    \* how many requests a batch serves at a time

VARIABLES waiting,    \* the FIFO queue
          serving     \* the set of requests in each batch

served == UNION {serving[b] : b \in Batches}
queued == {waiting[k] : k \in 1..Len(waiting)}

Init == /\ waiting = <<>>
        /\ serving = [b \in Batches |-> {}]

\* A request that is nowhere in the server joins the end of the queue.
Arrive(r) == /\ r \notin served \union queued
             /\ waiting' = Append(waiting, r)
             /\ UNCHANGED serving

\* The head of the queue enters a batch with room.
Admit(b) == /\ waiting # <<>>
            /\ Cardinality(serving[b]) < Capacity
            /\ serving' = [serving EXCEPT ![b] = @ \union {Head(waiting)}]
            /\ waiting' = Tail(waiting)

\* Requests that are being served leave, several at a time perhaps.
Complete(S) == /\ S # {}
               /\ S \subseteq served
               /\ serving' = [b \in Batches |-> serving[b] \ S]
               /\ UNCHANGED waiting

Next == \/ \E r \in Requests : Arrive(r)
        \/ \E b \in Batches : Admit(b)
        \/ \E S \in SUBSET Requests : Complete(S)

Spec == Init /\ [][Next]_<<waiting, serving>>

\* A free slot never stays idle beside a waiting request, and every request
\* that is served leaves in the end.
Fairness ==
  /\ WF_<<waiting, serving>>(\E b \in Batches : Admit(b))
  /\ \A r \in Requests :
       WF_<<waiting, serving>>(\E S \in SUBSET Requests :
                                 r \in S /\ Complete(S))

FairSpec == Spec /\ Fairness
=============================================================================
