---------------------------- MODULE MCConfigSearch ----------------------------
(***************************************************************************)
(* The cells TLC searches, two configurations in each: A without replicas, *)
(* B with two.                                                             *)
(***************************************************************************)
EXTENDS ConfigSearch

Replicas == [A |-> 1, B |-> 2, auto |-> 1]

\* Of each cell: what the optimizer estimates and what the simulator measures,
\* for batches of 1, 2.. requests for each replica.
Points ==
  [ \* B comes first and wins; A's bound cannot beat it.
    pruned |-> [A |-> << <<5, 7, 9, 11>>, <<5, 7, 11>> >>,
                B |-> << <<6, 8>>, <<7, 9>> >>],
    \* B promises more and keeps less, with a larger batch than A's.
    promised |-> [A |-> << <<2, 3>>, <<3, 4>> >>,
                  B |-> << <<6, 7, 8>>, <<8, 11>> >>],
    \* A passes its hint and fails at its capacity; B does not run.
    between |-> [A |-> << <<5, 6, 7, 11, 12, 13>>, <<5, 7, 9, 10, 11>> >>,
                 B |-> << <<9>>, <<>> >>],
    \* The estimates are too high: A runs far beyond them.
    beyond |-> [A |-> << <<9, 12>>, <<5, 6, 7, 8, 8, 8>> >>,
                B |-> << <<>>, <<9>> >>],
    \* What fits is too slow, but not as the optimizer lays it out.
    slow |-> [A |-> << <<8>>, <<11>> >>, B |-> << <<>>, <<>> >>],
    \* Nothing fits, or only with a request for each replica.
    nothing |-> [A |-> << <<>>, <<>> >>, B |-> << <<>>, <<>> >>],
    replicas |-> [A |-> << <<>>, <<>> >>, B |-> << <<11>>, <<12>> >>] ]

SearchCells == DOMAIN Points
Slo == [c \in SearchCells |-> 10]
Estimates == [c \in SearchCells |-> [t \in {"A", "B"} |-> Points[c][t][1]]]
Measured ==
  [c \in SearchCells |-> [t \in {"A", "B", "auto"} |->
     IF t # "auto" THEN Points[c][t][2]
     ELSE IF c = "slow" THEN <<9>> ELSE <<>>]]
Bounds ==
  [c \in SearchCells |-> [t \in {"A", "B", "auto"} |->
     IF t = "A" THEN "flash" ELSE "sram"]]

\* A cell twice: its two searches run side by side.
SearchSweeps ==
  { <<"pruned", "pruned">>, <<"slow", "slow">>, <<"promised">>, <<"replicas">>,
    <<"between", "nothing">>, <<"beyond">> }
=============================================================================
