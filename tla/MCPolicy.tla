------------------------------ MODULE MCPolicy ------------------------------
(* Small instances of the sensor policy for TLC. *)
EXTENDS Policy

\* Ids against the order of indices, so that ties tell the two apart.
ReversedId == [a \in 0..2 |-> 2 - a]

\* The table of a broker; the same with losses that overflow, and invalid; and
\* tables in which each action costs 0 to 2 in the nominal case, and every other
\* case costs the same for all or the more the fewer sensors an action has.
NominalCost == [0..2 -> 0..2]
OtherCost == {[a \in 0..2 |-> 1], [a \in 0..2 |-> 2 - a]}
BrokerTable == [issues |-> {}, infinite |-> {}, cost |-> DefaultCost]
Tables ==
    {BrokerTable, [BrokerTable EXCEPT !.issues = {"WEIGHT"}],
     [BrokerTable EXCEPT !.infinite = {2}], [BrokerTable EXCEPT !.infinite = {0, 1}],
     [BrokerTable EXCEPT !.issues = {"COST"}, !.infinite = {0}]}
    \cup {[issues |-> {}, infinite |-> {},
           cost |-> [a \in 0..2 |-> [s \in Scenario |-> IF s = "nominal" THEN x[a] ELSE y[a]]]]
          : x \in NominalCost, y \in OtherCost}
=============================================================================
