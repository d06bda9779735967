------------------------------ MODULE MCCheckIn ------------------------------
\* Instances of CheckIn for TLC: bulk calls that share stations two by two.
EXTENDS CheckIn, TLC

CONSTANTS c1, c2, c3, v1

KeysValue == {1, 2}
BulkCalls == (c1 :> {1, 2}) @@ (c2 :> {1, 2}) @@ (c3 :> {1})
RaceCalls == (c1 :> {1}) @@ (c2 :> {1, 2}) @@ (c3 :> {1})
StationOfValue == v1 :> 1
LurkerValue == v1 :> 2
=============================================================================
