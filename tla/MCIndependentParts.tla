------------------------- MODULE MCIndependentParts -------------------------
EXTENDS IndependentParts

\* Intervals that do not divide one another, one retention that is not a multiple
\* of its interval.
MCLevels == {[interval |-> 2, retention |-> 3], [interval |-> 3, retention |-> 4]}

Host(type, content) == [name |-> "host", type |-> type, content |-> content]
Service(content) == [name |-> "srv", type |-> "SRV", content |-> content]

\* A private address; a game that reads no SRV; two machines for one that does, one
\* known by its address, the other by its name.
MCWishes == {{}, {Host("A", 1)}, {Host("A", 2), Service(2)}, {Host("CNAME", 3), Service(3)}}
=============================================================================
