----------------------------- MODULE MCDelivery -----------------------------
(* Small instances of the path from the commit processor to the Go engine.   *)
EXTENDS CommitProcessor

\* Four commits, none of them large.
PlainFrags == <<1, 1, 1, 1>>
PlainExtra == [c \in 0 .. 4 |-> 0]
PlainCanon == <<<<1, 1>>, <<2, 1>>, <<3, 1>>, <<4, 1>>>>

\* Three commits, none of them large.
SmallFrags == <<1, 1, 1>>
SmallExtra == [c \in 0 .. 3 |-> 0]
SmallCanon == <<<<1, 1>>, <<2, 1>>, <<3, 1>>>>

\* Three commits, the first in three blocks, the second in two.
LargeFrags == <<3, 2, 1>>
LargeExtra == [c \in 0 .. 3 |-> <<0, 2, 3, 3>>[c + 1]]
LargeCanon == <<<<1, 1>>, <<1, 2>>, <<1, 3>>, <<2, 1>>, <<2, 2>>, <<3, 1>>>>

====
