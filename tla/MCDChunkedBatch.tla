--------------------------- MODULE MCDChunkedBatch --------------------------
(* Small instances of DChunkedBatch for TLC.                               *)
EXTENDS DChunkedBatch

\* With four parties and chunks of three variables, portions that make: a chunk
\* at each party; two chunks at the master; a chunk at each party; then half a
\* chunk, two chunks at each party, and exactly one chunk at the master.
MixedSizes == << <<3, 2, 3>>, <<0, 4, 1>> >>
\* Three points, two of them about one commitment.
Targets    == <<1, 2, 1>>
TargetPoly == <<3, 2, 2>>
\* A column of the master and two of workers.
SomeBetas  == {2, 7, 12}
=============================================================================
