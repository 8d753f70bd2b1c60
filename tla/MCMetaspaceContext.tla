------------------------ MODULE MCMetaspaceContext ------------------------
(***************************************************************************)
(* Small instances of MetaspaceContext for TLC: three chunk levels of 4, 2 *)
(* and 1 words, or four from 8 words on.                                   *)
(***************************************************************************)
EXTENDS MetaspaceContext, ChunkLoops

MCWordSize == [l \in 0..2 |-> <<4, 2, 1>>[l + 1]]

\* Smallest chunk, committed; a small chunk that may come from a root chunk
\* untouched by splitting; a root chunk, half of it committed; a chunk whose
\* commitment is left for later.
MCRequests == { [pref |-> 2, max |-> 2, min |-> 1],
                [pref |-> 1, max |-> 2, min |-> 1],
                [pref |-> 0, max |-> 1, min |-> 2],
                [pref |-> 0, max |-> 0, min |-> 0] }

\* A small loader, and one that asks for a root chunk all of it committed.
MCRequestsLarge == { [pref |-> 1, max |-> 1, min |-> 1],
                     [pref |-> 0, max |-> 0, min |-> 4] }

\* Four levels, so that two levels of chunks are smaller than a granule.
MCWordSizeDeep == [l \in 0..3 |-> <<8, 4, 2, 1>>[l + 1]]

MCRequestsDeep == { [pref |-> 3, max |-> 3, min |-> 1],
                    [pref |-> 1, max |-> 2, min |-> 2],
                    [pref |-> 0, max |-> 1, min |-> 4] }
=============================================================================
