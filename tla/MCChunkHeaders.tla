--------------------------- MODULE MCChunkHeaders ---------------------------
(***************************************************************************)
(* A small instance of ChunkHeaders.                                       *)
(***************************************************************************)
EXTENDS ChunkHeaders, TLC

\* Root chunks of four words.
MCWordSize == [l \in Levels |-> 2 ^ (HighestLevel - l)]

\* No property tells arenas apart.
ArenaSymmetry == Permutations(Arenas)

\* What is read before it is overwritten: of a header in the pool only its link,
\* of the list of a dying arena nothing.
Read ==
  LET read(h) == IF heap.header[h].state = "dead" THEN <<heap.header[h].next>> ELSE heap.header[h]
  IN  << [heap EXCEPT !.header = [h \in DOMAIN @ |-> read(h)],
                      !.chain  = Restrict(@, DOMAIN @ \ DOMAIN dying)],
         taken, dying >>

\* Bound: one area with all levels, two of one node with two levels, three with
\* root chunks alone.
Few ==
  LET areas  == {r \in Areas : heap.firstOf[r] # Null}
      levels == {heap.header[h].level : h \in {i \in DOMAIN heap.header : heap.header[i].state # "dead"}}
  IN  /\ \A l \in levels : l + Cardinality(areas) <= 3
      /\ levels \subseteq {RootLevel} \/ areas \subseteq AreasOf(0)

MCNext ==
  \/ \E a \in Arenas, preferred \in Levels : GetChunk(a, preferred) /\ Few'
  \/ \E a \in Arenas : AddChunk(a) \/ AttemptEnlarge(a) \/ Die(a)
  \/ \E a \in DOMAIN dying : Dead(a) \/ \E place \in Places : ReturnNext(a, place)
  \/ Purge

MCSpec == Init /\ [][MCNext]_vars
=============================================================================
