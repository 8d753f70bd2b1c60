-------------------------- MODULE MetaspaceContext --------------------------
(***************************************************************************)
(* One metaspace context and its callers.  Every operation below runs      *)
(* under MetaspaceExpand_lock from its first to its last statement, so     *)
(* each is one step; Metachunk::allocate, which takes no global lock, is a *)
(* step of the arena that owns the chunk.                                  *)
(***************************************************************************)
EXTENDS ContextMethods

CONSTANTS
  Requests,                 \* what callers ask get_chunk for
  AllocationSizes           \* words per Metachunk::allocate call

ASSUME CallerAssumption ==
  /\ Requests \subseteq LegalRequests
  /\ AllocationSizes \subseteq Nat \ {0}

VARIABLE
  foreign   \* words the other context has charged to the same CommitLimiter

vars == <<ctx, foreign>>

-----------------------------------------------------------------------------
(* What the owner of a chunk does with it.                                 *)

ReturnChunkOp(b) ==
  /\ b \in InUse(ctx)
  /\ ctx' = ReturnChunk(ctx, b)
  /\ UNCHANGED foreign

AttemptEnlargeChunk(b) ==
  /\ b \in InUse(ctx)
  /\ CanEnlarge(ctx, b)
  /\ ctx' = Enlarge(ctx, b)
  /\ UNCHANGED foreign

\* Metachunk::ensure_committed_additional on behalf of the owning arena.
EnsureCommitted(b, size) ==
  /\ b \in InUse(ctx)
  /\ LET upTo == ctx.chunk[b].used + size IN
     /\ upTo <= SizeOf(ctx, b)
     /\ upTo > ctx.chunk[b].committed
     /\ CanCommit(ctx, b, upTo)
     /\ ctx' = CommitUpTo(ctx, b, upTo)
  /\ UNCHANGED foreign

Allocate(b, size) ==
  /\ b \in InUse(ctx)
  /\ ctx.chunk[b].used + size <= ctx.chunk[b].committed
  /\ ctx' = Bump(ctx, b, size)
  /\ UNCHANGED foreign

-----------------------------------------------------------------------------
(* The other context commits and uncommits against the same limiter.       *)

ForeignCommit ==
  /\ GranuleWords <= PossibleExpansion(ctx)
  /\ foreign' = foreign + GranuleWords
  /\ ctx' = [ctx EXCEPT !.limiter = @ + GranuleWords]

ForeignUncommit ==
  /\ foreign > 0
  /\ foreign' = foreign - GranuleWords
  /\ ctx' = [ctx EXCEPT !.limiter = @ - GranuleWords]

-----------------------------------------------------------------------------
Init ==
  /\ ctx = EmptyContext
  /\ foreign = 0

Next ==
  \/ \E r \in Requests : GetChunk(r) /\ UNCHANGED foreign
  \/ \E b \in InUse(ctx) : \/ ReturnChunkOp(b)
                           \/ AttemptEnlargeChunk(b)
                           \/ \E size \in AllocationSizes : \/ EnsureCommitted(b, size)
                                                            \/ Allocate(b, size)
  \/ Purge /\ UNCHANGED foreign
  \/ ForeignCommit
  \/ ForeignUncommit

Spec == Init /\ [][Next]_vars

-----------------------------------------------------------------------------
(* Properties.                                                             *)

\* Every field keeps its type; counters never go negative.
TypeOK ==
  /\ DOMAIN ctx.chunk \subseteq Addresses
  /\ \A b \in DOMAIN ctx.chunk : ctx.chunk[b] \in Chunk
  /\ \A l \in Levels : /\ ctx.list[l] \in Seq(Addresses)
                       /\ ctx.listed[l] \in Nat
  /\ ctx.nodes \in Seq(Nodes)
  /\ ctx.used \in [Nodes -> 0..NodeWords]
  /\ ctx.mask \subseteq Granules
  /\ ctx.data \subseteq Addresses
  /\ {ctx.committed, ctx.reserved, ctx.limiter, foreign} \subseteq Nat

\* CommitLimiter, the VirtualSpaceList counter and the commit masks agree,
\* purged nodes included, and the limit holds for both contexts together.
CommitCharge ==
  /\ ctx.committed = GranuleWords * Cardinality(ctx.mask)
  /\ ctx.limiter = ctx.committed + foreign
  /\ ctx.limiter <= MaxCommit

\* get_chunk: "On success, returns a chunk of level of <preferred_level>, but
\* at most <max_level>. The first <min_committed_words> of the chunk are
\* guaranteed to be committed."  A failed request puts everything back: the
\* chunks it split are whole again and nothing was committed or uncommitted.
RequestHonoured ==
  [][\A r \in Requests : GetChunk(r) => Granted(r) # {} \/ Restored]_vars

\* purge leaves no node whose chunks are all free, and with uncommit_free_
\* chunks no granule that only free chunks touch; nobody's data is lost.
PurgeReclaims ==
  [][Purge => /\ Expandable => \A n \in Range(ctx'.nodes) : ~NodeIsFree(ctx', n)
              /\ InUse(ctx') = InUse(ctx)
              /\ InUse(ctx) = {} /\ (Expandable \/ UncommitFreeChunks)
                   => ctx'.mask = {} ]_vars

\* For its arenas the context is a ledger of chunks: get_chunk hands out words
\* nobody owns, attempt_enlarge_chunk adds such words, and no operation, purge
\* and failed requests included, moves a chunk or loses what is stored in it.
Ledger == INSTANCE ChunkLedger WITH
            Bases  <- Addresses,
            Sizes  <- Range(WordSize),
            owned  <- [b \in InUse(ctx) |-> SizeOf(ctx, b)],
            stored <- ctx.data

ImplementsLedger == Ledger!Spec

\* FreeChunkList's description: "we search the list for a chunk of at least n
\* committed words".  A listed chunk that is committed far enough is found.
SearchIsExhaustive ==
  \A r \in Requests :
    (\E l \in RootLevel..r.max : \E b \in Range(ctx.list[l]) :
        ctx.chunk[b].committed >= r.min)
      => Fitting(ctx, RootLevel..r.max, r.min) # {}
=============================================================================
