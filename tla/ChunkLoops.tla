----------------------------- MODULE ChunkLoops -----------------------------
(***************************************************************************)
(* RootChunkArea::split and RootChunkArea::merge as the loops they are in  *)
(* the source, one halving or one joined buddy per round.  The context     *)
(* uses closed forms of both, which have to agree with the loops on every  *)
(* chunk of every reachable state.                                         *)
(***************************************************************************)
EXTENDS ContextMethods

\* Metachunk::set_committed_words on the chunk at b.
SetCommitted(s, b, words) ==
  [s EXCEPT !.chunk[b].committed = CommitLine(words, s.chunk[b].level)]

\* One round of split: the second half of the chunk at b becomes a free chunk.
Halve(s, b) ==
  LET c        == s.chunk[b]
      half     == WordSize[c.level + 1]
      splinter == b + half
      cut      == [s EXCEPT !.chunk = [a \in DOMAIN s.chunk \cup {splinter} |->
                     IF a = b THEN [c EXCEPT !.level = @ + 1]
                     ELSE IF a = splinter THEN FreshChunk(c.level + 1)
                     ELSE s.chunk[a]]]
      lined    == IF c.committed > half
                    THEN SetCommitted(SetCommitted(cut, b, half), splinter, c.committed - half)
                    ELSE SetCommitted(cut, splinter, 0)
  IN  Enlist(lined, splinter)

SplitLoop(s, b, target) ==
  LET cut[l \in s.chunk[b].level..target] ==
        IF l = s.chunk[b].level THEN s ELSE Halve(cut[l - 1], b)
  IN  cut[target]

\* One round of merge: the free chunk at b, which is in no list, joins its
\* buddy.  Returns the state and where the chunk is now.
JoinBuddy(s, b) ==
  LET c        == s.chunk[b]
      buddy    == Buddy(b, c.level)
      leader   == IF IsLeader(b, c.level) THEN b ELSE buddy
      follower == IF IsLeader(b, c.level) THEN buddy ELSE b
      t        == Delist(s, buddy)
      words    == s.chunk[leader].committed
                    + IF s.chunk[leader].committed = SizeOf(s, leader)
                        THEN s.chunk[follower].committed ELSE 0
      joined   == [t EXCEPT !.chunk = [a \in DOMAIN s.chunk \ {follower} |->
                     IF a = leader THEN [s.chunk[a] EXCEPT !.level = @ - 1] ELSE s.chunk[a]]]
  IN  [state |-> SetCommitted(joined, leader, words), base |-> leader]

MergeLoop(s, b) ==
  LET merged[k \in Levels] ==
        IF k = 0 THEN [state |-> s, base |-> b]
        ELSE LET m == merged[k - 1]
                 l == m.state.chunk[m.base].level
             IN  IF l # RootLevel /\ Joins(m.state, m.base, l)
                   THEN JoinBuddy(m.state, m.base) ELSE m
  IN  merged[HighestLevel]

-----------------------------------------------------------------------------
(* Properties.                                                             *)

\* Splitting any listed chunk to any level, the closed form cuts, lists and
\* distributes the commit line as the loop of RootChunkArea::split does.
SplitIsTheLoop ==
  \A l \in Levels : \A b \in Range(ctx.list[l]) : \A target \in (l + 1)..HighestLevel :
    LET s == Delist(ctx, b) IN Split(s, b, target) = SplitLoop(s, b, target)

\* Returning any chunk in use, the closed form joins the same buddies and
\* finds the same commit line as the loop of RootChunkArea::merge does.
MergeIsTheLoop ==
  \A b \in InUse(ctx) :
    LET s == SetFree(ctx, b) IN
    /\ MergeAll(s, b) = MergeLoop(s, b).state
    /\ Block(b, MergeLevel(s, b)) = MergeLoop(s, b).base
=============================================================================
