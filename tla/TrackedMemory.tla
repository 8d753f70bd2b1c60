---------------------------- MODULE TrackedMemory ----------------------------
(***************************************************************************)
(* What native memory tracking is to know: for each word of the address    *)
(* space whether it is reserved, and for whom, whether it is committed,    *)
(* and from where in the code.                                             *)
(***************************************************************************)
EXTENDS Integers

CONSTANTS
  Places,      \* the words
  NoOne,       \* neither a flag nor a call stack
  Kept,        \* the flag of memory that stays reserved until all of it is released
  Stack        \* the flag of the stacks of threads

VARIABLES
  flagOf,      \* whom a word is reserved for
  stackOf      \* who committed it

map == <<flagOf, stackOf>>

Range(from, to) == from..(to - 1)

Set(f, from, to, value) == [w \in Places |-> IF w \in Range(from, to) THEN value ELSE f[w]]

\* Words reserved for someone already only learn for whom.
Reserve(from, to, flag) ==
  /\ flagOf' = Set(flagOf, from, to, flag)
  /\ UNCHANGED stackOf

\* Words reserved over those of the stack of a thread that is gone: the rest of
\* that stack is forgotten.
Replace(from, to, flag) ==
  /\ \A w \in Range(from, to) : flagOf'[w] = flag
  /\ \A w \in Places \ Range(from, to) :
       flagOf'[w] # flagOf[w] => flagOf[w] = Stack /\ flagOf'[w] = NoOne
  /\ UNCHANGED stackOf

\* A type is given to all words that were reserved together with w.
Retag(w, flag) ==
  /\ flagOf'[w] = flag
  /\ \A v \in Places : flagOf'[v] # flagOf[v] => flagOf[v] = flagOf[w] /\ flagOf'[v] = flag
  /\ UNCHANGED stackOf

\* Only words that are reserved can be committed.
CommitRange(from, to, stack) ==
  /\ \A w \in Range(from, to) : flagOf[w] # NoOne
  /\ stackOf' = Set(stackOf, from, to, stack)
  /\ UNCHANGED flagOf

UncommitRange(from, to) ==
  /\ stackOf' = Set(stackOf, from, to, NoOne)
  /\ UNCHANGED flagOf

\* The archive of shared classes is not released in parts.
Release(from, to) ==
  /\ stackOf' = Set(stackOf, from, to, NoOne)
  /\ \/ flagOf' = Set(flagOf, from, to, NoOne)
     \/ flagOf[from] = Kept /\ UNCHANGED flagOf

Split == UNCHANGED map
=============================================================================
