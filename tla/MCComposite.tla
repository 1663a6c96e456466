---------------------------- MODULE MCComposite -----------------------------
(* One composite of each kind over two jobs.  They are requested one at a    *)
(* time: to a composite another one is just somebody who starts jobs.        *)
EXTENDS Composite

CONSTANTS a, b, chain, group, chord

MCKind ==
  [c \in Composite |->
    CASE c = chain -> "chain" [] c = group -> "group" [] OTHER -> "chord"]
MCMembers == [c \in Composite |-> <<a, b>>]
MCCallback == [c \in Composite |-> a]
MCMaxRuns == [j \in Job |-> IF j = a THEN 2 ELSE 1]
=============================================================================
