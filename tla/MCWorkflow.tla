----------------------------- MODULE MCWorkflow -----------------------------
(* One workflow of each type over two jobs; two of them are run.             *)
EXTENDS Workflow

CONSTANTS a, b, chain, group, chord

MCType ==
  [r \in Run |-> CASE r = chain -> "chain" [] r = group -> "group" [] OTHER -> "chord"]
MCJobs == [r \in Run |-> IF r = chord THEN <<a>> ELSE <<a, b>>]
MCCallback == [r \in Run |-> b]
=============================================================================
