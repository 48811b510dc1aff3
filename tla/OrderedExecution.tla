-------------------------- MODULE OrderedExecution --------------------------
(***************************************************************************)
(* What the path from consensus to the Go engine promises: Go executes the *)
(* blocks of the chain, each once, in chain order, and nothing else.  The  *)
(* chain is the sequence of blocks every node derives from the same        *)
(* commits (metanode/src/consensus/commit_processor.rs, "Deterministic     *)
(* across all nodes").                                                     *)
(***************************************************************************)
EXTENDS Naturals, Sequences

CONSTANT Chain

VARIABLE log

Init == log = <<>>

Execute ==
    /\ Len(log) < Len(Chain)
    /\ log' = Append(log, Chain[Len(log) + 1])

Spec == Init /\ [][Execute]_log

====
