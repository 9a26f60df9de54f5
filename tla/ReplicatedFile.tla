--------------------------- MODULE ReplicatedFile ---------------------------
(***************************************************************************)
(* What a replicated file promises, whatever happens to the nodes: there   *)
(* is one history of contents, the one a single never-failing node would   *)
(* go through, it only grows, and every node's copy is at all times one of *)
(* them.  Handlers and pages of grus rely on exactly this (the package     *)
(* comment of internal/cmd/applier.go).                                    *)
(* FileLog.tla is shown to implement it.                                   *)
(***************************************************************************)
EXTENDS Naturals, Sequences

CONSTANTS
    Node,           \* the nodes that hold the file
    Command,        \* what may be written
    Empty,          \* the contents of a new file
    Run(_, _)       \* the contents a command leaves behind

VARIABLES
    history,        \* history[i+1]: the contents after the first i commands
    copy            \* per node: its contents and how far along history it is

vars == <<history, copy>>

Init ==
    /\ history = <<Empty>>
    /\ copy = [n \in Node |-> [data |-> Empty, applied |-> 0]]

\* A command takes its place at the end of the one history.
Write ==
    /\ \E c \in Command :
         history' = Append(history, Run(history[Len(history)], c))
    /\ UNCHANGED copy

\* A copy moves to another point of the history: on by one command, on by many
\* (a snapshot), or, when an older snapshot is installed, back.
Move(n) ==
    /\ \E k \in 0 .. (Len(history) - 1) :
         copy' = [copy EXCEPT ![n] = [data |-> history[k + 1], applied |-> k]]
    /\ UNCHANGED history

Next == Write \/ \E n \in Node : Move(n)

Spec == Init /\ [][Next]_vars
=============================================================================
