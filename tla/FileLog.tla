------------------------------ MODULE FileLog -------------------------------
(***************************************************************************)
(* One replicated file of grus: site.db, or a group's file.  Each has a    *)
(* Raft log of its own (internal/cluster), and every node holding it       *)
(* applies the committed entries to its SQLite file through the fsm        *)
(* (cluster/fsm.go) and the Applier (cmd/applier.go).                      *)
(*                                                                         *)
(* Raft itself is a library: it is represented by what grus relies on, one *)
(* sequence of committed entries, a durable prefix of it on each node, and *)
(* snapshots.  What is modelled in detail is what grus adds: the applied   *)
(* index kept in the file and written in the entry's own transaction,      *)
(* commands that fail and leave it alone, snapshots taken while entries    *)
(* keep being applied, snapshots installed by swapping the file, and       *)
(* restarts that do not reload the snapshot (NoSnapshotRestoreOnStart).    *)
(***************************************************************************)
EXTENDS Naturals, Sequences

CONSTANTS
    Node,           \* the nodes holding this file
    Command,        \* the commands submitted to its log
    Contents,       \* what the file can hold
    Empty,          \* a file nothing was applied to
    Fails(_, _),    \* Fails(d, c): c's Apply returns an error on contents d
    Effect(_, _),   \* Effect(d, c): what c leaves when it succeeds
    Faults,         \* which of "crash", "power", "install", "io" can happen
    MaxLog,         \* bound: entries committed
    MaxDown         \* bound: times a node goes down

\* Applying a command is deterministic (cmd/applier.go): its outcome depends
\* on the contents and the command alone, and a failed one changes nothing.
Run(d, c) == IF Fails(d, c) THEN d ELSE Effect(d, c)

ASSUME ContentsAssumption ==
    /\ Empty \in Contents
    /\ \A d \in Contents, c \in Command :
         Fails(d, c) \in BOOLEAN /\ Effect(d, c) \in Contents
ASSUME FaultsAssumption == Faults \subseteq {"crash", "power", "install", "io"}
ASSUME BoundsAssumption == MaxLog \in Nat /\ MaxDown \in Nat

VARIABLES
    log,        \* the committed entries
    history,    \* ghost: history[i+1] is what entries 1..i leave when each is
                \* applied exactly once, in order
    file,       \* per node: the SQLite file, as a reader on the node sees it
    disk,       \* per node: as much of it as a power cut would leave
    last,       \* per node: Raft's record of "applied up to", in memory
    stored,     \* per node: the last entry in its durable Raft log
    snap,       \* per node: its newest Raft snapshot, with its label
    pend,       \* per node: label of a snapshot requested, not written yet (0: none)
    inst,       \* per node: a received snapshot is not in the file yet
    up,         \* the nodes that are running
    downs       \* times a node went down

vars == <<log, history, file, disk, last, stored, snap, pend, inst, up, downs>>

-----------------------------------------------------------------------------
\* A file: its contents, its applied index, and (ghost) the entries that took
\* effect in it, in order.
File == [data : Contents, applied : 0..MaxLog, ran : Seq(1..MaxLog)]
NewFile == [data |-> Empty, applied |-> 0, ran |-> <<>>]

Init ==
    /\ log = <<>>
    /\ history = <<Empty>>
    /\ file = [n \in Node |-> NewFile]
    /\ disk = [n \in Node |-> NewFile]
    /\ last = [n \in Node |-> 0]
    /\ stored = [n \in Node |-> 0]
    /\ snap = [n \in Node |-> [label |-> 0, file |-> NewFile]]
    /\ pend = [n \in Node |-> 0]
    /\ inst = [n \in Node |-> FALSE]
    /\ up = Node
    /\ downs = 0

\* shard.applyHere: a command is appended and committed.
Commit(c) ==
    /\ Len(log) < MaxLog
    /\ log' = Append(log, c)
    /\ history' = Append(history, Run(history[Len(history)], c))
    /\ UNCHANGED <<file, disk, last, stored, snap, pend, inst, up, downs>>

\* Raft (external): the next committed entry reaches a node's durable log.
Receive(n) ==
    /\ n \in up /\ stored[n] < Len(log)
    /\ ~inst[n]
    /\ stored' = [stored EXCEPT ![n] = @ + 1]
    /\ UNCHANGED <<log, history, file, disk, last, snap, pend, inst, up, downs>>

\* Plausible mistakes in inTx, to show that the properties notice them: no skip,
\* a skip one entry short or one too far, and an index not written with the
\* changes.
InTxNoSkip(f, i, c) ==
    IF Fails(f.data, c) THEN f
    ELSE [data |-> Effect(f.data, c), applied |-> i, ran |-> Append(f.ran, i)]
InTxSkipsLess(f, i, c) ==
    IF i < f.applied \/ Fails(f.data, c) THEN f
    ELSE [data |-> Effect(f.data, c), applied |-> i, ran |-> Append(f.ran, i)]
InTxSkipsMore(f, i, c) ==
    IF i <= f.applied + 1 \/ Fails(f.data, c) THEN f
    ELSE [data |-> Effect(f.data, c), applied |-> i, ran |-> Append(f.ran, i)]
InTxNoIndex(f, i, c) ==
    IF i <= f.applied \/ Fails(f.data, c) THEN f
    ELSE [f EXCEPT !.data = Effect(f.data, c), !.ran = Append(f.ran, i)]

\* Applier.inTx: entry i on file f.  Skipped when the file already has it; on
\* an error the transaction is rolled back, index and all.
InTx(f, i, c) ==
    IF i <= f.applied \/ Fails(f.data, c) THEN f
    ELSE [data |-> Effect(f.data, c), applied |-> i, ran |-> Append(f.ran, i)]

\* fsm.Apply, on Raft's apply goroutine: entries in log order.
Apply(n) ==
    /\ n \in up /\ ~inst[n] /\ last[n] < stored[n]
    /\ LET i == last[n] + 1 IN
         /\ file' = [file EXCEPT ![n] = InTx(@, i, log[i])]
         /\ last' = [last EXCEPT ![n] = i]
    /\ UNCHANGED <<log, history, disk, stored, snap, pend, inst, up, downs>>

\* inTx fails for a reason of this node's own (the disk is full: Begin, an
\* UPDATE or Commit).  Nothing is written, the error is handed to the submitter
\* like a refusal, and Raft counts the entry as applied.
ApplyIOError(n) ==
    /\ "io" \in Faults
    /\ n \in up /\ ~inst[n] /\ last[n] < stored[n]
    /\ last' = [last EXCEPT ![n] = @ + 1]
    /\ UNCHANGED <<log, history, file, disk, stored, snap, pend, inst, up, downs>>

\* openDB's synchronous=NORMAL: commits reach the disk at WAL checkpoints.
Checkpoint(n) ==
    /\ "power" \in Faults
    /\ n \in up /\ disk[n] # file[n]
    /\ disk' = [disk EXCEPT ![n] = file[n]]
    /\ UNCHANGED <<log, history, file, last, stored, snap, pend, inst, up, downs>>

-----------------------------------------------------------------------------

\* fsm.Snapshot: Raft asks for one between two entries; it is labelled with
\* the last entry applied.
RequestSnapshot(n) ==
    /\ n \in up /\ ~inst[n] /\ pend[n] = 0
    /\ last[n] > snap[n].label
    /\ pend' = [pend EXCEPT ![n] = last[n]]
    /\ UNCHANGED <<log, history, file, disk, last, stored, snap, inst, up, downs>>

\* fsmSnapshot.Persist and WriteSnapshot: the file is copied (VACUUM INTO) some
\* time later, so the copy may be ahead of its label.  The snapshot store
\* keeps the one with the highest label as newest.
PersistSnapshot(n) ==
    /\ n \in up /\ pend[n] # 0
    /\ snap' = [snap EXCEPT ![n] =
                  IF pend[n] > @.label THEN [label |-> pend[n], file |-> file[n]] ELSE @]
    /\ pend' = [pend EXCEPT ![n] = 0]
    /\ UNCHANGED <<log, history, file, disk, last, stored, inst, up, downs>>

\* Raft (external), installing a snapshot on a node whose log ends before the
\* leader's begins: the snapshot is first made durable in the node's own
\* snapshot store, and only then handed to the fsm.
ReceiveSnapshot(n, m) ==
    /\ n \in up /\ m \in up /\ n # m /\ ~inst[n]
    /\ snap[m].label > stored[n]
    /\ snap' = [snap EXCEPT ![n] = snap[m]]
    /\ inst' = [inst EXCEPT ![n] = TRUE]
    /\ UNCHANGED <<log, history, file, disk, last, stored, pend, up, downs>>

\* fsm.Restore and Store.ReplaceFile: the copy goes to a temporary file, which
\* then takes the old file's place.  Raft counts its entries as applied.
RestoreSnapshot(n) ==
    /\ n \in up /\ inst[n]
    /\ file' = [file EXCEPT ![n] = snap[n].file]
    /\ last' = [last EXCEPT ![n] = snap[n].label]
    /\ stored' = [stored EXCEPT ![n] = snap[n].label]
    /\ inst' = [inst EXCEPT ![n] = FALSE]
    /\ UNCHANGED <<log, history, disk, snap, pend, up, downs>>

-----------------------------------------------------------------------------
\* A node stops, leaving left as its file.
GoDown(n, left) ==
    /\ n \in up /\ downs < MaxDown
    /\ up' = up \ {n}
    /\ downs' = downs + 1
    /\ file' = [file EXCEPT ![n] = left]
    /\ disk' = [disk EXCEPT ![n] = left]
    /\ last' = [last EXCEPT ![n] = 0]
    /\ pend' = [pend EXCEPT ![n] = 0]
    /\ inst' = [inst EXCEPT ![n] = FALSE]
    /\ UNCHANGED <<log, history, stored, snap>>

\* The process is killed or stopped: what SQLite committed is kept.
Crash(n) ==
    /\ "crash" \in Faults /\ ~inst[n]
    /\ GoDown(n, file[n])

\* The power fails: commits since the last checkpoint are gone.
PowerCut(n) ==
    /\ "power" \in Faults /\ ~inst[n]
    /\ GoDown(n, disk[n])

\* The process is killed between the snapshot's arrival and the end of
\* ReplaceFile: the old file is still there, or already removed and the new
\* one not yet renamed into place (Open then creates an empty one).
CrashInInstall(n) ==
    /\ "install" \in Faults /\ inst[n]
    /\ \E left \in {file[n], NewFile} : GoDown(n, left)

\* Start and openShard: with NoSnapshotRestoreOnStart the newest snapshot only
\* sets where the replay of the log begins; the file is used as it is.
Restart(n) ==
    /\ n \notin up
    /\ up' = up \cup {n}
    /\ last' = [last EXCEPT ![n] = snap[n].label]
    /\ stored' = [stored EXCEPT ![n] = IF @ < snap[n].label THEN snap[n].label ELSE @]
    /\ UNCHANGED <<log, history, file, disk, snap, pend, inst, downs>>

Next ==
    \/ \E c \in Command : Commit(c)
    \/ \E n \in Node :
         \/ Receive(n) \/ Apply(n) \/ ApplyIOError(n) \/ Checkpoint(n)
         \/ RequestSnapshot(n) \/ PersistSnapshot(n) \/ RestoreSnapshot(n)
         \/ \E m \in Node : ReceiveSnapshot(n, m)
         \/ Crash(n) \/ PowerCut(n) \/ CrashInInstall(n) \/ Restart(n)

Spec == Init /\ [][Next]_vars

\* Raft keeps replicating to a node that is up, its goroutines keep running,
\* and a stopped node is started again (systemd, launchd).
Fairness ==
    \A n \in Node :
        /\ WF_vars(Receive(n)) /\ WF_vars(Apply(n))
        /\ WF_vars(RestoreSnapshot(n)) /\ WF_vars(Restart(n))

FairSpec == Spec /\ Fairness

-----------------------------------------------------------------------------
\* Every variable holds what it is meant to hold, and no index runs ahead of
\* the log.
TypeOK ==
    /\ log \in Seq(Command) /\ Len(log) <= MaxLog
    /\ history \in Seq(Contents) /\ Len(history) = Len(log) + 1
    /\ file \in [Node -> File] /\ disk \in [Node -> File]
    /\ last \in [Node -> 0..Len(log)] /\ stored \in [Node -> 0..Len(log)]
    /\ snap \in [Node -> [label : 0..Len(log), file : File]]
    /\ pend \in [Node -> 0..Len(log)]
    /\ inst \in [Node -> BOOLEAN]
    /\ up \subseteq Node /\ downs \in 0..MaxDown

\* f is exactly what the entries up to i leave: the outcome of those up to its
\* applied index, and whatever lies between the index and i changed nothing
\* (entries that failed).
Exact(f, i) ==
    /\ f.applied + 1 \in DOMAIN history
    /\ f.data = history[f.applied + 1]
    /\ \A k \in f.applied .. i : history[k + 1] = f.data

\* Whatever was restarted, replayed, snapshotted and installed, a node's file is
\* what a single never-failing node would have after the same entries: nothing
\* lost, nothing applied twice, nothing in another order (Applier.inTx's skip,
\* with raftConfig's NoSnapshotRestoreOnStart).  While a received snapshot waits
\* to be installed the file is an older copy, and still exact as such.
CopyExact == \A n \in Node : Exact(file[n], last[n])

\* A snapshot, copied while entries keep being applied, is never behind its
\* label, where the node that installs it (or restarts from it) will begin
\* replaying the log (fsmSnapshot.Persist, fsm.Restore).
SnapshotExact == \A n \in Node : Exact(snap[n].file, snap[n].label)

Increasing(s) == \A i, j \in DOMAIN s : i < j => s[i] < s[j]
OnceInOrder(f) == Increasing(f.ran) /\ \A i \in DOMAIN f.ran : f.ran[i] <= f.applied

\* No command ever takes effect twice in a file, nor after a later one, even
\* when the file loses commits to a power cut or is left half installed: the
\* applied index commits with the command's own changes (Applier.inTx).
NeverTwice == \A n \in Node : OnceInOrder(file[n]) /\ OnceInOrder(snap[n].file)

\* The same for every file there is, the part a power cut would leave included.
OnceEverywhere == NeverTwice /\ \A n \in Node : OnceInOrder(disk[n])

\* What keeps copies exact while the only fault is a process that stops.  Every
\* entry's outcome is in history; indexes are in order; and wherever
\* the next replay begins (at the newest snapshot's label, or after last), the
\* file is exact that far.
HistoryOK ==
    \A i \in 1..Len(log) : history[i + 1] = Run(history[i], log[i])
InStep(n) ==
    /\ pend[n] <= last[n] /\ last[n] <= stored[n]
    /\ n \in up /\ ~inst[n] => snap[n].label <= last[n]
    /\ inst[n] => stored[n] < snap[n].label
    /\ n \notin up => ~inst[n] /\ pend[n] = 0
IndexOK == \A n \in Node : InStep(n)
ReplayExact == \A n \in Node : ~inst[n] => Exact(file[n], snap[n].label)

IInv == HistoryOK /\ IndexOK /\ CopyExact /\ SnapshotExact /\ ReplayExact

\* Every copy in the end carries the outcome of the whole log, however often
\* nodes stopped and snapshots stood in for entries (as long as they come back).
Converges == <>[](\A n \in Node : file[n].data = history[Len(history)])

\* FileLog implements the abstract replicated file.
RF == INSTANCE ReplicatedFile WITH
        copy <- [n \in Node |-> [data |-> file[n].data, applied |-> file[n].applied]]
ImplementsReplicatedFile == RF!Spec
=============================================================================
