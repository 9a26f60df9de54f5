--------------------------- MODULE FileLogProofs ----------------------------
(***************************************************************************)
(* Proofs about FileLog, for any nodes, commands, contents and bounds:     *)
(* types; that no command takes effect twice, whatever the faults; that    *)
(* copies and snapshots stay exact while the only fault is a process that  *)
(* stops; and that every step is then one of ReplicatedFile.               *)
(***************************************************************************)
EXTENDS FileLog, TLAPS

USE BoundsAssumption

\* The outcome of an entry on a file is a file (Applier.inTx).
LEMMA InTxType ==
    ASSUME NEW f \in File, NEW i \in 1..MaxLog, NEW c \in Command
    PROVE  InTx(f, i, c) \in File
<1>1. CASE i <= f.applied \/ Fails(f.data, c)
  BY <1>1 DEF InTx
<1>2. CASE ~(i <= f.applied \/ Fails(f.data, c))
  <2>1. Effect(f.data, c) \in Contents
    BY ContentsAssumption DEF File
  <2>2. Append(f.ran, i) \in Seq(1..MaxLog)
    BY DEF File
  <2> QED
    BY <1>2, <2>1, <2>2 DEF InTx, File
<1> QED
  BY <1>1, <1>2

LEMMA NewFileType == NewFile \in File
  BY ContentsAssumption DEF NewFile, File

\* The outcome of a command on contents is contents, failed or not.
LEMMA RunType ==
    ASSUME NEW d \in Contents, NEW c \in Command
    PROVE  Run(d, c) \in Contents
  BY ContentsAssumption DEF Run

\* A node that stops with a well-formed file left keeps every type.
LEMMA GoDownType ==
    ASSUME TypeOK, NEW n \in Node, NEW left \in File, GoDown(n, left)
    PROVE  TypeOK'
  BY DEF TypeOK, GoDown

\* Every variable always holds what it is meant to hold.
THEOREM TypeCorrect == Spec => []TypeOK
<1>1. Init => TypeOK
  <2> SUFFICES ASSUME Init PROVE TypeOK
    OBVIOUS
  <2>1. <<Empty>> \in Seq(Contents) /\ Len(<<Empty>>) = 1
    BY ContentsAssumption
  <2> QED
    BY <2>1, NewFileType DEF Init, TypeOK
<1>2. TypeOK /\ [Next]_vars => TypeOK'
  <2> SUFFICES ASSUME TypeOK, [Next]_vars PROVE TypeOK'
    OBVIOUS
  <2>1. ASSUME NEW c \in Command, Commit(c) PROVE TypeOK'
    <3>1. history[Len(history)] \in Contents
      BY DEF TypeOK
    <3>2. Run(history[Len(history)], c) \in Contents
      BY <3>1, RunType
    <3>3. log' \in Seq(Command) /\ Len(log') = Len(log) + 1
      BY <2>1 DEF TypeOK, Commit
    <3>4. history' \in Seq(Contents) /\ Len(history') = Len(history) + 1
      BY <2>1, <3>2 DEF TypeOK, Commit
    <3> QED
      BY <2>1, <3>3, <3>4 DEF TypeOK, Commit
  <2>2. ASSUME NEW n \in Node, Receive(n) PROVE TypeOK'
    BY <2>2 DEF TypeOK, Receive
  <2>3. ASSUME NEW n \in Node, Apply(n) PROVE TypeOK'
    <3> DEFINE i == last[n] + 1
    <3>1. i \in 1..Len(log) /\ i \in 1..MaxLog
      BY <2>3 DEF TypeOK, Apply
    <3>2. log[i] \in Command
      BY <3>1 DEF TypeOK
    <3>3. InTx(file[n], i, log[i]) \in File
      BY <3>1, <3>2, InTxType DEF TypeOK
    <3>4. file' = [file EXCEPT ![n] = InTx(file[n], i, log[i])]
      BY <2>3 DEF Apply
    <3>5. file' \in [Node -> File]
      BY <3>3, <3>4 DEF TypeOK
    <3> QED
      BY <2>3, <3>1, <3>5 DEF TypeOK, Apply
  <2>4. ASSUME NEW n \in Node, Checkpoint(n) \/ ApplyIOError(n) PROVE TypeOK'
    <3>1. CASE Checkpoint(n)
      BY <3>1 DEF TypeOK, Checkpoint
    <3>2. CASE ApplyIOError(n)
      <4>1. last[n] + 1 \in 0..Len(log)
        BY <3>2 DEF TypeOK, ApplyIOError
      <4>2. last' = [last EXCEPT ![n] = last[n] + 1]
        BY <3>2 DEF ApplyIOError
      <4> QED
        BY <3>2, <4>1, <4>2 DEF TypeOK, ApplyIOError
    <3> QED
      BY <2>4, <3>1, <3>2
  <2>5. ASSUME NEW n \in Node, RequestSnapshot(n) PROVE TypeOK'
    BY <2>5 DEF TypeOK, RequestSnapshot
  <2>6. ASSUME NEW n \in Node, PersistSnapshot(n) PROVE TypeOK'
    BY <2>6 DEF TypeOK, PersistSnapshot
  <2>7. ASSUME NEW n \in Node, RestoreSnapshot(n) PROVE TypeOK'
    BY <2>7 DEF TypeOK, RestoreSnapshot
  <2>8. ASSUME NEW n \in Node, NEW m \in Node, ReceiveSnapshot(n, m) PROVE TypeOK'
    BY <2>8 DEF TypeOK, ReceiveSnapshot
  <2>9. ASSUME NEW n \in Node, Crash(n) PROVE TypeOK'
    BY <2>9, GoDownType DEF TypeOK, Crash
  <2>10. ASSUME NEW n \in Node, PowerCut(n) PROVE TypeOK'
    BY <2>10, GoDownType DEF TypeOK, PowerCut
  <2>11. ASSUME NEW n \in Node, CrashInInstall(n) PROVE TypeOK'
    BY <2>11, GoDownType, NewFileType DEF TypeOK, CrashInInstall
  <2>12. ASSUME NEW n \in Node, Restart(n) PROVE TypeOK'
    BY <2>12 DEF TypeOK, Restart
  <2>13. CASE UNCHANGED vars
    BY <2>13 DEF TypeOK, vars
  <2> QED
    BY <2>1, <2>2, <2>3, <2>4, <2>5, <2>6, <2>7, <2>8, <2>9, <2>10, <2>11,
       <2>12, <2>13 DEF Next
<1> QED
  BY <1>1, <1>2, PTL DEF Spec

-----------------------------------------------------------------------------
(***************************************************************************)
(* Nothing takes effect twice, whatever the faults.                        *)
(***************************************************************************)

\* An entry runs in a file only past the file's own index.
LEMMA InTxOnce ==
    ASSUME NEW f \in File, OnceInOrder(f), NEW i \in 1..MaxLog, NEW c \in Command
    PROVE  OnceInOrder(InTx(f, i, c))
<1>1. CASE i <= f.applied \/ Fails(f.data, c)
  BY <1>1 DEF InTx
<1>2. CASE ~(i <= f.applied \/ Fails(f.data, c))
  <2> DEFINE g == InTx(f, i, c)
  <2>1. g.applied = i /\ g.ran = Append(f.ran, i) /\ f.applied < i
    BY <1>2 DEF InTx, File
  <2>2. f.ran \in Seq(1..MaxLog)
    BY DEF File
  <2>3. \A j \in DOMAIN f.ran : f.ran[j] \in Nat /\ f.ran[j] < i
    BY <2>1, <2>2 DEF OnceInOrder, File
  <2>4. DOMAIN g.ran = 1..(Len(f.ran) + 1) /\ g.ran[Len(f.ran) + 1] = i
    BY <2>1, <2>2
  <2>5. \A j \in 1..Len(f.ran) : g.ran[j] = f.ran[j]
    BY <2>1, <2>2
  <2>6. Increasing(g.ran)
    <3>1. Len(f.ran) \in Nat /\ DOMAIN f.ran = 1..Len(f.ran)
      BY <2>2
    <3>2. \A j, k \in 1..Len(f.ran) : j < k => f.ran[j] < f.ran[k]
      BY <3>1 DEF OnceInOrder, Increasing
    <3>3. ASSUME NEW j \in DOMAIN g.ran, NEW k \in DOMAIN g.ran, j < k
          PROVE  g.ran[j] < g.ran[k]
      <4>1. j \in 1..Len(f.ran)
        BY <2>4, <3>1, <3>3
      <4>2. CASE k \in 1..Len(f.ran)
        BY <2>5, <3>2, <3>3, <4>1, <4>2
      <4>3. CASE k = Len(f.ran) + 1
        BY <2>3, <2>4, <2>5, <3>1, <4>1, <4>3
      <4> QED
        BY <2>4, <3>1, <4>2, <4>3
    <3> QED
      BY <3>3 DEF Increasing
  <2>7. \A j \in DOMAIN g.ran : g.ran[j] <= g.applied
    BY <2>1, <2>2, <2>3, <2>4, <2>5
  <2> QED
    BY <2>6, <2>7 DEF OnceInOrder
<1> QED
  BY <1>1, <1>2

LEMMA NewFileOnce == OnceInOrder(NewFile)
  BY DEF OnceInOrder, Increasing, NewFile

\* A node that stops leaves a file in which nothing ran twice, if the one left
\* is such a file.
LEMMA GoDownOnce ==
    ASSUME TypeOK, OnceEverywhere, NEW n \in Node, NEW left \in File,
           OnceInOrder(left), GoDown(n, left)
    PROVE  OnceEverywhere'
  BY DEF TypeOK, OnceEverywhere, NeverTwice, GoDown, OnceInOrder, Increasing

\* No command takes effect twice in a file or a snapshot, nor after a later one
\* (Applier.inTx), whichever of the modelled faults happen.
THEOREM NothingTwice == Spec => []NeverTwice
<1>1. Init => OnceEverywhere
  BY NewFileOnce DEF Init, OnceEverywhere, NeverTwice
<1>2. TypeOK /\ OnceEverywhere /\ [Next]_vars => OnceEverywhere'
  <2> SUFFICES ASSUME TypeOK, OnceEverywhere, [Next]_vars PROVE OnceEverywhere'
    OBVIOUS
  <2>0. ASSUME UNCHANGED <<file, disk, snap>> PROVE OnceEverywhere'
    BY <2>0 DEF OnceEverywhere, NeverTwice, OnceInOrder, Increasing
  <2>1. ASSUME NEW n \in Node, Apply(n) PROVE OnceEverywhere'
    <3> DEFINE i == last[n] + 1
    <3>1. i \in 1..MaxLog /\ log[i] \in Command
      BY <2>1 DEF TypeOK, Apply
    <3>2. file[n] \in File /\ OnceInOrder(file[n])
      BY DEF TypeOK, OnceEverywhere, NeverTwice
    <3>3. OnceInOrder(InTx(file[n], i, log[i]))
      BY <3>1, <3>2, InTxOnce
    <3>4. /\ file' = [file EXCEPT ![n] = InTx(file[n], i, log[i])]
          /\ UNCHANGED <<disk, snap>>
      BY <2>1 DEF Apply
    <3>5. \A m \in Node : OnceInOrder(file'[m])
      BY <3>3, <3>4 DEF TypeOK, OnceEverywhere, NeverTwice
    <3> QED
      BY <3>4, <3>5 DEF OnceEverywhere, NeverTwice, OnceInOrder, Increasing
  <2>2. ASSUME NEW n \in Node, Checkpoint(n) PROVE OnceEverywhere'
    BY <2>2 DEF TypeOK, OnceEverywhere, NeverTwice, Checkpoint, OnceInOrder, Increasing
  <2>3. ASSUME NEW n \in Node, PersistSnapshot(n) PROVE OnceEverywhere'
    BY <2>3 DEF TypeOK, OnceEverywhere, NeverTwice, PersistSnapshot, OnceInOrder, Increasing
  <2>4. ASSUME NEW n \in Node, NEW m \in Node, ReceiveSnapshot(n, m)
        PROVE  OnceEverywhere'
    BY <2>4 DEF TypeOK, OnceEverywhere, NeverTwice, ReceiveSnapshot, OnceInOrder, Increasing
  <2>5. ASSUME NEW n \in Node, RestoreSnapshot(n) PROVE OnceEverywhere'
    BY <2>5 DEF TypeOK, OnceEverywhere, NeverTwice, RestoreSnapshot, OnceInOrder, Increasing
  <2>6. ASSUME NEW n \in Node, Crash(n) PROVE OnceEverywhere'
    BY <2>6, GoDownOnce DEF TypeOK, OnceEverywhere, NeverTwice, Crash
  <2>7. ASSUME NEW n \in Node, PowerCut(n) PROVE OnceEverywhere'
    BY <2>7, GoDownOnce DEF TypeOK, OnceEverywhere, PowerCut
  <2>8. ASSUME NEW n \in Node, CrashInInstall(n) PROVE OnceEverywhere'
    <3>1. PICK left \in {file[n], NewFile} : GoDown(n, left)
      BY <2>8 DEF CrashInInstall
    <3>2. left \in File /\ OnceInOrder(left)
      BY NewFileOnce, NewFileType DEF TypeOK, OnceEverywhere, NeverTwice
    <3> QED
      BY <3>1, <3>2, GoDownOnce
  <2>9. CASE UNCHANGED vars
    BY <2>0, <2>9 DEF vars
  <2>10. ASSUME NEW c \in Command, Commit(c) PROVE OnceEverywhere'
    BY <2>0, <2>10 DEF Commit
  <2>11. ASSUME NEW n \in Node, Receive(n) \/ RequestSnapshot(n) \/ Restart(n) \/ ApplyIOError(n)
         PROVE  OnceEverywhere'
    BY <2>0, <2>11 DEF Receive, RequestSnapshot, Restart, ApplyIOError
  <2> QED
    BY <2>1, <2>2, <2>3, <2>4, <2>5, <2>6, <2>7, <2>8, <2>9, <2>10, <2>11 DEF Next
<1>3. OnceEverywhere => NeverTwice
  BY DEF OnceEverywhere
<1> QED
  BY <1>1, <1>2, <1>3, TypeCorrect, PTL DEF Spec

-----------------------------------------------------------------------------
(***************************************************************************)
(* Copies stay exact while processes only stop and start.                  *)
(***************************************************************************)

\* Exactness looks at the file's contents and index, at the history as far as
\* it is compared, and no further.
LEMMA ExactDown ==
    ASSUME TypeOK, NEW f \in File, NEW i \in Nat, NEW j \in Nat, j <= i, Exact(f, i)
    PROVE  Exact(f, j)
  BY DEF Exact, File

\* Applying entry i to a file exact up to i - 1 makes it exact up to i: it is
\* skipped when the file has it, changes nothing when it fails, and otherwise
\* brings the file to the next point of the history.
LEMMA InTxExact ==
    ASSUME TypeOK, HistoryOK, NEW f \in File, NEW i \in 1..Len(log), Exact(f, i - 1)
    PROVE  /\ Exact(InTx(f, i, log[i]), i)
           /\ \A j \in Nat : Exact(f, j) => Exact(InTx(f, i, log[i]), j)
<1>0. /\ history \in Seq(Contents) /\ Len(history) = Len(log) + 1 /\ Len(log) \in Nat
      /\ f.applied \in Nat /\ i \in Nat
  BY DEF TypeOK, File
<1>1. CASE i <= f.applied
  <2>1. InTx(f, i, log[i]) = f
    BY <1>1 DEF InTx
  <2> QED
    BY <2>1, <1>0, <1>1 DEF Exact
<1>2. CASE ~(i <= f.applied)
  <2>1. f.data = history[i]
    <3>1. i - 1 \in f.applied .. (i - 1) /\ (i - 1) + 1 = i
      BY <1>0, <1>2
    <3>2. f.data = history[(i - 1) + 1]
      BY <3>1 DEF Exact
    <3> QED
      BY <3>1, <3>2
  <2>2. history[i + 1] = Run(f.data, log[i])
    BY <2>1 DEF HistoryOK
  <2>3. CASE Fails(f.data, log[i])
    <3>1. InTx(f, i, log[i]) = f /\ history[i + 1] = f.data
      BY <2>2, <2>3 DEF InTx, Run
    <3>2. \A k \in f.applied .. i : k = i \/ k \in f.applied .. (i - 1)
      BY <1>0
    <3> QED
      BY <3>1, <3>2, <1>0 DEF Exact
  <2>4. CASE ~Fails(f.data, log[i])
    <3> DEFINE g == InTx(f, i, log[i])
    <3>1. g.applied = i /\ g.data = history[i + 1]
      BY <1>2, <2>2, <2>4 DEF InTx, Run
    <3>2. Exact(g, i)
      BY <3>1, <1>0 DEF Exact
    <3>3. ASSUME NEW j \in Nat, Exact(f, j) PROVE Exact(g, j)
      BY <3>1, <3>3, <1>0, <1>2 DEF Exact
    <3> QED
      BY <3>2, <3>3
  <2> QED
    BY <2>3, <2>4
<1> QED
  BY <1>1, <1>2

\* A longer log and history leave what was exact exact.
LEMMA CommitExact ==
    ASSUME TypeOK, NEW c \in Command, Commit(c), NEW f \in File, NEW i \in 0..Len(log),
           Exact(f, i)
    PROVE  Exact(f, i)'
<1>1. /\ history' = Append(history, Run(history[Len(history)], c))
      /\ history \in Seq(Contents) /\ Len(history) = Len(log) + 1 /\ Len(log) \in Nat
  BY DEF TypeOK, Commit
<1>2. /\ \A k \in 1..Len(history) : history'[k] = history[k]
      /\ DOMAIN history \subseteq DOMAIN history'
  BY <1>1
<1>3. f.applied \in Nat /\ i \in Nat
  BY DEF File
<1> QED
  BY <1>1, <1>2, <1>3 DEF Exact

\* IInv is inductive when nothing worse than a crash can happen.
LEMMA IInvInit == ASSUME Init PROVE IInv
<1>1. Exact(NewFile, 0)
  BY DEF Exact, NewFile, Init
<1> QED
  BY <1>1 DEF Init, IInv, HistoryOK, IndexOK, InStep, CopyExact, SnapshotExact, ReplayExact

LEMMA IInvCommit ==
    ASSUME TypeOK, IInv, NEW c \in Command, Commit(c)
    PROVE  IInv'
<1>1. /\ log' = Append(log, c)
      /\ history' = Append(history, Run(history[Len(history)], c))
      /\ log \in Seq(Command) /\ history \in Seq(Contents)
      /\ Len(history) = Len(log) + 1
      /\ UNCHANGED <<file, last, stored, snap, pend, inst, up>>
  BY DEF TypeOK, Commit
<1>2. HistoryOK'
  <2>1. ASSUME NEW i \in 1..Len(log)' PROVE (history[i + 1] = Run(history[i], log[i]))'
    <3>1. CASE i \in 1..Len(log)
      <4>1. history'[i + 1] = history[i + 1] /\ history'[i] = history[i] /\ log'[i] = log[i]
        BY <1>1, <3>1
      <4> QED
        BY <4>1, <3>1 DEF IInv, HistoryOK
    <3>2. CASE i = Len(log) + 1
      <4>1. log'[i] = c /\ history'[i] = history[Len(history)]
        BY <1>1, <3>2
      <4>2. history'[i + 1] = Run(history[Len(history)], c)
        BY <1>1, <3>2
      <4> QED
        BY <4>1, <4>2
    <3> QED
      BY <1>1, <2>1, <3>1, <3>2
  <2> QED
    BY <2>1 DEF HistoryOK
<1>3. IndexOK'
  BY <1>1 DEF IInv, IndexOK, InStep, TypeOK
<1>4. CopyExact'
  BY <1>1, CommitExact DEF IInv, CopyExact, TypeOK
<1>5. SnapshotExact'
  BY <1>1, CommitExact DEF IInv, SnapshotExact, TypeOK
<1>6. ReplayExact'
  BY <1>1, CommitExact DEF IInv, ReplayExact, TypeOK
<1> QED
  BY <1>2, <1>3, <1>4, <1>5, <1>6 DEF IInv

LEMMA IInvApply ==
    ASSUME TypeOK, IInv, NEW n \in Node, Apply(n)
    PROVE  IInv'
<1> DEFINE i == last[n] + 1
           g == InTx(file[n], i, log[i])
<1>1. /\ i \in 1..Len(log) /\ i - 1 = last[n]
      /\ file' = [file EXCEPT ![n] = g] /\ last' = [last EXCEPT ![n] = i]
      /\ UNCHANGED <<log, history, stored, snap, pend, inst, up>>
  BY DEF TypeOK, Apply
<1>2. /\ Exact(g, i)
      /\ \A j \in Nat : Exact(file[n], j) => Exact(g, j)
  <2>1. file[n] \in File /\ Exact(file[n], i - 1) /\ HistoryOK
    BY <1>1 DEF TypeOK, IInv, CopyExact
  <2> HIDE DEF i
  <2> QED
    BY <1>1, <2>1, InTxExact
<1>3. HistoryOK'
  BY <1>1 DEF IInv, HistoryOK
<1>4. IndexOK'
  BY <1>1 DEF TypeOK, IInv, IndexOK, InStep, Apply
<1>5. CopyExact'
  BY <1>1, <1>2 DEF TypeOK, IInv, CopyExact, Exact
<1>6. SnapshotExact'
  BY <1>1 DEF IInv, SnapshotExact, Exact
<1>7. ReplayExact'
  <2>1. snap[n].label \in Nat
    BY DEF TypeOK
  <2>2. ~inst[n] => Exact(g, snap[n].label)
    BY <1>2, <2>1 DEF IInv, ReplayExact
  <2> QED
    BY <1>1, <2>2 DEF TypeOK, IInv, ReplayExact, Exact
<1> QED
  BY <1>3, <1>4, <1>5, <1>6, <1>7 DEF IInv

\* Steps that leave the log, the files and the snapshots of all nodes alone.
LEMMA IInvSnapshots ==
    ASSUME TypeOK, IInv, NEW n \in Node,
           RequestSnapshot(n) \/ PersistSnapshot(n) \/ Receive(n)
    PROVE  IInv'
<1>1. CASE RequestSnapshot(n) \/ Receive(n)
  <2>1. UNCHANGED <<log, history, file, last, snap, inst, up>>
    BY <1>1 DEF RequestSnapshot, Receive
  <2>2. HistoryOK' /\ CopyExact' /\ SnapshotExact' /\ ReplayExact'
    BY <2>1 DEF IInv, HistoryOK, CopyExact, SnapshotExact, ReplayExact, Exact
  <2>3. IndexOK'
    BY <1>1 DEF TypeOK, IInv, IndexOK, InStep, RequestSnapshot, Receive
  <2> QED
    BY <2>2, <2>3 DEF IInv
<1>2. CASE PersistSnapshot(n)
  <2>1. /\ UNCHANGED <<log, history, file, last, stored, inst, up>>
        /\ pend' = [pend EXCEPT ![n] = 0]
    BY <1>2 DEF PersistSnapshot
  <2>2. CASE ~(pend[n] > snap[n].label)
    <3>1. snap' = snap
      BY <1>2, <2>2 DEF PersistSnapshot, TypeOK
    <3>2. HistoryOK' /\ CopyExact' /\ SnapshotExact' /\ ReplayExact'
      BY <2>1, <3>1 DEF IInv, HistoryOK, CopyExact, SnapshotExact, ReplayExact, Exact
    <3>3. IndexOK'
      BY <2>1, <3>1 DEF TypeOK, IInv, IndexOK, InStep
    <3> QED
      BY <3>2, <3>3 DEF IInv
  <2>3. CASE pend[n] > snap[n].label
    <3>1. snap' = [snap EXCEPT ![n] = [label |-> pend[n], file |-> file[n]]]
      BY <1>2, <2>3 DEF PersistSnapshot
    <3>2. pend[n] \in Nat /\ last[n] \in Nat /\ pend[n] <= last[n] /\ file[n] \in File
      BY DEF TypeOK, IInv, IndexOK, InStep
    <3>3. Exact(file[n], pend[n])
      BY <3>2, ExactDown DEF IInv, CopyExact
    <3>4. HistoryOK' /\ CopyExact'
      BY <2>1 DEF IInv, HistoryOK, CopyExact, Exact
    <3>5. SnapshotExact'
      BY <2>1, <3>1, <3>3 DEF TypeOK, IInv, SnapshotExact, Exact
    <3>6. ReplayExact'
      BY <2>1, <3>1, <3>3 DEF TypeOK, IInv, ReplayExact, Exact
    <3>7. IndexOK'
      <4>1. InStep(n) /\ InStep(n)'
        BY <2>1, <2>3, <3>1, <3>2 DEF TypeOK, IInv, IndexOK, InStep
      <4>2. ASSUME NEW k \in Node, k # n PROVE InStep(k)'
        BY <2>1, <3>1, <4>2 DEF TypeOK, IInv, IndexOK, InStep
      <4> QED
        BY <4>1, <4>2 DEF IndexOK
    <3> QED
      BY <3>4, <3>5, <3>6, <3>7 DEF IInv
  <2> QED
    BY <2>2, <2>3
<1> QED
  BY <1>1, <1>2

LEMMA IInvReceiveSnapshot ==
    ASSUME TypeOK, IInv, NEW n \in Node, NEW m \in Node, ReceiveSnapshot(n, m)
    PROVE  IInv'
<1>1. /\ UNCHANGED <<log, history, file, last, stored, pend, up>>
      /\ snap' = [snap EXCEPT ![n] = snap[m]] /\ inst' = [inst EXCEPT ![n] = TRUE]
      /\ n \in up
  BY DEF ReceiveSnapshot
<1>2. HistoryOK' /\ CopyExact'
  BY <1>1 DEF IInv, HistoryOK, CopyExact, Exact
<1>3. SnapshotExact'
  BY <1>1 DEF TypeOK, IInv, SnapshotExact, Exact
<1>4. ReplayExact'
  BY <1>1 DEF TypeOK, IInv, ReplayExact, Exact
<1>5. IndexOK'
  <2>1. InStep(n)'
    BY <1>1 DEF TypeOK, IInv, IndexOK, InStep, ReceiveSnapshot
  <2>2. ASSUME NEW k \in Node, k # n PROVE InStep(k)'
    BY <1>1, <2>2 DEF TypeOK, IInv, IndexOK, InStep
  <2> QED
    BY <2>1, <2>2 DEF IndexOK
<1> QED
  BY <1>2, <1>3, <1>4, <1>5 DEF IInv

LEMMA IInvRestoreSnapshot ==
    ASSUME TypeOK, IInv, NEW n \in Node, RestoreSnapshot(n)
    PROVE  IInv'
<1>1. /\ UNCHANGED <<log, history, pend, snap, up>>
      /\ file' = [file EXCEPT ![n] = snap[n].file]
      /\ last' = [last EXCEPT ![n] = snap[n].label]
      /\ stored' = [stored EXCEPT ![n] = snap[n].label]
      /\ inst' = [inst EXCEPT ![n] = FALSE]
      /\ n \in up
  BY DEF RestoreSnapshot
<1>2. HistoryOK' /\ SnapshotExact'
  BY <1>1 DEF IInv, HistoryOK, SnapshotExact, Exact
<1>3. CopyExact'
  BY <1>1 DEF TypeOK, IInv, CopyExact, SnapshotExact, Exact
<1>4. ReplayExact'
  BY <1>1 DEF TypeOK, IInv, ReplayExact, SnapshotExact, Exact
<1>5. IndexOK'
  <2>1. InStep(n)'
    <3>1. inst[n] /\ InStep(n)
      BY DEF RestoreSnapshot, IInv, IndexOK
    <3>2. /\ last'[n] = snap[n].label /\ stored'[n] = snap[n].label
          /\ snap'[n] = snap[n] /\ pend'[n] = pend[n] /\ ~inst'[n] /\ n \in up'
      BY <1>1 DEF TypeOK
    <3>3. /\ snap[n].label \in Nat /\ last[n] \in Nat /\ stored[n] \in Nat
          /\ pend[n] \in Nat
      BY DEF TypeOK
    <3> QED
      BY <3>1, <3>2, <3>3 DEF InStep
  <2>2. ASSUME NEW k \in Node, k # n PROVE InStep(k)'
    BY <1>1, <2>2 DEF TypeOK, IInv, IndexOK, InStep
  <2> QED
    BY <2>1, <2>2 DEF IndexOK
<1> QED
  BY <1>2, <1>3, <1>4, <1>5 DEF IInv

LEMMA IInvCrash ==
    ASSUME TypeOK, IInv, NEW n \in Node, Crash(n)
    PROVE  IInv'
<1>1. /\ UNCHANGED <<log, history, stored, snap>>
      /\ up' = up \ {n} /\ file' = file
      /\ last' = [last EXCEPT ![n] = 0] /\ pend' = [pend EXCEPT ![n] = 0]
      /\ inst' = [inst EXCEPT ![n] = FALSE] /\ ~inst[n] /\ inst' = inst
  BY DEF TypeOK, Crash, GoDown
<1>2. HistoryOK' /\ SnapshotExact' /\ ReplayExact'
  BY <1>1 DEF IInv, HistoryOK, SnapshotExact, ReplayExact, Exact
<1>3. Exact(file[n], 0)
  BY ExactDown DEF TypeOK, IInv, CopyExact
<1>4. CopyExact'
  BY <1>1, <1>3 DEF TypeOK, IInv, CopyExact, Exact
<1>5. IndexOK'
  BY <1>1 DEF TypeOK, IInv, IndexOK, InStep
<1> QED
  BY <1>2, <1>4, <1>5 DEF IInv

LEMMA IInvRestart ==
    ASSUME TypeOK, IInv, NEW n \in Node, Restart(n)
    PROVE  IInv'
<1>1. /\ UNCHANGED <<log, history, file, snap, pend, inst>>
      /\ up' = up \cup {n} /\ last' = [last EXCEPT ![n] = snap[n].label]
      /\ stored' = [stored EXCEPT ![n] = IF stored[n] < snap[n].label
                                           THEN snap[n].label ELSE stored[n]]
      /\ ~inst[n]
  BY DEF IInv, IndexOK, InStep, Restart
<1>2. HistoryOK' /\ SnapshotExact' /\ ReplayExact'
  BY <1>1 DEF IInv, HistoryOK, SnapshotExact, ReplayExact, Exact
<1>3. CopyExact'
  BY <1>1 DEF TypeOK, IInv, CopyExact, ReplayExact, Exact
<1>4. IndexOK'
  <2>1. InStep(n)'
    <3>1. n \notin up /\ InStep(n)
      BY DEF Restart, IInv, IndexOK
    <3>2. /\ last'[n] = snap[n].label /\ snap'[n] = snap[n] /\ pend'[n] = pend[n]
          /\ inst'[n] = inst[n] /\ n \in up'
          /\ stored'[n] = IF stored[n] < snap[n].label THEN snap[n].label ELSE stored[n]
      BY <1>1 DEF TypeOK
    <3>3. snap[n].label \in Nat /\ stored[n] \in Nat
      BY DEF TypeOK
    <3> QED
      BY <3>1, <3>2, <3>3 DEF InStep
  <2>2. ASSUME NEW k \in Node, k # n PROVE InStep(k)'
    BY <1>1, <2>2 DEF TypeOK, IInv, IndexOK, InStep
  <2> QED
    BY <2>1, <2>2 DEF IndexOK
<1> QED
  BY <1>2, <1>3, <1>4 DEF IInv

\* While the only fault is a process that stops, every node's file is exactly
\* what its entries leave, and every snapshot is exact up to its label: nothing
\* is lost or applied twice by restarts, replays and installed snapshots.
THEOREM CopiesExact ==
    ASSUME Faults \subseteq {"crash"}
    PROVE  Spec => [](CopyExact /\ SnapshotExact)
<1>1. Init => IInv
  BY IInvInit
<1>2. TypeOK /\ IInv /\ [Next]_vars => IInv'
  <2> SUFFICES ASSUME TypeOK, IInv, [Next]_vars PROVE IInv'
    OBVIOUS
  <2>1. ASSUME NEW c \in Command, Commit(c) PROVE IInv'
    BY <2>1, IInvCommit
  <2>2. ASSUME NEW n \in Node, Apply(n) PROVE IInv'
    BY <2>2, IInvApply
  <2>3. ASSUME NEW n \in Node, RequestSnapshot(n) \/ PersistSnapshot(n) \/ Receive(n)
        PROVE  IInv'
    BY <2>3, IInvSnapshots
  <2>4. ASSUME NEW n \in Node, NEW m \in Node, ReceiveSnapshot(n, m) PROVE IInv'
    BY <2>4, IInvReceiveSnapshot
  <2>5. ASSUME NEW n \in Node, RestoreSnapshot(n) PROVE IInv'
    BY <2>5, IInvRestoreSnapshot
  <2>6. ASSUME NEW n \in Node, Crash(n) PROVE IInv'
    BY <2>6, IInvCrash
  <2>7. ASSUME NEW n \in Node, Restart(n) PROVE IInv'
    BY <2>7, IInvRestart
  <2>8. ASSUME NEW n \in Node,
               Checkpoint(n) \/ PowerCut(n) \/ CrashInInstall(n) \/ ApplyIOError(n)
        PROVE  IInv'
    BY <2>8 DEF Checkpoint, PowerCut, CrashInInstall, ApplyIOError
  <2>9. CASE UNCHANGED vars
    BY <2>9 DEF vars, IInv, HistoryOK, IndexOK, InStep, CopyExact, SnapshotExact,
               ReplayExact, Exact
  <2> QED
    BY <2>1, <2>2, <2>3, <2>4, <2>5, <2>6, <2>7, <2>8, <2>9 DEF Next
<1>3. IInv => CopyExact /\ SnapshotExact
  BY DEF IInv
<1> QED
  BY <1>1, <1>2, <1>3, TypeCorrect, PTL DEF Spec

-----------------------------------------------------------------------------
(***************************************************************************)
(* Every step is one of the abstract replicated file's.                    *)
(***************************************************************************)

\* A step that leaves the history alone, and all files but n's, moves n's copy
\* to another point of the history or leaves it where it is.
LEMMA MoveStep ==
    ASSUME TypeOK, NEW n \in Node, NEW f \in File, history' = history,
           file' = [file EXCEPT ![n] = f], Exact(f, f.applied)
    PROVE  RF!Move(n)
<1> DEFINE k == f.applied
<1>1. k \in 0 .. (Len(history) - 1) /\ f.data = history[k + 1]
  BY DEF TypeOK, Exact, File
<1>2. [m \in Node |-> [data |-> file'[m].data, applied |-> file'[m].applied]]
        = [[m \in Node |-> [data |-> file[m].data, applied |-> file[m].applied]]
             EXCEPT ![n] = [data |-> history[k + 1], applied |-> k]]
  BY <1>1 DEF TypeOK
<1> QED
  BY <1>1, <1>2 DEF RF!Move

\* While the only fault is a process that stops, a file of grus replicated over
\* its log behaves as ReplicatedFile says.
THEOREM FileLogImplements ==
    ASSUME Faults \subseteq {"crash"}
    PROVE  Spec => ImplementsReplicatedFile
<1>1. Init => RF!Init
  BY DEF Init, RF!Init, NewFile
<1>2. TypeOK /\ CopyExact /\ SnapshotExact /\ (CopyExact)' /\ TypeOK' /\ [Next]_vars
        => [RF!Next]_(RF!vars)
  <2> SUFFICES ASSUME TypeOK, CopyExact, SnapshotExact, CopyExact', TypeOK', [Next]_vars
               PROVE  [RF!Next]_(RF!vars)
    OBVIOUS
  <2>0. ASSUME UNCHANGED <<history, file>> PROVE [RF!Next]_(RF!vars)
    BY <2>0 DEF RF!vars
  <2>1. ASSUME NEW c \in Command, Commit(c) PROVE [RF!Next]_(RF!vars)
    <3>1. history' = Append(history, Run(history[Len(history)], c)) /\ file' = file
      BY <2>1 DEF Commit
    <3>2. RF!Write
      BY <3>1 DEF RF!Write
    <3> QED
      BY <3>2 DEF RF!Next
  <2>2. ASSUME NEW n \in Node, Apply(n) \/ RestoreSnapshot(n) PROVE [RF!Next]_(RF!vars)
    <3> DEFINE f == file'[n]
    <3>1. history' = history /\ f \in File /\ file' = [file EXCEPT ![n] = f]
      BY <2>2 DEF TypeOK, Apply, RestoreSnapshot
    <3>2. Exact(f, f.applied)
      BY <3>1 DEF CopyExact, Exact, File
    <3>3. RF!Move(n)
      BY <3>1, <3>2, MoveStep
    <3> QED
      BY <3>3 DEF RF!Next
  <2>3. ASSUME NEW n \in Node, Crash(n) PROVE [RF!Next]_(RF!vars)
    BY <2>0, <2>3 DEF Crash, GoDown, TypeOK
  <2>4. ASSUME NEW n \in Node,
               Receive(n) \/ RequestSnapshot(n) \/ PersistSnapshot(n) \/ Restart(n)
        PROVE  [RF!Next]_(RF!vars)
    BY <2>0, <2>4 DEF Receive, RequestSnapshot, PersistSnapshot, Restart
  <2>5. ASSUME NEW n \in Node, NEW m \in Node, ReceiveSnapshot(n, m)
        PROVE  [RF!Next]_(RF!vars)
    BY <2>0, <2>5 DEF ReceiveSnapshot
  <2>6. ASSUME NEW n \in Node,
               Checkpoint(n) \/ PowerCut(n) \/ CrashInInstall(n) \/ ApplyIOError(n)
        PROVE  [RF!Next]_(RF!vars)
    BY <2>6 DEF Checkpoint, PowerCut, CrashInInstall, ApplyIOError
  <2>7. CASE UNCHANGED vars
    BY <2>0, <2>7 DEF vars
  <2> QED
    BY <2>1, <2>2, <2>3, <2>4, <2>5, <2>6, <2>7 DEF Next
<1> QED
  BY <1>1, <1>2, TypeCorrect, CopiesExact, PTL
     DEF Spec, ImplementsReplicatedFile, RF!Spec
=============================================================================
