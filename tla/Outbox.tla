------------------------------- MODULE Outbox -------------------------------
(***************************************************************************)
(* How a change in one file reaches another (internal/cmd/logs.go).  A     *)
(* command writes follow-up commands into its own file's outbox, in its    *)
(* own transaction; the leader of the log relays them to their target logs *)
(* and then deletes them with a command of its own, OutboxDone             *)
(* (internal/cluster/upkeep.go, relay).                                    *)
(*                                                                         *)
(* Here: one log whose every write sends a follow-up to one target log, on *)
(* the nodes that hold it.  Each node reads the outbox in its own copy of  *)
(* the file, which may be behind the log even on the leader.  A node that  *)
(* lost the leadership goes on with the batch it has in hand, and a        *)
(* forwarded command whose submitter gave up may still arrive.             *)
(***************************************************************************)
EXTENDS Integers, Sequences, FiniteSets, FiniteSetsExt

CONSTANTS
    Node,           \* the nodes holding the log
    Batch,          \* follow-ups read at a time (relay: 100)
    Refused,        \* follow-ups whose target refuses them (an input error)
    MaxWrites,      \* bound: writes to the log
    MaxFaults       \* bound: leader changes, crashes and failed deliveries

ASSUME BatchAssumption == Batch \in Nat \ {0}
ASSUME RefusedAssumption == Refused \subseteq Nat
ASSUME OutboxBounds == MaxWrites \in Nat /\ MaxFaults \in Nat

Nobody == "nobody"

VARIABLES
    log,        \* committed entries: a write, or OutboxDone with its UpTo
    applied,    \* per node: entries its file has
    leader,     \* the log's leader, or Nobody
    awaits,     \* per node: its own OutboxDone, not applied here yet (0: none)
    pass,       \* per node: the batch being relayed: next id, last id
    late,       \* follow-ups given up on that may still arrive
    got,        \* follow-ups the target log has taken
    latest,     \* the one that last took effect there
    faults

vars == <<log, applied, leader, awaits, pass, late, got, latest, faults>>

Write == [op |-> "write", upTo |-> 0]
Done(id) == [op |-> "done", upTo |-> id]
Idle == [at |-> 0, to |-> 0]

\* The outbox of a file with the first k entries.  Ids are handed out in log
\* order and never again (AUTOINCREMENT); OutboxDone deletes up to its UpTo.
Sent(k) == Cardinality({j \in 1..k : log[j].op = "write"})
Deleted(k) == Max({0} \cup {log[j].upTo : j \in 1..k})
OutboxOf(k) == (Deleted(k) + 1) .. Sent(k)

Init ==
    /\ log = <<>>
    /\ applied = [n \in Node |-> 0]
    /\ leader = Nobody
    /\ awaits = [n \in Node |-> 0]
    /\ pass = [n \in Node |-> Idle]
    /\ late = {} /\ got = {} /\ latest = 0 /\ faults = 0

Fault == faults < MaxFaults /\ faults' = faults + 1

-----------------------------------------------------------------------------
\* A command of the source log commits; send puts its follow-up in the outbox
\* of every copy as the entry is applied.
Submit ==
    /\ leader # Nobody /\ Sent(Len(log)) < MaxWrites
    /\ log' = Append(log, Write)
    /\ UNCHANGED <<applied, leader, awaits, pass, late, got, latest, faults>>

\* A node's file takes the next entry (FileLog in detail).
ApplyEntry(n) ==
    /\ applied[n] < Len(log)
    /\ applied' = [applied EXCEPT ![n] = @ + 1]
    /\ UNCHANGED <<log, leader, awaits, pass, late, got, latest, faults>>

\* A mistake: the newest rows first.
BatchNewest(box) == [at |-> Max({Min(box), Max(box) - Batch + 1}), to |-> Max(box)]
\* Store.Outbox: the oldest rows, up to Batch of them.
BatchOf(box) == [at |-> Min(box), to |-> Min({Max(box), Min(box) + Batch - 1})]

\* A mistake: only a full batch is worth a pass.
ReadFullBatch(n) ==
    /\ n = leader /\ pass[n] = Idle /\ applied[n] >= awaits[n]
    /\ Cardinality(OutboxOf(applied[n])) >= Batch
    /\ pass' = [pass EXCEPT ![n] = BatchOf(OutboxOf(applied[n]))]
    /\ UNCHANGED <<log, applied, leader, awaits, late, got, latest, faults>>

\* relay: the leader reads a batch, oldest first, from its own copy.  Its
\* previous OutboxDone has been applied here by then (applyHere waits).
ReadBatch(n) ==
    /\ n = leader /\ pass[n] = Idle /\ applied[n] >= awaits[n]
    /\ OutboxOf(applied[n]) # {}
    /\ pass' = [pass EXCEPT ![n] = BatchOf(OutboxOf(applied[n]))]
    /\ UNCHANGED <<log, applied, leader, awaits, late, got, latest, faults>>

\* The target log takes follow-up i; one it refuses changes nothing there.
Take(i) ==
    /\ got' = got \cup {i}
    /\ latest' = IF i \in Refused THEN latest ELSE i

Sending(n) == pass[n] # Idle /\ pass[n].at <= pass[n].to

\* relay, one item: taken or refused, and the answer says so.
Deliver(n) ==
    /\ Sending(n)
    /\ Take(pass[n].at)
    /\ pass' = [pass EXCEPT ![n].at = @ + 1]
    /\ UNCHANGED <<log, applied, leader, awaits, late, faults>>

\* A mistake: an unreachable target counts as a refusal.
PassOver(n) ==
    /\ Fault /\ Sending(n)
    /\ pass' = [pass EXCEPT ![n].at = @ + 1]
    /\ UNCHANGED <<log, applied, leader, awaits, late, got, latest>>

\* Any other error (no leader, no connection) ends the pass.
Undelivered(n) ==
    /\ Fault /\ Sending(n)
    /\ pass' = [pass EXCEPT ![n] = Idle]
    /\ UNCHANGED <<log, applied, leader, awaits, late, got, latest>>

\* It was taken, but the answer got lost: the pass ends just the same.
Unanswered(n) ==
    /\ Fault /\ Sending(n)
    /\ Take(pass[n].at)
    /\ pass' = [pass EXCEPT ![n] = Idle]
    /\ UNCHANGED <<log, applied, leader, awaits, late>>

\* The client's time runs out with the command still on its way.
GiveUp(n) ==
    /\ Fault /\ Sending(n)
    /\ late' = late \cup {pass[n].at}
    /\ pass' = [pass EXCEPT ![n] = Idle]
    /\ UNCHANGED <<log, applied, leader, awaits, got, latest>>

ArriveLate(i) ==
    /\ i \in late
    /\ Take(i)
    /\ late' = late \ {i}
    /\ UNCHANGED <<log, applied, leader, awaits, pass, faults>>

\* What relay has OutboxDone delete: everything up to the batch's last row.
UpTo(p) == p.to

\* The end of a batch: OutboxDone, which only the leader can append.
Finish(n) ==
    /\ pass[n] # Idle /\ pass[n].at > pass[n].to
    /\ IF n = leader
         THEN /\ log' = Append(log, Done(UpTo(pass[n])))
              /\ awaits' = [awaits EXCEPT ![n] = Len(log) + 1]
         ELSE UNCHANGED <<log, awaits>>
    /\ pass' = [pass EXCEPT ![n] = Idle]
    /\ UNCHANGED <<applied, leader, late, got, latest, faults>>

-----------------------------------------------------------------------------
\* Raft (external): a node is elected, in a vacancy or over the head of a
\* leader that does not know it yet.  Its file may be behind the log.
Elect(n) ==
    /\ n # leader
    /\ IF leader = Nobody THEN UNCHANGED faults ELSE Fault
    /\ leader' = n
    /\ awaits' = [awaits EXCEPT ![n] = 0]
    /\ UNCHANGED <<log, applied, pass, late, got, latest>>

\* A node stops, and its pass with it; its file keeps what it has.
Crash(n) ==
    /\ Fault
    /\ pass' = [pass EXCEPT ![n] = Idle]
    /\ leader' = IF leader = n THEN Nobody ELSE leader
    /\ UNCHANGED <<log, applied, awaits, late, got, latest>>

Next ==
    \/ Submit
    \/ \E n \in Node :
         \/ ApplyEntry(n) \/ ReadBatch(n) \/ Deliver(n) \/ Finish(n)
         \/ Undelivered(n) \/ Unanswered(n) \/ GiveUp(n)
         \/ Elect(n) \/ Crash(n)
    \/ \E i \in late : ArriveLate(i)

Spec == Init /\ [][Next]_vars

\* Copies catch up; upkeep runs relay on every tick; a vacancy is filled.
FairSpec ==
    /\ Spec
    /\ \A n \in Node :
         /\ WF_vars(ApplyEntry(n)) /\ WF_vars(ReadBatch(n))
         /\ WF_vars(Deliver(n)) /\ WF_vars(Finish(n))
    /\ WF_vars(leader = Nobody /\ \E n \in Node : Elect(n))

-----------------------------------------------------------------------------

\* A follow-up leaves the outbox only after its target log took (or refused)
\* it: elections, crashes, stale copies and lost answers lose none (relay, and
\* OutboxDone's UpTo).
NoneLost == 1..Deleted(Len(log)) \subseteq got

\* The source and target logs together keep the promise of FollowUps: at least
\* once, and first deliveries in the order sent, whoever relays.
FU == INSTANCE FollowUps WITH sent <- Sent(Len(log))
KeepsPromise == FU!Spec

\* Once the leader changes and failures stop, every outbox empties, and so (by
\* NoneLost) every follow-up has arrived.
Drains == <>[](\A n \in Node : OutboxOf(applied[n]) = {})
=============================================================================
