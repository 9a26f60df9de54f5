---------------------------- MODULE OutboxProofs ----------------------------
(***************************************************************************)
(* Proofs about follow-ups, for any nodes, batches, writes and faults.     *)
(*                                                                         *)
(* NoneLost is about what the log has deleted; it needs the same of every  *)
(* entry (Dones), of what a pass has done so far (Passes: everything       *)
(* before the next item has arrived), and of what may still arrive         *)
(* (Lates).  That a pass starts there is because a copy's outbox begins    *)
(* after the last id that the copy has seen deleted (HasMax says that      *)
(* there is a last one).  It also gives the order that FollowUps promises. *)
(***************************************************************************)
EXTENDS Outbox, FiniteSetTheorems, TLAPS

USE BatchAssumption, RefusedAssumption, OutboxBounds

Entry == [op : {"write", "done"}, upTo : Nat]

TypeOK ==
    /\ log \in Seq(Entry)
    /\ applied \in [Node -> Nat] /\ \A n \in Node : applied[n] <= Len(log)
    /\ pass \in [Node -> [at : Nat, to : Nat]]
    /\ late \subseteq Nat /\ got \subseteq Nat /\ latest \in Nat

(* Sent and Deleted, of any log q.                                         *)
Writes(q, k) == {j \in 1..k : q[j].op = "write"}
Ids(q, k) == {0} \cup {q[j].upTo : j \in 1..k}
Last(S) == \E m \in S : \A x \in S : x <= m

Arrived(i) == 1..i \subseteq got
Dones == \A j \in 1..Len(log) : Arrived(log[j].upTo)
HasMax == \A k \in 0..Len(log) : Last(Ids(log, k))
Passes ==
    \A n \in Node : pass[n] # Idle =>
        /\ 1 <= pass[n].at /\ pass[n].at <= pass[n].to + 1
        /\ pass[n].to <= Sent(Len(log))
        /\ Arrived(pass[n].at - 1)
Lates == \A i \in late : i \in 1..Sent(Len(log)) /\ Arrived(i - 1)

IInv == TypeOK /\ Dones /\ HasMax /\ Passes /\ Lates

(***************************************************************************)
(* Logs                                                                    *)
(***************************************************************************)

(* The ids that entries delete up to are numbers.                          *)
LEMMA IdsAreNumbers ==
  ASSUME NEW q \in Seq(Entry), NEW k \in 0..Len(q)
  PROVE  Ids(q, k) \subseteq Nat
<1>1. ASSUME NEW j \in 1..k PROVE q[j].upTo \in Nat
  <2>1. j \in 1..Len(q)
    OBVIOUS
  <2>2. q[j] \in Entry
    BY <2>1
  <2>. QED BY <2>2 DEF Entry
<1>. QED BY <1>1 DEF Ids

(* How many follow-ups were sent never shrinks, and is a number.           *)
LEMMA SentCounts ==
  ASSUME NEW q \in Seq(Entry), NEW k \in 0..Len(q)
  PROVE  /\ Cardinality(Writes(q, k)) \in Nat
         /\ Cardinality(Writes(q, k)) <= Cardinality(Writes(q, Len(q)))
<1>1. IsFiniteSet(1..Len(q))
  BY FS_Interval
<1>2. Writes(q, Len(q)) \subseteq 1..Len(q) /\ Writes(q, k) \subseteq Writes(q, Len(q))
  BY DEF Writes
<1>3. IsFiniteSet(Writes(q, Len(q)))
  BY <1>1, <1>2, FS_Subset
<1>. QED BY <1>2, <1>3, FS_Subset, FS_CardinalityType

(* A write sends one follow-up, OutboxDone none.                           *)
LEMMA SentOnce ==
  ASSUME NEW q \in Seq(Entry), NEW e \in Entry
  PROVE  Cardinality(Writes(Append(q, e), Len(q) + 1)) =
            Cardinality(Writes(q, Len(q))) + (IF e.op = "write" THEN 1 ELSE 0)
<1>1. IsFiniteSet(1..Len(q)) /\ Len(q) \in Nat
  BY FS_Interval
<1>2. IsFiniteSet(Writes(q, Len(q))) /\ Cardinality(Writes(q, Len(q))) \in Nat
  <2>1. Writes(q, Len(q)) \subseteq 1..Len(q)
    BY DEF Writes
  <2>. QED BY <1>1, <2>1, FS_Subset, FS_CardinalityType
<1>3. \A j \in 1..Len(q) : Append(q, e)[j] = q[j]
  OBVIOUS
<1>4. Append(q, e)[Len(q) + 1] = e
  OBVIOUS
<1>5. CASE e.op = "write"
  <2>1. Writes(Append(q, e), Len(q) + 1) = Writes(q, Len(q)) \cup {Len(q) + 1}
    BY <1>1, <1>3, <1>4, <1>5 DEF Writes
  <2>2. Len(q) + 1 \notin Writes(q, Len(q))
    BY <1>1 DEF Writes
  <2>. QED BY <1>2, <1>5, <2>1, <2>2, FS_AddElement
<1>6. CASE e.op # "write"
  <2>1. Writes(Append(q, e), Len(q) + 1) = Writes(q, Len(q))
    BY <1>1, <1>3, <1>4, <1>6 DEF Writes
  <2>. QED BY <1>2, <1>6, <2>1
<1>. QED BY <1>5, <1>6

(* The ids deleted by a prefix stay, and the last one can be found.        *)
LEMMA LastStays ==
  ASSUME NEW q \in Seq(Entry), NEW e \in Entry, \A k \in 0..Len(q) : Last(Ids(q, k))
  PROVE  \A k \in 0..Len(Append(q, e)) : Last(Ids(Append(q, e), k))
<1>1. /\ Len(q) \in Nat /\ Len(Append(q, e)) = Len(q) + 1 /\ Append(q, e)[Len(q) + 1] = e
      /\ \A j \in 1..Len(q) : Append(q, e)[j] = q[j]
  OBVIOUS
<1>2. ASSUME NEW k \in 0..Len(q) PROVE Last(Ids(Append(q, e), k))
  <2>1. Ids(Append(q, e), k) = Ids(q, k)
    BY <1>1 DEF Ids
  <2>. QED BY <2>1
<1>3. Last(Ids(Append(q, e), Len(q) + 1))
  <2>1. Ids(Append(q, e), Len(q) + 1) = Ids(q, Len(q)) \cup {e.upTo}
    BY <1>1 DEF Ids
  <2>2. PICK m \in Ids(q, Len(q)) : \A x \in Ids(q, Len(q)) : x <= m
    BY <1>1 DEF Last
  <2>3. Ids(q, Len(q)) \subseteq Nat /\ e.upTo \in Nat
    BY <1>1, IdsAreNumbers DEF Entry
  <2>4. CASE e.upTo <= m
    BY <2>1, <2>2, <2>4 DEF Last
  <2>5. CASE m < e.upTo
    <3>1. \A x \in Ids(q, Len(q)) \cup {e.upTo} : x <= e.upTo
      BY <2>2, <2>3, <2>5
    <3>. QED BY <2>1, <3>1 DEF Last
  <2>. QED BY <2>2, <2>3, <2>4, <2>5
<1>. QED BY <1>1, <1>2, <1>3

(* What has been deleted in a copy was deleted by one of its entries.      *)
LEMMA DeletedIs ==
  ASSUME TypeOK, HasMax, NEW k \in 0..Len(log)
  PROVE  Deleted(k) \in Nat /\ Deleted(k) \in Ids(log, k)
<1>1. PICK m \in Ids(log, k) : \A x \in Ids(log, k) : x <= m
  BY DEF HasMax, Last
<1>2. Ids(log, k) \subseteq Nat
  BY IdsAreNumbers DEF TypeOK
<1>3. m >= m /\ \A y \in Ids(log, k) : m >= y
  BY <1>1, <1>2
<1>4. Max(Ids(log, k)) \in Ids(log, k)
  BY <1>1, <1>3 DEF Max
<1>. QED BY <1>2, <1>4 DEF Deleted, Ids

(* A batch starts with the oldest row, and ends at one that was sent.      *)
LEMMA BatchIs ==
  ASSUME NEW d \in Nat, NEW t \in Nat, d < t
  PROVE  /\ BatchOf((d + 1)..t).at = d + 1
         /\ BatchOf((d + 1)..t).to \in (d + 1)..t
<1>1. Min((d + 1)..t) = d + 1
  BY DEF Min
<1>2. Max((d + 1)..t) = t
  BY DEF Max
<1>3. Min({t, d + 1 + Batch - 1}) \in (d + 1)..t
  BY DEF Min
<1>. QED BY <1>1, <1>2, <1>3 DEF BatchOf

(* Everything a copy has seen deleted has arrived.                         *)
LEMMA DeletedArrived ==
  ASSUME IInv, NEW k \in 0..Len(log)
  PROVE  Deleted(k) \in Nat /\ Arrived(Deleted(k))
<1>1. Deleted(k) \in Nat /\ Deleted(k) \in Ids(log, k)
  BY DeletedIs DEF IInv
<1>2. CASE Deleted(k) = 0
  BY <1>1, <1>2 DEF Arrived
<1>3. ASSUME NEW j \in 1..k, Deleted(k) = log[j].upTo PROVE Arrived(Deleted(k))
  <2>1. j \in 1..Len(log)
    BY DEF IInv, TypeOK
  <2>. QED BY <1>3, <2>1 DEF IInv, Dones
<1>. QED BY <1>1, <1>2, <1>3 DEF Ids

(* What was sent by the log, or a part of it, is a number.                 *)
LEMMA SentIs ==
  ASSUME TypeOK, NEW k \in 0..Len(log)
  PROVE  Sent(k) \in Nat /\ Sent(k) <= Sent(Len(log)) /\ Sent(Len(log)) \in Nat
<1>1. log \in Seq(Entry) /\ Len(log) \in 0..Len(log)
  BY DEF TypeOK
<1>. QED BY <1>1, SentCounts DEF Sent, Writes

(***************************************************************************)
(* The invariant                                                           *)
(***************************************************************************)

(* It holds of the empty log.                                              *)
LEMMA InitInv == Init => IInv
<1>. SUFFICES ASSUME Init PROVE IInv
  OBVIOUS
<1>1. /\ log = <<>> /\ applied = [n \in Node |-> 0] /\ pass = [n \in Node |-> Idle]
      /\ late = {} /\ got = {} /\ latest = 0
  BY DEF Init
<1>2. TypeOK
  <2>1. Len(<<>>) = 0 /\ <<>> \in Seq(Entry) /\ Idle \in [at : Nat, to : Nat]
    BY DEF Idle
  <2>. QED BY <1>1, <2>1 DEF TypeOK
<1>3. Dones
  BY <1>1 DEF Dones
<1>4. HasMax
  <2>1. Ids(<<>>, 0) = {0}
    BY DEF Ids
  <2>2. 0..Len(log) = {0}
    BY <1>1
  <2>. QED BY <1>1, <2>1, <2>2 DEF HasMax, Last
<1>5. Passes /\ Lates
  BY <1>1 DEF Passes, Lates
<1>. QED BY <1>2, <1>3, <1>4, <1>5 DEF IInv

(* A step that commits nothing; what has arrived stays.                    *)
LEMMA StillInv ==
  ASSUME IInv, log' = log, got \subseteq got', TypeOK', Passes', Lates'
  PROVE  IInv'
<1>1. Dones'
  BY DEF IInv, Dones, Arrived
<1>2. HasMax'
  BY DEF IInv, HasMax
<1>. QED BY <1>1, <1>2 DEF IInv

(* An entry is committed: a write, or OutboxDone up to what has arrived.   *)
LEMMA CommitInv ==
  ASSUME IInv, NEW e \in Entry, log' = Append(log, e), Arrived(e.upTo),
         UNCHANGED <<applied, late, got, latest>>,
         pass' \in [Node -> [at : Nat, to : Nat]],
         \A n \in Node : pass'[n] = Idle \/ pass'[n] = pass[n]
  PROVE  IInv' /\ Sent(Len(log))' = Sent(Len(log)) + (IF e.op = "write" THEN 1 ELSE 0)
<1>1. log \in Seq(Entry) /\ Len(log) \in Nat
  BY DEF IInv, TypeOK
<1>2. /\ log' \in Seq(Entry) /\ Len(log') = Len(log) + 1 /\ log'[Len(log) + 1] = e
      /\ \A j \in 1..Len(log) : log'[j] = log[j]
  BY <1>1
<1>3. Sent(Len(log))' = Sent(Len(log)) + (IF e.op = "write" THEN 1 ELSE 0)
  <2>1. Cardinality(Writes(log', Len(log'))) =
            Cardinality(Writes(log, Len(log))) + (IF e.op = "write" THEN 1 ELSE 0)
    BY <1>1, <1>2, SentOnce
  <2>. QED BY <2>1 DEF Sent, Writes
<1>4. /\ Sent(Len(log)) \in Nat /\ Sent(Len(log))' \in Nat
      /\ Sent(Len(log)) <= Sent(Len(log))'
  <2>1. Sent(Len(log)) \in Nat
    BY <1>1, SentIs DEF IInv
  <2>. QED BY <1>3, <2>1
<1>5. TypeOK'
  BY <1>1, <1>2 DEF IInv, TypeOK
<1>6. Dones'
  BY <1>1, <1>2 DEF IInv, Dones, Arrived
<1>7. HasMax'
  BY <1>1, LastStays DEF IInv, HasMax
<1>8. Passes'
  <2>. SUFFICES ASSUME NEW n \in Node, pass'[n] # Idle
                PROVE  /\ 1 <= pass[n].at /\ pass[n].at <= pass[n].to + 1
                       /\ pass[n].to <= Sent(Len(log))' /\ Arrived(pass[n].at - 1)
                       /\ pass'[n] = pass[n]
    BY DEF Passes, Arrived
  <2>1. pass'[n] = pass[n] /\ pass[n] # Idle /\ pass[n].to \in Nat
    BY DEF IInv, TypeOK
  <2>. QED BY <1>4, <2>1 DEF IInv, Passes
<1>9. Lates'
  BY <1>4 DEF IInv, Lates, Arrived, TypeOK
<1>. QED BY <1>3, <1>5, <1>6, <1>7, <1>8, <1>9 DEF IInv

(* A pass goes on, ends, or begins at the oldest row of the outbox; the    *)
(* target may take the follow-up that is next.                             *)
LEMMA PassInv ==
  ASSUME IInv, NEW n \in Node, NEW p \in [at : Nat, to : Nat],
         pass' = [pass EXCEPT ![n] = p],
         UNCHANGED <<log, applied>>, got \subseteq got',
         got' \subseteq Nat, latest' \in Nat, late' \subseteq Nat,
         p # Idle => /\ 1 <= p.at /\ p.at <= p.to + 1 /\ p.to <= Sent(Len(log))
                     /\ 1..(p.at - 1) \subseteq got',
         \A i \in late' : i \in 1..Sent(Len(log)) /\ Arrived(i - 1)
  PROVE  IInv'
<1>1. /\ pass \in [Node -> [at : Nat, to : Nat]] /\ pass'[n] = p
      /\ \A k \in Node : k # n => pass'[k] = pass[k]
  BY DEF IInv, TypeOK
<1>2. TypeOK'
  BY DEF IInv, TypeOK
<1>3. Sent(Len(log))' = Sent(Len(log))
  BY DEF Sent
<1>4. Passes'
  <2>. SUFFICES ASSUME NEW k \in Node, pass'[k] # Idle
                PROVE  /\ 1 <= pass'[k].at /\ pass'[k].at <= pass'[k].to + 1
                       /\ pass'[k].to <= Sent(Len(log)) /\ 1..(pass'[k].at - 1) \subseteq got'
    BY <1>3 DEF Passes, Arrived
  <2>1. CASE k = n
    BY <1>1, <2>1
  <2>2. CASE k # n
    BY <1>1, <2>2 DEF IInv, Passes, Arrived
  <2>. QED BY <2>1, <2>2
<1>5. Lates'
  BY <1>3 DEF Lates, Arrived
<1>. QED BY <1>2, <1>4, <1>5, StillInv

(* What a pass is about to send is next in order, and was sent.            *)
LEMMA SendingIs ==
  ASSUME IInv, NEW n \in Node, Sending(n)
  PROVE  /\ pass[n].at \in 1..Sent(Len(log)) /\ Arrived(pass[n].at - 1)
         /\ pass[n].at \in Nat /\ pass[n].to \in Nat /\ pass[n].to <= Sent(Len(log))
         /\ pass[n].at <= pass[n].to
<1>1. Sent(Len(log)) \in Nat
  <2>1. Len(log) \in 0..Len(log)
    BY DEF IInv, TypeOK
  <2>. QED BY <2>1, SentIs DEF IInv
<1>2. pass[n] \in [at : Nat, to : Nat] /\ pass[n] # Idle /\ pass[n].at <= pass[n].to
  BY DEF IInv, TypeOK, Sending
<1>. QED BY <1>1, <1>2 DEF IInv, Passes

(* The target log takes it.                                                *)
LEMMA TakeIs ==
  ASSUME IInv, NEW i \in Nat, 1 <= i, Arrived(i - 1), Take(i)
  PROVE  /\ got \subseteq got' /\ got' \subseteq Nat /\ latest' \in Nat
         /\ 1..i \subseteq got'
BY DEF IInv, TypeOK, Take, Arrived

(* The relay's steps.                                                      *)
LEMMA RelayInv ==
  ASSUME IInv, NEW n \in Node,
         ReadBatch(n) \/ Deliver(n) \/ Undelivered(n) \/ Unanswered(n) \/ GiveUp(n)
  PROVE  IInv'
<1>1. /\ pass \in [Node -> [at : Nat, to : Nat]] /\ late \subseteq Nat /\ got \subseteq Nat
      /\ latest \in Nat /\ Idle \in [at : Nat, to : Nat] /\ log \in Seq(Entry)
      /\ applied[n] \in 0..Len(log)
      /\ \A i \in late : i \in 1..Sent(Len(log)) /\ Arrived(i - 1)
  BY DEF IInv, TypeOK, Lates, Idle
<1>2. CASE ReadBatch(n)
  <2>. DEFINE d == Deleted(applied[n])
              t == Sent(applied[n])
              p == BatchOf(OutboxOf(applied[n]))
  <2>1. d \in Nat /\ Arrived(d) /\ t \in Nat /\ t <= Sent(Len(log)) /\ Sent(Len(log)) \in Nat
    BY <1>1, DeletedArrived, SentIs DEF IInv
  <2>2. OutboxOf(applied[n]) = (d + 1)..t /\ (d + 1)..t # {}
    BY <1>2 DEF ReadBatch, OutboxOf
  <2>. HIDE DEF d, t
  <2>3. d < t
    BY <2>1, <2>2
  <2>4. p.at = d + 1 /\ p.to \in (d + 1)..t
    BY <2>1, <2>2, <2>3, BatchIs
  <2>5. p = [at |-> p.at, to |-> p.to]
    BY DEF BatchOf
  <2>6. pass' = [pass EXCEPT ![n] = p] /\ UNCHANGED <<log, applied, late, got, latest>>
    BY <1>2 DEF ReadBatch
  <2>. HIDE DEF p
  <2>7. p \in [at : Nat, to : Nat] /\ 1 <= p.at /\ p.at <= p.to + 1 /\ p.to <= Sent(Len(log))
        /\ p.at - 1 = d
    BY <2>1, <2>4, <2>5
  <2>. QED BY <1>1, <2>1, <2>6, <2>7, PassInv DEF Arrived
<1>3. CASE Deliver(n)
  <2>. DEFINE p == [pass[n] EXCEPT !.at = @ + 1]
  <2>1. Take(pass[n].at) /\ pass' = [pass EXCEPT ![n] = p] /\ UNCHANGED <<log, applied, late>>
    BY <1>3 DEF Deliver
  <2>2. Sending(n)
    BY <1>3 DEF Deliver
  <2>3. /\ pass[n].at \in 1..Sent(Len(log)) /\ Arrived(pass[n].at - 1)
        /\ pass[n].at \in Nat /\ pass[n].to \in Nat /\ pass[n].to <= Sent(Len(log))
        /\ pass[n].at <= pass[n].to
    BY <2>2, SendingIs
  <2>4. /\ got \subseteq got' /\ got' \subseteq Nat /\ latest' \in Nat
        /\ 1..pass[n].at \subseteq got'
    BY <2>1, <2>3, TakeIs
  <2>5. p \in [at : Nat, to : Nat] /\ p.at = pass[n].at + 1 /\ p.to = pass[n].to
    BY <1>1, <2>3
  <2>. HIDE DEF p
  <2>6. 1 <= p.at /\ p.at <= p.to + 1 /\ p.to <= Sent(Len(log)) /\ p.at - 1 = pass[n].at
    BY <2>3, <2>5
  <2>. QED BY <1>1, <2>1, <2>4, <2>5, <2>6, PassInv
<1>4. CASE Undelivered(n)
  <2>1. pass' = [pass EXCEPT ![n] = Idle] /\ UNCHANGED <<log, applied, late, got, latest>>
    BY <1>4 DEF Undelivered
  <2>. QED BY <1>1, <2>1, PassInv
<1>5. CASE Unanswered(n)
  <2>1. /\ pass' = [pass EXCEPT ![n] = Idle] /\ UNCHANGED <<log, applied, late>>
        /\ Take(pass[n].at) /\ Sending(n)
    BY <1>5 DEF Unanswered
  <2>2. pass[n].at \in Nat /\ 1 <= pass[n].at /\ Arrived(pass[n].at - 1)
    BY <2>1, SendingIs
  <2>3. got \subseteq got' /\ got' \subseteq Nat /\ latest' \in Nat
    BY <2>1, <2>2, TakeIs
  <2>. QED BY <1>1, <2>1, <2>3, PassInv
<1>6. CASE GiveUp(n)
  <2>1. /\ pass' = [pass EXCEPT ![n] = Idle] /\ UNCHANGED <<log, applied, got, latest>>
        /\ late' = late \cup {pass[n].at} /\ Sending(n)
    BY <1>6 DEF GiveUp
  <2>2. pass[n].at \in Nat /\ pass[n].at \in 1..Sent(Len(log)) /\ Arrived(pass[n].at - 1)
    BY <2>1, SendingIs
  <2>3. late' \subseteq Nat /\ \A i \in late' : i \in 1..Sent(Len(log)) /\ Arrived(i - 1)
    BY <1>1, <2>1, <2>2
  <2>. QED BY <1>1, <2>1, <2>3, PassInv
<1>. QED BY <1>2, <1>3, <1>4, <1>5, <1>6

(* A write commits.                                                        *)
LEMMA SubmitInv ==
  ASSUME IInv, Submit
  PROVE  IInv' /\ Sent(Len(log))' = Sent(Len(log)) + 1
<1>1. /\ log' = Append(log, Write) /\ UNCHANGED <<applied, late, got, latest>> /\ pass' = pass
      /\ Write \in Entry /\ Write.op = "write" /\ Write.upTo = 0
  BY DEF Submit, Write, Entry
<1>2. Arrived(Write.upTo) /\ pass \in [Node -> [at : Nat, to : Nat]]
  BY <1>1 DEF Arrived, IInv, TypeOK
<1>. HIDE DEF Write
<1>. QED BY <1>1, <1>2, CommitInv

(* A pass is through: the leader's OutboxDone commits, anyone else's not.  *)
LEMMA FinishInv ==
  ASSUME IInv, NEW n \in Node, Finish(n)
  PROVE  IInv' /\ Sent(Len(log))' = Sent(Len(log))
<1>1. /\ pass \in [Node -> [at : Nat, to : Nat]] /\ log \in Seq(Entry) /\ got \subseteq Nat
      /\ latest \in Nat /\ late \subseteq Nat /\ Idle \in [at : Nat, to : Nat]
      /\ \A i \in late : i \in 1..Sent(Len(log)) /\ Arrived(i - 1)
      /\ Sent(Len(log)) \in Nat
  <2>1. Len(log) \in 0..Len(log)
    BY DEF IInv, TypeOK
  <2>. QED BY <2>1, SentIs DEF IInv, TypeOK, Lates, Idle
<1>2. /\ pass' = [pass EXCEPT ![n] = Idle] /\ UNCHANGED <<applied, late, got, latest>>
      /\ pass[n] # Idle /\ pass[n].at > pass[n].to
  BY DEF Finish
<1>3. pass[n].to \in Nat /\ Arrived(pass[n].to)
  <2>1. /\ pass[n].at \in Nat /\ pass[n].to \in Nat /\ pass[n].at <= pass[n].to + 1
        /\ Arrived(pass[n].at - 1)
    BY <1>1, <1>2 DEF IInv, Passes
  <2>2. pass[n].at - 1 = pass[n].to
    BY <1>2, <2>1
  <2>. QED BY <2>1, <2>2
<1>4. CASE n = leader
  <2>. DEFINE e == Done(pass[n].to)
  <2>1. log' = Append(log, e)
    BY <1>4 DEF Finish, UpTo
  <2>2. e \in Entry /\ e.upTo = pass[n].to /\ e.op # "write"
    BY <1>3 DEF Done, Entry
  <2>3. /\ pass' \in [Node -> [at : Nat, to : Nat]]
        /\ \A k \in Node : pass'[k] = Idle \/ pass'[k] = pass[k]
    BY <1>1, <1>2
  <2>. HIDE DEF e
  <2>4. IInv' /\ Sent(Len(log))' = Sent(Len(log)) + 0
    BY <1>2, <1>3, <2>1, <2>2, <2>3, CommitInv
  <2>. QED BY <1>1, <2>4
<1>5. CASE n # leader
  <2>1. log' = log
    BY <1>5 DEF Finish
  <2>2. IInv'
    BY <1>1, <1>2, <2>1, PassInv
  <2>3. Sent(Len(log))' = Sent(Len(log))
    BY <2>1 DEF Sent
  <2>. QED BY <2>2, <2>3
<1>. QED BY <1>4, <1>5

(* What is left of the steps: copies, leaders, and late arrivals.          *)
LEMMA OtherInv ==
  ASSUME IInv,
         \/ \E n \in Node : ApplyEntry(n) \/ Elect(n) \/ Crash(n)
         \/ \E i \in late : ArriveLate(i)
         \/ UNCHANGED vars
  PROVE  IInv'
<1>1. /\ pass \in [Node -> [at : Nat, to : Nat]] /\ log \in Seq(Entry) /\ got \subseteq Nat
      /\ latest \in Nat /\ late \subseteq Nat /\ Idle \in [at : Nat, to : Nat]
      /\ \A i \in late : i \in 1..Sent(Len(log)) /\ Arrived(i - 1)
      /\ applied \in [Node -> Nat] /\ \A n \in Node : applied[n] <= Len(log)
  BY DEF IInv, TypeOK, Lates, Idle
<1>2. ASSUME log' = log, pass' = pass, got \subseteq got', late' \subseteq late, TypeOK'
      PROVE  IInv'
  <2>1. Sent(Len(log))' = Sent(Len(log))
    BY <1>2 DEF Sent
  <2>2. Passes' /\ Lates'
    BY <1>2, <2>1 DEF IInv, Passes, Lates, Arrived
  <2>. QED BY <1>2, <2>2, StillInv
<1>3. ASSUME NEW n \in Node, ApplyEntry(n) PROVE IInv'
  <2>1. /\ UNCHANGED <<log, pass, late, got, latest>> /\ Len(log) \in Nat
        /\ applied' = [applied EXCEPT ![n] = @ + 1] /\ applied[n] < Len(log)
    BY <1>1, <1>3 DEF ApplyEntry
  <2>2. applied' \in [Node -> Nat] /\ \A k \in Node : applied'[k] <= Len(log)
    BY <1>1, <2>1
  <2>3. TypeOK'
    BY <1>1, <2>1, <2>2 DEF TypeOK
  <2>. QED BY <1>2, <2>1, <2>3
<1>4. ASSUME NEW n \in Node, Elect(n) PROVE IInv'
  BY <1>2, <1>4 DEF Elect, IInv, TypeOK
<1>5. ASSUME NEW n \in Node, Crash(n) PROVE IInv'
  BY <1>1, <1>5, PassInv DEF Crash
<1>6. ASSUME NEW i \in late, ArriveLate(i) PROVE IInv'
  <2>1. i \in Nat /\ 1 <= i /\ Arrived(i - 1) /\ Take(i)
    BY <1>1, <1>6 DEF ArriveLate
  <2>2. got \subseteq got' /\ got' \subseteq Nat /\ latest' \in Nat
    BY <2>1, TakeIs
  <2>3. UNCHANGED <<log, applied, pass>> /\ late' = late \ {i}
    BY <1>6 DEF ArriveLate
  <2>4. TypeOK'
    BY <1>1, <2>2, <2>3 DEF TypeOK
  <2>. QED BY <1>2, <2>2, <2>3, <2>4
<1>7. CASE UNCHANGED vars
  BY <1>2, <1>7 DEF vars, IInv, TypeOK
<1>. QED BY <1>3, <1>4, <1>5, <1>6, <1>7

(* Every step keeps the invariant.                                         *)
LEMMA NextInv == IInv /\ [Next]_vars => IInv'
BY SubmitInv, RelayInv, FinishInv, OtherInv DEF Next

(* The invariant holds in every reachable state.                           *)
LEMMA Invariant == Spec => []IInv
BY InitInv, NextInv, PTL DEF Spec

(* A step of the two logs is one that FollowUps allows: one more is sent,  *)
(* or one is taken whose predecessors all were, or neither.                *)
LEMMA StepAllowed == IInv /\ [Next]_vars => [FU!Next]_(FU!vars)
<1>. SUFFICES ASSUME IInv, [Next]_vars PROVE [FU!Next]_(FU!vars)
  OBVIOUS
<1>1. CASE Submit
  <2>1. Sent(Len(log))' = Sent(Len(log)) + 1
    BY <1>1, SubmitInv
  <2>. QED BY <1>1, <2>1 DEF Submit, FU!Next, FU!Send
<1>2. ASSUME NEW i \in 1..Sent(Len(log)), Arrived(i - 1), Take(i), log' = log
      PROVE  FU!Next
  <2>1. Sent(Len(log))' = Sent(Len(log))
    BY <1>2 DEF Sent
  <2>. QED BY <1>2, <2>1 DEF FU!Next, FU!Take, Take, Arrived
<1>3. ASSUME NEW n \in Node, Deliver(n) \/ Unanswered(n) PROVE FU!Next
  <2>1. Sending(n) /\ Take(pass[n].at) /\ log' = log
    BY <1>3 DEF Deliver, Unanswered
  <2>. QED BY <1>2, <2>1, SendingIs
<1>4. ASSUME NEW i \in late, ArriveLate(i) PROVE FU!Next
  BY <1>2, <1>4 DEF ArriveLate, IInv, Lates
<1>5. ASSUME NEW n \in Node, Finish(n) PROVE UNCHANGED FU!vars
  <2>1. Sent(Len(log))' = Sent(Len(log))
    BY <1>5, FinishInv
  <2>. QED BY <1>5, <2>1 DEF Finish, FU!vars
<1>6. ASSUME UNCHANGED <<log, got, latest>> PROVE UNCHANGED FU!vars
  BY <1>6 DEF FU!vars, Sent
<1>7. ASSUME NEW n \in Node,
             \/ ApplyEntry(n) \/ ReadBatch(n) \/ Undelivered(n) \/ GiveUp(n)
             \/ Elect(n) \/ Crash(n)
      PROVE  UNCHANGED <<log, got, latest>>
  BY <1>7 DEF ApplyEntry, ReadBatch, Undelivered, GiveUp, Elect, Crash
<1>8. UNCHANGED vars => UNCHANGED <<log, got, latest>>
  BY DEF vars
<1>. QED BY <1>1, <1>3, <1>4, <1>5, <1>6, <1>7, <1>8 DEF Next

(***************************************************************************)
(* The theorems                                                            *)
(***************************************************************************)

(* A follow-up is deleted only after its target took it, whatever crashes, *)
(* elections, stale copies and lost answers there were (relay).            *)
THEOREM FollowUpsKept == Spec => []NoneLost
<1>1. IInv => NoneLost
  <2>. SUFFICES ASSUME IInv PROVE NoneLost
    OBVIOUS
  <2>1. Len(log) \in 0..Len(log)
    BY DEF IInv, TypeOK
  <2>. QED BY <2>1, DeletedArrived DEF NoneLost, Arrived
<1>. QED BY <1>1, Invariant, PTL

(* The log, its outbox and the relay implement FollowUps: at least once,   *)
(* and first deliveries in the order sent (the header of cmd/logs.go).     *)
THEOREM OutboxImplements == Spec => KeepsPromise
<1>1. Init => FU!Init
  <2>. SUFFICES ASSUME Init PROVE FU!Init
    OBVIOUS
  <2>1. {j \in 1..Len(log) : log[j].op = "write"} = {}
    BY DEF Init
  <2>. QED BY <2>1, FS_EmptySet DEF Init, FU!Init, Sent
<1>. QED BY <1>1, Invariant, StepAllowed, PTL DEF Spec, KeepsPromise, FU!Spec
=============================================================================
