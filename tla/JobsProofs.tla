----------------------------- MODULE JobsProofs -----------------------------
(***************************************************************************)
(* Proofs about the job queue, for any workers, times and bounds.  The     *)
(* inductive invariant is IInv of Jobs: what was read is never newer than  *)
(* the thread, and a worker inside the lease it got still holds the job    *)
(* under that lease.                                                       *)
(***************************************************************************)
EXTENDS Jobs, TLAPS

USE TimesAssumption, PromptAssumption, NobodyAssumption DEF Null

(***************************************************************************)
(* The commands, as functions of the row                                   *)
(***************************************************************************)
LEMMA Comparing ==
  ASSUME NEW a \in Nat, NEW b \in Nat
  PROVE  /\ Smaller(a, b) \in Nat /\ Smaller(a, b) <= a /\ Smaller(a, b) <= b
         /\ Larger(a, b) \in Nat /\ (\A c \in Nat : a <= c /\ b <= c => Larger(a, b) <= c)
BY DEF Smaller, Larger

LEMMA ScheduledRow ==
  ASSUME NEW j \in Row, NEW r \in Nat, NEW t \in Nat
  PROVE  /\ Scheduled(j, r, t) \in Row
         /\ Scheduled(j, r, t).claimedBy = j.claimedBy
         /\ Scheduled(j, r, t).lease = j.lease
         /\ Scheduled(j, r, t).doneAt = Null
         /\ Scheduled(j, r, t).lastRun = j.lastRun
         /\ Scheduled(j, r, t).since \in {j.since, t}
         /\ r <= t + MaxWait /\ j.lastRun <= t
              => Scheduled(j, r, t).runAfter <= Scheduled(j, r, t).since + MaxWait
<1>. DEFINE s == Scheduled(j, r, t)
<1>1. /\ j.since \in Nat /\ j.lastRun \in Nat
      /\ j.since + MaxWait \in Nat /\ j.lastRun + MinRerun \in Nat
  BY DEF Row, Columns
<1>2. /\ Smaller(r, j.since + MaxWait) \in Nat
      /\ Smaller(r, j.since + MaxWait) <= j.since + MaxWait
      /\ Larger(r, j.lastRun + MinRerun) \in Nat
      /\ r <= t + MaxWait /\ j.lastRun <= t => Larger(r, j.lastRun + MinRerun) <= t + MaxWait
  <2>. DEFINE latest == j.since + MaxWait
              soonest == j.lastRun + MinRerun
  <2>1. /\ Smaller(r, latest) \in Nat
        /\ Smaller(r, latest) <= latest
        /\ Larger(r, soonest) \in Nat
    <3>1. latest \in Nat /\ soonest \in Nat
      BY <1>1
    <3>. HIDE DEF latest, soonest
    <3>2. (r <= latest \/ latest <= r) /\ latest <= latest
      BY <3>1
    <3>. QED BY <3>1, <3>2 DEF Smaller, Larger
  <2>2. ASSUME r <= t + MaxWait, j.lastRun <= t
        PROVE  Larger(r, j.lastRun + MinRerun) <= t + MaxWait
    BY <1>1, <2>2 DEF Larger
  <2>. QED BY <2>1, <2>2
<1>. DEFINE later == IF j.doneAt = Null THEN Smaller(r, j.since + MaxWait)
                                        ELSE Larger(r, j.lastRun + MinRerun)
            first == IF j.doneAt = Null THEN j.since ELSE t
<1>3. s = [runAfter |-> later, since |-> first, attempts |-> 0, claimedBy |-> j.claimedBy,
           lease |-> j.lease, doneAt |-> Null, lastRun |-> j.lastRun, failed |-> FALSE]
  <2>1. s = [j EXCEPT !.attempts = 0, !.failed = FALSE, !.doneAt = Null, !.since = first,
                      !.runAfter = later]
    BY DEF Scheduled
  <2>. HIDE DEF s, later, first
  <2>. QED BY <2>1 DEF Row, Columns
<1>. HIDE DEF s
<1>4. s \in Row
  <2>1. s \in Columns
    BY <1>1, <1>2, <1>3 DEF Row, Columns
  <2>2. s.claimedBy = j.claimedBy /\ s.lease = j.lease
    BY <1>3
  <2>. QED BY <2>1, <2>2 DEF Row
<1>5. r <= t + MaxWait /\ j.lastRun <= t => s.runAfter <= s.since + MaxWait
  BY <1>1, <1>2, <1>3
<1>. QED BY <1>3, <1>4, <1>5 DEF s

LEMMA ClaimedRow ==
  ASSUME NEW j \in Row, NEW w \in Workers, NEW t \in Nat
  PROVE  /\ Claimed(j, w, t) \in Row
         /\ ~Due(j, t) => Claimed(j, w, t) = j
         /\ Due(j, t) => /\ Claimed(j, w, t).claimedBy = w
                         /\ Claimed(j, w, t).lease = t + Lease
         /\ Claimed(j, w, t).doneAt = j.doneAt /\ Claimed(j, w, t).failed = j.failed
         /\ Claimed(j, w, t).runAfter = j.runAfter /\ Claimed(j, w, t).since = j.since
         /\ Claimed(j, w, t).lastRun = j.lastRun
<1>1. CASE ~Due(j, t)
  BY <1>1 DEF Claimed
<1>2. CASE Due(j, t)
  <2>1. t + Lease \in Nat /\ t + Lease # Null /\ j.attempts + 1 \in Nat
    BY DEF Row, Columns
  <2>2. Claimed(j, w, t) = [j EXCEPT !.claimedBy = w, !.lease = t + Lease, !.attempts = j.attempts + 1]
    BY <1>2 DEF Claimed, Row, Columns
  <2>. QED BY <1>2, <2>1, <2>2 DEF Row, Columns
<1>. QED BY <1>1, <1>2

LEMMA ReleasedRow ==
  ASSUME NEW j \in Row
  PROVE  /\ Released(j) \in Row
         /\ Released(j).doneAt = j.doneAt /\ Released(j).failed = j.failed
         /\ Released(j).runAfter = j.runAfter /\ Released(j).since = j.since
         /\ Released(j).lastRun = j.lastRun
BY DEF Released, Row, Columns

LEMMA FailedRow ==
  ASSUME NEW j \in Row, NEW w \in Workers, NEW t \in Nat \ {0}
  PROVE  /\ Failed(j, w, t) \in Row
         /\ j.claimedBy # w => Failed(j, w, t) = j
         /\ j.claimedBy = w => Failed(j, w, t).failed = TRUE
         /\ Failed(j, w, t).lastRun = j.lastRun /\ Failed(j, w, t).since = j.since
<1>1. CASE j.claimedBy # w
  BY <1>1 DEF Failed
<1>2. CASE j.claimedBy = w /\ j.attempts >= MaxAttempts
  BY <1>2 DEF Failed, Released, Row, Columns
<1>3. CASE j.claimedBy = w /\ ~(j.attempts >= MaxAttempts)
  <2>. DEFINE later == t + j.attempts * j.attempts
  <2>1. later \in Nat
    <3>1. \A a \in Nat : a * a \in Nat
      OBVIOUS
    <3>. QED BY <3>1 DEF Row, Columns
  <2>2. Failed(j, w, t) = [Released(j) EXCEPT !.runAfter = later, !.failed = TRUE]
    BY <1>3 DEF Failed
  <2>. HIDE DEF later
  <2>3. Failed(j, w, t) = [j EXCEPT !.claimedBy = Nobody, !.lease = Null, !.runAfter = later,
                                    !.failed = TRUE]
    BY <2>2 DEF Released, Row, Columns
  <2>4. Failed(j, w, t) = [runAfter |-> later, since |-> j.since, attempts |-> j.attempts,
                            claimedBy |-> Nobody, lease |-> Null, doneAt |-> j.doneAt,
                            lastRun |-> j.lastRun, failed |-> TRUE]
    BY <2>3 DEF Row, Columns
  <2>5. Failed(j, w, t) \in Columns
    BY <2>1, <2>4 DEF Row, Columns
  <2>. QED BY <1>3, <2>4, <2>5 DEF Row
<1>. QED BY <1>1, <1>2, <1>3

LEMMA FinishedRow ==
  ASSUME NEW j \in Row, NEW w \in Workers, NEW v \in Nat, NEW t \in Nat \ {0}
  PROVE  /\ Finished(j, w, v, t) \in Row
         /\ j.claimedBy # w => Finished(j, w, v, t) = j
         /\ j.claimedBy = w /\ v # version => Finished(j, w, v, t) = Released(j)
         /\ Finished(j, w, v, t).since = j.since
         /\ Finished(j, w, v, t).lastRun \in {j.lastRun, t}
         /\ j.claimedBy = w /\ v = version => Finished(j, w, v, t).doneAt = t
BY DEF Finished, Released, Row, Columns

(* What Submit does: to the worker that submits, and to no other. *)
LEMMA SubmitStep ==
  ASSUME TypeOK, NEW w \in Workers, NEW j, NEW d, NEW done, NEW undone,
         Submit(w, j, d, done, undone)
  PROVE  /\ \/ job' = j /\ written' = d
            \/ job' = job /\ written' = written
         /\ \/ run' = [run EXCEPT ![w] = done] /\ job' = j
            \/ run' \in {run, [run EXCEPT ![w] = undone]}
         /\ copy' \in {copy, [copy EXCEPT ![w] = version]}
         /\ trouble' \in 0..MaxTrouble
BY DEF Submit, Trouble, TypeOK

(***************************************************************************)
(* The inductive invariant                                                 *)
(***************************************************************************)
USE DEF Working, Begin, Idle

LEMMA InitInv == Init => IInv
<1>. SUFFICES ASSUME Init PROVE IInv
  OBVIOUS
<1>1. job \in Row
  BY DEF Init, Row, Columns
<1>2. run \in [Workers -> Run] /\ \A w \in Workers : run[w].phase = "idle"
  BY DEF Init, Run
<1>3. TypeOK
  BY <1>1, <1>2 DEF Init, TypeOK
<1>4. NothingForgotten /\ NeverStarved /\ LastRunPast
  BY DEF Init, NothingForgotten, NeverStarved, LastRunPast
<1>5. Readings /\ Leases
  BY <1>2 DEF Init, Readings, Leases
<1>. QED BY <1>3, <1>4, <1>5 DEF IInv

LEMMA RowTypes ==
  ASSUME TypeOK
  PROVE  /\ job.runAfter \in Nat /\ job.since \in Nat /\ job.lease \in Nat /\ job.doneAt \in Nat
         /\ job.lastRun \in Nat /\ version \in Nat /\ now \in Nat
         /\ \A w \in Workers : /\ run[w] \in Run /\ run[w].at \in Nat
                               /\ run[w].read \in Nat /\ run[w].text \in Nat
                               /\ run[w].until \in Nat /\ copy[w] \in Nat
BY DEF TypeOK, Row, Columns, Run

(* A change of the thread: what was read stays older than it, and the job  *)
(* is open, so nothing is forgotten.                                       *)
LEMMA ThreadChangedInv == IInv /\ ThreadChanged => IInv'
<1>. SUFFICES ASSUME IInv, ThreadChanged PROVE IInv'
  OBVIOUS
<1>. USE DEF IInv
<1>1. /\ job \in Row /\ now \in Nat \ {0} /\ now + Quiet \in Nat /\ version \in Nat
      /\ job' = Scheduled(job, now + Quiet, now) /\ version' = version + 1
      /\ now' = now /\ run' = run /\ copy' = copy /\ written' = written /\ trouble' = trouble
  BY DEF TypeOK, ThreadChanged
<1>2. /\ job' \in Row /\ job'.claimedBy = job.claimedBy /\ job'.lease = job.lease
      /\ job'.doneAt = Null /\ job'.lastRun = job.lastRun /\ job'.since \in {job.since, now}
      /\ job'.runAfter <= job'.since + MaxWait
  <2>1. job.lastRun <= now /\ now + Quiet <= now + MaxWait
    BY <1>1 DEF LastRunPast
  <2>2. now \in Nat /\ now + Quiet \in Nat
    BY <1>1
  <2>. DEFINE q == now + Quiet
  <2>. HIDE DEF q
  <2>3. /\ job' = Scheduled(job, q, now) /\ q \in Nat /\ q <= now + MaxWait
    BY <1>1, <2>1 DEF q
  <2>. DEFINE s == Scheduled(job, q, now)
  <2>4. /\ s \in Row /\ s.claimedBy = job.claimedBy /\ s.lease = job.lease
        /\ s.doneAt = Null /\ s.lastRun = job.lastRun /\ s.since \in {job.since, now}
        /\ q <= now + MaxWait /\ job.lastRun <= now => s.runAfter <= s.since + MaxWait
    <3>1. job \in Row /\ q \in Nat /\ now \in Nat
      BY <1>1, <2>3
    <3>. QED BY ONLY <3>1, ScheduledRow, Zenon
  <2>. HIDE DEF s
  <2>. QED BY <2>1, <2>3, <2>4 DEF s
<1>3. TypeOK'
  BY <1>1, <1>2 DEF TypeOK
<1>4. NothingForgotten' /\ NeverStarved' /\ LastRunPast'
  BY <1>1, <1>2, RowTypes DEF NothingForgotten, NeverStarved, LastRunPast
<1>5. Readings'
  BY <1>1, RowTypes DEF Readings
<1>6. Leases'
  BY <1>1, <1>2 DEF Leases
<1>. QED BY <1>3, <1>4, <1>5, <1>6

(* A step of a worker alone touches its own record only. *)
LEMMA AloneInv ==
  ASSUME IInv, NEW w \in Workers, NEW r \in Run, Alone(w, r),
         r.phase = "claim" => r.at = now,
         r.phase \in {"read", "text"} => Working(w) /\ r.until = run[w].until,
         r.phase = "text" => r.read <= copy[w],
         r.phase = "result" => r.read <= r.text /\ r.text <= version
  PROVE  IInv'
<1>. USE DEF IInv
<1>1. /\ run' = [run EXCEPT ![w] = r] /\ run' \in [Workers -> Run]
      /\ \A u \in Workers : run'[u] = IF u = w THEN r ELSE run[u]
      /\ version' = version /\ written' = written /\ job' = job /\ now' = now
      /\ copy' = copy /\ trouble' = trouble
  BY DEF Alone, TypeOK
<1>2. TypeOK' /\ NothingForgotten' /\ NeverStarved' /\ LastRunPast'
  BY <1>1 DEF TypeOK, NothingForgotten, NeverStarved, LastRunPast, GivenUp
<1>3. Readings'
  BY <1>1 DEF Readings
<1>4. Leases'
  <2>1. r.phase = "claim" => r.at <= now
    BY RowTypes
  <2>. QED BY <1>1, <2>1 DEF Leases
<1>. QED BY <1>2, <1>3, <1>4

LEMMA AloneSteps ==
  ASSUME IInv, NEW w \in Workers,
         FindDue(w) \/ ReadVersion(w) \/ RunJob(w) \/ RunFails(w)
  PROVE  IInv'
<1>. USE DEF IInv
<1>0. run[w] \in Run /\ copy[w] \in Nat /\ now \in Nat /\ version \in Nat /\ copy[w] <= version
  BY DEF TypeOK, Readings
<1>1. CASE FindDue(w)
  <2>1. Begin("claim", now) \in Run
    BY <1>0 DEF Run
  <2>. QED BY <1>1, <2>1, AloneInv DEF FindDue
<1>2. CASE ReadVersion(w)
  <2>. DEFINE r == [run[w] EXCEPT !.phase = "text", !.read = copy[w]]
  <2>1. r \in Run /\ r.phase = "text" /\ r.until = run[w].until /\ r.read = copy[w]
    BY <1>0 DEF Run
  <2>2. Working(w) /\ Alone(w, r)
    BY <1>2 DEF ReadVersion
  <2>3. r.read <= copy[w]
    BY <1>0, <2>1
  <2>. HIDE DEF r
  <2>. QED BY <2>1, <2>2, <2>3, AloneInv
<1>3. CASE RunJob(w)
  <2>. DEFINE r == [run[w] EXCEPT !.phase = "result", !.at = 0, !.until = 0, !.text = copy[w]]
  <2>1. r \in Run /\ r.phase = "result" /\ r.read = run[w].read /\ r.text = copy[w]
    BY <1>0 DEF Run
  <2>2. run[w].read <= copy[w]
    BY <1>3 DEF RunJob, Readings
  <2>3. Alone(w, r)
    BY <1>3 DEF RunJob
  <2>. QED BY <1>0, <2>1, <2>2, <2>3, AloneInv
<1>4. CASE RunFails(w)
  <2>1. Begin("fail", 0) \in Run
    BY DEF Run
  <2>. QED BY <1>4, <2>1, AloneInv DEF RunFails
<1>. QED BY <1>1, <1>2, <1>3, <1>4

(* A submission: the row and the digest change as the command says, or not *)
(* at all, and the worker moves on to `done` only if they did.             *)
LEMMA SubmitInv ==
  ASSUME IInv, NEW w \in Workers, NEW j \in Row, NEW d \in Nat, NEW done \in Run, NEW undone \in Run,
         Submit(w, j, d, done, undone), version' = version, now' = now,
         j.doneAt # Null => d = version \/ j.failed,
         j.doneAt = Null /\ ~j.failed => j.runAfter <= j.since + MaxWait,
         j.lastRun <= now, j.since <= now,
         done.phase \in {"idle", "read"}, undone.phase \in {"idle", "fail"},
         done.phase = "read" => j.claimedBy = w /\ j.lease = done.until,
         run[w].phase \notin {"read", "text"},
         \A u \in Workers : u # w /\ Working(u) /\ now <= run[u].until =>
                               j.claimedBy = u /\ j.lease = run[u].until
  PROVE  IInv'
<1>. USE DEF IInv
<1>1. /\ \/ job' = j /\ written' = d
         \/ job' = job /\ written' = written
      /\ \/ run' = [run EXCEPT ![w] = done] /\ job' = j
         \/ run' \in {run, [run EXCEPT ![w] = undone]}
      /\ copy' \in {copy, [copy EXCEPT ![w] = version]} /\ trouble' \in 0..MaxTrouble
  BY SubmitStep
<1>2. /\ \A u \in Workers : u # w => run'[u] = run[u]
      /\ \/ run'[w] = done /\ job' = j
         \/ run'[w] \in {run[w], undone}
      /\ \A u \in Workers : copy'[u] = copy[u] \/ copy'[u] = version
      /\ run' \in [Workers -> Run] /\ copy' \in [Workers -> Nat]
  BY <1>1 DEF TypeOK
<1>3. TypeOK'
  BY <1>1, <1>2 DEF TypeOK
<1>4. NothingForgotten' /\ NeverStarved' /\ LastRunPast'
  BY <1>1 DEF NothingForgotten, NeverStarved, LastRunPast, GivenUp
<1>5. Readings'
  <2>. SUFFICES ASSUME NEW u \in Workers
                PROVE  (/\ copy[u] <= version
                        /\ run[u].phase = "text" => run[u].read <= copy[u]
                        /\ run[u].phase = "result" => /\ run[u].read <= run[u].text
                                                      /\ run[u].text <= version)'
    BY DEF Readings
  <2>1. copy'[u] <= version'
    BY <1>2, RowTypes DEF Readings
  <2>2. CASE run'[u] = run[u]
    <3>1. run[u].phase = "text" => run[u].read <= copy[u] /\ run[u].read <= version
      BY RowTypes DEF Readings
    <3>2. run[u].phase = "result" => run[u].read <= run[u].text /\ run[u].text <= version
      BY DEF Readings
    <3>. QED BY <1>2, <2>1, <2>2, <3>1, <3>2
  <2>3. CASE run'[u] \in {done, undone}
    BY <2>1, <2>3
  <2>. QED BY <1>2, <2>2, <2>3
<1>6. Leases'
  <2>. SUFFICES ASSUME NEW u \in Workers
                PROVE  (/\ run[u].phase = "claim" => run[u].at <= now
                        /\ Working(u) /\ now <= run[u].until =>
                             job.claimedBy = u /\ job.lease = run[u].until)'
    BY DEF Leases
  <2>1. CASE u # w
    BY <1>1, <1>2, <2>1 DEF Leases
  <2>2. CASE u = w /\ run'[w] = done /\ job' = j
    BY <2>2
  <2>3. CASE u = w /\ run'[w] \in {run[w], undone}
    BY <2>3 DEF Leases
  <2>. QED BY <1>2, <2>1, <2>2, <2>3
<1>. QED BY <1>3, <1>4, <1>5, <1>6

(* A claim is refused while another worker is inside its lease. *)
LEMMA ClaimInv == ASSUME IInv, NEW w \in Workers, Claim(w) PROVE IInv'
<1>. USE DEF IInv
<1>. DEFINE stamp == run[w].at
            j == Claimed(job, w, stamp)
            done == IF Due(job, stamp) THEN [Begin("read", now) EXCEPT !.until = stamp + Lease] ELSE Idle
<1>1. /\ job \in Row /\ now \in Nat /\ stamp \in Nat /\ written \in Nat /\ job.lease \in Nat
      /\ stamp <= now /\ stamp + Lease \in Nat
      /\ run[w].phase = "claim" /\ version' = version /\ now' = now
      /\ Submit(w, j, written, done, Idle)
  BY RowTypes DEF TypeOK, Claim, Leases
<1>. HIDE DEF stamp
<1>2. /\ j \in Row
      /\ ~Due(job, stamp) => j = job
      /\ Due(job, stamp) => j.claimedBy = w /\ j.lease = stamp + Lease
      /\ j.doneAt = job.doneAt /\ j.failed = job.failed /\ j.runAfter = job.runAfter
      /\ j.since = job.since /\ j.lastRun = job.lastRun
  <2>1. job \in Row /\ stamp \in Nat
    BY <1>1
  <2>. QED BY ONLY <2>1, ClaimedRow, Zenon
<1>3. Idle \in Run /\ done \in Run
  BY <1>1 DEF Run
<1>. HIDE DEF j
<1>4. ASSUME done.phase = "read"
      PROVE  j.claimedBy = w /\ j.lease = done.until
  <2>1. Due(job, stamp) /\ done.until = stamp + Lease
    BY <1>4
  <2>. QED BY <1>1, <1>2, <2>1
<1>5. ASSUME NEW u \in Workers, Working(u), now <= run[u].until
      PROVE  j.claimedBy = u /\ j.lease = run[u].until
  <2>1. job.claimedBy = u /\ job.lease = run[u].until
    BY <1>5 DEF Leases
  <2>2. ~(job.lease < stamp)
    BY <1>1, <1>5, <2>1, RowTypes
  <2>. QED BY <1>2, <2>1, <2>2 DEF Due
<1>6. /\ j.doneAt # Null => written = version \/ j.failed
      /\ j.doneAt = Null /\ ~j.failed => j.runAfter <= j.since + MaxWait
      /\ j.lastRun <= now /\ j.since <= now
  BY <1>2 DEF NothingForgotten, GivenUp, NeverStarved, LastRunPast
<1>7. done.phase \in {"idle", "read"} /\ Idle.phase = "idle" /\ run[w].phase = "claim"
  BY <1>1
<1>. HIDE DEF done
<1>. QED BY <1>1, <1>2, <1>3, <1>4, <1>5, <1>6, <1>7, SubmitInv

(* A result that is accepted was read from the thread as it is: the text   *)
(* was read no earlier than the version, and the version is the current.   *)
LEMMA AcceptedIsCurrent ==
  ASSUME IInv, NEW w \in Workers, run[w].phase = "result", Accepted(job, w, run[w].read)
  PROVE  run[w].text = version
BY RowTypes DEF IInv, Readings, Accepted

LEMMA SetDigestInv == ASSUME IInv, NEW w \in Workers, SetDigest(w) PROVE IInv'
<1>. USE DEF IInv
<1>. DEFINE v == run[w].read
            j == Finished(job, w, v, now)
            d == IF Accepted(job, w, v) THEN run[w].text ELSE written
            undone == Begin("fail", 0)
<1>1. /\ job \in Row /\ now \in Nat \ {0} /\ v \in Nat /\ run[w].text \in Nat /\ written \in Nat
      /\ run[w].phase = "result" /\ version' = version /\ now' = now
      /\ Submit(w, j, d, Idle, undone)
  BY RowTypes DEF TypeOK, SetDigest
<1>. HIDE DEF v
<1>2. /\ j \in Row
      /\ job.claimedBy # w => j = job
      /\ job.claimedBy = w /\ v # version => j = Released(job)
      /\ j.since = job.since /\ j.lastRun \in {job.lastRun, now}
      /\ job.claimedBy = w /\ v = version => j.doneAt = now
  <2>1. job \in Row /\ v \in Nat /\ now \in Nat \ {0}
    BY <1>1
  <2>. QED BY ONLY <2>1, FinishedRow, SMT
<1>3. /\ Released(job).doneAt = job.doneAt /\ Released(job).failed = job.failed
      /\ Released(job).runAfter = job.runAfter
  BY <1>1, ReleasedRow
<1>. HIDE DEF j
<1>4. d \in Nat /\ Idle \in Run /\ undone \in Run
  BY <1>1 DEF Run
<1>5. j.doneAt # Null => d = version \/ j.failed
  <2>1. CASE Accepted(job, w, v)
    <3>1. Accepted(job, w, run[w].read) /\ run[w].phase = "result"
      BY <1>1, <2>1 DEF v
    <3>2. run[w].text = version
      BY <3>1, AcceptedIsCurrent
    <3>. QED BY <2>1, <3>2
  <2>2. CASE ~Accepted(job, w, v)
    BY <1>2, <1>3, <2>2 DEF Accepted, NothingForgotten, GivenUp
  <2>. QED BY <2>1, <2>2
<1>6. j.doneAt = Null /\ ~j.failed => j.runAfter <= j.since + MaxWait
  BY <1>1, <1>2, <1>3 DEF NeverStarved
<1>7. j.lastRun <= now /\ j.since <= now
  BY <1>1, <1>2 DEF LastRunPast
<1>8. ASSUME NEW u \in Workers, u # w, Working(u), now <= run[u].until
      PROVE  j.claimedBy = u /\ j.lease = run[u].until
  BY <1>2, <1>8 DEF Leases
<1>9. Idle.phase = "idle" /\ undone.phase = "fail"
  OBVIOUS
<1>. HIDE DEF d, undone
<1>. QED BY <1>9, <1>1, <1>2, <1>4, <1>5, <1>6, <1>7, <1>8, SubmitInv

LEMMA FailJobInv == ASSUME IInv, NEW w \in Workers, FailJob(w) PROVE IInv'
<1>. USE DEF IInv
<1>. DEFINE j == Failed(job, w, now)
<1>1. /\ job \in Row /\ now \in Nat \ {0} /\ written \in Nat
      /\ run[w].phase = "fail" /\ version' = version /\ now' = now
      /\ Submit(w, j, written, Idle, Idle)
  BY DEF TypeOK, FailJob
<1>2. /\ j \in Row
      /\ job.claimedBy # w => j = job
      /\ job.claimedBy = w => j.failed = TRUE
      /\ j.lastRun = job.lastRun /\ j.since = job.since
  <2>1. job \in Row /\ now \in Nat \ {0}
    BY <1>1
  <2>. QED BY ONLY <2>1, FailedRow, Zenon
<1>. HIDE DEF j
<1>3. Idle \in Run
  BY DEF Run
<1>4. /\ j.doneAt # Null => written = version \/ j.failed
      /\ j.doneAt = Null /\ ~j.failed => j.runAfter <= j.since + MaxWait
      /\ j.lastRun <= now /\ j.since <= now
  BY <1>2 DEF NothingForgotten, GivenUp, NeverStarved, LastRunPast
<1>5. ASSUME NEW u \in Workers, u # w, Working(u), now <= run[u].until
      PROVE  j.claimedBy = u /\ j.lease = run[u].until
  BY <1>2, <1>5 DEF Leases
<1>. QED BY <1>1, <1>2, <1>3, <1>4, <1>5, SubmitInv

LEMMA CatchUpInv == ASSUME IInv, NEW w \in Workers, CatchUp(w) PROVE IInv'
<1>. USE DEF IInv
<1>1. /\ copy' = [copy EXCEPT ![w] = version] /\ copy' \in [Workers -> Nat]
      /\ \A u \in Workers : copy'[u] = IF u = w THEN version ELSE copy[u]
      /\ version' = version /\ written' = written /\ job' = job /\ now' = now
      /\ run' = run /\ trouble' = trouble
  BY DEF CatchUp, TypeOK
<1>2. TypeOK' /\ NothingForgotten' /\ NeverStarved' /\ LastRunPast' /\ Leases'
  BY <1>1 DEF TypeOK, NothingForgotten, NeverStarved, LastRunPast, GivenUp, Leases
<1>3. Readings'
  BY <1>1, RowTypes DEF Readings
<1>. QED BY <1>2, <1>3

LEMMA CrashInv == ASSUME IInv, NEW w \in Workers, Crash(w) PROVE IInv'
<1>. USE DEF IInv
<1>1. /\ run' = [run EXCEPT ![w] = Idle] /\ run' \in [Workers -> Run]
      /\ \A u \in Workers : run'[u] = IF u = w THEN Idle ELSE run[u]
      /\ version' = version /\ written' = written /\ job' = job /\ now' = now
      /\ copy' = copy /\ trouble' \in 0..MaxTrouble
  <2>1. Idle \in Run
    BY DEF Run
  <2>. QED BY <2>1 DEF Crash, Trouble, TypeOK
<1>2. TypeOK' /\ NothingForgotten' /\ NeverStarved' /\ LastRunPast'
  BY <1>1 DEF TypeOK, NothingForgotten, NeverStarved, LastRunPast, GivenUp
<1>3. Readings' /\ Leases'
  BY <1>1 DEF Readings, Leases
<1>. QED BY <1>2, <1>3

LEMMA TickInv == IInv /\ Tick => IInv'
<1>. SUFFICES ASSUME IInv, Tick PROVE IInv'
  OBVIOUS
<1>. USE DEF IInv
<1>1. /\ now' = now + 1 /\ now \in Nat
      /\ version' = version /\ written' = written /\ job' = job /\ run' = run
      /\ copy' = copy /\ trouble' \in 0..MaxTrouble
  BY DEF Tick, Trouble, TypeOK
<1>2. TypeOK'
  BY <1>1 DEF TypeOK
<1>3. NothingForgotten' /\ NeverStarved' /\ Readings'
  BY <1>1 DEF NothingForgotten, NeverStarved, GivenUp, Readings
<1>4. LastRunPast'
  BY <1>1, RowTypes DEF LastRunPast
<1>5. Leases'
  <2>. SUFFICES ASSUME NEW u \in Workers
                PROVE  (/\ run[u].phase = "claim" => run[u].at <= now
                        /\ Working(u) /\ now <= run[u].until =>
                             job.claimedBy = u /\ job.lease = run[u].until)'
    BY DEF Leases
  <2>1. run[u].at \in Nat /\ run[u].until \in Nat
    BY RowTypes
  <2>2. run[u].phase = "claim" => run[u].at <= now + 1
    BY <1>1, <2>1 DEF Leases
  <2>3. Working(u) /\ now + 1 <= run[u].until => job.claimedBy = u /\ job.lease = run[u].until
    BY <1>1, <2>1 DEF Leases
  <2>. QED BY <1>1, <2>2, <2>3
<1>. QED BY <1>2, <1>3, <1>4, <1>5

LEMMA StepInv == IInv /\ [Next]_vars => IInv'
<1>. SUFFICES ASSUME IInv, [Next]_vars PROVE IInv'
  OBVIOUS
<1>1. CASE ThreadChanged
  BY <1>1, ThreadChangedInv
<1>2. CASE Tick
  BY <1>2, TickInv
<1>3. ASSUME NEW w \in Workers, Step(w) PROVE IInv'
  BY <1>3, AloneSteps, ClaimInv, SetDigestInv, FailJobInv DEF Step
<1>4. ASSUME NEW w \in Workers, CatchUp(w) \/ Crash(w) PROVE IInv'
  BY <1>4, CatchUpInv, CrashInv
<1>5. CASE UNCHANGED vars
  BY <1>5 DEF vars, IInv, TypeOK, NothingForgotten, NeverStarved, GivenUp, Readings, Leases, LastRunPast
<1>. QED BY <1>1, <1>2, <1>3, <1>4, <1>5 DEF Next

LEMMA Invariant == Spec => []IInv
<1>1. Init => IInv
  BY InitInv
<1>2. IInv /\ [Next]_vars => IInv'
  BY StepInv
<1>. QED BY <1>1, <1>2, PTL DEF Spec

(***************************************************************************)
(* The theorems                                                            *)
(***************************************************************************)
(* Every column of the row keeps its type, and a claim never outlives its  *)
(* lease column nor the other way round.                                   *)
THEOREM TypeCorrect == Spec => []TypeOK
<1>1. IInv => TypeOK
  BY DEF IInv
<1>. QED BY <1>1, Invariant, PTL

(* A closed job that was not given up has left a digest of the thread as   *)
(* it is, whatever crashed, was lost or was sent twice.                    *)
THEOREM NoneForgotten == Spec => []NothingForgotten
<1>1. IInv => NothingForgotten
  BY DEF IInv
<1>. QED BY <1>1, Invariant, PTL

(* Activity cannot put a waiting job off beyond MaxWait. *)
THEOREM NoStarvation == Spec => []NeverStarved
<1>1. IInv => NeverStarved
  BY DEF IInv
<1>. QED BY <1>1, Invariant, PTL

(* Two workers run the job at once only when one has outlived the lease it *)
(* got, however long its claim took to be answered.                        *)
THEOREM OneWorker == Spec => []OneAtATime
<1>1. IInv => OneAtATime
  <2>. SUFFICES ASSUME IInv, NEW u \in Workers, NEW w \in Workers,
                       Working(u), Working(w), u # w
                PROVE  now > run[u].until \/ now > run[w].until
    BY DEF OneAtATime
  <2>1. now \in Nat /\ run[u].until \in Nat /\ run[w].until \in Nat
    BY RowTypes DEF IInv
  <2>2. /\ now <= run[u].until => job.claimedBy = u
        /\ now <= run[w].until => job.claimedBy = w
    BY DEF IInv, Leases
  <2>. QED BY <2>1, <2>2
<1>. QED BY <1>1, Invariant, PTL

(* The digest is only ever written from the thread's current text. *)
THEOREM ImplementsDerived == Spec => WritesCurrentText
<1>1. Init => Texts!Init
  BY DEF Init, Texts!Init
<1>2. IInv /\ [Next]_vars => [Texts!Next]_<<version, written>>
  <2>. SUFFICES ASSUME IInv, [Next]_vars
                PROVE  \/ version' = version + 1 /\ written' = written
                       \/ written' \in {written, version} /\ version' = version
    BY DEF Texts!Next, Texts!Change, Texts!Refresh
  <2>1. CASE ThreadChanged
    BY <2>1 DEF ThreadChanged
  <2>2. CASE Tick \/ UNCHANGED vars
    BY <2>2 DEF Tick, vars
  <2>3. ASSUME NEW w \in Workers, SetDigest(w)
        PROVE  written' \in {written, version} /\ version' = version
    <3>1. Accepted(job, w, run[w].read) => run[w].text = version
      BY <2>3, AcceptedIsCurrent DEF SetDigest
    <3>. QED BY <2>3, <3>1 DEF SetDigest, Submit
  <2>4. ASSUME NEW w \in Workers, Step(w) \/ CatchUp(w) \/ Crash(w), ~SetDigest(w)
        PROVE  written' = written /\ version' = version
    BY <2>4 DEF Step, FindDue, Claim, ReadVersion, RunJob, RunFails, FailJob, CatchUp, Crash,
                Alone, Submit
  <2>. QED BY <2>1, <2>2, <2>3, <2>4 DEF Next
<1>. QED BY <1>1, <1>2, Invariant, PTL DEF Spec, WritesCurrentText, Texts!Spec
=============================================================================
