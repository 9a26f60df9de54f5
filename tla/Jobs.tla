-------------------------------- MODULE Jobs --------------------------------
(***************************************************************************)
(* One row of a group's job queue (cmd/jobs.go), the thread it is about,   *)
(* and the workers that run it (ai/worker.go).                             *)
(*                                                                         *)
(* The row is changed by commands that go through the group's log, so each *)
(* command is one step.  A worker is not: it finds the job due, claims it, *)
(* reads the thread's version and then its text from its own copy of the   *)
(* file, which may be behind, runs the model, and submits the result.      *)
(* Between any two of these steps the thread can change, the lease can run *)
(* out, the worker can crash, or the answer to a submission can be lost,   *)
(* in which case the submission is made again, or is given up without      *)
(* knowing whether it was applied.                                         *)
(*                                                                         *)
(* Times are multiples of one unit; 0 stands for NULL in a column that     *)
(* holds a time.                                                           *)
(***************************************************************************)
EXTENDS Integers

CONSTANTS Workers,       \* the nodes with a model
          Nobody,        \* claimed_by IS NULL
          Quiet,         \* QuietPeriod
          MinRerun,      \* the least time between two runs
          MaxWait,       \* how long activity may push a job back
          Lease,         \* JobLease
          MaxAttempts,   \* claims after which a failure is final
          RunTime,       \* the time a worker gives one job
          Prompt,        \* whether time waits for what a worker can do at once
          MaxVersion,    \* bound: versions to the thread
          LastChange,    \* bound: no change after this time
          MaxTime,       \* bound: the clock
          MaxTrouble     \* bound: crashes, lost answers, slow copies and claims

ASSUME TimesAssumption ==
  /\ Quiet \in Nat /\ MinRerun \in Nat /\ MaxWait \in Nat /\ Lease \in Nat
  /\ MaxAttempts \in Nat /\ RunTime \in Nat
  /\ MaxVersion \in Nat /\ LastChange \in Nat /\ MaxTime \in Nat /\ MaxTrouble \in Nat
  /\ Quiet <= MaxWait /\ MinRerun <= MaxWait /\ Lease > 0
ASSUME PromptAssumption == Prompt \in BOOLEAN
ASSUME NobodyAssumption == Nobody \notin Workers

VARIABLES version,   \* posts.thread_version
          written,   \* the version the stored digest was written from
          job,       \* the row
          now,       \* the clock
          run,       \* what each worker is doing, and what it remembers of it
          copy,      \* the thread's version in each worker's own copy of the file
          trouble    \* troubles so far

vars == <<version, written, job, now, run, copy, trouble>>

Null == 0
Smaller(a, b) == IF a <= b THEN a ELSE b
Larger(a, b) == IF a >= b THEN a ELSE b

Columns == [runAfter : Nat, since : Nat, attempts : Nat, claimedBy : Workers \cup {Nobody},
            lease : Nat, doneAt : Nat, lastRun : Nat, failed : BOOLEAN]
(* A claim and its lease come and go together. *)
Row == {r \in Columns : r.claimedBy = Nobody <=> r.lease = Null}
Run == [phase : {"idle", "claim", "read", "text", "result", "fail"},
        at    : Nat,     \* when its claim was stamped, or its run of the job began
        read  : Nat,     \* the version it read
        text  : Nat,     \* the version of the thread whose text it read
        until : Nat]     \* history: the end of the lease it runs the job under

TypeOK == /\ version \in Nat \ {0} /\ written \in Nat /\ job \in Row /\ now \in Nat \ {0}
          /\ run \in [Workers -> Run]
          /\ copy \in [Workers -> Nat]
          /\ trouble \in 0..MaxTrouble

(***************************************************************************)
(* The commands                                                            *)
(***************************************************************************)
(* A mistake: nothing stops activity from pushing the job back for ever. *)
ScheduledNoCap(j, runAfter, t) ==
  [j EXCEPT !.attempts = 0, !.failed = FALSE, !.doneAt = Null,
            !.since    = IF j.doneAt = Null THEN j.since ELSE t,
            !.runAfter = IF j.doneAt = Null THEN runAfter ELSE Larger(runAfter, j.lastRun + MinRerun)]

(* Queue the job, push it back if it waits already, or open it again. *)
Scheduled(j, runAfter, t) ==
  [j EXCEPT !.attempts = 0, !.failed = FALSE, !.doneAt = Null,
            !.since    = IF j.doneAt = Null THEN j.since ELSE t,
            !.runAfter = IF j.doneAt = Null THEN Smaller(runAfter, j.since + MaxWait)
                                            ELSE Larger(runAfter, j.lastRun + MinRerun)]

(* A mistake: the lease is not looked at. *)
DueLeased(j, t) == j.doneAt = Null /\ j.runAfter <= t

Due(j, t) == j.doneAt = Null /\ j.runAfter <= t /\ j.lease < t

Claimed(j, w, t) ==
  IF Due(j, t) THEN [j EXCEPT !.claimedBy = w, !.lease = t + Lease, !.attempts = @ + 1] ELSE j

Released(j) == [j EXCEPT !.claimedBy = Nobody, !.lease = Null]

(* A mistake: a failure is never final. *)
FailedRetries(j, w, t) ==
  IF j.claimedBy # w THEN j
  ELSE [Released(j) EXCEPT !.runAfter = t + j.attempts * j.attempts, !.failed = TRUE]

(* A failure is final after MaxAttempts claims; before, the wait grows. *)
Failed(j, w, t) ==
  IF j.claimedBy # w THEN j
  ELSE IF j.attempts >= MaxAttempts
       THEN [Released(j) EXCEPT !.doneAt = t, !.failed = TRUE]
       ELSE [Released(j) EXCEPT !.runAfter = t + j.attempts * j.attempts, !.failed = TRUE]

(* Mistakes: a result read from an older thread is written, or closes the job. *)
AcceptedStale(j, w, v) == j.claimedBy = w
FinishedStale(j, w, v, t) ==
  IF j.claimedBy # w THEN j
  ELSE [Released(j) EXCEPT !.doneAt = t, !.lastRun = t, !.failed = FALSE]

(* finishJob: is the result of w, which read version v, to be written? *)
Accepted(j, w, v) == j.claimedBy = w /\ v = version

Finished(j, w, v, t) ==
  IF j.claimedBy # w THEN j
  ELSE IF v # version THEN Released(j)
       ELSE [Released(j) EXCEPT !.doneAt = t, !.lastRun = t, !.failed = FALSE]

Idle == [phase |-> "idle", at |-> 0, read |-> 0, text |-> 0, until |-> 0]
Begin(phase, t) == [Idle EXCEPT !.phase = phase, !.at = t]

(***************************************************************************)
(* The thread                                                              *)
(***************************************************************************)
(* The post is created, and its digest queued. *)
Init == /\ version = 1 /\ written = 0 /\ now = 1 /\ trouble = 0
        /\ job = [runAfter |-> 1 + Quiet, since |-> 1, attempts |-> 0, claimedBy |-> Nobody,
                  lease |-> Null, doneAt |-> Null, lastRun |-> Null, failed |-> FALSE]
        /\ run = [w \in Workers |-> Idle]
        /\ copy = [w \in Workers |-> version]

(* threadChanged: a new version, and its digest is queued again. *)
ThreadChanged ==
  /\ version < MaxVersion /\ now <= LastChange
  /\ version' = version + 1
  /\ job' = Scheduled(job, now + Quiet, now)
  /\ UNCHANGED <<written, now, run, copy, trouble>>

(***************************************************************************)
(* The workers                                                             *)
(***************************************************************************)
Working(w) == run[w].phase \in {"read", "text"}

Trouble == trouble < MaxTrouble /\ trouble' = trouble + 1

(* Node.Apply of a command that turns the row into j and the digest into   *)
(* d.  Answered, the worker goes on to `done`, its own copy having caught  *)
(* up unless the wait for it ran out.  In trouble, the command is made     *)
(* again, or it is given up and the worker goes on to `undone`.            *)
Submit(w, j, d, done, undone) ==
  \/ /\ job' = j /\ written' = d
     /\ run' = [run EXCEPT ![w] = done]
     /\ \/ copy' = [copy EXCEPT ![w] = version] /\ UNCHANGED trouble
        \/ Trouble /\ UNCHANGED copy
  \/ /\ Trouble
     /\ \/ job' = j /\ written' = d
        \/ UNCHANGED <<job, written>>
     /\ run' \in {run, [run EXCEPT ![w] = undone]}
     /\ UNCHANGED copy

(* A step of the worker alone, with the model and its own copy. *)
Alone(w, r) == /\ run' = [run EXCEPT ![w] = r]
               /\ UNCHANGED <<version, written, job, now, copy, trouble>>

(* The worker sees the job due.  (Its own copy may show a job that is no   *)
(* longer due; claiming that one is refused and changes nothing.)          *)
FindDue(w) == /\ run[w].phase = "idle" /\ Due(job, now)
              /\ Alone(w, Begin("claim", now))

(* ClaimJob.  A run starts when the answer says this worker has the job:   *)
(* the lease counts from the claim's stamp, the run's time from the answer. *)
Claim(w) ==
  /\ run[w].phase = "claim"
  /\ Submit(w, Claimed(job, w, run[w].at), written,
            IF Due(job, run[w].at)
            THEN [Begin("read", now) EXCEPT !.until = run[w].at + Lease]
            ELSE Idle,
            Idle)
  /\ UNCHANGED <<version, now>>

(* "Read before the text, so a change meanwhile makes this stale, not wrong". *)
ReadVersion(w) ==
  /\ run[w].phase = "read"
  /\ Alone(w, [run[w] EXCEPT !.phase = "text", !.read = copy[w]])

(* The model reads the text and writes its result, *)
RunJob(w) ==
  /\ run[w].phase = "text" /\ now < run[w].at + RunTime
  /\ Alone(w, [run[w] EXCEPT !.phase = "result", !.at = 0, !.until = 0, !.text = copy[w]])

(* or it fails, or runs out of time. *)
RunFails(w) == Working(w) /\ Alone(w, Begin("fail", 0))

SetDigest(w) ==
  /\ run[w].phase = "result"
  /\ Submit(w, Finished(job, w, run[w].read, now),
            IF Accepted(job, w, run[w].read) THEN run[w].text ELSE written,
            Idle, Begin("fail", 0))
  /\ UNCHANGED <<version, now>>

FailJob(w) ==
  /\ run[w].phase = "fail"
  /\ Submit(w, Failed(job, w, now), written, Idle, Idle)
  /\ UNCHANGED <<version, now>>

(* The worker's copy applies what the log holds by now. *)
CatchUp(w) ==
  /\ copy[w] # version
  /\ copy' = [copy EXCEPT ![w] = version]
  /\ UNCHANGED <<version, written, job, now, run, trouble>>

Crash(w) ==
  /\ Trouble /\ run[w] # Idle
  /\ run' = [run EXCEPT ![w] = Idle]
  /\ UNCHANGED <<version, written, job, now, copy>>

(* Time passes, but no worker runs a job past RunTime.  A prompt worker,   *)
(* which polls the queue every 10 seconds and has no other job, also takes *)
(* a due job and submits a result within the unit of time it is in.        *)
InTime(w) == /\ Working(w) => now < run[w].at + RunTime
             /\ Prompt => /\ run[w].phase \notin {"result", "fail"}
                          /\ run[w].phase = "idle" => ~Due(job, now)

(* Nothing limits how long a claim waits to be answered (Apply waits for a *)
(* leader, for the commit, for each node it forwards to), so time passes   *)
(* it by; where its lease would no longer cover a whole run, that counts   *)
(* as a trouble.                                                           *)
SlowClaim(w) == run[w].phase = "claim" /\ now + 1 + RunTime > run[w].at + Lease

Tick == /\ now < MaxTime /\ \A w \in Workers : InTime(w)
        /\ now' = now + 1
        /\ \/ \E w \in Workers : SlowClaim(w) /\ Trouble
           \/ (\A w \in Workers : ~SlowClaim(w)) /\ UNCHANGED trouble
        /\ UNCHANGED <<version, written, job, run, copy>>

Step(w) == \/ FindDue(w) \/ Claim(w) \/ ReadVersion(w) \/ RunJob(w) \/ RunFails(w)
           \/ SetDigest(w) \/ FailJob(w)

Next == \/ ThreadChanged \/ Tick
        \/ \E w \in Workers : Step(w) \/ CatchUp(w) \/ Crash(w)

Spec == Init /\ [][Next]_vars

(* Workers run (Worker.Run never stops while its node is up), copies       *)
(* follow the log, and time passes.                                        *)
FairSpec == Spec /\ WF_vars(Tick)
                 /\ \A w \in Workers : WF_vars(Step(w)) /\ WF_vars(CatchUp(w))

(***************************************************************************)
(* Properties                                                              *)
(***************************************************************************)
GivenUp == job.doneAt # Null /\ job.failed

(* A job that is closed and was not given up has left a digest of the      *)
(* thread as it is now: no change is ever forgotten by the queue, whichever *)
(* worker, lease, crash or repeated answer came between (jobs.go, finishJob *)
(* and schedule).                                                          *)
NothingForgotten == job.doneAt # Null => written = version \/ GivenUp

(* The digest is only ever written from the thread's current text: "a slow *)
(* worker never overwrites newer content" (jobs.go, the head comment).     *)
Texts == INSTANCE Derived
WritesCurrentText == Texts!Spec

(* Two workers run the job at once only when one of them has outlived the  *)
(* lease it got: inside its lease a worker has the job to itself, whatever *)
(* claims, late answers and repeats the others make (ClaimJob).            *)
OneAtATime == \A u, w \in Workers : Working(u) /\ Working(w) /\ u # w =>
                now > run[u].until \/ now > run[w].until

(* "A job gets a few minutes, inside its lease" (RunOnce): a worker at the *)
(* job is inside the lease it got.  The code does not keep this.           *)
InsideLease == \A w \in Workers : Working(w) => now <= run[w].until

(* A waiting job that has not failed is due within MaxWait of the change   *)
(* that queued it, however often the thread changes: "steady activity      *)
(* can't starve it" (schedule).                                            *)
NeverStarved == job.doneAt = Null /\ ~job.failed => job.runAfter <= job.since + MaxWait

(* When the thread stops changing, the job is in the end closed for good,  *)
(* with NothingForgotten saying what that means.                           *)
Settles == <>[](job.doneAt # Null)

(***************************************************************************)
(* What the proofs of these rest on                                        *)
(***************************************************************************)
(* What a worker read is no newer than the thread, and its text no older   *)
(* than the version it read.                                               *)
Readings == \A w \in Workers :
              /\ copy[w] <= version
              /\ run[w].phase = "text" => run[w].read <= copy[w]
              /\ run[w].phase = "result" => /\ run[w].read <= run[w].text
                                            /\ run[w].text <= version

(* Claims are stamped in the past, and the job of a worker that is inside  *)
(* its lease is that worker's, under that lease.                           *)
Leases == \A w \in Workers :
            /\ run[w].phase = "claim" => run[w].at <= now
            /\ Working(w) /\ now <= run[w].until =>
                 job.claimedBy = w /\ job.lease = run[w].until

LastRunPast == job.lastRun <= now /\ job.since <= now

IInv == TypeOK /\ NothingForgotten /\ NeverStarved /\ Readings /\ Leases /\ LastRunPast
=============================================================================
