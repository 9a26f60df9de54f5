# grus in TLA+

[grus](../src/README.md) is a program for community groups: posts, comments,
moderation, an FAQ and AI notes, served by a few nodes that keep every group in
an SQLite file of its own, replicated by a Raft log of its own.  This directory
holds TLA+ models of the parts of it whose correctness depends on the order in
which nodes, workers, members, moderators and logs act, the TLC runs that check
them on small instances, and proofs (TLAPS) of the properties that matter most.

Run from this directory: `tlc -config X.cfg M` for a run, `tlapm M.tla` for the
proofs.  `PROJECT.json` lists the components, the runs, the mistake each property
was seen to catch, the lines each definition stands for, and the hazards.

## 1. The system

### 1.1 The parts

| part | its state | its operations | modelled in |
|---|---|---|---|
| Replicated files (`cluster/fsm.go`, `cmd/applier.go`, `store/copy.go`) | an SQLite file per log with its `applied` index; Raft's log, snapshots | apply an entry, snapshot, restore, restart | `FileLog` |
| Raft (hashicorp/raft, external) and what is configured around it (`cluster/raft.go`, `shard.go`) | membership, terms, the committed log | elections, replication, `Recover`, forwarding | environment of `FileLog`, `Outbox`, `Placement` |
| Follow-ups (`cmd/logs.go`, `crosslog.go`, `cluster/upkeep.go` relay) | an `outbox` table in each file | `send`, relay, `OutboxDone` | `FollowUps`, `Outbox` |
| Placement (`cmd/nodes.go`, `cluster/upkeep.go`, `shard.go`) | `nodes`, `group_hosts` in site.db; open logs; Raft memberships | register, place, unplace, remove, reconcile, recover | `Placement` |
| Work queue (`cmd/jobs.go`, `ai/worker.go`) | `jobs`, thread and item versions | schedule, claim, fail, finish | `Derived`, `Jobs` |
| Membership (`cmd/members.go`, part of `moderation.go`) | `memberships`, `invites` | join, review, leave, roles, bans | `Membership` |
| Posts, comments, moderation (`cmd/posts.go`, `moderation.go`, `purge.go`, `archive.go`) | `posts`, `comments`, `search_fts` | create, edit, delete, restore, check, report, vote, purge, import | `Items` |
| Sister groups (`cmd/sisters.go`, `crosslog.go`) | `group_pairs` in site.db, `sister_links` and `notes` in each group | propose, answer, end, link, reject, hide and show | `Sisters` |
| Links and notes in a group (`cmd/links.go`, `nudges.go`, `ai/worker.go`) | `post_links`, `notes`, `note_sources`, `nudges` | link, unlink, move under, write notes, summarize, undo | `Notes`, `Summaries` |
| Outside sources (`cmd/sources.go`, `ai/worker_faq.go`) | `sources`, `source_links`, `source_domains` | add, approve, remove, restore, read, recheck | `Sources` |
| FAQ (`cmd/faq.go`, `ai/worker_faq.go`) | `faq_topics`, `faq_entries`, `faq_sources`, `faq_history` | topics, entries, the nightly batch, the weekly pass, rewrites | `Faq` |
| Domains (`web/hosts.go`, `cmd/site.go`) | primary, alternates, aliases, groups' own domains | set, add, resolve a host, redirect | `Hosts` |
| Sign-in (`web/login.go`, `bounce.go`, `cmd/login.go`, `bounce.go`) | `login_tokens`, `sessions`, bounces, cookies | send, redeem, fail, bounce, sign out, suspend | `Accounts` |
| Notifications, digests (`cmd/engage.go`, `web/email.go`) | `notifications`, `follows`, what was mailed | notify, bell, mark read, email, digest | `Mail` |
| AI prompts, gate and pool; node-to-node calls; pages and their cache; photos; export, config, mail, ids | | | not modelled, see 6 |

### 1.2 How they interact

* A page's handler checks what it sees in its node's copy, builds a **command**
  that carries its ids and its time, and gives it to the log it belongs to (the
  site log or a group's).  Raft commits it; every node holding the file applies
  it, with `Applier.inTx` skipping entries the file already has.  The outcome of
  the command depends on the file alone, so by the time it is applied the
  handler's view may be out of date: guards that matter must be in `Apply`.
* A command that must change **another** log's file writes a follow-up into its
  own outbox, in the same transaction; the leader of the log relays it and then
  removes it.  Follow-ups arrive at least once.
* The node map is rows of site.db; every node reads **its own** copy at each
  upkeep tick and starts or stops its members of group logs.  A log's leader
  reads the same map to bring Raft's membership in line.
* AI workers poll the queue of each group their node holds, claim a row by a
  command, read the thread from their own copy, call the model for minutes, and
  submit the result as a command that names the version it was written from.
* Pages show what the file holds *now*; what is derived from a thread (digest,
  notes, FAQ entries, search rows, counts, notes in sister groups) must
  therefore follow it.
* Sign-in, sessions and domains are rows of site.db; each request is answered
  from the copy of the node it reaches, and the browser carries cookies between
  them.

### 1.3 What is hard, and what must hold

Hazards are listed at their lines in `PROJECT.json`.  In short: replays and
snapshots that are ahead of their label (files); an answer lost between applying
and removing (outbox); several nodes acting on old copies of one map while copies
are being deleted (placement); leases, timeouts and answers that come too late
(queue); texts written for minutes from threads that move, are hidden or are
claimed by somebody else meanwhile, and moderators whose decisions must outlast
them (notes, summaries, sources, FAQ); commands decided on stale pages, in any
order (membership, items, domains); requests of one browser answered by nodes
that know different things (sign-in); two leaders that send the same email; and
three independent logs that carry halves of one fact (sisters).

## 2. The modules

**`ReplicatedFile`** is what handlers rely on: one history of contents that only
grows, each copy a point of it.  **`FileLog`** is what grus does: `InTx` (the
applied index in the entry's own transaction), `Apply`, `RequestSnapshot` and
`PersistSnapshot` (Raft labels, VACUUM INTO copies later), `ReceiveSnapshot` and
`RestoreSnapshot`, `Crash`, `Restart` (without reloading the snapshot).  `Commit`,
`Receive`, `ReceiveSnapshot` are Raft's.  Three more faults are switched by the
constant `Faults`: "power" (`synchronous=NORMAL` loses commits since a
checkpoint), "install" (killed inside `ReplaceFile`), "io" (one node's
transaction fails).  The commands are three operators over small contents
(`MCFileLog`): one that is not idempotent, one that does not commute with it and
one that can fail.  `FileLogProofs` has the proofs.

**`FollowUps`** is the promise of `logs.go`: at least once, and none before the
ones sent earlier.  **`Outbox`** is the log with its outbox, each node's copy of
it, the relay pass of whoever leads (or led: passes of two leaders overlap),
`Deliver` / `Undelivered` / `Unanswered` (applied and the answer lost) /
`GiveUp` and `ArriveLate` (a forwarded command that arrives after its caller
gave up), `Finish` (OutboxDone up to the batch's last id).  `OutboxProofs` has the
proofs.

**`Placement`** follows one group: the map after each site command (`maps`), how
far each node has seen it, which nodes run, have the log open, have Raft state,
and hold which writes; Raft's membership; and the disasters.  Its actions are the
commands (`CreateGroup`, `RegisterNode`, `PlaceGroup`, `UnplaceGroup`,
`RemoveNode`), the upkeep pass (`StartShard`, `StopShard`, `Reconcile`) and
`Recover` with `forget`.  `GroupProofs` has the proofs.

**`Derived`** says that a text may lag behind its thread but is only ever
replaced by one written from the thread as it then stands.  **`Jobs`** is one
row of the queue with its thread and the workers: `ThreadChanged` is `schedule`;
a worker goes `FindDue`, `Claim`, `ReadVersion`, `RunJob`, then `SetDigest` or
`FailJob`, and may lose an answer (and submit again, or not), crash, or read
from a copy that is behind.  A claim may be answered any time later: `Apply` has
waits that nothing bounds, and the lease counts from the claim's stamp, the run
from its answer.  Such a claim (`SlowClaim`) is one of the troubles.  The ghost
`until` is the end of the lease a worker runs the job under.  `JobsProofs` has the
proofs.

**`Membership`** is the memberships, invites and join policy of one group with
every command that writes them, each with the time of its submitter, which may
be older than the last command's.  Ghost variables remember the ban that has not
been lifted (`sentence`) and roles given since a person last came in (`trusted`).
`GroupProofs` has the proofs.

**`Items`** is the posts and comments of one group with what is kept beside
their status by hand: search rows, `comment_count`, `ai_cleared`, and what
sister groups were last told.  `ChangeStatus` is `changeStatus`, used by checks,
reports, votes and approvals; `SoftDelete`, `Restore`, `ImportPost`,
`RequestArchiveRemoval` and `PurgeGroup` do the same in their own ways in the
code, and so here.  (`SoftDelete` does in the code, line for line, what
`changeStatus` does, and is written with it.)  `MCItems` gives the threads,
`ItemsProofs` has the proofs.

**`Sisters`** is two groups with one post each: the pairing in site.db, each
side's link and note, and the follow-ups between the three logs, in order, at
least once, any time later (what `FollowUps` promises).  `SistersProofs` has the
proofs.

**`Notes`** is the links between the threads of a group and what is written from
them: `AddLink`, `RemoveLink`, `SetCheck` (which links what a check found),
`MoveUnder` and `MoveOut` (a thread that continues another), `RemoveNote`; and
for each note a job that a worker claims (remembering the version), reads and
submits (`Fits` is `finishJob`'s comparison).  `syncCombined` decides which
threads get a combined note.  **`Summaries`** adds the summary of a long thread,
the nudges that come with it and their reversal.  **`Sources`** adds outside
pages: added by members, moderators or lists, approved, read, summarized,
removed, restored and rechecked, while the web changes (`WebChanges`, external).
It has `Init` and `Next` of the three.  A text is what it was written from;
ghosts say of a note whether something that its version need not count queued
it again while a worker was writing it (`crossed`, `mixed`), and of a page whether
anyone let it be published (`cleared`).  `SourcesProofs` has the proofs, of all three.

**`Faq`** is the outline of topics and the entries written from the threads:
moderators' commands, what threads do to entries (`ChangeThread`, `ChangeStatus`,
`PurgeGroup`), `QueueGroupFAQ` (the nightly batch queues rewrites and new entries,
the weekly pass a look at the outline), and the worker's three jobs: `ClaimJob`,
which reads (`ReadEntry`, `ReadCluster`, `ReadOutline`), and `FAQRewrite`, `FAQNew`
and `TidyAnswer` (`TidyTopics`, from an outline read minutes ago).  Pages are operators over the state (`Topics`,
`MainTopics`, `topicPage`, `TopicPosts`, `Other`), so that what a visitor finds
can be stated.  Ghosts: `settled`, what an entry's last answer was written from;
`astray`, a pass merged a topic into one that it had merged away.

**`Hosts`** is site.db as far as it decides what a host name leads to: `site` is
every state it has been in, and a node answers from the one it has `seen`.
`resolve` is the function of `web/hosts.go`; `Follow` is a visitor who goes
after its redirects.  A command is a function from site.db to what it becomes;
`Apply` submits it at a node, where the answer of the node it was passed on to
may be lost, so that it is applied twice, or once with an error page.
**`Accounts`** adds sign-in: one person's account, mailbox and browser.  A
`visit` is a chain of requests, each at any node: pages, `/login`, the emailed
link or code, `/bounce` and `/finish` on the group's own domain, sign-out.
**`Mail`** adds notifications, the bell, preferences, email about them and
digests: a pass of a node that takes itself for the leader (`SendNotices`,
`SendDigests`: list; `Sent` or `NotSent`; `Mark`: record), with crashes and
elections in between.  What a node lists, for an email or for the bell, is what its
own copy of the group's file says: `file` is every state the file has been in,
`applied` how far each node has come with it (`CatchUpGroup`), and a node may be
elected before it has applied what the last leader recorded.  The bell's page
marks what it has gathered of a group; what is left of it when the lists of all
groups are cut to one page is a choice (`OnPage`).  Ghosts:
`given` and `ended` (sessions), `clash` (one domain given two roles), `old` and
`owned` (domains that were primary, or a group's); of notifications `sent`,
`listed` (gathered for a page) and `shown` (on it), `spare` and `behind` (why it may
go out twice); of a pass, `stale` (it read an old `digest_sent_at`).  `SiteProofs` has
the proofs, of all three.

**`MCFaq`, `MCSources`, `MCSite`, `MCPlacement`** name plans: a behaviour picks one
in `Init`, which says where it starts, which commands people give in it and how
many.  Everything else (workers, nodes that catch up, browsers, passes) is never
limited by a plan.  This keeps one specification, and lets commands that matter
to each other meet in depth.

### Abstractions worth knowing

* Each log is a sequence of committed entries, and a command is applied in one
  step.  In the modules about a group's content copies are left out: `FileLog`
  shows that every copy goes through the one history.  `Hosts`, `Accounts` and
  `Mail` keep the nodes' views of site.db, which is where lag shows.
* Any command may be applied at any time that its `Apply` accepts it.  This
  covers every stale page; what only pages check (who may moderate) is not
  modelled, except in `Ban`, whose `Apply` looks at who bans a moderator.
* `FileLog`: Raft keeps as much log as is needed (`TrailingLogs` is not a
  number); a node can be sent a snapshot older than its file, and moves back.
* `Placement`: one group, one lineage of membership; a membership change commits
  with a majority of the new voters, as Raft does; a second bootstrap with other
  voters sets `forked`, which `Kept` forbids, and is not followed further.
  Commands need the site log, whose voters are the voter nodes (`SiteLogWorks`).
  The word "careful" in a plan is an operator who waits for a change to be
  carried out before giving the next, and takes a voter off only where two
  others stay; "patient", one who also waits until the group's nodes have the
  last map in their copies of site.db.  5 says what happens without them.
* `Outbox` has one target log.  `Sisters` keeps visibility fixed and reads
  site.db and the other group at one moment.
* `Items`: votes are their outcome; one item's text changes at a time (bound);
  held legal cases (no command sets them) and revisions are left out.
* `Notes`, `Faq`: the model may answer anything that the worker's checks let
  through; which pairs it finds, which comments it ranks and which topics it
  merges are free choices.  A digest counts as its thread.  Leases are in `Jobs`:
  a claimed job may be claimed again, and the first answer is then refused.
* `Accounts`: codes, tokens and sessions are random in the code and never equal
  here; cookies are those of `web/login.go` (one for a domain and all names
  under it, one for a host), and the host's own goes first.  A code that is wrong
  is compared and counted in one step (`login.go:162-163`; the code reads first, so
  two guesses made at once are both compared before either is counted), and
  `/login` for somebody who is signed in already, which only sends them on
  (`login.go:76-78`), is left out.
* `Jobs`: all workers have one clock.  A command given up that arrives later still
  is not followed.  `Mail`: a node that passes a record on to another leader may
  give up waiting for its own copy ("fail" in a plan).
* Passing a request on to a node with the group, and the page cache, are not in
  the way of a request.

## 3. The runs

Bounds are constants or plans with "bound" in their comments; there are no state
constraints.  The two nodes of `SiteVisits` and `SiteSignsIn` are alike (`SYMMETRY Alike`; nothing
but safety is checked there).  Deadlock is not
checked: with the bounds used up a model stops, which the program does not.

| run | what it shows | bounds |
|---|---|---|
| `FileLogCrash` | `CopyExact`: whatever was replayed, snapshotted or installed, a file is exactly what the log leaves; `ImplementsReplicatedFile` (refinement); `Converges` | 2 nodes, 3 entries of 3 commands, one crash: a crash before, in and after a snapshot that is ahead of its label all occur |
| `FileLogFaults` | `NeverTwice` even with power cuts, killed installs and full disks | 2 nodes, 3 entries, one fault going down, any number of I/O errors |
| `OutboxCalls` | `NoneLost`, `KeepsPromise` (refinement), `Drains` | 2 nodes, 3 follow-ups (one of them refused), batches of 2, 2 faults: two leaders with overlapping passes over more than one batch |
| `PlacementMoves` | `Kept`, `Serviceable`, `Converges`, `NoneStranded`: under moves by a careful and patient operator, and after one voter, or all three, are lost for good | 4 nodes; 3 first voters, 5 versions of the map, or 4 with voters demoted and one stop, or 3 versions, a full node and a loss; one write.  Five versions are a voter replaced and its copy used again; with four, not all voters can be demoted |
| `JobsDerive` | `NothingForgotten`, `OneAtATime`, `NeverStarved`, `WritesCurrentText` (refinement), `Settles` | 2 workers, 3 versions, 3 attempts, 2 troubles (a crash, a lost answer, a claim that is late by one tick), lease 2 and a run of 1, clock to 24, so that all attempts and their back-offs fit, and both workers can be at the job |
| `MembershipPeople` | `OwnerStays`, `BanHolds`, `RolesEarned`, and invites (`TypeOK`: never more uses than allowed) | 3 people, 1 invite, 3 ticks, commands up to one tick old, one repeat of InitGroup |
| `ItemsStatus` | `CountExact`, `Searchable`, `ClearedStays`, `SistersTold` | a member's post and an archive thread, a comment each, 2 texts |
| `SistersPair` | `BothAgreed` (links and rejections on both sides too), `StaysRejected`, `NotesFollow` | 4 follow-ups sent, one repeated: a pairing ended and made again with a late rejection in between fits |
| `FaqNights` | `Findable`, `KeepsUp`, `ModsWordStands`, `NoDuplicate` | 2 threads, 2 entries, up to 5 topics, 1 to 3 commands by people in four plans, any number of batches, passes and claims: a move while a pass is being answered, a lock while a rewrite is |
| `SourcesPages` | `Refreshed`, `LinksShow`, `PagesVetted`, `UndoneStays` | 3 threads, 1 page, 2 comments, combined notes of 2, 3 to 5 commands in seven plans, one job under way at once beside them: a note queued, read, crossed and answered fits |
| `SiteVisits` | `OldLinksWork`, `SignedInRightly`, `Lands`, `MailedOnce`, `NoneLost` | 2 nodes, 3 domains, one group, clock to 3, 3 to 5 requests in seven plans: a domain that was primary, a code tried at both nodes, a visit or a sign-in across a change; and 3 or 4 things that people or faults do in four plans about email, 3 notifications, a page of 1, copies any number of commands behind: two leaders at once, a leader that is behind, a crash before the record, a page that is cut |
| `SiteSignsIn` | `SignedInOnBoth` violated: see 5 | as `SiteVisits`, one plan |

Every property has a mutant in `PROJECT.json`: a definition next to the faithful
one ("A mistake: ...") that makes TLC find the property violated.

### Fairness

* `FileLog`: weak fairness of receiving, applying, restoring and restarting per
  node: Raft's goroutines run while the process does and a service manager starts
  it again.  Nothing is assumed of snapshots, or of anyone submitting.
* `Outbox`: of a leader's relay pass (it is kicked by every write and repeated by
  the upkeep tick), of applying, and that somebody is elected in the end; faults
  are bounded.
* `Placement`: of following the site log and of upkeep on every node, and that a
  stopped node is started again; nothing of the operator.
* `Jobs`: only that time goes on.  With `Prompt` (the run) time does not pass
  a worker that could act at once, which is what a polling worker on a live
  node is; the proofs do not need it.
* The others state safety only: what they must do in the end is done by the
  queue and the relay, whose liveness `JobsDerive` and `OutboxCalls` check.

## 4. What is proved

For any nodes, commands, contents, workers, people and times that satisfy the
named ASSUMEs (and any bounds):

* `FileLogProofs`: `TypeCorrect`; `NothingTwice` (`NeverTwice`), under every fault;
  `CopiesExact` (`CopyExact` and `SnapshotExact`) and `FileLogImplements` (`Spec`
  implies `ReplicatedFile`'s), where processes crash but keep what SQLite
  committed (`Faults \subseteq {"crash"}`).

  `CopyExact` is not inductive.  After a crash a node replays from its newest
  snapshot's label, so the file must be exact from *there* (`ReplayExact`), which
  needs the order of indexes, pend <= last <= stored, and that the snapshot's
  label is not ahead of what a running node applied (`IndexOK`), and that history
  is what running the log gives (`HistoryOK`).  `IInv` is their conjunction.  The
  key lemma is that an exact file stays exact under `InTx` at the next index: if
  the entry is skipped or fails, history does not move there.  The refinement
  maps a copy to its contents and index; every step is a write, a move or a
  stutter by `IInv`.

* `JobsProofs`: `TypeCorrect`, `NoneForgotten`, `NoStarvation`, `OneWorker`
  (`OneAtATime`), and `ImplementsDerived` (`WritesCurrentText`).  `IInv` adds what
  a worker remembers: its copy is never ahead of the thread, what it read is no
  newer than its text (`Readings`: this order, version before text, is what makes
  the comparison at submission sound); claims are stamped in the past, and while a
  worker is inside the lease it got the row still has that lease and its name
  (`Leases`: another claim is refused until then); and the last run is past.
  Nothing is assumed of how soon a claim is answered or how long leases and runs
  are, so what is proved of two workers is about the lease they got; that a worker
  is inside it is not so (`InsideLease`, 5).

* `GroupProofs`, of `Placement`: `PlaceTypesHold`; `PlacementKept` (`Kept`, of a careful
  operator); `PlacementServiceable` (`Serviceable`, of a careful and patient one where
  no node is lost for good, and, whatever is lost, removed and recovered, of a
  group that is not moved otherwise).  For any nodes, plans, maps and writes; a
  plan that does both, moves and losses, is beyond them.

  A node's next step depends on its own copy of the map, so the invariant is about
  all the maps a node has yet to take (`Since`), and the lemma everything else
  needs is that for a node they only ever put the group there, if it has no state
  for it, or only ever take it off, if it has (`Followed`, `Opened`): so a copy that
  is deleted is not one that will be counted on.  Then more than half of the voters
  have every write or are gone and can elect nobody (`Covered`), and a leader's
  majority meets them (`Overlap`, by cardinality); steps that carry data or change
  the voters keep it by the majority that took them over (`QuorumCovers`).  `Fresh`
  says why a voter that begins late begins with the same list.  A change of the
  map keeps all this if it is `Mild` and `FirstKept`, which is where the operator's
  care is used.  `SteadyInv` and `LossInv`, for `Serviceable`, are explained at the
  head of the module.

  Two errors of the model were found by these proofs: a leader that removed
  itself did so without the others' agreement (the code waits for it,
  `upkeep.go:202`; with five voters TLC then finds `Kept` violated), and the care
  asked of the operator was not enough for `Serviceable` (5).

* `GroupProofs`, of `Membership`: `TypeCorrect`, `OwnerAlways` (`OwnerStays`), `BansHold`
  (`BanHolds`) and `RolesAreEarned` (`RolesEarned`).  `IInv` adds what a row
  remembers: without settings nobody has a row (`Unset`), a banned row ends when
  the last ban does and everyone else has served theirs (`Sentences`).  A command
  changes one row, so two lemmas do the work: `RowInv` says which new rows keep
  `IInv`, and `AnotherOwner` (by cardinality) that an owner stays if the row is
  not the last one's.

* `OutboxProofs`: `FollowUpsKept` (`NoneLost`) and `OutboxImplements` (`KeepsPromise`:
  `Spec` implies `FollowUps`'s), for any nodes, batches and number of follow-ups.
  Nothing is lost because everything that may yet remove or deliver a follow-up
  knows that those before it have arrived: an entry of the log up to which it
  removes (`Dones`), a pass where it stands (`Passes`), a call that arrives late
  (`Lates`).  A pass knows it when it starts, since it starts after the last id
  deleted in its own copy, and that was the log's word at some earlier entry
  (`HasMax`: the ids deleted by then have a largest).

* `SistersProofs`: `PairsAgree` (`BothAgreed`), `RejectionStays` (`StaysRejected`) and
  `NotesStopShowing` (`NotesFollow`), for any number of messages and repeats.  One
  side is rejected and the other is not only while the order to reject is on its
  way (`Underway`), and such an order comes only from a side that is itself
  rejected, also when it arrives again (`Orders`).  A note of a hidden post is down
  already, or an order to hide it is on its way with none behind it that would
  show it again (`Followed`).

* `ItemsProofs`: `CountIsExact`, `SearchIsExact`, `ClearedIsClear`, `SistersKnow`
  (`CountExact`, `Searchable`, `ClearedStays`, `SistersTold`), for any threads and texts.
  These are nearly inductive: `Rows` adds that what has no row has nothing else
  either, and that a comment has a post.  Most commands change one item; `OneItem`
  says what each has to get right, and `Recount` (by cardinality) that a comment
  coming into view changes its post's number by one.

* `SourcesProofs`: `LinksAlwaysShow` (`LinksShow`), `UndoneForGood` (`UndoneStays`),
  `PagesAreVetted` (`PagesVetted`) and `NotesAreFresh` (`Refreshed`), over all actions
  of `Notes`, `Summaries` and `Sources`, for any threads and pages.  `SyncIs` says what `syncCombined` does: afterwards the note gathers exactly what the
  thread is related to, or is down.  The other commands keep it so (`Agree`)
  because they never take a relation away without syncing, `RemoveSource` apart,
  which leaves the page where it was placed.  `TakenDown` and `Reversed` tie a
  moderator's mark to what it did, and the mark is never taken back.
  Of a page, `PagesInv` adds why one that is to show and has no summary will get
  it: its job is open, or a worker has claimed it and, if the row is still what
  it was when read, brings a summary or a problem (`ReadSafe`).
  Of a note, `TextInv` adds what the worker that writes it has counted: versions
  that add up to the one it will answer with and that the threads have reached,
  such that a thread still at its version says what the worker has read
  (`ReadFresh`).  Versions only go up, so when the sum fits no thread has moved
  (`EqualSums`, by induction on the number of threads in the sum; `Counting` gets the
  induction from the numbers being well-founded) and the text is of today.  What
  else may change a note's sources queues it again, and the ghost remembers.

* `SiteProofs`: `OldLinks` (`OldLinksWork`), `OneSessionEach` (`SignedInRightly`),
  `VisitsLand` (`Lands`), `EmailedOnce` (`MailedOnce`) and `NoNoticeLost` (`NoneLost`),
  over all actions of `Hosts`, `Accounts` and `Mail`, for any nodes, domains, groups and
  plans.

  `SiteInv` is about the log of site.db: every earlier state a node may answer
  from has no session that had ended by then (`CopyOK`), and the last one keeps
  `DbOK`: a group's own domain is its own, aliases lead somewhere, `clash` tells
  of every clash (`HostsOK`); what a session was made for is used up, and the
  wrong codes typed at any nodes are among the tries counted in the log
  (`AccountsOK`).  Each command is shown to keep `DbOK` applied once, and again
  by an answer that was lost; `SiteGrows` puts that together with the log.  Old
  links work in any such state (`LinksWork`): three redirects are enough.  They are
  those on domains that were the primary or redirect to it; a domain that a group
  had of its own before is not among them (`FormerAddressesLead`, 5).

  `VisitState` is about one visit, and what may be made of it later.  `VisitOK` says for
  each phase where an undisturbed visit may be: on its way with redirects left
  (`Quick`) to where it should end (`Aim`), at `/bounce` with the group's host noted as
  tried, back there with a code the log has, or where it was going and signed in
  (`Settled`), after at most five redirects in all.  There is one lemma for each way to
  go on (`RedirectOK`, `PageOK`, `StartOK`, ... `SignInOK`), and they are about one site.db
  only; that the nodes' copies differ comes in with `Past`: the copies that lag, the
  sign-ins and codes that were made from them, and the browser's cookies name no
  domain that was never the primary or a group's.  So no cookie of a group's own
  domain goes to the primary (`Plain`), unless a domain was both, which `Lands`
  leaves out.

  An error in the model was found by trying: `Lands` was false for a sign-in finished
  while domains move, which no plan tried.  The ghosts `known` and `wants` were
  wrong there: a node that has not heard of a new primary sets the cookie on the old
  one (`rt.primary`, `web/login.go:243`), so the person is not signed in on the primary;
  and a link that names a group's former domain leads home.  `safeNext` also took the
  primary of the copy after the command, where the code has that of the request.
  `Accounts` says so now, and the plan `Moving` tries it.

  `MailInv` needs nothing of site.db.  A state of the group's file that a node may
  still list from has no more read or recorded than the file has now (`CopiesInv`,
  `Earlier`), so what a pass leaves out of its list was rightly left out, and a pass
  holds everything that is not yet emailed up to where it will mark (`LostInv`).
  A notification that was sent is marked or held by the one pass that will mark it
  (`OnceInv`), and there is one digest under way, begun far enough from the last
  one (`DigestInv`), until two leaders, a pass that could not record or a copy that
  was behind excuse it.  That a list of notifications has a newest one is by
  well-founded induction on the numbers.

  `PlansAssumption` and `StartAssumption` say how behaviours begin (groups made,
  nothing moved, no sign-in under way); `TriesAssumption`, `TTLAssumption` and
  `MailAssumption` give constants of the code their signs; `HopsAssumption` lets a browser
  follow more than the five redirects it may need (browsers follow some twenty).

Only model-checked:

* liveness (`Converges`, `Drains`, `Settles`, `NoneStranded`), as fairness and ENABLED
  are out of the prover's reach;
* everything of `Faq`: what a visitor finds follows chains of merged topics
  (`liveTopic`), and what they lead to is a matter of how often they were walked.

## 5. Where code and comments part

Shown by a run that TLC finds violated:

* `SiteSignsIn` (`web/server.go:354`): signing in from a group's own domain is said
  to end signed in on both (`web/bounce.go:25-26`).  The pages' Sign in link names
  the page itself as where to go next, so signing in comes straight back without
  `/bounce`; within an hour of the last bounce the domain does not ask the primary
  again, and the person is signed in there only.

Stated in a module, where its comment says that the code does not keep it; no run
lists these four, and as an `INVARIANT` of the run that is named TLC finds each
violated within half a minute:

* `InsideLease` (`Jobs`, with `JobsDerive`; `ai/worker.go:84`): "A job gets a few minutes,
  inside its lease" (`:92`).  The lease counts from `At`, taken before `Log.Apply`; the
  four minutes count from its answer, and `Apply` may wait for a leader (5 s), the
  queue (10 s), the commit (as long as it takes), a minute for each node it forwards
  to (`rpc.go:174`) and its own copy (10 s), while the lease leaves one minute.  A
  worker may be at a job when its lease is over, and a second one at it too.  The
  result of only one of them is written (`WritesCurrentText`).
* `FormerAddressesLead` (`Hosts`, with `SiteVisits`; `web/hosts.go:79`): a group's "old
  address then redirects to the new one" (`cmd/bounce.go:21-22`).  That is so of
  `<slug>.<primary>`; a domain of its own that is changed or taken back is kept
  nowhere, and leads nowhere.  `OldLinksWork` leaves these out.
* `CarriesOn` (`Mail`, with `SiteVisits`; `web/email.go:93`): "a new leader carries on where
  the old one stopped" (`:16-20`).  A node lists as soon as it is Raft's leader
  (`shard.go:124`), from its own copy; if that has not applied the last `MarkEmailed`
  yet, the batch goes out again, without a crash and with one leader at a time.
  The same with `DigestSent` (`email.go:200`).  `MailedOnce` excuses both (`behind`,
  `stale`).
* `ReadWasShown` (`Mail`, with `SiteVisits`; `web/engage.go:181`): the bell "marks what it
  shows as read" (`:145-147`).  It marks each group's newest as it gathers up to 50 of
  each, and cuts the page to the newest 100 afterwards: of three busy groups, one
  may be marked read with nothing of it shown, and its notifications are not
  emailed either.  A page that fails at a later group does the same.  `NoneLost`
  speaks of what was gathered.

Met while modelling, and not stated.  Where a property excuses one,
its comment says so.

*Files and nodes*

* With `NoSnapshotRestoreOnStart` (`shard.go:52`) a power cut that loses commits
  from before the newest snapshot's label, or a process killed inside
  `ReplaceFile`, leaves a copy that replay does not complete (`FileLog` with
  "power" or "install" violates `CopyExact`).  An I/O error in `inTx` (`fsm.go:38`)
  makes one copy skip an entry for good ("io").
* `UnplaceGroup` asks whether the map has another voter (`nodes.go:143`), not
  whether that voter has the group yet; `PlaceGroup` can demote a group's last
  voter (`nodes.go:115`); taking one of two voters off deletes a copy the
  membership still counts (`upkeep.go:204`); first voters that read different maps
  bootstrap differently (`upkeep.go:167`); a copy taken off a node that was down
  is not deleted when it starts (`upkeep.go:189`).
* `reconcileMembers` follows the leader's own copy of the map, however old
  (`shard.go:198`), and nothing asks whether it has the changes since: a leader that
  lags brings back voters that were taken off, whose nodes have deleted their
  copies, and when enough of them count no leader can be elected (without
  "patient", two first voters and five versions of the map, TLC finds `Serviceable`
  violated).
* A target log without a leader stops the relay, and follow-ups to other logs wait
  behind it (`upkeep.go:237`).
* `MirrorGroup` (`crosslog.go:54`) carries values: a late or repeated one overwrites a
  newer one; its comment says that it writes the same thing.

*Groups*

* A second change while a job waits moves it to less than an hour after its last
  run (`jobs.go:69`).
* `InitGroup` repeated after the founder left gives them their role back
  (`crosslog.go:31`); `RolesEarned` exempts the founder in that case.
* A purged comment (`purge.go:66`) leaves its replies behind, counted and
  searchable, and `web/thread.go:278` shows replies only under a comment that has a
  row.
* `RequestArchiveRemoval` (`sources.go:509`) removes the comments' search rows too, and
  restoring the post does not bring them back (`Searchable` says so); it tells
  sister groups nothing (`SistersTold` excludes archive posts).  Once a removed
  archive post is purged, a re-import brings it back.
* Approving a held post queues its check with the version it already has
  (`moderation.go:287`): the answer of a check that read it while held closes it.
* `SetCheck` with a "violation" verdict on a cleared post makes no links
  (`links.go:381`).  A `PutSisterSide` relayed after `DropSisterLinks` leaves a link
  between groups that are not sisters (it is not shown: pages ask the pairing).
* A note in a sister group whose source post was hidden before `PutSisterSide`
  arrived stays up (`crosslog.go:105`): the side that hides has no link yet, so it
  tells nobody, and `PutSisterSide` then does nothing.

*Notes, pages and the FAQ*

* `noteVersion` (`links.go:288`) does not count pages, nor a note that goes and comes
  back, and sums of other threads' versions may be equal: an answer begun before is
  then taken (`mixed` in `Refreshed`), against `jobs.go:18-19`, "A result for an older
  version is dropped and the job left waiting, so a slow worker never overwrites
  newer content".  Without that excuse TLC finds a worker that meets a note whose
  link was removed and has nothing to write (`ai/worker.go:214`); the link is made
  again, the note is queued, and "no change" closes the job: the note is up without
  a text and waits for a thread to change.  `RemoveSource` and
  `SetSource` do not look at combined notes again (`syncCombined`), so a note may
  gather a page that is gone until something else changes.
* A seed list that is gone is retried as an error.  A list that was taken down and
  restored is read as a page (`RestoreSource`).
* `TidyTopics` moves a merged topic's entries to the topic the pass named, also
  when the same pass merged that one away (`faq.go:712-719`; `liveTopic`'s comment,
  `:100`, has redirects followed); they are then listed under Other.  It moves a
  locked topic's place when its parent is merged.
* A cluster whose oldest thread is not shown is claimed and given up for ever
  (`worker_faq.go:34-35`), and a new entry is checked against that thread's version
  only.
* An entry hidden while its rewrite was queued ends fresh without one.
  `EditFAQEntry` and `RollbackFAQEntry` do not change the version, so a rewrite that
  was under way overwrites them (not if the entry is locked).
* Entries and combined notes are written from digests, which may be older than
  the threads.

*The site*

* The domain commands do not ask whether a domain is a group's, the primary, or an
  alias already (`clash`).  A domain that was a group's own and becomes the primary
  meets browsers that hold its old cookie, which hides the new one.
* A sign-in finished at a node that has not heard of a new primary puts the cookie
  on the old one: the person is not signed in on the new one, and has to sign in
  again there (`known` in `Accounts`).
* A node that lags may answer `/bounce` for somebody who has just signed in: they
  are signed out on the group's domain for an hour.  Signing out on a group's
  domain after that hour signs in again by way of the primary.
* A command passed on whose answer is lost is applied twice; the second
  `RedeemLogin` or `FinishBounce` is refused, and the person is told that the link
  has expired though it worked.
* `users.deleted_at` is read everywhere and written nowhere.
* `MarkEmailed` goes by ids and the list by times: one made earlier by its log and
  later by the clocks may be marked unsent (`Skipped` in `NoneLost`; against
  `email.go:22-23`).  A failing `MarkEmailed` ends the pass for everybody after it.
  Notices still waiting when a person leaves or is banned are mailed
  (against `engage.go:38-39`).  Two leaders may send the same batch.
* `Meter.Report` may report the same use twice.

## 6. Not modelled, and what would come next

Not modelled, because it is I/O or pure functions with tests of their own:
rendering, HTTP, TLS and connections between nodes, image decoding, fetching,
prompts and what the model answers, export, configuration, ids.  The AI gate and
pool order goroutines of one process and keep nothing.  The tables' layout
(`store/schema.go`) is the variables of the modules; its queries are reads.

Left out of modelled parts, and worth a module each: several targets in
`Outbox`; the page cache against the files; collecting photos against uploads;
the check that read a post while it was held (`Items` with `Jobs`); the pages that
FAQ entries cite (`Faq` with `Sources`); the words that limit a pairing of sister
groups and `MarkSisterStale`; the root FAQ; several people's mail in one pass.

Worth proving next: `Placement` where nodes are lost while the group is being moved.
