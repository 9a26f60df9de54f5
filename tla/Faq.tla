--------------------------------- MODULE Faq ---------------------------------
(***************************************************************************)
(* The FAQ of one group (cmd/faq.go, ai/worker_faq.go): the outline of     *)
(* topics, and entries written from the group's threads.                   *)
(*                                                                         *)
(* Moderators create, rename and move topics; a weekly pass merges and     *)
(* renames the ones they left alone.  Entries are written by moderators or *)
(* by the nightly batch, which queues a rewrite of every entry whose       *)
(* threads changed and a new entry for every cluster of linked threads     *)
(* that has none.  A worker reads an entry and its threads, writes for     *)
(* minutes, and submits the result with the version it read.               *)
(*                                                                         *)
(* A text is its number in the entry's history.  Outside pages an entry    *)
(* cites, and the queue's leases and retries (Jobs), are left out: a job   *)
(* that is claimed may be claimed again, and then the first answer is      *)
(* refused.                                                                *)
(***************************************************************************)
EXTENDS Naturals, Sequences, FiniteSets, SequencesExt

CONSTANTS Post,       \* threads, by id
          Entry,      \* entries, by id
          MaxTopics,  \* bound: topics ever made (less in some behaviours: plan.topics)
          Plans       \* bound: how a behaviour begins, and which commands people give
                      \* in it, at most plan.steps of them

ASSUME PostAssumption == Post \subseteq Nat \ {0} /\ Entry \subseteq Nat \ {0} /\ IsFiniteSet(Post)
ASSUME BoundAssumption == MaxTopics \in Nat

Topic == 1 .. MaxTopics
NoTopic == [made |-> FALSE, parent |-> 0, merged |-> 0, locked |-> FALSE, namedBy |-> "system"]
NoEntry == [status |-> "none", topic |-> 0, text |-> 0, by |-> "system", locked |-> FALSE,
            stale |-> FALSE, version |-> 1, suggestion |-> FALSE, cites |-> {}, talk |-> 0]

JobKey == ({"faq_rewrite"} \X Entry) \cup ({"faq_new"} \X Post) \cup {<<"outline", 0>>}
NoDraft == [version |-> 0, seen |-> {}, talk |-> 0, topics |-> {}, mains |-> {}, skip |-> FALSE]

VARIABLES topic,    \* faq_topics
          post,     \* threads: status, version, topic tags, whether a person chose them
          linked,   \* active links, as sets of two posts
          entry,    \* faq_entries with their faq_sources (cites) and comments (talk)
          history,  \* faq_history: every text an entry has had, in order
          index,    \* search_fts: the text an entry is found by, 0 if it is not
          job,      \* jobs: done, due or claimed
          draft,    \* what the worker that claimed a job has read
          settled,  \* ghost: what the last answer for an entry was written from
          astray,   \* ghost: a pass merged a topic into one already merged away
          plan, left

outlineVars == <<topic, astray>>
entryVars == <<entry, history, index, settled>>
jobVars == <<job, draft>>
vars == <<topic, post, linked, entry, history, index, job, draft, settled, astray, plan, left>>

(* Somebody gives the command op. *)
Given(op) == op \in plan.ops /\ left > 0 /\ left' = left - 1 /\ UNCHANGED plan
Idle == UNCHANGED <<plan, left>>

Readable(p) == post[p].status \in {"visible", "flagged"}
readablePosts(ps) == {p \in ps : Readable(p)}

-----------------------------------------------------------------------------
(* The outline. *)

(* A topic merged away leads to the one that has its entries now.          *)
liveTopic(topics, t) ==
    LET walk[n \in 0 .. 10] == IF n = 0 THEN t
                               ELSE LET u == walk[n - 1] IN
                                    IF topics[u].merged = 0 THEN u ELSE topics[u].merged
    IN walk[10]

Live(topics, t) == topics[t].made /\ topics[t].merged = 0
Children(topics, t) == {c \in Topic : Live(topics, c) /\ topics[c].parent = t}

(* What pages list: main topics, and the topics under them. *)
MainTopics == {t \in Topic : Live(topic, t) /\ topic[t].parent = 0}
Topics == MainTopics \cup {t \in Topic : Live(topic, t) /\ topic[t].parent \in MainTopics}

(* The FAQ page: entries by topic, and the rest under Other.               *)
faqPage(t) == {e \in Entry : entry[e].status = "active" /\ entry[e].topic = t}
Other == {e \in Entry : entry[e].status # "none" /\ entry[e].topic \notin Topics}

(* Browse by topic: the entries and the threads of a topic and those under *)
(* it.                                                                     *)
topicPage(t) == UNION {faqPage(u) : u \in {t} \cup (Children(topic, t) \cap Topics)}
TopicPosts(t) ==
    {p \in Post : /\ Readable(p)
                  /\ \/ post[p].tags \cap ({t} \cup Children(topic, t)) # {}
                     \/ \E e \in topicPage(t) : p \in entry[e].cites}

CanBeUnder(topics, parent) ==
    parent # 0 => Live(topics, parent) /\ topics[parent].parent = 0

insertTopic(id, parent, byMod) ==
    [topic EXCEPT ![id] = [made |-> TRUE, parent |-> parent, merged |-> 0, locked |-> byMod,
                           namedBy |-> IF byMod THEN "mod" ELSE "system"]]

(* Ids are given out in order. *)
NewId(id) ==
    /\ id \in 1 .. plan.topics /\ ~topic[id].made
    /\ \A t \in Topic : t < id => topic[t].made
NewEntry(e) == entry[e].status = "none" /\ \A x \in Entry : x < e => entry[x].status # "none"

CreateTopic(id, parent) ==
    /\ Given("CreateTopic")
    /\ NewId(id) /\ CanBeUnder(topic, parent)
    /\ topic' = insertTopic(id, parent, TRUE)
    /\ UNCHANGED <<astray, post, linked, entryVars, jobVars>>

(* A mistake: only the new parent is looked at. *)
EditTopicUnder(t, parent) ==
    /\ Given("EditTopic")
    /\ Live(topic, t)
    /\ CanBeUnder(topic, parent) /\ parent # t
    /\ topic' = [topic EXCEPT ![t].parent = parent, ![t].locked = TRUE, ![t].namedBy = "mod"]
    /\ UNCHANGED <<astray, post, linked, entryVars, jobVars>>

EditTopic(t, parent) ==
    /\ Given("EditTopic")
    /\ Live(topic, t)
    /\ parent # 0 => CanBeUnder(topic, parent) /\ Children(topic, t) = {} /\ parent # t
    /\ topic' = [topic EXCEPT ![t].parent = parent, ![t].locked = TRUE, ![t].namedBy = "mod"]
    /\ UNCHANGED <<astray, post, linked, entryVars, jobVars>>

(* One merge of the weekly pass, on what the ones before it left.          *)
LeftAlone(topics, t) == ~Live(topics, t) \/ topics[t].locked

(* A mistake: a pass that takes a moderator's topic.                       *)
MergeableAny(s, m) ==
    /\ m.keep # m.drop /\ Live(s.topic, m.drop)
    /\ liveTopic(s.topic, m.keep) # m.drop
    /\ s.topic[m.keep].parent # m.drop
    /\ Children(s.topic, m.drop) # {} => s.topic[m.keep].parent = 0

Mergeable(s, m) ==
    /\ m.keep # m.drop /\ ~LeftAlone(s.topic, m.drop)
    /\ liveTopic(s.topic, m.keep) # m.drop
    /\ s.topic[m.keep].parent # m.drop
    /\ Children(s.topic, m.drop) # {} => s.topic[m.keep].parent = 0

Moved(topics, m) ==
    [t \in Topic |-> IF t = m.drop THEN [topics[t] EXCEPT !.merged = m.keep]
                     ELSE IF t \in Children(topics, m.drop) THEN [topics[t] EXCEPT !.parent = m.keep]
                     ELSE topics[t]]

Instead(m, t) == IF t = m.drop THEN m.keep ELSE t

Merge(s, m) ==
    IF ~Mergeable(s, m) THEN s
    ELSE [topic |-> Moved(s.topic, m),
          home |-> [e \in Entry |-> Instead(m, s.home[e])],
          tags |-> [p \in Post |-> {Instead(m, t) : t \in s.tags[p]}],
          astray |-> s.astray \/ s.topic[m.keep].merged # 0]

Rename(topics, t) ==
    IF t = 0 \/ LeftAlone(topics, t) THEN topics ELSE [topics EXCEPT ![t].namedBy = "system"]

TidyTopics(merges, rename) ==
    LET s == FoldLeft(Merge, [topic |-> topic, home |-> [e \in Entry |-> entry[e].topic],
                              tags |-> [p \in Post |-> post[p].tags], astray |-> astray], merges)
    IN /\ topic' = Rename(s.topic, rename)
       /\ entry' = [e \in Entry |-> [entry[e] EXCEPT !.topic = s.home[e]]]
       /\ post' = [p \in Post |-> [post[p] EXCEPT !.tags = s.tags[p]]]
       /\ astray' = s.astray

(* setTopics: the digest's tags never replace a person's.                  *)
Tagged(p, ts, byPerson) ==
    IF post[p].manual /\ ~byPerson THEN post
    ELSE [post EXCEPT ![p].tags = {liveTopic(topic, t) : t \in ts},
                      ![p].manual = @ \/ byPerson]

SetPostTopics(p, ts) ==
    /\ Given("SetPostTopics")
    /\ post' = Tagged(p, ts, TRUE)
    /\ UNCHANGED <<outlineVars, linked, entryVars, jobVars>>

(* SetDigest's tags, chosen from the outline as it was a while ago.        *)
TagDigest(p, ts) ==
    /\ Given("SetDigest") /\ Readable(p)
    /\ post' = Tagged(p, ts, FALSE)
    /\ UNCHANGED <<outlineVars, linked, entryVars, jobVars>>

-----------------------------------------------------------------------------
(* Entries. *)

entryChanged(row) == [row EXCEPT !.stale = TRUE, !.version = @ + 1]

addFAQSource(row, p) ==
    IF p \in row.cites THEN row ELSE entryChanged([row EXCEPT !.cites = @ \cup {p}])

(* faqIndex: shown entries are found by the text they have.                *)
faqIndex(e, row) == [index EXCEPT ![e] = IF row.status = "active" THEN row.text ELSE 0]

(* A new text of an entry, and the same written again (a rollback).        *)
NewText(e) == Len(history[e]) + 1
Recorded(e, text) == [history EXCEPT ![e] = Append(@, text)]
ByPerson == [by |-> "person", seen |-> {}, talk |-> 0]

CreateByMod(e, t) ==
    /\ Given("CreateFAQEntry")
    /\ NewEntry(e)
    /\ topic[t].made
    /\ entry' = [entry EXCEPT ![e] = [NoEntry EXCEPT !.status = "active", !.text = 1, !.by = "mod",
                                                     !.topic = liveTopic(topic, t)]]
    /\ history' = Recorded(e, 1)
    /\ index' = [index EXCEPT ![e] = 1]
    /\ settled' = [settled EXCEPT ![e] = ByPerson]
    /\ UNCHANGED <<outlineVars, post, linked, jobVars>>

(* Or under a topic named on the spot, which is then the moderator's.      *)
CreateByModAt(e, id) ==
    /\ Given("CreateFAQEntry")
    /\ NewEntry(e)
    /\ NewId(id)
    /\ topic' = insertTopic(id, 0, TRUE)
    /\ entry' = [entry EXCEPT ![e] = [NoEntry EXCEPT !.status = "active", !.text = 1, !.by = "mod",
                                                     !.topic = id]]
    /\ history' = Recorded(e, 1)
    /\ index' = [index EXCEPT ![e] = 1]
    /\ settled' = [settled EXCEPT ![e] = ByPerson]
    /\ UNCHANGED <<astray, post, linked, jobVars>>

AddFAQSource(e, p) ==
    /\ Given("AddFAQSource")
    /\ entry[e].status = "active" /\ Readable(p)
    /\ entry' = [entry EXCEPT ![e] = addFAQSource(@, p)]
    /\ UNCHANGED <<outlineVars, post, linked, history, index, settled, jobVars>>

RemoveFAQSource(e, p) ==
    /\ Given("RemoveFAQSource")
    /\ entry[e].status # "none"
    /\ entry' = [entry EXCEPT ![e] = entryChanged([@ EXCEPT !.cites = @ \ {p}])]
    /\ UNCHANGED <<outlineVars, post, linked, history, index, settled, jobVars>>

(* The form a moderator sends holds the text of an earlier page, or theirs. *)
FormTexts(e) == 1 .. NewText(e)

EditFAQEntry(e, t, text, lock, hide) ==
    LET changed == text # entry[e].text
        row == [entry[e] EXCEPT !.topic = liveTopic(topic, t), !.text = text, !.locked = lock,
                                !.status = IF hide THEN "hidden" ELSE "active",
                                !.suggestion = FALSE, !.stale = @ /\ ~changed,
                                !.by = IF changed THEN "mod" ELSE @]
    IN /\ Given("EditFAQEntry")
       /\ entry[e].status # "none" /\ topic[t].made
       /\ entry' = [entry EXCEPT ![e] = row]
       /\ history' = IF changed THEN Recorded(e, text) ELSE history
       /\ index' = faqIndex(e, row)
       /\ settled' = IF changed THEN [settled EXCEPT ![e] = ByPerson] ELSE settled
       /\ UNCHANGED <<outlineVars, post, linked, jobVars>>

RollbackFAQEntry(e, text) ==
    /\ Given("RollbackFAQEntry")
    /\ text \in Range(history[e])
    /\ entry' = [entry EXCEPT ![e].text = text, ![e].stale = FALSE, ![e].suggestion = FALSE,
                              ![e].by = "mod"]
    /\ history' = Recorded(e, text)
    /\ index' = faqIndex(e, entry'[e])
    /\ settled' = [settled EXCEPT ![e] = ByPerson]
    /\ UNCHANGED <<outlineVars, post, linked, jobVars>>

(* A comment on an entry, added or taken away.                             *)
AddFAQComment(e) ==
    /\ Given("FAQComment")
    /\ entry[e].status = "active"
    /\ entry' = [entry EXCEPT ![e] = entryChanged([@ EXCEPT !.talk = @ + 1])]
    /\ UNCHANGED <<outlineVars, post, linked, history, index, settled, jobVars>>

RemoveFAQComment(e) ==
    /\ Given("FAQComment")
    /\ entry[e].talk > 0
    /\ entry' = [entry EXCEPT ![e] = entryChanged([@ EXCEPT !.talk = @ + 1])]
    /\ UNCHANGED <<outlineVars, post, linked, history, index, settled, jobVars>>

-----------------------------------------------------------------------------
(* What happens to the threads. *)

(* A mistake: the entry is queued, but an answer under way is not refused. *)
TouchedStale(p) == [e \in Entry |-> IF p \in entry[e].cites THEN [entry[e] EXCEPT !.stale = TRUE] ELSE entry[e]]

(* threadChanged: entries written from the thread are to be rewritten.     *)
Touched(p) == [e \in Entry |-> IF p \in entry[e].cites THEN entryChanged(entry[e]) ELSE entry[e]]

threadChanged(p, to) ==
    /\ post' = [post EXCEPT ![p].status = to, ![p].version = @ + 1]
    /\ entry' = Touched(p)
    /\ UNCHANGED <<outlineVars, linked, history, index, settled, jobVars>>

ChangeThread(p) == Given("ChangeThread") /\ Readable(p) /\ threadChanged(p, post[p].status)

ChangeStatus(p, to) ==
    /\ Given("ChangeStatus")
    /\ post[p].status \notin {"gone", to}
    /\ threadChanged(p, to)

(* A purged post leaves the FAQ's rows about it behind nowhere.            *)
PurgeGroup(p) ==
    /\ Given("ChangeStatus")
    /\ post[p].status = "hidden"
    /\ post' = [post EXCEPT ![p].status = "gone", ![p].tags = {}]
    /\ linked' = {l \in linked : p \notin l}
    /\ entry' = [e \in Entry |-> [entry[e] EXCEPT !.cites = @ \ {p}]]
    /\ job' = [job EXCEPT ![<<"faq_new", p>>] = "done"]
    /\ UNCHANGED <<outlineVars, history, index, settled, draft>>

(* addLink: an entry written from one of two linked threads takes in both. *)
BothCited(row, p, q) ==
    IF row.status = "active" /\ row.cites \cap {p, q} # {}
    THEN addFAQSource(addFAQSource(row, p), q) ELSE row

addLink(p, q) ==
    /\ Given("AddLink")
    /\ p < q /\ {p, q} \notin linked /\ Readable(p) /\ Readable(q)
    /\ linked' = linked \cup {{p, q}}
    /\ entry' = [e \in Entry |-> BothCited(entry[e], p, q)]
    /\ UNCHANGED <<outlineVars, post, history, index, settled, jobVars>>

RemoveLink(p, q) ==
    /\ Given("AddLink")
    /\ {p, q} \in linked
    /\ linked' = linked \ {{p, q}}
    /\ UNCHANGED <<outlineVars, post, entryVars, jobVars>>

-----------------------------------------------------------------------------
(* The nightly batch. *)

(* The visible threads connected to p.                                     *)
Cluster(p) ==
    LET reach[n \in 0 .. Cardinality(Post)] ==
            IF n = 0 THEN {p}
            ELSE reach[n - 1] \cup {q \in Post : /\ post[q].status = "visible"
                                                 /\ \E r \in reach[n - 1] : {q, r} \in linked}
    IN reach[Cardinality(Post)]

Covered(p) == \E e \in Entry : entry[e].status = "active" /\ p \in entry[e].cites

(* Clusters worth an entry, by their oldest thread.                        *)
uncoveredClusters ==
    {p \in Post : LET c == Cluster(p) IN
        /\ post[p].status = "visible" /\ \A q \in c : p <= q
        /\ \A q \in c : ~Covered(q)
        /\ Cardinality(c) > 1 \/ p \in plan.discussed}

Queued(weekly) ==
    {<<"faq_rewrite", e>> : e \in {x \in Entry : entry[x].stale /\ entry[x].status = "active"}}
    \cup {<<"faq_new", p>> : p \in uncoveredClusters}
    \cup (IF weekly THEN {<<"outline", 0>>} ELSE {})

QueueGroupFAQ(weekly) ==
    /\ weekly => "weekly" \in plan.ops
    /\ \E k \in Queued(weekly) : job[k] = "done"
    /\ job' = [k \in JobKey |-> IF k \in Queued(weekly) /\ job[k] = "done" THEN "due" ELSE job[k]]
    /\ UNCHANGED <<outlineVars, post, linked, entryVars, draft>> /\ Idle

-----------------------------------------------------------------------------
(* Workers. *)

Versions(ps) == {<<p, post[p].version>> : p \in {q \in ps : post[q].status = "visible"}}

(* A rewrite of an entry nobody sees is answered with "no change".         *)
ReadEntry(e) ==
    [version |-> entry[e].version, seen |-> Versions(entry[e].cites), talk |-> entry[e].talk,
     topics |-> {}, mains |-> {}, skip |-> entry[e].status # "active"]

(* A new entry is checked against its oldest thread only; and when that is *)
(* not shown now the answer carries no version.                            *)
ReadCluster(p) ==
    IF post[p].status = "visible"
    THEN [version |-> post[p].version, seen |-> Versions(Cluster(p)), talk |-> 0,
          topics |-> Topics, mains |-> MainTopics, skip |-> FALSE]
    ELSE [NoDraft EXCEPT !.skip = TRUE]

ReadOutline ==
    [NoDraft EXCEPT !.topics = Topics, !.mains = MainTopics, !.skip = Cardinality(Topics) < 4]

(* A job that is due, or whose worker has had it for too long.             *)
ClaimJob(k) ==
    /\ job[k] \in {"due", "claimed"}
    /\ job' = [job EXCEPT ![k] = "claimed"]
    /\ draft' = [draft EXCEPT ![k] = CASE k[1] = "faq_rewrite" -> ReadEntry(k[2])
                                       [] k[1] = "faq_new" -> ReadCluster(k[2])
                                       [] k[1] = "outline" -> ReadOutline]
    /\ UNCHANGED <<outlineVars, post, linked, entryVars>> /\ Idle

(* finishJob: an answer for another version is thrown away, and the job    *)
(* stays due.                                                              *)
Current(k) == CASE k[1] = "faq_rewrite" -> entry[k[2]].version
                [] k[1] = "faq_new" -> post[k[2]].version
                [] k[1] = "outline" -> 0
Fits(k) == draft[k].version = Current(k)

Answer(k, next) ==
    /\ job[k] = "claimed"
    /\ job' = [job EXCEPT ![k] = next]
    /\ draft' = [draft EXCEPT ![k] = NoDraft]
    /\ Idle

Refuse(k) ==
    /\ Answer(k, "due") /\ ~Fits(k)
    /\ UNCHANGED <<outlineVars, post, linked, entryVars>>

(* SetFAQAnswer. Threads that are not shown leave the entry; a locked one  *)
(* gets a suggestion.                                                      *)
Rewritten(e, changed) ==
    LET row == [entry[e] EXCEPT !.cites = readablePosts(@), !.stale = FALSE] IN
    CASE ~changed -> row
      [] changed /\ row.locked -> [row EXCEPT !.suggestion = TRUE]
      [] OTHER -> [row EXCEPT !.text = NewText(e), !.by = "system"]

(* There is something to write from. *)
FAQRewrite(k) == ~draft[k].skip /\ draft[k].seen # {}

SetFAQAnswer(e, changed) ==
    LET k == <<"faq_rewrite", e>>
        row == Rewritten(e, changed)
        d == draft[k]
    IN /\ Answer(k, "done") /\ Fits(k)
       /\ changed => FAQRewrite(k)
       /\ entry' = [entry EXCEPT ![e] = row]
       /\ IF row.text = entry[e].text THEN UNCHANGED <<history, index>>
          ELSE history' = Recorded(e, row.text) /\ index' = faqIndex(e, row)
       /\ settled' = [settled EXCEPT ![e] = [by |-> IF d.skip THEN "skipped" ELSE "system",
                                             seen |-> d.seen, talk |-> d.talk]]
       /\ UNCHANGED <<outlineVars, post, linked>>

(* CreateFAQEntry from a job: nothing to write, ...                        *)
Drafted(k) == readablePosts({s[1] : s \in draft[k].seen})

CreateNothing(p) ==
    LET k == <<"faq_new", p>> IN
    /\ Answer(k, "done") /\ Fits(k)
    /\ UNCHANGED <<outlineVars, post, linked, entryVars>>

(* A mistake: nobody looks. *)
TakenNever(k) == {}

(* ... threads another entry has taken meanwhile join that one, ...        *)
Taken(k) == {e \in Entry : entry[e].status = "active" /\ entry[e].cites \cap Drafted(k) # {}}

CreateJoins(p, e) ==
    LET k == <<"faq_new", p>>
        new == Drafted(k) \ entry[e].cites
    IN /\ Answer(k, "done") /\ Fits(k)
       /\ e \in Taken(k)
       /\ entry' = [entry EXCEPT ![e] =
                      IF new = {} THEN @
                      ELSE [@ EXCEPT !.cites = @ \cup new, !.stale = TRUE,
                                     !.version = @ + Cardinality(new)]]
       /\ UNCHANGED <<outlineVars, post, linked, history, index, settled>>

(* ... or a new entry, under a topic of the outline that was read or under *)
(* one made for it, which the weekly pass may tidy.                        *)
FAQNew(k, t, parent) ==
    IF NewId(t) THEN parent \in draft[k].mains \cup {0} ELSE parent = 0 /\ t \in draft[k].topics

CreateFAQEntry(p, e, t, parent) ==
    LET k == <<"faq_new", p>>
        own == NewId(t)
    IN /\ Answer(k, "done") /\ Fits(k)
       /\ Drafted(k) # {} /\ Taken(k) = {} /\ NewEntry(e)
       /\ FAQNew(k, t, parent) /\ CanBeUnder(topic, parent)
       /\ topic' = IF own THEN insertTopic(t, parent, FALSE) ELSE topic
       /\ entry' = [entry EXCEPT ![e] =
                      [NoEntry EXCEPT !.status = "active", !.text = 1, !.cites = Drafted(k),
                                      !.topic = liveTopic(topic', t)]]
       /\ history' = Recorded(e, 1)
       /\ index' = [index EXCEPT ![e] = 1]
       /\ settled' = [settled EXCEPT ![e] = [by |-> "new", talk |-> 0,
                                             seen |-> {<<p, draft[k].version>>}]]
       /\ UNCHANGED <<astray, post, linked>>

(* The topic chosen as parent is no main topic any more: the command       *)
(* fails, and with it the closing of the job.                              *)
CreateFails(p) ==
    LET k == <<"faq_new", p>> IN
    /\ Answer(k, "due") /\ Fits(k)
    /\ Drafted(k) # {} /\ Taken(k) = {}
    /\ \E t \in draft[k].mains : ~CanBeUnder(topic, t)
    /\ UNCHANGED <<outlineVars, post, linked, entryVars>>

(* Outline: the model's answer, in topics of the outline that was read.    *)
TidyAnswer(merges, rename) ==
    LET k == <<"outline", 0>> IN
    /\ Answer(k, "done")
    /\ draft[k].skip => merges = <<>> /\ rename = 0
    /\ TidyTopics(merges, rename)
    /\ UNCHANGED <<linked, history, index, settled>>

-----------------------------------------------------------------------------
Init ==
    /\ plan \in Plans /\ left = plan.steps
    /\ topic = [t \in Topic |-> IF t \in DOMAIN plan.outline THEN plan.outline[t] ELSE NoTopic]
    /\ post = [p \in Post |-> [status |-> "visible", version |-> 1, tags |-> {}, manual |-> FALSE]]
    /\ linked = {} /\ astray = FALSE
    /\ entry = [e \in Entry |-> NoEntry]
    /\ history = [e \in Entry |-> <<>>]
    /\ index = [e \in Entry |-> 0]
    /\ settled = [e \in Entry |-> ByPerson]
    /\ job = [k \in JobKey |-> "done"]
    /\ draft = [k \in JobKey |-> NoDraft]

(* bound: a pass makes up to two merges, or one and a name.                *)
Outline(ts) == {m \in [keep : ts, drop : ts] : m.keep # m.drop}
Pairs(ts) == Outline(ts) \X Outline(ts)
Passes(ts) == {<<>>} \cup {<<m>> : m \in Outline(ts)}

(* The pages people act from. *)
topicCreate == \E t \in Topic, u \in Topic \cup {0} : CreateTopic(t, u)
topicEdit == \E t \in Topic, u \in Topic \cup {0} : EditTopic(t, u)
postTopics == \E p \in Post, t \in {u \in Topic : topic[u].made} : SetPostTopics(p, {t})

(* With no topic chosen, one named on the form is made.                    *)
entryNew == \E e \in Entry, t \in Topic : CreateByMod(e, t) \/ CreateByModAt(e, t)
entryEdit ==
    \E e \in Entry, t \in Topic, lock, hide \in BOOLEAN :
        \E text \in FormTexts(e) : EditFAQEntry(e, t, text, lock, hide)
entryRollback == \E e \in Entry : \E text \in Range(history[e]) : RollbackFAQEntry(e, text)
entryUnsource == \E e \in Entry, p \in Post : RemoveFAQSource(e, p)
entryComment == \E e \in Entry : AddFAQComment(e)
entryCommentDelete == \E e \in Entry : RemoveFAQComment(e)

People ==
    \/ topicCreate \/ topicEdit \/ postTopics
    \/ entryNew \/ entryEdit \/ entryRollback \/ entryUnsource
    \/ entryComment \/ entryCommentDelete
    \/ \E e \in Entry, p \in Post : AddFAQSource(e, p)

Threads ==
    \E p \in Post :
        \/ ChangeThread(p) \/ PurgeGroup(p)
        \/ \E t \in {u \in Topic : topic[u].made} : TagDigest(p, {t})
        \/ \E to \in {"visible", "flagged", "hidden"} : ChangeStatus(p, to)
        \/ \E q \in Post : addLink(p, q) \/ RemoveLink(p, q)

FinishNew(p) ==
    \/ CreateNothing(p) \/ CreateFails(p)
    \/ \E e \in Entry : CreateJoins(p, e)
    \/ \E e \in Entry, t \in Topic, parent \in Topic \cup {0} : CreateFAQEntry(p, e, t, parent)

Finish(k) ==
    \/ Refuse(k)
    \/ \E e \in Entry : k = <<"faq_rewrite", e>> /\ \E changed \in BOOLEAN : SetFAQAnswer(e, changed)
    \/ \E p \in Post : k = <<"faq_new", p>> /\ FinishNew(p)
    \/ /\ k = <<"outline", 0>> /\ job[k] = "claimed"
       /\ LET ts == draft[k].topics IN
          \/ \E merges \in Pairs(ts) : TidyAnswer(merges, 0)
          \/ \E rename \in ts \cup {0}, merges \in Passes(ts) : TidyAnswer(merges, rename)

Work == \E k \in JobKey : ClaimJob(k) \/ Finish(k)

Next == People \/ Threads \/ (\E w \in BOOLEAN : QueueGroupFAQ(w)) \/ Work

Spec == Init /\ [][Next]_vars

-----------------------------------------------------------------------------
(* Everything can be found from the outline, whatever the weekly pass and  *)
(* moderators do to it in between: it stays two levels deep, every merged  *)
(* topic leads to one that is on it, every live topic is, and every shown  *)
(* entry and every tagged or cited thread is on the page of a main topic.  *)
(* Except after a pass that merged a topic into one which the same pass    *)
(* had merged away: what was on it moves to the dead one (TidyTopics does  *)
(* not follow merges), and entries are then listed under Other.  A shown   *)
(* entry is found by the text it has, whoever wrote it, and that is the    *)
(* last in its history, so the one before can be had back.                 *)
Findable ==
    /\ \A e \in Entry :
          /\ entry[e].status # "none" => entry[e].text = Last(history[e])
          /\ index[e] = IF entry[e].status = "active" THEN entry[e].text ELSE 0
    /\ \A t \in Topic : topic[t].made => Live(topic, liveTopic(topic, t))
    /\ \/ astray
       \/ /\ \A t \in Topic : Live(topic, t) => t \in Topics
          /\ Other = {}
          /\ UNION {topicPage(t) : t \in MainTopics} = {e \in Entry : entry[e].status = "active"}
          /\ \A p \in Post : Readable(p) /\ (post[p].tags # {} \/ Covered(p)) =>
                 \E t \in MainTopics : p \in TopicPosts(t)

(* What a moderator decided is theirs to change: a topic they made or      *)
(* named keeps its name and is never merged, and the text of an entry they *)
(* locked stays, even when a rewrite was under way as they locked it.      *)
ModsWordStands ==
    [][/\ \A t \in Topic : topic[t].made /\ topic[t].namedBy = "mod" =>
              topic'[t].namedBy = "mod" /\ topic'[t].merged = 0
       /\ \A e \in Entry : entry[e].locked /\ entry'[e].locked /\ entry'[e].text # entry[e].text =>
              entry'[e].by = "mod"]_vars

(* An entry that is not waiting to be rewritten says what its threads said *)
(* when they last changed: an answer was written from the versions they    *)
(* have now, and from all of them.  (A new entry: from its oldest thread;  *)
(* one hidden while its rewrite was queued: not so, see the README.)       *)
KeepsUp ==
    \A e \in Entry :
        LET now == Versions(entry[e].cites)
        IN entry[e].status = "active" /\ ~entry[e].stale =>
            /\ settled[e].by = "system" => settled[e].seen = now /\ settled[e].talk = entry[e].talk
            /\ settled[e].by = "new" => settled[e].seen \subseteq now

(* A thread is never written up twice by the batch: an entry it makes      *)
(* shares no thread with one that already shows.                           *)
NoDuplicate ==
    [][\A e \in Entry : entry[e].status = "none" /\ entry'[e].status # "none" /\ entry'[e].by = "system" =>
           \A x \in Entry : entry[x].status = "active" => entry[x].cites \cap entry'[e].cites = {}]_vars
=============================================================================
