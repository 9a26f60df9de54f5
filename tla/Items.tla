------------------------------- MODULE Items --------------------------------
(***************************************************************************)
(* The posts and comments of one group, and what is kept in step with who  *)
(* may see them: the search index, each post's comment count, and what its *)
(* sister groups were told of it (internal/cmd/posts.go, moderation.go,    *)
(* archive.go, purge.go, and the part of links.go and sources.go that      *)
(* changes an item).                                                       *)
(*                                                                         *)
(* Commands are applied one at a time, in the log's order, but each was    *)
(* submitted by a page, a worker or a relay that saw an older state, so    *)
(* any may be applied at any time; the guards are what Apply checks.  A    *)
(* command that changes none of these tables is not a step.                *)
(*                                                                         *)
(* Who votes, and how many, is left out: Vote is its outcome.  The job     *)
(* rows that decide whether a check's result counts are in Jobs.           *)
(***************************************************************************)
EXTENDS Naturals, FiniteSets

CONSTANTS
    Post, Comment,
    Archive,        \* the posts and comments that an archive import brings
    On,             \* On[c]: the post that comment c is on
    Under,          \* Under[c]: the top comment that c replies to, or Nothing
    Nothing,
    MaxText         \* bound: versions of an item's text, one item at a time

Item == Post \cup Comment

ASSUME ItemAssumption ==
    /\ IsFiniteSet(Item) /\ Post \cap Comment = {} /\ Archive \subseteq Item
    /\ On \in [Comment -> Post] /\ \A c \in Comment \cap Archive : On[c] \in Archive
    /\ Under \in [Comment -> Comment \cup {Nothing}]
    /\ Nothing \notin Item /\ MaxText \in Nat \ {0}

VARIABLES
    status,     \* per item: its status; "none" and "purged": it has no row
    text,       \* per item: the version of its text
    cleared,    \* per item: ai_cleared
    indexed,    \* per item: the text in search_fts (0: no row)
    count,      \* per post: comment_count
    locked,     \* per post
    linked,     \* per post: it has an active row in sister_links
    told        \* per post: it is linked, and its sisters were last told to show
                \* the notes written from it

vars == <<status, text, cleared, indexed, count, locked, linked, told>>
postVars == <<locked, linked>>

Gone == {"removed", "deleted"}
Shown(s) == s \in {"visible", "flagged"}
Exists(i) == status[i] \notin {"none", "purged"}
PostOf(i) == IF i \in Post THEN i ELSE On[i]

Init ==
    /\ status = [i \in Item |-> "none"]
    /\ text = [i \in Item |-> 0]
    /\ cleared = [i \in Item |-> FALSE]
    /\ indexed = [i \in Item |-> 0]
    /\ count = [p \in Post |-> 0]
    /\ locked = [p \in Post |-> FALSE]
    /\ linked = [p \in Post |-> FALSE]
    /\ told = [p \in Post |-> FALSE]

-----------------------------------------------------------------------------
(* The bound on changes to the text. *)
MayChange(i) == text[i] < MaxText /\ \A j \in Item \ {i} : text[j] <= 1

(* What a change of status takes along. *)

Reindexed(i, to) == [indexed EXCEPT ![i] = IF Shown(to) THEN text[i] ELSE 0]

(* comment_count, when comment i goes from one status to another. *)
Recounted(i, from, to) ==
    IF i \in Post \/ Shown(from) = Shown(to) THEN count
    ELSE [count EXCEPT ![On[i]] = IF Shown(to) THEN @ + 1 ELSE @ - 1]

(* A mistake: sisters hear of what is hidden, not of what comes back. *)
RetoldHidden(i, from, to) ==
    IF i \in Post /\ linked[i] /\ Shown(from) /\ ~Shown(to)
    THEN [told EXCEPT ![i] = FALSE] ELSE told

(* sendSisterNotes, to the groups that sisterRefs finds. *)
Retold(i, from, to) ==
    IF i \in Post /\ linked[i] /\ Shown(from) # Shown(to)
    THEN [told EXCEPT ![i] = Shown(to)] ELSE told

ChangeStatus(i, to) ==
    IF status[i] = to THEN UNCHANGED <<status, indexed, count, told>>
    ELSE /\ status' = [status EXCEPT ![i] = to]
         /\ indexed' = Reindexed(i, to)
         /\ count' = Recounted(i, status[i], to)
         /\ told' = Retold(i, status[i], to)

-----------------------------------------------------------------------------
(* Members' posts and comments. *)

(* A newcomer's first post may be held (firstPostStatus). *)
CreatePost(p, s) ==
    /\ p \notin Archive /\ status[p] = "none" /\ s \in {"visible", "held"}
    /\ status' = [status EXCEPT ![p] = s]
    /\ text' = [text EXCEPT ![p] = 1]
    /\ indexed' = [indexed EXCEPT ![p] = IF s = "visible" THEN 1 ELSE 0]
    /\ UNCHANGED <<cleared, count, postVars, told>>

(* A reply to a reply goes under the same top comment. *)
Answers(c, x) == Exists(x) /\ (x = Under[c] \/ (Under[c] # Nothing /\ Under[x] = Under[c]))

CreateComment(c) ==
    /\ c \notin Archive /\ status[c] = "none"
    /\ Shown(status[On[c]]) /\ ~locked[On[c]]
    /\ Under[c] # Nothing => \E x \in Comment : Answers(c, x)
    /\ status' = [status EXCEPT ![c] = "visible"]
    /\ text' = [text EXCEPT ![c] = 1]
    /\ indexed' = [indexed EXCEPT ![c] = 1]
    /\ count' = [count EXCEPT ![On[c]] = @ + 1]
    /\ UNCHANGED <<cleared, postVars, told>>

(* A mistake: whatever is edited becomes searchable. *)
EditAndIndex(i) ==
    /\ i \notin Archive /\ Exists(i) /\ status[i] \notin Gone /\ MayChange(i)
    /\ text' = [text EXCEPT ![i] = @ + 1]
    /\ indexed' = [indexed EXCEPT ![i] = text[i] + 1]
    /\ UNCHANGED <<status, cleared, count, postVars, told>>

(* By the author: imported items have none. *)
Edit(i) ==
    /\ i \notin Archive /\ Exists(i) /\ status[i] \notin Gone /\ MayChange(i)
    /\ text' = [text EXCEPT ![i] = @ + 1]
    /\ indexed' = IF Shown(status[i]) THEN [indexed EXCEPT ![i] = text[i] + 1] ELSE indexed
    /\ UNCHANGED <<status, cleared, count, postVars, told>>

EditPost(p) == p \in Post /\ Edit(p)
EditComment(c) == c \in Comment /\ Edit(c)

(* SoftDelete, by the author or a moderator. *)
SoftDelete(i, to) ==
    /\ to \in Gone /\ (to = "deleted" => i \notin Archive)
    /\ Exists(i) /\ status[i] \notin Gone
    /\ ChangeStatus(i, to)
    /\ UNCHANGED <<text, cleared, postVars>>

(* A mistake: a flagged comment was already counted. *)
RestoreCounts(i) ==
    /\ Exists(i) /\ status[i] # "visible"
    /\ status' = [status EXCEPT ![i] = "visible"]
    /\ indexed' = Reindexed(i, "visible")
    /\ count' = IF i \in Comment THEN [count EXCEPT ![On[i]] = @ + 1] ELSE count
    /\ told' = IF i \in Post /\ linked[i] THEN [told EXCEPT ![i] = TRUE] ELSE told
    /\ UNCHANGED <<text, cleared, postVars>>

Restore(i) ==
    /\ Exists(i) /\ status[i] # "visible"
    /\ status' = [status EXCEPT ![i] = "visible"]
    /\ indexed' = Reindexed(i, "visible")
    /\ count' = IF i \in Comment /\ status[i] # "flagged"
                THEN [count EXCEPT ![On[i]] = @ + 1] ELSE count
    /\ told' = IF i \in Post /\ linked[i] THEN [told EXCEPT ![i] = TRUE] ELSE told
    /\ UNCHANGED <<text, cleared, postVars>>

-----------------------------------------------------------------------------
(* Moderation. *)

(* A mistake: a check that ignores what members or moderators decided. *)
FlaggableAgain(i) == Shown(status[i])
Flaggable(i) == Shown(status[i]) /\ ~cleared[i]

(* applyVerdict. *)
ApplyVerdict(i, verdict) ==
    IF Flaggable(i) /\ verdict # "clear"
    THEN ChangeStatus(i, IF verdict = "violation" THEN "auto_hidden" ELSE "flagged")
    ELSE UNCHANGED <<status, indexed, count, told>>

SetCommentCheck(c, verdict) ==
    /\ c \in Comment /\ Exists(c)
    /\ ApplyVerdict(c, verdict)
    /\ UNCHANGED <<text, cleared, postVars>>

(* SetCheck, which also links the post to a sister's, unless its verdict   *)
(* was "violation" or the post is not shown.                               *)
SetCheck(p, verdict, match) ==
    /\ p \in Post /\ Exists(p)
    /\ IF match /\ verdict # "violation" /\ Shown(status[p])
       THEN /\ linked' = [linked EXCEPT ![p] = TRUE]
            /\ told' = [told EXCEPT ![p] = TRUE]
            /\ IF Flaggable(p) /\ verdict = "borderline"
               THEN status' = [status EXCEPT ![p] = "flagged"] /\ indexed' = Reindexed(p, "flagged")
               ELSE UNCHANGED <<status, indexed>>
            /\ UNCHANGED count
       ELSE ApplyVerdict(p, verdict) /\ UNCHANGED linked
    /\ UNCHANGED <<text, cleared, locked>>

Approve(i) ==
    /\ Exists(i) /\ status[i] \notin Gone
    /\ ChangeStatus(i, "visible")
    /\ cleared' = [cleared EXCEPT ![i] = TRUE]
    /\ UNCHANGED <<text, postVars>>

Report(i) ==
    /\ status[i] = "visible" /\ ~cleared[i]
    /\ ChangeStatus(i, "flagged")
    /\ UNCHANGED <<text, cleared, postVars>>

(* The vote that decides: hide, or keep. *)
Vote(i, keep) ==
    /\ status[i] = "flagged"
    /\ ChangeStatus(i, IF keep THEN "visible" ELSE "auto_hidden")
    /\ cleared' = IF keep THEN [cleared EXCEPT ![i] = TRUE] ELSE cleared
    /\ UNCHANGED <<text, postVars>>

SetLocked(p, on) ==
    /\ Exists(p) /\ locked[p] # on
    /\ locked' = [locked EXCEPT ![p] = on]
    /\ UNCHANGED <<status, text, cleared, indexed, count, linked, told>>

-----------------------------------------------------------------------------
(* Sister groups, as far as they matter here: the other side's check links *)
(* its post to this one (PutSisterSide), and a link is rejected or its     *)
(* pairing ends (RemoveSisterLink, DropSisterLinks).                       *)
SisterLink(p) ==
    /\ Shown(status[p]) /\ ~linked[p]
    /\ linked' = [linked EXCEPT ![p] = TRUE]
    /\ told' = [told EXCEPT ![p] = TRUE]
    /\ UNCHANGED <<status, text, cleared, indexed, count, locked>>

SisterUnlink(p) ==
    /\ linked[p]
    /\ linked' = [linked EXCEPT ![p] = FALSE]
    /\ told' = [told EXCEPT ![p] = FALSE]
    /\ UNCHANGED <<status, text, cleared, indexed, count, locked>>

-----------------------------------------------------------------------------
(* PurgeGroup, when the time of the items in old has come.  A post takes   *)
(* its comments along; a comment does not take its replies.                *)
PurgeGroup(old) ==
    LET going == {i \in Item : Exists(i) /\ (i \in old \/ PostOf(i) \in old)}
        posts == going \cap Post
    IN  /\ old # {} /\ old \subseteq {i \in Item : status[i] \in Gone}
        /\ text' = [i \in Item |-> IF i \in going THEN 0 ELSE text[i]]
        /\ cleared' = [i \in Item |-> cleared[i] /\ i \notin going]
        /\ status' = [i \in Item |-> IF i \in going THEN "purged" ELSE status[i]]
        /\ indexed' = [i \in Item |-> IF PostOf(i) \in posts THEN 0 ELSE indexed[i]]
        /\ count' = [p \in Post |-> IF p \in posts THEN 0 ELSE count[p]]
        /\ locked' = [p \in Post |-> locked[p] /\ p \notin posts]
        /\ linked' = [p \in Post |-> linked[p] /\ p \notin posts]
        /\ told' = [p \in Post |-> told[p] /\ p \notin posts]

-----------------------------------------------------------------------------
(* The archive. *)

(* ImportPost: the thread is new, or it is updated; a post that was taken  *)
(* down keeps it out, a comment that was taken down stays that way.  Since *)
(* the last import the text of one item has changed, or of none.           *)
ImportPost(p, changed) ==
    LET thread == {i \in Archive : PostOf(i) = p}
        written == {i \in thread : ~Exists(i) \/ Shown(status[i])}
        version(i) == IF ~Exists(i) THEN 1
                      ELSE IF i = changed THEN text[i] + 1 ELSE text[i]
    IN  /\ p \in Archive
        /\ ~Exists(p) \/ Shown(status[p])
        /\ changed # Nothing => changed \in thread /\ Exists(changed) /\ MayChange(changed)
        /\ status' = [i \in Item |-> IF i \in written /\ ~Exists(i) THEN "visible" ELSE status[i]]
        /\ text' = [i \in Item |-> IF i \in written THEN version(i) ELSE text[i]]
        /\ indexed' = [i \in Item |-> IF i \in written THEN version(i) ELSE indexed[i]]
        /\ count' = [count EXCEPT ![p] =
                       Cardinality({c \in Comment : On[c] = p /\ Shown(status'[c])})]
        /\ locked' = IF Exists(p) THEN locked ELSE [locked EXCEPT ![p] = TRUE]
        /\ UNCHANGED <<cleared, linked, told>>

(* RequestArchiveRemoval: anyone may ask, and it happens at once.  The     *)
(* whole thread leaves the index; the sister groups are told nothing.      *)
RequestArchiveRemoval(p) ==
    /\ p \in Archive /\ Exists(p) /\ status[p] \notin Gone
    /\ status' = [status EXCEPT ![p] = "removed"]
    /\ indexed' = [i \in Item |-> IF PostOf(i) = p THEN 0 ELSE indexed[i]]
    /\ UNCHANGED <<text, cleared, count, postVars, told>>

Next ==
    \/ \E p \in Post :
         \/ \E s \in {"visible", "held"} : CreatePost(p, s)
         \/ \E verdict \in {"clear", "borderline", "violation"}, match \in BOOLEAN :
               SetCheck(p, verdict, match)
         \/ \E on \in BOOLEAN : SetLocked(p, on)
         \/ SisterLink(p) \/ SisterUnlink(p)
         \/ \E changed \in Item \cup {Nothing} : ImportPost(p, changed)
         \/ EditPost(p) \/ RequestArchiveRemoval(p)
    \/ \E c \in Comment :
         \/ CreateComment(c) \/ EditComment(c)
         \/ \E verdict \in {"borderline", "violation"} : SetCommentCheck(c, verdict)
    \/ \E i \in Item :
         \/ Restore(i) \/ Approve(i) \/ Report(i)
         \/ \E to \in Gone : SoftDelete(i, to)
         \/ \E keep \in BOOLEAN : Vote(i, keep)
    \/ \E old \in SUBSET {i \in Item : status[i] \in Gone} : PurgeGroup(old)

Spec == Init /\ [][Next]_vars

-----------------------------------------------------------------------------
(* A post's comment_count, which nothing recomputes but an import, is the  *)
(* number of its comments that are shown, whichever of eight commands      *)
(* changed their status, from whichever status.                            *)
CountExact ==
    \A p \in Post : Exists(p) =>
        count[p] = Cardinality({c \in Comment : On[c] = p /\ Shown(status[c])})

(* What is shown can be found by its current text, and nothing else can be *)
(* found: "Shown is what's searchable" (moderation.go, its head comment).  *)
(* The comments on an archive thread may be missing from the index, after  *)
(* a removal request that a moderator undid.                               *)
Searchable ==
    \A i \in Item :
        \/ indexed[i] = IF Shown(status[i]) THEN text[i] ELSE 0
        \/ i \in Comment /\ On[i] \in Archive /\ indexed[i] = 0

(* What a moderator approved, or the members voted to keep, is never again *)
(* flagged or hidden without a moderator or its author: a report, a check  *)
(* that was under way, or an edit does not reopen it (ai_cleared).         *)
ClearedStays ==
    \A i \in Item : cleared[i] => status[i] \notin {"flagged", "auto_hidden", "held"}

(* Sister groups linked to a post were last told what it is now: shown, or *)
(* not.  (Not so for a removed archive thread, which nobody tells them of.) *)
SistersTold ==
    \A p \in Post \ Archive : linked[p] => told[p] = Shown(status[p])

=============================================================================
