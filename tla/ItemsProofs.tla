---------------------------- MODULE ItemsProofs -----------------------------
(***************************************************************************)
(* Proofs about posts and comments, for any threads and texts.             *)
(*                                                                         *)
(* The four properties are nearly inductive: they need only that what has  *)
(* no row has nothing else either, and that a comment has a post (Rows).   *)
(* Most commands change one item, each in its own way; OneItem says what   *)
(* all of them have to get right, and Recount that a comment which comes   *)
(* into view or leaves it changes its post's number by one.                *)
(***************************************************************************)
EXTENDS Items, FiniteSetTheorems, TLAPS

USE ItemAssumption

Live == {"visible", "held", "flagged", "auto_hidden", "removed", "deleted"}

TypeOK ==
    /\ status \in [Item -> Live \cup {"none", "purged"}]
    /\ text \in [Item -> Nat] /\ indexed \in [Item -> Nat]
    /\ cleared \in [Item -> BOOLEAN]
    /\ count \in [Post -> Nat]
    /\ locked \in [Post -> BOOLEAN]
    /\ linked \in [Post -> BOOLEAN] /\ told \in [Post -> BOOLEAN]

ShownOn(st, p) == {c \in Comment : On[c] = p /\ Shown(st[c])}
Counted(st, n) == \A p \in Post : n[p] = Cardinality(ShownOn(st, p))

Rows == /\ \A i \in Item : cleared[i] => Exists(i)
        /\ \A p \in Post : linked[p] => Exists(p)
        /\ \A c \in Comment : Exists(c) => Exists(On[c])

IInv == TypeOK /\ Rows /\ Counted(status, count) /\ Searchable /\ ClearedStays /\ SistersTold

(***************************************************************************)
(* Counting                                                                *)
(***************************************************************************)

(* There are so many comments as can be counted.                           *)
LEMMA Countable ==
  ASSUME NEW st, NEW p
  PROVE  IsFiniteSet(ShownOn(st, p)) /\ Cardinality(ShownOn(st, p)) \in Nat
<1>1. ShownOn(st, p) \subseteq Item
  BY DEF ShownOn, Item
<1>2. IsFiniteSet(ShownOn(st, p))
  BY <1>1, FS_Subset
<1>. QED BY <1>2, FS_CardinalityType

(* Counts that are those of shown comments are numbers.                    *)
LEMMA CountsAreNumbers ==
  ASSUME NEW st, NEW n, DOMAIN n = Post, n = [p \in Post |-> n[p]], Counted(st, n)
  PROVE  n \in [Post -> Nat]
<1>1. \A p \in Post : n[p] \in Nat
  BY Countable DEF Counted
<1>. QED BY <1>1

(* Counts stay exact when one item goes from one status to another and its *)
(* post's count goes up by one if it comes into view, and down if it       *)
(* leaves.                                                                 *)
LEMMA Recount ==
  ASSUME NEW st \in [Item -> Live \cup {"none", "purged"}], NEW n \in [Post -> Nat],
         Counted(st, n), NEW i \in Item, NEW to \in Live
  PROVE  Counted([st EXCEPT ![i] = to],
                 IF i \in Post \/ Shown(st[i]) = Shown(to) THEN n
                 ELSE [n EXCEPT ![On[i]] = IF Shown(to) THEN @ + 1 ELSE @ - 1])
<1>. DEFINE st2 == [st EXCEPT ![i] = to]
            n2 == IF i \in Post \/ Shown(st[i]) = Shown(to) THEN n
                  ELSE [n EXCEPT ![On[i]] = IF Shown(to) THEN @ + 1 ELSE @ - 1]
<1>0. st2[i] = to /\ \A j \in Item : j # i => st2[j] = st[j]
  OBVIOUS
<1>. SUFFICES ASSUME NEW p \in Post PROVE n2[p] = Cardinality(ShownOn(st2, p))
  BY DEF Counted
<1>1. n[p] = Cardinality(ShownOn(st, p)) /\ n[p] \in Nat
  BY DEF Counted
<1>. HIDE DEF st2
<1>2. CASE i \in Post \/ Shown(st[i]) = Shown(to) \/ On[i] # p
  <2>1. \A c \in Comment : On[c] = p => (Shown(st2[c]) <=> Shown(st[c]))
    BY <1>0, <1>2 DEF Item, Shown
  <2>2. ShownOn(st2, p) = ShownOn(st, p)
    BY <2>1 DEF ShownOn
  <2>3. n2[p] = n[p]
    BY <1>2
  <2>. QED BY <1>1, <2>2, <2>3
<1>3. CASE i \notin Post /\ Shown(st[i]) # Shown(to) /\ On[i] = p
  <2>1. i \in Comment
    BY <1>3 DEF Item
  <2>2. n2[p] = IF Shown(to) THEN n[p] + 1 ELSE n[p] - 1
    BY <1>3
  <2>. HIDE DEF n2
  <2>3. CASE Shown(to)
    <3>1. ShownOn(st2, p) = ShownOn(st, p) \cup {i} /\ i \notin ShownOn(st, p)
      BY <1>0, <1>3, <2>1, <2>3 DEF ShownOn, Item, Shown
    <3>2. Cardinality(ShownOn(st, p) \cup {i}) = Cardinality(ShownOn(st, p)) + 1
      BY <3>1, Countable, FS_AddElement
    <3>3. n2[p] = n[p] + 1
      BY <2>2, <2>3
    <3>. QED BY <1>1, <3>1, <3>2, <3>3
  <2>4. CASE ~Shown(to)
    <3>1. ShownOn(st2, p) = ShownOn(st, p) \ {i} /\ i \in ShownOn(st, p)
      BY <1>0, <1>3, <2>1, <2>4 DEF ShownOn, Item, Shown
    <3>2. Cardinality(ShownOn(st, p) \ {i}) = Cardinality(ShownOn(st, p)) - 1
      BY <3>1, Countable, FS_RemoveElement
    <3>3. n2[p] = n[p] - 1
      BY <2>2, <2>4
    <3>. QED BY <1>1, <3>1, <3>2, <3>3
  <2>. QED BY <2>3, <2>4
<1>. QED BY <1>2, <1>3

(***************************************************************************)
(* One item                                                                *)
(***************************************************************************)

(* What a command that leaves item i with status to makes of the rest.     *)
Kept(i, to) ==
    /\ text' \in [Item -> Nat] /\ indexed' \in [Item -> Nat] /\ cleared' \in [Item -> BOOLEAN]
    /\ \A j \in Item : j # i => text'[j] = text[j] /\ cleared'[j] = cleared[j]
    /\ \A j \in Item : \/ j = i \/ indexed'[j] = indexed[j]
                       \/ j \in Comment /\ On[j] \in Archive /\ indexed'[j] = 0
    /\ \/ indexed'[i] = IF Shown(to) THEN text'[i] ELSE 0
       \/ i \in Comment /\ On[i] \in Archive /\ indexed'[i] = 0
    /\ cleared'[i] => to \notin {"flagged", "auto_hidden", "held"}

KeptPosts(i, to) ==
    /\ locked' \in [Post -> BOOLEAN] /\ linked' \in [Post -> BOOLEAN]
    /\ told' \in [Post -> BOOLEAN]
    /\ \A p \in Post : p # i => linked'[p] = linked[p] /\ told'[p] = told[p]
    /\ i \in Post \ Archive /\ linked'[i] => told'[i] = Shown(to)

(* Whoever does this keeps everything in step.                             *)
LEMMA OneItem ==
  ASSUME IInv, NEW i \in Item, NEW to \in Live, i \in Comment => Exists(On[i]),
         status' = [status EXCEPT ![i] = to], count' = Recounted(i, status[i], to),
         Kept(i, to), KeptPosts(i, to)
  PROVE  IInv'
<1>1. status'[i] = to /\ \A j \in Item : j # i => status'[j] = status[j]
  BY DEF IInv, TypeOK
<1>2. Exists(i)' /\ \A j \in Item : Exists(j) => Exists(j)'
  BY <1>1 DEF Exists, Live
<1>3. status' \in [Item -> Live \cup {"none", "purged"}]
  BY DEF IInv, TypeOK
<1>4. Counted(status, count)'
  <2>1. Counted([status EXCEPT ![i] = to], Recounted(i, status[i], to))
    BY Recount DEF IInv, TypeOK, Recounted
  <2>2. Counted(status', count')
    BY <2>1
  <2>. QED BY <2>2 DEF Counted, ShownOn
<1>5. TypeOK'
  <2>1. count' = [p \in Post |-> count'[p]]
    BY DEF IInv, TypeOK, Recounted
  <2>2. count' \in [Post -> Nat]
    BY <1>4, <2>1, Countable DEF Counted
  <2>. QED BY <1>3, <2>2 DEF TypeOK, Kept, KeptPosts
<1>6. Rows'
  <2>1. ASSUME NEW j \in Item, cleared'[j] PROVE Exists(j)'
    BY <1>2, <2>1 DEF IInv, Rows, Kept
  <2>2. ASSUME NEW p \in Post, linked'[p] PROVE Exists(p)'
    BY <1>2, <2>2 DEF IInv, Rows, KeptPosts, Item
  <2>3. ASSUME NEW c \in Comment, Exists(c)' PROVE Exists(On[c])'
    <3>1. Exists(On[c])
      BY <1>1, <2>3 DEF IInv, Rows, Exists, Item
    <3>. QED BY <1>2, <3>1 DEF Item
  <2>. QED BY <2>1, <2>2, <2>3 DEF Rows
<1>7. Searchable'
  BY <1>1 DEF IInv, Searchable, Kept
<1>8. ClearedStays'
  BY <1>1 DEF IInv, ClearedStays, Kept
<1>9. SistersTold'
  BY <1>1 DEF IInv, SistersTold, KeptPosts, Item
<1>. QED BY <1>4, <1>5, <1>6, <1>7, <1>8, <1>9 DEF IInv

(* changeStatus does, for an item that has a row.                          *)
LEMMA ChangeInv ==
  ASSUME IInv, NEW i \in Item, NEW to \in Live, Exists(i), ChangeStatus(i, to),
         UNCHANGED <<text, locked, linked>>,
         cleared' \in [Item -> BOOLEAN], \A j \in Item : j # i => cleared'[j] = cleared[j],
         cleared'[i] => to \notin {"flagged", "auto_hidden", "held"}
  PROVE  IInv'
<1>1. i \in Comment => Exists(On[i])
  BY DEF IInv, Rows
<1>2. status' = [status EXCEPT ![i] = to] /\ count' = Recounted(i, status[i], to)
  BY DEF ChangeStatus, Recounted, IInv, TypeOK
<1>3. Kept(i, to)
  BY DEF ChangeStatus, Reindexed, Kept, IInv, TypeOK, Searchable
<1>4. KeptPosts(i, to)
  <2>1. told' = Retold(i, status[i], to)
    BY DEF ChangeStatus, Retold
  <2>2. CASE i \in Post /\ linked[i] /\ Shown(status[i]) # Shown(to)
    <3>1. told' = [told EXCEPT ![i] = Shown(to)] /\ Shown(to) \in BOOLEAN
      BY <2>1, <2>2 DEF Retold, Shown
    <3>. QED BY <3>1 DEF KeptPosts, IInv, TypeOK
  <2>3. CASE ~(i \in Post /\ linked[i] /\ Shown(status[i]) # Shown(to))
    <3>1. told' = told
      BY <2>1, <2>3 DEF Retold
    <3>. QED BY <2>3, <3>1 DEF KeptPosts, IInv, TypeOK, SistersTold
  <2>. QED BY <2>2, <2>3
<1>. QED BY <1>1, <1>2, <1>3, <1>4, OneItem

(***************************************************************************)
(* The commands that change one item                                       *)
(***************************************************************************)
LEMMA CreatePostInv ==
  ASSUME IInv, NEW p \in Post, NEW s \in {"visible", "held"}, CreatePost(p, s)
  PROVE  IInv'
<1>1. p \in Item /\ s \in Live /\ p \notin Comment
  BY DEF Item, Live
<1>2. ~cleared[p] /\ ~linked[p]
  BY <1>1 DEF CreatePost, IInv, Rows, Exists
<1>3. status' = [status EXCEPT ![p] = s] /\ count' = Recounted(p, status[p], s)
  BY DEF CreatePost, Recounted
<1>4. Kept(p, s)
  BY <1>1, <1>2 DEF CreatePost, Kept, IInv, TypeOK, Shown
<1>5. KeptPosts(p, s)
  BY <1>1, <1>2 DEF CreatePost, postVars, KeptPosts, IInv, TypeOK
<1>. QED BY <1>1, <1>3, <1>4, <1>5, OneItem

LEMMA CreateCommentInv ==
  ASSUME IInv, NEW c \in Comment, CreateComment(c)
  PROVE  IInv'
<1>1. c \in Item /\ c \notin Post /\ "visible" \in Live /\ On[c] \in Post
  BY DEF Item, Live
<1>2. ~cleared[c] /\ Exists(On[c])
  BY <1>1 DEF CreateComment, IInv, Rows, Exists, Shown
<1>3. status' = [status EXCEPT ![c] = "visible"] /\ count' = Recounted(c, status[c], "visible")
  BY <1>1 DEF CreateComment, Recounted, Shown
<1>4. Kept(c, "visible")
  BY <1>1, <1>2 DEF CreateComment, Kept, IInv, TypeOK, Shown
<1>5. KeptPosts(c, "visible")
  BY <1>1, <1>2 DEF CreateComment, postVars, KeptPosts, IInv, TypeOK
<1>. QED BY <1>1, <1>2, <1>3, <1>4, <1>5, OneItem

(* An item that keeps its status.                                          *)
LEMMA SameStatus ==
  ASSUME IInv, NEW i \in Item, Exists(i), UNCHANGED <<status, count>>
  PROVE  /\ status[i] \in Live /\ (i \in Comment => Exists(On[i]))
         /\ status' = [status EXCEPT ![i] = status[i]]
         /\ count' = Recounted(i, status[i], status[i])
BY DEF IInv, TypeOK, Rows, Exists, Live, Recounted

LEMMA EditInv ==
  ASSUME IInv, NEW i \in Item, Edit(i)
  PROVE  IInv'
<1>1. Exists(i) /\ UNCHANGED <<status, count>>
  BY DEF Edit
<1>2. Kept(i, status[i])
  <2>1. text[i] + 1 \in Nat
    BY DEF IInv, TypeOK
  <2>2. /\ text' = [text EXCEPT ![i] = text[i] + 1] /\ cleared' = cleared
        /\ indexed' = IF Shown(status[i]) THEN [indexed EXCEPT ![i] = text[i] + 1] ELSE indexed
    BY DEF Edit
  <2>. QED BY <2>1, <2>2 DEF Kept, IInv, TypeOK, Searchable, ClearedStays
<1>3. KeptPosts(i, status[i])
  BY DEF Edit, postVars, KeptPosts, IInv, TypeOK, SistersTold
<1>. QED BY <1>1, <1>2, <1>3, SameStatus, OneItem

LEMMA RestoreInv ==
  ASSUME IInv, NEW i \in Item, Restore(i)
  PROVE  IInv'
<1>1. Exists(i) /\ (i \in Comment => Exists(On[i])) /\ "visible" \in Live
  BY DEF Restore, IInv, Rows, Live
<1>2. i \in Post \/ (i \in Comment /\ i \notin Post)
  BY DEF Item
<1>3. status' = [status EXCEPT ![i] = "visible"] /\ count' = Recounted(i, status[i], "visible")
  <2>1. Shown("visible") /\ (Shown(status[i]) <=> status[i] = "flagged")
    BY DEF Restore, Shown
  <2>2. /\ status' = [status EXCEPT ![i] = "visible"]
        /\ count' = IF i \in Comment /\ status[i] # "flagged"
                    THEN [count EXCEPT ![On[i]] = @ + 1] ELSE count
    BY DEF Restore
  <2>3. CASE i \in Comment /\ status[i] # "flagged"
    BY <1>2, <2>1, <2>2, <2>3 DEF Recounted, Shown
  <2>4. CASE ~(i \in Comment /\ status[i] # "flagged")
    BY <1>2, <2>1, <2>2, <2>4 DEF Recounted, Shown
  <2>. QED BY <2>2, <2>3, <2>4
<1>4. Kept(i, "visible")
  BY DEF Restore, Reindexed, Kept, IInv, TypeOK, Shown
<1>5. KeptPosts(i, "visible")
  BY DEF Restore, postVars, KeptPosts, IInv, TypeOK, Shown
<1>. QED BY <1>1, <1>3, <1>4, <1>5, OneItem

LEMMA SoftDeleteInv ==
  ASSUME IInv, NEW i \in Item, NEW to \in Gone, SoftDelete(i, to)
  PROVE  IInv'
<1>1. to \in Live /\ to \notin {"flagged", "auto_hidden", "held"}
  BY DEF Gone, Live
<1>. QED BY <1>1, ChangeInv DEF SoftDelete, postVars, IInv, TypeOK

LEMMA VerdictInv ==
  ASSUME IInv, NEW i \in Item, NEW verdict, Exists(i), ApplyVerdict(i, verdict),
         UNCHANGED <<text, cleared, locked, linked>>
  PROVE  IInv'
<1>1. CASE Flaggable(i) /\ verdict # "clear"
  <2>. DEFINE to == IF verdict = "violation" THEN "auto_hidden" ELSE "flagged"
  <2>1. to \in Live /\ ChangeStatus(i, to) /\ ~cleared[i]
    BY <1>1 DEF ApplyVerdict, Flaggable, Live
  <2>. HIDE DEF to
  <2>. QED BY <2>1, ChangeInv DEF IInv, TypeOK
<1>2. CASE ~(Flaggable(i) /\ verdict # "clear")
  <2>1. ChangeStatus(i, status[i]) /\ status[i] \in Live
    BY <1>2, SameStatus DEF ApplyVerdict, ChangeStatus
  <2>2. cleared'[i] => status[i] \notin {"flagged", "auto_hidden", "held"}
    BY DEF IInv, ClearedStays
  <2>. QED BY <2>1, <2>2, ChangeInv DEF IInv, TypeOK
<1>. QED BY <1>1, <1>2

LEMMA SetCheckInv ==
  ASSUME IInv, NEW p \in Post, NEW verdict, NEW match \in BOOLEAN, SetCheck(p, verdict, match)
  PROVE  IInv'
<1>0. p \in Item /\ p \notin Comment
  BY DEF Item
<1>1. CASE match /\ verdict # "violation" /\ Shown(status[p])
  <2>0. /\ linked' = [linked EXCEPT ![p] = TRUE] /\ told' = [told EXCEPT ![p] = TRUE]
        /\ UNCHANGED <<text, cleared, locked, count>> /\ Exists(p)
    BY <1>1 DEF SetCheck
  <2>1. CASE Flaggable(p) /\ verdict = "borderline"
    <3>1. status' = [status EXCEPT ![p] = "flagged"] /\ indexed' = Reindexed(p, "flagged")
      BY <1>1, <2>1 DEF SetCheck
    <3>2. "flagged" \in Live /\ count' = Recounted(p, status[p], "flagged") /\ Shown("flagged")
      BY <2>0 DEF Live, Recounted, Shown
    <3>3. Kept(p, "flagged")
      <4>1. indexed' = [indexed EXCEPT ![p] = text[p]]
        BY <3>1, <3>2 DEF Reindexed
      <4>2. text' = text /\ cleared' = cleared /\ ~cleared[p]
        BY <2>0, <2>1 DEF Flaggable
      <4>. QED BY <1>0, <3>2, <4>1, <4>2 DEF Kept, IInv, TypeOK
    <3>4. KeptPosts(p, "flagged")
      BY <2>0, <3>2 DEF KeptPosts, IInv, TypeOK
    <3>. QED BY <1>0, <3>1, <3>2, <3>3, <3>4, OneItem
  <2>2. CASE ~(Flaggable(p) /\ verdict = "borderline")
    <3>1. UNCHANGED <<status, indexed>>
      BY <1>1, <2>2 DEF SetCheck
    <3>2. Kept(p, status[p])
      BY <1>0, <2>0, <3>1 DEF Kept, IInv, TypeOK, Searchable, ClearedStays
    <3>3. KeptPosts(p, status[p])
      BY <1>1, <2>0 DEF KeptPosts, IInv, TypeOK
    <3>. QED BY <1>0, <2>0, <3>1, <3>2, <3>3, SameStatus, OneItem
  <2>. QED BY <2>1, <2>2
<1>2. CASE ~(match /\ verdict # "violation" /\ Shown(status[p]))
  <2>1. Exists(p) /\ ApplyVerdict(p, verdict) /\ UNCHANGED <<text, cleared, locked, linked>>
    BY <1>2 DEF SetCheck
  <2>. QED BY <1>0, <2>1, VerdictInv
<1>. QED BY <1>1, <1>2

LEMMA ApproveInv == ASSUME IInv, NEW i \in Item, Approve(i) PROVE IInv'
<1>1. "visible" \in Live
  BY DEF Live
<1>. QED BY <1>1, ChangeInv DEF Approve, postVars, IInv, TypeOK

LEMMA ReportInv == ASSUME IInv, NEW i \in Item, Report(i) PROVE IInv'
<1>1. "flagged" \in Live /\ Exists(i)
  BY DEF Live, Report, Exists
<1>. QED BY <1>1, ChangeInv DEF Report, postVars, IInv, TypeOK

LEMMA VoteInv == ASSUME IInv, NEW i \in Item, NEW keep \in BOOLEAN, Vote(i, keep) PROVE IInv'
<1>1. "visible" \in Live /\ "auto_hidden" \in Live /\ Exists(i) /\ ~cleared[i]
  BY DEF Live, Vote, Exists, IInv, ClearedStays
<1>2. CASE keep
  BY <1>1, <1>2, ChangeInv DEF Vote, postVars, IInv, TypeOK
<1>3. CASE ~keep
  BY <1>1, <1>3, ChangeInv DEF Vote, postVars, IInv, TypeOK
<1>. QED BY <1>2, <1>3

(* Locking, and links with a sister group.                                 *)
LEMMA PostFlagsInv ==
  ASSUME IInv, NEW p \in Post,
         \/ \E on \in BOOLEAN : SetLocked(p, on)
         \/ SisterLink(p) \/ SisterUnlink(p)
  PROVE  IInv'
<1>1. UNCHANGED <<status, text, cleared, indexed, count>>
  BY DEF SetLocked, SisterLink, SisterUnlink
<1>2. p \in Item /\ p \notin Comment /\ Exists(p)
  BY DEF Item, SetLocked, SisterLink, SisterUnlink, Exists, Shown, IInv, Rows
<1>3. Kept(p, status[p])
  BY <1>1, <1>2 DEF Kept, IInv, TypeOK, Searchable, ClearedStays
<1>4. KeptPosts(p, status[p])
  <2>1. CASE \E on \in BOOLEAN : SetLocked(p, on)
    BY <2>1 DEF SetLocked, KeptPosts, IInv, TypeOK, SistersTold
  <2>2. CASE SisterLink(p)
    BY <2>2 DEF SisterLink, KeptPosts, IInv, TypeOK
  <2>3. CASE SisterUnlink(p)
    BY <2>3 DEF SisterUnlink, KeptPosts, IInv, TypeOK
  <2>. QED BY <2>1, <2>2, <2>3
<1>. QED BY <1>1, <1>2, <1>3, <1>4, SameStatus, OneItem

(* The comments of an archive thread leave the index with it.              *)
LEMMA RemovalInv ==
  ASSUME IInv, NEW p \in Post, RequestArchiveRemoval(p)
  PROVE  IInv'
<1>1. p \in Item /\ p \notin Comment /\ Exists(p) /\ p \in Archive /\ "removed" \in Live
  BY DEF Item, RequestArchiveRemoval, Live
<1>2. status' = [status EXCEPT ![p] = "removed"] /\ count' = Recounted(p, status[p], "removed")
  BY DEF RequestArchiveRemoval, Recounted
<1>3. Kept(p, "removed")
  <2>1. indexed' = [i \in Item |-> IF PostOf(i) = p THEN 0 ELSE indexed[i]]
    BY DEF RequestArchiveRemoval
  <2>2. \A i \in Item : PostOf(i) = p => i = p \/ (i \in Comment /\ On[i] \in Archive)
    BY <1>1 DEF PostOf, Item
  <2>3. PostOf(p) = p /\ ~Shown("removed")
    BY DEF PostOf, Shown
  <2>4. text' = text /\ cleared' = cleared
    BY DEF RequestArchiveRemoval
  <2>. QED BY <1>1, <2>1, <2>2, <2>3, <2>4 DEF Kept, IInv, TypeOK
<1>4. KeptPosts(p, "removed")
  BY <1>1 DEF RequestArchiveRemoval, postVars, KeptPosts, IInv, TypeOK
<1>. QED BY <1>1, <1>2, <1>3, <1>4, OneItem

(***************************************************************************)
(* The commands that change several                                        *)
(***************************************************************************)

(* What PurgeGroup takes.                                                  *)
Going(old) == {i \in Item : Exists(i) /\ (i \in old \/ PostOf(i) \in old)}

LEMMA PurgeIs ==
  ASSUME NEW old, PurgeGroup(old)
  PROVE  /\ old \subseteq {i \in Item : status[i] \in Gone}
         /\ text' = [i \in Item |-> IF i \in Going(old) THEN 0 ELSE text[i]]
         /\ cleared' = [i \in Item |-> cleared[i] /\ i \notin Going(old)]
         /\ status' = [i \in Item |-> IF i \in Going(old) THEN "purged" ELSE status[i]]
         /\ indexed' = [i \in Item |-> IF PostOf(i) \in Going(old) \cap Post THEN 0 ELSE indexed[i]]
         /\ count' = [p \in Post |-> IF p \in Going(old) \cap Post THEN 0 ELSE count[p]]
         /\ locked' = [p \in Post |-> locked[p] /\ p \notin Going(old) \cap Post]
         /\ linked' = [p \in Post |-> linked[p] /\ p \notin Going(old) \cap Post]
         /\ told' = [p \in Post |-> told[p] /\ p \notin Going(old) \cap Post]
BY DEF PurgeGroup, Going

LEMMA PurgeInv ==
  ASSUME IInv, NEW old, PurgeGroup(old)
  PROVE  IInv'
<1>. DEFINE going == Going(old)
<1>0. /\ \A i \in going : i \in Item /\ Exists(i)
      /\ \A p \in Post : PostOf(p) = p
      /\ \A c \in Comment : PostOf(c) = On[c] /\ On[c] \in Post /\ c \notin Post
      /\ Post \subseteq Item /\ Comment \subseteq Item
  BY DEF Going, PostOf, Item
<1>1. \A c \in Comment : On[c] \in going /\ Exists(c) => c \in going
  (* The post that goes is itself in old: it is on no other. *)
  BY <1>0 DEF Going
<1>2. ASSUME NEW c \in Comment, c \in going, On[c] \notin going
      PROVE  status[c] \in Gone
  <2>1. On[c] \notin old
    <3>. SUFFICES ASSUME On[c] \in old PROVE FALSE
      OBVIOUS
    <3>1. status[On[c]] \in Gone /\ On[c] \in Item
      BY <1>0, PurgeIs
    <3>2. Exists(On[c])
      BY <3>1 DEF Gone, Exists
    <3>. QED BY <1>2, <3>1, <3>2 DEF Going
  <2>2. c \in old
    BY <1>0, <1>2, <2>1 DEF Going
  <2>. QED BY <2>2, PurgeIs
<1>3. /\ \A i \in going : status'[i] = "purged" /\ ~cleared'[i] /\ text'[i] = 0
      /\ \A i \in Item \ going : /\ status'[i] = status[i] /\ text'[i] = text[i]
                                 /\ cleared'[i] = cleared[i]
  <2>1. \A i \in Item : cleared'[i] = (cleared[i] /\ i \notin going)
    BY PurgeIs
  <2>2. \A i \in Item : /\ status'[i] = IF i \in going THEN "purged" ELSE status[i]
                        /\ text'[i] = IF i \in going THEN 0 ELSE text[i]
    BY PurgeIs
  <2>3. \A i \in Item : cleared[i] \in BOOLEAN
    BY DEF IInv, TypeOK
  <2>. HIDE DEF going
  <2>. QED BY <1>0, <2>1, <2>2, <2>3
<1>4. \A p \in Post : /\ p \in going => count'[p] = 0 /\ ~linked'[p]
                      /\ p \notin going => /\ count'[p] = count[p] /\ linked'[p] = linked[p]
                                           /\ told'[p] = told[p]
  <2>1. \A p \in Post : /\ linked'[p] = (linked[p] /\ p \notin going)
                        /\ told'[p] = (told[p] /\ p \notin going)
    BY PurgeIs
  <2>2. \A p \in Post : count'[p] = IF p \in going THEN 0 ELSE count[p]
    BY PurgeIs
  <2>3. \A p \in Post : linked[p] \in BOOLEAN /\ told[p] \in BOOLEAN
    BY DEF IInv, TypeOK
  <2>. HIDE DEF going
  <2>. QED BY <2>1, <2>2, <2>3
<1>5. \A i \in Item : indexed'[i] = IF PostOf(i) \in going \cap Post THEN 0 ELSE indexed[i]
  BY PurgeIs
<1>. HIDE DEF going
<1>6. TypeOK'
  <2>. USE DEF going
  <2>1. status' \in [Item -> Live \cup {"none", "purged"}]
    BY PurgeIs DEF IInv, TypeOK
  <2>2. text' \in [Item -> Nat] /\ indexed' \in [Item -> Nat]
    BY PurgeIs DEF IInv, TypeOK
  <2>3. count' \in [Post -> Nat]
    BY PurgeIs DEF IInv, TypeOK
  <2>4. cleared' \in [Item -> BOOLEAN]
    <3>1. cleared' = [i \in Item |-> cleared[i] /\ i \notin Going(old)]
      BY PurgeIs
    <3>. QED BY <3>1, Zenon
  <2>5. locked' \in [Post -> BOOLEAN]
    <3>1. locked' = [p \in Post |-> locked[p] /\ p \notin Going(old) \cap Post]
      BY PurgeIs
    <3>. QED BY <3>1, Zenon
  <2>6. linked' \in [Post -> BOOLEAN]
    <3>1. linked' = [p \in Post |-> linked[p] /\ p \notin Going(old) \cap Post]
      BY PurgeIs
    <3>. QED BY <3>1, Zenon
  <2>7. told' \in [Post -> BOOLEAN]
    <3>1. told' = [p \in Post |-> told[p] /\ p \notin Going(old) \cap Post]
      BY PurgeIs
    <3>. QED BY <3>1, Zenon
  <2>. QED BY <2>1, <2>2, <2>3, <2>4, <2>5, <2>6, <2>7 DEF TypeOK
<1>7. Rows'
  <2>1. \A i \in Item : Exists(i)' <=> Exists(i) /\ i \notin going
    BY <1>0, <1>3 DEF Exists
  <2>. QED BY <1>0, <1>1, <1>3, <1>4, <2>1 DEF IInv, Rows
<1>8. Counted(status, count)'
  <2>. SUFFICES ASSUME NEW p \in Post PROVE count'[p] = Cardinality(ShownOn(status', p))
    BY DEF Counted, ShownOn
  <2>1. CASE p \in going
    <3>1. \A c \in Comment : On[c] = p => ~Shown(status'[c])
      BY <1>0, <1>1, <1>3, <2>1 DEF Exists, Shown
    <3>2. ShownOn(status', p) = {}
      BY <3>1 DEF ShownOn
    <3>. QED BY <1>4, <2>1, <3>2, FS_EmptySet
  <2>2. CASE p \notin going
    <3>1. \A c \in Comment : On[c] = p => (Shown(status'[c]) <=> Shown(status[c]))
      BY <1>0, <1>2, <1>3, <2>2 DEF Gone, Shown
    <3>2. ShownOn(status', p) = ShownOn(status, p)
      BY <3>1 DEF ShownOn
    <3>3. count[p] = Cardinality(ShownOn(status, p))
      BY DEF IInv, Counted
    <3>. QED BY <1>4, <2>2, <3>2, <3>3
  <2>. QED BY <2>1, <2>2
<1>9. Searchable'
  <2>. SUFFICES ASSUME NEW i \in Item
                PROVE  \/ indexed'[i] = IF Shown(status'[i]) THEN text'[i] ELSE 0
                       \/ i \in Comment /\ On[i] \in Archive /\ indexed'[i] = 0
    BY DEF Searchable
  <2>1. CASE i \in going
    <3>1. ~Shown(status'[i])
      BY <1>3, <2>1 DEF Shown
    <3>2. PostOf(i) \in going \cap Post \/ status[i] \in Gone
      BY <1>0, <1>2, <2>1 DEF Item
    <3>3. indexed'[i] = 0
      BY <1>5, <3>2 DEF IInv, Searchable, Gone, Shown
    <3>. QED BY <3>1, <3>3
  <2>2. CASE i \notin going
    <3>1. PostOf(i) \in going \cap Post => ~Exists(i)
      BY <1>0, <1>1, <2>2 DEF Item
    <3>2. PostOf(i) \in going \cap Post => ~Shown(status[i])
      BY <3>1 DEF Exists, Shown
    <3>. QED BY <1>3, <1>5, <2>2, <3>2 DEF IInv, Searchable
  <2>. QED BY <2>1, <2>2
<1>10. ClearedStays'
  BY <1>0, <1>3 DEF IInv, ClearedStays
<1>11. SistersTold'
  BY <1>0, <1>3, <1>4 DEF IInv, SistersTold
<1>. QED BY <1>6, <1>7, <1>8, <1>9, <1>10, <1>11 DEF IInv

(* What ImportPost writes, and the text that it brings.                    *)
Written(p) == {i \in Archive : PostOf(i) = p /\ (~Exists(i) \/ Shown(status[i]))}
Version(i, changed) == IF ~Exists(i) THEN 1 ELSE IF i = changed THEN text[i] + 1 ELSE text[i]

LEMMA ImportIs ==
  ASSUME NEW p \in Post, NEW changed, ImportPost(p, changed)
  PROVE  /\ p \in Archive /\ (~Exists(p) \/ Shown(status[p]))
         /\ status' = [i \in Item |-> IF i \in Written(p) /\ ~Exists(i) THEN "visible" ELSE status[i]]
         /\ text' = [i \in Item |-> IF i \in Written(p) THEN Version(i, changed) ELSE text[i]]
         /\ indexed' = [i \in Item |-> IF i \in Written(p) THEN Version(i, changed) ELSE indexed[i]]
         /\ count' = [count EXCEPT ![p] = Cardinality(ShownOn(status', p))]
         /\ locked' = IF Exists(p) THEN locked ELSE [locked EXCEPT ![p] = TRUE]
         /\ UNCHANGED <<cleared, linked, told>>
<1>. DEFINE thread == {i \in Archive : PostOf(i) = p}
            written == {i \in thread : ~Exists(i) \/ Shown(status[i])}
<1>1. written = Written(p)
  BY DEF Written
<1>. QED BY <1>1 DEF ImportPost, Version, ShownOn

LEMMA ImportInv ==
  ASSUME IInv, NEW p \in Post, NEW changed, ImportPost(p, changed)
  PROVE  IInv'
<1>0. /\ p \in Archive /\ p \in Written(p)
      /\ Written(p) \subseteq Archive \cap Item
      /\ \A c \in Comment \cap Written(p) : On[c] = p
      /\ Post \subseteq Item /\ Comment \subseteq Item
  BY ImportIs DEF Written, PostOf, Item
<1>1. \A i \in Item : /\ Exists(i) \/ i \notin Written(p) => status'[i] = status[i]
                      /\ ~Exists(i) /\ i \in Written(p) => status'[i] = "visible"
  BY ImportIs
<1>2. \A i \in Item : Exists(i) => Exists(i)'
  BY <1>1 DEF Exists
<1>3. \A i \in Item : i \in Written(p) => Shown(status'[i]) /\ indexed'[i] = text'[i]
  BY <1>1, ImportIs DEF Written, Shown
<1>4. Counted(status, count)'
  <2>. SUFFICES ASSUME NEW q \in Post PROVE count'[q] = Cardinality(ShownOn(status', q))
    BY DEF Counted, ShownOn
  <2>1. CASE q = p
    BY <2>1, ImportIs DEF IInv, TypeOK
  <2>2. CASE q # p
    <3>1. \A c \in Comment : On[c] = q => status'[c] = status[c]
      BY <1>0, <1>1, <2>2
    <3>2. ShownOn(status', q) = ShownOn(status, q)
      BY <3>1 DEF ShownOn
    <3>3. count'[q] = count[q]
      BY <2>2, ImportIs DEF IInv, TypeOK
    <3>. QED BY <3>2, <3>3 DEF IInv, Counted
  <2>. QED BY <2>1, <2>2
<1>5. TypeOK'
  <2>1. \A i \in Item : Version(i, changed) \in Nat
    BY DEF Version, IInv, TypeOK
  <2>2. count' \in [Post -> Nat]
    BY ImportIs, Countable DEF IInv, TypeOK
  <2>3. status' \in [Item -> Live \cup {"none", "purged"}]
    BY ImportIs DEF IInv, TypeOK, Live
  <2>4. text' \in [Item -> Nat] /\ indexed' \in [Item -> Nat]
    BY <2>1, ImportIs DEF IInv, TypeOK
  <2>5. locked' \in [Post -> BOOLEAN]
    <3>1. locked' = IF Exists(p) THEN locked ELSE [locked EXCEPT ![p] = TRUE]
      BY ImportIs
    <3>2. locked \in [Post -> BOOLEAN]
      BY DEF IInv, TypeOK
    <3>. QED BY <3>1, <3>2
  <2>6. /\ cleared' \in [Item -> BOOLEAN] /\ linked' \in [Post -> BOOLEAN]
        /\ told' \in [Post -> BOOLEAN]
    BY ImportIs DEF IInv, TypeOK
  <2>. QED BY <2>2, <2>3, <2>4, <2>5, <2>6 DEF TypeOK
<1>6. Rows'
  <2>1. ASSUME NEW c \in Comment, Exists(c)' PROVE Exists(On[c])'
    <3>1. CASE Exists(c)
      BY <1>0, <1>2, <3>1 DEF IInv, Rows
    <3>2. CASE ~Exists(c)
      <4>1. On[c] = p
        BY <1>0, <1>1, <2>1, <3>2 DEF Exists
      <4>2. Shown(status'[p])
        BY <1>0, <1>3
      <4>. QED BY <4>1, <4>2 DEF Shown, Exists
    <3>. QED BY <3>1, <3>2
  <2>2. cleared' = cleared /\ linked' = linked
    BY ImportIs
  <2>. QED BY <1>0, <1>2, <2>1, <2>2 DEF IInv, Rows
<1>7. Searchable'
  <2>1. \A i \in Item : i \notin Written(p) => /\ status'[i] = status[i] /\ text'[i] = text[i]
                                               /\ indexed'[i] = indexed[i]
    BY <1>1, ImportIs
  <2>. QED BY <1>3, <2>1 DEF IInv, Searchable
<1>8. ClearedStays'
  BY <1>1, ImportIs DEF IInv, ClearedStays
<1>9. SistersTold'
  BY <1>0, <1>1, ImportIs DEF IInv, SistersTold
<1>. QED BY <1>4, <1>5, <1>6, <1>7, <1>8, <1>9 DEF IInv

(***************************************************************************)
(* The theorems                                                            *)
(***************************************************************************)
LEMMA InitInv == Init => IInv
<1>. SUFFICES ASSUME Init PROVE IInv
  OBVIOUS
<1>1. TypeOK /\ Rows
  <2>1. TypeOK
    BY DEF Init, TypeOK
  <2>2. \A i \in Item : ~Exists(i) /\ ~cleared[i]
    BY DEF Init, Exists
  <2>3. Rows
    BY <2>2 DEF Init, Rows, Item
  <2>. QED BY <2>1, <2>3
<1>2. Counted(status, count)
  <2>. SUFFICES ASSUME NEW p \in Post PROVE count[p] = Cardinality(ShownOn(status, p))
    BY DEF Counted
  <2>1. ShownOn(status, p) = {}
    BY DEF Init, ShownOn, Item, Shown
  <2>. QED BY <2>1, FS_EmptySet DEF Init
<1>3. Searchable /\ ClearedStays /\ SistersTold
  BY DEF Init, Searchable, ClearedStays, SistersTold, Item, Shown
<1>. QED BY <1>1, <1>2, <1>3 DEF IInv

LEMMA NextInv == IInv /\ [Next]_vars => IInv'
<1>. SUFFICES ASSUME IInv, [Next]_vars PROVE IInv'
  OBVIOUS
<1>0. Post \subseteq Item /\ Comment \subseteq Item
  BY DEF Item
<1>1. ASSUME NEW p \in Post, NEW s \in {"visible", "held"}, CreatePost(p, s) PROVE IInv'
  BY <1>1, CreatePostInv
<1>2. ASSUME NEW p \in Post, NEW verdict, NEW match \in BOOLEAN, SetCheck(p, verdict, match)
      PROVE  IInv'
  BY <1>2, SetCheckInv
<1>3. ASSUME NEW p \in Post,
             (\E on \in BOOLEAN : SetLocked(p, on)) \/ SisterLink(p) \/ SisterUnlink(p)
      PROVE  IInv'
  BY <1>3, PostFlagsInv
<1>4. ASSUME NEW p \in Post, NEW changed, ImportPost(p, changed) PROVE IInv'
  BY <1>4, ImportInv
<1>5. ASSUME NEW p \in Post, EditPost(p) \/ RequestArchiveRemoval(p) PROVE IInv'
  BY <1>0, <1>5, EditInv, RemovalInv DEF EditPost
<1>6. ASSUME NEW c \in Comment, CreateComment(c) \/ EditComment(c) PROVE IInv'
  BY <1>0, <1>6, CreateCommentInv, EditInv DEF EditComment
<1>7. ASSUME NEW c \in Comment, NEW verdict, SetCommentCheck(c, verdict) PROVE IInv'
  BY <1>0, <1>7, VerdictInv DEF SetCommentCheck, postVars
<1>8. ASSUME NEW i \in Item, Restore(i) \/ Approve(i) \/ Report(i) PROVE IInv'
  BY <1>8, RestoreInv, ApproveInv, ReportInv
<1>9. ASSUME NEW i \in Item, NEW to \in Gone, SoftDelete(i, to) PROVE IInv'
  BY <1>9, SoftDeleteInv
<1>10. ASSUME NEW i \in Item, NEW keep \in BOOLEAN, Vote(i, keep) PROVE IInv'
  BY <1>10, VoteInv
<1>11. ASSUME NEW old, PurgeGroup(old) PROVE IInv'
  BY <1>11, PurgeInv
<1>12. CASE UNCHANGED vars
  BY <1>12 DEF vars, IInv, TypeOK, Rows, Exists, Counted, ShownOn, Searchable, ClearedStays, SistersTold
<1>. QED BY <1>1, <1>2, <1>3, <1>4, <1>5, <1>6, <1>7, <1>8, <1>9, <1>10, <1>11, <1>12 DEF Next

LEMMA Invariant == Spec => []IInv
BY InitInv, NextInv, PTL DEF Spec

(* A post's count is the number of its comments that can be seen, whatever *)
(* commands are applied, in any order.                                     *)
THEOREM CountIsExact == Spec => []CountExact
<1>1. IInv => CountExact
  BY DEF IInv, Counted, ShownOn, CountExact
<1>. QED BY <1>1, Invariant, PTL

(* What is shown is searchable, by its current text, and nothing else is.  *)
THEOREM SearchIsExact == Spec => []Searchable
<1>1. IInv => Searchable
  BY DEF IInv
<1>. QED BY <1>1, Invariant, PTL

(* What was approved, or voted to keep, is not flagged or hidden again.    *)
THEOREM ClearedIsClear == Spec => []ClearedStays
<1>1. IInv => ClearedStays
  BY DEF IInv
<1>. QED BY <1>1, Invariant, PTL

(* Sister groups were last told of a linked post what it is now.           *)
THEOREM SistersKnow == Spec => []SistersTold
<1>1. IInv => SistersTold
  BY DEF IInv
<1>. QED BY <1>1, Invariant, PTL

=============================================================================
