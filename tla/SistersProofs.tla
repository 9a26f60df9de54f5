--------------------------- MODULE SistersProofs ---------------------------
(***************************************************************************)
(* Proofs about sister groups, for any number of follow-ups and repeats.   *)
(*                                                                         *)
(* BothAgreed needs to know where a rejection may be: one side is rejected *)
(* and the other is not only while the order to reject is on its way       *)
(* (Underway), and such an order was only ever sent by a side that is      *)
(* itself rejected (Orders).  That a rejection is never undone is a        *)
(* property of the steps; it needs only that a rejected side has no note   *)
(* to show (Down).  NotesFollow needs to know, of a note whose post was    *)
(* hidden, what the orders on their way will make of it (Followed).        *)
(***************************************************************************)
EXTENDS Sisters, TLAPS

Message == {"put", "hide", "show", "reject"}
Side == [link : {"none", "active", "rejected"}, note : {"none", "active", "removed", "rejected"}]

TypeOK ==
    /\ pair \in Group \cup {Nobody, "active"} /\ agreed \subseteq Group
    /\ side \in [Group -> Side]
    /\ box \in [Group -> Seq(Message)]
    /\ had \in [Group -> SUBSET (Message \cup {"drop"})]

Rejects(q) == \E i \in 1 .. Len(q) : q[i] = "reject"
OnItsWay(g) == Rejects(box[g])
IsRejected(g) == side[g].link = "rejected"

Down == \A g \in Group : IsRejected(g) => side[g].note \notin {"active", "removed"}
Orders == \A g \in Group : OnItsWay(g) \/ "reject" \in had[g] => IsRejected(Other(g))
Underway == \A g \in Group : IsRejected(Other(g)) /\ ~IsRejected(g) => OnItsWay(g)
Agreed == /\ pair = "active" => agreed = Group
          /\ pair \in Group => pair \in agreed

IInv == TypeOK /\ Down /\ Orders /\ Underway /\ Agreed

(***************************************************************************)
(* Helpers                                                                 *)
(***************************************************************************)
(* There are two groups, and each is the other's other.                    *)
LEMMA Two ==
  ASSUME NEW g \in Group
  PROVE  /\ Other(g) \in Group /\ Other(g) # g /\ Other(Other(g)) = g
         /\ Group = {g, Other(g)}
<1>1. PICK h, k \in Group : h # k /\ Group = {h, k}
  BY GroupAssumption
<1>2. \A x \in Group : \E y \in Group : y # x
  BY <1>1
<1>3. \A x \in Group : Other(x) \in Group /\ Other(x) # x
  BY <1>2 DEF Other
<1>. QED BY <1>1, <1>3

(* What a queue of messages says after one is sent, or taken from it.      *)
LEMMA Queue ==
  ASSUME NEW q \in Seq(Message), NEW m \in Message
  PROVE  /\ ~Rejects(<<>>)
         /\ Append(q, m) \in Seq(Message)
         /\ Rejects(Append(q, m)) <=> Rejects(q) \/ m = "reject"
         /\ q # <<>> => /\ Tail(q) \in Seq(Message) /\ Head(q) \in Message
                        /\ Rejects(q) <=> Rejects(Tail(q)) \/ Head(q) = "reject"
<1>1. ~Rejects(<<>>)
  BY DEF Rejects
<1>2. Rejects(Append(q, m)) => Rejects(q) \/ m = "reject"
  BY DEF Rejects
<1>3. Rejects(q) => Rejects(Append(q, m))
  BY DEF Rejects
<1>4. m = "reject" => Rejects(Append(q, m))
  <2>1. Len(Append(q, m)) = Len(q) + 1 /\ Append(q, m)[Len(q) + 1] = m /\ Len(q) \in Nat
    OBVIOUS
  <2>. QED BY <2>1 DEF Rejects
<1>5. ASSUME q # <<>>
      PROVE  /\ Tail(q) \in Seq(Message) /\ Head(q) \in Message
             /\ Rejects(q) <=> Rejects(Tail(q)) \/ Head(q) = "reject"
  <2>1. /\ Tail(q) \in Seq(Message) /\ Head(q) = q[1] /\ Len(q) \in Nat \ {0} /\ q[1] \in Message
        /\ Len(Tail(q)) = Len(q) - 1
        /\ \A i \in 1 .. Len(q) - 1 : Tail(q)[i] = q[i + 1]
    BY <1>5
  <2>2. Rejects(q) => Rejects(Tail(q)) \/ Head(q) = "reject"
    <3>. SUFFICES ASSUME NEW i \in 1 .. Len(q), q[i] = "reject", i # 1 PROVE Rejects(Tail(q))
      BY <2>1 DEF Rejects
    <3>1. i - 1 \in 1 .. Len(q) - 1 /\ (i - 1) + 1 = i
      BY <2>1
    <3>. QED BY <2>1, <3>1 DEF Rejects
  <2>3. Rejects(Tail(q)) => Rejects(q)
    <3>. SUFFICES ASSUME NEW i \in 1 .. Len(q) - 1, Tail(q)[i] = "reject" PROVE Rejects(q)
      BY <2>1 DEF Rejects
    <3>1. i + 1 \in 1 .. Len(q) /\ q[i + 1] = "reject"
      BY <2>1
    <3>. QED BY <3>1 DEF Rejects
  <2>4. Head(q) = "reject" => Rejects(q)
    BY <2>1 DEF Rejects
  <2>. QED BY <2>1, <2>2, <2>3, <2>4
<1>. QED BY <1>1, <1>2, <1>3, <1>4, <1>5

(* What a command makes of a side is a side; and if the side was rejected, *)
(* it still is, with no note to show.                                      *)
LEMMA SideStays ==
  ASSUME NEW g \in Group, NEW s \in Side, NEW m \in Message \cup {"drop"}
  PROVE  /\ Told(g, s, m) \in Side /\ Linked(g, s) \in Side /\ Rejected(s) \in Side
         /\ Rejected(s).link = "rejected" /\ Told(g, s, "reject") = Rejected(s)
         /\ m # "reject" /\ Told(g, s, m).link = "rejected" => s.link = "rejected"
         /\ Linked(g, s).link = "rejected" => s.link = "rejected"
         /\ s.link = "rejected" => Told(g, s, m).link = "rejected" /\ Linked(g, s) = s
         /\ s.note \notin {"active", "removed"} /\ s.link = "rejected"
               => Told(g, s, m).note \notin {"active", "removed"}
         /\ Rejected(s).note \notin {"active", "removed"}
<1>1. Linked(g, s) \in Side /\ Rejected(s) \in Side /\ Dropped(s) \in Side
  BY DEF Linked, Rejected, Dropped, Side
<1>2. /\ s.link = "rejected" => Linked(g, s) = s
      /\ Linked(g, s).link = "rejected" => s.link = "rejected"
      /\ Rejected(s).link = "rejected" /\ Rejected(s).note \notin {"active", "removed"}
      /\ Dropped(s).link = "rejected" <=> s.link = "rejected"
      /\ s.note \notin {"active", "removed"} => Dropped(s).note = s.note
  BY DEF Linked, Rejected, Dropped, Side
<1>3. CASE m = "put"
  BY <1>1, <1>2, <1>3 DEF Told
<1>4. CASE m = "hide"
  <2>1. Told(g, s, m) = IF s.note = "active" THEN [s EXCEPT !.note = "removed"] ELSE s
    BY <1>4 DEF Told
  <2>. QED BY <1>1, <1>2, <1>4, <2>1 DEF Told, Side
<1>5. CASE m = "show"
  <2>1. Told(g, s, m) = IF s.note = "removed" THEN [s EXCEPT !.note = "active"] ELSE s
    BY <1>5 DEF Told
  <2>. QED BY <1>1, <1>2, <1>5, <2>1 DEF Told, Side
<1>6. CASE m = "reject"
  BY <1>1, <1>2, <1>6 DEF Told
<1>7. CASE m = "drop"
  BY <1>1, <1>2, <1>7 DEF Told
<1>. QED BY <1>3, <1>4, <1>5, <1>6, <1>7 DEF Message

(***************************************************************************)
(* The invariant                                                           *)
(***************************************************************************)

(* It holds before anything was sent or rejected.                          *)
LEMMA InitInv == Init => IInv
<1>. SUFFICES ASSUME Init PROVE IInv
  OBVIOUS
<1>1. /\ side = [g \in Group |-> [link |-> "none", note |-> "none"]]
      /\ box = [g \in Group |-> <<>>] /\ had = [g \in Group |-> {}]
      /\ pair = Nobody /\ agreed = {}
  BY DEF Init
<1>2. TypeOK
  BY <1>1 DEF TypeOK, Side
<1>3. ASSUME NEW g \in Group PROVE ~IsRejected(g) /\ ~OnItsWay(g) /\ "reject" \notin had[g]
  <2>1. side[g] = [link |-> "none", note |-> "none"] /\ box[g] = <<>> /\ had[g] = {}
    BY <1>1
  <2>2. ~Rejects(<<>>)
    BY DEF Rejects
  <2>. QED BY <2>1, <2>2 DEF IsRejected, OnItsWay
<1>4. \A g \in Group : Other(g) \in Group
  BY Two
<1>5. Agreed
  BY <1>1, SistersBounds DEF Agreed
<1>. QED BY <1>2, <1>3, <1>4, <1>5 DEF IInv, Down, Orders, Underway

(* A step of the site log only: the pairing changes.                       *)
LEMMA PairInv ==
  ASSUME IInv, UNCHANGED <<side, box, had>>,
         pair' \in Group \cup {Nobody, "active"}, agreed' \subseteq Group, Agreed'
  PROVE  IInv'
BY DEF IInv, TypeOK, Down, Orders, Underway, OnItsWay, IsRejected

(* A step that leaves the pairing: one side becomes s, which is no newly   *)
(* rejected one unless the other is or will hear of it, and q is on its    *)
(* way to the other.                                                       *)
LEMMA SideInv ==
  ASSUME IInv, NEW g \in Group, NEW s \in Side, NEW q \in Seq(Message),
         UNCHANGED <<pair, agreed, had>>,
         side' = [side EXCEPT ![g] = s],
         box' = [box EXCEPT ![Other(g)] = q],
         OnItsWay(Other(g)) => Rejects(q),
         Rejects(q) => OnItsWay(Other(g)) \/ s.link = "rejected",
         IsRejected(g) => s.link = "rejected",
         s.link = "rejected" => s.note \notin {"active", "removed"},
         s.link = "rejected" /\ ~IsRejected(g) => IsRejected(Other(g)) \/ Rejects(q)
  PROVE  IInv'
<1>1. PICK h \in Group : h = Other(g) /\ h # g /\ Other(h) = g /\ Group = {g, h}
  BY Two
<1>2. side \in [Group -> Side] /\ box \in [Group -> Seq(Message)]
  BY DEF IInv, TypeOK
<1>3. side'[g] = s /\ side'[h] = side[h] /\ side' \in [Group -> Side]
  BY <1>1, <1>2
<1>4. box' \in [Group -> Seq(Message)] /\ box'[g] = box[g] /\ box'[h] = q
  BY <1>1, <1>2
<1>5. TypeOK'
  BY <1>3, <1>4 DEF IInv, TypeOK
<1>6. Down'
  BY <1>1, <1>3 DEF IInv, Down, IsRejected
<1>7. OnItsWay(g)' <=> OnItsWay(g)
  BY <1>4 DEF OnItsWay
<1>8. OnItsWay(h)' <=> Rejects(q)
  BY <1>4 DEF OnItsWay
<1>9. Orders'
  BY <1>1, <1>3, <1>7, <1>8 DEF IInv, Orders, IsRejected
<1>10. Underway'
  BY <1>1, <1>3, <1>7, <1>8 DEF IInv, Underway, IsRejected
<1>11. Agreed'
  BY DEF IInv, Agreed
<1>. QED BY <1>5, <1>6, <1>9, <1>10, <1>11 DEF IInv

(* A message is told to a side: one from its box or from the site log, or  *)
(* one that it had before.                                                 *)
LEMMA ToldInv ==
  ASSUME IInv, NEW g \in Group, NEW m \in Message \cup {"drop"}, NEW q \in Seq(Message),
         UNCHANGED <<pair, agreed>>,
         side' = [side EXCEPT ![g] = Told(g, @, m)],
         box' = [box EXCEPT ![g] = q],
         had' = had \/ had' = [had EXCEPT ![g] = @ \cup {m}],
         m = "reject" => IsRejected(Other(g)),
         Rejects(q) => OnItsWay(g),
         OnItsWay(g) => Rejects(q) \/ m = "reject"
  PROVE  IInv'
<1>1. PICK h \in Group : h = Other(g) /\ h # g /\ Other(h) = g /\ Group = {g, h}
  BY Two
<1>2. /\ side \in [Group -> Side] /\ box \in [Group -> Seq(Message)]
      /\ had \in [Group -> SUBSET (Message \cup {"drop"})]
  BY DEF IInv, TypeOK
<1>. DEFINE s == Told(g, side[g], m)
<1>3. side[g] \in Side /\ s \in Side
  BY <1>2, SideStays
<1>4. /\ IsRejected(g) => s.link = "rejected"
      /\ m # "reject" /\ s.link = "rejected" => IsRejected(g)
      /\ m = "reject" => s.link = "rejected"
      /\ s.link = "rejected" => s.note \notin {"active", "removed"}
  BY <1>3, SideStays DEF IsRejected, IInv, Down
<1>. HIDE DEF s
<1>5. side'[g] = s /\ side'[h] = side[h] /\ side' \in [Group -> Side]
  BY <1>1, <1>2, <1>3 DEF s
<1>6. box' \in [Group -> Seq(Message)] /\ box'[g] = q /\ box'[h] = box[h]
  BY <1>1, <1>2
<1>7. /\ had' \in [Group -> SUBSET (Message \cup {"drop"})] /\ had'[h] = had[h]
      /\ "reject" \in had'[g] => "reject" \in had[g] \/ m = "reject"
  BY <1>1, <1>2
<1>8. TypeOK'
  BY <1>5, <1>6, <1>7 DEF IInv, TypeOK
<1>9. Down'
  BY <1>1, <1>4, <1>5 DEF IInv, Down, IsRejected
<1>10. (OnItsWay(g)' <=> Rejects(q)) /\ (OnItsWay(h)' <=> OnItsWay(h))
  BY <1>6 DEF OnItsWay
<1>11. Orders'
  BY <1>1, <1>4, <1>5, <1>7, <1>10 DEF IInv, Orders, IsRejected
<1>12. Underway'
  BY <1>1, <1>4, <1>5, <1>10 DEF IInv, Underway, IsRejected
<1>13. Agreed'
  BY DEF IInv, Agreed
<1>. QED BY <1>8, <1>9, <1>11, <1>12, <1>13 DEF IInv

(* Commands of the site log, and a check that finds a match.               *)
LEMMA SiteInv ==
  ASSUME IInv, NEW g \in Group,
         \/ ProposeSister(g) \/ (\E accept \in BOOLEAN : AnswerSister(g, accept))
         \/ SetAI(g) \/ EndSister \/ FindMatch(g)
  PROVE  IInv'
<1>1. PICK h \in Group : h = Other(g) /\ h # g /\ Group = {g, h}
  BY Two
<1>2. /\ pair \in Group \cup {Nobody, "active"} /\ agreed \subseteq Group
      /\ pair = "active" => agreed = Group
      /\ pair \in Group => pair \in agreed
      /\ Nobody \notin Group /\ Nobody # "active" /\ "active" \notin Group
  BY SistersBounds DEF IInv, TypeOK, Agreed
<1>3. CASE ProposeSister(g)
  BY <1>1, <1>2, <1>3, PairInv DEF ProposeSister, AskedByOther, Agreed
<1>4. ASSUME NEW accept \in BOOLEAN, AnswerSister(g, accept) PROVE IInv'
  BY <1>1, <1>2, <1>4, PairInv, SistersBounds DEF AnswerSister, AskedByOther, Agreed
<1>5. CASE SetAI(g) \/ FindMatch(g)
  BY <1>2, <1>5, PairInv DEF SetAI, FindMatch, siteVars, Agreed
<1>6. CASE EndSister
  BY <1>2, <1>6, PairInv, SistersBounds DEF EndSister, Agreed
<1>. QED BY <1>3, <1>4, <1>5, <1>6

(* A check's result: a link, and word of it to the other side.             *)
LEMMA SetCheckInv == ASSUME IInv, NEW g \in Group, SetCheck(g) PROVE IInv'
<1>1. Other(g) \in Group
  BY Two
<1>2. side \in [Group -> Side] /\ box \in [Group -> Seq(Message)]
  BY DEF IInv, TypeOK
<1>3. UNCHANGED <<pair, agreed, had>>
  BY DEF SetCheck, siteVars
<1>4. CASE g \in shown /\ side[g].link # "rejected"
  <2>. DEFINE s == Linked(g, side[g])
              q == Append(box[Other(g)], "put")
  <2>1. side' = [side EXCEPT ![g] = s] /\ box' = [box EXCEPT ![Other(g)] = q]
    BY <1>4 DEF SetCheck, Send
  <2>2. s \in Side /\ s.link # "rejected" /\ ~IsRejected(g)
    BY <1>2, <1>4, SideStays DEF IsRejected
  <2>3. q \in Seq(Message) /\ (Rejects(q) <=> OnItsWay(Other(g)))
    BY <1>1, <1>2, Queue DEF OnItsWay, Message
  <2>. HIDE DEF s, q
  <2>. QED BY <1>3, <2>1, <2>2, <2>3, SideInv
<1>5. CASE ~(g \in shown /\ side[g].link # "rejected")
  <2>1. UNCHANGED <<side, box>>
    BY <1>5 DEF SetCheck
  <2>. QED BY <1>2, <1>3, <2>1, PairInv DEF IInv, TypeOK, Agreed
<1>. QED BY <1>4, <1>5

(* A post that goes or comes back: the other side may be told.             *)
LEMMA TellInv ==
  ASSUME IInv, NEW g \in Group, NEW m \in {"hide", "show"}, TellSister(g, m),
         UNCHANGED <<pair, agreed, had, side>>
  PROVE  IInv'
<1>1. Other(g) \in Group
  BY Two
<1>2. side \in [Group -> Side] /\ box \in [Group -> Seq(Message)]
  BY DEF IInv, TypeOK
<1>3. CASE side[g].link = "active"
  <2>. DEFINE q == Append(box[Other(g)], m)
  <2>1. box' = [box EXCEPT ![Other(g)] = q] /\ side' = [side EXCEPT ![g] = side[g]]
    BY <1>2, <1>3 DEF TellSister, Send
  <2>2. q \in Seq(Message) /\ (Rejects(q) <=> OnItsWay(Other(g)))
    BY <1>1, <1>2, Queue DEF OnItsWay, Message
  <2>3. side[g] \in Side /\ side[g].link # "rejected" /\ ~IsRejected(g)
    BY <1>2, <1>3 DEF IsRejected
  <2>. HIDE DEF q
  <2>. QED BY <2>1, <2>2, <2>3, SideInv
<1>4. CASE side[g].link # "active"
  <2>1. UNCHANGED box
    BY <1>4 DEF TellSister
  <2>. QED BY <2>1, PairInv DEF IInv, TypeOK, Agreed
<1>. QED BY <1>3, <1>4

(* A moderator rejects the link, and says so.                              *)
LEMMA RemoveInv == ASSUME IInv, NEW g \in Group, RemoveSisterLink(g) PROVE IInv'
<1>1. Other(g) \in Group
  BY Two
<1>2. side \in [Group -> Side] /\ box \in [Group -> Seq(Message)]
  BY DEF IInv, TypeOK
<1>. DEFINE s == Rejected(side[g])
            q == Append(box[Other(g)], "reject")
<1>3. /\ side' = [side EXCEPT ![g] = s] /\ box' = [box EXCEPT ![Other(g)] = q]
      /\ UNCHANGED <<pair, agreed, had>>
  BY DEF RemoveSisterLink, Send, siteVars
<1>4. s \in Side /\ s.link = "rejected" /\ s.note \notin {"active", "removed"}
  BY <1>2, SideStays
<1>5. q \in Seq(Message) /\ Rejects(q)
  BY <1>1, <1>2, Queue DEF Message
<1>. HIDE DEF s, q
<1>. QED BY <1>3, <1>4, <1>5, SideInv

(* A message arrives, for the first time or again.                         *)
LEMMA DeliverInv ==
  ASSUME IInv, NEW g \in Group,
         Deliver(g) \/ DeliverDrop(g) \/ (\E m \in had[g] : Repeat(g, m))
  PROVE  IInv'
<1>1. /\ side \in [Group -> Side] /\ box \in [Group -> Seq(Message)]
      /\ had \in [Group -> SUBSET (Message \cup {"drop"})]
  BY DEF IInv, TypeOK
<1>2. CASE Deliver(g)
  <2>. DEFINE m == Head(box[g])
              q == Tail(box[g])
  <2>1. /\ UNCHANGED <<pair, agreed>> /\ side' = [side EXCEPT ![g] = Told(g, @, m)]
        /\ box' = [box EXCEPT ![g] = q] /\ had' = [had EXCEPT ![g] = @ \cup {m}]
    BY <1>2 DEF Deliver, siteVars
  <2>2. /\ box[g] \in Seq(Message) /\ box[g] # <<>>
    BY <1>1, <1>2 DEF Deliver
  <2>3. /\ m \in Message /\ q \in Seq(Message)
        /\ OnItsWay(g) <=> Rejects(q) \/ m = "reject"
    BY <2>2, Queue DEF OnItsWay
  <2>4. m = "reject" => IsRejected(Other(g))
    BY <2>3 DEF IInv, Orders
  <2>. HIDE DEF m, q
  <2>. QED BY <2>1, <2>3, <2>4, ToldInv
<1>3. CASE DeliverDrop(g)
  <2>1. /\ UNCHANGED <<pair, agreed>> /\ side' = [side EXCEPT ![g] = Told(g, @, "drop")]
        /\ box' = [box EXCEPT ![g] = box[g]] /\ had' = [had EXCEPT ![g] = @ \cup {"drop"}]
    BY <1>1, <1>3 DEF DeliverDrop, siteVars
  <2>2. /\ box[g] \in Seq(Message) /\ (OnItsWay(g) <=> Rejects(box[g]))
        /\ "drop" \in Message \cup {"drop"} /\ "drop" # "reject"
    BY <1>1 DEF OnItsWay
  <2>. QED BY <2>1, <2>2, ToldInv
<1>4. ASSUME NEW m \in had[g], Repeat(g, m) PROVE IInv'
  <2>1. /\ UNCHANGED <<pair, agreed>> /\ side' = [side EXCEPT ![g] = Told(g, @, m)]
        /\ box' = [box EXCEPT ![g] = box[g]] /\ had' = had
    BY <1>1, <1>4 DEF Repeat, siteVars
  <2>2. /\ box[g] \in Seq(Message) /\ (OnItsWay(g) <=> Rejects(box[g]))
        /\ m \in Message \cup {"drop"}
    BY <1>1 DEF OnItsWay
  <2>3. m = "reject" => IsRejected(Other(g))
    BY DEF IInv, Orders
  <2>. QED BY <2>1, <2>2, <2>3, ToldInv
<1>. QED BY <1>2, <1>3, <1>4

(* Every step keeps the invariant.                                         *)
LEMMA NextInv == IInv /\ [Next]_vars => IInv'
<1>. SUFFICES ASSUME IInv, [Next]_vars PROVE IInv'
  OBVIOUS
<1>1. PICK g \in Group : TRUE
  BY GroupAssumption
<1>2. CASE EndSister
  BY <1>1, <1>2, SiteInv
<1>3. ASSUME NEW k \in Group, HidePost(k) \/ ShowPost(k) PROVE IInv'
  BY <1>3, TellInv DEF HidePost, ShowPost, siteVars
<1>4. CASE UNCHANGED vars
  BY <1>4, PairInv DEF vars, IInv, TypeOK, Agreed
<1>. QED BY <1>2, <1>3, <1>4, SiteInv, SetCheckInv, RemoveInv, DeliverInv DEF Next

(* The invariant holds in every reachable state.                           *)
LEMMA Invariant == Spec => []IInv
BY InitInv, NextInv, PTL DEF Spec

(* No step makes a rejected side anything else.                            *)
LEMMA StepStays ==
  ASSUME IInv, [Next]_vars, NEW g \in Group, IsRejected(g)
  PROVE  IsRejected(g)'
<1>1. /\ side \in [Group -> Side] /\ had \in [Group -> SUBSET (Message \cup {"drop"})]
      /\ box \in [Group -> Seq(Message)] /\ side[g].link = "rejected"
  BY DEF IInv, TypeOK, IsRejected
<1>2. CASE side' = side
  BY <1>1, <1>2 DEF IsRejected
<1>3. ASSUME NEW k \in Group, NEW s \in Side, side' = [side EXCEPT ![k] = s],
             side[k].link = "rejected" => s.link = "rejected"
      PROVE  IsRejected(g)'
  BY <1>1, <1>3 DEF IsRejected
<1>4. ASSUME NEW k \in Group, SetCheck(k) PROVE IsRejected(g)'
  <2>1. side' = side \/ side' = [side EXCEPT ![k] = Linked(k, side[k])]
    BY <1>4 DEF SetCheck
  <2>2. side[k] \in Side
    BY <1>1
  <2>3. /\ Linked(k, side[k]) \in Side
        /\ side[k].link = "rejected" => Linked(k, side[k]) = side[k]
    BY <2>2, SideStays
  <2>. QED BY <1>2, <1>3, <2>1, <2>3
<1>5. ASSUME NEW k \in Group, RemoveSisterLink(k) PROVE IsRejected(g)'
  <2>1. side' = [side EXCEPT ![k] = Rejected(side[k])]
    BY <1>5 DEF RemoveSisterLink
  <2>2. side[k] \in Side
    BY <1>1
  <2>3. Rejected(side[k]) \in Side /\ Rejected(side[k]).link = "rejected"
    BY <2>2, SideStays
  <2>. QED BY <1>3, <2>1, <2>3
<1>6. ASSUME NEW k \in Group, NEW m \in Message \cup {"drop"},
             side' = [side EXCEPT ![k] = Told(k, side[k], m)]
      PROVE  IsRejected(g)'
  <2>1. side[k] \in Side
    BY <1>1
  <2>2. /\ Told(k, side[k], m) \in Side
        /\ side[k].link = "rejected" => Told(k, side[k], m).link = "rejected"
    BY <2>1, SideStays
  <2>. QED BY <1>3, <1>6, <2>2
<1>7. ASSUME NEW k \in Group, Deliver(k) PROVE IsRejected(g)'
  <2>1. box[k] \in Seq(Message) /\ box[k] # <<>>
    BY <1>1, <1>7 DEF Deliver
  <2>2. Head(box[k]) \in Message
    BY <2>1, Queue
  <2>. QED BY <1>6, <1>7, <2>2 DEF Deliver
<1>8. ASSUME NEW k \in Group, DeliverDrop(k) PROVE IsRejected(g)'
  BY <1>6, <1>8 DEF DeliverDrop
<1>9. ASSUME NEW k \in Group, NEW m \in had[k], Repeat(k, m) PROVE IsRejected(g)'
  <2>1. m \in Message \cup {"drop"}
    BY <1>1
  <2>. QED BY <1>6, <1>9, <2>1 DEF Repeat
<1>10. ASSUME NEW k \in Group,
              \/ ProposeSister(k) \/ (\E accept \in BOOLEAN : AnswerSister(k, accept))
              \/ SetAI(k) \/ FindMatch(k) \/ HidePost(k) \/ ShowPost(k)
       PROVE  side' = side
  BY <1>10 DEF ProposeSister, AnswerSister, SetAI, FindMatch, HidePost, ShowPost
<1>11. EndSister \/ UNCHANGED vars => side' = side
  BY DEF EndSister, vars
<1>. QED BY <1>2, <1>4, <1>5, <1>7, <1>8, <1>9, <1>10, <1>11 DEF Next

(***************************************************************************)
(* The theorems                                                            *)
(***************************************************************************)

(* Two groups are sisters only while an owner of each has agreed since     *)
(* they last were not; and once everything sent has arrived, a link that   *)
(* one side rejected is rejected on both (sisters.go, crosslog.go).        *)
THEOREM PairsAgree == Spec => []BothAgreed
<1>1. IInv => BothAgreed
  <2>. SUFFICES ASSUME IInv, Quiet, NEW g \in Group, NEW h \in Group, IsRejected(g)
                PROVE  IsRejected(h)
    BY DEF BothAgreed, IInv, Agreed, IsRejected
  <2>1. box[h] = <<>>
    BY DEF Quiet
  <2>2. ~OnItsWay(h)
    BY <2>1 DEF OnItsWay, Rejects
  <2>3. h = g \/ g = Other(h)
    BY Two
  <2>. QED BY <2>2, <2>3 DEF IInv, Underway
<1>. QED BY <1>1, Invariant, PTL

(* A link that a moderator took down is never made again, nor its note     *)
(* shown, whatever arrives late, or twice (RemoveSisterLink).              *)
THEOREM RejectionStays == Spec => StaysRejected
<1>1. IInv /\ [Next]_vars =>
        [\A g \in Group : side[g].link = "rejected" =>
            side'[g].link = "rejected" /\ side'[g].note # "active"]_vars
  <2>. SUFFICES ASSUME IInv, [Next]_vars, NEW g \in Group, side[g].link = "rejected"
                PROVE  side'[g].link = "rejected" /\ side'[g].note # "active"
    OBVIOUS
  <2>1. side'[g].link = "rejected"
    BY StepStays DEF IsRejected
  <2>2. Down'
    BY NextInv DEF IInv
  <2>. QED BY <2>1, <2>2 DEF Down, IsRejected
<1>. QED BY <1>1, Invariant, PTL DEF Spec, StaysRejected

(***************************************************************************)
(* Notes written from a hidden post                                        *)
(*                                                                         *)
(* NotesFollow needs to know what will become of a note once its side has  *)
(* been told everything: it stops (Stops) if it is not shown, or the order *)
(* to hide it is on its way, and nothing behind that puts or shows it.     *)
(* That is so of every note whose post is hidden and linked on its own     *)
(* side (Followed), until something comes twice or a check comes late.     *)
(***************************************************************************)
Wakes(m) == m \in {"put", "show"}
Stops(q, n) ==
    \E i \in 0 .. Len(q) :
        /\ IF i = 0 THEN n # "active" ELSE q[i] = "hide"
        /\ \A j \in 1 .. Len(q) : j > i => ~Wakes(q[j])
Away(g) == side[g].link = "active" /\ g \notin shown

Followed ==
    /\ repeats \in Nat
    /\ repeats = 0 /\ ~late => \A g \in Group : Away(Other(g)) => Stops(box[g], side[g].note)

LEMMA StopsStill ==
  ASSUME NEW q, NEW n, NEW n2, Stops(q, n), n2 = "active" => n = "active"
  PROVE  Stops(q, n2)
BY DEF Stops

LEMMA StopsBehind ==
  ASSUME NEW q \in Seq(Message), NEW n
  PROVE  Stops(Append(q, "hide"), n)
<1>. DEFINE r == Append(q, "hide")
<1>1. r \in Seq(Message) /\ Len(r) = Len(q) + 1 /\ r[Len(q) + 1] = "hide" /\ Len(q) \in Nat
  BY DEF Message
<1>. HIDE DEF r
<1>2. /\ Len(r) \in 0 .. Len(r) /\ Len(r) # 0 /\ r[Len(r)] = "hide"
      /\ \A j \in 1 .. Len(r) : ~(j > Len(r))
  BY <1>1
<1>3. Stops(r, n)
  BY <1>2 DEF Stops
<1>. QED BY <1>3 DEF r

LEMMA StopsTold ==
  ASSUME NEW g \in Group, NEW s \in Side, NEW q \in Seq(Message), q # <<>>, Stops(q, s.note)
  PROVE  Stops(Tail(q), Told(g, s, Head(q)).note)
<1>. DEFINE m == Head(q)
            r == Tail(q)
            n == Told(g, s, m).note
<1>1. /\ r \in Seq(Message) /\ m = q[1] /\ m \in Message /\ Len(q) \in Nat \ {0}
      /\ Len(r) = Len(q) - 1
      /\ \A i \in 1 .. Len(q) - 1 : r[i] = q[i + 1]
  OBVIOUS
<1>2. ~Wakes(m) /\ n = "active" => s.note = "active" /\ m # "hide"
  <2>1. CASE m = "hide"
    BY <2>1 DEF Told, Side
  <2>2. CASE m = "reject"
    BY <2>2 DEF Told, Rejected, Side
  <2>. QED BY <1>1, <2>1, <2>2 DEF Wakes, Message
<1>. HIDE DEF m, r, n
<1>3. PICK i \in 0 .. Len(q) :
         /\ IF i = 0 THEN s.note # "active" ELSE q[i] = "hide"
         /\ \A j \in 1 .. Len(q) : j > i => ~Wakes(q[j])
  BY DEF Stops
<1>4. ASSUME NEW j \in 1 .. Len(r) PROVE j + 1 \in 1 .. Len(q) /\ r[j] = q[j + 1]
  BY <1>1, <1>4
<1>5. CASE i \in {0, 1}
  <2>1. \A j \in 1 .. Len(r) : ~Wakes(r[j])
    BY <1>3, <1>4, <1>5
  <2>2. n # "active"
    <3>1. CASE i = 0
      <4>1. ~Wakes(m) /\ s.note # "active"
        BY <1>1, <1>3, <3>1
      <4>. QED BY <1>2, <4>1
    <3>2. CASE i = 1
      BY <1>1, <1>2, <1>3, <3>2 DEF Wakes
    <3>. QED BY <1>5, <3>1, <3>2
  <2>3. 0 \in 0 .. Len(r)
    BY <1>1
  <2>4. Stops(r, n)
    BY <2>1, <2>2, <2>3 DEF Stops
  <2>. QED BY <2>4 DEF r, n, m
<1>6. CASE i \notin {0, 1}
  <2>1. i - 1 \in 1 .. Len(r) /\ r[i - 1] = "hide" /\ i - 1 # 0 /\ i - 1 \in 0 .. Len(r)
    BY <1>1, <1>3, <1>6
  <2>2. \A j \in 1 .. Len(r) : j > i - 1 => ~Wakes(r[j])
    BY <1>3, <1>4
  <2>3. Stops(r, n)
    BY <2>1, <2>2 DEF Stops
  <2>. QED BY <2>3 DEF r, n, m
<1>. QED BY <1>5, <1>6

(* A step is right for both groups.                                        *)
LEMMA FollowedIf ==
  ASSUME Followed, NEW g \in Group, repeats' = repeats,
         ~late' => /\ Away(g)' => Stops(box'[Other(g)], side'[Other(g)].note)
                   /\ Away(Other(g))' => Stops(box'[g], side'[g].note)
  PROVE  Followed'
<1>1. Group = {g, Other(g)} /\ Other(Other(g)) = g
  BY Two
<1>. QED BY <1>1 DEF Followed

LEMMA FollowedUnchanged ==
  ASSUME Followed, UNCHANGED <<shown, side, box, repeats>>, ~late' => ~late
  PROVE  Followed'
BY DEF Followed, Away

LEMMA FollowedBefore ==
  ASSUME Followed, NEW g \in Group, repeats' = repeats, repeats' = 0, ~late
  PROVE  /\ Away(g) => Stops(box[Other(g)], side[Other(g)].note)
         /\ Away(Other(g)) => Stops(box[g], side[g].note)
<1>1. Other(g) \in Group /\ Other(Other(g)) = g
  BY Two
<1>. QED BY <1>1 DEF Followed

(* A check of a post that is not shown comes to nothing, one of a post     *)
(* whose match is not shown is late.                                       *)
LEMMA SetCheckFollowed == ASSUME IInv, Followed, NEW g \in Group, SetCheck(g) PROVE Followed'
<1>1. /\ side \in [Group -> Side] /\ Other(g) \in Group /\ Other(g) # g
  BY Two DEF IInv, TypeOK
<1>2. UNCHANGED <<shown, repeats>> /\ late' = (late \/ Other(g) \notin shown)
  BY DEF SetCheck
<1>3. CASE g \in shown /\ side[g].link # "rejected"
  BY <1>2, <1>3, FollowedIf DEF Away
<1>4. CASE ~(g \in shown /\ side[g].link # "rejected")
  <2>1. UNCHANGED <<side, box>>
    BY <1>4 DEF SetCheck
  <2>. QED BY <1>2, <2>1, FollowedUnchanged
<1>. QED BY <1>3, <1>4

LEMMA HideFollowed == ASSUME IInv, Followed, NEW g \in Group, HidePost(g) PROVE Followed'
<1>1. Other(g) \in Group /\ Other(g) # g
  BY Two
<1>2. box \in [Group -> Seq(Message)]
  BY DEF IInv, TypeOK
<1>3. shown' = shown \ {g} /\ TellSister(g, "hide") /\ UNCHANGED <<side, repeats, late>>
  BY DEF HidePost
<1>4. box'[g] = box[g]
  BY <1>1, <1>2, <1>3 DEF TellSister, Send
<1>5. ASSUME side[g].link = "active" PROVE Stops(box'[Other(g)], side'[Other(g)].note)
  <2>1. box'[Other(g)] = Append(box[Other(g)], "hide")
    BY <1>1, <1>2, <1>3, <1>5 DEF TellSister, Send
  <2>. QED BY <1>1, <1>2, <2>1, StopsBehind
<1>6. Away(g)' => side[g].link = "active"
  BY <1>3 DEF Away
<1>7. Away(Other(g))' => Away(Other(g))
  BY <1>1, <1>3 DEF Away
<1>8. CASE repeats = 0 /\ ~late
  BY <1>3, <1>4, <1>5, <1>6, <1>7, <1>8, FollowedBefore, FollowedIf
<1>9. CASE ~(repeats = 0 /\ ~late)
  BY <1>3, <1>9 DEF Followed
<1>. QED BY <1>8, <1>9

LEMMA ShowFollowed == ASSUME IInv, Followed, NEW g \in Group, ShowPost(g) PROVE Followed'
<1>1. Other(g) \in Group /\ Other(g) # g
  BY Two
<1>2. box \in [Group -> Seq(Message)]
  BY DEF IInv, TypeOK
<1>3. shown' = shown \cup {g} /\ TellSister(g, "show") /\ UNCHANGED <<side, repeats, late>>
  BY DEF ShowPost
<1>4. box'[g] = box[g]
  BY <1>1, <1>2, <1>3 DEF TellSister, Send
<1>5. ~Away(g)' /\ (Away(Other(g))' => Away(Other(g)))
  BY <1>3 DEF Away
<1>6. CASE repeats = 0 /\ ~late
  BY <1>3, <1>4, <1>5, <1>6, FollowedBefore, FollowedIf
<1>7. CASE ~(repeats = 0 /\ ~late)
  BY <1>3, <1>7 DEF Followed
<1>. QED BY <1>6, <1>7

(* What is told to a side, but for a repeat: a link is made only while the *)
(* post is shown, so its sister has not to be told of it now.              *)
LEMMA ToldFollowed ==
  ASSUME IInv, Followed, NEW g \in Group, NEW s \in Side, NEW q,
         side' = [side EXCEPT ![g] = s], box'[g] = q, UNCHANGED <<shown, repeats, late>>,
         s.link = "active" => side[g].link = "active" \/ g \in shown,
         Stops(box[g], side[g].note) => Stops(q, s.note),
         s.link = "active" => box'[Other(g)] = box[Other(g)]
  PROVE  Followed'
<1>1. Other(g) \in Group /\ Other(g) # g /\ side \in [Group -> Side]
  BY Two DEF IInv, TypeOK
<1>2. side'[g] = s /\ side'[Other(g)] = side[Other(g)]
  BY <1>1
<1>3. /\ Away(g)' => Away(g) /\ s.link = "active"
      /\ Away(Other(g))' => Away(Other(g))
  BY <1>2 DEF Away
<1>4. CASE repeats = 0 /\ ~late
  BY <1>2, <1>3, <1>4, FollowedBefore, FollowedIf
<1>5. CASE ~(repeats = 0 /\ ~late)
  BY <1>5 DEF Followed
<1>. QED BY <1>4, <1>5

LEMMA RemoveFollowed == ASSUME IInv, Followed, NEW g \in Group, RemoveSisterLink(g) PROVE Followed'
<1>1. /\ Other(g) \in Group /\ Other(g) # g
      /\ side \in [Group -> Side] /\ box \in [Group -> Seq(Message)]
  BY Two DEF IInv, TypeOK
<1>. DEFINE s == Rejected(side[g])
<1>2. /\ side' = [side EXCEPT ![g] = s] /\ box'[g] = box[g]
      /\ UNCHANGED <<shown, repeats, late>>
  BY <1>1 DEF RemoveSisterLink, Send
<1>3. s \in Side /\ s.link = "rejected" /\ s.note # "active"
  BY <1>1, SideStays
<1>. HIDE DEF s
<1>. QED BY <1>2, <1>3, StopsStill, ToldFollowed

LEMMA DeliverFollowed == ASSUME IInv, Followed, NEW g \in Group, Deliver(g) PROVE Followed'
<1>1. /\ Other(g) \in Group /\ Other(g) # g
      /\ side[g] \in Side /\ box \in [Group -> Seq(Message)] /\ box[g] # <<>>
  BY Two DEF IInv, TypeOK, Deliver
<1>. DEFINE m == Head(box[g])
            s == Told(g, side[g], m)
            q == Tail(box[g])
<1>2. /\ side' = [side EXCEPT ![g] = s] /\ box'[g] = q /\ box'[Other(g)] = box[Other(g)]
      /\ UNCHANGED <<shown, repeats, late>>
  BY <1>1 DEF Deliver
<1>3. m \in Message /\ s \in Side
  <2>1. m \in Message
    BY <1>1
  <2>. QED BY <1>1, <2>1, SideStays
<1>4. s.link = "active" => side[g].link = "active" \/ g \in shown
  <2>1. CASE m = "put"
    BY <2>1 DEF Told
  <2>2. CASE m \in {"hide", "show"}
    <3>1. s = side[g] \/ \E n : s = [side[g] EXCEPT !.note = n]
      BY <2>2 DEF Told
    <3>. QED BY <1>1, <3>1 DEF Side
  <2>3. CASE m = "reject"
    BY <2>3 DEF Told, Rejected
  <2>. QED BY <1>3, <2>1, <2>2, <2>3 DEF Message
<1>5. Stops(box[g], side[g].note) => Stops(q, s.note)
  BY <1>1, StopsTold
<1>. HIDE DEF s, q
<1>. QED BY <1>2, <1>3, <1>4, <1>5, ToldFollowed

LEMMA DropFollowed == ASSUME IInv, Followed, NEW g \in Group, DeliverDrop(g) PROVE Followed'
<1>1. side[g] \in Side
  BY DEF IInv, TypeOK
<1>. DEFINE s == Dropped(side[g])
<1>2. side' = [side EXCEPT ![g] = s] /\ UNCHANGED <<box, shown, repeats, late>>
  BY DEF DeliverDrop, Told
<1>3. s \in Side /\ s.link # "active" /\ s.note # "active"
  BY <1>1 DEF Dropped, Side
<1>. HIDE DEF s
<1>. QED BY <1>2, <1>3, StopsStill, ToldFollowed

LEMMA FollowedInit == Init => Followed
<1>. SUFFICES ASSUME Init PROVE Followed
  OBVIOUS
<1>1. \A g \in Group : Other(g) \in Group
  BY Two
<1>2. \A g \in Group : ~Away(g)
  BY DEF Init, Away
<1>. QED BY <1>1, <1>2 DEF Init, Followed

LEMMA FollowedNext == IInv /\ Followed /\ [Next]_vars => Followed'
<1>. SUFFICES ASSUME IInv, Followed, [Next]_vars PROVE Followed'
  OBVIOUS
<1>1. ASSUME NEW g \in Group, NEW m, Repeat(g, m) PROVE Followed'
  BY <1>1 DEF Repeat, Followed
<1>2. ASSUME NEW g \in Group,
             \/ ProposeSister(g) \/ (\E accept \in BOOLEAN : AnswerSister(g, accept))
             \/ SetAI(g) \/ FindMatch(g)
      PROVE  Followed'
  BY <1>2, FollowedUnchanged DEF ProposeSister, AnswerSister, SetAI, FindMatch
<1>3. EndSister \/ UNCHANGED vars => Followed'
  BY FollowedUnchanged DEF EndSister, vars
<1>. QED BY <1>1, <1>2, <1>3, SetCheckFollowed, HideFollowed, ShowFollowed, RemoveFollowed,
            DeliverFollowed, DropFollowed DEF Next

(* Once everything sent has arrived, no note that is written from a hidden *)
(* post shows, if the post has the link, nothing came twice and no check   *)
(* came late (SoftDelete, sendSisterNotes).                                *)
THEOREM NotesStopShowing == Spec => []NotesFollow
<1>1. Followed => NotesFollow
  <2>. SUFFICES ASSUME Followed, Quiet, repeats = 0, ~late, NEW g \in Group,
                       side[g].note = "active", side[Other(g)].link = "active", Other(g) \notin shown
                PROVE  FALSE
    BY DEF NotesFollow
  <2>1. Stops(box[g], side[g].note) /\ box[g] = <<>>
    BY DEF Followed, Away, Quiet
  <2>. QED BY <2>1 DEF Stops
<1>. QED BY <1>1, FollowedInit, FollowedNext, Invariant, PTL DEF Spec
=============================================================================
