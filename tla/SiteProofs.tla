----------------------------- MODULE SiteProofs -----------------------------
(***************************************************************************)
(* Proofs about the site: where addresses lead, what a sign-in is worth,   *)
(* where visits end, and the email about notifications; for any nodes,     *)
(* domains, groups and plans, any number of commands, and any of their     *)
(* answers lost.                                                           *)
(*                                                                         *)
(* SiteInv: the last site.db is as HostsOK and AccountsOK say, and every   *)
(* earlier one, which a node that lags still answers from, as CopyOK says. *)
(* Each command is shown to keep DbOK, applied once, or twice when the     *)
(* answer was lost; SiteGrows puts that together with the log.             *)
(* VisitState adds where a visit may have come to (VisitOK), and what the  *)
(* earlier copies may still say: Past.                                     *)
(* MailInv is about the rest, and needs nothing of site.db: what the       *)
(* passes of the nodes hold, and what they may still send or mark.         *)
(***************************************************************************)
EXTENDS Mail, SequenceTheorems, WellFoundedInduction, TLAPS

USE HostsAssumption

(***************************************************************************)
(* Addresses                                                               *)
(***************************************************************************)
DbField == HostField \cup AccountField

(* A group's own domain is its own; an alias leads somewhere; clash tells  *)
(* of every clash there is, and old and owned of every domain in use.      *)
HostsOK(db) ==
    /\ db.primary \in Domain /\ db.alternates \subseteq Domain /\ db.old \subseteq Listed(db)
    /\ db.made \subseteq Group /\ DOMAIN db.main = Group
    /\ \A g \in Group : db.main[g] \in Host \cup {NoHost} /\ (g \notin db.made => db.main[g] = NoHost)
    /\ \A g, h \in Group : g # h /\ db.main[g] = db.main[h] => db.main[g] = NoHost
    /\ DOMAIN db.alias \subseteq Host /\ \A h \in DOMAIN db.alias : db.alias[h] \in db.made \cup {0}
    /\ ~db.clash => ~Clashing(db)
    /\ db.primary \in db.old
    /\ \A g \in Group : db.main[g] # NoHost => db.main[g][2] \in db.owned

SameHosts(db, db2) ==
    /\ db2.primary = db.primary /\ db2.old = db.old /\ db2.alternates = db.alternates
    /\ db2.alias = db.alias /\ db2.made = db.made /\ db2.main = db.main /\ db2.clash = db.clash
    /\ db2.owned = db.owned

LEMMA HostsStill ==
  ASSUME NEW db, NEW db2, HostsOK(db), SameHosts(db, db2)
  PROVE  HostsOK(db2)
<1>1. Listed(db2) = Listed(db)
  BY DEF SameHosts, Listed
<1>2. Clashing(db2) <=> Clashing(db)
  BY <1>1 DEF SameHosts, Clashing
<1>. QED BY <1>1, <1>2 DEF HostsOK, SameHosts

(* The history of domains that is kept is no more than that.               *)
LEMMA NotedIs ==
  ASSUME NEW db, DOMAIN db = DbField
  PROVE  /\ DOMAIN Noted(db) = DbField
         /\ Noted(db).clash = (db.clash \/ Clashing(db))
         /\ Noted(db).owned = db.owned \cup {db.main[g][2] : g \in db.made}
         /\ \A x \in DbField \ {"clash", "owned"} : Noted(db)[x] = db[x]
<1>. DEFINE clash == db.clash \/ Clashing(db)
            owned == db.owned \cup {db.main[g][2] : g \in db.made}
<1>1. Noted(db) = [db EXCEPT !.clash = clash, !.owned = owned]
  BY DEF Noted
<1>. HIDE DEF clash, owned
<1>2. /\ DOMAIN Noted(db) = DbField /\ Noted(db).clash = clash /\ Noted(db).owned = owned
      /\ \A x \in DbField \ {"clash", "owned"} : Noted(db)[x] = db[x]
  BY <1>1 DEF DbField, HostField
<1>. QED BY <1>2 DEF clash, owned

LEMMA NotedOK ==
  ASSUME NEW db, DOMAIN db = DbField,
         db.primary \in Domain, db.alternates \subseteq Domain, db.old \subseteq Listed(db), db.primary \in db.old,
         db.made \subseteq Group, DOMAIN db.main = Group,
         \A g \in Group : db.main[g] \in Host \cup {NoHost} /\ (g \notin db.made => db.main[g] = NoHost),
         \A g, h \in Group : g # h /\ db.main[g] = db.main[h] => db.main[g] = NoHost,
         DOMAIN db.alias \subseteq Host, \A h \in DOMAIN db.alias : db.alias[h] \in db.made \cup {0}
  PROVE  HostsOK(Noted(db)) /\ DOMAIN Noted(db) = DbField
<1>. DEFINE db2 == Noted(db)
<1>1. /\ db2.primary = db.primary /\ db2.old = db.old /\ db2.alternates = db.alternates
      /\ db2.alias = db.alias /\ db2.made = db.made /\ db2.main = db.main
      /\ db2.clash = (db.clash \/ Clashing(db)) /\ DOMAIN db2 = DbField
      /\ db2.owned = db.owned \cup {db.main[g][2] : g \in db.made}
  BY NotedIs DEF DbField, HostField
<1>. HIDE DEF db2
<1>2. Listed(db2) = Listed(db)
  BY <1>1 DEF Listed
<1>3. Clashing(db2) <=> Clashing(db)
  BY <1>1, <1>2 DEF Clashing
<1>4. ~db2.clash => ~Clashing(db2)
  BY <1>1, <1>3
<1>5. HostsOK(db2)
  BY <1>1, <1>2, <1>4 DEF HostsOK
<1>. QED BY <1>1, <1>5 DEF db2

(* What the commands about addresses leave alone.                          *)
SameAccounts(db, db2) ==
    /\ db2.token = db.token /\ db2.session = db.session /\ db2.bounce = db.bounce
    /\ db2.given = db.given /\ db2.ended = db.ended

LEMMA NotedAccounts ==
  ASSUME NEW db, NEW db2, DOMAIN db2 = DbField, SameAccounts(db, db2)
  PROVE  SameAccounts(db, Noted(db2))
BY NotedIs DEF SameAccounts, DbField, HostField, AccountField

(* The history of domains only grows.                                      *)
Later(db, db2) == db.old \subseteq db2.old /\ db.owned \subseteq db2.owned

LEMMA NotedLater ==
  ASSUME NEW db, NEW db2, DOMAIN db2 = DbField, Later(db, db2)
  PROVE  Later(db, Noted(db2))
BY NotedIs DEF Later, DbField, HostField

AddressesKept(db, db2) == HostsOK(db2) /\ DOMAIN db2 = DbField /\ SameAccounts(db, db2) /\ Later(db, db2)

LEMMA SetPrimaryOK ==
  ASSUME NEW db, DOMAIN db = DbField, HostsOK(db), NEW d \in Domain
  PROVE  AddressesKept(db, SetPrimaryDomain(db, d).db)
<1>. DEFINE new == [db EXCEPT !.primary = d, !.old = @ \cup {d}, !.alternates = (@ \cup {db.primary}) \ {d}]
<1>1. SetPrimaryDomain(db, d).db = Noted(new)
  BY DEF SetPrimaryDomain, Done
<1>2. /\ DOMAIN new = DbField /\ new.primary = d /\ new.old = db.old \cup {d}
      /\ new.alternates = (db.alternates \cup {db.primary}) \ {d}
      /\ new.made = db.made /\ new.main = db.main /\ new.alias = db.alias
      /\ SameAccounts(db, new) /\ Later(db, new)
  BY DEF DbField, HostField, AccountField, SameAccounts, Later
<1>. HIDE DEF new
<1>3. HostsOK(Noted(new)) /\ DOMAIN Noted(new) = DbField
  BY <1>2, NotedOK DEF HostsOK, Listed
<1>. QED BY <1>1, <1>2, <1>3, NotedAccounts, NotedLater DEF AddressesKept

LEMMA AddAlternateOK ==
  ASSUME NEW db, DOMAIN db = DbField, HostsOK(db), NEW d \in Domain
  PROVE  AddressesKept(db, AddAlternateDomain(db, d).db)
<1>. DEFINE new == [db EXCEPT !.alternates = @ \cup {d}]
<1>1. AddAlternateDomain(db, d).db \in {db, Noted(new)}
  BY DEF AddAlternateDomain, Done, Refused
<1>2. /\ DOMAIN new = DbField /\ new.primary = db.primary /\ new.old = db.old
      /\ new.alternates = db.alternates \cup {d}
      /\ new.made = db.made /\ new.main = db.main /\ new.alias = db.alias
      /\ SameAccounts(db, new) /\ SameAccounts(db, db)
      /\ new.owned = db.owned /\ Later(db, new) /\ Later(db, db)
  BY DEF DbField, HostField, AccountField, SameAccounts, Later
<1>. HIDE DEF new
<1>3. HostsOK(Noted(new)) /\ DOMAIN Noted(new) = DbField
  BY <1>2, NotedOK DEF HostsOK, Listed
<1>. QED BY <1>1, <1>2, <1>3, NotedAccounts, NotedLater DEF AddressesKept

LEMMA AddAliasOK ==
  ASSUME NEW db, DOMAIN db = DbField, HostsOK(db), NEW h \in Host, NEW g \in Group \cup {0}
  PROVE  AddressesKept(db, AddHostAlias(db, h, g).db)
<1>. DEFINE alias == [x \in DOMAIN db.alias \cup {h} |-> IF x = h THEN g ELSE db.alias[x]]
            new == [db EXCEPT !.alias = alias]
<1>1. \/ AddHostAlias(db, h, g).db = db
      \/ AddHostAlias(db, h, g).db = Noted(new) /\ g \in db.made \cup {0}
  BY DEF AddHostAlias, Done, Refused
<1>2. /\ DOMAIN new = DbField /\ new.primary = db.primary /\ new.old = db.old
      /\ new.alternates = db.alternates
      /\ new.made = db.made /\ new.main = db.main /\ new.alias = alias
      /\ SameAccounts(db, new) /\ SameAccounts(db, db)
      /\ new.owned = db.owned /\ Later(db, new) /\ Later(db, db)
  BY DEF DbField, HostField, AccountField, SameAccounts, Later
<1>. HIDE DEF new
<1>3. ASSUME g \in db.made \cup {0} PROVE HostsOK(Noted(new)) /\ DOMAIN Noted(new) = DbField
  <2>1. DOMAIN alias \subseteq Host /\ \A x \in DOMAIN alias : alias[x] \in db.made \cup {0}
    BY <1>3 DEF HostsOK
  <2>. HIDE DEF alias
  <2>. QED BY <1>2, <2>1, NotedOK DEF HostsOK, Listed
<1>. QED BY <1>1, <1>2, <1>3, NotedAccounts, NotedLater DEF AddressesKept

LEMMA SetGroupHostOK ==
  ASSUME NEW db, DOMAIN db = DbField, HostsOK(db), NEW g \in Group, NEW h \in Host \cup {NoHost}
  PROVE  AddressesKept(db, SetGroupHost(db, g, h).db)
<1>. DEFINE main == [db.main EXCEPT ![g] = h]
            new == [db EXCEPT !.main = main]
<1>0. DOMAIN db.main = Group
  BY DEF HostsOK
<1>1. \/ SetGroupHost(db, g, h).db = db
      \/ /\ SetGroupHost(db, g, h).db = Noted([db EXCEPT !.main[g] = h])
         /\ g \in db.made /\ (h # NoHost => \A other \in db.made \ {g} : db.main[other] # h)
  BY DEF SetGroupHost, Done, Refused
<1>2. [db EXCEPT !.main[g] = h] = new
  OBVIOUS
<1>3. /\ DOMAIN new = DbField /\ new.primary = db.primary /\ new.old = db.old
      /\ new.alternates = db.alternates
      /\ new.made = db.made /\ new.main = main /\ new.alias = db.alias
      /\ SameAccounts(db, new) /\ SameAccounts(db, db)
      /\ new.owned = db.owned /\ Later(db, new) /\ Later(db, db)
  BY DEF DbField, HostField, AccountField, SameAccounts, Later
<1>4. DOMAIN main = Group /\ main[g] = h /\ \A x \in Group \ {g} : main[x] = db.main[x]
  BY <1>0
<1>. HIDE DEF new, main
<1>5. ASSUME g \in db.made, h # NoHost => \A other \in db.made \ {g} : db.main[other] # h
      PROVE  HostsOK(Noted(new)) /\ DOMAIN Noted(new) = DbField
  <2>1. \A x \in Group : main[x] \in Host \cup {NoHost} /\ (x \notin db.made => main[x] = NoHost)
    BY <1>4, <1>5 DEF HostsOK
  <2>2. \A x, y \in Group : x # y /\ main[x] = main[y] => main[x] = NoHost
    BY <1>4, <1>5 DEF HostsOK
  <2>. QED BY <1>3, <1>4, <2>1, <2>2, NotedOK DEF HostsOK, Listed
<1>. QED BY <1>1, <1>2, <1>3, <1>5, NotedAccounts, NotedLater DEF AddressesKept

(* A new group has no domain of its own yet, so none it could clash with.  *)
LEMMA CreateGroupOK ==
  ASSUME NEW db, DOMAIN db = DbField, HostsOK(db), NEW g \in Group
  PROVE  AddressesKept(db, CreateGroup(db, g).db)
<1>. DEFINE new == [db EXCEPT !.made = @ \cup {g}]
<1>1. \/ CreateGroup(db, g).db = db
      \/ CreateGroup(db, g).db = new /\ g \notin db.made
  BY DEF CreateGroup, Done, Refused
<1>2. /\ DOMAIN new = DbField /\ new.primary = db.primary /\ new.old = db.old
      /\ new.alternates = db.alternates /\ new.clash = db.clash
      /\ new.made = db.made \cup {g} /\ new.main = db.main /\ new.alias = db.alias
      /\ SameAccounts(db, new) /\ SameAccounts(db, db)
      /\ new.owned = db.owned /\ Later(db, new) /\ Later(db, db)
  BY DEF DbField, HostField, AccountField, SameAccounts, Later
<1>. HIDE DEF new
<1>3. ASSUME g \notin db.made PROVE HostsOK(new)
  <2>1. Listed(new) = Listed(db)
    BY <1>2 DEF Listed
  <2>2. ~db.clash => ~Clashing(new)
    <3>. SUFFICES ASSUME ~Clashing(db), Clashing(new) PROVE FALSE
      BY DEF HostsOK
    <3>. DEFINE owned == {db.main[x] : x \in db.made}
    <3>1. {new.main[x] : x \in new.made} = owned \cup {NoHost}
      BY <1>2, <1>3 DEF HostsOK
    <3>2. NoHost[2] \notin Listed(db) /\ NoHost \notin DOMAIN db.alias
      BY DEF HostsOK, NoHost, Listed, Host
    <3>. QED BY <1>2, <2>1, <3>1, <3>2 DEF Clashing
  <2>. QED BY <1>2, <2>1, <2>2 DEF HostsOK
<1>. QED BY <1>1, <1>2, <1>3 DEF AddressesKept

(* Where a host leads, and where a browser ends that follows.              *)
LEMMA FollowIs ==
  ASSUME NEW db, NEW h, NEW x, NEW y,
         resolve(db, h) = To(x), x = y \/ resolve(db, x) = To(y), resolve(db, y).kind # "redirect"
  PROVE  Follow(db, h) = resolve(db, y)
<1>1. To(x).kind = "redirect" /\ To(x).host = x /\ To(y).kind = "redirect" /\ To(y).host = y
  BY DEF To
<1>2. Step(db, h) = x
  BY <1>1 DEF Step
<1>3. Step(db, y) = y
  BY DEF Step
<1>4. Step(db, Step(db, x)) = y
  BY <1>1, <1>3 DEF Step
<1>. QED BY <1>2, <1>4 DEF Follow, Last

LEMMA FollowStays ==
  ASSUME NEW db, NEW h, resolve(db, h).kind # "redirect"
  PROVE  Follow(db, h) = resolve(db, h)
BY DEF Follow, Last, Step

LEMMA HostKinds == Home.kind # "redirect" /\ \A g : At(g).kind # "redirect"
BY DEF Home, At

LEMMA HomeIsHome == ASSUME NEW db PROVE resolve(db, <<Bare, db.primary>>) = Home
<1>. DEFINE h == <<Bare, db.primary>>
<1>1. h[1] = Bare /\ h[2] = db.primary /\ Www # Bare /\ Bare \notin Group
  BY DEF Www, Bare
<1>. HIDE DEF h
<1>2. resolve(db, h) = Home
  BY <1>1 DEF resolve
<1>. QED BY <1>2 DEF h

LEMMA WwwIsHome == ASSUME NEW db PROVE resolve(db, <<Www, db.primary>>) = To(<<Bare, db.primary>>)
<1>. DEFINE h == <<Www, db.primary>>
<1>1. h[1] = Www /\ h[2] = db.primary /\ Www # Bare /\ Www \notin Group
  BY DEF Www, Bare
<1>. HIDE DEF h
<1>2. resolve(db, h) = To(<<Bare, db.primary>>)
  BY <1>1 DEF resolve
<1>. QED BY <1>2 DEF h

(* A listed domain that isn't the primary: each of its hosts leads to the  *)
(* same one there.                                                         *)
LEMMA ListedRedirects ==
  ASSUME NEW db, HostsOK(db), ~db.clash, NEW d \in Listed(db), d # db.primary, NEW sub
  PROVE  resolve(db, <<sub, d>>) = To(<<IF sub = Www THEN Bare ELSE sub, db.primary>>)
<1>. DEFINE h == <<sub, d>>
<1>1. ~Clashing(db) /\ d \in db.alternates
  BY DEF HostsOK, Listed
<1>2. h[1] = sub /\ h[2] = d
  OBVIOUS
<1>. HIDE DEF h
<1>3. Owners(db, h) = {}
  BY <1>1, <1>2 DEF Clashing, Owners
<1>4. h \notin DOMAIN db.alias
  BY <1>1, <1>2 DEF Clashing
<1>5. resolve(db, h) = To(<<IF sub = Www THEN Bare ELSE sub, db.primary>>)
  BY <1>1, <1>2, <1>3, <1>4 DEF resolve
<1>. QED BY <1>5 DEF h

(* A group's own host is nobody else's.                                    *)
LEMMA GroupIsThere ==
  ASSUME NEW db, HostsOK(db), ~db.clash, NEW g \in db.made
  PROVE  resolve(db, groupHost(db, g)) = At(g)
<1>1. ~Clashing(db) /\ g \in Group
  BY DEF HostsOK
<1>2. CASE db.main[g] = NoHost
  <2>. DEFINE h == <<g, db.primary>>
  <2>1. groupHost(db, g) = h
    BY <1>2 DEF groupHost
  <2>2. h[1] = g /\ h[2] = db.primary /\ g \notin {Bare, Www}
    BY <1>1 DEF Bare, Www
  <2>. HIDE DEF h
  <2>3. resolve(db, h) = At(g)
    BY <1>1, <1>2, <2>2 DEF resolve
  <2>. QED BY <2>1, <2>3
<1>3. CASE db.main[g] # NoHost
  <2>. DEFINE h == db.main[g]
  <2>1. groupHost(db, g) = h
    BY <1>3 DEF groupHost
  <2>2. h[2] # db.primary
    BY <1>1 DEF Clashing, Listed
  <2>3. Owners(db, h) = {g}
    <3>1. \A x \in db.made : x # g => db.main[x] # h
      BY <1>1, <1>3 DEF HostsOK
    <3>. QED BY <3>1 DEF Owners
  <2>. HIDE DEF h
  <2>4. resolve(db, h) = At(CHOOSE x \in Owners(db, h) : TRUE)
    BY <2>2, <2>3 DEF resolve
  <2>. QED BY <2>1, <2>3, <2>4
<1>. QED BY <1>2, <1>3

LEMMA PrimaryLeads ==
  ASSUME NEW db, HostsOK(db), ~db.clash, NEW g \in db.made
  PROVE  resolve(db, <<g, db.primary>>) = To(groupHost(db, g)) \/ <<g, db.primary>> = groupHost(db, g)
<1>. DEFINE h == <<g, db.primary>>
<1>1. h[1] = g /\ h[2] = db.primary /\ g \notin {Bare, Www} /\ g \in Group
  BY DEF HostsOK, Bare, Www
<1>. HIDE DEF h
<1>2. db.main[g] # NoHost => resolve(db, h) = To(db.main[g])
  BY <1>1 DEF resolve
<1>. QED BY <1>2 DEF groupHost, h

(* Old links work in any such site.db.                                     *)
LEMMA LinksWork ==
  ASSUME NEW db, HostsOK(db), ~db.clash
  PROVE  /\ \A d \in db.old \cup Listed(db) :
               /\ Follow(db, <<Bare, d>>) = Home /\ Follow(db, <<Www, d>>) = Home
               /\ \A g \in db.made : Follow(db, <<g, d>>) = At(g)
         /\ \A g \in db.made : resolve(db, groupHost(db, g)) = At(g)
         /\ \A h \in DOMAIN db.alias : Follow(db, h) = IF db.alias[h] = 0 THEN Home ELSE At(db.alias[h])
<1>. DEFINE home == <<Bare, db.primary>>
<1>1. resolve(db, home) = Home
  BY HomeIsHome
<1>2. Bare # Www /\ db.made \subseteq Group /\ \A g \in Group : g \notin {Bare, Www}
  BY DEF Bare, Www, HostsOK
<1>3. ASSUME NEW d \in Listed(db)
      PROVE  /\ Follow(db, <<Bare, d>>) = Home /\ Follow(db, <<Www, d>>) = Home
             /\ \A g \in db.made : Follow(db, <<g, d>>) = At(g)
  <2>1. CASE d = db.primary
    <3>1. Follow(db, <<Bare, d>>) = Home
      BY <1>1, <2>1, FollowStays, HostKinds
    <3>2. Follow(db, <<Www, d>>) = Home
      BY <1>1, <2>1, WwwIsHome, FollowIs, HostKinds
    <3>3. ASSUME NEW g \in db.made PROVE Follow(db, <<g, d>>) = At(g)
      BY <2>1, PrimaryLeads, GroupIsThere, FollowIs, FollowStays, HostKinds
    <3>. QED BY <3>1, <3>2, <3>3
  <2>2. CASE d # db.primary
    <3>0. \A sub : resolve(db, <<sub, d>>) = To(<<IF sub = Www THEN Bare ELSE sub, db.primary>>)
      BY <2>2, ListedRedirects
    <3>1. resolve(db, <<Bare, d>>) = To(home) /\ resolve(db, <<Www, d>>) = To(home)
      BY <1>2, <3>0
    <3>2. Follow(db, <<Bare, d>>) = Home /\ Follow(db, <<Www, d>>) = Home
      BY <1>1, <3>1, FollowIs, HostKinds
    <3>3. ASSUME NEW g \in db.made PROVE Follow(db, <<g, d>>) = At(g)
      <4>1. resolve(db, <<g, d>>) = To(<<g, db.primary>>)
        BY <1>2, <3>0
      <4>. QED BY <4>1, PrimaryLeads, GroupIsThere, FollowIs, HostKinds
    <3>. QED BY <3>2, <3>3
  <2>. QED BY <2>1, <2>2
<1>4. ASSUME NEW h \in DOMAIN db.alias
      PROVE  Follow(db, h) = IF db.alias[h] = 0 THEN Home ELSE At(db.alias[h])
  <2>1. ~Clashing(db) /\ db.alias[h] \in db.made \cup {0}
    BY DEF HostsOK
  <2>2. h[2] # db.primary /\ Owners(db, h) = {}
    BY <2>1 DEF Clashing, Owners, Listed
  <2>3. CASE db.alias[h] = 0
    <3>1. resolve(db, h) = To(home)
      BY <2>2, <2>3 DEF resolve
    <3>. QED BY <1>1, <2>3, <3>1, FollowIs, HostKinds
  <2>4. CASE db.alias[h] # 0
    <3>1. resolve(db, h) = To(groupHost(db, db.alias[h]))
      BY <2>2, <2>4 DEF resolve
    <3>2. resolve(db, groupHost(db, db.alias[h])) = At(db.alias[h])
      BY <2>1, <2>4, GroupIsThere
    <3>. QED BY <2>4, <3>1, <3>2, FollowIs, HostKinds
  <2>. QED BY <2>3, <2>4
<1>5. db.old \subseteq Listed(db)
  BY DEF HostsOK
<1>. QED BY <1>3, <1>4, <1>5, GroupIsThere

(***************************************************************************)
(* Accounts                                                                *)
(***************************************************************************)
TokenField == {"expires", "tries", "used", "next"}

(* f: ids up to f are taken.  w: the wrong codes that were typed, each of  *)
(* which was counted at least once.                                        *)
TokensOK(db, f, w) ==
    /\ DOMAIN db.token \subseteq 1 .. f
    /\ \A t \in DOMAIN db.token : DOMAIN db.token[t] = TokenField /\ db.token[t].tries \in Nat
    /\ DOMAIN w \subseteq 1 .. f
    /\ \A t \in DOMAIN w : w[t] \in Nat /\ (t \in DOMAIN db.token => w[t] <= db.token[t].tries)

(* Whatever a session was made for is used up: the sign-in is marked, and  *)
(* the code, which is no sign-in's, is gone.                               *)
SessionsOK(db, f) ==
    /\ \A s \in db.given : /\ s.id \in 1 .. f /\ s.from \in 1 .. f
                           /\ s.wrong \in Nat /\ s.wrong < MaxCodeTries
    /\ \A s, t \in db.given : s.from = t.from => s = t
    /\ \A s \in db.given : s.from \in DOMAIN db.token => db.token[s.from].used
    /\ \A b \in db.bounce : /\ b.id \in 1 .. f /\ b.id \notin DOMAIN db.token
                            /\ \A s \in db.given : s.from # b.id
    /\ db.ended \subseteq 1 .. f
    /\ \A s \in db.session : s.id \notin db.ended

AccountsOK(db, f, w) == TokensOK(db, f, w) /\ SessionsOK(db, f)
DbOK(db, f, w) == DOMAIN db = DbField /\ HostsOK(db) /\ AccountsOK(db, f, w)

(* The commands about accounts leave the addresses alone.                  *)
LEMMA AccountsChange ==
  ASSUME NEW db, NEW db2, NEW f, NEW w, DbOK(db, f, w),
         DOMAIN db2 = DbField, SameHosts(db, db2), NEW f2, NEW w2, AccountsOK(db2, f2, w2)
  PROVE  DbOK(db2, f2, w2)
BY HostsStill DEF DbOK

LEMMA HostsChange ==
  ASSUME NEW db, NEW db2, NEW f, NEW w, DbOK(db, f, w), AddressesKept(db, db2)
  PROVE  DbOK(db2, f, w)
BY DEF DbOK, AddressesKept, SameAccounts, AccountsOK, TokensOK, SessionsOK

LEMMA MoreIds ==
  ASSUME NEW db, NEW f \in Nat, NEW w, DbOK(db, f, w)
  PROVE  DbOK(db, f + 1, w)
<1>1. 1 .. f \subseteq 1 .. (f + 1)
  OBVIOUS
<1>2. TokensOK(db, f + 1, w)
  BY <1>1 DEF DbOK, AccountsOK, TokensOK
<1>3. SessionsOK(db, f + 1)
  BY <1>1 DEF DbOK, AccountsOK, SessionsOK
<1>. QED BY <1>2, <1>3 DEF DbOK, AccountsOK

(* A sign-in is made once.                                                 *)
LEMMA CreateLoginOK ==
  ASSUME NEW db, NEW f \in Nat, NEW w, DbOK(db, f, w), NEW next, NEW at
  PROVE  LET c == CreateLogin(db, f + 1, next, at).db
         IN DbOK(c, f + 1, w) /\ CreateLogin(c, f + 1, next, at).db = c
<1>. DEFINE t == f + 1
            row == [expires |-> at + LoginTTL, tries |-> 0, used |-> FALSE, next |-> next]
            token == Put(db.token, t, row)
            c == [db EXCEPT !.token = token]
<1>1. t \in Nat /\ t \notin 1 .. f /\ 1 .. f \subseteq 1 .. t /\ t \in 1 .. t
  OBVIOUS
<1>2. DOMAIN db.token \subseteq 1 .. f
  BY DEF DbOK, AccountsOK, TokensOK
<1>3. CreateLogin(db, f + 1, next, at).db = c
  BY <1>1, <1>2 DEF CreateLogin, Done
<1>4. /\ DOMAIN c = DbField /\ c.token = token /\ SameHosts(db, c)
      /\ c.session = db.session /\ c.bounce = db.bounce /\ c.given = db.given /\ c.ended = db.ended
  BY DEF DbOK, DbField, HostField, AccountField, SameHosts
<1>5. DOMAIN row = TokenField /\ row.tries = 0
  BY DEF TokenField
<1>. HIDE DEF c, row, t
<1>6. /\ DOMAIN token = DOMAIN db.token \cup {t} /\ token[t] = row
      /\ \A x \in DOMAIN db.token \ {t} : token[x] = db.token[x]
  BY DEF Put
<1>. HIDE DEF token
<1>7. TokensOK(c, t, w)
  <2>1. TokensOK(db, f, w)
    BY DEF DbOK, AccountsOK
  <2>2. DOMAIN c.token \subseteq 1 .. t /\ DOMAIN w \subseteq 1 .. t
    BY <1>1, <1>4, <1>6, <2>1 DEF TokensOK
  <2>3. \A x \in DOMAIN c.token : DOMAIN c.token[x] = TokenField /\ c.token[x].tries \in Nat
    BY <1>4, <1>5, <1>6, <2>1 DEF TokensOK
  <2>4. \A x \in DOMAIN w : w[x] \in Nat /\ (x \in DOMAIN c.token => w[x] <= c.token[x].tries)
    BY <1>1, <1>4, <1>6, <2>1 DEF TokensOK
  <2>. QED BY <2>2, <2>3, <2>4 DEF TokensOK
<1>8. SessionsOK(c, t)
  <2>1. SessionsOK(db, f)
    BY DEF DbOK, AccountsOK
  <2>2. \A s \in c.given : s.from \in DOMAIN c.token => c.token[s.from].used
    BY <1>1, <1>4, <1>6, <2>1 DEF SessionsOK
  <2>3. \A b \in c.bounce : /\ b.id \in 1 .. t /\ b.id \notin DOMAIN c.token
                            /\ \A s \in c.given : s.from # b.id
    BY <1>1, <1>4, <1>6, <2>1 DEF SessionsOK
  <2>. QED BY <1>1, <1>4, <2>1, <2>2, <2>3 DEF SessionsOK
<1>9. DbOK(c, t, w)
  BY <1>4, <1>7, <1>8, AccountsChange DEF AccountsOK
<1>10. CreateLogin(c, t, next, at).db = c
  BY <1>4, <1>6 DEF CreateLogin, Refused
<1>. QED BY <1>3, <1>9, <1>10 DEF t

(* A wrong code is counted; typed, or counted again.                       *)
LEMMA FailOK ==
  ASSUME NEW db, NEW f \in Nat, NEW w, DbOK(db, f, w), NEW t
  PROVE  /\ DbOK(FailLoginCode(db, t).db, f, w)
         /\ t \in 1 .. f => DbOK(FailLoginCode(db, t).db, f, Put(w, t, IF t \in DOMAIN w THEN w[t] + 1 ELSE 1))
<1>. DEFINE c == FailLoginCode(db, t).db
            typed == IF t \in DOMAIN w THEN w[t] + 1 ELSE 1
            w2 == Put(w, t, typed)
<1>1. TokensOK(db, f, w) /\ SessionsOK(db, f) /\ DOMAIN db = DbField
  BY DEF DbOK, AccountsOK
<1>2. /\ DOMAIN c = DbField /\ SameHosts(db, c) /\ DOMAIN c.token = DOMAIN db.token
      /\ c.session = db.session /\ c.bounce = db.bounce /\ c.given = db.given /\ c.ended = db.ended
      /\ \A x \in DOMAIN db.token : /\ DOMAIN c.token[x] = TokenField /\ c.token[x].used = db.token[x].used
                                    /\ c.token[x].tries = db.token[x].tries + (IF x = t THEN 1 ELSE 0)
  <2>1. CASE t \notin DOMAIN db.token
    <3>1. c = db
      BY <2>1 DEF FailLoginCode, Done
    <3>. QED BY <1>1, <2>1, <3>1 DEF SameHosts, TokensOK
  <2>2. CASE t \in DOMAIN db.token
    <3>. DEFINE row == [db.token[t] EXCEPT !.tries = @ + 1]
                token == [db.token EXCEPT ![t] = row]
    <3>1. c = [db EXCEPT !.token = token]
      BY <2>2 DEF FailLoginCode, Done
    <3>2. /\ DOMAIN row = TokenField /\ row.used = db.token[t].used
          /\ row.tries = db.token[t].tries + 1
      BY <1>1, <2>2 DEF TokensOK, TokenField
    <3>. HIDE DEF row, c
    <3>3. /\ DOMAIN token = DOMAIN db.token /\ token[t] = row
          /\ \A x \in DOMAIN db.token \ {t} : token[x] = db.token[x]
      BY <2>2
    <3>. HIDE DEF token
    <3>4. /\ DOMAIN c = DbField /\ c.token = token /\ SameHosts(db, c)
          /\ c.session = db.session /\ c.bounce = db.bounce /\ c.given = db.given /\ c.ended = db.ended
      BY <1>1, <3>1 DEF DbField, HostField, AccountField, SameHosts
    <3>5. \A x \in DOMAIN db.token : db.token[x].tries + 0 = db.token[x].tries
      BY <1>1 DEF TokensOK
    <3>. QED BY <1>1, <3>2, <3>3, <3>4, <3>5 DEF TokensOK
  <2>. QED BY <2>1, <2>2
<1>. HIDE DEF c
<1>3. TokensOK(c, f, w)
  BY <1>1, <1>2 DEF TokensOK
<1>4. SessionsOK(c, f)
  BY <1>1, <1>2 DEF SessionsOK
<1>5. ASSUME t \in 1 .. f PROVE TokensOK(c, f, w2)
  <2>. HIDE DEF typed
  <2>1. DOMAIN w2 = DOMAIN w \cup {t} /\ w2[t] = typed /\ \A x \in DOMAIN w \ {t} : w2[x] = w[x]
    BY DEF Put
  <2>. HIDE DEF w2
  <2>. USE DEF typed
  <2>2. ASSUME NEW x \in DOMAIN w2
        PROVE  w2[x] \in Nat /\ (x \in DOMAIN c.token => w2[x] <= c.token[x].tries)
    BY <1>1, <1>2, <2>1 DEF TokensOK
  <2>. QED BY <1>3, <1>5, <2>1, <2>2 DEF TokensOK
<1>. QED BY <1>2, <1>3, <1>4, <1>5, AccountsChange DEF AccountsOK, c

(* A session is added to what there is.                                    *)
LEMMA WithSessionIs ==
  ASSUME NEW db, DOMAIN db = DbField, NEW id, NEW at, NEW from, NEW wrong
  PROVE  LET c == WithSession(db, id, at, from, wrong)
         IN /\ DOMAIN c = DbField /\ SameHosts(db, c)
            /\ c.token = db.token /\ c.bounce = db.bounce /\ c.ended = db.ended
            /\ c.session = db.session \cup {[id |-> id, expires |-> at + SessionTTL, from |-> from]}
            /\ c.given = db.given \cup {[id |-> id, from |-> from, wrong |-> wrong]}
<1>. DEFINE session == db.session \cup {[id |-> id, expires |-> at + SessionTTL, from |-> from]}
            given == db.given \cup {[id |-> id, from |-> from, wrong |-> wrong]}
            c == [db EXCEPT !.session = session, !.given = given]
<1>1. WithSession(db, id, at, from, wrong) = c
  BY DEF WithSession
<1>. HIDE DEF session, given
<1>2. /\ DOMAIN c = DbField /\ SameHosts(db, c)
      /\ c.token = db.token /\ c.bounce = db.bounce /\ c.ended = db.ended
      /\ c.session = session /\ c.given = given
  BY DEF DbField, HostField, AccountField, SameHosts
<1>. QED BY <1>1, <1>2 DEF session, given

(* A session is made for a sign-in or a code that had none yet.            *)
Gives(db, c, f, at, from, wrong) ==
    /\ from \in 1 .. f /\ wrong \in Nat /\ wrong < MaxCodeTries
    /\ \A s \in db.given : s.from # from
    /\ c.ended = db.ended
    /\ c.session = db.session \cup {[id |-> f + 1, expires |-> at + SessionTTL, from |-> from]}
    /\ c.given = db.given \cup {[id |-> f + 1, from |-> from, wrong |-> wrong]}
    /\ c.bounce \subseteq db.bounce /\ \A b \in c.bounce : b.id # from
    /\ DOMAIN c.token = DOMAIN db.token
    /\ \A x \in DOMAIN db.token : db.token[x].used \/ x = from => c.token[x].used

LEMMA GivenOK ==
  ASSUME NEW db, NEW c, NEW f \in Nat, NEW at, NEW from, NEW wrong,
         SessionsOK(db, f), Gives(db, c, f, at, from, wrong)
  PROVE  SessionsOK(c, f + 1)
<1>. DEFINE new == [id |-> f + 1, from |-> from, wrong |-> wrong]
            session == [id |-> f + 1, expires |-> at + SessionTTL, from |-> from]
<1>1. f + 1 \in 1 .. f + 1 /\ f + 1 \notin 1 .. f /\ 1 .. f \subseteq 1 .. f + 1
  OBVIOUS
<1>2. new.id = f + 1 /\ new.from = from /\ new.wrong = wrong /\ session.id = f + 1
  OBVIOUS
<1>3. c.given = db.given \cup {new} /\ c.session = db.session \cup {session}
  BY DEF Gives
<1>. HIDE DEF new, session
<1>4. \A s \in c.given : s.id \in 1 .. f + 1 /\ s.from \in 1 .. f + 1 /\ s.wrong \in Nat /\ s.wrong < MaxCodeTries
  BY <1>1, <1>2, <1>3 DEF SessionsOK, Gives
<1>5. \A s, t \in c.given : s.from = t.from => s = t
  BY <1>2, <1>3 DEF SessionsOK, Gives
<1>6. \A s \in c.given : s.from \in DOMAIN c.token => c.token[s.from].used
  BY <1>2, <1>3 DEF SessionsOK, Gives
<1>7. \A b \in c.bounce : /\ b.id \in 1 .. f + 1 /\ b.id \notin DOMAIN c.token
                          /\ \A s \in c.given : s.from # b.id
  BY <1>1, <1>2, <1>3 DEF SessionsOK, Gives
<1>8. c.ended \subseteq 1 .. f + 1 /\ \A s \in c.session : s.id \notin c.ended
  BY <1>1, <1>2, <1>3 DEF SessionsOK, Gives
<1>. QED BY <1>4, <1>5, <1>6, <1>7, <1>8 DEF SessionsOK

(* A sign-in that is redeemed is used up.                                  *)
LEMMA RedeemOK ==
  ASSUME NEW db, NEW f \in Nat, NEW w, DbOK(db, f, w), NEW t, NEW at,
         NEW wrong, wrong = IF t \in DOMAIN w THEN w[t] ELSE 0
  PROVE  LET c == RedeemLogin(db, t, f + 1, at, wrong).db
         IN DbOK(c, f + 1, w) /\ RedeemLogin(c, t, f + 1, at, wrong).db = c
<1>1. CASE ~usable(db, t, at)
  <2>1. RedeemLogin(db, t, f + 1, at, wrong).db = db
    BY <1>1 DEF RedeemLogin, Refused
  <2>. QED BY <2>1, MoreIds
<1>2. CASE usable(db, t, at)
  <2>. DEFINE row == [db.token[t] EXCEPT !.used = TRUE]
              token == [db.token EXCEPT ![t] = row]
              one == [db EXCEPT !.token = token, !.known = TRUE]
              c == WithSession(one, f + 1, at, t, wrong)
  <2>1. TokensOK(db, f, w) /\ SessionsOK(db, f) /\ DOMAIN db = DbField
    BY DEF DbOK, AccountsOK
  <2>2. RedeemLogin(db, t, f + 1, at, wrong).db = c
    BY <1>2 DEF RedeemLogin, Done
  <2>3. t \in DOMAIN db.token /\ ~db.token[t].used /\ db.token[t].tries < MaxCodeTries
    BY <1>2 DEF usable
  <2>4. /\ DOMAIN row = TokenField /\ row.tries = db.token[t].tries /\ row.used
    BY <2>1, <2>3 DEF TokensOK, TokenField
  <2>. HIDE DEF row
  <2>5. DOMAIN token = DOMAIN db.token /\ token[t] = row /\ \A x \in DOMAIN db.token \ {t} : token[x] = db.token[x]
    BY <2>3
  <2>. HIDE DEF token
  <2>6. /\ DOMAIN one = DbField /\ one.token = token /\ SameHosts(db, one)
        /\ one.session = db.session /\ one.bounce = db.bounce /\ one.given = db.given /\ one.ended = db.ended
    BY <2>1 DEF DbField, HostField, AccountField, SameHosts
  <2>. HIDE DEF one
  <2>7. /\ DOMAIN c = DbField /\ SameHosts(one, c)
        /\ c.token = token /\ c.bounce = db.bounce /\ c.ended = db.ended
        /\ c.session = db.session \cup {[id |-> f + 1, expires |-> at + SessionTTL, from |-> t]}
        /\ c.given = db.given \cup {[id |-> f + 1, from |-> t, wrong |-> wrong]}
    BY <2>6, WithSessionIs
  <2>. HIDE DEF c
  <2>8. SameHosts(db, c)
    BY <2>6, <2>7 DEF SameHosts
  <2>9. TokensOK(c, f + 1, w)
    <3>1. 1 .. f \subseteq 1 .. f + 1
      OBVIOUS
    <3>. QED BY <2>1, <2>4, <2>5, <2>7, <3>1 DEF TokensOK
  <2>10. wrong \in Nat /\ wrong < MaxCodeTries /\ t \in 1 .. f
    <3>1. MaxCodeTries \in Nat /\ 0 < MaxCodeTries
      BY TriesAssumption
    <3>2. t \in 1 .. f /\ db.token[t].tries \in Nat
      BY <2>1, <2>3 DEF TokensOK
    <3>3. CASE t \in DOMAIN w
      BY <2>1, <2>3, <3>1, <3>2, <3>3 DEF TokensOK
    <3>4. CASE t \notin DOMAIN w
      BY <3>1, <3>2, <3>4
    <3>. QED BY <3>3, <3>4
  <2>11. /\ \A s \in db.given : s.from # t
         /\ \A b \in db.bounce : b.id # t
    BY <2>1, <2>3 DEF SessionsOK
  <2>12. \A x \in DOMAIN db.token : db.token[x].used \/ x = t => c.token[x].used
    BY <2>4, <2>5, <2>7
  <2>13. SessionsOK(c, f + 1)
    <3>1. DOMAIN c.token = DOMAIN db.token /\ c.bounce \subseteq db.bounce
      BY <2>5, <2>7
    <3>2. Gives(db, c, f, at, t, wrong)
      BY <2>7, <2>10, <2>11, <2>12, <3>1 DEF Gives
    <3>. QED BY <2>1, <3>2, GivenOK
  <2>14. DbOK(c, f + 1, w)
    BY <2>7, <2>8, <2>9, <2>13, AccountsChange DEF AccountsOK
  <2>15. ~usable(c, t, at)
    BY <2>4, <2>5, <2>7 DEF usable
  <2>16. RedeemLogin(c, t, f + 1, at, wrong).db = c
    BY <2>15 DEF RedeemLogin, Refused
  <2>. QED BY <2>2, <2>14, <2>16
<1>. QED BY <1>1, <1>2

(* A code is made once, and isn't a sign-in's.                             *)
LEMMA StartBounceOK ==
  ASSUME NEW db, NEW f \in Nat, NEW w, DbOK(db, f, w), NEW host, NEW at
  PROVE  LET c == StartBounce(db, f + 1, host, at).db
         IN DbOK(c, f + 1, w) /\ StartBounce(c, f + 1, host, at).db = c
<1>. DEFINE new == [id |-> f + 1, host |-> host, expires |-> at + BounceTTL]
            codes == {b \in db.bounce : b.expires > at} \cup {new}
            c == [db EXCEPT !.bounce = codes]
<1>1. TokensOK(db, f, w) /\ SessionsOK(db, f) /\ DOMAIN db = DbField
  BY DEF DbOK, AccountsOK
<1>2. f + 1 \in 1 .. f + 1 /\ f + 1 \notin 1 .. f /\ 1 .. f \subseteq 1 .. f + 1
  OBVIOUS
<1>3. ~ \E b \in db.bounce : b.id = f + 1
  BY <1>1, <1>2 DEF SessionsOK
<1>4. StartBounce(db, f + 1, host, at).db = c
  BY <1>3 DEF StartBounce, Done
<1>5. new.id = f + 1
  OBVIOUS
<1>. HIDE DEF new
<1>6. codes \subseteq db.bounce \cup {new} /\ new \in codes
  OBVIOUS
<1>. HIDE DEF codes
<1>7. /\ DOMAIN c = DbField /\ c.bounce = codes /\ SameHosts(db, c)
      /\ c.token = db.token /\ c.session = db.session /\ c.given = db.given /\ c.ended = db.ended
  BY <1>1 DEF DbField, HostField, AccountField, SameHosts
<1>. HIDE DEF c
<1>8. TokensOK(c, f + 1, w)
  BY <1>1, <1>2, <1>7 DEF TokensOK
<1>9. \A b \in c.bounce : /\ b.id \in 1 .. f + 1 /\ b.id \notin DOMAIN c.token
                          /\ \A s \in c.given : s.from # b.id
  <2>. TAKE b \in c.bounce
  <2>1. CASE b \in db.bounce
    BY <1>1, <1>2, <1>7, <2>1 DEF SessionsOK
  <2>2. CASE b = new
    BY <1>1, <1>2, <1>5, <1>7, <2>2 DEF SessionsOK, TokensOK
  <2>. QED BY <1>6, <1>7, <2>1, <2>2
<1>10. SessionsOK(c, f + 1)
  BY <1>1, <1>2, <1>7, <1>9 DEF SessionsOK
<1>11. DbOK(c, f + 1, w)
  BY <1>7, <1>8, <1>10, AccountsChange DEF AccountsOK
<1>12. StartBounce(c, f + 1, host, at).db = c
  BY <1>5, <1>6, <1>7 DEF StartBounce, Refused
<1>. QED BY <1>4, <1>11, <1>12

(* A code is gone once it was used.                                        *)
LEMMA FinishBounceOK ==
  ASSUME NEW db, NEW f \in Nat, NEW w, DbOK(db, f, w), NEW code, NEW host, NEW at
  PROVE  LET c == FinishBounce(db, code, host, f + 1, at).db
         IN DbOK(c, f + 1, w) /\ FinishBounce(c, code, host, f + 1, at).db = c
<1>1. CASE ~ \E b \in db.bounce : b.id = code /\ b.host = host /\ b.expires > at
  <2>1. FinishBounce(db, code, host, f + 1, at).db = db
    BY <1>1 DEF FinishBounce, Refused
  <2>. QED BY <2>1, MoreIds
<1>2. CASE \E b \in db.bounce : b.id = code /\ b.host = host /\ b.expires > at
  <2>. DEFINE codes == {b \in db.bounce : b.id # code}
              one == [db EXCEPT !.bounce = codes]
              c == WithSession(one, f + 1, at, code, 0)
  <2>1. TokensOK(db, f, w) /\ SessionsOK(db, f) /\ DOMAIN db = DbField
    BY DEF DbOK, AccountsOK
  <2>2. FinishBounce(db, code, host, f + 1, at).db = c
    BY <1>2 DEF FinishBounce, Done
  <2>3. codes \subseteq db.bounce /\ \A b \in codes : b.id # code
    OBVIOUS
  <2>. HIDE DEF codes
  <2>4. /\ DOMAIN one = DbField /\ one.bounce = codes /\ SameHosts(db, one)
        /\ one.token = db.token /\ one.session = db.session /\ one.given = db.given /\ one.ended = db.ended
    BY <2>1 DEF DbField, HostField, AccountField, SameHosts
  <2>. HIDE DEF one
  <2>5. /\ DOMAIN c = DbField /\ SameHosts(one, c)
        /\ c.token = db.token /\ c.bounce = codes /\ c.ended = db.ended
        /\ c.session = db.session \cup {[id |-> f + 1, expires |-> at + SessionTTL, from |-> code]}
        /\ c.given = db.given \cup {[id |-> f + 1, from |-> code, wrong |-> 0]}
    BY <2>4, WithSessionIs
  <2>. HIDE DEF c
  <2>6. SameHosts(db, c)
    BY <2>4, <2>5 DEF SameHosts
  <2>7. TokensOK(c, f + 1, w)
    <3>1. 1 .. f \subseteq 1 .. f + 1
      OBVIOUS
    <3>. QED BY <2>1, <2>5, <3>1 DEF TokensOK
  <2>8. /\ code \in 1 .. f /\ code \notin DOMAIN db.token
        /\ \A s \in db.given : s.from # code
    BY <1>2, <2>1 DEF SessionsOK
  <2>9. SessionsOK(c, f + 1)
    <3>1. 0 \in Nat /\ 0 < MaxCodeTries
      BY TriesAssumption
    <3>2. \A x \in DOMAIN db.token : db.token[x].used \/ x = code => c.token[x].used
      BY <2>5, <2>8
    <3>3. c.bounce \subseteq db.bounce /\ \A b \in c.bounce : b.id # code
      BY <2>3, <2>5
    <3>4. Gives(db, c, f, at, code, 0)
      BY <2>5, <2>8, <3>1, <3>2, <3>3 DEF Gives
    <3>. QED BY <2>1, <3>4, GivenOK
  <2>10. DbOK(c, f + 1, w)
    BY <2>5, <2>6, <2>7, <2>9, AccountsChange DEF AccountsOK
  <2>11. ~ \E b \in c.bounce : b.id = code /\ b.host = host /\ b.expires > at
    BY <2>3, <2>5
  <2>12. FinishBounce(c, code, host, f + 1, at).db = c
    BY <2>11 DEF FinishBounce, Refused
  <2>. QED BY <2>2, <2>10, <2>12
<1>. QED BY <1>1, <1>2

(* Sign-ins and sessions may go.                                           *)
LEMMA FewerOK ==
  ASSUME NEW db, NEW db2, NEW f, NEW w, DbOK(db, f, w), DOMAIN db2 = DbField, SameHosts(db, db2),
         DOMAIN db2.token \subseteq DOMAIN db.token, \A t \in DOMAIN db2.token : db2.token[t] = db.token[t],
         db2.session \subseteq db.session, db2.given = db.given, db2.bounce = db.bounce, db2.ended = db.ended
  PROVE  DbOK(db2, f, w)
<1>1. TokensOK(db2, f, w)
  BY DEF DbOK, AccountsOK, TokensOK
<1>2. SessionsOK(db2, f)
  BY DEF DbOK, AccountsOK, SessionsOK
<1>. QED BY <1>1, <1>2, AccountsChange DEF AccountsOK

LEMMA SetHandleOK ==
  ASSUME NEW db, NEW f, NEW w, DbOK(db, f, w), NEW h
  PROVE  DbOK(SetHandle(db, h).db, f, w)
<1>. DEFINE c == [db EXCEPT !.handle = h]
<1>1. SetHandle(db, h).db \in {db, c}
  BY DEF SetHandle, Done, Refused
<1>2. /\ DOMAIN c = DbField /\ SameHosts(db, c) /\ c.token = db.token /\ c.session = db.session
      /\ c.given = db.given /\ c.bounce = db.bounce /\ c.ended = db.ended
  BY DEF DbOK, DbField, HostField, AccountField, SameHosts
<1>. HIDE DEF c
<1>. QED BY <1>1, <1>2, FewerOK

LEMMA SetNotifyPrefsOK ==
  ASSUME NEW db, NEW f, NEW w, DbOK(db, f, w), NEW email, NEW daily
  PROVE  DbOK(SetNotifyPrefs(db, email, daily).db, f, w)
<1>. DEFINE c == [db EXCEPT !.email = email, !.digest = daily]
<1>1. SetNotifyPrefs(db, email, daily).db = c
  BY DEF SetNotifyPrefs, Done
<1>2. /\ DOMAIN c = DbField /\ SameHosts(db, c) /\ c.token = db.token /\ c.session = db.session
      /\ c.given = db.given /\ c.bounce = db.bounce /\ c.ended = db.ended
  BY DEF DbOK, DbField, HostField, AccountField, SameHosts
<1>. HIDE DEF c
<1>. QED BY <1>1, <1>2, FewerOK

LEMMA EndSessionOK ==
  ASSUME NEW db, NEW f, NEW w, DbOK(db, f, w), NEW id
  PROVE  DbOK(EndSession(db, id).db, f, w)
<1>. DEFINE session == {s \in db.session : s.id # id}
            c == [db EXCEPT !.session = session]
<1>1. EndSession(db, id).db = c
  BY DEF EndSession, Done
<1>2. session \subseteq db.session
  OBVIOUS
<1>. HIDE DEF session
<1>3. /\ DOMAIN c = DbField /\ SameHosts(db, c) /\ c.token = db.token /\ c.session = session
      /\ c.given = db.given /\ c.bounce = db.bounce /\ c.ended = db.ended
  BY DEF DbOK, DbField, HostField, AccountField, SameHosts
<1>. HIDE DEF c
<1>. QED BY <1>1, <1>2, <1>3, FewerOK

LEMMA PurgeOK ==
  ASSUME NEW db, NEW f, NEW w, DbOK(db, f, w), NEW before
  PROVE  DbOK(Purge(db, before).db, f, w)
<1>. DEFINE token == [t \in {u \in DOMAIN db.token : db.token[u].expires >= before} |-> db.token[t]]
            session == {s \in db.session : s.expires >= before}
            c == [db EXCEPT !.token = token, !.session = session]
<1>1. Purge(db, before).db = c
  BY DEF Purge, Done
<1>2. /\ session \subseteq db.session /\ DOMAIN token \subseteq DOMAIN db.token
      /\ \A t \in DOMAIN token : token[t] = db.token[t]
  OBVIOUS
<1>. HIDE DEF session, token
<1>3. /\ DOMAIN c = DbField /\ SameHosts(db, c) /\ c.token = token /\ c.session = session
      /\ c.given = db.given /\ c.bounce = db.bounce /\ c.ended = db.ended
  BY DEF DbOK, DbField, HostField, AccountField, SameHosts
<1>. HIDE DEF c
<1>. QED BY <1>1, <1>2, <1>3, FewerOK

(* A suspension leaves no session there was before.                        *)
LEMMA SuspendOK ==
  ASSUME NEW db, NEW f, NEW w, DbOK(db, f, w), NEW until, NEW at
  PROVE  DbOK(SuspendUser(db, until, at).db, f, w)
<1>. DEFINE ended == db.ended \cup {s.id : s \in db.given}
            lifted == [db EXCEPT !.until = until]
            c == [db EXCEPT !.until = until, !.session = {}, !.ended = ended]
<1>1. SuspendUser(db, until, at).db \in {db, lifted, c}
  BY DEF SuspendUser, Done, Refused
<1>2. /\ DOMAIN lifted = DbField /\ SameHosts(db, lifted) /\ lifted.token = db.token /\ lifted.session = db.session
      /\ lifted.given = db.given /\ lifted.bounce = db.bounce /\ lifted.ended = db.ended
  BY DEF DbOK, DbField, HostField, AccountField, SameHosts
<1>3. DbOK(lifted, f, w)
  BY <1>2, FewerOK
<1>4. ended \subseteq 1 .. f
  BY DEF DbOK, AccountsOK, SessionsOK
<1>. HIDE DEF ended, lifted
<1>5. /\ DOMAIN c = DbField /\ SameHosts(db, c) /\ c.token = db.token /\ c.session = {}
      /\ c.given = db.given /\ c.bounce = db.bounce /\ c.ended = ended
  BY DEF DbOK, DbField, HostField, AccountField, SameHosts
<1>. HIDE DEF c
<1>6. TokensOK(c, f, w)
  BY <1>5 DEF DbOK, AccountsOK, TokensOK
<1>7. SessionsOK(c, f)
  BY <1>4, <1>5 DEF DbOK, AccountsOK, SessionsOK
<1>. QED BY <1>1, <1>3, <1>5, <1>6, <1>7, AccountsChange DEF AccountsOK

(* What every copy of site.db was when it was the last.                    *)
CopyOK(db, f) ==
    DOMAIN db.token \subseteq 1 .. f /\ \A s \in db.session : s.id \notin db.ended

(* The inductive invariant of the addresses and the accounts.              *)
SiteInv ==
    /\ \E S : site \in Seq(S)
    /\ Len(site) > 0
    /\ DOMAIN seen = Node /\ \A n \in Node : seen[n] \in 1 .. Len(site)
    /\ fresh \in Nat /\ "wrong" \in DOMAIN browser
    /\ \A i \in 1 .. Len(site) : CopyOK(site[i], fresh)
    /\ DbOK(Db, fresh, browser.wrong)

(* A command was applied at node n, which may not have heard of it.        *)
Grew(n, c, again) ==
    /\ site' = Append(site, c) \/ site' = site \o <<c, again>>
    /\ seen' = seen \/ seen' = [seen EXCEPT ![n] = Len(site')]

(* The log after a command was applied, once or twice.                     *)
LEMMA LogGrows ==
  ASSUME NEW S, site \in Seq(S), NEW n \in Node, NEW c, NEW again, Grew(n, c, again)
  PROVE  /\ site' \in Seq(S \cup {c, again})
         /\ Len(site) \in Nat /\ Len(site') \in {Len(site) + 1, Len(site) + 2}
         /\ \A i \in 1 .. Len(site) : site'[i] = site[i]
         /\ \A i \in Len(site) + 1 .. Len(site') : site'[i] \in {c, again}
         /\ site' = Append(site, c) =>
               /\ Db' = c
               /\ \A i \in 1 .. Len(site') : (i \in 1 .. Len(site) /\ site'[i] = site[i]) \/ site'[i] = c
         /\ site' = site \o <<c, again>> =>
               /\ Db' = again
               /\ \A i \in 1 .. Len(site') : (i \in 1 .. Len(site) /\ site'[i] = site[i]) \/ site'[i] \in {c, again}
<1>. DEFINE T == S \cup {c, again}
<1>1. site \in Seq(T) /\ c \in T /\ again \in T /\ Len(site) \in Nat
  OBVIOUS
<1>. HIDE DEF T
<1>2. CASE site' = Append(site, c)
  <2>1. site' \in Seq(T) /\ Len(site') = Len(site) + 1 /\ site'[Len(site')] = c
        /\ \A i \in 1 .. Len(site') : (i \in 1 .. Len(site) /\ site'[i] = site[i]) \/ site'[i] = c
    BY <1>1, <1>2
  <2>2. \A i \in 1 .. Len(site) : site'[i] = site[i]
    BY <1>1, <1>2
  <2>3. \A i \in Len(site) + 1 .. Len(site') : site'[i] \in {c, again}
    BY <1>1, <1>2
  <2>4. site' # site \o <<c, again>>
    <3>. DEFINE more == <<c, again>>
    <3>1. more \in Seq(T) /\ Len(more) = 2
      BY <1>1
    <3>. HIDE DEF more
    <3>2. Len(site \o more) = Len(site) + Len(more)
      BY <1>1, <3>1, ConcatProperties
    <3>3. site' # site \o more
      BY <1>1, <2>1, <3>1, <3>2
    <3>. QED BY <3>3 DEF more
  <2>5. site' \in Seq(T) /\ Db' = c
    BY <2>1 DEF Db
  <2>. QED BY <1>1, <2>1, <2>2, <2>3, <2>4, <2>5 DEF T
<1>3. CASE site' = site \o <<c, again>>
  <2>. DEFINE more == <<c, again>>
  <2>1. more \in Seq(T) /\ Len(more) = 2 /\ more[1] = c /\ more[2] = again
    BY <1>1
  <2>2. site' = site \o more
    BY <1>3
  <2>. HIDE DEF more
  <2>3. /\ site' \in Seq(T) /\ Len(site') = Len(site) + Len(more)
        /\ \A i \in 1 .. Len(site) + Len(more) :
              site'[i] = IF i <= Len(site) THEN site[i] ELSE more[i - Len(site)]
    BY <1>1, <2>1, <2>2, ConcatProperties
  <2>4. \A i \in {1, 2} : Len(site) + i \in 1 .. Len(site) + 2 /\ (Len(site) + i) - Len(site) = i
    BY <1>1
  <2>5. /\ Len(site') = Len(site) + 2 /\ \A i \in 1 .. Len(site) : site'[i] = site[i]
        /\ site'[Len(site) + 1] = c /\ site'[Len(site) + 2] = again
    BY <1>1, <2>1, <2>3, <2>4
  <2>6. \A i \in Len(site) + 1 .. Len(site') : i = Len(site) + 1 \/ i = Len(site) + 2
    BY <1>1, <2>5
  <2>7. \A i \in 1 .. Len(site') : i \in 1 .. Len(site) \/ i \in Len(site) + 1 .. Len(site')
    BY <1>1, <2>5
  <2>8. Db' = again
    BY <2>5 DEF Db
  <2>9. site' # Append(site, c)
    BY <1>1, <2>5
  <2>. QED BY <1>1, <2>3, <2>5, <2>6, <2>7, <2>8, <2>9 DEF T
<1>. QED BY <1>2, <1>3 DEF Grew

LEMMA SiteGrows ==
  ASSUME SiteInv, NEW n \in Node, NEW c, NEW again, Grew(n, c, again),
         fresh' \in {fresh, fresh + 1}, "wrong" \in DOMAIN browser',
         DbOK(c, fresh', browser'.wrong), DbOK(again, fresh', browser'.wrong)
  PROVE  SiteInv'
<1>1. PICK S : site \in Seq(S)
  BY DEF SiteInv
<1>. DEFINE T == S \cup {c, again}
<1>2. /\ site' \in Seq(T) /\ Len(site) \in Nat /\ Len(site') \in {Len(site) + 1, Len(site) + 2}
      /\ \A i \in 1 .. Len(site) : site'[i] = site[i]
      /\ \A i \in Len(site) + 1 .. Len(site') : site'[i] \in {c, again}
  BY <1>1, LogGrows
<1>. HIDE DEF T
<1>3. Len(site) \in Nat /\ Len(site') \in Nat /\ Len(site) < Len(site')
  BY <1>2
<1>4. DOMAIN seen' = Node /\ \A m \in Node : seen'[m] \in 1 .. Len(site')
  BY <1>3 DEF Grew, SiteInv
<1>5. fresh' \in Nat /\ 1 .. fresh \subseteq 1 .. fresh'
  BY DEF SiteInv
<1>6. CopyOK(c, fresh') /\ CopyOK(again, fresh')
  BY DEF DbOK, AccountsOK, TokensOK, SessionsOK, CopyOK
<1>7. ASSUME NEW i \in 1 .. Len(site') PROVE CopyOK(site'[i], fresh')
  <2>1. CASE i \in 1 .. Len(site)
    BY <1>2, <1>5, <2>1 DEF SiteInv, CopyOK
  <2>2. CASE i \notin 1 .. Len(site)
    <3>1. site'[i] \in {c, again}
      BY <1>2, <1>3, <2>2
    <3>. QED BY <1>6, <3>1
  <2>. QED BY <2>1, <2>2
<1>8. DbOK(site'[Len(site')], fresh', browser'.wrong)
  <2>1. site'[Len(site')] \in {c, again}
    BY <1>2, <1>3
  <2>. QED BY <2>1
<1>. QED BY <1>2, <1>3, <1>4, <1>5, <1>7, <1>8 DEF SiteInv, Db

(* The rest of the steps.                                                  *)
LEMMA SiteStays ==
  ASSUME SiteInv, UNCHANGED <<site, seen, fresh>>,
         "wrong" \in DOMAIN browser', browser'.wrong = browser.wrong
  PROVE  SiteInv'
BY DEF SiteInv, Db

LEMMA CatchesUp ==
  ASSUME SiteInv, NEW n \in Node, CatchUp(n), UNCHANGED <<fresh, browser>>
  PROVE  SiteInv'
<1>1. PICK S : site \in Seq(S)
  BY DEF SiteInv
<1>2. site' = site /\ seen' = [seen EXCEPT ![n] = seen[n] + 1] /\ seen[n] < Len(site)
  BY DEF CatchUp
<1>3. Len(site) \in Nat
  BY <1>1
<1>4. DOMAIN seen' = Node /\ \A m \in Node : seen'[m] \in 1 .. Len(site')
  BY <1>2, <1>3 DEF SiteInv
<1>. QED BY <1>2, <1>4 DEF SiteInv, Db

LEMMA InitSite == Init => SiteInv
<1>. SUFFICES ASSUME Init PROVE SiteInv
  OBVIOUS
<1>. DEFINE db == plan.db
<1>1. /\ plan \in Plans /\ site = <<db>> /\ seen = [n \in Node |-> 1] /\ fresh = plan.fresh
      /\ browser.wrong = <<>> /\ "wrong" \in DOMAIN browser
  BY DEF Init, AccountsInit
<1>2. SetUp(db) /\ plan.fresh \in Nat /\ DOMAIN db = DbField
  BY <1>1, PlansAssumption, StartAssumption DEF DbField
<1>3. HostsOK(db)
  <2>1. \A g \in Group : db.main[g] \in Host \cup {NoHost} /\ (g \notin db.made => db.main[g] = NoHost)
    BY <1>2 DEF SetUp
  <2>2. \A g, h \in Group : g # h /\ db.main[g] = db.main[h] => db.main[g] = NoHost
    BY <1>2 DEF SetUp
  <2>3. Listed(db) = {db.primary} /\ DOMAIN db.alias = {}
    BY <1>2 DEF SetUp, Listed
  <2>4. ~Clashing(db)
    <3>. SUFFICES ASSUME NEW g \in db.made, db.main[g][2] = db.primary PROVE FALSE
      BY <2>3 DEF Clashing
    <3>1. NoHost[2] = "none" /\ db.primary # "none"
      BY <1>2 DEF NoHost, SetUp
    <3>2. db.main[g] # NoHost
      BY <3>1
    <3>. HIDE DEF db
    <3>. QED BY <1>2, <3>2 DEF SetUp
  <2>. QED BY <1>2, <2>1, <2>2, <2>3, <2>4 DEF HostsOK, SetUp
<1>4. TokensOK(db, fresh, <<>>) /\ SessionsOK(db, fresh)
  <2>1. /\ DOMAIN db.token = {} /\ db.bounce = {} /\ db.ended = {}
        /\ \A s \in db.given : s.id \in 1 .. fresh /\ s.from \in 1 .. fresh /\ s.wrong = 0
        /\ \A s, t \in db.given : s.from = t.from => s = t
    BY <1>1, StartAssumption
  <2>. QED BY <2>1, TriesAssumption DEF TokensOK, SessionsOK
<1>5. DbOK(db, fresh, browser.wrong)
  BY <1>1, <1>2, <1>3, <1>4 DEF DbOK, AccountsOK
<1>6. CopyOK(db, fresh)
  BY <1>4 DEF CopyOK, TokensOK, SessionsOK
<1>. HIDE DEF db
<1>7. site \in Seq({db}) /\ Len(site) = 1 /\ site[1] = db
  BY <1>1
<1>8. \A n \in Node : seen[n] = 1
  BY <1>1
<1>9. fresh \in Nat /\ DOMAIN seen = Node
  BY <1>1, <1>2
<1>10. Db = db
  BY <1>7 DEF Db
<1>11. \A i \in 1 .. Len(site) : CopyOK(site[i], fresh)
  BY <1>6, <1>7
<1>12. \A n \in Node : seen[n] \in 1 .. Len(site)
  BY <1>7, <1>8
<1>13. (\E S : site \in Seq(S)) /\ Len(site) > 0
  BY <1>7
<1>. QED BY <1>1, <1>5, <1>9, <1>10, <1>11, <1>12, <1>13 DEF SiteInv

LEMMA BounceStep ==
  ASSUME SiteInv, NEW n \in Node, NEW how, bounce(n, how)
  PROVE  SiteInv'
<1>1. UNCHANGED browser /\ "wrong" \in DOMAIN browser /\ fresh \in Nat
  BY DEF bounce, SiteInv
<1>2. CASE UNCHANGED <<logVars, fresh>>
  BY <1>1, <1>2, SiteStays DEF logVars
<1>3. CASE ~UNCHANGED <<logVars, fresh>>
  <2>. DEFINE host == View(n).main[resolve(View(n), visit.to).group]
              c == StartBounce(Db, fresh + 1, host, now).db
              again == StartBounce(c, fresh + 1, host, now).db
  <2>1. fresh' = fresh + 1 /\ Grew(n, c, again)
    BY <1>3 DEF bounce, Apply, Again, Grew
  <2>2. DbOK(c, fresh + 1, browser.wrong) /\ again = c
    BY <1>1, StartBounceOK DEF SiteInv
  <2>. HIDE DEF c, again
  <2>. QED BY <1>1, <2>1, <2>2, SiteGrows
<1>. QED BY <1>2, <1>3

LEMMA BackStep ==
  ASSUME SiteInv, NEW n \in Node, NEW how, bounceBack(n, how)
  PROVE  SiteInv'
<1>. DEFINE host == View(n).main[resolve(View(n), visit.host).group]
            c == FinishBounce(Db, visit.code, host, fresh + 1, now).db
            again == FinishBounce(c, visit.code, host, fresh + 1, now).db
<1>1. fresh' = fresh + 1 /\ Grew(n, c, again)
  BY DEF bounceBack, Apply, Again, Grew
<1>2. "wrong" \in DOMAIN browser' /\ browser'.wrong = browser.wrong /\ fresh \in Nat
  BY DEF bounceBack, SiteInv
<1>3. DbOK(c, fresh + 1, browser.wrong) /\ again = c
  BY <1>2, FinishBounceOK DEF SiteInv
<1>. HIDE DEF c, again
<1>. QED BY <1>1, <1>2, <1>3, SiteGrows

LEMMA SendStep ==
  ASSUME SiteInv, NEW n \in Node, NEW how, loginSend(n, how)
  PROVE  SiteInv'
<1>1. PICK next :
        LET c == CreateLogin(Db, fresh + 1, next, now).db
            again == CreateLogin(c, fresh + 1, next, now).db
        IN Grew(n, c, again)
  BY DEF loginSend, Apply, Again, Grew
<1>. DEFINE c == CreateLogin(Db, fresh + 1, next, now).db
            again == CreateLogin(c, fresh + 1, next, now).db
<1>2. fresh' = fresh + 1 /\ "wrong" \in DOMAIN browser' /\ browser'.wrong = browser.wrong /\ fresh \in Nat
  BY DEF loginSend, SiteInv
<1>3. DbOK(c, fresh + 1, browser.wrong) /\ again = c
  BY <1>2, CreateLoginOK DEF SiteInv
<1>4. Grew(n, c, again)
  BY <1>1
<1>. HIDE DEF c, again
<1>. QED BY <1>2, <1>3, <1>4, SiteGrows

LEMMA WrongStep ==
  ASSUME SiteInv, NEW n \in Node, NEW how, codeWrong(n, how)
  PROVE  SiteInv'
<1>. DEFINE t == browser.pending
            w == browser.wrong
            w2 == Put(w, t, IF t \in DOMAIN w THEN w[t] + 1 ELSE 1)
            c == FailLoginCode(Db, t).db
            again == FailLoginCode(c, t).db
<1>1. fresh' = fresh /\ Grew(n, c, again) /\ usable(View(n), t, now)
  BY DEF codeWrong, Apply, Again, Grew
<1>2. browser' = [browser EXCEPT !.wrong = w2]
  BY DEF codeWrong
<1>3. t \in 1 .. fresh
  BY <1>1 DEF usable, SiteInv, CopyOK, View
<1>4. fresh \in Nat /\ DbOK(Db, fresh, w)
  BY DEF SiteInv
<1>. HIDE DEF t
<1>5. DbOK(c, fresh, w2)
  BY <1>3, <1>4, FailOK
<1>. HIDE DEF w2, w
<1>6. DbOK(again, fresh, w2)
  BY <1>4, <1>5, FailOK
<1>7. "wrong" \in DOMAIN browser' /\ browser'.wrong = w2
  BY <1>2 DEF SiteInv
<1>. HIDE DEF c, again
<1>. QED BY <1>1, <1>5, <1>6, <1>7, SiteGrows

LEMMA FinishStep ==
  ASSUME SiteInv, NEW n \in Node, NEW t, NEW how, finishSignIn(n, t, how)
  PROVE  SiteInv'
<1>. DEFINE wrong == IF t \in DOMAIN browser.wrong THEN browser.wrong[t] ELSE 0
            c == RedeemLogin(Db, t, fresh + 1, now, wrong).db
            again == RedeemLogin(c, t, fresh + 1, now, wrong).db
<1>1. fresh' = fresh + 1 /\ Grew(n, c, again)
  BY DEF finishSignIn, Apply, Again, Grew
<1>. DEFINE domain == [browser.domain EXCEPT ![View(n).primary] = fresh + 1]
<1>2. "wrong" \in DOMAIN browser' /\ browser'.wrong = browser.wrong /\ fresh \in Nat
  <2>1. browser' \in {browser, [browser EXCEPT !.domain = domain, !.pending = 0]}
    BY DEF finishSignIn
  <2>. HIDE DEF domain
  <2>2. fresh \in Nat /\ "wrong" \in DOMAIN browser
    BY DEF SiteInv
  <2>3. CASE browser' = [browser EXCEPT !.domain = domain, !.pending = 0]
    BY <2>2, <2>3
  <2>. QED BY <2>1, <2>2, <2>3
<1>3. DbOK(c, fresh + 1, browser.wrong) /\ again = c
  <2>. DEFINE w == browser.wrong
  <2>1. wrong = (IF t \in DOMAIN w THEN w[t] ELSE 0) /\ DbOK(Db, fresh, w)
    BY DEF SiteInv
  <2>. HIDE DEF wrong, w
  <2>2. DbOK(c, fresh + 1, w) /\ again = c
    BY <1>2, <2>1, RedeemOK
  <2>. QED BY <2>2 DEF w
<1>. HIDE DEF c, again
<1>. QED BY <1>1, <1>2, <1>3, SiteGrows

(* Commands that make no id.                                               *)
LEMMA GrowsOnce ==
  ASSUME SiteInv, NEW n \in Node, NEW c, Grew(n, c, c), fresh' = fresh,
         "wrong" \in DOMAIN browser', browser'.wrong = browser.wrong,
         DbOK(c, fresh, browser.wrong)
  PROVE  SiteInv'
BY SiteGrows

LEMMA WelcomeStep ==
  ASSUME SiteInv, NEW n \in Node, NEW h, welcomeSave(n, h)
  PROVE  SiteInv'
<1>. DEFINE c == SetHandle(Db, h).db
<1>1. UNCHANGED <<browser, fresh>> /\ "wrong" \in DOMAIN browser
  BY DEF welcomeSave, SiteInv
<1>2. UNCHANGED logVars \/ Grew(n, c, c)
  BY DEF welcomeSave, Apply, Again, Grew
<1>3. DbOK(c, fresh, browser.wrong)
  BY SetHandleOK DEF SiteInv
<1>. HIDE DEF c
<1>. QED BY <1>1, <1>2, <1>3, SiteStays, GrowsOnce DEF logVars

LEMMA LogoutStep ==
  ASSUME SiteInv, NEW n \in Node, logout(n)
  PROVE  SiteInv'
<1>. DEFINE c == EndSession(Db, cookie(visit.host)).db
<1>1. Grew(n, c, c) /\ fresh' = fresh
  BY DEF logout, Apply, Again, Grew
<1>2. "wrong" \in DOMAIN browser' /\ browser'.wrong = browser.wrong
  BY DEF logout, SiteInv
<1>3. DbOK(c, fresh, browser.wrong)
  BY EndSessionOK DEF SiteInv
<1>. HIDE DEF c
<1>. QED BY <1>1, <1>2, <1>3, GrowsOnce

LEMMA SuspendStep ==
  ASSUME SiteInv, NEW n \in Node, Suspend(n)
  PROVE  SiteInv'
<1>1. UNCHANGED <<browser, fresh>> /\ "wrong" \in DOMAIN browser
  BY DEF Suspend, SiteInv
<1>2. PICK until : Grew(n, SuspendUser(Db, until, now).db, SuspendUser(Db, until, now).db)
  BY DEF Suspend, Apply, Again, Grew
<1>3. DbOK(SuspendUser(Db, until, now).db, fresh, browser.wrong)
  BY SuspendOK DEF SiteInv
<1>. QED BY <1>1, <1>2, <1>3, GrowsOnce

LEMMA PurgeStep ==
  ASSUME SiteInv, NEW n \in Node, PurgeSite(n)
  PROVE  SiteInv'
<1>1. UNCHANGED <<browser, fresh>> /\ "wrong" \in DOMAIN browser
  BY DEF PurgeSite, SiteInv
<1>2. Grew(n, Purge(Db, now).db, Purge(Db, now).db)
  BY DEF PurgeSite, Apply, Again, Grew
<1>3. DbOK(Purge(Db, now).db, fresh, browser.wrong)
  BY PurgeOK DEF SiteInv
<1>. QED BY <1>1, <1>2, <1>3, GrowsOnce

LEMMA ProfileStep ==
  ASSUME SiteInv, NEW n \in Node, profileSave(n)
  PROVE  SiteInv'
<1>1. UNCHANGED <<browser, fresh>> /\ "wrong" \in DOMAIN browser
  BY DEF profileSave, accountsVars, SiteInv
<1>2. PICK email, daily : Grew(n, SetNotifyPrefs(Db, email, daily).db, SetNotifyPrefs(Db, email, daily).db)
  BY DEF profileSave, Apply, Again, Grew
<1>3. DbOK(SetNotifyPrefs(Db, email, daily).db, fresh, browser.wrong)
  BY SetNotifyPrefsOK DEF SiteInv
<1>. QED BY <1>1, <1>2, <1>3, GrowsOnce

LEMMA OperateIs ==
  ASSUME SiteInv, NEW n \in Node, OperateSite(n)
  PROVE  \E c : Grew(n, c, c) /\ AddressesKept(Db, c)
<1>0. HostsOK(Db) /\ DOMAIN Db = DbField
  BY DEF SiteInv, DbOK
<1>1. CASE \E d \in Domain : Apply(n, LAMBDA db : SetPrimaryDomain(db, d), "once")
  <2>1. PICK d \in Domain : Grew(n, SetPrimaryDomain(Db, d).db, SetPrimaryDomain(Db, d).db)
    BY <1>1 DEF Apply, Again, Grew
  <2>. QED BY <1>0, <2>1, SetPrimaryOK
<1>2. CASE \E d \in Domain : Apply(n, LAMBDA db : AddAlternateDomain(db, d), "once")
  <2>1. PICK d \in Domain : Grew(n, AddAlternateDomain(Db, d).db, AddAlternateDomain(Db, d).db)
    BY <1>2 DEF Apply, Again, Grew
  <2>. QED BY <1>0, <2>1, AddAlternateOK
<1>3. CASE \E h \in Host, g \in Group \cup {0} : Apply(n, LAMBDA db : AddHostAlias(db, h, g), "once")
  <2>1. PICK h \in Host, g \in Group \cup {0} : Grew(n, AddHostAlias(Db, h, g).db, AddHostAlias(Db, h, g).db)
    BY <1>3 DEF Apply, Again, Grew
  <2>. QED BY <1>0, <2>1, AddAliasOK
<1>4. CASE \E g \in Group, h \in Host \cup {NoHost} : Apply(n, LAMBDA db : SetGroupHost(db, g, h), "once")
  <2>1. PICK g \in Group, h \in Host \cup {NoHost} : Grew(n, SetGroupHost(Db, g, h).db, SetGroupHost(Db, g, h).db)
    BY <1>4 DEF Apply, Again, Grew
  <2>. QED BY <1>0, <2>1, SetGroupHostOK
<1>5. CASE \E g \in Group : Apply(n, LAMBDA db : CreateGroup(db, g), "once")
  <2>1. PICK g \in Group : Grew(n, CreateGroup(Db, g).db, CreateGroup(Db, g).db)
    BY <1>5 DEF Apply, Again, Grew
  <2>. QED BY <1>0, <2>1, CreateGroupOK
<1>. QED BY <1>1, <1>2, <1>3, <1>4, <1>5 DEF OperateSite, Operate

LEMMA OperateStep ==
  ASSUME SiteInv, NEW n \in Node, OperateSite(n)
  PROVE  SiteInv'
<1>1. UNCHANGED <<browser, fresh>> /\ "wrong" \in DOMAIN browser
  BY DEF OperateSite, SiteInv
<1>2. DbOK(Db, fresh, browser.wrong) /\ HostsOK(Db) /\ DOMAIN Db = DbField
  BY DEF SiteInv, DbOK
<1>3. \E c : Grew(n, c, c) /\ AddressesKept(Db, c)
  BY OperateIs
<1>. QED BY <1>1, <1>2, <1>3, HostsChange, GrowsOnce

LEMMA SiteStep == SiteInv /\ [Next]_vars => SiteInv'
<1>. SUFFICES ASSUME SiteInv, [Next]_vars PROVE SiteInv'
  OBVIOUS
<1>0. "wrong" \in DOMAIN browser
  BY DEF SiteInv
<1>. DEFINE Left == UNCHANGED <<site, seen, fresh>> /\ "wrong" \in DOMAIN browser' /\ browser'.wrong = browser.wrong
<1>1. CASE UNCHANGED vars
  BY <1>0, <1>1, SiteStays DEF vars, hostsVars, logVars, accountsVars
<1>2. ASSUME NEW h \in Host, Open(h) PROVE Left
  BY <1>0, <1>2 DEF Open, logVars
<1>3. ASSUME NEW n \in Node,
             \/ Redirected(n) \/ Page(n) \/ startBounce(n)
             \/ bellPage(n) \/ SendNotices(n) \/ SendDigests(n) \/ Sent(n) \/ NotSent(n)
             \/ Mark(n) \/ Crash(n) \/ Elect(n) \/ StepDown(n) \/ CatchUpGroup(n)
      PROVE  Left
  <2>1. CASE Redirected(n) \/ Page(n)
    BY <1>0, <2>1 DEF Redirected, Page, logVars
  <2>2. CASE startBounce(n)
    <3>1. UNCHANGED <<site, seen, fresh>> /\ \E bounced : browser' = [browser EXCEPT !.bounced = bounced]
      BY <2>2 DEF startBounce, logVars
    <3>. QED BY <1>0, <3>1
  <2>3. CASE bellPage(n) \/ SendNotices(n) \/ SendDigests(n) \/ Sent(n) \/ NotSent(n)
    BY <1>0, <2>3 DEF bellPage, SendNotices, SendDigests, Sent, NotSent, logVars, accountsVars
  <2>4. CASE Mark(n) \/ Crash(n) \/ Elect(n) \/ StepDown(n) \/ CatchUpGroup(n)
    BY <1>0, <2>4 DEF Mark, Crash, Elect, StepDown, CatchUpGroup, logVars, accountsVars
  <2>. QED BY <1>3, <2>1, <2>2, <2>3, <2>4
<1>4. CASE Tick \/ Comment \/ FollowPost \/ Leave \/ bellShown
  <2>1. Left
    BY <1>0, <1>4 DEF Tick, Comment, FollowPost, Leave, bellShown, logVars, accountsVars
  <2>. QED BY <2>1, SiteStays
<1>5. ASSUME NEW n \in Node, Hear(n) PROVE SiteInv'
  BY <1>5, CatchesUp DEF Hear, accountsVars
<1>6. ASSUME NEW n \in Node, NEW how,
             bounce(n, how) \/ bounceBack(n, how) \/ loginSend(n, how) \/ codeWrong(n, how)
      PROVE  SiteInv'
  BY <1>6, BounceStep, BackStep, SendStep, WrongStep
<1>7. ASSUME NEW n \in Node, NEW how, codeCheck(n, how) \/ linkRedeem(n, how) PROVE SiteInv'
  BY <1>7, FinishStep DEF codeCheck, linkRedeem
<1>8. ASSUME NEW n \in Node, NEW h, welcomeSave(n, h) PROVE SiteInv'
  BY <1>8, WelcomeStep
<1>9. ASSUME NEW n \in Node, logout(n) \/ Suspend(n) \/ PurgeSite(n) \/ OperateSite(n) \/ profileSave(n)
      PROVE  SiteInv'
  BY <1>9, LogoutStep, SuspendStep, PurgeStep, OperateStep, ProfileStep
<1>10. (\E h \in Host : Left) \/ (\E n \in Node : Left) \/ Left => SiteInv'
  BY SiteStays
<1>. HIDE DEF Left
<1>. QED BY <1>1, <1>2, <1>3, <1>4, <1>5, <1>6, <1>7, <1>8, <1>9, <1>10 DEF Next

(* However the nodes lag, whatever commands were applied, and applied      *)
(* again: the last site.db is as HostsOK and AccountsOK say, and no copy   *)
(* of it has a session that had ended by then.                             *)
THEOREM SiteIsInvariant == Spec => []SiteInv
<1>. QED BY InitSite, SiteStep, PTL DEF Spec

(* In any order of the commands, and however often they are applied: on    *)
(* every domain that is or was the primary, or redirects to it, the home   *)
(* page's address leads to it and a group's to the group, with no loop,    *)
(* and so do the domains that groups have of their own and the aliases     *)
(* (SetPrimaryDomain of cmd/site.go, SetGroupHost, resolve of              *)
(* web/hosts.go), unless a domain was listed and in use at once.  Domains  *)
(* that groups had of their own before are not among them.                 *)
THEOREM OldLinks == Spec => []OldLinksWork
<1>1. SiteInv => OldLinksWork
  <2>. SUFFICES ASSUME SiteInv, ~Db.clash PROVE OldLinksWork
    BY DEF OldLinksWork
  <2>1. HostsOK(Db)
    BY DEF SiteInv, DbOK
  <2>. QED BY <2>1, LinksWork DEF OldLinksWork
<1>. QED BY <1>1, SiteIsInvariant, PTL

(* Each emailed sign-in and each code of a bounce is worth one session,    *)
(* RedeemLogin and FinishBounce being applied twice or at two nodes; none  *)
(* is made after MaxCodeTries wrong codes, at whichever nodes they were    *)
(* typed; and no copy that has a suspension has a session from before it   *)
(* (cmd/login.go, cmd/bounce.go, SuspendUser of cmd/moderation.go).        *)
THEOREM OneSessionEach == Spec => []SignedInRightly
<1>1. SiteInv => SignedInRightly
  BY DEF SiteInv, DbOK, AccountsOK, SessionsOK, CopyOK, SignedInRightly, View
<1>. QED BY <1>1, SiteIsInvariant, PTL

(***************************************************************************)
(* Visits                                                                  *)
(***************************************************************************)
Front(db) == <<Bare, db.primary>>
Ends(db, h) == resolve(db, h).kind # "redirect"
Apart(db, h) == ownDomain(db, resolve(db, h))

LEMMA Kinds ==
  /\ Home.kind = "home" /\ Unknown.kind = "unknown"
  /\ \A g : At(g).kind = "group" /\ At(g).group = g
  /\ \A h : To(h).kind = "redirect" /\ To(h).host = h
BY DEF Home, Unknown, At, To

LEMMA HostIs ==
  ASSUME NEW h \in Host
  PROVE  h = <<h[1], h[2]>> /\ h[1] \in {Bare, Www} \cup Group /\ h[2] \in Domain
BY DEF Host

(* resolve, case by case.                                                  *)
AtFront(db, h) == h = Front(db) /\ resolve(db, h) = Home
AtMade(db, h) == h[2] = db.primary /\ h[1] \in Group /\ h[1] \in db.made /\ db.main[h[1]] = NoHost
                 /\ resolve(db, h) = At(h[1])
AtMoved(db, h) == h[2] = db.primary /\ h[1] \in Group /\ h[1] \in db.made /\ db.main[h[1]] # NoHost
                  /\ resolve(db, h) = To(db.main[h[1]])
AtOwn(db, h) == h[2] # db.primary /\ \E g \in Owners(db, h) : resolve(db, h) = At(g)
ToHome(db, h) == resolve(db, h) = To(Front(db))
AtAlias(db, h) == h \in DOMAIN db.alias /\ db.alias[h] # 0 /\ resolve(db, h) = To(groupHost(db, db.alias[h]))
OnPrimary(db, h) == <<IF h[1] = Www THEN Bare ELSE h[1], db.primary>>
AtAlternate(db, h) == h[2] # db.primary /\ resolve(db, h) = To(OnPrimary(db, h))
Nowhere(db, h) == resolve(db, h) = Unknown

LEMMA Leads ==
  ASSUME NEW db, NEW h \in Host
  PROVE  \/ AtFront(db, h) \/ AtMade(db, h) \/ AtMoved(db, h) \/ AtOwn(db, h)
         \/ ToHome(db, h) \/ AtAlias(db, h) \/ AtAlternate(db, h) \/ Nowhere(db, h)
<1>1. h = <<h[1], h[2]>> /\ h[1] \in {Bare, Www} \cup Group /\ Bare # Www /\ Bare \notin Group /\ Www \notin Group
  BY HostIs DEF Bare, Www
<1>2. CASE h[2] = db.primary /\ h[1] = Bare
  BY <1>1, <1>2 DEF resolve, Front, AtFront
<1>3. CASE h[2] = db.primary /\ h[1] = Www
  BY <1>1, <1>3 DEF resolve, Front, ToHome
<1>4. CASE h[2] = db.primary /\ h[1] \in Group
  BY <1>1, <1>4 DEF resolve, AtMade, AtMoved, Nowhere
<1>5. CASE h[2] # db.primary /\ Owners(db, h) # {}
  <2>1. resolve(db, h) = At(CHOOSE g \in Owners(db, h) : TRUE)
    BY <1>5 DEF resolve
  <2>2. (CHOOSE g \in Owners(db, h) : TRUE) \in Owners(db, h)
    BY <1>5
  <2>. QED BY <1>5, <2>1, <2>2 DEF AtOwn
<1>6. CASE h[2] # db.primary /\ Owners(db, h) = {} /\ h \in DOMAIN db.alias
  BY <1>6 DEF resolve, Front, ToHome, AtAlias
<1>7. CASE h[2] # db.primary /\ Owners(db, h) = {} /\ h \notin DOMAIN db.alias
  BY <1>7 DEF resolve, AtAlternate, OnPrimary, Nowhere
<1>. QED BY <1>1, <1>2, <1>3, <1>4, <1>5, <1>6, <1>7

LEMMA NotAHost == NoHost \notin Host /\ NoHost[2] = "none" /\ NoHost[2] \notin Domain
BY DEF NoHost, Host

LEMMA FrontIs ==
  ASSUME NEW db, HostsOK(db)
  PROVE  Front(db) \in Host /\ resolve(db, Front(db)) = Home /\ Ends(db, Front(db)) /\ ~Apart(db, Front(db))
<1>1. Front(db) \in Host
  BY DEF Front, Host, HostsOK
<1>2. resolve(db, Front(db)) = Home
  BY HomeIsHome DEF Front
<1>. QED BY <1>1, <1>2, Kinds DEF Ends, Apart, ownDomain

(* Where a redirect goes is a host, and of a group's own domain there is   *)
(* one group.                                                              *)
LEMMA HomeKind ==
  ASSUME NEW db, NEW h \in Host, resolve(db, h).kind = "home"
  PROVE  h = Front(db)
BY Leads, Kinds DEF AtFront, AtMade, AtMoved, AtOwn, ToHome, AtAlias, AtAlternate, Nowhere

LEMMA GroupKind ==
  ASSUME NEW db, HostsOK(db), NEW h \in Host, resolve(db, h).kind = "group"
  PROVE  \/ Apart(db, h) /\ resolve(db, h).group \in db.made /\ db.main[resolve(db, h).group] = h /\ h[2] # db.primary
         \/ ~Apart(db, h) /\ h[2] = db.primary
<1>1. CASE AtMade(db, h)
  BY <1>1, Kinds DEF Apart, ownDomain, AtMade
<1>2. CASE AtOwn(db, h)
  <2>1. PICK g \in Owners(db, h) : resolve(db, h) = At(g)
    BY <1>2 DEF AtOwn
  <2>2. g \in db.made /\ db.main[g] = h
    BY DEF Owners
  <2>. QED BY <1>2, <2>1, <2>2, Kinds, NotAHost DEF Apart, ownDomain, AtOwn
<1>. QED BY <1>1, <1>2, Leads, Kinds DEF AtFront, AtMoved, ToHome, AtAlias, AtAlternate, Nowhere

LEMMA ApartIs ==
  ASSUME NEW db, HostsOK(db), NEW h \in Host, Apart(db, h)
  PROVE  /\ resolve(db, h).kind = "group" /\ resolve(db, h).group \in db.made
         /\ db.main[resolve(db, h).group] = h /\ h[2] # db.primary /\ Ends(db, h)
<1>1. resolve(db, h).kind = "group"
  BY DEF Apart, ownDomain
<1>. QED BY <1>1, GroupKind DEF Ends

LEMMA RedirectIs ==
  ASSUME NEW db, HostsOK(db), NEW h \in Host, resolve(db, h).kind = "redirect"
  PROVE  resolve(db, h).host \in Host /\ resolve(db, h) = To(resolve(db, h).host)
<1>1. Front(db) \in Host /\ Bare \notin Group
  BY FrontIs DEF Bare
<1>2. ASSUME NEW g \in Group PROVE groupHost(db, g) \in Host
  BY <1>2 DEF groupHost, HostsOK, Host
<1>3. CASE AtMoved(db, h)
  <2>1. db.main[h[1]] \in Host
    BY <1>3 DEF HostsOK, AtMoved
  <2>. QED BY <1>3, <2>1, Kinds DEF AtMoved
<1>4. CASE AtAlias(db, h)
  <2>1. db.alias[h] \in Group
    BY <1>4 DEF HostsOK, AtAlias
  <2>. QED BY <1>2, <1>4, <2>1, Kinds DEF AtAlias
<1>5. CASE AtAlternate(db, h)
  <2>1. OnPrimary(db, h) \in Host
    BY HostIs DEF Host, HostsOK, OnPrimary
  <2>. QED BY <1>5, <2>1, Kinds DEF AtAlternate
<1>. QED BY <1>1, <1>3, <1>4, <1>5, Leads, Kinds DEF AtFront, AtMade, AtOwn, ToHome, Nowhere

(* Two redirects are enough, and following one leads where it would.       *)
LEMMA StepIs ==
  ASSUME NEW db, NEW h
  PROVE  /\ Ends(db, h) => Step(db, h) = h
         /\ ~Ends(db, h) => Step(db, h) = resolve(db, h).host
BY DEF Step, Ends

LEMMA TwoAreEnough ==
  ASSUME NEW db, HostsOK(db), ~db.clash, NEW h \in Host
  PROVE  Ends(db, Step(db, Step(db, h)))
<1>1. /\ Ends(db, Front(db)) /\ Step(db, Front(db)) = Front(db)
      /\ \A g \in db.made : Ends(db, groupHost(db, g)) /\ Step(db, groupHost(db, g)) = groupHost(db, g)
  BY FrontIs, GroupIsThere, StepIs, Kinds DEF Ends
<1>2. ASSUME NEW x, resolve(db, h) = To(x), x = Front(db) \/ \E g \in db.made : x = groupHost(db, g)
      PROVE  Ends(db, Step(db, Step(db, h)))
  BY <1>1, <1>2, StepIs, Kinds DEF Ends
<1>3. CASE AtMoved(db, h)
  BY <1>2, <1>3 DEF groupHost, AtMoved
<1>4. CASE AtAlias(db, h)
  <2>1. db.alias[h] \in db.made
    BY <1>4 DEF HostsOK, AtAlias
  <2>. QED BY <1>2, <1>4, <2>1 DEF AtAlias
<1>5. CASE AtAlternate(db, h)
  <2>. DEFINE x == OnPrimary(db, h)
  <2>1. x \in Host /\ x[2] = db.primary
    BY HostIs DEF Host, HostsOK, OnPrimary
  <2>2. Step(db, h) = x
    BY <1>5, StepIs, Kinds DEF Ends, AtAlternate
  <2>. HIDE DEF x
  <2>3. \/ resolve(db, x) = To(Front(db)) \/ Ends(db, x)
        \/ x[1] \in db.made /\ db.main[x[1]] # NoHost /\ resolve(db, x) = To(db.main[x[1]])
    <3>1. ~AtAlternate(db, x)
      BY <2>1 DEF AtAlternate
    <3>2. AtAlias(db, x) => FALSE
      <4>1. x \in DOMAIN db.alias => db.clash \/ Clashing(db)
        BY <2>1 DEF Clashing, Listed
      <4>. QED BY <4>1 DEF HostsOK, AtAlias
    <3>. QED BY <2>1, <3>1, <3>2, Leads, Kinds DEF Ends, AtFront, AtMade, AtMoved, AtOwn, ToHome, Nowhere
  <2>4. Ends(db, x) => Ends(db, Step(db, x))
    BY StepIs
  <2>5. x[1] \in db.made /\ db.main[x[1]] # NoHost /\ resolve(db, x) = To(db.main[x[1]])
        => Step(db, x) = groupHost(db, x[1])
    BY StepIs, Kinds DEF Ends, groupHost
  <2>6. resolve(db, x) = To(Front(db)) => Step(db, x) = Front(db)
    BY StepIs, Kinds DEF Ends
  <2>. QED BY <1>1, <2>2, <2>3, <2>4, <2>5, <2>6
<1>6. CASE resolve(db, h).kind # "redirect"
  BY <1>6, StepIs DEF Ends
<1>. QED BY <1>2, <1>3, <1>4, <1>5, <1>6, Leads, Kinds DEF AtFront, AtMade, AtOwn, ToHome, Nowhere

LEMMA LastIs ==
  ASSUME NEW db, HostsOK(db), ~db.clash, NEW h \in Host
  PROVE  /\ Last(db, Step(db, h)) = Last(db, h)
         /\ Ends(db, h) => Last(db, h) = h
BY TwoAreEnough, StepIs DEF Last

(* A domain that was the primary leads home.                               *)
LEMMA OldLeadsHome ==
  ASSUME NEW db, HostsOK(db), ~db.clash, NEW p \in db.old
  PROVE  /\ <<Bare, p>> \in Host /\ Last(db, <<Bare, p>>) = Front(db)
         /\ resolve(db, <<Bare, p>>).kind \in {"home", "redirect"}
         /\ resolve(db, <<Bare, p>>).kind = "home" => <<Bare, p>> = Front(db)
         /\ Step(db, <<Bare, p>>) = Front(db)
<1>. DEFINE x == <<Bare, p>>
<1>1. p \in Listed(db) /\ Bare # Www
  BY DEF HostsOK, Bare, Www
<1>2. x \in Host
  BY <1>1 DEF Host, HostsOK, Listed
<1>3. CASE p = db.primary
  BY <1>2, <1>3, FrontIs, StepIs, LastIs, Kinds DEF Front
<1>4. CASE p # db.primary
  <2>1. resolve(db, x) = To(Front(db))
    BY <1>1, <1>4, ListedRedirects DEF Front
  <2>2. Step(db, x) = Front(db)
    BY <2>1, StepIs, Kinds DEF Ends
  <2>3. Last(db, x) = Front(db)
    BY <1>2, <2>2, LastIs, FrontIs
  <2>. QED BY <1>2, <2>1, <2>2, <2>3, Kinds
<1>. QED BY <1>3, <1>4

(* A copy of site.db with the same addresses leads to the same places.     *)
LEMMA SameLeads ==
  ASSUME NEW db, NEW db2, SameHosts(db, db2)
  PROVE  /\ Front(db2) = Front(db)
         /\ \A h : /\ resolve(db2, h) = resolve(db, h) /\ Ends(db2, h) = Ends(db, h)
                   /\ Apart(db2, h) = Apart(db, h)
                   /\ Step(db2, h) = Step(db, h) /\ Last(db2, h) = Last(db, h)
<1>0. Front(db2) = Front(db)
  BY DEF Front, SameHosts
<1>1. \A h : Owners(db2, h) = Owners(db, h)
  BY DEF Owners, SameHosts
<1>2. \A g : groupHost(db2, g) = groupHost(db, g)
  BY DEF groupHost, SameHosts
<1>3. \A h : resolve(db2, h) = resolve(db, h)
  BY <1>1, <1>2 DEF resolve, SameHosts
<1>4. \A h : Ends(db2, h) = Ends(db, h) /\ Step(db2, h) = Step(db, h)
  BY <1>3 DEF Ends, Step
<1>5. \A h : Apart(db2, h) = Apart(db, h)
  BY <1>3 DEF Apart, ownDomain, SameHosts
<1>6. \A h : Last(db2, h) = Last(db, h)
  BY <1>4 DEF Last
<1>. QED BY <1>0, <1>3, <1>4, <1>5, <1>6

(* user and Bounced, of a browser b at time t.                             *)
Cookie(b, h) == IF b.own[h] # 0 THEN b.own[h] ELSE b.domain[h[2]]
In(db, b, t, h) == (\E s \in db.session : s.id = Cookie(b, h) /\ s.expires > t) /\ db.until <= t
Marked(b, t, h) == b.bounced[h] > t

LEMMA InIs ==
  /\ \A db, h : user(db, h) <=> In(db, browser, now, h)
  /\ \A h : Bounced(h) <=> Marked(browser, now, h)
  /\ \A db, h : needsBounce(db, resolve(db, h), h)
                <=> Apart(db, h) /\ ~Marked(browser, now, h) /\ ~In(db, browser, now, h)
BY DEF user, cookie, Bounced, needsBounce, Apart, In, Cookie, Marked

(* Where a visit v is that Lands is about.  Aim: where it should end.      *)
(* Quick: the redirects that may still come.  On a page, it is on its way  *)
(* there, and won't have been sent round; or it was, and is there.         *)
Aim(db, v) == Last(db, v.wants)
Quick(db, v) ==
    \/ v.hops = 0
    \/ v.hops = 1 /\ Ends(db, Step(db, v.host))
    \/ v.hops = 2 /\ Ends(db, v.host)
Heading(db, v, b, t) ==
    v.known => /\ Last(db, v.host) = Aim(db, v)
               /\ ~v.marked /\ Apart(db, Aim(db, v)) => ~Marked(b, t, Aim(db, v))
Settled(db, v, b, t) ==
    /\ v.hops <= 5 /\ Ends(db, v.host)
    /\ Apart(db, v.host) => Marked(b, t, v.host) \/ In(db, b, t, v.host)
    /\ v.known => v.host = Aim(db, v) /\ In(db, b, t, v.host)
SentRound(db, v) == v.known => Aim(db, v) = IF Apart(db, v.to) THEN v.to ELSE Front(db)
OnBounce(db, v, b, t) ==
    /\ v.host = Front(db) /\ v.to \in Host
    /\ v.hops <= 1 \/ (v.hops <= 3 /\ Apart(db, v.to) /\ Marked(b, t, v.to))
    /\ SentRound(db, v)
OnBack(db, v, b, t) ==
    /\ v.hops <= 4 /\ Apart(db, v.host) /\ db.until <= t
    /\ \E c \in db.bounce : c.id = v.code /\ c.host = v.host /\ c.expires > t
    /\ v.known => v.host = Aim(db, v)
OnWelcome(db, v, b, t) ==
    /\ v.hops = 0
    /\ \/ /\ v.to = NoHost /\ Heading(db, v, b, t)
          /\ resolve(db, v.host).kind \in {"home", "group"} \/ Last(db, v.host) = Front(db)
       \/ v.to \in Host /\ v.host = Front(db) /\ SentRound(db, v)
Landed(db, v) ==
    /\ v.hops <= 5
    /\ v.known /\ ~v.marked => v.host = Aim(db, v) /\ (resolve(db, v.host).kind # "unknown" => v.in)
VisitOK(db, v, b, t) ==
    /\ v.host \in Host
    /\ v.known => In(db, b, t, Front(db))
    /\ \/ v.phase = "page" /\ ((Quick(db, v) /\ Heading(db, v, b, t)) \/ Settled(db, v, b, t))
       \/ v.phase = "bounce" /\ OnBounce(db, v, b, t)
       \/ v.phase = "back" /\ OnBack(db, v, b, t)
       \/ v.phase = "welcome" /\ OnWelcome(db, v, b, t)
       \/ v.phase = "shown" /\ Landed(db, v)

(* The addresses Lands is about.  No cookie of a group's own domain is     *)
(* sent to the primary.                                                    *)
Plain(db, b) ==
    /\ HostsOK(db) /\ ~db.clash
    /\ \A h \in Host : b.own[h] # 0 => h[2] # db.primary

(* A visit goes on to ask, by a redirect.                                  *)
Goes(v, v2, ask, code) ==
    /\ v2.phase = ask.phase /\ v2.host = ask.host /\ v2.to = ask.to /\ v2.code = code /\ v2.hops = v.hops + 1
    /\ v2.known = v.known /\ v2.marked = v.marked /\ v2.wants = v.wants

LEMMA AskIs == \A p, h, to : Ask(p, h, to).phase = p /\ Ask(p, h, to).host = h /\ Ask(p, h, to).to = to
BY DEF Ask

LEMMA RedirectOK ==
  ASSUME NEW db, NEW v, NEW v2, NEW b, NEW t, Plain(db, b), VisitOK(db, v, b, t), v.hops \in Nat,
         v.phase \in {"page", "bounce", "back"}, resolve(db, v.host).kind = "redirect",
         Goes(v, v2, Ask(v.phase, resolve(db, v.host).host, v.to), v.code)
  PROVE  VisitOK(db, v2, b, t)
<1>1. ~Ends(db, v.host) /\ v.host \in Host /\ HostsOK(db) /\ ~db.clash
  BY DEF Ends, VisitOK, Plain
<1>2. v.phase = "page" /\ Quick(db, v) /\ Heading(db, v, b, t)
  BY <1>1, FrontIs, ApartIs DEF VisitOK, Settled, OnBounce, OnBack
<1>3. v2.host = Step(db, v.host) /\ v2.host \in Host /\ v2.phase = "page" /\ v2.hops = v.hops + 1
      /\ v2.known = v.known /\ v2.marked = v.marked /\ v2.wants = v.wants
  BY <1>1, <1>2, StepIs, RedirectIs, AskIs DEF Goes
<1>4. Quick(db, v2)
  BY <1>1, <1>2, <1>3, TwoAreEnough DEF Quick
<1>5. Heading(db, v2, b, t)
  BY <1>1, <1>2, <1>3, LastIs DEF Heading, Aim
<1>. QED BY <1>3, <1>4, <1>5 DEF VisitOK

(* The primary's cookie is sent to all of its groups' hosts.               *)
LEMMA OneCookie ==
  ASSUME NEW db, NEW b, NEW t, Plain(db, b), NEW h \in Host, h[2] = db.primary, In(db, b, t, Front(db))
  PROVE  In(db, b, t, h)
<1>1. b.own[h] = 0 /\ b.own[Front(db)] = 0 /\ Front(db)[2] = db.primary
  BY FrontIs DEF Plain, Front
<1>. QED BY <1>1 DEF In, Cookie

LEMMA PageOK ==
  ASSUME NEW db, NEW v, NEW v2, NEW b, NEW t, Plain(db, b), VisitOK(db, v, b, t), v.hops \in Nat,
         v.phase \in {"page", "bounce", "back"}, resolve(db, v.host).kind # "redirect",
         ~(Apart(db, v.host) /\ ~Marked(b, t, v.host) /\ ~In(db, b, t, v.host)) \/ v.phase = "back",
         v.phase = "back" => resolve(db, v.host).kind # "group",
         v.phase = "bounce" => resolve(db, v.host).kind # "home",
         v2.phase = "shown", v2.host = v.host, v2.hops = v.hops, v2.known = v.known,
         v2.marked = v.marked, v2.wants = v.wants,
         v2.in = (resolve(db, v.host).kind # "unknown" /\ In(db, b, t, v.host))
  PROVE  VisitOK(db, v2, b, t)
<1>1. Ends(db, v.host) /\ v.host \in Host /\ HostsOK(db) /\ ~db.clash
  BY DEF Ends, VisitOK, Plain
<1>2. v.phase = "page"
  BY <1>1, FrontIs, ApartIs, Kinds DEF VisitOK, OnBounce, OnBack
<1>3. v.hops <= 5
  BY <1>2 DEF VisitOK, Quick, Settled
<1>4. ASSUME v.known, ~v.marked, resolve(db, v.host).kind # "unknown"
      PROVE  In(db, b, t, v.host)
  <2>1. CASE Settled(db, v, b, t)
    BY <1>4, <2>1 DEF Settled
  <2>2. CASE Heading(db, v, b, t)
    <3>1. v.host = Aim(db, v) /\ In(db, b, t, Front(db))
      BY <1>1, <1>4, <2>2, LastIs DEF Heading, VisitOK
    <3>2. CASE Apart(db, v.host)
      BY <1>2, <1>4, <2>2, <3>1, <3>2 DEF Heading
    <3>3. CASE ~Apart(db, v.host)
      <4>1. resolve(db, v.host).kind \in {"home", "group"}
        BY <1>1, <1>4, Leads, Kinds
           DEF AtFront, AtMade, AtMoved, AtOwn, ToHome, AtAlias, AtAlternate, Nowhere
      <4>2. v.host[2] = db.primary
        BY <1>1, <3>3, <4>1, HomeKind, GroupKind DEF Front
      <4>. QED BY <1>1, <3>1, <4>2, OneCookie
    <3>. QED BY <3>2, <3>3
  <2>. QED BY <1>2, <2>1, <2>2 DEF VisitOK
<1>5. v.known => v.host = Aim(db, v)
  BY <1>1, <1>2, LastIs DEF VisitOK, Settled, Heading
<1>6. Landed(db, v2)
  BY <1>3, <1>4, <1>5 DEF Landed, Aim
<1>. QED BY <1>6 DEF VisitOK

(* The browser remembers that it was sent round.                           *)
LEMMA StartOK ==
  ASSUME NEW db, NEW v, NEW v2, NEW b, NEW b2, NEW t \in Nat, Plain(db, b), VisitOK(db, v, b, t), v.hops \in Nat,
         v.phase \in {"page", "bounce"}, Apart(db, v.host), ~Marked(b, t, v.host), ~In(db, b, t, v.host),
         b2.own = b.own, b2.domain = b.domain, Marked(b2, t, v.host),
         Goes(v, v2, Ask("bounce", Front(db), v.host), 0)
  PROVE  VisitOK(db, v2, b2, t)
<1>1. HostsOK(db) /\ ~db.clash /\ v.host \in Host /\ Ends(db, v.host) /\ v.host # Front(db)
  BY ApartIs, FrontIs DEF VisitOK, Plain
<1>2. v.phase = "page" /\ Quick(db, v) /\ Heading(db, v, b, t)
  BY <1>1 DEF VisitOK, OnBounce, Settled
<1>3. /\ v2.phase = "bounce" /\ v2.host = Front(db) /\ v2.to = v.host /\ v2.hops = v.hops + 1
      /\ v2.known = v.known /\ v2.wants = v.wants
  BY AskIs DEF Goes
<1>4. v2.hops <= 3
  BY <1>2, <1>3 DEF Quick
<1>5. SentRound(db, v2)
  BY <1>1, <1>2, <1>3, LastIs DEF SentRound, Heading, Aim
<1>6. \A h : In(db, b2, t, h) <=> In(db, b, t, h)
  BY DEF In, Cookie
<1>. QED BY <1>1, <1>3, <1>4, <1>5, <1>6, FrontIs DEF VisitOK, OnBounce

(* /bounce: to what isn't a group's own domain any more; signed out; and   *)
(* with a code.                                                            *)
LEMMA HomeOK ==
  ASSUME NEW db, NEW v, NEW v2, NEW b, NEW t, Plain(db, b), VisitOK(db, v, b, t), v.hops \in Nat,
         v.phase = "bounce", ~Apart(db, v.to), Goes(v, v2, Ask("page", Front(db), NoHost), 0)
  PROVE  VisitOK(db, v2, b, t)
<1>1. OnBounce(db, v, b, t) /\ HostsOK(db) /\ ~db.clash
  BY DEF VisitOK, Plain
<1>2. /\ v2.phase = "page" /\ v2.host = Front(db) /\ v2.hops \in {1, 2}
      /\ v2.known = v.known /\ v2.wants = v.wants
  BY <1>1, AskIs DEF Goes, OnBounce
<1>3. Front(db) \in Host /\ Ends(db, Front(db)) /\ Step(db, Front(db)) = Front(db)
      /\ Last(db, Front(db)) = Front(db) /\ ~Apart(db, Front(db))
  BY <1>1, FrontIs, StepIs, LastIs
<1>4. v2.known => Aim(db, v2) = Front(db)
  BY <1>1, <1>2 DEF OnBounce, SentRound, Aim
<1>5. Quick(db, v2) /\ Heading(db, v2, b, t)
  BY <1>2, <1>3, <1>4 DEF Quick, Heading
<1>. QED BY <1>2, <1>3, <1>5 DEF VisitOK

LEMMA OutOK ==
  ASSUME NEW db, NEW v, NEW v2, NEW b, NEW t, Plain(db, b), VisitOK(db, v, b, t), v.hops \in Nat,
         v.phase = "bounce", Apart(db, v.to), ~In(db, b, t, v.host), Goes(v, v2, Ask("page", v.to, NoHost), 0)
  PROVE  VisitOK(db, v2, b, t)
<1>1. OnBounce(db, v, b, t) /\ HostsOK(db) /\ ~db.clash /\ v.to \in Host /\ ~v.known
  BY DEF VisitOK, Plain, OnBounce
<1>2. v2.phase = "page" /\ v2.host = v.to /\ v2.hops = v.hops + 1 /\ ~v2.known
  BY <1>1, AskIs DEF Goes
<1>3. Ends(db, v.to) /\ Step(db, v.to) = v.to
  BY <1>1, ApartIs, StepIs
<1>4. CASE v.hops <= 1
  <2>1. v2.hops \in {1, 2}
    BY <1>2, <1>4
  <2>. QED BY <1>1, <1>2, <1>3, <2>1 DEF VisitOK, Quick, Heading
<1>5. CASE v.hops <= 3 /\ Marked(b, t, v.to)
  <2>1. Settled(db, v2, b, t)
    BY <1>2, <1>3, <1>5 DEF Settled
  <2>. QED BY <1>1, <1>2, <2>1 DEF VisitOK
<1>. QED BY <1>1, <1>4, <1>5 DEF OnBounce

LEMMA OnwardOK ==
  ASSUME NEW db, NEW db2, NEW v, NEW v2, NEW b, NEW t, NEW code, Plain(db, b), VisitOK(db, v, b, t), v.hops \in Nat,
         v.phase = "bounce", Apart(db, v.to), In(db, b, t, v.host),
         SameHosts(db, db2), db2.session = db.session, db2.until = db.until,
         \E c \in db2.bounce : c.id = code /\ c.host = v.to /\ c.expires > t,
         Goes(v, v2, Ask("back", v.to, NoHost), code)
  PROVE  VisitOK(db2, v2, b, t)
<1>1. OnBounce(db, v, b, t) /\ v.to \in Host /\ db.until <= t
  BY DEF VisitOK, OnBounce, In
<1>2. /\ v2.phase = "back" /\ v2.host = v.to /\ v2.code = code /\ v2.hops = v.hops + 1
      /\ v2.known = v.known /\ v2.wants = v.wants
  BY AskIs DEF Goes
<1>3. v2.hops <= 4 /\ Apart(db2, v2.host) /\ db2.until <= t
  BY <1>1, <1>2, SameLeads DEF OnBounce
<1>4. v2.known => v2.host = Aim(db2, v2)
  BY <1>1, <1>2, SameLeads DEF OnBounce, SentRound, Aim
<1>5. \E c \in db2.bounce : c.id = v2.code /\ c.host = v2.host /\ c.expires > t
  BY <1>2
<1>6. v2.known => In(db2, b, t, Front(db2))
  BY <1>2, SameLeads DEF VisitOK, In
<1>. QED BY <1>1, <1>2, <1>3, <1>4, <1>5, <1>6 DEF VisitOK, OnBack

(* /_bounce trades the code for a session.                                 *)
LEMMA BackOK ==
  ASSUME NEW db, NEW db2, NEW v, NEW v2, NEW b, NEW b2, NEW t \in Nat, NEW id \in Nat \ {0},
         Plain(db, b), VisitOK(db, v, b, t), v.hops \in Nat, v.phase = "back",
         SameHosts(db, db2), db2.until = db.until, db.session \subseteq db2.session,
         \E s \in db2.session : s.id = id /\ s.expires > t,
         b2.domain = b.domain, b2.own = [b.own EXCEPT ![v.host] = id], DOMAIN b.own = Host,
         Goes(v, v2, Ask("page", v.host, NoHost), 0)
  PROVE  VisitOK(db2, v2, b2, t)
<1>1. OnBack(db, v, b, t) /\ HostsOK(db) /\ v.host \in Host
  BY DEF VisitOK, Plain
<1>2. /\ v2.phase = "page" /\ v2.host = v.host /\ v2.hops = v.hops + 1
      /\ v2.known = v.known /\ v2.wants = v.wants
  BY AskIs DEF Goes
<1>3. Ends(db, v.host) /\ v.host # Front(db)
  BY <1>1, ApartIs, FrontIs DEF OnBack
<1>4. Cookie(b2, v.host) = id /\ Cookie(b2, Front(db)) = Cookie(b, Front(db))
  BY <1>1, <1>3, FrontIs DEF Cookie
<1>5. In(db2, b2, t, v2.host)
  BY <1>1, <1>2, <1>4 DEF In, OnBack
<1>6. v2.known => In(db2, b2, t, Front(db2))
  BY <1>2, <1>4, SameLeads DEF VisitOK, In
<1>7. v2.known => v2.host = Aim(db2, v2)
  BY <1>1, <1>2, SameLeads DEF OnBack, Aim
<1>8. v2.hops <= 5 /\ Ends(db2, v2.host)
  BY <1>1, <1>2, <1>3, SameLeads DEF OnBack
<1>9. Settled(db2, v2, b2, t)
  BY <1>5, <1>7, <1>8 DEF Settled
<1>. QED BY <1>1, <1>2, <1>6, <1>9 DEF VisitOK

(* A visit begins: at a page, or with a sign-in.                           *)
LEMMA OpenOK ==
  ASSUME NEW db, NEW v2, NEW b, NEW t, NEW h \in Host,
         v2.phase = "page", v2.host = h, v2.wants = h, v2.hops = 0,
         v2.known => In(db, b, t, Front(db)), v2.marked <=> Marked(b, t, Last(db, h))
  PROVE  VisitOK(db, v2, b, t)
<1>1. Quick(db, v2) /\ Heading(db, v2, b, t)
  BY DEF Quick, Heading, Aim
<1>. QED BY <1>1 DEF VisitOK

(* What is kept with a sign-in is a page, or a bounce from the primary.    *)
NextOK(ask, old) ==
    \/ ask.phase = "page" /\ ask.host \in Host /\ ask.to = NoHost
    \/ ask.phase = "bounce" /\ ask.to \in Host /\ \E p \in old : ask.host = <<Bare, p>>

LEMMA NextIs ==
  ASSUME NEW db, HostsOK(db), ~db.clash, NEW p \in db.old, NEW next, NextOK(next, db.old),
         NEW dest, dest = safeNext(db, p, next)
  PROVE  \/ /\ dest.phase = "page" /\ dest.to = NoHost /\ dest.host \in Host
            /\ \/ resolve(db, dest.host).kind \in {"home", "group"} /\ Last(db, dest.host) = dest.host
               \/ Last(db, dest.host) = Front(db)
         \/ dest.phase = "bounce" /\ dest.to \in Host /\ dest.host = Front(db)
<1>1. CASE resolve(db, next.host).kind \notin {"home", "group"}
  <2>1. dest = Ask("page", <<Bare, p>>, NoHost)
    BY <1>1 DEF safeNext
  <2>. QED BY <2>1, AskIs, OldLeadsHome
<1>2. CASE resolve(db, next.host).kind \in {"home", "group"}
  <2>1. dest = next
    BY <1>2 DEF safeNext
  <2>2. CASE next.phase = "page" /\ next.host \in Host /\ next.to = NoHost
    <3>1. Ends(db, next.host)
      BY <1>2 DEF Ends
    <3>. QED BY <1>2, <2>1, <2>2, <3>1, LastIs
  <2>3. CASE next.phase = "bounce" /\ next.to \in Host /\ \E q \in db.old : next.host = <<Bare, q>>
    BY <1>2, <2>1, <2>3, OldLeadsHome
  <2>. QED BY <2>2, <2>3 DEF NextOK
<1>. QED BY <1>1, <1>2

LEMMA SignInOK ==
  ASSUME NEW db, NEW v2, NEW b, NEW t, Plain(db, b), NEW p \in db.old, NEW next, NextOK(next, db.old),
         NEW dest, dest = safeNext(db, p, next),
         v2.phase = "welcome" \/ v2.phase = dest.phase, v2.host = dest.host, v2.to = dest.to, v2.hops = 0,
         v2.known => In(db, b, t, Front(db)),
         v2.wants = IF dest.phase = "bounce" /\ Apart(db, dest.to) THEN dest.to ELSE dest.host,
         v2.marked <=> dest.phase = "page" /\ Marked(b, t, dest.host)
  PROVE  VisitOK(db, v2, b, t)
<1>1. HostsOK(db) /\ ~db.clash /\ Front(db) \in Host /\ Last(db, Front(db)) = Front(db) /\ ~Apart(db, Front(db))
  BY FrontIs, LastIs DEF Plain
<1>2. CASE /\ dest.phase = "page" /\ dest.to = NoHost /\ dest.host \in Host
           /\ \/ resolve(db, dest.host).kind \in {"home", "group"} /\ Last(db, dest.host) = dest.host
              \/ Last(db, dest.host) = Front(db)
  <2>1. v2.wants = dest.host /\ (v2.marked <=> Marked(b, t, dest.host))
    BY <1>2
  <2>2. Heading(db, v2, b, t)
    BY <1>1, <1>2, <2>1 DEF Heading, Aim
  <2>3. Quick(db, v2)
    BY DEF Quick
  <2>4. CASE v2.phase = "page"
    BY <1>2, <2>2, <2>3, <2>4 DEF VisitOK
  <2>5. CASE v2.phase = "welcome"
    BY <1>2, <2>2, <2>5 DEF VisitOK, OnWelcome
  <2>. QED BY <1>2, <2>4, <2>5
<1>3. CASE dest.phase = "bounce" /\ dest.to \in Host /\ dest.host = Front(db)
  <2>1. Apart(db, dest.to) => Last(db, dest.to) = dest.to
    BY <1>1, <1>3, ApartIs, LastIs
  <2>2. SentRound(db, v2)
    BY <1>1, <1>3, <2>1 DEF SentRound, Aim
  <2>3. CASE v2.phase = "bounce"
    BY <1>1, <1>3, <2>2, <2>3 DEF VisitOK, OnBounce
  <2>4. CASE v2.phase = "welcome"
    BY <1>1, <1>3, <2>2, <2>4 DEF VisitOK, OnWelcome
  <2>. QED BY <1>3, <2>3, <2>4
<1>. QED BY <1>1, <1>2, <1>3, NextIs

LEMMA WelcomeOK ==
  ASSUME NEW db, NEW db2, NEW v, NEW v2, NEW b, NEW t, Plain(db, b), VisitOK(db, v, b, t), v.hops \in Nat,
         v.phase = "welcome", SameHosts(db, db2), db2.session = db.session, db2.until = db.until,
         NEW ask, ask = safeNext(db, db.primary, Ask(IF v.to = NoHost THEN "page" ELSE "bounce", v.host, v.to)),
         Goes(v, v2, ask, 0)
  PROVE  VisitOK(db2, v2, b, t)
<1>1. OnWelcome(db, v, b, t) /\ HostsOK(db) /\ ~db.clash /\ v.host \in Host
  BY DEF VisitOK, Plain
<1>2. /\ v2.phase = ask.phase /\ v2.host = ask.host /\ v2.to = ask.to /\ v2.hops = 1
      /\ v2.known = v.known /\ v2.marked = v.marked /\ v2.wants = v.wants
  BY <1>1 DEF Goes, OnWelcome
<1>3. Front(db) \in Host /\ Last(db, Front(db)) = Front(db) /\ ~Apart(db, Front(db)) /\ Ends(db, Front(db))
      /\ resolve(db, Front(db)).kind = "home"
  BY <1>1, FrontIs, LastIs, Kinds
<1>4. v2.known => In(db2, b, t, Front(db2))
  BY <1>2, SameLeads DEF VisitOK, In
<1>5. CASE v.to = NoHost /\ Heading(db, v, b, t)
           /\ (resolve(db, v.host).kind \in {"home", "group"} \/ Last(db, v.host) = Front(db))
  <2>1. /\ v2.phase = "page" /\ v2.host \in Host /\ Ends(db, v2.host)
        /\ Last(db, v2.host) = Last(db, v.host)
    <3>1. CASE resolve(db, v.host).kind \in {"home", "group"}
      <4>1. ask = Ask("page", v.host, NoHost)
        BY <1>5, <3>1, AskIs DEF safeNext
      <4>. QED BY <1>1, <1>2, <3>1, <4>1, AskIs DEF Ends
    <3>2. CASE resolve(db, v.host).kind \notin {"home", "group"}
      <4>1. ask = Ask("page", Front(db), NoHost)
        BY <1>5, <3>2, AskIs DEF safeNext, Front
      <4>. QED BY <1>2, <1>3, <1>5, <3>2, <4>1, AskIs
    <3>. QED BY <3>1, <3>2
  <2>2. Quick(db2, v2)
    BY <1>2, <2>1, SameLeads, StepIs DEF Quick
  <2>3. Heading(db2, v2, b, t)
    BY <1>2, <1>5, <2>1, SameLeads DEF Heading, Aim
  <2>. QED BY <1>4, <2>1, <2>2, <2>3 DEF VisitOK
<1>6. CASE v.to \in Host /\ v.host = Front(db) /\ SentRound(db, v)
  <2>1. ask = Ask("bounce", Front(db), v.to)
    BY <1>3, <1>6, AskIs, NotAHost DEF safeNext
  <2>2. v2.phase = "bounce" /\ v2.host = Front(db2) /\ v2.to = v.to
    BY <1>2, <2>1, AskIs, SameLeads
  <2>3. SentRound(db2, v2)
    BY <1>2, <1>6, <2>2, SameLeads DEF SentRound, Aim
  <2>. QED BY <1>2, <1>3, <1>4, <1>6, <2>2, <2>3, SameLeads DEF VisitOK, OnBounce
<1>. QED BY <1>1, <1>5, <1>6 DEF OnWelcome

(* Other commands leave a visit where it is.                               *)
LEMMA RestsOK ==
  ASSUME NEW db, NEW db2, NEW v, NEW b, NEW b2, NEW t, VisitOK(db, v, b, t),
         SameHosts(db, db2), db2.session = db.session, db2.until = db.until, db2.bounce = db.bounce,
         b2.own = b.own, b2.domain = b.domain, b2.bounced = b.bounced
  PROVE  VisitOK(db2, v, b2, t)
<1>1. \A h : In(db2, b2, t, h) <=> In(db, b, t, h)
  BY DEF In, Cookie
<1>2. \A h : Marked(b2, t, h) <=> Marked(b, t, h)
  BY DEF Marked
<1>3. /\ Front(db2) = Front(db) /\ Aim(db2, v) = Aim(db, v)
      /\ \A h : /\ resolve(db2, h) = resolve(db, h) /\ Ends(db2, h) = Ends(db, h) /\ Apart(db2, h) = Apart(db, h)
                /\ Step(db2, h) = Step(db, h) /\ Last(db2, h) = Last(db, h)
  BY SameLeads DEF Aim
<1>4. /\ Quick(db2, v) <=> Quick(db, v)
      /\ Heading(db2, v, b2, t) <=> Heading(db, v, b, t)
      /\ SentRound(db2, v) <=> SentRound(db, v)
      /\ Landed(db2, v) <=> Landed(db, v)
  BY <1>2, <1>3 DEF Quick, Heading, SentRound, Landed
<1>5. Settled(db2, v, b2, t) <=> Settled(db, v, b, t)
  BY <1>1, <1>2, <1>3 DEF Settled
<1>6. /\ OnBounce(db2, v, b2, t) <=> OnBounce(db, v, b, t)
      /\ OnBack(db2, v, b2, t) <=> OnBack(db, v, b, t)
      /\ OnWelcome(db2, v, b2, t) <=> OnWelcome(db, v, b, t)
  BY <1>2, <1>3, <1>4 DEF OnBounce, OnBack, OnWelcome
<1>. QED BY <1>1, <1>3, <1>4, <1>5, <1>6 DEF VisitOK

(* What the commands change, and what they keep of a visit: where sign-ins *)
(* may go to, and whose codes there are.                                   *)
CopyKept(db, old, owned) ==
    /\ DOMAIN db = DbField /\ HostsOK(db) /\ db.old \subseteq old /\ db.owned \subseteq owned
    /\ \A t \in DOMAIN db.token : DOMAIN db.token[t] = TokenField /\ NextOK(db.token[t].next, old)
DbKept(db) ==
    /\ CopyKept(db, db.old, db.owned)
    /\ \A c \in db.bounce : c.host \in Host /\ c.host[2] \in db.owned
GoesOn(db, db2) == DbKept(db2) /\ Later(db, db2)

Changes(db, db2, F) == DOMAIN db2 = DbField /\ \A x \in DbField \ F : db2[x] = db[x]

LEMMA GoesOnTwice ==
  ASSUME NEW db, NEW c, NEW again, GoesOn(db, c), GoesOn(c, again)
  PROVE  GoesOn(db, again)
BY DEF GoesOn, Later

LEMMA StaysKept ==
  ASSUME NEW db, DbKept(db)
  PROVE  GoesOn(db, db)
BY DEF GoesOn, Later

LEMMA CopyStays ==
  ASSUME NEW db, NEW old, NEW owned, NEW old2, NEW owned2, CopyKept(db, old, owned),
         old \subseteq old2, owned \subseteq owned2
  PROVE  CopyKept(db, old2, owned2)
BY DEF CopyKept, NextOK

LEMMA AccountsGo ==
  ASSUME NEW db, NEW c, NEW F, DbKept(db), Changes(db, c, F), F \cap HostField = {},
         \A t \in DOMAIN c.token : DOMAIN c.token[t] = TokenField /\ NextOK(c.token[t].next, db.old),
         \A b \in c.bounce : b \in db.bounce \/ (b.host \in Host /\ b.host[2] \in db.owned)
  PROVE  GoesOn(db, c) /\ SameHosts(db, c)
<1>1. SameHosts(db, c)
  BY DEF Changes, SameHosts, DbField, HostField
<1>2. HostsOK(c)
  BY <1>1, HostsStill DEF DbKept, CopyKept
<1>. QED BY <1>1, <1>2 DEF GoesOn, DbKept, CopyKept, Later, SameHosts, Changes

(* The commands that leave sign-ins and codes alone.                       *)
LEMMA OthersGo ==
  ASSUME NEW db, NEW c, NEW F, DbKept(db), Changes(db, c, F), F \cap (HostField \cup {"token", "bounce"}) = {}
  PROVE  GoesOn(db, c) /\ SameHosts(db, c) /\ c.bounce = db.bounce
<1>1. c.token = db.token /\ c.bounce = db.bounce
  BY DEF Changes, DbField, AccountField
<1>2. F \cap HostField = {}
  OBVIOUS
<1>3. \A t \in DOMAIN c.token : DOMAIN c.token[t] = TokenField /\ NextOK(c.token[t].next, db.old)
  BY <1>1 DEF DbKept, CopyKept
<1>. QED BY <1>1, <1>2, <1>3, AccountsGo

LEMMA CreateLoginGoes ==
  ASSUME NEW db, DbKept(db), NEW t, NEW next, NextOK(next, db.old), NEW at
  PROVE  GoesOn(db, CreateLogin(db, t, next, at).db)
<1>. DEFINE row == [expires |-> at + LoginTTL, tries |-> 0, used |-> FALSE, next |-> next]
            token == Put(db.token, t, row)
            c == [db EXCEPT !.token = token]
<1>1. CreateLogin(db, t, next, at).db \in {db, c}
  BY DEF CreateLogin, Done, Refused
<1>2. DOMAIN row = TokenField /\ row.next = next
  BY DEF TokenField
<1>. HIDE DEF row
<1>3. \A x \in DOMAIN token : DOMAIN token[x] = TokenField /\ NextOK(token[x].next, db.old)
  BY <1>2 DEF Put, DbKept, CopyKept
<1>. HIDE DEF token
<1>4. Changes(db, c, {"token"}) /\ c.token = token /\ c.bounce = db.bounce
  BY DEF Changes, DbKept, CopyKept, DbField, HostField, AccountField
<1>5. {"token"} \cap HostField = {}
  BY DEF HostField
<1>. HIDE DEF c
<1>6. GoesOn(db, c)
  BY <1>3, <1>4, <1>5, AccountsGo
<1>. QED BY <1>1, <1>6, StaysKept

LEMMA FailGoes ==
  ASSUME NEW db, DbKept(db), NEW t
  PROVE  LET c == FailLoginCode(db, t).db
         IN /\ GoesOn(db, c) /\ SameHosts(db, c)
            /\ c.session = db.session /\ c.until = db.until /\ c.bounce = db.bounce
<1>. DEFINE row == [db.token[t] EXCEPT !.tries = db.token[t].tries + 1]
            token == [db.token EXCEPT ![t] = row]
            c == [db EXCEPT !.token = token]
<1>1. FailLoginCode(db, t).db = db \/ (t \in DOMAIN db.token /\ FailLoginCode(db, t).db = c)
  BY DEF FailLoginCode, Done
<1>2. CASE t \in DOMAIN db.token
  <2>1. DOMAIN row = TokenField /\ row.next = db.token[t].next
    BY <1>2 DEF DbKept, CopyKept, TokenField
  <2>. HIDE DEF row
  <2>2. \A x \in DOMAIN token : DOMAIN token[x] = TokenField /\ NextOK(token[x].next, db.old)
    BY <2>1 DEF DbKept, CopyKept
  <2>. HIDE DEF token
  <2>3. Changes(db, c, {"token"}) /\ c.token = token /\ c.bounce = db.bounce
        /\ c.session = db.session /\ c.until = db.until
    BY DEF Changes, DbKept, CopyKept, DbField, HostField, AccountField
  <2>4. {"token"} \cap HostField = {}
    BY DEF HostField
  <2>. HIDE DEF c
  <2>5. GoesOn(db, c) /\ SameHosts(db, c)
    BY <2>2, <2>3, <2>4, AccountsGo
  <2>. QED BY <1>1, <2>3, <2>5, StaysKept DEF SameHosts
<1>. QED BY <1>1, <1>2, StaysKept DEF SameHosts

LEMMA RedeemGoes ==
  ASSUME NEW db, DbKept(db), NEW t, NEW id, NEW at, NEW wrong
  PROVE  LET r == RedeemLogin(db, t, id, at, wrong)
             c == r.db
         IN /\ GoesOn(db, c) /\ SameHosts(db, c) /\ c.until = db.until
            /\ r.ok => \E s \in c.session : s.id = id /\ s.expires = at + SessionTTL
<1>. DEFINE row == [db.token[t] EXCEPT !.used = TRUE]
            token == [db.token EXCEPT ![t] = row]
            one == [db EXCEPT !.token = token, !.known = TRUE]
            c == WithSession(one, id, at, t, wrong)
            r == RedeemLogin(db, t, id, at, wrong)
<1>1. (r.db = db /\ ~r.ok) \/ (t \in DOMAIN db.token /\ r.db = c)
  BY DEF RedeemLogin, Done, Refused, usable
<1>2. CASE t \in DOMAIN db.token /\ r.db = c
  <2>1. DOMAIN row = TokenField /\ row.next = db.token[t].next
    BY <1>2 DEF DbKept, CopyKept, TokenField
  <2>. HIDE DEF row, r
  <2>2. \A x \in DOMAIN token : DOMAIN token[x] = TokenField /\ NextOK(token[x].next, db.old)
    BY <2>1 DEF DbKept, CopyKept
  <2>. HIDE DEF token
  <2>3. Changes(db, one, {"token", "known"}) /\ one.token = token
    BY DEF Changes, DbKept, CopyKept, DbField, HostField, AccountField
  <2>. HIDE DEF one
  <2>. DEFINE session == [id |-> id, expires |-> at + SessionTTL, from |-> t]
              sessions == one.session \cup {session}
              given == one.given \cup {[id |-> id, from |-> t, wrong |-> wrong]}
  <2>4. c = [one EXCEPT !.session = sessions, !.given = given]
    BY DEF WithSession
  <2>5. session \in sessions /\ session.id = id /\ session.expires = at + SessionTTL
    OBVIOUS
  <2>. HIDE DEF sessions, given, session, c
  <2>6. /\ Changes(db, c, {"token", "known", "session", "given"}) /\ c.token = token /\ c.bounce = db.bounce
        /\ c.session = sessions /\ c.until = db.until
    BY <2>3, <2>4 DEF Changes, DbField, HostField, AccountField
  <2>7. {"token", "known", "session", "given"} \cap HostField = {}
    BY DEF HostField
  <2>8. GoesOn(db, c) /\ SameHosts(db, c)
    BY <2>2, <2>6, <2>7, AccountsGo
  <2>. QED BY <1>2, <2>5, <2>6, <2>8 DEF r
<1>3. CASE r.db = db /\ ~r.ok
  <2>. HIDE DEF r
  <2>1. GoesOn(db, r.db) /\ SameHosts(db, r.db) /\ r.db.until = db.until
    BY <1>3, StaysKept DEF SameHosts
  <2>. QED BY <1>3, <2>1 DEF r
<1>. QED BY <1>1, <1>2, <1>3

LEMMA StartGoes ==
  ASSUME NEW db, DbKept(db), NEW id, NEW host \in Host, host[2] \in db.owned, NEW at
  PROVE  LET r == StartBounce(db, id, host, at)
             c == r.db
         IN /\ GoesOn(db, c) /\ SameHosts(db, c) /\ c.session = db.session /\ c.until = db.until
            /\ r.ok => \E b \in c.bounce : b.id = id /\ b.host = host /\ b.expires = at + BounceTTL
            /\ (\A b \in db.bounce : b.id # id) => r.ok
<1>. DEFINE new == [id |-> id, host |-> host, expires |-> at + BounceTTL]
            codes == {b \in db.bounce : b.expires > at} \cup {new}
            c == [db EXCEPT !.bounce = codes]
            r == StartBounce(db, id, host, at)
<1>1. (\/ r.db = db /\ ~r.ok
       \/ r.db = c /\ r.ok) /\ ((\A b \in db.bounce : b.id # id) => r.ok)
  BY DEF StartBounce, Done, Refused
<1>2. new.id = id /\ new.host = host /\ new.expires = at + BounceTTL /\ new \in codes
  OBVIOUS
<1>3. \A b \in codes : b \in db.bounce \/ (b.host \in Host /\ b.host[2] \in db.owned)
  BY <1>2
<1>. HIDE DEF new, codes
<1>4. /\ Changes(db, c, {"bounce"}) /\ c.token = db.token /\ c.bounce = codes
      /\ c.session = db.session /\ c.until = db.until
  BY DEF Changes, DbKept, CopyKept, DbField, HostField, AccountField
<1>5. {"bounce"} \cap HostField = {}
  BY DEF HostField
<1>. HIDE DEF c, r
<1>6. GoesOn(db, c) /\ SameHosts(db, c)
  <2>1. \A t \in DOMAIN c.token : DOMAIN c.token[t] = TokenField /\ NextOK(c.token[t].next, db.old)
    BY <1>4 DEF DbKept, CopyKept
  <2>. QED BY <1>3, <1>4, <1>5, <2>1, AccountsGo
<1>7. GoesOn(db, db) /\ SameHosts(db, db)
  BY StaysKept DEF SameHosts
<1>. QED BY <1>1, <1>2, <1>4, <1>6, <1>7 DEF r

LEMMA FinishGoes ==
  ASSUME NEW db, DbKept(db), NEW code, NEW host, NEW id, NEW at
  PROVE  LET r == FinishBounce(db, code, host, id, at)
             c == r.db
         IN /\ GoesOn(db, c) /\ SameHosts(db, c) /\ c.until = db.until /\ db.session \subseteq c.session
            /\ r.ok => \E s \in c.session : s.id = id /\ s.expires = at + SessionTTL
            /\ r.ok <=> \E b \in db.bounce : b.id = code /\ b.host = host /\ b.expires > at
<1>. DEFINE codes == {b \in db.bounce : b.id # code}
            one == [db EXCEPT !.bounce = codes]
            c == WithSession(one, id, at, code, 0)
            r == FinishBounce(db, code, host, id, at)
            there == \E b \in db.bounce : b.id = code /\ b.host = host /\ b.expires > at
<1>1. IF there THEN r.db = c /\ r.ok ELSE r.db = db /\ ~r.ok
  BY DEF FinishBounce, Done, Refused
<1>2. codes \subseteq db.bounce
  OBVIOUS
<1>. HIDE DEF codes
<1>3. Changes(db, one, {"bounce"}) /\ one.bounce = codes
  BY DEF Changes, DbKept, CopyKept, DbField, HostField, AccountField
<1>. HIDE DEF one
<1>. DEFINE session == [id |-> id, expires |-> at + SessionTTL, from |-> code]
            sessions == one.session \cup {session}
            given == one.given \cup {[id |-> id, from |-> code, wrong |-> 0]}
<1>4. c = [one EXCEPT !.session = sessions, !.given = given]
  BY DEF WithSession
<1>5. session \in sessions /\ session.id = id /\ session.expires = at + SessionTTL /\ one.session \subseteq sessions
  OBVIOUS
<1>. HIDE DEF sessions, given, session, c
<1>6. /\ Changes(db, c, {"bounce", "session", "given"}) /\ c.token = db.token /\ c.bounce = codes
      /\ c.session = sessions /\ c.until = db.until /\ one.session = db.session
  BY <1>3, <1>4 DEF Changes, DbField, HostField, AccountField
<1>7. {"bounce", "session", "given"} \cap HostField = {}
  BY DEF HostField
<1>. HIDE DEF r, there
<1>8. GoesOn(db, c) /\ SameHosts(db, c)
  <2>1. \A t \in DOMAIN c.token : DOMAIN c.token[t] = TokenField /\ NextOK(c.token[t].next, db.old)
    BY <1>6 DEF DbKept, CopyKept
  <2>. QED BY <1>2, <1>6, <1>7, <2>1, AccountsGo
<1>9. GoesOn(db, db) /\ SameHosts(db, db)
  BY StaysKept DEF SameHosts
<1>. QED BY <1>1, <1>5, <1>6, <1>8, <1>9 DEF r, there

LEMMA OthersChange ==
  ASSUME NEW db, DbKept(db)
  PROVE  /\ \A h : Changes(db, SetHandle(db, h).db, {"handle"})
         /\ \A id : Changes(db, EndSession(db, id).db, {"session"})
         /\ \A email, daily : Changes(db, SetNotifyPrefs(db, email, daily).db, {"email", "digest"})
<1>0. DOMAIN db = DbField
  BY DEF DbKept, CopyKept
<1>1. ASSUME NEW h PROVE Changes(db, SetHandle(db, h).db, {"handle"})
  <2>1. SetHandle(db, h).db \in {db, [db EXCEPT !.handle = h]}
    BY DEF SetHandle, Done, Refused
  <2>. QED BY <1>0, <2>1 DEF Changes, DbField
<1>2. ASSUME NEW id PROVE Changes(db, EndSession(db, id).db, {"session"})
  <2>. DEFINE rest == {s \in db.session : s.id # id}
  <2>1. EndSession(db, id).db = [db EXCEPT !.session = rest]
    BY DEF EndSession, Done
  <2>. HIDE DEF rest
  <2>. QED BY <1>0, <2>1 DEF Changes, DbField
<1>3. ASSUME NEW email, NEW daily PROVE Changes(db, SetNotifyPrefs(db, email, daily).db, {"email", "digest"})
  <2>1. SetNotifyPrefs(db, email, daily).db = [db EXCEPT !.email = email, !.digest = daily]
    BY DEF SetNotifyPrefs, Done
  <2>. QED BY <1>0, <2>1 DEF Changes, DbField
<1>. QED BY <1>1, <1>2, <1>3

LEMMA OthersGoOn ==
  ASSUME NEW db, DbKept(db)
  PROVE  /\ \A h : LET c == SetHandle(db, h).db
                   IN /\ GoesOn(db, c) /\ SameHosts(db, c)
                      /\ c.session = db.session /\ c.until = db.until /\ c.bounce = db.bounce
         /\ \A email, daily : LET c == SetNotifyPrefs(db, email, daily).db
                              IN /\ GoesOn(db, c) /\ SameHosts(db, c)
                                 /\ c.session = db.session /\ c.until = db.until /\ c.bounce = db.bounce
         /\ \A id : GoesOn(db, EndSession(db, id).db)
<1>1. /\ {"handle"} \cap (HostField \cup {"token", "bounce"}) = {}
      /\ {"email", "digest"} \cap (HostField \cup {"token", "bounce"}) = {}
      /\ {"session"} \cap (HostField \cup {"token", "bounce"}) = {}
  BY DEF HostField
<1>2. ASSUME NEW h PROVE LET c == SetHandle(db, h).db
                         IN /\ GoesOn(db, c) /\ SameHosts(db, c)
                            /\ c.session = db.session /\ c.until = db.until /\ c.bounce = db.bounce
  <2>. DEFINE c == SetHandle(db, h).db
  <2>1. Changes(db, c, {"handle"})
    BY OthersChange
  <2>. HIDE DEF c
  <2>2. GoesOn(db, c) /\ SameHosts(db, c) /\ c.bounce = db.bounce
    BY <1>1, <2>1, OthersGo
  <2>3. c.session = db.session /\ c.until = db.until
    BY <2>1 DEF Changes, DbField, AccountField
  <2>. QED BY <2>2, <2>3 DEF c
<1>3. ASSUME NEW email, NEW daily PROVE LET c == SetNotifyPrefs(db, email, daily).db
                         IN /\ GoesOn(db, c) /\ SameHosts(db, c)
                            /\ c.session = db.session /\ c.until = db.until /\ c.bounce = db.bounce
  <2>. DEFINE c == SetNotifyPrefs(db, email, daily).db
  <2>1. Changes(db, c, {"email", "digest"})
    BY OthersChange
  <2>. HIDE DEF c
  <2>2. GoesOn(db, c) /\ SameHosts(db, c) /\ c.bounce = db.bounce
    BY <1>1, <2>1, OthersGo
  <2>3. c.session = db.session /\ c.until = db.until
    BY <2>1 DEF Changes, DbField, AccountField
  <2>. QED BY <2>2, <2>3 DEF c
<1>4. ASSUME NEW id PROVE GoesOn(db, EndSession(db, id).db)
  BY <1>1, OthersChange, OthersGo
<1>. QED BY <1>2, <1>3, <1>4

LEMMA SuspendGoes ==
  ASSUME NEW db, DbKept(db), NEW until, NEW at
  PROVE  GoesOn(db, SuspendUser(db, until, at).db)
<1>. DEFINE ended == db.ended \cup {s.id : s \in db.given}
            c == SuspendUser(db, until, at).db
<1>1. c \in {db, [db EXCEPT !.until = until, !.session = {}, !.ended = ended], [db EXCEPT !.until = until]}
  BY DEF SuspendUser, Done, Refused
<1>. HIDE DEF ended, c
<1>2. Changes(db, c, {"until", "session", "ended"})
  BY <1>1 DEF Changes, DbKept, CopyKept, DbField
<1>3. {"until", "session", "ended"} \cap (HostField \cup {"token", "bounce"}) = {}
  BY DEF HostField
<1>. QED BY <1>2, <1>3, OthersGo DEF c

LEMMA PurgeGoes ==
  ASSUME NEW db, DbKept(db), NEW before
  PROVE  GoesOn(db, Purge(db, before).db)
<1>. DEFINE token == [t \in {u \in DOMAIN db.token : db.token[u].expires >= before} |-> db.token[t]]
            session == {s \in db.session : s.expires >= before}
            c == Purge(db, before).db
<1>1. c = [db EXCEPT !.token = token, !.session = session]
  BY DEF Purge, Done
<1>2. DOMAIN token \subseteq DOMAIN db.token /\ \A t \in DOMAIN token : token[t] = db.token[t]
  OBVIOUS
<1>. HIDE DEF token, session, c
<1>3. Changes(db, c, {"token", "session"}) /\ c.token = token /\ c.bounce = db.bounce
  BY <1>1 DEF Changes, DbKept, CopyKept, DbField, HostField, AccountField
<1>4. \A t \in DOMAIN c.token : DOMAIN c.token[t] = TokenField /\ NextOK(c.token[t].next, db.old)
  BY <1>2, <1>3 DEF DbKept, CopyKept
<1>5. {"token", "session"} \cap HostField = {}
  BY DEF HostField
<1>. QED BY <1>3, <1>4, <1>5, AccountsGo DEF c

LEMMA AddressesGo ==
  ASSUME NEW db, NEW c, DbKept(db), AddressesKept(db, c)
  PROVE  GoesOn(db, c)
<1>1. \A t \in DOMAIN c.token : DOMAIN c.token[t] = TokenField /\ NextOK(c.token[t].next, c.old)
  BY DEF AddressesKept, SameAccounts, Later, DbKept, CopyKept, NextOK
<1>. QED BY <1>1 DEF AddressesKept, SameAccounts, GoesOn, Later, DbKept, CopyKept

(* The inductive invariant of visits.  Past: wherever a copy that lags     *)
(* still leads, it was once the primary, or a group's; so were the         *)
(* browser's cookies, and what sign-ins and codes were made for.           *)
VisitField == {"phase", "host", "to", "code", "hops", "calm", "known", "signed", "marked", "wants", "in"}
BrowserField == {"own", "domain", "bounced", "pending", "wrong"}

AskTyped(phase, host, to) ==
    host \in Host /\ to \in Host \cup {NoHost} /\ (phase = "bounce" => to \in Host)
VisitTyped ==
    /\ now \in Nat /\ lost \in Int /\ plan.lost \in Int /\ lost <= plan.lost
    /\ DOMAIN browser = BrowserField
    /\ DOMAIN browser.own = Host /\ DOMAIN browser.bounced = Host /\ DOMAIN browser.domain = Domain
    /\ DOMAIN visit = VisitField /\ visit.hops \in Nat
    /\ visit.phase = "none" \/ AskTyped(visit.phase, visit.host, visit.to)

Past ==
    /\ \A i \in 1 .. Len(site) : CopyKept(site[i], Db.old, Db.owned)
    /\ DbKept(Db)
    /\ \A h \in Host : browser.own[h] # 0 => h[2] \in Db.owned

Undisturbed == visit.calm /\ lost = plan.lost /\ ~Db.clash /\ Db.owned \cap Db.old = {}
VisitInv == Undisturbed => VisitOK(Db, visit, browser, now)

LEMMA NoVisitIs ==
    /\ DOMAIN NoVisit = VisitField /\ NoVisit.phase = "none" /\ NoVisit.to = NoHost /\ NoVisit.hops = 0
    /\ NoVisit.calm = FALSE
BY DEF NoVisit, VisitField

LEMMA CopyIs ==
  ASSUME SiteInv, Past, NEW n \in Node
  PROVE  /\ CopyKept(View(n), Db.old, Db.owned) /\ HostsOK(View(n))
         /\ View(n).primary \in Domain /\ View(n).primary \in Db.old
         /\ Front(View(n)) \in Host /\ Front(View(n)) = <<Bare, View(n).primary>>
<1>1. CopyKept(View(n), Db.old, Db.owned)
  BY DEF SiteInv, Past, View
<1>2. HostsOK(View(n)) /\ View(n).primary \in Db.old /\ View(n).primary \in Domain
  BY <1>1 DEF CopyKept, HostsOK
<1>. QED BY <1>1, <1>2, FrontIs DEF Front

LEMMA PastStays ==
  ASSUME Past, site' = site, browser'.own = browser.own
  PROVE  Past'
BY DEF Past, Db

LEMMA PastGrows ==
  ASSUME SiteInv, Past, NEW n \in Node, NEW c, NEW again, Grew(n, c, again),
         GoesOn(Db, c), GoesOn(c, again),
         \A h \in Host : browser'.own[h] # 0 => browser'.own[h] = browser.own[h] \/ h[2] \in Db.owned
  PROVE  Past'
<1>1. PICK S : site \in Seq(S)
  BY DEF SiteInv
<1>2. /\ site' = Append(site, c) =>
           /\ Db' = c
           /\ \A i \in 1 .. Len(site') : (i \in 1 .. Len(site) /\ site'[i] = site[i]) \/ site'[i] = c
      /\ site' = site \o <<c, again>> =>
           /\ Db' = again
           /\ \A i \in 1 .. Len(site') : (i \in 1 .. Len(site) /\ site'[i] = site[i]) \/ site'[i] \in {c, again}
  BY <1>1, LogGrows
<1>3. ASSUME NEW d, GoesOn(Db, d), Db' = d,
             \A i \in 1 .. Len(site') : \/ i \in 1 .. Len(site) /\ site'[i] = site[i]
                                        \/ CopyKept(site'[i], d.old, d.owned)
      PROVE  Past'
  <2>1. \A i \in 1 .. Len(site) : CopyKept(site[i], d.old, d.owned)
    BY <1>3, CopyStays DEF Past, GoesOn, Later
  <2>2. \A i \in 1 .. Len(site') : CopyKept(site'[i], Db'.old, Db'.owned)
    BY <1>3, <2>1
  <2>3. \A h \in Host : browser'.own[h] # 0 => h[2] \in Db'.owned
    BY <1>3 DEF Past, GoesOn, Later
  <2>. QED BY <1>3, <2>2, <2>3 DEF Past, GoesOn
<1>4. GoesOn(Db, again)
  BY GoesOnTwice
<1>5. CopyKept(c, c.old, c.owned) /\ CopyKept(again, again.old, again.owned) /\ CopyKept(c, again.old, again.owned)
  BY CopyStays DEF GoesOn, DbKept, Later
<1>6. CASE site' = Append(site, c)
  <2>1. Db' = c /\ \A i \in 1 .. Len(site') : (i \in 1 .. Len(site) /\ site'[i] = site[i]) \/ site'[i] = c
    BY <1>2, <1>6
  <2>. QED BY <1>3, <1>5, <2>1
<1>7. CASE site' = site \o <<c, again>>
  <2>1. Db' = again
        /\ \A i \in 1 .. Len(site') : (i \in 1 .. Len(site) /\ site'[i] = site[i]) \/ site'[i] \in {c, again}
    BY <1>2, <1>7
  <2>. QED BY <1>3, <1>4, <1>5, <2>1
<1>. QED BY <1>6, <1>7 DEF Grew

(* An undisturbed step: the node has heard of everything.                  *)
LEMMA CalmIs ==
  ASSUME VisitTyped, Past, NEW n \in Node, Undisturbed, seen[n] = Len(site)
  PROVE  View(n) = Db /\ Plain(Db, browser)
BY DEF Undisturbed, View, Db, Plain, Past, DbKept, CopyKept, HostsOK

LEMMA BecomeIs ==
  ASSUME VisitTyped, NEW n, NEW ask, NEW code, Become(n, ask, code), AskTyped(ask.phase, ask.host, ask.to)
  PROVE  /\ DOMAIN visit' = VisitField /\ visit'.hops \in Nat /\ AskTyped(visit'.phase, visit'.host, visit'.to)
         /\ Goes(visit, visit', ask, code)
         /\ visit'.calm => visit.calm /\ seen[n] = Len(site)
<1>1. DOMAIN visit = VisitField /\ visit.hops \in Nat
  BY DEF VisitTyped
<1>. DEFINE phase == ask.phase  host == ask.host  to == ask.to  hops == visit.hops + 1  calm == Calmly(n)
<1>2. visit' = [visit EXCEPT !.phase = phase, !.host = host, !.to = to, !.code = code,
                             !.hops = hops, !.calm = calm]
  BY DEF Become
<1>3. hops \in Nat /\ hops = visit.hops + 1
  BY <1>1
<1>. HIDE DEF phase, host, to, hops, calm
<1>4. /\ DOMAIN visit' = VisitField
      /\ visit'.phase = phase /\ visit'.host = host /\ visit'.to = to /\ visit'.code = code
      /\ visit'.hops = hops /\ visit'.calm = calm
      /\ visit'.known = visit.known /\ visit'.marked = visit.marked /\ visit'.wants = visit.wants
  BY <1>1, <1>2 DEF VisitField
<1>5. phase = ask.phase /\ host = ask.host /\ to = ask.to /\ (calm => visit.calm /\ seen[n] = Len(site))
  BY DEF phase, host, to, calm, Calmly
<1>6. AskTyped(visit'.phase, visit'.host, visit'.to)
  BY <1>4, <1>5
<1>. QED BY <1>3, <1>4, <1>5, <1>6 DEF Goes

LEMMA ShownIs ==
  ASSUME VisitTyped, NEW n, NEW h \in Host, NEW in, Shown(n, h, in), visit.phase # "none"
  PROVE  /\ DOMAIN visit' = VisitField /\ visit'.hops \in Nat /\ AskTyped(visit'.phase, visit'.host, visit'.to)
         /\ visit'.phase = "shown" /\ visit'.host = h /\ visit'.hops = visit.hops /\ visit'.in = in
         /\ visit'.known = visit.known /\ visit'.marked = visit.marked /\ visit'.wants = visit.wants
         /\ visit'.calm => visit.calm /\ seen[n] = Len(site)
<1>1. DOMAIN visit = VisitField /\ visit.hops \in Nat /\ visit.to \in Host \cup {NoHost}
  BY DEF VisitTyped, AskTyped
<1>. QED BY <1>1 DEF Shown, Calmly, VisitField, AskTyped

VisitState == VisitTyped /\ Past /\ VisitInv

LEMMA OnceIs ==
  ASSUME SiteInv, NEW n \in Node, NEW c, site' = Append(site, c), seen' = [seen EXCEPT ![n] = Len(site')]
  PROVE  Db' = c /\ seen'[n] = Len(site') /\ site'[seen'[n]] = c
<1>1. PICK S : site \in Seq(S)
  BY DEF SiteInv
<1>2. Db' = c
  BY <1>1, LogGrows DEF Grew
<1>3. seen'[n] = Len(site')
  BY DEF SiteInv
<1>. QED BY <1>2, <1>3 DEF Db

LEMMA PlainIs ==
  ASSUME NEW db, NEW b, DbKept(db), ~db.clash, db.owned \cap db.old = {},
         \A h \in Host : b.own[h] # 0 => h[2] \in db.owned
  PROVE  Plain(db, b)
BY DEF Plain, DbKept, CopyKept, HostsOK

(* A command other than a visit's: as far as the visit goes, nothing       *)
(* changed.                                                                *)
LEMMA RestsInv ==
  ASSUME VisitTyped, VisitInv, visit' = visit, now' = now, plan' = plan, lost' \in {lost, lost - 1},
         SameHosts(Db, Db'), Db'.session = Db.session, Db'.until = Db.until, Db'.bounce = Db.bounce,
         browser'.own = browser.own, browser'.domain = browser.domain, browser'.bounced = browser.bounced
  PROVE  VisitInv'
<1>. SUFFICES ASSUME Undisturbed' PROVE VisitOK(Db', visit, browser', now)
  BY DEF VisitInv
<1>1. lost = plan.lost
  BY DEF Undisturbed, VisitTyped
<1>2. Undisturbed
  BY <1>1 DEF Undisturbed, SameHosts
<1>3. VisitOK(Db, visit, browser, now)
  BY <1>2 DEF VisitInv
<1>. QED BY <1>3, RestsOK

(* A step that ends what is said of the visit.                             *)
LEMMA DisturbedInv == ~visit'.calm => VisitInv'
BY DEF VisitInv, Undisturbed

LEMMA VisitStays ==
  ASSUME VisitState, UNCHANGED <<visit, now, browser, lost, site>>, plan' = plan
  PROVE  VisitState'
BY DEF VisitState, VisitTyped, Past, VisitInv, Undisturbed, Db

LEMMA OpenStep ==
  ASSUME SiteInv, VisitState, NEW h \in Host, Open(h)
  PROVE  VisitState'
<1>. DEFINE known == user(Db, <<Bare, Db.primary>>)
            marked == Bounced(Last(Db, h))
<1>1. visit' = [NoVisit EXCEPT !.phase = "page", !.host = h, !.calm = TRUE, !.wants = h,
                               !.known = known, !.marked = marked]
  BY DEF Open
<1>2. /\ known <=> In(Db, browser, now, Front(Db))
      /\ marked <=> Marked(browser, now, Last(Db, h))
  BY InIs DEF Front
<1>. HIDE DEF known, marked
<1>3. /\ DOMAIN visit' = VisitField /\ visit'.phase = "page" /\ visit'.host = h /\ visit'.to = NoHost
      /\ visit'.hops = 0 /\ visit'.wants = h /\ visit'.known = known /\ visit'.marked = marked
  BY <1>1 DEF NoVisit, VisitField
<1>4. UNCHANGED <<site, lost, now, browser>> /\ plan' = plan /\ Db' = Db
  BY DEF Open, Given, logVars, Db
<1>5. VisitTyped'
  BY <1>3, <1>4 DEF VisitState, VisitTyped, AskTyped
<1>6. Past'
  BY <1>4, PastStays DEF VisitState
<1>7. VisitOK(Db, visit', browser, now)
  BY <1>2, <1>3, OpenOK
<1>8. VisitInv'
  BY <1>4, <1>7 DEF VisitInv
<1>. QED BY <1>5, <1>6, <1>8 DEF VisitState

LEMMA RedirectedStep ==
  ASSUME SiteInv, VisitState, NEW n \in Node, Redirected(n)
  PROVE  VisitState'
<1>. DEFINE to == resolve(View(n), visit.host).host
            ask == Ask(visit.phase, to, visit.to)
<1>0. /\ VisitTyped /\ Past /\ VisitInv /\ HostsOK(View(n))
      /\ visit.phase \in {"page", "bounce", "back"} /\ resolve(View(n), visit.host).kind = "redirect"
      /\ Become(n, ask, visit.code)
      /\ UNCHANGED <<site, lost, now, browser>> /\ plan' = plan /\ Db' = Db
  BY CopyIs DEF VisitState, Redirected, Browsing, Idle, logVars, Db
<1>1. AskTyped(visit.phase, visit.host, visit.to)
  BY <1>0 DEF VisitTyped
<1>2. to \in Host
  BY <1>0, <1>1, RedirectIs DEF AskTyped
<1>3. AskTyped(ask.phase, ask.host, ask.to)
  BY <1>1, <1>2, AskIs DEF AskTyped
<1>. HIDE DEF ask
<1>4. /\ DOMAIN visit' = VisitField /\ visit'.hops \in Nat /\ AskTyped(visit'.phase, visit'.host, visit'.to)
      /\ Goes(visit, visit', ask, visit.code)
      /\ visit'.calm => visit.calm /\ seen[n] = Len(site)
  BY <1>0, <1>3, BecomeIs
<1>5. VisitTyped'
  BY <1>0, <1>4 DEF VisitTyped
<1>6. Past'
  BY <1>0, PastStays
<1>7. ASSUME Undisturbed' PROVE VisitOK(Db, visit', browser, now)
  <2>1. Undisturbed /\ seen[n] = Len(site)
    BY <1>0, <1>4, <1>7 DEF Undisturbed
  <2>2. View(n) = Db /\ Plain(Db, browser) /\ VisitOK(Db, visit, browser, now) /\ visit.hops \in Nat
    BY <1>0, <2>1, CalmIs DEF VisitInv, VisitTyped
  <2>3. Goes(visit, visit', Ask(visit.phase, resolve(Db, visit.host).host, visit.to), visit.code)
    BY <1>4, <2>2 DEF ask
  <2>. QED BY <1>0, <2>2, <2>3, RedirectOK
<1>8. VisitInv'
  BY <1>0, <1>7 DEF VisitInv
<1>. QED BY <1>5, <1>6, <1>8 DEF VisitState

LEMMA PageStep ==
  ASSUME SiteInv, VisitState, NEW n \in Node, Page(n)
  PROVE  VisitState'
<1>. DEFINE db == View(n)
            h == visit.host
            in == resolve(db, h).kind # "unknown" /\ user(db, h)
<1>0. /\ VisitTyped /\ Past /\ VisitInv
      /\ visit.phase \in {"page", "bounce", "back"} /\ resolve(db, h).kind # "redirect"
      /\ ~needsBounce(db, resolve(db, h), h) \/ visit.phase = "back"
      /\ visit.phase = "back" => resolve(db, h).kind # "group"
      /\ visit.phase = "bounce" => resolve(db, h).kind # "home"
      /\ Shown(n, h, in)
      /\ UNCHANGED <<site, lost, now, browser>> /\ plan' = plan /\ Db' = Db
  BY DEF VisitState, Page, Browsing, Idle, logVars, Db
<1>1. AskTyped(visit.phase, h, visit.to) /\ h \in Host
  BY <1>0 DEF VisitTyped, AskTyped
<1>2. in = (resolve(db, h).kind # "unknown" /\ In(db, browser, now, h))
  BY InIs
<1>3. ~(Apart(db, h) /\ ~Marked(browser, now, h) /\ ~In(db, browser, now, h)) \/ visit.phase = "back"
  BY <1>0, InIs
<1>. HIDE DEF in
<1>4. /\ DOMAIN visit' = VisitField /\ visit'.hops \in Nat /\ AskTyped(visit'.phase, visit'.host, visit'.to)
      /\ visit'.phase = "shown" /\ visit'.host = h /\ visit'.hops = visit.hops /\ visit'.in = in
      /\ visit'.known = visit.known /\ visit'.marked = visit.marked /\ visit'.wants = visit.wants
      /\ visit'.calm => visit.calm /\ seen[n] = Len(site)
  BY <1>0, <1>1, ShownIs
<1>5. VisitTyped'
  BY <1>0, <1>4 DEF VisitTyped
<1>6. Past'
  BY <1>0, PastStays
<1>7. ASSUME Undisturbed' PROVE VisitOK(Db, visit', browser, now)
  <2>1. Undisturbed /\ seen[n] = Len(site)
    BY <1>0, <1>4, <1>7 DEF Undisturbed
  <2>2. db = Db /\ Plain(Db, browser) /\ VisitOK(Db, visit, browser, now) /\ visit.hops \in Nat
    BY <1>0, <2>1, CalmIs DEF VisitInv, VisitTyped
  <2>. QED BY <1>0, <1>2, <1>3, <1>4, <2>2, PageOK
<1>8. VisitInv'
  BY <1>0, <1>7 DEF VisitInv
<1>. QED BY <1>5, <1>6, <1>8 DEF VisitState

LEMMA StartStep ==
  ASSUME SiteInv, VisitState, NEW n \in Node, startBounce(n)
  PROVE  VisitState'
<1>. DEFINE db == View(n)
            h == visit.host
            ask == Ask("bounce", Front(db), h)
            bounced == [browser.bounced EXCEPT ![h] = now + BouncedTTL]
<1>0. /\ VisitTyped /\ Past /\ VisitInv /\ Front(db) \in Host
      /\ visit.phase \in {"page", "bounce"} /\ needsBounce(db, resolve(db, h), h)
      /\ Become(n, ask, 0) /\ browser' = [browser EXCEPT !.bounced = bounced]
      /\ UNCHANGED <<site, lost, now>> /\ plan' = plan /\ Db' = Db
  BY CopyIs DEF VisitState, startBounce, Browsing, Idle, logVars, Db, Front
<1>1. h \in Host /\ now \in Nat
  BY <1>0 DEF VisitTyped, AskTyped
<1>2. Apart(db, h) /\ ~Marked(browser, now, h) /\ ~In(db, browser, now, h)
  BY <1>0, InIs
<1>3. AskTyped(ask.phase, ask.host, ask.to)
  BY <1>0, <1>1, AskIs DEF AskTyped
<1>4. DOMAIN bounced = Host /\ bounced[h] > now
  BY <1>0, <1>1, TTLAssumption DEF VisitTyped
<1>. HIDE DEF ask, bounced
<1>5. /\ DOMAIN visit' = VisitField /\ visit'.hops \in Nat /\ AskTyped(visit'.phase, visit'.host, visit'.to)
      /\ Goes(visit, visit', ask, 0)
      /\ visit'.calm => visit.calm /\ seen[n] = Len(site)
  BY <1>0, <1>3, BecomeIs
<1>6. /\ DOMAIN browser' = BrowserField /\ browser'.own = browser.own /\ browser'.domain = browser.domain
      /\ browser'.bounced = bounced
  BY <1>0 DEF VisitTyped, BrowserField
<1>7. VisitTyped'
  BY <1>0, <1>4, <1>5, <1>6 DEF VisitTyped
<1>8. Past'
  BY <1>0, <1>6, PastStays
<1>9. ASSUME Undisturbed' PROVE VisitOK(Db, visit', browser', now)
  <2>1. Undisturbed /\ seen[n] = Len(site)
    BY <1>0, <1>5, <1>9 DEF Undisturbed
  <2>2. db = Db /\ Plain(Db, browser) /\ VisitOK(Db, visit, browser, now) /\ visit.hops \in Nat
    BY <1>0, <2>1, CalmIs DEF VisitInv, VisitTyped
  <2>3. Goes(visit, visit', Ask("bounce", Front(Db), h), 0)
    BY <1>5, <2>2 DEF ask
  <2>4. Marked(browser', now, h)
    BY <1>4, <1>6 DEF Marked
  <2>. HIDE DEF h
  <2>5. h = visit.host
    BY DEF h
  <2>. QED BY <1>0, <1>1, <1>2, <1>6, <2>2, <2>3, <2>4, <2>5, StartOK
<1>10. VisitInv'
  BY <1>0, <1>9 DEF VisitInv
<1>. QED BY <1>7, <1>8, <1>10 DEF VisitState

LEMMA BounceVisit ==
  ASSUME SiteInv, VisitState, NEW n \in Node, NEW how \in Hows, bounce(n, how)
  PROVE  VisitState'
<1>. DEFINE db == View(n)
            to == visit.to
            host == db.main[resolve(db, to).group]
            code == fresh + 1
            r == StartBounce(Db, code, host, now)
            again == StartBounce(r.db, code, host, now)
<1>0. /\ VisitTyped /\ Past /\ VisitInv /\ how \in {"once", "twice", "lost"}
      /\ visit.phase = "bounce" /\ resolve(db, visit.host).kind = "home"
      /\ UNCHANGED <<now, browser>> /\ plan' = plan
  BY DEF VisitState, bounce, Browsing, Idle, Hows
<1>1. /\ HostsOK(db) /\ Front(db) \in Host /\ HomePage(db) = Ask("page", Front(db), NoHost)
      /\ CopyKept(db, Db.old, Db.owned)
  BY <1>0, CopyIs DEF HomePage, Front
<1>2. visit.host \in Host /\ to \in Host /\ visit.hops \in Nat /\ now \in Nat
  BY <1>0 DEF VisitTyped, AskTyped
<1>3. ASSUME ~Apart(db, to), Become(n, Ask("page", Front(db), NoHost), 0), UNCHANGED <<site, lost>>
      PROVE  VisitState'
  <2>1. AskTyped(Ask("page", Front(db), NoHost).phase, Ask("page", Front(db), NoHost).host,
                 Ask("page", Front(db), NoHost).to)
    BY <1>1, AskIs DEF AskTyped
  <2>2. /\ DOMAIN visit' = VisitField /\ visit'.hops \in Nat /\ AskTyped(visit'.phase, visit'.host, visit'.to)
        /\ Goes(visit, visit', Ask("page", Front(db), NoHost), 0)
        /\ visit'.calm => visit.calm /\ seen[n] = Len(site)
    BY <1>0, <1>3, <2>1, BecomeIs
  <2>3. VisitTyped' /\ Past' /\ Db' = Db
    BY <1>0, <1>3, <2>2, PastStays DEF VisitTyped, Db
  <2>4. ASSUME Undisturbed' PROVE VisitOK(Db, visit', browser, now)
    <3>1. Undisturbed /\ seen[n] = Len(site)
      BY <1>0, <1>3, <2>2, <2>3, <2>4 DEF Undisturbed
    <3>2. db = Db /\ Plain(Db, browser) /\ VisitOK(Db, visit, browser, now)
      BY <1>0, <3>1, CalmIs DEF VisitInv
    <3>. QED BY <1>0, <1>2, <1>3, <2>2, <3>2, HomeOK
  <2>. QED BY <1>0, <2>3, <2>4 DEF VisitState, VisitInv
<1>4. ASSUME Apart(db, to), ~user(db, visit.host), Become(n, Ask("page", host, NoHost), 0), UNCHANGED <<site, lost>>
      PROVE  VisitState'
  <2>0. host = to
    BY <1>1, <1>2, <1>4, ApartIs
  <2>1. AskTyped(Ask("page", to, NoHost).phase, Ask("page", to, NoHost).host, Ask("page", to, NoHost).to)
    BY <1>2, AskIs DEF AskTyped
  <2>2. /\ DOMAIN visit' = VisitField /\ visit'.hops \in Nat /\ AskTyped(visit'.phase, visit'.host, visit'.to)
        /\ Goes(visit, visit', Ask("page", to, NoHost), 0)
        /\ visit'.calm => visit.calm /\ seen[n] = Len(site)
    BY <1>0, <1>4, <2>0, <2>1, BecomeIs
  <2>3. VisitTyped' /\ Past' /\ Db' = Db
    BY <1>0, <1>4, <2>2, PastStays DEF VisitTyped, Db
  <2>4. ASSUME Undisturbed' PROVE VisitOK(Db, visit', browser, now)
    <3>1. Undisturbed /\ seen[n] = Len(site)
      BY <1>0, <1>4, <2>2, <2>3, <2>4 DEF Undisturbed
    <3>2. db = Db /\ Plain(Db, browser) /\ VisitOK(Db, visit, browser, now)
      BY <1>0, <3>1, CalmIs DEF VisitInv
    <3>. QED BY <1>0, <1>2, <1>4, <2>2, <3>2, InIs, OutOK
  <2>. QED BY <1>0, <2>3, <2>4 DEF VisitState, VisitInv
<1>5. ASSUME Apart(db, to), user(db, visit.host),
             /\ site' = IF how = "twice" THEN site \o <<r.db, again.db>> ELSE Append(site, r.db)
             /\ seen' = IF how = "lost" THEN seen ELSE [seen EXCEPT ![n] = Len(site')]
             /\ lost' = IF how = "once" THEN lost ELSE lost - 1,
             Become(n, Ask("back", host, NoHost), code) \/ Shown(n, visit.host, TRUE),
             how = "once" /\ r.ok => Become(n, Ask("back", host, NoHost), code)
      PROVE  VisitState'
  <2>1. host = to /\ to[2] \in Db.owned
    <3>1. resolve(db, to).group \in Group /\ db.main[resolve(db, to).group] = to /\ to # NoHost
      BY <1>1, <1>2, <1>5, ApartIs, NotAHost DEF HostsOK
    <3>. QED BY <1>1, <3>1 DEF HostsOK, CopyKept
  <2>2. DbKept(Db) /\ GoesOn(Db, r.db) /\ GoesOn(r.db, again.db) /\ SameHosts(Db, r.db)
        /\ r.db.session = Db.session /\ r.db.until = Db.until
        /\ (r.ok => \E b \in r.db.bounce : b.id = code /\ b.host = to /\ b.expires = now + BounceTTL)
        /\ ((\A b \in Db.bounce : b.id # code) => r.ok)
    <3>1. /\ GoesOn(Db, r.db) /\ SameHosts(Db, r.db)
          /\ r.db.session = Db.session /\ r.db.until = Db.until
          /\ (r.ok => \E b \in r.db.bounce : b.id = code /\ b.host = to /\ b.expires = now + BounceTTL)
          /\ ((\A b \in Db.bounce : b.id # code) => r.ok)
      BY <1>0, <1>2, <2>1, StartGoes DEF Past
    <3>2. DbKept(r.db) /\ to[2] \in r.db.owned
      BY <2>1, <3>1 DEF GoesOn, SameHosts
    <3>3. GoesOn(r.db, again.db)
      BY <1>2, <2>1, <3>2, StartGoes
    <3>. QED BY <1>0, <3>1, <3>3 DEF Past
  <2>3. Grew(n, r.db, again.db)
    BY <1>5 DEF Grew
  <2>. HIDE DEF again
  <2>4. Past'
    BY <1>0, <2>2, <2>3, PastGrows
  <2>5. AskTyped(Ask("back", to, NoHost).phase, Ask("back", to, NoHost).host, Ask("back", to, NoHost).to)
    BY <1>2, AskIs DEF AskTyped
  <2>6. /\ DOMAIN visit' = VisitField /\ visit'.hops \in Nat /\ AskTyped(visit'.phase, visit'.host, visit'.to)
        /\ Become(n, Ask("back", to, NoHost), code) => Goes(visit, visit', Ask("back", to, NoHost), code)
        /\ visit'.calm => visit.calm /\ seen[n] = Len(site)
    <3>1. CASE Become(n, Ask("back", host, NoHost), code)
      BY <1>0, <2>1, <2>5, <3>1, BecomeIs
    <3>2. CASE Shown(n, visit.host, TRUE) /\ ~Become(n, Ask("back", host, NoHost), code)
      BY <1>0, <1>2, <2>1, <3>2, ShownIs
    <3>. QED BY <1>5, <3>1, <3>2
  <2>7. VisitTyped'
    BY <1>0, <1>5, <2>6 DEF VisitTyped
  <2>8. ASSUME Undisturbed' PROVE VisitOK(Db', visit', browser, now)
    <3>1. how = "once" /\ lost = plan.lost
      BY <1>0, <1>5, <2>8 DEF Undisturbed, VisitTyped
    <3>2. Db' = r.db
      BY <1>5, <3>1, OnceIs
    <3>3. Undisturbed /\ seen[n] = Len(site)
      BY <2>2, <2>6, <2>8, <3>1, <3>2 DEF Undisturbed, SameHosts
    <3>4. db = Db /\ Plain(Db, browser) /\ VisitOK(Db, visit, browser, now)
      BY <1>0, <3>3, CalmIs DEF VisitInv
    <3>5. r.ok
      <4>1. \A b \in Db.bounce : b.id \in 1 .. fresh
        BY DEF SiteInv, DbOK, AccountsOK, SessionsOK
      <4>2. code \notin 1 .. fresh
        BY DEF SiteInv
      <4>. QED BY <2>2, <4>1, <4>2
    <3>6. \E b \in r.db.bounce : b.id = code /\ b.host = to /\ b.expires > now
      <4>1. now + BounceTTL > now
        BY <1>2, TTLAssumption
      <4>. HIDE DEF r, code
      <4>. QED BY <2>2, <3>5, <4>1
    <3>7. Goes(visit, visit', Ask("back", to, NoHost), code)
      BY <1>5, <2>1, <2>6, <3>1, <3>5
    <3>8. In(Db, browser, now, visit.host)
      BY <1>5, <3>4, InIs
    <3>. HIDE DEF r, code
    <3>. QED BY <1>0, <1>2, <1>5, <2>2, <3>2, <3>4, <3>6, <3>7, <3>8, OnwardOK
  <2>. QED BY <1>0, <2>4, <2>7, <2>8 DEF VisitState, VisitInv
<1>6. \/ ownDomain(db, resolve(db, to)) /\ user(db, visit.host) \* the last of the three
      \/ ~ownDomain(db, resolve(db, to)) /\ Become(n, Ask("page", Front(db), NoHost), 0) /\ UNCHANGED <<site, lost>>
      \/ /\ ownDomain(db, resolve(db, to)) /\ ~user(db, visit.host)
         /\ Become(n, Ask("page", host, NoHost), 0) /\ UNCHANGED <<site, lost>>
  BY <1>1 DEF bounce, logVars
<1>7. ASSUME ownDomain(db, resolve(db, to)), user(db, visit.host) PROVE VisitState'
  <2>1. /\ site' = IF how = "twice" THEN site \o <<r.db, again.db>> ELSE Append(site, r.db)
        /\ seen' = IF how = "lost" THEN seen ELSE [seen EXCEPT ![n] = Len(site')]
        /\ lost' = IF how = "once" THEN lost ELSE lost - 1
        /\ Become(n, Ask("back", host, NoHost), code) \/ Shown(n, visit.host, TRUE)
        /\ how = "once" /\ r.ok => Become(n, Ask("back", host, NoHost), code)
    BY <1>7 DEF bounce, Apply, Again, Outcome
  <2>. HIDE DEF r, again, code
  <2>. QED BY <1>5, <1>7, <2>1 DEF Apart
<1>. QED BY <1>3, <1>4, <1>6, <1>7 DEF Apart

LEMMA BackVisit ==
  ASSUME SiteInv, VisitState, NEW n \in Node, NEW how \in Hows, bounceBack(n, how)
  PROVE  VisitState'
<1>. DEFINE db == View(n)
            h == visit.host
            host == db.main[resolve(db, h).group]
            id == fresh + 1
            r == FinishBounce(Db, visit.code, host, id, now)
            again == FinishBounce(r.db, visit.code, host, id, now)
            good == IF how = "once" THEN r.ok ELSE how = "twice" /\ again.ok
            own == [browser.own EXCEPT ![h] = id]
            ask == Ask("page", h, NoHost)
<1>0. /\ VisitTyped /\ Past /\ VisitInv /\ how \in {"once", "twice", "lost"}
      /\ visit.phase = "back" /\ resolve(db, h).kind = "group"
      /\ UNCHANGED now /\ plan' = plan
  BY DEF VisitState, bounceBack, Browsing, Idle, Hows
<1>1. /\ site' = IF how = "twice" THEN site \o <<r.db, again.db>> ELSE Append(site, r.db)
      /\ seen' = IF how = "lost" THEN seen ELSE [seen EXCEPT ![n] = Len(site')]
      /\ lost' = IF how = "once" THEN lost ELSE lost - 1
      /\ browser' = IF good THEN [browser EXCEPT !.own = own] ELSE browser
      /\ IF how = "lost" THEN Shown(n, h, FALSE) ELSE Become(n, ask, 0)
  BY <1>0 DEF bounceBack, Apply, Again, Outcome
<1>2. /\ HostsOK(db) /\ CopyKept(db, Db.old, Db.owned) /\ h \in Host /\ visit.hops \in Nat /\ now \in Nat
      /\ id \in Nat \ {0}
  BY <1>0, CopyIs DEF VisitTyped, AskTyped, SiteInv
<1>3. /\ GoesOn(Db, r.db) /\ SameHosts(Db, r.db) /\ r.db.until = Db.until /\ Db.session \subseteq r.db.session
      /\ r.ok => \E s \in r.db.session : s.id = id /\ s.expires = now + SessionTTL
      /\ r.ok <=> \E b \in Db.bounce : b.id = visit.code /\ b.host = host /\ b.expires > now
  BY <1>0, FinishGoes DEF Past
<1>4. /\ GoesOn(r.db, again.db)
      /\ again.ok => \E b \in r.db.bounce : b.id = visit.code /\ b.host = host /\ b.expires > now
  <2>1. DbKept(r.db)
    BY <1>3 DEF GoesOn
  <2>. HIDE DEF r
  <2>. QED BY <2>1, FinishGoes
<1>5. good => h[2] \in Db.owned
  <2>. SUFFICES ASSUME good PROVE h[2] \in Db.owned
    OBVIOUS
  <2>1. DbKept(Db) /\ DbKept(r.db)
    BY <1>0, <1>3 DEF Past, GoesOn
  <2>2. host \in Host
    BY <1>3, <1>4, <2>1 DEF DbKept
  <2>3. Apart(db, h)
    BY <1>0, <2>2, NotAHost DEF Apart, ownDomain
  <2>4. resolve(db, h).group \in Group /\ host = h /\ h # NoHost
    BY <1>2, <2>3, ApartIs, NotAHost DEF HostsOK
  <2>. QED BY <1>2, <2>4 DEF HostsOK, CopyKept
<1>6. DOMAIN own = Host /\ own[h] = id /\ \A x \in Host : x # h => own[x] = browser.own[x]
  BY <1>0, <1>2 DEF VisitTyped
<1>7. own = [browser.own EXCEPT ![h] = id]
  OBVIOUS
<1>. HIDE DEF good, own
<1>8. /\ DOMAIN browser' = BrowserField /\ DOMAIN browser'.own = Host
      /\ browser'.domain = browser.domain /\ browser'.bounced = browser.bounced
      /\ good => browser'.own = own
      /\ \A x \in Host : browser'.own[x] # 0 => browser'.own[x] = browser.own[x] \/ x[2] \in Db.owned
  <2>1. DOMAIN browser = BrowserField /\ DOMAIN browser.own = Host
    BY <1>0 DEF VisitTyped
  <2>2. CASE good
    <3>1. /\ DOMAIN browser' = BrowserField /\ browser'.own = own
          /\ browser'.domain = browser.domain /\ browser'.bounced = browser.bounced
      BY <1>1, <2>1, <2>2 DEF BrowserField
    <3>. QED BY <1>5, <1>6, <2>2, <3>1
  <2>3. CASE ~good
    BY <1>1, <2>1, <2>3
  <2>. QED BY <2>2, <2>3
<1>9. Grew(n, r.db, again.db)
  BY <1>0, <1>1 DEF Grew
<1>. HIDE DEF again
<1>10. Past'
  BY <1>0, <1>3, <1>4, <1>8, <1>9, PastGrows
<1>11. AskTyped(ask.phase, ask.host, ask.to)
  BY <1>2, AskIs DEF AskTyped
<1>12. /\ DOMAIN visit' = VisitField /\ visit'.hops \in Nat /\ AskTyped(visit'.phase, visit'.host, visit'.to)
       /\ how # "lost" => Goes(visit, visit', ask, 0)
       /\ visit'.calm => visit.calm /\ seen[n] = Len(site)
  <2>. HIDE DEF ask
  <2>. QED BY <1>0, <1>1, <1>2, <1>11, BecomeIs, ShownIs
<1>13. VisitTyped'
  BY <1>0, <1>1, <1>8, <1>12 DEF VisitTyped
<1>14. ASSUME Undisturbed' PROVE VisitOK(Db', visit', browser', now)
  <2>1. how = "once" /\ lost = plan.lost
    BY <1>0, <1>1, <1>14 DEF Undisturbed, VisitTyped
  <2>2. Db' = r.db
    BY <1>1, <2>1, OnceIs
  <2>3. Undisturbed /\ seen[n] = Len(site)
    BY <1>3, <1>12, <1>14, <2>1, <2>2 DEF Undisturbed, SameHosts
  <2>4. db = Db /\ Plain(Db, browser) /\ VisitOK(Db, visit, browser, now)
    BY <1>0, <2>3, CalmIs DEF VisitInv
  <2>5. r.ok
    <3>1. OnBack(Db, visit, browser, now)
      BY <1>0, <2>4 DEF VisitOK
    <3>2. host = h
      BY <1>2, <2>4, <3>1, ApartIs DEF OnBack
    <3>. QED BY <1>3, <3>1, <3>2 DEF OnBack
  <2>6. good /\ browser'.own = [browser.own EXCEPT ![visit.host] = id]
    BY <1>7, <1>8, <2>1, <2>5 DEF good
  <2>7. \E s \in r.db.session : s.id = id /\ s.expires > now
    <3>1. now + SessionTTL > now
      BY <1>2, TTLAssumption
    <3>. HIDE DEF r, id
    <3>. QED BY <1>3, <2>5, <3>1
  <2>8. DOMAIN browser.own = Host
    BY <1>0 DEF VisitTyped
  <2>9. Goes(visit, visit', Ask("page", visit.host, NoHost), 0)
    BY <1>12, <2>1
  <2>. HIDE DEF r, id, ask
  <2>. QED BY <1>0, <1>2, <1>3, <1>8, <2>2, <2>4, <2>6, <2>7, <2>8, <2>9, BackOK
<1>. QED BY <1>0, <1>10, <1>13, <1>14 DEF VisitState, VisitInv

(* Where a sign-in may go to.                                              *)
LEMMA SafeNextIs ==
  ASSUME NEW db, NEW p, NEW next
  PROVE  \/ safeNext(db, p, next) = next
         \/ safeNext(db, p, next) = Ask("page", <<Bare, p>>, NoHost)
BY DEF safeNext

LEMMA NextTyped ==
  ASSUME NEW db, HostsOK(db), NEW next, NextOK(next, db.old)
  PROVE  next.host \in Host /\ next.to \in Host \cup {NoHost} /\ (next.phase = "bounce" => next.to \in Host)
         /\ next.phase \in {"page", "bounce"}
<1>1. \A p \in db.old : <<Bare, p>> \in Host
  BY DEF HostsOK, Listed, Host
<1>. QED BY <1>1 DEF NextOK

LEMMA FinishVisit ==
  ASSUME SiteInv, VisitState, NEW n \in Node, NEW t, NEW how \in Hows, finishSignIn(n, t, how)
  PROVE  VisitState'
<1>. DEFINE db == View(n)
            id == fresh + 1
            wrong == IF t \in DOMAIN browser.wrong THEN browser.wrong[t] ELSE 0
            r == RedeemLogin(Db, t, id, now, wrong)
            again == RedeemLogin(r.db, t, id, now, wrong)
            good == Outcome(LAMBDA d : RedeemLogin(d, t, id, now, wrong), how)
            domain == [browser.domain EXCEPT ![db.primary] = id]
            after == site'[seen'[n]]
            next == db.token[t].next
            dest == safeNext(after, db.primary, next)
            phase == IF after.handle = "" THEN "welcome" ELSE dest.phase
            calm == seen'[n] = Len(site')
            known == after.until <= now /\ after.primary = db.primary
            wants == IF dest.phase = "bounce" /\ ownDomain(after, resolve(after, dest.to)) THEN dest.to ELSE dest.host
            marked == dest.phase = "page" /\ Bounced(dest.host)
<1>0. /\ VisitTyped /\ Past /\ VisitInv /\ how \in {"once", "twice", "lost"}
      /\ t \in DOMAIN db.token
      /\ UNCHANGED now /\ plan' = plan
  BY DEF VisitState, finishSignIn, usable, Idle, Hows
<1>1. /\ site' = IF how = "twice" THEN site \o <<r.db, again.db>> ELSE Append(site, r.db)
      /\ seen' = IF how = "lost" THEN seen ELSE [seen EXCEPT ![n] = Len(site')]
      /\ lost' = IF how = "once" THEN lost ELSE lost - 1
  BY <1>0 DEF finishSignIn, Apply, Again
<1>2. browser' = IF good THEN [browser EXCEPT !.domain = domain, !.pending = 0] ELSE browser
  BY DEF finishSignIn
<1>3. visit' = IF ~good THEN [NoVisit EXCEPT !.phase = "shown", !.host = <<Bare, db.primary>>]
                ELSE [NoVisit EXCEPT !.phase = phase, !.host = dest.host, !.to = dest.to, !.calm = calm,
                        !.known = known, !.signed = TRUE, !.wants = wants, !.marked = marked]
  BY DEF finishSignIn
<1>4. how = "once" => (good <=> r.ok)
  BY DEF Outcome
<1>5. /\ HostsOK(Db) /\ CopyKept(db, Db.old, Db.owned) /\ now \in Nat
      /\ db.primary \in Db.old /\ db.primary \in Domain /\ <<Bare, db.primary>> \in Host
  BY <1>0, CopyIs DEF VisitTyped, Past, DbKept, CopyKept
<1>6. /\ GoesOn(Db, r.db) /\ SameHosts(Db, r.db) /\ r.db.until = Db.until
      /\ r.ok => \E s \in r.db.session : s.id = id /\ s.expires = now + SessionTTL
  BY <1>0, RedeemGoes DEF Past
<1>7. GoesOn(r.db, again.db)
  BY <1>6, RedeemGoes DEF GoesOn
<1>8. NextOK(next, Db.old)
  BY <1>0, <1>5 DEF CopyKept
<1>9. \/ dest = next
      \/ dest = Ask("page", <<Bare, db.primary>>, NoHost)
  BY SafeNextIs
<1>10. /\ AskTyped(dest.phase, dest.host, dest.to) /\ dest.phase \in {"page", "bounce"}
  BY <1>5, <1>8, <1>9, NextTyped, AskIs DEF AskTyped
<1>11. AskTyped(phase, dest.host, dest.to)
  BY <1>10 DEF AskTyped
<1>12. DOMAIN domain = Domain /\ domain[db.primary] = id
  BY <1>0, <1>5 DEF VisitTyped
<1>13. marked <=> dest.phase = "page" /\ Marked(browser, now, dest.host)
  BY InIs
<1>14. phase \in {"welcome", dest.phase}
       /\ wants = IF dest.phase = "bounce" /\ Apart(after, dest.to) THEN dest.to ELSE dest.host
  BY DEF Apart
<1>15. dest = safeNext(after, db.primary, next) /\ known = (after.until <= now /\ after.primary = db.primary)
       /\ calm = (seen'[n] = Len(site'))
  BY DEF known, calm
<1>. HIDE DEF good, domain, phase, calm, known, wants, marked, dest
<1>16. /\ DOMAIN browser' = BrowserField /\ browser'.own = browser.own /\ browser'.bounced = browser.bounced
       /\ DOMAIN browser'.domain = Domain /\ (good => browser'.domain = domain)
  <2>1. DOMAIN browser = BrowserField /\ DOMAIN browser.domain = Domain
    BY <1>0 DEF VisitTyped
  <2>. QED BY <1>12, <1>2, <2>1 DEF BrowserField
<1>17. Grew(n, r.db, again.db)
  BY <1>0, <1>1 DEF Grew
<1>. HIDE DEF again
<1>18. Past'
  BY <1>0, <1>6, <1>7, <1>16, <1>17, PastGrows
<1>19. /\ DOMAIN visit' = VisitField /\ visit'.hops = 0
       /\ good => /\ visit'.phase = phase /\ visit'.host = dest.host /\ visit'.to = dest.to /\ visit'.calm = calm
                  /\ visit'.known = known /\ visit'.wants = wants /\ visit'.marked = marked
       /\ ~good => /\ visit'.phase = "shown" /\ visit'.host = <<Bare, db.primary>> /\ visit'.to = NoHost
                   /\ visit'.calm = FALSE
  BY <1>3 DEF NoVisit, VisitField
<1>20. AskTyped(visit'.phase, visit'.host, visit'.to)
  BY <1>5, <1>11, <1>19 DEF AskTyped
<1>21. VisitTyped'
  BY <1>0, <1>1, <1>16, <1>19, <1>20 DEF VisitTyped
<1>22. ASSUME Undisturbed' PROVE VisitOK(Db', visit', browser', now)
  <2>1. how = "once" /\ good /\ r.ok /\ calm
    <3>1. visit'.calm /\ lost' = plan'.lost
      BY <1>22 DEF Undisturbed
    <3>2. good /\ calm
      BY <1>19, <3>1
    <3>3. how = "once"
      BY <1>0, <1>1, <3>1 DEF VisitTyped
    <3>. QED BY <1>4, <3>2, <3>3
  <2>2. Db' = r.db /\ after = r.db
    BY <1>1, <2>1, OnceIs
  <2>3. Plain(Db', browser') /\ HostsOK(Db')
    BY <1>18, <1>22, PlainIs DEF Past, Undisturbed, Plain
  <2>4. db.primary \in Db'.old /\ NextOK(next, Db'.old)
    BY <1>5, <1>6, <1>8, <2>2 DEF SameHosts
  <2>5. known => In(Db', browser', now, Front(Db'))
    <3>. SUFFICES ASSUME known PROVE In(Db', browser', now, Front(Db'))
      OBVIOUS
    <3>1. Db'.until <= now /\ Db'.primary = db.primary
      BY <1>15, <2>2
    <3>2. Front(Db') \in Host /\ Front(Db')[2] = db.primary
      BY <2>3, <3>1, FrontIs DEF Front
    <3>3. browser'.own[Front(Db')] = 0
      BY <2>3, <3>1, <3>2 DEF Plain
    <3>4. Cookie(browser', Front(Db')) = id
      BY <1>12, <1>16, <2>1, <3>2, <3>3 DEF Cookie
    <3>5. \E s \in Db'.session : s.id = id /\ s.expires > now
      <4>1. now + SessionTTL > now
        BY <1>5, TTLAssumption
      <4>. HIDE DEF r, id
      <4>. QED BY <1>6, <2>1, <2>2, <4>1
    <3>. QED BY <3>1, <3>4, <3>5 DEF In
  <2>6. marked <=> dest.phase = "page" /\ Marked(browser', now, dest.host)
    BY <1>13, <1>16 DEF Marked
  <2>7. dest = safeNext(Db', db.primary, next)
    BY <1>15, <2>2
  <2>8. wants = IF dest.phase = "bounce" /\ Apart(Db', dest.to) THEN dest.to ELSE dest.host
    BY <1>14, <2>2
  <2>. DEFINE db2 == Db'  b2 == browser'  v2 == visit'  p == db.primary
  <2>9. /\ v2.phase = "welcome" \/ v2.phase = dest.phase
        /\ v2.host = dest.host /\ v2.to = dest.to /\ v2.hops = 0
        /\ v2.known => In(db2, b2, now, Front(db2))
        /\ v2.wants = IF dest.phase = "bounce" /\ Apart(db2, dest.to) THEN dest.to ELSE dest.host
        /\ v2.marked <=> dest.phase = "page" /\ Marked(b2, now, dest.host)
    BY <1>14, <1>19, <2>1, <2>5, <2>6, <2>8
  <2>10. Plain(db2, b2) /\ p \in db2.old /\ NextOK(next, db2.old) /\ dest = safeNext(db2, p, next)
    BY <2>3, <2>4, <2>7
  <2>. HIDE DEF db2, b2, v2, p, next
  <2>11. VisitOK(db2, v2, b2, now)
    BY <2>9, <2>10, SignInOK
  <2>. QED BY <2>11 DEF db2, b2, v2
<1>. QED BY <1>0, <1>18, <1>21, <1>22 DEF VisitState, VisitInv

LEMMA GroupMade ==
  ASSUME NEW db, HostsOK(db), NEW h \in Host, resolve(db, h).kind = "group"
  PROVE  resolve(db, h).group \in Group /\ groupHost(db, resolve(db, h).group) \in Host
<1>1. resolve(db, h).group \in db.made
  BY Leads, Kinds DEF AtFront, AtMade, AtMoved, AtOwn, ToHome, AtAlias, AtAlternate, Nowhere, Owners
<1>2. ASSUME NEW g \in Group PROVE groupHost(db, g) \in Host
  BY <1>2 DEF groupHost, HostsOK, Host
<1>. QED BY <1>1, <1>2 DEF HostsOK

LEMMA SendVisit ==
  ASSUME SiteInv, VisitState, NEW n \in Node, NEW how \in Hows, loginSend(n, how)
  PROVE  VisitState'
<1>. DEFINE db == View(n)
            t == fresh + 1
            kind == resolve(db, visit.host).kind
            nexts == {BackToPage(db, visit.host) : link \in {"page"} \cap plan.links} \cup
                     {BackByGroup(db, visit.host) : link \in IF kind = "group" THEN {"group"} \cap plan.links ELSE {}}
<1>0. /\ VisitTyped /\ Past /\ VisitInv /\ how \in {"once", "twice", "lost"}
      /\ visit.phase = "shown" /\ UNCHANGED now /\ plan' = plan
      /\ lost' = IF how = "once" THEN lost ELSE lost - 1
  BY DEF VisitState, loginSend, Given, Apply, Hows
<1>1. PICK next \in nexts :
        LET c == CreateLogin(Db, t, safeNext(db, db.primary, next), now).db
            again == CreateLogin(c, t, safeNext(db, db.primary, next), now).db
        IN Grew(n, c, again)
  BY DEF loginSend, Apply, Again, Grew
<1>2. /\ HostsOK(db) /\ visit.host \in Host /\ db.primary \in Db.old /\ <<Bare, db.primary>> \in Host
      /\ AskTyped(visit.phase, visit.host, visit.to)
  BY <1>0, CopyIs DEF VisitTyped, AskTyped
<1>3. NextOK(next, Db.old)
  <2>1. CASE next = BackToPage(db, visit.host)
    BY <1>2, <2>1, AskIs DEF BackToPage, NextOK
  <2>2. CASE kind = "group" /\ next = BackByGroup(db, visit.host)
    <3>1. groupHost(db, resolve(db, visit.host).group) \in Host
      BY <1>2, <2>2, GroupMade
    <3>. QED BY <1>2, <2>2, <3>1, AskIs DEF BackByGroup, NextOK
  <2>. QED BY <1>1, <2>1, <2>2
<1>4. NextOK(safeNext(db, db.primary, next), Db.old)
  BY <1>2, <1>3, SafeNextIs, AskIs DEF NextOK
<1>. DEFINE to == safeNext(db, db.primary, next)
            c == CreateLogin(Db, t, to, now).db
            again == CreateLogin(c, t, to, now).db
<1>5. Grew(n, c, again)
  BY <1>1
<1>. HIDE DEF to, nexts, kind
<1>6. DbKept(Db) /\ NextOK(to, Db.old)
  BY <1>0, <1>4 DEF to, Past
<1>7. GoesOn(Db, c)
  BY <1>6, CreateLoginGoes
<1>8. GoesOn(c, again)
  <2>. HIDE DEF c
  <2>1. DbKept(c) /\ NextOK(to, c.old)
    BY <1>6, <1>7 DEF GoesOn, Later, NextOK
  <2>. QED BY <2>1, CreateLoginGoes
<1>. HIDE DEF c, again
<1>9. /\ DOMAIN browser' = BrowserField /\ browser'.own = browser.own
      /\ browser'.domain = browser.domain /\ browser'.bounced = browser.bounced
  <2>1. browser' = browser \/ browser' = [browser EXCEPT !.pending = t]
    BY DEF loginSend
  <2>. QED BY <1>0, <2>1 DEF VisitTyped, BrowserField
<1>10. /\ DOMAIN visit' = VisitField /\ visit'.phase \in {"code", "shown"} /\ ~visit'.calm
       /\ visit'.host = visit.host /\ visit'.to = visit.to /\ visit'.hops = visit.hops
  <2>1. visit' = [visit EXCEPT !.phase = "code", !.calm = FALSE] \/ visit' = [visit EXCEPT !.phase = "shown", !.calm = FALSE]
    BY DEF loginSend
  <2>. QED BY <1>0, <2>1 DEF VisitTyped, VisitField
<1>11. VisitTyped'
  BY <1>0, <1>2, <1>9, <1>10 DEF VisitTyped, AskTyped
<1>12. Past'
  BY <1>0, <1>5, <1>7, <1>8, <1>9, PastGrows
<1>. QED BY <1>10, <1>11, <1>12, DisturbedInv DEF VisitState

LEMMA WrongVisit ==
  ASSUME SiteInv, VisitState, NEW n \in Node, NEW how \in Hows, codeWrong(n, how)
  PROVE  VisitState'
<1>. DEFINE t == browser.pending
            c == FailLoginCode(Db, t).db
            again == FailLoginCode(c, t).db
            wrong == Put(browser.wrong, t, IF t \in DOMAIN browser.wrong THEN browser.wrong[t] + 1 ELSE 1)
<1>0. /\ VisitTyped /\ Past /\ VisitInv /\ how \in {"once", "twice", "lost"}
      /\ UNCHANGED <<now, visit>> /\ plan' = plan /\ browser' = [browser EXCEPT !.wrong = wrong]
  BY DEF VisitState, codeWrong, Given, Hows
<1>1. /\ site' = IF how = "twice" THEN site \o <<c, again>> ELSE Append(site, c)
      /\ seen' = IF how = "lost" THEN seen ELSE [seen EXCEPT ![n] = Len(site')]
      /\ lost' = IF how = "once" THEN lost ELSE lost - 1
  BY <1>0 DEF codeWrong, Apply, Again
<1>2. DbKept(Db)
  BY <1>0 DEF Past
<1>. HIDE DEF t, wrong
<1>3. /\ GoesOn(Db, c) /\ SameHosts(Db, c)
      /\ c.session = Db.session /\ c.until = Db.until /\ c.bounce = Db.bounce
  BY <1>2, FailGoes
<1>4. GoesOn(c, again)
  <2>1. DbKept(c)
    BY <1>3 DEF GoesOn
  <2>. HIDE DEF c
  <2>. QED BY <2>1, FailGoes
<1>. HIDE DEF c, again
<1>5. /\ DOMAIN browser' = BrowserField /\ browser'.own = browser.own
      /\ browser'.domain = browser.domain /\ browser'.bounced = browser.bounced
  BY <1>0 DEF VisitTyped, BrowserField
<1>6. VisitTyped'
  BY <1>0, <1>1, <1>5 DEF VisitTyped
<1>7. Grew(n, c, again)
  BY <1>0, <1>1 DEF Grew
<1>8. Past'
  BY <1>0, <1>3, <1>4, <1>5, <1>7, PastGrows
<1>9. VisitInv'
  <2>1. CASE how = "once"
    <3>1. Db' = c
      BY <1>1, <2>1, OnceIs
    <3>. QED BY <1>0, <1>1, <1>3, <1>5, <2>1, <3>1, RestsInv
  <2>2. CASE how # "once"
    BY <1>0, <1>1, <2>2 DEF VisitInv, Undisturbed, VisitTyped
  <2>. QED BY <2>1, <2>2
<1>. QED BY <1>6, <1>8, <1>9 DEF VisitState

LEMMA WelcomeVisit ==
  ASSUME SiteInv, VisitState, NEW n \in Node, NEW h, welcomeSave(n, h)
  PROVE  VisitState'
<1>. DEFINE db == View(n)
            c == SetHandle(Db, h).db
            want == Ask(IF visit.to = NoHost THEN "page" ELSE "bounce", visit.host, visit.to)
            ask == safeNext(db, db.primary, want)
<1>0. /\ VisitTyped /\ Past /\ VisitInv /\ visit.phase = "welcome"
      /\ UNCHANGED <<now, browser>> /\ plan' = plan
      /\ HostsOK(db) /\ Front(db) \in Host /\ Front(db) = <<Bare, db.primary>>
  BY CopyIs DEF VisitState, welcomeSave, Idle
<1>1. visit.host \in Host /\ visit.to \in Host \cup {NoHost} /\ visit.hops \in Nat
  BY <1>0 DEF VisitTyped, AskTyped
<1>2. CASE ~user(db, Front(db))
  <2>1. Shown(n, Front(db), FALSE) /\ UNCHANGED <<site, seen, lost>>
    BY <1>0, <1>2 DEF welcomeSave, logVars
  <2>2. /\ DOMAIN visit' = VisitField /\ visit'.hops \in Nat /\ AskTyped(visit'.phase, visit'.host, visit'.to)
        /\ visit'.phase = "shown" /\ visit'.host = Front(db) /\ visit'.hops = visit.hops
        /\ visit'.known = visit.known
        /\ visit'.calm => visit.calm /\ seen[n] = Len(site)
    BY <1>0, <2>1, ShownIs
  <2>3. VisitTyped' /\ Past' /\ Db' = Db
    BY <1>0, <2>1, <2>2, PastStays DEF VisitTyped, Db
  <2>4. ASSUME Undisturbed' PROVE VisitOK(Db, visit', browser, now)
    <3>1. Undisturbed /\ seen[n] = Len(site)
      BY <1>0, <2>1, <2>2, <2>3, <2>4 DEF Undisturbed
    <3>2. db = Db /\ VisitOK(Db, visit, browser, now)
      BY <1>0, <3>1, CalmIs DEF VisitInv
    <3>3. ~visit.known /\ visit.hops = 0
      BY <1>0, <1>2, <3>2, InIs DEF VisitOK, OnWelcome
    <3>4. Landed(Db, visit')
      BY <2>2, <3>3 DEF Landed
    <3>. QED BY <1>0, <2>2, <3>3, <3>4 DEF VisitOK
  <2>. QED BY <1>0, <2>3, <2>4 DEF VisitState, VisitInv
<1>3. CASE user(db, Front(db))
  <2>1. /\ site' = Append(site, c) /\ seen' = [seen EXCEPT ![n] = Len(site')] /\ lost' = lost
        /\ Become(n, ask, 0)
    BY <1>0, <1>3 DEF welcomeSave, Apply
  <2>2. ask = want \/ ask = Ask("page", Front(db), NoHost)
    BY <1>0, SafeNextIs
  <2>3. AskTyped(ask.phase, ask.host, ask.to)
    BY <1>0, <1>1, <2>2, AskIs DEF AskTyped
  <2>4. ask = safeNext(db, db.primary, Ask(IF visit.to = NoHost THEN "page" ELSE "bounce", visit.host, visit.to))
    OBVIOUS
  <2>. HIDE DEF ask, want
  <2>5. /\ DOMAIN visit' = VisitField /\ visit'.hops \in Nat /\ AskTyped(visit'.phase, visit'.host, visit'.to)
        /\ Goes(visit, visit', ask, 0)
        /\ visit'.calm => visit.calm /\ seen[n] = Len(site)
    BY <1>0, <2>1, <2>3, BecomeIs
  <2>6. DbKept(Db)
    BY <1>0 DEF Past
  <2>7. /\ GoesOn(Db, c) /\ SameHosts(Db, c)
        /\ c.session = Db.session /\ c.until = Db.until /\ c.bounce = Db.bounce
    BY <2>6, OthersGoOn
  <2>. HIDE DEF c
  <2>8. GoesOn(c, c) /\ Grew(n, c, c) /\ Db' = c
    BY <2>1, <2>7, StaysKept, OnceIs DEF GoesOn, Grew
  <2>9. VisitTyped' /\ Past'
    BY <1>0, <2>1, <2>5, <2>7, <2>8, PastGrows DEF VisitTyped
  <2>10. ASSUME Undisturbed' PROVE VisitOK(c, visit', browser, now)
    <3>1. Undisturbed /\ seen[n] = Len(site)
      BY <1>0, <2>1, <2>5, <2>7, <2>8, <2>10 DEF Undisturbed, SameHosts
    <3>2. db = Db /\ Plain(Db, browser) /\ VisitOK(Db, visit, browser, now)
      BY <1>0, <3>1, CalmIs DEF VisitInv
    <3>. QED BY <1>0, <1>1, <2>4, <2>5, <2>7, <3>2, WelcomeOK
  <2>. QED BY <1>0, <2>8, <2>9, <2>10 DEF VisitState, VisitInv
<1>. QED BY <1>2, <1>3

LEMMA LogoutVisit ==
  ASSUME SiteInv, VisitState, NEW n \in Node, logout(n)
  PROVE  VisitState'
<1>. DEFINE h == visit.host
            c == EndSession(Db, cookie(h)).db
<1>0. /\ VisitTyped /\ Past /\ visit.phase = "shown" /\ UNCHANGED now /\ plan' = plan /\ lost' = lost
      /\ Grew(n, c, c) /\ visit' = [NoVisit EXCEPT !.phase = "page", !.host = h]
  BY DEF VisitState, logout, Given, Apply, Again, Grew
<1>1. h \in Host
  BY <1>0 DEF VisitTyped, AskTyped
<1>2. DbKept(Db)
  BY <1>0 DEF Past
<1>3. GoesOn(Db, c)
  BY <1>2, OthersGoOn
<1>. HIDE DEF c
<1>4. GoesOn(c, c)
  BY <1>3, StaysKept DEF GoesOn
<1>5. /\ DOMAIN browser' = BrowserField /\ DOMAIN browser'.own = Host /\ DOMAIN browser'.domain = Domain
      /\ browser'.bounced = browser.bounced
      /\ \A x \in Host : browser'.own[x] # 0 => browser'.own[x] = browser.own[x]
  <2>. DEFINE own == [browser.own EXCEPT ![h] = 0]
              domain == [browser.domain EXCEPT ![View(n).primary] = 0]
  <2>1. browser' = [browser EXCEPT !.own = own] \/ browser' = [browser EXCEPT !.domain = domain]
    BY DEF logout
  <2>2. /\ DOMAIN own = Host /\ DOMAIN domain = Domain
        /\ \A x \in Host : own[x] # 0 => own[x] = browser.own[x]
    BY <1>0, <1>1 DEF VisitTyped
  <2>3. DOMAIN browser = BrowserField /\ DOMAIN browser.own = Host /\ DOMAIN browser.domain = Domain
    BY <1>0 DEF VisitTyped
  <2>. HIDE DEF own, domain
  <2>. QED BY <2>1, <2>2, <2>3 DEF BrowserField
<1>6. /\ DOMAIN visit' = VisitField /\ visit'.phase = "page" /\ visit'.host = h /\ visit'.to = NoHost
      /\ visit'.hops = 0 /\ ~visit'.calm
  BY <1>0 DEF NoVisit, VisitField
<1>7. VisitTyped'
  BY <1>0, <1>1, <1>5, <1>6 DEF VisitTyped, AskTyped
<1>8. Past'
  BY <1>0, <1>3, <1>4, <1>5, PastGrows DEF VisitState
<1>. QED BY <1>6, <1>7, <1>8, DisturbedInv DEF VisitState

(* Commands nobody's visit is about.                                       *)
LEMMA DisturbedStep ==
  ASSUME SiteInv, VisitState, NEW n \in Node, NEW c, Grew(n, c, c), GoesOn(Db, c),
         Disturbed, UNCHANGED <<now, browser, lost, plan>>
  PROVE  VisitState'
<1>1. VisitTyped /\ Past /\ GoesOn(c, c)
  BY StaysKept DEF VisitState, GoesOn
<1>2. /\ DOMAIN visit' = VisitField /\ visit'.phase = visit.phase /\ visit'.host = visit.host /\ visit'.to = visit.to
      /\ visit'.hops = visit.hops /\ ~visit'.calm
  BY <1>1 DEF Disturbed, VisitTyped, VisitField
<1>3. VisitTyped'
  BY <1>1, <1>2 DEF VisitTyped
<1>4. Past'
  BY <1>1, PastGrows
<1>. QED BY <1>2, <1>3, <1>4, DisturbedInv DEF VisitState

LEMMA OperatorVisit ==
  ASSUME SiteInv, VisitState, NEW n \in Node, Suspend(n) \/ PurgeSite(n) \/ OperateSite(n)
  PROVE  VisitState'
<1>0. DbKept(Db)
  BY DEF VisitState, Past
<1>1. CASE Suspend(n)
  <2>1. PICK until : Grew(n, SuspendUser(Db, until, now).db, SuspendUser(Db, until, now).db)
    BY <1>1 DEF Suspend, Apply, Again, Grew
  <2>2. Disturbed /\ UNCHANGED <<now, browser, lost, plan>>
    BY <1>1 DEF Suspend, Given, Apply
  <2>3. GoesOn(Db, SuspendUser(Db, until, now).db)
    BY <1>0, SuspendGoes
  <2>. QED BY <2>1, <2>2, <2>3, DisturbedStep
<1>2. CASE PurgeSite(n)
  <2>1. /\ Grew(n, Purge(Db, now).db, Purge(Db, now).db)
        /\ Disturbed /\ UNCHANGED <<now, browser, lost, plan>>
    BY <1>2 DEF PurgeSite, Given, Apply, Again, Grew
  <2>2. GoesOn(Db, Purge(Db, now).db)
    BY <1>0, PurgeGoes
  <2>. QED BY <2>1, <2>2, DisturbedStep
<1>3. CASE OperateSite(n)
  <2>1. PICK c : Grew(n, c, c) /\ AddressesKept(Db, c)
    BY <1>3, OperateIs
  <2>2. Disturbed /\ UNCHANGED <<now, browser, lost, plan>>
    BY <1>3 DEF OperateSite, Operate, Given, Apply
  <2>3. GoesOn(Db, c)
    BY <1>0, <2>1, AddressesGo
  <2>. QED BY <2>1, <2>2, <2>3, DisturbedStep
<1>. QED BY <1>1, <1>2, <1>3

LEMMA ProfileVisit ==
  ASSUME SiteInv, VisitState, NEW n \in Node, profileSave(n)
  PROVE  VisitState'
<1>1. PICK email, daily : site' = Append(site, SetNotifyPrefs(Db, email, daily).db)
  BY DEF profileSave, Apply
<1>. DEFINE c == SetNotifyPrefs(Db, email, daily).db
<1>2. /\ site' = Append(site, c) /\ seen' = [seen EXCEPT ![n] = Len(site')] /\ lost' = lost
      /\ UNCHANGED <<now, browser, visit, plan>>
      /\ VisitTyped /\ Past /\ VisitInv /\ DbKept(Db)
  BY <1>1 DEF profileSave, Apply, Given, accountsVars, VisitState, Past
<1>3. /\ GoesOn(Db, c) /\ SameHosts(Db, c)
      /\ c.session = Db.session /\ c.until = Db.until /\ c.bounce = Db.bounce
  BY <1>2, OthersGoOn
<1>. HIDE DEF c
<1>4. Db' = c /\ Grew(n, c, c) /\ GoesOn(c, c)
  BY <1>2, <1>3, OnceIs, StaysKept DEF Grew, GoesOn
<1>5. VisitTyped' /\ Past'
  BY <1>2, <1>3, <1>4, PastGrows DEF VisitTyped
<1>6. VisitInv'
  BY <1>2, <1>3, <1>4, RestsInv
<1>. QED BY <1>5, <1>6 DEF VisitState

LEMMA TickVisit ==
  ASSUME VisitState, Tick
  PROVE  VisitState'
<1>1. /\ DOMAIN visit' = VisitField /\ visit'.phase = visit.phase /\ visit'.host = visit.host /\ visit'.to = visit.to
      /\ visit'.hops = visit.hops /\ ~visit'.calm
  BY DEF Tick, Disturbed, VisitState, VisitTyped, VisitField
<1>2. UNCHANGED <<site, browser, lost, plan>> /\ now' = now + 1
  BY DEF Tick, Idle, logVars
<1>3. VisitTyped'
  BY <1>1, <1>2 DEF VisitState, VisitTyped
<1>. QED BY <1>1, <1>2, <1>3, DisturbedInv, PastStays DEF VisitState

LEMMA InitVisit == Init => VisitState
<1>. SUFFICES ASSUME Init PROVE VisitState
  OBVIOUS
<1>. DEFINE db == plan.db
            own == [h \in Host |-> 0]
            domain == [d \in Domain |-> IF d = plan.db.primary THEN plan.fresh ELSE 0]
            bounced == [h \in Host |-> 0]
<1>1. /\ plan \in Plans /\ site = <<db>> /\ lost = plan.lost /\ now = 0 /\ visit = NoVisit
      /\ browser = [own |-> own, domain |-> domain, bounced |-> bounced, pending |-> 0, wrong |-> <<>>]
  BY DEF Init, AccountsInit
<1>2. plan.lost \in Nat /\ db.token = <<>> /\ db.bounce = {}
  BY <1>1, StartAssumption
<1>3. DOMAIN own = Host /\ DOMAIN bounced = Host /\ DOMAIN domain = Domain /\ \A h \in Host : own[h] = 0
  OBVIOUS
<1>. HIDE DEF own, domain, bounced, db
<1>4. DOMAIN browser = BrowserField /\ browser.own = own /\ browser.domain = domain /\ browser.bounced = bounced
  BY <1>1 DEF BrowserField
<1>5. VisitTyped
  BY <1>1, <1>2, <1>3, <1>4, NoVisitIs DEF VisitTyped
<1>6. Db = db /\ HostsOK(db) /\ DOMAIN db = DbField
  <2>1. Db = db
    BY <1>1 DEF Db
  <2>. QED BY <2>1, InitSite DEF SiteInv, DbOK
<1>7. CopyKept(db, db.old, db.owned)
  BY <1>2, <1>6 DEF CopyKept
<1>8. Past
  BY <1>1, <1>2, <1>3, <1>4, <1>6, <1>7 DEF Past, DbKept
<1>. QED BY <1>1, <1>5, <1>8, NoVisitIs DEF VisitState, VisitInv, Undisturbed

LEMMA VisitStep == SiteInv /\ VisitState /\ [Next]_vars => VisitState'
<1>. SUFFICES ASSUME SiteInv, VisitState, [Next]_vars PROVE VisitState'
  OBVIOUS
<1>. DEFINE Left == UNCHANGED <<visit, now, browser, lost, site, plan>>
<1>1. CASE UNCHANGED vars
  BY <1>1, VisitStays DEF vars, hostsVars, logVars, accountsVars
<1>2. ASSUME NEW n \in Node,
             \/ Hear(n) \/ bellPage(n) \/ SendNotices(n) \/ SendDigests(n) \/ Sent(n) \/ NotSent(n)
             \/ Mark(n) \/ Crash(n) \/ Elect(n) \/ StepDown(n) \/ CatchUpGroup(n)
      PROVE  Left
  <2>1. CASE Hear(n)
    BY <2>1 DEF Hear, CatchUp, Idle, accountsVars
  <2>2. CASE bellPage(n) \/ SendNotices(n) \/ SendDigests(n) \/ Sent(n) \/ NotSent(n)
    BY <2>2 DEF bellPage, SendNotices, SendDigests, Sent, NotSent, Given, Idle, logVars, accountsVars
  <2>3. CASE Mark(n) \/ Crash(n) \/ Elect(n) \/ StepDown(n) \/ CatchUpGroup(n)
    BY <2>3 DEF Mark, Crash, Elect, StepDown, CatchUpGroup, Given, Idle, logVars, accountsVars
  <2>. QED BY <1>2, <2>1, <2>2, <2>3
<1>3. CASE Comment \/ FollowPost \/ Leave \/ bellShown
  <2>1. Left
    BY <1>3 DEF Comment, FollowPost, Leave, bellShown, Given, Idle, logVars, accountsVars
  <2>. QED BY <2>1, VisitStays
<1>4. CASE Tick
  BY <1>4, TickVisit
<1>5. ASSUME NEW h \in Host, Open(h) PROVE VisitState'
  BY <1>5, OpenStep
<1>6. ASSUME NEW n \in Node, Redirected(n) \/ Page(n) \/ startBounce(n) PROVE VisitState'
  BY <1>6, RedirectedStep, PageStep, StartStep
<1>7. ASSUME NEW n \in Node, NEW how \in Hows, bounce(n, how) \/ bounceBack(n, how) PROVE VisitState'
  BY <1>7, BounceVisit, BackVisit
<1>8. ASSUME NEW n \in Node, NEW how \in Hows, loginSend(n, how) \/ codeWrong(n, how) PROVE VisitState'
  BY <1>8, SendVisit, WrongVisit
<1>9. ASSUME NEW n \in Node, NEW how \in Hows, codeCheck(n, how) \/ linkRedeem(n, how) PROVE VisitState'
  BY <1>9, FinishVisit DEF codeCheck, linkRedeem
<1>10. ASSUME NEW n \in Node, NEW h, welcomeSave(n, h) PROVE VisitState'
  BY <1>10, WelcomeVisit
<1>11. ASSUME NEW n \in Node, logout(n) \/ Suspend(n) \/ PurgeSite(n) \/ OperateSite(n) \/ profileSave(n)
       PROVE  VisitState'
  BY <1>11, LogoutVisit, OperatorVisit, ProfileVisit
<1>12. (\E n \in Node : Left) => VisitState'
  BY VisitStays
<1>. HIDE DEF Left
<1>. QED BY <1>1, <1>2, <1>3, <1>4, <1>5, <1>6, <1>7, <1>8, <1>9, <1>10, <1>11, <1>12 DEF Next

(* Whatever happened before, and however the nodes lagged: what a visit    *)
(* has come to, once nothing disturbs it, is as VisitOK says.              *)
THEOREM VisitIsInvariant == Spec => []VisitState
<1>. QED BY InitVisit, VisitStep, SiteIsInvariant, PTL DEF Spec

(* An undisturbed visit takes at most five redirects, and ends at the page *)
(* that was asked for; and whoever is signed in on the primary is signed   *)
(* in there, on a group's own domain by way of /bounce and /_bounce        *)
(* (startBounce, bounce, bounceBack of web/bounce.go; finishSignIn and     *)
(* safeNext of web/login.go), unless that was tried within the hour.       *)
THEOREM VisitsLand == Spec => []Lands
<1>1. VisitState => Lands
  <2>. SUFFICES ASSUME VisitState, Undisturbed PROVE Lands
    BY DEF Lands, Undisturbed
  <2>1. VisitOK(Db, visit, browser, now) /\ visit.hops \in Nat
    BY DEF VisitState, VisitInv, VisitTyped
  <2>2. visit.hops <= 5
    BY <2>1 DEF VisitOK, Quick, Settled, OnBounce, OnBack, OnWelcome, Landed
  <2>3. visit.phase = "shown" => Landed(Db, visit)
    BY <2>1 DEF VisitOK
  <2>. QED BY <2>1, <2>2, <2>3, HopsAssumption DEF Lands, Landed, Aim
<1>. QED BY <1>1, VisitIsInvariant, PTL

(***************************************************************************)
(* Mail                                                                    *)
(***************************************************************************)
(* The newest of the notifications on a list is on it.                     *)
LEMMA GreatestIs ==
  ASSUME NEW N \in Nat, NEW S, S \subseteq 1 .. N, S # {}
  PROVE  \E m \in S : \A i \in S : i <= m
<1>. DEFINE B == {k \in Nat : \A i \in S : i <= k}
            R == OpToRel(<, Nat)
<1>1. IsWellFoundedOn(R, Nat)
  BY NatLessThanWellFounded
<1>2. B \subseteq Nat /\ N \in B
  OBVIOUS
<1>3. \A x, y \in Nat : x < y => <<x, y>> \in R
  BY DEF OpToRel
<1>. HIDE DEF B, R
<1>4. PICK m \in B : \A k \in B : ~(<<k, m>> \in R)
  BY <1>1, <1>2, WFMin
<1>. USE DEF B
<1>5. m \in Nat /\ \A i \in S : i <= m
  BY <1>4
<1>6. m \in S
  <2>. SUFFICES ASSUME m \notin S PROVE FALSE
    OBVIOUS
  <2>0. m >= 1
    <3>1. PICK i : i \in S
      OBVIOUS
    <3>. HIDE DEF B
    <3>2. i \in Nat /\ i >= 1
      BY <3>1
    <3>. QED BY <1>5, <3>1, <3>2
  <2>1. m - 1 \in Nat /\ \A i \in S : i <= m - 1
    BY <1>5, <2>0
  <2>2. m - 1 \in B /\ m - 1 < m
    BY <1>5, <2>1
  <2>. QED BY <1>3, <1>4, <1>5, <2>1, <2>2
<1>. QED BY <1>5, <1>6

LEMMA NewestIs ==
  ASSUME NEW N \in Nat, NEW S, S \subseteq 1 .. N, S # {}
  PROVE  Newest(S) \in S /\ \A i \in S : i <= Newest(S)
BY GreatestIs DEF Newest

NoticeRow == [at : Int, read : BOOLEAN, emailed : BOOLEAN, sent : Nat, listed : BOOLEAN, shown : BOOLEAN,
              spare : BOOLEAN, behind : BOOLEAN]
PassRow == [kind : {"none", "notices", "digest"}, phase : {"none", "send", "mark"},
            list : SUBSET Nat, upTo : Nat, at : Int, stale : BOOLEAN]
MailTyped ==
    /\ notice \in Seq(NoticeRow) /\ pass \in [Node -> PassRow] /\ now \in Nat
    /\ bell \in {0} \cup DOMAIN notice
    /\ digest \in [marked : Int, sent : Int, soon : BOOLEAN, spare : BOOLEAN]
    /\ \A n \in Node : /\ pass[n].kind = "none" <=> pass[n].phase = "none"
                       /\ pass[n].kind # "notices" => pass[n].list = {}

(* A state of the file is an earlier one of the notifications there are.   *)
FileRow == [size : Nat, read : SUBSET Nat, emailed : SUBSET Nat, marked : Int, member : BOOLEAN]
Earlier(f, rows) ==
    /\ f.size \in 0 .. Len(rows)
    /\ f.read \subseteq {i \in 1 .. Len(rows) : rows[i].read}
    /\ f.emailed \subseteq {i \in 1 .. Len(rows) : rows[i].emailed}
CopiesInv ==
    /\ member \in BOOLEAN /\ file \in Seq(FileRow) /\ \A k \in 1 .. Len(file) : Earlier(file[k], notice)
    /\ applied \in [Node -> Nat] /\ \A n \in Node : applied[n] \in 1 .. Len(file)

(* The steps of the rest of the site, and of the copies of the file.       *)
Elsewhere == UNCHANGED <<notice, pass, digest, bell>> /\ now' \in {now, now + 1}

LEMMA NoPassIs == NoPass \in PassRow /\ NoPass.kind = "none" /\ NoPass.phase = "none" /\ NoPass.list = {}
BY DEF NoPass, PassRow

(* What a step does to the notifications there are.                        *)
RowsStay ==
    /\ notice' \in Seq(NoticeRow) /\ Len(notice') = Len(notice)
    /\ \A i \in 1 .. Len(notice) : notice'[i].at = notice[i].at

LEMMA RowsAre ==
  ASSUME MailTyped
  PROVE  /\ Len(notice) \in Nat /\ DOMAIN notice = 1 .. Len(notice)
         /\ \A i \in 1 .. Len(notice) : notice[i] \in NoticeRow
BY DEF MailTyped

LEMMA AppendIs ==
  ASSUME NEW R, NEW s \in Seq(R), NEW e \in R
  PROVE  /\ Append(s, e) \in Seq(R) /\ Len(Append(s, e)) = Len(s) + 1
         /\ \A i \in 1 .. Len(s) : Append(s, e)[i] = s[i]
         /\ Append(s, e)[Len(s) + 1] = e
BY AppendProperties

LEMMA CommentIs ==
  ASSUME MailTyped, Comment
  PROVE  \/ notice' = notice
         \/ /\ notice' \in Seq(NoticeRow) /\ Len(notice') = Len(notice) + 1
            /\ \A i \in 1 .. Len(notice) : notice'[i] = notice[i]
            /\ ~notice'[Len(notice')].read /\ ~notice'[Len(notice')].emailed
            /\ notice'[Len(notice')].sent = 0
<1>1. PICK at \in {now - 1, now} : notice' \in {notice, notify(at)}
  BY DEF Comment
<1>. DEFINE row == [at |-> at, read |-> FALSE, emailed |-> FALSE, sent |-> 0, listed |-> FALSE, shown |-> FALSE,
                   spare |-> FALSE, behind |-> FALSE]
<1>2. notice' \in {notice, Append(notice, row)}
  BY <1>1 DEF notify
<1>3. row \in NoticeRow /\ ~row.read /\ ~row.emailed /\ row.sent = 0
  BY DEF MailTyped, NoticeRow
<1>. HIDE DEF row
<1>4. notice \in Seq(NoticeRow)
  BY DEF MailTyped
<1>5. Append(notice, row) \in Seq(NoticeRow) /\ Len(Append(notice, row)) = Len(notice) + 1
      /\ \A i \in 1 .. Len(notice) : Append(notice, row)[i] = notice[i]
      /\ Append(notice, row)[Len(notice) + 1] = row
  BY <1>3, <1>4, AppendIs
<1>6. CASE notice' = Append(notice, row)
  <2>1. Len(notice') = Len(notice) + 1 /\ notice'[Len(notice')] = row
    BY <1>5, <1>6
  <2>2. notice' \in Seq(NoticeRow) /\ \A i \in 1 .. Len(notice) : notice'[i] = notice[i]
    BY <1>5, <1>6
  <2>. QED BY <1>3, <2>1, <2>2
<1>. QED BY <1>2, <1>6

LEMMA BellIs ==
  ASSUME MailTyped, bellShown
  PROVE  /\ RowsStay /\ bell \in 1 .. Len(notice)
         /\ \A i \in 1 .. Len(notice) :
               /\ notice'[i].emailed = notice[i].emailed /\ notice'[i].sent = notice[i].sent
               /\ notice'[i].spare = notice[i].spare /\ notice'[i].behind = notice[i].behind
               /\ notice[i].read => notice'[i].read
               /\ notice'[i].read => notice[i].read \/ i <= bell
               /\ notice[i].listed => notice'[i].listed
         /\ notice'[bell].listed
<1>. DEFINE marked == IF notice[bell].read THEN notice ELSE MarkRead(notice, bell)
            page == {i \in DOMAIN notice : i \in (bell - PageSize + 1) .. bell}
<1>1. PICK kept : /\ notice' = [i \in DOMAIN marked |-> [marked[i] EXCEPT !.listed = marked[i].listed \/ i \in page,
                                                                        !.shown = marked[i].shown \/ i \in kept]]
                  /\ bell # 0
  BY DEF bellShown
<1>2. /\ DOMAIN marked = 1 .. Len(notice)
      /\ \A i \in 1 .. Len(notice) :
            \/ marked[i] = notice[i]
            \/ marked[i] = [notice[i] EXCEPT !.read = TRUE] /\ i <= bell
  BY RowsAre DEF MarkRead
<1>. HIDE DEF marked
<1>3. bell \in 1 .. Len(notice) /\ bell \in page
  <2>. HIDE DEF page
  <2>1. DOMAIN notice = 1 .. Len(notice) /\ Len(notice) \in Nat
    BY RowsAre
  <2>2. bell \in {0} \cup DOMAIN notice /\ bell # 0
    BY <1>1 DEF MailTyped
  <2>3. bell \in 1 .. Len(notice) /\ bell \in (bell - PageSize + 1) .. bell
    BY <2>1, <2>2, MailAssumption
  <2>. QED BY <2>1, <2>3 DEF page
<1>. HIDE DEF page
<1>4. ASSUME NEW i \in 1 .. Len(notice)
      PROVE  /\ marked[i] \in NoticeRow
             /\ marked[i].at = notice[i].at /\ marked[i].listed = notice[i].listed
             /\ marked[i].emailed = notice[i].emailed /\ marked[i].sent = notice[i].sent
             /\ marked[i].spare = notice[i].spare /\ marked[i].behind = notice[i].behind
             /\ notice[i].read => marked[i].read
             /\ marked[i].read => notice[i].read \/ i <= bell
  <2>1. notice[i] \in NoticeRow
    BY RowsAre
  <2>. QED BY <1>2, <2>1 DEF NoticeRow
<1>5. ASSUME NEW i \in 1 .. Len(notice)
      PROVE  /\ notice'[i] \in NoticeRow
             /\ notice'[i].at = marked[i].at /\ notice'[i].emailed = marked[i].emailed
             /\ notice'[i].sent = marked[i].sent /\ notice'[i].spare = marked[i].spare
             /\ notice'[i].behind = marked[i].behind
             /\ notice'[i].read = marked[i].read /\ (notice'[i].listed <=> marked[i].listed \/ i \in page)
  <2>. DEFINE L == marked[i].listed \/ i \in page
              S == marked[i].shown \/ i \in kept
  <2>1. notice'[i] = [marked[i] EXCEPT !.listed = L, !.shown = S]
    BY <1>1, <1>2
  <2>2. marked[i] \in NoticeRow /\ L \in BOOLEAN /\ S \in BOOLEAN
    BY <1>4
  <2>. HIDE DEF S
  <2>3. /\ notice'[i] \in NoticeRow
        /\ notice'[i].at = marked[i].at /\ notice'[i].emailed = marked[i].emailed
        /\ notice'[i].sent = marked[i].sent /\ notice'[i].spare = marked[i].spare
        /\ notice'[i].behind = marked[i].behind
        /\ notice'[i].read = marked[i].read /\ notice'[i].listed = L
    <3>. HIDE DEF L
    <3>. QED BY <2>1, <2>2 DEF NoticeRow
  <2>. QED BY <2>3
<1>6. notice' \in Seq(NoticeRow) /\ Len(notice') = Len(notice)
  <2>1. notice' = [i \in 1 .. Len(notice) |-> notice'[i]]
    BY <1>1, <1>2
  <2>2. \A i \in 1 .. Len(notice) : notice'[i] \in NoticeRow
    BY <1>5
  <2>3. Len(notice) \in Nat
    BY RowsAre
  <2>. QED BY <2>1, <2>2, <2>3
<1>. QED BY <1>3, <1>4, <1>5, <1>6 DEF RowsStay

(* What a node's copy lists is there, and not read or recorded before it.  *)
LEMMA ListIs ==
  ASSUME MailTyped, CopiesInv, NEW n \in Node, NEW t
  PROVE  LET list == PendingEmail(Copy(n), t)
         IN /\ Copy(n).size \in 0 .. Len(notice)
            /\ list \subseteq 1 .. Copy(n).size /\ list \subseteq 1 .. Len(notice)
            /\ \A i \in list : notice[i].at <= t
            /\ \A i \in 1 .. Copy(n).size :
                  i \in list \/ notice[i].read \/ notice[i].emailed \/ ~(notice[i].at <= t)
<1>1. Earlier(Copy(n), notice)
  BY DEF CopiesInv, Copy
<1>2. Len(notice) \in Nat
  BY RowsAre
<1>3. Copy(n).size \in 0 .. Len(notice) /\ 1 .. Copy(n).size \subseteq 1 .. Len(notice)
  BY <1>1, <1>2 DEF Earlier
<1>4. \A i \in 1 .. Copy(n).size : i \in Copy(n).read \cup Copy(n).emailed => notice[i].read \/ notice[i].emailed
  BY <1>1 DEF Earlier
<1>. QED BY <1>3, <1>4 DEF PendingEmail

LEMMA SendIs ==
  ASSUME MailTyped, CopiesInv, NEW n \in Node, SendNotices(n)
  PROVE  LET list == PendingEmail(Copy(n), now - Quiet)
         IN /\ RowsStay
            /\ \A i \in 1 .. Len(notice) :
                  /\ notice'[i].read = notice[i].read /\ notice'[i].listed = notice[i].listed
                  /\ notice'[i].emailed = notice[i].emailed /\ notice'[i].sent = notice[i].sent
                  /\ notice[i].spare => notice'[i].spare
                  /\ notice[i].behind => notice'[i].behind
                  /\ i \in list /\ (\E m \in Node \ {n} : i \in Holds(m)) => notice'[i].spare
                  /\ i \in list /\ notice[i].emailed => notice'[i].behind
            /\ list \subseteq 1 .. Len(notice) /\ list # {}
            /\ pass[n].kind = "none"
            /\ pass' = [pass EXCEPT ![n] = [NoPass EXCEPT !.kind = "notices", !.phase = "send", !.list = list,
                                                          !.upTo = Newest(list), !.at = now]]
<1>. DEFINE list == PendingEmail(Copy(n), now - Quiet)
            both == list \cap UNION {Holds(m) : m \in Node \ {n}}
<1>1. /\ notice' = [i \in DOMAIN notice |->
                       [notice[i] EXCEPT !.spare = notice[i].spare \/ i \in both,
                                         !.behind = notice[i].behind \/ (i \in list /\ notice[i].emailed)]]
      /\ list # {} /\ pass[n] = NoPass
      /\ pass' = [pass EXCEPT ![n] = [NoPass EXCEPT !.kind = "notices", !.phase = "send", !.list = list,
                                                    !.upTo = Newest(list), !.at = now]]
  BY DEF SendNotices
<1>2. list \subseteq 1 .. Len(notice)
  BY ListIs
<1>3. \A i : i \in list /\ (\E m \in Node \ {n} : i \in Holds(m)) => i \in both
  OBVIOUS
<1>. HIDE DEF both, list
<1>4. ASSUME NEW i \in 1 .. Len(notice)
      PROVE  /\ notice'[i] \in NoticeRow
             /\ notice'[i].at = notice[i].at
             /\ notice'[i].read = notice[i].read /\ notice'[i].listed = notice[i].listed
             /\ notice'[i].emailed = notice[i].emailed /\ notice'[i].sent = notice[i].sent
             /\ notice[i].spare => notice'[i].spare
             /\ notice[i].behind => notice'[i].behind
             /\ i \in both => notice'[i].spare
             /\ i \in list /\ notice[i].emailed => notice'[i].behind
  <2>. DEFINE S == notice[i].spare \/ i \in both
              B == notice[i].behind \/ (i \in list /\ notice[i].emailed)
  <2>1. notice[i] \in NoticeRow /\ notice'[i] = [notice[i] EXCEPT !.spare = S, !.behind = B]
    BY <1>1, RowsAre
  <2>2. S \in BOOLEAN /\ B \in BOOLEAN
    BY <2>1 DEF NoticeRow
  <2>3. /\ notice'[i] \in NoticeRow
        /\ notice'[i].at = notice[i].at
        /\ notice'[i].read = notice[i].read /\ notice'[i].listed = notice[i].listed
        /\ notice'[i].emailed = notice[i].emailed /\ notice'[i].sent = notice[i].sent
        /\ notice'[i].spare = S /\ notice'[i].behind = B
    <3>. HIDE DEF S, B
    <3>. QED BY <2>1, <2>2 DEF NoticeRow
  <2>. QED BY <2>3
<1>5. notice' \in Seq(NoticeRow) /\ Len(notice') = Len(notice)
  <2>1. DOMAIN notice = 1 .. Len(notice) /\ Len(notice) \in Nat
    BY RowsAre
  <2>2. \A i \in 1 .. Len(notice) : notice'[i] \in NoticeRow
    BY <1>4
  <2>3. DOMAIN notice' = 1 .. Len(notice) /\ notice' = [i \in 1 .. Len(notice) |-> notice'[i]]
    BY <1>1, <2>1
  <2>. QED BY <2>1, <2>2, <2>3
<1>6. RowsStay
  BY <1>4, <1>5 DEF RowsStay
<1>7. \A i \in 1 .. Len(notice) :
         /\ notice'[i].read = notice[i].read /\ notice'[i].listed = notice[i].listed
         /\ notice'[i].emailed = notice[i].emailed /\ notice'[i].sent = notice[i].sent
         /\ notice[i].spare => notice'[i].spare
         /\ notice[i].behind => notice'[i].behind
         /\ i \in list /\ (\E m \in Node \ {n} : i \in Holds(m)) => notice'[i].spare
         /\ i \in list /\ notice[i].emailed => notice'[i].behind
  BY <1>3, <1>4
<1>8. pass[n].kind = "none"
  BY <1>1, NoPassIs
<1>. QED BY <1>1, <1>2, <1>6, <1>7, <1>8 DEF list

LEMMA SentIs ==
  ASSUME MailTyped, NEW n \in Node, Sent(n)
  PROVE  /\ RowsStay
         /\ \A i \in 1 .. Len(notice) :
               /\ notice'[i].read = notice[i].read /\ notice'[i].listed = notice[i].listed
               /\ notice'[i].emailed = notice[i].emailed /\ notice'[i].spare = notice[i].spare
               /\ notice'[i].behind = notice[i].behind
               /\ notice'[i].sent = notice[i].sent + (IF i \in Holds(n) THEN 1 ELSE 0)
<1>1. notice' = [i \in DOMAIN notice |->
                    IF i \in Holds(n) THEN [notice[i] EXCEPT !.sent = notice[i].sent + 1] ELSE notice[i]]
  BY DEF Sent
<1>2. ASSUME NEW i \in 1 .. Len(notice)
      PROVE  /\ notice'[i] \in NoticeRow
             /\ notice'[i].at = notice[i].at
             /\ notice'[i].read = notice[i].read /\ notice'[i].listed = notice[i].listed
             /\ notice'[i].emailed = notice[i].emailed /\ notice'[i].spare = notice[i].spare
             /\ notice'[i].behind = notice[i].behind
             /\ notice'[i].sent = notice[i].sent + (IF i \in Holds(n) THEN 1 ELSE 0)
  <2>1. /\ notice[i] \in NoticeRow
        /\ notice'[i] = IF i \in Holds(n) THEN [notice[i] EXCEPT !.sent = notice[i].sent + 1] ELSE notice[i]
    BY <1>1, RowsAre
  <2>. QED BY <2>1 DEF NoticeRow
<1>3. notice' \in Seq(NoticeRow) /\ Len(notice') = Len(notice)
  BY <1>1, <1>2, RowsAre
<1>. QED BY <1>2, <1>3 DEF RowsStay

LEMMA MarkIs ==
  ASSUME MailTyped, NEW n \in Node, Mark(n)
  PROVE  /\ RowsStay
         /\ \A i \in 1 .. Len(notice) :
               /\ notice'[i].read = notice[i].read /\ notice'[i].listed = notice[i].listed
               /\ notice'[i].sent = notice[i].sent /\ notice'[i].spare = notice[i].spare
               /\ notice'[i].behind = notice[i].behind
               /\ notice'[i].emailed <=> notice[i].emailed \/ (pass[n].kind = "notices" /\ i <= pass[n].upTo)
<1>. DEFINE Takes(i) == pass[n].kind = "notices" /\ i <= pass[n].upTo
<1>1. notice' = [i \in DOMAIN notice |->
                    IF Takes(i) THEN [notice[i] EXCEPT !.emailed = TRUE] ELSE notice[i]]
  <2>1. notice = [i \in DOMAIN notice |-> notice[i]]
    BY RowsAre DEF MailTyped
  <2>. QED BY <2>1 DEF Mark, MarkEmailed
<1>2. ASSUME NEW i \in 1 .. Len(notice)
      PROVE  /\ notice'[i] \in NoticeRow
             /\ notice'[i].at = notice[i].at
             /\ notice'[i].read = notice[i].read /\ notice'[i].listed = notice[i].listed
             /\ notice'[i].sent = notice[i].sent /\ notice'[i].spare = notice[i].spare
             /\ notice'[i].behind = notice[i].behind
             /\ notice'[i].emailed <=> notice[i].emailed \/ Takes(i)
  <2>. HIDE DEF Takes
  <2>1. /\ notice[i] \in NoticeRow
        /\ notice'[i] = IF Takes(i) THEN [notice[i] EXCEPT !.emailed = TRUE] ELSE notice[i]
    BY <1>1, RowsAre
  <2>. QED BY <2>1 DEF NoticeRow
<1>3. notice' \in Seq(NoticeRow) /\ Len(notice') = Len(notice)
  BY <1>1, <1>2, RowsAre
<1>. QED BY <1>2, <1>3 DEF RowsStay

LEMMA CrashIs ==
  ASSUME MailTyped, NEW n \in Node, Crash(n)
  PROVE  /\ RowsStay
         /\ \A i \in 1 .. Len(notice) :
               /\ notice'[i].read = notice[i].read /\ notice'[i].listed = notice[i].listed
               /\ notice'[i].emailed = notice[i].emailed /\ notice'[i].sent = notice[i].sent
               /\ notice[i].spare => notice'[i].spare
               /\ notice'[i].behind = notice[i].behind
               /\ i \in Holds(n) /\ pass[n].phase = "mark" => notice'[i].spare
<1>. DEFINE Marks == pass[n].phase = "mark"
<1>1. notice' = [i \in DOMAIN notice |->
                    IF i \in Holds(n) THEN [notice[i] EXCEPT !.spare = notice[i].spare \/ Marks] ELSE notice[i]]
  BY DEF Crash
<1>2. ASSUME NEW i \in 1 .. Len(notice)
      PROVE  /\ notice'[i] \in NoticeRow
             /\ notice'[i].at = notice[i].at
             /\ notice'[i].read = notice[i].read /\ notice'[i].listed = notice[i].listed
             /\ notice'[i].emailed = notice[i].emailed /\ notice'[i].sent = notice[i].sent
             /\ notice[i].spare => notice'[i].spare
             /\ notice'[i].behind = notice[i].behind
             /\ i \in Holds(n) /\ Marks => notice'[i].spare
  <2>1. /\ notice[i] \in NoticeRow /\ Marks \in BOOLEAN
        /\ notice'[i] = IF i \in Holds(n) THEN [notice[i] EXCEPT !.spare = notice[i].spare \/ Marks] ELSE notice[i]
    BY <1>1, RowsAre
  <2>. HIDE DEF Marks
  <2>. QED BY <2>1 DEF NoticeRow
<1>3. notice' \in Seq(NoticeRow) /\ Len(notice') = Len(notice)
  BY <1>1, <1>2, RowsAre
<1>. QED BY <1>2, <1>3 DEF RowsStay

(* The steps that matter to the email.                                     *)
LEMMA MailSteps ==
  ASSUME [Next]_vars
  PROVE  \/ Elsewhere
         \/ now' = now /\ (Comment \/ bellShown)
         \/ now' = now /\ \E n \in Node : \/ bellPage(n) \/ SendNotices(n) \/ SendDigests(n)
                                          \/ Sent(n) \/ NotSent(n) \/ Mark(n) \/ Crash(n)
<1>1. CASE UNCHANGED vars
  BY <1>1 DEF vars, mailVars, accountsVars, Elsewhere
<1>2. ASSUME UNCHANGED mailVars, now' \in {now, now + 1} PROVE Elsewhere
  BY <1>2 DEF mailVars, Elsewhere
<1>3. ASSUME NEW h, Open(h) PROVE now' = now
  BY <1>3 DEF Open
<1>4. ASSUME NEW n \in Node,
             Redirected(n) \/ Page(n) \/ startBounce(n) \/ logout(n) \/ Suspend(n) \/ PurgeSite(n)
               \/ OperateSite(n) \/ Hear(n)
      PROVE  now' = now
  <2>1. CASE Redirected(n) \/ Page(n)
    BY <2>1 DEF Redirected, Page
  <2>2. CASE startBounce(n) \/ logout(n)
    BY <2>2 DEF startBounce, logout
  <2>3. CASE Suspend(n) \/ PurgeSite(n) \/ OperateSite(n) \/ Hear(n)
    BY <2>3 DEF Suspend, PurgeSite, OperateSite, Hear, accountsVars
  <2>. QED BY <1>4, <2>1, <2>2, <2>3
<1>5. ASSUME NEW n \in Node, NEW how,
             bounce(n, how) \/ bounceBack(n, how) \/ loginSend(n, how) \/ codeWrong(n, how)
               \/ codeCheck(n, how) \/ linkRedeem(n, how)
      PROVE  now' = now
  <2>1. CASE bounce(n, how)
    BY <2>1 DEF bounce
  <2>2. CASE bounceBack(n, how)
    BY <2>2 DEF bounceBack
  <2>3. CASE loginSend(n, how)
    BY <2>3 DEF loginSend
  <2>4. CASE codeWrong(n, how)
    BY <2>4 DEF codeWrong
  <2>5. CASE codeCheck(n, how) \/ linkRedeem(n, how)
    <3>1. \E t : finishSignIn(n, t, how)
      BY <2>5 DEF codeCheck, linkRedeem
    <3>. QED BY <3>1 DEF finishSignIn
  <2>. QED BY <1>5, <2>1, <2>2, <2>3, <2>4, <2>5
<1>6. ASSUME NEW n \in Node, NEW h, welcomeSave(n, h) PROVE now' = now
  BY <1>6 DEF welcomeSave
<1>7. ASSUME NEW n \in Node, profileSave(n) PROVE Elsewhere
  BY <1>7 DEF profileSave, mailVars, accountsVars, Elsewhere
<1>8. ASSUME Tick PROVE now' = now + 1
  BY <1>8 DEF Tick
<1>9. ASSUME FollowPost \/ Leave \/ \E n \in Node : Elect(n) \/ StepDown(n) \/ CatchUpGroup(n) PROVE Elsewhere
  BY <1>9 DEF FollowPost, Leave, Elect, StepDown, CatchUpGroup, accountsVars, Elsewhere
<1>10. ASSUME Comment \/ bellShown PROVE now' = now
  BY <1>10 DEF Comment, bellShown, accountsVars
<1>11. ASSUME NEW n \in Node, \/ bellPage(n) \/ SendNotices(n) \/ SendDigests(n)
                              \/ Sent(n) \/ NotSent(n) \/ Mark(n) \/ Crash(n)
       PROVE  now' = now
  BY <1>11 DEF bellPage, SendNotices, SendDigests, Sent, NotSent, Mark, Crash, accountsVars
<1>. QED BY <1>1, <1>2, <1>3, <1>4, <1>5, <1>6, <1>7, <1>8, <1>9, <1>10, <1>11 DEF Next

(* What each step makes of the pass of the node that takes it.             *)
LEMMA PassIs ==
  ASSUME MailTyped, NEW n \in Node, NEW p \in PassRow, pass' = [pass EXCEPT ![n] = p],
         p.kind = "none" <=> p.phase = "none", p.kind # "notices" => p.list = {}
  PROVE  /\ pass' \in [Node -> PassRow] /\ pass'[n] = p /\ \A m \in Node \ {n} : pass'[m] = pass[m]
         /\ \A m \in Node : /\ pass'[m].kind = "none" <=> pass'[m].phase = "none"
                            /\ pass'[m].kind # "notices" => pass'[m].list = {}
BY DEF MailTyped

LEMMA SentPass ==
  ASSUME MailTyped, NEW n \in Node, Sent(n)
  PROVE  LET p == [pass[n] EXCEPT !.phase = "mark"]
         IN /\ p \in PassRow /\ pass' = [pass EXCEPT ![n] = p]
            /\ p.phase = "mark" /\ p.kind = pass[n].kind /\ p.list = pass[n].list
            /\ p.upTo = pass[n].upTo /\ p.at = pass[n].at /\ p.stale = pass[n].stale
            /\ p.kind # "none" /\ pass[n].phase = "send"
<1>1. pass[n] \in PassRow /\ pass[n].phase = "send" /\ pass[n].kind # "none"
  BY DEF MailTyped, Sent
<1>2. pass' = [pass EXCEPT ![n] = [pass[n] EXCEPT !.phase = "mark"]]
  BY DEF Sent, MailTyped
<1>. QED BY <1>1, <1>2 DEF PassRow

LEMMA DigestsPass ==
  ASSUME MailTyped, NEW n \in Node, SendDigests(n)
  PROVE  \E p \in PassRow : /\ pass' = [pass EXCEPT ![n] = p] /\ p.kind = "digest" /\ p.phase \in {"send", "mark"}
                            /\ p.list = {} /\ p.at = now
                            /\ p.stale \/ Copy(n).marked = digest.marked
<1>. DEFINE stale == Copy(n).marked # digest.marked
<1>1. PICK news \in BOOLEAN :
        pass' = [pass EXCEPT ![n] = [NoPass EXCEPT !.kind = "digest", !.at = now, !.stale = stale,
                                        !.phase = IF news THEN "send" ELSE "mark"]]
  BY DEF SendDigests
<1>. DEFINE phase == IF news THEN "send" ELSE "mark"
            p == [NoPass EXCEPT !.kind = "digest", !.at = now, !.stale = stale, !.phase = phase]
<1>2. phase \in {"send", "mark"} /\ now \in Int /\ stale \in BOOLEAN
  BY DEF MailTyped
<1>3. stale \/ Copy(n).marked = digest.marked
  OBVIOUS
<1>4. pass' = [pass EXCEPT ![n] = p]
  BY <1>1
<1>. HIDE DEF phase, stale
<1>5. p \in PassRow /\ p.kind = "digest" /\ p.phase = phase /\ p.list = {} /\ p.at = now /\ p.stale = stale
  BY <1>2 DEF NoPass, PassRow
<1>. HIDE DEF p
<1>. QED BY <1>2, <1>3, <1>4, <1>5

LEMMA SendPass ==
  ASSUME MailTyped, CopiesInv, NEW n \in Node, SendNotices(n)
  PROVE  LET list == PendingEmail(Copy(n), now - Quiet)
         IN \E p \in PassRow : /\ pass' = [pass EXCEPT ![n] = p] /\ p.kind = "notices" /\ p.phase = "send"
                               /\ p.list = list /\ p.upTo \in list /\ \A i \in list : i <= p.upTo
<1>. DEFINE list == PendingEmail(Copy(n), now - Quiet)
            p == [NoPass EXCEPT !.kind = "notices", !.phase = "send", !.list = list,
                                !.upTo = Newest(list), !.at = now]
<1>0. pass' = [pass EXCEPT ![n] = p]
  BY SendIs
<1>1. list \subseteq 1 .. Len(notice) /\ list # {}
  BY SendIs
<1>. HIDE DEF list
<1>2. Newest(list) \in list /\ \A i \in list : i <= Newest(list)
  BY <1>1, NewestIs, RowsAre
<1>3. list \in SUBSET Nat /\ Newest(list) \in Nat /\ now \in Int
  <2>1. Len(notice) \in Nat /\ 1 .. Len(notice) \subseteq Nat
    BY RowsAre
  <2>2. now \in Nat
    BY DEF MailTyped
  <2>. HIDE DEF p
  <2>3. list \subseteq Nat
    BY <1>1, <2>1
  <2>4. Newest(list) \in Nat
    BY <1>2, <2>3
  <2>5. now \in Int
    BY <2>2
  <2>. QED BY <2>3, <2>4, <2>5
<1>4. p \in PassRow /\ p.kind = "notices" /\ p.phase = "send" /\ p.list = list /\ p.upTo = Newest(list)
  BY <1>3 DEF NoPass, PassRow
<1>. HIDE DEF p
<1>. QED BY <1>0, <1>2, <1>4 DEF list

(* What a step does to the file and to the copies of it: all of a command, *)
(* or none of it.                                                          *)
Filing ==
    /\ file' = file \/ file' = Append(file, Filed(notice', digest'.marked, member'))
    /\ \/ applied' = applied
       \/ \E n \in Node : \/ applied' = [applied EXCEPT ![n] = applied[n] + 1] /\ applied[n] < Len(file)
                          \/ applied' = [applied EXCEPT ![n] = Len(file')]
    /\ member' \in {member, ~member}

LEMMA FilingSteps ==
  ASSUME [Next]_vars
  PROVE  Filing
<1>. DEFINE Same == UNCHANGED <<file, applied, member>>
<1>0. Same => Filing
  BY DEF Filing
<1>1. CASE UNCHANGED vars \/ UNCHANGED mailVars
  BY <1>1 DEF vars, mailVars, copyVars, Filing
<1>2. ASSUME NEW n \in Node, profileSave(n) \/ bellPage(n) \/ SendNotices(n) \/ SendDigests(n) \/ Sent(n)
      PROVE  Same
  BY <1>2 DEF profileSave, bellPage, SendNotices, SendDigests, Sent, mailVars, copyVars
<1>3. ASSUME NEW n \in Node, NotSent(n) \/ Crash(n) \/ Elect(n) \/ StepDown(n)
      PROVE  Same
  BY <1>3 DEF NotSent, Crash, Elect, StepDown, copyVars
<1>4. ASSUME FollowPost PROVE Same
  BY <1>4 DEF FollowPost, copyVars
<1>5. Logged => file' = file \/ file' = Append(file, Filed(notice', digest'.marked, member'))
  BY DEF Logged
<1>6. ASSUME NEW n \in Node, Mark(n) PROVE Filing
  BY <1>5, <1>6 DEF Mark, Filing
<1>7. ASSUME NEW n \in Node, CatchUpGroup(n) PROVE Filing
  BY <1>7 DEF CatchUpGroup, Filing
<1>8. CASE Comment \/ Leave \/ bellShown
  BY <1>5, <1>8 DEF Comment, Leave, bellShown, Filing
<1>. HIDE DEF Same
<1>. QED BY <1>0, <1>1, <1>2, <1>3, <1>4, <1>6, <1>7, <1>8 DEF Next

(* What was read or recorded stays so: an earlier state of the file is     *)
(* still one.                                                              *)
RowsGain ==
    /\ Len(notice') \in Nat /\ Len(notice') >= Len(notice)
    /\ \A i \in 1 .. Len(notice) : /\ notice[i].read => notice'[i].read
                                   /\ notice[i].emailed => notice'[i].emailed

LEMMA GainSteps ==
  ASSUME MailTyped, CopiesInv, [Next]_vars
  PROVE  RowsGain
<1>0. Len(notice) \in Nat
  BY RowsAre
<1>1. ASSUME notice' = notice PROVE RowsGain
  BY <1>0, <1>1 DEF RowsGain
<1>2. CASE Comment
  <2>1. CASE notice' # notice
    <3>1. Len(notice') = Len(notice) + 1 /\ \A i \in 1 .. Len(notice) : notice'[i] = notice[i]
      BY <1>2, <2>1, CommentIs
    <3>. QED BY <1>0, <3>1 DEF RowsGain
  <2>. QED BY <1>1, <2>1
<1>3. CASE bellShown
  <2>1. /\ Len(notice') = Len(notice)
        /\ \A i \in 1 .. Len(notice) : /\ notice[i].read => notice'[i].read
                                       /\ notice'[i].emailed = notice[i].emailed
    BY <1>3, BellIs DEF RowsStay
  <2>. QED BY <1>0, <2>1 DEF RowsGain
<1>4. ASSUME NEW n \in Node, SendNotices(n) PROVE RowsGain
  <2>1. /\ Len(notice') = Len(notice)
        /\ \A i \in 1 .. Len(notice) : /\ notice'[i].read = notice[i].read
                                       /\ notice'[i].emailed = notice[i].emailed
    BY <1>4, SendIs DEF RowsStay
  <2>. QED BY <1>0, <2>1 DEF RowsGain
<1>5. ASSUME NEW n \in Node, Sent(n) PROVE RowsGain
  BY <1>0, <1>5, SentIs DEF RowsGain, RowsStay
<1>6. ASSUME NEW n \in Node, Mark(n) PROVE RowsGain
  BY <1>0, <1>6, MarkIs DEF RowsGain, RowsStay
<1>7. ASSUME NEW n \in Node, Crash(n) PROVE RowsGain
  BY <1>0, <1>7, CrashIs DEF RowsGain, RowsStay
<1>8. ASSUME \/ Elsewhere
             \/ \E n \in Node : bellPage(n) \/ SendDigests(n) \/ NotSent(n)
      PROVE  notice' = notice
  BY <1>8 DEF Elsewhere, bellPage, SendDigests, NotSent
<1>. QED BY <1>1, <1>2, <1>3, <1>4, <1>5, <1>6, <1>7, <1>8, MailSteps

LEMMA FiledIs ==
  ASSUME NEW rows \in Seq(NoticeRow), NEW marked \in Int, NEW joined \in BOOLEAN
  PROVE  Filed(rows, marked, joined) \in FileRow /\ Earlier(Filed(rows, marked, joined), rows)
<1>1. Len(rows) \in Nat /\ DOMAIN rows = 1 .. Len(rows)
  OBVIOUS
<1>. DEFINE read == {i \in DOMAIN rows : rows[i].read}
            emailed == {i \in DOMAIN rows : rows[i].emailed}
            f == [size |-> Len(rows), read |-> read, emailed |-> emailed, marked |-> marked, member |-> joined]
<1>2. read \in SUBSET Nat /\ emailed \in SUBSET Nat
  BY <1>1
<1>3. read \subseteq {i \in 1 .. Len(rows) : rows[i].read} /\ emailed \subseteq {i \in 1 .. Len(rows) : rows[i].emailed}
  BY <1>1
<1>4. Filed(rows, marked, joined) = f
  BY DEF Filed
<1>. HIDE DEF read, emailed
<1>. QED BY <1>1, <1>2, <1>3, <1>4 DEF FileRow, Earlier

LEMMA CopiesStep == MailTyped /\ MailTyped' /\ CopiesInv /\ [Next]_vars => CopiesInv'
<1>. SUFFICES ASSUME MailTyped, MailTyped', CopiesInv, [Next]_vars PROVE CopiesInv'
  OBVIOUS
<1>1. Filing /\ RowsGain
  BY FilingSteps, GainSteps
<1>. DEFINE new == Filed(notice', digest'.marked, member')
<1>2. member' \in BOOLEAN
  BY <1>1 DEF CopiesInv, Filing
<1>3. new \in FileRow /\ Earlier(new, notice')
  <2>1. notice' \in Seq(NoticeRow) /\ digest'.marked \in Int
    BY DEF MailTyped
  <2>. QED BY <1>2, <2>1, FiledIs
<1>4. ASSUME NEW f, Earlier(f, notice) PROVE Earlier(f, notice')
  <2>1. Len(notice) \in Nat /\ Len(notice') \in Nat /\ Len(notice') >= Len(notice)
    BY <1>1, RowsAre DEF RowsGain
  <2>2. 1 .. Len(notice) \subseteq 1 .. Len(notice') /\ 0 .. Len(notice) \subseteq 0 .. Len(notice')
    BY <2>1
  <2>3. \A i \in 1 .. Len(notice) : /\ notice[i].read => notice'[i].read
                                    /\ notice[i].emailed => notice'[i].emailed
    BY <1>1 DEF RowsGain
  <2>4. f.size \in 0 .. Len(notice')
    BY <1>4, <2>2 DEF Earlier
  <2>5. ASSUME NEW i \in f.read PROVE i \in 1 .. Len(notice') /\ notice'[i].read
    <3>1. i \in 1 .. Len(notice) /\ notice[i].read
      BY <1>4 DEF Earlier
    <3>2. i \in 1 .. Len(notice')
      BY <2>2, <3>1
    <3>. QED BY <2>3, <3>1, <3>2
  <2>6. ASSUME NEW i \in f.emailed PROVE i \in 1 .. Len(notice') /\ notice'[i].emailed
    <3>1. i \in 1 .. Len(notice) /\ notice[i].emailed
      BY <1>4 DEF Earlier
    <3>2. i \in 1 .. Len(notice')
      BY <2>2, <3>1
    <3>. QED BY <2>3, <3>1, <3>2
  <2>. QED BY <2>4, <2>5, <2>6 DEF Earlier
<1>5. file \in Seq(FileRow) /\ Len(file) \in Nat
  BY DEF CopiesInv
<1>6. file' = file \/ file' = Append(file, new)
  BY <1>1 DEF Filing
<1>. HIDE DEF new
<1>7. /\ file' \in Seq(FileRow) /\ Len(file') \in {Len(file), Len(file) + 1}
      /\ \A k \in 1 .. Len(file') : file'[k] = new \/ (k \in 1 .. Len(file) /\ file'[k] = file[k])
  <2>1. CASE file' = file
    BY <1>5, <2>1
  <2>2. CASE file' = Append(file, new)
    <3>1. /\ file' \in Seq(FileRow) /\ Len(file') = Len(file) + 1 /\ file'[Len(file) + 1] = new
          /\ \A k \in 1 .. Len(file) : file'[k] = file[k]
      BY <1>3, <1>5, <2>2, AppendIs
    <3>2. ASSUME NEW k \in 1 .. Len(file') PROVE k \in 1 .. Len(file) \/ k = Len(file) + 1
      BY <1>5, <3>1
    <3>. QED BY <3>1, <3>2
  <2>. QED BY <1>6, <2>1, <2>2
<1>8. \A k \in 1 .. Len(file') : Earlier(file'[k], notice')
  BY <1>3, <1>4, <1>7 DEF CopiesInv
<1>9. /\ \A n \in Node : applied[n] \in 1 .. Len(file)
      /\ applied \in [Node -> Nat]
  BY DEF CopiesInv
<1>10. applied' \in [Node -> Nat] /\ \A n \in Node : applied'[n] \in 1 .. Len(file')
  <2>1. CASE applied' = applied
    BY <1>5, <1>7, <1>9, <2>1
  <2>2. ASSUME NEW n \in Node, applied' = [applied EXCEPT ![n] = applied[n] + 1], applied[n] < Len(file)
        PROVE  applied' \in [Node -> Nat] /\ \A m \in Node : applied'[m] \in 1 .. Len(file')
    <3>1. applied[n] + 1 \in Nat /\ applied[n] + 1 \in 1 .. Len(file')
      BY <1>5, <1>7, <1>9, <2>2
    <3>2. \A m \in Node : applied[m] \in 1 .. Len(file')
      BY <1>5, <1>7, <1>9
    <3>. QED BY <1>9, <2>2, <3>1, <3>2
  <2>3. ASSUME NEW n \in Node, applied' = [applied EXCEPT ![n] = Len(file')]
        PROVE  applied' \in [Node -> Nat] /\ \A m \in Node : applied'[m] \in 1 .. Len(file')
    <3>1. Len(file') \in Nat /\ Len(file') \in 1 .. Len(file')
      BY <1>5, <1>7, <1>9, <2>3
    <3>2. \A m \in Node : applied[m] \in 1 .. Len(file')
      BY <1>5, <1>7, <1>9
    <3>. QED BY <1>9, <2>3, <3>1, <3>2
  <2>. QED BY <1>1, <2>1, <2>2, <2>3 DEF Filing
<1>. QED BY <1>2, <1>7, <1>8, <1>10 DEF CopiesInv

LEMMA InitMail == Init => MailTyped
<1>. SUFFICES ASSUME Init PROVE MailTyped
  OBVIOUS
<1>1. /\ notice = <<>> /\ pass = [n \in Node |-> NoPass] /\ bell = 0 /\ now = 0
      /\ digest = [marked |-> -DigestGap, sent |-> -DigestGap, soon |-> FALSE, spare |-> FALSE]
  BY DEF Init, AccountsInit
<1>2. digest \in [marked : Int, sent : Int, soon : BOOLEAN, spare : BOOLEAN]
  BY <1>1, MailAssumption
<1>. QED BY <1>1, <1>2, NoPassIs DEF MailTyped

LEMMA InitCopies == Init => CopiesInv
<1>. SUFFICES ASSUME Init PROVE CopiesInv
  OBVIOUS
<1>. DEFINE f == Filed(notice, -DigestGap, member)
<1>1. notice = <<>> /\ member = TRUE /\ file = <<f>> /\ applied = [n \in Node |-> 1]
  BY DEF Init
<1>2. f \in FileRow /\ Earlier(f, notice)
  <2>1. <<>> \in Seq(NoticeRow) /\ -DigestGap \in Int
    BY MailAssumption
  <2>. QED BY <1>1, <2>1, FiledIs
<1>. HIDE DEF f
<1>3. file \in Seq(FileRow) /\ Len(file) = 1 /\ file[1] = f
  BY <1>1, <1>2
<1>. QED BY <1>1, <1>2, <1>3 DEF CopiesInv

LEMMA TypedStep == MailTyped /\ CopiesInv /\ [Next]_vars => MailTyped'
<1>. SUFFICES ASSUME MailTyped, CopiesInv, [Next]_vars PROVE MailTyped'
  OBVIOUS
<1>0. notice \in Seq(NoticeRow) /\ Len(notice) \in Nat /\ DOMAIN notice = 1 .. Len(notice) /\ now' \in Nat
  BY RowsAre, MailSteps DEF MailTyped, Elsewhere
<1>1. CASE Elsewhere
  BY <1>0, <1>1 DEF MailTyped, Elsewhere
<1>2. CASE Comment
  <2>1. UNCHANGED <<pass, bell, digest>>
    BY <1>2 DEF Comment
  <2>2. notice' \in Seq(NoticeRow) /\ DOMAIN notice \subseteq DOMAIN notice'
    BY <1>0, <1>2, CommentIs
  <2>. QED BY <1>0, <2>1, <2>2 DEF MailTyped
<1>3. CASE bellShown
  <2>1. UNCHANGED <<pass, digest>> /\ bell' = 0
    BY <1>3 DEF bellShown
  <2>. QED BY <1>0, <1>3, <2>1, BellIs DEF MailTyped, RowsStay
<1>4. ASSUME NEW n \in Node, bellPage(n) PROVE MailTyped'
  <2>1. UNCHANGED <<notice, pass, digest>> /\ bell' = Copy(n).size /\ Copy(n).size > 0
    BY <1>4 DEF bellPage
  <2>2. Copy(n).size \in 0 .. Len(notice)
    BY ListIs
  <2>. QED BY <1>0, <2>1, <2>2 DEF MailTyped
<1>5. ASSUME RowsStay, NEW n \in Node, NEW p \in PassRow, pass' = [pass EXCEPT ![n] = p],
             p.kind = "none" <=> p.phase = "none", p.kind # "notices" => p.list = {}, bell' = bell,
             digest' \in [marked : Int, sent : Int, soon : BOOLEAN, spare : BOOLEAN]
      PROVE  MailTyped'
  <2>1. notice' \in Seq(NoticeRow) /\ DOMAIN notice' = DOMAIN notice
    BY <1>0, <1>5 DEF RowsStay
  <2>2. /\ pass' \in [Node -> PassRow]
        /\ \A m \in Node : /\ pass'[m].kind = "none" <=> pass'[m].phase = "none"
                           /\ pass'[m].kind # "notices" => pass'[m].list = {}
    BY <1>5, PassIs
  <2>. QED BY <1>0, <1>5, <2>1, <2>2 DEF MailTyped
<1>6. digest \in [marked : Int, sent : Int, soon : BOOLEAN, spare : BOOLEAN] /\ (notice' = notice => RowsStay)
  BY <1>0 DEF MailTyped, RowsStay
<1>7. ASSUME NEW n \in Node, SendNotices(n) PROVE MailTyped'
  <2>1. RowsStay /\ UNCHANGED <<bell, digest>>
    BY <1>7, SendIs DEF SendNotices
  <2>. QED BY <1>5, <1>6, <1>7, <2>1, SendPass
<1>8. ASSUME NEW n \in Node, SendDigests(n) PROVE MailTyped'
  <2>1. UNCHANGED <<notice, bell>> /\ \E s \in BOOLEAN : digest' = [digest EXCEPT !.spare = s]
    <3>1. digest.spare \in BOOLEAN
      BY <1>6
    <3>. QED BY <1>8, <3>1 DEF SendDigests
  <2>2. digest' \in [marked : Int, sent : Int, soon : BOOLEAN, spare : BOOLEAN]
    BY <1>6, <2>1
  <2>. QED BY <1>5, <1>6, <1>8, <2>1, <2>2, DigestsPass
<1>9. ASSUME NEW n \in Node, Sent(n) PROVE MailTyped'
  <2>. DEFINE p == [pass[n] EXCEPT !.phase = "mark"]
  <2>1. /\ p \in PassRow /\ pass' = [pass EXCEPT ![n] = p] /\ p.phase = "mark" /\ p.kind # "none"
        /\ (p.kind # "notices" => p.list = {})
    BY <1>9, SentPass DEF MailTyped
  <2>. HIDE DEF p
  <2>2. RowsStay /\ UNCHANGED bell
    BY <1>9, SentIs DEF Sent
  <2>3. digest' \in [marked : Int, sent : Int, soon : BOOLEAN, spare : BOOLEAN]
    <3>1. pass[n].at \in Int
      BY DEF MailTyped, PassRow
    <3>2. digest' = digest \/ \E s \in BOOLEAN : digest' = [digest EXCEPT !.sent = pass[n].at, !.soon = s]
      <4>1. digest.soon \in BOOLEAN
        BY <1>6
      <4>. QED BY <1>9, <4>1 DEF Sent
    <3>. QED BY <1>6, <3>1, <3>2
  <2>. QED BY <1>5, <2>1, <2>2, <2>3
<1>10. ASSUME NEW n \in Node, NotSent(n) PROVE MailTyped'
  <2>1. UNCHANGED <<notice, bell, digest>> /\ pass' = [pass EXCEPT ![n] = NoPass]
    BY <1>10 DEF NotSent
  <2>. QED BY <1>5, <1>6, <2>1, NoPassIs
<1>11. ASSUME NEW n \in Node, Mark(n) PROVE MailTyped'
  <2>1. RowsStay /\ UNCHANGED bell /\ pass' = [pass EXCEPT ![n] = NoPass]
    BY <1>11, MarkIs DEF Mark
  <2>2. digest' \in [marked : Int, sent : Int, soon : BOOLEAN, spare : BOOLEAN]
    <3>1. pass[n].at \in Int
      BY DEF MailTyped, PassRow
    <3>2. digest' = digest \/ digest' = [digest EXCEPT !.marked = pass[n].at]
      BY <1>11 DEF Mark
    <3>. QED BY <1>6, <3>1, <3>2
  <2>. QED BY <1>5, <2>1, <2>2, NoPassIs
<1>12. ASSUME NEW n \in Node, Crash(n) PROVE MailTyped'
  <2>1. RowsStay /\ UNCHANGED bell /\ pass' = [pass EXCEPT ![n] = NoPass]
    BY <1>12, CrashIs DEF Crash
  <2>2. digest' \in [marked : Int, sent : Int, soon : BOOLEAN, spare : BOOLEAN]
    <3>1. \E s \in BOOLEAN : digest' = [digest EXCEPT !.spare = s]
      <4>1. digest.spare \in BOOLEAN
        BY <1>6
      <4>. QED BY <1>12, <4>1 DEF Crash
    <3>. QED BY <1>6, <3>1
  <2>. QED BY <1>5, <2>1, <2>2, NoPassIs
<1>. QED BY <1>1, <1>2, <1>3, <1>4, <1>7, <1>8, <1>9, <1>10, <1>11, <1>12, MailSteps

(* A pass about notifications: p.list is what is to be told up to p.upTo,  *)
(* but for what came by a clock after it.                                  *)
Covers(rows, p) ==
    /\ p.list \subseteq 1 .. Len(rows) /\ p.upTo \in p.list
    /\ \A i \in p.list : i <= p.upTo /\ (p.phase = "mark" => rows[i].sent > 0)
    /\ \A i \in 1 .. p.upTo :
          i \in p.list \/ rows[i].read \/ rows[i].emailed \/ rows[p.upTo].at < rows[i].at
Left(rows, i) == \E j \in 1 .. Len(rows) : j > i /\ rows[j].at < rows[i].at
Gathered(rows, i) == \E j \in 1 .. Len(rows) : j >= i /\ rows[j].listed

(* What is marked was sent, read or left; what is read was gathered for  *)
(* a page, or what is after it was.                                        *)
LostInv ==
    /\ \A i \in 1 .. Len(notice) :
          /\ notice[i].emailed => notice[i].sent > 0 \/ notice[i].read \/ Left(notice, i)
          /\ notice[i].read => Gathered(notice, i)
    /\ \A n \in Node : pass[n].kind = "notices" => Covers(notice, pass[n])

(* Rows that only gain.                                                    *)
Gains(rows, rows2) ==
    /\ Len(rows2) = Len(rows)
    /\ \A i \in 1 .. Len(rows) :
          /\ rows2[i].at = rows[i].at /\ rows[i].sent \in Nat /\ rows2[i].sent \in Nat
          /\ rows2[i].sent >= rows[i].sent
          /\ rows[i].read => rows2[i].read
          /\ rows[i].emailed => rows2[i].emailed
          /\ rows[i].listed => rows2[i].listed

LEMMA CoversStill ==
  ASSUME NEW rows, NEW rows2, Len(rows) \in Nat, Gains(rows, rows2), NEW p, Covers(rows, p)
  PROVE  Covers(rows2, p)
<1>1. p.upTo \in 1 .. Len(rows) /\ 1 .. p.upTo \subseteq 1 .. Len(rows)
  BY DEF Covers
<1>2. \A i \in p.list : i <= p.upTo /\ (p.phase = "mark" => rows2[i].sent > 0)
  BY DEF Covers, Gains
<1>3. ASSUME NEW i \in 1 .. p.upTo
      PROVE  i \in p.list \/ rows2[i].read \/ rows2[i].emailed \/ rows2[p.upTo].at < rows2[i].at
  BY <1>1 DEF Covers, Gains
<1>. QED BY <1>2, <1>3 DEF Covers, Gains

LEMMA LostKept ==
  ASSUME MailTyped, LostInv, Gains(notice, notice'),
         \A i \in 1 .. Len(notice) :
            /\ notice'[i].emailed => \/ notice[i].emailed \/ notice'[i].sent > 0 \/ notice'[i].read
                                     \/ Left(notice, i)
            /\ notice'[i].read => notice[i].read \/ Gathered(notice', i),
         \A n \in Node : pass'[n] = pass[n] \/ (pass'[n].kind = "notices" => Covers(notice', pass'[n]))
  PROVE  LostInv'
<1>1. Len(notice) \in Nat
  BY RowsAre
<1>2. \A i \in 1 .. Len(notice) : (Left(notice, i) => Left(notice', i)) /\ (Gathered(notice, i) => Gathered(notice', i))
  BY DEF Gains, Left, Gathered
<1>3. ASSUME NEW i \in 1 .. Len(notice)
      PROVE  /\ notice'[i].emailed => notice'[i].sent > 0 \/ notice'[i].read \/ Left(notice', i)
             /\ notice'[i].read => Gathered(notice', i)
  BY <1>2 DEF LostInv, Gains
<1>4. \A n \in Node : pass'[n].kind = "notices" => Covers(notice', pass'[n])
  BY <1>1, CoversStill DEF LostInv
<1>. QED BY <1>3, <1>4 DEF LostInv, Gains

LEMMA LostStep == MailTyped /\ CopiesInv /\ LostInv /\ [Next]_vars => LostInv'
<1>. SUFFICES ASSUME MailTyped, CopiesInv, LostInv, [Next]_vars PROVE LostInv'
  OBVIOUS
<1>0. /\ Len(notice) \in Nat /\ \A i \in 1 .. Len(notice) : notice[i] \in NoticeRow
      /\ \A n \in Node : pass[n] \in PassRow
  BY RowsAre DEF MailTyped
<1>a. Gains(notice, notice)
  BY <1>0 DEF Gains, NoticeRow
<1>b. \A p : p.kind = "none" => p.kind # "notices"
  OBVIOUS
<1>1. CASE Elsewhere
  BY <1>1, <1>a, LostKept DEF Elsewhere
<1>2. CASE Comment
  <2>1. pass' = pass
    BY <1>2 DEF Comment
  <2>2. CASE notice' = notice
    BY <2>1, <2>2, <1>a, LostKept
  <2>3. CASE notice' # notice
    <3>1. /\ Len(notice') = Len(notice) + 1 /\ \A i \in 1 .. Len(notice) : notice'[i] = notice[i]
          /\ ~notice'[Len(notice')].read /\ ~notice'[Len(notice')].emailed
      BY <1>2, <2>3, CommentIs
    <3>2. \A i \in 1 .. Len(notice) : (Left(notice, i) => Left(notice', i)) /\ (Gathered(notice, i) => Gathered(notice', i))
      BY <1>0, <3>1 DEF Left, Gathered
    <3>3. ASSUME NEW p, Covers(notice, p) PROVE Covers(notice', p)
      <4>1. p.upTo \in 1 .. Len(notice) /\ 1 .. p.upTo \subseteq 1 .. Len(notice)
        BY <1>0, <3>3 DEF Covers
      <4>2. p.list \subseteq 1 .. Len(notice) /\ 1 .. Len(notice) \subseteq 1 .. Len(notice')
        BY <1>0, <3>1, <3>3 DEF Covers
      <4>. QED BY <3>1, <3>3, <4>1, <4>2 DEF Covers
    <3>4. \A n \in Node : pass'[n].kind = "notices" => Covers(notice', pass'[n])
      BY <2>1, <3>3 DEF LostInv
    <3>5. ASSUME NEW i \in 1 .. Len(notice')
          PROVE  /\ notice'[i].emailed => notice'[i].sent > 0 \/ notice'[i].read \/ Left(notice', i)
                 /\ notice'[i].read => Gathered(notice', i)
      <4>1. i \in 1 .. Len(notice) \/ i = Len(notice')
        BY <1>0, <3>1
      <4>. QED BY <3>1, <3>2, <4>1 DEF LostInv
    <3>. QED BY <3>4, <3>5 DEF LostInv
  <2>. QED BY <2>2, <2>3
<1>3. CASE bellShown
  <2>1. pass' = pass
    BY <1>3 DEF bellShown
  <2>2. /\ RowsStay /\ bell \in 1 .. Len(notice) /\ notice'[bell].listed
        /\ \A i \in 1 .. Len(notice) :
              /\ notice'[i].emailed = notice[i].emailed /\ notice'[i].sent = notice[i].sent
              /\ notice[i].read => notice'[i].read
              /\ notice'[i].read => notice[i].read \/ i <= bell
              /\ notice[i].listed => notice'[i].listed
    BY <1>3, BellIs
  <2>3. Gains(notice, notice')
    <3>1. \A i \in 1 .. Len(notice) : notice[i].sent \in Nat
      BY <1>0 DEF NoticeRow
    <3>. QED BY <2>2, <3>1 DEF Gains, RowsStay
  <2>4. \A i \in 1 .. Len(notice) : i <= bell => Gathered(notice', i)
    BY <2>2 DEF Gathered, RowsStay
  <2>. QED BY <2>1, <2>2, <2>3, <2>4, LostKept
<1>4. ASSUME NEW n \in Node, bellPage(n) PROVE LostInv'
  BY <1>4, <1>a, LostKept DEF bellPage
<1>5. ASSUME NEW n \in Node, SendNotices(n) PROVE LostInv'
  <2>. DEFINE list == PendingEmail(Copy(n), now - Quiet)
  <2>1. PICK p \in PassRow : /\ pass' = [pass EXCEPT ![n] = p] /\ p.kind = "notices" /\ p.phase = "send"
                             /\ p.list = list /\ p.upTo \in list /\ \A i \in list : i <= p.upTo
    BY <1>5, SendPass
  <2>2. /\ RowsStay /\ list \subseteq 1 .. Len(notice)
        /\ \A i \in 1 .. Len(notice) :
              /\ notice'[i].read = notice[i].read /\ notice'[i].listed = notice[i].listed
              /\ notice'[i].emailed = notice[i].emailed /\ notice'[i].sent = notice[i].sent
    BY <1>5, SendIs
  <2>3. Gains(notice, notice')
    <3>1. \A i \in 1 .. Len(notice) : notice[i].sent \in Nat
      BY <1>0 DEF NoticeRow
    <3>. QED BY <2>2, <3>1 DEF Gains, RowsStay
  <2>4. Covers(notice, p)
    <3>1. p.upTo \in 1 .. Len(notice) /\ 1 .. p.upTo \subseteq 1 .. Len(notice)
      BY <1>0, <2>1, <2>2
    <3>2. ASSUME NEW i \in 1 .. p.upTo
          PROVE  i \in list \/ notice[i].read \/ notice[i].emailed \/ notice[p.upTo].at < notice[i].at
      <4>1. now - Quiet \in Int /\ notice[i].at \in Int /\ notice[p.upTo].at \in Int
        <5>1. now \in Nat /\ Quiet \in Nat
          BY MailAssumption DEF MailTyped
        <5>2. i \in 1 .. Len(notice)
          BY <3>1
        <5>3. notice[i].at \in Int /\ notice[p.upTo].at \in Int
          BY <1>0, <3>1, <5>2 DEF NoticeRow
        <5>. QED BY <5>1, <5>3
      <4>2. notice[p.upTo].at <= now - Quiet
        BY <2>1, ListIs
      <4>3. i \in list \/ notice[i].read \/ notice[i].emailed \/ ~(notice[i].at <= now - Quiet)
        <5>1. list \subseteq 1 .. Copy(n).size /\ Copy(n).size \in 0 .. Len(notice)
          BY ListIs
        <5>2. i \in 1 .. Copy(n).size
          BY <1>0, <2>1, <5>1
        <5>. QED BY <5>2, ListIs
      <4>. QED BY <4>1, <4>2, <4>3
    <3>. HIDE DEF list
    <3>. QED BY <2>1, <2>2, <3>2 DEF Covers
  <2>5. Covers(notice', p)
    BY <1>0, <2>3, <2>4, CoversStill
  <2>6. \A m \in Node : pass'[m] = pass[m] \/ Covers(notice', pass'[m])
    BY <1>0, <2>1, <2>5 DEF MailTyped
  <2>. QED BY <2>2, <2>3, <2>6, LostKept
<1>6. ASSUME NEW n \in Node, SendDigests(n) PROVE LostInv'
  <2>1. PICK p \in PassRow : pass' = [pass EXCEPT ![n] = p] /\ p.kind = "digest"
    BY <1>6, DigestsPass
  <2>2. \A m \in Node : pass'[m] = pass[m] \/ pass'[m].kind # "notices"
    BY <2>1 DEF MailTyped
  <2>3. notice' = notice
    BY <1>6 DEF SendDigests
  <2>. QED BY <1>a, <2>2, <2>3, LostKept
<1>7. ASSUME NEW n \in Node, Sent(n) PROVE LostInv'
  <2>. DEFINE p == [pass[n] EXCEPT !.phase = "mark"]
  <2>1. /\ pass' = [pass EXCEPT ![n] = p] /\ p.kind = pass[n].kind
        /\ p.list = pass[n].list /\ p.upTo = pass[n].upTo /\ pass[n].phase = "send"
    BY <1>7, SentPass
  <2>. HIDE DEF p
  <2>2. /\ RowsStay
        /\ \A i \in 1 .. Len(notice) :
              /\ notice'[i].read = notice[i].read /\ notice'[i].listed = notice[i].listed
              /\ notice'[i].emailed = notice[i].emailed
              /\ notice'[i].sent = notice[i].sent + (IF i \in Holds(n) THEN 1 ELSE 0)
    BY <1>7, SentIs
  <2>3. \A i \in 1 .. Len(notice) : /\ notice[i].sent \in Nat /\ notice'[i].sent >= notice[i].sent
                                    /\ notice'[i].sent \in Nat
                                    /\ i \in pass[n].list => notice'[i].sent > 0
    BY <1>0, <2>2 DEF NoticeRow, Holds
  <2>4. Gains(notice, notice')
    BY <2>2, <2>3 DEF Gains, RowsStay
  <2>5. ASSUME p.kind = "notices" PROVE Covers(notice', p)
    <3>1. Covers(notice', pass[n])
      BY <1>0, <2>1, <2>4, <2>5, CoversStill DEF LostInv
    <3>2. \A i \in p.list : notice'[i].sent > 0
      BY <2>1, <2>2, <2>3, <3>1 DEF Covers, RowsStay
    <3>. QED BY <2>1, <3>1, <3>2 DEF Covers
  <2>6. \A m \in Node : pass'[m] = pass[m] \/ (pass'[m].kind = "notices" => Covers(notice', pass'[m]))
    BY <2>1, <2>5 DEF MailTyped
  <2>. QED BY <2>2, <2>4, <2>6, LostKept
<1>8. ASSUME NEW n \in Node, pass' = [pass EXCEPT ![n] = NoPass]
      PROVE  \A m \in Node : pass'[m] = pass[m] \/ pass'[m].kind # "notices"
  BY <1>8, NoPassIs DEF MailTyped
<1>9. ASSUME NEW n \in Node, NotSent(n) PROVE LostInv'
  <2>1. notice' = notice /\ pass' = [pass EXCEPT ![n] = NoPass]
    BY <1>9 DEF NotSent
  <2>. QED BY <1>8, <1>a, <2>1, LostKept
<1>10. ASSUME NEW n \in Node, Mark(n) PROVE LostInv'
  <2>1. pass' = [pass EXCEPT ![n] = NoPass] /\ pass[n].phase = "mark"
    BY <1>10 DEF Mark
  <2>2. /\ RowsStay
        /\ \A i \in 1 .. Len(notice) :
              /\ notice'[i].read = notice[i].read /\ notice'[i].listed = notice[i].listed
              /\ notice'[i].sent = notice[i].sent
              /\ notice'[i].emailed <=> notice[i].emailed \/ (pass[n].kind = "notices" /\ i <= pass[n].upTo)
    BY <1>10, MarkIs
  <2>3. Gains(notice, notice')
    <3>1. \A i \in 1 .. Len(notice) : notice[i].sent \in Nat
      BY <1>0 DEF NoticeRow
    <3>. QED BY <2>2, <3>1 DEF Gains, RowsStay
  <2>4. ASSUME NEW i \in 1 .. Len(notice), pass[n].kind = "notices", i <= pass[n].upTo
        PROVE  notice[i].emailed \/ notice[i].sent > 0 \/ notice[i].read \/ Left(notice, i)
    <3>1. Covers(notice, pass[n])
      BY <2>4 DEF LostInv
    <3>2. pass[n].upTo \in 1 .. Len(notice) /\ i \in 1 .. pass[n].upTo
      BY <1>0, <2>4, <3>1 DEF Covers
    <3>3. CASE i \in pass[n].list
      BY <2>1, <3>1, <3>3 DEF Covers
    <3>4. CASE i \notin pass[n].list /\ notice[pass[n].upTo].at < notice[i].at
      <4>1. i # pass[n].upTo
        BY <3>1, <3>4 DEF Covers
      <4>. QED BY <1>0, <3>2, <3>4, <4>1 DEF Left
    <3>. QED BY <3>1, <3>2, <3>3, <3>4 DEF Covers
  <2>. QED BY <1>8, <2>1, <2>2, <2>3, <2>4, LostKept
<1>11. ASSUME NEW n \in Node, Crash(n) PROVE LostInv'
  <2>1. pass' = [pass EXCEPT ![n] = NoPass]
    BY <1>11 DEF Crash
  <2>2. /\ RowsStay
        /\ \A i \in 1 .. Len(notice) :
              /\ notice'[i].read = notice[i].read /\ notice'[i].listed = notice[i].listed
              /\ notice'[i].emailed = notice[i].emailed /\ notice'[i].sent = notice[i].sent
    BY <1>11, CrashIs
  <2>3. Gains(notice, notice')
    <3>1. \A i \in 1 .. Len(notice) : notice[i].sent \in Nat
      BY <1>0 DEF NoticeRow
    <3>. QED BY <2>2, <3>1 DEF Gains, RowsStay
  <2>. QED BY <1>8, <2>1, <2>2, <2>3, LostKept
<1>. QED BY <1>1, <1>2, <1>3, <1>4, <1>5, <1>6, <1>7, <1>9, <1>10, <1>11, MailSteps

(* Not excused: a row is in one pass at most; it isn't sent before that *)
(* pass sends it, and marked by it after.                                  *)
Once(row, ps, i) ==
    /\ row.sent <= 1
    /\ row.sent > 0 => row.emailed \/ \E n \in Node : ps[n].phase = "mark" /\ i \in ps[n].list
    /\ \A n, m \in Node : i \in ps[n].list /\ i \in ps[m].list => n = m
    /\ \A n \in Node : ps[n].phase = "send" /\ i \in ps[n].list => row.sent = 0
Excused(row) == row.spare \/ row.behind
OnceInv == \A i \in 1 .. Len(notice) : Excused(notice[i]) \/ Once(notice[i], pass, i)

LEMMA ListsAre ==
  ASSUME MailTyped, LostInv, NEW n \in Node
  PROVE  pass[n].list \subseteq 1 .. Len(notice)
BY DEF MailTyped, LostInv, Covers

LEMMA OnceStill ==
  ASSUME NEW row, NEW row2, NEW ps, NEW ps2, NEW i, Once(row, ps, i),
         row2.sent = row.sent, row.emailed => row2.emailed,
         \A m \in Node : i \in ps2[m].list => ps2[m] = ps[m],
         \A m \in Node : i \in ps[m].list /\ ps[m].phase = "mark" => ps2[m] = ps[m] \/ row2.emailed
  PROVE  Once(row2, ps2, i)
<1>1. row2.sent > 0 => row2.emailed \/ \E n \in Node : ps2[n].phase = "mark" /\ i \in ps2[n].list
  BY DEF Once
<1>2. \A n, m \in Node : i \in ps2[n].list /\ i \in ps2[m].list => n = m
  BY DEF Once
<1>3. \A n \in Node : ps2[n].phase = "send" /\ i \in ps2[n].list => row2.sent = 0
  BY DEF Once
<1>. QED BY <1>1, <1>2, <1>3 DEF Once

LEMMA OnceStep == MailTyped /\ CopiesInv /\ LostInv /\ OnceInv /\ [Next]_vars => OnceInv'
<1>. SUFFICES ASSUME MailTyped, CopiesInv, LostInv, OnceInv, [Next]_vars PROVE OnceInv'
  OBVIOUS
<1>0. /\ Len(notice) \in Nat /\ \A i \in 1 .. Len(notice) : notice[i] \in NoticeRow /\ notice[i].sent \in Nat
      /\ \A n \in Node : pass[n] \in PassRow
  BY RowsAre DEF MailTyped, NoticeRow
<1>1. CASE UNCHANGED <<notice, pass>>
  BY <1>1 DEF OnceInv, Excused
<1>2. CASE Comment
  <2>1. pass' = pass
    BY <1>2 DEF Comment
  <2>2. CASE notice' # notice
    <3>1. /\ Len(notice') = Len(notice) + 1 /\ \A i \in 1 .. Len(notice) : notice'[i] = notice[i]
          /\ notice'[Len(notice')].sent = 0
      BY <1>2, <2>2, CommentIs
    <3>2. \A n \in Node : Len(notice') \notin pass[n].list
      BY <1>0, <3>1, ListsAre
    <3>3. Once(notice'[Len(notice')], pass, Len(notice'))
      BY <3>1, <3>2 DEF Once
    <3>4. \A i \in 1 .. Len(notice') : i \in 1 .. Len(notice) \/ i = Len(notice')
      BY <1>0, <3>1
    <3>. QED BY <2>1, <3>1, <3>3, <3>4 DEF OnceInv, Excused
  <2>. QED BY <1>1, <2>1, <2>2
<1>3. CASE bellShown
  <2>1. pass' = pass
    BY <1>3 DEF bellShown
  <2>2. /\ Len(notice') = Len(notice)
        /\ \A i \in 1 .. Len(notice) :
              /\ notice'[i].emailed = notice[i].emailed /\ notice'[i].sent = notice[i].sent
              /\ notice'[i].spare = notice[i].spare
              /\ notice'[i].behind = notice[i].behind
    BY <1>3, BellIs DEF RowsStay
  <2>. QED BY <2>1, <2>2 DEF OnceInv, Excused, Once
<1>4. ASSUME NEW n \in Node, SendNotices(n) PROVE OnceInv'
  <2>. DEFINE list == PendingEmail(Copy(n), now - Quiet)
  <2>1. PICK p : pass' = [pass EXCEPT ![n] = p] /\ p.phase = "send" /\ p.list = list
    BY <1>4, SendPass
  <2>2. /\ pass[n].kind = "none" /\ Len(notice') = Len(notice)
        /\ \A i \in 1 .. Len(notice) :
              /\ notice'[i].emailed = notice[i].emailed /\ notice'[i].sent = notice[i].sent
              /\ notice[i].spare => notice'[i].spare
              /\ notice[i].behind => notice'[i].behind
              /\ i \in list /\ (\E m \in Node \ {n} : i \in pass[m].list) => notice'[i].spare
              /\ i \in list /\ notice[i].emailed => notice'[i].behind
    BY <1>4, SendIs DEF RowsStay, Holds
  <2>. HIDE DEF list
  <2>4. /\ pass'[n] = p /\ \A m \in Node \ {n} : pass'[m] = pass[m]
        /\ pass[n].list = {} /\ pass[n].phase = "none"
    BY <2>1, <2>2 DEF MailTyped
  <2>5. ASSUME NEW i \in 1 .. Len(notice), ~Excused(notice'[i]) PROVE Once(notice'[i], pass', i)
    <3>1. Once(notice[i], pass, i)
      BY <2>2, <2>5 DEF OnceInv, Excused
    <3>2. CASE i \notin list
      <4>1. \A m \in Node : i \in pass'[m].list => m # n /\ pass'[m] = pass[m]
        BY <2>1, <2>4, <3>2
      <4>2. \A m \in Node : i \in pass[m].list => pass'[m] = pass[m]
        BY <2>4
      <4>. QED BY <2>2, <3>1, <4>1, <4>2 DEF Once
    <3>3. CASE i \in list
      <4>1. \A m \in Node : i \in pass'[m].list => m = n
        BY <2>2, <2>4, <2>5, <3>3 DEF Excused
      <4>2. \A m \in Node : i \notin pass[m].list
        BY <2>2, <2>4, <2>5, <3>3 DEF Excused
      <4>3. notice[i].sent = 0
        <5>1. ~notice[i].emailed
          BY <2>2, <2>5, <3>3 DEF Excused
        <5>. QED BY <1>0, <3>1, <4>2, <5>1 DEF Once
      <4>. QED BY <2>2, <4>1, <4>3 DEF Once
    <3>. QED BY <3>2, <3>3
  <2>. QED BY <2>2, <2>5 DEF OnceInv, Excused
<1>5. ASSUME NEW n \in Node, SendDigests(n) PROVE OnceInv'
  <2>1. PICK p \in PassRow : pass' = [pass EXCEPT ![n] = p] /\ p.list = {}
    BY <1>5, DigestsPass
  <2>2. notice' = notice /\ pass[n] = NoPass
    BY <1>5 DEF SendDigests
  <2>3. /\ pass'[n] = p /\ \A m \in Node \ {n} : pass'[m] = pass[m]
        /\ pass[n].list = {}
    BY <2>1, <2>2, NoPassIs DEF MailTyped
  <2>4. \A i : \A m \in Node : /\ i \in pass'[m].list => pass'[m] = pass[m]
                               /\ i \in pass[m].list => pass'[m] = pass[m]
    BY <2>1, <2>3
  <2>. QED BY <2>2, <2>4 DEF OnceInv, Excused, Once
<1>6. ASSUME NEW n \in Node, Sent(n) PROVE OnceInv'
  <2>. DEFINE p == [pass[n] EXCEPT !.phase = "mark"]
  <2>1. /\ pass' = [pass EXCEPT ![n] = p] /\ p.list = pass[n].list /\ p.phase = "mark" /\ pass[n].phase = "send"
    BY <1>6, SentPass
  <2>. HIDE DEF p
  <2>2. /\ Len(notice') = Len(notice)
        /\ \A i \in 1 .. Len(notice) :
              /\ notice'[i].emailed = notice[i].emailed /\ notice'[i].spare = notice[i].spare
              /\ notice'[i].behind = notice[i].behind
              /\ notice'[i].sent = notice[i].sent + (IF i \in pass[n].list THEN 1 ELSE 0)
    BY <1>6, SentIs DEF RowsStay, Holds
  <2>3. pass'[n] = p /\ \A m \in Node \ {n} : pass'[m] = pass[m]
    BY <2>1 DEF MailTyped
  <2>4. ASSUME NEW i \in 1 .. Len(notice), ~Excused(notice'[i]) PROVE Once(notice'[i], pass', i)
    <3>1. Once(notice[i], pass, i)
      BY <2>2, <2>4 DEF OnceInv, Excused
    <3>2. \A m \in Node : pass'[m].list = pass[m].list
      BY <2>1, <2>3
    <3>3. CASE i \in pass[n].list
      <4>1. notice'[i].sent = 1
        BY <2>1, <2>2, <3>1, <3>3 DEF Once
      <4>2. \A m \in Node : i \in pass'[m].list => m = n
        BY <3>1, <3>2, <3>3 DEF Once
      <4>. QED BY <2>1, <2>3, <3>2, <3>3, <4>1, <4>2 DEF Once
    <3>4. CASE i \notin pass[n].list
      <4>1. notice'[i].sent = notice[i].sent
        BY <1>0, <2>2, <3>4
      <4>2. \A m \in Node : /\ i \in pass'[m].list => pass'[m] = pass[m]
                            /\ i \in pass[m].list => pass'[m] = pass[m]
        BY <2>3, <3>2, <3>4
      <4>. QED BY <2>2, <3>1, <4>1, <4>2 DEF Once
    <3>. QED BY <3>3, <3>4
  <2>. QED BY <2>2, <2>4 DEF OnceInv, Excused
<1>7. ASSUME NEW n \in Node, pass' = [pass EXCEPT ![n] = NoPass]
      PROVE  /\ pass'[n].list = {} /\ \A m \in Node \ {n} : pass'[m] = pass[m]
             /\ \A i : \A m \in Node : i \in pass'[m].list => pass'[m] = pass[m]
  BY <1>7, NoPassIs DEF MailTyped
<1>8. ASSUME NEW n \in Node, NotSent(n) PROVE OnceInv'
  <2>1. notice' = notice /\ pass' = [pass EXCEPT ![n] = NoPass] /\ pass[n].phase = "send"
    BY <1>8 DEF NotSent
  <2>2. \A i : \A m \in Node : i \in pass[m].list /\ pass[m].phase = "mark" => pass'[m] = pass[m]
    BY <1>7, <2>1
  <2>3. ASSUME NEW i \in 1 .. Len(notice), ~Excused(notice[i]) PROVE Once(notice[i], pass', i)
    <3>1. \A m \in Node : i \in pass'[m].list => pass'[m] = pass[m]
      BY <1>7, <2>1
    <3>2. \A m \in Node : i \in pass[m].list /\ pass[m].phase = "mark" => pass'[m] = pass[m]
      BY <2>2
    <3>3. Once(notice[i], pass, i)
      BY <2>3 DEF OnceInv, Excused
    <3>. QED BY <3>1, <3>2, <3>3, OnceStill
  <2>. QED BY <2>1, <2>3 DEF OnceInv, Excused
<1>9. ASSUME NEW n \in Node, Mark(n) PROVE OnceInv'
  <2>1. pass' = [pass EXCEPT ![n] = NoPass]
    BY <1>9 DEF Mark
  <2>2. /\ Len(notice') = Len(notice)
        /\ \A i \in 1 .. Len(notice) :
              /\ notice'[i].sent = notice[i].sent /\ notice'[i].spare = notice[i].spare
              /\ notice'[i].behind = notice[i].behind
              /\ notice[i].emailed => notice'[i].emailed
              /\ i \in pass[n].list => notice'[i].emailed
    <3>1. \A i \in pass[n].list : pass[n].kind = "notices" /\ i <= pass[n].upTo
      BY DEF MailTyped, LostInv, Covers
    <3>. QED BY <1>9, <3>1, MarkIs DEF RowsStay
  <2>3. ASSUME NEW i \in 1 .. Len(notice), ~Excused(notice'[i]) PROVE Once(notice'[i], pass', i)
    <3>1. Once(notice[i], pass, i)
      BY <2>2, <2>3 DEF OnceInv, Excused
    <3>2. \A m \in Node : i \in pass[m].list => pass'[m] = pass[m] \/ notice'[i].emailed
      BY <1>7, <2>1, <2>2
    <3>3. \A m \in Node : i \in pass'[m].list => pass'[m] = pass[m]
      BY <1>7, <2>1
    <3>. QED BY <2>2, <3>1, <3>2, <3>3, OnceStill
  <2>. QED BY <2>2, <2>3 DEF OnceInv, Excused
<1>10. ASSUME NEW n \in Node, Crash(n) PROVE OnceInv'
  <2>1. pass' = [pass EXCEPT ![n] = NoPass]
    BY <1>10 DEF Crash
  <2>2. /\ Len(notice') = Len(notice)
        /\ \A i \in 1 .. Len(notice) :
              /\ notice'[i].emailed = notice[i].emailed /\ notice'[i].sent = notice[i].sent
              /\ notice[i].spare => notice'[i].spare
              /\ notice[i].behind => notice'[i].behind
              /\ i \in pass[n].list /\ pass[n].phase = "mark" => notice'[i].spare
    BY <1>10, CrashIs DEF RowsStay, Holds
  <2>3. ASSUME NEW i \in 1 .. Len(notice), ~Excused(notice'[i]) PROVE Once(notice'[i], pass', i)
    <3>1. Once(notice[i], pass, i)
      BY <2>2, <2>3 DEF OnceInv, Excused
    <3>2. \A m \in Node : i \in pass[m].list /\ pass[m].phase = "mark" => pass'[m] = pass[m]
      <4>1. ~(i \in pass[n].list /\ pass[n].phase = "mark")
        BY <2>2, <2>3 DEF Excused
      <4>. QED BY <1>7, <2>1, <4>1
    <3>3. \A m \in Node : i \in pass'[m].list => pass'[m] = pass[m]
      BY <1>7, <2>1
    <3>. QED BY <2>2, <3>1, <3>2, <3>3, OnceStill
  <2>. QED BY <2>2, <2>3 DEF OnceInv, Excused
<1>11. Elsewhere \/ (\E n \in Node : bellPage(n)) => UNCHANGED <<notice, pass>>
  BY DEF Elsewhere, bellPage
<1>. QED BY <1>1, <1>2, <1>3, <1>4, <1>5, <1>6, <1>8, <1>9, <1>10, <1>11, MailSteps

(* Nobody excused: there is one pass at most about the group's day, and it *)
(* began DigestGap after the last that was sent.                           *)
DigestInv ==
    /\ ~digest.soon /\ digest.marked <= now
    /\ \A n \in Node : pass[n].kind = "digest" => pass[n].at <= now
    /\ digest.spare \/
        /\ \A n, m \in Node : pass[n].kind = "digest" /\ pass[m].kind = "digest" => n = m
        /\ (\A n \in Node : ~(pass[n].kind = "digest" /\ pass[n].phase = "mark")) => digest.sent <= digest.marked
        /\ \A n \in Node : pass[n].kind = "digest" =>
              /\ digest.sent <= pass[n].at
              /\ pass[n].phase = "send" /\ ~pass[n].stale => pass[n].at - digest.marked >= DigestGap

LEMMA DigestStep == MailTyped /\ CopiesInv /\ DigestInv /\ [Next]_vars => DigestInv'
<1>. SUFFICES ASSUME MailTyped, CopiesInv, DigestInv, [Next]_vars PROVE DigestInv'
  OBVIOUS
<1>. DEFINE Same(m) == pass'[m] = pass[m] \/ (pass[m].kind # "digest" /\ pass'[m].kind # "digest")
<1>0. /\ digest.marked \in Int /\ digest.sent \in Int /\ digest.soon \in BOOLEAN /\ digest.spare \in BOOLEAN
      /\ \A n \in Node : pass[n] \in PassRow /\ pass[n].at \in Int
      /\ now \in Int /\ DigestGap \in Nat
  BY MailAssumption DEF MailTyped, PassRow
<1>a. now' \in Int /\ now' >= now
  BY <1>0, MailSteps DEF Elsewhere
<1>b. /\ digest.marked <= now' /\ \A m \in Node : pass[m].kind = "digest" => pass[m].at <= now'
      /\ \A m \in Node : Same(m) /\ pass'[m].kind = "digest" => pass'[m].at <= now'
  BY <1>0, <1>a DEF DigestInv
<1>1. ASSUME digest' = digest, \A m \in Node : Same(m) PROVE DigestInv'
  BY <1>1, <1>b DEF DigestInv
<1>2. CASE Elsewhere \/ Comment \/ bellShown \/ \E n \in Node : bellPage(n)
  <2>1. UNCHANGED <<pass, digest>>
    BY <1>2 DEF Elsewhere, Comment, bellShown, bellPage
  <2>. QED BY <1>1, <2>1
<1>3. ASSUME NEW n \in Node, SendNotices(n) PROVE DigestInv'
  <2>1. digest' = digest /\ pass[n] = NoPass
    BY <1>3 DEF SendNotices
  <2>2. PICK p : pass' = [pass EXCEPT ![n] = p] /\ p.kind = "notices"
    BY <1>3, SendPass
  <2>3. \A m \in Node : Same(m)
    BY <2>1, <2>2, NoPassIs DEF MailTyped
  <2>. QED BY <1>1, <2>1, <2>3
<1>4. ASSUME NEW n \in Node, SendDigests(n) PROVE DigestInv'
  <2>0. pass[n] = NoPass /\ now - Copy(n).marked >= DigestGap /\ now' = now
    BY <1>4 DEF SendDigests, accountsVars
  <2>1. PICK p : /\ pass' = [pass EXCEPT ![n] = p] /\ p.kind = "digest" /\ p.phase \in {"send", "mark"}
                 /\ p.at = now /\ (p.stale \/ Copy(n).marked = digest.marked)
    BY <1>4, DigestsPass
  <2>2. p.stale \/ p.at - digest.marked >= DigestGap
    BY <2>0, <2>1
  <2>3. /\ digest'.marked = digest.marked /\ digest'.sent = digest.sent /\ digest'.soon = digest.soon
        /\ digest'.spare <=> digest.spare \/ \E m \in Node \ {n} : pass[m].kind = "digest"
    <3>. DEFINE s == digest.spare \/ \E m \in Node \ {n} : pass[m].kind = "digest"
    <3>1. digest' = [digest EXCEPT !.spare = s]
      BY <1>4 DEF SendDigests
    <3>. HIDE DEF s
    <3>2. /\ digest'.marked = digest.marked /\ digest'.sent = digest.sent /\ digest'.soon = digest.soon
          /\ digest'.spare = s
      BY <3>1 DEF MailTyped
    <3>. QED BY <3>2 DEF s
  <2>4. pass'[n] = p /\ \A m \in Node \ {n} : pass'[m] = pass[m]
    BY <2>1 DEF MailTyped
  <2>5. /\ ~digest'.soon /\ digest'.marked <= now'
        /\ \A m \in Node : pass'[m].kind = "digest" => pass'[m].at <= now'
    <3>1. p.at <= now'
      BY <1>0, <2>0, <2>1
    <3>. QED BY <1>b, <2>3, <2>4, <3>1 DEF DigestInv
  <2>6. ASSUME ~digest'.spare
        PROVE  /\ \A m, k \in Node : pass'[m].kind = "digest" /\ pass'[k].kind = "digest" => m = k
               /\ (\A m \in Node : ~(pass'[m].kind = "digest" /\ pass'[m].phase = "mark"))
                    => digest'.sent <= digest'.marked
               /\ \A m \in Node : pass'[m].kind = "digest" =>
                     /\ digest'.sent <= pass'[m].at
                     /\ pass'[m].phase = "send" /\ ~pass'[m].stale
                          => pass'[m].at - digest'.marked >= DigestGap
    <3>1. ~digest.spare /\ \A m \in Node : pass[m].kind # "digest"
      BY <2>0, <2>3, <2>6, NoPassIs
    <3>2. digest.sent <= digest.marked
      BY <3>1 DEF DigestInv
    <3>3. \A m \in Node : pass'[m].kind = "digest" => m = n /\ pass'[m] = p
      BY <2>4, <3>1
    <3>4. digest.sent <= p.at
      BY <1>0, <2>1, <3>2 DEF DigestInv
    <3>. QED BY <2>2, <2>3, <3>2, <3>3, <3>4
  <2>. QED BY <2>5, <2>6 DEF DigestInv
<1>5. ASSUME NEW n \in Node, Sent(n) PROVE DigestInv'
  <2>. DEFINE p == [pass[n] EXCEPT !.phase = "mark"]
  <2>1. /\ pass' = [pass EXCEPT ![n] = p] /\ p.kind = pass[n].kind /\ p.phase = "mark" /\ p.at = pass[n].at
        /\ pass[n].phase = "send" /\ p.kind # "none" /\ p \in PassRow
    BY <1>5, SentPass
  <2>. HIDE DEF p
  <2>5. now' = now
    BY <1>5 DEF Sent, accountsVars
  <2>2. pass'[n] = p /\ \A m \in Node \ {n} : pass'[m] = pass[m]
    BY <2>1 DEF MailTyped
  <2>3. CASE pass[n].kind = "notices"
    <3>1. digest' = digest
      BY <1>5, <2>3 DEF Sent
    <3>2. \A m \in Node : Same(m)
      BY <2>1, <2>2, <2>3
    <3>. QED BY <1>1, <3>1, <3>2
  <2>4. CASE pass[n].kind = "digest"
    <3>. DEFINE s == digest.soon \/ (/\ pass[n].at - digest.sent < DigestGap
                                     /\ ~digest.spare /\ ~pass[n].stale)
    <3>1. digest' = [digest EXCEPT !.sent = pass[n].at, !.soon = s]
      BY <1>5, <2>4 DEF Sent
    <3>2. ~s
      <4>. SUFFICES ASSUME ~digest.spare, ~pass[n].stale PROVE ~(pass[n].at - digest.sent < DigestGap)
        BY DEF DigestInv
      <4>1. \A m \in Node : ~(pass[m].kind = "digest" /\ pass[m].phase = "mark")
        BY <2>1, <2>4 DEF DigestInv
      <4>2. digest.sent <= digest.marked /\ pass[n].at - digest.marked >= DigestGap
        BY <2>1, <2>4, <4>1 DEF DigestInv
      <4>. QED BY <1>0, <4>2
    <3>. HIDE DEF s
    <3>3. /\ digest'.marked = digest.marked /\ digest'.sent = pass[n].at /\ digest'.soon = s
          /\ digest'.spare = digest.spare
      BY <3>1 DEF MailTyped
    <3>4. ASSUME ~digest.spare
          PROVE  /\ \A m, k \in Node : pass'[m].kind = "digest" /\ pass'[k].kind = "digest" => m = k
                 /\ \A m \in Node : pass'[m].kind = "digest" => m = n
      BY <2>1, <2>2, <2>4, <3>4 DEF DigestInv
    <3>5. pass'[n].kind = "digest" /\ pass'[n].phase = "mark" /\ pass'[n].at = pass[n].at
      BY <2>1, <2>2, <2>4
    <3>6. /\ digest'.marked <= now'
          /\ \A m \in Node : pass'[m].kind = "digest" => pass'[m].at <= now'
      BY <1>b, <2>2, <2>4, <3>3, <3>5
    <3>. QED BY <1>0, <3>2, <3>3, <3>4, <3>5, <3>6 DEF DigestInv
  <2>. QED BY <1>0, <2>1, <2>3, <2>4 DEF PassRow
<1>6. ASSUME NEW n \in Node, pass' = [pass EXCEPT ![n] = NoPass]
      PROVE  /\ pass'[n].kind = "none" /\ \A m \in Node \ {n} : pass'[m] = pass[m]
             /\ pass[n].kind # "digest" => \A m \in Node : Same(m)
  BY <1>6, NoPassIs DEF MailTyped
<1>7. ASSUME NEW n \in Node, pass' = [pass EXCEPT ![n] = NoPass], pass[n].kind = "digest",
             digest'.soon = digest.soon, digest'.sent = digest.sent,
             digest.spare => digest'.spare, digest'.marked \in {digest.marked, pass[n].at},
             digest'.spare \/ digest.spare \/ (digest'.marked = digest.marked /\ pass[n].phase = "send")
               \/ digest'.marked = pass[n].at
      PROVE  DigestInv'
  <2>1. /\ ~digest'.soon /\ digest'.marked <= now'
        /\ \A m \in Node : pass'[m].kind = "digest" => pass'[m].at <= now'
    BY <1>b, <1>6, <1>7 DEF DigestInv
  <2>2. ASSUME ~digest'.spare
        PROVE  /\ \A m \in Node : pass'[m].kind # "digest"
               /\ digest'.sent <= digest'.marked
    <3>1. ~digest.spare
      BY <1>7, <2>2
    <3>2. \A m \in Node \ {n} : pass[m].kind # "digest"
      BY <1>7, <3>1 DEF DigestInv
    <3>3. digest.sent <= pass[n].at
      BY <1>7, <3>1 DEF DigestInv
    <3>4. pass[n].phase = "send" => digest.sent <= digest.marked
      BY <3>1, <3>2 DEF DigestInv
    <3>5. pass'[n].kind = "none" /\ \A m \in Node \ {n} : pass'[m] = pass[m]
      BY <1>6, <1>7
    <3>6. \A m \in Node : pass'[m].kind # "digest"
      BY <3>2, <3>5
    <3>7. digest'.sent <= digest'.marked
      BY <1>7, <2>2, <3>1, <3>3, <3>4
    <3>. QED BY <3>6, <3>7
  <2>. QED BY <2>1, <2>2 DEF DigestInv
<1>8. ASSUME NEW n \in Node, NotSent(n) PROVE DigestInv'
  <2>1. digest' = digest /\ pass' = [pass EXCEPT ![n] = NoPass] /\ pass[n].phase = "send"
    BY <1>8 DEF NotSent
  <2>. QED BY <1>1, <1>6, <1>7, <2>1
<1>9. ASSUME NEW n \in Node, Mark(n) PROVE DigestInv'
  <2>1. pass' = [pass EXCEPT ![n] = NoPass] /\ pass[n].phase = "mark"
    BY <1>9 DEF Mark
  <2>2. CASE pass[n].kind = "digest"
    <3>1. digest' = [digest EXCEPT !.marked = pass[n].at]
      BY <1>9, <2>2 DEF Mark
    <3>2. /\ digest'.soon = digest.soon /\ digest'.sent = digest.sent /\ digest'.spare = digest.spare
          /\ digest'.marked = pass[n].at
      BY <3>1 DEF MailTyped
    <3>. QED BY <1>7, <2>1, <2>2, <3>2
  <2>3. CASE pass[n].kind = "notices"
    BY <1>1, <1>6, <1>9, <2>1, <2>3 DEF Mark
  <2>. QED BY <1>0, <2>1, <2>2, <2>3 DEF PassRow, MailTyped
<1>10. ASSUME NEW n \in Node, Crash(n) PROVE DigestInv'
  <2>. DEFINE s == digest.spare \/ (pass[n].kind = "digest" /\ pass[n].phase = "mark")
  <2>1. pass' = [pass EXCEPT ![n] = NoPass] /\ digest' = [digest EXCEPT !.spare = s] /\ pass[n] # NoPass
    BY <1>10 DEF Crash
  <2>. HIDE DEF s
  <2>2. /\ digest'.soon = digest.soon /\ digest'.sent = digest.sent /\ digest'.marked = digest.marked
        /\ digest'.spare = s
    BY <2>1 DEF MailTyped
  <2>3. CASE pass[n].kind = "digest"
    <3>1. pass[n].phase \in {"send", "mark"}
      BY <1>0, <2>3 DEF MailTyped, PassRow
    <3>2. digest'.spare \/ pass[n].phase = "send"
      BY <2>2, <2>3, <3>1 DEF s
    <3>3. digest.spare => digest'.spare
      BY <2>2 DEF s
    <3>. QED BY <1>7, <2>1, <2>2, <2>3, <3>2, <3>3
  <2>4. CASE pass[n].kind # "digest"
    <3>1. s <=> digest.spare
      BY <2>4 DEF s
    <3>2. \A m \in Node : Same(m)
      BY <1>6, <2>1, <2>4
    <3>3. s = digest.spare
      <4>1. s \in BOOLEAN /\ digest.spare \in BOOLEAN
        BY <1>0 DEF s
      <4>. QED BY <3>1, <4>1
    <3>4. digest' = digest
      BY <2>1, <3>3 DEF MailTyped
    <3>. QED BY <1>1, <3>2, <3>4
  <2>. QED BY <2>3, <2>4
<1>. QED BY <1>2, <1>3, <1>4, <1>5, <1>8, <1>9, <1>10, MailSteps

(* The inductive invariant of the email.                                   *)
MailInv == MailTyped /\ CopiesInv /\ LostInv /\ OnceInv /\ DigestInv

(* Whoever leads, and whichever passes are under way, fail or are cut off: *)
(* the passes hold what is still to be told, one of them each.             *)
THEOREM MailIsInvariant == Spec => []MailInv
<1>1. Init => MailInv
  <2>. SUFFICES ASSUME Init PROVE MailInv
    OBVIOUS
  <2>1. notice = <<>> /\ pass = [n \in Node |-> NoPass]
        /\ digest = [marked |-> -DigestGap, sent |-> -DigestGap, soon |-> FALSE, spare |-> FALSE]
        /\ now = 0
    BY DEF Init, AccountsInit
  <2>2. MailTyped /\ CopiesInv
    BY InitMail, InitCopies
  <2>3. 1 .. Len(notice) = {} /\ \A n \in Node : pass[n].kind = "none"
    BY <2>1, NoPassIs
  <2>4. LostInv /\ OnceInv
    BY <2>3 DEF LostInv, OnceInv
  <2>5. DigestInv
    BY <2>1, <2>3, MailAssumption DEF DigestInv
  <2>. QED BY <2>2, <2>4, <2>5 DEF MailInv
<1>2. MailInv /\ [Next]_vars => MailInv'
  BY TypedStep, CopiesStep, LostStep, OnceStep, DigestStep DEF MailInv
<1>. QED BY <1>1, <1>2, PTL DEF Spec

(* A notification is emailed once, and digests go out DigestGap apart,     *)
(* whoever leads (SendNotices and SendDigests of web/email.go), but for    *)
(* three cases: two nodes that both took themselves for the leader held    *)
(* it, a pass could not record what it had sent, or the leader listed it   *)
(* from a copy that had not applied the record.                            *)
THEOREM EmailedOnce == Spec => []MailedOnce
<1>1. MailInv => MailedOnce
  <2>. SUFFICES ASSUME MailInv, NEW i \in DOMAIN notice, notice[i].sent > 1,
                  ~notice[i].spare, ~notice[i].behind
           PROVE FALSE
    BY DEF MailedOnce, MailInv, DigestInv
  <2>1. i \in 1 .. Len(notice) /\ notice[i].sent \in Nat
    BY RowsAre DEF MailInv, NoticeRow
  <2>2. notice[i].sent <= 1
    BY <2>1 DEF MailInv, OnceInv, Once, Excused
  <2>. QED BY <2>1, <2>2
<1>. QED BY <1>1, MailIsInvariant, PTL

(* MarkEmailed and MarkRead take everything up to the newest one of a list *)
(* that was made earlier (cmd/engage.go).  What is marked as emailed was   *)
(* sent or read, or came by a later clock than one after it; what is read  *)
(* was gathered for a page of the bell, or is older than one that was.     *)
THEOREM NoNoticeLost == Spec => []NoneLost
<1>1. MailInv => NoneLost
  <2>. SUFFICES ASSUME MailInv PROVE NoneLost
    OBVIOUS
  <2>1. DOMAIN notice = 1 .. Len(notice)
    BY RowsAre DEF MailInv
  <2>. QED BY <2>1 DEF MailInv, LostInv, NoneLost, Skipped, Left, Gathered
<1>. QED BY <1>1, MailIsInvariant, PTL
=============================================================================
