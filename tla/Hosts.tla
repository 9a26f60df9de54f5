-------------------------------- MODULE Hosts --------------------------------
(***************************************************************************)
(* Which site a host name leads to (web/hosts.go), and the commands on the *)
(* site's log that decide it (cmd/site.go, SetGroupHost of cmd/bounce.go). *)
(*                                                                         *)
(* site is every state site.db has been in, in the order of its log, and   *)
(* seen[n] how far node n has applied it: a request is answered from the   *)
(* copy of the node it reaches.  Accounts says what else is in site.db.    *)
(*                                                                         *)
(* A host is a label and a domain; a group stands for its slug, and Bare   *)
(* for no label.  Domains one inside another are left out.                 *)
(***************************************************************************)
EXTENDS Integers, Sequences, FiniteSets

CONSTANTS
    Node,
    Domain,
    Group,      \* the slugs a group may have
    Plans       \* bounds: the requests there are in a behaviour (plan.ops), at
                \* most plan.steps of them, and where it starts

ASSUME HostsAssumption == Group \subseteq Nat \ {0} /\ "none" \notin Domain

VARIABLES site, seen,
          lost,       \* bound: answers still to be lost
          plan, left
logVars == <<site, seen, lost>>
hostsVars == <<logVars, plan, left>>

Given(op) == op \in plan.ops /\ left > 0 /\ left' = left - 1 /\ UNCHANGED plan
Idle == UNCHANGED <<plan, left>>

Bare == 0
Www == -1
NoHost == <<Bare, "none">>
Host == ({Bare, Www} \cup Group) \X Domain

Db == site[Len(site)]
View(n) == site[seen[n]]

-----------------------------------------------------------------------------
(* A command is a function from site.db to what it becomes and whether the *)
(* command succeeded (a refused one leaves it as it was).  When the answer *)
(* of the node it was passed on to is lost, it may be applied again by the *)
(* next node ("twice"), or there is no next node and the page fails        *)
(* ("lost") although the command was applied.                              *)
Hows == IF lost > 0 THEN {"once", "twice", "lost"} ELSE {"once"}
Again(Command(_), db) == Command(Command(db).db)
Outcome(Command(_), how) ==
    CASE how = "once" -> Command(Db).ok
      [] how = "twice" -> Again(Command, Db).ok
      [] how = "lost" -> FALSE
Apply(n, Command(_), how) ==
    /\ site' = IF how = "twice" THEN site \o <<Command(Db).db, Again(Command, Db).db>>
               ELSE Append(site, Command(Db).db)
    /\ seen' = IF how = "lost" THEN seen ELSE [seen EXCEPT ![n] = Len(site')]
    /\ lost' = IF how = "once" THEN lost ELSE lost - 1
CatchUp(n) == /\ seen[n] < Len(site)
              /\ seen' = [seen EXCEPT ![n] = @ + 1]
              /\ UNCHANGED <<site, lost>> /\ Idle

Done(db) == [db |-> db, ok |-> TRUE]
Refused(db) == [db |-> db, ok |-> FALSE]

HostField == {"primary", "old", "alternates", "alias", "made", "main", "clash", "owned"}

(* How a behaviour begins: groups were made, some with domains of their    *)
(* own, and nothing was moved yet.                                         *)
SetUp(db) ==
    /\ HostField \subseteq DOMAIN db
    /\ db.primary \in Domain /\ db.old = {db.primary} /\ db.alternates = {} /\ db.alias = <<>> /\ ~db.clash
    /\ db.made \subseteq Group /\ db.main \in [Group -> Host \cup {NoHost}]
    /\ \A g \in Group : db.main[g] # NoHost =>
          /\ g \in db.made /\ db.main[g][2] # db.primary /\ db.main[g][2] \in db.owned
          /\ \A other \in Group \ {g} : db.main[other] # db.main[g]
ASSUME PlansAssumption == \A p \in Plans : SetUp(p.db)

-----------------------------------------------------------------------------
groupHost(db, g) == IF db.main[g] # NoHost THEN db.main[g] ELSE <<g, db.primary>>

Home == [kind |-> "home", group |-> 0, host |-> NoHost]
At(g) == [kind |-> "group", group |-> g, host |-> NoHost]
To(h) == [kind |-> "redirect", group |-> 0, host |-> h]
Unknown == [kind |-> "unknown", group |-> 0, host |-> NoHost]

Owners(db, h) == {g \in db.made : db.main[g] = h}

resolve(db, h) ==
    LET sub == h[1]  domain == h[2]
    IN CASE domain = db.primary /\ sub = Bare -> Home
         [] domain = db.primary /\ sub = Www -> To(<<Bare, db.primary>>)
         [] domain = db.primary /\ sub \in Group ->
              IF sub \notin db.made THEN Unknown
              ELSE IF db.main[sub] # NoHost THEN To(db.main[sub]) ELSE At(sub)
         [] domain # db.primary /\ Owners(db, h) # {} -> At(CHOOSE g \in Owners(db, h) : TRUE)
         [] domain # db.primary /\ Owners(db, h) = {} /\ h \in DOMAIN db.alias ->
              IF db.alias[h] = 0 THEN To(<<Bare, db.primary>>) ELSE To(groupHost(db, db.alias[h]))
         [] domain # db.primary /\ Owners(db, h) = {} /\ h \notin DOMAIN db.alias ->
              IF domain \notin db.alternates THEN Unknown
              ELSE To(<<IF sub = Www THEN Bare ELSE sub, db.primary>>)

(* A group on a domain of its own, where the primary's cookie isn't sent.  *)
ownDomain(db, route) == route.kind = "group" /\ db.main[route.group] # NoHost

-----------------------------------------------------------------------------
(* db.clash: a domain was both listed (the primary, or one that redirects  *)
(* to it) and in use as a group's own or an alias, or a host both of those.*)
(* Only some such requests are refused: what wins is resolve's order.      *)
(* db.old, db.owned: every domain that was ever the primary, or a group's. *)
Listed(db) == db.alternates \cup {db.primary}
Clashing(db) ==
    LET owned == {db.main[g] : g \in db.made}
    IN \/ \E h \in owned \cup DOMAIN db.alias : h[2] \in Listed(db)
       \/ owned \cap DOMAIN db.alias # {}
Noted(db) == [db EXCEPT !.clash = @ \/ Clashing(db),
                        !.owned = @ \cup {db.main[g][2] : g \in db.made}]

(* Mistake: only the last primary is kept as an alternate.                 *)
SetPrimaryDomainSwaps(db, d) ==
    Done(Noted([db EXCEPT !.primary = d, !.old = @ \cup {d}, !.alternates = {db.primary} \ {d}]))

SetPrimaryDomain(db, d) ==
    Done(Noted([db EXCEPT !.primary = d, !.old = @ \cup {d},
                          !.alternates = (@ \cup {db.primary}) \ {d}]))

AddAlternateDomain(db, d) ==
    IF d \in Listed(db) THEN Refused(db) ELSE Done(Noted([db EXCEPT !.alternates = @ \cup {d}]))

(* g = 0 is an alias of the home page.                                     *)
AddHostAlias(db, h, g) ==
    IF h \in DOMAIN db.alias \/ g \notin db.made \cup {0} THEN Refused(db)
    ELSE Done(Noted([db EXCEPT !.alias = [x \in DOMAIN @ \cup {h} |-> IF x = h THEN g ELSE @[x]]]))

SetGroupHost(db, g, h) ==
    IF \/ h[2] = db.primary
       \/ h # NoHost /\ \E other \in db.made \ {g} : db.main[other] = h
       \/ h[1] = Bare /\ h[2] \in Listed(db)
       \/ h \in DOMAIN db.alias
       \/ g \notin db.made
    THEN Refused(db)
    ELSE Done(Noted([db EXCEPT !.main[g] = h]))

CreateGroup(db, g) ==
    IF g \in db.made THEN Refused(db) ELSE Done([db EXCEPT !.made = @ \cup {g}])

HostsInit(d) ==
    [primary |-> d, old |-> {d}, alternates |-> {}, alias |-> <<>>,
     made |-> {}, main |-> [g \in Group |-> NoHost], clash |-> FALSE, owned |-> {"none"}]

(* The operator's commands, at any node.                                   *)
Operate(n) ==
    \/ Given("SetPrimaryDomain") /\ \E d \in Domain : Apply(n, LAMBDA db : SetPrimaryDomain(db, d), "once")
    \/ Given("AddAlternateDomain") /\ \E d \in Domain : Apply(n, LAMBDA db : AddAlternateDomain(db, d), "once")
    \/ /\ Given("AddHostAlias")
       /\ \E h \in Host, g \in Group \cup {0} : Apply(n, LAMBDA db : AddHostAlias(db, h, g), "once")
    \/ /\ Given("SetGroupHost")
       /\ \E g \in Group, h \in Host \cup {NoHost} : Apply(n, LAMBDA db : SetGroupHost(db, g, h), "once")
    \/ Given("CreateGroup") /\ \E g \in Group : Apply(n, LAMBDA db : CreateGroup(db, g), "once")

-----------------------------------------------------------------------------
(* Where a browser that follows redirects ends, after three of them: an    *)
(* alternate's, the primary's, the group's own domain.                     *)
Step(db, h) == LET r == resolve(db, h) IN IF r.kind = "redirect" THEN r.host ELSE h
Last(db, h) == Step(db, Step(db, Step(db, h)))
Follow(db, h) == resolve(db, Last(db, h))

(* Links on a domain of the site keep working: on every domain that was    *)
(* ever the primary or redirects to it, through any further change of it,  *)
(* the home page's address leads to it and a group's to the group, without *)
(* a loop, wherever the group has moved; so does the group's own domain    *)
(* while it is that, and every alias (web/hosts.go:92-94, cmd/site.go:9-12). *)
(* FormerAddressesLead is about the domains groups had of their own before. *)
OldLinksWork ==
    ~Db.clash =>
       /\ \A d \in Db.old \cup Listed(Db) :
             /\ Follow(Db, <<Bare, d>>) = Home /\ Follow(Db, <<Www, d>>) = Home
             /\ \A g \in Db.made : Follow(Db, <<g, d>>) = At(g)
       /\ \A g \in Db.made : resolve(Db, groupHost(Db, g)) = At(g)
       /\ \A h \in DOMAIN Db.alias : Follow(Db, h) = IF Db.alias[h] = 0 THEN Home ELSE At(Db.alias[h])

(* "Its old address then redirects to the new one" (cmd/bounce.go:21-22):  *)
(* an address a group ever had, which nobody else has taken since, leads   *)
(* to the group.  The code does not keep this for domains of its own.      *)
FormerAddressesLead ==
    ~Db.clash =>
       \A k \in DOMAIN site : \A g \in site[k].made :
          LET h == groupHost(site[k], g)
          IN Owners(Db, h) \subseteq {g} /\ h \notin DOMAIN Db.alias => Follow(Db, h) = At(g)
=============================================================================
