----------------------------- MODULE GroupProofs -----------------------------
(***************************************************************************)
(* Proofs about one group: where it lives, for any nodes, plans and        *)
(* writes; and who belongs to it, for any people, invites, times and       *)
(* repeats.  The two have nothing to do with each other.                   *)
(*                                                                         *)
(* Where it lives.  Whoever could be elected has every acknowledged write  *)
(* because more than half of the voters has them all, or has been taken    *)
(* off and cannot vote (Covered).  That needs to be known of every map a   *)
(* node may still follow: none puts the group where an old copy lies, or   *)
(* takes it off where it is yet to come (Followed), and none changes the   *)
(* first voters while one of them has yet to start (Fresh).  Whole is      *)
(* their conjunction.  That such a majority can be found at all is another *)
(* matter: at most one node is on its way out, and every older map that a  *)
(* member may still follow has the same voters but for it (Steady).  With  *)
(* nodes lost for good, of a group that is not moved otherwise, more than  *)
(* half of the voters are lost or have every write (Backed), and the maps  *)
(* and the log agree on who of the living votes, until someone recovers,   *)
(* and afterwards on the two that are left (Before, After).                *)
(*                                                                         *)
(* Who belongs to it.  The properties need to know what a row remembers:   *)
(* a group without settings has no rows (Unset), a ban that runs is the    *)
(* one in its row (Sentences), and a role is only ever in the row of an    *)
(* active member (RolesEarned).  IInv is their conjunction with the types, *)
(* and with OwnerStays, which is inductive once the others are.            *)
(***************************************************************************)
EXTENDS Membership, Placement, FiniteSetTheorems, TLAPS

-----------------------------------------------------------------------------
(***************************************************************************)
(* Placement: where the group lives.                                       *)
(***************************************************************************)
\* The plans of an operator who changes where the group lives and is careful.
Careful == {"place", "unplace"} \cap Ops # {} => "careful" \in Ops

MapRec == [nodes : SUBSET Node, made : BOOLEAN, voters : SUBSET Node,
           others : SUBSET Node, boot : SUBSET Node]
Past == 1..Len(maps)            \* the versions of the map
Since(n) == seen[n]..Len(maps)  \* what n's copy holds, and what it has yet to take
Ever == UNION {Hosts(maps[t]) : t \in Past}

PlaceTypes ==
    /\ plan \in Plans
    /\ maps \in Seq(MapRec) /\ maps # <<>>
    /\ seen \in [Node -> Past]
    /\ running \subseteq Node /\ shard \subseteq running
    /\ state \subseteq Node /\ boot \subseteq Node
    /\ voters \subseteq Node /\ others \subseteq Node
    /\ dead \subseteq Node /\ forked \in BOOLEAN
    /\ data = [n \in Node |-> data[n]]

\* A map puts the group on nodes it knows, among them the first voters and,
\* once the group is made, every full node.
Sound(m) ==
    /\ m.voters \cap m.others = {} /\ Hosts(m) \subseteq m.nodes /\ m.boot \subseteq Hosts(m)
    /\ IF m.made THEN FullNode \cap m.nodes \subseteq Hosts(m) ELSE Hosts(m) = {}

\* No node leaves the map, and a group that had a host keeps one.
MapsSound ==
    /\ \A t \in Past : Sound(maps[t]) /\ maps[t].nodes \subseteq Map.nodes
    /\ Hosts(Map) = {} => Ever = {}

\* The group's log is only where the map puts it or once did, and there is
\* nothing of it before it is bootstrapped.
Placed ==
    /\ shard \cup state \cup voters \cup others \cup boot \subseteq Ever
    /\ voters \cap others = {}
    /\ IF boot = {} THEN voters = {} /\ others = {} /\ state = {} /\ acked = {}
                    ELSE voters # {}

\* A node that lags behind the map has the group's state if and only if the
\* next maps it will take put it there before they take it away, or do not put
\* it there: none of them does both.
Followed ==
    \A n \in Node :
      /\ n \in shard \ state => HostedBy(n)
      /\ \A s, t \in Since(n) : s <= t =>
           IF n \in state THEN n \in Hosts(maps[t]) => n \in Hosts(maps[s])
                          ELSE n \in Hosts(maps[s]) => n \in Hosts(maps[t])

\* The voters that have every acknowledged write, and those that have been
\* taken off and have deleted their copy, which are in the way of a majority
\* until the membership follows: together they are more than half of it.
Has == {v \in voters : acked \subseteq data[v]}
Left == {v \in voters : v \notin state \cup Hosts(Map)}
Covered == voters # {} => 2 * Cardinality(Has \cup Left) > Cardinality(voters)

\* While a node the group was first put on has yet to start the log, no map
\* has changed the first voters.
Fresh ==
    /\ ~forked
    /\ \A n \in Node \ state : \A s \in Since(n) : n \in maps[s].boot =>
         /\ boot \in {{}, Map.boot}
         /\ \A t \in Past : maps[t].boot # {} =>
              maps[t].boot = Map.boot /\ Map.boot \subseteq maps[t].voters

Whole == MapsSound /\ Placed /\ Followed /\ Covered /\ Fresh
PlaceInv == Careful /\ dead = {} => Whole

-----------------------------------------------------------------------------
LEMMA MapFacts ==
    ASSUME PlaceTypes
    PROVE  /\ Len(maps) \in Nat \ {0} /\ Len(maps) \in Past
           /\ \A t \in Past : maps[t] \in MapRec
           /\ Map \in MapRec
           /\ \A n \in Node : /\ seen[n] \in Past /\ seen[n] \in Since(n) /\ Len(maps) \in Since(n)
                              /\ Since(n) \subseteq Past
                              /\ MapOf(n) \in MapRec
<1>1. Len(maps) \in Nat \ {0}
  BY DEF PlaceTypes
<1>2. \A t \in Past : maps[t] \in MapRec
  BY DEF PlaceTypes, Past
<1>3. \A n \in Node : seen[n] \in Past
  BY DEF PlaceTypes
<1> QED
  BY <1>1, <1>2, <1>3 DEF Past, Since, Map, MapOf

LEMMA FiniteNodes ==
    ASSUME NEW S \in SUBSET Node
    PROVE  IsFiniteSet(S) /\ Cardinality(S) \in Nat
BY PlacementNodes, FS_Subset, FS_CardinalityType

\* More than half of a set, and then some.
LEMMA MoreThanHalf ==
    ASSUME NEW V \in SUBSET Node, NEW T \in SUBSET V, NEW Q \in SUBSET T, Majority(Q, V)
    PROVE  2 * Cardinality(T) > Cardinality(V)
<1>1. /\ IsFiniteSet(T) /\ Cardinality(T) \in Nat /\ Cardinality(V) \in Nat
      /\ Cardinality(Q) \in Nat
  BY FiniteNodes
<1>2. Cardinality(Q) <= Cardinality(T)
  BY <1>1, FS_Subset
<1> QED
  BY <1>1, <1>2 DEF Majority

\* Two sets of more than half have a member in common.
LEMMA Overlap ==
    ASSUME NEW V \in SUBSET Node, NEW T \in SUBSET V, NEW Q \in SUBSET V, Majority(Q, V),
           2 * Cardinality(T) > Cardinality(V)
    PROVE  Q \cap T # {}
<1>1. /\ IsFiniteSet(V) /\ Cardinality(T) \in Nat /\ Cardinality(V) \in Nat
      /\ Cardinality(Q) \in Nat
  BY FiniteNodes
<1>2. Cardinality(Q) + Cardinality(T) > Cardinality(V)
  BY <1>1 DEF Majority
<1> QED
  BY <1>1, <1>2, FS_MajoritiesIntersect

LEMMA NoEmptyMajority ==
    ASSUME NEW Q, NEW V, Majority(Q, V)
    PROVE  V # {}
<1>1. SUFFICES ASSUME V = {} PROVE FALSE
  OBVIOUS
<1>2. Q = {}
  BY <1>1 DEF Majority
<1> QED
  BY <1>1, <1>2, FS_EmptySet DEF Majority

\* A node that has the log open and no state is to have the group, by every map
\* it has yet to take; one with the log open that its map no longer puts there
\* is on none of them.
LEMMA Opened ==
    ASSUME PlaceTypes, Followed, NEW n \in Node
    PROVE  /\ n \notin state /\ n \in Hosts(MapOf(n)) =>
                \A t \in Since(n) : n \in Hosts(maps[t])
           /\ n \in state /\ n \notin Hosts(MapOf(n)) =>
                \A t \in Since(n) : n \notin Hosts(maps[t])
           /\ n \in shard \ state => n \in Hosts(Map) /\ HostedBy(n)
           /\ n \in shard /\ ~HostedBy(n) => n \in state /\ n \notin Hosts(Map)
<1>1. /\ seen[n] \in Since(n) /\ Len(maps) \in Since(n)
      /\ \A t \in Since(n) : t \in Int /\ seen[n] <= t
  BY MapFacts DEF Since, Past
<1>2. /\ n \in shard \ state => HostedBy(n)
      /\ \A s, t \in Since(n) : s <= t =>
           IF n \in state THEN n \in Hosts(maps[t]) => n \in Hosts(maps[s])
                          ELSE n \in Hosts(maps[s]) => n \in Hosts(maps[t])
  BY DEF Followed
<1>3. MapOf(n) = maps[seen[n]] /\ Map = maps[Len(maps)] /\ (HostedBy(n) <=> n \in Hosts(MapOf(n)))
  BY DEF MapOf, Map, HostedBy
<1> QED
  BY <1>1, <1>2, <1>3

\* Whoever can lead has every acknowledged write.
LEMMA LeaderHas ==
    ASSUME PlaceTypes, Followed, Covered, NEW n, NEW Q, LeadsWith(n, Q)
    PROVE  n \in Node /\ n \in state /\ n \in shard /\ acked \subseteq data[n]
<1>1. /\ Q \subseteq voters /\ Q \subseteq shard /\ Majority(Q, voters) /\ n \in Q \cap state
      /\ \A q \in Q : data[q] \subseteq data[n]
  BY DEF LeadsWith, Majority
<1>2. voters \subseteq Node /\ Has \cup Left \subseteq voters
  BY DEF PlaceTypes, Has, Left
<1>3. Q \cap (Has \cup Left) # {}
  BY <1>1, <1>2, NoEmptyMajority, Overlap DEF Covered
<1>4. Q \cap Left = {}
  BY <1>1, <1>2, Opened DEF Left
<1>5. PICK q \in Q : acked \subseteq data[q]
  BY <1>3, <1>4 DEF Has
<1> QED
  BY <1>1, <1>2, <1>5

-----------------------------------------------------------------------------
\* What a change does to the map, and to what is said of all its versions.
LEMMA Changed ==
    ASSUME PlaceTypes, NEW m \in MapRec, Change(m)
    PROVE  /\ maps' \in Seq(MapRec) /\ maps' # <<>>
           /\ Len(maps') = Len(maps) + 1
           /\ Past' = Past \cup {Len(maps')} /\ Len(maps') \notin Past
           /\ \A t \in Past : maps'[t] = maps[t]
           /\ maps'[Len(maps')] = m /\ Map' = m
           /\ Ever' = Ever \cup Hosts(m)
           /\ \A n \in Node : /\ Since(n)' = Since(n) \cup {Len(maps')}
                              /\ \A s \in Since(n) : s \in Past
                              /\ MapOf(n)' = MapOf(n)
                              /\ HostedBy(n)' = HostedBy(n)
           /\ UNCHANGED <<seen, running, shard, state, data, boot, voters, others, acked,
                          dead, forked, downs, plan>>
<1> DEFINE k == Len(maps)
<1>1. /\ k \in Nat \ {0} /\ maps' = Append(maps, m)
      /\ \A n \in Node : seen[n] \in 1..k
  BY MapFacts DEF Change, Past
<1>2. maps' \in Seq(MapRec) /\ Len(maps') = k + 1 /\ maps' # <<>>
  BY <1>1 DEF PlaceTypes
<1>3. /\ \A t \in 1..k : maps'[t] = maps[t]
      /\ maps'[k + 1] = m
  BY <1>1 DEF PlaceTypes
<1>4. 1..(k + 1) = (1..k) \cup {k + 1} /\ k + 1 \notin 1..k
  BY <1>1
<1>5. UNCHANGED <<seen, running, shard, state, data, boot, voters, others, acked,
                  dead, forked, downs, plan>>
  BY DEF Change
<1>6. Past' = Past \cup {k + 1} /\ k + 1 \notin Past
  BY <1>2, <1>4 DEF Past
<1>7. Ever' = Ever \cup Hosts(m)
  <2>1. Ever' = UNION {Hosts(maps'[t]) : t \in Past'}
    BY DEF Ever, Hosts
  <2>2. \A t \in Past : Hosts(maps'[t]) = Hosts(maps[t])
    BY <1>3 DEF Past
  <2>3. Hosts(maps'[k + 1]) = Hosts(m)
    BY <1>3
  <2> QED
    BY <2>1, <2>2, <2>3, <1>6 DEF Ever
<1>8. ASSUME NEW n \in Node
      PROVE  /\ Since(n)' = Since(n) \cup {k + 1} /\ \A s \in Since(n) : s \in Past
             /\ MapOf(n)' = MapOf(n) /\ HostedBy(n)' = HostedBy(n)
  <2>1. seen[n] \in 1..k /\ seen'[n] = seen[n]
    BY <1>1, <1>5
  <2>2. seen[n]..(k + 1) = (seen[n]..k) \cup {k + 1} /\ seen[n]..k \subseteq 1..k
    BY <2>1, <1>1
  <2>3. MapOf(n)' = MapOf(n)
    BY <2>1, <1>3 DEF MapOf
  <2> QED
    BY <2>1, <2>2, <2>3, <1>2 DEF Since, Past, HostedBy, Hosts
<1> QED
  BY <1>2, <1>3, <1>5, <1>6, <1>7, <1>8 DEF Map, Past

\* What each command does to the map.
LEMMA Created ==
    ASSUME PlaceTypes, CreateGroup
    PROVE  \E m \in MapRec :
             /\ Change(m) /\ ~Map.made
             /\ m.nodes = Map.nodes /\ m.made = TRUE
             /\ m.voters \subseteq Map.nodes \cap VoterNode
             /\ m.boot = m.voters /\ m.others = (Map.nodes \cap FullNode) \ m.voters
<1> DEFINE r == Map
           vs == FirstOf(r.nodes \cap VoterNode, GroupVoters)
           m == [r EXCEPT !.made = TRUE, !.voters = vs, !.boot = vs,
                          !.others = (r.nodes \cap FullNode) \ vs]
<1>1. r \in MapRec
  BY MapFacts
<1>2. Change(m) /\ ~Map.made
  BY DEF CreateGroup
<1> HIDE DEF r
<1>3. r.nodes \subseteq Node
  BY <1>1 DEF MapRec
<1>4. vs \subseteq r.nodes \cap VoterNode
  BY DEF FirstOf
<1> HIDE DEF vs
<1>5. /\ m \in MapRec /\ m.nodes = r.nodes /\ m.made = TRUE
      /\ m.voters = vs /\ m.boot = vs /\ m.others = (r.nodes \cap FullNode) \ vs
  BY <1>1, <1>3, <1>4 DEF MapRec
<1> HIDE DEF m
<1> QED
  BY <1>2, <1>4, <1>5 DEF r

LEMMA Registered ==
    ASSUME PlaceTypes, NEW n \in Node, RegisterNode(n)
    PROVE  \E m \in MapRec :
             /\ Change(m)
             /\ m.nodes = Map.nodes \cup {n} /\ m.made = Map.made
             /\ \/ /\ Map.made /\ Hosts(Map) = {} /\ n \in VoterNode
                   /\ m.voters = {n} /\ m.boot = {n} /\ m.others = Map.others
                \/ /\ m.voters = Map.voters /\ m.boot = Map.boot
                   /\ m.others = IF n \in FullNode /\ Map.made /\ n \notin Hosts(Map)
                                 THEN Map.others \cup {n} ELSE Map.others
<1> DEFINE r == Map
           orphan == Map.made /\ Hosts(Map) = {} /\ n \in VoterNode
           o == IF orphan THEN [r EXCEPT !.voters = {n}, !.boot = {n}] ELSE r
           os == IF n \in FullNode /\ o.made /\ n \notin Hosts(o) THEN o.others \cup {n}
                                                                  ELSE o.others
           m == [o EXCEPT !.nodes = @ \cup {n},
                          !.others = IF n \in FullNode /\ o.made /\ n \notin Hosts(o)
                                     THEN @ \cup {n} ELSE @]
<1>1. r \in MapRec
  BY MapFacts
<1>2. Change(m)
  BY DEF RegisterNode
<1> HIDE DEF r
<1>3. /\ o \in MapRec /\ o.nodes = r.nodes /\ o.made = r.made /\ o.others = r.others
      /\ o.voters = (IF orphan THEN {n} ELSE r.voters)
      /\ o.boot = (IF orphan THEN {n} ELSE r.boot)
  <2>1. [r EXCEPT !.voters = {n}, !.boot = {n}] \in MapRec
    BY <1>1 DEF MapRec
  <2>2. CASE orphan
    BY <1>1, <2>1, <2>2 DEF MapRec
  <2>3. CASE ~orphan
    BY <1>1, <2>3
  <2> QED
    BY <2>2, <2>3
<1> HIDE DEF o
<1>4. o.nodes \cup {n} \in SUBSET Node /\ os \in SUBSET Node
  BY <1>3 DEF MapRec
<1>5. m = [o EXCEPT !.nodes = o.nodes \cup {n}, !.others = os]
  OBVIOUS
<1>6. /\ m \in MapRec /\ m.nodes = o.nodes \cup {n} /\ m.made = o.made
      /\ m.voters = o.voters /\ m.boot = o.boot /\ m.others = os
  <2> HIDE DEF os, m
  <2> QED
    BY <1>3, <1>4, <1>5 DEF MapRec
<1> HIDE DEF m
<1>7. CASE orphan
  <2>1. o.voters = {n}
    BY <1>3, <1>7
  <2>2. os = o.others
    BY <2>1 DEF Hosts
  <2> QED
    BY <1>2, <1>3, <1>6, <1>7, <2>2 DEF r
<1>8. CASE ~orphan
  <2>1. Hosts(o) = Hosts(r)
    BY <1>3, <1>8 DEF Hosts
  <2> QED
    BY <1>2, <1>3, <1>6, <1>8, <2>1 DEF r
<1> QED
  BY <1>7, <1>8

LEMMA PlacedOn ==
    ASSUME PlaceTypes, NEW n \in Node, NEW voter \in BOOLEAN, PlaceGroup(n, voter)
    PROVE  \E m \in MapRec :
             /\ Change(m) /\ Map.made /\ n \in Map.nodes /\ Allowed /\ "place" \in Ops
             /\ m.nodes = Map.nodes /\ m.made = Map.made /\ m.boot = Map.boot
             /\ m.voters = IF voter THEN Map.voters \cup {n} ELSE Map.voters \ {n}
             /\ m.others = IF voter THEN Map.others \ {n} ELSE Map.others \cup {n}
<1> DEFINE r == Map
           vs == IF voter THEN r.voters \cup {n} ELSE r.voters \ {n}
           os == IF voter THEN r.others \ {n} ELSE r.others \cup {n}
           m == [r EXCEPT !.voters = vs, !.others = os]
<1>1. r \in MapRec
  BY MapFacts
<1>2. Change(m) /\ Map.made /\ n \in Map.nodes /\ Allowed /\ "place" \in Ops
  BY DEF PlaceGroup
<1> HIDE DEF r
<1>3. vs \in SUBSET Node /\ os \in SUBSET Node
  BY <1>1 DEF MapRec
<1> HIDE DEF vs, os
<1>4. /\ m \in MapRec /\ m.nodes = r.nodes /\ m.made = r.made
      /\ m.voters = vs /\ m.boot = r.boot /\ m.others = os
  BY <1>1, <1>3 DEF MapRec
<1> HIDE DEF m
<1> QED
  BY <1>2, <1>4 DEF r, vs, os

LEMMA TakenOff ==
    ASSUME PlaceTypes, NEW n \in Node, UnplaceGroup(n)
    PROVE  \E m \in MapRec :
             /\ Change(m) /\ n \in Hosts(Map) \ FullNode /\ Allowed /\ "unplace" \in Ops
             /\ SpareVoter(n) /\ (n \in Map.voters => Map.voters # {n})
             /\ m.nodes = Map.nodes /\ m.made = Map.made
             /\ m.voters = Map.voters \ {n} /\ m.others = Map.others \ {n}
             /\ m.boot = Map.boot \ {n}
<1> DEFINE r == Map
           m == [r EXCEPT !.voters = r.voters \ {n}, !.others = r.others \ {n},
                          !.boot = r.boot \ {n}]
<1>1. r \in MapRec
  BY MapFacts
<1>2. /\ Change(m) /\ n \in Hosts(Map) \ FullNode /\ Allowed /\ "unplace" \in Ops
      /\ SpareVoter(n) /\ (n \in Map.voters => Map.voters # {n})
  BY DEF UnplaceGroup
<1> HIDE DEF r
<1>3. /\ m \in MapRec /\ m.nodes = r.nodes /\ m.made = r.made /\ m.voters = r.voters \ {n}
      /\ m.boot = r.boot \ {n} /\ m.others = r.others \ {n}
  BY <1>1 DEF MapRec
<1> HIDE DEF m
<1> QED
  BY <1>2, <1>3 DEF r

LEMMA Removed ==
    ASSUME PlaceTypes, NEW n \in Node, NEW repl \in Node, RemoveNode(n, repl)
    PROVE  \E m \in MapRec :
             /\ Change(m) /\ m.nodes = Map.nodes \ {n} /\ m.made = Map.made /\ repl # n
             /\ IF OnlyVoter(n)
                THEN m.voters = {repl} /\ m.boot = (Map.boot \ {n}) \cup {repl}
                     /\ m.others = Map.others \ {n, repl}
                ELSE m.voters = Map.voters \ {n} /\ m.boot = Map.boot \ {n}
                     /\ m.others = Map.others \ {n}
<1> DEFINE r == Map
           vs == IF OnlyVoter(n) THEN {repl} ELSE r.voters \ {n}
           bs == IF OnlyVoter(n) THEN (r.boot \ {n}) \cup {repl} ELSE r.boot \ {n}
           os == IF OnlyVoter(n) THEN r.others \ {n, repl} ELSE r.others \ {n}
           m == [r EXCEPT !.nodes = r.nodes \ {n}, !.voters = vs, !.boot = bs, !.others = os]
<1>1. r \in MapRec
  BY MapFacts
<1>2. Change(m) /\ repl # n
  BY DEF RemoveNode
<1> HIDE DEF r
<1>3. vs \in SUBSET Node /\ bs \in SUBSET Node /\ os \in SUBSET Node /\ r.nodes \in SUBSET Node
  BY <1>1 DEF MapRec
<1> HIDE DEF vs, bs, os
<1>4. /\ m \in MapRec /\ m.nodes = r.nodes \ {n} /\ m.made = r.made
      /\ m.voters = vs /\ m.boot = bs /\ m.others = os
  BY <1>1, <1>3 DEF MapRec
<1> HIDE DEF m
<1> QED
  BY <1>2, <1>4 DEF r, vs, bs, os

\* A recovered node has the new map in its copy at once.
LEMMA RecoveredMap ==
    ASSUME PlaceTypes, NEW n \in Node, Recover(n)
    PROVE  \E m \in MapRec :
             /\ maps' = Append(maps, m) /\ m.made = Map.made
             /\ LET gone == VoterNode \ {n}
                IN  IF Map.voters \ gone = {}
                    THEN /\ m.voters = {n}
                         /\ m.others = (Map.others \ gone) \ {n}
                    ELSE /\ m.voters = Map.voters \ gone
                         /\ m.others = Map.others \ gone
             /\ seen' = [seen EXCEPT ![n] = Len(maps')]
<1> DEFINE r == Map
           gone == VoterNode \ {n}
           took == r.voters \ gone = {}
           ns == (r.nodes \ gone) \cup {n}
           vs == IF took THEN {n} ELSE r.voters \ gone
           bs == (r.boot \ gone) \cup (IF took THEN {n} ELSE {})
           os == (r.others \ gone) \ (IF took THEN {n} ELSE {})
           m == [r EXCEPT !.nodes = ns, !.voters = vs, !.boot = bs, !.others = os]
<1>1. r \in MapRec
  BY MapFacts
<1>2. maps' = Append(maps, m) /\ seen' = [seen EXCEPT ![n] = Len(maps')]
  BY DEF Recover
<1> HIDE DEF r
<1>3. ns \in SUBSET Node /\ vs \in SUBSET Node /\ bs \in SUBSET Node /\ os \in SUBSET Node
  BY <1>1 DEF MapRec
<1> HIDE DEF ns, vs, bs, os
<1>4. m \in MapRec /\ m.made = r.made /\ m.voters = vs /\ m.others = os
  BY <1>1, <1>3 DEF MapRec
<1> HIDE DEF m
<1> QED
  BY <1>2, <1>4 DEF r, vs, os

-----------------------------------------------------------------------------
LEMMA PlaceTypesInit == PlaceInit => PlaceTypes
<1> SUFFICES ASSUME PlaceInit PROVE PlaceTypes
  OBVIOUS
<1>1. plan \in Plans /\ First \subseteq Node
  BY PlacementNodes DEF PlaceInit, First
<1> DEFINE m == [nodes |-> First, made |-> FALSE, voters |-> {}, others |-> {}, boot |-> {}]
<1>2. m \in MapRec
  BY <1>1 DEF MapRec
<1>3. maps = <<m>>
  BY DEF PlaceInit
<1> HIDE DEF m
<1>4. maps \in Seq(MapRec) /\ maps # <<>> /\ Len(maps) = 1
  BY <1>2, <1>3
<1>5. forked \in BOOLEAN
  BY Zenon DEF PlaceInit
<1> QED
  BY <1>1, <1>4, <1>5 DEF PlaceInit, PlaceTypes, Past

\* The steps that leave the map alone.
LogSteps ==
    \/ Submit
    \/ \E S \in Lost : Lose(S)
    \/ \E n \in Node :
         \/ See(n) \/ StartShard(n) \/ StopShard(n) \/ Replicate(n) \/ Stop(n) \/ Start(n)
         \/ \E m \in Node : Reconcile(n, m)

LEMMA PlaceSteps ==
    PlaceNext <=> \/ LogSteps
                  \/ CreateGroup
                  \/ \E n \in Node : \/ Register(n) \/ UnplaceGroup(n) \/ Recover(n)
                                     \/ \E voter \in BOOLEAN : PlaceGroup(n, voter)
                                     \/ \E m \in Node : AdminRemove(n, m)
BY Zenon DEF PlaceNext, LogSteps

LEMMA MembersTypes ==
    ASSUME PlaceTypes, NEW n \in Node, NEW vs \in SUBSET Node, NEW os \in SUBSET Node,
           Members(n, vs, os)
    PROVE  PlaceTypes'
BY DEF Members, TakenBy, Majority, PlaceTypes, Past

LEMMA LogTypes == PlaceTypes /\ LogSteps => PlaceTypes'
<1> SUFFICES ASSUME PlaceTypes, LogSteps PROVE PlaceTypes'
  OBVIOUS
<1>1. CASE Submit
  BY <1>1 DEF Submit, LeadsWith, PlaceTypes, Past
<1>2. CASE \E S \in Lost : Lose(S)
  <2>1. Lost \subseteq SUBSET Node
    BY PlacementNodes DEF PlaceTypes, Lost
  <2> QED
    BY <1>2, <2>1 DEF Lose, PlaceTypes, Past
<1>3. ASSUME NEW n \in Node, See(n) PROVE PlaceTypes'
  <2>1. seen[n] + 1 \in Past
    BY <1>3, MapFacts DEF See, Past
  <2> QED
    BY <1>3, <2>1 DEF See, PlaceTypes, Past
<1>4. ASSUME NEW n \in Node, StartShard(n) PROVE PlaceTypes'
  <2>1. FirstVoters(MapOf(n)) \subseteq Node
    BY MapFacts DEF FirstVoters, MapRec
  <2>2. forked' \in BOOLEAN
    <3> DEFINE b == n \in FirstVoters(MapOf(n)) /\ n \notin state
                      /\ boot \notin {{}, FirstVoters(MapOf(n))}
    <3>1. forked' = (forked \/ b)
      BY <1>4 DEF StartShard
    <3> HIDE DEF b
    <3> QED
      BY <3>1
  <2>3. UNCHANGED <<maps, seen, running, data, others, dead, plan>> /\ n \in running
        /\ shard' = shard \cup {n}
        /\ state' \subseteq state \cup {n}
        /\ \/ boot' = FirstVoters(MapOf(n)) /\ voters' = FirstVoters(MapOf(n))
           \/ UNCHANGED <<boot, voters>>
    BY <1>4 DEF StartShard
  <2> QED
    BY <2>1, <2>2, <2>3 DEF PlaceTypes, Past
<1>5. ASSUME NEW n \in Node, StopShard(n) PROVE PlaceTypes'
  <2>1. CASE /\ data' = [data EXCEPT ![n] = {}] /\ state' = state \ {n} /\ voters' = voters
    BY <1>5, <2>1 DEF StopShard, PlaceTypes, Past
  <2>2. CASE /\ voters' = voters \ {n}
             /\ \E Q \in SUBSET (voters \ {n}) :
                  /\ TakenBy(Q, voters \ {n})
                  /\ data' = [m \in Node |-> IF m = n THEN {}
                                            ELSE IF m \in Q THEN data[n] ELSE data[m]]
                  /\ state' = (state \cup Q) \ {n}
    BY <1>5, <2>2 DEF StopShard, PlaceTypes, Past
  <2> QED
    BY <1>5, <2>1, <2>2 DEF StopShard
<1>6. ASSUME NEW n \in Node, Replicate(n) PROVE PlaceTypes'
  BY <1>6 DEF Replicate, PlaceTypes, Past
<1>7. ASSUME NEW n \in Node, Stop(n) PROVE PlaceTypes'
  BY <1>7 DEF Stop, PlaceTypes, Past
<1>8. ASSUME NEW n \in Node, Start(n) PROVE PlaceTypes'
  BY <1>8 DEF Start, PlaceTypes, Past
<1>9. ASSUME NEW n \in Node, NEW m \in Node, Reconcile(n, m) PROVE PlaceTypes'
  <2>1. /\ voters \in SUBSET Node /\ others \in SUBSET Node
        /\ others \cup {m} \in SUBSET Node /\ voters \cup {m} \in SUBSET Node
        /\ others \ {m} \in SUBSET Node /\ voters \ {m} \in SUBSET Node
    BY DEF PlaceTypes
  <2> QED
    BY <1>9, <2>1, MembersTypes DEF Reconcile
<1> QED
  BY <1>1, <1>2, <1>3, <1>4, <1>5, <1>6, <1>7, <1>8, <1>9, Zenon DEF LogSteps

LEMMA ChangeTypes ==
    ASSUME PlaceTypes, NEW m \in MapRec, Change(m)
    PROVE  PlaceTypes'
<1>1. /\ maps' \in Seq(MapRec) /\ maps' # <<>> /\ Past \subseteq Past'
      /\ UNCHANGED <<seen, running, shard, state, data, boot, voters, others, acked,
                     dead, forked, downs, plan>>
  BY Changed
<1> QED
  BY <1>1 DEF PlaceTypes

LEMMA RecoverTypes ==
    ASSUME PlaceTypes, NEW n \in Node, Recover(n)
    PROVE  PlaceTypes'
<1>1. PICK m \in MapRec : maps' = Append(maps, m) /\ seen' = [seen EXCEPT ![n] = Len(maps')]
  BY RecoveredMap
<1>2. /\ maps' \in Seq(MapRec) /\ maps' # <<>> /\ Len(maps') = Len(maps) + 1
      /\ Past \subseteq Past' /\ Len(maps') \in Past'
  BY <1>1 DEF PlaceTypes, Past
<1>3. seen' \in [Node -> Past']
  BY <1>1, <1>2 DEF PlaceTypes
<1> QED
  BY <1>2, <1>3 DEF Recover, Recovered, PlaceTypes

LEMMA PlaceTypesNext == PlaceTypes /\ [PlaceNext]_placeVars => PlaceTypes'
<1> SUFFICES ASSUME PlaceTypes, [PlaceNext]_placeVars PROVE PlaceTypes'
  OBVIOUS
<1>1. CASE LogSteps
  BY <1>1, LogTypes
<1>2. CASE CreateGroup
  BY <1>2, Created, ChangeTypes
<1>3. ASSUME NEW n \in Node, Register(n) PROVE PlaceTypes'
  BY <1>3, Registered, ChangeTypes DEF Register
<1>4. ASSUME NEW n \in Node, UnplaceGroup(n) PROVE PlaceTypes'
  BY <1>4, TakenOff, ChangeTypes
<1>5. ASSUME NEW n \in Node, Recover(n) PROVE PlaceTypes'
  BY <1>5, RecoverTypes
<1>6. ASSUME NEW n \in Node, NEW voter \in BOOLEAN, PlaceGroup(n, voter) PROVE PlaceTypes'
  BY <1>6, PlacedOn, ChangeTypes
<1>7. ASSUME NEW n \in Node, NEW m \in Node, AdminRemove(n, m) PROVE PlaceTypes'
  BY <1>7, Removed, ChangeTypes DEF AdminRemove
<1>8. CASE UNCHANGED placeVars
  BY <1>8 DEF placeVars, PlaceTypes, Past
<1> QED
  BY <1>1, <1>2, <1>3, <1>4, <1>5, <1>6, <1>7, <1>8, PlaceSteps, Zenon

-----------------------------------------------------------------------------
(***************************************************************************)
(* A change of the map.                                                    *)
(***************************************************************************)
\* The new map m takes the group off no node that has yet to get a state, puts
\* it on none that has one from before, or is in the voters' way.
Mild(m) ==
    /\ Sound(m) /\ Map.nodes \subseteq m.nodes /\ (Hosts(m) = {} => Hosts(Map) = {})
    /\ \A n \in Node : IF n \in state THEN n \in Hosts(m) => n \in Hosts(Map)
                                      ELSE n \in Hosts(Map) => n \in Hosts(m)
    /\ \A v \in voters \ state : v \in Hosts(m) => v \in Hosts(Map)

\* And of the first voters it changes none, or no node has yet to start the log.
FirstKept(m) ==
    \/ m.boot = Map.boot /\ m.voters = Map.voters
    \/ m.boot \subseteq Map.boot /\ Hosts(Map) \subseteq state
    \/ Hosts(Map) = {} /\ m.boot \subseteq m.voters

LEMMA ChangeFollowed ==
    ASSUME PlaceTypes, Followed, NEW m \in MapRec, Change(m), Mild(m)
    PROVE  Followed'
<1> DEFINE k == Len(maps')
<1> USE DEF Hosts
<1>1. ASSUME NEW n \in Node, n \in shard' \ state' PROVE HostedBy(n)'
  BY <1>1, Changed DEF Followed
<1>2. ASSUME NEW n \in Node, NEW s \in Since(n)', NEW t \in Since(n)', s <= t
      PROVE  IF n \in state' THEN n \in Hosts(maps'[t]) => n \in Hosts(maps'[s])
                             ELSE n \in Hosts(maps'[s]) => n \in Hosts(maps'[t])
  <2> DEFINE l == Len(maps)
  <2>1. /\ state' = state /\ Since(n)' = Since(n) \cup {k} /\ maps'[k] = m
        /\ \A x \in Since(n) : x \in Past /\ maps'[x] = maps[x]
        /\ k = l + 1
    BY Changed
  <2>2. /\ l \in Since(n) /\ l \in Nat /\ \A x \in Past : x \in Nat /\ x <= l
        /\ Map = maps[l]
    BY MapFacts DEF Past, Map
  <2>3. \A x, y \in Since(n) : x <= y =>
           IF n \in state THEN n \in Hosts(maps[y]) => n \in Hosts(maps[x])
                          ELSE n \in Hosts(maps[x]) => n \in Hosts(maps[y])
    BY DEF Followed
  <2>4. IF n \in state THEN n \in Hosts(m) => n \in Hosts(maps[l])
                       ELSE n \in Hosts(maps[l]) => n \in Hosts(m)
    BY <2>2 DEF Mild
  <2> HIDE DEF k, l
  <2>5. CASE s \in Since(n) /\ t \in Since(n)
    BY <1>2, <2>1, <2>3, <2>5
  <2>6. CASE s \in Since(n) /\ t = k
    <3>1. s <= l
      BY <2>1, <2>2, <2>6
    <3>2. IF n \in state THEN n \in Hosts(maps[l]) => n \in Hosts(maps[s])
                         ELSE n \in Hosts(maps[s]) => n \in Hosts(maps[l])
      BY <2>2, <2>3, <2>6, <3>1
    <3> QED
      BY <2>1, <2>4, <2>6, <3>2
  <2>7. CASE s = k /\ t \in Since(n)
    BY <1>2, <2>1, <2>2, <2>7
  <2>8. CASE s = k /\ t = k
    BY <2>8
  <2> QED
    BY <2>1, <2>5, <2>6, <2>7, <2>8
<1> QED
  BY <1>1, <1>2 DEF Followed

LEMMA ChangeMaps ==
    ASSUME PlaceTypes, MapsSound, Placed, NEW m \in MapRec, Change(m), Mild(m)
    PROVE  MapsSound' /\ Placed'
<1>1. /\ Past' = Past \cup {Len(maps')} /\ Map' = m /\ maps'[Len(maps')] = m
      /\ \A t \in Past : maps'[t] = maps[t]
      /\ Ever' = Ever \cup Hosts(m)
      /\ UNCHANGED <<shard, state, voters, others, boot, acked, plan>>
  BY Changed
<1>2. FullNode' = FullNode
  BY <1>1 DEF FullNode
<1>3. ASSUME NEW t \in Past' PROVE (Sound(maps[t]) /\ maps[t].nodes \subseteq Map.nodes)'
  <2>1. CASE t \in Past
    <3>1. Sound(maps[t]) /\ maps[t].nodes \subseteq Map.nodes /\ Map.nodes \subseteq m.nodes
      BY <2>1 DEF MapsSound, Mild
    <3> QED
      BY <1>1, <1>2, <2>1, <3>1 DEF Sound, Hosts
  <2>2. CASE t = Len(maps')
    <3>1. Sound(m)
      BY DEF Mild
    <3> QED
      BY <1>1, <1>2, <2>2, <3>1 DEF Sound, Hosts
  <2> QED
    BY <1>1, <2>1, <2>2
<1>4. (Hosts(Map) = {} => Ever = {})'
  <2>1. Hosts(Map)' = Hosts(m)
    BY <1>1 DEF Hosts
  <2> QED
    BY <1>1, <2>1 DEF MapsSound, Mild
<1>5. Placed'
  BY <1>1 DEF Placed
<1> QED
  BY <1>3, <1>4, <1>5 DEF MapsSound

LEMMA ChangeCovered ==
    ASSUME PlaceTypes, Covered, NEW m \in MapRec, Change(m), Mild(m)
    PROVE  Covered'
<1>1. /\ UNCHANGED <<state, voters, acked, data>> /\ Map' = m
      /\ voters \subseteq Node
  BY Changed DEF PlaceTypes
<1>2. Has' = Has /\ Left \subseteq Left' /\ Has' \cup Left' \subseteq voters
  BY <1>1 DEF Has, Left, Mild, Hosts
<1>3. CASE voters = {}
  BY <1>1, <1>3 DEF Covered
<1>4. CASE voters # {}
  <2>1. Majority(Has \cup Left, voters)
    BY <1>4 DEF Covered, Majority, Has, Left
  <2>2. 2 * Cardinality(Has' \cup Left') > Cardinality(voters)
    BY <1>1, <1>2, <2>1, MoreThanHalf
  <2> QED
    BY <1>1, <2>2 DEF Covered
<1> QED
  BY <1>3, <1>4

LEMMA ChangeFresh ==
    ASSUME PlaceTypes, MapsSound, Placed, Followed, Fresh,
           NEW m \in MapRec, Change(m), Mild(m), FirstKept(m)
    PROVE  Fresh'
<1> DEFINE k == Len(maps')
           l == Len(maps)
<1>1. /\ Past' = Past \cup {k} /\ Map' = m /\ maps'[k] = m
      /\ \A t \in Past : maps'[t] = maps[t]
      /\ UNCHANGED <<state, boot, forked>>
      /\ \A n \in Node : Since(n)' = Since(n) \cup {k}
  BY Changed
<1>2. /\ l \in Past /\ Map = maps[l]
      /\ \A n \in Node : l \in Since(n) /\ Since(n) \subseteq Past
  BY MapFacts DEF Map
<1>3. /\ \A t \in Past : maps[t].boot \subseteq Hosts(maps[t])
      /\ m.boot \subseteq Hosts(m)
  BY DEF MapsSound, Sound, Mild
<1> HIDE DEF k, l
<1>4. ASSUME NEW n \in Node \ state, NEW s \in Since(n)', n \in maps'[s].boot
      PROVE  /\ boot \in {{}, m.boot}
             /\ \A t \in Past' : maps'[t].boot # {} =>
                  maps'[t].boot = m.boot /\ m.boot \subseteq maps'[t].voters
  <2>1. CASE m.boot = Map.boot /\ m.voters = Map.voters
    <3>1. \E x \in Since(n) : n \in maps[x].boot
      BY <1>1, <1>2, <1>4, <2>1
    <3>2. /\ boot \in {{}, Map.boot}
          /\ \A t \in Past : maps[t].boot # {} =>
               maps[t].boot = Map.boot /\ Map.boot \subseteq maps[t].voters
      BY <3>1 DEF Fresh
    <3> QED
      BY <1>1, <1>2, <2>1, <3>2
  <2>2. CASE m.boot \subseteq Map.boot /\ Hosts(Map) \subseteq state
    <3>1. PICK x \in Since(n) : n \in maps[x].boot
      BY <1>1, <1>2, <1>4, <2>2
    <3>2. x <= l /\ n \in Hosts(maps[x])
      BY <1>2, <1>3, <3>1, MapFacts DEF Past, l
    <3>3. n \in Hosts(Map)
      BY <1>2, <3>2 DEF Followed
    <3> QED
      BY <2>2, <3>3
  <2>3. CASE Hosts(Map) = {} /\ m.boot \subseteq m.voters
    <3>1. Ever = {} /\ boot = {}
      BY <2>3 DEF MapsSound, Placed
    <3>2. \A t \in Past : maps[t].boot = {}
      BY <1>3, <3>1 DEF Ever
    <3> QED
      BY <1>1, <2>3, <3>1, <3>2
  <2> QED
    BY <2>1, <2>2, <2>3 DEF FirstKept
<1> QED
  BY <1>1, <1>4 DEF Fresh

LEMMA ChangeKeeps ==
    ASSUME PlaceTypes, Whole, NEW m \in MapRec, Change(m), Mild(m), FirstKept(m)
    PROVE  Whole'
BY ChangeFollowed, ChangeMaps, ChangeCovered, ChangeFresh DEF Whole

\* Before a group has hosts there is nothing of it; and what there is, is on
\* nodes of the map.
LEMMA Nothing ==
    ASSUME PlaceTypes, MapsSound, Placed
    PROVE  /\ Hosts(Map) = {} => state = {} /\ voters = {} /\ boot = {}
           /\ Ever \subseteq Map.nodes
           /\ Sound(Map)
<1>1. \A t \in Past : Hosts(maps[t]) \subseteq Map.nodes
  BY DEF MapsSound, Sound
<1>2. Ever \subseteq Map.nodes
  BY <1>1 DEF Ever
<1>3. Sound(Map)
  BY MapFacts DEF MapsSound, Map
<1> QED
  BY <1>2, <1>3 DEF MapsSound, Placed

LEMMA CreateKeeps ==
    ASSUME PlaceTypes, Whole, CreateGroup
    PROVE  Whole'
<1>1. PICK m \in MapRec :
        /\ Change(m) /\ ~Map.made
        /\ m.nodes = Map.nodes /\ m.made = TRUE /\ m.voters \subseteq Map.nodes
        /\ m.boot = m.voters /\ m.others = (Map.nodes \cap FullNode) \ m.voters
  BY Created
<1>2. Hosts(Map) = {} /\ state = {} /\ voters = {}
  BY <1>1, Nothing DEF Whole, Sound
<1>3. Mild(m)
  BY <1>1, <1>2 DEF Mild, Sound, Hosts
<1>4. FirstKept(m)
  BY <1>1, <1>2 DEF FirstKept
<1> QED
  BY <1>1, <1>3, <1>4, ChangeKeeps

LEMMA RegisterKeeps ==
    ASSUME PlaceTypes, Whole, NEW n \in Node, Register(n)
    PROVE  Whole'
<1>1. PICK m \in MapRec :
        /\ Change(m)
        /\ m.nodes = Map.nodes \cup {n} /\ m.made = Map.made
        /\ \/ /\ Map.made /\ Hosts(Map) = {}
              /\ m.voters = {n} /\ m.boot = {n} /\ m.others = Map.others
           \/ /\ m.voters = Map.voters /\ m.boot = Map.boot
              /\ m.others = IF n \in FullNode /\ Map.made /\ n \notin Hosts(Map)
                            THEN Map.others \cup {n} ELSE Map.others
  BY Registered DEF Register
<1>2. /\ Sound(Map) /\ Ever \subseteq Map.nodes
      /\ Hosts(Map) = {} => state = {} /\ voters = {} /\ boot = {}
      /\ state \cup voters \subseteq Ever
  BY Nothing DEF Whole, Placed
<1>3. CASE /\ Map.made /\ Hosts(Map) = {}
           /\ m.voters = {n} /\ m.boot = {n} /\ m.others = Map.others
  <2>1. Mild(m)
    BY <1>1, <1>2, <1>3 DEF Mild, Sound, Hosts
  <2>2. FirstKept(m)
    BY <1>3 DEF FirstKept
  <2> QED
    BY <1>1, <2>1, <2>2, ChangeKeeps
<1>4. CASE /\ m.voters = Map.voters /\ m.boot = Map.boot
           /\ m.others = IF n \in FullNode /\ Map.made /\ n \notin Hosts(Map)
                         THEN Map.others \cup {n} ELSE Map.others
  <2>1. Hosts(m) = Hosts(Map) \/ (Hosts(m) = Hosts(Map) \cup {n} /\ n \notin Map.nodes)
    BY <1>2, <1>4 DEF Sound, Hosts
  <2>2. Sound(m)
    BY <1>1, <1>2, <1>4 DEF Sound, Hosts
  <2>3. Mild(m)
    BY <1>1, <1>2, <2>1, <2>2 DEF Mild
  <2>4. FirstKept(m)
    BY <1>4 DEF FirstKept
  <2> QED
    BY <1>1, <2>3, <2>4, ChangeKeeps
<1> QED
  BY <1>1, <1>3, <1>4

\* A careful operator changes where the group lives when the last change of it
\* has been carried out.
LEMMA PlaceKeeps ==
    ASSUME PlaceTypes, Whole, Careful, NEW n \in Node, NEW voter \in BOOLEAN, PlaceGroup(n, voter)
    PROVE  Whole'
<1>1. PICK m \in MapRec :
        /\ Change(m) /\ Map.made /\ n \in Map.nodes /\ Allowed /\ "place" \in Ops
        /\ m.nodes = Map.nodes /\ m.made = Map.made /\ m.boot = Map.boot
        /\ m.voters = IF voter THEN Map.voters \cup {n} ELSE Map.voters \ {n}
        /\ m.others = IF voter THEN Map.others \ {n} ELSE Map.others \cup {n}
  BY PlacedOn
<1>2. voters = Map.voters /\ state = Hosts(Map)
  BY <1>1 DEF Careful, Allowed
<1>3. Sound(Map)
  BY Nothing DEF Whole
<1>4. Hosts(m) = Hosts(Map) \cup {n} /\ m.voters \cap m.others = {}
  BY <1>1, <1>3 DEF Hosts, Sound
<1>5. Sound(m)
  BY <1>1, <1>3, <1>4 DEF Sound
<1>6. Mild(m)
  BY <1>1, <1>2, <1>4, <1>5 DEF Mild, Hosts
<1>7. FirstKept(m)
  BY <1>1, <1>2 DEF FirstKept
<1> QED
  BY <1>1, <1>6, <1>7, ChangeKeeps

LEMMA UnplaceKeeps ==
    ASSUME PlaceTypes, Whole, Careful, NEW n \in Node, UnplaceGroup(n)
    PROVE  Whole'
<1>1. PICK m \in MapRec :
        /\ Change(m) /\ n \in Hosts(Map) \ FullNode /\ Allowed /\ "unplace" \in Ops
        /\ SpareVoter(n) /\ (n \in Map.voters => Map.voters # {n})
        /\ m.nodes = Map.nodes /\ m.made = Map.made
        /\ m.voters = Map.voters \ {n} /\ m.others = Map.others \ {n}
        /\ m.boot = Map.boot \ {n}
  BY TakenOff
<1>2. voters = Map.voters /\ state = Hosts(Map)
  BY <1>1 DEF Careful, Allowed
<1>3. Sound(Map) /\ Map.made
  BY <1>1, Nothing DEF Whole, Sound
<1>4. Hosts(m) = Hosts(Map) \ {n} /\ m.voters \cap m.others = {}
  BY <1>1, <1>3 DEF Hosts, Sound
<1>5. m.voters # {}
  BY <1>1, <1>2 DEF Whole, Placed
<1>6. Sound(m)
  BY <1>1, <1>3, <1>4 DEF Sound
<1>7. Mild(m)
  BY <1>1, <1>2, <1>4, <1>5, <1>6 DEF Mild, Hosts
<1>8. FirstKept(m)
  BY <1>1, <1>2 DEF FirstKept
<1> QED
  BY <1>1, <1>7, <1>8, ChangeKeeps

-----------------------------------------------------------------------------
(***************************************************************************)
(* A step of a node or of the group's log.                                 *)
(***************************************************************************)
SameMaps == maps' = maps /\ plan' = plan

LEMMA Same ==
    ASSUME SameMaps
    PROVE  /\ Past' = Past /\ Map' = Map /\ Ever' = Ever
           /\ MapsSound' = MapsSound
           /\ seen' = seen => \A n : Since(n)' = Since(n) /\ HostedBy(n)' = HostedBy(n)
BY DEF SameMaps, Past, Map, Ever, MapsSound, Sound, FullNode, Since, HostedBy, MapOf, Hosts

\* Who gets a state has the group by its own map; who loses it does not.
Moves ==
    /\ \A n \in state' \ state : n \in Node /\ HostedBy(n)
    /\ \A n \in state \ state' : ~HostedBy(n)
    /\ \A n \in shard' \ shard : HostedBy(n)
    /\ \A n \in shard' \cap state : HostedBy(n) \/ n \in state'

\* So none of those who get one is on its way out.
LEMMA Arrivals ==
    ASSUME PlaceTypes, Followed, Moves
    PROVE  state' \ Hosts(Map) \subseteq state
<1> SUFFICES ASSUME NEW n \in state' \ state PROVE n \in Hosts(Map)
  OBVIOUS
<1>1. n \in Node /\ n \in Hosts(MapOf(n)) /\ Len(maps) \in Since(n)
  BY MapFacts DEF Moves, HostedBy
<1> QED
  BY <1>1, Opened DEF Map

LEMMA LogFollowed ==
    ASSUME PlaceTypes, Followed, SameMaps, seen' = seen, Moves
    PROVE  Followed'
<1>1. ASSUME NEW n \in Node, n \in shard' \ state' PROVE HostedBy(n)'
  <2>1. HostedBy(n)
    BY <1>1 DEF Moves, Followed
  <2> QED
    BY <2>1, Same
<1>2. ASSUME NEW n \in Node, NEW s \in Since(n)', NEW t \in Since(n)', s <= t
      PROVE  IF n \in state' THEN n \in Hosts(maps'[t]) => n \in Hosts(maps'[s])
                             ELSE n \in Hosts(maps'[s]) => n \in Hosts(maps'[t])
  <2>1. s \in Since(n) /\ t \in Since(n) /\ maps' = maps
    BY Same DEF SameMaps
  <2>2. IF n \in state THEN n \in Hosts(maps[t]) => n \in Hosts(maps[s])
                       ELSE n \in Hosts(maps[s]) => n \in Hosts(maps[t])
    BY <1>2, <2>1 DEF Followed
  <2>3. HostedBy(n) <=> n \in Hosts(MapOf(n))
    BY DEF HostedBy
  <2>4. /\ n \notin state /\ HostedBy(n) => n \in Hosts(maps[s]) /\ n \in Hosts(maps[t])
        /\ n \in state /\ ~HostedBy(n) => n \notin Hosts(maps[s]) /\ n \notin Hosts(maps[t])
    BY <2>1, <2>3, Opened
  <2>5. CASE n \in state' <=> n \in state
    BY <2>1, <2>2, <2>5
  <2>6. CASE n \in state' \ state
    <3>1. HostedBy(n)
      BY <2>6 DEF Moves
    <3> QED
      BY <2>1, <2>4, <2>6, <3>1
  <2>7. CASE n \in state \ state'
    <3>1. ~HostedBy(n)
      BY <2>7 DEF Moves
    <3> QED
      BY <2>1, <2>4, <2>7, <3>1
  <2> QED
    BY <2>5, <2>6, <2>7
<1> QED
  BY <1>1, <1>2 DEF Followed, Hosts

LEMMA LogFresh ==
    ASSUME PlaceTypes, MapsSound, Followed, Fresh, SameMaps, seen' = seen, Moves,
           boot' = boot, forked' = forked
    PROVE  Fresh'
<1>1. /\ Past' = Past /\ Map' = Map /\ maps' = maps
      /\ \A n \in Node : Since(n)' = Since(n)
  BY Same DEF SameMaps
<1>2. \A t \in Past : maps[t].boot \subseteq Hosts(maps[t])
  BY DEF MapsSound, Sound
<1>3. ASSUME NEW n \in Node \ state', NEW s \in Since(n), n \in maps[s].boot
      PROVE  n \notin state
  <2>1. SUFFICES ASSUME n \in state PROVE FALSE
    OBVIOUS
  <2>2. n \notin Hosts(MapOf(n))
    BY <1>3, <2>1 DEF Moves, HostedBy
  <2>3. n \notin Hosts(maps[s])
    BY <2>1, <2>2, Opened
  <2>4. s \in Past
    BY MapFacts
  <2> QED
    BY <1>2, <1>3, <2>3, <2>4
<1> QED
  BY <1>1, <1>3 DEF Fresh

LEMMA SeeKeeps ==
    ASSUME PlaceTypes, Whole, NEW n \in Node, See(n)
    PROVE  Whole'
<1>1. /\ SameMaps /\ seen' = [seen EXCEPT ![n] = @ + 1]
      /\ UNCHANGED <<shard, state, data, boot, voters, others, acked, forked>>
  BY DEF See, SameMaps
<1>2. MapsSound' /\ Placed' /\ Covered'
  BY <1>1, Same DEF Whole, Placed, Covered, Has, Left, Hosts
<1>3. \A x \in Node : Since(x)' \subseteq Since(x)
  <2>1. seen[n] \in Nat /\ seen[n] + 1 <= Len(maps) /\ Len(maps) \in Nat
    BY MapFacts DEF See, Past
  <2>2. \A x \in Node : seen'[x] = IF x = n THEN seen[n] + 1 ELSE seen[x]
    BY <1>1 DEF PlaceTypes
  <2> QED
    BY <1>1, <2>1, <2>2, MapFacts DEF Since, SameMaps
<1>4. Followed'
  <2>1. ASSUME NEW x \in Node, x \in shard' \ state' PROVE HostedBy(x)'
    <3>1. \A t \in Since(x) : x \in Hosts(maps[t])
      BY <1>1, <2>1, Opened DEF HostedBy, Whole
    <3>2. PlaceTypes'
      BY PlaceTypesNext, PlaceSteps DEF LogSteps
    <3>3. seen'[x] \in Since(x)'
      BY <3>2, MapFacts DEF Since, Past, PlaceTypes
    <3>4. MapOf(x)' = maps[seen'[x]]
      BY <1>1 DEF MapOf, SameMaps
    <3> QED
      BY <1>3, <3>1, <3>3, <3>4 DEF HostedBy, Hosts
  <2>2. ASSUME NEW x \in Node, NEW s \in Since(x)', NEW t \in Since(x)', s <= t
        PROVE  IF x \in state' THEN x \in Hosts(maps'[t]) => x \in Hosts(maps'[s])
                               ELSE x \in Hosts(maps'[s]) => x \in Hosts(maps'[t])
    BY <1>1, <1>3, <2>2 DEF Followed, Whole, SameMaps
  <2> QED
    BY <2>1, <2>2 DEF Followed, Hosts
<1>5. Fresh'
  BY <1>1, <1>3, Same DEF Fresh, Whole, SameMaps
<1> QED
  BY <1>2, <1>4, <1>5 DEF Whole

\* The members of a majority have every write, as far as they are not gone.
LEMMA QuorumCovers ==
    ASSUME PlaceTypes', NEW Q, Majority(Q, voters'), Q \subseteq (Has \cup Left)'
    PROVE  Covered'
<1>1. (Has \cup Left)' \subseteq voters' /\ voters' \subseteq Node
  BY DEF Has, Left, PlaceTypes
<1>2. /\ (Has \cup Left)' \in SUBSET voters' /\ voters' \in SUBSET Node
      /\ Q \in SUBSET (Has \cup Left)'
  BY <1>1
<1>3. 2 * Cardinality((Has \cup Left)') > Cardinality(voters')
  BY <1>2, MoreThanHalf
<1> QED
  BY <1>3 DEF Covered

LEMMA HasGrows ==
    ASSUME PlaceTypes', Covered, voters' = voters, Has \cup Left \subseteq (Has \cup Left)'
    PROVE  Covered'
<1>1. CASE voters = {}
  BY <1>1 DEF Covered
<1>2. CASE voters # {}
  <2>1. Majority(Has \cup Left, voters')
    BY <1>2 DEF Covered, Majority, Has, Left
  <2> QED
    BY <2>1, QuorumCovers
<1> QED
  BY <1>1, <1>2

\* Nodes with the log open take part in a step, and get a state.
LEMMA OpenKeeps ==
    ASSUME PlaceTypes, PlaceTypes', Whole, SameMaps, UNCHANGED <<seen, shard, boot, forked>>,
           NEW Q \in SUBSET shard, state' = state \cup Q,
           Placed', Covered'
    PROVE  Whole'
<1>1. Moves
  BY DEF Moves, Followed, Whole, PlaceTypes
<1> QED
  BY <1>1, LogFollowed, LogFresh, Same DEF Whole

LEMMA SubmitKeeps ==
    ASSUME PlaceTypes, PlaceTypes', Whole, Submit
    PROVE  Whole'
<1>1. PICK n \in voters, Q \in SUBSET voters :
        /\ LeadsWith(n, Q)
        /\ \E w : /\ acked' = acked \cup {w}
                  /\ data' = [m \in Node |-> IF m \in Q THEN data[n] \cup {w} ELSE data[m]]
        /\ state' = state \cup Q
  BY Zenon DEF Submit
<1>2. /\ SameMaps /\ UNCHANGED <<seen, shard, boot, voters, others, forked>>
  BY DEF Submit, SameMaps
<1>3. acked \subseteq data[n] /\ Majority(Q, voters) /\ Q \subseteq shard /\ Q \subseteq Node
  BY <1>1, LeaderHas DEF Whole, LeadsWith, PlaceTypes
<1>4. Q \subseteq Has'
  BY <1>1, <1>2, <1>3 DEF Has
<1>5. Covered'
  BY <1>2, <1>3, <1>4, QuorumCovers
<1>6. Placed'
  <2>1. shard \subseteq Ever /\ Ever' = Ever /\ boot # {}
    BY <1>1, <1>2, Same DEF Whole, Placed
  <2> QED
    BY <1>1, <1>2, <1>3, <2>1 DEF Whole, Placed
<1> QED
  BY <1>1, <1>2, <1>3, <1>5, <1>6, OpenKeeps

LEMMA ReplicateKeeps ==
    ASSUME PlaceTypes, PlaceTypes', Whole, NEW m \in Node, Replicate(m)
    PROVE  Whole'
<1>1. PICK n \in voters : CanLead(n) /\ data' = [data EXCEPT ![m] = data[n]]
  BY DEF Replicate
<1>2. /\ SameMaps /\ UNCHANGED <<seen, shard, boot, voters, others, forked, acked>>
      /\ state' = state \cup {m} /\ m \in shard
  BY DEF Replicate, SameMaps
<1>3. acked \subseteq data[n]
  BY <1>1, LeaderHas DEF CanLead, Whole
<1>4. Has \subseteq Has'
  BY <1>1, <1>2, <1>3 DEF Has, PlaceTypes
<1>5. Left \subseteq Left'
  <2>1. m \notin Left
    BY <1>2, Opened DEF Left, Whole
  <2> QED
    BY <1>2, <2>1, Same DEF Left, Hosts
<1>6. Covered'
  BY <1>2, <1>4, <1>5, HasGrows DEF Whole
<1>7. Placed'
  <2>1. shard \subseteq Ever /\ Ever' = Ever /\ boot # {}
    BY <1>1, <1>2, Same DEF Whole, Placed
  <2> QED
    BY <1>1, <1>2, <2>1 DEF Whole, Placed
<1>8. {m} \in SUBSET shard
  BY <1>2
<1> QED
  BY <1>2, <1>6, <1>7, <1>8, OpenKeeps

LEMMA MembersKeep ==
    ASSUME PlaceTypes, PlaceTypes', Whole, NEW n \in voters, CanLead(n),
           NEW vs \in SUBSET Ever, NEW os \in SUBSET Ever, vs \cap os = {},
           Members(n, vs, os)
    PROVE  Whole'
<1>1. PICK Q \in SUBSET vs :
        /\ n \in Q /\ TakenBy(Q, vs)
        /\ data' = [m \in Node |-> IF m \in Q THEN data[n] ELSE data[m]]
        /\ state' = state \cup Q
  BY DEF Members
<1>2. /\ SameMaps /\ UNCHANGED <<seen, shard, boot, forked, acked>>
      /\ voters' = vs /\ others' = os
  BY DEF Members, SameMaps
<1>3. acked \subseteq data[n] /\ Majority(Q, vs) /\ Q \subseteq shard /\ shard \subseteq Node
  BY <1>1, LeaderHas DEF CanLead, Whole, TakenBy, PlaceTypes
<1>4. Q \subseteq Has'
  BY <1>1, <1>2, <1>3 DEF Has
<1>5. Covered'
  BY <1>2, <1>3, <1>4, QuorumCovers
<1>6. Placed'
  <2>1. shard \subseteq Ever /\ Ever' = Ever /\ boot # {}
    BY <1>2, Same DEF Whole, Placed
  <2> QED
    BY <1>1, <1>2, <1>3, <2>1 DEF Whole, Placed
<1> QED
  BY <1>1, <1>2, <1>3, <1>5, <1>6, OpenKeeps

LEMMA ReconcileKeeps ==
    ASSUME PlaceTypes, PlaceTypes', Whole, NEW n \in Node, NEW m \in Node, Reconcile(n, m)
    PROVE  Whole'
<1>1. n \in voters /\ CanLead(n)
  BY DEF Reconcile, CanLead, LeadsWith
<1>2. /\ voters \subseteq Ever /\ others \subseteq Ever /\ voters \cap others = {}
  BY DEF Whole, Placed
<1>3. m \in Hosts(MapOf(n)) => m \in Ever
  BY MapFacts DEF Ever, MapOf
<1>4. CASE /\ m \in Hosts(MapOf(n)) /\ m \notin voters \cup others
           /\ Members(n, voters, others \cup {m})
  BY <1>1, <1>2, <1>3, <1>4, MembersKeep
<1>5. CASE m \in MapOf(n).voters /\ m \in others /\ Members(n, voters \cup {m}, others \ {m})
  BY <1>1, <1>2, <1>5, MembersKeep
<1>6. CASE m \in voters /\ Members(n, voters \ {m}, others \cup {m})
  BY <1>1, <1>2, <1>6, MembersKeep
<1>7. CASE Members(n, voters \ {m}, others \ {m})
  BY <1>1, <1>2, <1>7, MembersKeep
<1> QED
  BY <1>4, <1>5, <1>6, <1>7 DEF Reconcile

\* A first voter that begins does so with the voters all the others have.
LEMMA BeginsAlike ==
    ASSUME PlaceTypes, Whole, NEW n \in Node, n \notin state, n \in FirstVoters(MapOf(n))
    PROVE  FirstVoters(MapOf(n)) = Map.boot /\ boot \in {{}, Map.boot}
<1>1. seen[n] \in Since(n) /\ seen[n] \in Past /\ MapOf(n) = maps[seen[n]]
  BY MapFacts DEF MapOf
<1>2. n \in maps[seen[n]].boot
  BY <1>1 DEF FirstVoters
<1>3. /\ boot \in {{}, Map.boot}
      /\ maps[seen[n]].boot = Map.boot /\ Map.boot \subseteq maps[seen[n]].voters
  BY <1>1, <1>2 DEF Whole, Fresh
<1> QED
  BY <1>1, <1>3 DEF FirstVoters

LEMMA StartShardKeeps ==
    ASSUME PlaceTypes, PlaceTypes', Whole, NEW n \in Node, StartShard(n)
    PROVE  Whole'
<1> DEFINE first == FirstVoters(MapOf(n))
           begins == n \in first /\ n \notin state
<1>1. /\ SameMaps /\ UNCHANGED <<seen, data, others, acked>>
      /\ HostedBy(n) /\ shard' = shard \cup {n}
      /\ state' = IF begins THEN state \cup {n} ELSE state
      /\ IF begins /\ boot = {} THEN boot' = first /\ voters' = first
                                ELSE UNCHANGED <<boot, voters>>
      /\ forked' = (forked \/ (begins /\ boot \notin {{}, first}))
  BY DEF StartShard, SameMaps
<1>2. begins => first = Map.boot /\ boot \in {{}, Map.boot}
  BY BeginsAlike
<1>3. forked' = forked
  BY <1>1, <1>2 DEF Whole, Fresh, PlaceTypes
<1>4. Moves
  BY <1>1 DEF Moves
<1>5. Followed'
  BY <1>1, <1>4, LogFollowed DEF Whole
<1>6. Fresh'
  <2>1. CASE UNCHANGED <<boot, voters>>
    BY <1>1, <1>3, <1>4, <2>1, LogFresh DEF Whole
  <2>2. CASE begins /\ boot = {}
    <3>1. boot' = Map.boot /\ Map' = Map /\ maps' = maps /\ Past' = Past
          /\ \A x \in Node : Since(x)' = Since(x)
      BY <1>1, <1>2, <2>2, Same DEF SameMaps
    <3>2. ASSUME NEW x \in Node \ state', NEW s \in Since(x), x \in maps[s].boot
          PROVE  \A t \in Past : maps[t].boot # {} =>
                   maps[t].boot = Map.boot /\ Map.boot \subseteq maps[t].voters
      BY <1>1, <3>2 DEF Whole, Fresh
    <3> QED
      BY <1>3, <3>1, <3>2 DEF Fresh, Whole
  <2> QED
    BY <1>1, <2>1, <2>2
<1>7. n \in Ever /\ first \subseteq Ever
  <2>1. seen[n] \in Past /\ MapOf(n) = maps[seen[n]]
    BY MapFacts DEF MapOf
  <2> QED
    BY <1>1, <2>1 DEF HostedBy, Ever, FirstVoters, Hosts
<1>8. CASE begins /\ boot = {}
  <2>1. acked = {} /\ voters' = first /\ others = {} /\ first # {}
    BY <1>1, <1>8 DEF Whole, Placed
  <2>2. Placed'
    BY <1>1, <1>7, <1>8, <2>1, Same DEF Whole, Placed
  <2>3. Has' = voters' /\ voters' \subseteq Node
    BY <1>1, <2>1 DEF Has, PlaceTypes
  <2>4. Majority(voters', voters')
    BY <2>1, <2>3, FiniteNodes, FS_EmptySet DEF Majority
  <2>5. Covered'
    BY <2>3, <2>4, QuorumCovers
  <2> QED
    BY <1>1, <1>5, <1>6, <2>2, <2>5, Same DEF Whole
<1>9. CASE ~(begins /\ boot = {})
  <2>1. UNCHANGED <<boot, voters>>
    BY <1>1, <1>9
  <2>2. Placed'
    BY <1>1, <1>7, <1>9, <2>1, Same DEF Whole, Placed
  <2>3. Has' = Has
    BY <1>1, <2>1 DEF Has
  <2>4. Left \subseteq Left'
    <3>1. n \notin state => n \in Hosts(Map)
      BY <1>1, Opened, MapFacts DEF Whole, HostedBy, Map
    <3> QED
      BY <1>1, <2>1, <3>1, Same DEF Left, Hosts
  <2>5. Covered'
    BY <2>1, <2>3, <2>4, HasGrows DEF Whole
  <2> QED
    BY <1>1, <1>5, <1>6, <2>2, <2>5, Same DEF Whole
<1> QED
  BY <1>8, <1>9

LEMMA StopShardKeeps ==
    ASSUME PlaceTypes, PlaceTypes', Whole, NEW n \in Node, StopShard(n)
    PROVE  Whole'
<1>1. /\ SameMaps /\ UNCHANGED <<seen, boot, others, acked, forked>>
      /\ n \in shard /\ ~HostedBy(n) /\ shard' = shard \ {n}
  BY DEF StopShard, SameMaps
<1>2. n \in state /\ n \notin Hosts(Map)
  BY <1>1, Opened DEF Whole
<1>3. shard \subseteq Ever /\ Ever' = Ever /\ boot # {}
  BY <1>1, <1>2, Same DEF Whole, Placed
<1>4. CASE voters' = voters /\ data' = [data EXCEPT ![n] = {}] /\ state' = state \ {n}
  <2>1. Moves
    BY <1>1, <1>4 DEF Moves
  <2>2. Followed' /\ Fresh'
    BY <1>1, <2>1, LogFollowed, LogFresh DEF Whole
  <2>3. Placed'
    BY <1>1, <1>3, <1>4 DEF Whole, Placed
  <2>4. Hosts(Map)' = Hosts(Map)
    BY <1>1, Same DEF Hosts
  <2>5. Left \subseteq Left' /\ (n \in voters => n \in Left')
    BY <1>2, <1>4, <2>4 DEF Left
  <2>6. \A v \in voters : v # n => data'[v] = data[v]
    BY <1>4 DEF PlaceTypes
  <2>7. Has \subseteq Has' \cup {n}
    BY <1>1, <1>4, <2>6 DEF Has
  <2>8. Has \cup Left \subseteq (Has \cup Left)'
    BY <2>5, <2>7 DEF Has
  <2>9. Covered'
    BY <1>4, <2>8, HasGrows DEF Whole
  <2> QED
    BY <1>1, <2>2, <2>3, <2>9, Same DEF Whole
<1>5. ASSUME CanLead(n), voters' = voters \ {n},
             NEW Q \in SUBSET (voters \ {n}), TakenBy(Q, voters \ {n}),
             data' = [m \in Node |-> IF m = n THEN {} ELSE IF m \in Q THEN data[n] ELSE data[m]],
             state' = (state \cup Q) \ {n}
      PROVE  Whole'
  <2>1. Q \subseteq shard /\ Majority(Q, voters') /\ acked \subseteq data[n] /\ Q \subseteq Node
    BY <1>5, LeaderHas DEF TakenBy, CanLead, Whole, PlaceTypes
  <2>2. Moves
    BY <1>1, <1>5, <2>1 DEF Moves, Followed, Whole
  <2>3. Followed' /\ Fresh'
    BY <1>1, <2>2, LogFollowed, LogFresh DEF Whole
  <2>4. voters' # {}
    BY <2>1, NoEmptyMajority
  <2>5. Placed'
    BY <1>1, <1>3, <1>5, <2>1, <2>4 DEF Whole, Placed
  <2>6. Q \subseteq Has'
    BY <1>1, <1>5, <2>1 DEF Has
  <2>7. Covered'
    BY <2>1, <2>6, QuorumCovers
  <2> QED
    BY <1>1, <2>3, <2>5, <2>7, Same DEF Whole
<1> QED
  BY <1>4, <1>5 DEF StopShard

\* Nothing about the group's log but who has it open.
LEMMA IdleKeeps ==
    ASSUME PlaceTypes, Whole, SameMaps, shard' \subseteq shard,
           UNCHANGED <<seen, state, data, boot, voters, others, acked, forked>>
    PROVE  Whole'
<1>1. Moves
  BY DEF Moves, Followed, Whole, PlaceTypes
<1>2. Followed' /\ Fresh'
  BY <1>1, LogFollowed, LogFresh DEF Whole
<1>3. Placed' /\ Covered' /\ MapsSound'
  BY Same DEF Whole, Placed, Covered, Has, Left, Hosts
<1> QED
  BY <1>2, <1>3 DEF Whole

LEMMA LogKeeps ==
    ASSUME PlaceTypes, PlaceTypes', Whole, dead = {}, dead' = {}, LogSteps
    PROVE  Whole'
<1>1. CASE Submit
  BY <1>1, SubmitKeeps
<1>2. ASSUME NEW S \in Lost, Lose(S) PROVE Whole'
  <2>1. S = {}
    BY <1>2 DEF Lose
  <2>2. /\ SameMaps /\ shard' = shard /\ state' = state
        /\ UNCHANGED <<seen, boot, voters, others, acked, forked>>
    BY <1>2, <2>1 DEF Lose, SameMaps
  <2>3. data' = data
    BY <1>2, <2>1 DEF Lose, PlaceTypes
  <2> QED
    BY <2>2, <2>3, IdleKeeps
<1>3. ASSUME NEW n \in Node, See(n) PROVE Whole'
  BY <1>3, SeeKeeps
<1>4. ASSUME NEW n \in Node, StartShard(n) PROVE Whole'
  BY <1>4, StartShardKeeps
<1>5. ASSUME NEW n \in Node, StopShard(n) PROVE Whole'
  BY <1>5, StopShardKeeps
<1>6. ASSUME NEW n \in Node, Replicate(n) PROVE Whole'
  BY <1>6, ReplicateKeeps
<1>7. ASSUME NEW n \in Node, Stop(n) PROVE Whole'
  BY <1>7, IdleKeeps DEF Stop, SameMaps
<1>8. ASSUME NEW n \in Node, Start(n) PROVE Whole'
  BY <1>8, IdleKeeps DEF Start, SameMaps
<1>9. ASSUME NEW n \in Node, NEW m \in Node, Reconcile(n, m) PROVE Whole'
  BY <1>9, ReconcileKeeps
<1> QED
  BY <1>1, <1>2, <1>3, <1>4, <1>5, <1>6, <1>7, <1>8, <1>9, Zenon DEF LogSteps

\* What no step changes, or changes once.
LEMMA Lasting ==
    ASSUME [PlaceNext]_placeVars
    PROVE  plan' = plan /\ (dead = {} \/ dead' = dead)
<1>1. CASE LogSteps
  <2>1. Submit => plan' = plan /\ dead' = dead
    BY DEF Submit
  <2>2. \A S \in Lost : Lose(S) => plan' = plan /\ dead = {}
    BY DEF Lose
  <2>3. \A n \in Node : See(n) \/ StartShard(n) \/ StopShard(n) => plan' = plan /\ dead' = dead
    BY Zenon DEF See, StartShard, StopShard
  <2>4. \A n \in Node : Replicate(n) \/ Stop(n) \/ Start(n) => plan' = plan /\ dead' = dead
    BY Zenon DEF Replicate, Stop, Start
  <2>5. \A n, m \in Node : Reconcile(n, m) => plan' = plan /\ dead' = dead
    BY Zenon DEF Reconcile, Members
  <2> QED
    BY <1>1, <2>1, <2>2, <2>3, <2>4, <2>5, Zenon DEF LogSteps
<1>2. CASE CreateGroup
  BY <1>2 DEF CreateGroup, Change
<1>3. ASSUME NEW n \in Node, Register(n) \/ UnplaceGroup(n) \/ Recover(n)
      PROVE  plan' = plan /\ dead' = dead
  BY <1>3, Zenon DEF Register, RegisterNode, UnplaceGroup, Recover, Change
<1>4. ASSUME NEW n \in Node, NEW voter \in BOOLEAN, PlaceGroup(n, voter)
      PROVE  plan' = plan /\ dead' = dead
  BY <1>4, Zenon DEF PlaceGroup, Change
<1>5. ASSUME NEW n \in Node, NEW m \in Node, AdminRemove(n, m)
      PROVE  plan' = plan /\ dead' = dead
  BY <1>5, Zenon DEF AdminRemove, RemoveNode, Change
<1>6. CASE UNCHANGED placeVars
  BY <1>6 DEF placeVars
<1> QED
  BY <1>1, <1>2, <1>3, <1>4, <1>5, <1>6, PlaceSteps, Zenon

LEMMA PlaceInvInit == PlaceInit => PlaceInv
<1> SUFFICES ASSUME PlaceInit PROVE Whole
  BY DEF PlaceInv
<1> DEFINE m == [nodes |-> First, made |-> FALSE, voters |-> {}, others |-> {}, boot |-> {}]
<1>1. Len(maps) = 1 /\ maps[1] = m
  BY DEF PlaceInit
<1>2. Past = {1} /\ Map = m
  BY <1>1 DEF Past, Map
<1>3. Sound(m) /\ Hosts(m) = {} /\ m.boot = {} /\ m.nodes \subseteq m.nodes
  BY DEF Sound, Hosts
<1> HIDE DEF m
<1>4. Ever = {}
  BY <1>1, <1>2, <1>3 DEF Ever
<1>5. MapsSound
  BY <1>1, <1>2, <1>3, <1>4 DEF MapsSound
<1>6. \A n \in Node : Since(n) = {1}
  BY <1>1 DEF Since, PlaceInit
<1>7. Placed /\ Covered
  BY DEF Placed, Covered, PlaceInit
<1>8. Followed
  BY <1>1, <1>3, <1>6 DEF Followed, PlaceInit
<1>9. Fresh
  BY <1>1, <1>3, <1>6 DEF Fresh, PlaceInit
<1> QED
  BY <1>5, <1>7, <1>8, <1>9 DEF Whole

LEMMA PlaceInvNext ==
    PlaceTypes /\ PlaceTypes' /\ PlaceInv /\ [PlaceNext]_placeVars => PlaceInv'
<1> SUFFICES ASSUME PlaceTypes, PlaceTypes', PlaceInv, [PlaceNext]_placeVars,
                    Careful', dead' = {}
             PROVE  Whole'
  BY DEF PlaceInv
<1>1. plan' = plan /\ (dead = {} \/ dead' = dead)
  BY Lasting
<1>2. Careful
  BY <1>1 DEF Careful, Ops
<1>4. dead = {} /\ Whole
  BY <1>1, <1>2 DEF PlaceInv
<1>5. CASE LogSteps
  BY <1>4, <1>5, LogKeeps
<1>6. CASE CreateGroup
  BY <1>4, <1>6, CreateKeeps
<1>7. ASSUME NEW n \in Node, Register(n) PROVE Whole'
  BY <1>4, <1>7, RegisterKeeps
<1>8. ASSUME NEW n \in Node, UnplaceGroup(n) PROVE Whole'
  BY <1>2, <1>4, <1>8, UnplaceKeeps
<1>9. ASSUME NEW n \in Node, Recover(n) PROVE Whole'
  BY <1>4, <1>9 DEF Recover
<1>10. ASSUME NEW n \in Node, NEW voter \in BOOLEAN, PlaceGroup(n, voter) PROVE Whole'
  BY <1>2, <1>4, <1>10, PlaceKeeps
<1>11. ASSUME NEW n \in Node, NEW m \in Node, AdminRemove(n, m) PROVE Whole'
  BY <1>4, <1>11 DEF AdminRemove
<1>12. CASE UNCHANGED placeVars
  BY <1>4, <1>12, IdleKeeps DEF placeVars, SameMaps
<1> QED
  BY <1>5, <1>6, <1>7, <1>8, <1>9, <1>10, <1>11, <1>12, PlaceSteps, Zenon

\* Every majority of those who can have a say has every acknowledged write.
LEMMA KeptHolds ==
    ASSUME PlaceTypes, PlaceInv, Careful
    PROVE  Kept
<1> SUFFICES ASSUME dead = {} PROVE
       /\ \A Q \in SUBSET Electors :
            Majority(Q, voters) => acked \subseteq UNION {data[q] : q \in Q}
       /\ ~forked
  BY DEF Kept
<1>1. Whole
  BY DEF PlaceInv
<1>2. ASSUME NEW Q \in SUBSET Electors, Majority(Q, voters)
      PROVE  acked \subseteq UNION {data[q] : q \in Q}
  <2>1. voters \in SUBSET Node /\ Q \in SUBSET voters /\ Has \cup Left \in SUBSET voters
    BY <1>2 DEF PlaceTypes, Majority, Has, Left
  <2>2. Q \cap (Has \cup Left) # {}
    BY <1>1, <1>2, <2>1, NoEmptyMajority, Overlap DEF Whole, Covered
  <2>3. Q \cap Left = {}
    BY <1>1, <2>1, Opened DEF Electors, Left, Whole
  <2> QED
    BY <2>2, <2>3 DEF Has
<1> QED
  BY <1>1, <1>2 DEF Whole, Fresh

\* The maps, memberships, copies and logs of a group are what they are taken for:
\* nodes, and maps a copy of site.db can be at.
THEOREM PlaceTypesHold == PlaceSpec => []PlaceTypes
<1>1. PlaceInit => PlaceTypes
  BY PlaceTypesInit
<1>2. PlaceTypes /\ [PlaceNext]_placeVars => PlaceTypes'
  BY PlaceTypesNext
<1> QED
  BY <1>1, <1>2, PTL DEF PlaceSpec

\* Where no node is lost for good, and an operator who moves the group about (PlaceGroup,
\* UnplaceGroup) waits for each change, no acknowledged write is forgotten and no node
\* starts a second log, however nodes lag behind the map, stop, lead and clean up.
THEOREM PlacementKept == PlaceSpec => [](Careful => Kept)
<1>1. PlaceInit => PlaceInv
  BY PlaceInvInit
<1>2. PlaceTypes /\ PlaceTypes' /\ PlaceInv /\ [PlaceNext]_placeVars => PlaceInv'
  BY PlaceInvNext
<1>3. PlaceTypes /\ PlaceInv => (Careful => Kept)
  BY KeptHolds
<1> QED
  BY <1>1, <1>2, <1>3, PlaceTypesHold, PTL DEF PlaceSpec

-----------------------------------------------------------------------------
(***************************************************************************)
(* A patient operator: the group can be served.                            *)
(***************************************************************************)
\* The plans of an operator who is patient as well.
Patient == {"place", "unplace"} \cap Ops # {} => {"careful", "patient"} \subseteq Ops

\* The nodes on their way out: the log is still with them, the map is not.
Pending == (state \cup voters) \ Hosts(Map)

\* At most one node is on its way out, and but for it every copy of the map a
\* member may still follow has the voters the log has; where it voted, two
\* others do.
Leaving ==
    \A u \in Pending :
      /\ Pending = {u} /\ voters \ {u} = Map.voters
      /\ u \in voters => Cardinality(Map.voters) > 1
      /\ \A n \in state : \A s \in Since(n) :
           /\ maps[s].voters \ {u} = Map.voters
           /\ u \in maps[s].voters => Cardinality(Map.voters) > 1

\* While a node the map has put the group on has no state yet, no map changes
\* the voters.
Awaited ==
    \A n \in Node \ state : \A s \in Since(n) :
      n \in Hosts(maps[s]) => maps[s].voters = Map.voters

Steady == Leaving /\ Awaited
SteadyInv == Patient /\ dead = {} => Steady

LEMMA ChangeAwaited ==
    ASSUME PlaceTypes, Whole, Awaited, NEW m \in MapRec, Change(m),
           m.voters = Map.voters \/ Hosts(Map) \subseteq state
    PROVE  Awaited'
<1> DEFINE k == Len(maps')
           l == Len(maps)
<1>1. /\ Map' = m /\ maps'[k] = m /\ state' = state
      /\ \A n \in Node : Since(n)' = Since(n) \cup {k} /\ \A s \in Since(n) : s \in Past
      /\ \A t \in Past : maps'[t] = maps[t]
  BY Changed
<1>2. /\ \A n \in Node : l \in Since(n)
      /\ \A t \in Past : t <= l
      /\ Map = maps[l]
  BY MapFacts DEF Past, Map
<1> HIDE DEF k, l
<1>3. ASSUME NEW n \in Node \ state, NEW s \in Since(n), n \in Hosts(maps[s])
      PROVE  maps[s].voters = m.voters
  <2>1. CASE m.voters = Map.voters
    BY <1>3, <2>1 DEF Awaited
  <2>2. CASE Hosts(Map) \subseteq state
    <3>1. n \in Hosts(Map)
      BY <1>1, <1>2, <1>3 DEF Whole, Followed
    <3> QED
      BY <2>2, <3>1
  <2> QED
    BY <2>1, <2>2
<1> QED
  BY <1>1, <1>3 DEF Awaited, Hosts

\* A change of the map that leaves the voters alone, and puts the group on no
\* node on its way out.
LEMMA SameVotersLeaving ==
    ASSUME PlaceTypes, Leaving, NEW m \in MapRec, Change(m),
           (state \cup voters) \ Hosts(m) = Pending, m.voters = Map.voters
    PROVE  Leaving'
<1> DEFINE k == Len(maps')
<1>1. /\ Map' = m /\ maps'[k] = m /\ state' = state /\ voters' = voters
      /\ \A n \in Node : Since(n)' = Since(n) \cup {k} /\ \A s \in Since(n) : s \in Past
      /\ \A t \in Past : maps'[t] = maps[t]
      /\ state \subseteq Node
  BY Changed DEF PlaceTypes
<1>2. Pending' = Pending
  BY <1>1 DEF Pending, Hosts
<1>3. \A u \in Pending : u \notin Map.voters
  BY DEF Pending, Hosts
<1> HIDE DEF k
<1>4. ASSUME NEW u \in Pending, NEW n \in state, NEW s \in Since(n)'
      PROVE  /\ maps'[s].voters \ {u} = m.voters
             /\ u \in maps'[s].voters => Cardinality(m.voters) > 1
  <2>1. CASE s \in Since(n)
    BY <1>1, <2>1, <1>4 DEF Leaving
  <2>2. CASE s = k
    BY <1>1, <1>3, <1>4, <2>2
  <2> QED
    BY <1>1, <1>4, <2>1, <2>2
<1> QED
  BY <1>1, <1>2, <1>4 DEF Leaving

LEMMA NobodyLeaving ==
    ASSUME Pending' = {}
    PROVE  Leaving'
BY DEF Leaving

LEMMA CreateSteady ==
    ASSUME PlaceTypes, Whole, Steady, CreateGroup
    PROVE  Steady'
<1>1. PICK m \in MapRec : Change(m) /\ ~Map.made
  BY Created
<1>2. Hosts(Map) = {} /\ state = {} /\ voters = {}
  BY <1>1, Nothing DEF Whole, Sound
<1>3. Awaited'
  BY <1>1, <1>2, ChangeAwaited DEF Steady
<1>4. Pending' = {}
  BY <1>1, <1>2, Changed DEF Pending
<1> QED
  BY <1>3, <1>4, NobodyLeaving DEF Steady

LEMMA RegisterSteady ==
    ASSUME PlaceTypes, Whole, Steady, NEW n \in Node, Register(n)
    PROVE  Steady'
<1>1. PICK m \in MapRec :
        /\ Change(m)
        /\ m.nodes = Map.nodes \cup {n} /\ m.made = Map.made
        /\ \/ /\ Map.made /\ Hosts(Map) = {}
              /\ m.voters = {n} /\ m.boot = {n} /\ m.others = Map.others
           \/ /\ m.voters = Map.voters /\ m.boot = Map.boot
              /\ m.others = IF n \in FullNode /\ Map.made /\ n \notin Hosts(Map)
                            THEN Map.others \cup {n} ELSE Map.others
  BY Registered DEF Register
<1>2. /\ Sound(Map) /\ Ever \subseteq Map.nodes
      /\ Hosts(Map) = {} => state = {} /\ voters = {} /\ boot = {}
      /\ state \cup voters \subseteq Ever
  BY Nothing DEF Whole, Placed
<1>3. CASE Hosts(Map) = {}
  <2>1. Pending' = {}
    BY <1>1, <1>2, <1>3, Changed DEF Pending
  <2>2. Awaited'
    BY <1>1, <1>2, <1>3, ChangeAwaited DEF Steady
  <2> QED
    BY <2>1, <2>2, NobodyLeaving DEF Steady
<1>4. CASE /\ m.voters = Map.voters
           /\ m.others = IF n \in FullNode /\ Map.made /\ n \notin Hosts(Map)
                         THEN Map.others \cup {n} ELSE Map.others
  <2>1. Hosts(m) = Hosts(Map) \/ (Hosts(m) = Hosts(Map) \cup {n} /\ n \notin Map.nodes)
    BY <1>2, <1>4 DEF Sound, Hosts
  <2>2. (state \cup voters) \ Hosts(m) = Pending
    BY <1>2, <2>1 DEF Pending
  <2>3. Leaving'
    BY <1>1, <1>4, <2>2, SameVotersLeaving DEF Steady
  <2>4. Awaited'
    BY <1>1, <1>4, ChangeAwaited DEF Steady
  <2> QED
    BY <2>3, <2>4 DEF Steady
<1> QED
  BY <1>1, <1>3, <1>4

LEMMA PlaceSteady ==
    ASSUME PlaceTypes, Whole, Steady, Patient, NEW n \in Node, NEW voter \in BOOLEAN,
           PlaceGroup(n, voter)
    PROVE  Steady'
<1>1. PICK m \in MapRec :
        /\ Change(m) /\ Allowed /\ "place" \in Ops
        /\ m.voters = IF voter THEN Map.voters \cup {n} ELSE Map.voters \ {n}
        /\ m.others = IF voter THEN Map.others \ {n} ELSE Map.others \cup {n}
  BY PlacedOn
<1>2. voters = Map.voters /\ state = Hosts(Map)
  BY <1>1 DEF Patient, Allowed
<1>3. Hosts(Map) \subseteq Hosts(m)
  BY <1>1 DEF Hosts
<1>4. Pending' = {}
  BY <1>1, <1>2, <1>3, Changed DEF Pending, Hosts
<1>5. Awaited'
  BY <1>1, <1>2, ChangeAwaited DEF Steady
<1> QED
  BY <1>4, <1>5, NobodyLeaving DEF Steady

LEMMA UnplaceSteady ==
    ASSUME PlaceTypes, Whole, Steady, Patient, NEW u \in Node, UnplaceGroup(u)
    PROVE  Steady'
<1> DEFINE k == Len(maps')
           l == Len(maps)
<1>1. PICK m \in MapRec :
        /\ Change(m) /\ Allowed /\ "unplace" \in Ops /\ SpareVoter(u)
        /\ m.voters = Map.voters \ {u} /\ m.others = Map.others \ {u}
  BY TakenOff
<1>2. /\ voters = Map.voters /\ state = Hosts(Map)
      /\ \A n \in Hosts(Map) : seen[n] = l
      /\ u \in Map.voters => Cardinality(Map.voters) > 2
  BY <1>1 DEF Patient, Allowed, SpareVoter
<1>3. /\ Map' = m /\ maps'[k] = m /\ state' = state /\ voters' = voters
      /\ \A n \in Node : Since(n)' = Since(n) \cup {k} /\ \A s \in Since(n) : s \in Past
      /\ \A t \in Past : maps'[t] = maps[t]
      /\ state \subseteq Node /\ l \in Nat /\ Map = maps[l]
  BY <1>1, Changed, MapFacts DEF PlaceTypes, Map
<1>4. Awaited'
  BY <1>1, <1>2, ChangeAwaited DEF Steady
<1>5. Hosts(m) = Hosts(Map) \ {u}
  BY <1>1 DEF Hosts
<1>6. Pending' \subseteq {u}
  BY <1>2, <1>3, <1>5 DEF Pending, Hosts
<1>7. u \in Map.voters => Cardinality(m.voters) > 1
  <2>1. Map.voters \in SUBSET Node
    BY MapFacts DEF MapRec
  <2>2. IsFiniteSet(Map.voters) /\ Cardinality(Map.voters) \in Nat
    BY <2>1, FiniteNodes
  <2>3. u \in Map.voters => Cardinality(m.voters) = Cardinality(Map.voters) - 1
    BY <1>1, <2>2, FS_RemoveElement
  <2> QED
    BY <1>2, <2>2, <2>3
<1>8. \A n \in state : Since(n) = {l}
  BY <1>2, <1>3 DEF Since
<1> HIDE DEF k, l
<1>9. ASSUME NEW n \in state, NEW s \in Since(n)'
      PROVE  /\ maps'[s].voters \ {u} = m.voters
             /\ u \in maps'[s].voters => Cardinality(m.voters) > 1
  <2>1. s = l \/ s = k
    BY <1>3, <1>8
  <2>2. l \in Past
    BY <1>3, <1>8
  <2> QED
    BY <1>1, <1>3, <1>7, <2>1, <2>2
<1>10. Leaving'
  <2> SUFFICES ASSUME Pending' # {} PROVE Leaving'
    BY NobodyLeaving
  <2>1. Pending' = {u}
    BY <1>6
  <2>2. /\ voters' \ {u} = Map'.voters
        /\ u \in voters' => Cardinality(Map'.voters) > 1
    BY <1>1, <1>2, <1>3, <1>7
  <2>3. \A n \in state' : \A s \in Since(n)' :
           /\ maps'[s].voters \ {u} = Map'.voters
           /\ u \in maps'[s].voters => Cardinality(Map'.voters) > 1
    BY <1>3, <1>9
  <2>4. \A x \in Pending' : x = u
    BY <2>1
  <2> QED
    BY <2>1, <2>2, <2>3, <2>4, Zenon DEF Leaving
<1> QED
  BY <1>4, <1>10 DEF Steady

LEMMA LogAwaited ==
    ASSUME PlaceTypes, Whole, Awaited, SameMaps, seen' = seen, Moves
    PROVE  Awaited'
<1>1. Map' = Map /\ maps' = maps /\ \A n \in Node : Since(n)' = Since(n)
  BY Same DEF SameMaps
<1>2. ASSUME NEW n \in Node \ state', NEW s \in Since(n), n \in Hosts(maps[s])
      PROVE  n \notin state
  BY <1>2, Opened DEF Moves, HostedBy, Whole
<1> QED
  BY <1>1, <1>2 DEF Awaited, Hosts

\* The voters change by the node on its way out alone, and it comes back only
\* where two others vote.
LEMMA LogLeaving ==
    ASSUME PlaceTypes, Whole, Steady, SameMaps, seen' = seen, Moves,
           Pending' \subseteq Pending,
           \A u \in Pending' : /\ voters' \ {u} = voters \ {u}
                               /\ u \in voters' => u \in voters \/ Cardinality(Map.voters) > 1
    PROVE  Leaving'
<1>1. Map' = Map /\ maps' = maps /\ \A n \in Node : Since(n)' = Since(n)
  BY Same DEF SameMaps
<1>2. ASSUME NEW u \in Pending', NEW n \in state', NEW s \in Since(n)'
      PROVE  /\ maps'[s].voters \ {u} = Map'.voters
             /\ u \in maps'[s].voters => Cardinality(Map'.voters) > 1
  <2>1. u \in Pending /\ u \notin Map.voters
    BY <1>2 DEF Pending, Hosts
  <2>2. CASE n \in state
    <3>1. n \in Node
      BY <2>2 DEF PlaceTypes
    <3> QED
      BY <1>1, <2>1, <2>2, <3>1, <1>2 DEF Steady, Leaving
  <2>3. CASE n \notin state
    <3>1. n \in Node /\ HostedBy(n)
      BY <1>2, <2>3 DEF Moves
    <3>2. s \in Since(n) /\ n \in Hosts(maps[s])
      BY <1>1, <1>2, <2>3, <3>1, Opened DEF Whole, HostedBy
    <3>3. maps[s].voters = Map.voters
      BY <2>3, <3>1, <3>2 DEF Steady, Awaited
    <3> QED
      BY <1>1, <2>1, <3>3
  <2> QED
    BY <2>2, <2>3
<1>3. ASSUME NEW u \in Pending'
      PROVE  /\ Pending' = {u} /\ voters' \ {u} = Map'.voters
             /\ u \in voters' => Cardinality(Map'.voters) > 1
  <2>1. u \in Pending
    BY <1>3
  <2>2. /\ Pending = {u} /\ voters \ {u} = Map.voters
        /\ u \in voters => Cardinality(Map.voters) > 1
    BY <2>1 DEF Steady, Leaving
  <2> QED
    BY <1>1, <1>3, <2>2
<1> QED
  BY <1>2, <1>3 DEF Leaving

\* A step that leaves the voters alone.
LEMMA VotersSteady ==
    ASSUME PlaceTypes, Whole, Steady, SameMaps, seen' = seen, Moves, voters' = voters
    PROVE  Steady'
<1>1. state' \ Hosts(Map) \subseteq state
  BY Arrivals DEF Whole
<1>2. Pending' \subseteq Pending
  BY <1>1, Same DEF Pending, Hosts
<1>3. Leaving'
  BY <1>2, LogLeaving
<1> QED
  BY <1>3, LogAwaited DEF Steady

LEMMA SeeSteady ==
    ASSUME PlaceTypes, PlaceTypes', Whole, Steady, NEW n \in Node, See(n)
    PROVE  Steady'
<1>1. SameMaps /\ UNCHANGED <<state, voters>> /\ seen' = [seen EXCEPT ![n] = @ + 1]
  BY DEF See, SameMaps
<1>2. \A x \in Node : Since(x)' \subseteq Since(x)
  <2>1. seen[n] \in Nat /\ seen[n] + 1 <= Len(maps) /\ Len(maps) \in Nat
    BY MapFacts DEF See, Past
  <2>2. \A x \in Node : seen'[x] = IF x = n THEN seen[n] + 1 ELSE seen[x]
    BY <1>1 DEF PlaceTypes
  <2> QED
    BY <1>1, <2>1, <2>2, MapFacts DEF Since, SameMaps
<1>3. Pending' = Pending /\ Map' = Map /\ maps' = maps
  BY <1>1, Same DEF Pending, Hosts, SameMaps
<1>4. Awaited'
  BY <1>1, <1>2, <1>3 DEF Steady, Awaited, Hosts
<1>5. Leaving'
  <2>1. \A x \in state : x \in Node
    BY DEF PlaceTypes
  <2> QED
    BY <1>1, <1>2, <1>3, <2>1 DEF Steady, Leaving
<1> QED
  BY <1>4, <1>5 DEF Steady

LEMMA OpenMoves ==
    ASSUME PlaceTypes, Whole, NEW Q \in SUBSET shard, shard' = shard, state' = state \cup Q
    PROVE  Moves
BY DEF Moves, Followed, Whole, PlaceTypes

LEMMA ReconcileSteady ==
    ASSUME PlaceTypes, Whole, Steady, NEW n \in Node, NEW m \in Node, Reconcile(n, m)
    PROVE  Steady'
<1>1. /\ SameMaps /\ UNCHANGED <<seen, shard>>
      /\ \E Q \in SUBSET shard : state' = state \cup Q
  BY Zenon DEF Reconcile, Members, TakenBy, SameMaps
<1>2. Moves
  BY <1>1, OpenMoves
<1>3. /\ n \in state /\ seen[n] \in Since(n) /\ MapOf(n) = maps[seen[n]]
      /\ maps[seen[n]].voters \cap maps[seen[n]].others = {}
  BY MapFacts DEF Reconcile, CanLead, LeadsWith, MapOf, Whole, MapsSound, Sound
<1>4. voters' = voters \/ voters' = voters \cup {m} \/ voters' = voters \ {m}
  BY DEF Reconcile, Members
<1>5. /\ voters' = voters \/ \/ /\ m \in MapOf(n).voters /\ m \in others /\ m \in shard
                                /\ voters' = voters \cup {m}
                             \/ /\ m \notin MapOf(n).voters /\ voters' = voters \ {m}
  <2>1. CASE /\ m \in Hosts(MapOf(n)) /\ m \notin voters \cup others
             /\ Members(n, voters, others \cup {m})
    BY <2>1 DEF Members
  <2>2. CASE /\ m \in MapOf(n).voters /\ m \in others /\ CaughtUp(n, m)
             /\ Members(n, voters \cup {m}, others \ {m})
    BY <2>2 DEF Members, CaughtUp
  <2>3. CASE m \in MapOf(n).others /\ m \in voters /\ Members(n, voters \ {m}, others \cup {m})
    BY <1>3, <2>3 DEF Members
  <2>4. CASE m \notin Hosts(MapOf(n)) /\ Members(n, voters \ {m}, others \ {m})
    BY <2>4 DEF Members, Hosts
  <2> QED
    BY <2>1, <2>2, <2>3, <2>4 DEF Reconcile
<1>6. Pending' \subseteq Pending
  <2>1. state' \ Hosts(Map) \subseteq state
    BY <1>2, Arrivals DEF Whole
  <2>2. m \in shard \ Hosts(Map) => m \in state
    BY Opened DEF Whole
  <2> QED
    BY <1>1, <1>5, <2>1, <2>2, Same DEF Pending, Hosts
<1>7. ASSUME NEW u \in Pending'
      PROVE  /\ voters' \ {u} = voters \ {u}
             /\ u \in voters' => u \in voters \/ Cardinality(Map.voters) > 1
  <2>1. /\ maps[seen[n]].voters \ {u} = voters \ {u}
        /\ u \in maps[seen[n]].voters => Cardinality(Map.voters) > 1
    BY <1>3, <1>6, <1>7 DEF Steady, Leaving
  <2>2. voters \cap others = {}
    BY DEF Whole, Placed
  <2> QED
    BY <1>3, <1>5, <2>1, <2>2
<1> QED
  BY <1>1, <1>2, <1>6, <1>7, LogLeaving, LogAwaited DEF Steady

LEMMA StartShardSteady ==
    ASSUME PlaceTypes, Whole, Steady, NEW n \in Node, StartShard(n)
    PROVE  Steady'
<1> DEFINE first == FirstVoters(MapOf(n))
           begins == n \in first /\ n \notin state
<1>1. /\ SameMaps /\ seen' = seen /\ HostedBy(n) /\ shard' = shard \cup {n}
      /\ state' = IF begins THEN state \cup {n} ELSE state
      /\ IF begins /\ boot = {} THEN voters' = first ELSE voters' = voters
  BY DEF StartShard, SameMaps
<1>2. Moves
  BY <1>1 DEF Moves
<1>3. CASE begins /\ boot = {}
  <2>1. first = Map.boot
    BY <1>3, BeginsAlike
  <2>2. Map.boot \subseteq Hosts(Map) /\ state = {}
    BY <1>3, Nothing DEF Whole, Placed, Sound
  <2>3. Pending' = {}
    BY <1>1, <1>3, <2>1, <2>2, Same DEF Pending, Hosts
  <2> QED
    BY <1>1, <1>2, <2>3, NobodyLeaving, LogAwaited DEF Steady
<1>4. CASE ~(begins /\ boot = {})
  BY <1>1, <1>2, <1>4, VotersSteady
<1> QED
  BY <1>3, <1>4

LEMMA StopShardSteady ==
    ASSUME PlaceTypes, Whole, Steady, NEW n \in Node, StopShard(n)
    PROVE  Steady'
<1>1. /\ SameMaps /\ seen' = seen
      /\ n \in shard /\ ~HostedBy(n) /\ shard' = shard \ {n}
  BY DEF StopShard, SameMaps
<1>2. n \in state /\ n \notin Hosts(Map)
  BY <1>1, Opened DEF Whole
<1>3. Pending = {n}
  BY <1>2 DEF Pending, Steady, Leaving
<1>4. /\ voters' = voters \/ voters' = voters \ {n}
      /\ \E Q \in SUBSET shard : state' = (state \cup Q) \ {n}
  <2>1. CASE voters' = voters /\ state' = state \ {n}
    <3>1. state' = (state \cup {}) \ {n} /\ {} \in SUBSET shard
      BY <2>1
    <3> QED
      BY <2>1, <3>1
  <2>2. CASE voters' = voters \ {n} /\ \E Q \in SUBSET shard : state' = (state \cup Q) \ {n}
    BY <2>2
  <2> QED
    BY <2>1, <2>2 DEF StopShard, TakenBy
<1>5. Moves
  BY <1>1, <1>4 DEF Moves, Followed, Whole, PlaceTypes
<1>6. Pending' \subseteq Pending
  <2>1. state' \ Hosts(Map) \subseteq state
    BY <1>5, Arrivals DEF Whole
  <2> QED
    BY <1>1, <1>4, <2>1, Same DEF Pending, Hosts
<1>7. \A u \in Pending' : voters' \ {u} = voters \ {u} /\ (u \in voters' => u \in voters)
  BY <1>3, <1>4, <1>6
<1> QED
  BY <1>1, <1>5, <1>6, <1>7, LogLeaving, LogAwaited DEF Steady

LEMMA IdleSteady ==
    ASSUME PlaceTypes, Whole, Steady, SameMaps, shard' \subseteq shard,
           UNCHANGED <<seen, state, voters>>
    PROVE  Steady'
<1>1. Moves
  BY DEF Moves, Followed, Whole, PlaceTypes
<1> QED
  BY <1>1, VotersSteady

LEMMA LogSteady ==
    ASSUME PlaceTypes, PlaceTypes', Whole, Steady, dead = {}, dead' = {}, LogSteps
    PROVE  Steady'
<1>1. CASE Submit
  <2>1. PICK Q \in SUBSET voters : \E n : LeadsWith(n, Q) /\ state' = state \cup Q
    BY <1>1, Zenon DEF Submit
  <2>2. Q \in SUBSET shard /\ SameMaps /\ UNCHANGED <<seen, shard, voters>>
    BY <1>1, <2>1 DEF Submit, LeadsWith, SameMaps
  <2> QED
    BY <2>1, <2>2, OpenMoves, VotersSteady
<1>2. ASSUME NEW S \in Lost, Lose(S) PROVE Steady'
  <2>1. S = {}
    BY <1>2 DEF Lose
  <2> QED
    BY <1>2, <2>1, IdleSteady DEF Lose, SameMaps
<1>3. ASSUME NEW n \in Node, See(n) PROVE Steady'
  BY <1>3, SeeSteady
<1>4. ASSUME NEW n \in Node, StartShard(n) PROVE Steady'
  BY <1>4, StartShardSteady
<1>5. ASSUME NEW n \in Node, StopShard(n) PROVE Steady'
  BY <1>5, StopShardSteady
<1>6. ASSUME NEW m \in Node, Replicate(m) PROVE Steady'
  <2>1. /\ {m} \in SUBSET shard /\ state' = state \cup {m}
        /\ SameMaps /\ UNCHANGED <<seen, shard, voters>>
    BY <1>6 DEF Replicate, SameMaps
  <2> QED
    BY <2>1, OpenMoves, VotersSteady
<1>7. ASSUME NEW n \in Node, Stop(n) PROVE Steady'
  BY <1>7, IdleSteady DEF Stop, SameMaps
<1>8. ASSUME NEW n \in Node, Start(n) PROVE Steady'
  BY <1>8, IdleSteady DEF Start, SameMaps
<1>9. ASSUME NEW n \in Node, NEW m \in Node, Reconcile(n, m) PROVE Steady'
  BY <1>9, ReconcileSteady
<1> QED
  BY <1>1, <1>2, <1>3, <1>4, <1>5, <1>6, <1>7, <1>8, <1>9, Zenon DEF LogSteps

LEMMA SteadyInit == PlaceInit => SteadyInv
<1> SUFFICES ASSUME PlaceInit PROVE Steady
  BY DEF SteadyInv
<1>1. Leaving
  BY DEF PlaceInit, Leaving, Pending
<1>2. \A n \in Node : Since(n) = {1}
  BY DEF PlaceInit, Since
<1>3. Map = maps[1]
  BY DEF PlaceInit, Map
<1> QED
  BY <1>1, <1>2, <1>3 DEF Steady, Awaited

LEMMA SteadyNext ==
    PlaceTypes /\ PlaceTypes' /\ PlaceInv /\ SteadyInv /\ [PlaceNext]_placeVars => SteadyInv'
<1> SUFFICES ASSUME PlaceTypes, PlaceTypes', PlaceInv, SteadyInv, [PlaceNext]_placeVars,
                    Patient', dead' = {}
             PROVE  Steady'
  BY DEF SteadyInv
<1>1. Patient /\ dead = {}
  BY Lasting DEF Patient, Ops
<1>2. Whole /\ Steady
  BY <1>1 DEF SteadyInv, PlaceInv, Patient, Careful
<1>3. CASE LogSteps
  BY <1>1, <1>2, <1>3, LogSteady
<1>4. CASE CreateGroup
  BY <1>2, <1>4, CreateSteady
<1>5. ASSUME NEW n \in Node, Register(n) PROVE Steady'
  BY <1>2, <1>5, RegisterSteady
<1>6. ASSUME NEW n \in Node, UnplaceGroup(n) PROVE Steady'
  BY <1>1, <1>2, <1>6, UnplaceSteady
<1>7. ASSUME NEW n \in Node, Recover(n) PROVE Steady'
  BY <1>1, <1>7 DEF Recover
<1>8. ASSUME NEW n \in Node, NEW voter \in BOOLEAN, PlaceGroup(n, voter) PROVE Steady'
  BY <1>1, <1>2, <1>8, PlaceSteady
<1>9. ASSUME NEW n \in Node, NEW m \in Node, AdminRemove(n, m) PROVE Steady'
  BY <1>1, <1>9 DEF AdminRemove
<1>10. CASE UNCHANGED placeVars
  BY <1>2, <1>10, IdleSteady DEF placeVars, SameMaps
<1> QED
  BY <1>3, <1>4, <1>5, <1>6, <1>7, <1>8, <1>9, <1>10, PlaceSteps, Zenon

\* One of many is not half of them.
LEMMA AllButOne ==
    ASSUME NEW V \in SUBSET Node, NEW u \in Node, V # {},
           u \in V => Cardinality(V \ {u}) > 1
    PROVE  \A T \in SUBSET V : V \ {u} \subseteq T => Majority(T, V)
<1> SUFFICES ASSUME NEW T \in SUBSET V, V \ {u} \subseteq T PROVE Majority(T, V)
  OBVIOUS
<1>1. /\ IsFiniteSet(V) /\ Cardinality(V) \in Nat /\ IsFiniteSet(T) /\ Cardinality(T) \in Nat
      /\ Cardinality(V \ {u}) \in Nat
  BY FiniteNodes
<1>2. Cardinality(V) > 0
  BY <1>1, FS_EmptySet
<1>3. CASE T = V
  BY <1>1, <1>2, <1>3 DEF Majority
<1>4. CASE T # V
  <2>1. u \in V /\ T = V \ {u}
    BY <1>4
  <2>2. Cardinality(T) = Cardinality(V) - 1
    BY <1>1, <2>1, FS_RemoveElement
  <2> QED
    BY <1>1, <2>1, <2>2 DEF Majority
<1> QED
  BY <1>3, <1>4

LEMMA SteadyServes ==
    ASSUME PlaceTypes, Whole, Steady, dead = {}
    PROVE  Serviceable
<1> SUFFICES ASSUME acked # {}
             PROVE  Majority(Electors, voters) /\ \E n \in Electors : acked \subseteq data[n]
  BY DEF Serviceable
<1>1. voters # {} /\ voters \in SUBSET Node /\ Electors \in SUBSET voters
  BY DEF Whole, Placed, PlaceTypes, Electors
<1>2. voters \ Electors \subseteq Pending
  BY DEF Electors, Pending
<1>3. Majority(Electors, voters)
  <2>1. CASE Pending = {}
    <3>1. Electors = voters
      BY <1>1, <1>2, <2>1
    <3> QED
      BY <1>1, <3>1, FiniteNodes, FS_EmptySet DEF Majority
  <2>2. ASSUME NEW u \in Pending PROVE Majority(Electors, voters)
    <3>1. /\ Pending = {u} /\ voters \ {u} = Map.voters
          /\ u \in voters => Cardinality(Map.voters) > 1
      BY <2>2 DEF Steady, Leaving
    <3>2. u \in Node
      BY <2>2 DEF Pending, PlaceTypes
    <3> QED
      BY <1>1, <1>2, <3>1, <3>2, AllButOne
  <2> QED
    BY <2>1, <2>2
<1>4. Electors \cap (Has \cup Left) # {}
  <2>1. Has \cup Left \in SUBSET voters
    BY DEF Has, Left
  <2> QED
    BY <1>1, <1>3, <2>1, Overlap DEF Whole, Covered
<1>5. Electors \cap Left = {}
  BY <1>1, Opened DEF Electors, Left, Whole
<1> QED
  BY <1>3, <1>4, <1>5 DEF Has

-----------------------------------------------------------------------------
(***************************************************************************)
(* Nodes lost for good, where the operator does not move the group about.  *)
(***************************************************************************)
Still == {"place", "unplace"} \cap Ops = {}
Living(S) == S \ dead

\* More than half of the voters are lost or have every acknowledged write.
Safe == {v \in voters : v \in dead \/ acked \subseteq data[v]}
Backed == voters # {} => 2 * Cardinality(Safe) > Cardinality(voters)

Begun ==
    /\ running \cap dead = {}
    /\ boot = {} => voters = {} /\ acked = {}
    /\ \A t \in Past : /\ maps[t].voters \cap maps[t].others = {}
                       /\ ~maps[t].made => Hosts(maps[t]) = {}

\* A living node stays on the map, and a voter, once it is.
Stays ==
    /\ \A s, t \in Past : s <= t => /\ Living(Hosts(maps[s])) \subseteq Hosts(maps[t])
                                    /\ Living(maps[s].voters) \subseteq maps[t].voters
    /\ Living(state \cup voters) \subseteq Hosts(Map)
    /\ \A n \in shard : HostedBy(n)
    /\ \A t \in Past : \A v \in maps[t].voters : v \in VoterNode \/ (dead # {} /\ v \notin dead)
    /\ Map.voters = {} => voters = {} /\ \A t \in Past : maps[t].voters = {}

\* The living voters have been the same ever since the group had any ...
FirstStay ==
    /\ \A t \in Past : maps[t].voters # {} =>
         Living(maps[t].voters) = Living(Map.voters) /\ Living(maps[t].boot) = Living(Map.voters)
    /\ voters # {} => Living(Map.voters) \subseteq voters

\* ... or no map ever had a living voter but one.
OneStays == \E y \in Node : \A t \in Past : Living(maps[t].voters) \subseteq {y}

\* Before a recovery, and after one on node n: the log is between it and the one
\* voter y the map is left with.
Before == Stays /\ (FirstStay \/ OneStays)
AfterOn(n, y) ==
    /\ voters # {} /\ voters \subseteq {n, y}
    /\ {n, y} \subseteq Hosts(Map) /\ Map.voters = {y}
    /\ \A l \in {n, y} :
         /\ l \in shard => HostedBy(l)
         /\ \A s, t \in Since(l) : s <= t /\ l \in Hosts(maps[s]) => l \in Hosts(maps[t])
         /\ \A s \in Since(l) : Living(maps[s].voters) \subseteq {y}
After == dead # {} /\ \E n, y \in Node \ dead : AfterOn(n, y)

Lossless == Backed /\ Begun /\ (Before \/ After)
LossInv == Still => Lossless

-----------------------------------------------------------------------------
\* Whoever can lead, with losses, has every acknowledged write.
LEMMA LossLeader ==
    ASSUME PlaceTypes, Backed, Begun, NEW n, NEW Q, LeadsWith(n, Q)
    PROVE  n \in Node \ dead /\ n \in state /\ n \in shard /\ acked \subseteq data[n]
<1>1. /\ Q \subseteq voters /\ Q \subseteq shard /\ Majority(Q, voters) /\ n \in Q \cap state
      /\ \A q \in Q : data[q] \subseteq data[n]
  BY DEF LeadsWith, Majority
<1>2. voters \subseteq Node /\ Safe \subseteq voters /\ Q \cap dead = {}
  BY <1>1 DEF PlaceTypes, Safe, Begun
<1>3. Q \cap Safe # {}
  BY <1>1, <1>2, NoEmptyMajority, Overlap DEF Backed
<1>4. PICK q \in Q : acked \subseteq data[q]
  BY <1>2, <1>3 DEF Safe
<1> QED
  BY <1>1, <1>2, <1>4

LEMMA QuorumBacks ==
    ASSUME PlaceTypes', NEW Q, Majority(Q, voters'), Q \subseteq Safe'
    PROVE  Backed'
<1>1. Safe' \subseteq voters' /\ voters' \subseteq Node
  BY DEF Safe, PlaceTypes
<1>2. Safe' \in SUBSET voters' /\ voters' \in SUBSET Node /\ Q \in SUBSET Safe'
  BY <1>1
<1> QED
  BY <1>2, MoreThanHalf DEF Backed

LEMMA SafeGrows ==
    ASSUME PlaceTypes', Backed, voters' = voters, Safe \subseteq Safe'
    PROVE  Backed'
<1>1. CASE voters = {}
  BY <1>1 DEF Backed
<1>2. CASE voters # {}
  <2>1. Majority(Safe, voters')
    BY <1>2 DEF Backed, Majority, Safe
  <2> QED
    BY <2>1, QuorumBacks
<1> QED
  BY <1>1, <1>2

LEMMA AllSafe ==
    ASSUME PlaceTypes', voters' # {}, Safe' = voters'
    PROVE  Backed'
<1>1. voters' \in SUBSET Node
  BY DEF PlaceTypes
<1>2. Majority(voters', voters')
  BY <1>1, FiniteNodes, FS_EmptySet DEF Majority
<1> QED
  BY <1>2, QuorumBacks

\* What the lossy plans promise.
LEMMA LossServes ==
    ASSUME PlaceTypes, Lossless
    PROVE  Serviceable
<1> SUFFICES ASSUME Majority(voters \ dead, voters)
             PROVE  Majority(Electors, voters) /\ \E n \in Electors : acked \subseteq data[n]
  BY DEF Serviceable
<1>1. voters \ dead \subseteq Hosts(Map)
  BY DEF Lossless, Before, Stays, Living, After, AfterOn
<1>2. Electors = voters \ dead
  BY <1>1 DEF Electors
<1>3. voters \in SUBSET Node /\ Electors \in SUBSET voters /\ Safe \in SUBSET voters
  BY DEF PlaceTypes, Electors, Safe
<1>4. Electors \cap Safe # {}
  BY <1>2, <1>3, NoEmptyMajority, Overlap DEF Lossless, Backed
<1> QED
  BY <1>2, <1>4 DEF Safe

-----------------------------------------------------------------------------
\* Changes of the map.
LEMMA ChangeBegun ==
    ASSUME PlaceTypes, Begun, NEW m \in MapRec, Change(m),
           m.voters \cap m.others = {}, ~m.made => Hosts(m) = {}
    PROVE  Begun'
BY Changed DEF Begun, Hosts

LEMMA ChangeBacked ==
    ASSUME PlaceTypes, Backed, NEW m \in MapRec, Change(m)
    PROVE  Backed'
BY Changed DEF Backed, Safe

LEMMA ChangeStays ==
    ASSUME PlaceTypes, Stays, NEW m \in MapRec, Change(m),
           Living(Hosts(Map)) \subseteq Hosts(m), Living(Map.voters) \subseteq m.voters,
           \A v \in m.voters : v \in VoterNode \/ (dead # {} /\ v \notin dead),
           m.voters = {} => Map.voters = {}
    PROVE  Stays'
<1> DEFINE k == Len(maps')
           l == Len(maps)
<1>1. /\ Past' = Past \cup {k} /\ maps'[k] = m /\ Map' = m
      /\ \A t \in Past : maps'[t] = maps[t]
      /\ UNCHANGED <<state, shard, voters, dead>>
      /\ \A n \in Node : HostedBy(n)' = HostedBy(n)
      /\ k = l + 1
  BY Changed
<1>2. l \in Past /\ Map = maps[l] /\ l \in Nat /\ \A t \in Past : t \in Nat /\ t <= l
  BY MapFacts DEF Past, Map
<1> HIDE DEF k, l
<1>3. ASSUME NEW s \in Past', NEW t \in Past', s <= t
      PROVE  /\ Living(Hosts(maps'[s])) \subseteq Hosts(maps'[t])
             /\ Living(maps'[s].voters) \subseteq maps'[t].voters
  <2>1. CASE s \in Past /\ t \in Past
    BY <1>1, <1>3, <2>1 DEF Stays, Living
  <2>2. CASE s \in Past /\ t = k
    <3>1. /\ Living(Hosts(maps[s])) \subseteq Hosts(Map)
          /\ Living(maps[s].voters) \subseteq Map.voters
      BY <1>2, <2>2 DEF Stays
    <3> QED
      BY <1>1, <2>2, <3>1 DEF Living
  <2>3. CASE s = k /\ t = k
    BY <1>1, <2>3 DEF Living
  <2>4. s = k => t = k
    BY <1>1, <1>2, <1>3
  <2> QED
    BY <1>1, <2>1, <2>2, <2>3, <2>4
<1>4. Living(state \cup voters) \subseteq Hosts(m)
  BY DEF Stays, Living
<1>5. \A n \in shard : HostedBy(n)'
  BY <1>1 DEF Stays, PlaceTypes
<1>6. m.voters = {} => voters = {} /\ \A t \in Past' : maps'[t].voters = {}
  BY <1>1 DEF Stays
<1> QED
  BY <1>1, <1>3, <1>4, <1>5, <1>6 DEF Stays, Living, Hosts

LEMMA ChangeFirstStay ==
    ASSUME PlaceTypes, FirstStay, NEW m \in MapRec, Change(m),
           m.voters # {} => Map.voters # {},
           Living(m.voters) = Living(Map.voters), Living(m.boot) = Living(Map.boot)
    PROVE  FirstStay'
<1>1. Map = maps[Len(maps)] /\ Len(maps) \in Past
  BY MapFacts DEF Map
<1>2. m.voters # {} => Living(m.boot) = Living(Map.voters)
  BY <1>1 DEF FirstStay
<1> QED
  BY <1>2, Changed DEF FirstStay, Living

\* The first voters of all.
LEMMA ChangeFirst ==
    ASSUME PlaceTypes, Stays, Map.voters = {}, NEW m \in MapRec, Change(m), m.boot = m.voters
    PROVE  FirstStay'
<1>1. voters = {} /\ \A t \in Past : maps[t].voters = {}
  BY DEF Stays
<1> QED
  BY <1>1, Changed DEF FirstStay, Living

LEMMA ChangeOneStays ==
    ASSUME PlaceTypes, NEW y \in Node, \A t \in Past : Living(maps[t].voters) \subseteq {y},
           NEW m \in MapRec, Change(m), Living(m.voters) \subseteq {y}
    PROVE  OneStays'
BY Changed DEF OneStays, Living

LEMMA ChangeAfter ==
    ASSUME PlaceTypes, NEW n \in Node \ dead, NEW y \in Node \ dead, AfterOn(n, y),
           NEW m \in MapRec, Change(m),
           m.voters = {y}, {n, y} \subseteq Hosts(m)
    PROVE  AfterOn(n, y)'
<1> DEFINE k == Len(maps')
           l == Len(maps)
<1>1. /\ Past' = Past \cup {k} /\ maps'[k] = m /\ Map' = m
      /\ \A t \in Past : maps'[t] = maps[t]
      /\ UNCHANGED <<state, shard, voters, dead>>
      /\ \A x \in Node : /\ HostedBy(x)' = HostedBy(x)
                         /\ Since(x)' = Since(x) \cup {k}
                         /\ \A s \in Since(x) : s \in Past
      /\ k = l + 1
  BY Changed
<1>2. \A t \in Past : t \in Nat /\ t <= l
  BY MapFacts DEF Past
<1>3. l \in Nat
  BY MapFacts
<1> HIDE DEF k, l
<1>4. ASSUME NEW x \in {n, y}
      PROVE  /\ x \in shard => HostedBy(x)'
             /\ \A s, t \in Since(x)' :
                  s <= t /\ x \in Hosts(maps'[s]) => x \in Hosts(maps'[t])
             /\ \A s \in Since(x)' : maps'[s].voters \ dead \subseteq {y}
  <2>1. x \in Node /\ x \in Hosts(m)
    BY <1>4
  <2>2. ASSUME NEW s \in Since(x)', NEW t \in Since(x)', s <= t, x \in Hosts(maps'[s])
        PROVE  x \in Hosts(maps'[t])
    <3>1. CASE t = k
      BY <1>1, <2>1, <3>1
    <3>2. CASE t \in Since(x)
      <4>1. s # k
        BY <1>1, <1>2, <1>3, <2>1, <2>2, <3>2
      <4>2. s \in Since(x)
        BY <1>1, <2>1, <2>2, <4>1
      <4> QED
        BY <1>1, <2>1, <2>2, <3>2, <4>2 DEF AfterOn
    <3> QED
      BY <1>1, <2>1, <3>1, <3>2
  <2>3. ASSUME NEW s \in Since(x)' PROVE maps'[s].voters \ dead \subseteq {y}
    BY <1>1, <2>1, <2>3 DEF AfterOn, Living
  <2> QED
    BY <1>1, <2>1, <2>2, <2>3 DEF AfterOn
<1> QED
  BY <1>1, <1>4 DEF AfterOn, Living, Hosts

LEMMA CreateLossless ==
    ASSUME PlaceTypes, Lossless, CreateGroup
    PROVE  Lossless'
<1>1. PICK m \in MapRec :
        /\ Change(m) /\ ~Map.made
        /\ m.made = TRUE /\ m.voters \subseteq Map.nodes \cap VoterNode
        /\ m.boot = m.voters /\ m.others = (Map.nodes \cap FullNode) \ m.voters
  BY Created
<1>2. Hosts(Map) = {}
  BY <1>1, MapFacts DEF Lossless, Begun, Map
<1>3. Backed' /\ Begun'
  BY <1>1, ChangeBacked, ChangeBegun DEF Lossless
<1>4. Before
  BY <1>2 DEF Lossless, After, AfterOn
<1>5. Stays'
  BY <1>1, <1>2, <1>4, ChangeStays DEF Before, Living, Hosts
<1>6. FirstStay'
  BY <1>1, <1>2, <1>4, ChangeFirst DEF Before, Hosts
<1> QED
  BY <1>3, <1>5, <1>6 DEF Lossless, Before

LEMMA RegisterLossless ==
    ASSUME PlaceTypes, Lossless, NEW x \in Node, Register(x)
    PROVE  Lossless'
<1>1. PICK m \in MapRec :
        /\ Change(m) /\ m.made = Map.made
        /\ \/ /\ Map.made /\ Hosts(Map) = {} /\ x \in VoterNode
              /\ m.voters = {x} /\ m.boot = {x} /\ m.others = Map.others
           \/ /\ m.voters = Map.voters /\ m.boot = Map.boot
              /\ m.others = IF x \in FullNode /\ Map.made /\ x \notin Hosts(Map)
                            THEN Map.others \cup {x} ELSE Map.others
  BY Registered DEF Register
<1>2. Map.voters \cap Map.others = {} /\ (~Map.made => Hosts(Map) = {}) /\ Map = maps[Len(maps)]
      /\ Len(maps) \in Past
  BY MapFacts DEF Lossless, Begun, Map
<1>3. Backed'
  BY <1>1, ChangeBacked DEF Lossless
<1>4. CASE /\ Map.made /\ Hosts(Map) = {} /\ x \in VoterNode
           /\ m.voters = {x} /\ m.boot = {x} /\ m.others = Map.others
  <2>1. Begun'
    BY <1>1, <1>4, ChangeBegun DEF Lossless, Hosts
  <2>2. Before
    BY <1>4 DEF Lossless, After, AfterOn
  <2>3. Stays'
    BY <1>1, <1>4, <2>2, ChangeStays DEF Before, Living, Hosts
  <2>4. FirstStay'
    BY <1>1, <1>4, <2>2, ChangeFirst DEF Before, Hosts
  <2> QED
    BY <1>3, <2>1, <2>3, <2>4 DEF Lossless, Before
<1>5. CASE /\ m.voters = Map.voters /\ m.boot = Map.boot
           /\ m.others = IF x \in FullNode /\ Map.made /\ x \notin Hosts(Map)
                         THEN Map.others \cup {x} ELSE Map.others
  <2>1. Hosts(Map) \subseteq Hosts(m)
    BY <1>5 DEF Hosts
  <2>2. Begun'
    BY <1>1, <1>2, <1>5, ChangeBegun DEF Lossless, Hosts
  <2>3. CASE Before
    <3>1. Stays'
      BY <1>1, <1>2, <1>5, <2>1, <2>3, ChangeStays DEF Before, Stays, Living
    <3>2. CASE FirstStay
      BY <1>1, <1>3, <1>5, <2>2, <3>1, <3>2, ChangeFirstStay DEF Lossless, Before
    <3>3. CASE OneStays
      <4>1. PICK y \in Node : \A t \in Past : Living(maps[t].voters) \subseteq {y}
        BY <3>3 DEF OneStays
      <4> QED
        BY <1>1, <1>2, <1>3, <1>5, <2>2, <3>1, <4>1, ChangeOneStays DEF Lossless, Before
    <3> QED
      BY <2>3, <3>2, <3>3 DEF Before
  <2>4. CASE After
    <3>1. PICK n \in Node \ dead, y \in Node \ dead : AfterOn(n, y)
      BY <2>4 DEF After
    <3>2. m.voters = {y} /\ {n, y} \subseteq Hosts(m)
      BY <1>5, <2>1, <3>1 DEF AfterOn
    <3>3. AfterOn(n, y)'
      BY <1>1, <3>1, <3>2, ChangeAfter
    <3> QED
      BY <1>1, <1>3, <2>2, <2>4, <3>3, Changed DEF Lossless, After
  <2> QED
    BY <2>3, <2>4 DEF Lossless
<1> QED
  BY <1>1, <1>4, <1>5

LEMMA RemoveLossless ==
    ASSUME PlaceTypes, Lossless, NEW d \in Node, NEW repl \in Node, AdminRemove(d, repl)
    PROVE  Lossless'
<1>1. PICK m \in MapRec :
        /\ Change(m) /\ m.made = Map.made /\ repl # d
        /\ IF OnlyVoter(d)
           THEN m.voters = {repl} /\ m.boot = (Map.boot \ {d}) \cup {repl}
                /\ m.others = Map.others \ {d, repl}
           ELSE m.voters = Map.voters \ {d} /\ m.boot = Map.boot \ {d}
                /\ m.others = Map.others \ {d}
  BY Removed DEF AdminRemove
<1>2. d \in dead /\ repl \notin dead
  BY DEF AdminRemove
<1>3. /\ Map.voters \cap Map.others = {} /\ (~Map.made => Hosts(Map) = {})
      /\ Map = maps[Len(maps)] /\ Len(maps) \in Past
  BY MapFacts DEF Lossless, Begun, Map
<1>4. OnlyVoter(d) <=> Map.voters = {d}
  BY DEF OnlyVoter
<1>5. Backed' /\ Begun'
  <2>1. m.voters \cap m.others = {} /\ (~m.made => Hosts(m) = {})
    BY <1>1, <1>3, <1>4 DEF Hosts
  <2> QED
    BY <1>1, <2>1, ChangeBacked, ChangeBegun DEF Lossless
<1>6. Hosts(Map) \ {d} \subseteq Hosts(m)
  BY <1>1, <1>4 DEF Hosts
<1>7. CASE Before
  <2>1. Stays'
    <3>1. Living(Hosts(Map)) \subseteq Hosts(m) /\ Living(Map.voters) \subseteq m.voters
      BY <1>1, <1>2, <1>4, <1>6 DEF Living
    <3>2. \A v \in m.voters : v \in VoterNode \/ (dead # {} /\ v \notin dead)
      BY <1>1, <1>2, <1>3, <1>7 DEF Before, Stays
    <3>3. m.voters = {} => Map.voters = {}
      BY <1>1, <1>4
    <3> QED
      BY <1>1, <1>7, <3>1, <3>2, <3>3, ChangeStays DEF Before
  <2>2. CASE OnlyVoter(d)
    <3>1. \A t \in Past : Living(maps[t].voters) \subseteq {repl}
      <4>1. \A t \in Past : Living(maps[t].voters) \subseteq Map.voters
        BY <1>3, <1>7, MapFacts DEF Before, Stays, Past
      <4> QED
        BY <1>2, <1>4, <2>2, <4>1 DEF Living
    <3>2. OneStays'
      BY <1>1, <2>2, <3>1, ChangeOneStays DEF Living
    <3> QED
      BY <1>5, <2>1, <3>2 DEF Lossless, Before
  <2>3. CASE ~OnlyVoter(d) /\ FirstStay
    <3>1. /\ m.voters # {} => Map.voters # {}
          /\ Living(m.voters) = Living(Map.voters) /\ Living(m.boot) = Living(Map.boot)
      BY <1>1, <1>2, <2>3 DEF Living
    <3>2. FirstStay'
      BY <1>1, <2>3, <3>1, ChangeFirstStay
    <3> QED
      BY <1>5, <2>1, <3>2 DEF Lossless, Before
  <2>4. CASE ~OnlyVoter(d) /\ OneStays
    <3>1. PICK y \in Node : \A t \in Past : Living(maps[t].voters) \subseteq {y}
      BY <2>4 DEF OneStays
    <3>2. Living(m.voters) \subseteq {y}
      BY <1>1, <1>3, <2>4, <3>1 DEF Living
    <3>3. OneStays'
      BY <1>1, <3>1, <3>2, ChangeOneStays
    <3> QED
      BY <1>5, <2>1, <3>3 DEF Lossless, Before
  <2> QED
    BY <1>7, <2>2, <2>3, <2>4 DEF Before
<1>8. CASE After
  <2>1. PICK n \in Node \ dead, y \in Node \ dead : AfterOn(n, y)
    BY <1>8 DEF After
  <2>2. Map.voters = {y} /\ {n, y} \subseteq Hosts(Map)
    BY <2>1 DEF AfterOn
  <2>3. m.voters = {y} /\ {n, y} \subseteq Hosts(m)
    BY <1>1, <1>2, <1>4, <1>6, <2>2
  <2>4. AfterOn(n, y)'
    BY <1>1, <2>1, <2>3, ChangeAfter
  <2> QED
    BY <1>1, <1>5, <1>8, <2>4, Changed DEF Lossless, After
<1> QED
  BY <1>7, <1>8 DEF Lossless

\* grus recover on n: the log is n's alone, and the map left with one voter.
LEMMA RecoverLossless ==
    ASSUME PlaceTypes, PlaceTypes', Lossless, NEW n \in Node, Recover(n)
    PROVE  Lossless'
<1> DEFINE gone == VoterNode \ {n}
           k == Len(maps')
           l == Len(maps)
<1>1. PICK m \in MapRec :
        /\ maps' = Append(maps, m) /\ m.made = Map.made
        /\ IF Map.voters \ gone = {}
           THEN m.voters = {n} /\ m.others = (Map.others \ gone) \ {n}
           ELSE m.voters = Map.voters \ gone /\ m.others = Map.others \ gone
        /\ seen' = [seen EXCEPT ![n] = k]
  BY RecoveredMap
<1>2. /\ voters # {} /\ voters \subseteq dead /\ n \in state \ (running \cup dead)
      /\ voters' = {n} /\ acked' = data[n] /\ dead' = dead
      /\ running' = running \cup {n} /\ UNCHANGED <<shard, data, boot>>
  BY DEF Recover, Recovered
<1>3. l \in Nat \ {0} /\ k = l + 1 /\ l \in Past /\ Map = maps[l]
      /\ \A t \in Past : t \in Nat /\ t <= l
  BY <1>1, MapFacts DEF PlaceTypes, Past, Map
<1>4. /\ \A t \in Past : maps'[t] = maps[t]
      /\ maps'[k] = m /\ Map' = m /\ Past' = Past \cup {k}
  BY <1>1, <1>3 DEF PlaceTypes, Past, Map
<1>5. ASSUME NEW x \in Node, x # n
      PROVE  Since(x)' = Since(x) \cup {k} /\ Since(x) \subseteq Past /\ HostedBy(x)' = HostedBy(x)
  <2>1. seen'[x] = seen[x] /\ seen[x] \in Past
    BY <1>1, <1>5, MapFacts DEF PlaceTypes
  <2> QED
    BY <1>3, <1>4, <2>1 DEF Since, Past, HostedBy, MapOf, Hosts
<1>6. Since(n)' = {k} /\ (HostedBy(n)' <=> n \in Hosts(m))
  <2>1. seen'[n] = k
    BY <1>1 DEF PlaceTypes
  <2> QED
    BY <1>3, <1>4, <2>1 DEF Since, HostedBy, MapOf, Hosts
<1> HIDE DEF k, l
<1>7. Before
  BY <1>2 DEF Lossless, After, AfterOn
<1>8. n \in Hosts(Map) /\ n \in Node \ dead
  BY <1>2, <1>7 DEF Before, Stays, Living
<1>9. n \in Hosts(m)
  BY <1>1, <1>8 DEF Hosts
<1>10. \A v \in Map.voters : v \in dead => v \in gone
  BY <1>3, <1>7, <1>8 DEF Before, Stays
<1>11. PICK y \in Node \ dead :
         /\ m.voters = {y} /\ y \in Hosts(m)
         /\ y = n \/ \A t \in Past : Living(maps[t].voters) \subseteq {y}
  <2>1. CASE Map.voters \ gone = {}
    BY <1>1, <1>8, <2>1 DEF Hosts
  <2>2. CASE Map.voters \ gone # {}
    <3>1. m.voters = Map.voters \ gone /\ m.voters \subseteq Living(Map.voters)
      BY <1>1, <1>10, <2>2 DEF Living
    <3>2. OneStays
      <4>1. SUFFICES ASSUME FirstStay PROVE FALSE
        BY <1>7 DEF Before
      <4>2. Living(Map.voters) \subseteq voters
        BY <1>2, <4>1 DEF FirstStay
      <4> QED
        BY <1>2, <2>2, <3>1, <4>2 DEF Living
    <3>3. PICK y \in Node : \A t \in Past : Living(maps[t].voters) \subseteq {y}
      BY <3>2 DEF OneStays
    <3>4. m.voters \subseteq {y}
      BY <1>3, <3>1, <3>3
    <3> QED
      BY <2>2, <3>1, <3>3, <3>4 DEF Living, Hosts
  <2> QED
    BY <2>1, <2>2
<1>12. AfterOn(n, y)'
  <2>1. ASSUME NEW x \in {n, y}
        PROVE  /\ x \in shard => HostedBy(x)'
               /\ \A s, t \in Since(x)' : s <= t /\ x \in Hosts(maps'[s]) => x \in Hosts(maps'[t])
               /\ \A s \in Since(x)' : maps'[s].voters \ dead \subseteq {y}
    <3>1. CASE x = n
      BY <1>4, <1>6, <1>9, <1>11, <3>1
    <3>2. CASE x # n
      <4>1. x = y /\ x \in Node /\ x \notin dead /\ x \in Hosts(m)
            /\ \A t \in Past : maps[t].voters \ dead \subseteq {y}
        BY <1>11, <2>1, <3>2 DEF Living
      <4>2. x \in shard => HostedBy(x)'
        BY <1>5, <1>7, <3>2, <4>1 DEF Before, Stays
      <4>3. ASSUME NEW s \in Since(x)', NEW t \in Since(x)', s <= t, x \in Hosts(maps'[s])
            PROVE  x \in Hosts(maps'[t])
        <5>1. s \in Past \cup {k} /\ t \in Past \cup {k}
          BY <1>5, <3>2, <4>1, <4>3
        <5>2. CASE t = k
          BY <1>4, <4>1, <5>2
        <5>3. CASE t # k
          <6>1. t \in Past /\ s \in Past
            BY <1>3, <4>3, <5>1, <5>3
          <6>2. Living(Hosts(maps[s])) \subseteq Hosts(maps[t])
            BY <1>7, <4>3, <6>1 DEF Before, Stays
          <6> QED
            BY <1>4, <4>1, <4>3, <6>1, <6>2 DEF Living
        <5> QED
          BY <5>2, <5>3
      <4>4. \A s \in Since(x)' : maps'[s].voters \ dead \subseteq {y}
        BY <1>4, <1>5, <1>11, <3>2, <4>1
      <4> QED
        BY <4>2, <4>3, <4>4
    <3> QED
      BY <3>1, <3>2
  <2> QED
    BY <1>2, <1>4, <1>9, <1>11, <2>1 DEF AfterOn, Living, Hosts
<1>13. Backed'
  BY <1>2, AllSafe DEF Safe
<1>14. Begun'
  <2>1. Map.voters \cap Map.others = {} /\ Map.made
    BY <1>3, <1>8 DEF Lossless, Begun
  <2>2. m.voters \cap m.others = {} /\ m.made
    BY <1>1, <2>1
  <2>3. running' \cap dead' = {} /\ boot' # {}
    BY <1>2 DEF Lossless, Begun
  <2> QED
    BY <1>4, <2>2, <2>3 DEF Lossless, Begun, Hosts
<1> QED
  BY <1>2, <1>8, <1>12, <1>13, <1>14 DEF Lossless, After

-----------------------------------------------------------------------------
\* Steps of the nodes and of the group's log.
LEMMA StaysOn ==
    ASSUME PlaceTypes, Stays, NEW s \in Past, NEW x \in Hosts(maps[s]) \ dead
    PROVE  x \in Hosts(Map)
<1>1. Len(maps) \in Past /\ s <= Len(maps) /\ Map = maps[Len(maps)]
  BY MapFacts DEF Map, Past
<1> QED
  BY <1>1 DEF Stays, Living

LEMMA StepLossless ==
    ASSUME PlaceTypes, Lossless, SameMaps, seen' = seen, dead' = dead, Backed', Begun',
           \A x \in shard' \ shard : HostedBy(x),
           Before => /\ \A x \in (state' \ state) \ dead : x \in Node /\ HostedBy(x)
                     /\ voters' \ (voters \cup dead) \subseteq Hosts(Map)
                     /\ Map.voters = {} => voters' = {}
                     /\ FirstStay /\ voters' # {} => Living(Map.voters) \subseteq voters',
           \A n, y \in Node \ dead : AfterOn(n, y) => voters' # {} /\ voters' \subseteq {n, y}
    PROVE  Lossless'
<1>1. /\ Past' = Past /\ Map' = Map /\ maps' = maps
      /\ \A n : Since(n)' = Since(n) /\ HostedBy(n)' = HostedBy(n)
  BY Same DEF SameMaps
<1>2. CASE Before
  <2>1. ASSUME NEW x \in Node \ dead, HostedBy(x) PROVE x \in Hosts(Map)
    BY <1>2, <2>1, MapFacts, StaysOn DEF Before, HostedBy, MapOf
  <2>2. (state' \cup voters') \ dead \subseteq Hosts(Map)
    BY <1>2, <2>1 DEF Before, Stays, Living
  <2>3. \A x \in shard' : HostedBy(x)
    BY <1>2 DEF Before, Stays
  <2>4. Stays'
    BY <1>1, <1>2, <2>2, <2>3 DEF Before, Stays, Living, Hosts
  <2>5. FirstStay => FirstStay'
    BY <1>1, <1>2 DEF FirstStay, Living
  <2>6. OneStays => OneStays'
    BY <1>1 DEF OneStays, Living
  <2> QED
    BY <1>2, <2>4, <2>5, <2>6 DEF Lossless, Before
<1>3. CASE After
  <2>1. PICK n \in Node \ dead, y \in Node \ dead : AfterOn(n, y)
    BY <1>3 DEF After
  <2>2. voters' # {} /\ voters' \subseteq {n, y}
    BY <2>1
  <2>3. AfterOn(n, y)'
    BY <1>1, <2>1, <2>2 DEF AfterOn, Living, Hosts
  <2> QED
    BY <1>3, <2>3 DEF Lossless, After
<1> QED
  BY <1>2, <1>3 DEF Lossless

\* Nodes with the log open take part.
LEMMA OpenLossless ==
    ASSUME PlaceTypes, Lossless, SameMaps, UNCHANGED <<seen, dead, running, shard, boot, voters>>,
           NEW Q \in SUBSET shard, state' = state \cup Q, boot # {}, Backed'
    PROVE  Lossless'
<1>1. Begun'
  BY Same DEF Lossless, Begun, SameMaps, Hosts
<1>2. Before => \A x \in shard : x \in Node /\ HostedBy(x)
  BY DEF Before, Stays, PlaceTypes
<1>3. /\ Before => (Map.voters = {} => voters = {})
      /\ FirstStay /\ voters # {} => Living(Map.voters) \subseteq voters
  BY DEF Before, Stays, FirstStay
<1> QED
  BY <1>1, <1>2, <1>3, StepLossless DEF AfterOn

LEMMA SubmitLossless ==
    ASSUME PlaceTypes, PlaceTypes', Lossless, Submit
    PROVE  Lossless'
<1>1. PICK n \in voters, Q \in SUBSET voters :
        /\ LeadsWith(n, Q)
        /\ \E w : /\ acked' = acked \cup {w}
                  /\ data' = [m \in Node |-> IF m \in Q THEN data[n] \cup {w} ELSE data[m]]
        /\ state' = state \cup Q
  BY Zenon DEF Submit
<1>2. SameMaps /\ UNCHANGED <<seen, running, dead, shard, boot, voters>>
  BY DEF Submit, SameMaps
<1>3. acked \subseteq data[n] /\ Majority(Q, voters) /\ Q \subseteq shard /\ Q \subseteq Node
  BY <1>1, LossLeader DEF Lossless, LeadsWith, PlaceTypes
<1>4. Q \subseteq Safe'
  BY <1>1, <1>2, <1>3 DEF Safe
<1>5. Backed' /\ boot # {}
  BY <1>1, <1>2, <1>3, <1>4, QuorumBacks DEF Lossless, Begun
<1> QED
  BY <1>1, <1>2, <1>3, <1>5, OpenLossless

LEMMA ReplicateLossless ==
    ASSUME PlaceTypes, PlaceTypes', Lossless, NEW m \in Node, Replicate(m)
    PROVE  Lossless'
<1>1. PICK n \in voters : CanLead(n) /\ data' = [data EXCEPT ![m] = data[n]]
  BY DEF Replicate
<1>2. /\ SameMaps /\ UNCHANGED <<seen, running, dead, shard, boot, voters, acked>>
      /\ state' = state \cup {m} /\ {m} \in SUBSET shard
  BY DEF Replicate, SameMaps
<1>3. acked \subseteq data[n]
  BY <1>1, LossLeader DEF CanLead, Lossless
<1>4. Safe \subseteq Safe'
  BY <1>1, <1>2, <1>3 DEF Safe, PlaceTypes
<1>5. Backed' /\ boot # {}
  BY <1>1, <1>2, <1>4, SafeGrows DEF Lossless, Begun
<1> QED
  BY <1>2, <1>5, OpenLossless

LEMMA ReconcileLossless ==
    ASSUME PlaceTypes, PlaceTypes', Lossless, NEW n \in Node, NEW m \in Node, Reconcile(n, m)
    PROVE  Lossless'
<1>1. n \in voters \ dead /\ CanLead(n) /\ m # n /\ acked \subseteq data[n]
      /\ MapOf(n).voters # {}
  BY LossLeader DEF Reconcile, CanLead, LeadsWith, Lossless
<1>2. seen[n] \in Since(n) /\ seen[n] \in Past /\ MapOf(n) = maps[seen[n]]
      /\ Len(maps) \in Past /\ seen[n] <= Len(maps) /\ Map = maps[Len(maps)]
  BY MapFacts DEF MapOf, Map, Past
<1>3. /\ SameMaps /\ UNCHANGED <<seen, running, dead, shard, boot, acked>>
      /\ \E Q \in SUBSET voters' :
            /\ n \in Q /\ TakenBy(Q, voters')
            /\ data' = [x \in Node |-> IF x \in Q THEN data[n] ELSE data[x]]
            /\ state' = state \cup Q
  BY Zenon DEF Reconcile, Members, SameMaps
<1>4. PICK Q \in SUBSET voters' :
        /\ n \in Q /\ TakenBy(Q, voters')
        /\ data' = [x \in Node |-> IF x \in Q THEN data[n] ELSE data[x]]
        /\ state' = state \cup Q
  BY <1>3
<1>5. Q \subseteq shard /\ Q \subseteq Node /\ Majority(Q, voters')
  BY <1>4 DEF TakenBy, PlaceTypes
<1>6. Q \subseteq Safe'
  BY <1>1, <1>3, <1>4, <1>5 DEF Safe
<1>7. Backed'
  BY <1>5, <1>6, QuorumBacks
<1>8. Begun'
  BY <1>1, <1>3, Same DEF Lossless, Begun, SameMaps, Hosts
<1>9. \/ voters' = voters
      \/ m \in MapOf(n).voters /\ m \in shard /\ voters' = voters \cup {m}
      \/ m \notin MapOf(n).voters /\ voters' = voters \ {m}
  <2>1. CASE /\ m \in Hosts(MapOf(n)) /\ m \notin voters \cup others
             /\ Members(n, voters, others \cup {m})
    BY <2>1 DEF Members
  <2>2. CASE /\ m \in MapOf(n).voters /\ m \in others /\ CaughtUp(n, m)
             /\ Members(n, voters \cup {m}, others \ {m})
    BY <2>2 DEF Members, CaughtUp
  <2>3. CASE m \in MapOf(n).others /\ m \in voters /\ Members(n, voters \ {m}, others \cup {m})
    BY <1>2, <2>3 DEF Members, Lossless, Begun
  <2>4. CASE m \notin Hosts(MapOf(n)) /\ Members(n, voters \ {m}, others \ {m})
    BY <2>4 DEF Members, Hosts
  <2> QED
    BY <2>1, <2>2, <2>3, <2>4 DEF Reconcile
<1>10. voters' # {}
  BY <1>4
<1>11. ASSUME Before
       PROVE  /\ \A x \in (state' \ state) \ dead : x \in Node /\ HostedBy(x)
              /\ voters' \ (voters \cup dead) \subseteq Hosts(Map)
              /\ Map.voters = {} => voters' = {}
              /\ FirstStay /\ voters' # {} => Living(Map.voters) \subseteq voters'
  <2>1. \A x \in shard : x \in Node /\ HostedBy(x)
    BY <1>11 DEF Before, Stays, PlaceTypes
  <2>2. Map.voters # {}
    BY <1>1, <1>11 DEF Before, Stays
  <2>3. ASSUME FirstStay PROVE Living(Map.voters) \subseteq voters'
    <3>1. Living(Map.voters) = Living(MapOf(n).voters) /\ Living(Map.voters) \subseteq voters
      BY <1>1, <1>2, <2>3 DEF FirstStay
    <3> QED
      BY <1>9, <3>1 DEF Living
  <2>4. m \in MapOf(n).voters \ dead => m \in Hosts(Map)
    BY <1>2, <1>11, StaysOn DEF Before, Hosts
  <2> QED
    BY <1>4, <1>5, <1>9, <2>1, <2>2, <2>3, <2>4
<1>12. ASSUME NEW k \in Node \ dead, NEW y \in Node \ dead, AfterOn(k, y)
       PROVE  voters' \subseteq {k, y}
  <2>1. n \in {k, y} /\ voters \subseteq {k, y}
    BY <1>1, <1>12 DEF AfterOn
  <2>2. Living(MapOf(n).voters) \subseteq {y}
    BY <1>2, <1>12, <2>1 DEF AfterOn
  <2>3. m \in shard => m \notin dead
    BY DEF PlaceTypes, Lossless, Begun
  <2> QED
    BY <1>9, <2>1, <2>2, <2>3 DEF Living
<1> QED
  BY <1>3, <1>7, <1>8, <1>10, <1>11, <1>12, StepLossless

LEMMA StartShardLossless ==
    ASSUME PlaceTypes, PlaceTypes', Lossless, NEW n \in Node, StartShard(n)
    PROVE  Lossless'
<1> DEFINE first == FirstVoters(MapOf(n))
           begins == n \in first /\ n \notin state
<1>1. /\ SameMaps /\ UNCHANGED <<seen, running, data, others, acked, dead>>
      /\ HostedBy(n) /\ shard' = shard \cup {n}
      /\ state' = IF begins THEN state \cup {n} ELSE state
      /\ IF begins /\ boot = {} THEN boot' = first /\ voters' = first
                                ELSE UNCHANGED <<boot, voters>>
  BY DEF StartShard, SameMaps
<1>2. first = MapOf(n).voters \cap MapOf(n).boot /\ MapOf(n) = maps[seen[n]] /\ seen[n] \in Past
      /\ first \subseteq Node
  BY MapFacts DEF FirstVoters, MapOf, MapRec
<1> HIDE DEF first
<1>3. Begun'
  BY <1>1, Same DEF Lossless, Begun, SameMaps, Hosts
<1>4. CASE begins /\ boot = {}
  <2>1. acked = {} /\ voters = {} /\ first # {}
    BY <1>4 DEF Lossless, Begun
  <2>2. Backed'
    BY <1>1, <1>4, <2>1, AllSafe DEF Safe
  <2>3. Before
    BY <2>1 DEF Lossless, After, AfterOn
  <2>4. Map.voters # {}
    BY <1>2, <1>4, <2>3 DEF Before, Stays
  <2>5. voters' \ dead \subseteq Hosts(Map)
    BY <1>1, <1>2, <1>4, <2>3, StaysOn DEF Before, Hosts
  <2>6. FirstStay => Living(Map.voters) \subseteq voters'
    <3>1. maps[seen[n]].voters # {}
      BY <1>2, <1>4
    <3> QED
      BY <1>1, <1>2, <1>4, <3>1 DEF FirstStay, Living
  <2> QED
    BY <1>1, <1>3, <2>1, <2>2, <2>4, <2>5, <2>6, StepLossless DEF AfterOn
<1>5. CASE ~(begins /\ boot = {})
  <2>1. UNCHANGED <<boot, voters>>
    BY <1>1, <1>5
  <2>2. Backed'
    BY <1>1, <2>1 DEF Lossless, Backed, Safe
  <2>3. /\ Before => (Map.voters = {} => voters = {})
        /\ FirstStay /\ voters # {} => Living(Map.voters) \subseteq voters
    BY DEF Before, Stays, FirstStay
  <2> QED
    BY <1>1, <1>3, <2>1, <2>2, <2>3, StepLossless DEF AfterOn
<1> QED
  BY <1>4, <1>5

LEMMA StopShardLossless ==
    ASSUME PlaceTypes, PlaceTypes', Lossless, NEW n \in Node, StopShard(n)
    PROVE  Lossless'
<1>1. /\ SameMaps /\ UNCHANGED <<seen, running, boot, acked, dead>>
      /\ n \in shard /\ ~HostedBy(n) /\ shard' = shard \ {n}
  BY DEF StopShard, SameMaps
<1>2. ~Before
  BY <1>1 DEF Before, Stays
<1>3. PICK k \in Node \ dead, y \in Node \ dead : AfterOn(k, y)
  BY <1>2 DEF Lossless, After
<1>4. n \notin voters /\ voters # {}
  BY <1>1, <1>3 DEF AfterOn
<1>5. voters' = voters /\ data' = [data EXCEPT ![n] = {}]
  BY <1>4 DEF StopShard, CanLead, LeadsWith
<1>6. Safe \subseteq Safe'
  BY <1>1, <1>4, <1>5 DEF Safe, PlaceTypes
<1>7. Backed'
  BY <1>5, <1>6, SafeGrows DEF Lossless
<1>8. Begun'
  BY <1>1, <1>5, Same DEF Lossless, Begun, SameMaps, Hosts
<1> QED
  BY <1>1, <1>2, <1>5, <1>7, <1>8, StepLossless DEF AfterOn

\* Nothing about the group's log but who has it open.
LEMMA IdleLossless ==
    ASSUME PlaceTypes, Lossless, SameMaps, shard' \subseteq shard, running' \cap dead' = {},
           UNCHANGED <<seen, state, data, boot, voters, acked, dead>>
    PROVE  Lossless'
<1>1. Backed' /\ Begun'
  BY Same DEF Lossless, Backed, Safe, Begun, SameMaps, Hosts
<1>2. /\ Before => (Map.voters = {} => voters = {})
      /\ FirstStay /\ voters # {} => Living(Map.voters) \subseteq voters
  BY DEF Before, Stays, FirstStay
<1> QED
  BY <1>1, <1>2, StepLossless DEF AfterOn

LEMMA SeeLossless ==
    ASSUME PlaceTypes, PlaceTypes', Lossless, NEW n \in Node, See(n)
    PROVE  Lossless'
<1>1. /\ SameMaps /\ seen' = [seen EXCEPT ![n] = @ + 1] /\ n \notin dead
      /\ UNCHANGED <<running, shard, state, data, boot, voters, acked, dead>>
  BY DEF See, SameMaps, Lossless, Begun
<1>2. Map' = Map /\ maps' = maps /\ Past' = Past
  BY <1>1, Same DEF SameMaps
<1>3. /\ \A x \in Node : Since(x)' \subseteq Since(x) /\ seen'[x] \in Since(x) /\ seen'[x] \in Past
      /\ \A x \in Node : x # n => HostedBy(x)' = HostedBy(x)
      /\ HostedBy(n)' <=> n \in Hosts(maps[seen'[n]])
      /\ seen[n] <= seen'[n] /\ seen[n] \in Past
  <2>1. seen[n] \in Nat /\ seen[n] + 1 <= Len(maps) /\ Len(maps) \in Nat /\ seen[n] \in Past
    BY MapFacts DEF See, Past
  <2>2. \A x \in Node : seen'[x] = IF x = n THEN seen[n] + 1 ELSE seen[x]
    BY <1>1 DEF PlaceTypes
  <2> QED
    BY <1>2, <2>1, <2>2, MapFacts DEF Since, Past, HostedBy, MapOf, Hosts
<1>4. Backed' /\ Begun'
  BY <1>1, <1>2 DEF Lossless, Backed, Safe, Begun, Hosts
<1>5. CASE Before
  <2>1. \A x \in shard : HostedBy(x)'
    <3>1. \A x \in shard : x \in Node /\ HostedBy(x)
      BY <1>5 DEF Before, Stays, PlaceTypes
    <3>2. n \in shard => n \in Hosts(maps[seen'[n]])
      <4>1. Living(Hosts(maps[seen[n]])) \subseteq Hosts(maps[seen'[n]])
        BY <1>3, <1>5 DEF Before, Stays
      <4> QED
        BY <1>1, <3>1, <4>1 DEF Living, HostedBy, MapOf
    <3> QED
      BY <1>3, <3>1, <3>2
  <2>2. Stays'
    BY <1>1, <1>2, <1>5, <2>1 DEF Before, Stays, Living, Hosts
  <2>3. (FirstStay => FirstStay') /\ (OneStays => OneStays')
    BY <1>1, <1>2 DEF FirstStay, OneStays, Living
  <2> QED
    BY <1>4, <1>5, <2>2, <2>3 DEF Lossless, Before
<1>6. CASE After
  <2>1. PICK k \in Node \ dead, y \in Node \ dead : AfterOn(k, y)
    BY <1>6 DEF After
  <2>2. ASSUME NEW x \in {k, y}, x \in shard PROVE HostedBy(x)'
    <3>1. HostedBy(x) /\ x \in Node
      BY <2>1, <2>2 DEF AfterOn
    <3>2. CASE x = n
      <4>1. seen[n] \in Since(n) /\ n \in Hosts(maps[seen[n]])
        BY <3>1, <3>2, MapFacts DEF HostedBy, MapOf
      <4> QED
        BY <1>3, <2>1, <2>2, <3>2, <4>1 DEF AfterOn
    <3> QED
      BY <1>3, <3>1, <3>2
  <2>3. AfterOn(k, y)'
    BY <1>1, <1>2, <1>3, <2>1, <2>2 DEF AfterOn, Living, Hosts
  <2> QED
    BY <1>1, <1>4, <1>6, <2>3 DEF Lossless, After
<1> QED
  BY <1>5, <1>6 DEF Lossless

LEMMA LoseLossless ==
    ASSUME PlaceTypes, PlaceTypes', Lossless, NEW S \in SUBSET Node, Lose(S)
    PROVE  Lossless'
<1>1. /\ SameMaps /\ dead = {} /\ dead' = S
      /\ running' = running \ S /\ shard' = shard \ S /\ state' = state \ S
      /\ data' = [n \in Node |-> IF n \in S THEN {} ELSE data[n]]
      /\ UNCHANGED <<seen, boot, voters, acked>>
  BY DEF Lose, SameMaps
<1>2. Map' = Map /\ maps' = maps /\ Past' = Past /\ \A n : HostedBy(n)' = HostedBy(n)
  BY <1>1, Same DEF SameMaps
<1>3. Safe \subseteq Safe'
  BY <1>1 DEF Safe, PlaceTypes
<1>4. Backed'
  BY <1>1, <1>3, SafeGrows DEF Lossless
<1>5. Begun'
  BY <1>1, <1>2 DEF Lossless, Begun, Hosts
<1>6. Before
  BY <1>1 DEF Lossless, After
<1>7. Stays'
  BY <1>1, <1>2, <1>6 DEF Before, Stays, Living, Hosts
<1>8. (FirstStay => FirstStay') /\ (OneStays => OneStays')
  BY <1>1, <1>2 DEF FirstStay, OneStays, Living
<1> QED
  BY <1>4, <1>5, <1>6, <1>7, <1>8 DEF Lossless, Before

LEMMA LossInit == PlaceInit => LossInv
<1> SUFFICES ASSUME PlaceInit PROVE Lossless
  BY DEF LossInv
<1> DEFINE m == [nodes |-> First, made |-> FALSE, voters |-> {}, others |-> {}, boot |-> {}]
<1>1. Len(maps) = 1 /\ maps[1] = m
  BY DEF PlaceInit
<1>2. Past = {1} /\ Map = m
  BY <1>1 DEF Past, Map
<1>3. Hosts(m) = {} /\ m.voters = {} /\ m.boot = {} /\ m.others = {} /\ ~m.made
  BY DEF Hosts
<1> HIDE DEF m
<1>4. /\ Backed /\ Begun
  BY <1>1, <1>2, <1>3 DEF PlaceInit, Backed, Begun
<1>5. Stays
  BY <1>1, <1>2, <1>3 DEF PlaceInit, Stays, Living
<1>6. FirstStay
  BY <1>1, <1>2, <1>3 DEF PlaceInit, FirstStay
<1> QED
  BY <1>4, <1>5, <1>6 DEF Lossless, Before

LEMMA LossNext ==
    PlaceTypes /\ PlaceTypes' /\ LossInv /\ [PlaceNext]_placeVars => LossInv'
<1> SUFFICES ASSUME PlaceTypes, PlaceTypes', LossInv, [PlaceNext]_placeVars, Still'
             PROVE  Lossless'
  BY DEF LossInv
<1>1. Still
  BY Lasting DEF Still, Ops
<1>2. Lossless
  BY <1>1 DEF LossInv
<1>3. CASE Submit
  BY <1>2, <1>3, SubmitLossless
<1>4. ASSUME NEW S \in Lost, Lose(S) PROVE Lossless'
  <2>1. S \in SUBSET Node
    BY PlacementNodes DEF PlaceTypes, Lost
  <2> QED
    BY <1>2, <1>4, <2>1, LoseLossless
<1>5. ASSUME NEW n \in Node, See(n) PROVE Lossless'
  BY <1>2, <1>5, SeeLossless
<1>6. ASSUME NEW n \in Node, StartShard(n) PROVE Lossless'
  BY <1>2, <1>6, StartShardLossless
<1>7. ASSUME NEW n \in Node, StopShard(n) PROVE Lossless'
  BY <1>2, <1>7, StopShardLossless
<1>8. ASSUME NEW n \in Node, Replicate(n) PROVE Lossless'
  BY <1>2, <1>8, ReplicateLossless
<1>9. ASSUME NEW n \in Node, Stop(n) PROVE Lossless'
  BY <1>2, <1>9, IdleLossless DEF Stop, SameMaps, Lossless, Begun
<1>10. ASSUME NEW n \in Node, Start(n) PROVE Lossless'
  BY <1>2, <1>10, IdleLossless DEF Start, SameMaps, Lossless, Begun
<1>11. ASSUME NEW n \in Node, NEW m \in Node, Reconcile(n, m) PROVE Lossless'
  BY <1>2, <1>11, ReconcileLossless
<1>12. CASE CreateGroup
  BY <1>2, <1>12, CreateLossless
<1>13. ASSUME NEW n \in Node, Register(n) PROVE Lossless'
  BY <1>2, <1>13, RegisterLossless
<1>14. ASSUME NEW n \in Node, UnplaceGroup(n) PROVE Lossless'
  BY <1>1, <1>14 DEF UnplaceGroup, Still
<1>15. ASSUME NEW n \in Node, Recover(n) PROVE Lossless'
  BY <1>2, <1>15, RecoverLossless
<1>16. ASSUME NEW n \in Node, NEW voter \in BOOLEAN, PlaceGroup(n, voter) PROVE Lossless'
  BY <1>1, <1>16 DEF PlaceGroup, Still
<1>17. ASSUME NEW n \in Node, NEW m \in Node, AdminRemove(n, m) PROVE Lossless'
  BY <1>2, <1>17, RemoveLossless
<1>18. CASE UNCHANGED placeVars
  BY <1>2, <1>18, IdleLossless DEF placeVars, SameMaps, Lossless, Begun
<1> QED
  BY <1>3, <1>4, <1>5, <1>6, <1>7, <1>8, <1>9, <1>10, <1>11, <1>12, <1>13, <1>14, <1>15, <1>16,
     <1>17, <1>18, PlaceSteps, Zenon DEF LogSteps

\* A group can be served, by a leader with every acknowledged write, once its living nodes
\* run: while an operator moves it who is patient as well; and whatever RemoveNode and
\* Recover do after nodes are lost for good, of a group that is not moved otherwise.
THEOREM PlacementServiceable ==
    PlaceSpec => [](Still \/ (Patient /\ dead = {}) => Serviceable)
<1>1. PlaceInit => PlaceInv /\ SteadyInv /\ LossInv
  BY PlaceInvInit, SteadyInit, LossInit
<1>2. PlaceTypes /\ PlaceTypes' /\ PlaceInv /\ [PlaceNext]_placeVars => PlaceInv'
  BY PlaceInvNext
<1>3. PlaceTypes /\ PlaceTypes' /\ PlaceInv /\ SteadyInv /\ [PlaceNext]_placeVars => SteadyInv'
  BY SteadyNext
<1>4. PlaceTypes /\ PlaceTypes' /\ LossInv /\ [PlaceNext]_placeVars => LossInv'
  BY LossNext
<1>5. PlaceTypes /\ PlaceInv /\ SteadyInv /\ LossInv =>
        (Still \/ (Patient /\ dead = {}) => Serviceable)
  <2> SUFFICES ASSUME PlaceTypes, PlaceInv, SteadyInv, LossInv, Still \/ (Patient /\ dead = {})
               PROVE  Serviceable
    OBVIOUS
  <2>1. CASE Still
    BY <2>1, LossServes DEF LossInv
  <2>2. CASE Patient /\ dead = {}
    BY <2>2, SteadyServes DEF SteadyInv, PlaceInv, Patient, Careful
  <2> QED
    BY <2>1, <2>2
<1> QED
  BY <1>1, <1>2, <1>3, <1>4, <1>5, PlaceTypesHold, PTL DEF PlaceSpec

-----------------------------------------------------------------------------
(***************************************************************************)
(* Membership: who belongs to the group.                                   *)
(***************************************************************************)
USE UserAssumption, OperatorAssumption, MembershipBounds
    DEF Role, Policy, Time, Forever, NoBan

(* Before InitGroup nobody has a row. *)
Unset == policy = "none" => \A u \in User : member[u] = NoRow

(* A banned row ends when the last ban does; every other row is of someone *)
(* whose ban, if there was one, is over.                                   *)
Served(u) == sentence[u] = NoBan \/ (sentence[u] # Forever /\ sentence[u] <= now)
Sentences ==
    \A u \in User : IF member[u].status = "banned" THEN sentence[u] = member[u].until
                                                   ELSE Served(u)

IInv == TypeOK /\ Unset /\ Sentences /\ RolesEarned /\ OwnerStays

(***************************************************************************)
(* Rows and owners                                                         *)
(***************************************************************************)
Row == [role : Role, status : {"none", "active", "pending", "banned"}, until : 0..MaxTime]

(* What the commands write are rows. *)
LEMMA Rows ==
  ASSUME NEW row \in Row, NEW t \in 0..MaxTime
  PROVE  /\ NoRow \in Row
         /\ NoRow.role = "member" /\ NoRow.status = "none"
         /\ [role |-> "owner", status |-> "active", until |-> 0] \in Row
         /\ [role |-> "owner", status |-> "active", until |-> 0].status = "active"
         /\ [role |-> "owner", status |-> "active", until |-> 0].role = "owner"
         /\ \A s \in {"active", "pending"} :
               /\ Admitted(row, s) \in Row
               /\ Admitted(row, s).role = row.role /\ Admitted(row, s).status = s
         /\ Banned(row, t) \in Row /\ Banned(row, t).role = "member"
         /\ Banned(row, t).status = "banned" /\ Banned(row, t).until = t
<1>1. /\ NoRow \in Row
      /\ NoRow.role = "member" /\ NoRow.status = "none"
  BY DEF Row, NoRow
<1>3. \A s \in {"active", "pending"} :
        /\ Admitted(row, s) \in Row
        /\ Admitted(row, s).role = row.role /\ Admitted(row, s).status = s
  BY DEF Row, Admitted
<1>4. /\ Banned(row, t) \in Row /\ Banned(row, t).role = "member"
      /\ Banned(row, t).status = "banned" /\ Banned(row, t).until = t
  BY DEF Row, Banned
<1>5. [role |-> "owner", status |-> "active", until |-> 0] \in Row
  BY DEF Row
<1>. QED BY <1>1, <1>3, <1>4, <1>5

(* Owners, when one person's row changes. *)
LEMMA OwnersAfter ==
  ASSUME TypeOK, NEW u \in User, NEW row, member' = [member EXCEPT ![u] = row]
  PROVE  Owners' = IF row.role = "owner" /\ row.status = "active"
                   THEN Owners \cup {u} ELSE Owners \ {u}
BY DEF TypeOK, Owners

(* Somebody stays when one who is not the last owner goes. *)
LEMMA AnotherOwner ==
  ASSUME TypeOK, NEW u \in User, ~LastOwner(u), Owners # {}
  PROVE  Owners \ {u} # {}
<1>1. CASE member[u].role # "owner"
  BY <1>1 DEF Owners
<1>2. CASE member[u].role = "owner"
  <2>1. IsFiniteSet(Owners) /\ Cardinality(Owners) \in Nat
    BY FS_Subset, FS_CardinalityType DEF Owners
  <2>2. Cardinality(Owners) > 1
    BY <1>2, <2>1 DEF LastOwner
  <2>3. SUFFICES ASSUME Owners \ {u} = {} PROVE FALSE
    OBVIOUS
  <2>4. Owners \in SUBSET {u}
    BY <2>3
  <2>5. Cardinality(Owners) <= 1
    BY <2>4, FS_Singleton, FS_Subset
  <2>. QED BY <2>1, <2>2, <2>5
<1>. QED BY <1>1, <1>2

(***************************************************************************)
(* The invariant                                                           *)
(***************************************************************************)

(* The invariant holds in the empty group. *)
LEMMA InitInv == Init => IInv
<1>. SUFFICES ASSUME Init PROVE IInv
  OBVIOUS
<1>. USE DEF Init
<1>1. TypeOK
  BY DEF TypeOK, NoRow, NoInvite
<1>2. Unset
  BY DEF Unset
<1>3. Sentences
  BY DEF Sentences, Served, NoRow
<1>4. RolesEarned
  BY DEF RolesEarned, NoRow
<1>5. OwnerStays
  BY DEF OwnerStays
<1>. QED BY <1>1, <1>2, <1>3, <1>4, <1>5 DEF IInv

(* InitGroup makes the founder the group's first owner, once. *)
LEMMA InitGroupInv == IInv /\ InitGroup => IInv'
<1>. SUFFICES ASSUME IInv, InitGroup PROVE IInv'
  OBVIOUS
<1>. USE DEF IInv
<1>. DEFINE first == [role |-> "owner", status |-> "active", until |-> 0]
<1>0. /\ member \in [User -> Row] /\ policy' \in Policy
      /\ first \in Row /\ first.role = "owner" /\ first.status = "active"
  BY Rows DEF TypeOK, InitGroup, Row, NoRow
<1>. HIDE DEF first
<1>1. \/ member' = [member EXCEPT ![Founder] = first] /\ member[Founder].status = "none"
      \/ member' = member /\ member[Founder].status # "none"
  BY DEF InitGroup, first
<1>2. TypeOK'
  BY <1>0, <1>1 DEF TypeOK, InitGroup, Row
<1>3. Unset'
  BY DEF Unset, InitGroup
<1>4. Sentences'
  BY <1>0, <1>1 DEF Sentences, Served, InitGroup
<1>5. RolesEarned'
  <2>1. CASE policy = "none"
    <3>1. \A u \in User : member[u] = NoRow /\ NoRow.role = "member" /\ NoRow.status = "none"
      BY <2>1 DEF Unset, NoRow
    <3>2. \A u \in User \ {Founder} : member'[u].role = "member"
      BY <1>0, <1>1, <3>1
    <3>3. member' = [member EXCEPT ![Founder] = first] /\ trusted' = {Founder}
      BY <1>1, <2>1, <3>1 DEF InitGroup
    <3>. QED BY <1>0, <3>2, <3>3 DEF RolesEarned
  <2>2. CASE policy # "none"
    <3>1. repeats' > 0 /\ repeats' >= repeats /\ trusted' = trusted
      BY <2>2 DEF InitGroup, TypeOK
    <3>. QED BY <1>0, <1>1, <3>1 DEF RolesEarned
  <2>. QED BY <2>1, <2>2
<1>6. OwnerStays'
  <2>1. CASE policy = "none"
    <3>1. member' = [member EXCEPT ![Founder] = first]
      BY <1>1, <2>1 DEF Unset, NoRow
    <3>. QED BY <1>0, <3>1 DEF OwnerStays, Owners
  <2>2. CASE policy # "none"
    <3>1. Owners \subseteq Owners'
      BY <1>0, <1>1 DEF Owners
    <3>. QED BY <2>2, <3>1 DEF OwnerStays
  <2>. QED BY <2>1, <2>2
<1>. QED BY <1>2, <1>3, <1>4, <1>5, <1>6

(* A step that changes one row, of somebody who has one or could have one. *)
LEMMA RowInv ==
  ASSUME IInv, NEW u \in User, NEW row \in Row, policy # "none",
         member' = [member EXCEPT ![u] = row],
         policy' = policy, now' = now, repeats' = repeats,
         invite' \in [Code -> [left : 0..MaxUses, expires : 0..MaxTime, revoked : BOOLEAN]],
         sentence' \in [User -> {NoBan} \cup 0..MaxTime], trusted' \subseteq User,
         \A v \in User \ {u} : sentence'[v] = sentence[v] /\ (v \in trusted => v \in trusted'),
         IF row.status = "banned" THEN sentence'[u] = row.until ELSE Served(u)',
         row.role # "member" => /\ row.status = "active"
                                /\ u \in trusted' \/ (u = Founder /\ repeats > 0),
         (row.role = "owner" /\ row.status = "active") \/ Owners \ {u} # {}
  PROVE  IInv'
<1>. USE DEF IInv
<1>1. TypeOK'
  BY DEF TypeOK, Row
<1>2. Unset'
  BY DEF Unset, TypeOK
<1>3. Sentences'
  BY DEF Sentences, Served, TypeOK
<1>4. RolesEarned'
  BY DEF RolesEarned, TypeOK
<1>5. OwnerStays'
  BY OwnersAfter DEF OwnerStays
<1>. QED BY <1>1, <1>2, <1>3, <1>4, <1>5

(* A step that changes no row. *)
LEMMA NoRowInv ==
  ASSUME IInv, member' = member, policy' \in Policy \cup {"none"},
         policy = "none" <=> policy' = "none",
         now' \in Time, now' >= now, repeats' = repeats, sentence' = sentence, trusted' = trusted,
         invite' \in [Code -> [left : 0..MaxUses, expires : 0..MaxTime, revoked : BOOLEAN]]
  PROVE  IInv'
<1>. USE DEF IInv
<1>1. TypeOK'
  BY DEF TypeOK
<1>2. Unset'
  BY DEF Unset
<1>3. Sentences'
  BY DEF Sentences, Served, TypeOK
<1>4. RolesEarned'
  BY DEF RolesEarned
<1>5. OwnerStays'
  BY DEF OwnerStays, Owners
<1>. QED BY <1>1, <1>2, <1>3, <1>4, <1>5

(* Joining admits nobody whose ban still runs, and gives no role. *)
LEMMA JoinGroupInv ==
  ASSUME NEW u \in User, NEW code \in Code \cup {NoCode}, NEW at \in Recent
  PROVE  IInv /\ JoinGroup(u, code, at) => IInv'
<1>. SUFFICES ASSUME IInv, JoinGroup(u, code, at) PROVE IInv'
  OBVIOUS
<1>. USE DEF IInv
<1>1. PICK s \in {"active", "pending"} : member' = [member EXCEPT ![u] = Admitted(@, s)]
  BY DEF JoinGroup
<1>2. /\ member[u] \in Row /\ at \in Time /\ at <= now
      /\ policy # "none" /\ UNCHANGED <<policy, now, repeats, sentence, trusted>>
      /\ member[u].status # "active" /\ ~Barred(u, at)
  BY DEF JoinGroup, TypeOK, Row, Recent, history
<1>. DEFINE row == Admitted(member[u], s)
<1>3. row \in Row /\ row.role = member[u].role /\ row.status = s
  BY <1>2, Rows
<1>4. invite' \in [Code -> [left : 0..MaxUses, expires : 0..MaxTime, revoked : BOOLEAN]]
  BY DEF JoinGroup, TypeOK, Usable
<1>5. Served(u)'
  BY <1>2 DEF Sentences, Served, Barred, TypeOK, Row
<1>6. member[u].role = "member"
  BY <1>2 DEF RolesEarned
<1>7. Owners \ {u} # {}
  BY <1>2 DEF OwnerStays, Owners
<1>. HIDE DEF row, IInv
<1>8. member' = [member EXCEPT ![u] = row]
  BY <1>1 DEF row
<1>. QED
  <2>1. sentence' \in [User -> {NoBan} \cup 0..MaxTime] /\ trusted' \subseteq User
    BY <1>2 DEF TypeOK, IInv
  <2>. QED BY <1>2, <1>3, <1>4, <1>5, <1>6, <1>7, <1>8, <2>1, RowInv

(* A review turns a pending row into an active member, or deletes it. *)
LEMMA ReviewJoinInv ==
  ASSUME NEW u \in User, NEW approve \in BOOLEAN
  PROVE  IInv /\ ReviewJoin(u, approve) => IInv'
<1>. SUFFICES ASSUME IInv, ReviewJoin(u, approve) PROVE IInv'
  OBVIOUS
<1>. USE DEF IInv
<1>. DEFINE row == IF approve THEN [member[u] EXCEPT !.status = "active"] ELSE NoRow
<1>1. /\ member[u] \in Row /\ member[u].status = "pending"
      /\ UNCHANGED <<policy, invite, now, repeats, sentence>>
      /\ trusted' \in {trusted, trusted \ {u}}
  BY DEF ReviewJoin, TypeOK, Row
<1>2. member[u].role = "member" /\ Served(u)
  BY <1>1 DEF RolesEarned, Sentences
<1>3. row \in Row /\ row.role = "member" /\ row.status \in {"active", "none"}
  <2>1. approve => row = [member[u] EXCEPT !.status = "active"]
    OBVIOUS
  <2>2. ~approve => row = NoRow
    OBVIOUS
  <2>. QED BY <1>1, <1>2, <2>1, <2>2 DEF Row, NoRow
<1>4. member' = [member EXCEPT ![u] = row]
  BY DEF ReviewJoin
<1>5. policy # "none"
  BY <1>1 DEF Unset, NoRow
<1>6. Owners \ {u} # {}
  BY <1>1, <1>5 DEF OwnerStays, Owners
<1>7. Served(u)'
  BY <1>1, <1>2 DEF Served
<1>8. /\ invite' \in [Code -> [left : 0..MaxUses, expires : 0..MaxTime, revoked : BOOLEAN]]
      /\ sentence' \in [User -> {NoBan} \cup 0..MaxTime] /\ trusted' \subseteq User
  BY <1>1 DEF TypeOK
<1>. HIDE DEF row, IInv
<1>. QED BY <1>1, <1>3, <1>4, <1>5, <1>6, <1>7, <1>8, RowInv

(* Creating and revoking invites changes no row. *)
LEMMA InviteInv ==
  /\ \A c \in Code, uses \in 1..MaxUses, expires \in Time, at \in Recent :
        IInv /\ CreateInvite(c, uses, expires, at) => IInv'
  /\ \A c \in Code : IInv /\ RevokeInvite(c) => IInv'
<1>1. ASSUME IInv, NEW c \in Code, NEW uses \in 1..MaxUses, NEW expires \in Time, NEW at \in Recent,
             CreateInvite(c, uses, expires, at)
      PROVE  IInv'
  <2>1. /\ member' = member /\ policy' \in Policy \cup {"none"} /\ (policy = "none" <=> policy' = "none")
        /\ now' \in Time /\ now' >= now /\ repeats' = repeats /\ sentence' = sentence /\ trusted' = trusted
        /\ invite' \in [Code -> [left : 0..MaxUses, expires : 0..MaxTime, revoked : BOOLEAN]]
    BY <1>1 DEF CreateInvite, IInv, TypeOK, history
  <2>. QED BY <1>1, <2>1, NoRowInv
<1>2. ASSUME IInv, NEW c \in Code, RevokeInvite(c) PROVE IInv'
  <2>1. TypeOK
    BY <1>2 DEF IInv
  <2>2. /\ member' = member /\ policy' = policy /\ now' = now
        /\ repeats' = repeats /\ sentence' = sentence /\ trusted' = trusted
        /\ invite' = [invite EXCEPT ![c].revoked = TRUE]
    BY <1>2 DEF RevokeInvite, history
  <2>3. invite' \in [Code -> [left : 0..MaxUses, expires : 0..MaxTime, revoked : BOOLEAN]]
    <3>1. invite \in [Code -> [left : 0..MaxUses, expires : 0..MaxTime, revoked : BOOLEAN]]
      BY <2>1 DEF TypeOK
    <3>. QED BY <2>2, <3>1
  <2>4. policy' \in Policy \cup {"none"} /\ now' \in Time /\ now' >= now
    BY <2>1, <2>2 DEF TypeOK
  <2>. QED BY <1>2, <2>2, <2>3, <2>4, NoRowInv
<1>. QED BY <1>1, <1>2

(* Leaving deletes a row that is no ban, and never the last owner's. *)
LEMMA LeaveGroupInv ==
  ASSUME NEW u \in User
  PROVE  IInv /\ LeaveGroup(u) => IInv'
<1>. SUFFICES ASSUME IInv, LeaveGroup(u) PROVE IInv'
  OBVIOUS
<1>. USE DEF IInv
<1>1. /\ member' = [member EXCEPT ![u] = NoRow] /\ trusted' = trusted \ {u} /\ ~LastOwner(u)
      /\ UNCHANGED <<policy, invite, now, repeats, sentence>>
      /\ member[u].status \in {"active", "pending"}
  BY DEF LeaveGroup, MayLeave
<1>2. NoRow \in Row /\ NoRow.role = "member" /\ NoRow.status = "none"
  BY DEF Row, NoRow
<1>3. policy # "none"
  BY <1>1, <1>2 DEF Unset
<1>4. Owners \ {u} # {}
  BY <1>1, <1>3, AnotherOwner DEF OwnerStays
<1>5. Served(u)'
  BY <1>1 DEF Sentences, Served
<1>6. /\ invite' \in [Code -> [left : 0..MaxUses, expires : 0..MaxTime, revoked : BOOLEAN]]
      /\ sentence' \in [User -> {NoBan} \cup 0..MaxTime] /\ trusted' \subseteq User
  BY <1>1 DEF TypeOK
<1>. HIDE DEF IInv
<1>. QED BY <1>1, <1>2, <1>3, <1>4, <1>5, <1>6, RowInv

(* A role is given to an active member, and the last owner keeps theirs. *)
LEMMA SetRoleInv ==
  ASSUME NEW u \in User, NEW role \in Role
  PROVE  IInv /\ SetRole(u, role) => IInv'
<1>. SUFFICES ASSUME IInv, SetRole(u, role) PROVE IInv'
  OBVIOUS
<1>. USE DEF IInv
<1>. DEFINE row == [member[u] EXCEPT !.role = role]
<1>1. /\ member[u] \in Row /\ member[u].status = "active"
      /\ UNCHANGED <<policy, invite, now, repeats, sentence>>
      /\ trusted' = IF role = "member" THEN trusted \ {u} ELSE trusted \cup {u}
      /\ role # "owner" => ~LastOwner(u)
  BY DEF SetRole, TypeOK, Row
<1>2. row \in Row /\ row.role = role /\ row.status = "active"
  BY <1>1 DEF Row
<1>3. member' = [member EXCEPT ![u] = row]
  BY DEF SetRole, TypeOK
<1>4. policy # "none"
  BY <1>1 DEF Unset, NoRow
<1>5. role = "owner" \/ Owners \ {u} # {}
  BY <1>1, <1>4, AnotherOwner DEF OwnerStays
<1>6. Served(u)'
  BY <1>1 DEF Sentences, Served
<1>7. /\ invite' \in [Code -> [left : 0..MaxUses, expires : 0..MaxTime, revoked : BOOLEAN]]
      /\ sentence' \in [User -> {NoBan} \cup 0..MaxTime] /\ trusted' \subseteq User
  BY <1>1 DEF TypeOK
<1>. HIDE DEF row, IInv
<1>. QED BY <1>1, <1>2, <1>3, <1>4, <1>5, <1>6, <1>7, RowInv

(* A ban takes the role, and is never the last owner's. *)
LEMMA BanInv ==
  ASSUME NEW u \in User, NEW until \in 0..MaxTime, NEW by \in User \cup {Operator}, NEW at \in Recent
  PROVE  IInv /\ Ban(u, until, by, at) => IInv'
<1>. SUFFICES ASSUME IInv, Ban(u, until, by, at) PROVE IInv'
  OBVIOUS
<1>. USE DEF IInv
<1>. DEFINE row == Banned(member[u], until)
<1>1. /\ member[u] \in Row /\ member[u].role # "owner" /\ policy # "none"
      /\ UNCHANGED <<policy, invite, now, repeats>>
      /\ trusted' = trusted \ {u} /\ sentence' = [sentence EXCEPT ![u] = until]
  BY DEF Ban, TypeOK, Row
<1>2. row \in Row /\ row.role = "member" /\ row.status = "banned" /\ row.until = until
  BY <1>1, Rows
<1>3. member' = [member EXCEPT ![u] = row]
  BY DEF Ban, TypeOK
<1>4. Owners \ {u} # {}
  BY <1>1 DEF OwnerStays, Owners
<1>5. /\ invite' \in [Code -> [left : 0..MaxUses, expires : 0..MaxTime, revoked : BOOLEAN]]
      /\ sentence' \in [User -> {NoBan} \cup 0..MaxTime] /\ trusted' \subseteq User
      /\ sentence'[u] = until /\ \A v \in User \ {u} : sentence'[v] = sentence[v]
  BY <1>1 DEF TypeOK
<1>. HIDE DEF row, IInv
<1>. QED BY <1>1, <1>2, <1>3, <1>4, <1>5, RowInv

(* Lifting a ban ends its sentence. *)
LEMMA UnbanInv ==
  ASSUME NEW u \in User
  PROVE  IInv /\ Unban(u) => IInv'
<1>. SUFFICES ASSUME IInv, Unban(u) PROVE IInv'
  OBVIOUS
<1>. USE DEF IInv
<1>1. /\ member' = [member EXCEPT ![u] = NoRow] /\ member[u].status = "banned"
      /\ UNCHANGED <<policy, invite, now, repeats, trusted>>
      /\ sentence' = [sentence EXCEPT ![u] = NoBan]
  BY DEF Unban
<1>2. NoRow \in Row /\ NoRow.role = "member" /\ NoRow.status = "none"
  BY DEF Row, NoRow
<1>3. policy # "none"
  BY <1>1, <1>2 DEF Unset
<1>4. Owners \ {u} # {}
  BY <1>1, <1>3 DEF OwnerStays, Owners
<1>5. /\ invite' \in [Code -> [left : 0..MaxUses, expires : 0..MaxTime, revoked : BOOLEAN]]
      /\ sentence' \in [User -> {NoBan} \cup 0..MaxTime] /\ trusted' \subseteq User
      /\ sentence'[u] = NoBan /\ \A v \in User \ {u} : sentence'[v] = sentence[v]
  BY <1>1 DEF TypeOK
<1>6. Served(u)'
  BY <1>5 DEF Served
<1>. HIDE DEF IInv
<1>. QED BY <1>1, <1>2, <1>3, <1>4, <1>5, <1>6, RowInv

(* Every step keeps the invariant. *)
LEMMA NextInv == IInv /\ [Next]_vars => IInv'
<1>. SUFFICES ASSUME IInv, [Next]_vars PROVE IInv'
  OBVIOUS
<1>1. ASSUME NEW p \in Policy, SetPolicy(p) PROVE IInv'
  <2>1. /\ member' = member /\ policy' \in Policy \cup {"none"} /\ (policy = "none" <=> policy' = "none")
        /\ now' \in Time /\ now' >= now /\ repeats' = repeats /\ sentence' = sentence /\ trusted' = trusted
        /\ invite' \in [Code -> [left : 0..MaxUses, expires : 0..MaxTime, revoked : BOOLEAN]]
    BY <1>1 DEF SetPolicy, IInv, TypeOK, history
  <2>. QED BY <2>1, NoRowInv
<1>2. ASSUME Tick PROVE IInv'
  <2>1. /\ member' = member /\ policy' \in Policy \cup {"none"} /\ (policy = "none" <=> policy' = "none")
        /\ now' \in Time /\ now' >= now /\ repeats' = repeats /\ sentence' = sentence /\ trusted' = trusted
        /\ invite' \in [Code -> [left : 0..MaxUses, expires : 0..MaxTime, revoked : BOOLEAN]]
    BY <1>2 DEF Tick, IInv, TypeOK, tables, history
  <2>. QED BY <2>1, NoRowInv
<1>3. CASE UNCHANGED vars
  <2>1. /\ member' = member /\ policy' \in Policy \cup {"none"} /\ (policy = "none" <=> policy' = "none")
        /\ now' \in Time /\ now' >= now /\ repeats' = repeats /\ sentence' = sentence /\ trusted' = trusted
        /\ invite' \in [Code -> [left : 0..MaxUses, expires : 0..MaxTime, revoked : BOOLEAN]]
    BY <1>3 DEF vars, tables, history, IInv, TypeOK
  <2>. QED BY <2>1, NoRowInv
<1>. QED BY <1>1, <1>2, <1>3, InitGroupInv, JoinGroupInv, ReviewJoinInv, InviteInv, LeaveGroupInv,
            SetRoleInv, BanInv, UnbanInv DEF Next

(* The invariant holds in every reachable state. *)
LEMMA Invariant == Spec => []IInv
BY InitInv, NextInv, PTL DEF Spec

(***************************************************************************)
(* The theorems                                                            *)
(***************************************************************************)
(* The rows, roles and invites have their types; in particular no invite   *)
(* is ever used more often than it was good for (useInvite).               *)
THEOREM TypeCorrect == Spec => []TypeOK
<1>1. IInv => TypeOK
  BY DEF IInv
<1>. QED BY <1>1, Invariant, PTL

(* A group that was set up always has an active owner, whatever LeaveGroup, *)
(* SetRole, Ban and the rest are asked, in any order.                      *)
THEOREM OwnerAlways == Spec => []OwnerStays
<1>1. IInv => OwnerStays
  BY DEF IInv
<1>. QED BY <1>1, Invariant, PTL

(* No ban is got round: not by leaving, joining, invites or approvals.     *)
THEOREM BansHold == Spec => []BanHolds
<1>1. IInv => BanHolds
  BY DEF IInv, Sentences, Served, BanHolds
<1>. QED BY <1>1, Invariant, PTL

(* Nobody has a role that they were not given since they came in.          *)
THEOREM RolesAreEarned == Spec => []RolesEarned
<1>1. IInv => RolesEarned
  BY DEF IInv
<1>. QED BY <1>1, Invariant, PTL
=============================================================================
