----------------------------- MODULE Placement ------------------------------
(***************************************************************************)
(* Where one group lives.  The node map in site.db (internal/cmd/nodes.go) *)
(* says which nodes hold the group and which of them vote; every node      *)
(* follows its own copy of the map, starting and stopping its member of    *)
(* the group's log, and the log's leader brings Raft's membership in line  *)
(* (internal/cluster/upkeep.go and shard.go).                              *)
(*                                                                         *)
(* Raft is external: a membership, what each member's log holds, and a     *)
(* leader wherever a majority of the voters runs and one of that majority  *)
(* is at least as far along as the rest.                                   *)
(***************************************************************************)
EXTENDS Integers, Sequences, FiniteSets, FiniteSetsExt

CONSTANTS
    Node,           \* node ids, a set of numbers: new groups go by id
    VoterNode,      \* nodes whose config says voter
    GroupVoters,    \* voters a new group gets (3)
    Slack,          \* entries behind at which a voter is promoted (64)
    MaxWrites,      \* bound: writes to the group
    Plans           \* what may happen in a behaviour; one is picked at the start

ASSUME PlacementNodes ==
    /\ Node \subseteq Nat /\ IsFiniteSet(Node) /\ VoterNode \subseteq Node /\ GroupVoters \in Nat \ {0}
    /\ \A p \in Plans : p.full \subseteq Node /\ p.first \subseteq Node /\ p.lost \subseteq SUBSET Node
ASSUME PlacementBounds == {Slack, MaxWrites} \subseteq Nat

VARIABLES
    maps,       \* the node map after each command of the site log about it
    seen,       \* per node: how many of them its copy of site.db has
    running,    \* the nodes whose process runs
    shard,      \* the nodes with the group's log open
    state,      \* the nodes with a Raft state for the group on disk
    data,       \* per node: the writes in its log and file
    boot,       \* the voters the log was bootstrapped with ({}: it was not)
    voters,     \* Raft's membership of the log
    others,
    acked,      \* writes acknowledged
    dead,       \* nodes gone for good
    forked,     \* a second log was started beside the first
    downs,
    plan        \* one of Plans, for good

placeVars == <<maps, seen, running, shard, state, data, boot, voters, others, acked,
          dead, forked, downs, plan>>

FullNode == plan.full   \* nodes whose config says full
First == plan.first     \* nodes registered at the start
Ops == plan.ops         \* which of "place", "demote", "unplace", "remove", "recover" are
                        \* used, and whether the operator is "careful", "patient"
Lost == plan.lost       \* sets of nodes that may be lost together, for good
MaxMap == plan.maps     \* bound: changes to the map
MaxDown == plan.downs   \* bound: times a node stops

-----------------------------------------------------------------------------
(***************************************************************************)
(* The map and its commands.                                               *)
(***************************************************************************)
Map == maps[Len(maps)]
Hosts(m) == m.voters \cup m.others
MapOf(n) == maps[seen[n]]

\* A mistake: only the groups a node votes in.
HostedByVoter(n) == n \in MapOf(n).voters
\* Store.HostedBy: the node's own copy of the map puts the group on it.
HostedBy(n) == n \in Hosts(MapOf(n))

\* The first k of a set of ids.
FirstOf(S, k) == {n \in S : Cardinality({x \in S : x <= n}) <= k}

\* The voter nodes are the voters of the site log, which carries the map's
\* commands; once they are replaced, the recovered node is.
SiteLogWorks ==
    LET vs == Map.nodes \cap VoterNode
    IN  vs = {} \/ 2 * Cardinality(vs \ dead) > Cardinality(vs)

Change(m) ==
    /\ Len(maps) < MaxMap /\ SiteLogWorks
    /\ m # Map
    /\ maps' = Append(maps, m)
    /\ UNCHANGED <<seen, running, shard, state, data, boot, voters, others, acked,
                   dead, forked, downs, plan>>

\* CreateGroup and placeNewGroup.
CreateGroup ==
    /\ ~Map.made
    /\ LET vs == FirstOf(Map.nodes \cap VoterNode, GroupVoters) IN
         Change([Map EXCEPT !.made = TRUE, !.voters = vs, !.boot = vs,
                            !.others = (Map.nodes \cap FullNode) \ vs])

\* RegisterNode: a voter takes a group that has no host at all; a full node is
\* put on every group it is not on.
RegisterNode(n) ==
    LET orphan == Map.made /\ Hosts(Map) = {} /\ n \in VoterNode
        m == IF orphan THEN [Map EXCEPT !.voters = {n}, !.boot = {n}] ELSE Map
    IN  Change([m EXCEPT !.nodes = @ \cup {n},
                         !.others = IF n \in FullNode /\ m.made /\ n \notin Hosts(m)
                                    THEN @ \cup {n} ELSE @])

\* register: a running node that does not find itself in its copy of the map.
Register(n) ==
    /\ n \in running /\ n \notin MapOf(n).nodes
    /\ RegisterNode(n)

\* A careful operator waits until the last change has been carried out, and
\* takes a voter off only where two others stay; a patient one also waits until
\* the group's nodes have the last map in their copies of site.db, so that none
\* of them, leading the log, still follows an older one.  The code does not ask.
Allowed ==
    /\ "careful" \in Ops =>
         /\ voters = Map.voters /\ others = Map.others
         /\ state = Hosts(Map)
    /\ "patient" \in Ops => \A n \in Hosts(Map) : seen[n] = Len(maps)

SpareVoter(n) ==
    "careful" \in Ops /\ n \in Map.voters => Cardinality(Map.voters) > 2

\* PlaceGroup: on a node, as a voter or not; or its part there changes.
PlaceGroup(n, voter) ==
    /\ "place" \in Ops /\ Allowed /\ (~voter /\ n \in Map.voters => "demote" \in Ops)
    /\ Map.made /\ n \in Map.nodes
    /\ Change([Map EXCEPT !.voters = IF voter THEN @ \cup {n} ELSE @ \ {n},
                          !.others = IF voter THEN @ \ {n} ELSE @ \cup {n}])

\* UnplaceGroup: not off a full node, and not the last voter.
UnplaceGroup(n) ==
    /\ "unplace" \in Ops /\ Allowed /\ SpareVoter(n)
    /\ n \in Hosts(Map) /\ n \notin FullNode
    /\ n \in Map.voters => Map.voters # {n}
    /\ Change([Map EXCEPT !.voters = @ \ {n}, !.others = @ \ {n}, !.boot = @ \ {n}])

\* A mistake: whether n votes, not whether it is the only one to.
AnyVoter(n) == n \in Map.voters
OnlyVoter(n) == Map.voters = {n}

\* RemoveNode: where n was the only voter, the replacement is made one, and a
\* bootstrap voter at that.
RemoveNode(n, repl) ==
    /\ n \in Map.nodes /\ repl \in Map.nodes \ {n}
    /\ LET only == OnlyVoter(n) IN
         Change([Map EXCEPT
             !.nodes = @ \ {n},
             !.voters = IF only THEN {repl} ELSE @ \ {n},
             !.boot = IF only THEN (@ \ {n}) \cup {repl} ELSE @ \ {n},
             !.others = IF only THEN @ \ {n, repl} ELSE @ \ {n}])

\* adminRemoveNode: "a node that's gone for good".
AdminRemove(n, repl) ==
    /\ "remove" \in Ops /\ n \in dead /\ repl \notin dead
    /\ RemoveNode(n, repl)

\* A node's copy of site.db takes the next of these commands.
See(n) ==
    /\ n \in running /\ seen[n] < Len(maps)
    /\ seen' = [seen EXCEPT ![n] = @ + 1]
    /\ UNCHANGED <<maps, running, shard, state, data, boot, voters, others, acked,
                   dead, forked, downs, plan>>

-----------------------------------------------------------------------------
(***************************************************************************)
(* The group's log (Raft, external).                                       *)
(***************************************************************************)
Majority(Q, V) == Q \subseteq V /\ 2 * Cardinality(Q) > Cardinality(V)

\* n can lead with the votes of Q.  A member with nothing on disk can vote, as
\* far as Raft knows, but not stand.
LeadsWith(n, Q) ==
    /\ n \in Q \cap state /\ Majority(Q, voters) /\ Q \subseteq running \cap shard
    /\ \A q \in Q : data[q] \subseteq data[n]
CanLead(n) == \E Q \in SUBSET voters : LeadsWith(n, Q)

\* A write is acknowledged: a majority has it, with all the leader has.
Submit ==
    /\ Cardinality(acked) < MaxWrites
    /\ LET w == Cardinality(acked) + 1 IN
       \E n \in voters : \E Q \in SUBSET voters :
         /\ LeadsWith(n, Q)
         /\ acked' = acked \cup {w}
         /\ data' = [m \in Node |-> IF m \in Q THEN data[n] \cup {w} ELSE data[m]]
         /\ state' = state \cup Q
    /\ UNCHANGED <<maps, seen, running, shard, boot, voters, others, dead,
                   forked, downs, plan>>

\* The leader brings a member up to date, from nothing if need be.
Replicate(m) ==
    /\ m \in (voters \cup others) \cap running \cap shard
    /\ \E n \in voters :
         /\ CanLead(n) /\ n # m
         /\ <<data[m], m \in state>> # <<data[n], TRUE>>
         /\ data' = [data EXCEPT ![m] = data[n]]
    /\ state' = state \cup {m}
    /\ UNCHANGED <<maps, seen, running, shard, boot, voters, others, acked, dead,
                   forked, downs, plan>>

\* A majority Q of the voters vs has the log open and takes it over, up to its end.
TakenBy(Q, vs) == Majority(Q, vs) /\ Q \subseteq running \cap shard

\* Leader n commits a membership under the new voters.
Members(n, vs, os) ==
    /\ \E Q \in SUBSET vs :
         /\ n \in Q /\ TakenBy(Q, vs)
         /\ data' = [m \in Node |-> IF m \in Q THEN data[n] ELSE data[m]]
         /\ state' = state \cup Q
    /\ voters' = vs /\ others' = os
    /\ UNCHANGED <<maps, seen, running, shard, boot, acked, dead, forked, downs, plan>>

-----------------------------------------------------------------------------
(***************************************************************************)
(* Upkeep.                                                                 *)
(***************************************************************************)
\* caughtUp: m answers, and is close enough to the leader's end of the log.
CaughtUp(n, m) ==
    /\ m \in running \cap shard
    /\ Cardinality(data[n] \ data[m]) <= Slack

\* reconcileMembers, one change of it for member m, by the leader n, after its
\* own copy of the map.  wantMembers: nothing when the map has no voter.
Reconcile(n, m) ==
    /\ CanLead(n) /\ m # n
    /\ MapOf(n).voters # {} /\ HostedBy(n)
    /\ \/ /\ m \in Hosts(MapOf(n)) /\ m \notin voters \cup others
          /\ Members(n, voters, others \cup {m})
       \/ /\ m \in MapOf(n).voters /\ m \in others /\ CaughtUp(n, m)
          /\ Members(n, voters \cup {m}, others \ {m})
       \/ /\ m \in MapOf(n).others /\ m \in voters
          /\ Members(n, voters \ {m}, others \cup {m})
       \/ /\ m \notin Hosts(MapOf(n)) /\ m \in voters \cup others
          /\ Members(n, voters \ {m}, others \ {m})

\* A mistake: every voter of the map, those placed later included.
AllVoters(m) == m.voters
FirstVoters(m) == m.voters \cap m.boot

\* placeShards, a group placed on n: its log is opened, and bootstrapped if n
\* is one of its first voters and has no state for it.
StartShard(n) ==
    LET first == FirstVoters(MapOf(n))
        begins == n \in first /\ n \notin state
    IN  /\ n \in running \ shard /\ HostedBy(n)
        /\ shard' = shard \cup {n}
        /\ state' = IF begins THEN state \cup {n} ELSE state
        /\ IF begins /\ boot = {}
             THEN boot' = first /\ voters' = first
             ELSE UNCHANGED <<boot, voters>>
        /\ forked' = (forked \/ (begins /\ boot \notin {{}, first}))
        /\ UNCHANGED <<maps, seen, running, data, others, acked, dead, downs, plan>>

\* placeShards, a group taken off n: a leader first removes itself, which the
\* others must agree to, as they do to any other change of the membership (it
\* may fail, for want of a majority of them); then the log and the file are
\* deleted.
StopShard(n) ==
    /\ n \in running \cap shard /\ ~HostedBy(n)
    /\ \/ /\ voters' = voters
          /\ data' = [data EXCEPT ![n] = {}]
          /\ state' = state \ {n}
       \/ /\ CanLead(n) /\ voters' = voters \ {n}
          /\ \E Q \in SUBSET (voters \ {n}) :
               /\ TakenBy(Q, voters \ {n})
               /\ data' = [m \in Node |-> IF m = n THEN {}
                                         ELSE IF m \in Q THEN data[n] ELSE data[m]]
               /\ state' = (state \cup Q) \ {n}
    /\ shard' = shard \ {n}
    /\ UNCHANGED <<maps, seen, running, boot, others, acked, dead, forked, downs, plan>>

Stop(n) ==
    /\ downs < MaxDown /\ n \in running
    /\ running' = running \ {n} /\ shard' = shard \ {n} /\ downs' = downs + 1
    /\ UNCHANGED <<maps, seen, state, data, boot, voters, others, acked, dead, forked, plan>>

Start(n) ==
    /\ n \notin running \cup dead
    /\ running' = running \cup {n}
    /\ UNCHANGED <<maps, seen, shard, state, data, boot, voters, others, acked, dead,
                   forked, downs, plan>>

\* A disaster: the nodes of S are lost for good, with their disks.
Lose(S) ==
    /\ dead = {}
    /\ dead' = S
    /\ running' = running \ S /\ shard' = shard \ S /\ state' = state \ S
    /\ data' = [n \in Node |-> IF n \in S THEN {} ELSE data[n]]
    /\ UNCHANGED <<maps, seen, boot, voters, others, acked, forked, downs, plan>>

\* A mistake: the node adds itself to the voters that are gone.
RecoveredBeside(n) == voters \cup {n}
Recovered(n) == {n}

\* grus recover, on a stopped node when the log's voters are gone, makes it the
\* log's only voter; forget, on its next start, registers it as a voter and
\* takes the other voter nodes out of the map (RemoveNode, with itself as the
\* replacement).  What only the lost nodes had is given up.
Recover(n) ==
    LET gone == VoterNode \ {n}
        took == Map.voters \ gone = {}
    IN  /\ "recover" \in Ops
        /\ voters # {} /\ voters \subseteq dead /\ n \in state \ (running \cup dead)
        /\ voters' = Recovered(n) /\ others' = {}
        /\ running' = running \cup {n}
        /\ maps' = Append(maps, [Map EXCEPT
               !.nodes = (@ \ gone) \cup {n},
               !.voters = IF took THEN {n} ELSE @ \ gone,
               !.boot = (@ \ gone) \cup (IF took THEN {n} ELSE {}),
               !.others = (@ \ gone) \ (IF took THEN {n} ELSE {})])
        /\ seen' = [seen EXCEPT ![n] = Len(maps')]
        /\ acked' = data[n]
        /\ UNCHANGED <<shard, state, data, boot, dead, forked, downs, plan>>

-----------------------------------------------------------------------------
PlaceInit ==
    /\ plan \in Plans
    /\ maps = <<[nodes |-> First, made |-> FALSE, voters |-> {},
                 others |-> {}, boot |-> {}]>>
    /\ seen = [n \in Node |-> 1]
    /\ running = Node /\ shard = {} /\ state = {}
    /\ data = [n \in Node |-> {}]
    /\ boot = {} /\ voters = {} /\ others = {}
    /\ acked = {} /\ dead = {} /\ forked = FALSE /\ downs = 0

PlaceNext ==
    \/ CreateGroup \/ Submit
    \/ \E S \in Lost : Lose(S)
    \/ \E n \in Node :
         \/ Register(n) \/ See(n) \/ UnplaceGroup(n)
         \/ StartShard(n) \/ StopShard(n) \/ Replicate(n)
         \/ Stop(n) \/ Start(n) \/ Recover(n)
         \/ \E voter \in BOOLEAN : PlaceGroup(n, voter)
         \/ \E m \in Node : Reconcile(n, m) \/ AdminRemove(n, m)

PlaceSpec == PlaceInit /\ [][PlaceNext]_placeVars

\* Nodes are restarted, follow the site log, and run upkeep on every tick.
FairSpec ==
    /\ PlaceSpec
    /\ \A n \in Node :
         /\ WF_placeVars(See(n)) /\ WF_placeVars(Start(n))
         /\ WF_placeVars(StartShard(n)) /\ WF_placeVars(StopShard(n)) /\ WF_placeVars(Replicate(n))
         /\ \A m \in Node : WF_placeVars(Reconcile(n, m))

-----------------------------------------------------------------------------

\* The voters that can have a say in an election, now or once they are started.
Electors == {v \in voters \ dead : v \in Hosts(Map) \cup shard}

\* No write the group acknowledged can be forgotten: every majority that could
\* elect a leader has all of them (placement changes the voters under a running
\* log, and deletes copies), and no node starts the log a second time beside
\* the first.  (Losing most voters for good is another matter: Recover.)  It takes a
\* careful operator.
Kept ==
    dead = {} =>
        /\ \A Q \in SUBSET Electors :
              Majority(Q, voters) => acked \subseteq UNION {data[q] : q \in Q}
        /\ ~forked

\* Moving a group from node to node never leaves it without a copy that can be
\* served: unless most voters are lost, a leader with every write can be elected
\* once all living nodes run.
\* UnplaceGroup refuses the last voter: "place it on another node first".  It takes a
\* patient operator.
Serviceable ==
    acked # {} /\ Majority(voters \ dead, voters) =>
        \E Q \in SUBSET Electors :
            Majority(Q, voters) /\ \E n \in Q : acked \subseteq data[n]

\* Raft's membership and the nodes serving the group come to match the map, and
\* every host has every write, where no node is lost for good.
Converges ==
    <>[](Lost = {} /\ Map.made =>
           /\ voters = Map.voters /\ others = Map.others
           /\ \A n \in Node \ dead :
                IF n \in Hosts(Map) THEN n \in shard /\ data[n] = acked
                                    ELSE n \notin shard)

\* A group whose map names a living voter has, in the end, a leader ("so no
\* group is stranded", RemoveNode).
NoneStranded ==
    <>[](Map.made /\ Map.voters \ dead # {} => \E n \in Node : CanLead(n))
=============================================================================
