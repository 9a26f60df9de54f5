----------------------------- MODULE Membership -----------------------------
(***************************************************************************)
(* Who belongs to a group, in what role, and who is kept out: the          *)
(* memberships and invites tables of one group's file and the commands     *)
(* that change them (internal/cmd/members.go, the people part of           *)
(* moderation.go, and InitGroup in crosslog.go).                           *)
(*                                                                         *)
(* Commands are applied one at a time, in the log's order.  What the web   *)
(* handler checked before submitting one may no longer hold by then, so    *)
(* any command may be applied at any time; the guards are what Apply       *)
(* itself checks, and that a group without settings has no pages.  A       *)
(* command that is refused, or has nothing to do, changes nothing and is   *)
(* not a step.  A command carries its submitter's time, At, which may lie  *)
(* a little back when it is applied.                                       *)
(***************************************************************************)
EXTENDS Integers, FiniteSets

CONSTANTS
    User,
    Founder,        \* the first owner CreateGroup named
    Operator,       \* the site's operator, who needs no role here
    Code,           \* invite codes
    MaxUses,        \* the uses a new invite may have
    MaxTime,        \* bound: the clock
    MaxDelay,       \* bound: how old a command's At may be when it is applied
    MaxRepeats      \* bound: late repeats of InitGroup

ASSUME UserAssumption == IsFiniteSet(User) /\ Founder \in User
ASSUME OperatorAssumption == Operator \notin User
ASSUME MembershipBounds ==
    /\ MaxUses \in Nat \ {0} /\ MaxTime \in Nat \ {0}
    /\ MaxDelay \in Nat /\ MaxRepeats \in Nat

VARIABLES
    member,     \* per user: their memberships row
    policy,     \* settings.join_policy, "none" before InitGroup
    invite,     \* per code: its invites row
    now,
    repeats,    \* InitGroup applied again so far
    sentence,   \* history: per user, the end of the last ban not lifted
    trusted     \* history: users given a role since they last came in

tables == <<member, policy, invite>>
history == <<sentence, trusted>>
vars == <<tables, now, repeats, history>>

Role == {"owner", "mod", "member"}
Policy == {"open", "approval", "invite"}
Time == 1..MaxTime
Forever == 0        \* banned_until of a permanent ban
NoBan == -1
NoCode == "none"

NoRow == [role |-> "member", status |-> "none", until |-> 0]
NoInvite == [left |-> 0, expires |-> 0, revoked |-> TRUE]

TypeOK ==
    /\ member \in [User -> [role : Role, status : {"none", "active", "pending", "banned"},
                            until : 0..MaxTime]]
    /\ policy \in Policy \cup {"none"}
    /\ invite \in [Code -> [left : 0..MaxUses, expires : 0..MaxTime, revoked : BOOLEAN]]
    /\ now \in Time
    /\ repeats \in 0..MaxRepeats
    /\ sentence \in [User -> {NoBan} \cup 0..MaxTime]
    /\ trusted \subseteq User

Init ==
    /\ member = [u \in User |-> NoRow]
    /\ policy = "none"
    /\ invite = [c \in Code |-> NoInvite]
    /\ now = 1
    /\ repeats = 0
    /\ sentence = [u \in User |-> NoBan]
    /\ trusted = {}

Recent == {t \in Time : t <= now /\ now <= t + MaxDelay}

Owners == {u \in User : member[u].role = "owner" /\ member[u].status = "active"}

(* A mistake: the moderators count as owners. *)
LastOwnerOrMod(u) ==
    /\ member[u].role = "owner"
    /\ Cardinality({v \in User : member[v].role # "member" /\ member[v].status = "active"}) <= 1

LastOwner(u) == member[u].role = "owner" /\ Cardinality(Owners) <= 1

-----------------------------------------------------------------------------
(* What the commands write. *)

(* JoinGroup's UPDATE or INSERT: an existing row keeps its role. *)
Admitted(row, status) == [role |-> row.role, status |-> status, until |-> 0]

(* A mistake: a ban that leaves the role in the row. *)
BannedKeepsRole(row, until) == [row EXCEPT !.status = "banned", !.until = until]

(* Ban's upsert: whatever they were, they are a plain member now. *)
Banned(row, until) == [role |-> "member", status |-> "banned", until |-> until]

(* A ban that is still running, for a command with this time. *)
Barred(u, at) ==
    member[u].status = "banned" /\ (member[u].until = Forever \/ member[u].until > at)

(* A mistake: good for one use too many. *)
UsableOnceMore(c, at) == ~invite[c].revoked /\ invite[c].left >= 0 /\ invite[c].expires > at

(* useInvite's WHERE; left is max_uses - uses. *)
Usable(c, at) == ~invite[c].revoked /\ invite[c].left > 0 /\ invite[c].expires > at

-----------------------------------------------------------------------------
(* A new group's settings and first owner.  Both are INSERT OR IGNORE, so  *)
(* that the relay may deliver the command again.                           *)
InitGroup ==
    /\ IF policy = "none"
       THEN policy' = "open" /\ UNCHANGED repeats
       ELSE repeats < MaxRepeats /\ repeats' = repeats + 1 /\ UNCHANGED policy
    /\ IF member[Founder].status = "none"
       THEN member' = [member EXCEPT ![Founder] = [role |-> "owner", status |-> "active", until |-> 0]]
       ELSE UNCHANGED member
    /\ trusted' = IF policy = "none" THEN {Founder} ELSE trusted
    /\ UNCHANGED <<invite, now, sentence>>

(* UpdateSettings of join_policy. *)
SetPolicy(p) ==
    /\ policy # "none"
    /\ policy' = p
    /\ UNCHANGED <<member, invite, now, repeats, history>>

JoinGroup(u, code, at) ==
    /\ policy # "none"
    /\ member[u].status # "active" /\ ~Barred(u, at)
    /\ \/ /\ code \in Code /\ Usable(code, at)
          /\ invite' = [invite EXCEPT ![code].left = @ - 1]
          /\ member' = [member EXCEPT ![u] = Admitted(@, "active")]
       \/ /\ code = NoCode /\ policy = "open"
          /\ member' = [member EXCEPT ![u] = Admitted(@, "active")]
          /\ UNCHANGED invite
       \/ /\ code = NoCode /\ policy = "approval" /\ member[u].status # "pending"
          /\ member' = [member EXCEPT ![u] = Admitted(@, "pending")]
          /\ UNCHANGED invite
    /\ UNCHANGED <<policy, now, repeats, history>>

ReviewJoin(u, approve) ==
    /\ member[u].status = "pending"
    /\ IF approve
       THEN member' = [member EXCEPT ![u].status = "active"] /\ UNCHANGED trusted
       ELSE member' = [member EXCEPT ![u] = NoRow] /\ trusted' = trusted \ {u}
    /\ UNCHANGED <<policy, invite, now, repeats, sentence>>

(* A code that exists already fails on the table's primary key. *)
CreateInvite(c, uses, expires, at) ==
    /\ policy # "none" /\ invite[c] = NoInvite
    /\ uses \in 1..MaxUses /\ expires > at
    /\ invite' = [invite EXCEPT ![c] = [left |-> uses, expires |-> expires, revoked |-> FALSE]]
    /\ UNCHANGED <<member, policy, now, repeats, history>>

RevokeInvite(c) ==
    /\ invite[c] # NoInvite
    /\ invite' = [invite EXCEPT ![c].revoked = TRUE]
    /\ UNCHANGED <<member, policy, now, repeats, history>>

(* A mistake: leaving deletes whatever row there is. *)
MayLeaveAny(u) == member[u].status # "none"

MayLeave(u) == member[u].status \in {"active", "pending"}

LeaveGroup(u) ==
    /\ MayLeave(u) /\ ~LastOwner(u)
    /\ member' = [member EXCEPT ![u] = NoRow]
    /\ trusted' = trusted \ {u}
    /\ UNCHANGED <<policy, invite, now, repeats, sentence>>

SetRole(u, role) ==
    /\ member[u].status = "active"
    /\ role # "owner" => ~LastOwner(u)
    /\ member' = [member EXCEPT ![u].role = role]
    /\ trusted' = IF role = "member" THEN trusted \ {u} ELSE trusted \cup {u}
    /\ UNCHANGED <<policy, invite, now, repeats, sentence>>

(* Who bans matters only where Apply looks: a moderator can be banned by   *)
(* an owner, as the roles are when it is applied, or by the operator.      *)
Ban(u, until, by, at) ==
    /\ policy # "none" /\ by # u
    /\ until = Forever \/ until > at
    /\ member[u].role # "owner"
    /\ member[u].role = "mod" => by = Operator \/ by \in Owners
    /\ member' = [member EXCEPT ![u] = Banned(@, until)]
    /\ sentence' = [sentence EXCEPT ![u] = until]
    /\ trusted' = trusted \ {u}
    /\ UNCHANGED <<policy, invite, now, repeats>>

Unban(u) ==
    /\ member[u].status = "banned"
    /\ member' = [member EXCEPT ![u] = NoRow]
    /\ sentence' = [sentence EXCEPT ![u] = NoBan]
    /\ UNCHANGED <<policy, invite, now, repeats, trusted>>

Tick ==
    /\ now < MaxTime
    /\ now' = now + 1
    /\ UNCHANGED <<tables, repeats, history>>

Next ==
    \/ InitGroup
    \/ \E p \in Policy : SetPolicy(p)
    \/ \E u \in User, code \in Code \cup {NoCode}, at \in Recent : JoinGroup(u, code, at)
    \/ \E u \in User, approve \in BOOLEAN : ReviewJoin(u, approve)
    \/ \E c \in Code, uses \in 1..MaxUses, expires \in Time, at \in Recent :
          CreateInvite(c, uses, expires, at)
    \/ \E c \in Code : RevokeInvite(c)
    \/ \E u \in User : LeaveGroup(u)
    \/ \E u \in User, role \in Role : SetRole(u, role)
    \/ \E u \in User, until \in 0..MaxTime, by \in User \cup {Operator}, at \in Recent :
          Ban(u, until, by, at)
    \/ \E u \in User : Unban(u)
    \/ Tick

Spec == Init /\ [][Next]_vars

-----------------------------------------------------------------------------
(* Once a group has been set up, some active member owns it, whoever       *)
(* leaves, is demoted, banned or repeats a command: LeaveGroup, SetRole    *)
(* and Ban each guard it differently, and nobody else can undo it.         *)
OwnerStays == policy # "none" => Owners # {}

(* Someone a moderator banned is not an active member until the ban has    *)
(* run out or a moderator lifted it: not by leaving and joining again, an  *)
(* invite, an approval given at the same time, or a repeated command.      *)
BanHolds ==
    \A u \in User : member[u].status = "active" =>
        sentence[u] = NoBan \/ (sentence[u] # Forever /\ sentence[u] <= now)

(* Owners and moderators are active members who were given that role       *)
(* since they last came in: leaving or a ban takes it, and coming back     *)
(* does not bring it back.  The one exception is a founder who left: a     *)
(* late repeat of InitGroup finds no row of theirs and makes them owner    *)
(* once more.                                                              *)
RolesEarned ==
    \A u \in User : member[u].role # "member" =>
        /\ member[u].status = "active"
        /\ u \in trusted \/ (u = Founder /\ repeats > 0)
=============================================================================
