------------------------------ MODULE ReplicaSet ------------------------------
(* rs.add(), rs.remove(), rs.reconfig() and rs.reconfigForPSASet()             *)
(* (shell-api/src/replica-set.ts) of several shells on one replica set.  Each  *)
(* reads the configuration, changes it and sends it back with the next         *)
(* version; only the server's version check stands between them.  Ctrl+C may   *)
(* end a call at each of its awaits, a command may be refused, and its answer  *)
(* may be lost.  The server is what the shell relies on: it refuses a version  *)
(* that is not newer, and may refuse any other configuration.                  *)
EXTENDS Naturals, FiniteSets, FiniteSetsExt

CONSTANTS Shells,
          Hosts,         \* hosts that can be added
          Primary,       \* the host of the set when it starts
          MaxVersion,    \* bound: versions of the configuration
          MaxId          \* bound: member _ids

ASSUME ReplicaSetAssumption ==
    Primary \notin Hosts /\ MaxVersion \in Nat \ {0} /\ MaxId \in Nat

VARIABLES
    server,     \* the configuration of the set: its version and its members by _id
    conf,       \* the members in the document each user got from rs.conf() and
                \* has edited (its version is overwritten before it is sent)
    pc,         \* where each shell's call is
    own,        \* its variables: the version it sends, the members it sends in
                \* add() and remove(); in reconfigForPSASet() the version of the
                \* first reconfiguration, the new member's _id and its priority
    reused      \* a reconfigForPSASet() left the priority 0 in the user's document
vars == <<server, conf, pc, own, reused>>

\* A member without a vote has no priority: the server refuses anything else.
Member == {m \in [host : Hosts \cup {Primary}, votes : {0, 1}, priority : {0, 1}] :
             m.votes = 0 => m.priority = 0}
Members == UNION {[ids -> Member] : ids \in SUBSET (0 .. MaxId)}
NoOwn == [version |-> 0, members |-> <<>>, first |-> 0, id |-> 0, priority |-> 0]

TypeOK ==
    /\ server \in [version : 1 .. MaxVersion, members : Members]
    /\ conf \in [Shells -> Members]
    /\ own \in [Shells -> [version : Nat, members : Members, first : Nat,
                           id : 0 .. MaxId, priority : {0, 1}]]
    /\ pc \in [Shells -> {"idle", "addWrites", "reconfigReads", "reconfigWrites",
                          "firstReads", "firstWrites", "secondReads", "secondWrites"}]
    /\ reused \in [Shells -> BOOLEAN]

Voter(h, p) == [host |-> h, votes |-> 1, priority |-> p]

Init ==
    /\ server = [version |-> 1, members |-> [i \in {0} |-> Voter(Primary, 1)]]
    /\ conf = [s \in Shells |-> <<>>]
    /\ pc = [s \in Shells |-> "idle"]
    /\ own = [s \in Shells |-> NoOwn]
    /\ reused = [s \in Shells |-> FALSE]

Goto(s, l) == pc' = [pc EXCEPT ![s] = l]
HostsOf(members) == {members[i].host : i \in DOMAIN members}
With(members, i, m) ==
    [j \in {i} \cup DOMAIN members |-> IF j = i THEN m ELSE members[j]]
Without(members, i) == [j \in DOMAIN members \ {i} |-> members[j]]

-----------------------------------------------------------------------------
\* The user reads the configuration and may edit the document: a new member,
\* other votes and priority for a member, or a member less.
Edited(members) ==
    {members}
    \cup {With(members, i, m) : i \in (1 .. MaxId) \ DOMAIN members,
                               m \in {n \in Member : n.host \notin HostsOf(members)}}
    \cup (UNION {{[members EXCEPT ![i] = m] :
                    m \in {n \in Member : n.host = members[i].host}} :
                 i \in DOMAIN members \ {0}})
    \cup {Without(members, i) : i \in DOMAIN members \ {0}}

Conf(s) ==
    /\ pc[s] = "idle"
    /\ \E members \in Edited(server.members) : conf' = [conf EXCEPT ![s] = members]
    /\ reused' = [reused EXCEPT ![s] = FALSE]
    /\ UNCHANGED <<server, pc, own>>

\* replSetReconfig: what the server accepts has a newer version and no host
\* twice; it may refuse that too (an unsafe change, no quorum, a step-down).
Acceptable(version, members) ==
    /\ version > server.version /\ version <= MaxVersion
    /\ Cardinality(HostsOf(members)) = Cardinality(DOMAIN members)
Accepts(version, members) ==
    Acceptable(version, members) /\ server' = [version |-> version, members |-> members]

\* The command is sent and answered: on success the shell goes to next.  It
\* fails when the server refuses it, or when the answer does not arrive.
Command(s, members, next) ==
    \/ Accepts(own[s].version, members) /\ pc' \in {[pc EXCEPT ![s] = l] : l \in {next, "idle"}}
    \/ UNCHANGED server /\ Goto(s, "idle")

-----------------------------------------------------------------------------
\* Both add() and remove() send the version they read, plus one.
Sends(s, members) ==
    own' = [own EXCEPT ![s] = [NoOwn EXCEPT !.version = server.version + 1,
                                            !.members = members]]

\* add() and addArb() (priority 0): the document that is read gets a member
\* with the next free _id.
AddReads(s, h, p) ==
    /\ pc[s] = "idle" /\ Max(DOMAIN server.members) < MaxId
    /\ Sends(s, With(server.members, Max(DOMAIN server.members) + 1, Voter(h, p)))
    /\ Goto(s, "addWrites")
    /\ UNCHANGED <<server, conf, reused>>

\* remove(): throws if no member has that host.
RemoveReads(s, h) ==
    /\ pc[s] = "idle"
    /\ \E i \in DOMAIN server.members :
         server.members[i].host = h /\ Sends(s, Without(server.members, i))
    /\ Goto(s, "addWrites")
    /\ UNCHANGED <<server, conf, reused>>

\* Faulty AddWrites: the version is read when the document is sent.
AddWritesLate(s) ==
    /\ pc[s] = "addWrites"
    /\ own' = [own EXCEPT ![s] = NoOwn]
    /\ \/ /\ Acceptable(server.version + 1, own[s].members)
          /\ server' = [version |-> server.version + 1, members |-> own[s].members]
       \/ UNCHANGED server
    /\ Goto(s, "idle")
    /\ UNCHANGED <<conf, reused>>

AddWrites(s) ==
    /\ pc[s] = "addWrites"
    /\ Command(s, own[s].members, "idle")
    /\ own' = [own EXCEPT ![s] = NoOwn]
    /\ UNCHANGED <<conf, reused>>

\* reconfig(): the user's document gets the version after the current one.
Reconfig(s) ==
    /\ pc[s] = "idle" /\ conf[s] # <<>>
    /\ Goto(s, "reconfigReads")
    /\ UNCHANGED <<server, conf, own, reused>>

ReconfigReads(s) ==
    /\ pc[s] \in {"reconfigReads", "firstReads", "secondReads"}
    /\ own' = [own EXCEPT ![s].version = server.version + 1]
    /\ Goto(s, CASE pc[s] = "reconfigReads" -> "reconfigWrites"
                 [] pc[s] = "firstReads" -> "firstWrites"
                 [] pc[s] = "secondReads" -> "secondWrites")
    /\ UNCHANGED <<server, conf, reused>>

ReconfigWrites(s) ==
    /\ pc[s] = "reconfigWrites"
    /\ Command(s, conf[s], "idle")
    /\ own' = [own EXCEPT ![s] = NoOwn]
    /\ UNCHANGED <<conf, reused>>

-----------------------------------------------------------------------------
\* reconfigForPSASet(): the checks of the new member's votes in the new and the
\* old configuration.
MayTransition(s, i) ==
    /\ i \in DOMAIN conf[s] /\ conf[s][i].votes = 1
    /\ i \in DOMAIN server.members => server.members[i].votes = 0

\* Faulty Zeroed: the first reconfiguration has the priority already.
ZeroedNot(members, i) == members

\* The priority is saved, and zeroed in the user's own document.
Zeroed(members, i) == [members EXCEPT ![i].priority = 0]

Psa(s, i) ==
    /\ pc[s] = "idle" /\ MayTransition(s, i)
    /\ own' = [own EXCEPT ![s] = [NoOwn EXCEPT !.id = i, !.priority = conf[s][i].priority]]
    /\ conf' = [conf EXCEPT ![s] = Zeroed(@, i)]
    /\ reused' = [reused EXCEPT ![s] = @ \/ conf[s][i].priority # 0]
    /\ Goto(s, "firstReads")
    /\ UNCHANGED server

\* The first reconfiguration: the new member votes and has no priority.  If
\* it fails the call throws; the document keeps the priority 0.
PsaFirstWrites(s) ==
    /\ pc[s] = "firstWrites"
    /\ Command(s, conf[s], IF own[s].priority = 0 THEN "idle" ELSE "secondReads")
    /\ IF pc'[s] = "secondReads"
       THEN /\ conf' = [conf EXCEPT ![s][own[s].id].priority = own[s].priority]
            /\ own' = [own EXCEPT ![s].first = own[s].version]
            /\ reused' = [reused EXCEPT ![s] = FALSE]
       ELSE own' = [own EXCEPT ![s] = NoOwn] /\ UNCHANGED <<conf, reused>>

\* The second one: whether it fails or not, the document has the priority.
PsaSecondWrites(s) ==
    /\ pc[s] = "secondWrites"
    /\ Command(s, conf[s], "idle")
    /\ own' = [own EXCEPT ![s] = NoOwn]
    /\ UNCHANGED <<conf, reused>>

\* Ctrl+C during a call: it goes no further.
Interrupted(s) ==
    /\ pc[s] # "idle"
    /\ Goto(s, "idle") /\ own' = [own EXCEPT ![s] = NoOwn]
    /\ UNCHANGED <<server, conf, reused>>

Next == \E s \in Shells :
    \/ Conf(s)
    \/ \E h \in Hosts, p \in {0, 1} : AddReads(s, h, p)
    \/ \E h \in Hosts : RemoveReads(s, h)
    \/ AddWrites(s)
    \/ Reconfig(s) \/ ReconfigReads(s) \/ ReconfigWrites(s)
    \/ \E i \in 1 .. MaxId : Psa(s, i)
    \/ PsaFirstWrites(s) \/ PsaSecondWrites(s)
    \/ Interrupted(s)

Spec == Init /\ [][Next]_vars

-----------------------------------------------------------------------------
Changed == {i \in DOMAIN server.members \cup DOMAIN server'.members :
               ~ (/\ i \in DOMAIN server.members \cap DOMAIN server'.members
                  /\ server.members[i] = server'.members[i])}

\* An add() or a remove() changes its own member and no other, whatever other
\* shells have reconfigured since it read the configuration: two of them that
\* read the same version never both succeed (replica-set.ts:308, 350).
AddsOnlyItself ==
    [][\A s \in Shells :
         pc[s] = "addWrites" /\ server' # server /\ pc'[s] # pc[s]
            => Cardinality(Changed) = 1]_vars

\* reconfigForPSASet() never gives a member a vote and a priority in one step,
\* the change a primary and an arbiter do not survive (replica-set.ts:209-215),
\* as long as no other reconfiguration comes between its two.
VoteBeforePriority ==
    [][\A s \in Shells :
         /\ pc[s] \in {"firstWrites", "secondWrites"} /\ pc'[s] # pc[s]
         /\ server' # server
         /\ pc[s] = "secondWrites" => server.version = own[s].first
         => LET i == own[s].id
            IN  \/ server'.members[i].priority = 0
                \/ (i \in DOMAIN server.members /\ server.members[i].votes = 1)]_vars

\* When the second reconfiguration of reconfigForPSASet() is accepted nobody
\* else's change is undone.  It does not hold: the version is read again, so
\* the check that protects add() and remove() passes, and the members are those
\* of the document the user read before the first one.
SecondKeepsOthers ==
    [][\A s \in Shells :
         pc[s] = "secondWrites" /\ pc'[s] # pc[s] /\ server' # server
            => Changed \subseteq {own[s].id}]_vars

\* A call of reconfigForPSASet() asks for the priority the user wrote.  It does
\* not hold for a document that has been through a failed or interrupted call:
\* it has the priority 0 since, and the second call ends after one
\* reconfiguration, successfully and with a member that cannot be elected.
AsksWhatWasWritten ==
    [][\A s \in Shells : pc[s] = "idle" /\ pc'[s] = "firstReads" => ~reused[s]]_vars
=============================================================================
