-------------------------- MODULE SharedData_proofs --------------------------
(* Proofs about ReplicaSet and UpdateNotification: for any number of shells,*)
(* hosts, versions and feeds, what shells read and write back without a lock*)
(* is not mixed up.                                                         *)
EXTENDS SharedData, Sequences, FiniteSetTheorems, WellFoundedInduction, TLAPS

\* The highest of a finite set of numbers; were there a set without one, a
\* smallest such set would be one element more than a set that has one.
LEMMA HighestOfSet ==
  ASSUME NEW S \in SUBSET Nat, IsFiniteSet(S), S # {}
  PROVE  \E x \in S : \A y \in S : x >= y
  <1> DEFINE Bad == {T \in SUBSET S : T # {} /\ \A x \in T : \E y \in T : ~ x >= y}
  <1>1. Bad = {}
    <2> SUFFICES ASSUME Bad # {} PROVE FALSE
      OBVIOUS
    <2>1. Bad \subseteq FiniteSubsetsOf(S)
      BY FS_FiniteSubsetsOfFinite
    <2>2. PICK T \in Bad : \A U \in Bad : ~ << U, T >> \in StrictSubsetOrdering(S)
      BY ONLY <2>1, Bad # {}, FS_StrictSubsetOrderingWellFounded, WFMin
    <2>3. PICK x \in T : TRUE
      OBVIOUS
    <2>4. T \ {x} \notin Bad
      BY <2>2, <2>3 DEF StrictSubsetOrdering
    <2>5. CASE T = {x}
      BY <2>5
    <2>6. CASE T # {x}
      <3>1. PICK m \in T \ {x} : \A y \in T \ {x} : m >= y
        BY <2>4, <2>6
      <3>2. m \in Nat /\ x \in Nat /\ T \subseteq Nat
        OBVIOUS
      <3>3. CASE m >= x
        BY <3>1, <3>3
      <3>4. CASE x >= m
        <4>1. \A y \in T : x >= y
          BY <3>1, <3>2, <3>4
        <4> QED
          BY <4>1, <2>3
      <3> QED
        BY <3>2, <3>3, <3>4
    <2> QED
      BY <2>5, <2>6
  <1> QED
    BY <1>1 DEF Bad

-----------------------------------------------------------------------------
(* Replica sets: what a configuration, a document and a call's variables    *)
(* have to do with each other.                                              *)

\* The member 0 is the primary the set started with.
Rooted(members) == 0 \in DOMAIN members /\ members[0].host = Primary

\* Two configurations of which one has the member i and the other has not, and
\* which are the same but for that.
DifferAt(f, g, i) ==
  /\ i \in DOMAIN f \/ i \in DOMAIN g
  /\ ~ (i \in DOMAIN f /\ i \in DOMAIN g)
  /\ \A j \in (0 .. MaxId) \ {i} :
       /\ j \in DOMAIN f <=> j \in DOMAIN g
       /\ j \in DOMAIN f => f[j] = g[j]

\* A reconfiguration has a document.
ConfInv(s) ==
  /\ conf[s] # <<>> => Rooted(conf[s])
  /\ pc[s] \notin {"idle", "addWrites"} => conf[s] # <<>>

\* A version that can still be accepted is the one after the configuration that
\* was read, so no other has come between.
AddInv(s) ==
  pc[s] = "addWrites" =>
    /\ Rooted(own[s].members) /\ own[s].version <= server.version + 1
    /\ own[s].version = server.version + 1 =>
         \E i \in 0 .. MaxId : DifferAt(server.members, own[s].members, i)

\* The member of reconfigForPSASet() votes, without a priority until the first
\* reconfiguration has been accepted; then the server has it as a voter.
PsaInv(s) ==
  LET i == own[s].id
  IN  /\ pc[s] \in {"firstReads", "firstWrites", "secondReads", "secondWrites"} =>
           i # 0 /\ i \in DOMAIN conf[s] /\ conf[s][i].votes = 1
      /\ pc[s] \in {"firstReads", "firstWrites"} => conf[s][i].priority = 0
      /\ pc[s] \in {"secondReads", "secondWrites"} =>
           /\ own[s].first <= server.version
           /\ own[s].first = server.version =>
                i \in DOMAIN server.members /\ server.members[i].votes = 1

\* The inductive invariant of ReplicaSet.
IInv ==
  /\ TypeOK /\ Rooted(server.members)
  /\ \A s \in Shells : ConfInv(s) /\ AddInv(s) /\ PsaInv(s)

\* Configurations are functions from some _ids to members.
LEMMA MembersAre ==
  /\ \A f \in Members : DOMAIN f \subseteq 0 .. MaxId /\ f \in [DOMAIN f -> Member]
  /\ \A ids \in SUBSET (0 .. MaxId) : [ids -> Member] \subseteq Members
  /\ <<>> \in Members /\ DOMAIN <<>> = {}
  <1>1. \A ids \in SUBSET (0 .. MaxId) : [ids -> Member] \subseteq Members
    BY DEF Members
  <1>2. <<>> \in [{} -> Member] /\ DOMAIN <<>> = {}
    OBVIOUS
  <1>3. \A f \in Members : DOMAIN f \subseteq 0 .. MaxId /\ f \in [DOMAIN f -> Member]
    BY DEF Members
  <1> QED
    BY <1>1, <1>2, <1>3

\* A configuration with a member more.
LEMMA MemberMore ==
  ASSUME NEW f \in Members, NEW i \in 0 .. MaxId, NEW m \in Member
  PROVE  /\ With(f, i, m) \in Members /\ DOMAIN With(f, i, m) = {i} \cup DOMAIN f
         /\ \A j \in DOMAIN f \ {i} : With(f, i, m)[j] = f[j]
  <1>1. DOMAIN f \subseteq 0 .. MaxId /\ f \in [DOMAIN f -> Member]
    BY MembersAre
  <1>2. With(f, i, m) \in [{i} \cup DOMAIN f -> Member]
    BY <1>1 DEF With
  <1>3. With(f, i, m) \in Members
    BY <1>1, <1>2, MembersAre, {i} \cup DOMAIN f \in SUBSET (0 .. MaxId)
  <1> QED
    BY <1>3 DEF With

\* A configuration with a member less.
LEMMA MemberLess ==
  ASSUME NEW f \in Members, NEW i
  PROVE  /\ Without(f, i) \in Members /\ DOMAIN Without(f, i) = DOMAIN f \ {i}
         /\ \A j \in DOMAIN f \ {i} : Without(f, i)[j] = f[j]
  <1>1. DOMAIN f \subseteq 0 .. MaxId /\ f \in [DOMAIN f -> Member]
    BY MembersAre
  <1>2. Without(f, i) \in [DOMAIN f \ {i} -> Member]
    BY <1>1 DEF Without
  <1>3. Without(f, i) \in Members
    BY <1>1, <1>2, MembersAre, DOMAIN f \ {i} \in SUBSET (0 .. MaxId)
  <1> QED
    BY <1>3 DEF Without

\* A configuration with another member.
LEMMA MemberChanged ==
  ASSUME NEW f \in Members, NEW i, NEW m \in Member
  PROVE  /\ [f EXCEPT ![i] = m] \in Members /\ DOMAIN [f EXCEPT ![i] = m] = DOMAIN f
         /\ i \in DOMAIN f => [f EXCEPT ![i] = m][i] = m
         /\ \A j \in DOMAIN f \ {i} : [f EXCEPT ![i] = m][j] = f[j]
  <1>1. DOMAIN f \subseteq 0 .. MaxId /\ f \in [DOMAIN f -> Member]
    BY MembersAre
  <1>2. [f EXCEPT ![i] = m] \in [DOMAIN f -> Member]
    BY <1>1
  <1>3. [f EXCEPT ![i] = m] \in Members
    BY <1>1, <1>2, MembersAre
  <1> QED
    BY <1>3

\* The _id after the highest is free.
LEMMA NextId ==
  ASSUME NEW f \in Members, DOMAIN f # {}
  PROVE  Max(DOMAIN f) \in Nat /\ Max(DOMAIN f) + 1 \notin DOMAIN f
  <1>1. DOMAIN f \subseteq 0 .. MaxId
    BY MembersAre
  <1>2. 0 .. MaxId \subseteq Nat /\ IsFiniteSet(0 .. MaxId)
    BY ReplicaSetAssumption, FS_Interval
  <1>3. DOMAIN f \in SUBSET Nat /\ IsFiniteSet(DOMAIN f)
    BY <1>1, <1>2, FS_Subset
  <1>4. PICK x \in DOMAIN f : \A y \in DOMAIN f : x >= y
    BY ONLY <1>3, DOMAIN f # {}, HighestOfSet
  <1>5. Max(DOMAIN f) \in DOMAIN f /\ \A y \in DOMAIN f : Max(DOMAIN f) >= y
    BY <1>4 DEF Max
  <1> QED
    BY <1>3, <1>5

\* An edited document is a configuration with the same primary.
LEMMA EditedMembers ==
  ASSUME NEW f \in Members, Rooted(f), NEW g \in Edited(f)
  PROVE  g \in Members /\ Rooted(g) /\ g # <<>>
  <1>1. CASE g = f
    BY <1>1, MembersAre DEF Rooted
  <1>2. ASSUME NEW i \in (1 .. MaxId) \ DOMAIN f, NEW m \in Member, g = With(f, i, m)
        PROVE  g \in Members /\ Rooted(g)
    <2>1. i \in 0 .. MaxId /\ 0 # i
      BY ReplicaSetAssumption
    <2>2. /\ g \in Members /\ DOMAIN g = {i} \cup DOMAIN f
          /\ \A j \in DOMAIN f \ {i} : g[j] = f[j]
      <3>1. /\ With(f, i, m) \in Members /\ DOMAIN With(f, i, m) = {i} \cup DOMAIN f
            /\ \A j \in DOMAIN f \ {i} : With(f, i, m)[j] = f[j]
        BY ONLY <2>1, m \in Member, MemberMore
      <3> QED
        BY ONLY <1>2, <3>1
    <2> QED
      BY <2>1, <2>2 DEF Rooted
  <1>3. ASSUME NEW i \in DOMAIN f \ {0}, NEW m \in Member, g = [f EXCEPT ![i] = m]
        PROVE  g \in Members /\ Rooted(g)
    BY <1>3, MemberChanged DEF Rooted
  <1>4. ASSUME NEW i \in DOMAIN f \ {0}, g = Without(f, i)
        PROVE  g \in Members /\ Rooted(g)
    <2>1. f[i] \in Member /\ i \in 0 .. MaxId
      BY MembersAre
    <2>2. /\ g \in Members /\ DOMAIN g = DOMAIN f \ {i}
          /\ \A j \in DOMAIN f \ {i} : g[j] = f[j]
      BY ONLY <1>4, <2>1, MemberLess
    <2> QED
      BY <2>2 DEF Rooted
  <1>5. g \in Members /\ Rooted(g)
    <2>1. \/ g = f
          \/ \E i \in (1 .. MaxId) \ DOMAIN f, m \in Member : g = With(f, i, m)
          \/ \E i \in DOMAIN f \ {0}, m \in Member : g = [f EXCEPT ![i] = m]
          \/ \E i \in DOMAIN f \ {0} : g = Without(f, i)
      <3>1. CASE g \in {With(f, i, m) : i \in (1 .. MaxId) \ DOMAIN f,
                                       m \in {n \in Member : n.host \notin HostsOf(f)}}
        BY <3>1
      <3>2. CASE g \in UNION {{[f EXCEPT ![i] = m] : m \in {n \in Member : n.host = f[i].host}} :
                              i \in DOMAIN f \ {0}}
        BY <3>2
      <3>3. CASE g \in {Without(f, i) : i \in DOMAIN f \ {0}}
        BY <3>3
      <3> QED
        BY <3>1, <3>2, <3>3 DEF Edited
    <2> QED
      BY ONLY <1>1, <1>2, <1>3, <1>4, <2>1
  <1> QED
    BY <1>5, MembersAre DEF Rooted

\* The inductive invariant holds initially.
LEMMA InitIInv == Init => IInv
  <1> SUFFICES ASSUME Init PROVE IInv
    OBVIOUS
  <1>1. PICK f : f = [i \in {0} |-> Voter(Primary, 1)]
    OBVIOUS
  <1>2. f \in [{0} -> Member] /\ {0} \in SUBSET (0 .. MaxId)
    BY <1>1, ReplicaSetAssumption DEF Voter, Member
  <1>3. f \in Members /\ Rooted(f)
    BY <1>1, <1>2, MembersAre DEF Rooted, Voter
  <1>4. server = [version |-> 1, members |-> f] /\ 1 \in 1 .. MaxVersion /\ 0 \in 0 .. MaxId
    BY <1>1, ReplicaSetAssumption DEF Init
  <1>5. TypeOK
    BY <1>3, <1>4, MembersAre, SMTT(60) DEF Init, TypeOK, NoOwn
  <1> QED
    BY <1>3, <1>4, <1>5, MembersAre DEF Init, IInv, ConfInv, AddInv, PsaInv, Rooted

\* Whatever a shell does, what the invariant says of the others stays: the
\* server's configuration is as it was, or newer than all they have read.
LEMMA OthersKept ==
  ASSUME IInv, NEW t \in Shells,
         conf'[t] = conf[t], pc'[t] = pc[t], own'[t] = own[t],
         server'.version \in Nat,
         server' = server \/ server'.version > server.version
  PROVE  ConfInv(t)' /\ AddInv(t)' /\ PsaInv(t)'
  <1>1. ConfInv(t) /\ AddInv(t) /\ PsaInv(t)
    BY DEF IInv
  <1>2. server.version \in Nat /\ own[t].version \in Nat /\ own[t].first \in Nat
    BY ReplicaSetAssumption DEF IInv, TypeOK
  <1>3. ConfInv(t)'
    BY <1>1 DEF ConfInv
  <1>4. AddInv(t)'
    BY <1>1, <1>2 DEF AddInv
  <1>5. PsaInv(t)'
    BY <1>1, <1>2 DEF PsaInv
  <1> QED
    BY <1>3, <1>4, <1>5

\* A command leaves the configuration as it was, or makes it a newer one.
LEMMA Commanded ==
  ASSUME IInv, NEW s \in Shells, NEW members \in Members, Rooted(members),
         NEW next \in {"idle", "secondReads"}, Command(s, members, next)
  PROVE  /\ server' \in [version : 1 .. MaxVersion, members : Members]
         /\ Rooted(server'.members) /\ server'.version \in Nat
         /\ \/ server' = server
            \/ /\ server'.version > server.version /\ server'.version = own[s].version
               /\ server'.members = members
         /\ pc' \in {[pc EXCEPT ![s] = l] : l \in {next, "idle"}}
         /\ pc'[s] = "secondReads" => server'.version = own[s].version /\ server'.members = members
  <1>1. /\ server \in [version : 1 .. MaxVersion, members : Members] /\ Rooted(server.members)
        /\ own[s].version \in Nat /\ MaxVersion \in Nat
    BY ReplicaSetAssumption DEF IInv, TypeOK
  <1>2. CASE UNCHANGED server /\ Goto(s, "idle")
    <2>1. pc'[s] = "idle"
      BY <1>2 DEF Goto, IInv, TypeOK
    <2> QED
      BY <1>1, <1>2, <2>1 DEF Goto
  <1>3. CASE /\ Accepts(own[s].version, members)
             /\ pc' \in {[pc EXCEPT ![s] = l] : l \in {next, "idle"}}
    <2>1. /\ server' = [version |-> own[s].version, members |-> members]
          /\ own[s].version > server.version /\ own[s].version <= MaxVersion
      BY <1>3 DEF Accepts, Acceptable
    <2>2. own[s].version \in 1 .. MaxVersion
      BY <1>1, <2>1
    <2> QED
      BY <1>1, <1>3, <2>1, <2>2
  <1> QED
    BY <1>2, <1>3 DEF Command

\* A call that is over has no variables.
LEMMA NoVariables ==
  /\ NoOwn \in [version : Nat, members : Members, first : Nat, id : 0 .. MaxId,
                priority : {0, 1}]
  BY MembersAre, ReplicaSetAssumption DEF NoOwn

\* Those of add() and remove() are a version and members.
LEMMA SentVariables ==
  ASSUME NEW version \in Nat, NEW members \in Members
  PROVE  /\ [NoOwn EXCEPT !.version = version, !.members = members]
              \in [version : Nat, members : Members, first : Nat, id : 0 .. MaxId,
                   priority : {0, 1}]
         /\ [NoOwn EXCEPT !.version = version, !.members = members].version = version
         /\ [NoOwn EXCEPT !.version = version, !.members = members].members = members
  BY NoVariables

\* When a call ends all that is left to show is that the server's configuration
\* is one.
LEMMA CallEnds ==
  ASSUME IInv, NEW s \in Shells, conf' = conf, reused' = reused,
         pc' = [pc EXCEPT ![s] = "idle"], own' = [own EXCEPT ![s] = NoOwn],
         server' \in [version : 1 .. MaxVersion, members : Members],
         Rooted(server'.members),
         server' = server \/ server'.version > server.version
  PROVE  IInv'
  <1>1. TypeOK'
    BY NoVariables DEF IInv, TypeOK
  <1>2. server'.version \in Nat
    BY ReplicaSetAssumption
  <1>3. ASSUME NEW t \in Shells, t # s
        PROVE  ConfInv(t)' /\ AddInv(t)' /\ PsaInv(t)'
    <2>1. conf'[t] = conf[t] /\ pc'[t] = pc[t] /\ own'[t] = own[t]
      BY <1>3 DEF IInv, TypeOK
    <2> QED
      BY <1>2, <2>1, OthersKept
  <1>4. ConfInv(s)' /\ AddInv(s)' /\ PsaInv(s)'
    BY DEF IInv, TypeOK, ConfInv, AddInv, PsaInv
  <1> QED
    BY <1>1, <1>3, <1>4 DEF IInv

\* The user reads the configuration.
LEMMA ConfIInv ==
  ASSUME IInv, NEW s \in Shells, Conf(s)
  PROVE  IInv'
  <1>1. PICK members \in Edited(server.members) : conf' = [conf EXCEPT ![s] = members]
    BY DEF Conf
  <1>2. members \in Members /\ Rooted(members)
    BY EditedMembers DEF IInv, TypeOK
  <1>3. TypeOK'
    BY <1>1, <1>2 DEF Conf, IInv, TypeOK
  <1>4. ASSUME NEW t \in Shells, t # s
        PROVE  ConfInv(t)' /\ AddInv(t)' /\ PsaInv(t)'
    <2>1. conf'[t] = conf[t] /\ pc'[t] = pc[t] /\ own'[t] = own[t]
      BY <1>1, <1>4 DEF Conf, IInv, TypeOK
    <2>2. server' = server /\ server'.version \in Nat
      BY ReplicaSetAssumption DEF Conf, IInv, TypeOK
    <2> QED
      BY <2>1, <2>2, OthersKept
  <1>5. ConfInv(s)' /\ AddInv(s)' /\ PsaInv(s)'
    BY <1>1, <1>2 DEF Conf, IInv, TypeOK, ConfInv, AddInv, PsaInv
  <1> QED
    BY <1>3, <1>4, <1>5 DEF Conf, IInv

\* A call of add() or remove() has read a configuration and has another with a
\* member more or less.
LEMMA SendsIInv ==
  ASSUME IInv, NEW s \in Shells, NEW members \in Members, Rooted(members),
         NEW i \in 0 .. MaxId, DifferAt(server.members, members, i),
         Sends(s, members), Goto(s, "addWrites"), UNCHANGED << server, conf, reused >>
  PROVE  IInv'
  <1>1. server.version \in Nat /\ server' = server /\ server'.version \in Nat
    BY ReplicaSetAssumption DEF IInv, TypeOK
  <1>2. PICK r : /\ own' = [own EXCEPT ![s] = r]
                 /\ r \in [version : Nat, members : Members, first : Nat, id : 0 .. MaxId,
                           priority : {0, 1}]
                 /\ r.version = server.version + 1 /\ r.members = members
    <2> DEFINE sent == [NoOwn EXCEPT !.version = server.version + 1, !.members = members]
    <2>1. own' = [own EXCEPT ![s] = sent]
      BY DEF Sends
    <2>2. server.version + 1 \in Nat
      BY <1>1
    <2>3. /\ sent \in [version : Nat, members : Members, first : Nat, id : 0 .. MaxId,
                       priority : {0, 1}]
          /\ sent.version = server.version + 1 /\ sent.members = members
      BY <2>2, SentVariables
    <2> HIDE DEF sent
    <2> QED
      BY <2>1, <2>3
  <1>3. TypeOK'
    BY <1>1, <1>2, ReplicaSetAssumption DEF Goto, IInv, TypeOK
  <1>4. ASSUME NEW t \in Shells, t # s
        PROVE  ConfInv(t)' /\ AddInv(t)' /\ PsaInv(t)'
    <2>1. conf'[t] = conf[t] /\ pc'[t] = pc[t] /\ own'[t] = own[t]
      BY <1>2, <1>4 DEF Goto, IInv, TypeOK
    <2> QED
      BY <1>1, <2>1, OthersKept
  <1>5. own'[s].version = server.version + 1 /\ own'[s].members = members /\ pc'[s] = "addWrites"
    BY <1>2 DEF Goto, IInv, TypeOK
  <1>6. ConfInv(s)' /\ AddInv(s)' /\ PsaInv(s)'
    BY <1>1, <1>5 DEF IInv, ConfInv, AddInv, PsaInv
  <1> QED
    BY <1>3, <1>4, <1>6 DEF IInv

\* add() and remove() read.
LEMMA ReadsIInv ==
  ASSUME IInv, NEW s \in Shells
  PROVE  /\ \A h \in Hosts, p \in {0, 1} : AddReads(s, h, p) => IInv'
         /\ \A h \in Hosts : RemoveReads(s, h) => IInv'
  <1> DEFINE old == server.members
  <1>1. old \in Members /\ Rooted(old)
    BY DEF IInv, TypeOK
  <1>2. ASSUME NEW h \in Hosts, NEW p \in {0, 1}, AddReads(s, h, p)
        PROVE  IInv'
    <2> DEFINE i == Max(DOMAIN old) + 1
    <2>1. i \in 0 .. MaxId /\ i # 0 /\ i \notin DOMAIN old
      <3>1. DOMAIN old # {}
        BY <1>1 DEF Rooted
      <3>2. Max(DOMAIN old) \in Nat /\ i \notin DOMAIN old
        BY <1>1, <3>1, NextId
      <3>3. Max(DOMAIN old) < MaxId
        BY <1>2 DEF AddReads
      <3> QED
        BY ONLY <3>2, <3>3, ReplicaSetAssumption
    <2>2. Voter(h, p) \in Member
      BY DEF Voter, Member
    <2> DEFINE new == With(old, i, Voter(h, p))
    <2>3. /\ new \in Members /\ DOMAIN new = {i} \cup DOMAIN old
          /\ \A j \in DOMAIN old \ {i} : new[j] = old[j]
      BY ONLY <1>1, <2>1, <2>2, MemberMore
    <2>4. Sends(s, new) /\ Goto(s, "addWrites") /\ UNCHANGED << server, conf, reused >>
      BY <1>2 DEF AddReads
    <2> HIDE DEF new, i
    <2>5. Rooted(new)
      BY <1>1, <2>1, <2>3 DEF Rooted
    <2>6. DifferAt(server.members, new, i)
      BY <2>1, <2>3 DEF DifferAt
    <2> QED
      BY <2>1, <2>3, <2>4, <2>5, <2>6, SendsIInv
  <1>3. ASSUME NEW h \in Hosts, RemoveReads(s, h)
        PROVE  IInv'
    <2>1. PICK i \in DOMAIN old : old[i].host = h /\ Sends(s, Without(old, i))
      BY <1>3 DEF RemoveReads
    <2>2. i # 0
      BY <1>1, <2>1, ReplicaSetAssumption DEF Rooted
    <2>3. i \in 0 .. MaxId /\ old[i] \in Member
      BY <1>1, <2>1, MembersAre
    <2> DEFINE new == Without(old, i)
    <2>4. /\ new \in Members /\ DOMAIN new = DOMAIN old \ {i}
          /\ \A j \in DOMAIN old \ {i} : new[j] = old[j]
      BY ONLY <1>1, <2>3, MemberLess
    <2>5. Sends(s, new) /\ Goto(s, "addWrites") /\ UNCHANGED << server, conf, reused >>
      BY <1>3, <2>1 DEF RemoveReads
    <2> HIDE DEF new
    <2>6. Rooted(new)
      BY <1>1, <2>2, <2>4 DEF Rooted
    <2>7. DifferAt(server.members, new, i)
      BY <2>1, <2>3, <2>4 DEF DifferAt
    <2> QED
      BY <2>3, <2>4, <2>5, <2>6, <2>7, SendsIInv
  <1> QED
    BY <1>2, <1>3

\* The command of a call whose reads are over ends it.
LEMMA WritesIInv ==
  ASSUME IInv, NEW s \in Shells,
         AddWrites(s) \/ ReconfigWrites(s) \/ PsaSecondWrites(s) \/ Interrupted(s)
  PROVE  IInv'
  <1>1. TypeOK /\ ConfInv(s) /\ AddInv(s)
    BY DEF IInv
  <1>2. CASE Interrupted(s)
    BY <1>2, CallEnds DEF Interrupted, Goto, IInv, TypeOK
  <1>3. CASE AddWrites(s)
    <2>1. own[s].members \in Members /\ Rooted(own[s].members)
      BY <1>1, <1>3 DEF TypeOK, AddInv, AddWrites
    <2>2. Command(s, own[s].members, "idle")
      BY <1>3 DEF AddWrites
    <2>3. /\ server' \in [version : 1 .. MaxVersion, members : Members]
          /\ Rooted(server'.members) /\ (server' = server \/ server'.version > server.version)
          /\ pc' = [pc EXCEPT ![s] = "idle"]
      BY <2>1, <2>2, Commanded
    <2> QED
      BY <1>3, <2>3, CallEnds DEF AddWrites
  <1>4. CASE ReconfigWrites(s) \/ PsaSecondWrites(s)
    <2>1. conf[s] \in Members /\ Rooted(conf[s])
      BY <1>1, <1>4 DEF TypeOK, ConfInv, ReconfigWrites, PsaSecondWrites
    <2>2. Command(s, conf[s], "idle")
      BY <1>4 DEF ReconfigWrites, PsaSecondWrites
    <2>3. /\ server' \in [version : 1 .. MaxVersion, members : Members]
          /\ Rooted(server'.members) /\ (server' = server \/ server'.version > server.version)
          /\ pc' = [pc EXCEPT ![s] = "idle"]
      BY <2>1, <2>2, Commanded
    <2> QED
      BY <1>4, <2>3, CallEnds DEF ReconfigWrites, PsaSecondWrites
  <1> QED
    BY <1>2, <1>3, <1>4

\* reconfig() starts, or a call reads the version.
LEMMA ReconfigIInv ==
  ASSUME IInv, NEW s \in Shells, Reconfig(s) \/ ReconfigReads(s)
  PROVE  IInv'
  <1>1. /\ server' = server /\ conf' = conf /\ reused' = reused
        /\ server.version \in Nat /\ server'.version \in Nat
    BY ReplicaSetAssumption DEF Reconfig, ReconfigReads, IInv, TypeOK
  <1>2. TypeOK'
    <2>1. own' \in [Shells -> [version : Nat, members : Members, first : Nat,
                              id : 0 .. MaxId, priority : {0, 1}]]
      <3>1. own \in [Shells -> [version : Nat, members : Members, first : Nat,
                                id : 0 .. MaxId, priority : {0, 1}]]
        BY DEF IInv, TypeOK
      <3>2. PICK version \in Nat : version = server.version + 1
        BY <1>1
      <3>3. own' = own \/ own' = [own EXCEPT ![s].version = version]
        BY <3>2 DEF Reconfig, ReconfigReads
      <3> QED
        BY ONLY <3>1, <3>3, version \in Nat
    <2>2. pc' \in [Shells -> {"idle", "addWrites", "reconfigReads", "reconfigWrites",
                             "firstReads", "firstWrites", "secondReads", "secondWrites"}]
      BY ZenonT(60) DEF Reconfig, ReconfigReads, Goto, IInv, TypeOK
    <2> QED
      BY <1>1, <2>1, <2>2 DEF IInv, TypeOK
  <1>3. ASSUME NEW t \in Shells, t # s
        PROVE  ConfInv(t)' /\ AddInv(t)' /\ PsaInv(t)'
    <2>1. pc'[t] = pc[t] /\ own'[t] = own[t]
      BY <1>3 DEF Reconfig, ReconfigReads, Goto, IInv, TypeOK
    <2> QED
      BY <1>1, <2>1, OthersKept
  <1>4. own'[s].id = own[s].id /\ own'[s].first = own[s].first
    BY DEF Reconfig, ReconfigReads, IInv, TypeOK
  <1>5. /\ pc'[s] \in {"reconfigReads", "reconfigWrites", "firstWrites", "secondWrites"}
        /\ pc'[s] = "firstWrites" => pc[s] = "firstReads"
        /\ pc'[s] = "secondWrites" => pc[s] = "secondReads"
        /\ conf[s] # <<>>
    BY DEF Reconfig, ReconfigReads, Goto, IInv, TypeOK, ConfInv
  <1>6. ConfInv(s)' /\ AddInv(s)' /\ PsaInv(s)'
    BY <1>1, <1>4, <1>5 DEF IInv, ConfInv, AddInv, PsaInv
  <1> QED
    BY <1>1, <1>2, <1>3, <1>6 DEF IInv

\* reconfigForPSASet() starts: the member has no priority in the document.
LEMMA PsaIInv ==
  ASSUME IInv, NEW s \in Shells, NEW i \in 1 .. MaxId, Psa(s, i)
  PROVE  IInv'
  <1>1. server' = server /\ server'.version \in Nat
    BY ReplicaSetAssumption DEF Psa, IInv, TypeOK
  <1>2. /\ conf \in [Shells -> Members] /\ conf[s] \in Members
        /\ i \in DOMAIN conf[s] /\ i # 0 /\ i \in 0 .. MaxId
        /\ conf[s] # <<>> /\ Rooted(conf[s])
    <2>1. i \in DOMAIN conf[s] /\ conf \in [Shells -> Members]
      BY DEF Psa, MayTransition, IInv, TypeOK
    <2>2. i # 0 /\ i \in 0 .. MaxId
      BY ReplicaSetAssumption
    <2> QED
      BY <2>1, <2>2, MembersAre DEF IInv, ConfInv
  <1>3. conf[s][i] \in Member /\ conf[s][i].votes = 1
    BY <1>2, MembersAre DEF Psa, MayTransition
  <1>4. PICK m : m = [conf[s][i] EXCEPT !.priority = 0]
    OBVIOUS
  <1>5. /\ m \in Member /\ m.votes = 1 /\ m.priority = 0
        /\ conf[s][i].priority \in {0, 1}
    BY ONLY <1>3, <1>4 DEF Member
  <1>6. PICK f : f = [conf[s] EXCEPT ![i] = m]
    OBVIOUS
  <1>7. /\ f \in Members /\ DOMAIN f = DOMAIN conf[s] /\ f[i] = m
        /\ \A j \in DOMAIN f \ {i} : f[j] = conf[s][j]
    BY ONLY <1>2, <1>5, <1>6, MemberChanged
  <1>8. conf' = [conf EXCEPT ![s] = f]
    BY <1>4, <1>6 DEF Psa, Zeroed
  <1>9. PICK r : /\ own' = [own EXCEPT ![s] = r]
                 /\ r \in [version : Nat, members : Members, first : Nat, id : 0 .. MaxId,
                           priority : {0, 1}]
                 /\ r.id = i /\ r.priority = conf[s][i].priority
    <2> DEFINE saved == [NoOwn EXCEPT !.id = i, !.priority = conf[s][i].priority]
    <2>1. own' = [own EXCEPT ![s] = saved]
      BY DEF Psa
    <2>2. /\ saved \in [version : Nat, members : Members, first : Nat, id : 0 .. MaxId,
                        priority : {0, 1}]
          /\ saved.id = i /\ saved.priority = conf[s][i].priority
      BY <1>2, <1>5, NoVariables
    <2> HIDE DEF saved
    <2> QED
      BY <2>1, <2>2
  <1>10. pc' = [pc EXCEPT ![s] = "firstReads"]
    BY DEF Psa, Goto
  <1>11. TypeOK'
    <2>1. reused' \in [Shells -> BOOLEAN]
      BY DEF Psa, IInv, TypeOK
    <2> QED
      BY <1>1, <1>7, <1>8, <1>9, <1>10, <2>1 DEF IInv, TypeOK
  <1>12. ASSUME NEW t \in Shells, t # s
         PROVE  ConfInv(t)' /\ AddInv(t)' /\ PsaInv(t)'
    <2>1. conf'[t] = conf[t] /\ pc'[t] = pc[t] /\ own'[t] = own[t]
      BY <1>8, <1>9, <1>10, <1>12 DEF IInv, TypeOK
    <2> QED
      BY <1>1, <2>1, OthersKept
  <1>13. conf'[s] = f /\ own'[s].id = i /\ pc'[s] = "firstReads"
    BY <1>8, <1>9, <1>10 DEF IInv, TypeOK
  <1>14. f # <<>> /\ Rooted(f)
    BY <1>2, <1>7, MembersAre DEF Rooted
  <1>15. ConfInv(s)' /\ AddInv(s)' /\ PsaInv(s)'
    BY <1>2, <1>5, <1>7, <1>13, <1>14 DEF ConfInv, AddInv, PsaInv
  <1> QED
    BY <1>1, <1>11, <1>12, <1>15 DEF IInv

\* Its first reconfiguration is sent.
LEMMA PsaFirstIInv ==
  ASSUME IInv, NEW s \in Shells, PsaFirstWrites(s)
  PROVE  IInv'
  <1> DEFINE i == own[s].id
  <1>1. /\ pc[s] = "firstWrites" /\ TypeOK /\ ConfInv(s) /\ PsaInv(s)
        /\ Command(s, conf[s], IF own[s].priority = 0 THEN "idle" ELSE "secondReads")
    BY DEF PsaFirstWrites, IInv
  <1>2. /\ conf[s] \in Members /\ Rooted(conf[s]) /\ conf[s] # <<>>
        /\ i # 0 /\ i \in DOMAIN conf[s] /\ conf[s][i].votes = 1
    BY <1>1 DEF TypeOK, ConfInv, PsaInv
  <1>3. PICK next \in {"idle", "secondReads"} : Command(s, conf[s], next)
    BY <1>1
  <1>4. /\ server' \in [version : 1 .. MaxVersion, members : Members]
        /\ Rooted(server'.members) /\ server'.version \in Nat
        /\ server' = server \/ server'.version > server.version
        /\ pc' \in {[pc EXCEPT ![s] = l] : l \in {next, "idle"}}
        /\ pc'[s] = "secondReads" => /\ server'.version = own[s].version
                                     /\ server'.members = conf[s]
    BY ONLY IInv, s \in Shells, <1>2, <1>3, next \in {"idle", "secondReads"}, Commanded
  <1>5. \/ pc' = [pc EXCEPT ![s] = "idle"] /\ pc'[s] = "idle"
        \/ pc' = [pc EXCEPT ![s] = "secondReads"] /\ pc'[s] = "secondReads"
    BY <1>1, <1>4 DEF TypeOK
  <1>6. CASE pc' = [pc EXCEPT ![s] = "idle"] /\ pc'[s] = "idle"
    BY <1>4, <1>6, CallEnds DEF PsaFirstWrites
  <1>7. CASE pc' = [pc EXCEPT ![s] = "secondReads"] /\ pc'[s] = "secondReads"
    <2>1. /\ conf' = [conf EXCEPT ![s][i].priority = own[s].priority]
          /\ own' = [own EXCEPT ![s].first = own[s].version]
          /\ reused' = [reused EXCEPT ![s] = FALSE]
      BY <1>7 DEF PsaFirstWrites
    <2>2. /\ own \in [Shells -> [version : Nat, members : Members, first : Nat,
                                 id : 0 .. MaxId, priority : {0, 1}]]
          /\ own[s].version \in Nat /\ own[s].priority \in {0, 1}
      BY <1>1 DEF TypeOK
    <2>3. conf[s][i] \in Member
      BY <1>2, MembersAre
    <2>4. PICK m : m = [conf[s][i] EXCEPT !.priority = own[s].priority]
      OBVIOUS
    <2>5. m \in Member /\ m.votes = 1
      BY ONLY <1>2, <2>2, <2>3, <2>4 DEF Member
    <2>6. PICK f : f = [conf[s] EXCEPT ![i] = m]
      OBVIOUS
    <2>7. /\ f \in Members /\ DOMAIN f = DOMAIN conf[s] /\ f[i] = m
          /\ \A j \in DOMAIN f \ {i} : f[j] = conf[s][j]
      BY ONLY <1>2, <2>5, <2>6, MemberChanged
    <2>8. conf' = [conf EXCEPT ![s] = f]
      BY <2>1, <2>4, <2>6
    <2>9. /\ own' \in [Shells -> [version : Nat, members : Members, first : Nat,
                                  id : 0 .. MaxId, priority : {0, 1}]]
          /\ own'[s].id = i /\ own'[s].first = own[s].version
          /\ \A t \in Shells \ {s} : own'[t] = own[t]
      BY ONLY <2>1, <2>2, s \in Shells
    <2>10. TypeOK'
      <3>1. conf' \in [Shells -> Members] /\ reused' \in [Shells -> BOOLEAN]
        BY <1>1, <2>1, <2>7, <2>8, ZenonT(60) DEF TypeOK
      <3>2. pc' \in [Shells -> {"idle", "addWrites", "reconfigReads", "reconfigWrites",
                               "firstReads", "firstWrites", "secondReads", "secondWrites"}]
        BY <1>1, <1>7 DEF TypeOK
      <3> QED
        BY <1>4, <2>9, <3>1, <3>2 DEF TypeOK
    <2>11. ASSUME NEW t \in Shells, t # s
           PROVE  ConfInv(t)' /\ AddInv(t)' /\ PsaInv(t)'
      <3>1. conf'[t] = conf[t] /\ pc'[t] = pc[t] /\ own'[t] = own[t]
        BY <1>1, <1>7, <2>8, <2>9, <2>11 DEF TypeOK
      <3> QED
        BY <1>4, <3>1, OthersKept
    <2>12. conf'[s] = f
      BY <1>1, <2>8 DEF TypeOK
    <2>13. f # <<>> /\ Rooted(f)
      BY <1>2, <2>7, MembersAre DEF Rooted
    <2>14. ConfInv(s)' /\ AddInv(s)' /\ PsaInv(s)'
      <3>1. server'.version = own'[s].first /\ server'.members = conf[s]
        BY <1>4, <1>7, <2>9
      <3> QED
        BY <1>2, <1>4, <1>7, <2>5, <2>7, <2>9, <2>12, <2>13, <3>1 DEF ConfInv, AddInv, PsaInv
    <2> QED
      BY <1>4, <2>10, <2>11, <2>14 DEF IInv
  <1> QED
    BY <1>5, <1>6, <1>7

\* Every step preserves the inductive invariant.
LEMMA NextIInv == IInv /\ [Next]_vars => IInv'
  <1> SUFFICES ASSUME IInv, [Next]_vars PROVE IInv'
    OBVIOUS
  <1>1. CASE UNCHANGED vars
    BY <1>1 DEF vars, IInv, TypeOK, ConfInv, AddInv, PsaInv
  <1>2. CASE Next
    BY <1>2, ConfIInv, ReadsIInv, WritesIInv, ReconfigIInv, PsaIInv, PsaFirstIInv DEF Next
  <1> QED
    BY <1>1, <1>2

\* It holds in every reachable state.
LEMMA IInvCorrect == Spec => []IInv
  BY InitIInv, NextIInv, PTL DEF Spec

\* Type correctness of ReplicaSet.
THEOREM ReplicaSetTypeCorrect == Spec => []TypeOK
  <1>1. IInv => TypeOK
    BY DEF IInv
  <1> QED
    BY <1>1, IInvCorrect, PTL

\* A step that changes the configuration is the command of one shell.
LEMMA ChangedBy ==
  ASSUME IInv, [Next]_vars, server' # server, NEW s \in Shells, pc'[s] # pc[s]
  PROVE  \/ AddWrites(s) /\ Command(s, own[s].members, "idle")
         \/ ReconfigWrites(s)
         \/ PsaFirstWrites(s) /\ \E l \in {"idle", "secondReads"} : Command(s, conf[s], l)
         \/ PsaSecondWrites(s) /\ Command(s, conf[s], "idle")
  <1>1. pc \in [Shells -> {"idle", "addWrites", "reconfigReads", "reconfigWrites",
                          "firstReads", "firstWrites", "secondReads", "secondWrites"}]
    BY DEF IInv, TypeOK
  <1>2. PICK t \in Shells :
          AddWrites(t) \/ ReconfigWrites(t) \/ PsaFirstWrites(t) \/ PsaSecondWrites(t)
    BY DEF Next, vars, Conf, AddReads, RemoveReads, Reconfig, ReconfigReads, Psa, Interrupted
  <1>3. \E next \in {"idle", "secondReads"} : pc' = [pc EXCEPT ![t] = next]
    BY <1>2 DEF AddWrites, ReconfigWrites, PsaFirstWrites, PsaSecondWrites, Command, Goto
  <1>4. t = s
    BY <1>1, <1>3
  <1> QED
    BY <1>2, <1>4 DEF AddWrites, PsaFirstWrites, PsaSecondWrites

\* Only one member is changed by add() and remove(): their version is only
\* newer than the server's if no other reconfiguration came between.
THEOREM AddsOnlyItselfCorrect == Spec => AddsOnlyItself
  <1>1. ASSUME IInv, [Next]_vars, NEW s \in Shells,
               pc[s] = "addWrites" /\ server' # server /\ pc'[s] # pc[s]
        PROVE  Cardinality(Changed) = 1
    <2>1. Command(s, own[s].members, "idle") /\ TypeOK /\ AddInv(s)
      BY <1>1, ChangedBy DEF IInv, ReconfigWrites, PsaFirstWrites, PsaSecondWrites
    <2>2. own[s].members \in Members /\ Rooted(own[s].members)
      BY <1>1, <2>1 DEF TypeOK, AddInv
    <2>3. /\ server'.version > server.version /\ server'.version = own[s].version
          /\ server'.members = own[s].members
      BY <1>1, <2>1, <2>2, Commanded
    <2>4. own[s].version = server.version + 1
      BY <1>1, <2>1, <2>3, ReplicaSetAssumption DEF TypeOK, AddInv
    <2>5. PICK i \in 0 .. MaxId : DifferAt(server.members, own[s].members, i)
      BY <1>1, <2>1, <2>4 DEF AddInv
    <2>6. DOMAIN server.members \subseteq 0 .. MaxId /\ DOMAIN own[s].members \subseteq 0 .. MaxId
      BY <2>1, MembersAre DEF TypeOK
    <2>7. Changed = {i}
      BY <2>3, <2>5, <2>6 DEF Changed, DifferAt
    <2> QED
      BY <2>7, FS_Singleton
  <1>2. ASSUME IInv, [Next]_vars
        PROVE  \A s \in Shells :
                 pc[s] = "addWrites" /\ server' # server /\ pc'[s] # pc[s]
                   => Cardinality(Changed) = 1
    BY <1>1, <1>2
  <1> QED
    BY <1>2, IInvCorrect, PTL DEF Spec, AddsOnlyItself

\* The member of reconfigForPSASet() has no priority in the first configuration
\* that is accepted, and votes in the one the second replaces.
THEOREM VoteBeforePriorityCorrect == Spec => VoteBeforePriority
  <1>1. ASSUME IInv, [Next]_vars, NEW s \in Shells,
               pc[s] \in {"firstWrites", "secondWrites"}, pc'[s] # pc[s], server' # server,
               pc[s] = "secondWrites" => server.version = own[s].first
        PROVE  \/ server'.members[own[s].id].priority = 0
               \/ /\ own[s].id \in DOMAIN server.members
                  /\ server.members[own[s].id].votes = 1
    <2>1. PsaInv(s) /\ ConfInv(s) /\ conf[s] \in Members
      BY <1>1 DEF IInv, TypeOK
    <2>2. CASE pc[s] = "secondWrites"
      BY <1>1, <2>1, <2>2 DEF PsaInv
    <2>3. CASE pc[s] = "firstWrites"
      <3>1. PICK l \in {"idle", "secondReads"} : Command(s, conf[s], l)
        BY <1>1, <2>3, ChangedBy DEF AddWrites, ReconfigWrites, PsaSecondWrites
      <3>2. Rooted(conf[s])
        BY <2>1, <2>3 DEF ConfInv
      <3>3. server'.members = conf[s]
        BY <1>1, <2>1, <3>1, <3>2, Commanded
      <3> QED
        BY <2>1, <2>3, <3>3 DEF PsaInv
    <2> QED
      BY <1>1, <2>2, <2>3
  <1>2. ASSUME IInv, [Next]_vars
        PROVE  \A s \in Shells :
                 /\ pc[s] \in {"firstWrites", "secondWrites"} /\ pc'[s] # pc[s]
                 /\ server' # server
                 /\ pc[s] = "secondWrites" => server.version = own[s].first
                 => LET i == own[s].id
                    IN  \/ server'.members[i].priority = 0
                        \/ (i \in DOMAIN server.members /\ server.members[i].votes = 1)
    BY <1>1, <1>2
  <1> QED
    BY <1>2, IInvCorrect, PTL DEF Spec, VoteBeforePriority

-----------------------------------------------------------------------------
(* Update notifications: what the file and each shell know of the feeds.    *)

\* What is known of a feed under an etag is what it said then, and there is the
\* call to action for its latest version with it.
Said(contents) ==
  contents \in Updates!Records =>
    LET feed == Feeds[contents.url][contents.etag]
    IN /\ contents.etag <= published[contents.url]
       /\ contents.latest = Updates!Latest(feed)
       /\ \A v \in Versions : contents.cta[v] \in {Updates!None, Updates!CtaOf(feed, v)}
       /\ contents.latest # Updates!None =>
            contents.cta[contents.latest] = Updates!CtaOf(feed, contents.latest)

\* What a shell greets with has been said by its feed at one moment.
Greets(memory) ==
  \E n \in 1 .. published[memory.url] :
    LET feed == Feeds[memory.url][n]
    IN /\ memory.latest \in {Updates!None, Updates!Latest(feed)}
       /\ memory.cta \in {Updates!None, Updates!CtaOf(feed, memory.ver)}
       /\ memory.latest # Updates!None /\ memory.latest = memory.ver =>
            memory.cta = Updates!CtaOf(feed, memory.ver)

\* A shell knows nothing until it has read the file; when it writes it has
\* something to write.
MemoryInv(memory) ==
  /\ memory.at # "off" => memory.ver \in Versions /\ memory.url \in URLs
  /\ memory.at \in {"off", "reading"} =>
       memory.latest = Updates!None /\ memory.cta = Updates!None
  /\ memory.at \notin {"off", "reading"} => Greets(memory)
  /\ memory.at \in {"truncating", "writing"} => memory.contents \in Updates!Records
  /\ Said(memory.contents)

\* The inductive invariant of UpdateNotification.
UpdateInv ==
  /\ Updates!TypeOK /\ Said(file)
  /\ \A s \in Shells : MemoryInv(shell[s])

\* The versions and calls to action of a feed.
LEMMA FeedSays ==
  ASSUME Updates!UpdateAssumption, NEW u \in URLs, NEW n \in 1 .. Len(Feeds[u])
  PROVE  /\ Updates!Latest(Feeds[u][n]) \in (Versions \cup {Updates!None}) \ Prereleases
         /\ \A v \in Versions : Updates!CtaOf(Feeds[u][n], v) \in Nat
  <1> DEFINE feed == Feeds[u][n]
  <1>1. feed \in Updates!Contents
    BY DEF Updates!UpdateAssumption
  <1>2. /\ feed.listed \subseteq Versions /\ IsFiniteSet(feed.listed)
        /\ feed.cta \in [Versions -> Nat] /\ feed.default \in Nat
    BY <1>1 DEF Updates!Contents, Updates!IsFiniteSet, IsFiniteSet
  <1>3. Updates!None \notin Prereleases /\ Versions \subseteq Nat
    BY DEF Updates!UpdateAssumption
  <1>4. \A v \in Versions : Updates!CtaOf(feed, v) \in Nat
    BY <1>2 DEF Updates!CtaOf
  <1>5. Updates!Latest(feed) \in (Versions \cup {Updates!None}) \ Prereleases
    <2>1. CASE feed.listed \subseteq Prereleases
      BY <1>3, <2>1 DEF Updates!Latest
    <2>2. CASE ~ feed.listed \subseteq Prereleases
      <3> DEFINE S == feed.listed \ Prereleases
      <3>1. S \in SUBSET Nat /\ IsFiniteSet(S) /\ S # {}
        BY <1>2, <1>3, <2>2, FS_Subset
      <3>2. PICK x \in S : \A y \in S : x >= y
        BY ONLY <3>1, HighestOfSet
      <3>3. Updates!Max(S) \in S
        BY <3>2 DEF Updates!Max
      <3> QED
        BY <1>2, <2>2, <3>3 DEF Updates!Latest
    <2> QED
      BY <2>1, <2>2
  <1> QED
    BY <1>4, <1>5

\* What is no contents of a file.
LEMMA NoRecords ==
  /\ Updates!Absent \notin Updates!Records /\ Updates!Torn \notin Updates!Records
  /\ Updates!Nothing \notin Updates!Records
  /\ Said(Updates!Absent) /\ Said(Updates!Torn) /\ Said(Updates!Nothing)
  BY DEF Updates!Absent, Updates!Torn, Updates!Nothing, Updates!Records, Said

\* A shell that is off.
LEMMA OffIs ==
  /\ Updates!Off \in Updates!Memory /\ Updates!Off.at = "off"
  /\ Updates!Off.contents = Updates!Nothing
  /\ Updates!Off.latest = Updates!None /\ Updates!Off.cta = Updates!None
  BY DEF Updates!Off, Updates!Memory, Updates!None, Updates!Stages

\* The inductive invariant holds initially.
LEMMA UpdateInit == Updates!UpdateAssumption /\ Updates!Init => UpdateInv
  <1> SUFFICES ASSUME Updates!UpdateAssumption, Updates!Init PROVE UpdateInv
    OBVIOUS
  <1>1. \A u \in URLs : Len(Feeds[u]) \in Nat /\ 1 <= Len(Feeds[u])
    BY DEF Updates!UpdateAssumption
  <1>2. file = Updates!Absent /\ shell = [s \in Shells |-> Updates!Off]
    BY DEF Updates!Init
  <1>3. Updates!TypeOK
    BY <1>1, <1>2, OffIs DEF Updates!Init, Updates!TypeOK
  <1>4. \A s \in Shells : MemoryInv(shell[s])
    BY <1>2, OffIs, NoRecords DEF MemoryInv
  <1> QED
    BY <1>2, <1>3, <1>4, NoRecords DEF UpdateInv

\* What has been said stays said.
LEMMA SaidStays ==
  ASSUME Updates!TypeOK, published' \in [URLs -> Nat \ {0}],
         \A u \in URLs : published[u] <= published'[u],
         NEW c, Said(c)
  PROVE  Said(c)'
  <1> SUFFICES ASSUME c \in Updates!Records
               PROVE  c.etag <= published'[c.url]
    BY DEF Said
  <1>1. c.url \in URLs /\ c.etag \in Nat
    BY DEF Updates!Records
  <1>2. published[c.url] \in Nat /\ published'[c.url] \in Nat
    BY <1>1 DEF Updates!TypeOK
  <1> QED
    BY <1>1, <1>2 DEF Said

\* And what a shell knows stays right.
LEMMA MemoryStays ==
  ASSUME Updates!TypeOK, published' \in [URLs -> Nat \ {0}],
         \A u \in URLs : published[u] <= published'[u],
         NEW m \in Updates!Memory, MemoryInv(m)
  PROVE  MemoryInv(m)'
  <1>1. Said(m.contents)'
    BY SaidStays DEF MemoryInv
  <1>2. ASSUME m.at \notin {"off", "reading"}
        PROVE  Greets(m)'
    <2>1. m.url \in URLs /\ Greets(m)
      BY <1>2 DEF MemoryInv
    <2>2. published[m.url] \in Nat /\ published'[m.url] \in Nat /\ published[m.url] <= published'[m.url]
      BY <2>1 DEF Updates!TypeOK
    <2>3. 1 .. published[m.url] \subseteq 1 .. published'[m.url]
      BY <2>2
    <2> QED
      BY <2>1, <2>3 DEF Greets
  <1> QED
    BY <1>1, <1>2 DEF MemoryInv

\* What a shell remembers is as good as it was while no feed has published.
LEMMA MemoryKept ==
  ASSUME NEW m, MemoryInv(m), UNCHANGED published
  PROVE  MemoryInv(m)'
  <1>1. Said(m.contents)'
    BY DEF MemoryInv, Said
  <1>2. m.at \notin {"off", "reading"} => Greets(m)'
    BY DEF MemoryInv, Greets
  <1> QED
    BY <1>1, <1>2 DEF MemoryInv

\* And that is so wherever it is kept.
LEMMA MemoryOf ==
  ASSUME NEW s \in Shells, NEW m, MemoryInv(m)', shell'[s] = m
  PROVE  MemoryInv(shell[s])'
  <1>1. Said(shell[s].contents)'
    BY DEF MemoryInv, Said
  <1>2. (shell[s].at)' \notin {"off", "reading"} => Greets(shell[s])'
    BY DEF MemoryInv, Greets
  <1> QED
    BY <1>1, <1>2 DEF MemoryInv

\* After a step of one shell that is all there is to show.
LEMMA ShellStep ==
  ASSUME UpdateInv, NEW s \in Shells, NEW m \in Updates!Memory, MemoryInv(m),
         shell' = [shell EXCEPT ![s] = m], UNCHANGED << published, installed, url >>,
         NEW f \in Updates!Records \cup {Updates!Absent, Updates!Torn}, file' = f, Said(f)
  PROVE  UpdateInv'
  <1>1. Updates!TypeOK'
    BY DEF UpdateInv, Updates!TypeOK
  <1>2. Said(f)'
    BY DEF Said
  <1>3. ASSUME NEW t \in Shells
        PROVE  MemoryInv(shell[t])'
    <2>1. CASE t = s
      <3>1. shell'[s] = m
        BY DEF UpdateInv, Updates!TypeOK
      <3> QED
        BY <2>1, <3>1, MemoryKept, MemoryOf
    <2>2. CASE t # s
      <3>1. PICK k : k = shell[t]
        OBVIOUS
      <3>2. MemoryInv(k)
        BY <3>1 DEF UpdateInv, MemoryInv, Greets, Said
      <3>3. shell'[t] = k
        BY <2>2, <3>1 DEF UpdateInv, Updates!TypeOK
      <3> QED
        BY <3>2, <3>3, MemoryKept, MemoryOf
    <2> QED
      BY <2>1, <2>2
  <1>4. Said(file)'
    BY <1>2 DEF Said
  <1> QED
    BY <1>1, <1>3, <1>4 DEF UpdateInv

\* If it leaves the file alone, even less.
LEMMA MemoryStep ==
  ASSUME UpdateInv, NEW s \in Shells, NEW m \in Updates!Memory, MemoryInv(m),
         shell' = [shell EXCEPT ![s] = m], UNCHANGED << file, published, installed, url >>
  PROVE  UpdateInv'
  <1>1. PICK f : f = file
    OBVIOUS
  <1>2. f \in Updates!Records \cup {Updates!Absent, Updates!Torn} /\ file' = f
    BY <1>1 DEF UpdateInv, Updates!TypeOK
  <1>3. Said(f)
    BY <1>1 DEF UpdateInv, Said
  <1> QED
    BY <1>2, <1>3, ShellStep

\* A shell that has learnt nothing greets with nothing.
LEMMA LearntNothing ==
  ASSUME UpdateInv, NEW m \in Updates!Memory, m.url \in URLs,
         m.latest = Updates!None, m.cta = Updates!None
  PROVE  Greets(m)
  <1>1. published[m.url] \in Nat \ {0}
    BY DEF UpdateInv, Updates!TypeOK
  <1>2. 1 \in 1 .. published[m.url]
    BY <1>1
  <1> QED
    BY <1>2 DEF Greets

\* When fetchUpdateMetadata() is over what has been learnt is left.
LEMMA OverIs ==
  ASSUME UpdateInv, NEW m \in Updates!Memory, m.ver \in Versions, m.url \in URLs, Greets(m)
  PROVE  Updates!Over(m) \in Updates!Memory /\ MemoryInv(Updates!Over(m))
  <1>1. PICK over : over = Updates!Over(m)
    OBVIOUS
  <1>2. /\ over \in Updates!Memory /\ over.at = "over" /\ over.ver = m.ver /\ over.url = m.url
        /\ over.contents = Updates!Nothing /\ over.latest = m.latest /\ over.cta = m.cta
    BY <1>1 DEF Updates!Over, Updates!Memory, Updates!Stages
  <1>3. Greets(over)
    BY <1>2 DEF Greets
  <1>4. MemoryInv(over)
    BY <1>2, <1>3, NoRecords DEF MemoryInv
  <1> QED
    BY <1>1, <1>2, <1>4

\* A shell starts or ends.
LEMMA StartExitInv ==
  ASSUME UpdateInv, NEW s \in Shells, Updates!Start(s) \/ Updates!Exit(s)
  PROVE  UpdateInv'
  <1>1. CASE Updates!Exit(s)
    <2>1. PICK m : m = Updates!Off
      OBVIOUS
    <2>2. m \in Updates!Memory /\ MemoryInv(m)
      BY <2>1, OffIs, NoRecords DEF MemoryInv
    <2> QED
      BY <1>1, <2>1, <2>2, MemoryStep DEF Updates!Exit
  <1>2. CASE Updates!Start(s)
    <2>1. PICK m : m = [Updates!Off EXCEPT !.at = "reading", !.ver = installed, !.url = url]
      OBVIOUS
    <2>2. installed \in Versions /\ url \in URLs
      BY DEF UpdateInv, Updates!TypeOK
    <2>3. /\ m \in Updates!Memory /\ m.at = "reading" /\ m.ver \in Versions /\ m.url \in URLs
          /\ m.contents = Updates!Nothing
          /\ m.latest = Updates!None /\ m.cta = Updates!None
      BY <2>1, <2>2, OffIs DEF Updates!Memory, Updates!Stages
    <2>4. MemoryInv(m)
      BY <2>3, NoRecords DEF MemoryInv
    <2> QED
      BY <1>2, <2>1, <2>3, <2>4, MemoryStep DEF Updates!Start
  <1> QED
    BY <1>1, <1>2

\* The file is read.  What it says of the feed is all that the shell learns.
LEMMA ReadFileInv ==
  ASSUME Updates!UpdateAssumption, UpdateInv, NEW s \in Shells, Updates!ReadFile(s)
  PROVE  UpdateInv'
  <1>1. PICK mem : mem = shell[s]
    OBVIOUS
  <1>2. /\ mem \in Updates!Memory /\ mem.at = "reading"
        /\ mem.ver \in Versions /\ mem.url \in URLs
        /\ mem.latest = Updates!None /\ mem.cta = Updates!None
    BY <1>1 DEF Updates!ReadFile, UpdateInv, Updates!TypeOK, MemoryInv
  <1>3. PICK local : local = Updates!Local(s)
    OBVIOUS
  <1>4. /\ local \in Updates!Records \cup {Updates!Nothing} /\ Said(local)
        /\ local \in Updates!Records => local.url = mem.url
    <2>1. CASE file \in {Updates!Absent, Updates!Torn} \/ file.url # shell[s].url
      BY <1>3, <2>1, NoRecords DEF Updates!Local, Said
    <2>2. CASE ~ (file \in {Updates!Absent, Updates!Torn} \/ file.url # shell[s].url)
      BY <1>1, <1>3, <2>2 DEF Updates!Local, UpdateInv, Updates!TypeOK, Said
    <2> QED
      BY <2>1, <2>2
  <1>5. PICK learnt :
          learnt = [mem EXCEPT !.contents = local,
                      !.latest = IF local = Updates!Nothing THEN Updates!None ELSE local.latest,
                      !.cta = IF local = Updates!Nothing THEN Updates!None ELSE local.cta[mem.ver]]
    OBVIOUS
  <1>6. /\ learnt \in Updates!Memory /\ learnt.ver = mem.ver /\ learnt.url = mem.url
        /\ learnt.contents = local
        /\ local = Updates!Nothing => learnt.latest = Updates!None /\ learnt.cta = Updates!None
        /\ local # Updates!Nothing => /\ learnt.latest = local.latest
                                      /\ learnt.cta = local.cta[mem.ver]
    BY <1>2, <1>4, <1>5, NoRecords, ZenonT(60) DEF Updates!Memory, Updates!Records,
       Updates!None
  <1>7. Greets(learnt)
    <2>1. CASE local = Updates!Nothing
      BY <1>2, <1>6, <2>1, LearntNothing
    <2>2. CASE local # Updates!Nothing
      <3>1. local \in Updates!Records /\ local.etag \in Nat \ {0} /\ local.cta \in [Versions -> Nat]
        BY <1>4, <2>2 DEF Updates!Records
      <3> DEFINE feed == Feeds[local.url][local.etag]
      <3>2. /\ local.url = mem.url /\ local.etag <= published[mem.url]
            /\ local.latest = Updates!Latest(feed)
            /\ local.cta[mem.ver] \in {Updates!None, Updates!CtaOf(feed, mem.ver)}
            /\ local.latest # Updates!None =>
                 local.cta[local.latest] = Updates!CtaOf(feed, local.latest)
        BY <1>2, <1>4, <3>1 DEF Said
      <3>3. local.etag \in 1 .. published[mem.url]
        <4>1. published[mem.url] \in Nat
          BY <1>2 DEF UpdateInv, Updates!TypeOK
        <4> QED
          BY <3>1, <3>2, <4>1
      <3> QED
        BY <1>6, <2>2, <3>2, <3>3 DEF Greets
    <2> QED
      BY <2>1, <2>2
  <1>8. PICK m : m = IF local # Updates!Nothing /\ local.fresh THEN Updates!Over(learnt)
                     ELSE [learnt EXCEPT !.at = "asking"]
    OBVIOUS
  <1>9. m \in Updates!Memory /\ MemoryInv(m)
    <2>1. CASE local # Updates!Nothing /\ local.fresh
      BY <1>2, <1>6, <1>7, <1>8, <2>1, OverIs
    <2>2. CASE ~ (local # Updates!Nothing /\ local.fresh)
      <3>1. /\ m \in Updates!Memory /\ m.at = "asking" /\ m.ver = mem.ver /\ m.url = mem.url
            /\ m.contents = local /\ m.latest = learnt.latest /\ m.cta = learnt.cta
        BY <1>6, <1>8, <2>2 DEF Updates!Memory, Updates!Stages
      <3>2. Greets(m)
        BY <1>6, <1>7, <3>1 DEF Greets
      <3> QED
        BY <1>2, <1>4, <3>1, <3>2 DEF MemoryInv
    <2> QED
      BY <2>1, <2>2
  <1>10. shell' = [shell EXCEPT ![s] = m]
    BY <1>1, <1>3, <1>5, <1>8 DEF Updates!ReadFile
  <1> QED
    BY <1>9, <1>10, MemoryStep, ZenonT(60) DEF Updates!ReadFile

\* Reading fails, or asking: what has been learnt before is left.
LEMMA FailsInv ==
  ASSUME UpdateInv, NEW s \in Shells, Updates!ReadFails(s) \/ Updates!AskFails(s)
  PROVE  UpdateInv'
  <1>1. PICK mem : mem = shell[s]
    BY SMTT(60)
  <1>2. /\ mem \in Updates!Memory /\ mem.at \in {"reading", "asking"}
        /\ MemoryInv(mem) /\ mem.ver \in Versions /\ mem.url \in URLs
    <2>1. mem \in Updates!Memory /\ mem.at \in {"reading", "asking"}
      BY <1>1 DEF Updates!ReadFails, Updates!AskFails, UpdateInv, Updates!TypeOK
    <2>2. MemoryInv(mem)
      BY <1>1 DEF UpdateInv, MemoryInv, Greets, Said
    <2> QED
      BY <2>1, <2>2 DEF MemoryInv
  <1>3. Greets(mem)
    BY <1>2, LearntNothing DEF MemoryInv
  <1>4. Updates!Over(mem) \in Updates!Memory /\ MemoryInv(Updates!Over(mem))
    BY <1>2, <1>3, OverIs
  <1>5. PICK m : m = Updates!Over(mem)
    OBVIOUS
  <1> QED
    BY <1>1, <1>4, <1>5, MemoryStep DEF Updates!ReadFails, Updates!AskFails

\* 304: the etag stands for the contents.
LEMMA NotModifiedInv ==
  ASSUME UpdateInv, NEW s \in Shells, Updates!NotModified(s)
  PROVE  UpdateInv'
  <1>1. PICK mem : mem = shell[s]
    OBVIOUS
  <1>2. /\ mem \in Updates!Memory /\ mem.at = "asking" /\ MemoryInv(mem)
        /\ mem.contents # Updates!Nothing
    BY <1>1, ZenonT(60) DEF Updates!NotModified, Updates!Matches, UpdateInv, Updates!TypeOK,
       MemoryInv, Greets, Said
  <1>3. mem.contents \in Updates!Records
    BY <1>2 DEF Updates!Memory
  <1>4. PICK c : c = [mem.contents EXCEPT !.fresh = TRUE]
    OBVIOUS
  <1>5. /\ c \in Updates!Records /\ c.url = mem.contents.url /\ c.etag = mem.contents.etag
        /\ c.latest = mem.contents.latest /\ c.cta = mem.contents.cta
    BY ONLY <1>3, <1>4 DEF Updates!Records
  <1>6. Said(c)
    BY <1>2, <1>3, <1>5 DEF MemoryInv, Said
  <1>7. PICK m : m = [mem EXCEPT !.at = "truncating", !.contents = c]
    OBVIOUS
  <1>8. /\ m \in Updates!Memory /\ m.at = "truncating" /\ m.ver = mem.ver /\ m.url = mem.url
        /\ m.contents = c /\ m.latest = mem.latest /\ m.cta = mem.cta
    BY ONLY <1>2, <1>5, <1>7 DEF Updates!Memory, Updates!Stages
  <1>9. MemoryInv(m)
    BY <1>2, <1>5, <1>6, <1>8 DEF MemoryInv, Greets
  <1>10. shell' = [shell EXCEPT ![s] = m]
    BY <1>1, <1>4, <1>7 DEF Updates!NotModified, UpdateInv, Updates!TypeOK
  <1> QED
    BY <1>8, <1>9, <1>10, MemoryStep, ZenonT(60) DEF Updates!NotModified

\* The feed answers: that is what it says now.
LEMMA AnsweredInv ==
  ASSUME Updates!UpdateAssumption, UpdateInv, NEW s \in Shells, Updates!Answered(s)
  PROVE  UpdateInv'
  <1>1. PICK mem : mem = shell[s]
    OBVIOUS
  <1>2. /\ mem \in Updates!Memory /\ mem.at = "asking"
        /\ mem.ver \in Versions /\ mem.url \in URLs
    BY <1>1 DEF Updates!Answered, UpdateInv, Updates!TypeOK, MemoryInv
  <1>3. PICK n : n = published[mem.url]
    OBVIOUS
  <1>4. n \in Nat \ {0} /\ n \in 1 .. Len(Feeds[mem.url]) /\ n \in 1 .. published[mem.url]
    <2>1. n \in Nat \ {0} /\ n <= Len(Feeds[mem.url])
      BY <1>2, <1>3 DEF UpdateInv, Updates!TypeOK
    <2>2. Len(Feeds[mem.url]) \in Nat
      BY <1>2 DEF Updates!UpdateAssumption
    <2> QED
      BY <1>3, <2>1, <2>2
  <1>5. PICK feed : feed = Feeds[mem.url][n]
    OBVIOUS
  <1>6. /\ Updates!Latest(feed) \in Versions \cup {Updates!None}
        /\ \A v \in Versions : Updates!CtaOf(feed, v) \in Nat
    BY <1>2, <1>4, <1>5, FeedSays
  <1>7. PICK latest : latest = Updates!Latest(feed)
    OBVIOUS
  <1>8. PICK calls : calls = [w \in Versions |-> IF w \in {mem.ver, latest} THEN Updates!CtaOf(feed, w)
                                                ELSE Updates!None]
    BY ZenonT(60)
  <1>9. /\ calls \in [Versions -> Nat]
        /\ \A w \in Versions : calls[w] \in {Updates!None, Updates!CtaOf(feed, w)}
        /\ latest # Updates!None => calls[latest] = Updates!CtaOf(feed, latest)
    BY <1>6, <1>7, <1>8 DEF Updates!None
  <1>10. PICK c : c = [url |-> mem.url, etag |-> n, fresh |-> TRUE, latest |-> latest,
                       cta |-> calls]
    BY ZenonT(60)
  <1>11. c \in Updates!Records /\ c = Updates!Entry(s)
    BY <1>1, <1>2, <1>3, <1>4, <1>5, <1>6, <1>7, <1>8, <1>9, <1>10, ZenonT(60) DEF
       Updates!Records, Updates!Entry, Updates!FeedNow
  <1>12. Said(c)
    BY <1>3, <1>4, <1>5, <1>7, <1>9, <1>10 DEF Said
  <1>13. PICK m : m = [mem EXCEPT !.at = "truncating", !.latest = latest,
                         !.cta = Updates!CtaOf(feed, mem.ver), !.contents = c]
    OBVIOUS
  <1>14. /\ m \in Updates!Memory /\ m.at = "truncating" /\ m.ver = mem.ver /\ m.url = mem.url
         /\ m.contents = c /\ m.latest = latest /\ m.cta = Updates!CtaOf(feed, mem.ver)
    BY ONLY <1>2, <1>6, <1>7, <1>11, <1>13, ZenonT(60) DEF Updates!Memory, Updates!Stages
  <1>15. Greets(m)
    BY <1>4, <1>5, <1>7, <1>14 DEF Greets
  <1>16. MemoryInv(m)
    BY <1>2, <1>11, <1>12, <1>14, <1>15 DEF MemoryInv
  <1>17. shell' = [shell EXCEPT ![s] = m]
    BY <1>1, <1>3, <1>5, <1>7, <1>11, <1>13, ZenonT(60) DEF Updates!Answered, Updates!FeedNow,
       UpdateInv, Updates!TypeOK
  <1> QED
    BY <1>14, <1>16, <1>17, MemoryStep DEF Updates!Answered

\* The file is truncated, and written.
LEMMA WriteInv ==
  ASSUME UpdateInv, NEW s \in Shells, Updates!WriteStarts(s) \/ Updates!WriteEnds(s)
  PROVE  UpdateInv'
  <1>1. PICK mem : mem = shell[s]
    OBVIOUS
  <1>2. /\ mem \in Updates!Memory /\ mem.at \in {"truncating", "writing"} /\ MemoryInv(mem)
    BY <1>1, ZenonT(60) DEF Updates!WriteStarts, Updates!WriteEnds, UpdateInv, Updates!TypeOK,
       MemoryInv, Greets, Said
  <1>3. /\ mem.contents \in Updates!Records /\ Said(mem.contents) /\ Greets(mem)
        /\ mem.ver \in Versions /\ mem.url \in URLs
    BY <1>2 DEF MemoryInv
  <1>4. CASE Updates!WriteStarts(s)
    <2>1. PICK m : m = [mem EXCEPT !.at = "writing"]
      OBVIOUS
    <2>2. /\ m \in Updates!Memory /\ m.at = "writing" /\ m.ver = mem.ver /\ m.url = mem.url
          /\ m.contents = mem.contents /\ m.latest = mem.latest /\ m.cta = mem.cta
      BY <1>2, <2>1 DEF Updates!Memory, Updates!Stages
    <2>3. MemoryInv(m)
      BY <1>3, <2>2 DEF MemoryInv, Greets
    <2>4. shell' = [shell EXCEPT ![s] = m]
      BY <1>1, <1>4, <2>1 DEF Updates!WriteStarts
    <2>5. PICK f : f = Updates!Torn
      OBVIOUS
    <2> QED
      BY <1>4, <2>2, <2>3, <2>4, <2>5, NoRecords, ShellStep DEF Updates!WriteStarts
  <1>5. CASE Updates!WriteEnds(s)
    <2>1. PICK m : m = Updates!Over(mem)
      OBVIOUS
    <2>2. m \in Updates!Memory /\ MemoryInv(m)
      BY <1>2, <1>3, <2>1, OverIs
    <2>3. shell' = [shell EXCEPT ![s] = m]
      BY <1>1, <1>5, <2>1 DEF Updates!WriteEnds
    <2>4. PICK f : f = file'
      OBVIOUS
    <2>5. f \in Updates!Records \cup {Updates!Absent, Updates!Torn} /\ Said(f)
      BY <1>1, <1>3, <1>5, <2>4, NoRecords DEF Updates!WriteEnds, Said
    <2> QED
      BY <1>5, <2>2, <2>3, <2>4, <2>5, ShellStep, ZenonT(60) DEF Updates!WriteEnds
  <1> QED
    BY <1>4, <1>5

\* The rest of the world: what shells know stays right.
LEMMA WorldInv ==
  ASSUME UpdateInv,
         (\E u \in URLs : Updates!Publish(u)) \/ Updates!Install \/ Updates!Configure
  PROVE  UpdateInv'
  <1>1. /\ published' \in [URLs -> Nat \ {0}]
        /\ \A u \in URLs : published[u] <= published'[u] /\ published'[u] <= Len(Feeds[u])
    <2>1. CASE published' = published
      BY <2>1 DEF UpdateInv, Updates!TypeOK
    <2>2. ASSUME NEW u \in URLs, Updates!Publish(u)
          PROVE  /\ published' \in [URLs -> Nat \ {0}]
                 /\ \A w \in URLs : published[w] <= published'[w] /\ published'[w] <= Len(Feeds[w])
      <3>1. published \in [URLs -> Nat \ {0}] /\ \A w \in URLs : published[w] <= Len(Feeds[w])
        BY DEF UpdateInv, Updates!TypeOK
      <3>2. published[u] < Len(Feeds[u]) /\ published' = [published EXCEPT ![u] = published[u] + 1]
        BY <2>2 DEF Updates!Publish
      <3>3. PICK n : n = published[u] + 1
        OBVIOUS
      <3>4. n \in Nat \ {0} /\ published[u] <= n /\ n <= Len(Feeds[u])
        BY <3>1, <3>2, <3>3
      <3> QED
        BY ONLY <3>1, <3>2, <3>3, <3>4, u \in URLs
    <2> QED
      BY <2>1, <2>2 DEF Updates!Install, Updates!Configure
  <1>2. file' = file /\ shell' = shell /\ installed' \in Versions /\ url' \in URLs
    BY DEF Updates!Publish, Updates!Install, Updates!Configure, UpdateInv, Updates!TypeOK
  <1>3. Updates!TypeOK'
    BY <1>1, <1>2 DEF UpdateInv, Updates!TypeOK
  <1>4. Updates!TypeOK
    BY DEF UpdateInv
  <1>5. Said(file)'
    <2>1. PICK c : c = file
      OBVIOUS
    <2>2. Said(c)
      BY <2>1 DEF UpdateInv, Said
    <2>3. Said(c)'
      BY <1>1, <1>4, <2>2, SaidStays
    <2> QED
      BY <1>2, <2>1, <2>3 DEF Said
  <1>6. ASSUME NEW s \in Shells
        PROVE  MemoryInv(shell[s])'
    <2>1. PICK m : m = shell[s]
      BY SMTT(60)
    <2>2. m \in Updates!Memory /\ MemoryInv(m)
      BY <2>1 DEF UpdateInv, Updates!TypeOK, MemoryInv, Greets, Said
    <2>3. MemoryInv(m)'
      BY <1>1, <1>4, <2>2, MemoryStays
    <2> QED
      BY <1>2, <2>1, <2>3 DEF MemoryInv, Greets, Said
  <1> QED
    BY <1>3, <1>5, <1>6 DEF UpdateInv

\* What was said a day ago was said all the same.
LEMMA StaleSaid ==
  ASSUME NEW c, Said(c)
  PROVE  /\ Said(Updates!Stale(c))
         /\ c \in Updates!Records => Updates!Stale(c) \in Updates!Records
         /\ c \notin Updates!Records => Updates!Stale(c) = c
  <1>1. CASE c \in Updates!Records
    <2>1. PICK d : d = [c EXCEPT !.fresh = FALSE]
      OBVIOUS
    <2>2. d \in Updates!Records /\ d.url = c.url /\ d.etag = c.etag /\ d.latest = c.latest /\ d.cta = c.cta
      BY ONLY <1>1, <2>1 DEF Updates!Records
    <2>3. Said(d)
      BY <1>1, <2>2 DEF Said
    <2> QED
      BY <1>1, <2>1, <2>2, <2>3 DEF Updates!Stale
  <1>2. CASE c \notin Updates!Records
    BY <1>2 DEF Updates!Stale
  <1> QED
    BY <1>1, <1>2

\* A day passes.
LEMMA DayInv ==
  ASSUME UpdateInv, Updates!Day
  PROVE  UpdateInv'
  <1>1. /\ file' = Updates!Stale(file) /\ UNCHANGED << published, installed, url >>
        /\ shell' = [s \in Shells |-> [shell[s] EXCEPT !.contents = Updates!Stale(shell[s].contents)]]
    BY DEF Updates!Day
  <1>2. PICK f : f = file
    OBVIOUS
  <1>3. f \in Updates!Records \cup {Updates!Absent, Updates!Torn} /\ Said(f)
    BY <1>2 DEF UpdateInv, Updates!TypeOK, Said
  <1>4. PICK g : g = Updates!Stale(f)
    OBVIOUS
  <1>5. g \in Updates!Records \cup {Updates!Absent, Updates!Torn} /\ Said(g) /\ file' = g
    BY <1>1, <1>2, <1>3, <1>4, StaleSaid
  <1>6. Said(file)'
    BY <1>1, <1>5, SMTT(60) DEF Said
  <1>7. ASSUME NEW s \in Shells
        PROVE  shell'[s] \in Updates!Memory /\ MemoryInv(shell[s])'
    <2>1. PICK mem : mem = shell[s]
      BY SMTT(60)
    <2>2. mem \in Updates!Memory /\ MemoryInv(mem)
      BY <2>1 DEF UpdateInv, Updates!TypeOK, MemoryInv, Greets, Said
    <2>3. PICK c : c = Updates!Stale(mem.contents)
      OBVIOUS
    <2>4. /\ c \in Updates!Records \cup {Updates!Nothing} /\ Said(c)
          /\ mem.contents \in Updates!Records => c \in Updates!Records
      BY <2>2, <2>3, StaleSaid DEF MemoryInv, Updates!Memory
    <2>5. PICK m : m = [mem EXCEPT !.contents = c]
      OBVIOUS
    <2>6. /\ m \in Updates!Memory /\ m.at = mem.at /\ m.ver = mem.ver /\ m.url = mem.url
          /\ m.contents = c /\ m.latest = mem.latest /\ m.cta = mem.cta
      BY ONLY <2>2, <2>4, <2>5 DEF Updates!Memory
    <2>7. MemoryInv(m)
      BY <2>2, <2>4, <2>6 DEF MemoryInv, Greets
    <2>8. shell'[s] = m
      BY <1>1, <2>1, <2>3, <2>5
    <2> QED
      BY <1>1, <2>6, <2>7, <2>8, MemoryKept, MemoryOf
  <1>8. Updates!TypeOK'
    <2>1. shell' \in [Shells -> Updates!Memory]
      BY <1>1, <1>7
    <2> QED
      BY <1>1, <1>5, <2>1 DEF UpdateInv, Updates!TypeOK
  <1> QED
    BY <1>6, <1>7, <1>8 DEF UpdateInv

\* Every step preserves the inductive invariant.
LEMMA UpdateNext ==
  Updates!UpdateAssumption /\ UpdateInv /\ [Updates!Next]_(Updates!vars) => UpdateInv'
  <1> SUFFICES ASSUME Updates!UpdateAssumption, UpdateInv, [Updates!Next]_(Updates!vars)
               PROVE  UpdateInv'
    BY SMTT(60)
  <1>1. CASE UNCHANGED Updates!vars
    <2>1. Updates!TypeOK' /\ Said(file)'
      BY <1>1 DEF Updates!vars, UpdateInv, Updates!TypeOK, Said
    <2>2. ASSUME NEW s \in Shells
          PROVE  MemoryInv(shell[s])'
      <3>1. PICK k : k = shell[s]
        OBVIOUS
      <3>2. MemoryInv(k)
        BY <3>1 DEF UpdateInv, MemoryInv, Greets, Said
      <3> QED
        BY <1>1, <3>1, <3>2, MemoryKept, MemoryOf DEF Updates!vars
    <2> QED
      BY <2>1, <2>2 DEF UpdateInv
  <1>2. ASSUME NEW s \in Shells,
               \/ Updates!Start(s) \/ Updates!Fetch(s) \/ Updates!ReadFails(s)
               \/ Updates!AskFails(s) \/ Updates!Exit(s)
        PROVE  UpdateInv'
    BY <1>2, StartExitInv, ReadFileInv, NotModifiedInv, AnsweredInv, WriteInv, FailsInv
       DEF Updates!Fetch
  <1>3. CASE (\E u \in URLs : Updates!Publish(u)) \/ Updates!Install \/ Updates!Configure
    BY <1>3, WorldInv
  <1>4. CASE Updates!Day
    BY <1>4, DayInv
  <1> QED
    BY <1>1, <1>2, <1>3, <1>4 DEF Updates!Next

\* It holds in every reachable state.
LEMMA UpdateInvCorrect ==
  ASSUME Updates!UpdateAssumption
  PROVE  Updates!Spec => []UpdateInv
  <1>1. Updates!Init => UpdateInv
    BY UpdateInit
  <1>2. UpdateInv /\ [Updates!Next]_(Updates!vars) => UpdateInv'
    BY UpdateNext
  <1> QED
    BY <1>1, <1>2, PTL DEF Updates!Spec

\* Type correctness of UpdateNotification.
THEOREM UpdateTypeCorrect ==
  ASSUME Updates!UpdateAssumption
  PROVE  Updates!Spec => []Updates!TypeOK
  <1>1. UpdateInv => Updates!TypeOK
    BY DEF UpdateInv
  <1> QED
    BY <1>1, UpdateInvCorrect, PTL

\* The file is true of its feed, and so are the greetings, of a shell of the
\* latest version too: what is kept of a feed comes from one answer of it, with
\* the etag and the latest version's call to action.
THEOREM UpdatesTrueCorrect ==
  ASSUME Updates!UpdateAssumption
  PROVE  Updates!Spec => []UpdatesTrue
  <1>1. ASSUME UpdateInv
        PROVE  UpdatesTrue
    <2>1. Updates!CacheTrue
      BY <1>1 DEF UpdateInv, Said, Updates!CacheTrue
    <2>2. ASSUME NEW s \in Shells, shell[s].at \notin {"off", "reading"}
          PROVE  \E n \in 1 .. published[shell[s].url] :
                   LET feed == Feeds[shell[s].url][n]
                   IN /\ shell[s].latest \in {Updates!None, Updates!Latest(feed)}
                      /\ shell[s].latest \notin Prereleases
                      /\ shell[s].cta \in {Updates!None, Updates!CtaOf(feed, shell[s].ver)}
                      /\ shell[s].latest # Updates!None /\ shell[s].latest = shell[s].ver =>
                           shell[s].cta = Updates!CtaOf(feed, shell[s].ver)
      <3>1. Greets(shell[s]) /\ shell[s].url \in URLs
        BY <1>1, <2>2 DEF UpdateInv, MemoryInv, Updates!TypeOK, Updates!Memory
      <3>2. published[shell[s].url] \in Nat /\ published[shell[s].url] <= Len(Feeds[shell[s].url])
        BY <1>1, <3>1 DEF UpdateInv, Updates!TypeOK
      <3>3. Len(Feeds[shell[s].url]) \in Nat
        BY <3>1 DEF Updates!UpdateAssumption
      <3>4. 1 .. published[shell[s].url] \subseteq 1 .. Len(Feeds[shell[s].url])
        BY <3>2, <3>3
      <3>5. Updates!None \notin Prereleases
        BY DEF Updates!UpdateAssumption
      <3>6. \A n \in 1 .. published[shell[s].url] :
              Updates!Latest(Feeds[shell[s].url][n]) \notin Prereleases
        BY <3>1, <3>4, FeedSays
      <3> QED
        BY <3>1, <3>5, <3>6 DEF Greets
    <2>3. Updates!None \notin Prereleases
      BY DEF Updates!UpdateAssumption
    <2>4. Updates!GreetingPublished
      BY <2>2, <2>3 DEF Updates!GreetingPublished, Updates!getLatestVersionIfMoreRecent,
         Updates!getGreetingCTAForCurrentVersion
    <2>5. Updates!UpgradeGreeted
      <3>1. \A s \in Shells : shell[s].at \in {"off", "reading"} => shell[s].latest = Updates!None
        BY <1>1 DEF UpdateInv, MemoryInv
      <3> QED
        BY <2>2, <3>1 DEF Updates!UpgradeGreeted
    <2> QED
      BY <2>1, <2>4, <2>5 DEF UpdatesTrue, Updates!UpdatesTrue, Updates!GreetingSound
  <1> QED
    BY <1>1, UpdateInvCorrect, PTL
=============================================================================
