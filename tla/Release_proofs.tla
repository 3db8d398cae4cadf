---------------------------- MODULE Release_proofs ----------------------------
(***************************************************************************)
(* Proofs about Release: whatever is listed is available, a publication is *)
(* never turned down, and with people who wait for the tasks a release is  *)
(* of its last draft and the download center never goes back to an older   *)
(* version, for all versions, branches and package variants.               *)
(***************************************************************************)
EXTENDS Release, FiniteSetTheorems, TLAPS

\* The last draft of v.
Last(v) == Len(drafts[v])

\* Every package of v can be had.
Had(v) == (\A k \in Variants : center[v][k] # None) /\ {v} \X Variants \subseteq available

\* v has been released as the tools want it.
Tested(v) == hasty = 0 /\ v \notin forced /\ released[v] # Nothing

HashStages == {"checking", "submitting", "waiting", "config", "feed",
               "writing config", "writing feed"}
ListStages == {"config", "feed", "writing config", "writing feed"}
SubmitStages == {"waiting"} \cup ListStages

\* A feed, or a copy of it, lists what can be had, and of those that were tested
\* the packages of the last draft.
FeedInv(f) ==
  \A w \in Versions : f[w] # NoPackages =>
    /\ Had(w) /\ released[w] # Nothing
    /\ Tested(w) => \A k \in Variants : f[w][k] = Last(w) /\ submitted[w][k] = Last(w)

\* So does a configuration, of versions that have been tagged.
ConfigInv(c) ==
  /\ \A w \in Versions : w = c[Major(w)] => Had(w)
  /\ \A m \in Majors : c[m] # None => c[m] \in Versions /\ drafts[c[m]] # <<>>

\* What the publication p of v has seen is there.
SeenInv(v, p) ==
  /\ \A k \in Variants : p.hashes[k] # None => center[v][k] # None
  /\ p.at \in HashStages => \A k \in Variants : p.hashes[k] # None
  /\ p.at \in ListStages => {v} \X Variants \subseteq available
  /\ p.at = "npm" => github[v].state = "published"

\* What it has seen and submitted is of the last draft.
SubmitInv(v, p) ==
  Tested(v) =>
    /\ \A k \in Variants : p.hashes[k] \in {None, Last(v)}
    /\ p.at = "submitting" =>
         p.draft = Last(v) /\ \A k \in Variants \ p.left : submitted[v][k] = Last(v)
    /\ p.at \in SubmitStages => \A k \in Variants : submitted[v][k] = Last(v)

\* It is of the highest version there is, and nobody else publishes.
OrderInv(v, p) ==
  hasty = 0 =>
    /\ p.at \notin {"off", "done"} => \A w \in Versions : drafts[w] # <<>> => w <= v
    /\ p.at \in {"feed", "writing config"} => p.config = config

PubInv(v, p) ==
  /\ p.at # "off" <=> released[v] # Nothing
  /\ SeenInv(v, p) /\ SubmitInv(v, p) /\ OrderInv(v, p)
  /\ FeedInv(p.feed) /\ ConfigInv(p.config)

\* Only the last draft of a version has a task that runs, and none once the
\* version is released.
QuietInv ==
  hasty = 0 =>
    \A v \in Versions : \A i \in DOMAIN task[v] :
      /\ task[v][i].at \in {"building", "uploading"} =>
           i = Len(task[v]) /\ released[v] = Nothing
      /\ Tested(v) /\ i = Len(task[v]) => task[v][i].at = "done"

\* What that task has uploaded stays; at its start everything is left.
UploadInv ==
  hasty = 0 =>
    \A v \in Versions : \A i \in DOMAIN task[v] :
      /\ task[v][i].at = "building" => task[v][i].left = Variants \X Places
      /\ task[v][i].at = "done" => task[v][i].left = {}
      /\ i = Len(task[v]) /\ task[v][i].at \in {"uploading", "done"} =>
           \A k \in Variants :
             /\ << k, "center" >> \notin task[v][i].left => center[v][k] = i
             /\ << k, "github" >> \notin task[v][i].left => github[v].assets[k] = i

\* What users see.
UserInv ==
  /\ FeedInv(feed) /\ ConfigInv(config)
  /\ \A v \in npm : github[v].state = "published"

\* The inductive invariant.
IInv ==
  /\ TypeOK /\ NeverTurnedDown /\ QuietInv /\ UploadInv /\ UserInv /\ FeedInv(cta.feed)
  /\ \A v \in Versions : PubInv(v, pub[v])
-----------------------------------------------------------------------------
(* Lemmas about the definitions.                                           *)

\* The highest of a finite set of numbers; were there a set without one, a
\* smallest such set would be one element more than a set that has one.
LEMMA MaxOfSet ==
  ASSUME NEW S \in SUBSET Nat, IsFiniteSet(S), S # {}
  PROVE  Max(S) \in S /\ \A y \in S : y <= Max(S)
  <1> DEFINE Bad == {T \in SUBSET S : T # {} /\ \A x \in T : \E y \in T : ~ x >= y}
  <1>1. Bad = {}
    <2> SUFFICES ASSUME Bad # {} PROVE FALSE
      OBVIOUS
    <2>1. Bad \subseteq FiniteSubsetsOf(S)
      BY FS_FiniteSubsetsOfFinite
    <2>2. PICK T \in Bad : \A U \in Bad : ~ << U, T >> \in StrictSubsetOrdering(S)
      BY ONLY <2>1, Bad # {}, FS_StrictSubsetOrderingWellFounded, WFMin
    <2>3. PICK x \in T : TRUE
      OBVIOUS
    <2>4. T \ {x} \notin Bad
      BY <2>2, <2>3 DEF StrictSubsetOrdering
    <2>5. CASE T = {x}
      BY <2>5
    <2>6. CASE T # {x}
      <3>1. PICK m \in T \ {x} : \A y \in T \ {x} : m >= y
        BY <2>4, <2>6
      <3>2. m \in Nat /\ x \in Nat /\ T \subseteq Nat
        OBVIOUS
      <3>3. CASE m >= x
        BY <3>1, <3>3
      <3>4. CASE x >= m
        <4>1. \A y \in T : x >= y
          BY <3>1, <3>2, <3>4
        <4> QED
          BY <4>1, <2>3
      <3> QED
        BY <3>2, <3>3, <3>4
    <2> QED
      BY <2>5, <2>6
  <1>2. S \notin Bad
    BY <1>1
  <1>3. PICK x \in S : \A y \in S : x >= y
    BY ONLY <1>2, S # {} DEF Bad
  <1>4. Max(S) \in S /\ \A y \in S : Max(S) >= y
    BY <1>3 DEF Max
  <1> QED
    BY <1>4

\* The version that is published has been tagged, and none is higher.
LEMMA LatestOfAll ==
  ASSUME NEW v \in Publishable \ {None}
  PROVE  /\ v \in Versions /\ (drafts[v] # <<>> \/ released[v] # Nothing)
         /\ \A w \in Versions : drafts[w] # <<>> \/ released[w] # Nothing => w <= v
  <1> DEFINE Tagged == {w \in Versions : drafts[w] # <<>> \/ released[w] # Nothing}
  <1>1. Tagged # {} /\ v = Max(Tagged)
    BY DEF Publishable, Latest
  <1>2. Tagged \in SUBSET Nat /\ IsFiniteSet(Tagged)
    BY ReleaseAssumption, FS_Subset DEF None
  <1>3. Max(Tagged) \in Tagged /\ \A y \in Tagged : y <= Max(Tagged)
    BY ONLY <1>1, <1>2, MaxOfSet
  <1> QED
    BY <1>1, <1>3

\* The latest version of a branch is a version.
LEMMA LatestOfSome ==
  ASSUME NEW b \in Branches, Latest(Line[b]) # None
  PROVE  Latest(Line[b]) \in Versions
  <1> DEFINE Tagged == {w \in Line[b] : drafts[w] # <<>> \/ released[w] # Nothing}
  <1>1. Tagged # {} /\ Latest(Line[b]) = Max(Tagged)
    BY DEF Latest
  <1>2. Tagged \in SUBSET Nat /\ IsFiniteSet(Tagged) /\ Tagged \subseteq Versions
    BY ReleaseAssumption, FS_Subset DEF None
  <1>3. Max(Tagged) \in Tagged /\ \A y \in Tagged : y <= Max(Tagged)
    BY ONLY <1>1, <1>2, MaxOfSet
  <1> QED
    BY <1>1, <1>2, <1>3

\* What a publication holds at its start.
LEMMA Empty ==
  /\ NoPackages \in Packages /\ \A k \in Variants : NoPackages[k] = None
  /\ NoFeed \in Feeds /\ \A v \in Versions : NoFeed[v] = NoPackages
  /\ NoConfig \in Configs /\ \A m \in Majors : NoConfig[m] = None
  BY DEF NoPackages, Packages, NoFeed, Feeds, NoConfig, Configs, None, Drafts

\* It is idle, whatever it is to do next.
LEMMA IdleAt ==
  ASSUME NEW s \in PubStages
  PROVE  /\ [Idle EXCEPT !.at = s] \in Publications
         /\ [Idle EXCEPT !.at = s].at = s
         /\ [Idle EXCEPT !.at = s].hashes = NoPackages
         /\ [Idle EXCEPT !.at = s].config = NoConfig
         /\ [Idle EXCEPT !.at = s].feed = NoFeed
  BY Empty DEF Idle, Publications, None, Drafts

\* A publication goes on to its next stage.
LEMMA PublicationAt ==
  ASSUME NEW p \in Publications, NEW s \in PubStages
  PROVE  /\ [p EXCEPT !.at = s] \in Publications
         /\ [p EXCEPT !.at = s].at = s
         /\ [p EXCEPT !.at = s].hashes = p.hashes
         /\ [p EXCEPT !.at = s].draft = p.draft
         /\ [p EXCEPT !.at = s].left = p.left
         /\ [p EXCEPT !.at = s].config = p.config
         /\ [p EXCEPT !.at = s].feed = p.feed
  BY DEF Publications
-----------------------------------------------------------------------------
(* Lemmas about steps.                                                     *)

\* Nothing that users or publications rely on is lost in a step.
Keeps ==
  /\ hasty' = 0 => hasty = 0
  /\ forced \subseteq forced' /\ available \subseteq available'
  /\ \A w \in Versions :
       /\ released[w] # Nothing => released'[w] = released[w] /\ drafts'[w] = drafts[w]
       /\ drafts[w] # <<>> => drafts'[w] # <<>>
       /\ \A k \in Variants :
            /\ center[w][k] # None => center'[w][k] # None
            /\ Tested(w) /\ submitted[w][k] = Last(w) => submitted'[w][k] = Last(w)
       /\ github[w].state = "published" => github'[w].state = "published"

\* What is released and has been tested was so before, unless it is released in
\* this step.
LEMMA TestedBefore ==
  ASSUME Keeps, NEW w \in Versions, released[w] # Nothing, Tested(w)'
  PROVE  Tested(w) /\ Last(w)' = Last(w)
  BY DEF Keeps, Tested, Last

\* What can be had can still be had.
LEMMA HadBefore ==
  ASSUME Keeps, NEW w \in Versions, Had(w)
  PROVE  Had(w)'
  BY DEF Keeps, Had

\* A feed, or a copy of one, keeps what it promises.
LEMMA FeedKept ==
  ASSUME Keeps, NEW f, FeedInv(f)
  PROVE  FeedInv(f)'
  <1> SUFFICES ASSUME NEW w \in Versions, f[w] # NoPackages
               PROVE  /\ Had(w)' /\ released'[w] # Nothing
                      /\ Tested(w)' => \A k \in Variants :
                           f[w][k] = Last(w)' /\ submitted'[w][k] = Last(w)'
    BY DEF FeedInv
  <1>1. Had(w)' /\ released'[w] # Nothing /\ released[w] # Nothing
    BY HadBefore DEF FeedInv, Keeps
  <1>2. ASSUME Tested(w)', NEW k \in Variants
        PROVE  f[w][k] = Last(w)' /\ submitted'[w][k] = Last(w)'
    <2>1. Tested(w) /\ Last(w)' = Last(w)
      BY <1>1, <1>2, TestedBefore
    <2> QED
      BY <2>1 DEF FeedInv, Keeps
  <1> QED
    BY <1>1, <1>2

\* So does a configuration.
LEMMA ConfigKept ==
  ASSUME Keeps, NEW c, ConfigInv(c)
  PROVE  ConfigInv(c)'
  BY HadBefore DEF ConfigInv, Keeps

\* And what a publication has seen and submitted stays.
LEMMA PublicationKept ==
  ASSUME Keeps, NEW v \in Versions, NEW p, PubInv(v, p),
         released[v] = Nothing => released'[v] = Nothing,
         OrderInv(v, p)'
  PROVE  PubInv(v, p)'
  <1>1. p.at # "off" <=> released'[v] # Nothing
    BY DEF PubInv, Keeps
  <1>2. SeenInv(v, p)'
    BY DEF PubInv, Keeps, SeenInv
  <1>3. SubmitInv(v, p)'
    <2> SUFFICES ASSUME Tested(v)'
                 PROVE  SubmitInv(v, p)'
      BY DEF SubmitInv
    <2>1. Tested(v) /\ Last(v)' = Last(v)
      BY TestedBefore DEF Tested
    <2> QED
      BY <2>1 DEF PubInv, SubmitInv, Keeps
  <1>4. FeedInv(p.feed)' /\ ConfigInv(p.config)'
    BY FeedKept, ConfigKept DEF PubInv
  <1> QED
    BY <1>1, <1>2, <1>3, <1>4 DEF PubInv

\* The order of publications depends on what is tagged and on the configuration.
LEMMA OrderKept ==
  ASSUME NEW v \in Versions, NEW p, OrderInv(v, p),
         hasty' = 0 => hasty = 0, UNCHANGED << drafts, config >>
  PROVE  OrderInv(v, p)'
  BY DEF OrderInv

\* What was tested has been uploaded by its last draft.
LEMMA TestedUploaded ==
  ASSUME IInv, NEW v \in Versions, Tested(v), NEW k \in Variants
  PROVE  center[v][k] = Last(v) /\ github[v].assets[k] = Last(v)
  <1>1. hasty = 0 /\ drafts[v] # <<>> /\ drafts[v] \in Seq(Commits \ {Nothing})
    BY DEF IInv, NeverTurnedDown, Tested, TypeOK, TagsOK
  <1>2. Len(task[v]) = Last(v) /\ task[v] \in Seq(Tasks)
    BY DEF IInv, TypeOK, TasksOK, Last
  <1>3. Last(v) \in DOMAIN task[v]
    <2>1. Last(v) \in Nat \ {0}
      BY <1>1 DEF Last
    <2> QED
      BY <2>1, <1>2
  <1>4. task[v][Last(v)].at = "done"
    BY <1>1, <1>2, <1>3 DEF IInv, QuietInv
  <1>5. /\ task[v][Last(v)].left = {}
        /\ << k, "center" >> \notin task[v][Last(v)].left => center[v][k] = Last(v)
        /\ << k, "github" >> \notin task[v][Last(v)].left => github[v].assets[k] = Last(v)
    BY <1>1, <1>2, <1>3, <1>4 DEF IInv, UploadInv
  <1> QED
    BY <1>5

\* A step of one publication, of which the rest of the world sees nothing.
LEMMA PublicationStep ==
  ASSUME IInv, NEW v \in Versions, NEW p \in Publications, PubInv(v, p),
         pub' = [pub EXCEPT ![v] = p], failures' \in 0 .. MaxFailures,
         UNCHANGED << hasty, tagVars, task, userVars, cta >>
  PROVE  IInv'
  <1> USE DEF IInv, tagVars, userVars
  <1>1. TypeOK'
    BY DEF TypeOK, TagsOK, TasksOK, UsersOK
  <1>2. NeverTurnedDown' /\ QuietInv' /\ UploadInv'
    BY DEF NeverTurnedDown, QuietInv, UploadInv, Tested
  <1>3. Keeps
    BY DEF Keeps
  <1>4. UserInv' /\ FeedInv(cta.feed)'
    <2>1. FeedInv(feed)' /\ FeedInv(cta.feed)' /\ ConfigInv(config)'
      BY <1>3, FeedKept, ConfigKept DEF UserInv
    <2> QED
      BY <2>1 DEF UserInv
  <1>5. ASSUME NEW w \in Versions
        PROVE  PubInv(w, pub[w])'
    <2>1. PICK q : q = IF w = v THEN p ELSE pub[w]
      OBVIOUS
    <2>2. pub'[w] = q
      BY <2>1 DEF TypeOK, TasksOK
    <2>3. PubInv(w, q)
      BY <2>1
    <2>4. OrderInv(w, q)'
      BY <2>3, OrderKept DEF PubInv
    <2>5. PubInv(w, q)'
      BY ONLY <1>3, <2>3, <2>4, PublicationKept, w \in Versions, UNCHANGED tagVars DEF tagVars
    <2> QED
      BY <2>2, <2>5
  <1> QED
    BY ONLY <1>1, <1>2, <1>4, <1>5 DEF IInv
-----------------------------------------------------------------------------
(* Steps of publications that users do not see.                            *)

\* ListPackage(v, k) preserves the inductive invariant.
LEMMA ListPackageIInv ==
  ASSUME IInv, NEW v \in Versions, NEW k \in Variants, ListPackage(v, k)
  PROVE  IInv'
  <1>1. PICK p : p = [pub[v] EXCEPT !.hashes[k] = center[v][k]]
    OBVIOUS
  <1>2. /\ pub[v] \in Publications /\ pub[v].at = "listing" /\ PubInv(v, pub[v])
        /\ center[v][k] \in Drafts \ {None} /\ failures \in 0 .. MaxFailures
    BY DEF IInv, ListPackage, TypeOK, TasksOK, UsersOK, Packages
  <1>3. /\ p \in Publications /\ p.at = "listing"
        /\ p.hashes = [pub[v].hashes EXCEPT ![k] = center[v][k]]
        /\ p.config = pub[v].config /\ p.feed = pub[v].feed
    BY ONLY <1>1, <1>2, k \in Variants DEF Publications, Packages
  <1>4. \A j \in Variants : p.hashes[j] = IF j = k THEN center[v][k] ELSE pub[v].hashes[j]
    BY ONLY <1>2, <1>3 DEF Publications, Packages
  <1>5. SeenInv(v, p)
    BY <1>2, <1>3, <1>4 DEF PubInv, SeenInv, HashStages, ListStages
  <1>6. SubmitInv(v, p)
    BY <1>2, <1>3, <1>4, TestedUploaded DEF PubInv, SubmitInv, SubmitStages, ListStages
  <1>7. PubInv(v, p)
    BY <1>2, <1>3, <1>5, <1>6 DEF PubInv, OrderInv
  <1> QED
    BY <1>1, <1>2, <1>3, <1>7, PublicationStep DEF ListPackage

\* A publication goes on, when that is all that happens.
LEMMA GoesIInv ==
  ASSUME IInv, NEW v \in Versions, NEW from \in PubStages, NEW to \in PubStages,
         Goes(v, from, to), UNCHANGED << hasty, tagVars, task, failures, userVars, cta >>,
         << from, to >> \in {<< "listing", "checking" >>, << "waiting", "config" >>},
         to = "checking" => \A k \in Variants : pub[v].hashes[k] # None,
         to = "config" => {v} \X Variants \subseteq available
  PROVE  IInv'
  <1>1. PICK p : p = [pub[v] EXCEPT !.at = to]
    OBVIOUS
  <1>2. /\ pub[v] \in Publications /\ pub[v].at = from /\ PubInv(v, pub[v])
        /\ failures \in 0 .. MaxFailures
    BY DEF IInv, Goes, TypeOK, TasksOK
  <1>3. /\ p \in Publications /\ p.at = to /\ p.hashes = pub[v].hashes
        /\ p.config = pub[v].config /\ p.feed = pub[v].feed
    BY <1>1, <1>2, PublicationAt
  <1>4. PubInv(v, p)
    BY <1>2, <1>3
       DEF PubInv, SeenInv, SubmitInv, OrderInv, HashStages, ListStages, SubmitStages
  <1> QED
    BY <1>1, <1>2, <1>3, <1>4, PublicationStep DEF Goes

\* Listed(v) preserves the inductive invariant.
LEMMA ListedIInv ==
  ASSUME IInv, NEW v \in Versions, Listed(v)
  PROVE  IInv'
  <1>1. "listing" \in PubStages /\ "checking" \in PubStages
    BY DEF PubStages
  <1> QED
    BY <1>1, GoesIInv DEF Listed

\* Available(v) preserves the inductive invariant.
LEMMA AvailableIInv ==
  ASSUME IInv, NEW v \in Versions, Available(v)
  PROVE  IInv'
  <1>1. "waiting" \in PubStages /\ "config" \in PubStages
    BY DEF PubStages
  <1> QED
    BY <1>1, GoesIInv DEF Available

\* Check(v) preserves the inductive invariant.
LEMMA CheckIInv ==
  ASSUME IInv, NEW v \in Versions, Check(v)
  PROVE  IInv'
  <1>1. PICK p : p = [pub[v] EXCEPT !.at = "submitting", !.left = Variants,
                                    !.draft = Len(drafts[v])]
    OBVIOUS
  <1>2. /\ pub[v] \in Publications /\ pub[v].at = "checking" /\ PubInv(v, pub[v])
        /\ Len(drafts[v]) \in Drafts /\ failures \in 0 .. MaxFailures
    BY DEF IInv, Check, TypeOK, TagsOK, TasksOK, Drafts
  <1>3. /\ p \in Publications /\ p.at = "submitting" /\ p.hashes = pub[v].hashes
        /\ p.draft = Last(v) /\ p.left = Variants
        /\ p.config = pub[v].config /\ p.feed = pub[v].feed
    BY ONLY <1>1, <1>2 DEF Publications, PubStages, Last
  <1>4. PubInv(v, p)
    BY <1>2, <1>3
       DEF PubInv, SeenInv, SubmitInv, OrderInv, HashStages, ListStages, SubmitStages
  <1> QED
    BY <1>1, <1>2, <1>3, <1>4, PublicationStep, ZenonT(60) DEF Check

\* ReadConfig(v) preserves the inductive invariant.
LEMMA ReadConfigIInv ==
  ASSUME IInv, NEW v \in Versions, ReadConfig(v)
  PROVE  IInv'
  <1>1. PICK p : p = [pub[v] EXCEPT !.at = "feed", !.config = config]
    OBVIOUS
  <1>2. /\ pub[v] \in Publications /\ pub[v].at = "config" /\ PubInv(v, pub[v])
        /\ config \in Configs /\ ConfigInv(config) /\ failures \in 0 .. MaxFailures
    BY DEF IInv, ReadConfig, TypeOK, TasksOK, UsersOK, UserInv
  <1>3. /\ p \in Publications /\ p.at = "feed" /\ p.hashes = pub[v].hashes
        /\ p.config = config /\ p.feed = pub[v].feed
    BY ONLY <1>1, <1>2 DEF Publications, PubStages
  <1>4. PubInv(v, p)
    BY <1>2, <1>3
       DEF PubInv, SeenInv, SubmitInv, OrderInv, HashStages, ListStages, SubmitStages
  <1> QED
    BY <1>1, <1>2, <1>3, <1>4, PublicationStep DEF ReadConfig

\* ReadFeed(v) preserves the inductive invariant.
LEMMA ReadFeedIInv ==
  ASSUME IInv, NEW v \in Versions, ReadFeed(v)
  PROVE  IInv'
  <1>1. PICK p : p = [pub[v] EXCEPT !.at = "writing config", !.feed = feed]
    OBVIOUS
  <1>2. /\ pub[v] \in Publications /\ pub[v].at = "feed" /\ PubInv(v, pub[v])
        /\ feed \in Feeds /\ FeedInv(feed) /\ failures \in 0 .. MaxFailures
    BY DEF IInv, ReadFeed, TypeOK, TasksOK, UsersOK, UserInv
  <1>3. /\ p \in Publications /\ p.at = "writing config" /\ p.hashes = pub[v].hashes
        /\ p.config = pub[v].config /\ p.feed = feed
    BY ONLY <1>1, <1>2 DEF Publications, PubStages
  <1>4. PubInv(v, p)
    BY <1>2, <1>3
       DEF PubInv, SeenInv, SubmitInv, OrderInv, HashStages, ListStages, SubmitStages
  <1> QED
    <2>1. pub' = [pub EXCEPT ![v] = p]
      BY <1>1, <1>2 DEF ReadFeed, IInv, TypeOK, TasksOK
    <2>2. UNCHANGED << hasty, tagVars, task, failures, userVars, cta >>
      BY DEF ReadFeed
    <2> QED
      BY ONLY IInv, v \in Versions, <1>2, <1>3, <1>4, <2>1, <2>2, PublicationStep

\* A publication that begins again, or has failed, has seen nothing.
LEMMA IdleInv ==
  ASSUME IInv, NEW v \in Versions, NEW s \in {"listing", "failed"},
         pub[v].at \notin {"off", "done"},
         NEW p, p = [Idle EXCEPT !.at = s]
  PROVE  p \in Publications /\ PubInv(v, p)
  <1>1. /\ p \in Publications /\ p.at = s /\ p.hashes = NoPackages
        /\ p.config = NoConfig /\ p.feed = NoFeed
    <2>1. s \in PubStages
      BY DEF PubStages
    <2> QED
      BY <2>1, IdleAt
  <1>2. FeedInv(p.feed) /\ ConfigInv(p.config)
    BY <1>1, Empty, ReleaseAssumption, SMTT(60) DEF FeedInv, ConfigInv, Majors, None
  <1>3. SeenInv(v, p) /\ SubmitInv(v, p)
    BY <1>1, Empty DEF SeenInv, SubmitInv, HashStages, ListStages, SubmitStages
  <1> QED
    BY <1>1, <1>2, <1>3 DEF IInv, PubInv, OrderInv

\* PublishFails(v) preserves the inductive invariant.
LEMMA PublishFailsIInv ==
  ASSUME IInv, NEW v \in Versions, PublishFails(v)
  PROVE  IInv'
  <1>1. PICK p : p = [Idle EXCEPT !.at = "failed"]
    OBVIOUS
  <1>2. p \in Publications /\ PubInv(v, p)
    BY <1>1, IdleInv DEF PublishFails
  <1>3. failures' \in 0 .. MaxFailures
    BY ReleaseAssumption DEF IInv, TypeOK, TasksOK, PublishFails
  <1> QED
    BY <1>1, <1>2, <1>3, PublicationStep DEF PublishFails

\* PublishRestarts(v) preserves the inductive invariant.
LEMMA PublishRestartsIInv ==
  ASSUME IInv, NEW v \in Versions, PublishRestarts(v)
  PROVE  IInv'
  <1>1. PICK p : p = [Idle EXCEPT !.at = "listing"]
    OBVIOUS
  <1>2. p \in Publications /\ PubInv(v, p)
    BY <1>1, IdleInv DEF PublishRestarts
  <1> QED
    BY <1>1, <1>2, PublicationStep DEF PublishRestarts, IInv, TypeOK, TasksOK
-----------------------------------------------------------------------------
(* Steps that users see.                                                   *)

\* The publications that take no part in a step.
LEMMA OthersKept ==
  ASSUME IInv, Keeps, NEW w \in Versions, pub'[w] = pub[w],
         released[w] = Nothing => released'[w] = Nothing, OrderInv(w, pub[w])'
  PROVE  PubInv(w, pub[w])'
  <1>1. PICK q : q = pub[w]
    OBVIOUS
  <1>2. PubInv(w, q) /\ OrderInv(w, q)'
    BY <1>1 DEF IInv
  <1>3. PubInv(w, q)'
    BY ONLY <1>2, PublicationKept, Keeps, w \in Versions,
            released[w] = Nothing => released'[w] = Nothing
  <1> QED
    BY <1>1, <1>3

\* A step of a publication that tags nothing and leaves the order as it is.
LEMMA PublicStep ==
  ASSUME IInv, NEW v \in Versions, NEW p \in Publications, PubInv(v, p)',
         pub' = [pub EXCEPT ![v] = p], Keeps, UsersOK', UploadInv', UserInv',
         \A w \in Versions : w # v => OrderInv(w, pub[w])',
         UNCHANGED << hasty, tagVars, task, failures, cta >>
  PROVE  IInv'
  <1> USE DEF tagVars
  <1>1. TypeOK'
    BY DEF IInv, TypeOK, TagsOK, TasksOK
  <1>2. NeverTurnedDown' /\ QuietInv'
    BY DEF IInv, NeverTurnedDown, QuietInv, Tested
  <1>3. FeedInv(cta.feed)'
    BY FeedKept DEF IInv
  <1>4. ASSUME NEW w \in Versions
        PROVE  PubInv(w, pub[w])'
    <2>1. CASE w = v
      BY <2>1 DEF IInv, TypeOK, TasksOK
    <2>2. CASE w # v
      <3>1. pub'[w] = pub[w]
        BY <2>2 DEF IInv, TypeOK, TasksOK
      <3> QED
        BY ONLY IInv, Keeps, <2>2, <3>1, OthersKept, w \in Versions, UNCHANGED tagVars,
                \A x \in Versions : x # v => OrderInv(x, pub[x])'
    <2> QED
      BY <2>1, <2>2
  <1> QED
    BY <1>1, <1>2, <1>3, <1>4 DEF IInv

\* The order of all publications is kept when configuration and drafts are.
LEMMA OrdersKept ==
  ASSUME IInv, NEW v \in Versions, NEW p, pub' = [pub EXCEPT ![v] = p],
         UNCHANGED << hasty, drafts, config >>
  PROVE  \A w \in Versions : w # v => OrderInv(w, pub[w])'
  BY DEF IInv, TypeOK, TasksOK, PubInv, OrderInv

\* Submit(v, k) preserves the inductive invariant.
LEMMA SubmitIInv ==
  ASSUME IInv, NEW v \in Versions, NEW k \in Variants, Submit(v, k)
  PROVE  IInv'
  <1> USE DEF tagVars
  <1>1. PICK p : p = [pub[v] EXCEPT !.left = @ \ {k},
                        !.at = IF pub[v].left = {k} THEN "waiting" ELSE "submitting"]
    OBVIOUS
  <1>2. /\ pub[v] \in Publications /\ pub[v].at = "submitting" /\ PubInv(v, pub[v])
        /\ submitted \in [Versions -> Packages] /\ pub[v].draft \in Drafts
        /\ submitted' = [submitted EXCEPT ![v][k] = pub[v].draft]
        /\ pub[v].left \in SUBSET Variants
    BY DEF IInv, Submit, TypeOK, TasksOK, UsersOK, Publications
  <1>3. /\ p \in Publications /\ p.at \in {"submitting", "waiting"}
        /\ p.hashes = pub[v].hashes /\ p.left = pub[v].left \ {k}
        /\ p.draft = pub[v].draft /\ p.config = pub[v].config /\ p.feed = pub[v].feed
        /\ p.at = "waiting" => p.left = {}
    BY ONLY <1>1, <1>2 DEF Publications, PubStages
  <1>4. pub' = [pub EXCEPT ![v] = p]
    BY <1>1, <1>2 DEF Submit
  <1>5. UNCHANGED << hasty, tagVars, task, failures, center, github, available, config,
                     feed, npm, cta >>
    BY DEF Submit
  <1>6. /\ submitted' \in [Versions -> Packages]
        /\ \A w \in Versions, j \in Variants :
             submitted'[w][j] = IF w = v /\ j = k THEN pub[v].draft ELSE submitted[w][j]
    BY ONLY <1>2, k \in Variants DEF Packages
  <1>7. Keeps
    BY <1>2, <1>5, <1>6 DEF Keeps, PubInv, SubmitInv
  <1>8. UsersOK' /\ UploadInv'
    BY <1>5, <1>6 DEF IInv, TypeOK, UsersOK, UploadInv
  <1>9. UserInv'
    BY <1>5, <1>7, FeedKept, ConfigKept DEF IInv, UserInv
  <1>10. SubmitInv(v, p)'
    <2> SUFFICES ASSUME Tested(v)'
                 PROVE  SubmitInv(v, p)'
      BY DEF SubmitInv
    <2>1. Tested(v) /\ Last(v)' = Last(v)
      BY <1>5 DEF Tested, Last
    <2>2. /\ pub[v].draft = Last(v)
          /\ \A j \in Variants \ pub[v].left : submitted[v][j] = Last(v)
          /\ \A j \in Variants : pub[v].hashes[j] \in {None, Last(v)}
      BY <1>2, <2>1 DEF PubInv, SubmitInv
    <2>3. \A j \in Variants \ p.left : submitted'[v][j] = Last(v)
      BY <1>3, <1>6, <2>2
    <2> QED
      BY <1>3, <2>1, <2>2, <2>3 DEF SubmitInv, SubmitStages, ListStages
  <1>11. SeenInv(v, p)'
    BY <1>2, <1>3, <1>5 DEF PubInv, SeenInv, HashStages, ListStages
  <1>12. PubInv(v, p)'
    BY <1>2, <1>3, <1>5, <1>7, <1>10, <1>11, FeedKept, ConfigKept DEF PubInv, OrderInv
  <1>13. \A w \in Versions : w # v => OrderInv(w, pub[w])'
    BY <1>4, <1>5, OrdersKept
  <1> QED
    BY ONLY IInv, v \in Versions, <1>3, <1>4, <1>5, <1>7, <1>8, <1>9, <1>12, <1>13, PublicStep

\* BecomesAvailable(v, k) preserves the inductive invariant.
LEMMA BecomesAvailableIInv ==
  ASSUME IInv, NEW v \in Versions, NEW k \in Variants, BecomesAvailable(v, k)
  PROVE  IInv'
  <1> USE DEF tagVars
  <1>1. /\ available' = available \cup {<< v, k >>}
        /\ UNCHANGED << hasty, tagVars, task, pub, failures, center, github, submitted,
                        config, feed, npm, cta >>
    BY DEF BecomesAvailable
  <1>2. TypeOK' /\ NeverTurnedDown' /\ QuietInv' /\ UploadInv'
    BY <1>1 DEF IInv, TypeOK, TagsOK, TasksOK, UsersOK, NeverTurnedDown, QuietInv,
                UploadInv, Tested
  <1>3. Keeps
    BY <1>1 DEF Keeps
  <1>4. UserInv' /\ FeedInv(cta.feed)'
    BY <1>1, <1>3, FeedKept, ConfigKept DEF IInv, UserInv
  <1>5. \A w \in Versions : PubInv(w, pub[w])'
    BY <1>1, <1>3, OthersKept DEF IInv, PubInv, OrderInv
  <1> QED
    BY <1>2, <1>4, <1>5 DEF IInv

\* WriteConfig(v) preserves the inductive invariant.
LEMMA WriteConfigIInv ==
  ASSUME IInv, NEW v \in Versions, WriteConfig(v)
  PROVE  IInv'
  <1> USE DEF tagVars
  <1>1. PICK p : p = [pub[v] EXCEPT !.at = "writing feed"]
    OBVIOUS
  <1>2. /\ pub[v] \in Publications /\ pub[v].at = "writing config" /\ PubInv(v, pub[v])
        /\ pub[v].config \in Configs
        /\ config' = [pub[v].config EXCEPT ![Major(v)] = v]
        /\ pub' = [pub EXCEPT ![v] = p]
    BY <1>1 DEF IInv, WriteConfig, Goes, TypeOK, TasksOK, UsersOK, Publications
  <1>3. /\ p \in Publications /\ p.at = "writing feed" /\ p.hashes = pub[v].hashes
        /\ p.config = pub[v].config /\ p.feed = pub[v].feed
    BY <1>1, <1>2, PublicationAt, ZenonT(60) DEF PubStages
  <1>4. UNCHANGED << hasty, tagVars, task, failures, center, github, submitted, available,
                     feed, npm, cta >>
    BY DEF WriteConfig
  <1>5. Keeps
    BY <1>4 DEF Keeps
  <1>6. /\ config' \in Configs
        /\ \A m \in Majors : config'[m] = IF m = Major(v) THEN v ELSE pub[v].config[m]
    BY <1>2 DEF Configs, Majors
  <1>7. UsersOK' /\ UploadInv'
    BY <1>4, <1>6 DEF IInv, TypeOK, UsersOK, UploadInv
  <1>8. Had(v)
    BY <1>2 DEF PubInv, SeenInv, Had, HashStages, ListStages
  <1>9. drafts[v] # <<>>
    BY <1>2 DEF IInv, PubInv, NeverTurnedDown
  <1>10. ConfigInv(config)'
    <2>1. ConfigInv(config')
      <3>1. ConfigInv(pub[v].config)
        BY <1>2 DEF PubInv
      <3> PICK c, d : c = pub[v].config /\ d = config'
        OBVIOUS
      <3>2. ConfigInv(c) /\ \A m \in Majors : d[m] = IF m = Major(v) THEN v ELSE c[m]
        BY <1>6, <3>1
      <3>3. \A w \in Versions : Major(w) \in Majors
        BY DEF Majors
      <3>4. ConfigInv(d)
        BY ONLY v \in Versions, <1>8, <1>9, <3>2, <3>3 DEF ConfigInv
      <3> QED
        BY <3>4
    <2>2. PICK c : c = config'
      OBVIOUS
    <2>3. ConfigInv(c)'
      BY <2>1, <2>2, <1>5, ConfigKept
    <2> QED
      BY <2>2, <2>3
  <1>11. UserInv'
    BY <1>4, <1>5, <1>10, FeedKept DEF IInv, UserInv
  <1>12. PubInv(v, p)'
    <2>1. SeenInv(v, p)' /\ SubmitInv(v, p)'
      BY <1>2, <1>3, <1>4
         DEF PubInv, SeenInv, SubmitInv, Tested, Last, HashStages, ListStages, SubmitStages
    <2>2. OrderInv(v, p)'
      BY <1>2, <1>3, <1>4 DEF PubInv, OrderInv
    <2> QED
      BY <1>2, <1>3, <1>4, <1>5, <2>1, <2>2, FeedKept, ConfigKept DEF PubInv
  <1>13. ASSUME NEW w \in Versions, w # v
         PROVE  OrderInv(w, pub[w])'
    <2>1. pub'[w] = pub[w]
      BY <1>2, <1>13 DEF IInv, TypeOK, TasksOK
    <2>2. hasty = 0 => pub[w].at \in {"off", "done"}
      <3> SUFFICES ASSUME hasty = 0, pub[w].at \notin {"off", "done"}
                   PROVE  v = w
        BY <1>13
      <3>1. drafts[w] # <<>> /\ OrderInv(w, pub[w])
        BY DEF IInv, PubInv, NeverTurnedDown
      <3>2. v <= w /\ w <= v
        BY <1>2, <1>9, <3>1 DEF PubInv, OrderInv
      <3> QED
        BY <3>2, ReleaseAssumption
    <2> QED
      BY <1>4, <2>1, <2>2 DEF OrderInv
  <1> QED
    BY ONLY IInv, v \in Versions, <1>2, <1>3, <1>4, <1>5, <1>7, <1>11, <1>12, <1>13, PublicStep

\* WriteFeed(v) preserves the inductive invariant.
LEMMA WriteFeedIInv ==
  ASSUME IInv, NEW v \in Versions, WriteFeed(v)
  PROVE  IInv'
  <1> USE DEF tagVars
  <1>1. PICK p : p = [Idle EXCEPT !.at = "promoting"]
    OBVIOUS
  <1>2. /\ pub[v] \in Publications /\ pub[v].at = "writing feed" /\ PubInv(v, pub[v])
        /\ pub[v].feed \in Feeds /\ pub[v].hashes \in Packages
        /\ feed' = [pub[v].feed EXCEPT ![v] = pub[v].hashes]
        /\ pub' = [pub EXCEPT ![v] = p]
    BY <1>1 DEF IInv, WriteFeed, TypeOK, TasksOK, UsersOK, Publications
  <1>3. /\ p \in Publications /\ p.at = "promoting" /\ p.hashes = NoPackages
        /\ p.config = NoConfig /\ p.feed = NoFeed
    BY <1>1, IdleAt DEF PubStages
  <1>4. UNCHANGED << hasty, tagVars, task, failures, center, github, submitted, available,
                     config, npm, cta >>
    BY DEF WriteFeed
  <1>5. Keeps
    BY <1>4 DEF Keeps
  <1>6. /\ feed' \in Feeds
        /\ \A w \in Versions : feed'[w] = IF w = v THEN pub[v].hashes ELSE pub[v].feed[w]
    BY <1>2 DEF Feeds
  <1>7. UsersOK' /\ UploadInv'
    BY <1>4, <1>6 DEF IInv, TypeOK, UsersOK, UploadInv
  <1>8. /\ Had(v) /\ released[v] # Nothing
        /\ Tested(v) => \A k \in Variants :
             pub[v].hashes[k] = Last(v) /\ submitted[v][k] = Last(v)
    BY <1>2 DEF PubInv, SeenInv, SubmitInv, Had, HashStages, ListStages, SubmitStages
  <1>9. FeedInv(feed)'
    <2>1. FeedInv(pub[v].feed)
      BY <1>2 DEF PubInv
    <2>2. FeedInv(feed')
      BY ONLY <1>6, <1>8, <2>1 DEF FeedInv
    <2>3. PICK f : f = feed'
      OBVIOUS
    <2>4. FeedInv(f)'
      BY <2>2, <2>3, <1>5, FeedKept
    <2> QED
      BY <2>3, <2>4
  <1>10. UserInv'
    BY <1>4, <1>5, <1>9, ConfigKept DEF IInv, UserInv
  <1>11. PubInv(v, p)'
    <2>1. SeenInv(v, p)' /\ SubmitInv(v, p)'
      BY <1>3, <1>4, Empty DEF SeenInv, SubmitInv, HashStages, ListStages, SubmitStages
    <2>2. OrderInv(v, p)'
      BY <1>2, <1>3, <1>4 DEF PubInv, OrderInv
    <2>3. FeedInv(p.feed)' /\ ConfigInv(p.config)'
      BY <1>3, Empty, ReleaseAssumption DEF FeedInv, ConfigInv, Majors, None
    <2> QED
      BY <1>2, <1>3, <1>4, <2>1, <2>2, <2>3 DEF PubInv
  <1>12. \A w \in Versions : w # v => OrderInv(w, pub[w])'
    BY <1>2, <1>4, OrdersKept
  <1> QED
    BY ONLY IInv, v \in Versions, <1>2, <1>3, <1>4, <1>5, <1>7, <1>10, <1>11, <1>12, PublicStep

\* Promote(v) preserves the inductive invariant.
LEMMA PromoteIInv ==
  ASSUME IInv, NEW v \in Versions, Promote(v)
  PROVE  IInv'
  <1> USE DEF tagVars
  <1>1. PICK p : p = [pub[v] EXCEPT !.at = "npm"]
    OBVIOUS
  <1>2. /\ pub[v] \in Publications /\ pub[v].at = "promoting" /\ PubInv(v, pub[v])
        /\ pub' = [pub EXCEPT ![v] = p]
        /\ github' = [github EXCEPT ![v] = [github[v] EXCEPT !.state = "published"]]
    BY <1>1 DEF IInv, Promote, Goes, TypeOK, TasksOK
  <1>3. /\ p \in Publications /\ p.at = "npm" /\ p.hashes = pub[v].hashes
        /\ p.config = pub[v].config /\ p.feed = pub[v].feed
    BY <1>1, <1>2, PublicationAt, ZenonT(60) DEF PubStages
  <1>4. UNCHANGED << hasty, tagVars, task, failures, center, submitted, available, config,
                     feed, npm, cta >>
    BY DEF Promote
  <1>5. /\ github' \in [Versions -> [state : {"none", "draft", "published"}, assets : Packages]]
        /\ \A w \in Versions : github'[w].assets = github[w].assets
        /\ \A w \in Versions : github'[w].state = IF w = v THEN "published" ELSE github[w].state
    BY <1>2 DEF IInv, TypeOK, UsersOK
  <1>6. Keeps
    BY <1>4, <1>5 DEF Keeps
  <1>7. UsersOK' /\ UploadInv'
    BY <1>4, <1>5 DEF IInv, TypeOK, UsersOK, UploadInv, TasksOK
  <1>8. UserInv'
    BY <1>4, <1>5, <1>6, FeedKept, ConfigKept DEF IInv, UserInv, TypeOK, UsersOK
  <1>9. PubInv(v, p)'
    <2>1. SeenInv(v, p)' /\ SubmitInv(v, p)'
      BY <1>2, <1>3, <1>4, <1>5
         DEF PubInv, SeenInv, SubmitInv, Tested, Last, HashStages, ListStages, SubmitStages
    <2>2. OrderInv(v, p)'
      BY <1>2, <1>3, <1>4 DEF PubInv, OrderInv
    <2> QED
      BY <1>2, <1>3, <1>4, <1>6, <2>1, <2>2, FeedKept, ConfigKept DEF PubInv
  <1>10. \A w \in Versions : w # v => OrderInv(w, pub[w])'
    BY <1>2, <1>4, OrdersKept
  <1> QED
    BY ONLY IInv, v \in Versions, <1>2, <1>3, <1>4, <1>6, <1>7, <1>8, <1>9, <1>10, PublicStep

\* PublishToNpm(v) preserves the inductive invariant.
LEMMA PublishToNpmIInv ==
  ASSUME IInv, NEW v \in Versions, PublishToNpm(v)
  PROVE  IInv'
  <1> USE DEF tagVars
  <1>1. PICK p : p = [pub[v] EXCEPT !.at = "done"]
    OBVIOUS
  <1>2. /\ pub[v] \in Publications /\ pub[v].at = "npm" /\ PubInv(v, pub[v])
        /\ pub' = [pub EXCEPT ![v] = p] /\ npm' = npm \cup {v}
    BY <1>1 DEF IInv, PublishToNpm, Goes, TypeOK, TasksOK
  <1>3. /\ p \in Publications /\ p.at = "done" /\ p.hashes = pub[v].hashes
        /\ p.config = pub[v].config /\ p.feed = pub[v].feed
    BY <1>1, <1>2, PublicationAt DEF PubStages
  <1>4. UNCHANGED << hasty, tagVars, task, failures, center, github, submitted, available,
                     config, feed, cta >>
    BY DEF PublishToNpm
  <1>5. Keeps
    BY <1>4 DEF Keeps
  <1>6. UsersOK' /\ UploadInv'
    BY <1>2, <1>4 DEF IInv, TypeOK, UsersOK, UploadInv
  <1>7. UserInv'
    BY <1>2, <1>4, <1>5, FeedKept, ConfigKept DEF IInv, UserInv, PubInv, SeenInv
  <1>8. PubInv(v, p)'
    <2>1. SeenInv(v, p)' /\ SubmitInv(v, p)'
      BY <1>2, <1>3, <1>4
         DEF PubInv, SeenInv, SubmitInv, Tested, Last, HashStages, ListStages, SubmitStages
    <2>2. OrderInv(v, p)'
      BY <1>2, <1>3, <1>4 DEF PubInv, OrderInv
    <2> QED
      BY <1>2, <1>3, <1>4, <1>5, <2>1, <2>2, FeedKept, ConfigKept DEF PubInv
  <1>9. \A w \in Versions : w # v => OrderInv(w, pub[w])'
    BY <1>2, <1>4, OrdersKept
  <1> QED
    BY ONLY IInv, v \in Versions, <1>2, <1>3, <1>4, <1>5, <1>6, <1>7, <1>8, <1>9, PublicStep
-----------------------------------------------------------------------------
(* Steps of drafts and of the other workflow.                              *)

\* The task of one draft changes.
LEMMA TaskChanges ==
  ASSUME TypeOK, NEW v \in Versions, NEW i \in DOMAIN task[v], NEW t \in Tasks,
         task' = [task EXCEPT ![v] = [task[v] EXCEPT ![i] = t]]
  PROVE  /\ task' \in [Versions -> Seq(Tasks)]
         /\ \A w \in Versions : Len(task'[w]) = Len(task[w]) /\ DOMAIN task'[w] = DOMAIN task[w]
         /\ \A w \in Versions : \A j \in DOMAIN task[w] :
              task'[w][j] = IF w = v /\ j = i THEN t ELSE task[w][j]
  <1>1. task \in [Versions -> Seq(Tasks)] /\ task[v] \in Seq(Tasks)
    BY DEF TypeOK, TasksOK
  <1>2. PICK s : s = [task[v] EXCEPT ![i] = t]
    OBVIOUS
  <1>3. /\ s \in Seq(Tasks) /\ Len(s) = Len(task[v]) /\ DOMAIN s = DOMAIN task[v]
        /\ \A j \in DOMAIN task[v] : s[j] = IF j = i THEN t ELSE task[v][j]
    BY ONLY <1>1, <1>2, i \in DOMAIN task[v], t \in Tasks
  <1> QED
    BY ONLY <1>1, <1>2, <1>3, v \in Versions,
       task' = [task EXCEPT ![v] = [task[v] EXCEPT ![i] = t]]

\* A step of a draft's task.
LEMMA DraftStep ==
  ASSUME IInv, NEW v \in Versions, NEW i \in DOMAIN task[v], NEW t \in Tasks,
         task' = [task EXCEPT ![v] = [task[v] EXCEPT ![i] = t]],
         task[v][i].at # "done", Keeps, UsersOK', UploadInv',
         hasty' \in 0 .. MaxHasty, failures' \in 0 .. MaxFailures,
         t.at \in {"building", "uploading"} /\ hasty' = 0 =>
           i = Len(task[v]) /\ released[v] = Nothing,
         UNCHANGED << tagVars, pub, submitted, available, config, feed, npm, cta >>
  PROVE  IInv'
  <1> USE DEF tagVars
  <1>1. /\ task' \in [Versions -> Seq(Tasks)]
        /\ \A w \in Versions : Len(task'[w]) = Len(task[w]) /\ DOMAIN task'[w] = DOMAIN task[w]
        /\ \A w \in Versions : \A j \in DOMAIN task[w] :
             task'[w][j] = IF w = v /\ j = i THEN t ELSE task[w][j]
    BY TaskChanges DEF IInv
  <1>2. TypeOK' /\ NeverTurnedDown'
    BY <1>1 DEF IInv, TypeOK, TagsOK, TasksOK, NeverTurnedDown
  <1>3. QuietInv'
    <2> SUFFICES ASSUME hasty' = 0, NEW w \in Versions, NEW j \in DOMAIN task[w]
                 PROVE  /\ task'[w][j].at \in {"building", "uploading"} =>
                             j = Len(task[w]) /\ released[w] = Nothing
                        /\ Tested(w) /\ j = Len(task[w]) => task'[w][j].at = "done"
      BY <1>1 DEF QuietInv, Tested, Keeps
    <2>1. /\ task[w][j].at \in {"building", "uploading"} =>
               j = Len(task[w]) /\ released[w] = Nothing
          /\ Tested(w) /\ j = Len(task[w]) => task[w][j].at = "done"
      BY DEF IInv, QuietInv, Keeps
    <2> QED
      BY <1>1, <2>1
  <1>4. UserInv' /\ FeedInv(cta.feed)'
    <2>1. FeedInv(feed)' /\ FeedInv(cta.feed)' /\ ConfigInv(config)'
      BY FeedKept, ConfigKept DEF IInv, UserInv
    <2> QED
      BY <2>1 DEF IInv, UserInv, TypeOK, UsersOK, Keeps
  <1>5. \A w \in Versions : PubInv(w, pub[w])'
    BY OthersKept DEF IInv, PubInv, OrderInv, Keeps
  <1> QED
    BY <1>2, <1>3, <1>4, <1>5 DEF IInv

\* What has been uploaded is so still when a task starts or fails.
LEMMA UploadsKept ==
  ASSUME IInv, NEW v \in Versions, NEW i \in DOMAIN task[v], NEW t \in Tasks,
         task' = [task EXCEPT ![v] = [task[v] EXCEPT ![i] = t]],
         hasty' = 0 => hasty = 0,
         hasty = 0 /\ t.at # "failed" =>
           t.at \in {"building", "uploading"} /\ t.left = Variants \X Places,
         UNCHANGED center, \A w \in Versions : github'[w].assets = github[w].assets
  PROVE  UploadInv'
  <1>1. /\ \A w \in Versions : Len(task'[w]) = Len(task[w]) /\ DOMAIN task'[w] = DOMAIN task[w]
        /\ \A w \in Versions : \A j \in DOMAIN task[w] :
             task'[w][j] = IF w = v /\ j = i THEN t ELSE task[w][j]
    BY TaskChanges DEF IInv
  <1> SUFFICES ASSUME hasty = 0, NEW w \in Versions, NEW j \in DOMAIN task[w]
               PROVE  /\ task'[w][j].at = "building" => task'[w][j].left = Variants \X Places
                      /\ task'[w][j].at = "done" => task'[w][j].left = {}
                      /\ j = Len(task[w]) /\ task'[w][j].at \in {"uploading", "done"} =>
                           \A k \in Variants :
                             /\ << k, "center" >> \notin task'[w][j].left => center[w][k] = j
                             /\ << k, "github" >> \notin task'[w][j].left =>
                                  github[w].assets[k] = j
    BY <1>1 DEF UploadInv
  <1>2. CASE w = v /\ j = i
    BY <1>1, <1>2 DEF Places
  <1>3. CASE ~ (w = v /\ j = i)
    BY <1>1, <1>3 DEF IInv, UploadInv
  <1> QED
    BY <1>2, <1>3

\* DraftStarts(v, i) preserves the inductive invariant.
LEMMA DraftStartsIInv ==
  ASSUME IInv, NEW v \in Versions, NEW i \in 1 .. MaxDrafts[v], DraftStarts(v, i)
  PROVE  IInv'
  <1> USE DEF tagVars
  <1>1. PICK t : t = [task[v][i] EXCEPT !.at = "uploading"]
    OBVIOUS
  <1>2. i \in DOMAIN task[v] /\ task[v][i] \in Tasks /\ task[v][i].at = "building"
    BY DEF IInv, TypeOK, TasksOK, DraftStarts, Draft
  <1>3. t \in Tasks /\ t.at = "uploading" /\ t.left = task[v][i].left
    BY ONLY <1>1, <1>2 DEF Tasks
  <1>4. task' = [task EXCEPT ![v] = [task[v] EXCEPT ![i] = t]]
    BY <1>1 DEF DraftStarts
  <1>5. UNCHANGED << hasty, tagVars, pub, failures, center, submitted, available, config,
                     feed, npm, cta >>
    BY DEF DraftStarts
  <1>6. /\ github' \in [Versions -> [state : {"none", "draft", "published"}, assets : Packages]]
        /\ \A w \in Versions : github'[w].assets = github[w].assets
        /\ \A w \in Versions : github[w].state = "published" => github'[w].state = "published"
    <2>1. github' = [github EXCEPT ![v] = [github[v] EXCEPT !.state =
                       IF github[v].state = "none" THEN "draft" ELSE github[v].state]]
      BY DEF DraftStarts
    <2>2. github \in [Versions -> [state : {"none", "draft", "published"}, assets : Packages]]
      BY DEF IInv, TypeOK, UsersOK
    <2> QED
      BY ONLY <2>1, <2>2, v \in Versions
  <1>7. Keeps
    BY <1>5, <1>6 DEF Keeps
  <1>8. UsersOK'
    BY <1>5, <1>6 DEF IInv, TypeOK, UsersOK
  <1>9. hasty = 0 => i = Len(task[v]) /\ released[v] = Nothing
    BY <1>2 DEF IInv, QuietInv
  <1>10. UploadInv'
    <2>1. hasty = 0 => t.left = Variants \X Places
      BY <1>2, <1>3 DEF IInv, UploadInv
    <2> QED
      BY <1>2, <1>3, <1>4, <1>5, <1>6, <2>1, UploadsKept
  <1> QED
    BY ONLY IInv, v \in Versions, <1>2, <1>3, <1>4, <1>5, <1>7, <1>8, <1>9, <1>10, DraftStep
       DEF IInv, TypeOK, TagsOK, TasksOK

\* DraftFails(v, i) preserves the inductive invariant.
LEMMA DraftFailsIInv ==
  ASSUME IInv, NEW v \in Versions, NEW i \in 1 .. MaxDrafts[v], DraftFails(v, i)
  PROVE  IInv'
  <1> USE DEF tagVars, userVars
  <1>1. PICK t : t = [at |-> "failed", left |-> {}]
    OBVIOUS
  <1>2. i \in DOMAIN task[v] /\ task[v][i].at # "done"
    BY DEF DraftFails, Draft
  <1>3. t \in Tasks /\ t.at = "failed"
    BY <1>1 DEF Tasks
  <1>4. task' = [task EXCEPT ![v] = [task[v] EXCEPT ![i] = t]]
    BY <1>1 DEF DraftFails
  <1>5. UNCHANGED << hasty, tagVars, pub, userVars, cta >>
    BY DEF DraftFails
  <1>6. Keeps /\ UsersOK' /\ hasty' \in 0 .. MaxHasty /\ failures' \in 0 .. MaxFailures
    BY <1>5, ReleaseAssumption
       DEF Keeps, IInv, TypeOK, TagsOK, TasksOK, UsersOK, DraftFails
  <1>7. UploadInv'
    BY <1>2, <1>3, <1>4, <1>5, UploadsKept
  <1> QED
    BY ONLY IInv, v \in Versions, <1>2, <1>3, <1>4, <1>5, <1>6, <1>7, DraftStep
       DEF tagVars, userVars

\* DraftRestarts(v, i) preserves the inductive invariant.
LEMMA DraftRestartsIInv ==
  ASSUME IInv, NEW v \in Versions, NEW i \in 1 .. MaxDrafts[v], DraftRestarts(v, i)
  PROVE  IInv'
  <1> USE DEF tagVars, userVars
  <1>1. PICK t : t = [at |-> "building", left |-> Variants \X Places]
    OBVIOUS
  <1>2. i \in DOMAIN task[v] /\ task[v][i].at # "done"
    BY DEF DraftRestarts, Draft
  <1>3. t \in Tasks /\ t.at = "building" /\ t.left = Variants \X Places
    BY <1>1 DEF Tasks
  <1>4. task' = [task EXCEPT ![v] = [task[v] EXCEPT ![i] = t]]
    BY <1>1 DEF DraftRestarts
  <1>5. UNCHANGED << tagVars, pub, failures, userVars, cta >>
    BY DEF DraftRestarts
  <1>6. /\ hasty' \in 0 .. MaxHasty
        /\ hasty' = 0 => hasty = 0 /\ i = Len(task[v]) /\ released[v] = Nothing
    <2>1. \/ i = Len(task[v]) /\ released[v] = Nothing /\ hasty' = hasty
          \/ hasty < MaxHasty /\ hasty' = hasty + 1
      BY DEF DraftRestarts
    <2> QED
      BY <2>1, ReleaseAssumption, SMTT(60) DEF IInv, TypeOK, TagsOK
  <1>7. Keeps /\ UsersOK' /\ failures' \in 0 .. MaxFailures
    BY <1>5, <1>6 DEF Keeps, IInv, TypeOK, TasksOK, UsersOK
  <1>8. UploadInv'
    BY <1>2, <1>3, <1>4, <1>5, <1>6, UploadsKept
  <1> QED
    BY ONLY IInv, v \in Versions, <1>2, <1>3, <1>4, <1>5, <1>6, <1>7, <1>8, DraftStep
       DEF tagVars, userVars

\* DraftUploads(v, i, k, place) preserves the inductive invariant.
LEMMA DraftUploadsIInv ==
  ASSUME IInv, NEW v \in Versions, NEW i \in 1 .. MaxDrafts[v], NEW k \in Variants,
         NEW place \in Places, DraftUploads(v, i, k, place)
  PROVE  IInv'
  <1> USE DEF tagVars
  <1> DEFINE left == task[v][i].left \ {<< k, place >>}
  <1>1. PICK t : t = [at |-> IF left = {} THEN "done" ELSE "uploading", left |-> left]
    OBVIOUS
  <1>2. /\ i \in DOMAIN task[v] /\ task[v][i].at = "uploading" /\ task[v][i] \in Tasks
        /\ i \in Drafts \ {None}
    BY ReleaseAssumption, SMTT(60) DEF DraftUploads, Draft, IInv, TypeOK, TasksOK, Drafts, None
  <1>3. /\ t \in Tasks /\ t.at \in {"uploading", "done"} /\ t.left = left
        /\ t.at = "done" => t.left = {}
    BY <1>1, <1>2 DEF Tasks
  <1>4. task' = [task EXCEPT ![v] = [task[v] EXCEPT ![i] = t]]
    BY <1>1 DEF DraftUploads
  <1>5. UNCHANGED << hasty, tagVars, pub, failures, submitted, available, config, feed, npm,
                     cta >>
    BY DEF DraftUploads
  <1>6. /\ center' \in [Versions -> Packages]
        /\ \A w \in Versions, j \in Variants : center'[w][j] =
             IF w = v /\ j = k /\ place = "center" THEN i ELSE center[w][j]
    <2>1. center' = IF place = "center"
                    THEN [center EXCEPT ![v] = [center[v] EXCEPT ![k] = i]] ELSE center
      BY DEF DraftUploads
    <2>2. center \in [Versions -> Packages]
      BY DEF IInv, TypeOK, UsersOK
    <2> QED
      BY ONLY <1>2, <2>1, <2>2, v \in Versions, k \in Variants DEF Packages
  <1>7. /\ github' \in [Versions -> [state : {"none", "draft", "published"}, assets : Packages]]
        /\ \A w \in Versions : github'[w].state = github[w].state
        /\ \A w \in Versions, j \in Variants : github'[w].assets[j] =
             IF w = v /\ j = k /\ place # "center" THEN i ELSE github[w].assets[j]
    <2>1. PICK a : a = [github[v].assets EXCEPT ![k] = i]
      OBVIOUS
    <2>2. github' = IF place = "center" THEN github
                    ELSE [github EXCEPT ![v] = [github[v] EXCEPT !.assets = a]]
      BY <2>1 DEF DraftUploads
    <2>3. /\ github \in [Versions -> [state : {"none", "draft", "published"}, assets : Packages]]
          /\ github[v].assets \in Packages
      BY DEF IInv, TypeOK, UsersOK
    <2>4. a \in Packages /\ \A j \in Variants : a[j] = IF j = k THEN i ELSE github[v].assets[j]
      BY ONLY <1>2, <2>1, <2>3, k \in Variants DEF Packages
    <2> QED
      BY ONLY <2>2, <2>3, <2>4, v \in Versions
  <1>8. Keeps /\ UsersOK' /\ hasty' \in 0 .. MaxHasty /\ failures' \in 0 .. MaxFailures
    BY <1>2, <1>5, <1>6, <1>7 DEF Keeps, IInv, TypeOK, TagsOK, TasksOK, UsersOK
  <1>9. hasty = 0 => i = Len(task[v]) /\ released[v] = Nothing
    BY <1>2 DEF IInv, QuietInv
  <1>10. UploadInv'
    <2>1. /\ \A w \in Versions : Len(task'[w]) = Len(task[w]) /\ DOMAIN task'[w] = DOMAIN task[w]
          /\ \A w \in Versions : \A j \in DOMAIN task[w] :
               task'[w][j] = IF w = v /\ j = i THEN t ELSE task[w][j]
      BY <1>2, <1>3, <1>4, TaskChanges DEF IInv
    <2> SUFFICES ASSUME hasty = 0, NEW w \in Versions, NEW j \in DOMAIN task[w]
                 PROVE  /\ task'[w][j].at = "building" => task'[w][j].left = Variants \X Places
                        /\ task'[w][j].at = "done" => task'[w][j].left = {}
                        /\ j = Len(task[w]) /\ task'[w][j].at \in {"uploading", "done"} =>
                             \A x \in Variants :
                               /\ << x, "center" >> \notin task'[w][j].left => center'[w][x] = j
                               /\ << x, "github" >> \notin task'[w][j].left =>
                                    github'[w].assets[x] = j
      BY <1>5, <2>1 DEF UploadInv
    <2>2. CASE w = v /\ j = i
      <3>1. \A x \in Variants :
              /\ << x, "center" >> \notin task[v][i].left => center[v][x] = i
              /\ << x, "github" >> \notin task[v][i].left => github[v].assets[x] = i
        BY <1>2, <1>9 DEF IInv, UploadInv
      <3>2. \A x \in Variants :
              /\ << x, "center" >> \notin t.left => center'[v][x] = i
              /\ << x, "github" >> \notin t.left => github'[v].assets[x] = i
        BY <1>3, <1>6, <1>7, <3>1, ZenonT(60) DEF Places
      <3> QED
        BY <1>3, <2>1, <2>2, <3>2
    <2>3. CASE w # v
      <3>1. /\ task[w][j].at = "building" => task[w][j].left = Variants \X Places
            /\ task[w][j].at = "done" => task[w][j].left = {}
            /\ j = Len(task[w]) /\ task[w][j].at \in {"uploading", "done"} =>
                 \A x \in Variants :
                   /\ << x, "center" >> \notin task[w][j].left => center[w][x] = j
                   /\ << x, "github" >> \notin task[w][j].left => github[w].assets[x] = j
        BY DEF IInv, UploadInv
      <3>2. task'[w][j] = task[w][j]
        BY <2>1, <2>3
      <3>3. \A x \in Variants : center'[w][x] = center[w][x] /\ github'[w].assets[x] = github[w].assets[x]
        BY <1>6, <1>7, <2>3
      <3> QED
        BY ONLY <3>1, <3>2, <3>3
    <2>4. CASE w = v /\ j # i
      BY <1>9, <2>1, <2>4 DEF IInv, UploadInv
    <2> QED
      BY <2>2, <2>3, <2>4
  <1> QED
    BY ONLY IInv, v \in Versions, <1>2, <1>3, <1>4, <1>5, <1>8, <1>9, <1>10, DraftStep

\* A person has waited, unless it is counted.
LEMMA WaitsOrNot ==
  ASSUME TagsOK, Waits
  PROVE  hasty' \in 0 .. MaxHasty /\ (hasty' = 0 => hasty = 0 /\ Waited)
  BY ReleaseAssumption DEF TagsOK, Waits

\* Nothing is under way when a person has waited.
LEMMA NobodyBusy ==
  ASSUME IInv, Waited
  PROVE  /\ \A v \in Versions : pub[v].at \in {"off", "done"}
         /\ \A v \in Versions : \A i \in DOMAIN task[v] :
              task[v][i].at \notin {"building", "uploading"}
  BY DEF Waited

\* A draft of x is tagged.
LEMMA TagDraftIInv ==
  ASSUME IInv, Waits, NEW x \in Versions, NEW commit \in Commits \ {Nothing},
         TagDraft(x, commit), released[x] = Nothing,
         head' \in [Branches -> Nat], \A b \in Branches : head'[b] <= MaxCommits[b],
         UNCHANGED << released, forced, pub, failures, userVars, cta >>
  PROVE  IInv'
  <1> USE DEF userVars
  <1>1. hasty' \in 0 .. MaxHasty /\ (hasty' = 0 => hasty = 0 /\ Waited)
    BY WaitsOrNot DEF IInv, TypeOK
  <1>2. PICK t : t = [at |-> "building", left |-> Variants \X Places]
    OBVIOUS
  <1>3. t \in Tasks /\ t.at = "building" /\ t.left = Variants \X Places
    BY <1>2 DEF Tasks
  <1>4. /\ drafts \in [Versions -> Seq(Commits \ {Nothing})] /\ task \in [Versions -> Seq(Tasks)]
        /\ \A w \in Versions : Len(task[w]) = Len(drafts[w]) /\ Len(drafts[w]) <= MaxDrafts[w]
        /\ Len(drafts[x]) < MaxDrafts[x]
    BY DEF IInv, TypeOK, TagsOK, TasksOK, TagDraft
  <1>5. /\ drafts' \in [Versions -> Seq(Commits \ {Nothing})]
        /\ \A w \in Versions : w # x => drafts'[w] = drafts[w]
        /\ drafts'[x] # <<>> /\ Len(drafts'[x]) = Len(drafts[x]) + 1
    BY ONLY <1>4, TagDraft(x, commit), SMTT(60) DEF TagDraft
  <1>6. /\ task' \in [Versions -> Seq(Tasks)]
        /\ \A w \in Versions : w # x => task'[w] = task[w]
        /\ Len(task'[x]) = Len(task[x]) + 1 /\ task'[x][Len(task[x]) + 1] = t
        /\ \A i \in DOMAIN task[x] : task'[x][i] = task[x][i]
    BY ONLY <1>2, <1>3, <1>4, TagDraft(x, commit) DEF TagDraft
  <1>7. TypeOK'
    <2>1. \A w \in Versions : Len(drafts'[w]) <= MaxDrafts[w] /\ Len(task'[w]) = Len(drafts'[w])
      BY <1>4, <1>5, <1>6, ReleaseAssumption, SMTT(60)
    <2> QED
      BY <1>1, <1>5, <1>6, <2>1 DEF IInv, TypeOK, TagsOK, TasksOK, UsersOK
  <1>8. NeverTurnedDown'
    BY <1>5 DEF IInv, NeverTurnedDown
  <1>9. Keeps
    BY <1>1, <1>5 DEF Keeps
  <1>10. QuietInv' /\ UploadInv'
    <2> SUFFICES ASSUME hasty' = 0
                 PROVE  QuietInv' /\ UploadInv'
      BY DEF QuietInv, UploadInv
    <2>1. \A w \in Versions : \A i \in DOMAIN task[w] : task[w][i].at \notin {"building", "uploading"}
      BY <1>1, NobodyBusy
    <2>2. ASSUME NEW w \in Versions, w # x
          PROVE  /\ task'[w] = task[w] /\ Tested(w)' = Tested(w)
                 /\ \A i \in DOMAIN task[w] :
                      Tested(w) /\ i = Len(task[w]) => task[w][i].at = "done"
      BY <1>1, <1>6, <2>2 DEF IInv, QuietInv, Tested
    <2>3. ~ Tested(x)' /\ released'[x] = Nothing
      BY DEF Tested
    <2>4. ASSUME NEW i \in DOMAIN task'[x]
          PROVE  \/ i \in DOMAIN task[x] /\ i # Len(task'[x])
                 \/ i = Len(task'[x]) /\ task'[x][i] = t
      BY <1>4, <1>6, <2>4
    <2>5. QuietInv'
      <3> SUFFICES ASSUME NEW w \in Versions, NEW i \in DOMAIN task'[w]
                   PROVE  /\ task'[w][i].at \in {"building", "uploading"} =>
                               i = Len(task'[w]) /\ released'[w] = Nothing
                          /\ Tested(w)' /\ i = Len(task'[w]) => task'[w][i].at = "done"
        BY DEF QuietInv
      <3> QED
        BY <1>6, <2>1, <2>2, <2>3, <2>4
    <2>6. UploadInv'
      <3> SUFFICES ASSUME NEW w \in Versions, NEW i \in DOMAIN task'[w]
                   PROVE  /\ task'[w][i].at = "building" =>
                               task'[w][i].left = Variants \X Places
                          /\ task'[w][i].at = "done" => task'[w][i].left = {}
                          /\ i = Len(task'[w]) /\ task'[w][i].at \in {"uploading", "done"} =>
                               \A k \in Variants :
                                 /\ << k, "center" >> \notin task'[w][i].left => center[w][k] = i
                                 /\ << k, "github" >> \notin task'[w][i].left =>
                                      github[w].assets[k] = i
        BY DEF UploadInv
      <3>1. CASE w # x
        BY <1>1, <1>6, <3>1 DEF IInv, UploadInv
      <3>2. CASE w = x /\ i \in DOMAIN task[x] /\ i # Len(task'[x])
        BY <1>1, <1>6, <2>1, <3>2 DEF IInv, UploadInv
      <3>3. CASE w = x /\ i = Len(task'[x]) /\ task'[x][i] = t
        BY <1>3, <3>3
      <3> QED
        BY <2>4, <3>1, <3>2, <3>3
    <2> QED
      BY <2>5, <2>6
  <1>11. UserInv' /\ FeedInv(cta.feed)'
    <2>1. FeedInv(feed)' /\ FeedInv(cta.feed)' /\ ConfigInv(config)'
      BY <1>9, FeedKept, ConfigKept DEF IInv, UserInv
    <2> QED
      BY <2>1 DEF IInv, UserInv
  <1>12. \A w \in Versions : PubInv(w, pub[w])'
    BY <1>1, <1>9, NobodyBusy, OthersKept DEF OrderInv
  <1> QED
    BY <1>7, <1>8, <1>10, <1>11, <1>12 DEF IInv

\* triggerReleaseDraft(b) preserves the inductive invariant.
LEMMA triggerReleaseDraftIInv ==
  ASSUME IInv, NEW b \in Branches, triggerReleaseDraft(b)
  PROVE  IInv'
  <1> DEFINE latest == Latest(Line[b])
  <1>1. PICK n \in head[b] .. MaxCommits[b] :
          /\ head' = [head EXCEPT ![b] = n]
          /\ latest # None
          /\ \/ IsDraft(latest) /\ TagDraft(latest, << b, n >>)
             \/ \E w \in Bumped(latest) \cap Versions :
                  drafts[w] = <<>> /\ TagDraft(w, << b, n >>)
    BY DEF triggerReleaseDraft
  <1>2. /\ Waits
        /\ UNCHANGED << released, forced, pub, failures, userVars, cta >>
    BY DEF triggerReleaseDraft
  <1>3. /\ head \in [Branches -> Nat] /\ head[b] \in Nat /\ MaxCommits[b] \in Nat
        /\ \A c \in Branches : head[c] <= MaxCommits[c]
    BY ReleaseAssumption DEF IInv, TypeOK, TagsOK
  <1>4. /\ head' \in [Branches -> Nat] /\ \A c \in Branches : head'[c] <= MaxCommits[c]
        /\ n \in 0 .. MaxCommits[b]
    BY ONLY <1>1, <1>3, b \in Branches
  <1>5. << b, n >> \in Commits \ {Nothing}
    BY <1>4 DEF Commits, Nothing
  <1>6. latest \in Versions
    BY <1>1, LatestOfSome
  <1>7. PICK x \in Versions : TagDraft(x, << b, n >>) /\ released[x] = Nothing
    BY <1>1, <1>6 DEF IsDraft, IInv, NeverTurnedDown
  <1> QED
    BY ONLY IInv, <1>2, <1>4, <1>5, <1>7, TagDraftIInv

\* triggerReleasePublish preserves the inductive invariant.
LEMMA triggerReleasePublishIInv ==
  ASSUME IInv, triggerReleasePublish
  PROVE  IInv'
  <1> USE DEF userVars
  <1>1. PICK v \in Publishable \ {None} :
          /\ IsDraft(v)
          /\ released' = [released EXCEPT ![v] = drafts[v][Len(drafts[v])]]
          /\ forced' = IF Succeeded(v) THEN forced ELSE forced \cup {v}
          /\ pub' = [pub EXCEPT ![v] = [Idle EXCEPT !.at = "listing"]]
    BY DEF triggerReleasePublish
  <1>2. Waits /\ UNCHANGED << head, drafts, task, failures, userVars, cta >>
    BY DEF triggerReleasePublish
  <1>3. /\ v \in Versions /\ released[v] = Nothing /\ drafts[v] # <<>>
        /\ \A w \in Versions : drafts[w] # <<>> => w <= v
    BY <1>1, LatestOfAll DEF IsDraft
  <1>4. hasty' \in 0 .. MaxHasty /\ (hasty' = 0 => hasty = 0 /\ Waited)
    BY <1>2, WaitsOrNot DEF IInv, TypeOK
  <1>5. PICK p : p = [Idle EXCEPT !.at = "listing"]
    OBVIOUS
  <1>6. /\ p \in Publications /\ p.at = "listing" /\ p.hashes = NoPackages
        /\ p.config = NoConfig /\ p.feed = NoFeed
    BY <1>5, IdleAt DEF PubStages
  <1>7. drafts[v][Len(drafts[v])] \in Commits \ {Nothing}
    <2>1. drafts[v] \in Seq(Commits \ {Nothing})
      BY <1>3 DEF IInv, TypeOK, TagsOK
    <2> QED
      BY ONLY <1>3, <2>1
  <1>8. /\ released' \in [Versions -> Commits]
        /\ \A w \in Versions : released'[w] = IF w = v THEN drafts[v][Len(drafts[v])] ELSE released[w]
        /\ pub' \in [Versions -> Publications]
        /\ \A w \in Versions : pub'[w] = IF w = v THEN p ELSE pub[w]
        /\ forced' \subseteq Versions
    BY <1>1, <1>3, <1>5, <1>6, <1>7 DEF IInv, TypeOK, TagsOK, TasksOK
  <1>9. TypeOK'
    BY <1>2, <1>4, <1>8 DEF IInv, TypeOK, TagsOK, TasksOK, UsersOK
  <1>10. NeverTurnedDown'
    BY <1>2, <1>3, <1>8 DEF IInv, NeverTurnedDown
  <1>11. Keeps
    BY <1>1, <1>2, <1>3, <1>4, <1>8 DEF Keeps
  <1>12. QuietInv' /\ UploadInv'
    <2>1. UploadInv'
      BY <1>2, <1>4 DEF IInv, UploadInv
    <2>2. QuietInv'
      <3> SUFFICES ASSUME hasty' = 0, NEW w \in Versions, NEW i \in DOMAIN task[w]
                   PROVE  /\ task[w][i].at \notin {"building", "uploading"}
                          /\ Tested(w)' /\ i = Len(task[w]) => task[w][i].at = "done"
        BY <1>2 DEF QuietInv
      <3>1. task[w][i].at \notin {"building", "uploading"}
        BY <1>4, NobodyBusy
      <3>2. CASE w = v
        <4>1. v \notin forced' => Succeeded(v)
          BY <1>1
        <4> QED
          BY <3>1, <3>2, <4>1 DEF Tested, Succeeded
      <3>3. CASE w # v
        <4>1. Tested(w)' => Tested(w)
          BY <1>4, <1>8, <1>11, <3>3 DEF Tested, Keeps
        <4> QED
          BY <1>4, <3>1, <4>1 DEF IInv, QuietInv
      <3> QED
        BY <3>1, <3>2, <3>3
    <2> QED
      BY <2>1, <2>2
  <1>13. UserInv' /\ FeedInv(cta.feed)'
    <2>1. FeedInv(feed)' /\ FeedInv(cta.feed)' /\ ConfigInv(config)'
      BY <1>2, <1>11, FeedKept, ConfigKept DEF IInv, UserInv
    <2> QED
      BY <1>2, <2>1 DEF IInv, UserInv
  <1>14. ASSUME NEW w \in Versions
         PROVE  PubInv(w, pub[w])'
    <2>1. CASE w = v
      <3>1. FeedInv(p.feed)' /\ ConfigInv(p.config)'
        BY <1>6, Empty, ReleaseAssumption, SMTT(60) DEF FeedInv, ConfigInv, Majors, None
      <3>2. SeenInv(v, p)' /\ SubmitInv(v, p)'
        BY <1>6, Empty DEF SeenInv, SubmitInv, HashStages, ListStages, SubmitStages
      <3>3. OrderInv(v, p)'
        BY <1>2, <1>3, <1>6 DEF OrderInv
      <3>4. p.at # "off" /\ released'[v] # Nothing
        BY <1>3, <1>6, <1>7, <1>8
      <3> QED
        BY <1>8, <2>1, <3>1, <3>2, <3>3, <3>4 DEF PubInv
    <2>2. CASE w # v
      <3>1. pub'[w] = pub[w] /\ released'[w] = released[w]
        BY <1>8, <2>2
      <3>2. OrderInv(w, pub[w])'
        BY <1>2, <1>4, <3>1 DEF IInv, PubInv, OrderInv
      <3> QED
        BY <1>11, <3>1, <3>2, OthersKept
    <2> QED
      BY <2>1, <2>2
  <1> QED
    BY <1>9, <1>10, <1>12, <1>13, <1>14 DEF IInv

\* ReadForCTA preserves the inductive invariant.
LEMMA ReadForCTAIInv ==
  ASSUME IInv, ReadForCTA
  PROVE  IInv'
  <1> USE DEF tagVars, userVars
  <1>1. /\ cta' = [at |-> "read", feed |-> feed]
        /\ UNCHANGED << hasty, tagVars, task, pub, failures, userVars >>
    BY DEF ReadForCTA
  <1>2. TypeOK'
    BY <1>1 DEF IInv, TypeOK, TagsOK, TasksOK, UsersOK
  <1>3. NeverTurnedDown' /\ QuietInv' /\ UploadInv'
    BY <1>1 DEF IInv, NeverTurnedDown, QuietInv, UploadInv, Tested
  <1>4. Keeps
    BY <1>1 DEF Keeps
  <1>5. UserInv'
    BY <1>1, <1>4, FeedKept, ConfigKept DEF IInv, UserInv
  <1>6. FeedInv(cta.feed)'
    BY <1>1, <1>5 DEF UserInv
  <1>7. \A w \in Versions : PubInv(w, pub[w])'
    BY <1>1, <1>4, OthersKept DEF IInv, PubInv, OrderInv
  <1> QED
    BY <1>2, <1>3, <1>5, <1>6, <1>7 DEF IInv

\* WriteForCTA preserves the inductive invariant.
LEMMA WriteForCTAIInv ==
  ASSUME IInv, WriteForCTA
  PROVE  IInv'
  <1> USE DEF tagVars
  <1>1. /\ cta' = [at |-> "off", feed |-> NoFeed] /\ feed' = cta.feed
        /\ UNCHANGED << hasty, tagVars, task, pub, failures, center, github, submitted,
                        available, config, npm >>
    BY DEF WriteForCTA
  <1>2. TypeOK'
    BY <1>1, Empty DEF IInv, TypeOK, TagsOK, TasksOK, UsersOK
  <1>3. NeverTurnedDown' /\ QuietInv' /\ UploadInv'
    BY <1>1 DEF IInv, NeverTurnedDown, QuietInv, UploadInv, Tested
  <1>4. Keeps
    BY <1>1 DEF Keeps
  <1>5. UserInv'
    <2>1. PICK f : f = cta.feed
      OBVIOUS
    <2>2. FeedInv(f)'
      BY <1>4, <2>1, FeedKept DEF IInv
    <2> QED
      BY <1>1, <1>4, <2>1, <2>2, ConfigKept DEF IInv, UserInv
  <1>6. FeedInv(cta.feed)'
    BY <1>1, Empty DEF FeedInv
  <1>7. \A w \in Versions : PubInv(w, pub[w])'
    BY <1>1, <1>4, OthersKept DEF IInv, PubInv, OrderInv
  <1> QED
    BY <1>2, <1>3, <1>5, <1>6, <1>7 DEF IInv
-----------------------------------------------------------------------------
(* The theorems.                                                           *)

\* The inductive invariant holds initially.
LEMMA InitIInv == Init => IInv
  <1> SUFFICES ASSUME Init PROVE IInv
    OBVIOUS
  <1>1. PICK commit : commit = CHOOSE c \in Branches \X {0} : First \in Line[c[1]]
    OBVIOUS
  <1>2. commit \in Commits \ {Nothing}
    <2>1. commit \in Branches \X {0}
      <3>1. PICK b \in Branches : First \in Line[b]
        BY ReleaseAssumption
      <3>2. << b, 0 >> \in Branches \X {0} /\ First \in Line[<< b, 0 >>[1]]
        BY <3>1
      <3> QED
        BY <1>1, <3>2
    <2>2. PICK b \in Branches : commit = << b, 0 >>
      BY <2>1
    <2> QED
      BY <2>2, ReleaseAssumption DEF Commits, Nothing
  <1>3. First \in Versions /\ First \in Nat \ {None}
    BY ReleaseAssumption
  <1>4. /\ hasty = 0 /\ head = [b \in Branches |-> 0]
        /\ drafts = [v \in Versions |-> IF v = First THEN << commit >> ELSE <<>>]
        /\ released = [v \in Versions |-> IF v = First THEN commit ELSE Nothing]
        /\ task = [v \in Versions |->
                     IF v = First THEN << [at |-> "done", left |-> {}] >> ELSE <<>>]
        /\ forced = {} /\ failures = 0 /\ cta = [at |-> "off", feed |-> NoFeed]
    BY <1>1 DEF Init
  <1>5. pub = [v \in Versions |-> [Idle EXCEPT !.at = IF v = First THEN "done" ELSE "off"]]
    BY DEF Init
  <1>6. /\ center = [v \in Versions |-> [k \in Variants |-> IF v = First THEN 1 ELSE None]]
        /\ submitted = center /\ feed = center
        /\ github = [v \in Versions |->
                       [state |-> IF v = First THEN "published" ELSE "none",
                        assets |-> [k \in Variants |-> IF v = First THEN 1 ELSE None]]]
    BY DEF Init
  <1>7. /\ available = {First} \X Variants /\ npm = {First}
        /\ config = [NoConfig EXCEPT ![Major(First)] = First]
    BY DEF Init
  <1>8. TagsOK
    <2>1. << commit >> \in Seq(Commits \ {Nothing}) /\ <<>> \in Seq(Commits \ {Nothing})
      BY <1>2
    <2>2. drafts \in [Versions -> Seq(Commits \ {Nothing})]
      BY <1>4, <2>1
    <2>3. \A v \in Versions : Len(drafts[v]) <= MaxDrafts[v]
      BY <1>4, ReleaseAssumption
    <2>4. released \in [Versions -> Commits]
      BY <1>2, <1>4 DEF Commits
    <2>5. hasty \in 0 .. MaxHasty /\ head \in [Branches -> Nat]
          /\ \A b \in Branches : head[b] <= MaxCommits[b]
      BY <1>4, ReleaseAssumption
    <2> QED
      BY <1>4, <2>2, <2>3, <2>4, <2>5 DEF TagsOK
  <1>9. \A v \in Versions :
          /\ pub[v] \in Publications /\ pub[v].at = IF v = First THEN "done" ELSE "off"
          /\ pub[v].hashes = NoPackages /\ pub[v].config = NoConfig /\ pub[v].feed = NoFeed
    <2> TAKE v \in Versions
    <2>1. PICK s : s = IF v = First THEN "done" ELSE "off"
      OBVIOUS
    <2>2. s \in PubStages
      BY ONLY <2>1 DEF PubStages
    <2>3. pub[v] = [Idle EXCEPT !.at = s]
      BY ONLY <1>5, <2>1, v \in Versions
    <2> QED
      BY ONLY <2>1, <2>2, <2>3, IdleAt
  <1>10. TasksOK
    <2>1. pub \in [Versions -> Publications]
      BY <1>5, <1>9
    <2>2. task \in [Versions -> Seq(Tasks)]
      <3>1. PICK t : t = [at |-> "done", left |-> {}]
        OBVIOUS
      <3>2. << t >> \in Seq(Tasks) /\ <<>> \in Seq(Tasks)
        BY <3>1 DEF Tasks
      <3> QED
        BY <1>4, <3>1, <3>2
    <2>3. \A v \in Versions : Len(task[v]) = Len(drafts[v])
      BY <1>4
    <2> QED
      BY <1>4, <2>1, <2>2, <2>3, Empty, ReleaseAssumption DEF TasksOK
  <1>11. center \in [Versions -> Packages]
    BY <1>6 DEF Packages, Drafts, None
  <1>12. UsersOK
    <2>1. config \in Configs
      BY <1>3, <1>7, Empty DEF Configs, Majors
    <2>2. github \in [Versions -> [state : {"none", "draft", "published"}, assets : Packages]]
      BY <1>6 DEF Packages, Drafts, None
    <2> QED
      BY <1>3, <1>6, <1>7, <1>11, <2>1, <2>2 DEF UsersOK, Feeds
  <1>13. NeverTurnedDown /\ QuietInv /\ UploadInv
    BY <1>2, <1>4, <1>6 DEF NeverTurnedDown, QuietInv, UploadInv, Tested
  <1>14. \A v \in Versions : v # First => center[v] = NoPackages
    BY <1>6 DEF NoPackages
  <1>15. Had(First)
    BY <1>3, <1>6, <1>7 DEF Had, None
  <1>16. FeedInv(feed)
    <2> SUFFICES ASSUME NEW v \in Versions, feed[v] # NoPackages
                 PROVE  /\ Had(v) /\ released[v] # Nothing
                        /\ \A k \in Variants : feed[v][k] = Last(v) /\ submitted[v][k] = Last(v)
      BY DEF FeedInv
    <2>1. v = First
      BY <1>6, <1>14
    <2> QED
      BY <1>2, <1>4, <1>6, <1>15, <2>1 DEF Last
  <1>17. ConfigInv(config)
    <2>1. \A m \in Majors : config[m] = IF m = Major(First) THEN First ELSE None
      BY <1>3, <1>7 DEF NoConfig, Majors
    <2>2. drafts[First] # <<>>
      BY <1>3, <1>4
    <2> QED
      BY <1>3, <1>15, <2>1, <2>2, ReleaseAssumption DEF ConfigInv, Majors
  <1>18. UserInv
    BY <1>3, <1>6, <1>7, <1>16, <1>17 DEF UserInv
  <1>19. FeedInv(cta.feed) /\ FeedInv(NoFeed) /\ ConfigInv(NoConfig)
    BY <1>4, Empty, ReleaseAssumption, ZenonT(60) DEF FeedInv, ConfigInv, Majors, None
  <1>20. ASSUME NEW v \in Versions
         PROVE  PubInv(v, pub[v])
    BY <1>2, <1>4, <1>9, <1>19, Empty
       DEF PubInv, SeenInv, SubmitInv, OrderInv, HashStages, ListStages, SubmitStages
  <1> QED
    BY <1>8, <1>10, <1>12, <1>13, <1>18, <1>19, <1>20 DEF IInv, TypeOK

\* Every step preserves the inductive invariant.
LEMMA NextIInv == IInv /\ [Next]_vars => IInv'
  <1> SUFFICES ASSUME IInv, [Next]_vars PROVE IInv'
    OBVIOUS
  <1>1. CASE UNCHANGED vars
    <2>1. Keeps
      BY <1>1 DEF Keeps, vars, tagVars, userVars
    <2>2. \A w \in Versions : PubInv(w, pub[w])'
      BY <1>1, <2>1, OthersKept DEF vars, tagVars, userVars, IInv, PubInv, OrderInv
    <2>3. UserInv' /\ FeedInv(cta.feed)'
      BY <1>1, <2>1, FeedKept, ConfigKept DEF vars, tagVars, userVars, IInv, UserInv
    <2> QED
      BY <1>1, <2>2, <2>3 DEF vars, tagVars, userVars, IInv, TypeOK, TagsOK, TasksOK,
         UsersOK, NeverTurnedDown, QuietInv, UploadInv, Tested
  <1>2. CASE (\E b \in Branches : triggerReleaseDraft(b)) \/ triggerReleasePublish
    BY <1>2, triggerReleaseDraftIInv, triggerReleasePublishIInv
  <1>3. ASSUME NEW v \in Versions, PublishTask(v)
        PROVE  IInv'
    BY <1>3, ListPackageIInv, SubmitIInv, BecomesAvailableIInv, ListedIInv, CheckIInv,
       AvailableIInv, ReadConfigIInv, ReadFeedIInv, WriteConfigIInv, WriteFeedIInv,
       PromoteIInv, PublishToNpmIInv, PublishFailsIInv, PublishRestartsIInv
       DEF PublishTask
  <1>4. ASSUME NEW v \in Versions, NEW i \in 1 .. MaxDrafts[v], DraftTask(v, i)
        PROVE  IInv'
    BY <1>4, DraftStartsIInv, DraftFailsIInv, DraftRestartsIInv, DraftUploadsIInv
       DEF DraftTask
  <1>5. CASE ReadForCTA \/ WriteForCTA
    BY <1>5, ReadForCTAIInv, WriteForCTAIInv
  <1> QED
    BY <1>1, <1>2, <1>3, <1>4, <1>5 DEF Next

\* The inductive invariant holds in every reachable state.
LEMMA IInvCorrect == Spec => []IInv
  BY InitIInv, NextIInv, PTL DEF Spec

\* Type correctness.
THEOREM ReleaseTypeCorrect == Spec => []TypeOK
  <1>1. IInv => TypeOK
    BY DEF IInv
  <1> QED
    BY <1>1, IInvCorrect, PTL

\* The check of publish() never turns down what has been tagged.
THEOREM NeverTurnedDownCorrect == Spec => []NeverTurnedDown
  <1>1. IInv => NeverTurnedDown
    BY DEF IInv
  <1> QED
    BY <1>1, IInvCorrect, PTL

\* Whatever the download center lists can be had, and what is on npm has been
\* released on GitHub: a publication lists only what it has seen, and what is
\* written back from a stale copy of the feed or of the configuration was there
\* when it was copied and does not go away.
THEOREM ListedIsAvailableCorrect == Spec => []ListedIsAvailable
  <1>1. IInv => ListedIsAvailable
    BY DEF IInv, UserInv, FeedInv, ConfigInv, Had, ListedIsAvailable, InFeed, TypeOK, UsersOK
  <1> QED
    BY <1>1, IInvCorrect, PTL

\* A release that was tested by people who waited for the tasks is of its last
\* draft in all the places where its packages are: when it is tagged the task of
\* that draft has succeeded, and none of its tasks runs any more.
THEOREM FromLastDraftCorrect == Spec => []FromLastDraft
  <1>1. ASSUME IInv
        PROVE  FromLastDraft
    <2> SUFFICES ASSUME hasty = 0, NEW v \in Versions \ forced, InFeed(v), NEW k \in Variants
                 PROVE  {feed[v][k], center[v][k], submitted[v][k], github[v].assets[k]}
                          = {Len(drafts[v])}
      BY DEF FromLastDraft
    <2>1. /\ Tested(v)
          /\ feed[v][k] = Last(v) /\ submitted[v][k] = Last(v)
      BY <1>1 DEF IInv, UserInv, FeedInv, InFeed, Tested
    <2>2. center[v][k] = Last(v) /\ github[v].assets[k] = Last(v)
      BY <1>1, <2>1, TestedUploaded
    <2> QED
      BY <2>1, <2>2 DEF Last
  <1> QED
    BY <1>1, IInvCorrect, PTL

\* What the download center offers for a major never goes back to an older
\* version, if people wait: there is one publication at a time, of the highest
\* version there is.
THEOREM OffersNoOlderCorrect == Spec => OffersNoOlder
  <1>1. ASSUME IInv, [Next]_vars
        PROVE  hasty = 0 => \A m \in Majors : config'[m] >= config[m]
    <2> SUFFICES ASSUME hasty = 0, NEW m \in Majors
                 PROVE  config'[m] >= config[m]
      OBVIOUS
    <2>1. config[m] \in Nat /\ config \in Configs
      <3>1. config \in Configs
        BY <1>1 DEF IInv, TypeOK, UsersOK
      <3>2. config[m] \in Versions \cup {None}
        BY ONLY <3>1, m \in Majors DEF Configs
      <3>3. Versions \subseteq Nat
        BY ReleaseAssumption
      <3>4. None \in Nat
        BY DEF None
      <3>5. config[m] \in Nat
        BY <3>2, <3>3, <3>4
      <3> QED
        BY <3>1, <3>5
    <2>2. CASE config' = config
      BY ONLY <2>1, <2>2
    <2>3. ASSUME NEW v \in Versions, WriteConfig(v)
          PROVE  config'[m] >= config[m]
      <3>1. PubInv(v, pub[v]) /\ pub[v].at = "writing config"
        BY <1>1, <2>3 DEF IInv, WriteConfig, Goes
      <3>2. config' = [config EXCEPT ![Major(v)] = v]
        BY <2>3, <3>1 DEF PubInv, OrderInv, WriteConfig
      <3>3. config[m] # None => config[m] <= v
        BY <1>1, <3>1 DEF IInv, UserInv, ConfigInv, PubInv, OrderInv
      <3>4. v \in Nat
        BY ReleaseAssumption
      <3> QED
        BY <2>1, <3>2, <3>3, <3>4 DEF Configs, None
    <2>4. CASE UNCHANGED vars \/ triggerReleasePublish \/ ReadForCTA \/ WriteForCTA
      BY <2>1, <2>4 DEF vars, userVars, triggerReleasePublish, ReadForCTA, WriteForCTA
    <2>5. CASE \E b \in Branches : triggerReleaseDraft(b)
      BY <2>1, <2>5 DEF triggerReleaseDraft, userVars
    <2>6. CASE \E v \in Versions : PublishTask(v)
      <3>1. PICK v \in Versions : PublishTask(v)
        BY ONLY <2>6
      <3>2. CASE WriteConfig(v)
        BY ONLY <2>3, <3>2
      <3>3. CASE ~WriteConfig(v)
        <4>1. config' = config
          BY ONLY <3>1, <3>3 DEF PublishTask, userVars, ListPackage, Listed, Check, Submit,
             BecomesAvailable, Available, ReadConfig, ReadFeed, WriteFeed, Promote, PublishToNpm,
             PublishFails, PublishRestarts
        <4> QED
          BY ONLY <2>2, <4>1
      <3> QED
        BY ONLY <3>2, <3>3
    <2>7. CASE \E v \in Versions : \E i \in 1 .. MaxDrafts[v] : DraftTask(v, i)
      <3>1. PICK v \in Versions : \E i \in 1 .. MaxDrafts[v] : DraftTask(v, i)
        BY <2>7
      <3>2. PICK i \in 1 .. MaxDrafts[v] : DraftTask(v, i)
        BY <3>1
      <3>3. CASE DraftStarts(v, i)
        BY <2>2, <3>3 DEF DraftStarts
      <3>4. CASE DraftFails(v, i) \/ DraftRestarts(v, i)
        BY <2>2, <3>4 DEF DraftFails, DraftRestarts, userVars
      <3>5. ASSUME NEW k \in Variants, NEW place \in Places, DraftUploads(v, i, k, place)
            PROVE  config' = config
        BY <3>5 DEF DraftUploads
      <3> QED
        BY <2>2, <3>2, <3>3, <3>4, <3>5 DEF DraftTask
    <2> QED
      BY <1>1, <2>4, <2>5, <2>6, <2>7 DEF Next
  <1> QED
    BY <1>1, IInvCorrect, PTL DEF Spec, OffersNoOlder
=============================================================================
