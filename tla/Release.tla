-------------------------------- MODULE Release --------------------------------
(***************************************************************************)
(* How mongosh is released (packages/build).  A person tags drafts of a    *)
(* version and then its release; every tag starts tasks on Evergreen.  The *)
(* task of a draft uploads the packages to the download center and to a    *)
(* release on GitHub, where the drafts of a version overwrite each other.  *)
(* The task of a release builds nothing: it hashes the packages that are in*)
(* the download center, submits those of the last draft to the package     *)
(* repositories, and lists the version in the configuration and the feed of*)
(* the download center, which it reads, changes and writes back; another   *)
(* workflow does the same to the feed.  Tasks overlap, fail at every step, *)
(* and are restarted.                                                      *)
(*                                                                         *)
(* Version a.b.c is the number 100 a + 10 b + c, and v-draft.i is the      *)
(* (i + 1)-st draft of v; packages are told apart by the draft they are    *)
(* from.  Calls to action and other data of the two files are left out, and*)
(* so are dry runs, which write nothing.                                   *)
(***************************************************************************)
EXTENDS Integers, Sequences, FiniteSetsExt

CONSTANTS
  Versions,  \* the versions there can be
  First,     \* the one that is released at the start, as the tools require
  Branches,  \* main, and release branches
  Line,      \* Line[b]: the versions a release branch is for; on main, all
  Variants,  \* package variants are uploaded in the order of their numbers
  MaxDrafts, MaxCommits,  \* bounds: drafts of each version, commits on a branch,
  MaxFailures, MaxHasty   \* failures of tasks, how often nobody waits for them

Major(v) == v \div 100
Majors == {Major(v) : v \in Versions}

None == 0      \* no version, no draft
Nothing == <<>>  \* no commit

\* Versions can be ordered, and the main branch is for all of them.
ASSUME ReleaseAssumption ==
  /\ Versions \subseteq Nat \ {None} /\ IsFiniteSet(Versions) /\ First \in Versions
  /\ Line \in [Branches -> SUBSET Versions] /\ \E b \in Branches : Line[b] = Versions
  /\ Variants \subseteq Nat /\ MaxDrafts \in [Versions -> Nat \ {0}]
  /\ MaxCommits \in [Branches -> Nat] /\ MaxFailures \in Nat /\ MaxHasty \in Nat

VARIABLES
  hasty,     \* how often tasks were not waited for, against the README
  head,      \* head[b]: the commit of branch b that was tagged last
  drafts,    \* drafts[v]: the commits tagged as drafts of v, in order
  released,  \* released[v]: the commit tagged as v, or Nothing
  forced,    \* versions released though tasks of their draft had not succeeded
  task,      \* task[v][i]: the tasks of a draft
  pub,       \* pub[v]: the task that publishes v
  failures,  \* how many tasks have failed
  center,    \* center[v][k]: the draft whose package is at the public URL
  github,    \* the release of v on GitHub and its assets
  submitted, \* submitted[v][k]: the draft whose package Barque was given
  available, \* <<v, k>>: the package repositories have it
  config,    \* config[m]: the version the download center offers for a major
  feed,      \* feed[v]: the hashes listed for v, by the draft they are of
  npm,       \* versions published to npm
  cta        \* the workflow that rewrites the feed, and the feed it has read

tagVars  == << head, drafts, released, forced >>
userVars == << center, github, submitted, available, config, feed, npm >>
vars == << hasty, tagVars, task, pub, failures, userVars, cta >>

Places == {"center", "github"}
Drafts == Nat
Packages == [Variants -> Drafts]
NoPackages == [k \in Variants |-> None]
Feeds == [Versions -> Packages]
Configs == [Majors -> Versions \cup {None}]
Commits == {Nothing} \cup UNION {{b} \X (0 .. MaxCommits[b]) : b \in Branches}

PubStages == {"off", "listing", "checking", "submitting", "waiting",
              "config", "feed", "writing config", "writing feed", "promoting",
              "npm", "done", "failed"}

Tasks == [at : {"building", "uploading", "done", "failed"},
          left : SUBSET (Variants \X Places)]
Publications == [at : PubStages, hashes : Packages, draft : Drafts,
                 left : SUBSET Variants, config : Configs, feed : Feeds]

TagsOK ==
  /\ hasty \in 0 .. MaxHasty
  /\ head \in [Branches -> Nat] /\ \A b \in Branches : head[b] <= MaxCommits[b]
  /\ drafts \in [Versions -> Seq(Commits \ {Nothing})]
  /\ \A v \in Versions : Len(drafts[v]) <= MaxDrafts[v]
  /\ released \in [Versions -> Commits] /\ forced \subseteq Versions

TasksOK ==
  /\ task \in [Versions -> Seq(Tasks)]
  /\ \A v \in Versions : Len(task[v]) = Len(drafts[v])
  /\ pub \in [Versions -> Publications]
  /\ failures \in 0 .. MaxFailures
  /\ cta \in [at : {"off", "read"}, feed : Feeds]

UsersOK ==
  /\ center \in [Versions -> Packages] /\ submitted \in [Versions -> Packages]
  /\ github \in [Versions -> [state : {"none", "draft", "published"}, assets : Packages]]
  /\ available \subseteq Versions \X Variants
  /\ config \in Configs /\ feed \in Feeds /\ npm \subseteq Versions

TypeOK == TagsOK /\ TasksOK /\ UsersOK

NoFeed == [v \in Versions |-> NoPackages]
NoConfig == [m \in Majors |-> None]
Idle == [at |-> "off", hashes |-> NoPackages, draft |-> None, left |-> {},
         config |-> NoConfig, feed |-> NoFeed]

\* First has been released from its only draft.
Init ==
  /\ hasty = 0 /\ head = [b \in Branches |-> 0]
  /\ LET commit == CHOOSE c \in Branches \X {0} : First \in Line[c[1]]
         of(v, x, y) == IF v = First THEN x ELSE y
         packages == [v \in Versions |-> [k \in Variants |-> of(v, 1, None)]]
     IN /\ drafts = [v \in Versions |-> of(v, << commit >>, <<>>)]
        /\ released = [v \in Versions |-> of(v, commit, Nothing)]
        /\ task = [v \in Versions |-> of(v, << [at |-> "done", left |-> {}] >>, <<>>)]
        /\ pub = [v \in Versions |-> [Idle EXCEPT !.at = of(v, "done", "off")]]
        /\ center = packages /\ submitted = packages /\ feed = packages
        /\ github = [v \in Versions |->
             [state |-> of(v, "published", "none"), assets |-> packages[v]]]
  /\ available = {First} \X Variants
  /\ config = [NoConfig EXCEPT ![Major(First)] = First]
  /\ npm = {First} /\ forced = {} /\ failures = 0
  /\ cta = [at |-> "off", feed |-> NoFeed]
-----------------------------------------------------------------------------
(* trigger-release, run by a person on a branch.                            *)

\* getLatestDraftOrReleaseTagFromLog(): the highest version among some that has
\* a tag.  A release comes after the drafts of its version.
Latest(some) ==
  LET tagged == {v \in some : drafts[v] # <<>> \/ released[v] # Nothing}
  IN IF tagged = {} THEN None ELSE Max(tagged)

\* Faulty IsDraft: drafts are sorted after their release.
IsDraftAlways(v) == drafts[v] # <<>>

\* The latest tag is a draft's if its version has not been released.
IsDraft(v) == released[v] = Nothing

\* The versions to go on to: the next patch, minor and major one.
Bumped(v) == {v + 1, (v \div 10) * 10 + 10, Major(v) * 100 + 100}

\* "Wait for Evergreen to finish" (README.md:34 and :40 of packages/build).
Waited ==
  /\ \A v \in Versions : \A i \in DOMAIN task[v] : task[v][i].at \in {"done", "failed"}
  /\ \A v \in Versions : pub[v].at \in {"off", "done"}

\* A person may also not wait.
Waits ==
  IF Waited THEN UNCHANGED hasty ELSE hasty < MaxHasty /\ hasty' = hasty + 1

\* A tag is created and pushed.  git refuses to create it again.
TagDraft(v, commit) ==
  /\ Len(drafts[v]) < MaxDrafts[v]
  /\ drafts' = [drafts EXCEPT ![v] = Append(@, commit)]
  /\ task' = [task EXCEPT ![v] = Append(@, [at |-> "building", left |-> Variants \X Places])]

\* Another draft of the latest version, or the first of the next one, at the end
\* of the branch, which may have new commits.  The person may overrule what is
\* proposed.
triggerReleaseDraft(b) ==
  /\ Waits
  /\ \E n \in head[b] .. MaxCommits[b] :
       /\ head' = [head EXCEPT ![b] = n]
       /\ LET v == Latest(Line[b])
          IN /\ v # None
             /\ \/ IsDraft(v) /\ TagDraft(v, << b, n >>)
                \/ \E w \in Bumped(v) \cap Versions :
                     drafts[w] = <<>> /\ TagDraft(w, << b, n >>)
  /\ UNCHANGED << released, forced, pub, failures, userVars, cta >>

\* Faulty Succeeded: nobody looks.
SucceededUnseen(v) == TRUE

\* verifyEvergreenStatus(): the person may go on in spite of it.
Succeeded(v) == task[v][Len(task[v])].at = "done"

\* Faulty Publishable: the latest tag of a release branch, on that branch.
PublishableOfBranch == {Latest(Line[b]) : b \in Branches}

\* The latest tag of all is looked at, whatever the branch.
Publishable == {Latest(Versions)}

\* If it is of a draft, its commit is tagged as the release.
triggerReleasePublish ==
  /\ Waits
  /\ \E v \in Publishable \ {None} :
       /\ IsDraft(v)
       /\ released' = [released EXCEPT ![v] = drafts[v][Len(drafts[v])]]
       /\ forced' = IF Succeeded(v) THEN forced ELSE forced \cup {v}
       /\ pub' = [pub EXCEPT ![v] = [Idle EXCEPT !.at = "listing"]]
  /\ UNCHANGED << head, drafts, task, failures, userVars, cta >>
-----------------------------------------------------------------------------
(* The tasks of draft i of v.                                               *)

Draft(v, i, at) == i \in DOMAIN task[v] /\ task[v][i].at = at

\* The packages are built, tested and uploaded under the name of the tag
\* (runUpload()), and runDraft() ensures that there is a release on GitHub.
DraftStarts(v, i) ==
  /\ Draft(v, i, "building")
  /\ task' = [task EXCEPT ![v][i].at = "uploading"]
  /\ github' = [github EXCEPT ![v].state = IF @ = "none" THEN "draft" ELSE @]
  /\ UNCHANGED << hasty, tagVars, pub, failures, center, submitted, available, config,
                  feed, npm, cta >>

\* One upload of a variant ends, and the task with the last.  The two of a variant
\* are under way at once; a variant begins after those before it.
DraftUploads(v, i, k, place) ==
  /\ Draft(v, i, "uploading") /\ << k, place >> \in task[v][i].left
  /\ \A upload \in task[v][i].left : upload[1] >= k
  /\ LET left == task[v][i].left \ {<< k, place >>}
     IN task' = [task EXCEPT ![v][i] =
          [at |-> IF left = {} THEN "done" ELSE "uploading", left |-> left]]
  /\ IF place = "center"
     THEN center' = [center EXCEPT ![v][k] = i] /\ UNCHANGED github
     ELSE github' = [github EXCEPT ![v].assets[k] = i] /\ UNCHANGED center
  /\ UNCHANGED << hasty, tagVars, pub, failures, submitted, available, config, feed, npm,
                  cta >>

DraftFails(v, i) ==
  /\ Draft(v, i, "building") \/ Draft(v, i, "uploading")
  /\ failures < MaxFailures /\ failures' = failures + 1
  /\ task' = [task EXCEPT ![v][i] = [at |-> "failed", left |-> {}]]
  /\ UNCHANGED << hasty, tagVars, pub, userVars, cta >>

\* A failed task is run again: of the last draft before it is released, or in
\* the way of later tasks.
DraftRestarts(v, i) ==
  /\ Draft(v, i, "failed")
  /\ IF i = Len(task[v]) /\ released[v] = Nothing THEN UNCHANGED hasty
     ELSE hasty < MaxHasty /\ hasty' = hasty + 1
  /\ task' = [task EXCEPT ![v][i] = [at |-> "building", left |-> Variants \X Places]]
  /\ UNCHANGED << tagVars, pub, failures, userVars, cta >>

DraftTask(v, i) ==
  \/ DraftStarts(v, i) \/ DraftFails(v, i) \/ DraftRestarts(v, i)
  \/ \E k \in Variants, place \in Places : DraftUploads(v, i, k, place)
-----------------------------------------------------------------------------
(* The task that publishes v.                                               *)

Goes(v, from, to) == pub[v].at = from /\ pub' = [pub EXCEPT ![v].at = to]

\* runDownloadAndListArtifacts(): one package is downloaded and hashed, if it
\* is there.  All are under way at once.
ListPackage(v, k) ==
  /\ pub[v].at = "listing" /\ pub[v].hashes[k] = None /\ center[v][k] # None
  /\ pub' = [pub EXCEPT ![v].hashes[k] = center[v][k]]
  /\ UNCHANGED << hasty, tagVars, task, failures, userVars, cta >>

Listed(v) ==
  /\ Goes(v, "listing", "checking") /\ \A k \in Variants : pub[v].hashes[k] # None
  /\ UNCHANGED << hasty, tagVars, task, failures, userVars, cta >>

\* publish() checks that the last draft is of the commit being released, and
\* pushes tags for the versions of the packages.
Check(v) ==
  /\ pub[v].at = "checking" /\ drafts[v] # <<>>
  /\ drafts[v][Len(drafts[v])] = released[v]
  /\ pub' = [pub EXCEPT ![v].at = "submitting", ![v].left = Variants,
                        ![v].draft = Len(drafts[v])]
  /\ UNCHANGED << hasty, tagVars, task, failures, userVars, cta >>

\* releaseToBarque(): the package of the draft, from where it was built.
Submit(v, k) ==
  /\ pub[v].at = "submitting" /\ k \in pub[v].left /\ \A j \in pub[v].left : j >= k
  /\ submitted' = [submitted EXCEPT ![v][k] = pub[v].draft]
  /\ pub' = [pub EXCEPT ![v].left = @ \ {k},
                        ![v].at = IF @ = "submitting" /\ pub[v].left = {k} THEN "waiting" ELSE @]
  /\ UNCHANGED << hasty, tagVars, task, failures, center, github, available, config, feed,
                  npm, cta >>

\* A package gets into the repositories.
BecomesAvailable(v, k) ==
  /\ submitted[v][k] # None /\ << v, k >> \notin available
  /\ available' = available \cup {<< v, k >>}
  /\ UNCHANGED << hasty, tagVars, task, pub, failures, center, github, submitted, config,
                  feed, npm, cta >>

\* Faulty Available: the packages are not waited for.
AvailableSoon(v) ==
  /\ Goes(v, "waiting", "config")
  /\ UNCHANGED << hasty, tagVars, task, failures, userVars, cta >>

\* waitUntilPackagesAreAvailable() has seen all; it fails when that takes long.
Available(v) ==
  /\ Goes(v, "waiting", "config") /\ {v} \X Variants \subseteq available
  /\ UNCHANGED << hasty, tagVars, task, failures, userVars, cta >>

\* createAndPublishDownloadCenterConfig() reads the configuration ...
ReadConfig(v) ==
  /\ pub[v].at = "config"
  /\ pub' = [pub EXCEPT ![v].at = "feed", ![v].config = config]
  /\ UNCHANGED << hasty, tagVars, task, failures, userVars, cta >>

\* ... and the feed ...
ReadFeed(v) ==
  /\ pub[v].at = "feed"
  /\ pub' = [pub EXCEPT ![v].at = "writing config", ![v].feed = feed]
  /\ UNCHANGED << hasty, tagVars, task, failures, userVars, cta >>

\* getUpdatedDownloadCenterConfig(): one version for each major.
WriteConfig(v) ==
  /\ Goes(v, "writing config", "writing feed")
  /\ config' = [pub[v].config EXCEPT ![Major(v)] = v]
  /\ UNCHANGED << hasty, tagVars, task, failures, center, github, submitted, available,
                  feed, npm, cta >>

\* mergeFeeds(): all versions, the new hashes for this one.
WriteFeed(v) ==
  /\ pub[v].at = "writing feed"
  /\ pub' = [pub EXCEPT ![v] = [Idle EXCEPT !.at = "promoting"]]
  /\ feed' = [pub[v].feed EXCEPT ![v] = pub[v].hashes]
  /\ UNCHANGED << hasty, tagVars, task, failures, center, github, submitted, available,
                  config, npm, cta >>

\* promoteRelease().  There is a release unless the draft's task never came so
\* far.
Promote(v) ==
  /\ Goes(v, "promoting", "npm") /\ github[v].state # "none"
  /\ github' = [github EXCEPT ![v].state = "published"]
  /\ UNCHANGED << hasty, tagVars, task, failures, center, submitted, available, config,
                  feed, npm, cta >>

\* publishToNpm(), of what npm does not have yet.
PublishToNpm(v) ==
  /\ Goes(v, "npm", "done") /\ npm' = npm \cup {v}
  /\ UNCHANGED << hasty, tagVars, task, failures, center, github, submitted, available,
                  config, feed, cta >>

PublishFails(v) ==
  /\ pub[v].at \notin {"off", "done", "failed"}
  /\ pub' = [pub EXCEPT ![v] = [Idle EXCEPT !.at = "failed"]]
  /\ failures < MaxFailures /\ failures' = failures + 1
  /\ UNCHANGED << hasty, tagVars, task, userVars, cta >>

\* The task is run again, from its start and on another host.
PublishRestarts(v) ==
  /\ pub[v].at = "failed"
  /\ pub' = [pub EXCEPT ![v] = [Idle EXCEPT !.at = "listing"]]
  /\ UNCHANGED << hasty, tagVars, task, failures, userVars, cta >>

PublishTask(v) ==
  \/ \E k \in Variants : ListPackage(v, k) \/ Submit(v, k) \/ BecomesAvailable(v, k)
  \/ Listed(v) \/ Check(v) \/ Available(v)
  \/ ReadConfig(v) \/ ReadFeed(v) \/ WriteConfig(v) \/ WriteFeed(v)
  \/ Promote(v) \/ PublishToNpm(v) \/ PublishFails(v) \/ PublishRestarts(v)
-----------------------------------------------------------------------------
(* updateJsonFeedCTA(), in a workflow of its own.                           *)

ReadForCTA ==
  /\ cta.at = "off" /\ cta' = [at |-> "read", feed |-> feed]
  /\ UNCHANGED << hasty, tagVars, task, pub, failures, userVars >>

WriteForCTA ==
  /\ cta.at = "read" /\ cta' = [at |-> "off", feed |-> NoFeed]
  /\ feed' = cta.feed
  /\ UNCHANGED << hasty, tagVars, task, pub, failures, center, github, submitted,
                  available, config, npm >>

Next ==
  \/ \E b \in Branches : triggerReleaseDraft(b)
  \/ triggerReleasePublish
  \/ \E v \in Versions : PublishTask(v) \/ \E i \in 1 .. MaxDrafts[v] : DraftTask(v, i)
  \/ ReadForCTA \/ WriteForCTA

Spec == Init /\ [][Next]_vars

\* For who releases what has been tested: the person publishes when it is
\* possible, and tasks go on and are restarted.
Fairness ==
  /\ WF_vars(triggerReleasePublish)
  /\ \A v \in Versions :
       /\ WF_vars(PublishTask(v))
       /\ \A i \in 1 .. MaxDrafts[v] : WF_vars(DraftTask(v, i))
-----------------------------------------------------------------------------
(* Properties.                                                             *)

InFeed(v) == feed[v] # NoPackages

\* Whatever the download center lists, in its configuration or in its feed, can
\* be had: every package is at its public URL and in the package repositories,
\* and a version on npm is released on GitHub, through failures at every step
\* and however tasks overlap (publish-mongosh.ts:88-154).
ListedIsAvailable ==
  \A v \in Versions :
    /\ v = config[Major(v)] \/ InFeed(v) =>
         /\ \A k \in Variants : center[v][k] # None
         /\ {v} \X Variants \subseteq available
    /\ v \in npm => github[v].state = "published"

\* "The automated release process for publication of a release will re-use the
\* compiled binaries and packages that were created in the most recent draft
\* tag" (packages/build/README.md:69).  The hashes in the feed, the packages at
\* the public URLs, those in the repositories and those on GitHub are all of the
\* last draft, if tasks were waited for and had succeeded; though they come to
\* these places by tasks of several drafts, and the publication looks at two.
FromLastDraft ==
  hasty = 0 =>
    \A v \in Versions \ forced : InFeed(v) =>
      \A k \in Variants :
        {feed[v][k], center[v][k], submitted[v][k], github[v].assets[k]} = {Len(drafts[v])}

\* The check of publish() (publish-mongosh.ts:113-117) never turns down what the
\* tools have tagged: once a version is released there are no new drafts of it,
\* so that a publication that fails can always be run again.
NeverTurnedDown ==
  \A v \in Versions : released[v] # Nothing =>
    drafts[v] # <<>> /\ drafts[v][Len(drafts[v])] = released[v]

\* What the download center offers for a major never goes back to an older
\* version, if tasks were waited for, though the entry is replaced without a
\* look at it (config.ts:195-203).
OffersNoOlder == [][hasty = 0 => \A m \in Majors : config'[m] >= config[m]]_vars

\* A patch release that is due: "when we need to fix an issue for an already
\* published, already superseeded release" (packages/build/README.md:47), drafted
\* on a release branch.
PatchDrafted(v) ==
  /\ \E w \in Versions : w > v /\ released[w] # Nothing
  /\ \E i \in DOMAIN drafts[v] : Line[drafts[v][i][1]] # Versions

\* "Patch releases are created from release branches" (same line): one that has
\* been drafted can be released with the tools (trigger-release-publish.ts:20-31).
PatchReleased == \A v \in Versions : PatchDrafted(v) ~> released[v] # Nothing
=============================================================================
