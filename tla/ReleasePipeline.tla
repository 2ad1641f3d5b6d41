--------------------------- MODULE ReleasePipeline ---------------------------
(***************************************************************************)
(* The release workflow.  A tag v1.2.3 starts it: after the CI gate a job  *)
(* publishes the three crates to the registry in dependency order, waiting *)
(* between them until the registry's index shows the crate before, and a   *)
(* last job creates the GitHub release.  Any step may fail, failed jobs    *)
(* may be run again, and nothing keeps the workflows of two tags from      *)
(* running at the same time.                                               *)
(*                                                                         *)
(* The registry is modelled from what the workflow relies on: a version is *)
(* published once, it appears in the index some time later, cargo publish  *)
(* finds its dependencies there, and cargo search --limit 1 prints the     *)
(* greatest version that is there.                                         *)
(***************************************************************************)
EXTENDS Naturals

CONSTANTS
  Version,   \* the versions, in their order, and so the tags
  Breaking,  \* those that begin a new series of compatible versions
  MaxPolls   \* the polls of a wait

ASSUME ReleaseAssumption ==
  Version \subseteq Nat /\ Breaking \subseteq Version /\ MaxPolls \in Nat

\* The crates in the order of their publication: outbox-publisher-derive,
\* outbox-publisher, which depends on it, and outbox-publisher-sqlx.
Crate == 1..3

VARIABLES
  manifest,  \* workspace.package.version in the commit of each tag
  required,  \* the version that commit writes beside its crates' paths
  stage,     \* where each tag's workflow is
  crate,     \* the crate it is publishing or waiting for
  polls,     \* the polls its wait has made
  registry,  \* the <<crate, version>> pairs that were published
  index,     \* those that the index shows
  releases   \* the tags with a GitHub release

sources == <<manifest, required>>
vars    == <<sources, stage, crate, polls, registry, index, releases>>

Running == {"ci", "assert", "dry run", "publish", "wait", "github"}
Failed  == {"ci failed", "publish failed", "github failed"}
Stage   == {"untagged", "released"} \cup Running \cup Failed

-----------------------------------------------------------------------------
(* The steps of the workflow of tag v *)

Goto(v, next) == stage' = [stage EXCEPT ![v] = next]

PushTag(v) ==
  /\ stage[v] = "untagged"
  /\ Goto(v, "ci")
  /\ UNCHANGED <<sources, crate, polls, registry, index, releases>>

\* What a requirement "1.2.3" of a manifest means to cargo: this version or a
\* later one of its series.
Admits(requirement, version) ==
  /\ requirement <= version
  /\ \A b \in Breaking : ~ (requirement < b /\ b <= version)

\* cargo builds the crates with each other, by path, if their own version is one
\* that they require.
CiPasses(v) ==
  /\ stage[v] = "ci"
  /\ Admits(required[v], manifest[v])
  /\ Goto(v, "assert")
  /\ UNCHANGED <<sources, crate, polls, registry, index, releases>>

\* Mutant: the workflow takes the tag's word for the version.
AssertVersion_Skipped(v) ==
  /\ stage[v] = "assert"
  /\ Goto(v, "dry run")
  /\ UNCHANGED <<sources, crate, polls, registry, index, releases>>

\* The version in the manifest must be the tag's.
AssertVersion(v) ==
  /\ stage[v] = "assert"
  /\ Goto(v, IF manifest[v] = v THEN "dry run" ELSE "publish failed")
  /\ UNCHANGED <<sources, crate, polls, registry, index, releases>>

DryRun(v) ==
  /\ stage[v] = "dry run"
  /\ Goto(v, "publish")
  /\ crate' = [crate EXCEPT ![v] = 1]
  /\ UNCHANGED <<sources, polls, registry, index, releases>>

\* cargo publish finds the crate before this one in the index, in a version
\* that the manifest's requirement admits.
Resolves(v) ==
  \/ crate[v] = 1
  \/ \E w \in Version : /\ <<crate[v] - 1, w>> \in index
                         /\ Admits(required[v], w)

\* Mutant: a version that is there already is taken for published.
Publish_Idempotent(v) ==
  /\ stage[v] = "publish"
  /\ Resolves(v)
  /\ registry' = registry \cup {<<crate[v], manifest[v]>>}
  /\ Goto(v, IF crate[v] = 3 THEN "github" ELSE "wait")
  /\ polls' = [polls EXCEPT ![v] = 0]
  /\ UNCHANGED <<sources, crate, index, releases>>

\* A crate is uploaded.  The step fails all the same if the answer is lost.
Publish(v) ==
  /\ stage[v] = "publish"
  /\ Resolves(v)
  /\ <<crate[v], manifest[v]>> \notin registry
  /\ registry' = registry \cup {<<crate[v], manifest[v]>>}
  /\ \/ Goto(v, IF crate[v] = 3 THEN "github" ELSE "wait")
     \/ Goto(v, "publish failed")
  /\ polls' = [polls EXCEPT ![v] = 0]
  /\ UNCHANGED <<sources, crate, index, releases>>

\* cargo search prints this version of the crate.
Found(c, v) ==
  <<c, v>> \in index /\ \A w \in Version : <<c, w>> \in index => w <= v

\* The index shows the crate: on to the next.
PollFinds(v) ==
  /\ stage[v] = "wait"
  /\ polls[v] < MaxPolls
  /\ Found(crate[v], v)
  /\ Goto(v, "publish")
  /\ crate' = [crate EXCEPT ![v] = @ + 1]
  /\ UNCHANGED <<sources, polls, registry, index, releases>>

\* Mutant: the loop makes one poll too many.
PollMisses_OffByOne(v) ==
  /\ stage[v] = "wait"
  /\ polls[v] <= MaxPolls
  /\ ~ Found(crate[v], v)
  /\ polls' = [polls EXCEPT ![v] = @ + 1]
  /\ UNCHANGED <<sources, stage, crate, registry, index, releases>>

\* Mutant: the loop starts again when it has ended.
PollMisses_Unbounded(v) ==
  /\ stage[v] = "wait"
  /\ ~ Found(crate[v], v)
  /\ polls' = [polls EXCEPT ![v] = (@ + 1) % (MaxPolls + 1)]
  /\ UNCHANGED <<sources, stage, crate, registry, index, releases>>

PollMisses(v) ==
  /\ stage[v] = "wait"
  /\ polls[v] < MaxPolls
  /\ ~ Found(crate[v], v)
  /\ polls' = [polls EXCEPT ![v] = @ + 1]
  /\ UNCHANGED <<sources, stage, crate, registry, index, releases>>

\* Mutant: the script ends without an error after its last poll.
WaitTimesOut_FallsThrough(v) ==
  /\ stage[v] = "wait"
  /\ polls[v] = MaxPolls
  /\ Goto(v, "publish")
  /\ crate' = [crate EXCEPT ![v] = @ + 1]
  /\ UNCHANGED <<sources, polls, registry, index, releases>>

WaitTimesOut(v) ==
  /\ stage[v] = "wait"
  /\ polls[v] = MaxPolls
  /\ Goto(v, "publish failed")
  /\ UNCHANGED <<sources, crate, polls, registry, index, releases>>

\* Mutant: the job needs the CI gate only.
GithubRelease_NeedsCi(v) ==
  /\ stage[v] \notin {"untagged", "ci", "ci failed", "released"}
  /\ releases' = releases \cup {v}
  /\ Goto(v, "released")
  /\ UNCHANGED <<sources, crate, polls, registry, index>>

GithubRelease(v) ==
  /\ stage[v] = "github"
  /\ releases' = releases \cup {v}
  /\ Goto(v, "released")
  /\ UNCHANGED <<sources, crate, polls, registry, index>>

\* The job that fails with a stage.
FailedJob(s) == CASE s = "ci"     -> "ci failed"
                  [] s = "github" -> "github failed"
                  [] OTHER        -> "publish failed"

\* A step fails: a test, the network, the registry's refusal of a version
\* that exists or of a dependency that it cannot find.
Fail(v) ==
  /\ stage[v] \in Running
  /\ Goto(v, FailedJob(stage[v]))
  /\ UNCHANGED <<sources, crate, polls, registry, index, releases>>

\* A step of the workflow.
Step(v) ==
  \/ CiPasses(v) \/ AssertVersion(v) \/ DryRun(v) \/ Publish(v)
  \/ PollFinds(v) \/ PollMisses(v) \/ WaitTimesOut(v) \/ GithubRelease(v)
  \/ Fail(v)

\* Someone runs the failed jobs again, each from its first step.
Rerun(v) ==
  /\ \/ stage[v] = "ci failed"      /\ Goto(v, "ci")
     \/ stage[v] = "publish failed" /\ Goto(v, "assert")
     \/ stage[v] = "github failed"  /\ Goto(v, "github")
  /\ UNCHANGED <<sources, crate, polls, registry, index, releases>>

\* The index catches up with a crate.
Propagate ==
  /\ \E entry \in registry \ index : index' = index \cup {entry}
  /\ UNCHANGED <<sources, stage, crate, polls, registry, releases>>

-----------------------------------------------------------------------------
Init ==
  /\ manifest \in [Version -> Version]
  /\ required \in [Version -> Version]
  /\ stage = [v \in Version |-> "untagged"]
  /\ crate = [v \in Version |-> 1]
  /\ polls = [v \in Version |-> 0]
  /\ registry = {}
  /\ index = {}
  /\ releases = {}

Next == Propagate \/ \E v \in Version : PushTag(v) \/ Step(v) \/ Rerun(v)

\* The runner executes a workflow that has been started.  Nobody need run a
\* failed job again, and the index need not catch up.
Spec == Init /\ [][Next]_vars /\ \A v \in Version : WF_vars(Step(v))

-----------------------------------------------------------------------------
(* Properties *)

TypeOK ==
  /\ manifest \in [Version -> Version]
  /\ required \in [Version -> Version]
  /\ stage \in [Version -> Stage]
  /\ crate \in [Version -> Crate]
  /\ polls \in [Version -> 0..MaxPolls]
  /\ index \subseteq registry
  /\ registry \subseteq Crate \X Version
  /\ releases \subseteq Version

\* A GitHub release names a version of which all three crates are published,
\* however many jobs failed and were run again before it.
ReleaseIsComplete ==
  \A v \in releases : \A c \in Crate : <<c, v>> \in registry

\* When a crate is published, the index has the one it depends on, in the
\* version of this release and not just in one that cargo would accept: its
\* users get the crates that were released together.
DependencyPropagated ==
  \A v \in Version : stage[v] = "publish" =>
    crate[v] = 1 \/ <<crate[v] - 1, manifest[v]>> \in index

\* A version is published from the commit of its own tag only: a mistagged
\* commit, under whose tag another version's sources would be published,
\* fails before a crate of it reaches the registry.
PublishedFromItsTag ==
  \A entry \in registry :
    /\ manifest[entry[2]] = entry[2]
    /\ stage[entry[2]] \notin {"untagged", "ci", "ci failed"}

\* The first crate of v is published, and its workflow is before that step.
Spent(v) == /\ <<1, manifest[v]>> \in registry
            /\ \/ stage[v] \in {"ci", "assert", "dry run", "ci failed",
                                "publish failed"}
               \/ stage[v] = "publish" /\ crate[v] = 1

\* A publish job that fails once its first crate is published can be run again
\* as often as one likes: the version is spent, and its other crates and its
\* release never come.
SpentForGood == [][\A v \in Version : Spent(v) => Spent(v)']_vars

\* Every workflow ends, released or failed, whatever the index does.
WorkflowEnds == \A v \in Version : stage[v] \in Running ~> stage[v] \notin Running

=============================================================================
