------------------------- MODULE ReleasePipelineProofs -------------------------
(***************************************************************************)
(* Theorems about ReleasePipeline, for any set of versions and any number  *)
(* of polls.                                                               *)
(***************************************************************************)
EXTENDS ReleasePipeline, TLAPS

-----------------------------------------------------------------------------
(* The inductive invariant *)

\* Past the assertion, the version of the manifest is the tag's.
Asserted ==
  \A v \in Version :
    stage[v] \in {"dry run", "publish", "wait", "github", "github failed",
                  "released"}
      => manifest[v] = v

\* A workflow publishes the crates one after the other.
InOrder ==
  \A v \in Version :
    /\ stage[v] = "wait" => crate[v] # 3
    /\ \A c \in Crate :
         \/ stage[v] = "publish" /\ c < crate[v]
         \/ stage[v] = "wait" /\ c <= crate[v]
         \/ stage[v] \in {"github", "github failed", "released"}
         => <<c, v>> \in registry

\* A release is the end of a workflow.
ReleasedEnds == \A v \in releases : stage[v] = "released"

IndInv ==
  /\ TypeOK
  /\ Asserted
  /\ InOrder
  /\ ReleasedEnds
  /\ DependencyPropagated
  /\ PublishedFromItsTag

-----------------------------------------------------------------------------
(* The steps *)

\* Where a step of the workflow of v leaves it, and the crate it is at.  Jobs
\* that fail, are run again, or have nothing to do with the registry are one
\* case: they move between the stages before the assertion.
Moves(v) ==
  \/ /\ stage[v] = "assert" /\ manifest[v] = v
     /\ stage'[v] = "dry run"
     /\ UNCHANGED <<crate, registry, releases>>
  \/ /\ stage[v] \in {"untagged", "ci", "ci failed", "assert", "dry run",
                      "publish", "wait", "publish failed"}
     /\ stage'[v] \in {"ci", "ci failed", "assert", "publish failed"}
     /\ stage[v] \notin {"untagged", "ci", "ci failed"} =>
          stage'[v] \in {"assert", "publish failed"}
     /\ UNCHANGED <<crate, registry, releases>>
  \/ /\ stage[v] \in {"github", "github failed"}
     /\ stage'[v] \in {"github", "github failed"}
     /\ UNCHANGED <<crate, registry, releases>>

\* A step of the workflow of v, by its effect.
LEMMA StepCases ==
  ASSUME TypeOK, NEW v \in Version, PushTag(v) \/ Step(v) \/ Rerun(v)
  PROVE  \/ Moves(v) \/ DryRun(v) \/ Publish(v) \/ PollFinds(v)
         \/ PollMisses(v) \/ GithubRelease(v)
<1>1. stage \in [Version -> Stage]
  BY DEF TypeOK
<1>2. CASE PushTag(v)
  BY <1>1, <1>2 DEF PushTag, Goto, Moves
<1>3. CASE CiPasses(v)
  BY <1>1, <1>3 DEF CiPasses, Goto, Moves
<1>4. CASE AssertVersion(v)
  <2>1. CASE manifest[v] = v
    BY <1>1, <1>4, <2>1 DEF AssertVersion, Goto, Moves
  <2>2. CASE manifest[v] # v
    BY <1>1, <1>4, <2>2 DEF AssertVersion, Goto, Moves
  <2> QED
    BY <2>1, <2>2
<1>5. CASE WaitTimesOut(v)
  BY <1>1, <1>5 DEF WaitTimesOut, Goto, Moves
<1>6. CASE Rerun(v)
  <2>1. CASE stage[v] = "github failed"
    BY <1>1, <1>6, <2>1 DEF Rerun, Goto, Moves
  <2>2. CASE stage[v] # "github failed"
    BY <1>1, <1>6, <2>2 DEF Rerun, Goto, Moves
  <2> QED
    BY <2>1, <2>2
<1>7. CASE Fail(v)
  <2>1. stage'[v] = FailedJob(stage[v]) /\ stage[v] \in Running
    BY <1>1, <1>7 DEF Fail, Goto
  <2>2. CASE stage[v] = "ci"
    BY <1>7, <2>1, <2>2 DEF Fail, FailedJob, Moves
  <2>3. CASE stage[v] = "github"
    BY <1>7, <2>1, <2>3 DEF Fail, FailedJob, Moves
  <2>4. CASE stage[v] \in {"assert", "dry run", "publish", "wait"}
    <3>1. FailedJob(stage[v]) = "publish failed"
      BY <2>4 DEF FailedJob
    <3> QED
      BY <1>7, <2>1, <2>4, <3>1 DEF Fail, Moves
  <2> QED
    BY <2>1, <2>2, <2>3, <2>4 DEF Running
<1> QED
  BY <1>2, <1>3, <1>4, <1>5, <1>6, <1>7 DEF Step

\* A step of the workflow of v leaves the others where they are.
LEMMA StepLocal ==
  ASSUME TypeOK, NEW v \in Version, PushTag(v) \/ Step(v) \/ Rerun(v)
  PROVE  /\ manifest' = manifest /\ required' = required /\ index' = index
         /\ \E next \in Stage : Goto(v, next) \/ UNCHANGED stage
         /\ \A u \in Version \ {v} : crate'[u] = crate[u]
<1> USE DEF TypeOK, Stage, Running, Failed, sources
<1>1. CASE PushTag(v) \/ CiPasses(v) \/ WaitTimesOut(v) \/ Rerun(v)
  BY <1>1 DEF PushTag, CiPasses, WaitTimesOut, Rerun
<1>2. CASE AssertVersion(v)
  BY <1>2 DEF AssertVersion
<1>3. CASE DryRun(v) \/ Publish(v)
  <2>1. \/ Goto(v, "publish") \/ Goto(v, "publish failed")
        \/ Goto(v, "github") \/ Goto(v, "wait")
    BY <1>3 DEF DryRun, Publish
  <2> QED
    BY <1>3, <2>1 DEF DryRun, Publish
<1>4. CASE PollFinds(v) \/ PollMisses(v) \/ GithubRelease(v)
  <2>1. \/ Goto(v, "publish") \/ Goto(v, "released") \/ UNCHANGED stage
    BY <1>4 DEF PollFinds, PollMisses, GithubRelease
  <2> QED
    BY <1>4, <2>1 DEF PollFinds, PollMisses, GithubRelease
<1>5. CASE Fail(v)
  <2>1. FailedJob(stage[v]) \in Failed
    BY DEF FailedJob
  <2> QED
    BY <1>5, <2>1 DEF Fail
<1> QED
  BY <1>1, <1>2, <1>3, <1>4, <1>5 DEF Step

\* A step that is none of the workflow of v: it has not left its place.
LEMMA StepOthers ==
  ASSUME TypeOK, NEW v \in Version, PushTag(v) \/ Step(v) \/ Rerun(v)
  PROVE  /\ stage' \in [Version -> Stage]
         /\ \A u \in Version \ {v} : stage'[u] = stage[u]
BY StepLocal DEF TypeOK, Goto

\* Every step keeps the types.
LEMMA StepTypeOK ==
  ASSUME TypeOK, InOrder, NEW v \in Version, PushTag(v) \/ Step(v) \/ Rerun(v)
  PROVE  TypeOK' /\ registry \subseteq registry'
<1>1. /\ manifest' \in [Version -> Version] /\ required' \in [Version -> Version]
      /\ index' = index
      /\ stage' \in [Version -> Stage]
  BY StepLocal, StepOthers DEF TypeOK
<1>2. polls' \in [Version -> 0..MaxPolls]
  <2>1. polls \in [Version -> 0..MaxPolls] /\ MaxPolls \in Nat
    BY ReleaseAssumption DEF TypeOK
  <2>2. CASE PollMisses(v)
    <3>1. polls[v] + 1 \in 0..MaxPolls
      BY <2>1, <2>2 DEF PollMisses
    <3> QED
      BY <2>1, <2>2, <3>1 DEF PollMisses
  <2>3. CASE Publish(v)
    <3>1. polls' = [polls EXCEPT ![v] = 0]
      BY <2>3 DEF Publish
    <3>2. 0 \in 0..MaxPolls
      BY <2>1
    <3> QED
      BY <2>1, <3>1, <3>2
  <2>4. CASE ~ PollMisses(v) /\ ~ Publish(v)
    <3>1. polls' = polls
      BY <2>4 DEF Step, PushTag, CiPasses, AssertVersion, DryRun, PollFinds,
                  WaitTimesOut, GithubRelease, Fail, Rerun
    <3> QED
      BY <2>1, <3>1
  <2> QED
    BY <2>2, <2>3, <2>4
<1>3. crate' \in [Version -> Crate]
  <2>1. crate \in [Version -> Crate]
    BY DEF TypeOK
  <2>2. CASE PollFinds(v)
    <3>1. crate[v] \in Crate /\ crate[v] # 3
      BY <2>1, <2>2 DEF PollFinds, InOrder
    <3>2. crate[v] + 1 \in Crate
      BY <3>1 DEF Crate
    <3> QED
      BY <2>1, <2>2, <3>2 DEF PollFinds
  <2>3. CASE DryRun(v)
    <3>1. crate' = [crate EXCEPT ![v] = 1]
      BY <2>3 DEF DryRun
    <3>2. 1 \in Crate
      BY DEF Crate
    <3> QED
      BY <2>1, <3>1, <3>2
  <2>4. CASE ~ PollFinds(v) /\ ~ DryRun(v)
    BY <2>1, <2>4, StepCases
       DEF Moves, Publish, PollMisses, GithubRelease
  <2> QED
    BY <2>2, <2>3, <2>4
<1>4. registry \subseteq registry' /\ registry' \subseteq Crate \X Version
  <2>1. CASE Publish(v)
    <3>1. registry' = registry \cup {<<crate[v], manifest[v]>>}
      BY <2>1 DEF Publish
    <3>2. crate[v] \in Crate /\ manifest[v] \in Version
      BY DEF TypeOK
    <3> QED
      BY <3>1, <3>2 DEF TypeOK
  <2>2. CASE ~ Publish(v)
    BY <2>2, StepCases
       DEF TypeOK, Moves, DryRun, PollFinds, PollMisses, GithubRelease
  <2> QED
    BY <2>1, <2>2
<1>5. releases' \subseteq Version
  BY StepCases DEF TypeOK, Moves, DryRun, Publish, PollFinds, PollMisses,
                   GithubRelease
<1> QED
  BY <1>1, <1>2, <1>3, <1>4, <1>5 DEF TypeOK

\* What was asserted stays so: the commit of a tag does not change.
LEMMA StepAsserted ==
  ASSUME TypeOK, Asserted, NEW v \in Version, PushTag(v) \/ Step(v) \/ Rerun(v)
  PROVE  Asserted'
<1> SUFFICES ASSUME NEW u \in Version,
                    stage'[u] \in {"dry run", "publish", "wait", "github",
                                   "github failed", "released"}
             PROVE  manifest[u] = u
  BY StepLocal DEF Asserted
<1>1. CASE u # v
  BY <1>1, StepOthers DEF Asserted
<1>2. CASE u = v
  <2>1. stage \in [Version -> Stage]
    BY DEF TypeOK
  <2>2. CASE Moves(v)
    BY <1>2, <2>2 DEF Moves, Asserted
  <2>3. CASE \/ DryRun(v) \/ Publish(v) \/ PollFinds(v) \/ PollMisses(v)
             \/ GithubRelease(v)
    BY <1>2, <2>3
       DEF DryRun, Publish, PollFinds, PollMisses, GithubRelease, Asserted
  <2> QED
    BY <2>2, <2>3, StepCases
<1> QED
  BY <1>1, <1>2

\* A workflow publishes, waits, and goes on to the next crate.
LEMMA StepInOrder ==
  ASSUME TypeOK, Asserted, InOrder, NEW v \in Version,
         PushTag(v) \/ Step(v) \/ Rerun(v)
  PROVE  InOrder'
<1>1. registry \subseteq registry'
  BY StepTypeOK
<1>2. ASSUME NEW u \in Version \ {v}
      PROVE  /\ stage'[u] = "wait" => crate'[u] # 3
             /\ \A c \in Crate :
                  \/ stage'[u] = "publish" /\ c < crate'[u]
                  \/ stage'[u] = "wait" /\ c <= crate'[u]
                  \/ stage'[u] \in {"github", "github failed", "released"}
                  => <<c, u>> \in registry'
  <2>1. stage'[u] = stage[u] /\ crate'[u] = crate[u]
    BY StepLocal, StepOthers
  <2> QED
    BY <1>1, <2>1 DEF InOrder
<1>3. /\ stage'[v] = "wait" => crate'[v] # 3
      /\ \A c \in Crate :
           \/ stage'[v] = "publish" /\ c < crate'[v]
           \/ stage'[v] = "wait" /\ c <= crate'[v]
           \/ stage'[v] \in {"github", "github failed", "released"}
           => <<c, v>> \in registry'
  <2> USE DEF Crate
  <2>1. /\ stage \in [Version -> Stage]
        /\ crate \in [Version -> 1..3]
    BY DEF TypeOK
  <2>2. CASE Moves(v)
    BY <2>2 DEF Moves, InOrder
  <2>3. CASE DryRun(v)
    <3>1. stage'[v] = "publish"
      BY <2>1, <2>3 DEF DryRun, Goto
    <3>2. crate'[v] = 1
      BY <2>1, <2>3 DEF DryRun
    <3> QED
      BY <3>1, <3>2
  <2>4. CASE Publish(v)
    <3>1. /\ stage[v] = "publish" /\ manifest[v] = v
          /\ crate'[v] = crate[v] /\ crate[v] \in 1..3
          /\ registry' = registry \cup {<<crate[v], v>>}
      BY <2>1, <2>4 DEF Publish, Asserted
    <3>2. \/ stage'[v] = IF crate[v] = 3 THEN "github" ELSE "wait"
          \/ stage'[v] = "publish failed"
      BY <2>1, <2>4 DEF Publish, Goto
    <3>3. \A c \in 1..3 : c <= crate[v] => <<c, v>> \in registry'
      <4>1. \A c \in 1..3 : c <= crate[v] => c < crate[v] \/ c = crate[v]
        BY <3>1
      <4> QED
        BY <3>1, <4>1 DEF InOrder
    <3>4. CASE crate[v] = 3
      <4>1. \A c \in 1..3 : c <= crate[v]
        BY <3>4
      <4>2. stage'[v] \in {"github", "publish failed"}
        BY <3>2, <3>4
      <4> QED
        BY <3>3, <4>1, <4>2
    <3>5. CASE crate[v] # 3
      <4>1. stage'[v] \in {"wait", "publish failed"}
        BY <3>2, <3>5
      <4> QED
        BY <3>1, <3>3, <3>5, <4>1
    <3> QED
      BY <3>4, <3>5
  <2>5. CASE PollFinds(v)
    <3>1. stage[v] = "wait" /\ stage'[v] = "publish"
      BY <2>1, <2>5 DEF PollFinds, Goto
    <3>2. /\ crate'[v] = crate[v] + 1 /\ registry' = registry
          /\ crate[v] \in 1..3
      BY <2>1, <2>5 DEF PollFinds
    <3>3. \A c \in 1..3 : c < crate'[v] => <<c, v>> \in registry'
      <4>1. \A c \in 1..3 : c < crate[v] + 1 => c <= crate[v]
        BY <3>2
      <4> QED
        BY <3>1, <3>2, <4>1 DEF InOrder
    <3> QED
      BY <3>1, <3>3
  <2>6. CASE PollMisses(v)
    BY <2>6 DEF PollMisses, InOrder
  <2>7. CASE GithubRelease(v)
    BY <2>1, <2>7 DEF GithubRelease, Goto, InOrder
  <2> QED
    BY <2>2, <2>3, <2>4, <2>5, <2>6, <2>7, StepCases
<1> QED
  BY <1>2, <1>3 DEF InOrder

\* A crate that a workflow comes to finds the one before it in the index.
LEMMA StepDependencyPropagated ==
  ASSUME TypeOK, Asserted, DependencyPropagated, NEW v \in Version,
         PushTag(v) \/ Step(v) \/ Rerun(v)
  PROVE  DependencyPropagated'
<1> SUFFICES ASSUME NEW u \in Version, stage'[u] = "publish"
             PROVE  crate'[u] = 1 \/ <<crate'[u] - 1, manifest[u]>> \in index
  BY StepLocal DEF DependencyPropagated
<1>1. CASE u # v
  BY <1>1, StepLocal, StepOthers DEF DependencyPropagated
<1>2. CASE u = v
  <2>1. stage \in [Version -> Stage] /\ crate \in [Version -> 1..3]
    BY DEF TypeOK, Crate
  <2>2. CASE Moves(v)
    BY <1>2, <2>2 DEF Moves
  <2>3. CASE DryRun(v)
    BY <1>2, <2>1, <2>3 DEF DryRun
  <2>4. CASE Publish(v)
    BY <1>2, <2>1, <2>4 DEF Publish, Goto
  <2>5. CASE PollFinds(v)
    <3>1. <<crate[v], v>> \in index /\ manifest[v] = v
      BY <2>5 DEF PollFinds, Found, Asserted
    <3>2. crate'[v] = crate[v] + 1 /\ crate[v] \in 1..3
      BY <2>1, <2>5 DEF PollFinds
    <3>3. crate'[v] - 1 = crate[v]
      BY <3>2
    <3> QED
      BY <1>2, <3>1, <3>3
  <2>6. CASE PollMisses(v) \/ GithubRelease(v)
    BY <1>2, <2>1, <2>6 DEF PollMisses, GithubRelease, Goto
  <2> QED
    BY <2>2, <2>3, <2>4, <2>5, <2>6, StepCases
<1> QED
  BY <1>1, <1>2

\* The registry gains crates of asserted versions only.
LEMMA StepPublishedFromItsTag ==
  ASSUME TypeOK, Asserted, PublishedFromItsTag, NEW v \in Version,
         PushTag(v) \/ Step(v) \/ Rerun(v)
  PROVE  PublishedFromItsTag'
<1>1. stage \in [Version -> Stage] /\ manifest' = manifest
  BY StepLocal DEF TypeOK
<1>2. \A entry \in registry' \ registry :
        /\ Publish(v) /\ entry[2] = v /\ manifest[v] = v
  <2>1. CASE Publish(v)
    <3>1. manifest[v] = v /\ registry' = registry \cup {<<crate[v], v>>}
      BY <2>1 DEF Publish, Asserted
    <3> QED
      BY <2>1, <3>1
  <2>2. CASE ~ Publish(v)
    <3>1. registry' = registry
      BY <2>2, StepCases
         DEF Moves, DryRun, PollFinds, PollMisses, GithubRelease
    <3> QED
      BY <3>1
  <2> QED
    BY <2>1, <2>2
<1>3. Publish(v) => stage'[v] \in {"github", "wait", "publish failed"}
  BY <1>1 DEF Publish, Goto
<1>4. stage[v] \notin {"untagged", "ci", "ci failed"} =>
        stage'[v] \notin {"untagged", "ci", "ci failed"}
  <2>1. CASE Moves(v)
    BY <2>1 DEF Moves
  <2>2. CASE PollMisses(v)
    BY <2>2 DEF PollMisses
  <2>3. CASE DryRun(v) \/ PollFinds(v) \/ GithubRelease(v)
    <3>1. stage'[v] \in {"publish", "released"}
      BY <1>1, <2>3 DEF DryRun, PollFinds, GithubRelease, Goto
    <3> QED
      BY <3>1
  <2> QED
    BY <1>3, <2>1, <2>2, <2>3, StepCases
<1> SUFFICES ASSUME NEW entry \in registry'
             PROVE  /\ manifest[entry[2]] = entry[2]
                    /\ stage'[entry[2]] \notin {"untagged", "ci", "ci failed"}
  BY <1>1 DEF PublishedFromItsTag
<1>5. CASE entry \in registry
  <2>1. /\ manifest[entry[2]] = entry[2]
        /\ stage[entry[2]] \notin {"untagged", "ci", "ci failed"}
        /\ entry[2] \in Version
    BY <1>5 DEF PublishedFromItsTag, TypeOK
  <2>2. CASE entry[2] = v
    BY <1>4, <2>1, <2>2
  <2>3. CASE entry[2] # v
    BY <2>1, <2>3, StepOthers
  <2> QED
    BY <2>2, <2>3
<1>6. CASE entry \notin registry
  BY <1>2, <1>3, <1>6
<1> QED
  BY <1>5, <1>6

\* A release stays the end of its workflow.
LEMMA StepReleasedEnds ==
  ASSUME TypeOK, ReleasedEnds, NEW v \in Version,
         PushTag(v) \/ Step(v) \/ Rerun(v)
  PROVE  ReleasedEnds'
<1>1. stage \in [Version -> Stage] /\ releases \subseteq Version
  BY DEF TypeOK
<1>2. CASE GithubRelease(v)
  BY <1>1, <1>2, StepOthers DEF GithubRelease, Goto, ReleasedEnds
<1>3. CASE ~ GithubRelease(v)
  <2>1. releases' = releases
    BY <1>3, StepCases DEF Moves, DryRun, Publish, PollFinds, PollMisses
  <2>2. stage[v] # "released"
    BY <1>3, StepCases DEF Moves, DryRun, Publish, PollFinds, PollMisses
  <2> QED
    BY <1>1, <2>1, <2>2, StepOthers DEF ReleasedEnds
<1> QED
  BY <1>2, <1>3

-----------------------------------------------------------------------------
(* The invariant, and what follows from it *)

\* Nothing has been published at the start.
LEMMA InitIndInv == Init => IndInv
<1> SUFFICES ASSUME Init PROVE IndInv
  OBVIOUS
<1>1. TypeOK
  <2>1. 1 \in Crate /\ 0 \in 0..MaxPolls /\ "untagged" \in Stage
    BY ReleaseAssumption DEF Crate, Stage
  <2> QED
    BY <2>1 DEF Init, TypeOK
<1>2. \A v \in Version : stage[v] = "untagged"
  BY DEF Init
<1>3. Asserted /\ InOrder /\ DependencyPropagated
  BY <1>2 DEF Asserted, InOrder, DependencyPropagated
<1>4. ReleasedEnds /\ PublishedFromItsTag
  BY DEF Init, ReleasedEnds, PublishedFromItsTag
<1> QED
  BY <1>1, <1>3, <1>4 DEF IndInv

\* Every step keeps the invariant.
LEMMA NextIndInv == IndInv /\ [Next]_vars => IndInv'
<1> SUFFICES ASSUME IndInv, [Next]_vars PROVE IndInv'
  OBVIOUS
<1> USE DEF IndInv
<1>1. ASSUME NEW v \in Version, PushTag(v) \/ Step(v) \/ Rerun(v)
      PROVE  IndInv'
  BY <1>1, StepTypeOK, StepAsserted, StepInOrder, StepReleasedEnds,
     StepDependencyPropagated, StepPublishedFromItsTag
<1>2. CASE Propagate \/ UNCHANGED vars
  <2>1. /\ UNCHANGED <<manifest, required, stage, crate, polls, registry,
                       releases>>
        /\ index \subseteq index' /\ index' \subseteq registry
    BY <1>2 DEF Propagate, vars, sources, TypeOK
  <2>2. TypeOK' /\ Asserted' /\ InOrder' /\ ReleasedEnds'
    BY <2>1 DEF TypeOK, Asserted, InOrder, ReleasedEnds
  <2>3. DependencyPropagated' /\ PublishedFromItsTag'
    BY <2>1 DEF DependencyPropagated, PublishedFromItsTag
  <2> QED
    BY <2>2, <2>3
<1> QED
  BY <1>1, <1>2 DEF Next

\* IndInv holds in every reachable state.
THEOREM Invariance == Spec => []IndInv
BY InitIndInv, NextIndInv, PTL DEF Spec

\* The variables keep their types.
THEOREM TypeCorrect == Spec => []TypeOK
<1>1. IndInv => TypeOK
  BY DEF IndInv
<1> QED
  BY <1>1, Invariance, PTL

\* A GitHub release has its three crates, after any failures and reruns.
THEOREM CompleteRelease == Spec => []ReleaseIsComplete
<1>1. IndInv => ReleaseIsComplete
  BY DEF IndInv, TypeOK, ReleasedEnds, InOrder, ReleaseIsComplete
<1> QED
  BY <1>1, Invariance, PTL

\* cargo resolves the dependency of each crate it publishes.
THEOREM ResolvableDependency == Spec => []DependencyPropagated
<1>1. IndInv => DependencyPropagated
  BY DEF IndInv
<1> QED
  BY <1>1, Invariance, PTL

\* No version is published from the commit of another tag.
THEOREM TagPublishes == Spec => []PublishedFromItsTag
<1>1. IndInv => PublishedFromItsTag
  BY DEF IndInv
<1> QED
  BY <1>1, Invariance, PTL

\* A version whose publish job failed after its first crate is never released
\* under that tag, whatever is run again.
THEOREM NoSecondChance == Spec => SpentForGood
<1> DEFINE Stays == \A v \in Version : Spent(v) => Spent(v)'
<1>1. IndInv /\ [Next]_vars => [Stays]_vars
  <2> SUFFICES ASSUME IndInv, [Next]_vars, NEW v \in Version, Spent(v)
               PROVE  Spent(v)'
    OBVIOUS
  <2>1. TypeOK /\ stage \in [Version -> Stage]
    BY DEF IndInv, TypeOK
  <2>2. ASSUME NEW u \in Version, PushTag(u) \/ Step(u) \/ Rerun(u)
        PROVE  Spent(v)'
    <3>1. registry \subseteq registry' /\ manifest' = manifest
      BY <2>1, <2>2, StepTypeOK, StepLocal DEF IndInv
    <3>2. CASE u # v
      BY <2>1, <2>2, <3>1, <3>2, StepLocal, StepOthers DEF Spent
    <3>3. CASE u = v
      <4>1. CASE Moves(v)
        BY <3>1, <4>1 DEF Moves, Spent
      <4>2. CASE DryRun(v)
        <5>1. stage'[v] = "publish"
          BY <2>1, <4>2 DEF DryRun, Goto
        <5>2. crate'[v] = 1
          BY <2>1, <4>2 DEF DryRun, TypeOK
        <5> QED
          BY <3>1, <5>1, <5>2 DEF Spent
      <4>3. ~ Publish(v)
        BY DEF Publish, Spent
      <4>4. ~ PollFinds(v) /\ ~ PollMisses(v) /\ ~ GithubRelease(v)
        BY DEF PollFinds, PollMisses, GithubRelease, Spent
      <4> QED
        BY <2>1, <2>2, <3>3, <4>1, <4>2, <4>3, <4>4, StepCases
    <3> QED
      BY <3>2, <3>3
  <2>3. CASE Propagate \/ UNCHANGED vars
    BY <2>3 DEF Propagate, vars, sources, Spent
  <2> QED
    BY <2>2, <2>3 DEF Next
<1> QED
  BY <1>1, Invariance, PTL DEF Spec, SpentForGood

-----------------------------------------------------------------------------
(* What the end of every workflow rests on *)

\* The steps that follow at most once crate c is to be published, with both
\* waits polling to their last.
After(c) == CASE c = 1 -> 2 * MaxPolls + 6
              [] c = 2 -> MaxPolls + 4
              [] OTHER -> 2

\* The steps the workflow of v can still make without being run again.
Left(v) == CASE stage[v] = "ci"      -> After(1) + 3
             [] stage[v] = "assert"  -> After(1) + 2
             [] stage[v] = "dry run" -> After(1) + 1
             [] stage[v] = "publish" -> After(crate[v])
             [] stage[v] = "wait"    -> After(crate[v]) - 1 - polls[v]
             [] stage[v] = "github"  -> 1
             [] OTHER                -> 0

LeftOK ==
  \A v \in Version : /\ Left(v) \in 0..(2 * MaxPolls + 9)
                     /\ Left(v) = 0 <=> stage[v] \notin Running

\* A step of a workflow leaves fewer to make; more there are only when the tag
\* is pushed or when someone runs a failed job again.
StepsRunOut ==
  [][\A v \in Version :
       /\ Step(v) => Left(v)' < Left(v)
       /\ PushTag(v) \/ Rerun(v) \/ Left(v)' <= Left(v)]_vars

\* A wait is for one of the first two crates, and makes no more than MaxPolls
\* polls.
LEMMA LeftType == IndInv => LeftOK
<1> SUFFICES ASSUME IndInv, NEW v \in Version
             PROVE  /\ Left(v) \in 0..(2 * MaxPolls + 9)
                    /\ Left(v) = 0 <=> stage[v] \notin Running
  BY DEF LeftOK
<1>1. /\ MaxPolls \in Nat /\ crate[v] \in 1..3 /\ polls[v] \in 0..MaxPolls
      /\ stage[v] \in Stage
      /\ stage[v] = "wait" => crate[v] # 3
  BY ReleaseAssumption DEF IndInv, TypeOK, InOrder, Crate
<1>2. CASE stage[v] = "wait"
  <2>1. Left(v) = After(crate[v]) - 1 - polls[v]
    BY <1>2 DEF Left
  <2>2. CASE crate[v] = 1
    <3>1. Left(v) = 2 * MaxPolls + 5 - polls[v]
      BY <1>1, <2>1, <2>2 DEF After
    <3>2. Left(v) \in 1..(2 * MaxPolls + 9)
      BY <1>1, <3>1
    <3> QED
      BY <1>2, <3>2 DEF Running
  <2>3. CASE crate[v] = 2
    <3>1. Left(v) = MaxPolls + 3 - polls[v]
      BY <1>1, <2>1, <2>3 DEF After
    <3>2. Left(v) \in 1..(2 * MaxPolls + 9)
      BY <1>1, <3>1
    <3> QED
      BY <1>2, <3>2 DEF Running
  <2> QED
    BY <1>1, <1>2, <2>2, <2>3
<1>3. CASE stage[v] \in Running \ {"wait"}
  <2>1. After(1) = 2 * MaxPolls + 6
    BY DEF After
  <2>2. After(crate[v]) \in 1..(2 * MaxPolls + 6)
    BY <1>1 DEF After
  <2>3. Left(v) \in {After(1) + 3, After(1) + 2, After(1) + 1,
                     After(crate[v]), 1}
    BY <1>3 DEF Left, Running
  <2>4. Left(v) \in 1..(2 * MaxPolls + 9)
    BY <1>1, <2>1, <2>2, <2>3
  <2> QED
    BY <1>3, <2>4
<1>4. CASE stage[v] \notin Running
  <2>1. Left(v) = 0
    BY <1>4 DEF Left, Running
  <2> QED
    BY <1>1, <1>4, <2>1
<1> QED
  BY <1>2, <1>3, <1>4

\* What a workflow has left is its own.
LEMMA OthersKeepLeft ==
  ASSUME TypeOK, NEW v \in Version, PushTag(v) \/ Step(v) \/ Rerun(v),
         NEW u \in Version \ {v}
  PROVE  Left(u)' = Left(u)
<1>1. stage'[u] = stage[u] /\ crate'[u] = crate[u]
  BY StepLocal, StepOthers
<1>2. polls'[u] = polls[u]
  BY DEF TypeOK, Step, PushTag, CiPasses, AssertVersion, DryRun, Publish,
         PollFinds, PollMisses, WaitTimesOut, GithubRelease, Fail, Rerun
<1> QED
  BY <1>1, <1>2 DEF Left

\* Each step uses one up.
LEMMA StepLeft ==
  ASSUME IndInv, LeftOK, LeftOK', NEW v \in Version, Step(v)
  PROVE  Left(v)' < Left(v)
<1>1. /\ MaxPolls \in Nat /\ crate[v] \in 1..3 /\ polls[v] \in 0..MaxPolls
      /\ stage \in [Version -> Stage] /\ crate \in [Version -> 1..3]
      /\ polls \in [Version -> 0..MaxPolls]
      /\ stage[v] = "wait" => crate[v] # 3
  BY ReleaseAssumption DEF IndInv, TypeOK, InOrder, Crate
<1>2. /\ Left(v) \in Nat /\ Left(v)' \in Nat
      /\ Left(v) = 0 <=> stage[v] \notin Running
      /\ Left(v)' = 0 <=> stage'[v] \notin Running
  <2>1. 0..(2 * MaxPolls + 9) \subseteq Nat
    BY <1>1
  <2> QED
    BY <2>1 DEF LeftOK
<1>3. CASE stage[v] \in Running /\ stage'[v] \notin Running
  BY <1>2, <1>3
<1>4. CASE CiPasses(v) \/ (AssertVersion(v) /\ manifest[v] = v) \/ DryRun(v)
  <2>1. After(1) = 2 * MaxPolls + 6
    BY DEF After
  <2>2. CASE CiPasses(v)
    <3>1. stage[v] = "ci" /\ stage'[v] = "assert"
      BY <1>1, <2>2 DEF CiPasses, Goto
    <3>2. Left(v) = After(1) + 3 /\ Left(v)' = After(1) + 2
      BY <3>1 DEF Left
    <3> QED
      BY <1>1, <2>1, <3>2
  <2>3. CASE AssertVersion(v) /\ manifest[v] = v
    <3>1. stage[v] = "assert" /\ stage'[v] = "dry run"
      BY <1>1, <2>3 DEF AssertVersion, Goto
    <3>2. Left(v) = After(1) + 2 /\ Left(v)' = After(1) + 1
      BY <3>1 DEF Left
    <3> QED
      BY <1>1, <2>1, <3>2
  <2>4. CASE DryRun(v)
    <3>1. stage[v] = "dry run" /\ stage'[v] = "publish"
      BY <1>1, <2>4 DEF DryRun, Goto
    <3>2. crate'[v] = 1
      BY <1>1, <2>4 DEF DryRun
    <3>3. Left(v) = After(1) + 1 /\ Left(v)' = After(1)
      BY <3>1, <3>2 DEF Left
    <3> QED
      BY <1>1, <2>1, <3>3
  <2> QED
    BY <1>4, <2>2, <2>3, <2>4
<1>5. CASE Publish(v) /\ stage'[v] \in {"wait", "github"}
  <2>1. /\ stage[v] = "publish" /\ crate'[v] = crate[v] /\ polls'[v] = 0
        /\ stage'[v] = IF crate[v] = 3 THEN "github" ELSE "wait"
    <3>1. stage[v] = "publish" /\ crate' = crate
      BY <1>5 DEF Publish
    <3>2. polls'[v] = 0
      BY <1>1, <1>5 DEF Publish
    <3>3. stage'[v] = IF crate[v] = 3 THEN "github" ELSE "wait"
      BY <1>1, <1>5 DEF Publish, Goto
    <3> QED
      BY <3>1, <3>2, <3>3
  <2>2. Left(v) = After(crate[v])
    BY <2>1 DEF Left
  <2>3. CASE crate[v] = 3
    <3>1. Left(v)' = 1 /\ After(crate[v]) = 2
      BY <2>1, <2>3 DEF Left, After
    <3> QED
      BY <2>2, <3>1
  <2>4. CASE crate[v] # 3
    <3>1. Left(v)' = After(crate[v]) - 1 - 0
      BY <2>1, <2>4 DEF Left
    <3> QED
      BY <1>2, <2>2, <3>1
  <2> QED
    BY <2>3, <2>4
<1>6. CASE PollFinds(v)
  <2>1. /\ stage[v] = "wait" /\ stage'[v] = "publish"
        /\ crate'[v] = crate[v] + 1 /\ polls[v] < MaxPolls
    <3>1. stage[v] = "wait" /\ stage'[v] = "publish" /\ polls[v] < MaxPolls
      BY <1>1, <1>6 DEF PollFinds, Goto
    <3>2. crate'[v] = crate[v] + 1
      BY <1>1, <1>6 DEF PollFinds
    <3> QED
      BY <3>1, <3>2
  <2>2. Left(v) = After(crate[v]) - 1 - polls[v] /\ Left(v)' = After(crate[v] + 1)
    BY <2>1 DEF Left
  <2>3. CASE crate[v] = 1
    <3>1. After(crate[v]) = 2 * MaxPolls + 6 /\ After(crate[v] + 1) = MaxPolls + 4
      BY <2>3 DEF After
    <3> QED
      BY <1>1, <2>1, <2>2, <3>1
  <2>4. CASE crate[v] = 2
    <3>1. After(crate[v]) = MaxPolls + 4 /\ After(crate[v] + 1) = 2
      BY <2>4 DEF After
    <3> QED
      BY <1>1, <2>1, <2>2, <3>1
  <2> QED
    BY <1>1, <2>1, <2>3, <2>4
<1>7. CASE PollMisses(v)
  <2>1. stage[v] = "wait" /\ stage' = stage /\ crate' = crate
    BY <1>7 DEF PollMisses
  <2>2. polls'[v] = polls[v] + 1
    BY <1>1, <1>7 DEF PollMisses
  <2>3. /\ Left(v) = After(crate[v]) - 1 - polls[v]
        /\ Left(v)' = After(crate[v]) - 1 - (polls[v] + 1)
    BY <2>1, <2>2 DEF Left
  <2>4. After(crate[v]) \in Nat
    BY <1>1 DEF After
  <2> QED
    BY <1>1, <2>3, <2>4
<1>8. CASE \/ AssertVersion(v) /\ manifest[v] # v
           \/ Publish(v) /\ stage'[v] \notin {"wait", "github"}
           \/ WaitTimesOut(v) \/ GithubRelease(v) \/ Fail(v)
  <2>1. stage[v] \in Running
    BY <1>8 DEF AssertVersion, Publish, WaitTimesOut, GithubRelease, Fail,
                Running
  <2>2. stage'[v] \in {"ci failed", "publish failed", "github failed",
                       "released"}
    <3>1. CASE AssertVersion(v) /\ manifest[v] # v
      BY <1>1, <3>1 DEF AssertVersion, Goto
    <3>2. CASE Publish(v) /\ stage'[v] \notin {"wait", "github"}
      BY <1>1, <3>2 DEF Publish, Goto
    <3>3. CASE WaitTimesOut(v) \/ GithubRelease(v)
      BY <1>1, <3>3 DEF WaitTimesOut, GithubRelease, Goto
    <3>4. CASE Fail(v)
      BY <1>1, <3>4 DEF Fail, Goto, FailedJob
    <3> QED
      BY <1>8, <3>1, <3>2, <3>3, <3>4
  <2> QED
    BY <1>3, <2>1, <2>2 DEF Running
<1> QED
  BY <1>4, <1>5, <1>6, <1>7, <1>8 DEF Step

\* A workflow of v, from its start or from a rerun, ends after at most
\* 2 * MaxPolls + 9 steps, whatever the index and the other workflows do: of
\* WorkflowEnds only the fairness is left to the runs.
THEOREM WorkflowsRunOut == Spec => []LeftOK /\ StepsRunOut
<1> DEFINE Fewer == \A v \in Version :
                      /\ Step(v) => Left(v)' < Left(v)
                      /\ PushTag(v) \/ Rerun(v) \/ Left(v)' <= Left(v)
<1>1. IndInv /\ LeftOK /\ LeftOK' /\ [Next]_vars => [Fewer]_vars
  <2> SUFFICES ASSUME IndInv, LeftOK, LeftOK', Next, NEW v \in Version
               PROVE  /\ Step(v) => Left(v)' < Left(v)
                      /\ PushTag(v) \/ Rerun(v) \/ Left(v)' <= Left(v)
    OBVIOUS
  <2>1. TypeOK /\ Left(v) \in Nat /\ Left(v)' \in Nat
    <3>1. 0..(2 * MaxPolls + 9) \subseteq Nat
      BY ReleaseAssumption
    <3> QED
      BY <3>1 DEF IndInv, LeftOK
  <2>2. CASE Step(v)
    BY <2>1, <2>2, StepLeft
  <2>3. CASE ~ Step(v) /\ (PushTag(v) \/ Rerun(v))
    BY <2>3
  <2>4. CASE ~ Step(v) /\ ~ PushTag(v) /\ ~ Rerun(v)
    <3>1. Left(v)' = Left(v)
      <4>1. CASE Propagate
        BY <4>1 DEF Propagate, Left
      <4>2. CASE \E u \in Version : PushTag(u) \/ Step(u) \/ Rerun(u)
        BY <2>1, <2>4, <4>2, OthersKeepLeft
      <4> QED
        BY <4>1, <4>2 DEF Next
    <3> QED
      BY <2>1, <2>4, <3>1
  <2> QED
    BY <2>2, <2>3, <2>4
<1> QED
  BY <1>1, LeftType, Invariance, PTL DEF Spec, StepsRunOut

=============================================================================
