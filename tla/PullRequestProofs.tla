------------------------- MODULE PullRequestProofs -------------------------
(***************************************************************************)
(* Proofs about PullRequest, for any number of previews, failed requests   *)
(* and crashes.                                                            *)
(***************************************************************************)
EXTENDS PullRequest, TLAPS

USE BoundsAssumption, AutoMergesAssumption DEF NoFile, NoUrl

-----------------------------------------------------------------------------
(* The inductive invariant. *)

\* GitHub's side: every PR but the last was merged by hand, the branch has the
\* file while a PR shows it, and only approved previews are ever written.
Repository ==
    /\ \A i \in 1 .. Len(repo.prs) - 1 : repo.prs[i].state = "merged_by_hand"
    /\ OpenPRs # {} => repo.file # 0
    /\ repo.file # 0 => repo.branch /\ repo.file \in approved
    /\ MergedWasApproved

\* What the thread recorded matches: the url is of the last PR, the preview is
\* the newest that was approved, and it is what the recorded PR shows.
Matching ==
    /\ thread.pr_url # 0 => thread.pr_url = Len(repo.prs)
    /\ \A i \in DOMAIN repo.prs : repo.prs[i].state = "merged" => thread.pr_url # 0
    /\ \A v \in approved : v <= thread.preview
    /\ thread.pr_url # 0 /\ OpenPRs # {} => repo.file = thread.preview
    /\ MergedIsNewest

\* What the status says of the approval.
Reviewed ==
    /\ thread.status = "preview_ready" => thread.pr_url = 0
    /\ thread.status # "preview_ready" => thread.preview \in approved

\* A flow under way: where it is tells what it has done.
UnderWay ==
    /\ flow.at # "none" => thread.status = "pr_open"
    /\ flow.at \in OpeningStages => thread.pr_url = 0 /\ flow.preview = thread.preview
    /\ flow.at \in {"proposing", "finding"} => repo.file = flow.preview
    /\ flow.at \in MergingStages => thread.pr_url # 0 /\ flow.pr = thread.pr_url
    /\ flow.at = "cleaning" => flow.pr \notin OpenPRs

Sound == TypeOK /\ Repository /\ Matching /\ Reviewed /\ UnderWay

LEMMA SoundInit == Init => Sound
BY DEF Init, Sound, TypeOK, Repository, Matching, Reviewed, UnderWay, NoFlow, OpeningStages,
       MergingStages, OpenPRs, Merged, MergedWasApproved, MergedIsNewest, PR

-----------------------------------------------------------------------------
(* What a request does to the repository, whoever is left to hear of it. *)

RepoOK == repo \in [branch : BOOLEAN, file : 0 .. MaxPreviews, prs : Seq(PR)]

\* A PR that is open is the last one.
LEMMA OpenIsLast ==
    ASSUME Sound, NEW i \in OpenPRs
    PROVE  i = Len(repo.prs) /\ i \in DOMAIN repo.prs /\ repo.prs[i].state = "open"
BY DEF Sound, TypeOK, Repository, OpenPRs

\* A PR that is merged shows what the branch had, which had been approved.
LEMMA MergeKeeps ==
    ASSUME Sound, NEW pr \in OpenPRs, NEW merged \in {"merged", "merged_by_hand"},
           repo' = pr_merged(pr, merged),
           merged = "merged" => thread.pr_url # 0,
           approved' = approved,
           thread'.preview = thread.preview, thread'.pr_url = thread.pr_url
    PROVE  RepoOK' /\ Repository' /\ Matching' /\ OpenPRs' = {} /\ repo'.file = repo.file
<1>1. pr = Len(repo.prs) /\ pr \in DOMAIN repo.prs /\ repo.prs[pr].state = "open"
  BY OpenIsLast
<1>2. repo' = [repo EXCEPT !.prs = [repo.prs EXCEPT ![pr] = [state |-> merged, file |-> repo.file]]]
  BY <1>1 DEF pr_merged, Sound, TypeOK
<1>3. repo'.file = repo.file /\ repo'.branch = repo.branch
  BY <1>2 DEF Sound, TypeOK
<1> DEFINE shown == [state |-> merged, file |-> repo.file]
<1>p. repo.prs \in Seq(PR) /\ shown \in PR
  BY DEF Sound, TypeOK, PR
<1>q. repo'.prs = [repo.prs EXCEPT ![pr] = shown]
  BY <1>2 DEF Sound, TypeOK
<1>4. /\ repo'.prs \in Seq(PR) /\ Len(repo'.prs) = Len(repo.prs)
      /\ \A i \in DOMAIN repo.prs : i # pr => repo'.prs[i] = repo.prs[i]
      /\ repo'.prs[pr] = shown
  <2> HIDE DEF shown
  <2> QED BY <1>1, <1>p, <1>q
<1>s. /\ DOMAIN repo.prs = 1 .. Len(repo.prs) /\ DOMAIN repo'.prs = 1 .. Len(repo.prs)
      /\ Len(repo.prs) \in Nat /\ repo'.prs[pr].state = merged /\ repo'.prs[pr].file = repo.file
      /\ \A i \in 1 .. Len(repo.prs) : i # pr =>
            /\ repo'.prs[i] = repo.prs[i] /\ repo.prs[i].state = "merged_by_hand"
  <2>1. \A i \in 1 .. Len(repo.prs) : i # pr => repo.prs[i].state = "merged_by_hand"
    BY <1>1, <1>p DEF Sound, Repository
  <2> QED BY <1>1, <1>p, <1>4, <2>1
<1> HIDE DEF shown
<1>5. RepoOK'
  BY <1>2, <1>3, <1>4 DEF RepoOK, Sound, TypeOK
<1>6. OpenPRs' = {}
  BY <1>s DEF OpenPRs
<1>7. repo.file # 0 /\ repo.file \in approved /\ repo.branch
  BY DEF Sound, Repository
<1>8. Repository'
  <2>1. MergedWasApproved'
    <3> SUFFICES ASSUME NEW i \in 1 .. Len(repo.prs), repo'.prs[i].state # "open"
                 PROVE  repo'.prs[i].file \in approved
      BY <1>s DEF MergedWasApproved, Merged
    <3>1. CASE i = pr
      BY <3>1, <1>s, <1>7
    <3>2. CASE i # pr
      BY <3>2, <1>s DEF Sound, Repository, MergedWasApproved, Merged
    <3> QED BY <3>1, <3>2
  <2>2. \A i \in 1 .. Len(repo'.prs) - 1 : repo'.prs[i].state = "merged_by_hand"
    BY <1>1, <1>4, <1>s
  <2> QED BY <2>1, <2>2, <1>3, <1>6, <1>7 DEF Repository
<1>9. Matching'
  <2>1. MergedIsNewest'
    <3> SUFFICES ASSUME NEW i \in 1 .. Len(repo.prs), repo'.prs[i].state = "merged",
                        NEW v \in approved
                 PROVE  v <= repo'.prs[i].file
      BY <1>s DEF MergedIsNewest, Merged
    <3>1. i = pr /\ thread.pr_url # 0
      BY <1>s
    <3>2. repo.file = thread.preview
      BY <3>1 DEF Sound, Matching
    <3> QED BY <3>1, <3>2, <1>s DEF Sound, Matching
  <2>2. \A i \in DOMAIN repo'.prs : repo'.prs[i].state = "merged" => thread'.pr_url # 0
    BY <1>s
  <2> QED BY <2>1, <2>2, <1>4, <1>6 DEF Matching, Sound
<1> QED BY <1>3, <1>5, <1>6, <1>8, <1>9

\* A PR is opened when no other is, by a flow that has just written the file.
LEMMA ProposalKeeps ==
    ASSUME Sound, flow.at = "proposing", repo' = pr_opened, approved' = approved,
           thread'.preview = thread.preview,
           \/ thread'.pr_url = 0
           \/ may_propose /\ thread'.pr_url = Len(repo.prs) + 1
    PROVE  /\ RepoOK' /\ Repository' /\ Matching' /\ repo'.file = repo.file
           /\ may_propose => Len(repo'.prs) = Len(repo.prs) + 1
<1> DEFINE new == [state |-> "open", file |-> 0]
<1>1. thread.pr_url = 0 /\ repo.file = flow.preview /\ flow.preview = thread.preview
  BY DEF Sound, UnderWay, OpeningStages
<1>2. CASE ~may_propose
  <2>1. repo' = repo /\ thread'.pr_url = 0
    BY <1>2 DEF pr_opened
  <2> QED BY <1>1, <1>2, <2>1
          DEF Sound, TypeOK, RepoOK, Repository, MergedWasApproved, Merged, OpenPRs,
              Matching, MergedIsNewest
<1>3. CASE may_propose
  <2>1. repo.branch /\ repo.file # 0 /\ OpenPRs = {}
    BY <1>3 DEF may_propose
  <2>2. repo.prs \in Seq(PR) /\ new \in PR
    BY DEF Sound, TypeOK, PR
  <2>3. /\ repo' = [repo EXCEPT !.prs = Append(repo.prs, new)]
        /\ repo'.prs = Append(repo.prs, new)
        /\ repo'.file = repo.file /\ repo'.branch = repo.branch
    BY <1>3 DEF pr_opened, Sound, TypeOK
  <2>4. \A i \in 1 .. Len(repo.prs) : repo.prs[i].state = "merged_by_hand"
    <3> SUFFICES ASSUME NEW i \in 1 .. Len(repo.prs) PROVE repo.prs[i].state = "merged_by_hand"
      OBVIOUS
    <3>1. repo.prs[i].state \in {"open", "merged", "merged_by_hand"} /\ i \in DOMAIN repo.prs
      <4>1. i \in DOMAIN repo.prs /\ repo.prs[i] \in PR
        BY <2>2
      <4> QED BY <4>1 DEF PR
    <3> QED BY <1>1, <2>1, <3>1 DEF OpenPRs, Sound, Matching
  <2>s. /\ DOMAIN repo.prs = 1 .. Len(repo.prs) /\ Len(repo.prs) \in Nat
        /\ DOMAIN repo'.prs = 1 .. Len(repo.prs) + 1
        /\ repo'.prs \in Seq(PR) /\ Len(repo'.prs) = Len(repo.prs) + 1
        /\ repo'.prs[Len(repo.prs) + 1] = new
        /\ \A i \in 1 .. Len(repo.prs) : repo'.prs[i] = repo.prs[i]
    <3> HIDE DEF new
    <3> QED BY <2>2, <2>3
  <2>5. RepoOK'
    BY <2>3, <2>s DEF RepoOK, Sound, TypeOK
  <2>6. Merged' = 1 .. Len(repo.prs) /\ Merged = 1 .. Len(repo.prs)
    BY <2>4, <2>s DEF Merged
  <2>7. MergedWasApproved' /\ MergedIsNewest'
    BY <2>4, <2>6, <2>s DEF MergedWasApproved, MergedIsNewest, Sound, Repository
  <2>8. repo.file \in approved
    BY <2>1 DEF Sound, Repository
  <2>9. Repository'
    BY <2>1, <2>3, <2>4, <2>7, <2>8, <2>s DEF Repository
  <2>10. Matching'
    BY <1>1, <2>3, <2>4, <2>7, <2>s DEF Matching, Sound
  <2> QED BY <2>3, <2>5, <2>9, <2>10, <2>s
<1> QED BY <1>2, <1>3

\* The request a flow awaits, answered or not, keeps the repository sound and
\* what the thread recorded of it true.
LEMMA RequestKeeps ==
    ASSUME Sound, repo' \in {repo, requested}, approved' = approved,
           thread'.preview = thread.preview, thread'.pr_url = thread.pr_url
    PROVE  RepoOK' /\ Repository' /\ Matching'
<1>1. CASE repo' = repo
  BY <1>1 DEF Sound, TypeOK, RepoOK, Repository, MergedWasApproved, Merged, OpenPRs,
              Matching, MergedIsNewest
<1>2. CASE repo' = branch_created \/ (repo' = file_written /\ flow.at = "writing")
  <2>1. repo'.prs = repo.prs /\ RepoOK'
    BY <1>2 DEF branch_created, file_written, Sound, TypeOK, RepoOK
  <2>2. OpenPRs' = OpenPRs /\ Merged' = Merged
    BY <2>1 DEF OpenPRs, Merged
  <2>3. repo'.file = repo.file \/ repo'.file = thread.preview
    BY <1>2 DEF branch_created, file_written, Sound, TypeOK, UnderWay, OpeningStages
  <2>4. repo'.file # 0 => repo'.branch /\ repo'.file \in approved
    BY <1>2 DEF branch_created, file_written, may_write, Sound, TypeOK, Repository, UnderWay,
                OpeningStages, Reviewed
  <2>5. repo.file # 0 => repo'.file # 0
    BY <2>3 DEF Sound, TypeOK
  <2>6. Repository'
    BY <2>1, <2>2, <2>4, <2>5 DEF Sound, Repository, MergedWasApproved
  <2>7. Matching'
    BY <2>1, <2>2, <2>3 DEF Sound, Matching, MergedIsNewest
  <2> QED BY <2>1, <2>6, <2>7
<1>3. CASE repo' = pr_opened /\ flow.at = "proposing"
  BY <1>3, ProposalKeeps DEF Sound, UnderWay, OpeningStages
<1>4. CASE repo' = pr_merged(flow.pr, "merged") /\ flow.at = "merging"
  <2>1. CASE flow.pr \in OpenPRs
    BY <1>4, <2>1, MergeKeeps DEF Sound, UnderWay, MergingStages
  <2>2. CASE flow.pr \notin OpenPRs
    BY <1>1, <1>4, <2>2 DEF pr_merged
  <2> QED BY <2>1, <2>2
<1>5. CASE repo' = branch_deleted /\ flow.at = "cleaning"
  <2>1. repo'.prs = repo.prs /\ RepoOK' /\ repo'.file = 0
    <3>1. repo' = [branch |-> FALSE, file |-> 0, prs |-> repo.prs]
      BY <1>5 DEF branch_deleted, Sound, TypeOK
    <3> QED BY <3>1 DEF Sound, TypeOK, RepoOK
  <2>2. OpenPRs' = OpenPRs /\ Merged' = Merged
    BY <2>1 DEF OpenPRs, Merged
  <2>3. OpenPRs = {}
    BY <1>5, OpenIsLast DEF Sound, UnderWay, MergingStages, Matching
  <2>4. Repository'
    BY <2>1, <2>2, <2>3 DEF Sound, Repository, MergedWasApproved
  <2>5. Matching'
    BY <2>1, <2>2, <2>3 DEF Sound, Matching, MergedIsNewest
  <2> QED BY <2>1, <2>4, <2>5
<1>6. \/ repo' = repo
      \/ repo' = branch_created
      \/ repo' = file_written /\ flow.at = "writing"
      \/ repo' = pr_opened /\ flow.at = "proposing"
      \/ repo' = pr_merged(flow.pr, "merged") /\ flow.at = "merging"
      \/ repo' = branch_deleted /\ flow.at = "cleaning"
  BY DEF requested
<1> QED BY <1>1, <1>2, <1>3, <1>4, <1>5, <1>6
-----------------------------------------------------------------------------
(* The steps. *)

LEMMA ToStage ==
    ASSUME Sound, NEW stage \in OpeningStages \cup MergingStages
    PROVE  /\ To(stage).at = stage /\ To(stage).preview = flow.preview /\ To(stage).pr = flow.pr
           /\ To(stage) \in [at : {"none"} \cup OpeningStages \cup MergingStages,
                             resumed : BOOLEAN, preview : 0 .. MaxPreviews,
                             found : BOOLEAN, pr : Nat]
BY DEF To, Sound, TypeOK

\* A step to the next request.
LEMMA GoingOnKeeps ==
    ASSUME Sound, flow_step, ~proposes, ~finds, ~skips_merge, ~cleans, ~refused
    PROVE  Sound'
<1>1. PICK next :
        /\ goes_on(next)
        /\ \/ flow.at = "reading" /\ next = To("branching")
           \/ flow.at = "branching" /\ next = To("looking")
           \/ /\ flow.at = "looking"
              /\ \E found \in {FALSE, found_file} : next = [To("writing") EXCEPT !.found = found]
           \/ flow.at = "writing" /\ may_write /\ next = To("proposing")
           \/ flow.at = "waiting" /\ next = To("fetching")
           \/ flow.at = "fetching" /\ next = To("merging")
           \/ flow.at = "merging" /\ flow.pr \in OpenPRs /\ next = To("cleaning")
  BY DEF flow_step, reads, branches, looks, writes, waits, fetches_pr, merges
<1>2. /\ repo' = requested /\ flow' = next /\ thread' = thread /\ up' = up
      /\ auto_merge' = auto_merge /\ approved' = approved /\ used' = used
  BY <1>1 DEF goes_on
<1>3. RepoOK' /\ Repository' /\ Matching' /\ Reviewed'
  BY <1>2, RequestKeeps DEF Sound, Reviewed
<1>4. /\ next.preview = flow.preview /\ next.pr = flow.pr
      /\ \/ flow.at \in OpeningStages /\ next.at \in {"branching", "looking", "writing"}
         \/ flow.at = "writing" /\ may_write /\ next.at = "proposing"
         \/ flow.at \in MergingStages /\ next.at \in {"fetching", "merging"}
         \/ flow.at = "merging" /\ flow.pr \in OpenPRs /\ next.at = "cleaning"
      /\ next \in [at : {"none"} \cup OpeningStages \cup MergingStages, resumed : BOOLEAN,
                   preview : 0 .. MaxPreviews, found : BOOLEAN, pr : Nat]
  <2>1. found_file \in BOOLEAN
    BY DEF found_file, Sound, TypeOK
  <2>2. CASE flow.at = "looking"
    <3>1. PICK found \in BOOLEAN : next = [To("writing") EXCEPT !.found = found]
      BY <1>1, <2>1, <2>2
    <3> QED BY <2>2, <3>1, ToStage DEF OpeningStages, MergingStages
  <2>3. CASE flow.at # "looking"
    BY <1>1, <2>3, ToStage DEF OpeningStages, MergingStages
  <2> QED BY <2>2, <2>3
<1>5. next.at = "proposing" => repo'.file = flow.preview
  BY <1>2, <1>4 DEF requested, file_written, Sound, TypeOK, OpeningStages, MergingStages
<1>6. next.at = "cleaning" => flow.pr \notin OpenPRs'
  BY <1>2, <1>4, MergeKeeps
     DEF requested, Sound, UnderWay, OpeningStages, MergingStages
<1>7. UnderWay'
  BY <1>2, <1>4, <1>5, <1>6 DEF UnderWay, Sound, OpeningStages, MergingStages
<1> QED BY <1>2, <1>3, <1>4, <1>7 DEF Sound, TypeOK, RepoOK
\* A flow that ends, well or not, leaves the thread where its approval, or its
\* PR, can be found again.
LEMMA EndKeeps ==
    ASSUME Sound, repo' \in {repo, requested}, approved' = approved, flow' = NoFlow,
           flow.at # "none",
           NEW status \in {"pr_open", "done", "preview_ready"},
           thread' = [thread EXCEPT !.status = status],
           status = "preview_ready" => thread.pr_url = 0,
           up' \in BOOLEAN, auto_merge' \in BOOLEAN, used' \in [failures : Nat, crashes : Nat]
    PROVE  Sound'
<1>1. /\ thread'.preview = thread.preview /\ thread'.pr_url = thread.pr_url
      /\ thread'.status = status
      /\ thread' \in [status : {"preview_ready", "pr_open", "done"},
                      preview : 1 .. MaxPreviews, pr_url : Nat]
  BY DEF Sound, TypeOK
<1>2. RepoOK' /\ Repository' /\ Matching'
  BY <1>1, RequestKeeps
<1>3. Reviewed'
  BY <1>1 DEF Sound, Reviewed, UnderWay
<1>4. UnderWay'
  BY DEF NoFlow, UnderWay, OpeningStages, MergingStages
<1>5. NoFlow \in [at : {"none"} \cup OpeningStages \cup MergingStages, resumed : BOOLEAN,
                  preview : 0 .. MaxPreviews, found : BOOLEAN, pr : Nat]
  BY DEF NoFlow
<1> QED BY <1>1, <1>2, <1>3, <1>4, <1>5 DEF Sound, TypeOK, RepoOK

LEMMA GivingUpKeeps ==
    ASSUME Sound, gives_up, flow.at # "none", repo' \in {repo, requested}, approved' = approved,
           up' = up, auto_merge' = auto_merge, used' \in [failures : Nat, crashes : Nat]
    PROVE  Sound'
<1>1. /\ status_after_error \in {"pr_open", "done", "preview_ready"}
      /\ status_after_error = "preview_ready" => thread.pr_url = 0
  BY DEF status_after_error, Sound, TypeOK, UnderWay
<1> QED BY <1>1, EndKeeps DEF gives_up, Sound, TypeOK

\* The url is recorded of a PR that shows the preview the flow was started for.
LEMMA OpeningKeeps ==
    ASSUME Sound, NEW pr \in Nat \ {0}, opened(pr), RepoOK', Repository', Matching',
           thread.status = "pr_open",
           up' = up, auto_merge' = auto_merge, approved' = approved, used' = used
    PROVE  Sound'
<1>1. /\ thread'.preview = thread.preview /\ thread'.pr_url = pr
      /\ thread'.status = thread.status
      /\ thread' \in [status : {"preview_ready", "pr_open", "done"},
                      preview : 1 .. MaxPreviews, pr_url : Nat]
  BY DEF opened, Sound, TypeOK
<1>2. /\ flow'.at = "waiting" /\ flow'.pr = pr
      /\ flow' \in [at : {"none"} \cup OpeningStages \cup MergingStages, resumed : BOOLEAN,
                    preview : 0 .. MaxPreviews, found : BOOLEAN, pr : Nat]
  BY ToStage DEF opened, MergingStages
<1>3. Reviewed'
  BY <1>1 DEF Sound, Reviewed
<1>4. UnderWay'
  BY <1>1, <1>2 DEF UnderWay, OpeningStages, MergingStages, Sound
<1> QED BY <1>1, <1>2, <1>3, <1>4 DEF Sound, TypeOK, RepoOK

LEMMA ProposingKeeps ==
    ASSUME Sound, proposes
    PROVE  Sound'
<1>1. /\ flow.at = "proposing" /\ repo' = pr_opened /\ thread.pr_url = 0
      /\ approved' = approved /\ up' = up /\ auto_merge' = auto_merge /\ used' = used
      /\ thread.status = "pr_open"
  BY DEF proposes, requested, Sound, UnderWay, OpeningStages
<1>2. CASE may_propose
  <2>1. opened(Len(repo.prs) + 1) /\ Len(repo.prs) + 1 \in Nat \ {0}
    BY <1>2 DEF proposes, Sound, TypeOK
  <2>2. thread'.preview = thread.preview /\ thread'.pr_url = Len(repo.prs) + 1
    BY <2>1 DEF opened, Sound, TypeOK
  <2>3. RepoOK' /\ Repository' /\ Matching'
    BY <1>1, <1>2, <2>2, ProposalKeeps
  <2> QED BY <1>1, <2>1, <2>3, OpeningKeeps
<1>3. CASE ~may_propose
  <2>1. flow' = To("finding") /\ thread' = thread
    BY <1>3 DEF proposes
  <2>2. RepoOK' /\ Repository' /\ Matching' /\ repo'.file = repo.file
    BY <1>1, <2>1, ProposalKeeps
  <2>3. UnderWay'
    BY <1>1, <2>1, <2>2, ToStage DEF Sound, UnderWay, OpeningStages, MergingStages
  <2>4. Reviewed'
    BY <1>1, <2>1 DEF Sound, Reviewed
  <2>5. flow' \in [at : {"none"} \cup OpeningStages \cup MergingStages, resumed : BOOLEAN,
                   preview : 0 .. MaxPreviews, found : BOOLEAN, pr : Nat]
    BY <2>1, ToStage DEF OpeningStages
  <2> QED BY <1>1, <2>1, <2>2, <2>3, <2>4, <2>5 DEF Sound, TypeOK, RepoOK
<1> QED BY <1>2, <1>3

LEMMA FindingKeeps ==
    ASSUME Sound, finds
    PROVE  Sound'
<1>1. PICK pr \in OpenPRs : opened(pr)
  BY DEF finds
<1>2. /\ flow.at = "finding" /\ repo' = repo /\ thread.pr_url = 0 /\ thread.status = "pr_open"
      /\ approved' = approved /\ up' = up /\ auto_merge' = auto_merge /\ used' = used
      /\ repo.file = thread.preview
  BY DEF finds, Sound, UnderWay, OpeningStages
<1>3. pr = Len(repo.prs) /\ pr \in Nat \ {0} /\ repo.prs[pr].state = "open"
  BY OpenIsLast DEF Sound, TypeOK
<1>4. thread'.preview = thread.preview /\ thread'.pr_url = pr
  BY <1>1 DEF opened, Sound, TypeOK
<1>5. RepoOK' /\ Repository' /\ OpenPRs' = OpenPRs /\ Merged' = Merged
  BY <1>2 DEF Sound, TypeOK, RepoOK, Repository, OpenPRs, Merged, MergedWasApproved
<1>6. Matching'
  BY <1>2, <1>3, <1>4, <1>5 DEF Sound, Matching, MergedIsNewest
<1> QED BY <1>1, <1>2, <1>3, <1>5, <1>6, OpeningKeeps
FlowRecord ==
    [at : {"none"} \cup OpeningStages \cup MergingStages, resumed : BOOLEAN,
     preview : 0 .. MaxPreviews, found : BOOLEAN, pr : Nat]

LEMMA FieldsOfFlow ==
    ASSUME NEW r \in FlowRecord
    PROVE  /\ \A stage \in {"none"} \cup OpeningStages \cup MergingStages :
                LET e == [r EXCEPT !.at = stage]
                IN e \in FlowRecord /\ e.at = stage
           /\ \A again \in BOOLEAN :
                LET e == [r EXCEPT !.resumed = again]
                IN e \in FlowRecord /\ e.at = r.at
           /\ \A preview \in 0 .. MaxPreviews :
                LET e == [r EXCEPT !.preview = preview]
                IN e \in FlowRecord /\ e.at = r.at /\ e.preview = preview
           /\ \A pr \in Nat :
                LET e == [r EXCEPT !.pr = pr]
                IN e \in FlowRecord /\ e.at = r.at /\ e.pr = pr
BY DEF FlowRecord

\* The flows a thread may be given.
LEMMA FreshFlows ==
    ASSUME Sound, NEW again \in BOOLEAN
    PROVE  /\ NoFlow \in FlowRecord /\ NoFlow.at = "none"
           /\ opening(again) \in FlowRecord
           /\ opening(again).at = "reading" /\ opening(again).preview = thread.preview
           /\ thread.pr_url # 0 => /\ resumed \in FlowRecord
                                  /\ resumed.at = "waiting" /\ resumed.pr = thread.pr_url
           /\ thread.pr_url = 0 => resumed = opening(TRUE)
<1>1. thread.preview \in 0 .. MaxPreviews /\ thread.pr_url \in Nat
  BY DEF Sound, TypeOK
<1>2. NoFlow \in FlowRecord /\ NoFlow.at = "none"
  BY DEF NoFlow, FlowRecord
<1>3. /\ opening(again) \in FlowRecord
      /\ opening(again).at = "reading" /\ opening(again).preview = thread.preview
  <2> DEFINE r1 == [NoFlow EXCEPT !.at = "reading"]
             r2 == [r1 EXCEPT !.resumed = again]
  <2>1. r1 \in FlowRecord /\ r1.at = "reading"
    BY <1>2, FieldsOfFlow DEF OpeningStages
  <2>2. r2 \in FlowRecord /\ r2.at = "reading"
    <3> HIDE DEF r1
    <3> QED BY <2>1, FieldsOfFlow
  <2>3. opening(again) = [r2 EXCEPT !.preview = thread.preview]
    BY DEF opening
  <2> HIDE DEF r2
  <2> QED BY <1>1, <2>2, <2>3, FieldsOfFlow
<1>4. ASSUME thread.pr_url # 0
      PROVE  resumed \in FlowRecord /\ resumed.at = "waiting" /\ resumed.pr = thread.pr_url
  <2> DEFINE r1 == [NoFlow EXCEPT !.at = "waiting"]
             r2 == [r1 EXCEPT !.resumed = TRUE]
  <2>1. r1 \in FlowRecord /\ r1.at = "waiting"
    BY <1>2, FieldsOfFlow DEF MergingStages
  <2>2. r2 \in FlowRecord /\ r2.at = "waiting"
    <3> HIDE DEF r1
    <3> QED BY <2>1, FieldsOfFlow
  <2>3. resumed = [r2 EXCEPT !.pr = thread.pr_url]
    BY <1>4 DEF resumed
  <2> HIDE DEF r2
  <2> QED BY <1>1, <2>2, <2>3, FieldsOfFlow
<1>5. thread.pr_url = 0 => resumed = opening(TRUE)
  BY DEF resumed
<1> QED BY <1>2, <1>3, <1>4, <1>5

LEMMA SoundStep == Sound /\ [Next]_vars => Sound'
<1> SUFFICES ASSUME Sound, [Next]_vars PROVE Sound'
  OBVIOUS
<1> USE DEF RepoOK
<1>1. ASSUME iterates PROVE Sound'
  <2>1. /\ thread' = [thread EXCEPT !.preview = @ + 1] /\ thread.status = "preview_ready"
        /\ thread.preview < MaxPreviews /\ UNCHANGED <<flow, up, auto_merge, repo, approved, used>>
    BY <1>1 DEF iterates
  <2>2. /\ thread'.preview = thread.preview + 1 /\ thread'.pr_url = thread.pr_url
        /\ thread'.status = "preview_ready" /\ thread.pr_url = 0 /\ flow.at = "none"
        /\ thread' \in [status : {"preview_ready", "pr_open", "done"},
                        preview : 1 .. MaxPreviews, pr_url : Nat]
    BY <2>1 DEF Sound, TypeOK, Reviewed, UnderWay
  <2>3. Matching'
    BY <2>1, <2>2 DEF Sound, TypeOK, Matching, MergedIsNewest, Merged, OpenPRs
  <2> QED BY <2>1, <2>2, <2>3
          DEF Sound, TypeOK, Repository, MergedWasApproved, Merged, OpenPRs, Reviewed, UnderWay,
              OpeningStages, MergingStages
<1>2. ASSUME approve PROVE Sound'
  <2>1. /\ thread' = [thread EXCEPT !.status = "pr_open"] /\ thread.status = "preview_ready"
        /\ flow' = opening(FALSE) /\ approved' = approved \cup {thread.preview}
        /\ UNCHANGED <<up, auto_merge, repo, used>>
    BY <1>2 DEF approve
  <2>2. /\ thread'.preview = thread.preview /\ thread'.pr_url = 0 /\ thread.pr_url = 0
        /\ thread'.status = "pr_open"
        /\ thread' \in [status : {"preview_ready", "pr_open", "done"},
                        preview : 1 .. MaxPreviews, pr_url : Nat]
        /\ thread.preview \in 1 .. MaxPreviews
    BY <2>1 DEF Sound, TypeOK, Reviewed
  <2>3. /\ flow'.at = "reading" /\ flow'.preview = thread.preview
        /\ flow' \in FlowRecord
    BY <2>1, FreshFlows
  <2>4. Repository'
    BY <2>1 DEF Sound, Repository, MergedWasApproved, Merged, OpenPRs
  <2>5. \A i \in DOMAIN repo.prs : repo.prs[i].state # "merged"
    BY <2>2 DEF Sound, Matching
  <2>6. Matching'
    BY <2>1, <2>2, <2>5 DEF Sound, TypeOK, Matching, MergedIsNewest, Merged, OpenPRs
  <2>7. UnderWay' /\ Reviewed'
    BY <2>1, <2>2, <2>3 DEF UnderWay, Reviewed, OpeningStages, MergingStages
  <2>8. TypeOK'
    BY <2>1, <2>2, <2>3 DEF Sound, TypeOK, FlowRecord
  <2> QED BY <2>4, <2>6, <2>7, <2>8 DEF Sound
<1>3. ASSUME crash PROVE Sound'
  <2>1. /\ repo' \in {repo, requested} /\ up' = FALSE /\ flow' = NoFlow /\ approved' = approved
        /\ thread' = thread /\ auto_merge' = auto_merge
        /\ used' = [used EXCEPT !.crashes = @ + 1]
    BY <1>3 DEF crash
  <2>2. RepoOK' /\ Repository' /\ Matching'
    BY <2>1, RequestKeeps
  <2>3. UnderWay' /\ Reviewed'
    BY <2>1 DEF Sound, Reviewed, NoFlow, UnderWay, OpeningStages, MergingStages
  <2>4. TypeOK'
    <3>1. used' \in [failures : Nat, crashes : Nat]
      BY <2>1 DEF Sound, TypeOK
    <3> QED BY <2>1, <2>2, <3>1, FreshFlows DEF Sound, TypeOK, FlowRecord
  <2> QED BY <2>2, <2>3, <2>4 DEF Sound
<1>4. ASSUME boot PROVE Sound'
  <2>1. /\ thread' = thread /\ repo' = repo /\ approved' = approved /\ used' = used
        /\ up' = TRUE /\ auto_merge' \in BOOLEAN
        /\ \/ flow' = NoFlow
           \/ flow' = resumed /\ thread.status = "pr_open"
    BY <1>4 DEF boot
  <2>2. /\ flow' \in FlowRecord
        /\ flow'.at \in {"none", "reading", "waiting"}
        /\ flow'.at # "none" => thread.status = "pr_open"
        /\ flow'.at = "reading" => thread.pr_url = 0 /\ flow'.preview = thread.preview
        /\ flow'.at = "waiting" => thread.pr_url # 0 /\ flow'.pr = thread.pr_url
    BY <2>1, FreshFlows
  <2>3. UnderWay'
    BY <2>1, <2>2 DEF UnderWay, OpeningStages, MergingStages
  <2>4. TypeOK'
    BY <2>1, <2>2 DEF Sound, TypeOK, FlowRecord
  <2>5. Repository' /\ Matching' /\ Reviewed'
    BY <2>1 DEF Sound, Repository, MergedWasApproved, Merged, OpenPRs, Matching, MergedIsNewest,
                Reviewed
  <2> QED BY <2>3, <2>4, <2>5 DEF Sound
<1>5. ASSUME skips_merge PROVE Sound'
  BY <1>5, EndKeeps DEF skips_merge, rolled_out, Sound, TypeOK
<1>6. ASSUME cleans PROVE Sound'
  BY <1>6, EndKeeps DEF cleans, rolled_out, Sound, TypeOK
<1>7. ASSUME refused PROVE Sound'
  BY <1>7, GivingUpKeeps DEF refused, Sound, TypeOK
<1>8. ASSUME lost PROVE Sound'
  <2>1. used' \in [failures : Nat, crashes : Nat] /\ flow.at # "none"
    BY <1>8 DEF lost, Sound, TypeOK, OpeningStages, MergingStages
  <2> QED BY <1>8, <2>1, GivingUpKeeps DEF lost
<1>9. ASSUME human_merges PROVE Sound'
  <2>1. /\ thread' = thread /\ flow' = flow /\ up' = up /\ auto_merge' = auto_merge
        /\ approved' = approved /\ used' = used
    BY <1>9 DEF human_merges
  <2>2. RepoOK' /\ Repository' /\ Matching' /\ OpenPRs' = {} /\ repo'.file = repo.file
    BY <1>9, MergeKeeps DEF human_merges
  <2>3. UnderWay' /\ Reviewed'
    BY <2>1, <2>2 DEF Sound, UnderWay, Reviewed
  <2> QED BY <2>1, <2>2, <2>3 DEF Sound, TypeOK
<1>10. ASSUME UNCHANGED vars PROVE Sound'
  BY <1>10 DEF vars, Sound, TypeOK, Repository, MergedWasApproved, Merged, OpenPRs, Matching,
               MergedIsNewest, Reviewed, UnderWay
<1> QED
  BY <1>1, <1>2, <1>3, <1>4, <1>5, <1>6, <1>7, <1>8, <1>9, <1>10,
     GoingOnKeeps, ProposingKeeps, FindingKeeps
     DEF Next, flow_step

LEMMA SoundAlways == Spec => []Sound
BY SoundInit, SoundStep, PTL DEF Spec

-----------------------------------------------------------------------------
(* What follows. *)

\* The variables have their types, wherever requests are lost or processes die.
THEOREM PullRequestTypes == Spec => []TypeOK
<1>1. Sound => TypeOK
  BY DEF Sound
<1> QED BY <1>1, SoundAlways, PTL

\* "so resume_pr_flow never creates a duplicate", however often opening a PR
\* was interrupted and tried again.
THEOREM OnePRPerThread == Spec => []OnePR
<1>1. Sound => OnePR
  BY DEF Sound, TypeOK, Repository, OnePR
<1> QED BY <1>1, SoundAlways, PTL

\* Only what was approved is merged, by whomever.
THEOREM OnlyApprovedIsMerged == Spec => []MergedWasApproved
<1>1. Sound => MergedWasApproved
  BY DEF Sound, Repository
<1> QED BY <1>1, SoundAlways, PTL

\* The flow merges the newest preview approved.
THEOREM NewestIsMerged == Spec => []MergedIsNewest
<1>1. Sound => MergedIsNewest
  BY DEF Sound, Matching
<1> QED BY <1>1, SoundAlways, PTL

\* A thread becomes done only behind a merge, auto-merge being on.
THEOREM StatusNeverLeads == Spec => StatusTrailsMerge
<1>1. Sound /\ [Next]_vars /\ auto_merge /\ thread.status # "done" /\ thread'.status = "done"
        => Merged # {}
  <2> SUFFICES ASSUME Sound, Next, auto_merge, thread.status # "done", thread'.status = "done"
               PROVE  Merged # {}
    BY DEF vars
  <2>1. cleans
    BY DEF Next, iterates, approve, crash, boot, lost, human_merges, gives_up, flow_step, reads,
           branches, looks, writes, proposes, opened, finds, waits, skips_merge, fetches_pr, merges,
           refused, goes_on, status_after_error, Sound, TypeOK
  <2>2. flow.pr = Len(repo.prs) /\ flow.pr # 0 /\ flow.pr \notin OpenPRs
    BY <2>1 DEF cleans, Sound, UnderWay, MergingStages, Matching
  <2>3. flow.pr \in DOMAIN repo.prs
    BY <2>2 DEF Sound, TypeOK
  <2> QED BY <2>2, <2>3 DEF Merged, OpenPRs
<1>2. Sound /\ [Next]_vars =>
        [auto_merge /\ thread.status # "done" /\ thread'.status = "done" => Merged # {}]_vars
  BY <1>1
<1> QED BY <1>2, SoundAlways, PTL DEF Spec, StatusTrailsMerge
=============================================================================
