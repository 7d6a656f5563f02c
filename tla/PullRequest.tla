---------------------------- MODULE PullRequest ----------------------------
(***************************************************************************)
(* The PR flow of one thread at the grain of its HTTP requests:            *)
(* backend/agent/github.py (GitHubPRService) under the flow of             *)
(* backend/agent/runner.py (_pr_flow, _ci_merge_rollout, resume_pr_flow).  *)
(*                                                                         *)
(* Every request may fail, with or without having had its effect, and the  *)
(* process may die between any two of them.  The service at the other end  *)
(* is the external part, modelled as the code expects it to behave:        *)
(* creating a branch that exists, proposing a branch that has an open PR,  *)
(* and merging a PR that is not open are refused.                          *)
(*                                                                         *)
(* The thread's preview is a number; a commit's file is the preview whose  *)
(* patches it carries.                                                     *)
(***************************************************************************)
EXTENDS Integers, Sequences

CONSTANTS
    AutoMerges,    \* the values GITHUB_AUTO_MERGE may have; a restart may change it
    MaxPreviews,   \* bounds: iterations of the thread
    MaxFailures,   \*         failed requests
    MaxCrashes     \*         deaths of the process

ASSUME AutoMergesAssumption == AutoMerges \subseteq BOOLEAN /\ AutoMerges # {}
ASSUME BoundsAssumption ==
    MaxPreviews \in Nat \ {0} /\ {MaxFailures, MaxCrashes} \subseteq Nat

VARIABLES
    thread,     \* the database: status, preview_sha, pr_url
    flow,       \* the flow in the memory of the process
    up,         \* is there a process?
    auto_merge, \* its setting
    repo,       \* GitHub: the thread's branch and its PRs
    approved,   \* history: previews that were approved
    used        \* how much of the bounds is used up

vars == <<thread, flow, up, auto_merge, repo, approved, used>>

NoFile == 0
NoUrl == 0

(***************************************************************************)
(* A flow awaits the request of its stage.  "reading" stands for the       *)
(* requests that look at the default branch, "fetching" for the PR's title *)
(* and head; "waiting" for CI, which is a pause here.                      *)
(***************************************************************************)
OpeningStages == {"reading", "branching", "looking", "writing", "proposing", "finding"}
MergingStages == {"waiting", "fetching", "merging", "cleaning"}

NoFlow == [at |-> "none", resumed |-> FALSE, preview |-> 0, found |-> FALSE, pr |-> NoUrl]

Init ==
    /\ thread = [status |-> "preview_ready", preview |-> 1, pr_url |-> NoUrl]
    /\ flow = NoFlow
    /\ up = TRUE
    /\ auto_merge \in AutoMerges
    /\ repo = [branch |-> FALSE, file |-> NoFile, prs |-> <<>>]
    /\ approved = {}
    /\ used = [failures |-> 0, crashes |-> 0]

-----------------------------------------------------------------------------
(* GitHub.  A PR shows its branch until it is merged. *)

PR == [state : {"open", "merged", "merged_by_hand"}, file : 0 .. MaxPreviews]

OpenPRs == {i \in DOMAIN repo.prs : repo.prs[i].state = "open"}

branch_created == [repo EXCEPT !.branch = TRUE]

\* A file that is there is only replaced by somebody who names its blob.
may_write == repo.branch /\ (flow.found <=> repo.file # NoFile)

\* Variant that keeps a file that is there.
file_kept == IF may_write /\ ~flow.found THEN [repo EXCEPT !.file = flow.preview] ELSE repo

file_written == IF may_write THEN [repo EXCEPT !.file = flow.preview] ELSE repo

may_propose == repo.branch /\ repo.file # NoFile /\ OpenPRs = {}
pr_opened == IF may_propose
             THEN [repo EXCEPT !.prs = Append(@, [state |-> "open", file |-> NoFile])]
             ELSE repo

\* `merged` says by whom.
pr_merged(pr, merged) ==
    IF pr \in OpenPRs
    THEN [repo EXCEPT !.prs[pr] = [state |-> merged, file |-> repo.file]]
    ELSE repo

branch_deleted == [repo EXCEPT !.branch = FALSE, !.file = NoFile]

\* What the request the flow awaits does to the repository.
requested ==
    CASE flow.at = "branching" -> branch_created
      [] flow.at = "writing"   -> file_written
      [] flow.at = "proposing" -> pr_opened
      [] flow.at = "merging"   -> pr_merged(flow.pr, "merged")
      [] flow.at = "cleaning"  -> branch_deleted
      [] OTHER                 -> repo

-----------------------------------------------------------------------------
(* The thread. *)

\* Variant that takes comments on a thread that has been approved.
iterates_after_approval ==
    /\ up /\ thread.preview < MaxPreviews
    /\ thread' = [thread EXCEPT !.preview = @ + 1]
    /\ UNCHANGED <<flow, up, auto_merge, repo, approved, used>>

\* A comment on the preview led to the next one.
iterates ==
    /\ up /\ thread.status = "preview_ready" /\ thread.preview < MaxPreviews
    /\ thread' = [thread EXCEPT !.preview = @ + 1]
    /\ UNCHANGED <<flow, up, auto_merge, repo, approved, used>>

\* The flow a preview is approved for, or a restart resumes without a PR.
opening(again) ==
    [NoFlow EXCEPT !.at = "reading", !.resumed = again, !.preview = thread.preview]

approve ==
    /\ up /\ flow = NoFlow
    /\ thread.status = "preview_ready"
    /\ thread' = [thread EXCEPT !.status = "pr_open"]
    /\ flow' = opening(FALSE)
    /\ approved' = approved \cup {thread.preview}
    /\ UNCHANGED <<up, auto_merge, repo, used>>

\* A request under way may still arrive.
crash ==
    /\ up /\ used.crashes < MaxCrashes
    /\ repo' \in {repo, requested}
    /\ up' = FALSE
    /\ flow' = NoFlow
    /\ used' = [used EXCEPT !.crashes = @ + 1]
    /\ UNCHANGED <<thread, auto_merge, approved>>

\* Variant of resume_pr_flow that always opens the PR again.
resumed_anew == opening(TRUE)

\* resume_pr_flow
resumed ==
    IF thread.pr_url = NoUrl
    THEN opening(TRUE)
    ELSE [NoFlow EXCEPT !.at = "waiting", !.resumed = TRUE, !.pr = thread.pr_url]

\* recover: merged and done are set in one turn, so a thread under way is at
\* pr_open.
boot ==
    /\ ~up /\ up' = TRUE
    /\ auto_merge' \in AutoMerges
    /\ flow' = IF thread.status = "pr_open" THEN resumed ELSE NoFlow
    /\ UNCHANGED <<thread, repo, approved, used>>

-----------------------------------------------------------------------------
(* The requests, answered. *)

\* The flow goes on to its next request; the thread is left alone.
goes_on(next) ==
    /\ repo' = requested
    /\ flow' = next
    /\ UNCHANGED <<thread, up, auto_merge, approved, used>>

To(stage) == [flow EXCEPT !.at = stage]

reads == flow.at = "reading" /\ goes_on(To("branching"))

branches == flow.at = "branching" /\ goes_on(To("looking"))

\* Is the file there already?
found_file == repo.branch /\ repo.file # NoFile

\* An answer that is neither 200 nor 404 goes for "not there", too.
looks ==
    /\ flow.at = "looking"
    /\ \E found \in {FALSE, found_file} : goes_on([To("writing") EXCEPT !.found = found])

writes == flow.at = "writing" /\ may_write /\ goes_on(To("proposing"))

\* open_pr returns the url: recorded, then CI.
opened(pr) ==
    /\ thread' = [thread EXCEPT !.pr_url = pr]
    /\ flow' = [To("waiting") EXCEPT !.pr = pr]

proposes ==
    /\ flow.at = "proposing"
    /\ repo' = requested
    /\ IF may_propose
       THEN opened(Len(repo.prs) + 1)
       ELSE flow' = To("finding") /\ UNCHANGED thread
    /\ UNCHANGED <<up, auto_merge, approved, used>>

finds ==
    /\ flow.at = "finding"
    /\ \E pr \in OpenPRs : opened(pr)
    /\ UNCHANGED <<up, auto_merge, repo, approved, used>>

\* merge() returned: MERGED and DONE in one turn.
rolled_out ==
    /\ thread' = [thread EXCEPT !.status = "done"]
    /\ flow' = NoFlow

waits == flow.at = "waiting" /\ auto_merge /\ goes_on(To("fetching"))

\* merge() returns without merging when auto-merge is off.
skips_merge ==
    /\ flow.at = "waiting" /\ ~auto_merge
    /\ rolled_out
    /\ UNCHANGED <<up, auto_merge, repo, approved, used>>

fetches_pr == flow.at = "fetching" /\ goes_on(To("merging"))

merges == flow.at = "merging" /\ flow.pr \in OpenPRs /\ goes_on(To("cleaning"))

\* "best-effort branch cleanup": nobody looks at the answer.
cleans ==
    /\ flow.at = "cleaning"
    /\ repo' \in {repo, requested}
    /\ rolled_out
    /\ UNCHANGED <<up, auto_merge, approved, used>>

\* Variant that takes the merge for granted.
status_before_merge ==
    IF flow.at \in OpeningStages /\ ~flow.resumed THEN "preview_ready" ELSE "done"

\* Where an error leaves the thread: a fresh flow that could not open its PR
\* reverts the approval.
status_after_error ==
    IF flow.at \in OpeningStages /\ ~flow.resumed THEN "preview_ready" ELSE thread.status

gives_up ==
    /\ thread' = [thread EXCEPT !.status = status_after_error]
    /\ flow' = NoFlow

\* The answer refuses.
refused ==
    /\ \/ flow.at = "writing" /\ ~may_write
       \/ flow.at = "finding" /\ OpenPRs = {}
       \/ flow.at = "merging" /\ flow.pr \notin OpenPRs
    /\ gives_up
    /\ UNCHANGED <<up, auto_merge, repo, approved, used>>

\* No answer, whether or not the request had its effect.
lost ==
    /\ flow.at \in (OpeningStages \cup MergingStages) \ {"waiting"}
    /\ used.failures < MaxFailures
    /\ used' = [used EXCEPT !.failures = @ + 1]
    /\ repo' \in {repo, requested}
    /\ gives_up
    /\ UNCHANGED <<up, auto_merge, approved>>

-----------------------------------------------------------------------------
(* Somebody on GitHub. *)

human_merges ==
    /\ \E pr \in OpenPRs : repo' = pr_merged(pr, "merged_by_hand")
    /\ UNCHANGED <<thread, flow, up, auto_merge, approved, used>>

-----------------------------------------------------------------------------
flow_step ==
    \/ reads \/ branches \/ looks \/ writes \/ proposes \/ finds
    \/ waits \/ skips_merge \/ fetches_pr \/ merges \/ cleans \/ refused

Next == iterates \/ approve \/ crash \/ boot \/ flow_step \/ lost \/ human_merges

Spec == Init /\ [][Next]_vars

-----------------------------------------------------------------------------
(* Properties. *)

\* The types of the variables.
TypeOK ==
    /\ thread \in [status : {"preview_ready", "pr_open", "done"},
                   preview : 1 .. MaxPreviews, pr_url : Nat]
    /\ flow \in [at : {"none"} \cup OpeningStages \cup MergingStages, resumed : BOOLEAN,
                 preview : 0 .. MaxPreviews, found : BOOLEAN, pr : Nat]
    /\ up \in BOOLEAN /\ auto_merge \in BOOLEAN
    /\ repo \in [branch : BOOLEAN, file : 0 .. MaxPreviews, prs : Seq(PR)]
    /\ approved \subseteq 1 .. MaxPreviews
    /\ used \in [failures : Nat, crashes : Nat]

\* "so resume_pr_flow never creates a duplicate": however often opening the PR
\* was interrupted, answered into the void, or approved anew, the thread has
\* one PR, those that somebody merged on GitHub meanwhile aside.
OnePR ==
    \A i, j \in DOMAIN repo.prs :
        "merged_by_hand" \notin {repo.prs[i].state, repo.prs[j].state} => i = j

Merged == {i \in DOMAIN repo.prs : repo.prs[i].state # "open"}

\* Nothing is merged but a preview somebody approved, whoever merges it,
\* after whatever became of earlier attempts to open the PR.
MergedWasApproved == \A i \in Merged : repo.prs[i].file \in approved

\* What the flow merges is the newest preview that was approved, not what an
\* earlier attempt left on the branch.
MergedIsNewest ==
    \A i \in Merged, v \in approved :
        repo.prs[i].state = "merged" => v <= repo.prs[i].file

\* "Status trails the side effect, never leads it": with auto-merge on, a
\* thread is done only once its change is merged, whatever failed on the way.
\* (With auto-merge off, merge() returns without merging and the thread is
\* done all the same.)
StatusTrailsMerge ==
    [][auto_merge /\ thread.status # "done" /\ thread'.status = "done" => Merged # {}]_vars
=============================================================================
