# quack-extensions in TLA+

A verification development kept beside `quack-extensions`: TLA+ modules of the
parts of the repository whose difficulty is concurrency, restarts, stale reads
and many ways through one decision, TLC configurations that check them on small instances, and theorems
about them checked by TLAPS for every instance.

All paths below are relative to the repository root (`src/`).

## 1. The system

`quack` is a host that runs chats with agents. This repository holds its
extensions: Go packages that register with the host (`sdk`), receive webhooks
or pages, dispatch runs (`Host.Dispatch`, fire and forget), and are called back
when a run ends (`RunEnded`).

| component | state it keeps | operations | hard because |
|---|---|---|---|
| github: keyed mutex (`lock.go`) | map of counted mutexes | `Lock`, unlock | entries are created and dropped while others look them up |
| github: run lifecycle (`webhook.go`, `run.go`, `extension.go`, `store.go`) | `inflight` claims with a lease, `pending` runs in memory, `github_pending_run` rows, last delivery outcomes | `dispatch`, `RunEnded`, nudge, `finalize`, `Start` | three records of one fact, no lock over them, late and lost outcomes, restarts |
| github: merge gate (`merge.go`) | `github_merge_intent` row; everything else is read from GitHub | `tryMerge` after every event, label, push, close | many reads of a pull request that changes between them; no polling |
| github: CI self-heal (`cifix.go`) | `github_fix_state` row | `autoHeal`, `fixLabelApplied`, `beginFix` | must not loop; several workflows fail at once and late |
| github: webhook routing (`webhook.go`) | none | signature, event, action, sender and label to handler and payload | many early returns, each with its own check of who may ask |
| github: store (`store.go`) | SQLite tables, opened on first use | upserts, deletes, migrations | opened by whoever is first |
| github: delivery (`tools.go`, `app.go`) | last outcome per chat, review lock | `Deliver`, `RecoverDelivery`, anchoring of findings | partial failure, lost answers, retries, a page is all a list call sees |
| github: snapshot and review baseline (`snapshot.go`, `envelope.go`) | stored snapshot and reviewed patch ids | `diffSnapshots`, scope | rebases, deletions, closes during a run |
| github: grant, intent, verdict (`grant.go`, `intent.go`, `envelope.go`) | a cached classification | `computeGrant`, classification by a model | fail-closed logic; one question asked several times of a model |
| github: input artifacts (`artifactio.go`) | artifacts of the host | read and store every endpoint of a thread | paging while lists change, failures in the middle |
| github: decision records (`decisions.go`) | none | questions about a delivered review | budgets shared out over many pieces |
| github: GitHub client (`app.go`, `internal/httpx`) | token, installation, diff caches | REST calls with retries | staleness, resending |
| sleeper | running badges, response caches, daily snapshots | pages, tools, dispatch | badge races, copies of different ages, crashes between write and rename, exact assignment |
| remarkable | `state.json` per document | ingest, `RunEnded`, `Start` | mark after dispatch, save per batch |
| noop, usage, sdk, tools | a counter; nothing; a registry; nothing | - | - |

How they interact, in the github extension: a webhook handler answers at once
and spawns goroutines. `dispatch` claims the session (`inflight`), prepares,
records the run (`pending`, then the row) and hands it to the host. The host
calls `RunEnded` with the chat id only; `finalize` settles the run, evaluates
the merge if a review was delivered, and releases the session. `tryMerge`,
`reviewOnMovedHeadUnderIntent` and `autoHeal` serialize on `mergeMu`, a
`keyedMutex`, per chat. Rows survive a restart, memory does not.

In sleeper and remarkable a page's POST dispatches runs itself and a callback
ends them; the tools only read, through caches whose locks are not held while
the network is asked.

## 2. The modules

```
KeyLock  <--refines--  KeyedMutex  <--  KeyedMutexProofs     MCKeyedMutex
                       RunLifecycle <-- RunLifecycleProofs   MCRunLifecycle
                       MergeGate    <-- MergeGateProofs      MCMergeGate
                       AutoHeal     <-- AutoHealProofs       MCAutoHeal
                       ReviewScope  <-- ReviewScopeProofs    MCReviewScope
                       Routing      <-- RoutingProofs        MCRouting
                       Delivery     <-- DeliveryProofs
  Findings GitHubClient Ingest
  Lineup SleeperReads SleeperRuns   (Selection)
  Trends DecisionRecords            SmallMachines <--
  InputArtifacts Draft              SmallMachinesProofs      MCSmallMachines
```

`PROJECT.json` names, for each definition, the lines it models.

### KeyedMutex (lock.go), and KeyLock

`locks` is the map, a `refMutex` is an object with a count `n` and a mutex
`locked`, and `l[p]` the object goroutine `p` has looked up. One action per
critical section of the guarding `k.mu`: `RegisterNew`/`RegisterExisting`
(lines 20-30), `Acquire` (32), `Unlock` (34), `Deregister` (35-39), so that a
goroutine may be between any two of them. `KeyLock` is what the users rely on:
at most one holder per key. `ImplementsKeyLock` is that KeyedMutex refines it.

### RunLifecycle (webhook.go, run.go, extension.go, store.go)

One session. An *attempt* is one trigger with the goroutine that dispatches it,
the run on the host and the goroutine of its outcome; `pc[a]` is where it is.

| variable | code |
|---|---|
| `inflight` | `e.inflight[sessionID]`: a token (who put it there) and its age |
| `pending`, `pr`, `loaded` | `e.pending[chatID]`, the `pendingRun` objects, the one an outcome works on |
| `row` | the `github_pending_run` row |
| `held` | the token `finalize`'s deferred `CompareAndDelete` will compare |
| `detail` | `deliveryResults[chatID]` |
| `label`, `nudge`, `again` | `isLabelTrigger`, a nudge is under way, `reReview` |
| `boot`, `claims` | how far `Start` is, and what it has read |
| `timer` | how long the attempt has been in its phase |

An action is a step between two shared accesses, in the code's order: `Trigger`
claims, `StorePending`, `StoreRow`, `DispatchReturns`; on refusal `UndoPending`,
`UndoClaim`, `UndoRow`; on an outcome `LoadPending` (or `ReadRow`,
`RebuildClaim`), `Nudge` or `FinishRun`, `Settle`, then finalize's defers in
their order `DelRow`, `DelPending`, `Release`, and `Redispatch`. `claimInflight`
is one action: its loop retries until its compare-and-swap is atomic.

Time is a tick that ages the claim and the row and advances every timer; an
attempt that has used up its phase's bound must leave it before time passes
(`MayWait`). `PrepTicks`, `RunTicks`, `FinalizeTicks` and `MarginTicks` stand
for the two-minute API budget of `dispatch` (`cifix.go:22`), the run timeout
(`extension.go`, always positive, two hours by default), the calls of
`finalize` (10 s + 2 min + 1 min) and the lease's ten minutes
(`webhook.go:656`). The wait for `mergeMu` and the deletes on a background
context are not bounded in the code; they are taken as part of `FinalizeTicks`.

`Faults` chooses what may go wrong: `queue` (the run waits in the host's queue,
which the timeout does not bound, `sdk.go:321`), `lose` (a run never reported),
`refuse` (`Host.Dispatch` returns an error), `store` (a write or read fails),
`crash` (the process stops and starts; a run is resumed with its deadline, or
lost). A crash kills the goroutines of an outcome; the host does not report it
again. Triggers come after `Start` has begun its work as in the code: webhooks
are routed after it. A re-review is a new attempt; when attempts are used up
(`Exhausted`) it is not taken, the bound of the model.

### MergeGate (merge.go)

One pull request. GitHub's side is the environment: `Push`, `Label`, `Unlabel`,
`Close`, `HumanReview`, `Dismiss`, `CI`, and the review run (`AskReview`,
`RefreshClone`, `RunDelivers`, `RunFails`), at most `MaxMoves` of them. Each
leaves the webhook it causes as a task in `todo`, taken up in any order at any
later time by one of the goroutines `Worker`. `tryMerge` is a sequence of
actions, one per lookup or write: `GetIntent`, `Adopt`, `Actor`, `AdoptIntent`,
`ReadVerdict`, `PullMeta`, `Blockers`, `Objections`, `Checks`, `Suites`,
`MergePR` (or `NotMerged`, `Refused`), `Consume`. `Return` is every early return, with what the caller does
of the outcome: `mergeIfApproved` asks for a review of an unreviewed or stale
head, `finish` re-reviews a stale one. `GetPushed`/`SetPushed` are
`reviewOnMovedHeadUnderIntent`. The unlabel and close handlers are `Clear`: one
statement outside `mergeMu`. A verdict marker that names no commit is trusted,
as in the code; no delivery writes one. `CIStates` are the distinctions
`allChecksGreen` and `headHasPendingCI` draw. History variables record which heads an approval
was pinned to, which quack read, which had passed CI, consent, and mishaps.

`Moves` adds the mishaps: `dismiss` (an objection is dismissed), `refuse` (GitHub
refuses the merge) and `apifail` (a lookup fails: the evaluation ends, except
that failing CI lookups go on to the merge). Each counts as a move. With none
allowed, the violation runs show what happens when nothing goes wrong.

Left out: what is written onto the verdict, auto-archive, failing deletes of the
row, the restart of the process (the row is all that is kept, and a webhook
lost with the process is one that comes never), forks, reopening.

### AutoHeal (cifix.go)

One pull request, of quack's or a human's. Commits are pushed by humans or by
the fix run; `Fail` is a workflow failing on any commit, late ones included.
`autoHeal` is `Eligible`, `Lock`, `GetState`, `Author`, then `Stop`, or
`Persist` and `Dispatch`; `fixLabelApplied` is `Delete`, `Checks`, `Persist`,
`Dispatch`, without the lock. `fixes` records what was written to the row since
the label last re-armed the loop. Faults: `crash`, `store`, `api`. Runs other
than fixes that hold the session are left out: a dispatch is dropped just as
well by the fix run of an earlier commit.

### ReviewScope (snapshot.go, run.go, envelope.go)

What a run on a pull request is told, and what is remembered of that. GitHub's
side is `commits` and `comments` (with versions, so that an edit is told from a
new comment); `baseline` and `watermark` are the two rows. `Webhook` holds the
comment as it was sent, `Dispatch` fetches (any list may fail and is then
empty, `FetchSnapshot`), compares (`ReviewScopeOf`, `CommentsBlock`) and keeps
the context in memory; `RunEnded` writes the rows from it, as the outcome
says (`Persists`, `AdvanceReviewBaseline`). `Push`, `Write`,
`ForgetChatHistory` and `Restart` come at any time. A restart loses the
context, and `RunEnded` then fetches the thread as it is by then; `rebuilt`
remembers that this happened. A commit is its patch-id: a rebase that changes
none changes nothing here.

Left out: bots, timeline events, titles and labels in the difference, the
rendering.

### Delivery (tools.go, app.go)

`Stage` is a gated revision with its items in any order, `Deliver` with
`DeliverPR`, `CollapsePriorReviews`, `SubmitReview`, `DeliverComment` posts
them one by one past each other's errors, `RecordDelivery` joins the errors.
A list call answers with its first page or fails; a post lands or does not, and
the answer of one that landed may be lost (`PostResults`). `Crash` ends a
delivery anywhere; `RecoverDelivery` looks for the key in the reviews and takes
the whole revision for delivered, or delivers it again. `PostsOther` are other
people, who fill the page. The push of the branch is `DeliverNothing` or not;
its mechanics, and the formatting of bodies, are left out.

### Routing (webhook.go, intent.go, envelope.go, grant.go)

One event and one subject with its labels, configuration triggers a constant.
The handlers are `handleIssueComment`, `handlePullRequest`,
`handlePullRequestReview`, `engageOwnPRReview` and `handleIssues`, with `woke`
the effects besides a run. The dispatch is `Load`, `dispatchGrant`
(`computeGrant`), `deliverableIsPlan`, `buildEnvelope`, `buildWorkerAsk`,
`Send`: three times somebody asks what is requested, and the classifying model
may answer anything, or nothing, at each call that is not served from the
cache. `Relabel` changes labels between any two steps. What a comment says is
what the regular expressions tell apart (`Task`). Signature, JSON,
acknowledgement and wording are left out.

### The small machines

Ten modules that share nothing with each other, each the part of a component
that is hard on its own.

| module | code | what it is |
|---|---|---|
| `Findings` | `tools.go`, `app.go` | the diff is parsed, possibly from a copy, every finding moved to a line that can carry it or into the body, the review refused and submitted again; the head moves |
| `GitHubClient` | `app.go`, `internal/httpx` | installation and token caches without a lock across requests, the retrying transport, requests and answers lost |
| `DecisionRecords` | `decisions.go` | the questions about a delivered review and the sharing out of their budget, the entries that count the rest included |
| `InputArtifacts` | `artifactio.go` | endpoints read page by page and stored by name while lists grow, at the end or, where GitHub sorts them, in the middle, and shrink, and calls fail |
| `Ingest` | `remarkable/` | submissions, dispatch, marks, one save per batch, `RunEnded` before the mark, crash and start |
| `SleeperRuns` | `sleeper/run.go`, `ui.go`, `decisions.go` | the set of running badges against the host's turns, and the questions about a finished run's advice |
| `SleeperReads` | `sleeper/client.go`, `tools_*.go` | the paths a tool's reads may take, which of them may fail, the shared cache, and the two answers that depend on age: lock and name |
| `Trends` | `sleeper/snapshot.go`, `tools_trends.go` | a record a day written beside and renamed, players the dump does not have left out, the range reader and its last read for the names, crashes and unreadable files |
| `Lineup` | `sleeper/history_lineup.go`, `tools_matchup.go` | best lineup, swaps, free agents, as pure operators against every lineup the rules allow |
| `Draft` | `sleeper/draft.go` | the clock and the best available from two copies of different ages |

`Selection` is what a Go loop with a `continue` and an `append` leaves of a list,
in a form that can be reasoned about; `Findings`, `DecisionRecords`,
`SleeperRuns` and `Lineup` extend it.

In `Lineup` a strict slot (`RB`) takes the next best of its position, and the flex
slots are solved together by the recursion of `maxWeightAssignment`, whose bit
mask is a set of candidate numbers: a bit past the width is no bit, as
`uint32(1) << 32` is 0. So `LineupIsOptimal` speaks of rosters with no more fit
players than bits. The code starts the best of a strict slot's position whatever
he scored, also less than nothing; so the lineups it is compared with are those
that leave a slot empty only when nobody who scored less than nothing could have
it (`Starts`). They may fill the strict slots in any other way.

`SmallMachines` INSTANCEs all ten, each with constants of its own, and is their
sum: `which` says whose behaviour this is, `Parts` which are taken part in, the
variables of the others keep `None`. They are in one run because they are
independent questions of small size; a property there is the property of that
name in its module, for the behaviours of that part. `MCSmallMachines` and its
configurations give the bounds. A part takes `Range` or `SumFunction` from
`Functions`, and `SequencesExt` only where it flattens or folds sequences: the
prover carries all that each of the ten instances defines.

## 3. The runs

All on two TLC workers, each well under five minutes. Deadlock is not checked
where the bounds on triggers or moves let the system stop. Every larger module
states its types as `TypeOK`; it is proved (below), and no run spends a property
on it.

| run | instance | shows |
|---|---|---|
| `keyed_mutex` | 3 goroutines, 2 keys, 3 lock objects | `MutualExclusion`, `NoLeakedEntry`, refinement of `KeyLock`; with fairness `EveryLockReturns` |
| `run_lifecycle` | 3 attempts, lost runs, refusals, failing store | `OneRunPerSession`, `LeaseOutlivesRun`, `OutcomeHasOwner` |
| `run_lifecycle_restart` | 2 attempts, crashes | `ResumedRunIsAlone`, `OutcomeSurvivesRestart` |
| `run_lifecycle_live` | 2 attempts, fair, runs queued past the lease, lost runs, refusals | `LateReleaseSparesTakeover`, `SessionNeverWedges`, `EveryRunIsSettled` |
| `merge_gate` | 2 heads, 2 goroutines, 5 moves, mishaps included | `MergesApprovedHead`, `MergesGreenHead`, `OnlyConsentedMerges`, `NoMergeForgotten` |
| `auto_heal` | 3 commits, 2 workflows, 2 goroutines, 5 moves, all faults | `OwnFixStops`, `NoHealTwiceInARow` |
| `review_scope` | 2 commits, 2 comments, 2 changes, 2 runs, 1 restart | `BaselineWasRead`, `WatermarkWasShown`, `ListedReviewMissesNothing` |
| `delivery` | every list of up to 3 items, 2 revisions, a page of 2, 2 posts of others, 1 crash | `OutcomeIsTrue`, `NothingPostedTwice`, `FollowsItsPR` |
| `routing` | every event, every set of labels, every trigger configured, 1 label change | `OutsiderGetsReviewOnly`, `OneReading`, `CommentAsksWithinGrant` |
| `small_machines` | the ten parts, bounds in `SmallMachines.cfg` | one or two properties of each, thirteen in all |
| `merge_unread_head`, `findings_note` | no mishaps; the part `findings` | disagreements, see below |

Why the bounds suffice. KeyedMutex: three goroutines are a holder, a waiter and
one that comes as the entry is dropped. RunLifecycle: a displaced run, the run
that displaced it and a third trigger; the durations are the smallest in which
every phase lasts at least a tick and the margin exceeds preparation and
finalize by one. The bound is tight: a margin equal to their sum breaks
`LeaseOutlivesRun`. `run_lifecycle_live` has runs of one tick, so that the lease
is four and a queued run outlives it within the run's state space; its two
attempts are the displaced run and the takeover. MergeGate: a merge takes three moves (label, review asked,
review delivered), leaving two for a push, an objection raised and lifted, or
CI; two goroutines are an evaluation and its rival. AutoHeal: the smallest case
of each hazard needs four moves; three commits are the first, a human's and a
fix. ReviewScope: two runs are one that writes the rows and one that is told
the difference; two changes are an edit or a push before and one between, and
two comments the trigger's and another. Delivery: two revisions are a key and
one that does not match it; a page of two is overflowed by the others' posts,
as GitHub's hundred entries are. Routing has no bound but the one label change,
enough to make any two readings of the labels differ. The small machines: a
page of two with lists of four and a cap of three (an artifact's), two attempts
of four (a retry and the last), a league with slots that compete for the same
players, a clock that outlives every copy by a tick, two calls, requests or
goroutines wherever something is shared.

Fairness. `EveryLockReturns` assumes weak fairness of a goroutine's own steps
and strong fairness of taking a free mutex, which `sync.Mutex` gives (its
starvation mode hands over). `run_lifecycle_live` assumes that started
goroutines go on, that the host starts and ends (or loses) a run, and that time
passes; the code's own timeouts are the reason each of them ends. The other
runs check safety and assume no fairness.

### Disagreements found

Two runs find a comment of the code violated.

| run | property | what happens |
|---|---|---|
| `merge_unread_head` | `MergesOnlyReviewedHeads` | a head pushed while the review runs receives its approval and is merged; the synchronize re-review is dropped, or comes after the merge (`tools.go:900`) |
| `findings_note` | `NoteIsTrue` | a hunk's heading such as `return a + b` is read for line numbers and its lines are counted from 0; a finding on a line the diff shows is moved, with a note that GitHub does not allow that line (`app.go:714`, `tools.go:758`) |

The modules state what other comments say, and TLC finds it violated too. No
listed run has these; most have a configuration beside the module, to be run
with `tlc -config <cfg> <its MC module>`.

| configuration | property | what happens |
|---|---|---|
| `RunLifecycleStraggler` | `FreedOnlyByItsRun` | with queueing, a displaced run's late outcome loads the newer `pendingRun` and frees its claim (`run.go:58`, against `webhook.go:670`); one whose own record is still there may write its nudge's claim over the newer one (`run.go:81`) |
| `RunLifecycleStaleDelivery` | `SettlesOwnDelivery` | a lost run's delivery record settles the next run of the chat (`tools.go:23-36`) |
| `MergeGateUnlabel` | `WithdrawnStaysWithdrawn` | the label's goroutine, or an adoption that read the label, writes the intent after the unlabel handler deleted it (`webhook.go:251`) |
| `MergeGatePushedHead` | `PushedHeadIsReviewed` | the head is recorded as dispatched before a dispatch that the running review drops; if that review rejects, nobody reviews the head (`store.go:249`) |
| `AutoHealLateWorkflow` | `OneHealPerCommit` | the row remembers one commit, so two commits' workflows failing in turn are healed again (`cifix.go:144`) |
| `ReviewScopeResumed` | `BaselineIsReviewed` | a run resumed after a restart stores the commits that are there by then as reviewed (`store.go:185`) |
| `DeliveryPage` | `RevisesItsComment` | past the first page of comments a revision posts a second one (`tools.go:449`) |
| `DeliveryForgotten` | `NoItemForgotten` | recovery finds the review and does not deliver what came after it (`tools.go:314`) |
| `RoutingCommit` | `CommitIsPermitted` | a mention without a verdict is asked for a commit that may not be pushed (`envelope.go:326`) |
| `RoutingAsks` | `PRAsksAgree` | on a pull request the workers are asked by another answer of the model than the orchestrator (`intent.go:180`) |
| `SmallMachinesDisagreements` | `InFlightIsRunning` | a mark made after its run ended stays until a restart (`remarkable/state.go:20`) |
| | `SwapsExplainTheLoss` | points are left on the bench and no swap is shown, since the only gain is a chain of moves (`tools_matchup.go:225`) |
| | `SwapsGain` | a swap brings in the worse of its two: the swaps are paired greedily, and when the newcomers' places shift along a chain of slots the one left over replaces a better scorer, which the recap shows as `better_name` (`tools_matchup.go:253`, `agents/league-reporter/prompt.md:65`) |
| | `EveryRunHasItsBadge` | a refused second dispatch clears the badge of the run under way (`sleeper.go:98`) |
| | `ChangesAreChanges` | a player absent from the older snapshot is reported as changed from nothing (`tools_trends.go:53`) |
| | `VerdictFits` | many findings, each with its least text, exceed the budget (`decisions.go:31`) |
| | `ExhaustsTheList` | a deletion between two pages moves an item past the reader (`artifactio.go:137`) |
| | `ManifestNamesEach` | two checks whose names are sanitized alike share an artifact (`artifactio.go:61`) |
| | `CompleteIsWhole` | a completed draft is shown with the picks of an older copy (`draft.go:77`) |
| none, see `SleeperReads` | `IndexFitsDump` | with `Tools <- {"player"}`: the names are looked up in an index older than the dump just fetched (`client.go:193`) |
| `RunLifecycle.cfg` | `RecordsInLockstep` | a refused dispatch releases its claim, then deletes by chat id the row of the next dispatch (`webhook.go:798-800`) |
| `RunLifecycleRestart.cfg` | `NudgeKeepsItsClaim` | the nudge renews the claim in memory only, a restart restores the old time and the nudged run is taken over (`run.go:79-81`) |
| `MergeGate.cfg` | `DismissalReevaluates` | dismissing the blocking objection has no handler (`merge.go:262`, `481`) |
| `AutoHeal.cfg` | `ClaimIsAtomic` | `fixLabelApplied` writes the row outside the lock (`cifix.go:132`) |

In the last four the property is put in the place of the configuration's own.
`SmallMachinesDisagreements` stops at the first property that fails: for
another one leave only its line under `INVARIANTS` and its part in `Parts`.

## 4. What is proved

`KeyedMutexProofs`, for any sets of goroutines, keys and objects:
`TypeCorrect`, `Exclusion`, `Refinement` (`Spec => KL!Spec`), `NoLeak` (an
entry of the map has a goroutine that counts on it) and `UnrelatedNeverWait` (a
goroutine waits only for one that has its key). The inductive
invariant adds to the types that an object in the map is counted at least by
those who look at it, that a goroutine's object is its key's entry while it
counts, and that a mutex is locked exactly while one goroutine holds it
(`LockedIsHeld`); for `NoLeak` that every entry's count comes from somebody
(`EntryInUse`).

`RunLifecycleProofs`, for any attempts and any durations: `TypeCorrect` under
every fault; and `OneRun`, `LeaseSuffices`, `OutcomeFindsItsRun` under
`Timely`: preparation and finalize together fit the margin, no queueing, no
crash. The invariant says of every attempt that is serving that the claim is
its own and is younger than what its phase, its timer and the phases before it
allow, that `pending` is it from the moment it was stored, and that nobody else
is serving; `MayWait` then keeps the age under the lease, and a claim that is
not expired is not taken. `Timely` is needed: `RunLifecycleStraggler.cfg` and the
tight margin above show what happens without it.

`LateReleaseSpares` is about the case `Timely` excludes, and needs no assumption
on the faults: runs that waited past their lease, are lost, refused, or resumed.
It says of every dispatch that gives up and of every finalize of a run's own
`pendingRun` that it leaves another dispatch's claim alone. The invariant
(`TokenInv`) is about tokens, not about time: who has loaded its own `pendingRun`
compares with a token of its own, its claim's or its nudge's (`OwnToken`,
`OwnRelease`). It stops where the code does: a late outcome that loads the newer
run's `pendingRun` compares with that run's token, and `FreedOnlyByItsRun`, which
makes no exception for it, is false.

`ResumedIsAlone` and `OutcomeSurvives` are under `Restarting` instead: crashes and
lost runs, any number of them, but a store that answers, no refused dispatch and
no queue. A restart loses `inflight` and `pending`, so their invariant (`RInv`) is
about what stands in for them. A run's claim is in memory, or Start is not
through, nobody can dispatch yet, and the claim is in the rows that Start is
about to restore (`Protected`); from the moment it is written until finalize
deletes it the row is the run's own, and no older than its phase allows
(`Recorded`); what is in `pending` is its own or lost (`OwnPending`); and the token
finalize compares is its own (`OwnKey`). The three faults are left out because
the claims are false with them: a dispatch whose row failed to be written, or a
refused one that deletes its rival's row (`RecordsInLockstep`), leaves nothing to
restore from; a nudged run is excepted by the properties (`NudgeKeepsItsClaim`).

`MergeGateProofs`, for any commits, goroutines, moves and mishaps: `TypeCorrect`,
`ApprovedHead`, `GreenHead`, `Consented`, `NoneForgotten`. tryMerge carries what it read in local
variables while the pull request changes, so the invariant is about those: the
commit of the verdict it goes on with was pinned once, the head it goes on with
equals that commit, the head it is about to merge had passed CI when asked; and
behind every phase past the lookup of the intent there is an allowed human's
label. `MergePR` then merges only the head it carries. What is proved is a fact
about the past, "was approved", "had passed": that CI is still green or the
label still on at the moment of the merge is not true, nor claimed by the code.

`NoneForgotten` is `NoMergeForgotten`: no wake-up is lost. Its invariant
(`MergeIsOwed`) is that a standing intent on a pull request that could be merged
has an evaluation to come, as a webhook or as a goroutine that waits for the
lock (`ToCome`), or one under way that has read nothing to the contrary
(`Promising`). Whatever makes the pull request mergeable, or an evaluation's
reads out of date, is reported; and since the lock admits one evaluation
(`OneEvaluation`), a report that comes during one is there when it returns. The
one way to an intent without a webhook, an adoption, is covered by the push that
came since it read the head (`AdoptionIsCurrent`). A dismissed review, a refused
merge and a failed lookup are not reported, hence the property's exception.

`AutoHealProofs`, for any commits, workflows, goroutines and every fault:
`TypeCorrect`, `LoopStops`, `OneHealAtATime`. The invariant: a heal past `Lock`
holds `mergeMu` (a crash frees it and ends all goroutines), the row is what was
recorded last, and therefore what `GetState` and `Author` found still holds at
`Persist`; the label's fix, which takes no lock, may delete the row or record
its own attempt in between, and neither is a heal.

`ReviewScopeProofs`, for any commits, comments, changes, runs and restarts:
`TypeCorrect`, `BaselineSound`, `WatermarkSound`, `ScopeComplete`. The rows are
written at a run's end from a context fetched at its beginning, so the
invariant carries the claim across the run: what the context lists was read
before or is asked of this run, and what it shows of the comments was shown
before or is told to this one (`ContextIsCovered`); the trigger's comment is
quoted and not compared, so it is followed from the webhook to the dispatch
(`TriggerIsFresh`). Contexts fetched anew after a restart are the exception the
properties name (`rebuilt`): for them the claim is false, as
`ReviewScopeResumed.cfg` shows. A trigger's comment that is edited before its
dispatch is the other (`edited`).

`RoutingProofs`, for any configured triggers and any number of label changes:
`TypeCorrect` (from the dispatch on there is a payload to classify),
`OutsidersReviewOnly`, `OneAnswer`, `AsksWithinGrant`. `OutsiderInv` says, per
phase of the dispatch, that an outsider's payload is the automatic review and
stays one through mark, orchestrator and workers; `CacheInv` that an answer was
asked for only within the grant; `ReadingInv` that mark, orchestrator and
workers of an issue each say what the one cached answer says; `GrantInv` that
what is asked is granted.

`DeliveryProofs`, for any page, revisions, posts of others, crashes and lost
answers: `TypeCorrect`, `OutcomeHolds`, `CommentFollows`, `PostedOnce`. What is
left of the items is always a suffix of the list (`Suffix`). `OutcomeInv` says of
a delivery under way that, unless it has met an error, every item it has tried
is on GitHub, and its comment in the pull request that came before it
(`Achieved`), and the same of all items of a settled one (`Recorded`); both survive
because GitHub only grows (`Grows`): reviews are added, and a comment in its place
is replaced by one no older. `PostingInv` says that as long as a revision's review
is still to come, also after a crash, it is not among the reviews (`Unposted`),
and that a lookup which reaches all comments finds the slot's; so no post is the
second.

`SmallMachinesProofs`, for any bounds, of the machine a behaviour is of:
`ChangesOnce` and `CachesServe` (`ClientInv`: a call that changes state has not
landed before it is done, since only what was proven unsent is sent again; a
token is picked with more than the skew to live; "no installation" goes back to
a denial), `BooksKept` (`IngestInv`: a document's attempts and the submissions
yet to mark it add up to its dispatches, and after a crash to no more; what is
on disk counts no more than was dispatched), `LocksHonest` (`ReadsInv`: every start
time a call or a cache holds is the kickoff, or was overtaken by a move announced
more than its remaining life ahead), `BadgesReal` (`RunsInv`: the property is
inductive with the types), `TrendsTold` and `RangeSpanned` (`TrendsInv`: the dump
a snapshot is made of was true at most two days before its date; there is one
writer, so its file is the last, and the files of earlier days, the reader's
older one among them, stay as they are or rot), `ListsWhole` (`ListsInv`: between
two pages every item that was there from the start is either read or still to
come; of a list that only grew at its end, what was read is its beginning. An
item put before the page boundary moves its neighbour onto the next page, so
that one is stored twice: the property says "no item twice" only of lists
without such an insertion).

The other five of `SmallMachinesProofs` are about what a function computes, and
the machine around it only calls it; their invariants say that an answer is that
function of what was read, and the work is in the lemmas. A recursive function
is an equation: `Recursion` says that one along 1 to N has a solution, and with
it `SelectAtDef`, `FlattenDef`, `AddedDef`, `PlansDef` that the modules' own are
what their defining equation says. What follows is by `UpTo`, induction along an
interval for one set at a time.

- `FindingsTold`: `SelectAt` keeps what is at the indexes (`SelectAtPicks`), and the
  first comings of a list are all it holds, so a finding whose file is known is
  placed, or left for the body, with the line it was made for; a refused review is
  sent again with the same comments in its body (`FindingsInv`).
- `RecordsCovered`: what was asked so far is about the first comings up to the
  next finding, each once (`Asking`), and `fitList` keeps some of a list and counts
  the rest (`Judged`).
- `AdviceAsked`: who decides has an artifact of his own chat that is asked about
  (`AdviceInv`); then case by case what the three `...Requests` make of it.
- `ClockFollows`: the turns are rows of equal length one after another
  (`FlattenRows`), so the pick after `made` is in row `made \div n + 1`, which is
  how `onClock` computes it.
- `LineupBest`: two arguments. The strict slots by exchange: any lineup can be
  turned, slot by slot, into one that has there whom the code has and scores no
  less, the player who must go there changing places with who is there, or
  replacing him (`Swap`, `Replace`, `MoveOver`, `Exchange`). The flex slots by the
  recursion: from the last slot back, for whoever is taken, the choice is the best
  assignment from there on (`BestStep`, `AssignmentIsBest`), and its candidates are
  those without a strict slot, each once, in whatever order the map of positions is
  visited (`CandidatesRemain`). What a lineup scores is what the two parts of it
  score (`ScoredSplit`).

The assumptions are those of the modules: numbers are naturals, fault kinds are
among those named, and `None` is none of the values it stands beside; that a
token lives longer than the skew, as an hour is more than a minute; that a
kickoff is moved longer ahead than the scores are kept and fetched, as days are
more than hours (without it `LockIsHonest` is false); that the lists given hold
different items; that a roster lists a player once, points are integers (the
code's are floats, rounded to hundredths) and a player's position is no flex
slot's name; that a draft is of some teams and rounds and has a round for each
starter; and that an artifact is what its job is asked to write: a player is a
waiver candidate once, and an offer gives what is on one roster for what is on
the other (a model writes it, and `AsksAreTheAdvice` is about what the code makes
of it).

Every safety property of a passing run, and the refinement, is stated by a theorem.
Only model-checked are `EveryLockReturns`, `SessionNeverWedges` and
`EveryRunIsSettled`: liveness under fairness is out of the prover's reach. The
disagreements above are counterexamples, so there is nothing to prove.

Mutants. Every property of a passing run is violated when one definition is
replaced by a variant with a plausible slip (beside it in the module, listed in
`PROJECT.json`).

## 5. Not modelled, and the plan

Not modelled, by component:

- sleeper's generated client: generated code;
- github's QA mock: a test double; `tools` (sloplint, coverdiff): sequential
  command-line checks of a tree, run in CI;
- `usage`, a stateless proxy; `noop`, one counter; `sdk`'s registry, filled at
  init. What the sdk promises of runs and deliveries is the environment of
  RunLifecycle and Delivery;
- signatures, JSON, acknowledgements, the wording and rendering of tasks,
  pages and comments: no property is about them;
- the REST calls of the GitHub, Sleeper and reMarkable clients one by one: I/O.
  What is shared between calls, their caches and retries, is modelled;
- the opening and the migrations of the SQLite store;
- sleeper's report cards over past seasons and its plain views: reads without
  shared state, whose endpoints `SleeperReads` lists.

The plan that is left, in order:

1. the composition of MergeGate and AutoHeal over RunLifecycle's session, with
   the dispatches it drops: each now takes a dropped dispatch as a choice;
2. `RunLifecycle`'s `finalize` with the deliveries of `Delivery` in the place of
   its one step.
