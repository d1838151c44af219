# Specifications of vault-plugin-gitops-terraform

The plugin runs inside Vault.  Every minute or so Vault calls `PeriodicTask`;
the plugin looks for a new commit with enough PGP signatures on a git branch and
applies it, as Terraform configuration, to a target Vault.  This directory holds
TLA+ models of that program, TLC configurations that check them on small
instances, and TLAPS proofs for instances of every size.  File and line numbers
below are those of the repository.

## 1. The system and its parts

| part | state | operations | with whom it interacts |
|---|---|---|---|
| periodic workflow (`periodic.go`, `terraform.go`) | storage: `last_processed_commit`, `process_status`, `last_periodic_run_timestamp`; memory: `processGitCASGuard` | `PeriodicTask`, its goroutine `processGitInternal` / `processGit` / `processCommit` | calls every other part; Vault calls it |
| commit search (`pkg/git_repository/git.go`) | none, an in-memory clone per call | `FindFirstSignedCommitFromHead` | configuration, credentials, keys, git remote |
| signature verification (`pkg/git/signatures.go`, `pkg/pgp/util.go`) | none | `VerifyCommitSignatures`, `VerifyPGPSignatures` | called per commit by the search |
| trusted keys (`pkg/pgp/backend.go`, `storage.go`) | one entry per key name | create/update, read, delete, list | operators write, the search reads with List and Gets |
| git configuration (`pkg/git_repository/backend.go`) | one entry | create, update, read, delete | read three times by one run |
| Vault client (`pkg/vault_client/backend.go`, `backend.go`) | storage: address and token; memory: `vaultTokenTTL` | configure, unwrap, rotate, revoke, delete; look up and renew | operators, the token goroutine of every `PeriodicTask`, `processCommit` |
| Terraform runner (`pkg/terraform/cli.go`) | storage: `terraform_state`; a temporary directory; child processes | `ApplyTerraformFromRepo` | called by `processCommit` |
| Terraform configuration (`pkg/terraform/backend.go`) | one entry | create, update, read, delete | read by `processCommit` |
| git credentials (`pkg/git/credentials.go`) | one entry | create/replace, delete | read by both clones |
| git access, storage helpers, status endpoint, plugin start | none | see `PROJECT.json` | |

There is no lock around storage.  Requests of operators run concurrently with each
other, with the workflow goroutine and with the token goroutines; the only
synchronisation is the compare-and-swap guard of the workflow and a mutex around
one pointer (`vaultTokenTTL`).

### What is hard

* **Values read early and used late.**  The boundary is read before the guard is
  taken (`periodic.go:52`, `:59`); the number of signatures before the clone and
  the keys after it, one by one (`git.go:45`, `:70`, `pgp/storage.go:22`); a commit is
  verified in one clone and
  applied from another (`terraform.go:90`); the cached expiry of a token outlives
  the token (`backend.go:163`).
* **Failures between steps.**  Each store may fail, some results are not looked at
  (`periodic.go:130`, `:134`), the plugin process may end anywhere, a nil entry
  ends it (`pgp/storage.go:27`), and a terraform child process may live on.
* **Order.**  The commit iterator walks a graph in preorder, so "from HEAD
  backwards to the boundary" is an order only on linear histories.
* **Counting.**  The number of signatures is counted down to exactly zero, with
  signatures matched to keys greedily.
* **State that must survive failures.**  terraform's own state lives in storage between
  runs and in a temporary directory during one; a deferred function carries it back,
  whatever has failed (`cli.go:42`).
* **Unlocked read-modify-write.**  Configuration requests read an entry, merge their
  fields and store it, while others do the same; Vault's existence check comes first
  and may be outdated when the handler reads.
* **Liveness.**  A run that gets stuck keeps the guard, and nothing is delivered
  any more.

### What makes each part correct

* workflow: one goroutine at a time; runs keep the poll interval, to the second; only
  what is in place is recorded; only what was signed as required gets into place; the
  record does not go back in time; status, record and target agree when nothing runs; a
  deliverable head is delivered.
* search: the answer is the first acceptable commit of the log before the boundary;
  on linear histories that is the newest one, nothing behind the boundary is found
  and nothing in front of it is missed; it ends.
* signatures: accepted means enough signatures by different keyrings; rejected means
  there were not enough (if keyrings share no key); it ends.
* token: the stored token stays live through renewals, rotations and restarts; it is
  not lost to a request that does not mention it.
* terraform runner: between runs the stored state knows everything terraform has made;
  a success leaves exactly what the commit asks for, whatever partly applied commits
  came before; a failing run only moves the target towards its commit.
* configuration: a request that nobody overtakes stores the fields it gives and keeps the
  stored ones it does not give; no overlap stores a git configuration without a URL.

The list of hazards with their lines, and the property that covers each one or the
reason why none does, is in `PROJECT.json`.

## 2. Modules

```
SearchRule ──────┬─> GitopsPeriodic ──> GitopsHistory ──(implements)──> SignedDelivery
                 │        └──> GitopsPeriodicProofs ─┬─> GitopsHistoryProofs
                 │                                   └─> GitopsDatesProofs
CommitLog ──> CommitSearch (implements SearchRule)   CommitSearch ──> CommitSearchProofs
TerraformRun ──(implements)──> TerraformPromise      TerraformRun ──> TerraformRunProofs
SignatureCheck ──> SignatureProofs                   VaultToken ──> VaultTokenProofs
ConfigureRequests ──> ConfigureProofs
```

**GitopsPeriodic** is the core.  A *tick* is one call of `PeriodicTask` together
with the goroutine it leaves behind; several ticks are alive at once.  `pc[p]` says
where tick `p` is, `run[p]` holds its local variables.  Every access to storage,
every clone and every terraform is one action, in the order of the code, with the
early returns and the failures as alternatives of the action.

| variable | in the code |
|---|---|
| `lastFinished`, `status` | the entries `last_processed_commit`, `process_status` |
| `elapsed`, `cut` | the entry `last_periodic_run_timestamp`: the time since it was taken, and the part of a second that `timeStamp.Unix()` leaves out of it |
| `waited` | the time since a goroutine that is about to store a timestamp passed its check |
| `guard` | `processGitCASGuard` |
| `config`, `trusted` | git configuration (number of signatures, poll period); the key under each name of `trusted_pgp_public_key/` |
| `head`, `signers` | the branch's tip and the signatures on the remote: those that commits carry themselves (`Own`) and those in notes; each key signs a commit at most once |
| `now` | the clock that committer dates are compared with |
| `target` | the commit terraform has put in place, completely or not |
| `orphans` | commits that a terraform without its plugin is still applying |

| action | code |
|---|---|
| `TickRead`, `TickSkip`, `TickLaunch` | `PeriodicTask`: read the record; compare-and-swap fails or succeeds |
| `ReadConfig`, `CheckInterval`, `StampRun` | `processGit` up to the timestamp |
| `SearchConfig`, `CloneRepository`/`CloneFails`, `ListKeys`, `FetchKey`, `Search`/`SearchFails` | `FindFirstSignedCommitFromHead`; the List answers names only, and each Get the key that is stored by then; the loop over the clone touches nothing shared and is one step, whose answer is defined by `SearchRule` |
| `StoreNothing`, `StoreProcessing`, `Prepare`/`PrepareFails`, `Checkout`/`CheckoutFails`, `Apply`/`ApplyFails`, `StoreFailed`, `StoreSucceeded`, `StoreFinished` | the rest of `processGit`, and `processCommit`: its configurations, its clone, terraform |
| `Return`, `GiveUp` | the deferred reset of the guard in `processGitInternal` |
| `PluginDies` | the process ends, by a crash or by the nil entry in `GetTrustedPGPPublicKeys`; a terraform at work ends with it, having done any part of its job, or becomes an orphan |
| `Push`, `Sign`, `Unsign`, `SetConfig`, `DeleteConfig`, `TrustKey`, `DeleteKey`, `Advance`, `OrphanActs` | committers, signers (notes with signatures live under a movable tag, `signatures.go:131`, so that theirs may also vanish; a commit's own stays), operators (who may replace the key under a name), time, orphans |

The second clone fetches every branch and tag (`CloneInMemory` does not ask for a
single branch), so a commit that was forced off the branch may still be checked out
or not; `Checkout` and `CheckoutFails` allow both.  `Prepare` is one step for three
reads: two of the entries are not variables of this model, and reading them writes
nothing.

The timestamp is stored in whole seconds and compared with a clock of nanoseconds.
`Second` is the number of units of the model's clock in a second; `StampRun` takes the
time between its check and its store (`periodic.go:99`), and cuts off any part of a
second; `CheckInterval` compares what is left of it, `elapsed + cut`.

**SearchRule** states what the search answers as a relation between the log, the
verified commits, the boundary and the time.  **CommitSearch** is the loop itself, one
turn of go-git's iterator (**CommitLog**, external) per step, over graphs of any
shape; its invariant `FollowsRule` says that it answers as `SearchRule` allows.  That
is why the workflow may use the relation.

**SignatureCheck** is `VerifyCommitSignatures` with the two nested loops of
`VerifyPGPSignatures`, run first over the commit's own signature and then over the
notes, with the keyrings that are left.  Whether OpenPGP accepts a signature with a
keyring is an arbitrary relation.  In `GitopsPeriodic` its verdict is `Verified`, the
count of the fetched keys that have signed; `VerdictCountsSigners` says that the two agree
when no signature is verified by two keyrings, that is, when keyrings share no key and
none is stored under two names.  With one key under two names the code may also count
two signatures of the same key; the workflow's model leaves that out by letting each key
sign a commit at most once.

**SignedDelivery** is the promise to the target Vault: three variables, and steps
that allow commits, put an allowed commit into place, and record one that is in
place.  **GitopsHistory** adds history variables to the workflow and states in terms of
them what the signature policy comes to:

| history variable | what it remembers |
|---|---|
| `saw[p]` | what there was to see since the search of tick `p` began: every number configured, the signatures when it cloned, every key stored since then |
| `allowed` | the commits that `saw` admits: `SignedDelivery`'s `allowed` |
| `compliant` | the commits that met the policy of some moment: that moment's number, signatures and keys |
| `disturbed`, `excused` | the ticks whose search had an input changed while it was reading (`Disturbs`), and the commits they answered |

`DeliversOnlySigned` is the refinement.  `StablePolicyMet` is the stronger promise: what
is in place is in `compliant`, unless its search was disturbed by a change of the
configuration between reading the number and listing the keys, by a signature that
vanished between the clone and the list, or by a key that was replaced between being
listed and being fetched.  Everything else may happen during a search: keys added or
deleted, signatures added, branches pushed, configurations changed before or after.
`TargetMetPolicy` has no exception, and the code does not satisfy it.

**TerraformRun** is `ApplyTerraformFromRepo`, run after run.  In `GitopsPeriodic` it is
the one step `Apply` or `ApplyFails`; here every step of it is an action, and so are the
changes terraform makes, one by one.

| variable | in the code |
|---|---|
| `stored` | the `terraform_state` entry: none, a state, or a truncated one |
| `file` | `terraform.tfstate` in the temporary directory |
| `objects` | what terraform has made in the target Vault |
| `plan` | `tfplan`: what is still to be created and destroyed |
| `pc`, `commit`, `ok` | the place in the function, its commit, and whether it returns no error |
| `informed`, `delivered`, `lost` | history: the state has been loaded; the last success; what a failure has lost track of |

| action | code |
|---|---|
| `MakeTempDir`, `ExtractFiles`, `ExtractFails` | the directory and the files of the commit, which may hold a state file |
| `LoadState`, `LoadFails` | `loadTerraformState`; a write that fails half way leaves a truncated file |
| `RunInit`, `RunPlan`, `InitOrPlanFails` | `terraform init` and `plan` |
| `CreateObject`, `DestroyObject`, `RunApply`, `ApplyFails`, `ApplyKilled` | `terraform apply`, external: with the local backend it notes every change in its state file as it makes it, unless it is killed |
| `SaveState`, `SaveFails` | the deferred function, which stores whatever file is there |
| `Return`, `PluginDies` | back in `processCommit`; the process ends and terraform with it |

**TerraformPromise** is what the workflow may rely on: a run only moves the target
towards its commit, and success means that all of it is there.  Its three outcomes are
`Apply`, `ApplyFails` and a crash in `GitopsPeriodic`, whose `target` abstracts
`objects` to "this commit, completely or not".  `GitopsPeriodic` is the more pessimistic
of the two about what else may run: it has terraforms that outlive their plugin, and
`TerraformRun` has none.

**ConfigureRequests** has the requests to the four entries that are merged or replaced
(`configure/git_repository`, `configure/terraform`, `configure/git_credential`,
`configure/trusted_pgp_public_key/<name>`).  Entries are independent, so a behaviour
picks one with `path`.  `ExistenceCheck` is what Vault's framework asks before the
handler, `ReadExisting` the read of an update, `Provided` the merge field by field,
`Valid` what each handler checks, `Put` and `Delete` the stores.  A validation is a set
of values that it refuses.  The ghost variable `overtaken` remembers the requests during
which another one has written the entry.

**VaultToken** has the requests to `configure/vault` and the token goroutines.
`Load`, `CreateOrphan`, `PutConfiguration` and `RevokeOld` are the calls of one
request in order; `CheckConfig`, `ReadCache`, `Reload` and `Renew` those of one check.
Several of each are at work at once.  Time goes in half days, so that the threshold of
24 hours is two units.  A request may leave `vault_token` out (`None`) or give an empty
one (`NoToken`, the "clear" requests), which is stored like any other.  Two ghost
variables say which requests the promise of a live
token cannot cover: `req[h].sees` becomes false when the configuration changes between
the read of request `h` and its store, or when the read fails, which the code ignores;
`excused` holds while the stored token was given as the cached TTL of another was
there, or was put back by a request that no longer saw what it replaced.

Definitions called "a variant of X" are not part of the models: each is X with one
plausible mistake, and `PROJECT.json` names the property that notices it when X is
replaced by it.

## 3. Runs

| run | question | bounds |
|---|---|---|
| `MCPeriodicSafety` | types; one goroutine; nothing from the future; nothing older than the boundary of its run | 2 ticks, 2 commits with dates 0 and 1, the older one signed by itself and the newer one in a note that may vanish, 1 key and name; every request but a deleted configuration; every failure and orphans |
| `MCPeriodicLive` | guard released, head delivered, status agrees with record and target, only what is in place recorded, poll interval less a second | 2 ticks, the same 2 commits, of which the older one has nothing to apply, a second of 2 units, a period of 1, ages to 2, fairness; pushed and signed commits, a key created, the configuration deleted; failing clones, searches and terraforms, no failing storage and no crash |
| `MCHistory` | implements `SignedDelivery`; policy of one moment met unless disturbed | 1 tick, 2 keys under 2 names, numbers 1 and 2, 1 commit that both keys may sign; keys created, replaced and deleted, signatures added and taken away, the number changed, failing terraforms, crashes |
| `MCSearch` | loop follows the rule, ends, finds the newest on linear histories; a boundary off the branch hides nothing | every graph of 4 commits with up to 2 parents, dates 0 and 1, every boundary and every set of verified commits |
| `MCSignature` | verdict right in both directions, and the count that `GitopsPeriodic` uses; ends | 3 keyrings, 3 signatures, own signature and up to 2 notes, numbers -1 to 3 |
| `MCTokenRotate` | stored token stays live and is not lost | 2 requests of any kind, with empty tokens, and 1 check at a time, 4 tokens, period of 3 half days, every failure |
| `MCState` | types; state knows the target; success is exact; implements `TerraformPromise` | 4 commits (two that share an object, one that carries a state file, one that wants nothing, one without files), 3 objects, any number of runs, every failure |
| `MCConfigure` | types; URL present; a request that is not overtaken acts at once | 2 requests at a time, each of the 4 entries, 2 usable values and 1 refused one, failing storage, crashes, deletes |
| `MCPeriodicOverlap`, `MCHistoryMixed`, `MCSearchMissed`, `MCTokenReplaced` | violations, see section 6 | |

Why these bounds: two ticks are enough for every overlap of a call with a goroutine
(a third could only skip); two commits are enough to go back and forth; two keys and
two names are the least with which keys can be swapped between two Gets, and one commit
is enough for what is said of each commit; a second of two units is the least that can
be cut; four commits make the smallest merge
whose branches both have a commit after the boundary; a period of three half days leaves
one of them before the threshold; with two requests one can be overtaken at each of its
steps, and four tokens let both rotate and one be rotated again; three objects let two
commits have one in common and each one of its own.  `UrlPresent` is about requests that
give no empty URL, so `MCConfigure` has none.  Clocks saturate at `MaxDate` and `MaxAge`;
an age only matters up to the longest period, the date only up to the newest commit.
Ticks, tokens, keys, checks and requests are interchangeable, and permutations of them
are used as symmetry sets in runs without liveness properties.  What the bounds leave open
is closed by the proofs of section 4, for every property but those named at its end.

`CHECK_DEADLOCK FALSE` appears where the system stops: the search and the signature
check end, and tokens are used up by the bound on issued ones.

### Fairness

Only the runs with liveness properties assume any.  `CommitSearch` and `SignatureCheck` are sequential
loops, weakly fair as a whole.  In `MCPeriodicLive`:

* weak fairness of `TickRead` and of each tick's work: Vault keeps calling
  `PeriodicTask`, and goroutines are scheduled.  This also assumes that every call
  returns.  Clones and terraform have no time limit in the code; one that hangs keeps
  the guard, and nothing the plugin does can change that.
* weak fairness of `Advance`: clocks run.
* strong fairness of a working clone, search, second clone (`Checkout`) and terraform,
  each for all ticks together: a remote or a terraform that is tried again and again works
  now and then.  The code retries for ever, at every poll.

No fairness is assumed of operators, committers or crashes.  `HeadDelivered` speaks
of a head that stays deliverable from some moment on.

`HeadDelivered` treats a terraform that is tried again as one that works now and then.
A truncated state in storage (section 6) breaks that assumption: from then on every run
fails, and no request of the plugin removes the `terraform_state` entry.

`VaultToken` has no liveness property, but `Advance` there carries an assumption of
the same kind: half a day does not pass without one check of the stored token that
ends without an error, since checks are started every minute, and no call is under way
for half a day, since calls to Vault time out after seconds.

## 4. Proofs

`GitopsPeriodicProofs` proves, for every set of ticks, commits and keys, every
history, every choice of requests and failures, from the named assumptions on the
constants in `SearchRule` and `GitopsPeriodic`:

* `TypeCorrect`: `Spec => []TypeOK`.  `TypeOK` alone is not inductive: a status may
  name `run[p].found`, which is a commit only past the search.  The strengthening
  `IType` adds `FoundIsCommit`, which says so for the program counters in `Handling`.
* `GuardCorrect`: `Spec => []GuardMatchesRun`.  Given the types the property is
  inductive: only `TickLaunch` brings a tick past the guard, needing 0 and leaving 1;
  every step between two active program counters leaves the guard alone
  (`MoveGuard`); every way out resets it and, since nobody else is active, rightly so
  (`ReturnGuard`).
* `RecordCorrect`: `Spec => RecordFollowsApply` if no terraform outlives its plugin.
  The invariant `AppliedInPlace` says that a tick between terraform and the record
  relies on a target that has its commit completely.  It is preserved because nobody
  else can be at terraform at that time, which is `GuardMatchesRun`.  With orphans the
  property does not hold, and neither does the proof: that assumption is needed.
* `RunShrinks`: what a goroutine past the guard has left to do (`StepsLeft`, at most 13
  steps and one for each name) gets less with every step of its own and never more by
  anybody else's.  So nothing in `processGit` goes round in a circle, and what
  `GuardReleased` needs besides is the fairness of section 3 only.

`GitopsHistoryProofs` proves the refinement and builds on the lemmas above:

* `DeliveryCorrect`: `HSpec => DeliversOnlySigned`, that is, the workflow implements
  `SignedDelivery`, if no terraform outlives its plugin.  `SearchSteps` sorts the steps of
  a tick into those that read a number, signatures, names or a key, that answer, and the
  rest.  The invariant `Seen` says for each tick that what it has read is within what
  there was to see (`SeenBy`): its number is one of `saw[p].numbers`, its signatures are
  those of `saw[p].signed`, its keys are among `saw[p].keys`, and the commit it handles is
  `allowed`.  `AnswerAllowed` is the step that needs them all: `Verified` only grows with
  the keys (`VerifiedGrows`), so what was counted is admitted by what was to be seen.
  `DeliveryStep` then maps each step: a change of the target is `Deploy` (`TargetStep`), a
  change of the record is `Record` (`RecordStep` with `AppliedInPlace`), and every other
  step is `Allow`.
* `PolicyCorrect`: `HSpec => []StablePolicyMet`, from no assumption but those on the
  constants.  The invariant `PolicyMet` says of an undisturbed search (`RunCompliant`):
  until the keys are listed, its number is the one configured and its signatures are still
  on the remote; from then on, what counts with the keys it has fetched and those it would
  fetch now is `compliant`.  The step from the one to the other is `ListedCompliant`: at that
  moment number, signatures and keys all are those of the moment.  Afterwards a key that
  is deleted makes fewer count (`CountsLess`).  From the search the commit is followed to
  the target, also by way of a terraform that outlives its plugin.

`GitopsDatesProofs` proves what is said of dates, of the interval and of the status:

* `FutureCorrect` (`NothingFromTheFuture`) and `BoundaryCorrect` (`NeverBehindBoundary`)
  without any assumption on overlaps, requests and failures.  `FoundInWindow` says that
  what a tick handles was in the window of its search; the window's lower end is the
  tick's own, and its upper end only moves on.  The same holds of what an orphaned
  terraform applies, so orphans are no exception.
* `SingleDatesCorrect`: `Spec => DatesNeverDecrease` if there is one tick.  The invariant
  `BoundaryCurrent` says that what a tick has read as finished is still what is
  recorded.  Overlapping calls break that, which is the violation of
  `MCPeriodicOverlap`: the theorem shows that it has no other cause.
* `StatusCorrect`: `Spec => []StatusTellsOutcome` under `Reliable`: no failing storage,
  no crash, no orphan and no deleted key (which may end the process).  Between storing
  "processing" and storing the record one tick owns the status; `StatusOK` says what
  it tells when nobody does.
* `IntervalCorrect`: `Spec => RunsKeepInterval`.  `IntervalOK` says that the interval checked
  before is exceeded still when the timestamp is stored, but for the part of a second that
  was cut off: elapsed time only grows, except by a timestamp, and nobody else can store
  one meanwhile, because of the guard.

`TerraformRunProofs` proves, for all commits, objects, carried state files and failures,
the properties of `MCState`: `StateTypeCorrect`, `StateCorrect`, `SuccessCorrect`, and
the refinement `PromiseCorrect`.  The invariant follows the knowledge of what exists
through a run: up to `LoadState` the stored state has it; from there to the deferred save
the file has it (`FileKnowsTarget`), and what the plan has left separates the target
from the commit (`PlanCloses`); both up to what is `lost`.  An empty plan then makes the
success exact.

`ConfigureProofs` proves the properties of `MCConfigure` for any number of requests:
`ConfigureTypeCorrect`, `UrlCorrect`, `AtOnceCorrect`.  `Current` says that a request which
is not overtaken is about to store the merge of what is stored now; `UrlReady` that what is
about to be stored has a URL, which is what makes overlapping creates, updates and deletes
harmless to `UrlPresent`.

`SignatureProofs` proves `AcceptsCorrect` and `DisjointCorrect` for any numbers of
signatures and keyrings, without recursion over them: the invariant relates the place in
the loops to the set of keyrings used up (`Counted`), to an injective assignment of them to
signatures tried (`Matched`), and, when keyrings share no signature, says that the
keyrings of all signatures tried are used up (`Exhausted`).  Then a rejected commit has
fewer signatures than are required, since an assignment with more would fit into the
used keyrings.  `RemoveAtFacts` and `SetToSeqFacts` are the lemmas about the community
modules' operators.  `VerdictCorrect` concludes from the same invariant that the verdict is a
count of signers, which is how `GitopsPeriodic` models it: the assignment is an injection of
the required signatures into the signers, and the signers of a rejected commit are among
the used keyrings.  `CheckShrinks` gives the check a variant: the signatures left, the
notes included, times the keyrings each may have to be tried with.

`VaultTokenProofs` proves, for any number of requests, checks and tokens,
`TokenTypeCorrect`, `TokenLiveCorrect` and `TokenPreservedCorrect`.  The invariant `IInv` has
six parts besides the types: living tokens have time left and not more than their period
(`TokensOK`); nobody knows a token that is not issued (`BornOK`); the token given to a
request and the orphan it has created are alive and known to it alone (`OwnsOK`); what it is
about to store (`PutOK`); a request that still sees what is stored works with it (`SeesOK`);
and, unless excused, the cached TTL is not more than what the stored token has left, no
check is about to make it so, and no request is about to revoke it (`Tracked`).  The step
that needs most of it is `PutConfiguration`: the stored token changes, and everything that
was about the old one must hold of the new one.  The rotation is safe because the orphan
gets the old token's whole period, so a cached TTL of the old token is not too long for
the new one; a token that an operator gives need not have it, which is why it is excused.
The step of half a day relies on the assumption in `Advance`.

`CommitSearchProofs` proves the properties of `MCSearch` for graphs with any number of
commits and parents, merges and unreachable commits included:

* What `CommitLog` and `Reachable` compute is defined by recursion over numbers.  The
  library's induction theorems cannot be used here, so `Induction` states the principle
  for sets of numbers instead and derives it from `<` being well-founded on `Nat`;
  `IteratesExist` shows with it that such a recursion has a solution.  From there on
  `WalksWalk` and `RoundsRound` give the first value and each next one, and nothing else
  of the recursion is used.
* `LogComplete`: from every head the log holds each commit the head builds on exactly
  once, and the `N * MaxParents + 1` turns of `LogFrom` suffice.  Four facts are followed
  through the turns: nothing is yielded twice; parents of what has been yielded have been
  yielded or are on the stack; on linear histories the stack holds at most one commit; and
  each turn uses up one of a number of entries that the graph bounds.
* `SearchFollowsRule`: the loop answers as `SearchRule` says.  The invariant `SearchInv`
  is `SType`, `OnWalk` (the iterator is at some turn of `Walks`) and `Outcome` (what
  has been yielded so far, but for the last commit when the loop has ended, was neither
  the boundary nor acceptable).  When the loop ends early, the log goes on from there
  (`WalkGrows`), so the hit of the loop is the first one of the log.
* `SearchKeepsBehind`, `SearchMissesNothing`, `SearchFindsNewest` and
  `SearchMissesNothingOffBranch` follow from the same invariant with `LogComplete`; on
  linear histories what is still on the stack is what the last commit builds on
  (`LinearRest`).
* `SearchShrinks`: each step of the loop decreases a natural number made of the stack
  and the commits not yet yielded.  That the loop ends then only takes that it goes on.
* `RuleAnswersOnce`: the relation allows exactly one answer for every log, so `Search` in
  `GitopsPeriodic` is neither blocked by it nor given a choice the code does not have.

Only model-checked: liveness (`GuardReleased`, `HeadDelivered`, `SearchEnds`, `CheckEnds`),
which needs fairness and `ENABLED`; `RunShrinks`, `SearchShrinks` and `CheckShrinks` are
the part of it that can be proved.  The assumption that no terraform outlives its plugin
is needed where it is made: TLC finds violations without it.

## 5. Not modelled

See the notes of the components in `PROJECT.json`.  In short: wording, logging and
formats; storage encoding; HTTP and git transport; the address and namespace of the
target Vault (there is one, whatever a request changes); the status endpoint, which reads
what `StatusTellsOutcome` is about; `VerifyTagSignatures`, `IsAncestor` and the RSA signing
key, which have no callers.  The workflow's models have one branch of one repository.
terraform is external, with the local backend that the plugin's saved file implies; a
commit that configures another backend keeps its state elsewhere.

Two compositions are left out on purpose.  The token with the workflow: a rotation may
revoke the token of a running terraform, whose effect is that of a terraform that fails.
`TerraformRun` inside the workflow: the workflow's state space would grow by the product,
and what it needs of a run is `TerraformPromise`.

## 6. What the checks found

* `MCPeriodicOverlap`: a call that read the record before the running goroutine wrote
  it can win the guard afterwards, search with the old boundary and record an older
  commit over a newer one, against `git.go:43`.  It takes one goroutine that ends
  between lines 52 and 59 of `periodic.go`, and a branch that was rewound.
* `MCHistoryMixed`: the number is raised right after a search has read it (`git.go:45`), and
  the commit gets its first signature before the clone (`:58`).  The search counts the new
  signature against the old number and applies a commit that met the policy at no moment.
  The trusted keys do not change in this trace; replacing keys between their Gets has the
  same effect (`Disturbs` names all ways).
* `MCSearchMissed`: with merges, acceptable commits after the boundary are left out
  (the boundary is met on one branch while the other is still to be walked).
* `MCTokenReplaced`: a new token in the configuration is judged by the cached expiry
  of the previous one and may expire unrenewed (`TokenNeverExpires`); if the cached time
  has passed, it is never renewed until the plugin restarts.

Seen while modelling, without a run of their own:

* "returns true if more than interval were spent" (`periodic.go:158`) is off by up to a
  second, because the timestamp is stored without its fraction (`:172`); with
  `elapsed > run[p].period` in place of `RunsKeepInterval` TLC finds a violation.
* The schema declares a default branch and poll period (`git_repository/backend.go:61`,
  `:66`), but `GetOk` is false for an absent field, so a create stores neither (`:134`,
  `:142`).  A clone then follows the remote's HEAD (`git/repository.go:38`), and every call
  of `PeriodicTask` searches.  The empty `terraform_binary` is made good where it is used
  (`cli.go:349`).
* Errors before a commit is found are logged and leave the status of an earlier run in
  place (`periodic.go:115`).
* The greedy matching rejects a commit when one keyring verifies two signatures of which
  the other keyrings verify only one (`pgp/util.go:44`); `DisjointAccepted` excludes it.
* An update of `configure/vault` drops the error of reading the existing entry and may
  save an empty token (`vault_client/backend.go:118`); concurrent requests to
  `configure/vault` can write back a token that a rotation then revokes.  `TokenPreserved`
  and `StoredTokenLive` except these requests by `sees` and `excused`.
* Two updates of `configure/git_repository` or `configure/terraform` that overlap lose the
  fields of one of them (`git_repository/backend.go:118`), although the handler's comment
  says "Update only fields that were provided in the request"; `ActsAtOnce` excepts
  requests that were overtaken.
* An update of `configure/vault` that gives an empty `vault_token` stores it, and with it
  the plugin loses its token (`vault_client/backend.go:147`); `TokenPreserved` says that
  only such requests, and those excepted above, do.
* An update that gives an empty `git_repo_url` is stored, although a comment says
  "Validate GitRepoUrl if it was provided or is required" (`git_repository/backend.go:154`).
* Writing the loaded state file may stop half way (`cli.go:315`); the deferred function
  then stores the truncated file over the good state, and every later run fails.
* A failure to save the state is only logged (`cli.go:48`), and the commit is recorded as
  finished; the next run plans from an older state and tries to create what is there.
* "No terraform state found in storage, starting fresh" (`cli.go:309`): not fresh when the
  commit holds a `terraform.tfstate` of its own, which is then used, and saved.
