--------------------------- MODULE GitopsPeriodic ---------------------------
(***************************************************************************)
(* The periodic workflow of the plugin (periodic.go, terraform.go and the  *)
(* search of pkg/git_repository/git.go).  Vault calls PeriodicTask over    *)
(* and over; each call reads the last finished commit, tries to take the   *)
(* in-memory guard and leaves a goroutine behind that searches, applies    *)
(* and records a commit.  Every call to storage, to the git remote and to  *)
(* terraform is a step of its own, so operators, the remote and a restart  *)
(* of the plugin interleave with all of them.                              *)
(***************************************************************************)
EXTENDS Integers, Sequences, FiniteSets, SearchRule

CONSTANTS
    Tick,       \* calls of PeriodicTask alive at once, each with its goroutine
    Key,        \* PGP public keys, each of which signs a commit at most once
    Name,       \* names that keys are stored under
    NoKey,      \* there is no entry under a name
    History,    \* the commits the log iterator yields from every head
    Own,        \* whose signature a commit itself carries
    MaySign,    \* who may sign which commit in a note
    Bare,       \* commits with no files under the configured terraform path
    NoConfig,   \* the git configuration entry is not there
    Required,   \* values of required_number_of_verified_signatures_on_commit
    Period,     \* values of git_poll_period
    Second,     \* units of the clock in a second
    MaxDate,    \* bound on the clock, as dates see it
    MaxAge,     \* bound on the time since the last run
    Operator,   \* which requests operators and committers make
    Fault       \* which failures happen

ASSUME PeriodicAssumption ==
    /\ History \in [Commit -> Seq(Commit)]
    /\ Own \in [Commit -> SUBSET Key]
    /\ MaySign \in [Commit -> SUBSET Key]
    /\ Bare \subseteq Commit
    /\ NoKey \notin Key
    /\ IsFiniteSet(Key) /\ IsFiniteSet(Name)
    /\ Required \subseteq Int
    /\ NoConfig \notin [required : Required, period : Period]
    /\ Period \subseteq Nat
    /\ Second \in Nat \ {0}
    /\ MaxDate \in Nat
    /\ MaxAge \in Nat
    /\ \A period \in Period : period < MaxAge

VARIABLES
    head,           \* tip of the configured branch on the remote
    signers,        \* the keys whose signatures the remote holds for each commit
    config,         \* the git configuration entry
    trusted,        \* the entries under trusted_pgp_public_key/
    lastFinished,   \* the last_processed_commit entry
    status,         \* the process_status entry
    elapsed,        \* time since the last_periodic_run_timestamp was taken ...
    cut,            \* ... and the part of a second that the entry leaves out
    waited,         \* time since a goroutine about to store one passed its check
    now,            \* the clock that committer dates are compared with
    target,         \* what terraform has put in place in the target Vault
    orphans,        \* commits that a terraform without its plugin still applies
    guard,          \* processGitCASGuard
    pc,             \* where every call of PeriodicTask is
    run             \* and its local variables

remote   == <<head, signers>>
settings == <<config, trusted>>
clock    == <<elapsed, cut, waited, now>>
memory   == <<guard, pc, run>>
outcome  == <<target, orphans>>
vars     == <<remote, settings, lastFinished, status, clock, outcome, memory>>

-----------------------------------------------------------------------------
Config   == [required : Required, period : Period]
Signed   == [Commit -> SUBSET Key]
Status   == [kind : {"unset", "nothing"}]
                \cup [kind : {"processing", "failed", "succeeded"}, commit : Commit]
Target   == [commit : MaybeCommit, complete : BOOLEAN]

\* Program counters: "read" still runs in PeriodicTask, the rest in the goroutine.
Searching == {"interval", "stamp", "configure", "clone", "list", "keys"}
Handling  == {"processing", "prepare", "checkout", "apply", "failed", "succeeded", "finish"}
Active    == {"start", "nothing"} \cup Searching \cup Handling
Label     == {"idle", "read"} \cup Active

Run == [boundary : MaybeCommit,     \* lastFinishedCommit, as PeriodicTask read it
        period   : Period \cup {0},
        required : Required \cup {0},
        head     : MaybeCommit,     \* the first clone: its branch ...
        signed   : Signed,          \* ... and its signatures
        left     : SUBSET Name,     \* the names listed and not fetched yet
        keys     : SUBSET Key,      \* the trusted keys fetched
        found    : MaybeCommit]     \* the commit being processed

Unsigned == [c \in Commit |-> {}]
NoRun == [boundary |-> NoCommit, period |-> 0, required |-> 0, head |-> NoCommit,
          signed |-> Unsigned, left |-> {}, keys |-> {}, found |-> NoCommit]

\* A variant that counts the signatures of all keys.
VerifiedByAnyKey(signed, keys, required) ==
    {c \in Commit : \/ required = 0
                    \/ required > 0 /\ Cardinality(signed[c]) >= required}

\* VerifyCommitSignatures with one signature of a key at most: none required is
\* always enough and a negative number can never be counted down to zero.
Verified(signed, keys, required) ==
    {c \in Commit : \/ required = 0
                    \/ required > 0 /\ Cardinality(signed[c] \cap keys) >= required}

Min2(a, b) == IF a < b THEN a ELSE b

\* The trusted keys, under whatever names.
Stored == {trusted[n] : n \in Name} \ {NoKey}

-----------------------------------------------------------------------------
Init ==
    /\ head \in Commit
    /\ signers = Own
    /\ config \in Config \cup {NoConfig}
    /\ trusted \in [Name -> Key \cup {NoKey}]
    /\ lastFinished = NoCommit
    /\ status = [kind |-> "unset"]
    /\ elapsed = MaxAge         \* no timestamp entry: last run in 1970
    /\ cut = 0
    /\ waited = [p \in Tick |-> 0]
    /\ now = 0
    /\ target = [commit |-> NoCommit, complete |-> TRUE]
    /\ orphans = {}
    /\ guard = 0
    /\ pc = [p \in Tick |-> "idle"]
    /\ run = [p \in Tick |-> NoRun]

Goto(p, from, to) == pc[p] = from /\ pc' = [pc EXCEPT ![p] = to]

\* processGitInternal returns: its deferred store resets the guard.
Return(p, from) ==
    /\ Goto(p, from, "idle")
    /\ run' = [run EXCEPT ![p] = NoRun]
    /\ guard' = 0

\* A variant of GiveUp that does not reset the guard.
GiveUpHolding(p, from) ==
    /\ Goto(p, from, "idle")
    /\ run' = [run EXCEPT ![p] = NoRun]
    /\ UNCHANGED <<remote, settings, lastFinished, status, clock, outcome, guard>>

\* A call fails and the error is only logged: nothing else is written.
GiveUp(p, from) ==
    /\ Return(p, from)
    /\ UNCHANGED <<remote, settings, lastFinished, status, clock, outcome>>

StorageFails(p, from) == "storage" \in Fault /\ GiveUp(p, from)

Applying(p) == pc[p] = "apply" /\ run[p].found \notin Bare

\* The plugin process ends: guard and goroutines are gone.  A terraform at work
\* was started without a tie to its parent.  It ends with the plugin, having
\* applied nothing, a part or everything of its commit, or it outlives it.
PluginDies ==
    /\ guard' = 0
    /\ pc' = [p \in Tick |-> "idle"]
    /\ run' = [p \in Tick |-> NoRun]
    /\ \/ UNCHANGED outcome
       \/ \E p \in Tick, complete \in BOOLEAN :
              /\ Applying(p)
              /\ target' = [commit |-> run[p].found, complete |-> complete]
              /\ UNCHANGED orphans
       \/ \E p \in Tick :
              /\ "orphan" \in Fault /\ Applying(p)
              /\ orphans' = orphans \cup {run[p].found}
              /\ UNCHANGED target
    /\ UNCHANGED <<remote, settings, lastFinished, status, clock>>

-----------------------------------------------------------------------------
(* PeriodicTask *)

TickRead(p) ==
    /\ Goto(p, "idle", "read")
    /\ run' = [run EXCEPT ![p].boundary = lastFinished]
    /\ UNCHANGED <<remote, settings, lastFinished, status, clock, outcome, guard>>

TickSkip(p) ==
    /\ guard # 0
    /\ Goto(p, "read", "idle")
    /\ run' = [run EXCEPT ![p] = NoRun]
    /\ UNCHANGED <<remote, settings, lastFinished, status, clock, outcome, guard>>

\* A variant of TickLaunch that does not look at the guard.
TickLaunchUnguarded(p) ==
    /\ guard' = 1
    /\ Goto(p, "read", "start")
    /\ UNCHANGED <<remote, settings, lastFinished, status, clock, outcome, run>>

TickLaunch(p) ==
    /\ guard = 0
    /\ guard' = 1
    /\ Goto(p, "read", "start")
    /\ UNCHANGED <<remote, settings, lastFinished, status, clock, outcome, run>>

-----------------------------------------------------------------------------
(* processGit, up to the search *)

ReadConfig(p) ==
    \/ /\ config # NoConfig
       /\ Goto(p, "start", "interval")
       /\ run' = [run EXCEPT ![p].period = config.period]
       /\ UNCHANGED <<remote, settings, lastFinished, status, clock, outcome, guard>>
    \/ config = NoConfig /\ GiveUp(p, "start")
    \/ StorageFails(p, "start")

\* A variant of CheckInterval that is off by one.
CheckIntervalReached(p) ==
    \/ /\ elapsed + cut >= run[p].period
       /\ Goto(p, "interval", "stamp")
       /\ waited' = [waited EXCEPT ![p] = 0]
       /\ UNCHANGED <<remote, settings, lastFinished, status, elapsed, cut, now, outcome, guard, run>>
    \/ elapsed + cut < run[p].period /\ GiveUp(p, "interval")
    \/ StorageFails(p, "interval")

\* The clock is compared with the stored second: what was cut off counts as spent.
CheckInterval(p) ==
    \/ /\ elapsed + cut > run[p].period
       /\ Goto(p, "interval", "stamp")
       /\ waited' = [waited EXCEPT ![p] = 0]
       /\ UNCHANGED <<remote, settings, lastFinished, status, elapsed, cut, now, outcome, guard, run>>
    \/ elapsed + cut <= run[p].period /\ GiveUp(p, "interval")
    \/ StorageFails(p, "interval")

\* The clock is read between the check and the store, which keeps whole seconds.
StampRun(p) ==
    \/ /\ Goto(p, "stamp", "configure")
       /\ elapsed' \in 0..waited[p]
       /\ cut' \in 0..(Second - 1)
       /\ waited' = [waited EXCEPT ![p] = 0]
       /\ UNCHANGED <<remote, settings, lastFinished, status, now, outcome, guard, run>>
    \/ StorageFails(p, "stamp")

-----------------------------------------------------------------------------
(* FindFirstSignedCommitFromHead *)

SearchConfig(p) ==
    \/ /\ config # NoConfig
       /\ Goto(p, "configure", "clone")
       /\ run' = [run EXCEPT ![p].required = config.required]
       /\ UNCHANGED <<remote, settings, lastFinished, status, clock, outcome, guard>>
    \/ config = NoConfig /\ GiveUp(p, "configure")
    \/ StorageFails(p, "configure")

\* The clone is a snapshot of the branch and of the signatures kept beside it.
CloneRepository(p) ==
    /\ Goto(p, "clone", IF run[p].boundary = head THEN "nothing" ELSE "list")
    /\ run' = [run EXCEPT ![p] = [@ EXCEPT !.head = head, !.signed = signers]]
    /\ UNCHANGED <<remote, settings, lastFinished, status, clock, outcome, guard>>

CloneFails(p) == {"storage", "clone"} \cap Fault # {} /\ GiveUp(p, "clone")

\* List answers the names only.
ListKeys(p) ==
    \/ /\ Goto(p, "list", "keys")
       /\ run' = [run EXCEPT ![p].left = {n \in Name : trusted[n] # NoKey}, ![p].keys = {}]
       /\ UNCHANGED <<remote, settings, lastFinished, status, clock, outcome, guard>>
    \/ StorageFails(p, "list")

\* One Get per listed name takes the key that is stored there by now.  A name
\* deleted since the List has no entry, and the goroutine dereferences the nil
\* entry: the whole plugin process panics.
FetchKey(p) ==
    \/ \E n \in run[p].left :
          \/ /\ trusted[n] # NoKey
             /\ Goto(p, "keys", "keys")
             /\ run' = [run EXCEPT ![p].left = @ \ {n}, ![p].keys = @ \cup {trusted[n]}]
             /\ UNCHANGED <<remote, settings, lastFinished, status, clock, outcome, guard>>
          \/ pc[p] = "keys" /\ trusted[n] = NoKey /\ PluginDies
    \/ run[p].left # {} /\ StorageFails(p, "keys")

\* Variants of Search: one goes on although nothing was found, one takes a commit
\* whose signatures could not be verified.
SearchUnchecked(p) ==
    /\ pc[p] = "keys" /\ run[p].left = {}
    /\ \E c \in MaybeCommit :
          /\ Answers(c, History[run[p].head],
                     Verified(run[p].signed, run[p].keys, run[p].required),
                     run[p].boundary, now)
          /\ Goto(p, "keys", "processing")
          /\ run' = [run EXCEPT ![p].found = c]
    /\ UNCHANGED <<remote, settings, lastFinished, status, clock, outcome, guard>>
SearchUnverified(p) ==
    /\ pc[p] = "keys" /\ run[p].left = {}
    /\ \E c \in MaybeCommit :
          /\ Answers(c, History[run[p].head], Commit, run[p].boundary, now)
          /\ Goto(p, "keys", IF c = NoCommit THEN "nothing" ELSE "processing")
          /\ run' = [run EXCEPT ![p].found = c]
    /\ UNCHANGED <<remote, settings, lastFinished, status, clock, outcome, guard>>

Search(p) ==
    /\ pc[p] = "keys" /\ run[p].left = {}
    /\ \E c \in MaybeCommit :
          /\ Answers(c, History[run[p].head],
                     Verified(run[p].signed, run[p].keys, run[p].required),
                     run[p].boundary, now)
          /\ Goto(p, "keys", IF c = NoCommit THEN "nothing" ELSE "processing")
          /\ run' = [run EXCEPT ![p].found = c]
    /\ UNCHANGED <<remote, settings, lastFinished, status, clock, outcome, guard>>

\* The head or the next commit of the log cannot be read.
SearchFails(p) ==
    "clone" \in Fault /\ run[p].left = {} /\ GiveUp(p, "keys")

-----------------------------------------------------------------------------
(* processGit, after the search *)

StoreNothing(p) ==
    \/ /\ Return(p, "nothing")
       /\ status' = [kind |-> "nothing"]
       /\ UNCHANGED <<remote, settings, lastFinished, clock, outcome>>
    \/ StorageFails(p, "nothing")

\* The result of this store is not looked at.
StoreProcessing(p) ==
    /\ Goto(p, "processing", "prepare")
    /\ \/ status' = [kind |-> "processing", commit |-> run[p].found]
       \/ "storage" \in Fault /\ status' = status
    /\ run' = [run EXCEPT ![p] = [NoRun EXCEPT !.boundary = run[p].boundary,
                                               !.found = run[p].found]]
    /\ UNCHANGED <<remote, settings, lastFinished, clock, outcome, guard>>

\* processCommit reads the git, Vault and terraform configurations.  Only the
\* first one is a variable here; the other two are empty when they are not there.
Prepare(p) ==
    /\ config # NoConfig
    /\ Goto(p, "prepare", "checkout")
    /\ UNCHANGED <<remote, settings, lastFinished, status, clock, outcome, guard, run>>

PrepareFails(p) ==
    /\ config = NoConfig \/ "storage" \in Fault
    /\ Goto(p, "prepare", "failed")
    /\ UNCHANGED <<remote, settings, lastFinished, status, clock, outcome, guard, run>>

\* The credentials, then a second clone.  It holds every branch and tag of the
\* remote, so a commit that the configured branch has lost may still be there to
\* be checked out, or not.
Checkout(p) ==
    /\ Goto(p, "checkout", "apply")
    /\ UNCHANGED <<remote, settings, lastFinished, status, clock, outcome, guard, run>>

\* A variant of CheckoutFails whose error ends the run without a status.
CheckoutFailsSilently(p) ==
    /\ \/ \A i \in DOMAIN History[head] : History[head][i] # run[p].found
       \/ {"storage", "clone"} \cap Fault # {}
    /\ GiveUp(p, "checkout")

CheckoutFails(p) ==
    /\ \/ \A i \in DOMAIN History[head] : History[head][i] # run[p].found
       \/ {"storage", "clone"} \cap Fault # {}
    /\ Goto(p, "checkout", "failed")
    /\ UNCHANGED <<remote, settings, lastFinished, status, clock, outcome, guard, run>>

\* ApplyTerraformFromRepo: with no files to apply it succeeds without terraform.
Apply(p) ==
    /\ Goto(p, "apply", "succeeded")
    /\ target' = IF run[p].found \in Bare
                 THEN target
                 ELSE [commit |-> run[p].found, complete |-> TRUE]
    /\ UNCHANGED <<remote, settings, lastFinished, status, clock, orphans, guard, run>>

\* A variant of ApplyFails whose error is lost.
ApplyFailsUnnoticed(p) ==
    /\ "terraform" \in Fault
    /\ Goto(p, "apply", "succeeded")
    /\ \/ target' = target
       \/ Applying(p) /\ target' = [commit |-> run[p].found, complete |-> FALSE]
    /\ UNCHANGED <<remote, settings, lastFinished, status, clock, orphans, guard, run>>

\* Extraction, state loading, init, plan or apply returns an error; the error of
\* an apply comes after a part of the changes.
ApplyFails(p) ==
    /\ "terraform" \in Fault
    /\ Goto(p, "apply", "failed")
    /\ \/ target' = target
       \/ Applying(p) /\ target' = [commit |-> run[p].found, complete |-> FALSE]
    /\ UNCHANGED <<remote, settings, lastFinished, status, clock, orphans, guard, run>>

\* The result of this store is not looked at either.
StoreFailed(p) ==
    /\ Return(p, "failed")
    /\ \/ status' = [kind |-> "failed", commit |-> run[p].found]
       \/ "storage" \in Fault /\ status' = status
    /\ UNCHANGED <<remote, settings, lastFinished, clock, outcome>>

StoreSucceeded(p) ==
    \/ /\ Goto(p, "succeeded", "finish")
       /\ status' = [kind |-> "succeeded", commit |-> run[p].found]
       /\ UNCHANGED <<remote, settings, lastFinished, clock, outcome, guard, run>>
    \/ StorageFails(p, "succeeded")

\* A variant of StoreFinished that forgets the commit.
StoreFinishedLost(p) == GiveUp(p, "finish")

StoreFinished(p) ==
    \/ /\ Return(p, "finish")
       /\ lastFinished' = run[p].found
       /\ UNCHANGED <<remote, settings, status, clock, outcome>>
    \/ StorageFails(p, "finish")

-----------------------------------------------------------------------------
(* The environment: time, crashes, the remote and the operators *)

Advance ==
    /\ elapsed < MaxAge \/ now < MaxDate \/ \E p \in Tick : pc[p] = "stamp" /\ waited[p] < MaxAge
    /\ elapsed' = Min2(elapsed + 1, MaxAge)
    /\ waited' = [p \in Tick |-> IF pc[p] = "stamp" THEN Min2(waited[p] + 1, MaxAge) ELSE 0]
    /\ now' = Min2(now + 1, MaxDate)
    /\ UNCHANGED <<remote, settings, lastFinished, status, cut, outcome, memory>>

Crash == "crash" \in Fault /\ PluginDies

\* A terraform that outlived its plugin changes the target, and may end.
OrphanActs ==
    \E c \in orphans :
        /\ \E complete \in BOOLEAN : target' = [commit |-> c, complete |-> complete]
        /\ orphans' \in {orphans, orphans \ {c}}
        /\ UNCHANGED <<remote, settings, lastFinished, status, clock, memory>>

\* A push or a force push to the configured branch.  The URL and the branch that
\* are configured stay as they are.
Push ==
    /\ "push" \in Operator
    /\ head' \in Commit
    /\ UNCHANGED <<signers, settings, lastFinished, status, clock, outcome, memory>>

\* Other signatures than a commit's own are notes under a tag that a push may move,
\* forwards or back.
Sign ==
    /\ "sign" \in Operator
    /\ \E c \in Commit : \E k \in MaySign[c] :
          signers' = [signers EXCEPT ![c] = @ \cup {k}]
    /\ UNCHANGED <<head, settings, lastFinished, status, clock, outcome, memory>>

Unsign ==
    /\ "unsign" \in Operator
    /\ \E c \in Commit : \E k \in Key \ Own[c] :
          signers' = [signers EXCEPT ![c] = @ \ {k}]
    /\ UNCHANGED <<head, settings, lastFinished, status, clock, outcome, memory>>

SetConfig ==
    /\ "configure" \in Operator
    /\ config' \in Config
    /\ UNCHANGED <<remote, trusted, lastFinished, status, clock, outcome, memory>>

DeleteConfig ==
    /\ "unconfigure" \in Operator
    /\ config' = NoConfig
    /\ UNCHANGED <<remote, trusted, lastFinished, status, clock, outcome, memory>>

\* A key is created under a new name or replaces the key under an old one.
TrustKey ==
    /\ "trust" \in Operator
    /\ \E n \in Name, k \in Key : trusted' = [trusted EXCEPT ![n] = k]
    /\ UNCHANGED <<remote, config, lastFinished, status, clock, outcome, memory>>

DeleteKey ==
    /\ "distrust" \in Operator
    /\ \E n \in Name : trusted' = [trusted EXCEPT ![n] = NoKey]
    /\ UNCHANGED <<remote, config, lastFinished, status, clock, outcome, memory>>

-----------------------------------------------------------------------------
Work(p) ==
    \/ TickSkip(p) \/ TickLaunch(p)
    \/ ReadConfig(p) \/ CheckInterval(p) \/ StampRun(p)
    \/ SearchConfig(p) \/ CloneRepository(p) \/ CloneFails(p)
    \/ ListKeys(p) \/ FetchKey(p) \/ Search(p) \/ SearchFails(p)
    \/ StoreNothing(p) \/ StoreProcessing(p)
    \/ Prepare(p) \/ PrepareFails(p) \/ Checkout(p) \/ CheckoutFails(p)
    \/ Apply(p) \/ ApplyFails(p)
    \/ StoreFailed(p) \/ StoreSucceeded(p) \/ StoreFinished(p)

Environment ==
    \/ Advance \/ Crash \/ OrphanActs \/ Push \/ Sign \/ Unsign
    \/ SetConfig \/ DeleteConfig \/ TrustKey \/ DeleteKey

Next == (\E p \in Tick : TickRead(p) \/ Work(p)) \/ Environment

Spec == Init /\ [][Next]_vars

\* Vault keeps calling PeriodicTask, goroutines are scheduled, the clock runs,
\* and a remote or a terraform that keeps being tried works now and then.
Fairness ==
    /\ WF_vars(Advance)
    /\ \A p \in Tick : WF_vars(TickRead(p)) /\ WF_vars(Work(p))
    /\ SF_vars(\E p \in Tick : CloneRepository(p))
    /\ SF_vars(\E p \in Tick : Search(p))
    /\ SF_vars(\E p \in Tick : Checkout(p))
    /\ SF_vars(\E p \in Tick : Apply(p))

FairSpec == Spec /\ Fairness
-----------------------------------------------------------------------------
(* Properties *)

\* Every variable has its type.
TypeOK ==
    /\ head \in Commit
    /\ signers \in Signed
    /\ config \in Config \cup {NoConfig}
    /\ trusted \in [Name -> Key \cup {NoKey}]
    /\ lastFinished \in MaybeCommit
    /\ status \in Status
    /\ elapsed \in 0..MaxAge
    /\ cut \in 0..(Second - 1)
    /\ waited \in [Tick -> 0..MaxAge]
    /\ now \in 0..MaxDate
    /\ target \in Target
    /\ orphans \subseteq Commit \ Bare
    /\ guard \in {0, 1}
    /\ pc \in [Tick -> Label]
    /\ run \in [Tick -> Run]

\* At most one goroutine is past the guard, and the guard is taken exactly while
\* one is: no path through processGit, no panic and no restart leaves it taken
\* with nobody to reset it (periodic.go:58-73).
GuardMatchesRun ==
    /\ \A p, q \in Tick : pc[p] \in Active /\ pc[q] \in Active => p = q
    /\ guard = 1 <=> \E p \in Tick : pc[p] \in Active

\* A run starts its search less than a second too early at the most: when it
\* stores its timestamp, the time since the one before was taken exceeds the poll
\* interval less the part of a second that the entry leaves out.  It need not be
\* "more than interval", as periodic.go:158 has it (periodic.go:89-102, :165, :172).
RunsKeepInterval ==
    [][\A p \in Tick : pc[p] = "stamp" /\ pc'[p] = "configure" =>
           elapsed + (Second - 1) > run[p].period]_vars

\* The last finished commit moves only to a commit that terraform has put in
\* place completely, or that has nothing to apply (periodic.go:148-151).
RecordFollowsApply ==
    [][lastFinished' # lastFinished =>
          \/ lastFinished' \in Bare
          \/ target = [commit |-> lastFinished', complete |-> TRUE]]_vars

\* A run never records a commit that is older than the one its call of PeriodicTask
\* had read as finished, whatever is pushed, fails or is restarted until then
\* (git.go:121-131, periodic.go:148).
NeverBehindBoundary ==
    [][\A p \in Tick :
          pc[p] = "finish" /\ lastFinished' # lastFinished /\ run[p].boundary # NoCommit =>
              Date[run[p].boundary] <= Date[lastFinished']]_vars

\* The last finished commit is never replaced by an older one (git.go:43).
DatesNeverDecrease ==
    [][lastFinished' # lastFinished /\ lastFinished # NoCommit =>
          /\ lastFinished' # NoCommit
          /\ Date[lastFinished] <= Date[lastFinished']]_vars

\* Nothing is put in place before its date has come (git.go:43).
NothingFromTheFuture ==
    target.commit # NoCommit => Date[target.commit] <= now

\* While nothing runs, no commit is said to be processed still, and one that is
\* said to have succeeded is recorded and in place, as long as no store fails and
\* the plugin keeps running (periodic.go:128-151).
StatusTellsOutcome ==
    guard = 0 =>
        /\ status.kind # "processing"
        /\ status.kind = "succeeded" =>
              /\ lastFinished = status.commit
              /\ \/ lastFinished \in Bare
                 \/ target = [commit |-> lastFinished, complete |-> TRUE]

\* The guard is always released again: a run cannot get stuck, whatever fails.
GuardReleased == guard = 1 ~> guard = 0

\* A commit at the head that could be delivered, and stays so, is delivered.
Deliverable(c) ==
    /\ head = c
    /\ config # NoConfig
    /\ c \in Verified(signers, Stored, config.required) \cap InWindow(lastFinished, now)

HeadDelivered ==
    \A c \in Commit : <>[]Deliverable(c) => <>[](lastFinished = c)
=============================================================================
