-------------------------- MODULE GitopsDatesProofs --------------------------
(***************************************************************************)
(* Proofs about the dates of what GitopsPeriodic records and puts in       *)
(* place, about the poll interval and about what its status tells, for     *)
(* every number of overlapping calls, every history and choice of dates.   *)
(***************************************************************************)
EXTENDS GitopsPeriodicProofs

\* What a goroutine handles, and what a terraform still applies, was in the window
\* of its search; the window's upper end only moves on.
FoundInWindow ==
    \A p \in Tick : pc[p] \in Handling => run[p].found \in InWindow(run[p].boundary, now)

DatesOK ==
    /\ FoundInWindow
    /\ \A c \in orphans : Date[c] <= now
    /\ NothingFromTheFuture

\* Whoever goes on handling what it handled before keeps the invariant.
LEMMA SameHandling ==
    ASSUME DatesOK, UNCHANGED <<now, outcome>>,
           \A p \in Tick : pc'[p] \in Handling =>
               /\ pc[p] \in Handling
               /\ run'[p].found = run[p].found
               /\ run'[p].boundary = run[p].boundary
    PROVE  DatesOK'
<1>1. FoundInWindow'
  BY DEF DatesOK, FoundInWindow, InWindow
<1> QED
  BY <1>1 DEF DatesOK, NothingFromTheFuture, outcome

LEMMA PluginDiesDates ==
    ASSUME IType, DatesOK, PluginDies PROVE DatesOK'
<1>1. now' = now /\ FoundInWindow'
  BY DEF PluginDies, FoundInWindow, Handling, clock
<1>2. \A p \in Tick : Applying(p) => run[p].found \in Commit /\ Date[run[p].found] <= now
  BY DEF IType, FoundIsCommit, DatesOK, FoundInWindow, InWindow, Applying, Handling
<1>3. \A c \in orphans' : Date[c] <= now'
  BY <1>1, <1>2 DEF DatesOK, PluginDies, outcome
<1>4. NothingFromTheFuture'
  BY <1>1, <1>2 DEF DatesOK, NothingFromTheFuture, PluginDies, outcome
<1> QED
  BY <1>1, <1>3, <1>4 DEF DatesOK

\* A search that finds something finds it in its window (git.go:121-131).
LEMMA SearchDates ==
    ASSUME IType, DatesOK, NEW p \in Tick, Search(p) PROVE DatesOK'
<1>1. PICK c \in MaybeCommit :
          /\ Answers(c, History[run[p].head],
                     Verified(run[p].signed, run[p].keys, run[p].required),
                     run[p].boundary, now)
          /\ Goto(p, "keys", IF c = NoCommit THEN "nothing" ELSE "processing")
          /\ run' = [run EXCEPT ![p].found = c]
  BY DEF Search
<1>2. c # NoCommit => c \in InWindow(run[p].boundary, now)
  BY <1>1 DEF Answers, Hits
<1>3. now' = now /\ UNCHANGED outcome
  BY DEF Search, clock
<1>4. run'[p].found = c /\ run'[p].boundary = run[p].boundary
  BY <1>1 DEF IType, TypeOK, Run
<1>5. ASSUME NEW q \in Tick, pc'[q] \in Handling
      PROVE  run'[q].found \in InWindow(run'[q].boundary, now)
  <2>1. CASE q = p
    BY <1>1, <1>2, <1>4, <1>5, <2>1 DEF IType, TypeOK, Goto, Handling
  <2>2. CASE q # p
    BY <1>1, <1>5, <2>2 DEF IType, TypeOK, Goto, DatesOK, FoundInWindow
  <2> QED
    BY <2>1, <2>2
<1>6. FoundInWindow'
  BY <1>3, <1>5 DEF FoundInWindow, InWindow
<1> QED
  BY <1>3, <1>6 DEF DatesOK, NothingFromTheFuture, outcome

LEMMA WorkDates ==
    ASSUME IType, DatesOK, NEW p \in Tick, TickRead(p) \/ Work(p) PROVE DatesOK'
<1> USE DEF Handling
<1>1. CASE TickRead(p) \/ TickSkip(p) \/ TickLaunch(p)
  BY <1>1, SameHandling DEF IType, TypeOK, TickRead, TickSkip, TickLaunch, Goto, clock
<1>2. CASE ReadConfig(p) \/ CheckInterval(p) \/ StampRun(p)
  BY <1>2, SameHandling
     DEF IType, TypeOK, ReadConfig, CheckInterval, StampRun, StorageFails, GiveUp, Return, Goto, clock
<1>3. CASE SearchConfig(p) \/ CloneRepository(p) \/ CloneFails(p) \/ ListKeys(p)
  BY <1>3, SameHandling
     DEF IType, TypeOK, SearchConfig, CloneRepository, CloneFails, ListKeys, StorageFails, GiveUp,
     Return, Goto, clock
<1>4. CASE FetchKey(p)
  BY <1>4, SameHandling, PluginDiesDates
     DEF IType, TypeOK, FetchKey, StorageFails, GiveUp, Return, Goto, clock
<1>5. CASE Search(p)
  BY <1>5, SearchDates
<1>10. CASE SearchFails(p)
  BY <1>10, SameHandling DEF IType, TypeOK, SearchFails, GiveUp, Return, Goto, clock
<1>6. CASE StoreNothing(p) \/ StoreFailed(p) \/ StoreSucceeded(p) \/ StoreFinished(p)
  BY <1>6, SameHandling
     DEF IType, TypeOK, StoreNothing, StoreFailed, StoreSucceeded, StoreFinished, StorageFails,
     GiveUp, Return, Goto, clock
<1>7. CASE StoreProcessing(p)
  BY <1>7, SameHandling DEF IType, TypeOK, StoreProcessing, Goto, NoRun, clock
<1>8. CASE Prepare(p) \/ PrepareFails(p) \/ Checkout(p) \/ CheckoutFails(p)
  BY <1>8, SameHandling
     DEF IType, TypeOK, Prepare, PrepareFails, Checkout, CheckoutFails, Goto, clock
<1>9. CASE Apply(p) \/ ApplyFails(p)
  <2>1. run[p].found \in Commit /\ Date[run[p].found] <= now
    BY <1>9 DEF IType, FoundIsCommit, DatesOK, FoundInWindow, InWindow, Apply, ApplyFails, Goto
  <2>2. FoundInWindow'
    BY <1>9 DEF IType, TypeOK, DatesOK, FoundInWindow, InWindow, Apply, ApplyFails, Goto, clock
  <2>3. NothingFromTheFuture'
    BY <1>9, <2>1 DEF DatesOK, NothingFromTheFuture, Apply, ApplyFails, clock
  <2> QED
    BY <1>9, <2>2, <2>3 DEF DatesOK, Apply, ApplyFails, clock
<1> QED
  BY <1>1, <1>2, <1>3, <1>4, <1>5, <1>6, <1>7, <1>8, <1>9, <1>10 DEF Work

LEMMA EnvironmentDates ==
    ASSUME IType, DatesOK, Environment PROVE DatesOK'
<1>1. CASE Advance
  <2>1. now \in Nat /\ now' \in Nat /\ now <= now'
    BY <1>1, PeriodicAssumption DEF IType, TypeOK, Advance, Min2
  <2>2. \A c \in Commit : Date[c] <= now => Date[c] <= now'
    BY <2>1, CommitAssumption
  <2>3. FoundInWindow'
    BY <1>1, <2>2 DEF DatesOK, FoundInWindow, InWindow, Advance, memory
  <2>4. orphans \subseteq Commit /\ target.commit \in MaybeCommit
    BY DEF IType, TypeOK, Target
  <2> QED
    BY <1>1, <2>2, <2>3, <2>4 DEF DatesOK, NothingFromTheFuture, Advance, outcome, MaybeCommit
<1>2. CASE Crash
  BY <1>2, PluginDiesDates DEF Crash
<1>3. CASE OrphanActs
  BY <1>3 DEF DatesOK, FoundInWindow, InWindow, NothingFromTheFuture, OrphanActs, memory, clock
<1>4. CASE Push \/ Sign \/ Unsign \/ SetConfig \/ DeleteConfig \/ TrustKey \/ DeleteKey
  BY <1>4, SameHandling
     DEF Push, Sign, Unsign, SetConfig, DeleteConfig, TrustKey, DeleteKey, memory, clock
<1> QED
  BY <1>1, <1>2, <1>3, <1>4 DEF Environment

LEMMA AlwaysDates == Spec => []DatesOK
<1>1. Init => DatesOK
  BY DEF Init, DatesOK, FoundInWindow, NothingFromTheFuture, Handling
<1>2. DatesOK /\ UNCHANGED vars => DatesOK'
  BY DEF DatesOK, FoundInWindow, InWindow, NothingFromTheFuture, vars, memory, clock, outcome
<1>3. IType /\ DatesOK /\ [Next]_vars => DatesOK'
  BY <1>2, WorkDates, EnvironmentDates DEF Next
<1> QED
  BY <1>1, <1>3, InductiveType, PTL DEF Spec

\* Nothing is put in place before its date has come, not even by a terraform that
\* has outlived its plugin (git.go:121).
THEOREM FutureCorrect == Spec => []NothingFromTheFuture
<1>1. DatesOK => NothingFromTheFuture
  BY DEF DatesOK
<1> QED
  BY <1>1, AlwaysDates, PTL

\* No run records a commit older than what its call of PeriodicTask had read, for
\* any number of overlapping calls (git.go:125-131, periodic.go:52).
THEOREM BoundaryCorrect == Spec => NeverBehindBoundary
<1> DEFINE Step == \A p \in Tick :
               pc[p] = "finish" /\ lastFinished' # lastFinished /\ run[p].boundary # NoCommit =>
                   Date[run[p].boundary] <= Date[lastFinished']
<1>1. GuardMatchesRun /\ DatesOK /\ Next => Step
  <2> SUFFICES ASSUME GuardMatchesRun, DatesOK, Next, NEW p \in Tick, pc[p] = "finish",
                      lastFinished' # lastFinished, run[p].boundary # NoCommit
               PROVE  Date[run[p].boundary] <= Date[lastFinished']
    OBVIOUS
  <2>1. PICK q \in Tick : pc[q] = "finish" /\ lastFinished' = run[q].found
    BY RecordStep
  <2>2. q = p
    BY <2>1 DEF GuardMatchesRun, Active, Handling
  <2> QED
    BY <2>1, <2>2 DEF DatesOK, FoundInWindow, InWindow, Handling
<1>2. GuardMatchesRun /\ DatesOK /\ [Next]_vars => [Step]_vars
  BY <1>1
<1> QED
  BY <1>2, AlwaysDates, GuardCorrect, PTL DEF Spec, NeverBehindBoundary

-----------------------------------------------------------------------------
(* One call of PeriodicTask at a time: what it read as finished is finished   *)
(* still when it records.                                                     *)

BoundaryCurrent ==
    \A p \in Tick : pc[p] # "idle" => run[p].boundary = lastFinished

LEMMA WorkCurrent ==
    ASSUME IType, BoundaryCurrent, \A q, r \in Tick : q = r,
           NEW p \in Tick, TickRead(p) \/ Work(p)
    PROVE  BoundaryCurrent'
<1> USE DEF IType, TypeOK, BoundaryCurrent, Goto
<1>1. CASE TickRead(p) \/ TickSkip(p) \/ TickLaunch(p)
  BY <1>1 DEF TickRead, TickSkip, TickLaunch, Run
<1>2. CASE ReadConfig(p) \/ CheckInterval(p) \/ StampRun(p)
  BY <1>2 DEF ReadConfig, CheckInterval, StampRun, StorageFails, GiveUp, Return, Run
<1>3. CASE SearchConfig(p) \/ CloneFails(p)
  BY <1>3 DEF SearchConfig, CloneFails, StorageFails, GiveUp, Return, Run
<1>4. CASE CloneRepository(p) \/ ListKeys(p)
  <2>1. CASE StorageFails(p, "list")
    BY <2>1 DEF StorageFails, GiveUp, Return
  <2>2. CASE ~StorageFails(p, "list")
    <3>1. run[p] \in Run
      OBVIOUS
    <3>2. run'[p].boundary = run[p].boundary
      <4>1. CASE CloneRepository(p)
        BY <3>1, <4>1 DEF CloneRepository, Run
      <4>2. CASE run' = [run EXCEPT ![p].left = {n \in Name : trusted[n] # NoKey}, ![p].keys = {}]
        BY <3>1, <4>2 DEF Run
      <4> QED
        BY <1>4, <2>2, <4>1, <4>2 DEF ListKeys
    <3>3. pc[p] # "idle" /\ lastFinished' = lastFinished
      BY <1>4, <2>2 DEF CloneRepository, ListKeys
    <3> QED
      BY <1>4, <2>2, <3>2, <3>3 DEF CloneRepository, ListKeys
  <2> QED
    BY <2>1, <2>2
<1>5. CASE Search(p) \/ SearchFails(p)
  BY <1>5 DEF Search, SearchFails, GiveUp, Return, Run
<1>9. CASE FetchKey(p)
  <2>1. CASE PluginDies \/ GiveUp(p, "keys")
    BY <2>1 DEF PluginDies, GiveUp, Return
  <2>2. CASE ~PluginDies /\ ~GiveUp(p, "keys")
    <3>1. pc' = pc /\ lastFinished' = lastFinished /\ \A q \in Tick : q # p => run'[q] = run[q]
      BY <1>9, <2>2, FetchStep
    <3>2. run'[p].boundary = run[p].boundary
      BY <1>9, <2>2, FetchStep
    <3> QED
      BY <3>1, <3>2
  <2> QED
    BY <2>1, <2>2
<1>6. CASE StoreNothing(p) \/ Prepare(p) \/ PrepareFails(p) \/ Checkout(p) \/ CheckoutFails(p)
  BY <1>6 DEF StoreNothing, Prepare, PrepareFails, Checkout, CheckoutFails, StorageFails, GiveUp,
     Return
<1>7. CASE StoreProcessing(p)
  <2>1. run'[p].boundary = run[p].boundary /\ lastFinished' = lastFinished
    BY <1>7 DEF StoreProcessing, NoRun
  <2> QED
    BY <1>7, <2>1 DEF StoreProcessing
<1>8. CASE \/ Apply(p) \/ ApplyFails(p) \/ StoreFailed(p) \/ StoreSucceeded(p)
           \/ StoreFinished(p)
  BY <1>8 DEF Apply, ApplyFails, StoreFailed, StoreSucceeded, StoreFinished, StorageFails, GiveUp,
     Return
<1> QED
  BY <1>1, <1>2, <1>3, <1>4, <1>5, <1>6, <1>7, <1>8, <1>9 DEF Work

LEMMA EnvironmentCurrent == ASSUME BoundaryCurrent, Environment PROVE BoundaryCurrent'
BY DEF Environment, BoundaryCurrent, Advance, Crash, PluginDies, OrphanActs, Push, Sign, Unsign, SetConfig,
       DeleteConfig, TrustKey, DeleteKey, memory

\* When calls of PeriodicTask do not overlap, the last finished commit is never
\* replaced by an older one, through pushes, failures and restarts
\* (git.go:43).
THEOREM SingleDatesCorrect ==
    ASSUME \A q, r \in Tick : q = r
    PROVE  Spec => DatesNeverDecrease
<1> DEFINE Step == lastFinished' # lastFinished /\ lastFinished # NoCommit =>
                       /\ lastFinished' # NoCommit
                       /\ Date[lastFinished] <= Date[lastFinished']
<1>1. Spec => []BoundaryCurrent
  <2>1. Init => BoundaryCurrent
    BY DEF Init, BoundaryCurrent
  <2>2. IType /\ BoundaryCurrent /\ [Next]_vars => BoundaryCurrent'
    <3>1. BoundaryCurrent /\ UNCHANGED vars => BoundaryCurrent'
      BY DEF BoundaryCurrent, vars, memory
    <3> QED
      BY <3>1, WorkCurrent, EnvironmentCurrent DEF Next
  <2> QED
    BY <2>1, <2>2, InductiveType, PTL DEF Spec
<1>2. IType /\ DatesOK /\ BoundaryCurrent /\ Next => Step
  <2> SUFFICES ASSUME IType, DatesOK, BoundaryCurrent, Next, lastFinished' # lastFinished,
                      lastFinished # NoCommit
               PROVE  lastFinished' # NoCommit /\ Date[lastFinished] <= Date[lastFinished']
    OBVIOUS
  <2>1. PICK p \in Tick : pc[p] = "finish" /\ lastFinished' = run[p].found
    BY RecordStep
  <2>2. run[p].boundary = lastFinished /\ run[p].found \in InWindow(run[p].boundary, now)
    BY <2>1 DEF BoundaryCurrent, DatesOK, FoundInWindow, Handling
  <2> QED
    BY <2>1, <2>2, CommitAssumption DEF InWindow
<1>3. IType /\ DatesOK /\ BoundaryCurrent /\ [Next]_vars => [Step]_vars
  BY <1>2
<1> QED
  BY <1>1, <1>3, AlwaysDates, InductiveType, PTL DEF Spec, DatesNeverDecrease
-----------------------------------------------------------------------------
(* The poll interval.  Nobody else stores a timestamp between the check of a  *)
(* goroutine and its own store, because of the guard, and the time since the  *)
(* one before only grows; less than a second was cut off it.                  *)

IntervalOK == \A p \in Tick : pc[p] = "stamp" => elapsed + (Second - 1) > run[p].period

\* Whoever is about to store a timestamp was so before, and time stands still.
LEMMA SameInterval ==
    ASSUME IntervalOK, elapsed' = elapsed,
           \A p \in Tick : pc'[p] = "stamp" => pc[p] = "stamp" /\ run'[p].period = run[p].period
    PROVE  IntervalOK'
BY DEF IntervalOK

LEMMA PeriodType == ASSUME IType, NEW p \in Tick PROVE run[p].period \in Nat
<1>1. run[p].period \in Period \/ run[p].period = 0
  BY DEF IType, TypeOK, Run
<1>2. Period \subseteq Nat
  BY PeriodicAssumption
<1>3. 0 \in Nat
  OBVIOUS
<1>4. CASE run[p].period \in Period
  BY <1>2, <1>4
<1>5. CASE run[p].period = 0
  BY <1>3, <1>5
<1> QED
  BY <1>1, <1>4, <1>5

LEMMA WorkInterval ==
    ASSUME IType, GuardMatchesRun, IntervalOK, NEW p \in Tick, TickRead(p) \/ Work(p)
    PROVE  IntervalOK'
<1>1. CASE TickRead(p) \/ TickSkip(p) \/ TickLaunch(p) \/ ReadConfig(p)
  BY <1>1, SameInterval
     DEF IType, TypeOK, TickRead, TickSkip, TickLaunch, ReadConfig, StorageFails, GiveUp, Return,
     Goto, clock
<1>2. CASE CheckInterval(p)
  <2>1. CASE GiveUp(p, "interval")
    BY <2>1, SameInterval DEF IType, TypeOK, GiveUp, Return, Goto, clock
  <2>2. CASE ~GiveUp(p, "interval")
    <3>1. elapsed + cut > run[p].period /\ UNCHANGED <<elapsed, run>> /\ Goto(p, "interval", "stamp")
      BY <1>2, <2>2 DEF CheckInterval, StorageFails
    <3>2. elapsed + (Second - 1) > run[p].period
      <4>1. elapsed \in Int /\ cut \in Int /\ cut <= Second - 1 /\ Second \in Int
        BY PeriodicAssumption DEF IType, TypeOK
      <4>2. run[p].period \in Int
        BY PeriodType
      <4> QED
        BY <3>1, <4>1, <4>2
    <3> QED
      BY <3>1, <3>2 DEF IType, TypeOK, IntervalOK, Goto
  <2> QED
    BY <2>1, <2>2
<1>3. CASE StampRun(p)
  <2>1. \A q \in Tick : pc[q] = "stamp" => q = p
    BY <1>3 DEF GuardMatchesRun, StampRun, StorageFails, GiveUp, Return, Goto, Active, Searching
  <2> QED
    BY <1>3, <2>1 DEF IType, TypeOK, IntervalOK, StampRun, StorageFails, GiveUp, Return, Goto
<1>4. CASE SearchConfig(p) \/ CloneRepository(p) \/ CloneFails(p) \/ ListKeys(p)
  BY <1>4, SameInterval
     DEF IType, TypeOK, SearchConfig, CloneRepository, CloneFails, ListKeys, StorageFails, GiveUp,
     Return, Goto, clock
<1>5. CASE FetchKey(p) \/ Search(p) \/ SearchFails(p)
  BY <1>5, SameInterval
     DEF IType, TypeOK, FetchKey, Search, SearchFails, PluginDies, StorageFails, GiveUp, Return, Goto, clock
<1>6. CASE StoreNothing(p) \/ StoreFailed(p) \/ StoreSucceeded(p) \/ StoreFinished(p)
  BY <1>6, SameInterval
     DEF IType, TypeOK, StoreNothing, StoreFailed, StoreSucceeded, StoreFinished, StorageFails,
     GiveUp, Return, Goto, clock
<1>7. CASE \/ StoreProcessing(p) \/ Prepare(p) \/ PrepareFails(p)
           \/ Checkout(p) \/ CheckoutFails(p) \/ Apply(p) \/ ApplyFails(p)
  BY <1>7, SameInterval
     DEF IType, TypeOK, StoreProcessing, Prepare, PrepareFails, Checkout, CheckoutFails, Apply, ApplyFails, Goto, clock
<1> QED
  BY <1>1, <1>2, <1>3, <1>4, <1>5, <1>6, <1>7 DEF Work

LEMMA EnvironmentInterval ==
    ASSUME IType, IntervalOK, Environment PROVE IntervalOK'
<1>1. CASE Advance
  <2>1. elapsed \in Nat /\ elapsed' \in Nat /\ elapsed <= elapsed' /\ Second \in Nat
    BY <1>1, PeriodicAssumption DEF IType, TypeOK, Advance, Min2
  <2>2. ASSUME NEW p \in Tick PROVE run[p].period \in Nat
    BY PeriodType
  <2> QED
    BY <1>1, <2>1, <2>2 DEF IntervalOK, Advance, memory
<1>2. CASE Crash \/ OrphanActs
  BY <1>2 DEF IntervalOK, Crash, PluginDies, OrphanActs, clock, memory
<1>3. CASE Push \/ Sign \/ Unsign \/ SetConfig \/ DeleteConfig \/ TrustKey \/ DeleteKey
  BY <1>3 DEF IntervalOK, Push, Sign, Unsign, SetConfig, DeleteConfig, TrustKey, DeleteKey, clock, memory
<1> QED
  BY <1>1, <1>2, <1>3 DEF Environment

\* A run starts its search less than a second before the poll interval is over at
\* the most, for every number of overlapping calls, any restarts, any change of the
\* interval and any fraction of a second that is cut off (periodic.go:89-102, :172).
THEOREM IntervalCorrect == Spec => RunsKeepInterval
<1> DEFINE Step == \A p \in Tick :
               pc[p] = "stamp" /\ pc'[p] = "configure" => elapsed + (Second - 1) > run[p].period
<1>1. Init => IntervalOK
  BY DEF Init, IntervalOK
<1>2. IntervalOK /\ UNCHANGED vars => IntervalOK'
  BY DEF IntervalOK, vars, clock, memory
<1>3. IType /\ GuardMatchesRun /\ IntervalOK /\ [Next]_vars => IntervalOK'
  BY <1>2, WorkInterval, EnvironmentInterval DEF Next
<1>4. IntervalOK => [Step]_vars
  BY DEF IntervalOK
<1> QED
  BY <1>1, <1>3, <1>4, InductiveType, GuardCorrect, PTL DEF Spec, RunsKeepInterval

-----------------------------------------------------------------------------
(* The status.  Between storing "processing" and storing the record a         *)
(* goroutine owns it; at all other times it tells of a run that is over.      *)

Owning == {"prepare", "checkout", "apply", "failed", "succeeded", "finish"}

Settled ==
    /\ status.kind # "processing"
    /\ status.kind = "succeeded" => lastFinished = status.commit /\ InPlace(lastFinished)

StatusOK ==
    /\ \A p \in Tick : pc[p] = "keys" => \A n \in run[p].left : trusted[n] # NoKey
    /\ (\A p \in Tick : pc[p] \notin Owning) => Settled
    /\ \A p \in Tick :
          pc[p] = "finish" => status = [kind |-> "succeeded", commit |-> run[p].found]

Reliable == Fault \cap {"storage", "crash", "orphan"} = {} /\ "distrust" \notin Operator

\* A step that neither starts nor ends an ownership.
LEMMA SameOwner ==
    ASSUME IType, StatusOK, NEW p \in Tick,
           UNCHANGED <<status, lastFinished, target, trusted>>,
           \A q \in Tick : q # p => pc'[q] = pc[q] /\ run'[q] = run[q],
           pc[p] \in Owning <=> pc'[p] \in Owning, pc'[p] \notin {"finish", "keys"}
    PROVE  StatusOK'
<1>1. (\A q \in Tick : pc'[q] \notin Owning) => \A q \in Tick : pc[q] \notin Owning
  OBVIOUS
<1>2. Settled' = Settled
  BY DEF Settled, InPlace
<1>3. \A q \in Tick : pc'[q] \in {"finish", "keys"} => pc[q] = pc'[q] /\ run'[q] = run[q]
  OBVIOUS
<1> QED
  BY <1>1, <1>2, <1>3 DEF StatusOK

LEMMA WorkStatus ==
    ASSUME Reliable, IType, GuardMatchesRun, AppliedInPlace, StatusOK,
           NEW p \in Tick, TickRead(p) \/ Work(p)
    PROVE  StatusOK'
<1> USE DEF Owning
<1>a. \A l \in Label : ~StorageFails(p, l)
  BY DEF Reliable, StorageFails
<1>1. CASE TickRead(p) \/ TickSkip(p) \/ TickLaunch(p)
  BY <1>1, SameOwner DEF IType, TypeOK, TickRead, TickSkip, TickLaunch, Goto, outcome, settings
<1>2. CASE ReadConfig(p) \/ CheckInterval(p) \/ StampRun(p)
  BY <1>2, <1>a, SameOwner
     DEF IType, TypeOK, ReadConfig, CheckInterval, StampRun, GiveUp, Return, Goto, Label, Active,
     Searching, outcome, settings
<1>3. CASE SearchConfig(p) \/ CloneRepository(p) \/ CloneFails(p)
  BY <1>3, <1>a, SameOwner
     DEF IType, TypeOK, SearchConfig, CloneRepository, CloneFails, GiveUp, Return, Goto, Label,
     Active, Searching, outcome, settings
<1>4. CASE ListKeys(p)
  <2>1. /\ Goto(p, "list", "keys")
        /\ run' = [run EXCEPT ![p].left = {n \in Name : trusted[n] # NoKey}, ![p].keys = {}]
        /\ UNCHANGED <<settings, lastFinished, status, outcome>>
    BY <1>4, <1>a DEF ListKeys, Label, Active, Searching
  <2>2. run[p] \in Run
    BY DEF IType, TypeOK
  <2>3. run'[p].left = {n \in Name : trusted[n] # NoKey}
    BY <2>1, <2>2 DEF IType, TypeOK, Run
  <2>4. Settled' = Settled /\ trusted' = trusted
    BY <2>1 DEF Settled, InPlace, outcome, settings
  <2>5. \A q \in Tick : q # p => pc'[q] = pc[q] /\ run'[q] = run[q]
    BY <2>1 DEF IType, TypeOK, Goto
  <2>6. pc[p] = "list" /\ pc'[p] = "keys" /\ status' = status
    BY <2>1 DEF IType, TypeOK, Goto
  <2> QED
    BY <2>3, <2>4, <2>5, <2>6 DEF StatusOK
<1>5. CASE FetchKey(p)
  <2>1. ~GiveUp(p, "keys") /\ ~PluginDies
    <3>1. pc[p] = "keys" => \A n \in run[p].left : trusted[n] # NoKey
      BY DEF StatusOK
    <3>2. ~StorageFails(p, "keys")
      BY <1>a DEF Label, Active, Searching
    <3>3. \E n \in run[p].left : Goto(p, "keys", "keys")
      BY <1>5, <3>1, <3>2 DEF FetchKey
    <3> QED
      BY <3>3 DEF IType, TypeOK, Goto, GiveUp, Return, PluginDies
  <2>2. /\ pc' = pc
        /\ UNCHANGED <<trusted, lastFinished, status, target>>
    BY <1>5, <2>1, FetchStep DEF settings, outcome
  <2>3. \A q \in Tick : q # p => run'[q] = run[q]
    BY <1>5, <2>1, FetchStep
  <2>4. run'[p].left \subseteq run[p].left /\ run'[p].found = run[p].found
    BY <1>5, <2>1, FetchStep
  <2>5. Settled' = Settled
    BY <2>2 DEF Settled, InPlace
  <2>6. \A q \in Tick : run'[q].left \subseteq run[q].left /\ run'[q].found = run[q].found
    BY <2>3, <2>4
  <2> QED
    BY <2>2, <2>5, <2>6 DEF StatusOK
<1>6. CASE Search(p)
  <2>1. pc[p] = "keys" /\ pc'[p] \in {"nothing", "processing"}
    BY <1>6 DEF IType, TypeOK, Search, Goto
  <2>2. \A q \in Tick : q # p => pc'[q] = pc[q] /\ run'[q] = run[q]
    BY <1>6 DEF IType, TypeOK, Search, Goto
  <2> QED
    BY <1>6, <2>1, <2>2, SameOwner DEF Search, outcome, settings
<1>7. CASE StoreNothing(p)
  <2>1. Return(p, "nothing") /\ status' = [kind |-> "nothing"] /\ UNCHANGED settings
    BY <1>7, <1>a DEF StoreNothing, Label, Active
  <2>2. Settled'
    BY <2>1 DEF Settled
  <2>3. \A q \in Tick : q # p => pc[q] # "finish"
    BY <2>1 DEF GuardMatchesRun, Return, Goto, Active, Handling
  <2>4. \A q \in Tick : q # p => pc'[q] = pc[q] /\ run'[q] = run[q]
    BY <2>1 DEF IType, TypeOK, Return, Goto
  <2>5. pc'[p] = "idle" /\ trusted' = trusted
    BY <2>1 DEF IType, TypeOK, Return, Goto, settings
  <2> QED
    BY <2>2, <2>3, <2>4, <2>5 DEF StatusOK
<1>8. CASE StoreProcessing(p)
  <2>1. Goto(p, "processing", "prepare") /\ UNCHANGED settings
    BY <1>8 DEF StoreProcessing
  <2>2. \A q \in Tick : q # p => pc[q] # "finish"
    BY <2>1 DEF GuardMatchesRun, Goto, Active, Handling
  <2>3. \A q \in Tick : q # p => pc'[q] = pc[q] /\ run'[q] = run[q]
    BY <1>8 DEF IType, TypeOK, StoreProcessing, Goto
  <2>4. pc'[p] = "prepare" /\ trusted' = trusted
    BY <2>1 DEF IType, TypeOK, Goto, settings
  <2> QED
    BY <2>2, <2>3, <2>4 DEF StatusOK
<1>9. CASE Prepare(p) \/ PrepareFails(p) \/ Checkout(p) \/ CheckoutFails(p)
  BY <1>9, SameOwner
     DEF IType, TypeOK, Prepare, PrepareFails, Checkout, CheckoutFails, Goto, outcome, settings
<1>10. CASE Apply(p) \/ ApplyFails(p)
  <2>1. pc[p] = "apply" /\ pc'[p] \in {"succeeded", "failed"} /\ UNCHANGED <<run, status, trusted>>
    BY <1>10 DEF IType, TypeOK, Apply, ApplyFails, Goto, settings
  <2>2. \A q \in Tick : q # p => pc'[q] = pc[q]
    BY <1>10 DEF IType, TypeOK, Apply, ApplyFails, Goto
  <2> QED
    BY <2>1, <2>2 DEF StatusOK
<1>11. CASE StoreFailed(p)
  <2>1. /\ Return(p, "failed") /\ UNCHANGED settings
        /\ status' = [kind |-> "failed", commit |-> run[p].found]
    BY <1>11 DEF StoreFailed, Reliable
  <2>2. Settled'
    BY <2>1 DEF Settled
  <2>3. \A q \in Tick : q # p => pc[q] # "finish"
    BY <2>1 DEF GuardMatchesRun, Return, Goto, Active, Handling
  <2>4. \A q \in Tick : q # p => pc'[q] = pc[q] /\ run'[q] = run[q]
    BY <2>1 DEF IType, TypeOK, Return, Goto
  <2>5. pc'[p] = "idle" /\ trusted' = trusted
    BY <2>1 DEF IType, TypeOK, Return, Goto, settings
  <2> QED
    BY <2>2, <2>3, <2>4, <2>5 DEF StatusOK
<1>12. CASE StoreSucceeded(p)
  <2>1. /\ Goto(p, "succeeded", "finish") /\ UNCHANGED <<settings, run>>
        /\ status' = [kind |-> "succeeded", commit |-> run[p].found]
    BY <1>12, <1>a DEF StoreSucceeded, Label, Active, Handling
  <2>2. \A q \in Tick : q # p => pc[q] # "finish" /\ pc'[q] = pc[q]
    BY <2>1 DEF IType, TypeOK, GuardMatchesRun, Goto, Active, Handling
  <2>3. pc'[p] = "finish" /\ trusted' = trusted
    BY <2>1 DEF IType, TypeOK, Goto, settings
  <2> QED
    BY <2>1, <2>2, <2>3 DEF StatusOK
<1>13. CASE StoreFinished(p)
  <2>1. /\ Return(p, "finish") /\ UNCHANGED <<settings, status, outcome>>
        /\ lastFinished' = run[p].found
    BY <1>13, <1>a DEF StoreFinished, Label, Active, Handling
  <2>2. Settled'
    BY <2>1 DEF Settled, InPlace, StatusOK, AppliedInPlace, Return, Goto, outcome
  <2>3. \A q \in Tick : q # p => pc[q] # "finish"
    BY <2>1 DEF GuardMatchesRun, Return, Goto, Active, Handling
  <2>4. \A q \in Tick : q # p => pc'[q] = pc[q] /\ run'[q] = run[q]
    BY <2>1 DEF IType, TypeOK, Return, Goto
  <2>5. pc'[p] = "idle" /\ trusted' = trusted
    BY <2>1 DEF IType, TypeOK, Return, Goto, settings
  <2> QED
    BY <2>2, <2>3, <2>4, <2>5 DEF StatusOK
<1>14. CASE SearchFails(p)
  BY <1>14, SameOwner DEF IType, TypeOK, SearchFails, GiveUp, Return, Goto, outcome, settings
<1> QED
  BY <1>1, <1>2, <1>3, <1>4, <1>5, <1>6, <1>7, <1>8, <1>9, <1>10, <1>11, <1>12, <1>13, <1>14
     DEF Work

LEMMA EnvironmentStatus ==
    ASSUME Reliable, IType, AppliedInPlace, StatusOK, Environment PROVE StatusOK'
<1>1. UNCHANGED <<memory, status, lastFinished, outcome>>
  BY DEF Environment, Advance, Crash, OrphanActs, Push, Sign, Unsign, SetConfig, DeleteConfig,
     TrustKey, DeleteKey, Reliable, AppliedInPlace
<1>2. \A n \in Name : trusted[n] # NoKey => trusted'[n] # NoKey
  <2>1. CASE TrustKey
    BY <2>1, PeriodicAssumption DEF IType, TypeOK, TrustKey
  <2>2. CASE trusted' = trusted
    BY <2>2
  <2> QED
    BY <2>1, <2>2 DEF Environment, Advance, Crash, OrphanActs, Push, Sign, Unsign, SetConfig,
       DeleteConfig, DeleteKey, Reliable, AppliedInPlace, settings
<1>3. \A p \in Tick : run[p].left \subseteq Name
  BY DEF IType, TypeOK, Run
<1> QED
  BY <1>1, <1>2, <1>3 DEF StatusOK, Settled, InPlace, memory, outcome

\* While nothing runs, the status does not say that a commit is processed, and a
\* commit that it says has succeeded is recorded and in place, for every number of
\* overlapping calls with any failing clones and terraforms, as long as no store
\* fails, the plugin keeps running and no key is deleted (periodic.go:128-151).
THEOREM StatusCorrect ==
    ASSUME Reliable
    PROVE  Spec => []StatusTellsOutcome
<1>1. Init => StatusOK
  BY DEF Init, StatusOK, Settled
<1>2. StatusOK /\ UNCHANGED vars => StatusOK'
  BY DEF StatusOK, Settled, InPlace, vars, memory, settings, outcome
<1>3. IType /\ GuardMatchesRun /\ AppliedInPlace /\ StatusOK /\ [Next]_vars => StatusOK'
  BY <1>2, WorkStatus, EnvironmentStatus DEF Next
<1>4. GuardMatchesRun /\ StatusOK => StatusTellsOutcome
  BY DEF GuardMatchesRun, StatusOK, StatusTellsOutcome, Settled, InPlace, Owning, Active, Handling
<1>5. "orphan" \notin Fault
  BY DEF Reliable
<1>6. Spec => []AppliedInPlace
  BY <1>5, AlwaysInPlace
<1> QED
  BY <1>1, <1>3, <1>4, <1>6, InductiveType, GuardCorrect, PTL DEF Spec
=============================================================================
