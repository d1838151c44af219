------------------------ MODULE GitopsPeriodicProofs ------------------------
(***************************************************************************)
(* Proofs about GitopsPeriodic for every set of ticks, commits and keys,   *)
(* every history and every choice of requests and failures.                *)
(***************************************************************************)
EXTENDS GitopsPeriodic, FiniteSetTheorems, TLAPS

\* A goroutine that handles a commit has found one.
FoundIsCommit == \A p \in Tick : pc[p] \in Handling => run[p].found \in Commit

IType == TypeOK /\ FoundIsCommit

LEMMA NoRunType == NoRun \in Run
BY DEF NoRun, Run, MaybeCommit, Unsigned, Signed

LEMMA InitType == Init => IType
<1> SUFFICES ASSUME Init PROVE IType
  OBVIOUS
<1>1. TypeOK
  BY NoRunType, PeriodicAssumption
     DEF Init, TypeOK, Target, Status, MaybeCommit, Signed, Label
<1>2. FoundIsCommit
  BY DEF Init, FoundIsCommit, Handling
<1> QED
  BY <1>1, <1>2 DEF IType

\* A goroutine that ends without writing anything keeps the types.
LEMMA GiveUpType ==
    ASSUME IType, NEW p \in Tick, NEW l \in Label, GiveUp(p, l)
    PROVE  IType'
<1>1. TypeOK'
  BY NoRunType DEF IType, TypeOK, GiveUp, Return, Goto, Label, remote, settings, clock, outcome
<1>2. FoundIsCommit'
  BY NoRunType DEF IType, TypeOK, FoundIsCommit, GiveUp, Return, Goto, Label, Handling
<1> QED
  BY <1>1, <1>2 DEF IType

\* So does the end of the plugin process.
LEMMA PluginDiesType == ASSUME IType, PluginDies PROVE IType'
<1>1. TypeOK'
  BY NoRunType DEF IType, TypeOK, FoundIsCommit, PluginDies, Applying, Label, Handling, Target,
     MaybeCommit, remote, settings, clock, outcome
<1>2. FoundIsCommit'
  BY DEF FoundIsCommit, PluginDies, Handling
<1> QED
  BY <1>1, <1>2 DEF IType

\* Fetching a key that is there moves it from the names to the keys of a run.
LEMMA FetchStep ==
    ASSUME IType, NEW p \in Tick, FetchKey(p), ~PluginDies, ~GiveUp(p, "keys")
    PROVE  /\ pc[p] = "keys" /\ pc' = pc /\ run' \in [Tick -> Run]
           /\ UNCHANGED <<remote, settings, lastFinished, status, clock, outcome, guard>>
           /\ \A q \in Tick : q # p => run'[q] = run[q]
           /\ run'[p].boundary = run[p].boundary /\ run'[p].found = run[p].found
           /\ run'[p].required = run[p].required /\ run'[p].signed = run[p].signed
           /\ \E n \in run[p].left :
                 /\ trusted[n] # NoKey
                 /\ run'[p].left = run[p].left \ {n}
                 /\ run'[p].keys = run[p].keys \cup {trusted[n]}
<1>1. PICK n \in run[p].left :
         /\ trusted[n] # NoKey
         /\ Goto(p, "keys", "keys")
         /\ run' = [run EXCEPT ![p].left = @ \ {n}, ![p].keys = @ \cup {trusted[n]}]
         /\ UNCHANGED <<remote, settings, lastFinished, status, clock, outcome, guard>>
  BY DEF FetchKey, StorageFails
<1>2. run[p] \in Run /\ trusted[n] \in Key
  BY <1>1 DEF IType, TypeOK, Run
<1>3. run' \in [Tick -> Run]
  BY <1>1, <1>2 DEF IType, TypeOK, Run
<1>4. /\ \A q \in Tick : q # p => run'[q] = run[q]
      /\ run'[p].boundary = run[p].boundary /\ run'[p].found = run[p].found
      /\ run'[p].required = run[p].required /\ run'[p].signed = run[p].signed
      /\ run'[p].left = run[p].left \ {n}
      /\ run'[p].keys = run[p].keys \cup {trusted[n]}
  BY <1>1, <1>2 DEF IType, TypeOK, Run
<1>5. pc[p] = "keys" /\ pc' = pc
  BY <1>1 DEF IType, TypeOK, Goto
<1> QED
  BY <1>1, <1>3, <1>4, <1>5

\* Listing the keys leaves their names to be fetched.
LEMMA ListStep ==
    ASSUME IType, NEW p \in Tick, ListKeys(p), ~GiveUp(p, "list")
    PROVE  /\ pc[p] = "list" /\ pc'[p] = "keys" /\ run' \in [Tick -> Run]
           /\ UNCHANGED <<remote, settings, lastFinished, status, clock, outcome, guard>>
           /\ run'[p].boundary = run[p].boundary /\ run'[p].found = run[p].found
           /\ run'[p].required = run[p].required /\ run'[p].signed = run[p].signed
           /\ run'[p].left = {n \in Name : trusted[n] # NoKey}
           /\ run'[p].keys = {}
<1> DEFINE Names == {n \in Name : trusted[n] # NoKey}
<1>1. /\ Goto(p, "list", "keys")
      /\ run' = [run EXCEPT ![p].left = Names, ![p].keys = {}]
      /\ UNCHANGED <<remote, settings, lastFinished, status, clock, outcome, guard>>
  BY DEF ListKeys, StorageFails
<1>2. run[p] \in Run /\ Names \in SUBSET Name /\ {} \in SUBSET Key
  BY DEF IType, TypeOK
<1> HIDE DEF Names
<1>3. /\ run'[p].boundary = run[p].boundary /\ run'[p].found = run[p].found
      /\ run'[p].required = run[p].required /\ run'[p].signed = run[p].signed
      /\ run'[p].left = Names
      /\ run'[p].keys = {}
  BY <1>1, <1>2 DEF IType, TypeOK, Run
<1>4. run'[p] \in Run
  BY <1>1, <1>2 DEF IType, TypeOK, Run
<1>5. run' \in [Tick -> Run]
  BY <1>1, <1>4 DEF IType, TypeOK
<1>6. pc[p] = "list" /\ pc'[p] = "keys"
  BY <1>1 DEF IType, TypeOK, Goto
<1> QED
  BY <1>1, <1>3, <1>5, <1>6 DEF Names

\* Every step of a call of PeriodicTask keeps the types.
LEMMA WorkType == ASSUME IType, NEW p \in Tick, TickRead(p) \/ Work(p) PROVE IType'
<1> USE DEF Label, Active, Searching, Handling
<1>1. CASE TickRead(p)
  <2>1. run[p] \in Run /\ lastFinished \in MaybeCommit
    BY DEF IType, TypeOK
  <2>2. [run[p] EXCEPT !.boundary = lastFinished] \in Run
    BY <2>1 DEF Run
  <2>3. run' \in [Tick -> Run]
    BY <1>1, <2>2 DEF IType, TypeOK, TickRead
  <2> QED
    BY <1>1, <2>3 DEF IType, TypeOK, FoundIsCommit, TickRead, Goto, remote, settings, clock, outcome
<1>2. CASE TickSkip(p)
  BY <1>2, NoRunType DEF IType, TypeOK, FoundIsCommit, TickSkip, Goto,
     remote, settings, clock, outcome
<1>3. CASE TickLaunch(p)
  BY <1>3 DEF IType, TypeOK, FoundIsCommit, TickLaunch, Goto,
     remote, settings, clock, outcome
<1>4. CASE ReadConfig(p)
  <2>1. CASE GiveUp(p, "start")
    BY <2>1, GiveUpType
  <2>2. CASE config # NoConfig /\ run' = [run EXCEPT ![p].period = config.period]
    <3>1. config.period \in Period
      BY <2>2 DEF IType, TypeOK, Config
    <3>2. run' \in [Tick -> Run]
      BY <2>2, <3>1 DEF IType, TypeOK, Run
    <3> QED
      BY <1>4, <2>1, <2>2, <3>2 DEF IType, TypeOK, FoundIsCommit, ReadConfig, Goto, StorageFails,
         remote, settings, clock, outcome
  <2> QED
    BY <1>4, <2>1, <2>2 DEF ReadConfig, StorageFails
<1>5. CASE CheckInterval(p)
  <2>1. 0 \in 0..MaxAge
    BY PeriodicAssumption
  <2> QED
    BY <1>5, <2>1, GiveUpType DEF IType, TypeOK, FoundIsCommit, CheckInterval, Goto, StorageFails,
       remote, settings, clock, outcome
<1>6. CASE StampRun(p)
  <2>1. /\ 0 \in 0..MaxAge /\ waited[p] \in 0..MaxAge
        /\ \A e \in 0..waited[p] : e \in 0..MaxAge
    BY PeriodicAssumption DEF IType, TypeOK
  <2> QED
    BY <1>6, <2>1, GiveUpType DEF IType, TypeOK, FoundIsCommit, StampRun, Goto, StorageFails,
       remote, settings, clock, outcome
<1>7. CASE SearchConfig(p)
  <2>1. CASE GiveUp(p, "configure")
    BY <2>1, GiveUpType
  <2>2. CASE config # NoConfig /\ run' = [run EXCEPT ![p].required = config.required]
    <3>1. config.required \in Required
      BY <2>2 DEF IType, TypeOK, Config
    <3>2. run' \in [Tick -> Run]
      BY <2>2, <3>1 DEF IType, TypeOK, Run
    <3> QED
      BY <1>7, <2>1, <2>2, <3>2 DEF IType, TypeOK, FoundIsCommit, SearchConfig, Goto, StorageFails,
         remote, settings, clock, outcome
  <2> QED
    BY <1>7, <2>1, <2>2 DEF SearchConfig, StorageFails
<1>8. CASE CloneRepository(p)
  <2>1. run' \in [Tick -> Run]
    <3>1. run[p] \in Run /\ head \in MaybeCommit /\ signers \in Signed
      BY DEF IType, TypeOK, MaybeCommit
    <3>2. [run[p] EXCEPT !.head = head, !.signed = signers] \in Run
      BY <3>1 DEF Run
    <3> QED
      BY <1>8, <3>2 DEF IType, TypeOK, CloneRepository
  <2>2. TypeOK'
    BY <1>8, <2>1 DEF IType, TypeOK, CloneRepository, Goto, remote, settings, clock, outcome
  <2>3. FoundIsCommit'
    BY <1>8, <2>1, <2>2 DEF IType, TypeOK, FoundIsCommit, CloneRepository, Goto, remote, settings, clock, outcome
  <2> QED
    BY <2>2, <2>3 DEF IType
<1>9. CASE CloneFails(p)
  BY <1>9, GiveUpType DEF CloneFails
<1>10. CASE ListKeys(p)
  <2>1. CASE GiveUp(p, "list")
    BY <2>1, GiveUpType
  <2>2. CASE ~GiveUp(p, "list")
    <3>1. /\ run' \in [Tick -> Run]
          /\ UNCHANGED <<remote, settings, lastFinished, status, clock, outcome, guard>>
      BY <1>10, <2>2, ListStep
    <3>2. pc' = [pc EXCEPT ![p] = "keys"]
      BY <1>10, <2>2 DEF ListKeys, StorageFails, Goto
    <3>3. TypeOK'
      BY <3>1, <3>2 DEF IType, TypeOK, remote, settings, clock, outcome
    <3>4. \A q \in Tick : pc'[q] \in Handling => run'[q] = run[q] /\ pc'[q] = pc[q]
      BY <1>10, <2>2, <3>2 DEF IType, TypeOK, ListKeys, StorageFails
    <3>5. FoundIsCommit'
      BY <3>4 DEF IType, FoundIsCommit
    <3> QED
      BY <3>3, <3>5 DEF IType
  <2> QED
    BY <2>1, <2>2
<1>11. CASE FetchKey(p)
  <2>1. CASE PluginDies \/ GiveUp(p, "keys")
    BY <2>1, PluginDiesType, GiveUpType
  <2>2. CASE ~PluginDies /\ ~GiveUp(p, "keys")
    <3>1. /\ pc[p] = "keys" /\ pc' = pc /\ run' \in [Tick -> Run]
          /\ UNCHANGED <<remote, settings, lastFinished, status, clock, outcome, guard>>
      BY <1>11, <2>2, FetchStep
    <3>2. TypeOK'
      BY <3>1 DEF IType, TypeOK, remote, settings, clock, outcome
    <3>3. FoundIsCommit'
      BY <1>11, <2>2, FetchStep DEF IType, TypeOK, FoundIsCommit
    <3> QED
      BY <3>2, <3>3 DEF IType
  <2> QED
    BY <2>1, <2>2
<1>12. CASE Search(p)
  <2>1. PICK c \in MaybeCommit :
           /\ Goto(p, "keys", IF c = NoCommit THEN "nothing" ELSE "processing")
           /\ run' = [run EXCEPT ![p].found = c]
    BY <1>12 DEF Search
  <2>2. run[p] \in Run
    BY DEF IType, TypeOK
  <2>3. run' \in [Tick -> Run] /\ run'[p].found = c
    BY <2>1, <2>2 DEF IType, TypeOK, Run
  <2>4. TypeOK'
    BY <1>12, <2>1, <2>3 DEF IType, TypeOK, Search, Goto, remote, settings, clock, outcome
  <2>5. FoundIsCommit'
    BY <2>1, <2>3 DEF IType, TypeOK, FoundIsCommit, Goto, MaybeCommit
  <2> QED
    BY <2>4, <2>5 DEF IType
<1>13. CASE StoreNothing(p)
  BY <1>13, GiveUpType, NoRunType DEF IType, TypeOK, FoundIsCommit, StoreNothing, Goto, StorageFails, Return, Status,
     remote, settings, clock, outcome
<1>14. CASE StoreProcessing(p)
  <2>1. run[p] \in Run /\ run[p].found \in Commit
    BY <1>14 DEF IType, TypeOK, FoundIsCommit, StoreProcessing, Goto
  <2>2. [NoRun EXCEPT !.boundary = run[p].boundary, !.found = run[p].found] \in Run
    BY <2>1, NoRunType DEF Run
  <2>3. run' \in [Tick -> Run] /\ run'[p].found = run[p].found
    BY <1>14, <2>2 DEF IType, TypeOK, StoreProcessing, NoRun
  <2>4. status' \in Status
    BY <1>14, <2>1 DEF IType, TypeOK, StoreProcessing, Status
  <2>5. TypeOK'
    BY <1>14, <2>3, <2>4 DEF IType, TypeOK, StoreProcessing, Goto, remote, settings, clock, outcome
  <2>6. FoundIsCommit'
    BY <1>14, <2>1, <2>3 DEF IType, TypeOK, FoundIsCommit, StoreProcessing, Goto
  <2> QED
    BY <2>5, <2>6 DEF IType
<1>15. CASE Prepare(p)
  BY <1>15 DEF IType, TypeOK, FoundIsCommit, Prepare, Goto,
     remote, settings, clock, outcome
<1>16. CASE PrepareFails(p)
  BY <1>16 DEF IType, TypeOK, FoundIsCommit, PrepareFails, Goto,
     remote, settings, clock, outcome
<1>17. CASE Apply(p)
  BY <1>17 DEF IType, TypeOK, FoundIsCommit, Apply, Goto, Target, MaybeCommit,
     remote, settings, clock, outcome
<1>18. CASE ApplyFails(p)
  <2>1. target' \in Target
    <3>1. [commit |-> run[p].found, complete |-> FALSE] \in Target
      BY <1>18 DEF IType, FoundIsCommit, ApplyFails, Goto, Target, MaybeCommit
    <3> QED
      BY <1>18, <3>1 DEF IType, TypeOK, ApplyFails
  <2> QED
    BY <1>18, <2>1 DEF IType, TypeOK, FoundIsCommit, ApplyFails, Goto, remote, settings, clock, outcome
<1>19. CASE StoreFailed(p)
  BY <1>19, NoRunType DEF IType, TypeOK, FoundIsCommit, StoreFailed, Goto, Return, Status,
     remote, settings, clock, outcome
<1>20. CASE StoreSucceeded(p)
  BY <1>20, GiveUpType DEF IType, TypeOK, FoundIsCommit, StoreSucceeded, Goto, StorageFails, Status,
     remote, settings, clock, outcome
<1>21. CASE StoreFinished(p)
  BY <1>21, GiveUpType, NoRunType DEF IType, TypeOK, FoundIsCommit, StoreFinished, Goto, StorageFails, Return, MaybeCommit,
     remote, settings, clock, outcome
<1>22. CASE SearchFails(p)
  BY <1>22, GiveUpType DEF SearchFails
<1>23. CASE Checkout(p) \/ CheckoutFails(p)
  BY <1>23 DEF IType, TypeOK, FoundIsCommit, Checkout, CheckoutFails, Goto,
     remote, settings, clock, outcome
<1> QED
  BY <1>1, <1>2, <1>3, <1>4, <1>5, <1>6, <1>7, <1>8, <1>9, <1>10, <1>11, <1>12, <1>13, <1>14, <1>15,
     <1>16, <1>17, <1>18, <1>19, <1>20, <1>21, <1>22, <1>23 DEF Work

\* And so does every step of the environment.
LEMMA EnvironmentType == ASSUME IType, Environment PROVE IType'
<1>1. CASE Advance
  <2>1. elapsed' \in 0..MaxAge /\ now' \in 0..MaxDate /\ waited' \in [Tick -> 0..MaxAge]
    BY <1>1, PeriodicAssumption DEF IType, TypeOK, Advance, Min2
  <2> QED
    BY <1>1, <2>1 DEF IType, TypeOK, FoundIsCommit, Advance, remote, settings, outcome, memory
<1>2. CASE Crash
  BY <1>2, PluginDiesType DEF Crash
<1>3. CASE OrphanActs
  <2>1. target' \in Target /\ orphans' \subseteq Commit \ Bare
    BY <1>3 DEF IType, TypeOK, OrphanActs, Target, MaybeCommit
  <2> QED
    BY <1>3, <2>1 DEF IType, TypeOK, FoundIsCommit, OrphanActs, remote, settings, clock, memory
<1>4. CASE Push \/ SetConfig \/ DeleteConfig \/ TrustKey \/ DeleteKey
  BY <1>4 DEF IType, TypeOK, FoundIsCommit, Push, SetConfig, DeleteConfig, TrustKey, DeleteKey,
     remote, settings, clock, outcome, memory
<1>5. CASE Sign
  <2>1. signers' \in Signed
    <3>1. PICK c \in Commit : \E k \in MaySign[c] : signers' = [signers EXCEPT ![c] = @ \cup {k}]
      BY <1>5 DEF Sign
    <3>2. PICK k \in MaySign[c] : signers' = [signers EXCEPT ![c] = @ \cup {k}]
      BY <3>1
    <3>3. k \in Key
      BY PeriodicAssumption
    <3> QED
      BY <3>2, <3>3 DEF IType, TypeOK, Signed
  <2> QED
    BY <1>5, <2>1 DEF IType, TypeOK, FoundIsCommit, Sign, settings, clock, outcome, memory
<1>6. CASE Unsign
  <2>1. signers' \in Signed
    BY <1>6 DEF IType, TypeOK, Signed, Unsign
  <2> QED
    BY <1>6, <2>1 DEF IType, TypeOK, FoundIsCommit, Unsign, settings, clock, outcome, memory
<1> QED
  BY <1>1, <1>2, <1>3, <1>4, <1>5, <1>6 DEF Environment

\* A goroutine handles a commit only when it has found one.
LEMMA InductiveType == Spec => []IType
<1>1. IType /\ UNCHANGED vars => IType'
  BY DEF IType, TypeOK, FoundIsCommit, vars, remote, settings, clock, outcome, memory
<1>2. IType /\ [Next]_vars => IType'
  BY <1>1, WorkType, EnvironmentType DEF Next
<1> QED
  BY InitType, <1>2, PTL DEF Spec

\* The variables keep their types, so that no status and no record ever names a
\* commit that is none, whatever is requested and whatever fails
\* (periodic.go:83-156).
THEOREM TypeCorrect == Spec => []TypeOK
<1>1. IType => TypeOK
  BY DEF IType
<1> QED
  BY <1>1, InductiveType, PTL

-----------------------------------------------------------------------------
(* The guard.  GuardMatchesRun is inductive by itself, given the types: only  *)
(* TickLaunch brings a goroutine past the guard, and it sets the guard.       *)

\* Leaving the goroutine resets the guard and leaves nobody past it.
LEMMA ReturnGuard ==
    ASSUME IType, GuardMatchesRun, NEW p \in Tick, NEW l \in Active, Return(p, l)
    PROVE  GuardMatchesRun'
BY DEF IType, TypeOK, GuardMatchesRun, Return, Goto, Active, Searching, Handling

\* A step of a goroutine between two program counters past the guard.
LEMMA MoveGuard ==
    ASSUME IType, GuardMatchesRun, NEW p \in Tick, NEW l \in Active, NEW m \in Active,
           Goto(p, l, m), guard' = guard
    PROVE  GuardMatchesRun'
BY DEF IType, TypeOK, GuardMatchesRun, Goto

LEMMA PluginDiesGuard == ASSUME PluginDies PROVE GuardMatchesRun'
BY DEF GuardMatchesRun, PluginDies, Active, Searching, Handling

LEMMA WorkGuard ==
    ASSUME IType, GuardMatchesRun, NEW p \in Tick, TickRead(p) \/ Work(p)
    PROVE  GuardMatchesRun'
<1> USE DEF Active, Searching, Handling
<1>1. CASE TickRead(p) \/ TickSkip(p)
  BY <1>1 DEF IType, TypeOK, GuardMatchesRun, TickRead, TickSkip, Goto
<1>2. CASE TickLaunch(p)
  BY <1>2 DEF IType, TypeOK, GuardMatchesRun, TickLaunch, Goto
<1>3. CASE ReadConfig(p) \/ CheckInterval(p) \/ StampRun(p) \/ SearchConfig(p)
  BY <1>3, ReturnGuard, MoveGuard
     DEF ReadConfig, CheckInterval, StampRun, SearchConfig, StorageFails, GiveUp
<1>4. CASE CloneRepository(p) \/ CloneFails(p) \/ ListKeys(p)
  BY <1>4, ReturnGuard, MoveGuard DEF CloneRepository, CloneFails, ListKeys, StorageFails, GiveUp
<1>5. CASE FetchKey(p) \/ Search(p) \/ SearchFails(p)
  BY <1>5, ReturnGuard, MoveGuard, PluginDiesGuard DEF FetchKey, Search, SearchFails, StorageFails, GiveUp
<1>6. CASE StoreNothing(p) \/ StoreFailed(p) \/ StoreSucceeded(p) \/ StoreFinished(p)
  BY <1>6, ReturnGuard, MoveGuard
     DEF StoreNothing, StoreFailed, StoreSucceeded, StoreFinished, StorageFails, GiveUp
<1>7. CASE \/ StoreProcessing(p) \/ Prepare(p) \/ PrepareFails(p)
           \/ Checkout(p) \/ CheckoutFails(p) \/ Apply(p) \/ ApplyFails(p)
  BY <1>7, MoveGuard
     DEF StoreProcessing, Prepare, PrepareFails, Checkout, CheckoutFails, Apply, ApplyFails
<1> QED
  BY <1>1, <1>2, <1>3, <1>4, <1>5, <1>6, <1>7 DEF Work

LEMMA EnvironmentGuard ==
    ASSUME GuardMatchesRun, Environment PROVE GuardMatchesRun'
BY PluginDiesGuard
   DEF Environment, GuardMatchesRun, Advance, Crash, OrphanActs, Push, Sign, Unsign, SetConfig, DeleteConfig,
       TrustKey, DeleteKey, memory

\* At most one goroutine works at a time, and the guard is taken exactly while
\* one does, for every number of overlapping calls (periodic.go:58-73).
THEOREM GuardCorrect == Spec => []GuardMatchesRun
<1>1. Init => GuardMatchesRun
  BY DEF Init, GuardMatchesRun, Active, Searching, Handling
<1>2. GuardMatchesRun /\ UNCHANGED vars => GuardMatchesRun'
  BY DEF GuardMatchesRun, vars, memory
<1>3. IType /\ GuardMatchesRun /\ [Next]_vars => GuardMatchesRun'
  BY <1>2, WorkGuard, EnvironmentGuard DEF Next
<1> QED
  BY <1>1, <1>3, InductiveType, PTL DEF Spec
-----------------------------------------------------------------------------
(* The record.  A goroutine past terraform relies on the target until it has  *)
(* stored its commit; nobody else can be at terraform meanwhile, because of   *)
(* the guard, unless a terraform has outlived an earlier plugin process.      *)

InPlace(c) == c \in Bare \/ target = [commit |-> c, complete |-> TRUE]

AppliedInPlace ==
    /\ orphans = {}
    /\ \A p \in Tick : pc[p] \in {"succeeded", "finish"} => InPlace(run[p].found)

LEMMA PluginDiesInPlace ==
    ASSUME "orphan" \notin Fault, AppliedInPlace, PluginDies PROVE AppliedInPlace'
BY DEF AppliedInPlace, PluginDies, outcome

\* A step of one goroutine leaves what another one relies on as it is.
LEMMA WorkInPlace ==
    ASSUME IType, GuardMatchesRun, AppliedInPlace, "orphan" \notin Fault,
           NEW p \in Tick, TickRead(p) \/ Work(p)
    PROVE  AppliedInPlace'
<1>1. CASE Apply(p) \/ ApplyFails(p)
  <2>1. \A q \in Tick : pc'[q] \in {"succeeded", "finish"} => q = p /\ Apply(p)
    BY <1>1 DEF IType, TypeOK, GuardMatchesRun, Apply, ApplyFails, Goto, Active, Handling
  <2>2. Apply(p) => InPlace(run[p].found)'
    BY DEF Apply, InPlace
  <2> QED
    BY <1>1, <2>1, <2>2 DEF AppliedInPlace, Apply, ApplyFails
<1>2. CASE \/ TickRead(p) \/ TickSkip(p) \/ TickLaunch(p) \/ ReadConfig(p) \/ CheckInterval(p)
           \/ StampRun(p) \/ SearchConfig(p) \/ CloneRepository(p) \/ CloneFails(p)
  BY <1>2 DEF IType, TypeOK, AppliedInPlace, InPlace, TickRead, TickSkip, TickLaunch, ReadConfig,
     CheckInterval, StampRun, SearchConfig, CloneRepository, CloneFails, StorageFails, GiveUp,
     Return, Goto, outcome
<1>3. CASE FetchKey(p)
  BY <1>3, PluginDiesInPlace
     DEF IType, TypeOK, AppliedInPlace, InPlace, FetchKey, StorageFails, GiveUp, Return, Goto, outcome
<1>4. CASE \/ ListKeys(p) \/ Search(p) \/ SearchFails(p) \/ StoreNothing(p)
           \/ StoreProcessing(p) \/ StoreFailed(p) \/ StoreSucceeded(p) \/ StoreFinished(p)
  BY <1>4 DEF IType, TypeOK, AppliedInPlace, InPlace, ListKeys, Search, SearchFails, StoreNothing,
     StoreProcessing, StoreFailed, StoreSucceeded, StoreFinished, StorageFails, GiveUp, Return,
     Goto, outcome
<1>5. CASE Prepare(p) \/ PrepareFails(p) \/ Checkout(p) \/ CheckoutFails(p)
  BY <1>5 DEF IType, TypeOK, AppliedInPlace, InPlace, Prepare, PrepareFails, Checkout,
     CheckoutFails, Goto, outcome
<1> QED
  BY <1>1, <1>2, <1>3, <1>4, <1>5 DEF Work

LEMMA EnvironmentInPlace ==
    ASSUME "orphan" \notin Fault, AppliedInPlace, Environment PROVE AppliedInPlace'
BY PluginDiesInPlace
   DEF Environment, AppliedInPlace, InPlace, Advance, Crash, OrphanActs, Push, Sign, Unsign, SetConfig,
       DeleteConfig, TrustKey, DeleteKey, memory, outcome

\* The record changes in one place only.
LEMMA RecordStep ==
    ASSUME Next, lastFinished' # lastFinished
    PROVE  \E p \in Tick : /\ pc[p] = "finish"
                          /\ lastFinished' = run[p].found /\ guard' = 0
                          /\ UNCHANGED <<signers, settings, target>>
<1>1. ~Environment
  BY DEF Environment, Advance, Crash, PluginDies, OrphanActs, Push, Sign, Unsign, SetConfig, DeleteConfig,
     TrustKey, DeleteKey
<1>2. PICK p \in Tick : TickRead(p) \/ Work(p)
  BY <1>1 DEF Next
<1>3. StoreFinished(p) /\ ~StorageFails(p, "finish")
  BY <1>2 DEF Work, TickRead, TickSkip, TickLaunch, ReadConfig, CheckInterval, StampRun,
     SearchConfig, CloneRepository, CloneFails, ListKeys, FetchKey, Search, SearchFails,
     StoreNothing, StoreProcessing, Prepare, PrepareFails, Checkout, CheckoutFails, Apply,
     ApplyFails, StoreFailed, StoreSucceeded, StoreFinished, StorageFails, GiveUp, PluginDies
<1> QED
  BY <1>3 DEF StoreFinished, Return, Goto, remote, outcome

\* A goroutine past terraform can rely on the target.
LEMMA AlwaysInPlace ==
    ASSUME "orphan" \notin Fault
    PROVE  Spec => []AppliedInPlace
<1>1. Init => AppliedInPlace
  BY DEF Init, AppliedInPlace
<1>2. AppliedInPlace /\ UNCHANGED vars => AppliedInPlace'
  BY DEF AppliedInPlace, InPlace, vars, memory, outcome
<1>3. IType /\ GuardMatchesRun /\ AppliedInPlace /\ [Next]_vars => AppliedInPlace'
  BY <1>2, WorkInPlace, EnvironmentInPlace DEF Next
<1> QED
  BY <1>1, <1>3, InductiveType, GuardCorrect, PTL DEF Spec

\* The last finished commit moves only to a commit that is completely in place or
\* has nothing to apply, as long as no terraform outlives its plugin
\* (periodic.go:132-151).
THEOREM RecordCorrect ==
    ASSUME "orphan" \notin Fault
    PROVE  Spec => RecordFollowsApply
<1>1. AppliedInPlace /\ Next /\ lastFinished' # lastFinished =>
          \/ lastFinished' \in Bare
          \/ target = [commit |-> lastFinished', complete |-> TRUE]
  BY RecordStep DEF AppliedInPlace, InPlace
<1>2. AppliedInPlace /\ [Next]_vars =>
          [lastFinished' # lastFinished =>
              \/ lastFinished' \in Bare
              \/ target = [commit |-> lastFinished', complete |-> TRUE]]_vars
  BY <1>1
<1> QED
  BY <1>2, AlwaysInPlace, PTL DEF Spec, RecordFollowsApply

-----------------------------------------------------------------------------
(* Progress.  What a goroutine has left to do gets less with every step of   *)
(* its own and never more by what anybody else does, so it holds the guard   *)
(* for no more steps than that.                                              *)

\* Steps from a label to the end of a run, without those that fetch keys.
StepsFrom == [idle |-> 0, read |-> 0, start |-> 13, interval |-> 12, stamp |-> 11,
              configure |-> 10, clone |-> 9, list |-> 8, keys |-> 7, processing |-> 6,
              prepare |-> 5, checkout |-> 4, apply |-> 3, succeeded |-> 2, finish |-> 1,
              failed |-> 1, nothing |-> 1]

BeforeKeys == {"start"} \cup (Searching \ {"keys"})
KeysLeft(p) ==
    IF pc[p] \in BeforeKeys THEN Cardinality(Name)
    ELSE IF pc[p] = "keys" THEN Cardinality(run[p].left) ELSE 0

StepsLeft(p) == StepsFrom[pc[p]] + KeysLeft(p)

LEMMA KeysLeftType ==
    ASSUME IType, NEW p \in Tick
    PROVE  /\ IsFiniteSet(run[p].left) /\ Cardinality(run[p].left) \in Nat
           /\ Cardinality(Name) \in Nat /\ Cardinality(run[p].left) <= Cardinality(Name)
           /\ KeysLeft(p) \in 0..Cardinality(Name)
<1>1. run[p].left \in SUBSET Name /\ IsFiniteSet(Name)
  BY PeriodicAssumption DEF IType, TypeOK, Run
<1>2. /\ IsFiniteSet(run[p].left) /\ Cardinality(run[p].left) \in Nat
      /\ Cardinality(Name) \in Nat /\ Cardinality(run[p].left) <= Cardinality(Name)
  BY <1>1, FS_Subset, FS_CardinalityType
<1> QED
  BY <1>2 DEF KeysLeft

LEMMA StepsFromType == \A l \in Label : StepsFrom[l] \in Nat /\ (l \in Active => StepsFrom[l] > 0)
BY DEF StepsFrom, Label, Active, Searching, Handling

LEMMA StepsLeftType ==
    ASSUME IType, NEW p \in Tick
    PROVE  StepsLeft(p) \in Nat /\ (pc[p] \in Active => StepsLeft(p) > 0)
<1>1. pc[p] \in Label /\ KeysLeft(p) \in Nat
  BY KeysLeftType DEF IType, TypeOK
<1> QED
  BY <1>1, StepsFromType DEF StepsLeft

\* Nothing is left when the goroutine has ended.
LEMMA NothingLeft == ASSUME NEW p \in Tick, pc'[p] = "idle" PROVE StepsLeft(p)' = 0
BY DEF StepsLeft, StepsFrom, KeysLeft, BeforeKeys, Searching

\* Between two labels before the keys, and after them, the label tells.
LEMMA Onwards ==
    ASSUME IType, IType', NEW p \in Tick, NEW l \in Active, NEW m \in Label, Goto(p, l, m),
           m \in BeforeKeys => l \in BeforeKeys, m # "keys", StepsFrom[m] < StepsFrom[l]
    PROVE  StepsLeft(p)' < StepsLeft(p)
<1>1. pc[p] = l /\ pc'[p] = m
  BY DEF IType, TypeOK, Goto
<1>2. /\ KeysLeft(p) \in 0..Cardinality(Name) /\ Cardinality(Name) \in Nat
  BY KeysLeftType
<1>3. KeysLeft(p)' <= KeysLeft(p) /\ KeysLeft(p)' \in Nat
  BY <1>1, <1>2 DEF KeysLeft
<1>4. StepsFrom[l] \in Nat /\ StepsFrom[m] \in Nat
  BY StepsFromType DEF Label
<1>5. StepsLeft(p) = StepsFrom[l] + KeysLeft(p) /\ StepsLeft(p)' = StepsFrom[m] + KeysLeft(p)'
  BY <1>1 DEF StepsLeft, StepsFrom
<1> QED
  BY <1>2, <1>3, <1>4, <1>5

\* A step of a goroutine's own.
LEMMA WorkShrinks ==
    ASSUME IType, IType', NEW p \in Tick, pc[p] \in Active, Work(p)
    PROVE  StepsLeft(p)' < StepsLeft(p)
<1>1. StepsLeft(p) \in Nat /\ StepsLeft(p) > 0
  BY StepsLeftType
<1>2. ASSUME pc'[p] = "idle" PROVE StepsLeft(p)' < StepsLeft(p)
  BY <1>1, <1>2, NothingLeft
<1>3. \A l \in Label : GiveUp(p, l) \/ Return(p, l) => pc'[p] = "idle"
  BY DEF IType, TypeOK, GiveUp, Return, Goto
<1>4. PluginDies => pc'[p] = "idle"
  BY DEF PluginDies
<1> USE DEF Active, Searching, Handling, Label, BeforeKeys
<1>5. CASE TickSkip(p) \/ TickLaunch(p)
  BY <1>5 DEF TickSkip, TickLaunch, Goto
<1>6. CASE ReadConfig(p)
  BY <1>6, <1>2, <1>3, Onwards DEF ReadConfig, StorageFails, StepsFrom
<1>7. CASE CheckInterval(p)
  BY <1>7, <1>2, <1>3, Onwards DEF CheckInterval, StorageFails, StepsFrom
<1>8. CASE StampRun(p)
  BY <1>8, <1>2, <1>3, Onwards DEF StampRun, StorageFails, StepsFrom
<1>9. CASE SearchConfig(p)
  BY <1>9, <1>2, <1>3, Onwards DEF SearchConfig, StorageFails, StepsFrom
<1>10. CASE CloneRepository(p)
  BY <1>10, Onwards DEF CloneRepository, StepsFrom
<1>11. CASE CloneFails(p)
  BY <1>11, <1>2, <1>3 DEF CloneFails
<1>12. CASE ListKeys(p)
  <2>1. CASE StorageFails(p, "list")
    BY <2>1, <1>2, <1>3 DEF StorageFails
  <2>2. CASE Goto(p, "list", "keys")
    <3>1. pc[p] = "list" /\ pc'[p] = "keys"
      BY <2>2 DEF IType, TypeOK, Goto
    <3>2. /\ Cardinality(run'[p].left) \in Nat /\ Cardinality(Name) \in Nat
          /\ Cardinality(run'[p].left) <= Cardinality(Name)
      <4>1. (IType => /\ Cardinality(run[p].left) \in Nat
                      /\ Cardinality(run[p].left) <= Cardinality(Name))'
        BY KeysLeftType, PTL
      <4> QED
        BY <4>1, KeysLeftType
    <3>3. KeysLeft(p) = Cardinality(Name) /\ KeysLeft(p)' = Cardinality(run'[p].left)
      BY <3>1 DEF KeysLeft
    <3>4. StepsLeft(p) = 8 + KeysLeft(p) /\ StepsLeft(p)' = 7 + KeysLeft(p)'
      BY <3>1 DEF StepsLeft, StepsFrom
    <3> QED
      BY <3>2, <3>3, <3>4
  <2> QED
    BY <1>12, <2>1, <2>2 DEF ListKeys
<1>13. CASE FetchKey(p)
  <2>1. CASE StorageFails(p, "keys") \/ PluginDies
    BY <2>1, <1>2, <1>3, <1>4 DEF StorageFails
  <2>2. CASE ~(StorageFails(p, "keys") \/ PluginDies)
    <3>1. PICK k \in run[p].left :
              /\ Goto(p, "keys", "keys")
              /\ run' = [run EXCEPT ![p].left = @ \ {k}, ![p].keys = @ \cup {trusted[k]}]
      BY <1>13, <2>2 DEF FetchKey
    <3>2. pc[p] = "keys" /\ pc'[p] = "keys" /\ run'[p].left = run[p].left \ {k}
      BY <3>1 DEF IType, TypeOK, Goto, Run
    <3>3. Cardinality(run'[p].left) = Cardinality(run[p].left) - 1 /\ Cardinality(run[p].left) \in Nat
      <4>1. IsFiniteSet(run[p].left) /\ Cardinality(run[p].left) \in Nat
        BY KeysLeftType
      <4>2. Cardinality(run[p].left \ {k}) = Cardinality(run[p].left) - 1
        BY <3>1, <4>1, FS_RemoveElement
      <4> QED
        BY <3>2, <4>1, <4>2
    <3>4. KeysLeft(p) = Cardinality(run[p].left) /\ KeysLeft(p)' = Cardinality(run'[p].left)
      BY <3>2 DEF KeysLeft
    <3>5. StepsLeft(p) = 7 + KeysLeft(p) /\ StepsLeft(p)' = 7 + KeysLeft(p)'
      BY <3>2 DEF StepsLeft, StepsFrom
    <3> QED
      BY <3>3, <3>4, <3>5
  <2> QED
    BY <2>1, <2>2
<1>14. CASE Search(p)
  BY <1>14, Onwards DEF Search, StepsFrom
<1>15. CASE StoreNothing(p) \/ StoreFailed(p) \/ StoreFinished(p)
  BY <1>15, <1>2, <1>3 DEF StoreNothing, StoreFailed, StoreFinished, StorageFails
<1>16. CASE StoreProcessing(p)
  BY <1>16, Onwards DEF StoreProcessing, StepsFrom
<1>17. CASE Prepare(p) \/ PrepareFails(p) \/ Checkout(p) \/ CheckoutFails(p)
  BY <1>17, Onwards DEF Prepare, PrepareFails, Checkout, CheckoutFails, StepsFrom
<1>18. CASE Apply(p) \/ ApplyFails(p)
  BY <1>18, Onwards DEF Apply, ApplyFails, StepsFrom
<1>19. CASE StoreSucceeded(p)
  BY <1>19, <1>2, <1>3, Onwards DEF StoreSucceeded, StorageFails, StepsFrom
<1>20. CASE SearchFails(p)
  BY <1>20, <1>2, <1>3 DEF SearchFails
<1> QED
  BY <1>5, <1>6, <1>7, <1>8, <1>9, <1>10, <1>11, <1>12, <1>13, <1>14, <1>15, <1>16, <1>17, <1>18,
     <1>19, <1>20 DEF Work

\* A step of somebody else: it ends the goroutine or leaves it where it is.
LEMMA OthersLeave ==
    ASSUME IType, NEW p \in Tick, pc[p] \in Active, Next, ~Work(p)
    PROVE  pc'[p] = "idle" \/ (pc'[p] = pc[p] /\ run'[p] = run[p])
<1>1. CASE Environment
  BY <1>1 DEF Environment, Advance, Crash, PluginDies, OrphanActs, Push, Sign, Unsign, SetConfig,
     DeleteConfig, TrustKey, DeleteKey, memory
<1>2. CASE \E q \in Tick : TickRead(q) \/ Work(q)
  <2>1. PICK q \in Tick : TickRead(q) \/ Work(q)
    BY <1>2
  <2>2. CASE q = p
    BY <2>1, <2>2 DEF TickRead, Goto, Active, Searching, Handling
  <2>3. CASE q # p
    <3>1. PluginDies => pc'[p] = "idle"
      BY DEF PluginDies
    <3> QED
      BY <2>1, <2>3, <3>1 DEF IType, TypeOK, Goto, TickRead, Work, TickSkip, TickLaunch, ReadConfig,
         CheckInterval, StampRun, SearchConfig, CloneRepository, CloneFails, ListKeys, FetchKey,
         Search, SearchFails, StoreNothing, StoreProcessing, Prepare, PrepareFails, Checkout,
         CheckoutFails, Apply, ApplyFails, StoreFailed, StoreSucceeded, StoreFinished, StorageFails, GiveUp, Return
  <2> QED
    BY <2>2, <2>3
<1> QED
  BY <1>1, <1>2 DEF Next

\* A goroutine past the guard takes at most 13 steps and one for each trusted key
\* before it resets the guard, whatever fails, and whoever else acts: there is no
\* path around in processGit (periodic.go:58-152).
THEOREM RunShrinks ==
    Spec => [][\A p \in Tick : pc[p] \in Active =>
                  /\ StepsLeft(p) \in 1..(13 + Cardinality(Name)) /\ StepsLeft(p)' \in Nat
                  /\ StepsLeft(p)' <= StepsLeft(p)
                  /\ Work(p) => StepsLeft(p)' < StepsLeft(p)]_vars
<1>1. ASSUME IType, IType', Next, NEW p \in Tick, pc[p] \in Active
      PROVE  /\ StepsLeft(p) \in 1..(13 + Cardinality(Name)) /\ StepsLeft(p)' \in Nat
             /\ StepsLeft(p)' <= StepsLeft(p)
             /\ Work(p) => StepsLeft(p)' < StepsLeft(p)
  <2>1. StepsLeft(p) \in Nat /\ StepsLeft(p) > 0
    BY <1>1, StepsLeftType
  <2>2. (IType => StepsLeft(p) \in Nat)'
    BY StepsLeftType, PTL
  <2>3. KeysLeft(p) \in 0..Cardinality(Name) /\ Cardinality(Name) \in Nat
    BY <1>1, KeysLeftType
  <2>4. StepsFrom[pc[p]] \in 0..13
    BY <1>1 DEF StepsFrom, Active, Searching, Handling
  <2>5. StepsLeft(p) \in 1..(13 + Cardinality(Name))
    BY <2>1, <2>3, <2>4 DEF StepsLeft
  <2>6. Work(p) => StepsLeft(p)' < StepsLeft(p)
    BY <1>1, WorkShrinks
  <2>7. ~Work(p) => StepsLeft(p)' <= StepsLeft(p)
    <3>1. ASSUME pc'[p] = "idle" PROVE StepsLeft(p)' <= StepsLeft(p)
      BY <2>1, <3>1, NothingLeft
    <3>2. ASSUME pc'[p] = pc[p], run'[p] = run[p] PROVE StepsLeft(p)' = StepsLeft(p)
      BY <3>2 DEF StepsLeft, StepsFrom, KeysLeft
    <3> QED
      BY <1>1, <2>1, <3>1, <3>2, OthersLeave
  <2> QED
    BY <1>1, <2>1, <2>2, <2>5, <2>6, <2>7
<1>2. IType /\ IType' /\ [Next]_vars =>
          [\A p \in Tick : pc[p] \in Active =>
               /\ StepsLeft(p) \in 1..(13 + Cardinality(Name)) /\ StepsLeft(p)' \in Nat
               /\ StepsLeft(p)' <= StepsLeft(p)
               /\ Work(p) => StepsLeft(p)' < StepsLeft(p)]_vars
  BY <1>1
<1> QED
  BY <1>2, InductiveType, PTL DEF Spec
=============================================================================
