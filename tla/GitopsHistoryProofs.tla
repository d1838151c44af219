------------------------ MODULE GitopsHistoryProofs ------------------------
(***************************************************************************)
(* Proof that the workflow implements SignedDelivery: for every set of     *)
(* commits, keys and names, every number of overlapping calls, and every   *)
(* choice of requests and failures but a terraform that outlives its       *)
(* plugin.  And that what is in place has met the policy of one moment,    *)
(* unless the search that answered it was disturbed.                       *)
(***************************************************************************)
EXTENDS GitopsHistory, GitopsPeriodicProofs

-----------------------------------------------------------------------------
(* Counting signatures *)

\* More keys, or more signatures, count no less.
LEMMA MoreCount ==
    ASSUME NEW a, NEW b \in SUBSET Key, a \subseteq b
    PROVE  Cardinality(a) \in Nat /\ Cardinality(b) \in Nat /\ Cardinality(a) <= Cardinality(b)
<1>1. IsFiniteSet(Key)
  BY PeriodicAssumption
<1>2. IsFiniteSet(b)
  BY <1>1, FS_Subset
<1>3. a \in SUBSET b
  OBVIOUS
<1>4. IsFiniteSet(a) /\ Cardinality(a) <= Cardinality(b)
  BY <1>2, <1>3, FS_Subset
<1> QED
  BY <1>2, <1>4, FS_CardinalityType

LEMMA VerifiedGrows ==
    ASSUME NEW signed, NEW more \in SUBSET Key, NEW keys \in SUBSET more, NEW r \in Int
    PROVE  Verified(signed, keys, r) \subseteq Verified(signed, more, r)
<1>1. ASSUME NEW c \in Commit
      PROVE  /\ Cardinality(signed[c] \cap keys) \in Nat
             /\ Cardinality(signed[c] \cap more) \in Nat
             /\ Cardinality(signed[c] \cap keys) <= Cardinality(signed[c] \cap more)
  <2>1. signed[c] \cap more \in SUBSET Key /\ signed[c] \cap keys \subseteq signed[c] \cap more
    OBVIOUS
  <2> QED
    BY <2>1, MoreCount
<1>2. ASSUME NEW c \in Commit, r > 0, Cardinality(signed[c] \cap keys) >= r
      PROVE  Cardinality(signed[c] \cap more) >= r
  BY <1>1, <1>2
<1> QED
  BY <1>2 DEF Verified

LEMMA StoredKeys == ASSUME TypeOK PROVE Stored \in SUBSET Key
BY DEF TypeOK, Stored

LEMMA RequiredInt == ASSUME IType, NEW p \in Tick PROVE run[p].required \in Int
<1>1. run[p] \in Run
  BY DEF IType, TypeOK
<1>2. run[p].required \in Required \cup {0}
  BY <1>1 DEF Run
<1>3. Required \cup {0} \subseteq Int
  BY PeriodicAssumption
<1> QED
  BY <1>2, <1>3

-----------------------------------------------------------------------------
(* The steps of a call *)

\* The plugin reads settings and signatures only.
LEMMA WorkReadsOnly ==
    ASSUME NEW p \in Tick, TickRead(p) \/ Work(p)
    PROVE  UNCHANGED <<signers, settings>>
<1> USE DEF remote
<1>1. ASSUME NEW l, GiveUp(p, l) PROVE UNCHANGED <<signers, settings>>
  BY <1>1 DEF GiveUp
<1>2. CASE TickRead(p) \/ TickSkip(p) \/ TickLaunch(p) \/ ReadConfig(p) \/ CheckInterval(p)
  BY <1>1, <1>2 DEF TickRead, TickSkip, TickLaunch, ReadConfig, CheckInterval, StorageFails
<1>3. CASE StampRun(p) \/ SearchConfig(p) \/ CloneRepository(p) \/ CloneFails(p) \/ ListKeys(p)
  BY <1>1, <1>3 DEF StampRun, SearchConfig, CloneRepository, CloneFails, ListKeys, StorageFails
<1>4. CASE FetchKey(p) \/ Search(p) \/ SearchFails(p) \/ StoreNothing(p) \/ StoreProcessing(p)
  BY <1>1, <1>4
     DEF FetchKey, PluginDies, Search, SearchFails, StoreNothing, StoreProcessing, StorageFails
<1>5. CASE \/ Prepare(p) \/ PrepareFails(p) \/ Checkout(p) \/ CheckoutFails(p)
           \/ Apply(p) \/ ApplyFails(p)
           \/ StoreFailed(p) \/ StoreSucceeded(p) \/ StoreFinished(p)
  BY <1>1, <1>5
     DEF Prepare, PrepareFails, Checkout, CheckoutFails, Apply, ApplyFails, StoreFailed,
         StoreSucceeded, StoreFinished, StorageFails
<1> QED
  BY <1>2, <1>3, <1>4, <1>5 DEF Work

\* The step of one goroutine leaves the others where they are, unless it panics.
LEMMA OthersStay ==
    ASSUME IType, NEW p \in Tick, TickRead(p) \/ Work(p), ~PluginDies, NEW q \in Tick, q # p
    PROVE  pc'[q] = pc[q] /\ run'[q] = run[q]
BY DEF Work, TickRead, TickSkip, TickLaunch, ReadConfig, CheckInterval, StampRun,
   SearchConfig, CloneRepository, CloneFails, ListKeys, FetchKey, Search, SearchFails, StoreNothing,
   StoreProcessing, Prepare, PrepareFails, Checkout, CheckoutFails, Apply, ApplyFails,
   StoreFailed, StoreSucceeded, StoreFinished, StorageFails, GiveUp, Return, Goto, IType, TypeOK

\* So does everybody else.
LEMMA EnvironmentStays ==
    ASSUME Environment, ~PluginDies PROVE UNCHANGED <<pc, run>>
BY DEF Environment, Advance, Crash, OrphanActs, Push, Sign, Unsign, SetConfig, DeleteConfig,
   TrustKey, DeleteKey, memory

\* The steps that a search consists of, with what they read.
ReadsNumber(p) ==
    /\ pc[p] = "configure" /\ pc'[p] = "clone"
    /\ config # NoConfig /\ run'[p].required = config.required
ReadsSignatures(p) ==
    /\ pc[p] = "clone" /\ pc'[p] = "list"
    /\ run'[p].required = run[p].required /\ run'[p].signed = signers
ReadsNames(p) ==
    /\ pc[p] = "list" /\ pc'[p] = "keys"
    /\ run'[p].required = run[p].required /\ run'[p].signed = run[p].signed
    /\ run'[p].keys = {} /\ run'[p].left = {n \in Name : trusted[n] # NoKey}
ReadsKey(p) ==
    /\ pc[p] = "keys" /\ pc'[p] = "keys"
    /\ run'[p].required = run[p].required /\ run'[p].signed = run[p].signed
    /\ \E n \in run[p].left : /\ trusted[n] # NoKey
                              /\ run'[p].left = run[p].left \ {n}
                              /\ run'[p].keys = run[p].keys \cup {trusted[n]}
AnswersCommit(p) ==
    /\ pc[p] = "keys" /\ pc'[p] = "processing" /\ run[p].left = {}
    /\ run'[p].found \in Verified(run[p].signed, run[p].keys, run[p].required)
KeepsCommit(p) ==
    /\ pc[p] \in Handling /\ pc'[p] \in Handling \ {"processing"}
    /\ run'[p].found = run[p].found
LeavesSearch(p) == pc'[p] \notin InSearch \cup Handling
StartsSearch(p) == pc[p] = "stamp" /\ pc'[p] = "configure"

LEMMA SearchSteps ==
    ASSUME IType, NEW p \in Tick, TickRead(p) \/ Work(p), ~PluginDies
    PROVE  \/ LeavesSearch(p) \/ StartsSearch(p) \/ ReadsNumber(p) \/ ReadsSignatures(p)
           \/ ReadsNames(p) \/ ReadsKey(p) \/ AnswersCommit(p) \/ KeepsCommit(p)
<1> USE DEF Handling, InSearch
<1>1. ASSUME NEW l \in Label, GiveUp(p, l) PROVE LeavesSearch(p)
  BY <1>1 DEF GiveUp, Return, Goto, IType, TypeOK, LeavesSearch
<1>2. CASE TickRead(p) \/ TickSkip(p) \/ TickLaunch(p) \/ ReadConfig(p) \/ CheckInterval(p)
  BY <1>1, <1>2 DEF TickRead, TickSkip, TickLaunch, ReadConfig, CheckInterval, StorageFails,
     Goto, IType, TypeOK, Label, Active, Searching, LeavesSearch
<1>3. CASE StampRun(p)
  BY <1>1, <1>3 DEF StampRun, StorageFails, Goto, IType, TypeOK, Label, Active, Searching,
     StartsSearch
<1>4. CASE SearchConfig(p)
  <2>1. CASE GiveUp(p, "configure")
    BY <1>1, <2>1 DEF Label, Active, Searching
  <2>2. CASE ~GiveUp(p, "configure")
    BY <1>4, <2>2 DEF SearchConfig, StorageFails, Goto, IType, TypeOK, Run, ReadsNumber
  <2> QED
    BY <2>1, <2>2
<1>5. CASE CloneRepository(p)
  <2>1. pc[p] = "clone" /\ pc'[p] \in {"list", "nothing"}
    BY <1>5 DEF CloneRepository, Goto, IType, TypeOK
  <2>2. run'[p].required = run[p].required /\ run'[p].signed = signers
    <3>1. run[p] \in Run /\ run'[p] = [run[p] EXCEPT !.head = head, !.signed = signers]
      BY <1>5 DEF CloneRepository, IType, TypeOK
    <3> QED
      BY <3>1 DEF Run
  <2> QED
    BY <2>1, <2>2 DEF ReadsSignatures, LeavesSearch
<1>6. CASE CloneFails(p)
  BY <1>1, <1>6 DEF CloneFails, Label, Active, Searching
<1>7. CASE ListKeys(p)
  <2>1. CASE GiveUp(p, "list")
    BY <1>1, <2>1 DEF Label, Active, Searching
  <2>2. CASE ~GiveUp(p, "list")
    BY <1>7, <2>2, ListStep DEF ReadsNames
  <2> QED
    BY <2>1, <2>2
<1>8. CASE FetchKey(p)
  <2>1. CASE GiveUp(p, "keys")
    BY <1>1, <2>1 DEF Label, Active, Searching
  <2>2. CASE ~GiveUp(p, "keys")
    BY <1>8, <2>2, FetchStep DEF ReadsKey
  <2> QED
    BY <2>1, <2>2
<1>9. CASE Search(p)
  <2>1. PICK c \in MaybeCommit :
           /\ Answers(c, History[run[p].head],
                      Verified(run[p].signed, run[p].keys, run[p].required),
                      run[p].boundary, now)
           /\ Goto(p, "keys", IF c = NoCommit THEN "nothing" ELSE "processing")
           /\ run' = [run EXCEPT ![p].found = c]
    BY <1>9 DEF Search
  <2>2. CASE c = NoCommit
    BY <2>1, <2>2 DEF Goto, IType, TypeOK, LeavesSearch
  <2>3. CASE c # NoCommit
    <3>1. c \in Verified(run[p].signed, run[p].keys, run[p].required)
      BY <2>1, <2>3 DEF Answers, Hits
    <3>2. pc[p] = "keys" /\ pc'[p] = "processing" /\ run'[p].found = c
      BY <2>1, <2>3 DEF Goto, IType, TypeOK, Run
    <3>3. run[p].left = {}
      BY <1>9 DEF Search
    <3> QED
      BY <3>1, <3>2, <3>3 DEF AnswersCommit
  <2> QED
    BY <2>2, <2>3
<1>10. CASE SearchFails(p)
  BY <1>1, <1>10 DEF SearchFails, Label, Active, Searching
<1>11. CASE StoreProcessing(p)
  BY <1>11, NoRunType DEF StoreProcessing, Goto, IType, TypeOK, Run, KeepsCommit
<1>12. CASE StoreNothing(p) \/ StoreFailed(p) \/ StoreFinished(p)
  BY <1>1, <1>12 DEF StoreNothing, StoreFailed, StoreFinished, StorageFails, Return, Goto, IType,
     TypeOK, Label, Active, LeavesSearch
<1>13. CASE \/ Prepare(p) \/ PrepareFails(p) \/ Checkout(p) \/ CheckoutFails(p)
            \/ Apply(p) \/ ApplyFails(p) \/ StoreSucceeded(p)
  BY <1>1, <1>13 DEF Prepare, PrepareFails, Checkout, CheckoutFails, Apply, ApplyFails,
     StoreSucceeded, StorageFails, Goto, IType, TypeOK, Label, Active, KeepsCommit
<1> QED
  BY <1>2, <1>3, <1>4, <1>5, <1>6, <1>7, <1>8, <1>9, <1>10, <1>11, <1>12, <1>13 DEF Work

\* The history variables only watch.
LEMMA HistorySpec == HSpec => Spec
<1>1. HInit => Init
  BY DEF HInit
<1>2. [HNext]_hvars => [Next]_vars
  BY DEF HNext, hvars
<1> QED
  BY <1>1, <1>2, PTL DEF HSpec, Spec

-----------------------------------------------------------------------------
(* What a call has seen covers what its search has read *)

SeenBy(p) ==
    /\ pc[p] \in InSearch => NumbersNow \subseteq saw[p].numbers
    /\ pc[p] \in {"clone", "list", "keys"} => run[p].required \in saw[p].numbers
    /\ pc[p] \in Cloned => run[p].signed = saw[p].signed /\ Stored \subseteq saw[p].keys
    /\ pc[p] = "keys" => run[p].keys \subseteq saw[p].keys
    /\ pc[p] \notin InSearch => saw[p].numbers = {}
    /\ pc[p] \in Handling => run[p].found \in allowed

Seen ==
    /\ saw \in [Tick -> Sight]
    /\ allowed \subseteq Commit
    /\ \A p \in Tick : SeenBy(p) /\ Endorsed(saw[p]) \subseteq allowed

LEMMA InitSeen == HInit => Seen
<1> SUFFICES ASSUME HInit PROVE Seen
  OBVIOUS
<1>1. Nothing \in Sight
  BY DEF Nothing, Sight, Signed, Unsigned
<1>2. \A p \in Tick : saw[p] = Nothing /\ Endorsed(saw[p]) = {}
  BY DEF HInit, Nothing, Endorsed
<1>3. \A p \in Tick : SeenBy(p)
  BY <1>2 DEF HInit, Init, SeenBy, Nothing, InSearch, Cloned, Handling
<1> QED
  BY <1>1, <1>2, <1>3 DEF HInit, Seen

\* What one step adds to it.
LEMMA LookStep ==
    ASSUME IType, IType', Seen, Remember, NEW p \in Tick
    PROVE  /\ saw'[p] \in Sight
           /\ pc'[p] \in InSearch => saw'[p].numbers = saw[p].numbers \cup NumbersNow'
           /\ pc'[p] \notin InSearch => saw'[p].numbers = {}
           /\ pc'[p] \in Cloned => /\ saw'[p].keys = saw[p].keys \cup Stored'
                                   /\ pc[p] = "clone" => saw'[p].signed = signers
                                   /\ pc[p] # "clone" => saw'[p].signed = saw[p].signed
<1>1. saw'[p] = Look(p)
  BY DEF Remember
<1>2. NumbersNow' \in SUBSET Required /\ Stored' \in SUBSET Key
  <2>1. config' \in Config \cup {NoConfig} /\ trusted' \in [Name -> Key \cup {NoKey}]
    BY DEF IType, TypeOK
  <2>2. Stored' \in SUBSET Key
    BY <2>1 DEF Stored
  <2>3. CASE config' = NoConfig
    BY <2>2, <2>3 DEF NumbersNow
  <2>4. CASE config' # NoConfig
    BY <2>1, <2>2, <2>4 DEF NumbersNow, Config
  <2> QED
    BY <2>3, <2>4
<1>3. /\ saw[p].numbers \in SUBSET Required /\ saw[p].signed \in Signed
      /\ saw[p].keys \in SUBSET Key
  BY DEF Seen, Sight
<1>4. signers \in Signed /\ Unsigned \in Signed
  BY DEF IType, TypeOK, Signed, Unsigned
<1>5. saw'[p] \in Sight
  BY <1>1, <1>2, <1>3, <1>4 DEF Look, Sight
<1> QED
  BY <1>1, <1>5 DEF Look

LEMMA AllowedStep ==
    ASSUME Seen, Remember
    PROVE  /\ allowed \subseteq allowed' /\ allowed' \subseteq Commit
           /\ \A p \in Tick : Endorsed(saw'[p]) \subseteq allowed'
<1>1. allowed' = allowed \cup UNION {Endorsed(saw'[p]) : p \in Tick}
  BY DEF Remember
<1>2. \A p \in Tick : Endorsed(saw'[p]) \subseteq Commit
  BY DEF Endorsed
<1> QED
  BY <1>1, <1>2 DEF Seen

\* A call that has not moved has seen what it had seen, and more.
LEMMA StaysSeen ==
    ASSUME IType, IType', Seen, Remember, NEW p \in Tick, pc'[p] = pc[p], run'[p] = run[p]
    PROVE  SeenBy(p)'
<1>1. SeenBy(p)
  BY DEF Seen
<1> QED
  BY <1>1, LookStep, AllowedStep DEF SeenBy, Cloned, InSearch, Handling

\* The search answers a commit endorsed by what its call has seen.
LEMMA AnswerAllowed ==
    ASSUME IType, Seen, NEW p \in Tick, AnswersCommit(p)
    PROVE  run'[p].found \in allowed
<1> DEFINE c == run'[p].found
           r == run[p].required
<1>1. /\ r \in saw[p].numbers /\ run[p].signed = saw[p].signed
      /\ run[p].keys \subseteq saw[p].keys /\ saw[p].keys \in SUBSET Key
  BY DEF Seen, SeenBy, AnswersCommit, Cloned, Sight
<1>2. saw[p].signed[c] \cap saw[p].keys \in SUBSET Key
  BY <1>1
<1>3. /\ Cardinality(run[p].signed[c] \cap run[p].keys) \in Nat
      /\ Cardinality(saw[p].signed[c] \cap saw[p].keys) \in Nat
      /\ Cardinality(run[p].signed[c] \cap run[p].keys)
             <= Cardinality(saw[p].signed[c] \cap saw[p].keys)
  BY <1>1, <1>2, MoreCount
<1>4. c \in Verified(run[p].signed, run[p].keys, r)
  BY DEF AnswersCommit
<1>5. r \in Int
  BY RequiredInt
<1>6. c \in Commit /\ (r = 0 \/ (r > 0 /\ Cardinality(run[p].signed[c] \cap run[p].keys) >= r))
  BY <1>4 DEF Verified
<1>7. r = 0 \/ (r > 0 /\ Cardinality(saw[p].signed[c] \cap saw[p].keys) >= r)
  BY <1>3, <1>5, <1>6
<1>8. c \in Endorsed(saw[p])
  BY <1>1, <1>6, <1>7 DEF Endorsed
<1> QED
  BY <1>8 DEF Seen

\* The call that has moved.
LEMMA MovesSeen ==
    ASSUME IType, IType', Seen, Remember, NEW p \in Tick, TickRead(p) \/ Work(p), ~PluginDies
    PROVE  SeenBy(p)'
<1> USE LookStep, AllowedStep DEF InSearch, Cloned, Handling
<1>1. SeenBy(p)
  BY DEF Seen
<1>2. UNCHANGED <<signers, settings>> /\ NumbersNow' = NumbersNow /\ Stored' = Stored
  <2>1. UNCHANGED <<signers, config, trusted>>
    BY WorkReadsOnly DEF settings
  <2> QED
    BY <2>1 DEF NumbersNow, Stored, settings
<1>3. CASE LeavesSearch(p)
  BY <1>3 DEF LeavesSearch, SeenBy
<1>4. CASE StartsSearch(p)
  BY <1>4 DEF StartsSearch, SeenBy
<1>5. CASE ReadsNumber(p)
  <2>1. run'[p].required \in NumbersNow'
    BY <1>2, <1>5 DEF ReadsNumber, NumbersNow
  <2> QED
    BY <1>1, <1>5, <2>1 DEF ReadsNumber, SeenBy
<1>6. CASE ReadsSignatures(p)
  BY <1>1, <1>6 DEF ReadsSignatures, SeenBy
<1>7. CASE ReadsNames(p)
  BY <1>1, <1>7 DEF ReadsNames, SeenBy
<1>8. CASE ReadsKey(p)
  <2>1. PICK n \in run[p].left : /\ trusted[n] # NoKey
                                 /\ run'[p].keys = run[p].keys \cup {trusted[n]}
    BY <1>8 DEF ReadsKey
  <2>2. n \in Name
    BY DEF IType, TypeOK, Run
  <2>3. trusted[n] \in Stored'
    BY <1>2, <2>1, <2>2 DEF Stored
  <2>4. run'[p].keys \subseteq saw'[p].keys
    BY <1>1, <1>8, <2>1, <2>3 DEF ReadsKey, SeenBy
  <2> QED
    BY <1>1, <1>8, <2>4 DEF ReadsKey, SeenBy
<1>9. CASE AnswersCommit(p)
  BY <1>9, AnswerAllowed DEF AnswersCommit, SeenBy
<1>10. CASE KeepsCommit(p)
  BY <1>1, <1>10 DEF KeepsCommit, SeenBy
<1> QED
  BY <1>3, <1>4, <1>5, <1>6, <1>7, <1>8, <1>9, <1>10, SearchSteps

\* No call is past the guard any more.
LEMMA IdleSeen ==
    ASSUME IType, IType', Seen, Remember, PluginDies, NEW p \in Tick
    PROVE  SeenBy(p)'
BY LookStep DEF PluginDies, SeenBy, InSearch, Cloned, Handling

LEMMA SeenStep == ASSUME IType, IType', Seen, HNext PROVE Seen'
<1> USE DEF HNext
<1>1. ASSUME NEW p \in Tick PROVE SeenBy(p)'
  <2>1. CASE PluginDies
    BY <2>1, IdleSeen
  <2>2. CASE UNCHANGED <<pc, run>>
    BY <2>2, StaysSeen
  <2>3. ASSUME NEW q \in Tick, TickRead(q) \/ Work(q), ~PluginDies
        PROVE  SeenBy(p)'
    <3>1. CASE q = p
      BY <2>3, <3>1, MovesSeen
    <3>2. CASE q # p
      BY <2>3, <3>2, OthersStay, StaysSeen, WorkReadsOnly
    <3> QED
      BY <3>1, <3>2
  <2> QED
    BY <2>1, <2>2, <2>3, EnvironmentStays DEF Next
<1>2. saw' \in [Tick -> Sight]
  <2>1. \A p \in Tick : saw'[p] \in Sight
    BY LookStep
  <2> QED
    BY <2>1 DEF Remember
<1>3. allowed' \subseteq Commit /\ \A p \in Tick : Endorsed(saw'[p]) \subseteq allowed'
  BY AllowedStep
<1> QED
  BY <1>1, <1>2, <1>3 DEF Seen, Endorsed

-----------------------------------------------------------------------------
(* The steps of the workflow as steps of SignedDelivery *)

\* Whoever changes the target or leaves a terraform behind is one of these.
LEMMA OutcomeSteps ==
    ASSUME Next
    PROVE  \/ UNCHANGED outcome
           \/ PluginDies
           \/ OrphanActs
           \/ \E p \in Tick : Apply(p) \/ ApplyFails(p)
<1>1. ASSUME NEW p \in Tick, NEW l, GiveUp(p, l) PROVE UNCHANGED outcome
  BY <1>1 DEF GiveUp
<1>2. ASSUME NEW p \in Tick, TickRead(p) \/ Work(p), ~PluginDies, ~Apply(p), ~ApplyFails(p)
      PROVE  UNCHANGED outcome
  <2>1. CASE TickRead(p) \/ TickSkip(p) \/ TickLaunch(p) \/ ReadConfig(p) \/ CheckInterval(p)
    BY <1>1, <2>1 DEF TickRead, TickSkip, TickLaunch, ReadConfig, CheckInterval, StorageFails
  <2>2. CASE StampRun(p) \/ SearchConfig(p) \/ CloneRepository(p) \/ CloneFails(p) \/ ListKeys(p)
    BY <1>1, <2>2 DEF StampRun, SearchConfig, CloneRepository, CloneFails, ListKeys, StorageFails
  <2>3. CASE FetchKey(p) \/ Search(p) \/ SearchFails(p) \/ StoreNothing(p) \/ StoreProcessing(p)
    BY <1>1, <1>2, <2>3
       DEF FetchKey, Search, SearchFails, StoreNothing, StoreProcessing, StorageFails
  <2>4. CASE \/ Prepare(p) \/ PrepareFails(p) \/ Checkout(p) \/ CheckoutFails(p)
             \/ StoreFailed(p) \/ StoreSucceeded(p) \/ StoreFinished(p)
    BY <1>1, <2>4 DEF Prepare, PrepareFails, Checkout, CheckoutFails, StoreFailed, StoreSucceeded,
       StoreFinished, StorageFails
  <2> QED
    BY <1>2, <2>1, <2>2, <2>3, <2>4 DEF Work
<1>3. ASSUME Environment, ~PluginDies, ~OrphanActs PROVE UNCHANGED outcome
  BY <1>3 DEF Environment, Advance, Crash, Push, Sign, Unsign, SetConfig, DeleteConfig, TrustKey,
     DeleteKey, outcome
<1> QED
  BY <1>2, <1>3 DEF Next

\* Without a terraform of an earlier plugin only a goroutine at terraform changes
\* the target, and to a part or all of its own commit; nobody searches after it.
LEMMA TargetStep ==
    ASSUME IType, GuardMatchesRun', AppliedInPlace, Next, target' # target
    PROVE  \E p \in Tick, complete \in BOOLEAN :
               /\ pc[p] = "apply" /\ run[p].found \notin Bare
               /\ target' = [commit |-> run[p].found, complete |-> complete]
               /\ lastFinished' = lastFinished
               /\ \A q \in Tick : pc'[q] \notin InSearch
<1> USE DEF outcome, InSearch
<1>1. CASE PluginDies
  BY <1>1 DEF PluginDies, Applying
<1>2. ASSUME NEW p \in Tick, Apply(p) \/ ApplyFails(p)
      PROVE  /\ pc[p] = "apply" /\ run[p].found \notin Bare
             /\ \E complete \in BOOLEAN :
                    target' = [commit |-> run[p].found, complete |-> complete]
             /\ lastFinished' = lastFinished
             /\ \A q \in Tick : pc'[q] \notin InSearch
  <2>1. /\ pc[p] = "apply" /\ run[p].found \notin Bare
        /\ \E complete \in BOOLEAN :
               target' = [commit |-> run[p].found, complete |-> complete]
        /\ lastFinished' = lastFinished
    BY <1>2 DEF Apply, ApplyFails, Applying, Goto
  <2>2. pc'[p] \in {"succeeded", "failed"}
    BY <1>2 DEF Apply, ApplyFails, Goto, IType, TypeOK
  <2>3. \A q \in Tick : pc'[q] \notin InSearch
    BY <2>2 DEF GuardMatchesRun, Active, Searching, Handling
  <2> QED
    BY <2>1, <2>3
<1>3. ~OrphanActs
  BY DEF AppliedInPlace, OrphanActs
<1>4. PluginDies \/ \E p \in Tick : Apply(p) \/ ApplyFails(p)
  BY <1>3, OutcomeSteps
<1> QED
  BY <1>1, <1>2, <1>4

\* While nobody searches nothing new is allowed.
LEMMA NothingNew ==
    ASSUME IType, IType', Seen, Remember, \A p \in Tick : pc'[p] \notin InSearch
    PROVE  allowed' = allowed
<1>1. \A p \in Tick : Endorsed(saw'[p]) = {}
  BY LookStep DEF Endorsed
<1> QED
  BY <1>1 DEF Remember

LEMMA DeliveryStep ==
    ASSUME IType, IType', GuardMatchesRun', AppliedInPlace, Seen, HNext
    PROVE  [Delivery!Next]_<<allowed, target, lastFinished>>
<1> USE DEF HNext
<1>1. CASE UNCHANGED <<target, lastFinished>>
  BY <1>1, AllowedStep DEF Delivery!Next, Delivery!Allow
<1>2. CASE target' # target
  <2>1. PICK p \in Tick, complete \in BOOLEAN :
            /\ pc[p] = "apply" /\ run[p].found \notin Bare
            /\ target' = [commit |-> run[p].found, complete |-> complete]
            /\ lastFinished' = lastFinished
            /\ \A q \in Tick : pc'[q] \notin InSearch
    BY <1>2, TargetStep
  <2>2. run[p].found \in allowed \ Bare
    BY <2>1 DEF Seen, SeenBy, Handling
  <2>3. allowed' = allowed
    BY <2>1, NothingNew
  <2> QED
    BY <2>1, <2>2, <2>3 DEF Delivery!Next, Delivery!Deploy
<1>3. CASE lastFinished' # lastFinished
  <2>1. PICK p \in Tick : /\ pc[p] = "finish"
                          /\ lastFinished' = run[p].found /\ guard' = 0
                          /\ UNCHANGED <<signers, settings, target>>
    BY <1>3, RecordStep
  <2>2. run[p].found \in allowed /\ InPlace(run[p].found)
    BY <2>1 DEF Seen, SeenBy, Handling, AppliedInPlace
  <2>3. \A q \in Tick : pc'[q] \notin InSearch
    BY <2>1 DEF GuardMatchesRun, InSearch, Active, Searching
  <2>4. allowed' = allowed
    BY <2>3, NothingNew
  <2> QED
    BY <2>1, <2>2, <2>4 DEF Delivery!Next, Delivery!Record, InPlace
<1> QED
  BY <1>1, <1>2, <1>3

\* Whatever operators and committers change while it runs, keys replaced under
\* their name and signatures taken away included, and whatever fails, the workflow
\* puts in place and records only commits that had, when the remote was cloned,
\* enough signatures by keys stored at some moment of the rest of the search, for a
\* number configured at some moment of it, as long as no terraform outlives its
\* plugin (periodic.go:83-156, git.go:32-139, pgp/storage.go:13-32).
THEOREM DeliveryCorrect ==
    ASSUME "orphan" \notin Fault
    PROVE  HSpec => DeliversOnlySigned
<1>1. HSpec => []AppliedInPlace
  BY HistorySpec, AlwaysInPlace, PTL
<1>2. HSpec => []IType
  BY HistorySpec, InductiveType, PTL
<1>3. HSpec => []GuardMatchesRun
  BY HistorySpec, GuardCorrect, PTL
<1>4. HInit => Delivery!Init
  BY DEF HInit, Init, Delivery!Init
<1>5. Seen /\ UNCHANGED hvars => Seen'
  BY DEF Seen, SeenBy, NumbersNow, Stored, Endorsed, hvars, vars, history, settings, memory
<1>6. IType /\ IType' /\ Seen /\ [HNext]_hvars => Seen'
  BY <1>5, SeenStep
<1>7. UNCHANGED hvars => UNCHANGED <<allowed, target, lastFinished>>
  BY DEF hvars, vars, history, outcome
<1>8. IType /\ IType' /\ GuardMatchesRun' /\ AppliedInPlace /\ Seen /\ [HNext]_hvars
          => [Delivery!Next]_<<allowed, target, lastFinished>>
  BY <1>7, DeliveryStep
<1> QED
  BY <1>1, <1>2, <1>3, <1>4, <1>6, <1>8, InitSeen, PTL
     DEF HSpec, DeliversOnlySigned, Delivery!Spec

-----------------------------------------------------------------------------
(* The policy of one moment *)

\* The keys that a search has fetched or is going to, if nobody changes them.
Counted(p) == run[p].keys \cup ({trusted[n] : n \in run[p].left} \ {NoKey})

Admitted == compliant \cup excused

\* The search of a call that has not been disturbed goes by the policy that was in
\* force when the keys were listed.
RunCompliant(p) ==
    /\ p \notin disturbed =>
          /\ pc[p] \in {"clone", "list"} =>
                config # NoConfig /\ config.required = run[p].required
          /\ pc[p] = "list" => \A c \in Commit : run[p].signed[c] \subseteq signers[c]
          /\ pc[p] = "keys" =>
                Verified(run[p].signed, Counted(p), run[p].required) \subseteq compliant
    /\ pc[p] \in Handling => run[p].found \in Admitted

PolicyMet ==
    /\ Compliant \subseteq compliant
    /\ \A p \in Tick : RunCompliant(p)
    /\ orphans \subseteq Admitted
    /\ StablePolicyMet

LEMMA InitPolicy == HInit => PolicyMet
BY DEF HInit, Init, PolicyMet, RunCompliant, StablePolicyMet, Handling

LEMMA CountedKeys == ASSUME IType, NEW p \in Tick PROVE Counted(p) \in SUBSET Key
BY DEF IType, TypeOK, Run, Counted

LEMMA AdmittedGrows ==
    ASSUME Remember
    PROVE  compliant \subseteq compliant' /\ excused \subseteq excused' /\ Admitted \subseteq Admitted'
BY DEF Remember, Admitted

\* A search that goes on undisturbed was so before and is not disturbed now.
LEMMA Undisturbed ==
    ASSUME Remember, NEW p \in Tick, p \notin disturbed', pc'[p] \in InSearch
    PROVE  p \notin disturbed /\ ~Disturbs(p)
BY DEF Remember

\* Counting fewer keys than before admits no more.
LEMMA CountsLess ==
    ASSUME IType, NEW p \in Tick, RunCompliant(p), pc[p] = "keys", p \notin disturbed,
           NEW keys \in SUBSET Counted(p)
    PROVE  Verified(run[p].signed, keys, run[p].required) \subseteq compliant
<1>1. Verified(run[p].signed, keys, run[p].required)
          \subseteq Verified(run[p].signed, Counted(p), run[p].required)
  BY CountedKeys, RequiredInt, VerifiedGrows
<1> QED
  BY <1>1 DEF RunCompliant

\* The keys are listed: what will count then counts now, by the same number.
LEMMA ListedCompliant ==
    ASSUME IType, PolicyMet, NEW p \in Tick, pc[p] = "list", p \notin disturbed
    PROVE  Verified(run[p].signed, Stored, run[p].required) \subseteq compliant
<1>1. config # NoConfig /\ config.required = run[p].required
  BY DEF PolicyMet, RunCompliant
<1>2. ASSUME NEW c \in Commit
      PROVE  /\ Cardinality(run[p].signed[c] \cap Stored) \in Nat
             /\ Cardinality(signers[c] \cap Stored) \in Nat
             /\ Cardinality(run[p].signed[c] \cap Stored) <= Cardinality(signers[c] \cap Stored)
  <2>1. signers[c] \cap Stored \in SUBSET Key
    BY StoredKeys DEF IType
  <2>2. run[p].signed[c] \cap Stored \subseteq signers[c] \cap Stored
    BY DEF PolicyMet, RunCompliant
  <2> QED
    BY <2>1, <2>2, MoreCount
<1>3. run[p].required \in Int
  BY RequiredInt
<1>4. ASSUME NEW c \in Commit, run[p].required > 0,
             Cardinality(run[p].signed[c] \cap Stored) >= run[p].required
      PROVE  Cardinality(signers[c] \cap Stored) >= run[p].required
  BY <1>2, <1>3, <1>4
<1>5. Verified(run[p].signed, Stored, run[p].required) \subseteq Compliant
  BY <1>1, <1>4 DEF Verified, Compliant, Endorsed, NumbersNow
<1> QED
  BY <1>5 DEF PolicyMet

\* A call that has not moved.
LEMMA StaysCompliant ==
    ASSUME IType, IType', PolicyMet, Remember, NEW p \in Tick, pc'[p] = pc[p], run'[p] = run[p]
    PROVE  RunCompliant(p)'
<1> USE DEF Disturbs, InSearch
<1>1. RunCompliant(p)
  BY DEF PolicyMet
<1>2. pc'[p] \in Handling => run'[p].found \in Admitted'
  BY <1>1, AdmittedGrows DEF RunCompliant
<1>3. ASSUME p \notin disturbed', pc'[p] \in {"clone", "list"}
      PROVE  config' # NoConfig /\ config'.required = run'[p].required
  BY <1>1, <1>3, Undisturbed DEF RunCompliant
<1>4. ASSUME p \notin disturbed', pc'[p] = "list"
      PROVE  \A c \in Commit : run'[p].signed[c] \subseteq signers'[c]
  BY <1>1, <1>4, Undisturbed DEF RunCompliant
<1>5. ASSUME p \notin disturbed', pc'[p] = "keys"
      PROVE  Verified(run'[p].signed, Counted(p)', run'[p].required) \subseteq compliant'
  <2>1. p \notin disturbed /\ \A n \in run[p].left : trusted'[n] \in {trusted[n], NoKey}
    BY <1>5, Undisturbed
  <2>2. Counted(p)' \in SUBSET Counted(p)
    BY <2>1 DEF Counted
  <2> QED
    BY <1>1, <1>5, <2>1, <2>2, CountsLess, AdmittedGrows
<1> QED
  BY <1>2, <1>3, <1>4, <1>5 DEF RunCompliant

\* The call that has moved.
LEMMA MovesCompliant ==
    ASSUME IType, IType', PolicyMet, Remember, NEW p \in Tick, TickRead(p) \/ Work(p), ~PluginDies
    PROVE  RunCompliant(p)'
<1> USE DEF InSearch, Handling
<1>1. RunCompliant(p)
  BY DEF PolicyMet
<1>2. UNCHANGED <<signers, config, trusted>>
  BY WorkReadsOnly DEF settings
<1>3. CASE LeavesSearch(p)
  BY <1>3 DEF LeavesSearch, RunCompliant
<1>4. CASE StartsSearch(p)
  BY <1>4 DEF StartsSearch, RunCompliant
<1>5. CASE ReadsNumber(p)
  BY <1>2, <1>5 DEF ReadsNumber, RunCompliant
<1>6. CASE ReadsSignatures(p)
  BY <1>1, <1>2, <1>6, Undisturbed DEF ReadsSignatures, RunCompliant
<1>7. CASE ReadsNames(p)
  <2>1. Counted(p)' = Stored
    BY <1>2, <1>7 DEF ReadsNames, Counted, Stored
  <2>2. ASSUME p \notin disturbed'
        PROVE  Verified(run'[p].signed, Counted(p)', run'[p].required) \subseteq compliant'
    BY <1>7, <2>1, <2>2, ListedCompliant, Undisturbed, AdmittedGrows DEF ReadsNames
  <2> QED
    BY <1>7, <2>2 DEF ReadsNames, RunCompliant
<1>8. CASE ReadsKey(p)
  <2>1. Counted(p)' \in SUBSET Counted(p)
    BY <1>2, <1>8 DEF ReadsKey, Counted
  <2>2. ASSUME p \notin disturbed'
        PROVE  Verified(run'[p].signed, Counted(p)', run'[p].required) \subseteq compliant'
    BY <1>1, <1>8, <2>1, <2>2, CountsLess, Undisturbed, AdmittedGrows DEF ReadsKey
  <2> QED
    BY <1>8, <2>2 DEF ReadsKey, RunCompliant
<1>9. CASE AnswersCommit(p)
  <2>1. CASE p \in disturbed
    BY <1>9, <2>1 DEF AnswersCommit, Remember, Admitted, RunCompliant
  <2>2. CASE p \notin disturbed
    <3>1. run[p].keys \in SUBSET Counted(p)
      BY DEF Counted
    <3>2. run'[p].found \in compliant
      BY <1>1, <1>9, <2>2, <3>1, CountsLess DEF AnswersCommit
    <3> QED
      BY <1>9, <3>2, AdmittedGrows DEF AnswersCommit, Admitted, RunCompliant
  <2> QED
    BY <2>1, <2>2
<1>10. CASE KeepsCommit(p)
  BY <1>1, <1>10, AdmittedGrows DEF KeepsCommit, RunCompliant
<1> QED
  BY <1>3, <1>4, <1>5, <1>6, <1>7, <1>8, <1>9, <1>10, SearchSteps

\* All calls: the others have stayed, or the plugin has died.
LEMMA RunsCompliantStep ==
    ASSUME IType, IType', PolicyMet, HNext, NEW p \in Tick
    PROVE  RunCompliant(p)'
<1> USE DEF HNext
<1>1. CASE PluginDies
  BY <1>1 DEF PluginDies, RunCompliant, Handling
<1>2. CASE UNCHANGED <<pc, run>>
  BY <1>2, StaysCompliant
<1>3. ASSUME NEW q \in Tick, TickRead(q) \/ Work(q), ~PluginDies
      PROVE  RunCompliant(p)'
  <2>1. CASE q = p
    BY <1>3, <2>1, MovesCompliant
  <2>2. CASE q # p
    BY <1>3, <2>2, OthersStay, StaysCompliant
  <2> QED
    BY <2>1, <2>2
<1> QED
  BY <1>1, <1>2, <1>3, EnvironmentStays DEF Next

\* Terraform, also one that outlives its plugin, works for such commits only.
LEMMA OutcomeCompliant ==
    ASSUME PolicyMet, HNext
    PROVE  orphans' \subseteq Admitted' /\ StablePolicyMet'
<1> USE DEF StablePolicyMet, HNext
<1>1. Admitted \subseteq Admitted' /\ Admitted' = compliant' \cup excused'
  BY AdmittedGrows DEF Admitted
<1>2. /\ \A p \in Tick : pc[p] \in Handling => run[p].found \in Admitted
      /\ orphans \subseteq Admitted
      /\ target.commit # NoCommit => target.commit \in Admitted
  BY DEF PolicyMet, RunCompliant, Admitted
<1>3. CASE PluginDies
  BY <1>1, <1>2, <1>3 DEF PluginDies, Applying, Handling, outcome
<1>4. CASE OrphanActs
  BY <1>1, <1>2, <1>4 DEF OrphanActs
<1>5. ASSUME NEW p \in Tick, Apply(p) \/ ApplyFails(p)
      PROVE  orphans' \subseteq Admitted' /\ StablePolicyMet'
  BY <1>1, <1>2, <1>5 DEF Apply, ApplyFails, Applying, Goto, Handling
<1>6. CASE UNCHANGED outcome
  BY <1>1, <1>2, <1>6 DEF outcome
<1> QED
  BY <1>3, <1>4, <1>5, <1>6, OutcomeSteps

\* Whatever fails, and however branches, signatures, keys and settings change, what
\* is in place met the policy of one moment, unless its search was disturbed: the
\* configuration changed between its read and the listing of the keys, a signature
\* was taken away between the clone and that listing, or a key was replaced after
\* its name was listed and before it was fetched (git.go:45, :58, :70, :115,
\* pgp/storage.go:13-32).
THEOREM PolicyCorrect == HSpec => []StablePolicyMet
<1>1. HSpec => []IType
  BY HistorySpec, InductiveType, PTL
<1>2. IType /\ IType' /\ PolicyMet /\ HNext => PolicyMet'
  <2> SUFFICES ASSUME IType, IType', PolicyMet, HNext PROVE PolicyMet'
    OBVIOUS
  <2>1. Compliant' \subseteq compliant'
    BY DEF HNext, Remember
  <2> QED
    BY <2>1, RunsCompliantStep, OutcomeCompliant DEF PolicyMet
<1>3. PolicyMet /\ UNCHANGED hvars => PolicyMet'
  BY DEF PolicyMet, RunCompliant, StablePolicyMet, Compliant, NumbersNow, Stored, Counted, Admitted,
     hvars, vars, history, remote, settings, memory, outcome
<1>4. PolicyMet => StablePolicyMet
  BY DEF PolicyMet
<1> QED
  BY <1>1, <1>2, <1>3, <1>4, InitPolicy, PTL DEF HSpec
=============================================================================
