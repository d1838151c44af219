------------------------- MODULE TerraformRunProofs -------------------------
(***************************************************************************)
(* Proofs about TerraformRun: the stored state knows what terraform has    *)
(* made, a success is exact, and the promise to the workflow is kept, for  *)
(* any commits, objects, carried state files and failures.                 *)
(***************************************************************************)
EXTENDS TerraformRun, TLAPS

\* The commit being applied, the flags and where they can be set.
Progress ==
    /\ (pc = "idle") <=> (commit = NoCommit)
    /\ pc \in {"load", "init", "plan", "apply"} => commit \notin Bare
    /\ pc \in {"idle", "extract", "load"} => ~informed
    /\ pc \in {"init", "plan", "apply"} => informed
    /\ ok => pc \in {"save", "return"}

\* The file covers what the stored state does not, once it has been loaded.
FileKnowsTarget ==
    /\ pc \in {"init", "plan", "apply"} \/ (pc = "save" /\ informed) =>
            objects \subseteq file.holds \cup lost
    /\ pc = "save" /\ ~informed => objects \subseteq stored.holds \cup lost

\* What the plan leaves to do, and nothing else, separates the target from the
\* commit.
PlanCloses ==
    pc = "apply" =>
        /\ plan.create \subseteq Wanted[commit]
        /\ plan.destroy \cap Wanted[commit] = {}
        /\ Wanted[commit] \subseteq objects \cup plan.create
        /\ objects \subseteq Wanted[commit] \cup plan.destroy \cup lost

\* ExactOnSuccess from the end of terraform on.
Exact ==
    pc \in {"save", "return"} /\ ok /\ commit \notin Bare =>
        /\ Wanted[commit] \subseteq objects
        /\ objects \subseteq Wanted[commit] \cup lost

Inv == TypeOK /\ Progress /\ StateKnowsTarget /\ FileKnowsTarget /\ PlanCloses /\ Exact

-----------------------------------------------------------------------------
LEMMA InitInv == Init => Inv
<1> SUFFICES ASSUME Init PROVE Inv
  OBVIOUS
<1>1. TypeOK
  BY DEF Init, TypeOK, State, NoState, Change, NoChange
<1>2. Progress /\ PlanCloses /\ Exact
  BY DEF Init, Progress, PlanCloses, Exact
<1>3. StateKnowsTarget /\ FileKnowsTarget
  BY DEF Init, StateKnowsTarget, FileKnowsTarget
<1> QED
  BY <1>1, <1>2, <1>3 DEF Inv

LEMMA NextInv == ASSUME Inv, [Next]_vars PROVE Inv'
<1> USE RunAssumption DEF Inv, TypeOK, State, Change, NoChange, NoState, Progress, StateKnowsTarget, FileKnowsTarget, PlanCloses, Exact, Goto
<1>1. CASE MakeTempDir
  BY <1>1 DEF MakeTempDir
<1>2. CASE ExtractFiles
  <2>1. TypeOK'
    BY <1>2 DEF ExtractFiles, CarriedState, NoState, StateOf
  <2>2. Progress'
    BY <1>2 DEF ExtractFiles, CarriedState, NoState, StateOf
  <2>3. StateKnowsTarget'
    BY <1>2 DEF ExtractFiles, CarriedState, NoState, StateOf
  <2>4. FileKnowsTarget'
    BY <1>2 DEF ExtractFiles, CarriedState, NoState, StateOf
  <2>5. PlanCloses'
    BY <1>2 DEF ExtractFiles, CarriedState, NoState, StateOf
  <2>6. Exact'
    BY <1>2 DEF ExtractFiles, CarriedState, NoState, StateOf
  <2> QED
    BY <2>1, <2>2, <2>3, <2>4, <2>5, <2>6
<1>3. CASE ExtractFails
  BY <1>3 DEF ExtractFails, CarriedState, NoState, StateOf, Broken, Fail
<1>4. CASE LoadState
  BY <1>4 DEF LoadState, NoState
<1>5. CASE LoadFails
  BY <1>5 DEF LoadFails, NoState, Broken, Fail
<1>6. CASE RunInit
  BY <1>6 DEF RunInit
<1>7. CASE RunPlan
  BY <1>7 DEF RunPlan, Changes, Known
<1>8. CASE InitOrPlanFails
  <2>1. TypeOK'
    BY <1>8 DEF InitOrPlanFails, Fail
  <2>2. Progress'
    BY <1>8 DEF InitOrPlanFails, Fail
  <2>3. StateKnowsTarget'
    BY <1>8 DEF InitOrPlanFails, Fail
  <2>4. FileKnowsTarget'
    BY <1>8 DEF InitOrPlanFails, Fail
  <2>5. PlanCloses'
    BY <1>8 DEF InitOrPlanFails, Fail
  <2>6. Exact'
    BY <1>8 DEF InitOrPlanFails, Fail
  <2> QED
    BY <2>1, <2>2, <2>3, <2>4, <2>5, <2>6
<1>9. CASE CreateObject
  BY <1>9 DEF CreateObject, StateOf, Known
<1>10. CASE DestroyObject
  BY <1>10 DEF DestroyObject, StateOf, Known
<1>11. CASE RunApply
  <2>1. TypeOK'
    BY <1>11 DEF RunApply, StateOf, Known, NoChange
  <2>2. Progress'
    BY <1>11 DEF RunApply, StateOf, Known, NoChange
  <2>3. StateKnowsTarget'
    BY <1>11 DEF RunApply, StateOf, Known, NoChange
  <2>4. FileKnowsTarget'
    BY <1>11 DEF RunApply, StateOf, Known, NoChange
  <2>5. PlanCloses'
    BY <1>11 DEF RunApply, StateOf, Known, NoChange
  <2>6. Exact'
    BY <1>11 DEF RunApply, StateOf, Known, NoChange
  <2> QED
    BY <2>1, <2>2, <2>3, <2>4, <2>5, <2>6
<1>12. CASE ApplyFails
  <2>1. TypeOK'
    BY <1>12 DEF ApplyFails, NoChange
  <2>2. Progress'
    BY <1>12 DEF ApplyFails, NoChange
  <2>3. StateKnowsTarget'
    BY <1>12 DEF ApplyFails, NoChange
  <2>4. FileKnowsTarget'
    BY <1>12 DEF ApplyFails, NoChange
  <2>5. PlanCloses'
    BY <1>12 DEF ApplyFails, NoChange
  <2>6. Exact'
    BY <1>12 DEF ApplyFails, NoChange
  <2> QED
    BY <2>1, <2>2, <2>3, <2>4, <2>5, <2>6
<1>13. CASE ApplyKilled
  <2>1. TypeOK'
    BY <1>13 DEF ApplyKilled, NoChange
  <2>2. Progress'
    BY <1>13 DEF ApplyKilled, NoChange
  <2>3. StateKnowsTarget'
    BY <1>13 DEF ApplyKilled, NoChange
  <2>4. FileKnowsTarget'
    BY <1>13 DEF ApplyKilled, NoChange
  <2>5. PlanCloses'
    BY <1>13 DEF ApplyKilled, NoChange
  <2>6. Exact'
    BY <1>13 DEF ApplyKilled, NoChange
  <2> QED
    BY <2>1, <2>2, <2>3, <2>4, <2>5, <2>6
<1>14. CASE SaveState
  BY <1>14 DEF SaveState, NoState
<1>15. CASE SaveFails
  BY <1>15 DEF SaveFails, NoState
<1>16. CASE Return
  BY <1>16 DEF Return
<1>17. CASE PluginDies
  BY <1>17 DEF PluginDies, NoState, NoChange
<1>18. CASE UNCHANGED vars
  BY <1>18 DEF vars, work
<1> QED
  BY <1>1, <1>2, <1>3, <1>4, <1>5, <1>6, <1>7, <1>8, <1>9, <1>10, <1>11, <1>12, <1>13, <1>14, <1>15, <1>16, <1>17, <1>18 DEF Next

-----------------------------------------------------------------------------
\* The conjuncts of Inv hold at every step of every run, however the runs before it
\* have ended (cli.go:35-95).
THEOREM InvCorrect == Spec => []Inv
<1>1. Init => Inv
  BY InitInv
<1>2. Inv /\ [Next]_vars => Inv'
  BY NextInv
<1> QED
  BY <1>1, <1>2, PTL DEF Spec

\* TypeOK for all instances: after a run, however it ended, neither its directory
\* nor its plan is left.
THEOREM StateTypeCorrect == Spec => []TypeOK
<1>1. Inv => TypeOK
  BY DEF Inv
<1> QED
  BY <1>1, InvCorrect, PTL

\* Between runs the stored state knows what terraform has made, but for what a
\* crash, a failed save, a killed terraform or a foreign file has lost.
THEOREM StateCorrect == Spec => []StateKnowsTarget
<1>1. Inv => StateKnowsTarget
  BY DEF Inv
<1> QED
  BY <1>1, InvCorrect, PTL

\* A successful run leaves what its commit asks for and nothing else that is known.
THEOREM SuccessCorrect == Spec => []ExactOnSuccess
<1>1. Inv => ExactOnSuccess
  BY DEF Inv, Exact, ExactOnSuccess
<1> QED
  BY <1>1, InvCorrect, PTL

-----------------------------------------------------------------------------
\* A step of the run is a step of the promise, or none.
LEMMA PromiseStep ==
    ASSUME Inv, [Next]_vars
    PROVE  [Promise!Next]_<<objects, commit, delivered>>
<1> USE RunAssumption DEF Inv, TypeOK, Change, Progress, Goto
<1>1. CASE MakeTempDir
  BY <1>1 DEF MakeTempDir, Promise!Next, Promise!Begin
<1>2. CASE CreateObject
  <2>1. PICK o \in plan.create : objects' = objects \cup {o}
    BY <1>2 DEF CreateObject
  <2>2. o \in Wanted[commit]
    BY <1>2, <2>1 DEF CreateObject, PlanCloses
  <2>3. Promise!Change
    BY <1>2, <2>1, <2>2 DEF CreateObject, Promise!Change
  <2> QED
    BY <2>3 DEF Promise!Next
<1>3. CASE DestroyObject
  <2>1. PICK o \in plan.destroy : objects' = objects \ {o}
    BY <1>3 DEF DestroyObject
  <2>2. o \notin Wanted[commit]
    BY <1>3, <2>1 DEF DestroyObject, PlanCloses
  <2>3. Promise!Change
    BY <1>3, <2>1, <2>2 DEF DestroyObject, Promise!Change
  <2> QED
    BY <2>3 DEF Promise!Next
<1>4. CASE ApplyKilled
  <2>1. PICK made \in SUBSET plan.create, gone \in SUBSET plan.destroy :
            objects' = (objects \cup made) \ gone
    BY <1>4 DEF ApplyKilled
  <2>2. made \subseteq Wanted[commit] /\ gone \cap Wanted[commit] = {}
    BY <1>4, <2>1 DEF ApplyKilled, PlanCloses
  <2>3. Promise!Change
    BY <1>4, <2>1, <2>2 DEF ApplyKilled, Promise!Change
  <2> QED
    BY <2>3 DEF Promise!Next
<1>5. CASE Return
  <2>1. CASE ok
    BY <1>5, <2>1 DEF Return, Exact, Promise!Next, Promise!Succeed
  <2>2. CASE ~ok
    BY <1>5, <2>2 DEF Return, Promise!Next, Promise!Fail
  <2> QED
    BY <2>1, <2>2
<1>6. CASE PluginDies
  BY <1>6 DEF PluginDies, Promise!Next, Promise!Fail
<1>7. CASE \/ ExtractFiles \/ ExtractFails \/ LoadState \/ LoadFails
           \/ RunInit \/ RunPlan \/ InitOrPlanFails \/ RunApply \/ ApplyFails
           \/ SaveState \/ SaveFails
  BY <1>7 DEF ExtractFiles, ExtractFails, LoadState, LoadFails, RunInit, RunPlan,
      InitOrPlanFails, RunApply, ApplyFails, SaveState, SaveFails, Fail
<1>8. CASE UNCHANGED vars
  BY <1>8 DEF vars, work
<1> QED
  BY <1>1, <1>2, <1>3, <1>4, <1>5, <1>6, <1>7, <1>8 DEF Next

\* KeepsPromise for all instances: a run only moves the target towards its commit
\* and reports no success before all of it is there.
THEOREM PromiseCorrect == Spec => KeepsPromise
<1>1. Init => Promise!Init
  BY DEF Init, Promise!Init
<1>2. Inv /\ [Next]_vars => [Promise!Next]_<<objects, commit, delivered>>
  BY PromiseStep
<1> QED
  BY <1>1, <1>2, InvCorrect, PTL DEF Spec, KeepsPromise, Promise!Spec
=============================================================================
