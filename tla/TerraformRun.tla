---------------------------- MODULE TerraformRun ----------------------------
(***************************************************************************)
(* ApplyTerraformFromRepo (pkg/terraform/cli.go), run after run: the state *)
(* of terraform lives in storage between runs and in a file of a temporary *)
(* directory during one.  The guard of the workflow lets one run work at a *)
(* time.  terraform itself is external: with the local backend it compares *)
(* the commit with its state file and with what exists, and writes every   *)
(* change it makes into that file.                                         *)
(***************************************************************************)
EXTENDS FiniteSets

CONSTANTS
    Commit,     \* commits, each under the terraform_path configured for it
    NoCommit,
    Object,     \* what terraform manages in the target Vault
    Wanted,     \* the objects that each commit asks for
    Bare,       \* commits with no files under terraform_path
    Carried,    \* commits whose files hold a terraform.tfstate ...
    Claimed,    \* ... and the objects that it claims to know
    Fault       \* "storage", "disk", "read", "terraform", "killed", "crash"

ASSUME RunAssumption ==
    /\ NoCommit \notin Commit
    /\ Wanted \in [Commit -> SUBSET Object]
    /\ Bare \subseteq Commit
    /\ Carried \subseteq Commit \ Bare
    /\ Claimed \in [Commit -> SUBSET Object]

VARIABLES
    stored,     \* the terraform_state entry
    file,       \* terraform.tfstate in the temporary directory
    objects,    \* what terraform has made and not destroyed
    plan,       \* tfplan: the changes still to make
    pc, commit, \* where the run is, and the commit it applies
    ok,         \* the run returns no error
    informed,   \* loadTerraformState has come to its end
    delivered,  \* the last commit whose run returned no error
    lost        \* objects of which a failure has lost track

work == <<plan, pc, commit, ok, informed>>
vars == <<stored, file, objects, work, delivered, lost>>

-----------------------------------------------------------------------------
\* A state file tells which objects terraform manages; a truncated one cannot be
\* read any more.
NoState    == [kind |-> "none", holds |-> {}]
Broken     == [kind |-> "broken", holds |-> {}]
StateOf(S) == [kind |-> "state", holds |-> S]
State      == [kind : {"none", "broken", "state"}, holds : SUBSET Object]

CarriedState == IF commit \in Carried THEN StateOf(Claimed[commit]) ELSE NoState

Change == [create : SUBSET Object, destroy : SUBSET Object]
NoChange == [create |-> {}, destroy |-> {}]

\* What terraform plans after refreshing the state: what it knows to exist counts.
Known == file.holds \cap objects
Changes == [create |-> Wanted[commit] \ Known, destroy |-> Known \ Wanted[commit]]

Init ==
    /\ stored = NoState
    /\ file = NoState
    /\ objects = {}
    /\ plan = NoChange
    /\ pc = "idle"
    /\ commit = NoCommit
    /\ ok = FALSE
    /\ informed = FALSE
    /\ delivered = NoCommit
    /\ lost = {}

Goto(from, to) == pc = from /\ pc' = to

\* An error is returned: the deferred function is next.
Fail(from) == Goto(from, "save") /\ UNCHANGED <<stored, objects, plan, commit, ok, delivered, lost>>

-----------------------------------------------------------------------------
\* processCommit calls for any commit, again or for the first time.  Without a
\* temporary directory the run ends before the deferred function is there.
MakeTempDir ==
    /\ pc = "idle"
    /\ \/ pc' = "extract"
       \/ "disk" \in Fault /\ pc' = "return"
    /\ commit' \in Commit
    /\ UNCHANGED <<stored, file, objects, plan, ok, informed, delivered, lost>>

\* Every file under terraform_path is copied, a state file like any other.
ExtractFiles ==
    /\ \/ commit \in Bare /\ Goto("extract", "save") /\ ok' = TRUE
       \/ commit \notin Bare /\ Goto("extract", "load") /\ UNCHANGED ok
    /\ file' = CarriedState
    /\ UNCHANGED <<stored, objects, plan, commit, informed, delivered, lost>>

\* A file cannot be copied, or terraform_path is not a directory.
ExtractFails ==
    /\ "disk" \in Fault
    /\ Fail("extract")
    /\ file' \in {NoState, CarriedState} \cup (IF commit \in Carried THEN {Broken} ELSE {})
    /\ UNCHANGED informed

\* A variant of LoadState that starts from an empty directory.
LoadNothing ==
    /\ Goto("load", "init")
    /\ informed' = TRUE
    /\ UNCHANGED <<stored, file, objects, plan, commit, ok, delivered, lost>>

\* The stored state takes the place of the commit's own file.  Without a stored
\* state that file stays.
LoadState ==
    /\ Goto("load", "init")
    /\ file' = IF stored = NoState THEN file ELSE stored
    /\ informed' = TRUE
    /\ UNCHANGED <<stored, objects, plan, commit, ok, delivered, lost>>

\* Reading the entry fails, or writing the file does, after none or a part of it.
LoadFails ==
    /\ Fail("load")
    /\ \/ "storage" \in Fault /\ UNCHANGED file
       \/ "disk" \in Fault /\ stored # NoState /\ file' \in {file, NoState, Broken}
    /\ UNCHANGED informed

RunInit ==
    /\ Goto("init", "plan")
    /\ UNCHANGED <<stored, file, objects, plan, commit, ok, informed, delivered, lost>>

RunPlan ==
    /\ file.kind # "broken"
    /\ Goto("plan", "apply")
    /\ plan' = Changes
    /\ UNCHANGED <<stored, file, objects, commit, ok, informed, delivered, lost>>

\* No terraform reads a truncated state.
InitOrPlanFails ==
    /\ "terraform" \in Fault \/ file.kind = "broken"
    /\ Fail("init") \/ Fail("plan")
    /\ UNCHANGED <<file, informed>>

-----------------------------------------------------------------------------
(* terraform apply: external, one change after the other *)

CreateObject ==
    /\ pc = "apply"
    /\ \E o \in plan.create :
          /\ objects' = objects \cup {o}
          /\ file' = StateOf(Known \cup {o})
          /\ plan' = [plan EXCEPT !.create = @ \ {o}]
          /\ lost' = lost \ {o}
    /\ UNCHANGED <<stored, pc, commit, ok, informed, delivered>>

DestroyObject ==
    /\ pc = "apply"
    /\ \E o \in plan.destroy :
          /\ objects' = objects \ {o}
          /\ file' = StateOf(Known \ {o})
          /\ plan' = [plan EXCEPT !.destroy = @ \ {o}]
          /\ lost' = lost \ {o}
    /\ UNCHANGED <<stored, pc, commit, ok, informed, delivered>>

RunApply ==
    /\ plan = NoChange
    /\ Goto("apply", "save")
    /\ ok' = TRUE
    /\ file' = StateOf(Known)
    /\ UNCHANGED <<stored, objects, plan, commit, informed, delivered, lost>>

\* A variant of ApplyFails whose error is lost.
ApplyFailsUnnoticed ==
    /\ "terraform" \in Fault \/ plan.create \cap objects # {}
    /\ Goto("apply", "save")
    /\ ok' = TRUE
    /\ plan' = NoChange
    /\ UNCHANGED <<stored, file, objects, commit, informed, delivered, lost>>

\* A change is refused, as the creation of what is there already may be.
ApplyFails ==
    /\ "terraform" \in Fault \/ plan.create \cap objects # {}
    /\ Goto("apply", "save")
    /\ plan' = NoChange
    /\ UNCHANGED <<stored, file, objects, commit, ok, informed, delivered, lost>>

\* terraform is killed, and changes of its last seconds are not in the file.
ApplyKilled ==
    /\ "killed" \in Fault
    /\ Goto("apply", "save")
    /\ \E made \in SUBSET plan.create, gone \in SUBSET plan.destroy :
          /\ objects' = (objects \cup made) \ gone
          /\ lost' = (lost \ gone) \cup made
    /\ plan' = NoChange
    /\ UNCHANGED <<stored, file, commit, ok, informed, delivered>>

-----------------------------------------------------------------------------
\* Variants of SaveState: one does not remove the directory, one saves the state
\* of successful runs only.
SaveAndKeep ==
    /\ Goto("save", "return")
    /\ stored' = IF file = NoState THEN stored ELSE file
    /\ lost' = IF informed \/ file = NoState THEN lost ELSE lost \cup (objects \ file.holds)
    /\ UNCHANGED <<file, objects, plan, commit, ok, informed, delivered>>
SaveOnSuccess ==
    /\ Goto("save", "return")
    /\ stored' = IF file = NoState \/ ~ok THEN stored ELSE file
    /\ lost' = IF informed \/ file = NoState THEN lost ELSE lost \cup (objects \ file.holds)
    /\ file' = NoState
    /\ UNCHANGED <<objects, plan, commit, ok, informed, delivered>>

\* The deferred function saves whatever state file is there and removes the
\* directory.  A file that is not terraform's own says nothing of what exists.
SaveState ==
    /\ Goto("save", "return")
    /\ stored' = IF file = NoState THEN stored ELSE file
    /\ lost' = IF informed \/ file = NoState THEN lost ELSE lost \cup (objects \ file.holds)
    /\ file' = NoState
    /\ UNCHANGED <<objects, plan, commit, ok, informed, delivered>>

\* The file cannot be read, which goes unnoticed, or stored, which is only logged.
SaveFails ==
    /\ {"storage", "read"} \cap Fault # {} /\ file # NoState
    /\ Goto("save", "return")
    /\ lost' = lost \cup (objects \ stored.holds)
    /\ file' = NoState
    /\ UNCHANGED <<stored, objects, plan, commit, ok, informed, delivered>>

Return ==
    /\ Goto("return", "idle")
    /\ delivered' = IF ok THEN commit ELSE delivered
    /\ commit' = NoCommit /\ ok' = FALSE /\ informed' = FALSE
    /\ UNCHANGED <<stored, file, objects, plan, lost>>

\* The plugin ends and terraform with it; its directory is never looked at again.
PluginDies ==
    /\ "crash" \in Fault
    /\ pc' = "idle" /\ commit' = NoCommit /\ ok' = FALSE /\ informed' = FALSE
    /\ plan' = NoChange
    /\ file' = NoState
    /\ lost' = lost \cup (objects \ stored.holds)
    /\ UNCHANGED <<stored, objects, delivered>>

Next ==
    \/ MakeTempDir \/ ExtractFiles \/ ExtractFails \/ LoadState \/ LoadFails
    \/ RunInit \/ RunPlan \/ InitOrPlanFails
    \/ CreateObject \/ DestroyObject \/ RunApply \/ ApplyFails \/ ApplyKilled
    \/ SaveState \/ SaveFails \/ Return \/ PluginDies

Spec == Init /\ [][Next]_vars

-----------------------------------------------------------------------------
(* Properties *)

\* Every variable has its type; between runs there is no temporary directory and
\* no plan left.
TypeOK ==
    /\ stored \in State /\ file \in State
    /\ objects \subseteq Object /\ lost \subseteq Object
    /\ plan \in Change
    /\ pc \in {"idle", "extract", "load", "init", "plan", "apply", "save", "return"}
    /\ commit \in Commit \cup {NoCommit} /\ (pc # "idle" => commit \in Commit)
    /\ delivered \in Commit \cup {NoCommit}
    /\ ok \in BOOLEAN /\ informed \in BOOLEAN
    /\ pc # "apply" => plan = NoChange
    /\ pc \in {"idle", "extract", "return"} => file = NoState

\* Between runs everything that terraform has made is known to the stored state,
\* however its runs failed: only a crash, a failed save, a killed terraform and a
\* file that is not terraform's own lose track (cli.go:42).
StateKnowsTarget ==
    pc \in {"idle", "extract", "load", "return"} => objects \subseteq stored.holds \cup lost

\* A run that succeeds leaves exactly what its commit asks for, whatever partly
\* applied commits came before it; only what had been lost may be there besides.
ExactOnSuccess ==
    pc = "return" /\ ok /\ commit \notin Bare =>
        /\ Wanted[commit] \subseteq objects
        /\ objects \subseteq Wanted[commit] \cup lost

\* With any history of failures and any stored or carried state, terraform only
\* moves the target towards its commit and success means that all of it is there.
Promise == INSTANCE TerraformPromise WITH working <- commit
KeepsPromise == Promise!Spec
=============================================================================
