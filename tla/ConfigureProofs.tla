-------------------------- MODULE ConfigureProofs --------------------------
(***************************************************************************)
(* Proofs about ConfigureRequests: types, the URL of a stored git          *)
(* configuration, and that a request nobody overtakes acts at once, for    *)
(* any number of requests, any values and any failures.                    *)
(***************************************************************************)
EXTENDS ConfigureRequests, TLAPS

\* What a request is about to store, where nobody has written the entry since it
\* was looked at.
Current(h) ==
    h \notin overtaken =>
        /\ hpc[h] = "read" => entry # NoEntry
        /\ hpc[h] = "put" =>
              req[h].config = Provided(IF Merging /\ entry # NoEntry THEN entry ELSE Unset,
                                       req[h].given)

\* What is about to be stored has a usable URL.
UrlReady(h) ==
    path = "git_repository" /\ Empty \notin Given /\ hpc[h] = "put" =>
        req[h].config["git_repo_url"] \in Value \ Unusable

Inv ==
    /\ TypeOK
    /\ UrlPresent
    /\ \A h \in Handler : Current(h) /\ UrlReady(h) /\ (hpc[h] = "read" => Merging)

-----------------------------------------------------------------------------
LEMMA NoEntryApart ==
    ASSUME path \in Path
    PROVE  NoEntry \notin Config /\ NoEntry \notin [Field[path] -> Given]
<1>1. Config \subseteq [Field[path] -> Stored \cup {Absent}]
  BY DEF Config
<1>2. [Field[path] -> Given] \subseteq [Field[path] -> Stored \cup {Absent}]
  BY ConfigureAssumption
<1> QED
  BY <1>1, <1>2, ConfigureAssumption

LEMMA UnsetType == Unset \in Config
BY DEF Unset, Config, Stored

LEMMA ProvidedType ==
    ASSUME NEW config \in Config, NEW given \in [Field[path] -> Given]
    PROVE  Provided(config, given) \in Config
BY ConfigureAssumption DEF Provided, Config

LEMMA UrlField == "git_repo_url" \in Field["git_repository"]
BY DEF Field

\* The URL that a validation lets pass.
LEMMA UrlValid ==
    ASSUME path = "git_repository", Empty \notin Given,
           NEW config \in Config, NEW given \in [Field[path] -> Given], NEW creating \in BOOLEAN,
           Valid(Provided(config, given), creating),
           creating \/ config["git_repo_url"] \in Value \ Unusable
    PROVE  Provided(config, given)["git_repo_url"] \in Value \ Unusable
<1> DEFINE url == Provided(config, given)["git_repo_url"]
<1>1. url = IF given["git_repo_url"] = Absent THEN config["git_repo_url"] ELSE given["git_repo_url"]
  BY UrlField DEF Provided
<1>2. url \in Stored
  BY ProvidedType, UrlField DEF Config
<1>3. ValidRepository(Provided(config, given), creating)
  BY DEF Valid
<1>4. url \notin Unusable /\ (creating => url # Empty)
  BY <1>3 DEF ValidRepository
<1>5. given["git_repo_url"] # Empty
  BY UrlField
<1> QED
  BY <1>1, <1>2, <1>4, <1>5, ConfigureAssumption DEF Stored

-----------------------------------------------------------------------------
LEMMA InitInv == Init => Inv
<1> SUFFICES ASSUME Init PROVE Inv
  OBVIOUS
<1>1. NoRequest \in Request
  BY DEF NoRequest, Request
<1>2. TypeOK
  BY <1>1 DEF Init, TypeOK, NoRequest
<1>3. UrlPresent
  BY DEF Init, UrlPresent
<1>4. ASSUME NEW h \in Handler PROVE Current(h) /\ UrlReady(h) /\ hpc[h] # "read"
  BY DEF Init, Current, UrlReady
<1> QED
  BY <1>2, <1>3, <1>4 DEF Inv

\* A request ends without having written: the others are as they were.
LEMMA EndInv ==
    ASSUME Inv, NEW h \in Handler, End(h), UNCHANGED <<path, entry, overtaken>>
    PROVE  Inv'
<1> USE DEF Inv, End, NoRequest
<1>1. TypeOK'
  BY DEF TypeOK, Request, Config
<1>2. UrlPresent'
  BY DEF UrlPresent
<1>3. ASSUME NEW g \in Handler PROVE (Current(g) /\ UrlReady(g) /\ (hpc[g] = "read" => Merging))'
  BY DEF TypeOK, Current, UrlReady, Merging, Unset, Provided
<1> QED
  BY <1>1, <1>2, <1>3

\* The handler goes on from a configuration that is current if it is not overtaken.
LEMMA AcceptInv ==
    ASSUME Inv, NEW h \in Handler, hpc[h] # "idle",
           NEW config \in Config, NEW creating \in BOOLEAN,
           path = "git_repository" /\ Empty \notin Given =>
               creating \/ config["git_repo_url"] \in Value \ Unusable,
           config = IF Merging /\ entry # NoEntry THEN entry ELSE Unset,
           Accept(h, config, creating)
    PROVE  Inv'
<1> DEFINE merged == Provided(config, req[h].given)
<1>1. req[h].given \in [Field[path] -> Given]
  BY DEF Inv, TypeOK, Request
<1>2. merged \in Config /\ merged # NoEntry
  BY <1>1, ProvidedType, NoEntryApart DEF Inv, TypeOK
<1>3. CASE ~Valid(merged, creating)
  BY <1>3, EndInv DEF Accept
<1>4. CASE Valid(merged, creating)
  <2>1. /\ hpc' = [hpc EXCEPT ![h] = "put"]
        /\ req' = [req EXCEPT ![h].config = merged]
        /\ UNCHANGED <<path, entry, overtaken>>
    BY <1>4 DEF Accept
  <2>2. TypeOK'
    BY <1>2, <2>1 DEF Inv, TypeOK, Request, Config
  <2>3. UrlPresent'
    BY <2>1 DEF Inv, UrlPresent
  <2>4. UrlReady(h)'
    BY <1>1, <1>4, <2>1, UrlValid DEF UrlReady, Inv, TypeOK
  <2>5. Current(h)'
    BY <2>1 DEF Current, Inv, TypeOK, Merging, Unset, Provided
  <2>6. ASSUME NEW g \in Handler, g # h
        PROVE  (Current(g) /\ UrlReady(g) /\ (hpc[g] = "read" => Merging))'
    BY <2>1, <2>6 DEF Inv, TypeOK, Current, UrlReady, Merging, Unset, Provided
  <2>7. (hpc[h] = "read" => Merging)'
    BY <2>1 DEF Inv, TypeOK
  <2> QED
    BY <2>2, <2>3, <2>4, <2>5, <2>6, <2>7 DEF Inv
<1> QED
  BY <1>3, <1>4

-----------------------------------------------------------------------------
LEMMA NextInv == ASSUME Inv, [Next]_vars PROVE Inv'
<1>1. ASSUME NEW h \in Handler, Arrive(h) PROVE Inv'
  <2>1. PICK given \in [Field[path] -> Given] : req' = [req EXCEPT ![h].given = given]
    BY <1>1 DEF Arrive
  <2>2. given # NoEntry
    BY NoEntryApart DEF Inv, TypeOK
  <2>3. TypeOK'
    BY <1>1, <2>1, <2>2 DEF Arrive, Move, Inv, TypeOK, Request, Config
  <2>4. UrlPresent'
    BY <1>1 DEF Arrive, Inv, UrlPresent
  <2>5. hpc'[h] = "exists"
    BY <1>1 DEF Arrive, Move, Inv, TypeOK
  <2>6. ASSUME NEW g \in Handler, g # h
        PROVE  (Current(g) /\ UrlReady(g) /\ (hpc[g] = "read" => Merging))'
    <3>1. hpc'[g] = hpc[g] /\ req'[g] = req[g] /\ (g \in overtaken' <=> g \in overtaken)
      BY <1>1, <2>1, <2>6 DEF Arrive, Move, Inv, TypeOK
    <3>2. path' = path /\ entry' = entry
      BY <1>1 DEF Arrive
    <3>3. Current(g)'
      BY <3>1, <3>2 DEF Inv, Current, Merging, Unset, Provided
    <3>4. (UrlReady(g) /\ (hpc[g] = "read" => Merging))'
      BY <3>1, <3>2 DEF Inv, UrlReady, Merging
    <3> QED
      BY <3>3, <3>4
  <2> QED
    BY <2>3, <2>4, <2>5, <2>6 DEF Inv, Current, UrlReady
<1>2. ASSUME NEW h \in Handler, ExistenceCheck(h) PROVE Inv'
  <2>1. CASE Merging /\ entry # NoEntry /\ Move(h, "exists", "read") /\ UNCHANGED <<path, entry, req, overtaken>>
    <3>1. TypeOK'
      BY <2>1 DEF Move, Inv, TypeOK, Request, Config
    <3>2. UrlPresent'
      BY <2>1 DEF Inv, UrlPresent
    <3>3. ASSUME NEW g \in Handler PROVE (Current(g) /\ UrlReady(g) /\ (hpc[g] = "read" => Merging))'
      BY <2>1 DEF Move, Inv, TypeOK, Current, UrlReady, Merging, Unset, Provided
    <3> QED
      BY <3>1, <3>2, <3>3 DEF Inv
  <2>2. CASE (Merging => entry = NoEntry) /\ Accept(h, Unset, entry = NoEntry)
    <3>1. path = "git_repository" => entry = NoEntry
      BY <2>2 DEF Merging
    <3> QED
      BY <1>2, <2>2, <3>1, AcceptInv, UnsetType DEF ExistenceCheck
  <2> QED
    BY <1>2, <2>1, <2>2 DEF ExistenceCheck
<1>3. ASSUME NEW h \in Handler, ReadExisting(h) PROVE Inv'
  <2>1. CASE entry = NoEntry
    BY <1>3, <2>1, EndInv DEF ReadExisting
  <2>2. CASE entry # NoEntry
    <3>1. entry \in Config /\ Merging
      BY <1>3, <2>2 DEF ReadExisting, Inv, TypeOK
    <3>2. path = "git_repository" /\ Empty \notin Given => entry["git_repo_url"] \in Value \ Unusable
      BY <2>2 DEF Inv, UrlPresent
    <3> QED
      BY <1>3, <2>2, <3>1, <3>2, AcceptInv DEF ReadExisting
  <2> QED
    BY <2>1, <2>2
<1>4. ASSUME NEW h \in Handler, Put(h) PROVE Inv'
  <2>1. /\ hpc[h] = "put" /\ entry' = req[h].config /\ path' = path
        /\ hpc' = [hpc EXCEPT ![h] = "idle"] /\ req' = [req EXCEPT ![h] = NoRequest]
        /\ overtaken' = overtaken \cup Others(h)
    BY <1>4 DEF Put, End
  <2>2. TypeOK'
    BY <2>1 DEF Inv, TypeOK, Request, Config, NoRequest, Others
  <2>3. UrlPresent'
    BY <2>1 DEF Inv, UrlPresent, UrlReady
  <2>4. ASSUME NEW g \in Handler PROVE (Current(g) /\ UrlReady(g) /\ (hpc[g] = "read" => Merging))'
    <3>1. (hpc[g] # "idle")' => g \in overtaken' /\ hpc'[g] = hpc[g] /\ req'[g] = req[g]
      BY <2>1 DEF Inv, TypeOK, Others
    <3> QED
      BY <2>1, <3>1 DEF Inv, TypeOK, Current, UrlReady, Merging
  <2> QED
    BY <2>2, <2>3, <2>4 DEF Inv
<1>5. ASSUME NEW h \in Handler, StorageFails(h) PROVE Inv'
  BY <1>5, EndInv DEF StorageFails
<1>6. CASE Delete
  <2>1. TypeOK'
    BY <1>6 DEF Delete, Inv, TypeOK, Request, Config
  <2>2. UrlPresent'
    BY <1>6 DEF Delete, UrlPresent
  <2>3. ASSUME NEW g \in Handler PROVE (Current(g) /\ UrlReady(g) /\ (hpc[g] = "read" => Merging))'
    BY <1>6 DEF Delete, Inv, Current, UrlReady, Merging
  <2> QED
    BY <2>1, <2>2, <2>3 DEF Inv
<1>7. CASE Crash
  <2>1. TypeOK'
    BY <1>7 DEF Crash, Inv, TypeOK, Request, Config, NoRequest
  <2>2. UrlPresent'
    BY <1>7 DEF Crash, Inv, UrlPresent
  <2>3. ASSUME NEW g \in Handler PROVE (Current(g) /\ UrlReady(g) /\ (hpc[g] = "read" => Merging))'
    BY <1>7 DEF Crash, Current, UrlReady
  <2> QED
    BY <2>1, <2>2, <2>3 DEF Inv
<1>8. CASE UNCHANGED vars
  <2>1. TypeOK' /\ UrlPresent'
    BY <1>8 DEF vars, Inv, TypeOK, UrlPresent, Request, Config
  <2>2. ASSUME NEW g \in Handler PROVE (Current(g) /\ UrlReady(g) /\ (hpc[g] = "read" => Merging))'
    BY <1>8 DEF vars, Inv, Current, UrlReady, Merging, Unset, Provided
  <2> QED
    BY <2>1, <2>2 DEF Inv
<1> QED
  BY <1>1, <1>2, <1>3, <1>4, <1>5, <1>6, <1>7, <1>8 DEF Next

\* Types, the URL and what requests at work know of the entry, for any number of
\* overlapping requests (git_repository/backend.go:111-167).
THEOREM InvCorrect == Spec => []Inv
<1>1. Init => Inv
  BY InitInv
<1>2. Inv /\ [Next]_vars => Inv'
  BY NextInv
<1> QED
  BY <1>1, <1>2, PTL DEF Spec

\* TypeOK for all instances: what ends, by an error, a refusal or a crash, leaves
\* nothing of its request behind.
THEOREM ConfigureTypeCorrect == Spec => []TypeOK
<1>1. Inv => TypeOK
  BY DEF Inv
<1> QED
  BY <1>1, InvCorrect, PTL

\* A stored git configuration has a URL, for any number of overlapping requests.
THEOREM UrlCorrect == Spec => []UrlPresent
<1>1. Inv => UrlPresent
  BY DEF Inv
<1> QED
  BY <1>1, InvCorrect, PTL

\* A request that is not overtaken stores the fields it gives, and what was there in the
\* others when it merges (git_repository/backend.go:126, terraform/backend.go:107).
THEOREM AtOnceCorrect == Spec => ActsAtOnce
<1>1. Inv /\ [Next]_vars =>
        [\A h \in Handler :
            Put(h) /\ h \notin overtaken =>
              \A f \in Field[path] :
                  /\ req[h].given[f] # Absent => entry'[f] = req[h].given[f]
                  /\ req[h].given[f] = Absent /\ Merging /\ entry # NoEntry =>
                        entry'[f] = entry[f]]_vars
  <2> SUFFICES ASSUME Inv, NEW h \in Handler, Put(h), h \notin overtaken, NEW f \in Field[path]
               PROVE  /\ req[h].given[f] # Absent => entry'[f] = req[h].given[f]
                      /\ req[h].given[f] = Absent /\ Merging /\ entry # NoEntry =>
                            entry'[f] = entry[f]
    OBVIOUS
  <2>1. entry' = Provided(IF Merging /\ entry # NoEntry THEN entry ELSE Unset, req[h].given)
    BY DEF Inv, Current, Put
  <2> QED
    BY <2>1 DEF Provided
<1> QED
  BY <1>1, InvCorrect, PTL DEF Spec, ActsAtOnce
=============================================================================
