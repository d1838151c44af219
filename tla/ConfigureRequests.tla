------------------------- MODULE ConfigureRequests -------------------------
(***************************************************************************)
(* Requests to configure/git_repository, configure/terraform,              *)
(* configure/git_credential and configure/trusted_pgp_public_key/<name>.   *)
(* Vault asks first whether the entry exists and then calls the handler,   *)
(* which reads, merges and validates before it stores.  Nothing locks the  *)
(* entry.  Entries are independent of each other, so a behaviour is about  *)
(* one of them.                                                            *)
(***************************************************************************)
EXTENDS FiniteSets

CONSTANTS
    Handler,    \* requests at work at once
    Value,      \* values of fields ...
    Unusable,   \* ... and those that a validation refuses
    Empty,      \* the empty string, and what an unset field holds
    Absent,     \* the request does not have the field
    NoEntry,
    Given,      \* what requests give for a field: values, Empty, Absent
    Fault       \* "storage", "crash"

\* The fields a validation looks at, and one that stands for all others.
Field == [git_repository |-> {"git_repo_url", "git_branch_name"},
          terraform      |-> {"terraform_path", "terraform_binary"},
          git_credential |-> {"username", "password"},
          trusted_key    |-> {"public_key"}]

Path   == DOMAIN Field
Stored == Value \cup {Empty}

ASSUME ConfigureAssumption ==
    /\ Empty \notin Value /\ Absent \notin Stored
    /\ Unusable \subseteq Value
    /\ Given \subseteq Stored \cup {Absent}
    /\ \A p \in Path : NoEntry \notin [Field[p] -> Stored \cup {Absent}]

VARIABLES
    path,       \* the entry that this behaviour is about
    entry,      \* what is stored
    hpc, req,   \* where every request is, and its variables
    overtaken   \* requests during which another one has written the entry

vars == <<path, entry, hpc, req, overtaken>>

Config  == [Field[path] -> Stored]
Unset   == [f \in Field[path] |-> Empty]
Request == [given : [Field[path] -> Given] \cup {NoEntry}, config : Config \cup {NoEntry}]
NoRequest == [given |-> NoEntry, config |-> NoEntry]

Init ==
    /\ path \in Path
    /\ entry = NoEntry
    /\ hpc = [h \in Handler |-> "idle"]
    /\ req = [h \in Handler |-> NoRequest]
    /\ overtaken = {}

-----------------------------------------------------------------------------
(* What the handlers compute *)

\* Two backends update field by field, starting from what is stored; two replace
\* the entry by what the request gives.
Merging == path \in {"git_repository", "terraform"}

\* A variant of Provided that takes absent fields for empty ones.
ProvidedAll(config, given) ==
    [f \in Field[path] |-> IF given[f] = Absent THEN Empty ELSE given[f]]

Provided(config, given) ==
    [f \in Field[path] |-> IF given[f] = Absent THEN config[f] ELSE given[f]]

\* Only a create insists on a URL; an empty one is not looked at any further.
ValidRepository(config, creating) ==
    /\ creating => config["git_repo_url"] # Empty
    /\ config["git_repo_url"] \notin Unusable

\* validateTfBinary: a file that can be executed, under its path or in PATH.
ValidBinary(config) == config["terraform_binary"] \notin Unusable

\* filepath.Clean and "..", and the binary; empty values are not looked at.
ValidTerraform(config) == config["terraform_path"] \notin Unusable /\ ValidBinary(config)

ValidCredential(config) == config["username"] # Empty /\ config["password"] # Empty

ValidKey(config) == config["public_key"] \notin Unusable \cup {Empty}

Valid(config, creating) ==
    CASE path = "git_repository" -> ValidRepository(config, creating)
      [] path = "terraform"      -> ValidTerraform(config)
      [] path = "git_credential" -> ValidCredential(config)
      [] path = "trusted_key"    -> ValidKey(config)

-----------------------------------------------------------------------------
Move(h, from, to) == hpc[h] = from /\ hpc' = [hpc EXCEPT ![h] = to]

End(h) ==
    /\ hpc' = [hpc EXCEPT ![h] = "idle"]
    /\ req' = [req EXCEPT ![h] = NoRequest]

\* The rest of the handler once it knows what to start from: the merged
\* configuration is stored next, or refused.
Accept(h, config, creating) ==
    LET merged == Provided(config, req[h].given)
    IN /\ \/ Valid(merged, creating) /\ hpc' = [hpc EXCEPT ![h] = "put"]
                /\ req' = [req EXCEPT ![h].config = merged]
          \/ ~Valid(merged, creating) /\ End(h)
       /\ UNCHANGED <<path, entry, overtaken>>

Arrive(h) ==
    /\ Move(h, "idle", "exists")
    /\ \E given \in [Field[path] -> Given] : req' = [req EXCEPT ![h].given = given]
    /\ overtaken' = overtaken \ {h}
    /\ UNCHANGED <<path, entry>>

\* The existence check makes it a create or an update.  An update of a merged
\* entry reads it once more.
ExistenceCheck(h) ==
    /\ hpc[h] = "exists"
    /\ \/ /\ Merging /\ entry # NoEntry
          /\ Move(h, "exists", "read")
          /\ UNCHANGED <<path, entry, req, overtaken>>
       \/ (Merging => entry = NoEntry) /\ Accept(h, Unset, entry = NoEntry)

\* A variant of ReadExisting that goes on without a configuration.
ReadAnything(h) ==
    /\ hpc[h] = "read"
    /\ Accept(h, IF entry = NoEntry THEN Unset ELSE entry, FALSE)

\* "Configuration does not exist. Use CREATE operation to create it."
ReadExisting(h) ==
    /\ hpc[h] = "read"
    /\ \/ entry = NoEntry /\ End(h) /\ UNCHANGED <<path, entry, overtaken>>
       \/ entry # NoEntry /\ Accept(h, entry, FALSE)

\* Everybody else who is at work with the entry does not know of this write.
Others(h) == {g \in Handler \ {h} : hpc[g] # "idle"}

\* A variant of Put that leaves the request where it is.
PutAgain(h) ==
    /\ hpc[h] = "put"
    /\ entry' = req[h].config
    /\ hpc' = [hpc EXCEPT ![h] = "idle"]
    /\ overtaken' = overtaken \cup Others(h)
    /\ UNCHANGED <<path, req>>

Put(h) ==
    /\ hpc[h] = "put"
    /\ entry' = req[h].config
    /\ End(h)
    /\ overtaken' = overtaken \cup Others(h)
    /\ UNCHANGED path

\* Any of the calls to storage fails: the request ends with an error.
StorageFails(h) ==
    /\ "storage" \in Fault
    /\ hpc[h] # "idle"
    /\ End(h)
    /\ UNCHANGED <<path, entry, overtaken>>

\* A delete request is one call to storage.
Delete ==
    /\ entry' = NoEntry
    /\ overtaken' = overtaken \cup {h \in Handler : hpc[h] # "idle"}
    /\ UNCHANGED <<path, hpc, req>>

Crash ==
    /\ "crash" \in Fault
    /\ hpc' = [h \in Handler |-> "idle"]
    /\ req' = [h \in Handler |-> NoRequest]
    /\ UNCHANGED <<path, entry, overtaken>>

Next ==
    \/ \E h \in Handler :
          Arrive(h) \/ ExistenceCheck(h) \/ ReadExisting(h) \/ Put(h) \/ StorageFails(h)
    \/ Delete \/ Crash

Spec == Init /\ [][Next]_vars

-----------------------------------------------------------------------------
(* Properties *)

\* Every variable has its type, and a request keeps nothing when it is over.
TypeOK ==
    /\ path \in Path
    /\ entry \in Config \cup {NoEntry}
    /\ hpc \in [Handler -> {"idle", "exists", "read", "put"}]
    /\ req \in [Handler -> Request]
    /\ overtaken \subseteq Handler
    /\ \A h \in Handler :
          /\ req[h].given = NoEntry <=> hpc[h] = "idle"
          /\ req[h].config = NoEntry <=> hpc[h] # "put"

\* As long as no request gives an empty URL, a stored git configuration has one,
\* however creates, updates and deletes overlap (git_repository/backend.go:149).
UrlPresent ==
    path = "git_repository" /\ Empty \notin Given /\ entry # NoEntry =>
        entry["git_repo_url"] \in Value \ Unusable

\* A request that no other one has overtaken acts at once: it stores the fields it
\* gives and keeps what was stored in all others, whoever writes or deletes the entry
\* before and after it (git_repository/backend.go:126, terraform/backend.go:107).  It is
\* not about the fields that a create leaves out: their declared defaults are not stored
\* (git_repository/backend.go:61, :66, :134).
ActsAtOnce ==
    [][\A h \in Handler :
          Put(h) /\ h \notin overtaken =>
              \A f \in Field[path] :
                  /\ req[h].given[f] # Absent => entry'[f] = req[h].given[f]
                  /\ req[h].given[f] = Absent /\ Merging /\ entry # NoEntry =>
                        entry'[f] = entry[f]]_vars
=============================================================================
