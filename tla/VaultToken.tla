----------------------------- MODULE VaultToken -----------------------------
(***************************************************************************)
(* The token with which the plugin works on the target Vault: requests to  *)
(* configure/vault (pkg/vault_client/backend.go), which store, rotate and  *)
(* revoke tokens, and the goroutine that every PeriodicTask starts to keep *)
(* the stored token renewed (backend.go).  Calls to storage and to Vault   *)
(* are steps of their own.  Time goes in half days.                        *)
(***************************************************************************)
EXTENDS Integers, FiniteSets

CONSTANTS
    Token,      \* tokens of the target Vault
    NoToken,    \* the empty vault_token
    None,       \* no configuration entry, no cached TTL, a field not given
    Handler,    \* requests to configure/vault at work at once
    Checker,    \* token checks at work at once
    Periods,    \* periods of the tokens that operators issue
    Requests,   \* kinds of requests that operators make
    Fault       \* which failures happen: "storage", "vault", "crash"

OneDay == 2     \* the 24 hours before expiry

ASSUME TokenAssumption == /\ NoToken \notin Token
                          /\ None \notin Token \cup {NoToken} \cup Int
                          /\ IsFiniteSet(Token)
                          /\ Periods \subseteq Nat /\ \A n \in Periods : n > OneDay

VARIABLES
    life,       \* whether a token is "unborn", "live" or "dead"
    period,     \* its period
    left,       \* the time until it expires
    entry,      \* the token in the stored configuration
    cache,      \* vaultTokenTTL: the time until its ExpireTime
    checked,    \* a check has ended without an error in this half day
    excused,    \* ghost: the stored token may not be the one whose TTL is cached
    hpc, req,   \* where every request is, and its variables
    cpc, using  \* where every check is, and the token it works with

tokens   == <<life, period, left>>
stored   == <<entry, excused>>
requests == <<hpc, req>>
checks   == <<cpc, using>>
vars     == <<tokens, stored, cache, checked, requests, checks>>

MaybeToken == Token \cup {NoToken}
Request == [given  : MaybeToken \cup {None},   \* vault_token, or what wrapping_token unwraps to
            rotate : BOOLEAN,       \* vault_token_rotate
            create : BOOLEAN,       \* the framework found no entry
            token  : MaybeToken,    \* config.VaultToken
            old    : MaybeToken,    \* oldToken
            sees   : BOOLEAN]       \* ghost: the stored token is still the one it read
NoRequest == [given |-> None, rotate |-> FALSE, create |-> FALSE,
              token |-> NoToken, old |-> NoToken, sees |-> TRUE]

Unborn == {t \in Token : life[t] = "unborn"}

Init ==
    /\ \E t \in Token, n \in Periods :
          \E m \in 1..n :
            /\ entry \in {t, None}
            /\ life = [u \in Token |-> IF u = entry THEN "live" ELSE "unborn"]
            /\ period = [u \in Token |-> IF u = entry THEN n ELSE 0]
            /\ left = [u \in Token |-> IF u = entry THEN m ELSE 0]
    /\ cache = None
    /\ checked = FALSE /\ excused = FALSE
    /\ hpc = [h \in Handler |-> "idle"] /\ req = [h \in Handler |-> NoRequest]
    /\ cpc = [k \in Checker |-> "idle"] /\ using = [k \in Checker |-> NoToken]

-----------------------------------------------------------------------------
(* Requests: pathConfigureCreateOrUpdate and pathConfigureDelete *)

Move(h, from, to) == hpc[h] = from /\ hpc' = [hpc EXCEPT ![h] = to]

EndRequest(h, from) == Move(h, from, "idle") /\ req' = [req EXCEPT ![h] = NoRequest]

\* A token comes into being with its period, live for m more half days.
Issue(t, n, m) ==
    /\ t \in Unborn
    /\ life' = [life EXCEPT ![t] = "live"]
    /\ period' = [period EXCEPT ![t] = n]
    /\ left' = [left EXCEPT ![t] = m]

\* A request comes in that gives no token, or an empty one.  Bound: one unborn
\* token stays in reserve for every request.
Arrive(h, given, rotate) ==
    /\ Cardinality(Unborn) >= Cardinality(Handler)
    /\ Move(h, "idle", "load")
    /\ req' = [req EXCEPT ![h] = [NoRequest EXCEPT !.given = given, !.rotate = rotate,
                                                    !.create = (entry = None)]]
    /\ UNCHANGED <<tokens, stored, cache, checked, checks>>

\* A request comes in with a token that has been issued for it.
ArriveWith(h, rotate) ==
    /\ Cardinality(Unborn) > Cardinality(Handler)
    /\ Move(h, "idle", "load")
    /\ \E t \in Token, n \in Periods :
          \E m \in 1..n :
            /\ Issue(t, n, m)
            /\ req' = [req EXCEPT ![h] = [NoRequest EXCEPT !.given = t, !.rotate = rotate,
                                                            !.create = (entry = None)]]
    /\ UNCHANGED <<stored, cache, checked, checks>>

Begin(h) ==
    \E kind \in Requests :
        \/ kind \in {"update", "rotate"} /\ Arrive(h, None, kind = "rotate")
        \/ kind = "clear" /\ \E rotate \in BOOLEAN : Arrive(h, NoToken, rotate)
        \/ kind \in {"set", "replace"} /\ ArriveWith(h, kind = "replace")

\* Variants of Load: one keeps the token of an existing configuration only when the
\* request rotates it, one rotates a token that is not there.
LoadForgetting(h) ==
    LET Chosen(t) == IF req[h].given # None THEN req[h].given ELSE t
        t == Chosen(IF req[h].create \/ entry = None \/ ~req[h].rotate THEN NoToken ELSE entry)
    IN /\ Move(h, "load", IF req[h].rotate /\ t # NoToken THEN "orphan" ELSE "put")
       /\ req' = [req EXCEPT ![h].token = t, ![h].old = IF req[h].rotate THEN t ELSE NoToken]
       /\ UNCHANGED <<tokens, stored, cache, checked, checks>>
LoadRotating(h) ==
    LET existing == IF req[h].create \/ entry = None THEN NoToken ELSE entry
        t == IF req[h].given # None THEN req[h].given ELSE existing
    IN /\ Move(h, "load", IF req[h].rotate THEN "orphan" ELSE "put")
       /\ req' = [req EXCEPT ![h].token = t, ![h].old = IF req[h].rotate THEN t ELSE NoToken]
       /\ UNCHANGED <<tokens, stored, cache, checked, checks>>

\* The existing configuration is read, an error of which is dropped, and decides
\* the token when the request does not give one.  An empty token is given, too.
Load(h) ==
    LET existing == IF req[h].create \/ entry = None THEN NoToken ELSE entry
        Chosen(t) == IF req[h].given # None THEN req[h].given ELSE t
    IN \E t \in {existing} \cup (IF "storage" \in Fault THEN {NoToken} ELSE {}) :
          /\ Move(h, "load",
                  IF req[h].rotate /\ Chosen(t) # NoToken THEN "orphan" ELSE "put")
          /\ req' = [req EXCEPT ![h].token = Chosen(t),
                                ![h].old = IF req[h].rotate THEN Chosen(t) ELSE NoToken,
                                ![h].sees = (t = entry \/ entry \notin Token)]
          /\ UNCHANGED <<tokens, stored, cache, checked, checks>>

\* A wrapping token cannot be unwrapped.
UnwrapFails(h) ==
    /\ "vault" \in Fault /\ req[h].given # None
    /\ EndRequest(h, "load")
    /\ UNCHANGED <<tokens, stored, cache, checked, checks>>

\* A variant of CreateOrphan that revokes the old token before the new one is saved.
CreateOrphanRevoking(h) ==
    /\ hpc[h] = "orphan" /\ life[req[h].old] = "live"
    /\ Move(h, "orphan", "put")
    /\ \E t \in Unborn :
          /\ life' = [life EXCEPT ![t] = "live", ![req[h].old] = "dead"]
          /\ period' = [period EXCEPT ![t] = period[req[h].old]]
          /\ left' = [left EXCEPT ![t] = period[req[h].old]]
          /\ req' = [req EXCEPT ![h].token = t]
    /\ UNCHANGED <<stored, cache, checked, checks>>

\* createOrphanToken: lookup-self and create-orphan with the same period.
CreateOrphan(h) ==
    /\ hpc[h] = "orphan" /\ life[req[h].old] = "live"
    /\ Move(h, "orphan", "put")
    /\ \E t \in Unborn :
          /\ Issue(t, period[req[h].old], period[req[h].old])
          /\ req' = [req EXCEPT ![h].token = t]
    /\ UNCHANGED <<stored, cache, checked, checks>>

CreateOrphanFails(h) ==
    /\ hpc[h] = "orphan"
    /\ life[req[h].old] # "live" \/ "vault" \in Fault
    /\ EndRequest(h, "orphan")
    /\ UNCHANGED <<tokens, stored, cache, checked, checks>>

\* The other requests at work on what request h replaces no longer see what is stored.
Overtake(h, value) ==
    [g \in Handler |-> IF g # h /\ hpc[g] # "idle" /\ value # entry
                       THEN [req[g] EXCEPT !.sees = FALSE] ELSE req[g]]

\* The plugin knows of no token, and no check is about to tell it of one.
KnowsNothing == cache = None /\ \A k \in Checker : cpc[k] = "idle"

PutConfiguration(h) ==
    LET next == IF req[h].old # NoToken THEN "revoke" ELSE "idle"
    IN /\ Move(h, "put", next)
       /\ entry' = req[h].token
       /\ excused' = IF req[h].given \in Token THEN ~KnowsNothing ELSE excused \/ ~req[h].sees
       /\ req' = [Overtake(h, req[h].token) EXCEPT ![h] = IF next = "idle" THEN NoRequest ELSE @]
       /\ checked' = FALSE
       /\ UNCHANGED <<tokens, cache, checks>>

PutFails(h) ==
    /\ "storage" \in Fault
    /\ EndRequest(h, "put")
    /\ UNCHANGED <<tokens, stored, cache, checked, checks>>

\* revokeTokenSelf, whose error is only logged.
RevokeOld(h) ==
    /\ EndRequest(h, "revoke")
    /\ \/ life' = [life EXCEPT ![req[h].old] = "dead"]
       \/ "vault" \in Fault /\ UNCHANGED life
    /\ UNCHANGED <<period, left, stored, cache, checked, checks>>

DeleteConfiguration ==
    /\ "delete" \in Requests
    /\ entry' = None /\ excused' = FALSE
    /\ req' = [h \in Handler |-> IF hpc[h] # "idle" THEN [req[h] EXCEPT !.sees = FALSE] ELSE req[h]]
    /\ UNCHANGED <<tokens, cache, checked, hpc, checks>>

-----------------------------------------------------------------------------
(* Checks: checkAndUpdateVaultTokenExpireTime *)

Step(k, from, to) == cpc[k] = from /\ cpc' = [cpc EXCEPT ![k] = to]

EndCheck(k, from) == Step(k, from, "idle") /\ using' = [using EXCEPT ![k] = NoToken]

\* GetValidConfig: without a token, or without storage, the check ends at once.
CheckConfig(k) ==
    /\ entry \in Token
    /\ Step(k, "idle", "cache")
    /\ using' = [using EXCEPT ![k] = entry]
    /\ UNCHANGED <<tokens, stored, cache, checked, requests>>

\* The token is looked up when nothing is known of it, and renewed in its last
\* day; one that has expired already is left alone.
ReadCache(k) ==
    \/ /\ cache = None
       /\ Step(k, "cache", "reload")
       /\ UNCHANGED <<tokens, stored, cache, checked, requests, using>>
    \/ /\ cache \in 0..(OneDay - 1)
       /\ Step(k, "cache", "renew")
       /\ UNCHANGED <<tokens, stored, cache, checked, requests, using>>
    \/ /\ cache # None /\ cache \notin 0..(OneDay - 1)
       /\ EndCheck(k, "cache")
       /\ checked' = TRUE
       /\ UNCHANGED <<tokens, stored, cache, requests>>

\* initializeVaultTokenTTL reads the configuration again.
Reload(k) ==
    \/ /\ entry \in Token
       /\ Step(k, "reload", "renew")
       /\ using' = [using EXCEPT ![k] = entry]
       /\ UNCHANGED <<tokens, stored, cache, checked, requests>>
    \/ /\ entry \notin Token \/ "storage" \in Fault
       /\ EndCheck(k, "reload")
       /\ UNCHANGED <<tokens, stored, cache, checked, requests>>

\* LookupTokenSelf and RenewTokenSelf both renew the token and its TTL is kept.
Renew(k) ==
    /\ cpc[k] = "renew" /\ life[using[k]] = "live"
    /\ EndCheck(k, "renew")
    /\ left' = [left EXCEPT ![using[k]] = period[using[k]]]
    /\ cache' = period[using[k]]
    /\ checked' = TRUE
    /\ UNCHANGED <<life, period, stored, requests>>

RenewFails(k) ==
    /\ cpc[k] = "renew"
    /\ life[using[k]] # "live" \/ "vault" \in Fault
    /\ EndCheck(k, "renew")
    /\ UNCHANGED <<tokens, stored, cache, checked, requests>>

-----------------------------------------------------------------------------
\* Half a day goes by.  Calls to Vault time out after seconds and PeriodicTask is
\* called every minute: nothing is under way for so long, and the stored token
\* has been checked, without an error, since the last time, since it was stored
\* and since the plugin was started.
Advance ==
    /\ \A h \in Handler : hpc[h] = "idle"
    /\ \A k \in Checker : cpc[k] = "idle"
    /\ checked \/ entry \notin Token
    /\ left' = [t \in Token |-> IF life[t] = "live" THEN left[t] - 1 ELSE left[t]]
    /\ life' = [t \in Token |-> IF life[t] = "live" /\ left[t] = 1 THEN "dead" ELSE life[t]]
    /\ cache' = IF cache = None \/ cache = -1 THEN cache ELSE cache - 1
    /\ checked' = FALSE
    /\ UNCHANGED <<period, stored, requests, checks>>

\* The plugin process ends: requests, checks and the cached TTL are gone.
Crash ==
    /\ "crash" \in Fault
    /\ hpc' = [h \in Handler |-> "idle"] /\ req' = [h \in Handler |-> NoRequest]
    /\ cpc' = [k \in Checker |-> "idle"] /\ using' = [k \in Checker |-> NoToken]
    /\ cache' = None /\ checked' = FALSE
    /\ UNCHANGED <<tokens, stored>>

Serve(h) ==
    \/ Begin(h) \/ Load(h) \/ UnwrapFails(h) \/ CreateOrphan(h) \/ CreateOrphanFails(h)
    \/ PutConfiguration(h) \/ PutFails(h) \/ RevokeOld(h)

Check(k) == CheckConfig(k) \/ ReadCache(k) \/ Reload(k) \/ Renew(k) \/ RenewFails(k)

Next ==
    \/ \E h \in Handler : Serve(h)
    \/ \E k \in Checker : Check(k)
    \/ DeleteConfiguration \/ Advance \/ Crash

Spec == Init /\ [][Next]_vars

-----------------------------------------------------------------------------
(* Properties *)

\* Every variable has its type; a request that rotates has a token to rotate.
TypeOK ==
    /\ life \in [Token -> {"unborn", "live", "dead"}]
    /\ period \in [Token -> Periods \cup {0}]
    /\ left \in [Token -> Nat]
    /\ entry \in MaybeToken \cup {None}
    /\ cache \in {None, -1} \cup Nat
    /\ checked \in BOOLEAN /\ excused \in BOOLEAN
    /\ hpc \in [Handler -> {"idle", "load", "orphan", "put", "revoke"}]
    /\ req \in [Handler -> Request]
    /\ cpc \in [Checker -> {"idle", "cache", "reload", "renew"}]
    /\ using \in [Checker -> MaybeToken]
    /\ \A h \in Handler : hpc[h] \in {"orphan", "revoke"} => req[h].old \in Token
    /\ \A k \in Checker : cpc[k] = "renew" => using[k] \in Token

\* The token in the configuration is neither expired nor revoked, at any moment
\* of a rotation, a renewal or a restart, of several requests and checks, unless
\* it was given while the TTL of another was cached, or a request that read the
\* configuration before another changed it has put back what it read
\* (README.md:12, vault_client/backend.go:180).
StoredTokenLive == entry \in Token /\ ~excused => life[entry] = "live"

\* The same of every stored token, as the README has it: "automatically renewed".
TokenNeverExpires == entry \in Token => life[entry] = "live"

\* A stored token is replaced by a token or deleted with its configuration; it is
\* lost only to a request that gives an empty one, that could not read it, or that
\* read the configuration before it was there (vault_client/backend.go:123, :147).
TokenPreserved ==
    [][(entry \in Token /\ entry' = NoToken) =>
          \E h \in Handler : /\ hpc[h] = "put" /\ hpc'[h] = "idle"
                             /\ ~req[h].sees \/ req[h].given = NoToken]_vars
=============================================================================
