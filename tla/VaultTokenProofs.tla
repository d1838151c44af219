-------------------------- MODULE VaultTokenProofs --------------------------
(***************************************************************************)
(* Proofs about VaultToken for any number of requests, checks and tokens,  *)
(* every choice of periods and every choice of requests and failures.      *)
(***************************************************************************)
EXTENDS VaultToken, TLAPS

Labels == {"idle", "load", "orphan", "put", "revoke"}

\* The types; a check works with a token, and a request has what its step uses.
TokenTypes ==
    /\ life \in [Token -> {"unborn", "live", "dead"}]
    /\ period \in [Token -> Periods \cup {0}]
    /\ left \in [Token -> Nat]

RequestTypes ==
    /\ hpc \in [Handler -> Labels]
    /\ req \in [Handler -> Request]
    /\ \A h \in Handler : hpc[h] \in {"orphan", "revoke"} => req[h].old \in Token
    /\ \A h \in Handler : hpc[h] = "put" /\ req[h].old # NoToken => req[h].token \in Token
    /\ \A h \in Handler :
          hpc[h] \in {"orphan", "put"} /\ req[h].given = NoToken => req[h].old = NoToken

CheckTypes ==
    /\ cpc \in [Checker -> {"idle", "cache", "reload", "renew"}]
    /\ using \in [Checker -> MaybeToken]
    /\ \A k \in Checker : cpc[k] # "idle" => using[k] \in Token

OtherTypes ==
    /\ entry \in MaybeToken \cup {None}
    /\ cache \in {None, -1} \cup Nat
    /\ checked \in BOOLEAN /\ excused \in BOOLEAN

\* A token has its period from birth, and time left while it lives.
TokensOK ==
    \A t \in Token :
        /\ life[t] # "unborn" => period[t] \in Periods /\ left[t] <= period[t]
        /\ life[t] = "live" => left[t] >= 1

\* Only tokens that have been issued are known to anybody.
BornOK ==
    \A t \in Unborn :
        /\ t # entry
        /\ \A h \in Handler : t \notin {req[h].given, req[h].token, req[h].old}
        /\ \A k \in Checker : using[k] # t

\* The tokens that a request alone knows: the one it was given and the orphan it
\* has created, until it stores them.
Owns(h) ==
    {t \in Token : \/ hpc[h] \in {"load", "orphan", "put"} /\ t = req[h].given
                   \/ hpc[h] = "put" /\ req[h].old # NoToken /\ t = req[h].token}

OwnsOK ==
    \A h \in Handler : \A t \in Owns(h) :
        /\ life[t] = "live" /\ t # entry
        /\ \A g \in Handler \ {h} : t \notin Owns(g) \cup {req[g].old, req[g].token}

\* What a request is about to store.
PutOK ==
    \A h \in Handler : hpc[h] = "put" =>
        /\ req[h].old # NoToken =>
              /\ req[h].old \in Token /\ req[h].token # req[h].old
              /\ left[req[h].token] = period[req[h].old]
              /\ period[req[h].token] = period[req[h].old]
        /\ req[h].old = NoToken /\ req[h].given # None => req[h].token = req[h].given

\* A request that has read the configuration and has not been overtaken works with
\* the token that is stored.
SeesOK ==
    \A h \in Handler :
        hpc[h] \in {"orphan", "put"} /\ req[h].sees /\ req[h].given = None =>
            LET read == IF req[h].old # NoToken THEN req[h].old ELSE req[h].token
            IN read = IF entry \in Token THEN entry ELSE NoToken

\* What is known of the stored token, unless it is excused: the cached TTL does not
\* exceed it, no check makes it exceed it, and nobody is about to revoke it.
Tracked ==
    /\ life[entry] = "live"
    /\ cache # None => 1 <= cache /\ cache <= left[entry]
    /\ checked => cache # None /\ OneDay <= cache
    /\ \A k \in Checker :
          cpc[k] # "idle" => using[k] = entry \/ period[using[k]] <= left[entry]
    /\ \A h \in Handler : hpc[h] = "revoke" => req[h].old # entry

TrackOK == entry \in Token /\ ~excused => Tracked

IType == TokenTypes /\ RequestTypes /\ CheckTypes /\ OtherTypes
Rest  == TokensOK /\ BornOK /\ OwnsOK /\ PutOK /\ SeesOK /\ TrackOK
IInv  == IType /\ Rest

-----------------------------------------------------------------------------
(* Types *)

LEMMA NoRequestType == NoRequest \in Request
BY DEF NoRequest, Request, MaybeToken

LEMMA TypeParts == IType => TypeOK
BY DEF IType, TypeOK, TokenTypes, RequestTypes, CheckTypes, OtherTypes, Labels

LEMMA InitType == Init => IType
<1> SUFFICES ASSUME Init PROVE IType
  OBVIOUS
<1>1. PICK t \in Token, n \in Periods :
          \E m \in 1..n :
            /\ entry \in {t, None}
            /\ life = [u \in Token |-> IF u = entry THEN "live" ELSE "unborn"]
            /\ period = [u \in Token |-> IF u = entry THEN n ELSE 0]
            /\ left = [u \in Token |-> IF u = entry THEN m ELSE 0]
  BY DEF Init
<1>2. /\ life \in [Token -> {"unborn", "live", "dead"}]
      /\ period \in [Token -> Periods \cup {0}]
      /\ left \in [Token -> Nat]
      /\ entry \in MaybeToken \cup {None}
  BY <1>1 DEF MaybeToken
<1>3. /\ hpc = [h \in Handler |-> "idle"] /\ req = [h \in Handler |-> NoRequest]
      /\ cpc = [k \in Checker |-> "idle"] /\ using = [k \in Checker |-> NoToken]
      /\ cache = None /\ checked = FALSE /\ excused = FALSE
  BY DEF Init
<1>4. TokenTypes /\ RequestTypes /\ CheckTypes /\ OtherTypes
  BY <1>2, <1>3, NoRequestType
     DEF TokenTypes, RequestTypes, CheckTypes, OtherTypes, Labels, MaybeToken
<1> QED
  BY <1>4 DEF IType

-----------------------------------------------------------------------------
(* What the steps do, field by field *)

\* Only request h moves, and the rest of req stays.
OnlyMoves(h) ==
    /\ hpc' \in [Handler -> Labels] /\ req' \in [Handler -> Request]
    /\ \A g \in Handler \ {h} : hpc'[g] = hpc[g] /\ req'[g] = req[g]

LEMMA ArriveEffect ==
    ASSUME TypeOK, NEW h \in Handler, NEW given \in {None, NoToken}, NEW rotate \in BOOLEAN,
           Arrive(h, given, rotate)
    PROVE  /\ OnlyMoves(h) /\ hpc[h] = "idle" /\ hpc'[h] = "load"
           /\ req'[h].given = given /\ req'[h].token = NoToken /\ req'[h].old = NoToken
<1>1. [NoRequest EXCEPT !.given = given, !.rotate = rotate, !.create = (entry = None)] \in Request
  BY NoRequestType DEF NoRequest, Request, MaybeToken
<1> QED
  BY <1>1 DEF TypeOK, OnlyMoves, Labels, Arrive, Move, NoRequest

LEMMA ArriveWithEffect ==
    ASSUME TypeOK, NEW h \in Handler, NEW rotate \in BOOLEAN, ArriveWith(h, rotate)
    PROVE  \E t \in Token, n \in Periods : \E m \in 1..n :
             /\ Issue(t, n, m)
             /\ OnlyMoves(h) /\ hpc[h] = "idle" /\ hpc'[h] = "load"
             /\ req'[h].given = t /\ req'[h].token = NoToken /\ req'[h].old = NoToken
<1>1. PICK t \in Token, n \in Periods :
          \E m \in 1..n :
              /\ Issue(t, n, m)
              /\ req' = [req EXCEPT ![h] = [NoRequest EXCEPT !.given = t, !.rotate = rotate,
                                                              !.create = (entry = None)]]
  BY DEF ArriveWith
<1>2. [NoRequest EXCEPT !.given = t, !.rotate = rotate, !.create = (entry = None)] \in Request
  BY NoRequestType DEF NoRequest, Request, MaybeToken
<1> DEFINE r == [NoRequest EXCEPT !.given = t, !.rotate = rotate, !.create = (entry = None)]
<1>3. req' = [req EXCEPT ![h] = r] /\ r.given = t /\ r.token = NoToken /\ r.old = NoToken
  BY <1>1 DEF NoRequest
<1>4. hpc[h] = "idle" /\ hpc' = [hpc EXCEPT ![h] = "load"]
  BY DEF ArriveWith, Move
<1>5. /\ OnlyMoves(h) /\ hpc[h] = "idle" /\ hpc'[h] = "load"
      /\ req'[h].given = t /\ req'[h].token = NoToken /\ req'[h].old = NoToken
  <2> HIDE DEF r
  <2> QED
    BY <1>2, <1>3, <1>4 DEF TypeOK, OnlyMoves, Labels, r
<1> QED
  BY <1>1, <1>5

\* What Load takes for its token, and what it says of the stored one.
Loaded(h) ==
    LET t == req'[h].token
    IN /\ t \in {req[h].given, entry, NoToken} \cap MaybeToken
       /\ req'[h].given = req[h].given
       /\ req[h].given # None => t = req[h].given
       /\ req'[h].old = IF req[h].rotate THEN t ELSE NoToken
       /\ hpc'[h] = IF req[h].rotate /\ t # NoToken THEN "orphan" ELSE "put"
       /\ req[h].given = None /\ req'[h].sees =>
             t = IF entry \in Token THEN entry ELSE NoToken

LEMMA LoadEffect ==
    ASSUME TypeOK, NEW h \in Handler, Load(h)
    PROVE  OnlyMoves(h) /\ hpc[h] = "load" /\ Loaded(h)
<1> DEFINE existing == IF req[h].create \/ entry = None THEN NoToken ELSE entry
           Chosen(t) == IF req[h].given # None THEN req[h].given ELSE t
<1>1. PICK t \in {existing, NoToken} :
          /\ Move(h, "load", IF req[h].rotate /\ Chosen(t) # NoToken THEN "orphan" ELSE "put")
          /\ req' = [req EXCEPT ![h].token = Chosen(t),
                                ![h].old = IF req[h].rotate THEN Chosen(t) ELSE NoToken,
                                ![h].sees = (t = entry \/ entry \notin Token)]
  BY DEF Load
<1>2. req[h] \in Request /\ existing \in MaybeToken /\ Chosen(t) \in MaybeToken
  BY <1>1 DEF TypeOK, MaybeToken, Request
<1> DEFINE old == IF req[h].rotate THEN Chosen(t) ELSE NoToken
           sees == (t = entry \/ entry \notin Token)
<1>3. old \in MaybeToken /\ sees \in BOOLEAN
  BY <1>2 DEF MaybeToken
<1>4. [req[h] EXCEPT !.token = Chosen(t), !.old = old, !.sees = sees] \in Request
  BY <1>2, <1>3 DEF Request
<1>5. req' = [req EXCEPT ![h] = [req[h] EXCEPT !.token = Chosen(t), !.old = old, !.sees = sees]]
  BY <1>1 DEF TypeOK
<1>6. OnlyMoves(h) /\ hpc[h] = "load"
  BY <1>1, <1>4, <1>5 DEF TypeOK, OnlyMoves, Labels, Move
<1>7. /\ req'[h].token = Chosen(t) /\ req'[h].old = old /\ req'[h].sees = sees
      /\ req'[h].given = req[h].given
  BY <1>2, <1>5 DEF TypeOK, Request
<1>8. hpc'[h] = IF req[h].rotate /\ Chosen(t) # NoToken THEN "orphan" ELSE "put"
  BY <1>1 DEF TypeOK, Move
<1>9. req[h].given = None /\ sees => t = IF entry \in Token THEN entry ELSE NoToken
  <2>1. CASE entry \in Token
    BY <2>1
  <2>2. CASE entry \notin Token
    BY <1>1, <2>2 DEF TypeOK, MaybeToken
  <2> QED
    BY <2>1, <2>2
<1>10. Chosen(t) \in {req[h].given, entry, NoToken}
  BY <1>1
<1> QED
  BY <1>2, <1>6, <1>7, <1>8, <1>9, <1>10 DEF Loaded

LEMMA EndEffect ==
    ASSUME TypeOK, NEW h \in Handler, NEW l, EndRequest(h, l)
    PROVE  OnlyMoves(h) /\ hpc[h] = l /\ hpc'[h] = "idle" /\ req'[h] = NoRequest
BY NoRequestType DEF TypeOK, OnlyMoves, Labels, EndRequest, Move

LEMMA CreateOrphanEffect ==
    ASSUME TypeOK, NEW h \in Handler, CreateOrphan(h)
    PROVE  \E t \in Unborn :
             /\ Issue(t, period[req[h].old], period[req[h].old])
             /\ OnlyMoves(h) /\ hpc[h] = "orphan" /\ hpc'[h] = "put"
             /\ req'[h].given = req[h].given /\ req'[h].old = req[h].old
             /\ req'[h].token = t /\ req'[h].sees = req[h].sees
<1>1. PICK t \in Unborn :
          /\ Issue(t, period[req[h].old], period[req[h].old])
          /\ req' = [req EXCEPT ![h].token = t]
  BY DEF CreateOrphan
<1>2. req[h] \in Request /\ t \in MaybeToken
  BY DEF TypeOK, Unborn, MaybeToken
<1>3. [req[h] EXCEPT !.token = t] \in Request
  BY <1>2 DEF Request
<1>4. req' = [req EXCEPT ![h] = [req[h] EXCEPT !.token = t]]
  BY <1>1 DEF TypeOK
<1>5. OnlyMoves(h) /\ hpc[h] = "orphan" /\ hpc'[h] = "put"
  BY <1>3, <1>4 DEF TypeOK, OnlyMoves, Labels, Move, CreateOrphan
<1>6. /\ req'[h].given = req[h].given /\ req'[h].old = req[h].old
      /\ req'[h].token = t /\ req'[h].sees = req[h].sees
  BY <1>2, <1>4 DEF TypeOK, Request
<1> QED
  BY <1>1, <1>5, <1>6

\* Others keep everything but what they see of the entry.
Overtaken(g) ==
    /\ hpc'[g] = hpc[g]
    /\ req'[g].given = req[g].given /\ req'[g].token = req[g].token /\ req'[g].old = req[g].old
    /\ req'[g].sees => req[g].sees /\ (hpc[g] # "idle" => entry' = entry)

LEMMA OvertakeType ==
    ASSUME TypeOK, NEW g \in Handler
    PROVE  LET r == [req[g] EXCEPT !.sees = FALSE]
           IN /\ r \in Request /\ r.given = req[g].given /\ r.token = req[g].token
              /\ r.old = req[g].old /\ r.sees = FALSE
BY DEF TypeOK, Request

LEMMA PutEffect ==
    ASSUME TypeOK, NEW h \in Handler, PutConfiguration(h)
    PROVE  /\ hpc' \in [Handler -> Labels] /\ req' \in [Handler -> Request]
           /\ hpc[h] = "put" /\ hpc'[h] = IF req[h].old # NoToken THEN "revoke" ELSE "idle"
           /\ req'[h] = IF req[h].old # NoToken THEN req[h] ELSE NoRequest
           /\ \A g \in Handler \ {h} : Overtaken(g)
<1>1. \A g \in Handler : Overtake(h, req[h].token)[g] \in Request
  BY OvertakeType DEF Overtake, TypeOK
<1>2. Overtake(h, req[h].token)[h] = req[h]
  BY DEF Overtake
<1>3. req' = [g \in Handler |-> IF g # h THEN Overtake(h, req[h].token)[g]
                                ELSE IF req[h].old # NoToken THEN req[h] ELSE NoRequest]
  BY <1>2 DEF PutConfiguration, Overtake
<1>4. req' \in [Handler -> Request]
  BY <1>1, <1>3, NoRequestType DEF TypeOK
<1>5. /\ hpc' \in [Handler -> Labels] /\ hpc[h] = "put"
      /\ hpc'[h] = IF req[h].old # NoToken THEN "revoke" ELSE "idle"
      /\ \A g \in Handler \ {h} : hpc'[g] = hpc[g]
  BY DEF TypeOK, PutConfiguration, Move, Labels
<1>6. entry' = req[h].token
  BY DEF PutConfiguration
<1>7. ASSUME NEW g \in Handler \ {h} PROVE Overtaken(g)
  <2>1. req'[g] = IF hpc[g] # "idle" /\ req[h].token # entry
                  THEN [req[g] EXCEPT !.sees = FALSE] ELSE req[g]
    BY <1>3 DEF Overtake
  <2> QED
    BY <1>5, <1>6, <2>1, OvertakeType DEF Overtaken
<1> QED
  BY <1>3, <1>4, <1>5, <1>7

LEMMA DeleteEffect ==
    ASSUME TypeOK, DeleteConfiguration
    PROVE  /\ req' \in [Handler -> Request]
           /\ \A g \in Handler : /\ req'[g].given = req[g].given
                                 /\ req'[g].token = req[g].token /\ req'[g].old = req[g].old
                                 /\ ~(req'[g].sees /\ hpc[g] # "idle")
<1>1. \A g \in Handler :
          req'[g] = IF hpc[g] # "idle" THEN [req[g] EXCEPT !.sees = FALSE] ELSE req[g]
  BY DEF DeleteConfiguration
<1>2. req' \in [Handler -> Request]
  BY OvertakeType DEF DeleteConfiguration, TypeOK
<1> QED
  BY <1>1, <1>2, OvertakeType
-----------------------------------------------------------------------------
(* Types *)

LEMMA IssueType ==
    ASSUME TokenTypes, NEW t \in Token, NEW n \in Periods \cup {0}, NEW m \in Nat, Issue(t, n, m)
    PROVE  TokenTypes'
BY DEF TokenTypes, Issue

LEMMA ServeType == ASSUME IType, TokensOK, BornOK, NEW h \in Handler, Serve(h) PROVE IType'
<1> USE TokenAssumption, NoRequestType DEF IType
<1>0. TypeOK /\ TokenTypes /\ RequestTypes /\ CheckTypes /\ OtherTypes
  BY TypeParts
<1>a. ASSUME NEW l, EndRequest(h, l) PROVE RequestTypes'
  BY <1>0, <1>a, EndEffect DEF OnlyMoves, RequestTypes, NoRequest
<1>1. CASE \E given \in {None, NoToken}, rotate \in BOOLEAN : Arrive(h, given, rotate)
  <2>1. RequestTypes'
    BY <1>0, <1>1, ArriveEffect DEF OnlyMoves, RequestTypes
  <2> QED
    BY <1>0, <1>1, <2>1
       DEF Arrive, tokens, stored, checks, TokenTypes, CheckTypes, OtherTypes
<1>2. CASE \E rotate \in BOOLEAN : ArriveWith(h, rotate)
  <2>1. PICK t \in Token, n \in Periods :
            \E m \in 1..n :
              /\ Issue(t, n, m)
              /\ OnlyMoves(h) /\ hpc'[h] = "load" /\ req'[h].old = NoToken
    BY <1>0, <1>2, ArriveWithEffect
  <2>2. RequestTypes'
    BY <1>0, <2>1 DEF OnlyMoves, RequestTypes
  <2>3. TokenTypes'
    <3>1. PICK m \in 1..n : Issue(t, n, m)
      BY <2>1
    <3> QED
      BY <1>0, <3>1, IssueType
  <2> QED
    BY <1>0, <1>2, <2>2, <2>3 DEF ArriveWith, stored, checks, CheckTypes, OtherTypes
<1>3. CASE Load(h)
  <2>1. OnlyMoves(h) /\ Loaded(h)
    BY <1>0, <1>3, LoadEffect
  <2>2. RequestTypes'
    BY <1>0, <2>1 DEF OnlyMoves, Loaded, RequestTypes, MaybeToken
  <2> QED
    BY <1>0, <1>3, <2>2 DEF Load, tokens, stored, checks, TokenTypes, CheckTypes, OtherTypes
<1>4. CASE UnwrapFails(h) \/ CreateOrphanFails(h) \/ PutFails(h)
  <2>1. RequestTypes'
    BY <1>4, <1>a DEF UnwrapFails, CreateOrphanFails, PutFails
  <2> QED
    BY <1>0, <1>4, <2>1 DEF UnwrapFails, CreateOrphanFails, PutFails, tokens, stored, checks,
       TokenTypes, CheckTypes, OtherTypes
<1>5. CASE CreateOrphan(h)
  <2>1. PICK t \in Unborn :
            /\ Issue(t, period[req[h].old], period[req[h].old])
            /\ OnlyMoves(h) /\ hpc[h] = "orphan" /\ hpc'[h] = "put"
            /\ req'[h].given = req[h].given
            /\ req'[h].old = req[h].old /\ req'[h].token = t
    BY <1>0, <1>5, CreateOrphanEffect
  <2>2. t \in Token /\ period[req[h].old] \in Periods \cup {0}
    BY <1>0, <2>1 DEF Unborn, TokenTypes, RequestTypes
  <2>3. RequestTypes'
    BY <1>0, <2>1, <2>2 DEF OnlyMoves, RequestTypes
  <2>4. TokenTypes'
    BY <1>0, <2>1, <2>2, IssueType
  <2> QED
    BY <1>0, <1>5, <2>3, <2>4 DEF CreateOrphan, stored, checks, CheckTypes, OtherTypes
<1>6. CASE PutConfiguration(h)
  <2>1. /\ hpc' \in [Handler -> Labels] /\ req' \in [Handler -> Request]
        /\ hpc'[h] = IF req[h].old # NoToken THEN "revoke" ELSE "idle"
        /\ req'[h] = IF req[h].old # NoToken THEN req[h] ELSE NoRequest
        /\ \A g \in Handler \ {h} : Overtaken(g)
    BY <1>0, <1>6, PutEffect
  <2>2. req[h].old \in MaybeToken /\ req[h].token \in MaybeToken
    BY <1>0 DEF RequestTypes, Request
  <2>3. RequestTypes'
    BY <1>0, <2>1, <2>2 DEF Overtaken, RequestTypes, MaybeToken
  <2>4. OtherTypes'
    <3>1. entry' = req[h].token /\ checked' = FALSE /\ cache' = cache
      BY <1>6 DEF PutConfiguration
    <3>2. excused' \in BOOLEAN
      BY <1>0, <1>6 DEF PutConfiguration, RequestTypes, Request, OtherTypes
    <3> QED
      BY <1>0, <2>2, <3>1, <3>2 DEF OtherTypes
  <2> QED
    BY <1>0, <1>6, <2>3, <2>4 DEF PutConfiguration, tokens, checks, TokenTypes, CheckTypes
<1>7. CASE RevokeOld(h)
  <2>1. RequestTypes'
    BY <1>7, <1>a DEF RevokeOld
  <2>2. TokenTypes'
    BY <1>0, <1>7 DEF RevokeOld, TokenTypes
  <2> QED
    BY <1>0, <1>7, <2>1, <2>2 DEF RevokeOld, stored, checks, CheckTypes, OtherTypes
<1> QED
  BY <1>1, <1>2, <1>3, <1>4, <1>5, <1>6, <1>7 DEF Serve, Begin

LEMMA OtherStepType ==
    ASSUME IType, TokensOK,
           (\E k \in Checker : Check(k)) \/ DeleteConfiguration \/ Advance \/ Crash
    PROVE  IType'
<1> USE TokenAssumption, NoRequestType DEF IType
<1>0. TypeOK /\ TokenTypes /\ RequestTypes /\ CheckTypes /\ OtherTypes
  BY TypeParts
<1>1. ASSUME NEW k \in Checker, Check(k) PROVE IType'
  <2>0. cpc[k] # "idle" => period[using[k]] \in Nat
    <3>1. Periods \subseteq Nat /\ 0 \in Nat
      BY TokenAssumption
    <3>2. cpc[k] # "idle" => period[using[k]] \in Periods \cup {0}
      BY <1>0 DEF CheckTypes, TokenTypes
    <3> QED
      BY <3>1, <3>2
  <2>1. TokenTypes'
    <3>1. Renew(k) => left' \in [Token -> Nat]
      BY <1>0, <2>0 DEF Renew, TokenTypes
    <3> QED
      BY <1>0, <1>1, <3>1 DEF Check, CheckConfig, ReadCache, Reload, Renew, RenewFails, tokens,
         TokenTypes
  <2>2. CheckTypes'
    BY <1>0, <1>1 DEF Check, CheckConfig, ReadCache, Reload, Renew, RenewFails, Step, EndCheck,
       CheckTypes, MaybeToken
  <2>3. RequestTypes'
    BY <1>0, <1>1 DEF Check, CheckConfig, ReadCache, Reload, Renew, RenewFails, requests,
       RequestTypes
  <2>4. OtherTypes'
    <3>1. Renew(k) => cache' \in Nat
      BY <2>0 DEF Renew
    <3> QED
      BY <1>0, <1>1, <3>1 DEF Check, CheckConfig, ReadCache, Reload, Renew, RenewFails, stored,
         OtherTypes
  <2> QED
    BY <2>1, <2>2, <2>3, <2>4
<1>2. CASE DeleteConfiguration
  <2>1. RequestTypes'
    BY <1>0, <1>2, DeleteEffect DEF DeleteConfiguration, RequestTypes
  <2> QED
    BY <1>0, <1>2, <2>1 DEF DeleteConfiguration, tokens, checks, TokenTypes, CheckTypes, OtherTypes
<1>3. CASE Advance
  <2>1. TokenTypes'
    <3>1. \A t \in Token : life[t] = "live" => left[t] - 1 \in Nat
      BY <1>0 DEF TokensOK, TokenTypes
    <3> QED
      BY <1>0, <1>3, <3>1 DEF Advance, TokenTypes
  <2>2. OtherTypes'
    <3>1. CASE cache \in {None, -1}
      BY <1>0, <1>3, <3>1 DEF Advance, stored, OtherTypes
    <3>2. CASE cache \in Nat
      <4>1. cache' = cache - 1 /\ cache - 1 \in {-1} \cup Nat
        BY <1>3, <3>2 DEF Advance
      <4> QED
        BY <1>0, <1>3, <4>1 DEF Advance, stored, OtherTypes
    <3> QED
      BY <1>0, <3>1, <3>2 DEF OtherTypes
  <2> QED
    BY <1>0, <1>3, <2>1, <2>2 DEF Advance, requests, checks, RequestTypes, CheckTypes
<1>4. CASE Crash
  <2>1. RequestTypes' /\ CheckTypes'
    BY <1>0, <1>4 DEF Crash, RequestTypes, CheckTypes, Labels, NoRequest, MaybeToken
  <2> QED
    BY <1>0, <1>4, <2>1 DEF Crash, tokens, stored, TokenTypes, OtherTypes
<1> QED
  BY <1>1, <1>2, <1>3, <1>4
-----------------------------------------------------------------------------
(* The rest of the invariant: requests *)

\* The conjuncts that are about one request, with what it is about to store.
PutOKFor(h) ==
    hpc[h] = "put" =>
        /\ req[h].old # NoToken =>
              /\ req[h].old \in Token /\ req[h].token # req[h].old
              /\ left[req[h].token] = period[req[h].old]
              /\ period[req[h].token] = period[req[h].old]
        /\ req[h].old = NoToken /\ req[h].given # None => req[h].token = req[h].given

SeesOKFor(h) ==
    hpc[h] \in {"orphan", "put"} /\ req[h].sees /\ req[h].given = None =>
        LET read == IF req[h].old # NoToken THEN req[h].old ELSE req[h].token
        IN read = IF entry \in Token THEN entry ELSE NoToken

\* A request moves and nothing else changes: it owns no more and knows no more
\* than before.
LEMMA MoveInv ==
    ASSUME IInv, NEW h \in Handler, OnlyMoves(h),
           UNCHANGED <<tokens, stored, cache, checked, checks>>,
           Owns(h)' \subseteq Owns(h),
           req'[h].given \in {req[h].given, None, NoToken},
           {req'[h].token, req'[h].old} \cap Token
               \subseteq Owns(h) \cup {entry, req[h].given, req[h].token, req[h].old},
           {req'[h].token, req'[h].old} \cap Token \subseteq
               Owns(h) \cup {entry, req[h].token, req[h].old},
           PutOKFor(h)', SeesOKFor(h)', hpc'[h] # "revoke"
    PROVE  Rest'
<1> USE TokenAssumption DEF IInv, Rest
<1>1. /\ UNCHANGED <<life, period, left, entry, excused, cache, checked, cpc, using>>
      /\ \A g \in Handler : g # h => hpc'[g] = hpc[g] /\ req'[g] = req[g]
  BY DEF OnlyMoves, tokens, stored, checks
<1>2. TokensOK'
  BY <1>1 DEF TokensOK
<1>3. BornOK'
  <2>1. \A t \in Unborn : t \notin Owns(h)
    BY DEF OwnsOK, Unborn
  <2> QED
    BY <1>1, <2>1 DEF BornOK, Unborn
<1>4. \A g \in Handler \ {h} : Owns(g)' = Owns(g)
  BY <1>1 DEF Owns
<1>5. OwnsOK'
  <2>1. ASSUME NEW g \in Handler, NEW t \in Owns(g)' PROVE t \in Owns(g) /\ t \in Token
    BY <1>4, <2>1 DEF Owns
  <2>2. ASSUME NEW g \in Handler, NEW t \in Owns(g)', NEW f \in Handler \ {g}
        PROVE  t \notin Owns(f)' \cup {req'[f].old, req'[f].token}
    <3>1. CASE f = h
      BY <2>1, <2>2, <3>1 DEF OwnsOK
    <3>2. CASE f # h
      BY <1>1, <1>4, <2>1, <2>2, <3>2 DEF OwnsOK
    <3> QED
      BY <3>1, <3>2
  <2> QED
    BY <1>1, <2>1, <2>2 DEF OwnsOK
<1>6. PutOK'
  BY <1>1 DEF PutOK, PutOKFor
<1>7. SeesOK'
  BY <1>1 DEF SeesOK, SeesOKFor
<1>8. TrackOK'
  BY <1>1 DEF TrackOK, Tracked
<1> QED
  BY <1>2, <1>3, <1>5, <1>6, <1>7, <1>8

LEMMA ArriveInv ==
    ASSUME IInv, NEW h \in Handler, NEW given \in {None, NoToken}, NEW rotate \in BOOLEAN,
           Arrive(h, given, rotate)
    PROVE  Rest'
<1>1. /\ OnlyMoves(h) /\ hpc'[h] = "load"
      /\ req'[h].given = given /\ req'[h].token = NoToken /\ req'[h].old = NoToken
  BY TypeParts, ArriveEffect DEF IInv
<1>2. Owns(h)' = {}
  BY <1>1, TokenAssumption DEF Owns
<1>3. PutOKFor(h)' /\ SeesOKFor(h)' /\ hpc'[h] # "revoke"
  BY <1>1 DEF PutOKFor, SeesOKFor
<1>4. UNCHANGED <<tokens, stored, cache, checked, checks>>
  BY DEF Arrive
<1> QED
  BY <1>1, <1>2, <1>3, <1>4, MoveInv, TokenAssumption

LEMMA LoadInv == ASSUME IInv, NEW h \in Handler, Load(h) PROVE Rest'
<1>1. OnlyMoves(h) /\ hpc[h] = "load" /\ Loaded(h)
  BY TypeParts, LoadEffect DEF IInv
<1>2. hpc'[h] = "put" => req'[h].old = NoToken
  BY <1>1 DEF Loaded
<1>3. hpc'[h] \in {"orphan", "put"}
  BY <1>1 DEF Loaded
<1>4. Owns(h)' \subseteq Owns(h)
  BY <1>1, <1>2, <1>3 DEF Owns, Loaded
<1>5. PutOKFor(h)'
  BY <1>1, <1>2 DEF PutOKFor, Loaded
<1>6. entry' = entry
  BY DEF Load, stored
<1>7. SeesOKFor(h)'
  <2> SUFFICES ASSUME req'[h].sees, req'[h].given = None, hpc'[h] \in {"orphan", "put"}
               PROVE  (IF req'[h].old # NoToken THEN req'[h].old ELSE req'[h].token) =
                          IF entry \in Token THEN entry ELSE NoToken
    BY <1>6 DEF SeesOKFor
  <2>1. req'[h].token = IF entry \in Token THEN entry ELSE NoToken
    BY <1>1 DEF Loaded
  <2>2. req'[h].old # NoToken => req'[h].old = req'[h].token
    BY <1>1 DEF Loaded
  <2> QED
    BY <2>1, <2>2
<1>8. req[h].given \in Token => req[h].given \in Owns(h)
  BY <1>1 DEF Owns
<1>9. {req'[h].token, req'[h].old} \subseteq {req[h].given, entry, NoToken}
  BY <1>1 DEF Loaded
<1>10. UNCHANGED <<tokens, stored, cache, checked, checks>> /\ req'[h].given = req[h].given
  BY <1>1 DEF Load, Loaded
<1> QED
  BY <1>1, <1>3, <1>4, <1>5, <1>7, <1>8, <1>9, <1>10, MoveInv, TokenAssumption

LEMMA EndInv ==
    ASSUME IInv, NEW h \in Handler, NEW l, EndRequest(h, l),
           UNCHANGED <<tokens, stored, cache, checked, checks>>
    PROVE  Rest'
<1>1. OnlyMoves(h) /\ hpc'[h] = "idle" /\ req'[h] = NoRequest
  BY TypeParts, EndEffect DEF IInv
<1>2. Owns(h)' = {}
  BY <1>1 DEF Owns
<1>3. PutOKFor(h)' /\ SeesOKFor(h)' /\ hpc'[h] # "revoke"
  BY <1>1 DEF PutOKFor, SeesOKFor
<1>4. req'[h].given = None /\ req'[h].token = NoToken /\ req'[h].old = NoToken
  BY <1>1 DEF NoRequest
<1> QED
  BY <1>1, <1>2, <1>3, <1>4, MoveInv, TokenAssumption

LEMMA InitRest == Init => Rest
<1> SUFFICES ASSUME Init PROVE Rest
  OBVIOUS
<1> USE TokenAssumption
<1>1. PICK t \in Token, n \in Periods :
          \E m \in 1..n :
            /\ entry \in {t, None}
            /\ life = [u \in Token |-> IF u = entry THEN "live" ELSE "unborn"]
            /\ period = [u \in Token |-> IF u = entry THEN n ELSE 0]
            /\ left = [u \in Token |-> IF u = entry THEN m ELSE 0]
  BY DEF Init
<1>2. PICK m \in 1..n : left = [u \in Token |-> IF u = entry THEN m ELSE 0]
  BY <1>1
<1>3. /\ hpc = [h \in Handler |-> "idle"] /\ req = [h \in Handler |-> NoRequest]
      /\ cpc = [k \in Checker |-> "idle"] /\ using = [k \in Checker |-> NoToken]
      /\ cache = None /\ checked = FALSE /\ excused = FALSE
  BY DEF Init
<1>4. n \in Nat /\ m \in Nat /\ 1 <= m /\ m <= n
  OBVIOUS
<1>5. TokensOK
  BY <1>1, <1>2, <1>4 DEF TokensOK
<1>6. BornOK
  BY <1>1, <1>3 DEF BornOK, Unborn, NoRequest
<1>7. \A h \in Handler : Owns(h) = {}
  BY <1>3 DEF Owns
<1>8. OwnsOK /\ PutOK /\ SeesOK
  BY <1>3, <1>7 DEF OwnsOK, PutOK, SeesOK
<1>9. TrackOK
  BY <1>1, <1>3 DEF TrackOK, Tracked
<1> QED
  BY <1>5, <1>6, <1>8, <1>9 DEF Rest

\* A token is issued for request h and nobody else knows of it.
LEMMA IssueInv ==
    ASSUME IInv, NEW h \in Handler, NEW t \in Unborn, NEW n \in Periods, NEW m \in 1..n,
           Issue(t, n, m), OnlyMoves(h), UNCHANGED <<stored, cache, checked, checks>>,
           Owns(h)' \subseteq Owns(h) \cup {t},
           req'[h].given \in {req[h].given, None, t},
           {req'[h].token, req'[h].old} \subseteq {req[h].token, req[h].old, NoToken, t},
           PutOKFor(h)', SeesOKFor(h)', hpc'[h] # "revoke"
    PROVE  Rest'
<1> USE TokenAssumption DEF IInv, Rest
<1>0. TokenTypes /\ RequestTypes /\ CheckTypes /\ t \in Token
  BY DEF IType, Unborn
<1>1. /\ UNCHANGED <<entry, excused, cache, checked, cpc, using>>
      /\ \A g \in Handler : g # h => hpc'[g] = hpc[g] /\ req'[g] = req[g]
  BY DEF OnlyMoves, stored, checks
<1>2. /\ life'[t] = "live" /\ period'[t] = n /\ left'[t] = m
      /\ \A u \in Token \ {t} : life'[u] = life[u] /\ period'[u] = period[u] /\ left'[u] = left[u]
  BY <1>0 DEF Issue, TokenTypes
<1>3. n \in Nat /\ m \in Nat /\ 1 <= m /\ m <= n
  OBVIOUS
<1>4. /\ t # entry /\ \A k \in Checker : using[k] # t
      /\ \A g \in Handler : t \notin {req[g].given, req[g].token, req[g].old}
  BY DEF BornOK
<1>5. TokensOK'
  BY <1>2, <1>3 DEF TokensOK
<1>6. BornOK'
  <2>1. Unborn' = Unborn \ {t}
    BY <1>2 DEF Unborn
  <2>2. \A u \in Unborn' : u \notin {NoToken, None}
    BY DEF Unborn
  <2> QED
    BY <1>1, <2>1, <2>2 DEF BornOK
<1>7. \A g \in Handler \ {h} : Owns(g)' = Owns(g)
  BY <1>1 DEF Owns
<1>8. \A g \in Handler : t \notin Owns(g)
  BY <1>4 DEF Owns
<1>9. OwnsOK'
  <2>1. ASSUME NEW g \in Handler, NEW u \in Owns(g)'
        PROVE  life'[u] = "live" /\ u # entry'
    <3>1. u \in Token /\ (u = t \/ u \in Owns(g))
      BY <1>7 DEF Owns
    <3> QED
      BY <1>1, <1>2, <1>4, <3>1 DEF OwnsOK
  <2>2. ASSUME NEW g \in Handler, NEW u \in Owns(g)', NEW f \in Handler \ {g}
        PROVE  u \notin Owns(f)' \cup {req'[f].old, req'[f].token}
    <3>1. u \in Token /\ u # NoToken
      BY DEF Owns
    <3>2. CASE f = h
      BY <1>7, <1>8, <3>1, <3>2 DEF OwnsOK
    <3>3. CASE f # h
      <4>1. Owns(f)' = Owns(f) /\ req'[f] = req[f]
        BY <1>1, <1>7, <3>3
      <4>2. u \in Owns(g) \/ u = t
        BY <1>7
      <4> QED
        BY <1>4, <1>8, <4>1, <4>2 DEF OwnsOK
    <3> QED
      BY <3>2, <3>3
  <2> QED
    BY <2>1, <2>2 DEF OwnsOK
<1>10. PutOK'
  <2>1. ASSUME NEW g \in Handler \ {h}, hpc[g] = "put", req[g].old # NoToken
        PROVE  req[g].token \in Token \ {t} /\ req[g].old \in Token \ {t}
    BY <1>0, <1>4, <2>1 DEF RequestTypes, PutOK
  <2>2. \A g \in Handler \ {h} : PutOKFor(g)'
    BY <1>1, <1>2, <2>1 DEF PutOK, PutOKFor
  <2> QED
    BY <2>2 DEF PutOK, PutOKFor
<1>11. SeesOK'
  BY <1>1 DEF SeesOK, SeesOKFor
<1>12. TrackOK'
  <2> SUFFICES ASSUME entry \in Token, ~excused PROVE Tracked'
    BY <1>1 DEF TrackOK
  <2>1. life'[entry] = life[entry] /\ left'[entry] = left[entry]
    BY <1>2, <1>4
  <2>2. \A k \in Checker : cpc[k] # "idle" => period'[using[k]] = period[using[k]]
    BY <1>0, <1>2, <1>4 DEF CheckTypes
  <2> QED
    BY <1>1, <2>1, <2>2 DEF TrackOK, Tracked
<1> QED
  BY <1>5, <1>6, <1>9, <1>10, <1>11, <1>12

LEMMA ArriveWithInv ==
    ASSUME IInv, NEW h \in Handler, NEW rotate \in BOOLEAN, ArriveWith(h, rotate) PROVE Rest'
<1>1. PICK t \in Token, n \in Periods : \E m \in 1..n :
          /\ Issue(t, n, m)
          /\ OnlyMoves(h) /\ hpc[h] = "idle" /\ hpc'[h] = "load"
          /\ req'[h].given = t /\ req'[h].token = NoToken /\ req'[h].old = NoToken
  BY TypeParts, ArriveWithEffect DEF IInv
<1>2. PICK m \in 1..n : Issue(t, n, m)
  BY <1>1
<1>3. t \in Unborn /\ OnlyMoves(h)
  BY <1>1, <1>2 DEF Issue
<1>4. Owns(h)' = {t}
  BY <1>1 DEF Owns
<1>5. PutOKFor(h)' /\ SeesOKFor(h)' /\ hpc'[h] # "revoke"
  BY <1>1 DEF PutOKFor, SeesOKFor
<1>6. UNCHANGED <<stored, cache, checked, checks>>
  BY DEF ArriveWith
<1> QED
  BY <1>1, <1>2, <1>3, <1>4, <1>5, <1>6, IssueInv

LEMMA CreateOrphanInv == ASSUME IInv, NEW h \in Handler, CreateOrphan(h) PROVE Rest'
<1> USE TokenAssumption
<1> DEFINE old == req[h].old
           n == period[old]
<1>1. PICK t \in Unborn :
          /\ Issue(t, n, n)
          /\ OnlyMoves(h) /\ hpc[h] = "orphan" /\ hpc'[h] = "put"
          /\ req'[h].given = req[h].given /\ req'[h].old = old
          /\ req'[h].token = t /\ req'[h].sees = req[h].sees
  BY TypeParts, CreateOrphanEffect DEF IInv
<1>2. TokenTypes /\ RequestTypes /\ t \in Token /\ old \in Token /\ life[old] = "live"
  BY <1>1 DEF IInv, IType, RequestTypes, CreateOrphan, Unborn
<1>3. n \in Periods /\ n \in 1..n
  <2>1. n \in Periods
    BY <1>2 DEF IInv, Rest, TokensOK
  <2>2. n \in Nat /\ n > OneDay
    BY <2>1
  <2> QED
    BY <2>1, <2>2 DEF OneDay
<1>4. t # old
  BY <1>2 DEF Unborn
<1>5. Owns(h)' \subseteq Owns(h) \cup {t}
  BY <1>1 DEF Owns
<1>6. PutOKFor(h)'
  <2>1. period'[t] = n /\ left'[t] = n /\ period'[old] = n
    BY <1>1, <1>2, <1>4 DEF Issue, TokenTypes
  <2> QED
    BY <1>1, <1>2, <1>4, <2>1 DEF PutOKFor
<1>7. entry' = entry
  BY DEF CreateOrphan, stored
<1>8. SeesOKFor(h)'
  <2>1. old # NoToken
    BY <1>2
  <2>2. req[h].sees /\ req[h].given = None => old = IF entry \in Token THEN entry ELSE NoToken
    BY <1>1, <2>1 DEF IInv, Rest, SeesOK
  <2> QED
    BY <1>1, <1>7, <2>1, <2>2 DEF SeesOKFor
<1>9. UNCHANGED <<stored, cache, checked, checks>>
  BY DEF CreateOrphan
<1> HIDE DEF n
<1>10. Issue(t, n, n) /\ OnlyMoves(h) /\ hpc'[h] # "revoke"
  BY <1>1
<1>11. /\ req'[h].given \in {req[h].given, None, t}
       /\ {req'[h].token, req'[h].old} \subseteq {req[h].token, req[h].old, NoToken, t}
  BY <1>1
<1> QED
  BY <1>3, <1>5, <1>6, <1>8, <1>9, <1>10, <1>11, IssueInv

LEMMA PutInv == ASSUME IInv, NEW h \in Handler, PutConfiguration(h) PROVE Rest'
<1> USE TokenAssumption DEF IInv, Rest
<1> DEFINE token == req[h].token
           old == req[h].old
<1>0. TypeOK /\ TokenTypes /\ RequestTypes /\ CheckTypes /\ OtherTypes
  BY TypeParts DEF IType
<1>1. /\ hpc[h] = "put" /\ hpc'[h] = IF old # NoToken THEN "revoke" ELSE "idle"
      /\ req'[h] = IF old # NoToken THEN req[h] ELSE NoRequest
      /\ \A g \in Handler \ {h} : Overtaken(g)
  BY <1>0, PutEffect
<1>2. /\ UNCHANGED <<life, period, left, cache, cpc, using>>
      /\ entry' = token /\ checked' = FALSE
      /\ excused' = IF req[h].given \in Token THEN ~KnowsNothing ELSE excused \/ ~req[h].sees
  BY DEF PutConfiguration, tokens, checks
<1>3. TokensOK'
  BY <1>2 DEF TokensOK
<1>4. BornOK'
  <2>1. Unborn' = Unborn /\ \A t \in Unborn : t \in Token /\ t # token
    BY <1>2 DEF Unborn, BornOK
  <2>2. \A g \in Handler, t \in Unborn : t \notin {req'[g].given, req'[g].token, req'[g].old}
    BY <1>1, <2>1 DEF BornOK, Overtaken, NoRequest
  <2> QED
    BY <1>2, <2>1, <2>2 DEF BornOK
<1>5. Owns(h)' = {} /\ \A g \in Handler \ {h} : Owns(g)' = Owns(g)
  BY <1>1 DEF Owns, Overtaken
<1>6. OwnsOK'
  <2>1. ASSUME NEW g \in Handler, NEW t \in Owns(g)'
        PROVE  g # h /\ t \in Owns(g) /\ t \in Token
    BY <1>5 DEF Owns
  <2>2. ASSUME NEW g \in Handler, NEW t \in Owns(g)'
        PROVE  life'[t] = "live" /\ t # entry'
    BY <1>2, <2>1 DEF OwnsOK
  <2>3. ASSUME NEW g \in Handler, NEW t \in Owns(g)', NEW f \in Handler \ {g}
        PROVE  t \notin Owns(f)' \cup {req'[f].old, req'[f].token}
    <3>1. {req'[f].old, req'[f].token} \subseteq {req[f].old, req[f].token, NoToken}
      BY <1>1 DEF Overtaken, NoRequest
    <3>2. Owns(f)' \subseteq Owns(f)
      BY <1>5
    <3> QED
      BY <2>1, <3>1, <3>2 DEF OwnsOK
  <2> QED
    BY <2>2, <2>3 DEF OwnsOK
<1>7. PutOK'
  <2>1. \A g \in Handler \ {h} : PutOKFor(g)'
    BY <1>1, <1>2 DEF PutOK, PutOKFor, Overtaken
  <2> QED
    BY <1>1, <2>1 DEF PutOK, PutOKFor
<1>8. SeesOK'
  <2>1. \A g \in Handler \ {h} : SeesOKFor(g)'
    BY <1>1 DEF SeesOK, SeesOKFor, Overtaken
  <2> QED
    BY <1>1, <2>1 DEF SeesOK, SeesOKFor
<1>9. ASSUME token \in Token, token \in Owns(h)
      PROVE  /\ life[token] = "live"
             /\ \A g \in Handler : hpc'[g] = "revoke" => req'[g].old # token
  <2>1. life[token] = "live" /\ \A g \in Handler \ {h} : req[g].old # token
    BY <1>9 DEF OwnsOK
  <2>2. old # NoToken => old # token
    BY <1>1 DEF PutOK
  <2> QED
    BY <1>1, <2>1, <2>2 DEF Overtaken
<1>10. ASSUME token \in Token, ~excused' PROVE Tracked'
  <2>1. CASE req[h].given \in Token
    <3>1. cache' = None /\ \A k \in Checker : cpc'[k] = "idle"
      BY <1>2, <1>10, <2>1 DEF KnowsNothing
    <3>2. token \in Owns(h)
      BY <1>1, <1>10, <2>1 DEF Owns, PutOK
    <3> QED
      BY <1>2, <1>9, <1>10, <3>1, <3>2 DEF Tracked
  <2>2. CASE req[h].given = None /\ old = NoToken
    <3>1. req[h].sees /\ ~excused
      BY <1>2, <1>10, <2>2
    <3>2. entry \in Token /\ token = entry
      BY <1>1, <1>10, <2>2, <3>1 DEF SeesOK
    <3>3. Tracked
      BY <3>1, <3>2 DEF TrackOK
    <3>4. \A g \in Handler : hpc'[g] = "revoke" => req'[g].old # token
      BY <1>1, <2>2, <3>2, <3>3 DEF Overtaken, Tracked
    <3> QED
      BY <1>2, <3>2, <3>3, <3>4 DEF Tracked
  <2>3. CASE req[h].given = None /\ old # NoToken
    <3>1. req[h].sees /\ ~excused
      BY <1>2, <1>10, <2>3
    <3>2. entry \in Token /\ old = entry
      BY <1>1, <2>3, <3>1 DEF SeesOK, PutOK
    <3>3. Tracked
      BY <3>1, <3>2 DEF TrackOK
    <3>4. left[token] = period[entry]
      BY <1>1, <2>3, <3>2 DEF PutOK
    <3>5. left[entry] <= period[entry]
      BY <3>2, <3>3 DEF TokensOK, Tracked
    <3>6. token \in Owns(h)
      BY <1>1, <1>10, <2>3 DEF Owns
    <3>7. left[entry] \in Nat /\ left[token] \in Nat /\ left[entry] <= left[token]
      BY <1>0, <1>10, <3>2, <3>4, <3>5 DEF TokenTypes
    <3>8. cache # None => 1 <= cache /\ cache <= left[token]
      BY <1>0, <3>3, <3>7 DEF Tracked, OtherTypes
    <3>9. ASSUME NEW k \in Checker, cpc[k] # "idle" PROVE period[using[k]] <= left[token]
      <4>1. period[using[k]] \in Nat
        <5>1. Periods \subseteq Nat /\ 0 \in Nat
          BY TokenAssumption
        <5>2. period[using[k]] \in Periods \cup {0}
          BY <1>0, <3>9 DEF CheckTypes, TokenTypes
        <5> QED
          BY <5>1, <5>2
      <4>2. using[k] = entry \/ period[using[k]] <= left[entry]
        BY <3>3, <3>9 DEF Tracked
      <4> QED
        BY <3>4, <3>7, <4>1, <4>2
    <3> QED
      BY <1>2, <1>9, <1>10, <3>6, <3>8, <3>9 DEF Tracked
  <2>4. CASE req[h].given = NoToken
    BY <1>0, <1>1, <1>10, <2>4 DEF RequestTypes, PutOK
  <2>5. req[h].given \in Token \cup {NoToken, None}
    BY <1>0 DEF RequestTypes, Request, MaybeToken
  <2> QED
    BY <2>1, <2>2, <2>3, <2>4, <2>5
<1>11. TrackOK'
  BY <1>2, <1>10 DEF TrackOK
<1> QED
  BY <1>3, <1>4, <1>6, <1>7, <1>8, <1>11

LEMMA RevokeInv == ASSUME IInv, NEW h \in Handler, RevokeOld(h) PROVE Rest'
<1> USE TokenAssumption DEF IInv, Rest
<1>0. TypeOK /\ TokenTypes /\ RequestTypes
  BY TypeParts DEF IType
<1>1. OnlyMoves(h) /\ hpc[h] = "revoke" /\ hpc'[h] = "idle" /\ req'[h] = NoRequest
  BY <1>0, EndEffect DEF RevokeOld
<1>2. /\ UNCHANGED <<period, left, entry, excused, cache, checked, cpc, using>>
      /\ \A g \in Handler : g # h => hpc'[g] = hpc[g] /\ req'[g] = req[g]
  BY <1>1 DEF OnlyMoves, RevokeOld, stored, checks
<1> DEFINE old == req[h].old
<1>3. old \in Token /\ life[old] # "unborn"
  BY <1>0, <1>1 DEF RequestTypes, BornOK, Unborn
<1>4. /\ life' \in [Token -> {"unborn", "live", "dead"}]
      /\ \A t \in Token : life'[t] = life[t] \/ (t = old /\ life'[t] = "dead")
  BY <1>0 DEF RevokeOld, TokenTypes
<1>5. TokensOK'
  BY <1>2, <1>3, <1>4 DEF TokensOK
<1>6. BornOK'
  <2>1. Unborn' \subseteq Unborn /\ \A t \in Unborn : t \notin {NoToken, None}
    BY <1>4 DEF Unborn
  <2> QED
    BY <1>1, <1>2, <2>1 DEF BornOK, NoRequest
<1>7. Owns(h)' = {} /\ \A g \in Handler \ {h} : Owns(g)' = Owns(g)
  BY <1>1, <1>2 DEF Owns
<1>8. OwnsOK'
  <2>1. ASSUME NEW g \in Handler, NEW t \in Owns(g)'
        PROVE  g # h /\ t \in Owns(g) /\ t \in Token /\ t # old
    BY <1>7 DEF Owns, OwnsOK
  <2>2. ASSUME NEW g \in Handler, NEW t \in Owns(g)', NEW f \in Handler \ {g}
        PROVE  t \notin Owns(f)' \cup {req'[f].old, req'[f].token}
    BY <1>1, <1>2, <1>7, <2>1 DEF OwnsOK, NoRequest
  <2> QED
    BY <1>2, <1>4, <2>1, <2>2 DEF OwnsOK
<1>9. PutOK' /\ SeesOK'
  BY <1>1, <1>2 DEF PutOK, SeesOK
<1>10. TrackOK'
  <2> SUFFICES ASSUME entry \in Token, ~excused PROVE Tracked'
    BY <1>2 DEF TrackOK
  <2>1. Tracked /\ old # entry
    BY <1>1 DEF TrackOK, Tracked
  <2>2. life'[entry] = "live"
    BY <1>4, <2>1 DEF Tracked
  <2> QED
    BY <1>1, <1>2, <2>1, <2>2 DEF Tracked
<1> QED
  BY <1>5, <1>6, <1>8, <1>9, <1>10

LEMMA DeleteInv == ASSUME IInv, DeleteConfiguration PROVE Rest'
<1> USE TokenAssumption DEF IInv, Rest
<1>0. TypeOK
  BY TypeParts
<1>1. \A g \in Handler : /\ req'[g].given = req[g].given
                         /\ req'[g].token = req[g].token /\ req'[g].old = req[g].old
                         /\ ~(req'[g].sees /\ hpc[g] # "idle")
  BY <1>0, DeleteEffect
<1>2. UNCHANGED <<life, period, left, cache, checked, hpc, cpc, using>> /\ entry' = None
  BY DEF DeleteConfiguration, tokens, checks
<1>3. TokensOK'
  BY <1>2 DEF TokensOK
<1>4. BornOK'
  BY <1>1, <1>2 DEF BornOK, Unborn
<1>5. \A g \in Handler : Owns(g)' = Owns(g) /\ Owns(g) \subseteq Token
  BY <1>1, <1>2 DEF Owns
<1>6. OwnsOK'
  BY <1>1, <1>2, <1>5 DEF OwnsOK
<1>7. PutOK' /\ SeesOK' /\ TrackOK'
  BY <1>1, <1>2 DEF PutOK, SeesOK, TrackOK
<1> QED
  BY <1>3, <1>4, <1>6, <1>7
-----------------------------------------------------------------------------
(* The rest of the invariant: checks, time and restarts *)

\* Checks and what is known of the stored token are all that a step of a check
\* changes, but for the renewal.
LEMMA CheckKeeps ==
    ASSUME IInv, UNCHANGED <<tokens, stored, requests>>
    PROVE  TokensOK' /\ OwnsOK' /\ PutOK' /\ SeesOK'
<1>1. UNCHANGED <<life, period, left, entry, excused, hpc, req>>
  BY DEF tokens, stored, requests
<1>2. \A g \in Handler : Owns(g)' = Owns(g)
  BY <1>1 DEF Owns
<1> QED
  BY <1>1, <1>2 DEF IInv, Rest, TokensOK, OwnsOK, PutOK, SeesOK

LEMMA CheckInv ==
    ASSUME IInv, NEW k \in Checker,
           CheckConfig(k) \/ ReadCache(k) \/ Reload(k) \/ RenewFails(k)
    PROVE  Rest'
<1> USE TokenAssumption DEF IInv, Rest
<1>0. CheckTypes /\ OtherTypes /\ TokenTypes
  BY DEF IType
<1>1. UNCHANGED <<tokens, stored, requests>> /\ cache' = cache
  BY DEF CheckConfig, ReadCache, Reload, RenewFails
<1>2. UNCHANGED <<life, period, left, entry, excused, hpc, req>>
  BY <1>1 DEF tokens, stored, requests
<1>3. /\ cpc' \in [Checker -> {"idle", "cache", "reload", "renew"}] /\ using' \in [Checker -> MaybeToken]
      /\ \A j \in Checker \ {k} : cpc'[j] = cpc[j] /\ using'[j] = using[j]
      /\ \/ cpc'[k] = "idle" /\ using'[k] = NoToken
         \/ entry \in Token /\ using'[k] = entry
         \/ cpc[k] # "idle" /\ using'[k] = using[k]
  BY <1>0 DEF CheckConfig, ReadCache, Reload, RenewFails, Step, EndCheck, CheckTypes, MaybeToken
<1>4. BornOK'
  <2>1. Unborn' = Unborn /\ \A t \in Unborn : t # NoToken
    BY <1>2 DEF Unborn
  <2> QED
    BY <1>2, <1>3, <2>1 DEF BornOK
<1>5. checked' => checked \/ (cache # None /\ cache \notin 0..(OneDay - 1))
  BY DEF CheckConfig, ReadCache, Reload, RenewFails
<1>6. TrackOK'
  <2> SUFFICES ASSUME entry \in Token, ~excused PROVE Tracked'
    BY <1>2 DEF TrackOK
  <2>1. Tracked
    BY DEF TrackOK
  <2>2. checked' => cache # None /\ OneDay <= cache
    BY <1>0, <1>5, <2>1 DEF Tracked, OtherTypes, OneDay
  <2>3. \A j \in Checker : cpc'[j] # "idle" => using'[j] = entry \/ period[using'[j]] <= left[entry]
    BY <1>3, <2>1 DEF Tracked
  <2> QED
    BY <1>1, <1>2, <2>1, <2>2, <2>3 DEF Tracked
<1> QED
  BY <1>1, <1>4, <1>6, CheckKeeps

LEMMA RenewInv == ASSUME IInv, NEW k \in Checker, Renew(k) PROVE Rest'
<1> USE TokenAssumption DEF IInv, Rest
<1> DEFINE u == using[k]
<1>0. CheckTypes /\ OtherTypes /\ TokenTypes /\ RequestTypes
  BY DEF IType
<1>1. /\ cpc[k] = "renew" /\ u \in Token /\ life[u] = "live"
      /\ UNCHANGED <<life, period, entry, excused, hpc, req>>
      /\ left'[u] = period[u] /\ \A t \in Token \ {u} : left'[t] = left[t]
      /\ cache' = period[u]
  BY <1>0 DEF Renew, CheckTypes, TokenTypes, stored, requests
<1>2. period[u] \in Periods /\ period[u] \in Nat /\ OneDay < period[u]
  <2>1. period[u] \in Periods
    BY <1>1 DEF TokensOK
  <2> QED
    BY <2>1
<1>3. \A t \in Token : period[t] \in Nat /\ left[t] \in Nat
  <2>1. Periods \subseteq Nat /\ 0 \in Nat
    BY TokenAssumption
  <2> QED
    BY <1>0, <2>1 DEF TokenTypes
<1>4. TokensOK'
  BY <1>1, <1>2, <1>3 DEF TokensOK, OneDay
<1>5. /\ cpc'[k] = "idle" /\ using'[k] = NoToken
      /\ \A j \in Checker \ {k} : cpc'[j] = cpc[j] /\ using'[j] = using[j]
  BY <1>0 DEF Renew, Step, EndCheck, CheckTypes
<1>6. BornOK'
  <2>1. Unborn' = Unborn /\ \A t \in Unborn : t # NoToken
    BY <1>1 DEF Unborn
  <2> QED
    BY <1>1, <1>5, <2>1 DEF BornOK
<1>7. \A g \in Handler : Owns(g)' = Owns(g)
  BY <1>1 DEF Owns
<1>8. OwnsOK' /\ SeesOK'
  BY <1>1, <1>7 DEF OwnsOK, SeesOK
<1>9. PutOK'
  <2>1. ASSUME NEW g \in Handler PROVE PutOKFor(g)'
    <3>1. hpc[g] = "put" /\ req[g].old # NoToken =>
             req[g].token \in Token /\ left[req[g].token] = period[req[g].token]
      BY <1>0 DEF RequestTypes, PutOK
    <3>2. hpc[g] = "put" /\ req[g].old # NoToken => left'[req[g].token] = left[req[g].token]
      BY <1>1, <3>1
    <3> QED
      BY <1>1, <3>2 DEF PutOK, PutOKFor
  <2> QED
    BY <2>1 DEF PutOK, PutOKFor
<1>10. TrackOK'
  <2> SUFFICES ASSUME entry \in Token, ~excused PROVE Tracked'
    BY <1>1 DEF TrackOK
  <2>1. Tracked
    BY DEF TrackOK
  <2>2. left[entry] <= left'[entry] /\ left'[entry] \in Nat
    BY <1>1, <1>3, <2>1 DEF TokensOK, Tracked
  <2>3. period[u] <= left'[entry]
    <3>1. u = entry \/ period[u] <= left[entry]
      BY <1>1, <2>1 DEF Tracked
    <3> QED
      BY <1>1, <1>2, <1>3, <2>2, <3>1
  <2>4. cache' # None /\ 1 <= cache' /\ OneDay <= cache' /\ cache' <= left'[entry]
    BY <1>1, <1>2, <2>3 DEF OneDay
  <2>5. ASSUME NEW j \in Checker, cpc'[j] # "idle"
        PROVE  using'[j] = entry \/ period[using'[j]] <= left'[entry]
    <3>1. j # k /\ cpc[j] # "idle" /\ using'[j] = using[j] /\ using[j] \in Token
      BY <1>0, <1>5, <2>5 DEF CheckTypes
    <3>2. using[j] = entry \/ period[using[j]] <= left[entry]
      BY <2>1, <3>1 DEF Tracked
    <3>3. period[using[j]] \in Nat /\ left[entry] \in Nat
      BY <1>3, <3>1
    <3> QED
      BY <2>2, <3>1, <3>2, <3>3
  <2> QED
    BY <1>1, <2>1, <2>4, <2>5 DEF Tracked
<1> QED
  BY <1>4, <1>6, <1>8, <1>9, <1>10

LEMMA AdvanceInv == ASSUME IInv, Advance PROVE Rest'
<1> USE TokenAssumption DEF IInv, Rest
<1>0. TokenTypes /\ RequestTypes /\ CheckTypes /\ OtherTypes
  BY DEF IType
<1>1. /\ UNCHANGED <<period, entry, excused, hpc, req, cpc, using>>
      /\ \A h \in Handler : hpc[h] = "idle"
      /\ \A k \in Checker : cpc[k] = "idle"
      /\ checked' = FALSE
  BY DEF Advance, stored, requests, checks
<1>2. \A t \in Token :
          /\ life'[t] = IF life[t] = "live" /\ left[t] = 1 THEN "dead" ELSE life[t]
          /\ left'[t] = IF life[t] = "live" THEN left[t] - 1 ELSE left[t]
  BY DEF Advance
<1>3. \A t \in Token : left[t] \in Nat /\ period[t] \in Nat
  <2>1. Periods \subseteq Nat /\ 0 \in Nat
    BY TokenAssumption
  <2> QED
    BY <1>0, <2>1 DEF TokenTypes
<1>4. TokensOK'
  <2>1. ASSUME NEW t \in Token
        PROVE  /\ life'[t] # "unborn" => period'[t] \in Periods /\ left'[t] <= period'[t]
               /\ life'[t] = "live" => left'[t] >= 1
    <3>1. /\ life[t] # "unborn" => period[t] \in Periods /\ left[t] <= period[t]
          /\ life[t] = "live" => left[t] >= 1
      BY DEF TokensOK
    <3> QED
      BY <1>1, <1>2, <1>3, <3>1
  <2> QED
    BY <2>1 DEF TokensOK
<1>5. BornOK'
  <2>1. Unborn' = Unborn
    BY <1>2 DEF Unborn
  <2> QED
    BY <1>1, <2>1 DEF BornOK
<1>6. \A h \in Handler : Owns(h)' = {}
  BY <1>1 DEF Owns
<1>7. OwnsOK' /\ PutOK' /\ SeesOK'
  BY <1>1, <1>6 DEF OwnsOK, PutOK, SeesOK
<1>8. TrackOK'
  <2> SUFFICES ASSUME entry \in Token, ~excused PROVE Tracked'
    BY <1>1 DEF TrackOK
  <2>1. Tracked /\ checked
    BY DEF TrackOK, Advance
  <2>2. cache \in Nat /\ 2 <= cache /\ cache <= left[entry]
    BY <1>0, <2>1 DEF Tracked, OtherTypes, OneDay
  <2>3. cache' = cache - 1
    BY <2>2 DEF Advance
  <2>4. life'[entry] = "live" /\ left'[entry] = left[entry] - 1
    BY <1>2, <1>3, <2>1, <2>2 DEF Tracked
  <2> QED
    BY <1>1, <1>3, <2>2, <2>3, <2>4 DEF Tracked
<1> QED
  BY <1>4, <1>5, <1>7, <1>8

LEMMA CrashInv == ASSUME IInv, Crash PROVE Rest'
<1> USE TokenAssumption DEF IInv, Rest
<1>1. /\ UNCHANGED <<life, period, left, entry, excused>>
      /\ hpc' = [h \in Handler |-> "idle"] /\ req' = [h \in Handler |-> NoRequest]
      /\ cpc' = [k \in Checker |-> "idle"] /\ using' = [k \in Checker |-> NoToken]
      /\ cache' = None /\ checked' = FALSE
  BY DEF Crash, tokens, stored
<1>2. TokensOK'
  BY <1>1 DEF TokensOK
<1>3. BornOK'
  BY <1>1 DEF BornOK, Unborn, NoRequest
<1>4. \A h \in Handler : Owns(h)' = {}
  BY <1>1 DEF Owns
<1>5. OwnsOK' /\ PutOK' /\ SeesOK'
  BY <1>1, <1>4 DEF OwnsOK, PutOK, SeesOK
<1>6. TrackOK'
  BY <1>1 DEF TrackOK, Tracked
<1> QED
  BY <1>2, <1>3, <1>5, <1>6
-----------------------------------------------------------------------------
(* The theorems *)

LEMMA ServeInv == ASSUME IInv, NEW h \in Handler, Serve(h) PROVE Rest'
<1>1. CASE Begin(h)
  BY <1>1, ArriveInv, ArriveWithInv DEF Begin
<1>2. CASE Load(h)
  BY <1>2, LoadInv
<1>3. CASE UnwrapFails(h) \/ CreateOrphanFails(h) \/ PutFails(h)
  BY <1>3, EndInv DEF UnwrapFails, CreateOrphanFails, PutFails
<1>4. CASE CreateOrphan(h)
  BY <1>4, CreateOrphanInv
<1>5. CASE PutConfiguration(h)
  BY <1>5, PutInv
<1>6. CASE RevokeOld(h)
  BY <1>6, RevokeInv
<1> QED
  BY <1>1, <1>2, <1>3, <1>4, <1>5, <1>6 DEF Serve

LEMMA NextInv == IInv /\ [Next]_vars => IInv'
<1> SUFFICES ASSUME IInv, [Next]_vars PROVE IInv'
  OBVIOUS
<1>1. IType /\ TokensOK /\ BornOK
  BY DEF IInv, Rest
<1>2. ASSUME NEW h \in Handler, Serve(h) PROVE IInv'
  <2>1. IType'
    BY <1>1, <1>2, ServeType
  <2> QED
    BY <1>2, <2>1, ServeInv DEF IInv
<1>3. ASSUME NEW k \in Checker, Check(k) PROVE IInv'
  <2>1. IType'
    BY <1>1, <1>3, OtherStepType
  <2> QED
    BY <1>3, <2>1, CheckInv, RenewInv DEF IInv, Check
<1>4. CASE DeleteConfiguration \/ Advance \/ Crash
  <2>1. IType'
    BY <1>1, <1>4, OtherStepType
  <2> QED
    BY <1>4, <2>1, DeleteInv, AdvanceInv, CrashInv DEF IInv
<1>5. CASE UNCHANGED vars
  <2>1. IType'
    BY <1>1, <1>5 DEF vars, tokens, stored, requests, checks, IType, TokenTypes, RequestTypes,
       CheckTypes, OtherTypes
  <2>2. TrackOK' /\ BornOK'
    BY <1>5 DEF vars, tokens, stored, requests, checks, IInv, Rest, TrackOK, Tracked, BornOK,
       Unborn
  <2> QED
    BY <1>5, <2>1, <2>2, CheckKeeps DEF IInv, Rest, vars
<1> QED
  BY <1>2, <1>3, <1>4, <1>5 DEF Next

\* The strengthening of the token's properties holds at every step of requests and
\* checks (vault_client/backend.go:111-192, backend.go:154-202).
THEOREM InvariantCorrect == Spec => []IInv
<1>1. Init => IInv
  BY InitType, InitRest DEF IInv
<1> QED
  BY <1>1, NextInv, PTL DEF Spec

\* Every variable has its type, whatever requests, checks and failures there are.
THEOREM TokenTypeCorrect == Spec => []TypeOK
<1>1. IInv => TypeOK
  BY TypeParts DEF IInv
<1> QED
  BY <1>1, InvariantCorrect, PTL

\* The stored token lives, at any moment of any number of rotations, renewals,
\* failures and restarts, unless it is excused (backend.go, vault_client/backend.go:180).
THEOREM TokenLiveCorrect == Spec => []StoredTokenLive
<1>1. IInv => StoredTokenLive
  BY DEF IInv, Rest, TrackOK, Tracked, StoredTokenLive
<1> QED
  BY <1>1, InvariantCorrect, PTL

\* The request that stores an empty token over one gives it, or did not see the one.
LEMMA LosesUnseen ==
    ASSUME IInv, Next, entry \in Token, entry' = NoToken
    PROVE  \E h \in Handler : /\ hpc[h] = "put" /\ hpc'[h] = "idle"
                              /\ ~req[h].sees \/ req[h].given = NoToken
<1> USE TokenAssumption
<1>a. ASSUME NEW h \in Handler, Serve(h), ~PutConfiguration(h) PROVE entry' = entry
  BY <1>a DEF Serve, Begin, Arrive, ArriveWith, Load, UnwrapFails, CreateOrphan,
     CreateOrphanFails, PutFails, RevokeOld, stored
<1>b. ASSUME NEW k \in Checker, Check(k) PROVE entry' = entry
  BY <1>b DEF Check, CheckConfig, ReadCache, Reload, Renew, RenewFails, stored
<1>c. (DeleteConfiguration => entry' = None) /\ (Advance \/ Crash => entry' = entry)
  BY DEF DeleteConfiguration, Advance, Crash, stored
<1>d. entry # NoToken /\ entry' # entry /\ entry' # None
  OBVIOUS
<1>1. PICK h \in Handler : PutConfiguration(h)
  BY <1>a, <1>b, <1>c, <1>d DEF Next
<1>2. /\ hpc[h] = "put" /\ req[h].token = NoToken
      /\ hpc'[h] = IF req[h].old # NoToken THEN "revoke" ELSE "idle"
  BY <1>1, TypeParts, PutEffect DEF IInv, PutConfiguration
<1>3. req[h].old = NoToken /\ req[h].given \in {NoToken, None}
  BY <1>2 DEF IInv, IType, RequestTypes, Rest, PutOK
<1>4. ~req[h].sees \/ req[h].given = NoToken
  BY <1>2, <1>3 DEF IInv, Rest, SeesOK
<1> QED
  BY <1>2, <1>3, <1>4

\* A stored token is lost only to a request that gives an empty one, that could not
\* read it, or that was overtaken after it had read the configuration
\* (vault_client/backend.go:123, :147).
THEOREM TokenPreservedCorrect == Spec => TokenPreserved
<1>1. IInv /\ [Next]_vars =>
        [(entry \in Token /\ entry' = NoToken) =>
            \E h \in Handler : /\ hpc[h] = "put" /\ hpc'[h] = "idle"
                               /\ ~req[h].sees \/ req[h].given = NoToken]_vars
  BY LosesUnseen
<1> QED
  BY <1>1, InvariantCorrect, PTL DEF Spec, TokenPreserved
=============================================================================
