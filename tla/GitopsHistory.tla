--------------------------- MODULE GitopsHistory ---------------------------
(***************************************************************************)
(* GitopsPeriodic with history variables that remember what has been       *)
(* configured, signed and trusted while a search was running, so that it   *)
(* can be said of a commit in place whether it had been signed as          *)
(* required.                                                               *)
(***************************************************************************)
EXTENDS GitopsPeriodic

VARIABLES
    saw,        \* for every call, what there was to see since its search began
    allowed,    \* the commits that such a search may answer
    disturbed,  \* the calls under whose search one of its inputs was changed
    excused,    \* the commits answered by a disturbed search
    compliant   \* the commits that met the policy in force at one moment

history == <<saw, allowed, disturbed, excused, compliant>>
hvars   == <<vars, history>>

-----------------------------------------------------------------------------
\* The numbers of signatures configured at some moment since the search began,
\* the signatures on the remote when it was cloned, and the keys stored at some
\* moment since then.
Sight == [numbers : SUBSET Required, signed : Signed, keys : SUBSET Key]
Nothing == [numbers |-> {}, signed |-> Unsigned, keys |-> {}]

InSearch == {"configure", "clone", "list", "keys"}
Cloned   == {"list", "keys"}

NumbersNow == IF config # NoConfig THEN {config.required} ELSE {}

\* Signed by enough of the keys, for one of the numbers.
Endorsed(sight) ==
    {c \in Commit : \E r \in sight.numbers :
        r = 0 \/ (r > 0 /\ Cardinality(sight.signed[c] \cap sight.keys) >= r)}

\* What a call has seen after a step.
Look(p) ==
    [numbers |-> IF pc'[p] \in InSearch THEN saw[p].numbers \cup NumbersNow' ELSE {},
     signed  |-> IF pc'[p] \notin Cloned THEN Unsigned
                 ELSE IF pc[p] = "clone" THEN signers ELSE saw[p].signed,
     keys    |-> IF pc'[p] \in Cloned THEN saw[p].keys \cup Stored' ELSE {}]

\* A step that changes what the search of a call has read or goes by: the
\* configuration until the keys are listed, a signature that is taken away between
\* the clone and the list, or the key under a name that is listed and not fetched.
Disturbs(p) ==
    \/ pc[p] \in {"clone", "list"} /\ config' # config
    \/ pc[p] = "list" /\ \E c \in Commit : ~(signers[c] \subseteq signers'[c])
    \/ pc[p] = "keys" /\ \E n \in run[p].left : trusted'[n] \notin {trusted[n], NoKey}

\* The commits that the policy of the moment admits.
Compliant == Endorsed([numbers |-> NumbersNow, signed |-> signers, keys |-> Stored])

HInit ==
    /\ Init
    /\ saw = [p \in Tick |-> Nothing]
    /\ allowed = {}
    /\ disturbed = {}
    /\ excused = {}
    /\ compliant = Compliant

Remember ==
    /\ saw' = [p \in Tick |-> Look(p)]
    /\ allowed' = allowed \cup UNION {Endorsed(saw'[p]) : p \in Tick}
    /\ disturbed' = {p \in Tick : pc'[p] \in InSearch /\ (p \in disturbed \/ Disturbs(p))}
    /\ excused' = excused \cup {run'[p].found : p \in {q \in disturbed : pc'[q] = "processing"}}
    /\ compliant' = compliant \cup Compliant'

HNext == Next /\ Remember

HSpec == HInit /\ [][HNext]_hvars

-----------------------------------------------------------------------------
Delivery == INSTANCE SignedDelivery WITH recorded <- lastFinished

\* The workflow keeps the promise of SignedDelivery: whatever operators and
\* committers change while it runs, and whatever fails, only commits reach the
\* target that had, when the remote was cloned, enough signatures by keys trusted
\* at some moment of the rest of the search, for a number configured at some moment
\* of it; and only those in place are recorded (git.go:45, :58, :70, :115).
DeliversOnlySigned == Delivery!Spec

\* What is in place met, at one moment, the policy in force at that moment.
TargetMetPolicy == target.commit # NoCommit => target.commit \in compliant

\* It did, unless a search was disturbed: keys and signatures that are added while
\* it runs, keys that are deleted, and anything that is changed before the number
\* is read or after the keys have been listed and fetched, make no difference
\* (git.go:45, :58, :70, pgp/storage.go:13-32).
StablePolicyMet == target.commit # NoCommit => target.commit \in compliant \cup excused
=============================================================================
