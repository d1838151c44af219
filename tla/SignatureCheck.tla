--------------------------- MODULE SignatureCheck ---------------------------
(***************************************************************************)
(* VerifyCommitSignatures (pkg/git/signatures.go) and the two nested loops *)
(* of VerifyPGPSignatures (pkg/pgp/util.go) that it runs, first over the   *)
(* signature inside the commit, then over those of the notes kept beside   *)
(* the branch.  Whether OpenPGP accepts a signature with a keyring is a    *)
(* relation chosen in the initial state.                                   *)
(***************************************************************************)
EXTENDS Integers, Sequences, FiniteSets, SequencesExt

CONSTANTS
    Keyring,    \* the stored public keys: each may hold several keys
    Signature,
    MaxNotes,   \* bound on the signatures in the notes of a commit
    Required    \* values of required_number_of_verified_signatures_on_commit

ASSUME SignatureAssumption == /\ IsFiniteSet(Keyring) /\ IsFiniteSet(Signature)
                              /\ MaxNotes \in Nat
                              /\ Required \subseteq Int

VARIABLES
    accepts,    \* for every signature the keyrings that verify it
    own,        \* the commit's own signature, or none
    notes,      \* the signatures that the notes hold for the commit
    required,   \* the configured number
    phase,      \* "own", "notes", "accepted" or "rejected"
    sigs,       \* signatures still to try in this phase
    keyrings,   \* trustedPGPPublicKeys: those not used up yet
    i,          \* index of the keyring to try next
    missing     \* requiredNumberOfVerifiedSignatures, counted down

input == <<accepts, own, notes, required>>
vars  == <<input, phase, sigs, keyrings, i, missing>>

Init ==
    /\ accepts \in [Signature -> SUBSET Keyring]
    /\ own \in {<<>>} \cup {<<s>> : s \in Signature}
    /\ notes \in UNION {[1..n -> Signature] : n \in 0..MaxNotes}
    /\ required \in Required
    /\ phase = "own"
    /\ sigs = own
    /\ keyrings = SetToSeq(Keyring)
    /\ i = 1
    /\ missing = required

\* VerifyPGPSignatures is done at once when nothing is required.
NoneRequired ==
    /\ phase \in {"own", "notes"} /\ missing = 0
    /\ phase' = "accepted"
    /\ UNCHANGED <<input, sigs, keyrings, i, missing>>

\* A variant of Mismatch that does not advance.
MismatchAgain ==
    /\ phase \in {"own", "notes"} /\ missing # 0
    /\ sigs # <<>> /\ i <= Len(keyrings)
    /\ keyrings[i] \notin accepts[Head(sigs)]
    /\ UNCHANGED vars

\* The next keyring does not verify the signature: try the one after it.
Mismatch ==
    /\ phase \in {"own", "notes"} /\ missing # 0
    /\ sigs # <<>> /\ i <= Len(keyrings)
    /\ keyrings[i] \notin accepts[Head(sigs)]
    /\ i' = i + 1
    /\ UNCHANGED <<input, phase, sigs, keyrings, missing>>

\* A variant of Match that leaves the keyring for further signatures.
MatchReusing ==
    /\ phase \in {"own", "notes"} /\ missing # 0
    /\ sigs # <<>> /\ i <= Len(keyrings)
    /\ keyrings[i] \in accepts[Head(sigs)]
    /\ missing' = missing - 1
    /\ phase' = IF missing' = 0 THEN "accepted" ELSE phase
    /\ sigs' = Tail(sigs)
    /\ i' = 1
    /\ UNCHANGED <<input, keyrings>>

\* It does: one signature less is missing and the keyring is used up.
Match ==
    /\ phase \in {"own", "notes"} /\ missing # 0
    /\ sigs # <<>> /\ i <= Len(keyrings)
    /\ keyrings[i] \in accepts[Head(sigs)]
    /\ missing' = missing - 1
    /\ phase' = IF missing' = 0 THEN "accepted" ELSE phase
    /\ keyrings' = RemoveAt(keyrings, i)
    /\ sigs' = Tail(sigs)
    /\ i' = 1
    /\ UNCHANGED input

\* A variant of NextSignature that goes on with the keyring after the last one.
NextSignatureSameIndex ==
    /\ phase \in {"own", "notes"} /\ missing # 0
    /\ sigs # <<>> /\ i > Len(keyrings)
    /\ sigs' = Tail(sigs)
    /\ UNCHANGED <<input, phase, keyrings, i, missing>>

\* No keyring verifies the signature: it does not count.
NextSignature ==
    /\ phase \in {"own", "notes"} /\ missing # 0
    /\ sigs # <<>> /\ i > Len(keyrings)
    /\ sigs' = Tail(sigs)
    /\ i' = 1
    /\ UNCHANGED <<input, phase, keyrings, missing>>

\* verifyObjectSignatures reads the notes; none for the commit is an error.
ReadNotes ==
    /\ phase = "own" /\ missing # 0 /\ sigs = <<>>
    /\ phase' = IF notes = <<>> THEN "rejected" ELSE "notes"
    /\ sigs' = notes
    /\ i' = 1
    /\ UNCHANGED <<input, keyrings, missing>>

NotEnough ==
    /\ phase = "notes" /\ missing # 0 /\ sigs = <<>>
    /\ phase' = "rejected"
    /\ UNCHANGED <<input, sigs, keyrings, i, missing>>

Next == NoneRequired \/ Mismatch \/ Match \/ NextSignature \/ ReadNotes \/ NotEnough

Spec == Init /\ [][Next]_vars /\ WF_vars(Next)

-----------------------------------------------------------------------------
(* Properties *)

Signatures == own \o notes

\* Some n of the signatures can be verified with n different keyrings.
Matching(n) ==
    \E ps \in SUBSET DOMAIN Signatures :
        /\ Cardinality(ps) = n
        /\ \E m \in [ps -> Keyring] :
              /\ \A p \in ps : m[p] \in accepts[Signatures[p]]
              /\ \A p, q \in ps : m[p] = m[q] => p = q

\* An accepted commit carries as many signatures by different keyrings as were
\* required, however often one key has signed; a negative number is never met.
AcceptsOnlySigned ==
    phase = "accepted" => required >= 0 /\ Matching(required)

\* When no signature is verified by two keyrings, a commit with the required
\* signatures is never rejected, whatever the order of signatures and keyrings.
DisjointAccepted ==
    /\ phase = "rejected"
    /\ \A s \in Signature : Cardinality(accepts[s]) <= 1
    => ~(required >= 0 /\ Matching(required))

\* The keyrings that verify one of the signatures.
Signers == {k \in Keyring : \E p \in DOMAIN Signatures : k \in accepts[Signatures[p]]}

\* The verdict that the workflow's model (Verified in GitopsPeriodic) has, which
\* only counts signers: an accepted commit has as many as are required, and a
\* rejected one has not when no signature is verified by two keyrings.
Enough == \/ required = 0
          \/ required > 0 /\ Cardinality(Signers) >= required
VerdictCountsSigners ==
    /\ phase = "accepted" => Enough
    /\ phase = "rejected" /\ (\A s \in Signature : Cardinality(accepts[s]) <= 1) => ~Enough

\* Every check comes to a verdict.
CheckEnds == <>(phase \in {"accepted", "rejected"})
=============================================================================
