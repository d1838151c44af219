-------------------------- MODULE SignatureProofs --------------------------
(***************************************************************************)
(* Proofs about SignatureCheck, for any keyrings, signatures, numbers of   *)
(* notes and numbers that are required: the commits it accepts have the    *)
(* required signatures, and it rejects none that has them as long as no    *)
(* signature is verified by two keyrings.                                  *)
(***************************************************************************)
EXTENDS SignatureCheck, FiniteSetTheorems, SequenceTheorems, TLAPS

\* The keyrings that have been used up, and how many signatures have been tried.
Used  == Keyring \ {keyrings[j] : j \in 1..Len(keyrings)}
All   == Len(own) + Len(notes)
Tried == IF phase = "own" THEN Len(own) - Len(sigs)
         ELSE IF phase = "notes" THEN All - Len(sigs) ELSE All

Searching == phase \in {"own", "notes"}

Types ==
    /\ accepts \in [Signature -> SUBSET Keyring]
    /\ own \in Seq(Signature) /\ notes \in Seq(Signature) /\ sigs \in Seq(Signature)
    /\ required \in Int /\ missing \in Int
    /\ phase \in {"own", "notes", "accepted", "rejected"}
    /\ keyrings \in Seq(Keyring) /\ i \in Nat \ {0}

\* Every signature that has counted has used up a keyring.
Counted ==
    /\ IsInjective(keyrings)
    /\ Cardinality(Used) = required - missing
    /\ required >= 0 => missing >= 0
    /\ phase = "accepted" => missing = 0
    /\ phase = "rejected" => missing # 0

\* What is to be tried are the signatures after those that have been.
ToTry ==
    /\ Tried \in 0..All
    /\ Searching => \A j \in 1..Len(sigs) :
                       Tried + j <= All /\ sigs[j] = Signatures[Tried + j]

\* The positions ps of signatures that have been tried and the keyrings m that
\* have been used up for them.
Assigned(ps, m) ==
    /\ ps \subseteq 1..Tried /\ m \in [ps -> Used]
    /\ \A p \in ps : m[p] \in accepts[Signatures[p]]
    /\ \A p, q \in ps : m[p] = m[q] => p = q

Matched == \E ps \in SUBSET (1..Tried) : \E m \in [ps -> Used] :
              Assigned(ps, m) /\ Cardinality(ps) = required - missing

Disjoint == \A s \in Signature : Cardinality(accepts[s]) <= 1

\* When no signature is verified by two keyrings, those that verify one that has
\* been tried are used up, and those before the next one do not verify it.
Exhausted ==
    Disjoint =>
        /\ phase # "accepted" => \A p \in 1..Tried : accepts[Signatures[p]] \subseteq Used
        /\ Searching /\ sigs # <<>> =>
              \A j \in 1..Len(keyrings) : j < i => keyrings[j] \notin accepts[Head(sigs)]

IInv == Types /\ Counted /\ ToTry /\ Matched /\ Exhausted

-----------------------------------------------------------------------------
(* Sequences *)

\* RemoveAt takes away one element and keeps the order of the others.
LEMMA RemoveAtFacts ==
    ASSUME NEW S, NEW s \in Seq(S), NEW n \in 1..Len(s)
    PROVE  /\ RemoveAt(s, n) \in Seq(S)
           /\ Len(RemoveAt(s, n)) = Len(s) - 1
           /\ \A j \in 1..(Len(s) - 1) : RemoveAt(s, n)[j] = IF j < n THEN s[j] ELSE s[j + 1]
<1> DEFINE a == SubSeq(s, 1, n - 1)
           b == SubSeq(s, n + 1, Len(s))
<1>1. Len(s) \in Nat /\ \A j \in 1..Len(s) : s[j] \in S
  OBVIOUS
<1>2. /\ a \in Seq(S) /\ Len(a) = n - 1
      /\ \A j \in 1..(n - 1) : a[j] = s[j]
  <2>1. \A j \in 1..(n - 1) : s[j] \in S
    BY <1>1
  <2>2. /\ a \in Seq(S) /\ Len(a) = IF 1 <= n - 1 THEN (n - 1) - 1 + 1 ELSE 0
        /\ \A j \in 1..((n - 1) - 1 + 1) : a[j] = s[1 + j - 1]
    BY <1>1, <2>1, SubSeqProperties
  <2> HIDE DEF a
  <2> QED
    BY <1>1, <2>2
<1>3. /\ b \in Seq(S) /\ Len(b) = Len(s) - n
      /\ \A j \in 1..(Len(s) - n) : b[j] = s[n + j]
  <2>1. \A j \in (n + 1)..Len(s) : s[j] \in S
    BY <1>1
  <2>2. /\ b \in Seq(S) /\ Len(b) = IF n + 1 <= Len(s) THEN Len(s) - (n + 1) + 1 ELSE 0
        /\ \A j \in 1..(Len(s) - (n + 1) + 1) : b[j] = s[(n + 1) + j - 1]
    BY <1>1, <2>1, SubSeqProperties
  <2> HIDE DEF b
  <2> QED
    BY <1>1, <2>2
<1>4. RemoveAt(s, n) = a \o b
  BY DEF RemoveAt
<1> HIDE DEF a, b
<1>5. /\ a \o b \in Seq(S) /\ Len(a \o b) = Len(a) + Len(b)
      /\ \A j \in 1..(Len(a) + Len(b)) : (a \o b)[j] = IF j <= Len(a) THEN a[j] ELSE b[j - Len(a)]
  BY <1>2, <1>3, ConcatProperties
<1> QED
  BY <1>1, <1>2, <1>3, <1>4, <1>5

\* So it removes one element of a sequence that has none twice.
LEMMA RemoveAtInjective ==
    ASSUME NEW S, NEW s \in Seq(S), NEW n \in 1..Len(s), IsInjective(s)
    PROVE  /\ IsInjective(RemoveAt(s, n))
           /\ {RemoveAt(s, n)[j] : j \in 1..Len(RemoveAt(s, n))}
                 = {s[j] : j \in 1..Len(s)} \ {s[n]}
<1> DEFINE r == RemoveAt(s, n)
<1>0. Len(s) \in Nat
  OBVIOUS
<1>1. /\ r \in Seq(S) /\ Len(r) = Len(s) - 1
      /\ \A j \in 1..(Len(s) - 1) : r[j] = IF j < n THEN s[j] ELSE s[j + 1]
  BY RemoveAtFacts
<1> USE <1>0
<1> HIDE DEF r
<1>2. \A j, k \in 1..Len(s) : s[j] = s[k] => j = k
  BY DEF IsInjective
<1>3. \A j, k \in 1..Len(r) : r[j] = r[k] => j = k
  BY <1>1, <1>2
<1>4. IsInjective(r)
  BY <1>1, <1>3 DEF IsInjective
<1>5. ASSUME NEW j \in 1..Len(r) PROVE r[j] \in {s[k] : k \in 1..Len(s)} \ {s[n]}
  <2>1. CASE j < n
    BY <1>1, <1>2, <2>1
  <2>2. CASE ~(j < n)
    <3>1. j + 1 \in 1..Len(s) /\ j + 1 # n /\ r[j] = s[j + 1]
      BY <1>1, <2>2
    <3> QED
      BY <1>2, <3>1
  <2> QED
    BY <2>1, <2>2
<1>6. ASSUME NEW k \in 1..Len(s), k # n PROVE s[k] \in {r[j] : j \in 1..Len(r)}
  <2>1. CASE k < n
    <3>1. k \in 1..Len(r) /\ r[k] = s[k]
      BY <1>1, <2>1
    <3> QED
      BY <3>1
  <2>2. CASE ~(k < n)
    <3>1. k - 1 \in 1..Len(r) /\ r[k - 1] = s[k]
      BY <1>1, <1>6, <2>2
    <3> QED
      BY <3>1
  <2> QED
    BY <2>1, <2>2
<1>7. {r[j] : j \in 1..Len(r)} = {s[j] : j \in 1..Len(s)} \ {s[n]}
  BY <1>5, <1>6
<1> QED
  BY <1>4, <1>7 DEF r

\* SetToSeq lists every element of a finite set once.
LEMMA SetToSeqFacts ==
    ASSUME NEW S, IsFiniteSet(S)
    PROVE  /\ SetToSeq(S) \in Seq(S) /\ IsInjective(SetToSeq(S))
           /\ {SetToSeq(S)[j] : j \in 1..Len(SetToSeq(S))} = S
<1> DEFINE n == Cardinality(S)
           f == SetToSeq(S)
<1>1. n \in Nat /\ ExistsBijection(1..n, S)
  BY FS_CardinalityType
<1>2. \E g \in [1..n -> S] : IsInjective(g)
  BY <1>1 DEF ExistsBijection, Bijection, Injection
<1>3. f \in [1..n -> S] /\ IsInjective(f)
  BY <1>2 DEF SetToSeq
<1> HIDE DEF f
<1>4. f \in Seq(S) /\ Len(f) = n
  BY <1>1, <1>3
<1>5. IsFiniteSet(1..n) /\ Cardinality(1..n) = n
  <2>1. 1 \in Int /\ n \in Int
    BY <1>1
  <2>2. /\ IsFiniteSet(1..n)
        /\ Cardinality(1..n) = IF 1 > n THEN 0 ELSE n - 1 + 1
    BY <2>1, FS_Interval
  <2> HIDE DEF n
  <2> QED
    BY <1>1, <2>2
<1>6. f \in Surjection(1..n, S)
  <2>1. f \in Injection(1..n, S)
    BY <1>3 DEF Injection
  <2> QED
    BY <1>5, <2>1, FS_Injection
<1>7. \A x \in S : \E j \in 1..n : f[j] = x
  BY <1>6 DEF Surjection
<1> QED
  BY <1>3, <1>4, <1>7 DEF f
-----------------------------------------------------------------------------
(* The invariant *)

LEMMA SignaturesFacts ==
    ASSUME Types
    PROVE  /\ Len(own) \in Nat /\ Len(notes) \in Nat /\ All \in Nat /\ Len(sigs) \in Nat
           /\ Signatures \in Seq(Signature) /\ Len(Signatures) = All
           /\ DOMAIN Signatures = 1..All
           /\ \A j \in 1..All : Signatures[j] = IF j <= Len(own) THEN own[j]
                                                ELSE notes[j - Len(own)]
<1>1. Len(own) \in Nat /\ Len(notes) \in Nat /\ Len(sigs) \in Nat
  BY DEF Types
<1>2. /\ own \o notes \in Seq(Signature) /\ Len(own \o notes) = Len(own) + Len(notes)
      /\ \A j \in 1..(Len(own) + Len(notes)) :
            (own \o notes)[j] = IF j <= Len(own) THEN own[j] ELSE notes[j - Len(own)]
  BY ConcatProperties DEF Types
<1>3. DOMAIN Signatures = 1..Len(Signatures)
  BY <1>2 DEF Signatures
<1> QED
  BY <1>1, <1>2, <1>3 DEF Signatures, All

LEMMA UsedFacts == ASSUME Types PROVE IsFiniteSet(Used) /\ Cardinality(Used) \in Nat
<1>1. IsFiniteSet(Used)
  BY SignatureAssumption, FS_Subset DEF Used
<1> QED
  BY <1>1, FS_CardinalityType

\* Nothing is assigned to another signature while more are tried.
LEMMA MatchedGrows ==
    ASSUME Matched, Types, UNCHANGED <<input, missing>>, Used' = Used,
           Tried \in Nat, Tried' \in Nat, Tried <= Tried'
    PROVE  Matched'
<1>1. PICK ps \in SUBSET (1..Tried) : \E m \in [ps -> Used] :
          Assigned(ps, m) /\ Cardinality(ps) = required - missing
  BY DEF Matched
<1>2. PICK m \in [ps -> Used] : Assigned(ps, m) /\ Cardinality(ps) = required - missing
  BY <1>1
<1>3. ps \in SUBSET (1..Tried')
  OBVIOUS
<1>4. required' = required /\ missing' = missing /\ accepts' = accepts /\ Signatures' = Signatures
  BY DEF input, Signatures
<1>5. Assigned(ps, m)'
  BY <1>2, <1>3, <1>4 DEF Assigned
<1>6. m \in [ps -> Used'] /\ Cardinality(ps) = required' - missing'
  BY <1>2, <1>4
<1> QED
  BY <1>3, <1>5, <1>6 DEF Matched

LEMMA OnlyElement ==
    ASSUME NEW S, IsFiniteSet(S), Cardinality(S) <= 1, NEW x \in S
    PROVE  S = {x}
<1>1. IsFiniteSet({x}) /\ Cardinality({x}) = 1
  BY FS_Singleton
<1>2. {x} \in SUBSET S
  OBVIOUS
<1>3. Cardinality(S) \in Nat
  BY FS_CardinalityType
<1>4. Cardinality({x}) <= Cardinality(S)
  BY <1>2, FS_Subset
<1>5. Cardinality({x}) = Cardinality(S)
  BY <1>1, <1>3, <1>4
<1> QED
  BY <1>2, <1>5, FS_Subset

LEMMA InitInv == Init => IInv
<1> SUFFICES ASSUME Init PROVE IInv
  OBVIOUS
<1> USE SignatureAssumption
<1>1. own \in Seq(Signature) /\ sigs = own
  <2>1. own = <<>> \/ \E x \in Signature : own = <<x>>
    BY DEF Init
  <2>2. ASSUME NEW x \in Signature PROVE <<x>> \in Seq(Signature)
    OBVIOUS
  <2>3. <<>> \in Seq(Signature)
    OBVIOUS
  <2> QED
    BY <2>1, <2>2, <2>3 DEF Init
<1>2. notes \in Seq(Signature)
  <2>1. PICK n \in 0..MaxNotes : notes \in [1..n -> Signature]
    BY DEF Init
  <2>2. n \in Nat
    OBVIOUS
  <2> QED
    BY <2>1, <2>2
<1>3. /\ keyrings \in Seq(Keyring) /\ IsInjective(keyrings)
      /\ {keyrings[j] : j \in 1..Len(keyrings)} = Keyring
  <2>1. keyrings = SetToSeq(Keyring) /\ IsFiniteSet(Keyring)
    BY DEF Init
  <2>2. /\ SetToSeq(Keyring) \in Seq(Keyring) /\ IsInjective(SetToSeq(Keyring))
        /\ {SetToSeq(Keyring)[j] : j \in 1..Len(SetToSeq(Keyring))} = Keyring
    BY <2>1, SetToSeqFacts
  <2> QED
    BY <2>1, <2>2
<1>4. accepts \in [Signature -> SUBSET Keyring] /\ required \in Int /\ missing = required
      /\ phase = "own" /\ i = 1
  BY DEF Init
<1>5. Types
  BY <1>1, <1>2, <1>3, <1>4 DEF Types
<1>6. Used = {} /\ Cardinality({}) = 0 /\ IsFiniteSet({})
  BY <1>3, FS_EmptySet DEF Used
<1>7. Counted
  BY <1>3, <1>4, <1>6 DEF Counted
<1>8. Tried = 0
  BY <1>1, <1>4, <1>5, SignaturesFacts DEF Tried
<1>9. ToTry
  BY <1>1, <1>5, <1>8, SignaturesFacts DEF ToTry, All
<1>10. Matched
  <2>1. {} \in SUBSET (1..Tried) /\ \A m \in [{} -> Used] : Assigned({}, m)
    BY DEF Assigned
  <2>2. Cardinality({}) = required - missing
    BY <1>4, <1>6
  <2>3. [x \in {} |-> x] \in [{} -> Used]
    OBVIOUS
  <2> QED
    BY <2>1, <2>2, <2>3 DEF Matched
<1>11. Exhausted
  BY <1>4, <1>5, <1>8 DEF Exhausted, Types
<1> QED
  BY <1>5, <1>7, <1>9, <1>10, <1>11 DEF IInv

LEMMA NoneRequiredInv == ASSUME IInv, NoneRequired PROVE IInv'
<1> USE DEF IInv, input
<1>1. /\ UNCHANGED <<accepts, own, notes, required, sigs, keyrings, i, missing>>
      /\ missing = 0 /\ phase' = "accepted" /\ ~Searching'
  BY DEF NoneRequired, Searching
<1>2. Types'
  BY <1>1 DEF Types
<1>3. Used' = Used /\ Tried' = All /\ All' = All
  BY <1>1 DEF Used, Tried, All
<1>4. Counted'
  BY <1>1, <1>3 DEF Counted
<1>5. Tried \in 0..All /\ All \in Nat
  BY SignaturesFacts DEF ToTry
<1>6. ToTry'
  BY <1>1, <1>3, <1>5 DEF ToTry
<1>7. Matched'
  BY <1>1, <1>3, <1>5, MatchedGrows
<1>8. Exhausted'
  BY <1>1 DEF Exhausted
<1> QED
  BY <1>2, <1>4, <1>6, <1>7, <1>8

LEMMA MismatchInv == ASSUME IInv, Mismatch PROVE IInv'
<1> USE DEF IInv, input
<1>1. /\ UNCHANGED <<accepts, own, notes, required, phase, sigs, keyrings, missing>>
      /\ i' = i + 1 /\ keyrings[i] \notin accepts[Head(sigs)]
  BY DEF Mismatch
<1>2. Types'
  BY <1>1 DEF Types
<1>3. Used' = Used /\ Tried' = Tried /\ All' = All /\ Signatures' = Signatures
  BY <1>1 DEF Used, Tried, All, Signatures
<1>4. Counted' /\ ToTry'
  BY <1>1, <1>3 DEF Counted, ToTry, Searching
<1>5. Matched'
  BY <1>1, <1>3, SignaturesFacts, MatchedGrows DEF ToTry
<1>6. Exhausted'
  <2>1. Disjoint' = Disjoint
    BY <1>1 DEF Disjoint
  <2>2. ASSUME Disjoint, phase' # "accepted"
        PROVE  \A p \in 1..Tried' : accepts'[Signatures'[p]] \subseteq Used'
    BY <1>1, <1>3, <2>2 DEF Exhausted
  <2>3. ASSUME Disjoint, Searching', sigs' # <<>>, NEW j \in 1..Len(keyrings'), j < i'
        PROVE  keyrings'[j] \notin accepts'[Head(sigs')]
    <3>1. j < i \/ j = i
      BY <1>1, <2>3 DEF Types
    <3> QED
      BY <1>1, <2>3, <3>1 DEF Exhausted, Searching
  <2> QED
    BY <2>1, <2>2, <2>3 DEF Exhausted
<1> QED
  BY <1>2, <1>4, <1>5, <1>6

\* The signature that is tried next.
LEMMA HeadFacts ==
    ASSUME IInv, Searching, sigs # <<>>
    PROVE  /\ Tried + 1 \in 1..All /\ Head(sigs) = Signatures[Tried + 1] /\ Head(sigs) \in Signature
           /\ Tail(sigs) \in Seq(Signature) /\ Len(Tail(sigs)) = Len(sigs) - 1
           /\ Len(sigs) >= 1
           /\ \A j \in 1..Len(Tail(sigs)) :
                 Tried + 1 + j <= All /\ Tail(sigs)[j] = Signatures[Tried + 1 + j]
<1>1. sigs \in Seq(Signature) /\ Len(sigs) \in Nat /\ Tried \in Nat /\ All \in Nat
  BY SignaturesFacts DEF IInv, Types, ToTry
<1>2. Len(sigs) >= 1 /\ Head(sigs) = sigs[1] /\ sigs[1] \in Signature
  BY <1>1
<1>3. /\ Tail(sigs) \in Seq(Signature) /\ Len(Tail(sigs)) = Len(sigs) - 1
      /\ \A j \in 1..(Len(sigs) - 1) : Tail(sigs)[j] = sigs[j + 1]
  BY <1>1, HeadTailProperties
<1>4. \A j \in 1..Len(sigs) : Tried + j <= All /\ sigs[j] = Signatures[Tried + j]
  BY DEF IInv, ToTry
<1>5. Tried + 1 \in 1..All /\ sigs[1] = Signatures[Tried + 1]
  BY <1>1, <1>2, <1>4
<1>6. ASSUME NEW j \in 1..(Len(sigs) - 1)
      PROVE  Tried + 1 + j <= All /\ Tail(sigs)[j] = Signatures[Tried + 1 + j]
  <2>1. j + 1 \in 1..Len(sigs) /\ Tried + (j + 1) = Tried + 1 + j
    BY <1>1
  <2> QED
    BY <1>3, <1>4, <2>1
<1> QED
  BY <1>2, <1>3, <1>5, <1>6

LEMMA MatchInv == ASSUME IInv, Match PROVE IInv'
<1> USE DEF IInv, input
<1> DEFINE p == Tried + 1
           k == keyrings[i]
<1>1. /\ UNCHANGED <<accepts, own, notes, required>>
      /\ Searching /\ missing # 0 /\ sigs # <<>> /\ i <= Len(keyrings)
      /\ k \in accepts[Head(sigs)]
      /\ missing' = missing - 1 /\ phase' = IF missing' = 0 THEN "accepted" ELSE phase
      /\ keyrings' = RemoveAt(keyrings, i) /\ sigs' = Tail(sigs) /\ i' = 1
  BY DEF Match, Searching
<1>2. /\ p \in 1..All /\ Head(sigs) = Signatures[p] /\ Head(sigs) \in Signature
      /\ Tail(sigs) \in Seq(Signature) /\ Len(Tail(sigs)) = Len(sigs) - 1 /\ Len(sigs) >= 1
      /\ \A j \in 1..Len(Tail(sigs)) : p + j <= All /\ Tail(sigs)[j] = Signatures[p + j]
  BY <1>1, HeadFacts
<1>3. i \in 1..Len(keyrings) /\ keyrings \in Seq(Keyring) /\ k \in Keyring
  BY <1>1 DEF Types
<1>4. /\ keyrings' \in Seq(Keyring) /\ IsInjective(keyrings')
      /\ {keyrings'[j] : j \in 1..Len(keyrings')} = {keyrings[j] : j \in 1..Len(keyrings)} \ {k}
  <2>1. IsInjective(keyrings)
    BY DEF Counted
  <2>2. RemoveAt(keyrings, i) \in Seq(Keyring)
    BY <1>3, RemoveAtFacts
  <2>3. /\ IsInjective(RemoveAt(keyrings, i))
        /\ {RemoveAt(keyrings, i)[j] : j \in 1..Len(RemoveAt(keyrings, i))}
              = {keyrings[j] : j \in 1..Len(keyrings)} \ {keyrings[i]}
    BY <1>3, <2>1, RemoveAtInjective
  <2>4. keyrings' = RemoveAt(keyrings, i)
    BY <1>1
  <2> QED
    BY <2>2, <2>3, <2>4
<1>5. Types'
  BY <1>1, <1>2, <1>4 DEF Types
<1>6. All' = All /\ Signatures' = Signatures
  BY <1>1 DEF All, Signatures
<1>7. Tried \in 0..All /\ All \in Nat /\ Len(own) \in Nat /\ Len(notes) \in Nat /\ Len(sigs) \in Nat
  BY SignaturesFacts DEF ToTry
<1>8. /\ Tried' \in 0..All /\ p <= Tried'
      /\ phase' # "accepted" => Tried' = p
  BY <1>1, <1>2, <1>6, <1>7 DEF Tried, Searching
<1>9. ToTry'
  BY <1>1, <1>2, <1>6, <1>8 DEF ToTry, Searching
<1>10. Used' = Used \cup {k} /\ k \notin Used
  BY <1>3, <1>4 DEF Used
<1>11. Cardinality(Used') = Cardinality(Used) + 1
  BY <1>10, UsedFacts, FS_AddElement
<1>12. Counted'
  <2>1. Cardinality(Used') = required' - missing'
    BY <1>1, <1>11 DEF Counted, Types
  <2>2. required' >= 0 => missing' >= 0
    BY <1>1 DEF Counted, Types
  <2>3. phase' # "rejected"
    BY <1>1 DEF Searching
  <2>4. phase' = "accepted" => missing' = 0
    BY <1>1 DEF Searching
  <2> QED
    BY <1>4, <2>1, <2>2, <2>3, <2>4 DEF Counted
<1>13. Matched'
  <2>1. PICK ps \in SUBSET (1..Tried) : \E m \in [ps -> Used] :
            Assigned(ps, m) /\ Cardinality(ps) = required - missing
    BY DEF Matched
  <2>2. PICK m \in [ps -> Used] : Assigned(ps, m) /\ Cardinality(ps) = required - missing
    BY <2>1
  <2>3. p \notin ps /\ ps \cup {p} \in SUBSET (1..Tried')
    BY <1>2, <1>7, <1>8
  <2>4. PICK qs \in SUBSET (1..Tried') : qs = ps \cup {p}
    BY <2>3
  <2>5. [q \in qs |-> IF q = p THEN k ELSE m[q]] \in [qs -> Used']
    BY <1>10, <2>4
  <2>6. PICK n \in [qs -> Used'] : n = [q \in qs |-> IF q = p THEN k ELSE m[q]]
    BY <2>5
  <2>7. Cardinality(qs) = required' - missing'
    <3>1. IsFiniteSet(ps)
      <4>1. IsFiniteSet(1..Tried)
        BY <1>7, FS_Interval
      <4> QED
        BY <4>1, FS_Subset
    <3>2. Cardinality(qs) = Cardinality(ps) + 1
      BY <2>3, <2>4, <3>1, FS_AddElement
    <3> QED
      BY <1>1, <2>2, <3>2 DEF Types
  <2>8. \A q \in qs : n[q] \in accepts[Signatures[q]]
    BY <1>1, <1>2, <2>2, <2>4, <2>6 DEF Assigned
  <2>9. \A q, r \in qs : n[q] = n[r] => q = r
    BY <1>10, <2>2, <2>3, <2>4, <2>6 DEF Assigned
  <2>10. Assigned(qs, n)'
    BY <1>1, <1>6, <2>8, <2>9 DEF Assigned
  <2> QED
    BY <2>7, <2>10 DEF Matched
<1>14. Exhausted'
  <2>1. Disjoint' = Disjoint
    BY <1>1 DEF Disjoint
  <2>2. ASSUME Disjoint, phase' # "accepted", NEW q \in 1..Tried'
        PROVE  accepts'[Signatures'[q]] \subseteq Used'
    <3>1. CASE q = p
      <4>1. /\ IsFiniteSet(accepts[Head(sigs)]) /\ Cardinality(accepts[Head(sigs)]) <= 1
        <5>1. accepts[Head(sigs)] \in SUBSET Keyring
          BY <1>2 DEF Types
        <5> QED
          BY <1>2, <2>2, <5>1, SignatureAssumption, FS_Subset DEF Disjoint
      <4>2. accepts[Head(sigs)] = {k}
        BY <1>1, <4>1, OnlyElement
      <4> QED
        BY <1>1, <1>2, <1>6, <1>10, <3>1, <4>2
    <3>2. CASE q # p
      <4>1. q \in 1..Tried /\ phase # "accepted"
        BY <1>1, <1>7, <1>8, <2>2, <3>2 DEF Searching
      <4> QED
        BY <1>1, <1>6, <1>10, <2>2, <4>1 DEF Exhausted
    <3> QED
      BY <3>1, <3>2
  <2>3. \A j \in 1..Len(keyrings') : ~(j < i')
    BY <1>1
  <2> QED
    BY <2>1, <2>2, <2>3 DEF Exhausted
<1> QED
  BY <1>5, <1>9, <1>12, <1>13, <1>14

LEMMA NextSignatureInv == ASSUME IInv, NextSignature PROVE IInv'
<1> USE DEF IInv, input
<1> DEFINE p == Tried + 1
<1>1. /\ UNCHANGED <<accepts, own, notes, required, phase, keyrings, missing>>
      /\ Searching /\ sigs # <<>> /\ i > Len(keyrings)
      /\ sigs' = Tail(sigs) /\ i' = 1
  BY DEF NextSignature, Searching
<1>2. /\ p \in 1..All /\ Head(sigs) = Signatures[p] /\ Head(sigs) \in Signature
      /\ Tail(sigs) \in Seq(Signature) /\ Len(Tail(sigs)) = Len(sigs) - 1 /\ Len(sigs) >= 1
      /\ \A j \in 1..Len(Tail(sigs)) : p + j <= All /\ Tail(sigs)[j] = Signatures[p + j]
  BY <1>1, HeadFacts
<1>3. Types'
  BY <1>1, <1>2 DEF Types
<1>4. All' = All /\ Signatures' = Signatures /\ Used' = Used
  BY <1>1 DEF All, Signatures, Used
<1>5. Tried \in 0..All /\ All \in Nat /\ Len(own) \in Nat /\ Len(notes) \in Nat /\ Len(sigs) \in Nat
  BY SignaturesFacts DEF ToTry
<1>6. Tried' = p
  BY <1>1, <1>2, <1>4, <1>5 DEF Tried, Searching
<1>7. ToTry'
  BY <1>1, <1>2, <1>4, <1>5, <1>6 DEF ToTry, Searching
<1>8. Counted'
  BY <1>1, <1>4 DEF Counted
<1>9. Matched'
  BY <1>1, <1>4, <1>5, <1>6, MatchedGrows
<1>10. Exhausted'
  <2>1. Disjoint' = Disjoint
    BY <1>1 DEF Disjoint
  <2>2. ASSUME Disjoint, phase' # "accepted", NEW q \in 1..Tried'
        PROVE  accepts'[Signatures'[q]] \subseteq Used'
    <3>1. CASE q = p
      <4>1. \A j \in 1..Len(keyrings) : keyrings[j] \notin accepts[Head(sigs)]
        BY <1>1, <2>2 DEF Exhausted, Types
      <4>2. accepts[Head(sigs)] \subseteq Keyring
        BY <1>2 DEF Types
      <4>3. accepts[Head(sigs)] \subseteq Used
        BY <4>1, <4>2 DEF Used
      <4> QED
        BY <1>1, <1>2, <1>4, <3>1, <4>3
    <3>2. CASE q # p
      <4>1. q \in 1..Tried
        BY <1>5, <1>6, <3>2
      <4> QED
        BY <1>1, <1>4, <2>2, <4>1 DEF Exhausted
    <3> QED
      BY <3>1, <3>2
  <2>3. \A j \in 1..Len(keyrings') : ~(j < i')
    BY <1>1
  <2> QED
    BY <2>1, <2>2, <2>3 DEF Exhausted
<1> QED
  BY <1>3, <1>7, <1>8, <1>9, <1>10

LEMMA EndOfPhaseInv == ASSUME IInv, ReadNotes \/ NotEnough PROVE IInv'
<1> USE DEF IInv, input
<1>1. /\ UNCHANGED <<accepts, own, notes, required, keyrings, missing>>
      /\ Searching /\ missing # 0 /\ sigs = <<>>
      /\ phase' \in {"notes", "rejected"} /\ i' \in Nat \ {0}
      /\ i' = 1 \/ ~Searching'
      /\ sigs' = IF phase' = "notes" THEN notes ELSE <<>>
      /\ phase' = "notes" => phase = "own"
      /\ phase' = "rejected" => phase = "notes" \/ notes = <<>>
  BY DEF ReadNotes, NotEnough, Searching, Types
<1>2. Types'
  BY <1>1 DEF Types
<1>3. All' = All /\ Signatures' = Signatures /\ Used' = Used
  BY <1>1 DEF All, Signatures, Used
<1>4. /\ Tried \in 0..All /\ All \in Nat /\ Len(own) \in Nat /\ Len(notes) \in Nat
      /\ \A j \in 1..All : Signatures[j] = IF j <= Len(own) THEN own[j] ELSE notes[j - Len(own)]
  BY SignaturesFacts DEF ToTry
<1>5. Tried' = Tried
  <2>1. Len(sigs) = 0 /\ (notes = <<>> => Len(notes) = 0)
    BY <1>1
  <2>2. Tried = IF phase = "own" THEN Len(own) ELSE All
    BY <1>1, <1>4, <2>1 DEF Tried, Searching
  <2>3. Tried' = IF phase' = "notes" THEN Len(own) ELSE All
    BY <1>1, <1>3, <1>4 DEF Tried, All
  <2> QED
    BY <1>1, <1>4, <2>1, <2>2, <2>3 DEF All, Searching
<1>6. ToTry'
  <2>1. ASSUME phase' = "notes", NEW j \in 1..Len(notes)
        PROVE  Tried + j <= All /\ notes[j] = Signatures[Tried + j]
    <3>1. Tried = Len(own)
      BY <1>1, <1>4, <2>1 DEF Tried
    <3>2. Tried + j \in 1..All /\ ~(Tried + j <= Len(own)) /\ (Tried + j) - Len(own) = j
      BY <1>4, <3>1 DEF All
    <3> QED
      BY <1>4, <3>2
  <2> QED
    BY <1>1, <1>3, <1>4, <1>5, <2>1 DEF ToTry, Searching
<1>7. Counted'
  BY <1>1, <1>3 DEF Counted
<1>8. Matched'
  BY <1>1, <1>3, <1>4, <1>5, MatchedGrows
<1>9. Exhausted'
  <2>1. Disjoint' = Disjoint /\ phase # "accepted"
    BY <1>1 DEF Disjoint, Searching
  <2>2. \A j \in 1..Len(keyrings') : i' = 1 => ~(j < i')
    OBVIOUS
  <2> QED
    BY <1>1, <1>3, <1>5, <2>1, <2>2 DEF Exhausted
<1> QED
  BY <1>2, <1>6, <1>7, <1>8, <1>9

\* At every turn of the loops of VerifyPGPSignatures the count, the keyrings left and
\* the signatures left fit together (pgp/util.go:12-50).
THEOREM InvariantCorrect == Spec => []IInv
<1>1. IInv /\ [Next]_vars => IInv'
  <2> SUFFICES ASSUME IInv, [Next]_vars PROVE IInv'
    OBVIOUS
  <2>1. CASE Next
    BY <2>1, NoneRequiredInv, MismatchInv, MatchInv, NextSignatureInv, EndOfPhaseInv DEF Next
  <2>2. CASE UNCHANGED vars
    <3>1. /\ UNCHANGED <<accepts, own, notes, required, phase, sigs, keyrings, i, missing>>
      BY <2>2 DEF vars, input
    <3>2. All' = All /\ Signatures' = Signatures /\ Used' = Used /\ Tried' = Tried
      BY <3>1 DEF All, Signatures, Used, Tried
    <3>3. Matched'
      BY <3>1, <3>2, SignaturesFacts, MatchedGrows DEF IInv, ToTry, input
    <3> QED
      BY <3>1, <3>2, <3>3 DEF IInv, Types, Counted, ToTry, Exhausted, Disjoint, Searching
  <2> QED
    BY <2>1, <2>2
<1> QED
  BY <1>1, InitInv, PTL DEF Spec

\* A commit is accepted only with as many signatures by different keyrings as are
\* required, however many signatures and keyrings there are (pgp/util.go:12).
THEOREM AcceptsCorrect == Spec => []AcceptsOnlySigned
<1>1. ASSUME IInv PROVE AcceptsOnlySigned
  <2> SUFFICES ASSUME phase = "accepted" PROVE required >= 0 /\ Matching(required)
    BY DEF AcceptsOnlySigned
  <2>1. required = Cardinality(Used) /\ required \in Nat /\ missing = 0
    BY <1>1, UsedFacts DEF IInv, Counted, Types
  <2>2. DOMAIN Signatures = 1..All /\ Tried \in 0..All /\ All \in Nat
    BY <1>1, SignaturesFacts DEF IInv, ToTry
  <2>3. PICK ps \in SUBSET (1..Tried) : \E m \in [ps -> Used] :
            Assigned(ps, m) /\ Cardinality(ps) = required - missing
    BY <1>1 DEF IInv, Matched
  <2>4. PICK m \in [ps -> Used] : Assigned(ps, m) /\ Cardinality(ps) = required - missing
    BY <2>3
  <2>5. ps \in SUBSET DOMAIN Signatures /\ m \in [ps -> Keyring] /\ Cardinality(ps) = required
    BY <2>1, <2>2, <2>4 DEF Used
  <2>6. /\ \A p \in ps : m[p] \in accepts[Signatures[p]]
        /\ \A p, q \in ps : m[p] = m[q] => p = q
    BY <2>4 DEF Assigned
  <2>7. \E f \in [ps -> Keyring] : /\ \A p \in ps : f[p] \in accepts[Signatures[p]]
                                   /\ \A p, q \in ps : f[p] = f[q] => p = q
    BY <2>5, <2>6
  <2>8. Matching(required)
    BY <2>5, <2>7 DEF Matching
  <2> QED
    BY <2>1, <2>8
<1> QED
  BY <1>1, InvariantCorrect, PTL

\* A commit with the required signatures is not rejected when no signature is
\* verified by two keyrings: every order of signatures and keyrings finds them.
THEOREM DisjointCorrect == Spec => []DisjointAccepted
<1>1. ASSUME IInv PROVE DisjointAccepted
  <2> SUFFICES ASSUME phase = "rejected", Disjoint, required >= 0, Matching(required) PROVE FALSE
    BY DEF DisjointAccepted, Disjoint
  <2>1. missing > 0 /\ Cardinality(Used) = required - missing
    BY <1>1 DEF IInv, Counted, Types
  <2>2. Tried = All /\ DOMAIN Signatures = 1..All
    BY <1>1, SignaturesFacts DEF IInv, Tried
  <2>3. \A p \in 1..All : accepts[Signatures[p]] \subseteq Used
    BY <1>1, <2>2 DEF IInv, Exhausted
  <2>4. PICK ps \in SUBSET DOMAIN Signatures :
            /\ Cardinality(ps) = required
            /\ \E m \in [ps -> Keyring] :
                  /\ \A p \in ps : m[p] \in accepts[Signatures[p]]
                  /\ \A p, q \in ps : m[p] = m[q] => p = q
    BY DEF Matching
  <2>5. PICK m \in [ps -> Keyring] : /\ \A p \in ps : m[p] \in accepts[Signatures[p]]
                                     /\ \A p, q \in ps : m[p] = m[q] => p = q
    BY <2>4
  <2>6. m \in [ps -> Used]
    BY <2>2, <2>3, <2>5
  <2>7. m \in Injection(ps, Used)
    BY <2>5, <2>6 DEF Injection, IsInjective
  <2>8. IsFiniteSet(Used)
    BY <1>1, UsedFacts DEF IInv
  <2>9. Cardinality(ps) <= Cardinality(Used)
    BY <2>7, <2>8, FS_Injection
  <2> QED
    BY <1>1, <2>1, <2>4, <2>9 DEF IInv, Types
<1> QED
  BY <1>1, InvariantCorrect, PTL

\* The check has the verdict of a count of signers, by which the workflow's model
\* stands for it: loops, order and keyrings used up make no difference as long as
\* no signature is verified by two keyrings (git_repository/git.go:114).
THEOREM VerdictCorrect == Spec => []VerdictCountsSigners
<1>1. ASSUME IInv PROVE VerdictCountsSigners
  <2>1. /\ IsFiniteSet(Signers) /\ IsFiniteSet(Used)
        /\ Cardinality(Signers) \in Nat /\ Cardinality(Used) \in Nat
    BY <1>1, SignatureAssumption, FS_Subset, FS_CardinalityType, UsedFacts DEF Signers, IInv
  <2>2. DOMAIN Signatures = 1..All /\ Tried \in 0..All /\ All \in Nat
    BY <1>1, SignaturesFacts DEF IInv, ToTry
  <2>3. ASSUME phase = "accepted" PROVE Enough
    <3>1. required = Cardinality(Used) /\ required \in Nat /\ missing = 0
      BY <1>1, <2>1, <2>3 DEF IInv, Counted, Types
    <3>2. PICK ps \in SUBSET (1..Tried) : \E m \in [ps -> Used] :
              Assigned(ps, m) /\ Cardinality(ps) = required - missing
      BY <1>1 DEF IInv, Matched
    <3>3. PICK m \in [ps -> Used] : Assigned(ps, m) /\ Cardinality(ps) = required - missing
      BY <3>2
    <3>4. \A p \in ps : m[p] \in Signers
      BY <2>2, <3>3 DEF Assigned, Signers, Used
    <3>5. m \in Injection(ps, Signers)
      BY <3>3, <3>4 DEF Assigned, Injection, IsInjective
    <3>6. Cardinality(ps) <= Cardinality(Signers)
      BY <2>1, <3>5, FS_Injection
    <3> QED
      BY <2>1, <3>1, <3>3, <3>6 DEF Enough
  <2>4. ASSUME phase = "rejected", Disjoint PROVE ~Enough
    <3>1. Tried = All
      BY <2>4 DEF Tried
    <3>2. Signers \subseteq Used
      BY <1>1, <2>2, <2>4, <3>1 DEF IInv, Exhausted, Signers
    <3>3. Cardinality(Signers) <= Cardinality(Used)
      BY <2>1, <3>2, FS_Subset
    <3>4. /\ required \in Int /\ missing \in Int /\ missing # 0
          /\ Cardinality(Used) = required - missing /\ (required >= 0 => missing >= 0)
      BY <1>1, <2>4 DEF IInv, Counted, Types
    <3> QED
      BY <2>1, <3>3, <3>4 DEF Enough
  <2> QED
    BY <2>3, <2>4 DEF VerdictCountsSigners, Disjoint
<1> QED
  BY <1>1, InvariantCorrect, PTL

-----------------------------------------------------------------------------
(* The check ends *)

\* What is left to do before a verdict: for each signature, and once for the
\* reading of the notes, the keyrings it may have to be tried with.
Turn  == Cardinality(Keyring) + 2
Todo  == Len(sigs) + (IF phase = "own" THEN Len(notes) + 1 ELSE 0)
Left  == IF Searching THEN Todo * Turn + (Len(keyrings) + 1 - i) + 1 ELSE 0

InRange == Searching => i <= Len(keyrings) + 1

LEMMA RangeStep == ASSUME IInv, InRange, [Next]_vars PROVE InRange'
<1>1. CASE Match
  <2>1. i' = 1 /\ keyrings' = RemoveAt(keyrings, i) /\ i \in 1..Len(keyrings)
    BY <1>1 DEF Match, IInv, Types
  <2>2. keyrings' \in Seq(Keyring)
    BY <2>1, RemoveAtFacts DEF IInv, Types
  <2> QED
    BY <2>1, <2>2 DEF InRange
<1>2. CASE NoneRequired \/ Mismatch \/ NextSignature \/ ReadNotes \/ NotEnough
  BY <1>2 DEF NoneRequired, Mismatch, NextSignature, ReadNotes, NotEnough, InRange, Searching,
              IInv, Types, input
<1>3. CASE UNCHANGED vars
  BY <1>3 DEF vars, input, InRange, Searching
<1> QED
  BY <1>1, <1>2, <1>3 DEF Next

\* Every keyring is in the list at most once.
LEMMA FewKeyrings ==
    ASSUME IInv
    PROVE  /\ Cardinality(Keyring) \in Nat /\ Len(keyrings) \in Nat
           /\ Len(keyrings) <= Cardinality(Keyring)
<1>1. keyrings \in [1..Len(keyrings) -> Keyring] /\ IsInjective(keyrings) /\ Len(keyrings) \in Nat
  BY DEF IInv, Types, Counted
<1>2. keyrings \in Injection(1..Len(keyrings), Keyring)
  BY <1>1 DEF Injection, IsInjective
<1>3. IsFiniteSet(Keyring) /\ Cardinality(Keyring) \in Nat
  BY SignatureAssumption, FS_CardinalityType
<1>4. Cardinality(1..Len(keyrings)) <= Cardinality(Keyring)
  BY <1>2, <1>3, FS_Injection
<1>5. Cardinality(1..Len(keyrings)) = Len(keyrings)
  <2>1. 1 \in Int /\ Len(keyrings) \in Int /\ (1 > Len(keyrings) => Len(keyrings) = 0)
    BY <1>1
  <2>2. Cardinality(1..Len(keyrings)) = IF 1 > Len(keyrings) THEN 0 ELSE Len(keyrings) - 1 + 1
    BY <2>1, FS_Interval
  <2> QED
    BY <1>1, <2>2
<1> QED
  BY <1>1, <1>3, <1>4, <1>5

LEMMA LeftType == ASSUME IInv, InRange PROVE Todo \in Nat /\ Turn \in Nat /\ Left \in Nat
<1>1. Todo \in Nat /\ Turn \in Nat /\ Len(keyrings) \in Nat /\ i \in Nat
  BY FewKeyrings DEF IInv, Types, Todo, Turn
<1>2. Todo * Turn \in Nat
  BY <1>1
<1> QED
  BY <1>1, <1>2 DEF Left, InRange

LEMMA OneLess == ASSUME NEW t \in Nat, NEW w \in Nat, t > 0 PROVE (t - 1) * w = t * w - w
  OBVIOUS

\* Every step leaves less to do: no check runs for ever, however many signatures
\* and keyrings there are (pgp/util.go:25, pgp/util.go:33).
THEOREM CheckShrinks == Spec => [][Left' < Left /\ Left' \in Nat /\ Left \in Nat]_vars
<1>1. ASSUME IInv, InRange, IInv', InRange', Next
      PROVE  Left \in Nat /\ Left' \in Nat /\ Left' < Left
  <2> DEFINE k == Len(keyrings)
             rest == Todo * Turn
  <2>1. /\ Todo \in Nat /\ Turn \in Nat /\ rest \in Nat /\ Left \in Nat
        /\ k \in Nat /\ k + 2 <= Turn /\ i \in Nat \ {0} /\ Len(notes) \in Nat /\ Len(sigs) \in Nat
    <3>1. Todo \in Nat /\ Turn \in Nat /\ Left \in Nat
      BY <1>1, LeftType
    <3>2. /\ k \in Nat /\ k + 2 <= Turn /\ i \in Nat \ {0}
          /\ Len(notes) \in Nat /\ Len(sigs) \in Nat
      <4>1. k \in Nat /\ k + 2 <= Turn
        BY <1>1, FewKeyrings DEF Turn
      <4>2. i \in Nat \ {0} /\ Len(notes) \in Nat /\ Len(sigs) \in Nat
        BY <1>1, SignaturesFacts DEF IInv, Types
      <4> QED
        BY <4>1, <4>2
    <3> QED
      BY <3>1, <3>2
  <2>2. (IInv /\ InRange => Left \in Nat)'
    BY LeftType, PTL
  <2>3. Left' \in Nat
    BY <1>1, <2>2
  <2> SUFFICES Left' < Left
    BY <2>1, <2>3
  <2>4. Turn' = Turn
    BY DEF Turn
  <2>5. Searching => Left > 0 /\ Left = rest + (k + 1 - i) + 1 /\ i <= k + 1
    BY <1>1, <2>1 DEF Left, InRange
  <2>6. ASSUME Searching, Todo > 0, Todo' = Todo - 1, i' = 1, Len(keyrings') \in Nat,
               Len(keyrings') <= k
        PROVE  Left' < Left
    <3>1. Todo' * Turn' = rest - Turn
      BY <2>1, <2>4, <2>6, OneLess
    <3>2. Left' = 0 \/ Left' = rest - Turn + (Len(keyrings') + 1 - 1) + 1
      BY <2>6, <3>1 DEF Left
    <3> HIDE DEF rest
    <3> QED
      BY <2>1, <2>5, <2>6, <3>2
  <2>7. ASSUME sigs # <<>>, sigs' = Tail(sigs)
        PROVE  Len(sigs) > 0 /\ Len(sigs') = Len(sigs) - 1
    BY <1>1, <2>7, HeadTailProperties, EmptySeq DEF IInv, Types
  <2>8. CASE phase' \in {"accepted", "rejected"} /\ Searching
    <3>1. Left' = 0
      BY <2>8 DEF Left, Searching
    <3> QED
      BY <2>5, <2>8, <3>1
  <2>9. CASE Mismatch
    <3>1. /\ Searching /\ Searching' /\ Todo' = Todo /\ keyrings' = keyrings /\ i' = i + 1
      BY <2>9 DEF Mismatch, input, Searching, Todo
    <3>2. Left' = rest + (k + 1 - (i + 1)) + 1
      BY <2>4, <3>1 DEF Left
    <3> HIDE DEF rest
    <3> QED
      BY <2>1, <2>5, <3>1, <3>2
  <2>10. CASE Match /\ phase' # "accepted"
    <3>1. /\ Searching /\ sigs # <<>> /\ sigs' = Tail(sigs) /\ i' = 1 /\ phase' = phase
          /\ notes' = notes /\ keyrings' = RemoveAt(keyrings, i) /\ i \in 1..k
      BY <1>1, <2>10 DEF Match, input, Searching, IInv, Types
    <3>2. Todo > 0 /\ Todo' = Todo - 1
      BY <2>1, <2>7, <3>1 DEF Todo
    <3>3. Len(keyrings') \in Nat /\ Len(keyrings') <= k
      BY <1>1, <3>1, RemoveAtFacts DEF IInv, Types
    <3> QED
      BY <2>6, <3>1, <3>2, <3>3
  <2>11. CASE NextSignature
    <3>1. /\ Searching /\ sigs # <<>> /\ sigs' = Tail(sigs) /\ i' = 1 /\ phase' = phase
          /\ notes' = notes /\ keyrings' = keyrings
      BY <2>11 DEF NextSignature, input, Searching
    <3>2. Todo > 0 /\ Todo' = Todo - 1
      BY <2>1, <2>7, <3>1 DEF Todo
    <3> QED
      BY <2>1, <2>6, <3>1, <3>2
  <2>12. CASE ReadNotes /\ phase' = "notes"
    <3>1. /\ phase = "own" /\ sigs = <<>> /\ sigs' = notes /\ i' = 1 /\ keyrings' = keyrings
      BY <2>12 DEF ReadNotes
    <3>2. Searching /\ Todo > 0 /\ Todo' = Todo - 1
      BY <2>1, <2>12, <3>1 DEF Todo, Searching
    <3> QED
      BY <2>1, <2>6, <3>1, <3>2
  <2>13. CASE NoneRequired \/ NotEnough
    BY <2>8, <2>13 DEF NoneRequired, NotEnough, Searching
  <2>14. CASE Match
    <3>1. CASE phase' = "accepted"
      BY <2>8, <2>14, <3>1 DEF Match, Searching
    <3> QED
      BY <2>10, <2>14, <3>1
  <2>15. CASE ReadNotes
    <3>1. CASE phase' = "rejected"
      BY <2>8, <2>15, <3>1 DEF ReadNotes, Searching
    <3>2. phase' = "notes" \/ phase' = "rejected"
      BY <2>15 DEF ReadNotes
    <3> QED
      BY <2>12, <2>15, <3>1, <3>2
  <2> QED
    BY <1>1, <2>9, <2>11, <2>13, <2>14, <2>15 DEF Next
<1>2. Init => InRange
  <2> SUFFICES ASSUME Init PROVE InRange
    OBVIOUS
  <2>1. keyrings \in Seq(Keyring) /\ i = 1
    BY InitInv DEF IInv, Types, Init
  <2> QED
    BY <2>1 DEF InRange
<1>3. IInv /\ InRange /\ [Next]_vars => InRange'
  BY RangeStep
<1> QED
  BY <1>1, <1>2, <1>3, InvariantCorrect, PTL DEF Spec
=============================================================================
