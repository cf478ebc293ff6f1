------------------------- MODULE TamperDemo_proofs -------------------------
(***************************************************************************)
(* Proofs about TamperDemo, for every set of texts and every number of      *)
(* edits.                                                                   *)
(***************************************************************************)
EXTENDS TamperPromise, NatLemmas, SequenceTheorems

(***************************************************************************)
(* The checks of a text and its verdict.                                    *)
(***************************************************************************)
AllPass(c) ==
  /\ c.before = {} /\ c.after = {} /\ c.of_receipt = {}
  /\ \A i \in DOMAIN c.of_event : c.of_event[i] = {}

\* A sequence has a length, and a domain up to it.
LEMMA Sequences ==
  ASSUME NEW s, IsSequence(s)
  PROVE  /\ Len(s) \in Nat /\ DOMAIN s = 1..Len(s)
         /\ s = <<>> <=> DOMAIN s = {}
  BY DEF IsSequence

\* What the checks before and after the loop ask for.
LEMMA HeaderVerdict ==
  ASSUME NEW m, NEW events
  PROVE  /\ HeaderCodes(m, events) = {} <=>
              /\ m.schema_ok /\ m.event_count = Len(events) /\ events # <<>>
              /\ events[1].previous_event_hash = m.chain_start
         /\ ActionCodes(m, events) = {} <=>
              m.action_id \in {events[i].action_id : i \in DOMAIN events}
<1>1. HeaderCodes(m, events) = {} <=>
        /\ m.schema_ok /\ m.event_count = Len(events) /\ events # <<>>
        /\ events[1].previous_event_hash = m.chain_start
  BY DEF HeaderCodes, Report
<1>2. ActionCodes(m, events) = {} <=>
        m.action_id \in {events[i].action_id : i \in DOMAIN events}
  BY DEF ActionCodes, Report
<1> QED
  BY <1>1, <1>2

\* What one turn of the loop asks for.
LEMMA EventVerdict ==
  ASSUME NEW events, NEW i
  PROVE  MinEventCodes(events, i) = {} <=>
           /\ ~Malformed(events[i])
           /\ events[i].payload_hash = PayloadHash(Written(events[i]).payload)
           /\ events[i].event_id = EventId(Written(events[i]))
           /\ events[i].event_hash = EventHash(Written(events[i]))
           /\ i > 1 => events[i].previous_event_hash = events[i - 1].event_hash
  BY DEF MinEventCodes, Report

\* What verifyReceipt asks for, where every event is an object.
LEMMA ReceiptVerdict ==
  ASSUME NEW t, IsSequence(t.events), \A i \in DOMAIN t.events : t.events[i].object
  PROVE  MinReceiptCodes(t) = {} <=>
           /\ t.receipt.body.algorithm = "ed25519"
           /\ MinSignatureHolds(t.manifest.receipt_public_key, t.receipt)
           /\ \E i \in EntriesNamed(t.events, t.receipt.body.ledger_entry_hash) :
                /\ t.events[i].action_id = t.manifest.action_id
                /\ \A j \in EntriesNamed(t.events, t.receipt.body.ledger_entry_hash) : i <= j
<1> DEFINE named == EntriesNamed(t.events, t.receipt.body.ledger_entry_hash)
<1>1. Found(t.receipt, t.events) = named
  BY DEF Found, EntriesNamed
<1>2. named \subseteq Nat
  BY Sequences DEF EntriesNamed
<1> HIDE DEF named
<1>3. MinSignatureCodes(t.manifest, t.receipt) = {} <=>
        /\ t.receipt.body.algorithm = "ed25519"
        /\ MinSignatureHolds(t.manifest.receipt_public_key, t.receipt)
  BY DEF MinSignatureCodes, Report
<1>4. MinBindingCodes(t.manifest, t.receipt, t.events) = {} <=>
        \E i \in named : /\ t.events[i].action_id = t.manifest.action_id
                         /\ \A j \in named : i <= j
  <2>1. CASE named = {}
    BY <1>1, <2>1 DEF MinBindingCodes
  <2>2. CASE named # {}
    <3>1. PICK k \in named : \A j \in named : k <= j
      BY <1>2, <2>2, LeastElement
    <3>2. \A i \in named : (\A j \in named : i <= j) => i = k
      BY <1>2, <3>1
    <3>3. FirstOf(named) = k
      BY <3>1, <3>2 DEF FirstOf
    <3> QED
      BY <1>1, <2>2, <3>1, <3>2, <3>3 DEF MinBindingCodes, Report
  <2> QED
    BY <2>1, <2>2
<1> QED
  BY <1>3, <1>4 DEF MinReceiptCodes, named

\* The checks of a text all pass exactly when the text is as the page means
\* by VERIFIED.
LEMMA Verdict ==
  ASSUME NEW t, IsSequence(t.events)
  PROVE  AllPass(ChecksOf(t)) <=> MinVerified(t)
<1> DEFINE events == t.events
           m == t.manifest
           c == ChecksOf(t)
           named == EntriesNamed(t.events, t.receipt.body.ledger_entry_hash)
<1>1. /\ c.before = HeaderCodes(m, events) /\ c.after = ActionCodes(m, events)
      /\ c.of_receipt = MinReceiptCodes(t)
      /\ DOMAIN c.of_event = DOMAIN events
      /\ \A i \in DOMAIN events : c.of_event[i] = MinEventCodes(events, i)
  BY DEF ChecksOf
<1>2. Len(events) \in Nat /\ DOMAIN events = 1..Len(events) /\ (events = <<>> <=> DOMAIN events = {})
  BY Sequences
<1>3. ASSUME AllPass(c) PROVE MinVerified(t)
  <2>1. \A i \in DOMAIN events : MinEventCodes(events, i) = {}
    BY <1>1, <1>3 DEF AllPass
  <2>2. HeaderCodes(m, events) = {} /\ ActionCodes(m, events) = {} /\ MinReceiptCodes(t) = {}
    BY <1>1, <1>3 DEF AllPass
  <2>3. \A i \in DOMAIN events : ~Malformed(events[i]) /\ events[i].object
    BY <2>1, EventVerdict DEF Malformed
  <2>4. /\ t.receipt.body.algorithm = "ed25519"
        /\ MinSignatureHolds(m.receipt_public_key, t.receipt)
        /\ \E i \in named : /\ events[i].action_id = m.action_id
                            /\ \A j \in named : i <= j
    BY <2>2, <2>3, ReceiptVerdict
  <2>5. /\ m.schema_ok /\ m.event_count = Len(events) /\ events # <<>>
        /\ events[1].previous_event_hash = m.chain_start
        /\ m.action_id \in {events[i].action_id : i \in DOMAIN events}
    BY <2>2, HeaderVerdict
  <2>6. \A i \in DOMAIN events :
          events[i].previous_event_hash = IF i = 1 THEN m.chain_start ELSE events[i - 1].event_hash
    BY <1>2, <2>1, <2>5, EventVerdict
  <2> QED
    BY <2>1, <2>3, <2>4, <2>5, <2>6, EventVerdict
       DEF MinVerified, MinSignatureHolds, LibraryAcceptsEd25519, EntriesNamed
<1>4. ASSUME MinVerified(t) PROVE AllPass(c)
  <2>1. \A i \in DOMAIN events : ~Malformed(events[i]) /\ events[i].object
    BY <1>4 DEF MinVerified, Malformed
  <2>2. 1 \in DOMAIN events
    BY <1>2, <1>4 DEF MinVerified
  <2>3. HeaderCodes(m, events) = {} /\ ActionCodes(m, events) = {}
    BY <1>4, <2>2, HeaderVerdict DEF MinVerified
  <2>4. \A i \in DOMAIN events : MinEventCodes(events, i) = {}
    BY <1>2, <1>4, EventVerdict DEF MinVerified
  <2>5. MinReceiptCodes(t) = {}
    BY <1>4, <2>1, ReceiptVerdict
       DEF MinVerified, MinSignatureHolds, LibraryAcceptsEd25519, EntriesNamed
  <2> QED
    BY <1>1, <2>3, <2>4, <2>5 DEF AllPass
<1> QED
  BY <1>3, <1>4

(***************************************************************************)
(* The order of keys.  Before is a strict total order of sequences of       *)
(* numbers: the first place where two of them differ decides.               *)
(***************************************************************************)
\* The i-th number of t is the first that s lacks or has a smaller one for.
Decides(s, t, i) ==
  /\ i \in 1..Len(t) /\ i <= Len(s) + 1
  /\ \A j \in 1..(i - 1) : s[j] = t[j]
  /\ i <= Len(s) => s[i] < t[i]

\* Two beginnings are equal when their numbers are.
LEMMA SameStart ==
  ASSUME NEW s \in Seq(Int), NEW t \in Seq(Int),
         NEW n \in Nat, n <= Len(s), n <= Len(t)
  PROVE  SubSeq(s, 1, n) = SubSeq(t, 1, n) <=> \A j \in 1..n : s[j] = t[j]
<1>1. /\ SubSeq(s, 1, n) \in Seq(Int) /\ SubSeq(t, 1, n) \in Seq(Int)
      /\ Len(SubSeq(s, 1, n)) = n /\ Len(SubSeq(t, 1, n)) = n
      /\ \A j \in 1..n : SubSeq(s, 1, n)[j] = s[j] /\ SubSeq(t, 1, n)[j] = t[j]
  OBVIOUS
<1> DEFINE a == SubSeq(s, 1, n)
           b == SubSeq(t, 1, n)
<1>2. a = b <=> \A j \in 1..n : a[j] = b[j]
  <2>1. Len(a) = n /\ Len(b) = n /\ a \in Seq(Int) /\ b \in Seq(Int)
    BY <1>1
  <2> HIDE DEF a, b
  <2> QED
    BY <2>1
<1> QED
  BY <1>1, <1>2

\* One sequence is before another when some place decides so.
LEMMA BeforeIs ==
  ASSUME NEW s \in Seq(Int), NEW t \in Seq(Int)
  PROVE  Before(s, t) <=> \E i \in 1..Len(t) : Decides(s, t, i)
<1>0. Len(s) \in Nat /\ Len(t) \in Nat /\ DOMAIN s = 1..Len(s) /\ DOMAIN t = 1..Len(t)
  OBVIOUS
<1>1. s = SubSeq(s, 1, Len(s))
  OBVIOUS
<1>2. Len(s) < Len(t) =>
        (s = SubSeq(t, 1, Len(s)) <=> \A j \in 1..Len(s) : s[j] = t[j])
  BY <1>0, <1>1, SameStart
<1>3. \A i \in DOMAIN s \cap DOMAIN t :
        SubSeq(s, 1, i - 1) = SubSeq(t, 1, i - 1) <=> \A j \in 1..(i - 1) : s[j] = t[j]
  <2> TAKE i \in DOMAIN s \cap DOMAIN t
  <2>1. i - 1 \in Nat /\ i - 1 <= Len(s) /\ i - 1 <= Len(t)
    BY <1>0
  <2> QED
    BY <2>1, SameStart
<1>4. ASSUME Before(s, t)
      PROVE  \E i \in 1..Len(t) : Decides(s, t, i)
  <2>1. CASE Len(s) < Len(t) /\ s = SubSeq(t, 1, Len(s))
    <3>1. Decides(s, t, Len(s) + 1)
      <4>1. \A j \in 1..Len(s) : s[j] = t[j]
        BY <1>2, <2>1
      <4> QED
        BY <1>0, <2>1, <4>1 DEF Decides
    <3> QED
      BY <1>0, <2>1, <3>1
  <2>2. CASE \E i \in DOMAIN s \cap DOMAIN t :
               SubSeq(s, 1, i - 1) = SubSeq(t, 1, i - 1) /\ s[i] < t[i]
    <3>1. PICK i \in DOMAIN s \cap DOMAIN t :
                 SubSeq(s, 1, i - 1) = SubSeq(t, 1, i - 1) /\ s[i] < t[i]
      BY <2>2
    <3>2. \A j \in 1..(i - 1) : s[j] = t[j]
      BY <1>3, <3>1
    <3>3. i \in 1..Len(s) /\ i \in 1..Len(t) /\ s[i] < t[i]
      BY <1>0, <3>1
    <3>4. Decides(s, t, i)
      BY <1>0, <3>2, <3>3 DEF Decides
    <3> QED
      BY <3>3, <3>4
  <2> QED
    BY <1>4, <2>1, <2>2 DEF Before
<1>5. ASSUME NEW i \in 1..Len(t), Decides(s, t, i)
      PROVE  Before(s, t)
  <2>1. CASE i <= Len(s)
    <3>1. i \in DOMAIN s \cap DOMAIN t /\ s[i] < t[i]
      BY <1>0, <1>5, <2>1 DEF Decides
    <3>2. SubSeq(s, 1, i - 1) = SubSeq(t, 1, i - 1)
      BY <1>3, <1>5, <3>1 DEF Decides
    <3> QED
      BY <3>1, <3>2 DEF Before
  <2>2. CASE i = Len(s) + 1
    <3>1. Len(s) < Len(t)
      BY <1>0, <2>2
    <3>2. \A j \in 1..Len(s) : s[j] = t[j]
      BY <1>0, <1>5, <2>2 DEF Decides
    <3> QED
      BY <1>2, <3>1, <3>2 DEF Before
  <2> QED
    BY <1>0, <1>5, <2>1, <2>2 DEF Decides
<1> QED
  BY <1>4, <1>5

\* No sequence is before itself.
LEMMA NotBeforeItself ==
  ASSUME NEW s \in Seq(Int)
  PROVE  ~ Before(s, s)
<1>1. \A i \in 1..Len(s) : s[i] \in Int /\ i <= Len(s)
  OBVIOUS
<1> QED
  BY <1>1, BeforeIs DEF Decides

\* The order is transitive: the earlier of the two deciding places decides.
LEMMA BeforeWhatIsAfter ==
  ASSUME NEW s \in Seq(Int), NEW t \in Seq(Int), NEW u \in Seq(Int),
         Before(s, t), Before(t, u)
  PROVE  Before(s, u)
<1>1. PICK i \in 1..Len(t) : Decides(s, t, i)
  BY BeforeIs
<1>2. PICK k \in 1..Len(u) : Decides(t, u, k)
  BY BeforeIs
<1>3. /\ Len(s) \in Nat /\ Len(t) \in Nat /\ Len(u) \in Nat
      /\ \A j \in 1..Len(s) : s[j] \in Int
      /\ \A j \in 1..Len(t) : t[j] \in Int
      /\ \A j \in 1..Len(u) : u[j] \in Int
  OBVIOUS
<1>4. CASE i < k
  <2>1. Decides(s, u, i)
    BY <1>1, <1>2, <1>3, <1>4 DEF Decides
  <2> QED
    BY <1>2, <1>3, <1>4, <2>1, BeforeIs
<1>5. CASE k < i
  <2>1. k \in 1..Len(s) /\ k \in 1..Len(t) /\ k \in 1..(i - 1)
    BY <1>1, <1>2, <1>3, <1>5 DEF Decides
  <2>2. s[k] = t[k] /\ t[k] < u[k]
    BY <1>1, <1>2, <2>1 DEF Decides
  <2>3. \A j \in 1..(k - 1) : j \in 1..(i - 1)
    BY <1>1, <1>2, <1>3, <1>5
  <2>4. \A j \in 1..(k - 1) : s[j] = u[j]
    BY <1>1, <1>2, <2>3 DEF Decides
  <2>5. Decides(s, u, k)
    BY <1>3, <2>1, <2>2, <2>4 DEF Decides
  <2> QED
    BY <2>5, BeforeIs
<1>6. CASE i = k
  <2>1. k \in 1..Len(t) /\ k \in 1..Len(u) /\ k <= Len(s) + 1
    BY <1>1, <1>2, <1>6 DEF Decides
  <2>2. \A j \in 1..(k - 1) : s[j] = u[j]
    BY <1>1, <1>2, <1>6 DEF Decides
  <2>3. ASSUME k <= Len(s) PROVE s[k] < u[k]
    <3>1. s[k] < t[k]
      BY <1>1, <1>6, <2>3 DEF Decides
    <3>2. t[k] < u[k]
      BY <1>2, <2>1 DEF Decides
    <3>3. s[k] \in Int /\ t[k] \in Int /\ u[k] \in Int
      BY <1>3, <2>1, <2>3
    <3> QED
      BY <3>1, <3>2, <3>3
  <2>4. Decides(s, u, k)
    BY <2>1, <2>2, <2>3 DEF Decides
  <2> QED
    BY <2>4, BeforeIs
<1> QED
  BY <1>4, <1>5, <1>6

\* Of two different sequences one is before the other.
LEMMA OneIsBefore ==
  ASSUME NEW s \in Seq(Int), NEW t \in Seq(Int), s # t
  PROVE  Before(s, t) \/ Before(t, s)
<1>1. /\ Len(s) \in Nat /\ Len(t) \in Nat
      /\ \A j \in 1..Len(s) : s[j] \in Int
      /\ \A j \in 1..Len(t) : t[j] \in Int
  OBVIOUS
<1> DEFINE Differ(i) == \/ i > Len(s) \/ i > Len(t) \/ s[i] # t[i]
           D == {i \in Nat : i >= 1 /\ Differ(i)}
<1>2. Len(s) + 1 \in D
  BY <1>1
<1>3. PICK i \in D : \A j \in D : i <= j
  <2>1. D \subseteq Nat /\ D # {}
    BY <1>2
  <2> HIDE DEF D
  <2> QED
    BY <2>1, LeastElement
<1>4. i \in Nat /\ i >= 1 /\ Differ(i)
  OBVIOUS
<1>5. \A j \in 1..(i - 1) : j <= Len(s) /\ j <= Len(t) /\ s[j] = t[j]
  <2> TAKE j \in 1..(i - 1)
  <2>1. j \notin D
    BY <1>3, <1>4
  <2> QED
    BY <2>1, <1>1, <1>4
<1>6. i <= Len(s) + 1 /\ i <= Len(t) + 1
  <2>1. CASE i = 1
    BY <1>1, <2>1
  <2>2. CASE i # 1
    <3>1. i - 1 \in 1..(i - 1)
      BY <1>4, <2>2
    <3> QED
      BY <1>1, <1>4, <1>5, <3>1
  <2> QED
    BY <2>1, <2>2
<1> HIDE DEF D
<1>7. CASE i = Len(s) + 1 /\ i = Len(t) + 1
  <2>1. Len(s) = Len(t) /\ \A j \in 1..Len(s) : s[j] = t[j]
    BY <1>1, <1>5, <1>7
  <2>2. s = t
    BY <2>1, SeqEqual
  <2> QED
    BY <2>2
<1>8. CASE i = Len(s) + 1 /\ i <= Len(t)
  <2>1. Decides(s, t, i) /\ i \in 1..Len(t)
    BY <1>1, <1>4, <1>5, <1>8 DEF Decides
  <2> QED
    BY <2>1, BeforeIs
<1>9. CASE i = Len(t) + 1 /\ i <= Len(s)
  <2>1. Decides(t, s, i) /\ i \in 1..Len(s)
    BY <1>1, <1>4, <1>5, <1>9 DEF Decides
  <2> QED
    BY <2>1, BeforeIs
<1>10. CASE i <= Len(s) /\ i <= Len(t)
  <2>1. s[i] # t[i] /\ i \in 1..Len(s) /\ i \in 1..Len(t)
    BY <1>1, <1>4, <1>10
  <2>2. s[i] < t[i] \/ t[i] < s[i]
    BY <1>1, <2>1
  <2>3. Decides(s, t, i) \/ Decides(t, s, i)
    BY <1>1, <1>4, <1>5, <1>10, <2>1, <2>2 DEF Decides
  <2> QED
    BY <2>1, <2>3, BeforeIs
<1> QED
  BY <1>1, <1>4, <1>6, <1>7, <1>8, <1>9, <1>10

(***************************************************************************)
(* A strict total order gives every element of a finite set its own rank.   *)
(***************************************************************************)
\* R orders U strictly and totally.
Orders(R, U) ==
  /\ \A a \in U : <<a, a>> \notin R
  /\ \A a, b, c \in U : <<a, b>> \in R /\ <<b, c>> \in R => <<a, c>> \in R
  /\ \A a, b \in U : a # b => <<a, b>> \in R \/ <<b, a>> \in R

\* By induction over finite sets: a set without its greatest element is ranked,
\* and the greatest element has the last rank.
LEMMA RanksAreTaken ==
  ASSUME NEW U, NEW R, Orders(R, U), IsFiniteSet(U)
  PROVE  \A n \in 1..Cardinality(U) :
           \E k \in U : Cardinality({s \in U : <<s, k>> \in R}) = n - 1
<1> DEFINE Ranked(S) == \A n \in 1..Cardinality(S) :
                          \E k \in S : Cardinality({s \in S : <<s, k>> \in R}) = n - 1
           Topped(S) == S # {} => \E g \in S : \A s \in S : s = g \/ <<s, g>> \in R
           Good(S) == Ranked(S) /\ Topped(S)
           T == {j \in Nat : \A S \in SUBSET U : Cardinality(S) = j => Good(S)}
<1>0. \A S \in SUBSET U : IsFiniteSet(S) /\ Cardinality(S) \in Nat
  BY FS_Subset, FS_CardinalityType
<1>1. 0 \in T
  <2>1. ASSUME NEW S \in SUBSET U, Cardinality(S) = 0
        PROVE  Good(S)
    <3>1. S = {}
      BY <1>0, <2>1, FS_EmptySet
    <3> QED
      BY <2>1, <3>1
  <2> HIDE DEF Good
  <2> QED
    BY <2>1
<1>2. ASSUME NEW j \in Nat, j \in T
      PROVE  j + 1 \in T
  <2>1. \A S \in SUBSET U : Cardinality(S) = j => Good(S)
    BY <1>2
  <2>2. ASSUME NEW S \in SUBSET U, Cardinality(S) = j + 1
        PROVE  Good(S)
    <3> HIDE DEF T, Good
    <3>1. \A a \in S : Good(S \ {a}) /\ Cardinality(S \ {a}) = j
      <4> TAKE a \in S
      <4>1. Cardinality(S \ {a}) = j
        BY <1>0, <2>2, FS_RemoveElement
      <4> QED
        BY <2>1, <4>1
    <3>2. Topped(S)
      <4> SUFFICES ASSUME S # {}
                   PROVE  \E g \in S : \A s \in S : s = g \/ <<s, g>> \in R
        OBVIOUS
      <4>1. PICK a \in S : TRUE
        OBVIOUS
      <4>2. CASE S \ {a} = {}
        BY <4>2
      <4>3. CASE S \ {a} # {}
        <5>1. Topped(S \ {a})
          BY <3>1 DEF Good
        <5>2. PICK g \in S \ {a} : \A s \in S \ {a} : s = g \/ <<s, g>> \in R
          BY <4>3, <5>1
        <5>3. a \in U /\ g \in U /\ a # g /\ S \subseteq U
          OBVIOUS
        <5>4. CASE <<a, g>> \in R
          BY <5>2, <5>4
        <5>5. CASE <<g, a>> \in R
          <6>1. \A s \in S : s = a \/ <<s, a>> \in R
            BY <5>2, <5>3, <5>5 DEF Orders
          <6> QED
            BY <6>1
        <5> QED
          BY <5>3, <5>4, <5>5 DEF Orders
      <4> QED
        BY <4>2, <4>3
    <3>3. Ranked(S)
      <4>1. S # {}
        BY <2>2, FS_EmptySet
      <4>2. PICK g \in S : \A s \in S : s = g \/ <<s, g>> \in R
        BY <3>2, <4>1
      <4> DEFINE P == S \ {g}
      <4>3. Ranked(P) /\ Cardinality(P) = j
        BY <3>1 DEF Good
      <4> SUFFICES ASSUME NEW n \in 1..(j + 1)
                   PROVE  \E k \in S : Cardinality({s \in S : <<s, k>> \in R}) = n - 1
        BY <2>2
      <4>4. CASE n = j + 1
        <5>1. {s \in S : <<s, g>> \in R} = P
          BY <4>2 DEF Orders
        <5>2. Cardinality(P) = n - 1
          BY <4>3, <4>4
        <5> HIDE DEF P
        <5> QED
          BY <5>1, <5>2
      <4>5. CASE n # j + 1
        <5>1. n \in 1..Cardinality(P)
          BY <4>3, <4>5
        <5>2. PICK k \in P : Cardinality({s \in P : <<s, k>> \in R}) = n - 1
          BY <4>3, <5>1
        <5>3. <<g, k>> \notin R
          <6>1. <<k, g>> \in R /\ k \in U /\ g \in U
            BY <4>2
          <6> QED
            BY <6>1 DEF Orders
        <5>4. {s \in S : <<s, k>> \in R} = {s \in P : <<s, k>> \in R}
          BY <5>3
        <5> QED
          BY <5>2, <5>4
      <4> QED
        BY <4>4, <4>5
    <3> QED
      BY <3>2, <3>3 DEF Good
  <2> HIDE DEF Good
  <2> QED
    BY <2>2
<1>3. Cardinality(U) \in T
  <2> HIDE DEF T
  <2> QED
    BY <1>0, <1>1, <1>2, Induction
<1> QED
  BY <1>3

\* Sorting lists each of the keys.
LEMMA SortedIs ==
  ASSUME NEW keys, IsFiniteSet(keys), NEW ranks,
         \A k \in keys : ranks[k] \in Seq(Int),
         \A k, l \in keys : ranks[k] = ranks[l] => k = l
  PROVE  /\ DOMAIN Sorted(keys, ranks) = 1..Cardinality(keys)
         /\ \A n \in 1..Cardinality(keys) : Sorted(keys, ranks)[n] \in keys
<1> DEFINE R == {p \in keys \X keys : Before(ranks[p[1]], ranks[p[2]])}
<1>1. \A a, b \in keys : <<a, b>> \in R <=> Before(ranks[a], ranks[b])
  OBVIOUS
<1>2. Orders(R, keys)
  <2> HIDE DEF R
  <2>1. \A a \in keys : <<a, a>> \notin R
    BY <1>1, NotBeforeItself
  <2>2. \A a, b, c \in keys : <<a, b>> \in R /\ <<b, c>> \in R => <<a, c>> \in R
    BY <1>1, BeforeWhatIsAfter
  <2>3. \A a, b \in keys : a # b => <<a, b>> \in R \/ <<b, a>> \in R
    BY <1>1, OneIsBefore
  <2> QED
    BY <2>1, <2>2, <2>3 DEF Orders
<1> HIDE DEF R
<1>3. ASSUME NEW n \in 1..Cardinality(keys)
      PROVE  Sorted(keys, ranks)[n] \in keys
  <2>1. PICK k \in keys : Cardinality({s \in keys : <<s, k>> \in R}) = n - 1
    BY <1>2, RanksAreTaken
  <2>2. {s \in keys : <<s, k>> \in R} = {s \in keys : Before(ranks[s], ranks[k])}
    BY <1>1
  <2>3. \E l \in keys : Cardinality({s \in keys : Before(ranks[s], ranks[l])}) = n - 1
    BY <2>1, <2>2
  <2>4. (CHOOSE l \in keys : Cardinality({s \in keys : Before(ranks[s], ranks[l])}) = n - 1)
          \in keys
    BY <2>3
  <2> QED
    BY <2>4 DEF Sorted
<1>4. DOMAIN Sorted(keys, ranks) = 1..Cardinality(keys)
  BY DEF Sorted
<1> QED
  BY <1>3, <1>4

\* Code units as numbers, and the surrogates as a range of them.
LEMMA UnitIs ==
  \A u \in Units : /\ u \in Int /\ u <= 65535
                   /\ u \in Surrogates <=> u >= 55296 /\ u <= 57343
<1>1. \A u \in Units : u \in Int
  BY DEF Units
<1>2. \A u \in Units : u <= 65535
  BY DEF Units
<1>3. \A u \in Units : u \in Surrogates => u >= 55296 /\ u <= 57343
  BY DEF Units, Surrogates
<1>4. \A u \in Units : u >= 55296 /\ u <= 57343 => u \in Surrogates
  BY DEF Units, Surrogates
<1> QED
  BY <1>1, <1>2, <1>3, <1>4

\* A string as a sequence of numbers.
LEMMA UnitsAreNumbers ==
  ASSUME NEW k \in Seq(Units)
  PROVE  /\ k \in Seq(Int) /\ Len(k) \in Nat /\ DOMAIN k = 1..Len(k)
         /\ \A i \in 1..Len(k) : k[i] \in Units
<1>1. /\ Len(k) \in Nat /\ DOMAIN k = 1..Len(k) /\ k = [i \in 1..Len(k) |-> k[i]]
      /\ \A i \in 1..Len(k) : k[i] \in Units
  OBVIOUS
<1>2. \A i \in 1..Len(k) : k[i] \in Int
  BY <1>1, UnitIs
<1> QED
  BY <1>1, <1>2

\* JavaScript lists each of the keys.
LEMMA ByUnitIs ==
  ASSUME NEW keys, IsFiniteSet(keys), keys \subseteq Seq(Units)
  PROVE  /\ DOMAIN ByUnit(keys) = 1..Cardinality(keys)
         /\ \A n \in 1..Cardinality(keys) : ByUnit(keys)[n] \in keys
<1> DEFINE ranks == [k \in keys |-> k]
<1>1. \A k \in keys : ranks[k] = k /\ k \in Seq(Int)
  BY UnitsAreNumbers
<1> HIDE DEF ranks
<1>2. /\ \A k \in keys : ranks[k] \in Seq(Int)
      /\ \A k, l \in keys : ranks[k] = ranks[l] => k = l
  BY <1>1
<1>3. ByUnit(keys) = Sorted(keys, ranks)
  BY DEF ByUnit, ranks
<1> QED
  BY <1>2, <1>3, SortedIs

\* What Python compares of a key.
Point(k) == [i \in DOMAIN k |-> PointRank(k[i])]

\* It is a sequence of numbers, one for each unit.
LEMMA PointIs ==
  ASSUME NEW k \in Seq(Units)
  PROVE  /\ Point(k) \in Seq(Int) /\ Len(Point(k)) = Len(k)
         /\ \A i \in 1..Len(k) : k[i] \in Units /\ Point(k)[i] = PointRank(k[i])
<1>1. \A u \in Units : PointRank(u) \in Int
  BY UnitIs DEF PointRank
<1>2. Point(k) = [i \in 1..Len(k) |-> PointRank(k[i])]
  BY UnitsAreNumbers DEF Point
<1> QED
  BY <1>1, <1>2, UnitsAreNumbers

\* Ranks tell units apart, and keep the order of those below U+E000.
LEMMA RanksOfUnits ==
  ASSUME NEW a \in Units, NEW b \in Units
  PROVE  /\ PointRank(a) = PointRank(b) <=> a = b
         /\ a <= 57343 /\ b <= 57343 => (PointRank(a) < PointRank(b) <=> a < b)
<1>1. /\ a \in Int /\ b \in Int /\ a <= 65535 /\ b <= 65535
      /\ a \in Surrogates <=> a >= 55296 /\ a <= 57343
      /\ b \in Surrogates <=> b >= 55296 /\ b <= 57343
  BY UnitIs
<1>2. CASE a \in Surrogates /\ b \in Surrogates
  BY <1>1, <1>2 DEF PointRank
<1>3. CASE a \notin Surrogates /\ b \notin Surrogates
  BY <1>1, <1>3 DEF PointRank
<1>4. CASE a \in Surrogates /\ b \notin Surrogates
  BY <1>1, <1>4 DEF PointRank
<1>5. CASE a \notin Surrogates /\ b \in Surrogates
  BY <1>1, <1>5 DEF PointRank
<1> QED
  BY <1>2, <1>3, <1>4, <1>5

\* Python lists each of the keys.
LEMMA ByPointIs ==
  ASSUME NEW keys, IsFiniteSet(keys), keys \subseteq Seq(Units)
  PROVE  /\ DOMAIN ByPoint(keys) = 1..Cardinality(keys)
         /\ \A n \in 1..Cardinality(keys) : ByPoint(keys)[n] \in keys
<1> DEFINE ranks == [k \in keys |-> Point(k)]
<1>1. \A k \in keys : ranks[k] = Point(k) /\ Point(k) \in Seq(Int)
  BY PointIs
<1> HIDE DEF ranks
<1>2. ASSUME NEW k \in keys, NEW l \in keys, ranks[k] = ranks[l]
      PROVE  k = l
  <2>1. Point(k) = Point(l) /\ k \in Seq(Units) /\ l \in Seq(Units)
    BY <1>1, <1>2
  <2>2. Len(k) = Len(l)
    BY <2>1, PointIs
  <2>3. \A i \in 1..Len(k) : k[i] = l[i]
    BY <2>1, <2>2, PointIs, RanksOfUnits
  <2> QED
    BY <2>1, <2>2, <2>3, SeqEqual
<1>3. ByPoint(keys) = Sorted(keys, ranks)
  BY DEF ByPoint, ranks, Point
<1> QED
  BY <1>1, <1>2, <1>3, SortedIs

\* A code point beyond U+FFFF in one key and a unit from U+E000 on in another.
Mixes(keys) ==
  \E s, t \in keys : /\ \E i \in DOMAIN s : s[i] \in Surrogates
                     /\ \E j \in DOMAIN t : t[j] >= 57344

\* Keys that do not mix come in the same order in both languages.
LEMMA OneOrder ==
  ASSUME NEW keys, keys \subseteq Seq(Units), ~ Mixes(keys)
  PROVE  ByUnit(keys) = ByPoint(keys)
<1> DEFINE Same(a, b) == /\ a = b <=> PointRank(a) = PointRank(b)
                         /\ a < b <=> PointRank(a) < PointRank(b)
<1>1. \A k \in keys : /\ k \in Seq(Units) /\ k \in Seq(Int)
                      /\ Len(k) \in Nat /\ DOMAIN k = 1..Len(k)
                      /\ \A i \in 1..Len(k) : k[i] \in Units
  BY UnitsAreNumbers
<1>2. \A s, t \in keys : \A i \in 1..Len(s), j \in 1..Len(t) : Same(s[i], t[j])
  <2> SUFFICES ASSUME NEW s \in keys, NEW t \in keys,
                      NEW i \in 1..Len(s), NEW j \in 1..Len(t)
               PROVE  Same(s[i], t[j])
    OBVIOUS
  <2>1. /\ s[i] \in Units /\ i \in DOMAIN s
        /\ t[j] \in Units /\ j \in DOMAIN t
    BY <1>1
  <2>2. CASE \A k \in keys : \A n \in DOMAIN k : k[n] \notin Surrogates
    <3>1. PointRank(s[i]) = s[i] /\ PointRank(t[j]) = t[j]
      BY <2>1, <2>2 DEF PointRank
    <3> QED
      BY <3>1
  <2>3. CASE \A k \in keys : \A n \in DOMAIN k : ~ (k[n] >= 57344)
    <3>1. ~ (s[i] >= 57344) /\ ~ (t[j] >= 57344)
      BY <2>1, <2>3
    <3>2. s[i] <= 57343 /\ t[j] <= 57343
      BY <2>1, <3>1, UnitIs
    <3> QED
      BY <2>1, <3>2, RanksOfUnits
  <2>4. ~ Mixes(keys)
    OBVIOUS
  <2> QED
    BY <2>2, <2>3, <2>4 DEF Mixes
<1>3. \A s, t \in keys : Before(s, t) <=> Before(Point(s), Point(t))
  <2> TAKE s, t \in keys
  <2>1. /\ s \in Seq(Int) /\ t \in Seq(Int) /\ Point(s) \in Seq(Int) /\ Point(t) \in Seq(Int)
        /\ Len(Point(s)) = Len(s) /\ Len(Point(t)) = Len(t) /\ Len(s) \in Nat /\ Len(t) \in Nat
        /\ \A i \in 1..Len(s) : Point(s)[i] = PointRank(s[i])
        /\ \A i \in 1..Len(t) : Point(t)[i] = PointRank(t[i])
    BY <1>1, PointIs
  <2>2. ASSUME NEW i \in 1..Len(t)
        PROVE  Decides(s, t, i) <=> Decides(Point(s), Point(t), i)
    <3>1. i <= Len(s) + 1 => \A j \in 1..(i - 1) : j \in 1..Len(s) /\ j \in 1..Len(t)
      BY <2>1
    <3>2. i <= Len(s) + 1 =>
            \A j \in 1..(i - 1) : s[j] = t[j] <=> Point(s)[j] = Point(t)[j]
      <4> SUFFICES ASSUME i <= Len(s) + 1, NEW j \in 1..(i - 1)
                   PROVE  s[j] = t[j] <=> Point(s)[j] = Point(t)[j]
        OBVIOUS
      <4>1. Point(s)[j] = PointRank(s[j]) /\ Point(t)[j] = PointRank(t[j])
        BY <2>1, <3>1
      <4>2. Same(s[j], t[j])
        BY <1>2, <3>1
      <4> QED
        BY <4>1, <4>2
    <3>3. i <= Len(s) => (s[i] < t[i] <=> Point(s)[i] < Point(t)[i])
      <4> SUFFICES ASSUME i <= Len(s)
                   PROVE  s[i] < t[i] <=> Point(s)[i] < Point(t)[i]
        OBVIOUS
      <4>1. i \in 1..Len(s)
        BY <2>1
      <4> QED
        BY <1>2, <2>1, <4>1
    <3> QED
      BY <2>1, <3>2, <3>3 DEF Decides
  <2>3. Before(s, t) <=> \E i \in 1..Len(t) : Decides(s, t, i)
    BY <2>1, BeforeIs
  <2>4. Before(Point(s), Point(t)) <=> \E i \in 1..Len(t) : Decides(Point(s), Point(t), i)
    BY <2>1, BeforeIs
  <2> QED
    BY <2>2, <2>3, <2>4
<1> DEFINE units  == [k \in keys |-> k]
           points == [k \in keys |-> Point(k)]
<1>4. \A k \in keys : {s \in keys : Before(units[s], units[k])}
                        = {s \in keys : Before(points[s], points[k])}
  BY <1>3
<1>5. ByUnit(keys) = Sorted(keys, units) /\ ByPoint(keys) = Sorted(keys, points)
  BY DEF ByUnit, ByPoint, Point
<1>6. Sorted(keys, units) = Sorted(keys, points)
  <2> HIDE DEF units, points
  <2>1. \A n \in 1..Cardinality(keys), k \in keys :
          Cardinality({s \in keys : Before(units[s], units[k])}) = n - 1
            <=> Cardinality({s \in keys : Before(points[s], points[k])}) = n - 1
    BY <1>4
  <2>2. \A n \in 1..Cardinality(keys) :
          (CHOOSE k \in keys : Cardinality({s \in keys : Before(units[s], units[k])}) = n - 1)
           = (CHOOSE k \in keys : Cardinality({s \in keys : Before(points[s], points[k])}) = n - 1)
    BY <2>1
  <2> DEFINE a(n) == CHOOSE k \in keys :
                       Cardinality({s \in keys : Before(units[s], units[k])}) = n - 1
             b(n) == CHOOSE k \in keys :
                       Cardinality({s \in keys : Before(points[s], points[k])}) = n - 1
  <2>3. \A n \in 1..Cardinality(keys) : a(n) = b(n)
    BY <2>2
  <2>4. Sorted(keys, units) = [n \in 1..Cardinality(keys) |-> a(n)]
    BY DEF Sorted
  <2>5. Sorted(keys, points) = [n \in 1..Cardinality(keys) |-> b(n)]
    BY DEF Sorted
  <2> HIDE DEF a, b
  <2> QED
    BY <2>3, <2>4, <2>5
<1> QED
  BY <1>5, <1>6

(***************************************************************************)
(* The canonical forms.  What a form makes of a value depends on what it    *)
(* makes of the value's parts; so a form may be built up by depth.          *)
(***************************************************************************)
\* PlainData of a value, given that of its parts.
PlainOf(p, v) ==
  \/ v[1] \in {"null", "boolean", "string"}
  \/ v[1] = "number" /\ v[3] = "digits" /\ v[2] \in -MaxSafe..MaxSafe
  \/ v[1] = "array" /\ \A i \in DOMAIN v[2] : p[v[2][i]]
  \/ /\ v[1] = "object" /\ \A s \in DOMAIN v[2] : p[v[2][s]]
     /\ ~ \E s, t \in DOMAIN v[2] :
           /\ \E i \in DOMAIN s : s[i] \in Surrogates
           /\ \E j \in DOMAIN t : t[j] >= 57344

\* What the values are made of.
LEMMA JsonIs ==
  ASSUME NEW v \in Json
  PROVE  /\ Depth[v] \in Nat
         /\ \A part \in Parts(v) : part \in Json /\ Depth[part] \in Nat /\ Depth[part] < Depth[v]
         /\ v[1] = "array" => \A i \in DOMAIN v[2] : v[2][i] \in Parts(v)
         /\ v[1] = "object" => /\ \A s \in DOMAIN v[2] : v[2][s] \in Parts(v)
                               /\ IsFiniteSet(DOMAIN v[2]) /\ DOMAIN v[2] \subseteq Seq(Units)
<1>1. \A w \in Json : Depth[w] \in Nat
  <2>1. Cardinality(Json) \in Nat /\ Depth \in [Json -> 0..Cardinality(Json)]
    BY JsonAssumption, FS_CardinalityType
  <2> QED
    BY <2>1
<1>2. \A part \in Parts(v) : part \in Json /\ Depth[part] < Depth[v]
  BY JsonAssumption
<1>3. v[1] \in {"array", "object"} => Parts(v) = {v[2][k] : k \in DOMAIN v[2]}
  BY DEF Parts
<1>4. v[1] = "object" => IsFiniteSet(DOMAIN v[2]) /\ DOMAIN v[2] \subseteq Seq(Units)
  BY JsonAssumption
<1> QED
  BY <1>1, <1>2, <1>3, <1>4

\* The keys of an object, as either language lists them.
LEMMA KeysAre ==
  ASSUME NEW v \in Json, v[1] = "object"
  PROVE  /\ \A i \in DOMAIN ByUnit(DOMAIN v[2]) : v[2][ByUnit(DOMAIN v[2])[i]] \in Parts(v)
         /\ \A i \in DOMAIN ByPoint(DOMAIN v[2]) : v[2][ByPoint(DOMAIN v[2])[i]] \in Parts(v)
<1>1. /\ \A s \in DOMAIN v[2] : v[2][s] \in Parts(v)
      /\ IsFiniteSet(DOMAIN v[2]) /\ DOMAIN v[2] \subseteq Seq(Units)
  BY JsonIs
<1>2. \A i \in DOMAIN ByUnit(DOMAIN v[2]) : ByUnit(DOMAIN v[2])[i] \in DOMAIN v[2]
  BY <1>1, ByUnitIs
<1>3. \A i \in DOMAIN ByPoint(DOMAIN v[2]) : ByPoint(DOMAIN v[2])[i] \in DOMAIN v[2]
  BY <1>1, ByPointIs
<1> QED
  BY <1>1, <1>2, <1>3

\* Forms that agree on the parts agree on the whole.
LEMMA SamePartsSameForm ==
  ASSUME NEW v \in Json, NEW f, NEW g, \A part \in Parts(v) : f[part] = g[part]
  PROVE  /\ JsText(f, v) = JsText(g, v) /\ PyText(f, v) = PyText(g, v)
         /\ PlainOf(f, v) = PlainOf(g, v)
<1>1. CASE v[1] = "array"
  <2>1. \A i \in DOMAIN v[2] : f[v[2][i]] = g[v[2][i]]
    BY <1>1, JsonIs
  <2>2. [i \in DOMAIN v[2] |-> f[v[2][i]]] = [i \in DOMAIN v[2] |-> g[v[2][i]]]
    BY <2>1
  <2>3. JsText(f, v) = ArrayText([i \in DOMAIN v[2] |-> f[v[2][i]]])
        /\ JsText(g, v) = ArrayText([i \in DOMAIN v[2] |-> g[v[2][i]]])
        /\ PyText(f, v) = ArrayText([i \in DOMAIN v[2] |-> f[v[2][i]]])
        /\ PyText(g, v) = ArrayText([i \in DOMAIN v[2] |-> g[v[2][i]]])
    BY <1>1 DEF JsText, PyText
  <2>4. PlainOf(f, v) = PlainOf(g, v)
    BY <1>1, <2>1 DEF PlainOf
  <2> QED
    BY <2>2, <2>3, <2>4
<1>2. CASE v[1] = "object"
  <2> DEFINE units == ByUnit(DOMAIN v[2])
             points == ByPoint(DOMAIN v[2])
  <2>1. /\ \A i \in DOMAIN units : f[v[2][units[i]]] = g[v[2][units[i]]]
        /\ \A i \in DOMAIN points : f[v[2][points[i]]] = g[v[2][points[i]]]
    BY <1>2, KeysAre
  <2>2. /\ JsText(f, v) = ObjectText(units, [i \in DOMAIN units |-> f[v[2][units[i]]]])
        /\ JsText(g, v) = ObjectText(units, [i \in DOMAIN units |-> g[v[2][units[i]]]])
        /\ PyText(f, v) = ObjectText(points, [i \in DOMAIN points |-> f[v[2][points[i]]]])
        /\ PyText(g, v) = ObjectText(points, [i \in DOMAIN points |-> g[v[2][points[i]]]])
    BY <1>2 DEF JsText, PyText
  <2> HIDE DEF units, points
  <2>3. /\ [i \in DOMAIN units |-> f[v[2][units[i]]]] = [i \in DOMAIN units |-> g[v[2][units[i]]]]
        /\ [i \in DOMAIN points |-> f[v[2][points[i]]]]
             = [i \in DOMAIN points |-> g[v[2][points[i]]]]
    BY <2>1
  <2>4. \A s \in DOMAIN v[2] : f[v[2][s]] = g[v[2][s]]
    BY <1>2, JsonIs
  <2>5. PlainOf(f, v) = PlainOf(g, v)
    BY <1>2, <2>4 DEF PlainOf
  <2> QED
    BY <2>2, <2>3, <2>5
<1>3. CASE v[1] \notin {"array", "object"}
  BY <1>3 DEF JsText, PyText, PlainOf
<1> QED
  BY <1>1, <1>2, <1>3

\* Functions that obey the equations of JsForm, PyForm and PlainData.
IsForm(f, g, p) ==
  /\ f = [v \in Json |-> JsText(f, v)]
  /\ g = [v \in Json |-> PyText(g, v)]
  /\ p = [v \in Json |-> PlainOf(p, v)]

\* There are functions that obey the three equations.
LEMMA FormsExist == \E f, g, p : IsForm(f, g, p)
<1> DEFINE To(f, g, p, j) ==
             /\ f = [v \in Json |-> f[v]] /\ g = [v \in Json |-> g[v]] /\ p = [v \in Json |-> p[v]]
             /\ \A v \in Json : Depth[v] < j =>
                  f[v] = JsText(f, v) /\ g[v] = PyText(g, v) /\ p[v] = PlainOf(p, v)
           T == {j \in Nat : \E f, g, p : To(f, g, p, j)}
<1>1. 0 \in T
  <2>1. \A v \in Json : ~ (Depth[v] < 0)
    BY JsonIs
  <2> DEFINE f == [v \in Json |-> v]
  <2>2. To(f, f, f, 0)
    BY <2>1
  <2> HIDE DEF To, f
  <2> QED
    BY <2>2
<1>2. ASSUME NEW j \in Nat, j \in T
      PROVE  j + 1 \in T
  <2>1. PICK f, g, p : To(f, g, p, j)
    BY <1>2
  <2>2. PICK f1 : f1 = [v \in Json |-> JsText(f, v)]
    OBVIOUS
  <2>3. PICK g1 : g1 = [v \in Json |-> PyText(g, v)]
    OBVIOUS
  <2>4. PICK p1 : p1 = [v \in Json |-> PlainOf(p, v)]
    OBVIOUS
  <2>5. \A v \in Json : f1[v] = JsText(f, v) /\ g1[v] = PyText(g, v) /\ p1[v] = PlainOf(p, v)
    BY <2>2, <2>3, <2>4
  <2>6. \A v \in Json : Depth[v] < j => f1[v] = f[v] /\ g1[v] = g[v] /\ p1[v] = p[v]
    BY <2>1, <2>5
  <2>7. ASSUME NEW v \in Json, Depth[v] < j + 1
        PROVE  f1[v] = JsText(f1, v) /\ g1[v] = PyText(g1, v) /\ p1[v] = PlainOf(p1, v)
    <3>1. \A part \in Parts(v) : f1[part] = f[part] /\ g1[part] = g[part] /\ p1[part] = p[part]
      <4> TAKE part \in Parts(v)
      <4>1. part \in Json /\ Depth[part] < j
        BY <2>7, JsonIs
      <4> QED
        BY <2>6, <4>1
    <3>2. /\ JsText(f1, v) = JsText(f, v) /\ PyText(g1, v) = PyText(g, v)
          /\ PlainOf(p1, v) = PlainOf(p, v)
      BY <3>1, SamePartsSameForm
    <3> QED
      BY <2>5, <3>2
  <2>8. /\ f1 = [v \in Json |-> f1[v]] /\ g1 = [v \in Json |-> g1[v]]
        /\ p1 = [v \in Json |-> p1[v]]
    BY <2>2, <2>3, <2>4
  <2>9. To(f1, g1, p1, j + 1)
    BY <2>7, <2>8
  <2> HIDE DEF To
  <2> QED
    BY <2>9
<1>3. Cardinality(Json) \in Nat /\ \A v \in Json : Depth[v] < Cardinality(Json) + 1
  <2>1. Cardinality(Json) \in Nat /\ Depth \in [Json -> 0..Cardinality(Json)]
    BY JsonAssumption, FS_CardinalityType
  <2> QED
    BY <2>1
<1>4. Cardinality(Json) + 1 \in T
  <2> HIDE DEF T
  <2> QED
    BY <1>1, <1>2, <1>3, Induction
<1>5. PICK f, g, p : To(f, g, p, Cardinality(Json) + 1)
  BY <1>4
<1>6. \A v \in Json : f[v] = JsText(f, v) /\ g[v] = PyText(g, v) /\ p[v] = PlainOf(p, v)
  BY <1>3, <1>5
<1>7. /\ f = [v \in Json |-> f[v]] /\ g = [v \in Json |-> g[v]] /\ p = [v \in Json |-> p[v]]
  BY <1>5
<1> HIDE DEF To
<1>8. /\ f = [v \in Json |-> JsText(f, v)] /\ g = [v \in Json |-> PyText(g, v)]
      /\ p = [v \in Json |-> PlainOf(p, v)]
  BY <1>6, <1>7
<1> QED
  BY <1>8 DEF IsForm

\* JsForm, PyForm and PlainData obey their equations.
LEMMA FormsAre ==
  /\ \A v \in Json : JsForm[v] = JsText(JsForm, v)
  /\ \A v \in Json : PyForm[v] = PyText(PyForm, v)
  /\ \A v \in Json : PlainData[v] = PlainOf(PlainData, v)
<1>1. PICK f, g, p : IsForm(f, g, p)
  BY FormsExist
<1>2. JsForm = [v \in Json |-> JsText(JsForm, v)]
  <2>1. JsForm = CHOOSE form : form = [v \in Json |-> JsText(form, v)]
    BY DEF JsForm
  <2> QED
    BY <1>1, <2>1, Zenon DEF IsForm
<1>3. PyForm = [v \in Json |-> PyText(PyForm, v)]
  <2>1. PyForm = CHOOSE form : form = [v \in Json |-> PyText(form, v)]
    BY DEF PyForm
  <2> QED
    BY <1>1, <2>1, Zenon DEF IsForm
<1>4. PlainData = [v \in Json |-> PlainOf(PlainData, v)]
  <2>1. PlainData = CHOOSE plain : plain = [v \in Json |-> PlainOf(plain, v)]
    BY DEF PlainData, PlainOf
  <2> QED
    BY <1>1, <2>1, Zenon DEF IsForm
<1> QED
  BY <1>2, <1>3, <1>4

\* What both languages write the same way, they write.
LEMMA OneForm ==
  \A v \in Json : PlainData[v] => JsForm[v] = PyForm[v] /\ JsForm[v] # Throws
<1> DEFINE Agrees(v) == PlainData[v] => JsForm[v] = PyForm[v] /\ JsForm[v] # Throws
           T == {j \in Nat : \A v \in Json : Depth[v] = j => Agrees(v)}
<1>1. ASSUME NEW j \in Nat, \A m \in 0..(j - 1) : m \in T
      PROVE  j \in T
  <2> SUFFICES ASSUME NEW v \in Json, Depth[v] = j, PlainData[v]
               PROVE  JsForm[v] = PyForm[v] /\ JsForm[v] # Throws
    OBVIOUS
  <2>1. ASSUME NEW part \in Parts(v), PlainData[part]
        PROVE  JsForm[part] = PyForm[part] /\ JsForm[part] # Throws
    <3>1. part \in Json /\ Depth[part] \in 0..(j - 1)
      BY JsonIs
    <3>2. Depth[part] \in T
      BY <1>1, <3>1
    <3>3. Agrees(part)
      BY <3>1, <3>2
    <3> QED
      BY <2>1, <3>3
  <2>2. PlainOf(PlainData, v)
    BY FormsAre
  <2>3. JsForm[v] = JsText(JsForm, v) /\ PyForm[v] = PyText(PyForm, v)
    BY FormsAre
  <2>4. CASE v[1] \in {"null", "boolean", "string"}
    <3>1. JsForm[v] = v /\ PyForm[v] = v
      BY <2>3, <2>4 DEF JsText, PyText
    <3>2. v # Throws
      BY <2>4 DEF Throws
    <3> QED
      BY <3>1, <3>2
  <2>5. CASE v[1] = "number"
    <3>1. v[3] = "digits" /\ v[2] \in -MaxSafe..MaxSafe
      BY <2>2, <2>5 DEF PlainOf
    <3>2. Double(v[2]) = v[2]
      BY <3>1 DEF Double
    <3>3. JsForm[v] = <<"number", v[2]>> /\ PyForm[v] = <<"number", v[2]>>
      BY <2>3, <2>5, <3>1, <3>2 DEF JsText, PyText
    <3> QED
      BY <3>3 DEF Throws
  <2>6. CASE v[1] = "array"
    <3> DEFINE a == [i \in DOMAIN v[2] |-> JsForm[v[2][i]]]
               b == [i \in DOMAIN v[2] |-> PyForm[v[2][i]]]
    <3>1. \A i \in DOMAIN v[2] : v[2][i] \in Parts(v) /\ PlainData[v[2][i]]
      BY <2>2, <2>6, JsonIs DEF PlainOf
    <3>2. \A i \in DOMAIN v[2] :
            JsForm[v[2][i]] = PyForm[v[2][i]] /\ JsForm[v[2][i]] # Throws
      BY <2>1, <3>1
    <3>3. JsForm[v] = ArrayText(a) /\ PyForm[v] = ArrayText(b)
      BY <2>3, <2>6 DEF JsText, PyText
    <3>4. a = b /\ Throws \notin {a[i] : i \in DOMAIN a}
      BY <3>2
    <3> HIDE DEF a, b
    <3>5. ArrayText(a) = <<"array", a>>
      BY <3>4 DEF ArrayText, Whole
    <3> QED
      BY <3>3, <3>4, <3>5 DEF Throws
  <2>7. CASE v[1] = "object"
    <3> DEFINE keys == ByUnit(DOMAIN v[2])
               a == [i \in DOMAIN keys |-> JsForm[v[2][keys[i]]]]
               b == [i \in DOMAIN keys |-> PyForm[v[2][keys[i]]]]
    <3>1. /\ \A s \in DOMAIN v[2] : PlainData[v[2][s]]
          /\ ~ Mixes(DOMAIN v[2])
      BY <2>2, <2>7 DEF PlainOf, Mixes
    <3>2. /\ IsFiniteSet(DOMAIN v[2]) /\ DOMAIN v[2] \subseteq Seq(Units)
          /\ \A s \in DOMAIN v[2] : v[2][s] \in Parts(v)
      BY <2>7, JsonIs
    <3>3. ByPoint(DOMAIN v[2]) = keys
      BY <3>1, <3>2, OneOrder
    <3>4. \A i \in DOMAIN keys : keys[i] \in DOMAIN v[2]
      BY <3>2, ByUnitIs
    <3>5. JsForm[v] = ObjectText(keys, a)
      BY <2>3, <2>7 DEF JsText
    <3>6. PyForm[v] = ObjectText(keys, b)
      BY <2>3, <2>7, <3>3 DEF PyText
    <3> HIDE DEF keys
    <3>7. \A i \in DOMAIN keys :
            JsForm[v[2][keys[i]]] = PyForm[v[2][keys[i]]] /\ JsForm[v[2][keys[i]]] # Throws
      BY <2>1, <3>1, <3>2, <3>4
    <3>8. a = b /\ Throws \notin {a[i] : i \in DOMAIN a}
      BY <3>7
    <3> HIDE DEF a, b
    <3>9. Whole("object", a) = <<"object", a>> /\ <<"object", a>> # Throws
      BY <3>8 DEF Whole, Throws
    <3>10. ObjectText(keys, a) = <<"object", keys, a>>
      BY <3>9 DEF ObjectText
    <3> QED
      BY <3>5, <3>6, <3>8, <3>10 DEF Throws
  <2> QED
    BY <2>2, <2>4, <2>5, <2>6, <2>7 DEF PlainOf
<1>2. \A j \in Nat : j \in T
  <2> HIDE DEF T
  <2> QED
    BY <1>1, StrongInduction
<1> QED
  BY <1>2, JsonIs

(***************************************************************************)
(* What the port says of a text, and what verify.py says of it.             *)
(***************************************************************************)
\* What one writes of an event is what the other writes of it, and the fields
\* beside the payload are the event's.
LEMMA WrittenAlike ==
  ASSUME NEW e, EventFields \subseteq DOMAIN e, "details" \in DOMAIN e.payload,
         e.payload.details \in Json, PlainData[e.payload.details]
  PROVE  /\ [e EXCEPT !.payload.details = PyForm[@]] = Written(e)
         /\ Written(e).payload.details # Throws
         /\ \A x \in EventFields \ {"payload"} : Written(e)[x] = e[x]
<1>1. JsForm[e.payload.details] = PyForm[e.payload.details]
      /\ JsForm[e.payload.details] # Throws
  BY OneForm
<1>2. [e EXCEPT !.payload.details = PyForm[@]] = Written(e)
  BY <1>1 DEF Written
<1>3. Written(e).payload.details = JsForm[e.payload.details]
  BY DEF Written, EventFields
<1>4. \A x \in EventFields \ {"payload"} : Written(e)[x] = e[x]
  BY DEF Written
<1> QED
  BY <1>1, <1>2, <1>3, <1>4

\* The fields of an event as it is written.
LEMMA WrittenFields ==
  ASSUME NEW e, NEW w, \A x \in EventFields \ {"payload"} : w[x] = e[x]
  PROVE  /\ w.material = e.material /\ w.object = e.object /\ w.action_id = e.action_id
         /\ w.payload_hash = e.payload_hash /\ w.event_id = e.event_id
         /\ w.previous_event_hash = e.previous_event_hash /\ w.event_hash = e.event_hash
  BY DEF EventFields

\* What both ask of an event with all its fields, on what they write of it.
EventHolds(events, i) ==
  /\ events[i].payload_hash = PayloadHash(events[i].payload)
  /\ events[i].event_id = EventId(events[i])
  /\ events[i].event_hash = EventHash(events[i])
  /\ i > 1 => events[i].previous_event_hash = events[i - 1].event_hash

\* verify.py's loop reports nothing of events with all their fields exactly
\* when that holds of each.
LEMMA LoopReportsNothing ==
  ASSUME NEW events, Len(events) \in Nat, DOMAIN events = 1..Len(events),
         \A i \in DOMAIN events : events[i].material
  PROVE  (UNION {EventCodes(events, i) : i \in Walked(events)}) = {}
           <=> \A i \in DOMAIN events : EventHolds(events, i)
<1> DEFINE Walk == UNION {EventCodes(events, i) : i \in Walked(events)}
           Bad == {i \in DOMAIN events : ~Complete(events[i])}
<1>1. ASSUME NEW i \in DOMAIN events
      PROVE  EventCodes(events, i) = {} <=> Complete(events[i]) /\ EventHolds(events, i)
  <2>1. events[i].material
    OBVIOUS
  <2>2. EventCodes(events, i) = {} <=>
          /\ ~(events[i].material /\ events[i].payload_hash # PayloadHash(events[i].payload))
          /\ ~(events[i].material /\ events[i].event_id # None
                                /\ events[i].event_id # EventId(events[i]))
          /\ ~(Complete(events[i]) /\ events[i].event_hash # EventHash(events[i]))
          /\ ~(Complete(events[i]) /\ i > 1
                 /\ events[i].previous_event_hash # events[i - 1].event_hash)
          /\ ~ ~Complete(events[i])
    BY DEF EventCodes, Report
  <2> QED
    BY <2>1, <2>2 DEF Complete, EventHolds
<1>2. ASSUME NEW i \in DOMAIN events, EventHolds(events, i)
      PROVE  Complete(events[i])
  BY <1>2 DEF Complete, EventHolds, EventId, EventHash, Hash, None
<1>3. Walk = {} <=> \A i \in Walked(events) : EventCodes(events, i) = {}
  OBVIOUS
<1>4. Walked(events) \subseteq DOMAIN events
  BY DEF Walked
<1>5. ASSUME Walk = {}
      PROVE  Walked(events) = DOMAIN events
  <2>1. \A i \in Walked(events) : Complete(events[i])
    <3> HIDE DEF Walk
    <3> QED
      BY <1>1, <1>3, <1>4, <1>5
  <2>2. ASSUME Bad # {} PROVE FALSE
    <3>1. Bad \subseteq Nat
      OBVIOUS
    <3>2. PICK i \in Bad : \A j \in Bad : i <= j
      <4> HIDE DEF Bad
      <4> QED
        BY <2>2, <3>1, LeastElement
    <3>3. \A j \in 1..(i - 1) : Complete(events[j])
      BY <3>2
    <3> QED
      BY <2>1, <3>2, <3>3 DEF Walked
  <2> QED
    BY <2>2 DEF Walked
<1> HIDE DEF Walk, Bad
<1> QED
  BY <1>1, <1>2, <1>3, <1>4, <1>5 DEF Walk

\* What verify_receipt reports of an Ed25519 receipt, of the codes the port has.
LEMMA PortedReceiptVerdict ==
  ASSUME NEW m, NEW r, NEW events, DOMAIN events \subseteq Nat,
         r.body.algorithm = "ed25519", r.signature.readable, ~r.tsa_anchored,
         ~r.signature.weak_r, m.receipt_public_key \notin WeakKeys
  PROVE  ReceiptCodes(m, r, events, m.receipt_public_key, FALSE)
             \cap {"RECEIPT_SIGNATURE_INVALID", "RECEIPT_LEDGER_ENTRY_NOT_IN_SLICE",
                   "RECEIPT_BOUND_TO_DIFFERENT_ACTION"} = {}
           <=> /\ MinSignatureHolds(m.receipt_public_key, r)
               /\ \E i \in EntriesNamed(events, r.body.ledger_entry_hash) :
                    /\ events[i].action_id = m.action_id
                    /\ \A j \in EntriesNamed(events, r.body.ledger_entry_hash) : i <= j
<1> DEFINE key == m.receipt_public_key
           named == EntriesNamed(events, r.body.ledger_entry_hash)
           code == SignatureCode(key, r, FALSE)
           ported == {"RECEIPT_SIGNATURE_INVALID", "RECEIPT_LEDGER_ENTRY_NOT_IN_SLICE",
                      "RECEIPT_BOUND_TO_DIFFERENT_ACTION"}
<1>1. code = IF MinSignatureHolds(key, r) THEN "ok" ELSE "RECEIPT_SIGNATURE_INVALID"
  <2> HIDE DEF key
  <2>1. key \notin WeakKeys
    BY DEF key
  <2>2. MinSignatureHolds(key, r) <=> Decodable(key, r) /\ Ed25519Verify(key, r)
    BY <2>1 DEF MinSignatureHolds, Decodable, Ed25519Verify, LibraryAcceptsEd25519
  <2>3. CASE ~Decodable(key, r)
    BY <2>2, <2>3 DEF SignatureCode, AlgorithmCode
  <2>4. CASE Decodable(key, r)
    BY <2>2, <2>4 DEF SignatureCode, AlgorithmCode, MLDSA, HYBRID
  <2> QED
    BY <2>3, <2>4
<1>2. ~ReturnsEarly(key, r, FALSE)
  BY <1>1 DEF ReturnsEarly, HYBRID
<1>3. named \subseteq Nat
  BY DEF EntriesNamed
<1> HIDE DEF named, code
<1>4. BindingCodes(m, r, events) \cap ported = {} <=>
        \E i \in named : /\ events[i].action_id = m.action_id
                         /\ \A j \in named : i <= j
  <2>1. CASE named = {}
    BY <2>1 DEF BindingCodes, named
  <2>2. CASE named # {}
    <3>1. PICK k \in named : \A j \in named : k <= j
      BY <1>3, <2>2, LeastElement
    <3>2. \A i \in named : (\A j \in named : i <= j) => i = k
      BY <1>3, <3>1
    <3>3. FirstOf(named) = k
      BY <3>1, <3>2 DEF FirstOf
    <3>4. BindingCodes(m, r, events) \cap ported =
            Report("RECEIPT_BOUND_TO_DIFFERENT_ACTION", events[k].action_id # m.action_id)
      BY <2>2, <3>3 DEF BindingCodes, named, Report
    <3> QED
      BY <3>1, <3>2, <3>4 DEF Report
  <2> QED
    BY <2>1, <2>2
<1>5. ReceiptCodes(m, r, events, key, FALSE) =
        Report(code, code # "ok") \cup BindingCodes(m, r, events)
  BY <1>2 DEF ReceiptCodes, code
<1>6. Report(code, code # "ok") \cap ported = {} <=> MinSignatureHolds(key, r)
  BY <1>1 DEF Report
<1> HIDE DEF key, ported
<1>7. ReceiptCodes(m, r, events, key, FALSE) \cap ported = {} <=>
        /\ Report(code, code # "ok") \cap ported = {}
        /\ BindingCodes(m, r, events) \cap ported = {}
  BY <1>5
<1> QED
  BY <1>4, <1>6, <1>7 DEF key, named, ported

\* What the port calls verified of a text both read the same way is what
\* verify.py reports nothing of.
LEMMA PortedVerdict ==
  ASSUME NEW n \in DOMAIN Texts,
         \A i \in DOMAIN Texts[n].events :
           /\ Texts[n].events[i].material /\ Texts[n].events[i].object
           /\ PlainData[Texts[n].events[i].payload.details],
         Texts[n].receipt.body.algorithm = "ed25519",
         Texts[n].receipt.signature.readable, ~Texts[n].receipt.tsa_anchored,
         ~Texts[n].receipt.signature.weak_r,
         Texts[n].manifest.receipt_public_key \notin WeakKeys
  PROVE  MinVerified(Texts[n]) <=>
           /\ EventsCodes(Texts[n].manifest, InPython(Texts[n].events)) = {}
           /\ ReceiptCodes(Texts[n].manifest, Texts[n].receipt, InPython(Texts[n].events),
                           Texts[n].manifest.receipt_public_key, FALSE)
                \cap {"RECEIPT_SIGNATURE_INVALID", "RECEIPT_LEDGER_ENTRY_NOT_IN_SLICE",
                      "RECEIPT_BOUND_TO_DIFFERENT_ACTION"} = {}
<1> DEFINE t == Texts[n]
           m == t.manifest
           ev == t.events
           py == InPython(ev)
           hash == t.receipt.body.ledger_entry_hash
<1>1. Len(ev) \in Nat /\ DOMAIN ev = 1..Len(ev) /\ (ev = <<>> <=> DOMAIN ev = {})
  BY TextsAssumption, Sequences
<1>2. /\ DOMAIN py = 1..Len(ev) /\ Len(py) = Len(ev) /\ (py = <<>> <=> ev = <<>>)
      /\ \A i \in DOMAIN ev : py[i] = [ev[i] EXCEPT !.payload.details = PyForm[@]]
  <2> HIDE DEF ev
  <2>1. py = [i \in 1..Len(ev) |-> [ev[i] EXCEPT !.payload.details = PyForm[@]]]
    BY <1>1 DEF InPython
  <2> HIDE DEF py
  <2>2. DOMAIN py = 1..Len(ev) /\ Len(py) = Len(ev) /\ (py = <<>> <=> Len(ev) = 0)
    BY <1>1, <2>1
  <2> QED
    BY <1>1, <2>1, <2>2
<1>3. ASSUME NEW i \in DOMAIN ev
      PROVE  /\ py[i] = Written(ev[i]) /\ ~Malformed(ev[i])
             /\ \A x \in EventFields \ {"payload"} : py[i][x] = ev[i][x]
  <2>1. /\ EventFields \subseteq DOMAIN ev[i] /\ ev[i].object
        /\ "details" \in DOMAIN ev[i].payload /\ ev[i].payload.details \in Json
        /\ PlainData[ev[i].payload.details]
    BY TextsAssumption
  <2> HIDE DEF ev, py
  <2> QED
    BY <1>2, <2>1, WrittenAlike DEF Malformed
<1>4. \A i \in DOMAIN ev :
        /\ py[i].material = ev[i].material /\ py[i].action_id = ev[i].action_id
        /\ py[i].payload_hash = ev[i].payload_hash /\ py[i].event_id = ev[i].event_id
        /\ py[i].previous_event_hash = ev[i].previous_event_hash
        /\ py[i].event_hash = ev[i].event_hash
  BY <1>3, WrittenFields
<1>5. (UNION {EventCodes(py, i) : i \in Walked(py)}) = {}
        <=> \A i \in DOMAIN py : EventHolds(py, i)
  <2> HIDE DEF ev, py
  <2>1. \A i \in DOMAIN py : py[i].material
    BY <1>1, <1>2, <1>4 DEF ev
  <2> QED
    BY <1>1, <1>2, <2>1, LoopReportsNothing
<1>6. EventsCodes(m, py) = {} <=>
        /\ m.schema_ok /\ m.event_count = Len(ev) /\ ev # <<>>
        /\ ev[1].previous_event_hash = m.chain_start
        /\ \A i \in DOMAIN ev : EventHolds(py, i)
        /\ m.action_id \in {ev[i].action_id : i \in DOMAIN ev}
  <2> DEFINE Walk == UNION {EventCodes(py, i) : i \in Walked(py)}
             Start == /\ m.schema_ok /\ m.event_count = Len(ev) /\ ev # <<>>
                      /\ ev[1].previous_event_hash = m.chain_start
  <2> HIDE DEF m, ev, py, Walk
  <2>1. HeaderCodes(m, py) = {} <=> Start
    <3>1. ev # <<>> => 1 \in DOMAIN ev
      BY <1>1
    <3> QED
      BY <1>2, <1>4, <3>1, HeaderVerdict
  <2>2. ActionCodes(m, py) = {} <=> m.action_id \in {ev[i].action_id : i \in DOMAIN ev}
    <3>1. {py[i].action_id : i \in DOMAIN py} = {ev[i].action_id : i \in DOMAIN ev}
      BY <1>1, <1>2, <1>4
    <3>2. ActionCodes(m, py) = {} <=> m.action_id \in {py[i].action_id : i \in DOMAIN py}
      BY HeaderVerdict
    <3> QED
      BY <3>1, <3>2, Zenon
  <2>3. Walk = {} <=> \A i \in DOMAIN ev : EventHolds(py, i)
    BY <1>1, <1>2, <1>5 DEF Walk
  <2>4. (\A i \in DOMAIN ev : EventHolds(py, i)) => \A i \in DOMAIN py : Complete(py[i])
    <3>1. \A i \in DOMAIN ev : py[i].material
      BY <1>4 DEF ev
    <3> QED
      BY <1>1, <1>2, <3>1
         DEF Complete, EventHolds, EventId, EventHash, Hash, None
  <2>5. EventsCodes(m, py) =
          HeaderCodes(m, py) \cup Walk \cup
          IF py # <<>> /\ \A i \in DOMAIN py : Complete(py[i]) THEN ActionCodes(m, py) ELSE {}
    BY DEF EventsCodes, Walk
  <2>6. EventsCodes(m, py) = {} => HeaderCodes(m, py) = {} /\ Walk = {}
    BY <2>5
  <2>7. Start => py # <<>>
    BY <1>2
  <2>8. HeaderCodes(m, py) = {} /\ Walk = {} => EventsCodes(m, py) = ActionCodes(m, py)
    BY <2>1, <2>3, <2>4, <2>5, <2>7
  <2> QED
    BY <2>1, <2>2, <2>3, <2>6, <2>8
<1>7. ASSUME ev # <<>>
      PROVE  (/\ ev[1].previous_event_hash = m.chain_start
              /\ \A i \in DOMAIN ev : EventHolds(py, i))
             <=> \A i \in DOMAIN ev :
                   /\ ev[i].payload_hash = PayloadHash(Written(ev[i]).payload)
                   /\ ev[i].event_id = EventId(Written(ev[i]))
                   /\ ev[i].event_hash = EventHash(Written(ev[i]))
                   /\ ev[i].previous_event_hash =
                        IF i = 1 THEN m.chain_start ELSE ev[i - 1].event_hash
  <2> HIDE DEF m, ev, py
  <2>1. 1 \in DOMAIN ev /\ \A i \in DOMAIN ev : i > 1 => i - 1 \in DOMAIN ev
    BY <1>1, <1>7
  <2>2. \A i \in DOMAIN ev : EventHolds(py, i) <=>
          /\ ev[i].payload_hash = PayloadHash(Written(ev[i]).payload)
          /\ ev[i].event_id = EventId(Written(ev[i]))
          /\ ev[i].event_hash = EventHash(Written(ev[i]))
          /\ i > 1 => ev[i].previous_event_hash = ev[i - 1].event_hash
    BY <1>3, <1>4, <2>1 DEF EventHolds
  <2>3. \A i \in DOMAIN ev : i = 1 \/ i > 1
    BY <1>1
  <2> QED
    BY <2>1, <2>2, <2>3
<1>8. EntriesNamed(py, hash) = EntriesNamed(ev, hash)
  <2> HIDE DEF ev, py, hash
  <2> QED
    BY <1>1, <1>2, <1>4 DEF EntriesNamed
<1>9. ReceiptCodes(m, t.receipt, py, m.receipt_public_key, FALSE)
          \cap {"RECEIPT_SIGNATURE_INVALID", "RECEIPT_LEDGER_ENTRY_NOT_IN_SLICE",
                "RECEIPT_BOUND_TO_DIFFERENT_ACTION"} = {}
        <=> /\ MinSignatureHolds(m.receipt_public_key, t.receipt)
            /\ \E i \in EntriesNamed(ev, hash) : /\ ev[i].action_id = m.action_id
                                                /\ \A j \in EntriesNamed(ev, hash) : i <= j
  <2>1. DOMAIN py \subseteq Nat
    BY <1>1, <1>2
  <2>2. \A i \in EntriesNamed(ev, hash) : py[i].action_id = ev[i].action_id
    BY <1>4 DEF EntriesNamed
  <2> HIDE DEF ev, py
  <2>3. ReceiptCodes(m, t.receipt, py, m.receipt_public_key, FALSE)
            \cap {"RECEIPT_SIGNATURE_INVALID", "RECEIPT_LEDGER_ENTRY_NOT_IN_SLICE",
                  "RECEIPT_BOUND_TO_DIFFERENT_ACTION"} = {}
          <=> /\ MinSignatureHolds(m.receipt_public_key, t.receipt)
              /\ \E i \in EntriesNamed(py, hash) : /\ py[i].action_id = m.action_id
                                                  /\ \A j \in EntriesNamed(py, hash) : i <= j
    BY <2>1, PortedReceiptVerdict
  <2> QED
    BY <1>8, <2>2, <2>3
<1>10. MinVerified(t) <=>
         /\ m.schema_ok /\ m.event_count = Len(ev) /\ ev # <<>>
         /\ \A i \in DOMAIN ev :
              /\ ev[i].payload_hash = PayloadHash(Written(ev[i]).payload)
              /\ ev[i].event_id = EventId(Written(ev[i]))
              /\ ev[i].event_hash = EventHash(Written(ev[i]))
              /\ ev[i].previous_event_hash =
                   IF i = 1 THEN m.chain_start ELSE ev[i - 1].event_hash
         /\ m.action_id \in {ev[i].action_id : i \in DOMAIN ev}
         /\ MinSignatureHolds(m.receipt_public_key, t.receipt)
         /\ \E i \in EntriesNamed(ev, hash) : /\ ev[i].action_id = m.action_id
                                             /\ \A j \in EntriesNamed(ev, hash) : i <= j
  <2>1. \A i \in DOMAIN ev : ~Malformed(ev[i])
    BY <1>3
  <2> QED
    BY <2>1 DEF MinVerified, MinSignatureHolds, LibraryAcceptsEd25519, EntriesNamed
<1> HIDE DEF ev, py, m, hash
<1> QED
  BY <1>6, <1>7, <1>9, <1>10 DEF ev, py, m

(***************************************************************************)
(* The inductive invariant: what a run has reported is what the checks      *)
(* behind it report, so its last step knows them all; and while no edit     *)
(* comes during a verification, what runs is about the text that is there.  *)
(***************************************************************************)
Behind(r) ==
  IF r.at = 0
  THEN /\ \A i \in DOMAIN r.checks.of_event : r.checks.of_event[i] = {}
       /\ r.checks.after = {}
  ELSE \A i \in 1..(r.at - 1) : r.checks.of_event[i] = {}

RunOK(r) ==
  /\ r = [id |-> r.id, text |-> r.text, checks |-> r.checks, failures |-> r.failures,
          at |-> r.at]
  /\ r.checks = Checks[r.text]
  /\ r.failures = {} <=> r.checks.before = {} /\ Behind(r)

Invariant ==
  /\ TypeOK
  /\ \A r \in runs : RunOK(r)
  /\ ShownIsItsVerdict
  /\ ~overlapped => \A r \in runs : r.text = text
  /\ InOrderTheBadgeIsTheTexts

\* What Checks holds of a text.
LEMMA ChecksOfATextInIt ==
  ASSUME NEW n \in DOMAIN Texts
  PROVE  /\ Checks[n] = ChecksOf(Texts[n])
         /\ IsSequence(Texts[n].events)
         /\ Len(Texts[n].events) \in Nat
         /\ DOMAIN Checks[n].of_event = 1..Len(Texts[n].events)
         /\ Len(Checks[n].of_event) = Len(Texts[n].events)
         /\ Checks[n].of_event = <<>> <=> Len(Texts[n].events) = 0
<1>1. Checks[n] = ChecksOf(Texts[n])
  BY DEF Checks
<1>2. IsSequence(Texts[n].events)
  BY TextsAssumption
<1>3. Len(Texts[n].events) \in Nat /\ DOMAIN Texts[n].events = 1..Len(Texts[n].events)
  BY <1>2, Sequences
<1> DEFINE events == Texts[n].events
           codes  == [i \in 1..Len(events) |-> MinEventCodes(events, i)]
<1>4. Checks[n].of_event = codes
  BY <1>1, <1>3 DEF ChecksOf
<1>5. codes \in Seq({codes[i] : i \in 1..Len(events)}) /\ DOMAIN codes = 1..Len(events)
  BY <1>3
<1> HIDE DEF codes
<1>6. Len(codes) = Len(events) /\ (codes = <<>> <=> Len(events) = 0)
  BY <1>3, <1>5
<1> QED
  BY <1>1, <1>2, <1>3, <1>4, <1>5, <1>6

\* What the invariant says of the runs, one fact at a time.
LEMMA Runs ==
  ASSUME Invariant
  PROVE  /\ \A r \in runs : r.id \in 0..edits
         /\ \A r \in runs : r.text \in DOMAIN Texts /\ Texts[r.text].parses
         /\ \A r \in runs : r.at \in 0..Len(Texts[r.text].events)
         /\ \A r \in runs, q \in runs : r.id = q.id => r = q
         /\ \A r \in runs : RunOK(r)
  BY Zenon DEF Invariant, TypeOK

\* A new run has no check behind it but those before its loop.
LEMMA NewRunOK ==
  ASSUME NEW id, NEW n \in DOMAIN Texts
  PROVE  /\ RunOK(NewRun(id, n))
         /\ NewRun(id, n).id = id /\ NewRun(id, n).text = n
         /\ NewRun(id, n).at \in 0..Len(Texts[n].events)
<1> DEFINE r == NewRun(id, n)
<1>1. r = [id |-> id, text |-> n, checks |-> Checks[n], failures |-> Checks[n].before,
           at |-> IF Checks[n].of_event = <<>> THEN 0 ELSE 1]
  BY DEF NewRun
<1> HIDE DEF r
<1>2. r.id = id /\ r.text = n /\ r.checks = Checks[n] /\ r.failures = Checks[n].before
  BY <1>1
<1>3. CASE Checks[n].of_event = <<>>
  <2>1. r.at = 0 /\ Texts[n].events = <<>>
    BY <1>1, <1>3, ChecksOfATextInIt, Sequences
  <2>2. "EMPTY_LEDGER_SLICE" \in Checks[n].before
    <3>1. Checks[n].before = HeaderCodes(Texts[n].manifest, Texts[n].events)
      <4>1. Checks[n] = ChecksOf(Texts[n])
        BY ChecksOfATextInIt
      <4> QED
        BY <4>1 DEF ChecksOf
    <3>2. "EMPTY_LEDGER_SLICE" \in HeaderCodes(Texts[n].manifest, Texts[n].events)
      BY <2>1 DEF HeaderCodes, Report
    <3> QED
      BY <3>1, <3>2
  <2> QED
    BY <1>1, <1>2, <2>1, <2>2, ChecksOfATextInIt DEF RunOK, r
<1>4. CASE Checks[n].of_event # <<>>
  <2>1. r.at = 1 /\ Behind(r)
    BY <1>1, <1>4 DEF Behind
  <2> QED
    BY <1>1, <1>2, <1>4, <2>1, ChecksOfATextInIt DEF RunOK, r
<1> QED
  BY <1>3, <1>4

\* The session starts in it.
LEMMA InvariantInit ==
  Init => Invariant
<1> SUFFICES ASSUME Init PROVE Invariant
  OBVIOUS
<1>1. /\ RunOK(NewRun(0, Original)) /\ NewRun(0, Original).id = 0
      /\ NewRun(0, Original).text = Original
      /\ NewRun(0, Original).at \in 0..Len(Texts[Original].events)
  BY NewRunOK, TextsAssumption
<1>2. TypeOK
  <2> DEFINE new == NewRun(0, Original)
  <2>1. \A r \in runs : r = new
    BY DEF Init
  <2> HIDE DEF new
  <2>2. \A r \in runs : /\ r.id \in 0..edits
                        /\ r.text \in DOMAIN Texts /\ Texts[r.text].parses
                        /\ r.at \in 0..Len(Texts[r.text].events)
                        /\ \A s \in runs : r.id = s.id => r = s
    BY <1>1, <2>1, TextsAssumption DEF Init, new
  <2>3. /\ text \in DOMAIN Texts /\ shown \in DOMAIN Texts /\ edits \in 0..MaxEdits
        /\ badge = "Verifying" /\ overlapped = FALSE
    BY TextsAssumption DEF Init
  <2> QED
    BY <2>2, <2>3, Zenon DEF TypeOK
<1> QED
  BY <1>1, <1>2 DEF Init, Invariant, ShownIsItsVerdict, InOrderTheBadgeIsTheTexts

\* An edit starts a run of the new text, or none, and tells of an overlap.
LEMMA EditStep ==
  ASSUME Invariant, NEW n \in DOMAIN Texts, Changed(n), RunVerification(n)
  PROVE  Invariant'
<1>1. /\ edits \in Nat /\ edits' = edits + 1 /\ edits' \in 0..MaxEdits
      /\ text' = n /\ overlapped' = (overlapped \/ runs # {})
      /\ overlapped \in BOOLEAN
  <2>1. edits \in 0..MaxEdits /\ overlapped \in BOOLEAN
    BY DEF Invariant, TypeOK
  <2>2. edits < MaxEdits /\ edits' = edits + 1
    BY DEF Changed
  <2>3. edits \in Nat /\ edits' \in 0..MaxEdits
    BY <2>1, <2>2, TextsAssumption
  <2> QED
    BY <2>1, <2>2, <2>3 DEF Changed
<1>2. CASE ~Texts[n].parses
  <2>1. /\ badge' = "INVALID JSON" /\ list' = {"JSON_PARSE_ERROR"} /\ shown' = n
        /\ runs' = runs
    BY <1>2 DEF RunVerification
  <2>2. TypeOK'
    <3>1. \A r \in runs : r.id \in 0..edits'
      BY <1>1, Runs
    <3>2. overlapped' \in BOOLEAN
      BY <1>1
    <3> QED
      BY <1>1, <2>1, <3>1, <3>2, Zenon DEF Invariant, TypeOK
  <2>3. ShownIsItsVerdict'
    BY <1>2, <2>1 DEF ShownIsItsVerdict, BadgeFor
  <2>4. InOrderTheBadgeIsTheTexts'
    BY <1>1, <1>2, <2>1 DEF InOrderTheBadgeIsTheTexts, BadgeFor
  <2>5. ~overlapped' => \A r \in runs' : r.text = text'
    BY <1>1, <2>1
  <2> QED
    BY <2>1, <2>2, <2>3, <2>4, <2>5 DEF Invariant
<1>3. CASE Texts[n].parses
  <2> DEFINE new == NewRun(edits + 1, n)
  <2>1. /\ badge' = "Verifying" /\ list' = list /\ shown' = shown
        /\ runs' = IF HeaderRejects(Texts[n]) THEN runs ELSE runs \cup {new}
    BY <1>3 DEF RunVerification
  <2>2. /\ RunOK(new) /\ new.id = edits + 1 /\ new.text = n
        /\ new.at \in 0..Len(Texts[n].events)
    BY NewRunOK
  <2> HIDE DEF new
  <2>3. \A r \in runs' : r \in runs \/ r = new
    BY <2>1
  <2>4. TypeOK'
    <3>1. \A r \in runs' : /\ r.id \in 0..edits'
                           /\ r.text \in DOMAIN Texts /\ Texts[r.text].parses
                           /\ r.at \in 0..Len(Texts[r.text].events)
      <4>1. \A r \in runs : r.id \in 0..edits'
        BY <1>1, Runs
      <4>2. new.id \in 0..edits'
        BY <1>1, <2>2
      <4> QED
        BY <1>3, <2>2, <2>3, <4>1, <4>2, Runs, Zenon
    <3>2. \A r \in runs', s \in runs' : r.id = s.id => r = s
      <4>1. \A r \in runs : r.id # new.id
        BY <1>1, <2>2, Runs
      <4> QED
        BY <2>3, <4>1, Runs, Zenon
    <3> QED
      BY <1>1, <2>1, <3>1, <3>2 DEF Invariant, TypeOK
  <2>5. \A r \in runs' : RunOK(r)
    BY <2>2, <2>3 DEF Invariant
  <2>6. ShownIsItsVerdict'
    BY <2>1 DEF ShownIsItsVerdict
  <2>7. ~overlapped' => \A r \in runs' : r.text = text'
    BY <1>1, <2>2, <2>3
  <2>8. InOrderTheBadgeIsTheTexts'
    BY <1>1, <1>3, <2>1 DEF InOrderTheBadgeIsTheTexts, Unjudgeable
  <2> QED
    BY <2>4, <2>5, <2>6, <2>7, <2>8 DEF Invariant
<1> QED
  BY <1>2, <1>3

\* A run with other failures, elsewhere in its loop.
LEMMA UpdatedRun ==
  ASSUME NEW r, NEW f, NEW a,
         r = [id |-> r.id, text |-> r.text, checks |-> r.checks, failures |-> r.failures,
              at |-> r.at]
  PROVE  [r EXCEPT !.failures = f, !.at = a] =
           [id |-> r.id, text |-> r.text, checks |-> r.checks, failures |-> f, at |-> a]
<1> DEFINE id == r.id
           t == r.text
           c == r.checks
           g == r.failures
           h == r.at
           q == [r EXCEPT !.failures = f]
<1>1. r = [id |-> id, text |-> t, checks |-> c, failures |-> g, at |-> h]
  OBVIOUS
<1> HIDE DEF id, t, c, g, h
<1>2. q = [id |-> id, text |-> t, checks |-> c, failures |-> f, at |-> h]
  BY ONLY <1>1
<1>3. ASSUME NEW p, p = [id |-> id, text |-> t, checks |-> c, failures |-> f, at |-> h]
      PROVE  [p EXCEPT !.at = a] =
               [id |-> id, text |-> t, checks |-> c, failures |-> f, at |-> a]
  BY ONLY <1>3
<1> HIDE DEF q
<1>4. [q EXCEPT !.at = a] =
        [id |-> id, text |-> t, checks |-> c, failures |-> f, at |-> a]
  BY <1>2, <1>3, Zenon
<1> QED
  BY <1>4, Zenon DEF q, id, t, c

\* One event of a run: the checks behind it are one more, or all of them.
LEMMA CheckEventStep ==
  ASSUME Invariant, NEW r \in runs, CheckEvent(r)
  PROVE  Invariant'
<1> DEFINE c     == r.checks
           stops == "MALFORMED_EVENT" \in c.of_event[r.at]
           ends  == r.at = Len(c.of_event)
           s == [r EXCEPT !.failures = @ \cup c.of_event[r.at]
                                \cup IF ends /\ ~stops THEN c.after ELSE {},
                          !.at = IF ends \/ stops THEN 0 ELSE @ + 1]
<1>1. /\ r.at # 0 /\ runs' = (runs \ {r}) \cup {s}
      /\ UNCHANGED <<text, edits, badge, list, shown, overlapped>>
  BY DEF CheckEvent
<1>2. /\ RunOK(r) /\ r.text \in DOMAIN Texts /\ c = Checks[r.text]
      /\ r.at \in 1..Len(c.of_event)
      /\ Len(c.of_event) = Len(Texts[r.text].events)
      /\ DOMAIN c.of_event = 1..Len(c.of_event) /\ Len(c.of_event) \in Nat
  <2>1. RunOK(r) /\ r.text \in DOMAIN Texts /\ r.at \in 0..Len(Texts[r.text].events)
    BY Runs
  <2>2. c = Checks[r.text]
    BY <2>1 DEF RunOK
  <2>3. /\ Len(Texts[r.text].events) \in Nat
        /\ DOMAIN Checks[r.text].of_event = 1..Len(Texts[r.text].events)
        /\ Len(Checks[r.text].of_event) = Len(Texts[r.text].events)
    BY <2>1, ChecksOfATextInIt
  <2> HIDE DEF c
  <2>4. r.at \in 1..Len(Texts[r.text].events)
    BY <1>1, <2>1, <2>3
  <2> QED
    BY <2>1, <2>2, <2>3, <2>4
<1>3. /\ s.id = r.id /\ s.text = r.text /\ s.checks = r.checks
      /\ s.failures = r.failures \cup c.of_event[r.at]
                        \cup IF ends /\ ~stops THEN c.after ELSE {}
      /\ s.at = IF ends \/ stops THEN 0 ELSE r.at + 1
      /\ s = [id |-> s.id, text |-> s.text, checks |-> s.checks,
              failures |-> s.failures, at |-> s.at]
  <2>1. r = [id |-> r.id, text |-> r.text, checks |-> r.checks, failures |-> r.failures,
             at |-> r.at]
    BY <1>2 DEF RunOK
  <2>2. \A f, a : [r EXCEPT !.failures = f, !.at = a] =
            [id |-> r.id, text |-> r.text, checks |-> r.checks, failures |-> f, at |-> a]
    BY <2>1, UpdatedRun, Zenon
  <2> DEFINE F == r.failures \cup c.of_event[r.at] \cup IF ends /\ ~stops THEN c.after ELSE {}
             A == IF ends \/ stops THEN 0 ELSE r.at + 1
  <2>3. s = [r EXCEPT !.failures = F, !.at = A]
    OBVIOUS
  <2> HIDE DEF F, A, s
  <2>4. s = [id |-> r.id, text |-> r.text, checks |-> r.checks, failures |-> F, at |-> A]
    BY <2>2, <2>3
  <2>5. /\ s.id = r.id /\ s.text = r.text /\ s.checks = r.checks /\ s.failures = F /\ s.at = A
        /\ s = [id |-> s.id, text |-> s.text, checks |-> s.checks,
                failures |-> s.failures, at |-> s.at]
    BY <2>4
  <2> QED
    BY <2>5 DEF F, A
<1> HIDE DEF s
<1>4. s.at \in 0..Len(Texts[r.text].events)
  BY <1>2, <1>3
<1>5. s.failures = {} <=> s.checks.before = {} /\ Behind(s)
  <2>1. r.failures = {} <=> c.before = {} /\ \A i \in 1..(r.at - 1) : c.of_event[i] = {}
    BY <1>1, <1>2 DEF RunOK, Behind
  <2>2. CASE stops
    <3>1. s.at = 0 /\ c.of_event[r.at] # {} /\ s.failures # {}
      BY <1>3, <2>2
    <3> QED
      BY <1>2, <1>3, <3>1 DEF Behind
  <2>3. CASE ~stops /\ ends
    <3>1. s.at = 0 /\ s.failures = r.failures \cup c.of_event[r.at] \cup c.after
      BY <1>3, <2>3
    <3>2. (\A i \in DOMAIN c.of_event : c.of_event[i] = {}) <=>
            (\A i \in 1..(r.at - 1) : c.of_event[i] = {}) /\ c.of_event[r.at] = {}
      BY <1>2, <2>3
    <3> QED
      BY <1>3, <2>1, <3>1, <3>2 DEF Behind
  <2>4. CASE ~stops /\ ~ends
    <3>1. s.at = r.at + 1 /\ s.failures = r.failures \cup c.of_event[r.at]
      BY <1>3, <2>4
    <3>2. (\A i \in 1..r.at : c.of_event[i] = {}) <=>
            (\A i \in 1..(r.at - 1) : c.of_event[i] = {}) /\ c.of_event[r.at] = {}
      BY <1>2
    <3>3. s.at # 0 /\ s.at - 1 = r.at
      BY <1>2, <3>1
    <3> QED
      BY <1>3, <2>1, <3>1, <3>2, <3>3 DEF Behind
  <2> QED
    BY <2>2, <2>3, <2>4
<1>6. \A q \in runs' : q = s \/ (q \in runs /\ q # r)
  BY <1>1
<1>7. TypeOK'
  <2>1. \A q \in runs' : /\ q.id \in 0..edits
                         /\ q.text \in DOMAIN Texts /\ Texts[q.text].parses
                         /\ q.at \in 0..Len(Texts[q.text].events)
    BY <1>3, <1>4, <1>6, Zenon DEF Invariant, TypeOK
  <2>2. \A p \in runs', q \in runs' : p.id = q.id => p = q
    BY <1>3, <1>6, Runs, Zenon
  <2> QED
    BY <1>1, <2>1, <2>2, Zenon DEF Invariant, TypeOK
<1>8. \A q \in runs' : RunOK(q)
  BY <1>2, <1>3, <1>5, <1>6 DEF Invariant, RunOK
<1>9. ~overlapped' => \A q \in runs' : q.text = text'
  BY <1>1, <1>3, <1>6 DEF Invariant
<1>10. ShownIsItsVerdict' /\ InOrderTheBadgeIsTheTexts'
  <2>1. runs' # {}
    BY <1>1
  <2> QED
    BY <1>1, <2>1 DEF Invariant, ShownIsItsVerdict, InOrderTheBadgeIsTheTexts, BadgeFor
<1> QED
  BY <1>7, <1>8, <1>9, <1>10 DEF Invariant

\* A run that leaves, by the way it came or by its end, leaves the others be.
LEMMA RunsLeft ==
  ASSUME Invariant, NEW r \in runs, runs' = runs \ {r},
         UNCHANGED <<text, edits, overlapped>>,
         badge' \in {badge, "VERIFIED", "VERIFICATION FAILED"},
         shown' \in {shown, r.text}
  PROVE  /\ TypeOK'
         /\ \A q \in runs' : RunOK(q)
         /\ ~overlapped' => \A q \in runs' : q.text = text'
<1>1. \A q \in runs' : q \in runs
  OBVIOUS
<1>2. TypeOK'
  <2>1. badge' \in {"Verifying", "INVALID JSON", "VERIFIED", "VERIFICATION FAILED"}
    BY DEF Invariant, TypeOK
  <2>2. shown' \in DOMAIN Texts
    BY DEF Invariant, TypeOK
  <2> QED
    BY <1>1, <2>1, <2>2, Zenon DEF Invariant, TypeOK
<1> QED
  BY <1>1, <1>2 DEF Invariant

\* The end of a run writes the verdict on its own text.
LEMMA FinishStep ==
  ASSUME Invariant, NEW r \in runs, Finish(r)
  PROVE  Invariant'
<1> DEFINE failures == r.failures \cup r.checks.of_receipt
<1>1. /\ r.at = 0 /\ runs' = runs \ {r}
      /\ badge' = IF failures = {} THEN "VERIFIED" ELSE "VERIFICATION FAILED"
      /\ list' = failures /\ shown' = r.text
      /\ UNCHANGED <<text, edits, overlapped>>
  BY DEF Finish
<1>2. /\ RunOK(r) /\ r.text \in DOMAIN Texts /\ Texts[r.text].parses
      /\ r.checks = ChecksOf(Texts[r.text]) /\ IsSequence(Texts[r.text].events)
  BY ChecksOfATextInIt DEF Invariant, TypeOK, RunOK
<1>3. failures = {} <=> AllPass(r.checks)
  BY <1>1, <1>2 DEF RunOK, Behind, AllPass
<1>4. failures = {} <=> r.text \in VerifiedTexts
  BY <1>2, <1>3, Verdict DEF VerifiedTexts
<1>5. badge' = BadgeFor(r.text)
  BY <1>1, <1>2, <1>4 DEF BadgeFor
<1>6. ShownIsItsVerdict'
  <2>1. list' = {} <=> badge' = "VERIFIED"
    BY <1>1
  <2>2. BadgeFor(shown)' = BadgeFor(r.text)
    BY <1>1 DEF BadgeFor
  <2> QED
    BY <1>5, <2>1, <2>2 DEF ShownIsItsVerdict
<1>7. InOrderTheBadgeIsTheTexts'
  <2>1. ~overlapped' => BadgeFor(text)' = BadgeFor(r.text)
    BY <1>1 DEF Invariant, BadgeFor
  <2> QED
    BY <1>5, <2>1 DEF InOrderTheBadgeIsTheTexts
<1> QED
  BY <1>1, <1>6, <1>7, RunsLeft DEF Invariant

\* A rejected run leaves a text of which no verdict was promised.
LEMMA RejectStep ==
  ASSUME Invariant, NEW r \in runs, Reject(r)
  PROVE  Invariant'
<1>1. /\ r.checks.throws /\ runs' = runs \ {r}
      /\ UNCHANGED <<text, edits, badge, list, shown, overlapped>>
  BY DEF Reject
<1>2. /\ r.text \in DOMAIN Texts /\ Texts[r.text].parses
      /\ r.checks = ChecksOf(Texts[r.text])
  BY ChecksOfATextInIt DEF Invariant, TypeOK, RunOK
<1>3. Unjudgeable(r.text)
  BY <1>1, <1>2 DEF Unjudgeable, ChecksOf
<1>4. InOrderTheBadgeIsTheTexts'
  BY <1>1, <1>3 DEF Invariant, InOrderTheBadgeIsTheTexts, Unjudgeable
<1>5. ShownIsItsVerdict'
  BY <1>1 DEF Invariant, ShownIsItsVerdict, BadgeFor
<1> QED
  BY <1>1, <1>4, <1>5, RunsLeft DEF Invariant

\* Every step keeps it.
LEMMA InvariantNext ==
  Invariant /\ [Next]_vars => Invariant'
<1> SUFFICES ASSUME Invariant, [Next]_vars PROVE Invariant'
  OBVIOUS
<1>1. ASSUME NEW n \in DOMAIN Texts, Edit(n) PROVE Invariant'
  BY <1>1, EditStep DEF Edit
<1>2. ASSUME Reset PROVE Invariant'
  BY <1>2, EditStep, TextsAssumption DEF Reset
<1>3. ASSUME NEW r \in runs, Advance(r) PROVE Invariant'
  BY <1>3, CheckEventStep, FinishStep, RejectStep DEF Advance
<1>4. ASSUME UNCHANGED vars PROVE Invariant'
  BY <1>4 DEF vars, Invariant, TypeOK, ShownIsItsVerdict, BadgeFor,
              InOrderTheBadgeIsTheTexts, Unjudgeable
<1> QED
  BY <1>1, <1>2, <1>3, <1>4 DEF Next

\* What a verdict on the badge says is what verify.py says.
LEMMA JudgedAlike ==
  Invariant => AgreesWithVerifyPy
<1> SUFFICES ASSUME Invariant PROVE AgreesWithVerifyPy
  OBVIOUS
<1>1. shown \in DOMAIN Texts
  BY DEF Invariant, TypeOK
<1>2. Judged => (badge = "VERIFIED" <=> MinVerified(Texts[shown]))
  <2>1. badge # "Verifying" => badge = BadgeFor(shown)
    BY DEF Invariant, ShownIsItsVerdict
  <2> QED
    BY <1>1, <2>1 DEF Judged, BadgeFor, VerifiedTexts
<1>3. shown \in ReadAlike => (MinVerified(Texts[shown]) <=> shown \in PassedByVerifyPy)
  BY <1>1, PortedVerdict DEF ReadAlike, PassedByVerifyPy
<1> QED
  BY <1>2, <1>3 DEF AgreesWithVerifyPy

(***************************************************************************)
(* The theorems.                                                            *)
(***************************************************************************)
\* The inductive invariant holds of every session.
THEOREM InvariantHolds == Spec => []Invariant
<1> QED
  BY InvariantInit, InvariantNext, PTL DEF Spec

\* Every run of verifyPacket is one edit's, inside its own loop.
THEOREM TypeCorrect == Spec => []TypeOK
<1>1. Invariant => TypeOK
  BY DEF Invariant
<1> QED
  BY <1>1, InvariantHolds, PTL

\* However many verifications overlap, and in whatever order they go on, the
\* badge is the verdict on one whole text, and the list beside it its reasons.
THEOREM BadgeIsOneTextsVerdict == Spec => []ShownIsItsVerdict
<1>1. Invariant => ShownIsItsVerdict
  BY DEF Invariant
<1> QED
  BY <1>1, InvariantHolds, PTL

\* While no edit comes during a verification, the badge it leaves is the
\* verdict on the text in the editors.
THEOREM InOrderBadge == Spec => []InOrderTheBadgeIsTheTexts
<1>1. Invariant => InOrderTheBadgeIsTheTexts
  BY DEF Invariant
<1> QED
  BY <1>1, InvariantHolds, PTL

\* The page and the program it ports say the same of every text both read the
\* same way, however deep its payloads, whatever their keys, and whatever the
\* steps that led to the badge.
THEOREM PageAgreesWithVerifyPy == Spec => []AgreesWithVerifyPy
<1> QED
  BY JudgedAlike, InvariantHolds, PTL

=============================================================================
