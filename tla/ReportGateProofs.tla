--------------------------- MODULE ReportGateProofs ---------------------------
(* What verification and the output gate promise for any ledger, any answers of  *)
(* the model and any setting of the rounds.                                      *)
EXTENDS ReportGate, FiniteSetTheorems, SequenceTheorems, TLAPS

(* Lists: a sequence, written by its places.                                     *)
IsList(list) == Len(list) \in Nat /\ list = [i \in 1..Len(list) |-> list[i]]

-----------------------------------------------------------------------------
(* What every report is, whoever wrote it: sections of sentences.  What is left  *)
(* uncited is framing only, and only framing carries other labels than the marks *)
(* of the gate.                                                                  *)
SentenceFields == {"kind", "cites", "text", "masked", "labels", "id"}
Marks == {Uncertain, SingleSource, Approximate}
Worded(s) ==
    /\ DOMAIN s = SentenceFields
    /\ s.kind \in {"meta", "fact", "recommendation"} /\ s.masked \in Nat
    /\ s.kind = "meta" => s.cites = {}
    /\ s.kind # "meta" => s.labels \subseteq Marks
Composed(sections) ==
    /\ DOMAIN sections \subseteq SectionKeys /\ sections = [k \in DOMAIN sections |-> sections[k]]
    /\ \A k \in DOMAIN sections :
          IsList(sections[k]) /\ \A i \in DOMAIN sections[k] : Worded(sections[k][i])
Unannounced(sections) ==
    \A k \in DOMAIN sections : \A i \in DOMAIN sections[k] : \A l \in sections[k][i].labels : l[1] # "removed"

(* What is still sensitive was masked in every one of the rounds.                *)
Masked(sections, rounds) ==
    \A k \in DOMAIN sections : \A i \in DOMAIN sections[k] :
        Secret(sections[k][i]) => sections[k][i].masked = rounds

ReportFields == {"fallback", "foreign", "sources", "sections"}
IsReport(r) ==
    /\ DOMAIN r = ReportFields /\ r.fallback \in BOOLEAN
    /\ Composed(r.sections) /\ Unannounced(r.sections)
Sourced(r) == IsReport(r) /\ r.sources = CitedDocs(r.sections)

(* In verification: the sentences are those of the draft, at their places, and   *)
(* every cited one waits in a batch, was judged, or counts as unsupported.       *)
Draft == IF rewritten THEN 2 ELSE 1
Numbered(sections) ==
    \A k \in DOMAIN sections : \A i \in DOMAIN sections[k] :
        sections[k][i].kind # "meta" => sections[k][i].id = <<Draft, k, i>>
Batch(b) ==
    /\ DOMAIN b = {"tries", "pending"} /\ b.tries \in 0..2
    /\ b.tries = 2 => b.pending \subseteq verify.unsupported
InHand(at) ==
    \/ at \in verify.checked \cup verify.unsupported
    \/ \E b \in DOMAIN verify.batches : at \in verify.batches[b].pending
BeingVerified ==
    /\ IsReport(report) /\ ~report.fallback /\ "known_gaps" \in DOMAIN report.sections
    /\ Numbered(report.sections)
    /\ DOMAIN verify = {"batches", "unsupported", "unavailable", "checked"}
    /\ \A b \in DOMAIN verify.batches : Batch(verify.batches[b])
    /\ \A at \in ToVerify(report.sections) : InHand(at)

(* At the gate: what is missing from the copy was counted, the violations are    *)
(* those of the copy, and after a round no error is left but the missing finding *)
(* and what masking did to a sentence that each of the rounds masked.            *)
Facts(sections) == {at \in Addresses(sections) : At(sections, at).kind # "meta"}
Spoiled(r, rounds) == \E s \in SentencesOf(r.sections) : s.masked = rounds /\ (Secret(s) \/ Misstates(r, s))
OnlySpoiled(r, rounds) ==
    \A v \in Evaluate(r) : v.error =>
        v.rule = "insufficient" \/ (v.rule \in {"G4", "G9"} /\ Spoiled(r, rounds))
BeingMended ==
    /\ Sourced(report) /\ Sourced(gate.working)
    /\ DOMAIN gate = {"working", "initial", "left", "removed", "rounds", "verdict"}
    /\ gate.removed \in Nat /\ gate.rounds \in Nat /\ gate.rounds <= limit
    /\ Cardinality(Facts(report.sections)) = Cardinality(Facts(gate.working.sections)) + gate.removed
    /\ gate.left = Evaluate(gate.working)
    /\ Masked(gate.working.sections, gate.rounds)
    /\ gate.rounds > 0 => OnlySpoiled(gate.working, gate.rounds)

ReportInv ==
    /\ ledger \in Ledgers /\ limit \in Limits
    /\ phase \in {"synthesize", "verify", "review", "gate", "remediate", "done", "raised"}
    /\ phase = "synthesize" => rewritten = FALSE
    /\ phase = "verify" => BeingVerified /\ rewritten \in BOOLEAN
    /\ phase \in {"review", "gate"} => Sourced(report)
    /\ phase \in {"verify", "review", "gate"} => Masked(report.sections, 0)
    /\ phase = "remediate" => BeingMended
    /\ OnlyVerifiedIsKept /\ FailsOnlyWithoutFindings /\ RemovalsAnnounced

-----------------------------------------------------------------------------
(* The members of a finite set of places, ascending, are each of them once: the  *)
(* rank of a member is an injection into as many ranks as there are members.     *)
LEMMA RankInjective ==
  ASSUME NEW K \in SUBSET Nat, IsFiniteSet(K), NEW i \in K, NEW k \in K, i < k
  PROVE  Cardinality({j \in K : j <= i}) < Cardinality({j \in K : j <= k})
<1> DEFINE low == {j \in K : j <= i}
           high == {j \in K : j <= k}
<1>0. \A j \in K : j \in Nat
  OBVIOUS
<1>1. low \subseteq high /\ k \in high /\ k \notin low
  <2>1. i \in Nat /\ k \in Nat /\ k \in high /\ k \notin low
    BY <1>0
  <2>2. ASSUME NEW j \in low PROVE j \in high
    BY <1>0, <2>1
  <2> QED BY <2>1, <2>2
<1>2. IsFiniteSet(high) /\ IsFiniteSet(low) /\ Cardinality(low) \in Nat /\ Cardinality(high) \in Nat
  BY FS_Subset, FS_CardinalityType
<1>3. Cardinality(low) <= Cardinality(high) /\ (Cardinality(high) = Cardinality(low) => high = low)
  BY <1>1, <1>2, FS_Subset
<1> QED BY <1>1, <1>2, <1>3

LEMMA Ranked ==
  ASSUME NEW K \in SUBSET Nat, IsFiniteSet(K)
  PROVE  \A n \in 1..Cardinality(K) : \E i \in K : Cardinality({j \in K : j <= i}) = n
<1> DEFINE N == Cardinality(K)
           rank == [i \in K |-> Cardinality({j \in K : j <= i})]
<1>1. N \in Nat
  BY FS_CardinalityType
<1>2. ASSUME NEW i \in K PROVE rank[i] \in 1..N
  <2> DEFINE low == {j \in K : j <= i}
  <2>1. low \subseteq K /\ i \in low
    OBVIOUS
  <2>2. IsFiniteSet(low) /\ Cardinality(low) \in Nat /\ Cardinality(low) <= N
    BY <2>1, FS_Subset, FS_CardinalityType
  <2>3. Cardinality(low) # 0
    BY <2>1, <2>2, FS_EmptySet
  <2> QED BY <1>1, <2>2, <2>3
<1>3. ASSUME NEW i \in K, NEW k \in K, rank[i] = rank[k] PROVE i = k
  <2>1. i < k => rank[i] < rank[k]
    BY RankInjective
  <2>2. k < i => rank[k] < rank[i]
    BY RankInjective
  <2>3. rank[i] \in Nat /\ rank[k] \in Nat /\ i \in Nat /\ k \in Nat
    BY <1>1, <1>2
  <2> QED BY <1>3, <2>1, <2>2, <2>3
<1> HIDE DEF rank
<1>4. rank \in Injection(K, 1..N)
  <2>1. rank \in [K -> 1..N]
    BY <1>2 DEF rank
  <2> QED BY <1>3, <2>1 DEF Injection, IsInjective
<1>5. IsFiniteSet(1..N) /\ Cardinality(1..N) = N
  BY <1>1, FS_Interval
<1>6. rank \in Surjection(K, 1..N)
  BY <1>4, <1>5, FS_Injection
<1>7. \A n \in 1..N : \E i \in K : rank[i] = n
  BY <1>6 DEF Surjection
<1> QED BY <1>7 DEF rank

LEMMA InOrderEach ==
  ASSUME NEW K \in SUBSET Nat, IsFiniteSet(K)
  PROVE  /\ Cardinality(K) \in Nat
         /\ InOrder(K) \in [1..Cardinality(K) -> K]
         /\ \A i \in K : \E n \in 1..Cardinality(K) : InOrder(K)[n] = i
         /\ \A m, n \in 1..Cardinality(K) : InOrder(K)[m] = InOrder(K)[n] => m = n
<1> DEFINE N == Cardinality(K)
           rank(i) == Cardinality({j \in K : j <= i})
<1>1. N \in Nat /\ IsFiniteSet(1..N) /\ Cardinality(1..N) = N
  BY FS_CardinalityType, FS_Interval
<1>2. \A n \in 1..N : \E i \in K : rank(i) = n
  BY Ranked
<1>3. DOMAIN InOrder(K) = 1..N /\ \A n \in 1..N : InOrder(K)[n] = CHOOSE i \in K : rank(i) = n
  BY DEF InOrder
<1> HIDE DEF rank
<1>4. \A n \in 1..N : InOrder(K)[n] \in K /\ rank(InOrder(K)[n]) = n
  BY <1>2, <1>3
<1>5. \A m, n \in 1..N : InOrder(K)[m] = InOrder(K)[n] => m = n
  BY <1>4
<1>6. InOrder(K) \in [1..N -> K]
  <2>1. InOrder(K) = [n \in 1..N |-> InOrder(K)[n]]
    BY DEF InOrder
  <2> QED BY <1>4, <2>1
<1> HIDE DEF N
<1>7. InOrder(K) \in Injection(1..N, K)
  BY <1>5, <1>6 DEF Injection, IsInjective
<1>8. InOrder(K) \in Surjection(1..N, K)
  BY <1>1, <1>7, FS_Injection DEF N
<1>9. \A i \in K : \E n \in 1..N : InOrder(K)[n] = i
  BY <1>8 DEF Surjection
<1> QED BY <1>1, <1>5, <1>6, <1>9 DEF N

-----------------------------------------------------------------------------
(* Lists.                                                                        *)
LEMMA ByPlaces ==
  ASSUME NEW n \in Nat, NEW f, f = [i \in 1..n |-> f[i]]
  PROVE  IsList(f) /\ Len(f) = n /\ DOMAIN f = 1..n
<1> DEFINE S == {f[i] : i \in 1..n}
<1>1. f \in Seq(S) /\ DOMAIN f = 1..n
  <2>1. f \in [1..n -> S] /\ DOMAIN f = 1..n
    OBVIOUS
  <2> QED BY <2>1, SeqDef
<1>2. Len(f) \in Nat /\ DOMAIN f = 1..Len(f)
  BY <1>1, LenProperties
<1>3. Len(f) = n
  BY <1>1, <1>2
<1> QED BY <1>1, <1>3 DEF IsList

LEMMA ListSeq ==
  ASSUME NEW f, IsList(f)
  PROVE  f \in Seq(ToSet(f)) /\ DOMAIN f = 1..Len(f) /\ Len(f) \in Nat
<1>1. PICK n \in Nat : f = [i \in 1..n |-> f[i]] /\ n = Len(f)
  BY DEF IsList
<1>2. DOMAIN f = 1..n
  BY <1>1
<1>3. f \in [1..n -> ToSet(f)]
  BY <1>1, <1>2 DEF ToSet
<1> QED BY <1>1, <1>2, <1>3, SeqDef

LEMMA SeqList ==
  ASSUME NEW S, NEW f \in Seq(S) PROVE IsList(f)
BY LenProperties DEF IsList

LEMMA Concatenated ==
  ASSUME NEW f, NEW g, IsList(f), IsList(g)
  PROVE  /\ IsList(f \o g) /\ DOMAIN (f \o g) = 1..(Len(f) + Len(g))
         /\ \A i \in DOMAIN f : (f \o g)[i] = f[i]
         /\ \A i \in DOMAIN g : (f \o g)[Len(f) + i] = g[i]
         /\ \A i \in DOMAIN (f \o g) \ DOMAIN f : i - Len(f) \in DOMAIN g /\ (f \o g)[i] = g[i - Len(f)]
<1> DEFINE S == ToSet(f) \cup ToSet(g)
<1>1. f \in Seq(S) /\ g \in Seq(S)
  BY ListSeq, SeqMonotonic
<1>2. Len(f) \in Nat /\ Len(g) \in Nat /\ DOMAIN f = 1..Len(f) /\ DOMAIN g = 1..Len(g)
  BY ListSeq
<1>3. /\ f \o g \in Seq(S) /\ Len(f \o g) = Len(f) + Len(g)
      /\ \A i \in 1..(Len(f) + Len(g)) : (f \o g)[i] = IF i <= Len(f) THEN f[i] ELSE g[i - Len(f)]
  BY <1>1, ConcatProperties
<1>4. DOMAIN (f \o g) = 1..(Len(f) + Len(g))
  BY <1>3, LenProperties
<1>5. IsList(f \o g)
  BY <1>3, SeqList
<1> HIDE DEF S
<1> QED BY <1>2, <1>3, <1>4, <1>5

LEMMA Appended ==
  ASSUME NEW f, NEW x, IsList(f)
  PROVE  /\ IsList(Append(f, x)) /\ DOMAIN Append(f, x) = 1..(Len(f) + 1)
         /\ \A i \in DOMAIN f : Append(f, x)[i] = f[i]
         /\ Append(f, x)[Len(f) + 1] = x /\ DOMAIN f = 1..Len(f) /\ Len(f) \in Nat
<1> DEFINE S == ToSet(f) \cup {x}
<1>1. f \in Seq(S) /\ Len(f) \in Nat /\ DOMAIN f = 1..Len(f)
  BY ListSeq, SeqMonotonic
<1>2. /\ Append(f, x) \in Seq(S) /\ Len(Append(f, x)) = Len(f) + 1
      /\ \A i \in 1..Len(f) : Append(f, x)[i] = f[i] /\ Append(f, x)[Len(f) + 1] = x
  BY <1>1, AppendProperties
<1>3. IsList(Append(f, x)) /\ DOMAIN Append(f, x) = 1..(Len(f) + 1)
  BY <1>2, SeqList, LenProperties
<1>4. Append(f, x)[Len(f) + 1] = x
  BY <1>1
<1> QED BY <1>1, <1>2, <1>3, <1>4

LEMMA KeepingEach ==
  ASSUME NEW f, IsList(f), NEW K \in SUBSET DOMAIN f
  PROVE  /\ IsList(Keeping(f, K)) /\ DOMAIN Keeping(f, K) = 1..Cardinality(K)
         /\ InOrder(K) \in [1..Cardinality(K) -> K]
         /\ \A n \in DOMAIN Keeping(f, K) : Keeping(f, K)[n] = f[InOrder(K)[n]]
         /\ \A i \in K : \E n \in DOMAIN Keeping(f, K) : InOrder(K)[n] = i
         /\ \A m, n \in DOMAIN Keeping(f, K) : InOrder(K)[m] = InOrder(K)[n] => m = n
<1>1. DOMAIN f = 1..Len(f) /\ Len(f) \in Nat
  BY ListSeq
<1>2. K \in SUBSET Nat /\ IsFiniteSet(K)
  <2>1. IsFiniteSet(1..Len(f)) /\ K \subseteq 1..Len(f)
    BY <1>1, FS_Interval
  <2> QED BY <1>1, <2>1, FS_Subset
<1>3. Cardinality(K) \in Nat
  BY <1>2, FS_CardinalityType
<1>4. Keeping(f, K) = [n \in 1..Cardinality(K) |-> Keeping(f, K)[n]]
  BY DEF Keeping
<1>5. IsList(Keeping(f, K)) /\ DOMAIN Keeping(f, K) = 1..Cardinality(K)
  BY <1>3, <1>4, ByPlaces
<1>6. \A n \in 1..Cardinality(K) : Keeping(f, K)[n] = f[InOrder(K)[n]]
  BY DEF Keeping
<1> QED BY <1>2, <1>5, <1>6, InOrderEach

-----------------------------------------------------------------------------
(* Sentences and drafts.                                                         *)
Framed(s) ==
    /\ Worded(s) /\ s.kind = "meta" /\ ~Secret(s)
    /\ \A l \in s.labels : l[1] # "removed"
Phrased(s) == Worded(s) /\ \A l \in s.labels : l[1] # "removed"

LEMMA MarksPlain == \A l \in Marks : l[1] # "removed"
BY DEF Marks, Uncertain, SingleSource, Approximate

LEMMA GapPlain == ASSUME NEW q PROVE \A l \in {GapLabel(q)} : l[1] # "removed"
BY DEF GapLabel

LEMMA MetaFramed ==
  ASSUME NEW labels, \A l \in labels : l[1] # "removed" PROVE Framed(Meta(labels))
<1> DEFINE s == Meta(labels)
<1>1. DOMAIN s = SentenceFields /\ s.kind = "meta" /\ s.cites = {} /\ s.labels = labels /\ s.masked = 0
      /\ s.text = Wordless
  BY DEF Meta, SentenceFields
<1>2. Len(Wordless) = 1
  BY DEF Wordless
<1> HIDE DEF s
<1>3. ~Secret(s)
  BY <1>1, <1>2 DEF Secret
<1> QED BY <1>1, <1>3 DEF Framed, Worded, s

LEMMA SentencePhrased ==
  ASSUME NEW item, NEW section, NEW id, item.framing \in BOOLEAN
  PROVE  LET s == Sentence(item, section, id) IN
         /\ Phrased(s) /\ s.id = id /\ s.cites = item.cites /\ s.masked = 0
         /\ s.kind = "fact" <=> section # "recommendations" /\ ~(item.cites = {} /\ item.framing)
<1> DEFINE kind == IF section = "recommendations" THEN "recommendation"
                   ELSE IF item.cites = {} /\ item.framing THEN "meta" ELSE "fact"
           bare == [kind |-> kind, cites |-> item.cites, text |-> item.text, masked |-> 0, labels |-> {}, id |-> id]
           s == Sentence(item, section, id)
<1>1. LedgerLabels(bare, section) \subseteq {Uncertain, SingleSource}
  BY DEF LedgerLabels
<1>2. bare.kind = kind /\ DOMAIN bare = SentenceFields /\ kind \in {"meta", "fact", "recommendation"}
  BY DEF SentenceFields
<1>3. s = [bare EXCEPT !.labels = IF kind = "fact" THEN LedgerLabels(bare, section) ELSE {}]
  BY <1>2 DEF Sentence
<1> DEFINE labels == IF kind = "fact" THEN LedgerLabels(bare, section) ELSE {}
<1>4. /\ DOMAIN s = SentenceFields /\ s.kind = kind /\ s.cites = item.cites /\ s.masked = 0
      /\ s.id = id /\ s.labels = labels
  BY <1>3 DEF SentenceFields
<1>5. labels \subseteq Marks
  BY <1>1 DEF Marks
<1>6. kind = "meta" => item.cites = {}
  OBVIOUS
<1> HIDE DEF labels, s, bare
<1>7. Worded(s)
  BY <1>2, <1>4, <1>5, <1>6 DEF Worded
<1>8. \A l \in s.labels : l[1] # "removed"
  BY <1>4, <1>5, MarksPlain
<1> QED BY <1>4, <1>7, <1>8 DEF s, Phrased

LEMMA GapSectionFramed ==
  IsList(GapSection) /\ \A i \in DOMAIN GapSection : Framed(GapSection[i])
<1> DEFINE K == {q \in Subqs : plan[q] # "sufficient"}
           f == [i \in DOMAIN Gaps |-> Meta({GapLabel(Gaps[i])})]
           g == IF candidates \cap {"held", "rejected"} # {} THEN <<Meta({})>> ELSE <<>>
<1>1. DOMAIN Gaps = 1..Cardinality(K) /\ Cardinality(K) \in Nat
  <2>1. IsFiniteSet(Subqs) /\ K \subseteq Subqs /\ Subqs \subseteq Nat
    BY ReportAssumption, FS_Interval DEF Subqs
  <2> QED BY <2>1, FS_Subset, InOrderEach DEF Gaps
<1>2. IsList(f) /\ DOMAIN f = DOMAIN Gaps
  BY <1>1, ByPlaces
<1>3. \A i \in DOMAIN f : Framed(f[i])
  BY MetaFramed, GapPlain
<1>4. IsList(g) /\ \A i \in DOMAIN g : Framed(g[i])
  <2>1. Framed(Meta({}))
    BY MetaFramed
  <2>2. IsList(<<>>) /\ IsList(<<Meta({})>>)
    BY DEF IsList
  <2>3. DOMAIN <<>> = {} /\ DOMAIN <<Meta({})>> = {1} /\ <<Meta({})>>[1] = Meta({})
    OBVIOUS
  <2> QED BY <2>1, <2>2, <2>3
<1>5. GapSection = f \o g
  BY DEF GapSection
<1> HIDE DEF f, g
<1>6. IsList(GapSection)
  BY <1>2, <1>4, <1>5, Concatenated
<1>7. ASSUME NEW i \in DOMAIN GapSection PROVE Framed(GapSection[i])
  BY <1>2, <1>3, <1>4, <1>5, Concatenated
<1> QED BY <1>6, <1>7

LEMMA Keys ==
  SectionKeys = {"summary", "key_findings", "conflicting", "recommendations", "conclusion", "known_gaps"}
BY DEF SectionKeys, SectionOrder, ToSet

LEMMA WrittenReport ==
  ASSUME NEW answer \in Answers, NEW draft
  PROVE  LET r == Written(answer, draft) IN
         /\ IsReport(r) /\ r.fallback = FALSE /\ "known_gaps" \in DOMAIN r.sections
         /\ \A k \in DOMAIN r.sections : \A i \in DOMAIN r.sections[k] :
               r.sections[k][i].kind # "meta" => r.sections[k][i].id = <<draft, k, i>>
         /\ Masked(r.sections, 0)
<1> DEFINE given == {k \in DOMAIN answer.sections :
                        k = "recommendations" => WantsActions /\ answer.sections[k] # <<>>}
           part(k) == [i \in DOMAIN answer.sections[k] |-> Sentence(answer.sections[k][i], k, <<draft, k, i>>)]
           r == Written(answer, draft)
           S == r.sections
<1>1. /\ r.fallback = FALSE /\ DOMAIN r = ReportFields
      /\ S = [k \in given \cup {"known_gaps"} |-> IF k = "known_gaps" THEN GapSection ELSE part(k)]
  BY DEF Written, ReportFields
<1>2. DOMAIN S = given \cup {"known_gaps"} /\ DOMAIN S \subseteq SectionKeys
  BY <1>1, AnswersAssumption, Keys
<1>3. ASSUME NEW k \in DOMAIN S
      PROVE  /\ IsList(S[k])
             /\ \A i \in DOMAIN S[k] :
                   /\ Phrased(S[k][i]) /\ (S[k][i].kind # "meta" => S[k][i].id = <<draft, k, i>>)
                   /\ Secret(S[k][i]) => S[k][i].masked = 0
  <2>1. CASE k = "known_gaps"
    <3>1. S[k] = GapSection
      BY <1>1, <1>2, <2>1
    <3> QED BY <3>1, GapSectionFramed DEF Framed, Phrased
  <2>2. CASE k # "known_gaps"
    <3>1. S[k] = part(k) /\ k \in DOMAIN answer.sections
      BY <1>1, <1>2, <2>2
    <3> DEFINE items == answer.sections[k]
    <3>2. items \in Seq(ToSet(items)) /\ \A item \in ToSet(items) : item.framing \in BOOLEAN
      BY <3>1, AnswersAssumption
    <3>3. DOMAIN items = 1..Len(items) /\ Len(items) \in Nat
      BY <3>2, LenProperties
    <3>4. \A i \in DOMAIN items : items[i].framing \in BOOLEAN
      BY <3>2 DEF ToSet
    <3> HIDE DEF items
    <3>5. S[k] = [i \in DOMAIN items |-> Sentence(items[i], k, <<draft, k, i>>)]
      BY <3>1 DEF items
    <3> HIDE DEF S, r
    <3>6. IsList(S[k]) /\ DOMAIN S[k] = DOMAIN items
      BY <3>3, <3>5, ByPlaces
    <3>7. ASSUME NEW i \in DOMAIN S[k]
          PROVE  /\ Phrased(S[k][i]) /\ (S[k][i].kind # "meta" => S[k][i].id = <<draft, k, i>>)
                 /\ Secret(S[k][i]) => S[k][i].masked = 0
      <4>1. S[k][i] = Sentence(items[i], k, <<draft, k, i>>) /\ i \in DOMAIN items
        BY <3>5, <3>6
      <4> QED BY <3>4, <4>1, SentencePhrased
    <3> QED BY <3>6, <3>7
  <2> QED BY <2>1, <2>2
<1>4. S = [k \in DOMAIN S |-> S[k]]
  BY <1>1
<1> HIDE DEF r
<1>5. Composed(S) /\ Unannounced(S) /\ Masked(S, 0)
  BY <1>2, <1>3, <1>4 DEF Composed, Unannounced, Phrased, Masked
<1>6. IsReport(r)
  BY <1>1, <1>5 DEF IsReport
<1> QED BY <1>1, <1>2, <1>3, <1>5, <1>6 DEF r

(* The findings a list of the ledger is made from.                               *)
LEMMA ApplyingListed ==
  ASSUME ledger \in Ledgers, NEW contested
  PROVE  /\ IsList(Applying(contested)) /\ \A i \in DOMAIN Applying(contested) : Applying(contested)[i] \in DOMAIN ledger
<1> DEFINE K == {k \in DOMAIN ledger : ~ledger[k].stale /\ (ledger[k].status = "contested") = contested}
<1>1. DOMAIN ledger = 1..Len(ledger) /\ Len(ledger) \in Nat
  BY ReportAssumption, LenProperties
<1>2. IsFiniteSet(K) /\ K \subseteq Nat
  <2>1. IsFiniteSet(1..Len(ledger)) /\ K \subseteq 1..Len(ledger) /\ 1..Len(ledger) \subseteq Nat
    BY <1>1, FS_Interval
  <2> QED BY <2>1, FS_Subset
<1> HIDE DEF K
<1>3. Applying(contested) = InOrder(K)
  BY DEF Applying, K
<1>4. InOrder(K) \in [1..Cardinality(K) -> K] /\ Cardinality(K) \in Nat
  BY <1>2, InOrderEach
<1>5. IsList(InOrder(K))
  BY <1>4, ByPlaces
<1> QED BY <1>3, <1>4, <1>5 DEF K

LEMMA LeadingListed ==
  ASSUME ledger \in Ledgers, NEW n \in Nat
  PROVE  IsList(Leading(n)) /\ \A i \in DOMAIN Leading(n) : Leading(n)[i] \in DOMAIN ledger
<1> DEFINE settled == Applying(FALSE)
           m == Min({n, Len(settled)})
<1>1. IsList(settled) /\ DOMAIN settled = 1..Len(settled) /\ Len(settled) \in Nat
      /\ \A i \in DOMAIN settled : settled[i] \in DOMAIN ledger
  BY ApplyingListed, ListSeq
<1>2. m \in Nat /\ m <= Len(settled)
  <2>1. \E x \in {n, Len(settled)} : \A y \in {n, Len(settled)} : x <= y
    <3>0. Len(settled) \in Nat
      BY <1>1
    <3> HIDE DEF settled
    <3>1. n <= Len(settled) \/ Len(settled) <= n
      BY <3>0
    <3>2. n <= n /\ Len(settled) <= Len(settled)
      BY <3>0
    <3> QED BY <3>1, <3>2
  <2>2. m \in {n, Len(settled)} /\ \A y \in {n, Len(settled)} : m <= y
    BY <2>1 DEF Min
  <2> QED BY <1>1, <2>2
<1>3. Leading(n) = SubSeq(settled, 1, m)
  BY DEF Leading
<1> HIDE DEF settled, m
<1>4. \A i \in 1..m : settled[i] \in DOMAIN ledger
  BY <1>1, <1>2
<1>5. SubSeq(settled, 1, m) \in Seq(DOMAIN ledger)
  BY <1>2, <1>4, SubSeqProperties
<1> QED BY <1>3, <1>5, SeqList, LenProperties

LEMMA ListedPhrased ==
  ASSUME NEW keys, IsList(keys), NEW section \in SectionKeys \ {"recommendations"}, NEW draft
  PROVE  LET list == Listed(keys, section, draft) IN
         /\ IsList(list) /\ DOMAIN list = DOMAIN keys
         /\ \A i \in DOMAIN list : Phrased(list[i]) /\ list[i].masked = 0 /\ list[i].cites = {keys[i]}
<1> DEFINE item(k) == [cites |-> {k}, framing |-> FALSE, text |-> ledger[k].text]
           list == Listed(keys, section, draft)
<1>1. list = [i \in DOMAIN keys |-> Sentence(item(keys[i]), section, <<draft, section, i>>)]
  BY DEF Listed
<1> HIDE DEF list
<1>2. IsList(list) /\ DOMAIN list = DOMAIN keys
  BY <1>1, ListSeq, ByPlaces
<1>3. ASSUME NEW i \in DOMAIN list PROVE Phrased(list[i]) /\ list[i].masked = 0 /\ list[i].cites = {keys[i]}
  <2>1. list[i] = Sentence(item(keys[i]), section, <<draft, section, i>>)
    BY <1>1, <1>2
  <2>2. item(keys[i]).framing \in BOOLEAN /\ item(keys[i]).cites = {keys[i]}
    OBVIOUS
  <2> HIDE DEF item
  <2> QED BY <2>1, <2>2, SentencePhrased
<1> QED BY <1>2, <1>3 DEF list

LEMMA FallbackReport ==
  ASSUME ledger \in Ledgers, NEW draft
  PROVE  LET r == Fallback(draft) IN
         /\ IsReport(r) /\ r.fallback = TRUE /\ Masked(r.sections, 0)
         /\ \A k \in ToSet(Leading(MaxListed) \o Applying(TRUE)) :
               \E s \in SentencesOf([j \in {"key_findings", "conflicting"} |-> r.sections[j]]) : k \in s.cites
<1> DEFINE r == Fallback(draft)
           S == r.sections
           settled == Leading(MaxListed)
           torn == Applying(TRUE)
           Fresh(s) == Secret(s) => s.masked = 0
<1>1. /\ r.fallback = TRUE /\ DOMAIN r = ReportFields
      /\ DOMAIN S = {"summary", "key_findings", "conflicting", "conclusion", "known_gaps"}
      /\ S.summary = (IF Leading(2) = <<>> THEN <<Meta({})>> ELSE Listed(Leading(2), "summary", draft))
      /\ S.key_findings = Listed(settled, "key_findings", draft)
      /\ S.conflicting = Listed(torn, "conflicting", draft)
      /\ S.conclusion = <<Meta({})>> /\ S.known_gaps = GapSection
      /\ S = [k \in DOMAIN S |-> S[k]]
  BY DEF Fallback, ReportFields
<1>2. IsList(settled) /\ IsList(torn) /\ IsList(Leading(2))
  BY ApplyingListed, LeadingListed DEF MaxListed
<1>3. /\ {"summary", "key_findings", "conflicting"} \subseteq SectionKeys \ {"recommendations"}
      /\ DOMAIN S \subseteq SectionKeys
  BY <1>1, Keys
<1> HIDE DEF S, r, settled, torn, Fresh
<1>4. IsList(<<Meta({})>>) /\ \A i \in DOMAIN <<Meta({})>> : Phrased(<<Meta({})>>[i]) /\ Fresh(<<Meta({})>>[i])
  <2>1. IsList(<<Meta({})>>) /\ DOMAIN <<Meta({})>> = {1} /\ <<Meta({})>>[1] = Meta({})
    BY DEF IsList
  <2>2. Phrased(Meta({})) /\ Fresh(Meta({}))
    BY MetaFramed DEF Framed, Phrased, Fresh
  <2> QED BY <2>1, <2>2
<1>5. /\ IsList(S.key_findings) /\ DOMAIN S.key_findings = DOMAIN settled
      /\ \A i \in DOMAIN S.key_findings : Phrased(S.key_findings[i]) /\ Fresh(S.key_findings[i]) /\ S.key_findings[i].cites = {settled[i]}
  BY <1>1, <1>2, <1>3, ListedPhrased DEF Fresh
<1>6. /\ IsList(S.conflicting) /\ DOMAIN S.conflicting = DOMAIN torn
      /\ \A i \in DOMAIN S.conflicting : Phrased(S.conflicting[i]) /\ Fresh(S.conflicting[i]) /\ S.conflicting[i].cites = {torn[i]}
  BY <1>1, <1>2, <1>3, ListedPhrased DEF Fresh
<1>7. IsList(S.summary) /\ \A i \in DOMAIN S.summary : Phrased(S.summary[i]) /\ Fresh(S.summary[i])
  BY <1>1, <1>2, <1>3, <1>4, ListedPhrased DEF Fresh
<1>8. IsList(S.known_gaps) /\ \A i \in DOMAIN S.known_gaps : Phrased(S.known_gaps[i]) /\ Fresh(S.known_gaps[i])
  BY <1>1, GapSectionFramed DEF Framed, Phrased, Fresh
<1>9. \A k \in DOMAIN S : IsList(S[k]) /\ \A i \in DOMAIN S[k] : Phrased(S[k][i]) /\ Fresh(S[k][i])
  BY <1>1, <1>4, <1>5, <1>6, <1>7, <1>8
<1>10. IsReport(r) /\ Masked(S, 0)
  BY <1>1, <1>3, <1>9 DEF IsReport, Composed, Unannounced, Phrased, Masked, Fresh, S
<1>11. ASSUME NEW k \in ToSet(settled \o torn)
       PROVE  \E s \in SentencesOf([j \in {"key_findings", "conflicting"} |-> S[j]]) : k \in s.cites
  <2>1. PICK i \in DOMAIN (settled \o torn) : (settled \o torn)[i] = k
    BY DEF ToSet
  <2>2. k \in {settled[j] : j \in DOMAIN settled} \cup {torn[j] : j \in DOMAIN torn}
    BY <1>2, <2>1, Concatenated
  <2>3. \A s : s \in ToSet(S.key_findings) \cup ToSet(S.conflicting)
               => s \in SentencesOf([j \in {"key_findings", "conflicting"} |-> S[j]])
    BY DEF SentencesOf
  <2>4. CASE k \in {settled[j] : j \in DOMAIN settled}
    <3>1. PICK j \in DOMAIN settled : settled[j] = k
      BY <2>4
    <3>2. S.key_findings[j] \in ToSet(S.key_findings) /\ k \in S.key_findings[j].cites
      BY <1>5, <3>1 DEF ToSet
    <3> QED BY <2>3, <3>2
  <2>5. CASE k \in {torn[j] : j \in DOMAIN torn}
    <3>1. PICK j \in DOMAIN torn : torn[j] = k
      BY <2>5
    <3>2. S.conflicting[j] \in ToSet(S.conflicting) /\ k \in S.conflicting[j].cites
      BY <1>6, <3>1 DEF ToSet
    <3> QED BY <2>3, <3>2
  <2> QED BY <2>2, <2>4, <2>5
<1> QED BY <1>1, <1>10, <1>11 DEF r, S, settled, torn

-----------------------------------------------------------------------------
(* The source list of a report stays right while the ledger and it do not change.*)
LEMMA Resourced ==
  ASSUME NEW r, IsReport(r)
  PROVE  Sourced(WithSources(r)) /\ WithSources(r).sections = r.sections /\ WithSources(r).fallback = r.fallback
<1>1. /\ DOMAIN WithSources(r) = DOMAIN r /\ WithSources(r).sections = r.sections
      /\ WithSources(r).fallback = r.fallback /\ WithSources(r).sources = CitedDocs(r.sections)
  BY DEF WithSources, IsReport, ReportFields
<1> QED BY <1>1 DEF Sourced, IsReport

LEMMA SourcedKept ==
  ASSUME NEW r, Sourced(r), report' = r, ledger' = ledger PROVE Sourced(report)'
BY DEF Sourced, CitedDocs, Cited

-----------------------------------------------------------------------------
(* Verification begins: every cited sentence is in one of the batches.           *)
LEMMA BatchesCover ==
  ASSUME NEW S
  PROVE  /\ \A at \in ToVerify(S) : \E b \in DOMAIN Batches(S) : at \in Batches(S)[b].pending
         /\ \A b \in DOMAIN Batches(S) : DOMAIN Batches(S)[b] = {"tries", "pending"} /\ Batches(S)[b].tries = 0
<1> DEFINE items == ToVerify(S)
           batch(at) == 1 + Cardinality({other \in items : Earlier(other, at)}) \div BatchSize
<1>1. Batches(S) = [b \in {batch(at) : at \in items} |-> [tries |-> 0, pending |-> {at \in items : batch(at) = b}]]
  BY DEF Batches
<1> HIDE DEF batch, items
<1>2. \A at \in items : batch(at) \in DOMAIN Batches(S) /\ at \in Batches(S)[batch(at)].pending
  BY <1>1
<1>3. \A b \in DOMAIN Batches(S) : DOMAIN Batches(S)[b] = {"tries", "pending"} /\ Batches(S)[b].tries = 0
  BY <1>1
<1> QED BY <1>2, <1>3 DEF items

LEMMA VerificationBegins ==
  ASSUME NEW r, IsReport(r), r.fallback = FALSE, "known_gaps" \in DOMAIN r.sections,
         NEW new, IsReport(new), new.sections = r.sections, new.fallback = r.fallback,
         report' = new, verify' = Verifying(r),
         \A k \in DOMAIN r.sections : \A i \in DOMAIN r.sections[k] :
            r.sections[k][i].kind # "meta" => r.sections[k][i].id = <<Draft', k, i>>
  PROVE  BeingVerified'
<1> DEFINE S == r.sections
<1>1. /\ verify'.batches = Batches(S) /\ verify'.unsupported = {}
      /\ DOMAIN verify' = {"batches", "unsupported", "unavailable", "checked"}
  BY DEF Verifying, NoVerdicts
<1>2. report'.sections = S
  OBVIOUS
<1>3. Numbered(report.sections)'
  BY <1>2 DEF Numbered
<1>4. \A b \in DOMAIN verify'.batches : Batch(verify.batches[b])'
  BY <1>1, BatchesCover DEF Batch
<1>5. \A at \in ToVerify(S) : InHand(at)'
  BY <1>1, BatchesCover DEF InHand
<1>6. \A at \in ToVerify(report.sections)' : InHand(at)'
  BY <1>2, <1>5
<1> HIDE DEF S
<1> QED BY <1>1, <1>2, <1>3, <1>4, <1>6 DEF BeingVerified

LEMMA DraftReported ==
  ASSUME ledger \in Ledgers, NEW draft, NEW r \in Drafts(draft)
  PROVE  /\ IsReport(r) /\ r.fallback \in BOOLEAN /\ Masked(r.sections, 0)
         /\ ~r.fallback => /\ "known_gaps" \in DOMAIN r.sections
                           /\ \A k \in DOMAIN r.sections : \A i \in DOMAIN r.sections[k] :
                                 r.sections[k][i].kind # "meta" => r.sections[k][i].id = <<draft, k, i>>
         /\ r.fallback => \A k \in ToSet(Leading(MaxListed) \o Applying(TRUE)) :
               \E s \in SentencesOf([j \in {"key_findings", "conflicting"} |-> r.sections[j]]) : k \in s.cites
<1>1. CASE r = Fallback(draft)
  BY <1>1, FallbackReport
<1>2. CASE \E answer \in Answers : r = Written(answer, draft)
  <2>1. PICK answer \in Answers : r = Written(answer, draft)
    BY <1>2
  <2>2. /\ IsReport(r) /\ r.fallback = FALSE /\ "known_gaps" \in DOMAIN r.sections
        /\ \A k \in DOMAIN r.sections : \A i \in DOMAIN r.sections[k] :
              r.sections[k][i].kind # "meta" => r.sections[k][i].id = <<draft, k, i>>
        /\ Masked(r.sections, 0)
    BY <2>1, WrittenReport
  <2> QED BY <2>2
<1> QED BY <1>1, <1>2 DEF Drafts

(* A list of the ledger is what review finds: every finding that applies is in it.*)
LEMMA ListReviewed ==
  ASSUME ledger' = ledger, NEW r, report' = r, r.fallback = TRUE,
         \A k \in ToSet(Leading(MaxListed) \o Applying(TRUE)) :
            \E s \in SentencesOf([j \in {"key_findings", "conflicting"} |-> r.sections[j]]) : k \in s.cites
  PROVE  OnlyVerifiedIsKept'
<1>1. (ToSet(Leading(MaxListed) \o Applying(TRUE)))' = ToSet(Leading(MaxListed) \o Applying(TRUE))
  BY DEF Leading, Applying
<1> QED BY <1>1 DEF OnlyVerifiedIsKept

LEMMA SynthesizeStep == ASSUME ReportInv, Synthesize PROVE ReportInv'
<1>1. /\ phase = "synthesize" /\ ledger' = ledger /\ limit' = limit /\ rewritten = FALSE /\ rewritten' = FALSE
      /\ ledger \in Ledgers /\ limit \in Limits
  BY DEF ReportInv, Synthesize, Enter
<1>2. PICK r \in Drafts(1) :
         /\ report' = WithSources(r)
         /\ IF r.fallback THEN phase' = "review" /\ UNCHANGED verify
            ELSE phase' = "verify" /\ verify' = Verifying(r)
  BY DEF Synthesize
<1>3. IsReport(r) /\ r.fallback \in BOOLEAN /\ Masked(r.sections, 0)
  BY <1>1, DraftReported
<1> DEFINE new == WithSources(r)
<1>4. Sourced(new) /\ new.sections = r.sections /\ new.fallback = r.fallback
  BY <1>3, Resourced
<1>5. Sourced(report)' /\ Masked(report.sections, 0)'
  BY <1>1, <1>2, <1>3, <1>4, SourcedKept DEF Masked, Secret
<1>6. CASE r.fallback
  <2>1. phase' = "review"
    BY <1>2, <1>6
  <2>2. \A k \in ToSet(Leading(MaxListed) \o Applying(TRUE)) :
           \E s \in SentencesOf([j \in {"key_findings", "conflicting"} |-> new.sections[j]]) : k \in s.cites
    BY <1>1, <1>4, <1>6, DraftReported
  <2>3. OnlyVerifiedIsKept'
    BY <1>1, <1>2, <1>3, <1>4, <1>6, <2>2, ListReviewed
  <2> QED BY <1>1, <1>5, <2>1, <2>3 DEF ReportInv, FailsOnlyWithoutFindings, RemovalsAnnounced
<1>7. CASE ~r.fallback
  <2>1. phase' = "verify" /\ verify' = Verifying(r)
    BY <1>2, <1>7
  <2>2. Draft' = 1
    BY <1>1 DEF Draft
  <2>3. IsReport(new)
    BY <1>4 DEF Sourced
  <2>4. /\ "known_gaps" \in DOMAIN r.sections
        /\ \A k \in DOMAIN r.sections : \A i \in DOMAIN r.sections[k] :
              r.sections[k][i].kind # "meta" => r.sections[k][i].id = <<Draft', k, i>>
    BY <1>1, <1>7, <2>2, DraftReported
  <2>5. BeingVerified'
    BY <1>2, <1>3, <1>4, <1>7, <2>1, <2>3, <2>4, VerificationBegins
  <2> QED BY <1>1, <1>5, <2>1, <2>5 DEF ReportInv, OnlyVerifiedIsKept, FailsOnlyWithoutFindings, RemovalsAnnounced
<1> QED BY <1>6, <1>7

LEMMA AskStep ==
  ASSUME ReportInv, NEW b \in DOMAIN verify.batches, AskVerifier(b) PROVE ReportInv'
<1>1. /\ phase = "verify" /\ phase' = "verify" /\ ledger' = ledger /\ limit' = limit /\ report' = report
      /\ rewritten' = rewritten /\ BeingVerified /\ ledger \in Ledgers /\ limit \in Limits /\ rewritten \in BOOLEAN
      /\ Masked(report.sections, 0)
  BY DEF ReportInv, AskVerifier, Enter
<1> DEFINE waiting == verify.batches[b].pending
<1>2. PICK verdict \in [waiting -> {"supported", "unsupported", "none"}] :
         LET said(v) == {at \in DOMAIN verdict : verdict[at] = v}
             lost == IF verify.batches[b].tries = 1 THEN said("none") ELSE {}
         IN verify' = [verify EXCEPT
               !.batches[b] = [tries |-> @.tries + 1, pending |-> said("none")],
               !.checked = @ \cup said("supported") \cup said("unsupported"),
               !.unavailable = @ \cup lost, !.unsupported = @ \cup said("unsupported") \cup lost]
  BY DEF AskVerifier
<1> DEFINE said(v) == {at \in waiting : verdict[at] = v}
           lost == IF verify.batches[b].tries = 1 THEN said("none") ELSE {}
<1>3. /\ DOMAIN verify = {"batches", "unsupported", "unavailable", "checked"}
      /\ verify.batches[b].tries \in 0..2 /\ verify.batches[b].tries < 2
      /\ \A c \in DOMAIN verify.batches : Batch(verify.batches[c])
      /\ \A at \in ToVerify(report.sections) : InHand(at)
  BY <1>1 DEF BeingVerified, Batch, AskVerifier, Waiting
<1>4. /\ DOMAIN verify' = DOMAIN verify /\ DOMAIN verify'.batches = DOMAIN verify.batches
      /\ verify'.batches[b] = [tries |-> verify.batches[b].tries + 1, pending |-> said("none")]
      /\ \A c \in DOMAIN verify.batches \ {b} : verify'.batches[c] = verify.batches[c]
      /\ verify'.checked = verify.checked \cup said("supported") \cup said("unsupported")
      /\ verify'.unsupported = verify.unsupported \cup said("unsupported") \cup lost
  BY <1>2, <1>3
<1>5. waiting = said("supported") \cup said("unsupported") \cup said("none")
  OBVIOUS
<1> HIDE DEF waiting, said
<1>6. Batch(verify.batches[b])'
  <2>1. verify'.batches[b].tries = 2 => verify'.batches[b].pending \subseteq verify'.unsupported
    BY <1>3, <1>4
  <2> QED BY <1>3, <1>4, <2>1 DEF Batch
<1>7. \A c \in DOMAIN verify.batches \ {b} : Batch(verify.batches[c])'
  BY <1>3, <1>4 DEF Batch
<1>8. ASSUME NEW at \in ToVerify(report.sections) PROVE InHand(at)'
  <2>1. CASE at \in verify.checked \cup verify.unsupported
    BY <1>4, <2>1 DEF InHand
  <2>2. CASE \E c \in DOMAIN verify.batches : at \in verify.batches[c].pending
    <3>1. PICK c \in DOMAIN verify.batches : at \in verify.batches[c].pending
      BY <2>2
    <3>2. CASE c # b
      BY <1>4, <3>1, <3>2 DEF InHand
    <3>3. CASE c = b
      BY <1>4, <1>5, <3>1, <3>3 DEF InHand, waiting
    <3> QED BY <3>2, <3>3
  <2> QED BY <1>3, <2>1, <2>2 DEF InHand
<1>9. BeingVerified'
  <2>1. \A c \in DOMAIN verify'.batches : Batch(verify.batches[c])'
    BY <1>4, <1>6, <1>7
  <2>2. \A at \in ToVerify(report.sections)' : InHand(at)'
    BY <1>1, <1>8
  <2>3. Numbered(report.sections)'
    BY <1>1 DEF BeingVerified, Numbered, Draft
  <2> QED BY <1>1, <1>3, <1>4, <2>1, <2>2, <2>3 DEF BeingVerified
<1>10. Masked(report.sections, 0)'
  BY <1>1 DEF Masked, Secret
<1> QED BY <1>1, <1>9, <1>10 DEF ReportInv, OnlyVerifiedIsKept, FailsOnlyWithoutFindings, RemovalsAnnounced

LEMMA RewriteStep == ASSUME ReportInv, Rewrite PROVE ReportInv'
<1>1. /\ phase = "verify" /\ ledger' = ledger /\ limit' = limit /\ rewritten' = TRUE
      /\ ledger \in Ledgers /\ limit \in Limits
  BY DEF ReportInv, Rewrite, Enter
<1>2. PICK r \in Drafts(2) :
         IF r.fallback
         THEN /\ report' = WithSources(r) /\ phase' = "review" /\ UNCHANGED verify
         ELSE report' = r /\ verify' = Verifying(r) /\ UNCHANGED phase
  BY DEF Rewrite
<1>3. IsReport(r) /\ r.fallback \in BOOLEAN /\ Masked(r.sections, 0)
  BY <1>1, DraftReported
<1>4. CASE r.fallback
  <2> DEFINE new == WithSources(r)
  <2>1. phase' = "review" /\ report' = new
    BY <1>2, <1>4
  <2>2. Sourced(new) /\ new.sections = r.sections /\ new.fallback = r.fallback
    BY <1>3, Resourced
  <2> HIDE DEF new
  <2>3. Sourced(report)' /\ Masked(report.sections, 0)'
    BY <1>1, <1>3, <2>1, <2>2, SourcedKept DEF Masked, Secret
  <2>4. \A k \in ToSet(Leading(MaxListed) \o Applying(TRUE)) :
           \E s \in SentencesOf([j \in {"key_findings", "conflicting"} |-> new.sections[j]]) : k \in s.cites
    BY <1>1, <1>4, <2>2, DraftReported
  <2>5. OnlyVerifiedIsKept'
    BY <1>1, <1>3, <1>4, <2>1, <2>2, <2>4, ListReviewed
  <2> QED BY <1>1, <2>1, <2>3, <2>5 DEF ReportInv, FailsOnlyWithoutFindings, RemovalsAnnounced
<1>5. CASE ~r.fallback
  <2>1. phase' = "verify" /\ verify' = Verifying(r) /\ report' = r
    BY <1>1, <1>2, <1>5
  <2>2. Draft' = 2
    BY <1>1 DEF Draft
  <2>3. /\ "known_gaps" \in DOMAIN r.sections
        /\ \A k \in DOMAIN r.sections : \A i \in DOMAIN r.sections[k] :
              r.sections[k][i].kind # "meta" => r.sections[k][i].id = <<Draft', k, i>>
    BY <1>1, <1>5, <2>2, DraftReported
  <2>4. BeingVerified'
    BY <1>3, <1>5, <2>1, <2>3, VerificationBegins
  <2>5. Masked(report.sections, 0)'
    BY <1>3, <2>1 DEF Masked, Secret
  <2> QED BY <1>1, <2>1, <2>4, <2>5 DEF ReportInv, OnlyVerifiedIsKept, FailsOnlyWithoutFindings, RemovalsAnnounced
<1> QED BY <1>3, <1>4, <1>5

(* Leaving out sentences leaves a report, each sentence as it stood.             *)
LEMMA WithoutEach ==
  ASSUME NEW r, IsReport(r), NEW unsupported
  PROVE  LET S == r.sections
             T == Without(r, unsupported).sections
         IN /\ IsReport(Without(r, unsupported)) /\ DOMAIN T = DOMAIN S
            /\ Without(r, unsupported).fallback = r.fallback
            /\ \A k \in DOMAIN T : \A n \in DOMAIN T[k] :
                  \E i \in DOMAIN S[k] : <<k, i>> \notin unsupported /\ T[k][n] = S[k][i]
<1> DEFINE S == r.sections
           w == Without(r, unsupported)
           T == w.sections
           places(k) == {i \in DOMAIN S[k] : <<k, i>> \notin unsupported}
<1>1. /\ T = [k \in DOMAIN S |-> Keeping(S[k], places(k))] /\ DOMAIN w = ReportFields
      /\ w.fallback = r.fallback /\ w.foreign = r.foreign
  BY DEF Without, IsReport, ReportFields
<1>2. /\ DOMAIN S \subseteq SectionKeys /\ \A k \in DOMAIN S : IsList(S[k]) /\ \A i \in DOMAIN S[k] : Phrased(S[k][i])
      /\ r.fallback \in BOOLEAN
  BY DEF IsReport, Composed, Unannounced, Phrased
<1>3. \A k \in DOMAIN S : places(k) \subseteq DOMAIN S[k] /\ \A i \in places(k) : <<k, i>> \notin unsupported
  OBVIOUS
<1> HIDE DEF S, T, w, places
<1>4. ASSUME NEW k \in DOMAIN T
      PROVE  /\ IsList(T[k])
             /\ \A n \in DOMAIN T[k] : \E i \in DOMAIN S[k] : <<k, i>> \notin unsupported /\ T[k][n] = S[k][i]
  <2>1. T[k] = Keeping(S[k], places(k)) /\ k \in DOMAIN S
    BY <1>1
  <2>2. IsList(S[k]) /\ places(k) \in SUBSET DOMAIN S[k]
    BY <1>2, <1>3, <2>1
  <2>3. /\ IsList(T[k]) /\ DOMAIN T[k] = 1..Cardinality(places(k))
        /\ InOrder(places(k)) \in [1..Cardinality(places(k)) -> places(k)]
        /\ \A n \in DOMAIN T[k] : T[k][n] = S[k][InOrder(places(k))[n]]
    BY <2>1, <2>2, KeepingEach
  <2> QED BY <1>3, <2>1, <2>3
<1>5. DOMAIN T = DOMAIN S /\ T = [k \in DOMAIN T |-> T[k]]
  BY <1>1
<1>6. ASSUME NEW k \in DOMAIN T, NEW n \in DOMAIN T[k] PROVE Phrased(T[k][n])
  <2>1. PICK i \in DOMAIN S[k] : T[k][n] = S[k][i]
    BY <1>4
  <2> QED BY <1>2, <1>5, <2>1
<1>7. IsReport(w)
  BY <1>1, <1>2, <1>4, <1>5, <1>6 DEF IsReport, Composed, Unannounced, Phrased, T
<1> QED BY <1>1, <1>4, <1>5, <1>7 DEF S, T, w

LEMMA NotedEach ==
  ASSUME NEW r, IsReport(r), "known_gaps" \in DOMAIN r.sections
  PROVE  LET S == r.sections
             T == Noted(r).sections
         IN /\ IsReport(Noted(r)) /\ Noted(r).fallback = r.fallback /\ DOMAIN T = DOMAIN S
            /\ \A k \in DOMAIN T : \A n \in DOMAIN T[k] :
                  Framed(T[k][n]) \/ (n \in DOMAIN S[k] /\ T[k][n] = S[k][n])
<1> DEFINE S == r.sections
           w == Noted(r)
           T == w.sections
           last == Append(S["known_gaps"], Meta({}))
<1>1. CASE verify.unavailable = {}
  BY <1>1 DEF Noted
<1>2. CASE verify.unavailable # {}
  <2>1. /\ DOMAIN w = ReportFields /\ w.fallback = r.fallback
        /\ T = [S EXCEPT !["known_gaps"] = last]
    BY <1>2 DEF Noted, IsReport, ReportFields
  <2>2. /\ DOMAIN S \subseteq SectionKeys /\ S = [k \in DOMAIN S |-> S[k]] /\ r.fallback \in BOOLEAN
        /\ \A k \in DOMAIN S : IsList(S[k]) /\ \A i \in DOMAIN S[k] : Phrased(S[k][i])
    BY DEF IsReport, Composed, Unannounced, Phrased
  <2>3. Phrased(Meta({})) /\ Framed(Meta({}))
    BY MetaFramed DEF Framed, Phrased
  <2> HIDE DEF S, T, w
  <2>4. DOMAIN T = DOMAIN S /\ T["known_gaps"] = last /\ \A k \in DOMAIN S \ {"known_gaps"} : T[k] = S[k]
    BY <2>1 DEF S
  <2>5. T = [k \in DOMAIN T |-> T[k]]
    BY <2>1, <2>2, <2>4
  <2>6. /\ IsList(last) /\ DOMAIN last = 1..(Len(S["known_gaps"]) + 1)
        /\ \A i \in DOMAIN S["known_gaps"] : last[i] = S["known_gaps"][i]
        /\ last[Len(S["known_gaps"]) + 1] = Meta({})
        /\ DOMAIN S["known_gaps"] = 1..Len(S["known_gaps"]) /\ Len(S["known_gaps"]) \in Nat
    BY <2>2, Appended DEF S
  <2>7. \A n \in DOMAIN last : last[n] = Meta({}) \/ (n \in DOMAIN S["known_gaps"] /\ last[n] = S["known_gaps"][n])
    BY <2>6
  <2> HIDE DEF last
  <2>8. ASSUME NEW k \in DOMAIN T
        PROVE  /\ IsList(T[k])
               /\ \A n \in DOMAIN T[k] : T[k][n] = Meta({}) \/ (n \in DOMAIN S[k] /\ T[k][n] = S[k][n])
    BY <2>2, <2>4, <2>6, <2>7
  <2>9. \A k \in DOMAIN T : \A n \in DOMAIN T[k] : Phrased(T[k][n])
    BY <2>2, <2>3, <2>4, <2>8
  <2>10. IsReport(w)
    BY <2>1, <2>2, <2>4, <2>5, <2>8, <2>9 DEF IsReport, Composed, Unannounced, Phrased, T
  <2> QED BY <2>1, <2>3, <2>4, <2>8, <2>10 DEF S, T, w
<1> QED BY <1>1, <1>2

LEMMA WithholdStep == ASSUME ReportInv, Withhold PROVE ReportInv'
<1> DEFINE S == report.sections
           kept == Without(report, verify.unsupported)
           noted == Noted(kept)
           new == WithSources(noted)
<1>1. /\ phase = "verify" /\ phase' = "review" /\ ledger' = ledger /\ limit' = limit /\ rewritten' = rewritten
      /\ verify' = verify /\ report' = new /\ ledger \in Ledgers /\ limit \in Limits /\ BeingVerified
      /\ Masked(S, 0)
      /\ \A b \in DOMAIN verify.batches : ~Waiting(b)
  BY DEF ReportInv, Withhold, Enter, Verified
<1>2. /\ IsReport(report) /\ report.fallback = FALSE /\ "known_gaps" \in DOMAIN S /\ Numbered(S)
      /\ \A b \in DOMAIN verify.batches : Batch(verify.batches[b])
      /\ \A at \in ToVerify(S) : InHand(at)
  BY <1>1 DEF BeingVerified, IsReport
<1>3. ASSUME NEW at \in ToVerify(S), at \notin verify.unsupported PROVE at \in verify.checked
  <2>1. ASSUME NEW b \in DOMAIN verify.batches PROVE at \notin verify.batches[b].pending
    BY <1>1, <1>2, <1>3 DEF Waiting, Batch
  <2> QED BY <1>2, <1>3, <2>1 DEF InHand
<1>4. /\ IsReport(kept) /\ DOMAIN kept.sections = DOMAIN S /\ kept.fallback = FALSE
      /\ \A k \in DOMAIN S : \A n \in DOMAIN kept.sections[k] :
            \E i \in DOMAIN S[k] : <<k, i>> \notin verify.unsupported /\ kept.sections[k][n] = S[k][i]
  BY <1>2, WithoutEach
<1>5. /\ IsReport(noted) /\ DOMAIN noted.sections = DOMAIN S /\ noted.fallback = FALSE
      /\ \A k \in DOMAIN S : \A n \in DOMAIN noted.sections[k] :
            \/ Framed(noted.sections[k][n])
            \/ n \in DOMAIN kept.sections[k] /\ noted.sections[k][n] = kept.sections[k][n]
  BY <1>2, <1>4, NotedEach
<1>6. Sourced(new) /\ new.sections = noted.sections /\ new.fallback = FALSE
  BY <1>5, Resourced
<1> HIDE DEF kept, noted, new, S
<1>7. ASSUME NEW s \in SentencesOf(new.sections), s.kind # "meta", s.cites # {}
      PROVE  s.id[1] = Draft /\ <<s.id[2], s.id[3]>> \in verify.checked \ verify.unsupported
  <2>0. PICK k \in DOMAIN S : \E n \in DOMAIN noted.sections[k] : s = noted.sections[k][n]
    BY <1>5, <1>6, <1>7 DEF SentencesOf, ToSet
  <2>1. PICK n \in DOMAIN noted.sections[k] : s = noted.sections[k][n]
    BY <2>0
  <2>2. n \in DOMAIN kept.sections[k] /\ s = kept.sections[k][n]
    BY <1>5, <1>7, <2>1 DEF Framed
  <2>3. PICK i \in DOMAIN S[k] : <<k, i>> \notin verify.unsupported /\ s = S[k][i]
    BY <1>4, <2>1, <2>2
  <2>4. <<k, i>> \in ToVerify(S)
    BY <1>7, <2>1, <2>3 DEF ToVerify, Addresses, At
  <2>5. s.id = <<Draft, k, i>>
    BY <1>2, <1>7, <2>1, <2>3 DEF Numbered
  <2> QED BY <1>3, <2>3, <2>4, <2>5
<1>8. OnlyVerifiedIsKept'
  BY <1>1, <1>6, <1>7 DEF OnlyVerifiedIsKept, Draft
<1>9. Sourced(report)'
  BY <1>1, <1>6, SourcedKept
<1>10. ASSUME NEW k \in DOMAIN new.sections, NEW n \in DOMAIN new.sections[k], Secret(new.sections[k][n])
       PROVE  new.sections[k][n].masked = 0
  <2>1. k \in DOMAIN S /\ n \in DOMAIN noted.sections[k] /\ new.sections[k][n] = noted.sections[k][n]
    BY <1>5, <1>6
  <2>2. n \in DOMAIN kept.sections[k] /\ new.sections[k][n] = kept.sections[k][n]
    BY <1>5, <1>10, <2>1 DEF Framed
  <2>3. PICK i \in DOMAIN S[k] : new.sections[k][n] = S[k][i]
    BY <1>4, <2>1, <2>2
  <2> QED BY <1>1, <1>10, <2>1, <2>3 DEF Masked
<1>11. Masked(report.sections, 0)'
  BY <1>1, <1>10 DEF Masked, Secret
<1> QED BY <1>1, <1>8, <1>9, <1>11 DEF ReportInv, FailsOnlyWithoutFindings, RemovalsAnnounced

LEMMA ReviewStep == ASSUME ReportInv, Review PROVE ReportInv'
<1>1. /\ phase = "review" /\ phase' \in {"gate", "raised"} /\ ledger' = ledger /\ limit' = limit /\ report' = report
      /\ ledger \in Ledgers /\ limit \in Limits /\ Sourced(report) /\ Masked(report.sections, 0)
  BY DEF ReportInv, Review, Enter
<1>2. Sourced(report)' /\ Masked(report.sections, 0)'
  BY <1>1, SourcedKept DEF Masked, Secret
<1> QED BY <1>1, <1>2 DEF ReportInv, OnlyVerifiedIsKept, FailsOnlyWithoutFindings, RemovalsAnnounced

-----------------------------------------------------------------------------
(* The gate.  A report has finitely many places.                                 *)
LEMMA AddressesFinite ==
  ASSUME NEW S, Composed(S) PROVE IsFiniteSet(Addresses(S)) /\ IsFiniteSet(Facts(S)) /\ Cardinality(Facts(S)) \in Nat
<1> DEFINE length(k) == IF k \in DOMAIN S THEN Len(S[k]) ELSE 0
           M == length("summary") + length("key_findings") + length("conflicting")
                + length("recommendations") + length("conclusion") + length("known_gaps")
<1>1. \A k \in DOMAIN S : k \in SectionKeys /\ Len(S[k]) \in Nat /\ DOMAIN S[k] = 1..Len(S[k])
  BY ListSeq DEF Composed
<1>2. \A k \in SectionKeys : length(k) \in Nat
  BY <1>1
<1> HIDE DEF length
<1>3. M \in Nat /\ \A k \in SectionKeys : length(k) <= M
  <2>1. /\ length("summary") \in Nat /\ length("key_findings") \in Nat /\ length("conflicting") \in Nat
        /\ length("recommendations") \in Nat /\ length("conclusion") \in Nat /\ length("known_gaps") \in Nat
    BY <1>2, Keys
  <2> QED BY <2>1, Keys
<1> HIDE DEF M
<1>4. Addresses(S) \subseteq SectionKeys \X (1..M)
  <2>1. ASSUME NEW k \in DOMAIN S, NEW i \in DOMAIN S[k] PROVE k \in SectionKeys /\ i \in 1..M
    <3>1. Len(S[k]) = length(k) /\ length(k) \in Nat /\ length(k) <= M /\ i \in 1..Len(S[k]) /\ k \in SectionKeys
      BY <1>1, <1>2, <1>3, <2>1 DEF length
    <3> QED BY <1>3, <3>1
  <2> QED BY <2>1 DEF Addresses
<1>5. IsFiniteSet(SectionKeys)
  <2> DEFINE A0 == {}
             A1 == A0 \cup {"summary"}
             A2 == A1 \cup {"key_findings"}
             A3 == A2 \cup {"conflicting"}
             A4 == A3 \cup {"recommendations"}
             A5 == A4 \cup {"conclusion"}
             A6 == A5 \cup {"known_gaps"}
  <2>1. SectionKeys = A6
    BY Keys
  <2>2. IsFiniteSet(A0)
    BY FS_EmptySet
  <2> HIDE DEF A0
  <2>3. IsFiniteSet(A1)
    BY <2>2, FS_AddElement
  <2> HIDE DEF A1
  <2>4. IsFiniteSet(A2)
    BY <2>3, FS_AddElement
  <2> HIDE DEF A2
  <2>5. IsFiniteSet(A3)
    BY <2>4, FS_AddElement
  <2> HIDE DEF A3
  <2>6. IsFiniteSet(A4)
    BY <2>5, FS_AddElement
  <2> HIDE DEF A4
  <2>7. IsFiniteSet(A5)
    BY <2>6, FS_AddElement
  <2> HIDE DEF A5
  <2> QED BY <2>1, <2>7, FS_AddElement
<1>6. IsFiniteSet(SectionKeys \X (1..M))
  <2>1. IsFiniteSet(1..M)
    BY <1>3, FS_Interval
  <2> QED BY <1>5, <2>1, FS_Product, Zenon
<1>7. IsFiniteSet(Addresses(S)) /\ Facts(S) \subseteq Addresses(S)
  BY <1>4, <1>6, FS_Subset DEF Facts
<1> QED BY <1>7, FS_Subset, FS_CardinalityType

(* The rules read the ledger, the plan and the report, which a step of the gate  *)
(* does not change.                                                              *)
LEMMA MisstatesKept ==
  ASSUME NEW r, NEW s, ledger' = ledger PROVE Misstates(r, s)' = Misstates(r, s)
<1>1. Cited(s)' = Cited(s)
  BY DEF Cited
<1>2. Support(s)' = Support(s)
  BY <1>1 DEF Support
<1>3. Checked(s)' = Checked(s)
  BY <1>2 DEF Checked, States
<1>4. \A noun : LedgerExpected(r, s, noun)' = LedgerExpected(r, s, noun)
  BY <1>1 DEF LedgerExpected
<1>5. Miscounts(r, s)' = Miscounts(r, s)
  BY <1>4 DEF Miscounts, States
<1> QED BY <1>2, <1>3, <1>5 DEF Misstates

LEMMA EvaluatedKept ==
  ASSUME NEW r, ledger' = ledger, plan' = plan PROVE Evaluate(r)' = Evaluate(r)
<1>1. G1(r)' = G1(r)
  BY DEF G1, Exhausted
<1>2. G2(r)' = G2(r)
  BY DEF G2
<1>3. G3(r)' = G3(r)
  BY DEF G3, CitedDocs, Cited
<1>4. G4(r)' = G4(r)
  BY DEF G4, Misstates, Checked, Miscounts, LedgerExpected, Support, Cited, States
<1>5. G5(r)' = G5(r)
  BY DEF G5, Cited
<1>6. G6(r)' = G6(r)
  BY DEF G6, Cited
<1>7. G7(r)' = G7(r)
  BY DEF G7, Exhausted
<1>8. G9(r)' = G9(r) /\ G10(r)' = G10(r)
  BY DEF G9, G10, Secret
<1>9. G11(r)' = G11(r)
  BY DEF G11, Cited
<1>10. G12(r)' = G12(r)
  BY DEF G12, Cited
<1> QED BY <1>1, <1>2, <1>3, <1>4, <1>5, <1>6, <1>7, <1>8, <1>9, <1>10 DEF Evaluate

LEMMA SpoiledKept ==
  ASSUME NEW r, NEW n, ledger' = ledger, plan' = plan
  PROVE  (OnlySpoiled(r, n)' <=> OnlySpoiled(r, n)) /\ (Masked(r.sections, n)' <=> Masked(r.sections, n))
<1>1. Spoiled(r, n)' <=> Spoiled(r, n)
  <2>1. \A s : Misstates(r, s)' = Misstates(r, s)
    BY MisstatesKept
  <2> QED BY <2>1 DEF Spoiled, Secret
<1>2. Evaluate(r)' = Evaluate(r)
  BY EvaluatedKept
<1>3. OnlySpoiled(r, n)' <=> OnlySpoiled(r, n)
  BY <1>1, <1>2 DEF OnlySpoiled
<1> QED BY <1>3 DEF Masked, Secret

(* The copy of the gate may have an empty section more.                          *)
LEMMA CopyKept ==
  ASSUME NEW r, Sourced(r), NEW more \in SUBSET {"known_gaps"}, NEW copy,
         DOMAIN copy = ReportFields, copy.fallback = r.fallback, copy.sources = r.sources,
         copy.sections = [k \in DOMAIN copy.sections |-> copy.sections[k]],
         DOMAIN copy.sections = DOMAIN r.sections \cup more,
         \A k \in DOMAIN r.sections : copy.sections[k] = r.sections[k],
         \A k \in DOMAIN copy.sections \ DOMAIN r.sections : copy.sections[k] = <<>>,
         NEW n, Masked(r.sections, n)
  PROVE  Sourced(copy) /\ Facts(copy.sections) = Facts(r.sections) /\ Masked(copy.sections, n)
<1> DEFINE S == r.sections
           T == copy.sections
<1>1. /\ DOMAIN r = ReportFields /\ r.fallback \in BOOLEAN /\ r.sources = CitedDocs(S)
      /\ Composed(S) /\ Unannounced(S)
  BY DEF Sourced, IsReport
<1>2. DOMAIN copy = ReportFields /\ copy.fallback = r.fallback /\ copy.sources = r.sources /\ copy.sections = T
  OBVIOUS
<1>3. /\ DOMAIN T = DOMAIN S \cup more
      /\ \A k \in DOMAIN S : T[k] = S[k]
      /\ \A k \in DOMAIN T \ DOMAIN S : T[k] = <<>>
      /\ T = [k \in DOMAIN T |-> T[k]]
  OBVIOUS
<1> HIDE DEF S, T
<1>4. IsList(<<>>) /\ DOMAIN <<>> = {}
  BY DEF IsList
<1>5. Composed(T) /\ Unannounced(T)
  BY <1>1, <1>3, <1>4, Keys DEF Composed, Unannounced
<1>6. SentencesOf(T) = SentencesOf(S)
  <2>1. ASSUME NEW s \in SentencesOf(T) PROVE s \in SentencesOf(S)
    BY <1>3, <1>4 DEF SentencesOf, ToSet
  <2>2. ASSUME NEW s \in SentencesOf(S) PROVE s \in SentencesOf(T)
    BY <1>3 DEF SentencesOf
  <2> QED BY <2>1, <2>2
<1>7. CitedDocs(T) = CitedDocs(S)
  BY <1>6 DEF CitedDocs
<1>8. Addresses(T) = Addresses(S)
  <2>1. ASSUME NEW at \in Addresses(T) PROVE at \in Addresses(S)
    BY <1>3, <1>4 DEF Addresses
  <2>2. ASSUME NEW at \in Addresses(S) PROVE at \in Addresses(T)
    BY <1>3 DEF Addresses
  <2> QED BY <2>1, <2>2
<1>9. \A at \in Addresses(S) : At(T, at) = At(S, at)
  BY <1>3 DEF Addresses, At
<1>10. Facts(T) = Facts(S)
  BY <1>8, <1>9 DEF Facts
<1>11. Masked(T, n)
  BY <1>3, <1>4 DEF Masked, S
<1> QED BY <1>1, <1>2, <1>5, <1>7, <1>10, <1>11 DEF Sourced, IsReport, S

LEMMA OpenGateStep == ASSUME ReportInv, OpenGate PROVE ReportInv'
<1> DEFINE bare == limit > 0 /\ Exhausted # {} /\ "known_gaps" \notin DOMAIN report.sections
           copy == [report EXCEPT !.sections =
                       [k \in IF bare THEN DOMAIN @ \cup {"known_gaps"} ELSE DOMAIN @ |->
                           IF k \in DOMAIN @ THEN @[k] ELSE <<>>]]
<1>1. /\ phase = "gate" /\ phase' = "remediate" /\ ledger' = ledger /\ plan' = plan /\ limit' = limit
      /\ report' = report /\ ledger \in Ledgers /\ limit \in Limits /\ Sourced(report)
      /\ Masked(report.sections, 0)
      /\ gate' = [NoGate EXCEPT !.working = copy, !.initial = Evaluate(copy), !.left = Evaluate(copy)]
  BY DEF ReportInv, OpenGate, Enter
<1> DEFINE more == IF bare THEN {"known_gaps"} ELSE {}
<1>2. copy = [report EXCEPT !.sections = [k \in DOMAIN @ \cup more |-> IF k \in DOMAIN @ THEN @[k] ELSE <<>>]]
  OBVIOUS
<1>3. more \in SUBSET {"known_gaps"}
  OBVIOUS
<1>4. PICK new : new = copy
  OBVIOUS
<1> HIDE DEF copy, more
<1>5. Sourced(new) /\ Facts(new.sections) = Facts(report.sections) /\ Masked(new.sections, 0)
  <2> DEFINE T == [k \in DOMAIN report.sections \cup more |->
                      IF k \in DOMAIN report.sections THEN report.sections[k] ELSE <<>>]
  <2>1. DOMAIN report = ReportFields /\ new = [report EXCEPT !.sections = T]
    BY <1>1, <1>2, <1>4 DEF Sourced, IsReport
  <2>2. DOMAIN new = ReportFields /\ new.fallback = report.fallback /\ new.sources = report.sources /\ new.sections = T
    BY <2>1 DEF ReportFields
  <2>3. /\ DOMAIN T = DOMAIN report.sections \cup more /\ T = [k \in DOMAIN T |-> T[k]]
        /\ \A k \in DOMAIN report.sections : T[k] = report.sections[k]
        /\ \A k \in DOMAIN T \ DOMAIN report.sections : T[k] = <<>>
    OBVIOUS
  <2> HIDE DEF T
  <2>4. /\ new.sections = [k \in DOMAIN new.sections |-> new.sections[k]]
        /\ DOMAIN new.sections = DOMAIN report.sections \cup more
        /\ \A k \in DOMAIN report.sections : new.sections[k] = report.sections[k]
        /\ \A k \in DOMAIN new.sections \ DOMAIN report.sections : new.sections[k] = <<>>
    BY <2>2, <2>3
  <2>5. Sourced(report) /\ Masked(report.sections, 0)
    BY <1>1
  <2> QED BY <1>3, <2>2, <2>4, <2>5, CopyKept
<1>6. /\ gate'.working = new /\ gate'.left = Evaluate(new) /\ gate'.removed = 0 /\ gate'.rounds = 0
      /\ DOMAIN gate' = {"working", "initial", "left", "removed", "rounds", "verdict"}
  BY <1>1, <1>4 DEF NoGate
<1>7. Sourced(report)' /\ Sourced(gate.working)' /\ (gate.rounds <= limit)'
  <2>1. limit \in 0..3
    BY <1>1, ReportAssumption DEF GateSettings
  <2>2. (gate.rounds <= limit)'
    BY <1>1, <1>6, <2>1
  <2> QED BY <1>1, <1>5, <1>6, <2>2 DEF Sourced, CitedDocs, Cited
<1>8. (gate.left = Evaluate(gate.working))'
  BY <1>1, <1>6, EvaluatedKept
<1>9. Cardinality(Facts(report.sections)) \in Nat
  BY <1>1, AddressesFinite DEF Sourced, IsReport
<1>10. BeingMended'
  <2>1. (Cardinality(Facts(report.sections)) = Cardinality(Facts(gate.working.sections)) + gate.removed)'
    BY <1>1, <1>5, <1>6, <1>9
  <2>2. Masked(gate.working.sections, gate.rounds)'
    BY <1>5, <1>6 DEF Masked, Secret
  <2> QED BY <1>6, <1>7, <1>8, <2>1, <2>2 DEF BeingMended
<1> QED BY <1>1, <1>10 DEF ReportInv, OnlyVerifiedIsKept, FailsOnlyWithoutFindings, RemovalsAnnounced

-----------------------------------------------------------------------------
(* The rules, told apart by their names, and the sentence each of them flags.    *)
Found(r) == {v \in Evaluate(r) : v.rule # "insufficient"}
RulesAt(r, at) == {v.rule : v \in {w \in Found(r) : w.at = at}}

LEMMA EntryEach ==
  ASSUME NEW r
  PROVE  /\ \A e \in Entries(r) : e.at \in Addresses(r.sections) /\ e.s = At(r.sections, e.at)
         /\ \A at \in Addresses(r.sections) : \E e \in Entries(r) : e.at = at /\ e.s = At(r.sections, at)
<1>1. ASSUME NEW e \in Entries(r) PROVE e.at \in Addresses(r.sections) /\ e.s = At(r.sections, e.at)
  BY DEF Entries
<1>2. ASSUME NEW at \in Addresses(r.sections) PROVE \E e \in Entries(r) : e.at = at /\ e.s = At(r.sections, at)
  <2>1. [at |-> at, in |-> at[1], s |-> At(r.sections, at)] \in Entries(r)
    BY DEF Entries
  <2> QED BY <2>1
<1> QED BY <1>1, <1>2

LEMMA RuleNames ==
  ASSUME NEW r
  PROVE  /\ \A v \in G1(r) : v.rule \in {"G1", "insufficient"}
         /\ \A v \in G2(r) : v.rule = "G2"
         /\ \A v \in G3(r) : v.rule \in {"G3", "sources"}
         /\ \A v \in G4(r) : v.rule = "G4" \/ (v.rule = "approximate" /\ ~v.error)
         /\ \A v \in G5(r) \cup G6(r) : v.rule \in {"G5", "G6"} /\ ~v.error
         /\ \A v \in G7(r) : v.rule = "G7"
         /\ \A v \in G9(r) : v.rule = "G9"
         /\ \A v \in G10(r) : v.rule = "G10" /\ ~v.error
         /\ \A v \in G11(r) : v.rule = "G11"
         /\ \A v \in G12(r) : v.rule = "G12"
<1>1. \A v \in G1(r) : v.rule \in {"G1", "insufficient"}
  BY DEF G1, Violation
<1>2. \A v \in G2(r) : v.rule = "G2"
  BY DEF G2, Flag, Violation
<1>3. \A v \in G3(r) : v.rule \in {"G3", "sources"}
  BY DEF G3, Flag, Violation
<1>4. \A v \in G4(r) : v.rule = "G4" \/ (v.rule = "approximate" /\ ~v.error)
  BY DEF G4, Flag, Violation
<1>5. \A v \in G5(r) \cup G6(r) : v.rule \in {"G5", "G6"} /\ ~v.error
  BY DEF G5, G6, Flag, Violation
<1>6. \A v \in G7(r) : v.rule = "G7"
  BY DEF G7, Violation
<1>7. \A v \in G9(r) : v.rule = "G9"
  BY DEF G9, Flag, Violation
<1>8. \A v \in G10(r) : v.rule = "G10" /\ ~v.error
  BY DEF G10, Violation
<1>9. (\A v \in G11(r) : v.rule = "G11") /\ (\A v \in G12(r) : v.rule = "G12")
  BY DEF G11, G12, Flag, Violation
<1> QED BY <1>1, <1>2, <1>3, <1>4, <1>5, <1>6, <1>7, <1>8, <1>9

LEMMA EvaluatedBy ==
  ASSUME NEW r, NEW v \in Evaluate(r)
  PROVE  /\ v.rule = "G1" => v \in G1(r)
         /\ v.rule = "insufficient" => v \in G1(r)
         /\ v.rule = "G2" => v \in G2(r)
         /\ v.rule = "G3" => v \in G3(r)
         /\ v.rule = "sources" => v \in G3(r)
         /\ v.rule = "G4" => v \in G4(r)
         /\ v.rule = "G7" => v \in G7(r)
         /\ v.rule = "G9" => v \in G9(r)
         /\ v.rule = "G11" => v \in G11(r)
         /\ v.rule = "G12" => v \in G12(r)
         /\ v.error => v.rule \in {"G1", "insufficient", "G2", "G3", "sources", "G4", "G7", "G9", "G11", "G12"}
<1>1. \/ v \in G1(r) \/ v \in G2(r) \/ v \in G3(r) \/ v \in G4(r) \/ v \in G5(r) \cup G6(r) \/ v \in G7(r)
      \/ v \in G9(r) \/ v \in G10(r) \/ v \in G11(r) \/ v \in G12(r)
  BY DEF Evaluate
<1> QED BY <1>1, RuleNames

(* What the rules say of the sentence at an address.                             *)
LEMMA FlaggedAt ==
  ASSUME NEW r, NEW at \in Addresses(r.sections)
  PROVE  LET s == At(r.sections, at) IN
         /\ (\E v \in Evaluate(r) : v.rule = "G2" /\ v.at = at) <=> s.kind = "fact" /\ s.cites = {}
         /\ (\E v \in Evaluate(r) : v.rule = "G3" /\ v.at = at)
               <=> s.kind = "fact" /\ ~(s.cites \subseteq DOMAIN ledger)
         /\ (\E v \in Evaluate(r) : v.rule = "G4" /\ v.at = at) <=> Misstates(r, s)
         /\ (\E v \in Evaluate(r) : v.rule = "G9" /\ v.at = at) <=> Secret(s)
         /\ (\E v \in Evaluate(r) : v.rule = "G11" /\ v.at = at) <=> s.kind = "recommendation" /\ Cited(s) = {}
         /\ (\E v \in Evaluate(r) : v.rule = "G12" /\ v.at = at) <=> \E c \in Cited(s) : ledger[c].stale
<1> DEFINE s == At(r.sections, at)
<1>0. /\ \A e \in Entries(r) : e.at = at => e.s = s
      /\ \E e \in Entries(r) : e.at = at /\ e.s = s
  BY EntryEach
<1> HIDE DEF s
<1>1. (\E v \in Evaluate(r) : v.rule = "G2" /\ v.at = at) <=> s.kind = "fact" /\ s.cites = {}
  <2>1. ASSUME NEW v \in Evaluate(r), v.rule = "G2", v.at = at PROVE s.kind = "fact" /\ s.cites = {}
    <3>1. v \in G2(r)
      BY <2>1, EvaluatedBy
    <3>2. \E e \in Entries(r) : e.at = at /\ e.s.kind = "fact" /\ e.s.cites = {}
      BY <2>1, <3>1 DEF G2, Flag, Violation
    <3> QED BY <1>0, <3>2
  <2>2. ASSUME s.kind = "fact" /\ s.cites = {} PROVE \E v \in Evaluate(r) : v.rule = "G2" /\ v.at = at
    <3> DEFINE v == Violation("G2", TRUE, at, None)
    <3>1. v \in G2(r)
      BY <1>0, <2>2 DEF G2, Flag
    <3>2. v.rule = "G2" /\ v.at = at
      BY DEF Violation
    <3> QED BY <3>1, <3>2 DEF Evaluate
  <2> QED BY <2>1, <2>2
<1>2. (\E v \in Evaluate(r) : v.rule = "G3" /\ v.at = at) <=> s.kind = "fact" /\ ~(s.cites \subseteq DOMAIN ledger)
  <2>1. ASSUME NEW v \in Evaluate(r), v.rule = "G3", v.at = at PROVE s.kind = "fact" /\ ~(s.cites \subseteq DOMAIN ledger)
    <3>1. v \in G3(r)
      BY <2>1, EvaluatedBy
    <3>2. \E e \in Entries(r) : e.at = at /\ e.s.kind = "fact" /\ ~(e.s.cites \subseteq DOMAIN ledger)
      BY <2>1, <3>1 DEF G3, Flag, Violation
    <3> QED BY <1>0, <3>2
  <2>2. ASSUME s.kind = "fact" /\ ~(s.cites \subseteq DOMAIN ledger) PROVE \E v \in Evaluate(r) : v.rule = "G3" /\ v.at = at
    <3> DEFINE v == Violation("G3", TRUE, at, None)
    <3>1. v \in G3(r)
      BY <1>0, <2>2 DEF G3, Flag
    <3>2. v.rule = "G3" /\ v.at = at
      BY DEF Violation
    <3> QED BY <3>1, <3>2 DEF Evaluate
  <2> QED BY <2>1, <2>2
<1>3. (\E v \in Evaluate(r) : v.rule = "G4" /\ v.at = at) <=> Misstates(r, s)
  <2>1. ASSUME NEW v \in Evaluate(r), v.rule = "G4", v.at = at PROVE Misstates(r, s)
    <3>1. v \in G4(r)
      BY <2>1, EvaluatedBy
    <3>2. \E e \in Entries(r) : e.at = at /\ Misstates(r, e.s)
      BY <2>1, <3>1 DEF G4, Flag, Violation
    <3> QED BY <1>0, <3>2
  <2>2. ASSUME Misstates(r, s) PROVE \E v \in Evaluate(r) : v.rule = "G4" /\ v.at = at
    <3> DEFINE v == Violation("G4", TRUE, at, None)
    <3>1. v \in G4(r)
      BY <1>0, <2>2 DEF G4, Flag
    <3>2. v.rule = "G4" /\ v.at = at
      BY DEF Violation
    <3> QED BY <3>1, <3>2 DEF Evaluate
  <2> QED BY <2>1, <2>2
<1>4. (\E v \in Evaluate(r) : v.rule = "G9" /\ v.at = at) <=> Secret(s)
  <2>1. ASSUME NEW v \in Evaluate(r), v.rule = "G9", v.at = at PROVE Secret(s)
    <3>1. v \in G9(r)
      BY <2>1, EvaluatedBy
    <3>2. \E e \in Entries(r) : e.at = at /\ Secret(e.s)
      BY <2>1, <3>1 DEF G9, Flag, Violation
    <3> QED BY <1>0, <3>2
  <2>2. ASSUME Secret(s) PROVE \E v \in Evaluate(r) : v.rule = "G9" /\ v.at = at
    <3> DEFINE v == Violation("G9", TRUE, at, None)
    <3>1. v \in G9(r)
      BY <1>0, <2>2 DEF G9, Flag
    <3>2. v.rule = "G9" /\ v.at = at
      BY DEF Violation
    <3> QED BY <3>1, <3>2 DEF Evaluate
  <2> QED BY <2>1, <2>2
<1>5. (\E v \in Evaluate(r) : v.rule = "G11" /\ v.at = at) <=> s.kind = "recommendation" /\ Cited(s) = {}
  <2>1. ASSUME NEW v \in Evaluate(r), v.rule = "G11", v.at = at PROVE s.kind = "recommendation" /\ Cited(s) = {}
    <3>1. v \in G11(r)
      BY <2>1, EvaluatedBy
    <3>2. \E e \in Entries(r) : e.at = at /\ e.s.kind = "recommendation" /\ Cited(e.s) = {}
      BY <2>1, <3>1 DEF G11, Flag, Violation
    <3> QED BY <1>0, <3>2
  <2>2. ASSUME s.kind = "recommendation" /\ Cited(s) = {} PROVE \E v \in Evaluate(r) : v.rule = "G11" /\ v.at = at
    <3> DEFINE v == Violation("G11", TRUE, at, None)
    <3>1. v \in G11(r)
      BY <1>0, <2>2 DEF G11, Flag
    <3>2. v.rule = "G11" /\ v.at = at
      BY DEF Violation
    <3> QED BY <3>1, <3>2 DEF Evaluate
  <2> QED BY <2>1, <2>2
<1>6. (\E v \in Evaluate(r) : v.rule = "G12" /\ v.at = at) <=> (\E c \in Cited(s) : ledger[c].stale)
  <2>1. ASSUME NEW v \in Evaluate(r), v.rule = "G12", v.at = at PROVE \E c \in Cited(s) : ledger[c].stale
    <3>1. v \in G12(r)
      BY <2>1, EvaluatedBy
    <3>2. \E e \in Entries(r) : e.at = at /\ \E c \in Cited(e.s) : ledger[c].stale
      BY <2>1, <3>1 DEF G12, Flag, Violation
    <3> QED BY <1>0, <3>2
  <2>2. ASSUME \E c \in Cited(s) : ledger[c].stale PROVE \E v \in Evaluate(r) : v.rule = "G12" /\ v.at = at
    <3> DEFINE v == Violation("G12", TRUE, at, None)
    <3>1. v \in G12(r)
      BY <1>0, <2>2 DEF G12, Flag
    <3>2. v.rule = "G12" /\ v.at = at
      BY DEF Violation
    <3> QED BY <3>1, <3>2 DEF Evaluate
  <2> QED BY <2>1, <2>2
<1> QED BY <1>1, <1>2, <1>3, <1>4, <1>5, <1>6 DEF s

(* What remediation drops, and what it leaves of a sentence that it keeps.       *)
LEMMA Dropping ==
  ASSUME NEW r, NEW at \in Addresses(r.sections)
  PROVE  LET s == At(r.sections, at) IN
         /\ ToDrop(r, Found(r), at) <=>
               \/ s.kind = "fact" /\ s.cites = {}
               \/ s.kind = "fact" /\ ~(s.cites \subseteq DOMAIN ledger) /\ Cited(s) = {}
               \/ Misstates(r, s)
               \/ s.kind = "recommendation" /\ Cited(s) = {}
               \/ \E c \in Cited(s) : ledger[c].stale
         /\ "G3" \in RulesAt(r, at) <=> s.kind = "fact" /\ ~(s.cites \subseteq DOMAIN ledger)
         /\ "G9" \in RulesAt(r, at) <=> Secret(s)
<1> DEFINE s == At(r.sections, at)
           flagged(rule) == \E v \in Evaluate(r) : v.rule = rule /\ v.at = at
<1>1. /\ flagged("G2") <=> s.kind = "fact" /\ s.cites = {}
      /\ flagged("G3") <=> s.kind = "fact" /\ ~(s.cites \subseteq DOMAIN ledger)
      /\ flagged("G4") <=> Misstates(r, s)
      /\ flagged("G9") <=> Secret(s)
      /\ flagged("G11") <=> s.kind = "recommendation" /\ Cited(s) = {}
      /\ flagged("G12") <=> \E c \in Cited(s) : ledger[c].stale
  BY FlaggedAt
<1>2. /\ "G3" \in RulesAt(r, at) <=> flagged("G3")
      /\ "G9" \in RulesAt(r, at) <=> flagged("G9")
  BY DEF RulesAt, Found
<1>3. ToDrop(r, Found(r), at) <=>
         \/ flagged("G2") \/ flagged("G4") \/ flagged("G11") \/ flagged("G12")
         \/ flagged("G3") /\ s.kind = "fact" /\ Cited(s) = {}
  BY DEF ToDrop, Found
<1> HIDE DEF flagged, s
<1> QED BY <1>1, <1>2, <1>3 DEF s

LEMMA MetaKept ==
  ASSUME NEW r, NEW at \in Addresses(r.sections),
         At(r.sections, at).kind = "meta", At(r.sections, at).cites = {}
  PROVE  ~ToDrop(r, Found(r), at)
<1> DEFINE s == At(r.sections, at)
<1>1. Cited(s) = {} /\ ~Misstates(r, s)
  BY DEF Cited, Misstates, Checked
<1> QED BY <1>1, Dropping

LEMMA MendedEach ==
  ASSUME NEW s, Worded(s), NEW rules
  PROVE  LET m == Mended(s, rules) IN
         /\ Worded(m) /\ m.kind = s.kind /\ m.text = s.text
         /\ m.cites = (IF "G3" \in rules THEN Cited(s) ELSE s.cites) /\ Cited(m) = Cited(s)
         /\ m.masked = (IF "G9" \in rules THEN s.masked + 1 ELSE s.masked)
         /\ s.labels \subseteq m.labels /\ m.labels \subseteq s.labels \cup Marks
<1> DEFINE m == Mended(s, rules)
           more == (IF "approximate" \in rules THEN {Approximate} ELSE {})
                   \cup (IF "G5" \in rules THEN {Uncertain} ELSE {})
                   \cup (IF "G6" \in rules THEN {SingleSource} ELSE {})
<1>1. /\ DOMAIN s = SentenceFields /\ s.kind \in {"meta", "fact", "recommendation"} /\ s.masked \in Nat
      /\ s.kind = "meta" => s.cites = {}
      /\ s.kind # "meta" => s.labels \subseteq Marks
  BY DEF Worded
<1>2. /\ DOMAIN m = SentenceFields /\ m.kind = s.kind /\ m.text = s.text
      /\ m.cites = (IF "G3" \in rules THEN Cited(s) ELSE s.cites)
      /\ m.masked = (IF "G9" \in rules THEN s.masked + 1 ELSE s.masked)
  BY <1>1 DEF Mended, SentenceFields
<1>3. m.labels = s.labels \cup more
  BY <1>1 DEF Mended, SentenceFields
<1>4. more \subseteq Marks
  BY DEF Marks
<1> HIDE DEF m, more
<1>5. Cited(m) = Cited(s)
  BY <1>2 DEF Cited
<1>6. m.masked \in Nat
  BY <1>1, <1>2
<1>7. m.kind = "meta" => m.cites = {}
  BY <1>1, <1>2 DEF Cited
<1>8. m.kind # "meta" => m.labels \subseteq Marks
  BY <1>1, <1>2, <1>3, <1>4
<1>9. Worded(m)
  BY <1>1, <1>2, <1>6, <1>7, <1>8 DEF Worded
<1> QED BY <1>2, <1>3, <1>4, <1>5, <1>6, <1>9 DEF m

(* Its numbers are judged by what it cites, which mending does not change.       *)
LEMMA SameNumbers ==
  ASSUME NEW r, NEW next, NEW s, NEW m, m.kind = s.kind, m.text = s.text, m.masked = s.masked,
         Cited(m) = Cited(s), s.kind = "meta" \/ Cited(s) # {}
  PROVE  Misstates(next, m) <=> Misstates(r, s)
<1>0. States(m) = States(s)
  BY DEF States
<1>1. Support(m) = Support(s)
  BY DEF Support
<1>2. Checked(m) = Checked(s)
  BY <1>0, <1>1 DEF Checked
<1>3. s.kind # "meta" => \A noun : LedgerExpected(next, m, noun) = LedgerExpected(r, s, noun)
  BY DEF LedgerExpected
<1>4. s.kind # "meta" => Miscounts(next, m) = Miscounts(r, s)
  BY <1>0, <1>3 DEF Miscounts
<1> QED BY <1>1, <1>2, <1>4 DEF Misstates

LEMMA KeptSound ==
  ASSUME NEW r, IsReport(r), NEW k \in DOMAIN r.sections, NEW i \in DOMAIN r.sections[k],
         ~ToDrop(r, Found(r), <<k, i>>), NEW rounds \in Nat, Masked(r.sections, rounds),
         NEW m, m = Mended(r.sections[k][i], RulesAt(r, <<k, i>>))
  PROVE  /\ Worded(m) /\ m.kind = r.sections[k][i].kind /\ (Secret(m) => m.masked = rounds + 1)
         /\ m.labels \subseteq r.sections[k][i].labels \cup Marks
         /\ m.kind = "fact" => m.cites # {} /\ m.cites \subseteq DOMAIN ledger
         /\ m.kind = "recommendation" => Cited(m) # {}
         /\ \A c \in Cited(m) : ~ledger[c].stale
         /\ \A next : Misstates(next, m) => m.masked = rounds + 1
<1> DEFINE s == r.sections[k][i]
           rules == RulesAt(r, <<k, i>>)
<1>1. /\ <<k, i>> \in Addresses(r.sections) /\ At(r.sections, <<k, i>>) = s /\ Worded(s)
      /\ Secret(s) => s.masked = rounds
  BY DEF Addresses, At, IsReport, Composed, Masked
<1>2. /\ ~(s.kind = "fact" /\ s.cites = {})
      /\ ~(s.kind = "fact" /\ ~(s.cites \subseteq DOMAIN ledger) /\ Cited(s) = {})
      /\ ~Misstates(r, s)
      /\ ~(s.kind = "recommendation" /\ Cited(s) = {})
      /\ \A c \in Cited(s) : ~ledger[c].stale
      /\ "G3" \in rules <=> s.kind = "fact" /\ ~(s.cites \subseteq DOMAIN ledger)
      /\ "G9" \in rules <=> Secret(s)
  BY <1>1, Dropping
<1> HIDE DEF s, rules
<1>3. /\ Worded(m) /\ m.kind = s.kind /\ m.text = s.text
      /\ m.cites = (IF "G3" \in rules THEN Cited(s) ELSE s.cites) /\ Cited(m) = Cited(s)
      /\ m.masked = (IF "G9" \in rules THEN s.masked + 1 ELSE s.masked)
      /\ m.labels \subseteq s.labels \cup Marks
  <2>1. m = Mended(s, rules)
    BY DEF s, rules
  <2> QED BY <1>1, <2>1, MendedEach
<1>4. s.kind \in {"meta", "fact", "recommendation"}
  BY <1>1 DEF Worded
<1>5. s.kind = "fact" => m.cites # {} /\ m.cites \subseteq DOMAIN ledger /\ Cited(s) # {}
  BY <1>2, <1>3 DEF Cited
<1>6. s.kind = "meta" \/ Cited(s) # {}
  BY <1>2, <1>4, <1>5
<1>7. CASE Secret(s)
  <2>1. m.masked = rounds + 1
    BY <1>1, <1>2, <1>3, <1>7
  <2> QED BY <1>2, <1>3, <1>5, <2>1 DEF s
<1>8. CASE ~Secret(s)
  <2>1. m.masked = s.masked
    BY <1>2, <1>3, <1>8
  <2>2. \A next : ~Misstates(next, m)
    BY <1>2, <1>3, <1>6, <2>1, SameNumbers
  <2>3. ~Secret(m)
    BY <1>3, <1>8, <2>1 DEF Secret
  <2> QED BY <1>2, <1>3, <1>5, <2>2, <2>3 DEF s
<1> QED BY <1>7, <1>8

(* The report after a round, section by section.                                 *)
Added(r) == {v.what : v \in {w \in Found(r) : w.rule = "G1"}}
Kept(r, k) == {i \in DOMAIN r.sections[k] : ~ToDrop(r, Found(r), <<k, i>>)}
Missed(r) == {q \in Subqs : \E v \in Found(r) : v.rule = "G7" /\ v.what = q}
Notes(r) == [i \in DOMAIN InOrder(Missed(r)) |-> Meta({GapLabel(InOrder(Missed(r))[i])})]
MendedPart(r, k) ==
    IF k \in Added(r) THEN <<Meta({})>>
    ELSE Keeping([i \in DOMAIN r.sections[k] |-> Mended(r.sections[k][i], RulesAt(r, <<k, i>>))], Kept(r, k))

LEMMA AddedEach ==
  ASSUME NEW r
  PROVE  Added(r) = (Required \cup (IF Exhausted = {} THEN {} ELSE {"known_gaps"})) \ DOMAIN r.sections
<1> DEFINE missing == (Required \cup (IF Exhausted = {} THEN {} ELSE {"known_gaps"})) \ DOMAIN r.sections
<1>1. ASSUME NEW what \in Added(r) PROVE what \in missing
  <2>1. PICK v \in Evaluate(r) : v.rule = "G1" /\ v.what = what
    BY DEF Added, Found
  <2>2. v \in G1(r)
    BY <2>1, EvaluatedBy
  <2> QED BY <2>1, <2>2 DEF G1, Violation
<1>2. ASSUME NEW k \in missing PROVE k \in Added(r)
  <2> DEFINE v == Violation("G1", TRUE, None, k)
  <2>1. v \in G1(r)
    BY <1>2 DEF G1
  <2>2. v.rule = "G1" /\ v.what = k
    BY DEF Violation
  <2> HIDE DEF v
  <2>3. v \in Found(r)
    BY <2>1, <2>2 DEF Found, Evaluate
  <2> QED BY <2>2, <2>3 DEF Added
<1> QED BY <1>1, <1>2

LEMMA NotesEach ==
  ASSUME NEW r
  PROVE  /\ IsList(Notes(r)) /\ \A i \in DOMAIN Notes(r) : Framed(Notes(r)[i])
         /\ \A q \in Missed(r) : \E i \in DOMAIN Notes(r) : Notes(r)[i] = Meta({GapLabel(q)})
<1> DEFINE K == Missed(r)
<1>1. K \in SUBSET Nat /\ IsFiniteSet(K)
  <2>1. IsFiniteSet(Subqs) /\ K \subseteq Subqs /\ Subqs \subseteq Nat
    BY ReportAssumption, FS_Interval DEF Subqs, Missed
  <2> QED BY <2>1, FS_Subset
<1> HIDE DEF K
<1>2. /\ Cardinality(K) \in Nat /\ InOrder(K) \in [1..Cardinality(K) -> K]
      /\ \A q \in K : \E n \in 1..Cardinality(K) : InOrder(K)[n] = q
  BY <1>1, InOrderEach
<1>3. Notes(r) = [i \in 1..Cardinality(K) |-> Meta({GapLabel(InOrder(K)[i])})]
  BY <1>2 DEF Notes, K
<1>4. IsList(Notes(r)) /\ DOMAIN Notes(r) = 1..Cardinality(K)
  BY <1>2, <1>3, ByPlaces
<1>5. \A i \in DOMAIN Notes(r) : Framed(Notes(r)[i])
  BY <1>3, MetaFramed, GapPlain
<1>6. \A q \in K : \E i \in DOMAIN Notes(r) : Notes(r)[i] = Meta({GapLabel(q)})
  BY <1>2, <1>3, <1>4
<1> QED BY <1>4, <1>5, <1>6 DEF K

LEMMA RemediatedIs ==
  ASSUME NEW r, DOMAIN r = ReportFields
  PROVE  LET S == r.sections
             next == Remediated(r, Found(r))
             T == next.sections
         IN /\ DOMAIN next = ReportFields /\ next.fallback = r.fallback /\ next.sources = CitedDocs(T)
            /\ T = [k \in DOMAIN S \cup Added(r) |->
                       IF k = "known_gaps" THEN MendedPart(r, k) \o Notes(r) ELSE MendedPart(r, k)]
<1> DEFINE S == r.sections
           W == [k \in DOMAIN S \cup Added(r) |->
                    IF k = "known_gaps" THEN MendedPart(r, k) \o Notes(r) ELSE MendedPart(r, k)]
           with == [r EXCEPT !.sections = W]
<1>1. Remediated(r, Found(r)) = WithSources(with)
  BY DEF Remediated, MendedPart, Notes, Missed, Added, Kept, RulesAt
<1>2. DOMAIN with = ReportFields /\ with.sections = W /\ with.fallback = r.fallback
  BY DEF ReportFields
<1> HIDE DEF with, W
<1>3. /\ DOMAIN WithSources(with) = ReportFields /\ WithSources(with).sections = W
      /\ WithSources(with).fallback = r.fallback /\ WithSources(with).sources = CitedDocs(W)
  BY <1>2 DEF WithSources, ReportFields
<1> QED BY <1>1, <1>3 DEF W

(* A part holds the kept sentences in their order; what follows is framing.      *)
LEMMA PartEach ==
  ASSUME NEW r, IsReport(r), NEW k \in DOMAIN r.sections \cup Added(r)
  PROVE  LET part == MendedPart(r, k)
             K == Kept(r, k)
             list == r.sections[k]
         IN /\ IsList(part)
            /\ k \notin DOMAIN r.sections => \A n \in DOMAIN part : Framed(part[n])
            /\ k \in DOMAIN r.sections =>
                  /\ DOMAIN part = 1..Cardinality(K) /\ InOrder(K) \in [1..Cardinality(K) -> K]
                  /\ \A n \in DOMAIN part :
                        part[n] = Mended(list[InOrder(K)[n]], RulesAt(r, <<k, InOrder(K)[n]>>))
                  /\ \A i \in K : \E n \in DOMAIN part : InOrder(K)[n] = i
                  /\ \A m, n \in DOMAIN part : InOrder(K)[m] = InOrder(K)[n] => m = n
<1> DEFINE part == MendedPart(r, k)
           K == Kept(r, k)
           list == r.sections[k]
<1>1. CASE k \in Added(r)
  <2>1. k \notin DOMAIN r.sections /\ part = <<Meta({})>>
    BY <1>1, AddedEach DEF MendedPart
  <2>2. IsList(<<Meta({})>>) /\ DOMAIN <<Meta({})>> = {1} /\ <<Meta({})>>[1] = Meta({}) /\ Framed(Meta({}))
    BY MetaFramed DEF IsList
  <2> QED BY <2>1, <2>2
<1>2. CASE k \in DOMAIN r.sections /\ k \notin Added(r)
  <2> DEFINE mended == [i \in DOMAIN list |-> Mended(list[i], RulesAt(r, <<k, i>>))]
  <2>1. part = Keeping(mended, K)
    BY <1>2 DEF MendedPart
  <2>2. IsList(list) /\ DOMAIN list = 1..Len(list) /\ Len(list) \in Nat
    BY <1>2, ListSeq DEF IsReport, Composed
  <2>3. IsList(mended) /\ DOMAIN mended = DOMAIN list
    BY <2>2, ByPlaces
  <2>4. K \in SUBSET DOMAIN mended
    BY <2>3 DEF Kept
  <2>5. \A i \in DOMAIN list : mended[i] = Mended(list[i], RulesAt(r, <<k, i>>))
    OBVIOUS
  <2> HIDE DEF mended, K, part
  <2>6. /\ IsList(part) /\ DOMAIN part = 1..Cardinality(K)
        /\ InOrder(K) \in [1..Cardinality(K) -> K]
        /\ \A n \in DOMAIN part : part[n] = mended[InOrder(K)[n]]
        /\ \A i \in K : \E n \in DOMAIN part : InOrder(K)[n] = i
        /\ \A m, n \in DOMAIN part : InOrder(K)[m] = InOrder(K)[n] => m = n
    BY <2>1, <2>3, <2>4, KeepingEach
  <2>7. \A n \in DOMAIN part : InOrder(K)[n] \in DOMAIN list
    BY <2>3, <2>4, <2>6
  <2> QED BY <1>2, <2>5, <2>6, <2>7 DEF part, K
<1> QED BY <1>1, <1>2, AddedEach

Place(r, k, n) == InOrder(Kept(r, k))[n]
Places(r, k) == 1..Cardinality(Kept(r, k))

LEMMA RemediatedEach ==
  ASSUME NEW r, IsReport(r)
  PROVE  LET S == r.sections
             T == Remediated(r, Found(r)).sections
         IN /\ DOMAIN T = DOMAIN S \cup Added(r) /\ T = [k \in DOMAIN T |-> T[k]]
            /\ \A k \in DOMAIN T : IsList(T[k])
            /\ \A k \in DOMAIN T : \A n \in DOMAIN T[k] :
                  (k \in DOMAIN S /\ n \in Places(r, k)) \/ Framed(T[k][n])
            /\ \A k \in DOMAIN S :
                  /\ \A n \in Places(r, k) :
                        /\ n \in DOMAIN T[k] /\ Place(r, k, n) \in Kept(r, k)
                        /\ T[k][n] = Mended(S[k][Place(r, k, n)], RulesAt(r, <<k, Place(r, k, n)>>))
                  /\ \A i \in Kept(r, k) : \E n \in Places(r, k) : Place(r, k, n) = i
                  /\ \A m, n \in Places(r, k) : Place(r, k, m) = Place(r, k, n) => m = n
            /\ "known_gaps" \in DOMAIN T =>
                  \A q \in Missed(r) : \E n \in DOMAIN T["known_gaps"] : T["known_gaps"][n] = Meta({GapLabel(q)})
<1> DEFINE S == r.sections
           T == Remediated(r, Found(r)).sections
<1>1. T = [k \in DOMAIN S \cup Added(r) |->
              IF k = "known_gaps" THEN MendedPart(r, k) \o Notes(r) ELSE MendedPart(r, k)]
  BY RemediatedIs DEF IsReport
<1> HIDE DEF S, T
<1>2. DOMAIN T = DOMAIN S \cup Added(r) /\ T = [k \in DOMAIN T |-> T[k]]
  BY <1>1
<1>3. ASSUME NEW k \in DOMAIN T
      PROVE  LET part == MendedPart(r, k) IN
             /\ IsList(T[k]) /\ IsList(part)
             /\ \A n \in DOMAIN part : n \in DOMAIN T[k] /\ T[k][n] = part[n]
             /\ \A n \in DOMAIN T[k] : n \in DOMAIN part \/ Framed(T[k][n])
  <2> DEFINE part == MendedPart(r, k)
  <2>1. IsList(part)
    BY <1>2, PartEach DEF S
  <2>2. CASE k # "known_gaps"
    BY <1>1, <1>2, <2>1, <2>2
  <2>3. CASE k = "known_gaps"
    <3>1. T[k] = part \o Notes(r)
      BY <1>1, <1>2, <2>3
    <3>2. IsList(Notes(r)) /\ \A i \in DOMAIN Notes(r) : Framed(Notes(r)[i])
      BY NotesEach
    <3> HIDE DEF part
    <3>3. PICK f : f = part
      OBVIOUS
    <3>4. PICK g : g = Notes(r)
      OBVIOUS
    <3>5. /\ IsList(f \o g) /\ DOMAIN (f \o g) = 1..(Len(f) + Len(g))
          /\ \A i \in DOMAIN f : (f \o g)[i] = f[i]
          /\ \A i \in DOMAIN (f \o g) \ DOMAIN f : i - Len(f) \in DOMAIN g /\ (f \o g)[i] = g[i - Len(f)]
      BY <2>1, <3>2, <3>3, <3>4, Concatenated
    <3>6. DOMAIN f = 1..Len(f) /\ Len(f) \in Nat /\ Len(g) \in Nat
      BY <2>1, <3>2, <3>3, <3>4, ListSeq
    <3>7. \A i \in DOMAIN f : i \in DOMAIN (f \o g)
      BY <3>5, <3>6
    <3> QED BY <2>1, <3>1, <3>2, <3>3, <3>4, <3>5, <3>7 DEF part
  <2> QED BY <2>2, <2>3
<1>4. ASSUME NEW k \in DOMAIN S
      PROVE  /\ k \in DOMAIN T /\ DOMAIN MendedPart(r, k) = Places(r, k)
             /\ \A n \in Places(r, k) :
                   /\ n \in DOMAIN T[k] /\ Place(r, k, n) \in Kept(r, k)
                   /\ T[k][n] = Mended(S[k][Place(r, k, n)], RulesAt(r, <<k, Place(r, k, n)>>))
             /\ \A i \in Kept(r, k) : \E n \in Places(r, k) : Place(r, k, n) = i
             /\ \A m, n \in Places(r, k) : Place(r, k, m) = Place(r, k, n) => m = n
  <2> DEFINE part == MendedPart(r, k)
             K == Kept(r, k)
  <2>1. k \in DOMAIN T /\ k \in DOMAIN r.sections
    BY <1>2 DEF S
  <2>2. /\ DOMAIN part = 1..Cardinality(K) /\ InOrder(K) \in [1..Cardinality(K) -> K]
        /\ \A n \in DOMAIN part :
              part[n] = Mended(r.sections[k][InOrder(K)[n]], RulesAt(r, <<k, InOrder(K)[n]>>))
        /\ \A i \in K : \E n \in DOMAIN part : InOrder(K)[n] = i
        /\ \A m, n \in DOMAIN part : InOrder(K)[m] = InOrder(K)[n] => m = n
    BY <2>1, PartEach
  <2>3. \A n \in DOMAIN part : n \in DOMAIN T[k] /\ T[k][n] = part[n]
    BY <1>3, <2>1
  <2> HIDE DEF part
  <2> QED BY <2>1, <2>2, <2>3 DEF Place, Places, S, part
<1>5. ASSUME NEW k \in DOMAIN T, NEW n \in DOMAIN T[k]
      PROVE  (k \in DOMAIN S /\ n \in Places(r, k)) \/ Framed(T[k][n])
  <2>1. n \in DOMAIN MendedPart(r, k) \/ Framed(T[k][n])
    BY <1>3
  <2>2. CASE k \in DOMAIN S
    BY <1>4, <2>1, <2>2
  <2>3. CASE k \notin DOMAIN S
    BY <1>2, <1>3, <2>1, <2>3, PartEach DEF S
  <2> QED BY <2>2, <2>3
<1>6. ASSUME "known_gaps" \in DOMAIN T, NEW q \in Missed(r)
      PROVE  \E n \in DOMAIN T["known_gaps"] : T["known_gaps"][n] = Meta({GapLabel(q)})
  <2>1. PICK f : f = MendedPart(r, "known_gaps")
    OBVIOUS
  <2>2. PICK g : g = Notes(r)
    OBVIOUS
  <2>3. T["known_gaps"] = f \o g /\ IsList(f)
    BY <1>1, <1>2, <1>3, <1>6, <2>1, <2>2
  <2>4. IsList(g) /\ \E i \in DOMAIN g : g[i] = Meta({GapLabel(q)})
    BY <2>2, NotesEach
  <2>5. PICK i \in DOMAIN g : g[i] = Meta({GapLabel(q)})
    BY <2>4
  <2>6. DOMAIN (f \o g) = 1..(Len(f) + Len(g)) /\ (f \o g)[Len(f) + i] = g[i]
    BY <2>3, <2>4, Concatenated
  <2>7. DOMAIN g = 1..Len(g) /\ Len(g) \in Nat /\ Len(f) \in Nat
    BY <2>3, <2>4, ListSeq
  <2>8. Len(f) + i \in DOMAIN (f \o g)
    BY <2>6, <2>7
  <2> QED BY <2>3, <2>5, <2>6, <2>8
<1> QED BY <1>2, <1>3, <1>4, <1>5, <1>6 DEF S, T

(* So each sentence of the next report is free of what a rule calls an error but *)
(* for those that were masked.                                                   *)
LEMMA RemediatedSound ==
  ASSUME NEW r, IsReport(r), NEW k, NEW n,
         NEW rounds \in Nat, Masked(r.sections, rounds),
         k \in DOMAIN Remediated(r, Found(r)).sections, n \in DOMAIN Remediated(r, Found(r)).sections[k]
  PROVE  LET next == Remediated(r, Found(r))
             m == next.sections[k][n]
         IN /\ Phrased(m) /\ (Secret(m) => m.masked = rounds + 1)
            /\ m.kind = "fact" => m.cites # {} /\ m.cites \subseteq DOMAIN ledger
            /\ m.kind = "recommendation" => Cited(m) # {}
            /\ \A c \in Cited(m) : ~ledger[c].stale
            /\ Misstates(next, m) => m.masked = rounds + 1
<1> DEFINE S == r.sections
           next == Remediated(r, Found(r))
           T == next.sections
           m == T[k][n]
<1>1. CASE Framed(m)
  <2>1. m.kind = "meta" /\ m.cites = {} /\ ~Secret(m) /\ Phrased(m)
    BY <1>1 DEF Framed, Worded, Phrased
  <2>2. Cited(m) = {} /\ Checked(m) = {}
    BY <2>1 DEF Cited, Checked
  <2>3. ~Misstates(next, m)
    BY <2>1, <2>2 DEF Misstates
  <2> QED BY <2>1, <2>2, <2>3
<1>2. CASE k \in DOMAIN S /\ n \in Places(r, k)
  <2>1. PICK i : i = Place(r, k, n)
    OBVIOUS
  <2>2. i \in Kept(r, k) /\ m = Mended(S[k][i], RulesAt(r, <<k, i>>))
    BY <1>2, <2>1, RemediatedEach
  <2>3. i \in DOMAIN r.sections[k] /\ ~ToDrop(r, Found(r), <<k, i>>)
    BY <2>2 DEF Kept
  <2>4. \A l \in S[k][i].labels \cup Marks : l[1] # "removed"
    BY <1>2, <2>3, MarksPlain DEF IsReport, Unannounced
  <2>5. /\ Worded(m) /\ m.kind = S[k][i].kind /\ (Secret(m) => m.masked = rounds + 1)
        /\ m.labels \subseteq S[k][i].labels \cup Marks
        /\ m.kind = "fact" => m.cites # {} /\ m.cites \subseteq DOMAIN ledger
        /\ m.kind = "recommendation" => Cited(m) # {}
        /\ \A c \in Cited(m) : ~ledger[c].stale
        /\ Misstates(next, m) => m.masked = rounds + 1
    <3>1. PICK x : x = Mended(r.sections[k][i], RulesAt(r, <<k, i>>))
      OBVIOUS
    <3> HIDE DEF next
    <3>2. /\ Worded(x) /\ x.kind = r.sections[k][i].kind /\ (Secret(x) => x.masked = rounds + 1)
          /\ x.labels \subseteq r.sections[k][i].labels \cup Marks
          /\ x.kind = "fact" => x.cites # {} /\ x.cites \subseteq DOMAIN ledger
          /\ x.kind = "recommendation" => Cited(x) # {}
          /\ \A c \in Cited(x) : ~ledger[c].stale
          /\ \A any : Misstates(any, x) => x.masked = rounds + 1
      <4>1. k \in DOMAIN r.sections /\ Masked(r.sections, rounds)
        BY <1>2
      <4> QED BY <2>3, <3>1, <4>1, KeptSound
    <3> QED BY <2>2, <3>1, <3>2
  <2> QED BY <2>4, <2>5 DEF Phrased
<1>3. (k \in DOMAIN S /\ n \in Places(r, k)) \/ Framed(m)
  BY RemediatedEach
<1> QED BY <1>1, <1>2, <1>3

LEMMA RemediatedPhrased ==
  ASSUME NEW r, IsReport(r), NEW k, NEW n,
         k \in DOMAIN Remediated(r, Found(r)).sections, n \in DOMAIN Remediated(r, Found(r)).sections[k]
  PROVE  Phrased(Remediated(r, Found(r)).sections[k][n])
<1> DEFINE S == r.sections
           T == Remediated(r, Found(r)).sections
           m == T[k][n]
<1>1. CASE Framed(m)
  BY <1>1 DEF Framed, Phrased
<1>2. CASE k \in DOMAIN S /\ n \in Places(r, k)
  <2>1. PICK i : i = Place(r, k, n)
    OBVIOUS
  <2>2. i \in Kept(r, k) /\ m = Mended(S[k][i], RulesAt(r, <<k, i>>))
    BY <1>2, <2>1, RemediatedEach
  <2>3. Worded(S[k][i]) /\ \A l \in S[k][i].labels \cup Marks : l[1] # "removed"
    BY <1>2, <2>2, MarksPlain DEF IsReport, Composed, Unannounced, Kept
  <2>4. Worded(m) /\ m.labels \subseteq S[k][i].labels \cup Marks
    BY <2>2, <2>3, MendedEach
  <2> QED BY <2>3, <2>4 DEF Phrased
<1>3. (k \in DOMAIN S /\ n \in Places(r, k)) \/ Framed(m)
  BY RemediatedEach
<1> QED BY <1>1, <1>2, <1>3

LEMMA RemediatedSourced ==
  ASSUME NEW r, IsReport(r) PROVE Sourced(Remediated(r, Found(r)))
<1> DEFINE next == Remediated(r, Found(r))
           T == next.sections
<1>1. DOMAIN next = ReportFields /\ next.fallback = r.fallback /\ next.sources = CitedDocs(T)
  BY RemediatedIs DEF IsReport
<1>2. DOMAIN T = DOMAIN r.sections \cup Added(r) /\ T = [k \in DOMAIN T |-> T[k]] /\ \A k \in DOMAIN T : IsList(T[k])
  BY RemediatedEach
<1>3. DOMAIN T \subseteq SectionKeys
  BY <1>2, AddedEach, Keys DEF IsReport, Composed, Required
<1>4. \A k \in DOMAIN T : \A n \in DOMAIN T[k] : Phrased(T[k][n])
  BY RemediatedPhrased
<1> HIDE DEF next
<1> QED BY <1>1, <1>2, <1>3, <1>4 DEF Sourced, IsReport, Composed, Unannounced, Phrased, next

LEMMA GapApart == ASSUME NEW q PROVE GapLabel(q) \notin Marks
<1>1. GapLabel(q)[1] = "gap"
  BY DEF GapLabel
<1>2. \A l \in Marks : l[1] # "gap"
  BY DEF Marks, Uncertain, SingleSource, Approximate
<1> QED BY <1>1, <1>2

(* Every exhausted subquestion is named in Known Gaps, and stays named.          *)
LEMMA GapsListed ==
  ASSUME NEW r, IsReport(r), NEW q \in Exhausted
  PROVE  LET T == Remediated(r, Found(r)).sections
         IN /\ "known_gaps" \in DOMAIN T
            /\ \E n \in DOMAIN T["known_gaps"] : GapLabel(q) \in T["known_gaps"][n].labels
<1> DEFINE S == r.sections
           T == Remediated(r, Found(r)).sections
<1>1. "known_gaps" \in DOMAIN T
  <2>1. DOMAIN T = DOMAIN S \cup Added(r)
    BY RemediatedEach
  <2>2. "known_gaps" \in DOMAIN S \cup Added(r)
    BY AddedEach
  <2> QED BY <2>1, <2>2
<1>2. CASE q \in Missed(r)
  <2>1. PICK n \in DOMAIN T["known_gaps"] : T["known_gaps"][n] = Meta({GapLabel(q)})
    BY <1>1, <1>2, RemediatedEach
  <2> QED BY <1>1, <2>1 DEF Meta
<1>3. CASE q \notin Missed(r)
  <2>1. q \in Subqs
    BY DEF Exhausted
  <2>2. ~\E v \in G7(r) : v.what = q
    <3>1. ASSUME NEW v \in G7(r), v.what = q PROVE FALSE
      <4>1. v \in Found(r) /\ v.rule = "G7"
        BY <3>1, RuleNames DEF Found, Evaluate
      <4> QED BY <1>3, <2>1, <3>1, <4>1 DEF Missed
    <3> QED BY <3>1
  <2> DEFINE listed == IF "known_gaps" \in DOMAIN S THEN UNION {s.labels : s \in ToSet(S["known_gaps"])} ELSE {}
  <2>3. GapLabel(q) \in listed
    <3>1. SUFFICES ASSUME GapLabel(q) \notin listed PROVE FALSE
      OBVIOUS
    <3> DEFINE v == Violation("G7", TRUE, None, q)
    <3>2. v \in G7(r)
      BY <3>1 DEF G7
    <3>3. v.what = q
      BY DEF Violation
    <3> QED BY <2>2, <3>2, <3>3
  <2>4. "known_gaps" \in DOMAIN S /\ \E i \in DOMAIN S["known_gaps"] : GapLabel(q) \in S["known_gaps"][i].labels
    BY <2>3 DEF ToSet
  <2>5. PICK i \in DOMAIN S["known_gaps"] : GapLabel(q) \in S["known_gaps"][i].labels
    BY <2>4
  <2>6. Worded(S["known_gaps"][i])
    BY <2>4 DEF IsReport, Composed
  <2>7. S["known_gaps"][i].kind = "meta" /\ S["known_gaps"][i].cites = {}
    BY <2>5, <2>6, GapApart DEF Worded
  <2>8. ~ToDrop(r, Found(r), <<"known_gaps", i>>)
    <3>1. <<"known_gaps", i>> \in Addresses(S) /\ At(S, <<"known_gaps", i>>) = S["known_gaps"][i]
      BY <2>4 DEF Addresses, At
    <3> QED BY <2>7, <3>1, MetaKept
  <2>9. PICK n \in Places(r, "known_gaps") : Place(r, "known_gaps", n) = i
    BY <2>4, <2>8, RemediatedEach DEF Kept
  <2>10. /\ n \in DOMAIN T["known_gaps"]
         /\ T["known_gaps"][n] = Mended(S["known_gaps"][i], RulesAt(r, <<"known_gaps", i>>))
    BY <2>4, <2>9, RemediatedEach
  <2>11. S["known_gaps"][i].labels \subseteq T["known_gaps"][n].labels
    BY <2>6, <2>10, MendedEach
  <2> QED BY <1>1, <2>5, <2>10, <2>11
<1> QED BY <1>2, <1>3

(* One round leaves no error but the missing finding.                            *)
LEMMA RemediatedClean ==
  ASSUME NEW r, IsReport(r), NEW rounds \in Nat, Masked(r.sections, rounds)
  PROVE  LET next == Remediated(r, Found(r)) IN OnlySpoiled(next, rounds + 1) /\ Masked(next.sections, rounds + 1)
<1> DEFINE next == Remediated(r, Found(r))
           T == next.sections
<1>1. ASSUME NEW e \in Entries(next)
      PROVE  /\ e.s \in SentencesOf(T) /\ (Secret(e.s) => e.s.masked = rounds + 1)
             /\ e.s.kind = "fact" => e.s.cites # {} /\ e.s.cites \subseteq DOMAIN ledger
             /\ e.s.kind = "recommendation" => Cited(e.s) # {}
             /\ \A c \in Cited(e.s) : ~ledger[c].stale
             /\ Misstates(next, e.s) => e.s.masked = rounds + 1
  <2>1. e.at \in Addresses(T) /\ e.s = At(T, e.at)
    BY EntryEach
  <2>2. PICK k \in DOMAIN T : \E n \in DOMAIN T[k] : e.at = <<k, n>>
    BY <2>1 DEF Addresses
  <2>3. PICK n \in DOMAIN T[k] : e.at = <<k, n>>
    BY <2>2
  <2>4. e.s = T[k][n]
    BY <2>1, <2>3 DEF At
  <2>5. e.s \in SentencesOf(T)
    BY <2>4 DEF SentencesOf, ToSet
  <2> QED BY <2>4, <2>5, RemediatedSound
<1>2. ASSUME NEW v \in G1(next) PROVE v.rule # "G1"
  <2>1. (Required \cup (IF Exhausted = {} THEN {} ELSE {"known_gaps"})) \ DOMAIN T = {}
    BY RemediatedEach, AddedEach
  <2> HIDE DEF next
  <2> QED BY <2>1 DEF G1, Violation
<1>3. ASSUME NEW q \in Exhausted
      PROVE  /\ "known_gaps" \in DOMAIN T
             /\ GapLabel(q) \in UNION {s.labels : s \in ToSet(T["known_gaps"])}
  <2>1. "known_gaps" \in DOMAIN T /\ \E n \in DOMAIN T["known_gaps"] : GapLabel(q) \in T["known_gaps"][n].labels
    BY GapsListed
  <2> HIDE DEF next
  <2> QED BY <2>1 DEF ToSet
<1>10. Masked(T, rounds + 1)
  <2>1. ASSUME NEW k \in DOMAIN T, NEW n \in DOMAIN T[k]
        PROVE  Secret(T[k][n]) => T[k][n].masked = rounds + 1
    <3>1. /\ Phrased(T[k][n]) /\ (Secret(T[k][n]) => T[k][n].masked = rounds + 1)
          /\ \A c \in Cited(T[k][n]) : ~ledger[c].stale
      BY RemediatedSound
    <3> QED BY <3>1
  <2> QED BY <2>1 DEF Masked
<1>4. next.sources = CitedDocs(T)
  BY RemediatedSourced DEF Sourced
<1> HIDE DEF next
<1>5. G7(next) = {}
  BY <1>3 DEF G7
<1>6. G2(next) = {} /\ G11(next) = {} /\ G12(next) = {}
  BY <1>1 DEF G2, G11, G12, Flag
<1>7. G3(next) = {}
  BY <1>1, <1>4 DEF G3, Flag
<1>8. ASSUME NEW v \in G4(next), v.rule = "G4" PROVE Spoiled(next, rounds + 1)
  <2>1. PICK e \in Entries(next) : Misstates(next, e.s)
    BY <1>8 DEF G4, Flag, Violation
  <2> QED BY <1>1, <2>1 DEF Spoiled
<1>9. ASSUME NEW v \in G9(next) PROVE Spoiled(next, rounds + 1)
  <2>1. PICK e \in Entries(next) : Secret(e.s)
    BY DEF G9, Flag
  <2> QED BY <1>1, <2>1 DEF Spoiled
<1>11. ASSUME NEW v \in Evaluate(next), v.error
       PROVE  v.rule = "insufficient" \/ (v.rule \in {"G4", "G9"} /\ Spoiled(next, rounds + 1))
  BY <1>2, <1>5, <1>6, <1>7, <1>8, <1>9, <1>11, EvaluatedBy
<1>12. OnlySpoiled(next, rounds + 1)
  BY <1>11 DEF OnlySpoiled
<1> QED BY <1>10, <1>12 DEF next

(* The facts of the next report are those that were not dropped, each once.      *)
LEMMA FactsCounted ==
  ASSUME NEW r, IsReport(r)
  PROVE  /\ Dropped(r, Found(r)) \in Nat
         /\ Cardinality(Facts(r.sections))
               = Cardinality(Facts(Remediated(r, Found(r)).sections)) + Dropped(r, Found(r))
<1> DEFINE S == r.sections
           T == Remediated(r, Found(r)).sections
           out == {at \in Addresses(S) : ToDrop(r, Found(r), at)}
           f == [at \in Facts(T) |-> <<at[1], Place(r, at[1], at[2])>>]
<1>1. \A k \in DOMAIN S : \A i \in DOMAIN S[k] : Worded(S[k][i])
  BY DEF IsReport, Composed
<1>2. out \subseteq Facts(S)
  <2>1. ASSUME NEW at \in out PROVE At(S, at).kind # "meta"
    <3>1. PICK k \in DOMAIN S : \E i \in DOMAIN S[k] : at = <<k, i>>
      BY DEF Addresses
    <3>2. PICK i \in DOMAIN S[k] : at = <<k, i>>
      BY <3>1
    <3>3. At(S, at) = S[k][i]
      BY <3>2 DEF At
    <3> QED BY <1>1, <3>3, MetaKept DEF Worded
  <2> QED BY <2>1 DEF Facts
<1>3. ASSUME NEW at \in Facts(T)
      PROVE  /\ at = <<at[1], at[2]>> /\ at[1] \in DOMAIN S /\ at[2] \in Places(r, at[1])
             /\ f[at] \in Facts(S) \ out
  <2>1. PICK k \in DOMAIN T : \E n \in DOMAIN T[k] : at = <<k, n>>
    BY DEF Facts, Addresses
  <2>2. PICK n \in DOMAIN T[k] : at = <<k, n>>
    BY <2>1
  <2>3. T[k][n].kind # "meta"
    BY <2>2 DEF Facts, At
  <2>4. k \in DOMAIN S /\ n \in Places(r, k)
    <3>1. (k \in DOMAIN S /\ n \in Places(r, k)) \/ Framed(T[k][n])
      BY RemediatedEach
    <3> QED BY <2>3, <3>1 DEF Framed
  <2>5. PICK i : i = Place(r, k, n)
    OBVIOUS
  <2>6. i \in Kept(r, k) /\ T[k][n] = Mended(S[k][i], RulesAt(r, <<k, i>>))
    BY <2>4, <2>5, RemediatedEach
  <2>7. i \in DOMAIN S[k] /\ ~ToDrop(r, Found(r), <<k, i>>)
    BY <2>6 DEF Kept
  <2>8. S[k][i].kind # "meta"
    BY <1>1, <2>3, <2>4, <2>6, <2>7, MendedEach
  <2>9. <<k, i>> \in Facts(S) \ out
    BY <2>4, <2>7, <2>8 DEF Facts, Addresses, At
  <2>10. f[at] = <<k, i>>
    BY <2>2, <2>5
  <2> QED BY <2>2, <2>4, <2>9, <2>10
<1>4. ASSUME NEW a \in Facts(T), NEW b \in Facts(T), f[a] = f[b] PROVE a = b
  <2>1. a[1] = b[1] /\ Place(r, a[1], a[2]) = Place(r, b[1], b[2])
    BY <1>4
  <2>2. a[1] \in DOMAIN S /\ a[2] \in Places(r, a[1]) /\ b[2] \in Places(r, a[1])
    BY <1>3, <2>1
  <2>3. a[2] = b[2]
    <3>1. PICK k \in DOMAIN S : k = a[1]
      BY <2>2
    <3>2. \A m, n \in Places(r, k) : Place(r, k, m) = Place(r, k, n) => m = n
      BY RemediatedEach
    <3> QED BY <2>1, <2>2, <3>1, <3>2
  <2> QED BY <1>3, <2>1, <2>3
<1>5. ASSUME NEW at \in Facts(S) \ out PROVE \E a \in Facts(T) : f[a] = at
  <2>1. PICK k \in DOMAIN S : \E i \in DOMAIN S[k] : at = <<k, i>>
    BY DEF Facts, Addresses
  <2>2. PICK i \in DOMAIN S[k] : at = <<k, i>>
    BY <2>1
  <2>3. i \in Kept(r, k) /\ S[k][i].kind # "meta"
    BY <2>2 DEF Kept, Facts, At
  <2>4. PICK n \in Places(r, k) : Place(r, k, n) = i
    BY <2>3, RemediatedEach
  <2>5. k \in DOMAIN T /\ n \in DOMAIN T[k] /\ T[k][n] = Mended(S[k][i], RulesAt(r, <<k, i>>))
    BY <2>4, RemediatedEach
  <2>6. T[k][n].kind # "meta"
    BY <1>1, <2>2, <2>3, <2>5, MendedEach
  <2>7. <<k, n>> \in Facts(T)
    BY <2>5, <2>6 DEF Facts, Addresses, At
  <2>8. f[<<k, n>>] = at
    BY <2>2, <2>4, <2>7
  <2> QED BY <2>7, <2>8
<1>6. f \in [Facts(T) -> Facts(S) \ out]
  BY <1>3
<1>7. IsFiniteSet(Facts(T)) /\ IsFiniteSet(Facts(S)) /\ Cardinality(Facts(S)) \in Nat /\ Cardinality(Facts(T)) \in Nat
  BY RemediatedSourced, AddressesFinite DEF Sourced, IsReport
<1>8. Dropped(r, Found(r)) = Cardinality(out)
  BY DEF Dropped
<1> HIDE DEF f, S, T, out
<1>9. f \in Bijection(Facts(T), Facts(S) \ out)
  BY <1>4, <1>5, <1>6 DEF Bijection, Injection, Surjection, IsInjective
<1>10. Cardinality(Facts(S) \ out) = Cardinality(Facts(T))
  BY <1>7, <1>9, FS_Bijection DEF ExistsBijection
<1>11. Cardinality(Facts(S) \ out) = Cardinality(Facts(S)) - Cardinality(out)
  <2>1. Facts(S) \cap out = out
    BY <1>2
  <2> QED BY <1>7, <2>1, FS_Difference
<1>12. Cardinality(out) \in Nat
  BY <1>2, <1>7, FS_Subset, FS_CardinalityType
<1> QED BY <1>7, <1>8, <1>10, <1>11, <1>12 DEF S, T

LEMMA RemediateStep == ASSUME ReportInv, Remediate PROVE ReportInv'
<1> DEFINE next == Remediated(gate.working, Remediable)
<1>0. CASE ~Readable(next)
  <2>1. /\ phase' = "raised" /\ ledger' = ledger /\ limit' = limit /\ ledger \in Ledgers /\ limit \in Limits
    BY <1>0 DEF ReportInv, Remediate, Enter
  <2> QED BY <2>1 DEF ReportInv, OnlyVerifiedIsKept, FailsOnlyWithoutFindings, RemovalsAnnounced
<1> SUFFICES ASSUME Readable(next) PROVE ReportInv'
  BY <1>0
<1>1. /\ phase = "remediate" /\ phase' = "remediate" /\ ledger' = ledger /\ plan' = plan /\ limit' = limit
      /\ report' = report /\ ledger \in Ledgers /\ limit \in Limits /\ BeingMended /\ Remediate
      /\ gate' = [gate EXCEPT !.working = next, !.left = Evaluate(next), !.rounds = @ + 1,
                              !.removed = @ + Dropped(gate.working, Remediable)]
  BY DEF ReportInv, Remediate, Enter
<1>2. /\ Sourced(report) /\ Sourced(gate.working)
      /\ DOMAIN gate = {"working", "initial", "left", "removed", "rounds", "verdict"}
      /\ gate.removed \in Nat /\ gate.rounds \in Nat
      /\ Cardinality(Facts(report.sections)) = Cardinality(Facts(gate.working.sections)) + gate.removed
      /\ gate.left = Evaluate(gate.working) /\ Masked(gate.working.sections, gate.rounds)
  BY <1>1 DEF BeingMended
<1>3. PICK r : r = gate.working
  OBVIOUS
<1>4. Remediable = Found(r)
  BY <1>2, <1>3 DEF Remediable, Found
<1>5. PICK new : new = Remediated(r, Found(r))
  OBVIOUS
<1>6. IsReport(r)
  BY <1>2, <1>3 DEF Sourced
<1>7. Sourced(new)
  BY <1>5, <1>6, RemediatedSourced
<1>8. OnlySpoiled(new, gate.rounds + 1) /\ Masked(new.sections, gate.rounds + 1)
  BY <1>2, <1>3, <1>5, <1>6, RemediatedClean
<1>9. /\ Dropped(r, Found(r)) \in Nat
      /\ Cardinality(Facts(r.sections)) = Cardinality(Facts(new.sections)) + Dropped(r, Found(r))
  BY <1>5, <1>6, FactsCounted
<1>10. Cardinality(Facts(new.sections)) \in Nat
  BY <1>7, AddressesFinite DEF Sourced, IsReport
<1>11. /\ gate'.working = new /\ gate'.left = Evaluate(new) /\ gate'.rounds = gate.rounds + 1
       /\ gate'.removed = gate.removed + Dropped(r, Found(r))
       /\ DOMAIN gate' = {"working", "initial", "left", "removed", "rounds", "verdict"}
  BY <1>1, <1>2, <1>3, <1>4, <1>5
<1>12. Sourced(report)' /\ Sourced(gate.working)' /\ (gate.rounds <= limit)'
  <2>1. limit \in 0..3 /\ gate.rounds < limit
    BY <1>1, ReportAssumption DEF GateSettings, Remediate, MoreRounds
  <2>2. (gate.rounds <= limit)'
    BY <1>1, <1>2, <1>11, <2>1
  <2> QED BY <1>1, <1>2, <1>7, <1>11, <2>2 DEF Sourced, CitedDocs, Cited
<1>13. (gate.left = Evaluate(gate.working))'
  BY <1>1, <1>11, EvaluatedKept
<1>14. BeingMended'
  <2>1. (Cardinality(Facts(report.sections)) = Cardinality(Facts(gate.working.sections)) + gate.removed)'
    BY <1>1, <1>2, <1>3, <1>9, <1>10, <1>11
  <2>2. (OnlySpoiled(gate.working, gate.rounds) /\ Masked(gate.working.sections, gate.rounds))'
    <3>1. PICK n : n = gate.rounds + 1
      OBVIOUS
    <3>2. (OnlySpoiled(new, n)' <=> OnlySpoiled(new, n)) /\ (Masked(new.sections, n)' <=> Masked(new.sections, n))
      BY <1>1, SpoiledKept
    <3>3. OnlySpoiled(new, n)' /\ Masked(new.sections, n)'
      BY <1>8, <3>1, <3>2
    <3>4. gate'.working = new /\ gate'.rounds = n
      BY <1>11, <3>1
    <3> QED BY <3>3, <3>4 DEF OnlySpoiled, Spoiled, Masked
  <2> QED BY <1>2, <1>9, <1>11, <1>12, <1>13, <2>1, <2>2 DEF BeingMended
<1> QED BY <1>1, <1>14 DEF ReportInv, OnlyVerifiedIsKept, FailsOnlyWithoutFindings, RemovalsAnnounced

-----------------------------------------------------------------------------
(* Delivery: the note is one more sentence of framing.                           *)
LEMMA AnnouncedEach ==
  ASSUME NEW r, Sourced(r), NEW n \in Nat
  PROVE  LET S == r.sections
             D == Announced(r, n).sections
         IN /\ Facts(D) = Facts(S) /\ CitedDocs(D) = CitedDocs(S)
            /\ \A s \in SentencesOf(S) : s \in SentencesOf(D)
            /\ \A s \in SentencesOf(D) : s \in SentencesOf(S) \/ (s.kind = "meta" /\ ~Secret(s))
            /\ Announced(r, n).sources = r.sources
            /\ "key_findings" \in DOMAIN S => D["key_findings"] = S["key_findings"]
            /\ n = 0 => D = S
            /\ n > 0 => \E s \in SentencesOf(D) : Removal(n) \in s.labels
<1> DEFINE S == r.sections
           note == Meta({Removal(n)})
           last == IF "summary" \in DOMAIN S THEN S["summary"] ELSE <<>>
           D == [k \in DOMAIN S \cup {"summary"} |-> IF k = "summary" THEN Append(last, note) ELSE S[k]]
<1>1. CASE n = 0
  BY <1>1 DEF Announced
<1>2. CASE n > 0
  <2>1. DOMAIN r = ReportFields /\ \A k \in DOMAIN S : IsList(S[k])
    BY DEF Sourced, IsReport, Composed
  <2>2. Announced(r, n) = [r EXCEPT !.sections = D]
    <3> DEFINE E == [k \in DOMAIN S \cup {"summary"} |->
                       IF k = "summary" THEN Append(IF k \in DOMAIN S THEN S[k] ELSE <<>>, note) ELSE S[k]]
    <3>1. Announced(r, n) = [r EXCEPT !.sections = E]
      BY <1>2 DEF Announced
    <3>2. E = D
      OBVIOUS
    <3> HIDE DEF D, E
    <3> QED BY <3>1, <3>2
  <2>3. Announced(r, n).sections = D /\ Announced(r, n).sources = r.sources
    BY <2>1, <2>2 DEF ReportFields
  <2>4. note.kind = "meta" /\ note.cites = {} /\ Removal(n) \in note.labels /\ ~Secret(note)
    <3>1. Len(Wordless) = 1 /\ note.text = Wordless /\ note.masked = 0
      BY DEF Wordless, Meta
    <3> QED BY <3>1 DEF Meta, Secret
  <2>5. IsList(last)
    <3>1. IsList(<<>>)
      BY DEF IsList
    <3> QED BY <2>1, <3>1
  <2> DEFINE more == Append(last, note)
  <2>6. /\ DOMAIN D = DOMAIN S \cup {"summary"} /\ D["summary"] = more
        /\ \A k \in DOMAIN S \ {"summary"} : D[k] = S[k]
        /\ "summary" \in DOMAIN S => last = S["summary"]
        /\ "summary" \notin DOMAIN S => last = <<>>
    OBVIOUS
  <2> HIDE DEF S, D, last, note
  <2>7. /\ DOMAIN more = 1..(Len(last) + 1) /\ \A i \in DOMAIN last : more[i] = last[i]
        /\ more[Len(last) + 1] = note /\ DOMAIN last = 1..Len(last) /\ Len(last) \in Nat
    BY <2>5, Appended
  <2> HIDE DEF more
  <2>8. \A i \in DOMAIN more : more[i] = note \/ (i \in DOMAIN last /\ more[i] = last[i])
    BY <2>7
  <2>9. (\A i \in DOMAIN last : i \in DOMAIN more) /\ \E i \in DOMAIN more : more[i] = note
    BY <2>7
  <2>10. DOMAIN <<>> = {}
    OBVIOUS
  <2>11. ASSUME NEW k \in DOMAIN D, NEW i \in DOMAIN D[k]
         PROVE  D[k][i] = note \/ (k \in DOMAIN S /\ i \in DOMAIN S[k] /\ D[k][i] = S[k][i])
    BY <2>6, <2>8, <2>10
  <2>12. ASSUME NEW k \in DOMAIN S, NEW i \in DOMAIN S[k]
         PROVE  k \in DOMAIN D /\ i \in DOMAIN D[k] /\ D[k][i] = S[k][i]
    BY <2>6, <2>7, <2>9
  <2>13. Facts(D) = Facts(S)
    <3>1. ASSUME NEW at \in Facts(D) PROVE at \in Facts(S)
      <4>1. PICK k \in DOMAIN D : \E i \in DOMAIN D[k] : at = <<k, i>>
        BY DEF Facts, Addresses
      <4>2. PICK i \in DOMAIN D[k] : at = <<k, i>>
        BY <4>1
      <4>3. D[k][i].kind # "meta"
        BY <4>2 DEF Facts, At
      <4>4. k \in DOMAIN S /\ i \in DOMAIN S[k] /\ D[k][i] = S[k][i]
        BY <2>4, <2>11, <4>3
      <4> QED BY <4>2, <4>3, <4>4 DEF Facts, Addresses, At
    <3>2. ASSUME NEW at \in Facts(S) PROVE at \in Facts(D)
      <4>1. PICK k \in DOMAIN S : \E i \in DOMAIN S[k] : at = <<k, i>>
        BY DEF Facts, Addresses
      <4>2. PICK i \in DOMAIN S[k] : at = <<k, i>>
        BY <4>1
      <4>3. S[k][i].kind # "meta"
        BY <4>2 DEF Facts, At
      <4>4. k \in DOMAIN D /\ i \in DOMAIN D[k] /\ D[k][i] = S[k][i]
        BY <2>12
      <4> QED BY <4>2, <4>3, <4>4 DEF Facts, Addresses, At
    <3> QED BY <3>1, <3>2
  <2>14. /\ \A s \in SentencesOf(D) : s = note \/ s \in SentencesOf(S)
         /\ \A s \in SentencesOf(S) : s \in SentencesOf(D)
         /\ note \in SentencesOf(D)
    <3>1. ASSUME NEW s \in SentencesOf(D) PROVE s = note \/ s \in SentencesOf(S)
      <4>1. PICK k \in DOMAIN D : s \in ToSet(D[k])
        BY DEF SentencesOf
      <4>2. PICK i \in DOMAIN D[k] : s = D[k][i]
        BY <4>1 DEF ToSet
      <4> QED BY <2>11, <4>2 DEF SentencesOf, ToSet
    <3>2. ASSUME NEW s \in SentencesOf(S) PROVE s \in SentencesOf(D)
      <4>1. PICK k \in DOMAIN S : s \in ToSet(S[k])
        BY DEF SentencesOf
      <4>2. PICK i \in DOMAIN S[k] : s = S[k][i]
        BY <4>1 DEF ToSet
      <4> QED BY <2>12, <4>2 DEF SentencesOf, ToSet
    <3>3. note \in SentencesOf(D)
      BY <2>6, <2>9 DEF SentencesOf, ToSet
    <3> QED BY <3>1, <3>2, <3>3
  <2>15. CitedDocs(D) = CitedDocs(S)
    <3>1. Cited(note) = {}
      BY <2>4 DEF Cited
    <3>2. UNION {Cited(s) : s \in SentencesOf(D)} = UNION {Cited(s) : s \in SentencesOf(S)}
      BY <2>14, <3>1
    <3> QED BY <3>2 DEF CitedDocs
  <2>16. "key_findings" \in DOMAIN S => D["key_findings"] = S["key_findings"]
    BY <2>6
  <2> QED BY <1>2, <2>3, <2>4, <2>13, <2>14, <2>15, <2>16 DEF S
<1> QED BY <1>1, <1>2

(* The verdict: when no other error is left, a report fails exactly when no key  *)
(* finding cites the ledger and applies, or a sentence was spoiled by masking.   *)
LEMMA Judged ==
  ASSUME NEW r, IsReport(r), NEW n, OnlySpoiled(r, n)
  PROVE  /\ "key_findings" \in DOMAIN r.sections
         /\ (\E v \in Evaluate(r) : v.error) <=>
               \/ ~\E s \in ToSet(r.sections["key_findings"]) :
                      s.kind = "fact" /\ Cited(s) # {} /\ \A k \in Cited(s) : ~ledger[k].stale
               \/ Spoiled(r, n)
<1> DEFINE S == r.sections
<1>1. ASSUME NEW k \in Required PROVE k \in DOMAIN S
  <2>1. SUFFICES ASSUME k \notin DOMAIN S PROVE FALSE
    OBVIOUS
  <2> DEFINE v == Violation("G1", TRUE, None, k)
  <2>2. v \in G1(r)
    BY <2>1 DEF G1
  <2>3. v.rule = "G1" /\ v.error
    BY DEF Violation
  <2> HIDE DEF v
  <2>4. v \in Evaluate(r)
    BY <2>2 DEF Evaluate
  <2> QED BY <2>3, <2>4 DEF OnlySpoiled
<1>2. "key_findings" \in DOMAIN S
  BY <1>1, Keys DEF Required
<1>3. ASSUME NEW s \in ToSet(S["key_findings"]), s.kind = "fact"
      PROVE  s.cites \subseteq DOMAIN ledger /\ \A c \in Cited(s) : ~ledger[c].stale
  <2>1. PICK i \in DOMAIN S["key_findings"] : s = S["key_findings"][i]
    BY DEF ToSet
  <2>2. PICK at : at = <<"key_findings", i>>
    OBVIOUS
  <2>3. at \in Addresses(S) /\ At(S, at) = s
    BY <1>2, <2>1, <2>2 DEF Addresses, At
  <2>4. PICK e \in Entries(r) : e.at = at /\ e.s = s
    BY <2>3, EntryEach
  <2>5. s.cites \subseteq DOMAIN ledger
    <3>1. SUFFICES ASSUME ~(s.cites \subseteq DOMAIN ledger) PROVE FALSE
      OBVIOUS
    <3> DEFINE v == Violation("G3", TRUE, e.at, None)
    <3>2. v \in G3(r)
      BY <1>3, <2>4, <3>1 DEF G3, Flag
    <3>3. v.rule = "G3" /\ v.error
      BY DEF Violation
    <3> HIDE DEF v
    <3>4. v \in Evaluate(r)
      BY <3>2 DEF Evaluate
    <3> QED BY <3>3, <3>4 DEF OnlySpoiled
  <2>6. ASSUME NEW c \in Cited(s), ledger[c].stale PROVE FALSE
    <3> DEFINE v == Violation("G12", TRUE, e.at, None)
    <3>1. v \in G12(r)
      BY <2>4, <2>6 DEF G12, Flag
    <3>2. v.rule = "G12" /\ v.error
      BY DEF Violation
    <3> HIDE DEF v
    <3>3. v \in Evaluate(r)
      BY <3>1 DEF Evaluate
    <3> QED BY <3>2, <3>3 DEF OnlySpoiled
  <2> QED BY <2>5, <2>6
<1>4. (\E v \in Evaluate(r) : v.error) <=> ~Supported(r) \/ Spoiled(r, n)
  <2>1. ASSUME NEW v \in Evaluate(r), v.error, ~Spoiled(r, n) PROVE ~Supported(r)
    <3>1. v.rule = "insufficient"
      BY <2>1 DEF OnlySpoiled
    <3>2. v \in G1(r)
      BY <3>1, EvaluatedBy
    <3> QED BY <3>1, <3>2 DEF G1, Violation
  <2>2. ASSUME ~Supported(r) PROVE \E v \in Evaluate(r) : v.error
    <3> DEFINE v == Violation("insufficient", TRUE, None, None)
    <3>1. v \in G1(r)
      BY <1>2, <2>2 DEF G1
    <3>2. v.error
      BY DEF Violation
    <3> HIDE DEF v
    <3> QED BY <3>1, <3>2 DEF Evaluate
  <2>3. ASSUME Spoiled(r, n) PROVE \E v \in Evaluate(r) : v.error
    <3>1. PICK s \in SentencesOf(S) : Secret(s) \/ Misstates(r, s)
      BY <2>3 DEF Spoiled
    <3>2. PICK at \in Addresses(S) : At(S, at) = s
      <4>1. PICK k \in DOMAIN S : \E i \in DOMAIN S[k] : s = S[k][i]
        BY DEF SentencesOf, ToSet
      <4>2. PICK i \in DOMAIN S[k] : s = S[k][i]
        BY <4>1
      <4>3. <<k, i>> \in Addresses(S) /\ At(S, <<k, i>>) = s
        BY <4>2 DEF Addresses, At
      <4> QED BY <4>3
    <3>3. PICK e \in Entries(r) : e.at = at /\ e.s = s
      BY <3>2, EntryEach
    <3> DEFINE v(rule) == Violation(rule, TRUE, e.at, None)
    <3>4. v("G4") \in G4(r) \/ v("G9") \in G9(r)
      BY <3>1, <3>3 DEF G4, G9, Flag
    <3>5. v("G4").error /\ v("G9").error
      BY DEF Violation
    <3> HIDE DEF v
    <3> QED BY <3>4, <3>5 DEF Evaluate
  <2> QED BY <2>1, <2>2, <2>3
<1>5. Supported(r) <=> \E s \in ToSet(S["key_findings"]) :
                           s.kind = "fact" /\ Cited(s) # {} /\ \A k \in Cited(s) : ~ledger[k].stale
  BY <1>3 DEF Supported, Cited
<1> QED BY <1>2, <1>4, <1>5

LEMMA DeliverStep == ASSUME ReportInv, Deliver PROVE ReportInv'
<1>1. /\ phase = "remediate" /\ phase' = "done" /\ ledger' = ledger /\ plan' = plan /\ limit' = limit
      /\ report' = report /\ ledger \in Ledgers /\ limit \in Limits /\ BeingMended /\ ~MoreRounds
      /\ gate' = [gate EXCEPT !.working = Announced(@, gate.removed), !.verdict = Verdict]
  BY DEF ReportInv, Deliver, Enter
<1>2. /\ Sourced(report) /\ Sourced(gate.working)
      /\ DOMAIN gate = {"working", "initial", "left", "removed", "rounds", "verdict"}
      /\ gate.removed \in Nat /\ gate.rounds \in Nat /\ gate.rounds <= limit
      /\ Cardinality(Facts(report.sections)) = Cardinality(Facts(gate.working.sections)) + gate.removed
      /\ gate.left = Evaluate(gate.working)
      /\ gate.rounds > 0 => OnlySpoiled(gate.working, gate.rounds)
  BY <1>1 DEF BeingMended
<1>3. PICK r : r = gate.working
  OBVIOUS
<1>4. PICK n \in Nat : n = gate.removed
  BY <1>2
<1>5. PICK out : out = Announced(r, n)
  OBVIOUS
<1>6. /\ Facts(out.sections) = Facts(r.sections) /\ CitedDocs(out.sections) = CitedDocs(r.sections)
      /\ out.sources = r.sources
      /\ \A s \in SentencesOf(r.sections) : s \in SentencesOf(out.sections)
      /\ \A s \in SentencesOf(out.sections) : s \in SentencesOf(r.sections) \/ (s.kind = "meta" /\ ~Secret(s))
      /\ "key_findings" \in DOMAIN r.sections => out.sections["key_findings"] = r.sections["key_findings"]
      /\ n = 0 => out.sections = r.sections
      /\ n > 0 => \E s \in SentencesOf(out.sections) : Removal(n) \in s.labels
  BY <1>2, <1>3, <1>5, AnnouncedEach
<1>7. /\ gate'.working = out /\ gate'.verdict = Verdict
  BY <1>1, <1>2, <1>3, <1>4, <1>5
<1>8. limit \in 0..3
  BY <1>1, ReportAssumption DEF GateSettings
<1>9. RemovalsAnnounced'
  <2>1. Cardinality(Facts(out.sections)) \in Nat
    BY <1>2, <1>3, <1>6, AddressesFinite DEF Sourced, IsReport
  <2>2. Cardinality(Facts(report.sections)) - Cardinality(Facts(out.sections)) = n
    BY <1>2, <1>3, <1>4, <1>6, <2>1
  <2>3. n > 0 <=> \E s \in SentencesOf(out.sections) : Removal(n) \in s.labels
    <3>1. ASSUME n = 0, NEW s \in SentencesOf(out.sections), Removal(n) \in s.labels PROVE FALSE
      <4>1. s \in SentencesOf(r.sections)
        BY <1>6, <3>1
      <4>2. PICK k \in DOMAIN r.sections : \E i \in DOMAIN r.sections[k] : s = r.sections[k][i]
        BY <4>1 DEF SentencesOf, ToSet
      <4>3. PICK i \in DOMAIN r.sections[k] : s = r.sections[k][i]
        BY <4>2
      <4>4. \A l \in s.labels : l[1] # "removed"
        BY <1>2, <1>3, <4>3 DEF Sourced, IsReport, Unannounced
      <4> QED BY <3>1, <4>4 DEF Removal
    <3>2. n = 0 \/ n > 0
      OBVIOUS
    <3> QED BY <1>6, <3>1, <3>2
  <2>4. CitedDocs(out.sections)' = CitedDocs(out.sections)
    BY <1>1 DEF CitedDocs, Cited
  <2>5. out.sources = CitedDocs(out.sections)
    BY <1>2, <1>3, <1>6 DEF Sourced
  <2>6. /\ Cardinality({at \in Addresses(report.sections) : At(report.sections, at).kind # "meta"})
             - Cardinality({at \in Addresses(out.sections) : At(out.sections, at).kind # "meta"}) = n
    BY <2>2 DEF Facts
  <2>7. Delivered' = out.sections
    BY <1>7 DEF Delivered
  <2> QED BY <1>1, <1>7, <2>3, <2>4, <2>5, <2>6, <2>7 DEF RemovalsAnnounced
<1>10. FailsOnlyWithoutFindings'
  <2>1. SUFFICES ASSUME limit > 0
                 PROVE  gate'.verdict = "fail" <=>
                           \/ ~\E s \in ToSet(Delivered'["key_findings"]) :
                                  s.kind = "fact" /\ Cited(s)' # {} /\ \A k \in Cited(s)' : ~ledger'[k].stale
                           \/ \E s \in SentencesOf(Delivered') :
                                  s.masked = limit' /\ (Secret(s) \/ Misstates(gate.working, s)')
    BY <1>1 DEF FailsOnlyWithoutFindings, Secret
  <2>2. OnlySpoiled(r, limit)
    <3>1. gate.rounds = limit \/ Remediable = {}
      BY <1>1, <1>2, <1>8 DEF MoreRounds
    <3>2. CASE Remediable = {}
      BY <1>2, <1>3, <3>2 DEF Remediable, OnlySpoiled
    <3>3. CASE gate.rounds = limit
      BY <1>2, <1>3, <2>1, <3>3
    <3> QED BY <3>1, <3>2, <3>3
  <2>3. /\ "key_findings" \in DOMAIN r.sections
        /\ (\E v \in Evaluate(r) : v.error) <=>
              \/ ~\E s \in ToSet(r.sections["key_findings"]) :
                     s.kind = "fact" /\ Cited(s) # {} /\ \A k \in Cited(s) : ~ledger[k].stale
              \/ Spoiled(r, limit)
    BY <1>2, <1>3, <2>2, Judged DEF Sourced
  <2>4. Verdict = "fail" <=> \E v \in Evaluate(r) : v.error
    BY <1>2, <1>3 DEF Verdict
  <2>5. Delivered'["key_findings"] = r.sections["key_findings"] /\ Delivered' = out.sections
    BY <1>6, <1>7, <2>3 DEF Delivered
  <2>6. \A s : Cited(s)' = Cited(s)
    BY <1>1 DEF Cited
  <2>7. ASSUME NEW s PROVE Misstates(out, s)' <=> Misstates(r, s)
    <3>1. Misstates(out, s)' = Misstates(out, s)
      BY <1>1, MisstatesKept
    <3>2. \A noun : LedgerExpected(out, s, noun) = LedgerExpected(r, s, noun)
      BY <1>6 DEF LedgerExpected
    <3>3. Miscounts(out, s) = Miscounts(r, s)
      BY <3>2 DEF Miscounts
    <3> QED BY <3>1, <3>3 DEF Misstates
  <2>8. ASSUME NEW s, s.kind = "meta" PROVE ~Misstates(r, s)
    BY <2>8 DEF Misstates, Checked
  <2>9. Spoiled(r, limit) <=>
           \E s \in SentencesOf(out.sections) : s.masked = limit /\ (Secret(s) \/ Misstates(out, s)')
    BY <1>6, <2>7, <2>8 DEF Spoiled
  <2>10. \A s : Misstates(gate.working, s)' = Misstates(out, s)'
    BY <1>7 DEF Misstates, Miscounts, LedgerExpected
  <2> QED BY <1>1, <1>7, <2>3, <2>4, <2>5, <2>6, <2>9, <2>10
<1> QED BY <1>1, <1>9, <1>10 DEF ReportInv, OnlyVerifiedIsKept

LEMMA StutterStep == ASSUME ReportInv, UNCHANGED vars PROVE ReportInv'
<1>1. /\ ledger' = ledger /\ candidates' = candidates /\ plan' = plan /\ limit' = limit /\ phase' = phase
      /\ report' = report /\ verify' = verify /\ rewritten' = rewritten /\ checks' = checks /\ gate' = gate
  BY DEF vars
<1>2. BeingVerified' <=> BeingVerified
  BY <1>1 DEF BeingVerified, Numbered, Draft, Batch, InHand
<1>3. Sourced(report)' <=> Sourced(report)
  BY <1>1 DEF Sourced, CitedDocs, Cited
<1>4. BeingMended' <=> BeingMended
  <2>1. Sourced(gate.working)' <=> Sourced(gate.working)
    BY <1>1 DEF Sourced, CitedDocs, Cited
  <2>2. PICK r : r = gate.working
    OBVIOUS
  <2>3. Evaluate(gate.working)' = Evaluate(gate.working)
    BY <1>1, <2>2, EvaluatedKept
  <2>4. PICK n : n = gate.rounds
    OBVIOUS
  <2>5. (OnlySpoiled(r, n)' <=> OnlySpoiled(r, n)) /\ (Masked(r.sections, n)' <=> Masked(r.sections, n))
    BY <1>1, SpoiledKept
  <2>6. /\ OnlySpoiled(gate.working, gate.rounds)' <=> OnlySpoiled(gate.working, gate.rounds)
        /\ Masked(gate.working.sections, gate.rounds)' <=> Masked(gate.working.sections, gate.rounds)
    BY <1>1, <2>2, <2>3, <2>4, <2>5 DEF OnlySpoiled, Spoiled, Masked
  <2> QED BY <1>1, <1>3, <2>1, <2>3, <2>6 DEF BeingMended
<1>5. OnlyVerifiedIsKept' <=> OnlyVerifiedIsKept
  BY <1>1 DEF OnlyVerifiedIsKept, Leading, Applying
<1>6. FailsOnlyWithoutFindings' <=> FailsOnlyWithoutFindings
  <2>1. PICK r : r = gate.working
    OBVIOUS
  <2>2. \A s : Misstates(r, s)' = Misstates(r, s)
    BY <1>1, MisstatesKept
  <2>3. \A s : Misstates(gate.working, s)' = Misstates(gate.working, s)
    BY <1>1, <2>1, <2>2
  <2> QED BY <1>1, <2>3 DEF FailsOnlyWithoutFindings, Delivered, Cited, Secret
<1>7. RemovalsAnnounced' <=> RemovalsAnnounced
  BY <1>1 DEF RemovalsAnnounced, Delivered, CitedDocs, Cited
<1>8. Masked(report.sections, 0)' <=> Masked(report.sections, 0)
  BY <1>1 DEF Masked, Secret
<1> QED BY <1>1, <1>2, <1>3, <1>4, <1>5, <1>6, <1>7, <1>8 DEF ReportInv

-----------------------------------------------------------------------------
(* What a report is at every stage (agent/nodes/report.py, gate/rules.py): the   *)
(* invariant the three promises below rest on.                                   *)
THEOREM ReportInductive == Spec => []ReportInv
<1>1. Init => ReportInv
  BY DEF Init, ReportInv, OnlyVerifiedIsKept, FailsOnlyWithoutFindings, RemovalsAnnounced
<1>2. ReportInv /\ [Next]_vars => ReportInv'
  <2> SUFFICES ASSUME ReportInv, [Next]_vars PROVE ReportInv'
    OBVIOUS
  <2>1. CASE Synthesize
    BY <2>1, SynthesizeStep
  <2>2. CASE \E b \in DOMAIN verify.batches : AskVerifier(b)
    BY <2>2, AskStep
  <2>3. CASE Rewrite
    BY <2>3, RewriteStep
  <2>4. CASE Withhold
    BY <2>4, WithholdStep
  <2>5. CASE Review
    BY <2>5, ReviewStep
  <2>6. CASE OpenGate
    BY <2>6, OpenGateStep
  <2>7. CASE Remediate
    BY <2>7, RemediateStep
  <2>8. CASE Deliver
    BY <2>8, DeliverStep
  <2>9. CASE UNCHANGED vars
    BY <2>9, StutterStep
  <2> QED BY <2>1, <2>2, <2>3, <2>4, <2>5, <2>6, <2>7, <2>8, <2>9 DEF Next
<1> QED BY <1>1, <1>2, PTL DEF Spec

(* Verification fails closed: what a drafted report brings to review was affirmed*)
(* in the draft it stands in, and a listed report brings every finding that      *)
(* applies (agent/nodes/report.py, _verify and fallback_report).                 *)
THEOREM OnlyVerifiedHolds == Spec => []OnlyVerifiedIsKept
<1>1. ReportInv => OnlyVerifiedIsKept
  BY DEF ReportInv
<1> QED BY <1>1, ReportInductive, PTL

(* For any number of rounds but none, the gate delivers a report as failed only  *)
(* when no cited finding that applies is left, or when a sentence it masked in   *)
(* every round is still sensitive or misstates a number (gate/runner.py).        *)
THEOREM FailsOnlyHolds == Spec => []FailsOnlyWithoutFindings
<1>1. ReportInv => FailsOnlyWithoutFindings
  BY DEF ReportInv
<1> QED BY <1>1, ReportInductive, PTL

(* What the rounds removed is announced with its number, and the source list is  *)
(* the one of what is delivered (gate/runner.py, run_gate and _remediate).       *)
THEOREM RemovalsAnnouncedHolds == Spec => []RemovalsAnnounced
<1>1. ReportInv => RemovalsAnnounced
  BY DEF ReportInv
<1> QED BY <1>1, ReportInductive, PTL
=============================================================================
