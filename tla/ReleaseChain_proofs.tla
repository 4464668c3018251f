------------------------ MODULE ReleaseChain_proofs ------------------------
(***************************************************************************)
(* What the benchmark chain keeps for any library, any number of requests  *)
(* at the same time, and any number of edits, bootstraps and crashes.      *)
(*                                                                         *)
(* Guarded says that a program has one step before another: a decision is  *)
(* weighed after its own packet and its own review were written, so that   *)
(* what the files said before the request does not count.  Backed says of  *)
(* each request that what it relies on stood at some time since somebody   *)
(* was at work; Loneness, of a request nobody disturbed, step by step what *)
(* it knows and what it has put on file.                                   *)
(***************************************************************************)
EXTENDS ReleaseChain, TLAPS

RecStatus   == {"measured", "partially_populated", "foundation_ready"}
FoundStatus == {"blocked", "measured_ready", "foundation_ready", "population_incomplete", "measurement_incomplete"}
Smokes      == {"missing", "failed", "bootstrap_only", "passed"}
Decisions   == {"benchmark_evidence_incomplete", "hold_runpod_smoke_pending", "hold_review_pending",
                "ready_for_default_review"}

LEMMA RecordIs == RecordStatus \in RecStatus
BY DEF RecordStatus, RecStatus

LEMMA FoundationIs ==
  /\ FoundationStatus \in FoundStatus
  /\ FoundationStatus = "measured_ready" <=> FoundationOk /\ RecordStatus = "measured"
<1> DEFINE r == RecordStatus
<1>0. r \in RecStatus
  BY RecordIs
<1> HIDE DEF r
<1>1. CASE ~FoundationOk
  <2>1. FoundationStatus = "blocked"
    BY <1>1 DEF FoundationStatus
  <2> QED BY <1>1, <2>1 DEF FoundStatus
<1>2. CASE FoundationOk /\ r = "measured"
  <2>1. FoundationStatus = "measured_ready"
    BY <1>2 DEF FoundationStatus, r
  <2> QED BY <1>2, <2>1 DEF FoundStatus, r
<1>3. CASE FoundationOk /\ r = "foundation_ready"
  <2>1. FoundationStatus = "foundation_ready"
    BY <1>3 DEF FoundationStatus, r
  <2> QED BY <1>3, <2>1 DEF FoundStatus, r
<1>4. CASE FoundationOk /\ r = "partially_populated"
  <2>1. FoundationStatus \in {"population_incomplete", "measurement_incomplete"}
    BY <1>4 DEF FoundationStatus, r
  <2> QED BY <1>4, <2>1 DEF FoundStatus, r
<1> QED BY <1>0, <1>1, <1>2, <1>3, <1>4 DEF RecStatus

PodPasses == pod.summary = "passing" /\ pod.rawprep = "present" /\ pod.single = "decoded"

LEMMA NoBlocker == ASSUME pod \in Pod PROVE SmokeBlockers = {} <=> PodPasses
<1> DEFINE single == CASE pod.single = "missing"   -> {"single_missing"}
                       [] pod.single = "failing"   -> {"single_not_ok"}
                       [] pod.single = "unsampled" -> {"sample_missing"}
                       [] pod.single = "undecoded" -> {"sample_failed"}
                       [] pod.single = "decoded"   -> {}
<1>1. single = {} <=> pod.single = "decoded"
  <2>1. CASE pod.single = "missing"
    BY <2>1
  <2>2. CASE pod.single = "failing"
    BY <2>2
  <2>3. CASE pod.single = "unsampled"
    BY <2>3
  <2>4. CASE pod.single = "undecoded"
    BY <2>4
  <2>5. CASE pod.single = "decoded"
    BY <2>5
  <2> QED BY <2>1, <2>2, <2>3, <2>4, <2>5 DEF Pod
<1>2. SmokeBlockers =
        (IF pod.summary = "missing" THEN {"summary_missing"} ELSE {}) \cup
        (IF pod.summary = "failing" THEN {"check_failed"} ELSE {}) \cup
        (IF pod.rawprep = "missing" THEN {"rawprep_missing"} ELSE {}) \cup single
  BY DEF SmokeBlockers
<1> HIDE DEF single
<1> QED BY <1>1, <1>2 DEF Pod, PodPasses

LEMMA SmokeIs ==
  ASSUME pod \in Pod
  PROVE  /\ SmokeStatus \in Smokes
         /\ SmokeStatus = "passed" <=> PodPasses
<1> DEFINE b == SmokeBlockers
           Missing == {"summary_missing", "rawprep_missing", "single_missing"}
<1> HIDE DEF b, Missing
<1>0. SmokeStatus = CASE b = {} -> "passed"
          [] b = {"sample_missing"} -> "bootstrap_only"
          [] b # {} /\ b \subseteq Missing -> "missing"
          [] OTHER -> "failed"
  BY DEF SmokeStatus, b, Missing
<1>1. b = {} <=> PodPasses
  BY NoBlocker DEF b
<1>2. CASE b = {}
  <2>1. SmokeStatus = "passed"
    BY <1>0, <1>2
  <2> QED BY <1>1, <1>2, <2>1 DEF Smokes
<1>3. CASE b = {"sample_missing"}
  <2>1. ~(b \subseteq Missing)
    BY <1>3 DEF Missing
  <2>2. SmokeStatus = "bootstrap_only"
    BY <1>0, <1>3, <2>1
  <2> QED BY <1>1, <1>3, <2>2 DEF Smokes
<1>4. CASE b # {} /\ b # {"sample_missing"} /\ b \subseteq Missing
  <2>1. SmokeStatus = "missing"
    BY <1>0, <1>4
  <2> QED BY <1>1, <1>4, <2>1 DEF Smokes
<1>5. CASE b # {} /\ b # {"sample_missing"} /\ ~(b \subseteq Missing)
  <2>1. SmokeStatus = "failed"
    BY <1>0, <1>5
  <2> QED BY <1>1, <1>5, <2>1 DEF Smokes
<1> QED BY <1>2, <1>3, <1>4, <1>5

LEMMA DecisionIs ==
  ASSUME NEW p, NEW r
  PROVE  Decision(p, r) =
           IF p.benchmark # "measured" \/ p.foundation # "measured_ready" \/ r.report # "measured"
             THEN "benchmark_evidence_incomplete"
             ELSE IF r.smoke # "passed" THEN "hold_runpod_smoke_pending"
             ELSE IF r.ready THEN "ready_for_default_review" ELSE "hold_review_pending"
<1> DEFINE Incomplete == p.benchmark # "measured" \/ p.foundation # "measured_ready" \/ r.report # "measured"
<1>1. CASE Incomplete
  BY <1>1 DEF Decision
<1>2. CASE ~Incomplete
  BY <1>2 DEF Decision
<1> QED BY <1>1, <1>2

-----------------------------------------------------------------------------
\* An entry is an only one, and a manifest that has entries is there.
Catalogued ==
  \A scope \in Scope :
    /\ manifest[scope].entries # {} => manifest[scope].exists
    /\ \A e, f \in manifest[scope].entries : e.id = f.id => e = f

LibraryOK == LibraryTypeOK /\ Catalogued

\* What a foundation that is measured_ready rests on.
LEMMA FoundationRests ==
  ASSUME LibraryTypeOK, FoundationStatus = "measured_ready"
  PROVE  EvidenceComplete
<1>1. FoundationOk /\ RecordStatus = "measured"
  BY FoundationIs
<1>2. /\ manifest["single"].entries # {} /\ Tri \subseteq Covered("tri")
      /\ \A scope \in Scope : Counted(scope) = manifest[scope].entries
  BY <1>1 DEF RecordStatus
<1>3. Covered("single") # {}
  BY <1>2 DEF Covered
<1>4. ASSUME NEW scope \in Scope, NEW e \in manifest[scope].entries
      PROVE  /\ e.path # NoPath
             /\ result[e.path] = [status |-> "measured", id |-> e.id]
             /\ IF e.id \in Single THEN e.sources # 0 ELSE e.sources = 3
  <2>1. e \in Entry /\ result \in [Sample -> Measurement]
    BY DEF LibraryTypeOK, Manifest
  <2>2. e.path # NoPath /\ result[e.path].status = "measured"
    BY <1>2 DEF Counted, Declared
  <2>3. ~SourcesInvalid(e) /\ result[e.path].id = e.id
    BY <1>1, <2>2 DEF FoundationOk, EntryInvalid, BadReference
  <2>4. result[e.path] \in Measurement
    BY <2>1, <2>2 DEF Entry
  <2> QED BY <2>2, <2>3, <2>4 DEF Measurement, SourcesInvalid
<1> QED BY <1>2, <1>3, <1>4 DEF EvidenceComplete

\* And complete evidence is found to be complete.
LEMMA EvidenceFound ==
  ASSUME LibraryOK, EvidenceComplete
  PROVE  FoundationStatus = "measured_ready" /\ RecordStatus = "measured"
<1>0. ASSUME NEW scope \in Scope, NEW e \in manifest[scope].entries
      PROVE  /\ e.path # NoPath /\ result[e.path].status = "measured" /\ result[e.path].id = e.id
             /\ IF e.id \in Single THEN e.sources # 0 ELSE e.sources = 3
  <2>1. /\ e.path # NoPath
        /\ result[e.path] = [status |-> "measured", id |-> e.id]
        /\ IF e.id \in Single THEN e.sources # 0 ELSE e.sources = 3
    BY DEF EvidenceComplete
  <2> QED BY <2>1
<1>1. ASSUME NEW scope \in Scope
      PROVE  Counted(scope) = manifest[scope].entries
  <2>1. \A e : e \in manifest[scope].entries => e.path # NoPath /\ result[e.path].status = "measured"
    BY <1>0
  <2> QED BY <2>1 DEF Counted, Declared
<1>2. manifest["single"].entries # {} /\ Tri \subseteq Covered("tri")
  BY DEF EvidenceComplete, Covered
<1>3. RecordStatus = "measured"
  BY <1>1, <1>2 DEF RecordStatus
<1>4. manifest["tri"].entries # {}
  BY <1>2, LibraryAssumption DEF Covered
<1>5. \A scope \in Scope : manifest[scope].exists
  BY <1>2, <1>4 DEF LibraryOK, Catalogued, Scope
<1>6. ASSUME NEW scope \in Scope, NEW e \in manifest[scope].entries
      PROVE  ~EntryInvalid(scope, e)
  <2>1. /\ e.path # NoPath /\ result[e.path].status = "measured" /\ result[e.path].id = e.id
        /\ IF e.id \in Single THEN e.sources # 0 ELSE e.sources = 3
    BY <1>0
  <2>2. ~ \E other \in manifest[scope].entries \ {e} : other.id = e.id
    BY DEF LibraryOK, Catalogued
  <2> QED BY <2>1, <2>2 DEF EntryInvalid, SourcesInvalid, BadReference
<1>7. FoundationOk
  BY <1>5, <1>6 DEF FoundationOk
<1> QED BY <1>3, <1>7, FoundationIs

-----------------------------------------------------------------------------
\* The order of steps in a program.
Steps == {"empty", "copy", "single", "tri", "manifest", "stub", "run", "bridge", "batch",
          "count", "record", "report", "foundation", "smoke", "assess", "look", "gate", "judge", "review",
          "packet", "weigh", "decision"}

Has(s, x) == \E i \in 1..Len(s) : s[i] = x

\* Before y comes an x.
Guarded(s, y, x) == \A i \in 1..Len(s) : s[i] = y => \E k \in 1..(i - 1) : s[k] = x

\* Records are counted before they are written, and a decision is weighed after the
\* request has written packet and review of its own.
Ordered(s) ==
  /\ s \in Seq(Steps)
  /\ Guarded(s, "record", "count") /\ Guarded(s, "weigh", "packet") /\ Guarded(s, "weigh", "review")

LEMMA ConcatIs ==
  ASSUME NEW s \in Seq(Steps), NEW t \in Seq(Steps)
  PROVE  /\ s \o t \in Seq(Steps) /\ Len(s \o t) = Len(s) + Len(t) /\ Len(s) \in Nat /\ Len(t) \in Nat
         /\ \A i \in 1..Len(s) : (s \o t)[i] = s[i]
         /\ \A i \in 1..Len(t) : (s \o t)[Len(s) + i] = t[i]
         /\ \A i \in 1..Len(s \o t) : i \in 1..Len(s) \/ (i - Len(s) \in 1..Len(t) /\ (s \o t)[i] = t[i - Len(s)])
BY DEF Steps

LEMMA HasConcat ==
  ASSUME NEW s \in Seq(Steps), NEW t \in Seq(Steps), NEW x
  PROVE  (Has(s, x) \/ Has(t, x)) => Has(s \o t, x)
<1>0. Len(s \o t) = Len(s) + Len(t) /\ Len(s) \in Nat /\ Len(t) \in Nat
  BY ConcatIs
<1>1. ASSUME Has(s, x) PROVE Has(s \o t, x)
  <2>1. PICK i \in 1..Len(s) : s[i] = x
    BY <1>1 DEF Has
  <2>2. (s \o t)[i] = x /\ i \in 1..Len(s \o t)
    BY <2>1, <1>0, ConcatIs
  <2> QED BY <2>2 DEF Has
<1>2. ASSUME Has(t, x) PROVE Has(s \o t, x)
  <2>1. PICK i \in 1..Len(t) : t[i] = x
    BY <1>2 DEF Has
  <2>2. (s \o t)[Len(s) + i] = x /\ Len(s) + i \in 1..Len(s \o t)
    BY <2>1, <1>0, ConcatIs
  <2> QED BY <2>2 DEF Has
<1> QED BY <1>1, <1>2

LEMMA GuardedConcat ==
  ASSUME NEW s \in Seq(Steps), NEW t \in Seq(Steps), NEW x, NEW y,
         Guarded(s, y, x), Guarded(t, y, x) \/ Has(s, x)
  PROVE  Guarded(s \o t, y, x)
<1>0. Len(s \o t) = Len(s) + Len(t) /\ Len(s) \in Nat /\ Len(t) \in Nat
  BY ConcatIs
<1> SUFFICES ASSUME NEW i \in 1..Len(s \o t), (s \o t)[i] = y
             PROVE  \E k \in 1..(i - 1) : (s \o t)[k] = x
  BY DEF Guarded
<1>1. CASE i \in 1..Len(s)
  <2>1. s[i] = y
    BY <1>1, ConcatIs
  <2>2. PICK k \in 1..(i - 1) : s[k] = x
    BY <1>1, <2>1 DEF Guarded
  <2>3. k \in 1..Len(s)
    BY <1>0, <1>1
  <2> QED BY <2>2, <2>3, ConcatIs
<1>2. CASE i \notin 1..Len(s)
  <2> DEFINE m == i - Len(s)
  <2>1. m \in 1..Len(t) /\ t[m] = y /\ i = Len(s) + m
    BY <1>0, <1>2, ConcatIs
  <2>2. CASE Has(s, x)
    <3>1. PICK k \in 1..Len(s) : s[k] = x
      BY <2>2 DEF Has
    <3>2. k \in 1..(i - 1) /\ (s \o t)[k] = x
      BY <1>0, <2>1, <3>1, ConcatIs
    <3> QED BY <3>2
  <2>3. CASE Guarded(t, y, x)
    <3> HIDE DEF m
    <3>1. PICK k \in 1..(m - 1) : t[k] = x
      BY <2>1, <2>3 DEF Guarded
    <3>2. k \in 1..Len(t) /\ Len(s) + k \in 1..(i - 1)
      BY <1>0, <2>1, <3>1
    <3>3. (s \o t)[Len(s) + k] = x
      BY <3>1, <3>2, ConcatIs
    <3> QED BY <3>2, <3>3
  <2> QED BY <2>2, <2>3
<1> QED BY <1>1, <1>2

LEMMA OrderedConcat ==
  ASSUME NEW s, NEW t, Ordered(s), t \in Seq(Steps), Ordered(t) \/ (Has(s, "packet") /\ Has(s, "review") /\ Guarded(t, "record", "count"))
  PROVE  Ordered(s \o t)
<1>1. s \in Seq(Steps) /\ s \o t \in Seq(Steps)
  BY DEF Ordered
<1> QED BY <1>1, GuardedConcat DEF Ordered

\* What neither writes a record nor weighs is in order.
LEMMA OrderedPlain ==
  ASSUME NEW s \in Seq(Steps), \A i \in 1..Len(s) : s[i] \notin {"record", "weigh"}
  PROVE  Ordered(s)
BY DEF Ordered, Guarded

LEMMA ReviewOrdered == Ordered(Review) /\ Has(Review, "review") /\ Ordered(Gate)
<1> DEFINE G == <<"smoke", "assess", "look", "gate">>
           J == <<"judge", "review">>
           S == <<"smoke">>
<1>1. G \in Seq(Steps) /\ J \in Seq(Steps) /\ S \in Seq(Steps)
  BY DEF Steps
<1>2. Ordered(G)
  <2>1. \A i \in 1..Len(G) : G[i] \notin {"record", "weigh"}
    <3>1. Len(G) = 4 /\ \A i \in 1..4 : i = 1 \/ i = 2 \/ i = 3 \/ i = 4
      OBVIOUS
    <3> QED BY <3>1
  <2> QED BY <1>1, <2>1, OrderedPlain
<1>3. Ordered(J) /\ Has(J, "review")
  <2>1. Len(J) = 2 /\ J[1] = "judge" /\ J[2] = "review"
    OBVIOUS
  <2>2. \A i \in 1..2 : i = 1 \/ i = 2
    OBVIOUS
  <2> HIDE DEF J
  <2>3. \A i \in 1..Len(J) : J[i] \notin {"record", "weigh"}
    BY <2>1, <2>2
  <2> QED BY <1>1, <2>1, <2>3, OrderedPlain DEF Has
<1>4. Ordered(S)
  <2>1. \A i \in 1..Len(S) : S[i] \notin {"record", "weigh"}
    OBVIOUS
  <2> QED BY <1>1, <2>1, OrderedPlain
<1>5. Review = (S \o G) \o J /\ Gate = G
  BY DEF Review, Gate
<1> HIDE DEF S, G, J
<1>6. Ordered(S \o G)
  BY <1>1, <1>2, <1>4, OrderedConcat
<1>7. S \o G \in Seq(Steps)
  BY <1>6 DEF Ordered
<1> QED BY <1>1, <1>2, <1>3, <1>5, <1>6, <1>7, OrderedConcat, HasConcat

LEMMA BenchmarkOrdered == Ordered(Benchmark)
<1>1. Benchmark \in Seq(Steps) /\ Len(Benchmark) = 3
  BY DEF Benchmark, Steps
<1>2. Benchmark[1] = "count" /\ Benchmark[2] = "record" /\ Benchmark[3] = "report"
  BY DEF Benchmark
<1>3. \A i \in 1..3 : i = 1 \/ i = 2 \/ i = 3
  OBVIOUS
<1>4. Guarded(Benchmark, "record", "count")
  <2>1. 1 \in 1..(2 - 1)
    OBVIOUS
  <2> QED BY <1>1, <1>2, <1>3, <2>1 DEF Guarded
<1> QED BY <1>1, <1>2, <1>3, <1>4 DEF Ordered, Guarded

LEMMA PlainOnes == Ordered(<<"smoke">>) /\ Ordered(<<>>)
<1> DEFINE s == <<"smoke">>
<1>1. s \in Seq(Steps) /\ Len(s) = 1 /\ s[1] = "smoke"
  BY DEF Steps
<1> HIDE DEF s
<1>2. Ordered(s)
  BY <1>1, OrderedPlain
<1>3. Ordered(<<>>)
  BY DEF Ordered, Guarded
<1> QED BY <1>2, <1>3 DEF s

LEMMA PacketOrdered ==
  ASSUME NEW part \in {"review", "gate", "smoke", "none"}
  PROVE  Ordered(Packet(part)) /\ Has(Packet(part), "packet") /\ (part = "review" => Has(Packet(part), "review"))
<1> DEFINE F == <<"foundation">>
           Z == <<"packet">>
           M == CASE part = "review" -> Review [] part = "gate" -> Gate
                  [] part = "smoke" -> <<"smoke">> [] part = "none" -> <<>>
<1>1. F \in Seq(Steps) /\ Z \in Seq(Steps) /\ Ordered(F) /\ Ordered(Z) /\ Has(Z, "packet")
  <2>1. F \in Seq(Steps) /\ Z \in Seq(Steps) /\ Len(F) = 1 /\ Len(Z) = 1 /\ F[1] = "foundation" /\ Z[1] = "packet"
    BY DEF Steps
  <2> HIDE DEF F, Z
  <2>2. \A i \in 1..1 : i = 1
    OBVIOUS
  <2> QED BY <2>1, <2>2, OrderedPlain DEF Has
<1>2. Ordered(M) /\ (part = "review" => Has(M, "review"))
  <2>1. CASE part = "review"
    <3>1. M = Review
      BY <2>1
    <3> QED BY <2>1, <3>1, ReviewOrdered
  <2>2. CASE part = "gate"
    <3>1. M = Gate
      BY <2>2
    <3> QED BY <2>2, <3>1, ReviewOrdered
  <2>3. CASE part = "smoke"
    <3>1. M = <<"smoke">>
      BY <2>3
    <3> HIDE DEF M
    <3>2. Ordered(M)
      BY <3>1, PlainOnes
    <3> QED BY <2>3, <3>2
  <2>4. CASE part = "none"
    <3>1. M = <<>>
      BY <2>4
    <3> HIDE DEF M
    <3>2. Ordered(M)
      BY <3>1, PlainOnes
    <3> QED BY <2>4, <3>2
  <2> QED BY <2>1, <2>2, <2>3, <2>4
<1>3. Packet(part) = ((Benchmark \o F) \o M) \o Z
  BY DEF Packet
<1> HIDE DEF F, Z, M
<1>4. Ordered(Benchmark \o F)
  BY <1>1, BenchmarkOrdered, OrderedConcat
<1>5. M \in Seq(Steps) /\ Benchmark \o F \in Seq(Steps)
  BY <1>2, <1>4 DEF Ordered
<1>6. Ordered((Benchmark \o F) \o M) /\ (part = "review" => Has((Benchmark \o F) \o M, "review"))
  BY <1>2, <1>4, <1>5, OrderedConcat, HasConcat
<1>7. (Benchmark \o F) \o M \in Seq(Steps)
  BY <1>6 DEF Ordered
<1> QED BY <1>1, <1>3, <1>6, <1>7, OrderedConcat, HasConcat

Kinds == {"sync", "scaffold", "single", "tri", "measure", "bridge", "packet", "review", "decision"}

LEMMA OneStep ==
  ASSUME NEW x \in Steps \ {"record", "weigh"}
  PROVE  <<x>> \in Seq(Steps) /\ Ordered(<<x>>) /\ <<x>> # <<>> /\ Len(<<x>>) = 1
<1> DEFINE s == <<x>>
<1>1. s \in Seq(Steps) /\ Len(s) = 1 /\ s[1] = x
  OBVIOUS
<1> HIDE DEF s
<1>2. \A i \in 1..Len(s) : s[i] \notin {"record", "weigh"}
  BY <1>1
<1>3. Ordered(s) /\ s # <<>>
  BY <1>1, <1>2, OrderedPlain
<1> QED BY <1>1, <1>3 DEF s

LEMMA Longer ==
  ASSUME NEW s, NEW t, Ordered(s), Ordered(t), s # <<>>
  PROVE  Ordered(s \o t) /\ s \o t # <<>>
<1>1. s \in Seq(Steps) /\ t \in Seq(Steps)
  BY DEF Ordered
<1>2. Len(s) > 0 /\ Len(s \o t) = Len(s) + Len(t) /\ Len(t) \in Nat /\ Len(s) \in Nat
  BY <1>1, ConcatIs
<1> QED BY <1>1, <1>2, OrderedConcat

LEMMA HasOne ==
  ASSUME NEW s \in Seq(Steps), NEW x, Has(s, x)
  PROVE  s # <<>>
BY DEF Has

LEMMA ProgramOrdered ==
  ASSUME NEW kind \in Kinds, NEW program \in Programs(kind)
  PROVE  Ordered(program) /\ program # <<>>
<1>1. CASE kind = "sync"
  <2> DEFINE p == <<"empty", "single", "manifest", "stub", "tri", "manifest", "stub">>
  <2>1. program = p
    BY <1>1 DEF Programs
  <2>2. p \in Seq(Steps) /\ Len(p) = 7
    BY DEF Steps
  <2>3. \A i \in 1..7 : p[i] \notin {"record", "weigh"}
    <3>1. \A i \in 1..7 : i = 1 \/ i = 2 \/ i = 3 \/ i = 4 \/ i = 5 \/ i = 6 \/ i = 7
      OBVIOUS
    <3> QED BY <3>1
  <2>5. p # <<>>
    OBVIOUS
  <2> HIDE DEF p
  <2>4. Ordered(p)
    BY <2>2, <2>3, OrderedPlain
  <2> QED BY <2>1, <2>4, <2>5
<1>2. CASE kind = "scaffold"
  <2>1. PICK scope \in Scope, stubs \in {<<>>, <<"stub">>} : program = <<scope, "manifest">> \o stubs
    BY <1>2 DEF Programs
  <2>2. Ordered(stubs)
    BY PlainOnes, OneStep DEF Steps
  <2>3. Ordered(<<scope, "manifest">>) /\ <<scope, "manifest">> # <<>>
    <3> DEFINE p == <<scope, "manifest">>
    <3>1. p \in Seq(Steps) /\ Len(p) = 2 /\ \A i \in 1..2 : p[i] \notin {"record", "weigh"}
      <4>1. scope \in Steps \ {"record", "weigh"} /\ "manifest" \in Steps
        BY DEF Steps, Scope
      <4>2. p \in Seq(Steps) /\ Len(p) = 2 /\ p[1] = scope /\ p[2] = "manifest"
        BY <4>1
      <4>3. \A i \in 1..2 : i = 1 \/ i = 2
        OBVIOUS
      <4> HIDE DEF p
      <4> QED BY <4>1, <4>2, <4>3
    <3> HIDE DEF p
    <3>2. Ordered(p)
      BY <3>1, OrderedPlain
    <3>3. p # <<>>
      BY <3>1
    <3> QED BY <3>2, <3>3 DEF p
  <2> QED BY <2>1, <2>2, <2>3, Longer
<1>3. CASE kind \in {"single", "tri"}
  <2>1. program = <<"run">> \/ program = <<"run">> \o Benchmark
    BY <1>3 DEF Programs
  <2> QED BY <2>1, OneStep, BenchmarkOrdered, Longer DEF Steps
<1>4. CASE kind = "measure"
  <2>1. program = <<"batch">>
    BY <1>4 DEF Programs
  <2> QED BY <2>1, OneStep DEF Steps
<1>5. CASE kind = "bridge"
  <2>1. program = <<"bridge">>
    BY <1>5 DEF Programs
  <2> QED BY <2>1, OneStep DEF Steps
<1>6. CASE kind = "packet"
  <2>1. PICK part \in Part : program = <<"bridge", "batch">> \o Packet(part)
    BY <1>6 DEF Programs
  <2> DEFINE p == <<"bridge", "batch">>
  <2>2. p \in Seq(Steps) /\ Len(p) = 2 /\ p[1] = "bridge" /\ p[2] = "batch"
    BY DEF Steps
  <2>3. program = p \o Packet(part)
    BY <2>1
  <2> HIDE DEF p
  <2>4. \A i \in 1..2 : i = 1 \/ i = 2
    OBVIOUS
  <2>5. Ordered(p) /\ p # <<>>
    BY <2>2, <2>4, OrderedPlain
  <2>6. Ordered(Packet(part))
    BY PacketOrdered, ReleaseAssumption
  <2> QED BY <2>3, <2>5, <2>6, Longer
<1>7. CASE kind = "review"
  <2>1. program = Review
    BY <1>7 DEF Programs
  <2>2. Review # <<>>
    BY ReviewOrdered, HasOne DEF Ordered
  <2> QED BY <2>1, <2>2, ReviewOrdered
<1>8. CASE kind = "decision"
  <2> DEFINE w == <<"weigh", "decision">>
             s == Packet("review")
  <2>1. program = s \o w
    BY <1>8 DEF Programs
  <2>2. Ordered(s) /\ Has(s, "packet") /\ Has(s, "review")
    BY PacketOrdered
  <2>3. w \in Seq(Steps) /\ Len(w) = 2 /\ w[1] = "weigh" /\ w[2] = "decision"
    BY DEF Steps
  <2> HIDE DEF w, s
  <2>4. \A i \in 1..2 : i = 1 \/ i = 2
    OBVIOUS
  <2>5. Guarded(w, "record", "count")
    BY <2>3, <2>4 DEF Guarded
  <2>6. Ordered(s \o w)
    BY <2>2, <2>3, <2>5, OrderedConcat
  <2>7. Len(s) > 0 /\ s \in Seq(Steps)
    BY <2>2, HasOne DEF Ordered
  <2>8. s \o w # <<>>
    <3>1. Len(s \o w) = Len(s) + Len(w) /\ Len(s) \in Nat
      BY <2>3, <2>7, ConcatIs
    <3> QED BY <2>3, <2>7, <3>1
  <2> QED BY <2>1, <2>6, <2>8
<1> QED BY <1>1, <1>2, <1>3, <1>4, <1>5, <1>6, <1>7, <1>8 DEF Kinds

-----------------------------------------------------------------------------
\* What is left when a step is done, and when a copy comes in between.
LEMMA TailIs ==
  ASSUME NEW s \in Seq(Steps), s # <<>>
  PROVE  /\ Tail(s) \in Seq(Steps) /\ Head(s) \in Steps /\ Head(s) = s[1] /\ Len(s) \in Nat /\ Len(s) > 0
         /\ Len(Tail(s)) = Len(s) - 1
         /\ \A i \in 1..(Len(s) - 1) : Tail(s)[i] = s[i + 1]
OBVIOUS

LEMMA GuardedTail ==
  ASSUME NEW s \in Seq(Steps), s # <<>>, NEW x, NEW y, Guarded(s, y, x)
  PROVE  Head(s) # y /\ (Head(s) # x => Guarded(Tail(s), y, x))
<1>1. Head(s) # y
  <2>1. 1 \in 1..Len(s) /\ ~ \E k \in 1..(1 - 1) : s[k] = x
    BY TailIs
  <2> QED BY <2>1, TailIs DEF Guarded
<1>2. ASSUME Head(s) # x, NEW i \in 1..Len(Tail(s)), Tail(s)[i] = y
      PROVE  \E k \in 1..(i - 1) : Tail(s)[k] = x
  <2>1. i + 1 \in 1..Len(s) /\ s[i + 1] = y /\ i \in Nat
    BY <1>2, TailIs
  <2>2. PICK k \in 1..((i + 1) - 1) : s[k] = x
    BY <2>1 DEF Guarded
  <2>3. k # 1
    BY <1>2, <2>2, TailIs
  <2>4. k - 1 \in 1..(i - 1) /\ k - 1 \in 1..(Len(s) - 1) /\ (k - 1) + 1 = k
    BY <2>1, <2>2, <2>3, TailIs
  <2>5. Tail(s)[k - 1] = x
    BY <2>2, <2>4, TailIs
  <2> QED BY <2>4, <2>5
<1> QED BY <1>1, <1>2 DEF Guarded

LEMMA GuardedCopy ==
  ASSUME NEW s \in Seq(Steps), NEW x, NEW y \in {"record", "weigh"}, Guarded(s, y, x)
  PROVE  Guarded(<<"copy">> \o s, y, x)
<1>1. <<"copy">> \in Seq(Steps) /\ Guarded(<<"copy">>, y, x)
  BY DEF Steps, Guarded
<1> QED BY <1>1, GuardedConcat

LEMMA CopyIs ==
  ASSUME NEW s \in Seq(Steps)
  PROVE  <<"copy">> \o s \in Seq(Steps) /\ <<"copy">> \o s # <<>>
<1>1. <<"copy">> \in Seq(Steps) /\ Len(<<"copy">>) = 1
  BY DEF Steps
<1>2. Len(<<"copy">> \o s) = 1 + Len(s) /\ Len(s) \in Nat
  BY <1>1, ConcatIs
<1> QED BY <1>1, <1>2, ConcatIs

-----------------------------------------------------------------------------
\* Well-formed requests, artifacts and files, and what a step of the library leaves.
Reported == RecStatus \cup {"none", "missing"}

\* A manifest in memory has its own scope's samples, each once.
Drafts ==
  {d \in [scope : Scope, text : Manifest] :
     /\ d.text.entries # {} => d.text.exists
     /\ \A e \in d.text.entries : ScopeOf(e.id) = d.scope
     /\ \A e, f \in d.text.entries : e.id = f.id => e = f}

CallType ==
  [kind : Kinds \cup {"none"}, rest : Seq(Steps), todo : SUBSET Sample, batch : SUBSET Sample,
   hold : Sample \cup {NoPath}, preserve : BOOLEAN, draft : Drafts, status : RecStatus \cup {"none"}, ready : BOOLEAN,
   foundation : FoundStatus \cup {"none"}, smoke : Smokes \cup {"none"}, report : Reported,
   decision : Decisions \cup {"none"}, solo : BOOLEAN]

ReviewType == [ready : BOOLEAN, report : Reported, smoke : Smokes \cup {"none"}]
PacketType == [benchmark : RecStatus \cup {"none"}, foundation : FoundStatus \cup {"none"}]

ArtType ==
  [record : RecStatus \cup {"missing"}, report : Reported, smoke : Smokes, gate : BOOLEAN,
   review : ReviewType, packet : PacketType, decision : Decisions \cup {"none"}]

CallOK(c) ==
  /\ c \in CallType /\ (c.kind = "none" <=> c.rest = <<>>)
  /\ c.status # "none" \/ Guarded(c.rest, "record", "count")

Formed ==
  /\ LibraryOK /\ pod \in Pod /\ art \in ArtType
  /\ call \in [Handler -> CallType] /\ \A h \in Handler : CallOK(call[h])

LEMMA IdleIs ==
  /\ Idle \in CallType /\ CallOK(Idle) /\ Idle.kind = "none" /\ Idle.rest = <<>> /\ Idle.status = "none"
  /\ Idle.foundation = "none" /\ Idle.smoke = "none" /\ Idle.decision = "none" /\ Idle.solo
<1>1. /\ Idle \in CallType /\ Idle.kind = "none" /\ Idle.rest = <<>> /\ Idle.status = "none"
      /\ Idle.foundation = "none" /\ Idle.smoke = "none" /\ Idle.decision = "none" /\ Idle.solo
  <2>1. NoDraft \in Drafts
    BY DEF NoDraft, NoManifest, Drafts, Manifest, Scope
  <2> QED BY <2>1 DEF Idle, CallType, Reported, RecStatus
<1>2. Guarded(<<>>, "record", "count")
  BY DEF Guarded
<1> QED BY <1>1, <1>2 DEF CallOK

\* Nothing of what the chain reads from memory has changed.
Same(c, d) ==
  /\ d.kind = c.kind /\ d.solo = c.solo /\ d.status = c.status /\ d.ready = c.ready
  /\ d.foundation = c.foundation /\ d.smoke = c.smoke /\ d.report = c.report /\ d.decision = c.decision

Mind(h, c) == c \in CallType /\ c.rest = call[h].rest /\ Same(call[h], c)

LEMMA MindIs ==
  ASSUME Formed, NEW h \in Handler
  PROVE  /\ Mind(h, call[h])
         /\ \A x \in SUBSET Sample : Mind(h, [call[h] EXCEPT !.todo = x]) /\ Mind(h, [call[h] EXCEPT !.batch = x])
         /\ \A x \in Sample \cup {NoPath} : Mind(h, [call[h] EXCEPT !.hold = x])
         /\ \A x \in Drafts : Mind(h, [call[h] EXCEPT !.draft = x])
<1>0. call[h] \in CallType
  BY DEF Formed
<1>1. Mind(h, call[h])
  BY <1>0 DEF Mind, Same
<1>2. ASSUME NEW x \in SUBSET Sample PROVE Mind(h, [call[h] EXCEPT !.todo = x])
  BY <1>0 DEF Mind, Same, CallType
<1>3. ASSUME NEW x \in SUBSET Sample PROVE Mind(h, [call[h] EXCEPT !.batch = x])
  BY <1>0 DEF Mind, Same, CallType
<1>4. ASSUME NEW x \in Sample \cup {NoPath} PROVE Mind(h, [call[h] EXCEPT !.hold = x])
  BY <1>0 DEF Mind, Same, CallType
<1>5. ASSUME NEW x \in Drafts PROVE Mind(h, [call[h] EXCEPT !.draft = x])
  BY <1>0 DEF Mind, Same, CallType
<1> QED BY <1>1, <1>2, <1>3, <1>4, <1>5

LEMMA RestSet ==
  ASSUME NEW c \in CallType, NEW t \in Seq(Steps)
  PROVE  [c EXCEPT !.rest = t] \in CallType /\ [c EXCEPT !.rest = t].rest = t /\ Same(c, [c EXCEPT !.rest = t])
BY DEF CallType, Same

OthersStay(h) == \A g \in Handler \ {h} : call'[g] = call[g]

\* A step of the library is no step of the chain: what the request knows stays.
Moves(h) ==
  /\ OthersStay(h) /\ call' \in [Handler -> CallType] /\ UNCHANGED <<pod, art>>
  /\ call[h].rest # <<>>
  /\ \/ call'[h] = Idle
     \/ /\ Same(call[h], call'[h])
        /\ \/ call'[h].rest = call[h].rest \/ call'[h].rest = <<"copy">> \o call[h].rest
           \/ /\ Head(call[h].rest) \notin {"count", "packet", "review"}
              /\ call'[h].rest = Tail(call[h].rest) /\ Tail(call[h].rest) # <<>>

LEMMA GoesMoves ==
  ASSUME Formed, NEW h \in Handler, NEW c, Mind(h, c), Goes(h, c), UNCHANGED <<pod, art>>,
         call[h].rest # <<>>, Head(call[h].rest) \notin {"count", "packet", "review"}
  PROVE  Moves(h)
<1>1. call \in [Handler -> CallType] /\ call[h].rest \in Seq(Steps)
  BY DEF Formed, CallType
<1>2. Tail(call[h].rest) \in Seq(Steps)
  BY <1>1, TailIs
<1> DEFINE t == Tail(call[h].rest)
           d == [c EXCEPT !.rest = t]
<1>3. d \in CallType /\ d.rest = t /\ Same(c, d)
  BY <1>2, RestSet DEF Mind
<1>4. call' = [call EXCEPT ![h] = IF t = <<>> THEN Idle ELSE d]
  BY DEF Goes
<1> HIDE DEF d, t
<1>5. OthersStay(h) /\ call' \in [Handler -> CallType] /\ call'[h] = IF t = <<>> THEN Idle ELSE d
  BY <1>1, <1>3, <1>4, IdleIs DEF OthersStay
<1>6. Same(call[h], d)
  BY <1>3 DEF Mind, Same
<1> QED BY <1>3, <1>5, <1>6 DEF Moves, t

LEMMA StaysMoves ==
  ASSUME Formed, NEW h \in Handler, NEW c, Mind(h, c) \/ c = Idle, Stays(h, c), UNCHANGED <<pod, art>>,
         call[h].rest # <<>>
  PROVE  Moves(h)
<1>1. OthersStay(h) /\ call' \in [Handler -> CallType] /\ call'[h] = c
  BY IdleIs DEF Formed, Stays, Mind, OthersStay
<1> QED BY <1>1 DEF Moves, Mind

-----------------------------------------------------------------------------
LEMMA ResultKept ==
  ASSUME LibraryOK, UNCHANGED <<raw, manifest, reports>>, result' \in [Sample -> Measurement]
  PROVE  LibraryOK'
BY DEF LibraryOK, LibraryTypeOK, Catalogued

LEMMA MeasurementKept ==
  ASSUME LibraryOK, NEW s \in Sample, NEW status \in {"measured", "pending"}, WriteMeasurement(s, status)
  PROVE  result' \in [Sample -> Measurement]
<1>1. [status |-> status, id |-> s] \in Measurement
  BY DEF Measurement
<1>2. result \in [Sample -> Measurement]
  BY DEF LibraryOK, LibraryTypeOK
<1> QED BY <1>1, <1>2 DEF WriteMeasurement

LEMMA RawKept ==
  ASSUME LibraryOK, UNCHANGED <<result, manifest, reports>>, NEW s, NEW x \in {"none", "right", "many"},
         raw' = [raw EXCEPT ![s] = x]
  PROVE  LibraryOK'
BY DEF LibraryOK, LibraryTypeOK, Catalogued

\* A sample that is found is of its scope, and found once.
LEMMA FoundIs ==
  ASSUME NEW scope \in Scope
  PROVE  /\ Discovered(scope) \in SUBSET Entry
         /\ \A e \in Discovered(scope) : ScopeOf(e.id) = scope /\ e.id \in Sample
         /\ \A e, f \in Discovered(scope) : e.id = f.id => e = f
<1>1. \A s \in Sample : [id |-> s, path |-> s, sources |-> Expected(s)] \in Entry
  BY DEF Entry, Expected
<1> QED BY <1>1 DEF Discovered

LEMMA MergedKept ==
  ASSUME LibraryOK, NEW scope \in Scope, NEW preserve \in BOOLEAN
  PROVE  /\ Merged(scope, preserve) \in Manifest /\ Merged(scope, preserve).exists
         /\ \A e \in Merged(scope, preserve).entries : ScopeOf(e.id) = scope
         /\ \A e, f \in Merged(scope, preserve).entries : e.id = f.id => e = f
<1> DEFINE found == Discovered(scope)
           old == manifest[scope].entries
           Keeps(e) == {o \in old : o.id = e.id /\ o.path # NoPath}
           With(e) == IF Keeps(e) = {} THEN e ELSE [e EXCEPT !.path = (CHOOSE o \in Keeps(e) : TRUE).path]
           Rest == {o \in old : \A e \in found : e.id # o.id}
           new == IF preserve THEN {With(e) : e \in found} \cup Rest ELSE found
<1>1. Merged(scope, preserve) = [exists |-> TRUE, measured |-> FALSE, entries |-> new]
  BY DEF Merged
<1>2. /\ old \in SUBSET Entry /\ \A e \in old : ScopeOf(e.id) = scope
      /\ \A e, f \in old : e.id = f.id => e = f
  BY DEF LibraryOK, LibraryTypeOK, Manifest, Catalogued
<1>3. /\ found \in SUBSET Entry /\ \A e \in found : ScopeOf(e.id) = scope /\ e.id \in Sample
      /\ \A e, f \in found : e.id = f.id => e = f
  BY FoundIs
<1> HIDE DEF found
<1>4. ASSUME NEW e \in found PROVE With(e) \in Entry /\ With(e).id = e.id
  <2>1. e \in Entry
    BY <1>3
  <2>2. CASE Keeps(e) = {}
    BY <2>1, <2>2
  <2>3. CASE Keeps(e) # {}
    <3> DEFINE o == CHOOSE o \in Keeps(e) : TRUE
    <3>1. o \in Keeps(e)
      BY <2>3
    <3>2. o \in Entry
      BY <1>2, <3>1
    <3>3. With(e) = [e EXCEPT !.path = o.path]
      BY <2>3
    <3> HIDE DEF o
    <3>4. o.path \in Sample \cup {NoPath}
      BY <3>2 DEF Entry
    <3> HIDE DEF With
    <3> QED BY <2>1, <3>3, <3>4 DEF Entry
  <2> QED BY <2>2, <2>3
<1> HIDE DEF With
<1>5. CASE preserve
  <2>1. new = {With(e) : e \in found} \cup Rest
    BY <1>5
  <2>2. \A e \in new : (\E f \in found : e = With(f)) \/ e \in Rest
    BY <2>1
  <2> HIDE DEF new
  <2>3. new \in SUBSET Entry /\ \A e \in new : ScopeOf(e.id) = scope
    BY <1>2, <1>3, <1>4, <2>1, <2>2
  <2>4. ASSUME NEW e \in new, NEW f \in new, e.id = f.id PROVE e = f
    BY <1>2, <1>3, <1>4, <2>2, <2>4
  <2> QED BY <1>1, <2>3, <2>4 DEF Manifest
<1>6. CASE ~preserve
  <2>1. new = found
    BY <1>6
  <2> HIDE DEF new
  <2> QED BY <1>1, <1>3, <2>1 DEF Manifest
<1> QED BY <1>5, <1>6

LEMMA ManifestKept ==
  ASSUME LibraryOK, UNCHANGED <<raw, result, reports>>, NEW scope \in Scope, NEW m \in Manifest,
         manifest' = [manifest EXCEPT ![scope] = m], m.entries # {} => m.exists,
         \A e \in m.entries : ScopeOf(e.id) = scope,
         \A e, f \in m.entries : e.id = f.id => e = f
  PROVE  LibraryOK'
BY DEF LibraryOK, LibraryTypeOK, Catalogued

LEMMA FilesKept ==
  ASSUME LibraryOK, UNCHANGED <<raw, manifest>>, result' \in [Sample -> Measurement],
         reports' \in [Single -> SUBSET Preference]
  PROVE  LibraryOK'
BY DEF LibraryOK, LibraryTypeOK, Catalogued

LEMMA SetAside ==
  ASSUME Formed, NEW h \in Handler, NEW x \in SUBSET Sample, NEW y \in Sample \cup {NoPath}
  PROVE  Mind(h, [call[h] EXCEPT !.todo = x, !.hold = y])
<1> DEFINE c == [call[h] EXCEPT !.todo = x]
<1>1. Mind(h, c)
  BY MindIs
<1>2. [call[h] EXCEPT !.todo = x, !.hold = y] = [c EXCEPT !.hold = y]
  OBVIOUS
<1> HIDE DEF c
<1>3. Mind(h, [c EXCEPT !.hold = y])
  BY <1>1 DEF Mind, Same, CallType
<1> QED BY <1>2, <1>3

LEMMA PutTogether ==
  ASSUME Formed, NEW h \in Handler, NEW x \in SUBSET Sample, NEW d \in Drafts
  PROVE  Mind(h, [call[h] EXCEPT !.todo = x, !.draft = d])
<1> DEFINE c == [call[h] EXCEPT !.todo = x]
<1>1. Mind(h, c)
  BY MindIs
<1>2. [call[h] EXCEPT !.todo = x, !.draft = d] = [c EXCEPT !.draft = d]
  OBVIOUS
<1> HIDE DEF c
<1>3. Mind(h, [c EXCEPT !.draft = d])
  BY <1>1 DEF Mind, Same, CallType
<1> QED BY <1>2, <1>3

LEMMA LibraryKept ==
  ASSUME Formed, NEW h \in Handler, LibraryStep(h)
  PROVE  LibraryOK' /\ Moves(h)
<1>0. /\ LibraryOK /\ call[h] \in CallType
      /\ raw \in [Sample -> {"none", "right", "many"}] /\ result \in [Sample -> Measurement]
      /\ reports \in [Single -> SUBSET Preference]
  BY DEF Formed, LibraryOK, LibraryTypeOK
<1>00. call[h].todo \in SUBSET Sample /\ call[h].batch \in SUBSET Sample /\ call[h].preserve \in BOOLEAN
       /\ call[h].rest \in Seq(Steps)
  BY <1>0 DEF CallType
<1>a. ASSUME NEW step, At(h, step)
      PROVE  call[h].rest # <<>> /\ Head(call[h].rest) = step
  BY <1>a DEF At
<1>b. ASSUME NEW s \in Sample, NEW status \in {"measured", "pending"}, UNCHANGED <<raw, manifest, reports>>,
             WriteMeasurement(s, status) \/ UNCHANGED result
      PROVE  LibraryOK'
  <2>1. result' \in [Sample -> Measurement]
    BY <1>0, <1>b, MeasurementKept
  <2> QED BY <1>0, <1>b, <2>1, FilesKept
<1>1. CASE Empty(h)
  <2>1. At(h, "empty") /\ UNCHANGED <<pod, art>> /\ UNCHANGED <<manifest, result, reports>>
    BY <1>1 DEF Empty
  <2>2. CASE call[h].todo = {} /\ Goes(h, call[h]) /\ UNCHANGED raw
    <3>1. Moves(h)
      BY <1>a, <2>1, <2>2, GoesMoves, MindIs
    <3> QED BY <1>0, <2>1, <2>2, <3>1, FilesKept
  <2>3. CASE ~(call[h].todo = {} /\ Goes(h, call[h]) /\ UNCHANGED raw)
    <3> DEFINE S == IF call[h].todo \cap Single # {} THEN call[h].todo \cap Single ELSE call[h].todo
    <3>1. PICK s \in S :
            /\ raw' = [raw EXCEPT ![s] = "none"]
            /\ \/ Stays(h, [call[h] EXCEPT !.todo = @ \ {s}, !.hold = s, !.rest = <<"copy">> \o @])
               \/ Stays(h, Idle)
      BY <1>1, <2>3 DEF Empty
    <3>2. s \in Sample
      BY <1>00
    <3> HIDE DEF S
    <3>3. LibraryOK'
      BY <1>0, <2>1, <3>1, RawKept
    <3>4. CASE Stays(h, Idle)
      BY <1>a, <2>1, <3>3, <3>4, StaysMoves
    <3>5. CASE Stays(h, [call[h] EXCEPT !.todo = @ \ {s}, !.hold = s, !.rest = <<"copy">> \o @])
      <4> DEFINE x == call[h].todo \ {s}
                 t == <<"copy">> \o call[h].rest
                 c == [call[h] EXCEPT !.todo = x, !.hold = s]
                 d == [c EXCEPT !.rest = t]
      <4>1. Mind(h, c)
        BY <1>00, <3>2, SetAside
      <4>2. t \in Seq(Steps)
        BY <1>00, CopyIs
      <4>3. call' = [call EXCEPT ![h] = d]
        BY <3>5 DEF Stays
      <4> HIDE DEF c, t
      <4>4. d \in CallType /\ d.rest = t /\ Same(c, d)
        BY <4>1, <4>2, RestSet DEF Mind
      <4>5. Same(call[h], d)
        BY <4>1, <4>4 DEF Mind, Same
      <4> HIDE DEF d
      <4>6. OthersStay(h) /\ call' \in [Handler -> CallType] /\ call'[h] = d
        BY <4>3, <4>4 DEF Formed, OthersStay
      <4>7. Moves(h)
        BY <1>a, <2>1, <4>4, <4>5, <4>6 DEF Moves, t
      <4> QED BY <3>3, <4>7
    <3> QED BY <3>1, <3>4, <3>5
  <2> QED BY <2>2, <2>3
<1>2. CASE Copy(h)
  <2>1. /\ At(h, "copy") /\ UNCHANGED <<pod, art>> /\ UNCHANGED <<manifest, result, reports>>
        /\ raw' = [raw EXCEPT ![call[h].hold] = "right"] /\ Goes(h, [call[h] EXCEPT !.hold = NoPath])
    BY <1>2 DEF Copy
  <2>2. Mind(h, [call[h] EXCEPT !.hold = NoPath])
    BY MindIs
  <2>3. LibraryOK'
    BY <1>0, <2>1, RawKept
  <2>4. Moves(h)
    BY <1>a, <2>1, <2>2, GoesMoves
  <2> QED BY <2>3, <2>4
<1>3. ASSUME NEW scope \in Scope, Scaffold(h, scope)
      PROVE  LibraryOK' /\ Moves(h)
  <2> DEFINE x == {e.id : e \in Discovered(scope)}
             m == Merged(scope, call[h].preserve)
             d == [scope |-> scope, text |-> m]
  <2>1. /\ At(h, scope) /\ UNCHANGED <<library, pod, art>> /\ Goes(h, [call[h] EXCEPT !.todo = x, !.draft = d])
    BY <1>3 DEF Scaffold
  <2>2. x \in SUBSET Sample
    BY FoundIs
  <2>3. d \in Drafts
    <3>1. /\ m \in Manifest /\ m.exists
          /\ \A e \in m.entries : ScopeOf(e.id) = scope
          /\ \A e, f \in m.entries : e.id = f.id => e = f
      BY <1>0, <1>00, MergedKept
    <3> HIDE DEF m
    <3> QED BY <3>1 DEF Drafts
  <2> HIDE DEF d, m, x
  <2>4. LibraryOK'
    BY <1>0, <2>1, FilesKept DEF library
  <2>5. Mind(h, [call[h] EXCEPT !.todo = x, !.draft = d])
    BY <2>2, <2>3, PutTogether
  <2>6. scope \notin {"count", "packet", "review"}
    BY DEF Scope
  <2>7. Moves(h)
    BY <1>a, <2>1, <2>5, <2>6, GoesMoves
  <2> QED BY <2>4, <2>7
<1>w. CASE WriteManifest(h)
  <2> DEFINE d == call[h].draft
  <2>1. /\ At(h, "manifest") /\ UNCHANGED <<pod, art>> /\ UNCHANGED <<raw, result, reports>>
        /\ manifest' = [manifest EXCEPT ![d.scope] = d.text] /\ Goes(h, [call[h] EXCEPT !.draft = NoDraft])
    BY <1>w DEF WriteManifest
  <2>2. d \in Drafts
    BY <1>0 DEF CallType
  <2> HIDE DEF d
  <2>3. LibraryOK'
    BY <1>0, <2>1, <2>2, ManifestKept DEF Drafts
  <2>4. NoDraft \in Drafts
    BY IdleIs DEF CallType, Idle
  <2>5. Mind(h, [call[h] EXCEPT !.draft = NoDraft])
    BY <2>4, MindIs
  <2>6. Moves(h)
    BY <1>a, <2>1, <2>5, GoesMoves
  <2> QED BY <2>3, <2>6
<1>4. CASE Stub(h)
  <2>1. At(h, "stub") /\ UNCHANGED <<pod, art>> /\ UNCHANGED <<raw, manifest, reports>>
    BY <1>4 DEF Stub
  <2>2. CASE call[h].hold # NoPath
    <3>1. /\ result' = [result EXCEPT ![call[h].hold] = [status |-> "pending", id |-> call[h].hold]]
          /\ Stays(h, [call[h] EXCEPT !.hold = NoPath])
      BY <1>4, <2>2 DEF Stub
    <3>2. [status |-> "pending", id |-> call[h].hold] \in Measurement
      BY <1>0 DEF CallType, Measurement
    <3>3. result' \in [Sample -> Measurement]
      BY <1>0, <3>1, <3>2
    <3>4. LibraryOK'
      BY <1>0, <2>1, <3>3, FilesKept
    <3>5. Moves(h)
      BY <1>a, <2>1, <3>1, MindIs, StaysMoves
    <3> QED BY <3>4, <3>5
  <2>3. CASE call[h].hold = NoPath
    <3>1. UNCHANGED result
      BY <1>4, <2>3 DEF Stub
    <3>2. LibraryOK'
      BY <1>0, <2>1, <3>1, FilesKept
    <3>3. CASE call[h].todo = {} /\ Goes(h, call[h])
      BY <1>a, <2>1, <3>2, <3>3, GoesMoves, MindIs
    <3>4. CASE ~(call[h].todo = {} /\ Goes(h, call[h]))
      <4>1. PICK s \in call[h].todo :
              Stays(h, [call[h] EXCEPT !.todo = @ \ {s},
                                       !.hold = IF result[s].status = "absent" THEN s ELSE NoPath])
        BY <1>4, <2>3, <3>4 DEF Stub
      <4> DEFINE x == call[h].todo \ {s}
                 y == IF result[s].status = "absent" THEN s ELSE NoPath
      <4>2. x \in SUBSET Sample /\ y \in Sample \cup {NoPath}
        BY <1>00
      <4>3. Stays(h, [call[h] EXCEPT !.todo = x, !.hold = y])
        BY <4>1
      <4> HIDE DEF x, y
      <4>4. Mind(h, [call[h] EXCEPT !.todo = x, !.hold = y])
        BY <4>2, SetAside
      <4> QED BY <1>a, <2>1, <3>2, <4>3, <4>4, StaysMoves
    <3> QED BY <3>3, <3>4
  <2> QED BY <2>2, <2>3
<1>5. CASE RunSingle(h)
  <2>1. At(h, "run") /\ UNCHANGED <<pod, art>> /\ UNCHANGED <<raw, manifest>>
    BY <1>5 DEF RunSingle
  <2>2. PICK s \in call[h].todo, p \in Preference :
       /\ Stays(h, [call[h] EXCEPT !.todo = @ \ {s}])
       /\ \/ WriteMeasurement(s, "measured") /\ reports' = [reports EXCEPT ![s] = @ \cup {p}]
          \/ UNCHANGED <<result, reports>>
    BY <1>5 DEF RunSingle
  <2>3. result' \in [Sample -> Measurement]
    BY <1>0, <1>00, <2>2, MeasurementKept
  <2>4. reports' \in [Single -> SUBSET Preference]
    BY <1>0, <2>2
  <2>5. LibraryOK'
    BY <1>0, <2>1, <2>3, <2>4, FilesKept
  <2>6. Mind(h, [call[h] EXCEPT !.todo = @ \ {s}])
    BY <1>00, MindIs
  <2> QED BY <1>a, <2>1, <2>2, <2>5, <2>6, StaysMoves
<1>6. CASE RunTri(h)
  <2>1. At(h, "run") /\ UNCHANGED <<pod, art>> /\ UNCHANGED <<raw, manifest, reports>>
    BY <1>6 DEF RunTri
  <2>2. PICK s \in call[h].todo :
          /\ WriteMeasurement(s, "measured") \/ UNCHANGED result
          /\ Stays(h, Idle) \/ Stays(h, [call[h] EXCEPT !.todo = @ \ {s}])
    BY <1>6 DEF RunTri
  <2>3. LibraryOK'
    BY <1>b, <1>00, <2>1, <2>2
  <2>4. Mind(h, [call[h] EXCEPT !.todo = @ \ {s}])
    BY <1>00, MindIs
  <2> QED BY <1>a, <2>1, <2>2, <2>3, <2>4, StaysMoves
<1>7. CASE RunDone(h)
  <2>1. At(h, "run") /\ Goes(h, call[h]) /\ UNCHANGED <<pod, art>> /\ UNCHANGED <<raw, manifest, result, reports>>
    BY <1>7 DEF RunDone, library
  <2>2. LibraryOK'
    BY <1>0, <2>1, FilesKept
  <2> QED BY <1>a, <2>1, <2>2, GoesMoves, MindIs
<1>8. CASE Bridge(h)
  <2>1. At(h, "bridge") /\ UNCHANGED <<pod, art>> /\ UNCHANGED <<raw, manifest, reports>>
    BY <1>8 DEF Bridge
  <2>2. CASE call[h].todo = {} /\ Goes(h, call[h]) /\ UNCHANGED result
    <3>1. Moves(h)
      BY <1>a, <2>1, <2>2, GoesMoves, MindIs
    <3> QED BY <1>0, <2>1, <2>2, <3>1, FilesKept
  <2>3. CASE ~(call[h].todo = {} /\ Goes(h, call[h]) /\ UNCHANGED result)
    <3>1. PICK s \in call[h].todo :
            /\ Stays(h, [call[h] EXCEPT !.todo = @ \ {s}])
            /\ WriteMeasurement(s, "measured") \/ UNCHANGED result
      BY <1>8, <2>3 DEF Bridge
    <3>2. LibraryOK'
      BY <1>b, <1>00, <2>1, <3>1
    <3>3. Mind(h, [call[h] EXCEPT !.todo = @ \ {s}])
      BY <1>00, MindIs
    <3> QED BY <1>a, <2>1, <3>1, <3>2, <3>3, StaysMoves
  <2> QED BY <2>2, <2>3
<1>9. CASE Batch(h)
  <2>1. At(h, "batch") /\ UNCHANGED <<pod, art>> /\ UNCHANGED <<raw, manifest, reports>>
    BY <1>9 DEF Batch
  <2>2. CASE call[h].batch = {} /\ Goes(h, call[h]) /\ UNCHANGED result
    <3>1. Moves(h)
      BY <1>a, <2>1, <2>2, GoesMoves, MindIs
    <3> QED BY <1>0, <2>1, <2>2, <3>1, FilesKept
  <2>3. CASE ~(call[h].batch = {} /\ Goes(h, call[h]) /\ UNCHANGED result)
    <3>1. PICK s \in call[h].batch, status \in {"measured", "pending"} :
            /\ Stays(h, [call[h] EXCEPT !.batch = @ \ {s}])
            /\ WriteMeasurement(s, status)
      BY <1>9, <2>3 DEF Batch
    <3>2. LibraryOK'
      BY <1>b, <1>00, <2>1, <3>1
    <3>3. Mind(h, [call[h] EXCEPT !.batch = @ \ {s}])
      BY <1>00, MindIs
    <3> QED BY <1>a, <2>1, <3>1, <3>2, <3>3, StaysMoves
  <2> QED BY <2>2, <2>3
<1> QED BY <1>1, <1>2, <1>3, <1>w, <1>4, <1>5, <1>6, <1>7, <1>8, <1>9 DEF LibraryStep

-----------------------------------------------------------------------------
\* What a step of the chain leaves.
\* A step of the chain: the library and the pod stay, and everything that the step
\* is not about.
Kept(h) ==
  /\ OthersStay(h) /\ call' \in [Handler -> CallType] /\ UNCHANGED <<library, pod>> /\ call[h].rest # <<>>

Remembers(h) ==
  LET c == call[h]
      d == call'[h]
      s == Head(call[h].rest)
  IN  /\ d.rest = Tail(c.rest) /\ Tail(c.rest) # <<>> /\ d.kind = c.kind /\ d.solo = c.solo
      /\ s = "count" => ~Raises
      /\ d.status = IF s = "count" THEN RecordStatus ELSE c.status
      /\ d.foundation = IF s = "foundation" THEN FoundationStatus ELSE c.foundation
      /\ d.smoke = IF s = "look" THEN SmokeStatus ELSE c.smoke
      /\ d.report = IF s = "judge" THEN art.report ELSE c.report
      /\ d.decision = IF s = "weigh" THEN Decision(art.packet, art.review) ELSE c.decision
      /\ s \notin {"assess", "look"} => d.ready = c.ready
      /\ s = "assess" => d.ready = ~BenchmarkBlocked
      /\ s = "look" => d.ready = (c.ready /\ SmokeBlockers = {})

Writes(h) ==
  LET c == call[h]
      s == Head(call[h].rest)
  IN  /\ art' \in ArtType
      /\ art'.record = IF s = "record" THEN c.status ELSE art.record
      /\ art'.report = IF s = "report" THEN c.status ELSE art.report
      /\ art'.review = IF s = "review" THEN [ready |-> c.ready, report |-> c.report, smoke |-> c.smoke] ELSE art.review
      /\ art'.packet = IF s = "packet" THEN [benchmark |-> c.status, foundation |-> c.foundation] ELSE art.packet
      /\ art'.decision = IF s = "decision" THEN c.decision ELSE art.decision

Chains(h) == Kept(h) /\ Writes(h) /\ (call'[h] = Idle \/ Remembers(h))

LEMMA ChainGoes ==
  ASSUME Formed, NEW h \in Handler, NEW c \in CallType, c.rest = call[h].rest, Goes(h, c),
         UNCHANGED <<library, pod>>, call[h].rest # <<>>
  PROVE  /\ Kept(h)
         /\ call'[h] = Idle \/ (call'[h].rest = Tail(call[h].rest) /\ Tail(call[h].rest) # <<>> /\ Same(c, call'[h]))
<1>1. call \in [Handler -> CallType] /\ call[h].rest \in Seq(Steps)
  BY DEF Formed, CallType
<1>2. Tail(call[h].rest) \in Seq(Steps)
  BY <1>1, TailIs
<1> DEFINE t == Tail(call[h].rest)
           d == [c EXCEPT !.rest = t]
<1>3. d \in CallType /\ d.rest = t /\ Same(c, d)
  BY <1>2, RestSet
<1>4. call' = [call EXCEPT ![h] = IF t = <<>> THEN Idle ELSE d]
  BY DEF Goes
<1> HIDE DEF d, t
<1>5. OthersStay(h) /\ call' \in [Handler -> CallType] /\ call'[h] = IF t = <<>> THEN Idle ELSE d
  BY <1>1, <1>3, <1>4, IdleIs DEF OthersStay
<1> QED BY <1>3, <1>5 DEF Kept, t

LEMMA FailsChains ==
  ASSUME Formed, NEW h \in Handler, Fails(h), call[h].rest # <<>>,
         Head(call[h].rest) \in {"count", "foundation", "assess", "judge", "weigh"}
  PROVE  Chains(h)
<1>1. OthersStay(h) /\ call' \in [Handler -> CallType] /\ call'[h] = Idle /\ UNCHANGED <<library, pod, art>>
  BY IdleIs DEF Formed, Fails, OthersStay
<1>2. Writes(h)
  BY <1>1 DEF Writes, Formed
<1> QED BY <1>1, <1>2 DEF Chains, Kept

LEMMA PutsChains ==
  ASSUME Formed, NEW h \in Handler, NEW name \in {"record", "report", "smoke", "gate", "review", "packet", "decision"},
         NEW value, Puts(h, name, value), Writes(h)
  PROVE  Chains(h)
<1>1. /\ call[h].rest # <<>> /\ Head(call[h].rest) = name
      /\ Goes(h, call[h]) /\ UNCHANGED <<library, pod>>
  BY DEF Puts, At
<1>2. call[h] \in CallType
  BY DEF Formed
<1>3. /\ Kept(h)
      /\ call'[h] = Idle \/ (call'[h].rest = Tail(call[h].rest) /\ Tail(call[h].rest) # <<>> /\ Same(call[h], call'[h]))
  BY <1>1, <1>2, ChainGoes
<1>4. call'[h] = Idle \/ Remembers(h)
  BY <1>1, <1>3 DEF Remembers, Same
<1> QED BY <1>3, <1>4 DEF Chains

LEMMA ArtIs ==
  ASSUME Formed
  PROVE  /\ \A v \in RecStatus : [art EXCEPT !.record = v] \in ArtType
         /\ \A v \in Reported : [art EXCEPT !.report = v] \in ArtType
         /\ \A v \in Smokes : [art EXCEPT !.smoke = v] \in ArtType
         /\ \A v \in BOOLEAN : [art EXCEPT !.gate = v] \in ArtType
         /\ \A v \in ReviewType : [art EXCEPT !.review = v] \in ArtType
         /\ \A v \in PacketType : [art EXCEPT !.packet = v] \in ArtType
         /\ \A v \in Decisions \cup {"none"} : [art EXCEPT !.decision = v] \in ArtType
BY DEF Formed, ArtType

LEMMA WritesOne ==
  ASSUME Formed, NEW h \in Handler
  PROVE  /\ WriteRecord(h) => Writes(h)
         /\ WriteReport(h) => Writes(h)
         /\ WriteSmoke(h) => Writes(h)
         /\ WriteGate(h) => Writes(h)
         /\ WriteReview(h) => Writes(h)
         /\ WritePacket(h) => Writes(h)
         /\ WriteDecision(h) => Writes(h)
<1> DEFINE c == call[h]
<1>0. c \in CallType /\ CallOK(c) /\ c.rest \in Seq(Steps) /\ art \in ArtType
  BY DEF Formed, CallType
<1>1. ASSUME WriteRecord(h) PROVE Writes(h)
  <2>1. c.rest # <<>> /\ Head(c.rest) = "record" /\ art' = [art EXCEPT !.record = c.status]
    BY <1>1 DEF WriteRecord, Puts, At
  <2>2. ~Guarded(c.rest, "record", "count")
    BY <1>0, <2>1, GuardedTail
  <2>3. c.status \in RecStatus
    BY <1>0, <2>2 DEF CallOK, CallType
  <2>4. art' \in ArtType
    BY <2>1, <2>3, ArtIs
  <2> QED BY <1>0, <2>1, <2>4 DEF Writes, ArtType
<1>2. ASSUME WriteReport(h) PROVE Writes(h)
  <2>1. c.rest # <<>> /\ Head(c.rest) = "report" /\ art' = [art EXCEPT !.report = c.status]
    BY <1>2 DEF WriteReport, Puts, At
  <2>3. c.status \in Reported
    BY <1>0 DEF CallType, Reported
  <2>4. art' \in ArtType
    BY <2>1, <2>3, ArtIs
  <2> QED BY <1>0, <2>1, <2>4 DEF Writes, ArtType
<1>3. ASSUME WriteSmoke(h) PROVE Writes(h)
  <2>1. c.rest # <<>> /\ Head(c.rest) = "smoke" /\ art' = [art EXCEPT !.smoke = SmokeStatus]
    BY <1>3 DEF WriteSmoke, Puts, At
  <2>3. SmokeStatus \in Smokes
    BY SmokeIs DEF Formed
  <2>4. art' \in ArtType
    BY <2>1, <2>3, ArtIs
  <2> QED BY <1>0, <2>1, <2>4 DEF Writes, ArtType
<1>4. ASSUME WriteGate(h) PROVE Writes(h)
  <2>1. c.rest # <<>> /\ Head(c.rest) = "gate" /\ art' = [art EXCEPT !.gate = c.ready]
    BY <1>4 DEF WriteGate, Puts, At
  <2>3. c.ready \in BOOLEAN
    BY <1>0 DEF CallType
  <2>4. art' \in ArtType
    BY <2>1, <2>3, ArtIs
  <2> QED BY <1>0, <2>1, <2>4 DEF Writes, ArtType
<1>5. ASSUME WriteReview(h) PROVE Writes(h)
  <2> DEFINE v == [ready |-> c.ready, report |-> c.report, smoke |-> c.smoke]
  <2>1. c.rest # <<>> /\ Head(c.rest) = "review" /\ art' = [art EXCEPT !.review = v]
    BY <1>5 DEF WriteReview, Puts, At
  <2>3. v \in ReviewType
    BY <1>0 DEF CallType, ReviewType
  <2>4. art' \in ArtType
    BY <2>1, <2>3, ArtIs
  <2> QED BY <1>0, <2>1, <2>4 DEF Writes, ArtType
<1>6. ASSUME WritePacket(h) PROVE Writes(h)
  <2> DEFINE v == [benchmark |-> c.status, foundation |-> c.foundation]
  <2>1. c.rest # <<>> /\ Head(c.rest) = "packet" /\ art' = [art EXCEPT !.packet = v]
    BY <1>6 DEF WritePacket, Puts, At
  <2>3. v \in PacketType
    BY <1>0 DEF CallType, PacketType
  <2>4. art' \in ArtType
    BY <2>1, <2>3, ArtIs
  <2> QED BY <1>0, <2>1, <2>4 DEF Writes, ArtType
<1>7. ASSUME WriteDecision(h) PROVE Writes(h)
  <2>1. c.rest # <<>> /\ Head(c.rest) = "decision" /\ art' = [art EXCEPT !.decision = c.decision]
    BY <1>7 DEF WriteDecision, Puts, At
  <2>3. c.decision \in Decisions \cup {"none"}
    BY <1>0 DEF CallType
  <2>4. art' \in ArtType
    BY <2>1, <2>3, ArtIs
  <2> QED BY <1>0, <2>1, <2>4 DEF Writes, ArtType
<1> QED BY <1>1, <1>2, <1>3, <1>4, <1>5, <1>6, <1>7

\* A step that only changes what the request knows.
LEMMA LooksChains ==
  ASSUME Formed, NEW h \in Handler, NEW c \in CallType, c.rest = call[h].rest, Goes(h, c),
         UNCHANGED <<library, pod, art>>, call[h].rest # <<>>,
         Head(call[h].rest) \in {"count", "foundation", "assess", "look", "judge", "weigh"},
         \A d \in CallType : Same(c, d) /\ d.rest = Tail(call[h].rest) /\ Tail(call[h].rest) # <<>> /\ call'[h] = d => Remembers(h)
  PROVE  Chains(h)
<1>1. /\ Kept(h)
      /\ call'[h] = Idle \/ (call'[h].rest = Tail(call[h].rest) /\ Tail(call[h].rest) # <<>> /\ Same(c, call'[h]))
  BY ChainGoes
<1>2. call'[h] = Idle \/ Remembers(h)
  BY <1>1 DEF Kept
<1>3. Writes(h)
  BY DEF Writes, Formed
<1> QED BY <1>1, <1>2, <1>3 DEF Chains

LEMMA ChainMoves ==
  ASSUME Formed, NEW h \in Handler, ChainStep(h)
  PROVE  Chains(h)
<1> DEFINE c == call[h]
<1>0. c \in CallType /\ c.rest \in Seq(Steps) /\ art \in ArtType /\ LibraryOK
  BY DEF Formed, CallType
<1>1. CASE \/ WriteRecord(h) \/ WriteReport(h) \/ WriteSmoke(h) \/ WriteGate(h)
           \/ WriteReview(h) \/ WritePacket(h) \/ WriteDecision(h)
  <2>1. Writes(h)
    BY <1>1, WritesOne
  <2>2. PICK name \in {"record", "report", "smoke", "gate", "review", "packet", "decision"} :
          \E value : Puts(h, name, value)
    BY <1>1 DEF WriteRecord, WriteReport, WriteSmoke, WriteGate, WriteReview, WritePacket, WriteDecision
  <2> QED BY <2>1, <2>2, PutsChains
<1>2. CASE Count(h)
  <2>1. c.rest # <<>> /\ Head(c.rest) = "count"
    BY <1>2 DEF Count, At
  <2>2. CASE Raises
    BY <1>2, <2>1, <2>2, FailsChains DEF Count
  <2>3. CASE ~Raises
    <3> DEFINE d == [c EXCEPT !.status = RecordStatus]
    <3>1. Goes(h, d) /\ UNCHANGED <<library, pod, art>>
      BY <1>2, <2>3 DEF Count
    <3>2. d \in CallType /\ d.rest = c.rest /\ d.kind = c.kind /\ d.solo = c.solo /\ d.status = RecordStatus
          /\ d.ready = c.ready /\ d.foundation = c.foundation /\ d.smoke = c.smoke /\ d.report = c.report
          /\ d.decision = c.decision
      BY <1>0, RecordIs DEF CallType
    <3> HIDE DEF d
    <3> QED BY <2>1, <2>3, <3>1, <3>2, LooksChains DEF Same, Remembers
  <2> QED BY <2>2, <2>3
<1>3. CASE ReadFoundation(h)
  <2>1. c.rest # <<>> /\ Head(c.rest) = "foundation"
    BY <1>3 DEF ReadFoundation, At
  <2>2. CASE Raises
    BY <1>3, <2>1, <2>2, FailsChains DEF ReadFoundation
  <2>3. CASE ~Raises
    <3> DEFINE d == [c EXCEPT !.foundation = FoundationStatus]
    <3>1. Goes(h, d) /\ UNCHANGED <<library, pod, art>>
      BY <1>3, <2>3 DEF ReadFoundation
    <3>2. d \in CallType /\ d.rest = c.rest /\ d.kind = c.kind /\ d.solo = c.solo /\ d.status = c.status
          /\ d.ready = c.ready /\ d.foundation = FoundationStatus /\ d.smoke = c.smoke /\ d.report = c.report
          /\ d.decision = c.decision
      BY <1>0, FoundationIs DEF CallType
    <3> HIDE DEF d
    <3> QED BY <2>1, <3>1, <3>2, LooksChains DEF Same, Remembers
  <2> QED BY <2>2, <2>3
<1>4. CASE Assess(h)
  <2>1. c.rest # <<>> /\ Head(c.rest) = "assess"
    BY <1>4 DEF Assess, At
  <2>2. CASE Raises
    BY <1>4, <2>1, <2>2, FailsChains DEF Assess
  <2>3. CASE ~Raises
    <3> DEFINE b == ~BenchmarkBlocked
               d == [c EXCEPT !.ready = b]
    <3>1. Goes(h, d) /\ UNCHANGED <<library, pod, art>>
      BY <1>4, <2>3 DEF Assess
    <3>0. b \in BOOLEAN /\ b = ~BenchmarkBlocked
      OBVIOUS
    <3> HIDE DEF b
    <3>2. d \in CallType /\ d.rest = c.rest /\ d.kind = c.kind /\ d.solo = c.solo /\ d.status = c.status
          /\ d.ready = b /\ d.foundation = c.foundation /\ d.smoke = c.smoke /\ d.report = c.report
          /\ d.decision = c.decision
      BY <1>0, <3>0 DEF CallType
    <3> HIDE DEF d
    <3>3. ASSUME NEW e \in CallType, Same(d, e), e.rest = Tail(c.rest), Tail(c.rest) # <<>>, call'[h] = e
          PROVE  Remembers(h)
      BY <2>1, <3>0, <3>2, <3>3 DEF Same, Remembers
    <3> QED BY <2>1, <3>1, <3>2, <3>3, LooksChains
  <2> QED BY <2>2, <2>3
<1>5. CASE Look(h)
  <2>1. c.rest # <<>> /\ Head(c.rest) = "look"
    BY <1>5 DEF Look, At
  <2> DEFINE b == c.ready /\ SmokeBlockers = {}
             d1 == [c EXCEPT !.smoke = SmokeStatus]
             d == [d1 EXCEPT !.ready = b]
  <2>2. Goes(h, d) /\ UNCHANGED <<library, pod, art>>
    <3>1. d = [c EXCEPT !.smoke = SmokeStatus, !.ready = @ /\ SmokeBlockers = {}]
      OBVIOUS
    <3> QED BY <1>5, <3>1 DEF Look
  <2>3. d1 \in CallType /\ d1.rest = c.rest /\ d1.kind = c.kind /\ d1.solo = c.solo /\ d1.status = c.status
        /\ d1.foundation = c.foundation /\ d1.smoke = SmokeStatus /\ d1.report = c.report
        /\ d1.decision = c.decision
    BY <1>0, SmokeIs DEF CallType, Formed
  <2>0. b \in BOOLEAN /\ b = (c.ready /\ SmokeBlockers = {})
    OBVIOUS
  <2> HIDE DEF b, d1
  <2>4. d \in CallType /\ d.rest = c.rest /\ d.kind = c.kind /\ d.solo = c.solo /\ d.status = c.status
        /\ d.ready = b /\ d.foundation = c.foundation /\ d.smoke = SmokeStatus /\ d.report = c.report
        /\ d.decision = c.decision
    BY <2>0, <2>3 DEF CallType
  <2> HIDE DEF d
  <2>5. ASSUME NEW e \in CallType, Same(d, e), e.rest = Tail(c.rest), Tail(c.rest) # <<>>, call'[h] = e
        PROVE  Remembers(h)
    BY <2>1, <2>0, <2>4, <2>5 DEF Same, Remembers
  <2> QED BY <2>1, <2>2, <2>4, <2>5, LooksChains
<1>6. CASE Judge(h)
  <2>1. c.rest # <<>> /\ Head(c.rest) = "judge"
    BY <1>6 DEF Judge, At
  <2>2. CASE Raises
    BY <1>6, <2>1, <2>2, FailsChains DEF Judge
  <2>3. CASE ~Raises
    <3> DEFINE d == [c EXCEPT !.report = art.report]
    <3>1. Goes(h, d) /\ UNCHANGED <<library, pod, art>>
      BY <1>6, <2>3 DEF Judge
    <3>2. d \in CallType /\ d.rest = c.rest /\ d.kind = c.kind /\ d.solo = c.solo /\ d.status = c.status
          /\ d.ready = c.ready /\ d.foundation = c.foundation /\ d.smoke = c.smoke /\ d.report = art.report
          /\ d.decision = c.decision
      BY <1>0 DEF CallType, ArtType
    <3> HIDE DEF d
    <3> QED BY <2>1, <3>1, <3>2, LooksChains DEF Same, Remembers
  <2> QED BY <2>2, <2>3
<1>7. CASE Weigh(h)
  <2>1. c.rest # <<>> /\ Head(c.rest) = "weigh"
    BY <1>7 DEF Weigh, At
  <2>2. CASE art.report = "missing"
    BY <1>7, <2>1, <2>2, FailsChains DEF Weigh
  <2>3. CASE art.report # "missing"
    <3> DEFINE v == Decision(art.packet, art.review)
               d == [c EXCEPT !.decision = v]
    <3>1. Goes(h, d) /\ UNCHANGED <<library, pod, art>>
      BY <1>7, <2>3 DEF Weigh
    <3>0. v \in Decisions /\ v = Decision(art.packet, art.review)
      BY DecisionIs DEF Decisions
    <3> HIDE DEF v
    <3>2. d \in CallType /\ d.rest = c.rest /\ d.kind = c.kind /\ d.solo = c.solo /\ d.status = c.status
          /\ d.ready = c.ready /\ d.foundation = c.foundation /\ d.smoke = c.smoke /\ d.report = c.report
          /\ d.decision = v
      BY <1>0, <3>0 DEF CallType
    <3> HIDE DEF d
    <3> QED BY <2>1, <3>0, <3>1, <3>2, LooksChains DEF Same, Remembers
  <2> QED BY <2>2, <2>3
<1> QED BY <1>1, <1>2, <1>3, <1>4, <1>5, <1>6, <1>7 DEF ChainStep

-----------------------------------------------------------------------------
\* Requests that begin, and what happens outside of requests.
\* A request that begins knows nothing yet.
Fresh(h, c) ==
  /\ c \in CallType /\ c.kind \in Kinds /\ c.rest \in Programs(c.kind)
  /\ c.status = "none" /\ c.foundation = "none" /\ c.smoke = "none" /\ c.decision = "none"
  /\ c.solo = \A g \in Handler : call[g].kind = "none"

Disturbed(g) == call'[g] = [call[g] EXCEPT !.solo = FALSE]

LEMMA DisturbedIs ==
  ASSUME Formed, NEW g \in Handler
  PROVE  LET c == call[g]
             d == [call[g] EXCEPT !.solo = FALSE]
         IN  /\ d \in CallType /\ CallOK(d) /\ d.rest = c.rest /\ d.kind = c.kind /\ ~d.solo
             /\ d.status = c.status /\ d.foundation = c.foundation /\ d.smoke = c.smoke /\ d.decision = c.decision
<1> DEFINE c == call[g]
           d == [c EXCEPT !.solo = FALSE]
<1>0. c \in CallType /\ CallOK(c)
  BY DEF Formed
<1>1. /\ d \in CallType /\ d.rest = c.rest /\ d.kind = c.kind /\ ~d.solo
      /\ d.status = c.status /\ d.foundation = c.foundation /\ d.smoke = c.smoke /\ d.decision = c.decision
  BY <1>0 DEF CallType
<1>2. CallOK(d)
  <2> HIDE DEF d
  <2> QED BY <1>0, <1>1 DEF CallOK
<1> QED BY <1>1, <1>2

LEMMA ChosenIs ==
  ASSUME LibraryOK, NEW kind, NEW given \in SUBSET Sample, NEW todo \in Chosen(kind, given)
  PROVE  todo \in SUBSET Sample
<1>0. \A scope \in Scope : \A e \in manifest[scope].entries : e.id \in Sample
  BY DEF LibraryOK, LibraryTypeOK, Manifest, Entry
<1>1. "single" \in Scope /\ "tri" \in Scope
  BY DEF Scope
<1>2. \A existing \in BOOLEAN : ScaffoldEntries(existing) \in SUBSET Sample
  BY <1>0, <1>1 DEF ScaffoldEntries
<1>3. CASE kind \in {"sync", "single", "tri"}
  <2>1. CASE kind = "sync"
    BY <2>1 DEF Chosen
  <2>2. CASE kind = "single"
    BY <1>0, <1>1, <2>2 DEF Chosen
  <2>3. CASE kind = "tri"
    BY <1>0, <1>1, <2>3 DEF Chosen
  <2> QED BY <1>3, <2>1, <2>2, <2>3
<1>4. CASE kind \in {"bridge", "packet"}
  <2>1. kind \notin {"sync", "single", "tri"}
    BY <1>4
  <2>2. todo \in {{}} \cup {ScaffoldEntries(existing) : existing \in BOOLEAN}
    BY <1>4, <2>1 DEF Chosen
  <2> QED BY <1>2, <2>2
<1>5. CASE kind \notin {"sync", "single", "tri", "bridge", "packet"}
  BY <1>5 DEF Chosen
<1> QED BY <1>3, <1>4, <1>5

Begins(h) ==
  /\ UNCHANGED <<library, pod, art>> /\ call[h].kind = "none" /\ call' \in [Handler -> CallType]
  /\ Fresh(h, call'[h]) /\ \A g \in Handler \ {h} : Disturbed(g)

LEMMA BeginMoves ==
  ASSUME Formed, NEW h \in Handler, Begin(h)
  PROVE  Begins(h)
<1> DEFINE w == \A f \in Handler : call[f].kind = "none"
           New(kind, given, todo, program, preserve) ==
             [Idle EXCEPT !.kind = kind, !.rest = program, !.todo = todo,
                          !.batch = given, !.preserve = preserve, !.solo = w]
           Set(kind, given, todo, program, preserve) ==
             call' = [g \in Handler |-> IF g = h THEN New(kind, given, todo, program, preserve)
                                                ELSE [call[g] EXCEPT !.solo = FALSE]]
<1>1. PICK kind \in Kind, given \in SUBSET Sample : \E todo \in Chosen(kind, given) :
        \E program \in Programs(kind), preserve \in IF kind \in {"sync", "scaffold"} THEN BOOLEAN ELSE {FALSE} :
          /\ kind \notin {"measure", "packet", "single", "tri"} => given = {}
          /\ kind = "packet" => given = {} \/ (todo = {} /\ given = Single)
          /\ kind \in {"single", "tri"} => given = Sample /\ manifest[kind].exists
          /\ Set(kind, given, todo, program, preserve)
  BY DEF Begin
<1> HIDE DEF Set
<1>2. PICK todo \in Chosen(kind, given), program \in Programs(kind),
           preserve \in IF kind \in {"sync", "scaffold"} THEN BOOLEAN ELSE {FALSE} :
          Set(kind, given, todo, program, preserve)
  BY <1>1
<1>3. kind \in Kinds /\ todo \in SUBSET Sample /\ preserve \in BOOLEAN
  BY ReleaseAssumption, ChosenIs DEF Formed, Kinds
<1>4. program \in Seq(Steps) /\ program # <<>>
  BY <1>3, ProgramOrdered DEF Ordered
<1>w. w \in BOOLEAN
  OBVIOUS
<1> DEFINE d == New(kind, given, todo, program, preserve)
<1>5. call'[h] = d /\ \A g \in Handler \ {h} : Disturbed(g)
  BY <1>2 DEF Disturbed, Set
<1>w2. w = \A f \in Handler : call[f].kind = "none"
  OBVIOUS
<1> HIDE DEF w
<1> DEFINE d1 == [Idle EXCEPT !.kind = kind]
           d2 == [d1 EXCEPT !.rest = program]
           d3 == [d2 EXCEPT !.todo = todo]
           d4 == [d3 EXCEPT !.batch = given]
           d5 == [d4 EXCEPT !.preserve = preserve]
<1>6. /\ d \in CallType /\ d.kind = kind /\ d.rest = program /\ d.solo = w
      /\ d.status = "none" /\ d.foundation = "none" /\ d.smoke = "none" /\ d.decision = "none"
  <2>1. d = [d5 EXCEPT !.solo = w]
    OBVIOUS
  <2>2. Idle \in CallType
    BY IdleIs
  <2> HIDE DEF d
  <2>3. d5 \in CallType /\ d5.kind = kind /\ d5.rest = program
        /\ d5.status = "none" /\ d5.foundation = "none" /\ d5.smoke = "none" /\ d5.decision = "none"
    BY <1>3, <1>4, <2>2, IdleIs DEF CallType
  <2> HIDE DEF d5
  <2> QED BY <1>w, <2>1, <2>3 DEF CallType
<1>8. Fresh(h, d)
  <2> HIDE DEF d
  <2> QED BY <1>3, <1>6, <1>w2 DEF Fresh
<1>9. call' \in [Handler -> CallType]
  <2> HIDE DEF d
  <2>1. \A g \in Handler : call'[g] \in CallType
    BY <1>5, <1>6, DisturbedIs DEF Disturbed
  <2>2. call' = [g \in Handler |-> call'[g]]
    BY <1>2 DEF Set
  <2> QED BY <2>1, <2>2
<1> QED BY <1>5, <1>8, <1>9 DEF Begins, Begin

\* What somebody changes meanwhile disturbs every request; a crash ends them all.
Outside ==
  /\ LibraryOK' /\ pod' \in Pod /\ UNCHANGED art /\ call' \in [Handler -> CallType]
  /\ \/ \A g \in Handler : Disturbed(g)
     \/ \A g \in Handler : call'[g] = Idle

LEMMA DisturbIs ==
  ASSUME Formed, Disturb
  PROVE  call' \in [Handler -> CallType] /\ \A g \in Handler : Disturbed(g)
<1>1. \A g \in Handler : Disturbed(g)
  BY DEF Disturb, Disturbed
<1>2. \A g \in Handler : call'[g] \in CallType
  BY <1>1, DisturbedIs DEF Disturbed
<1> QED BY <1>1, <1>2 DEF Disturb

LEMMA EditMoves == ASSUME Formed, Edit PROVE Outside
<1>0. LibraryOK /\ pod \in Pod
  BY DEF Formed
<1>1. call' \in [Handler -> CallType] /\ (\A g \in Handler : Disturbed(g)) /\ UNCHANGED <<pod, art>>
  BY DisturbIs DEF Edit
<1>2. LibraryOK'
  <2>1. CASE \E s \in Sample, files \in {"none", "many"} : EditRaw(s, files)
    <3>1. PICK s \in Sample, files \in {"none", "many"} : EditRaw(s, files)
      BY <2>1
    <3> QED BY <1>0, <3>1, RawKept DEF EditRaw
  <2>2. CASE ~(\E s \in Sample, files \in {"none", "many"} : EditRaw(s, files))
    <3>1. PICK s \in Sample : \E e \in HandWritten(s), measured \in BOOLEAN : EditEntry(s, e, measured)
      BY <2>2 DEF Edit
    <3>2. PICK e \in HandWritten(s), measured \in BOOLEAN : EditEntry(s, e, measured)
      BY <3>1
    <3>3. e \in Entry /\ e.id = s
      BY <3>2 DEF HandWritten, Entry, Expected
    <3> DEFINE scope == ScopeOf(s)
               old == manifest[scope].entries
               new == {o \in old : o.id # s} \cup {e}
               m == [exists |-> TRUE, measured |-> measured, entries |-> new]
    <3>4. scope \in Scope
      BY DEF ScopeOf, Scope
    <3>5. manifest' = [manifest EXCEPT ![scope] = m] /\ UNCHANGED <<raw, result, reports>>
      BY <3>2 DEF EditEntry
    <3>6. /\ old \in SUBSET Entry /\ \A o \in old : ScopeOf(o.id) = scope
          /\ \A o, q \in old : o.id = q.id => o = q
      BY <1>0, <3>4 DEF LibraryOK, LibraryTypeOK, Manifest, Catalogued
    <3>s. ScopeOf(e.id) = scope
      BY <3>3
    <3> HIDE DEF old, scope
    <3>7. /\ new \in SUBSET Entry /\ \A o \in new : ScopeOf(o.id) = scope
          /\ \A o, q \in new : o.id = q.id => o = q
      BY <3>3, <3>6, <3>s
    <3>8. m \in Manifest /\ m.exists /\ m.entries = new
      BY <3>7 DEF Manifest
    <3> HIDE DEF m, new
    <3> QED BY <1>0, <3>4, <3>5, <3>7, <3>8, ManifestKept
  <2> QED BY <2>1, <2>2
<1> QED BY <1>0, <1>1, <1>2 DEF Outside

LEMMA BootMoves == ASSUME Formed, BootStep PROVE Outside
<1>0. pod \in Pod /\ LibraryOK
  BY DEF Formed
<1>1. ASSUME NEW evidence \in Pod, Leaves(evidence) PROVE Outside
  <2>1. call' \in [Handler -> CallType] /\ (\A g \in Handler : Disturbed(g)) /\ UNCHANGED <<library, art>> /\ pod' = evidence
    BY <1>1, DisturbIs DEF Leaves
  <2>2. LibraryOK'
    BY <1>0, <2>1, FilesKept DEF library, LibraryOK, LibraryTypeOK
  <2> QED BY <2>1, <2>2 DEF Outside
<1>2. CASE BeginBoot
  <2>1. PICK evidence \in {pod, NoEvidence} : Leaves([evidence EXCEPT !.boot = "rawprep"])
    BY <1>2 DEF BeginBoot
  <2>2. evidence \in Pod
    BY <1>0 DEF NoEvidence, Pod
  <2>3. [evidence EXCEPT !.boot = "rawprep"] \in Pod
    BY <2>2 DEF Pod
  <2> QED BY <1>1, <2>1, <2>3
<1>3. CASE CheckRawprep
  <2>1. PICK next \in {"single", "none"}, checked \in {"present", pod.rawprep} :
          Leaves([pod EXCEPT !.rawprep = checked, !.boot = next])
    BY <1>3 DEF CheckRawprep
  <2>2. [pod EXCEPT !.rawprep = checked, !.boot = next] \in Pod
    BY <1>0 DEF Pod
  <2> QED BY <1>1, <2>1, <2>2
<1>4. CASE CheckDecoder
  <2>1. PICK single \in {"failing", "unsampled"}, next \in {"none", "summary"} :
          Leaves([pod EXCEPT !.single = single, !.boot = next])
    BY <1>4 DEF CheckDecoder
  <2>2. [pod EXCEPT !.single = single, !.boot = next] \in Pod
    BY <1>0 DEF Pod
  <2> QED BY <1>1, <2>1, <2>2
<1>5. CASE Summarize
  <2>1. PICK summary \in {"passing", "failing"} : Leaves([pod EXCEPT !.boot = "none", !.summary = summary])
    BY <1>5 DEF Summarize
  <2>2. [pod EXCEPT !.boot = "none", !.summary = summary] \in Pod
    BY <1>0 DEF Pod
  <2> QED BY <1>1, <2>1, <2>2
<1>6. CASE SmokeSample
  <2>1. PICK outcome \in {"failing", "decoded"} : Leaves([pod EXCEPT !.single = outcome])
    BY <1>6 DEF SmokeSample
  <2>2. [pod EXCEPT !.single = outcome] \in Pod
    BY <1>0 DEF Pod
  <2> QED BY <1>1, <2>1, <2>2
<1> QED BY <1>2, <1>3, <1>4, <1>5, <1>6 DEF BootStep

LEMMA CrashMoves == ASSUME Formed, Crash PROVE Outside
<1>0. LibraryOK /\ pod \in Pod /\ result \in [Sample -> Measurement]
  BY DEF Formed, LibraryOK, LibraryTypeOK
<1>1. call' \in [Handler -> CallType] /\ (\A g \in Handler : call'[g] = Idle) /\ UNCHANGED <<raw, manifest, reports, pod, art>>
  BY IdleIs DEF Crash
<1>2. [status |-> "torn", id |-> NoPath] \in Measurement
  BY DEF Measurement
<1>3. result' \in [Sample -> Measurement]
  <2>1. result' = result \/ \E x : result' = [result EXCEPT ![x] = [status |-> "torn", id |-> NoPath]]
    BY DEF Crash
  <2> QED BY <1>0, <1>2, <2>1
<1>4. LibraryOK'
  BY <1>0, <1>1, <1>3, ResultKept
<1> QED BY <1>0, <1>1, <1>4 DEF Outside

LEMMA EveryStep ==
  ASSUME Formed, Next
  PROVE  \/ \E h \in Handler : Begins(h)
         \/ \E h \in Handler : Moves(h) /\ LibraryStep(h) /\ LibraryOK'
         \/ \E h \in Handler : Chains(h) /\ ChainStep(h)
         \/ Outside
<1>1. (\E h \in Handler : Serve(h)) \/ Edit \/ BootStep \/ Crash
  BY DEF Next
<1>2. ASSUME NEW h \in Handler, Serve(h)
      PROVE  Begins(h) \/ (Moves(h) /\ LibraryStep(h) /\ LibraryOK') \/ (Chains(h) /\ ChainStep(h))
  BY <1>2, BeginMoves, LibraryKept, ChainMoves DEF Serve
<1> QED BY <1>1, <1>2, EditMoves, BootMoves, CrashMoves

-----------------------------------------------------------------------------
\* The invariant.
\* What request c relies on stood at some time since nobody was at work; so did what
\* packet and review say, or the request writes its own before it weighs.
Backed(c, a, s) ==
  /\ c.kind = "none" => c.foundation = "none" /\ c.smoke = "none" /\ c.decision = "none"
  /\ c.foundation = "measured_ready" => "benchmark" \in s
  /\ c.smoke = "passed" => "pod" \in s
  /\ c.decision = "ready_for_default_review" => {"benchmark", "pod"} \subseteq s
  /\ Guarded(c.rest, "weigh", "packet") \/ (a.packet.foundation = "measured_ready" => "benchmark" \in s)
  /\ Guarded(c.rest, "weigh", "review") \/ (a.review.smoke = "passed" => "pod" \in s)

IInv ==
  /\ Formed
  /\ stood \subseteq {"benchmark", "pod"}
  /\ \A h \in Handler : Backed(call[h], art, stood)

LEMMA GuardedNone == ASSUME NEW x, NEW y PROVE Guarded(<<>>, y, x)
BY DEF Guarded

LEMMA StoodGrows ==
  ASSUME Next
  PROVE  /\ stood' \subseteq {"benchmark", "pod"} \cup stood
         /\ EvidenceComplete' => "benchmark" \in stood'
         /\ PodPasses' => "pod" \in stood'
         /\ (\E h \in Handler : call[h].kind # "none") => stood \subseteq stood'
<1>1. stood' = Facts' \cup IF \A h \in Handler : call[h].kind = "none" THEN {} ELSE stood
  BY DEF Next
<1>2. /\ Facts' \subseteq {"benchmark", "pod"} /\ (EvidenceComplete' => "benchmark" \in Facts')
      /\ (PodPasses' => "pod" \in Facts')
  BY DEF Facts, PodPasses
<1> HIDE DEF Facts
<1> QED BY <1>1, <1>2

LEMMA NobodyBacked ==
  ASSUME NEW c, NEW a, NEW s, c.rest = <<>>, c.foundation = "none", c.smoke = "none", c.decision = "none"
  PROVE  Backed(c, a, s)
BY GuardedNone DEF Backed

\* What a request knows is kept, its program is not shortened, and what stood stands.
LEMMA BackedKept ==
  ASSUME NEW c, NEW a, NEW s, NEW d, NEW b, NEW t, Backed(c, a, s), s \subseteq t,
         d.kind = c.kind, d.foundation = c.foundation, d.smoke = c.smoke, d.decision = c.decision,
         Guarded(c.rest, "weigh", "packet") => Guarded(d.rest, "weigh", "packet"),
         Guarded(c.rest, "weigh", "review") => Guarded(d.rest, "weigh", "review"),
         b.packet = a.packet \/ (b.packet.foundation = "measured_ready" => "benchmark" \in t),
         b.review = a.review \/ (b.review.smoke = "passed" => "pod" \in t)
  PROVE  Backed(d, b, t)
BY DEF Backed

LEMMA WorkIs ==
  ASSUME Formed, NEW h \in Handler
  PROVE  (call[h].kind # "none" <=> call[h].rest # <<>>) /\ call[h].rest \in Seq(Steps) /\ call[h] \in CallType
BY DEF Formed, CallOK, CallType

LEMMA StepBegins ==
  ASSUME IInv, Next, NEW h \in Handler, Begins(h)
  PROVE  IInv'
<1>1. Formed /\ LibraryOK /\ pod \in Pod /\ art \in ArtType
  BY DEF IInv, Formed
<1>2. Fresh(h, call'[h]) /\ call' \in [Handler -> CallType] /\ UNCHANGED <<library, pod, art>>
  BY DEF Begins
<1>3. Ordered(call'[h].rest) /\ call'[h].rest # <<>>
  BY <1>2, ProgramOrdered DEF Fresh
<1>4. CallOK(call'[h])
  <2>1. call'[h].kind # "none"
    BY <1>2 DEF Fresh, Kinds
  <2> QED BY <1>2, <1>3, <2>1 DEF CallOK, Fresh, Ordered
<1>5. \A g \in Handler \ {h} : CallOK(call'[g])
  BY <1>1, DisturbedIs DEF Begins, Disturbed
<1>6. LibraryOK'
  BY <1>1, <1>2 DEF LibraryOK, LibraryTypeOK, Catalogued, library
<1>7. Formed'
  BY <1>1, <1>2, <1>4, <1>5, <1>6 DEF Formed
<1>8. stood' \subseteq {"benchmark", "pod"}
  BY StoodGrows DEF IInv
<1>9. Backed(call'[h], art', stood')
  BY <1>2, <1>3 DEF Backed, Fresh, Ordered, Kinds
<1>10. ASSUME NEW g \in Handler \ {h} PROVE Backed(call'[g], art', stood')
  <2>1. /\ call'[g].rest = call[g].rest /\ call'[g].kind = call[g].kind /\ call'[g].foundation = call[g].foundation
        /\ call'[g].smoke = call[g].smoke /\ call'[g].decision = call[g].decision
    BY <1>1, DisturbedIs DEF Begins, Disturbed
  <2>2. Backed(call[g], art, stood)
    BY DEF IInv
  <2>3. CASE call[g].kind = "none"
    <3>1. call[g].rest = <<>>
      BY <1>1, <2>3, WorkIs
    <3> QED BY <2>1, <2>2, <2>3, <3>1, NobodyBacked DEF Backed
  <2>4. CASE call[g].kind # "none"
    <3>1. stood \subseteq stood'
      BY <2>4, StoodGrows
    <3> QED BY <1>2, <2>1, <2>2, <3>1, BackedKept
  <2> QED BY <2>3, <2>4
<1> QED BY <1>7, <1>8, <1>9, <1>10 DEF IInv

LEMMA StepMoves ==
  ASSUME IInv, Next, NEW h \in Handler, Moves(h), LibraryOK'
  PROVE  IInv'
<1>1. Formed /\ LibraryOK /\ pod \in Pod /\ art \in ArtType
  BY DEF IInv, Formed
<1>2. /\ call' \in [Handler -> CallType] /\ UNCHANGED <<pod, art>> /\ call[h].rest # <<>>
      /\ \A g \in Handler \ {h} : call'[g] = call[g]
  BY DEF Moves, OthersStay
<1> DEFINE c == call[h]
           d == call'[h]
<1>3. c.kind # "none" /\ c.rest \in Seq(Steps) /\ CallOK(c) /\ c \in CallType
  BY <1>1, <1>2, WorkIs DEF Formed
<1>4. stood \subseteq stood' /\ stood' \subseteq {"benchmark", "pod"}
  BY <1>3, StoodGrows DEF IInv
<1>5. ASSUME d # Idle
      PROVE  /\ Same(c, d) /\ d.rest # <<>>
             /\ Guarded(c.rest, "record", "count") => Guarded(d.rest, "record", "count")
             /\ Guarded(c.rest, "weigh", "packet") => Guarded(d.rest, "weigh", "packet")
             /\ Guarded(c.rest, "weigh", "review") => Guarded(d.rest, "weigh", "review")
  <2>1. Same(c, d)
    BY <1>5 DEF Moves
  <2>2. CASE d.rest = c.rest
    BY <1>2, <2>1, <2>2
  <2>3. CASE d.rest = <<"copy">> \o c.rest
    BY <1>3, <2>1, <2>3, GuardedCopy, CopyIs
  <2>4. CASE Head(c.rest) \notin {"count", "packet", "review"} /\ d.rest = Tail(c.rest) /\ Tail(c.rest) # <<>>
    BY <1>2, <1>3, <2>1, <2>4, GuardedTail
  <2> QED BY <1>5, <2>2, <2>3, <2>4 DEF Moves
<1>6. CallOK(d)
  <2>1. CASE d = Idle
    BY <2>1, IdleIs
  <2>2. CASE d # Idle
    BY <1>2, <1>3, <1>5, <2>2 DEF CallOK, Same
  <2> QED BY <2>1, <2>2
<1>7. Formed'
  BY <1>1, <1>2, <1>6 DEF Formed
<1>8. Backed(d, art', stood')
  <2>1. CASE d = Idle
    BY <2>1, IdleIs, NobodyBacked
  <2>2. CASE d # Idle
    <3>1. Backed(c, art, stood)
      BY DEF IInv
    <3> QED BY <1>2, <1>4, <1>5, <2>2, <3>1, BackedKept DEF Same
  <2> QED BY <2>1, <2>2
<1>9. ASSUME NEW g \in Handler \ {h} PROVE Backed(call'[g], art', stood')
  <2>1. Backed(call[g], art, stood)
    BY DEF IInv
  <2> QED BY <1>2, <1>4, <2>1, BackedKept
<1> QED BY <1>4, <1>7, <1>8, <1>9 DEF IInv

LEMMA StepChains ==
  ASSUME IInv, Next, NEW h \in Handler, Chains(h)
  PROVE  IInv'
<1>1. Formed /\ LibraryOK /\ pod \in Pod /\ art \in ArtType
  BY DEF IInv, Formed
<1> DEFINE c == call[h]
           d == call'[h]
           x == Head(c.rest)
<1>2. /\ call' \in [Handler -> CallType] /\ UNCHANGED <<library, pod>> /\ c.rest # <<>>
      /\ \A g \in Handler \ {h} : call'[g] = call[g]
  BY DEF Chains, Kept, OthersStay
<1>3. c.kind # "none" /\ c.rest \in Seq(Steps) /\ CallOK(c) /\ c \in CallType
  BY <1>1, <1>2, WorkIs DEF Formed
<1>4. stood \subseteq stood' /\ stood' \subseteq {"benchmark", "pod"}
  BY <1>3, StoodGrows DEF IInv
<1>5. LibraryOK'
  BY <1>1, <1>2 DEF LibraryOK, LibraryTypeOK, Catalogued, library
<1>6. Backed(c, art, stood)
  BY DEF IInv
<1>7. FoundationStatus = "measured_ready" => "benchmark" \in stood'
  <2>1. EvidenceComplete => EvidenceComplete'
    BY <1>2 DEF EvidenceComplete, library, Covered
  <2> QED BY <1>1, <2>1, FoundationRests, StoodGrows DEF LibraryOK
<1>8. SmokeStatus = "passed" => "pod" \in stood'
  <2>1. PodPasses => PodPasses'
    BY <1>2 DEF PodPasses
  <2> QED BY <1>1, <2>1, SmokeIs, StoodGrows
<1>9. /\ art' \in ArtType
      /\ art'.packet = art.packet \/ (art'.packet.foundation = "measured_ready" => "benchmark" \in stood')
      /\ art'.review = art.review \/ (art'.review.smoke = "passed" => "pod" \in stood')
      /\ x = "packet" => (art'.packet.foundation = "measured_ready" => "benchmark" \in stood')
      /\ x = "review" => (art'.review.smoke = "passed" => "pod" \in stood')
  <2>1. Writes(h)
    BY DEF Chains
  <2>2. x = "packet" => art'.packet.foundation = c.foundation
    BY <2>1 DEF Writes
  <2>3. x = "review" => art'.review.smoke = c.smoke
    BY <2>1 DEF Writes
  <2>4. (x # "packet" => art'.packet = art.packet) /\ (x # "review" => art'.review = art.review) /\ art' \in ArtType
    BY <2>1 DEF Writes
  <2>5. (c.foundation = "measured_ready" => "benchmark" \in stood') /\ (c.smoke = "passed" => "pod" \in stood')
    BY <1>4, <1>6 DEF Backed
  <2> QED BY <2>2, <2>3, <2>4, <2>5
<1>10. ASSUME d = Idle
       PROVE  CallOK(d) /\ Backed(d, art', stood')
  BY <1>10, IdleIs, NobodyBacked
<1>11. ASSUME d # Idle
       PROVE  CallOK(d) /\ Backed(d, art', stood')
  <2>1. Remembers(h)
    BY <1>11 DEF Chains
  <2>2. d.rest = Tail(c.rest) /\ d.rest # <<>> /\ d.kind = c.kind
    BY <2>1 DEF Remembers
  <2>3. CallOK(d)
    <3>1. x = "count" => d.status # "none"
      BY <2>1, RecordIs DEF Remembers, RecStatus
    <3>2. x # "count" => d.status = c.status
      BY <2>1 DEF Remembers
    <3>3. x # "count" => (Guarded(c.rest, "record", "count") => Guarded(d.rest, "record", "count"))
      BY <1>2, <1>3, <2>2, GuardedTail
    <3> QED BY <1>2, <1>3, <2>2, <3>1, <3>2, <3>3 DEF CallOK
  <2>4. d.foundation = "measured_ready" => "benchmark" \in stood'
    <3>1. d.foundation = IF x = "foundation" THEN FoundationStatus ELSE c.foundation
      BY <2>1 DEF Remembers
    <3> QED BY <1>4, <1>6, <1>7, <3>1 DEF Backed
  <2>5. d.smoke = "passed" => "pod" \in stood'
    <3>1. d.smoke = IF x = "look" THEN SmokeStatus ELSE c.smoke
      BY <2>1 DEF Remembers
    <3> QED BY <1>4, <1>6, <1>8, <3>1 DEF Backed
  <2>6. d.decision = "ready_for_default_review" => {"benchmark", "pod"} \subseteq stood'
    <3>1. d.decision = IF x = "weigh" THEN Decision(art.packet, art.review) ELSE c.decision
      BY <2>1 DEF Remembers
    <3>2. CASE x # "weigh"
      BY <1>4, <1>6, <3>1, <3>2 DEF Backed
    <3>3. CASE x = "weigh"
      <4>1. ~Guarded(c.rest, "weigh", "packet") /\ ~Guarded(c.rest, "weigh", "review")
        BY <1>2, <1>3, <3>3, GuardedTail
      <4>2. /\ art.packet.foundation = "measured_ready" => "benchmark" \in stood
            /\ art.review.smoke = "passed" => "pod" \in stood
        BY <1>6, <4>1 DEF Backed
      <4>3. d.decision = "ready_for_default_review" =>
              art.packet.foundation = "measured_ready" /\ art.review.smoke = "passed"
        BY <3>1, <3>3, DecisionIs
      <4> QED BY <1>4, <4>2, <4>3
    <3> QED BY <3>2, <3>3
  <2>7. Guarded(d.rest, "weigh", "packet") \/ (art'.packet.foundation = "measured_ready" => "benchmark" \in stood')
    <3>1. CASE x = "packet"
      BY <1>9, <3>1
    <3>2. CASE x # "packet"
      <4>1. Guarded(c.rest, "weigh", "packet") => Guarded(d.rest, "weigh", "packet")
        BY <1>2, <1>3, <2>2, <3>2, GuardedTail
      <4> QED BY <1>4, <1>6, <1>9, <4>1 DEF Backed
    <3> QED BY <3>1, <3>2
  <2>8. Guarded(d.rest, "weigh", "review") \/ (art'.review.smoke = "passed" => "pod" \in stood')
    <3>1. CASE x = "review"
      BY <1>9, <3>1
    <3>2. CASE x # "review"
      <4>1. Guarded(c.rest, "weigh", "review") => Guarded(d.rest, "weigh", "review")
        BY <1>2, <1>3, <2>2, <3>2, GuardedTail
      <4> QED BY <1>4, <1>6, <1>9, <4>1 DEF Backed
    <3> QED BY <3>1, <3>2
  <2> QED BY <1>3, <2>2, <2>3, <2>4, <2>5, <2>6, <2>7, <2>8 DEF Backed
<1>12. CallOK(d) /\ Backed(d, art', stood')
  BY <1>10, <1>11
<1>13. Formed'
  BY <1>1, <1>2, <1>5, <1>9, <1>12 DEF Formed
<1>14. ASSUME NEW g \in Handler \ {h} PROVE Backed(call'[g], art', stood')
  <2>1. Backed(call[g], art, stood)
    BY DEF IInv
  <2> QED BY <1>2, <1>4, <1>9, <2>1, BackedKept
<1> QED BY <1>4, <1>12, <1>13, <1>14 DEF IInv

LEMMA StepOutside ==
  ASSUME IInv, Next, Outside
  PROVE  IInv'
<1>1. Formed /\ art \in ArtType
  BY DEF IInv, Formed
<1>2. /\ LibraryOK' /\ pod' \in Pod /\ UNCHANGED art /\ call' \in [Handler -> CallType]
      /\ (\A g \in Handler : Disturbed(g)) \/ (\A g \in Handler : call'[g] = Idle)
  BY DEF Outside
<1>3. stood' \subseteq {"benchmark", "pod"}
  BY StoodGrows DEF IInv
<1>4. ASSUME NEW g \in Handler PROVE CallOK(call'[g]) /\ Backed(call'[g], art', stood')
  <2>1. CASE call'[g] = Idle
    BY <2>1, IdleIs, NobodyBacked
  <2>2. CASE Disturbed(g)
    <3>1. /\ call'[g].rest = call[g].rest /\ call'[g].kind = call[g].kind /\ call'[g].foundation = call[g].foundation
          /\ call'[g].smoke = call[g].smoke /\ call'[g].decision = call[g].decision /\ CallOK(call'[g])
      BY <1>1, <2>2, DisturbedIs DEF Disturbed
    <3>2. Backed(call[g], art, stood)
      BY DEF IInv
    <3>3. CASE call[g].kind = "none"
      <4>1. call[g].rest = <<>>
        BY <1>1, <3>3, WorkIs
      <4> QED BY <3>1, <3>2, <3>3, <4>1, NobodyBacked DEF Backed
    <3>4. CASE call[g].kind # "none"
      <4>1. stood \subseteq stood'
        BY <3>4, StoodGrows
      <4> QED BY <1>2, <3>1, <3>2, <4>1, BackedKept
    <3> QED BY <3>3, <3>4
  <2> QED BY <1>2, <2>1, <2>2
<1>5. Formed'
  BY <1>1, <1>2, <1>4 DEF Formed
<1> QED BY <1>3, <1>4, <1>5 DEF IInv

LEMMA StepIdles ==
  ASSUME IInv, UNCHANGED rvars
  PROVE  IInv'
BY DEF IInv, rvars, counts, Formed, library, LibraryOK, LibraryTypeOK, Catalogued

LEMMA InitIInv == Init => IInv
<1> SUFFICES ASSUME Init PROVE IInv
  OBVIOUS
<1>1. raw \in [Sample -> {"none", "right", "many"}] /\ reports \in [Single -> SUBSET Preference]
  BY DEF Init
<1>2. result \in [Sample -> Measurement]
  <2>1. NoMeasurement \in Measurement
    BY DEF NoMeasurement, Measurement
  <2>2. \A s \in Sample : [status |-> "measured", id |-> s] \in Measurement
    BY DEF Measurement
  <2>3. result = [s \in Sample |-> NoMeasurement] \/ result = [s \in Sample |-> [status |-> "measured", id |-> s]]
    BY DEF Init
  <2> QED BY <2>1, <2>2, <2>3
<1> DEFINE E(scope) == {[id |-> s, path |-> s, sources |-> Expected(s)] : s \in {s \in Sample : ScopeOf(s) = scope}}
           F(scope) == [exists |-> TRUE, measured |-> FALSE, entries |-> E(scope)]
<1>3. manifest = [scope \in Scope |-> NoManifest] \/ manifest = [scope \in Scope |-> F(scope)]
  BY DEF Init
<1>4. ASSUME NEW scope \in Scope
      PROVE  /\ E(scope) \in SUBSET Entry /\ \A e \in E(scope) : ScopeOf(e.id) = scope
             /\ \A e, f \in E(scope) : e.id = f.id => e = f
  <2>1. \A s \in Sample : [id |-> s, path |-> s, sources |-> Expected(s)] \in Entry
    BY DEF Entry, Expected
  <2> QED BY <2>1
<1> HIDE DEF E
<1>5. NoManifest \in Manifest /\ NoManifest.entries = {}
  BY DEF NoManifest, Manifest
<1>6. \A scope \in Scope : F(scope) \in Manifest /\ F(scope).exists /\ F(scope).entries = E(scope)
  BY <1>4 DEF Manifest
<1> HIDE DEF F
<1>7. /\ manifest \in [Scope -> Manifest]
      /\ \A scope \in Scope : \A e \in manifest[scope].entries : ScopeOf(e.id) = scope
      /\ Catalogued
  <2>1. CASE manifest = [scope \in Scope |-> NoManifest]
    BY <1>5, <2>1 DEF Catalogued
  <2>2. CASE manifest = [scope \in Scope |-> F(scope)]
    BY <1>4, <1>6, <2>2 DEF Catalogued
  <2> QED BY <1>3, <2>1, <2>2
<1>8. LibraryOK
  BY <1>1, <1>2, <1>7 DEF LibraryOK, LibraryTypeOK
<1>9. pod \in Pod
  BY DEF Init, Pod, NoEvidence
<1>10. art \in ArtType
  <2>1. art = NoArtifacts
    BY DEF Init
  <2> QED BY <2>1 DEF NoArtifacts, ArtType, ReviewType, PacketType, Reported, Smokes
<1>11. call = [h \in Handler |-> Idle]
  BY DEF Init
<1>12. Formed
  BY <1>8, <1>9, <1>10, <1>11, IdleIs DEF Formed
<1>13. stood \subseteq {"benchmark", "pod"}
  BY DEF Init, Facts
<1>14. \A h \in Handler : Backed(call[h], art, stood)
  BY <1>11, IdleIs, NobodyBacked
<1> QED BY <1>12, <1>13, <1>14 DEF IInv

LEMMA NextIInv == IInv /\ [Next]_rvars => IInv'
<1> SUFFICES ASSUME IInv, [Next]_rvars PROVE IInv'
  OBVIOUS
<1>1. CASE Next
  <2>1. Formed
    BY DEF IInv
  <2> QED BY <1>1, <2>1, EveryStep, StepBegins, StepMoves, StepChains, StepOutside
<1>2. CASE UNCHANGED rvars
  BY <1>2, StepIdles
<1> QED BY <1>1, <1>2

\* Well-formed files, and the backing of every request, in every state.
THEOREM IInvHolds == Spec => []IInv
BY InitIInv, NextIInv, PTL DEF Spec

LEMMA TypesFollow == IInv => ReleaseTypeOK
<1> SUFFICES ASSUME IInv PROVE ReleaseTypeOK
  OBVIOUS
<1>1. LibraryTypeOK /\ pod \in Pod /\ art \in ArtType /\ \A h \in Handler : CallOK(call[h])
  BY DEF IInv, Formed, LibraryOK
<1>2. \A h \in Handler : call[h].kind = "none" <=> call[h].rest = <<>>
  BY <1>1 DEF CallOK
<1> QED BY <1>1, <1>2 DEF IInv, ReleaseTypeOK, ArtType, RecStatus, Smokes, Decisions

LEMMA MeasuredFollows == IInv => MeasuredReadyMeansMeasured
<1> SUFFICES ASSUME IInv, FoundationStatus = "measured_ready" PROVE EvidenceComplete
  BY DEF MeasuredReadyMeansMeasured
<1>1. LibraryTypeOK
  BY DEF IInv, Formed, LibraryOK
<1> QED BY <1>1, FoundationRests

LEMMA DecisionFollows ==
  IInv /\ [Next]_rvars => [art'.decision = "ready_for_default_review" /\ (\E h \in Handler : WriteDecision(h))
                             => stood = {"benchmark", "pod"}]_rvars
<1> SUFFICES ASSUME IInv, art'.decision = "ready_for_default_review", NEW h \in Handler, WriteDecision(h)
             PROVE  stood = {"benchmark", "pod"}
  OBVIOUS
<1>1. art' = [art EXCEPT !.decision = call[h].decision] /\ art \in ArtType
  BY DEF WriteDecision, Puts, IInv, Formed
<1>2. call[h].decision = "ready_for_default_review"
  BY <1>1 DEF ArtType
<1>3. Backed(call[h], art, stood) /\ stood \subseteq {"benchmark", "pod"}
  BY DEF IInv
<1> QED BY <1>2, <1>3 DEF Backed

-----------------------------------------------------------------------------
\* The request for a decision that nobody disturbs.
\* Only a request for a decision writes one.
Undecided == Steps \ {"decision"}

LEMMA JoinIs ==
  ASSUME NEW U, NEW s \in Seq(U), NEW t \in Seq(U)
  PROVE  s \o t \in Seq(U)
OBVIOUS

LEMMA TwoOnes == ASSUME NEW U, NEW x \in U, NEW y \in U PROVE <<x, y>> \in Seq(U)
OBVIOUS

LEMMA UndecidedOnes ==
  /\ \A x \in Undecided : <<x>> \in Seq(Undecided)
  /\ <<>> \in Seq(Undecided) /\ <<"bridge", "batch">> \in Seq(Undecided) /\ <<"judge", "review">> \in Seq(Undecided)
  /\ <<"empty", "single", "manifest", "stub", "tri", "manifest", "stub">> \in Seq(Undecided)
  /\ {"single", "tri", "manifest", "stub", "smoke", "run", "batch", "bridge", "foundation", "packet"} \subseteq Undecided
BY DEF Undecided, Steps

LEMMA OnlyDecisions ==
  ASSUME NEW kind \in Kinds \ {"decision"}, NEW program \in Programs(kind)
  PROVE  program \in Seq(Undecided)
<1>b. Benchmark \in Seq(Undecided) /\ Gate \in Seq(Undecided)
  BY DEF Benchmark, Gate, Undecided, Steps
<1>r. Review \in Seq(Undecided)
  <2> DEFINE S == <<"smoke">>
             J == <<"judge", "review">>
  <2>1. S \in Seq(Undecided) /\ J \in Seq(Undecided)
    BY UndecidedOnes
  <2>2. Review = (S \o Gate) \o J
    BY DEF Review
  <2> HIDE DEF S, J
  <2> QED BY <1>b, <2>1, <2>2, JoinIs
<1>p. ASSUME NEW part \in Part PROVE Packet(part) \in Seq(Undecided)
  <2> DEFINE M == CASE part = "review" -> Review [] part = "gate" -> Gate
                    [] part = "smoke" -> <<"smoke">> [] part = "none" -> <<>>
  <2>1. M \in Seq(Undecided)
    <3>1. <<"smoke">> \in Seq(Undecided) /\ <<>> \in Seq(Undecided)
      BY UndecidedOnes
    <3>2. part \in {"review", "gate", "smoke", "none"}
      BY ReleaseAssumption
    <3>3. CASE part = "review"
      BY <1>r, <3>3
    <3>4. CASE part = "gate"
      BY <1>b, <3>4
    <3>5. CASE part = "smoke"
      BY <3>1, <3>5
    <3>6. CASE part = "none"
      BY <3>1, <3>6
    <3> QED BY <3>2, <3>3, <3>4, <3>5, <3>6
  <2> DEFINE F == <<"foundation">>
             Z == <<"packet">>
  <2>2. Packet(part) = ((Benchmark \o F) \o M) \o Z
    BY DEF Packet
  <2> HIDE DEF M
  <2>3. F \in Seq(Undecided) /\ Z \in Seq(Undecided)
    BY UndecidedOnes
  <2> HIDE DEF F, Z
  <2> QED BY <1>b, <2>1, <2>2, <2>3, JoinIs
<1>1. CASE kind = "sync"
  <2>1. program = <<"empty", "single", "manifest", "stub", "tri", "manifest", "stub">>
    BY <1>1 DEF Programs
  <2> QED BY <2>1, UndecidedOnes
<1>2. CASE kind = "scaffold"
  <2>1. PICK scope \in Scope, stubs \in {<<>>, <<"stub">>} : program = <<scope, "manifest">> \o stubs
    BY <1>2 DEF Programs
  <2>2. <<scope, "manifest">> \in Seq(Undecided) /\ stubs \in Seq(Undecided)
    <3>1. scope \in Undecided /\ "manifest" \in Undecided
      BY UndecidedOnes DEF Scope
    <3>2. <<scope, "manifest">> \in Seq(Undecided)
      BY <3>1, TwoOnes
    <3> QED BY <3>2, UndecidedOnes
  <2> QED BY <2>1, <2>2, JoinIs
<1>3. CASE kind \in {"single", "tri"}
  <2>1. <<"run">> \in Seq(Undecided)
    BY UndecidedOnes
  <2>2. program = <<"run">> \/ program = <<"run">> \o Benchmark
    BY <1>3 DEF Programs
  <2> QED BY <1>b, <2>1, <2>2, JoinIs
<1>4. CASE kind = "measure"
  <2>1. program = <<"batch">>
    BY <1>4 DEF Programs
  <2> QED BY <2>1, UndecidedOnes
<1>5. CASE kind = "bridge"
  <2>1. program = <<"bridge">>
    BY <1>5 DEF Programs
  <2> QED BY <2>1, UndecidedOnes
<1>6. CASE kind = "packet"
  <2>1. PICK part \in Part : program = <<"bridge", "batch">> \o Packet(part)
    BY <1>6 DEF Programs
  <2> QED BY <1>p, <2>1, JoinIs, UndecidedOnes
<1>7. CASE kind = "review"
  BY <1>r, <1>7 DEF Programs
<1> QED BY <1>1, <1>2, <1>3, <1>4, <1>5, <1>6, <1>7 DEF Kinds

\* What a request for a decision does, from the first step to the last.
Whole == <<"count", "record", "report", "foundation", "smoke", "smoke", "assess", "look", "gate",
           "judge", "review", "packet", "weigh", "decision">>

\* s is what the whole consists of after its first j steps, up to the k-th.
Piece(s, j, k) == s \in Seq(Steps) /\ Len(s) = k - j /\ \A i \in 1..(k - j) : s[i] = Whole[j + i]

LEMMA PieceConcat ==
  ASSUME NEW j \in 0..14, NEW k \in 0..14, NEW m \in 0..14, NEW s, NEW t, Piece(s, j, k), Piece(t, k, m)
  PROVE  Piece(s \o t, j, m)
<1>1. s \in Seq(Steps) /\ t \in Seq(Steps) /\ Len(s) = k - j /\ Len(t) = m - k
  BY DEF Piece
<1>2. /\ s \o t \in Seq(Steps) /\ Len(s \o t) = m - j /\ k - j \in Nat /\ m - k \in Nat
      /\ \A i \in 1..(k - j) : (s \o t)[i] = s[i]
      /\ \A i \in 1..(m - j) : i \in 1..(k - j) \/ (i - (k - j) \in 1..(m - k) /\ (s \o t)[i] = t[i - (k - j)])
  <2>1. /\ s \o t \in Seq(Steps) /\ Len(s \o t) = Len(s) + Len(t) /\ Len(s) \in Nat /\ Len(t) \in Nat
        /\ \A i \in 1..Len(s) : (s \o t)[i] = s[i]
        /\ \A i \in 1..Len(s \o t) : i \in 1..Len(s) \/ (i - Len(s) \in 1..Len(t) /\ (s \o t)[i] = t[i - Len(s)])
    BY <1>1, ConcatIs
  <2>2. Len(s \o t) = m - j
    BY <1>1, <2>1
  <2> QED BY <1>1, <2>1, <2>2
<1>3. ASSUME NEW i \in 1..(m - j) PROVE (s \o t)[i] = Whole[j + i]
  <2>1. CASE i \in 1..(k - j)
    BY <1>2, <2>1 DEF Piece
  <2>2. CASE i - (k - j) \in 1..(m - k) /\ (s \o t)[i] = t[i - (k - j)]
    <3>1. t[i - (k - j)] = Whole[k + (i - (k - j))]
      BY <2>2 DEF Piece
    <3>2. k + (i - (k - j)) = j + i
      BY <1>2
    <3> QED BY <2>2, <3>1, <3>2
  <2> QED BY <1>2, <2>1, <2>2
<1> QED BY <1>2, <1>3 DEF Piece

LEMMA WholeIs ==
  ASSUME NEW program \in Programs("decision")
  PROVE  Piece(program, 0, 14)
<1> DEFINE F == <<"foundation">>
           S == <<"smoke">>
           J == <<"judge", "review">>
           Z == <<"packet">>
           W == <<"weigh", "decision">>
<1>1. \A i \in 1..4 : i = 1 \/ i = 2 \/ i = 3 \/ i = 4
  OBVIOUS
<1>2. Piece(Benchmark, 0, 3)
  BY <1>1 DEF Piece, Benchmark, Whole, Steps
<1>3. Piece(F, 3, 4)
  BY <1>1 DEF Piece, Whole, Steps
<1>4. Piece(S, 4, 5)
  BY <1>1 DEF Piece, Whole, Steps
<1>5. Piece(Gate, 5, 9)
  BY <1>1 DEF Piece, Gate, Whole, Steps
<1>6. Piece(J, 9, 11)
  BY <1>1 DEF Piece, Whole, Steps
<1>7. Piece(Z, 11, 12)
  BY <1>1 DEF Piece, Whole, Steps
<1>8. Piece(W, 12, 14)
  BY <1>1 DEF Piece, Whole, Steps
<1>9. program = (((Benchmark \o F) \o ((S \o Gate) \o J)) \o Z) \o W
  <2>1. program = Packet("review") \o W
    BY DEF Programs
  <2>2. Packet("review") = ((Benchmark \o F) \o Review) \o Z
    BY DEF Packet
  <2>3. Review = (S \o Gate) \o J
    BY DEF Review
  <2> HIDE DEF F, S, J, Z, W
  <2> QED BY <2>1, <2>2, <2>3
<1> HIDE DEF F, S, J, Z, W
<1>0. {0, 3, 4, 5, 9, 11, 12, 14} \subseteq 0..14
  OBVIOUS
<1>10. Piece(Benchmark \o F, 0, 4)
  BY <1>0, <1>2, <1>3, PieceConcat
<1>11. Piece(S \o Gate, 4, 9)
  BY <1>0, <1>4, <1>5, PieceConcat
<1> DEFINE A == Benchmark \o F
           B == S \o Gate
<1>12. Piece(A, 0, 4) /\ Piece(B, 4, 9) /\ program = ((A \o (B \o J)) \o Z) \o W
  BY <1>9, <1>10, <1>11
<1> HIDE DEF A, B
<1>13. Piece(B \o J, 4, 11)
  BY <1>0, <1>6, <1>12, PieceConcat
<1>14. Piece(A \o (B \o J), 0, 11)
  BY <1>0, <1>12, <1>13, PieceConcat
<1>15. Piece((A \o (B \o J)) \o Z, 0, 12)
  BY <1>0, <1>7, <1>14, PieceConcat
<1>16. Piece(((A \o (B \o J)) \o Z) \o W, 0, 14)
  BY <1>0, <1>8, <1>15, PieceConcat
<1> QED BY <1>12, <1>16

-----------------------------------------------------------------------------
\* A request for a decision nobody disturbed: how much of its program is left, and
\* what it then knows of the evidence on file.
\* What the evidence on file says.
Evidence ==
  [record |-> RecordStatus, foundation |-> FoundationStatus, smoke |-> SmokeStatus,
   sound |-> (FoundationStatus = "measured_ready"), ready |-> (FoundationStatus = "measured_ready" /\ PodPasses),
   decision |-> IF FoundationStatus # "measured_ready" THEN "benchmark_evidence_incomplete"
                ELSE IF ~PodPasses THEN "hold_runpod_smoke_pending" ELSE "ready_for_default_review"]

ReviewOf(e) == [ready |-> e.ready, report |-> e.record, smoke |-> e.smoke]
PacketOf(e) == [benchmark |-> e.record, foundation |-> e.foundation]

\* With n steps left, request c and the artifacts a say what the evidence e says.
Knows(c, a, n, e) ==
  /\ n <= 13 => c.status = e.record
  /\ n <= 12 => a.record = e.record
  /\ n <= 11 => a.report = e.record
  /\ n <= 10 => c.foundation = e.foundation
  /\ n = 7 => c.ready = e.sound
  /\ n <= 6 => c.ready = e.ready /\ c.smoke = e.smoke
  /\ n <= 4 => c.report = e.record
  /\ n <= 3 => a.review = ReviewOf(e)
  /\ n <= 2 => a.packet = PacketOf(e)
  /\ n <= 1 => c.decision = e.decision

Follows(c, a, n, e) == n \in 1..14 /\ Piece(c.rest, 14 - n, 14) /\ Knows(c, a, n, e)

Lone(h) ==
  /\ call[h].kind \in Kinds \ {"decision"} => call[h].rest \in Seq(Undecided)
  /\ call[h].kind # "none" /\ call[h].solo => \A g \in Handler \ {h} : call[g].kind = "none"
  /\ call[h].kind = "decision" /\ call[h].solo => Follows(call[h], art, Len(call[h].rest), Evidence)

Loneness == \A h \in Handler : Lone(h)

LEMMA HeadIs ==
  ASSUME NEW c, NEW n \in 1..14, Piece(c, 14 - n, 14)
  PROVE  /\ c # <<>> /\ Head(c) = Whole[15 - n] /\ c \in Seq(Steps) /\ Len(c) = n
         /\ Tail(c) # <<>> => n - 1 \in 1..14 /\ Piece(Tail(c), 14 - (n - 1), 14)
<1>1. c \in Seq(Steps) /\ c # <<>> /\ Len(c) = n /\ \A i \in 1..n : c[i] = Whole[(14 - n) + i]
  <2>1. 14 - (14 - n) = n
    OBVIOUS
  <2> QED BY <2>1 DEF Piece
<1>2. /\ Tail(c) \in Seq(Steps) /\ Head(c) = c[1] /\ Len(Tail(c)) = n - 1
      /\ \A i \in 1..(n - 1) : Tail(c)[i] = c[i + 1]
  BY <1>1, TailIs
<1>3. Head(c) = Whole[15 - n]
  <2>1. 1 \in 1..n /\ (14 - n) + 1 = 15 - n
    OBVIOUS
  <2> QED BY <1>1, <1>2, <2>1
<1>4. ASSUME NEW i \in 1..(n - 1) PROVE Tail(c)[i] = Whole[(14 - (n - 1)) + i]
  <2>1. i + 1 \in 1..n /\ (14 - n) + (i + 1) = (14 - (n - 1)) + i
    OBVIOUS
  <2> QED BY <1>1, <1>2, <2>1
<1>5. Tail(c) # <<>> => n - 1 \in 1..14
  BY <1>2
<1>6. 14 - (14 - (n - 1)) = n - 1
  OBVIOUS
<1> QED BY <1>1, <1>2, <1>3, <1>4, <1>5, <1>6 DEF Piece

LEMMA EvidenceStays ==
  ASSUME UNCHANGED <<library, pod>>
  PROVE  /\ FoundationStatus' = FoundationStatus /\ RecordStatus' = RecordStatus /\ SmokeStatus' = SmokeStatus
         /\ PodPasses' = PodPasses
<1>1. RecordStatus' = RecordStatus
  BY DEF library, RecordStatus, Covered, Counted, Declared
<1>2. FoundationOk' = FoundationOk
  BY DEF library, FoundationOk, EntryInvalid, SourcesInvalid, BadReference
<1>3. FoundationStatus' = FoundationStatus
  BY <1>1, <1>2 DEF library, FoundationStatus, Covered
<1>4. SmokeBlockers' = SmokeBlockers
  BY DEF SmokeBlockers
<1>5. SmokeStatus' = SmokeStatus
  BY <1>4 DEF SmokeStatus
<1>6. PodPasses' = PodPasses
  BY DEF PodPasses
<1> QED BY <1>1, <1>3, <1>5, <1>6

LEMMA WholeSteps ==
  /\ Whole[1] = "count" /\ Whole[2] = "record" /\ Whole[3] = "report" /\ Whole[4] = "foundation" /\ Whole[5] = "smoke"
  /\ Whole[6] = "smoke" /\ Whole[7] = "assess" /\ Whole[8] = "look" /\ Whole[9] = "gate" /\ Whole[10] = "judge"
  /\ Whole[11] = "review" /\ Whole[12] = "packet" /\ Whole[13] = "weigh" /\ Whole[14] = "decision"
BY DEF Whole

\* Step x leaves request d and artifacts b of request c and artifacts a.
Takes(c, d, a, b, x, e) ==
  /\ d.status = IF x = "count" THEN e.record ELSE c.status
  /\ d.foundation = IF x = "foundation" THEN e.foundation ELSE c.foundation
  /\ d.smoke = IF x = "look" THEN e.smoke ELSE c.smoke
  /\ d.report = IF x = "judge" THEN a.report ELSE c.report
  /\ x \notin {"assess", "look"} => d.ready = c.ready
  /\ x = "assess" /\ a.record = e.record /\ a.report = e.record => d.ready = e.sound
  /\ x = "look" /\ c.ready = e.sound => d.ready = e.ready
  /\ x = "weigh" => (a.review = ReviewOf(e) /\ a.packet = PacketOf(e) => d.decision = e.decision)
  /\ b.record = IF x = "record" THEN c.status ELSE a.record
  /\ b.report = IF x = "report" THEN c.status ELSE a.report
  /\ b.review = IF x = "review" THEN [ready |-> c.ready, report |-> c.report, smoke |-> c.smoke] ELSE a.review
  /\ b.packet = IF x = "packet" THEN [benchmark |-> c.status, foundation |-> c.foundation] ELSE a.packet

\* The next step takes over what the request is to know.
LEMMA KnowsOn ==
  ASSUME NEW c, NEW d, NEW a, NEW b, NEW n, NEW e, NEW x,
         n \in 2..14, x = Whole[15 - n], Knows(c, a, n, e), Takes(c, d, a, b, x, e)
  PROVE  Knows(d, b, n - 1, e)
<1>1. CASE n = 14
  <2>1. 15 - n = 1 /\ n - 1 = 13
    BY <1>1
  <2>2. x = "count"
    BY <2>1, WholeSteps
  <2> QED BY <1>1, <2>1, <2>2 DEF Knows, Takes, ReviewOf, PacketOf
<1>2. CASE n = 13
  <2>1. 15 - n = 2 /\ n - 1 = 12
    BY <1>2
  <2>2. x = "record"
    BY <2>1, WholeSteps
  <2> QED BY <1>2, <2>1, <2>2 DEF Knows, Takes, ReviewOf, PacketOf
<1>3. CASE n = 12
  <2>1. 15 - n = 3 /\ n - 1 = 11
    BY <1>3
  <2>2. x = "report"
    BY <2>1, WholeSteps
  <2> QED BY <1>3, <2>1, <2>2 DEF Knows, Takes, ReviewOf, PacketOf
<1>4. CASE n = 11
  <2>1. 15 - n = 4 /\ n - 1 = 10
    BY <1>4
  <2>2. x = "foundation"
    BY <2>1, WholeSteps
  <2> QED BY <1>4, <2>1, <2>2 DEF Knows, Takes, ReviewOf, PacketOf
<1>5. CASE n = 10
  <2>1. 15 - n = 5 /\ n - 1 = 9
    BY <1>5
  <2>2. x = "smoke"
    BY <2>1, WholeSteps
  <2> QED BY <1>5, <2>1, <2>2 DEF Knows, Takes, ReviewOf, PacketOf
<1>6. CASE n = 9
  <2>1. 15 - n = 6 /\ n - 1 = 8
    BY <1>6
  <2>2. x = "smoke"
    BY <2>1, WholeSteps
  <2> QED BY <1>6, <2>1, <2>2 DEF Knows, Takes, ReviewOf, PacketOf
<1>7. CASE n = 8
  <2>1. 15 - n = 7 /\ n - 1 = 7
    BY <1>7
  <2>2. x = "assess"
    BY <2>1, WholeSteps
  <2> QED BY <1>7, <2>1, <2>2 DEF Knows, Takes, ReviewOf, PacketOf
<1>8. CASE n = 7
  <2>1. 15 - n = 8 /\ n - 1 = 6
    BY <1>8
  <2>2. x = "look"
    BY <2>1, WholeSteps
  <2> QED BY <1>8, <2>1, <2>2 DEF Knows, Takes, ReviewOf, PacketOf
<1>9. CASE n = 6
  <2>1. 15 - n = 9 /\ n - 1 = 5
    BY <1>9
  <2>2. x = "gate"
    BY <2>1, WholeSteps
  <2> QED BY <1>9, <2>1, <2>2 DEF Knows, Takes, ReviewOf, PacketOf
<1>10. CASE n = 5
  <2>1. 15 - n = 10 /\ n - 1 = 4
    BY <1>10
  <2>2. x = "judge"
    BY <2>1, WholeSteps
  <2> QED BY <1>10, <2>1, <2>2 DEF Knows, Takes, ReviewOf, PacketOf
<1>11. CASE n = 4
  <2>1. 15 - n = 11 /\ n - 1 = 3
    BY <1>11
  <2>2. x = "review"
    BY <2>1, WholeSteps
  <2> QED BY <1>11, <2>1, <2>2 DEF Knows, Takes, ReviewOf, PacketOf
<1>12. CASE n = 3
  <2>1. 15 - n = 12 /\ n - 1 = 2
    BY <1>12
  <2>2. x = "packet"
    BY <2>1, WholeSteps
  <2> QED BY <1>12, <2>1, <2>2 DEF Knows, Takes, ReviewOf, PacketOf
<1>13. CASE n = 2
  <2>1. 15 - n = 13 /\ n - 1 = 1
    BY <1>13
  <2>2. x = "weigh"
    BY <2>1, WholeSteps
  <2> QED BY <1>13, <2>1, <2>2 DEF Knows, Takes, ReviewOf, PacketOf
<1> QED BY <1>1, <1>2, <1>3, <1>4, <1>5, <1>6, <1>7, <1>8, <1>9, <1>10, <1>11, <1>12, <1>13

LEMMA EvidenceKept == ASSUME UNCHANGED <<library, pod>> PROVE Evidence' = Evidence
BY EvidenceStays DEF Evidence

LEMMA FollowsOn ==
  ASSUME IInv, NEW h \in Handler, Chains(h), call'[h] # Idle,
         Follows(call[h], art, Len(call[h].rest), Evidence)
  PROVE  Follows(call'[h], art', Len(call'[h].rest), Evidence)
<1> DEFINE c == call[h]
           d == call'[h]
           x == Head(c.rest)
           e == Evidence
<1>0. Formed /\ pod \in Pod /\ LibraryTypeOK
  BY DEF IInv, Formed, LibraryOK
<1>1. PICK n \in 1..14 : Piece(c.rest, 14 - n, 14) /\ Knows(c, art, n, e)
  BY DEF Follows
<1> DEFINE m == n - 1
<1>2. x = Whole[15 - n] /\ (Tail(c.rest) # <<>> => m \in 1..14 /\ Piece(Tail(c.rest), 14 - m, 14))
  BY <1>1, HeadIs
<1>3. Remembers(h) /\ Writes(h)
  BY DEF Chains
<1>4. d.rest = Tail(c.rest) /\ m \in 1..14 /\ Piece(d.rest, 14 - m, 14)
  BY <1>2, <1>3 DEF Remembers
<1>5. Len(d.rest) = m
  BY <1>4, HeadIs
<1>6. n \in 2..14
  BY <1>1, <1>4
<1>7. /\ e.record = RecordStatus /\ e.foundation = FoundationStatus /\ e.smoke = SmokeStatus
      /\ e.sound = (FoundationStatus = "measured_ready") /\ e.ready = (FoundationStatus = "measured_ready" /\ PodPasses)
      /\ e.decision = IF FoundationStatus # "measured_ready" THEN "benchmark_evidence_incomplete"
                      ELSE IF ~PodPasses THEN "hold_runpod_smoke_pending" ELSE "ready_for_default_review"
  BY DEF Evidence
<1>8. /\ FoundationStatus = "measured_ready" => RecordStatus = "measured"
      /\ SmokeBlockers = {} <=> PodPasses
      /\ SmokeStatus = "passed" <=> PodPasses
  BY <1>0, FoundationIs, NoBlocker, SmokeIs
<1>9. x = "assess" /\ art.record = e.record /\ art.report = e.record => d.ready = e.sound
  <2> SUFFICES ASSUME x = "assess", art.record = e.record, art.report = e.record PROVE d.ready = e.sound
    OBVIOUS
  <2>1. d.ready = ~BenchmarkBlocked
    BY <1>3 DEF Remembers
  <2>2. ~BenchmarkBlocked <=> FoundationStatus = "measured_ready"
    BY <1>7, <1>8 DEF BenchmarkBlocked
  <2> QED BY <1>7, <2>1, <2>2
<1>10. x = "look" /\ c.ready = e.sound => d.ready = e.ready
  <2> SUFFICES ASSUME x = "look", c.ready = e.sound PROVE d.ready = e.ready
    OBVIOUS
  <2>1. d.ready = (c.ready /\ SmokeBlockers = {})
    BY <1>3 DEF Remembers
  <2> QED BY <1>7, <1>8, <2>1
<1>11. x = "weigh" /\ art.review = ReviewOf(e) /\ art.packet = PacketOf(e) => d.decision = e.decision
  <2> SUFFICES ASSUME x = "weigh", art.review = ReviewOf(e), art.packet = PacketOf(e) PROVE d.decision = e.decision
    OBVIOUS
  <2>1. d.decision = Decision(art.packet, art.review)
    BY <1>3 DEF Remembers
  <2>2. /\ art.review.ready = e.ready /\ art.review.report = e.record /\ art.review.smoke = e.smoke
        /\ art.packet.benchmark = e.record /\ art.packet.foundation = e.foundation
    BY DEF ReviewOf, PacketOf
  <2>3. d.decision = IF e.record # "measured" \/ e.foundation # "measured_ready"
                       THEN "benchmark_evidence_incomplete"
                     ELSE IF e.smoke # "passed" THEN "hold_runpod_smoke_pending"
                     ELSE IF e.ready THEN "ready_for_default_review" ELSE "hold_review_pending"
    BY <2>1, <2>2, DecisionIs
  <2>4. e.ready <=> FoundationStatus = "measured_ready" /\ PodPasses
    BY <1>7
  <2> QED BY <1>7, <1>8, <2>3, <2>4
<1>12. /\ d.status = IF x = "count" THEN e.record ELSE c.status
       /\ d.foundation = IF x = "foundation" THEN e.foundation ELSE c.foundation
       /\ d.smoke = IF x = "look" THEN e.smoke ELSE c.smoke
       /\ d.report = IF x = "judge" THEN art.report ELSE c.report
       /\ x \notin {"assess", "look"} => d.ready = c.ready
  BY <1>3, <1>7 DEF Remembers
<1>13. /\ art'.record = IF x = "record" THEN c.status ELSE art.record
       /\ art'.report = IF x = "report" THEN c.status ELSE art.report
       /\ art'.review = IF x = "review" THEN [ready |-> c.ready, report |-> c.report, smoke |-> c.smoke] ELSE art.review
       /\ art'.packet = IF x = "packet" THEN [benchmark |-> c.status, foundation |-> c.foundation] ELSE art.packet
  BY <1>3 DEF Writes
<1> HIDE DEF c, d, x, e
<1>14. Takes(c, d, art, art', x, e)
  BY <1>9, <1>10, <1>11, <1>12, <1>13 DEF Takes
<1>15. Knows(d, art', n - 1, e)
  <2>2. x = Whole[15 - n]
    BY <1>2
  <2>3. Knows(c, art, n, e)
    BY <1>1
  <2> QED BY <2>2, <2>3, <1>6, <1>14, KnowsOn, Zenon
<1> QED BY <1>4, <1>5, <1>15 DEF Follows, d, e

-----------------------------------------------------------------------------
\* A request whose memory and program another one's step leaves alone.
LEMMA LibraryHead ==
  ASSUME NEW h \in Handler, LibraryStep(h)
  PROVE  Head(call[h].rest) \in {"empty", "copy", "single", "tri", "manifest", "stub", "run", "bridge", "batch"}
BY DEF LibraryStep, Empty, Copy, Scaffold, Scope, WriteManifest, Stub, RunSingle, RunTri, RunDone, Bridge, Batch, At

LEMMA UndecidedOn ==
  ASSUME NEW s \in Seq(Undecided)
  PROVE  /\ s # <<>> => Head(s) \in Undecided /\ Tail(s) \in Seq(Undecided)
         /\ <<"copy">> \o s \in Seq(Undecided)
<1>1. <<"copy">> \in Seq(Undecided)
  <2>1. "copy" \in Undecided
    BY DEF Undecided, Steps
  <2> QED BY <2>1, UndecidedOnes
<1> QED BY <1>1, JoinIs

LEMMA NobodyLone == ASSUME NEW h, call[h].kind = "none" PROVE Lone(h)
BY DEF Lone, Kinds

LEMMA BeginsAlone ==
  ASSUME IInv, Loneness, NEW h \in Handler, Begins(h)
  PROVE  Loneness'
<1>1. Fresh(h, call'[h]) /\ call[h].kind = "none" /\ Formed
  BY DEF Begins, IInv
<1>2. \A g \in Handler \ {h} : call'[g].kind = call[g].kind /\ call'[g].rest = call[g].rest /\ ~call'[g].solo
  BY <1>1, DisturbedIs DEF Begins, Disturbed
<1>3. ASSUME NEW g \in Handler \ {h} PROVE Lone(g)'
  <2>1. Lone(g)
    BY DEF Loneness
  <2> QED BY <1>2, <2>1 DEF Lone
<1>4. Lone(h)'
  <2>1. call'[h].kind \in Kinds \ {"decision"} => call'[h].rest \in Seq(Undecided)
    BY <1>1, OnlyDecisions DEF Fresh
  <2>2. call'[h].solo => \A g \in Handler \ {h} : call'[g].kind = "none"
    BY <1>1, <1>2 DEF Fresh
  <2>3. call'[h].kind = "decision" => Follows(call'[h], art', Len(call'[h].rest), Evidence')
    <3> SUFFICES ASSUME call'[h].kind = "decision" PROVE Follows(call'[h], art', Len(call'[h].rest), Evidence')
      OBVIOUS
    <3>1. Piece(call'[h].rest, 0, 14)
      BY <1>1, WholeIs DEF Fresh
    <3>2. 14 - 14 = 0 /\ 14 - 0 = 14 /\ 14 \in 1..14
      OBVIOUS
    <3>3. Len(call'[h].rest) = 14
      BY <3>1, <3>2 DEF Piece
    <3>4. Knows(call'[h], art', 14, Evidence')
      BY DEF Knows
    <3> QED BY <3>1, <3>2, <3>3, <3>4 DEF Follows
  <2> QED BY <2>1, <2>2, <2>3 DEF Lone
<1> QED BY <1>3, <1>4 DEF Loneness

LEMMA OthersLone ==
  ASSUME IInv, Loneness, NEW h \in Handler, call[h].rest # <<>>, OthersStay(h), NEW g \in Handler \ {h}
  PROVE  Lone(g)' /\ (call[h].solo => call'[g].kind = "none")
<1>1. Lone(g) /\ Lone(h) /\ call[h].kind # "none"
  BY WorkIs DEF Loneness, IInv
<1>2. call'[g] = call[g]
  BY DEF OthersStay
<1>3. ~(call[g].kind # "none" /\ call[g].solo)
  BY <1>1 DEF Lone
<1> QED BY <1>1, <1>2, <1>3 DEF Lone, Kinds

LEMMA MovesAlone ==
  ASSUME IInv, Loneness, NEW h \in Handler, Moves(h), LibraryStep(h)
  PROVE  Loneness'
<1> DEFINE c == call[h]
           d == call'[h]
<1>1. c.rest # <<>> /\ OthersStay(h) /\ Lone(h) /\ c.kind # "none"
  BY WorkIs DEF Moves, Loneness, IInv
<1>2. \A g \in Handler \ {h} : Lone(g)' /\ (c.solo => call'[g].kind = "none")
  BY <1>1, OthersLone
<1>3. Lone(h)'
  <2>1. CASE d = Idle
    BY <2>1, IdleIs, NobodyLone DEF Lone, Kinds
  <2>2. CASE d # Idle
    <3>1. d.kind = c.kind /\ d.solo = c.solo
      BY <2>2 DEF Moves, Same
    <3>2. c.rest \in Seq(Undecided) => d.rest \in Seq(Undecided)
      BY <1>1, <2>2, UndecidedOn DEF Moves
    <3>3. ~(c.kind = "decision" /\ c.solo)
      <4> SUFFICES ASSUME c.kind = "decision", c.solo PROVE FALSE
        OBVIOUS
      <4>0. Len(c.rest) \in 1..14 /\ Piece(c.rest, 14 - Len(c.rest), 14)
        BY <1>1 DEF Lone, Follows
      <4>1. PICK n \in 1..14 : Piece(c.rest, 14 - n, 14)
        BY <4>0
      <4>2. Head(c.rest) = Whole[15 - n] /\ 15 - n \in 1..14
        BY <4>1, HeadIs
      <4>3. \A i \in 1..14 : Whole[i] \notin {"empty", "copy", "single", "tri", "manifest", "stub", "run", "bridge", "batch"}
        <5>1. \A i \in 1..14 : \/ i = 1 \/ i = 2 \/ i = 3 \/ i = 4 \/ i = 5 \/ i = 6 \/ i = 7
                               \/ i = 8 \/ i = 9 \/ i = 10 \/ i = 11 \/ i = 12 \/ i = 13 \/ i = 14
          OBVIOUS
        <5> QED BY <5>1, WholeSteps
      <4> QED BY <4>2, <4>3, LibraryHead
    <3> QED BY <1>1, <1>2, <3>1, <3>2, <3>3 DEF Lone
  <2> QED BY <2>1, <2>2
<1> QED BY <1>2, <1>3 DEF Loneness

LEMMA ChainsAlone ==
  ASSUME IInv, Loneness, NEW h \in Handler, Chains(h)
  PROVE  Loneness'
<1> DEFINE c == call[h]
           d == call'[h]
<1>1. c.rest # <<>> /\ OthersStay(h) /\ Lone(h) /\ c.kind # "none" /\ UNCHANGED <<library, pod>>
  BY WorkIs DEF Chains, Kept, Loneness, IInv
<1>2. \A g \in Handler \ {h} : Lone(g)' /\ (c.solo => call'[g].kind = "none")
  BY <1>1, OthersLone
<1>3. Lone(h)'
  <2>1. CASE d = Idle
    BY <2>1, IdleIs, NobodyLone DEF Lone, Kinds
  <2>2. CASE d # Idle
    <3>1. d.kind = c.kind /\ d.solo = c.solo /\ d.rest = Tail(c.rest)
      BY <2>2 DEF Chains, Remembers
    <3>2. c.rest \in Seq(Undecided) => d.rest \in Seq(Undecided)
      BY <1>1, <3>1, UndecidedOn
    <3>3. c.kind = "decision" /\ c.solo => Follows(d, art', Len(d.rest), Evidence)
      BY <1>1, <2>2, FollowsOn DEF Lone
    <3>4. Evidence' = Evidence
      BY <1>1, EvidenceKept
    <3> QED BY <1>1, <1>2, <3>1, <3>2, <3>3, <3>4 DEF Lone
  <2> QED BY <2>1, <2>2
<1> QED BY <1>2, <1>3 DEF Loneness

LEMMA OutsideAlone ==
  ASSUME IInv, Loneness, Outside
  PROVE  Loneness'
<1>1. Formed
  BY DEF IInv
<1>2. ASSUME NEW g \in Handler PROVE Lone(g)'
  <2>1. CASE call'[g] = Idle
    BY <2>1, IdleIs DEF Lone, Kinds
  <2>2. CASE Disturbed(g)
    <3>1. call'[g].kind = call[g].kind /\ call'[g].rest = call[g].rest /\ ~call'[g].solo
      BY <1>1, <2>2, DisturbedIs DEF Disturbed
    <3>2. Lone(g)
      BY DEF Loneness
    <3> QED BY <3>1, <3>2 DEF Lone
  <2> QED BY <2>1, <2>2 DEF Outside
<1> QED BY <1>2 DEF Loneness

LEMMA IdlesAlone ==
  ASSUME Loneness, UNCHANGED rvars
  PROVE  Loneness'
<1>1. Evidence' = Evidence /\ UNCHANGED <<art, call>>
  BY EvidenceKept DEF rvars
<1> QED BY <1>1 DEF Loneness, Lone

LEMMA InitAlone == Init => Loneness
<1> SUFFICES ASSUME Init PROVE Loneness
  OBVIOUS
<1>1. \A h \in Handler : call[h].kind = "none"
  BY IdleIs DEF Init
<1> QED BY <1>1, NobodyLone DEF Loneness

LEMMA NextAlone == IInv /\ Loneness /\ [Next]_rvars => Loneness'
<1> SUFFICES ASSUME IInv, Loneness, [Next]_rvars PROVE Loneness'
  OBVIOUS
<1>1. CASE Next
  <2>1. Formed
    BY DEF IInv
  <2> QED BY <1>1, <2>1, EveryStep, BeginsAlone, MovesAlone, ChainsAlone, OutsideAlone
<1>2. CASE UNCHANGED rvars
  BY <1>2, IdlesAlone
<1> QED BY <1>1, <1>2

LEMMA CalledIs == ASSUME IInv PROVE Called = Evidence.decision
<1>1. LibraryOK /\ LibraryTypeOK
  BY DEF IInv, Formed, LibraryOK
<1>2. FoundationStatus = "measured_ready" <=> EvidenceComplete
  BY <1>1, EvidenceFound, FoundationRests
<1>3. ("benchmark" \in Facts <=> EvidenceComplete) /\ ("pod" \in Facts <=> PodPasses)
  BY DEF Facts, PodPasses
<1>4. Evidence.decision = IF FoundationStatus # "measured_ready" THEN "benchmark_evidence_incomplete"
                          ELSE IF ~PodPasses THEN "hold_runpod_smoke_pending" ELSE "ready_for_default_review"
  BY DEF Evidence
<1> QED BY <1>2, <1>3, <1>4 DEF Called

LEMMA CalledForFollows ==
  IInv /\ Loneness /\ [Next]_rvars => [\A h \in Handler : call[h].solo /\ WriteDecision(h) => art'.decision = Called]_rvars
<1> SUFFICES ASSUME IInv, Loneness, NEW h \in Handler, call[h].solo, WriteDecision(h)
             PROVE  art'.decision = Called
  OBVIOUS
<1> DEFINE c == call[h]
<1>1. art' = [art EXCEPT !.decision = c.decision] /\ art \in ArtType
  BY DEF WriteDecision, Puts, IInv, Formed
<1>2. art'.decision = c.decision
  BY <1>1 DEF ArtType
<1>3. c.rest # <<>> /\ Head(c.rest) = "decision" /\ Lone(h) /\ c.kind # "none" /\ c \in CallType
  BY WorkIs DEF WriteDecision, Puts, At, Loneness, IInv
<1>4. c.kind = "decision"
  <2>1. c.rest \notin Seq(Undecided)
    BY <1>3, UndecidedOn DEF Undecided
  <2> QED BY <1>3, <2>1 DEF Lone, CallType
<1> DEFINE n == Len(c.rest)
<1>5. Follows(c, art, n, Evidence)
  BY <1>3, <1>4 DEF Lone
<1>6. n \in 1..14 /\ Whole[15 - n] = "decision"
  BY <1>3, <1>5, HeadIs DEF Follows
<1> HIDE DEF n
<1>7. n = 1
  <2>1. \A i \in 1..14 : i # 14 => Whole[i] # "decision"
    <3>1. \A i \in 1..14 : \/ i = 1 \/ i = 2 \/ i = 3 \/ i = 4 \/ i = 5 \/ i = 6 \/ i = 7
                           \/ i = 8 \/ i = 9 \/ i = 10 \/ i = 11 \/ i = 12 \/ i = 13 \/ i = 14
      OBVIOUS
    <3> QED BY <3>1, WholeSteps
  <2>2. 15 - n \in 1..14 /\ (15 - n = 14 => n = 1)
    BY <1>6
  <2> QED BY <1>6, <2>1, <2>2
<1>8. c.decision = Evidence.decision
  BY <1>5, <1>7 DEF Follows, Knows
<1> QED BY <1>2, <1>8, CalledIs

-----------------------------------------------------------------------------
\* The theorems.

\* Library, pod, artifacts and requests are well formed: records are counted before they
\* are written, a request is over when its program is.
THEOREM ReleaseTypesHold == Spec => []ReleaseTypeOK
BY IInvHolds, TypesFollow, PTL

\* A foundation that is measured_ready rests on a measurement of its own for every sample
\* of both manifests, however they were scaffolded, edited and measured.
THEOREM MeasuredReadyHolds == Spec => []MeasuredReadyMeansMeasured
BY IInvHolds, MeasuredFollows, PTL

\* However many requests overlap, a decision for the default engine is made after complete
\* evidence and a passing pod both stood while requests were at work.
THEOREM BackedDecisionsHold == Spec => DecisionIsBacked
BY InitIInv, NextIInv, DecisionFollows, PTL DEF Spec, DecisionIsBacked

\* A decision nobody disturbed is the one the evidence on file calls for, whatever earlier
\* releases left in record, report, review and packet.
THEOREM SoloDecisionHolds == Spec => SoloDecisionIsCalledFor
BY InitIInv, NextIInv, InitAlone, NextAlone, CalledForFollows, PTL DEF Spec, SoloDecisionIsCalledFor
=============================================================================
