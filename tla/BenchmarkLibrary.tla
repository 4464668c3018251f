-------------------------- MODULE BenchmarkLibrary --------------------------
(***************************************************************************)
(* The evidence of the RAW benchmark on file: the sample library, the two  *)
(* official manifests, the measurement every manifest entry declares, and  *)
(* the SingleRaw reports measurements are derived from.  What the backend  *)
(* makes of these files: rawprep_benchmark_service.py.                     *)
(*                                                                         *)
(* One sample stands for each TriRaw bucket.  Scaffolded result paths are  *)
(* named by their sample; a manifest edited by hand may declare any.       *)
(***************************************************************************)
EXTENDS Naturals, FiniteSets

CONSTANTS
  Single,            \* SingleRaw samples
  Tri,               \* TriRaw samples, one for each bucket
  Preference,        \* mode preferences a SingleRaw run writes its reports by
  NoPath             \* a manifest entry declares no result path

ASSUME LibraryAssumption == Single \cap Tri = {} /\ Tri # {} /\ NoPath \notin Single \cup Tri

VARIABLES
  raw,               \* the RAW files in a sample's directory: none, too many, or right
  manifest,          \* the manifests, by scope
  result,            \* the measurement file at each result path
  reports            \* the runs that left a report.json of a SingleRaw sample

library == <<raw, manifest, result, reports>>

Sample  == Single \cup Tri
Scope   == {"single", "tri"}
ScopeOf(s) == IF s \in Single THEN "single" ELSE "tri"

\* sources: the length of source_paths, for a SingleRaw entry whether raw_path is there.
Entry    == [id : Sample, path : Sample \cup {NoPath}, sources : {0, 1, 3, 9}]
Manifest == [exists : BOOLEAN, measured : BOOLEAN, entries : SUBSET Entry]
Measurement == [status : {"absent", "torn", "pending", "measured"}, id : Sample \cup {NoPath}]

NoManifest    == [exists |-> FALSE, measured |-> FALSE, entries |-> {}]
NoMeasurement == [status |-> "absent", id |-> NoPath]
Expected(s)   == IF s \in Single THEN 1 ELSE 3

-----------------------------------------------------------------------------
\* What is measured.  The statistics count a measurement whoever's it is.

Declared(scope) == {e \in manifest[scope].entries : e.path # NoPath}
Counted(scope)  == {e \in Declared(scope) : result[e.path].status = "measured"}
Covered(scope)  == {e.id : e \in manifest[scope].entries}

\* _load_measurement raises on a file that is not JSON, and with it whatever
\* builds a record.
Raises == \E scope \in Scope : \E e \in Declared(scope) : result[e.path].status = "torn"

\* build_rawprep_benchmark_record; the report takes its status over.
RecordStatus ==
  IF /\ manifest["single"].entries # {}
     /\ Tri \subseteq Covered("tri")
     /\ \A scope \in Scope : Counted(scope) = manifest[scope].entries
    THEN "measured"
    ELSE IF \E scope \in Scope : manifest[scope].entries # {}
      THEN "partially_populated" ELSE "foundation_ready"

\* Seeded fault: whose measurement it is is not looked at.
BadReferenceIfMissing(e) == result[e.path].status = "absent"

\* _validate_measurement_reference: the file is missing or another sample's.
BadReference(e) == result[e.path].status = "absent" \/ result[e.path].id # e.id

SourcesInvalid(e) == IF e.id \in Single THEN e.sources = 0 ELSE e.sources # 3

EntryInvalid(scope, e) ==
  \/ SourcesInvalid(e)
  \/ IF e.path = NoPath THEN manifest[scope].measured ELSE BadReference(e)
  \/ \E other \in manifest[scope].entries \ {e} : other.id = e.id

FoundationOk ==
  \A scope \in Scope :
    manifest[scope].exists /\ \A e \in manifest[scope].entries : ~EntryInvalid(scope, e)

\* build_rawprep_benchmark_foundation_health.
FoundationStatus ==
  CASE ~FoundationOk -> "blocked"
    [] FoundationOk /\ RecordStatus = "measured" -> "measured_ready"
    [] FoundationOk /\ RecordStatus = "foundation_ready" -> "foundation_ready"
    [] FoundationOk /\ RecordStatus = "partially_populated" ->
         IF manifest["single"].entries = {} \/ ~(Tri \subseteq Covered("tri"))
           THEN "population_incomplete" ELSE "measurement_incomplete"

-----------------------------------------------------------------------------
\* Measurements.

\* _resolve_measurement_target: the one entry of the sample, in whichever manifest.
Matches(s)   == {m \in Scope \X Entry : m[2] \in manifest[m[1]].entries /\ m[2].id = s}
HasTarget(s) == Cardinality(Matches(s)) = 1 /\ \A m \in Matches(s) : m[2].path # NoPath
Target(s)    == (CHOOSE m \in Matches(s) : TRUE)[2].path

\* write_rawprep_benchmark_measurement; without a target it raises and writes nothing.
WriteMeasurement(s, status) ==
  result' = IF HasTarget(s) THEN [result EXCEPT ![Target(s)] = [status |-> status, id |-> s]]
                            ELSE result

\* What the write then returns with: it builds the foundation health for its answer.
WriteRaises(s) == ~HasTarget(s) \/ Raises'

\* build_rawprep_benchmark_measurement_report_scaffold: the samples whose one
\* report is to be bridged.  A pending stub counts as a measurement here.
ScaffoldEntries(existingToo) ==
  {e.id : e \in {e \in manifest["single"].entries :
     /\ e.id \in Single => Cardinality(reports[e.id]) = 1
     /\ e.id \in Single
     /\ ~existingToo /\ e.path # NoPath => result[e.path].status = "absent"}}

-----------------------------------------------------------------------------
\* The scaffold of a manifest from the sample library.

\* Seeded fault: neither scope leaves the other's samples out.
DiscoveredAnywhere(scope) ==
  {[id |-> s, path |-> s, sources |-> Expected(s)] : s \in {s \in Sample : raw[s] = "right"}}

\* _single_raw_entries and _tri_raw_entries: directories with the right number of files.
Discovered(scope) ==
  {[id |-> s, path |-> s, sources |-> Expected(s)] :
     s \in {s \in Sample : ScopeOf(s) = scope /\ raw[s] = "right"}}

\* _merge_manifest_payload keeps, if asked to, entries that were not found again
\* and the result paths of those that were.
Merged(scope, preserve) ==
  LET found == Discovered(scope)
      old   == manifest[scope].entries
      Keeps(e) == {o \in old : o.id = e.id /\ o.path # NoPath}
  IN  [exists |-> TRUE, measured |-> FALSE,
       entries |-> IF preserve
         THEN {IF Keeps(e) = {} THEN e ELSE [e EXCEPT !.path = (CHOOSE o \in Keeps(e) : TRUE).path] : e \in found}
              \cup {o \in old : \A e \in found : e.id # o.id}
         ELSE found]

\* Before a sample is run its sources are looked for.
RunSources(e) ==
  /\ raw[e.id] # "none"
  /\ IF e.id \in Single THEN e.sources # 0 ELSE e.sources \in {3, 9}

\* Somebody works on the library by hand: a sample's files, or its entry.
EditRaw(s, files) ==
  /\ raw' = [raw EXCEPT ![s] = files]
  /\ UNCHANGED <<manifest, result, reports>>

EditEntry(s, e, measured) ==
  /\ manifest' = [manifest EXCEPT ![ScopeOf(s)] =
       [exists |-> TRUE, measured |-> measured, entries |-> {o \in @.entries : o.id # s} \cup {e}]]
  /\ UNCHANGED <<raw, result, reports>>

-----------------------------------------------------------------------------
LibraryTypeOK ==
  /\ raw \in [Sample -> {"none", "right", "many"}]
  /\ manifest \in [Scope -> Manifest]
  /\ \A scope \in Scope : \A e \in manifest[scope].entries : ScopeOf(e.id) = scope
  /\ result \in [Sample -> Measurement]
  /\ reports \in [Single -> SUBSET Preference]

\* Every official sample is measured by a result of its own, every bucket has one,
\* and there is a gold set: what a release decision is to rest on.
EvidenceComplete ==
  /\ Covered("single") # {} /\ Tri \subseteq Covered("tri")
  /\ \A scope \in Scope : \A e \in manifest[scope].entries :
       /\ e.path # NoPath
       /\ result[e.path] = [status |-> "measured", id |-> e.id]
       /\ IF e.id \in Single THEN e.sources # 0 ELSE e.sources = 3
=============================================================================
