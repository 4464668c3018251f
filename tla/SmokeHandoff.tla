---------------------------- MODULE SmokeHandoff ----------------------------
(***************************************************************************)
(* At the desk: how a RAW sample gets into DreamCatcher.zip on its way to  *)
(* a pod.  Requests plan the smoke, stage the sample in a tree and an      *)
(* archive, embed the archive in the zip and write the handoff that tells  *)
(* the operator to upload it; scripts rebuild the zip beside them.  Each   *)
(* writes several files one after the other, and nothing is locked.        *)
(***************************************************************************)
EXTENDS Naturals, Sequences

CONSTANTS
  Sample,            \* SingleRaw samples of the manifest
  Nothing,           \* no sample
  Handler,           \* requests and scripts at work at the same time
  Kind,              \* the kinds of them there are in this instance
  MaxRequests,       \* bound: requests
  MaxChanges         \* bound: crashes, and changes of the sources or samples

ASSUME HandoffAssumption ==
  /\ Nothing \notin Sample /\ Kind \subseteq {"stage", "handoff", "script", "preflight"}
  /\ MaxRequests \in Nat /\ MaxChanges \in Nat

VARIABLES
  files,             \* the samples whose RAW file is there
  source,            \* the version of the sources the zip is built from
  app,               \* DreamCatcher.zip: at the root of the repository, and in Product
  tree, archive,     \* the staged tree and its archive
  handoff,           \* the handoff on file
  call,              \* the requests
  requests, changes

files_  == <<files, source>>
counts  == <<requests, changes>>
desk    == <<files, source, app, tree, archive, handoff>>
hvars   == <<desk, call, counts>>

Place == {"root", "product"}

\* A zip is there once code is packed in it; embed is what its smoke bundle holds.
Zip       == [code : Nat, bundled : BOOLEAN, embed : SUBSET Sample]
NoZip     == [code |-> 0, bundled |-> FALSE, embed |-> {}]
NoArchive == [exists |-> FALSE, holds |-> {}]
NoHandoff == [status |-> "none", sample |-> Nothing]

Idle == [kind |-> "none", rest |-> <<>>, want |-> Nothing, sample |-> Nothing,
         ready |-> FALSE, hold |-> NoZip, solo |-> TRUE]

At(h, step)  == call[h].rest # <<>> /\ Head(call[h].rest) = step
Stays(h, c)  == call' = [call EXCEPT ![h] = c]
Goes(h, c)   == Stays(h, IF Tail(c.rest) = <<>> THEN Idle ELSE [c EXCEPT !.rest = Tail(c.rest)])
Fails(h)     == Stays(h, Idle)

-----------------------------------------------------------------------------
\* _resolve_sample_entry: the sample asked for, or one whose file is there, or any.
Selections(want) ==
  IF want # Nothing THEN {want} ELSE IF files # {} THEN files ELSE Sample

\* What the app bundle, the archive and the plan's status come to.
HandoffStatus(zip, arc, ready) ==
  CASE zip.code = 0 /\ ~arc.exists -> "missing_app_and_smoke_bundle"
    [] zip.code = 0 /\ arc.exists -> "missing_app_bundle"
    [] zip.code # 0 /\ ~(ready /\ arc.exists) -> "missing_smoke_bundle"
    [] zip.code # 0 /\ ready /\ arc.exists -> IF zip.bundled THEN "ready_for_upload" ELSE "app_bundle_embed_pending"

\* Seeded fault: a bundle that is in the zip already is taken for this one.
EmbeddedOnce(zip, arc) == IF zip.bundled THEN zip ELSE [zip EXCEPT !.bundled = TRUE, !.embed = arc.holds]

\* _embed_smoke_bundle_into_app_bundle replaces another bundle's bytes.
Embedded(zip, arc) == [zip EXCEPT !.bundled = TRUE, !.embed = arc.holds]

-----------------------------------------------------------------------------
\* The steps of each kind of request.  The handoff script rebuilds the zip first,
\* unless told to skip that; preflight_release_bundle.py builds it in Product.
Stage   == <<"plan", "clear", "wipe", "copy", "zip">>
Handoff == Stage \o <<"embed", "replace", "handoff">>

Programs ==
  [stage     |-> Stage,
   handoff   |-> Handoff,
   script    |-> <<"unlink", "pack", "verify">> \o Handoff,
   preflight |-> <<"unlink", "pack", "verify">>]

PlaceOf(kind) == IF kind = "preflight" THEN "product" ELSE "root"

Request(kind, want, solo) ==
  [Idle EXCEPT !.kind = kind, !.rest = Programs[kind], !.want = want, !.solo = solo]

Begin(h) ==
  /\ call[h].kind = "none" /\ requests < MaxRequests
  /\ \E kind \in Kind, want \in Sample \cup {Nothing} :
       /\ kind = "preflight" => want = Nothing
       /\ call' = [g \in Handler |->
            IF g = h THEN Request(kind, want, \A o \in Handler : call[o].kind = "none")
            ELSE [call[g] EXCEPT !.solo = @ /\ call[g].kind = "none"]]
  /\ requests' = requests + 1
  /\ UNCHANGED <<desk, changes>>

\* build_release_bundle removes the old zip, bundle and all, before it packs a new one.
Unlink(h) ==
  /\ At(h, "unlink")
  /\ app' = [app EXCEPT ![PlaceOf(call[h].kind)] = NoZip]
  /\ Goes(h, call[h])
  /\ UNCHANGED <<files_, tree, archive, handoff, counts>>

Pack(h) ==
  /\ At(h, "pack")
  /\ app' = [app EXCEPT ![PlaceOf(call[h].kind)] = [NoZip EXCEPT !.code = source]]
  /\ Goes(h, call[h])
  /\ UNCHANGED <<files_, tree, archive, handoff, counts>>

\* A zip that does not pass stays where it is; the script ends.
Verify(h) ==
  /\ At(h, "verify")
  /\ Goes(h, call[h]) \/ Fails(h)
  /\ UNCHANGED <<desk, counts>>

Plan(h) ==
  /\ At(h, "plan")
  /\ \E s \in Selections(call[h].want) :
       Goes(h, [call[h] EXCEPT !.sample = s, !.ready = s \in files])
  /\ UNCHANGED <<desk, counts>>

\* write_rawprep_benchmark_runpod_smoke_stage; without a sample the tree and the
\* archive of an earlier one are gone all the same.
Clear(h) ==
  /\ At(h, "clear")
  /\ tree' = {} /\ archive' = NoArchive
  /\ Stays(h, LET rest == Tail(call[h].rest)
                  skip == IF call[h].ready THEN rest ELSE SubSeq(rest, 4, Len(rest))
              IN  IF skip = <<>> THEN Idle ELSE [call[h] EXCEPT !.rest = skip])
  /\ UNCHANGED <<files_, app, handoff, counts>>

\* _write_stage_tree clears the tree once more, and raises if the RAW file has gone.
Wipe(h) ==
  /\ At(h, "wipe")
  /\ tree' = {}
  /\ Goes(h, call[h])
  /\ UNCHANGED <<files_, app, archive, handoff, counts>>

Copy(h) ==
  /\ At(h, "copy")
  /\ IF call[h].sample \in files THEN tree' = tree \cup {call[h].sample} /\ Goes(h, call[h])
                                 ELSE UNCHANGED tree /\ Fails(h)
  /\ UNCHANGED <<files_, app, archive, handoff, counts>>

\* _write_stage_archive packs whatever is in the tree.
Archive(h) ==
  /\ At(h, "zip")
  /\ archive' = [exists |-> TRUE, holds |-> tree]
  /\ Goes(h, call[h])
  /\ UNCHANGED <<files_, app, tree, handoff, counts>>

\* A zip without a bundle gets one appended; one with another bundle is rebuilt beside
\* itself first, from what it holds now.
Embed(h) ==
  /\ At(h, "embed")
  /\ LET zip == app["root"]
         new == Embedded(zip, archive)
     IN  IF ~call[h].ready \/ zip.code = 0 \/ ~archive.exists \/ ~zip.bundled \/ new = zip
           THEN /\ Stays(h, [call[h] EXCEPT !.rest = Tail(Tail(call[h].rest))])
                /\ app' = IF call[h].ready /\ zip.code # 0 /\ archive.exists /\ ~zip.bundled
                            THEN [app EXCEPT !["root"] = new] ELSE app
           ELSE /\ Goes(h, [call[h] EXCEPT !.hold = new])
                /\ UNCHANGED app
  /\ UNCHANGED <<files_, tree, archive, handoff, counts>>

Replace(h) ==
  /\ At(h, "replace")
  /\ app' = [app EXCEPT !["root"] = call[h].hold]
  /\ Goes(h, call[h])
  /\ UNCHANGED <<files_, tree, archive, handoff, counts>>

\* _build_handoff_from_stage looks at the zip and the archive for itself.
WriteHandoff(h) ==
  /\ At(h, "handoff")
  /\ handoff' = [status |-> HandoffStatus(app["root"], archive, call[h].ready), sample |-> call[h].sample]
  /\ Goes(h, call[h])
  /\ UNCHANGED <<files_, app, tree, archive, counts>>

Serve(h) ==
  \/ Begin(h) \/ Unlink(h) \/ Pack(h) \/ Verify(h) \/ Plan(h) \/ Clear(h) \/ Wipe(h)
  \/ Copy(h) \/ Archive(h) \/ Embed(h) \/ Replace(h) \/ WriteHandoff(h)

\* Samples are synchronised anew, the sources are worked on, a request dies.
Change ==
  /\ changes < MaxChanges /\ changes' = changes + 1
  /\ \/ files' \in SUBSET Sample /\ files' # files /\ UNCHANGED source
     \/ source' = source + 1 /\ UNCHANGED files
  /\ call' = [h \in Handler |-> [call[h] EXCEPT !.solo = call[h].kind = "none"]]
  /\ UNCHANGED <<app, tree, archive, handoff, requests>>

Crash(h) ==
  /\ changes < MaxChanges /\ changes' = changes + 1
  /\ call[h].kind # "none"
  /\ Fails(h)
  /\ UNCHANGED <<desk, requests>>

HandoffInit ==
  /\ files = Sample /\ source = 1
  /\ app = [p \in Place |-> NoZip]
  /\ tree = {} /\ archive = NoArchive
  /\ handoff = NoHandoff
  /\ call = [h \in Handler |-> Idle]
  /\ requests = 0 /\ changes = 0

HandoffStep == (\E h \in Handler : Serve(h) \/ Crash(h)) \/ Change

HandoffSpec == HandoffInit /\ [][HandoffStep]_hvars

-----------------------------------------------------------------------------
\* Files and requests are well formed.
HandoffTypeOK ==
  /\ files \subseteq Sample /\ source \in Nat
  /\ app \in [Place -> Zip]
  /\ tree \subseteq Sample /\ archive.holds \subseteq Sample
  /\ \A h \in Handler : call[h].kind = "none" <=> call[h].rest = <<>>

\* A handoff that nobody interfered with says ready only of a zip that carries the
\* sample its commands are about, and after the script's rebuild the sources as they are.
SoloHandoffIsTrue ==
  [][\A h \in Handler : call[h].solo /\ WriteHandoff(h) /\ handoff'.status = "ready_for_upload"
       => /\ app["root"].embed = {call[h].sample}
          /\ call[h].kind = "script" => app["root"].code = source]_hvars
=============================================================================
