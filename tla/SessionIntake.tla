---------------------------- MODULE SessionIntake ----------------------------
(***************************************************************************)
(* How photos get into a session: uploads and intakes that stage files,    *)
(* run the raw engine and write the plan, and DreamISP developing the      *)
(* result anew.  Two uploads of the same second, or with the same session  *)
(* id, share the session's directories.                                    *)
(***************************************************************************)
EXTENDS SessionDelivery, SingleRaw

CONSTANTS
  Shape,             \* what is uploaded: "raw", "image", "bracket" or "odd"
  Preference,        \* the entry asked for: "auto", "rawprep" or "direct_edit"
  QualityPreset,     \* "balanced" or "safe"
  ModePreference     \* "auto", "fast", "safe" or "hq"

VARIABLES
  disk,              \* whose content each file of the session has; 0: it is not there
  plan               \* studio_intake.json

intake == <<disk, plan>>

NoPlan == [of |-> 0, entry |-> "none", single |-> Planned, editable |-> "none", isp |-> FALSE]

\* resolve_entry_mode.
EntryMode(shape, preference) ==
  CASE shape = "bracket" -> IF preference = "direct_edit" THEN "direct_edit_raw" ELSE "rawprep_bracket"
    [] shape = "raw" /\ preference # "rawprep" -> "direct_edit_raw"
    [] shape = "image" /\ preference # "rawprep" -> "direct_edit_image"
    [] OTHER -> "refused"

IntakeSteps == <<"stage", "editable", "decode", "isp", "tearPlan", "plan">>

\* POST /intake names files of the server, /intake/upload brings its own.
BeginIntake(h) ==
  /\ \E kind \in {"intake", "upload"}, shape \in Shape, p \in Preference, q \in QualityPreset, m \in ModePreference :
       Begins(h, [Idle EXCEPT !.kind = kind,
                    !.rest = IF kind = "upload" THEN <<"openUploads", "receive">> \o IntakeSteps \o <<"clearUploads">>
                             ELSE IntakeSteps,
                    !.ask = [shape |-> shape, entry |-> EntryMode(shape, p), mode |-> ResolvedMode(q, m)],
                    !.hold = [NoPlan EXCEPT !.of = requests + 1]])
  /\ UNCHANGED <<sfiles, delivery, intake, changes>>

Mine(h) == call[h].hold.of

OpenUploads(h) ==
  /\ At(h, "openUploads")
  /\ disk' = [disk EXCEPT !.uploads = TRUE]
  /\ Goes(h, call[h])
  /\ UNCHANGED <<sfiles, delivery, plan, scounts>>

\* What fails in an upload still removes the directory, of whoever else uses it too.
Refuses(h) == IF call[h].kind = "upload" THEN Stays(h, [call[h] EXCEPT !.rest = <<"clearUploads">>]) ELSE Fails(h)

\* Files of the same name overwrite each other.
Receive(h) ==
  /\ At(h, "receive")
  /\ IF disk.uploads THEN disk' = [disk EXCEPT !.received = Mine(h)] /\ Goes(h, call[h])
     ELSE Fails(h) /\ UNCHANGED disk
  /\ UNCHANGED <<sfiles, delivery, plan, scounts>>

\* Validated, sorted out and copied.
Stage(h) ==
  /\ At(h, "stage")
  /\ IF call[h].ask.entry = "refused" \/ (call[h].kind = "upload" /\ disk.received = 0)
     THEN Refuses(h) /\ UNCHANGED disk
     ELSE /\ disk' = [disk EXCEPT !.staged = IF call[h].kind = "upload" THEN disk.received ELSE Mine(h)]
          /\ Goes(h, [call[h] EXCEPT !.hold.entry = call[h].ask.entry])
  /\ UNCHANGED <<sfiles, delivery, plan, scounts>>

\* Seeded fault: the preview of an earlier upload will do.
PrepareEditableOnce(h) ==
  /\ At(h, "editable")
  /\ \E found \in (IF call[h].ask.shape = "image" THEN {FALSE} ELSE BOOLEAN) :
       /\ disk' = [disk EXCEPT !.proxy = IF found /\ @ = 0 THEN disk.staged ELSE @]
       /\ Goes(h, [call[h] EXCEPT !.hold.editable = IF found THEN "proxy" ELSE "staged"])
  /\ UNCHANGED <<sfiles, delivery, plan, scounts>>

\* prepare_editable_asset: a companion or embedded preview of a RAW, or the file itself.
PrepareEditable(h) ==
  /\ At(h, "editable")
  /\ \E found \in (IF call[h].ask.shape = "image" THEN {FALSE} ELSE BOOLEAN) :
       /\ disk' = [disk EXCEPT !.proxy = IF found THEN disk.staged ELSE @]
       /\ Goes(h, [call[h] EXCEPT !.hold.editable = IF found THEN "proxy" ELSE "staged"])
  /\ UNCHANGED <<sfiles, delivery, plan, scounts>>

\* build_single_raw_intake_plan: only for a RAW edited directly; writing may fail.
DecodeRaw(h) ==
  /\ At(h, "decode")
  /\ \/ Refuses(h) /\ UNCHANGED disk
     \/ \E decodes \in (IF call[h].hold.entry = "direct_edit_raw" THEN BOOLEAN ELSE {FALSE}) :
          LET single == IF call[h].hold.entry # "direct_edit_raw" THEN Planned
                        ELSE Materialized(call[h].ask.mode, decodes, call[h].hold.editable = "proxy")
              bytes  == IF single.source = "sensor" THEN disk.staged ELSE disk.proxy
          IN  /\ disk' = IF HandsOver(single) THEN [disk EXCEPT !.preview = bytes, !.linear = bytes] ELSE disk
              /\ Goes(h, [call[h] EXCEPT !.hold.single = single,
                                         !.hold.editable = IF HandsOver(single) THEN "preview" ELSE @])
  /\ UNCHANGED <<sfiles, delivery, plan, scounts>>

\* render_dreamisp_preview: the scene-linear master, else the preview of the plan.
Developed(text) ==
  IF disk.linear # 0 THEN disk.linear ELSE IF text.editable = "preview" THEN disk.preview ELSE 0

\* build_single_raw_dreamisp_plan.
HandToISP(h) ==
  /\ At(h, "isp")
  /\ IF HandsOver(call[h].hold.single)
     THEN /\ disk' = [disk EXCEPT !.rendered = Developed(call[h].hold)]
          /\ Goes(h, [call[h] EXCEPT !.hold.editable = "rendered", !.hold.isp = TRUE])
     ELSE UNCHANGED disk /\ Goes(h, call[h])
  /\ UNCHANGED <<sfiles, delivery, plan, scounts>>

TearPlan(h) ==
  /\ At(h, "tearPlan")
  /\ plan' = Torn(plan)
  /\ Goes(h, call[h])
  /\ UNCHANGED <<sfiles, delivery, disk, scounts>>

WritePlan(h) ==
  /\ At(h, "plan")
  /\ plan' = File(call[h].hold)
  /\ Goes(h, call[h])
  /\ UNCHANGED <<sfiles, delivery, disk, scounts>>

ClearUploads(h) ==
  /\ At(h, "clearUploads")
  /\ disk' = [disk EXCEPT !.uploads = FALSE, !.received = 0]
  /\ Goes(h, call[h])
  /\ UNCHANGED <<sfiles, delivery, plan, scounts>>

-----------------------------------------------------------------------------
\* apply_dreamisp_workspace_profile: the plan is read, the picture rendered with the
\* controls asked for, and the copy of the plan written back.
BeginDevelop(h) ==
  /\ Begins(h, [Idle EXCEPT !.kind = "develop", !.rest = <<"openPlan", "render", "tearPlan", "plan">>])
  /\ UNCHANGED <<sfiles, delivery, intake, changes>>

OpenPlan(h) ==
  /\ At(h, "openPlan")
  /\ IF plan.torn \/ ~plan.text.isp THEN Fails(h)
     ELSE Goes(h, [call[h] EXCEPT !.hold = plan.text])
  /\ UNCHANGED <<sfiles, delivery, intake, scounts>>

Render(h) ==
  /\ At(h, "render")
  /\ IF Developed(call[h].hold) # 0
     THEN /\ disk' = [disk EXCEPT !.rendered = Developed(call[h].hold)]
          /\ Goes(h, [call[h] EXCEPT !.hold.editable = "rendered"])
     ELSE UNCHANGED disk /\ Goes(h, call[h])
  /\ UNCHANGED <<sfiles, delivery, plan, scounts>>

\* Uploads are served on the event loop; one leaves it only while it receives its files.
LoopIsFree(h) ==
  call[h].kind = "upload" =>
    \A g \in Handler \ {h} : call[g].kind = "upload" => Head(call[g].rest) \in {"openUploads", "receive"}

ServeIntake(h) ==
  \/ BeginIntake(h) \/ BeginDevelop(h)
  \/ /\ LoopIsFree(h)
     /\ \/ OpenUploads(h) \/ Receive(h) \/ Stage(h) \/ PrepareEditable(h) \/ DecodeRaw(h) \/ HandToISP(h)
        \/ TearPlan(h) \/ WritePlan(h) \/ ClearUploads(h) \/ OpenPlan(h) \/ Render(h)

IntakeInit ==
  /\ DeliveryInit
  /\ disk = [uploads |-> FALSE, received |-> 0, staged |-> 0, proxy |-> 0, preview |-> 0, linear |-> 0, rendered |-> 0]
  /\ plan = File(NoPlan)

IntakeStep ==
  \/ \E h \in Handler : ServeIntake(h)
  \/ DeliveryStep /\ UNCHANGED intake

ivars == <<dvars, intake>>

IntakeSpec == IntakeInit /\ [][IntakeStep]_ivars

-----------------------------------------------------------------------------
\* The content of the file a plan names as the one to edit.
EditableContent(text) ==
  CASE text.editable = "staged" -> disk.staged
    [] text.editable = "proxy" -> disk.proxy
    [] text.editable = "preview" -> disk.preview
    [] text.editable = "rendered" -> disk.rendered
    [] text.editable = "none" -> text.of

\* The files are those of the photos the plan is about, from the upload to the file the
\* user is to edit.
IsOfItsPhotos(text) ==
  /\ disk.staged = text.of /\ EditableContent(text) = text.of
  /\ text.isp => disk.linear = text.of

\* A plan that nothing overlapped is about the photos it was asked for; DreamISP, if the
\* plan it developed was, renders those photos and no others.
LonePlanIsOfItsPhotos ==
  [][\A h \in Handler :
       /\ call[h].solo /\ WritePlan(h)
       /\ call[h].kind = "develop" => IsOfItsPhotos(plan.text)
       => IsOfItsPhotos(plan'.text)]_ivars
=============================================================================
