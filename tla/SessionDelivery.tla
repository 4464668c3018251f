--------------------------- MODULE SessionDelivery ---------------------------
(***************************************************************************)
(* What leaves a session: delivery packages, recovery packets, and the     *)
(* pause of the pod that may be tied to a packet.  A package is put        *)
(* together in a directory named by the second and the label, which two    *)
(* exports may share, and which each removes when it ends.                 *)
(***************************************************************************)
EXTENDS SessionFiles

CONSTANTS Room       \* directories packages are put together in

VARIABLES
  raw,               \* what the raw preparation of the session has come to
  room,              \* the files in each directory; None: there is no such directory
  zips,              \* the packages' zips: is the archive closed yet, and its files
  newest,            \* the zip that was written to last, or 0
  packet,            \* the recovery packet on file
  paused             \* whether the pod was stopped upon a packet

delivery == <<raw, room, zips, newest, packet, paused>>

\* Items: the upload, its editable copy, the raw artifacts; a job stands for its output.
RawItem == {"scene_linear", "preview"}

\* The manifest is a file like the others; each file is its owner's.
Manifest == "manifest"

\* Whatever a package may hold.
Item == Job \cup RawItem \cup {"working", "staged", Manifest}

\* A directory that is not there can be told from whatever is in one.
ASSUME DeliveryAssumption == \A F \in SUBSET (Handler \X Item) : F # None

NoPacket == [archive |-> 0, ready |-> FALSE]

\* build_delivery_preset_items: the result shown is that of the job saved last, if that
\* has outputs, else the raw preparation's.
Outputs == {j \in Job : j = latest /\ job[j] = "done"}

LatestResult ==
  IF Outputs # {} THEN Outputs
  ELSE IF raw = {} THEN {} ELSE {IF "preview" \in raw THEN "preview" ELSE "scene_linear"}

PresetItems(preset) ==
  LatestResult \cup {"working"} \cup (raw \cap {"scene_linear"})
    \cup (IF preset \in {"review_pack", "master_archive"} THEN raw \cap {"preview"} ELSE {})
    \cup (IF preset = "master_archive" THEN {"staged"} \cup raw \cup Outputs ELSE {})

-----------------------------------------------------------------------------
PackSteps == <<"items", "room", "copy", "manifest", "zip", "clear">>

Preset == {"review_pack", "client_delivery", "master_archive"}

\* /export/package names its files; /export/preset and /export/batch choose them by preset;
\* the batch writes a report after its packages.
BeginPackage(h) ==
  /\ \/ \E p \in Preset : Begins(h, [Idle EXCEPT !.kind = "package", !.rest = PackSteps, !.ask = p])
     \/ Begins(h, [Idle EXCEPT !.kind = "package", !.rest = Tail(PackSteps), !.ask = "files",
                               !.hold = [items |-> {"staged"}, room |-> None, zip |-> 0]])
  /\ UNCHANGED <<sfiles, delivery, changes>>

\* /export/recovery, and /ops/provider/pause with require_recovery_ready.
BeginRecovery(h) ==
  /\ \E fresh \in BOOLEAN, kind \in {"recovery", "pause"} :
       Begins(h, [Idle EXCEPT !.kind = kind, !.ask = IF fresh THEN "master_archive" ELSE None,
                   !.rest = (IF fresh THEN PackSteps ELSE <<"find">>) \o <<"packet">>
                            \o IF kind = "pause" THEN <<"pause">> ELSE <<>>])
  /\ UNCHANGED <<sfiles, delivery, changes>>

ChooseItems(h) ==
  /\ At(h, "items")
  /\ Goes(h, [call[h] EXCEPT !.hold = [items |-> PresetItems(call[h].ask), room |-> None, zip |-> 0]])
  /\ UNCHANGED <<sfiles, delivery, scounts>>

\* Whoever has a directory, under which label; a recovery's is its own.
InRoom(g, r) == call[g].kind \in {"package", "recovery", "pause"} /\ call[g].hold # None /\ call[g].hold.room = r
SameLabel(g, h) == call[g].ask = call[h].ask /\ (call[g].kind = "package" <=> call[h].kind = "package")

\* A directory of this second: a new one, or that of an export with the same label.
OpenRoom(h) ==
  /\ At(h, "room")
  /\ \E r \in Room :
       /\ \/ room[r] = None /\ \A g \in Handler : ~InRoom(g, r)
          \/ \E g \in Handler \ {h} : InRoom(g, r) /\ SameLabel(g, h)
       /\ room' = [room EXCEPT ![r] = IF @ = None THEN {} ELSE @]
       /\ Goes(h, [call[h] EXCEPT !.hold.room = r])
  /\ UNCHANGED <<sfiles, raw, zips, newest, packet, paused, scounts>>

MyRoom(h) == call[h].hold.room

\* What fails in the directory still removes it; a recovery or a pause ends with it.
FailsInRoom(h) == Stays(h, [call[h] EXCEPT !.rest = <<"clear">>])

\* _unique_package_name keeps both files when names meet.
CopyItems(h) ==
  /\ At(h, "copy")
  /\ IF room[MyRoom(h)] # None /\ call[h].hold.items # {}
     THEN /\ room' = [room EXCEPT ![MyRoom(h)] = @ \cup {<<h, i>> : i \in call[h].hold.items}]
          /\ Goes(h, call[h])
     ELSE FailsInRoom(h) /\ UNCHANGED room
  /\ UNCHANGED <<sfiles, raw, zips, newest, packet, paused, scounts>>

\* Seeded fault: the directory is removed before the zip is built.
ManifestAndClear(h) ==
  /\ At(h, "manifest")
  /\ room' = [room EXCEPT ![MyRoom(h)] = None]
  /\ Goes(h, call[h])
  /\ UNCHANGED <<sfiles, raw, zips, newest, packet, paused, scounts>>

WriteManifest(h) ==
  /\ At(h, "manifest")
  /\ IF room[MyRoom(h)] # None
     THEN /\ room' = [room EXCEPT ![MyRoom(h)] = {f \in @ : f[2] # Manifest} \cup {<<h, Manifest>>}]
          /\ Goes(h, call[h])
     ELSE FailsInRoom(h) /\ UNCHANGED room
  /\ UNCHANGED <<sfiles, raw, zips, newest, packet, paused, scounts>>

\* The archive is on disk, and counts as a package, from the moment it is opened.
OpenZip(h) ==
  /\ At(h, "zip") /\ call[h].hold.zip = 0
  /\ zips' = Append(zips, [closed |-> FALSE, files |-> {}])
  /\ newest' = Len(zips) + 1
  /\ Stays(h, [call[h] EXCEPT !.hold.zip = Len(zips) + 1])
  /\ UNCHANGED <<sfiles, raw, room, packet, paused, scounts>>

Filled(h, files) ==
  /\ zips' = [zips EXCEPT ![call[h].hold.zip] = [closed |-> TRUE, files |-> files]]
  /\ newest' = call[h].hold.zip

\* A directory that has gone by then makes an empty zip, not an error.
FillZip(h) ==
  /\ At(h, "zip") /\ call[h].hold.zip # 0
  /\ Filled(h, IF room[MyRoom(h)] = None THEN {} ELSE room[MyRoom(h)])
  /\ Goes(h, call[h])
  /\ UNCHANGED <<sfiles, raw, room, packet, paused, scounts>>

\* One that another export clears meanwhile is an error; what was in the zip by then,
\* here the files of one of the exports, stays there.
LoseRoom(h) ==
  /\ At(h, "zip") /\ call[h].hold.zip # 0 /\ room[MyRoom(h)] # None
  /\ \E g \in Handler \ {h} : InRoom(g, MyRoom(h)) /\ At(g, "clear")
  /\ \E o \in Handler : Filled(h, {f \in room[MyRoom(h)] : f[1] = o})
  /\ room' = [room EXCEPT ![MyRoom(h)] = None]
  /\ FailsInRoom(h)
  /\ UNCHANGED <<sfiles, raw, packet, paused, scounts>>

ClearRoom(h) ==
  /\ At(h, "clear")
  /\ room' = [room EXCEPT ![MyRoom(h)] = None]
  /\ Goes(h, [call[h] EXCEPT !.hold.room = None])
  /\ UNCHANGED <<sfiles, raw, zips, newest, packet, paused, scounts>>

-----------------------------------------------------------------------------
\* build_session_recovery_packet without a package of its own: the zip written to last,
\* closed or not.
FindArchive(h) ==
  /\ At(h, "find")
  /\ Goes(h, [call[h] EXCEPT !.hold = [items |-> {}, room |-> None, zip |-> newest]])
  /\ UNCHANGED <<sfiles, delivery, scounts>>

\* Seeded fault: a packet is ready once its metadata are written.
PacketByMetadata(h) ==
  /\ At(h, "packet")
  /\ packet' = [archive |-> call[h].hold.zip, ready |-> TRUE]
  /\ Goes(h, call[h])
  /\ UNCHANGED <<sfiles, raw, room, zips, newest, paused, scounts>>

WritePacket(h) ==
  /\ At(h, "packet")
  /\ packet' = [archive |-> call[h].hold.zip, ready |-> call[h].hold.zip # 0]
  /\ IF call[h].kind = "pause" /\ call[h].hold.zip = 0 THEN Fails(h) ELSE Goes(h, call[h])
  /\ UNCHANGED <<sfiles, raw, room, zips, newest, paused, scounts>>

\* pause_provider_lifecycle is ProviderLifecycle.
PauseUponPacket(h) ==
  /\ At(h, "pause")
  /\ paused' = TRUE
  /\ Goes(h, call[h])
  /\ UNCHANGED <<sfiles, raw, room, zips, newest, packet, scounts>>

\* The raw preparation ends, with its preview first or with all it makes.
RawMoves ==
  /\ Seen({"package"})
  /\ changes < MaxChanges /\ changes' = changes + 1
  /\ raw' \in {{"preview"}, RawItem} /\ raw' # raw /\ raw \subseteq raw'
  /\ UNCHANGED <<sfiles, room, zips, newest, packet, paused, kinds, call, requests>>

ServeDelivery(h) ==
  BeginPackage(h) \/ BeginRecovery(h) \/ ChooseItems(h) \/ OpenRoom(h) \/ CopyItems(h) \/ WriteManifest(h)
    \/ OpenZip(h) \/ FillZip(h) \/ LoseRoom(h) \/ ClearRoom(h) \/ FindArchive(h) \/ WritePacket(h) \/ PauseUponPacket(h)

DeliveryInit ==
  /\ SessionInit
  /\ raw \in IF Seen({"package"}) THEN {{}, RawItem} ELSE {{}}
  /\ room = [r \in Room |-> None]
  /\ zips = <<>> /\ newest = 0 /\ packet = NoPacket /\ paused = FALSE

DeliveryStep ==
  \/ \E h \in Handler : ServeDelivery(h)
  \/ (\E h \in Handler : ServeSession(h)) /\ UNCHANGED delivery
  \/ (JobMoves \/ SessionCrash) /\ UNCHANGED delivery
  \/ RawMoves

dvars == <<svars, delivery>>

-----------------------------------------------------------------------------
\* A package that nothing overlapped holds what was chosen for it and its manifest, and
\* the result of the session's newest job if that had ended when the choice was made.
LonePackageIsComplete ==
  [][\A h \in Handler :
       /\ call[h].solo /\ FillZip(h)
            => zips'[call[h].hold.zip].files = {<<h, i>> : i \in call[h].hold.items \cup {Manifest}}
       /\ ChooseItems(h) /\ latest # None
            => (job[latest] = "done" => latest \in call'[h].hold.items)]_dvars

\* The pod is stopped upon a packet only with a zip there.  One that the request has
\* built is closed whatever overlaps it, and has everything of the session that a master
\* archive has if nothing did.  One that it found is closed if nothing overlapped and no
\* crash cut an export short; else it may be half written.
PauseHadAPackage ==
  [][\A h \in Handler : PauseUponPacket(h) =>
       /\ call[h].hold.zip \in DOMAIN zips
       /\ LET zip == zips[call[h].hold.zip]
          IN  /\ call[h].ask # None \/ (call[h].solo /\ changes = 0) => zip.closed
              /\ call[h].ask # None /\ call[h].solo
                   => {"staged", "working"} \subseteq {f[2] : f \in zip.files}]_dvars
=============================================================================
