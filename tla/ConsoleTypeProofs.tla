--------------------------- MODULE ConsoleTypeProofs ---------------------------
(***************************************************************************)
(* Proofs about the values the parts of Console can have, for any cameras, *)
(* alerts, paths, items, places and bounds: every part keeps its types.    *)
(***************************************************************************)
EXTENDS AnalysisProofs

(***************************************************************************)
(* The zone editor                                                         *)
(***************************************************************************)
LEMMA EditorTypesKept ==
  ASSUME Editor!EditorTypeOK, Editor!EditorNext
  PROVE  Editor!EditorTypeOK'
<1> USE DEF Editor!EditorTypeOK, Editor!NoCorners, Editor!Idle
<1>1. MaxCorners \in Nat /\ Editor!cameraId \in Feeds
  BY ConsoleAssumption DEF Editor!EditorAssumption, Editor!cameraId
<1>2. ASSUME NEW z \in Feeds \cup {NewZone}, Editor!startEdit(z) PROVE Editor!EditorTypeOK'
  BY <1>1, <1>2 DEF Editor!startEdit
<1>3. CASE Editor!CancelEditing \/ Editor!ZoneSaved \/ Editor!ZoneRemoved
  <2>1. Editor!NoCorners \in [count : 0..MaxCorners, over : SUBSET Feeds]
    BY <1>1
  <2> USE <2>1, <1>3 DEF Editor!cancel
  <2> HIDE DEF Editor!NoCorners
  <2>2. CASE Editor!CancelEditing
    BY <2>2 DEF Editor!CancelEditing
  <2>3. CASE Editor!ZoneSaved
    BY <2>3 DEF Editor!ZoneSaved
  <2>4. CASE Editor!ZoneRemoved
    BY <2>4 DEF Editor!ZoneRemoved
  <2> QED
    BY <2>2, <2>3, <2>4
<1>4. CASE Editor!onCanvasPointerDown
  <2>1. corners' = [count |-> corners.count + 1, over |-> corners.over \cup {Editor!cameraId}]
    BY <1>4 DEF Editor!onCanvasPointerDown, Editor!Draw
  <2>2. corners.count + 1 \in 0..MaxCorners
    BY <1>1, <1>4 DEF Editor!onCanvasPointerDown
  <2>3. corners' \in [count : 0..MaxCorners, over : SUBSET Feeds]
    BY <1>1, <2>1, <2>2
  <2> QED
    BY <1>4, <2>3 DEF Editor!onCanvasPointerDown, Editor!Draw
<1>5. CASE Editor!onPointerMove \/ Editor!GrabPoint \/ Editor!onPointerUp
  <2>1. [corners EXCEPT !.over = @ \cup {Editor!cameraId}]
          \in [count : 0..MaxCorners, over : SUBSET Feeds]
    BY <1>1
  <2> QED
    BY <1>5, <2>1
       DEF Editor!onPointerMove, Editor!GrabPoint, Editor!onPointerUp, Editor!Draw
<1>6. CASE Editor!UndoPoint
  <2>1. corners.count # 1 => [corners EXCEPT !.count = @ - 1]
                               \in [count : 0..MaxCorners, over : SUBSET Feeds]
    BY <1>1, <1>6 DEF Editor!UndoPoint
  <2> QED
    BY <1>1, <1>6, <2>1 DEF Editor!UndoPoint, Editor!Draw
<1>7. CASE Editor!DefaultMoves
  BY <1>7 DEF Editor!DefaultMoves
<1>8. ASSUME NEW c \in Feeds, Editor!SelectCamera(c) PROVE Editor!EditorTypeOK'
  <2>1. Editor!NoCorners \in [count : 0..MaxCorners, over : SUBSET Feeds]
    BY <1>1
  <2> HIDE DEF Editor!NoCorners
  <2> QED
    BY <1>8, <2>1 DEF Editor!SelectCamera, Editor!Choose, Editor!cancel
<1>9. CASE Editor!SaveZone
  BY <1>1, <1>9 DEF Editor!SaveZone
<1>10. CASE \/ Editor!ZoneSaveFails \/ Editor!AskDelete \/ Editor!KeepZone
            \/ Editor!ConfirmDelete \/ Editor!RemovalFails
  BY <1>10 DEF Editor!ZoneSaveFails, Editor!AskDelete, Editor!KeepZone, Editor!ConfirmDelete,
               Editor!RemovalFails
<1> HIDE DEF Editor!EditorTypeOK
<1> QED
  BY <1>2, <1>3, <1>4, <1>5, <1>6, <1>7, <1>8, <1>9, <1>10 DEF Editor!EditorNext

(***************************************************************************)
(* The evidence locker                                                     *)
(***************************************************************************)
LEMMA PiecesAreFinite == Evidence!Cardinality(Items) \in Nat
BY ConsoleAssumption, SameCardinality, FS_CardinalityType
   DEF Evidence!EvidenceAssumption, Evidence!IsFiniteSet, IsFiniteSet

LEMMA EvidenceTypesKept ==
  ASSUME Evidence!EvidenceTypeOK, Evidence!EvidenceNext
  PROVE  Evidence!EvidenceTypeOK'
<1> USE DEF Evidence!EvidenceTypeOK, Evidence!NobodyShown, Evidence!NoChange, Evidence!Changes,
            Evidence!NoUpload, Evidence!Tiers
<1>1. ASSUME NEW f \in Evidence!Filters, Evidence!withReset(f) PROVE Evidence!EvidenceTypeOK'
  BY <1>1, PiecesAreFinite DEF Evidence!withReset
<1>2. ASSUME NEW n \in 0..Evidence!Cardinality(Items), Evidence!Turn(n)
      PROVE  Evidence!EvidenceTypeOK'
  BY <1>2 DEF Evidence!Turn
<1>3. ASSUME NEW e \in Items, Evidence!Select(e) PROVE Evidence!EvidenceTypeOK'
  BY <1>3 DEF Evidence!Select
<1>4. ASSUME NEW e \in Items, Evidence!OtherRemoves(e) PROVE Evidence!EvidenceTypeOK'
  BY <1>4 DEF Evidence!OtherRemoves
<1>5. CASE Evidence!Deselect \/ Evidence!VerifyFails \/ Evidence!Withdraw
  BY <1>5 DEF Evidence!Deselect, Evidence!VerifyFails, Evidence!Withdraw
<1>6. CASE Evidence!verify
  BY <1>6 DEF Evidence!verify, Evidence!InDialog
<1>7. CASE Evidence!Verified
  BY <1>7 DEF Evidence!Verified
<1>8. ASSUME NEW kind \in {"archive", "delete"}, Evidence!Ask(kind)
      PROVE  Evidence!EvidenceTypeOK'
  BY <1>8 DEF Evidence!Ask, Evidence!InDialog
<1>9. CASE Evidence!onConfirm
  BY <1>9 DEF Evidence!onConfirm
<1>10. ASSUME NEW c \in Evidence!Changes, Evidence!Changed(c) \/ Evidence!ChangeFails(c)
       PROVE  Evidence!EvidenceTypeOK'
  BY <1>10 DEF Evidence!Changed, Evidence!ChangeFails
<1>11. CASE \/ Evidence!OpenUpload \/ Evidence!ChooseUpload \/ Evidence!close
            \/ Evidence!submitUpload \/ Evidence!Uploaded \/ Evidence!UploadFails
  <2> DEFINE Sent == 0..Evidence!MaxSent
             Upload == [open : BOOLEAN, file : BOOLEAN, pending : BOOLEAN, sent : Sent]
  <2>1. /\ uploading \in Upload /\ Evidence!NoUpload \in Upload
        /\ uploading.pending \in BOOLEAN /\ uploading.sent \in Sent
    BY DEF Evidence!MaxSent
  <2>2. ASSUME NEW n \in Sent
        PROVE  /\ n > 0 => n - 1 \in Sent
               /\ n < Evidence!MaxSent => n + 1 \in Sent
    BY DEF Evidence!MaxSent
  <2>3. ASSUME NEW u \in Upload, NEW b \in BOOLEAN, NEW n \in Sent
        PROVE  /\ [u EXCEPT !.open = b] \in Upload /\ [u EXCEPT !.file = b] \in Upload
               /\ [u EXCEPT !.pending = b, !.sent = n] \in Upload
               /\ [u EXCEPT !.sent = n] \in Upload
    OBVIOUS
  <2> HIDE DEF Sent, Upload, Evidence!NoUpload
  <2>4. CASE Evidence!OpenUpload \/ Evidence!ChooseUpload
    <3>1. PICK next : Evidence!Uploads(next) /\ next \in Upload
      BY <2>1, <2>3, <2>4 DEF Evidence!OpenUpload, Evidence!ChooseUpload
    <3> QED
      BY <3>1 DEF Evidence!Uploads, Upload, Sent
  <2>5. CASE Evidence!close \/ Evidence!Uploaded
    <3>1. PICK next : Evidence!Uploads(next) /\ next \in Upload
      BY <2>1, <2>2, <2>3, <2>5 DEF Evidence!close, Evidence!Uploaded
    <3> QED
      BY <3>1 DEF Evidence!Uploads, Upload, Sent
  <2>6. CASE Evidence!submitUpload
    <3>1. /\ uploading.sent + 1 \in Sent
          /\ Evidence!Uploads([uploading EXCEPT !.pending = TRUE, !.sent = uploading.sent + 1])
      BY <2>1, <2>2, <2>6 DEF Evidence!submitUpload
    <3>2. [uploading EXCEPT !.pending = TRUE, !.sent = uploading.sent + 1] \in Upload
      BY <2>1, <2>3, <3>1
    <3> QED
      BY <3>1, <3>2 DEF Evidence!Uploads, Upload, Sent
  <2>7. CASE Evidence!UploadFails
    <3>1. PICK own \in BOOLEAN :
            Evidence!Uploads([uploading EXCEPT !.pending = uploading.pending /\ ~own,
                                               !.sent = uploading.sent - 1])
      BY <2>7 DEF Evidence!UploadFails
    <3>2. (uploading.pending /\ ~own) \in BOOLEAN /\ uploading.sent - 1 \in Sent
      BY <2>1, <2>2, <2>7 DEF Evidence!UploadFails
    <3>3. [uploading EXCEPT !.pending = uploading.pending /\ ~own,
                            !.sent = uploading.sent - 1] \in Upload
      BY <2>1, <2>3, <3>2
    <3> QED
      BY <3>1, <3>3 DEF Evidence!Uploads, Upload, Sent
  <2> QED
    BY <1>11, <2>4, <2>5, <2>6, <2>7
<1> HIDE DEF Evidence!EvidenceTypeOK, Evidence!Changes
<1> QED
  BY <1>1, <1>2, <1>3, <1>4, <1>5, <1>6, <1>7, <1>8, <1>9, <1>10, <1>11
     DEF Evidence!EvidenceNext

(***************************************************************************)
(* The street-level panorama                                               *)
(***************************************************************************)
LEMMA FirstIsConfigured == Street!FirstProvider \in configuredProviders \cup {"null"}
<1>1. CASE "google" \in configuredProviders
  BY <1>1 DEF Street!FirstProvider
<1>2. CASE "google" \notin configuredProviders /\ configuredProviders = {"mapillary"}
  BY <1>2 DEF Street!FirstProvider
<1>3. CASE "google" \notin configuredProviders /\ configuredProviders # {"mapillary"}
  BY <1>3 DEF Street!FirstProvider
<1> QED
  BY <1>1, <1>2, <1>3

LEMMA StreetTypesKept ==
  ASSUME Street!StreetTypeOK, Street!StreetNext
  PROVE  Street!StreetTypeOK'
<1> USE DEF Street!StreetTypeOK, Street!Radii, Street!Mounts
<1>1. Street!FirstProvider \in configuredProviders \cup {"null"}
  BY FirstIsConfigured
<1>2. Street!Mounting => Street!Current \in Street!Mounts
  BY DEF Street!Mounting, Street!Current
<1>3. ASSUME NEW l \in Places, NEW p \in configuredProviders \cup {"null"}, NEW r \in Street!Radii,
             Street!Mount(l, p, r)
      PROVE  Street!StreetTypeOK'
  BY <1>2, <1>3 DEF Street!Mount, Street!loadGoogleMaps
<1>4. ASSUME NEW place \in Places, Street!setPanorama(place) PROVE Street!StreetTypeOK'
  BY <1>1, <1>3, <1>4 DEF Street!setPanorama
<1>5. ASSUME NEW p \in configuredProviders, Street!setProvider(p) PROVE Street!StreetTypeOK'
  BY <1>3, <1>5 DEF Street!setProvider
<1>6. CASE Street!WidenSearch
  BY <1>3, <1>6 DEF Street!WidenSearch
<1>7. CASE Street!CloseStreet \/ Street!NothingNear \/ Street!MountFails \/ Street!ScriptLoads
  BY <1>7 DEF Street!CloseStreet, Street!NothingNear, Street!MountFails, Street!ScriptLoads
<1>8. CASE Street!Shows
  BY <1>2, <1>8 DEF Street!Shows
<1>9. CASE Street!ScriptFails
  BY <1>9 DEF Street!ScriptFails
<1>10. ASSUME NEW m \in overtaken, Street!LateShows(m) \/ Street!LateGivesUp(m)
       PROVE  Street!StreetTypeOK'
  BY <1>10 DEF Street!LateShows, Street!LateGivesUp, Street!lateViewer
<1> HIDE DEF Street!StreetTypeOK
<1> QED
  BY <1>4, <1>5, <1>6, <1>7, <1>8, <1>9, <1>10 DEF Street!StreetNext

(***************************************************************************)
(* The camera registry                                                     *)
(***************************************************************************)
LEMMA RegistryTypesKept ==
  ASSUME Registry!RegistryTypeOK, Registry!RegistryNext
  PROVE  Registry!RegistryTypeOK'
<1> USE DEF Registry!RegistryTypeOK, Registry!unchangedPage, Registry!unchangedWizard,
            Registry!Identity, Registry!Location, Registry!Stream, Registry!Review,
            Registry!Drafts, Registry!Fields
<1>1. Registry!EMPTY \in Registry!Drafts
  BY DEF Registry!EMPTY
<1>2. CASE Registry!OpenWizard \/ Registry!set
  <2>1. step \in Registry!Fields => [draft EXCEPT ![step] = ~@] \in Registry!Drafts
    OBVIOUS
  <2>2. draft' \in Registry!Drafts
    BY <1>2, <2>1 DEF Registry!OpenWizard, Registry!set
  <2> QED
    BY <1>2, <2>2 DEF Registry!OpenWizard, Registry!set
<1>3. CASE Registry!Back
  BY <1>3 DEF Registry!Back, Registry!CanGoBack
<1>4. CASE Registry!next
  <2>1. step' \in 0..3
    BY <1>4 DEF Registry!next
  <2>2. touched' \in BOOLEAN
    BY <1>4 DEF Registry!next
  <2>3. register' \in Registry!Drafts \cup {Registry!NoDraft}
    BY <1>4 DEF Registry!next
  <2>4. UNCHANGED <<open, draft, result, orphan, rows, testing, testResult, removalAsked, remove>>
    BY <1>4 DEF Registry!next
  <2> QED
    BY <2>1, <2>2, <2>3, <2>4
<1>5. CASE Registry!close \/ Registry!RegisterAnother
  <2>1. Registry!reset /\ Registry!unchangedPage /\ open' \in BOOLEAN
    BY <1>5 DEF Registry!close, Registry!RegisterAnother
  <2>2. draft' \in Registry!Drafts
    BY <1>1, <2>1 DEF Registry!reset
  <2>3. step' = 0 /\ touched' = FALSE /\ result' = FALSE
    BY <2>1 DEF Registry!reset
  <2>4. /\ register' \in Registry!Drafts \cup {Registry!NoDraft}
        /\ orphan' \in Registry!Drafts \cup {Registry!NoDraft}
    BY <2>1 DEF Registry!reset
  <2>5. step' \in 0..3
    BY <2>3
  <2>6. UNCHANGED <<rows, testing, testResult, removalAsked, remove>>
    BY <2>1
  <2> HIDE DEF Registry!Drafts, Registry!Fields
  <2> QED
    BY <2>1, <2>2, <2>3, <2>4, <2>5, <2>6
<1>6. CASE Registry!Registered \/ Registry!RegistrationFails
  BY <1>6 DEF Registry!Registered, Registry!RegistrationFails
<1>7. ASSUME NEW c \in Cameras,
             \/ Registry!test(c) \/ Registry!Tested(c) \/ Registry!TestFails(c)
             \/ Registry!AskDelete(c)
      PROVE  Registry!RegistryTypeOK'
  BY <1>7 DEF Registry!test, Registry!Tested, Registry!TestFails, Registry!AskDelete
<1>8. CASE \/ Registry!CloseTest \/ Registry!KeepCamera \/ Registry!ConfirmDelete
           \/ Registry!Removed \/ Registry!RemovalFails \/ Registry!ListRefetched
  BY <1>8 DEF Registry!CloseTest, Registry!KeepCamera, Registry!ConfirmDelete,
              Registry!Removed, Registry!RemovalFails, Registry!ListRefetched
<1> HIDE DEF Registry!RegistryTypeOK
<1> QED
  BY <1>2, <1>3, <1>4, <1>5, <1>6, <1>7, <1>8 DEF Registry!RegistryNext

(***************************************************************************)
(* The threat map                                                          *)
(***************************************************************************)
MarkingType ==
  [camera : Placed, points : [Sizes -> 0..MaxPairs], live : BOOLEAN, probing : BOOLEAN,
   snapshot : Sizes \cup {NoSize}, image : Sizes \cup {NoSize}, geo : BOOLEAN]

FenceType == [polygon : 0..MaxCorners, cameraId : Placed \cup {NoCamera}]

\* A field of the calibration dialog changes and the others stay.
LEMMA MarkingFields ==
  ASSUME NEW m \in MarkingType
  PROVE  /\ \A b \in BOOLEAN : /\ [m EXCEPT !.live = b] \in MarkingType
                               /\ [m EXCEPT !.geo = b] \in MarkingType
         /\ \A s \in Sizes \cup {NoSize} :
              /\ [m EXCEPT !.image = s] \in MarkingType
              /\ [m EXCEPT !.probing = FALSE, !.snapshot = s] \in MarkingType
         /\ \A s \in Sizes : m.points[s] > 0 => [m EXCEPT !.points[s] = @ - 1] \in MarkingType
<1>1. MaxPairs \in Nat
  BY ConsoleAssumption DEF Map!MapAssumption
<1>2. ASSUME NEW s \in Sizes, m.points[s] > 0
      PROVE  [m EXCEPT !.points[s] = @ - 1] \in MarkingType
  <2>1. m.points \in [Sizes -> 0..MaxPairs] /\ m.points[s] - 1 \in 0..MaxPairs
    BY <1>1, <1>2 DEF MarkingType
  <2>2. [m.points EXCEPT ![s] = @ - 1] \in [Sizes -> 0..MaxPairs]
    BY <2>1
  <2> QED
    BY <2>2 DEF MarkingType
<1> QED
  BY <1>2 DEF MarkingType

\* A landmark marked in both views counts, within the bound.
LEMMA PairedTypes ==
  ASSUME NEW m \in MarkingType, \A s \in Sizes : m.points[s] < MaxPairs
  PROVE  Map!Paired(m) \in MarkingType
<1>1. MaxPairs \in Nat
  BY ConsoleAssumption DEF Map!MapAssumption
<1>2. CASE m.image # NoSize /\ m.geo
  <2>1. m.image \in Sizes /\ m.points \in [Sizes -> 0..MaxPairs]
    BY <1>2 DEF MarkingType
  <2>2. m.points[m.image] + 1 \in 0..MaxPairs
    BY <1>1, <2>1
  <2>3. [m.points EXCEPT ![m.image] = @ + 1] \in [Sizes -> 0..MaxPairs]
    BY <2>1, <2>2
  <2> QED
    BY <1>2, <2>3 DEF MarkingType, Map!Paired
<1>3. CASE ~(m.image # NoSize /\ m.geo)
  BY <1>3 DEF Map!Paired
<1> QED
  BY <1>2, <1>3

MapTypes ==
  /\ drawing \in 0..(MaxCorners + 1) /\ streetMode \in BOOLEAN
  /\ zoneDialog = Map!NoDialog \/ zoneDialog \in FenceType
  /\ marking = Map!NoDialog \/ marking \in MarkingType
  /\ create = Map!NoRequest \/ create \in Map!Fences
  /\ calibrate = Map!NoRequest \/ calibrate \in Map!Calibrations
  /\ calibrated \subseteq Placed /\ frameSizes \in [Placed -> Sizes \cup {NoSize}]

LEMMA MapTypesAre == Map!MapTypeOK <=> MapTypes
BY DEF Map!MapTypeOK, MapTypes, MarkingType, FenceType, Map!NotDrawing

LEMMA OpenedTypes ==
  ASSUME NEW c \in Placed, NEW live0 \in BOOLEAN PROVE Map!Opened(c, live0) \in MarkingType
BY ConsoleAssumption DEF Map!MapAssumption, Map!Opened, MarkingType

\* The steps of the calibration dialog, all of which change nothing else.
LEMMA MarkingKept ==
  ASSUME MapTypes,
         \/ Map!Probed \/ Map!LiveFrame \/ Map!onImageClick \/ Map!onPick
         \/ \E s \in Sizes : Map!RemovePair(s)
  PROVE  MapTypes'
<1>1. marking \in MarkingType /\ Map!unchangedMap
  BY DEF MapTypes, Map!Probed, Map!LiveFrame, Map!onImageClick, Map!onPick, Map!RemovePair
<1>2. CASE Map!Probed
  <2>1. marking' \in MarkingType
    BY <1>1, <1>2, MarkingFields DEF Map!Probed
  <2> QED
    BY <1>1, <2>1 DEF MapTypes, Map!unchangedMap, Map!unchangedTools
<1>3. CASE Map!LiveFrame
  <2>1. marking' \in MarkingType
    BY <1>1, <1>3, MarkingFields DEF Map!LiveFrame
  <2> QED
    BY <1>1, <2>1 DEF MapTypes, Map!unchangedMap, Map!unchangedTools
<1>4. CASE Map!onImageClick
  <2>1. Map!size \in Sizes \cup {NoSize}
    BY <1>1 DEF MapTypes, MarkingType, Map!size
  <2> DEFINE m == [marking EXCEPT !.image = Map!size]
  <2>2. m \in MarkingType /\ m.points = marking.points
    BY <1>1, <2>1, MarkingFields DEF MarkingType
  <2>3. marking' = Map!Paired(m) /\ \A s \in Sizes : m.points[s] < MaxPairs
    BY <1>4, <2>2 DEF Map!onImageClick, Map!HasRoom
  <2> HIDE DEF m
  <2>4. marking' \in MarkingType
    BY <2>2, <2>3, PairedTypes
  <2> QED
    BY <1>1, <2>4 DEF MapTypes, Map!unchangedMap, Map!unchangedTools
<1>5. CASE Map!onPick
  <2> DEFINE m == [marking EXCEPT !.geo = TRUE]
  <2>1. m \in MarkingType /\ m.points = marking.points
    <3>1. TRUE \in BOOLEAN
      OBVIOUS
    <3>2. m \in MarkingType
      BY <1>1, <3>1, MarkingFields, Zenon
    <3>3. m.points = marking.points
      BY <1>1 DEF MarkingType
    <3> QED
      BY <3>2, <3>3
  <2>2. marking' = Map!Paired(m) /\ \A s \in Sizes : m.points[s] < MaxPairs
    BY <1>5, <2>1 DEF Map!onPick, Map!HasRoom
  <2> HIDE DEF m
  <2>3. marking' \in MarkingType
    BY <2>1, <2>2, PairedTypes
  <2> QED
    BY <1>1, <2>3 DEF MapTypes, Map!unchangedMap, Map!unchangedTools
<1>6. ASSUME NEW s \in Sizes, Map!RemovePair(s) PROVE MapTypes'
  <2>1. marking' \in MarkingType
    BY <1>1, <1>6, MarkingFields DEF Map!RemovePair
  <2> QED
    BY <1>1, <2>1 DEF MapTypes, Map!unchangedMap, Map!unchangedTools
<1> QED
  BY <1>2, <1>3, <1>4, <1>5, <1>6

LEMMA MapTypesKept ==
  ASSUME MapTypes, Map!MapNext
  PROVE  MapTypes'
<1>1. MaxCorners \in Nat
  BY ConsoleAssumption DEF Map!MapAssumption
<1>2. CASE \/ Map!toggleDrawing \/ Map!toggleStreetMode \/ Map!MapClick \/ Map!UndoCorner
           \/ Map!CancelDrawing
  <2>1. drawing' \in 0..(MaxCorners + 1)
    <3>1. drawing \in 0..(MaxCorners + 1)
      BY DEF MapTypes
    <3>2. drawing' \in {drawing, 0, MaxCorners + 1} \/ Map!MapClick \/ Map!UndoCorner
      BY <1>2 DEF Map!toggleDrawing, Map!toggleStreetMode, Map!CancelDrawing, Map!NotDrawing
    <3>3. CASE Map!MapClick
      BY <1>1, <3>1, <3>3 DEF Map!MapClick
    <3>4. CASE Map!UndoCorner
      BY <1>1, <3>4 DEF Map!UndoCorner
    <3> QED
      BY <1>1, <3>1, <3>2, <3>3, <3>4
  <2>2. streetMode' \in BOOLEAN
    <3>1. streetMode' \in {streetMode, FALSE, ~streetMode}
      BY <1>2 DEF Map!toggleDrawing, Map!toggleStreetMode, Map!MapClick, Map!UndoCorner,
                  Map!CancelDrawing
    <3> QED
      BY <3>1 DEF MapTypes
  <2>3. Map!unchangedDialogs
    BY <1>2 DEF Map!toggleDrawing, Map!toggleStreetMode, Map!MapClick, Map!UndoCorner,
                Map!CancelDrawing
  <2> QED
    BY <2>1, <2>2, <2>3 DEF MapTypes, Map!unchangedDialogs
<1>3. CASE Map!finishDrawing
  <2>1. zoneDialog' \in FenceType
    BY <1>1, <1>3 DEF MapTypes, Map!finishDrawing, FenceType
  <2>2. drawing' \in 0..(MaxCorners + 1)
    BY <1>1, <1>3 DEF Map!finishDrawing, Map!NotDrawing
  <2>3. UNCHANGED <<streetMode, create, marking, calibrate, calibrated, frameSizes>>
    BY <1>3 DEF Map!finishDrawing
  <2> QED
    BY <2>1, <2>2, <2>3 DEF MapTypes
<1>4. ASSUME NEW c \in Placed, Map!setCameraId(c) PROVE MapTypes'
  <2>1. zoneDialog' \in FenceType
    BY <1>4 DEF MapTypes, Map!setCameraId, FenceType
  <2> QED
    BY <1>4, <2>1 DEF MapTypes, Map!setCameraId, Map!unchangedTools
<1>5. CASE Map!submitFence
  <2>1. create' \in Map!Fences
    BY <1>5 DEF MapTypes, Map!submitFence, FenceType, Map!Fences
  <2> QED
    BY <1>5, <2>1 DEF MapTypes, Map!submitFence, Map!unchangedTools
<1>6. CASE Map!CloseZoneDialog \/ Map!FenceSaved \/ Map!FenceFails
  BY <1>6 DEF MapTypes, Map!CloseZoneDialog, Map!FenceSaved, Map!FenceFails, Map!unchangedTools
<1>7. ASSUME NEW c \in Placed, Map!setCalibrating(c) \/ Map!CalibrateFirst(c) PROVE MapTypes'
  <2>1. marking' \in MarkingType
    BY <1>7, OpenedTypes DEF Map!setCalibrating, Map!CalibrateFirst
  <2> QED
    BY <1>7, <2>1 DEF MapTypes, Map!setCalibrating, Map!CalibrateFirst, Map!unchangedTools
<1>8. ASSUME NEW c \in Placed, Map!setFrameSize(c) PROVE MapTypes'
  BY <1>8 DEF MapTypes, Map!setFrameSize
<1>9. CASE Map!SaveCalibration
  <2>1. marking \in MarkingType /\ Map!size \in Sizes
    BY <1>9 DEF MapTypes, Map!SaveCalibration, Map!ready, Map!size, MarkingType
  <2>2. calibrate' \in Map!Calibrations
    BY <1>9, <2>1 DEF Map!SaveCalibration, Map!Calibrations, MarkingType
  <2> QED
    BY <1>9, <2>2 DEF MapTypes, Map!SaveCalibration, Map!unchangedTools
<1>10. CASE Map!CloseCalibration \/ Map!CalibrationSaved \/ Map!CalibrationFails
  BY <1>10 DEF MapTypes, Map!CloseCalibration, Map!CalibrationSaved, Map!CalibrationFails,
               Map!unchangedTools
<1>11. CASE Map!CamerasRefetched
  BY <1>11 DEF MapTypes, Map!CamerasRefetched
<1> QED
  BY <1>2, <1>3, <1>4, <1>5, <1>6, <1>7, <1>8, <1>9, <1>10, <1>11, MarkingKept DEF Map!MapNext

(***************************************************************************)
(* The page of one camera                                                  *)
(***************************************************************************)
ViewTypes ==
  /\ mounted \in BOOLEAN /\ paused \in BOOLEAN /\ since \in BOOLEAN
  /\ live \in [Cameras -> 0..MaxFrames]
  /\ late \in View!Frames /\ bitmap \in View!Frames
  /\ recording \in Cameras \cup {NoCamera}

\* The frames of the feed are none the live store has not had.
LEMMA ViewTypesAre == ViewInv /\ ViewTypes => View!ViewTypeOK
<1> SUFFICES ASSUME ViewInv, ViewTypes PROVE View!ViewTypeOK
  OBVIOUS
<1>1. MaxFrames \in Nat /\ live[shown] \in 0..MaxFrames /\ FeedSound(feed)
  BY ConsoleAssumption DEF View!CameraViewAssumption, ViewInv, ViewTypes
<1>2. /\ feed.decoding \in 0..MaxFrames /\ feed.pending \in 0..MaxFrames
      /\ feed.last \in 0..MaxFrames
  BY <1>1 DEF FeedSound
<1>3. feed \in [decoding : 0..MaxFrames, pending : 0..MaxFrames, last : 0..MaxFrames]
  BY <1>1, <1>2 DEF FeedSound
<1> QED
  BY <1>3 DEF ViewInv, ViewTypes, View!ViewTypeOK, View!RecordingInHand

LEMMA ViewTypesKept ==
  ASSUME ViewInv, ViewTypes, View!ViewNext
  PROVE  ViewTypes'
<1>1. shown \in Cameras /\ View!ViewTypeOK /\ MaxFrames \in Nat
  BY ConsoleAssumption, ViewTypesAre DEF View!CameraViewAssumption, ViewInv
<1>2. View!NoFrame \in View!Frames
  BY DEF View!Frames
<1>3. feed.decoding # 0 => [camera |-> shown, n |-> feed.decoding] \in View!Frames
  BY <1>1 DEF View!ViewTypeOK, View!Frames
<1>4. ASSUME View!Dispose PROVE bitmap' \in View!Frames /\ late' \in View!Frames
  BY <1>2, <1>3, <1>4 DEF View!Dispose, ViewTypes
<1>5. ASSUME NEW c \in Cameras, View!FrameReceived(c) PROVE ViewTypes'
  <2>1. live' \in [Cameras -> 0..MaxFrames]
    BY <1>1, <1>5 DEF ViewTypes, View!FrameReceived
  <2> QED
    BY <1>5, <2>1 DEF ViewTypes, View!FrameReceived
<1>6. ASSUME NEW c \in Cameras, View!AutoStop(c) PROVE ViewTypes'
  BY <1>6 DEF ViewTypes, View!AutoStop, View!finishRecording
<1>7. ASSUME NEW c \in Cameras, View!step(c) PROVE ViewTypes'
  <2>1. bitmap' \in View!Frames /\ late' \in View!Frames
    BY <1>4, <1>7 DEF View!step
  <2> QED
    BY <1>7, <2>1 DEF ViewTypes, View!step, View!LeavesCamera
<1>8. CASE View!Decoded
  BY <1>3, <1>8 DEF ViewTypes, View!Decoded
<1>9. CASE View!LateDecode
  BY <1>2, <1>9 DEF ViewTypes, View!LateDecode, View!DecodedLate
<1>10. CASE View!togglePause
  BY <1>10 DEF ViewTypes, View!togglePause
<1>11. CASE View!toggleRecording
  BY <1>1, <1>11
     DEF ViewTypes, View!toggleRecording, View!finishRecording, View!startCanvasRecording
<1>12. CASE View!DetailLoaded
  BY <1>12 DEF ViewTypes, View!DetailLoaded
<1>13. CASE View!DetailFails
  <2>1. bitmap' \in View!Frames /\ late' \in View!Frames
    BY <1>4, <1>13 DEF View!DetailFails
  <2> QED
    BY <1>13, <2>1 DEF ViewTypes, View!DetailFails
<1> QED
  BY <1>5, <1>6, <1>7, <1>8, <1>9, <1>10, <1>11, <1>12, <1>13 DEF View!ViewNext

(***************************************************************************)
(* The alert board                                                         *)
(***************************************************************************)
BoardTypes ==
  /\ board \in {"all", "open"}
  /\ mail \subseteq Board!Mail
  /\ throttle \in [cooling : BOOLEAN, pending : BOOLEAN]

LEMMA BoardTypesAre == BoardInv /\ BoardTypes => Board!AlertsTypeOK
BY DEF BoardInv, BoardTypes, Board!AlertsTypeOK

LEMMA InvalidateTypes ==
  ASSUME BoardTypes, Board!invalidate
  PROVE  throttle' \in [cooling : BOOLEAN, pending : BOOLEAN]
<1>1. throttle \in [cooling : BOOLEAN, pending : BOOLEAN]
  BY DEF BoardTypes
<1>2. /\ [throttle EXCEPT !.cooling = TRUE] \in [cooling : BOOLEAN, pending : BOOLEAN]
      /\ [throttle EXCEPT !.pending = TRUE] \in [cooling : BOOLEAN, pending : BOOLEAN]
  BY <1>1
<1>3. \/ throttle' = [throttle EXCEPT !.cooling = TRUE]
      \/ throttle' = [throttle EXCEPT !.pending = TRUE]
  BY DEF Board!invalidate
<1> QED
  BY <1>2, <1>3, Zenon

LEMMA BoardTypesKept ==
  ASSUME BoardTypes, Board!AlertsNext
  PROVE  BoardTypes'
<1>1. CASE Board!ThrottleOver
  BY <1>1 DEF BoardTypes, Board!ThrottleOver
<1>2. CASE Board!Refetch \/ Board!Fetched \/ Board!FetchFails
  BY <1>2 DEF BoardTypes, Board!Refetch, Board!Fetched, Board!FetchFails
<1>3. CASE Board!HearsCritical
  BY <1>3, InvalidateTypes DEF BoardTypes, Board!HearsCritical
<1>4. CASE Board!MessageLost
  BY <1>4 DEF BoardTypes, Board!MessageLost
<1>5. CASE Board!Raised
  <2>1. (CHOOSE b \in Alerts : server[b] = "none") \in Alerts
    BY <1>5 DEF Board!Raised
  <2> QED
    BY <1>5, <2>1 DEF BoardTypes, Board!Raised, Board!Mail
<1>6. ASSUME NEW a \in Alerts, Board!HearsAlert(a) PROVE BoardTypes'
  BY <1>6, InvalidateTypes DEF BoardTypes, Board!HearsAlert
<1>7. ASSUME NEW a \in Alerts, Board!HearsAcknowledged(a) PROVE BoardTypes'
  BY <1>7, InvalidateTypes DEF BoardTypes, Board!HearsAcknowledged
<1>8. ASSUME NEW a \in Alerts, Board!OtherAcknowledges(a) \/ Board!AcknowledgeStored(a)
      PROVE  BoardTypes'
  BY <1>8 DEF BoardTypes, Board!OtherAcknowledges, Board!AcknowledgeStored, Board!Store, Board!Mail
<1>9. ASSUME NEW a \in Alerts,
             Board!Acknowledge(a) \/ Board!Acknowledged(a) \/ Board!AcknowledgeFails(a)
      PROVE  BoardTypes'
  BY <1>9 DEF BoardTypes, Board!Acknowledge, Board!Acknowledged, Board!AcknowledgeFails
<1> QED
  BY <1>1, <1>2, <1>3, <1>4, <1>5, <1>6, <1>7, <1>8, <1>9 DEF Board!AlertsNext

(***************************************************************************)
(* The record of a camera                                                  *)
(***************************************************************************)
\* What is sent, and so what is stored, has no coordinates out of range: the form
\* is looked at before it is sent, and the locate dialog leaves them out.
ValidPayload == UNION {[S -> {Desk!NotSet, Desk!Entered}] : S \in SUBSET Desk!Fields}

SentRequest == [stage : {"sent", "done"}, payload : ValidPayload, stray : SUBSET Desk!Fields]

DialogType ==
  [open : BOOLEAN, fields : [Desk!Fields -> {Desk!NotSet, Desk!Entered, Desk!Invalid}],
   touched : SUBSET Desk!Fields]

AutoType == [flights : 0..MaxFlights, place : BOOLEAN, tried : BOOLEAN]
SaveType == [request : SentRequest \cup {Desk!NoRequest}, mine : BOOLEAN]
RunType == [step : {"none", "locating", "saving"}, request : SentRequest \cup {Desk!NoRequest}]
LocatorType == [open : BOOLEAN, mine : BOOLEAN]

DeskTypes ==
  /\ stored \in Desk!Camera /\ listed \in Desk!Camera
  /\ dialog \in DialogType /\ dialog.fields["place"] # Desk!Invalid
  /\ save \in SaveType /\ locator \in LocatorType /\ run \in RunType /\ auto \in AutoType

LEMMA DeskTypesAre == DeskTypes => Desk!DeskTypeOK
<1> SUFFICES ASSUME DeskTypes PROVE Desk!DeskTypeOK
  OBVIOUS
<1>1. ValidPayload \subseteq Desk!Payload
  BY DEF ValidPayload, Desk!Payload
<1>2. SentRequest \subseteq Desk!Request
  BY <1>1 DEF SentRequest, Desk!Request
<1>3. save.request \in Desk!Request \cup {Desk!NoRequest} /\ save.mine \in BOOLEAN
  BY <1>2 DEF DeskTypes, SaveType
<1>4. /\ run.step \in {"none", "locating", "saving"}
      /\ run.request \in Desk!Request \cup {Desk!NoRequest}
  BY <1>2 DEF DeskTypes, RunType
<1> QED
  BY <1>3, <1>4 DEF DeskTypes, DialogType, LocatorType, AutoType, Desk!DeskTypeOK

LEMMA IsValidPayload ==
  ASSUME NEW S \in SUBSET Desk!Fields, NEW p, p = [f \in S |-> p[f]],
         \A f \in S : p[f] \in {Desk!NotSet, Desk!Entered}
  PROVE  p \in ValidPayload
<1>1. p \in [S -> {Desk!NotSet, Desk!Entered}]
  OBVIOUS
<1> QED
  BY <1>1 DEF ValidPayload

LEMMA DoneIsSent == Desk!Done \in SentRequest
<1>1. Desk!NoPayload \in ValidPayload
  <2>1. Desk!NoPayload \in [{} -> {Desk!NotSet, Desk!Entered}] /\ {} \in SUBSET Desk!Fields
    BY DEF Desk!NoPayload
  <2> QED
    BY <2>1 DEF ValidPayload
<1> QED
  BY <1>1 DEF SentRequest, Desk!Done, Desk!NoRequest

LEMMA AppliedIsACamera ==
  ASSUME NEW p \in ValidPayload, stored \in Desk!Camera PROVE Desk!Apply(p) \in Desk!Camera
<1>1. \A f \in DOMAIN p : p[f] \in {Desk!NotSet, Desk!Entered}
  BY DEF ValidPayload
<1> QED
  BY <1>1 DEF Desk!Apply, Desk!Camera

\* What differs from the list, of a form whose coordinates are in range.
LEMMA EditIsValid ==
  ASSUME DeskTypes, Desk!validateCameraEdit
  PROVE  Desk!cameraEditPayload \in ValidPayload
<1> DEFINE S == {f \in Desk!Fields : dialog.fields[f] # listed[f]}
<1>1. Desk!cameraEditPayload = [f \in S |-> dialog.fields[f]]
  BY DEF Desk!cameraEditPayload, Desk!Restrict
<1>2. \A f \in S : dialog.fields[f] \in {Desk!NotSet, Desk!Entered}
  BY DEF DeskTypes, DialogType, Desk!validateCameraEdit, Desk!Fields
<1>3. S \in SUBSET Desk!Fields
  OBVIOUS
<1> HIDE DEF S
<1> QED
  BY <1>1, <1>2, <1>3, IsValidPayload

\* The fix takes the place of the coordinates, whatever was typed for them.
LEMMA LocatedIsValid == ASSUME DeskTypes PROVE Desk!located \in SentRequest
<1> DEFINE S == {f \in Desk!Fields : dialog.fields[f] # listed[f]}
<1> DEFINE other == Desk!Restrict(Desk!cameraEditPayload, DOMAIN Desk!cameraEditPayload \ {"gps"})
<1> DEFINE place == IF "place" \in DOMAIN other THEN other["place"] ELSE listed["place"]
<1> DEFINE named == IF place = Desk!NotSet THEN {"place"} ELSE {}
<1> DEFINE sent == DOMAIN other \cup {"gps"} \cup named
<1> DEFINE q == [f \in sent |-> IF f \in named \cup {"gps"} THEN Desk!Entered ELSE other[f]]
<1>1. Desk!located = [stage |-> "sent", payload |-> q, stray |-> DOMAIN other \ dialog.touched]
  BY DEF Desk!located
<1>2. Desk!cameraEditPayload = [f \in S |-> dialog.fields[f]]
  BY DEF Desk!cameraEditPayload, Desk!Restrict
<1>3. other = [f \in S \ {"gps"} |-> dialog.fields[f]]
  BY <1>2 DEF Desk!Restrict
<1>4. DOMAIN other \subseteq {"place"}
  BY <1>3 DEF Desk!Fields
<1>5. dialog.fields["place"] \in {Desk!NotSet, Desk!Entered}
  BY DEF DeskTypes, DialogType, Desk!Fields
<1>6. \A f \in DOMAIN other : other[f] \in {Desk!NotSet, Desk!Entered}
  BY <1>3, <1>4, <1>5
<1> HIDE DEF S, other, place
<1>7. sent \in SUBSET Desk!Fields
  BY <1>4 DEF Desk!Fields
<1>8. \A f \in sent : q[f] \in {Desk!NotSet, Desk!Entered}
  BY <1>6
<1>9. q = [f \in sent |-> q[f]]
  OBVIOUS
<1> HIDE DEF sent, q, named
<1>10. q \in ValidPayload
  BY <1>7, <1>8, <1>9, IsValidPayload
<1>11. DOMAIN other \ dialog.touched \in SUBSET Desk!Fields
  BY <1>4 DEF Desk!Fields
<1> QED
  BY <1>1, <1>10, <1>11 DEF SentRequest

LEMMA AutoLocateTypes ==
  ASSUME DeskTypes, NEW before, NEW now, Desk!AutoLocate(before, now) PROVE auto' \in AutoType
<1>1. MaxFlights \in Nat /\ auto \in AutoType
  BY ConsoleAssumption DEF Desk!DeskAssumption, DeskTypes
<1>2. CASE auto' = auto
  BY <1>1, <1>2
<1>3. CASE auto' # auto
  <2>1. /\ auto.flights < MaxFlights
        /\ auto' = [flights |-> auto.flights + 1, place |-> now["place"] = Desk!NotSet,
                    tried |-> Desk!markAttempted(auto)]
    BY <1>3 DEF Desk!AutoLocate
  <2>2. auto.flights + 1 \in 0..MaxFlights
    BY <1>1, <2>1 DEF AutoType
  <2> QED
    BY <2>1, <2>2 DEF AutoType, Desk!markAttempted
<1> QED
  BY <1>2, <1>3

LEMMA ClosedTypes ==
  /\ Desk!Closed \in DialogType /\ Desk!Closed.fields["place"] # Desk!Invalid
  /\ [open |-> FALSE, mine |-> FALSE] \in LocatorType
  /\ [open |-> TRUE, mine |-> FALSE] \in LocatorType
  /\ [request |-> Desk!NoRequest, mine |-> FALSE] \in SaveType
  /\ [step |-> "none", request |-> Desk!NoRequest] \in RunType
<1>1. Desk!Closed \in DialogType /\ Desk!Closed.fields["place"] # Desk!Invalid
  BY DEF Desk!Closed, DialogType, Desk!Fields, Desk!NotSet, Desk!Invalid
<1> QED
  BY <1>1 DEF LocatorType, SaveType, RunType

LEMMA DeskTypesKept ==
  ASSUME DeskTypes, Desk!DeskNext
  PROVE  DeskTypes'
<1>0. MaxFlights \in Nat
  BY ConsoleAssumption DEF Desk!DeskAssumption
<1>1. CASE Desk!Refreshed
  <2>1. dialog' \in DialogType /\ dialog'.fields["place"] # Desk!Invalid
    BY <1>1 DEF DeskTypes, DialogType, Desk!Refreshed, Desk!Renew
  <2>2. auto' \in AutoType
    BY <1>1, AutoLocateTypes DEF Desk!Refreshed, Desk!Renew
  <2> QED
    BY <1>1, <2>1, <2>2 DEF DeskTypes, Desk!Refreshed, Desk!Renew
<1>2. CASE Desk!AutoStored \/ Desk!AutoFails
  <2>1. auto' \in AutoType
    <3>1. auto \in AutoType /\ auto.flights - 1 \in 0..MaxFlights
      BY <1>0, <1>2 DEF DeskTypes, AutoType, Desk!AutoStored, Desk!AutoFails
    <3>2. auto' = [auto EXCEPT !.flights = auto.flights - 1, !.place = FALSE]
      BY <1>2 DEF Desk!AutoStored, Desk!AutoFails
    <3> QED
      BY <3>1, <3>2 DEF AutoType
  <2>2. stored' \in Desk!Camera
    <3>1. CASE Desk!AutoFails
      BY <3>1 DEF DeskTypes, Desk!AutoFails
    <3>2. CASE Desk!AutoStored
      <4> DEFINE S == IF auto.place THEN Desk!Fields ELSE {"gps"}
      <4>1. stored' = Desk!Apply([f \in S |-> Desk!Entered])
        BY <3>2 DEF Desk!AutoStored
      <4>2. S \in SUBSET Desk!Fields
        BY DEF Desk!Fields
      <4> HIDE DEF S
      <4>3. [f \in S |-> Desk!Entered] \in ValidPayload
        <5>1. [f \in S |-> Desk!Entered] \in [S -> {Desk!NotSet, Desk!Entered}]
          OBVIOUS
        <5> QED
          BY <4>2, <5>1 DEF ValidPayload
      <4> QED
        BY <4>1, <4>3, AppliedIsACamera DEF DeskTypes
    <3> QED
      BY <1>2, <3>1, <3>2
  <2> QED
    BY <1>2, <2>1, <2>2 DEF DeskTypes, Desk!AutoStored, Desk!AutoFails
<1>3. CASE Desk!OtherEdits
  <2>1. stored' \in Desk!Camera
    BY <1>3 DEF DeskTypes, Desk!OtherEdits, Desk!Camera
  <2> QED
    BY <1>3, <2>1 DEF DeskTypes, Desk!OtherEdits
<1>4. CASE Desk!formFor
  <2>1. dialog' \in DialogType /\ dialog'.fields["place"] # Desk!Invalid
    BY <1>4 DEF DeskTypes, DialogType, Desk!formFor, Desk!Camera, Desk!Fields, Desk!NotSet,
                Desk!Entered, Desk!Invalid
  <2> QED
    BY <1>4, <2>1 DEF DeskTypes, Desk!formFor
<1>5. ASSUME NEW f \in Desk!Fields, Desk!set(f) PROVE DeskTypes'
  <2>1. PICK v \in {Desk!NotSet, Desk!Entered} \cup (IF f = "gps" THEN {Desk!Invalid} ELSE {}) :
          dialog' = [dialog EXCEPT !.fields[f] = v, !.touched = @ \cup {f}]
    BY <1>5 DEF Desk!set
  <2>2. /\ dialog.fields \in [Desk!Fields -> {Desk!NotSet, Desk!Entered, Desk!Invalid}]
        /\ dialog.fields["place"] # Desk!Invalid
    BY DEF DeskTypes, DialogType
  <2> DEFINE fields0 == [dialog.fields EXCEPT ![f] = v]
  <2>3. /\ fields0 \in [Desk!Fields -> {Desk!NotSet, Desk!Entered, Desk!Invalid}]
        /\ fields0["place"] # Desk!Invalid
    BY <2>2 DEF Desk!Fields, Desk!NotSet, Desk!Entered, Desk!Invalid
  <2>4. dialog' = [dialog EXCEPT !.fields = fields0, !.touched = dialog.touched \cup {f}]
    BY <2>1 DEF DeskTypes, DialogType
  <2> HIDE DEF fields0
  <2>5. dialog' \in DialogType /\ dialog'.fields = fields0
    BY <1>5, <2>3, <2>4 DEF DeskTypes, DialogType
  <2> QED
    BY <1>5, <2>3, <2>5 DEF DeskTypes, Desk!set
<1>6. CASE Desk!CancelEdit \/ Desk!openLocate \/ Desk!CloseLocate
  BY <1>6, ClosedTypes DEF DeskTypes, Desk!CancelEdit, Desk!openLocate, Desk!CloseLocate
<1>7. CASE Desk!submit
  <2>1. save' = [request |-> [stage |-> "sent", payload |-> Desk!cameraEditPayload,
                              stray |-> DOMAIN Desk!cameraEditPayload \ dialog.touched],
                 mine |-> TRUE]
    BY <1>7 DEF Desk!submit
  <2>2. Desk!cameraEditPayload \in ValidPayload
    BY <1>7, EditIsValid DEF Desk!submit
  <2>3. DOMAIN Desk!cameraEditPayload \subseteq Desk!Fields
    BY <2>2 DEF ValidPayload
  <2>4. save' \in SaveType
    BY <2>1, <2>2, <2>3 DEF SaveType, SentRequest
  <2> QED
    BY <1>7, <2>4 DEF DeskTypes, Desk!submit
<1>8. CASE Desk!SaveStored
  <2>1. save.request \in SentRequest
    BY <1>8 DEF DeskTypes, SaveType, Desk!SaveStored, Desk!NoRequest
  <2>2. stored' \in Desk!Camera
    BY <1>8, <2>1, AppliedIsACamera DEF DeskTypes, SentRequest, Desk!SaveStored
  <2>3. save' \in SaveType
    BY <1>8, DoneIsSent DEF DeskTypes, SaveType, Desk!SaveStored
  <2> QED
    BY <1>8, <2>2, <2>3 DEF DeskTypes, Desk!SaveStored
<1>9. CASE Desk!Saved \/ Desk!SaveFails
  BY <1>9, ClosedTypes DEF DeskTypes, Desk!Saved, Desk!SaveFails
<1>10. CASE Desk!LeaveDesk
  <2>1. save' \in SaveType
    BY <1>10 DEF DeskTypes, SaveType, Desk!LeaveDesk
  <2> QED
    BY <1>10, <2>1, ClosedTypes DEF DeskTypes, Desk!LeaveDesk
<1>11. CASE Desk!locateConsole
  <2>1. run' \in RunType
    BY <1>11, LocatedIsValid DEF RunType, Desk!locateConsole
  <2>2. locator' \in LocatorType
    BY <1>11 DEF DeskTypes, LocatorType, Desk!locateConsole
  <2> QED
    BY <1>11, <2>1, <2>2 DEF DeskTypes, Desk!locateConsole
<1>12. CASE Desk!Fixed
  <2>1. run' \in RunType
    BY <1>12 DEF DeskTypes, RunType, Desk!Fixed
  <2> QED
    BY <1>12, <2>1 DEF DeskTypes, Desk!Fixed
<1>13. CASE Desk!LocationStored
  <2>1. run.request \in SentRequest
    BY <1>13 DEF DeskTypes, RunType, Desk!LocationStored, Desk!NoRequest
  <2>2. stored' \in Desk!Camera
    BY <1>13, <2>1, AppliedIsACamera DEF DeskTypes, SentRequest, Desk!LocationStored
  <2>3. run' \in RunType
    BY <1>13, DoneIsSent DEF DeskTypes, RunType, Desk!LocationStored
  <2> QED
    BY <1>13, <2>2, <2>3 DEF DeskTypes, Desk!LocationStored
<1>14. CASE Desk!Located
  <2>1. auto' \in AutoType
    BY <1>14, AutoLocateTypes DEF Desk!Located
  <2>2. save' \in SaveType
    BY <1>14 DEF DeskTypes, SaveType, Desk!Located
  <2> QED
    BY <1>14, <2>1, <2>2, ClosedTypes DEF DeskTypes, Desk!Located
<1>15. CASE Desk!LocationFails
  <2>1. locator' \in LocatorType
    BY <1>15 DEF DeskTypes, LocatorType, Desk!LocationFails
  <2> QED
    BY <1>15, <2>1, ClosedTypes DEF DeskTypes, Desk!LocationFails
<1> QED
  BY <1>1, <1>2, <1>3, <1>4, <1>5, <1>6, <1>7, <1>8, <1>9, <1>10, <1>11, <1>12, <1>13, <1>14,
     <1>15 DEF Desk!DeskNext

(***************************************************************************)
(* The alerts page                                                         *)
(***************************************************************************)
Row == [id : Triage!Reports, state : {"open", "acknowledged"}]
FormType == [alarm : BOOLEAN, note : Triage!Reports \cup {Triage!NoReport}, asking : BOOLEAN]
RequestType ==
  [kind : {"acknowledge", "delete"}, id : Triage!Reports, alarm : BOOLEAN,
   note : Triage!Reports \cup {Triage!NoReport}]
Copied == {"none", "open", "acknowledged"}

\* Nothing is copied for no alert, and a deletion is asked about an alert shown.
RenderedTypes ==
  /\ items \in Seq(Row)
  /\ selectedId \in Triage!Reports \cup {Triage!NoReport}
  /\ detail \in Copied
  /\ selectedId = Triage!NoReport => detail = "none"
  /\ form \in FormType
  /\ form.asking => Triage!shownId # Triage!NoReport

TriageTypes ==
  /\ RenderedTypes
  /\ triaged \in [Triage!Reports -> {"open", "acknowledged", "gone"}]
  /\ onlyOpen \in BOOLEAN /\ alertPage \in 0..MaxReports
  /\ request \in RequestType \cup {Triage!NoRequest}

LEMMA TriageTypesAre == TriageTypes => Triage!TriageTypeOK
BY DEF TriageTypes, RenderedTypes, Row, FormType, RequestType, Copied, Triage!TriageTypeOK

\* What is shown is the alert in the address, which is one of the backend's.
LEMMA ShownIsSelected ==
  ASSUME RenderedTypes
  PROVE  /\ Triage!shownId \in {Triage!NoReport, selectedId}
         /\ Triage!shownId \in Triage!Reports \cup {Triage!NoReport}
         /\ Triage!shownId # Triage!NoReport => selectedId \in Triage!Reports
         /\ Triage!selected # "none" =>
              Triage!shownId = selectedId /\ selectedId \in Triage!Reports
<1>1. Triage!shownId \in {Triage!NoReport, selectedId}
  BY DEF Triage!shownId
<1>2. selectedId \in Triage!Reports \cup {Triage!NoReport}
  BY DEF RenderedTypes
<1>3. ASSUME Triage!selected # "none" PROVE selectedId \in Triage!Reports
  <2>1. CASE Triage!InList(selectedId)
    <3>1. PICK i \in DOMAIN items : items[i].id = selectedId
      BY <2>1 DEF Triage!InList
    <3>2. items[i] \in Row
      BY <3>1 DEF RenderedTypes
    <3> QED
      BY <3>1, <3>2 DEF Row
  <2>2. CASE ~Triage!InList(selectedId)
    BY <1>2, <1>3, <2>2 DEF Triage!selected, RenderedTypes
  <2> QED
    BY <2>1, <2>2
<1> QED
  BY <1>1, <1>2, <1>3 DEF Triage!shownId

\* A page of the list, also one past its end, is a sequence of alerts.
LEMMA ListedTypes ==
  ASSUME TriageTypes, NEW ranked \in [1..Triage!Cardinality(Triage!Matching) -> Triage!Matching]
  PROVE  Triage!Listed(ranked) \in Seq(Row)
<1> DEFINE count == Cardinality(Triage!Matching)
<1> DEFINE first == alertPage * PAGE_SIZE
<1> DEFINE size == IF count - first < PAGE_SIZE THEN count - first ELSE PAGE_SIZE
<1> DEFINE length == IF size < 0 THEN 0 ELSE size
<1> DEFINE at(i) == [id |-> ranked[first + i], state |-> triaged[ranked[first + i]]]
<1>1. PAGE_SIZE \in Nat /\ MaxReports \in Nat /\ alertPage \in Nat
  BY ConsoleAssumption DEF Triage!TriageAssumption, TriageTypes
<1>2. count \in Nat /\ Triage!Cardinality(Triage!Matching) = count
  <2>1. IsFiniteSet(1..MaxReports)
    BY <1>1, FS_Interval
  <2>2. IsFiniteSet(Triage!Matching)
    BY <2>1, FS_Subset DEF Triage!Matching, Triage!Reports
  <2> QED
    BY <2>2, FS_CardinalityType, SameCardinality
<1>3. first \in Nat
  BY <1>1
<1>4. size \in Int /\ size <= count - first
  BY <1>1, <1>2, <1>3
<1>5. Triage!Listed(ranked) = [i \in 1..size |-> at(i)]
  BY <1>2 DEF Triage!Listed
<1> HIDE DEF count, first, size
<1>6. length \in Nat /\ 1..size = 1..length /\ (length # 0 => length <= count - first)
  BY <1>4
<1>7. ASSUME NEW i \in 1..length PROVE at(i) \in Row
  <2>1. first + i \in 1..count
    BY <1>2, <1>3, <1>4, <1>6, <1>7
  <2>2. ranked[first + i] \in Triage!Matching
    BY <1>2, <2>1
  <2>3. ranked[first + i] \in Triage!Reports
    BY <2>2 DEF Triage!Matching
  <2>4. triaged[ranked[first + i]] \in {"open", "acknowledged"}
    BY <2>2 DEF Triage!Matching
  <2> QED
    BY <2>3, <2>4 DEF Row
<1> HIDE DEF length, at
<1>8. [i \in 1..length |-> at(i)] \in [1..length -> Row]
  BY <1>7
<1>9. [i \in 1..length |-> at(i)] \in Seq(Row)
  BY <1>6, <1>8
<1> QED
  BY <1>5, <1>6, <1>9

LEMMA RendersTypes ==
  ASSUME RenderedTypes, NEW rs \in Seq(Row),
         NEW wanted \in Triage!Reports \cup {Triage!NoReport}, NEW copies \in SUBSET Copied, NEW f,
         Triage!Renders(rs, wanted, copies, f), f = form \/ f = Triage!Blank
  PROVE  RenderedTypes'
<1>1. items' = rs /\ selectedId' = Triage!firstSelected(wanted, rs) /\ form' = Triage!keyed(f)
  BY DEF Triage!Renders
<1>2. selectedId' \in Triage!Reports \cup {Triage!NoReport}
  <2>1. rs # <<>> => rs[1] \in Row
    OBVIOUS
  <2> QED
    BY <1>1, <2>1 DEF Triage!firstSelected, Row
<1>3. detail' \in Copied /\ (selectedId' = Triage!NoReport => detail' = "none")
  BY DEF Triage!Renders, Copied
<1>4. Triage!Blank \in FormType /\ ~Triage!Blank.asking
  BY DEF Triage!Blank, FormType
<1>5. form' \in FormType /\ (form'.asking => Triage!shownId' # Triage!NoReport)
  <2>1. \/ form' = form /\ Triage!shownId' = Triage!shownId
        \/ form' = Triage!Blank
    BY <1>1 DEF Triage!keyed
  <2> QED
    BY <1>4, <2>1 DEF RenderedTypes
<1> QED
  BY <1>1, <1>2, <1>3, <1>5 DEF RenderedTypes

\* A form filled in: only what it says of a deletion has to go with what is shown.
LEMMA FillsTypes ==
  ASSUME RenderedTypes, NEW f \in FormType, f.asking => Triage!shownId # Triage!NoReport,
         form' = f, UNCHANGED <<items, selectedId, detail>>
  PROVE  RenderedTypes'
<1>1. Triage!shownId' = Triage!shownId
  BY ShownStays
<1> QED
  BY <1>1 DEF RenderedTypes

LEMMA TriageTypesKept ==
  ASSUME TriageTypes, Triage!TriageNext
  PROVE  TriageTypes'
<1>1. /\ RenderedTypes /\ items \in Seq(Row) /\ detail \in Copied /\ form \in FormType
      /\ selectedId \in Triage!Reports \cup {Triage!NoReport}
  BY DEF TriageTypes, RenderedTypes
<1>2. UNCHANGED <<items, selectedId, detail, form>> => RenderedTypes'
  BY <1>1, ShownStays DEF RenderedTypes
<1>3. CASE Triage!ListFetched
  <2>1. PICK ranked \in [1..Triage!Cardinality(Triage!Matching) -> Triage!Matching] :
          Triage!Renders(Triage!Listed(ranked), selectedId,
                         IF selectedId = Triage!NoReport THEN {"none"}
                         ELSE Triage!Copies(selectedId), form)
    BY <1>3 DEF Triage!ListFetched
  <2>2. (IF selectedId = Triage!NoReport THEN {"none"} ELSE Triage!Copies(selectedId))
          \in SUBSET Copied
    BY <1>1 DEF Triage!Copies, Copied
  <2>3. Triage!Listed(ranked) \in Seq(Row)
    BY ListedTypes
  <2>4. RenderedTypes'
    BY <1>1, <2>1, <2>2, <2>3, RendersTypes
  <2> QED
    BY <1>3, <2>4 DEF TriageTypes, Triage!ListFetched
<1>4. CASE Triage!DetailFetched
  <2>1. Triage!Renders(items, selectedId, {triaged[selectedId]}, form)
    BY <1>4 DEF Triage!DetailFetched
  <2>2. {triaged[selectedId]} \in SUBSET Copied
    BY <1>1, <1>4 DEF TriageTypes, Triage!DetailFetched, Copied
  <2>3. RenderedTypes'
    BY <1>1, <2>1, <2>2, RendersTypes
  <2> QED
    BY <1>4, <2>3 DEF TriageTypes, Triage!DetailFetched
<1>5. ASSUME NEW i, Triage!select(i) PROVE TriageTypes'
  <2>1. i \in DOMAIN items /\ Triage!Renders(items, items[i].id, {"none"}, form)
    BY <1>5 DEF Triage!select
  <2>2. items[i] \in Row
    BY <1>1, <2>1
  <2>3. items[i].id \in Triage!Reports \cup {Triage!NoReport} /\ {"none"} \in SUBSET Copied
    BY <2>2 DEF Row, Copied
  <2>4. RenderedTypes'
    BY <1>1, <2>1, <2>3, RendersTypes
  <2> QED
    BY <1>5, <2>4 DEF TriageTypes, Triage!select
<1>6. CASE Triage!Acknowledged
  <2> DEFINE rs == [i \in DOMAIN items |-> IF items[i].id # request.id THEN items[i]
                                           ELSE [items[i] EXCEPT !.state = "acknowledged"]]
  <2>1. rs \in Seq(Row)
    <3>1. ASSUME NEW i \in DOMAIN items PROVE rs[i] \in Row
      <4>1. items[i] \in Row
        BY <1>1, <3>1
      <4>2. [items[i] EXCEPT !.state = "acknowledged"] \in Row
        BY <4>1 DEF Row
      <4> QED
        BY <4>1, <4>2
    <3>2. DOMAIN items = 1..Len(items) /\ Len(items) \in Nat
      BY <1>1
    <3> HIDE DEF rs
    <3>3. rs = [i \in 1..Len(items) |-> rs[i]]
      BY <3>2 DEF rs
    <3> QED
      BY <3>1, <3>2, <3>3
  <2>2. /\ Triage!Renders(rs, selectedId,
             {IF selectedId = request.id THEN "acknowledged" ELSE detail}, form)
        /\ request' = Triage!NoRequest /\ UNCHANGED <<onlyOpen, alertPage>>
        /\ triaged' = [triaged EXCEPT ![request.id] = "acknowledged"]
    BY <1>6 DEF Triage!Acknowledged
  <2> HIDE DEF rs
  <2>3. {IF selectedId = request.id THEN "acknowledged" ELSE detail} \in SUBSET Copied
    BY <1>1 DEF Copied
  <2>4. RenderedTypes'
    BY <1>1, <2>1, <2>2, <2>3, RendersTypes
  <2> QED
    BY <2>2, <2>4 DEF TriageTypes
<1>7. CASE Triage!Deleted
  <2>1. /\ Triage!Renders(items, Triage!NoReport, {"none"}, Triage!Blank)
        /\ request' = Triage!NoRequest /\ UNCHANGED <<onlyOpen, alertPage>>
        /\ triaged' = [triaged EXCEPT ![request.id] = "gone"]
    BY <1>7 DEF Triage!Deleted
  <2>2. {"none"} \in SUBSET Copied
    BY DEF Copied
  <2>3. RenderedTypes'
    BY <1>1, <2>1, <2>2, RendersTypes
  <2> QED
    BY <2>1, <2>3 DEF TriageTypes
<1>8. ASSUME NEW o \in BOOLEAN, Triage!withReset(o) PROVE TriageTypes'
  <2>1. MaxReports \in Nat
    BY ConsoleAssumption DEF Triage!TriageAssumption
  <2> QED
    BY <1>2, <1>8, <2>1 DEF TriageTypes, Triage!withReset
<1>9. ASSUME NEW n \in 0..MaxReports, Triage!Turn(n) PROVE TriageTypes'
  BY <1>2, <1>9 DEF TriageTypes, Triage!Turn
<1>10. ASSUME NEW a \in Triage!Reports, Triage!OtherActs(a) PROVE TriageTypes'
  BY <1>2, <1>10 DEF TriageTypes, Triage!OtherActs
<1>11. ASSUME NEW f \in FormType, f.asking => Triage!shownId # Triage!NoReport, Triage!Fills(f)
       PROVE  TriageTypes'
  <2>1. RenderedTypes'
    BY <1>1, <1>11, FillsTypes DEF Triage!Fills
  <2> QED
    BY <1>11, <2>1 DEF TriageTypes, Triage!Fills
<1>12. CASE Triage!setFalseAlarm
  <2>1. [form EXCEPT !.alarm = ~@] \in FormType /\ ~[form EXCEPT !.alarm = ~@].asking
    BY <1>1, <1>12 DEF FormType, Triage!setFalseAlarm, Triage!AtPage
  <2> QED
    BY <1>11, <1>12, <2>1 DEF Triage!setFalseAlarm
<1>13. CASE Triage!setNotes
  <2>1. PICK n \in {Triage!NoReport, Triage!shownId} : Triage!Fills([form EXCEPT !.note = n])
    BY <1>13 DEF Triage!setNotes
  <2>2. n \in Triage!Reports \cup {Triage!NoReport}
    BY <1>1, ShownIsSelected
  <2>3. [form EXCEPT !.note = n] \in FormType /\ ~[form EXCEPT !.note = n].asking
    BY <1>1, <1>13, <2>2 DEF FormType, Triage!setNotes, Triage!AtPage
  <2> QED
    BY <1>11, <2>1, <2>3
<1>14. CASE Triage!AskDelete
  <2>1. [form EXCEPT !.asking = TRUE] \in FormType
    BY <1>1 DEF FormType
  <2>2. Triage!shownId # Triage!NoReport
    BY <1>1, <1>14, ShownIsSelected DEF Triage!AskDelete, Triage!Reports, Triage!NoReport
  <2> QED
    BY <1>11, <1>14, <2>1, <2>2 DEF Triage!AskDelete
<1>15. CASE Triage!KeepAlert
  <2>1. [form EXCEPT !.asking = FALSE] \in FormType /\ ~[form EXCEPT !.asking = FALSE].asking
    BY <1>1 DEF FormType
  <2> QED
    BY <1>11, <1>15, <2>1 DEF Triage!KeepAlert
<1>16. ASSUME NEW r \in RequestType, Triage!Sends(r) PROVE TriageTypes'
  BY <1>2, <1>16 DEF TriageTypes, Triage!Sends
<1>17. CASE Triage!acknowledge
  <2>1. selectedId \in Triage!Reports
    BY <1>1, <1>17, ShownIsSelected DEF Triage!acknowledge
  <2>2. [kind |-> "acknowledge", id |-> selectedId, alarm |-> form.alarm, note |-> form.note]
          \in RequestType
    BY <1>1, <2>1 DEF FormType, RequestType
  <2> QED
    BY <1>16, <1>17, <2>2 DEF Triage!acknowledge
<1>18. CASE Triage!enter
  <2>1. selectedId \in Triage!Reports
    BY <1>1, <1>18, ShownIsSelected DEF Triage!enter
  <2>2. [kind |-> "acknowledge", id |-> selectedId, alarm |-> FALSE, note |-> Triage!NoReport]
          \in RequestType
    BY <2>1 DEF RequestType
  <2> QED
    BY <1>16, <1>18, <2>2 DEF Triage!enter
<1>19. CASE Triage!ConfirmDelete
  <2>1. selectedId \in Triage!Reports
    BY <1>1, <1>19, ShownIsSelected DEF Triage!ConfirmDelete, RenderedTypes
  <2>2. [Triage!NoRequest EXCEPT !.kind = "delete", !.id = selectedId] \in RequestType
    BY <2>1 DEF RequestType, Triage!NoRequest
  <2> QED
    BY <1>16, <1>19, <2>2 DEF Triage!ConfirmDelete
<1>20. CASE Triage!RequestFails
  BY <1>2, <1>20 DEF TriageTypes, Triage!RequestFails
<1> QED
  BY <1>3, <1>4, <1>5, <1>6, <1>7, <1>8, <1>9, <1>10, <1>12, <1>13, <1>14, <1>15, <1>17, <1>18,
     <1>19, <1>20 DEF Triage!TriageNext

(***************************************************************************)
(* All of them                                                             *)
(***************************************************************************)
\* The types of the parts, and the invariants that they rest on.
TypesInv ==
  /\ HistoryInv /\ ShellInv /\ BoardInv /\ BoardTypes /\ ViewInv /\ ViewTypes
  /\ ReadingTypes /\ DeskTypes /\ Editor!EditorTypeOK /\ Evidence!EvidenceTypeOK
  /\ Street!StreetTypeOK /\ MapTypes /\ Registry!RegistryTypeOK /\ TriageTypes

LEMMA TypesInvStarts == ConsoleInit => TypesInv
<1> SUFFICES ASSUME ConsoleInit PROVE TypesInv
  OBVIOUS
<1>1. HistoryInv /\ ShellInv /\ BoardInv /\ ViewInv
  BY HistoryStarts, ShellInvStarts, BoardInvStarts, ViewInvStarts
<1>2. BoardTypes
  BY DEF ConsoleInit, Board!AlertsInit, BoardTypes
<1>3. ViewTypes
  <2>1. View!ViewInit
    BY DEF ConsoleInit
  <2>2. MaxFrames \in Nat /\ View!NoFrame \in View!Frames
    BY ConsoleAssumption DEF View!CameraViewAssumption, View!Frames
  <2>3. live \in [Cameras -> 0..MaxFrames]
    BY <2>1, <2>2 DEF View!ViewInit
  <2> QED
    BY <2>1, <2>2, <2>3 DEF View!ViewInit, ViewTypes
<1>4. ReadingTypes
  BY ReadingTypesStart DEF ConsoleInit
<1>5. DeskTypes
  <2>1. Desk!DeskInit
    BY DEF ConsoleInit
  <2>2. auto \in AutoType
    BY <2>1, ConsoleAssumption DEF Desk!DeskInit, Desk!DeskAssumption, AutoType
  <2> QED
    BY <2>1, <2>2, ClosedTypes DEF Desk!DeskInit, DeskTypes
<1>6. Editor!EditorTypeOK
  <2>1. Editor!EditorInit
    BY DEF ConsoleInit
  <2>2. MaxCorners \in Nat
    BY ConsoleAssumption DEF Editor!EditorAssumption
  <2>3. Editor!NoCorners \in [count : 0..MaxCorners, over : SUBSET Feeds]
    BY <2>2 DEF Editor!NoCorners
  <2>4. Editor!Idle \in [zone : Feeds \cup {NoZone, NewZone}, camera : Feeds \cup {NoFeed}]
    BY DEF Editor!Idle
  <2> QED
    BY <2>1, <2>3, <2>4 DEF Editor!EditorInit, Editor!EditorTypeOK
<1>7. Evidence!EvidenceTypeOK
  BY PiecesAreFinite
     DEF ConsoleInit, Evidence!EvidenceInit, Evidence!EvidenceTypeOK, Evidence!Tiers,
         Evidence!Filters, Evidence!NobodyShown, Evidence!NoUpload, Evidence!MaxSent
<1>8. Street!StreetTypeOK
  <2>1. Street!FirstProvider \in configuredProviders \cup {"null"}
    BY FirstIsConfigured
  <2> QED
    BY <2>1 DEF ConsoleInit, Street!StreetInit, Street!StreetTypeOK, Street!Radii
<1>9. MapTypes
  <2>1. Map!MapInit
    BY DEF ConsoleInit
  <2>2. MaxCorners \in Nat
    BY ConsoleAssumption DEF Map!MapAssumption
  <2>3. drawing \in 0..(MaxCorners + 1)
    BY <2>1, <2>2 DEF Map!MapInit, Map!NotDrawing
  <2> QED
    BY <2>1, <2>3 DEF Map!MapInit, MapTypes
<1>10. Registry!RegistryTypeOK
  <2>1. Registry!RegistryInit
    BY DEF ConsoleInit
  <2>2. Registry!EMPTY \in Registry!Drafts
    BY DEF Registry!Drafts, Registry!EMPTY
  <2>3. step \in Registry!Identity..Registry!Review
    BY <2>1 DEF Registry!RegistryInit, Registry!Identity, Registry!Review
  <2> QED
    BY <2>1, <2>2, <2>3 DEF Registry!RegistryInit, Registry!RegistryTypeOK
<1>11. TriageTypes
  BY ConsoleAssumption
     DEF ConsoleInit, Triage!TriageInit, Triage!TriageAssumption, Triage!Blank, TriageTypes,
         RenderedTypes, FormType, Copied
<1> QED
  BY <1>1, <1>2, <1>3, <1>4, <1>5, <1>6, <1>7, <1>8, <1>9, <1>10, <1>11 DEF TypesInv

\* The part that moves keeps its types, the others stand still.
LEMMA TypesInvKept == TypesInv /\ [ConsoleNext]_consoleVars => TypesInv'
<1> SUFFICES ASSUME TypesInv, [ConsoleNext]_consoleVars PROVE TypesInv'
  OBVIOUS
<1> USE OnePartMoves DEF TypesInv
<1>1. HistoryInv' /\ ShellInv' /\ BoardInv' /\ ViewInv'
  BY HistoryKept, ShellInvKept, BoardInvKept, ViewInvKept
<1>2. BoardTypes'
  <2>1. UNCHANGED alertVars => BoardTypes'
    BY DEF alertVars, BoardTypes
  <2> QED
    BY <2>1, BoardTypesKept
<1>3. ViewTypes'
  <2>1. UNCHANGED viewVars => ViewTypes'
    BY DEF viewVars, ViewTypes
  <2> QED
    BY <2>1, ViewTypesKept
<1>4. ReadingTypes'
  <2>1. UNCHANGED readingVars => ReadingTypes'
    BY DEF readingVars, ReadingTypes
  <2> QED
    BY <2>1, ReadingTypesKept
<1>5. DeskTypes'
  <2>1. UNCHANGED deskVars => DeskTypes'
    BY DEF deskVars, DeskTypes
  <2> QED
    BY <2>1, DeskTypesKept
<1>6. Editor!EditorTypeOK'
  <2>1. UNCHANGED editorVars => Editor!EditorTypeOK'
    BY DEF editorVars, Editor!EditorTypeOK
  <2> QED
    BY <2>1, EditorTypesKept
<1>7. Evidence!EvidenceTypeOK'
  <2>1. UNCHANGED evidenceVars => Evidence!EvidenceTypeOK'
    BY DEF evidenceVars, Evidence!EvidenceTypeOK
  <2> QED
    BY <2>1, EvidenceTypesKept
<1>8. Street!StreetTypeOK'
  <2>1. UNCHANGED streetVars => Street!StreetTypeOK'
    BY DEF streetVars, Street!StreetTypeOK
  <2> QED
    BY <2>1, StreetTypesKept
<1>9. MapTypes'
  <2>1. UNCHANGED mapVars => MapTypes'
    BY DEF mapVars, MapTypes
  <2> QED
    BY <2>1, MapTypesKept
<1>10. Registry!RegistryTypeOK'
  <2>1. UNCHANGED registryVars => Registry!RegistryTypeOK'
    BY DEF registryVars, Registry!RegistryTypeOK
  <2> QED
    BY <2>1, RegistryTypesKept
<1>11. TriageTypes'
  <2>1. UNCHANGED triageVars => TriageTypes'
    BY ShownStays DEF triageVars, TriageTypes, RenderedTypes
  <2> QED
    BY <2>1, TriageTypesKept
<1> QED
  BY <1>1, <1>2, <1>3, <1>4, <1>5, <1>6, <1>7, <1>8, <1>9, <1>10, <1>11

\* Every part of the console has values of its types at all times: no request is
\* made of a record, a camera or an alert that is none, no index or page runs out of
\* the list it counts, and no panorama is searched for without end.
THEOREM ConsoleTypesHold == ConsoleSpec => []ConsoleTypeOK
<1>1. TypesInv => ConsoleTypeOK
  <2> SUFFICES ASSUME TypesInv PROVE ConsoleTypeOK
    OBVIOUS
  <2>1. Analysis!AnalysisTypeOK
    BY DEF TypesInv, HistoryInv
  <2>2. Shell!ShellTypeOK
    BY DEF TypesInv, ShellInv, StripSound, Shell!ShellTypeOK
  <2>3. Board!AlertsTypeOK /\ View!ViewTypeOK /\ Reading!ReadingTypeOK /\ Desk!DeskTypeOK
    BY BoardTypesAre, ViewTypesAre, ReadingTypesAre, DeskTypesAre DEF TypesInv
  <2>4. Map!MapTypeOK /\ Triage!TriageTypeOK
    BY MapTypesAre, TriageTypesAre DEF TypesInv
  <2> QED
    BY <2>1, <2>2, <2>3, <2>4 DEF TypesInv, ConsoleTypeOK
<1> QED
  BY <1>1, TypesInvStarts, TypesInvKept, PTL DEF ConsoleSpec

=============================================================================
