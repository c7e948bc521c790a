------------------------------ MODULE StreetView ------------------------------
(***************************************************************************)
(* The street-level panorama beside the threat map                         *)
(* (frontend/src/components/map/PanoramaView.tsx, lib/panorama.ts): for    *)
(* the point that was asked for, a viewer of one of two providers is       *)
(* mounted in the panel.  Asking for another point, provider or radius     *)
(* cancels the mount under way, whose search goes on: its late result is   *)
(* disposed of if it is Mapillary's, but Google's viewer is in the panel   *)
(* before the cancellation is looked at.                                   *)
(*                                                                         *)
(* Late mounts of one provider at one point count once.                    *)
(***************************************************************************)
EXTENDS Naturals

CONSTANTS Places, NoPlace,
          configuredProviders  \* those the build has a key for

ConfiguredAssumption == configuredProviders \subseteq {"google", "mapillary"}

VARIABLES
  location,     \* the point the panel is open for, or NoPlace
  provider,     \* the provider in use, "null" if none has a key
  radius,       \* metres searched around the point
  status,
  overtaken,    \* cancelled mounts whose search goes on
  viewers,      \* the viewers in the panel: whose, and of which point
  googleLoader  \* the script of Google Maps; bare: it came without Street View

streetVars == <<location, provider, radius, status, overtaken, viewers, googleLoader>>

Mounts == [place : Places, provider : configuredProviders]
Radii == {300, 900, 2700}

StreetTypeOK ==
  /\ location \in Places \cup {NoPlace}
  /\ provider \in configuredProviders \cup {"null"}
  /\ radius \in Radii
  /\ status \in {"loading", "ready", "empty", "error"}
  /\ overtaken \subseteq Mounts /\ viewers \subseteq Mounts
  /\ googleLoader \in {"null", "loading", "loaded", "bare"}

FirstProvider ==
  CASE "google" \in configuredProviders -> "google"
    [] configuredProviders = {"mapillary"} -> "mapillary"
    [] OTHER -> "null"

StreetInit ==
  /\ location = NoPlace /\ provider = FirstProvider /\ radius = 300 /\ status = "loading"
  /\ overtaken = {} /\ viewers = {} /\ googleLoader = "null"

Current == [place |-> location, provider |-> provider]
Mounting == location # NoPlace /\ provider # "null" /\ status = "loading"

\* loadGoogleMaps: once; a script without the library is not asked for again.
loadGoogleMaps(p) ==
  googleLoader' = IF p = "google" /\ googleLoader = "null" THEN "loading" ELSE googleLoader

(***************************************************************************)
(* The effect on the provider, the point and the radius: the cleanup of    *)
(* the former run, then the new mount.                                     *)
(***************************************************************************)
Mount(place, p, r) ==
  /\ location' = place /\ provider' = p /\ radius' = r /\ status' = "loading"
  /\ overtaken' = overtaken \cup (IF Mounting THEN {Current} ELSE {})
  /\ viewers' = {}
  /\ loadGoogleMaps(p)

\* A click on the map in street view mode, or a camera's point: every click
\* makes a new location object.  Bound: not the point that is being mounted.
setPanorama(place) ==
  /\ ~(Mounting /\ place = location)
  /\ IF location = NoPlace
     THEN Mount(place, FirstProvider, 300)
     ELSE Mount(place, provider, radius)

setProvider(p) == location # NoPlace /\ p # provider /\ Mount(location, p, radius)

\* Mutant of WidenSearch: there is no end to it
KeepsWidening ==
  location # NoPlace /\ status = "empty" /\ Mount(location, provider, radius * 3)

WidenSearch ==
  /\ location # NoPlace /\ status = "empty" /\ radius < 2000
  /\ Mount(location, provider, radius * 3)

\* The panel goes, and what is still searched for is mounted nowhere.
CloseStreet ==
  /\ location # NoPlace
  /\ location' = NoPlace /\ overtaken' = {} /\ viewers' = {}
  /\ UNCHANGED <<provider, radius, status, googleLoader>>

(***************************************************************************)
(* The mount in use                                                        *)
(***************************************************************************)
Loaded(p) == p = "google" => googleLoader = "loaded"

Shows ==
  /\ Mounting /\ Loaded(provider)
  /\ viewers' = viewers \cup {Current} /\ status' = "ready"
  /\ UNCHANGED <<location, provider, radius, overtaken, googleLoader>>

NothingNear ==
  /\ Mounting /\ Loaded(provider)
  /\ status' = "empty"
  /\ UNCHANGED <<location, provider, radius, overtaken, viewers, googleLoader>>

MountFails ==
  /\ Mounting
  /\ provider = "google" => googleLoader = "bare"
  /\ status' = "error"
  /\ UNCHANGED <<location, provider, radius, overtaken, viewers, googleLoader>>

(***************************************************************************)
(* Mounts overtaken by another                                             *)
(***************************************************************************)
\* Mutant of lateViewer: Mapillary's late viewer is not removed either
NotDisposed(m) == {m}

lateViewer(m) == IF m.provider = "google" THEN {m} ELSE {}

LateShows(m) ==
  /\ m \in overtaken /\ Loaded(m.provider)
  /\ overtaken' = overtaken \ {m}
  /\ viewers' = viewers \cup lateViewer(m)
  /\ UNCHANGED <<location, provider, radius, status, googleLoader>>

LateGivesUp(m) ==
  /\ m \in overtaken
  /\ m.provider = "google" => googleLoader \in {"loaded", "bare"}
  /\ overtaken' = overtaken \ {m}
  /\ UNCHANGED <<location, provider, radius, status, viewers, googleLoader>>

(***************************************************************************)
(* The script of Google Maps                                               *)
(***************************************************************************)
ScriptLoads ==
  /\ googleLoader = "loading"
  /\ googleLoader' \in {"loaded", "bare"}
  /\ UNCHANGED <<location, provider, radius, status, overtaken, viewers>>

\* Every mount that waits for the script fails; the next one asks again.
ScriptFails ==
  /\ googleLoader = "loading"
  /\ googleLoader' = "null"
  /\ status' = IF Mounting /\ provider = "google" THEN "error" ELSE status
  /\ overtaken' = {m \in overtaken : m.provider # "google"}
  /\ UNCHANGED <<location, provider, radius, viewers>>

StreetNext ==
  \/ \E place \in Places : setPanorama(place)
  \/ \E p \in configuredProviders : setProvider(p)
  \/ WidenSearch \/ CloseStreet \/ Shows \/ NothingNear \/ MountFails
  \/ \E m \in overtaken : LateShows(m) \/ LateGivesUp(m)
  \/ ScriptLoads \/ ScriptFails

(***************************************************************************)
(* Properties                                                              *)
(***************************************************************************)
\* A panel said to be ready has the viewer of its point, and no Mapillary viewer
\* in it is of a point that is no longer asked for.  (Google's may be.)
PanoramaTrue ==
  /\ location # NoPlace /\ status = "ready" => Current \in viewers
  /\ \A v \in viewers : v.provider = "mapillary" => v.place = location
=============================================================================
