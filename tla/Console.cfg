SPECIFICATION ConsoleSpec
CONSTANTS
  Jobs = {j1, j2}
  NoJob = NoJob
  FullPercent = 1
  KeptRuns = 1
  MaxUploads = 1
  Paths = {home, map, p1, p2}
  Home = home
  MapPath = map
  MAX_TABS = 3
  Alerts = {a1}
  Cameras = {c1, c2}
  NoCamera = NoCamera
  MaxFrames = 3
  Width = 7
  Height = 5
  Xs = {0, 2, 6}
  Ys = {0, 4}
  Gaps = {0, 1, 4}
  MaxPoints = 4
  Instants = {0, 1, 4}
  MaxFlights = 2
  Feeds = {c1, c2}
  NoFeed = NoFeed
  NoZone = NoZone
  NewZone = NewZone
  MaxCorners = 3
  Items = {e1, e2}
  NoItem = NoItem
  Intact = {e1}
  Places = {l1, l2}
  NoPlace = NoPlace
  configuredProviders = {"google", "mapillary"}
  Placed = {c1}
  Sizes = {s1}
  NoSize = NoSize
  MIN_POINTS = 1
  MaxPairs = 1
  MaxReports = 2
  PAGE_SIZE = 1
INVARIANTS
  ConsoleTypeOK
  TabsSound
  KeysLayered
  RecordingInHand
  ReadingsSound
  PagesSound
PROPERTIES
  ProgressStands
  ResultArrives
  NoneHidden
  AckShown
  PictureTrue
CHECK_DEADLOCK FALSE
