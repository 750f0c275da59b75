\* Three files of two seasons with three failures or cuts; a share of two versions
\* of one name saved twice; trees around the limits of the walk.
SPECIFICATION CloudSpec
CONSTANTS
  f1 = f1
  f2 = f2
  f3 = f3
  Files = {f1, f2, f3}
  Seasons = {1, 2}
  seasonOf <- TwoSeasons
  Target = {f2}
  MaxTries = 2
  MaxFaults = 3
  LateLanding = FALSE
  hd = hd
  uhd = uhd
  extra = extra
  Media = {hd, uhd, extra}
  nameOf <- TwoVersions
  sizeOf <- Sizes
  Selections = {{}, {hd}, {uhd, extra}}
  MaxSaves = 2
  MaxMishaps = 2
  Root = "0"
  Trees <- Shapes
  PageSize = 2
  MaxPages = 2
  MaxFiles = 5
  MaxAttempts_ = 2
  MaxOutages = 4
INVARIANT CloudAgrees DownloadAccounted SaveSound ProbeHonest
PROPERTY FilesServed
CHECK_DEADLOCK FALSE
