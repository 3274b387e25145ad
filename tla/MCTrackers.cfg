\* Two cells, a detection for every missing feature; all four kinds of trackers.
SPECIFICATION Spec
CONSTANTS
  Rigs = {{0}, {0, 1}}
  Grid = {{1}, {2}}
  NumFeatures = {1, 2}
  MinRansac = 1
  NumAruco = 2
  MaxImages <- MCImages
  Places <- MCPlaces
  Masks <- MCMasks
  Hidden = {{}, {0, 2}}
  Given = {0, 1}
  Kinds = {"klt", "descriptor", "aruco", "sim"}
INVARIANTS
  IdsNameOnePoint
  OncePerImage
  TracksUnbroken
  TagsKnownByTheirId
\* the images are used up in the end
CHECK_DEADLOCK FALSE
