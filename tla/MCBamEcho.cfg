SPECIFICATION Spec
CONSTANTS
    Views = {"front_center-Scene", "front_center-DepthPlanar"}
    MaxCount = 3
    MaxFailures = 1
INVARIANTS
    TypeOK
    FramesShowTheirRow
    VideosComplete
    NoPictureLost
PROPERTY Ends
