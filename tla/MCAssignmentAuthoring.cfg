SPECIFICATION FairSpec
CONSTANTS
  Typed <- TypedDrafts
  Sources <- StoredDrafts
  KnownAreas = {1, 2}
  PageFiles = {"score", "tape", "empty"}
  SoundFiles = {"score", "tape"}
  OddFiles = {"huge"}
  NoFile = "none"
  StoredFiles = {"scan"}
  MaxEdits = 1
  MaxFaults = 1
INVARIANTS TypeOK OneAssignment FilesWhereChosen UploadsOnce DoneAsDrawn CurrentFilesExist ServerAcceptsDraft
PROPERTIES RunsEnd
CHECK_DEADLOCK FALSE
