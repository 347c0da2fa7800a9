SPECIFICATION Spec
CONSTANTS
  Uploads = {u1, u2}
  Strangers = {u2}
  Downloads = {d1, d2}
  Chunks = {"x", "y"}
  Contents <- MCContents
  Hashes <- MCHashes
  Sha256 <- MCSha256
  NoUpload = NoUpload
  NoFile = NoFile
  NoAnswer = NoAnswer
  MaxCrashes = 1
  MaxDamages = 1
INVARIANTS OnlyWholeBlobs NothingLeftBehind
PROPERTY BlobRegistrySpec
CHECK_DEADLOCK FALSE
