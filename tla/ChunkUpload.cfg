\* Two uploads of one identifier in two pages, in two chunks; one lost message, or
\* one upload that starts while the other is under way.
SPECIFICATION FairSpec
CONSTANTS
  u1 = u1
  u2 = u2
  Uploads = {u1, u2}
  NumChunks = 2
  Nobody = Nobody
  MaxChunkRetries = 3
  Simultaneous = 3
  MaxTrouble = 1
CHECK_DEADLOCK FALSE
INVARIANTS
  TypeOK
  NoForeignParts
  StoredOnce
  FailsFirstByOvertaking
  SuccessIsListed
PROPERTIES
  ImplementsTransfer
  UploadEnds
