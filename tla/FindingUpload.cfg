\* One upload, nothing lost: its last chunk overtakes the first.
SPECIFICATION FairSpec
CONSTANTS
  u1 = u1
  u2 = u2
  Uploads = {u1}
  NumChunks = 2
  Nobody = Nobody
  MaxChunkRetries = 3
  Simultaneous = 3
  MaxTrouble = 0
CHECK_DEADLOCK FALSE
PROPERTY UploadedIsAssembled
