SPECIFICATION FairSpec
CONSTANTS
  None = None
  Request = {r1, r2}
  Call <- MCCall
  MaxUpdates = 1
  MaxRetries = 1
  Capacity = 2
INVARIANTS
  ProgressIsOwn
  WebhookTellsRecord
PROPERTIES
  StatusSpec
  ServerFrees
