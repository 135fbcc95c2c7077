CONSTANTS
  Channels <- MCChannels
  Lengths = {2, 5, 6}
  AttPayload = 4
SPECIFICATION Spec
INVARIANTS
  Accounting
  NoSplice
PROPERTIES
  IntactIsDelivered
