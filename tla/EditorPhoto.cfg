SPECIFICATION EditSpec
CONSTANTS
  MaxPhotos = 3
  MaxAttempts = 2
PROPERTY PhotoIsKept
CHECK_DEADLOCK FALSE
