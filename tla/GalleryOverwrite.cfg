SPECIFICATION CatalogueSpec
CONSTANTS
  PageSlots = {1}
  MaxPictures = 3
  MaxGallery = 2
  MaxStockRuns = 1
  Missing = Missing
PROPERTY WebFillsEmptySlot
CHECK_DEADLOCK FALSE
