SPECIFICATION SessionSpec
CONSTANTS
  SERIES = "RH71"
  CONFIG_RAM_BUILD = FALSE
  FLASH_BASE_PAGE <- MCBasePage
  BOOTLOADER_PAGES = 16
  APP_PAGES = 16
  DEVICE_PAGES = 48
  EPA_FIELD = "page"
  STORE_FAULTS = TRUE
  Cell <- MCCell
  InitialFlashes <- MCInitialFlashes
  AskedIds = {0}
  AskedPages = {0, 1}
  AskedBuffers <- MCContent
  MaxCalls = 4
  MaxResets = 0
  CONFIG_PAGE_SIZE = 2
  crc_32_page <- MCcrc_32_page
  AskedCrcs <- MCAskedCrcs
  AskedChunks <- MCAskedChunks
  AskedActions = {1, 2}
  STACK_ADDRESS = 7
  MaxRequests = 40
  App = 0
  Image <- MCImage
  PAYLOAD_SIZE = 1
  DO_BOOT = TRUE
  SEQUENCES = 4
  MAX_ERRORS = 2
  MaxFaults = 0
INVARIANT
  ErasedAsSaid
CHECK_DEADLOCK FALSE
