SPECIFICATION FairMain
CONSTANTS
  SERIES = "RH71"
  CONFIG_RAM_BUILD = FALSE
  FLASH_BASE_PAGE <- MCBasePage
  BOOTLOADER_PAGES = 16
  APP_PAGES = 16
  DEVICE_PAGES = 48
  EPA_FIELD = "page"
  STORE_FAULTS = TRUE
  Cell <- MCCell
  InitialFlashes <- MCInitialFlashes
  AskedIds = {0, 1, 255}
  AskedPages <- MCAskedPages
  AskedBuffers <- MCContent
  MaxCalls = 2
  MaxResets = 1
  CONFIG_PAGE_SIZE = 2
  crc_32_page <- MCcrc_32_page
  AskedCrcs <- MCAskedCrcs
  AskedChunks <- MCAskedChunks
  AskedActions <- MCAskedActions
  STACK_ADDRESS = 7
  MaxRequests = 3
  MESSAGE = 5
INVARIANTS
  MainTypeOK
  FlashAtRest
  BootsAckedPartition
  CommandsUninterrupted
  ReplyLeavesBeforeJump
PROPERTIES
  OnlyNamedPagesChange
  ServesAgain
  ImplementsBootloader
  BootControlFromReset
  ImplementsStore
CHECK_DEADLOCK FALSE
