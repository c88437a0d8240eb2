SPECIFICATION FlashSpec
CONSTANTS
  SERIES = "V71"
  CONFIG_RAM_BUILD = FALSE
  FLASH_BASE_PAGE <- MCBasePage
  BOOTLOADER_PAGES = 32
  APP_PAGES = 32
  DEVICE_PAGES = 96
  EPA_FIELD = "page"
  STORE_FAULTS = TRUE
  Cell <- MCCell
  InitialFlashes <- MCInitialFlashes
  AskedIds <- MCAskedIds
  AskedPages <- MCAskedPages
  AskedBuffers <- MCAskedBuffers
  MaxCalls = 2
  MaxResets = 1
INVARIANT
  WriteProgramsItsPage
CHECK_DEADLOCK FALSE
