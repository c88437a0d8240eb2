SPECIFICATION FlashSpec
CONSTANTS
  SERIES = "RH71"
  CONFIG_RAM_BUILD = FALSE
  FLASH_BASE_PAGE <- MCBasePage
  BOOTLOADER_PAGES = 32
  APP_PAGES = 32
  DEVICE_PAGES = 96
  EPA_FIELD = "page"
  STORE_FAULTS = TRUE
  Cell <- MCCell
  InitialFlashes <- MCInitialFlashes
  AskedIds <- MCAskedIds
  AskedPages = {32}
  AskedBuffers <- MCAskedBuffers
  MaxCalls = 2
  MaxResets = 1
INVARIANT
  PageBeyondPartitionRefused
CHECK_DEADLOCK FALSE
