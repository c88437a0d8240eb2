SPECIFICATION FairFlashSpec
CONSTANTS
  SERIES = "RH71"
  CONFIG_RAM_BUILD = FALSE
  FLASH_BASE_PAGE <- MCBasePage
  BOOTLOADER_PAGES = 40
  APP_PAGES = 32
  DEVICE_PAGES = 112
  EPA_FIELD = "page"
  STORE_FAULTS = TRUE
  Cell <- MCCell
  InitialFlashes <- MCInitialFlashes
  AskedIds = {0}
  AskedPages = {0}
  AskedBuffers <- MCAskedBuffers
  MaxCalls = 1
  MaxResets = 0
PROPERTY
  BootloaderUntouched
CHECK_DEADLOCK FALSE
