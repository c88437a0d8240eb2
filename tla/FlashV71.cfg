SPECIFICATION FairFlashSpec
CONSTANTS
  SERIES = "V71"
  CONFIG_RAM_BUILD = FALSE
  FLASH_BASE_PAGE <- MCBasePage
  BOOTLOADER_PAGES = 32
  APP_PAGES = 32
  DEVICE_PAGES = 288
  EPA_FIELD = "page_div_16"
  STORE_FAULTS = TRUE
  Cell <- MCCell
  InitialFlashes <- MCInitialFlashes
  AskedIds <- MCAskedIds
  AskedPages <- MCAskedPages
  AskedBuffers = {{0}}
  MaxCalls = 2
  MaxResets = 1
PROPERTIES
  BootloaderUntouched
  CommandOnlyWhenReady
  CallReturns
CHECK_DEADLOCK FALSE
