SPECIFICATION MemorySpec
CONSTANTS
  Threads = {0, 1}
  Vpns = {0, 1, 2}
  num_pages = 3
  NoFrame = NoFrame
  NoPage = NoPage
  NUM_CHANNELS = 2
  NUM_RANKS = 1
  NUM_BANKS = 2
  NUM_ROWS = 2
  NUM_COLUMNS = 2
  CACHE_LINE_SIZE = 2
  OS_PAGESIZE = 8
  Mappings = {1, 2, 3}
INVARIANTS
  TypeOK
  TablesAgree
  CoresKeepApart
  LinesApart
  RandomOnChannel
