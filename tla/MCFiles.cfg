SPECIFICATION FileSystem
CONSTANTS
  Meta = {m1}
  Data = {d1, d2, d3}
  Val = {0, 1}
  None = None
  BLOCK_CACHE_SIZE = 2
  Name = {a, b}
  Handle = {h1, h2}
  LastCluster = 5
  BytesPerCluster = 2
  DirentsPerCluster = 1
  FileVal = {1}
  Lens = {1, 2}
  Flags = {{"RDWR", "CREATE"}, {"RDWR", "TRUNC"}}
  MaxEntries = 2
  MaxOffset = 3
INVARIANTS CachesSound ReadsLatest FatSound
PROPERTIES StoreSpec FilesSpec
SYMMETRY Symmetry
