SPECIFICATION FolderSpec
CONSTANTS
  Files = {"card"}
  Hashes <- MCHashes
  NoHash = 0
  Folders = {"a"}
  Servers = {"s"}
  MTimes = {1, 2}
  MaxRev = 3
  MaxVersions = 2
  MayMove = FALSE
  MayUnmount = TRUE
  MayRehome = FALSE
  MaySameStat = FALSE
PROPERTY OnlyUsersDelete
CHECK_DEADLOCK FALSE
