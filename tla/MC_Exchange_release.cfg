CONSTANTS
  Ops = {"peerlist", "filelist", "download", "ping"}
  BufSize = 4
  FileSize = 5
  FileName <- MCFileName
  PeerId <- MCPeerId
  PeerLists <- MCPeerLists
  FileLists <- MCFileLists
SPECIFICATION Spec
PROPERTY ConnectionReleased
\* The connection ends once both sides are done with it.
CHECK_DEADLOCK FALSE
