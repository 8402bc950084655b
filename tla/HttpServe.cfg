CONSTANTS
  MayFail = {"poll", "client", "group", "add", "commit"}
  MaxChanges = 4
  Width <- MCWidth
  Flags = {"https"}
  Texts = {"id", "org"}
  Addresses = {"ip4address"}
  Default <- MCDefault
  Files <- MCFiles
  uuid = uuid
  org1 = org1
  addr1 = addr1
  Strings = {uuid, org1}
  Ip4 = {addr1}
  Empty = Empty
  Unset = Unset
  Absent = Absent
  Object = Object
  Reading = Reading
  Table <- MCTable
  Splits <- MCSplits
  Queries <- MCQueries
  SizeModulus = 65536
  TemplateLength = 100
  FileTexts <- MCFileTexts
  MessageLengths = {0, 13, 255}

SPECIFICATION HttpSpec

INVARIANTS
  HttpTypeOK
  PollsLiveObjects
  CleanupOnlyLive
  AnnouncedIsServed
  SettingsUsable
  PageShowsAll
  RenderedFits
