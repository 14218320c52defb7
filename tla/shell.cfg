\* One slot and two peers, who leave and come again; acknowledgements in parts and late.
CONSTANTS
  MaxConnections = 1
  Pcb = {p1, p2}
  NoPcb = NoPcb
  SndBuf = 2
  Token <- MCToken
  Faults = {"partialAcks", "lateAcks"}
  BufferSize = 2
  Sizes <- MCSizes
  Lines = 2
  Careless = {}
SPECIFICATION FairServerSpec
INVARIANTS ServerTypeOK StreamInOrder SlotsAreServed FilesAreClosed AnswerIsWhole
PROPERTY AnswerComes
