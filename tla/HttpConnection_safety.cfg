SPECIFICATION Spec
CONSTANTS
  Scripts <- MCScripts
  Answers <- MCAnswers
  KeepAlive = 2
  BufSize = 7
  BlockSize = 2
  MaxSize = 3
  RequestMax = 26
INVARIANTS TypeOK HandledInOrder BodiesArriveWhole WholeBodiesAreTaken FilesAreRemoved
           KeepAliveIsKept AnswersAreFramed PartsAreThoseAsked SocketIsReleased
PROPERTY ConnectionEnds
