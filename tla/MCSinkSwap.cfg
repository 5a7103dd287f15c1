SPECIFICATION FairSpec
CONSTANTS
  None = None
  TcpWriter = {t1}
  HttpWriter = {h1}
  Swap = {s1, s2}
  Uri = {file, lls, udp}
  RawUri = {lls}
  FileUri = {file}
  BootUri = file
INVARIANTS SinkOutlivesWrite OutputKept ServedInOrder
PROPERTIES ImplementsAtomicOutput EveryRequestEnds
