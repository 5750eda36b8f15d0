SPECIFICATION Spec
CONSTANTS
  IntMax = 32767
  UintMax = 65535
  TxBuf = 512
  NoLimit = 1000
  Bytes <- MCBytes
  Lengths <- MCLengths
  Fields <- MCFields
  Levels <- MCLevels
  TextLens <- MCTextLens
  BigNumbers <- MCBigNumbers
  Smscs <- MCSmscs
  Numbers <- MCNumbers
  SmsTexts <- MCSmsTexts
  Segments <- MCSegments
  Cid = 1
  AddrSize = 16
INVARIANTS
  GsmTypeOK
  SentWhole
  DocumentedFits
  ReadsBack
  ParseSaturates
  PduReadsBack
