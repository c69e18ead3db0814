----------------------------- MODULE TagGrammar -----------------------------
(***************************************************************************)
(* What a card understands and answers: the grammar that the comments of   *)
(* src/SkyeTekAPI/Tag/DesfireTag.c, GenericTag.c and Iso14443ATag.c give   *)
(* for the data of a command.  The code is checked against it.             *)
(***************************************************************************)
EXTENDS TagCodec

LOCAL INSTANCE SequencesExt

File(c)     == INTEGER(c.file[1])
FlagOf(n)   == BOOLEAN_(IF n = 0 THEN 0 ELSE 1)
Flags(s)    == [i \in DOMAIN s |-> FlagOf(s[i])[1]]
Rights(c)   ==
  Braces(ENUMERATED(c.read) \o ENUMERATED(c.write) \o ENUMERATED(c.readWrite)
           \o ENUMERATED(c.change))
KeySettings(c) ==
  Braces(ENUMERATED(c.access)
           \o Flags(<<c.frozen, c.createDelete, c.directory, c.masterChange>>))
OptionalString(s) == IF s = <<>> THEN <<>> ELSE OCTET_STRING(s)
OptionalName(n, s) == IF s = <<>> THEN <<>> ELSE Tagged(n, OCTET_STRING(s))

NewFileOf(c) ==
  Braces(File(c) \o ENUMERATED(c.type) \o ENUMERATED(c.comm) \o Rights(c)
    \o CASE c.fn = "CreateDataFile" -> Tagged(1, Braces(INTEGER(c.fileSize)))
         [] c.fn = "CreateValueFile" ->
              Tagged(2, Braces(INTEGER(c.lowerLimit) \o INTEGER(c.upperLimit)
                                 \o INTEGER(c.value) \o FlagOf(c.limited)))
         [] c.fn = "CreateRecordFile" ->
              Tagged(3, Braces(INTEGER(c.recordSize) \o INTEGER(c.maxRecords))))

(* The calls whose data are in the grammar, and what they must say. *)
NewFiles   == {"CreateDataFile", "CreateValueFile", "CreateRecordFile"}
FileOnly   == {"GetCommonFileSettings", "GetDataFileSettings", "GetValueFileSettings",
               "GetRecordFileSettings", "DeleteFile", "ClearFile", "GetValue"}
Expects(c) ==
  CASE c.fn = "AuthenticateTag" -> Braces(INTEGER(c.number) \o OCTET_STRING(c.key))
    [] c.fn \in {"SelectApplication", "DeleteApplication"} -> OCTET_STRING(c.id)
    [] c.fn = "CreateApplication" ->
         Braces(OCTET_STRING(c.id) \o KeySettings(c) \o INTEGER(c.numKeys))
    [] c.fn \in NewFiles -> NewFileOf(c)
    [] c.fn \in FileOnly -> File(c)
    [] c.fn = "ChangeFileSettings" -> Braces(File(c) \o ENUMERATED(c.comm) \o Rights(c))
    [] c.fn \in {"ReadFile", "ReadRecords"} -> Braces(File(c) \o INTEGER(c.start))
    [] c.fn \in {"WriteFile", "WriteRecord"} ->
         Braces(File(c) \o INTEGER(c.start) \o OCTET_STRING(c.data))
    [] c.fn \in {"CreditValueFile", "DebitValueFile", "LimitedCreditValueFile"} ->
         Braces(File(c) \o INTEGER(c.amount))
    [] c.fn = "GetKeyVersion" -> INTEGER(c.number)
    [] c.fn = "ChangeKey" ->
         Braces(INTEGER(c.number) \o INTEGER(c.version) \o OCTET_STRING(c.key)
                  \o OptionalString(c.currentKey))
    [] c.fn = "ChangeApplicationKeySettings" -> Tagged(1, KeySettings(c))
    [] c.fn = "ChangeMasterKeySettings" ->
         Tagged(2, Braces(Flags(<<c.frozen, c.createDelete, c.directory, c.masterChange>>)))
    [] c.fn = "InitializeSecureMemoryTag" ->
         Braces(ENUMERATED(c.hmac) \o OptionalName(1, c.name) \o OCTET_STRING(c.key)
           \o (IF c.cipher = 0 THEN <<>>
               ELSE ENUMERATED(c.cipher) \o OptionalName(2, c.cipherName)
                      \o OptionalString(c.cipherKey))
           \o (IF c.derive THEN BOOLEAN_(1) ELSE <<>>))
    [] c.fn = "SetupSecureMemoryTag" ->
         Braces(OptionalName(1, c.name) \o OCTET_STRING(c.key)
           \o (IF c.cipherKey = <<>> THEN <<>>
               ELSE OptionalName(2, c.cipherName) \o OCTET_STRING(c.cipherKey))
           \o (IF c.derive THEN BOOLEAN_(1) ELSE <<>>))
    [] c.fn = "InterfaceSend" ->
         Braces(ENUMERATED(1)
           \o Tagged(1, Braces(ENUMERATED(c.block) \o OCTET_STRING(c.data))))
    [] c.fn = "TransportSend" ->
         Braces(ENUMERATED(1)
           \o Tagged(1, Braces(OCTET_STRING(c.cla) \o OCTET_STRING(c.ins)
                \o OCTET_STRING(c.p1p2) \o OptionalString(c.data) \o INTEGER(c.le))))
    [] c.fn = "ComputePayment" ->
         Braces(IF c.transaction = 0 THEN <<>>
                ELSE Tagged(1, Braces(ENUMERATED(c.transaction))))

-----------------------------------------------------------------------------
(* The answers, by their shape; v holds what they say.  The card writes    *)
(* the grammar with the steps the host uses.                               *)

FileCommon(v) ==
  ENUM(v.type[1]) \o ENUM(v.comm[1])
    \o SEQUENCE(ENUM(v.read[1]) \o ENUM(v.write[1]) \o ENUM(v.readWrite[1])
                  \o ENUM(v.change[1]))

Track(n, s) == IF s = <<>> THEN <<>> ELSE CONTEXT(n, OCTETS(s))

AnswerSteps(shape, v) ==
  CASE shape = "octets"  -> OCTETS(v.data)
    [] shape = "value"   -> INT(v.value[1])
    [] shape = "version" -> INT(v.version[1])
    [] shape = "data file" ->
         SEQUENCE(FileCommon(v) \o CONTEXT(1, SEQUENCE(INT(v.fileSize[1]))))
    [] shape = "value file" ->
         SEQUENCE(FileCommon(v)
           \o CONTEXT(2, SEQUENCE(INT(v.lowerLimit[1]) \o INT(v.upperLimit[1])
                                    \o INT(v.value[1]) \o BOOL(v.limited[1]))))
    [] shape = "record file" ->
         SEQUENCE(FileCommon(v)
           \o CONTEXT(3, SEQUENCE(INT(v.recordSize[1]) \o INT(v.maxRecords[1])
                                    \o INT(v.numRecords[1]))))
    [] shape = "application" ->
         SEQUENCE(CONTEXT(1, SEQUENCE(ENUM(v.access[1]) \o BOOL(v.frozen[1])
                    \o BOOL(v.createDelete[1]) \o BOOL(v.directory[1])
                    \o BOOL(v.masterChange[1]))) \o INT(v.numKeys[1]))
    [] shape = "master" ->
         SEQUENCE(CONTEXT(2, SEQUENCE(BOOL(v.frozen[1]) \o BOOL(v.createDelete[1])
                    \o BOOL(v.directory[1]) \o BOOL(v.masterChange[1])))
                    \o INT(v.numKeys[1]))
    [] shape = "applications" ->
         SEQUENCE(FlattenSeq([i \in DOMAIN v.ids |-> OCTETS(v.ids[i])]))
    [] shape = "files" -> SEQUENCE(FlattenSeq([i \in DOMAIN v.ids |-> INT(v.ids[i][1])]))
    [] shape = "payment" ->
         SEQUENCE(ENUM(v.systemType[1]) \o OCTETS(v.id) \o OCTETS(v.label)
                    \o INT(v.interchangeProfile[1]) \o OCTETS(v.elementaryFiles))
    [] shape = "tracks" -> SEQUENCE(Track(1, v.track1) \o Track(2, v.track2))

Shapes ==
  [ReadFile |-> "octets", ReadRecords |-> "octets", GetValue |-> "value",
   GetKeyVersion |-> "version", GetDataFileSettings |-> "data file",
   GetValueFileSettings |-> "value file", GetRecordFileSettings |-> "record file",
   GetApplicationKeySettings |-> "application", GetMasterKeySettings |-> "master",
   GetApplicationIDs |-> "applications", GetFileIDs |-> "files",
   InterfaceSend |-> "octets", TransportSend |-> "octets",
   InitiatePayment |-> "payment", ComputePayment |-> "tracks",
   ReadTagData |-> "bytes", ReadTagConfig |-> "bytes", ReadAFI |-> "bytes",
   ReadDSFID |-> "bytes", GetSystemParameter |-> "bytes",
   GetDefaultSystemParameter |-> "bytes", GetDebugMessages |-> "bytes",
   GetTagInfo |-> "info", GetLockStatus |-> "lock"]
FileShapes == {"data file", "value file", "record file"}

(* The answer is one the call can use.  GetCommonFileSettings reads what   *)
(* the three kinds of file share.                                          *)
Fits(fn, shape) ==
  \/ fn = "GetCommonFileSettings" /\ shape \in FileShapes
  \/ fn \in DOMAIN Shapes /\ Shapes[fn] = shape

(* The octets of an answer.  Data of the tag's memory and identifiers are  *)
(* not in the grammar; "other" is an answer no call is prepared for.       *)
Word(n) == <<n \div 256, n % 256>>
AnswerOctets(r) ==
  CASE r.shape \in {"bytes", "other"} -> r.v.data
    [] r.shape = "info" ->
         Word(r.v.startBlock[1]) \o Word(r.v.maxBlock[1]) \o Word(r.v.bytesPerBlock[1])
    [] r.shape = "lock" -> r.v.lock
    [] OTHER -> Encode(AnswerSteps(r.shape, r.v), 16384).octets
=============================================================================
