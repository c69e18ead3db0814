--------------------------- MODULE TagCalls_proofs ---------------------------
(***************************************************************************)
(* What an application can rely on that calls a reader of version 2: for   *)
(* any calls of the API, any lines, and any bounds of TagCalls.            *)
(***************************************************************************)
EXTENDS TagCalls, STPv2_proofs, TagCodec_proofs

-----------------------------------------------------------------------------
(* The commands of the functions                                           *)

V2Known == V2Commands \cup V2Unsupported \cup {"NOT_SUPPORTED"}
TagKnown ==
  {"NOT_SUPPORTED", "SelectTag", "ReadTagData", "WriteTagData"} \cup V2UnsupportedState
    \cup V2UnsupportedFiles \cup V2UnsupportedValues \cup V2UnsupportedKeys

LEMMA MemoryCommands ==
  ASSUME NEW c
  PROVE  /\ GenericTag_SelectTag(c).cmd = "SelectTag"
         /\ GenericTag_ReadTagData(c).cmd = "ReadTagData"
         /\ GenericTag_WriteTagData(c).cmd = "WriteTagData"
         /\ GenericTag_ReadTagConfig(c).cmd = "ReadTagConfig"
         /\ GenericTag_WriteTagConfig(c).cmd = "WriteTagConfig"
         /\ GenericTag_LockTagBlock(c).cmd = "WriteTagData"
         /\ GenericTag_GetTagInfo(c).cmd = "GetTagInfo"
         /\ GenericTag_GetLockStatus(c).cmd = "GetLockStatus"
         /\ NotSupported.cmd = "NOT_SUPPORTED"
  BY DEF Forward, HandOn, Sends, Asks, NotSupported, GenericTag_SelectTag, GenericTag_ReadTagData, GenericTag_WriteTagData,
     GenericTag_ReadTagConfig, GenericTag_WriteTagConfig, GenericTag_LockTagBlock,
     GenericTag_GetTagInfo, GenericTag_GetLockStatus

LEMMA StateCommands ==
  ASSUME NEW c
  PROVE  /\ GenericTag_KillTag(c).cmd = "KillTag"
         /\ GenericTag_ReviveTag(c).cmd = "ReviveTag"
         /\ GenericTag_EraseTag(c).cmd = "EraseTag"
         /\ GenericTag_FormatTag(c).cmd = "FormatTag"
         /\ GenericTag_DeselectTag(c).cmd = "DeselectTag"
         /\ GenericTag_AuthenticateTag(c).cmd = "AuthenticateTag"
         /\ GenericTag_SendTagPassword(c).cmd = "SendTagPassword"
         /\ GenericTag_EnableEAS(c).cmd = "EnableEAS"
         /\ GenericTag_DisableEAS(c).cmd = "DisableEAS"
         /\ GenericTag_ScanEAS(c).cmd = "ScanEAS"
         /\ GenericTag_ReadAFI(c).cmd = "ReadAFI"
         /\ GenericTag_WriteAFI(c).cmd = "WriteAFI"
         /\ GenericTag_ReadDSFID(c).cmd = "ReadDSFID"
         /\ GenericTag_WriteDSFID(c).cmd = "WriteDSFID"
  BY DEF Forward, HandOn, Sends, Asks,
     GenericTag_KillTag, GenericTag_ReviveTag, GenericTag_EraseTag, GenericTag_FormatTag,
     GenericTag_DeselectTag, GenericTag_AuthenticateTag, GenericTag_SendTagPassword,
     GenericTag_EnableEAS, GenericTag_DisableEAS, GenericTag_ScanEAS, GenericTag_ReadAFI,
     GenericTag_WriteAFI, GenericTag_ReadDSFID, GenericTag_WriteDSFID

LEMMA CardCommands ==
  ASSUME NEW c
  PROVE  /\ GenericTag_InitializeSecureMemoryTag(c).cmd = "InitializeSecureMemoryTag"
         /\ GenericTag_SetupSecureMemoryTag(c).cmd = "SetupSecureMemoryTag"
         /\ GenericTag_InterfaceSend(c).cmd = "InterfaceSend"
         /\ GenericTag_InitiatePayment(c).cmd = "InitiatePayment"
         /\ GenericTag_ComputePayment(c).cmd = "ComputePayment"
         /\ Iso14443ATag_TransportSend(c).cmd = "InterfaceSend"
  BY DEF Sends, Asks,
     GenericTag_InitializeSecureMemoryTag, GenericTag_SetupSecureMemoryTag,
     GenericTag_InterfaceSend, GenericTag_InitiatePayment, GenericTag_ComputePayment,
     Iso14443ATag_TransportSend

LEMMA DesfireCommands ==
  ASSUME NEW c
  PROVE  /\ DesfireTag_AuthenticateTag(c).cmd = "AuthenticateTag"
         /\ DesfireTag_GetApplicationIDs(c).cmd = "GetApplicationIDs"
         /\ DesfireTag_SelectApplication(c).cmd = "SelectApplication"
         /\ DesfireTag_CreateApplication(c).cmd = "CreateApplication"
         /\ DesfireTag_DeleteApplication(c).cmd = "DeleteApplication"
         /\ DesfireTag_GetFileIDs(c).cmd = "GetFileIDs"
         /\ DesfireTag_CreateDataFile(c).cmd = "CreateFile"
         /\ DesfireTag_CreateValueFile(c).cmd = "CreateFile"
         /\ DesfireTag_CreateRecordFile(c).cmd = "CreateFile"
         /\ DesfireTag_GetCommonFileSettings(c).cmd = "GetFileSettings"
         /\ DesfireTag_GetDataFileSettings(c).cmd = "GetFileSettings"
         /\ DesfireTag_GetValueFileSettings(c).cmd = "GetFileSettings"
         /\ DesfireTag_GetRecordFileSettings(c).cmd = "GetFileSettings"
         /\ DesfireTag_ChangeFileSettings(c).cmd = "ChangeFileSettings"
         /\ DesfireTag_ReadFile(c).cmd = "ReadFile"
         /\ DesfireTag_WriteFile(c).cmd = "WriteFile"
         /\ DesfireTag_DeleteFile(c).cmd = "DeleteFile"
         /\ DesfireTag_ClearFile(c).cmd = "ClearFile"
  BY DEF Sends, Asks, NewFile, FileSettings, ReadAt, WriteAt,
     DesfireTag_AuthenticateTag, DesfireTag_GetApplicationIDs, DesfireTag_SelectApplication,
     DesfireTag_CreateApplication, DesfireTag_DeleteApplication, DesfireTag_GetFileIDs,
     DesfireTag_CreateDataFile, DesfireTag_CreateValueFile, DesfireTag_CreateRecordFile,
     DesfireTag_GetCommonFileSettings, DesfireTag_GetDataFileSettings,
     DesfireTag_GetValueFileSettings, DesfireTag_GetRecordFileSettings,
     DesfireTag_ChangeFileSettings, DesfireTag_ReadFile, DesfireTag_WriteFile,
     DesfireTag_DeleteFile, DesfireTag_ClearFile

LEMMA DesfireValueCommands ==
  ASSUME NEW c
  PROVE  /\ DesfireTag_CreditValueFile(c).cmd = "CreditValueFile"
         /\ DesfireTag_DebitValueFile(c).cmd = "DebitValueFile"
         /\ DesfireTag_LimitedCreditValueFile(c).cmd = "LimitedCreditValueFile"
         /\ DesfireTag_GetValue(c).cmd = "GetValue"
         /\ DesfireTag_ReadRecords(c).cmd = "ReadRecords"
         /\ DesfireTag_WriteRecord(c).cmd = "WriteRecord"
         /\ DesfireTag_CommitTransaction(c).cmd = "CommitTransaction"
         /\ DesfireTag_AbortTransaction(c).cmd = "AbortTransaction"
         /\ DesfireTag_GetKeyVersion(c).cmd = "GetKeyVersion"
         /\ DesfireTag_ChangeKey(c).cmd = "ChangeKey"
         /\ DesfireTag_GetApplicationKeySettings(c).cmd = "GetKeySettings"
         /\ DesfireTag_GetMasterKeySettings(c).cmd = "GetKeySettings"
         /\ DesfireTag_ChangeApplicationKeySettings(c).cmd = "ChangeKeySettings"
         /\ DesfireTag_ChangeMasterKeySettings(c).cmd = "ChangeKeySettings"
  BY DEF Sends, Asks, Amount, ReadAt, WriteAt,
     DesfireTag_CreditValueFile, DesfireTag_DebitValueFile, DesfireTag_LimitedCreditValueFile,
     DesfireTag_GetValue, DesfireTag_ReadRecords, DesfireTag_WriteRecord,
     DesfireTag_CommitTransaction, DesfireTag_AbortTransaction, DesfireTag_GetKeyVersion,
     DesfireTag_ChangeKey, DesfireTag_GetApplicationKeySettings, DesfireTag_GetMasterKeySettings,
     DesfireTag_ChangeApplicationKeySettings, DesfireTag_ChangeMasterKeySettings

LEMMA TagCommandsKnown ==
  /\ "NOT_SUPPORTED" \in TagKnown /\ "SelectTag" \in TagKnown
  /\ "ReadTagData" \in TagKnown /\ "WriteTagData" \in TagKnown
  /\ V2UnsupportedState \subseteq TagKnown /\ V2UnsupportedFiles \subseteq TagKnown
  /\ V2UnsupportedValues \subseteq TagKnown /\ V2UnsupportedKeys \subseteq TagKnown
  BY DEF TagKnown

LEMMA GenericCommand ==
  ASSUME NEW c, c.fn \in TagApi
  PROVE  GenericTagImpl(c).cmd \in TagKnown
<1>1. CASE c.fn \in Unsupported
  <2>1. GenericTagImpl(c) = NotSupported
    BY <1>1 DEF GenericTagImpl, Unsupported, UnsupportedActivation, UnsupportedFiles,
       UnsupportedContents, UnsupportedTransactions, UnsupportedKeys
  <2>2. QED
    BY <2>1, MemoryCommands, TagCommandsKnown
<1>2. CASE c.fn \in MemoryCalls \ Unsupported
  <2>1. GenericTagImpl(c).cmd \in {"SelectTag", "ReadTagData", "WriteTagData", "ReadTagConfig",
                                   "WriteTagConfig"}
    BY <1>2, MemoryCommands DEF GenericTagImpl, MemoryCalls, Unsupported, UnsupportedActivation
  <2>2. QED
    BY <2>1, TagCommandsKnown DEF V2UnsupportedState
<1>3. CASE c.fn \in TagStateCalls \ Unsupported
  <2>1. GenericTagImpl(c).cmd \in V2UnsupportedState \cup {"SendTagPassword"}
    BY ZenonT(40), <1>3, MemoryCommands, StateCommands DEF GenericTagImpl, TagStateCalls, V2UnsupportedState
  <2>2. QED
    BY <2>1, TagCommandsKnown DEF V2UnsupportedFiles
<1>4. CASE c.fn \in IdentifierCalls \ Unsupported
  <2>1. GenericTagImpl(c).cmd \in {"EnableEAS", "DisableEAS", "ScanEAS", "ReadAFI", "WriteAFI",
                                   "ReadDSFID", "WriteDSFID"}
    BY <1>4, StateCommands DEF GenericTagImpl, IdentifierCalls
  <2>2. QED
    BY <2>1, TagCommandsKnown DEF V2UnsupportedValues, V2UnsupportedKeys
<1>5. CASE c.fn \in (KeyCalls \cup PaymentCalls) \ Unsupported
  <2>1. GenericTagImpl(c).cmd \in {"InitializeSecureMemoryTag", "SetupSecureMemoryTag",
                                   "InterfaceSend", "NOT_SUPPORTED", "InitiatePayment",
                                   "ComputePayment"}
    BY ZenonT(40), <1>5, MemoryCommands, CardCommands DEF GenericTagImpl, KeyCalls, PaymentCalls, Unsupported,
       UnsupportedKeys
  <2>2. QED
    BY <2>1, TagCommandsKnown DEF V2UnsupportedKeys
<1>6. c.fn \in ApplicationCalls \cup FileCalls \cup ValueCalls => c.fn \in Unsupported
  BY DEF ApplicationCalls, FileCalls, ValueCalls, Unsupported, UnsupportedFiles,
     UnsupportedContents, UnsupportedTransactions
<1>7. QED
  BY <1>1, <1>2, <1>3, <1>4, <1>5, <1>6 DEF TagApi

LEMMA Iso14443ACommand ==
  ASSUME NEW c, c.fn \in TagApi
  PROVE  Iso14443ATagImpl(c).cmd \in TagKnown
<1>1. Iso14443ATagImpl(c).cmd \in {"InterfaceSend", GenericTagImpl(c).cmd}
  BY CardCommands DEF Iso14443ATagImpl
<1>2. "InterfaceSend" \in V2UnsupportedKeys
  BY DEF V2UnsupportedKeys
<1>3. QED
  BY <1>1, <1>2, GenericCommand, TagCommandsKnown

LEMMA DesfireCommand ==
  ASSUME NEW c, c.fn \in TagApi
  PROVE  DesfireTagImpl(c).cmd \in TagKnown
<1>1. CASE c.fn \in ApplicationCalls \cup {"AuthenticateTag"}
  <2>1. DesfireTagImpl(c).cmd \in {"AuthenticateTag", "NOT_SUPPORTED", "GetApplicationIDs",
          "SelectApplication", "CreateApplication", "DeleteApplication", "GetFileIDs",
          "CreateFile"}
    BY ZenonT(40), <1>1, MemoryCommands, DesfireCommands DEF DesfireTagImpl, ApplicationCalls
  <2>2. QED
    BY <2>1, TagCommandsKnown DEF V2UnsupportedState, V2UnsupportedFiles
<1>2. CASE c.fn \in FileCalls
  <2>1. DesfireTagImpl(c).cmd \in {"GetFileSettings", "ChangeFileSettings", "ReadFile",
          "WriteFile", "DeleteFile", "ClearFile"}
    BY ZenonT(40), <1>2, DesfireCommands DEF DesfireTagImpl, FileCalls
  <2>2. QED
    BY <2>1, TagCommandsKnown DEF V2UnsupportedFiles, V2UnsupportedValues
<1>3. CASE c.fn \in ValueCalls
  <2>1. DesfireTagImpl(c).cmd \in {"CreditValueFile", "DebitValueFile",
          "LimitedCreditValueFile", "GetValue", "ReadRecords", "WriteRecord",
          "CommitTransaction", "AbortTransaction"}
    BY ZenonT(40), <1>3, DesfireValueCommands DEF DesfireTagImpl, ValueCalls
  <2>2. QED
    BY <2>1, TagCommandsKnown DEF V2UnsupportedValues
<1>4. CASE c.fn \in UnsupportedKeys
  <2>1. DesfireTagImpl(c).cmd \in {"GetKeyVersion", "ChangeKey", "GetKeySettings",
                                   "ChangeKeySettings"}
    BY <1>4, DesfireValueCommands DEF DesfireTagImpl, UnsupportedKeys
  <2>2. QED
    BY <2>1, TagCommandsKnown DEF V2UnsupportedKeys
<1>5. CASE /\ c.fn \notin ApplicationCalls \cup {"AuthenticateTag"} \cup FileCalls
           /\ c.fn \notin ValueCalls \cup UnsupportedKeys
  <2>1. DesfireTagImpl(c) = Iso14443ATagImpl(c)
    BY <1>5 DEF DesfireTagImpl, ApplicationCalls, FileCalls, ValueCalls, UnsupportedKeys
  <2>2. QED
    BY <2>1, Iso14443ACommand
<1>6. QED
  BY <1>1, <1>2, <1>3, <1>4, <1>5

LEMMA TagCommand ==
  ASSUME NEW c, c.fn \in TagApi
  PROVE  TagFunction(c).cmd \in TagKnown
<1>1. TagFunction(c) \in {DesfireTagImpl(c), Iso14443ATagImpl(c), GenericTagImpl(c)}
  BY DEF TagFunction
<1>2. QED
  BY <1>1, GenericCommand, Iso14443ACommand, DesfireCommand

LEMMA ReaderCommand ==
  ASSUME NEW c, c.fn \in ReaderApi, NEW v
  PROVE  ReaderFunction(c, v).cmd = c.fn
  BY DEF ReaderFunction, GetParameter, SetParameter, Forward, HandOn, Sends, Asks

(* Version 2 has or refuses every command of a function.                   *)
LEMMA CommandKnown ==
  ASSUME NEW c, c.fn \in TagApi \cup ReaderApi
  PROVE  FunctionOf(c, 2).cmd \in V2Known
<1>1. CASE c.fn \in TagApi
  <2>1. TagKnown \subseteq V2Known
    BY DEF TagKnown, V2Known, V2Commands, V2Unsupported
  <2>2. QED
    BY <1>1, <2>1, TagCommand DEF FunctionOf
<1>2. CASE c.fn \in ReaderApi \ TagApi
  <2>1. FunctionOf(c, 2).cmd = c.fn
    BY <1>2, ReaderCommand DEF FunctionOf
  <2>2. c.fn \in V2Known
    BY <1>2 DEF ReaderApi, TagListCalls, ReaderCalls, V2Known, V2Commands, V2Unsupported,
       V2UnsupportedTagLists, V2UnsupportedReader
  <2>3. QED
    BY <2>1, <2>2
<1>3. QED
  BY <1>1, <1>2

-----------------------------------------------------------------------------
(* The table of version 3                                                  *)

LEMMA Alsos ==
  ASSUME NEW f, NEW g
  PROVE  /\ DOMAIN Also(f, g) = (DOMAIN f) \cup (DOMAIN g)
         /\ \A x \in DOMAIN f : Also(f, g)[x] = f[x]
         /\ \A x \in (DOMAIN g) \ (DOMAIN f) : Also(f, g)[x] = g[x]
BY DEF Also

LEMMA TableDomains ==
  /\ DOMAIN ReaderWrappers = ReaderCalls \cup DebugCalls
  /\ {"SelectTag", "ReadTagData", "WriteTagData"} \cup V2UnsupportedState
       \subseteq DOMAIN TagStateWrappers
  /\ V2UnsupportedFiles \cup V2UnsupportedValues
       \subseteq (DOMAIN TagStateWrappers) \cup (DOMAIN TagFileWrappers)
  /\ V2UnsupportedKeys
       \subseteq (DOMAIN TagFileWrappers) \cup (DOMAIN KeyWrappers) \cup (DOMAIN SendWrappers)
<1>1. /\ DOMAIN MemoryWrappers = {"SelectTag", "ReadTagData", "WriteTagData", "ReadTagConfig"}
      /\ DOMAIN StateWrappers = {"WriteTagConfig", "GetTagInfo", "GetLockStatus", "KillTag",
                                 "ReviveTag", "EraseTag"}
      /\ DOMAIN ApplicationWrappers =
           {"FormatTag", "DeselectTag", "AuthenticateTag", "SendTagPassword",
            "GetApplicationIDs", "SelectApplication", "CreateApplication", "DeleteApplication"}
  BY DEF MemoryWrappers, StateWrappers, ApplicationWrappers
<1>2. /\ DOMAIN FileWrappers =
           {"GetFileIDs", "SelectFile", "CreateFile", "GetFileSettings", "ChangeFileSettings",
            "ReadFile", "WriteFile", "DeleteFile"}
      /\ DOMAIN ValueWrappers =
           {"ClearFile", "CreditValueFile", "DebitValueFile", "LimitedCreditValueFile",
            "GetValue", "ReadRecords", "WriteRecord", "CommitTransaction"}
      /\ DOMAIN IdentifierWrappers =
           {"AbortTransaction", "EnableEAS", "DisableEAS", "ScanEAS", "ReadAFI", "WriteAFI",
            "ReadDSFID", "WriteDSFID"}
  BY DEF FileWrappers, ValueWrappers, IdentifierWrappers
<1>3. /\ DOMAIN KeyWrappers =
           {"GetKeyVersion", "ChangeKey", "GetKeySettings", "ChangeKeySettings",
            "InitializeSecureMemoryTag"}
      /\ DOMAIN SendWrappers =
           {"SetupSecureMemoryTag", "InterfaceSend", "TransportSend", "InitiatePayment",
            "ComputePayment"}
  BY DEF KeyWrappers, SendWrappers
<1>4. DOMAIN ReaderWrappers = ReaderCalls \cup DebugCalls
  BY DEF ReaderWrappers, ReaderCalls, DebugCalls
<1>5. DOMAIN TagStateWrappers =
        (DOMAIN MemoryWrappers) \cup ((DOMAIN StateWrappers) \cup (DOMAIN ApplicationWrappers))
  <2> DEFINE k == Also(StateWrappers, ApplicationWrappers)
  <2>1. DOMAIN k = (DOMAIN StateWrappers) \cup (DOMAIN ApplicationWrappers)
    BY Alsos
  <2>2. TagStateWrappers = Also(MemoryWrappers, k)
    BY ZenonT(20) DEF TagStateWrappers
  <2> HIDE DEF k
  <2>3. DOMAIN Also(MemoryWrappers, k) = (DOMAIN MemoryWrappers) \cup (DOMAIN k)
    BY Alsos
  <2>4. QED
    BY ZenonT(20), <2>1, <2>2, <2>3
<1>6. DOMAIN TagFileWrappers =
        (DOMAIN FileWrappers) \cup ((DOMAIN ValueWrappers) \cup (DOMAIN IdentifierWrappers))
  <2> DEFINE k == Also(ValueWrappers, IdentifierWrappers)
  <2>1. DOMAIN k = (DOMAIN ValueWrappers) \cup (DOMAIN IdentifierWrappers)
    BY Alsos
  <2>2. TagFileWrappers = Also(FileWrappers, k)
    BY ZenonT(20) DEF TagFileWrappers
  <2> HIDE DEF k
  <2>3. DOMAIN Also(FileWrappers, k) = (DOMAIN FileWrappers) \cup (DOMAIN k)
    BY Alsos
  <2>4. QED
    BY ZenonT(20), <2>1, <2>2, <2>3
<1>7. {"SelectTag", "ReadTagData", "WriteTagData"} \cup V2UnsupportedState
        \subseteq DOMAIN TagStateWrappers
  BY <1>1, <1>5 DEF V2UnsupportedState
<1>8. V2UnsupportedFiles \cup V2UnsupportedValues
        \subseteq (DOMAIN TagStateWrappers) \cup (DOMAIN TagFileWrappers)
  BY <1>1, <1>2, <1>5, <1>6 DEF V2UnsupportedFiles, V2UnsupportedValues
<1>9. V2UnsupportedKeys
        \subseteq (DOMAIN TagFileWrappers) \cup (DOMAIN KeyWrappers) \cup (DOMAIN SendWrappers)
  BY <1>2, <1>3, <1>6 DEF V2UnsupportedKeys
<1>10. QED
  BY <1>4, <1>7, <1>8, <1>9

LEMMA TableDomain ==
  /\ ReaderCalls \cup DebugCalls \subseteq DOMAIN STPV3
  /\ TagKnown \ {"NOT_SUPPORTED"} \subseteq DOMAIN STPV3
<1>1. DOMAIN STPV3 = (DOMAIN ReaderWrappers) \cup ((DOMAIN TagStateWrappers)
        \cup ((DOMAIN TagFileWrappers) \cup ((DOMAIN KeyWrappers) \cup (DOMAIN SendWrappers))))
  <2> DEFINE k == Also(KeyWrappers, SendWrappers)
             f == Also(TagFileWrappers, k)
             g == Also(TagStateWrappers, f)
  <2>1. DOMAIN k = (DOMAIN KeyWrappers) \cup (DOMAIN SendWrappers)
    BY Alsos
  <2>2. STPV3 = Also(ReaderWrappers, g)
    BY DEF STPV3
  <2> HIDE DEF k
  <2>3. DOMAIN f = (DOMAIN TagFileWrappers) \cup (DOMAIN k)
    BY Alsos
  <2> HIDE DEF f
  <2>4. DOMAIN g = (DOMAIN TagStateWrappers) \cup (DOMAIN f)
    BY Alsos
  <2> HIDE DEF g
  <2>5. DOMAIN Also(ReaderWrappers, g) = (DOMAIN ReaderWrappers) \cup (DOMAIN g)
    BY Alsos
  <2>6. QED
    BY <2>1, <2>2, <2>3, <2>4, <2>5
<1>2. QED
  BY <1>1, TableDomains DEF TagKnown

(* And version 3 has every command of a function but those of the lists of *)
(* tags, which are functions of their own.                                 *)
LEMMA CommandInTable ==
  ASSUME NEW c, c.fn \in TagApi \cup ReaderApi, c.fn \notin TagListCalls,
         FunctionOf(c, 3).cmd # "NOT_SUPPORTED"
  PROVE  FunctionOf(c, 3).cmd \in DOMAIN STPV3
<1>1. CASE c.fn \in TagApi
  BY <1>1, TagCommand, TableDomain DEF FunctionOf
<1>2. CASE c.fn \in ReaderApi \ TagApi
  <2>1. FunctionOf(c, 3).cmd = c.fn
    BY <1>2, ReaderCommand DEF FunctionOf
  <2>2. QED
    BY <1>2, <2>1, TableDomain DEF ReaderApi
<1>3. QED
  BY <1>1, <1>2

-----------------------------------------------------------------------------
(* What the functions make of an answer                                    *)

(* A function reads what is not peeked at with another status than these,  *)
(* and takes an answer it does not look at for a success or an error.      *)
WellMade(f) == f.empty \in {"READER_PROTOCOL_ERROR", "SUCCESS"} /\ Reads(f.reads)

LEMMA MadeParts ==
  /\ \A cmd, valid, buffer, writes : WellMade(Sends(cmd, valid, buffer, writes))
  /\ \A cmd, valid, buffer, writes, how, reads :
       Reads(reads) => WellMade(Asks(cmd, valid, buffer, writes, how, reads))
  /\ \A cmd, valid : WellMade(Forward(cmd, valid)) /\ WellMade(HandOn(cmd, valid))
  /\ WellMade(NotSupported)
<1>0. Reads(<<>>)
  BY ReadsParts
<1>1. ASSUME NEW cmd, NEW valid, NEW buffer, NEW writes
      PROVE  WellMade(Sends(cmd, valid, buffer, writes))
  BY <1>0 DEF WellMade, Sends
<1>2. ASSUME NEW cmd, NEW valid, NEW buffer, NEW writes, NEW how, NEW reads, Reads(reads)
      PROVE  WellMade(Asks(cmd, valid, buffer, writes, how, reads))
  BY <1>2 DEF WellMade, Sends, Asks
<1>3. QED
  BY ZenonT(20), <1>0, <1>1, <1>2 DEF Forward, HandOn, NotSupported

LEMMA ReaderMade ==
  ASSUME NEW c, NEW v
  PROVE  WellMade(ReaderFunction(c, v))
<1>1. \E cmd, valid : ReaderFunction(c, v) \in {Forward(cmd, valid), HandOn(cmd, valid)}
  BY ZenonT(20) DEF ReaderFunction, GetParameter, SetParameter
<1>2. QED
  BY <1>1, MadeParts

LEMMA ReadGroups ==
  /\ \A f, g, h : Reads(READ_WORD(f) \o READ_WORD(g) \o READ_WORD(h))
  /\ Reads(CommonSettings)
  /\ \A own : Reads(own) => Reads(SEQUENCE(CommonSettings \o own))
  /\ Reads(SEQUENCE(Tracks))
<1>1. /\ \A f, g, h : Reads(READ_WORD(f) \o READ_WORD(g) \o READ_WORD(h))
      /\ \A a, b, d, e : Reads(READ_ENUM(a) \o READ_ENUM(b) \o READ_ENUM(d) \o READ_ENUM(e))
  BY ReadsParts, ReadsValues
<1>2. Reads(CommonSettings)
  <2>1. Reads(SEQUENCE(READ_ENUM("read") \o READ_ENUM("write") \o READ_ENUM("readWrite")
                         \o READ_ENUM("change")))
    BY <1>1, ReadsNested
  <2>2. QED
    BY <2>1, ReadsParts, ReadsValues DEF CommonSettings
<1>3. \A own : Reads(own) => Reads(SEQUENCE(CommonSettings \o own))
  BY <1>2, ReadsParts, ReadsNested
<1>4. Reads(SEQUENCE(Tracks))
  <2>1. \A m, n, f, max : Reads(OPTIONAL(m, CONTEXT(n, READ_OCTETS(f, max))))
    BY ReadsNested, ReadsValues
  <2>2. QED
    BY <2>1, ReadsParts, ReadsNested DEF Tracks
<1>5. QED
  BY <1>1, <1>2, <1>3, <1>4

LEMMA GenericMade ==
  ASSUME NEW c
  PROVE  /\ WellMade(GenericTag_GetTagInfo(c)) /\ WellMade(GenericTag_GetLockStatus(c))
         /\ WellMade(GenericTag_AuthenticateTag(c))
         /\ WellMade(GenericTag_InterfaceSend(c)) /\ WellMade(Iso14443ATag_TransportSend(c))
         /\ WellMade(GenericTag_InitiatePayment(c)) /\ WellMade(GenericTag_ComputePayment(c))
<1>1. WellMade(GenericTag_GetTagInfo(c))
  BY ReadGroups DEF WellMade, GenericTag_GetTagInfo, Sends, Asks
<1>2. WellMade(GenericTag_GetLockStatus(c))
  BY ReadsValues DEF WellMade, GenericTag_GetLockStatus, Sends, Asks
<1>3. WellMade(GenericTag_AuthenticateTag(c))
  BY ReadsParts DEF WellMade, GenericTag_AuthenticateTag, Sends, Asks
<1>4. WellMade(GenericTag_InterfaceSend(c))
  BY ReadsValues DEF WellMade, GenericTag_InterfaceSend, Sends, Asks
<1>5. WellMade(Iso14443ATag_TransportSend(c))
  BY ReadsValues DEF WellMade, Iso14443ATag_TransportSend, Sends, Asks
<1>6. WellMade(GenericTag_InitiatePayment(c))
  <2>1. Reads(SEQUENCE(READ_ENUM("systemType") \o READ_OCTETS("id", 128)
                   \o READ_OCTETS("label", 128) \o READ_USHORT("interchangeProfile")
                   \o READ_OCTETS("elementaryFiles", 8192)))
    BY ReadsParts, ReadsValues, ReadsNested
  <2>2. QED
    BY <2>1 DEF WellMade, GenericTag_InitiatePayment, Sends, Asks
<1>7. WellMade(GenericTag_ComputePayment(c))
  BY ReadGroups DEF WellMade, GenericTag_ComputePayment, Sends, Asks
<1>8. QED
  BY <1>1, <1>2, <1>3, <1>4, <1>5, <1>6, <1>7

LEMMA ReadingsAre ==
  /\ "INVALID_FILE_TYPE" \in Readings /\ "NO_APPLICATION_PRESENT" \in Readings
  /\ "READER_PROTOCOL_ERROR" \in Readings
  BY DEF Readings

LEMMA ReadsPeeked ==
  ASSUME NEW n, NEW m, NEW st \in Readings, NEW a, Reads(a)
  PROVE  /\ Reads(PEEK(n, st) \o CONTEXT(m, SEQUENCE(a)))
         /\ \A f : Reads(PEEK(n, st) \o CONTEXT(m, SEQUENCE(a)) \o READ_UINT(f))
<1>1. Reads(CONTEXT(m, SEQUENCE(a)))
  BY ReadsNested
<1>2. Reads(PEEK(n, st)) /\ \A f : Reads(READ_UINT(f))
  BY ReadsValues
<1> HIDE DEF CONTEXT
<1>3. QED
  BY ZenonT(20), <1>1, <1>2, ReadsParts

LEMMA DesfireMade ==
  ASSUME NEW c
  PROVE  /\ WellMade(DesfireTag_GetApplicationIDs(c)) /\ WellMade(DesfireTag_GetFileIDs(c))
         /\ \A own : Reads(own) => WellMade(FileSettings(c, own))
         /\ WellMade(DesfireTag_GetDataFileSettings(c))
         /\ WellMade(DesfireTag_GetValueFileSettings(c))
         /\ WellMade(DesfireTag_GetRecordFileSettings(c))
         /\ WellMade(DesfireTag_GetApplicationKeySettings(c))
         /\ WellMade(DesfireTag_GetMasterKeySettings(c))
         /\ \A cmd : WellMade(ReadAt(c, cmd))
         /\ WellMade(DesfireTag_GetValue(c)) /\ WellMade(DesfireTag_GetKeyVersion(c))
<1>1. WellMade(DesfireTag_GetApplicationIDs(c)) /\ WellMade(DesfireTag_GetFileIDs(c))
  BY ReadsParts DEF WellMade, DesfireTag_GetApplicationIDs, DesfireTag_GetFileIDs, Sends, Asks
<1>2. \A own : Reads(own) => WellMade(FileSettings(c, own))
  BY ZenonT(20), MadeParts, ReadGroups DEF FileSettings
<1>3. WellMade(DesfireTag_GetDataFileSettings(c))
  <2>1. Reads(PEEK(-1, "INVALID_FILE_TYPE") \o CONTEXT(1, SEQUENCE(READ_UINT("fileSize"))))
    BY ReadsValues, ReadsPeeked DEF Readings
  <2>2. QED
    BY ZenonT(20), <1>2, <2>1 DEF DesfireTag_GetDataFileSettings
<1>4. WellMade(DesfireTag_GetValueFileSettings(c))
  <2>1. Reads(READ_UINT("lowerLimit") \o READ_UINT("upperLimit") \o READ_UINT("value")
                \o READ_BOOL("limited"))
    BY ReadsParts, ReadsValues
  <2>2. Reads(PEEK(-2, "INVALID_FILE_TYPE")
                \o CONTEXT(1, SEQUENCE(READ_UINT("lowerLimit") \o READ_UINT("upperLimit")
                                         \o READ_UINT("value") \o READ_BOOL("limited"))))
    BY ZenonT(20), <2>1, ReadsPeeked, ReadingsAre
  <2>3. QED
    BY ZenonT(20), <1>2, <2>2 DEF DesfireTag_GetValueFileSettings
<1>5. WellMade(DesfireTag_GetRecordFileSettings(c))
  <2>1. Reads(READ_UINT("recordSize") \o READ_UINT("maxRecords") \o READ_UINT("numRecords"))
    BY ReadsParts, ReadsValues
  <2>2. Reads(PEEK(-3, "INVALID_FILE_TYPE")
                \o CONTEXT(1, SEQUENCE(READ_UINT("recordSize") \o READ_UINT("maxRecords")
                                         \o READ_UINT("numRecords"))))
    BY ZenonT(20), <2>1, ReadsPeeked, ReadingsAre
  <2>3. QED
    BY ZenonT(20), <1>2, <2>2 DEF DesfireTag_GetRecordFileSettings
<1>6. WellMade(DesfireTag_GetApplicationKeySettings(c))
  <2>1. Reads(READ_ENUM("access") \o READ_BOOL("frozen") \o READ_BOOL("createDelete")
                \o READ_BOOL("directory") \o READ_BOOL("masterChange"))
    BY ReadsParts, ReadsValues
  <2>2. Reads(PEEK(-1, "NO_APPLICATION_PRESENT")
         \o CONTEXT(1, SEQUENCE(READ_ENUM("access") \o READ_BOOL("frozen")
                                  \o READ_BOOL("createDelete") \o READ_BOOL("directory")
                                  \o READ_BOOL("masterChange")))
         \o READ_UINT("numKeys"))
    BY ZenonT(20), <2>1, ReadsPeeked, ReadingsAre
  <2>3. QED
    BY ZenonT(20), <2>2, ReadsNested, MadeParts DEF DesfireTag_GetApplicationKeySettings
<1>7. WellMade(DesfireTag_GetMasterKeySettings(c))
  <2>1. Reads(READ_BOOL("frozen") \o READ_BOOL("createDelete")
                \o READ_BOOL("directory") \o READ_BOOL("masterChange"))
    BY ReadsParts, ReadsValues
  <2>2. Reads(PEEK(-2, "READER_PROTOCOL_ERROR")
         \o CONTEXT(2, SEQUENCE(READ_BOOL("frozen") \o READ_BOOL("createDelete")
                                  \o READ_BOOL("directory") \o READ_BOOL("masterChange")))
         \o READ_UINT("numKeys"))
    BY ZenonT(20), <2>1, ReadsPeeked, ReadingsAre
  <2>3. QED
    BY ZenonT(20), <2>2, ReadsNested, MadeParts DEF DesfireTag_GetMasterKeySettings
<1>8. ASSUME NEW cmd PROVE WellMade(ReadAt(c, cmd))
  <2>1. Reads(READ_OCTETS("data", 65535))
    BY ReadsValues
  <2>2. QED
    BY <2>1 DEF WellMade, ReadAt, Sends, Asks
<1>9. WellMade(DesfireTag_GetValue(c)) /\ WellMade(DesfireTag_GetKeyVersion(c))
  BY ZenonT(20), MadeParts, ReadsValues DEF DesfireTag_GetValue, DesfireTag_GetKeyVersion
<1>10. QED
  BY <1>1, <1>2, <1>3, <1>4, <1>5, <1>6, <1>7, <1>8, <1>9

LEMMA SimpleMade ==
  ASSUME NEW c
  PROVE  /\ WellMade(GenericTag_SelectTag(c)) /\ WellMade(GenericTag_ReadTagData(c))
         /\ WellMade(GenericTag_WriteTagData(c)) /\ WellMade(GenericTag_ReadTagConfig(c))
         /\ WellMade(GenericTag_WriteTagConfig(c)) /\ WellMade(GenericTag_LockTagBlock(c))
         /\ WellMade(GenericTag_KillTag(c)) /\ WellMade(GenericTag_ReviveTag(c))
         /\ WellMade(GenericTag_EraseTag(c)) /\ WellMade(GenericTag_FormatTag(c))
         /\ WellMade(GenericTag_DeselectTag(c)) /\ WellMade(GenericTag_SendTagPassword(c))
         /\ WellMade(GenericTag_EnableEAS(c)) /\ WellMade(GenericTag_DisableEAS(c))
         /\ WellMade(GenericTag_ScanEAS(c)) /\ WellMade(GenericTag_ReadAFI(c))
         /\ WellMade(GenericTag_WriteAFI(c)) /\ WellMade(GenericTag_ReadDSFID(c))
         /\ WellMade(GenericTag_WriteDSFID(c))
         /\ WellMade(GenericTag_InitializeSecureMemoryTag(c))
         /\ WellMade(GenericTag_SetupSecureMemoryTag(c))
<1>0. Reads(<<>>)
  BY ReadsParts
<1>1. /\ WellMade(GenericTag_SelectTag(c)) /\ WellMade(GenericTag_ReadTagData(c))
      /\ WellMade(GenericTag_WriteTagData(c)) /\ WellMade(GenericTag_ReadTagConfig(c))
      /\ WellMade(GenericTag_WriteTagConfig(c)) /\ WellMade(GenericTag_LockTagBlock(c))
      /\ WellMade(GenericTag_KillTag(c)) /\ WellMade(GenericTag_ReviveTag(c))
  BY <1>0 DEF GenericTag_SelectTag, GenericTag_ReadTagData, GenericTag_WriteTagData,
     GenericTag_ReadTagConfig, GenericTag_WriteTagConfig, GenericTag_LockTagBlock,
     GenericTag_KillTag, GenericTag_ReviveTag, WellMade, Forward, HandOn, Sends, Asks
<1>2. /\ WellMade(GenericTag_EraseTag(c)) /\ WellMade(GenericTag_FormatTag(c))
      /\ WellMade(GenericTag_DeselectTag(c)) /\ WellMade(GenericTag_SendTagPassword(c))
      /\ WellMade(GenericTag_EnableEAS(c)) /\ WellMade(GenericTag_DisableEAS(c))
      /\ WellMade(GenericTag_ScanEAS(c)) /\ WellMade(GenericTag_ReadAFI(c))
      /\ WellMade(GenericTag_WriteAFI(c)) /\ WellMade(GenericTag_ReadDSFID(c))
      /\ WellMade(GenericTag_WriteDSFID(c))
  BY <1>0 DEF GenericTag_EraseTag, GenericTag_FormatTag, GenericTag_DeselectTag,
     GenericTag_SendTagPassword, GenericTag_EnableEAS, GenericTag_DisableEAS,
     GenericTag_ScanEAS, GenericTag_ReadAFI, GenericTag_WriteAFI, GenericTag_ReadDSFID,
     GenericTag_WriteDSFID, WellMade, Forward, HandOn, Sends, Asks
<1>3. /\ WellMade(GenericTag_InitializeSecureMemoryTag(c))
      /\ WellMade(GenericTag_SetupSecureMemoryTag(c))
  BY <1>0 DEF GenericTag_InitializeSecureMemoryTag, GenericTag_SetupSecureMemoryTag, WellMade,
     Sends
<1>4. QED
  BY <1>1, <1>2, <1>3

LEMMA GenericImplMade ==
  ASSUME NEW c, c.fn \in TagApi
  PROVE  WellMade(GenericTagImpl(c))
<1>1. CASE c.fn \in Unsupported
  <2>1. GenericTagImpl(c) = NotSupported
    BY <1>1 DEF GenericTagImpl, Unsupported, UnsupportedActivation, UnsupportedFiles,
       UnsupportedContents, UnsupportedTransactions, UnsupportedKeys
  <2>2. QED
    BY <2>1, MadeParts
<1>2. CASE c.fn \in MemoryCalls \ Unsupported
  BY <1>2, SimpleMade DEF GenericTagImpl, MemoryCalls, Unsupported, UnsupportedActivation
<1>3. CASE c.fn \in TagStateCalls \ Unsupported
  BY <1>3, SimpleMade, GenericMade DEF GenericTagImpl, TagStateCalls
<1>4. CASE c.fn \in IdentifierCalls \ Unsupported
  BY <1>4, SimpleMade DEF GenericTagImpl, IdentifierCalls
<1>5. CASE c.fn \in (KeyCalls \cup PaymentCalls) \ Unsupported
  BY <1>5, SimpleMade, GenericMade, MadeParts DEF GenericTagImpl, KeyCalls, PaymentCalls,
     Unsupported, UnsupportedKeys
<1>6. c.fn \in ApplicationCalls \cup FileCalls \cup ValueCalls => c.fn \in Unsupported
  BY DEF ApplicationCalls, FileCalls, ValueCalls, Unsupported, UnsupportedFiles,
     UnsupportedContents, UnsupportedTransactions
<1>7. QED
  BY <1>1, <1>2, <1>3, <1>4, <1>5, <1>6 DEF TagApi

LEMMA DesfireImplMade ==
  ASSUME NEW c, c.fn \in TagApi
  PROVE  WellMade(DesfireTagImpl(c))
<1>0. /\ WellMade(Iso14443ATagImpl(c)) /\ WellMade(NotSupported)
  BY GenericImplMade, GenericMade, MadeParts DEF Iso14443ATagImpl
<1>1. CASE c.fn \in ApplicationCalls \cup {"AuthenticateTag"}
  <2>1. DesfireTagImpl(c) \in {DesfireTag_AuthenticateTag(c), NotSupported,
          DesfireTag_GetApplicationIDs(c), DesfireTag_SelectApplication(c),
          DesfireTag_CreateApplication(c), DesfireTag_DeleteApplication(c),
          DesfireTag_GetFileIDs(c), DesfireTag_CreateDataFile(c),
          DesfireTag_CreateValueFile(c), DesfireTag_CreateRecordFile(c)}
    BY <1>1 DEF DesfireTagImpl, ApplicationCalls
  <2>2. /\ WellMade(DesfireTag_AuthenticateTag(c)) /\ WellMade(DesfireTag_SelectApplication(c))
        /\ WellMade(DesfireTag_CreateApplication(c))
        /\ WellMade(DesfireTag_DeleteApplication(c))
    BY MadeParts DEF DesfireTag_AuthenticateTag, DesfireTag_SelectApplication,
       DesfireTag_CreateApplication, DesfireTag_DeleteApplication
  <2>3. /\ WellMade(DesfireTag_CreateDataFile(c)) /\ WellMade(DesfireTag_CreateValueFile(c))
        /\ WellMade(DesfireTag_CreateRecordFile(c))
    BY MadeParts DEF NewFile, DesfireTag_CreateDataFile, DesfireTag_CreateValueFile,
       DesfireTag_CreateRecordFile
  <2>4. QED
    BY <1>0, <2>1, <2>2, <2>3, DesfireMade
<1>2. CASE c.fn \in FileCalls
  <2>1. DesfireTagImpl(c) \in {DesfireTag_GetCommonFileSettings(c),
          DesfireTag_GetDataFileSettings(c), DesfireTag_GetValueFileSettings(c),
          DesfireTag_GetRecordFileSettings(c), DesfireTag_ChangeFileSettings(c),
          DesfireTag_ReadFile(c), DesfireTag_WriteFile(c), DesfireTag_DeleteFile(c),
          DesfireTag_ClearFile(c)}
    BY <1>2 DEF DesfireTagImpl, FileCalls
  <2>2. /\ WellMade(DesfireTag_ChangeFileSettings(c)) /\ WellMade(DesfireTag_WriteFile(c))
        /\ WellMade(DesfireTag_DeleteFile(c)) /\ WellMade(DesfireTag_ClearFile(c))
    BY MadeParts DEF DesfireTag_ChangeFileSettings, DesfireTag_WriteFile,
       DesfireTag_DeleteFile, DesfireTag_ClearFile, WriteAt
  <2>3. WellMade(DesfireTag_GetCommonFileSettings(c)) /\ WellMade(DesfireTag_ReadFile(c))
    BY DesfireMade, ReadsParts DEF DesfireTag_GetCommonFileSettings, DesfireTag_ReadFile
  <2>4. QED
    BY <2>1, <2>2, <2>3, DesfireMade
<1>3. CASE c.fn \in ValueCalls
  <2>1. DesfireTagImpl(c) \in {DesfireTag_CreditValueFile(c), DesfireTag_DebitValueFile(c),
          DesfireTag_LimitedCreditValueFile(c), DesfireTag_GetValue(c),
          DesfireTag_ReadRecords(c), DesfireTag_WriteRecord(c),
          DesfireTag_CommitTransaction(c), DesfireTag_AbortTransaction(c)}
    BY <1>3 DEF DesfireTagImpl, ValueCalls
  <2>2. /\ WellMade(DesfireTag_CreditValueFile(c)) /\ WellMade(DesfireTag_DebitValueFile(c))
        /\ WellMade(DesfireTag_LimitedCreditValueFile(c))
        /\ WellMade(DesfireTag_WriteRecord(c)) /\ WellMade(DesfireTag_CommitTransaction(c))
        /\ WellMade(DesfireTag_AbortTransaction(c))
    BY MadeParts DEF DesfireTag_CreditValueFile, DesfireTag_DebitValueFile,
       DesfireTag_LimitedCreditValueFile, DesfireTag_WriteRecord,
       DesfireTag_CommitTransaction, DesfireTag_AbortTransaction, WriteAt, Amount
  <2>3. WellMade(DesfireTag_ReadRecords(c))
    BY DesfireMade DEF DesfireTag_ReadRecords
  <2>4. QED
    BY <2>1, <2>2, <2>3, DesfireMade
<1>4. CASE c.fn \in UnsupportedKeys
  <2>1. DesfireTagImpl(c) \in {DesfireTag_GetKeyVersion(c), DesfireTag_ChangeKey(c),
          DesfireTag_GetApplicationKeySettings(c), DesfireTag_GetMasterKeySettings(c),
          DesfireTag_ChangeApplicationKeySettings(c), DesfireTag_ChangeMasterKeySettings(c)}
    BY <1>4 DEF DesfireTagImpl, UnsupportedKeys
  <2>2. /\ WellMade(DesfireTag_ChangeKey(c))
        /\ WellMade(DesfireTag_ChangeApplicationKeySettings(c))
        /\ WellMade(DesfireTag_ChangeMasterKeySettings(c))
    BY MadeParts DEF DesfireTag_ChangeKey, DesfireTag_ChangeApplicationKeySettings,
       DesfireTag_ChangeMasterKeySettings
  <2>3. QED
    BY <2>1, <2>2, DesfireMade
<1>5. CASE /\ c.fn \notin ApplicationCalls \cup {"AuthenticateTag"} \cup FileCalls
           /\ c.fn \notin ValueCalls \cup UnsupportedKeys
  <2>1. DesfireTagImpl(c) = Iso14443ATagImpl(c)
    BY <1>5 DEF DesfireTagImpl, ApplicationCalls, FileCalls, ValueCalls, UnsupportedKeys
  <2>2. QED
    BY <1>0, <2>1
<1>6. QED
  BY <1>1, <1>2, <1>3, <1>4, <1>5

LEMMA FunctionMade ==
  ASSUME NEW c, c.fn \in TagApi \cup ReaderApi, NEW v
  PROVE  WellMade(FunctionOf(c, v))
<1>1. CASE c.fn \in TagApi
  <2>1. WellMade(Iso14443ATagImpl(c))
    BY <1>1, GenericImplMade, GenericMade DEF Iso14443ATagImpl
  <2>2. QED
    BY <1>1, <2>1, GenericImplMade, DesfireImplMade DEF FunctionOf, TagFunction
<1>2. CASE c.fn \notin TagApi
  BY <1>2, ReaderMade DEF FunctionOf
<1>3. QED
  BY <1>1, <1>2

(* The status of a call of version 3.                                      *)
LEMMA DecodedStatus ==
  ASSUME NEW f, Reads(f.reads), NEW octets
  PROVE  HandOut(f, octets).st \in Readings \cup {"FAILURE"}
<1> DEFINE d == Decode(f.mode, f.reads, octets)
<1>1. d.st \in Readings
  BY DecodeReads
<1> HIDE DEF d
<1>2. HandOut(f, octets).st \in {"SUCCESS", "FAILURE", d.st}
  BY DEF HandOut, d
<1>3. QED
  BY <1>1, <1>2 DEF Readings

-----------------------------------------------------------------------------
(* Types, and the stages of a call                                         *)

(* TypeOK, save for the engine of version 2.                               *)
CallTyped ==
  /\ version \in {2, 3}
  /\ stage \in {"idle", "protocol", "card", "v2", "answered"}
  /\ calls \in 0..MaxCalls[version]
  /\ job \in Jobs[version]
  /\ carriedOut \in BOOLEAN /\ freedTwice \in BOOLEAN
  /\ answer.st \in Outcomes /\ answer.has \in BOOLEAN
  /\ status \in Outcomes
  /\ version = 2 => sent.cmd \in {"none"} \cup V2Commands \cup V2Unsupported
  /\ version = 3 => sent.cmd \in {"none"} \cup DOMAIN STPV3

Selects == {"SelectTag", "SelectTags", "GetTags"}

(* The engine works in stage "v2" only; the call has the command of its    *)
(* function from then on.                                                  *)
Stages ==
  /\ stage # "v2" => pc = "idle"
  /\ stage = "v2" => version = 2 /\ ncalls > 0 /\ (Plain(api) <=> sent.cmd \notin Selects)
  /\ stage = "card" => version = 3
  /\ version = 2 /\ stage # "idle" => sent.cmd = Function(job).cmd /\ sent.cmd # "none"

CallsInv == CallTyped /\ Stages /\ V2Typed

LEMMA JobFacts ==
  ASSUME NEW v \in {2, 3}, NEW c \in Jobs[v]
  PROVE  /\ c.fn \in TagApi \cup ReaderApi
         /\ c.inv \in BOOLEAN /\ c.loop \in BOOLEAN
         /\ MaxCalls[v] \in Nat
  BY TagCallsAssumption

LEMMA JobListed ==
  ASSUME NEW c \in Jobs[3]
  PROVE  c.fn \notin TagListCalls
  BY TagCallsAssumption

(* The Send functions fill a request and leave its command.                *)
LEMMA FilledKeeps ==
  ASSUME TRUE
  PROVE  Filled.cmd = sent.cmd
  BY DEF Filled

LEMMA AnswerFields ==
  \A st, has, reply : Answer(st, has, reply).st = st /\ Answer(st, has, reply).has = has
  BY DEF Answer

(* A call that version 2 does not refuse is a call of the protocol.        *)
LEMMA FunctionGood ==
  ASSUME CallsInv, version = 2, stage = "protocol", V2Refuses = "no"
  PROVE  /\ GoodCall(V2Function(job))
         /\ Plain(V2Function(job)) <=> sent.cmd \notin Selects
<1>1. sent.cmd \in V2Commands
  BY DEF CallsInv, CallTyped, Stages, V2Refuses
<1>2. job.inv \in BOOLEAN /\ job.loop \in BOOLEAN /\ (job.tag = 0) \in BOOLEAN
  BY JobFacts DEF CallsInv, CallTyped
<1> DEFINE f == V2Function(job)
<1>3. CASE sent.cmd = "SelectTag"
  <2>1. f = V2Select(job, "SelectTag", FALSE, FALSE)
    BY <1>3 DEF V2Function
  <2>2. QED
    BY <1>2, <1>3, <2>1 DEF V2Select, GoodCall, ProtocolCall, Fns, Cmds, Plain, Selects
<1>4. CASE sent.cmd = "SelectTags"
  <2>1. f = V2Select(job, "SelectTags", job.inv, job.loop)
    BY <1>4 DEF V2Function
  <2>2. QED
    BY <1>2, <1>4, <2>1 DEF V2Select, GoodCall, ProtocolCall, Fns, Cmds, Plain, Selects
<1>5. CASE sent.cmd = "GetTags"
  <2>1. f = V2Select(job, "GetTags", TRUE, FALSE)
    BY <1>5 DEF V2Function
  <2>2. QED
    BY <1>2, <1>5, <2>1 DEF V2Select, GoodCall, ProtocolCall, Fns, Cmds, Plain, Selects
<1>6. CASE sent.cmd \in {"ReadTagData", "WriteTagData", "GetSystemParameter",
                         "SetSystemParameter"}
  <2>1. f \in {V2Send("Get", READ_TAG), V2Send("Set", WRITE_TAG), V2Send("Get", READ_SYSTEM),
               V2Send("Set", WRITE_SYSTEM)}
    BY <1>6 DEF V2Function
  <2>2. GoodCall(f) /\ Plain(f)
    <3>1. \A fn \in {"Get", "Set"}, cmd \in {READ_TAG, WRITE_TAG, READ_SYSTEM, WRITE_SYSTEM} :
            GoodCall(V2Send(fn, cmd)) /\ Plain(V2Send(fn, cmd))
      BY DEF V2Send, GoodCall, ProtocolCall, Fns, Cmds, Plain, SELECT_TAG, READ_TAG, WRITE_TAG,
         READ_SYSTEM, WRITE_SYSTEM
    <3>2. QED
      BY <2>1, <3>1
  <2>3. QED
    BY <1>6, <2>2 DEF Selects
<1>7. QED
  BY <1>1, <1>3, <1>4, <1>5, <1>6 DEF V2Commands

(* What the call does to the engine is a step of the engine.               *)
LEMMA EngineSteps ==
  ASSUME CallsInv, [Next]_vars
  PROVE  V2Next \/ UNCHANGED v2vars
<1>1. CASE V2Start
  BY <1>1, FunctionGood DEF V2Start, V2Next
<1>2. CASE V2Work
  BY <1>2 DEF V2Work, V2Next
<1>3. ASSUME NEW c \in Jobs[version], Refuse(c) \/ Prepare(c)
      PROVE  UNCHANGED v2vars
  BY <1>3 DEF Refuse, Prepare
<1>4. CASE Exchange \/ CardAnswers \/ V2Done \/ Return_
  <2>1. Exchange => UNCHANGED v2vars
    BY DEF Exchange
  <2>2. CardAnswers => UNCHANGED v2vars
    BY DEF CardAnswers
  <2>3. V2Done \/ Return_ => UNCHANGED v2vars
    BY DEF V2Done, Return_
  <2>4. QED
    BY <1>4, <2>1, <2>2, <2>3
<1>5. CASE UNCHANGED vars
  BY <1>5 DEF vars
<1>6. QED
  BY <1>1, <1>2, <1>3, <1>4, <1>5 DEF Next

(* A call of version 2 returns the status of the protocol.                 *)
LEMMA ResultStatus ==
  ASSUME CallsInv, version = 2, stage = "answered"
  PROVE  /\ Result.st \in Outcomes
         /\ sent.cmd # "ScanEAS" => Result.st = answer.st
<1>1. sent.cmd = Function(job).cmd /\ answer.st \in Outcomes
  BY DEF CallsInv, CallTyped, Stages
<1>2. CASE sent.cmd = "ScanEAS"
  <2>1. Result.st = ScanEASResult(answer.st).st
    BY <1>1, <1>2 DEF Result
  <2>2. ScanEASResult(answer.st).st \in {"SUCCESS", answer.st}
    BY DEF ScanEASResult
  <2>3. QED
    BY <1>1, <1>2, <2>1, <2>2 DEF Outcomes, Statuses
<1>3. CASE sent.cmd # "ScanEAS"
  <2>1. Result = [st |-> answer.st, out |-> <<>>]
    BY <1>1, <1>3 DEF Result
  <2>2. QED
    BY <1>1, <2>1
<1>4. QED
  BY <1>2, <1>3

(* And so does one of version 3, or one of the function's own.             *)
LEMMA ResultTyped ==
  ASSUME job \in Jobs[version], version \in {2, 3}, stage = "answered", answer.st \in Outcomes
  PROVE  Result.st \in Outcomes
<1> DEFINE f == Function(job)
<1>1. WellMade(f)
  BY JobFacts, FunctionMade DEF Function
<1>2. HandOut(f, AnswerOctets(answer.reply)).st \in Outcomes
  <2>1. HandOut(f, AnswerOctets(answer.reply)).st \in Readings \cup {"FAILURE"}
    BY <1>1, DecodedStatus DEF WellMade
  <2>2. QED
    BY <2>1 DEF Readings, Outcomes, Statuses
<1>3. f.empty \in Outcomes
  BY <1>1 DEF WellMade, Outcomes, Statuses
<1>4. ScanEASResult(answer.st).st \in Outcomes
  <2>1. ScanEASResult(answer.st).st \in {"SUCCESS", answer.st}
    BY DEF ScanEASResult
  <2>2. QED
    BY <2>1 DEF Outcomes, Statuses
<1> HIDE DEF f
<1>5. CASE f.cmd = "ScanEAS"
  <2>1. Result.st = ScanEASResult(answer.st).st
    BY <1>5 DEF Result, f
  <2>2. QED
    BY <1>4, <2>1
<1>6. CASE f.cmd # "ScanEAS" /\ (answer.st # "SUCCESS" \/ ~f.answered \/ version = 2)
  <2>1. Result.st = answer.st
    BY <1>6 DEF Result, f
  <2>2. QED
    BY <2>1
<1>7. CASE /\ f.cmd # "ScanEAS"
           /\ f.answered /\ answer.st = "SUCCESS" /\ version = 3
  <2>1. Result.st \in {HandOut(f, AnswerOctets(answer.reply)).st, f.empty}
    BY <1>7 DEF Result, f
  <2>2. QED
    BY <1>2, <1>3, <2>1
<1>8. QED
  BY <1>5, <1>6, <1>7

LEMMA InitCalls == Init => CallsInv
<1> SUFFICES ASSUME Init PROVE CallsInv
  OBVIOUS
<1>1. version \in {2, 3} /\ job \in Jobs[version] /\ 0 \in 0..MaxCalls[version]
  BY TagCallsAssumption DEF Init
<1>2. CallTyped
  <2>1. answer.st = "none" /\ answer.has = FALSE /\ sent.cmd = "none"
    BY DEF Init, NoCommand, Answer
  <2>2. QED
    BY <1>1, <2>1 DEF Init, CallTyped, Outcomes
<1>3. V2Typed /\ pc = "idle"
  BY InitV2Typed DEF Init, V2Init
<1>4. QED
  BY <1>2, <1>3 DEF Init, CallsInv, Stages

LEMMA NextCalls ==
  ASSUME CallsInv, [Next]_vars
  PROVE  CallsInv'
<1>0. CallTyped /\ Stages /\ V2Typed /\ version \in {2, 3}
  BY DEF CallsInv, CallTyped
<1>1. V2Typed'
  BY EngineSteps, NextV2Typed DEF CallsInv
<1>2. SUFFICES CallTyped' /\ Stages'
  BY <1>1 DEF CallsInv
<1>a. v2vars' = v2vars => UNCHANGED <<pc, api, ncalls>>
  BY DEF v2vars, v2host
(* A call begins. *)
<1>b. ASSUME NEW c \in Jobs[version], Begin(c)
      PROVE  /\ stage = "idle" /\ calls' \in 0..MaxCalls[version] /\ version' = version
             /\ job' \in Jobs[version] /\ job' = c /\ carriedOut' \in BOOLEAN
             /\ freedTwice' = freedTwice
             /\ answer'.st \in Outcomes /\ answer'.has \in BOOLEAN
  <2>1. MaxCalls[version] \in Nat /\ calls \in 0..MaxCalls[version]
    BY <1>0, <1>b, JobFacts DEF CallTyped
  <2>2. calls' \in 0..MaxCalls[version]
    BY <1>b, <2>1 DEF Begin
  <2>3. answer'.st = "none" /\ answer'.has = FALSE
    BY <1>b, AnswerFields DEF Begin
  <2>4. QED
    BY <1>b, <2>2, <2>3 DEF Begin, Outcomes
<1>3. ASSUME NEW c \in Jobs[version], Refuse(c) PROVE CallTyped' /\ Stages'
  <2>1. /\ UNCHANGED <<stage, sent, v2vars>> /\ Begin(c)
        /\ status' \in {"INVALID_PARAMETER", "OUT_OF_MEMORY", "NOT_SUPPORTED"}
    BY <1>3 DEF Refuse
  <2>2. CallTyped'
    BY <1>0, <1>b, <2>1 DEF CallTyped, Outcomes
  <2>3. Stages'
    BY <1>0, <1>a, <1>b, <2>1 DEF Stages
  <2>4. QED
    BY <2>2, <2>3
<1>4. ASSUME NEW c \in Jobs[version], Prepare(c) PROVE CallTyped' /\ Stages'
  <2>1. /\ UNCHANGED <<status, v2vars>> /\ Begin(c) /\ stage' = "protocol"
        /\ sent'.cmd = Function(c).cmd /\ Function(c).cmd # "NOT_SUPPORTED"
    BY <1>4 DEF Prepare, Runs, Supported
  <2>2. version = 2 => Function(c).cmd \in V2Commands \cup V2Unsupported
    BY <1>0, <2>1, JobFacts, CommandKnown DEF Function, V2Known
  <2>3. Function(c)' = FunctionOf(c, version)
    BY <1>b, <2>1 DEF Function
  <2>4. "none" \notin V2Commands \cup V2Unsupported
    BY DEF V2Commands, V2Unsupported, V2UnsupportedTagLists, V2UnsupportedReader, DebugCalls,
       V2UnsupportedState, V2UnsupportedFiles, V2UnsupportedValues, V2UnsupportedKeys
  <2>9. version = 3 => Function(c).cmd \in DOMAIN STPV3
    BY <1>0, <2>1, JobFacts, JobListed, CommandInTable DEF Function
  <2>5. CallTyped'
    BY <1>0, <1>b, <2>1, <2>2, <2>9 DEF CallTyped
  <2>6. Function(job)' = FunctionOf(c, version)
    BY <1>b, <2>1 DEF Function
  <2>7. Stages'
    BY <1>0, <1>a, <1>b, <2>1, <2>2, <2>4, <2>6 DEF Stages, Function
  <2>8. QED
    BY <2>5, <2>7
<1>5. CASE Exchange
  <2>1. /\ stage = "protocol" /\ version = 3
        /\ UNCHANGED <<version, calls, job, carriedOut, status, freedTwice, v2vars>>
        /\ \/ stage' = "answered" /\ answer' = Answer("INVALID_PARAMETER", FALSE, NoReply)
           \/ stage' = "card" /\ answer' = answer
    BY <1>5 DEF Exchange, Answered
  <2>2. answer'.st \in Outcomes /\ answer'.has \in BOOLEAN
    <3>1. CASE answer' = Answer("INVALID_PARAMETER", FALSE, NoReply)
      BY <3>1 DEF Answer, Outcomes
    <3>2. CASE answer' = answer
      BY <1>0, <3>2 DEF CallTyped
    <3>3. QED
      BY <2>1, <3>1, <3>2
  <2>3. /\ stage' \in {"answered", "card"} /\ version' = 3 /\ pc' = pc /\ pc = "idle"
        /\ UNCHANGED <<calls, job, carriedOut, freedTwice>>
    BY <1>0, <1>a, <2>1 DEF Stages
  <2>7. sent'.cmd = sent.cmd
    BY <1>5, FilledKeeps DEF Exchange
  <2>4. CallTyped'
    BY <1>0, <2>1, <2>2, <2>3, <2>7 DEF CallTyped
  <2>5. Stages'
    BY <2>3 DEF Stages
  <2>6. QED
    BY <2>4, <2>5
<1>6. CASE CardAnswers
  <2>1. /\ stage = "card" /\ UNCHANGED <<version, calls, job, sent, status, freedTwice, v2vars>>
        /\ carriedOut' = TRUE \/ UNCHANGED carriedOut
    BY <1>6 DEF CardAnswers
  <2>2. \E st \in {"TIMEOUT", "SUCCESS", "INVALID_PARAMETER", "FAILURE"} : \E has \in BOOLEAN :
          \E reply : Answered(st, has, reply)
    BY <1>6 DEF CardAnswers
  <2>3. stage' = "answered" /\ answer'.st \in Outcomes /\ answer'.has \in BOOLEAN
    BY <2>2, AnswerFields DEF Answered, Outcomes, Statuses
  <2>4. version = 3
    BY <1>0, <2>1 DEF Stages
  <2>5. carriedOut' \in BOOLEAN
    BY <1>0, <2>1 DEF CallTyped
  <2>6. CallTyped'
    BY <1>0, <2>1, <2>3, <2>4, <2>5 DEF CallTyped
  <2>7. Stages'
    BY <1>0, <1>a, <2>1, <2>3, <2>4 DEF Stages
  <2>8. QED
    BY <2>6, <2>7
<1>7. CASE V2Start
  <2>1. /\ stage = "protocol" /\ version = 2
        /\ UNCHANGED <<version, calls, job, sent, carriedOut, status, freedTwice>>
    BY <1>7 DEF V2Start
  <2>2. CASE V2Refuses # "no"
    <3>1. /\ stage' = "answered" /\ UNCHANGED v2vars
          /\ answer'.st = V2Refuses /\ answer'.has = FALSE
      BY <1>7, <2>2 DEF V2Start, Answered, Answer
    <3>2. V2Refuses \in Outcomes
      BY ZenonT(40), <2>2 DEF V2Refuses, Outcomes
    <3>3. QED
      BY <1>0, <1>a, <2>1, <3>1, <3>2 DEF CallTyped, Stages, Function
  <2>3. CASE V2Refuses = "no"
    <3>1. /\ stage' = "v2" /\ V2Call(V2Function(job)) /\ UNCHANGED answer
      BY <1>7, <2>3 DEF V2Start
    <3>2. api' = V2Function(job) /\ ncalls' = ncalls + 1 /\ ncalls \in Nat
      BY <1>0, <3>1 DEF V2Call, V2Typed, V2TypeOK
    <3>3. (Plain(api') <=> sent.cmd \notin Selects) /\ ncalls' > 0
      BY <2>1, <2>3, <3>2, FunctionGood
    <3>4. QED
      BY <1>0, <2>1, <3>1, <3>3 DEF CallTyped, Stages, Function, Plain
  <2>4. QED
    BY <2>2, <2>3
<1>8. CASE V2Work
  <2>1. UNCHANGED callvars /\ V2Step /\ stage = "v2"
    BY <1>8 DEF V2Work
  <2>2. UNCHANGED <<api, ncalls>>
    BY <2>1 DEF V2Step, WriteRequest, V2Read, ReadFrame, ReadTimeout, V2Handle, HandleSend,
       HandleSelect, HandleStop, HandleGetTags, Callback, V2Take, ReaderEndLoop, ReaderExecute,
       ReaderSelect, ReaderFind, ReaderInventoryDone, v2host
  <2>3. QED
    BY <1>0, <2>1, <2>2 DEF callvars, CallTyped, Stages, Function, Plain
<1>9. CASE V2Done
  <2>1. /\ stage = "v2" /\ pc = "idle" /\ stage' = "answered" /\ answer'.st = ret
        /\ answer'.has = FALSE
        /\ UNCHANGED <<version, calls, job, sent, carriedOut, status, freedTwice, v2vars>>
    BY <1>9, AnswerFields DEF V2Done, Answered
  <2>2. ret \in Outcomes
    BY <1>0 DEF V2Typed, V2TypeOK, Outcomes
  <2>3. QED
    BY <1>0, <1>a, <2>1, <2>2 DEF CallTyped, Stages, Function
<1>10. CASE Return_
  <2>1. /\ stage = "answered" /\ stage' = "idle" /\ status' = Result.st
        /\ freedTwice' = (freedTwice \/ (sent.cmd = "GetTags" /\ ListsFreed))
        /\ UNCHANGED <<version, calls, job, sent, carriedOut, answer, v2vars>>
    BY <1>10 DEF Return_
  <2>2. status' \in Outcomes
    BY <1>0, <2>1, ResultTyped DEF CallTyped
  <2>3. freedTwice' \in BOOLEAN
    BY <2>1
  <2>4. CallTyped'
    BY <1>0, <2>1, <2>2, <2>3 DEF CallTyped
  <2>5. Stages'
    BY <1>0, <1>a, <2>1 DEF Stages
  <2>6. QED
    BY <2>4, <2>5
<1>11. CASE UNCHANGED vars
  BY <1>0, <1>11 DEF vars, callvars, v2vars, v2host, CallTyped, Stages, Function, Plain
<1>12. QED
  BY <1>3, <1>4, <1>5, <1>6, <1>7, <1>8, <1>9, <1>10, <1>11 DEF Next

(* The calls and the engine keep their types, whatever the line does and   *)
(* whatever a card answers: no status is one that the functions of         *)
(* SkyeTekAPI.c, of the tag modules and of STPv2.c do not return, every    *)
(* command that goes to a protocol is one it has a function for (the       *)
(* tables STPV2Impl and STPV3Impl), and the counter of ReadResponse stays  *)
(* within its limit.                                                       *)
THEOREM TypeCorrect == Spec => []TypeOK
<1>1. Init => CallsInv
  BY InitCalls
<1>2. CallsInv /\ [Next]_vars => CallsInv'
  BY NextCalls
<1>3. CallsInv => TypeOK
  <2> SUFFICES ASSUME CallsInv PROVE TypeOK
    OBVIOUS
  <2>1. CallTyped /\ V2TypeOK
    BY DEF CallsInv, V2Typed
  <2>2. CASE version = 2
    BY <2>1, <2>2 DEF CallTyped, TypeOK
  <2>3. CASE version = 3
    BY <2>1, <2>3 DEF CallTyped, TypeOK
  <2>4. QED
    BY <2>1, <2>2, <2>3 DEF CallTyped
<1>4. QED
  BY <1>1, <1>2, <1>3, PTL DEF Spec

-----------------------------------------------------------------------------
(* The engine's invariants, on the calls                                   *)

(* On a line that may fail in any way, a command of version 2 is carried   *)
(* out at most once, unless a select loop was started: the Send functions  *)
(* of STPv2.c send it again only after LOOP_OFF.                           *)
THEOREM V2CarriedOutOnce == Spec => []V2AtMostOnce
<1>1. Init => CallsInv /\ OnceInv
  BY InitCalls, InitOnce DEF Init
<1>2. CallsInv /\ OnceInv /\ [Next]_vars => (CallsInv /\ OnceInv)'
  BY NextCalls, EngineSteps, NextOnce DEF CallsInv
<1>3. OnceInv => V2AtMostOnce
  BY DEF OnceInv, OneEach, V2AtMostOnce
<1>4. QED
  BY <1>1, <1>2, <1>3, PTL DEF Spec

(* On a clean line, until a select loop is stopped from the callback, the  *)
(* response a function handles answers its own request, whatever came      *)
(* before it: no call leaves a request or an answer behind (ReadResponse   *)
(* and the functions of STPv2.c).                                          *)
THEOREM V2AnswersAreOwn == Spec => []V2OwnAnswers
<1>1. Init => CallsInv /\ SteadyInv
  BY InitCalls, InitSteady DEF Init
<1>2. CallsInv /\ SteadyInv /\ [Next]_vars => (CallsInv /\ SteadyInv)'
  BY NextCalls, EngineSteps, NextSteady DEF CallsInv
<1>3. SteadyInv => V2OwnAnswers
  BY DEF SteadyInv, Steady, OwnRequest, OwnResponse, Busy, V2OwnAnswers, Undisturbed
<1>4. QED
  BY <1>1, <1>2, <1>3, PTL DEF Spec

(* What the success of the engine becomes on its way to the caller.        *)
SuccessInv ==
  Undisturbed /\ version = 2 /\ sent.cmd \in {"ReadTagData", "WriteTagData"} =>
    /\ stage = "answered" /\ answer.st = "SUCCESS" => DoneBy(executed, ncalls)
    /\ stage = "idle" /\ status = "SUCCESS" => DoneBy(executed, ncalls)

LEMMA NextSuccess ==
  ASSUME CallsInv, SteadyInv, EffectInv, SuccessInv, [Next]_vars
  PROVE  SuccessInv'
<1> SUFFICES ASSUME Undisturbed', version' = 2, sent'.cmd \in {"ReadTagData", "WriteTagData"}
             PROVE  /\ stage' = "answered" /\ answer'.st = "SUCCESS" => DoneBy(executed', ncalls')
                    /\ stage' = "idle" /\ status' = "SUCCESS" => DoneBy(executed', ncalls')
  BY DEF SuccessInv
<1>0. CallTyped /\ Stages /\ V2Typed
  BY DEF CallsInv
<1>1. Steady
  BY <1>0, EngineSteps, StaysSteady DEF Undisturbed, Steady
<1>a. v2vars' = v2vars => UNCHANGED <<executed, ncalls>>
  BY DEF v2vars, v2host, v2reader
<1>2. ASSUME NEW c \in Jobs[version], Refuse(c)
      PROVE  stage' = "idle" /\ status' # "SUCCESS"
  BY <1>2 DEF Refuse, Begin
<1>3. ASSUME NEW c \in Jobs[version], Prepare(c) PROVE stage' = "protocol"
  BY <1>3 DEF Prepare
<1>4. CASE Exchange
  BY <1>4 DEF Exchange
<1>5. CASE CardAnswers
  <2>1. stage = "card" /\ version' = version
    BY <1>5 DEF CardAnswers
  <2>2. QED
    BY <1>0, <2>1 DEF Stages
<1>6. CASE V2Start
  <2>1. \/ stage' = "v2"
        \/ stage' = "answered" /\ answer'.st # "SUCCESS"
    <3>1. CASE V2Refuses = "no"
      BY <1>6, <3>1 DEF V2Start
    <3>2. CASE V2Refuses # "no"
      <4>1. stage' = "answered" /\ answer' = Answer(V2Refuses, FALSE, NoReply)
        BY <1>6, <3>2 DEF V2Start, Answered
      <4>2. answer'.st = V2Refuses
        BY <4>1 DEF Answer
      <4>3. V2Refuses # "SUCCESS"
        BY DEF V2Refuses
      <4>4. QED
        BY <4>1, <4>2, <4>3
    <3>3. QED
      BY <3>1, <3>2
  <2>2. QED
    BY <2>1
<1>7. CASE V2Work
  BY <1>7 DEF V2Work, callvars
<1>8. CASE V2Done
  <2>1. /\ stage = "v2" /\ pc = "idle" /\ stage' = "answered" /\ answer'.st = ret
        /\ UNCHANGED <<sent, v2vars>>
    BY <1>8 DEF V2Done, Answered, Answer
  <2>2. ncalls > 0 /\ Plain(api)
    BY <1>0, <2>1 DEF Stages, Selects
  <2>3. ret = "SUCCESS" => DoneBy(executed, ncalls)
    BY <1>1, <2>1, <2>2 DEF EffectInv
  <2>4. QED
    BY <1>a, <2>1, <2>3
<1>9. CASE Return_
  <2>1. /\ stage = "answered" /\ stage' = "idle" /\ status' = Result.st
        /\ UNCHANGED <<version, sent, answer, v2vars>>
    BY <1>9 DEF Return_
  <2>2. Result.st = answer.st
    BY <2>1, ResultStatus
  <2>3. QED
    BY <1>1, <1>a, <2>1, <2>2 DEF SuccessInv, Undisturbed, Steady
<1>10. CASE UNCHANGED vars
  <2>1. UNCHANGED <<version, stage, sent, answer, status, v2vars>>
    BY <1>10 DEF vars, callvars
  <2>2. QED
    BY <1>1, <1>a, <2>1 DEF SuccessInv, Undisturbed, Steady
<1>11. QED
  BY <1>2, <1>3, <1>4, <1>5, <1>6, <1>7, <1>8, <1>9, <1>10 DEF Next

(* And a read or a write that succeeds there was carried out by the        *)
(* reader: the status the caller gets is that of its own command, through  *)
(* GetStatus and the functions of the tag (STPv2.c, GenericTag.c).         *)
THEOREM V2SuccessWasDone == Spec => []V2SuccessIsDone
<1> DEFINE Inv == CallsInv /\ SteadyInv /\ EffectInv /\ SuccessInv
<1>1. Init => Inv
  <2>1. Init => CallsInv /\ SteadyInv /\ EffectInv
    BY InitCalls, InitSteady, InitEffect DEF Init
  <2>2. Init => SuccessInv
    BY DEF Init, SuccessInv, NoCommand
  <2>3. QED
    BY <2>1, <2>2
<1>2. Inv /\ [Next]_vars => Inv'
  <2> SUFFICES ASSUME Inv, [Next]_vars PROVE Inv'
    OBVIOUS
  <2>1. V2Next \/ UNCHANGED v2vars
    BY EngineSteps
  <2>2. CallsInv' /\ SteadyInv' /\ EffectInv'
    BY <2>1, NextCalls, NextSteady, NextEffect DEF CallsInv
  <2>3. SuccessInv'
    BY NextSuccess
  <2>4. QED
    BY <2>2, <2>3
<1>3. Inv => V2SuccessIsDone
  BY DEF SuccessInv, DoneBy, V2SuccessIsDone
<1>4. QED
  BY <1>1, <1>2, <1>3, PTL DEF Spec

(* The lists of tags are freed once on a clean line, until a select loop   *)
(* is stopped from the callback: an inventory ends with SELECT_TAG_FAIL,   *)
(* with which GetTags hands its lists out (STPv2.c:1373), and not with a   *)
(* code left over from another call, with which it frees them.             *)
THEOREM ListsFreedOnce == Spec => []FreedOnce
<1> DEFINE Inv == CallsInv /\ SteadyInv /\ GotInv /\ FreedOnce
<1>1. Init => Inv
  BY InitCalls, InitSteady, InitGot DEF Init, FreedOnce
<1>2. Inv /\ [Next]_vars => Inv'
  <2> SUFFICES ASSUME Inv, [Next]_vars PROVE Inv'
    OBVIOUS
  <2>1. V2Next \/ UNCHANGED v2vars
    BY EngineSteps
  <2>2. CallsInv' /\ SteadyInv' /\ GotInv'
    BY <2>1, NextCalls, NextSteady, NextGot DEF CallsInv
  <2>3. FreedOnce'
    <3> SUFFICES ASSUME Undisturbed' PROVE ~freedTwice'
      BY DEF FreedOnce
    <3>1. Steady /\ ~freedTwice
      BY <2>1, StaysSteady DEF Undisturbed, Steady, FreedOnce, CallsInv
    <3>2. ~ListsFreed
      BY <3>1 DEF ListsFreed, GotInv
    <3>3. freedTwice' = freedTwice \/ freedTwice' = (freedTwice \/ (sent.cmd = "GetTags" /\ ListsFreed))
      <4>1. CASE Return_
        BY <4>1 DEF Return_
      <4>2. ASSUME NEW c \in Jobs[version], Refuse(c) \/ Prepare(c) PROVE freedTwice' = freedTwice
        BY <4>2 DEF Refuse, Prepare, Begin
      <4>3. CASE Exchange
        BY <4>3 DEF Exchange
      <4>4. CASE CardAnswers
        BY <4>4 DEF CardAnswers
      <4>5. CASE V2Start \/ V2Work \/ V2Done \/ UNCHANGED vars
        BY <4>5 DEF V2Start, V2Work, V2Done, vars, callvars
      <4>6. QED
        BY <4>1, <4>2, <4>3, <4>4, <4>5 DEF Next
    <3>4. QED
      BY <3>1, <3>2, <3>3
  <2>4. QED
    BY <2>2, <2>3
<1>3. QED
  BY <1>1, <1>2, PTL DEF Spec
=============================================================================
