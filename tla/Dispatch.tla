------------------------------ MODULE Dispatch ------------------------------
(***************************************************************************)
(* Which code runs for a call of the API: the checks of SkyeTekAPI.c, the  *)
(* function of the tag's implementation (Tag/TagFactory.c and the tables   *)
(* of the tag modules) or of SkyeTekReader.c, and the function of the      *)
(* protocol (Protocol/STPv3.c, Protocol/STPv2.c) that this one calls.      *)
(*                                                                         *)
(* A call c has a name (fn), a type of tag (tag), and the arguments of the *)
(* function; handles says that reader and tag are initialised.             *)
(***************************************************************************)
EXTENDS DesfireTag, GenericTag

-----------------------------------------------------------------------------
(* The functions of the API.  Each checks the handles and calls the        *)
(* function of the same name of the tag, or of the reader.                 *)

MemoryCalls ==
  {"SelectTag", "ReadTagData", "WriteTagData", "ReadTagConfig", "WriteTagConfig",
   "LockTagBlock", "ActivateTagType", "DeactivateTagType", "SetTagBitRate"}

TagStateCalls ==
  {"GetTagInfo", "GetLockStatus", "KillTag", "ReviveTag", "EraseTag", "FormatTag",
   "DeselectTag", "AuthenticateTag", "SendTagPassword"}

ApplicationCalls ==
  {"GetApplicationIDs", "SelectApplication", "CreateApplication", "DeleteApplication",
   "GetFileIDs", "SelectFile", "CreateDataFile", "CreateValueFile", "CreateRecordFile"}

FileCalls ==
  {"GetCommonFileSettings", "GetDataFileSettings", "GetValueFileSettings",
   "GetRecordFileSettings", "ChangeFileSettings", "ReadFile", "WriteFile", "DeleteFile",
   "ClearFile"}

ValueCalls ==
  {"CreditValueFile", "DebitValueFile", "LimitedCreditValueFile", "GetValue",
   "ReadRecords", "WriteRecord", "CommitTransaction", "AbortTransaction"}

IdentifierCalls ==
  {"EnableEAS", "DisableEAS", "ScanEAS", "ReadAFI", "WriteAFI", "ReadDSFID", "WriteDSFID"}

KeyCalls ==
  {"GetKeyVersion", "ChangeKey", "GetApplicationKeySettings", "GetMasterKeySettings",
   "ChangeApplicationKeySettings", "ChangeMasterKeySettings",
   "InitializeSecureMemoryTag", "SetupSecureMemoryTag", "InterfaceSend", "TransportSend"}

PaymentCalls == {"InitiatePayment", "ComputePayment"}

TagApi ==
  MemoryCalls \cup TagStateCalls \cup ApplicationCalls \cup FileCalls \cup ValueCalls
    \cup IdentifierCalls \cup KeyCalls \cup PaymentCalls

TagListCalls == {"SelectTags", "GetTags", "GetTagsWithMask"}

ReaderCalls ==
  {"StoreKey", "LoadKey", "LoadDefaults", "ResetDevice", "Bootload", "GetSystemParameter",
   "SetSystemParameter", "GetDefaultSystemParameter", "SetDefaultSystemParameter"}

DebugCalls == {"AuthenticateReader", "EnableDebug", "DisableDebug", "GetDebugMessages"}

ReaderApi == TagListCalls \cup ReaderCalls \cup DebugCalls

-----------------------------------------------------------------------------
(* The tag's implementation. *)

ISO_15693_AUTO_DETECT  == 256
ISO_14443A_AUTO_DETECT == 512
MIFARE_DESFIRE         == 532
ISO_14443B_AUTO_DETECT == 768

(* No type is below 256 but AUTO_DETECT, 0. *)
InitializeTagType(type) ==
  CASE type = MIFARE_DESFIRE  -> "Desfire"
    [] type \div 256 = 2 /\ type # MIFARE_DESFIRE -> "Iso14443A"
    [] type \div 256 = 3      -> "Iso14443B"
    [] OTHER                  -> "Generic"

NotSupported == Sends("NOT_SUPPORTED", TRUE, 0, <<>>)

Unsupported ==
  UnsupportedActivation \cup UnsupportedFiles \cup UnsupportedContents
    \cup UnsupportedTransactions \cup UnsupportedKeys

GenericTagImpl(c) ==
  CASE c.fn \in Unsupported                    -> NotSupported
    [] c.fn = "SelectTag"                      -> GenericTag_SelectTag(c)
    [] c.fn = "ReadTagData"                    -> GenericTag_ReadTagData(c)
    [] c.fn = "WriteTagData"                   -> GenericTag_WriteTagData(c)
    [] c.fn = "ReadTagConfig"                  -> GenericTag_ReadTagConfig(c)
    [] c.fn = "WriteTagConfig"                 -> GenericTag_WriteTagConfig(c)
    [] c.fn = "LockTagBlock"                   -> GenericTag_LockTagBlock(c)
    [] c.fn = "GetTagInfo"                     -> GenericTag_GetTagInfo(c)
    [] c.fn = "GetLockStatus"                  -> GenericTag_GetLockStatus(c)
    [] c.fn = "KillTag"                        -> GenericTag_KillTag(c)
    [] c.fn = "ReviveTag"                      -> GenericTag_ReviveTag(c)
    [] c.fn = "EraseTag"                       -> GenericTag_EraseTag(c)
    [] c.fn = "FormatTag"                      -> GenericTag_FormatTag(c)
    [] c.fn = "DeselectTag"                    -> GenericTag_DeselectTag(c)
    [] c.fn = "AuthenticateTag"                -> GenericTag_AuthenticateTag(c)
    [] c.fn = "SendTagPassword"                -> GenericTag_SendTagPassword(c)
    [] c.fn = "EnableEAS"                      -> GenericTag_EnableEAS(c)
    [] c.fn = "DisableEAS"                     -> GenericTag_DisableEAS(c)
    [] c.fn = "ScanEAS"                        -> GenericTag_ScanEAS(c)
    [] c.fn = "ReadAFI"                        -> GenericTag_ReadAFI(c)
    [] c.fn = "WriteAFI"                       -> GenericTag_WriteAFI(c)
    [] c.fn = "ReadDSFID"                      -> GenericTag_ReadDSFID(c)
    [] c.fn = "WriteDSFID"                     -> GenericTag_WriteDSFID(c)
    [] c.fn = "InitializeSecureMemoryTag"      -> GenericTag_InitializeSecureMemoryTag(c)
    [] c.fn = "SetupSecureMemoryTag"           -> GenericTag_SetupSecureMemoryTag(c)
    [] c.fn = "InterfaceSend"                  -> GenericTag_InterfaceSend(c)
    [] c.fn = "TransportSend"                  -> NotSupported
    [] c.fn = "InitiatePayment"                -> GenericTag_InitiatePayment(c)
    [] c.fn = "ComputePayment"                 -> GenericTag_ComputePayment(c)

Iso14443ATagImpl(c) ==
  IF c.fn = "TransportSend" THEN Iso14443ATag_TransportSend(c) ELSE GenericTagImpl(c)

DesfireTagImpl(c) ==
  CASE c.fn = "AuthenticateTag"                -> DesfireTag_AuthenticateTag(c)
    [] c.fn = "GetApplicationIDs"              -> DesfireTag_GetApplicationIDs(c)
    [] c.fn = "SelectApplication"              -> DesfireTag_SelectApplication(c)
    [] c.fn = "CreateApplication"              -> DesfireTag_CreateApplication(c)
    [] c.fn = "DeleteApplication"              -> DesfireTag_DeleteApplication(c)
    [] c.fn = "GetFileIDs"                     -> DesfireTag_GetFileIDs(c)
    [] c.fn = "SelectFile"                     -> NotSupported
    [] c.fn = "CreateDataFile"                 -> DesfireTag_CreateDataFile(c)
    [] c.fn = "CreateValueFile"                -> DesfireTag_CreateValueFile(c)
    [] c.fn = "CreateRecordFile"               -> DesfireTag_CreateRecordFile(c)
    [] c.fn = "GetCommonFileSettings"          -> DesfireTag_GetCommonFileSettings(c)
    [] c.fn = "GetDataFileSettings"            -> DesfireTag_GetDataFileSettings(c)
    [] c.fn = "GetValueFileSettings"           -> DesfireTag_GetValueFileSettings(c)
    [] c.fn = "GetRecordFileSettings"          -> DesfireTag_GetRecordFileSettings(c)
    [] c.fn = "ChangeFileSettings"             -> DesfireTag_ChangeFileSettings(c)
    [] c.fn = "ReadFile"                       -> DesfireTag_ReadFile(c)
    [] c.fn = "WriteFile"                      -> DesfireTag_WriteFile(c)
    [] c.fn = "DeleteFile"                     -> DesfireTag_DeleteFile(c)
    [] c.fn = "ClearFile"                      -> DesfireTag_ClearFile(c)
    [] c.fn = "CreditValueFile"                -> DesfireTag_CreditValueFile(c)
    [] c.fn = "DebitValueFile"                 -> DesfireTag_DebitValueFile(c)
    [] c.fn = "LimitedCreditValueFile"         -> DesfireTag_LimitedCreditValueFile(c)
    [] c.fn = "GetValue"                       -> DesfireTag_GetValue(c)
    [] c.fn = "ReadRecords"                    -> DesfireTag_ReadRecords(c)
    [] c.fn = "WriteRecord"                    -> DesfireTag_WriteRecord(c)
    [] c.fn = "CommitTransaction"              -> DesfireTag_CommitTransaction(c)
    [] c.fn = "AbortTransaction"               -> DesfireTag_AbortTransaction(c)
    [] c.fn = "GetKeyVersion"                  -> DesfireTag_GetKeyVersion(c)
    [] c.fn = "ChangeKey"                      -> DesfireTag_ChangeKey(c)
    [] c.fn = "GetApplicationKeySettings"      -> DesfireTag_GetApplicationKeySettings(c)
    [] c.fn = "GetMasterKeySettings"           -> DesfireTag_GetMasterKeySettings(c)
    [] c.fn = "ChangeApplicationKeySettings"   -> DesfireTag_ChangeApplicationKeySettings(c)
    [] c.fn = "ChangeMasterKeySettings"        -> DesfireTag_ChangeMasterKeySettings(c)
    [] OTHER                                   -> Iso14443ATagImpl(c)

TagFunction(c) ==
  CASE InitializeTagType(c.tag) = "Desfire"   -> DesfireTagImpl(c)
    [] InitializeTagType(c.tag) = "Iso14443A" -> Iso14443ATagImpl(c)
    [] OTHER                                   -> GenericTagImpl(c)

-----------------------------------------------------------------------------
(* The functions of SkyeTekReader.c; version is that of the protocol. *)

SYS_RID == 4
SYS_READER_NAME == 5

(* The parameters that version 2 keeps at another address, and those it    *)
(* does not have; the others are at the address of their number.           *)
V2Moved ==
  (SYS_RID :> 2) @@ (7 :> 3) @@ (12 :> 4) @@ (8 :> 5) @@ (9 :> 6)
    @@ (SYS_READER_NAME :> 8) @@ (10 :> 9) @@ (6 :> 26)
V2Missing == {2, 3} \cup 13..18

HasAddress(parameter, version) == version = 3 \/ parameter \notin V2Missing

STR_GetSystemAddrForParm(parameter, version) ==
  IF version = 2 /\ parameter \in DOMAIN V2Moved THEN V2Moved[parameter] ELSE parameter

GetParameter(c, cmd, version) == HandOn(cmd, HasAddress(c.number, version))
SetParameter(c, cmd, version) == Forward(cmd, HasAddress(c.number, version) /\ c.data # <<>>)

ReaderFunction(c, version) ==
  CASE c.fn \in {"StoreKey", "AuthenticateReader"} -> Forward(c.fn, c.data # <<>>)
    [] c.fn \in {"GetSystemParameter", "GetDefaultSystemParameter"} ->
         GetParameter(c, c.fn, version)
    [] c.fn \in {"SetSystemParameter", "SetDefaultSystemParameter"} ->
         SetParameter(c, c.fn, version)
    [] c.fn = "GetDebugMessages" -> HandOn(c.fn, TRUE)
    [] OTHER -> Forward(c.fn, TRUE)

FunctionOf(c, version) ==
  IF c.fn \in TagApi THEN TagFunction(c) ELSE ReaderFunction(c, version)

(* The address that goes with the command: of a block, of a key, of a      *)
(* parameter; the DESFire functions pass zeros.                            *)
AddressOf(c, version) ==
  CASE c.fn \in {"StoreKey", "LoadKey"} -> c.number
    [] c.fn \in ReaderApi \ {"StoreKey", "LoadKey"} ->
         STR_GetSystemAddrForParm(c.number, version)
    [] c.fn \in TagApi /\ InitializeTagType(c.tag) = "Desfire"
         /\ c.fn \notin MemoryCalls \cup {"GetLockStatus"} -> 0
    [] OTHER -> c.start

-----------------------------------------------------------------------------
(* Version 3: the parts of a request that the Send functions fill, and     *)
(* whether they return the data of the answer.                             *)

Send(address, data, answer) == [address |-> address, data |-> data, answer |-> answer]

SendCommand          == Send(FALSE, FALSE, FALSE)
SendGetCommand       == Send(FALSE, FALSE, TRUE)
SendSetCommand       == Send(FALSE, TRUE, FALSE)
SendAddrGetCommand   == Send(TRUE, FALSE, TRUE)
SendAddrSetCommand   == Send(TRUE, TRUE, FALSE)
SendTagCommand       == Send(FALSE, FALSE, FALSE)
SendGetTagCommand    == Send(FALSE, FALSE, TRUE)
SendSetTagCommand    == Send(FALSE, TRUE, FALSE)
SendGetSetTagCommand == Send(FALSE, TRUE, TRUE)
SendAddrGetTagCommand    == Send(TRUE, FALSE, TRUE)
SendAddrSetTagCommand    == Send(TRUE, TRUE, FALSE)
SendAddrGetSetTagCommand == Send(TRUE, TRUE, TRUE)

(* The functions that take data refuse more than 2048 octets; the size is  *)
(* unsigned, so that a negative one is too large as well.                  *)
SignedAccepts(send, size) == send.data => size <= 2048  \* mutant: the size is signed

Accepts(send, size) == send.data => size \in 0..2048

(* A request for a tag names it (the tag's ID goes along if it is known),  *)
(* or belongs to the session that was opened with it, or both.             *)
For(send, names, session) == [send |-> send, names |-> names, session |-> session]

ReaderWrappers ==
  [StoreKey |-> For(SendAddrSetCommand, FALSE, FALSE),
   LoadKey  |-> For(Send(TRUE, FALSE, FALSE), FALSE, FALSE),
   LoadDefaults |-> For(SendCommand, FALSE, FALSE),
   ResetDevice  |-> For(SendCommand, FALSE, FALSE),
   Bootload     |-> For(SendCommand, FALSE, FALSE),
   GetSystemParameter |-> For(SendAddrGetCommand, FALSE, FALSE),
   SetSystemParameter |-> For(SendAddrSetCommand, FALSE, FALSE),
   GetDefaultSystemParameter |-> For(SendAddrGetCommand, FALSE, FALSE),
   SetDefaultSystemParameter |-> For(SendAddrSetCommand, FALSE, FALSE),
   AuthenticateReader |-> For(SendSetCommand, FALSE, FALSE),
   EnableDebug  |-> For(SendCommand, FALSE, FALSE),
   DisableDebug |-> For(SendCommand, FALSE, FALSE),
   GetDebugMessages |-> For(SendGetCommand, FALSE, FALSE)]

MemoryWrappers ==
  [SelectTag     |-> For(SendTagCommand, TRUE, TRUE),
   ReadTagData   |-> For(SendAddrGetTagCommand, TRUE, TRUE),
   WriteTagData  |-> For(SendAddrSetTagCommand, TRUE, TRUE),
   ReadTagConfig |-> For(SendAddrGetTagCommand, TRUE, TRUE)]

StateWrappers ==
  [WriteTagConfig |-> For(SendAddrSetTagCommand, TRUE, TRUE),
   GetTagInfo    |-> For(SendGetTagCommand, FALSE, TRUE),
   GetLockStatus |-> For(SendAddrGetTagCommand, TRUE, FALSE),
   KillTag       |-> For(SendSetTagCommand, TRUE, TRUE),
   ReviveTag     |-> For(SendTagCommand, TRUE, TRUE),
   EraseTag      |-> For(SendTagCommand, TRUE, TRUE)]

ApplicationWrappers ==
  [FormatTag         |-> For(SendTagCommand, TRUE, TRUE),
   DeselectTag       |-> For(SendTagCommand, TRUE, TRUE),
   AuthenticateTag   |-> For(SendAddrSetTagCommand, FALSE, TRUE),
   SendTagPassword   |-> For(SendSetTagCommand, TRUE, TRUE),
   GetApplicationIDs |-> For(SendGetTagCommand, FALSE, TRUE),
   SelectApplication |-> For(SendSetTagCommand, FALSE, TRUE),
   CreateApplication |-> For(SendSetTagCommand, FALSE, TRUE),
   DeleteApplication |-> For(SendSetTagCommand, FALSE, TRUE)]

FileWrappers ==
  [GetFileIDs         |-> For(SendGetTagCommand, FALSE, TRUE),
   SelectFile         |-> For(SendSetTagCommand, FALSE, TRUE),
   CreateFile         |-> For(SendSetTagCommand, FALSE, TRUE),
   GetFileSettings    |-> For(SendGetSetTagCommand, FALSE, TRUE),
   ChangeFileSettings |-> For(SendSetTagCommand, FALSE, TRUE),
   ReadFile           |-> For(SendAddrGetSetTagCommand, FALSE, TRUE),
   WriteFile          |-> For(SendAddrSetTagCommand, FALSE, TRUE),
   DeleteFile         |-> For(SendSetTagCommand, FALSE, TRUE)]

ValueWrappers ==
  [ClearFile         |-> For(SendSetTagCommand, FALSE, TRUE),
   CreditValueFile   |-> For(SendSetTagCommand, FALSE, TRUE),
   DebitValueFile    |-> For(SendSetTagCommand, FALSE, TRUE),
   LimitedCreditValueFile |-> For(SendSetTagCommand, FALSE, TRUE),
   GetValue          |-> For(SendGetSetTagCommand, FALSE, TRUE),
   ReadRecords       |-> For(SendAddrGetSetTagCommand, FALSE, TRUE),
   WriteRecord       |-> For(SendAddrSetTagCommand, FALSE, TRUE),
   CommitTransaction |-> For(SendTagCommand, FALSE, TRUE)]

(* SCAN_EAS is for whatever tag is in the field. *)
IdentifierWrappers ==
  [AbortTransaction  |-> For(SendTagCommand, FALSE, TRUE),
   EnableEAS         |-> For(SendTagCommand, TRUE, FALSE),
   DisableEAS        |-> For(SendTagCommand, TRUE, FALSE),
   ScanEAS           |-> For(SendTagCommand, FALSE, FALSE),
   ReadAFI           |-> For(SendGetTagCommand, TRUE, FALSE),
   WriteAFI          |-> For(SendSetTagCommand, TRUE, FALSE),
   ReadDSFID         |-> For(SendGetTagCommand, TRUE, FALSE),
   WriteDSFID        |-> For(SendSetTagCommand, TRUE, FALSE)]

KeyWrappers ==
  [GetKeyVersion     |-> For(SendGetSetTagCommand, FALSE, TRUE),
   ChangeKey         |-> For(SendSetTagCommand, FALSE, TRUE),
   GetKeySettings    |-> For(SendGetTagCommand, FALSE, TRUE),
   ChangeKeySettings |-> For(SendSetTagCommand, FALSE, TRUE),
   InitializeSecureMemoryTag |-> For(SendSetTagCommand, FALSE, TRUE)]

SendWrappers ==
  [SetupSecureMemoryTag |-> For(SendSetTagCommand, FALSE, TRUE),
   InterfaceSend     |-> For(SendGetSetTagCommand, TRUE, TRUE),
   TransportSend     |-> For(SendGetSetTagCommand, TRUE, TRUE),
   InitiatePayment   |-> For(SendGetTagCommand, TRUE, TRUE),
   ComputePayment    |-> For(SendGetSetTagCommand, TRUE, TRUE)]

(* f @@ g, spelt out for the proofs. *)
Also(f, g) == [x \in DOMAIN f \cup DOMAIN g |-> IF x \in DOMAIN f THEN f[x] ELSE g[x]]

TagStateWrappers == Also(MemoryWrappers, Also(StateWrappers, ApplicationWrappers))
TagFileWrappers  == Also(FileWrappers, Also(ValueWrappers, IdentifierWrappers))
STPV3 ==
  Also(ReaderWrappers,
       Also(TagStateWrappers, Also(TagFileWrappers, Also(KeyWrappers, SendWrappers))))

-----------------------------------------------------------------------------
(* Version 2: the functions that return NOT_SUPPORTED. *)

V2UnsupportedTagLists == {"GetTagsWithMask", "StoreKey", "LoadKey", "LoadDefaults",
                          "ResetDevice", "Bootload"}
V2UnsupportedReader == {"GetDefaultSystemParameter", "SetDefaultSystemParameter"} \cup DebugCalls
V2UnsupportedState  == {"ReadTagConfig", "WriteTagConfig", "GetTagInfo", "GetLockStatus",
                        "KillTag", "ReviveTag", "EraseTag", "FormatTag", "DeselectTag",
                        "AuthenticateTag"}
V2UnsupportedFiles  == {"SendTagPassword", "GetApplicationIDs", "SelectApplication",
                        "CreateApplication", "DeleteApplication", "GetFileIDs", "CreateFile",
                        "GetFileSettings", "ChangeFileSettings", "ReadFile", "WriteFile"}
V2UnsupportedValues == {"DeleteFile", "ClearFile", "CreditValueFile", "DebitValueFile",
                        "LimitedCreditValueFile", "GetValue", "ReadRecords", "WriteRecord",
                        "CommitTransaction", "AbortTransaction", "EnableEAS", "DisableEAS",
                        "ScanEAS"}
V2UnsupportedKeys   == {"ReadAFI", "WriteAFI", "ReadDSFID", "WriteDSFID", "GetKeyVersion",
                        "ChangeKey", "GetKeySettings", "ChangeKeySettings",
                        "InitializeSecureMemoryTag", "SetupSecureMemoryTag", "InterfaceSend",
                        "TransportSend", "InitiatePayment", "ComputePayment"}
V2Unsupported ==
  V2UnsupportedTagLists \cup V2UnsupportedReader \cup V2UnsupportedState
    \cup V2UnsupportedFiles \cup V2UnsupportedValues \cup V2UnsupportedKeys
=============================================================================
