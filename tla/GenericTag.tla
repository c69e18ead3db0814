----------------------------- MODULE GenericTag -----------------------------
(***************************************************************************)
(* The functions of src/SkyeTekAPI/Tag/GenericTag.c, which every tag has,  *)
(* those of Iso14443ATag.c and Iso14443BTag.c, and the choice TagFactory.c *)
(* makes among the implementations.  As in DesfireTag a function is what   *)
(* it writes and reads for a call c.                                       *)
(***************************************************************************)
EXTENDS TagCodec

(* The arguments go to the protocol as they are; for the second the answer *)
(* goes to the caller as it is.                                            *)
Forward(cmd, valid) == Sends(cmd, valid, 0, <<>>)
HandOn(cmd, valid)  == Asks(cmd, valid, 0, <<>>, "ENCODE", <<>>)

-----------------------------------------------------------------------------
(* Tag memory.  data <<>> is an empty or missing argument. *)

GenericTag_SelectTag(c)       == Forward("SelectTag", TRUE)
GenericTag_ReadTagData(c)     == HandOn("ReadTagData", TRUE)
GenericTag_WriteTagData(c)    == Forward("WriteTagData", c.data # <<>>)
GenericTag_ReadTagConfig(c)   == HandOn("ReadTagConfig", TRUE)
GenericTag_WriteTagConfig(c)  == Forward("WriteTagConfig", c.data # <<>>)
GenericTag_LockTagBlock(c)    == Forward("WriteTagData", TRUE)

GenericTag_GetTagInfo(c) ==
  [Asks("GetTagInfo", TRUE, 0, <<>>, "ENCODE",
        READ_WORD("startBlock") \o READ_WORD("maxBlock") \o READ_WORD("bytesPerBlock"))
     EXCEPT !.sizes = {n \in Nat : n >= 6}]

GenericTag_GetLockStatus(c) ==
  [Asks("GetLockStatus", TRUE, 0, <<>>, "ENCODE", READ_OCTET("lock"))
     EXCEPT !.sizes = {1}]

GenericTag_KillTag(c)     == Forward("KillTag", TRUE)
GenericTag_ReviveTag(c)   == Forward("ReviveTag", TRUE)
GenericTag_EraseTag(c)    == Forward("EraseTag", TRUE)
GenericTag_FormatTag(c)   == Forward("FormatTag", TRUE)
GenericTag_DeselectTag(c) == Forward("DeselectTag", TRUE)

(* The version and the key, or the version and the number of a stored key. *)
GenericTag_AuthenticateTag(c) ==
  [Sends("AuthenticateTag", TRUE, Len(c.key) + 2, <<>>) EXCEPT
     !.raw = <<c.version>> \o (IF c.key = <<>> THEN <<c.number>> ELSE c.key)]

(* Iso14443BTag_SendTagPassword differs in its time limit only. *)
GenericTag_SendTagPassword(c) == Forward("SendTagPassword", c.data # <<>>)

GenericTag_EnableEAS(c)  == Forward("EnableEAS", TRUE)
GenericTag_DisableEAS(c) == Forward("DisableEAS", TRUE)

(* A reader that fails the command has seen no tag: that is a result.      *)
GenericTag_ScanEAS(c) == Forward("ScanEAS", TRUE)
ScanEASResult(st) ==
  CASE st = "SUCCESS" -> [st |-> "SUCCESS", state |-> 1]
    [] st = "FAILURE" -> [st |-> "SUCCESS", state |-> 0]
    [] OTHER          -> [st |-> st, state |-> -1]

GenericTag_ReadAFI(c)    == HandOn("ReadAFI", TRUE)
GenericTag_WriteAFI(c)   == Forward("WriteAFI", c.data # <<>>)
GenericTag_ReadDSFID(c)  == HandOn("ReadDSFID", TRUE)
GenericTag_WriteDSFID(c) == Forward("WriteDSFID", c.data # <<>>)

-----------------------------------------------------------------------------
(* Secure memory.  A key has a name, which may be empty, and data.         *)

NameOf(n, name) == IF name = <<>> THEN <<>> ELSE CONTEXT(n, OCTETS(name))
KeyData(key)    == IF key = <<>> THEN <<>> ELSE OCTETS(key)
Derivation(use) == IF use THEN BOOL(1) ELSE <<>>

(* Iso14443ATag_InitializeSecureMemoryTag is the same function. *)
GenericTag_InitializeSecureMemoryTag(c) ==
  Sends("InitializeSecureMemoryTag", c.key # <<>>, 2048,
        SEQUENCE(ENUM(c.hmac) \o NameOf(1, c.name) \o OCTETS(c.key)
                   \o (IF c.cipher > 0
                       THEN ENUM(c.cipher) \o NameOf(2, c.cipherName)
                              \o KeyData(c.cipherKey)
                       ELSE <<>>)
                   \o Derivation(c.derive)))

(* Iso14443ATag_SetupSecureMemoryTag is the same function. *)
GenericTag_SetupSecureMemoryTag(c) ==
  Sends("SetupSecureMemoryTag", c.key # <<>>, 1024,
        SEQUENCE(NameOf(1, c.name) \o OCTETS(c.key)
                   \o (IF c.cipherKey # <<>>
                       THEN NameOf(2, c.cipherName) \o OCTETS(c.cipherKey)
                       ELSE <<>>)
                   \o Derivation(c.derive)))

-----------------------------------------------------------------------------
(* Raw exchanges with a card, and payment cards. *)

I14443D4 == 1
T7816D4  == 1

(* An interface other than 14443-4 is sent without the data. *)
GenericTag_InterfaceSend(c) ==
  [Asks("InterfaceSend", c.data # <<>>, 2048,
        SEQUENCE(ENUM(c.intf)
                   \o (IF c.intf = I14443D4
                       THEN CONTEXT(1, SEQUENCE(ENUM(c.block) \o OCTETS(c.data)))
                       ELSE <<>>)),
        "ENCODE", READ_OCTETS("data", 65535))
     EXCEPT !.empty = "SUCCESS"]

(* The data go out with the protocol's InterfaceSend. *)
Iso14443ATag_TransportSend(c) ==
  [Asks("InterfaceSend", c.cla # <<>> /\ c.ins # <<>> /\ c.p1p2 # <<>>, 1024,
        SEQUENCE(ENUM(c.transport)
                   \o (IF c.transport = T7816D4
                       THEN CONTEXT(1, SEQUENCE(OCTETS(c.cla) \o OCTETS(c.ins)
                                                  \o OCTETS(c.p1p2) \o KeyData(c.data)
                                                  \o INT(c.le)))
                       ELSE <<>>)),
        "ENCODE", READ_OCTETS("data", 65535))
     EXCEPT !.empty = "SUCCESS"]

(* The two payment functions are the ones that look at the errors of the   *)
(* decoder.                                                                *)
GenericTag_InitiatePayment(c) ==
  [Asks("InitiatePayment", TRUE, 0, <<>>, "ENCODE",
        SEQUENCE(READ_ENUM("systemType") \o READ_OCTETS("id", 128)
                   \o READ_OCTETS("label", 128) \o READ_USHORT("interchangeProfile")
                   \o READ_OCTETS("elementaryFiles", 8192)))
     EXCEPT !.empty = "SUCCESS", !.checked = TRUE]

UnskippedTracks ==  \* mutant: both tracks are taken to be there
  CONTEXT(1, READ_OCTETS("track1", 79)) \o CONTEXT(2, READ_OCTETS("track2", 40))

Tracks ==
  OPTIONAL(-1, CONTEXT(1, READ_OCTETS("track1", 79)))
    \o OPTIONAL(-2, CONTEXT(2, READ_OCTETS("track2", 40)))

GenericTag_ComputePayment(c) ==
  [Asks("ComputePayment", TRUE, 128,
        SEQUENCE(IF c.transaction = 0 THEN <<>>
                 ELSE CONTEXT(1, SEQUENCE(ENUM(c.transaction)))),
        "DECODE", SEQUENCE(Tracks))
     EXCEPT !.empty = "SUCCESS", !.checked = TRUE]

-----------------------------------------------------------------------------
(* The functions that return NOT_SUPPORTED at once. *)

UnsupportedActivation == {"ActivateTagType", "DeactivateTagType", "SetTagBitRate"}

UnsupportedFiles ==
  {"GetApplicationIDs", "SelectApplication", "CreateApplication", "DeleteApplication",
   "GetFileIDs", "SelectFile", "CreateDataFile", "CreateValueFile", "CreateRecordFile",
   "GetCommonFileSettings", "GetDataFileSettings"}

UnsupportedContents ==
  {"GetValueFileSettings", "GetRecordFileSettings", "ChangeFileSettings", "ReadFile",
   "WriteFile", "DeleteFile", "ClearFile", "CreditValueFile", "DebitValueFile",
   "LimitedCreditValueFile", "GetValue", "ReadRecords"}

UnsupportedTransactions == {"WriteRecord", "CommitTransaction", "AbortTransaction"}

UnsupportedKeys ==
  {"GetKeyVersion", "ChangeKey", "GetApplicationKeySettings", "GetMasterKeySettings",
   "ChangeApplicationKeySettings", "ChangeMasterKeySettings"}
=============================================================================
