----------------------------- MODULE MCTagCalls -----------------------------
(***************************************************************************)
(* Calls for TagCalls: every function once or twice, with values at the    *)
(* boundaries of the encodings (one octet, a sign bit, several octets, a   *)
(* length of two octets, the end of the buffer).  Numbers stay below 2^31, *)
(* the largest TLC has; TagCodec_proofs covers the others.                 *)
(***************************************************************************)
EXTENDS TagCalls, TLC

ISO_15693_TAG == 256
ISO_14443A_TAG == 512

Blank ==
  [fn |-> "SelectTag", tag |-> MIFARE_DESFIRE, handles |-> TRUE, replies |-> {},
   key |-> <<>>, currentKey |-> <<>>, number |-> 0, version |-> 0, id |-> <<1, 2, 3>>,
   access |-> 14, frozen |-> 0, createDelete |-> 1, directory |-> 0, masterChange |-> 1,
   numKeys |-> 5, file |-> <<7>>, type |-> 0, comm |-> 3, read |-> 0, write |-> 1,
   readWrite |-> 14, change |-> 15, fileSize |-> 128, lowerLimit |-> 0,
   upperLimit |-> 32768, value |-> 127, limited |-> 1, recordSize |-> 255,
   maxRecords |-> 256, start |-> 0, data |-> <<>>, amount |-> 0, hmac |-> 1,
   name |-> <<>>, cipher |-> 0, cipherName |-> <<>>, cipherKey |-> <<>>, derive |-> FALSE,
   intf |-> 1, block |-> 192, transport |-> 1, cla |-> <<0>>, ins |-> <<164>>,
   p1p2 |-> <<4, 0>>, le |-> 256, transaction |-> 0, inv |-> FALSE, loop |-> FALSE]

Bytes(n) == [i \in 1..n |-> i % 256]
Reply(shape, v) == [shape |-> shape, v |-> v]

Common == [type |-> <<0>>, comm |-> <<3>>, read |-> <<0>>, write |-> <<1>>,
           readWrite |-> <<14>>, change |-> <<15>>]
DataFile(n)   == Reply("data file", Also([fileSize |-> <<n>>], Common))
ValueFile(n)  == Reply("value file", Also([lowerLimit |-> <<-n>>, upperLimit |-> <<n>>,
                                           value |-> <<n>>, limited |-> <<1>>], Common))
RecordFile(n) == Reply("record file", Also([recordSize |-> <<n>>, maxRecords |-> <<255>>,
                                            numRecords |-> <<128>>], Common))
SettingsReplies == {DataFile(128), ValueFile(8388608), RecordFile(256)}

Application(b) == Reply("application", [access |-> <<14>>, frozen |-> <<b>>,
  createDelete |-> <<1 - b>>, directory |-> <<b>>, masterChange |-> <<1>>, numKeys |-> <<14>>])
Master(b) == Reply("master", [frozen |-> <<b>>, createDelete |-> <<1 - b>>,
  directory |-> <<b>>, masterChange |-> <<1>>, numKeys |-> <<1>>])

Octets(n) == Reply("octets", [data |-> Bytes(n)])
Handed(n) == Reply("bytes", [data |-> Bytes(n)])
Other(n)  == Reply("other", [data |-> Bytes(n)])
Tracks_(a, b) == Reply("tracks", [track1 |-> a, track2 |-> b])

Numbers == {0, 127, 128, 255, 256, 32768, 8388608, 2147483647}

DesfireJobs ==
  {[Blank EXCEPT !.fn = "AuthenticateTag", !.key = Bytes(n), !.number = 3] :
      n \in {0, 1, 127, 128, 256, 1014, 1015}} \cup
  {[Blank EXCEPT !.fn = "GetApplicationIDs", !.replies =
      {Reply("applications", [ids |-> [i \in 1..n |-> <<i, 0, 255>>]]) : n \in 0..3}
        \cup {Other(0)}]} \cup
  {[Blank EXCEPT !.fn = fn, !.id = i] :
      fn \in {"SelectApplication", "CreateApplication", "DeleteApplication"},
      i \in {<<>>, <<1, 2, 3>>}} \cup
  {[Blank EXCEPT !.fn = "GetFileIDs", !.replies =
      {Reply("files", [ids |-> [i \in 1..n |-> <<100 * i>>]]) : n \in 0..2}]} \cup
  {[Blank EXCEPT !.fn = "SelectFile"]} \cup
  {[Blank EXCEPT !.fn = "CreateDataFile", !.type = t, !.fileSize = n] :
      t \in {1, 2}, n \in Numbers} \cup
  {[Blank EXCEPT !.fn = "CreateValueFile", !.type = 2, !.value = n, !.lowerLimit = n] :
      n \in Numbers} \cup
  {[Blank EXCEPT !.fn = "CreateRecordFile", !.type = 4, !.recordSize = n] : n \in Numbers}
    \cup
  {[Blank EXCEPT !.fn = fn, !.replies = SettingsReplies] :
      fn \in {"GetCommonFileSettings", "GetDataFileSettings", "GetValueFileSettings",
              "GetRecordFileSettings"}} \cup
  {[Blank EXCEPT !.fn = fn] :
      fn \in {"ChangeFileSettings", "DeleteFile", "ClearFile", "CommitTransaction",
              "AbortTransaction", "ChangeApplicationKeySettings",
              "ChangeMasterKeySettings"}} \cup
  {[Blank EXCEPT !.fn = fn, !.start = n, !.replies = {Octets(1), Octets(128), Octets(300),
                                                     Other(0)}] :
      fn \in {"ReadFile", "ReadRecords"}, n \in Numbers} \cup
  {[Blank EXCEPT !.fn = fn, !.data = Bytes(n), !.start = 128] :
      fn \in {"WriteFile", "WriteRecord"}, n \in {0, 1, 128, 256, 1008, 1009, 1010, 1011, 1012}}
    \cup
  {[Blank EXCEPT !.fn = fn, !.amount = n] :
      fn \in {"CreditValueFile", "DebitValueFile", "LimitedCreditValueFile"},
      n \in Numbers} \cup
  {[Blank EXCEPT !.fn = "GetValue", !.replies = {Reply("value", [value |-> <<n>>]) :
                                                  n \in Numbers \cup {-1, -128, -129}}]} \cup
  {[Blank EXCEPT !.fn = "GetKeyVersion", !.number = 2, !.replies =
      {Reply("version", [version |-> <<n>>]) : n \in {0, 127, 128, 255}}]} \cup
  {[Blank EXCEPT !.fn = "ChangeKey", !.key = Bytes(16), !.currentKey = k, !.number = 128] :
      k \in {<<>>, Bytes(16)}} \cup
  {[Blank EXCEPT !.fn = fn, !.replies = {Application(0), Application(1), Master(0), Master(1)}] :
      fn \in {"GetApplicationKeySettings", "GetMasterKeySettings"}}

GenericJobs ==
  {[Blank EXCEPT !.tag = ISO_15693_TAG, !.fn = fn, !.data = d, !.start = 65535] :
      fn \in {"WriteTagData", "WriteTagConfig", "LockTagBlock", "KillTag", "SendTagPassword",
              "WriteAFI", "WriteDSFID"},
      d \in {<<>>, Bytes(4), Bytes(2048), Bytes(2049)}} \cup
  {[Blank EXCEPT !.tag = ISO_15693_TAG, !.fn = fn, !.start = 300, !.replies =
      {Handed(1), Handed(5), Other(0)}] :
      fn \in {"ReadTagData", "ReadTagConfig", "ReadAFI", "ReadDSFID"}} \cup
  {[Blank EXCEPT !.tag = ISO_15693_TAG, !.fn = fn] :
      fn \in {"SelectTag", "ReviveTag", "EraseTag", "FormatTag", "DeselectTag", "EnableEAS",
              "DisableEAS", "ScanEAS", "ActivateTagType", "GetValue", "TransportSend"}} \cup
  {[Blank EXCEPT !.tag = ISO_15693_TAG, !.fn = "GetTagInfo", !.replies = {Other(5),
      Reply("info", [startBlock |-> <<0>>, maxBlock |-> <<256>>, bytesPerBlock |-> <<4>>])}],
   [Blank EXCEPT !.tag = ISO_15693_TAG, !.fn = "GetLockStatus", !.replies = {Other(2),
      Reply("lock", [lock |-> <<1>>])}],
   [Blank EXCEPT !.tag = ISO_14443A_TAG, !.fn = "SelectTag", !.handles = FALSE]} \cup
  {[Blank EXCEPT !.tag = ISO_14443A_TAG, !.fn = "AuthenticateTag", !.number = 9, !.key = k] :
      k \in {<<>>, Bytes(6)}}

CardJobs ==
  {[Blank EXCEPT !.tag = ISO_14443A_TAG, !.fn = fn, !.key = k, !.name = n, !.cipher = 2,
                 !.cipherName = n, !.cipherKey = ck, !.derive = d] :
      fn \in {"InitializeSecureMemoryTag", "SetupSecureMemoryTag"}, k \in {<<>>, Bytes(16)},
      n \in {<<>>, Bytes(8)}, ck \in {<<>>, Bytes(16)}, d \in BOOLEAN} \cup
  {[Blank EXCEPT !.tag = ISO_14443A_TAG, !.fn = fn, !.data = Bytes(n),
                 !.replies = {Octets(1), Octets(200)}] :
      fn \in {"InterfaceSend", "TransportSend"}, n \in {0, 1, 128, 1000}} \cup
  {[Blank EXCEPT !.tag = 768, !.fn = "InitiatePayment", !.replies =
      {Reply("payment", [systemType |-> <<1>>, id |-> Bytes(5), label |-> Bytes(16),
                         interchangeProfile |-> <<256>>, elementaryFiles |-> Bytes(250)]),
       Octets(1)}]} \cup
  {[Blank EXCEPT !.tag = 768, !.fn = "ComputePayment", !.transaction = t, !.replies =
      {Tracks_(a, b) : a \in {<<>>, Bytes(79)}, b \in {<<>>, Bytes(40)}} \cup {Octets(1)}] :
      t \in {0, 1}}

ReaderJobs ==
  {[Blank EXCEPT !.fn = fn, !.number = 4, !.data = d] :
      fn \in {"StoreKey", "AuthenticateReader", "SetSystemParameter",
              "SetDefaultSystemParameter"}, d \in {<<>>, Bytes(4)}} \cup
  {[Blank EXCEPT !.fn = fn, !.number = 300] :
      fn \in {"LoadKey", "LoadDefaults", "ResetDevice", "Bootload", "EnableDebug",
              "DisableDebug"}} \cup
  {[Blank EXCEPT !.fn = fn, !.number = 5, !.replies = {Handed(32), Other(0)}] :
      fn \in {"GetSystemParameter", "GetDefaultSystemParameter", "GetDebugMessages"}}

Version2Jobs ==
  {[Blank EXCEPT !.fn = "ReadTagData"],
   [Blank EXCEPT !.fn = "SelectApplication"],
   [Blank EXCEPT !.fn = "SelectTag", !.tag = 0],
   [Blank EXCEPT !.fn = "SelectTags", !.tag = 0, !.loop = TRUE],
   [Blank EXCEPT !.fn = "GetTags", !.tag = 0],
   [Blank EXCEPT !.fn = "GetSystemParameter", !.number = 2]}

MCJobs  == (3 :> (DesfireJobs \cup GenericJobs \cup CardJobs \cup ReaderJobs))
             @@ (2 :> Version2Jobs)
MCCalls == (3 :> 1) @@ (2 :> 2)
MCLines == {{}, {"write", "request", "answer", "late"}, {"answer", "crc", "header"},
            {"split", "late"}}
=============================================================================
