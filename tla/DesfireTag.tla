----------------------------- MODULE DesfireTag -----------------------------
(***************************************************************************)
(* The functions of src/SkyeTekAPI/Tag/DesfireTag.c, each as what it       *)
(* writes and reads (TagCodec) for a call c, the record of its arguments.  *)
(*                                                                         *)
(* Octet strings (keys, IDs, data) are sequences; of a file ID only the    *)
(* first octet is used. The numbers of a call are of unsigned types, which *)
(* the int64 they are written from holds as they are (line 529); the       *)
(* numbers of an answer are cast to unsigned types (line 1425, READ_UINT). *)
(***************************************************************************)
EXTENDS TagCodec

LOCAL INSTANCE SequencesExt

STANDARD_DATA_FILE == 0
BACKUP_DATA_FILE   == 1
VALUE_FILE         == 2
LINEAR_RECORD_FILE == 3
CYCLICAL_RECORD_FILE == 4

(* The size of the buffer for requests. *)
DATA == 1024

FileID(c) == INT(IF c.file = <<>> THEN 0 ELSE c.file[1])

-----------------------------------------------------------------------------
(* Applications *)

DesfireTag_AuthenticateTag(c) ==
  Sends("AuthenticateTag", c.key # <<>>, DATA, SEQUENCE(INT(c.number) \o OCTETS(c.key)))

DesfireTag_GetApplicationIDs(c) ==
  [Asks("GetApplicationIDs", TRUE, 0, <<>>, "ENCODE", <<>>) EXCEPT
     !.ids = "octets", !.empty = "SUCCESS"]

DesfireTag_SelectApplication(c) ==
  Sends("SelectApplication", c.id # <<>>, DATA, OCTETS(c.id))

AppKeySettings(c) ==
  ENUM(c.access) \o BOOL(c.frozen) \o BOOL(c.createDelete) \o BOOL(c.directory)
    \o BOOL(c.masterChange)

DesfireTag_CreateApplication(c) ==
  Sends("CreateApplication", c.id # <<>>, DATA,
        SEQUENCE(OCTETS(c.id) \o SEQUENCE(AppKeySettings(c)) \o INT(c.numKeys)))

DesfireTag_DeleteApplication(c) ==
  Sends("DeleteApplication", c.id # <<>>, DATA, OCTETS(c.id))

-----------------------------------------------------------------------------
(* Files *)

DesfireTag_GetFileIDs(c) ==
  [Asks("GetFileIDs", TRUE, 0, <<>>, "ENCODE", <<>>) EXCEPT
     !.ids = "integers", !.empty = "SUCCESS"]

AccessRights(c) ==
  SEQUENCE(ENUM(c.read) \o ENUM(c.write) \o ENUM(c.readWrite) \o ENUM(c.change))

SwappedRights(c) ==  \* mutant: two rights change places
  SEQUENCE(ENUM(c.write) \o ENUM(c.read) \o ENUM(c.readWrite) \o ENUM(c.change))

NewFile(c, types, contents) ==
  Sends("CreateFile", c.file # <<>> /\ c.type \in types, DATA,
        SEQUENCE(FileID(c) \o ENUM(c.type) \o ENUM(c.comm) \o AccessRights(c)
                   \o contents))

DesfireTag_CreateDataFile(c) ==
  NewFile(c, {STANDARD_DATA_FILE, BACKUP_DATA_FILE},
          CONTEXT(1, SEQUENCE(INT(c.fileSize))))

DesfireTag_CreateValueFile(c) ==
  NewFile(c, {VALUE_FILE},
          CONTEXT(2, SEQUENCE(INT(c.lowerLimit) \o INT(c.upperLimit) \o INT(c.value)
                                \o BOOL(c.limited))))

DesfireTag_CreateRecordFile(c) ==
  NewFile(c, {LINEAR_RECORD_FILE, CYCLICAL_RECORD_FILE},
          CONTEXT(3, SEQUENCE(INT(c.recordSize) \o INT(c.maxRecords))))

(* The settings every kind of file has, and those of its own kind.         *)
CommonSettings ==
  READ_ENUM("type") \o READ_ENUM("comm")
    \o SEQUENCE(READ_ENUM("read") \o READ_ENUM("write") \o READ_ENUM("readWrite")
                  \o READ_ENUM("change"))

FileSettings(c, own) ==
  Asks("GetFileSettings", c.file # <<>>, DATA, FileID(c), "ENCODE",
       SEQUENCE(CommonSettings \o own))

DesfireTag_GetCommonFileSettings(c) == FileSettings(c, <<>>)

UnpeekedSettings(c) ==  \* mutant: the kind of the file is not looked at
  FileSettings(c, CONTEXT(1, SEQUENCE(READ_UINT("fileSize"))))

DesfireTag_GetDataFileSettings(c) ==
  FileSettings(c, PEEK(-1, "INVALID_FILE_TYPE")
                    \o CONTEXT(1, SEQUENCE(READ_UINT("fileSize"))))

(* start_context_specific is given a 1 in all three: in mode "ENCODE" it   *)
(* writes that tag over the one peek found.                                *)
DesfireTag_GetValueFileSettings(c) ==
  FileSettings(c, PEEK(-2, "INVALID_FILE_TYPE")
                    \o CONTEXT(1, SEQUENCE(READ_UINT("lowerLimit") \o READ_UINT("upperLimit")
                                             \o READ_UINT("value") \o READ_BOOL("limited"))))

DesfireTag_GetRecordFileSettings(c) ==
  FileSettings(c, PEEK(-3, "INVALID_FILE_TYPE")
                    \o CONTEXT(1, SEQUENCE(READ_UINT("recordSize") \o READ_UINT("maxRecords")
                                             \o READ_UINT("numRecords"))))

DesfireTag_ChangeFileSettings(c) ==
  Sends("ChangeFileSettings", c.file # <<>>, DATA,
        SEQUENCE(FileID(c) \o ENUM(c.comm) \o AccessRights(c)))

-----------------------------------------------------------------------------
(* Contents of files.  The buffer for what is read is as long as the       *)
(* answer.                                                                 *)

ReadAt(c, cmd) ==
  Asks(cmd, c.file # <<>>, DATA, SEQUENCE(FileID(c) \o INT(c.start)), "ENCODE",
       READ_OCTETS("data", 65535))

WriteAt(c, cmd) ==
  Sends(cmd, c.file # <<>> /\ c.data # <<>>, DATA,
        SEQUENCE(FileID(c) \o INT(c.start) \o OCTETS(c.data)))

DesfireTag_ReadFile(c)    == ReadAt(c, "ReadFile")
DesfireTag_WriteFile(c)   == WriteAt(c, "WriteFile")
DesfireTag_ReadRecords(c) == ReadAt(c, "ReadRecords")
DesfireTag_WriteRecord(c) == WriteAt(c, "WriteRecord")

DesfireTag_DeleteFile(c) == Sends("DeleteFile", c.file # <<>>, DATA, FileID(c))
DesfireTag_ClearFile(c)  == Sends("ClearFile", c.file # <<>>, DATA, FileID(c))

Amount(c, cmd) ==
  Sends(cmd, c.file # <<>>, DATA, SEQUENCE(FileID(c) \o INT(c.amount)))

DesfireTag_CreditValueFile(c)        == Amount(c, "CreditValueFile")
DesfireTag_DebitValueFile(c)         == Amount(c, "DebitValueFile")
DesfireTag_LimitedCreditValueFile(c) == Amount(c, "LimitedCreditValueFile")

DesfireTag_GetValue(c) ==
  Asks("GetValue", c.file # <<>>, DATA, FileID(c), "ENCODE", READ_UINT("value"))

DesfireTag_CommitTransaction(c) == Sends("CommitTransaction", TRUE, 0, <<>>)
DesfireTag_AbortTransaction(c)  == Sends("AbortTransaction", TRUE, 0, <<>>)

-----------------------------------------------------------------------------
(* Keys *)

DesfireTag_GetKeyVersion(c) ==
  Asks("GetKeyVersion", TRUE, DATA, INT(c.number), "ENCODE", READ_UCHAR("version"))

DesfireTag_ChangeKey(c) ==
  Sends("ChangeKey", c.key # <<>>, DATA,
        SEQUENCE(INT(c.number) \o INT(c.version) \o OCTETS(c.key)
                   \o (IF c.currentKey = <<>> THEN <<>> ELSE OCTETS(c.currentKey))))

DesfireTag_GetApplicationKeySettings(c) ==
  Asks("GetKeySettings", TRUE, 0, <<>>, "DECODE",
       SEQUENCE(PEEK(-1, "NO_APPLICATION_PRESENT")
         \o CONTEXT(1, SEQUENCE(READ_ENUM("access") \o READ_BOOL("frozen")
                                  \o READ_BOOL("createDelete") \o READ_BOOL("directory")
                                  \o READ_BOOL("masterChange")))
         \o READ_UINT("numKeys")))

DesfireTag_GetMasterKeySettings(c) ==
  Asks("GetKeySettings", TRUE, 0, <<>>, "DECODE",
       SEQUENCE(PEEK(-2, "READER_PROTOCOL_ERROR")
         \o CONTEXT(2, SEQUENCE(READ_BOOL("frozen") \o READ_BOOL("createDelete")
                                  \o READ_BOOL("directory") \o READ_BOOL("masterChange")))
         \o READ_UINT("numKeys")))

DesfireTag_ChangeApplicationKeySettings(c) ==
  Sends("ChangeKeySettings", TRUE, DATA, CONTEXT(1, SEQUENCE(AppKeySettings(c))))

DesfireTag_ChangeMasterKeySettings(c) ==
  Sends("ChangeKeySettings", TRUE, DATA,
        CONTEXT(2, SEQUENCE(BOOL(c.frozen) \o BOOL(c.createDelete) \o BOOL(c.directory)
                              \o BOOL(c.masterChange))))

-----------------------------------------------------------------------------
(* The two functions that hand out a list read the answer twice: they      *)
(* count the IDs, then copy them.                                          *)

StartList(octets) ==
  st_asn1_start_sequence(st_asn1_init("ENCODE", octets, Len(octets)))

Repeat(Op(_), x, n) == FoldLeft(LAMBDA r, k : Op(r), x, [k \in 1..n |-> k])

(* The size of the buffer is also the output of the read: each ID shrinks  *)
(* it to its own length, and one that is longer than an earlier one is     *)
(* counted for ever.                                                       *)
CountOne(r) ==
  CASE st_asn1_peek(r.ctx) # ST_OCTET_STRING -> r
    [] CanRead(r.ctx, ST_OCTET_STRING, r.size) ->
         [ctx |-> Consume(r.ctx), size |-> LengthAt(r.ctx), num |-> r.num + 1]
    [] OTHER -> [r EXCEPT !.num = @ + 1]

CountIDs(octets) ==
  Repeat(CountOne, [ctx |-> StartList(octets), size |-> Len(octets), num |-> 0],
         Len(octets))

CountsForEver(octets) == st_asn1_peek(CountIDs(octets).ctx) = ST_OCTET_STRING

(* The ID of an application has room for 16 octets. *)
CopyID(r) ==
  [ctx |-> Advance(r.ctx, ST_OCTET_STRING, 16),
   ids |-> Append(r.ids, st_asn1_read_octet_string(r.ctx, 16, [i \in 1..16 |-> 0]))]

ApplicationIDs(octets) ==
  LET n == CountIDs(octets)
  IN  Repeat(CopyID, [ctx |-> StartList(WriteEndOfContents(n.ctx).data), ids |-> <<>>],
             n.num).ids

CopyFileID(r) ==
  IF st_asn1_peek(r.ctx) # ST_INTEGER THEN r
  ELSE [ctx |-> Advance(r.ctx, ST_INTEGER, 9),
        ids |-> Append(r.ids, <<st_asn1_read_integer(r.ctx, 0) % 256>>)]

FileIDs(octets) ==
  Repeat(CopyFileID, [ctx |-> StartList(octets), ids |-> <<>>], Len(octets)).ids
=============================================================================
