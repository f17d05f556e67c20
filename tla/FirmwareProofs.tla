--------------------------- MODULE FirmwareProofs ---------------------------
(***************************************************************************)
(* Proofs about Firmware, for blobs of any size.  The upload goes from the *)
(* front, so what the chip was sent is what the loop has counted           *)
(* (SentIsTaken); a file is whole or absent except while it is being      *)
(* copied or after a copy that was cut short (WholeOrAbsent).              *)
(***************************************************************************)
EXTENDS Firmware, TLAPS

\* Every chunk before the offset was sent, and none before the file is read.
SentIsTaken ==
    upload \in Blob => /\ 0..sent - 1 \subseteq taken[upload]
                       /\ sent <= (IF size[upload] = Absent THEN 0 ELSE size[upload])

\* Where the upload is tells which sizes are known and whether the flag is up.
UploadOrder ==
    /\ fwLoaded => upload = "done"
    /\ upload = "none" => sent = 0 /\ \A b \in Blob : size[b] = Absent
    /\ upload = "patch" => size["rom"] = Absent

UploadInv == SentIsTaken /\ UploadOrder /\ LoadedWasSent /\ PatchBeforeRom

\* A file is whole or absent unless it is the one being copied.
WholeOrAbsent ==
    ~cutShort => \A b \in Blob : \/ disk[b] \in {Absent, Size}
                                 \/ open /\ InCopy /\ b = Current

\* The files that ensureFirmware has passed without an error are whole.
PassedAreWhole ==
    ~cutShort => /\ copying >= 2 => disk["rom"] = Size
                 /\ copying = 3 => disk["patch"] = Size

CopyInv == /\ WholeOrAbsent /\ PassedAreWhole /\ ReadyUnlessCutShort
           /\ open => InCopy
           /\ ready = "true" => copying = 0

IInv == TypeOK /\ UploadInv /\ CopyInv

-----------------------------------------------------------------------------
\* There are two files.
LEMMA TwoFiles == 0..Len(FirmwareFiles) + 1 = 0..3
  BY DEF FirmwareFiles

\* The file being copied is the ROM, then the patch.
LEMMA CurrentFile ==
  ASSUME InCopy
  PROVE  \/ copying = 1 /\ Current = "rom"
         \/ copying = 2 /\ Current = "patch"
  BY DEF InCopy, Current, FirmwareFiles

-----------------------------------------------------------------------------
\* The flags, and the variables that are not Boolean.
Flags ==
    /\ open \in BOOLEAN /\ allOk \in BOOLEAN /\ cutShort \in BOOLEAN /\ fwLoaded \in BOOLEAN

Numbers ==
    /\ disk \in [Blob -> Absent..Size] /\ size \in [Blob -> Absent..Size]
    /\ copying \in 0..3 /\ sent \in 0..Size
    /\ ready \in {"none", "true", "false"}
    /\ upload \in Blob \cup {"none", "done", "failed"}
    /\ taken \in [Blob -> SUBSET (0..Size - 1)]

\* They make up the types.
LEMMA Types == TypeOK <=> Flags /\ Numbers
  BY TwoFiles, Zenon DEF TypeOK, Flags, Numbers

\* Nothing is copied and nothing uploaded at first.
LEMMA InitInv == Init => IInv
<1> SUFFICES ASSUME Init PROVE IInv
  OBVIOUS
<1>1. Flags
  BY DEF Init, Flags
<1>2. Numbers
  BY SizeAssumption DEF Init, Numbers, Blob, Absent
<1>3. UploadInv /\ CopyInv
  BY SizeAssumption
  DEF Init, UploadInv, SentIsTaken, UploadOrder, LoadedWasSent, PatchBeforeRom, CopyInv,
      WholeOrAbsent, PassedAreWhole, ReadyUnlessCutShort, InCopy, Blob, Absent
<1> QED
  BY <1>1, <1>2, <1>3, Types DEF IInv

\* A step keeps the flags Boolean.
LEMMA FlagStep ==
  ASSUME Flags, Next
  PROVE  Flags'
<1> USE DEF Flags
<1>1. CASE EnsureFirmware \/ Copy \/ ClearCache \/ Crash
  BY <1>1, Zenon
  DEF EnsureFirmware, Copy, SkipPresent, OpenCopy, CopyBlock, CopyDone, CopyFails, ReturnReady,
      ClearCache, Crash, copyVars, uploadVars
<1>2. CASE StartUpload \/ Upload \/ EndSession \/ PowerLoss
  BY <1>2, Zenon
  DEF StartUpload, Upload, ReadBlob, ReadFails, UploadFails, SendChunk, SendFails, BlobDone,
      EndSession, PowerLoss, copyVars
<1> QED
  BY <1>1, <1>2 DEF Next

\* A step keeps the numbers in their ranges.
LEMMA NumberStep ==
  ASSUME Numbers, Next
  PROVE  Numbers'
<1> USE SizeAssumption DEF Numbers, Blob, Absent
<1>1. CASE EnsureFirmware \/ ClearCache \/ Crash
  BY <1>1 DEF EnsureFirmware, ClearCache, Crash, uploadVars
<1>2. CASE Copy
  BY <1>2, CurrentFile
  DEF Copy, SkipPresent, OpenCopy, CopyBlock, CopyDone, CopyFails, ReturnReady, uploadVars, copyVars
<1>3. CASE StartUpload \/ EndSession \/ PowerLoss
  BY <1>3 DEF StartUpload, FirstBlob, EndSession, PowerLoss, copyVars
<1>4. CASE ReadBlob \/ ReadFails \/ SendFails \/ BlobDone
  BY <1>4 DEF ReadBlob, ReadFails, SendFails, UploadFails, BlobDone, copyVars
<1>5. CASE SendChunk
  BY <1>5 DEF SendChunk, ChunksLeft, copyVars
<1> QED
  BY <1>1, <1>2, <1>3, <1>4, <1>5 DEF Next, Upload

\* A step keeps the types.
LEMMA TypeStep ==
  ASSUME TypeOK, Next
  PROVE  TypeOK'
<1>1. Flags' /\ Numbers'
  BY Types, FlagStep, NumberStep
<1>2. TypeOK' <=> Flags' /\ Numbers'
  BY TwoFiles, Zenon DEF TypeOK, Flags, Numbers
<1> QED
  BY <1>1, <1>2

\* A step of either side keeps what is known of the upload.
LEMMA UploadStep ==
  ASSUME IInv, Next
  PROVE  UploadInv'
<1> USE DEF UploadInv, SentIsTaken, UploadOrder, LoadedWasSent, PatchBeforeRom
<1>1. ASSUME UNCHANGED uploadVars PROVE UploadInv'
  BY <1>1 DEF IInv, uploadVars
<1>2. ASSUME EnsureFirmware \/ Copy \/ ClearCache PROVE UploadInv'
  BY <1>1, <1>2
  DEF EnsureFirmware, ClearCache, Copy, SkipPresent, OpenCopy, CopyBlock, CopyDone, CopyFails,
      ReturnReady
<1>3. ASSUME Crash PROVE UploadInv'
  BY <1>3 DEF IInv, TypeOK, Crash, Blob
<1>4. ASSUME StartUpload \/ EndSession \/ PowerLoss PROVE UploadInv'
  BY <1>4 DEF IInv, TypeOK, StartUpload, FirstBlob, EndSession, PowerLoss, Blob, Absent
<1>5. ASSUME ReadBlob \/ ReadFails \/ SendFails PROVE UploadInv'
  BY <1>5 DEF IInv, TypeOK, ReadBlob, ReadFails, SendFails, UploadFails, Blob, Absent
<1>6. ASSUME SendChunk PROVE UploadInv'
  BY <1>6 DEF IInv, TypeOK, SendChunk, ChunksLeft, Blob, Absent
<1>7. ASSUME BlobDone PROVE UploadInv'
  BY <1>7 DEF IInv, TypeOK, BlobDone, ChunksLeft, Blob, Absent
<1> QED
  BY <1>2, <1>3, <1>4, <1>5, <1>6, <1>7 DEF Next, Upload

\* A step of either side keeps what is known of the files.
LEMMA CopyStep ==
  ASSUME IInv, Next
  PROVE  CopyInv'
<1> USE DEF FirmwareFiles, CopyInv, WholeOrAbsent, PassedAreWhole, ReadyUnlessCutShort
<1>1. ASSUME UNCHANGED <<disk, copyVars>> PROVE CopyInv'
  BY <1>1 DEF IInv, copyVars, InCopy, Current
<1>2. ASSUME StartUpload \/ Upload \/ EndSession \/ PowerLoss PROVE CopyInv'
  BY <1>1, <1>2
  DEF StartUpload, EndSession, PowerLoss, Upload, ReadBlob, ReadFails, SendFails, UploadFails,
      SendChunk, BlobDone
<1>3. ASSUME EnsureFirmware \/ ClearCache \/ Crash PROVE CopyInv'
  BY <1>3 DEF IInv, TypeOK, EnsureFirmware, ClearCache, Crash, InCopy
<1>4. ASSUME SkipPresent \/ CopyDone \/ CopyFails PROVE CopyInv'
  BY <1>4, CurrentFile, SizeAssumption
  DEF IInv, TypeOK, SkipPresent, CopyDone, CopyEnds, CopyFails, InCopy, Blob, Absent
<1>5. ASSUME OpenCopy \/ CopyBlock PROVE CopyInv'
  BY <1>5, CurrentFile, SizeAssumption
  DEF IInv, TypeOK, OpenCopy, CopyBlock, InCopy, Current, copyVars, Blob, Absent
<1>6. ASSUME ReturnReady PROVE CopyInv'
  BY <1>6, SizeAssumption DEF IInv, TypeOK, ReturnReady, InCopy, Blob
<1> QED
  BY <1>2, <1>3, <1>4, <1>5, <1>6 DEF Next, Copy

-----------------------------------------------------------------------------
\* The invariant holds of every behaviour.
THEOREM Inductive == Spec => []IInv
<1>1. ASSUME IInv, UNCHANGED vars PROVE IInv'
  BY <1>1
  DEF IInv, TypeOK, UploadInv, SentIsTaken, UploadOrder, LoadedWasSent, PatchBeforeRom, CopyInv,
      WholeOrAbsent, PassedAreWhole, ReadyUnlessCutShort, InCopy, Current, vars, copyVars, uploadVars
<1>2. IInv /\ [Next]_vars => IInv'
  BY <1>1, TypeStep, UploadStep, CopyStep DEF IInv
<1> QED
  BY <1>2, InitInv, PTL DEF Spec

\* Every variable keeps its type: no file or upload runs past the blob.
THEOREM TypeCorrect == Spec => []TypeOK
<1>1. IInv => TypeOK
  BY DEF IInv
<1> QED
  BY <1>1, Inductive, PTL

\* fw_loaded means that every chunk of either file, as it was read, was sent.
THEOREM LoadedMeansSent == Spec => []LoadedWasSent
<1>1. IInv => LoadedWasSent
  BY DEF IInv, UploadInv
<1> QED
  BY <1>1, Inductive, PTL

\* The ROM begins only after the whole patch.
THEOREM PatchGoesFirst == Spec => []PatchBeforeRom
<1>1. IInv => PatchBeforeRom
  BY DEF IInv, UploadInv
<1> QED
  BY <1>1, Inductive, PTL

\* ensureFirmware is wrong about the files only after a copy that was cut short.
THEOREM ReadyIsTrue == Spec => []ReadyUnlessCutShort
<1>1. IInv => ReadyUnlessCutShort
  BY DEF IInv, CopyInv
<1> QED
  BY <1>1, Inductive, PTL
=============================================================================
